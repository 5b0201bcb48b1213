------------------------------ MODULE RunBudgets ------------------------------
(***************************************************************************)
(* The budgets of one run (run.rs): the retry pool and the byte pool that a *)
(* door mints and every sub-request below it draws from.                   *)
(*                                                                         *)
(* A pool is a chain of atomic counters, from a request's own up to the    *)
(* door's.  Taking subtracts from each counter in turn, the request's own  *)
(* first, and adds back what it took when one further up cannot cover it;  *)
(* giving back adds to each in turn.  Each counter is one compare-and-swap *)
(* or one fetch-add, so a take is many steps and the takes, undos, returns *)
(* and measurements of requests that run at once interleave between them.  *)
(*                                                                         *)
(* The two pools of a run have counters of their own, and a behaviour      *)
(* follows one: retries are spent one at a time and are never returned.    *)
(***************************************************************************)
EXTENDS Tallies

CONSTANTS
  Requests,      \* the requests of the run
  DoorRequest,          \* the request at the door, and the counter it mints
  Absent,        \* no counter: above the door's, or not admitted yet
  DoorLimit,     \* what the door grants the run
  Entitlements,  \* what the capability of a sub-request may entitle it to
  Amounts        \* what one take of bytes asks for

\* A request admitted with a narrower entitlement mints a counter of its own,
\* named after the request.
VARIABLES
  metered,   \* which of the run's two pools this is: retries or bytes
  left,      \* PoolCell.left of each counter
  above,     \* PoolCell.parent of each counter
  pool,      \* the pool each request runs with: its lowest counter
  entitled,  \* what the capability of each request is entitled to
  pc,        \* what each request is doing to a pool
  at,        \* the counter it has come to
  stop,      \* the counter that could not cover a take
  amount,    \* how much it takes, puts back or returns
  least,     \* the least it has read while measuring
  holding,      \* what its reservations hold
  kept,      \* what it drew for good
  limit      \* history: what each counter started with

budgetVars == <<metered, left, above, pool, entitled, pc, at, stop, amount, least, holding, kept, limit>>

BudgetAssumption ==
  /\ IsFiniteSet(Requests) /\ DoorRequest \in Requests /\ Absent \notin Requests
  /\ DoorLimit \in Nat
  /\ Entitlements \subseteq Nat
  /\ Amounts \subseteq Nat \ {0}

Phases == {"new", "measuring", "idle", "taking", "undoing", "giving"}

\* The counters of the pool that starts at c, up to the door's: what any set that
\* holds c and the parents of its members holds.
PathIn(parent, c) ==
  {d \in Requests : \A S \in SUBSET Requests :
     c \in S /\ (\A x \in S : parent[x] # Absent => parent[x] \in S) => d \in S}
Path(c) == PathIn(above, c)

BudgetInit ==
  /\ metered \in {"retries", "bytes"}
  /\ left  = [c \in Requests |-> IF c = DoorRequest THEN DoorLimit ELSE 0]
  /\ limit = left
  /\ above = [c \in Requests |-> Absent]
  /\ pool  = [r \in Requests |-> IF r = DoorRequest THEN DoorRequest ELSE Absent]
  /\ entitled = [r \in Requests |-> IF r = DoorRequest THEN DoorLimit ELSE 0]
  /\ pc = [r \in Requests |-> IF r = DoorRequest THEN "idle" ELSE "new"]
  /\ at = [r \in Requests |-> Absent]
  /\ stop = [r \in Requests |-> Absent]
  /\ amount = [r \in Requests |-> 0]
  /\ least = [r \in Requests |-> 0]
  /\ holding = [r \in Requests |-> 0]
  /\ kept = [r \in Requests |-> 0]

-----------------------------------------------------------------------------
(* Admission of a sub-request: admitted, narrowed, remaining *)

\* p issues r under a capability entitled to e; p goes on while r is admitted.
AdmitRequest(r, p, e) ==
  /\ pc[r] = "new" /\ pc[p] = "idle"
  /\ pc' = [pc EXCEPT ![r] = "measuring"]
  /\ pool' = [pool EXCEPT ![r] = pool[p]]
  /\ entitled' = [entitled EXCEPT ![r] = e]
  /\ at' = [at EXCEPT ![r] = pool[p]]
  /\ least' = [least EXCEPT ![r] = left[pool[p]]]
  /\ UNCHANGED <<metered, left, above, stop, amount, holding, kept, limit>>

MinOf(a, b) == IF a <= b THEN a ELSE b

\* What is left is less than no entitlement: the pool is narrowed.
Narrows(r) == entitled[r] < least[r]

\* One counter further up is read.
Measure(r) ==
  /\ pc[r] = "measuring" /\ above[at[r]] # Absent
  /\ at' = [at EXCEPT ![r] = above[at[r]]]
  /\ least' = [least EXCEPT ![r] = MinOf(@, left[above[at[r]]])]
  /\ UNCHANGED <<metered, left, above, pool, entitled, pc, stop, amount, holding, kept, limit>>

\* Every counter was read: r runs with a counter of its own below the pool of its
\* issuer, or, when it is entitled to all that was left, with that very pool.
NarrowPool(r) ==
  /\ pc[r] = "measuring" /\ above[at[r]] = Absent
  /\ pc' = [pc EXCEPT ![r] = "idle"]
  /\ at' = [at EXCEPT ![r] = Absent]
  /\ least' = [least EXCEPT ![r] = 0]
  /\ \/ /\ Narrows(r)
        /\ pool' = [pool EXCEPT ![r] = r]
        /\ above' = [above EXCEPT ![r] = pool[r]]
        /\ left' = [left EXCEPT ![r] = entitled[r]]
        /\ limit' = [limit EXCEPT ![r] = entitled[r]]
     \/ /\ ~Narrows(r)
        /\ UNCHANGED <<pool, above, left, limit>>
  /\ UNCHANGED <<metered, entitled, stop, amount, holding, kept>>

-----------------------------------------------------------------------------
(* Taking: try_take, take *)

\* Retries are spent one at a time.
Asks == IF metered = "retries" THEN {1} ELSE Amounts

Take(r, n) ==
  /\ pc[r] = "idle"
  /\ pc' = [pc EXCEPT ![r] = "taking"]
  /\ amount' = [amount EXCEPT ![r] = n]
  /\ at' = [at EXCEPT ![r] = pool[r]]
  /\ UNCHANGED <<metered, left, above, pool, entitled, stop, least, holding, kept, limit>>

Covers(r) == left[at[r]] >= amount[r]

\* The counter covers it; after the door's, the amount is granted.
TakeCell(r) ==
  /\ pc[r] = "taking" /\ Covers(r)
  /\ left' = [left EXCEPT ![at[r]] = @ - amount[r]]
  /\ at' = [at EXCEPT ![r] = above[at[r]]]
  /\ IF above[at[r]] = Absent
     THEN /\ holding' = [holding EXCEPT ![r] = @ + amount[r]]
          /\ pc' = [pc EXCEPT ![r] = "idle"]
          /\ amount' = [amount EXCEPT ![r] = 0]
     ELSE UNCHANGED <<holding, pc, amount>>
  /\ UNCHANGED <<metered, above, pool, entitled, stop, least, kept, limit>>

\* Mutation: a refused take puts nothing back.
UndoneNever(r) == FALSE

\* Is there anything to put back when the take stops at r's place?
Undone(r) == at[r] # pool[r]

\* The counter cannot cover it: the take is refused, once those below it have
\* back what was taken.
Refuse(r) ==
  /\ pc[r] = "taking" /\ ~Covers(r)
  /\ IF Undone(r)
     THEN /\ pc' = [pc EXCEPT ![r] = "undoing"]
          /\ stop' = [stop EXCEPT ![r] = at[r]]
          /\ at' = [at EXCEPT ![r] = pool[r]]
          /\ UNCHANGED amount
     ELSE /\ pc' = [pc EXCEPT ![r] = "idle"]
          /\ at' = [at EXCEPT ![r] = Absent]
          /\ amount' = [amount EXCEPT ![r] = 0]
          /\ UNCHANGED stop
  /\ UNCHANGED <<metered, left, above, pool, entitled, least, holding, kept, limit>>

UndoCell(r) ==
  /\ pc[r] = "undoing"
  /\ left' = [left EXCEPT ![at[r]] = @ + amount[r]]
  /\ IF above[at[r]] = stop[r]
     THEN /\ pc' = [pc EXCEPT ![r] = "idle"]
          /\ at' = [at EXCEPT ![r] = Absent]
          /\ stop' = [stop EXCEPT ![r] = Absent]
          /\ amount' = [amount EXCEPT ![r] = 0]
     ELSE /\ at' = [at EXCEPT ![r] = above[at[r]]]
          /\ UNCHANGED <<pc, stop, amount>>
  /\ UNCHANGED <<metered, above, pool, entitled, least, holding, kept, limit>>

-----------------------------------------------------------------------------
(* What was taken: Reservation, give_back *)

\* A drawn amount, or the bytes of a reservation that is kept, is never returned.
KeepDrawn(r) ==
  /\ pc[r] = "idle" /\ holding[r] > 0
  /\ kept' = [kept EXCEPT ![r] = @ + holding[r]]
  /\ holding' = [holding EXCEPT ![r] = 0]
  /\ UNCHANGED <<metered, left, above, pool, entitled, pc, at, stop, amount, least, limit>>

\* A reservation shrinks or drops, or a collect fails and drops what it read.
Give(r, n) ==
  /\ metered = "bytes" /\ pc[r] = "idle" /\ n <= holding[r]
  /\ holding' = [holding EXCEPT ![r] = @ - n]
  /\ pc' = [pc EXCEPT ![r] = "giving"]
  /\ amount' = [amount EXCEPT ![r] = n]
  /\ at' = [at EXCEPT ![r] = pool[r]]
  /\ UNCHANGED <<metered, left, above, pool, entitled, stop, least, kept, limit>>

GiveCell(r) ==
  /\ pc[r] = "giving"
  /\ left' = [left EXCEPT ![at[r]] = @ + amount[r]]
  /\ at' = [at EXCEPT ![r] = above[at[r]]]
  /\ IF above[at[r]] = Absent
     THEN /\ pc' = [pc EXCEPT ![r] = "idle"]
          /\ amount' = [amount EXCEPT ![r] = 0]
     ELSE UNCHANGED <<pc, amount>>
  /\ UNCHANGED <<metered, above, pool, entitled, stop, least, holding, kept, limit>>

BudgetNext ==
  \E r \in Requests :
    \/ \E p \in Requests, e \in Entitlements : AdmitRequest(r, p, e)
    \/ Measure(r)
    \/ NarrowPool(r)
    \/ \E n \in Asks : Take(r, n)
    \/ TakeCell(r)
    \/ Refuse(r)
    \/ UndoCell(r)
    \/ KeepDrawn(r)
    \/ \E n \in Amounts : Give(r, n)
    \/ GiveCell(r)

BudgetSpec == BudgetInit /\ [][BudgetNext]_budgetVars

-----------------------------------------------------------------------------
(* Properties *)

\* Every variable keeps its type.
BudgetsTyped ==
  /\ metered \in {"retries", "bytes"}
  /\ left \in [Requests -> Nat] /\ limit \in [Requests -> Nat]
  /\ above \in [Requests -> Requests \cup {Absent}]
  /\ pool \in [Requests -> Requests \cup {Absent}]
  /\ entitled \in [Requests -> Nat]
  /\ pc \in [Requests -> Phases]
  /\ at \in [Requests -> Requests \cup {Absent}]
  /\ stop \in [Requests -> Requests \cup {Absent}]
  /\ amount \in [Requests -> Nat] /\ least \in [Requests -> Nat]
  /\ holding \in [Requests -> Nat] /\ kept \in [Requests -> Nat]

Running == {r \in Requests : pc[r] \notin {"new", "measuring"}}

\* What the requests below a counter hold or drew.
Used(c) ==
  Tally(Requests, [r \in Requests |-> IF r \in Running /\ c \in Path(pool[r])
                                      THEN holding[r] + kept[r] ELSE 0])

Minted == {c \in Requests : c = DoorRequest \/ above[c] # Absent}

\* Requests that take at the same time never hold more together than any counter
\* above them started with: not the run more than the door granted, not the tree
\* below a narrowed request more than it was narrowed to.
NeverOverdrawn == \A c \in Minted : Used(c) <= limit[c]

\* Refused takes and returns leave no trace: with none under way, every counter
\* is what it started with less what is held below it.
NothingLeaks ==
  (\A r \in Running : pc[r] = "idle") => \A c \in Minted : left[c] + Used(c) = limit[c]

\* A request never holds more than its capability is entitled to.
WithinEntitlement == \A r \in Running : holding[r] + kept[r] <= entitled[r]

\* However the takes, undos and returns of a run interleave, its budget is never
\* overdrawn and never leaks (Pool::try_take, give_back); and a request draws no more
\* retries than its own capability is entitled to (RetryBudget).
BudgetsHold ==
  /\ NeverOverdrawn /\ NothingLeaks
  /\ metered = "retries" => WithinEntitlement

=============================================================================
