----------------------------- MODULE ContractMemos -----------------------------
(***************************************************************************)
(* The two memos of endpoint contracts in the kernel (kernel.rs).          *)
(*                                                                         *)
(* FloorMemo keeps what describe() said, by the ADDRESS of the endpoint's  *)
(* allocation, which a weak reference in the entry reserves.  ProbeMemo    *)
(* keeps, by NAME, the contract the last served read of the name was       *)
(* prefilled from.  A cut of urn:kernel:bindings clears both.  A request   *)
(* resolves, looks the floor up, describes outside any lock on a miss,     *)
(* inserts, and records what it used for the probe: other requests, a      *)
(* rebind and a cut run between any two of these steps.                    *)
(*                                                                         *)
(* A contract is a version number; Caching says how long one may be kept.  *)
(* "read" fields, the time a version was described at, are history.        *)
(***************************************************************************)
EXTENDS Integers, FiniteSets

CONSTANTS
  Names,         \* names bound in the root space
  Endpoints,     \* endpoint objects, each allocated at most once
  Addresses,     \* where an Arc allocation may live
  First,         \* First[n]: what n is bound to at the start
  Declared,      \* Declared[e]: the contract of e at the start
  Requests,
  Nothing,
  Caching,       \* Caching[v]: "rebind", "age" or "never" (ContractCaching)
  Age,           \* the MaxAge of an "age" contract
  MemoBound,     \* FLOOR_MEMO_BOUND
  MemoLow,       \* FLOOR_MEMO_LOW
  MaxNow         \* bound on the clock

VARIABLES
  bound,         \* the binding set: name -> endpoint
  place,         \* the address of an allocated endpoint
  contract,      \* the version describe() answers
  now,
  floors,        \* FloorMemo.entries, by address
  probes,        \* ProbeMemo.names
  rebound,       \* names rebound since the host last began to cut the bindings
  clearing,      \* a cut of the bindings: "no", "floors", "probes"
  stage, name, endpoint, started, stale, floor    \* requests

memoVars == <<floors, probes>>
hostVars == <<bound, place, contract, now, rebound>>
reqVars  == <<stage, name, endpoint, started, stale, floor>>
contractVars == <<floors, probes, bound, place, contract, now, rebound, clearing, reqVars>>

ContractVersions == DOMAIN Caching

MemoAssumption ==
  /\ Caching \in [ContractVersions -> {"rebind", "age", "never"}]
  /\ Age \in Nat \ {0}
  /\ MemoLow \in Nat /\ MemoBound \in Nat /\ MemoLow < MemoBound
  /\ First \in [Names -> Endpoints] /\ Declared \in [Endpoints -> ContractVersions]
  /\ IsFiniteSet(Addresses)
  /\ Nothing \notin Endpoints /\ Nothing \notin Addresses /\ Nothing \notin Int

\* Somebody holds a strong reference.
Strong(e) == (\E n \in Names : bound[n] = e) \/ (\E r \in Requests : endpoint[r] = e)

Held == {a \in Addresses : floors[a] # Nothing}

\* Mutation: the entry holds no weak reference.
ReservedNot == {}

\* The addresses the weak references of the memo keep from being allocated again.
Reserved == Held

Free(a) == a \notin Reserved /\ \A e \in Endpoints : Strong(e) => place[e] # a

MemosInit ==
  /\ bound = First
  /\ place \in {p \in [Endpoints -> Addresses \cup {Nothing}] :
                  \A e \in Endpoints :
                    /\ p[e] # Nothing <=> \E n \in Names : First[n] = e
                    /\ \A f \in Endpoints : e # f /\ p[e] # Nothing => p[e] # p[f]}
  /\ contract = Declared
  /\ now = 0
  /\ floors = [a \in Addresses |-> Nothing]
  /\ probes = [n \in Names |-> Nothing]
  /\ rebound = {}
  /\ clearing = "no"
  /\ stage = [r \in Requests |-> "idle"]
  /\ name = [r \in Requests |-> Nothing]
  /\ endpoint = [r \in Requests |-> Nothing]
  /\ started = [r \in Requests |-> 0]
  /\ stale = [r \in Requests |-> FALSE]
  /\ floor = [r \in Requests |-> Nothing]

-----------------------------------------------------------------------------
(* The host and the world *)

\* A name is bound to another endpoint, allocated wherever the allocator likes.
Rebind(n, e, a) ==
  /\ place[e] = Nothing
  /\ Free(a)
  /\ bound' = [bound EXCEPT ![n] = e]
  /\ place' = [place EXCEPT ![e] = a]
  /\ rebound' = rebound \cup {n}
  /\ UNCHANGED <<memoVars, contract, now, clearing, reqVars>>

\* A contract that is not static changes while its endpoint stays bound.
ContractChanges(e, v) ==
  /\ Caching[contract[e]] # "rebind"
  /\ contract' = [contract EXCEPT ![e] = v]
  /\ UNCHANGED <<memoVars, bound, place, now, rebound, clearing, reqVars>>

TimePasses ==
  /\ now < MaxNow
  /\ now' = now + 1
  /\ UNCHANGED <<memoVars, bound, place, contract, rebound, clearing, reqVars>>

\* Kernel::cut of the binding-change thread clears one memo, then the other.
ClearMemos ==
  /\ clearing = "no"
  /\ clearing' = "floors"
  /\ rebound' = {}
  /\ UNCHANGED <<memoVars, bound, place, contract, now, reqVars>>

ClearFloors ==
  /\ clearing = "floors"
  /\ floors' = [a \in Addresses |-> Nothing]
  /\ clearing' = "probes"
  /\ UNCHANGED <<probes, hostVars, reqVars>>

ClearProbes ==
  /\ clearing = "probes"
  /\ probes' = [n \in Names |-> Nothing]
  /\ clearing' = "no"
  /\ UNCHANGED <<floors, hostVars, reqVars>>

-----------------------------------------------------------------------------
(* One request *)

\* The stamp is taken, then the name resolved.
ResolveName(r, n) ==
  /\ stage[r] = "idle"
  /\ stage' = [stage EXCEPT ![r] = "resolved"]
  /\ name' = [name EXCEPT ![r] = n]
  /\ endpoint' = [endpoint EXCEPT ![r] = bound[n]]
  /\ started' = [started EXCEPT ![r] = now]
  /\ UNCHANGED <<memoVars, hostVars, clearing, stale, floor>>

Fresh(entry, at) == entry.until # Nothing => at < entry.until

\* FloorMemo::admit, under the read lock.
LookupFloor(r) ==
  /\ stage[r] = "resolved"
  /\ LET entry == floors[place[endpoint[r]]]
     IN \/ /\ entry # Nothing /\ Fresh(entry, started[r])
           /\ floor' = [floor EXCEPT ![r] = entry]
           /\ stage' = [stage EXCEPT ![r] = "admitted"]
           /\ UNCHANGED stale
        \/ /\ ~(entry # Nothing /\ Fresh(entry, started[r]))
           /\ stale' = [stale EXCEPT ![r] = entry # Nothing]
           /\ stage' = [stage EXCEPT ![r] = "missed"]
           /\ UNCHANGED floor
  /\ UNCHANGED <<memoVars, hostVars, clearing, name, endpoint, started>>

\* Keep::of: how long the version read now may be kept, from the request's stamp.
Described(r) ==
  LET v == contract[endpoint[r]]
  IN [of |-> endpoint[r], version |-> v, read |-> now,
      until |-> IF Caching[v] = "age" THEN started[r] + Age ELSE Nothing]

\* describe(), outside any lock.
Describe(r) ==
  /\ stage[r] = "missed"
  /\ floor' = [floor EXCEPT ![r] = Described(r)]
  /\ stage' = [stage EXCEPT ![r] = "described"]
  /\ UNCHANGED <<memoVars, hostVars, clearing, name, endpoint, started, stale>>

Full == Cardinality(Held) >= MemoBound

\* The entries a full memo is left with: no dead ones, and at most MemoLow live ones.
Kept(S) ==
  LET alive == {a \in Held : Strong(floors[a].of)}
  IN IF ~Full THEN S = Held
     ELSE S \subseteq alive
          /\ Cardinality(S) = (IF Cardinality(alive) < MemoLow
                               THEN Cardinality(alive) ELSE MemoLow)

\* The rest of admit, under the write lock.  A contract that may not be kept only
\* takes away the expired entry it replaces.
Insert(r) ==
  /\ stage[r] = "described"
  /\ stage' = [stage EXCEPT ![r] = "admitted"]
  /\ LET here == place[endpoint[r]]
     IN \/ /\ Caching[floor[r].version] = "never"
           /\ floors' = IF stale[r] THEN [floors EXCEPT ![here] = Nothing] ELSE floors
        \/ /\ Caching[floor[r].version] # "never"
           /\ \E S \in SUBSET Addresses :
                /\ Kept(S)
                /\ floors' = [a \in Addresses |->
                                IF a = here THEN floor[r]
                                ELSE IF a \in S THEN floors[a] ELSE Nothing]
  /\ UNCHANGED <<probes, hostVars, clearing, name, endpoint, started, stale, floor>>

\* ProbeMemo::record, except for a Meta, a verb whose answer is not cacheable and a
\* concealed refusal; then the request goes on, and in time lets go of its endpoint.
Record(r) ==
  /\ stage[r] = "admitted"
  /\ \/ UNCHANGED probes
     \/ probes' = [probes EXCEPT ![name[r]] =
                     IF Caching[floor[r].version] = "never" THEN Nothing ELSE floor[r]]
  /\ stage' = [stage EXCEPT ![r] = "idle"]
  /\ name' = [name EXCEPT ![r] = Nothing]
  /\ endpoint' = [endpoint EXCEPT ![r] = Nothing]
  /\ started' = [started EXCEPT ![r] = 0]
  /\ stale' = [stale EXCEPT ![r] = FALSE]
  /\ floor' = [floor EXCEPT ![r] = Nothing]
  /\ UNCHANGED <<floors, hostVars, clearing>>

-----------------------------------------------------------------------------
MemosNext ==
  \/ \E n \in Names, e \in Endpoints, a \in Addresses : Rebind(n, e, a)
  \/ \E e \in Endpoints, v \in ContractVersions : ContractChanges(e, v)
  \/ TimePasses
  \/ ClearMemos
  \/ ClearFloors
  \/ ClearProbes
  \/ \E r \in Requests, n \in Names : ResolveName(r, n)
  \/ \E r \in Requests : LookupFloor(r)
  \/ \E r \in Requests : Describe(r)
  \/ \E r \in Requests : Insert(r)
  \/ \E r \in Requests : Record(r)

MemosSpec == MemosInit /\ [][MemosNext]_contractVars

-----------------------------------------------------------------------------
(* Properties *)

\* A request is never admitted on another endpoint's contract, although endpoints
\* die and addresses are allocated again while the memo holds entries for them.
OwnContract ==
  \A r \in Requests : stage[r] = "admitted" => floor[r].of = endpoint[r]

\* How old a contract a request may be admitted on: a static one is the endpoint's
\* own to the letter, an ageing one was read less than its age before the request
\* began, and one that may not be kept was read by the request itself.
NoOlderThanDeclared ==
  \A r \in Requests : stage[r] = "admitted" =>
    LET v == floor[r].version
    IN CASE Caching[v] = "rebind" -> v = contract[endpoint[r]]
         [] Caching[v] = "age"    -> started[r] < floor[r].read + Age
         [] Caching[v] = "never"  -> started[r] <= floor[r].read

\* The memo never outgrows its bound, whatever dies or stays alive.
MemoBounded == Cardinality(Held) <= MemoBound

\* A request is admitted on its own endpoint's contract, none older than the
\* contract declares, and the memo keeps its bound (FloorMemo::admit).
AdmittedOnOwnContract == OwnContract /\ NoOlderThanDeclared /\ MemoBounded

\* What the comment on ProbeMemo says of a name that was not served since the
\* bindings changed: once the cut is done, the memo no longer answers for an
\* endpoint the name is not bound to.
ForgetsReboundNames ==
  \A n \in Names :
    clearing = "no" /\ n \notin rebound /\ probes[n] # Nothing => probes[n].of = bound[n]

=============================================================================
