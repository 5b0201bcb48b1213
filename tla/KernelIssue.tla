------------------------------ MODULE KernelIssue ------------------------------
(***************************************************************************)
(* The one resolution path of the kernel (kernel.rs, issue_answer and      *)
(* answer_kernel_op), from the name as asked to the answer: rewriting,     *)
(* the nesting budget, kernel operations, resolution, the limiter, the     *)
(* declared floor and concealment, the cache, the invocation with its      *)
(* sub-requests, the store, and the cut that follows a write.  Requests    *)
(* run concurrently and may be dropped where they await.                   *)
(*                                                                         *)
(* Every door fronts one piece of state, whatever names lead to it, and a  *)
(* version number stands for that state.  An answer is kept as the         *)
(* versions it was built from.  The cut log is taken as exact, which       *)
(* ReprCache proves.                                                       *)
(***************************************************************************)
EXTENDS Integers

CONSTANTS
    Tasks,        \* requests that can be under way at once
    MaxIssues,    \* bound: requests a host issues
    MaxDepth,     \* the kernel's nesting budget
    Names,        \* names, as asked and canonical
    KernelOps,    \* the names under urn:kernel:
    Streams,      \* the names under urn:stream:
    Table,        \* Table[n]: n by the kernel's own alias table, or Refused
    Route,        \* Route[n]: what the chain resolves n to, and the name it reports
    Contract,     \* Contract[d]: what the endpoint at door d declares and does
    Capabilities, \* sets of scopes, as callers hold them
    Asks,         \* the requests a host may issue: name, verb and capability
    None, Refused

Miss == "miss"
Breach == "breach"
Bindings == "bindings"
Verbs == {"source", "sink", "meta"}
Outcomes == {"ok", "unresolved", "limited", "denied", "notfound", "failed", "depth"}
Threads == Names \cup {Bindings}
Doors == DOMAIN Contract
Stateful == Doors \cup {Bindings}

Door(n) == Route[n].door
Reported(n) == Route[n].reported

\* A name that gets as far as an endpoint.
Dispatches(n) ==
    /\ Door(n) \in Doors /\ ~Contract[Door(n)].limiter
    /\ Reported(n) = n \/ Reported(n) \notin KernelOps \cup Streams

\* The names of one door report one name, which leads to it.
ASSUME IssueAssumption ==
    /\ MaxIssues \in Nat /\ MaxDepth \in Nat
    /\ KernelOps \subseteq Names /\ Streams \subseteq Names
    /\ Table \in [Names -> Names \cup {Refused}] /\ Refused \notin Names
    /\ None \notin Tasks \cup Names \cup Outcomes
    /\ Bindings \notin Names \cup Doors /\ {Miss, Breach} \cap Doors = {}
    /\ \A n \in Names :
          /\ Door(n) \in Doors \cup {Miss, Breach} /\ Reported(n) \in Names
          /\ Dispatches(n) => /\ Door(Reported(n)) = Door(n)
                              /\ \A m \in Names : Dispatches(m) /\ Door(m) = Door(n)
                                    => Reported(m) = Reported(n)
    /\ \A ask \in Asks : ask.name \in Names /\ ask.verb \in Verbs /\ ask.cap \in Capabilities
    /\ \A d \in Doors : Contract[d].calls \in Names \cup {None}

VARIABLES
    task,       \* task[t]: the request in slot t
    issued,     \* how many requests hosts have issued
    version,    \* version[d]: the state behind door d, and of the bindings
    cuts,       \* cuts[n]: how often thread n was cut
    entry,      \* entry[k]: the answer cached under key k, for the keys with one
    rebinding,  \* the bindings have changed and their thread is not yet cut
    lost        \* history: doors whose write was dropped after it changed them

vars == <<task, issued, version, cuts, entry, rebinding, lost>>

NothingSeen == [n \in {} |-> 0]
Sees(f, d) == d \in DOMAIN f
Idle == [pc |-> "idle"]
\* `root` is the host's request that t was issued for, itself or through others.
Fresh(ask, depth, parent, root) ==
    [pc |-> "arrive", verb |-> ask.verb, asked |-> ask.name, name |-> ask.name,
     cap |-> ask.cap, depth |-> depth, parent |-> parent, root |-> root, taken |-> cuts,
     threads |-> {}, volatile |-> FALSE, seen |-> NothingSeen, short |-> FALSE,
     wrote |-> FALSE, called |-> FALSE, outcome |-> None, told |-> None]

Busy(t) == task[t].pc # "idle"
At(t, point) == Busy(t) /\ task[t].pc = point

Init ==
    /\ task = [t \in Tasks |-> Idle]
    /\ issued = 0
    /\ version = [d \in Stateful |-> 0]
    /\ cuts = [n \in Threads |-> 0]
    /\ entry = [k \in {} |-> None]
    /\ rebinding = FALSE
    /\ lost = {}

-------------------------------------------------------------------------------
(* What the kernel decides from names and declarations.                    *)

DoorOf(t) == Door(task[t].name)

\* The scopes a verb needs: its own declaration, and for a verb the endpoint does
\* not declare everything the endpoint declares; a description needs nothing.
Declares(d, verb) == verb \in DOMAIN Contract[d].requires
Requirements(d, verb) ==
    IF Declares(d, verb) THEN Contract[d].requires[verb]
    ELSE IF verb = "meta" THEN {}
    ELSE UNION {Contract[d].requires[v] : v \in DOMAIN Contract[d].requires}

Passes(d, verb, cap) == Requirements(d, verb) \subseteq cap

\* A refusal that must not say the name is bound.
Conceals(d, verb, cap) ==
    /\ Contract[d].sensitive # {}
    /\ IF verb = "meta"
       THEN \A v \in DOMAIN Contract[d].requires : ~Passes(d, v, cap)
       ELSE (Declares(d, verb) => verb \in Contract[d].sensitive) /\ ~Passes(d, verb, cap)

NameAsAsked(n) == n
\* The name a space reports that it resolved instead is adopted.
Adopted(n) == Reported(n)

\* The name a miss or a concealed refusal is told under.
ToldCanonical(n) == Adopted(n)
Told(n) == n

KeyWithoutCapability(name, verb, cap) ==
    [name |-> name, verb |-> verb, cap |-> {}]

\* An answer is shared only under the same capability.
KeyOf(name, verb, cap) == [name |-> name, verb |-> verb, cap |-> cap]
KeyAt(t) == KeyOf(task[t].name, task[t].verb, task[t].cap)

Refuse(t, outcome, told) ==
    task' = [task EXCEPT ![t].pc = "done", ![t].outcome = outcome, ![t].told = told]

\* f with x mapped to y.
With(f, x, y) == [z \in DOMAIN f \cup {x} |-> IF z = x THEN y ELSE f[z]]
SawBindings == [d \in {Bindings} |-> version[d]]

Elsewhere == UNCHANGED <<issued, version, cuts, entry, rebinding, lost>>

-------------------------------------------------------------------------------
(* Issuing, by a host and by an invocation.                                *)

Issue(t, ask) ==
    /\ ~Busy(t) /\ issued < MaxIssues
    /\ task' = [task EXCEPT ![t] = Fresh(ask, 0, None, t)]
    /\ issued' = issued + 1
    /\ UNCHANGED <<version, cuts, entry, rebinding, lost>>

Call(t, u) ==
    /\ At(t, "running") /\ ~task[t].called /\ ~Busy(u)
    /\ LET callee == Contract[DoorOf(t)].calls
       IN /\ callee # None
          /\ task' = [task EXCEPT
                 ![t].pc = "waiting", ![t].called = TRUE,
                 ![u] = Fresh([name |-> callee, verb |-> "source", cap |-> task[t].cap],
                              task[t].depth + 1, t, task[t].root)]
    /\ Elsewhere

\* The kernel's own rewriting, the nesting budget and the kernel operations
\* come before anything resolves (the snapshot was taken first, in Fresh).
Arrive(t) ==
    /\ At(t, "arrive")
    /\ LET name == Table[task[t].asked]
       IN IF name = Refused THEN Refuse(t, "failed", None)
          ELSE IF task[t].depth > MaxDepth THEN Refuse(t, "depth", name)
          ELSE task' = [task EXCEPT ![t].name = name,
                            ![t].pc = IF name \in KernelOps THEN "kernel" ELSE "resolve"]
    /\ Elsewhere

\* A kernel operation over the bindings: served, or computed.
AnswerKernelOp(t) ==
    /\ At(t, "kernel")
    /\ task' = [task EXCEPT
           ![t] = IF @.verb = "sink" THEN [@ EXCEPT !.pc = "done", !.outcome = "failed"]
                  ELSE IF KeyAt(t) \in DOMAIN entry
                  THEN [@ EXCEPT !.pc = "done", !.outcome = "ok",
                                 !.seen = entry[KeyAt(t)].seen,
                                 !.threads = entry[KeyAt(t)].threads]
                  ELSE [@ EXCEPT !.pc = "store", !.outcome = "ok",
                                 !.seen = SawBindings,
                                 !.threads = {Bindings}]]
    /\ Elsewhere

\* The declared floor, under the name adopted; a concealed refusal is a miss.
Admit(t, canonical) ==
    LET name == task[t].name
        verb == task[t].verb
    IN IF Conceals(Door(name), verb, task[t].cap) THEN Refuse(t, "unresolved", Told(name))
       ELSE IF ~Passes(Door(name), verb, task[t].cap) THEN Refuse(t, "denied", canonical)
       ELSE task' = [task EXCEPT ![t].name = canonical,
                                 ![t].pc = IF verb = "sink" THEN "running" ELSE "lookup"]

\* Resolution in the chain, and everything that refuses before dispatch.
Resolve(t) ==
    /\ At(t, "resolve")
    /\ LET name == task[t].name
           door == Door(name)
           canonical == Adopted(name)
       IN IF door = Breach THEN Refuse(t, "failed", None)
          ELSE IF door = Miss THEN Refuse(t, "unresolved", Told(name))
          ELSE IF canonical # name /\ canonical \in KernelOps \cup Streams
          THEN Refuse(t, "failed", None)
          ELSE IF Contract[door].limiter THEN Refuse(t, "limited", canonical)
          ELSE Admit(t, canonical)
    /\ Elsewhere

Lookup(t) ==
    /\ At(t, "lookup")
    /\ task' = [task EXCEPT
           ![t] = IF KeyAt(t) \in DOMAIN entry
                  THEN [@ EXCEPT !.pc = "done", !.outcome = "ok",
                                 !.seen = entry[KeyAt(t)].seen,
                                 !.threads = entry[KeyAt(t)].threads]
                  ELSE [@ EXCEPT !.pc = IF task[t].verb = "meta" THEN "describe" ELSE "running"]]
    /\ Elsewhere

\* A description is a function of the binding and hangs from its thread alone.
Describe(t) ==
    /\ At(t, "describe")
    /\ task' = [task EXCEPT ![t].pc = "store", ![t].outcome = "ok",
                            ![t].seen = SawBindings,
                            ![t].threads = {Bindings}]
    /\ Elsewhere

-------------------------------------------------------------------------------
(* The invocation.                                                         *)

\* The endpoint reads the state behind its name, or a write changes it.
Touch(t) ==
    /\ At(t, "running") /\ ~task[t].wrote /\ ~Sees(task[t].seen, DoorOf(t))
    /\ IF task[t].verb = "sink"
       THEN /\ version' = [version EXCEPT ![DoorOf(t)] = @ + 1]
            /\ task' = [task EXCEPT ![t].wrote = TRUE]
       ELSE /\ task' = [task EXCEPT ![t].seen = With(@, DoorOf(t), version[DoorOf(t)])]
            /\ UNCHANGED version
    /\ UNCHANGED <<issued, cuts, entry, rebinding, lost>>

\* What two parts of an answer were built from: of a door both saw, the older.
Built(f, g) == [d \in DOMAIN f \cup DOMAIN g |->
                   IF Sees(f, d) /\ (Sees(g, d) => f[d] <= g[d]) THEN f[d] ELSE g[d]]

FoldForgivingDepth(p, c) ==
    [p EXCEPT !.pc = "running", !.seen = Built(p.seen, c.seen),
              !.threads = @ \cup c.threads \cup {c.asked},
              !.volatile = @ \/ c.volatile,
              !.short = @ \/ c.short \/ c.outcome = "depth"]

\* What the issuing invocation records of a sub-request: its threads and expiry,
\* for a miss the missing name too, and for any other failure that nothing
\* built on it may be cached.
Fold(p, c) ==
    [p EXCEPT !.pc = "running", !.seen = Built(p.seen, c.seen),
              !.threads = @ \cup
                  CASE c.outcome = "ok" -> c.threads
                    [] c.outcome = "notfound" -> c.threads \cup {c.asked}
                    [] c.outcome \in {"unresolved", "limited"} -> {c.told}
                    [] OTHER -> {},
              !.volatile = @ \/ c.volatile \/ c.outcome \in {"denied", "depth", "failed"},
              !.short = @ \/ c.short \/ c.outcome = "depth"]

Return(u) ==
    /\ At(u, "done") /\ task[u].parent # None
    /\ task' = [task EXCEPT ![task[u].parent] = Fold(@, task[u]), ![u] = Idle]
    /\ Elsewhere

\* A host takes its answer.
Reap(t) ==
    /\ At(t, "done") /\ task[t].parent = None
    /\ task' = [task EXCEPT ![t] = Idle]
    /\ Elsewhere

AfterRunning(t) == IF task[t].verb = "sink" THEN "cut" ELSE "store"

\* The endpoint answers: the answer hangs from what it read, and unless it is
\* volatile from its own canonical name, the name a write to it cuts.
Succeed(t) ==
    /\ At(t, "running")
    /\ LET volatile == task[t].volatile \/ Contract[DoorOf(t)].expiry = "always"
       IN task' = [task EXCEPT
              ![t].pc = AfterRunning(t), ![t].outcome = "ok", ![t].volatile = volatile,
              ![t].threads = IF volatile THEN @ ELSE @ \cup {task[t].name}]
    /\ Elsewhere

\* A write that ran and did not succeed is cut all the same, also one answered
\* `revalidated` with nothing offered, whose error is made where it is cut
\* (unoffered).
AfterFailing(t) == IF task[t].verb = "sink" THEN "cut" ELSE "done"

\* It fails, before or after it did anything, or answers `revalidated` to no offer
\* ("failed"); what a NotFound hung from is handed to the issuer.
Fail(t, kind) ==
    /\ At(t, "running")
    /\ task' = [task EXCEPT
           ![t].pc = AfterFailing(t), ![t].outcome = kind, ![t].told = task[t].name,
           ![t].threads = @ \cup {task[t].name}]
    /\ Elsewhere

\* The answer is kept unless it is volatile, or a thread it hangs from was cut
\* since the snapshot.
Store(t) ==
    /\ At(t, "store")
    /\ entry' = IF task[t].volatile \/ \E n \in task[t].threads : cuts[n] # task[t].taken[n]
                THEN entry
                ELSE With(entry, KeyAt(t),
                          [seen |-> task[t].seen, threads |-> task[t].threads,
                           short |-> task[t].short])
    /\ task' = [task EXCEPT ![t].pc = "done"]
    /\ UNCHANGED <<issued, version, cuts, rebinding, lost>>

Cut(n) ==
    /\ cuts' = [cuts EXCEPT ![n] = @ + 1]
    /\ entry' = [k \in {k \in DOMAIN entry : n \notin entry[k].threads} |-> entry[k]]

\* The write's own cut, of its canonical target.
CutTarget(t) ==
    /\ At(t, "cut")
    /\ Cut(task[t].name)
    /\ task' = [task EXCEPT ![t].pc = "done"]
    /\ UNCHANGED <<issued, version, rebinding, lost>>

-------------------------------------------------------------------------------
(* Faults and changes from outside.                                        *)

\* A host drops a request where its endpoint awaits: its sub-requests go with
\* it, and no cut follows what it wrote.
Drop(t) ==
    /\ Busy(t) /\ task[t].parent = None /\ task[t].pc \in {"running", "waiting"}
    /\ task' = [u \in Tasks |-> IF Busy(u) /\ task[u].root = t THEN Idle ELSE task[u]]
    /\ lost' = lost \cup (IF task[t].wrote THEN {DoorOf(t)} ELSE {})
    /\ UNCHANGED <<issued, version, cuts, entry, rebinding>>

Rebind ==
    /\ ~rebinding /\ version[Bindings] = 0
    /\ version' = [version EXCEPT ![Bindings] = @ + 1]
    /\ rebinding' = TRUE
    /\ UNCHANGED <<task, issued, cuts, entry, lost>>

BindingsChanged ==
    /\ rebinding
    /\ Cut(Bindings)
    /\ rebinding' = FALSE
    /\ UNCHANGED <<task, issued, version, lost>>

Next ==
    \/ \E t \in Tasks, ask \in Asks : Issue(t, ask)
    \/ \E t, u \in Tasks : Call(t, u)
    \/ \E t \in Tasks :
        \/ Arrive(t) \/ AnswerKernelOp(t) \/ Resolve(t) \/ Lookup(t) \/ Describe(t)
        \/ Touch(t) \/ Succeed(t) \/ Fail(t, "notfound") \/ Fail(t, "failed")
        \/ Store(t) \/ CutTarget(t) \/ Return(t) \/ Reap(t) \/ Drop(t)
    \/ Rebind \/ BindingsChanged

Spec == Init /\ [][Next]_vars

-------------------------------------------------------------------------------
(* The read-outs: what explain and the cache probe say of a request without *)
(* issuing it.                                                             *)

\* The dry run takes the kernel's rewriting and the chain's walk.
ExplainedFrom(name, ask) ==
    LET door == IF name \in Streams THEN Miss ELSE Door(name)
    IN  IF name \in KernelOps THEN "kernel"
        ELSE IF door = Breach THEN "refused"
        ELSE IF door = Miss THEN "unresolved"
        ELSE IF Contract[door].limiter THEN "limited"
        ELSE IF Adopted(name) # name /\ Adopted(name) \in KernelOps THEN "refused"
        ELSE IF Passes(door, ask.verb, ask.cap) THEN "answered" ELSE "lacking"

\* A slip: the walk starts from the name as asked.
ExplainedUnrewritten(ask) == ExplainedFrom(ask.name, ask)

Explained(ask) == IF Table[ask.name] = Refused THEN "refused" ELSE ExplainedFrom(Table[ask.name], ask)

\* A slip: the probe asks by the name the kernel's table gives.
ProbedAsAsked(name, verb) == name

\* The probe adopts what a space reports, as serving does, except for a
\* description, which it asks for by the name the kernel's table gives.
ProbedAs(name, verb) ==
    IF verb = "meta" \/ name \in KernelOps \/ Door(name) \in {Miss, Breach} THEN name
    ELSE Adopted(name)

Probed(ask) ==
    /\ ask.verb # "sink" /\ Table[ask.name] # Refused
    /\ KeyOf(ProbedAs(Table[ask.name], ask.verb), ask.verb, ask.cap) \in DOMAIN entry

-------------------------------------------------------------------------------
\* A write to d has been dispatched and its cut is still to come.
Writing(d) ==
    \/ d = Bindings /\ rebinding
    \/ \E t \in Tasks : Busy(t) /\ task[t].wrote /\ DoorOf(t) = d /\ task[t].pc # "done"

\* An answer in the cache, of whatever composite under whatever name, is built
\* from the state as it is, unless a write to that state is still on its way to
\* its cut or was dropped by its host on the way: once a write has returned,
\* with success or not and through whichever name, no older answer is served.
ReadYourWrites ==
    \A k \in DOMAIN entry : \A d \in DOMAIN entry[k].seen :
        entry[k].seen[d] < version[d] => Writing(d) \/ d \in lost

\* No cached answer was shaped by the nesting budget: what a request at one
\* depth was refused is never served to a shallower one.
NoDepthInCache == \A k \in DOMAIN entry : ~entry[k].short

\* Everything a cached answer was built from its caller may read itself: the
\* floor holds through composites and for cached and computed answers alike.
CachedWithinAuthority ==
    \A k \in DOMAIN entry : \A d \in DOMAIN entry[k].seen \ {Bindings} :
        Passes(d, "source", k.cap)

\* A concealed refusal and a miss are told in the same words: the name as the
\* caller asked for it, after no rewriting but the kernel's own.
ToldAsMissing(outcomes) ==
    \A t \in Tasks : At(t, "done") /\ task[t].outcome \in outcomes
        => task[t].told = Table[task[t].asked]
ConcealedIsMissing == ToldAsMissing({"unresolved"})

\* What a dry run explains of a request is what issuing it does ("the same
\* walk Kernel::issue takes, with an observer that records", explain.rs), but
\* for a concealed name, which is explained to those who may ask.
OutcomesOf(explained) ==
    CASE explained = "unresolved" -> {"unresolved"}
      [] explained = "limited" -> {"limited"}
      [] explained = "refused" -> {"failed"}
      [] explained = "lacking" -> {"denied"}
      [] explained = "kernel" -> {"ok", "failed"}
      [] explained = "answered" -> {"ok", "notfound", "failed"}

AskOf(t) == [name |-> task[t].asked, verb |-> task[t].verb, cap |-> task[t].cap]
Concealed(ask) ==
    /\ Table[ask.name] # Refused /\ Door(Table[ask.name]) \in DOMAIN Contract
    /\ Conceals(Door(Table[ask.name]), ask.verb, ask.cap)

ExplainedAsAnswered ==
    \A t \in Tasks : At(t, "done") /\ task[t].outcome # "depth" /\ ~Concealed(AskOf(t))
        => task[t].outcome \in OutcomesOf(Explained(AskOf(t)))

WouldBeServed(ask) ==
    LET name == Table[ask.name]
    IN  /\ ask.verb # "sink" /\ name # Refused
        /\ IF name \in KernelOps THEN KeyOf(name, ask.verb, ask.cap) \in DOMAIN entry
           ELSE /\ KeyOf(Adopted(name), ask.verb, ask.cap) \in DOMAIN entry
                /\ Dispatches(name)
                /\ ~Concealed(ask) /\ Passes(Door(name), ask.verb, ask.cap)

\* The name a space reports for n lies in a namespace only the kernel answers.
MovedIntoKernel(n) ==
    Door(n) \in Doors /\ Reported(n) # n /\ Reported(n) \in KernelOps \cup Streams

\* A description asked for under a name that its space reports as another.
DescribedElsewhere(ask) ==
    LET name == Table[ask.name]
    IN  ask.verb = "meta" /\ name \notin KernelOps /\ Door(name) \in Doors /\ Adopted(name) # name

\* The probe says a request would be served from the cache exactly if it
\* would be ("The probe canonicalizes exactly as the serving path does",
\* is_cached_in): two names of one answer are probed alike, and what would be
\* refused is not called cached.  Not so of a description under a name that a
\* space reports otherwise: is_cached_in adopts no name for Meta, so the probe
\* never calls it cached, though it is served from the cache.  Left out is a name
\* that a space moves into a namespace of the kernel's own.
ProbedAsServed ==
    \A ask \in [name : Names, verb : Verbs \ {"sink"}, cap : Capabilities] :
        ~(Table[ask.name] \in Names \ KernelOps /\ MovedIntoKernel(Table[ask.name]))
            => IF Table[ask.name] # Refused /\ DescribedElsewhere(ask) THEN ~Probed(ask)
               ELSE Probed(ask) <=> WouldBeServed(ask)

-------------------------------------------------------------------------------
(* What the explanation and the probe need of the names.                   *)

\* Where a dry run and a request go apart: at the stream names, which the kernel
\* answers from a space of its own whatever the chain, and at a limiter that a
\* space reports under a name of the kernel's.
DryRunAssumption ==
    /\ \A n \in Streams : Door(n) = Miss
    /\ \A n \in Names : Reported(n) \in Streams => Reported(n) = n
    /\ \A n \in Names : Door(n) \in Doors /\ Contract[Door(n)].limiter => ~MovedIntoKernel(n)

\* No limited name is reported under a name that others are served by.
LimitedApart ==
    \A n \in Names : Door(n) \in Doors /\ Contract[Door(n)].limiter
        => \A m \in Names : Dispatches(m) => Reported(m) # Reported(n)
===============================================================================
