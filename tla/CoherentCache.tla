---------------------------- MODULE CoherentCache ----------------------------
(***************************************************************************)
(* What the representation cache promises, without generations, logs,      *)
(* snapshots or requests in flight: it holds views of the state behind     *)
(* golden threads; a view is learnt only while it is the current one, and  *)
(* a change of a thread takes every view that hangs from it at once.  The  *)
(* cache may forget a view at any time.                                    *)
(***************************************************************************)
EXTENDS Naturals, FiniteSets

CONSTANTS
  Places,    \* where a view can be cached
  Threads,   \* golden threads
  Absent,    \* nothing cached
  MaxChanges \* bound on the number of changes

VARIABLES
  changes,   \* the number of changes so far
  version,   \* version[t]: the number of the last change of t
  cached     \* the view cached in each place: from its threads to versions

vars == <<changes, version, cached>>

Views == UNION {[T -> Nat] : T \in SUBSET Threads}

Init ==
  /\ changes = 0
  /\ version = [t \in Threads |-> 0]
  /\ cached = [p \in Places |-> Absent]

\* The state behind t changes: nothing that hangs from t is cached any more.
Change(t) ==
  /\ changes < MaxChanges
  /\ changes' = changes + 1
  /\ version' = [version EXCEPT ![t] = changes + 1]
  /\ cached' = [p \in Places |->
                  IF cached[p] # Absent /\ t \in DOMAIN cached[p] THEN Absent
                  ELSE cached[p]]

\* The current view of T is cached in p; others may be forgotten for it.
Learn(p, T) ==
  /\ \E keep \in SUBSET Places :
       cached' = [q \in Places |->
                    IF q \notin keep THEN Absent
                    ELSE IF q = p THEN [t \in T |-> version[t]]
                    ELSE cached[q]]
  /\ UNCHANGED <<changes, version>>

\* Views are forgotten.
Forget ==
  /\ \E keep \in SUBSET Places :
       cached' = [p \in Places |-> IF p \in keep THEN cached[p] ELSE Absent]
  /\ UNCHANGED <<changes, version>>

Next ==
  \/ \E t \in Threads : Change(t)
  \/ Forget
  \/ \E p \in Places, T \in SUBSET Threads : Learn(p, T)

Spec == Init /\ [][Next]_vars

\* What is cached is what computing it anew would observe.
Coherent ==
  \A p \in Places : cached[p] # Absent =>
    \A t \in DOMAIN cached[p] : cached[p][t] = version[t]

=============================================================================
