----------------------------- MODULE NameTheFirst -----------------------------
(***************************************************************************)
(* How an event names the entries its cut invalidated (name_the_first,     *)
(* listen.rs): one pass over their targets, in whatever order the cache    *)
(* yields them, keeps the smallest distinct ones and counts the rest.      *)
(* "visited" is history.                                                   *)
(***************************************************************************)
EXTENDS Integers, Sequences, FiniteSets

CONSTANTS
  Targets,     \* the targets, by their place in the sort order
  Named,       \* INVALIDATED_NAMED
  MaxEntries   \* bound on the entries one cut invalidates

VARIABLES kept, more, visited

vars == <<kept, more, visited>>

ASSUME NamingAssumption ==
  Targets \subseteq Int /\ Named \in Nat \ {0} /\ MaxEntries \in Nat

Largest(T) == CHOOSE x \in T : \A y \in T : y <= x

\* Mutation: a target is turned away by any kept one.
TurnedAwayByAny(x) == \E y \in kept : x > y

\* One comparison turns away a target beyond every kept one.
TurnedAway(x) == x > Largest(kept)

Init == kept = {} /\ more = 0 /\ visited = <<>>

Room == Cardinality(kept) < Named

\* While there is room a target is kept, once.
Keep(x) == Room /\ kept' = kept \cup {x} /\ UNCHANGED more

Reject(x) == ~Room /\ TurnedAway(x) /\ more' = more + 1 /\ UNCHANGED kept

Again(x) == ~Room /\ ~TurnedAway(x) /\ x \in kept /\ UNCHANGED <<kept, more>>

\* The target that makes room is one of the rest now.
MoreAfterEviction == more + 1

Replace(x) ==
  /\ ~Room /\ ~TurnedAway(x) /\ x \notin kept
  /\ kept' = (kept \ {Largest(kept)}) \cup {x}
  /\ more' = MoreAfterEviction

Visit(x) ==
  /\ Len(visited) < MaxEntries
  /\ visited' = Append(visited, x)
  /\ Keep(x) \/ Reject(x) \/ Again(x) \/ Replace(x)

Next == \E x \in Targets : Visit(x)

Spec == Init /\ [][Next]_vars

-----------------------------------------------------------------------------
Seen == {visited[i] : i \in DOMAIN visited}

Unnamed == {i \in DOMAIN visited : visited[i] \notin kept}

\* The names are the smallest distinct targets, as many as fit, in whatever order
\* the entries came.
NamesTheSmallest ==
  /\ kept \subseteq Seen
  /\ Cardinality(kept) = (IF Cardinality(Seen) < Named THEN Cardinality(Seen) ELSE Named)
  /\ \A x \in kept, y \in Seen \ kept : x < y

\* The count of the rest is no less than the targets left out and no more than
\* their entries; in particular it is zero exactly when nothing was left out.
CountsTheRest ==
  /\ Cardinality(Seen \ kept) <= more
  /\ more <= Cardinality(Unnamed)

\* A cut event names the smallest of the targets it invalidated and counts the
\* rest (name_the_first).
CutNamesTheSmallest == NamesTheSmallest /\ CountsTheRest

=============================================================================
