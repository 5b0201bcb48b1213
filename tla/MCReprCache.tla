---------------------------- MODULE MCReprCache ----------------------------
(* Small instances of ReprCache for TLC. *)
EXTENDS ReprCache, TLC

CONSTANTS t1, t2, k1, k2, r1, r2

MCTarget == (k1 :> t1) @@ (k2 :> t2)
\* Deadlines are 1 .. MaxNow; Never is later than all of them.
MCNever == MaxNow + 2

\* Both keys name one resource.
MCOneTarget == (k1 :> t1) @@ (k2 :> t1)

\* An answer valid for ever; one that is volatile or valid for a while.
MCUntimed == {Never}
MCTimed   == {Always, 1, Never}

\* Which request runs which task is immaterial.
RequestSymmetry == Permutations(Requests)

\* Nor which of two keys of one resource is the first.
KeySymmetry == RequestSymmetry \cup Permutations(Keys)

\* Nor which of the two resources is the first, when each key has its own.
ResourceSwap == (k1 :> k2) @@ (k2 :> k1) @@ (t1 :> t2) @@ (t2 :> t1)
Symmetry ==
  RequestSymmetry \cup {ResourceSwap @@ p : p \in RequestSymmetry}
                  \cup {ResourceSwap}

=============================================================================
