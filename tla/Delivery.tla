------------------------------- MODULE Delivery -------------------------------
(***************************************************************************)
(* A caller delivers content and reads it back under a capability that has *)
(* been handed on: Delegation and ContentStore side by side.               *)
(***************************************************************************)
EXTENDS Delegation, ContentStore

vars == <<lineVars, storeVars>>

Init == LineInit /\ StoreInit

Next ==
    \/ (\E c \in Capability : Mint(c)) /\ UNCHANGED storeVars
    \/ (\E p \in Principals : MintPrincipal(p)) /\ UNCHANGED storeVars
    \/ (\E requested \in SUBSET Scopes : Narrow(requested)) /\ UNCHANGED storeVars
    \/ (\E carried \in Capability : Arrive(carried)) /\ UNCHANGED storeVars
    \/ (\E x \in Handles, id \in Contents : Put(x, id)) /\ UNCHANGED lineVars
    \/ (\E x \in Handles, id \in Contents : PutFor(x, cap, id)) /\ UNCHANGED lineVars
    \/ /\ \E x \in Handles, id \in Contents \cup {None}, hint \in Hints \cup {None} :
              PutReplay(x, id, hint)
       /\ UNCHANGED lineVars
    \/ /\ \E x \in Handles, id \in Contents \cup {None}, hint \in Hints \cup {None} :
              PutReplayFor(x, cap, id, hint)
       /\ UNCHANGED lineVars
    \/ (\E x, y \in Handles : CloneHandle(x, y)) /\ UNCHANGED lineVars
    \/ (\E x \in Handles : DropHandle(x)) /\ UNCHANGED lineVars
    \/ DropStore /\ UNCHANGED lineVars

Spec == Init /\ [][Next]_vars

\* Narrowing and clamping open no content: what the caller at the end of the
\* line reads, the capability it was minted from reads too; and a caller that is
\* not root reads only through a live handle taken for the principal it acts as.
ReadsItsOwn ==
    \A id \in Contents : Readable(id, cap) =>
        /\ Readable(id, minted)
        /\ \/ cap.root
           \/ \E x \in Handles : /\ Live(x) /\ handle[x].id = id
                                 /\ handle[x].holder # None
                                 /\ ActsAs(cap, handle[x].holder)
===============================================================================
