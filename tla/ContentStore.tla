----------------------------- MODULE ContentStore -----------------------------
(***************************************************************************)
(* The in-memory content store (content_store.rs): values by digest, held  *)
(* while a handle for them lives, read by root and by whoever acts as a    *)
(* principal a live handle was taken for.  Every operation runs under one  *)
(* mutex, so it is one action; handles are made, cloned and dropped by     *)
(* any thread in any order.                                                *)
(***************************************************************************)
EXTENDS Capabilities, Tallies

CONSTANTS
    Contents,    \* content ids
    LengthOf,    \* LengthOf[id]: the length of the bytes with this digest
    Hints,       \* lengths a replay may state, right or wrong
    Handles,     \* handles the callers can hold at once
    MaxBytes,    \* the bound of the store
    None         \* no value of a kind at hand

VARIABLES
    entries,    \* entries[id]: None, or its size and the handles per holder
    held,       \* bytes the store accounts for
    handle,     \* handle[x]: None, or the content and the holder of handle x
    alive       \* the store itself still exists; handles refer to it weakly

storeVars == <<entries, held, handle, alive>>

\* Whom a hold is taken for: the principal of a capability, or root alone.
Holders == Principals \cup {None}
HolderOf(c) ==
    IF \E p \in Principals : ~c.root /\ SinglePrincipal(c.scopes, p)
    THEN CHOOSE p \in Principals : SinglePrincipal(c.scopes, p)
    ELSE None

Entry == [size : Nat, holders : [Holders -> Nat]]
HandleOn == [id : Contents, holder : Holders]

ASSUME ContentAssumption ==
    /\ LengthOf \in [Contents -> Nat]
    /\ Hints \subseteq Nat
    /\ MaxBytes \in Nat
    /\ IsFiniteSet(Handles) /\ IsFiniteSet(Contents)
    /\ None \notin Contents /\ None \notin Hints /\ None \notin Principals
    /\ None \notin Entry /\ None \notin HandleOn

StoreTypeOK ==
    /\ entries \in [Contents -> Entry \cup {None}]
    /\ held \in Nat
    /\ handle \in [Handles -> HandleOn \cup {None}]
    /\ alive \in BOOLEAN

StoreInit ==
    /\ entries = [id \in Contents |-> None]
    /\ held = 0
    /\ handle = [x \in Handles |-> None]
    /\ alive = TRUE

Resident(id) == entries[id] # None
Live(x) == handle[x] # None

\* One more handle for the holder on an entry.
Counted(entry, holder) == [entry EXCEPT !.holders[holder] = @ + 1]
\* One handle less.
Released(entry, holder) == [entry EXCEPT !.holders[holder] = @ - 1]
NewEntry(size, holder) ==
    [size |-> size, holders |-> [h \in Holders |-> IF h = holder THEN 1 ELSE 0]]

Unheld(entry) == \A h \in Holders : entry.holders[h] = 0

\* Content already here is held again whatever its size; other content must fit.
Fits(id, size) == Resident(id) \/ held + size <= MaxBytes
Hold(x, holder, id, size) ==
    /\ alive /\ ~Live(x)
    /\ Fits(id, size)
    /\ entries' = [entries EXCEPT ![id] = IF Resident(id) THEN Counted(@, holder)
                                          ELSE NewEntry(size, holder)]
    /\ held' = IF Resident(id) THEN held ELSE held + size
    /\ handle' = [handle EXCEPT ![x] = [id |-> id, holder |-> holder]]
    /\ UNCHANGED alive

\* put, and put_for on behalf of a caller.
Put(x, id) == Hold(x, None, id, LengthOf[id])
PutFor(x, c, id) == Hold(x, HolderOf(c), id, LengthOf[id])

\* A replay is held under its validator and counted by its hint; one that lacks
\* either is refused (and a refusal changes nothing).
PutReplay(x, id, hint) == id # None /\ hint # None /\ Hold(x, None, id, hint)
PutReplayFor(x, c, id, hint) == id # None /\ hint # None /\ Hold(x, HolderOf(c), id, hint)

CloneUncounted(x, y) ==
    /\ Live(x) /\ ~Live(y)
    /\ handle' = [handle EXCEPT ![y] = handle[x]]
    /\ UNCHANGED <<entries, held, alive>>

\* Clone: counted if the store and the entry are still there.
CloneHandle(x, y) ==
    /\ Live(x) /\ ~Live(y)
    /\ handle' = [handle EXCEPT ![y] = handle[x]]
    /\ entries' = IF alive /\ Resident(handle[x].id)
                  THEN [entries EXCEPT ![handle[x].id] = Counted(@, handle[x].holder)]
                  ELSE entries
    /\ UNCHANGED <<held, alive>>

\* Drop: the last handle of all releases the entry and its bytes.
DropHandle(x) ==
    /\ Live(x)
    /\ handle' = [handle EXCEPT ![x] = None]
    /\ LET id == handle[x].id
           entry == Released(entries[id], handle[x].holder)
       IN IF alive /\ Resident(id)
          THEN /\ entries' = [entries EXCEPT ![id] = IF Unheld(entry) THEN None ELSE entry]
               /\ held' = IF Unheld(entry) THEN held - entry.size ELSE held
          ELSE UNCHANGED <<entries, held>>
    /\ UNCHANGED alive

\* The last owner of the store drops it, with handles still around.
DropStore ==
    /\ alive
    /\ alive' = FALSE
    /\ entries' = [id \in Contents |-> None]
    /\ held' = 0
    /\ UNCHANGED handle

AdmitsAnonymous(holder, c) ==
    IF holder = None THEN \A p \in Principals : ~ActsAs(c, p) ELSE ActsAs(c, holder)
\* Whether content held for this holder is read by a capability that is not root.
Admits(holder, c) == holder # None /\ ActsAs(c, holder)
\* get_for: content held for someone else is answered like content not here.
Readable(id, c) ==
    /\ Resident(id)
    /\ c.root \/ \E h \in Holders : entries[id].holders[h] > 0 /\ Admits(h, c)

StoreNext ==
    \/ \E x \in Handles, id \in Contents : Put(x, id)
    \/ \E x \in Handles, c \in Capability, id \in Contents : PutFor(x, c, id)
    \/ \E x \in Handles, id \in Contents \cup {None}, hint \in Hints \cup {None} :
           PutReplay(x, id, hint)
    \/ \E x \in Handles, c \in Capability,
          id \in Contents \cup {None}, hint \in Hints \cup {None} :
           PutReplayFor(x, c, id, hint)
    \/ \E x, y \in Handles : CloneHandle(x, y)
    \/ \E x \in Handles : DropHandle(x)
    \/ DropStore

StoreSpec == StoreInit /\ [][StoreNext]_storeVars

-------------------------------------------------------------------------------
On(id, holder) == {x \in Handles : handle[x] = [id |-> id, holder |-> holder]}

\* While the store lives, every entry counts exactly the live handles on it,
\* per holder, content without a handle is not kept, and the bytes accounted for
\* are those of the entries and within the bound: clones and drops on several
\* threads neither leak an entry nor release one that is in use, also where
\* content is held again under another stated length (Handle, release, put).
CountsItsHandles ==
    /\ alive => \A id \in Contents :
           /\ Resident(id) <=> \E x \in Handles : Live(x) /\ handle[x].id = id
           /\ Resident(id) => \A h \in Holders :
                  entries[id].holders[h] = Cardinality(On(id, h))
    /\ held = Tally(Contents, [id \in Contents |-> IF Resident(id) THEN entries[id].size ELSE 0])
    /\ held <= MaxBytes
===============================================================================
