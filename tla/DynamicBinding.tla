---------------------------- MODULE DynamicBinding ----------------------------
(***************************************************************************)
(* A space whose doors are rebuilt from a declaration while the kernel     *)
(* runs (dynamic.rs).  The declaration is a resource: writers change it    *)
(* and the kernel then cuts its thread; the drive loop listens for that    *)
(* cut, reads the declaration through the kernel's cache, validates it and *)
(* swaps it in, then cuts the thread of the space and the thread of the    *)
(* bindings.  The host may bind an arrangement of its own meanwhile, and   *)
(* requests resolve, compute and store throughout.                         *)
(***************************************************************************)
EXTENDS Naturals

CONSTANTS
    MaxWrites,     \* bound: how often the declaration is written
    HostInstalls,  \* bound: how many arrangements the host binds itself
    Verdict,       \* Verdict[v]: what becomes of declaration v, "ok" or why not
    IsRoot,        \* the drive loop runs under root
    Cacheable,     \* the declaration's representation may be cached
    Faces,         \* what requests ask of the space: its doors, its catalog
    None           \* no value of the kind at hand

\* Version 0 stands for the empty space and for a declaration not yet written.
Declarations == 0 .. MaxWrites
Arrangements == MaxWrites + 1 .. MaxWrites + HostInstalls
Versions == Declarations \cup Arrangements
Refusals == {"unreadable", "malformed", "sealing", "check"}

ASSUME DynamicAssumption ==
    /\ MaxWrites \in Nat /\ HostInstalls \in Nat
    /\ IsRoot \in BOOLEAN /\ Cacheable \in BOOLEAN
    /\ Faces \subseteq {"doors", "catalog"}
    /\ None \notin Versions
    /\ Verdict \in [Versions -> Refusals \cup {"ok"}]

VARIABLES
    content,     \* the declaration as it stands
    writing,     \* a write has changed it and not yet cut its thread
    declEntry,   \* the declaration cached under the loop's capability, or None
    declSeq,     \* cuts of the declaration's thread
    heard,       \* the loop's listener has events queued
    pc, text,    \* per rebuilder: where it stands and what it binds
    snap,        \* the loop's snapshot of declSeq
    doors,       \* the inner space in force
    refused,     \* the last refusal since the doors in force were bound, or None
    cutSeq,      \* cutSeq[f]: cuts of the thread that answers about face f hang from
    entry,       \* entry[f]: the cached answer about face f, by the doors it came from
    asking       \* asking[f]: a request for face f under way, or None

vars == <<content, writing, declEntry, declSeq, heard, pc, text, snap,
          doors, refused, cutSeq, entry, asking>>
declVars == <<content, writing, declEntry, declSeq, heard>>
spaceVars == <<doors, refused>>
cacheVars == <<cutSeq, entry, asking>>

Rebuilders == {"drive", "host"}
Points == {"listen", "lookup", "read", "store", "prepare", "check", "swap",
           "cutSpace", "cutBindings", "wait", "idle"}
Asking == [seq : Nat, doors : Versions \cup {None}]

TypeOK ==
    /\ content \in Declarations /\ writing \in BOOLEAN
    /\ declEntry \in Declarations \cup {None} /\ declSeq \in Nat /\ snap \in Nat
    /\ heard \in BOOLEAN
    /\ pc \in [Rebuilders -> Points] /\ text \in [Rebuilders -> Versions]
    /\ doors \in Versions /\ refused \in Versions \cup {None}
    /\ cutSeq \in [Faces -> Nat]
    /\ entry \in [Faces -> Versions \cup {None}]
    /\ asking \in [Faces -> Asking \cup {None}]

Init ==
    /\ content = 0 /\ writing = FALSE
    /\ declEntry = None /\ declSeq = 0 /\ heard = FALSE
    /\ pc = [b \in Rebuilders |-> IF b = "drive" THEN "listen" ELSE "idle"]
    /\ text = [b \in Rebuilders |-> 0] /\ snap = 0
    /\ doors = 0 /\ refused = None
    /\ cutSeq = [f \in Faces |-> 0]
    /\ entry = [f \in Faces |-> None]
    /\ asking = [f \in Faces |-> None]

Goto(b, point) == pc' = [pc EXCEPT ![b] = point]

-------------------------------------------------------------------------------
(* The declaration's store and the kernel's cut after a write.             *)

Write ==
    /\ ~writing /\ content < MaxWrites
    /\ content' = content + 1
    /\ writing' = TRUE
    /\ UNCHANGED <<declEntry, declSeq, heard, pc, text, snap, spaceVars, cacheVars>>

HearsLate == pc["drive"] \notin {"listen", "lookup", "read", "store"}

\* Root hears every cut, another capability one that takes an entry cached under it.
Hears == pc["drive"] # "listen" /\ (IsRoot \/ declEntry # None)

CutDeclaration ==
    /\ writing
    /\ writing' = FALSE
    /\ heard' = (heard \/ Hears)
    /\ declEntry' = None
    /\ declSeq' = declSeq + 1
    /\ UNCHANGED <<content, pc, text, snap, spaceVars, cacheVars>>

-------------------------------------------------------------------------------
(* The drive loop: listen, refresh, wait for a batch, refresh again.       *)

Listen ==
    /\ pc["drive"] = "listen"
    /\ Goto("drive", "lookup")
    /\ UNCHANGED <<declVars, text, snap, spaceVars, cacheVars>>

\* The read's snapshot, and a hit if the declaration is cached.
Lookup ==
    /\ pc["drive"] = "lookup"
    /\ snap' = declSeq
    /\ IF declEntry # None
       THEN Goto("drive", "prepare") /\ text' = [text EXCEPT !["drive"] = declEntry]
       ELSE Goto("drive", "read") /\ UNCHANGED text
    /\ UNCHANGED <<declVars, spaceVars, cacheVars>>

\* Otherwise the declaration's endpoint reads its state.
Read ==
    /\ pc["drive"] = "read"
    /\ text' = [text EXCEPT !["drive"] = content]
    /\ Goto("drive", IF Verdict[content] = "unreadable" THEN "prepare" ELSE "store")
    /\ UNCHANGED <<declVars, snap, spaceVars, cacheVars>>

\* The kernel keeps the answer unless its thread was cut since the snapshot.
StoreDeclaration ==
    /\ pc["drive"] = "store"
    /\ declEntry' = IF Cacheable /\ declSeq = snap THEN text["drive"] ELSE declEntry
    /\ Goto("drive", "prepare")
    /\ UNCHANGED <<content, writing, declSeq, heard, text, snap, spaceVars, cacheVars>>

\* The listener's wait takes the whole queue.
Wait ==
    /\ pc["drive"] = "wait" /\ heard
    /\ heard' = FALSE
    /\ Goto("drive", "lookup")
    /\ UNCHANGED <<content, writing, declEntry, declSeq, text, snap, spaceVars, cacheVars>>

-------------------------------------------------------------------------------
(* Binding a candidate: refused, or swapped in and then cut.               *)

\* The host binds an arrangement it has in hand (install_topology).
InstallTopology ==
    /\ pc["host"] = "idle"
    /\ LET v == IF text["host"] = 0 THEN MaxWrites + 1 ELSE text["host"] + 1
       IN v \in Arrangements /\ text' = [text EXCEPT !["host"] = v]
    /\ Goto("host", "prepare")
    /\ UNCHANGED <<declVars, snap, spaceVars, cacheVars>>

Done(b) == IF b = "drive" THEN "wait" ELSE "idle"

\* An unreadable, malformed or sealing candidate is refused at once.
Prepare(b) ==
    /\ pc[b] = "prepare"
    /\ IF Verdict[text[b]] \in {"unreadable", "malformed", "sealing"}
       THEN refused' = text[b] /\ Goto(b, Done(b))
       ELSE Goto(b, "check") /\ UNCHANGED refused
    /\ UNCHANGED <<declVars, text, snap, doors, cacheVars>>

\* The host's own check is awaited.
Check(b) ==
    /\ pc[b] = "check"
    /\ IF Verdict[text[b]] = "check"
       THEN refused' = text[b] /\ Goto(b, Done(b))
       ELSE Goto(b, "swap") /\ UNCHANGED refused
    /\ UNCHANGED <<declVars, text, snap, doors, cacheVars>>

\* Doors and status change together, under the write lock.
Swap(b) ==
    /\ pc[b] = "swap"
    /\ doors' = text[b]
    /\ refused' = None
    /\ Goto(b, "cutSpace")
    /\ UNCHANGED <<declVars, text, snap, cacheVars>>

Cut(f) ==
    /\ cutSeq' = [g \in Faces |-> IF g = f THEN cutSeq[g] + 1 ELSE cutSeq[g]]
    /\ entry' = [g \in Faces |-> IF g = f THEN None ELSE entry[g]]

CutSpace(b) ==
    /\ pc[b] = "cutSpace"
    /\ Cut("doors")
    /\ Goto(b, "cutBindings")
    /\ UNCHANGED <<declVars, text, snap, spaceVars, asking>>

\* bindings_changed: the catalog and what is derived from the bindings.
CutBindings(b) ==
    /\ pc[b] = "cutBindings"
    /\ Cut("catalog")
    /\ Goto(b, Done(b))
    /\ UNCHANGED <<declVars, text, snap, spaceVars, asking>>

-------------------------------------------------------------------------------
(* Requests through the space.                                             *)

\* A request that is not answered from the cache takes its snapshot.
Ask(f) ==
    /\ asking[f] = None /\ entry[f] = None
    /\ asking' = [asking EXCEPT ![f] = [seq |-> cutSeq[f], doors |-> None]]
    /\ UNCHANGED <<declVars, pc, text, snap, spaceVars, cutSeq, entry>>

\* It resolves in the inner space of that moment, and keeps it to the end;
\* the empty space answers nothing.
Resolve(f) ==
    /\ asking[f] # None /\ asking[f].doors = None
    /\ asking' = [asking EXCEPT ![f] = IF f = "doors" /\ doors = 0 THEN None
                                       ELSE [@ EXCEPT !.doors = doors]]
    /\ UNCHANGED <<declVars, pc, text, snap, spaceVars, cutSeq, entry>>

AnswerUnchecked(f) ==
    /\ asking[f] # None /\ asking[f].doors # None
    /\ entry' = [entry EXCEPT ![f] = asking[f].doors]
    /\ asking' = [asking EXCEPT ![f] = None]
    /\ UNCHANGED <<declVars, pc, text, snap, spaceVars, cutSeq>>

\* Its answer hangs from the thread of the face and is kept unless that was cut.
Answer(f) ==
    /\ asking[f] # None /\ asking[f].doors # None
    /\ entry' = [entry EXCEPT ![f] = IF cutSeq[f] <= asking[f].seq THEN asking[f].doors ELSE @]
    /\ asking' = [asking EXCEPT ![f] = None]
    /\ UNCHANGED <<declVars, pc, text, snap, spaceVars, cutSeq>>

-------------------------------------------------------------------------------
DriveStep ==
    \/ Listen \/ Lookup \/ Read \/ StoreDeclaration \/ Wait
    \/ Prepare("drive") \/ Check("drive") \/ Swap("drive")
    \/ CutSpace("drive") \/ CutBindings("drive")
HostStep ==
    \/ Prepare("host") \/ Check("host") \/ Swap("host")
    \/ CutSpace("host") \/ CutBindings("host")

Next ==
    \/ Write \/ CutDeclaration
    \/ DriveStep \/ InstallTopology \/ HostStep
    \/ \E f \in Faces : Ask(f) \/ Resolve(f) \/ Answer(f)

Spec == Init /\ [][Next]_vars

\* The host spawns the loop and lets it run, and a request under way is polled
\* to its end: the loop's steps, a write's cut and a bind are not abandoned.
FairSpec == Spec /\ WF_vars(DriveStep) /\ WF_vars(HostStep) /\ WF_vars(CutDeclaration)

-------------------------------------------------------------------------------
\* A rebuilder has swapped the doors and not yet cut the thread of this face.
Uncut(f) == \E b \in Rebuilders :
    pc[b] \in IF f = "doors" THEN {"cutSpace"} ELSE {"cutSpace", "cutBindings"}

\* A cached answer comes from the doors in force, whoever resolved, swapped and
\* stored in whatever order, unless a bind is between its swap and its cuts:
\* once a bind has returned, nothing from the doors it replaced is served.
NoAnswerFromGoneDoors ==
    \A f \in Faces : entry[f] # None /\ entry[f] # doors => Uncut(f)

\* When the writing stops, the loop settles on the declaration as it stands:
\* bound if it is acceptable, reported as refused if it is not, unless the
\* host has bound an arrangement of its own ("a write between the two is not
\* lost", "one read catches up whatever was missed").
Settled ==
    \/ Verdict[content] = "ok" /\ doors = content
    \/ Verdict[content] # "ok" /\ refused = content
    \/ doors \in Arrangements \/ refused \in Arrangements
SettlesOnLastDeclaration == <>[]Settled
===============================================================================
