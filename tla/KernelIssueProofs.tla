--------------------------- MODULE KernelIssueProofs ---------------------------
(***************************************************************************)
(* What the cache holds for the requests of KernelIssue, for any names,    *)
(* contracts and number of requests: nothing older than the last write     *)
(* that returned, nothing shaped by the nesting budget, nothing its key's  *)
(* capability could not have read itself; and what a request, a dry run    *)
(* and a probe of the cache say of one name.                               *)
(*                                                                         *)
(* An answer on its way into the cache is CURRENT: where it is older than  *)
(* the state, the write is under way or lost, or the thread the answer     *)
(* hangs from was cut after its request's snapshot.  It is SOUND: it hangs *)
(* from the thread of everything it saw, except what its own door shows    *)
(* while it runs, and its capability reads all of it.  A sub-request's     *)
(* snapshot is no older than its issuer's, which carries both through the  *)
(* folding of one answer into another.                                     *)
(*                                                                         *)
(* A request is ON ITS WAY: what it has been told, and the name it goes    *)
(* by, follow from the name as asked and from the floor it has passed.     *)
(* The keys of the cache are those of requests that were admitted.         *)
(***************************************************************************)
EXTENDS KernelIssue, TLAPS

Points == {"arrive", "kernel", "resolve", "lookup", "describe", "running", "waiting",
           "store", "cut", "done"}
Seen == UNION {[D -> Nat] : D \in SUBSET Stateful}

Frame == [pc : Points, verb : Verbs, asked : Names, name : Names, cap : Capabilities,
          depth : Nat, parent : Tasks \cup {None}, root : Tasks, taken : [Threads -> Nat],
          threads : SUBSET (Threads \cup {None}), volatile : BOOLEAN, seen : Seen,
          short : BOOLEAN, wrote : BOOLEAN, called : BOOLEAN, outcome : Outcomes \cup {None},
          told : Names \cup {None}]
Kept == [seen : Seen, threads : SUBSET (Threads \cup {None}), short : BOOLEAN]

Typed ==
    /\ task \in [Tasks -> Frame \cup {Idle}]
    /\ version \in [Stateful -> Nat] /\ cuts \in [Threads -> Nat]
    /\ \A k \in DOMAIN entry : entry[k] \in Kept

\* The thread the state behind d is cut by.
ThreadOf(d) ==
    IF d = Bindings THEN Bindings
    ELSE Reported(CHOOSE n \in Names : Dispatches(n) /\ Door(n) = d)

\* What is true of a request's frame by itself.
Sound(f) ==
    /\ f.short => f.volatile
    /\ f.pc \in {"arrive", "kernel", "resolve", "lookup", "describe"} => DOMAIN f.seen = {}
    /\ f.outcome \in {"unresolved", "limited"} => f.pc = "done" /\ DOMAIN f.seen = {}
    /\ f.pc \in {"store", "cut", "done"} => f.outcome # None
    /\ f.pc \in {"lookup", "describe", "running", "waiting", "cut"}
         => Door(f.name) \in Doors /\ ThreadOf(Door(f.name)) = f.name
    /\ f.verb = "sink" => f.pc \notin {"lookup", "describe", "store"}
    /\ f.verb = "meta" => f.pc \notin {"running", "waiting", "cut"}
    /\ f.wrote => f.verb = "sink" /\ f.parent = None /\ f.pc \in {"running", "waiting", "cut", "done"}
    /\ f.verb = "source" /\ f.pc \in {"lookup", "running", "waiting"}
         => Passes(Door(f.name), "source", f.cap)
    /\ \A d \in DOMAIN f.seen :
          /\ ThreadOf(d) \in Threads
          /\ d # Bindings => Passes(d, "source", f.cap)
          /\ \/ f.volatile \/ ThreadOf(d) \in f.threads
             \/ f.pc \in {"running", "waiting"} /\ d = Door(f.name)

\* What a frame saw is as it was at its snapshot, but for what was cut since.
Current(f) ==
    \A d \in DOMAIN f.seen : f.seen[d] < version[d]
        => Writing(d) \/ d \in lost \/ f.taken[ThreadOf(d)] < cuts[ThreadOf(d)]

\* A sub-request is asked with its issuer's capability, after its snapshot, while
\* the issuer waits for it and for nothing else.
Nested(t) ==
    /\ task[t].parent = None => task[t].root = t
    /\ task[t].parent # None =>
          LET p == task[t].parent
          IN  /\ p # t /\ At(p, "waiting") /\ task[p].root = task[t].root
              /\ task[t].verb = "source" /\ task[t].cap = task[p].cap
              /\ \A n \in Threads : task[p].taken[n] <= task[t].taken[n]
              /\ \A u \in Tasks : Busy(u) /\ task[u].parent = p => u = t

FrameOK(t) ==
    /\ Nested(t) /\ Sound(task[t]) /\ Current(task[t])
    /\ \A n \in Threads : task[t].taken[n] <= cuts[n]

EntryOK(k) ==
    LET kept == entry[k]
    IN  /\ ~kept.short
        /\ \A d \in DOMAIN kept.seen :
              /\ ThreadOf(d) \in kept.threads
              /\ d # Bindings => Passes(d, "source", k.cap)
              /\ ThreadOf(d) \in Threads
              /\ kept.seen[d] < version[d] => Writing(d) \/ d \in lost

Frames == \A t \in Tasks : Busy(t) => FrameOK(t)
Entries == \A k \in DOMAIN entry : EntryOK(k)
IssueInv == Typed /\ Frames /\ Entries

-------------------------------------------------------------------------------
\* The names of one door are cut by one thread.
LEMMA OneThread ==
    ASSUME NEW n \in Names, Dispatches(n)
    PROVE  /\ ThreadOf(Door(n)) = Reported(n) /\ Reported(n) \in Names
           /\ Door(Reported(n)) = Door(n) /\ Door(n) \in Doors /\ Door(n) # Bindings
<1> DEFINE m == CHOOSE m \in Names : Dispatches(m) /\ Door(m) = Door(n)
<1>1. m \in Names /\ Dispatches(m) /\ Door(m) = Door(n)
  OBVIOUS
<1>2. Door(n) \in Doors /\ Door(n) # Bindings
  BY IssueAssumption DEF Dispatches
<1> HIDE DEF m
<1>3. Reported(m) = Reported(n)
  BY <1>1, IssueAssumption
<1> QED
  BY <1>2, <1>3, IssueAssumption DEF ThreadOf, m

LEMMA BusyIsFrame == ASSUME Typed, NEW t \in Tasks PROVE Busy(t) <=> task[t] \in Frame
BY DEF Typed, Busy, Idle, Frame, Points

\* One request goes on, and nothing else changes but what is cached.
LEMMA FramesAfterOne ==
    ASSUME Typed, Frames, NEW t \in Tasks, Busy(t), task[t].pc # "waiting",
           NEW f \in Frame, task' = [task EXCEPT ![t] = f],
           f.parent = task[t].parent, f.root = task[t].root, f.verb = task[t].verb,
           f.cap = task[t].cap, f.taken = task[t].taken,
           task[t].wrote /\ task[t].pc # "done"
             => f.wrote /\ f.pc # "done" /\ f.name = task[t].name,
           UNCHANGED <<version, cuts, rebinding, lost>>, Sound(f), Current(f)
    PROVE  Frames' /\ task' \in [Tasks -> Frame \cup {Idle}] /\ \A d : Writing(d) => Writing(d)'
<1>1. /\ task' \in [Tasks -> Frame \cup {Idle}] /\ task'[t] = f /\ f.pc # "idle"
      /\ \A u \in Tasks \ {t} : task'[u] = task[u]
  BY DEF Typed, Frame, Points
<1>2. \A d : Writing(d) => Writing(d)'
  BY <1>1 DEF Writing, Busy, DoorOf
<1>3. \A g : Current(g) => Current(g)'
  BY <1>2 DEF Current
<1>4. ASSUME NEW u \in Tasks, Busy(u)' PROVE FrameOK(u)'
  <2>1. Busy(u) /\ FrameOK(u)
    BY <1>1, <1>4 DEF Busy, Frames
  <2>2. Nested(u)'
    BY <1>1, <2>1 DEF Nested, FrameOK, Busy, At
  <2>3. Sound(task[u])' /\ Current(task[u])'
    BY <1>1, <1>3, <2>1 DEF FrameOK, Sound, Current
  <2>4. (\A n \in Threads : task[u].taken[n] <= cuts[n])'
    BY <1>1, <2>1 DEF FrameOK
  <2> QED
    BY <2>2, <2>3, <2>4 DEF FrameOK
<1> QED
  BY <1>1, <1>2, <1>4 DEF Frames

\* What is cached stays as it is while no state changes and no write ends.
LEMMA EntriesKept ==
    ASSUME Typed, Entries, UNCHANGED <<entry, version, lost>>,
           \A d : Writing(d) => Writing(d)'
    PROVE  Entries' /\ \A k \in DOMAIN entry' : entry'[k] \in Kept
BY DEF Typed, Entries, EntryOK

\* So is the invariant, where a request goes on by itself.
LEMMA OneGoesOn ==
    ASSUME IssueInv, NEW t \in Tasks, Busy(t), task[t].pc # "waiting",
           NEW f \in Frame, task' = [task EXCEPT ![t] = f],
           f.parent = task[t].parent, f.root = task[t].root, f.verb = task[t].verb,
           f.cap = task[t].cap, f.taken = task[t].taken,
           task[t].wrote /\ task[t].pc # "done"
             => f.wrote /\ f.pc # "done" /\ f.name = task[t].name,
           Elsewhere, Sound(f), Current(f)
    PROVE  IssueInv'
<1>1. Frames' /\ task' \in [Tasks -> Frame \cup {Idle}] /\ \A d : Writing(d) => Writing(d)'
  BY FramesAfterOne DEF IssueInv, Elsewhere
<1>2. Entries' /\ \A k \in DOMAIN entry' : entry'[k] \in Kept
  BY <1>1, EntriesKept DEF IssueInv, Elsewhere
<1> QED
  BY <1>1, <1>2 DEF IssueInv, Typed, Elsewhere

-------------------------------------------------------------------------------
(* The actions up to the invocation.                                       *)

\* What is known of a frame that has not been answered.
LEMMA OfFrame ==
    ASSUME IssueInv, NEW t \in Tasks, Busy(t)
    PROVE  task[t] \in Frame /\ Sound(task[t]) /\ Current(task[t]) /\ Nested(t)
BY BusyIsFrame DEF IssueInv, Frames, FrameOK

LEMMA RefuseKeeps ==
    ASSUME IssueInv, NEW t \in Tasks, Busy(t), task[t].pc \in {"arrive", "resolve"},
           NEW outcome \in Outcomes, NEW told \in Names \cup {None},
           Refuse(t, outcome, told), Elsewhere
    PROVE  IssueInv'
<1> DEFINE f == [task[t] EXCEPT !.pc = "done", !.outcome = outcome, !.told = told]
<1>1. task[t] \in Frame /\ Sound(task[t]) /\ DOMAIN task[t].seen = {} /\ ~task[t].wrote
  BY OfFrame DEF Sound
<1>2. /\ f \in Frame /\ f.pc = "done" /\ f.outcome = outcome
      /\ f.parent = task[t].parent /\ f.root = task[t].root /\ f.verb = task[t].verb
      /\ f.cap = task[t].cap /\ f.taken = task[t].taken /\ f.seen = task[t].seen
      /\ f.short = task[t].short /\ f.volatile = task[t].volatile /\ f.wrote = task[t].wrote
  BY <1>1 DEF Frame, Points
<1>3. task' = [task EXCEPT ![t] = f]
  BY <1>1 DEF Refuse, Frame
<1>4. outcome # None
  BY IssueAssumption
<1> HIDE DEF f
<1>5. Sound(f) /\ Current(f)
  BY <1>1, <1>2, <1>4 DEF Sound, Current
<1> QED
  BY <1>1, <1>2, <1>3, <1>5, OneGoesOn

LEMMA ArriveKeeps == ASSUME IssueInv, NEW t \in Tasks, Arrive(t) PROVE IssueInv'
<1> DEFINE name == Table[task[t].asked]
           f == [task[t] EXCEPT !.name = name,
                                !.pc = IF name \in KernelOps THEN "kernel" ELSE "resolve"]
<1>1. Busy(t) /\ task[t].pc = "arrive" /\ Elsewhere
  BY DEF Arrive, At
<1>2. task[t] \in Frame /\ Sound(task[t]) /\ DOMAIN task[t].seen = {} /\ ~task[t].wrote
  BY <1>1, OfFrame DEF Sound
<1>3. name \in Names \cup {Refused}
  BY <1>2, IssueAssumption DEF Frame
<1>4. CASE name = Refused
  <2>1. Refuse(t, "failed", None)
    BY <1>4 DEF Arrive
  <2> QED
    BY <1>1, <2>1, RefuseKeeps DEF Outcomes
<1>5. CASE name # Refused /\ task[t].depth > MaxDepth
  <2>1. Refuse(t, "depth", name)
    BY <1>5 DEF Arrive
  <2> QED
    BY <1>1, <1>3, <1>5, <2>1, RefuseKeeps DEF Outcomes
<1>6. CASE name # Refused /\ ~(task[t].depth > MaxDepth)
  <2>1. task' = [task EXCEPT ![t] = f]
    BY <1>2, <1>6 DEF Arrive, Frame
  <2>2. /\ f \in Frame /\ f.pc \in {"kernel", "resolve"} /\ f.outcome = task[t].outcome
        /\ f.parent = task[t].parent /\ f.root = task[t].root /\ f.verb = task[t].verb
        /\ f.cap = task[t].cap /\ f.taken = task[t].taken /\ f.seen = task[t].seen
        /\ f.short = task[t].short /\ f.volatile = task[t].volatile /\ f.wrote = task[t].wrote
    BY <1>2, <1>3, <1>6, ZenonT(60) DEF Frame, Points
  <2> HIDE DEF f
  <2>3. Sound(f) /\ Current(f)
    BY <1>1, <1>2, <2>2 DEF Sound, Current
  <2> QED
    BY <1>1, <1>2, <2>1, <2>2, <2>3, OneGoesOn
<1> QED
  BY <1>4, <1>5, <1>6

\* A frame that is given what the bindings show, or what is cached.
LEMMA Given ==
    ASSUME IssueInv, NEW t \in Tasks, Busy(t), task[t].pc \in {"kernel", "lookup", "describe"},
           NEW point \in {"store", "done"}, NEW seen \in Seen,
           NEW threads \in SUBSET (Threads \cup {None}),
           task' = [task EXCEPT ![t] = [@ EXCEPT !.pc = point, !.outcome = "ok",
                                                 !.seen = seen, !.threads = threads]],
           point = "store" => task[t].verb # "sink",
           \A d \in DOMAIN seen :
              /\ ThreadOf(d) \in threads /\ ThreadOf(d) \in Threads
              /\ d # Bindings => Passes(d, "source", task[t].cap)
              /\ seen[d] < version[d] => Writing(d) \/ d \in lost,
           Elsewhere
    PROVE  IssueInv'
<1> DEFINE f == [task[t] EXCEPT !.pc = point, !.outcome = "ok", !.seen = seen, !.threads = threads]
<1>1. task[t] \in Frame /\ Sound(task[t]) /\ ~task[t].wrote
  BY OfFrame DEF Sound
<1>2. /\ f \in Frame /\ f.pc = point /\ f.outcome = "ok" /\ f.seen = seen /\ f.threads = threads
      /\ f.parent = task[t].parent /\ f.root = task[t].root /\ f.verb = task[t].verb
      /\ f.cap = task[t].cap /\ f.taken = task[t].taken
      /\ f.short = task[t].short /\ f.volatile = task[t].volatile /\ f.wrote = task[t].wrote
  BY <1>1 DEF Frame, Points, Outcomes
<1>3. task' = [task EXCEPT ![t] = f]
  OBVIOUS
<1>4. None # "ok"
  BY IssueAssumption DEF Outcomes
<1> HIDE DEF f
<1>5. Sound(f) /\ Current(f)
  BY <1>1, <1>2, <1>4 DEF Sound, Current
<1> QED
  BY <1>1, <1>2, <1>3, <1>5, OneGoesOn

\* What the bindings are is as current as can be.
LEMMA BindingsSeen ==
    ASSUME Typed
    PROVE  /\ SawBindings \in Seen /\ {Bindings} \in SUBSET (Threads \cup {None})
           /\ \A d \in DOMAIN SawBindings :
                 d = Bindings /\ ThreadOf(d) = Bindings /\ ThreadOf(d) \in Threads
                 /\ ~(SawBindings[d] < version[d])
<1>1. version[Bindings] \in Nat /\ {Bindings} \in SUBSET Stateful
  BY DEF Typed, Stateful
<1>2. SawBindings \in [{Bindings} -> Nat]
  BY <1>1 DEF SawBindings
<1>3. SawBindings \in Seen
  BY <1>1, <1>2 DEF Seen
<1>4. \A d \in DOMAIN SawBindings : d = Bindings /\ SawBindings[d] = version[d]
  BY DEF SawBindings
<1>5. ThreadOf(Bindings) = Bindings /\ Bindings \in Threads
  BY DEF ThreadOf, Threads
<1> QED
  BY <1>1, <1>3, <1>4, <1>5

\* What is cached under a key may be given to who asks by it.
LEMMA CachedGiven ==
    ASSUME IssueInv, NEW t \in Tasks, KeyAt(t) \in DOMAIN entry
    PROVE  LET kept == entry[KeyAt(t)]
           IN  /\ kept.seen \in Seen /\ kept.threads \in SUBSET (Threads \cup {None})
               /\ \A d \in DOMAIN kept.seen :
                     /\ ThreadOf(d) \in kept.threads /\ ThreadOf(d) \in Threads
                     /\ d # Bindings => Passes(d, "source", task[t].cap)
                     /\ kept.seen[d] < version[d] => Writing(d) \/ d \in lost
<1>1. KeyAt(t).cap = task[t].cap
  BY DEF KeyAt, KeyOf
<1>2. entry[KeyAt(t)] \in Kept /\ EntryOK(KeyAt(t))
  BY DEF IssueInv, Typed, Entries
<1> QED
  BY <1>1, <1>2 DEF EntryOK, Kept

LEMMA AnswerKernelOpKeeps ==
    ASSUME IssueInv, NEW t \in Tasks, AnswerKernelOp(t) PROVE IssueInv'
<1>1. Busy(t) /\ task[t].pc = "kernel" /\ Elsewhere /\ Typed
  BY DEF AnswerKernelOp, At, IssueInv
<1>2. task[t] \in Frame /\ Sound(task[t]) /\ DOMAIN task[t].seen = {} /\ ~task[t].wrote
  BY <1>1, OfFrame DEF Sound
<1>3. CASE task[t].verb = "sink"
  <2> DEFINE f == [task[t] EXCEPT !.pc = "done", !.outcome = "failed"]
  <2>1. task' = [task EXCEPT ![t] = f]
    BY <1>3 DEF AnswerKernelOp
  <2>2. /\ f \in Frame /\ f.pc = "done" /\ f.outcome = "failed"
        /\ f.parent = task[t].parent /\ f.root = task[t].root /\ f.verb = task[t].verb
        /\ f.cap = task[t].cap /\ f.taken = task[t].taken /\ f.seen = task[t].seen
        /\ f.short = task[t].short /\ f.volatile = task[t].volatile /\ f.wrote = task[t].wrote
    BY <1>2 DEF Frame, Points, Outcomes
  <2>3. None # "failed"
    BY IssueAssumption DEF Outcomes
  <2> HIDE DEF f
  <2>4. Sound(f) /\ Current(f)
    BY <1>2, <2>2, <2>3 DEF Sound, Current
  <2> QED
    BY <1>1, <1>2, <2>1, <2>2, <2>4, OneGoesOn
<1>4. CASE task[t].verb # "sink" /\ KeyAt(t) \in DOMAIN entry
  <2>1. task' = [task EXCEPT ![t] = [@ EXCEPT !.pc = "done", !.outcome = "ok",
                                              !.seen = entry[KeyAt(t)].seen,
                                              !.threads = entry[KeyAt(t)].threads]]
    BY <1>4 DEF AnswerKernelOp
  <2> QED
    BY <1>1, <1>4, <2>1, CachedGiven, Given
<1>5. CASE task[t].verb # "sink" /\ KeyAt(t) \notin DOMAIN entry
  <2>1. task' = [task EXCEPT ![t] = [@ EXCEPT !.pc = "store", !.outcome = "ok",
                                              !.seen = SawBindings, !.threads = {Bindings}]]
    BY <1>5 DEF AnswerKernelOp
  <2> QED
    BY <1>1, <1>5, <2>1, BindingsSeen, Given, ZenonT(60)
<1> QED
  BY <1>3, <1>4, <1>5

LEMMA ResolveKeeps == ASSUME IssueInv, NEW t \in Tasks, Resolve(t) PROVE IssueInv'
<1> DEFINE name == task[t].name
           door == Door(name)
           canonical == Adopted(name)
           f == [task[t] EXCEPT !.name = canonical,
                                !.pc = IF task[t].verb = "sink" THEN "running" ELSE "lookup"]
<1>1. Busy(t) /\ task[t].pc = "resolve" /\ Elsewhere
  BY DEF Resolve, At
<1>2. /\ task[t] \in Frame /\ Sound(task[t]) /\ DOMAIN task[t].seen = {} /\ ~task[t].wrote
      /\ name \in Names /\ task[t].verb \in Verbs
  BY <1>1, OfFrame DEF Sound, Frame
<1>3. canonical \in Names /\ door \in Doors \cup {Miss, Breach} /\ Told(name) \in Names
  BY <1>2, IssueAssumption DEF Told, Adopted
<1>4. CASE \E outcome \in Outcomes, told \in Names \cup {None} : Refuse(t, outcome, told)
  BY <1>1, <1>4, RefuseKeeps
<1>5. CASE ~\E outcome \in Outcomes, told \in Names \cup {None} : Refuse(t, outcome, told)
  <2> {"failed", "unresolved", "limited", "denied"} \subseteq Outcomes
    BY DEF Outcomes
  <2>1. door # Breach /\ door # Miss
    BY <1>3, <1>5 DEF Resolve
  <2>2. ~(canonical # name /\ canonical \in KernelOps \cup Streams)
    BY <1>3, <1>5, <2>1 DEF Resolve
  <2>3. ~Contract[door].limiter
    BY <1>3, <1>5, <2>1, <2>2 DEF Resolve
  <2>4. ~Conceals(door, task[t].verb, task[t].cap) /\ Passes(door, task[t].verb, task[t].cap)
    BY <1>3, <1>5, <2>1, <2>2, <2>3 DEF Resolve, Admit
  <2>5. task' = [task EXCEPT ![t].name = canonical,
                             ![t].pc = IF task[t].verb = "sink" THEN "running" ELSE "lookup"]
    BY <2>1, <2>2, <2>3, <2>4 DEF Resolve, Admit
  <2>6. task' = [task EXCEPT ![t] = f]
    BY <1>2, <2>5 DEF Frame
  <2>7. /\ f \in Frame /\ f.name = canonical /\ f.outcome = task[t].outcome
        /\ f.pc = IF task[t].verb = "sink" THEN "running" ELSE "lookup"
        /\ f.parent = task[t].parent /\ f.root = task[t].root /\ f.verb = task[t].verb
        /\ f.cap = task[t].cap /\ f.taken = task[t].taken /\ f.seen = task[t].seen
        /\ f.short = task[t].short /\ f.volatile = task[t].volatile /\ f.wrote = task[t].wrote
    BY <1>2, <1>3, ZenonT(60) DEF Frame, Points
  <2>8. Dispatches(name)
    BY <1>3, <2>1, <2>2, <2>3 DEF Dispatches, Adopted
  <2>9. ThreadOf(Door(canonical)) = canonical /\ Door(canonical) = door /\ door \in Doors
    BY <1>2, <2>8, OneThread DEF Adopted
  <2> HIDE DEF f, name, door, canonical
  <2>10. Sound(f) /\ Current(f)
    BY <1>1, <1>2, <2>4, <2>7, <2>9 DEF Sound, Current
  <2> QED
    BY <1>1, <1>2, <2>6, <2>7, <2>10, OneGoesOn
<1> QED
  BY <1>4, <1>5

LEMMA LookupKeeps == ASSUME IssueInv, NEW t \in Tasks, Lookup(t) PROVE IssueInv'
<1>1. Busy(t) /\ task[t].pc = "lookup" /\ Elsewhere
  BY DEF Lookup, At
<1>2. task[t] \in Frame /\ Sound(task[t]) /\ DOMAIN task[t].seen = {} /\ ~task[t].wrote
  BY <1>1, OfFrame DEF Sound
<1>3. CASE KeyAt(t) \in DOMAIN entry
  <2>1. task' = [task EXCEPT ![t] = [@ EXCEPT !.pc = "done", !.outcome = "ok",
                                              !.seen = entry[KeyAt(t)].seen,
                                              !.threads = entry[KeyAt(t)].threads]]
    BY <1>3 DEF Lookup
  <2> QED
    BY <1>1, <1>3, <2>1, CachedGiven, Given
<1>4. CASE KeyAt(t) \notin DOMAIN entry
  <2> DEFINE f == [task[t] EXCEPT !.pc = IF task[t].verb = "meta" THEN "describe" ELSE "running"]
  <2>1. task' = [task EXCEPT ![t] = f]
    BY <1>4 DEF Lookup
  <2>2. /\ f \in Frame /\ f.outcome = task[t].outcome /\ f.name = task[t].name
        /\ f.pc = IF task[t].verb = "meta" THEN "describe" ELSE "running"
        /\ f.parent = task[t].parent /\ f.root = task[t].root /\ f.verb = task[t].verb
        /\ f.cap = task[t].cap /\ f.taken = task[t].taken /\ f.seen = task[t].seen
        /\ f.short = task[t].short /\ f.volatile = task[t].volatile /\ f.wrote = task[t].wrote
    BY <1>2 DEF Frame, Points
  <2> HIDE DEF f
  <2>3. Sound(f) /\ Current(f)
    BY <1>1, <1>2, <2>2 DEF Sound, Current
  <2> QED
    BY <1>1, <1>2, <2>1, <2>2, <2>3, OneGoesOn
<1> QED
  BY <1>3, <1>4

LEMMA DescribeKeeps == ASSUME IssueInv, NEW t \in Tasks, Describe(t) PROVE IssueInv'
<1>1. Busy(t) /\ task[t].pc = "describe" /\ Elsewhere /\ Typed
  BY DEF Describe, At, IssueInv
<1>2. task[t] \in Frame /\ task[t].verb # "sink"
  BY <1>1, OfFrame DEF Sound
<1>3. task' = [task EXCEPT ![t] = [@ EXCEPT !.pc = "store", !.outcome = "ok",
                                            !.seen = SawBindings, !.threads = {Bindings}]]
  BY <1>2 DEF Describe, Frame
<1> QED
  BY <1>1, <1>2, <1>3, BindingsSeen, Given

-------------------------------------------------------------------------------
(* The invocation.                                                         *)

\* The door an invocation runs at has a thread, which is its name.
LEMMA AtItsDoor ==
    ASSUME IssueInv, NEW t \in Tasks, Busy(t), task[t].pc \in {"running", "waiting", "cut"}
    PROVE  /\ DoorOf(t) \in Doors /\ ThreadOf(DoorOf(t)) = task[t].name
           /\ task[t].name \in Threads /\ DoorOf(t) # Bindings /\ version[DoorOf(t)] \in Nat
<1>1. task[t] \in Frame /\ Sound(task[t])
  BY OfFrame
<1>2. DoorOf(t) \in Doors /\ ThreadOf(DoorOf(t)) = task[t].name
  BY <1>1 DEF Sound, DoorOf
<1> QED
  BY <1>1, <1>2, IssueAssumption DEF IssueInv, Typed, Frame, Threads, Stateful

\* An endpoint reads what is behind its door.
LEMMA ReadKeeps ==
    ASSUME IssueInv, NEW t \in Tasks, Touch(t), task[t].verb # "sink" PROVE IssueInv'
<1> DEFINE f == [task[t] EXCEPT !.seen = With(@, DoorOf(t), version[DoorOf(t)])]
<1>1. Busy(t) /\ task[t].pc = "running" /\ Elsewhere /\ Typed
  BY DEF Touch, At, IssueInv, Elsewhere
<1>2. /\ task[t] \in Frame /\ Sound(task[t]) /\ Current(task[t]) /\ ~task[t].wrote
      /\ task[t].verb = "source"
  BY <1>1, OfFrame DEF Touch, Sound, Frame, Verbs
<1>3. task' = [task EXCEPT ![t] = f]
  BY <1>2 DEF Touch, Frame
<1>4. /\ DoorOf(t) \in Doors /\ ThreadOf(DoorOf(t)) = task[t].name /\ task[t].name \in Threads
      /\ version[DoorOf(t)] \in Nat
  BY <1>1, AtItsDoor
<1>5. PICK D \in SUBSET Stateful : task[t].seen \in [D -> Nat]
  BY <1>2 DEF Frame, Seen
<1>6. /\ With(task[t].seen, DoorOf(t), version[DoorOf(t)]) \in [D \cup {DoorOf(t)} -> Nat]
      /\ D \cup {DoorOf(t)} \in SUBSET Stateful
  BY <1>4, <1>5 DEF With, Stateful
<1>7. With(task[t].seen, DoorOf(t), version[DoorOf(t)]) \in Seen
  BY <1>6 DEF Seen
<1>8. /\ f \in Frame /\ f.outcome = task[t].outcome /\ f.name = task[t].name /\ f.pc = task[t].pc
      /\ f.parent = task[t].parent /\ f.root = task[t].root /\ f.verb = task[t].verb
      /\ f.cap = task[t].cap /\ f.taken = task[t].taken /\ f.threads = task[t].threads
      /\ f.short = task[t].short /\ f.volatile = task[t].volatile /\ f.wrote = task[t].wrote
      /\ f.seen = With(task[t].seen, DoorOf(t), version[DoorOf(t)])
  BY <1>2, <1>7 DEF Frame
<1>9. /\ DOMAIN f.seen = DOMAIN task[t].seen \cup {DoorOf(t)}
      /\ f.seen[DoorOf(t)] = version[DoorOf(t)]
      /\ \A d \in DOMAIN task[t].seen \ {DoorOf(t)} : f.seen[d] = task[t].seen[d]
  BY <1>8 DEF With
<1> HIDE DEF f
<1>10. Passes(DoorOf(t), "source", f.cap) /\ DoorOf(t) = Door(f.name)
  BY <1>1, <1>2, <1>8 DEF Sound, DoorOf
<1>11. Sound(f)
  <2>1. \A d \in DOMAIN f.seen :
          /\ ThreadOf(d) \in Threads
          /\ d # Bindings => Passes(d, "source", f.cap)
          /\ \/ f.volatile \/ ThreadOf(d) \in f.threads
             \/ f.pc \in {"running", "waiting"} /\ d = Door(f.name)
    BY <1>1, <1>2, <1>4, <1>8, <1>9, <1>10 DEF Sound
  <2>2. f.outcome \notin {"unresolved", "limited"}
    BY <1>1, <1>2, <1>8 DEF Sound
  <2> QED
    BY <1>1, <1>2, <1>8, <2>1, <2>2 DEF Sound
<1>12. Current(f)
  BY <1>2, <1>4, <1>8, <1>9 DEF Current
<1> QED
  BY <1>1, <1>2, <1>3, <1>8, <1>11, <1>12, OneGoesOn

\* A write changes it: from then on it is under way to its cut.
LEMMA WriteKeeps ==
    ASSUME IssueInv, NEW t \in Tasks, Touch(t), task[t].verb = "sink" PROVE IssueInv'
<1> DEFINE f == [task[t] EXCEPT !.wrote = TRUE]
<1>1. /\ Busy(t) /\ task[t].pc = "running" /\ Typed /\ Frames /\ Entries
      /\ version' = [version EXCEPT ![DoorOf(t)] = @ + 1]
      /\ UNCHANGED <<issued, cuts, entry, rebinding, lost>>
  BY DEF Touch, At, IssueInv
<1>2. task[t] \in Frame /\ Sound(task[t]) /\ Current(task[t]) /\ Nested(t)
  BY <1>1, OfFrame
<1>3. task' = [task EXCEPT ![t] = f]
  BY <1>2 DEF Touch, Frame
<1>4. /\ DoorOf(t) \in Doors /\ DoorOf(t) # Bindings /\ version[DoorOf(t)] \in Nat
      /\ DoorOf(t) \in Stateful
  BY <1>1, AtItsDoor DEF Stateful
<1>5. /\ f \in Frame /\ f.outcome = task[t].outcome /\ f.name = task[t].name /\ f.pc = "running"
      /\ f.parent = task[t].parent /\ f.root = task[t].root /\ f.verb = task[t].verb
      /\ f.cap = task[t].cap /\ f.taken = task[t].taken /\ f.threads = task[t].threads
      /\ f.short = task[t].short /\ f.volatile = task[t].volatile /\ f.wrote
      /\ f.seen = task[t].seen
  BY <1>1, <1>2 DEF Frame
<1> HIDE DEF f
<1>6. /\ task' \in [Tasks -> Frame \cup {Idle}] /\ task'[t] = f /\ f.pc # "idle"
      /\ \A u \in Tasks \ {t} : task'[u] = task[u]
  BY <1>1, <1>3, <1>5 DEF Typed
<1>7. Typed'
  BY <1>1, <1>4, <1>6 DEF Typed
<1>8. \A d : Writing(d) \/ d = DoorOf(t) => Writing(d)'
  BY <1>1, <1>5, <1>6 DEF Writing, Busy, DoorOf
<1>9. \A d \in Stateful : d # DoorOf(t) => version'[d] = version[d]
  BY <1>1 DEF Typed
<1>10. \A g \in Frame : DOMAIN g.seen \subseteq Stateful
  BY DEF Frame, Seen
<1>11. \A g \in Frame : Current(g) => Current(g)'
  BY <1>1, <1>8, <1>9, <1>10 DEF Current
<1>12. ASSUME NEW u \in Tasks, Busy(u)' PROVE FrameOK(u)'
  <2>1. Busy(u) /\ FrameOK(u) /\ task[u] \in Frame
    BY <1>1, <1>6, <1>12, BusyIsFrame DEF Busy, Frames
  <2>2. task'[u].parent = task[u].parent /\ task'[u].root = task[u].root
        /\ task'[u].verb = task[u].verb /\ task'[u].cap = task[u].cap
        /\ task'[u].taken = task[u].taken /\ task'[u].pc = task[u].pc
        /\ task'[u].seen = task[u].seen /\ task[u].parent \in Tasks \cup {None}
    BY <1>1, <1>5, <1>6, <2>1 DEF Frame
  <2>3. \A v \in Tasks : task'[v].pc = task[v].pc /\ task'[v].parent = task[v].parent
          /\ task'[v].root = task[v].root /\ task'[v].cap = task[v].cap
          /\ task'[v].taken = task[v].taken
    BY <1>1, <1>5, <1>6
  <2>4. Nested(u)'
    BY <1>1, <2>1, <2>2, <2>3 DEF Nested, FrameOK, Busy, At
  <2>5. Sound(task[u])'
    <3>1. CASE u = t
      <4>1. task[t].parent = None
        BY <1>2 DEF Nested, Touch
      <4>2. Sound(f)
        BY <1>1, <1>2, <1>5, <4>1 DEF Sound
      <4> QED
        BY <1>6, <3>1, <4>2 DEF Sound
    <3>2. CASE u # t
      BY <1>6, <2>1, <3>2 DEF FrameOK, Sound
    <3> QED
      BY <3>1, <3>2
  <2>6. Current(task[u])'
    <3>1. Current(task[u]) => Current(task'[u])
      BY <2>2 DEF Current
    <3> QED
      BY <1>6, <1>11, <2>1, <1>5, <3>1 DEF FrameOK, Current
  <2>7. (\A n \in Threads : task[u].taken[n] <= cuts[n])'
    BY <1>1, <2>1, <2>2 DEF FrameOK
  <2> QED
    BY <2>4, <2>5, <2>6, <2>7 DEF FrameOK
<1>13. ASSUME NEW k \in DOMAIN entry PROVE EntryOK(k)'
  <2>1. EntryOK(k) /\ entry[k] \in Kept
    BY <1>1 DEF Entries, Typed
  <2>2. DOMAIN entry[k].seen \subseteq Stateful
    BY <2>1 DEF Kept, Seen
  <2> QED
    BY <1>1, <1>8, <1>9, <2>1, <2>2 DEF EntryOK
<1> QED
  BY <1>1, <1>7, <1>12, <1>13 DEF IssueInv, Frames, Entries

LEMMA SucceedKeeps == ASSUME IssueInv, NEW t \in Tasks, Succeed(t) PROVE IssueInv'
<1> DEFINE volatile == task[t].volatile \/ Contract[DoorOf(t)].expiry = "always"
           f == [task[t] EXCEPT
                   !.pc = AfterRunning(t), !.outcome = "ok", !.volatile = volatile,
                   !.threads = IF volatile THEN @ ELSE @ \cup {task[t].name}]
<1>1. Busy(t) /\ task[t].pc = "running" /\ Elsewhere
  BY DEF Succeed, At
<1>2. /\ task[t] \in Frame /\ Sound(task[t]) /\ Current(task[t])
      /\ task[t].volatile \in BOOLEAN /\ volatile \in BOOLEAN
  BY <1>1, OfFrame DEF Frame
<1>3. ThreadOf(DoorOf(t)) = task[t].name /\ task[t].name \in Threads
  BY <1>1, AtItsDoor
<1>4. task' = [task EXCEPT ![t] = f]
  BY <1>2 DEF Succeed, Frame
<1>5. /\ f \in Frame /\ f.pc = AfterRunning(t) /\ f.outcome = "ok" /\ f.name = task[t].name
      /\ f.parent = task[t].parent /\ f.root = task[t].root /\ f.verb = task[t].verb
      /\ f.cap = task[t].cap /\ f.taken = task[t].taken /\ f.seen = task[t].seen
      /\ f.threads = IF volatile THEN task[t].threads ELSE task[t].threads \cup {task[t].name}
      /\ f.short = task[t].short /\ f.volatile = volatile /\ f.wrote = task[t].wrote
  <2>1. AfterRunning(t) \in Points /\ "ok" \in Outcomes
    BY DEF AfterRunning, Points, Outcomes
  <2>2. (IF volatile THEN task[t].threads ELSE task[t].threads \cup {task[t].name})
          \in SUBSET (Threads \cup {None})
    BY <1>2, <1>3 DEF Frame
  <2> HIDE DEF volatile
  <2> QED
    BY <1>2, <2>1, <2>2 DEF Frame
<1>6. None # "ok" /\ f.pc \in {"store", "cut"} /\ (f.pc = "cut" <=> task[t].verb = "sink")
  BY <1>5, IssueAssumption DEF Outcomes, AfterRunning
<1>7. task[t].volatile => volatile
  OBVIOUS
<1> HIDE DEF f, volatile
<1>8. Sound(f)
  BY <1>1, <1>2, <1>3, <1>5, <1>6, <1>7 DEF Sound, DoorOf
<1>9. Current(f)
  BY <1>2, <1>5 DEF Current
<1> QED
  BY <1>1, <1>4, <1>5, <1>6, <1>8, <1>9, OneGoesOn

LEMMA FailKeeps ==
    ASSUME IssueInv, NEW t \in Tasks, NEW kind \in {"notfound", "failed"}, Fail(t, kind)
    PROVE  IssueInv'
<1> DEFINE f == [task[t] EXCEPT
                   !.pc = IF task[t].verb = "sink" THEN "cut" ELSE "done",
                   !.outcome = kind, !.told = task[t].name, !.threads = @ \cup {task[t].name}]
<1>1. Busy(t) /\ task[t].pc = "running" /\ Elsewhere
  BY DEF Fail, At
<1>2. task[t] \in Frame /\ Sound(task[t]) /\ Current(task[t])
  BY <1>1, OfFrame
<1>3. ThreadOf(DoorOf(t)) = task[t].name /\ task[t].name \in Threads
  BY <1>1, AtItsDoor
<1>4. task' = [task EXCEPT ![t] = f]
  BY <1>2 DEF Fail, AfterFailing, Frame
<1>5. /\ f \in Frame /\ f.outcome = kind /\ f.name = task[t].name
      /\ f.pc = IF task[t].verb = "sink" THEN "cut" ELSE "done"
      /\ f.parent = task[t].parent /\ f.root = task[t].root /\ f.verb = task[t].verb
      /\ f.cap = task[t].cap /\ f.taken = task[t].taken /\ f.seen = task[t].seen
      /\ f.threads = task[t].threads \cup {task[t].name}
      /\ f.short = task[t].short /\ f.volatile = task[t].volatile /\ f.wrote = task[t].wrote
  BY <1>2, <1>3 DEF Frame, Points, Outcomes
<1>6. kind # None
  BY IssueAssumption DEF Outcomes
<1> HIDE DEF f
<1>8. Sound(f)
  BY <1>1, <1>2, <1>3, <1>5, <1>6 DEF Sound, DoorOf
<1>9. Current(f)
  BY <1>2, <1>5 DEF Current
<1>10. task[t].wrote => f.pc = "cut"
  BY <1>2, <1>5 DEF Sound
<1> QED
  BY <1>1, <1>4, <1>5, <1>8, <1>9, <1>10, OneGoesOn

-------------------------------------------------------------------------------
(* What ends an answer, and what changes beside it.                        *)

\* What is stored hangs from no thread cut since its snapshot, so by then it is as
\* the state is.
LEMMA StoreKeeps == ASSUME IssueInv, NEW t \in Tasks, Store(t) PROVE IssueInv'
<1> DEFINE f == [task[t] EXCEPT !.pc = "done"]
           kept == [seen |-> task[t].seen, threads |-> task[t].threads, short |-> task[t].short]
           declined == task[t].volatile \/ \E n \in task[t].threads : cuts[n] # task[t].taken[n]
<1>1. /\ Busy(t) /\ task[t].pc = "store" /\ Typed /\ Frames /\ Entries
      /\ UNCHANGED <<issued, version, cuts, rebinding, lost>>
      /\ entry' = IF declined THEN entry ELSE With(entry, KeyAt(t), kept)
  BY DEF Store, At, IssueInv
<1>2. task[t] \in Frame /\ Sound(task[t]) /\ Current(task[t]) /\ ~task[t].wrote
  BY <1>1, OfFrame DEF Sound
<1>3. task' = [task EXCEPT ![t] = f]
  BY <1>2 DEF Store, Frame
<1>4. /\ f \in Frame /\ f.pc = "done" /\ f.outcome = task[t].outcome
      /\ f.parent = task[t].parent /\ f.root = task[t].root /\ f.verb = task[t].verb
      /\ f.cap = task[t].cap /\ f.taken = task[t].taken /\ f.seen = task[t].seen
      /\ f.threads = task[t].threads
      /\ f.short = task[t].short /\ f.volatile = task[t].volatile /\ f.wrote = task[t].wrote
  BY <1>2 DEF Frame, Points
<1> HIDE DEF f
<1>5. Sound(f) /\ Current(f)
  BY <1>1, <1>2, <1>4 DEF Sound, Current
<1>6. Frames' /\ task' \in [Tasks -> Frame \cup {Idle}] /\ \A d : Writing(d) => Writing(d)'
  BY <1>1, <1>2, <1>3, <1>4, <1>5, FramesAfterOne
<1>7. CASE declined
  <2>1. Entries' /\ \A k \in DOMAIN entry' : entry'[k] \in Kept
    BY <1>1, <1>6, <1>7, EntriesKept
  <2> QED
    BY <1>1, <1>6, <2>1 DEF IssueInv, Typed
<1>8. CASE ~declined
  <2>1. ~task[t].volatile /\ \A n \in task[t].threads : cuts[n] = task[t].taken[n]
    BY <1>8
  <2>2. kept \in Kept /\ kept.seen = task[t].seen /\ kept.threads = task[t].threads
        /\ kept.short = FALSE
    BY <1>2, <2>1 DEF Kept, Frame, Sound
  <2>3. \A d \in DOMAIN task[t].seen :
          /\ ThreadOf(d) \in task[t].threads /\ ThreadOf(d) \in Threads
          /\ d # Bindings => Passes(d, "source", task[t].cap)
    BY <1>1, <1>2, <2>1 DEF Sound
  <2>4. ASSUME NEW d \in DOMAIN task[t].seen, task[t].seen[d] < version[d]
        PROVE  Writing(d)' \/ d \in lost'
    <3>1. cuts[ThreadOf(d)] = task[t].taken[ThreadOf(d)] /\ cuts[ThreadOf(d)] \in Nat
      BY <1>1, <2>1, <2>3 DEF Typed
    <3>2. Writing(d) \/ d \in lost
      BY <1>2, <2>4, <3>1 DEF Current
    <3> QED
      BY <1>1, <1>6, <3>2
  <2>5. KeyAt(t).cap = task[t].cap
    BY DEF KeyAt, KeyOf
  <2> HIDE DEF kept
  <2>6. /\ DOMAIN entry' = DOMAIN entry \cup {KeyAt(t)} /\ entry'[KeyAt(t)] = kept
        /\ \A k \in DOMAIN entry \ {KeyAt(t)} : entry'[k] = entry[k]
    BY <1>1, <1>8 DEF With
  <2>7. ASSUME NEW k \in DOMAIN entry' PROVE EntryOK(k)' /\ entry'[k] \in Kept
    <3>1. CASE k = KeyAt(t)
      <4>1. /\ ~kept.short
            /\ \A d \in DOMAIN kept.seen :
                  /\ ThreadOf(d) \in kept.threads
                  /\ d # Bindings => Passes(d, "source", k.cap)
                  /\ ThreadOf(d) \in Threads
                  /\ kept.seen[d] < version'[d] => Writing(d)' \/ d \in lost'
        BY <1>1, <2>2, <2>3, <2>4, <2>5, <3>1
      <4> QED
        BY <2>2, <2>6, <3>1, <4>1 DEF EntryOK
    <3>2. CASE k # KeyAt(t)
      <4>1. k \in DOMAIN entry /\ entry'[k] = entry[k] /\ EntryOK(k) /\ entry[k] \in Kept
        BY <1>1, <2>6, <3>2 DEF Entries, Typed
      <4> QED
        BY <1>1, <1>6, <4>1 DEF EntryOK
    <3> QED
      BY <3>1, <3>2
  <2> QED
    BY <1>1, <1>6, <2>7 DEF IssueInv, Typed, Entries
<1> QED
  BY <1>7, <1>8

\* After a cut nothing hangs from the thread that is older than the cut, in the
\* cache or on its way there; a write to what it is the thread of may end with it.
LEMMA CutCurrent ==
    ASSUME Typed, Entries, NEW n \in Threads, Cut(n), UNCHANGED <<version, lost>>,
           \A d : Writing(d) => Writing(d)' \/ ThreadOf(d) = n
    PROVE  /\ cuts' \in [Threads -> Nat] /\ \A m \in Threads : cuts[m] <= cuts'[m]
           /\ Entries' /\ \A k \in DOMAIN entry' : entry'[k] \in Kept
           /\ \A g \in Frame :
                 /\ \A m \in Threads : g.taken[m] <= cuts[m]
                 /\ \A d \in DOMAIN g.seen : ThreadOf(d) \in Threads
                 /\ Current(g)
                 => Current(g)'
<1>1. /\ cuts' \in [Threads -> Nat] /\ cuts'[n] = cuts[n] + 1
      /\ \A m \in Threads : m # n => cuts'[m] = cuts[m]
      /\ \A m \in Threads : cuts[m] \in Nat
  BY DEF Typed, Cut
<1>2. /\ DOMAIN entry' \subseteq DOMAIN entry
      /\ \A k \in DOMAIN entry' : entry'[k] = entry[k] /\ n \notin entry[k].threads
  BY DEF Cut
<1>3. ASSUME NEW k \in DOMAIN entry' PROVE EntryOK(k)' /\ entry'[k] \in Kept
  <2>1. EntryOK(k) /\ entry[k] \in Kept /\ entry'[k] = entry[k]
    BY <1>2 DEF Entries, Typed
  <2>2. \A d \in DOMAIN entry[k].seen : ThreadOf(d) # n
    BY <1>2, <2>1 DEF EntryOK
  <2> QED
    BY <2>1, <2>2 DEF EntryOK
<1>4. ASSUME NEW g \in Frame, \A m \in Threads : g.taken[m] <= cuts[m], Current(g),
             \A d \in DOMAIN g.seen : ThreadOf(d) \in Threads,
             NEW d \in DOMAIN g.seen, g.seen[d] < version'[d]
      PROVE  Writing(d)' \/ d \in lost' \/ g.taken[ThreadOf(d)] < cuts'[ThreadOf(d)]
  <2>1. Writing(d) \/ d \in lost \/ g.taken[ThreadOf(d)] < cuts[ThreadOf(d)]
    BY <1>4 DEF Current
  <2>2. /\ ThreadOf(d) \in Threads /\ g.taken[ThreadOf(d)] \in Nat
        /\ g.taken[ThreadOf(d)] <= cuts[ThreadOf(d)]
    BY <1>4 DEF Frame
  <2> QED
    BY <1>1, <2>1, <2>2
<1>5. \A g \in Frame :
         /\ \A m \in Threads : g.taken[m] <= cuts[m]
         /\ \A d \in DOMAIN g.seen : ThreadOf(d) \in Threads
         /\ Current(g)
         => Current(g)'
  BY <1>4 DEF Current
<1> QED
  BY <1>1, <1>3, <1>5 DEF Entries

LEMMA BindingsChangedKeeps == ASSUME IssueInv, BindingsChanged PROVE IssueInv'
<1>1. /\ Typed /\ Frames /\ Entries /\ Cut(Bindings) /\ UNCHANGED <<task, issued, version, lost>>
      /\ Bindings \in Threads
  BY DEF BindingsChanged, IssueInv, Threads
<1>2. \A d : Writing(d) => Writing(d)' \/ ThreadOf(d) = Bindings
  BY <1>1 DEF Writing, Busy, DoorOf, ThreadOf
<1>3. /\ cuts' \in [Threads -> Nat] /\ \A m \in Threads : cuts[m] <= cuts'[m]
      /\ Entries' /\ \A k \in DOMAIN entry' : entry'[k] \in Kept
      /\ \A g \in Frame :
            /\ \A m \in Threads : g.taken[m] <= cuts[m]
            /\ \A d \in DOMAIN g.seen : ThreadOf(d) \in Threads
            /\ Current(g)
            => Current(g)'
  BY <1>1, <1>2, CutCurrent
<1>4. ASSUME NEW u \in Tasks, Busy(u)' PROVE FrameOK(u)'
  <2>1. Busy(u) /\ FrameOK(u) /\ task[u] \in Frame
    BY <1>1, <1>4, BusyIsFrame DEF Busy, Frames
  <2>2. Nested(u)' /\ Sound(task[u])'
    BY <1>1, <2>1 DEF FrameOK, Nested, Sound, Busy, At
  <2>3. Current(task[u])'
    BY <1>1, <1>3, <2>1 DEF FrameOK, Sound, Current
  <2>4. (\A n \in Threads : task[u].taken[n] <= cuts[n])'
    <3>1. \A n \in Threads : task[u].taken[n] \in Nat /\ cuts[n] \in Nat /\ cuts'[n] \in Nat
      BY <1>1, <1>3, <2>1 DEF Frame, Typed
    <3> QED
      BY <1>1, <1>3, <2>1, <3>1 DEF FrameOK
  <2> QED
    BY <2>2, <2>3, <2>4 DEF FrameOK
<1> QED
  BY <1>1, <1>3, <1>4 DEF IssueInv, Typed, Frames

\* A write has returned when its thread is cut.
LEMMA CutTargetKeeps == ASSUME IssueInv, NEW t \in Tasks, CutTarget(t) PROVE IssueInv'
<1> DEFINE f == [task[t] EXCEPT !.pc = "done"]
<1>1. /\ Typed /\ Frames /\ Entries /\ Busy(t) /\ task[t].pc = "cut" /\ Cut(task[t].name)
      /\ UNCHANGED <<issued, version, rebinding, lost>>
  BY DEF CutTarget, IssueInv, At
<1>2. task[t] \in Frame /\ Sound(task[t]) /\ Current(task[t])
  BY <1>1, OfFrame
<1>3. task' = [task EXCEPT ![t] = f]
  BY <1>2 DEF CutTarget, Frame
<1>4. /\ f \in Frame /\ f.pc = "done" /\ f.outcome = task[t].outcome
      /\ f.parent = task[t].parent /\ f.root = task[t].root /\ f.verb = task[t].verb
      /\ f.cap = task[t].cap /\ f.taken = task[t].taken /\ f.seen = task[t].seen
      /\ f.threads = task[t].threads
      /\ f.short = task[t].short /\ f.volatile = task[t].volatile /\ f.wrote = task[t].wrote
  BY <1>2 DEF Frame, Points
<1>5. task[t].name \in Threads /\ ThreadOf(DoorOf(t)) = task[t].name
  BY <1>1, AtItsDoor
<1> HIDE DEF f
<1>6. /\ task' \in [Tasks -> Frame \cup {Idle}] /\ task'[t] = f
      /\ \A u \in Tasks \ {t} : task'[u] = task[u]
  BY <1>1, <1>3, <1>4 DEF Typed
<1>7. \A d : Writing(d) => Writing(d)' \/ ThreadOf(d) = task[t].name
  BY <1>1, <1>5, <1>6 DEF Writing, Busy, DoorOf
<1>8. /\ cuts' \in [Threads -> Nat] /\ \A m \in Threads : cuts[m] <= cuts'[m]
      /\ Entries' /\ \A k \in DOMAIN entry' : entry'[k] \in Kept
      /\ \A g \in Frame :
            /\ \A m \in Threads : g.taken[m] <= cuts[m]
            /\ \A d \in DOMAIN g.seen : ThreadOf(d) \in Threads
            /\ Current(g)
            => Current(g)'
  BY <1>1, <1>5, <1>7, CutCurrent
<1>9. ASSUME NEW u \in Tasks, Busy(u)' PROVE FrameOK(u)'
  <2>1. Busy(u) /\ FrameOK(u) /\ task[u] \in Frame
    BY <1>1, <1>6, <1>9, BusyIsFrame DEF Busy, Frames
  <2>2. /\ task'[u].parent = task[u].parent /\ task'[u].root = task[u].root
        /\ task'[u].verb = task[u].verb /\ task'[u].cap = task[u].cap
        /\ task'[u].taken = task[u].taken /\ task'[u].seen = task[u].seen
        /\ task[u].parent \in Tasks \cup {None}
    BY <1>4, <1>6, <2>1 DEF Frame
  <2>3. \A v \in Tasks : task[v].pc = "waiting" => task'[v] = task[v] /\ v # t
    BY <1>1, <1>6
  <2>4. \A v \in Tasks : Busy(v)' => Busy(v) /\ task'[v].parent = task[v].parent
    BY <1>1, <1>4, <1>6 DEF Busy
  <2>5. Nested(u)'
    BY <2>1, <2>2, <2>3, <2>4 DEF Nested, FrameOK, Busy, At
  <2>6. Sound(task[u])'
    <3>1. CASE u = t
      <4>1. Sound(f)
        BY <1>1, <1>2, <1>4 DEF Sound
      <4> QED
        BY <1>6, <3>1, <4>1 DEF Sound
    <3>2. CASE u # t
      BY <1>6, <2>1, <3>2 DEF FrameOK, Sound
    <3> QED
      BY <3>1, <3>2
  <2>7. Current(task[u])'
    <3>1. /\ \A m \in Threads : task[u].taken[m] <= cuts[m]
          /\ \A d \in DOMAIN task[u].seen : ThreadOf(d) \in Threads
          /\ Current(task[u])
      BY <2>1 DEF FrameOK, Sound
    <3>2. \A d \in DOMAIN task[u].seen : task[u].seen[d] < version'[d]
            => Writing(d)' \/ d \in lost' \/ task[u].taken[ThreadOf(d)] < cuts'[ThreadOf(d)]
      BY <1>8, <2>1, <3>1 DEF Current
    <3> QED
      BY <2>2, <3>2 DEF Current
  <2>8. (\A n \in Threads : task[u].taken[n] <= cuts[n])'
    <3>1. \A n \in Threads : task[u].taken[n] \in Nat /\ cuts[n] \in Nat /\ cuts'[n] \in Nat
      BY <1>1, <1>8, <2>1 DEF Frame, Typed
    <3> QED
      BY <1>8, <2>1, <2>2, <3>1 DEF FrameOK
  <2> QED
    BY <2>5, <2>6, <2>7, <2>8 DEF FrameOK
<1> QED
  BY <1>1, <1>6, <1>8, <1>9 DEF IssueInv, Typed, Frames

LEMMA RebindKeeps == ASSUME IssueInv, Rebind PROVE IssueInv'
<1>1. /\ Typed /\ Frames /\ Entries /\ version' = [version EXCEPT ![Bindings] = @ + 1]
      /\ rebinding' /\ UNCHANGED <<task, issued, cuts, entry, lost>>
  BY DEF Rebind, IssueInv
<1>2. version' \in [Stateful -> Nat] /\ \A d \in Stateful : d # Bindings => version'[d] = version[d]
  BY <1>1 DEF Typed, Stateful
<1>3. \A d : Writing(d) \/ d = Bindings => Writing(d)'
  BY <1>1 DEF Writing, Busy, DoorOf
<1>4. ASSUME NEW u \in Tasks, Busy(u)' PROVE FrameOK(u)'
  <2>1. Busy(u) /\ FrameOK(u) /\ task[u] \in Frame
    BY <1>1, <1>4, BusyIsFrame DEF Busy, Frames
  <2>2. Nested(u)' /\ Sound(task[u])'
    BY <1>1, <2>1 DEF FrameOK, Nested, Sound, Busy, At
  <2>3. DOMAIN task[u].seen \subseteq Stateful
    BY <2>1 DEF Frame, Seen
  <2>4. Current(task[u])'
    BY <1>1, <1>2, <1>3, <2>1, <2>3 DEF FrameOK, Current
  <2> QED
    BY <1>1, <2>1, <2>2, <2>4 DEF FrameOK
<1>5. ASSUME NEW k \in DOMAIN entry' PROVE EntryOK(k)'
  <2>1. EntryOK(k) /\ entry[k] \in Kept /\ entry'[k] = entry[k]
    BY <1>1 DEF Entries, Typed
  <2>2. DOMAIN entry[k].seen \subseteq Stateful
    BY <2>1 DEF Kept, Seen
  <2> QED
    BY <1>1, <1>2, <1>3, <2>1, <2>2 DEF EntryOK
<1> QED
  BY <1>1, <1>2, <1>4, <1>5 DEF IssueInv, Typed, Frames, Entries

-------------------------------------------------------------------------------
(* Requests come and go.                                                   *)

LEMMA IssueKeeps == ASSUME IssueInv, NEW t \in Tasks, NEW ask \in Asks, Issue(t, ask) PROVE IssueInv'
<1> DEFINE f == Fresh(ask, 0, None, t)
<1>1. /\ Typed /\ Frames /\ Entries /\ ~Busy(t) /\ task' = [task EXCEPT ![t] = f]
      /\ UNCHANGED <<version, cuts, entry, rebinding, lost>>
  BY DEF Issue, IssueInv
<1>2. ask.name \in Names /\ ask.verb \in Verbs /\ ask.cap \in Capabilities
  BY IssueAssumption
<1>3. NothingSeen \in Seen /\ DOMAIN NothingSeen = {}
  <2>1. NothingSeen \in [{} -> Nat] /\ {} \in SUBSET Stateful
    BY DEF NothingSeen
  <2> QED
    BY <2>1 DEF Seen
<1>4. /\ f \in Frame /\ f.pc = "arrive" /\ f.outcome = None /\ f.parent = None /\ f.root = t
      /\ f.taken = cuts /\ f.seen = NothingSeen /\ f.short = FALSE /\ f.wrote = FALSE
  BY <1>1, <1>2, <1>3 DEF Fresh, Frame, Points, Typed
<1> HIDE DEF f
<1>5. /\ task' \in [Tasks -> Frame \cup {Idle}] /\ task'[t] = f
      /\ \A u \in Tasks \ {t} : task'[u] = task[u]
  BY <1>1, <1>4 DEF Typed
<1>6. \A d : Writing(d) => Writing(d)'
  BY <1>1, <1>5 DEF Writing, Busy, DoorOf
<1>7. None \notin Outcomes
  BY IssueAssumption
<1>8. Sound(f)
  BY <1>3, <1>4, <1>7 DEF Sound, Outcomes
<1>9. ASSUME NEW u \in Tasks, Busy(u)' PROVE FrameOK(u)'
  <2>1. CASE u = t
    <3>1. Nested(u)' /\ Sound(task[u])' /\ Current(task[u])'
      BY <1>3, <1>4, <1>5, <1>8, <2>1 DEF Nested, Sound, Current
    <3>2. \A n \in Threads : f.taken[n] <= cuts'[n]
      BY <1>1, <1>4 DEF Typed
    <3> QED
      BY <1>5, <2>1, <3>1, <3>2 DEF FrameOK
  <2>2. CASE u # t
    <3>1. Busy(u) /\ FrameOK(u) /\ task'[u] = task[u]
      BY <1>1, <1>5, <1>9, <2>2 DEF Busy, Frames
    <3>2. \A v \in Tasks : Busy(v)' /\ task'[v].parent # None => Busy(v) /\ task'[v] = task[v]
      BY <1>4, <1>5 DEF Busy
    <3>3. \A v \in Tasks : Busy(v) => task'[v] = task[v]
      BY <1>1, <1>5
    <3>5. task[u].parent \in Tasks \cup {None}
      BY <1>1, <3>1, BusyIsFrame DEF Frame
    <3>4. Nested(u)'
      BY <3>1, <3>2, <3>3, <3>5 DEF Nested, FrameOK, Busy, At
    <3> QED
      BY <1>1, <1>6, <3>1, <3>4 DEF FrameOK, Sound, Current
  <2> QED
    BY <2>1, <2>2
<1>10. Entries' /\ \A k \in DOMAIN entry' : entry'[k] \in Kept
  BY <1>1, <1>6, EntriesKept
<1> QED
  BY <1>1, <1>5, <1>9, <1>10 DEF IssueInv, Typed, Frames

\* A host takes its answer, which nobody below waits for any more.
LEMMA ReapKeeps == ASSUME IssueInv, NEW t \in Tasks, Reap(t) PROVE IssueInv'
<1>1. /\ Typed /\ Frames /\ Entries /\ Busy(t) /\ task[t].pc = "done"
      /\ task' = [task EXCEPT ![t] = Idle]
      /\ UNCHANGED <<version, cuts, entry, rebinding, lost>>
  BY DEF Reap, IssueInv, At, Elsewhere
<1>2. /\ task' \in [Tasks -> Frame \cup {Idle}] /\ task'[t] = Idle /\ ~Busy(t)'
      /\ \A u \in Tasks \ {t} : task'[u] = task[u]
  BY <1>1 DEF Typed, Busy, Idle
<1>3. \A d : Writing(d) => Writing(d)'
  BY <1>1, <1>2 DEF Writing, Busy, DoorOf
<1>4. ASSUME NEW u \in Tasks, Busy(u)' PROVE FrameOK(u)'
  <2>1. Busy(u) /\ FrameOK(u) /\ task'[u] = task[u] /\ u # t
    BY <1>1, <1>2, <1>4 DEF Busy, Frames
  <2>2. \A v \in Tasks : Busy(v)' => Busy(v) /\ task'[v] = task[v]
    BY <1>2 DEF Busy
  <2>3. task[u].parent \in Tasks \cup {None} /\ task[u].parent # t
    BY <1>1, <2>1, BusyIsFrame, IssueAssumption DEF Frame, FrameOK, Nested, At
  <2>4. Nested(u)'
    BY <1>2, <2>1, <2>2, <2>3 DEF Nested, FrameOK, Busy, At
  <2> QED
    BY <1>1, <1>3, <2>1, <2>4 DEF FrameOK, Sound, Current
<1>5. Entries' /\ \A k \in DOMAIN entry' : entry'[k] \in Kept
  BY <1>1, <1>3, EntriesKept
<1> QED
  BY <1>1, <1>2, <1>4, <1>5 DEF IssueInv, Typed, Frames

\* An invocation asks, with its own capability and a later snapshot.
LEMMA CallKeeps == ASSUME IssueInv, NEW t \in Tasks, NEW u \in Tasks, Call(t, u) PROVE IssueInv'
<1> DEFINE callee == Contract[DoorOf(t)].calls
           f == [task[t] EXCEPT !.pc = "waiting", !.called = TRUE]
           g == Fresh([name |-> callee, verb |-> "source", cap |-> task[t].cap],
                      task[t].depth + 1, t, task[t].root)
<1>1. /\ Typed /\ Frames /\ Entries /\ Busy(t) /\ task[t].pc = "running" /\ ~Busy(u)
      /\ callee # None /\ UNCHANGED <<version, cuts, entry, rebinding, lost>>
  BY DEF Call, IssueInv, At, Elsewhere
<1>2. task[t] \in Frame /\ Sound(task[t]) /\ Current(task[t]) /\ FrameOK(t) /\ t # u
  BY <1>1, OfFrame DEF Frames
<1>3. callee \in Names
  BY <1>1, AtItsDoor, IssueAssumption
<1>4. NothingSeen \in Seen /\ DOMAIN NothingSeen = {}
  <2>1. NothingSeen \in [{} -> Nat] /\ {} \in SUBSET Stateful
    BY DEF NothingSeen
  <2> QED
    BY <2>1 DEF Seen
<1>5. /\ f \in Frame /\ f.pc = "waiting" /\ f.outcome = task[t].outcome /\ f.name = task[t].name
      /\ f.parent = task[t].parent /\ f.root = task[t].root /\ f.verb = task[t].verb
      /\ f.cap = task[t].cap /\ f.taken = task[t].taken /\ f.seen = task[t].seen
      /\ f.threads = task[t].threads
      /\ f.short = task[t].short /\ f.volatile = task[t].volatile /\ f.wrote = task[t].wrote
  BY <1>2 DEF Frame, Points
<1>6. /\ g \in Frame /\ g.pc = "arrive" /\ g.outcome = None /\ g.parent = t
      /\ g.root = task[t].root /\ g.verb = "source" /\ g.cap = task[t].cap
      /\ g.taken = cuts /\ g.seen = NothingSeen /\ g.short = FALSE /\ g.wrote = FALSE
  BY <1>1, <1>2, <1>3, <1>4 DEF Fresh, Frame, Points, Verbs, Typed
<1>7. task' = [task EXCEPT ![t] = f, ![u] = g]
  BY <1>2 DEF Call, Frame
<1> HIDE DEF f, g, callee
<1>8. /\ task' \in [Tasks -> Frame \cup {Idle}] /\ task'[t] = f /\ task'[u] = g
      /\ \A v \in Tasks \ {t, u} : task'[v] = task[v]
  BY <1>1, <1>2, <1>5, <1>6, <1>7 DEF Typed
<1>9. \A d : Writing(d) => Writing(d)'
  BY <1>1, <1>5, <1>8 DEF Writing, Busy, DoorOf
<1>10. None \notin Outcomes /\ None \notin Tasks
  BY IssueAssumption
<1>11. Sound(f) /\ Sound(g)
  BY <1>1, <1>2, <1>4, <1>5, <1>6, <1>10 DEF Sound, Outcomes
\* The asking request waited for nobody before.
<1>12. \A v \in Tasks : Busy(v) => task[v].parent # t /\ task[v].parent # u
  BY <1>1, <1>2, <1>10 DEF Frames, FrameOK, Nested, At
<1>13. ASSUME NEW v \in Tasks, Busy(v)' PROVE FrameOK(v)'
  <2>1. CASE v = u
    <3>1. \A n \in Threads : task[t].taken[n] <= cuts[n]
      BY <1>2 DEF FrameOK
    <3>2. \A w \in Tasks : Busy(w)' /\ task'[w].parent = t => w = u
      BY <1>2, <1>5, <1>8, <1>12, <1>1 DEF Busy
    <3>3. Nested(u)'
      BY <1>2, <1>5, <1>6, <1>8, <1>10, <3>1, <3>2, <1>1 DEF Nested, At, Busy
    <3>4. Sound(task[u])' /\ Current(task[u])'
      BY <1>4, <1>6, <1>8, <1>11 DEF Sound, Current
    <3>5. \A n \in Threads : g.taken[n] <= cuts'[n]
      BY <1>1, <1>6 DEF Typed
    <3> QED
      BY <1>8, <2>1, <3>3, <3>4, <3>5 DEF FrameOK
  <2>2. CASE v = t
    <3>1. task[t].parent \in Tasks \cup {None} /\ task[t].parent # u
      BY <1>1, <1>2, <1>12 DEF Frame
    <3>2. \A w \in Tasks : Busy(w)' /\ w # u => Busy(w) /\ task'[w].parent = task[w].parent
      BY <1>1, <1>5, <1>8 DEF Busy
    <3>3. \A w \in Tasks : Busy(w) /\ task[w].pc = "waiting" => task'[w] = task[w]
      BY <1>1, <1>8
    <3>4. Nested(t)'
      BY <1>1, <1>2, <1>5, <1>6, <1>8, <3>1, <3>2, <3>3 DEF Nested, FrameOK, At, Busy
    <3>5. Sound(task[t])' /\ Current(task[t])'
      BY <1>1, <1>2, <1>5, <1>8, <1>9, <1>11 DEF Sound, Current
    <3>6. (\A n \in Threads : task[t].taken[n] <= cuts[n])'
      BY <1>1, <1>2, <1>5, <1>8 DEF FrameOK
    <3> QED
      BY <2>2, <3>4, <3>5, <3>6 DEF FrameOK
  <2>3. CASE v # u /\ v # t
    <3>1. Busy(v) /\ FrameOK(v) /\ task'[v] = task[v]
      BY <1>1, <1>8, <1>13, <2>3 DEF Busy, Frames
    <3>2. task[v].parent \in Tasks \cup {None} /\ task[v].parent # t /\ task[v].parent # u
      BY <1>1, <1>12, <3>1, BusyIsFrame DEF Frame
    <3>3. \A w \in Tasks : Busy(w)' /\ w # u => Busy(w) /\ task'[w].parent = task[w].parent
      BY <1>1, <1>5, <1>8 DEF Busy
    <3>4. Nested(v)'
      BY <1>6, <1>8, <2>3, <3>1, <3>2, <3>3 DEF Nested, FrameOK, At, Busy
    <3> QED
      BY <1>1, <1>9, <3>1, <3>4 DEF FrameOK, Sound, Current
  <2> QED
    BY <2>1, <2>2, <2>3
<1>14. Entries' /\ \A k \in DOMAIN entry' : entry'[k] \in Kept
  BY <1>1, <1>9, EntriesKept
<1> QED
  BY <1>1, <1>8, <1>13, <1>14 DEF IssueInv, Typed, Frames

\* An answer built from two parts saw what they saw, of either's age.
LEMMA BuiltOf ==
    ASSUME NEW f \in Seen, NEW g \in Seen
    PROVE  /\ Built(f, g) \in Seen /\ DOMAIN Built(f, g) = DOMAIN f \cup DOMAIN g
           /\ \A d \in DOMAIN f \cup DOMAIN g :
                 \/ d \in DOMAIN f /\ Built(f, g)[d] = f[d]
                 \/ d \in DOMAIN g /\ Built(f, g)[d] = g[d]
<1>1. PICK D \in SUBSET Stateful : f \in [D -> Nat]
  BY DEF Seen
<1>2. PICK E \in SUBSET Stateful : g \in [E -> Nat]
  BY DEF Seen
<1>3. \A d \in D \cup E : (IF Sees(f, d) /\ (Sees(g, d) => f[d] <= g[d]) THEN f[d] ELSE g[d]) \in Nat
  BY <1>1, <1>2 DEF Sees
<1>4. Built(f, g) \in [D \cup E -> Nat]
  BY <1>1, <1>2, <1>3 DEF Built
<1>5. Built(f, g) \in Seen
  BY <1>4 DEF Seen
<1> QED
  BY <1>5 DEF Built, Sees

\* What an answer is folded into is as sound and as current as both were.
LEMMA Folded ==
    ASSUME IssueInv, NEW p \in Tasks, NEW u \in Tasks, Busy(p), Busy(u),
           task[p].pc = "waiting", task[u].pc = "done", task[u].cap = task[p].cap,
           \A n \in Threads : task[p].taken[n] <= task[u].taken[n]
    PROVE  LET f == Fold(task[p], task[u])
           IN  /\ f \in Frame /\ Sound(f) /\ Current(f) /\ f.pc = "running"
               /\ f.name = task[p].name /\ f.parent = task[p].parent /\ f.root = task[p].root
               /\ f.verb = task[p].verb /\ f.cap = task[p].cap /\ f.taken = task[p].taken
               /\ f.wrote = task[p].wrote
<1> DEFINE a == task[p]
           c == task[u]
           f == Fold(a, c)
           seen == Built(a.seen, c.seen)
           more == CASE c.outcome = "ok" -> c.threads
                     [] c.outcome = "notfound" -> c.threads \cup {c.asked}
                     [] c.outcome \in {"unresolved", "limited"} -> {c.told}
                     [] OTHER -> {}
           volatile == a.volatile \/ c.volatile \/ c.outcome \in {"denied", "depth", "failed"}
           short == a.short \/ c.short \/ c.outcome = "depth"
<1>1. /\ a \in Frame /\ Sound(a) /\ Current(a) /\ c \in Frame /\ Sound(c) /\ Current(c)
  BY OfFrame
<1>2. c.outcome \in Outcomes
  BY <1>1 DEF Sound, Frame
<1>3. more \in SUBSET (Threads \cup {None})
  <2>1. c.threads \in SUBSET (Threads \cup {None}) /\ c.asked \in Threads
        /\ c.told \in Threads \cup {None}
    BY <1>1 DEF Frame, Threads
  <2> QED
    BY <2>1
<1>4. /\ seen \in Seen /\ DOMAIN seen = DOMAIN a.seen \cup DOMAIN c.seen
      /\ \A d \in DOMAIN a.seen \cup DOMAIN c.seen :
            \/ d \in DOMAIN a.seen /\ seen[d] = a.seen[d]
            \/ d \in DOMAIN c.seen /\ seen[d] = c.seen[d]
  <2>1. a.seen \in Seen /\ c.seen \in Seen
    BY <1>1 DEF Frame
  <2> HIDE DEF a, c
  <2> QED
    BY <2>1, BuiltOf
<1>5. volatile \in BOOLEAN /\ short \in BOOLEAN /\ (a.threads \cup more) \in SUBSET (Threads \cup {None})
  BY <1>1, <1>3 DEF Frame
<1>6. f = [a EXCEPT !.pc = "running", !.seen = seen, !.threads = a.threads \cup more,
                    !.volatile = volatile, !.short = short]
  BY <1>1 DEF Fold, Frame
<1>7. \A d \in DOMAIN c.seen : volatile \/ ThreadOf(d) \in more
  <2>1. c.outcome \notin {"unresolved", "limited"} \/ DOMAIN c.seen = {}
    BY <1>1 DEF Sound
  <2>2. \A d \in DOMAIN c.seen : c.volatile \/ ThreadOf(d) \in c.threads
    BY <1>1 DEF Sound
  <2> QED
    BY <1>2, <2>1, <2>2 DEF Outcomes
<1>8. (a.volatile => volatile) /\ (c.volatile => volatile) /\ (short => volatile)
  BY <1>1 DEF Sound
<1> HIDE DEF seen, more, volatile, short, f
<1>9. /\ f \in Frame /\ f.pc = "running" /\ f.outcome = a.outcome /\ f.name = a.name
      /\ f.parent = a.parent /\ f.root = a.root /\ f.verb = a.verb
      /\ f.cap = a.cap /\ f.taken = a.taken /\ f.seen = seen /\ f.threads = a.threads \cup more
      /\ f.short = short /\ f.volatile = volatile /\ f.wrote = a.wrote
  BY <1>1, <1>4, <1>5, <1>6, ZenonT(60) DEF Frame, Points
<1>10. ASSUME NEW d \in DOMAIN f.seen
       PROVE  /\ ThreadOf(d) \in Threads
              /\ d # Bindings => Passes(d, "source", f.cap)
              /\ \/ f.volatile \/ ThreadOf(d) \in f.threads
                 \/ f.pc \in {"running", "waiting"} /\ d = Door(f.name)
  <2>1. CASE d \in DOMAIN a.seen
    BY <1>1, <1>8, <1>9, <2>1 DEF Sound
  <2>2. CASE d \in DOMAIN c.seen
    BY <1>1, <1>7, <1>9, <2>2 DEF Sound
  <2> QED
    BY <1>4, <1>9, <2>1, <2>2
<1>11. Sound(f)
  <2>1. f.outcome \notin {"unresolved", "limited"}
    BY <1>1, <1>9 DEF Sound
  <2> QED
    BY <1>1, <1>8, <1>9, <1>10, <2>1 DEF Sound
<1>12. Current(f)
  <2> SUFFICES ASSUME NEW d \in DOMAIN f.seen, f.seen[d] < version[d]
               PROVE  Writing(d) \/ d \in lost \/ f.taken[ThreadOf(d)] < cuts[ThreadOf(d)]
    BY DEF Current
  <2>1. CASE d \in DOMAIN a.seen /\ seen[d] = a.seen[d]
    BY <1>1, <1>9, <2>1 DEF Current
  <2>2. CASE d \in DOMAIN c.seen /\ seen[d] = c.seen[d]
    <3>1. ThreadOf(d) \in Threads
      BY <1>10
    <3>2. /\ a.taken[ThreadOf(d)] \in Nat /\ c.taken[ThreadOf(d)] \in Nat
          /\ cuts[ThreadOf(d)] \in Nat /\ a.taken[ThreadOf(d)] <= c.taken[ThreadOf(d)]
      BY <1>1, <3>1 DEF Frame, IssueInv, Typed
    <3>3. Writing(d) \/ d \in lost \/ c.taken[ThreadOf(d)] < cuts[ThreadOf(d)]
      BY <1>1, <1>9, <2>2 DEF Current
    <3> QED
      BY <1>9, <3>2, <3>3
  <2> QED
    BY <1>4, <1>9, <2>1, <2>2
<1> QED
  BY <1>9, <1>11, <1>12 DEF f

LEMMA ReturnKeeps == ASSUME IssueInv, NEW u \in Tasks, Return(u) PROVE IssueInv'
<1> DEFINE p == task[u].parent
           f == Fold(task[p], task[u])
<1>1. /\ Typed /\ Frames /\ Entries /\ Busy(u) /\ task[u].pc = "done" /\ p # None
      /\ task' = [task EXCEPT ![p] = f, ![u] = Idle]
      /\ UNCHANGED <<version, cuts, entry, rebinding, lost>>
  BY DEF Return, IssueInv, At, Elsewhere
<1>2. task[u] \in Frame /\ Sound(task[u]) /\ Nested(u) /\ p \in Tasks
  BY <1>1, OfFrame DEF Frame
<1>3. /\ p # u /\ Busy(p) /\ task[p].pc = "waiting" /\ task[u].cap = task[p].cap
      /\ \A n \in Threads : task[p].taken[n] <= task[u].taken[n]
      /\ \A v \in Tasks : Busy(v) /\ task[v].parent = p => v = u
      /\ ~task[u].wrote
  BY <1>1, <1>2 DEF Nested, At, Sound
<1>4. /\ f \in Frame /\ Sound(f) /\ Current(f) /\ f.pc = "running"
      /\ f.name = task[p].name /\ f.parent = task[p].parent /\ f.root = task[p].root
      /\ f.verb = task[p].verb /\ f.cap = task[p].cap /\ f.taken = task[p].taken
      /\ f.wrote = task[p].wrote
  BY <1>1, <1>2, <1>3, Folded
<1>5. FrameOK(p)
  BY <1>2, <1>3, <1>1 DEF Frames
<1> HIDE DEF f, p
<1>6. /\ task' \in [Tasks -> Frame \cup {Idle}] /\ task'[p] = f /\ task'[u] = Idle /\ ~Busy(u)'
      /\ \A v \in Tasks \ {p, u} : task'[v] = task[v]
  BY <1>1, <1>2, <1>3, <1>4 DEF Typed, Busy, Idle
<1>7. \A d : Writing(d) => Writing(d)'
  BY <1>1, <1>2, <1>3, <1>4, <1>6 DEF Writing, Busy, DoorOf
<1>8. \A v \in Tasks : Busy(v) => task[v].parent # u
  BY <1>1, IssueAssumption DEF Frames, FrameOK, Nested, At
<1>9. \A v \in Tasks : Busy(v)' => v # u /\ Busy(v) /\ task'[v].parent = task[v].parent
  BY <1>3, <1>4, <1>6 DEF Busy
<1>10. ASSUME NEW v \in Tasks, Busy(v)' PROVE FrameOK(v)'
  <2>1. /\ v # u /\ Busy(v) /\ FrameOK(v) /\ task[v].parent \in Tasks \cup {None}
        /\ task[v].parent # u /\ task[v].parent # p
    BY <1>1, <1>3, <1>8, <1>9, <1>10, BusyIsFrame DEF Frames, Frame
  <2>2. /\ task'[v].parent = task[v].parent /\ task'[v].root = task[v].root
        /\ task'[v].verb = task[v].verb /\ task'[v].cap = task[v].cap
        /\ task'[v].taken = task[v].taken
    BY <1>4, <1>6, <2>1
  <2>3. \A w \in Tasks \ {u, p} : task'[w] = task[w]
    BY <1>6
  <2>4. Nested(v)'
    BY <1>9, <2>1, <2>2, <2>3 DEF Nested, FrameOK, Busy, At
  <2>5. Sound(task[v])' /\ Current(task[v])'
    <3>1. CASE v = p
      BY <1>1, <1>4, <1>6, <1>7, <3>1 DEF Sound, Current
    <3>2. CASE v # p
      BY <1>1, <1>6, <1>7, <2>1, <3>2 DEF FrameOK, Sound, Current
    <3> QED
      BY <3>1, <3>2
  <2>6. (\A n \in Threads : task[v].taken[n] <= cuts[n])'
    BY <1>1, <2>1, <2>2 DEF FrameOK
  <2> QED
    BY <2>4, <2>5, <2>6 DEF FrameOK
<1>11. Entries' /\ \A k \in DOMAIN entry' : entry'[k] \in Kept
  BY <1>1, <1>7, EntriesKept
<1> QED
  BY <1>1, <1>6, <1>10, <1>11 DEF IssueInv, Typed, Frames

\* A dropped request takes all it asked with it; what it wrote is lost.
LEMMA DropKeeps == ASSUME IssueInv, NEW t \in Tasks, Drop(t) PROVE IssueInv'
<1>1. /\ Typed /\ Frames /\ Entries /\ Busy(t) /\ task[t].parent = None
      /\ task' = [u \in Tasks |-> IF Busy(u) /\ task[u].root = t THEN Idle ELSE task[u]]
      /\ lost' = lost \cup (IF task[t].wrote THEN {DoorOf(t)} ELSE {})
      /\ UNCHANGED <<version, cuts, entry, rebinding>>
  BY DEF Drop, IssueInv
<1>2. /\ task' \in [Tasks -> Frame \cup {Idle}]
      /\ \A v \in Tasks : Busy(v)' => Busy(v) /\ task[v].root # t /\ task'[v] = task[v]
      /\ \A v \in Tasks : Busy(v) /\ task[v].root # t => task'[v] = task[v]
  BY <1>1 DEF Typed, Busy, Idle
<1>3. \A v \in Tasks : Busy(v) /\ task[v].wrote /\ task[v].root = t => v = t
  BY <1>1 DEF Frames, FrameOK, Nested, Sound
<1>4. \A d : Writing(d) \/ d \in lost => Writing(d)' \/ d \in lost'
  BY <1>1, <1>2, <1>3 DEF Writing, Busy, DoorOf
<1>5. ASSUME NEW v \in Tasks, Busy(v)' PROVE FrameOK(v)'
  <2>1. /\ Busy(v) /\ FrameOK(v) /\ task'[v] = task[v] /\ task[v].root # t
        /\ task[v].parent \in Tasks \cup {None}
    BY <1>1, <1>2, <1>5, BusyIsFrame DEF Frames, Frame
  <2>2. Nested(v)'
    BY <1>2, <2>1 DEF Nested, FrameOK, Busy, At
  <2>3. Current(task[v])'
    BY <1>1, <1>4, <2>1 DEF FrameOK, Current
  <2> QED
    BY <1>1, <2>1, <2>2, <2>3 DEF FrameOK, Sound
<1>6. \A k \in DOMAIN entry : EntryOK(k)'
  BY <1>1, <1>4 DEF Entries, EntryOK
<1> QED
  BY <1>1, <1>2, <1>5, <1>6 DEF IssueInv, Typed, Frames, Entries

-------------------------------------------------------------------------------
(* The invariant, and what follows from it.                                *)

LEMMA IssueStart == Init => IssueInv
<1> SUFFICES ASSUME Init PROVE IssueInv
  OBVIOUS
<1>1. Typed
  BY DEF Init, Typed, Stateful, Threads
<1> QED
  BY <1>1 DEF Init, IssueInv, Frames, Entries, Busy, Idle

LEMMA IssueStep == IssueInv /\ [Next]_vars => IssueInv'
<1> SUFFICES ASSUME IssueInv, [Next]_vars PROVE IssueInv'
  OBVIOUS
<1>1. CASE UNCHANGED vars
  BY <1>1 DEF vars, IssueInv, Typed, Frames, Entries, FrameOK, Nested, Sound, Current, EntryOK,
              Writing, Busy, At, DoorOf
<1>2. CASE \E t \in Tasks, ask \in Asks : Issue(t, ask)
  BY <1>2, IssueKeeps
<1>3. CASE \E t, u \in Tasks : Call(t, u)
  BY <1>3, CallKeeps
<1>4. ASSUME NEW t \in Tasks,
             Arrive(t) \/ AnswerKernelOp(t) \/ Resolve(t) \/ Lookup(t) \/ Describe(t)
      PROVE  IssueInv'
  BY <1>4, ArriveKeeps, AnswerKernelOpKeeps, ResolveKeeps, LookupKeeps, DescribeKeeps
<1>5. ASSUME NEW t \in Tasks, Touch(t) PROVE IssueInv'
  BY <1>5, ReadKeeps, WriteKeeps
<1>6. ASSUME NEW t \in Tasks, Succeed(t) \/ Fail(t, "notfound") \/ Fail(t, "failed")
      PROVE  IssueInv'
  BY <1>6, SucceedKeeps, FailKeeps
<1>7. ASSUME NEW t \in Tasks, Store(t) \/ CutTarget(t) \/ Return(t) \/ Reap(t) \/ Drop(t)
      PROVE  IssueInv'
  BY <1>7, StoreKeeps, CutTargetKeeps, ReturnKeeps, ReapKeeps, DropKeeps
<1>8. CASE Rebind \/ BindingsChanged
  BY <1>8, RebindKeeps, BindingsChangedKeeps
<1> QED
  BY <1>1, <1>2, <1>3, <1>4, <1>5, <1>6, <1>7, <1>8 DEF Next

LEMMA IssueInvariant == Spec => []IssueInv
BY IssueStart, IssueStep, PTL DEF Spec

\* Once a write has returned, with success or not and through whichever name, no
\* cached answer is older: of any composite, at any depth, whatever ran beside it
\* and was dropped (kernel.rs issue_answer: the cut follows every dispatched
\* write, the store is declined if a thread was cut since the snapshot).
THEOREM ReadsFollowWrites == Spec => []ReadYourWrites
<1>1. IssueInv => ReadYourWrites
  BY DEF IssueInv, Entries, EntryOK, ReadYourWrites
<1> QED
  BY <1>1, IssueInvariant, PTL

\* No cached answer was shaped by the nesting budget (kernel.rs depth check;
\* endpoint.rs record: a refused sub-request makes the answer volatile).
THEOREM DepthStaysOutOfTheCache == Spec => []NoDepthInCache
<1>1. IssueInv => NoDepthInCache
  BY DEF IssueInv, Entries, EntryOK, NoDepthInCache
<1> QED
  BY <1>1, IssueInvariant, PTL

\* The capability a cached answer is kept under may read, at its own doors,
\* everything the answer was built from (kernel.rs: the floor before the lookup,
\* the capability in the key, the issuer's capability for sub-requests).
THEOREM CacheWidensNothing == Spec => []CachedWithinAuthority
<1>1. IssueInv => CachedWithinAuthority
  BY DEF IssueInv, Entries, EntryOK, CachedWithinAuthority
<1> QED
  BY <1>1, IssueInvariant, PTL

-------------------------------------------------------------------------------
(* How far a request has got, and what it has passed on the way.           *)

\* The floor admits a request for n, which the kernel's own table let through.
Admitted(n, verb, cap) ==
    /\ n \in Names \ KernelOps /\ Dispatches(n)
    /\ Passes(Door(n), verb, cap) /\ ~Conceals(Door(n), verb, cap)

\* An endpoint was asked, under the name adopted, by a request it admits.
Asked(f) ==
    Admitted(Table[f.asked], f.verb, f.cap) /\ f.name = Reported(Table[f.asked])

\* What a request that came to no endpoint, or to its end there, is answered.
Ended(f) ==
    LET n == Table[f.asked]
    IN  \/ f.outcome = "depth"
        \/ f.outcome = "failed" /\ n = Refused
        \/ f.outcome \in {"ok", "failed"} /\ n \in KernelOps
        \/ /\ n \in Names \ KernelOps
           /\ \/ f.outcome = "failed" /\ (Door(n) = Breach \/ MovedIntoKernel(n))
              \/ f.outcome = "unresolved" /\ f.told = n /\ Door(n) = Miss
              \/ /\ f.outcome = "limited" /\ Door(n) \in Doors /\ ~MovedIntoKernel(n)
                 /\ Contract[Door(n)].limiter
              \/ /\ f.outcome = "unresolved" /\ f.told = n /\ Dispatches(n)
                 /\ Conceals(Door(n), f.verb, f.cap)
              \/ /\ f.outcome = "denied" /\ Dispatches(n)
                 /\ ~Passes(Door(n), f.verb, f.cap)
              \/ f.outcome \in {"ok", "notfound", "failed"} /\ Admitted(n, f.verb, f.cap)

OnItsWay(f) ==
    LET n == Table[f.asked]
    IN  /\ f.pc \in {"kernel", "resolve"} => n # Refused /\ f.name = n
        /\ f.pc = "kernel" => n \in KernelOps
        /\ f.pc = "resolve" => n \notin KernelOps
        /\ f.pc \in {"lookup", "describe", "running", "waiting", "cut"} => Asked(f)
        /\ f.pc = "cut" => f.outcome \in {"ok", "notfound", "failed"}
        /\ f.pc = "store" => f.outcome = "ok" /\ (Asked(f) \/ (n \in KernelOps /\ f.name = n))
        /\ f.pc = "done" => Ended(f)
Ways == \A t \in Tasks : Busy(t) => OnItsWay(task[t])

\* A key of the cache is the key of requests the floor admits, or of an operation.
KeyServed(k) ==
    /\ k.verb # "sink"
    /\ \/ k.name \in KernelOps
       \/ \E n \in Names : Admitted(n, k.verb, k.cap) /\ Reported(n) = k.name
Keys == \A k \in DOMAIN entry : KeyServed(k)

\* One request goes on along its way.
LEMMA OneOnItsWay ==
    ASSUME Typed, Ways, NEW t \in Tasks, NEW f, task' = [task EXCEPT ![t] = f], OnItsWay(f)
    PROVE  Ways'
<1>1. \A u \in Tasks : task'[u] = IF u = t THEN f ELSE task[u]
  BY DEF Typed
<1> SUFFICES ASSUME NEW u \in Tasks, Busy(u)' PROVE OnItsWay(task'[u])
  BY DEF Ways, OnItsWay, Ended, Asked, Admitted, MovedIntoKernel
<1> QED
  BY <1>1 DEF Ways, Busy

\* What a request is asked and has been told, which the rest of a frame does not touch.
LEMMA SameWay ==
    ASSUME NEW f, NEW g, OnItsWay(f), g.asked = f.asked, g.name = f.name, g.verb = f.verb,
           g.cap = f.cap, g.outcome = f.outcome, g.told = f.told,
           \/ g.pc = f.pc
           \/ f.pc \in {"lookup", "running", "waiting"} /\ g.pc \in {"describe", "running", "waiting"}
           \/ f.pc \in {"store", "cut"} /\ g.pc = "done"
    PROVE  OnItsWay(g)
<1>1. CASE g.pc = f.pc
  BY <1>1 DEF OnItsWay, Ended, Asked
<1>2. CASE f.pc \in {"lookup", "running", "waiting"} /\ g.pc \in {"describe", "running", "waiting"}
  BY <1>2 DEF OnItsWay, Asked
<1>3. CASE f.pc \in {"store", "cut"} /\ g.pc = "done"
  BY <1>3 DEF OnItsWay, Ended, Asked, Admitted
<1> QED
  BY <1>1, <1>2, <1>3

LEMMA ArriveOnItsWay == ASSUME IssueInv, Ways, NEW t \in Tasks, Arrive(t) PROVE Ways'
<1> DEFINE n == Table[task[t].asked]
<1>1. Busy(t) /\ task[t].pc = "arrive" /\ task[t] \in Frame /\ Typed
  BY OfFrame DEF Arrive, At, IssueInv
<1>2. n \in Names \cup {Refused}
  BY <1>1, IssueAssumption DEF Frame
<1>3. PICK f \in Frame : task' = [task EXCEPT ![t] = f] /\ OnItsWay(f)
  <2>1. CASE n = Refused
    <3> DEFINE f == [task[t] EXCEPT !.pc = "done", !.outcome = "failed", !.told = None]
    <3>1. f \in Frame /\ f.pc = "done" /\ f.outcome = "failed" /\ f.asked = task[t].asked
      BY <1>1 DEF Frame, Points, Outcomes
    <3>2. task' = [task EXCEPT ![t] = f]
      BY <1>1, <2>1 DEF Arrive, Refuse, Frame
    <3> QED
      BY <2>1, <3>1, <3>2 DEF OnItsWay, Ended
  <2>2. CASE n # Refused /\ task[t].depth > MaxDepth
    <3> DEFINE f == [task[t] EXCEPT !.pc = "done", !.outcome = "depth", !.told = n]
    <3>1. f \in Frame /\ f.pc = "done" /\ f.outcome = "depth" /\ f.asked = task[t].asked
      BY <1>1, <1>2, <2>2 DEF Frame, Points, Outcomes
    <3>2. task' = [task EXCEPT ![t] = f]
      BY <1>1, <2>2 DEF Arrive, Refuse, Frame
    <3> QED
      BY <3>1, <3>2 DEF OnItsWay, Ended
  <2>3. CASE n # Refused /\ ~(task[t].depth > MaxDepth)
    <3> DEFINE f == [task[t] EXCEPT !.name = n,
                                    !.pc = IF n \in KernelOps THEN "kernel" ELSE "resolve"]
    <3>1. /\ f \in Frame /\ f.name = n /\ f.asked = task[t].asked
          /\ f.pc = IF n \in KernelOps THEN "kernel" ELSE "resolve"
      BY <1>1, <1>2, <2>3, ZenonT(60) DEF Frame, Points
    <3>2. task' = [task EXCEPT ![t] = f]
      BY <1>1, <2>3 DEF Arrive, Frame
    <3> HIDE DEF f
    <3>3. OnItsWay(f)
      BY <2>3, <3>1 DEF OnItsWay
    <3> QED
      BY <3>1, <3>2, <3>3
  <2> QED
    BY <2>1, <2>2, <2>3
<1> QED
  BY <1>1, <1>3, OneOnItsWay

LEMMA KernelOpOnItsWay == ASSUME IssueInv, Ways, NEW t \in Tasks, AnswerKernelOp(t) PROVE Ways'
<1>1. Busy(t) /\ task[t].pc = "kernel" /\ task[t] \in Frame /\ Typed /\ OnItsWay(task[t])
  BY OfFrame DEF AnswerKernelOp, At, IssueInv, Ways
<1>2. Table[task[t].asked] \in KernelOps /\ task[t].name = Table[task[t].asked]
  BY <1>1 DEF OnItsWay
<1>3. ASSUME NEW point \in {"store", "done"}, NEW outcome \in {"ok", "failed"},
             NEW seen, NEW threads, point = "store" => outcome = "ok",
             task' = [task EXCEPT ![t] = [@ EXCEPT !.pc = point, !.outcome = outcome,
                                                   !.seen = seen, !.threads = threads]]
      PROVE  Ways'
  <2> DEFINE f == [task[t] EXCEPT !.pc = point, !.outcome = outcome,
                                  !.seen = seen, !.threads = threads]
  <2>1. /\ task' = [task EXCEPT ![t] = f] /\ f.asked = task[t].asked /\ f.name = task[t].name
        /\ f.pc = point /\ f.outcome = outcome
    BY <1>1, <1>3 DEF Frame
  <2> HIDE DEF f
  <2>2. OnItsWay(f)
    BY <1>2, <1>3, <2>1 DEF OnItsWay, Ended
  <2> QED
    BY <1>1, <2>1, <2>2, OneOnItsWay
<1>4. CASE task[t].verb = "sink"
  <2>1. task' = [task EXCEPT ![t] = [@ EXCEPT !.pc = "done", !.outcome = "failed",
                                              !.seen = task[t].seen, !.threads = task[t].threads]]
    BY <1>1, <1>4 DEF AnswerKernelOp, Frame
  <2> QED
    BY <1>3, <2>1
<1>5. CASE task[t].verb # "sink" /\ KeyAt(t) \in DOMAIN entry
  <2>1. task' = [task EXCEPT ![t] = [@ EXCEPT !.pc = "done", !.outcome = "ok",
                                              !.seen = entry[KeyAt(t)].seen,
                                              !.threads = entry[KeyAt(t)].threads]]
    BY <1>5 DEF AnswerKernelOp
  <2> QED
    BY <1>3, <2>1
<1>6. CASE task[t].verb # "sink" /\ KeyAt(t) \notin DOMAIN entry
  <2>1. task' = [task EXCEPT ![t] = [@ EXCEPT !.pc = "store", !.outcome = "ok",
                                              !.seen = SawBindings, !.threads = {Bindings}]]
    BY <1>6 DEF AnswerKernelOp
  <2> QED
    BY <1>3, <2>1
<1> QED
  BY <1>4, <1>5, <1>6

\* Everything that refuses before dispatch, and the admission.
LEMMA ResolveOnItsWay == ASSUME IssueInv, Ways, NEW t \in Tasks, Resolve(t) PROVE Ways'
<1> DEFINE n == task[t].name
           verb == task[t].verb
           cap == task[t].cap
<1>1. Busy(t) /\ task[t].pc = "resolve" /\ task[t] \in Frame /\ Typed /\ OnItsWay(task[t])
  BY OfFrame DEF Resolve, At, IssueInv, Ways
<1>2. n = Table[task[t].asked] /\ n \in Names \ KernelOps
  BY <1>1, IssueAssumption DEF OnItsWay, Frame
<1>3. Door(n) \in Doors \cup {Miss, Breach} /\ Miss # Breach
  BY <1>2, IssueAssumption DEF Miss, Breach
<1>4. ASSUME NEW outcome, NEW told, Refuse(t, outcome, told),
             \/ outcome = "failed" /\ (Door(n) = Breach \/ MovedIntoKernel(n))
             \/ outcome = "unresolved" /\ told = n /\ Door(n) = Miss
             \/ outcome = "limited" /\ Door(n) \in Doors /\ ~MovedIntoKernel(n)
                /\ Contract[Door(n)].limiter
             \/ outcome = "unresolved" /\ told = n /\ Dispatches(n) /\ Conceals(Door(n), verb, cap)
             \/ outcome = "denied" /\ Dispatches(n) /\ ~Passes(Door(n), verb, cap)
      PROVE  Ways'
  <2> DEFINE f == [task[t] EXCEPT !.pc = "done", !.outcome = outcome, !.told = told]
  <2>1. /\ task' = [task EXCEPT ![t] = f] /\ f.pc = "done" /\ f.outcome = outcome /\ f.told = told
        /\ f.asked = task[t].asked /\ f.verb = verb /\ f.cap = cap
    BY <1>1, <1>4 DEF Refuse, Frame
  <2> HIDE DEF f
  <2>2. Ended(f)
    BY <1>2, <1>4, <2>1 DEF Ended
  <2>3. OnItsWay(f)
    BY <2>1, <2>2 DEF OnItsWay
  <2> QED
    BY <1>1, <2>1, <2>3, OneOnItsWay
<1>5. CASE Door(n) = Breach
  BY <1>4, <1>5 DEF Resolve
<1>6. CASE Door(n) = Miss
  BY <1>3, <1>4, <1>6 DEF Resolve, Told
<1>7. CASE Door(n) \in Doors
  <2>1. Door(n) # Miss /\ Door(n) # Breach
    BY <1>7, IssueAssumption
  <2>2. CASE MovedIntoKernel(n)
    <3>1. Refuse(t, "failed", None)
      BY <2>1, <2>2 DEF Resolve, MovedIntoKernel, Adopted
    <3> QED
      BY <1>4, <2>2, <3>1
  <2>3. CASE ~MovedIntoKernel(n) /\ Contract[Door(n)].limiter
    <3>1. Refuse(t, "limited", Reported(n))
      BY <1>7, <2>1, <2>3 DEF Resolve, MovedIntoKernel, Adopted
    <3> QED
      BY <1>4, <1>7, <2>3, <3>1
  <2>4. CASE ~MovedIntoKernel(n) /\ ~Contract[Door(n)].limiter
    <3>1. Admit(t, Reported(n)) /\ Dispatches(n)
      BY <1>7, <2>1, <2>4 DEF Resolve, MovedIntoKernel, Adopted, Dispatches
    <3>2. CASE Conceals(Door(n), verb, cap)
      BY <1>4, <3>1, <3>2 DEF Admit, Told
    <3>3. CASE ~Conceals(Door(n), verb, cap) /\ ~Passes(Door(n), verb, cap)
      BY <1>4, <3>1, <3>3 DEF Admit
    <3>4. CASE ~Conceals(Door(n), verb, cap) /\ Passes(Door(n), verb, cap)
      <4> DEFINE f == [task[t] EXCEPT !.name = Reported(n),
                                      !.pc = IF verb = "sink" THEN "running" ELSE "lookup"]
      <4>1. task' = [task EXCEPT ![t] = f]
        BY <1>1, <3>1, <3>4 DEF Admit, Frame
      <4>2. /\ f.name = Reported(n) /\ f.pc \in {"running", "lookup"} /\ f.asked = task[t].asked
            /\ f.verb = verb /\ f.cap = cap
        BY <1>1 DEF Frame
      <4> HIDE DEF f
      <4>3. Asked(f)
        BY <1>2, <3>1, <3>4, <4>2 DEF Asked, Admitted
      <4>4. OnItsWay(f)
        BY <4>2, <4>3 DEF OnItsWay
      <4> QED
        BY <1>1, <4>1, <4>4, OneOnItsWay
    <3> QED
      BY <3>2, <3>3, <3>4
  <2> QED
    BY <2>2, <2>3, <2>4
<1> QED
  BY <1>3, <1>5, <1>6, <1>7

\* An endpoint's answer, or the cached one, ends a request that was admitted.
LEMMA AnsweredOnItsWay ==
    ASSUME Typed, Ways, NEW t \in Tasks, Busy(t), task[t].pc \in {"lookup", "describe", "running"},
           NEW f, task' = [task EXCEPT ![t] = f], f.pc \in {"store", "cut", "done"},
           f.outcome \in {"ok", "notfound", "failed"}, f.pc = "store" => f.outcome = "ok",
           f.asked = task[t].asked, f.name = task[t].name, f.verb = task[t].verb,
           f.cap = task[t].cap
    PROVE  Ways'
<1>1. Asked(task[t])
  BY DEF Ways, OnItsWay
<1>2. Asked(f)
  BY <1>1 DEF Asked
<1>3. OnItsWay(f)
  <2>1. Admitted(Table[f.asked], f.verb, f.cap) /\ Table[f.asked] \in Names \ KernelOps
    BY <1>2 DEF Asked, Admitted
  <2>2. Ended(f)
    BY <2>1 DEF Ended
  <2>3. CASE f.pc = "store"
    BY <1>2, <2>3 DEF OnItsWay
  <2>4. CASE f.pc = "cut"
    BY <1>2, <2>4 DEF OnItsWay
  <2>5. CASE f.pc = "done"
    BY <2>2, <2>5 DEF OnItsWay
  <2> QED
    BY <2>3, <2>4, <2>5
<1> QED
  BY <1>3, OneOnItsWay

\* The rest of a frame may change on the way.
LEMMA GoesOnItsWay ==
    ASSUME Typed, Ways, NEW t \in Tasks, Busy(t), NEW f, task' = [task EXCEPT ![t] = f],
           f.asked = task[t].asked, f.name = task[t].name, f.verb = task[t].verb,
           f.cap = task[t].cap, f.outcome = task[t].outcome, f.told = task[t].told,
           \/ f.pc = task[t].pc
           \/ task[t].pc = "lookup" /\ f.pc \in {"describe", "running"}
           \/ task[t].pc \in {"store", "cut"} /\ f.pc = "done"
    PROVE  Ways'
<1>1. OnItsWay(task[t])
  BY DEF Ways
<1>2. OnItsWay(f)
  BY <1>1, SameWay
<1> QED
  BY <1>2, OneOnItsWay

LEMMA LookupOnItsWay == ASSUME IssueInv, Ways, NEW t \in Tasks, Lookup(t) PROVE Ways'
<1>1. Busy(t) /\ task[t].pc = "lookup" /\ task[t] \in Frame /\ Typed
  BY OfFrame DEF Lookup, At, IssueInv
<1>2. CASE KeyAt(t) \in DOMAIN entry
  <2> DEFINE f == [task[t] EXCEPT !.pc = "done", !.outcome = "ok",
                                  !.seen = entry[KeyAt(t)].seen,
                                  !.threads = entry[KeyAt(t)].threads]
  <2>1. task' = [task EXCEPT ![t] = f]
    BY <1>2 DEF Lookup
  <2>2. /\ f.pc = "done" /\ f.outcome = "ok" /\ f.asked = task[t].asked /\ f.name = task[t].name
        /\ f.verb = task[t].verb /\ f.cap = task[t].cap
    BY <1>1 DEF Frame
  <2> HIDE DEF f
  <2> QED
    BY <1>1, <2>1, <2>2, AnsweredOnItsWay
<1>3. CASE KeyAt(t) \notin DOMAIN entry
  <2> DEFINE f == [task[t] EXCEPT !.pc = IF task[t].verb = "meta" THEN "describe" ELSE "running"]
  <2>1. task' = [task EXCEPT ![t] = f]
    BY <1>3 DEF Lookup
  <2>2. /\ f.pc \in {"describe", "running"} /\ f.asked = task[t].asked /\ f.name = task[t].name
        /\ f.verb = task[t].verb /\ f.cap = task[t].cap
        /\ f.outcome = task[t].outcome /\ f.told = task[t].told
    BY <1>1 DEF Frame
  <2> HIDE DEF f
  <2> QED
    BY <1>1, <2>1, <2>2, GoesOnItsWay
<1> QED
  BY <1>2, <1>3

LEMMA EndpointOnItsWay ==
    ASSUME IssueInv, Ways, NEW t \in Tasks,
           Describe(t) \/ Succeed(t) \/ Fail(t, "notfound") \/ Fail(t, "failed")
    PROVE  Ways'
<1>1. /\ Busy(t) /\ task[t].pc \in {"describe", "running"} /\ task[t] \in Frame /\ Typed
  BY OfFrame DEF Describe, Succeed, Fail, At, IssueInv
<1>2. ASSUME NEW point \in {"store", "cut", "done"}, NEW outcome \in {"ok", "notfound", "failed"},
             NEW told, NEW seen, NEW threads, NEW volatile, point = "store" => outcome = "ok",
             task' = [task EXCEPT ![t] = [@ EXCEPT !.pc = point, !.outcome = outcome,
                                                   !.told = told, !.seen = seen,
                                                   !.threads = threads, !.volatile = volatile]]
      PROVE  Ways'
  <2> DEFINE f == [task[t] EXCEPT !.pc = point, !.outcome = outcome, !.told = told,
                                  !.seen = seen, !.threads = threads, !.volatile = volatile]
  <2>1. task' = [task EXCEPT ![t] = f]
    BY <1>2
  <2>2. /\ f.pc = point /\ f.outcome = outcome /\ f.asked = task[t].asked /\ f.name = task[t].name
        /\ f.verb = task[t].verb /\ f.cap = task[t].cap
    BY <1>1 DEF Frame
  <2> HIDE DEF f
  <2> QED
    BY <1>1, <1>2, <2>1, <2>2, AnsweredOnItsWay
<1>3. CASE Describe(t)
  <2>1. task' = [task EXCEPT ![t] = [@ EXCEPT !.pc = "store", !.outcome = "ok",
                                              !.told = task[t].told, !.seen = SawBindings,
                                              !.threads = {Bindings},
                                              !.volatile = task[t].volatile]]
    BY <1>1, <1>3, ZenonT(60) DEF Describe, Frame
  <2> QED
    BY <1>2, <2>1
<1>4. CASE Succeed(t)
  <2>1. PICK volatile, threads :
          task' = [task EXCEPT ![t].pc = AfterRunning(t), ![t].outcome = "ok",
                               ![t].volatile = volatile, ![t].threads = threads]
    BY <1>4 DEF Succeed
  <2>2. task' = [task EXCEPT ![t] = [@ EXCEPT !.pc = AfterRunning(t), !.outcome = "ok",
                                              !.told = task[t].told, !.seen = task[t].seen,
                                              !.threads = threads, !.volatile = volatile]]
    BY <1>1, <2>1, ZenonT(60) DEF Frame
  <2>3. AfterRunning(t) \in {"store", "cut"}
    BY DEF AfterRunning
  <2> QED
    BY <1>2, <2>2, <2>3
<1>5. ASSUME NEW kind \in {"notfound", "failed"}, Fail(t, kind) PROVE Ways'
  <2> DEFINE point == IF task[t].verb = "sink" THEN "cut" ELSE "done"
  <2>1. PICK threads :
          task' = [task EXCEPT ![t].pc = point, ![t].outcome = kind,
                               ![t].told = task[t].name, ![t].threads = threads]
    BY <1>5 DEF Fail, AfterFailing
  <2>2. point \in {"cut", "done"}
    OBVIOUS
  <2> HIDE DEF point
  <2>3. task' = [task EXCEPT ![t] = [@ EXCEPT !.pc = point, !.outcome = kind,
                                              !.told = task[t].name, !.seen = task[t].seen,
                                              !.threads = threads,
                                              !.volatile = task[t].volatile]]
    BY <1>1, <2>1, ZenonT(60) DEF Frame
  <2> QED
    BY <1>2, <1>5, <2>2, <2>3
<1> QED
  BY <1>3, <1>4, <1>5

LEMMA TouchStoreCutOnTheirWay ==
    ASSUME IssueInv, Ways, NEW t \in Tasks, Touch(t) \/ Store(t) \/ CutTarget(t) PROVE Ways'
<1>1. Busy(t) /\ task[t].pc \in {"running", "store", "cut"} /\ task[t] \in Frame /\ Typed
  BY OfFrame DEF Touch, Store, CutTarget, At, IssueInv
<1>2. PICK point, seen, wrote :
         /\ \/ point = task[t].pc
            \/ task[t].pc \in {"store", "cut"} /\ point = "done"
         /\ task' = [task EXCEPT ![t] = [@ EXCEPT !.pc = point, !.seen = seen, !.wrote = wrote]]
  <2>1. CASE Touch(t) /\ task[t].verb = "sink"
    <3>1. task' = [task EXCEPT ![t] = [@ EXCEPT !.pc = task[t].pc, !.seen = task[t].seen,
                                                !.wrote = TRUE]]
      BY <1>1, <2>1 DEF Touch, Frame
    <3> QED
      BY <3>1
  <2>2. CASE Touch(t) /\ task[t].verb # "sink"
    <3>1. PICK seen : task' = [task EXCEPT ![t].seen = seen]
      BY <2>2 DEF Touch
    <3>2. task' = [task EXCEPT ![t] = [@ EXCEPT !.pc = task[t].pc, !.seen = seen,
                                                !.wrote = task[t].wrote]]
      BY <1>1, <3>1 DEF Frame
    <3> QED
      BY <3>2
  <2>3. CASE Store(t) \/ CutTarget(t)
    <3>1. task' = [task EXCEPT ![t] = [@ EXCEPT !.pc = "done", !.seen = task[t].seen,
                                                !.wrote = task[t].wrote]]
      BY <1>1, <2>3 DEF Store, CutTarget, Frame
    <3>2. task[t].pc \in {"store", "cut"}
      BY <2>3 DEF Store, CutTarget, At
    <3> QED
      BY <3>1, <3>2
  <2> QED
    BY <2>1, <2>2, <2>3
<1> DEFINE f == [task[t] EXCEPT !.pc = point, !.seen = seen, !.wrote = wrote]
<1>3. task' = [task EXCEPT ![t] = f]
  BY <1>2
<1>4. /\ f.pc = point /\ f.asked = task[t].asked /\ f.name = task[t].name
      /\ f.verb = task[t].verb /\ f.cap = task[t].cap
      /\ f.outcome = task[t].outcome /\ f.told = task[t].told
  BY <1>1 DEF Frame
<1> HIDE DEF f
<1> QED
  BY <1>1, <1>2, <1>3, <1>4, GoesOnItsWay

\* A request that is issued is at the beginning of its way, whoever issues it; one
\* that is taken or dropped is on none.
LEMMA ComingAndGoing ==
    ASSUME Typed, Ways, task' \in [Tasks -> Frame \cup {Idle}],
           \A u \in Tasks : Busy(u)' =>
              \/ task'[u].pc = "arrive"
              \/ /\ Busy(u) /\ task'[u].asked = task[u].asked /\ task'[u].name = task[u].name
                 /\ task'[u].verb = task[u].verb /\ task'[u].cap = task[u].cap
                 /\ task'[u].outcome = task[u].outcome /\ task'[u].told = task[u].told
                 /\ \/ task'[u].pc = task[u].pc
                    \/ task[u].pc \in {"running", "waiting"} /\ task'[u].pc \in {"running", "waiting"}
    PROVE  Ways'
<1> SUFFICES ASSUME NEW u \in Tasks, Busy(u)' PROVE OnItsWay(task'[u])
  BY DEF Ways, OnItsWay, Ended, Asked, Admitted, MovedIntoKernel
<1>1. CASE task'[u].pc = "arrive"
  BY <1>1 DEF OnItsWay
<1>2. CASE task'[u].pc # "arrive"
  BY <1>2, SameWay DEF Ways
<1> QED
  BY <1>1, <1>2

LEMMA IssueCallOnTheirWay ==
    ASSUME IssueInv, Ways, IssueInv', NEW t \in Tasks,
           \/ \E ask \in Asks : Issue(t, ask)
           \/ \E u \in Tasks : Call(t, u)
    PROVE  Ways'
<1>1. Typed /\ task' \in [Tasks -> Frame \cup {Idle}]
  BY DEF IssueInv, Typed
<1>2. CASE \E ask \in Asks : Issue(t, ask)
  <2>1. PICK ask : task' = [task EXCEPT ![t] = Fresh(ask, 0, None, t)]
    BY <1>2 DEF Issue
  <2>2. Fresh(ask, 0, None, t).pc = "arrive"
    BY DEF Fresh
  <2>3. task'[t].pc = "arrive" /\ \A u \in Tasks \ {t} : task'[u] = task[u]
    BY <1>1, <2>1, <2>2 DEF Typed
  <2>4. \A u \in Tasks \ {t} : Busy(u)' => Busy(u) /\ task'[u] = task[u]
    BY <2>3 DEF Busy
  <2> QED
    BY <1>1, <2>3, <2>4, ComingAndGoing
<1>3. CASE \E u \in Tasks : Call(t, u)
  <2>1. PICK u \in Tasks : Call(t, u)
    BY <1>3
  <2>2. Busy(t) /\ task[t].pc = "running" /\ ~Busy(u) /\ u # t /\ task[t] \in Frame
    BY <2>1, OfFrame DEF Call, At
  <2>3. PICK ask, depth, root :
          task' = [task EXCEPT ![t].pc = "waiting", ![t].called = TRUE,
                               ![u] = Fresh(ask, depth, t, root)]
    BY <2>1 DEF Call
  <2>4. Fresh(ask, depth, t, root).pc = "arrive"
    BY DEF Fresh
  <2>5. /\ task'[u].pc = "arrive" /\ task'[t] = [task[t] EXCEPT !.pc = "waiting", !.called = TRUE]
        /\ \A v \in Tasks \ {t, u} : task'[v] = task[v]
    BY <1>1, <2>2, <2>3, <2>4 DEF Typed, Frame
  <2>6. /\ task'[t].pc = "waiting" /\ task'[t].asked = task[t].asked
        /\ task'[t].name = task[t].name /\ task'[t].verb = task[t].verb
        /\ task'[t].cap = task[t].cap /\ task'[t].outcome = task[t].outcome
        /\ task'[t].told = task[t].told
    BY <2>2, <2>5 DEF Frame
  <2>7. \A v \in Tasks \ {t, u} : Busy(v)' => Busy(v) /\ task'[v] = task[v]
    BY <2>5 DEF Busy
  <2> QED
    BY <1>1, <2>2, <2>5, <2>6, <2>7, ComingAndGoing
<1> QED
  BY <1>2, <1>3

LEMMA GoneFromTheirWay ==
    ASSUME IssueInv, Ways, IssueInv', NEW t \in Tasks, Return(t) \/ Reap(t) \/ Drop(t)
    PROVE  Ways'
<1>1. Typed /\ task' \in [Tasks -> Frame \cup {Idle}]
  BY DEF IssueInv, Typed
<1>2. CASE Return(t)
  <2> DEFINE p == task[t].parent
             f == Fold(task[p], task[t])
  <2>1. /\ Busy(t) /\ task[t].pc = "done" /\ p # None /\ task[t] \in Frame /\ Nested(t)
        /\ task' = [task EXCEPT ![p] = f, ![t] = Idle]
    BY <1>2, OfFrame DEF Return, At
  <2>2. p \in Tasks /\ p # t /\ Busy(p) /\ task[p].pc = "waiting" /\ task[p] \in Frame
    BY <1>1, <2>1, OfFrame DEF Nested, At, Frame
  <2>3. /\ f.pc = "running" /\ f.asked = task[p].asked /\ f.name = task[p].name
        /\ f.verb = task[p].verb /\ f.cap = task[p].cap
        /\ f.outcome = task[p].outcome /\ f.told = task[p].told
    BY <2>2 DEF Fold, Frame
  <2> HIDE DEF f, p
  <2>4. task'[p] = f /\ ~Busy(t)' /\ \A v \in Tasks \ {p, t} : task'[v] = task[v]
    BY <1>1, <2>1, <2>2 DEF Typed, Busy, Idle
  <2>5. \A v \in Tasks \ {p, t} : Busy(v)' => Busy(v) /\ task'[v] = task[v]
    BY <2>4 DEF Busy
  <2> QED
    BY <1>1, <2>2, <2>3, <2>4, <2>5, ComingAndGoing
<1>3. CASE Reap(t) \/ Drop(t)
  <2>1. \A v \in Tasks : Busy(v)' => Busy(v) /\ task'[v] = task[v]
    BY <1>1, <1>3 DEF Reap, Drop, Busy, Idle, Typed
  <2> QED
    BY <1>1, <2>1, ComingAndGoing
<1> QED
  BY <1>2, <1>3

LEMMA WaysStep == IssueInv /\ Ways /\ [Next]_vars => Ways'
<1> SUFFICES ASSUME IssueInv, Ways, [Next]_vars PROVE Ways'
  OBVIOUS
<1>1. IssueInv'
  BY IssueStep
<1>2. CASE UNCHANGED task
  BY <1>2 DEF Ways, Busy, OnItsWay, Ended, Asked, Admitted, MovedIntoKernel
<1>3. CASE \E t \in Tasks, ask \in Asks : Issue(t, ask)
  BY <1>1, <1>3, IssueCallOnTheirWay
<1>4. CASE \E t, u \in Tasks : Call(t, u)
  BY <1>1, <1>4, IssueCallOnTheirWay
<1>5. ASSUME NEW t \in Tasks, Arrive(t) \/ AnswerKernelOp(t) \/ Resolve(t) \/ Lookup(t)
      PROVE  Ways'
  BY <1>5, ArriveOnItsWay, KernelOpOnItsWay, ResolveOnItsWay, LookupOnItsWay
<1>6. ASSUME NEW t \in Tasks,
             Describe(t) \/ Succeed(t) \/ Fail(t, "notfound") \/ Fail(t, "failed")
      PROVE  Ways'
  BY <1>6, EndpointOnItsWay
<1>7. ASSUME NEW t \in Tasks, Touch(t) \/ Store(t) \/ CutTarget(t) PROVE Ways'
  BY <1>7, TouchStoreCutOnTheirWay
<1>8. ASSUME NEW t \in Tasks, Return(t) \/ Reap(t) \/ Drop(t) PROVE Ways'
  BY <1>1, <1>8, GoneFromTheirWay
<1>9. UNCHANGED vars \/ Rebind \/ BindingsChanged => UNCHANGED task
  BY DEF vars, Rebind, BindingsChanged
<1> QED
  BY <1>2, <1>3, <1>4, <1>5, <1>6, <1>7, <1>8, <1>9 DEF Next

\* What the cache holds is kept under the keys of requests that were admitted.
LEMMA KeysStep == IssueInv /\ Ways /\ Keys /\ [Next]_vars => Keys'
<1> SUFFICES ASSUME IssueInv, Ways, Keys, [Next]_vars PROVE Keys'
  OBVIOUS
<1>1. CASE DOMAIN entry' \subseteq DOMAIN entry
  BY <1>1 DEF Keys, KeyServed, Admitted
<1>2. ASSUME NEW t \in Tasks, Store(t) PROVE Keys'
  <2>1. Busy(t) /\ task[t].pc = "store" /\ Sound(task[t]) /\ OnItsWay(task[t])
    BY <1>2, OfFrame DEF Store, At, Ways
  <2>2. task[t].verb # "sink"
    BY <2>1 DEF Sound
  <2>3. Asked(task[t]) \/ task[t].name \in KernelOps
    BY <2>1 DEF OnItsWay
  <2>4. KeyServed(KeyAt(t))
    <3>1. KeyAt(t).name = task[t].name /\ KeyAt(t).verb = task[t].verb /\ KeyAt(t).cap = task[t].cap
      BY DEF KeyAt, KeyOf
    <3> HIDE DEF KeyAt
    <3>2. CASE Asked(task[t])
      BY <2>2, <3>1, <3>2 DEF KeyServed, Asked, Admitted
    <3> QED
      BY <2>2, <2>3, <3>1, <3>2 DEF KeyServed
  <2>5. DOMAIN entry' \subseteq DOMAIN entry \cup {KeyAt(t)}
    BY <1>2 DEF Store, With
  <2> QED
    BY <2>4, <2>5 DEF Keys, KeyServed, Admitted
<1>3. ASSUME NEW n, Cut(n) PROVE DOMAIN entry' \subseteq DOMAIN entry
  BY <1>3 DEF Cut
<1>4. CASE UNCHANGED entry
  BY <1>1, <1>4
<1>5. ASSUME NEW t \in Tasks, CutTarget(t) PROVE Keys'
  BY <1>1, <1>3, <1>5 DEF CutTarget
<1>6. CASE BindingsChanged
  BY <1>1, <1>3, <1>6 DEF BindingsChanged
<1>7. ASSUME NEW t \in Tasks,
             \/ \E ask \in Asks : Issue(t, ask)
             \/ \E u \in Tasks : Call(t, u)
             \/ Arrive(t) \/ AnswerKernelOp(t) \/ Resolve(t) \/ Lookup(t) \/ Describe(t)
             \/ Touch(t) \/ Succeed(t) \/ Fail(t, "notfound") \/ Fail(t, "failed")
             \/ Return(t) \/ Reap(t) \/ Drop(t)
      PROVE  UNCHANGED entry
  BY <1>7 DEF Issue, Call, Arrive, AnswerKernelOp, Resolve, Lookup, Describe, Touch, Succeed,
              Fail, Return, Reap, Drop, Elsewhere
<1>8. CASE Rebind \/ UNCHANGED vars
  BY <1>4, <1>8 DEF Rebind, vars
<1> QED
  BY <1>2, <1>4, <1>5, <1>6, <1>7, <1>8 DEF Next

LEMMA OnTheirWay == Spec => [](Ways /\ Keys)
<1>1. Init => Ways /\ Keys
  BY DEF Init, Ways, Keys, Busy, Idle
<1>2. IssueInv /\ (Ways /\ Keys) /\ [Next]_vars => (Ways /\ Keys)'
  BY WaysStep, KeysStep
<1> QED
  BY <1>1, <1>2, IssueInvariant, PTL DEF Spec

\* A refusal that must not say the name is bound is told as a miss is: under the
\* name as the kernel's own table left it, not under the one a space reports
\* (kernel.rs issue_answer: Unresolved carries the target, put back as it was).
THEOREM ConcealedTellsNothing == Spec => []ConcealedIsMissing
<1>1. Ways => ConcealedIsMissing
  BY DEF Ways, OnItsWay, Ended, ConcealedIsMissing, ToldAsMissing, At
<1> QED
  BY <1>1, OnTheirWay, PTL

\* What the dry run explains of a request is what issuing it comes to, whatever
\* the table, the chain, the contracts and the capabilities, where the names
\* keep apart as above (explain.rs walk against kernel.rs issue_answer).
THEOREM DryRunIsTheRequest ==
    ASSUME DryRunAssumption
    PROVE  Spec => []ExplainedAsAnswered
<1>1. ASSUME IssueInv, Ways PROVE ExplainedAsAnswered
  <2> SUFFICES ASSUME NEW t \in Tasks, At(t, "done"), task[t].outcome # "depth",
                      ~Concealed(AskOf(t))
               PROVE  task[t].outcome \in OutcomesOf(Explained(AskOf(t)))
    BY DEF ExplainedAsAnswered
  <2> DEFINE n == Table[task[t].asked]
             ask == AskOf(t)
             door == IF n \in Streams THEN Miss ELSE Door(n)
  <2>1. Ended(task[t]) /\ task[t].outcome # "depth" /\ task[t] \in Frame
    BY <1>1, OfFrame DEF Ways, OnItsWay, At
  <2>2. ask.name = task[t].asked /\ ask.verb = task[t].verb /\ ask.cap = task[t].cap
    BY DEF AskOf
  <2>3. n \in Names => door = Door(n) /\ Door(n) \in Doors \cup {Miss, Breach}
    BY IssueAssumption DEF DryRunAssumption
  <2> HIDE DEF ask
  <2>4. CASE n = Refused
    <3>1. Refused \notin Names /\ Refused \notin KernelOps
      BY IssueAssumption
    <3>2. task[t].outcome = "failed"
      BY <2>1, <2>4, <3>1 DEF Ended
    <3>3. Explained(ask) = "refused"
      BY <2>2, <2>4 DEF Explained
    <3> QED
      BY <3>2, <3>3 DEF OutcomesOf, ask
  <2>5. CASE n # Refused /\ n \in KernelOps
    <3>1. Explained(ask) = "kernel"
      BY <2>2, <2>5 DEF Explained, ExplainedFrom
    <3>2. task[t].outcome \in {"ok", "failed"}
      BY <2>1, <2>5 DEF Ended
    <3> QED
      BY <3>1, <3>2 DEF OutcomesOf, ask
  <2>6. CASE n # Refused /\ n \notin KernelOps
    <3>1. n \in Names \ KernelOps
      BY <2>1, <2>6 DEF Ended
    <3>2. Explained(ask) = ExplainedFrom(n, ask) /\ door = Door(n)
      BY <2>2, <2>3, <2>6, <3>1 DEF Explained
    <3>3. CASE Door(n) \notin Doors
      <4>1. Door(n) = Miss \/ Door(n) = Breach
        BY <2>3, <3>1, <3>3
      <4>2. CASE Door(n) = Miss
        <5>1. task[t].outcome = "unresolved"
          BY <2>1, <2>6, <3>3, <4>2 DEF Ended, MovedIntoKernel, Dispatches, Admitted, Miss, Breach
        <5>2. ExplainedFrom(n, ask) = "unresolved"
          BY <2>6, <3>2, <4>2 DEF ExplainedFrom, Miss, Breach
        <5> QED
          BY <3>2, <5>1, <5>2 DEF OutcomesOf, ask
      <4>3. CASE Door(n) = Breach
        <5>1. task[t].outcome = "failed"
          BY <2>1, <2>6, <3>3, <4>3 DEF Ended, MovedIntoKernel, Dispatches, Admitted, Miss, Breach
        <5>2. ExplainedFrom(n, ask) = "refused"
          BY <2>6, <3>2, <4>3 DEF ExplainedFrom
        <5> QED
          BY <3>2, <5>1, <5>2 DEF OutcomesOf, ask
      <4> QED
        BY <4>1, <4>2, <4>3
    <3>4. CASE Door(n) \in Doors
      <4>1. Door(n) # Miss /\ Door(n) # Breach
        BY <3>4, IssueAssumption
      <4>2. ~Conceals(Door(n), ask.verb, ask.cap)
        BY <2>2, <2>6, <3>4 DEF Concealed, Doors, ask
      <4>3. CASE MovedIntoKernel(n)
        <5>1. ~Contract[Door(n)].limiter /\ ~Dispatches(n)
          BY <3>1, <4>3 DEF DryRunAssumption, MovedIntoKernel, Dispatches
        <5>2. task[t].outcome = "failed"
          BY <2>1, <2>6, <4>1, <4>3, <5>1 DEF Ended, Admitted
        <5>3. Reported(n) \in KernelOps /\ Reported(n) # n
          BY <3>1, <4>3 DEF DryRunAssumption, MovedIntoKernel
        <5>4. ExplainedFrom(n, ask) = "refused"
          BY <2>6, <3>2, <4>1, <5>1, <5>3 DEF ExplainedFrom, Adopted
        <5> QED
          BY <3>2, <5>2, <5>4 DEF OutcomesOf, ask
      <4>4. CASE ~MovedIntoKernel(n) /\ Contract[Door(n)].limiter
        <5>1. task[t].outcome = "limited"
          BY <2>1, <2>6, <4>1, <4>4 DEF Ended, Admitted, Dispatches
        <5>2. ExplainedFrom(n, ask) = "limited"
          BY <2>6, <3>2, <4>1, <4>4 DEF ExplainedFrom
        <5> QED
          BY <3>2, <5>1, <5>2 DEF OutcomesOf, ask
      <4>5. CASE ~MovedIntoKernel(n) /\ ~Contract[Door(n)].limiter
        <5>1. ~(Adopted(n) # n /\ Adopted(n) \in KernelOps)
          BY <3>4, <4>5 DEF MovedIntoKernel, Adopted
        <5>2. CASE Passes(Door(n), ask.verb, ask.cap)
          <6>1. task[t].outcome \in {"ok", "notfound", "failed"}
            BY <2>1, <2>2, <2>6, <4>1, <4>2, <4>5, <5>2 DEF Ended
          <6>2. ExplainedFrom(n, ask) = "answered"
            BY <2>6, <3>2, <4>1, <4>5, <5>1, <5>2 DEF ExplainedFrom
          <6> QED
            BY <3>2, <6>1, <6>2 DEF OutcomesOf, ask
        <5>3. CASE ~Passes(Door(n), ask.verb, ask.cap)
          <6>1. task[t].outcome = "denied"
            BY <2>1, <2>2, <2>6, <4>1, <4>2, <4>5, <5>3 DEF Ended, Admitted
          <6>2. ExplainedFrom(n, ask) = "lacking"
            BY <2>6, <3>2, <4>1, <4>5, <5>1, <5>3 DEF ExplainedFrom
          <6> QED
            BY <3>2, <6>1, <6>2 DEF OutcomesOf, ask
        <5> QED
          BY <5>2, <5>3
      <4> QED
        BY <4>3, <4>4, <4>5
    <3> QED
      BY <3>3, <3>4
  <2> QED
    BY <2>4, <2>5, <2>6
<1> QED
  BY <1>1, IssueInvariant, OnTheirWay, PTL

\* The probe says a request would be served from the cache exactly if it would:
\* of names that lead to one answer it says the same, and what the floor, a
\* limiter or a seal would refuse it never calls cached; a description asked for
\* under a name that its space reports otherwise it never finds, for no answer is
\* kept under such a name (kernel.rs is_cached_in).
THEOREM ProbeIsTheRequest ==
    ASSUME LimitedApart
    PROVE  Spec => []ProbedAsServed
<1>1. ASSUME Keys PROVE ProbedAsServed
  <2> SUFFICES ASSUME NEW ask \in [name : Names, verb : Verbs \ {"sink"}, cap : Capabilities],
                      ~(Table[ask.name] \in Names \ KernelOps /\ MovedIntoKernel(Table[ask.name]))
               PROVE  IF Table[ask.name] # Refused /\ DescribedElsewhere(ask) THEN ~Probed(ask)
                      ELSE Probed(ask) <=> WouldBeServed(ask)
    BY DEF ProbedAsServed
  <2> DEFINE n == Table[ask.name]
  <2>1. n \in Names \cup {Refused} /\ ask.verb # "sink"
    BY IssueAssumption
  <2>2. CASE n = Refused \/ n \in KernelOps
    BY <2>2 DEF Probed, WouldBeServed, ProbedAs, DescribedElsewhere
  <2>3. CASE n # Refused /\ n \notin KernelOps
    <3> DEFINE k == KeyOf(Reported(n), ask.verb, ask.cap)
    <3>1. n \in Names /\ Reported(n) \in Names /\ Door(n) \in Doors \cup {Miss, Breach}
      BY <2>1, <2>3, IssueAssumption
    <3>2. Door(n) \in Doors /\ Reported(n) # n => Reported(n) \notin KernelOps \cup Streams
      BY <2>3, <3>1 DEF MovedIntoKernel
    <3>3. ASSUME NEW r \in Names \ KernelOps, KeyOf(r, ask.verb, ask.cap) \in DOMAIN entry
          PROVE  \E m \in Names : Admitted(m, ask.verb, ask.cap) /\ Reported(m) = r
      BY <1>1, <3>3 DEF Keys, KeyServed, KeyOf
    <3>4. CASE Door(n) \notin Doors
      <4>1. Door(n) \in {Miss, Breach} /\ ~Dispatches(n)
        BY <3>1, <3>4 DEF Dispatches
      <4>2. ~Probed(ask)
        <5>1. SUFFICES ASSUME KeyOf(n, ask.verb, ask.cap) \in DOMAIN entry PROVE FALSE
          BY <2>3, <4>1 DEF Probed, ProbedAs
        <5>2. PICK m \in Names : Dispatches(m) /\ Reported(m) = n
          BY <2>3, <3>1, <3>3, <5>1 DEF Admitted
        <5>3. Door(n) \in Doors
          BY <5>2, OneThread
        <5> QED
          BY <3>4, <5>3
      <4>3. ~WouldBeServed(ask)
        BY <2>3, <4>1 DEF WouldBeServed
      <4> QED
        BY <3>4, <4>2, <4>3 DEF DescribedElsewhere
    <3>5. CASE Door(n) \in Doors /\ ask.verb = "meta" /\ Reported(n) # n
      <4>1. DescribedElsewhere(ask)
        BY <2>3, <3>5 DEF DescribedElsewhere, Adopted
      <4>2. SUFFICES ASSUME KeyOf(n, ask.verb, ask.cap) \in DOMAIN entry PROVE FALSE
        BY <2>3, <3>5, <4>1 DEF Probed, ProbedAs
      <4>3. PICK m \in Names : Dispatches(m) /\ Reported(m) = n
        BY <2>3, <3>1, <3>3, <4>2 DEF Admitted
      <4>4. Door(m) = Door(n) /\ Dispatches(n)
        BY <3>1, <3>2, <3>5, <4>3, OneThread DEF Dispatches
      <4>5. Reported(m) = Reported(n)
        BY <3>1, <4>3, <4>4, OneThread
      <4> QED
        BY <3>5, <4>3, <4>5
    <3>6. CASE Door(n) \in Doors /\ (ask.verb = "meta" => Reported(n) = n)
      <4>1. Door(n) \notin {Miss, Breach} /\ ~DescribedElsewhere(ask)
        BY <3>6, IssueAssumption DEF DescribedElsewhere, Adopted
      <4>2. Probed(ask) <=> k \in DOMAIN entry
        BY <2>1, <2>3, <3>6, <4>1 DEF Probed, ProbedAs, Adopted
      <4>3. ASSUME k \in DOMAIN entry
            PROVE  Dispatches(n) /\ ~Concealed(ask) /\ Passes(Door(n), ask.verb, ask.cap)
        <5>1. Reported(n) \in Names \ KernelOps
          BY <2>3, <3>1, <3>2, <3>6
        <5>2. PICK m \in Names : Admitted(m, ask.verb, ask.cap) /\ Reported(m) = Reported(n)
          BY <3>3, <4>3, <5>1
        <5>3. Dispatches(m)
          BY <5>2 DEF Admitted
        <5>4. Dispatches(n)
          BY <3>1, <3>2, <3>6, <5>2, <5>3 DEF LimitedApart, Dispatches
        <5>5. Door(n) = Door(m)
          BY <3>1, <5>2, <5>3, <5>4, OneThread
        <5> QED
          BY <5>2, <5>4, <5>5 DEF Admitted, Concealed
      <4> QED
        BY <2>1, <2>3, <4>1, <4>2, <4>3 DEF WouldBeServed, Adopted
    <3> QED
      BY <3>4, <3>5, <3>6
  <2> QED
    BY <2>2, <2>3
<1> QED
  BY <1>1, OnTheirWay, PTL
===============================================================================
