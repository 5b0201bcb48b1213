----------------------------- MODULE CutListeners -----------------------------
(***************************************************************************)
(* Cut listeners (listen.rs) and the cut that feeds them (Kernel::cut,     *)
(* ReprCache::cut_with).                                                   *)
(*                                                                         *)
(* A cut asks the registry whether anybody listens before it takes the     *)
(* cache mutex.  If somebody does, the event is queued for every listener  *)
(* while the mutex is still held, so each listener hears concurrent cuts   *)
(* in sequence order; the wakers taken from the queues are woken after all *)
(* locks are released.  The host drains a queue or parks on it.            *)
(*                                                                         *)
(* The lists of names an event carries are sets here; NameTheFirst models  *)
(* how they are cut short.  "history", "before" and "known" and the field  *)
(* "live" of an event are history: no guard reads them.                    *)
(***************************************************************************)
EXTENDS Integers, Sequences, FiniteSets

CONSTANTS
  Threads,       \* golden threads
  Keys,          \* cache keys; the target an event names
  Partition,     \* Partition[k]: the capability an entry is computed under
  Listeners,     \* listeners the host may register
  Wants,         \* Wants[l]: the threads its ListenSpec matches
  Hearing,       \* Hearing[l]: a capability (OwnReads) or Everything
  Everything,
  Capacity,      \* Capacity[l]: ListenSpec::bound
  Cutters,       \* OS threads that cut
  Waiters,       \* tasks of the host that await a batch
  Nobody,
  MaxSeq         \* bound on the number of cuts

VARIABLES
  generations,   \* CacheState.generations
  seq,           \* CacheState.seq
  entries,       \* CacheState.entries: thread -> pinned generation, empty if none
  lock,          \* the cutter holding the cache mutex between two steps
  status,        \* has the host registered, and still holds, a listener
  list, count,   \* Listeners: the weak list with its dead entries, and count
  queue,         \* Shared.queue: events and dropped
  waker,         \* Queue.waker
  at, thread, number, wakers,   \* a cut: where it is, of what, its sequence
  waits, woken,  \* the listener a task awaits; the tasks due to be polled
  known, live,           \* history of a cut
  history, before  \* history of a listener

threadVars == <<generations, seq, entries, lock>>
listVars  == <<status, list, count>>
taskVars  == <<waits, woken>>
queueVars == <<queue, waker, history, before>>
cutVars   == <<at, thread, number, wakers, known, live>>
cutsVars == <<generations, seq, entries, lock, status, list, count, waits, woken,
          queue, waker, history, before, cutVars>>

ListenAssumption ==
  /\ Capacity \in [Listeners -> Nat \ {0}]
  /\ Wants \in [Listeners -> SUBSET Threads]
  /\ Nobody \notin Cutters \cup Waiters \cup Listeners
  /\ MaxSeq \in Nat

-----------------------------------------------------------------------------
(* The cache, as a cut sees it *)

NoEntry == [t \in {} |-> 0]

Edges(k) == DOMAIN entries[k]

EntryLive(k) == Edges(k) # {} /\ \A t \in Edges(k) : entries[k][t] = generations[t]

\* record_cut has bumped the generation by one already.
GenerationBefore(t) == generations[t] - 1

\* dependents_before: the entries with an edge on t, and those this cut made stale.
Dependents(t) == {k \in Keys : t \in Edges(k)}
Invalidated(t) == {k \in Dependents(t) : entries[k][t] = GenerationBefore(t)}

\* What of a set of entries a listener may know about.
Visible(l, ks) ==
  IF Hearing[l] = Everything THEN ks ELSE {k \in ks : Partition[k] = Hearing[l]}

MayHear(l, t) == Hearing[l] = Everything \/ Visible(l, Dependents(t)) # {}

-----------------------------------------------------------------------------
(* Queues *)

EmptyQueue == [events |-> <<>>, dropped |-> 0]

Pending(l) == queue[l] # EmptyQueue

Registered == {l \in Listeners : status[l] = "listening"}

\* Past its capacity a queue counts the cut and keeps what it has.
Pushed(l, event) ==
  IF Len(queue[l].events) >= Capacity[l]
  THEN [queue[l] EXCEPT !.dropped = @ + 1]
  ELSE [queue[l] EXCEPT !.events = Append(@, event)]

CutsInit ==
  /\ generations = [t \in Threads |-> 0]
  /\ seq = 0
  /\ entries = [k \in Keys |-> NoEntry]
  /\ lock = Nobody
  /\ status = [l \in Listeners |-> "new"]
  /\ list = {} /\ count = 0
  /\ queue = [l \in Listeners |-> EmptyQueue]
  /\ waker = [l \in Listeners |-> Nobody]
  /\ at = [c \in Cutters |-> "idle"]
  /\ thread = [c \in Cutters |-> Nobody]
  /\ number = [c \in Cutters |-> 0]
  /\ wakers = [c \in Cutters |-> {}]
  /\ waits = [w \in Waiters |-> Nobody]
  /\ woken = {}
  /\ known = [c \in Cutters |-> {}]
  /\ live = [c \in Cutters |-> {}]
  /\ history = [l \in Listeners |-> <<>>]
  /\ before = [l \in Listeners |-> 0]

-----------------------------------------------------------------------------
(* The rest of the cache: stores, with the sweep of generations, and evictions *)

Pinned(es) == UNION {DOMAIN es[k] : k \in Keys}

Store(k, T) ==
  /\ lock = Nobody
  /\ entries' = [entries EXCEPT ![k] = [t \in T |-> generations[t]]]
  /\ \/ UNCHANGED generations
     \/ generations' = [t \in Threads |->
                          IF t \in Pinned(entries') THEN generations[t] ELSE 0]
  /\ UNCHANGED <<seq, lock, listVars, taskVars, queueVars, cutVars>>

Evict(k) ==
  /\ lock = Nobody
  /\ Edges(k) # {}
  /\ entries' = [entries EXCEPT ![k] = NoEntry]
  /\ UNCHANGED <<generations, seq, lock, listVars, taskVars, queueVars, cutVars>>

-----------------------------------------------------------------------------
(* The registry *)

\* Mutation: registering sweeps dead entries but leaves the count as it was.
CountAfterStale(ls) == count

\* The count is the length of the list, stored before the write lock is released.
CountAfter(ls) == Cardinality(ls)

\* Kernel::listen, register.
Register(l) ==
  /\ status[l] = "new"
  /\ status' = [status EXCEPT ![l] = "listening"]
  /\ list' = (list \cap Registered) \cup {l}
  /\ count' = CountAfter(list')
  /\ UNCHANGED <<threadVars, taskVars, queueVars, cutVars>>

\* The host drops its end; a future that awaits a batch borrows it, so there is
\* none.  The registry's weak entry stays.
Unlisten(l) ==
  /\ status[l] = "listening"
  /\ \A w \in Waiters : waits[w] # l
  /\ status' = [status EXCEPT ![l] = "dropped"]
  /\ queue' = [queue EXCEPT ![l] = EmptyQueue]
  /\ waker' = [waker EXCEPT ![l] = Nobody]
  /\ history' = [history EXCEPT ![l] = <<>>]
  /\ UNCHANGED <<threadVars, list, count, taskVars, before, cutVars>>

-----------------------------------------------------------------------------
(* A cut: Kernel::cut *)

Undecided == {c \in Cutters : at[c] \in {"asking", "sweepThenObserve", "sweepThenCut", "cutting", "observing"}}

\* interested: without listeners, one atomic load decides.
Begin(c, t) ==
  /\ at[c] = "idle"
  /\ seq + Cardinality(Undecided) < MaxSeq
  /\ thread' = [thread EXCEPT ![c] = t]
  /\ at' = [at EXCEPT ![c] = IF count = 0 THEN "cutting" ELSE "asking"]
  /\ known' = [known EXCEPT ![c] = Registered]
  /\ UNCHANGED <<threadVars, listVars, taskVars, queueVars, number, wakers, live>>

Matched(t) == \E l \in list \cap Registered : t \in Wants[l]

\* interested, under the read lock of the list.  at says what was decided: to cut,
\* or to cut and observe; a list with dead entries is swept in between.
Interested(c) ==
  /\ at[c] = "asking"
  /\ at' = [at EXCEPT ![c] = IF list \subseteq Registered
                             THEN IF Matched(thread[c]) THEN "observing" ELSE "cutting"
                             ELSE IF Matched(thread[c]) THEN "sweepThenObserve"
                             ELSE "sweepThenCut"]
  /\ UNCHANGED <<threadVars, listVars, taskVars, queueVars, thread, number, wakers,
                 known, live>>

\* interested, under the write lock it took afterwards.
SweepList(c) ==
  /\ at[c] \in {"sweepThenObserve", "sweepThenCut"}
  /\ list' = list \cap Registered
  /\ count' = CountAfter(list')
  /\ at' = [at EXCEPT ![c] = IF @ = "sweepThenObserve" THEN "observing" ELSE "cutting"]
  /\ UNCHANGED <<threadVars, status, taskVars, queueVars, thread, number, wakers,
                 known, live>>

\* The locals of a cut are gone once it has nothing left to say.
Forgotten(c) ==
  /\ thread' = [thread EXCEPT ![c] = Nobody]
  /\ number' = [number EXCEPT ![c] = 0]
  /\ known' = [known EXCEPT ![c] = {}]
  /\ live' = [live EXCEPT ![c] = {}]

RecordCut(t) ==
  /\ lock = Nobody
  /\ generations' = [generations EXCEPT ![t] = @ + 1]
  /\ seq' = seq + 1
  /\ UNCHANGED entries

\* ReprCache::cut.
CutPlain(c) ==
  /\ at[c] = "cutting"
  /\ RecordCut(thread[c])
  /\ at' = [at EXCEPT ![c] = "idle"]
  /\ Forgotten(c)
  /\ UNCHANGED <<lock, listVars, taskVars, queueVars, wakers>>

\* Mutation: the mutex is released before the listeners are told.
HolderNone(c) == Nobody

\* cut_with keeps the cache mutex until the cut is delivered.
Holder(c) == c

\* ReprCache::cut_with, up to the observer.
CutObserved(c) ==
  /\ at[c] = "observing"
  /\ RecordCut(thread[c])
  /\ lock' = Holder(c)
  /\ number' = [number EXCEPT ![c] = seq + 1]
  /\ live' = [live EXCEPT ![c] = {k \in Keys : EntryLive(k) /\ thread[c] \in Edges(k)}]
  /\ at' = [at EXCEPT ![c] = "delivering"]
  /\ UNCHANGED <<listVars, taskVars, queueVars, thread, wakers, known>>

\* deliver: every listener that matches and may hear the cut has it queued, and its
\* waker taken, before the mutex is released.
Deliver(c) ==
  /\ at[c] = "delivering"
  /\ LET t == thread[c]
         told == {l \in list \cap Registered : t \in Wants[l] /\ MayHear(l, t)}
         event(l) == [seq |-> number[c], invalidated |-> Visible(l, Invalidated(t)),
                      live |-> Visible(l, live[c])]
         due == {waker[l] : l \in told} \ {Nobody}
     IN /\ queue' = [l \in Listeners |-> IF l \in told THEN Pushed(l, event(l)) ELSE queue[l]]
        /\ history' = [l \in Listeners |->
                       IF l \in told THEN Append(history[l], number[c]) ELSE history[l]]
        /\ waker' = [l \in Listeners |-> IF l \in told THEN Nobody ELSE waker[l]]
        /\ wakers' = [wakers EXCEPT ![c] = due]
        /\ at' = [at EXCEPT ![c] = IF due = {} THEN "idle" ELSE "waking"]
  /\ lock' = Nobody
  /\ Forgotten(c)
  /\ UNCHANGED <<generations, seq, entries, listVars, taskVars, before>>

\* The wakers are woken one by one, with no lock held.
Wake(c) ==
  /\ at[c] = "waking"
  /\ \E w \in wakers[c] :
       /\ woken' = woken \cup {w}
       /\ wakers' = [wakers EXCEPT ![c] = @ \ {w}]
       /\ at' = [at EXCEPT ![c] = IF wakers[c] = {w} THEN "idle" ELSE "waking"]
  /\ UNCHANGED <<threadVars, listVars, waits, queueVars, thread, number, known, live>>

-----------------------------------------------------------------------------
(* The host: drain and wait *)

\* Everything queued at l is handed over, and the drop count starts again.
Taken(l) ==
  /\ queue' = [queue EXCEPT ![l] = EmptyQueue]
  /\ history' = [history EXCEPT ![l] = <<>>]
  /\ before' = [before EXCEPT ![l] = IF history[l] = <<>> THEN @ ELSE history[l][Len(history[l])]]

\* Mutation: a drain forgets who waits.
WakerAfterForgetful(l) == Nobody

\* A drain leaves a parked waker where it is.
WakerAfter(l) == waker[l]

Drain(l) ==
  /\ status[l] = "listening"
  /\ Taken(l)
  /\ waker' = [waker EXCEPT ![l] = WakerAfter(l)]
  /\ UNCHANGED <<threadVars, listVars, taskVars, cutVars>>

\* Wait::poll, first or again.  It parks on an empty queue, in the place of whoever
\* parked there before.
Poll(w, l) ==
  /\ status[l] = "listening"
  /\ waits[w] \in {Nobody, l}
  /\ woken' = woken \ {w}
  /\ \/ /\ ~Pending(l)
        /\ waker' = [waker EXCEPT ![l] = w]
        /\ waits' = [waits EXCEPT ![w] = l]
        /\ UNCHANGED <<queue, history, before>>
     \/ /\ Pending(l)
        /\ waker' = [waker EXCEPT ![l] = Nobody]
        /\ waits' = [waits EXCEPT ![w] = Nobody]
        /\ Taken(l)
  /\ UNCHANGED <<threadVars, listVars, cutVars>>

\* The future is dropped; its waker stays parked.
GiveUp(w) ==
  /\ waits[w] # Nobody
  /\ waits' = [waits EXCEPT ![w] = Nobody]
  /\ woken' = woken \ {w}
  /\ UNCHANGED <<threadVars, listVars, queueVars, cutVars>>

-----------------------------------------------------------------------------
CutStep(c) == Interested(c) \/ SweepList(c) \/ CutPlain(c) \/ CutObserved(c) \/ Deliver(c) \/ Wake(c)

PolledAgain(w) == w \in woken /\ \E l \in Listeners : waits[w] = l /\ Poll(w, l)

CutsNext ==
  \/ \E k \in Keys, T \in SUBSET Threads \ {{}} : Store(k, T)
  \/ \E k \in Keys : Evict(k)
  \/ \E l \in Listeners : Register(l)
  \/ \E l \in Listeners : Unlisten(l)
  \/ \E c \in Cutters, t \in Threads : Begin(c, t)
  \/ \E c \in Cutters : Interested(c)
  \/ \E c \in Cutters : SweepList(c)
  \/ \E c \in Cutters : CutPlain(c)
  \/ \E c \in Cutters : CutObserved(c)
  \/ \E c \in Cutters : Deliver(c)
  \/ \E c \in Cutters : Wake(c)
  \/ \E l \in Listeners : Drain(l)
  \/ \E w \in Waiters, l \in Listeners : Poll(w, l)
  \/ \E w \in Waiters : GiveUp(w)

CutsSpec == CutsInit /\ [][CutsNext]_cutsVars

\* A cut that began runs to its end, and a woken task is polled.
Fairness ==
  /\ \A c \in Cutters : WF_cutsVars(CutStep(c))
  /\ \A w \in Waiters : WF_cutsVars(PolledAgain(w))

CutsFairSpec == CutsSpec /\ Fairness

-----------------------------------------------------------------------------
(* Properties *)

Seqs(l) == [i \in 1 .. Len(queue[l].events) |-> queue[l].events[i].seq]

\* What a listener holds is exactly what it has heard since it was drained: a full
\* queue keeps the oldest events and counts every later one, so with drops the
\* history is a prefix and never has a hole in it.
HistoryIsPrefix ==
  \A l \in Listeners :
    /\ Len(queue[l].events) <= Capacity[l]
    /\ Len(history[l]) = Len(queue[l].events) + queue[l].dropped
    /\ Seqs(l) = SubSeq(history[l], 1, Len(queue[l].events))

\* Cuts that land concurrently reach each listener in the one cut order, across
\* batches as well.
InCutOrder ==
  \A l \in Listeners : \A i \in 1 .. Len(history[l]) :
    history[l][i] > (IF i = 1 THEN before[l] ELSE history[l][i - 1])

\* An event names every entry the cut took from the cache's live entries, as far as
\* the listener may know: it may list more, it omits none.
NoneOmitted ==
  \A l \in Listeners : \A i \in 1 .. Len(queue[l].events) :
    queue[l].events[i].live \subseteq queue[l].events[i].invalidated

\* What a listener is told, whichever cuts run beside each other (Shared::push,
\* Kernel::cut, cut_with).
CutsHeardInOrder == HistoryIsPrefix /\ InCutOrder /\ NoneOmitted

\* A listener hears every cut that began after listen returned, as long as its host
\* holds it: neither the load of the count, nor a sweep of dead entries, nor a
\* registration that runs meanwhile makes a cut pass it by.
ShouldHear(c) == {l \in known[c] \cap Registered :
                    thread[c] \in Wants[l] /\ MayHear(l, thread[c])}

NotPassedBy(c) ==
  /\ at[c] = "cutting" /\ at'[c] = "idle" => ShouldHear(c) = {}
  /\ at[c] = "delivering" /\ at'[c] # "delivering" =>
       \A l \in ShouldHear(c) : history'[l] = Append(history[l], number[c])

HearsLaterCuts == [][\A c \in Cutters : NotPassedBy(c)]_cutsVars

\* A task that waits while something is queued gets it, unless somebody else drains
\* the queue or the task gives up: no wake-up is lost between the delivery under the
\* mutex and the wake after it.
NoLostWakeup ==
  \A w \in Waiters, l \in Listeners :
    waits[w] = l /\ Pending(l) ~> waits[w] # l \/ ~Pending(l)

=============================================================================
