------------------------------ MODULE ReprCache ------------------------------
(***************************************************************************)
(* The representation cache of the kernel (cache.rs) and the requests that *)
(* look up, compute and store answers through it (issue_answer in          *)
(* kernel.rs).                                                             *)
(*                                                                         *)
(* A golden thread is cut whenever the state it stands for changes.  The   *)
(* cache stores an answer with each of its threads pinned to the           *)
(* generation the thread had when the answer was STORED; a request takes a *)
(* snapshot of the cut sequence before it reads anything, and its store is *)
(* declined when the bounded cut log shows (or can no longer rule out) a   *)
(* cut of one of its threads since.                                        *)
(*                                                                         *)
(* Every operation of the cache runs under one mutex and is one action.    *)
(* The exception is a cut: it publishes the new sequence number to         *)
(* lock-free readers after it recorded the cut, so it is two actions, and  *)
(* "cutting" says that its critical section is still open.                 *)
(*                                                                         *)
(* lastCut and the saw fields are history: which change of a thread an     *)
(* answer has seen, counted by the cut that announced it.  No guard reads  *)
(* them.                                                                   *)
(***************************************************************************)
EXTENDS Integers, Sequences, FiniteSets

CONSTANTS
  Keys,          \* cache keys: request id, capability and scope fingerprints
  Threads,       \* golden threads
  Target,        \* Target[k]: the thread named after the canonical target of k
  Requests,      \* requests that may be in flight at once
  Absent,        \* no entry, no failure, no offer, no parent
  CutLog,        \* CUT_LOG: the cuts the log remembers
  FailureLimit,  \* CACHED_FAILURES: the failures the cache holds
  Watermark,     \* generations kept before a sweep
  Never,         \* Expiry::Never, later than every deadline
  OwnExpiries,   \* expiries an endpoint may give its answer
  MaxSeq,        \* bound on the number of cuts
  MaxTick,       \* bound on the number of stores
  MaxNow         \* bound on the clock

VARIABLES
  entries,       \* CacheState.entries
  failures,      \* CacheState.failures
  generations,   \* CacheState.generations, 0 where the map holds nothing
  cuts,          \* CacheState.cuts: the log, oldest first
  horizon,       \* CacheState.horizon: the newest cut the log forgot
  seq,           \* CacheState.seq
  tick,          \* CacheState.tick, as it numbers stores
  cutSeq,        \* ReprCache.cut_seq: seq as lock-free readers see it
  cutting,       \* a cut is between its two steps, holding the mutex
  now,           \* the kernel's clock
  lastCut,       \* history: sequence number of the last cut of each thread
  pc, parent, key, taken, started, deps, saw, until, offer  \* requests

cacheVars == <<entries, failures, generations, cuts, horizon, seq, tick>>
cutVars   == <<generations, cuts, horizon, seq, cutSeq, cutting, lastCut>>
callVars  == <<pc, parent, key, taken, started, deps, saw, until, offer>>
vars == <<entries, failures, generations, cuts, horizon, seq, tick, cutSeq,
          cutting, now, lastCut, callVars>>

-----------------------------------------------------------------------------
(* Types *)

Always   == -1                  \* Expiry::Always: never stored
Expiries == {Always} \cup (0 .. Never)
Versions == [Threads -> Nat]

\* An answer with the threads it hangs from; "edges" pins them to generations.
Slot == [threads : SUBSET Threads, edges : Versions, saw : Versions,
         until : Expiries, validator : BOOLEAN, tick : Nat]

FailedSlot == [threads : SUBSET Threads, edges : Versions, saw : Versions,
               until : Expiries]

Phases == {"idle", "begun", "looking", "running", "storing",
           "storingValidated", "discarding", "answered"}

Unseen == [t \in Threads |-> 0]

ASSUME ConstantsAssumption ==
  /\ Target \in [Keys -> Threads]
  /\ CutLog \in Nat \ {0}
  /\ FailureLimit \in Nat \ {0}
  /\ Watermark \in Nat
  /\ Never \in Nat
  /\ OwnExpiries \subseteq Expiries
  /\ Absent \notin Slot \cup FailedSlot \cup Requests \cup Keys
  /\ MaxSeq \in Nat /\ MaxTick \in Nat /\ MaxNow \in Nat /\ MaxNow < Never
  /\ IsFiniteSet(Keys)

MinOf(a, b) == IF a <= b THEN a ELSE b

-----------------------------------------------------------------------------
(* Validity (CacheState::state_of, failure_state) *)

EdgesCurrent(slot) ==
  \A t \in slot.threads : generations[t] = slot.edges[t]

\* A deadline holds strictly before it; Never always holds.
InTime(slot, at) == slot.until = Never \/ at < slot.until

EntryLive(slot, at)    == EdgesCurrent(slot) /\ InTime(slot, at)
EntryExpired(slot, at) == EdgesCurrent(slot) /\ ~InTime(slot, at)
FailureLive(slot, at)  == EdgesCurrent(slot) /\ at < slot.until

-----------------------------------------------------------------------------
(* The cut log (record_cut, cut_since) *)

Log(t, s) == [thread |-> t, seq |-> s]

\* Mutation: the log is read although it forgot cuts after the snapshot.
CutSinceForgetful(T, since) ==
  \E i \in 1 .. Len(cuts) :
    cuts[i].thread \in T /\ \A j \in i .. Len(cuts) : cuts[j].seq > since

\* Mutation: the first cut after the snapshot is overlooked.
CutSinceLate(T, since) ==
  /\ T # {}
  /\ \/ since < horizon
     \/ \E i \in 1 .. Len(cuts) :
          cuts[i].thread \in T /\ \A j \in i .. Len(cuts) : cuts[j].seq > since + 1

\* Mutation: any cut since the snapshot declines, whatever its thread.
CutSinceGlobal(T, since) ==
  T # {} /\ (since < horizon \/ \E i \in 1 .. Len(cuts) : cuts[i].seq > since)

\* Was a thread of T cut after the snapshot "since", as far as the log can
\* tell?  The log is read backwards while its entries are newer than "since".
CutSince(T, since) ==
  /\ T # {}
  /\ \/ since < horizon
     \/ \E i \in 1 .. Len(cuts) :
          cuts[i].thread \in T /\ \A j \in i .. Len(cuts) : cuts[j].seq > since

\* The log and the horizon after one more cut.
CutsAfter(t) ==
  Append(IF Len(cuts) >= CutLog THEN Tail(cuts) ELSE cuts, Log(t, seq + 1))

HorizonAfter == IF Len(cuts) >= CutLog THEN Head(cuts).seq ELSE horizon

-----------------------------------------------------------------------------
(* Generations (sweep_generations) *)

Pinned(es, fs) ==
  (UNION {es[k].threads : k \in {k \in Keys : es[k] # Absent}})
    \cup (UNION {fs[k].threads : k \in {k \in Keys : fs[k] # Absent}})

\* Mutation: the sweep forgets pinned threads too.
SweptAll(es, fs) ==
  IF Cardinality({t \in Threads : generations[t] # 0}) <= Watermark
  THEN generations
  ELSE [t \in Threads |-> 0]

\* Past the watermark, only threads some entry or failure pins are kept.
Swept(es, fs) ==
  IF Cardinality({t \in Threads : generations[t] # 0}) <= Watermark
  THEN generations
  ELSE [t \in Threads |-> IF t \in Pinned(es, fs) THEN generations[t] ELSE 0]

-----------------------------------------------------------------------------
Init ==
  /\ entries = [k \in Keys |-> Absent]
  /\ failures = [k \in Keys |-> Absent]
  /\ generations = [t \in Threads |-> 0]
  /\ cuts = <<>>
  /\ horizon = 0 /\ seq = 0 /\ tick = 0 /\ cutSeq = 0
  /\ cutting = FALSE
  /\ now = 0
  /\ lastCut = [t \in Threads |-> 0]
  /\ pc = [r \in Requests |-> "idle"]
  /\ parent = [r \in Requests |-> Absent]
  /\ key = [r \in Requests |-> Absent]
  /\ taken = [r \in Requests |-> 0]
  /\ started = [r \in Requests |-> 0]
  /\ deps = [r \in Requests |-> {}]
  /\ saw = [r \in Requests |-> [t \in Threads |-> 0]]
  /\ until = [r \in Requests |-> Never]
  /\ offer = [r \in Requests |-> Absent]

-----------------------------------------------------------------------------
(* Cuts: cut and cut_with *)

\* Inside the critical section: the generation, the sequence and the log.
RecordCut(t) ==
  /\ ~cutting
  /\ seq < MaxSeq
  /\ generations' = [generations EXCEPT ![t] = @ + 1]
  /\ seq' = seq + 1
  /\ cuts' = CutsAfter(t)
  /\ horizon' = HorizonAfter
  /\ lastCut' = [lastCut EXCEPT ![t] = seq + 1]
  /\ cutting' = TRUE
  /\ UNCHANGED <<entries, failures, tick, cutSeq, now, callVars>>

\* Still inside it: the sequence is published to lock-free readers.
PublishCut ==
  /\ cutting
  /\ cutSeq' = seq
  /\ cutting' = FALSE
  /\ UNCHANGED <<cacheVars, now, lastCut, callVars>>

TimePasses ==
  /\ now < MaxNow
  /\ now' = now + 1
  /\ UNCHANGED <<cacheVars, cutSeq, cutting, lastCut, callVars>>

-----------------------------------------------------------------------------
(* One request: issue_answer *)

\* What r has read, joined with an answer that read T as of "seen".
Joined(r, T, seen) ==
  [t \in Threads |->
     IF t \in deps[r] /\ t \in T THEN MinOf(saw[r][t], seen[t])
     ELSE IF t \in T THEN seen[t] ELSE saw[r][t]]

\* The snapshot is a lock-free read of cut_seq.
Snapshot == cutSeq

\* The request takes its snapshot and its time stamp before it reads anything.
\* It is issued by a host, or by a request whose endpoint is running.
Begin(r, k, p) ==
  /\ pc[r] = "idle"
  /\ p # Absent => pc[p] = "running"
  /\ pc' = [pc EXCEPT ![r] = "begun"]
  /\ parent' = [parent EXCEPT ![r] = p]
  /\ key' = [key EXCEPT ![r] = k]
  /\ taken' = [taken EXCEPT ![r] = Snapshot]
  /\ started' = [started EXCEPT ![r] = now]
  /\ UNCHANGED <<cacheVars, cutSeq, cutting, now, lastCut, deps, saw, until, offer>>

\* r is answered from "slot": it hangs from what the slot hangs from.
AnswerFrom(r, slot) ==
  /\ pc' = [pc EXCEPT ![r] = "answered"]
  /\ deps' = [deps EXCEPT ![r] = slot.threads]
  /\ saw' = [saw EXCEPT ![r] = slot.saw]
  /\ until' = [until EXCEPT ![r] = slot.until]
  /\ UNCHANGED offer

\* A cached failure is looked for first (get_failure).
LookupFailure(r) ==
  /\ pc[r] = "begun" /\ ~cutting
  /\ LET slot == failures[key[r]]
     IN \/ /\ slot # Absent /\ FailureLive(slot, started[r])
           /\ AnswerFrom(r, slot)
           /\ UNCHANGED failures
        \/ /\ ~(slot # Absent /\ FailureLive(slot, started[r]))
           /\ failures' = [failures EXCEPT ![key[r]] = Absent]
           /\ pc' = [pc EXCEPT ![r] = "looking"]
           /\ UNCHANGED <<deps, saw, until, offer>>
  /\ UNCHANGED <<entries, generations, cuts, horizon, seq, tick, cutSeq,
                 cutting, now, lastCut, parent, key, taken, started>>

\* The endpoint is entered.  It may read its own target's state at any moment
\* from here on; the thread of that name is attached to every cacheable answer.
Invoke(r, offered) ==
  /\ pc' = [pc EXCEPT ![r] = "running"]
  /\ deps' = [deps EXCEPT ![r] = {Target[key[r]]}]
  /\ saw' = [saw EXCEPT ![r] =
               [t \in Threads |-> IF t = Target[key[r]] THEN lastCut[t] ELSE 0]]
  /\ until' = [until EXCEPT ![r] = Never]
  /\ offer' = [offer EXCEPT ![r] = offered]

\* Then an entry (get_or_offer): served, offered for revalidation if only time
\* made it stale and its origin gave a validator, or else evicted.
LookupEntry(r) ==
  /\ pc[r] = "looking" /\ ~cutting
  /\ LET slot == entries[key[r]]
     IN \/ /\ slot = Absent
           /\ Invoke(r, Absent)
           /\ UNCHANGED entries
        \/ /\ slot # Absent /\ EntryLive(slot, started[r])
           /\ AnswerFrom(r, slot)
           /\ UNCHANGED entries
        \/ /\ slot # Absent /\ EntryExpired(slot, started[r]) /\ slot.validator
           /\ Invoke(r, slot)
           /\ UNCHANGED entries
        \/ /\ slot # Absent /\ ~EntryLive(slot, started[r])
           /\ ~(EntryExpired(slot, started[r]) /\ slot.validator)
           /\ Invoke(r, Absent)
           /\ entries' = [entries EXCEPT ![key[r]] = Absent]
  /\ UNCHANGED <<failures, generations, cuts, horizon, seq, tick, cutSeq,
                 cutting, now, lastCut, parent, key, taken, started>>

\* The endpoint reads state that thread t stands for (depends_on).
Observe(r, t) ==
  /\ pc[r] = "running"
  /\ deps' = [deps EXCEPT ![r] = @ \cup {t}]
  /\ saw' = [saw EXCEPT ![r] = Joined(r, {t}, lastCut)]
  /\ UNCHANGED <<cacheVars, cutSeq, cutting, now, lastCut, pc, parent, key,
                 taken, started, until, offer>>

\* The frame of r is gone: nothing of what it read is kept outside the cache.
Gone(r) ==
  /\ taken' = [taken EXCEPT ![r] = 0]
  /\ started' = [started EXCEPT ![r] = 0]
  /\ key' = [key EXCEPT ![r] = Absent]
  /\ offer' = [offer EXCEPT ![r] = Absent]
  /\ UNCHANGED <<cacheVars, cutSeq, cutting, now, lastCut>>

\* A sub-request's outcome reaches the endpoint that issued it, which hangs from
\* what the sub-request hung from and is no fresher (Recorded::record).
Fold(c, p) ==
  /\ pc[c] = "answered" /\ parent[c] = p /\ pc[p] = "running"
  /\ deps' = [deps EXCEPT ![p] = @ \cup deps[c], ![c] = {}]
  /\ saw' = [saw EXCEPT ![p] = Joined(p, deps[c], saw[c]), ![c] = Unseen]
  /\ until' = [until EXCEPT ![p] = MinOf(@, until[c]), ![c] = Never]
  /\ pc' = [pc EXCEPT ![c] = "idle"]
  /\ parent' = [parent EXCEPT ![c] = Absent]
  /\ Gone(c)

\* A host's request returns.
Deliver(r) ==
  /\ pc[r] = "answered" /\ parent[r] = Absent
  /\ pc' = [pc EXCEPT ![r] = "idle"]
  /\ deps' = [deps EXCEPT ![r] = {}]
  /\ saw' = [saw EXCEPT ![r] = Unseen]
  /\ until' = [until EXCEPT ![r] = Never]
  /\ UNCHANGED parent
  /\ Gone(r)

\* The request's future is dropped at an await.  Sub-requests that were spawned
\* run on with nobody to answer.
Abandon(r) ==
  /\ pc[r] = "running"
  /\ pc' = [pc EXCEPT ![r] = "idle"]
  /\ parent' = [c \in Requests |->
                  IF c = r \/ parent[c] = r THEN Absent ELSE parent[c]]
  /\ deps' = [deps EXCEPT ![r] = {}]
  /\ saw' = [saw EXCEPT ![r] = Unseen]
  /\ until' = [until EXCEPT ![r] = Never]
  /\ Gone(r)

\* The endpoint returns only after the sub-requests it awaits have.
Quiet(r) == \A c \in Requests : parent[c] # r

\* Mutation: whatever is stored under the key goes.
DiscardedAny(k, offered) ==
  IF offered # Absent THEN [entries EXCEPT ![k] = Absent] ELSE entries

\* Discard: the entry an offer was made from goes, a newer one stays.
Discarded(k, offered) ==
  IF /\ offered # Absent
     /\ entries[k] # Absent
     /\ entries[k].tick = offered.tick
  THEN [entries EXCEPT ![k] = Absent]
  ELSE entries

\* May an answer valid until u be stored: not volatile, and not expired already
\* unless its origin can be asked to revalidate it.
Storable(u, validator) == u # Always /\ (u = Never \/ now < u \/ validator)

\* The endpoint answers with an expiry of its own.  With an offer in hand it may
\* answer that the offered body still stands; that body keeps its threads.
Succeed(r, u, validator, kept) ==
  /\ pc[r] = "running" /\ Quiet(r) /\ ~cutting
  /\ kept => offer[r] # Absent
  /\ LET valid == IF kept THEN validator \/ offer[r].validator ELSE validator
         meets == MinOf(u, until[r])
     IN /\ until' = [until EXCEPT ![r] = meets]
        /\ offer' = [offer EXCEPT ![r] = Absent]
        /\ pc' = [pc EXCEPT ![r] =
                    IF ~Storable(meets, valid) THEN "answered"
                    ELSE IF valid THEN "storingValidated" ELSE "storing"]
  /\ deps' = [deps EXCEPT ![r] = IF kept THEN @ \cup offer[r].threads ELSE @]
  /\ saw' = [saw EXCEPT ![r] =
               IF kept THEN Joined(r, offer[r].threads, offer[r].saw) ELSE @]
  /\ entries' = Discarded(key[r], offer[r])
  /\ UNCHANGED <<failures, generations, cuts, horizon, seq, tick, cutSeq,
                 cutting, now, lastCut, parent, key, taken, started>>

\* The answer of r as it is stored now.
SlotOf(r) ==
  [threads |-> deps[r],
   edges |-> [t \in Threads |-> IF t \in deps[r] THEN generations[t] ELSE 0],
   saw |-> saw[r], until |-> until[r],
   validator |-> pc[r] = "storingValidated", tick |-> tick + 1]

\* store_outcome.  A cut that landed since the snapshot declines the answer; so
\* do a body that can be read once and a policy that does not admit it.  A store
\* drops a failure of the same key, then the policy's victims, then sweeps.
Store(r) ==
  /\ pc[r] \in {"storing", "storingValidated"} /\ ~cutting
  /\ \/ UNCHANGED <<entries, failures, generations, tick>>
     \/ /\ ~CutSince(deps[r], taken[r])
        /\ tick < MaxTick
        /\ tick' = tick + 1
        /\ UNCHANGED <<entries, failures, generations>>
     \/ /\ ~CutSince(deps[r], taken[r])
        /\ tick < MaxTick
        /\ tick' = tick + 1
        /\ failures' = [failures EXCEPT ![key[r]] = Absent]
        /\ \E kept \in SUBSET Keys :
             entries' = [k \in Keys |->
                           IF k \notin kept THEN Absent
                           ELSE IF k = key[r] THEN SlotOf(r) ELSE entries[k]]
        /\ generations' = Swept(entries', failures')
  /\ pc' = [pc EXCEPT ![r] = "answered"]
  /\ UNCHANGED <<cuts, horizon, seq, cutSeq, cutting, now, lastCut, parent, key,
                 taken, started, deps, saw, until, offer>>

\* The endpoint fails because what it needs is missing.  Such a failure is not
\* stored; its issuer hangs from what it read.
FailMissing(r) ==
  /\ pc[r] = "running" /\ Quiet(r) /\ ~cutting
  /\ pc' = [pc EXCEPT ![r] = "answered"]
  /\ entries' = Discarded(key[r], offer[r])
  /\ offer' = [offer EXCEPT ![r] = Absent]
  /\ UNCHANGED <<failures, generations, cuts, horizon, seq, tick, cutSeq,
                 cutting, now, lastCut, parent, key, taken, started, deps, saw,
                 until>>

\* The endpoint fails otherwise and states no expiry: its issuer is volatile.
FailVolatile(r) ==
  /\ pc[r] = "running" /\ Quiet(r) /\ ~cutting
  /\ pc' = [pc EXCEPT ![r] = "answered"]
  /\ until' = [until EXCEPT ![r] = Always]
  /\ entries' = Discarded(key[r], offer[r])
  /\ offer' = [offer EXCEPT ![r] = Absent]
  /\ UNCHANGED <<failures, generations, cuts, horizon, seq, tick, cutSeq,
                 cutting, now, lastCut, parent, key, taken, started, deps, saw>>

Held(slots) == {k \in Keys : slots[k] # Absent}

\* Mutation: the bound is checked one failure late.
RoomLate(fs, k, without) ==
  IF Cardinality(Held(fs)) > FailureLimit /\ fs[k] = Absent
  THEN \E s \in Held(fs) :
         /\ \A other \in Held(fs) : fs[s].until <= fs[other].until
         /\ without = [fs EXCEPT ![s] = Absent]
  ELSE without = fs

\* A full table makes room for a new key by dropping the failure that expires
\* soonest.
Room(fs, k, without) ==
  IF Cardinality(Held(fs)) >= FailureLimit /\ fs[k] = Absent
  THEN \E s \in Held(fs) :
         /\ \A other \in Held(fs) : fs[s].until <= fs[other].until
         /\ without = [fs EXCEPT ![s] = Absent]
  ELSE without = fs

\* The endpoint fails and states until when (cache_failure, store_failure).  The
\* entry that was offered is discarded in a critical section of its own.
FailStated(r, u) ==
  /\ pc[r] = "running" /\ Quiet(r) /\ ~cutting
  /\ LET meets == MinOf(u, until[r])
         stored == now < meets /\ ~CutSince(deps[r], taken[r])
     IN /\ until' = [until EXCEPT ![r] = IF stored THEN meets ELSE Always]
        /\ IF stored
           THEN \E without \in {[failures EXCEPT ![k] = Absent] : k \in Keys}
                                 \cup {failures} :
                  /\ Room(failures, key[r], without)
                  /\ failures' = [without EXCEPT ![key[r]] =
                       [threads |-> deps[r],
                        edges |-> [t \in Threads |->
                                     IF t \in deps[r] THEN generations[t] ELSE 0],
                        saw |-> saw[r], until |-> meets]]
           ELSE UNCHANGED failures
  /\ pc' = [pc EXCEPT ![r] = IF offer[r] = Absent THEN "answered" ELSE "discarding"]
  /\ UNCHANGED <<entries, generations, cuts, horizon, seq, tick, cutSeq, cutting,
                 now, lastCut, parent, key, taken, started, deps, saw, offer>>

DiscardAfterFailure(r) ==
  /\ pc[r] = "discarding" /\ ~cutting
  /\ pc' = [pc EXCEPT ![r] = "answered"]
  /\ entries' = Discarded(key[r], offer[r])
  /\ offer' = [offer EXCEPT ![r] = Absent]
  /\ UNCHANGED <<failures, generations, cuts, horizon, seq, tick, cutSeq,
                 cutting, now, lastCut, parent, key, taken, started, deps, saw,
                 until>>

-----------------------------------------------------------------------------
Next ==
  \/ \E t \in Threads : RecordCut(t)
  \/ PublishCut
  \/ TimePasses
  \/ \E r \in Requests, k \in Keys, p \in Requests \cup {Absent} : Begin(r, k, p)
  \/ \E r \in Requests : LookupFailure(r)
  \/ \E r \in Requests : LookupEntry(r)
  \/ \E r \in Requests, t \in Threads : Observe(r, t)
  \/ \E c, p \in Requests : Fold(c, p)
  \/ \E r \in Requests : Deliver(r)
  \/ \E r \in Requests : Abandon(r)
  \/ \E r \in Requests, u \in OwnExpiries, validator, kept \in BOOLEAN :
       Succeed(r, u, validator, kept)
  \/ \E r \in Requests : Store(r)
  \/ \E r \in Requests : FailMissing(r)
  \/ \E r \in Requests : FailVolatile(r)
  \/ \E r \in Requests, u \in 0 .. MaxNow : FailStated(r, u)
  \/ \E r \in Requests : DiscardAfterFailure(r)

Spec == Init /\ [][Next]_vars

-----------------------------------------------------------------------------
(* Properties *)

\* Every variable keeps its type; the cut log stays within its bound.
TypeOK ==
  /\ entries \in [Keys -> Slot \cup {Absent}]
  /\ failures \in [Keys -> FailedSlot \cup {Absent}]
  /\ generations \in Versions
  /\ cuts \in Seq([thread : Threads, seq : Nat])
  /\ Len(cuts) <= CutLog
  /\ horizon \in Nat /\ seq \in Nat /\ tick \in Nat /\ cutSeq \in Nat
  /\ cutting \in BOOLEAN
  /\ now \in Nat
  /\ lastCut \in Versions
  /\ pc \in [Requests -> Phases]
  /\ parent \in [Requests -> Requests \cup {Absent}]
  /\ key \in [Requests -> Keys \cup {Absent}]
  /\ \A r \in Requests : pc[r] # "idle" => key[r] \in Keys
  /\ taken \in [Requests -> Nat]
  /\ started \in [Requests -> Nat]
  /\ deps \in [Requests -> SUBSET Threads]
  /\ saw \in [Requests -> Versions]
  /\ until \in [Requests -> Expiries]
  /\ offer \in [Requests -> Slot \cup {Absent}]

\* A slot has seen the last cut of every thread it hangs from.
SeesLastCuts(slot) == \A t \in slot.threads : slot.saw[t] = lastCut[t]

\* The lost-cut race is closed: an entry or a failure the cache would still
\* serve was computed from state no older than the last cut of every thread it
\* hangs from, through any depth of sub-requests, hits and revalidations.
NoStaleLive ==
  \A k \in Keys :
    /\ entries[k] # Absent /\ EdgesCurrent(entries[k]) => SeesLastCuts(entries[k])
    /\ failures[k] # Absent /\ EdgesCurrent(failures[k]) => SeesLastCuts(failures[k])

\* The bounded log answers exactly, for every snapshot it still covers, whether
\* a thread was cut after it: no cut is missed, and none declines a store that
\* does not hang from its thread.
CutLogExact ==
  \A t \in Threads, since \in horizon .. seq :
    CutSince({t}, since) <=> lastCut[t] > since

\* A slot a cut made stale stays stale for as long as it is kept, whatever
\* generations are swept meanwhile.
CutIsForever ==
  [][\A k \in Keys :
       /\ (/\ entries[k] # Absent /\ ~EdgesCurrent(entries[k])
           /\ entries'[k] = entries[k]) => ~EdgesCurrent(entries[k])'
       /\ (/\ failures[k] # Absent /\ ~EdgesCurrent(failures[k])
           /\ failures'[k] = failures[k]) => ~EdgesCurrent(failures[k])']_vars

\* Giving up on an offer never forgets an answer another request stored since:
\* only a store, or a lookup that found the entry invalid, removes one that is
\* newer than the offer.
NewerEntryKept ==
  [][\A r \in Requests :
       LET k == key[r]
       IN offer[r] # Absent /\ offer'[r] = Absent /\ entries[k] # Absent
            /\ entries[k].tick > offer[r].tick
          => entries'[k] = entries[k]]_vars

\* The table of cached failures never exceeds its bound.
FailuresBounded == Cardinality(Held(failures)) <= FailureLimit

-----------------------------------------------------------------------------
(* What the cache promises: CoherentCache *)

\* A slot as a view of the threads it hangs from, while its edges are current.
ViewOf(slot) ==
  IF slot # Absent /\ EdgesCurrent(slot) THEN [t \in slot.threads |-> slot.saw[t]]
  ELSE Absent

Places == Keys \X {"entry", "failure"}

SlotAt(p) == IF p[2] = "entry" THEN entries[p[1]] ELSE failures[p[1]]

Cached == [p \in Places |-> ViewOf(SlotAt(p))]

Promise == INSTANCE CoherentCache WITH
             Places <- Places, MaxChanges <- MaxSeq,
             changes <- seq, version <- lastCut, cached <- Cached

\* The cache with its log, generations, sweeps and in-flight requests behaves
\* like one that loses every dependent answer in the instant of a change.
KeepsPromise == Promise!Spec

-----------------------------------------------------------------------------
(* The inductive invariant behind the properties *)

\* The log is the ordered list of the cuts after the horizon: none is missing.
LogSound ==
  /\ cutSeq <= seq /\ horizon <= seq
  /\ \A i \in 1 .. Len(cuts) :
       /\ horizon < cuts[i].seq /\ cuts[i].seq <= seq
       /\ cuts[i].seq <= lastCut[cuts[i].thread]
  /\ \A i, j \in 1 .. Len(cuts) : i < j => cuts[i].seq < cuts[j].seq
  /\ \A t \in Threads :
       /\ lastCut[t] <= seq
       /\ lastCut[t] > horizon =>
            \E i \in 1 .. Len(cuts) : cuts[i] = Log(t, lastCut[t])

\* A pin is never ahead of its thread, and while it is current the slot has
\* seen the thread's last cut.
PinSound(slot) ==
  \A t \in slot.threads :
    /\ slot.edges[t] <= generations[t]
    /\ slot.edges[t] = generations[t] => slot.saw[t] = lastCut[t]

PinsSound ==
  \A k \in Keys :
    /\ entries[k] # Absent => PinSound(entries[k])
    /\ failures[k] # Absent => PinSound(failures[k])

\* A thread of T that changed after it was seen was cut after the snapshot.
Covered(T, seen, since) ==
  \A t \in T : seen[t] # lastCut[t] => since < lastCut[t]

\* Whatever a request holds and is outdated, its snapshot is older than the cut;
\* a sub-request's snapshot is no older than that of the request that issued it.
RequestsSound ==
  \A r \in Requests :
    /\ taken[r] <= cutSeq
    /\ Covered(deps[r], saw[r], taken[r])
    /\ offer[r] # Absent => Covered(offer[r].threads, offer[r].saw, taken[r])
    /\ pc[r] = "idle" => deps[r] = {} /\ offer[r] = Absent
    /\ parent[r] # Absent => pc[parent[r]] = "running" /\ taken[parent[r]] <= taken[r]

IInv == TypeOK /\ LogSound /\ PinsSound /\ RequestsSound

=============================================================================
