-------------------------- MODULE ReprCacheProofs --------------------------
(***************************************************************************)
(* Theorems about ReprCache: for any keys, threads and requests, any bound *)
(* of the cut log and of the table of failures, and any sweep watermark.   *)
(* The last part shows that ReprCache implements CoherentCache.            *)
(***************************************************************************)
EXTENDS ReprCache, SequenceTheorems, FiniteSetTheorems, TLAPS

USE DEF Always

-----------------------------------------------------------------------------
(* What the pieces of a step produce *)

\* The minimum of two expiries is an expiry: an answer that meets the expiry of
\* what it was built from stays well formed.
LEMMA MinOfExpiry ==
  ASSUME NEW a \in Expiries, NEW b \in Expiries
  PROVE  MinOf(a, b) \in Expiries
BY DEF MinOf

\* What a request has read, joined with another answer, is a version per thread.
LEMMA JoinedType ==
  ASSUME TypeOK, NEW r \in Requests, NEW T \in SUBSET Threads, NEW seen \in Versions
  PROVE  Joined(r, T, seen) \in Versions
BY DEF TypeOK, Joined, Versions, MinOf

\* A discard leaves each key its entry or none.
LEMMA DiscardedType ==
  ASSUME TypeOK, NEW k \in Keys, NEW offered
  PROVE  /\ Discarded(k, offered) \in [Keys -> Slot \cup {Absent}]
         /\ \A x \in Keys : Discarded(k, offered)[x] \in {entries[x], Absent}
BY DEF TypeOK, Discarded

\* The log after one more cut: the new cut is last; a full log has moved up by
\* one and the horizon is the cut it forgot.
LEMMA LogAfter ==
  ASSUME TypeOK, NEW t \in Threads
  PROVE  /\ CutsAfter(t) \in Seq([thread : Threads, seq : Nat])
         /\ Len(CutsAfter(t)) \in 1 .. CutLog
         /\ CutsAfter(t)[Len(CutsAfter(t))] = Log(t, seq + 1)
         /\ Len(cuts) < CutLog =>
              /\ Len(CutsAfter(t)) = Len(cuts) + 1
              /\ \A i \in 1 .. Len(cuts) : CutsAfter(t)[i] = cuts[i]
              /\ HorizonAfter = horizon
         /\ Len(cuts) >= CutLog =>
              /\ Len(CutsAfter(t)) = Len(cuts) /\ Len(cuts) = CutLog
              /\ \A i \in 1 .. Len(cuts) - 1 : CutsAfter(t)[i] = cuts[i + 1]
              /\ HorizonAfter = cuts[1].seq
<1> DEFINE S == [thread : Threads, seq : Nat]
           old == IF Len(cuts) >= CutLog THEN Tail(cuts) ELSE cuts
<1>1. cuts \in Seq(S) /\ Len(cuts) \in Nat /\ Len(cuts) <= CutLog /\ CutLog >= 1
      /\ CutLog \in Nat
  BY ConstantsAssumption DEF TypeOK
<1>2. Log(t, seq + 1) \in S
  BY DEF Log, TypeOK
<1> HIDE DEF S
<1>3. CASE Len(cuts) >= CutLog
  <2>1. cuts # <<>> /\ Len(cuts) = CutLog
    BY <1>1, <1>3, EmptySeq
  <2>2. /\ Tail(cuts) \in Seq(S) /\ Len(Tail(cuts)) = Len(cuts) - 1
        /\ \A i \in 1 .. Len(Tail(cuts)) : Tail(cuts)[i] = cuts[i + 1]
    BY <1>1, <2>1, HeadTailProperties
  <2>3. /\ Append(Tail(cuts), Log(t, seq + 1)) \in Seq(S)
        /\ Len(Append(Tail(cuts), Log(t, seq + 1))) = Len(cuts)
        /\ \A i \in 1 .. Len(cuts) - 1 :
             Append(Tail(cuts), Log(t, seq + 1))[i] = cuts[i + 1]
        /\ Append(Tail(cuts), Log(t, seq + 1))[Len(cuts)] = Log(t, seq + 1)
    BY <1>1, <1>2, <2>1, <2>2, AppendProperties
  <2> QED
    BY <1>1, <1>3, <2>1, <2>3 DEF CutsAfter, HorizonAfter, S
<1>4. CASE ~(Len(cuts) >= CutLog)
  <2>1. /\ Append(cuts, Log(t, seq + 1)) \in Seq(S)
        /\ Len(Append(cuts, Log(t, seq + 1))) = Len(cuts) + 1
        /\ \A i \in 1 .. Len(cuts) : Append(cuts, Log(t, seq + 1))[i] = cuts[i]
        /\ Append(cuts, Log(t, seq + 1))[Len(cuts) + 1] = Log(t, seq + 1)
    BY <1>1, <1>2, AppendProperties
  <2> QED
    BY <1>1, <1>4, <2>1 DEF CutsAfter, HorizonAfter, S
<1> QED
  BY <1>3, <1>4

\* The horizon stays a number.
LEMMA HorizonType ==
  ASSUME TypeOK
  PROVE  HorizonAfter \in Nat
<1>1. CASE Len(cuts) >= CutLog
  <2>1. cuts # <<>>
    BY <1>1, ConstantsAssumption DEF TypeOK
  <2>2. Head(cuts) \in [thread : Threads, seq : Nat]
    BY <2>1, HeadTailProperties DEF TypeOK
  <2> QED
    BY <1>1, <2>2 DEF HorizonAfter
<1>2. CASE ~(Len(cuts) >= CutLog)
  BY <1>2 DEF HorizonAfter, TypeOK
<1> QED
  BY <1>1, <1>2

\* A sweep leaves a generation per thread.
LEMMA SweptType ==
  ASSUME TypeOK, NEW es, NEW fs
  PROVE  Swept(es, fs) \in Versions
BY DEF TypeOK, Swept, Versions

\* An answer is stored as a well formed entry.
LEMMA SlotOfType ==
  ASSUME TypeOK, NEW r \in Requests
  PROVE  SlotOf(r) \in Slot
BY DEF TypeOK, SlotOf, Slot, Versions

\* A stated failure is stored, if at all, as a well formed slot, valid no longer
\* than what it was computed from.
LEMMA FailStatedType ==
  ASSUME TypeOK, NEW r \in Requests, NEW u \in 0 .. MaxNow, FailStated(r, u),
         key[r] \in Keys
  PROVE  /\ failures' \in [Keys -> FailedSlot \cup {Absent}]
         /\ until' \in [Requests -> Expiries]
<1> DEFINE meets == MinOf(u, until[r])
           new == [threads |-> deps[r],
                   edges |-> [t \in Threads |->
                                IF t \in deps[r] THEN generations[t] ELSE 0],
                   saw |-> saw[r], until |-> meets]
<1>1. u \in Expiries
  BY ConstantsAssumption DEF Expiries
<1>2. meets \in Expiries
  BY <1>1, MinOfExpiry DEF TypeOK
<1>3. new \in FailedSlot
  BY <1>2 DEF TypeOK, FailedSlot, Versions
<1> HIDE DEF new, meets
<1>4. \/ UNCHANGED failures
      \/ \E without : /\ \/ without = failures
                         \/ \E k \in Keys : without = [failures EXCEPT ![k] = Absent]
                      /\ failures' = [without EXCEPT ![key[r]] = new]
  BY DEF FailStated, new, meets
<1>5. failures' \in [Keys -> FailedSlot \cup {Absent}]
  <2>1. CASE UNCHANGED failures
    BY <2>1 DEF TypeOK
  <2>2. ASSUME NEW without,
               \/ without = failures
               \/ \E k \in Keys : without = [failures EXCEPT ![k] = Absent],
               failures' = [without EXCEPT ![key[r]] = new]
        PROVE  failures' \in [Keys -> FailedSlot \cup {Absent}]
    <3>1. without \in [Keys -> FailedSlot \cup {Absent}]
      BY <2>2 DEF TypeOK
    <3> QED
      BY <1>3, <2>2, <3>1
  <2> QED
    BY <1>4, <2>1, <2>2
<1>6. until' \in [Requests -> Expiries]
  BY <1>2 DEF FailStated, TypeOK, meets, Expiries
<1> QED
  BY <1>5, <1>6

-----------------------------------------------------------------------------
(* Type correctness *)

\* A cache that was just built, with no request, is well typed.
LEMMA InitType == Init => TypeOK
<1> SUFFICES ASSUME Init PROVE TypeOK
  OBVIOUS
<1>1. Never \in Expiries
  BY ConstantsAssumption DEF Expiries
<1>2. cuts \in Seq([thread : Threads, seq : Nat]) /\ Len(cuts) = 0
  BY EmptySeq DEF Init
<1>3. Len(cuts) <= CutLog
  BY <1>2, ConstantsAssumption
<1>4. /\ entries \in [Keys -> Slot \cup {Absent}]
      /\ failures \in [Keys -> FailedSlot \cup {Absent}]
      /\ generations \in Versions /\ lastCut \in Versions
      /\ saw \in [Requests -> Versions]
  BY DEF Init, Versions, Unseen
<1> QED
  BY <1>1, <1>2, <1>3, <1>4 DEF Init, TypeOK, Phases

\* What every action of the requests leaves alone or keeps typed.
LEMMA NextType == TypeOK /\ [Next]_vars => TypeOK'
<1> SUFFICES ASSUME TypeOK, [Next]_vars PROVE TypeOK'
  OBVIOUS
<1> USE ConstantsAssumption
<1>0. Never \in Expiries /\ Always \in Expiries /\ Unseen \in Versions
  BY DEF Expiries, Versions, Unseen
<1>1. ASSUME NEW t \in Threads, RecordCut(t) PROVE TypeOK'
  <2>1. /\ CutsAfter(t) \in Seq([thread : Threads, seq : Nat])
        /\ Len(CutsAfter(t)) \in 1 .. CutLog
    BY LogAfter
  <2>a. HorizonAfter \in Nat
    BY HorizonType
  <2>2. generations' \in Versions /\ lastCut' \in Versions /\ seq' \in Nat
    BY <1>1 DEF RecordCut, TypeOK, Versions
  <2> QED
    BY <1>1, <2>1, <2>2, <2>a DEF RecordCut, TypeOK, callVars
<1>2. CASE PublishCut
  BY <1>2 DEF PublishCut, TypeOK, callVars, cacheVars
<1>3. CASE TimePasses
  BY <1>3 DEF TimePasses, TypeOK, callVars, cacheVars
<1>4. ASSUME NEW r \in Requests, NEW k \in Keys, NEW p \in Requests \cup {Absent},
             Begin(r, k, p)
      PROVE  TypeOK'
  BY <1>4 DEF Begin, Snapshot, TypeOK, cacheVars, Phases
<1>5. ASSUME NEW r \in Requests, LookupFailure(r) PROVE TypeOK'
  <2>1. key[r] \in Keys
    BY <1>5 DEF LookupFailure, TypeOK
  <2>2. CASE failures[key[r]] # Absent /\ AnswerFrom(r, failures[key[r]])
             /\ UNCHANGED failures
    <3>1. failures[key[r]] \in FailedSlot
      BY <2>1, <2>2 DEF TypeOK
    <3> QED
      BY <1>5, <2>1, <2>2, <3>1
         DEF LookupFailure, AnswerFrom, TypeOK, FailedSlot, Phases
  <2>3. CASE /\ failures' = [failures EXCEPT ![key[r]] = Absent]
             /\ pc' = [pc EXCEPT ![r] = "looking"]
             /\ UNCHANGED <<deps, saw, until, offer>>
    BY <1>5, <2>1, <2>3 DEF LookupFailure, TypeOK, Phases
  <2> QED
    BY <1>5, <2>2, <2>3 DEF LookupFailure
<1>6. ASSUME NEW r \in Requests, LookupEntry(r) PROVE TypeOK'
  <2>1. key[r] \in Keys /\ entries[key[r]] \in Slot \cup {Absent}
    BY <1>6 DEF LookupEntry, TypeOK
  <2>2. ASSUME NEW offered \in Slot \cup {Absent}, Invoke(r, offered)
        PROVE  /\ pc' \in [Requests -> Phases] /\ deps' \in [Requests -> SUBSET Threads]
               /\ saw' \in [Requests -> Versions] /\ until' \in [Requests -> Expiries]
               /\ offer' \in [Requests -> Slot \cup {Absent}]
               /\ \A x \in Requests : pc'[x] # "idle" => key[x] \in Keys
    <3>1. [t \in Threads |-> IF t = Target[key[r]] THEN lastCut[t] ELSE 0] \in Versions
      BY DEF TypeOK, Versions
    <3>2. {Target[key[r]]} \in SUBSET Threads
      BY <2>1
    <3> QED
      BY <1>0, <2>1, <2>2, <3>1, <3>2 DEF Invoke, TypeOK, Phases
  <2>3. ASSUME entries[key[r]] # Absent, AnswerFrom(r, entries[key[r]])
        PROVE  /\ pc' \in [Requests -> Phases] /\ deps' \in [Requests -> SUBSET Threads]
               /\ saw' \in [Requests -> Versions] /\ until' \in [Requests -> Expiries]
               /\ offer' \in [Requests -> Slot \cup {Absent}]
               /\ \A x \in Requests : pc'[x] # "idle" => key[x] \in Keys
    BY <2>1, <2>3 DEF AnswerFrom, TypeOK, Phases, Slot
  <2>4. entries' \in [Keys -> Slot \cup {Absent}]
    BY <1>6, <2>1 DEF LookupEntry, TypeOK
  <2>5. /\ pc' \in [Requests -> Phases] /\ deps' \in [Requests -> SUBSET Threads]
        /\ saw' \in [Requests -> Versions] /\ until' \in [Requests -> Expiries]
        /\ offer' \in [Requests -> Slot \cup {Absent}]
        /\ \A x \in Requests : pc'[x] # "idle" => key[x] \in Keys
    BY <1>6, <2>1, <2>2, <2>3 DEF LookupEntry
  <2> QED
    BY <1>6, <2>4, <2>5 DEF LookupEntry, TypeOK
<1>7. ASSUME NEW r \in Requests, NEW t \in Threads, Observe(r, t) PROVE TypeOK'
  <2>1. Joined(r, {t}, lastCut) \in Versions
    BY JoinedType DEF TypeOK
  <2> QED
    BY <1>7, <2>1 DEF Observe, TypeOK, cacheVars
<1>8. ASSUME NEW c \in Requests, NEW p \in Requests, Fold(c, p) PROVE TypeOK'
  <2>1. Joined(p, deps[c], saw[c]) \in Versions
    BY JoinedType DEF TypeOK
  <2>2. MinOf(until[p], until[c]) \in Expiries
    BY MinOfExpiry DEF TypeOK
  <2> QED
    BY <1>0, <1>8, <2>1, <2>2 DEF Fold, Gone, TypeOK, cacheVars, Phases
<1>9. ASSUME NEW r \in Requests, Deliver(r) PROVE TypeOK'
  BY <1>0, <1>9 DEF Deliver, Gone, TypeOK, cacheVars, Phases
<1>10. ASSUME NEW r \in Requests, Abandon(r) PROVE TypeOK'
  BY <1>0, <1>10 DEF Abandon, Gone, TypeOK, cacheVars, Phases
<1>11. ASSUME NEW r \in Requests, NEW u \in OwnExpiries, NEW validator \in BOOLEAN,
              NEW kept \in BOOLEAN, Succeed(r, u, validator, kept)
       PROVE  TypeOK'
  <2>1. key[r] \in Keys /\ u \in Expiries
    BY <1>11 DEF Succeed, TypeOK
  <2>2. Discarded(key[r], offer[r]) \in [Keys -> Slot \cup {Absent}]
    BY <2>1, DiscardedType
  <2>3. MinOf(u, until[r]) \in Expiries
    BY <2>1, MinOfExpiry DEF TypeOK
  <2>4. kept => Joined(r, offer[r].threads, offer[r].saw) \in Versions
                /\ offer[r].threads \in SUBSET Threads
    BY <1>11, JoinedType DEF Succeed, TypeOK, Slot
  <2>5. deps' \in [Requests -> SUBSET Threads] /\ saw' \in [Requests -> Versions]
    BY <1>11, <2>4 DEF Succeed, TypeOK
  <2>6. /\ pc' \in [Requests -> Phases] /\ until' \in [Requests -> Expiries]
        /\ offer' \in [Requests -> Slot \cup {Absent}]
        /\ \A x \in Requests : pc'[x] # "idle" => key[x] \in Keys
    BY <1>11, <2>1, <2>3 DEF Succeed, TypeOK, Phases
  <2> QED
    BY <1>11, <2>2, <2>5, <2>6 DEF Succeed, TypeOK
<1>12. ASSUME NEW r \in Requests, Store(r) PROVE TypeOK'
  <2>1. key[r] \in Keys /\ SlotOf(r) \in Slot
    BY <1>12, SlotOfType DEF Store, TypeOK
  <2>2. Swept(entries', failures') \in Versions
    BY SweptType
  <2>3. /\ entries' \in [Keys -> Slot \cup {Absent}]
        /\ failures' \in [Keys -> FailedSlot \cup {Absent}]
        /\ generations' \in Versions /\ tick' \in Nat
    <3>1. CASE UNCHANGED <<entries, failures, generations, tick>>
      BY <3>1 DEF TypeOK
    <3>2. CASE tick' = tick + 1 /\ UNCHANGED <<entries, failures, generations>>
      BY <3>2 DEF TypeOK
    <3>3. ASSUME tick' = tick + 1,
                 failures' = [failures EXCEPT ![key[r]] = Absent],
                 generations' = Swept(entries', failures'),
                 NEW kept \in SUBSET Keys,
                 entries' = [k \in Keys |->
                               IF k \notin kept THEN Absent
                               ELSE IF k = key[r] THEN SlotOf(r) ELSE entries[k]]
          PROVE  /\ entries' \in [Keys -> Slot \cup {Absent}]
                 /\ failures' \in [Keys -> FailedSlot \cup {Absent}]
                 /\ generations' \in Versions /\ tick' \in Nat
      BY <2>1, <2>2, <3>3 DEF TypeOK
    <3> QED
      BY <1>12, <3>1, <3>2, <3>3 DEF Store
  <2> QED
    BY <1>12, <2>1, <2>3 DEF Store, TypeOK, Phases
<1>13. ASSUME NEW r \in Requests, FailMissing(r) PROVE TypeOK'
  <2>1. key[r] \in Keys
    BY <1>13 DEF FailMissing, TypeOK
  <2>2. Discarded(key[r], offer[r]) \in [Keys -> Slot \cup {Absent}]
    BY <2>1, DiscardedType
  <2> QED
    BY <1>13, <2>1, <2>2 DEF FailMissing, TypeOK, Phases
<1>14. ASSUME NEW r \in Requests, FailVolatile(r) PROVE TypeOK'
  <2>1. key[r] \in Keys
    BY <1>14 DEF FailVolatile, TypeOK
  <2>2. Discarded(key[r], offer[r]) \in [Keys -> Slot \cup {Absent}]
    BY <2>1, DiscardedType
  <2> QED
    BY <1>0, <1>14, <2>1, <2>2 DEF FailVolatile, TypeOK, Phases
<1>15. ASSUME NEW r \in Requests, NEW u \in 0 .. MaxNow, FailStated(r, u) PROVE TypeOK'
  <2>1. key[r] \in Keys
    BY <1>15 DEF FailStated, TypeOK
  <2>2. failures' \in [Keys -> FailedSlot \cup {Absent}]
        /\ until' \in [Requests -> Expiries]
    BY <1>15, <2>1, FailStatedType
  <2> QED
    BY <1>15, <2>1, <2>2 DEF FailStated, TypeOK, Phases
<1>16. ASSUME NEW r \in Requests, DiscardAfterFailure(r) PROVE TypeOK'
  <2>1. key[r] \in Keys
    BY <1>16 DEF DiscardAfterFailure, TypeOK
  <2>2. Discarded(key[r], offer[r]) \in [Keys -> Slot \cup {Absent}]
    BY <2>1, DiscardedType
  <2> QED
    BY <1>16, <2>1, <2>2 DEF DiscardAfterFailure, TypeOK, Phases
<1>17. CASE UNCHANGED vars
  BY <1>17 DEF vars, TypeOK, callVars
<1> QED
  BY <1>1, <1>2, <1>3, <1>4, <1>5, <1>6, <1>7, <1>8, <1>9, <1>10, <1>11, <1>12,
     <1>13, <1>14, <1>15, <1>16, <1>17 DEF Next

-----------------------------------------------------------------------------
(* The lost-cut race *)

\* A store the log does not decline has seen the last cut of all its threads:
\* what was outdated would show a cut after the snapshot, which the log either
\* still holds or has moved its horizon past.
LEMMA UndeclinedIsFresh ==
  ASSUME TypeOK, LogSound, NEW T \in SUBSET Threads, NEW seen \in Versions,
         NEW since \in Nat, Covered(T, seen, since), ~CutSince(T, since)
  PROVE  \A t \in T : seen[t] = lastCut[t]
<1> SUFFICES ASSUME NEW t \in T, seen[t] # lastCut[t] PROVE FALSE
  OBVIOUS
<1>1. since < lastCut[t] /\ lastCut[t] \in Nat /\ horizon \in Nat
  BY DEF Covered, TypeOK, Versions
<1>2. ~(since < horizon)
  BY DEF CutSince
<1>3. PICK i \in 1 .. Len(cuts) : cuts[i] = Log(t, lastCut[t])
  BY <1>1, <1>2 DEF LogSound
<1>4. cuts[i].thread = t /\ cuts[i].seq = lastCut[t]
  BY <1>3 DEF Log
<1>5. ASSUME NEW j \in i .. Len(cuts) PROVE cuts[j].seq > since
  <2>1. j \in 1 .. Len(cuts) /\ Len(cuts) \in Nat
    BY DEF TypeOK
  <2>2. cuts[j] \in [thread : Threads, seq : Nat]
    BY <2>1, ElementOfSeq DEF TypeOK
  <2>3. j = i \/ cuts[i].seq < cuts[j].seq
    BY <2>1 DEF LogSound
  <2> QED
    BY <1>1, <1>4, <2>2, <2>3
<1> QED
  BY <1>4, <1>5 DEF CutSince

\* Joining two answers that are covered gives one that is.
LEMMA JoinedCovered ==
  ASSUME TypeOK, NEW r \in Requests, NEW T \in SUBSET Threads, NEW seen \in Versions,
         NEW since, Covered(deps[r], saw[r], since), Covered(T, seen, since)
  PROVE  Covered(deps[r] \cup T, Joined(r, T, seen), since)
BY DEF Covered, Joined, MinOf, TypeOK, Versions

\* An entry whose edges are current has seen every last cut: it covers any
\* snapshot.
LEMMA CurrentIsCovered ==
  ASSUME NEW slot, PinSound(slot), EdgesCurrent(slot), NEW since
  PROVE  Covered(slot.threads, slot.saw, since)
BY DEF PinSound, EdgesCurrent, Covered

\* Dropping entries and failures leaves the others as soundly pinned.
LEMMA PinsKept ==
  ASSUME TypeOK, PinsSound, UNCHANGED <<generations, lastCut>>,
         \A k \in Keys : entries'[k] \in {entries[k], Absent},
         \A k \in Keys : failures'[k] \in {failures[k], Absent}
  PROVE  PinsSound'
BY DEF PinsSound, PinSound

\* The log stays ordered and complete over one more cut.
LEMMA RecordCutLog ==
  ASSUME TypeOK, LogSound, NEW t \in Threads, RecordCut(t)
  PROVE  LogSound'
<1> DEFINE c == CutsAfter(t)
<1>1. /\ cuts' = c /\ seq' = seq + 1 /\ horizon' = HorizonAfter /\ cutSeq' = cutSeq
      /\ lastCut' = [lastCut EXCEPT ![t] = seq + 1]
  BY DEF RecordCut
<1>2. /\ seq \in Nat /\ cutSeq \in Nat /\ horizon \in Nat /\ CutLog \in Nat
      /\ Len(cuts) \in Nat /\ CutLog >= 1
      /\ \A u \in Threads : lastCut[u] \in Nat
  BY ConstantsAssumption DEF TypeOK, Versions
<1>a. \A i \in 1 .. Len(cuts) : cuts[i].seq \in Nat /\ cuts[i].thread \in Threads
  <2>1. ASSUME NEW i \in 1 .. Len(cuts) PROVE cuts[i] \in [thread : Threads, seq : Nat]
    BY ElementOfSeq DEF TypeOK
  <2> QED
    BY <2>1
<1>b. \A i \in 1 .. Len(cuts) :
        /\ horizon < cuts[i].seq /\ cuts[i].seq <= seq
        /\ cuts[i].seq <= lastCut[cuts[i].thread]
  BY DEF LogSound
<1>c. \A i, j \in 1 .. Len(cuts) : i < j => cuts[i].seq < cuts[j].seq
  BY DEF LogSound
<1>3. Log(t, seq + 1).thread = t /\ Log(t, seq + 1).seq = seq + 1
  BY DEF Log
<1>4. /\ Len(c) \in 1 .. CutLog /\ c[Len(c)] = Log(t, seq + 1)
      /\ Len(cuts) < CutLog =>
           /\ Len(c) = Len(cuts) + 1 /\ HorizonAfter = horizon
           /\ \A i \in 1 .. Len(cuts) : c[i] = cuts[i]
      /\ Len(cuts) >= CutLog =>
           /\ Len(c) = Len(cuts) /\ Len(cuts) = CutLog /\ HorizonAfter = cuts[1].seq
           /\ \A i \in 1 .. Len(cuts) - 1 : c[i] = cuts[i + 1]
  BY LogAfter
<1> HIDE DEF c
<1>5. \A u \in Threads : lastCut'[u] = IF u = t THEN seq + 1 ELSE lastCut[u]
  BY <1>1 DEF TypeOK, Versions
<1>d. \A u \in Threads : lastCut[u] <= seq
  BY DEF LogSound
<1>e. \A u \in Threads : lastCut[u] <= lastCut'[u]
  BY <1>2, <1>5, <1>d
<1>6. CASE Len(cuts) < CutLog
  <2>1. ASSUME NEW i \in 1 .. Len(c)
        PROVE  /\ horizon' < c[i].seq /\ c[i].seq <= seq'
               /\ c[i].seq <= lastCut'[c[i].thread]
    <3>1. CASE i = Len(c)
      <4>1. horizon <= seq
        BY DEF LogSound
      <4> QED
        BY <1>1, <1>2, <1>3, <1>4, <1>5, <1>6, <3>1, <4>1
    <3>2. CASE i # Len(c)
      <4>1. i \in 1 .. Len(cuts) /\ c[i] = cuts[i]
        BY <1>2, <1>4, <1>6, <3>2
      <4>2. lastCut[cuts[i].thread] <= lastCut'[cuts[i].thread]
        BY <1>a, <1>e, <4>1
      <4> QED
        BY <1>1, <1>2, <1>4, <1>5, <1>6, <1>a, <1>b, <4>1, <4>2
    <3> QED
      BY <3>1, <3>2
  <2>2. ASSUME NEW i \in 1 .. Len(c), NEW j \in 1 .. Len(c), i < j
        PROVE  c[i].seq < c[j].seq
    <3>1. i \in 1 .. Len(cuts) /\ c[i] = cuts[i]
      BY <1>2, <1>4, <1>6, <2>2
    <3>2. CASE j = Len(c)
      BY <1>2, <1>3, <1>4, <1>a, <1>b, <3>1, <3>2
    <3>3. CASE j # Len(c)
      <4>1. j \in 1 .. Len(cuts) /\ c[j] = cuts[j]
        BY <1>2, <1>4, <1>6, <3>3
      <4> QED
        BY <1>c, <2>2, <3>1, <4>1
    <3> QED
      BY <3>2, <3>3
  <2>3. ASSUME NEW u \in Threads, lastCut'[u] > horizon'
        PROVE  \E i \in 1 .. Len(c) : c[i] = Log(u, lastCut'[u])
    <3>1. CASE u = t
      BY <1>4, <1>5, <3>1
    <3>2. CASE u # t
      <4>1. PICK i \in 1 .. Len(cuts) : cuts[i] = Log(u, lastCut[u])
        BY <1>1, <1>4, <1>5, <1>6, <2>3, <3>2 DEF LogSound
      <4>2. i \in 1 .. Len(c) /\ c[i] = Log(u, lastCut'[u])
        BY <1>2, <1>4, <1>5, <1>6, <3>2, <4>1
      <4> QED
        BY <4>2
    <3> QED
      BY <3>1, <3>2
  <2>4. /\ cutSeq' <= seq' /\ horizon' <= seq'
        /\ \A u \in Threads : lastCut'[u] <= seq'
    BY <1>1, <1>2, <1>4, <1>5, <1>6 DEF LogSound
  <2> QED
    BY <1>1, <2>1, <2>2, <2>3, <2>4 DEF LogSound
<1>7. CASE ~(Len(cuts) < CutLog)
  <2>0. /\ Len(c) = Len(cuts) /\ Len(cuts) = CutLog /\ horizon' = cuts[1].seq
        /\ \A i \in 1 .. Len(cuts) - 1 : c[i] = cuts[i + 1]
        /\ 1 \in 1 .. Len(cuts)
    BY <1>1, <1>2, <1>4, <1>7
  <2>1. ASSUME NEW i \in 1 .. Len(c)
        PROVE  /\ horizon' < c[i].seq /\ c[i].seq <= seq'
               /\ c[i].seq <= lastCut'[c[i].thread]
    <3>1. CASE i = Len(c)
      <4>1. horizon' <= seq
        BY <1>a, <1>b, <2>0
      <4>2. cuts[1].seq \in Nat
        BY <1>a, <2>0
      <4> QED
        BY <1>1, <1>2, <1>3, <1>4, <1>5, <2>0, <3>1, <4>1, <4>2
    <3>2. CASE i # Len(c)
      <4>1. i \in 1 .. Len(cuts) - 1 /\ i + 1 \in 1 .. Len(cuts) /\ 1 < i + 1
        BY <1>2, <2>0, <3>2
      <4>2. c[i] = cuts[i + 1]
        BY <2>0, <4>1
      <4>3. cuts[1].seq < cuts[i + 1].seq
        BY <1>c, <2>0, <4>1
      <4>4. lastCut[cuts[i + 1].thread] <= lastCut'[cuts[i + 1].thread]
            /\ lastCut[cuts[i + 1].thread] \in Nat
            /\ lastCut'[cuts[i + 1].thread] \in Nat
        BY <1>2, <1>5, <1>a, <1>e, <4>1
      <4> QED
        BY <1>1, <1>2, <1>a, <1>b, <2>0, <4>1, <4>2, <4>3, <4>4
    <3> QED
      BY <3>1, <3>2
  <2>2. ASSUME NEW i \in 1 .. Len(c), NEW j \in 1 .. Len(c), i < j
        PROVE  c[i].seq < c[j].seq
    <3>1. /\ i \in 1 .. Len(cuts) - 1 /\ i + 1 \in 1 .. Len(cuts)
          /\ c[i] = cuts[i + 1]
      BY <1>2, <2>0, <2>2
    <3>2. CASE j = Len(c)
      BY <1>2, <1>3, <1>4, <1>a, <1>b, <3>1, <3>2
    <3>3. CASE j # Len(c)
      <4>1. /\ j \in 1 .. Len(cuts) - 1 /\ j + 1 \in 1 .. Len(cuts)
            /\ c[j] = cuts[j + 1] /\ i + 1 < j + 1
        BY <1>2, <2>0, <2>2, <3>3
      <4> QED
        BY <1>c, <3>1, <4>1
    <3> QED
      BY <3>2, <3>3
  <2>3. ASSUME NEW u \in Threads, lastCut'[u] > horizon'
        PROVE  \E i \in 1 .. Len(c) : c[i] = Log(u, lastCut'[u])
    <3>1. CASE u = t
      BY <1>4, <1>5, <3>1
    <3>2. CASE u # t
      <4>a. /\ lastCut[u] > cuts[1].seq /\ lastCut[u] \in Nat
            /\ 1 \in 1 .. Len(cuts)
        BY <1>2, <1>5, <1>a, <2>0, <2>3, <3>2
      <4>b. horizon < cuts[1].seq /\ cuts[1].seq \in Nat /\ horizon \in Nat
        BY <1>2, <1>a, <1>b, <4>a
      <4>0. lastCut[u] > horizon
        BY <4>a, <4>b
      <4>1. PICK i \in 1 .. Len(cuts) : cuts[i] = Log(u, lastCut[u])
        BY <4>0 DEF LogSound
      <4>2. i # 1
        BY <1>5, <2>0, <2>3, <3>2, <4>1, <1>2 DEF Log
      <4>3. i - 1 \in 1 .. Len(cuts) - 1 /\ (i - 1) + 1 = i
        BY <1>2, <4>2
      <4>4. c[i - 1] = cuts[i]
        BY <2>0, <4>3
      <4>5. i - 1 \in 1 .. Len(c) /\ c[i - 1] = Log(u, lastCut'[u])
        BY <1>2, <1>5, <2>0, <3>2, <4>1, <4>3, <4>4
      <4> QED
        BY <4>5
    <3> QED
      BY <3>1, <3>2
  <2>4. /\ cutSeq' <= seq' /\ horizon' <= seq'
        /\ \A u \in Threads : lastCut'[u] <= seq'
    BY <1>1, <1>2, <1>5, <1>a, <1>b, <2>0 DEF LogSound
  <2> QED
    BY <1>1, <2>1, <2>2, <2>3, <2>4 DEF LogSound
<1> QED
  BY <1>6, <1>7

\* Pinned holds every thread of every entry and failure.
LEMMA PinnedThreads ==
  ASSUME NEW es, NEW fs, NEW k \in Keys
  PROVE  /\ es[k] # Absent => es[k].threads \subseteq Pinned(es, fs)
         /\ fs[k] # Absent => fs[k].threads \subseteq Pinned(es, fs)
<1>1. ASSUME es[k] # Absent PROVE es[k].threads \subseteq Pinned(es, fs)
  BY <1>1 DEF Pinned
<1>2. ASSUME fs[k] # Absent PROVE fs[k].threads \subseteq Pinned(es, fs)
  BY <1>2 DEF Pinned
<1> QED
  BY <1>1, <1>2

\* A sweep keeps the generation of every thread a kept slot is pinned to.
LEMMA SweptPins ==
  ASSUME TypeOK, NEW es, NEW fs, NEW t \in Pinned(es, fs)
  PROVE  t \in Threads => Swept(es, fs)[t] = generations[t]
BY DEF Swept, TypeOK, Versions

\* Requests other than r keep what they hold.
LEMMA OthersSound ==
  ASSUME RequestsSound, UNCHANGED <<lastCut, cutSeq>>,
         NEW x \in Requests,
         pc'[x] = pc[x], taken'[x] = taken[x], deps'[x] = deps[x],
         saw'[x] = saw[x], offer'[x] = offer[x]
  PROVE  /\ taken'[x] <= cutSeq'
         /\ Covered(deps[x], saw[x], taken[x])'
         /\ offer'[x] # Absent => Covered(offer[x].threads, offer[x].saw, taken[x])'
         /\ pc'[x] = "idle" => deps'[x] = {} /\ offer'[x] = Absent
BY DEF RequestsSound, Covered

\* A step of one request r that keeps its snapshot, and leaves its endpoint only
\* when no sub-request is out, is sound if what r then holds is covered.
LEMMA OneRequestStep ==
  ASSUME TypeOK, RequestsSound, NEW r \in Requests,
         UNCHANGED <<parent, taken, lastCut, cutSeq>>,
         \A x \in Requests \ {r} : /\ pc'[x] = pc[x] /\ deps'[x] = deps[x]
                                   /\ saw'[x] = saw[x] /\ offer'[x] = offer[x],
         pc'[r] = "running" \/ pc[r] # "running" \/ Quiet(r),
         pc'[r] # "idle",
         Covered(deps[r], saw[r], taken[r])',
         offer'[r] # Absent => Covered(offer[r].threads, offer[r].saw, taken[r])'
  PROVE  RequestsSound'
<1>1. ASSUME NEW x \in Requests
      PROVE  /\ taken'[x] <= cutSeq'
             /\ Covered(deps[x], saw[x], taken[x])'
             /\ offer'[x] # Absent =>
                  Covered(offer[x].threads, offer[x].saw, taken[x])'
             /\ pc'[x] = "idle" => deps'[x] = {} /\ offer'[x] = Absent
  <2>1. CASE x = r
    BY <2>1 DEF RequestsSound
  <2>2. CASE x # r
    BY <2>2, OthersSound
  <2> QED
    BY <2>1, <2>2
<1>2. ASSUME NEW x \in Requests, parent'[x] # Absent
      PROVE  pc'[parent'[x]] = "running" /\ taken'[parent'[x]] <= taken'[x]
  <2>1. /\ parent[x] \in Requests /\ pc[parent[x]] = "running"
        /\ taken[parent[x]] <= taken[x]
    BY <1>2 DEF TypeOK, RequestsSound
  <2> QED
    BY <2>1 DEF Quiet
<1> QED
  BY <1>1, <1>2 DEF RequestsSound

\* A slot the cache serves or offers has seen every last cut.
LEMMA CurrentSlotCovered ==
  ASSUME PinsSound, NEW k \in Keys, NEW since
  PROVE  /\ entries[k] # Absent /\ EdgesCurrent(entries[k]) =>
              Covered(entries[k].threads, entries[k].saw, since)
         /\ failures[k] # Absent /\ EdgesCurrent(failures[k]) =>
              Covered(failures[k].threads, failures[k].saw, since)
BY CurrentIsCovered DEF PinsSound

\* A step that changes nothing r hangs from, and at most gives up its offer.
LEMMA SamePossessions ==
  ASSUME TypeOK, RequestsSound, NEW r \in Requests,
         UNCHANGED <<parent, taken, lastCut, cutSeq, deps, saw>>,
         offer' = offer \/ offer' = [offer EXCEPT ![r] = Absent],
         NEW phase \in {"answered", "discarding"}, pc' = [pc EXCEPT ![r] = phase],
         pc[r] # "running" \/ Quiet(r)
  PROVE  RequestsSound'
<1>1. /\ \A x \in Requests \ {r} : pc'[x] = pc[x] /\ offer'[x] = offer[x]
      /\ pc'[r] # "idle"
      /\ offer'[r] = offer[r] \/ offer'[r] = Absent
  BY DEF TypeOK
<1>2. Covered(deps[r], saw[r], taken[r])'
  BY DEF RequestsSound, Covered
<1>3. offer'[r] # Absent => Covered(offer[r].threads, offer[r].saw, taken[r])'
  BY <1>1 DEF RequestsSound, Covered
<1> QED
  BY <1>1, <1>2, <1>3, OneRequestStep

\* The frame of r is gone and nobody names r as the request that issued it.
Forgotten(r, parents) ==
  /\ UNCHANGED <<lastCut, cutSeq>>
  /\ pc' = [pc EXCEPT ![r] = "idle"]
  /\ deps' = [deps EXCEPT ![r] = {}]
  /\ saw' = [saw EXCEPT ![r] = Unseen]
  /\ taken' = [taken EXCEPT ![r] = 0]
  /\ offer' = [offer EXCEPT ![r] = Absent]
  /\ parent' = parents
  /\ \A x \in Requests : parents[x] # Absent => parents[x] = parent[x] /\ x # r
                                                /\ parent[x] # r

\* A request whose frame goes away leaves the others' bounds as they were; its
\* sub-requests have no issuer from then on.
LEMMA ForgottenSound ==
  ASSUME TypeOK, RequestsSound, NEW r \in Requests, NEW parents,
         Forgotten(r, parents)
  PROVE  RequestsSound'
<1>1. ASSUME NEW x \in Requests
      PROVE  /\ taken'[x] <= cutSeq'
             /\ Covered(deps[x], saw[x], taken[x])'
             /\ offer'[x] # Absent =>
                  Covered(offer[x].threads, offer[x].saw, taken[x])'
             /\ pc'[x] = "idle" => deps'[x] = {} /\ offer'[x] = Absent
  <2>1. CASE x = r
    BY <2>1 DEF Forgotten, Covered, TypeOK
  <2>2. CASE x # r
    <3>1. /\ pc'[x] = pc[x] /\ taken'[x] = taken[x] /\ deps'[x] = deps[x]
          /\ saw'[x] = saw[x] /\ offer'[x] = offer[x] /\ UNCHANGED <<lastCut, cutSeq>>
      BY <2>2 DEF Forgotten, TypeOK
    <3> QED
      BY <3>1, OthersSound
  <2> QED
    BY <2>1, <2>2
<1>2. ASSUME NEW x \in Requests, parent'[x] # Absent
      PROVE  pc'[parent'[x]] = "running" /\ taken'[parent'[x]] <= taken'[x]
  <2>1. /\ parent'[x] = parent[x] /\ x # r /\ parent[x] # r
        /\ parent[x] \in Requests /\ pc[parent[x]] = "running"
        /\ taken[parent[x]] <= taken[x]
    BY <1>2 DEF Forgotten, TypeOK, RequestsSound
  <2> QED
    BY <2>1 DEF Forgotten, TypeOK
<1> QED
  BY <1>1, <1>2 DEF RequestsSound

\* The inductive step for the requests.
LEMMA NextRequests == IInv /\ TypeOK' /\ [Next]_vars => RequestsSound'
<1> SUFFICES ASSUME IInv, TypeOK', [Next]_vars PROVE RequestsSound'
  OBVIOUS
<1> USE ConstantsAssumption
<1>0. TypeOK /\ LogSound /\ PinsSound /\ RequestsSound
  BY DEF IInv
<1>1. ASSUME NEW t \in Threads, RecordCut(t) PROVE RequestsSound'
  <2> SUFFICES ASSUME NEW r \in Requests
      PROVE  /\ taken[r] <= cutSeq
             /\ Covered(deps[r], saw[r], taken[r])'
             /\ offer[r] # Absent => Covered(offer[r].threads, offer[r].saw, taken[r])'
             /\ pc[r] = "idle" => deps[r] = {} /\ offer[r] = Absent
             /\ parent[r] # Absent =>
                  pc[parent[r]] = "running" /\ taken[parent[r]] <= taken[r]
    BY <1>1 DEF RecordCut, RequestsSound, callVars
  <2>1. UNCHANGED <<deps, saw, taken, offer>>
    BY <1>1 DEF RecordCut, callVars
  <2>2. Covered(deps[r], saw[r], taken[r])'
    <3>1. /\ deps[r] \in SUBSET Threads /\ saw[r] \in Versions /\ taken[r] \in Nat
          /\ taken[r] <= cutSeq /\ Covered(deps[r], saw[r], taken[r])
      BY <1>0 DEF TypeOK, RequestsSound
    <3>2. Covered(deps[r], saw[r], taken[r])' <=>
            \A u \in deps[r] : saw[r][u] # lastCut'[u] => taken[r] < lastCut'[u]
      BY <2>1 DEF Covered
    <3>3. \A u \in Threads : lastCut'[u] = IF u = t THEN seq + 1 ELSE lastCut[u]
      BY <1>0, <1>1 DEF RecordCut, TypeOK, Versions
    <3>4. taken[r] < seq + 1
      <4>1. seq \in Nat /\ cutSeq \in Nat /\ cutSeq <= seq
        BY <1>0 DEF TypeOK, LogSound
      <4> QED
        BY <3>1, <4>1
    <3> QED
      BY <3>1, <3>2, <3>3, <3>4 DEF Covered
  <2>3. ASSUME offer[r] # Absent
        PROVE  Covered(offer[r].threads, offer[r].saw, taken[r])'
    <3>1. /\ offer[r].threads \in SUBSET Threads /\ offer[r].saw \in Versions
          /\ taken[r] \in Nat /\ taken[r] <= cutSeq
          /\ Covered(offer[r].threads, offer[r].saw, taken[r])
      BY <1>0, <2>3 DEF TypeOK, RequestsSound, Slot
    <3>2. Covered(offer[r].threads, offer[r].saw, taken[r])' <=>
            \A u \in offer[r].threads :
              offer[r].saw[u] # lastCut'[u] => taken[r] < lastCut'[u]
      BY <2>1 DEF Covered
    <3>3. \A u \in Threads : lastCut'[u] = IF u = t THEN seq + 1 ELSE lastCut[u]
      BY <1>0, <1>1 DEF RecordCut, TypeOK, Versions
    <3>4. taken[r] < seq + 1
      <4>1. seq \in Nat /\ cutSeq \in Nat /\ cutSeq <= seq
        BY <1>0 DEF TypeOK, LogSound
      <4> QED
        BY <3>1, <4>1
    <3> QED
      BY <3>1, <3>2, <3>3, <3>4 DEF Covered
  <2> QED
    BY <1>0, <2>2, <2>3 DEF RequestsSound
<1>2. CASE PublishCut
  <2>1. cutSeq' = seq /\ cutSeq <= seq /\ cutSeq \in Nat /\ seq \in Nat
        /\ UNCHANGED <<lastCut, callVars>>
    BY <1>0, <1>2 DEF PublishCut, LogSound, TypeOK
  <2> QED
    BY <1>0, <2>1 DEF RequestsSound, Covered, callVars, TypeOK
<1>3. CASE TimePasses
  BY <1>0, <1>3 DEF TimePasses, RequestsSound, Covered, callVars
<1>4. ASSUME NEW r \in Requests, NEW k \in Keys, NEW p \in Requests \cup {Absent},
             Begin(r, k, p)
      PROVE  RequestsSound'
  <2>1. /\ deps[r] = {} /\ offer[r] = Absent /\ pc[r] = "idle"
        /\ UNCHANGED <<lastCut, cutSeq, deps, saw, offer>>
        /\ pc' = [pc EXCEPT ![r] = "begun"]
        /\ parent' = [parent EXCEPT ![r] = p]
        /\ taken' = [taken EXCEPT ![r] = cutSeq]
        /\ p # Absent => pc[p] = "running"
    BY <1>0, <1>4 DEF Begin, Snapshot, RequestsSound
  <2>a. /\ taken'[r] = cutSeq /\ cutSeq \in Nat
        /\ \A x \in Requests \ {r} : taken'[x] = taken[x] /\ pc'[x] = pc[x]
    BY <1>0, <2>1 DEF TypeOK
  <2>2. ASSUME NEW x \in Requests PROVE taken'[x] <= cutSeq
    <3>1. CASE x = r
      BY <2>a, <3>1
    <3>2. CASE x # r
      BY <1>0, <2>a, <3>2 DEF RequestsSound
    <3> QED
      BY <3>1, <3>2
  <2>3. ASSUME NEW x \in Requests
        PROVE  /\ Covered(deps[x], saw[x], taken[x])'
               /\ offer[x] # Absent =>
                    Covered(offer[x].threads, offer[x].saw, taken[x])'
               /\ pc'[x] = "idle" => deps[x] = {} /\ offer[x] = Absent
    <3>1. CASE x = r
      BY <2>1, <3>1 DEF Covered
    <3>2. CASE x # r
      <4>1. /\ Covered(deps[x], saw[x], taken[x])
            /\ offer[x] # Absent =>
                 Covered(offer[x].threads, offer[x].saw, taken[x])
            /\ pc[x] = "idle" => deps[x] = {} /\ offer[x] = Absent
        BY <1>0 DEF RequestsSound
      <4> QED
        BY <2>1, <2>a, <3>2, <4>1 DEF Covered
    <3> QED
      BY <3>1, <3>2
  <2>4. ASSUME NEW x \in Requests, parent'[x] # Absent
        PROVE  pc'[parent'[x]] = "running" /\ taken'[parent'[x]] <= taken'[x]
    <3>1. CASE x = r
      <4>1. parent'[x] = p /\ p \in Requests /\ p # r /\ pc[p] = "running"
            /\ taken'[x] = cutSeq /\ pc'[p] = "running"
        BY <1>0, <2>1, <2>4, <3>1 DEF TypeOK
      <4> QED
        BY <2>2, <4>1
    <3>2. CASE x # r
      <4>1. /\ parent'[x] = parent[x] /\ parent[x] \in Requests
            /\ pc[parent[x]] = "running" /\ taken[parent[x]] <= taken[x]
        BY <1>0, <2>1, <2>4, <3>2 DEF TypeOK, RequestsSound
      <4> QED
        BY <1>0, <2>1, <3>2, <4>1 DEF TypeOK
    <3> QED
      BY <3>1, <3>2
  <2> QED
    BY <2>1, <2>2, <2>3, <2>4 DEF RequestsSound
<1>5. ASSUME NEW r \in Requests, LookupFailure(r) PROVE RequestsSound'
  <2>1. key[r] \in Keys /\ taken[r] \in Nat
    BY <1>0, <1>5 DEF LookupFailure, TypeOK
  <2>2. Covered(deps[r], saw[r], taken[r])'
    <3>1. CASE failures[key[r]] # Absent /\ FailureLive(failures[key[r]], started[r])
               /\ AnswerFrom(r, failures[key[r]])
      <4>1. Covered(failures[key[r]].threads, failures[key[r]].saw, taken[r])
        BY <1>0, <2>1, <3>1, CurrentSlotCovered DEF FailureLive
      <4>2. deps'[r] = failures[key[r]].threads /\ saw'[r] = failures[key[r]].saw
            /\ UNCHANGED <<taken, lastCut>>
        BY <1>0, <1>5, <3>1 DEF AnswerFrom, TypeOK, LookupFailure
      <4> QED
        BY <4>1, <4>2 DEF Covered
    <3>2. CASE UNCHANGED <<deps, saw, until, offer>>
      BY <1>0, <1>5, <3>2 DEF LookupFailure, RequestsSound, Covered
    <3> QED
      BY <1>5, <3>1, <3>2 DEF LookupFailure
  <2>3. /\ UNCHANGED <<parent, taken, lastCut, cutSeq, offer>>
        /\ \A x \in Requests \ {r} :
             pc'[x] = pc[x] /\ deps'[x] = deps[x] /\ saw'[x] = saw[x]
        /\ pc[r] = "begun" /\ pc'[r] # "idle"
    BY <1>0, <1>5 DEF LookupFailure, AnswerFrom, TypeOK
  <2>4. offer'[r] # Absent => Covered(offer[r].threads, offer[r].saw, taken[r])'
    BY <1>0, <2>3 DEF RequestsSound, Covered
  <2> QED
    BY <1>0, <2>2, <2>3, <2>4, OneRequestStep
<1>6. ASSUME NEW r \in Requests, LookupEntry(r) PROVE RequestsSound'
  <2> DEFINE slot == entries[key[r]]
  <2>1. key[r] \in Keys /\ taken[r] \in Nat
        /\ UNCHANGED <<parent, taken, lastCut, cutSeq>> /\ pc[r] = "looking"
    BY <1>0, <1>6 DEF LookupEntry, TypeOK
  <2>2. slot # Absent /\ EdgesCurrent(slot) =>
          Covered(slot.threads, slot.saw, taken[r])
    BY <1>0, <2>1, CurrentSlotCovered
  <2>3. ASSUME NEW offered, Invoke(r, offered),
               offered # Absent => Covered(offered.threads, offered.saw, taken[r])
        PROVE  RequestsSound'
    <3>1. /\ pc'[r] = "running" /\ deps'[r] = {Target[key[r]]}
          /\ saw'[r] = [t \in Threads |-> IF t = Target[key[r]] THEN lastCut[t] ELSE 0]
          /\ offer'[r] = offered
          /\ \A x \in Requests \ {r} : /\ pc'[x] = pc[x] /\ deps'[x] = deps[x]
                                       /\ saw'[x] = saw[x] /\ offer'[x] = offer[x]
      BY <1>0, <2>3 DEF Invoke, TypeOK
    <3>2. Target[key[r]] \in Threads
      BY <2>1
    <3>3. Covered(deps[r], saw[r], taken[r])'
      BY <2>1, <3>1, <3>2 DEF Covered
    <3>4. offer'[r] # Absent => Covered(offer[r].threads, offer[r].saw, taken[r])'
      BY <2>1, <2>3, <3>1 DEF Covered
    <3> QED
      BY <1>0, <2>1, <3>1, <3>3, <3>4, OneRequestStep
  <2>4. CASE slot # Absent /\ EntryLive(slot, started[r]) /\ AnswerFrom(r, slot)
    <3>1. /\ pc'[r] = "answered" /\ deps'[r] = slot.threads /\ saw'[r] = slot.saw
          /\ UNCHANGED offer
          /\ \A x \in Requests \ {r} : /\ pc'[x] = pc[x] /\ deps'[x] = deps[x]
                                       /\ saw'[x] = saw[x] /\ offer'[x] = offer[x]
      BY <1>0, <2>4 DEF AnswerFrom, TypeOK
    <3>2. Covered(deps[r], saw[r], taken[r])'
      BY <2>1, <2>2, <2>4, <3>1 DEF Covered, EntryLive
    <3>3. offer'[r] # Absent => Covered(offer[r].threads, offer[r].saw, taken[r])'
      BY <1>0, <2>1, <3>1 DEF RequestsSound, Covered
    <3> QED
      BY <1>0, <2>1, <3>1, <3>2, <3>3, OneRequestStep
  <2>5. CASE Invoke(r, Absent)
    BY <2>3, <2>5
  <2>6. CASE slot # Absent /\ EntryExpired(slot, started[r]) /\ Invoke(r, slot)
    BY <2>2, <2>3, <2>6 DEF EntryExpired
  <2> QED
    BY <1>6, <2>4, <2>5, <2>6 DEF LookupEntry
<1>7. ASSUME NEW r \in Requests, NEW t \in Threads, Observe(r, t) PROVE RequestsSound'
  <2>1. /\ UNCHANGED <<parent, taken, lastCut, cutSeq, pc, offer>>
        /\ pc[r] = "running"
        /\ deps'[r] = deps[r] \cup {t} /\ saw'[r] = Joined(r, {t}, lastCut)
        /\ \A x \in Requests \ {r} : deps'[x] = deps[x] /\ saw'[x] = saw[x]
    BY <1>0, <1>7 DEF Observe, TypeOK
  <2>2. Covered({t}, lastCut, taken[r]) /\ Covered(deps[r], saw[r], taken[r])
    BY <1>0 DEF Covered, RequestsSound
  <2>3. Covered(deps[r] \cup {t}, Joined(r, {t}, lastCut), taken[r])
    BY <1>0, <2>2, JoinedCovered DEF TypeOK
  <2>4. Covered(deps[r], saw[r], taken[r])'
    BY <2>1, <2>3 DEF Covered
  <2>5. offer'[r] # Absent => Covered(offer[r].threads, offer[r].saw, taken[r])'
    BY <1>0, <2>1 DEF RequestsSound, Covered
  <2> QED
    BY <1>0, <2>1, <2>4, <2>5, OneRequestStep
<1>8. ASSUME NEW c \in Requests, NEW p \in Requests, Fold(c, p) PROVE RequestsSound'
  <2>1. /\ c # p /\ pc[c] = "answered" /\ pc[p] = "running" /\ parent[c] = p
        /\ UNCHANGED <<lastCut, cutSeq>>
        /\ pc' = [pc EXCEPT ![c] = "idle"] /\ parent' = [parent EXCEPT ![c] = Absent]
        /\ taken' = [taken EXCEPT ![c] = 0] /\ offer' = [offer EXCEPT ![c] = Absent]
        /\ deps'[p] = deps[p] \cup deps[c] /\ deps'[c] = {}
        /\ saw'[p] = Joined(p, deps[c], saw[c])
        /\ \A x \in Requests \ {c, p} : deps'[x] = deps[x] /\ saw'[x] = saw[x]
    BY <1>0, <1>8 DEF Fold, Gone, TypeOK
  <2>2. taken[p] <= taken[c] /\ taken[p] \in Nat /\ taken[c] \in Nat
        /\ p # Absent
    BY <1>0, <2>1 DEF TypeOK, RequestsSound
  <2>3. Covered(deps[p], saw[p], taken[p]) /\ Covered(deps[c], saw[c], taken[p])
    <3>1. \A t \in deps[c] : lastCut[t] \in Nat
      BY <1>0 DEF TypeOK, Versions
    <3> QED
      BY <1>0, <2>2, <3>1 DEF RequestsSound, Covered
  <2>4. Covered(deps[p] \cup deps[c], Joined(p, deps[c], saw[c]), taken[p])
    BY <1>0, <2>3, JoinedCovered DEF TypeOK
  <2>5. ASSUME NEW x \in Requests
        PROVE  /\ taken'[x] <= cutSeq'
               /\ Covered(deps[x], saw[x], taken[x])'
               /\ offer'[x] # Absent =>
                    Covered(offer[x].threads, offer[x].saw, taken[x])'
               /\ pc'[x] = "idle" => deps'[x] = {} /\ offer'[x] = Absent
    <3>1. CASE x = c
      <4>1. taken'[c] = 0 /\ deps'[c] = {} /\ pc'[c] = "idle" /\ offer'[c] = Absent
        BY <1>0, <2>1 DEF TypeOK
      <4>2. 0 <= cutSeq'
        BY <1>0 DEF TypeOK
      <4>3. Covered(deps[c], saw[c], taken[c])'
        BY <4>1 DEF Covered
      <4> QED
        BY <3>1, <4>1, <4>2, <4>3
    <3>2. CASE x = p
      <4>1. taken'[p] = taken[p] /\ pc'[p] = "running" /\ offer'[p] = offer[p]
        BY <1>0, <2>1 DEF TypeOK
      <4> QED
        BY <1>0, <2>1, <2>4, <3>2, <4>1 DEF Covered, RequestsSound
    <3>3. CASE x # c /\ x # p
      <4>1. /\ pc'[x] = pc[x] /\ taken'[x] = taken[x] /\ deps'[x] = deps[x]
            /\ saw'[x] = saw[x] /\ offer'[x] = offer[x]
        BY <1>0, <2>1, <3>3 DEF TypeOK
      <4> QED
        BY <1>0, <2>1, <4>1, OthersSound
    <3> QED
      BY <3>1, <3>2, <3>3
  <2>6. ASSUME NEW x \in Requests, parent'[x] # Absent
        PROVE  pc'[parent'[x]] = "running" /\ taken'[parent'[x]] <= taken'[x]
    <3>1. x # c /\ parent'[x] = parent[x] /\ parent[x] \in Requests
          /\ pc[parent[x]] = "running" /\ taken[parent[x]] <= taken[x]
      BY <1>0, <2>1, <2>6 DEF TypeOK, RequestsSound
    <3> QED
      BY <1>0, <2>1, <3>1 DEF TypeOK
  <2> QED
    BY <2>5, <2>6 DEF RequestsSound
<1>9. ASSUME NEW r \in Requests, Deliver(r) PROVE RequestsSound'
  <2>1. Forgotten(r, parent)
    BY <1>0, <1>9 DEF Deliver, Gone, Forgotten, TypeOK, RequestsSound
  <2> QED
    BY <1>0, <2>1, ForgottenSound
<1>10. ASSUME NEW r \in Requests, Abandon(r) PROVE RequestsSound'
  <2>1. Forgotten(r, parent')
    BY <1>0, <1>10 DEF Abandon, Gone, Forgotten, TypeOK, RequestsSound
  <2> QED
    BY <1>0, <2>1, ForgottenSound
<1>11. ASSUME NEW r \in Requests, NEW u \in OwnExpiries, NEW validator \in BOOLEAN,
              NEW kept \in BOOLEAN, Succeed(r, u, validator, kept)
       PROVE  RequestsSound'
  <2>1. /\ UNCHANGED <<parent, taken, lastCut, cutSeq>> /\ Quiet(r)
        /\ pc'[r] # "idle" /\ offer'[r] = Absent
        /\ deps'[r] = IF kept THEN deps[r] \cup offer[r].threads ELSE deps[r]
        /\ saw'[r] = IF kept THEN Joined(r, offer[r].threads, offer[r].saw) ELSE saw[r]
        /\ \A x \in Requests \ {r} : /\ pc'[x] = pc[x] /\ deps'[x] = deps[x]
                                     /\ saw'[x] = saw[x] /\ offer'[x] = offer[x]
    BY <1>0, <1>11 DEF Succeed, TypeOK
  <2>2. Covered(deps[r], saw[r], taken[r])
    BY <1>0 DEF RequestsSound
  <2>3. ASSUME kept = TRUE
        PROVE  Covered(deps[r] \cup offer[r].threads,
                       Joined(r, offer[r].threads, offer[r].saw), taken[r])
    <3>a. offer[r] # Absent
      BY <1>11, <2>3 DEF Succeed
    <3>b. offer[r] \in Slot
      BY <1>0, <3>a DEF TypeOK
    <3>1. offer[r] # Absent /\ offer[r].threads \in SUBSET Threads
          /\ offer[r].saw \in Versions
      BY <3>a, <3>b DEF Slot
    <3>2. Covered(offer[r].threads, offer[r].saw, taken[r])
      BY <1>0, <3>1 DEF RequestsSound
    <3> QED
      BY <1>0, <2>2, <3>1, <3>2, JoinedCovered
  <2>4. Covered(deps[r], saw[r], taken[r])'
    BY <2>1, <2>2, <2>3 DEF Covered
  <2> QED
    BY <1>0, <2>1, <2>4, OneRequestStep
<1>12. ASSUME NEW r \in Requests, Store(r) PROVE RequestsSound'
  <2>1. /\ UNCHANGED <<parent, taken, lastCut, cutSeq, deps, saw, offer>>
        /\ pc[r] # "running" /\ pc' = [pc EXCEPT ![r] = "answered"]
    BY <1>12 DEF Store
  <2> QED
    BY <1>0, <2>1, SamePossessions
<1>13. ASSUME NEW r \in Requests, FailMissing(r) PROVE RequestsSound'
  <2>1. /\ UNCHANGED <<parent, taken, lastCut, cutSeq, deps, saw>> /\ Quiet(r)
        /\ offer' = [offer EXCEPT ![r] = Absent]
        /\ pc' = [pc EXCEPT ![r] = "answered"]
    BY <1>13 DEF FailMissing
  <2> QED
    BY <1>0, <2>1, SamePossessions
<1>14. ASSUME NEW r \in Requests, FailVolatile(r) PROVE RequestsSound'
  <2>1. /\ UNCHANGED <<parent, taken, lastCut, cutSeq, deps, saw>> /\ Quiet(r)
        /\ offer' = [offer EXCEPT ![r] = Absent]
        /\ pc' = [pc EXCEPT ![r] = "answered"]
    BY <1>14 DEF FailVolatile
  <2> QED
    BY <1>0, <2>1, SamePossessions
<1>15. ASSUME NEW r \in Requests, NEW u \in 0 .. MaxNow, FailStated(r, u)
       PROVE  RequestsSound'
  <2>1. UNCHANGED <<parent, taken, lastCut, cutSeq, deps, saw, offer>> /\ Quiet(r)
    BY <1>15 DEF FailStated
  <2>2. CASE pc' = [pc EXCEPT ![r] = "answered"]
    BY <1>0, <2>1, <2>2, SamePossessions
  <2>3. CASE pc' = [pc EXCEPT ![r] = "discarding"]
    BY <1>0, <2>1, <2>3, SamePossessions
  <2> QED
    BY <1>15, <2>2, <2>3 DEF FailStated
<1>16. ASSUME NEW r \in Requests, DiscardAfterFailure(r) PROVE RequestsSound'
  <2>1. /\ UNCHANGED <<parent, taken, lastCut, cutSeq, deps, saw>>
        /\ pc[r] # "running"
        /\ offer' = [offer EXCEPT ![r] = Absent]
        /\ pc' = [pc EXCEPT ![r] = "answered"]
    BY <1>16 DEF DiscardAfterFailure
  <2> QED
    BY <1>0, <2>1, SamePossessions
<1>17. CASE UNCHANGED vars
  BY <1>0, <1>17 DEF vars, callVars, RequestsSound, Covered
<1> QED
  BY <1>1, <1>2, <1>3, <1>4, <1>5, <1>6, <1>7, <1>8, <1>9, <1>10, <1>11, <1>12,
     <1>13, <1>14, <1>15, <1>16, <1>17 DEF Next

\* An answer that is not declined is pinned soundly where it is stored: it has
\* seen every last cut, and its pins are today's generations.
LEMMA StoredPins ==
  ASSUME TypeOK, LogSound, RequestsSound, NEW r \in Requests,
         ~CutSince(deps[r], taken[r])
  PROVE  \A t \in deps[r] : saw[r][t] = lastCut[t]
<1>1. /\ deps[r] \in SUBSET Threads /\ saw[r] \in Versions /\ taken[r] \in Nat
      /\ Covered(deps[r], saw[r], taken[r])
  BY DEF TypeOK, RequestsSound
<1> QED
  BY <1>1, UndeclinedIsFresh

\* A store keeps every slot soundly pinned: the new one is, and the sweep takes
\* no generation from a thread that a slot which stays is pinned to.
LEMMA StorePins ==
  ASSUME IInv, NEW r \in Requests, Store(r)
  PROVE  PinsSound'
<1>0. TypeOK /\ LogSound /\ PinsSound /\ RequestsSound
  BY DEF IInv
<1>1. key[r] \in Keys /\ UNCHANGED lastCut
  BY <1>0 DEF Store, TypeOK
<1>2. CASE UNCHANGED <<entries, failures, generations>>
  BY <1>0, <1>1, <1>2, PinsKept
<1>3. ASSUME ~CutSince(deps[r], taken[r]),
             failures' = [failures EXCEPT ![key[r]] = Absent],
             generations' = Swept(entries', failures'),
             NEW kept \in SUBSET Keys,
             entries' = [k \in Keys |->
                           IF k \notin kept THEN Absent
                           ELSE IF k = key[r] THEN SlotOf(r) ELSE entries[k]]
      PROVE  PinsSound'
  <2>1. /\ SlotOf(r).threads = deps[r] /\ SlotOf(r).saw = saw[r]
        /\ \A t \in deps[r] : SlotOf(r).edges[t] = generations[t]
        /\ deps[r] \in SUBSET Threads
    BY <1>0 DEF SlotOf, TypeOK
  <2>2. PinSound(SlotOf(r))
    <3>1. \A t \in deps[r] : generations[t] \in Nat
      BY <1>0 DEF TypeOK, Versions
    <3> QED
      BY <1>0, <1>3, <2>1, <3>1, StoredPins DEF PinSound
  <2>3. ASSUME NEW k \in Keys, entries'[k] # Absent
        PROVE  /\ PinSound(entries'[k]) /\ entries'[k].threads \subseteq Threads
               /\ entries'[k].threads \subseteq Pinned(entries', failures')
    <3>1. entries'[k] = SlotOf(r) \/ entries'[k] = entries[k]
      BY <1>3, <2>3
    <3>2. PinSound(entries'[k]) /\ entries'[k].threads \subseteq Threads
      BY <1>0, <2>1, <2>2, <2>3, <3>1 DEF PinsSound, TypeOK, Slot
    <3> QED
      BY <2>3, <3>2, PinnedThreads
  <2>4. ASSUME NEW k \in Keys, failures'[k] # Absent
        PROVE  /\ PinSound(failures'[k]) /\ failures'[k].threads \subseteq Threads
               /\ failures'[k].threads \subseteq Pinned(entries', failures')
    <3>1. failures'[k] = failures[k]
      BY <1>0, <1>3, <2>4 DEF TypeOK
    <3>2. PinSound(failures'[k]) /\ failures'[k].threads \subseteq Threads
      BY <1>0, <2>4, <3>1 DEF PinsSound, TypeOK, FailedSlot
    <3> QED
      BY <2>4, <3>2, PinnedThreads
  <2>5. \A t \in Pinned(entries', failures') :
          t \in Threads => generations'[t] = generations[t]
    BY <1>0, <1>3, SweptPins
  <2>6. ASSUME NEW slot, PinSound(slot), slot.threads \subseteq Threads,
               slot.threads \subseteq Pinned(entries', failures')
        PROVE  \A t \in slot.threads :
                 /\ slot.edges[t] <= generations'[t]
                 /\ slot.edges[t] = generations'[t] => slot.saw[t] = lastCut'[t]
    BY <1>1, <2>5, <2>6 DEF PinSound
  <2> QED
    BY <2>3, <2>4, <2>6 DEF PinsSound, PinSound
<1> QED
  BY <1>2, <1>3 DEF Store

\* Caching a stated failure keeps every slot soundly pinned.
LEMMA FailStatedPins ==
  ASSUME IInv, NEW r \in Requests, NEW u \in 0 .. MaxNow, FailStated(r, u)
  PROVE  PinsSound'
<1>0. TypeOK /\ LogSound /\ PinsSound /\ RequestsSound
  BY DEF IInv
<1> DEFINE new == [threads |-> deps[r],
                   edges |-> [t \in Threads |->
                                IF t \in deps[r] THEN generations[t] ELSE 0],
                   saw |-> saw[r], until |-> MinOf(u, until[r])]
<1>1. key[r] \in Keys /\ UNCHANGED <<entries, generations, lastCut>>
  BY <1>0 DEF FailStated, TypeOK
<1>2. CASE UNCHANGED failures
  BY <1>0, <1>1, <1>2, PinsKept
<1>3. ASSUME ~CutSince(deps[r], taken[r]),
             NEW without \in {[failures EXCEPT ![k] = Absent] : k \in Keys}
                               \cup {failures},
             failures' = [without EXCEPT ![key[r]] = new]
      PROVE  PinsSound'
  <2>1. PinSound(new)
    <3>1. \A t \in deps[r] : generations[t] \in Nat /\ t \in Threads
      BY <1>0 DEF TypeOK, Versions
    <3> QED
      BY <1>0, <1>3, <3>1, StoredPins DEF PinSound
  <2> HIDE DEF new
  <2>2. \A k \in Keys : failures'[k] \in {failures[k], Absent, new}
    BY <1>0, <1>1, <1>3 DEF TypeOK
  <2> QED
    BY <1>0, <1>1, <2>1, <2>2 DEF PinsSound, PinSound
<1> QED
  BY <1>2, <1>3 DEF FailStated

\* A cut moves its thread past every pin.
LEMMA RecordCutPins ==
  ASSUME TypeOK, PinsSound, NEW t \in Threads, RecordCut(t)
  PROVE  PinsSound'
<1>1. /\ UNCHANGED <<entries, failures>>
      /\ \A u \in Threads : /\ generations[u] \in Nat
                            /\ generations'[u] = IF u = t THEN generations[u] + 1
                                                 ELSE generations[u]
                            /\ u # t => lastCut'[u] = lastCut[u]
  BY DEF RecordCut, TypeOK, Versions
<1>2. ASSUME NEW slot \in Slot \cup FailedSlot, PinSound(slot)
      PROVE  \A u \in slot.threads :
               /\ slot.edges[u] <= generations'[u]
               /\ slot.edges[u] = generations'[u] => slot.saw[u] = lastCut'[u]
  <2> SUFFICES ASSUME NEW u \in slot.threads
               PROVE  /\ slot.edges[u] <= generations'[u]
                      /\ slot.edges[u] = generations'[u] => slot.saw[u] = lastCut'[u]
    OBVIOUS
  <2>1. u \in Threads /\ slot.edges[u] \in Nat
    BY DEF Slot, FailedSlot, Versions
  <2>2. slot.edges[u] <= generations[u]
        /\ (slot.edges[u] = generations[u] => slot.saw[u] = lastCut[u])
    BY <1>2 DEF PinSound
  <2> QED
    BY <1>1, <2>1, <2>2
<1>3. \A k \in Keys : /\ entries[k] # Absent => entries[k] \in Slot
                      /\ failures[k] # Absent => failures[k] \in FailedSlot
  BY DEF TypeOK
<1> QED
  BY <1>1, <1>2, <1>3 DEF PinsSound, PinSound

\* The inductive step for the pins.
LEMMA NextPins == IInv /\ [Next]_vars => PinsSound'
<1> SUFFICES ASSUME IInv, [Next]_vars PROVE PinsSound'
  OBVIOUS
<1>0. TypeOK /\ LogSound /\ PinsSound /\ RequestsSound
  BY DEF IInv
<1>1. ASSUME NEW t \in Threads, RecordCut(t) PROVE PinsSound'
  BY <1>0, <1>1, RecordCutPins
<1>2. ASSUME UNCHANGED <<entries, failures, generations, lastCut>> PROVE PinsSound'
  BY <1>0, <1>2, PinsKept
<1>3. ASSUME NEW r \in Requests, LookupFailure(r) PROVE PinsSound'
  <2>1. /\ UNCHANGED <<entries, generations, lastCut>>
        /\ failures' = failures \/ failures' = [failures EXCEPT ![key[r]] = Absent]
    BY <1>3 DEF LookupFailure
  <2>2. \A k \in Keys : failures'[k] \in {failures[k], Absent}
    BY <1>0, <2>1 DEF TypeOK
  <2> QED
    BY <1>0, <2>1, <2>2, PinsKept
<1>4. ASSUME NEW r \in Requests, LookupEntry(r) PROVE PinsSound'
  <2>1. /\ UNCHANGED <<failures, generations, lastCut>>
        /\ entries' = entries \/ entries' = [entries EXCEPT ![key[r]] = Absent]
    BY <1>4 DEF LookupEntry
  <2>2. \A k \in Keys : entries'[k] \in {entries[k], Absent}
    BY <1>0, <2>1 DEF TypeOK
  <2> QED
    BY <1>0, <2>1, <2>2, PinsKept
<1>5. ASSUME NEW r \in Requests, key[r] \in Keys,
             entries' = Discarded(key[r], offer[r]),
             UNCHANGED <<failures, generations, lastCut>>
      PROVE  PinsSound'
  <2>1. \A k \in Keys : entries'[k] \in {entries[k], Absent}
    BY <1>0, <1>5, DiscardedType
  <2> QED
    BY <1>0, <1>5, <2>1, PinsKept
<1>6. ASSUME NEW r \in Requests, pc[r] # "idle" PROVE key[r] \in Keys
  BY <1>0, <1>6 DEF TypeOK
<1>7. ASSUME NEW r \in Requests, NEW u \in OwnExpiries, NEW validator \in BOOLEAN,
             NEW kept \in BOOLEAN, Succeed(r, u, validator, kept)
      PROVE  PinsSound'
  BY <1>5, <1>6, <1>7 DEF Succeed
<1>8. ASSUME NEW r \in Requests, FailMissing(r) PROVE PinsSound'
  BY <1>5, <1>6, <1>8 DEF FailMissing
<1>9. ASSUME NEW r \in Requests, FailVolatile(r) PROVE PinsSound'
  BY <1>5, <1>6, <1>9 DEF FailVolatile
<1>10. ASSUME NEW r \in Requests, DiscardAfterFailure(r) PROVE PinsSound'
  BY <1>5, <1>6, <1>10 DEF DiscardAfterFailure
<1> QED
  BY <1>1, <1>2, <1>3, <1>4, <1>7, <1>8, <1>9, <1>10, StorePins, FailStatedPins
     DEF Next, vars, callVars, cacheVars, PublishCut, TimePasses, Begin, Observe, Fold,
         Deliver, Abandon, Gone

\* The inductive step for the cut log: only the two steps of a cut touch it.
LEMMA NextLog == IInv /\ [Next]_vars => LogSound'
<1> SUFFICES ASSUME IInv, [Next]_vars PROVE LogSound'
  OBVIOUS
<1>0. TypeOK /\ LogSound
  BY DEF IInv
<1>1. ASSUME NEW t \in Threads, RecordCut(t) PROVE LogSound'
  BY <1>0, <1>1, RecordCutLog
<1>2. CASE PublishCut
  <2>1. cutSeq' = seq /\ UNCHANGED <<cuts, horizon, seq, lastCut>> /\ seq \in Nat
    BY <1>0, <1>2 DEF PublishCut, cacheVars, TypeOK
  <2> QED
    BY <1>0, <2>1 DEF LogSound
<1>3. ASSUME UNCHANGED <<cuts, horizon, seq, cutSeq, lastCut>> PROVE LogSound'
  BY <1>0, <1>3 DEF LogSound
<1> DEFINE Same == UNCHANGED <<cuts, horizon, seq, cutSeq, lastCut>>
<1>4. /\ TimePasses => Same
      /\ \A r \in Requests, k \in Keys, p \in Requests \cup {Absent} :
           Begin(r, k, p) => Same
      /\ \A r \in Requests, t \in Threads : Observe(r, t) => Same
      /\ \A r, p \in Requests : Fold(r, p) => Same
      /\ UNCHANGED vars => Same
  BY DEF TimePasses, Begin, Observe, Fold, Gone, cacheVars, vars
<1>5. ASSUME NEW r \in Requests
      PROVE  /\ LookupFailure(r) \/ LookupEntry(r) \/ Deliver(r) \/ Abandon(r) => Same
             /\ Store(r) \/ FailMissing(r) \/ FailVolatile(r) => Same
             /\ DiscardAfterFailure(r) => Same
             /\ \A u \in 0 .. MaxNow : FailStated(r, u) => Same
             /\ \A u \in OwnExpiries, validator, kept \in BOOLEAN :
                  Succeed(r, u, validator, kept) => Same
  <2>1. LookupFailure(r) \/ LookupEntry(r) \/ Deliver(r) \/ Abandon(r) => Same
    BY DEF LookupFailure, LookupEntry, Deliver, Abandon, Gone, cacheVars
  <2>2. Store(r) \/ FailMissing(r) \/ FailVolatile(r) \/ DiscardAfterFailure(r) => Same
    BY DEF Store, FailMissing, FailVolatile, DiscardAfterFailure
  <2>3. \A u \in 0 .. MaxNow : FailStated(r, u) => Same
    BY DEF FailStated
  <2>4. \A u \in OwnExpiries, validator, kept \in BOOLEAN :
          Succeed(r, u, validator, kept) => Same
    BY DEF Succeed
  <2> QED
    BY <2>1, <2>2, <2>3, <2>4
<1> HIDE DEF Same
<1>6. (\E t \in Threads : RecordCut(t)) \/ PublishCut \/ Same
  BY <1>4, <1>5 DEF Next
<1> QED
  BY <1>1, <1>2, <1>3, <1>6 DEF Same

\* Before anything happens the log is empty and nothing is held.
LEMMA InitIInv == Init => IInv
<1> SUFFICES ASSUME Init PROVE IInv
  OBVIOUS
<1>1. TypeOK
  BY InitType
<1>2. Len(cuts) = 0 /\ cutSeq = 0 /\ seq = 0 /\ horizon = 0
      /\ \A t \in Threads : lastCut[t] = 0
  BY EmptySeq DEF Init
<1>3. LogSound
  BY <1>2 DEF LogSound
<1>4. PinsSound
  BY DEF Init, PinsSound
<1>5. RequestsSound
  BY <1>2 DEF Init, RequestsSound, Covered
<1> QED
  BY <1>1, <1>3, <1>4, <1>5 DEF IInv

\* The inductive invariant is inductive.
LEMMA NextIInv == IInv /\ [Next]_vars => IInv'
BY NextType, NextLog, NextPins, NextRequests DEF IInv

-----------------------------------------------------------------------------
(* The theorems *)

\* No operation of the cache or of a request breaks a type, and the cut log
\* (record_cut) never outgrows CUT_LOG.
THEOREM TypeCorrect == Spec => []TypeOK
BY InitType, NextType, PTL DEF Spec

\* In every reachable state the log is the ordered list of the cuts after the
\* horizon, pins are sound, and whatever a request holds and is outdated was
\* cut after its snapshot.
THEOREM InvariantHolds == Spec => []IInv
BY InitIInv, NextIInv, PTL DEF Spec

\* The lost-cut race is closed: an entry or a failure with current edges was
\* computed from the state after the last cut of each of its threads, for any
\* number of keys, threads, requests and cuts and any bound of the cut log.
THEOREM NothingStaleIsServed == Spec => []NoStaleLive
<1>1. IInv => NoStaleLive
  BY DEF IInv, PinsSound, PinSound, NoStaleLive, EdgesCurrent, SeesLastCuts
<1> QED
  BY <1>1, InvariantHolds, PTL

\* The bounded cut log answers exactly for every snapshot it covers (cut_since).
THEOREM CutLogIsExact == Spec => []CutLogExact
<1>1. ASSUME IInv PROVE CutLogExact
  <2>0. TypeOK /\ LogSound
    BY <1>1 DEF IInv
  <2> SUFFICES ASSUME NEW t \in Threads, NEW since \in horizon .. seq
               PROVE  CutSince({t}, since) <=> lastCut[t] > since
    BY DEF CutLogExact
  <2>1. lastCut[t] \in Nat /\ since \in Nat /\ horizon \in Nat /\ Len(cuts) \in Nat
        /\ ~(since < horizon)
    BY <2>0 DEF TypeOK, Versions
  <2>2. ASSUME CutSince({t}, since) PROVE lastCut[t] > since
    <3>1. PICK i \in 1 .. Len(cuts) :
            cuts[i].thread = t /\ \A j \in i .. Len(cuts) : cuts[j].seq > since
      BY <2>1, <2>2 DEF CutSince
    <3>2. cuts[i].seq > since /\ cuts[i].seq <= lastCut[t]
      BY <2>0, <2>1, <3>1 DEF LogSound
    <3>3. cuts[i] \in [thread : Threads, seq : Nat]
      BY <2>0, ElementOfSeq DEF TypeOK
    <3> QED
      BY <2>1, <3>2, <3>3
  <2>3. ASSUME ~CutSince({t}, since) PROVE ~(lastCut[t] > since)
    <3> DEFINE seen == [u \in Threads |-> since]
    <3>1. seen \in Versions
      BY <2>1 DEF Versions
    <3>2. ASSUME lastCut[t] > since PROVE FALSE
      <4>1. Covered({t}, seen, since)
        BY <2>1, <3>2 DEF Covered
      <4>2. seen[t] = lastCut[t]
        BY <2>0, <2>1, <2>3, <3>1, <4>1, UndeclinedIsFresh
      <4> QED
        BY <2>1, <3>2, <4>2
    <3> QED
      BY <3>2
  <2> QED
    BY <2>2, <2>3
<1> QED
  BY <1>1, InvariantHolds, PTL

\* No step takes a generation back from a thread that a slot which stays is
\* pinned to: cuts only count up, and a sweep keeps what is pinned.
LEMMA GenerationsGrow ==
  ASSUME IInv, [Next]_vars, NEW k \in Keys, NEW slot, slot # Absent,
         slot.threads \subseteq Threads,
         entries'[k] = slot \/ failures'[k] = slot
  PROVE  \A t \in slot.threads : generations[t] <= generations'[t]
<1>1. \A t \in Threads : generations[t] \in Nat
  BY DEF IInv, TypeOK, Versions
<1>2. ASSUME UNCHANGED generations
      PROVE  \A t \in slot.threads : generations[t] <= generations'[t]
  BY <1>1, <1>2
<1>3. ASSUME NEW u \in Threads, RecordCut(u)
      PROVE  \A t \in slot.threads : generations[t] <= generations'[t]
  BY <1>1, <1>3 DEF RecordCut, IInv, TypeOK, Versions
<1>4. ASSUME NEW r \in Requests, Store(r)
      PROVE  \A t \in slot.threads : generations[t] <= generations'[t]
  <2>1. CASE generations' = Swept(entries', failures')
    <3>1. slot.threads \subseteq Pinned(entries', failures')
      BY PinnedThreads
    <3>2. \A t \in slot.threads : generations'[t] = generations[t]
      BY <2>1, <3>1, SweptPins DEF IInv
    <3> QED
      BY <1>1, <3>2
  <2> QED
    BY <1>2, <1>4, <2>1 DEF Store
<1> DEFINE Same == UNCHANGED generations
<1>5. /\ PublishCut \/ TimePasses \/ UNCHANGED vars => Same
      /\ \A r \in Requests, x \in Keys, p \in Requests \cup {Absent} :
           Begin(r, x, p) => Same
      /\ \A r \in Requests, t \in Threads : Observe(r, t) => Same
      /\ \A r, p \in Requests : Fold(r, p) => Same
  BY DEF PublishCut, TimePasses, Begin, Observe, Fold, Gone, cacheVars, vars
<1>6. ASSUME NEW r \in Requests
      PROVE  /\ LookupFailure(r) \/ LookupEntry(r) \/ Deliver(r) \/ Abandon(r) => Same
             /\ FailMissing(r) \/ FailVolatile(r) \/ DiscardAfterFailure(r) => Same
             /\ \A u \in 0 .. MaxNow : FailStated(r, u) => Same
             /\ \A u \in OwnExpiries, validator, kept \in BOOLEAN :
                  Succeed(r, u, validator, kept) => Same
  BY DEF LookupFailure, LookupEntry, Deliver, Abandon, Gone, cacheVars, FailMissing,
         FailVolatile, DiscardAfterFailure, FailStated, Succeed
<1> HIDE DEF Same
<1>7. (\E t \in Threads : RecordCut(t)) \/ (\E r \in Requests : Store(r)) \/ Same
  BY <1>5, <1>6 DEF Next
<1> QED
  BY <1>2, <1>3, <1>4, <1>7 DEF Same

\* A slot with a stale edge that stays cached keeps a stale edge.
LEMMA StaleStaysStale ==
  ASSUME IInv, [Next]_vars, NEW k \in Keys, NEW slot \in Slot \cup FailedSlot,
         entries'[k] = slot \/ failures'[k] = slot, slot # Absent,
         PinSound(slot), ~EdgesCurrent(slot)
  PROVE  \E t \in slot.threads : generations'[t] # slot.edges[t]
<1>1. slot.threads \subseteq Threads
      /\ \A t \in slot.threads : slot.edges[t] \in Nat
  BY DEF Slot, FailedSlot, Versions
<1>2. PICK t \in slot.threads : generations[t] # slot.edges[t]
  BY DEF EdgesCurrent
<1>3. generations[t] <= generations'[t]
  BY <1>1, GenerationsGrow
<1>4. slot.edges[t] <= generations[t] /\ generations[t] \in Nat
      /\ slot.edges[t] \in Nat
  BY <1>1 DEF PinSound, IInv, TypeOK, Versions
<1>5. generations'[t] \in Nat
  BY <1>1, NextType DEF IInv, TypeOK, Versions
<1> QED
  BY <1>2, <1>3, <1>4, <1>5

\* An entry or a failure that a cut made stale is never served again, whatever
\* sweep_generations forgets while the cache still holds it.
THEOREM CutsAreForever == Spec => CutIsForever
<1> DEFINE Stays(slots) ==
      \A k \in Keys : (/\ slots[k] # Absent /\ ~EdgesCurrent(slots[k])
                       /\ slots'[k] = slots[k]) => ~EdgesCurrent(slots[k])'
<1>2. IInv /\ [Next]_vars => Stays(entries)
  <2> SUFFICES ASSUME IInv, [Next]_vars, NEW k \in Keys, entries[k] # Absent,
                      ~EdgesCurrent(entries[k]), entries'[k] = entries[k]
               PROVE  ~EdgesCurrent(entries[k])'
    OBVIOUS
  <2>1. entries[k] \in Slot \cup FailedSlot /\ PinSound(entries[k])
    BY DEF IInv, TypeOK, PinsSound
  <2> QED
    BY <2>1, StaleStaysStale DEF EdgesCurrent
<1>3. IInv /\ [Next]_vars => Stays(failures)
  <2> SUFFICES ASSUME IInv, [Next]_vars, NEW k \in Keys, failures[k] # Absent,
                      ~EdgesCurrent(failures[k]), failures'[k] = failures[k]
               PROVE  ~EdgesCurrent(failures[k])'
    OBVIOUS
  <2>1. failures[k] \in Slot \cup FailedSlot /\ PinSound(failures[k])
    BY DEF IInv, TypeOK, PinsSound
  <2> QED
    BY <2>1, StaleStaysStale DEF EdgesCurrent
<1>4. IInv /\ [Next]_vars =>
        [\A k \in Keys :
           /\ (/\ entries[k] # Absent /\ ~EdgesCurrent(entries[k])
               /\ entries'[k] = entries[k]) => ~EdgesCurrent(entries[k])'
           /\ (/\ failures[k] # Absent /\ ~EdgesCurrent(failures[k])
               /\ failures'[k] = failures[k]) => ~EdgesCurrent(failures[k])']_vars
  BY <1>2, <1>3
<1> QED
  BY <1>4, InvariantHolds, PTL DEF Spec, CutIsForever

-----------------------------------------------------------------------------
(* Bounds and offers *)

\* Only an endpoint that runs, or gives up after a failure, holds an offer.
OffersRun ==
  \A r \in Requests : offer[r] # Absent => pc[r] \in {"running", "discarding"}

LEMMA InitOffers == Init => OffersRun
BY DEF Init, OffersRun

LEMMA NextOffers == TypeOK /\ OffersRun /\ [Next]_vars => OffersRun'
<1> SUFFICES ASSUME TypeOK, OffersRun, [Next]_vars PROVE OffersRun'
  OBVIOUS
<1> USE DEF OffersRun, TypeOK
<1>1. ASSUME UNCHANGED <<pc, offer>> PROVE OffersRun'
  BY <1>1
<1>2. ASSUME NEW r \in Requests, NEW k \in Keys, NEW p \in Requests \cup {Absent},
             Begin(r, k, p)
      PROVE  OffersRun'
  BY <1>2 DEF Begin
<1>3. ASSUME NEW r \in Requests, LookupFailure(r) PROVE OffersRun'
  BY <1>3 DEF LookupFailure, AnswerFrom
<1>4. ASSUME NEW r \in Requests, LookupEntry(r) PROVE OffersRun'
  BY <1>4 DEF LookupEntry, AnswerFrom, Invoke
<1>5. ASSUME NEW c \in Requests, NEW p \in Requests, Fold(c, p) PROVE OffersRun'
  BY <1>5 DEF Fold, Gone
<1>6. ASSUME NEW r \in Requests, Deliver(r) \/ Abandon(r) PROVE OffersRun'
  BY <1>6 DEF Deliver, Abandon, Gone
<1>7. ASSUME NEW r \in Requests, NEW u \in OwnExpiries, NEW validator \in BOOLEAN,
             NEW kept \in BOOLEAN, Succeed(r, u, validator, kept)
      PROVE  OffersRun'
  BY <1>7 DEF Succeed
<1>8. ASSUME NEW r \in Requests, Store(r) PROVE OffersRun'
  BY <1>8 DEF Store
<1>9. ASSUME NEW r \in Requests,
             FailMissing(r) \/ FailVolatile(r) \/ DiscardAfterFailure(r)
      PROVE  OffersRun'
  BY <1>9 DEF FailMissing, FailVolatile, DiscardAfterFailure
<1>10. ASSUME NEW r \in Requests, NEW u \in 0 .. MaxNow, FailStated(r, u)
       PROVE  OffersRun'
  BY <1>10 DEF FailStated
<1>11. ASSUME NEW t \in Threads, RecordCut(t) PROVE OffersRun'
  BY <1>1, <1>11 DEF RecordCut, callVars
<1>12. ASSUME PublishCut \/ TimePasses PROVE OffersRun'
  BY <1>1, <1>12 DEF PublishCut, TimePasses, callVars
<1>13. ASSUME NEW r \in Requests, NEW t \in Threads, Observe(r, t) PROVE OffersRun'
  BY <1>1, <1>13 DEF Observe
<1>14. CASE UNCHANGED vars
  BY <1>1, <1>14 DEF vars, callVars
<1> QED
  BY <1>2, <1>3, <1>4, <1>5, <1>6, <1>7, <1>8, <1>9, <1>10, <1>11, <1>12, <1>13,
     <1>14 DEF Next

\* Giving up on an offer takes the entry it was made from and no other.
LEMMA NewerKeptByStep ==
  ASSUME TypeOK, OffersRun, [Next]_vars, NEW r \in Requests,
         offer[r] # Absent, offer'[r] = Absent, entries[key[r]] # Absent,
         entries[key[r]].tick > offer[r].tick
  PROVE  entries'[key[r]] = entries[key[r]]
<1>1. pc[r] \in {"running", "discarding"}
  BY DEF OffersRun
<1>2. key[r] \in Keys
  BY <1>1 DEF TypeOK
<1>3. entries[key[r]].tick \in Nat /\ offer[r].tick \in Nat
  BY <1>2 DEF TypeOK, Slot
<1>4. Discarded(key[r], offer[r])[key[r]] = entries[key[r]]
  BY <1>2, <1>3 DEF Discarded
<1>5. offer'[r] # offer[r]
  OBVIOUS
<1> USE DEF TypeOK
<1>6. ASSUME NEW x \in Requests, NEW k \in Keys, NEW p \in Requests \cup {Absent},
             Begin(x, k, p)
      PROVE  FALSE
  BY <1>5, <1>6 DEF Begin
<1>7. ASSUME NEW x \in Requests, LookupFailure(x) PROVE FALSE
  BY <1>5, <1>7 DEF LookupFailure, AnswerFrom
<1>8. ASSUME NEW x \in Requests, LookupEntry(x) PROVE FALSE
  <2>1. x # r
    BY <1>1, <1>8 DEF LookupEntry
  <2>2. offer' = offer \/ \E o : offer' = [offer EXCEPT ![x] = o]
    BY <1>8 DEF LookupEntry, AnswerFrom, Invoke
  <2> QED
    BY <1>5, <2>1, <2>2
<1>9. ASSUME NEW c \in Requests, Gone(c) PROVE entries' = entries
  BY <1>9 DEF Gone, cacheVars
<1>10. ASSUME NEW x \in Requests, offer' = [offer EXCEPT ![x] = Absent],
              entries' = Discarded(key[x], offer[x])
       PROVE  entries'[key[r]] = entries[key[r]]
  <2>1. x = r
    BY <1>5, <1>10
  <2> QED
    BY <1>4, <1>10, <2>1
<1>11. CASE \E c, p \in Requests : Fold(c, p)
  BY <1>9, <1>11 DEF Fold
<1>12. CASE \E x \in Requests : Deliver(x) \/ Abandon(x)
  BY <1>9, <1>12 DEF Deliver, Abandon
<1>13. CASE \E x \in Requests, u \in OwnExpiries, validator, kept \in BOOLEAN :
              Succeed(x, u, validator, kept)
  <2>1. PICK x \in Requests, u \in OwnExpiries, validator \in BOOLEAN, kept \in BOOLEAN :
          Succeed(x, u, validator, kept)
    BY <1>13
  <2>2. offer' = [offer EXCEPT ![x] = Absent] /\ entries' = Discarded(key[x], offer[x])
    BY <2>1 DEF Succeed
  <2> QED
    BY <1>10, <2>2
<1>14. CASE \E x \in Requests :
              FailMissing(x) \/ FailVolatile(x) \/ DiscardAfterFailure(x)
  BY <1>10, <1>14 DEF FailMissing, FailVolatile, DiscardAfterFailure
<1>15. CASE \E x \in Requests, t \in Threads : Observe(x, t)
  BY <1>5, <1>15 DEF Observe
<1>16. CASE \E x \in Requests : Store(x)
  BY <1>5, <1>16 DEF Store
<1>17. CASE \E x \in Requests, u \in 0 .. MaxNow : FailStated(x, u)
  BY <1>5, <1>17 DEF FailStated
<1>18. CASE \E t \in Threads : RecordCut(t)
  BY <1>5, <1>18 DEF RecordCut, callVars
<1>19. CASE PublishCut \/ TimePasses \/ UNCHANGED vars
  BY <1>5, <1>19 DEF PublishCut, TimePasses, vars, callVars
<1> QED
  BY <1>6, <1>7, <1>8, <1>11, <1>12, <1>13, <1>14, <1>15, <1>16, <1>17, <1>18,
     <1>19 DEF Next

\* A request that gives up on the entry it was offered forgets no answer that
\* another request has stored under the key since (cache.rs discard).
THEOREM GivingUpForgetsNothingNewer == Spec => NewerEntryKept
<1>1. Init => OffersRun
  BY InitOffers
<1>2. TypeOK /\ OffersRun /\ [Next]_vars => OffersRun'
  BY NextOffers
<1>3. TypeOK /\ OffersRun /\ [Next]_vars =>
        [\A r \in Requests :
           LET k == key[r]
           IN offer[r] # Absent /\ offer'[r] = Absent /\ entries[k] # Absent
                /\ entries[k].tick > offer[r].tick
              => entries'[k] = entries[k]]_vars
  BY NewerKeptByStep
<1> QED
  BY <1>1, <1>2, <1>3, TypeCorrect, PTL DEF Spec, NewerEntryKept

LEMMA OneMore ==
  ASSUME NEW S, IsFiniteSet(S), NEW x
  PROVE  /\ IsFiniteSet(S \cup {x}) /\ Cardinality(S \cup {x}) \in Nat
         /\ Cardinality(S) \in Nat /\ Cardinality(S \cup {x}) <= Cardinality(S) + 1
<1>1. /\ IsFiniteSet(S \cup {x})
      /\ Cardinality(S \cup {x}) = IF x \in S THEN Cardinality(S) ELSE Cardinality(S) + 1
  BY FS_AddElement
<1>2. Cardinality(S) \in Nat
  BY FS_CardinalityType
<1> QED
  BY <1>1, <1>2

\* The table of failures with one of them for k, room having been made.
LEMMA RoomSuffices ==
  ASSUME TypeOK, FailuresBounded, NEW k \in Keys, NEW without, Room(failures, k, without),
         failures' = [without EXCEPT ![k] = failures'[k]]
  PROVE  FailuresBounded'
<1> USE ConstantsAssumption
<1>1. IsFiniteSet(Held(failures)) /\ Cardinality(Held(failures)) \in Nat
  BY FS_Subset, FS_CardinalityType DEF Held
<1>2. CASE Cardinality(Held(failures)) >= FailureLimit /\ failures[k] = Absent
  <2>1. PICK s \in Held(failures) : without = [failures EXCEPT ![s] = Absent]
    BY <1>2 DEF Room
  <2>2. Held(failures') \subseteq (Held(failures) \ {s}) \cup {k}
    BY <2>1 DEF Held, TypeOK
  <2>3. /\ IsFiniteSet(Held(failures) \ {s})
        /\ Cardinality(Held(failures) \ {s}) = Cardinality(Held(failures)) - 1
    BY <1>1, <2>1, FS_RemoveElement
  <2>4. /\ IsFiniteSet((Held(failures) \ {s}) \cup {k})
        /\ Cardinality((Held(failures) \ {s}) \cup {k}) <= Cardinality(Held(failures))
    <3>1. /\ IsFiniteSet((Held(failures) \ {s}) \cup {k})
          /\ Cardinality((Held(failures) \ {s}) \cup {k})
               <= Cardinality(Held(failures) \ {s}) + 1
          /\ Cardinality((Held(failures) \ {s}) \cup {k}) \in Nat
      BY <2>3, OneMore
    <3> QED
      BY <1>1, <2>3, <3>1
  <2>5. Cardinality(Held(failures')) <= Cardinality((Held(failures) \ {s}) \cup {k})
    BY <2>2, <2>4, FS_Subset
  <2>6. IsFiniteSet(Held(failures')) /\ Cardinality(Held(failures')) \in Nat
    BY FS_Subset, FS_CardinalityType DEF Held
  <2>7. Cardinality((Held(failures) \ {s}) \cup {k}) \in Nat
    BY <2>4, FS_CardinalityType
  <2> QED
    BY <1>1, <2>4, <2>5, <2>6, <2>7 DEF FailuresBounded, Held
<1>3. CASE ~(Cardinality(Held(failures)) >= FailureLimit /\ failures[k] = Absent)
  <2>1. without = failures
    BY <1>3 DEF Room
  <2>2. IsFiniteSet(Held(failures')) /\ Cardinality(Held(failures')) \in Nat
    BY FS_Subset, FS_CardinalityType DEF Held
  <2>3. CASE failures[k] # Absent
    <3>1. Held(failures') \subseteq Held(failures)
      BY <2>1, <2>3 DEF Held, TypeOK
    <3>2. Cardinality(Held(failures')) <= Cardinality(Held(failures))
      BY <1>1, <3>1, FS_Subset
    <3> QED
      BY <1>1, <2>2, <3>2 DEF FailuresBounded, Held
  <2>4. CASE failures[k] = Absent
    <3>1. Held(failures') \subseteq Held(failures) \cup {k}
      BY <2>1 DEF Held, TypeOK
    <3>2. /\ IsFiniteSet(Held(failures) \cup {k})
          /\ Cardinality(Held(failures) \cup {k}) <= Cardinality(Held(failures)) + 1
      BY <1>1, OneMore
    <3>3. Cardinality(Held(failures')) <= Cardinality(Held(failures) \cup {k})
      BY <3>1, <3>2, FS_Subset
    <3>4. Cardinality(Held(failures) \cup {k}) \in Nat
      BY <3>2, FS_CardinalityType
    <3>5. Cardinality(Held(failures)) + 1 <= FailureLimit
      BY <1>1, <1>3, <2>4
    <3> QED
      BY <1>1, <2>2, <3>2, <3>3, <3>4, <3>5 DEF FailuresBounded, Held
  <2> QED
    BY <2>3, <2>4
<1> QED
  BY <1>2, <1>3

LEMMA FailuresForgotten ==
  ASSUME TypeOK, FailuresBounded,
         \A k \in Keys : failures'[k] \in {failures[k], Absent}
  PROVE  FailuresBounded'
<1> USE ConstantsAssumption
<1>1. Held(failures') \subseteq Held(failures)
  BY DEF Held
<1>2. /\ IsFiniteSet(Held(failures)) /\ Cardinality(Held(failures)) \in Nat
      /\ IsFiniteSet(Held(failures')) /\ Cardinality(Held(failures')) \in Nat
  BY FS_Subset, FS_CardinalityType DEF Held
<1>3. Cardinality(Held(failures')) <= Cardinality(Held(failures))
  BY <1>1, <1>2, FS_Subset
<1> QED
  BY <1>2, <1>3 DEF FailuresBounded, Held

\* The table of cached failures never exceeds its bound, however many requests
\* fail (cache.rs store_failure).
THEOREM FailuresStayBounded == Spec => []FailuresBounded
<1>1. Init => FailuresBounded
  <2> SUFFICES ASSUME Init PROVE FailuresBounded
    OBVIOUS
  <2>1. Held(failures) = {}
    BY DEF Init, Held
  <2> QED
    BY <2>1, FS_EmptySet, ConstantsAssumption DEF FailuresBounded
<1>2. TypeOK /\ FailuresBounded /\ [Next]_vars => FailuresBounded'
  <2> SUFFICES ASSUME TypeOK, FailuresBounded, [Next]_vars PROVE FailuresBounded'
    OBVIOUS
  <2>1. ASSUME UNCHANGED failures PROVE FailuresBounded'
    BY <2>1, FailuresForgotten
  <2>2. ASSUME NEW r \in Requests, failures' = [failures EXCEPT ![key[r]] = Absent]
        PROVE  FailuresBounded'
    <3>1. \A k \in Keys : failures'[k] \in {failures[k], Absent}
      BY <2>2 DEF TypeOK
    <3> QED
      BY <3>1, FailuresForgotten
  <2>3. CASE \E r \in Requests : LookupFailure(r) \/ Store(r)
    BY <2>1, <2>2, <2>3 DEF LookupFailure, Store
  <2>4. ASSUME NEW r \in Requests, NEW u \in 0 .. MaxNow, FailStated(r, u),
               failures' # failures
        PROVE  FailuresBounded'
    <3>1. key[r] \in Keys
      BY <2>4 DEF FailStated, TypeOK
    <3>2. PICK without \in {[failures EXCEPT ![k] = Absent] : k \in Keys}
                             \cup {failures} :
            /\ Room(failures, key[r], without)
            /\ \E slot : failures' = [without EXCEPT ![key[r]] = slot]
      BY <2>4 DEF FailStated
    <3>3. DOMAIN without = Keys
      BY <3>2 DEF TypeOK
    <3>4. failures' = [without EXCEPT ![key[r]] = failures'[key[r]]]
      BY <3>1, <3>2, <3>3
    <3> QED
      BY <3>1, <3>2, <3>4, RoomSuffices
  <2>5. CASE \E r \in Requests : LookupEntry(r) \/ FailMissing(r) \/ FailVolatile(r)
                                   \/ DiscardAfterFailure(r)
    BY <2>1, <2>5 DEF LookupEntry, FailMissing, FailVolatile, DiscardAfterFailure
  <2>6. CASE \E r \in Requests, u \in OwnExpiries, validator, kept \in BOOLEAN :
               Succeed(r, u, validator, kept)
    BY <2>1, <2>6 DEF Succeed
  <2>7. CASE \/ \E r \in Requests, k \in Keys, p \in Requests \cup {Absent} : Begin(r, k, p)
             \/ \E r \in Requests, t \in Threads : Observe(r, t)
    BY <2>1, <2>7 DEF Begin, Observe, cacheVars
  <2>8. CASE \/ \E c, p \in Requests : Fold(c, p)
             \/ \E r \in Requests : Deliver(r) \/ Abandon(r)
    BY <2>1, <2>8 DEF Fold, Deliver, Abandon, Gone, cacheVars
  <2>9. CASE \/ \E t \in Threads : RecordCut(t)
             \/ PublishCut \/ TimePasses \/ UNCHANGED vars
    BY <2>1, <2>9 DEF RecordCut, PublishCut, TimePasses, vars, cacheVars
  <2> QED
    BY <2>1, <2>3, <2>4, <2>5, <2>6, <2>7, <2>8, <2>9 DEF Next
<1> QED
  BY <1>1, <1>2, TypeCorrect, PTL DEF Spec

-----------------------------------------------------------------------------
(* ReprCache implements CoherentCache: with the slots whose edges are current *)
(* as the cached views, a recorded cut is a change of its thread, an          *)
(* undeclined store learns the current view of what it hangs from, and        *)
(* everything else forgets or stutters.                                       *)

\* Every slot is typed and soundly pinned.
LEMMA SlotsSound ==
  ASSUME IInv, NEW p \in Places, SlotAt(p) # Absent
  PROVE  /\ SlotAt(p) \in Slot \cup FailedSlot
         /\ PinSound(SlotAt(p))
         /\ p[1] \in Keys
BY DEF Places, SlotAt, IInv, TypeOK, PinsSound

\* A step that neither cuts nor stores forgets views or leaves them alone.
LEMMA KeptOrForgotten ==
  ASSUME IInv, [Next]_vars, UNCHANGED <<seq, lastCut>>,
         \A p \in Places : SlotAt(p)' \in {SlotAt(p), Absent}
  PROVE  [Promise!Next]_(Promise!vars)
<1>1. ASSUME NEW p \in Places PROVE Cached'[p] \in {Cached[p], Absent}
  <2>1. /\ Cached[p] = ViewOf(SlotAt(p)) /\ Cached'[p] = ViewOf(SlotAt(p))'
    BY DEF Cached
  <2>2. CASE SlotAt(p)' = Absent
    BY <2>1, <2>2 DEF ViewOf
  <2>3. CASE SlotAt(p)' = SlotAt(p) /\ SlotAt(p) # Absent
    <3>1. entries'[p[1]] = SlotAt(p) \/ failures'[p[1]] = SlotAt(p)
      BY <2>3 DEF SlotAt
    <3>2. ~EdgesCurrent(SlotAt(p)) => ~EdgesCurrent(SlotAt(p))'
      BY <2>3, <3>1, SlotsSound, StaleStaysStale DEF EdgesCurrent
    <3> QED
      BY <2>1, <2>3, <3>2 DEF ViewOf
  <2> QED
    BY <2>2, <2>3
<1> DEFINE keep == {p \in Places : Cached'[p] = Cached[p]}
<1>2. Cached' = [p \in Places |-> IF p \in keep THEN Cached[p] ELSE Absent]
  BY <1>1 DEF Cached
<1>3. keep \in SUBSET Places
  OBVIOUS
<1> HIDE DEF keep
<1>4. Promise!Forget
  BY <1>2, <1>3 DEF Promise!Forget
<1> QED
  BY <1>4 DEF Promise!Next

\* A recorded cut is a change of its thread: what hangs from it is gone at once,
\* though the slots are still in the maps.
LEMMA CutChanges ==
  ASSUME IInv, NEW t \in Threads, RecordCut(t)
  PROVE  Promise!Change(t)
<1>1. /\ seq < MaxSeq /\ seq' = seq + 1 /\ lastCut' = [lastCut EXCEPT ![t] = seq + 1]
      /\ UNCHANGED <<entries, failures>>
  BY DEF RecordCut
<1>2. \A u \in Threads : /\ generations[u] \in Nat
                         /\ generations'[u] = IF u = t THEN generations[u] + 1
                                              ELSE generations[u]
  BY DEF RecordCut, IInv, TypeOK, Versions
<1>3. ASSUME NEW p \in Places
      PROVE  Cached'[p] = IF Cached[p] # Absent /\ t \in DOMAIN Cached[p] THEN Absent
                          ELSE Cached[p]
  <2> DEFINE slot == SlotAt(p)
  <2>1. /\ Cached[p] = ViewOf(slot) /\ Cached'[p] = ViewOf(SlotAt(p))'
        /\ SlotAt(p)' = slot
    BY <1>1 DEF Cached, SlotAt
  <2>2. CASE slot = Absent
    BY <2>1, <2>2 DEF ViewOf
  <2>3. CASE slot # Absent
    <3>1. /\ slot \in Slot \cup FailedSlot /\ PinSound(slot)
      BY <2>3, SlotsSound
    <3> HIDE DEF slot
    <3>2. /\ slot.threads \subseteq Threads
          /\ \A u \in slot.threads : slot.edges[u] \in Nat
          /\ \A u \in slot.threads : slot.edges[u] <= generations[u]
      BY <3>1 DEF Slot, FailedSlot, Versions, PinSound
    <3>3. (\A u \in slot.threads : generations'[u] = slot.edges[u])
            <=> (EdgesCurrent(slot) /\ t \notin slot.threads)
      BY <1>2, <3>2 DEF EdgesCurrent
    <3>4. Cached'[p] = IF EdgesCurrent(slot) /\ t \notin slot.threads
                       THEN [u \in slot.threads |-> slot.saw[u]] ELSE Absent
      BY <2>1, <2>3, <3>3 DEF ViewOf, EdgesCurrent
    <3>5. Cached[p] = IF EdgesCurrent(slot)
                      THEN [u \in slot.threads |-> slot.saw[u]] ELSE Absent
      BY <2>1, <2>3 DEF ViewOf
    <3> QED
      BY <3>4, <3>5
  <2> QED
    BY <2>2, <2>3
<1>4. Cached' = [p \in Places |->
                   IF Cached[p] # Absent /\ t \in DOMAIN Cached[p] THEN Absent
                   ELSE Cached[p]]
  BY <1>3 DEF Cached
<1> QED
  BY <1>1, <1>4 DEF Promise!Change

\* A slot just stored shows the current view of what it hangs from.
LEMMA NewView ==
  ASSUME IInv, NEW r \in Requests, ~CutSince(deps[r], taken[r]), NEW slot,
         slot.threads = deps[r], slot.saw = saw[r]
  PROVE  [t \in slot.threads |-> slot.saw[t]] = [t \in deps[r] |-> lastCut[t]]
BY StoredPins DEF IInv

\* A step that puts a fresh slot in one place learns the current view there.
LEMMA FreshLearns ==
  ASSUME IInv, [Next]_vars, UNCHANGED <<seq, lastCut>>,
         NEW r \in Requests, ~CutSince(deps[r], taken[r]), NEW p \in Places,
         SlotAt(p)' = Absent \/ (/\ SlotAt(p)'.threads = deps[r]
                                 /\ SlotAt(p)'.saw = saw[r]),
         \A q \in Places \ {p} : SlotAt(q)' \in {SlotAt(q), Absent}
  PROVE  [Promise!Next]_(Promise!vars)
<1> DEFINE new == [t \in deps[r] |-> lastCut[t]]
<1>1. ASSUME NEW q \in Places \ {p} PROVE Cached'[q] \in {Cached[q], Absent}
  <2>1. /\ Cached[q] = ViewOf(SlotAt(q)) /\ Cached'[q] = ViewOf(SlotAt(q))'
    BY DEF Cached
  <2>2. CASE SlotAt(q)' = Absent
    BY <2>1, <2>2 DEF ViewOf
  <2>3. CASE SlotAt(q)' = SlotAt(q) /\ SlotAt(q) # Absent
    <3>1. entries'[q[1]] = SlotAt(q) \/ failures'[q[1]] = SlotAt(q)
      BY <2>3 DEF SlotAt
    <3>2. ~EdgesCurrent(SlotAt(q)) => ~EdgesCurrent(SlotAt(q))'
      BY <2>3, <3>1, SlotsSound, StaleStaysStale DEF EdgesCurrent
    <3> QED
      BY <2>1, <2>3, <3>2 DEF ViewOf
  <2> QED
    BY <2>2, <2>3
<1>2. Cached'[p] \in {new, Absent}
  BY NewView DEF Cached, ViewOf
<1> DEFINE keep == {q \in Places : IF q = p THEN Cached'[q] = new
                                   ELSE Cached'[q] = Cached[q]}
<1>3. Cached' = [q \in Places |->
                   IF q \notin keep THEN Absent
                   ELSE IF q = p THEN new ELSE Cached[q]]
  BY <1>1, <1>2 DEF Cached
<1>4. keep \in SUBSET Places /\ deps[r] \in SUBSET Threads
  BY DEF IInv, TypeOK
<1> HIDE DEF keep
<1>5. Promise!Learn(p, deps[r])
  BY <1>3, <1>4 DEF Promise!Learn
<1> QED
  BY <1>4, <1>5 DEF Promise!Next

\* A store learns the current view of what the request hangs from, or nothing.
LEMMA StoreLearns ==
  ASSUME IInv, [Next]_vars, NEW r \in Requests, Store(r)
  PROVE  [Promise!Next]_(Promise!vars)
<1>1. key[r] \in Keys /\ UNCHANGED <<seq, lastCut>>
  BY DEF Store, IInv, TypeOK
<1>2. CASE UNCHANGED <<entries, failures>>
  <2>1. \A p \in Places : SlotAt(p)' = SlotAt(p)
    BY <1>2 DEF SlotAt
  <2> QED
    BY <1>1, <2>1, KeptOrForgotten
<1>3. ASSUME ~CutSince(deps[r], taken[r]),
             failures' = [failures EXCEPT ![key[r]] = Absent],
             NEW kept \in SUBSET Keys,
             entries' = [k \in Keys |->
                           IF k \notin kept THEN Absent
                           ELSE IF k = key[r] THEN SlotOf(r) ELSE entries[k]]
      PROVE  [Promise!Next]_(Promise!vars)
  <2>0. PICK p \in Places : p = <<key[r], "entry">>
    BY <1>1 DEF Places
  <2>1. p \in Places /\ SlotAt(p)' \in {SlotOf(r), Absent}
    <3>1. p \in Places /\ p[1] = key[r] /\ p[2] = "entry"
      BY <2>0
    <3>2. SlotAt(p)' = entries'[key[r]]
      BY <3>1 DEF SlotAt
    <3>3. entries'[key[r]] \in {SlotOf(r), Absent}
      BY <1>1, <1>3
    <3> QED
      BY <3>1, <3>2, <3>3
  <2>2. SlotOf(r).threads = deps[r] /\ SlotOf(r).saw = saw[r]
    BY DEF SlotOf
  <2>4. SlotAt(p)' = Absent \/ (/\ SlotAt(p)'.threads = deps[r]
                                /\ SlotAt(p)'.saw = saw[r])
    BY <2>1, <2>2
  <2>3. ASSUME NEW q \in Places \ {p} PROVE SlotAt(q)' \in {SlotAt(q), Absent}
    <3>1. CASE q[2] = "entry"
      <4>1. q[1] \in Keys /\ q[1] # key[r]
        BY <2>0, <3>1 DEF Places
      <4> QED
        BY <1>3, <3>1, <4>1 DEF SlotAt
    <3>2. CASE q[2] # "entry"
      <4>1. q[1] \in Keys
        BY DEF Places
      <4> QED
        BY <1>3, <3>2, <4>1 DEF SlotAt, IInv, TypeOK
    <3> QED
      BY <3>1, <3>2
  <2> QED
    BY <1>1, <1>3, <2>1, <2>3, <2>4, FreshLearns
<1> QED
  BY <1>2, <1>3 DEF Store

\* Caching a stated failure learns the current view of what it hangs from.
LEMMA FailStatedLearns ==
  ASSUME IInv, [Next]_vars, NEW r \in Requests, NEW u \in 0 .. MaxNow,
         FailStated(r, u)
  PROVE  [Promise!Next]_(Promise!vars)
<1>1. key[r] \in Keys /\ UNCHANGED <<seq, lastCut, entries>>
  BY DEF FailStated, IInv, TypeOK
<1>2. CASE UNCHANGED failures
  <2>1. \A p \in Places : SlotAt(p)' = SlotAt(p)
    BY <1>1, <1>2 DEF SlotAt
  <2> QED
    BY <1>1, <2>1, KeptOrForgotten
<1> DEFINE new == [threads |-> deps[r],
                   edges |-> [t \in Threads |->
                                IF t \in deps[r] THEN generations[t] ELSE 0],
                   saw |-> saw[r], until |-> MinOf(u, until[r])]
<1>3. ASSUME ~CutSince(deps[r], taken[r]),
             NEW without \in {[failures EXCEPT ![k] = Absent] : k \in Keys}
                               \cup {failures},
             failures' = [without EXCEPT ![key[r]] = new]
      PROVE  [Promise!Next]_(Promise!vars)
  <2>2. new.threads = deps[r] /\ new.saw = saw[r]
    OBVIOUS
  <2> HIDE DEF new
  <2>0. PICK p \in Places : p = <<key[r], "failure">>
    BY <1>1 DEF Places
  <2>1. p \in Places /\ SlotAt(p)' = new
    <3>1. p \in Places /\ p[1] = key[r] /\ p[2] = "failure"
      BY <2>0
    <3>2. SlotAt(p)' = failures'[key[r]]
      BY <3>1 DEF SlotAt
    <3>3. failures'[key[r]] = new
      BY <1>1, <1>3 DEF IInv, TypeOK
    <3> QED
      BY <3>1, <3>2, <3>3
  <2>4. SlotAt(p)' = Absent \/ (/\ SlotAt(p)'.threads = deps[r]
                                /\ SlotAt(p)'.saw = saw[r])
    BY <2>1, <2>2
  <2>3. ASSUME NEW q \in Places \ {p} PROVE SlotAt(q)' \in {SlotAt(q), Absent}
    <3>1. CASE q[2] = "entry"
      BY <1>1, <3>1 DEF SlotAt
    <3>2. CASE q[2] # "entry"
      <4>1. q[1] \in Keys /\ q[1] # key[r]
        BY <2>0, <3>2 DEF Places
      <4> QED
        BY <1>3, <3>2, <4>1 DEF SlotAt, IInv, TypeOK
    <3> QED
      BY <3>1, <3>2
  <2> QED
    BY <1>1, <1>3, <2>1, <2>3, <2>4, FreshLearns
<1> QED
  BY <1>2, <1>3 DEF FailStated

\* Every step of the cache is a step of its promise, or stutters.
LEMMA StepKeepsPromise ==
  ASSUME IInv, [Next]_vars
  PROVE  [Promise!Next]_(Promise!vars)
<1>0. TypeOK
  BY DEF IInv
<1>1. ASSUME NEW t \in Threads, RecordCut(t) PROVE Promise!Next
  BY <1>1, CutChanges DEF Promise!Next
<1>2. ASSUME UNCHANGED <<seq, lastCut, entries, failures>>
      PROVE  [Promise!Next]_(Promise!vars)
  BY <1>2, KeptOrForgotten DEF SlotAt
<1>3. ASSUME NEW k, UNCHANGED <<seq, lastCut, entries>>,
             failures' = failures \/ failures' = [failures EXCEPT ![k] = Absent]
      PROVE  [Promise!Next]_(Promise!vars)
  <2>1. \A x \in Keys : failures'[x] \in {failures[x], Absent}
    BY <1>0, <1>3 DEF TypeOK
  <2>2. \A p \in Places : SlotAt(p)' \in {SlotAt(p), Absent}
    BY <1>3, <2>1 DEF SlotAt, Places
  <2> QED
    BY <1>3, <2>2, KeptOrForgotten
<1>4. ASSUME UNCHANGED <<seq, lastCut, failures>>,
             \A x \in Keys : entries'[x] \in {entries[x], Absent}
      PROVE  [Promise!Next]_(Promise!vars)
  <2>1. \A p \in Places : SlotAt(p)' \in {SlotAt(p), Absent}
    BY <1>4 DEF SlotAt, Places
  <2> QED
    BY <1>4, <2>1, KeptOrForgotten
<1>5. ASSUME NEW r \in Requests, LookupFailure(r) PROVE [Promise!Next]_(Promise!vars)
  <2>1. /\ UNCHANGED <<seq, lastCut, entries>>
        /\ failures' = failures \/ failures' = [failures EXCEPT ![key[r]] = Absent]
    BY <1>5 DEF LookupFailure
  <2> QED
    BY <1>3, <2>1
<1>6. ASSUME NEW r \in Requests, LookupEntry(r) PROVE [Promise!Next]_(Promise!vars)
  <2>1. /\ UNCHANGED <<seq, lastCut, failures>>
        /\ entries' = entries \/ entries' = [entries EXCEPT ![key[r]] = Absent]
    BY <1>6 DEF LookupEntry
  <2>2. \A x \in Keys : entries'[x] \in {entries[x], Absent}
    BY <1>0, <2>1 DEF TypeOK
  <2> QED
    BY <1>4, <2>1, <2>2
<1>7. ASSUME NEW r \in Requests, pc[r] # "idle", entries' = Discarded(key[r], offer[r]),
             UNCHANGED <<seq, lastCut, failures>>
      PROVE  [Promise!Next]_(Promise!vars)
  <2>1. key[r] \in Keys
    BY <1>0, <1>7 DEF TypeOK
  <2>2. \A x \in Keys : entries'[x] \in {entries[x], Absent}
    BY <1>0, <1>7, <2>1, DiscardedType
  <2> QED
    BY <1>4, <1>7, <2>2
<1>8. ASSUME NEW r \in Requests, NEW u \in OwnExpiries, NEW validator \in BOOLEAN,
             NEW kept \in BOOLEAN, Succeed(r, u, validator, kept)
      PROVE  [Promise!Next]_(Promise!vars)
  BY <1>7, <1>8 DEF Succeed
<1>9. ASSUME NEW r \in Requests,
             FailMissing(r) \/ FailVolatile(r) \/ DiscardAfterFailure(r)
      PROVE  [Promise!Next]_(Promise!vars)
  BY <1>7, <1>9 DEF FailMissing, FailVolatile, DiscardAfterFailure
<1>10. ASSUME \/ PublishCut \/ TimePasses \/ UNCHANGED vars
              \/ \E r \in Requests, k \in Keys, p \in Requests \cup {Absent} :
                   Begin(r, k, p)
              \/ \E r \in Requests, t \in Threads : Observe(r, t)
              \/ \E c, p \in Requests : Fold(c, p)
              \/ \E r \in Requests : Deliver(r) \/ Abandon(r)
       PROVE  [Promise!Next]_(Promise!vars)
  <2>1. UNCHANGED <<seq, lastCut, entries, failures>>
    BY <1>10 DEF PublishCut, TimePasses, Begin, Observe, Fold, Deliver, Abandon, Gone,
                 vars, cacheVars
  <2> QED
    BY <1>2, <2>1
<1> QED
  BY <1>1, <1>5, <1>6, <1>8, <1>9, <1>10, StoreLearns, FailStatedLearns DEF Next

\* The cache, with its bounded log, its sweeps and the requests that race the
\* cuts, implements a cache that loses every dependent answer in the instant a
\* thread is cut and learns only current views.
THEOREM ImplementsCoherentCache == Spec => KeepsPromise
<1>1. Init => Promise!Init
  <2> SUFFICES ASSUME Init PROVE Promise!Init
    OBVIOUS
  <2>1. \A p \in Places : SlotAt(p) = Absent
    BY DEF Init, Places, SlotAt
  <2>2. Cached = [p \in Places |-> Absent]
    BY <2>1 DEF Cached, ViewOf
  <2> QED
    BY <2>2 DEF Init, Promise!Init
<1>2. IInv /\ [Next]_vars => [Promise!Next]_(Promise!vars)
  BY StepKeepsPromise
<1> QED
  BY <1>1, <1>2, InvariantHolds, PTL DEF Spec, KeepsPromise, Promise!Spec
=============================================================================
