------------------------------ MODULE LiveProofs ------------------------------
(***************************************************************************)
(* What a request may rely on while the world moves on beside it.          *)
(*                                                                         *)
(* The doors of a dynamic space: no cached answer outlives the doors it    *)
(* came from, however many binds, writes and requests overlap.  The        *)
(* invariant follows a request from its snapshot on: what it resolved in   *)
(* is in force, or is about to be cut, or has been cut since the snapshot, *)
(* so that its answer will not be kept.                                    *)
(*                                                                         *)
(* The floor memo, for any number of endpoints, addresses and requests: a  *)
(* request is admitted on its own endpoint's contract, no older than the   *)
(* contract allows, and the memo keeps its bound.  The invariant is about  *)
(* allocation: live endpoints have addresses of their own, and an address  *)
(* the memo holds an entry for is, while a live endpoint is there, that    *)
(* endpoint's.                                                             *)
(*                                                                         *)
(* Fanning out is to an invocation what issuing one by one is, for any     *)
(* tree of requests, any executor and a host that drops the run anywhere.  *)
(* An invocation that asks one by one awaits the one request under way,    *)
(* and that is the next: so the answers it has are those of its first      *)
(* requests, in order.  Of one that fans out each branch arrives once,     *)
(* when it is done; as many arrivals as branches are therefore all of      *)
(* them, and a branch that is done keeps its answer, so what was joined    *)
(* stays true.                                                             *)
(*                                                                         *)
(* What reaches a cut listener, for any threads, entries, listeners,       *)
(* capabilities and number of concurrent cuts: what a queue holds is a     *)
(* prefix of what its listener has heard, in the one cut order, each event *)
(* names every live entry its cut took, and no cut that began after the    *)
(* listener registered passes it by.  The cut order is the argument's      *)
(* spine: a cut that is being delivered holds the mutex, its number is the *)
(* last one given out, and everything heard so far is older.  The other    *)
(* half is the registry: its list has every listener that is held, so a    *)
(* count of zero and an unmatched list both say that nobody known to the   *)
(* cut is passed by.                                                       *)
(***************************************************************************)
EXTENDS DynamicBinding, ContractMemos, SubRequests, CutListeners, FiniteSetTheorems,
        SequenceTheorems, TLAPS

(***************************************************************************)
(* The doors of a dynamic space.                                           *)

\* What is cached, or under way, about a face.
FaceOK(f) ==
    /\ entry[f] # None /\ entry[f] # doors => Uncut(f)
    /\ asking[f] # None => asking[f].seq <= cutSeq[f]
    /\ asking[f] # None /\ asking[f].doors # None /\ asking[f].doors # doors =>
          Uncut(f) \/ asking[f].seq < cutSeq[f]

\* Types, and what the loop binds is a declaration.
DynTyped == TypeOK /\ text["drive"] \in Declarations

\* The inductive invariant.
DynInv == DynTyped /\ \A f \in Faces : FaceOK(f)

\* A rebuilder that goes on from any point but a cut leaves no face uncut that
\* was not so before, and none cut that was not.
LEMMA GotoKeepsUncut ==
    ASSUME NEW b \in Rebuilders, NEW point, TypeOK, Goto(b, point),
           pc[b] \notin {"cutSpace", "cutBindings"}, NEW f, Uncut(f)
    PROVE  Uncut(f)'
<1>1. PICK c \in Rebuilders :
        pc[c] \in IF f = "doors" THEN {"cutSpace"} ELSE {"cutSpace", "cutBindings"}
  BY DEF Uncut
<1>2. c # b /\ pc'[c] = pc[c]
  BY <1>1 DEF Goto, TypeOK
<1> QED
  BY <1>1, <1>2 DEF Uncut

\* A step that leaves doors and cache alone, and every face uncut that was so,
\* keeps what is said of the faces.
LEMMA FacesUntouched ==
    ASSUME \A f \in Faces : FaceOK(f), UNCHANGED <<doors, cacheVars>>,
           \A f \in Faces : Uncut(f) => Uncut(f)'
    PROVE  \A f \in Faces : FaceOK(f)'
BY DEF FaceOK, cacheVars

\* Such are the steps of a rebuilder up to its swap.
LEMMA GotoKeepsFaces ==
    ASSUME NEW b \in Rebuilders, NEW point, DynInv, Goto(b, point),
           pc[b] \notin {"cutSpace", "cutBindings"}, UNCHANGED <<doors, cacheVars>>
    PROVE  \A f \in Faces : FaceOK(f)'
BY GotoKeepsUncut, FacesUntouched DEF DynInv, DynTyped

\* A rebuilder that goes somewhere is at one of the points.
LEMMA GotoTyped ==
    ASSUME TypeOK, NEW b \in Rebuilders, NEW point \in Points, Goto(b, point)
    PROVE  pc' \in [Rebuilders -> Points]
BY DEF TypeOK, Goto

\* The steps around the declaration are well typed.
LEMMA DeclarationTyped ==
    ASSUME DynTyped, Write \/ CutDeclaration \/ Listen \/ Lookup \/ Read \/ StoreDeclaration \/ Wait
    PROVE  DynTyped'
<1>1. TypeOK /\ "drive" \in Rebuilders /\ Declarations \subseteq Versions
  BY DEF DynTyped, Rebuilders, Versions
<1>2. {"lookup", "read", "store", "prepare"} \subseteq Points
  BY DEF Points
<1>3. CASE Write
  <2>1. content' \in Declarations
    BY <1>1, <1>3, DynamicAssumption DEF Write, TypeOK, Declarations
  <2> QED
    BY <1>3, <2>1 DEF Write, DynTyped, TypeOK, spaceVars, cacheVars
<1>4. CASE CutDeclaration
  <2>1. heard' \in BOOLEAN
    <3>1. heard' = TRUE \/ heard' = FALSE
      BY <1>4 DEF CutDeclaration
    <3> QED
      BY <3>1
  <2>2. writing' = FALSE /\ declEntry' = None /\ declSeq' = declSeq + 1
    BY <1>4 DEF CutDeclaration
  <2>3. UNCHANGED <<content, pc, text, snap, doors, refused, cutSeq, entry, asking>>
    BY <1>4 DEF CutDeclaration, spaceVars, cacheVars
  <2>4. writing' \in BOOLEAN
    BY <2>2
  <2>5. declSeq' \in Nat /\ declEntry' \in Declarations \cup {None}
    BY <1>1, <2>2 DEF TypeOK
  <2> QED
    BY <2>1, <2>3, <2>4, <2>5 DEF DynTyped, TypeOK
<1>5. CASE Listen
  BY <1>1, <1>2, <1>5, GotoTyped DEF Listen, DynTyped, TypeOK, declVars, spaceVars, cacheVars
<1>6. CASE Lookup
  <2>1. pc' \in [Rebuilders -> Points]
    BY <1>1, <1>2, <1>6, GotoTyped DEF Lookup
  <2>2. text' \in [Rebuilders -> Versions] /\ text'["drive"] \in Declarations
    BY <1>1, <1>6 DEF Lookup, DynTyped, TypeOK
  <2> QED
    BY <1>6, <2>1, <2>2 DEF Lookup, DynTyped, TypeOK, declVars, spaceVars, cacheVars
<1>7. CASE Read
  <2>1. pc' \in [Rebuilders -> Points]
    BY <1>1, <1>2, <1>7, GotoTyped DEF Read
  <2>2. text' \in [Rebuilders -> Versions] /\ text'["drive"] \in Declarations
    BY <1>1, <1>7 DEF Read, DynTyped, TypeOK
  <2> QED
    BY <1>7, <2>1, <2>2 DEF Read, DynTyped, TypeOK, declVars, spaceVars, cacheVars
<1>8. CASE StoreDeclaration
  <2>1. pc' \in [Rebuilders -> Points]
    BY <1>1, <1>2, <1>8, GotoTyped DEF StoreDeclaration
  <2> QED
    BY <1>8, <2>1 DEF StoreDeclaration, DynTyped, TypeOK, spaceVars, cacheVars
<1>9. CASE Wait
  <2>1. pc' \in [Rebuilders -> Points]
    BY <1>1, <1>2, <1>9, GotoTyped DEF Wait
  <2> QED
    BY <1>9, <2>1 DEF Wait, DynTyped, TypeOK, spaceVars, cacheVars
<1> QED
  BY <1>3, <1>4, <1>5, <1>6, <1>7, <1>8, <1>9

\* The steps of a bind are well typed.
LEMMA BindTyped ==
    ASSUME DynTyped, NEW b \in Rebuilders,
           Prepare(b) \/ Check(b) \/ Swap(b) \/ CutSpace(b) \/ CutBindings(b)
    PROVE  DynTyped'
<1>1. TypeOK /\ text[b] \in Versions
  BY DEF DynTyped, TypeOK
<1>2. Done(b) \in Points /\ {"check", "swap", "cutSpace", "cutBindings"} \subseteq Points
  BY DEF Done, Points
<1>3. CASE Prepare(b)
  BY <1>1, <1>2, <1>3, GotoTyped DEF Prepare, DynTyped, TypeOK, declVars, cacheVars
<1>4. CASE Check(b)
  BY <1>1, <1>2, <1>4, GotoTyped DEF Check, DynTyped, TypeOK, declVars, cacheVars
<1>5. CASE Swap(b)
  BY <1>1, <1>2, <1>5, GotoTyped DEF Swap, DynTyped, TypeOK, declVars, cacheVars
<1>6. ASSUME NEW f, Cut(f)
      PROVE  cutSeq' \in [Faces -> Nat] /\ entry' \in [Faces -> Versions \cup {None}]
  BY <1>1, <1>6 DEF Cut, TypeOK
<1>7. CASE CutSpace(b)
  BY <1>1, <1>2, <1>6, <1>7, GotoTyped DEF CutSpace, DynTyped, TypeOK, declVars, spaceVars
<1>8. CASE CutBindings(b)
  BY <1>1, <1>2, <1>6, <1>8, GotoTyped DEF CutBindings, DynTyped, TypeOK, declVars, spaceVars
<1> QED
  BY <1>3, <1>4, <1>5, <1>7, <1>8

\* What the host binds is one of its arrangements.
LEMMA InstallTyped == DynTyped /\ InstallTopology => DynTyped'
<1> SUFFICES ASSUME DynTyped, InstallTopology PROVE DynTyped'
  OBVIOUS
<1>1. PICK v \in Arrangements : text' = [text EXCEPT !["host"] = v]
  BY DEF InstallTopology
<1>2. v \in Versions /\ "host" \in Rebuilders /\ "prepare" \in Points
  BY DEF Versions, Rebuilders, Points
<1>3. pc' \in [Rebuilders -> Points]
  BY <1>2, GotoTyped DEF InstallTopology, DynTyped
<1>4. text' \in [Rebuilders -> Versions] /\ text'["drive"] \in Declarations
  BY <1>1, <1>2 DEF DynTyped, TypeOK
<1>5. UNCHANGED <<declVars, snap, spaceVars, cacheVars>>
  BY DEF InstallTopology
<1> QED
  BY <1>3, <1>4, <1>5 DEF DynTyped, TypeOK, declVars, spaceVars, cacheVars

\* The steps of a request are well typed.
LEMMA RequestTyped ==
    ASSUME DynTyped, NEW f \in Faces, Ask(f) \/ Resolve(f) \/ Answer(f)
    PROVE  DynTyped'
<1>1. TypeOK
  BY DEF DynTyped
<1>2. CASE Ask(f)
  <2>1. [seq |-> cutSeq[f], doors |-> None] \in Asking
    BY <1>1 DEF TypeOK, Asking
  <2> QED
    BY <1>2, <2>1 DEF Ask, DynTyped, TypeOK, declVars, spaceVars
<1>3. CASE Resolve(f)
  <2>1. asking[f] \in Asking
    BY <1>1, <1>3 DEF Resolve, TypeOK
  <2>2. [asking[f] EXCEPT !.doors = doors] \in Asking
    BY <1>1, <2>1 DEF TypeOK, Asking
  <2> QED
    BY <1>3, <2>2 DEF Resolve, DynTyped, TypeOK, declVars, spaceVars
<1>4. CASE Answer(f)
  <2>1. asking[f].doors \in Versions
    BY <1>1, <1>4 DEF Answer, TypeOK, Asking
  <2> QED
    BY <1>4, <2>1 DEF Answer, DynTyped, TypeOK, declVars, spaceVars
<1> QED
  BY <1>2, <1>3, <1>4

\* Every step is well typed.
LEMMA TypesKept == DynTyped /\ [Next]_vars => DynTyped'
<1> SUFFICES ASSUME DynTyped, [Next]_vars PROVE DynTyped'
  OBVIOUS
<1>1. CASE UNCHANGED vars
  BY <1>1 DEF vars, DynTyped, TypeOK
<1>2. "drive" \in Rebuilders /\ "host" \in Rebuilders
  BY DEF Rebuilders
<1> QED
  BY <1>1, <1>2, DeclarationTyped, BindTyped, InstallTyped, RequestTyped
  DEF Next, DriveStep, HostStep

\* So is the beginning.
LEMMA TypedAtFirst == Init => DynTyped
<1> SUFFICES ASSUME Init PROVE DynTyped
  OBVIOUS
<1>1. 0 \in Declarations /\ 0 \in Versions
  BY DynamicAssumption DEF Declarations, Versions
<1>2. "listen" \in Points /\ "idle" \in Points /\ "drive" \in Rebuilders
  BY DEF Points, Rebuilders
<1> QED
  BY <1>1, <1>2 DEF Init, DynTyped, TypeOK

\* The steps of the loop that only read keep what is said of the faces.
LEMMA ReadingKeepsFaces ==
    ASSUME DynInv, Write \/ CutDeclaration \/ Listen \/ Lookup \/ Read \/ StoreDeclaration
                     \/ Wait \/ InstallTopology
    PROVE  \A f \in Faces : FaceOK(f)'
<1>1. "drive" \in Rebuilders /\ "host" \in Rebuilders
  BY DEF Rebuilders
<1>2. ASSUME UNCHANGED <<pc, doors, cacheVars>>
      PROVE  \A f \in Faces : FaceOK(f)'
  BY <1>2, FacesUntouched DEF DynInv, Uncut
<1>3. CASE Write \/ CutDeclaration
  BY <1>2, <1>3 DEF Write, CutDeclaration, spaceVars
<1>4. CASE Listen
  BY <1>1, <1>4, GotoKeepsFaces DEF Listen, spaceVars
<1>5. CASE Lookup
  BY <1>1, <1>5, GotoKeepsFaces DEF Lookup, spaceVars
<1>6. CASE Read
  BY <1>1, <1>6, GotoKeepsFaces DEF Read, spaceVars
<1>7. CASE StoreDeclaration
  BY <1>1, <1>7, GotoKeepsFaces DEF StoreDeclaration, spaceVars
<1>8. CASE Wait
  BY <1>1, <1>8, GotoKeepsFaces DEF Wait, spaceVars
<1>9. CASE InstallTopology
  BY <1>1, <1>9, GotoKeepsFaces DEF InstallTopology, spaceVars
<1> QED
  BY <1>3, <1>4, <1>5, <1>6, <1>7, <1>8, <1>9

\* After the swap every face is about to be cut.
LEMMA SwapKeepsFaces ==
    ASSUME DynInv, NEW b \in Rebuilders, Swap(b)
    PROVE  \A f \in Faces : FaceOK(f)'
<1>1. pc'[b] = "cutSpace"
  BY DEF Swap, Goto, DynInv, DynTyped, TypeOK
<1>2. \A f \in Faces : Uncut(f)'
  BY <1>1 DEF Uncut
<1>3. UNCHANGED cacheVars
  BY DEF Swap
<1> QED
  BY <1>2, <1>3 DEF FaceOK, DynInv, cacheVars

\* A cut leaves nothing cached about its face, and puts every request under way
\* before it; the other face is as uncut as it was.
LEMMA CutKeepsFaces ==
    ASSUME DynInv, NEW g, Cut(g), UNCHANGED <<doors, asking>>,
           \A f \in Faces : f # g /\ Uncut(f) => Uncut(f)'
    PROVE  \A f \in Faces : FaceOK(f)'
<1> SUFFICES ASSUME NEW f \in Faces PROVE FaceOK(f)'
  OBVIOUS
<1>1. FaceOK(f) /\ cutSeq[f] \in Nat
  BY DEF DynInv, DynTyped, TypeOK
<1>2. CASE f = g
  <2>1. entry'[f] = None /\ cutSeq'[f] = cutSeq[f] + 1
    BY <1>2 DEF Cut
  <2>2. asking[f] # None => asking[f].seq \in Nat
    BY DEF DynInv, DynTyped, TypeOK, Asking
  <2> QED
    BY <1>1, <2>1, <2>2 DEF FaceOK
<1>3. CASE f # g
  <2>1. entry'[f] = entry[f] /\ cutSeq'[f] = cutSeq[f] /\ (Uncut(f) => Uncut(f)')
    BY <1>3 DEF Cut
  <2> QED
    BY <1>1, <2>1 DEF FaceOK
<1> QED
  BY <1>2, <1>3

\* The steps of a bind.
LEMMA BindKeepsFaces ==
    ASSUME DynInv, NEW b \in Rebuilders,
           Prepare(b) \/ Check(b) \/ Swap(b) \/ CutSpace(b) \/ CutBindings(b)
    PROVE  \A f \in Faces : FaceOK(f)'
<1>1. pc \in [Rebuilders -> Points]
  BY DEF DynInv, DynTyped, TypeOK
<1>2. CASE Prepare(b)
  BY <1>2, GotoKeepsFaces DEF Prepare
<1>3. CASE Check(b)
  BY <1>3, GotoKeepsFaces DEF Check
<1>4. CASE Swap(b)
  BY <1>4, SwapKeepsFaces
<1>5. CASE CutSpace(b)
  <2>1. ASSUME NEW f \in Faces, f # "doors", Uncut(f) PROVE Uncut(f)'
    <3>1. PICK c \in Rebuilders : pc[c] \in {"cutSpace", "cutBindings"}
      BY <2>1 DEF Uncut
    <3>2. pc'[c] \in {"cutSpace", "cutBindings"}
      BY <1>1, <1>5, <3>1 DEF CutSpace, Goto
    <3> QED
      BY <2>1, <3>2 DEF Uncut
  <2> QED
    BY <1>5, <2>1, CutKeepsFaces DEF CutSpace, spaceVars
<1>6. CASE CutBindings(b)
  <2>1. ASSUME NEW f \in Faces, f # "catalog", Uncut(f) PROVE Uncut(f)'
    <3>1. f = "doors"
      BY <2>1, DynamicAssumption
    <3>2. PICK c \in Rebuilders : pc[c] = "cutSpace"
      BY <2>1, <3>1 DEF Uncut
    <3>3. pc'[c] = "cutSpace"
      BY <1>1, <1>6, <3>2 DEF CutBindings, Goto
    <3> QED
      BY <3>1, <3>3 DEF Uncut
  <2> QED
    BY <1>6, <2>1, CutKeepsFaces DEF CutBindings, spaceVars
<1> QED
  BY <1>2, <1>3, <1>4, <1>5, <1>6

\* The steps of a request: it resolves in the doors in force, and its answer is
\* kept only if its thread was not cut since its snapshot.
LEMMA RequestKeepsFaces ==
    ASSUME DynInv, NEW g \in Faces, Ask(g) \/ Resolve(g) \/ Answer(g)
    PROVE  \A f \in Faces : FaceOK(f)'
<1> SUFFICES ASSUME NEW f \in Faces PROVE FaceOK(f)'
  OBVIOUS
<1>1. /\ FaceOK(f) /\ FaceOK(g) /\ cutSeq[g] \in Nat
      /\ asking \in [Faces -> Asking \cup {None}] /\ entry \in [Faces -> Versions \cup {None}]
  BY DEF DynInv, DynTyped, TypeOK
<1>2. Uncut(f)' <=> Uncut(f)
  BY DEF Ask, Resolve, Answer, Uncut
<1>3. CASE Ask(g)
  <2>1. doors' = doors /\ UNCHANGED <<cutSeq, entry>>
    BY <1>3 DEF Ask, spaceVars
  <2>2. asking'[f] = IF f = g THEN [seq |-> cutSeq[g], doors |-> None] ELSE asking[f]
    BY <1>1, <1>3 DEF Ask
  <2> QED
    BY <1>1, <1>2, <2>1, <2>2 DEF FaceOK
<1>4. CASE Resolve(g)
  <2>1. doors' = doors /\ UNCHANGED <<cutSeq, entry>>
    BY <1>4 DEF Resolve, spaceVars
  <2>2. CASE f # g
    <3>1. asking'[f] = asking[f]
      BY <1>1, <1>4, <2>2 DEF Resolve
    <3> QED
      BY <1>1, <1>2, <2>1, <3>1 DEF FaceOK
  <2>3. CASE f = g
    <3>1. asking[g] \in Asking
      BY <1>1, <1>4 DEF Resolve
    <3>2. asking'[g] = None \/ asking'[g] = [asking[g] EXCEPT !.doors = doors]
      BY <1>1, <1>4 DEF Resolve
    <3>3. asking'[g] # None => asking'[g].seq = asking[g].seq /\ asking'[g].doors = doors
      BY <3>1, <3>2 DEF Asking
    <3>4. asking[g] # None
      BY <1>4 DEF Resolve
    <3> QED
      BY <1>1, <1>2, <2>1, <2>3, <3>3, <3>4 DEF FaceOK
  <2> QED
    BY <2>2, <2>3
<1>5. CASE Answer(g)
  <2>1. doors' = doors /\ UNCHANGED cutSeq
    BY <1>5 DEF Answer, spaceVars
  <2>2. CASE f # g
    <3>1. asking'[f] = asking[f] /\ entry'[f] = entry[f]
      BY <1>1, <1>5, <2>2 DEF Answer
    <3> QED
      BY <1>1, <1>2, <2>1, <3>1 DEF FaceOK
  <2>3. CASE f = g
    <3>1. asking'[g] = None
      BY <1>1, <1>5 DEF Answer
    <3>2. asking[g] \in Asking /\ asking[g].doors # None /\ asking[g] # None
      BY <1>1, <1>5 DEF Answer
    <3>3. asking[g].seq \in Nat
      BY <3>2 DEF Asking
    <3>4. entry'[g] = IF cutSeq[g] <= asking[g].seq THEN asking[g].doors ELSE entry[g]
      BY <1>1, <1>5 DEF Answer
    <3>5. cutSeq[g] <= asking[g].seq /\ asking[g].doors # doors => Uncut(g)
      BY <1>1, <3>2, <3>3 DEF FaceOK
    <3> QED
      BY <1>1, <1>2, <2>1, <2>3, <3>1, <3>4, <3>5 DEF FaceOK
  <2> QED
    BY <2>2, <2>3
<1> QED
  BY <1>3, <1>4, <1>5

\* The invariant holds at first, and every step keeps it.
LEMMA DynStart == Init => DynInv
<1>1. Init => \A f \in Faces : FaceOK(f)
  BY DEF Init, FaceOK
<1> QED
  BY <1>1, TypedAtFirst DEF DynInv

LEMMA DynStep == DynInv /\ [Next]_vars => DynInv'
<1> SUFFICES ASSUME DynInv, [Next]_vars PROVE DynInv'
  OBVIOUS
<1>1. "drive" \in Rebuilders /\ "host" \in Rebuilders
  BY DEF Rebuilders
<1>2. CASE UNCHANGED vars
  BY <1>2 DEF DynInv, DynTyped, TypeOK, FaceOK, Uncut, vars
<1>3. CASE Next
  BY <1>1, <1>3, ReadingKeepsFaces, BindKeepsFaces, RequestKeepsFaces, TypesKept
  DEF Next, DriveStep, HostStep, DynInv
<1> QED
  BY <1>2, <1>3

LEMMA DynInvariant == Spec => []DynInv
BY DynStart, DynStep, PTL DEF Spec

\* Every reachable state of a dynamic space is well typed.
THEOREM DynamicTypeCorrect == Spec => []TypeOK
<1>1. DynInv => TypeOK
  BY DEF DynInv, DynTyped
<1> QED
  BY <1>1, DynInvariant, PTL

\* Once a bind has returned, no answer of the doors it replaced is served from
\* the cache, whoever resolved in them and whenever it stores (dynamic.rs,
\* install: the swap, then the cuts).
THEOREM NothingFromGoneDoors == Spec => []NoAnswerFromGoneDoors
<1>1. DynInv => NoAnswerFromGoneDoors
  BY DEF DynInv, FaceOK, NoAnswerFromGoneDoors
<1> QED
  BY <1>1, DynInvariant, PTL

(***************************************************************************)
(* The floor memo.                                                         *)

\* What describe() said of an endpoint, with how long it may be kept.
FloorEntry == [of : Endpoints, version : ContractVersions, read : Nat, until : Int \cup {Nothing}]

MemoTyped ==
  /\ bound \in [Names -> Endpoints]
  /\ place \in [Endpoints -> Addresses \cup {Nothing}]
  /\ contract \in [Endpoints -> ContractVersions]
  /\ now \in Nat
  /\ floors \in [Addresses -> FloorEntry \cup {Nothing}]
  /\ stage \in [Requests -> {"idle", "resolved", "missed", "described", "admitted"}]
  /\ endpoint \in [Requests -> Endpoints \cup {Nothing}]
  /\ started \in [Requests -> Nat]
  /\ floor \in [Requests -> FloorEntry \cup {Nothing}]

\* Live endpoints are allocated, each somewhere else.
Allocated ==
  /\ \A e \in Endpoints : Strong(e) => place[e] \in Addresses
  /\ \A e, f \in Endpoints : Strong(e) /\ Strong(f) /\ e # f => place[e] # place[f]

\* A contract that was read: a static one still holds, an ageing one runs out no
\* later than its age after it was read.
ReadOf(x) ==
  /\ Caching[x.version] = "rebind" => x.version = contract[x.of]
  /\ Caching[x.version] = "age" => x.until \in Int /\ x.until <= x.read + Age

\* An entry is its address's live endpoint's, and of a kind that may be kept.
EntryOK(a) ==
  floors[a] # Nothing =>
    /\ \A e \in Endpoints : Strong(e) /\ place[e] = a => floors[a].of = e
    /\ ReadOf(floors[a])
    /\ Caching[floors[a].version] # "never"

\* A request under way holds its endpoint, and what it was given for it is that
\* endpoint's contract, recent enough.
RequestOK(r) ==
  /\ stage[r] # "idle" => endpoint[r] \in Endpoints /\ started[r] <= now
  /\ stage[r] \in {"described", "admitted"} =>
       /\ floor[r] \in FloorEntry
       /\ floor[r].of = endpoint[r]
       /\ ReadOf(floor[r])
       /\ Caching[floor[r].version] = "age" => started[r] < floor[r].read + Age
       /\ Caching[floor[r].version] = "never" => started[r] <= floor[r].read

MemoInv ==
  /\ MemoTyped /\ Allocated
  /\ \A a \in Addresses : EntryOK(a)
  /\ \A r \in Requests : RequestOK(r)

\* The invariant says what is promised of a request that was admitted.
LEMMA MemoInvSuffices ==
  ASSUME MemoAssumption, MemoInv PROVE OwnContract /\ NoOlderThanDeclared
<1>1. OwnContract
  BY DEF MemoInv, RequestOK, OwnContract
<1>2. ASSUME NEW r \in Requests, stage[r] = "admitted"
      PROVE  LET v == floor[r].version
             IN CASE Caching[v] = "rebind" -> v = contract[endpoint[r]]
                  [] Caching[v] = "age"    -> started[r] < floor[r].read + Age
                  [] Caching[v] = "never"  -> started[r] <= floor[r].read
  <2>1. RequestOK(r)
    BY DEF MemoInv
  <2>2. floor[r].version \in ContractVersions
    BY <1>2, <2>1 DEF RequestOK, FloorEntry
  <2>3. Caching[floor[r].version] \in {"rebind", "age", "never"}
    BY <2>2 DEF MemoAssumption
  <2> QED
    BY <1>2, <2>1, <2>3 DEF RequestOK, ReadOf
<1> QED
  BY <1>1, <1>2 DEF NoOlderThanDeclared

\* The host's steps before a request: a rebind takes a free address.
LEMMA RebindKeeps ==
  ASSUME MemoAssumption, MemoInv, NEW n \in Names, NEW e \in Endpoints, NEW a \in Addresses,
         Rebind(n, e, a)
  PROVE  MemoInv'
<1>1. /\ MemoTyped /\ place[e] = Nothing /\ Free(a)
      /\ bound' = [bound EXCEPT ![n] = e] /\ place' = [place EXCEPT ![e] = a]
      /\ UNCHANGED <<floors, contract, now, stage, endpoint, started, floor>>
  BY DEF Rebind, MemoInv, memoVars, reqVars
<1>2. MemoTyped'
  BY <1>1 DEF MemoTyped
<1>3. ~Strong(e)
  BY <1>1 DEF MemoInv, Allocated, MemoAssumption
<1>4. \A f \in Endpoints : f # e => place'[f] = place[f] /\ (Strong(f)' => Strong(f))
  BY <1>1 DEF Strong, MemoTyped
<1>5. place'[e] = a
  BY <1>1 DEF MemoTyped
<1>6. \A f \in Endpoints : Strong(f) => place[f] # a
  BY <1>1 DEF Free
<1>7. Allocated'
  BY <1>4, <1>5, <1>6 DEF MemoInv, Allocated
<1>8. floors[a] = Nothing
  BY <1>1 DEF Free, Reserved, Held
<1>9. ASSUME NEW b \in Addresses PROVE EntryOK(b)'
  <2>1. EntryOK(b)
    BY DEF MemoInv
  <2>2. CASE b = a
    BY <1>1, <1>8, <2>2 DEF EntryOK
  <2>3. CASE b # a
    BY <1>1, <1>4, <1>5, <2>1, <2>3 DEF EntryOK, ReadOf
  <2> QED
    BY <2>2, <2>3
<1>10. \A r \in Requests : RequestOK(r)'
  BY <1>1 DEF MemoInv, RequestOK, ReadOf
<1> QED
  BY <1>2, <1>7, <1>9, <1>10 DEF MemoInv

\* A contract that changes is not static.
LEMMA ContractChangesKeeps ==
  ASSUME MemoAssumption, MemoInv, NEW e \in Endpoints, NEW v \in ContractVersions, ContractChanges(e, v)
  PROVE  MemoInv'
<1>1. /\ MemoTyped /\ Caching[contract[e]] # "rebind" /\ contract' = [contract EXCEPT ![e] = v]
      /\ UNCHANGED <<floors, bound, place, now, stage, endpoint, started, floor>>
  BY DEF ContractChanges, MemoInv, memoVars, reqVars
<1>2. MemoTyped'
  BY <1>1 DEF MemoTyped
<1>3. ASSUME NEW x \in FloorEntry, ReadOf(x) PROVE ReadOf(x)'
  BY <1>1, <1>3 DEF ReadOf, MemoTyped, FloorEntry
<1>4. \A f \in Endpoints : Strong(f)' <=> Strong(f)
  BY <1>1 DEF Strong
<1>5. Allocated'
  BY <1>1, <1>4 DEF MemoInv, Allocated
<1>6. ASSUME NEW a \in Addresses PROVE EntryOK(a)'
  <2>1. floors[a] # Nothing => floors[a] \in FloorEntry
    BY <1>1 DEF MemoTyped
  <2>2. EntryOK(a)
    BY DEF MemoInv
  <2>3. ReadOf(floors[a]) /\ floors[a] # Nothing => ReadOf(floors[a])'
    BY <1>1, <1>3, <2>1 DEF ReadOf
  <2> QED
    BY <1>1, <1>4, <2>2, <2>3 DEF EntryOK
<1>7. ASSUME NEW r \in Requests PROVE RequestOK(r)'
  <2>1. RequestOK(r)
    BY DEF MemoInv
  <2>2. floor[r] \in FloorEntry /\ ReadOf(floor[r]) => ReadOf(floor[r])'
    BY <1>1, <1>3 DEF ReadOf
  <2> QED
    BY <1>1, <2>1, <2>2 DEF RequestOK
<1> QED
  BY <1>2, <1>5, <1>6, <1>7 DEF MemoInv

\* Time only passes: what has begun has begun.
LEMMA TimePassesKeeps == ASSUME MemoAssumption, MemoInv, TimePasses PROVE MemoInv'
<1>1. /\ MemoTyped /\ now' = now + 1
      /\ UNCHANGED <<floors, bound, place, contract, stage, endpoint, started, floor>>
  BY DEF TimePasses, MemoInv, memoVars, reqVars
<1>2. MemoTyped'
  BY <1>1 DEF MemoTyped
<1>3. Allocated' /\ \A a \in Addresses : EntryOK(a)'
  BY <1>1 DEF MemoInv, Allocated, EntryOK, ReadOf, Strong
<1>4. \A r \in Requests : RequestOK(r)'
  BY <1>1 DEF MemoInv, RequestOK, ReadOf, MemoTyped
<1> QED
  BY <1>2, <1>3, <1>4 DEF MemoInv

\* A cut of the bindings only takes entries away.
LEMMA CuttingKeeps ==
  ASSUME MemoAssumption, MemoInv, ClearMemos \/ ClearFloors \/ ClearProbes
  PROVE  MemoInv'
<1>1. /\ MemoTyped /\ UNCHANGED <<bound, place, contract, now, stage, endpoint, started, floor>>
  BY DEF ClearMemos, ClearFloors, ClearProbes, MemoInv, memoVars, hostVars, reqVars
<1>2. floors' = floors \/ floors' = [a \in Addresses |-> Nothing]
  BY DEF ClearMemos, ClearFloors, ClearProbes, memoVars
<1>3. MemoTyped'
  BY <1>1, <1>2 DEF MemoTyped
<1>4. Allocated' /\ \A r \in Requests : RequestOK(r)'
  BY <1>1 DEF MemoInv, Allocated, RequestOK, ReadOf, Strong
<1>5. ASSUME NEW a \in Addresses PROVE EntryOK(a)'
  <2>1. EntryOK(a)
    BY DEF MemoInv
  <2>2. CASE floors' = floors
    BY <1>1, <2>1, <2>2 DEF EntryOK, ReadOf, Strong
  <2>3. CASE floors' = [b \in Addresses |-> Nothing]
    BY <2>3 DEF EntryOK
  <2> QED
    BY <1>2, <2>2, <2>3
<1> QED
  BY <1>3, <1>4, <1>5 DEF MemoInv

\* A request that resolves holds an endpoint that was live already.
LEMMA ResolveKeeps ==
  ASSUME MemoAssumption, MemoInv, NEW r \in Requests, NEW n \in Names, ResolveName(r, n)
  PROVE  MemoInv'
<1>1. /\ MemoTyped /\ stage[r] = "idle" /\ stage' = [stage EXCEPT ![r] = "resolved"]
      /\ endpoint' = [endpoint EXCEPT ![r] = bound[n]]
      /\ started' = [started EXCEPT ![r] = now]
      /\ UNCHANGED <<floors, bound, place, contract, now, floor>>
  BY DEF ResolveName, MemoInv, memoVars, hostVars
<1>2. MemoTyped'
  BY <1>1 DEF MemoTyped
<1>3. \A e \in Endpoints : Strong(e)' => Strong(e)
  BY <1>1 DEF Strong, MemoTyped
<1>4. Allocated'
  BY <1>1, <1>3 DEF MemoInv, Allocated
<1>5. \A a \in Addresses : EntryOK(a)'
  BY <1>1, <1>3 DEF MemoInv, EntryOK, ReadOf
<1>6. ASSUME NEW q \in Requests PROVE RequestOK(q)'
  <2>1. RequestOK(q)
    BY DEF MemoInv
  <2>2. CASE q = r
    BY <1>1, <2>2 DEF RequestOK, MemoTyped
  <2>3. CASE q # r
    <3>1. stage'[q] = stage[q] /\ endpoint'[q] = endpoint[q] /\ started'[q] = started[q]
      BY <1>1, <2>3 DEF MemoTyped
    <3> QED
      BY <1>1, <2>1, <3>1 DEF RequestOK, ReadOf
  <2> QED
    BY <2>2, <2>3
<1> QED
  BY <1>2, <1>4, <1>5, <1>6 DEF MemoInv

\* A request that is given a contract, or goes on without one, changes nothing
\* for endpoints, entries and the other requests.
LEMMA GivenKeeps ==
  ASSUME MemoInv, NEW r \in Requests, stage[r] # "idle",
         NEW point \in {"missed", "described", "admitted"}, stage' = [stage EXCEPT ![r] = point],
         NEW given \in FloorEntry \cup {Nothing}, floor' = [floor EXCEPT ![r] = given],
         UNCHANGED <<floors, bound, place, contract, now, endpoint, started>>,
         point # "missed" =>
           /\ given \in FloorEntry /\ given.of = endpoint[r] /\ ReadOf(given)
           /\ Caching[given.version] = "age" => started[r] < given.read + Age
           /\ Caching[given.version] = "never" => started[r] <= given.read
  PROVE  MemoInv'
<1>1. MemoTyped
  BY DEF MemoInv
<1>2. MemoTyped'
  BY <1>1 DEF MemoTyped
<1>3. Allocated' /\ \A a \in Addresses : EntryOK(a)'
  BY DEF MemoInv, Allocated, EntryOK, ReadOf, Strong
<1>4. ASSUME NEW q \in Requests PROVE RequestOK(q)'
  <2>1. RequestOK(q)
    BY DEF MemoInv
  <2>2. CASE q = r
    <3>1. stage'[r] = point /\ floor'[r] = given
      BY <1>1 DEF MemoTyped
    <3> QED
      BY <2>1, <2>2, <3>1 DEF RequestOK, ReadOf
  <2>3. CASE q # r
    <3>1. stage'[q] = stage[q] /\ floor'[q] = floor[q]
      BY <1>1, <2>3 DEF MemoTyped
    <3> QED
      BY <2>1, <3>1 DEF RequestOK, ReadOf
  <2> QED
    BY <2>2, <2>3
<1> QED
  BY <1>2, <1>3, <1>4 DEF MemoInv

\* A hit is an entry of the request's own endpoint, which is live, and fresh at
\* the request's stamp.
LEMMA LookupKeeps ==
  ASSUME MemoAssumption, MemoInv, NEW r \in Requests, LookupFloor(r)
  PROVE  MemoInv'
<1>1. /\ MemoTyped /\ stage[r] = "resolved" /\ RequestOK(r)
      /\ UNCHANGED <<floors, bound, place, contract, now, endpoint, started>>
  BY DEF LookupFloor, MemoInv, memoVars, hostVars
<1> DEFINE a == place[endpoint[r]]
           x == floors[a]
<1>2. endpoint[r] \in Endpoints /\ Strong(endpoint[r]) /\ a \in Addresses
  <2>1. endpoint[r] \in Endpoints
    BY <1>1 DEF RequestOK
  <2>2. Strong(endpoint[r])
    BY DEF Strong
  <2> QED
    BY <2>1, <2>2 DEF MemoInv, Allocated
<1>3. CASE x # Nothing /\ Fresh(x, started[r]) /\ floor' = [floor EXCEPT ![r] = x]
           /\ stage' = [stage EXCEPT ![r] = "admitted"]
  <2>1. x \in FloorEntry
    BY <1>1, <1>2, <1>3 DEF MemoTyped
  <2>2. x.of = endpoint[r] /\ ReadOf(x) /\ Caching[x.version] # "never"
    BY <1>2, <1>3 DEF MemoInv, EntryOK
  <2>3. Caching[x.version] = "age" => started[r] < x.read + Age
    <3> SUFFICES ASSUME Caching[x.version] = "age" PROVE started[r] < x.read + Age
      OBVIOUS
    <3>1. x.until \in Int /\ x.until <= x.read + Age
      BY <2>2 DEF ReadOf
    <3>2. started[r] < x.until
      BY <1>3, <3>1 DEF Fresh, MemoAssumption
    <3>3. started[r] \in Nat /\ x.read \in Nat /\ Age \in Nat
      BY <1>1, <2>1 DEF MemoTyped, FloorEntry, MemoAssumption
    <3> QED
      BY <3>1, <3>2, <3>3
  <2> QED
    BY <1>1, <1>3, <2>1, <2>2, <2>3, GivenKeeps
<1>4. CASE stage' = [stage EXCEPT ![r] = "missed"] /\ UNCHANGED floor
  <2>1. floor' = [floor EXCEPT ![r] = floor[r]] /\ floor[r] \in FloorEntry \cup {Nothing}
    BY <1>1, <1>4 DEF MemoTyped
  <2> QED
    BY <1>1, <1>4, <2>1, GivenKeeps
<1> QED
  BY <1>3, <1>4 DEF LookupFloor

\* A contract that is read now holds now, and its age counts from the request's
\* stamp, which is earlier.
LEMMA DescribeKeeps ==
  ASSUME MemoAssumption, MemoInv, NEW r \in Requests, Describe(r)
  PROVE  MemoInv'
<1>1. /\ MemoTyped /\ stage[r] = "missed" /\ RequestOK(r)
      /\ stage' = [stage EXCEPT ![r] = "described"] /\ floor' = [floor EXCEPT ![r] = Described(r)]
      /\ UNCHANGED <<floors, bound, place, contract, now, endpoint, started>>
  BY DEF Describe, MemoInv, memoVars, hostVars
<1> DEFINE x == Described(r)
<1>2. endpoint[r] \in Endpoints /\ started[r] <= now /\ started[r] \in Nat /\ now \in Nat
  BY <1>1 DEF RequestOK, MemoTyped
<1>3. contract[endpoint[r]] \in ContractVersions /\ Age \in Nat /\ Age > 0
  BY <1>1, <1>2 DEF MemoTyped, MemoAssumption
<1>4. /\ x \in FloorEntry /\ x.of = endpoint[r] /\ x.version = contract[endpoint[r]] /\ x.read = now
      /\ Caching[x.version] = "age" => x.until = started[r] + Age
  BY <1>2, <1>3 DEF Described, FloorEntry
<1>5. ReadOf(x)
  BY <1>2, <1>3, <1>4 DEF ReadOf
<1>6. /\ Caching[x.version] = "age" => started[r] < x.read + Age
      /\ Caching[x.version] = "never" => started[r] <= x.read
  BY <1>2, <1>3, <1>4
<1> QED
  BY <1>1, <1>4, <1>5, <1>6, GivenKeeps

\* What is inserted is the contract of a live endpoint, at that endpoint's
\* address; a sweep of a full memo only takes entries away.
LEMMA InsertKeeps ==
  ASSUME MemoAssumption, MemoInv, NEW r \in Requests, Insert(r)
  PROVE  MemoInv'
<1>1. /\ MemoTyped /\ stage[r] = "described" /\ RequestOK(r)
      /\ stage' = [stage EXCEPT ![r] = "admitted"]
      /\ UNCHANGED <<bound, place, contract, now, endpoint, started, floor>>
  BY DEF Insert, MemoInv, hostVars
<1> DEFINE here == place[endpoint[r]]
<1>2. endpoint[r] \in Endpoints /\ Strong(endpoint[r]) /\ here \in Addresses
  <2>1. endpoint[r] \in Endpoints
    BY <1>1 DEF RequestOK
  <2>2. Strong(endpoint[r])
    BY DEF Strong
  <2> QED
    BY <2>1, <2>2 DEF MemoInv, Allocated
<1>3. floor[r] \in FloorEntry /\ floor[r].of = endpoint[r] /\ ReadOf(floor[r])
  BY <1>1 DEF RequestOK
<1>4. /\ floors' \in [Addresses -> FloorEntry \cup {Nothing}]
      /\ \A a \in Addresses :
           \/ floors'[a] = Nothing \/ floors'[a] = floors[a]
           \/ a = here /\ floors'[a] = floor[r] /\ Caching[floor[r].version] # "never"
  <2>1. CASE floors' = floors \/ floors' = [floors EXCEPT ![here] = Nothing]
    BY <1>1, <2>1 DEF MemoTyped
  <2>2. CASE /\ Caching[floor[r].version] # "never"
             /\ \E S \in SUBSET Addresses :
                  floors' = [a \in Addresses |-> IF a = here THEN floor[r]
                                                 ELSE IF a \in S THEN floors[a] ELSE Nothing]
    BY <1>1, <1>3, <2>2 DEF MemoTyped
  <2> QED
    BY <2>1, <2>2 DEF Insert
<1>5. MemoTyped'
  BY <1>1, <1>4 DEF MemoTyped
<1>6. Allocated' /\ \A e \in Endpoints : Strong(e)' <=> Strong(e)
  BY <1>1 DEF MemoInv, Allocated, Strong
<1>7. ASSUME NEW a \in Addresses PROVE EntryOK(a)'
  <2>1. EntryOK(a)
    BY DEF MemoInv
  <2>2. CASE floors'[a] = Nothing
    BY <2>2 DEF EntryOK
  <2>3. CASE floors'[a] = floors[a]
    BY <1>1, <1>6, <2>1, <2>3 DEF EntryOK, ReadOf
  <2>4. CASE a = here /\ floors'[a] = floor[r] /\ Caching[floor[r].version] # "never"
    <3>1. ASSUME NEW e \in Endpoints, Strong(e), place[e] = a PROVE e = endpoint[r]
      BY <1>2, <2>4, <3>1 DEF MemoInv, Allocated
    <3> QED
      BY <1>1, <1>3, <1>6, <2>4, <3>1 DEF EntryOK, ReadOf
  <2> QED
    BY <1>4, <2>2, <2>3, <2>4
<1>8. ASSUME NEW q \in Requests PROVE RequestOK(q)'
  <2>1. RequestOK(q)
    BY DEF MemoInv
  <2>2. CASE q = r
    BY <1>1, <2>1, <2>2 DEF RequestOK, ReadOf
  <2>3. CASE q # r
    <3>1. stage'[q] = stage[q]
      BY <1>1, <2>3 DEF MemoTyped
    <3> QED
      BY <1>1, <2>1, <3>1 DEF RequestOK, ReadOf
  <2> QED
    BY <2>2, <2>3
<1> QED
  BY <1>5, <1>6, <1>7, <1>8 DEF MemoInv

\* A request that ends lets go of its endpoint.
LEMMA RecordKeeps ==
  ASSUME MemoAssumption, MemoInv, NEW r \in Requests, Record(r)
  PROVE  MemoInv'
<1>1. /\ MemoTyped /\ stage' = [stage EXCEPT ![r] = "idle"]
      /\ endpoint' = [endpoint EXCEPT ![r] = Nothing] /\ started' = [started EXCEPT ![r] = 0]
      /\ floor' = [floor EXCEPT ![r] = Nothing]
      /\ UNCHANGED <<floors, bound, place, contract, now>>
  BY DEF Record, MemoInv, hostVars
<1>2. MemoTyped'
  BY <1>1 DEF MemoTyped
<1>3. \A e \in Endpoints : Strong(e)' => Strong(e)
  BY <1>1 DEF Strong, MemoTyped, MemoAssumption
<1>4. Allocated'
  BY <1>1, <1>3 DEF MemoInv, Allocated
<1>5. \A a \in Addresses : EntryOK(a)'
  BY <1>1, <1>3 DEF MemoInv, EntryOK, ReadOf
<1>6. ASSUME NEW q \in Requests PROVE RequestOK(q)'
  <2>1. RequestOK(q)
    BY DEF MemoInv
  <2>2. CASE q = r
    BY <1>1, <2>2 DEF RequestOK, MemoTyped
  <2>3. CASE q # r
    <3>1. /\ stage'[q] = stage[q] /\ endpoint'[q] = endpoint[q] /\ started'[q] = started[q]
          /\ floor'[q] = floor[q]
      BY <1>1, <2>3 DEF MemoTyped
    <3> QED
      BY <1>1, <2>1, <3>1 DEF RequestOK, ReadOf
  <2> QED
    BY <2>2, <2>3
<1> QED
  BY <1>2, <1>4, <1>5, <1>6 DEF MemoInv

\* At first the memo is empty, and what is bound is allocated.
LEMMA MemoStart == ASSUME MemoAssumption PROVE MemosInit => MemoInv
<1> SUFFICES ASSUME MemosInit PROVE MemoInv
  OBVIOUS
<1>1. \A e \in Endpoints : Strong(e) => \E n \in Names : First[n] = e
  BY DEF MemosInit, Strong, MemoAssumption
<1>2. /\ place \in [Endpoints -> Addresses \cup {Nothing}]
      /\ \A e \in Endpoints : place[e] # Nothing <=> \E n \in Names : First[n] = e
      /\ \A e, f \in Endpoints : e # f /\ place[e] # Nothing => place[e] # place[f]
  BY DEF MemosInit
<1>3. Allocated
  BY <1>1, <1>2 DEF Allocated
<1>4. MemoTyped
  BY <1>2 DEF MemosInit, MemoTyped, MemoAssumption
<1>5. (\A a \in Addresses : EntryOK(a)) /\ \A r \in Requests : RequestOK(r)
  BY DEF MemosInit, EntryOK, RequestOK
<1> QED
  BY <1>3, <1>4, <1>5 DEF MemoInv

LEMMA MemoStep == ASSUME MemoAssumption PROVE MemoInv /\ [MemosNext]_contractVars => MemoInv'
<1> SUFFICES ASSUME MemoInv, [MemosNext]_contractVars PROVE MemoInv'
  OBVIOUS
<1>1. CASE UNCHANGED contractVars
  BY <1>1 DEF contractVars, reqVars, MemoInv, MemoTyped, Allocated, EntryOK, RequestOK, ReadOf, Strong
<1>2. CASE MemosNext
  BY <1>2, RebindKeeps, ContractChangesKeeps, TimePassesKeeps, CuttingKeeps, ResolveKeeps,
     LookupKeeps, DescribeKeeps, InsertKeeps, RecordKeeps DEF MemosNext
<1> QED
  BY <1>1, <1>2

\* What is held after an insertion into a memo that is not full, or that a sweep
\* has left with few entries, is within the bound.
LEMMA InsertStaysBounded ==
  ASSUME MemoAssumption, MemoBounded, NEW r \in Requests, Insert(r),
         floors' \in [Addresses -> FloorEntry \cup {Nothing}]
  PROVE  MemoBounded'
<1>1. IsFiniteSet(Addresses) /\ MemoBound \in Nat /\ MemoLow \in Nat /\ MemoLow < MemoBound
  BY DEF MemoAssumption
<1>2. IsFiniteSet(Held) /\ Cardinality(Held) \in Nat /\ Cardinality(Held) <= MemoBound
  BY <1>1, FS_Subset, FS_CardinalityType DEF Held, MemoBounded
<1> DEFINE here == place[endpoint[r]]
<1>3. CASE floors' = floors \/ floors' = [floors EXCEPT ![here] = Nothing]
  <2>1. Held' \subseteq Held
    BY <1>3 DEF Held
  <2>2. Cardinality(Held') <= Cardinality(Held) /\ Cardinality(Held') \in Nat
    BY <1>2, <2>1, FS_Subset, FS_CardinalityType
  <2> QED
    BY <1>1, <1>2, <2>2 DEF MemoBounded
<1>4. CASE \E S \in SUBSET Addresses :
             /\ Kept(S)
             /\ floors' = [a \in Addresses |-> IF a = here THEN floor[r]
                                               ELSE IF a \in S THEN floors[a] ELSE Nothing]
  <2>1. PICK S \in SUBSET Addresses :
          /\ Kept(S)
          /\ floors' = [a \in Addresses |-> IF a = here THEN floor[r]
                                            ELSE IF a \in S THEN floors[a] ELSE Nothing]
    BY <1>4
  <2>2. Held' \subseteq S \cup {here} /\ IsFiniteSet(S) /\ Cardinality(S) \in Nat
    BY <1>1, <2>1, FS_Subset, FS_CardinalityType DEF Held
  <2>3. Cardinality(S) < MemoBound
    BY <1>1, <1>2, <2>1, <2>2 DEF Kept, Full
  <2>4. IsFiniteSet(S \cup {here}) /\ Cardinality(S \cup {here}) <= Cardinality(S) + 1
    BY <2>2, FS_AddElement
  <2>5. Cardinality(Held') <= Cardinality(S \cup {here}) /\ Cardinality(Held') \in Nat
        /\ Cardinality(S \cup {here}) \in Nat
    BY <2>2, <2>4, FS_Subset, FS_CardinalityType
  <2> QED
    BY <1>1, <2>2, <2>3, <2>4, <2>5 DEF MemoBounded
<1> QED
  BY <1>3, <1>4 DEF Insert

\* No other step adds an entry.
LEMMA BoundStep ==
  ASSUME MemoAssumption
  PROVE  MemoInv /\ MemoBounded /\ [MemosNext]_contractVars => MemoBounded'
<1> SUFFICES ASSUME MemoInv, MemoBounded, [MemosNext]_contractVars PROVE MemoBounded'
  OBVIOUS
<1>1. CASE UNCHANGED floors
  BY <1>1 DEF MemoBounded, Held
<1>2. CASE ClearFloors
  <2>1. Held' = {}
    BY <1>2 DEF ClearFloors, Held
  <2> QED
    BY <2>1, FS_EmptySet DEF MemoBounded, MemoAssumption
<1>3. ASSUME NEW r \in Requests, Insert(r) PROVE MemoBounded'
  <2>1. MemoInv'
    BY <1>3, InsertKeeps
  <2> QED
    BY <1>3, <2>1, InsertStaysBounded DEF MemoInv, MemoTyped
<1> QED
  BY <1>1, <1>2, <1>3
  DEF MemosNext, contractVars, memoVars, Rebind, ContractChanges, TimePasses, ClearMemos, ClearProbes,
      ResolveName, LookupFloor, Describe, Record

\* A request is admitted on its own endpoint's contract, no older than that
\* contract allows, and the memo keeps its bound: for any allocator, any number of
\* requests, and endpoints that die and change in between (kernel.rs, FloorMemo).
THEOREM MemosHold ==
  ASSUME MemoAssumption
  PROVE  MemosSpec => []AdmittedOnOwnContract
<1>1. MemosInit => MemoInv /\ MemoBounded
  <2>1. MemosInit => MemoBounded
    <3> SUFFICES ASSUME MemosInit PROVE MemoBounded
      OBVIOUS
    <3>1. Held = {}
      BY DEF MemosInit, Held
    <3> QED
      BY <3>1, FS_EmptySet DEF MemoBounded, MemoAssumption
  <2> QED
    BY <2>1, MemoStart
<1>2. MemoInv /\ MemoBounded /\ [MemosNext]_contractVars => (MemoInv /\ MemoBounded)'
  BY MemoStep, BoundStep
<1>3. MemoInv /\ MemoBounded => AdmittedOnOwnContract
  BY MemoInvSuffices DEF AdmittedOnOwnContract
<1> QED
  BY <1>1, <1>2, <1>3, PTL DEF MemosSpec

(***************************************************************************)
(* Sub-requests.                                                           *)

Outcomes == {"ok", "failed", NoAnswer}
Places == {"idle", "queued", "running", "calling", "joining", "serving", "done", "gone"}

Typed ==
  /\ state \in [Nodes -> Places]
  /\ answer \in [Nodes -> Outcomes]
  /\ results \in [Nodes -> Seq(Outcomes)]
  /\ recorded \in [Nodes -> SUBSET Nodes]
  /\ arrival \in [Nodes -> Seq(Nodes)]
  /\ closure \in [Nodes -> {"none", "running", "blocked", "returned", "panicked"}]
  /\ asked \in [Nodes -> Nat]

Active(n) == state[n] \notin {"idle", "done", "gone"}

\* The answers an invocation has are those of its first requests, which are done.
AnsweredInTurn(n) ==
  /\ Answered(n) <= Len(Kids[n]) /\ Len(results[n]) = Answered(n)
  /\ \A i \in DOMAIN Kids[n] :
       /\ i <= Answered(n) <=> state[Kids[n][i]] = "done"
       /\ i <= Answered(n) => results[n][i] = answer[Kids[n][i]]
       \* What is under way is the next one, and the invocation awaits it.
       /\ Active(Kids[n][i]) => state[n] = "calling" /\ i = Answered(n) + 1
  /\ recorded[n] = {Kids[n][i] : i \in 1 .. Answered(n)}
  /\ asked[n] <= Len(Kids[n])

\* Each branch arrives once, when it is done; what is joined is every branch.
Branches(n) ==
  /\ \A i, j \in DOMAIN arrival[n] : arrival[n][i] = arrival[n][j] => i = j
  /\ ToSet(arrival[n]) = {k \in ToSet(Kids[n]) : state[k] = "done"}
  /\ \/ results[n] = << >> /\ recorded[n] = {}
     \/ /\ \A k \in ToSet(Kids[n]) : state[k] = "done"
        /\ results[n] = Collected(n) /\ recorded[n] = ToSet(Kids[n])

\* Only a scope serves.
Scopes == \A n \in Nodes : state[n] = "serving" => Way[n] = "scope_sync"

SubInv ==
  /\ Typed
  /\ \A n \in Nodes : IF Way[n] = "fan_out" THEN Branches(n) ELSE AnsweredInTurn(n)
  /\ Scopes
  /\ \A n \in Nodes : state[n] = "done" /\ Way[n] \in {"issue", "fan_out"}
                        => Len(results[n]) = Len(Kids[n])

-----------------------------------------------------------------------------
(* The tree of requests. *)

LEMMA Asker ==
  ASSUME NEW p \in Nodes, NEW i \in DOMAIN Kids[p]
  PROVE  /\ Kids[p][i] \in Nodes /\ Kids[p][i] \in ToSet(Kids[p]) /\ Kids[p][i] # Root
         /\ Parent(Kids[p][i]) = p
<1>1. Kids[p] \in Seq(Nodes)
  BY SubAssumption
<1>2. Kids[p][i] \in Nodes /\ Kids[p][i] \in ToSet(Kids[p])
  BY <1>1, ElementOfSeq DEF ToSet
<1>3. \A q \in Nodes : Kids[p][i] \in ToSet(Kids[q]) => q = p
  BY SubAssumption DEF ToSet
<1>4. Kids[p][i] # Root
  BY <1>2, SubAssumption
<1> QED
  BY <1>2, <1>3, <1>4 DEF Parent

LEMMA Asked ==
  ASSUME NEW n \in Nodes, n # Root
  PROVE  Parent(n) \in Nodes /\ \E i \in DOMAIN Kids[Parent(n)] : Kids[Parent(n)][i] = n
<1>1. \E p \in Nodes : n \in ToSet(Kids[p])
  BY SubAssumption
<1>2. Parent(n) \in Nodes /\ n \in ToSet(Kids[Parent(n)])
  BY <1>1 DEF Parent
<1> QED
  BY <1>2 DEF ToSet

\* As many different branches as were asked for are all that were asked for.
LEMMA AllArrived ==
  ASSUME NEW n \in Nodes, NEW s \in Seq(Nodes), ToSet(s) \subseteq ToSet(Kids[n]),
         Len(s) = Len(Kids[n]), \A i, j \in DOMAIN s : s[i] = s[j] => i = j
  PROVE  ToSet(s) = ToSet(Kids[n])
<1> DEFINE k == Kids[n]
           len == Len(k)
           T == ToSet(k)
<1>1. k \in Seq(Nodes) /\ len \in Nat /\ DOMAIN k = 1 .. len /\ DOMAIN s = 1 .. len
  BY SubAssumption, LenProperties
<1>2. k \in Bijection(1 .. len, T)
  <2>1. k \in [1 .. len -> T] /\ T = {k[i] : i \in 1 .. len}
    BY <1>1 DEF ToSet
  <2>2. \A i, j \in 1 .. len : k[i] = k[j] => i = j
    <3>1. \A i, j \in DOMAIN Kids[n] : Kids[n][i] = Kids[n][j] => i = j
      BY SubAssumption
    <3> QED
      BY <1>1, <3>1
  <2> QED
    BY <2>1, <2>2 DEF Bijection, Injection, Surjection, IsInjective
<1>3. IsFiniteSet(1 .. len) /\ Cardinality(1 .. len) = len
  BY <1>1, FS_Interval
<1>4. IsFiniteSet(T) /\ Cardinality(T) = len
  BY <1>2, <1>3, FS_Bijection DEF ExistsBijection
<1>5. s \in Injection(1 .. len, T)
  <2>1. s \in [1 .. len -> T]
    BY <1>1 DEF ToSet
  <2> QED
    BY <1>1, <2>1 DEF Injection, IsInjective
<1>6. s \in Surjection(1 .. len, T)
  BY <1>3, <1>4, <1>5, FS_Injection
<1>7. \A t \in T : \E i \in DOMAIN s : s[i] = t
  BY <1>1, <1>6 DEF Surjection
<1> HIDE DEF T
<1>8. T \subseteq ToSet(s)
  BY <1>7 DEF ToSet
<1> QED
  BY <1>8 DEF T

-----------------------------------------------------------------------------
(* Steps by which nothing is answered. *)

Waits(n) ==
  Way[n] # "fan_out" => \A i \in DOMAIN Kids[n] :
    Active(Kids[n][i]) => state[n] = "calling" /\ i = Answered(n) + 1

LEMMA Quiet ==
  ASSUME SubInv, Typed', UNCHANGED <<answer, results, recorded, arrival>>,
         \A n \in Nodes : state'[n] = "done" <=> state[n] = "done",
         \A n \in Nodes : Way[n] # "fan_out" => asked'[n] <= Len(Kids[n]),
         \A n \in Nodes : Waits(n)', Scopes'
  PROVE  SubInv'
<1>1. ASSUME NEW n \in Nodes, Way[n] # "fan_out" PROVE AnsweredInTurn(n)'
  <2>1. AnsweredInTurn(n)
    BY <1>1 DEF SubInv
  <2>2. \A i \in DOMAIN Kids[n] : Kids[n][i] \in Nodes
    BY Asker
  <2> QED
    BY <1>1, <2>1, <2>2 DEF AnsweredInTurn, Answered, Waits
<1>2. ASSUME NEW n \in Nodes, Way[n] = "fan_out" PROVE Branches(n)'
  <2>1. Branches(n)
    BY <1>2 DEF SubInv
  <2>2. ToSet(Kids[n]) \subseteq Nodes
    BY Asker DEF ToSet
  <2>3. Collected(n)' = Collected(n)
    BY DEF Collected
  <2>4. {k \in ToSet(Kids[n]) : state'[k] = "done"} = {k \in ToSet(Kids[n]) : state[k] = "done"}
    BY <2>2
  <2> QED
    BY <2>1, <2>2, <2>3, <2>4 DEF Branches
<1>3. \A n \in Nodes : state'[n] = "done" /\ Way[n] \in {"issue", "fan_out"}
                         => Len(results'[n]) = Len(Kids[n])
  BY DEF SubInv
<1> QED
  BY <1>1, <1>2, <1>3 DEF SubInv

LEMMA Waiting == ASSUME SubInv, NEW n \in Nodes PROVE Waits(n)
  BY DEF SubInv, AnsweredInTurn, Waits

LEMMA AskedOf == ASSUME SubInv, NEW n \in Nodes, Way[n] # "fan_out" PROVE asked[n] <= Len(Kids[n])
  BY DEF SubInv, AnsweredInTurn

\* A task is taken or queued again, or a scope opens: nobody is asked by one that
\* did not call.
LEMMA MovedOn ==
  ASSUME SubInv, NEW n \in Nodes, NEW to \in {"running", "serving"},
         state[n] \in {"queued", "running"}, to = "serving" => Way[n] = "scope_sync",
         state' = [state EXCEPT ![n] = to],
         UNCHANGED <<arrival, answer, results, recorded, asked>>, Typed'
  PROVE  SubInv'
<1>1. ASSUME NEW m \in Nodes PROVE Waits(m)'
  <2>1. Waits(m) /\ (Way[m] # "fan_out" => \A i \in DOMAIN Kids[m] : Kids[m][i] \in Nodes)
    BY <1>1, Waiting, Asker
  <2> QED
    BY <2>1 DEF Waits, Active, Answered, SubInv, Typed
<1>2. \A m \in Nodes : state'[m] = "done" <=> state[m] = "done"
  BY DEF SubInv, Typed
<1>3. Scopes'
  BY DEF SubInv, Typed, Scopes
<1> QED
  BY <1>1, <1>2, <1>3, AskedOf, Quiet

\* An invocation asks the next one: what it awaits is that one alone.
LEMMA Calls ==
  ASSUME SubInv, NEW n \in Nodes, Way[n] # "fan_out", state[n] \in {"running", "serving"},
         Answered(n) < Len(Kids[n]),
         state' = [state EXCEPT ![n] = "calling", ![Kids[n][Answered(n) + 1]] = "running"],
         UNCHANGED <<arrival, answer, results, recorded, asked>>, Typed'
  PROVE  SubInv'
<1> DEFINE next == Answered(n) + 1
           c == Kids[n][next]
<1>1. next \in DOMAIN Kids[n] /\ next \in Nat /\ Answered(n) \in Nat
  BY SubAssumption, LenProperties DEF SubInv, Typed, Answered
<1>2. c \in Nodes /\ c # Root /\ Parent(c) = n
  BY <1>1, Asker
<1>3. ~Active(c) /\ state[c] # "done"
  BY <1>1 DEF SubInv, AnsweredInTurn
<1>4. c # n
  BY <1>3 DEF Active
<1>5. ASSUME NEW m \in Nodes PROVE Waits(m)'
  <2> SUFFICES ASSUME Way[m] # "fan_out", NEW i \in DOMAIN Kids[m], Active(Kids[m][i])'
               PROVE  state'[m] = "calling" /\ i = Answered(m)' + 1
    BY DEF Waits
  <2>1. Kids[m][i] \in Nodes /\ Parent(Kids[m][i]) = m
    BY Asker
  <2>2. Answered(m)' = Answered(m)
    BY DEF Answered
  <2>3. CASE Kids[m][i] = c
    <3>1. m = n /\ i = next
      BY <1>1, <1>2, <2>1, <2>3, SubAssumption
    <3> QED
      BY <1>4, <2>2, <3>1 DEF SubInv, Typed
  <2>4. CASE Kids[m][i] # c
    <3>1. Active(Kids[m][i])
      BY <2>1, <2>4 DEF Active, SubInv, Typed
    <3>2. state[m] = "calling" /\ i = Answered(m) + 1
      BY <3>1, Waiting DEF Waits
    <3>3. m # c /\ m # n
      BY <1>3, <3>2 DEF Active
    <3> QED
      BY <2>2, <3>2, <3>3 DEF SubInv, Typed
  <2> QED
    BY <2>3, <2>4
<1>6. \A m \in Nodes : state'[m] = "done" <=> state[m] = "done"
  BY <1>2, <1>3 DEF SubInv, Typed
<1>7. Scopes'
  BY <1>2 DEF SubInv, Typed, Scopes
<1> QED
  BY <1>5, <1>6, <1>7, AskedOf, Quiet

-----------------------------------------------------------------------------
(* An answer. *)

\* Who awaits the answer of n and does not fan out called n, and n was next.
LEMMA Caller ==
  ASSUME SubInv, NEW n \in Nodes, n # Root, Active(n), Way[Parent(n)] # "fan_out"
  PROVE  /\ state[Parent(n)] = "calling"
         /\ Answered(Parent(n)) + 1 \in DOMAIN Kids[Parent(n)]
         /\ n = Kids[Parent(n)][Answered(Parent(n)) + 1]
<1>1. PICK i \in DOMAIN Kids[Parent(n)] : Kids[Parent(n)][i] = n
  BY Asked
<1> QED
  BY <1>1, Asked, Waiting DEF Waits

LEMMA FinishTyped ==
  ASSUME SubInv, NEW n \in Nodes, NEW outcome \in Outcomes, Finish(n, outcome)
  PROVE  Typed'
<1>1. Typed
  BY DEF SubInv
<1>2. n # Root => Parent(n) \in Nodes
  BY Asked
<1>3. state' \in [Nodes -> Places] /\ answer' \in [Nodes -> Outcomes] /\ asked' = asked
  BY <1>1, <1>2 DEF Typed, Finish, Resumed, Places
<1>4. CASE n = Root
  BY <1>1, <1>3, <1>4 DEF Typed, Finish
<1>5. CASE n # Root
  <2>1. Append(arrival[Parent(n)], n) \in Seq(Nodes)
    BY <1>1, <1>2, <1>5, AppendProperties DEF Typed
  <2>2. Append(results[Parent(n)], outcome) \in Seq(Outcomes)
    BY <1>1, <1>2, <1>5, AppendProperties DEF Typed
  <2>3. arrival' \in [Nodes -> Seq(Nodes)]
    BY <1>1, <1>2, <1>5, <2>1 DEF Typed, Finish
  <2>4. results' \in [Nodes -> Seq(Outcomes)]
    BY <1>1, <1>2, <1>5, <2>2 DEF Typed, Finish
  <2>5. recorded' \in [Nodes -> SUBSET Nodes]
    <3>1. recorded[Parent(n)] \cup {n} \in SUBSET Nodes
      BY <1>1, <1>2, <1>5 DEF Typed
    <3>2. recorded' = recorded \/ recorded' = [recorded EXCEPT ![Parent(n)] = @ \cup {n}]
      BY <1>5 DEF Finish
    <3> QED
      BY <1>1, <3>1, <3>2 DEF Typed
  <2>6. closure' \in [Nodes -> {"none", "running", "blocked", "returned", "panicked"}]
    BY <1>1, <1>2, <1>5 DEF Typed, Finish
  <2> QED
    BY <1>1, <1>3, <2>3, <2>4, <2>5, <2>6 DEF Typed
<1> QED
  BY <1>4, <1>5

\* What the answer of n changes of a state that is not n's: that of who called it.
LEMMA FinishStates ==
  ASSUME SubInv, NEW n \in Nodes, NEW outcome \in Outcomes, Finish(n, outcome), Active(n),
         state[n] # "calling"
  PROVE  /\ state'[n] = "done" /\ answer'[n] = outcome
         /\ \A m \in Nodes \ {n} : answer'[m] = answer[m]
         /\ \A m \in Nodes \ {n} :
              \/ state'[m] = state[m]
              \/ /\ n # Root /\ m = Parent(n) /\ Way[m] # "fan_out"
                 /\ state[m] = "calling" /\ state'[m] \in {"running", "serving"}
<1>1. state \in [Nodes -> Places] /\ answer \in [Nodes -> Outcomes]
  BY DEF SubInv, Typed
<1>2. n # Root /\ Way[Parent(n)] # "fan_out" => state[Parent(n)] = "calling" /\ Parent(n) # n
  BY Caller
<1>3. n # Root => Parent(n) \in Nodes
  BY Asked
<1> QED
  BY <1>1, <1>2, <1>3 DEF Finish, Resumed

LEMMA FinishElsewhere ==
  ASSUME SubInv, NEW n \in Nodes, NEW outcome \in Outcomes, Finish(n, outcome), Active(n),
         state[n] # "calling", NEW m \in Nodes, n # Root => m # Parent(n)
  PROVE  IF Way[m] = "fan_out" THEN Branches(m)' ELSE AnsweredInTurn(m)'
<1>1. arrival'[m] = arrival[m] /\ results'[m] = results[m] /\ recorded'[m] = recorded[m]
      /\ asked'[m] = asked[m]
  BY Asked DEF Finish, SubInv, Typed
<1>2. \A i \in DOMAIN Kids[m] : Kids[m][i] \in Nodes \ {n}
  BY Asker, Asked
<1>3. \A i \in DOMAIN Kids[m] :
         /\ answer'[Kids[m][i]] = answer[Kids[m][i]]
         /\ state'[Kids[m][i]] = "done" <=> state[Kids[m][i]] = "done"
         /\ Active(Kids[m][i])' <=> Active(Kids[m][i])
  BY <1>2, FinishStates DEF Active
<1>4. CASE Way[m] # "fan_out"
  <2>1. AnsweredInTurn(m)
    BY <1>4 DEF SubInv
  <2>2. state[m] = "calling" => state'[m] = "calling"
    BY FinishStates
  <2> QED
    BY <1>1, <1>3, <1>4, <2>1, <2>2 DEF AnsweredInTurn, Answered
<1>5. CASE Way[m] = "fan_out"
  <2>1. Branches(m)
    BY <1>5 DEF SubInv
  <2>2. Collected(m)' = Collected(m)
    BY <1>3 DEF Collected
  <2>3. \A k \in ToSet(Kids[m]) : state'[k] = "done" <=> state[k] = "done"
    BY <1>3 DEF ToSet
  <2>4. {k \in ToSet(Kids[m]) : state'[k] = "done"} = {k \in ToSet(Kids[m]) : state[k] = "done"}
    BY <2>3
  <2> QED
    BY <1>1, <1>5, <2>1, <2>2, <2>3, <2>4 DEF Branches
<1> QED
  BY <1>4, <1>5

LEMMA FinishInTurn ==
  ASSUME SubInv, NEW n \in Nodes, NEW outcome \in Outcomes, Finish(n, outcome), Active(n),
         state[n] # "calling", n # Root, Way[Parent(n)] # "fan_out"
  PROVE  AnsweredInTurn(Parent(n))'
<1> DEFINE p == Parent(n)
           next == Answered(p) + 1
<1>1. p \in Nodes /\ state[p] = "calling" /\ next \in DOMAIN Kids[p] /\ n = Kids[p][next]
  BY Asked, Caller
<1>2. AnsweredInTurn(p)
  BY <1>1 DEF SubInv
<1>3. arrival[p] \in Seq(Nodes) /\ results[p] \in Seq(Outcomes)
  BY <1>1 DEF SubInv, Typed
<1>4. Kids[p] \in Seq(Nodes) /\ DOMAIN Kids[p] = 1 .. Len(Kids[p]) /\ Len(Kids[p]) \in Nat
      /\ Answered(p) \in Nat
  BY <1>1, <1>3, SubAssumption, LenProperties DEF Answered
<1>5. /\ arrival'[p] = Append(arrival[p], n) /\ results'[p] = Append(results[p], outcome)
      /\ recorded'[p] = recorded[p] \cup {n} /\ asked'[p] = asked[p]
  BY <1>1 DEF Finish, SubInv, Typed
<1>6. Answered(p)' = next
  BY <1>3, <1>5, AppendProperties DEF Answered
<1>7. /\ Len(results'[p]) = next /\ results'[p][next] = outcome
      /\ \A i \in 1 .. Answered(p) : results'[p][i] = results[p][i]
  BY <1>2, <1>3, <1>5, AppendProperties DEF AnsweredInTurn
<1>8. \A i \in DOMAIN Kids[p] : Kids[p][i] \in Nodes /\ (Kids[p][i] = n <=> i = next)
  BY <1>1, Asker, SubAssumption
<1>9. \A i \in DOMAIN Kids[p] : i # next =>
         /\ answer'[Kids[p][i]] = answer[Kids[p][i]]
         /\ state'[Kids[p][i]] = "done" <=> state[Kids[p][i]] = "done"
         /\ Active(Kids[p][i])' <=> Active(Kids[p][i])
  BY <1>8, FinishStates DEF Active
<1>10. next <= Len(Kids[p])
  BY <1>1, <1>4
<1>11. ASSUME NEW i \in DOMAIN Kids[p]
       PROVE  /\ i <= next <=> state'[Kids[p][i]] = "done"
              /\ i <= next => results'[p][i] = answer'[Kids[p][i]]
              /\ ~Active(Kids[p][i])'
  <2>1. CASE i = next
    <3>1. Kids[p][i] = n /\ state'[n] = "done" /\ answer'[n] = outcome
      BY <1>8, <2>1, FinishStates
    <3> QED
      BY <1>4, <1>7, <2>1, <3>1 DEF Active
  <2>2. CASE i # next
    <3>1. i \in Nat /\ (i <= next <=> i <= Answered(p)) /\ i >= 1
      BY <1>4, <2>2
    <3>2. ~Active(Kids[p][i])
      BY <1>2, <2>2 DEF AnsweredInTurn
    <3>3. i <= Answered(p) => results[p][i] = answer[Kids[p][i]]
      BY <1>2 DEF AnsweredInTurn
    <3>4. i <= Answered(p) <=> state[Kids[p][i]] = "done"
      BY <1>2 DEF AnsweredInTurn
    <3> QED
      BY <1>4, <1>7, <1>9, <2>2, <3>1, <3>2, <3>3, <3>4
  <2> QED
    BY <2>1, <2>2
<1>12. recorded'[p] = {Kids[p][i] : i \in 1 .. next}
  <2>1. recorded[p] = {Kids[p][i] : i \in 1 .. Answered(p)}
    BY <1>2 DEF AnsweredInTurn
  <2>2. 1 .. next = 1 .. Answered(p) \cup {next}
    BY <1>4
  <2> QED
    BY <1>1, <1>5, <2>1, <2>2
<1>13. asked'[p] <= Len(Kids[p])
  BY <1>2, <1>5 DEF AnsweredInTurn
<1> QED
  BY <1>6, <1>7, <1>10, <1>11, <1>12, <1>13 DEF AnsweredInTurn

LEMMA FinishBranch ==
  ASSUME SubInv, NEW n \in Nodes, NEW outcome \in Outcomes, Finish(n, outcome), Active(n),
         state[n] # "calling", n # Root, Way[Parent(n)] = "fan_out"
  PROVE  Branches(Parent(n))'
<1> DEFINE p == Parent(n)
<1>1. p \in Nodes /\ n \in ToSet(Kids[p])
  BY Asked DEF ToSet
<1>2. Branches(p)
  BY <1>1 DEF SubInv
<1>3. arrival[p] \in Seq(Nodes)
  BY <1>1 DEF SubInv, Typed
<1>4. arrival'[p] = Append(arrival[p], n) /\ results'[p] = results[p] /\ recorded'[p] = recorded[p]
  BY <1>1 DEF Finish, SubInv, Typed
<1>5. state[n] # "done" /\ state'[n] = "done"
  BY FinishStates DEF Active
<1>6. results[p] = << >> /\ recorded[p] = {}
  BY <1>1, <1>2, <1>5 DEF Branches
<1>7. \A k \in ToSet(Kids[p]) \ {n} : state'[k] = "done" <=> state[k] = "done"
  <2>1. \A k \in ToSet(Kids[p]) : k \in Nodes
    BY <1>1, Asker DEF ToSet
  <2> QED
    BY <2>1, FinishStates
<1>8. n \notin ToSet(arrival[p])
  BY <1>2, <1>5 DEF Branches
<1>9. /\ Len(arrival'[p]) = Len(arrival[p]) + 1 /\ arrival'[p][Len(arrival[p]) + 1] = n
      /\ \A i \in 1 .. Len(arrival[p]) : arrival'[p][i] = arrival[p][i]
      /\ DOMAIN arrival'[p] = 1 .. Len(arrival[p]) + 1 /\ DOMAIN arrival[p] = 1 .. Len(arrival[p])
      /\ Len(arrival[p]) \in Nat
  BY <1>3, <1>4, AppendProperties, LenProperties
<1>10. DOMAIN arrival'[p] = DOMAIN arrival[p] \cup {Len(arrival[p]) + 1}
  BY <1>9
<1>11. \A i, j \in DOMAIN arrival'[p] : arrival'[p][i] = arrival'[p][j] => i = j
  <2>1. \A i, j \in DOMAIN arrival[p] : arrival[p][i] = arrival[p][j] => i = j
    BY <1>2 DEF Branches
  <2>2. \A i \in DOMAIN arrival[p] : arrival'[p][i] = arrival[p][i] /\ arrival[p][i] # n
    BY <1>8, <1>9 DEF ToSet
  <2> QED
    BY <1>9, <1>10, <2>1, <2>2
<1>12. ToSet(arrival'[p]) = ToSet(arrival[p]) \cup {n}
  <2>1. ASSUME NEW x PROVE x \in ToSet(arrival'[p]) <=> x \in ToSet(arrival[p]) \cup {n}
    BY <1>9, <1>10 DEF ToSet
  <2> QED
    BY <2>1
<1>13. ToSet(arrival'[p]) = {k \in ToSet(Kids[p]) : state'[k] = "done"}
  BY <1>1, <1>2, <1>5, <1>7, <1>12 DEF Branches
<1> QED
  BY <1>4, <1>6, <1>11, <1>13 DEF Branches

LEMMA Finishes ==
  ASSUME SubInv, NEW n \in Nodes, NEW outcome \in Outcomes, Finish(n, outcome), Active(n),
         state[n] # "calling",
         Way[n] \in {"issue", "fan_out"} => Len(results[n]) = Len(Kids[n])
  PROVE  SubInv'
<1>1. \A m \in Nodes : IF Way[m] = "fan_out" THEN Branches(m)' ELSE AnsweredInTurn(m)'
  BY FinishElsewhere, FinishInTurn, FinishBranch
<1>2. ASSUME NEW m \in Nodes, state'[m] = "done", Way[m] \in {"issue", "fan_out"}
      PROVE  Len(results'[m]) = Len(Kids[m])
  <2>1. m = n \/ state[m] = "done"
    BY <1>2, FinishStates
  <2>2. Len(results[m]) = Len(Kids[m])
    BY <1>2, <2>1 DEF SubInv
  <2>3. n # Root /\ m = Parent(n) => Way[m] = "fan_out"
    <3> SUFFICES ASSUME n # Root, m = Parent(n), Way[m] # "fan_out" PROVE FALSE
      OBVIOUS
    <3>1. state[m] = "calling"
      BY Caller
    <3> QED
      BY <2>1, <3>1
  <2>4. results'[m] = results[m]
    BY <2>3, Asked DEF Finish, SubInv, Typed
  <2> QED
    BY <2>2, <2>4
<1>3. ASSUME NEW m \in Nodes, state'[m] = "serving" PROVE Way[m] = "scope_sync"
  <2>1. m # n
    BY <1>3, FinishStates
  <2>2. CASE state'[m] = state[m]
    BY <1>3, <2>2 DEF SubInv, Scopes
  <2>3. CASE state'[m] # state[m]
    <3>1. n # Root /\ m = Parent(n) /\ Way[m] # "fan_out"
      BY <2>1, <2>3, FinishStates
    <3>2. Way[m] # "issue"
      BY <1>3, <2>1, <3>1 DEF Finish, Resumed, SubInv, Typed
    <3>3. Way[m] # "leaf"
      BY <3>1, Asked, SubAssumption
    <3> QED
      BY <3>1, <3>2, <3>3, SubAssumption
  <2> QED
    BY <2>2, <2>3
<1> QED
  BY <1>1, <1>2, <1>3, FinishTyped DEF SubInv, Scopes

-----------------------------------------------------------------------------
(* The steps, one by one. *)

LEMMA SubStart == SubInit => SubInv
<1> SUFFICES ASSUME SubInit PROVE SubInv
  OBVIOUS
<1>1. Typed
  BY SubAssumption DEF SubInit, Typed, Outcomes, Places
<1>2. ASSUME NEW n \in Nodes PROVE arrival[n] = << >> /\ results[n] = << >> /\ recorded[n] = {}
  BY <1>2 DEF SubInit
<1>3. \A n \in Nodes : \A i \in DOMAIN Kids[n] : state[Kids[n][i]] = "idle"
  BY Asker DEF SubInit
<1>4. \A n \in Nodes : DOMAIN Kids[n] = 1 .. Len(Kids[n]) /\ Len(Kids[n]) \in Nat
  BY SubAssumption, LenProperties
<1>5. ASSUME NEW n \in Nodes, Way[n] # "fan_out" PROVE AnsweredInTurn(n)
  <2>1. /\ Answered(n) = 0 /\ Len(results[n]) = 0 /\ asked[n] = 0 /\ 1 .. 0 = {}
        /\ recorded[n] = {}
    BY <1>2 DEF Answered, SubInit
  <2>2. \A i \in DOMAIN Kids[n] : i > 0
    BY <1>4
  <2> QED
    BY <1>3, <1>4, <2>1, <2>2 DEF AnsweredInTurn, Active
<1>6. ASSUME NEW n \in Nodes, Way[n] = "fan_out" PROVE Branches(n)
  BY <1>2, <1>3 DEF Branches, ToSet
<1>7. \A n \in Nodes : state[n] # "done"
  BY DEF SubInit
<1>8. Scopes
  BY DEF SubInit, Scopes
<1> QED
  BY <1>1, <1>5, <1>6, <1>7, <1>8 DEF SubInv

LEMMA StartKeeps == ASSUME SubInv, NEW n \in Nodes, Start(n) PROVE SubInv'
<1>1. Typed'
  BY DEF SubInv, Typed, Start, Places
<1> QED
  BY <1>1, MovedOn DEF Start

LEMMA OpenScopeKeeps == ASSUME SubInv, NEW n \in Nodes, OpenScope(n) PROVE SubInv'
<1>1. Typed'
  BY DEF SubInv, Typed, OpenScope, Places
<1> QED
  BY <1>1, MovedOn DEF OpenScope

LEMMA AnswerKeeps ==
  ASSUME SubInv, NEW n \in Nodes, Succeed(n) \/ Fail(n) \/ EndScope(n) PROVE SubInv'
<1>1. CASE Succeed(n)
  BY <1>1, Finishes DEF Succeed, Active, Outcomes
<1>2. CASE Fail(n)
  <2>1. Way[n] = "leaf"
    BY <1>2, SubAssumption DEF Fail
  <2> QED
    BY <1>2, <2>1, Finishes DEF Fail, Active, Outcomes
<1>3. CASE EndScope(n)
  <2>1. state[n] = "serving"
    BY <1>3 DEF EndScope
  <2>2. Way[n] = "scope_sync"
    BY <2>1 DEF SubInv, Scopes
  <2> QED
    BY <1>3, <2>1, <2>2, Finishes DEF EndScope, Active, Outcomes
<1> QED
  BY <1>1, <1>2, <1>3

LEMMA CallTyped ==
  ASSUME SubInv, NEW n \in Nodes, Issue(n) \/ Serve(n), Answered(n) < Len(Kids[n]) PROVE Typed'
<1>1. Answered(n) + 1 \in DOMAIN Kids[n]
  BY SubAssumption, LenProperties DEF SubInv, Typed, Answered
<1>2. Kids[n][Answered(n) + 1] \in Nodes
  BY <1>1, Asker
<1>3. state' = [state EXCEPT ![n] = "calling", ![Kids[n][Answered(n) + 1]] = "running"]
      /\ UNCHANGED <<answer, results, recorded, arrival, closure, asked>>
  BY DEF Issue, Serve
<1>4. state' \in [Nodes -> Places]
  BY <1>2, <1>3 DEF SubInv, Typed, Places
<1> QED
  BY <1>3, <1>4 DEF SubInv, Typed

LEMMA IssueKeeps == ASSUME SubInv, NEW n \in Nodes, Issue(n) PROVE SubInv'
  BY CallTyped, Calls DEF Issue

LEMMA ServeKeeps == ASSUME SubInv, NEW n \in Nodes, Serve(n) PROVE SubInv'
<1>1. Way[n] # "fan_out"
  BY DEF Serve, SubInv, Scopes
<1>2. Answered(n) < Len(Kids[n])
  <2>1. asked[n] <= Len(Kids[n]) /\ Answered(n) < asked[n]
    BY <1>1, AskedOf DEF Serve
  <2>2. asked[n] \in Nat /\ Answered(n) \in Nat /\ Len(Kids[n]) \in Nat
    BY SubAssumption, LenProperties DEF SubInv, Typed, Answered
  <2> QED
    BY <2>1, <2>2
<1> QED
  BY <1>1, <1>2, CallTyped, Calls DEF Serve

LEMMA SendKeeps == ASSUME SubInv, NEW n \in Nodes, Send(n) PROVE SubInv'
<1>1. Typed'
  BY DEF SubInv, Typed, Send
<1>2. ASSUME NEW m \in Nodes, Way[m] # "fan_out" PROVE asked'[m] <= Len(Kids[m])
  <2>1. asked[n] \in Nat /\ Len(Kids[n]) \in Nat /\ asked[n] < Len(Kids[n])
    BY SubAssumption, LenProperties DEF SubInv, Typed, Send
  <2>2. asked'[m] = IF m = n THEN asked[n] + 1 ELSE asked[m]
    BY DEF SubInv, Typed, Send
  <2> QED
    BY <1>2, <2>1, <2>2, AskedOf
<1>3. \A m \in Nodes : Waits(m)'
  BY Waiting DEF Waits, Active, Answered, Send
<1>4. Scopes'
  BY DEF SubInv, Scopes, Send
<1> QED
  BY <1>1, <1>2, <1>3, <1>4, Quiet DEF Send

LEMMA LeaveKeeps ==
  ASSUME SubInv, NEW n \in Nodes, NEW how \in {"returned", "panicked"}, Leave(n, how)
  PROVE  SubInv'
<1>1. Typed'
  BY DEF SubInv, Typed, Leave
<1>2. \A m \in Nodes : Waits(m)'
  BY Waiting DEF Waits, Active, Answered, Leave
<1>3. Scopes'
  BY DEF SubInv, Scopes, Leave
<1> QED
  BY <1>1, <1>2, <1>3, AskedOf, Quiet DEF Leave

LEMMA FanOutKeeps == ASSUME SubInv, NEW n \in Nodes, FanOut(n) PROVE SubInv'
<1>1. \A k \in ToSet(Kids[n]) : k \in Nodes /\ Parent(k) = n /\ state[k] = "idle"
  BY Asker DEF FanOut, ToSet
<1>2. /\ \A k \in Nodes : state'[k] = IF k \in ToSet(Kids[n]) THEN "queued"
                                      ELSE IF k = n THEN "joining" ELSE state[k]
      /\ state[n] = "running" /\ Way[n] = "fan_out"
      /\ UNCHANGED <<answer, results, recorded, arrival, closure, asked>>
  BY DEF FanOut, Parked
<1>3. Typed'
  BY <1>2 DEF SubInv, Typed, FanOut, Parked, Places
<1>4. ASSUME NEW m \in Nodes PROVE Waits(m)'
  <2> SUFFICES ASSUME Way[m] # "fan_out", NEW i \in DOMAIN Kids[m], Active(Kids[m][i])'
               PROVE  state'[m] = "calling" /\ i = Answered(m)' + 1
    BY DEF Waits
  <2>1. Kids[m][i] \in Nodes /\ Parent(Kids[m][i]) = m
    BY Asker
  <2>2. Kids[m][i] \notin ToSet(Kids[n])
    BY <1>1, <1>2, <2>1
  <2>3. Active(Kids[m][i])
    BY <1>2, <2>1, <2>2 DEF Active
  <2>4. state[m] = "calling" /\ i = Answered(m) + 1
    BY <2>3, Waiting DEF Waits
  <2> QED
    BY <1>1, <1>2, <2>4 DEF Answered
<1>5. \A m \in Nodes : state'[m] = "done" <=> state[m] = "done"
  BY <1>1, <1>2
<1>6. Scopes'
  BY <1>2 DEF SubInv, Scopes
<1> QED
  BY <1>2, <1>3, <1>4, <1>5, <1>6, AskedOf, Quiet

LEMMA DropKeeps == ASSUME SubInv, Drop PROVE SubInv'
<1> DEFINE tasks == {S \in SUBSET UnderWay : OnTask(S)}
<1>1. RootTask = {n \in UnderWay : \A S \in tasks : n \in S}
  BY DEF RootTask
<1>2. /\ \A n \in Nodes : state'[n] = IF n \in RootTask THEN "gone" ELSE state[n]
      /\ UNCHANGED <<answer, results, recorded, arrival, asked>>
  BY DEF Drop
<1>3. Typed'
  BY DEF SubInv, Typed, Drop, Places, ToldItEnded
<1>4. ASSUME NEW m \in Nodes PROVE Waits(m)'
  <2> SUFFICES ASSUME Way[m] # "fan_out", NEW i \in DOMAIN Kids[m], Active(Kids[m][i])'
               PROVE  state'[m] = "calling" /\ i = Answered(m)' + 1
    BY DEF Waits
  <2> DEFINE k == Kids[m][i]
  <2>1. k \in Nodes /\ k \in ToSet(Kids[m])
    BY Asker
  <2>2. k \notin RootTask /\ Active(k)
    BY <1>2, <2>1 DEF Active
  <2>3. state[m] = "calling" /\ i = Answered(m) + 1
    BY <2>2, Waiting DEF Waits
  <2>4. k \in UnderWay
    BY <2>1, <2>2 DEF Active, UnderWay
  <2>5. m \notin RootTask
    <3>1. PICK S \in tasks : k \notin S
      BY <1>1, <2>2, <2>4
    <3>2. OnTask(S)
      BY <3>1
    <3>3. m \notin S
      BY <2>1, <2>4, <3>1, <3>2 DEF OnTask
    <3> QED
      BY <1>1, <3>1, <3>3
  <2> QED
    BY <1>2, <2>3, <2>5 DEF Answered
<1>5. \A m \in Nodes : state'[m] = "done" <=> state[m] = "done"
  BY <1>1, <1>2 DEF UnderWay
<1>6. Scopes'
  BY <1>2 DEF SubInv, Scopes
<1> QED
  BY <1>2, <1>3, <1>4, <1>5, <1>6, AskedOf, Quiet

LEMMA JoinKeeps == ASSUME SubInv, NEW n \in Nodes, Join(n) PROVE SubInv'
<1>1. /\ Way[n] = "fan_out" /\ state[n] = "joining" /\ Answered(n) = Len(Kids[n])
      /\ state' = [state EXCEPT ![n] = "queued"]
      /\ results' = [results EXCEPT ![n] = Collected(n)]
      /\ recorded' = [recorded EXCEPT ![n] = ToSet(Kids[n])]
      /\ UNCHANGED <<answer, arrival, asked, closure>>
  BY DEF Join, Parked
<1>2. Branches(n) /\ arrival[n] \in Seq(Nodes)
  BY <1>1 DEF SubInv, Typed
<1>3. \A k \in ToSet(Kids[n]) : state[k] = "done" /\ k \in Nodes /\ k # n
  <2>1. ToSet(arrival[n]) = ToSet(Kids[n])
    BY <1>1, <1>2, AllArrived DEF Branches, Answered
  <2>2. \A k \in ToSet(Kids[n]) : state[k] = "done" /\ k \in Nodes
    BY <1>2, <2>1, Asker DEF Branches, ToSet
  <2> QED
    BY <1>1, <2>2
<1>4. Kids[n] \in Seq(Nodes) /\ DOMAIN Kids[n] = 1 .. Len(Kids[n]) /\ Len(Kids[n]) \in Nat
  BY SubAssumption, LenProperties
<1>5. Collected(n) \in Seq(Outcomes) /\ Len(Collected(n)) = Len(Kids[n])
  <2>1. \A i \in 1 .. Len(Kids[n]) : answer[Kids[n][i]] \in Outcomes
    BY <1>4, Asker DEF SubInv, Typed
  <2> QED
    BY <1>4, <2>1, IsASeq DEF Collected
<1>6. Typed'
  <2>1. ToSet(Kids[n]) \in SUBSET Nodes
    BY <1>3
  <2> QED
    BY <1>1, <1>5, <2>1 DEF SubInv, Typed, Places
<1>7. \A m \in Nodes : state'[m] = "done" <=> state[m] = "done"
  BY <1>1 DEF SubInv, Typed
<1>8. ASSUME NEW m \in Nodes, Way[m] # "fan_out" PROVE AnsweredInTurn(m)'
  <2>1. AnsweredInTurn(m) /\ m # n /\ \A i \in DOMAIN Kids[m] : Kids[m][i] \in Nodes
    BY <1>1, <1>8, Asker DEF SubInv
  <2>2. /\ arrival'[m] = arrival[m] /\ results'[m] = results[m]
        /\ recorded'[m] = recorded[m] /\ asked'[m] = asked[m]
    BY <1>1, <2>1 DEF SubInv, Typed
  <2>3. \A i \in DOMAIN Kids[m] : /\ Active(Kids[m][i])' <=> Active(Kids[m][i])
                                  /\ answer'[Kids[m][i]] = answer[Kids[m][i]]
                                  /\ state'[Kids[m][i]] = "done" <=> state[Kids[m][i]] = "done"
    BY <1>1, <1>7, <2>1 DEF Active, SubInv, Typed
  <2>4. state'[m] = state[m]
    BY <1>1, <2>1 DEF SubInv, Typed
  <2> QED
    BY <2>1, <2>2, <2>3, <2>4 DEF AnsweredInTurn, Answered
<1>9. ASSUME NEW m \in Nodes, Way[m] = "fan_out" PROVE Branches(m)'
  <2>1. Branches(m) /\ arrival'[m] = arrival[m] /\ Collected(m)' = Collected(m)
    BY <1>1, <1>9 DEF SubInv, Collected
  <2>2. \A k \in ToSet(Kids[m]) : state'[k] = "done" <=> state[k] = "done"
    BY <1>7, Asker DEF ToSet
  <2>3. {k \in ToSet(Kids[m]) : state'[k] = "done"} = {k \in ToSet(Kids[m]) : state[k] = "done"}
    BY <2>2
  <2>4. CASE m = n
    <3>1. results'[n] = Collected(n) /\ recorded'[n] = ToSet(Kids[n])
      BY <1>1 DEF SubInv, Typed
    <3> QED
      BY <1>3, <2>1, <2>2, <2>3, <2>4, <3>1 DEF Branches
  <2>5. CASE m # n
    <3>1. results'[m] = results[m] /\ recorded'[m] = recorded[m]
      BY <1>1, <2>5 DEF SubInv, Typed
    <3> QED
      BY <2>1, <2>2, <2>3, <3>1 DEF Branches
  <2> QED
    BY <2>4, <2>5
<1>10. ASSUME NEW m \in Nodes, state'[m] = "done", Way[m] \in {"issue", "fan_out"}
       PROVE  Len(results'[m]) = Len(Kids[m])
  <2>1. m # n /\ state[m] = "done"
    BY <1>1, <1>7, <1>10
  <2> QED
    BY <1>1, <1>10, <2>1 DEF SubInv, Typed
<1>11. Scopes'
  BY <1>1 DEF SubInv, Typed, Scopes
<1> QED
  BY <1>6, <1>8, <1>9, <1>10, <1>11 DEF SubInv

LEMMA SubStep == SubInv /\ [SubNext]_subVars => SubInv'
<1> SUFFICES ASSUME SubInv, [SubNext]_subVars PROVE SubInv'
  OBVIOUS
<1>1. CASE UNCHANGED subVars
  <2>1. Typed'
    BY <1>1 DEF subVars, SubInv, Typed
  <2>2. \A m \in Nodes : Waits(m)'
    BY <1>1, Waiting DEF subVars, Waits, Active, Answered
  <2>3. Scopes'
    BY <1>1 DEF subVars, SubInv, Scopes
  <2> QED
    BY <1>1, <2>1, <2>2, <2>3, AskedOf, Quiet DEF subVars
<1>2. CASE Drop
  BY <1>2, DropKeeps
<1>3. CASE \E n \in Nodes : Start(n) \/ OpenScope(n)
  BY <1>3, StartKeeps, OpenScopeKeeps
<1>4. CASE \E n \in Nodes : Succeed(n) \/ Fail(n) \/ EndScope(n)
  BY <1>4, AnswerKeeps
<1>5. CASE \E n \in Nodes : Issue(n) \/ Serve(n)
  BY <1>5, IssueKeeps, ServeKeeps
<1>6. CASE \E n \in Nodes : FanOut(n) \/ Join(n)
  BY <1>6, FanOutKeeps, JoinKeeps
<1>7. CASE \E n \in Nodes : Send(n) \/ \E how \in {"returned", "panicked"} : Leave(n, how)
  BY <1>7, SendKeeps, LeaveKeeps
<1> QED
  BY <1>1, <1>2, <1>3, <1>4, <1>5, <1>6, <1>7 DEF SubNext

-----------------------------------------------------------------------------
\* An invocation that fanned out and is done has what it would have had issuing
\* one by one: the answers in the order of the requests, each branch recorded,
\* whatever the executor ran first (endpoint.rs, fan_out).
THEOREM FanOutIsIssuing == SubSpec => []FannedOutAsIssued
<1>1. ASSUME SubInv PROVE FannedOutAsIssued
  <2> SUFFICES ASSUME NEW n \in Nodes, state[n] = "done", Way[n] \in {"issue", "fan_out"}
               PROVE  /\ results[n] = [i \in DOMAIN Kids[n] |-> answer[Kids[n][i]]]
                      /\ recorded[n] = ToSet(Kids[n])
    BY DEF FannedOutAsIssued
  <2>1. Len(results[n]) = Len(Kids[n]) /\ results[n] \in Seq(Outcomes)
    BY <1>1 DEF SubInv, Typed
  <2>2. Kids[n] \in Seq(Nodes) /\ DOMAIN Kids[n] = 1 .. Len(Kids[n]) /\ Len(Kids[n]) \in Nat
    BY SubAssumption, LenProperties
  <2>3. DOMAIN results[n] = DOMAIN Kids[n]
    BY <2>1, <2>2, LenProperties
  <2>4. CASE Way[n] = "issue"
    <3>1. AnsweredInTurn(n)
      BY <1>1, <2>4 DEF SubInv
    <3>2. Answered(n) = Len(Kids[n])
      BY <2>1, <3>1 DEF AnsweredInTurn
    <3>3. \A i \in DOMAIN Kids[n] : results[n][i] = answer[Kids[n][i]]
      BY <2>2, <3>1, <3>2 DEF AnsweredInTurn
    <3>4. recorded[n] = ToSet(Kids[n])
      BY <2>2, <3>1, <3>2 DEF AnsweredInTurn, ToSet
    <3> QED
      BY <2>1, <2>3, <3>3, <3>4
  <2>5. CASE Way[n] = "fan_out"
    <3>1. Branches(n)
      BY <1>1, <2>5 DEF SubInv
    <3>2. CASE results[n] = << >> /\ recorded[n] = {}
      <4>1. DOMAIN Kids[n] = {}
        BY <2>3, <3>2
      <4> QED
        BY <2>1, <2>3, <3>2, <4>1 DEF ToSet
    <3> QED
      BY <3>1, <3>2 DEF Branches, Collected
  <2> QED
    BY <2>4, <2>5
<1> QED
  BY <1>1, SubStart, SubStep, PTL DEF SubSpec

-----------------------------------------------------------------------------
(***************************************************************************)
(* What reaches a cut listener.                                            *)

CutPoints == {"idle", "asking", "sweepThenObserve", "sweepThenCut", "cutting", "observing",
           "delivering", "waking"}
Event == [seq : Nat, invalidated : SUBSET Keys, live : SUBSET Keys]
Queue == [events : Seq(Event), dropped : Nat]

CutsTyped ==
  /\ generations \in [Threads -> Int] /\ seq \in Nat /\ lock \in Cutters \cup {Nobody}
  /\ status \in [Listeners -> {"new", "listening", "dropped"}] /\ list \subseteq Listeners
  /\ queue \in [Listeners -> Queue] /\ history \in [Listeners -> Seq(Nat)]
  /\ before \in [Listeners -> Nat]
  /\ at \in [Cutters -> CutPoints] /\ thread \in [Cutters -> Threads \cup {Nobody}]
  /\ number \in [Cutters -> Nat] /\ known \in [Cutters -> SUBSET Listeners]
  /\ live \in [Cutters -> SUBSET Keys]
  /\ \A c \in Cutters : at[c] \notin {"idle", "waking"} => thread[c] \in Threads

\* The registry has every listener that is held, and its count is exact.
Registry ==
  /\ Registered \subseteq list
  /\ IsFiniteSet(list) /\ count = Cardinality(list)

\* A cut that is to tell nobody leaves nobody out that it began with.
Unheard(c) ==
  /\ \A l \in known[c] : status[l] # "new"
  /\ at[c] \in {"cutting", "sweepThenCut"}
       => \A l \in known[c] \cap Registered : thread[c] \notin Wants[l]

\* A cut that is being delivered holds the mutex, is the last cut, and took no live
\* entry it does not list.
Delivering(c) ==
  /\ at[c] = "delivering" <=> lock = c
  /\ at[c] = "delivering" => number[c] = seq /\ live[c] \subseteq Invalidated(thread[c])

\* The last cut whose delivery is over.
Told == IF lock = Nobody THEN seq ELSE seq - 1

\* A queue that is not full has dropped nothing; what was heard is older than
\* whatever is still to be told.
QueueOK(l) ==
  /\ Len(queue[l].events) <= Capacity[l]
  /\ queue[l].dropped > 0 => Len(queue[l].events) = Capacity[l]
  /\ Len(history[l]) = Len(queue[l].events) + queue[l].dropped
  /\ \A i \in 1 .. Len(queue[l].events) : queue[l].events[i].seq = history[l][i]
  /\ \A i \in 1 .. Len(queue[l].events) :
        queue[l].events[i].live \subseteq queue[l].events[i].invalidated
  /\ before[l] <= Told
  /\ \A i \in 1 .. Len(history[l]) : before[l] < history[l][i] /\ history[l][i] <= Told
  /\ \A i, j \in 1 .. Len(history[l]) : i < j => history[l][i] < history[l][j]

Cuts == \A c \in Cutters : Unheard(c) /\ Delivering(c)
Queues == \A l \in Listeners : QueueOK(l)
ListenInv == CutsTyped /\ Registry /\ Cuts /\ Queues

-----------------------------------------------------------------------------
LEMMA Pushes ==
  ASSUME CutsTyped, ListenAssumption, NEW l \in Listeners, NEW event \in Event
  PROVE  Pushed(l, event) \in Queue
<1>1. queue[l] \in Queue
  BY DEF CutsTyped
<1>2. ASSUME NEW q \in Queue
      PROVE  /\ [q EXCEPT !.dropped = @ + 1] \in Queue
             /\ [q EXCEPT !.events = Append(@, event)] \in Queue
  <2>1. q.events \in Seq(Event) /\ q.dropped \in Nat
    BY DEF Queue
  <2>2. Append(q.events, event) \in Seq(Event) /\ q.dropped + 1 \in Nat
    BY <2>1
  <2> QED
    BY <2>1, <2>2 DEF Queue
<1> QED
  BY <1>1, <1>2 DEF Pushed

LEMMA TypedStep == ASSUME ListenAssumption, CutsTyped, [CutsNext]_cutsVars PROVE CutsTyped'
<1>1. CASE UNCHANGED cutsVars
  BY <1>1 DEF cutsVars, cutVars, CutsTyped
<1>2. ASSUME NEW k \in Keys, NEW T \in SUBSET Threads, Store(k, T) PROVE CutsTyped'
  <2>1. CASE UNCHANGED generations
    BY <1>2, <2>1 DEF Store, CutsTyped, listVars, taskVars, queueVars, cutVars
  <2>2. CASE generations' = [t \in Threads |-> IF t \in Pinned(entries') THEN generations[t] ELSE 0]
    <3>1. \A t \in Threads : (IF t \in Pinned(entries') THEN generations[t] ELSE 0) \in Int
      BY DEF CutsTyped
    <3>2. generations' \in [Threads -> Int]
      BY <2>2, <3>1
    <3> QED
      BY <1>2, <3>2 DEF Store, CutsTyped, listVars, taskVars, queueVars, cutVars
  <2> QED
    BY <1>2, <2>1, <2>2 DEF Store
<1>3. ASSUME NEW k \in Keys, Evict(k) PROVE CutsTyped'
  BY <1>3 DEF Evict, CutsTyped, listVars, taskVars, queueVars, cutVars
<1>4. ASSUME NEW l \in Listeners, Register(l) PROVE CutsTyped'
  BY <1>4 DEF Register, CutsTyped, threadVars, taskVars, queueVars, cutVars
<1>5. ASSUME NEW l \in Listeners, Unlisten(l) PROVE CutsTyped'
  <2>1. EmptyQueue \in Queue
    BY DEF EmptyQueue, Queue
  <2> QED
    BY <1>5, <2>1 DEF Unlisten, CutsTyped, threadVars, taskVars, cutVars
<1>6. ASSUME NEW c \in Cutters, NEW t \in Threads, Begin(c, t) PROVE CutsTyped'
  <2>1. Registered \in SUBSET Listeners
    BY DEF Registered
  <2> QED
    BY <1>6, <2>1 DEF Begin, CutsTyped, CutPoints, threadVars, listVars, taskVars, queueVars
<1>7. ASSUME NEW c \in Cutters, Interested(c) \/ SweepList(c) PROVE CutsTyped'
  BY <1>7 DEF Interested, SweepList, CutsTyped, CutPoints, threadVars, listVars, taskVars, queueVars
<1>8. ASSUME NEW c \in Cutters, CutPlain(c) \/ CutObserved(c) PROVE CutsTyped'
  <2>1. generations' \in [Threads -> Int] /\ seq' \in Nat
    BY <1>8 DEF CutPlain, CutObserved, RecordCut, CutsTyped
  <2>2. at' \in [Cutters -> CutPoints] /\ lock' \in Cutters \cup {Nobody}
    BY <1>8 DEF CutPlain, CutObserved, Holder, CutsTyped, CutPoints
  <2>3. number' \in [Cutters -> Nat] /\ thread' \in [Cutters -> Threads \cup {Nobody}]
        /\ known' \in [Cutters -> SUBSET Listeners] /\ live' \in [Cutters -> SUBSET Keys]
    <3>1. {k \in Keys : EntryLive(k) /\ thread[c] \in Edges(k)} \in SUBSET Keys
      OBVIOUS
    <3>2. CASE CutPlain(c)
      BY <3>2 DEF CutPlain, Forgotten, CutsTyped
    <3>3. CASE CutObserved(c)
      BY <3>1, <3>3 DEF CutObserved, CutsTyped
    <3> QED
      BY <1>8, <3>2, <3>3
  <2>4. \A d \in Cutters : at'[d] \notin {"idle", "waking"} => thread'[d] \in Threads
    BY <1>8 DEF CutPlain, CutObserved, Forgotten, CutsTyped
  <2> QED
    BY <1>8, <2>1, <2>2, <2>3, <2>4
       DEF CutPlain, CutObserved, CutsTyped, listVars, taskVars, queueVars
<1>9. ASSUME NEW c \in Cutters, Deliver(c) PROVE CutsTyped'
  <2>1. ASSUME NEW l \in Listeners
        PROVE  [seq |-> number[c], invalidated |-> Visible(l, Invalidated(thread[c])),
                live |-> Visible(l, live[c])] \in Event
    BY DEF CutsTyped, Event, Visible, Invalidated, Dependents
  <2>2. queue' \in [Listeners -> Queue]
    BY <1>9, <2>1, Pushes DEF Deliver, CutsTyped
  <2>3. history' \in [Listeners -> Seq(Nat)]
    BY <1>9 DEF Deliver, CutsTyped
  <2>4. at' \in [Cutters -> CutPoints]
    BY <1>9 DEF Deliver, CutsTyped, CutPoints
  <2>5. number' \in [Cutters -> Nat] /\ thread' \in [Cutters -> Threads \cup {Nobody}]
        /\ known' \in [Cutters -> SUBSET Listeners] /\ live' \in [Cutters -> SUBSET Keys]
    BY <1>9 DEF Deliver, Forgotten, CutsTyped
  <2>6. \A d \in Cutters : at'[d] \notin {"idle", "waking"} => thread'[d] \in Threads
    BY <1>9 DEF Deliver, Forgotten, CutsTyped
  <2> QED
    BY <1>9, <2>2, <2>3, <2>4, <2>5, <2>6 DEF Deliver, CutsTyped, listVars, taskVars
<1>10. ASSUME NEW c \in Cutters, Wake(c) PROVE CutsTyped'
  BY <1>10 DEF Wake, CutsTyped, CutPoints, threadVars, listVars, queueVars
<1>11. ASSUME NEW l \in Listeners, Taken(l) PROVE /\ queue' \in [Listeners -> Queue]
                                                 /\ history' \in [Listeners -> Seq(Nat)]
                                                 /\ before' \in [Listeners -> Nat]
  <2>1. EmptyQueue \in Queue
    BY DEF EmptyQueue, Queue
  <2>2. history[l] # <<>> => history[l][Len(history[l])] \in Nat
    BY DEF CutsTyped
  <2> QED
    BY <1>11, <2>1, <2>2 DEF Taken, CutsTyped
<1>12. ASSUME NEW l \in Listeners, Drain(l) PROVE CutsTyped'
  BY <1>11, <1>12 DEF Drain, CutsTyped, threadVars, listVars, taskVars, cutVars
<1>13. ASSUME NEW w \in Waiters, NEW l \in Listeners, Poll(w, l) PROVE CutsTyped'
  BY <1>11, <1>13 DEF Poll, CutsTyped, threadVars, listVars, cutVars
<1>14. ASSUME NEW w \in Waiters, GiveUp(w) PROVE CutsTyped'
  BY <1>14 DEF GiveUp, CutsTyped, threadVars, listVars, queueVars, cutVars
<1> QED
  BY <1>1, <1>2, <1>3, <1>4, <1>5, <1>6, <1>7, <1>8, <1>9, <1>10, <1>12, <1>13, <1>14 DEF CutsNext

LEMMA RegistryStep == ASSUME CutsTyped, Registry, [CutsNext]_cutsVars PROVE Registry'
<1>1. CASE UNCHANGED <<status, list, count>>
  BY <1>1 DEF Registry, Registered
<1>2. ASSUME NEW l \in Listeners, Register(l) PROVE Registry'
  <2>1. list' = (list \cap Registered) \cup {l} /\ count' = Cardinality(list')
        /\ status' = [status EXCEPT ![l] = "listening"]
    BY <1>2 DEF Register, CountAfter
  <2>2. IsFiniteSet(list \cap Registered)
    BY FS_Intersection DEF Registry
  <2>3. IsFiniteSet(list')
    BY <2>1, <2>2, FS_AddElement
  <2>4. Registered' = Registered \cup {l}
    BY <2>1 DEF Registered, CutsTyped
  <2> QED
    BY <2>1, <2>3, <2>4 DEF Registry
<1>3. ASSUME NEW l \in Listeners, Unlisten(l) PROVE Registry'
  <2>1. Registered' \subseteq Registered
    BY <1>3 DEF Unlisten, Registered, CutsTyped
  <2> QED
    BY <1>3, <2>1 DEF Unlisten, Registry
<1>4. ASSUME NEW c \in Cutters, SweepList(c) PROVE Registry'
  <2>1. list' = list \cap Registered /\ count' = Cardinality(list') /\ UNCHANGED status
    BY <1>4 DEF SweepList, CountAfter
  <2>2. IsFiniteSet(list')
    BY <2>1, FS_Intersection DEF Registry
  <2>3. Registered' = Registered
    BY <2>1 DEF Registered
  <2> QED
    BY <2>1, <2>2, <2>3 DEF Registry
<1>5. ASSUME NEW c \in Cutters,
             \/ \E t \in Threads : Begin(c, t)
             \/ Interested(c) \/ CutPlain(c) \/ CutObserved(c) \/ Deliver(c) \/ Wake(c)
      PROVE  UNCHANGED <<status, list, count>>
  BY <1>5 DEF Begin, Interested, CutPlain, CutObserved, Deliver, Wake, listVars
<1>6. ASSUME \/ \E k \in Keys, T \in SUBSET Threads \ {{}} : Store(k, T)
             \/ \E k \in Keys : Evict(k)
             \/ \E l \in Listeners : Drain(l)
             \/ \E w \in Waiters, l \in Listeners : Poll(w, l)
             \/ \E w \in Waiters : GiveUp(w)
             \/ UNCHANGED cutsVars
      PROVE  UNCHANGED <<status, list, count>>
  BY <1>6 DEF Store, Evict, Drain, Poll, GiveUp, cutsVars, listVars
<1> QED
  BY <1>1, <1>2, <1>3, <1>4, <1>5, <1>6 DEF CutsNext

\* Where the mutex is free nothing is being delivered.
LEMMA FreeMutex ==
  ASSUME ListenAssumption, Cuts, lock = Nobody, NEW c \in Cutters
  PROVE  at[c] # "delivering"
BY DEF Cuts, Delivering, ListenAssumption

LEMMA CutsStep == ASSUME ListenAssumption, CutsTyped, Registry, Cuts, [CutsNext]_cutsVars PROVE Cuts'
<1> SUFFICES ASSUME NEW c \in Cutters PROVE Unheard(c)' /\ Delivering(c)'
  BY DEF Cuts
<1>a. Unheard(c) /\ Delivering(c)
  BY DEF Cuts
<1>1. CASE UNCHANGED <<threadVars, status, at, thread, number, known, live>>
  BY <1>1, <1>a DEF Unheard, Delivering, threadVars, Registered, Invalidated, Dependents, Edges,
                    GenerationBefore
<1>2. ASSUME NEW k \in Keys, (\E T \in SUBSET Threads : Store(k, T)) \/ Evict(k)
      PROVE  Unheard(c)' /\ Delivering(c)'
  <2>1. UNCHANGED <<lock, status, at, thread, known>> /\ lock = Nobody
    BY <1>2 DEF Store, Evict, listVars, cutVars
  <2>2. at[c] # "delivering"
    BY <2>1, FreeMutex
  <2> QED
    BY <1>a, <2>1, <2>2 DEF Unheard, Delivering, Registered
<1>3. ASSUME NEW l \in Listeners, Register(l) \/ Unlisten(l) PROVE Unheard(c)' /\ Delivering(c)'
  <2>1. UNCHANGED <<threadVars, at, thread, number, known, live>>
    BY <1>3 DEF Register, Unlisten, cutVars
  <2>2. Delivering(c)'
    BY <1>a, <2>1 DEF Delivering, threadVars, Invalidated, Dependents, Edges, GenerationBefore
  <2>3. \A k \in known[c] : status'[k] # "new" /\ (k \in Registered' => k \in Registered)
    BY <1>3, <1>a DEF Register, Unlisten, Unheard, Registered, CutsTyped
  <2> QED
    BY <1>a, <2>1, <2>2, <2>3 DEF Unheard
<1>4. ASSUME NEW d \in Cutters, NEW t \in Threads, Begin(d, t)
      PROVE  Unheard(c)' /\ Delivering(c)'
  <2>1. /\ UNCHANGED <<threadVars, status, number, live>> /\ at[d] = "idle"
        /\ thread' = [thread EXCEPT ![d] = t] /\ known' = [known EXCEPT ![d] = Registered]
        /\ at' = [at EXCEPT ![d] = IF count = 0 THEN "cutting" ELSE "asking"]
    BY <1>4 DEF Begin, listVars
  <2>2. Registered' = Registered
    BY <2>1 DEF Registered
  <2>3. CASE c = d
    <3>1. count = 0 => Registered = {}
      BY FS_EmptySet DEF Registry
    <3>2. at'[c] \in {"cutting", "asking"} /\ known'[c] = Registered
          /\ (at'[c] = "cutting" => Registered = {})
      BY <2>1, <2>3, <3>1 DEF CutsTyped
    <3>3. Unheard(c)'
      BY <2>1, <2>2, <3>2 DEF Unheard, Registered
    <3>4. lock' # c
      BY <1>a, <2>1, <2>3 DEF Delivering, threadVars
    <3> QED
      BY <3>2, <3>3, <3>4 DEF Delivering
  <2>4. CASE c # d
    <3>1. at'[c] = at[c] /\ thread'[c] = thread[c] /\ known'[c] = known[c]
      BY <2>1, <2>4 DEF CutsTyped
    <3> QED
      BY <1>a, <2>1, <2>2, <3>1 DEF Unheard, Delivering, threadVars, Invalidated, Dependents,
                                    Edges, GenerationBefore
  <2> QED
    BY <2>3, <2>4
<1>5. ASSUME NEW d \in Cutters, Interested(d) \/ SweepList(d) PROVE Unheard(c)' /\ Delivering(c)'
  <2>1. /\ UNCHANGED <<threadVars, status, thread, number, known, live>>
        /\ \A e \in Cutters \ {d} : at'[e] = at[e]
        /\ at[d] # "delivering" /\ at'[d] # "delivering"
    BY <1>5 DEF Interested, SweepList, CutsTyped, listVars
  <2>2. Delivering(c)'
    BY <1>a, <2>1 DEF Delivering, threadVars, Invalidated, Dependents, Edges, GenerationBefore
  <2>3. Registered' = Registered
    BY <2>1 DEF Registered
  <2>4. CASE c = d /\ Interested(d)
    <3>1. at'[c] \in {"cutting", "sweepThenCut"} => ~Matched(thread[c])
      BY <2>4 DEF Interested, CutsTyped
    <3> QED
      BY <1>a, <2>1, <2>2, <2>3, <3>1 DEF Unheard, Matched, Registry
  <2>5. CASE c = d /\ SweepList(d)
    <3>1. at'[c] = "cutting" => at[c] = "sweepThenCut"
      BY <2>5 DEF SweepList, CutsTyped
    <3>2. at'[c] # "sweepThenCut"
      BY <2>5 DEF SweepList, CutsTyped
    <3> QED
      BY <1>a, <2>1, <2>2, <2>3, <3>1, <3>2 DEF Unheard
  <2>6. CASE c # d
    BY <1>a, <2>1, <2>2, <2>3, <2>6 DEF Unheard
  <2> QED
    BY <1>5, <2>4, <2>5, <2>6
<1>6. ASSUME NEW d \in Cutters, CutPlain(d) PROVE Unheard(c)' /\ Delivering(c)'
  <2>1. /\ lock = Nobody /\ UNCHANGED <<lock, status>> /\ Forgotten(d)
        /\ at' = [at EXCEPT ![d] = "idle"]
    BY <1>6 DEF CutPlain, RecordCut, listVars
  <2>2. at[c] # "delivering"
    BY <2>1, FreeMutex
  <2>3. at'[c] # "delivering" /\ lock' # c
    BY <1>a, <2>1, <2>2 DEF CutsTyped, Delivering
  <2>4. Registered' = Registered
    BY <2>1 DEF Registered
  <2>5. c = d => at'[c] = "idle" /\ known'[c] = {}
    BY <2>1 DEF Forgotten, CutsTyped
  <2>6. c # d => at'[c] = at[c] /\ known'[c] = known[c] /\ thread'[c] = thread[c]
    BY <2>1 DEF Forgotten, CutsTyped
  <2> QED
    BY <1>a, <2>1, <2>3, <2>4, <2>5, <2>6 DEF Unheard, Delivering
<1>7. ASSUME NEW d \in Cutters, CutObserved(d) PROVE Unheard(c)' /\ Delivering(c)'
  <2>1. /\ lock = Nobody /\ lock' = d /\ UNCHANGED <<entries, status, thread, known>>
        /\ generations' = [generations EXCEPT ![thread[d]] = @ + 1] /\ seq' = seq + 1
        /\ number' = [number EXCEPT ![d] = seq + 1] /\ at' = [at EXCEPT ![d] = "delivering"]
        /\ live' = [live EXCEPT ![d] = {k \in Keys : EntryLive(k) /\ thread[d] \in Edges(k)}]
        /\ at[d] = "observing"
    BY <1>7 DEF CutObserved, RecordCut, Holder, listVars
  <2>2. Unheard(c)'
    BY <1>a, <2>1 DEF Unheard, Registered, CutsTyped
  <2>3. CASE c = d
    <3>1. thread[d] \in Threads
      BY <2>1 DEF CutsTyped
    <3>2. ASSUME NEW k \in live'[d] PROVE k \in Invalidated(thread[d])'
      <4>1. k \in Keys /\ EntryLive(k) /\ thread[d] \in Edges(k)
        BY <2>1, <3>2 DEF CutsTyped
      <4>2. entries[k][thread[d]] = generations[thread[d]]
        BY <4>1 DEF EntryLive
      <4>3. generations'[thread[d]] = generations[thread[d]] + 1 /\ generations[thread[d]] \in Int
        BY <2>1, <3>1 DEF CutsTyped
      <4> QED
        BY <2>1, <4>1, <4>2, <4>3 DEF Invalidated, Dependents, Edges, GenerationBefore
    <3>3. number'[d] = seq' /\ at'[d] = "delivering"
      BY <2>1 DEF CutsTyped
    <3> QED
      BY <2>1, <2>2, <2>3, <3>2, <3>3 DEF Delivering
  <2>4. CASE c # d
    <3>1. at'[c] = at[c] /\ at[c] # "delivering"
      BY <2>1, <2>4, FreeMutex DEF CutsTyped
    <3> QED
      BY <2>1, <2>2, <2>4, <3>1 DEF Delivering
  <2> QED
    BY <2>3, <2>4
<1>8. ASSUME NEW d \in Cutters, Deliver(d) PROVE Unheard(c)' /\ Delivering(c)'
  <2>1. /\ at[d] = "delivering" /\ lock' = Nobody /\ Forgotten(d) /\ UNCHANGED status
        /\ \E point \in {"idle", "waking"} : at' = [at EXCEPT ![d] = point]
    BY <1>8 DEF Deliver, listVars
  <2>2. lock = d
    BY <2>1 DEF Cuts, Delivering
  <2>3. at'[c] # "delivering" /\ lock' # c
    BY <1>a, <2>1, <2>2 DEF Delivering, CutsTyped, ListenAssumption
  <2>4. Registered' = Registered
    BY <2>1 DEF Registered
  <2>5. c = d => at'[c] \in {"idle", "waking"} /\ known'[c] = {}
    BY <2>1 DEF Forgotten, CutsTyped
  <2>6. c # d => at'[c] = at[c] /\ known'[c] = known[c] /\ thread'[c] = thread[c]
    BY <2>1 DEF Forgotten, CutsTyped
  <2> QED
    BY <1>a, <2>1, <2>3, <2>4, <2>5, <2>6 DEF Unheard, Delivering
<1>9. ASSUME NEW d \in Cutters, Wake(d) PROVE Unheard(c)' /\ Delivering(c)'
  <2>1. /\ UNCHANGED <<threadVars, status, thread, number, known, live>> /\ at[d] = "waking"
        /\ at'[d] \in {"idle", "waking"} /\ \A e \in Cutters \ {d} : at'[e] = at[e]
    BY <1>9 DEF Wake, CutsTyped, listVars
  <2> QED
    BY <1>a, <2>1 DEF Unheard, Registered, Delivering, threadVars, Invalidated, Dependents, Edges,
                      GenerationBefore
<1>10. ASSUME \/ \E l \in Listeners : Drain(l)
              \/ \E w \in Waiters, l \in Listeners : Poll(w, l)
              \/ \E w \in Waiters : GiveUp(w)
              \/ UNCHANGED cutsVars
       PROVE  UNCHANGED <<threadVars, status, at, thread, number, known, live>>
  BY <1>10 DEF Drain, Poll, GiveUp, cutsVars, listVars, cutVars, threadVars
<1> QED
  BY <1>1, <1>2, <1>3, <1>4, <1>5, <1>6, <1>7, <1>8, <1>9, <1>10 DEF CutsNext

\* A queue nothing is done to stays in order as the cuts go on.
LEMMA QueueKept ==
  ASSUME NEW l \in Listeners, CutsTyped, CutsTyped', QueueOK(l), Told' >= Told,
         queue'[l] = queue[l], history'[l] = history[l], before'[l] = before[l]
  PROVE  QueueOK(l)'
<1>1. Told \in Int /\ Told' \in Int
  BY DEF CutsTyped, Told
<1>2. history[l] \in Seq(Nat) /\ before[l] \in Nat
  BY DEF CutsTyped
<1>3. \A i \in 1 .. Len(history[l]) : history[l][i] \in Nat
  BY <1>2
<1>4. \A i \in 1 .. Len(history[l]) : history[l][i] <= Told'
  BY <1>1, <1>3 DEF QueueOK
<1>5. before[l] <= Told'
  BY <1>1, <1>2 DEF QueueOK
<1> QED
  BY <1>4, <1>5 DEF QueueOK

\* A queue that is drained starts over with an empty history.
LEMMA QueueEmptied ==
  ASSUME NEW l \in Listeners, ListenAssumption, CutsTyped, CutsTyped', QueueOK(l), Told' = Told,
         queue'[l] = EmptyQueue, history'[l] = <<>>,
         before'[l] = before[l] \/ (history[l] # <<>> /\ before'[l] = history[l][Len(history[l])])
  PROVE  QueueOK(l)'
<1>1. history[l] \in Seq(Nat)
  BY DEF CutsTyped
<1>2. history[l] # <<>> => Len(history[l]) \in 1 .. Len(history[l])
  BY <1>1
<1>3. before'[l] <= Told'
  BY <1>2 DEF QueueOK
<1>4. Capacity[l] \in Nat \ {0}
  BY DEF ListenAssumption
<1> QED
  BY <1>3, <1>4 DEF QueueOK, EmptyQueue

\* The event of the last cut, pushed: it is younger than everything heard.
LEMMA QueuePushed ==
  ASSUME NEW l \in Listeners, ListenAssumption, CutsTyped, CutsTyped', QueueOK(l),
         NEW last \in Nat, last = Told', last = Told + 1,
         NEW event \in Event, event.seq = last, event.live \subseteq event.invalidated,
         queue'[l] = Pushed(l, event), history'[l] = Append(history[l], last),
         before'[l] = before[l]
  PROVE  QueueOK(l)'
<1> DEFINE n == Len(history[l])
           m == Len(queue[l].events)
<1>1. /\ n \in Nat /\ before[l] \in Nat /\ m \in Nat /\ queue[l].dropped \in Nat
      /\ Capacity[l] \in Nat \ {0}
  <2>1. history[l] \in Seq(Nat) /\ before[l] \in Nat /\ queue[l] \in Queue
    BY DEF CutsTyped
  <2> QED
    BY <2>1 DEF Queue, ListenAssumption
<1>s. history[l] \in Seq(Nat) /\ queue[l].events \in Seq(Event) /\ queue[l] \in Queue
  BY DEF CutsTyped, Queue
<1>2. /\ Len(history'[l]) = n + 1 /\ history'[l][n + 1] = last
      /\ \A i \in 1 .. n : history'[l][i] = history[l][i] /\ history[l][i] \in Nat
  <2>1. history[l] \in Seq(Nat) /\ history'[l] = Append(history[l], last)
    BY <1>s
  <2>2. ASSUME NEW h \in Seq(Nat), NEW x \in Nat
        PROVE  /\ Len(Append(h, x)) = Len(h) + 1 /\ Append(h, x)[Len(h) + 1] = x
               /\ \A i \in 1 .. Len(h) : Append(h, x)[i] = h[i] /\ h[i] \in Nat
    OBVIOUS
  <2> QED
    BY <2>1, <2>2
<1>o. /\ m <= Capacity[l] /\ (queue[l].dropped > 0 => m = Capacity[l])
      /\ n = m + queue[l].dropped
      /\ \A i \in 1 .. m : queue[l].events[i].seq = history[l][i]
      /\ \A i \in 1 .. m : queue[l].events[i].live \subseteq queue[l].events[i].invalidated
      /\ before[l] < last
      /\ \A i \in 1 .. n : before[l] < history[l][i] /\ history[l][i] < last
      /\ \A i, j \in 1 .. n : i < j => history[l][i] < history[l][j]
  <2>1. Told \in Int
    BY DEF CutsTyped, Told
  <2>2. before[l] < last /\ \A i \in 1 .. n : history[l][i] \in Nat /\ history[l][i] < last
    <3>1. before[l] <= Told
      BY DEF QueueOK
    <3>2. before[l] < last
      BY <1>1, <2>1, <3>1
    <3> SUFFICES ASSUME NEW i \in 1 .. n  PROVE  history[l][i] \in Nat /\ history[l][i] < last
      BY <3>2
    <3>3. history[l][i] \in Nat
      BY <1>2
    <3>4. history[l][i] <= Told
      BY DEF QueueOK
    <3> HIDE DEF n, m
    <3> QED
      BY <2>1, <3>3, <3>4
  <2>3. queue[l].dropped > 0 => m = Capacity[l]
    BY DEF QueueOK
  <2> QED
    BY <2>2, <2>3 DEF QueueOK
<1>p. /\ m >= Capacity[l] => /\ queue'[l].events = queue[l].events
                             /\ queue'[l].dropped = queue[l].dropped + 1
      /\ ~(m >= Capacity[l]) => /\ queue'[l].events = Append(queue[l].events, event)
                                /\ queue'[l].dropped = queue[l].dropped
  BY <1>s DEF Pushed, Queue
<1>q. ~(m >= Capacity[l]) => /\ Len(queue'[l].events) = m + 1 /\ queue'[l].events[m + 1] = event
                             /\ \A i \in 1 .. m : queue'[l].events[i] = queue[l].events[i]
  BY <1>s, <1>p
<1>r. m >= Capacity[l] => Len(queue'[l].events) = m
  BY <1>p
<1> HIDE DEF n, m
<1>3. before'[l] <= last
  BY <1>1, <1>o
<1>4. \A i \in 1 .. Len(history'[l]) : before'[l] < history'[l][i] /\ history'[l][i] <= last
  <2> SUFFICES ASSUME NEW i \in 1 .. n + 1
               PROVE  before[l] < history'[l][i] /\ history'[l][i] <= last
    BY <1>2
  <2>1. CASE i = n + 1
    <3>1. history'[l][i] = last
      BY <1>2, <2>1
    <3>2. before[l] < last /\ last <= last
      BY <1>o
    <3> QED
      BY <3>1, <3>2
  <2>2. CASE i \in 1 .. n
    <3>1. history'[l][i] = history[l][i] /\ history[l][i] \in Nat
      BY <1>2, <2>2
    <3>2. before[l] < history[l][i] /\ history[l][i] <= last
      BY <1>o, <2>2, <3>1
    <3> QED
      BY <3>1, <3>2
  <2>3. i = n + 1 \/ i \in 1 .. n
    BY <1>1
  <2> QED
    BY <2>1, <2>2, <2>3
<1>5. \A i, j \in 1 .. Len(history'[l]) : i < j => history'[l][i] < history'[l][j]
  <2> SUFFICES ASSUME NEW i \in 1 .. n + 1, NEW j \in 1 .. n + 1, i < j
               PROVE  history'[l][i] < history'[l][j]
    BY <1>2
  <2>1. i \in 1 .. n
    BY <1>1
  <2>2. CASE j = n + 1
    BY <1>1, <1>2, <1>o, <2>1, <2>2
  <2>3. CASE j \in 1 .. n
    BY <1>1, <1>2, <1>o, <2>1, <2>3
  <2>4. j = n + 1 \/ j \in 1 .. n
    BY <1>1
  <2> QED
    BY <2>2, <2>3, <2>4
<1>6. CASE m >= Capacity[l]
  <2>1. m = Capacity[l]
    BY <1>1, <1>o, <1>6
  <2>2. \A i \in 1 .. m : i \in 1 .. n
    BY <1>1, <1>o
  <2>3. \A i \in 1 .. m : queue'[l].events[i].seq = history'[l][i]
    BY <1>2, <1>o, <1>p, <1>6, <2>2
  <2>4. /\ Len(queue'[l].events) <= Capacity[l]
        /\ queue'[l].dropped > 0 => Len(queue'[l].events) = Capacity[l]
        /\ Len(history'[l]) = Len(queue'[l].events) + queue'[l].dropped
    BY <1>1, <1>2, <1>o, <1>p, <1>r, <1>6, <2>1
  <2> QED
    BY <1>3, <1>4, <1>5, <1>o, <1>p, <1>r, <1>6, <2>3, <2>4 DEF QueueOK
<1>7. CASE ~(m >= Capacity[l])
  <2>1. queue[l].dropped = 0 /\ n = m
    BY <1>1, <1>o, <1>7
  <2>2. \A i \in 1 .. m + 1 : /\ queue'[l].events[i].seq = history'[l][i]
                              /\ queue'[l].events[i].live \subseteq queue'[l].events[i].invalidated
    <3> SUFFICES ASSUME NEW i \in 1 .. m + 1
                 PROVE  /\ queue'[l].events[i].seq = history'[l][i]
                        /\ queue'[l].events[i].live \subseteq queue'[l].events[i].invalidated
      OBVIOUS
    <3>1. CASE i = m + 1
      BY <1>2, <1>q, <1>7, <2>1, <3>1
    <3>2. CASE i \in 1 .. m
      BY <1>2, <1>o, <1>q, <1>7, <2>1, <3>2
    <3>3. i = m + 1 \/ i \in 1 .. m
      BY <1>1
    <3> QED
      BY <3>1, <3>2, <3>3
  <2>3. /\ Len(queue'[l].events) <= Capacity[l]
        /\ queue'[l].dropped > 0 => Len(queue'[l].events) = Capacity[l]
        /\ Len(history'[l]) = Len(queue'[l].events) + queue'[l].dropped
    BY <1>1, <1>2, <1>p, <1>q, <1>7, <2>1
  <2> QED
    BY <1>3, <1>4, <1>5, <1>q, <1>7, <2>2, <2>3 DEF QueueOK
<1> QED
  BY <1>6, <1>7

LEMMA QueuesStep ==
  ASSUME ListenAssumption, CutsTyped, CutsTyped', Cuts, Queues, [CutsNext]_cutsVars
  PROVE  Queues'
<1> SUFFICES ASSUME NEW l \in Listeners PROVE QueueOK(l)'
  BY DEF Queues
<1>a. QueueOK(l)
  BY DEF Queues
<1>b. Told \in Int /\ seq \in Nat
  BY DEF CutsTyped, Told
<1>1. CASE UNCHANGED <<seq, lock, queue, history, before>>
  BY <1>1, <1>a, <1>b, QueueKept DEF Told
<1>2. ASSUME NEW k \in Listeners, Unlisten(k) PROVE QueueOK(l)'
  <2>1. /\ queue' = [queue EXCEPT ![k] = EmptyQueue] /\ history' = [history EXCEPT ![k] = <<>>]
        /\ before' = before /\ Told' = Told
    BY <1>2 DEF Unlisten, threadVars, Told
  <2>2. CASE l = k
    <3>1. queue'[l] = EmptyQueue /\ history'[l] = <<>> /\ before'[l] = before[l]
      BY <2>1, <2>2 DEF CutsTyped
    <3> QED
      BY <1>a, <2>1, <3>1, QueueEmptied
  <2>3. CASE l # k
    <3>1. queue'[l] = queue[l] /\ history'[l] = history[l] /\ before'[l] = before[l]
      BY <2>1, <2>3 DEF CutsTyped
    <3> QED
      BY <1>a, <1>b, <2>1, <3>1, QueueKept
  <2> QED
    BY <2>2, <2>3
<1>3. ASSUME NEW c \in Cutters, CutPlain(c) \/ CutObserved(c) PROVE QueueOK(l)'
  <2>1. lock = Nobody /\ seq' = seq + 1 /\ UNCHANGED <<queue, history, before>>
    BY <1>3 DEF CutPlain, CutObserved, RecordCut, queueVars
  <2>2. Told' >= Told
    BY <1>b, <2>1 DEF Told
  <2> QED
    BY <1>a, <2>1, <2>2, QueueKept
<1>4. ASSUME NEW c \in Cutters, Deliver(c) PROVE QueueOK(l)'
  <2> DEFINE t == thread[c]
             told == {k \in list \cap Registered : t \in Wants[k] /\ MayHear(k, t)}
             event == [seq |-> number[c], invalidated |-> Visible(l, Invalidated(t)),
                       live |-> Visible(l, live[c])]
  <2>1. at[c] = "delivering" /\ lock' = Nobody /\ UNCHANGED <<seq, before>>
    BY <1>4 DEF Deliver
  <2>2. lock = c /\ number[c] = seq /\ live[c] \subseteq Invalidated(t)
    BY <2>1 DEF Cuts, Delivering
  <2>3. Told' = seq /\ seq = Told + 1
    BY <1>b, <2>1, <2>2 DEF Told, ListenAssumption
  <2>4. queue'[l] = (IF l \in told THEN Pushed(l, event) ELSE queue[l])
    BY <1>4 DEF Deliver
  <2>5. history'[l] = (IF l \in told THEN Append(history[l], number[c]) ELSE history[l])
    BY <1>4 DEF Deliver
  <2>6. CASE l \in told
    <3>1. event \in Event
      BY DEF CutsTyped, Event, Visible, Invalidated, Dependents
    <3>2. event.live \subseteq event.invalidated
      BY <2>2 DEF Visible
    <3>3. event.seq = seq
      BY <2>2
    <3>4. queue'[l] = Pushed(l, event) /\ history'[l] = Append(history[l], seq) /\ before'[l] = before[l]
      BY <2>1, <2>2, <2>3, <2>4, <2>5, <2>6
    <3> HIDE DEF event
    <3> QED
      BY <1>a, <1>b, <2>3, <3>1, <3>2, <3>3, <3>4, QueuePushed
  <2>7. CASE l \notin told
    <3>1. queue'[l] = queue[l] /\ history'[l] = history[l] /\ before'[l] = before[l]
      BY <2>1, <2>4, <2>5, <2>7
    <3> QED
      BY <1>a, <1>b, <2>3, <3>1, QueueKept
  <2> QED
    BY <2>6, <2>7
<1>5. ASSUME NEW k \in Listeners, Taken(k), UNCHANGED <<seq, lock>> PROVE QueueOK(l)'
  <2>1. Told' = Told
    BY <1>5 DEF Told
  <2>2. CASE l = k
    <3>1. /\ queue'[l] = EmptyQueue /\ history'[l] = <<>>
          /\ before'[l] = IF history[l] = <<>> THEN before[l] ELSE history[l][Len(history[l])]
      BY <1>5, <2>2 DEF Taken, CutsTyped
    <3> QED
      BY <1>a, <2>1, <3>1, QueueEmptied
  <2>3. CASE l # k
    <3>1. queue'[l] = queue[l] /\ history'[l] = history[l] /\ before'[l] = before[l]
      BY <1>5, <2>3 DEF Taken, CutsTyped
    <3> QED
      BY <1>a, <1>b, <2>1, <3>1, QueueKept
  <2> QED
    BY <2>2, <2>3
<1>6. ASSUME NEW k \in Listeners, Drain(k) PROVE QueueOK(l)'
  BY <1>5, <1>6 DEF Drain, threadVars
<1>7. ASSUME NEW w \in Waiters, NEW k \in Listeners, Poll(w, k) PROVE QueueOK(l)'
  <2>1. CASE UNCHANGED <<queue, history, before>>
    BY <1>1, <1>7, <2>1 DEF Poll, threadVars
  <2>2. CASE Taken(k)
    BY <1>5, <1>7, <2>2 DEF Poll, threadVars
  <2> QED
    BY <1>7, <2>1, <2>2 DEF Poll
<1>8. ASSUME \/ \E k \in Keys, T \in SUBSET Threads \ {{}} : Store(k, T)
             \/ \E k \in Keys : Evict(k)
             \/ \E k \in Listeners : Register(k)
             \/ \E c \in Cutters, t \in Threads : Begin(c, t)
             \/ \E c \in Cutters : Interested(c) \/ SweepList(c) \/ Wake(c)
             \/ \E w \in Waiters : GiveUp(w)
             \/ UNCHANGED cutsVars
      PROVE  UNCHANGED <<seq, lock, queue, history, before>>
  BY <1>8 DEF Store, Evict, Register, Begin, Interested, SweepList, Wake, GiveUp, cutsVars, threadVars, queueVars
<1> QED
  BY <1>1, <1>2, <1>3, <1>4, <1>6, <1>7, <1>8 DEF CutsNext

-----------------------------------------------------------------------------
LEMMA ListenInit == ASSUME ListenAssumption, CutsInit PROVE ListenInv
<1>1. CutsTyped
  <2>1. EmptyQueue \in Queue
    BY DEF EmptyQueue, Queue
  <2> QED
    BY <2>1 DEF CutsInit, CutsTyped, CutPoints
<1>2. Registry
  BY FS_EmptySet DEF CutsInit, Registry, Registered
<1>3. Cuts
  BY DEF CutsInit, Cuts, Unheard, Delivering, ListenAssumption
<1>4. Queues
  BY DEF CutsInit, Queues, QueueOK, EmptyQueue, Told, ListenAssumption
<1> QED
  BY <1>1, <1>2, <1>3, <1>4 DEF ListenInv

LEMMA ListenInductive == ASSUME ListenAssumption, ListenInv, [CutsNext]_cutsVars PROVE ListenInv'
<1>1. CutsTyped'
  BY TypedStep DEF ListenInv
<1>2. Registry'
  BY RegistryStep DEF ListenInv
<1>3. Cuts'
  BY CutsStep DEF ListenInv
<1>4. Queues'
  BY <1>1, QueuesStep DEF ListenInv
<1> QED
  BY <1>1, <1>2, <1>3, <1>4 DEF ListenInv

LEMMA ListenInvariant == ASSUME ListenAssumption PROVE CutsSpec => []ListenInv
<1>1. CutsInit => ListenInv
  BY ListenInit
<1>2. ListenInv /\ [CutsNext]_cutsVars => ListenInv'
  BY ListenInductive
<1> QED
  BY <1>1, <1>2, PTL DEF CutsSpec

-----------------------------------------------------------------------------
\* What a queue of a listener holds is a prefix of what the listener has heard since
\* it was drained, whatever its bound (listen.rs, Shared::push and drain).
LEMMA HistoryAlwaysPrefix == ASSUME ListenAssumption PROVE CutsSpec => []HistoryIsPrefix
<1>1. ASSUME ListenInv PROVE HistoryIsPrefix
  <2> SUFFICES ASSUME NEW l \in Listeners
               PROVE  /\ Len(queue[l].events) <= Capacity[l]
                      /\ Len(history[l]) = Len(queue[l].events) + queue[l].dropped
                      /\ Seqs(l) = SubSeq(history[l], 1, Len(queue[l].events))
    BY DEF HistoryIsPrefix
  <2>1. QueueOK(l)
    BY <1>1 DEF ListenInv, Queues
  <2>2. /\ history[l] \in Seq(Nat) /\ Len(queue[l].events) \in Nat /\ queue[l].dropped \in Nat
    BY <1>1 DEF ListenInv, CutsTyped, Queue
  <2>3. Len(queue[l].events) <= Len(history[l])
    BY <2>1, <2>2 DEF QueueOK
  <2> DEFINE s == SubSeq(history[l], 1, Len(queue[l].events))
  <2>4. s = [i \in 1 .. Len(queue[l].events) |-> history[l][i]]
    BY <2>2, <2>3
  <2> QED
    BY <2>1, <2>4 DEF QueueOK, Seqs
<1> QED
  BY <1>1, ListenInvariant, PTL

\* Concurrent cuts reach each listener in the one cut order, across batches as well:
\* the event is queued under the mutex that numbered it (kernel.rs, Kernel::cut).
LEMMA CutsReachInOrder == ASSUME ListenAssumption PROVE CutsSpec => []InCutOrder
<1>1. ASSUME ListenInv PROVE InCutOrder
  <2> SUFFICES ASSUME NEW l \in Listeners, NEW i \in 1 .. Len(history[l])
               PROVE  history[l][i] > (IF i = 1 THEN before[l] ELSE history[l][i - 1])
    BY DEF InCutOrder
  <2>1. QueueOK(l) /\ history[l] \in Seq(Nat) /\ before[l] \in Nat
    BY <1>1 DEF ListenInv, Queues, CutsTyped
  <2>2. CASE i = 1
    BY <2>1, <2>2 DEF QueueOK
  <2>3. CASE i # 1
    <3>1. i - 1 \in 1 .. Len(history[l]) /\ i - 1 < i
      BY <2>1, <2>3
    <3>2. history[l][i - 1] < history[l][i]
      BY <2>1, <3>1 DEF QueueOK
    <3>3. history[l][i - 1] \in Nat /\ history[l][i] \in Nat
      BY <2>1, <3>1
    <3> QED
      BY <2>3, <3>2, <3>3
  <2> QED
    BY <2>2, <2>3
<1> QED
  BY <1>1, ListenInvariant, PTL

\* An event omits no entry its cut took that the listener may know of: what a cut
\* lists is read under the mutex, after the bump (ReprCache::dependents_before).
LEMMA EventsOmitNothing == ASSUME ListenAssumption PROVE CutsSpec => []NoneOmitted
<1>1. ListenInv => NoneOmitted
  BY DEF ListenInv, Queues, QueueOK, NoneOmitted
<1> QED
  BY <1>1, ListenInvariant, PTL

\* What a listener is told is a prefix of the cuts it should hear of, in the one cut
\* order, each with every entry it took (listen.rs, Shared::push; kernel.rs,
\* Kernel::cut).
THEOREM CutsAreHeardInOrder == ASSUME ListenAssumption PROVE CutsSpec => []CutsHeardInOrder
<1>1. HistoryIsPrefix /\ InCutOrder /\ NoneOmitted => CutsHeardInOrder
  BY DEF CutsHeardInOrder
<1> QED
  BY <1>1, HistoryAlwaysPrefix, CutsReachInOrder, EventsOmitNothing, PTL

\* No cut that began after listen returned passes a listener by: not through the one
\* load of the count, nor through a list another task is sweeping or extending
\* (listen.rs, interested and register).
THEOREM NoCutPassesBy == ASSUME ListenAssumption PROVE CutsSpec => HearsLaterCuts
<1>1. ASSUME ListenInv, [CutsNext]_cutsVars, NEW c \in Cutters PROVE NotPassedBy(c)
  <2>1. CutsTyped /\ Registry /\ Unheard(c)
    BY <1>1 DEF ListenInv, Cuts
  <2>2. at[c] = "cutting" => ShouldHear(c) = {}
    BY <2>1 DEF Unheard, ShouldHear
  <2>3. ASSUME at[c] = "delivering", at'[c] # "delivering", NEW l \in ShouldHear(c)
        PROVE  history'[l] = Append(history[l], number[c])
    <3>1. Deliver(c)
      <4>1. ASSUME NEW d \in Cutters, Deliver(d) PROVE d = c
        <5>1. at[d] = "delivering"
          BY <4>1 DEF Deliver
        <5> QED
          BY <1>1, <2>3, <5>1 DEF ListenInv, Cuts, Delivering
      <4>2. ASSUME NEW d \in Cutters,
                   \/ \E t \in Threads : Begin(d, t)
                   \/ Interested(d) \/ SweepList(d) \/ CutPlain(d) \/ CutObserved(d) \/ Wake(d)
            PROVE  FALSE
        <5>1. at[d] # "delivering" /\ \A e \in Cutters \ {d} : at'[e] = at[e]
          BY <2>1, <4>2 DEF Begin, Interested, SweepList, CutPlain, CutObserved, Wake, CutsTyped
        <5> QED
          BY <2>3, <5>1
      <4>3. ASSUME \/ \E k \in Keys, T \in SUBSET Threads \ {{}} : Store(k, T)
                   \/ \E k \in Keys : Evict(k)
                   \/ \E k \in Listeners : Register(k) \/ Unlisten(k) \/ Drain(k)
                   \/ \E w \in Waiters, k \in Listeners : Poll(w, k)
                   \/ \E w \in Waiters : GiveUp(w)
                   \/ UNCHANGED cutsVars
            PROVE  FALSE
        <5>1. at' = at
          BY <4>3 DEF Store, Evict, Register, Unlisten, Drain, Poll, GiveUp, cutsVars, cutVars
        <5> QED
          BY <2>3, <5>1
      <4> QED
        BY <1>1, <4>1, <4>2, <4>3 DEF CutsNext
    <3>2. /\ l \in Listeners /\ l \in list \cap Registered
          /\ thread[c] \in Wants[l] /\ MayHear(l, thread[c])
      BY <2>1, <2>3 DEF ShouldHear, Registry, Registered
    <3> QED
      BY <3>1, <3>2 DEF Deliver
  <2> QED
    BY <2>2, <2>3 DEF NotPassedBy
<1>2. ListenInv /\ [CutsNext]_cutsVars => [\A c \in Cutters : NotPassedBy(c)]_cutsVars
  BY <1>1
<1> QED
  BY <1>2, ListenInvariant, PTL DEF CutsSpec, HearsLaterCuts
==============================================================================
