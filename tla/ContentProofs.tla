---------------------------- MODULE ContentProofs ----------------------------
(***************************************************************************)
(* Capabilities handed on, content held for principals, the two side by    *)
(* side, content that is read as a stream, and content an argument names.  *)
(*                                                                         *)
(* However long a line of capabilities is, narrowing and clamping amplify  *)
(* nothing.  Exclusions, ambiguous principals and the clamp that puts the  *)
(* ceiling's principal back are why the invariant says more than what is   *)
(* allowed: it bounds the scopes themselves.  A store counts exactly the   *)
(* live handles on what it holds and the bytes of it, for any number of    *)
(* handles, contents and principals.  Together the two invariants bound    *)
(* what is read.                                                           *)
(*                                                                         *)
(* A stream gives its reader what the body holds, for any bodies, readers, *)
(* pools and cuts into chunks.  The invariant says of every reader how     *)
(* what it has put out, what it holds back and what it has not read yet    *)
(* make up the body: as they are, as the whole sequences of a text, or     *)
(* from where its range starts.  That a held back part is the beginning of *)
(* the next sequence is what makes the pieces of a text independent of how *)
(* the producer cuts it.                                                   *)
(*                                                                         *)
(* However an argument travels, for any endpoints, contents, versions of   *)
(* the referent, bodies and retries, the answer is the one the value       *)
(* gives, nothing is kept under a request that cannot be asked again, and  *)
(* who tries again finds the body.  What an argument denotes never changes *)
(* as it is handed on, collected or settled; what a request got of its     *)
(* referent is the newest version, or the request is cut and hangs from    *)
(* the referent, so its answer is not stored.  A body's own name is        *)
(* carried only with the run it is attached to, which is what makes its    *)
(* requests one-shot and their retries sound.                              *)
(***************************************************************************)
EXTENDS Delivery, Streams, Arguments, TalliesProofs, FiniteSetTheorems, SequenceTheorems,
        WellFoundedInduction, TLAPS

-----------------------------------------------------------------------------
(* A line of capabilities *)

\* What scopes carry beyond a capability the line was minted from: nothing but
\* exclusions, no principal of their own, and all of its exclusions.
Within(scopes, from) ==
    /\ scopes \subseteq from \cup Exclusions
    /\ \A p \in Principals : SinglePrincipal(scopes, p) => SinglePrincipal(from, p)
    /\ from \cap Exclusions \subseteq scopes

\* The inductive invariant of a line.
LineInv ==
    /\ LineTypeOK
    /\ ~minted.root => ~cap.root /\ Within(cap.scopes, minted.scopes)

\* A scope that spells an exclusion names no principal (PrincipalIn).
LEMMA PrincipalsAreGrants == Principals \cap Exclusions = {}
BY DEF Principals, Exclusions, PrincipalIn

\* A capability is root without scopes, or some of the scopes.
LEMMA CapabilityShape ==
    ASSUME NEW c \in Capability
    PROVE  /\ c.root \in BOOLEAN /\ c.scopes \subseteq Scopes
           /\ c.root => c.scopes = {}
           /\ ~c.root => c = Scoped(c.scopes)
<1>1. CASE c = Root
  BY <1>1 DEF Root
<1>2. CASE \E scopes \in SUBSET Scopes : c = Scoped(scopes)
  <2>1. PICK scopes \in SUBSET Scopes : c = Scoped(scopes)
    BY <1>2
  <2> QED
    BY <2>1 DEF Scoped
<1> QED
  BY <1>1, <1>2 DEF Capability

\* What scopes make is a capability that is not root.
LEMMA ScopedShape ==
    ASSUME NEW scopes \in SUBSET Scopes
    PROVE  /\ Scoped(scopes) \in Capability
           /\ ~Scoped(scopes).root /\ Scoped(scopes).scopes = scopes
BY DEF Capability, Scoped

\* To narrow a capability yields a capability that is not root.
LEMMA AttenuateShape ==
    ASSUME NEW c \in Capability, NEW requested \in SUBSET Scopes
    PROVE  /\ Attenuate(c, requested) \in Capability
           /\ ~Attenuate(c, requested).root
           /\ Attenuate(c, requested).scopes
                = IF c.root THEN AtMostOnePrincipal(requested) ELSE Kept(c.scopes, requested)
<1> DEFINE kept == IF c.root THEN AtMostOnePrincipal(requested) ELSE Kept(c.scopes, requested)
<1>1. c.scopes \subseteq Scopes
  BY CapabilityShape
<1>2. kept \subseteq Scopes
  BY <1>1 DEF AtMostOnePrincipal, Kept
<1>3. Attenuate(c, requested) = Scoped(kept)
  BY DEF Attenuate
<1> QED
  BY <1>2, <1>3, ScopedShape

\* What is kept of scopes stays within them.
LEMMA KeptWithin ==
    ASSUME NEW scopes, NEW requested
    PROVE  Within(Kept(scopes, requested), scopes)
<1>1. Kept(scopes, requested) \subseteq scopes \cup Exclusions
  BY DEF Kept
<1>2. scopes \cap Exclusions \subseteq Kept(scopes, requested)
  BY PrincipalsAreGrants DEF Kept
<1>3. ASSUME NEW p \in Principals, SinglePrincipal(Kept(scopes, requested), p)
      PROVE  SinglePrincipal(scopes, p)
  <2>1. p \in Kept(scopes, requested)
    BY <1>3 DEF SinglePrincipal
  <2> QED
    BY <2>1, PrincipalsAreGrants DEF Kept
<1> QED
  BY <1>1, <1>2, <1>3 DEF Within

\* To stay within is transitive.
LEMMA WithinTransitive ==
    ASSUME NEW A, NEW B, NEW D, Within(A, B), Within(B, D)
    PROVE  Within(A, D)
BY DEF Within

\* A clamp to a ceiling that is not root stays within the ceiling: what it adds
\* to the narrowed scopes is the ceiling's own principal.
LEMMA ClampWithin ==
    ASSUME NEW ceiling \in Capability, NEW carried \in Capability, ~ceiling.root
    PROVE  /\ ~Clamp(ceiling, carried).root
           /\ Within(Clamp(ceiling, carried).scopes, ceiling.scopes)
<1>1. CASE carried.root
  BY <1>1 DEF Clamp, Within
<1>2. CASE ~carried.root
  <2> DEFINE kept == Kept(ceiling.scopes, carried.scopes)
             own == {p \in Principals : SinglePrincipal(ceiling.scopes, p)}
  <2>1. ceiling.scopes \subseteq Scopes /\ carried.scopes \subseteq Scopes
    BY CapabilityShape
  <2>2. Attenuate(ceiling, carried.scopes).scopes = kept
    BY <2>1, AttenuateShape
  <2>3. Clamp(ceiling, carried) = Scoped(kept \cup own)
    BY <1>2, <2>2 DEF Clamp
  <2>4. Within(kept, ceiling.scopes)
    BY KeptWithin
  <2>5. own \subseteq ceiling.scopes
    BY DEF SinglePrincipal
  <2>6. ASSUME NEW p \in Principals, SinglePrincipal(kept \cup own, p)
        PROVE  SinglePrincipal(ceiling.scopes, p)
    <3>1. p \in kept \/ p \in own
      BY <2>6 DEF SinglePrincipal
    <3>2. CASE p \in own
      BY <3>2
    <3>3. CASE p \in kept
      BY <3>3, PrincipalsAreGrants DEF Kept
    <3> QED
      BY <3>1, <3>2, <3>3
  <2>7. Within(kept \cup own, ceiling.scopes)
    BY <2>4, <2>5, <2>6 DEF Within
  <2> QED
    BY <2>3, <2>7 DEF Scoped
<1> QED
  BY <1>1, <1>2, CapabilityShape

\* A clamp yields a capability.
LEMMA ClampShape ==
    ASSUME NEW ceiling \in Capability, NEW carried \in Capability
    PROVE  Clamp(ceiling, carried) \in Capability
<1>1. carried.scopes \subseteq Scopes
  BY CapabilityShape
<1>2. CASE carried.root
  BY <1>2 DEF Clamp
<1>3. CASE ~carried.root
  <2> DEFINE narrowed == Attenuate(ceiling, carried.scopes)
             own == {p \in Principals : SinglePrincipal(ceiling.scopes, p)}
  <2>1. narrowed \in Capability /\ narrowed.scopes \subseteq Scopes
    BY <1>1, AttenuateShape, CapabilityShape
  <2>2. narrowed.scopes \cup own \subseteq Scopes
    BY <2>1 DEF Principals
  <2>3. Scoped(narrowed.scopes \cup own) \in Capability
    BY <2>2, ScopedShape
  <2> QED
    BY <1>3, <2>1, <2>3 DEF Clamp
<1> QED
  BY <1>2, <1>3

\* Minting starts a line that stays within itself.
LEMMA MintKeepsLine ==
    ASSUME NEW c \in Capability, cap' = c, minted' = c
    PROVE  LineInv'
BY CapabilityShape DEF LineInv, LineTypeOK, Within

\* A host's mint for a principal is a capability, so it starts a line too.
LEMMA MintPrincipalKeepsLine ==
    ASSUME LineInv, NEW p \in Principals, MintPrincipal(p)
    PROVE  LineInv'
<1>1. cap \in Capability /\ cap.scopes \subseteq Scopes
  BY CapabilityShape DEF LineInv, LineTypeOK
<1>2. WithPrincipal(cap, p) \in Capability
  BY <1>1, ScopedShape DEF WithPrincipal, Principals
<1> QED
  BY <1>2, MintKeepsLine DEF MintPrincipal

\* A line that is narrowed stays within what it was minted from.
LEMMA NarrowKeepsLine ==
    ASSUME LineInv, NEW requested \in SUBSET Scopes, Narrow(requested)
    PROVE  LineInv'
<1>1. cap \in Capability /\ cap' \in Capability /\ ~cap'.root
  BY AttenuateShape DEF LineInv, LineTypeOK, Narrow
<1>2. ASSUME ~minted.root
      PROVE  Within(cap'.scopes, minted.scopes)
  <2>1. ~cap.root /\ Within(cap.scopes, minted.scopes)
    BY <1>2 DEF LineInv
  <2>2. Within(cap'.scopes, cap.scopes)
    BY <1>1, <2>1, AttenuateShape, KeptWithin DEF Narrow
  <2> QED
    BY <2>1, <2>2, WithinTransitive
<1> QED
  BY <1>1, <1>2 DEF LineInv, LineTypeOK, Narrow

\* A line that is clamped at a door stays within what it was minted from.
LEMMA ArriveKeepsLine ==
    ASSUME LineInv, NEW carried \in Capability, Arrive(carried)
    PROVE  LineInv'
<1>1. cap \in Capability /\ cap' \in Capability
  BY ClampShape DEF LineInv, LineTypeOK, Arrive
<1>2. ASSUME ~minted.root
      PROVE  ~cap'.root /\ Within(cap'.scopes, minted.scopes)
  <2>1. ~cap.root /\ Within(cap.scopes, minted.scopes)
    BY <1>2 DEF LineInv
  <2>2. ~cap'.root /\ Within(cap'.scopes, cap.scopes)
    BY <1>1, <2>1, ClampWithin DEF Arrive
  <2> QED
    BY <2>1, <2>2, WithinTransitive
<1> QED
  BY <1>1, <1>2 DEF LineInv, LineTypeOK, Arrive

\* Every step of a line keeps the invariant.
LEMMA LineStep == LineInv /\ [LineNext]_lineVars => LineInv'
<1> SUFFICES ASSUME LineInv, [LineNext]_lineVars PROVE LineInv'
  OBVIOUS
<1>1. ASSUME NEW c \in Capability, Mint(c) PROVE LineInv'
  BY <1>1, MintKeepsLine DEF Mint
<1>2. CASE UNCHANGED lineVars
  BY <1>2 DEF LineInv, LineTypeOK, Within, SinglePrincipal, lineVars
<1> QED
  BY <1>1, <1>2, MintPrincipalKeepsLine, NarrowKeepsLine, ArriveKeepsLine DEF LineNext

\* A line begins at root, minted from root.
LEMMA LineStart == LineInit => LineInv
BY DEF LineInit, LineInv, LineTypeOK, Capability, Root

\* The invariant bounds what a line allows, whom it acts as, which exclusions it
\* keeps and which families it satisfies.
LEMMA LineInvBounds == LineInv => NoAmplification
<1> SUFFICES ASSUME LineInv PROVE NoAmplification
  OBVIOUS
<1>1. /\ cap \in Capability /\ minted \in Capability
      /\ cap.root \in BOOLEAN /\ minted.root \in BOOLEAN
  BY CapabilityShape DEF LineInv, LineTypeOK
<1>2. CASE minted.root
  BY <1>1, <1>2, CapabilityShape DEF NoAmplification, Allows, ActsAs, Satisfies
<1>3. CASE ~minted.root
  <2>1. ~cap.root /\ Within(cap.scopes, minted.scopes)
    BY <1>3 DEF LineInv
  <2>2. \A s \in Scopes : Allows(cap, s) => Allows(minted, s)
    BY <1>3, <2>1 DEF Allows, Within
  <2>3. \A p \in Principals : ActsAs(cap, p) => ActsAs(minted, p)
    BY <1>3, <2>1 DEF ActsAs, Within
  <2>4. minted.scopes \cap Exclusions \subseteq cap.scopes
    BY <2>1 DEF Within
  <2>5. ASSUME NEW f \in Families, ~(cap.scopes \cap Under[f] \subseteq Exclusions)
        PROVE  Satisfies(minted, f)
    BY <2>1, <2>5 DEF Within, Satisfies
  <2> QED
    BY <2>2, <2>3, <2>4, <2>5 DEF NoAmplification
<1> QED
  BY <1>2, <1>3

\* A capability handed on any number of times grants nothing, acts as nobody and
\* sheds no exclusion that the minted one did not (capability.rs, attenuate and
\* clamp).
THEOREM LineAmplifiesNothing == LineSpec => []NoAmplification
<1>1. LineSpec => []LineInv
  BY LineStart, LineStep, PTL DEF LineSpec
<1> QED
  BY <1>1, LineInvBounds, PTL

-----------------------------------------------------------------------------
(* Content held while handles live *)

\* The bytes of each content.
Sizes == [id \in Contents |-> IF Resident(id) THEN entries[id].size ELSE 0]

\* The store accounts for the bytes of what it holds, and keeps to its bound.
BytesKept == held \in Nat /\ held = Tally(Contents, Sizes) /\ held <= MaxBytes

\* The store's types, and a store that is gone holds nothing.
StoreInv ==
    /\ held \in Nat
    /\ entries \in [Contents -> Entry \cup {None}]
    /\ handle \in [Handles -> HandleOn \cup {None}]
    /\ alive \in BOOLEAN
    /\ ~alive => \A id \in Contents : ~Resident(id)
    /\ CountsItsHandles

\* A holder is a principal or nobody.
LEMMA HolderOfIsHolder == ASSUME NEW c PROVE HolderOf(c) \in Holders
<1>1. CASE \E p \in Principals : ~c.root /\ SinglePrincipal(c.scopes, p)
  <2>1. (CHOOSE p \in Principals : SinglePrincipal(c.scopes, p)) \in Principals
    BY <1>1
  <2> QED
    BY <1>1, <2>1 DEF HolderOf, Holders
<1>2. CASE ~\E p \in Principals : ~c.root /\ SinglePrincipal(c.scopes, p)
  BY <1>2 DEF HolderOf, Holders
<1> QED
  BY <1>1, <1>2

\* The handles on a content are finitely many.
LEMMA OnIsFinite ==
    ASSUME NEW id, NEW holder
    PROVE  IsFiniteSet(On(id, holder)) /\ Cardinality(On(id, holder)) \in Nat
<1>1. On(id, holder) \subseteq Handles
  BY DEF On
<1> QED
  BY <1>1, ContentAssumption, FS_Subset, FS_CardinalityType

\* A handle that becomes live counts once, for its content and its holder.
LEMMA OneMore ==
    ASSUME StoreInv, NEW x \in Handles, NEW id \in Contents, NEW holder \in Holders,
           ~Live(x), handle' = [handle EXCEPT ![x] = [id |-> id, holder |-> holder]],
           NEW i \in Contents, NEW h \in Holders
    PROVE  Cardinality(On(i, h)')
             = Cardinality(On(i, h)) + (IF i = id /\ h = holder THEN 1 ELSE 0)
<1>1. x \notin On(i, h)
  BY ContentAssumption DEF On, Live, HandleOn
<1>2. CASE i = id /\ h = holder
  <2>1. On(i, h)' = On(i, h) \cup {x}
    BY <1>2 DEF On, StoreInv
  <2> QED
    BY <1>1, <1>2, <2>1, OnIsFinite, FS_AddElement
<1>3. CASE ~(i = id /\ h = holder)
  <2>1. On(i, h)' = On(i, h)
    BY <1>1, <1>3 DEF On, StoreInv
  <2> QED
    BY <1>3, <2>1, OnIsFinite
<1> QED
  BY <1>2, <1>3

\* A handle that is dropped counts once less, for its content and its holder.
LEMMA OneLess ==
    ASSUME StoreInv, NEW x \in Handles, Live(x), handle' = [handle EXCEPT ![x] = None],
           NEW i \in Contents, NEW h \in Holders
    PROVE  Cardinality(On(i, h)')
             = Cardinality(On(i, h)) - (IF handle[x] = [id |-> i, holder |-> h] THEN 1 ELSE 0)
<1>0. [id |-> i, holder |-> h] # None
  BY ContentAssumption DEF HandleOn
<1>1. CASE handle[x] = [id |-> i, holder |-> h]
  <2>1. On(i, h)' = On(i, h) \ {x} /\ x \in On(i, h)
    BY <1>0, <1>1 DEF On, StoreInv
  <2> QED
    BY <1>1, <2>1, OnIsFinite, FS_RemoveElement
<1>2. CASE handle[x] # [id |-> i, holder |-> h]
  <2>1. On(i, h)' = On(i, h)
    BY <1>0, <1>2 DEF On, StoreInv
  <2> QED
    BY <1>2, <2>1, OnIsFinite
<1> QED
  BY <1>1, <1>2

\* A content has a live handle exactly if some holder has one.
LEMMA LiveIsCounted ==
    ASSUME NEW id \in Contents, handle \in [Handles -> HandleOn \cup {None}]
    PROVE  (\E x \in Handles : Live(x) /\ handle[x].id = id)
             <=> \E h \in Holders : Cardinality(On(id, h)) # 0
<1>1. \A h \in Holders : Cardinality(On(id, h)) = 0 <=> On(id, h) = {}
  BY OnIsFinite, FS_EmptySet
<1>2. ASSUME NEW x \in Handles, Live(x), handle[x].id = id
      PROVE  \E h \in Holders : On(id, h) # {}
  <2>1. handle[x] \in HandleOn
    BY <1>2 DEF Live
  <2>2. handle[x].holder \in Holders /\ x \in On(id, handle[x].holder)
    BY <1>2, <2>1 DEF HandleOn, On
  <2> QED
    BY <2>2
<1>3. ASSUME NEW h \in Holders, On(id, h) # {}
      PROVE  \E x \in Handles : Live(x) /\ handle[x].id = id
  <2>1. PICK x \in Handles : handle[x] = [id |-> id, holder |-> h]
    BY <1>3 DEF On
  <2>2. [id |-> id, holder |-> h] # None
    BY ContentAssumption DEF HandleOn
  <2> QED
    BY <2>1, <2>2 DEF Live
<1> QED
  BY <1>1, <1>2, <1>3

\* What changes one entry accounts for its bytes.
LEMMA OneEntryMoves ==
    ASSUME StoreInv, NEW id \in Contents, entries' \in [Contents -> Entry \cup {None}],
           \A i \in Contents \ {id} : entries'[i] = entries[i],
           held' - held = Sizes'[id] - Sizes[id], held' \in Int, held' <= MaxBytes
    PROVE  BytesKept'
<1>1. \A i \in Contents : Sizes[i] \in Nat /\ Sizes'[i] \in Nat
  BY DEF StoreInv, Sizes, Resident, Entry
<1>2. \A i \in Contents \ {id} : Sizes'[i] = Sizes[i]
  BY DEF Sizes, Resident
<1>3. Tally(Contents, Sizes') - Tally(Contents, Sizes) = Sizes'[id] - Sizes[id]
  BY <1>1, <1>2, TallyStep, ContentAssumption
<1>4. Tally(Contents, Sizes) \in Nat /\ Tally(Contents, Sizes') \in Nat
  BY <1>1, TallyIsNat, ContentAssumption
<1>5. held = Tally(Contents, Sizes)
  BY DEF StoreInv, CountsItsHandles, Sizes
<1>6. ASSUME NEW a \in Nat, NEW b \in Nat, NEW h \in Int, NEW d \in Int, h - a = d, b - a = d
      PROVE  h = b
  BY <1>6
<1>7. Sizes'[id] - Sizes[id] \in Int
  BY <1>1
<1>8. held' = Tally(Contents, Sizes')
  BY <1>3, <1>4, <1>5, <1>6, <1>7
<1> QED
  BY <1>4, <1>8 DEF BytesKept, Tally

\* What a step of a living store establishes: entries count the live handles, and
\* the store their bytes.
CountsAll ==
    /\ BytesKept
    /\ alive /\ alive \in BOOLEAN
    /\ entries \in [Contents -> Entry \cup {None}]
    /\ handle \in [Handles -> HandleOn \cup {None}]
    /\ \A i \in Contents :
         /\ ~Resident(i) => \A h \in Holders : Cardinality(On(i, h)) = 0
         /\ Resident(i) => \E h \in Holders : Cardinality(On(i, h)) # 0
         /\ Resident(i) => \A h \in Holders : entries[i].holders[h] = Cardinality(On(i, h))

\* Such entries keep the invariant.
LEMMA CountedSuffices == CountsAll => StoreInv
<1> SUFFICES ASSUME CountsAll PROVE StoreInv
  OBVIOUS
<1>1. \A i \in Contents :
        (\E x \in Handles : Live(x) /\ handle[x].id = i)
          <=> \E h \in Holders : Cardinality(On(i, h)) # 0
  BY LiveIsCounted DEF CountsAll
<1>2. CountsItsHandles
  BY <1>1 DEF CountsItsHandles, CountsAll, BytesKept, Sizes
<1> QED
  BY <1>2 DEF StoreInv, CountsAll, BytesKept

\* What the invariant says of one content in a living store.
LEMMA CountsOne ==
    ASSUME StoreInv, alive, NEW i \in Contents
    PROVE  /\ Resident(i) => \A h \in Holders : entries[i].holders[h] = Cardinality(On(i, h))
           /\ Resident(i) => \E h \in Holders : Cardinality(On(i, h)) # 0
           /\ ~Resident(i) => \A h \in Holders : Cardinality(On(i, h)) = 0
BY LiveIsCounted DEF StoreInv, CountsItsHandles

\* One handle more for a holder, in an entry that is there or a new one.
LEMMA MoreForOne ==
    ASSUME NEW entry \in Entry, NEW holder \in Holders
    PROVE  /\ Counted(entry, holder) \in Entry
           /\ \A h \in Holders : Counted(entry, holder).holders[h]
                = entry.holders[h] + (IF h = holder THEN 1 ELSE 0)
           /\ Counted(entry, holder).size = entry.size
BY DEF Counted, Entry

LEMMA NewForOne ==
    ASSUME NEW size \in Nat, NEW holder \in Holders
    PROVE  /\ NewEntry(size, holder) \in Entry
           /\ \A h \in Holders : NewEntry(size, holder).holders[h] = IF h = holder THEN 1 ELSE 0
           /\ NewEntry(size, holder).size = size
BY DEF NewEntry, Entry

\* A step that counts one handle more where it makes one live keeps the invariant.
LEMMA CountingOneMore ==
    ASSUME StoreInv, alive, UNCHANGED alive, NEW x \in Handles, NEW id \in Contents,
           NEW holder \in Holders, NEW size \in Nat, ~Live(x),
           handle' = [handle EXCEPT ![x] = [id |-> id, holder |-> holder]],
           entries' = [entries EXCEPT ![id] = IF Resident(id) THEN Counted(@, holder)
                                              ELSE NewEntry(size, holder)],
           Fits(id, size), held' = IF Resident(id) THEN held ELSE held + size
    PROVE  StoreInv'
<1>1. handle' \in [Handles -> HandleOn \cup {None}]
  BY DEF StoreInv, HandleOn
<1>2. Resident(id) => entries[id] \in Entry
  BY DEF StoreInv, Resident
<1> DEFINE made == IF Resident(id) THEN Counted(entries[id], holder) ELSE NewEntry(size, holder)
<1>3. made \in Entry
  BY <1>2, MoreForOne, NewForOne
<1>4. entries' = [entries EXCEPT ![id] = made]
  OBVIOUS
<1>5. entries' \in [Contents -> Entry \cup {None}] /\ Resident(id)'
  BY <1>3, <1>4, ContentAssumption DEF StoreInv, Resident
<1>6. \A i \in Contents, h \in Holders :
        Cardinality(On(i, h)') = Cardinality(On(i, h)) + (IF i = id /\ h = holder THEN 1 ELSE 0)
  BY OneMore, ZenonT(60)
<1>7. \A h \in Holders : entries'[id].holders[h] = Cardinality(On(id, h)')
  <2> TAKE h \in Holders
  <2>1. entries'[id] = made
    BY <1>4 DEF StoreInv
  <2>2. Cardinality(On(id, h)) \in Nat
    BY OnIsFinite
  <2>3. Cardinality(On(id, h)') = Cardinality(On(id, h)) + (IF h = holder THEN 1 ELSE 0)
    BY <1>6
  <2>4. CASE Resident(id)
    BY <1>2, <2>1, <2>3, <2>4, MoreForOne, CountsOne
  <2>5. CASE ~Resident(id)
    BY <2>1, <2>2, <2>3, <2>5, NewForOne, CountsOne
  <2> QED
    BY <2>4, <2>5
<1>8. \E h \in Holders : Cardinality(On(id, h)') # 0
  <2>1. Cardinality(On(id, holder)) \in Nat
    BY OnIsFinite
  <2> QED
    BY <1>6, <2>1
<1>9. ASSUME NEW i \in Contents, i # id
      PROVE  /\ ~Resident(i)' => \A h \in Holders : Cardinality(On(i, h)') = 0
             /\ Resident(i)' => \E h \in Holders : Cardinality(On(i, h)') # 0
             /\ Resident(i)' => \A h \in Holders : entries'[i].holders[h] = Cardinality(On(i, h)')
  <2>1. entries'[i] = entries[i] /\ (Resident(i)' <=> Resident(i))
    BY <1>4, <1>9 DEF StoreInv, Resident
  <2>2. \A h \in Holders : Cardinality(On(i, h)') = Cardinality(On(i, h))
    <3> TAKE h \in Holders
    <3>1. Cardinality(On(i, h)) \in Nat
      BY OnIsFinite
    <3> QED
      BY <1>6, <1>9, <3>1
  <2> QED
    BY <2>1, <2>2, CountsOne
<1>10. BytesKept'
  <2>1. \A i \in Contents \ {id} : entries'[i] = entries[i]
    BY <1>4 DEF StoreInv
  <2>2. entries'[id] = made
    BY <1>4 DEF StoreInv
  <2>3. Sizes'[id] = IF Resident(id) THEN entries[id].size ELSE size
    BY <1>2, <1>5, <2>2, MoreForOne, NewForOne DEF Sizes
  <2>4. Sizes[id] = IF Resident(id) THEN entries[id].size ELSE 0
    BY DEF Sizes
  <2>5. Resident(id) => entries[id].size \in Nat
    BY <1>2 DEF Entry
  <2>6. held \in Nat /\ held <= MaxBytes
    BY DEF StoreInv, CountsItsHandles
  <2>7. held' - held = Sizes'[id] - Sizes[id] /\ held' \in Int /\ held' <= MaxBytes
    BY <2>3, <2>4, <2>5, <2>6 DEF Fits
  <2> QED
    BY <1>5, <2>1, <2>7, OneEntryMoves
<1>11. CountsAll'
  BY <1>1, <1>5, <1>7, <1>8, <1>9, <1>10 DEF CountsAll
<1> QED
  BY <1>11, CountedSuffices, PTL

\* Content that is put, for a caller or for root, is counted once more.
LEMMA HoldKeepsCount ==
    ASSUME StoreInv, NEW x \in Handles, NEW holder \in Holders, NEW id \in Contents,
           NEW size \in Nat, Hold(x, holder, id, size)
    PROVE  StoreInv'
BY CountingOneMore DEF Hold

\* A clone is counted once more, unless the store is gone.
LEMMA CloneKeepsCount ==
    ASSUME StoreInv, NEW x \in Handles, NEW y \in Handles, CloneHandle(x, y)
    PROVE  StoreInv'
<1>1. handle[x] \in HandleOn
  BY DEF CloneHandle, Live, StoreInv
<1> DEFINE id == handle[x].id
           holder == handle[x].holder
<1>2. id \in Contents /\ holder \in Holders /\ handle[x] = [id |-> id, holder |-> holder]
  BY <1>1 DEF HandleOn
<1>3. CASE alive
  <2>1. Resident(id)
    BY <1>2, <1>3 DEF StoreInv, CountsItsHandles, CloneHandle
  <2>2. entries' = [entries EXCEPT ![id] = IF Resident(id) THEN Counted(@, holder)
                                            ELSE NewEntry(0, holder)]
    BY <1>3, <2>1 DEF CloneHandle
  <2>3. handle' = [handle EXCEPT ![y] = [id |-> id, holder |-> holder]]
    BY <1>2 DEF CloneHandle
  <2>4. alive /\ UNCHANGED alive /\ ~Live(y) /\ Fits(id, 0) /\ UNCHANGED held
    BY <1>3, <2>1 DEF CloneHandle, Fits
  <2> QED
    BY <1>2, <2>1, <2>2, <2>3, <2>4, CountingOneMore
<1>4. CASE ~alive
  <2>1. /\ alive' = alive /\ entries' = entries /\ held' = held
        /\ handle' \in [Handles -> HandleOn \cup {None}]
    BY <1>1, <1>4 DEF CloneHandle, StoreInv
  <2> QED
    BY <1>4, <2>1 DEF StoreInv, CountsItsHandles, Resident
<1> QED
  BY <1>3, <1>4 DEF StoreInv

\* One handle less for a holder that has one.
LEMMA LessForOne ==
    ASSUME NEW entry \in Entry, NEW holder \in Holders, entry.holders[holder] # 0
    PROVE  /\ Released(entry, holder) \in Entry
           /\ \A h \in Holders : Released(entry, holder).holders[h]
                = entry.holders[h] - (IF h = holder THEN 1 ELSE 0)
           /\ Released(entry, holder).size = entry.size
BY DEF Released, Entry

\* A drop is counted once less, and the last one of all takes the entry with it.
LEMMA DropKeepsCount ==
    ASSUME StoreInv, NEW x \in Handles, DropHandle(x)
    PROVE  StoreInv'
<1>1. handle[x] \in HandleOn
  BY DEF DropHandle, Live, StoreInv
<1>2. PICK id \in Contents, holder \in Holders : handle[x] = [id |-> id, holder |-> holder]
  BY <1>1 DEF HandleOn
<1>2a. PICK entry : entry = Released(entries[id], holder)
  OBVIOUS
<1>3. /\ handle' = [handle EXCEPT ![x] = None] /\ Live(x) /\ alive' = alive
      /\ handle' \in [Handles -> HandleOn \cup {None}]
  BY DEF DropHandle, StoreInv
<1>4. CASE alive
  <2>1. Resident(id) /\ entries[id] \in Entry
    BY <1>2, <1>3, <1>4 DEF StoreInv, CountsItsHandles, Resident
  <2>2. entries' = [entries EXCEPT ![id] = IF Unheld(entry) THEN None ELSE entry]
    BY <1>2, <1>2a, <1>4, <2>1 DEF DropHandle
  <2>3. \A i \in Contents, h \in Holders :
          Cardinality(On(i, h)')
            = Cardinality(On(i, h)) - (IF i = id /\ h = holder THEN 1 ELSE 0)
    <3> TAKE i \in Contents, h \in Holders
    <3>1. handle[x] = [id |-> i, holder |-> h] <=> i = id /\ h = holder
      BY <1>2
    <3> QED
      BY <1>3, <3>1, OneLess, ZenonT(60)
  <2>4. entries[id].holders[holder] # 0
    <3>1. x \in On(id, holder)
      BY <1>2 DEF On
    <3>2. Cardinality(On(id, holder)) # 0
      BY <3>1, OnIsFinite, FS_EmptySet
    <3> QED
      BY <1>2, <1>4, <2>1, <3>2, CountsOne
  <2>5. entry \in Entry /\ \A h \in Holders : entry.holders[h] = Cardinality(On(id, h)')
    <3>1. entry \in Entry
      BY <1>2, <1>2a, <2>1, <2>4, LessForOne
    <3>2. ASSUME NEW h \in Holders PROVE entry.holders[h] = Cardinality(On(id, h)')
      <4>1. entry.holders[h] = entries[id].holders[h] - (IF h = holder THEN 1 ELSE 0)
        BY <1>2, <1>2a, <2>1, <2>4, LessForOne
      <4>2. entries[id].holders[h] = Cardinality(On(id, h))
        BY <1>2, <1>4, <2>1, CountsOne
      <4>3. Cardinality(On(id, h)') = Cardinality(On(id, h)) - (IF h = holder THEN 1 ELSE 0)
        BY <1>2, <2>3
      <4> QED
        BY <4>1, <4>2, <4>3
    <3> QED
      BY <3>1, <3>2
  <2>6. entries' \in [Contents -> Entry \cup {None}]
    BY <2>2, <2>5 DEF StoreInv
  <2>7. /\ ~Resident(id)' => \A h \in Holders : Cardinality(On(id, h)') = 0
        /\ Resident(id)' => \E h \in Holders : Cardinality(On(id, h)') # 0
        /\ Resident(id)' => \A h \in Holders : entries'[id].holders[h] = Cardinality(On(id, h)')
    <3>1. entries'[id] = IF Unheld(entry) THEN None ELSE entry
      BY <1>2, <2>2 DEF StoreInv
    <3>2. Resident(id)' <=> ~Unheld(entry)
      BY <2>5, <3>1, ContentAssumption DEF Resident
    <3> QED
      BY <2>5, <3>1, <3>2 DEF Unheld
  <2>8. ASSUME NEW i \in Contents, i # id
        PROVE  /\ ~Resident(i)' => \A h \in Holders : Cardinality(On(i, h)') = 0
               /\ Resident(i)' => \E h \in Holders : Cardinality(On(i, h)') # 0
               /\ Resident(i)' => \A h \in Holders : entries'[i].holders[h] = Cardinality(On(i, h)')
    <3>1. entries'[i] = entries[i] /\ (Resident(i)' <=> Resident(i))
      BY <2>2, <2>8 DEF StoreInv, Resident
    <3>2. \A h \in Holders : Cardinality(On(i, h)') = Cardinality(On(i, h))
      <4> TAKE h \in Holders
      <4>1. Cardinality(On(i, h)) \in Nat
        BY OnIsFinite
      <4> QED
        BY <2>3, <2>8, <4>1
    <3> QED
      BY <1>4, <3>1, <3>2, CountsOne
  <2>9. BytesKept'
    <3>1. \A i \in Contents \ {id} : entries'[i] = entries[i]
      BY <2>2 DEF StoreInv
    <3>2. entries'[id] = (IF Unheld(entry) THEN None ELSE entry) /\ (Resident(id)' <=> ~Unheld(entry))
      BY <2>2, <2>5, ContentAssumption DEF StoreInv, Resident
    <3>3. entry.size = entries[id].size /\ entry.size \in Nat
      BY <1>2a, <2>1, <2>4, LessForOne DEF Entry
    <3>4. Sizes[id] = entry.size /\ Sizes'[id] = IF Unheld(entry) THEN 0 ELSE entry.size
      BY <2>1, <3>2, <3>3 DEF Sizes
    <3>5. held' = IF Unheld(entry) THEN held - entry.size ELSE held
      BY <1>2, <1>2a, <1>4, <2>1 DEF DropHandle
    <3>6. held \in Nat /\ held <= MaxBytes /\ MaxBytes \in Nat
      BY ContentAssumption DEF StoreInv, CountsItsHandles
    <3>7. held' - held = Sizes'[id] - Sizes[id] /\ held' \in Int /\ held' <= MaxBytes
      BY <3>3, <3>4, <3>5, <3>6
    <3> QED
      BY <2>6, <3>1, <3>7, OneEntryMoves
  <2>10. CountsAll'
    BY <1>3, <1>4, <2>6, <2>7, <2>8, <2>9 DEF CountsAll
  <2> QED
    BY <2>10, CountedSuffices, PTL
<1>5. CASE ~alive
  <2>1. entries' = entries /\ held' = held
    BY <1>5 DEF DropHandle
  <2> QED
    BY <1>3, <1>5, <2>1 DEF StoreInv, CountsItsHandles, Resident
<1> QED
  BY <1>4, <1>5 DEF StoreInv

\* A store that goes away takes all its entries with it.
LEMMA DropStoreKeepsCount == StoreInv /\ DropStore => StoreInv'
<1> SUFFICES ASSUME StoreInv, DropStore PROVE StoreInv'
  OBVIOUS
<1>1. \A id \in Contents : ~Resident(id)' /\ Sizes'[id] = 0
  BY DEF DropStore, Resident, Sizes
<1>2. Tally(Contents, Sizes') = 0
  BY <1>1, TallyNothing
<1>3. CountsItsHandles'
  BY <1>1, <1>2, ContentAssumption DEF DropStore, CountsItsHandles, Sizes, Tally
<1> QED
  BY <1>1, <1>3 DEF StoreInv, DropStore

\* The store begins empty and without handles.
LEMMA StoreStart == StoreInit => StoreInv
<1> SUFFICES ASSUME StoreInit PROVE StoreInv
  OBVIOUS
<1>1. \A id \in Contents : ~Resident(id)
  BY DEF StoreInit, Resident
<1>2. \A x \in Handles : ~Live(x)
  BY DEF StoreInit, Live
<1>3. Tally(Contents, Sizes) = 0
  BY <1>1, TallyNothing DEF Sizes
<1>4. CountsItsHandles
  BY <1>1, <1>2, <1>3, ContentAssumption DEF StoreInit, CountsItsHandles, Sizes
<1> QED
  BY <1>1, <1>4 DEF StoreInit, StoreInv

\* Every operation of the store keeps the invariant.
LEMMA StoreStep == StoreInv /\ [StoreNext]_storeVars => StoreInv'
<1> SUFFICES ASSUME StoreInv, [StoreNext]_storeVars PROVE StoreInv'
  OBVIOUS
<1>1. ASSUME NEW x \in Handles, NEW id \in Contents, Put(x, id) PROVE StoreInv'
  BY <1>1, HoldKeepsCount, ContentAssumption DEF Put, Holders
<1>2. ASSUME NEW x \in Handles, NEW c \in Capability, NEW id \in Contents, PutFor(x, c, id)
      PROVE  StoreInv'
  BY <1>2, HoldKeepsCount, HolderOfIsHolder, ContentAssumption DEF PutFor
<1>3. ASSUME NEW x \in Handles, NEW id \in Contents \cup {None}, NEW hint \in Hints \cup {None},
             PutReplay(x, id, hint)
      PROVE  StoreInv'
  BY <1>3, HoldKeepsCount, ContentAssumption DEF PutReplay, Holders
<1>4. ASSUME NEW x \in Handles, NEW c \in Capability,
             NEW id \in Contents \cup {None}, NEW hint \in Hints \cup {None},
             PutReplayFor(x, c, id, hint)
      PROVE  StoreInv'
  BY <1>4, HoldKeepsCount, HolderOfIsHolder, ContentAssumption DEF PutReplayFor
<1>5. CASE UNCHANGED storeVars
  BY <1>5 DEF StoreInv, CountsItsHandles, Resident, Live, On, Tally, storeVars
<1> QED
  BY <1>1, <1>2, <1>3, <1>4, <1>5, CloneKeepsCount, DropKeepsCount, DropStoreKeepsCount
  DEF StoreNext

\* Whatever handles are taken, cloned and dropped, in any order and also while
\* the store goes away, a living store keeps exactly the content that has a live
\* handle and counts its handles per holder, and the bytes it accounts for are those
\* of what it keeps and within its bound (content_store.rs, hold and Drop).
THEOREM StoreCountsItsHandles == StoreSpec => []CountsItsHandles
<1>1. StoreSpec => []StoreInv
  BY StoreStart, StoreStep, PTL DEF StoreSpec
<1>2. StoreInv => CountsItsHandles
  BY DEF StoreInv
<1> QED
  BY <1>1, <1>2, PTL

-----------------------------------------------------------------------------
(* Side by side *)

\* A delivery's step is one of the line's, one of the store's, or none.
LEMMA StepIsOfOne ==
    ASSUME LineTypeOK, [Next]_vars
    PROVE  [LineNext]_lineVars /\ [StoreNext]_storeVars
<1>1. cap \in Capability
  BY DEF LineTypeOK
<1>2. CASE LineNext /\ UNCHANGED storeVars
  BY <1>2
<1>3. CASE StoreNext /\ UNCHANGED lineVars
  BY <1>3
<1>4. CASE UNCHANGED vars
  BY <1>4 DEF vars
<1>5. CASE Next
  BY <1>1, <1>2, <1>3, <1>5 DEF Next, LineNext, StoreNext
<1> QED
  BY <1>4, <1>5

\* Both invariants hold at once.
LEMMA DeliveryInvariant == Spec => [](LineInv /\ StoreInv)
<1>1. Init => LineInv /\ StoreInv
  BY LineStart, StoreStart DEF Init
<1>2. LineInv /\ StoreInv /\ [Next]_vars => (LineInv /\ StoreInv)'
  <2>1. LineInv /\ [Next]_vars => [LineNext]_lineVars /\ [StoreNext]_storeVars
    BY StepIsOfOne DEF LineInv
  <2> QED
    BY <2>1, LineStep, StoreStep
<1> QED
  BY <1>1, <1>2, PTL DEF Spec

\* What a capability reads it reads through a live handle of the principal it
\* acts as, and everyone it was narrowed from acts as that principal too.
LEMMA ReadsThroughAHandle == LineInv /\ StoreInv => ReadsItsOwn
<1> SUFFICES ASSUME LineInv, StoreInv, NEW id \in Contents, Readable(id, cap)
    PROVE  /\ Readable(id, minted)
           /\ \/ cap.root
              \/ \E x \in Handles : /\ Live(x) /\ handle[x].id = id
                                    /\ handle[x].holder # None
                                    /\ ActsAs(cap, handle[x].holder)
  BY DEF ReadsItsOwn
<1>1. Resident(id)
  BY DEF Readable
<1>2. NoAmplification
  BY LineInvBounds
<1>3. CASE cap.root
  <2>1. minted.root
    BY <1>3, CapabilityShape DEF LineInv, LineTypeOK
  <2> QED
    BY <1>1, <1>3, <2>1 DEF Readable
<1>4. CASE ~cap.root
  <2>1. PICK h \in Holders : entries[id].holders[h] > 0 /\ Admits(h, cap)
    BY <1>4 DEF Readable
  <2>2. h # None /\ h \in Principals /\ ActsAs(cap, h)
    BY <2>1 DEF Admits, Holders
  <2>3. ActsAs(minted, h)
    BY <1>2, <2>2 DEF NoAmplification
  <2>4. Readable(id, minted)
    BY <1>1, <2>1, <2>2, <2>3 DEF Readable, Admits
  <2>5. On(id, h) # {}
    <3>1. alive
      BY <1>1 DEF StoreInv
    <3>2. Cardinality(On(id, h)) # 0
      BY <1>1, <2>1, <3>1, CountsOne
    <3> QED
      BY <3>2, FS_EmptySet
  <2>6. PICK x \in Handles : handle[x] = [id |-> id, holder |-> h]
    BY <2>5 DEF On
  <2>7. Live(x)
    BY <2>6, ContentAssumption DEF Live, HandleOn
  <2> QED
    BY <2>2, <2>4, <2>6, <2>7
<1> QED
  BY <1>3, <1>4

\* Delivering content beside it changes nothing in how a line is narrowed.
THEOREM DeliveryAmplifiesNothing == Spec => []NoAmplification
BY DeliveryInvariant, LineInvBounds, PTL

\* Capabilities changing beside it change nothing in how handles are counted.
THEOREM DeliveryCountsItsHandles == Spec => []CountsItsHandles
<1>1. StoreInv => CountsItsHandles
  BY DEF StoreInv
<1> QED
  BY <1>1, DeliveryInvariant, PTL

\* What is held for someone is read by root and by whoever acts as that someone,
\* and never by a capability narrowed from one that could not
\* (content_store.rs, get_for).
THEOREM DeliveryReadsItsOwn == Spec => []ReadsItsOwn
BY DeliveryInvariant, ReadsThroughAHandle, PTL

(***************************************************************************)
(* Text.                                                                   *)

LEMMA WholeStays ==
  ASSUME NEW s \in Seq(Bytes), NEW n \in 0 .. Len(s), Whole(s, n)
  PROVE  After(s, n) \in 0 .. Len(s) /\ n < After(s, n)
<1>1. s[n + 1] \in Bytes
  BY ElementOfSeq DEF Whole
<1>2. Width(s[n + 1]) \in Nat
  BY DEF Width, Whole
<1> QED
  BY <1>2 DEF Whole, After

LEMMA PositionsClosed ==
  ASSUME NEW s \in Seq(Bytes), NEW n \in 0 .. Len(s)
  PROVE  /\ n \in Positions(s, n) /\ Positions(s, n) \subseteq 0 .. Len(s)
         /\ \A x \in Positions(s, n) : Whole(s, x) => After(s, x) \in Positions(s, n)
<1>1. n \in Positions(s, n) /\ Positions(s, n) \subseteq 0 .. Len(s)
  BY DEF Positions
<1>2. ASSUME NEW x \in Positions(s, n), Whole(s, x) PROVE After(s, x) \in Positions(s, n)
  <2>1. After(s, x) \in 0 .. Len(s)
    BY <1>1, <1>2, WholeStays
  <2>2. ASSUME NEW S \in SUBSET (0 .. Len(s)), n \in S,
               \A y \in S : Whole(s, y) => After(s, y) \in S
        PROVE  After(s, x) \in S
    BY <1>2, <2>2 DEF Positions
  <2> QED
    BY <2>1, <2>2 DEF Positions
<1> QED
  BY <1>1, <1>2

LEMMA PositionsLeast ==
  ASSUME NEW s, NEW n, NEW S \in SUBSET (0 .. Len(s)), n \in S,
         \A y \in S : Whole(s, y) => After(s, y) \in S
  PROVE  Positions(s, n) \subseteq S
BY DEF Positions

LEMMA PositionsStep ==
  ASSUME NEW s \in Seq(Bytes), NEW n \in 0 .. Len(s)
  PROVE  /\ Whole(s, n) => Positions(s, n) = {n} \cup Positions(s, After(s, n))
         /\ ~Whole(s, n) => Positions(s, n) = {n}
<1>1. CASE Whole(s, n)
  <2> DEFINE S == {n} \cup Positions(s, After(s, n))
  <2>1. After(s, n) \in 0 .. Len(s)
    BY <1>1, WholeStays
  <2>2. S \in SUBSET (0 .. Len(s)) /\ \A y \in S : Whole(s, y) => After(s, y) \in S
    BY <2>1, PositionsClosed
  <2>3. Positions(s, n) \subseteq S
    BY <2>2, PositionsLeast
  <2>4. /\ n \in Positions(s, n) /\ Positions(s, n) \in SUBSET (0 .. Len(s))
        /\ \A x \in Positions(s, n) : Whole(s, x) => After(s, x) \in Positions(s, n)
    BY PositionsClosed
  <2>5. Positions(s, After(s, n)) \subseteq Positions(s, n)
    BY <1>1, <2>4, PositionsLeast
  <2> QED
    BY <1>1, <2>3, <2>4, <2>5
<1>2. CASE ~Whole(s, n)
  <2>1. Positions(s, n) \subseteq {n}
    <3>1. {n} \in SUBSET (0 .. Len(s)) /\ \A y \in {n} : Whole(s, y) => After(s, y) \in {n}
      BY <1>2
    <3> QED
      BY <3>1, PositionsLeast
  <2> QED
    BY <1>2, <2>1, PositionsClosed
<1> QED
  BY <1>1, <1>2

\* The decoder stops somewhere.
LEMMA StopsSomewhere ==
  ASSUME NEW s \in Seq(Bytes)
  PROVE  ValidUpTo(s) \in Positions(s, 0) /\ ~Whole(s, ValidUpTo(s))
<1>1. Len(s) \in Nat /\ 0 \in 0 .. Len(s)
  BY LenProperties
<1> DEFINE T == {m \in Nat : m <= Len(s) /\ Len(s) - m \in Positions(s, 0)}
<1>2. Len(s) \in T
  BY <1>1, PositionsClosed
<1>3. PICK m \in T : \A y \in T : m <= y
  BY <1>2, LeastOf
<1>4. Len(s) - m \in Positions(s, 0) /\ Len(s) - m \in 0 .. Len(s)
  BY <1>1, <1>3
<1>5. ~Whole(s, Len(s) - m)
  <2> SUFFICES ASSUME Whole(s, Len(s) - m) PROVE FALSE
    OBVIOUS
  <2> DEFINE next == After(s, Len(s) - m)
  <2>1. next \in 0 .. Len(s) /\ Len(s) - m < next
    BY <1>4, WholeStays
  <2>2. next \in Positions(s, 0)
    BY <1>1, <1>4, PositionsClosed
  <2> HIDE DEF next
  <2>3. Len(s) - next \in Nat /\ Len(s) - (Len(s) - next) = next
    BY <1>1, <2>1
  <2>4. Len(s) - next \in T
    BY <1>1, <2>1, <2>2, <2>3
  <2> HIDE DEF T
  <2>5. m <= Len(s) - next
    BY <1>3, <2>4
  <2> QED
    BY <1>1, <1>3, <1>4, <2>1, <2>5 DEF T
<1> QED
  BY <1>4, <1>5 DEF ValidUpTo

\* Where it stops, everything it came to leads.
LEMMA AllLeadToTheStop ==
  ASSUME NEW s \in Seq(Bytes), NEW b \in Positions(s, 0), ~Whole(s, b)
  PROVE  \A n \in Positions(s, 0) : b \in Positions(s, n)
<1> DEFINE S == {n \in 0 .. Len(s) : b \in Positions(s, n)}
<1>1. 0 \in 0 .. Len(s)
  BY LenProperties
<1>2. 0 \in S
  BY <1>1
<1>3. ASSUME NEW n \in S, Whole(s, n) PROVE After(s, n) \in S
  <2>1. n # b /\ b \in Positions(s, n)
    BY <1>3
  <2>2. After(s, n) \in 0 .. Len(s)
    BY <1>3, WholeStays
  <2> QED
    BY <1>3, <2>1, <2>2, PositionsStep
<1>4. Positions(s, 0) \subseteq S
  BY <1>2, <1>3, PositionsLeast
<1> QED
  BY <1>4

LEMMA TextIsReached ==
  ASSUME NEW s \in Seq(Bytes)
  PROVE  IsText(s) <=> Len(s) \in Positions(s, 0)
<1>1. ValidUpTo(s) \in Positions(s, 0) /\ ~Whole(s, ValidUpTo(s))
  BY StopsSomewhere
<1>2. Len(s) \in 0 .. Len(s) /\ ~Whole(s, Len(s))
  BY LenProperties DEF Whole
<1>3. Len(s) \in Positions(s, 0) => ValidUpTo(s) \in Positions(s, Len(s))
  BY <1>1, AllLeadToTheStop
<1> QED
  BY <1>1, <1>2, <1>3, PositionsStep DEF IsText

LEMMA StuckIsNoText ==
  ASSUME NEW s \in Seq(Bytes), NEW b \in Positions(s, 0), ~Whole(s, b), b # Len(s)
  PROVE  ~IsText(s)
<1>1. Len(s) \in 0 .. Len(s) /\ ~Whole(s, Len(s))
  BY LenProperties DEF Whole
<1>2. Len(s) \in Positions(s, 0) => b \in Positions(s, Len(s))
  BY AllLeadToTheStop
<1> QED
  BY <1>1, <1>2, PositionsStep, TextIsReached

\* t is the part of s that begins after d.
PartAt(s, d, t) ==
  /\ t \in Seq(Bytes) /\ d \in Nat /\ d + Len(t) <= Len(s)
  /\ \A i \in 1 .. Len(t) : t[i] = s[d + i]

LEMMA PartIsReached ==
  ASSUME NEW s \in Seq(Bytes), NEW d \in Positions(s, 0), NEW t, PartAt(s, d, t)
  PROVE  \A n \in Positions(t, 0) : d + n \in Positions(s, 0)
<1> DEFINE S == {n \in 0 .. Len(t) : d + n \in Positions(s, 0)}
<1>1. 0 \in 0 .. Len(s) /\ 0 \in 0 .. Len(t) /\ Len(t) \in Nat /\ Len(s) \in Nat
  BY LenProperties DEF PartAt
<1>2. 0 \in S
  BY <1>1 DEF PartAt
<1>3. ASSUME NEW n \in S, Whole(t, n) PROVE After(t, n) \in S
  <2>1. After(t, n) \in 0 .. Len(t) /\ t \in Seq(Bytes) /\ n \in Nat /\ d \in Nat
    BY <1>1, <1>3, WholeStays DEF PartAt
  <2>2. n + 1 \in 1 .. Len(t) /\ t[n + 1] = s[d + (n + 1)]
    BY <1>1, <1>3, <2>1 DEF Whole, PartAt
  <2>3. t[n + 1] = s[(d + n) + 1]
    BY <2>1, <2>2
  <2> DEFINE w == Width(t[n + 1])
  <2>4. w \in 1 .. Len(t) - n /\ Width(s[(d + n) + 1]) = w
    BY <1>3, <2>3 DEF Whole
  <2> HIDE DEF w
  <2>5. w \in 1 .. Len(s) - (d + n) /\ d + n < Len(s)
    BY <1>1, <2>1, <2>2, <2>4 DEF PartAt
  <2>6. ASSUME NEW i \in 2 .. w PROVE s[(d + n) + i] = "t"
    <3>1. n + i \in 1 .. Len(t) /\ d + (n + i) = (d + n) + i
      BY <1>1, <2>1, <2>4
    <3>2. t[n + i] = "t"
      BY <1>3 DEF Whole, w
    <3> QED
      BY <3>1, <3>2 DEF PartAt
  <2>7. Whole(s, d + n)
    BY <2>4, <2>5, <2>6 DEF Whole
  <2>8. After(s, d + n) \in Positions(s, 0)
    BY <1>1, <2>7, PositionsClosed
  <2>9. After(s, d + n) = d + After(t, n)
    BY <2>1, <2>4, <1>1 DEF After, w
  <2> QED
    BY <2>1, <2>8, <2>9
<1>4. Positions(t, 0) \subseteq S
  BY <1>2, <1>3, PositionsLeast
<1> QED
  BY <1>4

\* What the checked decoder refuses is no part of a text.
LEMMA RefusedIsNoText ==
  ASSUME NEW s \in Seq(Bytes), NEW d \in Positions(s, 0), NEW t, PartAt(s, d, t),
         ValidUpTo(t) # Len(t), ~Unfinished(t)
  PROVE  ~IsText(s)
<1> DEFINE b == ValidUpTo(t)
<1>1. t \in Seq(Bytes) /\ d \in Nat /\ Len(t) \in Nat /\ Len(s) \in Nat /\ d + Len(t) <= Len(s)
  BY LenProperties DEF PartAt
<1>2. b \in Positions(t, 0) /\ ~Whole(t, b) /\ b # Len(t)
  BY <1>1, StopsSomewhere
<1>3. b \in 0 .. Len(t)
  BY <1>1, <1>2, PositionsClosed
<1>4. d + b \in Positions(s, 0)
  BY <1>2, PartIsReached
<1> DEFINE tail == SubSeq(t, b + 1, Len(t))
<1>5. ~(Len(tail) < Width(tail[1]) /\ \A i \in 2 .. Len(tail) : tail[i] = "t")
  BY DEF Unfinished
<1> HIDE DEF b
<1>6. Len(tail) = Len(t) - b /\ \A i \in 1 .. Len(t) - b : tail[i] = t[b + i]
  <2>1. \A i \in b + 1 .. Len(t) : t[i] \in Bytes
    BY <1>1, <1>3, ElementOfSeq
  <2>2. /\ Len(tail) = IF b + 1 <= Len(t) THEN Len(t) - (b + 1) + 1 ELSE 0
        /\ \A i \in 1 .. Len(t) - (b + 1) + 1 : tail[i] = t[(b + 1) + i - 1]
    BY <1>1, <1>3, <2>1, SubSeqProperties
  <2>3. Len(tail) = Len(t) - b /\ Len(t) - (b + 1) + 1 = Len(t) - b
    BY <1>1, <1>2, <1>3, <2>2
  <2>4. \A i \in 1 .. Len(t) - b : (b + 1) + i - 1 = b + i
    BY <1>3
  <2> QED
    BY <2>2, <2>3, <2>4
<1>7. \A i \in 1 .. Len(t) - b : tail[i] = s[(d + b) + i] /\ t[b + i] = s[(d + b) + i]
  <2> SUFFICES ASSUME NEW i \in 1 .. Len(t) - b
               PROVE  tail[i] = s[(d + b) + i] /\ t[b + i] = s[(d + b) + i]
    OBVIOUS
  <2>1. b + i \in 1 .. Len(t) /\ d + (b + i) = (d + b) + i
    BY <1>1, <1>3
  <2> QED
    BY <1>6, <2>1 DEF PartAt
<1> HIDE DEF tail
<1>8. 1 \in 1 .. Len(t) - b
  BY <1>1, <1>2, <1>3
<1>9. ~Whole(s, d + b)
  <2> SUFFICES ASSUME Whole(s, d + b) PROVE FALSE
    OBVIOUS
  <2> DEFINE w == Width(s[(d + b) + 1])
  <2>1. w \in Nat /\ w > 0 /\ Width(tail[1]) = w /\ Width(t[b + 1]) = w
    BY <1>7, <1>8 DEF Whole
  <2>2. \A i \in 2 .. w : s[(d + b) + i] = "t"
    BY DEF Whole
  <2> HIDE DEF w
  <2>3. CASE w <= Len(t) - b
    <3>1. ASSUME NEW i \in 2 .. w PROVE t[b + i] = "t"
      <4>1. i \in 1 .. Len(t) - b
        BY <1>1, <1>3, <2>1, <2>3
      <4> QED
        BY <1>7, <2>2, <4>1
    <3>2. b < Len(t) /\ w \in 1 .. Len(t) - b
      BY <1>1, <1>2, <1>3, <2>1, <2>3
    <3> QED
      BY <1>2, <2>1, <3>1, <3>2 DEF Whole
  <2>4. CASE ~(w <= Len(t) - b)
    <3>1. ASSUME NEW i \in 2 .. Len(tail) PROVE tail[i] = "t"
      <4>1. i \in 1 .. Len(t) - b /\ i \in 2 .. w
        BY <1>1, <1>3, <1>6, <2>1, <2>4
      <4> QED
        BY <1>7, <2>2, <4>1
    <3>2. Len(tail) < w
      BY <1>1, <1>3, <1>6, <2>1, <2>4
    <3> QED
      BY <1>5, <2>1, <3>1, <3>2
  <2> QED
    BY <2>3, <2>4
<1>10. d + b # Len(s)
  BY <1>1, <1>2, <1>3
<1> QED
  BY <1>4, <1>9, <1>10, StuckIsNoText

LEMMA PartGrows ==
  ASSUME NEW s \in Seq(Bytes), NEW d, NEW u, NEW v, PartAt(s, d, u), PartAt(s, d + Len(u), v)
  PROVE  PartAt(s, d, u \o v) /\ Len(u \o v) = Len(u) + Len(v)
<1>1. /\ u \in Seq(Bytes) /\ v \in Seq(Bytes) /\ d \in Nat /\ Len(u) \in Nat /\ Len(v) \in Nat
      /\ Len(s) \in Nat /\ d + Len(u) + Len(v) <= Len(s)
  BY LenProperties DEF PartAt
<1>2. /\ u \o v \in Seq(Bytes) /\ Len(u \o v) = Len(u) + Len(v)
      /\ \A i \in 1 .. Len(u) + Len(v) : (u \o v)[i] = IF i <= Len(u) THEN u[i] ELSE v[i - Len(u)]
  BY <1>1, ConcatProperties
<1>3. ASSUME NEW i \in 1 .. Len(u) + Len(v) PROVE (u \o v)[i] = s[d + i]
  <2>1. CASE i <= Len(u)
    BY <1>1, <1>2, <2>1 DEF PartAt
  <2>2. CASE ~(i <= Len(u))
    <3>1. i - Len(u) \in 1 .. Len(v) /\ (d + Len(u)) + (i - Len(u)) = d + i
      BY <1>1, <2>2
    <3>2. v[i - Len(u)] = s[(d + Len(u)) + (i - Len(u))]
      BY <3>1 DEF PartAt
    <3> QED
      BY <1>2, <2>2, <3>1, <3>2
  <2> QED
    BY <2>1, <2>2
<1> QED
  BY <1>1, <1>2, <1>3 DEF PartAt

LEMMA PartSplits ==
  ASSUME NEW s \in Seq(Bytes), NEW d, NEW v, PartAt(s, d, v), NEW k \in 0 .. Len(v)
  PROVE  /\ PartAt(s, d, SubSeq(v, 1, k)) /\ Len(SubSeq(v, 1, k)) = k
         /\ PartAt(s, d + k, SubSeq(v, k + 1, Len(v))) /\ Len(SubSeq(v, k + 1, Len(v))) = Len(v) - k
<1>1. v \in Seq(Bytes) /\ d \in Nat /\ Len(v) \in Nat /\ Len(s) \in Nat /\ d + Len(v) <= Len(s) /\ k \in Nat
  BY LenProperties DEF PartAt
<1>2. \A i \in 1 .. Len(v) : v[i] \in Bytes /\ v[i] = s[d + i]
  BY <1>1, ElementOfSeq DEF PartAt
<1> DEFINE first == SubSeq(v, 1, k)
           second == SubSeq(v, k + 1, Len(v))
<1>3. first \in Seq(Bytes) /\ Len(first) = k /\ \A i \in 1 .. k : first[i] = v[i]
  <2>1. \A i \in 1 .. k : v[i] \in Bytes
    BY <1>1, <1>2
  <2>2. /\ first \in Seq(Bytes) /\ Len(first) = IF 1 <= k THEN k - 1 + 1 ELSE 0
        /\ \A i \in 1 .. k - 1 + 1 : first[i] = v[1 + i - 1]
    BY <1>1, <2>1, SubSeqProperties
  <2> HIDE DEF first
  <2>3. k - 1 + 1 = k /\ \A i \in 1 .. k : 1 + i - 1 = i
    BY <1>1
  <2> QED
    BY <1>1, <2>2, <2>3
<1>4. second \in Seq(Bytes) /\ Len(second) = Len(v) - k /\ \A i \in 1 .. Len(v) - k : second[i] = v[k + i]
  <2>1. \A i \in k + 1 .. Len(v) : v[i] \in Bytes
    BY <1>1, <1>2
  <2>2. /\ second \in Seq(Bytes)
        /\ Len(second) = IF k + 1 <= Len(v) THEN Len(v) - (k + 1) + 1 ELSE 0
        /\ \A i \in 1 .. Len(v) - (k + 1) + 1 : second[i] = v[(k + 1) + i - 1]
    BY <1>1, <2>1, SubSeqProperties
  <2> HIDE DEF second
  <2>3. Len(v) - (k + 1) + 1 = Len(v) - k /\ \A i \in 1 .. Len(v) - k : (k + 1) + i - 1 = k + i
    BY <1>1
  <2>4. Len(second) = Len(v) - k
    BY <1>1, <2>2
  <2>5. ASSUME NEW i \in 1 .. Len(v) - k PROVE second[i] = v[k + i]
    BY <2>2, <2>3
  <2> QED
    BY <2>2, <2>4, <2>5
<1> HIDE DEF first, second
<1>5. PartAt(s, d, first)
  <2>1. \A i \in 1 .. k : i \in 1 .. Len(v)
    BY <1>1
  <2>2. d + k <= Len(s)
    BY <1>1
  <2> QED
    BY <1>1, <1>2, <1>3, <2>1, <2>2 DEF PartAt
<1>6. PartAt(s, d + k, second)
  <2>1. ASSUME NEW i \in 1 .. Len(v) - k PROVE second[i] = s[(d + k) + i]
    <3>1. k + i \in 1 .. Len(v) /\ d + (k + i) = (d + k) + i
      BY <1>1
    <3> QED
      BY <1>2, <1>4, <3>1
  <2>2. d + k \in Nat /\ (d + k) + (Len(v) - k) <= Len(s)
    BY <1>1
  <2> QED
    BY <1>4, <2>1, <2>2 DEF PartAt
<1> QED
  BY <1>3, <1>4, <1>5, <1>6 DEF first, second

LEMMA PartOfPart ==
  ASSUME NEW s \in Seq(Bytes), NEW d, NEW t, NEW e, NEW u, PartAt(s, d, t), PartAt(t, e, u)
  PROVE  PartAt(s, d + e, u)
<1>1. /\ d \in Nat /\ e \in Nat /\ Len(u) \in Nat /\ Len(t) \in Nat /\ Len(s) \in Nat
      /\ d + Len(t) <= Len(s) /\ e + Len(u) <= Len(t)
  BY LenProperties DEF PartAt
<1>2. ASSUME NEW i \in 1 .. Len(u) PROVE u[i] = s[(d + e) + i]
  <2>1. e + i \in 1 .. Len(t) /\ d + (e + i) = (d + e) + i
    BY <1>1
  <2>2. u[i] = t[e + i] /\ t[e + i] = s[d + (e + i)]
    BY <2>1 DEF PartAt
  <2> QED
    BY <2>1, <2>2
<1>3. d + e \in Nat /\ (d + e) + Len(u) <= Len(s)
  BY <1>1
<1> QED
  BY <1>2, <1>3 DEF PartAt

LEMMA AllOfIt ==
  ASSUME NEW s \in Seq(Bytes)
  PROVE  PartAt(s, 0, s) /\ PartAt(s, 0, << >>)
BY LenProperties, EmptySeq DEF PartAt

LEMMA PartIsSlice ==
  ASSUME NEW s \in Seq(Bytes), NEW d, NEW u, PartAt(s, d, u)
  PROVE  u = SubSeq(s, d + 1, d + Len(u))
<1>1. u \in Seq(Bytes) /\ d \in Nat /\ Len(u) \in Nat /\ Len(s) \in Nat /\ d + Len(u) <= Len(s)
  BY LenProperties DEF PartAt
<1> DEFINE t == SubSeq(s, d + 1, d + Len(u))
<1>2. \A i \in d + 1 .. d + Len(u) : s[i] \in Bytes
  <2> SUFFICES ASSUME NEW i \in d + 1 .. d + Len(u) PROVE s[i] \in Bytes
    OBVIOUS
  <2>1. i \in 1 .. Len(s)
    BY <1>1
  <2> QED
    BY <2>1, ElementOfSeq
<1>3. /\ t \in Seq(Bytes)
      /\ Len(t) = IF d + 1 <= d + Len(u) THEN (d + Len(u)) - (d + 1) + 1 ELSE 0
      /\ \A i \in 1 .. (d + Len(u)) - (d + 1) + 1 : t[i] = s[(d + 1) + i - 1]
  BY <1>1, <1>2, SubSeqProperties
<1> HIDE DEF t
<1>4. Len(t) = Len(u)
  BY <1>1, <1>3
<1>5. ASSUME NEW i \in 1 .. Len(u) PROVE t[i] = u[i]
  <2>1. i \in 1 .. (d + Len(u)) - (d + 1) + 1 /\ (d + 1) + i - 1 = d + i
    BY <1>1
  <2> QED
    BY <1>3, <2>1 DEF PartAt
<1>6. t = u
  BY <1>1, <1>3, <1>4, <1>5, SeqEqual
<1> QED
  BY <1>6 DEF t

LEMMA PartIsWhole ==
  ASSUME NEW s \in Seq(Bytes), NEW u, PartAt(s, 0, u), Len(u) = Len(s)
  PROVE  u = s
<1>1. u = SubSeq(s, 0 + 1, 0 + Len(s))
  BY PartIsSlice
<1>2. 0 + 1 = 1 /\ 0 + Len(s) = Len(s)
  BY LenProperties
<1> QED
  BY <1>1, <1>2, SubSeqFull

\* Cutting and joining texts, by name.
Cat(u, v) == u \o v
Prefix(v, k) == SubSeq(v, 1, k)
Suffix(v, k) == SubSeq(v, k + 1, Len(v))

LEMMA PrefixAndSuffix ==
  ASSUME NEW v \in Seq(Bytes), NEW k \in 0 .. Len(v)
  PROVE  /\ Prefix(v, k) \in Seq(Bytes) /\ Len(Prefix(v, k)) = k /\ Suffix(v, k) \in Seq(Bytes)
         /\ Cat(Prefix(v, k), Suffix(v, k)) = v
<1> DEFINE first == SubSeq(v, 1, k)
           second == SubSeq(v, k + 1, Len(v))
<1>1. PartAt(v, 0, v)
  BY AllOfIt
<1>2. /\ PartAt(v, 0, first) /\ Len(first) = k
      /\ PartAt(v, 0 + k, second) /\ Len(second) = Len(v) - k
  BY <1>1, PartSplits
<1> HIDE DEF first, second
<1>3. k \in Nat /\ Len(v) \in Nat
  BY LenProperties
<1>4. PartAt(v, 0 + Len(first), second)
  BY <1>2
<1>5. PartAt(v, 0, first \o second) /\ Len(first \o second) = Len(first) + Len(second)
  BY <1>2, <1>4, PartGrows
<1>6. Len(first \o second) = Len(v)
  BY <1>2, <1>3, <1>5
<1>7. first \o second = v
  BY <1>5, <1>6, PartIsWhole
<1> QED
  BY <1>2, <1>7 DEF PartAt, first, second, Prefix, Suffix, Cat

LEMMA CatOfTwo ==
  ASSUME NEW u \in Seq(Bytes), NEW v \in Seq(Bytes)
  PROVE  Cat(u, v) \in Seq(Bytes) /\ Len(Cat(u, v)) = Len(u) + Len(v)
BY ConcatProperties DEF Cat

LEMMA CatOfNone ==
  ASSUME NEW u \in Seq(Bytes)
  PROVE  << >> \in Seq(Bytes) /\ Cat(u, << >>) = u /\ Cat(<< >>, u) = u
BY EmptySeq, ConcatEmptySeq DEF Cat

LEMMA CatOfThree ==
  ASSUME NEW u \in Seq(Bytes), NEW v \in Seq(Bytes), NEW w \in Seq(Bytes)
  PROVE  Cat(Cat(u, v), w) = Cat(u, Cat(v, w))
BY ConcatAssociative, SMTT(20) DEF Cat

LEMMA MiddleIsPart ==
  ASSUME NEW u \in Seq(Bytes), NEW v \in Seq(Bytes), NEW w \in Seq(Bytes)
  PROVE  /\ Cat(Cat(u, v), w) \in Seq(Bytes) /\ PartAt(Cat(Cat(u, v), w), Len(u), v)
         /\ Len(Cat(Cat(u, v), w)) = Len(u) + Len(v) + Len(w)
<1>1. Len(u) \in Nat /\ Len(v) \in Nat /\ Len(w) \in Nat
  BY LenProperties
<1>2. /\ u \o v \in Seq(Bytes) /\ Len(u \o v) = Len(u) + Len(v)
      /\ \A i \in 1 .. Len(u) + Len(v) : (u \o v)[i] = IF i <= Len(u) THEN u[i] ELSE v[i - Len(u)]
  BY ConcatProperties
<1> DEFINE x == u \o v
           y == x \o w
<1> HIDE DEF x
<1>3. /\ y \in Seq(Bytes) /\ Len(y) = Len(x) + Len(w)
      /\ \A i \in 1 .. Len(x) + Len(w) : y[i] = IF i <= Len(x) THEN x[i] ELSE w[i - Len(x)]
  BY <1>2, ConcatProperties DEF x
<1>4. Len(x) = Len(u) + Len(v)
  BY <1>2 DEF x
<1> HIDE DEF y
<1>5. ASSUME NEW i \in 1 .. Len(v) PROVE v[i] = y[Len(u) + i]
  <2> DEFINE n == Len(u) + i
  <2>1. n \in 1 .. Len(u) + Len(v) /\ n \in 1 .. Len(x) + Len(w) /\ n <= Len(x) /\ ~(n <= Len(u)) /\ n - Len(u) = i
    BY <1>1, <1>4
  <2> HIDE DEF n
  <2>2. y[n] = x[n] /\ x[n] = v[n - Len(u)]
    BY <1>2, <1>3, <2>1 DEF x
  <2> QED
    BY <2>1, <2>2 DEF n
<1>6. Len(y) = Len(u) + Len(v) + Len(w) /\ Len(u) + Len(v) <= Len(y)
  BY <1>1, <1>3, <1>4
<1>7. PartAt(y, Len(u), v)
  BY <1>1, <1>5, <1>6 DEF PartAt
<1> QED
  BY <1>3, <1>6, <1>7 DEF x, y, Cat

LEMMA PassesOn ==
  ASSUME NEW o \in Seq(Bytes), NEW c \in Seq(Bytes), NEW h \in Seq(Bytes), NEW n \in Seq(Bytes)
  PROVE  Cat(Cat(o, c), Cat(h, n)) = Cat(Cat(o, Cat(c, h)), n)
<1>1. Cat(o, c) \in Seq(Bytes) /\ Cat(c, h) \in Seq(Bytes)
  BY CatOfTwo
<1>2. Cat(Cat(o, c), Cat(h, n)) = Cat(Cat(Cat(o, c), h), n)
  BY <1>1, CatOfThree
<1>3. Cat(Cat(o, c), h) = Cat(o, Cat(c, h))
  BY CatOfThree
<1> QED
  BY <1>2, <1>3

\* What the checked decoder passes and what it holds back.
LEMMA AdmitSplits ==
  ASSUME NEW carry \in Seq(Bytes), NEW chunk \in Seq(Bytes), Admit(carry, chunk).ok
  PROVE  LET t == carry \o chunk
             a == Admit(carry, chunk)
         IN  /\ PartAt(t, 0, a.valid) /\ PartAt(t, Len(a.valid), a.carry)
             /\ Len(a.valid) + Len(a.carry) = Len(t)
             /\ Len(a.valid) \in Positions(t, 0)
             /\ a.carry # << >> => Len(a.carry) < Width(a.carry[1])
<1> DEFINE t == carry \o chunk
           b == ValidUpTo(t)
<1>1. t \in Seq(Bytes) /\ Len(t) \in Nat
  BY ConcatProperties, LenProperties
<1>2. b \in Positions(t, 0) /\ b \in 0 .. Len(t)
  <2>1. 0 \in 0 .. Len(t)
    BY <1>1
  <2> QED
    BY <1>1, <2>1, StopsSomewhere, PositionsClosed
<1>3. CASE b = Len(t)
  <2>1. Admit(carry, chunk) = [ok |-> TRUE, valid |-> t, carry |-> << >>]
    BY <1>3 DEF Admit
  <2>2. PartAt(t, 0, t) /\ PartAt(t, Len(t), << >>) /\ Len(<< >>) = 0
    BY <1>1, EmptySeq DEF PartAt
  <2> HIDE DEF t, b
  <2>3. Len(t) + 0 = Len(t)
    BY <1>1
  <2> QED
    BY <1>2, <1>3, <2>1, <2>2, <2>3 DEF t
<1>4. CASE b # Len(t)
  <2>1. Unfinished(t)
    BY <1>4 DEF Admit
  <2>2. /\ Admit(carry, chunk).valid = SubSeq(t, 1, b)
        /\ Admit(carry, chunk).carry = SubSeq(t, b + 1, Len(t))
    BY <1>4, <2>1 DEF Admit
  <2>3. Len(SubSeq(t, b + 1, Len(t))) < Width(SubSeq(t, b + 1, Len(t))[1])
    BY <2>1 DEF Unfinished
  <2> HIDE DEF t, b
  <2>4. /\ PartAt(t, 0, SubSeq(t, 1, b)) /\ Len(SubSeq(t, 1, b)) = b
        /\ PartAt(t, 0 + b, SubSeq(t, b + 1, Len(t))) /\ Len(SubSeq(t, b + 1, Len(t))) = Len(t) - b
    BY <1>1, <1>2, AllOfIt, PartSplits
  <2>5. 0 + b = b /\ b + (Len(t) - b) = Len(t)
    BY <1>1, <1>2
  <2> DEFINE valid == SubSeq(t, 1, b)
             kept == SubSeq(t, b + 1, Len(t))
  <2>6. PartAt(t, 0, valid) /\ PartAt(t, Len(valid), kept)
    BY <2>4, <2>5
  <2>7. Len(valid) + Len(kept) = Len(t) /\ Len(valid) \in Positions(t, 0)
    BY <1>2, <2>4, <2>5
  <2>8. Len(kept) < Width(kept[1])
    BY <2>3
  <2>9. Admit(carry, chunk).valid = valid /\ Admit(carry, chunk).carry = kept
    BY <2>2
  <2> HIDE DEF valid, kept
  <2> DEFINE a == Admit(carry, chunk)
  <2>10. a.valid = valid /\ a.carry = kept
    BY <2>9
  <2> HIDE DEF a
  <2>11. PartAt(t, 0, a.valid) /\ PartAt(t, Len(a.valid), a.carry)
    BY <2>6, <2>10
  <2>12. Len(a.valid) + Len(a.carry) = Len(t) /\ Len(a.valid) \in Positions(t, 0)
    BY <2>7, <2>10
  <2>13. Len(a.carry) < Width(a.carry[1])
    BY <2>8, <2>10
  <2> QED
    BY <2>11, <2>12, <2>13 DEF t, a
<1> QED
  BY <1>3, <1>4

LEMMA AdmitRejoins ==
  ASSUME NEW carry \in Seq(Bytes), NEW chunk \in Seq(Bytes), Admit(carry, chunk).ok
  PROVE  LET a == Admit(carry, chunk)
         IN  /\ a.valid \in Seq(Bytes) /\ a.carry \in Seq(Bytes)
             /\ Cat(a.valid, a.carry) = Cat(carry, chunk)
<1> DEFINE t == carry \o chunk
           a == Admit(carry, chunk)
           valid == a.valid
           kept == a.carry
<1>1. t \in Seq(Bytes)
  BY ConcatProperties
<1>2. PartAt(t, 0, valid) /\ PartAt(t, Len(valid), kept) /\ Len(valid) + Len(kept) = Len(t)
  BY AdmitSplits
<1> HIDE DEF t, valid, kept
<1>3. valid \in Seq(Bytes) /\ kept \in Seq(Bytes) /\ Len(valid) \in Nat
  BY <1>2, LenProperties DEF PartAt
<1>4. 0 + Len(valid) = Len(valid)
  BY <1>3
<1>5. PartAt(t, 0 + Len(valid), kept)
  BY <1>2, <1>4
<1>6. PartAt(t, 0, valid \o kept) /\ Len(valid \o kept) = Len(valid) + Len(kept)
  BY <1>1, <1>2, <1>5, PartGrows
<1>7. valid \o kept = t
  BY <1>1, <1>2, <1>6, PartIsWhole
<1> QED
  BY <1>3, <1>7 DEF t, valid, kept, Cat

(***************************************************************************)
(* The invariant: what a reader has passed, holds back and has still to    *)
(* read are the parts of the body, in this order.                          *)

ReaderPhases == {"idle", "reading", "done", "failed", "dropped"}
Errors == {"none", "conflict", "invalid", "unsatisfiable", "unsupported", "over", "malformed",
           "source"}
Reader == [pc : ReaderPhases, ask : Ops \cup {[op |-> "none"]}, rest : Seq(Bytes),
           carry : Seq(Bytes), out : Seq(Bytes), drawn : Nat, error : Errors]

WholeRead(me, s) == Cat(Cat(me.out, me.carry), me.rest) = s

TextRead(me, s) ==
  /\ Len(me.out) \in Positions(s, 0)
  /\ me.carry # << >> => Len(me.carry) < Width(me.carry[1])

\* After `start` bytes of s comes out and, while fewer than w are out, then rest.
Between(s, start, out, w, rest) ==
  \E before, after \in Seq(Bytes) :
    /\ Len(before) = start
    /\ Cat(Cat(before, out), after) = s
    /\ Len(out) < w => after = rest

RangeRead(me, s) ==
  /\ me.ask.start <= me.ask.stop
  /\ Len(me.out) <= me.ask.stop - me.ask.start
  /\ me.ask.start <= Len(s) =>
       Between(s, me.ask.start, me.out, me.ask.stop - me.ask.start, me.rest)
  /\ me.ask.start > Len(s) => me.out = << >> /\ me.rest = << >>

\* A reader under way in body b.
ReadingOK(me, b) ==
  /\ me.ask \in Ops
  /\ b.shape = "bytes" => me.ask.op = "spill"
  /\ me.ask.op # "range" => WholeRead(me, b.content)
  /\ me.ask.op = "text" => TextRead(me, b.content)
  /\ me.ask.op # "text" => me.carry = << >>
  /\ me.ask.op = "range" =>
       RangeRead(me, b.content) /\ (b.stated => me.ask.start <= Len(b.content))
  /\ me.ask.op = "spill" => Len(me.out) <= SpillLimit
  /\ me.drawn = IF me.ask.op = "spill" THEN 0 ELSE Len(me.out)

\* What a range of s is.
RangeOf(s, ask) == SubSeq(s, ask.start + 1, IF ask.stop < Len(s) THEN ask.stop ELSE Len(s))

DoneOK(me, b) ==
  /\ me.ask.op # "range" => me.out = b.content
  /\ me.ask.op = "range" => me.out = RangeOf(b.content, me.ask)
  /\ me.ask.op = "text" => IsText(b.content)
  /\ me.ask.op = "spill" => Len(b.content) <= SpillLimit
  /\ me.drawn = IF b.shape = "bytes" \/ me.ask.op = "spill" THEN 0 ELSE Len(me.out)

ReaderOK(me, b) ==
  /\ me \in Reader
  /\ me.pc = "idle" => me = Idle
  /\ me.pc = "reading" => ReadingOK(me, b)
  /\ me.pc = "done" => DoneOK(me, b)
  /\ me.pc = "failed" => me.drawn = 0
  /\ me.error = "malformed" => ~IsText(b.content)

Accounted == remaining + Tally(Readers, [r \in Readers |-> rd[r].drawn]) = BytePool

StreamsInv ==
  /\ body \in [content : Bodies, shape : Shapes, stated : BOOLEAN]
  /\ remaining \in Nat
  /\ rd \in [Readers -> Reader]
  /\ \A r \in Readers : ReaderOK(rd[r], body)
  /\ Accounted

\* One reader moves, and the pool pays for what it draws.
LEMMA ReaderMoves ==
  ASSUME StreamsAssumption, StreamsInv, NEW r \in Readers, NEW me \in Reader,
         rd' = [rd EXCEPT ![r] = me], UNCHANGED body, ReaderOK(me, body),
         remaining' \in Nat, remaining' + me.drawn = remaining + rd[r].drawn
  PROVE  StreamsInv'
<1>1. rd' \in [Readers -> Reader] /\ rd'[r] = me /\ \A q \in Readers \ {r} : rd'[q] = rd[q]
  BY DEF StreamsInv
<1>2. \A q \in Readers : ReaderOK(rd'[q], body)
  BY <1>1 DEF StreamsInv
<1> DEFINE m == [q \in Readers |-> rd[q].drawn]
           n == [q \in Readers |-> rd'[q].drawn]
<1>3. \A q \in Readers : m[q] \in Nat /\ n[q] \in Nat
  BY <1>1 DEF StreamsInv, Reader
<1>4. \A q \in Readers \ {r} : n[q] = m[q]
  BY <1>1
<1>5. n[r] = me.drawn /\ m[r] = rd[r].drawn /\ remaining + Tally(Readers, m) = BytePool
  BY <1>1 DEF StreamsInv, Accounted
<1> HIDE DEF m, n
<1>6. Tally(Readers, n) - Tally(Readers, m) = n[r] - m[r] /\ Tally(Readers, n) \in Nat /\ Tally(Readers, m) \in Nat
  BY <1>3, <1>4, TallyStep, TallyIsNat DEF StreamsAssumption
<1>7. remaining' + Tally(Readers, n) = BytePool
  BY <1>3, <1>5, <1>6 DEF StreamsInv
<1>8. Accounted'
  BY <1>7 DEF Accounted, n
<1> QED
  BY <1>1, <1>2, <1>8 DEF StreamsInv

LEMMA ReaderFails ==
  ASSUME StreamsAssumption, StreamsInv, NEW r \in Readers, NEW error \in Errors,
         FailWith(r, error), UNCHANGED body,
         error = "malformed" => ~IsText(body.content)
  PROVE  StreamsInv'
<1> DEFINE me == [rd[r] EXCEPT !.pc = "failed", !.error = error, !.out = << >>, !.drawn = 0]
<1>1. rd[r] \in Reader
  BY DEF StreamsInv
<1>2. me \in Reader /\ me.pc = "failed" /\ me.drawn = 0 /\ me.error = error
  BY <1>1, EmptySeq DEF Reader, ReaderPhases
<1>3. rd' = [rd EXCEPT ![r] = me]
  BY DEF FailWith
<1>4. remaining' = remaining + rd[r].drawn /\ rd[r].drawn \in Nat /\ remaining \in Nat
  BY <1>1 DEF FailWith, StreamsInv, Reader
<1> HIDE DEF me
<1>5. ReaderOK(me, body)
  BY <1>2 DEF ReaderOK
<1>6. remaining' \in Nat /\ remaining' + me.drawn = remaining + rd[r].drawn
  BY <1>2, <1>4
<1> QED
  BY <1>2, <1>3, <1>5, <1>6, ReaderMoves

LEMMA AbandonKeeps ==
  ASSUME StreamsAssumption, StreamsInv, NEW r \in Readers, Abandon(r)
  PROVE  StreamsInv'
<1> DEFINE me == [rd[r] EXCEPT !.pc = "dropped", !.out = << >>]
<1>1. rd[r] \in Reader /\ ReaderOK(rd[r], body)
  BY DEF StreamsInv
<1>2. /\ me \in Reader /\ me.pc = "dropped" /\ me.drawn = rd[r].drawn
      /\ me.error = rd[r].error /\ rd[r].drawn \in Nat
  BY <1>1, EmptySeq DEF Reader, ReaderPhases
<1>3. rd' = [rd EXCEPT ![r] = me] /\ UNCHANGED <<body, remaining>> /\ remaining \in Nat
  BY DEF Abandon, StreamsInv
<1> HIDE DEF me
<1>4. ReaderOK(me, body)
  BY <1>1, <1>2 DEF ReaderOK
<1> QED
  BY <1>2, <1>3, <1>4, ReaderMoves

LEMMA OpenKeeps ==
  ASSUME StreamsAssumption, StreamsInv, NEW r \in Readers, NEW ask \in Ops, Open(r, ask)
  PROVE  StreamsInv'
<1> DEFINE s == body.content
<1>1. /\ rd[r] = Idle /\ rd[r] \in Reader /\ s \in Seq(Bytes) /\ remaining \in Nat
      /\ UNCHANGED <<body, remaining>> /\ body.shape \in Shapes /\ body.stated \in BOOLEAN
      /\ Length = Len(s) /\ Len(s) \in Nat
  BY LenProperties DEF StreamsInv, Open, ReaderOK, StreamsAssumption, Length
<1>0. /\ rd[r].out = << >> /\ rd[r].carry = << >> /\ rd[r].drawn = 0 /\ rd[r].error = "none"
  BY <1>1 DEF Idle
<1>2. ask.op = "range" => ask.start \in Nat /\ ask.stop \in Nat
  BY DEF Ops, StreamsAssumption
<1>3. ask.op \in {"collect", "text", "spill", "range"}
  BY DEF Ops
<1>4. ASSUME NEW me \in Reader, rd' = [rd EXCEPT ![r] = me], ReaderOK(me, body), me.drawn = 0
      PROVE  StreamsInv'
  <2> QED
    BY <1>0, <1>1, <1>4, ReaderMoves
<1>5. ASSUME NEW error \in Errors, error = "malformed" => ~IsText(s),
             rd' = [rd EXCEPT ![r].pc = "failed", ![r].ask = ask, ![r].error = error]
      PROVE  StreamsInv'
  <2> DEFINE me == [rd[r] EXCEPT !.pc = "failed", !.ask = ask, !.error = error]
  <2>1. rd' = [rd EXCEPT ![r] = me]
    BY <1>5
  <2>2. me \in Reader /\ me.pc = "failed" /\ me.drawn = 0 /\ me.error = error
    BY <1>0, <1>1 DEF Reader, ReaderPhases
  <2> HIDE DEF me
  <2>3. ReaderOK(me, body)
    BY <1>5, <2>2 DEF ReaderOK
  <2> QED
    BY <1>4, <2>1, <2>2, <2>3
<1>6. CASE ~slot /\ rd' = [rd EXCEPT ![r].pc = "failed", ![r].ask = ask, ![r].error = "conflict"]
  BY <1>5, <1>6 DEF Errors
<1>7. CASE /\ Refusal(ask) # "none"
           /\ rd' = [rd EXCEPT ![r].pc = "failed", ![r].ask = ask, ![r].error = Refusal(ask)]
  <2>1. Refusal(ask) \in Errors /\ (Refusal(ask) = "malformed" => ~IsText(s))
    BY <1>3 DEF Refusal, Errors
  <2> QED
    BY <1>5, <1>7, <2>1
<1>8. CASE /\ Refusal(ask) = "none" /\ body.shape = "bytes" /\ ask.op # "spill"
           /\ rd' = [rd EXCEPT ![r].pc = "done", ![r].ask = ask,
                               ![r].out = IF ask.op = "range" THEN Slice(ask) ELSE body.content]
  <2> DEFINE result == IF ask.op = "range" THEN Slice(ask) ELSE body.content
             me == [rd[r] EXCEPT !.pc = "done", !.ask = ask, !.out = result]
  <2>1. rd' = [rd EXCEPT ![r] = me]
    BY <1>8
  <2>2. ask.op = "range" => Slice(ask) = RangeOf(s, ask) /\ Slice(ask) \in Seq(Bytes)
    <3> SUFFICES ASSUME ask.op = "range" PROVE RangeOf(s, ask) \in Seq(Bytes)
      BY <1>1 DEF Slice, RangeOf
    <3> DEFINE e == IF ask.stop < Len(s) THEN ask.stop ELSE Len(s)
    <3>1. e \in Nat /\ e <= Len(s) /\ ask.start \in Nat
      BY <1>1, <1>2
    <3> HIDE DEF e
    <3>2. \A i \in ask.start + 1 .. e : s[i] \in Bytes
      <4> SUFFICES ASSUME NEW i \in ask.start + 1 .. e PROVE s[i] \in Bytes
        OBVIOUS
      <4>1. i \in 1 .. Len(s)
        BY <1>1, <3>1
      <4> QED
        BY <1>1, <4>1, ElementOfSeq
    <3>3. SubSeq(s, ask.start + 1, e) \in Seq(Bytes)
      BY <3>1, <3>2, SubSeqProperties
    <3> QED
      BY <3>3 DEF RangeOf, e
  <2>3. result \in Seq(Bytes)
    BY <1>1, <2>2
  <2>4. ask.op = "text" => IsText(s)
    BY <1>8 DEF Refusal
  <2>5. /\ me \in Reader /\ me.pc = "done" /\ me.drawn = 0 /\ me.error = "none"
        /\ me.ask = ask /\ me.out = result
    BY <1>0, <1>1, <2>3 DEF Reader, ReaderPhases
  <2>6. (ask.op # "range" => result = s) /\ (ask.op = "range" => result = RangeOf(s, ask))
    BY <2>2
  <2> HIDE DEF me, result
  <2>7. ReaderOK(me, body)
    BY <1>8, <2>4, <2>5, <2>6 DEF ReaderOK, DoneOK
  <2> QED
    BY <1>4, <2>1, <2>5, <2>7
<1>9. CASE /\ Refusal(ask) = "none"
           /\ body.shape = "bytes" => ask.op = "spill"
           /\ rd' = [rd EXCEPT ![r].pc = "reading", ![r].ask = ask,
                               ![r].rest = IF ask.op = "range"
                                           THEN SubSeq(body.content, ask.start + 1, Length)
                                           ELSE body.content]
  <2> DEFINE rest == IF ask.op = "range" THEN SubSeq(s, ask.start + 1, Len(s)) ELSE s
             me == [rd[r] EXCEPT !.pc = "reading", !.ask = ask, !.rest = rest]
  <2>1. rd' = [rd EXCEPT ![r] = me]
    BY <1>1, <1>9
  <2>2. ask.op = "range" =>
          /\ ask.start <= ask.stop /\ (body.stated => ask.start <= Len(s))
          /\ rest \in Seq(Bytes)
          /\ ask.start <= Len(s) => \E before \in Seq(Bytes) : Len(before) = ask.start /\ Cat(before, rest) = s
          /\ ask.start > Len(s) => rest = << >>
    <3> SUFFICES ASSUME ask.op = "range"
                 PROVE  /\ ask.start <= ask.stop /\ (body.stated => ask.start <= Len(s))
                        /\ rest \in Seq(Bytes)
                        /\ ask.start <= Len(s) => \E before \in Seq(Bytes) :
                                                    Len(before) = ask.start /\ Cat(before, rest) = s
                        /\ ask.start > Len(s) => rest = << >>
      OBVIOUS
    <3>1. ask.start \in Nat /\ ask.stop \in Nat
      BY <1>2
    <3>2. ~(ask.stop < ask.start) /\ ~(body.stated /\ Unsatisfiable(ask))
      BY <1>9 DEF Refusal
    <3>3. body.stated => ask.start <= Len(s)
      BY <1>1, <3>1, <3>2 DEF Unsatisfiable
    <3>4. ask.start <= Len(s) => ask.start \in 0 .. Len(s)
      BY <1>1, <3>1
    <3>5. ask.start <= Len(s) =>
            /\ Prefix(s, ask.start) \in Seq(Bytes) /\ Len(Prefix(s, ask.start)) = ask.start
            /\ rest \in Seq(Bytes) /\ Cat(Prefix(s, ask.start), rest) = s
      BY <1>1, <3>4, PrefixAndSuffix DEF Suffix
    <3>6. ask.start > Len(s) => rest = << >>
      BY <1>1, <3>1, SubSeqEmpty
    <3>7. rest \in Seq(Bytes)
      BY <1>1, <3>1, <3>5, <3>6, EmptySeq
    <3>8. ask.start <= Len(s) => \E before \in Seq(Bytes) : Len(before) = ask.start /\ Cat(before, rest) = s
      <4> HIDE DEF rest
      <4> QED
        BY <3>5
    <3> HIDE DEF rest
    <3>9. ask.start <= ask.stop
      BY <3>1, <3>2
    <3> QED
      BY <3>3, <3>6, <3>7, <3>8, <3>9
  <2>3. rest \in Seq(Bytes)
    BY <1>1, <2>2
  <2>4. /\ me \in Reader /\ me.pc = "reading" /\ me.drawn = 0 /\ me.error = "none"
        /\ me.ask = ask /\ me.rest = rest /\ me.out = << >> /\ me.carry = << >>
    BY <1>0, <1>1, <2>3 DEF Reader, ReaderPhases
  <2>5. ask.op # "range" => rest = s
    OBVIOUS
  <2> HIDE DEF me, rest
  <2>6. Len(<< >>) = 0 /\ 0 \in Positions(s, 0) /\ << >> \in Seq(Bytes) /\ Cat(<< >>, << >>) = << >>
    <3>1. 0 \in 0 .. Len(s)
      BY <1>1
    <3>2. << >> \in Seq(Bytes) /\ Len(<< >>) = 0
      BY EmptySeq
    <3> QED
      BY <1>1, <3>1, <3>2, PositionsClosed, CatOfNone
  <2>7. ask.op # "range" => WholeRead(me, s)
    <3>1. Cat(<< >>, s) = s
      BY <1>1, CatOfNone
    <3> QED
      BY <2>4, <2>5, <2>6, <3>1 DEF WholeRead
  <2>8. TextRead(me, s)
    BY <2>4, <2>6 DEF TextRead
  <2>9. ask.op = "range" => RangeRead(me, s)
    <3> SUFFICES ASSUME ask.op = "range" PROVE RangeRead(me, s)
      OBVIOUS
    <3>1. ask.start \in Nat /\ ask.stop \in Nat /\ 0 <= ask.stop - ask.start
      BY <1>2, <2>2
    <3>2. ASSUME ask.start <= Len(s)
          PROVE  Between(s, me.ask.start, me.out, me.ask.stop - me.ask.start, me.rest)
      <4>1. PICK before \in Seq(Bytes) : Len(before) = ask.start /\ Cat(before, rest) = s
        BY <2>2, <3>2
      <4>2. Cat(before, << >>) = before
        BY CatOfNone
      <4>3. Len(before) = ask.start /\ Cat(Cat(before, << >>), rest) = s
        BY <4>1, <4>2
      <4>4. \E b, a \in Seq(Bytes) :
              /\ Len(b) = ask.start /\ Cat(Cat(b, << >>), a) = s
              /\ Len(<< >>) < ask.stop - ask.start => a = rest
        BY <2>3, <4>3
      <4> QED
        BY <2>4, <4>4 DEF Between
    <3> QED
      BY <2>2, <2>4, <2>6, <3>1, <3>2 DEF RangeRead
  <2>10. ReadingOK(me, body)
    BY <1>9, <2>2, <2>4, <2>6, <2>7, <2>8, <2>9 DEF ReadingOK, StreamsAssumption
  <2>11. ReaderOK(me, body)
    BY <2>4, <2>10 DEF ReaderOK
  <2> QED
    BY <1>4, <2>1, <2>4, <2>11
<1> QED
  BY <1>6, <1>7, <1>8, <1>9 DEF Open

\* A chunk of the text joins what is held back, and what the decoder passes and
\* holds back of them takes their place.
LEMMA TextMoves ==
  ASSUME NEW s \in Seq(Bytes), NEW out \in Seq(Bytes), NEW carry \in Seq(Bytes),
         NEW rest \in Seq(Bytes), Cat(Cat(out, carry), rest) = s, Len(out) \in Positions(s, 0),
         NEW k \in 0 .. Len(rest)
  PROVE  LET a == Admit(carry, Prefix(rest, k))
         IN  /\ a.ok => /\ a.valid \in Seq(Bytes) /\ a.carry \in Seq(Bytes)
                        /\ Cat(Cat(Cat(out, a.valid), a.carry), Suffix(rest, k)) = s
                        /\ Len(Cat(out, a.valid)) \in Positions(s, 0)
                        /\ a.carry # << >> => Len(a.carry) < Width(a.carry[1])
             /\ ~a.ok => ~IsText(s)
<1> DEFINE chunk == Prefix(rest, k)
           next == Suffix(rest, k)
           t == Cat(carry, chunk)
           a == Admit(carry, chunk)
<1>1. chunk \in Seq(Bytes) /\ next \in Seq(Bytes) /\ Cat(chunk, next) = rest
  BY PrefixAndSuffix
<1> HIDE DEF chunk, next
<1>2. s = Cat(Cat(out, t), next) /\ t \in Seq(Bytes)
  <2>1. t \in Seq(Bytes)
    BY <1>1, CatOfTwo
  <2>2. Cat(Cat(out, carry), Cat(chunk, next)) = Cat(Cat(out, t), next)
    BY <1>1, PassesOn
  <2> QED
    BY <1>1, <2>1, <2>2
<1>3. PartAt(s, Len(out), t)
  <2> HIDE DEF t
  <2> QED
    BY <1>1, <1>2, MiddleIsPart
<1>4. ASSUME a.ok
      PROVE  /\ a.valid \in Seq(Bytes) /\ a.carry \in Seq(Bytes)
             /\ Cat(Cat(Cat(out, a.valid), a.carry), next) = s
             /\ Len(Cat(out, a.valid)) \in Positions(s, 0)
             /\ a.carry # << >> => Len(a.carry) < Width(a.carry[1])
  <2>1. a.valid \in Seq(Bytes) /\ a.carry \in Seq(Bytes) /\ Cat(a.valid, a.carry) = t
    BY <1>1, <1>4, AdmitRejoins
  <2>2. Len(a.valid) \in Positions(t, 0) /\ (a.carry # << >> => Len(a.carry) < Width(a.carry[1]))
    BY <1>1, <1>4, AdmitSplits DEF Cat
  <2> DEFINE valid == a.valid
             kept == a.carry
  <2>3. valid \in Seq(Bytes) /\ kept \in Seq(Bytes) /\ Cat(valid, kept) = t
    BY <2>1
  <2>4. Len(valid) \in Positions(t, 0)
    BY <2>2
  <2> HIDE DEF valid, kept, a, t
  <2>5. Cat(Cat(out, valid), kept) = Cat(out, t)
    BY <2>3, CatOfThree
  <2>6. Len(out) + Len(valid) \in Positions(s, 0)
    BY <1>3, <2>4, PartIsReached
  <2>7. Len(Cat(out, valid)) = Len(out) + Len(valid)
    BY <2>3, CatOfTwo
  <2>8. Len(Cat(out, valid)) \in Positions(s, 0)
    BY <2>6, <2>7
  <2>9. Cat(Cat(Cat(out, valid), kept), next) = s
    BY <1>2, <2>5
  <2> QED
    BY <2>1, <2>2, <2>8, <2>9 DEF valid, kept
<1>5. ASSUME ~a.ok PROVE ~IsText(s)
  <2>1. ValidUpTo(t) # Len(t) /\ ~Unfinished(t)
    BY <1>5 DEF Admit, Cat
  <2> HIDE DEF t
  <2> QED
    BY <1>3, <2>1, RefusedIsNoText
<1> QED
  BY <1>4, <1>5 DEF chunk, next

\* A chunk is passed on as it is.
LEMMA WholeMoves ==
  ASSUME NEW s \in Seq(Bytes), NEW out \in Seq(Bytes), NEW rest \in Seq(Bytes),
         Cat(Cat(out, << >>), rest) = s, NEW k \in 0 .. Len(rest)
  PROVE  /\ Cat(Cat(Cat(out, Prefix(rest, k)), << >>), Suffix(rest, k)) = s
         /\ Len(Cat(out, Prefix(rest, k))) = Len(out) + k
<1>1. /\ Prefix(rest, k) \in Seq(Bytes) /\ Suffix(rest, k) \in Seq(Bytes) /\ Len(Prefix(rest, k)) = k
      /\ Cat(Prefix(rest, k), Suffix(rest, k)) = rest
  BY PrefixAndSuffix
<1>2. Cat(out, << >>) = out
  BY CatOfNone
<1>3. Cat(Cat(out, Prefix(rest, k)), Suffix(rest, k)) = s
  BY <1>1, <1>2, CatOfThree
<1>4. Cat(out, Prefix(rest, k)) \in Seq(Bytes) /\ Len(Cat(out, Prefix(rest, k))) = Len(out) + k
  BY <1>1, CatOfTwo, ZenonT(60)
<1>5. Cat(Cat(out, Prefix(rest, k)), << >>) = Cat(out, Prefix(rest, k))
  BY <1>4, CatOfNone
<1> QED
  BY <1>3, <1>4, <1>5

\* Of a chunk in a range only what is wanted is passed on.
LEMMA RangeMoves ==
  ASSUME NEW s \in Seq(Bytes), NEW before \in Seq(Bytes), NEW out \in Seq(Bytes),
         NEW rest \in Seq(Bytes), Cat(Cat(before, out), rest) = s, NEW j \in 0 .. Len(rest)
  PROVE  /\ Cat(Cat(before, Cat(out, Prefix(rest, j))), Suffix(rest, j)) = s
         /\ Suffix(rest, j) \in Seq(Bytes) /\ Prefix(rest, j) \in Seq(Bytes)
         /\ Len(Cat(out, Prefix(rest, j))) = Len(out) + j
<1>1. /\ Prefix(rest, j) \in Seq(Bytes) /\ Suffix(rest, j) \in Seq(Bytes) /\ Len(Prefix(rest, j)) = j
      /\ Cat(Prefix(rest, j), Suffix(rest, j)) = rest
  BY PrefixAndSuffix
<1>2. Cat(Cat(before, Cat(out, Prefix(rest, j))), Suffix(rest, j)) = s
  BY <1>1, PassesOn
<1>3. Len(Cat(out, Prefix(rest, j))) = Len(out) + j
  BY <1>1, CatOfTwo, ZenonT(60)
<1> QED
  BY <1>1, <1>2, <1>3

\* The first of the first bytes.
LEMMA PrefixOfPrefix ==
  ASSUME NEW v \in Seq(Bytes), NEW k \in 0 .. Len(v), NEW j \in 0 .. k
  PROVE  Prefix(Prefix(v, k), j) = Prefix(v, j)
<1> DEFINE chunk == Prefix(v, k)
<1>1. Len(v) \in Nat
  BY LenProperties
<1>2. j \in 0 .. Len(v) /\ PartAt(v, 0, v)
  BY <1>1, AllOfIt
<1>3. PartAt(v, 0, chunk) /\ Len(chunk) = k /\ chunk \in Seq(Bytes)
  BY <1>2, PartSplits, PrefixAndSuffix DEF Prefix
<1>4. PartAt(v, 0, Prefix(chunk, j)) /\ Len(Prefix(chunk, j)) = j
  <2> HIDE DEF chunk
  <2>1. j \in 0 .. Len(chunk)
    BY <1>3
  <2> QED
    BY <1>3, <2>1, PartSplits DEF Prefix
<1>5. PartAt(v, 0, Prefix(v, j)) /\ Len(Prefix(v, j)) = j
  BY <1>2, PartSplits DEF Prefix
<1> QED
  BY <1>4, <1>5, PartIsSlice

\* What a chunk leaves of a reader of the text, and of one that only collects.
LEMMA ChunkReads ==
  ASSUME NEW s \in Seq(Bytes), NEW me, me.out \in Seq(Bytes), me.carry \in Seq(Bytes),
         me.rest \in Seq(Bytes), WholeRead(me, s), NEW k \in 0 .. Len(me.rest), NEW you,
         you.rest = Suffix(me.rest, k)
  PROVE  /\ TextRead(me, s) /\ Admit(me.carry, Prefix(me.rest, k)).ok
            /\ you.out = Cat(me.out, Admit(me.carry, Prefix(me.rest, k)).valid)
            /\ you.carry = Admit(me.carry, Prefix(me.rest, k)).carry
              => WholeRead(you, s) /\ TextRead(you, s) /\ you.out \in Seq(Bytes) /\ you.carry \in Seq(Bytes)
         /\ TextRead(me, s) /\ ~Admit(me.carry, Prefix(me.rest, k)).ok => ~IsText(s)
         /\ me.carry = << >> /\ you.carry = << >> /\ you.out = Cat(me.out, Prefix(me.rest, k))
              => WholeRead(you, s) /\ Len(you.out) = Len(me.out) + k
<1>1. PICK out \in Seq(Bytes), carry \in Seq(Bytes), rest \in Seq(Bytes) :
        out = me.out /\ carry = me.carry /\ rest = me.rest
  OBVIOUS
<1>2. k \in 0 .. Len(rest) /\ Cat(Cat(out, carry), rest) = s
  BY <1>1 DEF WholeRead
<1>3. ASSUME Len(out) \in Positions(s, 0)
      PROVE  LET a == Admit(carry, Prefix(rest, k))
             IN  /\ a.ok => /\ a.valid \in Seq(Bytes) /\ a.carry \in Seq(Bytes)
                            /\ Cat(Cat(Cat(out, a.valid), a.carry), Suffix(rest, k)) = s
                            /\ Len(Cat(out, a.valid)) \in Positions(s, 0)
                            /\ a.carry # << >> => Len(a.carry) < Width(a.carry[1])
                 /\ ~a.ok => ~IsText(s)
  BY <1>2, <1>3, TextMoves
<1>4. ASSUME carry = << >>
      PROVE  /\ Cat(Cat(Cat(out, Prefix(rest, k)), << >>), Suffix(rest, k)) = s
             /\ Len(Cat(out, Prefix(rest, k))) = Len(out) + k
  BY <1>2, <1>4, WholeMoves
<1>5. ASSUME TextRead(me, s), Admit(me.carry, Prefix(me.rest, k)).ok,
             you.out = Cat(me.out, Admit(me.carry, Prefix(me.rest, k)).valid),
             you.carry = Admit(me.carry, Prefix(me.rest, k)).carry
      PROVE  WholeRead(you, s) /\ TextRead(you, s) /\ you.out \in Seq(Bytes) /\ you.carry \in Seq(Bytes)
  <2> DEFINE a == Admit(carry, Prefix(rest, k))
  <2>1. a.ok /\ you.out = Cat(out, a.valid) /\ you.carry = a.carry /\ you.rest = Suffix(rest, k)
    BY <1>1, <1>5
  <2>2. Len(out) \in Positions(s, 0)
    BY <1>1, <1>5 DEF TextRead
  <2>3. /\ a.valid \in Seq(Bytes) /\ a.carry \in Seq(Bytes)
        /\ Cat(Cat(Cat(out, a.valid), a.carry), Suffix(rest, k)) = s
        /\ Len(Cat(out, a.valid)) \in Positions(s, 0)
        /\ a.carry # << >> => Len(a.carry) < Width(a.carry[1])
    BY <1>3, <2>1, <2>2
  <2> HIDE DEF a
  <2>4. Cat(out, a.valid) \in Seq(Bytes)
    BY <2>3, CatOfTwo
  <2> QED
    BY <2>1, <2>3, <2>4 DEF WholeRead, TextRead
<1>6. ASSUME TextRead(me, s), ~Admit(me.carry, Prefix(me.rest, k)).ok PROVE ~IsText(s)
  BY <1>1, <1>3, <1>6 DEF TextRead
<1>7. ASSUME me.carry = << >>, you.carry = << >>, you.out = Cat(me.out, Prefix(me.rest, k))
      PROVE  WholeRead(you, s) /\ Len(you.out) = Len(me.out) + k
  BY <1>1, <1>4, <1>7 DEF WholeRead
<1> QED
  BY <1>5, <1>6, <1>7


\* One chunk, whatever the reader does with it.
LEMMA ChunkKeeps ==
  ASSUME StreamsAssumption, StreamsInv, NEW r \in Readers, NEW k \in 1 .. MaxChunk, Chunk(r, k)
  PROVE  StreamsInv'
<1>1. PICK me \in Reader, s \in Seq(Bytes) : me = rd[r] /\ s = body.content
  BY DEF StreamsInv, StreamsAssumption
<1> DEFINE chunk == Prefix(me.rest, k)
           admitted == IF me.ask.op = "text" THEN Admit(me.carry, chunk)
                       ELSE [ok |-> TRUE, valid |-> Taken(r, chunk), carry |-> << >>]
           draw == IF me.ask.op = "spill" THEN 0 ELSE Len(admitted.valid)
<1>2. /\ remaining \in Nat /\ UNCHANGED body /\ me.pc = "reading" /\ k \in 1 .. Len(me.rest)
      /\ ReaderOK(me, body) /\ ReadingOK(me, body) /\ me.ask \in Ops
  BY <1>1 DEF StreamsInv, Chunk, ReaderOK, ReadingOK
<1>3. me.ask.op \in {"collect", "text", "spill", "range"}
  BY <1>2 DEF Ops
<1>4. me.ask.op = "range" => /\ me.ask.start \in Nat /\ me.ask.stop \in Nat
                             /\ Len(me.out) < me.ask.stop - me.ask.start
  BY <1>1, <1>2 DEF Ops, StreamsAssumption, Chunk, Wanted
<1>5. /\ me.rest \in Seq(Bytes) /\ me.carry \in Seq(Bytes) /\ me.out \in Seq(Bytes) /\ me.drawn \in Nat
  BY DEF Reader
<1>6. /\ Len(me.rest) \in Nat /\ Len(me.out) \in Nat /\ k \in 0 .. Len(me.rest)
  <2>1. Len(me.rest) \in Nat /\ Len(me.out) \in Nat
    BY <1>5, LenProperties
  <2> QED
    BY <1>2, <2>1
<1>7. CASE FailWith(r, "over")
  BY <1>2, <1>7, ReaderFails DEF Errors
<1>8. CASE ~admitted.ok /\ FailWith(r, "malformed")
  <2>1. me.ask.op = "text" /\ ~Admit(me.carry, chunk).ok
    BY <1>8
  <2>2. WholeRead(me, s) /\ TextRead(me, s)
    BY <1>1, <1>2, <2>1 DEF ReadingOK
  <2>3. PICK you : you = [rest |-> Suffix(me.rest, k)]
    OBVIOUS
  <2>4. you.rest = Suffix(me.rest, k)
    BY <2>3
  <2>5. ~IsText(s)
    BY <1>5, <1>6, <2>1, <2>2, <2>4, ChunkReads
  <2> QED
    BY <1>1, <1>2, <1>8, <2>5, ReaderFails DEF Errors
<1>9. CASE /\ admitted.ok /\ draw <= remaining
           /\ me.ask.op = "spill" => Len(me.out) + k <= SpillLimit
           /\ remaining' = remaining - draw
           /\ rd' = [rd EXCEPT ![r].rest = SubSeq(@, k + 1, Len(@)), ![r].carry = admitted.carry,
                               ![r].out = @ \o admitted.valid, ![r].drawn = @ + draw]
  <2>1. chunk \in Seq(Bytes) /\ Len(chunk) = k /\ Suffix(me.rest, k) \in Seq(Bytes)
    BY <1>5, <1>6, PrefixAndSuffix
  <2> HIDE DEF chunk
  <2>2. ASSUME NEW valid \in Seq(Bytes), NEW kept \in Seq(Bytes),
               valid = admitted.valid, kept = admitted.carry,
               \A you \in Reader :
                 /\ you.ask = me.ask /\ you.rest = Suffix(me.rest, k) /\ you.carry = kept
                 /\ you.out = Cat(me.out, valid)
                 /\ you.drawn = me.drawn + IF me.ask.op = "spill" THEN 0 ELSE Len(valid)
                 => ReadingOK(you, body)
        PROVE  StreamsInv'
    <3>1. Len(valid) \in Nat /\ Cat(me.out, valid) \in Seq(Bytes)
      BY <1>5, LenProperties, CatOfTwo
    <3>2. PICK d \in Nat : d = IF me.ask.op = "spill" THEN 0 ELSE Len(valid)
      BY <3>1
    <3>3. draw = d
      BY <2>2, <3>2
    <3> DEFINE you == [me EXCEPT !.rest = Suffix(me.rest, k), !.carry = kept,
                                 !.out = Cat(me.out, valid), !.drawn = @ + d]
    <3>4. rd' = [rd EXCEPT ![r] = you]
      BY <1>1, <1>9, <2>2, <3>3 DEF Suffix, Cat
    <3>5. /\ you \in Reader /\ you.ask = me.ask /\ you.rest = Suffix(me.rest, k) /\ you.carry = kept
          /\ you.out = Cat(me.out, valid) /\ you.drawn = me.drawn + d
          /\ you.pc = me.pc /\ you.error = me.error
      <4>1. me.drawn + d \in Nat
        BY <1>5
      <4> QED
        BY <1>5, <2>1, <3>1, <4>1 DEF Reader
    <3> HIDE DEF you
    <3>6. ReadingOK(you, body)
      BY <2>2, <3>2, <3>5
    <3>7. ReaderOK(you, body)
      BY <1>2, <3>5, <3>6 DEF ReaderOK
    <3>8. remaining' \in Nat /\ remaining' + you.drawn = remaining + me.drawn
      <4>1. d <= remaining /\ remaining' = remaining - d
        BY <1>9, <3>3
      <4> QED
        BY <1>2, <1>5, <3>5, <4>1
    <3> QED
      BY <1>1, <1>2, <3>4, <3>5, <3>7, <3>8, ReaderMoves
  <2>3. CASE me.ask.op = "text"
    <3>1. /\ Admit(me.carry, chunk).ok /\ admitted.valid = Admit(me.carry, chunk).valid
          /\ admitted.carry = Admit(me.carry, chunk).carry
      BY <1>9, <2>3
    <3>2. Admit(me.carry, chunk).valid \in Seq(Bytes) /\ Admit(me.carry, chunk).carry \in Seq(Bytes)
      BY <1>5, <2>1, <3>1, AdmitRejoins
    <3>3. PICK valid \in Seq(Bytes), kept \in Seq(Bytes) :
            valid = Admit(me.carry, chunk).valid /\ kept = Admit(me.carry, chunk).carry
      BY <3>2
    <3>4. WholeRead(me, s) /\ TextRead(me, s) /\ me.drawn = Len(me.out) /\ body.shape # "bytes"
      BY <1>1, <1>2, <2>3 DEF ReadingOK
    <3>5. ASSUME NEW you \in Reader,
                 you.ask = me.ask, you.rest = Suffix(me.rest, k), you.carry = kept,
                 you.out = Cat(me.out, valid), you.drawn = me.drawn + Len(valid)
          PROVE  ReadingOK(you, body)
      <4>1. WholeRead(you, s) /\ TextRead(you, s)
        <5>1. /\ TextRead(me, s) /\ WholeRead(me, s) /\ Admit(me.carry, Prefix(me.rest, k)).ok
              /\ you.out = Cat(me.out, Admit(me.carry, Prefix(me.rest, k)).valid)
              /\ you.carry = Admit(me.carry, Prefix(me.rest, k)).carry
              /\ you.rest = Suffix(me.rest, k)
          BY <3>1, <3>3, <3>4, <3>5 DEF chunk
        <5> QED
          BY <1>5, <1>6, <5>1, ChunkReads
      <4>2. Len(you.out) = Len(me.out) + Len(valid)
        <5>1. PICK out \in Seq(Bytes) : out = me.out
          BY <1>5
        <5>2. Len(Cat(out, valid)) = Len(out) + Len(valid)
          BY CatOfTwo
        <5> QED
          BY <3>5, <5>1, <5>2
      <4>3. you.drawn = Len(you.out)
        BY <3>4, <3>5, <4>2
      <4> QED
        BY <1>1, <1>2, <2>3, <3>4, <3>5, <4>1, <4>3 DEF ReadingOK
    <3> QED
      BY <2>2, <2>3, <3>1, <3>3, <3>5
  <2>4. CASE me.ask.op \in {"collect", "spill"}
    <3>1. admitted.valid = chunk /\ admitted.carry = << >> /\ << >> \in Seq(Bytes)
      BY <1>1, <2>4, EmptySeq DEF Taken
    <3>2. /\ WholeRead(me, s) /\ me.carry = << >>
          /\ me.drawn = IF me.ask.op = "spill" THEN 0 ELSE Len(me.out)
          /\ body.shape = "bytes" => me.ask.op = "spill"
      BY <1>1, <1>2, <2>4 DEF ReadingOK
    <3>3. ASSUME NEW you \in Reader,
                 you.ask = me.ask, you.rest = Suffix(me.rest, k), you.carry = << >>,
                 you.out = Cat(me.out, chunk),
                 you.drawn = me.drawn + IF me.ask.op = "spill" THEN 0 ELSE k
          PROVE  ReadingOK(you, body)
      <4>1. WholeRead(you, s) /\ Len(you.out) = Len(me.out) + k
        <5>1. /\ WholeRead(me, s) /\ me.carry = << >> /\ you.carry = << >>
              /\ you.out = Cat(me.out, Prefix(me.rest, k)) /\ you.rest = Suffix(me.rest, k)
          BY <3>2, <3>3 DEF chunk
        <5> QED
          BY <1>5, <1>6, <5>1, ChunkReads
      <4>2. you.drawn = IF me.ask.op = "spill" THEN 0 ELSE Len(you.out)
        BY <1>6, <3>2, <3>3, <4>1
      <4>3. me.ask.op = "spill" => Len(you.out) <= SpillLimit
        BY <1>9, <4>1
      <4> QED
        BY <1>1, <1>2, <2>4, <3>2, <3>3, <4>1, <4>2, <4>3 DEF ReadingOK
    <3> QED
      BY <2>1, <2>2, <2>4, <3>1, <3>3, ZenonT(60)
  <2>5. CASE me.ask.op = "range"
    <3>1. admitted.valid = Taken(r, chunk) /\ admitted.carry = << >> /\ << >> \in Seq(Bytes)
      BY <2>5, EmptySeq
    <3>2. PICK w \in Nat, o \in Nat : w = me.ask.stop - me.ask.start /\ o = Len(me.out)
      <4>1. me.ask.stop - me.ask.start \in Nat
        BY <1>4, <1>6, <2>5
      <4>2. Len(me.out) \in Nat
        BY <1>6
      <4> QED
        BY <4>1, <4>2, Zenon
    <3>3. o < w /\ Wanted(r) = w
      BY <1>1, <1>4, <2>5, <3>2 DEF Wanted
    <3>4. PICK j \in 1 .. k : /\ j = IF k <= w - o THEN k ELSE w - o
                              /\ o + j <= w /\ (j = k \/ o + j = w)
      <4>1. k \in Nat /\ 1 <= k
        BY <1>2
      <4>2. CASE k <= w - o
        <5>1. k \in 1 .. k /\ o + k <= w
          BY <3>3, <4>1, <4>2
        <5> QED
          BY <4>2, <5>1
      <4>3. CASE ~(k <= w - o)
        <5>1. w - o \in 1 .. k /\ o + (w - o) = w
          BY <3>3, <4>1, <4>3
        <5> QED
          BY <4>3, <5>1
      <4> QED
        BY <4>2, <4>3
    <3>5. Taken(r, chunk) = Prefix(me.rest, j)
      <4>1. Taken(r, chunk) = IF k <= w - o THEN chunk ELSE Prefix(chunk, w - o)
        BY <1>1, <2>1, <2>5, <3>2, <3>3 DEF Taken, Prefix
      <4>2. j \in 0 .. k
        OBVIOUS
      <4>3. Prefix(chunk, j) = Prefix(me.rest, j)
        BY <1>5, <1>6, <4>2, PrefixOfPrefix DEF chunk
      <4> QED
        BY <3>4, <4>1, <4>3 DEF chunk
    <3>6. PICK valid \in Seq(Bytes) : valid = Prefix(me.rest, j) /\ Len(valid) = j
      <4>1. j \in 0 .. Len(me.rest)
        BY <1>6
      <4> QED
        BY <1>5, <4>1, PrefixAndSuffix
    <3>7. /\ RangeRead(me, s) /\ me.drawn = Len(me.out) /\ body.shape # "bytes"
          /\ body.stated => me.ask.start <= Len(s)
      BY <1>1, <1>2, <2>5 DEF ReadingOK
    <3>8. ASSUME NEW you \in Reader,
                 you.ask = me.ask, you.rest = Suffix(me.rest, k), you.carry = << >>,
                 you.out = Cat(me.out, valid), you.drawn = me.drawn + Len(valid)
          PROVE  ReadingOK(you, body)
      <4>1. RangeRead(you, s) /\ Len(you.out) = Len(me.out) + j
        <5>1. PICK out \in Seq(Bytes), rest \in Seq(Bytes), start \in Nat, stop \in Nat :
                out = me.out /\ rest = me.rest /\ start = me.ask.start /\ stop = me.ask.stop
          BY <1>4, <1>5, <2>5
        <5>2. o = Len(out) /\ k \in 1 .. Len(rest) /\ w = stop - start
          BY <1>2, <3>2, <5>1
        <5>3. PICK more \in Seq(Bytes) : more = Cat(out, Prefix(rest, j))
          BY <3>6, <5>1, CatOfTwo
        <5>4. /\ you.out = more /\ you.rest = Suffix(rest, k)
              /\ you.ask.start = start /\ you.ask.stop = stop
          BY <3>6, <3>8, <5>1, <5>3
        <5>5. start <= Len(s)
          <6>1. rest # << >> /\ Len(s) \in Nat
            BY <5>2, EmptySeq, LenProperties
          <6>2. ~(start > Len(s))
            BY <3>7, <5>1, <6>1 DEF RangeRead
          <6> QED
            BY <6>1, <6>2
        <5>6. Between(s, start, out, w, rest)
          BY <3>7, <5>1, <5>2, <5>5 DEF RangeRead
        <5>7. Len(more) = o + j /\ Between(s, start, more, w, Suffix(rest, k))
          <6>1. PICK before \in Seq(Bytes) : Len(before) = start /\ Cat(Cat(before, out), rest) = s
            BY <3>2, <3>3, <5>2, <5>6 DEF Between
          <6>2. PICK i \in 0 .. Len(rest) : i = j
            BY <1>6, <5>1
          <6>3. /\ Cat(Cat(before, Cat(out, Prefix(rest, i))), Suffix(rest, i)) = s
                /\ Suffix(rest, i) \in Seq(Bytes) /\ Len(Cat(out, Prefix(rest, i))) = Len(out) + i
            BY <6>1, RangeMoves
          <6>4. Len(more) = o + j /\ Cat(Cat(before, more), Suffix(rest, j)) = s
            BY <5>2, <5>3, <6>2, <6>3
          <6>5. Len(more) < w => j = k
            BY <3>4, <6>4
          <6>6. PICK after \in Seq(Bytes) : after = Suffix(rest, j)
            BY <6>2, <6>3
          <6>7. Cat(Cat(before, more), after) = s /\ (Len(more) < w => after = Suffix(rest, k))
            BY <6>4, <6>5, <6>6
          <6> QED
            BY <6>1, <6>4, <6>7 DEF Between
        <5>8. start <= stop
          BY <3>7, <5>1 DEF RangeRead
        <5>9. start > Len(s) => FALSE
          BY <5>5, LenProperties
        <5> QED
          BY <3>2, <3>4, <5>1, <5>2, <5>4, <5>7, <5>8, <5>9 DEF RangeRead
      <4>2. you.drawn = Len(you.out)
        BY <3>6, <3>7, <3>8, <4>1
      <4> QED
        BY <1>1, <1>2, <2>5, <3>7, <3>8, <4>1, <4>2 DEF ReadingOK
    <3> QED
      BY <2>2, <2>5, <3>1, <3>5, <3>6, <3>8
  <2> QED
    BY <1>3, <2>3, <2>4, <2>5
<1> QED
  BY <1>1, <1>7, <1>8, <1>9 DEF Chunk, Prefix


\* Bytes held back at the end are a sequence cut short.
LEMMA HeldBackIsNoText ==
  ASSUME NEW s \in Seq(Bytes), NEW out \in Seq(Bytes), NEW carry \in Seq(Bytes),
         Cat(out, carry) = s, Len(out) \in Positions(s, 0), carry # << >>,
         Len(carry) < Width(carry[1])
  PROVE  ~IsText(s)
<1>1. Len(out) \in Nat /\ Len(carry) \in Nat /\ Len(s) \in Nat /\ Len(carry) # 0
  BY LenProperties, EmptySeq
<1>2. PartAt(s, Len(out), carry) /\ Len(s) = Len(out) + Len(carry)
  <2>1. << >> \in Seq(Bytes) /\ Cat(s, << >>) = s
    BY CatOfNone
  <2>2. PartAt(Cat(Cat(out, carry), << >>), Len(out), carry)
    BY <2>1, MiddleIsPart
  <2>3. Len(Cat(out, carry)) = Len(out) + Len(carry)
    BY CatOfTwo
  <2> QED
    BY <2>1, <2>2, <2>3
<1>3. PICK b \in Nat, c \in Nat : b = Len(out) /\ c = Len(carry)
  BY <1>1
<1>4. Len(s) = b + c /\ c # 0 /\ b \in Positions(s, 0) /\ PartAt(s, b, carry)
  BY <1>1, <1>2, <1>3
<1>5. Width(s[b + 1]) > c
  <2>1. 1 \in 1 .. Len(carry)
    BY <1>3, <1>4
  <2>2. carry[1] = s[b + 1]
    BY <1>4, <2>1 DEF PartAt
  <2>3. c < Width(carry[1])
    BY <1>3
  <2>4. Width(carry[1]) \in Nat
    BY DEF Width
  <2> QED
    BY <2>2, <2>3, <2>4
<1>6. ~Whole(s, b)
  <2>1. Width(s[b + 1]) \in Nat
    BY DEF Width
  <2>2. ~(Width(s[b + 1]) \in 1 .. Len(s) - b)
    BY <1>4, <1>5, <2>1
  <2> QED
    BY <2>2 DEF Whole
<1>7. b # Len(s)
  BY <1>4
<1> QED
  BY <1>4, <1>6, <1>7, StuckIsNoText

LEMMA NothingHeldBack ==
  ASSUME NEW s \in Seq(Bytes), NEW out \in Seq(Bytes), Cat(Cat(out, << >>), << >>) = s
  PROVE  out = s
BY CatOfNone

\* A range that has what it wanted, or all there is, is the slice asked for.
LEMMA RangeEnds ==
  ASSUME NEW s \in Seq(Bytes), NEW out \in Seq(Bytes), NEW start \in Nat, NEW stop \in Nat,
         start <= stop, start <= Len(s), Len(out) <= stop - start,
         NEW rest, Between(s, start, out, stop - start, rest),
         rest = << >> \/ Len(out) = stop - start
  PROVE  out = SubSeq(s, start + 1, IF stop < Len(s) THEN stop ELSE Len(s))
<1>1. PICK before \in Seq(Bytes), after \in Seq(Bytes) :
        /\ Len(before) = start /\ Cat(Cat(before, out), after) = s
        /\ Len(out) < stop - start => after = rest
  BY DEF Between
<1>2. PICK o \in Nat, a \in Nat, n \in Nat : o = Len(out) /\ a = Len(after) /\ n = Len(s)
  BY LenProperties
<1>3. PartAt(s, start, out) /\ n = start + o + a
  BY <1>1, <1>2, MiddleIsPart
<1>4. o < stop - start => a = 0
  BY <1>1, <1>2, EmptySeq
<1>5. start + o = IF stop < n THEN stop ELSE n
  <2>1. o <= stop - start /\ n = (start + o) + a
    BY <1>2, <1>3
  <2>2. CASE o < stop - start
    BY <1>4, <2>1, <2>2
  <2>3. CASE ~(o < stop - start)
    <3>1. start + o = stop
      BY <2>1, <2>3
    <3> QED
      BY <2>1, <3>1
  <2> QED
    BY <2>2, <2>3
<1>6. out = SubSeq(s, start + 1, start + o)
  BY <1>2, <1>3, PartIsSlice
<1> QED
  BY <1>2, <1>5, <1>6

LEMMA EndKeeps ==
  ASSUME StreamsAssumption, StreamsInv, NEW r \in Readers, End(r)
  PROVE  StreamsInv'
<1>1. PICK me \in Reader, s \in Seq(Bytes) : me = rd[r] /\ s = body.content
  BY DEF StreamsInv, StreamsAssumption
<1>2. /\ remaining \in Nat /\ UNCHANGED body /\ me.pc = "reading"
      /\ ReaderOK(me, body) /\ ReadingOK(me, body) /\ me.ask \in Ops
      /\ me.rest = << >> \/ (me.ask.op = "range" /\ Len(me.out) = Wanted(r))
  BY <1>1 DEF StreamsInv, End, ReaderOK, ReadingOK
<1>3. me.ask.op \in {"collect", "text", "spill", "range"}
  BY <1>2 DEF Ops
<1>4. /\ me.rest \in Seq(Bytes) /\ me.carry \in Seq(Bytes) /\ me.out \in Seq(Bytes) /\ me.drawn \in Nat
  BY DEF Reader
<1>5. CASE me.carry # << >> /\ FailWith(r, "malformed")
  <2>1. me.ask.op = "text" /\ WholeRead(me, s) /\ TextRead(me, s) /\ me.rest = << >>
    BY <1>1, <1>2, <1>5 DEF ReadingOK
  <2>2. Cat(Cat(me.out, me.carry), << >>) = s
    BY <2>1 DEF WholeRead
  <2>3. PICK out \in Seq(Bytes), carry \in Seq(Bytes) : out = me.out /\ carry = me.carry
    BY <1>4
  <2>4. Cat(out, carry) = s
    <3>1. Cat(out, carry) \in Seq(Bytes)
      BY CatOfTwo
    <3>2. Cat(Cat(out, carry), << >>) = Cat(out, carry)
      BY <3>1, CatOfNone
    <3> QED
      BY <2>2, <2>3, <3>2
  <2>5. Len(out) \in Positions(s, 0) /\ carry # << >> /\ Len(carry) < Width(carry[1])
    BY <1>5, <2>1, <2>3 DEF TextRead
  <2>6. ~IsText(s)
    BY <2>4, <2>5, HeldBackIsNoText
  <2> QED
    BY <1>1, <1>2, <1>5, <2>6, ReaderFails DEF Errors
<1>6. CASE FailWith(r, "unsatisfiable")
  BY <1>2, <1>6, ReaderFails DEF Errors
<1>7. CASE /\ me.carry = << >>
           /\ ~(/\ me.ask.op = "range" /\ me.out = << >> /\ me.ask.start > 0
                /\ Wanted(r) # 0 /\ ~body.stated)
           /\ rd' = [rd EXCEPT ![r].pc = "done"] /\ UNCHANGED remaining
  <2> DEFINE you == [me EXCEPT !.pc = "done"]
  <2>1. rd' = [rd EXCEPT ![r] = you]
    BY <1>1, <1>7
  <2>2. /\ you \in Reader /\ you.pc = "done" /\ you.ask = me.ask /\ you.out = me.out
        /\ you.drawn = me.drawn /\ you.error = me.error
    BY <1>4 DEF Reader, ReaderPhases
  <2> HIDE DEF you
  <2>3. ASSUME me.ask.op # "range"
        PROVE  /\ me.out = s /\ (me.ask.op = "text" => IsText(s))
               /\ me.ask.op = "spill" => Len(s) <= SpillLimit
    <3>1. WholeRead(me, s) /\ me.rest = << >>
      BY <1>1, <1>2, <2>3 DEF ReadingOK
    <3>2. Cat(Cat(me.out, << >>), << >>) = s
      BY <1>7, <3>1 DEF WholeRead
    <3>3. me.out = s
      BY <1>4, <3>2, NothingHeldBack
    <3>4. me.ask.op = "text" => Len(s) \in Positions(s, 0)
      BY <1>1, <1>2, <3>3 DEF ReadingOK, TextRead
    <3>5. me.ask.op = "text" => IsText(s)
      BY <3>4, TextIsReached
    <3>6. me.ask.op = "spill" => Len(s) <= SpillLimit
      BY <1>1, <1>2, <3>3 DEF ReadingOK
    <3> QED
      BY <3>3, <3>5, <3>6
  <2>4. ASSUME me.ask.op = "range" PROVE me.out = RangeOf(s, me.ask)
    <3>1. PICK start \in Nat, stop \in Nat : start = me.ask.start /\ stop = me.ask.stop
      <4>1. PICK a \in Offsets, b \in Offsets : me.ask = [op |-> "range", start |-> a, stop |-> b]
        BY <1>2, <2>4 DEF Ops
      <4> QED
        BY <4>1 DEF StreamsAssumption
    <3>2. PICK out \in Seq(Bytes), rest \in Seq(Bytes) : out = me.out /\ rest = me.rest
      BY <1>4
    <3>3. Wanted(r) = stop - start
      BY <1>1, <3>1 DEF Wanted
    <3>4. RangeRead(me, s) /\ (body.stated => start <= Len(s)) /\ (rest = << >> \/ Len(out) = stop - start)
      BY <1>1, <1>2, <2>4, <3>1, <3>2, <3>3 DEF ReadingOK
    <3>5. start <= stop /\ Len(out) <= stop - start
      BY <3>1, <3>2, <3>4 DEF RangeRead
    <3>6. Len(s) \in Nat
      BY LenProperties
    <3>7. CASE start <= Len(s)
      <4>1. Between(s, start, out, stop - start, rest)
        BY <3>1, <3>2, <3>4, <3>7 DEF RangeRead
      <4>2. out = SubSeq(s, start + 1, IF stop < Len(s) THEN stop ELSE Len(s))
        BY <3>4, <3>5, <3>7, <4>1, RangeEnds
      <4> QED
        BY <3>1, <3>2, <4>2 DEF RangeOf
    <3>8. CASE start > Len(s)
      <4>1. out = << >> /\ ~body.stated /\ start > 0
        BY <3>1, <3>2, <3>4, <3>6, <3>8 DEF RangeRead
      <4>2. stop - start = 0
        BY <1>7, <2>4, <3>1, <3>2, <3>3, <4>1
      <4>3. ~(stop < Len(s)) /\ Len(s) < start + 1
        BY <3>6, <3>8, <4>2
      <4>4. SubSeq(s, start + 1, Len(s)) = << >>
        BY <3>6, <4>3, SubSeqEmpty
      <4> QED
        BY <3>1, <3>2, <4>1, <4>3, <4>4 DEF RangeOf
    <3> QED
      BY <3>6, <3>7, <3>8
  <2>5. me.drawn = IF body.shape = "bytes" \/ me.ask.op = "spill" THEN 0 ELSE Len(me.out)
    BY <1>2 DEF ReadingOK
  <2>6. ReaderOK(you, body)
    BY <1>1, <1>2, <2>2, <2>3, <2>4, <2>5 DEF ReaderOK, DoneOK
  <2> QED
    BY <1>1, <1>2, <1>4, <1>7, <2>1, <2>2, <2>6, ReaderMoves
<1> QED
  BY <1>1, <1>5, <1>6, <1>7 DEF End

LEMMA StreamsInitially ==
  ASSUME StreamsAssumption, StreamsInit
  PROVE  StreamsInv
<1>1. Idle \in Reader /\ Idle.pc = "idle" /\ Idle.error = "none" /\ Idle.drawn = 0
  BY EmptySeq DEF Idle, Reader, ReaderPhases, Errors
<1>2. /\ body \in [content : Bodies, shape : Shapes, stated : BOOLEAN] /\ remaining \in Nat
      /\ rd = [r \in Readers |-> Idle] /\ remaining = BytePool
  BY DEF StreamsInit, StreamsAssumption
<1>3. ReaderOK(Idle, body)
  BY <1>1 DEF ReaderOK
<1>4. rd \in [Readers -> Reader] /\ \A r \in Readers : ReaderOK(rd[r], body)
  BY <1>1, <1>2, <1>3
<1> DEFINE m == [r \in Readers |-> rd[r].drawn]
<1>5. \A r \in Readers : m[r] = 0
  BY <1>1, <1>2
<1> HIDE DEF m
<1>6. Tally(Readers, m) = 0
  BY <1>5, TallyNothing
<1>7. Accounted
  BY <1>2, <1>6 DEF Accounted, m
<1> QED
  BY <1>2, <1>4, <1>7 DEF StreamsInv

LEMMA StreamsStep ==
  ASSUME StreamsAssumption, StreamsInv, [StreamsNext]_streamVars
  PROVE  StreamsInv'
<1>1. CASE UNCHANGED <<body, remaining, rd>>
  BY <1>1 DEF StreamsInv, Accounted
<1>2. ASSUME NEW r \in Readers, NEW ask \in Ops, Open(r, ask) PROVE StreamsInv'
  BY <1>2, OpenKeeps
<1>3. ASSUME NEW r \in Readers, NEW k \in 1 .. MaxChunk, Chunk(r, k) PROVE StreamsInv'
  BY <1>3, ChunkKeeps
<1>4. ASSUME NEW r \in Readers, End(r) PROVE StreamsInv'
  BY <1>4, EndKeeps
<1>5. ASSUME NEW r \in Readers, Break(r) PROVE StreamsInv'
  BY <1>5, ReaderFails DEF Break, Errors
<1>6. ASSUME NEW r \in Readers, Abandon(r) PROVE StreamsInv'
  BY <1>6, AbandonKeeps
<1> QED
  BY <1>1, <1>2, <1>3, <1>4, <1>5, <1>6 DEF StreamsNext, streamVars, Expire

LEMMA StreamsSafe ==
  ASSUME StreamsInv
  PROVE  StreamsHold
<1>1. \A r \in Readers : ReaderOK(rd[r], body) /\ rd[r].pc \in ReaderPhases
  BY DEF StreamsInv, Reader
<1>2. NeverShorter
  BY <1>1 DEF NeverShorter, ReaderOK, DoneOK, RangeOf, Slice, Length
<1>3. OnlyMalformedRefused
  BY <1>1 DEF OnlyMalformedRefused, ReaderOK
<1>4. PoolChargedForHeld
  <2>1. ASSUME NEW r \in Readers
        PROVE  /\ rd[r].pc = "failed" => rd[r].drawn = 0
               /\ rd[r].pc \in {"reading", "done"} =>
                    rd[r].drawn = IF body.shape = "bytes" \/ rd[r].ask.op = "spill"
                                  THEN 0 ELSE Len(rd[r].out)
    BY <1>1, <2>1 DEF ReaderOK, ReadingOK, DoneOK
  <2> QED
    BY <2>1 DEF PoolChargedForHeld, StreamsInv, Accounted
<1> QED
  BY <1>2, <1>3, <1>4 DEF StreamsHold

\* A streamed body is answered whole or not at all, refused as malformed only if
\* it is, and the run's pool is charged for exactly the bytes that are held, for
\* any body, any cut of it into chunks and any number of readers
\* (Body::collect_within, Utf8Checked::admit, read_range).
THEOREM StreamsAlwaysHold ==
  ASSUME StreamsAssumption
  PROVE  StreamsSpec => []StreamsHold
<1>1. StreamsInit => StreamsInv
  BY StreamsInitially
<1>2. StreamsInv /\ [StreamsNext]_streamVars => StreamsInv'
  BY StreamsStep
<1>3. StreamsInv => StreamsHold
  BY StreamsSafe
<1> QED
  BY <1>1, <1>2, <1>3, PTL DEF StreamsSpec

-----------------------------------------------------------------------------
(* How an argument travels.  The invariant is stated of the bodies bs, the   *)
(* requests st and the version v, so that a step is an instance of a lemma   *)
(* about two of each.                                                        *)

Names == {"content", "copy"}
Read == {Versions[v] : v \in DOMAIN Versions}
Values == Payloads \cup {"the name"} \cup Read
Id == [nonce : {FALSE}, of : Payloads] \cup [nonce : {TRUE}, of : Nat]
Arg == [by : {"inline"}, of : Values] \cup [by : {"reference"}, of : {"x"}]
          \cup [by : {"content"}, of : Id]
Args == [{"content"} -> Arg] \cup [Names -> Arg]
Got == UNION {[S -> Values] : S \in SUBSET Names}
Deps == SUBSET {"x"}
Frame == [ep : Endpoints, args : Args, sent : Args, seen : Args, run : {NoBody} \cup Nat,
          phase : {"arrived", "keyed", "invoked", "asking"}, got : Got, volatile : BOOLEAN,
          deps : Deps, cut : BOOLEAN, tries : Nat]
Body == [id : Id, content : Payloads, left : BOOLEAN, oneShot : BOOLEAN, reopenable : BOOLEAN]
Result == [is : {"ok"}, value : Got \cup {Nothing}, volatile : BOOLEAN, deps : Deps,
           ep : Endpoints, sent : Args]
Failure == [is : {"failed"},
            why : {"conflict", "over budget", "unavailable", "unsupported", "not found"},
            volatile : BOOLEAN, deps : Deps, ep : Endpoints, sent : Args]
Unanswered == [is : {"none"}]

\* A body is named by a number of its own or by what it holds, and only one that
\* can be read once is ever spent.
BodiesOK(bs) ==
  /\ bs \in Seq(Body)
  /\ \A i \in DOMAIN bs :
        /\ bs[i].id.of = (IF bs[i].id.nonce THEN i ELSE bs[i].content)
        /\ (bs[i].reopenable <=> ~bs[i].oneShot)
        /\ ~bs[i].left => bs[i].oneShot

\* Bodies are attached and opened, and otherwise stay as they are.
Grown(bs, bt) ==
  /\ bs \in Seq(Body) /\ bt \in Seq(Body) /\ Len(bs) <= Len(bt)
  /\ \A i \in DOMAIN bs : /\ bt[i].id = bs[i].id /\ bt[i].content = bs[i].content
                          /\ bt[i].oneShot = bs[i].oneShot

-----------------------------------------------------------------------------
(* What an argument denotes *)

Nonce(arg) == arg.by = "content" /\ arg.of.nonce

Denoted(arg, bs) ==
  IF arg.by = "inline" THEN arg.of
  ELSE IF arg.of.nonce THEN bs[arg.of.of].content ELSE arg.of.of

ArgOK(arg, bs) == Nonce(arg) => arg.of.of \in DOMAIN bs

Alike(x, y, bs) ==
  /\ x.by = "reference" <=> y.by = "reference"
  /\ x.by # "reference" => Denoted(x, bs) = Denoted(y, bs)

\* No argument is made content on its way, though content may be made plain.
Comes(x, y) == x.by = "content" => y.by = "content"

\* What was got of the referent: its name, or its newest version, or a version that
\* was newest before the cut.
Fresh(u, deps, cut, v) ==
  \/ u = "the name"
  \/ /\ "x" \in deps /\ u \in Read
     /\ cut \/ (v > 0 /\ u = Versions[v])

ValueOK(u, arg, deps, cut, bs, v) ==
  IF arg.by = "reference" THEN Fresh(u, deps, cut, v) ELSE u = Denoted(arg, bs)

\* An argument whose value was not found: content, for which nothing is recorded,
\* or the referent, of now or of before the cut.
Missing(arg, deps, cut, v) ==
  \/ arg.by = "content"
  \/ arg.by = "reference" /\ "x" \in deps /\ (cut \/ v = 0)

\* An answer that does without a value is one of when it was missing.
SaysSo(value, arg, deps, cut, bs, v) ==
  /\ value # Nothing => \A a \in DOMAIN value : ValueOK(value[a], arg, deps, cut, bs, v)
  /\ value = Nothing => Missing(arg, deps, cut, v)

-----------------------------------------------------------------------------
(* A request in progress *)

CarryingOf(f, bs) == { a \in DOMAIN f.args : f.run # NoBody /\ f.args[a] = ById(bs[f.run].id) }

\* A request that can be made again as it was.
Safe(f, bs) == CarryingOf(f, bs) # {} => ~bs[f.run].oneShot

NamesOK(f, bs) ==
  /\ DOMAIN f.sent = DOMAIN f.args /\ DOMAIN f.seen = DOMAIN f.args
  /\ f.run # NoBody => f.run \in DOMAIN bs
  /\ \A a \in DOMAIN f.args : Nonce(f.args[a]) =>
        f.run # NoBody /\ f.args[a] = ById(bs[f.run].id)
  /\ ArgOK(f.sent["content"], bs)
  /\ f.phase \in {"invoked", "asking"} /\ (\E a \in DOMAIN f.args : Nonce(f.args[a])) => f.volatile
  /\ f.tries > 0 => Safe(f, bs)

ValuesOK(f, bs, v) ==
  /\ \A a \in DOMAIN f.args : /\ Alike(f.args[a], f.sent["content"], bs)
                               /\ Comes(f.args[a], f.sent["content"])
  /\ Way[f.ep] = "relay" => f.args = f.sent
  /\ \A a \in DOMAIN f.args :
        f.seen[a] # f.args[a] => /\ f.args[a].by = "reference" /\ f.seen[a].by = "inline"
                                 /\ Fresh(f.seen[a].of, f.deps, f.cut, v)
  /\ Way[f.ep] = "relay" \/ f.phase \in {"arrived", "keyed"} => f.seen = f.args
  /\ f.phase \in {"arrived", "keyed"} => DOMAIN f.got = {}
  /\ \A a \in DOMAIN f.got : ValueOK(f.got[a], f.args["content"], f.deps, f.cut, bs, v)

FrameOK(f, bs, v) == f \in Frame /\ NamesOK(f, bs) /\ ValuesOK(f, bs, v)

\* f asks, and g is what it asks.
Asks(f, g, bs) ==
  /\ f.phase = "asking" /\ Way[f.ep] \in {"relay", "compose"}
  /\ g.sent["content"] = f.seen["content"]
  /\ g.cut => f.cut
  /\ CarryingOf(g, bs) # {} => CarryingOf(f, bs) # {} /\ g.run = f.run

StackOK(st, bs, v) ==
  /\ st \in Seq(Frame)
  /\ \A i \in DOMAIN st : FrameOK(st[i], bs, v)
  /\ \A i \in DOMAIN st : i > 1 => Asks(st[i - 1], st[i], bs)

\* What the request f came to.
CameTo(out, f, bs, v) ==
  /\ out.sent["content"] = f.sent["content"]
  /\ out.is = "ok" => SaysSo(out.value, f.sent["content"], out.deps, f.cut, bs, v)
  /\ out.is = "failed" /\ out.why = "not found" =>
        Missing(f.sent["content"], out.deps, f.cut, v)
  /\ out.is = "failed" /\ out.why = "conflict" => ~Safe(f, bs)

\* The same, as f sees it who asked for it.
Heard(out, f, bs, v) ==
  /\ f.phase = "asking" /\ Way[f.ep] \in {"relay", "compose"}
  /\ out.sent["content"] = f.seen["content"]
  /\ out.is = "ok" => SaysSo(out.value, f.seen["content"], out.deps, f.cut, bs, v)
  /\ out.is = "failed" /\ out.why = "not found" =>
        Missing(f.seen["content"], out.deps, f.cut, v)
  /\ out.is = "failed" /\ out.why = "conflict" => ~Safe(f, bs)

OutcomeOK(out, st, bs, v) ==
  /\ out \in Unanswered \cup Result \cup Failure
  /\ out.is # "none" => ArgOK(out.sent["content"], bs)
  /\ out.is = "ok" => SaysSo(out.value, out.sent["content"], out.deps, TRUE, bs, v)
  /\ out.is # "none" /\ st # << >> => Heard(out, st[Len(st)], bs, v)

AnswerOK(k, answer, bs, v) ==
  /\ k \in [ep : Endpoints, args : Args] /\ answer \in [value : Got \cup {Nothing}, deps : Deps]
  /\ \A a \in DOMAIN k.args : ~Nonce(k.args[a])
  /\ SaysSo(answer.value, k.args["content"], answer.deps, FALSE, bs, v)

AnswersOK(ans, bs, v) == \A k \in DOMAIN ans : AnswerOK(k, ans[k], bs, v)

ArgInv ==
  /\ version \in 0 .. Len(Versions)
  /\ BodiesOK(bodies) /\ StackOK(stack, bodies, version)
  /\ OutcomeOK(outcome, stack, bodies, version) /\ AnswersOK(answers, bodies, version)
-----------------------------------------------------------------------------
(* Lemmas about values and arguments *)

LEMMA ArgsForm ==
  ASSUME NEW s \in Args
  PROVE  /\ "content" \in DOMAIN s /\ DOMAIN s \in {{"content"}, Names}
         /\ \A a \in DOMAIN s : s[a] \in Arg
BY DEF Args, Names

LEMMA GotForm ==
  ASSUME NEW g \in Got
  PROVE  /\ DOMAIN g \subseteq Names /\ \A a \in DOMAIN g : g[a] \in Values
         /\ g # Nothing
<1>1. PICK S \in SUBSET Names : g \in [S -> Values]
  BY DEF Got
<1>2. DOMAIN g \subseteq Names /\ \A a \in DOMAIN g : g[a] \in Values
  BY <1>1
<1>3. DOMAIN Nothing = {"fallback"}
  BY DEF Nothing
<1> QED BY <1>2, <1>3 DEF Names

LEMMA GotMade ==
  ASSUME NEW S \in SUBSET Names, NEW g \in [S -> Values]
  PROVE  g \in Got
BY DEF Got

LEMMA ArgKept ==
  ASSUME NEW bs, NEW bt, Grown(bs, bt), NEW x \in Arg, ArgOK(x, bs)
  PROVE  ArgOK(x, bt) /\ (x.by # "reference" => Denoted(x, bt) = Denoted(x, bs))
<1>1. CASE Nonce(x)
  <2>1. x.of.of \in 1 .. Len(bs)
    BY <1>1 DEF ArgOK, Grown
  <2> QED BY <1>1, <2>1 DEF ArgOK, Grown, Denoted, Nonce
<1>2. CASE ~Nonce(x)
  BY <1>2 DEF ArgOK, Denoted, Nonce, Arg
<1> QED BY <1>1, <1>2

LEMMA SaysKept ==
  ASSUME NEW bs, NEW bt, Grown(bs, bt), NEW x \in Arg, ArgOK(x, bs), NEW value, NEW deps, NEW cut,
         NEW v, SaysSo(value, x, deps, cut, bs, v)
  PROVE  SaysSo(value, x, deps, cut, bt, v)
BY ArgKept DEF SaysSo, ValueOK

\* What is said stays said as more is recorded, the request is cut, and of an
\* argument that denotes the same.
LEMMA SaysMore ==
  ASSUME NEW bs, NEW x, NEW y, Alike(x, y, bs), Comes(x, y), NEW value, NEW deps, NEW more,
         deps \subseteq more,
         NEW cut \in BOOLEAN, NEW after \in BOOLEAN, cut => after, NEW v,
         SaysSo(value, x, deps, cut, bs, v)
  PROVE  SaysSo(value, y, more, after, bs, v)
BY DEF SaysSo, ValueOK, Fresh, Alike, Comes, Missing

LEMMA AlikeIsAlike ==
  ASSUME NEW bs, NEW x, NEW y, NEW z, Alike(x, z, bs), Alike(y, z, bs)
  PROVE  Alike(x, x, bs) /\ Alike(x, y, bs) /\ Alike(z, x, bs)
BY DEF Alike

\* An answer of a request that was not cut, or hangs from nothing, is of now.
LEMMA SaysNow ==
  ASSUME NEW bs, NEW x, NEW value, NEW deps \in Deps, NEW cut \in BOOLEAN, NEW v,
         SaysSo(value, x, deps, cut, bs, v), ~(cut /\ deps # {})
  PROVE  SaysSo(value, x, deps, FALSE, bs, v)
BY DEF SaysSo, ValueOK, Fresh, Deps, Missing

-----------------------------------------------------------------------------
(* Lemmas about requests and the stack of them *)

LEMMA FrameForm ==
  ASSUME NEW f \in Frame
  PROVE  /\ f.ep \in Endpoints /\ f.args \in Args /\ f.sent \in Args /\ f.seen \in Args
         /\ f.run \in {NoBody} \cup Nat /\ f.phase \in {"arrived", "keyed", "invoked", "asking"}
         /\ f.got \in Got /\ f.volatile \in BOOLEAN /\ f.deps \in Deps /\ f.cut \in BOOLEAN
         /\ f.tries \in Nat
         /\ "content" \in DOMAIN f.args /\ "content" \in DOMAIN f.sent /\ "content" \in DOMAIN f.seen
         /\ f.args["content"] \in Arg /\ f.sent["content"] \in Arg /\ f.seen["content"] \in Arg
BY ArgsForm DEF Frame

LEMMA CarryingKept ==
  ASSUME NEW bs, NEW bt, Grown(bs, bt), NEW f \in Frame, NamesOK(f, bs)
  PROVE  CarryingOf(f, bt) = CarryingOf(f, bs) /\ (Safe(f, bt) <=> Safe(f, bs))
BY DEF CarryingOf, Safe, NamesOK, Grown

LEMMA FrameKept ==
  ASSUME NEW bs, NEW bt, BodiesOK(bs), Grown(bs, bt), NEW f, NEW v, FrameOK(f, bs, v)
  PROVE  FrameOK(f, bt, v)
<1>1. f \in Frame /\ NamesOK(f, bs) /\ ValuesOK(f, bs, v)
  BY DEF FrameOK
<1>2. DOMAIN bs \subseteq DOMAIN bt
  BY DEF Grown
<1>3. NamesOK(f, bt)
  <2>1. Safe(f, bt) <=> Safe(f, bs)
    BY <1>1, CarryingKept
  <2>2. f.run # NoBody => bt[f.run].id = bs[f.run].id
    BY <1>1 DEF NamesOK, Grown
  <2>3. ArgOK(f.sent["content"], bt)
    BY <1>1, FrameForm, ArgKept DEF NamesOK
  <2> QED BY <1>1, <1>2, <2>1, <2>2, <2>3 DEF NamesOK
<1>4. ASSUME NEW x \in {f.sent["content"]} \cup {f.args[a] : a \in DOMAIN f.args}
      PROVE  x \in Arg /\ (x.by # "reference" => Denoted(x, bt) = Denoted(x, bs))
  <2>1. x \in Arg
    BY <1>1, <1>4, FrameForm, ArgsForm
  <2>2. ArgOK(x, bs)
    <3>1. CASE x = f.sent["content"]
      BY <3>1, <1>1 DEF NamesOK
    <3>2. ASSUME NEW a \in DOMAIN f.args, x = f.args[a], Nonce(x)
          PROVE  x.of.of \in DOMAIN bs
      <4>1. f.run \in DOMAIN bs /\ x = ById(bs[f.run].id)
        BY <3>2, <1>1 DEF NamesOK
      <4> QED BY <4>1, <3>2 DEF ById, Nonce, BodiesOK
    <3> QED BY <1>4, <3>1, <3>2 DEF ArgOK
  <2> QED BY <2>1, <2>2, ArgKept
<1>5. ValuesOK(f, bt, v)
  <2>1. \A a \in DOMAIN f.args : /\ Alike(f.args[a], f.sent["content"], bt)
                                 /\ Comes(f.args[a], f.sent["content"])
    BY <1>1, <1>4 DEF ValuesOK, Alike
  <2>2. \A a \in DOMAIN f.got : ValueOK(f.got[a], f.args["content"], f.deps, f.cut, bt, v)
    BY <1>1, <1>4, FrameForm DEF ValuesOK, ValueOK
  <2> QED BY <1>1, <2>1, <2>2 DEF ValuesOK
<1> QED BY <1>1, <1>3, <1>5 DEF FrameOK

LEMMA StackKept ==
  ASSUME NEW bs, NEW bt, BodiesOK(bs), Grown(bs, bt), NEW st, NEW v, StackOK(st, bs, v)
  PROVE  StackOK(st, bt, v)
<1>1. \A i \in DOMAIN st : FrameOK(st[i], bt, v)
  BY FrameKept DEF StackOK
<1>2. \A i \in DOMAIN st : CarryingOf(st[i], bt) = CarryingOf(st[i], bs)
  BY CarryingKept DEF StackOK, FrameOK
<1>3. \A i \in DOMAIN st : i > 1 => i - 1 \in DOMAIN st
  BY DEF StackOK
<1> QED BY <1>1, <1>2, <1>3 DEF StackOK, Asks

LEMMA HeardKept ==
  ASSUME NEW bs, NEW bt, Grown(bs, bt), NEW f, NEW v, FrameOK(f, bs, v), NEW out,
         Heard(out, f, bs, v), ArgOK(f.seen["content"], bs)
  PROVE  Heard(out, f, bt, v)
<1>1. Safe(f, bt) <=> Safe(f, bs)
  BY CarryingKept DEF FrameOK
<1>2. f.seen["content"] \in Arg
  BY FrameForm DEF FrameOK
<1> QED BY <1>1, <1>2, SaysKept DEF Heard

LEMMA OutcomeKept ==
  ASSUME NEW bs, NEW bt, Grown(bs, bt), NEW st, NEW v, StackOK(st, bs, v), NEW out,
         OutcomeOK(out, st, bs, v)
  PROVE  OutcomeOK(out, st, bt, v)
<1>1. out.is # "none" => out.sent["content"] \in Arg
  BY ArgsForm DEF OutcomeOK, Unanswered, Result, Failure
<1>2. out.is # "none" => ArgOK(out.sent["content"], bt)
  BY <1>1, ArgKept DEF OutcomeOK
<1>3. out.is = "ok" => SaysSo(out.value, out.sent["content"], out.deps, TRUE, bt, v)
  BY <1>1, SaysKept DEF OutcomeOK
<1>4. ASSUME out.is # "none", st # << >>
      PROVE  Heard(out, st[Len(st)], bt, v)
  <2>1. Len(st) \in DOMAIN st
    BY <1>4 DEF StackOK
  <2>2. Heard(out, st[Len(st)], bs, v) /\ FrameOK(st[Len(st)], bs, v)
    BY <1>4, <2>1 DEF OutcomeOK, StackOK
  <2>3. ArgOK(st[Len(st)].seen["content"], bs)
    BY <1>4, <2>2 DEF OutcomeOK, Heard
  <2> QED BY <2>2, <2>3, HeardKept
<1> QED BY <1>2, <1>3, <1>4 DEF OutcomeOK

LEMMA AnswersKept ==
  ASSUME NEW bs, NEW bt, Grown(bs, bt), NEW v, NEW ans, AnswersOK(ans, bs, v)
  PROVE  AnswersOK(ans, bt, v)
<1> SUFFICES ASSUME NEW k \in DOMAIN ans
             PROVE  AnswerOK(k, ans[k], bt, v)
  BY DEF AnswersOK
<1>1. AnswerOK(k, ans[k], bs, v)
  BY DEF AnswersOK
<1>2. k.args["content"] \in Arg /\ ArgOK(k.args["content"], bs)
  BY <1>1, ArgsForm DEF AnswerOK, ArgOK
<1> QED BY <1>1, <1>2, SaysKept DEF AnswerOK

\* The innermost request changed, answered, or asking.
LEMMA Tops ==
  ASSUME NEW st \in Seq(Frame), st # << >>
  PROVE  LET b == SubSeq(st, 1, Len(st) - 1)
         IN  /\ Len(st) \in Nat \ {0} /\ Len(st) \in DOMAIN st /\ st[Len(st)] \in Frame
             /\ b \in Seq(Frame) /\ Len(b) = Len(st) - 1 /\ \A i \in 1 .. Len(st) - 1 : b[i] = st[i]
             /\ \A g \in Frame : /\ Append(b, g) \in Seq(Frame) /\ Append(b, g) # << >>
                                 /\ Len(Append(b, g)) = Len(st) /\ Append(b, g)[Len(st)] = g
                                 /\ \A i \in 1 .. Len(st) - 1 : Append(b, g)[i] = st[i]
<1> DEFINE b == SubSeq(st, 1, Len(st) - 1)
<1>1. Len(st) \in Nat \ {0} /\ Len(st) \in DOMAIN st /\ st[Len(st)] \in Frame
  OBVIOUS
<1>2. b \in Seq(Frame) /\ Len(b) = Len(st) - 1 /\ \A i \in 1 .. Len(st) - 1 : b[i] = st[i]
  <2>1. PICK n \in Nat \ {0} : n = Len(st)
    BY <1>1
  <2>2. n - 1 \in Int /\ \A i \in 1 .. n - 1 : st[i] \in Frame
    BY <2>1
  <2>3. /\ SubSeq(st, 1, n - 1) \in Seq(Frame)
        /\ Len(SubSeq(st, 1, n - 1)) = IF 1 <= n - 1 THEN n - 1 - 1 + 1 ELSE 0
        /\ \A i \in 1 .. n - 1 - 1 + 1 : SubSeq(st, 1, n - 1)[i] = st[1 + i - 1]
    BY <2>2, SubSeqProperties
  <2> QED BY <2>1, <2>3
<1>3. ASSUME NEW g \in Frame
      PROVE  /\ Append(b, g) \in Seq(Frame) /\ Append(b, g) # << >>
             /\ Len(Append(b, g)) = Len(st) /\ Append(b, g)[Len(st)] = g
             /\ \A i \in 1 .. Len(st) - 1 : Append(b, g)[i] = st[i]
  <2> HIDE DEF b
  <2> QED BY <1>1, <1>2
<1> QED BY <1>1, <1>2, <1>3

LEMMA TopChanges ==
  ASSUME NEW bs, NEW v, NEW st, StackOK(st, bs, v), st # << >>, NEW g, FrameOK(g, bs, v),
         g.sent = st[Len(st)].sent, g.cut = st[Len(st)].cut,
         CarryingOf(g, bs) # {} => CarryingOf(st[Len(st)], bs) # {} /\ g.run = st[Len(st)].run
  PROVE  StackOK(Append(SubSeq(st, 1, Len(st) - 1), g), bs, v)
<1> DEFINE n == Len(st)
           new == Append(SubSeq(st, 1, n - 1), g)
<1>1. st \in Seq(Frame) /\ g \in Frame
  BY DEF StackOK, FrameOK
<1>2. n \in Nat \ {0} /\ n \in DOMAIN st /\ DOMAIN st = 1 .. n
  BY <1>1, Tops
<1>3. new \in Seq(Frame) /\ Len(new) = n /\ new[n] = g /\ \A i \in 1 .. n - 1 : new[i] = st[i]
  BY <1>1, Tops
<1>4. DOMAIN new = 1 .. n
  BY <1>3
<1> HIDE DEF n, new
<1>5. ASSUME NEW i \in DOMAIN new
      PROVE  FrameOK(new[i], bs, v) /\ (i > 1 => Asks(new[i - 1], new[i], bs))
  <2>1. CASE i = n
    <3>1. FrameOK(new[i], bs, v)
      BY <1>3, <2>1
    <3>2. ASSUME i > 1
          PROVE  Asks(new[i - 1], new[i], bs)
      <4>1. new[i - 1] = st[i - 1] /\ new[i] = g /\ Asks(st[i - 1], st[n], bs)
        <5>1. i - 1 \in 1 .. n - 1 /\ n > 1
          BY <1>2, <2>1, <3>2
        <5>2. Asks(st[n - 1], st[n], bs)
          BY <5>1, <1>2 DEF StackOK
        <5> QED BY <1>3, <2>1, <5>1, <5>2
      <4>2. Asks(st[i - 1], st[Len(st)], bs)
        BY <4>1 DEF n
      <4>3. Asks(st[i - 1], g, bs)
        BY <4>2 DEF Asks
      <4> QED BY <4>1, <4>3
    <3> QED BY <3>1, <3>2
  <2>2. CASE i # n
    <3>1. i \in 1 .. n - 1 /\ i \in DOMAIN st
      BY <1>2, <1>4, <2>2
    <3>2. i > 1 => i - 1 \in 1 .. n - 1
      BY <3>1, <1>2
    <3> QED BY <1>3, <3>1, <3>2 DEF StackOK
  <2> QED BY <2>1, <2>2
<1> QED BY <1>3, <1>5 DEF StackOK, new, n

LEMMA TopEnds ==
  ASSUME NEW bs, NEW v, NEW st, StackOK(st, bs, v), st # << >>
  PROVE  StackOK(SubSeq(st, 1, Len(st) - 1), bs, v)
<1> DEFINE n == Len(st)
           new == SubSeq(st, 1, n - 1)
<1>1. st \in Seq(Frame)
  BY DEF StackOK
<1>2. n \in Nat \ {0} /\ DOMAIN st = 1 .. n
  BY <1>1, Tops
<1>3. new \in Seq(Frame) /\ Len(new) = n - 1 /\ \A i \in 1 .. n - 1 : new[i] = st[i]
  BY <1>1, Tops
<1>4. DOMAIN new = 1 .. n - 1
  BY <1>3, <1>2
<1> HIDE DEF n, new
<1>5. ASSUME NEW i \in DOMAIN new
      PROVE  FrameOK(new[i], bs, v) /\ (i > 1 => Asks(new[i - 1], new[i], bs))
  <2>1. i \in 1 .. n - 1 /\ i \in DOMAIN st /\ (i > 1 => i - 1 \in 1 .. n - 1)
    BY <1>2, <1>4
  <2> QED BY <1>3, <2>1 DEF StackOK
<1> QED BY <1>3, <1>5 DEF StackOK, new, n

LEMMA TopAsks ==
  ASSUME NEW bs, NEW v, NEW st, StackOK(st, bs, v), NEW g, FrameOK(g, bs, v),
         st # << >> => Asks(st[Len(st)], g, bs)
  PROVE  StackOK(Append(st, g), bs, v)
<1> DEFINE n == Len(st)
           new == Append(st, g)
<1>1. st \in Seq(Frame) /\ g \in Frame
  BY DEF StackOK, FrameOK
<1>2. n \in Nat /\ DOMAIN st = 1 .. n /\ (st # << >> <=> n > 0)
  BY <1>1
<1>3. new \in Seq(Frame) /\ Len(new) = n + 1 /\ new[n + 1] = g /\ \A i \in 1 .. n : new[i] = st[i]
  BY <1>1
<1>4. DOMAIN new = 1 .. n + 1
  BY <1>3, <1>2
<1>5. st # << >> => Asks(st[n], g, bs)
  OBVIOUS
<1> HIDE DEF n, new
<1>6. ASSUME NEW i \in DOMAIN new
      PROVE  FrameOK(new[i], bs, v) /\ (i > 1 => Asks(new[i - 1], new[i], bs))
  <2>1. i = n + 1 \/ i \in 1 .. n
    BY <1>2, <1>4
  <2>2. CASE i = n + 1
    BY <1>2, <1>3, <1>5, <2>2
  <2>3. CASE i \in 1 .. n
    <3>1. i \in DOMAIN st /\ (i > 1 => i - 1 \in 1 .. n)
      BY <1>2, <2>3
    <3> QED BY <1>3, <2>3, <3>1 DEF StackOK
  <2> QED BY <2>1, <2>2, <2>3
<1> QED BY <1>3, <1>6 DEF StackOK, new

LEMMA ParentHears ==
  ASSUME NEW bs, NEW v, NEW f, FrameOK(f, bs, v), NEW g, FrameOK(g, bs, v), Asks(f, g, bs),
         NEW out, CameTo(out, g, bs, v)
  PROVE  Heard(out, f, bs, v)
<1>1. f.cut \in BOOLEAN /\ g.cut \in BOOLEAN
  BY FrameForm DEF FrameOK
<1>2. ~Safe(g, bs) => ~Safe(f, bs)
  BY DEF Asks, Safe
<1>3. out.is = "ok" => SaysSo(out.value, f.seen["content"], out.deps, f.cut, bs, v)
  BY <1>1, SaysMore DEF Asks, CameTo, Alike, Comes
<1> QED BY <1>1, <1>2, <1>3 DEF Asks, CameTo, Heard, Missing

LEMMA TopAnswers ==
  ASSUME NEW bs, NEW v, NEW st, StackOK(st, bs, v), st # << >>,
         NEW out \in Result \cup Failure, CameTo(out, st[Len(st)], bs, v)
  PROVE  OutcomeOK(out, SubSeq(st, 1, Len(st) - 1), bs, v)
<1> DEFINE n == Len(st)
           new == SubSeq(st, 1, n - 1)
           top == st[n]
<1>1. st \in Seq(Frame)
  BY DEF StackOK
<1>2. n \in Nat \ {0} /\ DOMAIN st = 1 .. n /\ n \in DOMAIN st
  BY <1>1, Tops
<1>3. new \in Seq(Frame) /\ Len(new) = n - 1 /\ \A i \in 1 .. n - 1 : new[i] = st[i]
  BY <1>1, Tops
<1>4. FrameOK(top, bs, v)
  BY <1>2 DEF StackOK
<1>5. CameTo(out, top, bs, v)
  OBVIOUS
<1> HIDE DEF n, new, top
<1>6. ArgOK(out.sent["content"], bs)
  BY <1>4, <1>5 DEF FrameOK, NamesOK, CameTo
<1>7. out.is = "ok" => SaysSo(out.value, out.sent["content"], out.deps, TRUE, bs, v)
  <2>1. top.cut \in BOOLEAN
    BY <1>4, FrameForm DEF FrameOK
  <2> SUFFICES ASSUME out.is = "ok"
               PROVE  SaysSo(out.value, out.sent["content"], out.deps, TRUE, bs, v)
    OBVIOUS
  <2>2. SaysSo(out.value, out.sent["content"], out.deps, top.cut, bs, v)
    BY <1>5 DEF CameTo
  <2> QED BY <2>1, <2>2 DEF SaysSo, ValueOK, Fresh, Missing
<1>8. ASSUME new # << >>
      PROVE  Heard(out, new[Len(new)], bs, v)
  <2>1. Len(new) # 0
    BY <1>3, <1>8
  <2>2. n - 1 \in 1 .. n - 1 /\ n - 1 \in DOMAIN st /\ n > 1
    BY <2>1, <1>2, <1>3
  <2>3. Asks(st[n - 1], st[n], bs) /\ FrameOK(st[n - 1], bs, v)
    BY <2>2, <1>2 DEF StackOK
  <2>4. Heard(out, st[n - 1], bs, v)
    BY <2>3, <1>4, <1>5, ParentHears DEF top
  <2> QED BY <1>3, <2>2, <2>4
<1> QED BY <1>6, <1>7, <1>8 DEF OutcomeOK, new, n

LEMMA Arrives ==
  ASSUME NEW bs, NEW v, NEW e \in Endpoints, NEW args \in Args, NEW run \in {NoBody} \cup Nat,
         run # NoBody => run \in DOMAIN bs, BodiesOK(bs),
         \A a \in DOMAIN args : Nonce(args[a]) => run # NoBody /\ args[a] = ById(bs[run].id),
         \A a \in DOMAIN args : /\ Alike(args[a], args["content"], bs)
                                /\ Comes(args[a], args["content"])
  PROVE  FrameOK(Arrived(e, args, run), bs, v)
<1> DEFINE f == Arrived(e, args, run)
<1>1. f \in Frame
  <2>1. [a \in {} |-> a] \in Got
    <3>1. [a \in {} |-> a] \in [{} -> Values] /\ {} \in SUBSET Names
      OBVIOUS
    <3> QED BY <3>1, GotMade
  <2>2. << >> = [a \in {} |-> a]
    OBVIOUS
  <2> QED BY <2>1, <2>2 DEF Arrived, Frame, Deps
<1>2. /\ f.args = args /\ f.sent = args /\ f.seen = args /\ f.run = run /\ f.phase = "arrived"
      /\ f.got = << >> /\ f.tries = 0
  BY DEF Arrived
<1>3. ArgOK(args["content"], bs)
  <2> SUFFICES ASSUME Nonce(args["content"])
               PROVE  args["content"].of.of \in DOMAIN bs
    BY DEF ArgOK
  <2>1. "content" \in DOMAIN args
    BY ArgsForm
  <2> QED BY <2>1 DEF ById, Nonce, BodiesOK
<1> HIDE DEF f
<1>4. DOMAIN f.got = {}
  BY <1>2
<1>5. NamesOK(f, bs)
  BY <1>2, <1>3 DEF NamesOK
<1>6. ValuesOK(f, bs, v)
  BY <1>2, <1>4 DEF ValuesOK
<1> QED BY <1>1, <1>5, <1>6 DEF FrameOK, f

LEMMA FoldedOK ==
  ASSUME NEW bs, NEW v, NEW f, FrameOK(f, bs, v), f.phase = "asking",
         NEW out \in Result \cup Failure
  PROVE  /\ FrameOK(Folded(f, out), bs, v)
         /\ \A x \in {"args", "sent", "seen", "run", "cut", "phase", "ep", "tries", "got"} :
               Folded(f, out)[x] = f[x]
         /\ Folded(f, out).deps = f.deps \cup out.deps
         /\ CarryingOf(Folded(f, out), bs) = CarryingOf(f, bs)
         /\ Safe(Folded(f, out), bs) <=> Safe(f, bs)
<1> DEFINE g == Folded(f, out)
<1>1. f \in Frame /\ NamesOK(f, bs) /\ ValuesOK(f, bs, v)
  BY DEF FrameOK
<1>2. out.deps \in Deps /\ out.volatile \in BOOLEAN
  BY DEF Result, Failure
<1>3. /\ g \in Frame /\ g.args = f.args /\ g.sent = f.sent /\ g.seen = f.seen /\ g.run = f.run
      /\ g.cut = f.cut /\ g.phase = f.phase /\ g.ep = f.ep /\ g.tries = f.tries /\ g.got = f.got
      /\ g.deps = f.deps \cup out.deps /\ (f.volatile => g.volatile)
  BY <1>1, <1>2 DEF Folded, Frame, Deps
<1> HIDE DEF g
<1>4. CarryingOf(g, bs) = CarryingOf(f, bs) /\ (Safe(g, bs) <=> Safe(f, bs))
  BY <1>3 DEF CarryingOf, Safe
<1>5. NamesOK(g, bs)
  BY <1>1, <1>3, <1>4 DEF NamesOK
<1>6. ValuesOK(g, bs, v)
  <2>1. \A u : Fresh(u, f.deps, f.cut, v) => Fresh(u, g.deps, g.cut, v)
    BY <1>3 DEF Fresh
  <2>2. \A a \in DOMAIN g.got : ValueOK(g.got[a], g.args["content"], g.deps, g.cut, bs, v)
    BY <1>1, <1>3, <2>1 DEF ValuesOK, ValueOK
  <2> QED BY <1>1, <1>3, <2>1, <2>2, ZenonT(60) DEF ValuesOK
<1> QED BY <1>3, <1>4, <1>5, <1>6 DEF FrameOK, g

\* What a finished request leaves in the cache.
LEMMA StoredOK ==
  ASSUME NEW bs, NEW v, NEW f, FrameOK(f, bs, v), f.phase \in {"invoked", "asking"}, ~f.volatile,
         ~(f.cut /\ f.deps # {}), NEW value \in Got \cup {Nothing},
         SaysSo(value, f.args["content"], f.deps, f.cut, bs, v),
         NEW ans, ans = [k \in {Key(f)} |-> [value |-> value, deps |-> f.deps]]
  PROVE  AnswersOK(ans, bs, v)
<1>1. f \in Frame /\ NamesOK(f, bs)
  BY DEF FrameOK
<1>2. Key(f) \in [ep : Endpoints, args : Args] /\ Key(f).args = f.args
  BY <1>1, FrameForm DEF Key
<1>3. \A a \in DOMAIN f.args : ~Nonce(f.args[a])
  BY <1>1 DEF NamesOK
<1>4. SaysSo(value, f.args["content"], f.deps, FALSE, bs, v)
  BY <1>1, FrameForm, SaysNow
<1>5. AnswerOK(Key(f), [value |-> value, deps |-> f.deps], bs, v)
  BY <1>1, <1>2, <1>3, <1>4, FrameForm DEF AnswerOK
<1> QED BY <1>5 DEF AnswersOK

-----------------------------------------------------------------------------
(* The referent is written, and everything that hangs from it is cut *)

CutFrame(f) == [f EXCEPT !.cut = TRUE]

LEMMA FrameCut ==
  ASSUME NEW bs, NEW v, NEW w, NEW f, FrameOK(f, bs, v)
  PROVE  /\ FrameOK(CutFrame(f), bs, w) /\ CutFrame(f).cut
         /\ CarryingOf(CutFrame(f), bs) = CarryingOf(f, bs)
         /\ Safe(CutFrame(f), bs) <=> Safe(f, bs)
         /\ CutFrame(f).phase = f.phase /\ CutFrame(f).ep = f.ep /\ CutFrame(f).run = f.run
         /\ CutFrame(f).sent = f.sent /\ CutFrame(f).seen = f.seen
<1> DEFINE g == CutFrame(f)
<1>1. f \in Frame /\ NamesOK(f, bs) /\ ValuesOK(f, bs, v)
  BY DEF FrameOK
<1>2. /\ g \in Frame /\ g.args = f.args /\ g.sent = f.sent /\ g.seen = f.seen /\ g.run = f.run
      /\ g.cut = TRUE /\ g.phase = f.phase /\ g.ep = f.ep /\ g.tries = f.tries /\ g.got = f.got
      /\ g.deps = f.deps /\ g.volatile = f.volatile
  BY <1>1 DEF CutFrame, Frame
<1> HIDE DEF g
<1>3. CarryingOf(g, bs) = CarryingOf(f, bs) /\ (Safe(g, bs) <=> Safe(f, bs))
  BY <1>2 DEF CarryingOf, Safe
<1>4. NamesOK(g, bs)
  BY <1>1, <1>2, <1>3 DEF NamesOK
<1>5. ValuesOK(g, bs, w)
  <2>1. \A u : Fresh(u, f.deps, f.cut, v) => Fresh(u, g.deps, g.cut, w)
    BY <1>2 DEF Fresh
  <2>2. \A a \in DOMAIN g.got : ValueOK(g.got[a], g.args["content"], g.deps, g.cut, bs, w)
    BY <1>1, <1>2, <2>1 DEF ValuesOK, ValueOK
  <2> QED BY <1>1, <1>2, <2>1, <2>2 DEF ValuesOK
<1> QED BY <1>2, <1>3, <1>4, <1>5 DEF FrameOK, g

LEMMA StackCut ==
  ASSUME NEW bs, NEW v, NEW w, NEW st, StackOK(st, bs, v)
  PROVE  StackOK([i \in DOMAIN st |-> CutFrame(st[i])], bs, w)
<1> DEFINE new == [i \in DOMAIN st |-> CutFrame(st[i])]
<1>1. st \in Seq(Frame) /\ DOMAIN st = 1 .. Len(st) /\ Len(st) \in Nat
  BY DEF StackOK
<1>2. \A i \in DOMAIN st : FrameOK(new[i], bs, w)
  BY FrameCut DEF StackOK
<1>3. new \in Seq(Frame)
  BY <1>1, <1>2 DEF FrameOK
<1>4. ASSUME NEW i \in DOMAIN st, i > 1
      PROVE  Asks(new[i - 1], new[i], bs)
  <2>1. i - 1 \in DOMAIN st
    BY <1>1, <1>4
  <2>2. FrameOK(st[i - 1], bs, v) /\ FrameOK(st[i], bs, v) /\ Asks(st[i - 1], st[i], bs)
    BY <1>4, <2>1 DEF StackOK
  <2>3. Asks(CutFrame(st[i - 1]), CutFrame(st[i]), bs)
    BY <2>2, FrameCut DEF Asks
  <2> QED BY <2>1, <2>3
<1> HIDE DEF new
<1>5. DOMAIN new = DOMAIN st
  BY DEF new
<1> QED BY <1>2, <1>3, <1>4, <1>5 DEF StackOK, new

LEMMA OutcomeCut ==
  ASSUME NEW bs, NEW v, NEW w, NEW st, StackOK(st, bs, v), NEW out, OutcomeOK(out, st, bs, v)
  PROVE  OutcomeOK(out, [i \in DOMAIN st |-> CutFrame(st[i])], bs, w)
<1> DEFINE new == [i \in DOMAIN st |-> CutFrame(st[i])]
<1>1. \A value, x, deps, cut : SaysSo(value, x, deps, cut, bs, v) => SaysSo(value, x, deps, TRUE, bs, w)
  BY ZenonT(60) DEF SaysSo, ValueOK, Fresh, Missing
<1>2. \A x, deps, cut : Missing(x, deps, cut, v) => Missing(x, deps, TRUE, w)
  BY DEF Missing
<1>3. st \in Seq(Frame) /\ DOMAIN st = 1 .. Len(st) /\ Len(st) \in Nat
  BY DEF StackOK
<1>4. Len(new) = Len(st) /\ (new # << >> => st # << >>)
  BY <1>3
<1>5. ASSUME out.is # "none", new # << >>
      PROVE  Heard(out, new[Len(new)], bs, w)
  <2>1. Len(st) \in DOMAIN st
    BY <1>3, <1>4, <1>5
  <2>2. FrameOK(st[Len(st)], bs, v) /\ Heard(out, st[Len(st)], bs, v)
    BY <1>4, <1>5, <2>1 DEF StackOK, OutcomeOK
  <2>3. Heard(out, CutFrame(st[Len(st)]), bs, w)
    BY <2>2, <1>1, <1>2, FrameCut, ZenonT(60) DEF Heard
  <2> QED BY <2>1, <2>3, <1>4
<1> QED BY <1>1, <1>5 DEF OutcomeOK

LEMMA AnswersCut ==
  ASSUME NEW bs, NEW v, NEW w, NEW ans, AnswersOK(ans, bs, v)
  PROVE  AnswersOK([k \in { k \in DOMAIN ans : "x" \notin ans[k].deps } |-> ans[k]], bs, w)
<1>1. ASSUME NEW k \in DOMAIN ans, "x" \notin ans[k].deps
      PROVE  AnswerOK(k, ans[k], bs, w)
  BY <1>1 DEF AnswersOK, AnswerOK, SaysSo, ValueOK, Fresh, Missing
<1> QED BY <1>1 DEF AnswersOK

-----------------------------------------------------------------------------
(* What every step does: the innermost request moves on, or it is over *)

LEMMA GrownItself ==
  ASSUME NEW bs, BodiesOK(bs)
  PROVE  Grown(bs, bs)
<1>1. Len(bs) \in Nat
  BY DEF BodiesOK
<1> QED BY <1>1 DEF Grown, BodiesOK

LEMMA OpenedOK ==
  ASSUME NEW bs, BodiesOK(bs), NEW run \in DOMAIN bs,
         NEW bt, bt = IF bs[run].oneShot THEN [bs EXCEPT ![run].left = FALSE] ELSE bs
  PROVE  BodiesOK(bt) /\ Grown(bs, bt)
<1>1. CASE ~bs[run].oneShot
  BY <1>1, GrownItself
<1>2. CASE bs[run].oneShot
  <2>1. bs \in Seq(Body) /\ bs[run] \in Body
    BY DEF BodiesOK
  <2>2. [bs[run] EXCEPT !.left = FALSE] \in Body
    BY <2>1 DEF Body
  <2>3. bt = [bs EXCEPT ![run] = [bs[run] EXCEPT !.left = FALSE]]
    BY <1>2
  <2>4. bt \in Seq(Body) /\ Len(bt) = Len(bs) /\ DOMAIN bt = DOMAIN bs /\ Len(bs) \in Nat
    BY <2>1, <2>2, <2>3
  <2>5. \A i \in DOMAIN bs : /\ bt[i].id = bs[i].id /\ bt[i].content = bs[i].content
                             /\ bt[i].oneShot = bs[i].oneShot
                             /\ bt[i].reopenable = bs[i].reopenable
                             /\ bt[i].left = bs[i].left \/ bt[i].oneShot
    BY <1>2, <2>1, <2>3, ZenonT(60) DEF Body
  <2> QED BY <2>4, <2>5 DEF BodiesOK, Grown
<1> QED BY <1>1, <1>2

LEMMA MovesOn ==
  ASSUME NEW bs, NEW bt, NEW st, NEW v, NEW out, BodiesOK(bs), Grown(bs, bt), StackOK(st, bs, v),
         OutcomeOK(out, st, bs, v), st # << >>, st[Len(st)].phase # "asking",
         NEW g, FrameOK(g, bt, v), g.sent = st[Len(st)].sent, g.cut = st[Len(st)].cut,
         CarryingOf(g, bt) # {} =>
            CarryingOf(st[Len(st)], bt) # {} /\ g.run = st[Len(st)].run
  PROVE  /\ StackOK(Append(SubSeq(st, 1, Len(st) - 1), g), bt, v)
         /\ OutcomeOK(out, Append(SubSeq(st, 1, Len(st) - 1), g), bt, v)
<1>1. StackOK(st, bt, v)
  BY StackKept
<1>2. out.is = "none" /\ out \in Unanswered
  BY DEF OutcomeOK, Heard, Unanswered, Result, Failure
<1>3. OutcomeOK(out, Append(SubSeq(st, 1, Len(st) - 1), g), bt, v)
  BY <1>2 DEF OutcomeOK, Unanswered
<1> QED BY <1>1, <1>3, TopChanges

LEMMA IsOver ==
  ASSUME NEW bs, NEW bt, NEW st, NEW v, BodiesOK(bs), Grown(bs, bt), StackOK(st, bs, v), st # << >>,
         NEW out \in Result \cup Failure, CameTo(out, st[Len(st)], bt, v)
  PROVE  /\ StackOK(SubSeq(st, 1, Len(st) - 1), bt, v)
         /\ OutcomeOK(out, SubSeq(st, 1, Len(st) - 1), bt, v)
BY StackKept, TopEnds, TopAnswers

LEMMA NoneIsFine ==
  ASSUME NEW st, NEW bs, NEW v
  PROVE  OutcomeOK([is |-> "none"], st, bs, v)
BY DEF OutcomeOK, Unanswered

\* Where a step of the innermost request starts.
LEMMA AtTop ==
  ASSUME ArgInv, stack # << >>
  PROVE  /\ Top \in Frame /\ FrameOK(Top, bodies, version) /\ NamesOK(Top, bodies)
         /\ ValuesOK(Top, bodies, version) /\ Top = stack[Len(stack)]
         /\ Below = SubSeq(stack, 1, Len(stack) - 1)
         /\ Top.phase # "asking" => outcome.is = "none"
         /\ outcome.is # "none" => /\ outcome \in Result \cup Failure
                                   /\ Heard(outcome, Top, bodies, version)
         /\ Top.run # NoBody => Top.run \in DOMAIN bodies
         /\ \A f : Carrying(f) = CarryingOf(f, bodies)
         /\ Grown(bodies, bodies)
<1>1. Len(stack) \in DOMAIN stack
  BY DEF ArgInv, StackOK
<1>2. FrameOK(Top, bodies, version)
  BY <1>1 DEF ArgInv, StackOK, Top
<1>3. outcome.is # "none" => /\ outcome \in Result \cup Failure
                             /\ Heard(outcome, Top, bodies, version)
  BY DEF ArgInv, OutcomeOK, Top, Unanswered
<1>4. \A f : Carrying(f) = CarryingOf(f, bodies)
  BY DEF Carrying, CarryingOf
<1>5. Grown(bodies, bodies)
  BY GrownItself DEF ArgInv
<1> QED BY <1>2, <1>3, <1>4, <1>5 DEF FrameOK, NamesOK, Heard, Top, Below

\* A step of the innermost request that opens nothing and answers nothing.
LEMMA StepOfTop ==
  ASSUME ArgInv, stack # << >>, Top.phase # "asking", NEW g, FrameOK(g, bodies, version),
         g.sent = Top.sent, g.cut = Top.cut, g.args = Top.args, g.run = Top.run
  PROVE  /\ StackOK(Append(Below, g), bodies, version)
         /\ OutcomeOK(outcome, Append(Below, g), bodies, version)
<1>1. CarryingOf(g, bodies) = CarryingOf(Top, bodies)
  BY DEF CarryingOf
<1> QED BY <1>1, AtTop, MovesOn DEF ArgInv

-----------------------------------------------------------------------------
(* A door issues *)

LEMMA Issued ==
  ASSUME ArgInv, NEW e \in Door, NEW arg \in Arg, ~Nonce(arg), Issue(e, arg)
  PROVE  ArgInv'
<1> DEFINE args == [a \in {"content"} |-> arg]
           f == Arrived(e, args, NoBody)
<1>1. args \in Args /\ DOMAIN args = {"content"} /\ \A a \in DOMAIN args : args[a] = arg
  BY DEF Args
<1>2. e \in Endpoints /\ BodiesOK(bodies)
  BY ArgAssumption DEF ArgInv
<1> HIDE DEF args
<1>3. FrameOK(f, bodies, version)
  BY <1>1, <1>2, Arrives DEF Alike, Comes
<1>4. stack' = Append(stack, f) /\ outcome' = [is |-> "none"]
  BY DEF Issue, args
<1> HIDE DEF f
<1>5. StackOK(stack', bodies, version) /\ OutcomeOK(outcome', stack', bodies, version)
  BY <1>3, <1>4, TopAsks, NoneIsFine DEF Issue, ArgInv
<1> QED BY <1>5 DEF ArgInv, Issue

LEMMA PlainArgs ==
  /\ Reference \in Arg /\ ~Nonce(Reference)
  /\ \A c \in Payloads : /\ Inline(c) \in Arg /\ ~Nonce(Inline(c))
                         /\ ById(Digest(c)) \in Arg /\ ~Nonce(ById(Digest(c)))
BY DEF Arg, Reference, Inline, Values, ById, Digest, Id, Nonce

LEMMA IssuedAttached ==
  ASSUME ArgInv, NEW e \in Door, NEW s \in {"once", "replay", "validated"}, NEW c \in Payloads,
         IssueAttached(e, s, c)
  PROVE  ArgInv'
<1> DEFINE id == AttachmentId(s, c)
           args == [a \in {"content"} |-> ById(id)]
           n == Len(bodies) + 1
           f == Arrived(e, args, n)
<1>1. bodies \in Seq(Body) /\ Len(bodies) \in Nat /\ DOMAIN bodies = 1 .. Len(bodies)
  BY DEF ArgInv, BodiesOK
<1>2. /\ id \in Id /\ id.of = (IF id.nonce THEN n ELSE c)
      /\ Attached(s, c) \in Body /\ Attached(s, c).id = id /\ Attached(s, c).content = c
      /\ Attached(s, c).left = TRUE
      /\ Attached(s, c).reopenable <=> ~Attached(s, c).oneShot
  <2>1. id \in Id /\ id.of = (IF id.nonce THEN n ELSE c)
    BY <1>1 DEF AttachmentId, Digest, Id
  <2>2. (s = "once") \in BOOLEAN /\ (s # "once") \in BOOLEAN
    OBVIOUS
  <2>3. Attached(s, c) = [id |-> id, content |-> c, left |-> TRUE, oneShot |-> s = "once",
                          reopenable |-> s # "once"]
    BY DEF Attached
  <2> HIDE DEF id
  <2>4. Attached(s, c) \in Body
    BY <2>1, <2>2, <2>3 DEF Body
  <2>5. Attached(s, c).reopenable <=> ~Attached(s, c).oneShot
    <3>1. Attached(s, c).reopenable = (s # "once") /\ Attached(s, c).oneShot = (s = "once")
      BY <2>3
    <3> QED BY <3>1
  <2> QED BY <2>1, <2>3, <2>4, <2>5
<1>3. /\ bodies' \in Seq(Body) /\ Len(bodies') = n /\ n \in Nat \ {0} /\ DOMAIN bodies' = 1 .. n
      /\ bodies'[n] = Attached(s, c) /\ \A i \in 1 .. Len(bodies) : bodies'[i] = bodies[i]
  BY <1>1, <1>2 DEF IssueAttached
<1>4. args \in Args /\ DOMAIN args = {"content"} /\ \A a \in DOMAIN args : args[a] = ById(id)
  BY <1>2 DEF Args, Arg, ById
<1> HIDE DEF id
<1>5. BodiesOK(bodies')
  <2> SUFFICES ASSUME NEW i \in 1 .. n
               PROVE  /\ bodies'[i].id.of = (IF bodies'[i].id.nonce THEN i ELSE bodies'[i].content)
                      /\ bodies'[i].reopenable <=> ~bodies'[i].oneShot
                      /\ ~bodies'[i].left => bodies'[i].oneShot
    BY <1>3 DEF BodiesOK
  <2>1. i = n \/ i \in 1 .. Len(bodies)
    BY <1>1
  <2>2. CASE i = n
    <3>1. bodies'[i] = Attached(s, c)
      BY <1>3, <2>2
    <3>2. bodies'[i].id.of = (IF bodies'[i].id.nonce THEN i ELSE bodies'[i].content)
      BY <1>2, <2>2, <3>1
    <3>3. bodies'[i].reopenable <=> ~bodies'[i].oneShot
      BY <1>2, <3>1, Zenon
    <3>4. bodies'[i].left = TRUE
      BY <1>2, <3>1
    <3> QED BY <3>2, <3>3, <3>4
  <2>3. CASE i \in 1 .. Len(bodies)
    BY <1>1, <1>3, <2>3 DEF ArgInv, BodiesOK
  <2> QED BY <2>1, <2>2, <2>3
<1>6. Grown(bodies, bodies')
  BY <1>1, <1>3 DEF Grown
<1>7. n # NoBody /\ e \in Endpoints
  BY <1>3, ArgAssumption
<1>8. stack' = Append(stack, f) /\ outcome' = [is |-> "none"] /\ stack = << >>
      /\ version' = version /\ answers' = answers
  BY DEF IssueAttached, id
<1> HIDE DEF args, n
<1>9. FrameOK(f, bodies', version)
  <2>1. n \in {NoBody} \cup Nat /\ n \in DOMAIN bodies'
    BY <1>3
  <2>2. \A a \in DOMAIN args : args[a] = ById(bodies'[n].id)
    BY <1>2, <1>3, <1>4
  <2>3. \A a \in DOMAIN args : /\ Alike(args[a], args["content"], bodies')
                               /\ Comes(args[a], args["content"])
    BY <1>4 DEF Alike, Comes
  <2> QED BY <1>4, <1>5, <1>7, <2>1, <2>2, <2>3, Arrives
<1> HIDE DEF f
<1>10. StackOK(stack', bodies', version)
  <2>1. StackOK(stack, bodies', version)
    BY <1>6, StackKept DEF ArgInv
  <2> QED BY <2>1, <1>8, <1>9, TopAsks
<1>11. OutcomeOK(outcome', stack', bodies', version)
  BY <1>8, NoneIsFine
<1>12. AnswersOK(answers', bodies', version)
  BY <1>6, <1>8, AnswersKept DEF ArgInv
<1> QED BY <1>5, <1>8, <1>10, <1>11, <1>12 DEF ArgInv

-----------------------------------------------------------------------------
(* Collecting *)

LEMMA NothingCollected ==
  ASSUME ArgInv, NothingToCollect
  PROVE  ArgInv'
<1> DEFINE g == [Top EXCEPT !.phase = "keyed"]
<1>1. stack # << >> /\ Top.phase = "arrived" /\ stack' = Append(Below, g)
  BY DEF NothingToCollect, At, Becomes
<1>2. Top \in Frame /\ NamesOK(Top, bodies) /\ ValuesOK(Top, bodies, version)
  BY <1>1, AtTop
<1>3. /\ g \in Frame /\ g.args = Top.args /\ g.sent = Top.sent /\ g.seen = Top.seen
      /\ g.run = Top.run /\ g.cut = Top.cut /\ g.phase = "keyed" /\ g.ep = Top.ep
      /\ g.tries = Top.tries /\ g.got = Top.got /\ g.deps = Top.deps
  BY <1>2 DEF Frame
<1> HIDE DEF g
<1>4. Safe(g, bodies) <=> Safe(Top, bodies)
  BY <1>3 DEF Safe, CarryingOf
<1>5. FrameOK(g, bodies, version)
  BY <1>1, <1>2, <1>3, <1>4 DEF FrameOK, NamesOK, ValuesOK
<1>6. StackOK(stack', bodies, version) /\ OutcomeOK(outcome, stack', bodies, version)
  BY <1>1, <1>3, <1>5, StepOfTop
<1> QED BY <1>6 DEF ArgInv, NothingToCollect

\* A body is named by what it is asked by, and holds what its name denotes.
LEMMA BodyDenoted ==
  ASSUME NEW bs, BodiesOK(bs), NEW i \in DOMAIN bs
  PROVE  /\ Denoted(ById(bs[i].id), bs) = bs[i].content
         /\ ById(bs[i].id) \in Arg /\ Inline(bs[i].content) \in Arg /\ bs[i].content \in Values
         /\ ById(bs[i].id).by = "content"
<1>1. bs[i] \in Body
  BY DEF BodiesOK
<1>2. bs[i].id.of = (IF bs[i].id.nonce THEN i ELSE bs[i].content)
  BY DEF BodiesOK
<1>3. Denoted(ById(bs[i].id), bs) = bs[i].content
  BY <1>1, <1>2 DEF Denoted, ById, Body
<1> QED BY <1>1, <1>3 DEF Arg, ById, Inline, Body, Values

\* The arguments with those that are not read as a body made plain.
LEMMA CollectedOK ==
  ASSUME NEW bs, BodiesOK(bs), NEW f \in Frame, NamesOK(f, bs),
         NEW un \in SUBSET CarryingOf(f, bs),
         \A a \in DOMAIN f.args : Alike(f.args[a], f.sent["content"], bs),
         NEW args, args = [a \in DOMAIN f.args |-> IF a \in un THEN Inline(bs[f.run].content)
                                                   ELSE f.args[a]]
  PROVE  /\ args \in Args /\ DOMAIN args = DOMAIN f.args
         /\ \A a \in DOMAIN args : Alike(args[a], f.sent["content"], bs)
         /\ \A a \in DOMAIN args : Nonce(args[a]) => a \notin un /\ Nonce(f.args[a])
         /\ \A a \in DOMAIN args : a \notin un => args[a] = f.args[a]
         /\ \A a \in un : args[a].by = "inline"
<1>1. DOMAIN args = DOMAIN f.args
  OBVIOUS
<1>2. ASSUME NEW a \in un
      PROVE  /\ f.run \in DOMAIN bs /\ f.args[a] = ById(bs[f.run].id)
             /\ args[a] = Inline(bs[f.run].content) /\ args[a] \in Arg
             /\ Alike(args[a], f.args[a], bs)
  <2>1. f.run \in DOMAIN bs /\ f.args[a] = ById(bs[f.run].id)
    BY DEF CarryingOf, NamesOK
  <2>2. a \in DOMAIN f.args
    BY DEF CarryingOf
  <2>3. args[a] = Inline(bs[f.run].content)
    BY <2>2
  <2>4. /\ Denoted(f.args[a], bs) = bs[f.run].content /\ args[a] \in Arg
        /\ f.args[a].by = "content"
    BY <2>1, <2>3, BodyDenoted
  <2>5. args[a].by = "inline" /\ Denoted(args[a], bs) = bs[f.run].content
    <3>1. args[a].by = "inline" /\ args[a].of = bs[f.run].content
      BY <2>3 DEF Inline
    <3> QED
      BY <3>1 DEF Denoted
  <2>6. Alike(args[a], f.args[a], bs)
    BY <2>4, <2>5 DEF Alike
  <2> QED
    BY <2>1, <2>3, <2>4, <2>6
<1>3. \A a \in DOMAIN args : a \notin un => args[a] = f.args[a]
  OBVIOUS
<1>4. args \in Args
  <2>1. \A a \in DOMAIN args : args[a] \in Arg
    BY <1>1, <1>2, <1>3, ArgsForm DEF Frame
  <2>2. DOMAIN f.args \in {{"content"}, Names}
    BY ArgsForm DEF Frame
  <2> QED BY <1>1, <2>1, <2>2 DEF Args
<1>5. \A a \in DOMAIN args : Alike(args[a], f.sent["content"], bs)
  <2> TAKE a \in DOMAIN args
  <2>1. CASE a \in un
    BY <1>1, <1>2, <2>1 DEF Alike
  <2>2. CASE a \notin un
    BY <1>1, <1>3, <2>2
  <2> QED BY <2>1, <2>2
<1>6. \A a \in un : args[a].by = "inline"
  BY <1>2 DEF Inline
<1>7. \A a \in DOMAIN args : Nonce(args[a]) => a \notin un /\ Nonce(f.args[a])
  BY <1>3, <1>6 DEF Nonce
<1> QED BY <1>1, <1>3, <1>4, <1>5, <1>6, <1>7

LEMMA Collected ==
  ASSUME ArgInv, Collect
  PROVE  ArgInv'
<1> DEFINE args == CollectedArgs(Top)
           un == Undeclared(Top)
           g == [Top EXCEPT !.args = args, !.seen = args, !.run = Detached(Top), !.phase = "keyed"]
<1>1. /\ stack # << >> /\ Top.phase = "arrived" /\ stack' = Append(Below, g) /\ un # {}
      /\ Way[Top.ep] # "relay"
      /\ bodies' = Opened(Top.run) /\ version' = version /\ answers' = answers /\ outcome' = outcome
  BY DEF Collect, At, Becomes
<1>2. /\ Top \in Frame /\ NamesOK(Top, bodies) /\ ValuesOK(Top, bodies, version)
      /\ Carrying(Top) = CarryingOf(Top, bodies) /\ Top = stack[Len(stack)]
      /\ Below = SubSeq(stack, 1, Len(stack) - 1)
  BY <1>1, AtTop
<1>3. un \subseteq CarryingOf(Top, bodies) /\ Top.run # NoBody /\ Top.run \in DOMAIN bodies
  BY <1>1, <1>2 DEF Undeclared, Carrying, NamesOK
<1>4. BodiesOK(bodies') /\ Grown(bodies, bodies')
  BY <1>1, <1>3, OpenedOK DEF Opened, ArgInv
<1>5. FrameOK(Top, bodies', version)
  BY <1>1, <1>4, AtTop, FrameKept DEF ArgInv
<1>6. NamesOK(Top, bodies') /\ ValuesOK(Top, bodies', version)
  BY <1>5 DEF FrameOK
<1>7. CarryingOf(Top, bodies') = CarryingOf(Top, bodies)
  BY <1>2, <1>4, CarryingKept
<1>8. /\ args \in Args /\ DOMAIN args = DOMAIN Top.args
      /\ \A a \in DOMAIN args : Alike(args[a], Top.sent["content"], bodies')
      /\ \A a \in DOMAIN args : Nonce(args[a]) => a \notin un /\ Nonce(Top.args[a])
      /\ \A a \in DOMAIN args : a \notin un => args[a] = Top.args[a]
      /\ \A a \in un : args[a].by = "inline"
  <2>1. args = [a \in DOMAIN Top.args |-> IF a \in un THEN Inline(bodies'[Top.run].content)
                                          ELSE Top.args[a]]
    BY <1>3, <1>4 DEF CollectedArgs, Grown
  <2>2. \A a \in DOMAIN Top.args : Alike(Top.args[a], Top.sent["content"], bodies')
    BY <1>6 DEF ValuesOK
  <2>3. un \in SUBSET CarryingOf(Top, bodies')
    BY <1>3, <1>7
  <2> HIDE DEF args, un
  <2> QED BY <1>2, <1>4, <1>6, <2>1, <2>2, <2>3, CollectedOK, SMTT(20)
<1>9. /\ Detached(Top) = NoBody \/ Detached(Top) = Top.run
      /\ Detached(Top) = NoBody => un = CarryingOf(Top, bodies)
  BY <1>2, <1>3 DEF Detached
<1> HIDE DEF args, un
<1>10. /\ g \in Frame /\ g.args = args /\ g.sent = Top.sent /\ g.seen = args
       /\ g.run = Detached(Top) /\ g.cut = Top.cut /\ g.phase = "keyed" /\ g.ep = Top.ep
       /\ g.tries = Top.tries /\ g.got = Top.got /\ g.deps = Top.deps
  BY <1>2, <1>8, <1>9 DEF Frame
<1> HIDE DEF g
<1>11. CarryingOf(g, bodies') # {} => CarryingOf(Top, bodies') # {} /\ g.run = Top.run
  <2> SUFFICES ASSUME NEW a \in CarryingOf(g, bodies')
               PROVE  a \in CarryingOf(Top, bodies') /\ g.run = Top.run
    OBVIOUS
  <2>1. /\ a \in DOMAIN args /\ g.run # NoBody /\ args[a] = ById(bodies'[g.run].id)
    BY <1>10 DEF CarryingOf
  <2>2. g.run = Top.run
    BY <1>9, <1>10, <2>1
  <2>3. a \notin un
    BY <2>1, <1>8 DEF ById
  <2> QED BY <1>8, <2>1, <2>2, <2>3 DEF CarryingOf
<1>12. NamesOK(g, bodies')
  <2>1. ASSUME NEW a \in DOMAIN args, Nonce(args[a])
        PROVE  g.run # NoBody /\ args[a] = ById(bodies'[g.run].id)
    <3>1. a \notin un /\ Nonce(Top.args[a]) /\ args[a] = Top.args[a] /\ a \in DOMAIN Top.args
      BY <2>1, <1>8
    <3>2. a \in CarryingOf(Top, bodies)
      BY <3>1, <1>2 DEF NamesOK, CarryingOf
    <3>3. g.run = Top.run
      BY <3>1, <3>2, <1>9, <1>10
    <3> QED BY <3>1, <3>3, <1>6 DEF NamesOK
  <2>2. Safe(Top, bodies') => Safe(g, bodies')
    BY <1>11 DEF Safe
  <2> QED BY <1>6, <1>8, <1>9, <1>10, <2>1, <2>2 DEF NamesOK
<1>13. ValuesOK(g, bodies', version)
  <2>1. DOMAIN g.got = {}
    BY <1>1, <1>2, <1>10 DEF ValuesOK
  <2>2. \A a \in DOMAIN args : Comes(args[a], Top.sent["content"])
    <3>1. \A a \in DOMAIN args : a \in un \/ args[a] = Top.args[a]
      BY <1>8
    <3> QED BY <1>6, <1>8, <3>1 DEF ValuesOK, Comes
  <2> QED BY <1>1, <1>8, <1>10, <2>1, <2>2 DEF ValuesOK
<1>14. FrameOK(g, bodies', version)
  BY <1>10, <1>12, <1>13 DEF FrameOK
<1>15. StackOK(stack', bodies', version) /\ OutcomeOK(outcome, stack', bodies', version)
  BY <1>1, <1>2, <1>4, <1>10, <1>11, <1>14, MovesOn DEF ArgInv
<1>16. AnswersOK(answers, bodies', version)
  BY <1>4, AnswersKept DEF ArgInv
<1> QED BY <1>1, <1>4, <1>15, <1>16 DEF ArgInv

\* A request that fails other than on its referent.
LEMMA FailedForm ==
  ASSUME ArgInv, stack # << >>,
         NEW why \in {"conflict", "over budget", "unavailable", "unsupported", "not found"}
  PROVE  /\ Failed(why) \in Failure /\ Failed(why).sent = Top.sent /\ Failed(why).is = "failed"
         /\ Failed(why).why = why
BY AtTop DEF Failed, Failure, Frame

LEMMA RefusalCollected ==
  ASSUME ArgInv, NEW why \in {"conflict", "over budget"}, CollectRefused(why)
  PROVE  ArgInv'
<1>1. /\ stack # << >> /\ Top.phase = "arrived" /\ stack' = Below /\ Undeclared(Top) # {}
      /\ bodies' = Opened(Top.run) /\ version' = version /\ answers' = answers
      /\ outcome' = Failed(why)
      /\ why = "conflict" => \/ ~Left(Top.run)
                             \/ bodies[Top.run].oneShot
  BY DEF CollectRefused, At, Ends
<1>2. /\ Top \in Frame /\ NamesOK(Top, bodies) /\ Carrying(Top) = CarryingOf(Top, bodies)
      /\ Top = stack[Len(stack)] /\ Below = SubSeq(stack, 1, Len(stack) - 1)
  BY <1>1, AtTop
<1>3. CarryingOf(Top, bodies) # {} /\ Top.run \in DOMAIN bodies
  BY <1>1, <1>2 DEF Undeclared, Carrying, NamesOK
<1>4. BodiesOK(bodies') /\ Grown(bodies, bodies')
  BY <1>1, <1>3, OpenedOK DEF Opened, ArgInv
<1>5. why = "conflict" => ~Safe(Top, bodies)
  BY <1>1, <1>3 DEF Safe, Left, ArgInv, BodiesOK
<1>6. Safe(Top, bodies') <=> Safe(Top, bodies)
  BY <1>2, <1>4, CarryingKept
<1>7. CameTo(Failed(why), Top, bodies', version)
  BY <1>1, <1>5, <1>6, FailedForm DEF CameTo
<1>8. StackOK(stack', bodies', version) /\ OutcomeOK(outcome', stack', bodies', version)
  BY <1>1, <1>2, <1>4, <1>7, FailedForm, IsOver DEF ArgInv
<1>9. AnswersOK(answers, bodies', version)
  BY <1>4, AnswersKept DEF ArgInv
<1> QED BY <1>1, <1>4, <1>8, <1>9 DEF ArgInv

-----------------------------------------------------------------------------
(* The cache, the invocation, and what settles an argument *)

LEMMA WasHit ==
  ASSUME ArgInv, Hit
  PROVE  ArgInv'
<1> DEFINE answer == answers[Key(Top)]
           out == [is |-> "ok", value |-> answer.value, volatile |-> FALSE,
                   deps |-> answer.deps, ep |-> Top.ep, sent |-> Top.sent]
<1>1. /\ stack # << >> /\ Key(Top) \in DOMAIN answers /\ stack' = Below /\ outcome' = out
      /\ bodies' = bodies /\ version' = version /\ answers' = answers
  BY DEF Hit, At, Ends
<1>2. /\ Top \in Frame /\ NamesOK(Top, bodies) /\ ValuesOK(Top, bodies, version)
      /\ Top = stack[Len(stack)] /\ Below = SubSeq(stack, 1, Len(stack) - 1)
  BY <1>1, AtTop
<1>3. AnswerOK(Key(Top), answer, bodies, version) /\ Key(Top).args = Top.args
  BY <1>1 DEF ArgInv, AnswersOK, Key
<1>4. /\ answer \in [value : Got \cup {Nothing}, deps : Deps]
      /\ SaysSo(answer.value, Top.args["content"], answer.deps, FALSE, bodies, version)
  BY <1>3 DEF AnswerOK
<1> HIDE DEF answer
<1>5. out \in Result
  BY <1>2, <1>4, FrameForm DEF Result
<1>6. SaysSo(answer.value, Top.sent["content"], answer.deps, Top.cut, bodies, version)
  <2>1. /\ Alike(Top.args["content"], Top.sent["content"], bodies) /\ Top.cut \in BOOLEAN
        /\ Comes(Top.args["content"], Top.sent["content"])
    BY <1>2, FrameForm DEF ValuesOK
  <2> QED BY <1>4, <2>1 DEF SaysSo, ValueOK, Fresh, Alike, Comes, Missing
<1>7. CameTo(out, Top, bodies, version)
  BY <1>6 DEF CameTo
<1> HIDE DEF out
<1>8. StackOK(stack', bodies, version) /\ OutcomeOK(outcome', stack', bodies, version)
  BY <1>1, <1>2, <1>5, <1>7, GrownItself, IsOver DEF ArgInv
<1> QED BY <1>1, <1>8 DEF ArgInv

LEMMA Entered ==
  ASSUME ArgInv, Enter
  PROVE  ArgInv'
<1> DEFINE once == OneShot(Top)
           g == [Top EXCEPT !.phase = "invoked", !.volatile = once]
<1>1. /\ stack # << >> /\ Top.phase = "keyed" /\ stack' = Append(Below, g)
      /\ bodies' = bodies /\ version' = version /\ answers' = answers /\ outcome' = outcome
  BY DEF Enter, At, Becomes
<1>2. /\ Top \in Frame /\ NamesOK(Top, bodies) /\ ValuesOK(Top, bodies, version)
      /\ Carrying(Top) = CarryingOf(Top, bodies)
  BY <1>1, AtTop
<1>3. once \in BOOLEAN
  BY DEF OneShot
<1>4. (\E a \in DOMAIN Top.args : Nonce(Top.args[a])) => once
  <2> SUFFICES ASSUME NEW a \in DOMAIN Top.args, Nonce(Top.args[a])
               PROVE  once
    OBVIOUS
  <2>1. Top.run # NoBody /\ Top.args[a] = ById(bodies[Top.run].id)
    BY <1>2 DEF NamesOK
  <2>2. Carrying(Top) # {} /\ bodies[Top.run].id.nonce
    BY <2>1, <1>2 DEF CarryingOf, Nonce, ById
  <2> QED BY <2>2 DEF OneShot
<1> HIDE DEF once
<1>5. /\ g \in Frame /\ g.args = Top.args /\ g.sent = Top.sent /\ g.seen = Top.seen
      /\ g.run = Top.run /\ g.cut = Top.cut /\ g.phase = "invoked" /\ g.ep = Top.ep
      /\ g.tries = Top.tries /\ g.got = Top.got /\ g.deps = Top.deps /\ g.volatile = once
  BY <1>2, <1>3 DEF Frame
<1> HIDE DEF g
<1>6. Safe(g, bodies) <=> Safe(Top, bodies)
  BY <1>5 DEF Safe, CarryingOf
<1>7. NamesOK(g, bodies)
  BY <1>2, <1>4, <1>5, <1>6 DEF NamesOK
<1>8. ValuesOK(g, bodies, version)
  BY <1>1, <1>2, <1>5 DEF ValuesOK
<1>9. StackOK(stack', bodies, version) /\ OutcomeOK(outcome, stack', bodies, version)
  BY <1>1, <1>5, <1>7, <1>8, StepOfTop DEF FrameOK
<1> QED BY <1>1, <1>9 DEF ArgInv

\* An invocation settles an argument, or reads one, and hangs from more.
LEMMA Learns ==
  ASSUME ArgInv, stack # << >>, Top.phase = "invoked", NEW g \in Frame,
         g.args = Top.args, g.sent = Top.sent, g.run = Top.run, g.cut = Top.cut,
         g.phase = "invoked", g.ep = Top.ep, g.tries = Top.tries,
         g.volatile = Top.volatile \/ g.volatile = TRUE, Top.deps \subseteq g.deps,
         DOMAIN g.seen = DOMAIN g.args,
         \A a \in DOMAIN g.args : \/ g.seen[a] = Top.seen[a]
                                  \/ /\ g.args[a].by = "reference" /\ g.seen[a].by = "inline"
                                     /\ Way[g.ep] # "relay"
                                     /\ Fresh(g.seen[a].of, g.deps, g.cut, version),
         g.seen = Top.seen \/ Way[g.ep] # "relay",
         \A a \in DOMAIN g.got :
            \/ a \in DOMAIN Top.got /\ g.got[a] = Top.got[a]
            \/ ValueOK(g.got[a], g.args["content"], g.deps, g.cut, bodies, version)
  PROVE  StackOK(Append(Below, g), bodies, version) /\ OutcomeOK(outcome, Append(Below, g), bodies, version)
<1>1. Top \in Frame /\ NamesOK(Top, bodies) /\ ValuesOK(Top, bodies, version)
  BY AtTop
<1>2. Safe(g, bodies) <=> Safe(Top, bodies)
  BY DEF Safe, CarryingOf
<1>3. NamesOK(g, bodies)
  BY <1>1, <1>2 DEF NamesOK
<1>4. \A u : Fresh(u, Top.deps, Top.cut, version) => Fresh(u, g.deps, g.cut, version)
  BY DEF Fresh
<1>5. \A a \in DOMAIN g.got : ValueOK(g.got[a], g.args["content"], g.deps, g.cut, bodies, version)
  BY <1>1, <1>4 DEF ValuesOK, ValueOK
<1>6. ASSUME NEW a \in DOMAIN g.args, g.seen[a] # g.args[a]
      PROVE  /\ g.args[a].by = "reference" /\ g.seen[a].by = "inline"
             /\ Fresh(g.seen[a].of, g.deps, g.cut, version)
  BY <1>1, <1>4, <1>6 DEF ValuesOK
<1>7. ValuesOK(g, bodies, version)
  BY <1>1, <1>5, <1>6 DEF ValuesOK
<1>8. FrameOK(g, bodies, version)
  BY <1>3, <1>7 DEF FrameOK
<1> QED BY <1>8, StepOfTop

LEMMA SettledName ==
  ASSUME ArgInv, NEW a, SettleName(a)
  PROVE  ArgInv'
<1> DEFINE g == [Top EXCEPT !.seen[a] = Inline("the name")]
<1>1. /\ stack # << >> /\ Top.phase = "invoked" /\ stack' = Append(Below, g)
      /\ a \in DOMAIN Top.seen /\ Top.seen[a] = Reference /\ Way[Top.ep] # "relay"
      /\ bodies' = bodies /\ version' = version /\ answers' = answers /\ outcome' = outcome
  BY DEF SettleName, At, Becomes, Unsettled
<1>2. /\ Top \in Frame /\ NamesOK(Top, bodies) /\ ValuesOK(Top, bodies, version)
  BY <1>1, AtTop
<1>3. [Top.seen EXCEPT ![a] = Inline("the name")] \in Args
  <2>1. Inline("the name") \in Arg /\ Top.seen \in Args
    BY <1>2, FrameForm DEF Arg, Inline, Values
  <2> QED BY <1>1, <2>1 DEF Args
<1>4. /\ g \in Frame /\ g.args = Top.args /\ g.sent = Top.sent /\ g.run = Top.run
      /\ g.seen = [Top.seen EXCEPT ![a] = Inline("the name")]
      /\ g.cut = Top.cut /\ g.phase = "invoked" /\ g.ep = Top.ep /\ g.volatile = Top.volatile
      /\ g.tries = Top.tries /\ g.got = Top.got /\ g.deps = Top.deps
  BY <1>1, <1>2, <1>3 DEF Frame
<1> HIDE DEF g
<1>5. g.seen[a] = Inline("the name") /\ \A b \in DOMAIN g.args \ {a} : g.seen[b] = Top.seen[b]
  BY <1>1, <1>2, <1>4 DEF NamesOK
<1>6. Top.args[a].by = "reference"
  BY <1>1, <1>2 DEF ValuesOK, NamesOK, Reference
<1>7. DOMAIN g.seen = DOMAIN g.args
  BY <1>2, <1>4 DEF NamesOK
<1>8. g.seen[a].by = "inline" /\ Fresh(g.seen[a].of, g.deps, g.cut, version)
  <2>1. Inline("the name").by = "inline" /\ Inline("the name").of = "the name"
    BY DEF Inline
  <2>2. g.seen[a].by = "inline" /\ g.seen[a].of = "the name"
    BY <1>5, <2>1
  <2> QED BY <2>2 DEF Fresh
<1>9. StackOK(stack', bodies, version) /\ OutcomeOK(outcome, stack', bodies, version)
  BY <1>1, <1>4, <1>5, <1>6, <1>7, <1>8, Learns
<1> QED BY <1>1, <1>9 DEF ArgInv

\* The newest version, read through the invocation, is fresh.
LEMMA ReferentFresh ==
  ASSUME ArgInv, version > 0, NEW cut, NEW deps, "x" \in deps
  PROVE  Fresh(Versions[version], deps, cut, version) /\ Versions[version] \in Values
<1>1. version \in DOMAIN Versions
  BY ArgAssumption DEF ArgInv
<1> QED BY <1>1 DEF Fresh, Values, Read

LEMMA SettledReferent ==
  ASSUME ArgInv, NEW a, SettleReferent(a)
  PROVE  ArgInv'
<1> DEFINE u == Versions[version]
           g == [Top EXCEPT !.deps = Recorded(Top), !.seen[a] = Inline(u)]
<1>1. /\ stack # << >> /\ Top.phase = "invoked" /\ stack' = Append(Below, g) /\ version > 0
      /\ a \in DOMAIN Top.seen /\ Top.seen[a] = Reference /\ Way[Top.ep] # "relay"
      /\ bodies' = bodies /\ version' = version /\ answers' = answers /\ outcome' = outcome
  BY DEF SettleReferent, At, Becomes, Unsettled
<1>2. /\ Top \in Frame /\ NamesOK(Top, bodies) /\ ValuesOK(Top, bodies, version)
  BY <1>1, AtTop
<1>3. Recorded(Top) \in Deps /\ Top.deps \subseteq Recorded(Top) /\ "x" \in Recorded(Top)
  BY <1>2, FrameForm DEF Recorded, Deps
<1>4. u \in Values /\ \A cut : Fresh(u, Recorded(Top), cut, version)
  BY <1>1, <1>3, ReferentFresh
<1> HIDE DEF u
<1>5. [Top.seen EXCEPT ![a] = Inline(u)] \in Args
  <2>1. Inline(u) \in Arg /\ Top.seen \in Args
    BY <1>2, <1>4, FrameForm DEF Arg, Inline
  <2> QED BY <1>1, <2>1 DEF Args
<1>6. /\ g \in Frame /\ g.args = Top.args /\ g.sent = Top.sent /\ g.run = Top.run
      /\ g.seen = [Top.seen EXCEPT ![a] = Inline(u)]
      /\ g.cut = Top.cut /\ g.phase = "invoked" /\ g.ep = Top.ep /\ g.volatile = Top.volatile
      /\ g.tries = Top.tries /\ g.got = Top.got /\ g.deps = Recorded(Top)
  BY <1>1, <1>2, <1>3, <1>5 DEF Frame
<1> HIDE DEF g
<1>7. g.seen[a] = Inline(u) /\ \A b \in DOMAIN g.args \ {a} : g.seen[b] = Top.seen[b]
  BY <1>1, <1>2, <1>6 DEF NamesOK
<1>8. Top.args[a].by = "reference"
  BY <1>1, <1>2 DEF ValuesOK, NamesOK, Reference
<1>9. DOMAIN g.seen = DOMAIN g.args
  BY <1>2, <1>6 DEF NamesOK
<1>10. g.seen[a].by = "inline" /\ Fresh(g.seen[a].of, g.deps, g.cut, version)
  BY <1>4, <1>6, <1>7 DEF Inline
<1>11. StackOK(stack', bodies, version) /\ OutcomeOK(outcome, stack', bodies, version)
  BY <1>1, <1>3, <1>6, <1>7, <1>8, <1>9, <1>10, Learns
<1> QED BY <1>1, <1>11 DEF ArgInv

LEMMA MissedReferent ==
  ASSUME ArgInv, NEW a, ReferentMissing(a)
  PROVE  ArgInv'
<1> DEFINE out == [Failed("not found") EXCEPT !.deps = Recorded(Top)]
<1>1. /\ stack # << >> /\ stack' = Below /\ outcome' = out /\ version = 0
      /\ bodies' = bodies /\ version' = version /\ answers' = answers
  BY DEF ReferentMissing, At, Ends, Reading
<1>2. Top \in Frame /\ Top = stack[Len(stack)] /\ Below = SubSeq(stack, 1, Len(stack) - 1)
  BY <1>1, AtTop
<1>3. Recorded(Top) \in Deps /\ "x" \in Recorded(Top)
  BY <1>2, FrameForm DEF Recorded, Deps
<1>4. /\ out \in Failure /\ out.is = "failed" /\ out.why = "not found"
      /\ out.sent = Top.sent /\ out.deps = Recorded(Top)
  BY <1>1, <1>3, FailedForm DEF Failure
<1>5. CameTo(out, Top, bodies, version)
  <2>1. a \in DOMAIN Top.seen /\ Top.seen[a] = Reference
    BY DEF ReferentMissing, Unsettled, Reading
  <2>2. NamesOK(Top, bodies) /\ ValuesOK(Top, bodies, version)
    BY <1>1, AtTop
  <2>3. Top.args[a].by = "reference" /\ a \in DOMAIN Top.args
    BY <2>1, <2>2 DEF ValuesOK, NamesOK, Reference
  <2>4. Top.sent["content"].by = "reference"
    BY <2>2, <2>3 DEF ValuesOK, Alike
  <2> QED BY <1>1, <1>3, <1>4, <2>4 DEF CameTo, Missing
<1> HIDE DEF out
<1>6. StackOK(stack', bodies, version) /\ OutcomeOK(outcome', stack', bodies, version)
  BY <1>1, <1>2, <1>4, <1>5, GrownItself, IsOver DEF ArgInv
<1> QED BY <1>1, <1>6 DEF ArgInv

-----------------------------------------------------------------------------
(* A leaf reads *)

LEMMA ReadingForm ==
  ASSUME ArgInv, NEW a, Reading(a)
  PROVE  /\ stack # << >> /\ Top.phase = "invoked" /\ a \in DOMAIN Top.seen /\ a \in DOMAIN Top.args
         /\ Top.seen[a] \in Arg /\ Top.args[a] \in Arg
         /\ Alike(Top.args[a], Top.args["content"], bodies)
         /\ Top.seen[a].by = "inline" =>
               /\ Top.seen[a].of \in Values
               /\ ValueOK(Top.seen[a].of, Top.args["content"], Top.deps, Top.cut, bodies, version)
         /\ Top.seen[a].by # "inline" => Top.seen[a] = Top.args[a]
<1>1. stack # << >> /\ Top.phase = "invoked" /\ a \in DOMAIN Top.seen
  BY DEF Reading, At
<1>2. Top \in Frame /\ NamesOK(Top, bodies) /\ ValuesOK(Top, bodies, version)
  BY <1>1, AtTop
<1>3. a \in DOMAIN Top.args /\ Top.seen[a] \in Arg /\ Top.args[a] \in Arg
  BY <1>1, <1>2, FrameForm, ArgsForm DEF NamesOK
<1>4. Alike(Top.args[a], Top.args["content"], bodies)
  BY <1>2, <1>3, FrameForm DEF ValuesOK, Alike
<1>5. Top.seen[a].by # "inline" => Top.seen[a] = Top.args[a]
  BY <1>2, <1>3 DEF ValuesOK
<1>6. ASSUME Top.seen[a].by = "inline"
      PROVE  /\ Top.seen[a].of \in Values
             /\ ValueOK(Top.seen[a].of, Top.args["content"], Top.deps, Top.cut, bodies, version)
  <2>1. Top.seen[a].of \in Values
    BY <1>3, <1>6 DEF Arg
  <2>2. CASE Top.seen[a] = Top.args[a]
    <3>1. Denoted(Top.args[a], bodies) = Top.seen[a].of /\ Top.args[a].by # "reference"
      BY <1>6, <2>2 DEF Denoted
    <3> QED BY <1>4, <2>1, <3>1 DEF ValueOK, Alike
  <2>3. CASE Top.seen[a] # Top.args[a]
    <3>1. Top.args[a].by = "reference" /\ Fresh(Top.seen[a].of, Top.deps, Top.cut, version)
      BY <1>2, <1>3, <2>3 DEF ValuesOK
    <3>2. Top.args["content"].by = "reference"
      BY <1>4, <3>1 DEF Alike
    <3> QED BY <2>1, <3>1, <3>2 DEF ValueOK
  <2> QED BY <2>1, <2>2, <2>3
<1> QED BY <1>1, <1>3, <1>4, <1>5, <1>6

LEMMA ReadsOne ==
  ASSUME ArgInv, NEW a, Reading(a), NEW u \in Values, NEW deps \in Deps, Top.deps \subseteq deps,
         NEW volatile \in BOOLEAN, volatile = Top.volatile \/ volatile = TRUE,
         ValueOK(u, Top.args["content"], deps, Top.cut, bodies, version),
         NEW g, g = [Top EXCEPT !.got = Gets(a, u), !.deps = deps, !.volatile = volatile]
  PROVE  StackOK(Append(Below, g), bodies, version) /\ OutcomeOK(outcome, Append(Below, g), bodies, version)
<1> DEFINE got == Gets(a, u)
<1>1. stack # << >> /\ Top.phase = "invoked" /\ a \in DOMAIN Top.args
  BY ReadingForm
<1>2. /\ Top \in Frame /\ NamesOK(Top, bodies) /\ ValuesOK(Top, bodies, version)
  BY <1>1, AtTop
<1>3. a \in Names
  BY <1>1, <1>2, FrameForm, ArgsForm DEF Names
<1>4. DOMAIN Top.got \subseteq Names /\ \A b \in DOMAIN Top.got : Top.got[b] \in Values
  BY <1>2, FrameForm, GotForm
<1>5. /\ got = [b \in DOMAIN Top.got \cup {a} |-> IF b = a THEN u ELSE Top.got[b]]
      /\ DOMAIN got = DOMAIN Top.got \cup {a}
      /\ \A b \in DOMAIN got : IF b = a THEN got[b] = u ELSE b \in DOMAIN Top.got /\ got[b] = Top.got[b]
  BY DEF Gets
<1>6. got \in Got
  <2>1. DOMAIN Top.got \cup {a} \in SUBSET Names
    BY <1>3, <1>4
  <2>2. got \in [DOMAIN Top.got \cup {a} -> Values]
    BY <1>4, <1>5
  <2> QED BY <2>1, <2>2, GotMade
<1> HIDE DEF got
<1>7. /\ g \in Frame /\ g.args = Top.args /\ g.sent = Top.sent /\ g.run = Top.run
      /\ g.seen = Top.seen
      /\ g.cut = Top.cut /\ g.phase = "invoked" /\ g.ep = Top.ep /\ g.volatile = volatile
      /\ g.tries = Top.tries /\ g.got = got /\ g.deps = deps
  BY <1>1, <1>2, <1>6 DEF Frame, got
<1>8. DOMAIN g.seen = DOMAIN g.args
  BY <1>2, <1>7 DEF NamesOK
<1>9. \A b \in DOMAIN g.got :
         \/ b \in DOMAIN Top.got /\ g.got[b] = Top.got[b]
         \/ ValueOK(g.got[b], g.args["content"], g.deps, g.cut, bodies, version)
  BY <1>5, <1>7
<1>10. \A b \in DOMAIN g.args : g.seen[b] = Top.seen[b]
  BY <1>7
<1>11. (g.volatile = Top.volatile \/ g.volatile = TRUE) /\ Top.deps \subseteq g.deps
  BY <1>7
<1> QED BY <1>1, <1>7, <1>8, <1>9, <1>10, <1>11, Learns

LEMMA InlineRead ==
  ASSUME ArgInv, NEW a, ReadInline(a)
  PROVE  ArgInv'
<1> DEFINE u == Top.seen[a].of
           g == [Top EXCEPT !.got = Gets(a, u)]
<1>1. /\ Reading(a) /\ Top.seen[a].by = "inline" /\ stack' = Append(Below, g)
      /\ bodies' = bodies /\ version' = version /\ answers' = answers /\ outcome' = outcome
  BY DEF ReadInline, Becomes
<1>2. u \in Values /\ ValueOK(u, Top.args["content"], Top.deps, Top.cut, bodies, version)
  BY <1>1, ReadingForm
<1>3. Top \in Frame /\ Top.deps \in Deps /\ Top.volatile \in BOOLEAN
  BY <1>1, ReadingForm, AtTop, FrameForm
<1> HIDE DEF u
<1>4. g = [Top EXCEPT !.got = Gets(a, u), !.deps = Top.deps, !.volatile = Top.volatile]
  BY <1>3 DEF Frame
<1> HIDE DEF g
<1>5. StackOK(stack', bodies, version) /\ OutcomeOK(outcome, stack', bodies, version)
  BY <1>1, <1>2, <1>3, <1>4, ReadsOne
<1> QED BY <1>1, <1>5 DEF ArgInv

LEMMA ReferenceRead ==
  ASSUME ArgInv, NEW a, ReadReference(a)
  PROVE  ArgInv'
<1> DEFINE u == Versions[version]
           g == [Top EXCEPT !.got = Gets(a, u), !.deps = Recorded(Top)]
<1>1. /\ Reading(a) /\ Top.seen[a] = Reference /\ version > 0 /\ stack' = Append(Below, g)
      /\ bodies' = bodies /\ version' = version /\ answers' = answers /\ outcome' = outcome
  BY DEF ReadReference, Becomes
<1>2. Top \in Frame /\ Top.deps \in Deps /\ Top.volatile \in BOOLEAN
  BY <1>1, ReadingForm, AtTop, FrameForm
<1>3. Recorded(Top) \in Deps /\ Top.deps \subseteq Recorded(Top) /\ "x" \in Recorded(Top)
  BY <1>2 DEF Recorded, Deps
<1>4. u \in Values /\ Fresh(u, Recorded(Top), Top.cut, version)
  BY <1>1, <1>3, ReferentFresh
<1>5. Top.args["content"].by = "reference"
  BY <1>1, ReadingForm DEF Reference, Alike
<1>6. ValueOK(u, Top.args["content"], Recorded(Top), Top.cut, bodies, version)
  BY <1>4, <1>5 DEF ValueOK
<1> HIDE DEF u
<1>7. g = [Top EXCEPT !.got = Gets(a, u), !.deps = Recorded(Top), !.volatile = Top.volatile]
  BY <1>2 DEF Frame
<1> HIDE DEF g
<1>8. StackOK(stack', bodies, version) /\ OutcomeOK(outcome, stack', bodies, version)
  BY <1>1, <1>2, <1>3, <1>4, <1>6, <1>7, ReadsOne
<1> QED BY <1>1, <1>8 DEF ArgInv

LEMMA AttachedRead ==
  ASSUME ArgInv, NEW a, ReadAttached(a)
  PROVE  ArgInv'
<1> DEFINE u == bodies[Top.run].content
           vol == Top.volatile \/ bodies[Top.run].id.nonce
           g == [Top EXCEPT !.got = Gets(a, u), !.volatile = vol]
<1>1. /\ Reading(a) /\ a \in Carrying(Top) /\ stack' = Append(Below, g)
      /\ bodies' = Opened(Top.run) /\ version' = version /\ answers' = answers /\ outcome' = outcome
  BY DEF ReadAttached, Becomes
<1>2. /\ Top \in Frame /\ Top.deps \in Deps /\ Top.volatile \in BOOLEAN
      /\ NamesOK(Top, bodies) /\ Carrying(Top) = CarryingOf(Top, bodies)
  BY <1>1, ReadingForm, AtTop, FrameForm
<1>3. /\ Top.run \in DOMAIN bodies /\ Top.args[a] = ById(bodies[Top.run].id)
  BY <1>1, <1>2 DEF CarryingOf, NamesOK
<1>4. u \in Values /\ Denoted(Top.args[a], bodies) = u /\ Top.args[a].by = "content"
  BY <1>3, BodyDenoted DEF ArgInv
<1>5. ValueOK(u, Top.args["content"], Top.deps, Top.cut, bodies, version)
  BY <1>1, <1>4, ReadingForm DEF ValueOK, Alike
<1>6. vol \in BOOLEAN /\ (vol = Top.volatile \/ vol = TRUE)
  <2>1. bodies[Top.run].id \in Id
    <3>1. bodies \in Seq(Body)
      BY DEF ArgInv, BodiesOK
    <3>2. bodies[Top.run] \in Body
      BY <1>3, <3>1
    <3> QED BY <3>2 DEF Body
  <2>2. bodies[Top.run].id.nonce \in BOOLEAN
    BY <2>1 DEF Id
  <2> QED BY <1>2, <2>2
<1> HIDE DEF u, vol
<1>7. g = [Top EXCEPT !.got = Gets(a, u), !.deps = Top.deps, !.volatile = vol]
  BY <1>2 DEF Frame
<1> HIDE DEF g
<1>8. StackOK(stack', bodies, version) /\ OutcomeOK(outcome, stack', bodies, version)
  BY <1>1, <1>2, <1>4, <1>5, <1>6, <1>7, ReadsOne
<1>9. BodiesOK(bodies') /\ Grown(bodies, bodies')
  BY <1>1, <1>3, OpenedOK DEF Opened, ArgInv
<1> QED BY <1>1, <1>8, <1>9, StackKept, OutcomeKept, AnswersKept DEF ArgInv

LEMMA HeldRead ==
  ASSUME ArgInv, NEW a, ReadHeld(a)
  PROVE  ArgInv'
<1> DEFINE u == Top.args[a].of.of
           g == [Top EXCEPT !.got = Gets(a, u)]
<1>1. /\ Reading(a) /\ Top.seen[a].by = "content" /\ ~Top.seen[a].of.nonce /\ stack' = Append(Below, g)
      /\ bodies' = bodies /\ version' = version /\ answers' = answers /\ outcome' = outcome
  BY DEF ReadHeld, ReadsStore, HeldIds, Digest, Becomes
<1>2. Top \in Frame /\ Top.deps \in Deps /\ Top.volatile \in BOOLEAN
  BY <1>1, ReadingForm, AtTop, FrameForm
<1>3. Top.args[a] \in Arg /\ Top.args[a].by = "content" /\ ~Top.args[a].of.nonce
  BY <1>1, ReadingForm
<1>4. u \in Values /\ Denoted(Top.args[a], bodies) = u
  BY <1>3 DEF Arg, Id, Values, Denoted
<1>5. ValueOK(u, Top.args["content"], Top.deps, Top.cut, bodies, version)
  BY <1>1, <1>3, <1>4, ReadingForm DEF ValueOK, Alike
<1> HIDE DEF u
<1>6. g = [Top EXCEPT !.got = Gets(a, u), !.deps = Top.deps, !.volatile = Top.volatile]
  BY <1>2 DEF Frame
<1> HIDE DEF g
<1>7. StackOK(stack', bodies, version) /\ OutcomeOK(outcome, stack', bodies, version)
  BY <1>1, <1>2, <1>4, <1>5, <1>6, ReadsOne
<1> QED BY <1>1, <1>7 DEF ArgInv

LEMMA SpentRead ==
  ASSUME ArgInv, NEW a, ReadSpent(a)
  PROVE  ArgInv'
<1>1. /\ Reading(a) /\ a \in Carrying(Top) /\ ~Left(Top.run) /\ stack' = Below
      /\ outcome' = Failed("conflict")
      /\ bodies' = bodies /\ version' = version /\ answers' = answers
  BY DEF ReadSpent, Ends
<1>2. stack # << >>
  BY <1>1, ReadingForm
<1>3. /\ Top \in Frame /\ NamesOK(Top, bodies) /\ Carrying(Top) = CarryingOf(Top, bodies)
      /\ Top = stack[Len(stack)] /\ Below = SubSeq(stack, 1, Len(stack) - 1)
  BY <1>2, AtTop
<1>4. ~Safe(Top, bodies)
  BY <1>1, <1>3 DEF Safe, Left, ArgInv, BodiesOK, CarryingOf, NamesOK
<1>5. Failed("conflict") \in Failure /\ CameTo(Failed("conflict"), Top, bodies, version)
  BY <1>2, <1>4, FailedForm DEF CameTo
<1>6. StackOK(stack', bodies, version) /\ OutcomeOK(outcome', stack', bodies, version)
  BY <1>1, <1>2, <1>3, <1>5, GrownItself, IsOver DEF ArgInv
<1> QED BY <1>1, <1>6 DEF ArgInv

\* What is not held was sent as content.
LEMMA UnheldRead ==
  ASSUME ArgInv, NEW a, ReadUnheld(a)
  PROVE  ArgInv'
<1> DEFINE why == IF store.installed THEN "not found" ELSE "unsupported"
<1>1. /\ Reading(a) /\ Top.seen[a].by = "content" /\ stack' = Below /\ outcome' = Failed(why)
      /\ bodies' = bodies /\ version' = version /\ answers' = answers
  BY DEF ReadUnheld, ReadsStore, Ends
<1>2. stack # << >> /\ a \in DOMAIN Top.args /\ Top.args[a].by = "content"
  BY <1>1, ReadingForm
<1>3. /\ ValuesOK(Top, bodies, version)
      /\ Top = stack[Len(stack)] /\ Below = SubSeq(stack, 1, Len(stack) - 1)
  BY <1>2, AtTop
<1>4. Top.sent["content"].by = "content"
  BY <1>2, <1>3 DEF ValuesOK, Comes
<1>5. why \in {"not found", "unsupported"}
  OBVIOUS
<1> HIDE DEF why
<1>6. Failed(why) \in Failure /\ CameTo(Failed(why), Top, bodies, version)
  BY <1>2, <1>4, <1>5, FailedForm DEF CameTo, Missing
<1>7. StackOK(stack', bodies, version) /\ OutcomeOK(outcome', stack', bodies, version)
  BY <1>1, <1>2, <1>3, <1>6, GrownItself, IsOver DEF ArgInv
<1> QED BY <1>1, <1>7 DEF ArgInv

-----------------------------------------------------------------------------
(* Answers, failures and requests made *)

LEMMA StoredAll ==
  ASSUME ArgInv, NEW f, FrameOK(f, bodies, version), f.phase \in {"invoked", "asking"},
         NEW value \in Got \cup {Nothing},
         SaysSo(value, f.args["content"], f.deps, f.cut, bodies, version)
  PROVE  AnswersOK(Stored(f, value), bodies, version)
<1>1. CASE f.volatile \/ (f.cut /\ f.deps # {})
  BY <1>1 DEF Stored, ArgInv
<1>2. CASE ~(f.volatile \/ (f.cut /\ f.deps # {}))
  <2>1. Stored(f, value) = [k \in {Key(f)} |-> [value |-> value, deps |-> f.deps]]
    BY <1>2 DEF Stored
  <2>2. ~f.volatile /\ ~(f.cut /\ f.deps # {})
    BY <1>2
  <2> QED BY <2>1, <2>2, StoredOK
<1> QED BY <1>1, <1>2

LEMMA SaysOfSent ==
  ASSUME NEW bs, NEW v, NEW f, FrameOK(f, bs, v), NEW value, NEW deps,
         SaysSo(value, f.args["content"], deps, f.cut, bs, v)
  PROVE  SaysSo(value, f.sent["content"], deps, f.cut, bs, v)
<1>1. Alike(f.args["content"], f.sent["content"], bs) /\ Comes(f.args["content"], f.sent["content"])
  BY FrameForm DEF FrameOK, ValuesOK
<1>2. f.cut \in BOOLEAN
  BY FrameForm DEF FrameOK
<1> QED BY <1>1, <1>2, SaysMore

LEMMA LeafAnswers ==
  ASSUME ArgInv, Answer
  PROVE  ArgInv'
<1> DEFINE out == [is |-> "ok", value |-> Top.got, volatile |-> Top.volatile, deps |-> Top.deps,
                   ep |-> Top.ep, sent |-> Top.sent]
<1>1. /\ stack # << >> /\ Top.phase = "invoked" /\ stack' = Below /\ outcome' = out
      /\ answers' = Stored(Top, Top.got) /\ bodies' = bodies /\ version' = version
  BY DEF Answer, AnswerWith, At, Ends
<1>2. /\ Top \in Frame /\ FrameOK(Top, bodies, version) /\ ValuesOK(Top, bodies, version)
      /\ Top = stack[Len(stack)] /\ Below = SubSeq(stack, 1, Len(stack) - 1)
  BY <1>1, AtTop
<1>3. Top.got \in Got /\ Top.got # Nothing
  BY <1>2, FrameForm, GotForm
<1>4. SaysSo(Top.got, Top.args["content"], Top.deps, Top.cut, bodies, version)
  BY <1>2, <1>3 DEF ValuesOK, SaysSo
<1>5. AnswersOK(answers', bodies, version)
  BY <1>1, <1>2, <1>3, <1>4, StoredAll
<1>6. out \in Result
  BY <1>2, <1>3, FrameForm DEF Result
<1>7. CameTo(out, Top, bodies, version)
  BY <1>2, <1>4, SaysOfSent DEF CameTo
<1> HIDE DEF out
<1>8. StackOK(stack', bodies, version) /\ OutcomeOK(outcome', stack', bodies, version)
  BY <1>1, <1>2, <1>6, <1>7, GrownItself, IsOver DEF ArgInv
<1> QED BY <1>1, <1>5, <1>8 DEF ArgInv

LEMMA LeafFails ==
  ASSUME ArgInv, Fail
  PROVE  ArgInv'
<1>1. /\ stack # << >> /\ stack' = Below /\ outcome' = Failed("unavailable")
      /\ answers' = answers /\ bodies' = bodies /\ version' = version
  BY DEF Fail, At, Ends
<1>2. Top = stack[Len(stack)] /\ Below = SubSeq(stack, 1, Len(stack) - 1)
  BY <1>1, AtTop
<1>3. Failed("unavailable") \in Failure /\ CameTo(Failed("unavailable"), Top, bodies, version)
  BY <1>1, FailedForm DEF CameTo
<1>4. StackOK(stack', bodies, version) /\ OutcomeOK(outcome', stack', bodies, version)
  BY <1>1, <1>2, <1>3, GrownItself, IsOver DEF ArgInv
<1> QED BY <1>1, <1>4 DEF ArgInv

LEMMA Asked ==
  ASSUME ArgInv, Ask
  PROVE  ArgInv'
<1> DEFINE f == [Top EXCEPT !.phase = "asking"]
           args == IF Way[Top.ep] = "relay" THEN Top.seen
                   ELSE [a \in {"content", "copy"} |-> Top.seen["content"]]
           g == Arrived(Target[Top.ep], args, Top.run)
           st == Append(Below, f)
<1>1. /\ stack # << >> /\ Top.phase = "invoked" /\ Way[Top.ep] \in {"relay", "compose"}
      /\ stack' = Append(st, g) /\ outcome' = [is |-> "none"]
      /\ bodies' = bodies /\ version' = version /\ answers' = answers
  BY DEF Ask, At
<1>2. /\ Top \in Frame /\ NamesOK(Top, bodies) /\ ValuesOK(Top, bodies, version)
      /\ Top = stack[Len(stack)] /\ Below = SubSeq(stack, 1, Len(stack) - 1)
      /\ stack \in Seq(Frame) /\ StackOK(stack, bodies, version) /\ BodiesOK(bodies)
  BY <1>1, AtTop DEF ArgInv, StackOK
<1>3. /\ f \in Frame /\ f.args = Top.args /\ f.sent = Top.sent /\ f.seen = Top.seen
      /\ f.run = Top.run /\ f.cut = Top.cut /\ f.phase = "asking" /\ f.ep = Top.ep
      /\ f.tries = Top.tries /\ f.got = Top.got /\ f.deps = Top.deps /\ f.volatile = Top.volatile
  BY <1>2 DEF Frame
<1>4. /\ args \in Args
      /\ \A a \in DOMAIN args : \E b \in DOMAIN Top.args : args[a] = Top.seen[b]
      /\ args["content"] = Top.seen["content"]
      /\ \A a \in DOMAIN args : /\ Alike(args[a], args["content"], bodies)
                                /\ Comes(args[a], args["content"])
  <2>1. /\ Top.seen \in Args /\ "content" \in DOMAIN Top.seen /\ Top.seen["content"] \in Arg
        /\ DOMAIN Top.seen = DOMAIN Top.args
    BY <1>2, FrameForm DEF NamesOK
  <2>2. CASE Way[Top.ep] = "relay"
    <3>1. args = Top.seen /\ Top.seen = Top.args /\ Top.args = Top.sent
      BY <1>2, <2>2 DEF ValuesOK
    <3>2. \A a \in DOMAIN Top.args : /\ Alike(Top.args[a], Top.args["content"], bodies)
                                     /\ Comes(Top.args[a], Top.args["content"])
      BY <1>2, <2>1, <3>1 DEF ValuesOK, Alike
    <3> QED BY <2>1, <3>1, <3>2
  <2>3. CASE Way[Top.ep] # "relay"
    <3>1. args = [a \in Names |-> Top.seen["content"]]
      BY <2>3 DEF Names
    <3>2. args \in Args /\ "content" \in Names
      BY <2>1, <3>1 DEF Args, Names
    <3> QED BY <2>1, <3>1, <3>2 DEF Alike, Comes
  <2> QED BY <2>2, <2>3
<1>5. Target[Top.ep] \in Endpoints /\ Top.run \in {NoBody} \cup Nat
  BY <1>1, <1>2, FrameForm, ArgAssumption
<1>6. \A b \in DOMAIN Top.args : Top.seen[b].by = "content" => Top.seen[b] = Top.args[b]
  BY <1>2 DEF ValuesOK
<1> HIDE DEF f, args
<1>7. FrameOK(g, bodies, version)
  <2>1. Top.run # NoBody => Top.run \in DOMAIN bodies
    BY <1>2 DEF NamesOK
  <2>2. ASSUME NEW a \in DOMAIN args, Nonce(args[a])
        PROVE  Top.run # NoBody /\ args[a] = ById(bodies[Top.run].id)
    <3>1. PICK b \in DOMAIN Top.args : args[a] = Top.seen[b]
      BY <1>4
    <3>2. Top.seen[b] = Top.args[b] /\ Nonce(Top.args[b])
      BY <1>6, <2>2, <3>1 DEF Nonce
    <3> QED BY <1>2, <3>1, <3>2 DEF NamesOK
  <2> QED BY <1>2, <1>4, <1>5, <2>1, <2>2, Arrives
<1>8. g.sent = args /\ g.args = args /\ g.run = Top.run /\ g.cut = FALSE
  BY DEF Arrived
<1> HIDE DEF g
<1>9. CarryingOf(f, bodies) = CarryingOf(Top, bodies) /\ (Safe(f, bodies) <=> Safe(Top, bodies))
  BY <1>3 DEF CarryingOf, Safe
<1>10. FrameOK(f, bodies, version)
  BY <1>1, <1>2, <1>3, <1>9 DEF FrameOK, NamesOK, ValuesOK
<1>11. StackOK(st, bodies, version)
  BY <1>1, <1>2, <1>3, <1>9, <1>10, TopChanges
<1>12. CarryingOf(g, bodies) # {} => CarryingOf(f, bodies) # {}
  <2> SUFFICES ASSUME NEW a \in CarryingOf(g, bodies)
               PROVE  CarryingOf(f, bodies) # {}
    OBVIOUS
  <2>1. a \in DOMAIN args /\ Top.run # NoBody /\ args[a] = ById(bodies[Top.run].id)
    BY <1>8 DEF CarryingOf
  <2>2. PICK b \in DOMAIN Top.args : args[a] = Top.seen[b]
    BY <1>4, <2>1
  <2>3. Top.seen[b].by = "content"
    BY <2>1, <2>2 DEF ById
  <2>4. b \in CarryingOf(f, bodies)
    BY <1>3, <1>6, <2>1, <2>2, <2>3 DEF CarryingOf
  <2> QED BY <2>4
<1>13. Asks(f, g, bodies)
  BY <1>1, <1>3, <1>4, <1>8, <1>12 DEF Asks
<1>14. st[Len(st)] = f
  <2>1. Len(st) = Len(stack) /\ st[Len(stack)] = f
    BY <1>1, <1>2, <1>3, Tops
  <2> QED BY <2>1
<1> HIDE DEF st
<1>15. StackOK(stack', bodies, version)
  BY <1>1, <1>7, <1>11, <1>13, <1>14, TopAsks
<1> QED BY <1>1, <1>15, NoneIsFine DEF ArgInv

\* What was heard of the request made, as the one who made it came to.
LEMMA FoldedHeard ==
  ASSUME ArgInv, Answered
  PROVE  /\ stack # << >> /\ Top.phase = "asking" /\ outcome \in Result \cup Failure
         /\ FrameOK(Folded(Top, outcome), bodies, version)
         /\ LET frame == Folded(Top, outcome)
            IN  /\ frame \in Frame /\ frame.phase = "asking" /\ frame.sent = Top.sent /\ frame.cut = Top.cut
                /\ frame.args = Top.args /\ frame.ep = Top.ep /\ outcome.deps \subseteq frame.deps
                /\ outcome.is = "ok" =>
                      SaysSo(outcome.value, frame.args["content"], frame.deps, frame.cut, bodies, version)
                /\ outcome.is = "failed" /\ outcome.why = "not found" =>
                      Missing(frame.args["content"], frame.deps, frame.cut, version)
                /\ outcome.is = "failed" /\ outcome.why = "conflict" => ~Safe(Top, bodies)
<1> DEFINE frame == Folded(Top, outcome)
<1>1. stack # << >> /\ Top.phase = "asking" /\ outcome.is # "none"
  BY DEF Answered, At
<1>2. /\ Top \in Frame /\ FrameOK(Top, bodies, version) /\ ValuesOK(Top, bodies, version)
      /\ outcome \in Result \cup Failure /\ Heard(outcome, Top, bodies, version)
  BY <1>1, AtTop
<1>3. FrameOK(frame, bodies, version) /\ frame.deps = Top.deps \cup outcome.deps
  BY <1>1, <1>2, FoldedOK
<1>4. /\ frame.phase = Top.phase /\ frame.sent = Top.sent /\ frame.cut = Top.cut
      /\ frame.args = Top.args /\ frame.ep = Top.ep
  <2>1. \A x \in {"args", "sent", "seen", "run", "cut", "phase", "ep", "tries", "got"} :
           frame[x] = Top[x]
    BY <1>1, <1>2, FoldedOK
  <2> QED BY <2>1
<1> HIDE DEF frame
<1>5. ASSUME outcome.is = "ok"
      PROVE  SaysSo(outcome.value, Top.args["content"], frame.deps, Top.cut, bodies, version)
  <2>1. SaysSo(outcome.value, Top.seen["content"], outcome.deps, Top.cut, bodies, version)
    BY <1>2, <1>5 DEF Heard
  <2>2. outcome.deps \subseteq frame.deps /\ Top.deps \subseteq frame.deps
    BY <1>3
  <2>3. CASE Top.seen["content"] = Top.args["content"]
    BY <2>1, <2>2, <2>3 DEF SaysSo, ValueOK, Fresh, Missing
  <2>4. CASE Top.seen["content"] # Top.args["content"]
    <3>1. "content" \in DOMAIN Top.args
      BY <1>2, FrameForm
    <3>2. /\ Top.args["content"].by = "reference" /\ Top.seen["content"].by = "inline"
          /\ Fresh(Top.seen["content"].of, Top.deps, Top.cut, version)
      BY <1>2, <2>4, <3>1 DEF ValuesOK
    <3>3. Fresh(Top.seen["content"].of, frame.deps, Top.cut, version)
      BY <2>2, <3>2 DEF Fresh
    <3>4. Denoted(Top.seen["content"], bodies) = Top.seen["content"].of
      BY <3>2 DEF Denoted
    <3> QED BY <2>1, <2>2, <3>2, <3>3, <3>4 DEF SaysSo, ValueOK, Missing
  <2> QED BY <2>3, <2>4
<1>6. ASSUME outcome.is = "failed", outcome.why = "not found"
      PROVE  Missing(Top.args["content"], frame.deps, Top.cut, version)
  <2>1. Missing(Top.seen["content"], outcome.deps, Top.cut, version)
    BY <1>2, <1>6 DEF Heard
  <2>2. Top.seen["content"] = Top.args["content"]
    BY <1>2, <2>1, FrameForm DEF ValuesOK, Missing
  <2> QED BY <1>3, <2>1, <2>2 DEF Missing
<1>7. outcome.is = "failed" /\ outcome.why = "conflict" => ~Safe(Top, bodies)
  BY <1>2 DEF Heard
<1>8. frame \in Frame /\ outcome.deps \subseteq frame.deps
  BY <1>3 DEF FrameOK
<1> QED BY <1>1, <1>2, <1>3, <1>4, <1>5, <1>6, <1>7, <1>8 DEF frame

LEMMA Returned ==
  ASSUME ArgInv, Return
  PROVE  ArgInv'
<1> DEFINE frame == Folded(Top, outcome)
           out == [outcome EXCEPT !.volatile = frame.volatile, !.deps = frame.deps,
                                  !.ep = Top.ep, !.sent = Top.sent]
<1>1. /\ Answered /\ outcome.is = "ok" /\ stack' = Below /\ outcome' = out
      /\ answers' = Stored(frame, outcome.value) /\ bodies' = bodies /\ version' = version
  BY DEF Return, Ends
<1>2. /\ stack # << >> /\ outcome \in Result /\ FrameOK(frame, bodies, version)
      /\ frame \in Frame /\ frame.phase = "asking" /\ frame.sent = Top.sent /\ frame.cut = Top.cut
      /\ SaysSo(outcome.value, frame.args["content"], frame.deps, frame.cut, bodies, version)
  <2>1. outcome \notin Failure
    BY <1>1 DEF Failure
  <2> QED BY <1>1, <2>1, FoldedHeard
<1>3. /\ Top \in Frame /\ Top = stack[Len(stack)] /\ Below = SubSeq(stack, 1, Len(stack) - 1)
  BY <1>2, AtTop
<1> HIDE DEF frame
<1>4. AnswersOK(answers', bodies, version)
  BY <1>1, <1>2, StoredAll DEF Result
<1>5. frame.volatile \in BOOLEAN /\ frame.deps \in Deps /\ Top.ep \in Endpoints /\ Top.sent \in Args
  BY <1>2, <1>3, FrameForm
<1>6. /\ out \in Result /\ out.is = "ok" /\ out.value = outcome.value /\ out.deps = frame.deps
      /\ out.sent = Top.sent
  BY <1>2, <1>5 DEF Result
<1> HIDE DEF out
<1>7. SaysSo(outcome.value, frame.sent["content"], frame.deps, frame.cut, bodies, version)
  BY <1>2, SaysOfSent
<1>8. CameTo(out, Top, bodies, version)
  BY <1>2, <1>6, <1>7 DEF CameTo
<1>9. StackOK(stack', bodies, version) /\ OutcomeOK(outcome', stack', bodies, version)
  BY <1>1, <1>2, <1>3, <1>6, <1>8, GrownItself, IsOver DEF ArgInv
<1> QED BY <1>1, <1>4, <1>9 DEF ArgInv

LEMMA FellBack ==
  ASSUME ArgInv, FallBack
  PROVE  ArgInv'
<1> DEFINE frame == Folded(Top, outcome)
           out == [is |-> "ok", value |-> Nothing, volatile |-> frame.volatile,
                   deps |-> frame.deps, ep |-> Top.ep, sent |-> Top.sent]
<1>1. /\ Answered /\ outcome.is = "failed" /\ outcome.why = "not found" /\ stack' = Below
      /\ outcome' = out /\ answers' = Stored(frame, Nothing) /\ bodies' = bodies /\ version' = version
  BY DEF FallBack, Ends
<1>2. /\ stack # << >> /\ FrameOK(frame, bodies, version)
      /\ frame \in Frame /\ frame.phase = "asking" /\ frame.sent = Top.sent /\ frame.cut = Top.cut
      /\ Missing(frame.args["content"], frame.deps, frame.cut, version)
  BY <1>1, FoldedHeard
<1>3. /\ Top \in Frame /\ Top = stack[Len(stack)] /\ Below = SubSeq(stack, 1, Len(stack) - 1)
  BY <1>2, AtTop
<1> HIDE DEF frame
<1>4. SaysSo(Nothing, frame.args["content"], frame.deps, frame.cut, bodies, version)
  BY <1>2 DEF SaysSo
<1>5. AnswersOK(answers', bodies, version)
  BY <1>1, <1>2, <1>4, StoredAll
<1>6. frame.volatile \in BOOLEAN /\ frame.deps \in Deps /\ Top.ep \in Endpoints /\ Top.sent \in Args
  BY <1>2, <1>3, FrameForm
<1>7. /\ out \in Result /\ out.is = "ok" /\ out.value = Nothing /\ out.deps = frame.deps
      /\ out.sent = Top.sent
  BY <1>6 DEF Result
<1> HIDE DEF out
<1>8. SaysSo(Nothing, Top.sent["content"], frame.deps, Top.cut, bodies, version)
  BY <1>2, <1>4, SaysOfSent
<1>9. CameTo(out, Top, bodies, version)
  BY <1>7, <1>8 DEF CameTo
<1>10. StackOK(stack', bodies, version) /\ OutcomeOK(outcome', stack', bodies, version)
  BY <1>1, <1>2, <1>3, <1>7, <1>9, GrownItself, IsOver DEF ArgInv
<1> QED BY <1>1, <1>5, <1>10 DEF ArgInv

LEMMA Retried ==
  ASSUME ArgInv, Retry
  PROVE  ArgInv'
<1> DEFINE frame == Folded(Top, outcome)
           g == [frame EXCEPT !.phase = "invoked", !.tries = @ + 1]
<1>1. /\ Answered /\ outcome.is = "failed" /\ stack' = Append(Below, g)
      /\ AttachmentsReopenable(Top) /\ Way[Top.ep] = "relay"
      /\ outcome' = [is |-> "none"] /\ answers' = answers /\ bodies' = bodies /\ version' = version
  BY DEF Retry, Becomes
<1>2. /\ stack # << >> /\ Top.phase = "asking" /\ FrameOK(frame, bodies, version)
      /\ frame \in Frame /\ frame.phase = "asking" /\ frame.sent = Top.sent /\ frame.cut = Top.cut
      /\ outcome \in Result \cup Failure
  BY <1>1, FoldedHeard
<1>3. /\ FrameOK(Top, bodies, version) /\ NamesOK(Top, bodies)
      /\ Top = stack[Len(stack)] /\ Below = SubSeq(stack, 1, Len(stack) - 1)
      /\ Carrying(Top) = CarryingOf(Top, bodies)
  BY <1>2, AtTop
<1>4. /\ CarryingOf(frame, bodies) = CarryingOf(Top, bodies) /\ (Safe(frame, bodies) <=> Safe(Top, bodies))
      /\ frame.run = Top.run
  <2>1. \A x \in {"args", "sent", "seen", "run", "cut", "phase", "ep", "tries", "got"} :
           frame[x] = Top[x]
    BY <1>2, <1>3, FoldedOK
  <2> QED BY <1>2, <1>3, <2>1, FoldedOK
<1>5. Safe(Top, bodies)
  BY <1>1, <1>3 DEF AttachmentsReopenable, Safe, CarryingOf, NamesOK, ArgInv, BodiesOK
<1> HIDE DEF frame
<1>6. /\ g \in Frame /\ g.args = frame.args /\ g.sent = frame.sent /\ g.seen = frame.seen
      /\ g.run = frame.run /\ g.cut = frame.cut /\ g.phase = "invoked" /\ g.ep = frame.ep
      /\ g.got = frame.got /\ g.deps = frame.deps /\ g.volatile = frame.volatile
  <2>1. frame.tries \in Nat /\ frame.tries + 1 \in Nat
    BY <1>2, FrameForm
  <2>2. PICK n \in Nat : n = frame.tries + 1
    BY <2>1
  <2>3. g = [frame EXCEPT !.phase = "invoked", !.tries = n]
    BY <2>2
  <2> HIDE DEF g
  <2> QED BY <1>2, <2>3 DEF Frame
<1> HIDE DEF g
<1>7. CarryingOf(g, bodies) = CarryingOf(frame, bodies) /\ (Safe(g, bodies) <=> Safe(frame, bodies))
  BY <1>6 DEF CarryingOf, Safe
<1>8. FrameOK(g, bodies, version)
  BY <1>2, <1>4, <1>5, <1>6, <1>7 DEF FrameOK, NamesOK, ValuesOK
<1>9. StackOK(stack', bodies, version)
  BY <1>1, <1>2, <1>3, <1>4, <1>6, <1>7, <1>8, TopChanges DEF ArgInv
<1> QED BY <1>1, <1>9, NoneIsFine DEF ArgInv

LEMMA PassedOn ==
  ASSUME ArgInv, PassOn
  PROVE  ArgInv'
<1> DEFINE frame == Folded(Top, outcome)
           out == [outcome EXCEPT !.volatile = frame.volatile, !.deps = frame.deps,
                                  !.ep = Top.ep, !.sent = Top.sent]
<1>1. /\ Answered /\ outcome.is = "failed" /\ stack' = Below /\ outcome' = out
      /\ answers' = answers /\ bodies' = bodies /\ version' = version
  BY DEF PassOn, Ends
<1>2. /\ stack # << >> /\ outcome \in Failure
      /\ frame \in Frame /\ frame.cut = Top.cut
      /\ outcome.why = "not found" =>
            Missing(Top.args["content"], frame.deps, Top.cut, version)
      /\ outcome.why = "conflict" => ~Safe(Top, bodies)
  <2>1. outcome \notin Result
    BY <1>1 DEF Result
  <2> QED BY <1>1, <2>1, FoldedHeard
<1>3. /\ Top \in Frame /\ Top = stack[Len(stack)] /\ Below = SubSeq(stack, 1, Len(stack) - 1)
  BY <1>2, AtTop
<1>4. frame.volatile \in BOOLEAN /\ frame.deps \in Deps /\ Top.ep \in Endpoints /\ Top.sent \in Args
  BY <1>2, <1>3, FrameForm
<1> HIDE DEF frame
<1>5. /\ out \in Failure /\ out.is = "failed" /\ out.why = outcome.why /\ out.deps = frame.deps
      /\ out.sent = Top.sent
  BY <1>2, <1>4 DEF Failure
<1> HIDE DEF out
<1>6. CameTo(out, Top, bodies, version)
  <2>1. /\ Alike(Top.args["content"], Top.sent["content"], bodies)
        /\ Comes(Top.args["content"], Top.sent["content"])
    BY <1>2, AtTop, FrameForm DEF ValuesOK
  <2> QED BY <1>2, <1>5, <2>1 DEF CameTo, Missing, Alike, Comes
<1>7. StackOK(stack', bodies, version) /\ OutcomeOK(outcome', stack', bodies, version)
  BY <1>1, <1>2, <1>3, <1>5, <1>6, GrownItself, IsOver DEF ArgInv
<1> QED BY <1>1, <1>7 DEF ArgInv

LEMMA Written ==
  ASSUME ArgInv, Write
  PROVE  ArgInv'
<1>1. /\ version < Len(Versions) /\ version' = version + 1 /\ bodies' = bodies /\ outcome' = outcome
      /\ answers' = [k \in { k \in DOMAIN answers : "x" \notin answers[k].deps } |-> answers[k]]
      /\ stack' = [i \in DOMAIN stack |-> CutFrame(stack[i])]
  BY DEF Write, CutFrame
<1>2. version' \in 0 .. Len(Versions)
  BY <1>1, ArgAssumption DEF ArgInv
<1>3. StackOK(stack', bodies, version') /\ OutcomeOK(outcome, stack', bodies, version')
  BY <1>1, StackCut, OutcomeCut DEF ArgInv
<1>4. AnswersOK(answers', bodies, version')
  BY <1>1, AnswersCut DEF ArgInv
<1> QED BY <1>1, <1>2, <1>3, <1>4 DEF ArgInv

-----------------------------------------------------------------------------
(* The invariant, and what follows from it *)

LEMMA ArgInvInit ==
  ArgInit => ArgInv
<1> SUFFICES ASSUME ArgInit
             PROVE  ArgInv
  OBVIOUS
<1>1. version \in 0 .. Len(Versions)
  BY ArgAssumption DEF ArgInit
<1>2. BodiesOK(bodies)
  BY DEF ArgInit, BodiesOK
<1>3. StackOK(stack, bodies, version)
  BY DEF ArgInit, StackOK
<1>4. OutcomeOK(outcome, stack, bodies, version)
  BY NoneIsFine DEF ArgInit
<1>5. AnswersOK(answers, bodies, version)
  BY DEF ArgInit, AnswersOK
<1> QED BY <1>1, <1>2, <1>3, <1>4, <1>5 DEF ArgInv

LEMMA ArgInvStep ==
  ArgInv /\ [ArgNext]_argVars => ArgInv'
<1> SUFFICES ASSUME ArgInv, [ArgNext]_argVars
             PROVE  ArgInv'
  OBVIOUS
<1>1. ASSUME NEW e \in Door, NEW c \in Payloads, Issue(e, Inline(c)) \/ Issue(e, ById(Digest(c)))
      PROVE  ArgInv'
  BY <1>1, Issued, PlainArgs
<1>2. ASSUME NEW e \in Door, Issue(e, Reference)
      PROVE  ArgInv'
  BY <1>2, Issued, PlainArgs
<1>3. ASSUME NEW e \in Door, NEW s \in {"once", "replay", "validated"}, NEW c \in Payloads,
             IssueAttached(e, s, c)
      PROVE  ArgInv'
  BY <1>3, IssuedAttached
<1>4. CASE NothingToCollect
  BY <1>4, NothingCollected
<1>5. CASE Collect
  BY <1>5, Collected
<1>6. ASSUME NEW why \in {"conflict", "over budget"}, CollectRefused(why)
      PROVE  ArgInv'
  BY <1>6, RefusalCollected
<1>7. CASE Hit
  BY <1>7, WasHit
<1>8. CASE Enter
  BY <1>8, Entered
<1>9. ASSUME NEW a \in {"content", "copy"}, SettleName(a) \/ SettleReferent(a) \/ ReferentMissing(a)
      PROVE  ArgInv'
  BY <1>9, SettledName, SettledReferent, MissedReferent
<1>10. ASSUME NEW a \in {"content", "copy"},
              \/ ReadInline(a) \/ ReadReference(a) \/ ReadAttached(a) \/ ReadSpent(a)
              \/ ReadHeld(a) \/ ReadUnheld(a)
       PROVE  ArgInv'
  BY <1>10, InlineRead, ReferenceRead, AttachedRead, SpentRead, HeldRead, UnheldRead
<1>11. CASE Answer
  BY <1>11, LeafAnswers
<1>12. CASE Fail
  BY <1>12, LeafFails
<1>13. CASE Ask
  BY <1>13, Asked
<1>14. CASE Return
  BY <1>14, Returned
<1>15. CASE FallBack
  BY <1>15, FellBack
<1>16. CASE Retry
  BY <1>16, Retried
<1>17. CASE PassOn
  BY <1>17, PassedOn
<1>18. CASE Write
  BY <1>18, Written
<1>19. ASSUME NEW c \in Payloads, PutContent(c) \/ ReleaseContent(c)
       PROVE  ArgInv'
  BY <1>19 DEF PutContent, ReleaseContent, ArgInv
<1>20. CASE UNCHANGED argVars
  BY <1>20 DEF argVars, ArgInv
<1> QED BY <1>1, <1>2, <1>3, <1>4, <1>5, <1>6, <1>7, <1>8, <1>9, <1>10, <1>11, <1>12, <1>13, <1>14,
           <1>15, <1>16, <1>17, <1>18, <1>19, <1>20 DEF ArgNext

LEMMA ArgInvHolds == ArgSpec => []ArgInv
BY ArgInvInit, ArgInvStep, PTL DEF ArgSpec

\* What is said of an argument is one of its meanings.
LEMMA SaidMeans ==
  ASSUME ArgInv, NEW value \in Got \cup {Nothing}, NEW args \in Args, NEW deps, NEW cut,
         SaysSo(value, args["content"], deps, cut, bodies, version)
  PROVE  /\ Says(value, args, DOMAIN Versions)
         /\ cut = FALSE => Says(value, args, {version} \ {0})
         /\ cut = FALSE /\ value = Nothing =>
               \/ args["content"].by = "reference" /\ version = 0
               \/ args["content"].by = "content"
<1>1. args["content"] \in Arg
  BY ArgsForm
<1>2. ASSUME value # Nothing, NEW a \in DOMAIN value
      PROVE  /\ value[a] \in Meanings(args["content"], DOMAIN Versions)
             /\ cut = FALSE => value[a] \in Meanings(args["content"], {version} \ {0})
  <2>1. ValueOK(value[a], args["content"], deps, cut, bodies, version)
    BY <1>2 DEF SaysSo
  <2>2. CASE args["content"].by = "inline"
    BY <2>1, <2>2 DEF ValueOK, Denoted, Meanings
  <2>3. CASE args["content"].by = "content"
    BY <2>1, <2>3 DEF ValueOK, Denoted, Meanings
  <2>4. CASE args["content"].by = "reference"
    <3>1. Fresh(value[a], deps, cut, version)
      BY <2>1, <2>4 DEF ValueOK
    <3>2. \A versions : Meanings(args["content"], versions) =
             {"the name"} \cup { Versions[v] : v \in versions }
      BY <2>4 DEF Meanings
    <3>3. version > 0 => version \in {version} \ {0}
      BY DEF ArgInv
    <3>4. CASE value[a] = "the name"
      BY <3>2, <3>4
    <3>5. CASE value[a] # "the name"
      <4>1. value[a] \in Read /\ (cut \/ (version > 0 /\ value[a] = Versions[version]))
        BY <3>1, <3>5 DEF Fresh
      <4>2. value[a] \in Meanings(args["content"], DOMAIN Versions)
        BY <3>2, <4>1 DEF Read
      <4>3. ASSUME cut = FALSE
            PROVE  value[a] \in Meanings(args["content"], {version} \ {0})
        <5>1. version > 0 /\ value[a] = Versions[version]
          BY <4>1, <4>3
        <5>2. value[a] \in { Versions[w] : w \in {version} \ {0} }
          BY <3>3, <5>1
        <5> QED BY <3>2, <5>2
      <4> QED BY <4>2, <4>3
    <3> QED BY <3>4, <3>5
  <2> QED BY <1>1, <2>2, <2>3, <2>4 DEF Arg
<1>3. cut = FALSE /\ value = Nothing =>
         \/ args["content"].by = "reference" /\ version = 0
         \/ args["content"].by = "content"
  BY DEF SaysSo, Missing
<1> QED BY <1>2, <1>3 DEF Says

(***************************************************************************)
(* However an argument travels to an endpoint (inline, as a reference the  *)
(* kernel settles, as a body attached to the run or held by its digest),   *)
(* through any relays, composites and retries, the answer is the one its   *)
(* value gives, and what is cached says what the referent holds now.  A    *)
(* fallback is cached only over a referent that is missing now, or over    *)
(* content that was not found when it was asked for, never over a value    *)
(* that came inline (settle_attached, References::settles, content_body,   *)
(* content_for, Recorded).                                                 *)
(***************************************************************************)
THEOREM AnsweredAsByValue == ArgSpec => []AnswersAsByValue
<1>1. ArgInv => AnswersAsByValue
  <2> SUFFICES ASSUME ArgInv
               PROVE  AnswersAsByValue
    OBVIOUS
  <2>1. ASSUME NEW k \in DOMAIN answers
        PROVE  /\ Says(answers[k].value, k.args, {version} \ {0})
               /\ answers[k].value = Nothing =>
                     \/ k.args["content"].by = "reference" /\ version = 0
                     \/ k.args["content"].by = "content"
    <3>1. AnswerOK(k, answers[k], bodies, version)
      BY DEF ArgInv, AnswersOK
    <3> QED BY <3>1, SaidMeans DEF AnswerOK
  <2>2. ASSUME outcome.is = "ok"
        PROVE  Says(outcome.value, outcome.sent, DOMAIN Versions)
    <3>1. outcome \in Result
      BY <2>2 DEF ArgInv, OutcomeOK, Unanswered, Failure
    <3>2. outcome.value \in Got \cup {Nothing} /\ outcome.sent \in Args
      BY <3>1 DEF Result
    <3>3. SaysSo(outcome.value, outcome.sent["content"], outcome.deps, TRUE, bodies, version)
      BY <2>2 DEF ArgInv, OutcomeOK
    <3> QED BY <3>2, <3>3, SaidMeans
  <2> QED BY <2>1, <2>2 DEF AnswersAsByValue
<1> QED BY <1>1, ArgInvHolds, PTL

(***************************************************************************)
(* No answer is kept under the nonce of an attachment, which no later      *)
(* request can carry, whether the endpoint read the body or only passed    *)
(* it on (note_one_shot_attachment).                                       *)
(***************************************************************************)
THEOREM NothingUnaskableStored == ArgSpec => []NothingUnaskableIsStored
<1>1. ArgInv => NothingUnaskableIsStored
  BY DEF ArgInv, AnswersOK, AnswerOK, Nonce, NothingUnaskableIsStored
<1> QED BY <1>1, ArgInvHolds, PTL

(***************************************************************************)
(* A request issued again because its attachments can be reopened never    *)
(* finds its body spent, however many relays and composites lie between    *)
(* (Invocation::attachments_reopenable).                                   *)
(***************************************************************************)
THEOREM RetriesFindBodies == ArgSpec => []RetriesFindTheBody
<1>1. ArgInv => RetriesFindTheBody
  <2> SUFFICES ASSUME ArgInv, Answered, Top.tries > 0, outcome.is = "failed"
               PROVE  outcome.why # "conflict"
    BY DEF RetriesFindTheBody
  <2>1. stack # << >>
    BY DEF Answered, At
  <2>2. Safe(Top, bodies)
    BY <2>1, AtTop DEF NamesOK
  <2> QED BY <2>2, FoldedHeard
<1> QED BY <1>1, ArgInvHolds, PTL
=============================================================================
