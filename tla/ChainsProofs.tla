---------------------------- MODULE ChainsProofs ----------------------------
EXTENDS Chains, TalliesProofs, SequenceTheorems, FiniteSetTheorems, TLAPS

(***************************************************************************)
(* What a chain answers, for any trees, seals and chains of them.          *)
(*                                                                         *)
(* A tree is described by what the trees below it are described by, so     *)
(* each description is shown to exist height by height, and what holds of  *)
(* all of them tree by tree, those below a tree before the tree.           *)
(*                                                                         *)
(* Of a tree: who answers stands in the level it is answered in, what its  *)
(* topology shows stands where it is shown, and where a tree shows         *)
(* everything a find leads to every answer, through mounts that let its    *)
(* name pass.  That is what the seal table is built from, so a sealed name *)
(* is answered where its owner is, and a table that was built has nothing  *)
(* to refuse later.                                                        *)
(*                                                                         *)
(* Of the chains: a corridor is known by its name or by a number given out *)
(* once, so what tells two corridors apart is in the fingerprint, and a    *)
(* chain that is confined is severed.  Those two are what the inductive    *)
(* invariant adds to what the chains are.                                  *)
(***************************************************************************)
\* The trees lower than m.
Low(m) == {s \in Trees : Height[s] < m}

LEMMA LowIs ==
  ASSUME SpaceAssumption
  PROVE  /\ Low(0) = {}
         /\ Low(Tallest + 1) = Trees
         /\ \A m \in Nat : \A s \in Low(m) : s \in Low(m + 1)
         /\ \A m \in Nat : \A s \in Low(m + 1) : \A t \in Trees : Height[t] < Height[s] => t \in Low(m)
         /\ \A m : Low(m) \subseteq Trees
BY DEF SpaceAssumption, Low

\* A set that has each tree when it has those below it has them all.
LEMMA EveryTree ==
  ASSUME SpaceAssumption, NEW T,
         \A s \in Trees : (\A t \in Trees : Height[t] < Height[s] => t \in T) => s \in T
  PROVE  Trees \subseteq T
<1> SUFFICES ASSUME NEW s \in Trees, s \notin T PROVE FALSE
  OBVIOUS
<1> DEFINE H == {m \in Nat : \E t \in Trees : t \notin T /\ Height[t] = m}
<1>1. Height[s] \in H
  BY DEF SpaceAssumption
<1>2. PICK m \in H : \A k \in H : m <= k
  <2> HIDE DEF H
  <2>1. H \in SUBSET Nat /\ H # {}
    BY <1>1 DEF H
  <2> QED
    BY <2>1, LeastOf
<1>3. PICK t \in Trees : t \notin T /\ Height[t] = m
  BY <1>2
<1>4. \A u \in Trees : Height[u] < Height[t] => u \in T
  <2> SUFFICES ASSUME NEW u \in Trees, Height[u] < Height[t], u \notin T PROVE FALSE
    OBVIOUS
  <2>1. Height[u] \in H /\ m \in Nat /\ Height[u] \in Nat
    BY <1>2 DEF SpaceAssumption
  <2> QED
    BY <1>2, <1>3, <2>1
<1> QED
  BY <1>3, <1>4

LEMMA TreeIs ==
  ASSUME SpaceAssumption, NEW s \in Trees
  PROVE  /\ s.kind \in {"doors", "mount", "fallback", "limit", "level", "rewrite", "alias", "opaque"}
         /\ s.kind = "doors" => DOMAIN s.doors \subseteq Nat /\ \A i \in DOMAIN s.doors : IsDoor(s.doors[i])
         /\ s.kind = "mount" => s.prefix \in Texts /\ Below(s.inner, s)
         /\ s.kind = "fallback" =>
              DOMAIN s.spaces \subseteq Nat /\ \A i \in DOMAIN s.spaces : Below(s.spaces[i], s)
         /\ s.kind = "level" => s.serial \in DOMAIN LevelOf /\ Below(LevelOf[s.serial].inner, s)
         /\ s.kind \in {"rewrite", "alias"} => IsRule(s.rule) /\ Below(s.inner, s)
         /\ s.kind = "opaque" => Below(s.inner, s)
<1>1. IsTree(s)
  BY DEF SpaceAssumption
<1> QED
  BY <1>1 DEF IsTree

LEMMA LevelIs ==
  ASSUME SpaceAssumption, NEW l \in DOMAIN LevelOf
  PROVE  /\ LevelOf[l].name \notin {"core", "host"}
         /\ LevelOf[l].seals \subseteq Texts
         /\ LevelOf[l].inner \in Trees
         /\ l # NoValue
BY DEF SpaceAssumption

-----------------------------------------------------------------------------
(* What each kind of tree answers, shows and holds.                          *)

LEMMA AnswerIs ==
  ASSUME NEW g, NEW s, NEW n
  PROVE  /\ s.kind = "doors" => Answer(g, s, n) = FirstDoor(s.doors, n)
         /\ s.kind = "mount" =>
              Answer(g, s, n) = IF StartsWith(n, s.prefix) THEN g[s.inner][n] ELSE Miss
         /\ s.kind = "limit" =>
              Answer(g, s, n) = IF StartsWith(n, s.prefix) THEN Resolved("bottom") ELSE Miss
         /\ s.kind = "level" => Answer(g, s, n) = Within(g[LevelOf[s.serial].inner][n], s.serial)
         /\ s.kind \in {"rewrite", "alias"} => Answer(g, s, n) = Rewritten(g[s.inner], s.rule, n)
         /\ s.kind = "opaque" => Answer(g, s, n) = g[s.inner][n]
BY Zenon DEF Answer

LEMMA AnswerOfFallback ==
  ASSUME NEW g, NEW s, NEW n, s.kind = "fallback"
  PROVE  Answer(g, s, n) = FirstHit([i \in DOMAIN s.spaces |-> g[s.spaces[i]][n]])
BY Zenon DEF Answer

LEMMA ShowIs ==
  ASSUME NEW g, NEW s
  PROVE  /\ s.kind = "doors" => Show(g, s) = { FoundDoor(s.doors[i]) : i \in DOMAIN s.doors }
         /\ s.kind = "mount" => Show(g, s) = { Mounted(f, s.prefix) : f \in g[s.inner] }
         /\ s.kind = "fallback" => Show(g, s) = UNION { g[s.spaces[i]] : i \in DOMAIN s.spaces }
         /\ s.kind = "level" =>
              Show(g, s) = {FoundLevel(s.serial)}
                \cup { Enclosed(f, LevelOf[s.serial].name) : f \in g[LevelOf[s.serial].inner] }
         /\ s.kind = "alias" =>
              Show(g, s) = { FoundDoor([text |-> n, match |-> "exact"]) : n \in DOMAIN s.rule } \cup g[s.inner]
         /\ s.kind = "rewrite" => Show(g, s) = g[s.inner]
         /\ s.kind \in {"limit", "opaque"} => Show(g, s) = {}
BY Zenon DEF Show

LEMMA StandIs ==
  ASSUME NEW g, NEW s
  PROVE  /\ s.kind = "doors" => Stand(g, s) = { <<s.doors[i].id, NoValue>> : i \in DOMAIN s.doors }
         /\ s.kind = "fallback" => Stand(g, s) = UNION { g[s.spaces[i]] : i \in DOMAIN s.spaces }
         /\ s.kind = "limit" => Stand(g, s) = {}
         /\ s.kind = "level" =>
              Stand(g, s) = { <<p[1], IF p[2] = NoValue THEN s.serial ELSE p[2]>> :
                                p \in g[LevelOf[s.serial].inner] }
         /\ s.kind \in {"mount", "rewrite", "alias", "opaque"} => Stand(g, s) = g[s.inner]
BY Zenon DEF Stand

LEMMA ShowAllIs ==
  ASSUME NEW g, NEW s
  PROVE  /\ s.kind \in {"doors", "limit"} => ShowAll(g, s) = TRUE
         /\ s.kind = "mount" => ShowAll(g, s) = g[s.inner]
         /\ s.kind = "fallback" => ShowAll(g, s) = (\A i \in DOMAIN s.spaces : g[s.spaces[i]])
         /\ s.kind = "level" => ShowAll(g, s) = g[LevelOf[s.serial].inner]
         /\ s.kind \in {"rewrite", "alias", "opaque"} => ShowAll(g, s) = FALSE
BY Zenon DEF ShowAll

LEMMA AnswersLocal ==
  ASSUME SpaceAssumption, NEW s \in Trees, NEW g, NEW h,
         \A t \in Trees : Height[t] < Height[s] => h[t] = g[t]
  PROVE  [n \in Texts |-> Answer(g, s, n)] = [n \in Texts |-> Answer(h, s, n)]
<1> SUFFICES ASSUME NEW n \in Texts PROVE Answer(g, s, n) = Answer(h, s, n)
  OBVIOUS
<1>1. \A t : Below(t, s) => h[t] = g[t]
  BY DEF Below
<1>2. CASE s.kind = "fallback"
  <2>1. \A i \in DOMAIN s.spaces : g[s.spaces[i]][n] = h[s.spaces[i]][n]
    BY <1>1, <1>2, TreeIs
  <2>2. Answer(g, s, n) = FirstHit([i \in DOMAIN s.spaces |-> g[s.spaces[i]][n]])
    BY <1>2, AnswerOfFallback
  <2>3. Answer(h, s, n) = FirstHit([i \in DOMAIN s.spaces |-> h[s.spaces[i]][n]])
    BY <1>2, AnswerOfFallback
  <2>4. [i \in DOMAIN s.spaces |-> g[s.spaces[i]][n]] = [i \in DOMAIN s.spaces |-> h[s.spaces[i]][n]]
    BY <2>1
  <2> QED
    BY <2>2, <2>3, <2>4
<1>3. CASE s.kind = "mount"
  <2>1. g[s.inner] = h[s.inner]
    BY <1>1, <1>3, TreeIs
  <2>2. Answer(g, s, n) = IF StartsWith(n, s.prefix) THEN g[s.inner][n] ELSE Miss
    BY <1>3, AnswerIs
  <2>3. Answer(h, s, n) = IF StartsWith(n, s.prefix) THEN h[s.inner][n] ELSE Miss
    BY <1>3, AnswerIs
  <2> QED
    BY <2>1, <2>2, <2>3
<1>4. CASE s.kind \in {"rewrite", "alias"}
  <2>1. g[s.inner] = h[s.inner]
    BY <1>1, <1>4, TreeIs
  <2>2. Answer(g, s, n) = Rewritten(g[s.inner], s.rule, n)
    BY <1>4, AnswerIs
  <2>3. Answer(h, s, n) = Rewritten(h[s.inner], s.rule, n)
    BY <1>4, AnswerIs
  <2> QED
    BY <2>1, <2>2, <2>3
<1>5. CASE s.kind = "opaque"
  <2>1. g[s.inner] = h[s.inner]
    BY <1>1, <1>5, TreeIs
  <2>2. Answer(g, s, n) = g[s.inner][n]
    BY <1>5, AnswerIs
  <2>3. Answer(h, s, n) = h[s.inner][n]
    BY <1>5, AnswerIs
  <2> QED
    BY <2>1, <2>2, <2>3
<1>6. CASE s.kind = "level"
  <2>1. g[LevelOf[s.serial].inner] = h[LevelOf[s.serial].inner]
    BY <1>1, <1>6, TreeIs
  <2>2. Answer(g, s, n) = Within(g[LevelOf[s.serial].inner][n], s.serial)
    BY <1>6, AnswerIs
  <2>3. Answer(h, s, n) = Within(h[LevelOf[s.serial].inner][n], s.serial)
    BY <1>6, AnswerIs
  <2> QED
    BY <2>1, <2>2, <2>3
<1>7. CASE s.kind = "doors"
  <2>1. Answer(g, s, n) = FirstDoor(s.doors, n)
    BY <1>7, AnswerIs
  <2>2. Answer(h, s, n) = FirstDoor(s.doors, n)
    BY <1>7, AnswerIs
  <2> QED
    BY <2>1, <2>2
<1>8. CASE s.kind = "limit"
  <2>1. Answer(g, s, n) = IF StartsWith(n, s.prefix) THEN Resolved("bottom") ELSE Miss
    BY <1>8, AnswerIs
  <2>2. Answer(h, s, n) = IF StartsWith(n, s.prefix) THEN Resolved("bottom") ELSE Miss
    BY <1>8, AnswerIs
  <2> QED
    BY <2>1, <2>2
<1> QED
  BY <1>2, <1>3, <1>4, <1>5, <1>6, <1>7, <1>8, TreeIs

LEMMA ShownLocal ==
  ASSUME SpaceAssumption, NEW s \in Trees, NEW g, NEW h,
         \A t \in Trees : Height[t] < Height[s] => h[t] = g[t]
  PROVE  Show(g, s) = Show(h, s)
<1>1. \A t : Below(t, s) => h[t] = g[t]
  BY DEF Below
<1>2. CASE s.kind = "fallback"
  <2>1. \A i \in DOMAIN s.spaces : g[s.spaces[i]] = h[s.spaces[i]]
    BY <1>1, <1>2, TreeIs
  <2>2. Show(g, s) = UNION { g[s.spaces[i]] : i \in DOMAIN s.spaces }
    BY <1>2, ShowIs
  <2>3. Show(h, s) = UNION { h[s.spaces[i]] : i \in DOMAIN s.spaces }
    BY <1>2, ShowIs
  <2>4. (UNION { g[s.spaces[i]] : i \in DOMAIN s.spaces }) = (UNION { h[s.spaces[i]] : i \in DOMAIN s.spaces })
    BY <2>1
  <2> QED
    BY <2>2, <2>3, <2>4
<1>3. CASE s.kind = "mount"
  <2>1. g[s.inner] = h[s.inner]
    BY <1>1, <1>3, TreeIs
  <2>2. Show(g, s) = { Mounted(f, s.prefix) : f \in g[s.inner] }
    BY <1>3, ShowIs
  <2>3. Show(h, s) = { Mounted(f, s.prefix) : f \in h[s.inner] }
    BY <1>3, ShowIs
  <2> QED
    BY <2>1, <2>2, <2>3
<1>4. CASE s.kind = "alias"
  <2>1. g[s.inner] = h[s.inner]
    BY <1>1, <1>4, TreeIs
  <2>2. Show(g, s) = { FoundDoor([text |-> n, match |-> "exact"]) : n \in DOMAIN s.rule } \cup g[s.inner]
    BY <1>4, ShowIs
  <2>3. Show(h, s) = { FoundDoor([text |-> n, match |-> "exact"]) : n \in DOMAIN s.rule } \cup h[s.inner]
    BY <1>4, ShowIs
  <2> QED
    BY <2>1, <2>2, <2>3
<1>5. CASE s.kind = "rewrite"
  <2>1. g[s.inner] = h[s.inner]
    BY <1>1, <1>5, TreeIs
  <2>2. Show(g, s) = g[s.inner]
    BY <1>5, ShowIs
  <2>3. Show(h, s) = h[s.inner]
    BY <1>5, ShowIs
  <2> QED
    BY <2>1, <2>2, <2>3
<1>6. CASE s.kind = "level"
  <2>1. g[LevelOf[s.serial].inner] = h[LevelOf[s.serial].inner]
    BY <1>1, <1>6, TreeIs
  <2>2. Show(g, s) = {FoundLevel(s.serial)}
               \cup { Enclosed(f, LevelOf[s.serial].name) : f \in g[LevelOf[s.serial].inner] }
    BY <1>6, ShowIs
  <2>3. Show(h, s) = {FoundLevel(s.serial)}
               \cup { Enclosed(f, LevelOf[s.serial].name) : f \in h[LevelOf[s.serial].inner] }
    BY <1>6, ShowIs
  <2> QED
    BY <2>1, <2>2, <2>3
<1>7. CASE s.kind = "doors"
  <2>1. Show(g, s) = { FoundDoor(s.doors[i]) : i \in DOMAIN s.doors }
    BY <1>7, ShowIs
  <2>2. Show(h, s) = { FoundDoor(s.doors[i]) : i \in DOMAIN s.doors }
    BY <1>7, ShowIs
  <2> QED
    BY <2>1, <2>2
<1>8. CASE s.kind \in {"limit", "opaque"}
  <2>1. Show(g, s) = {}
    BY <1>8, ShowIs
  <2>2. Show(h, s) = {}
    BY <1>8, ShowIs
  <2> QED
    BY <2>1, <2>2
<1> QED
  BY <1>2, <1>3, <1>4, <1>5, <1>6, <1>7, <1>8, TreeIs

LEMMA DoorwaysLocal ==
  ASSUME SpaceAssumption, NEW s \in Trees, NEW g, NEW h,
         \A t \in Trees : Height[t] < Height[s] => h[t] = g[t]
  PROVE  Stand(g, s) = Stand(h, s)
<1>1. \A t : Below(t, s) => h[t] = g[t]
  BY DEF Below
<1>2. CASE s.kind = "fallback"
  <2>1. \A i \in DOMAIN s.spaces : g[s.spaces[i]] = h[s.spaces[i]]
    BY <1>1, <1>2, TreeIs
  <2>2. Stand(g, s) = UNION { g[s.spaces[i]] : i \in DOMAIN s.spaces }
    BY <1>2, StandIs
  <2>3. Stand(h, s) = UNION { h[s.spaces[i]] : i \in DOMAIN s.spaces }
    BY <1>2, StandIs
  <2>4. (UNION { g[s.spaces[i]] : i \in DOMAIN s.spaces }) = (UNION { h[s.spaces[i]] : i \in DOMAIN s.spaces })
    BY <2>1
  <2> QED
    BY <2>2, <2>3, <2>4
<1>3. CASE s.kind \in {"mount", "rewrite", "alias", "opaque"}
  <2>1. g[s.inner] = h[s.inner]
    BY <1>1, <1>3, TreeIs
  <2>2. Stand(g, s) = g[s.inner]
    BY <1>3, StandIs
  <2>3. Stand(h, s) = h[s.inner]
    BY <1>3, StandIs
  <2> QED
    BY <2>1, <2>2, <2>3
<1>4. CASE s.kind = "level"
  <2>1. g[LevelOf[s.serial].inner] = h[LevelOf[s.serial].inner]
    BY <1>1, <1>4, TreeIs
  <2>2. Stand(g, s) = { <<p[1], IF p[2] = NoValue THEN s.serial ELSE p[2]>> : p \in g[LevelOf[s.serial].inner] }
    BY <1>4, StandIs
  <2>3. Stand(h, s) = { <<p[1], IF p[2] = NoValue THEN s.serial ELSE p[2]>> : p \in h[LevelOf[s.serial].inner] }
    BY <1>4, StandIs
  <2> QED
    BY <2>1, <2>2, <2>3
<1>5. CASE s.kind = "doors"
  <2>1. Stand(g, s) = { <<s.doors[i].id, NoValue>> : i \in DOMAIN s.doors }
    BY <1>5, StandIs
  <2>2. Stand(h, s) = { <<s.doors[i].id, NoValue>> : i \in DOMAIN s.doors }
    BY <1>5, StandIs
  <2> QED
    BY <2>1, <2>2
<1>6. CASE s.kind = "limit"
  <2>1. Stand(g, s) = {}
    BY <1>6, StandIs
  <2>2. Stand(h, s) = {}
    BY <1>6, StandIs
  <2> QED
    BY <2>1, <2>2
<1> QED
  BY <1>2, <1>3, <1>4, <1>5, <1>6, TreeIs

LEMMA ShowsAllLocal ==
  ASSUME SpaceAssumption, NEW s \in Trees, NEW g, NEW h,
         \A t \in Trees : Height[t] < Height[s] => h[t] = g[t]
  PROVE  ShowAll(g, s) = ShowAll(h, s)
<1>1. \A t : Below(t, s) => h[t] = g[t]
  BY DEF Below
<1>2. CASE s.kind = "fallback"
  <2>1. \A i \in DOMAIN s.spaces : g[s.spaces[i]] = h[s.spaces[i]]
    BY <1>1, <1>2, TreeIs
  <2>2. ShowAll(g, s) = (\A i \in DOMAIN s.spaces : g[s.spaces[i]])
    BY <1>2, ShowAllIs
  <2>3. ShowAll(h, s) = (\A i \in DOMAIN s.spaces : h[s.spaces[i]])
    BY <1>2, ShowAllIs
  <2>4. ((\A i \in DOMAIN s.spaces : g[s.spaces[i]])) = ((\A i \in DOMAIN s.spaces : h[s.spaces[i]]))
    BY <2>1
  <2> QED
    BY <2>2, <2>3, <2>4
<1>3. CASE s.kind = "mount"
  <2>1. g[s.inner] = h[s.inner]
    BY <1>1, <1>3, TreeIs
  <2>2. ShowAll(g, s) = g[s.inner]
    BY <1>3, ShowAllIs
  <2>3. ShowAll(h, s) = h[s.inner]
    BY <1>3, ShowAllIs
  <2> QED
    BY <2>1, <2>2, <2>3
<1>4. CASE s.kind = "level"
  <2>1. g[LevelOf[s.serial].inner] = h[LevelOf[s.serial].inner]
    BY <1>1, <1>4, TreeIs
  <2>2. ShowAll(g, s) = g[LevelOf[s.serial].inner]
    BY <1>4, ShowAllIs
  <2>3. ShowAll(h, s) = h[LevelOf[s.serial].inner]
    BY <1>4, ShowAllIs
  <2> QED
    BY <2>1, <2>2, <2>3
<1>5. CASE s.kind \in {"doors", "limit"}
  <2>1. ShowAll(g, s) = TRUE
    BY <1>5, ShowAllIs
  <2>2. ShowAll(h, s) = TRUE
    BY <1>5, ShowAllIs
  <2> QED
    BY <2>1, <2>2
<1>6. CASE s.kind \in {"rewrite", "alias", "opaque"}
  <2>1. ShowAll(g, s) = FALSE
    BY <1>6, ShowAllIs
  <2>2. ShowAll(h, s) = FALSE
    BY <1>6, ShowAllIs
  <2> QED
    BY <2>1, <2>2
<1> QED
  BY <1>2, <1>3, <1>4, <1>5, <1>6, TreeIs

LEMMA AnswersAre ==
  ASSUME SpaceAssumption
  PROVE  \A s \in Trees : Answers[s] = [n \in Texts |-> Answer(Answers, s, n)]
<1> DEFINE Rule(g, m) == [s \in Low(m) |-> [n \in Texts |-> Answer(g, s, n)]]
           Exists(m) == \E g : g = Rule(g, m)
           whole == CHOOSE g : g = [s \in Trees |-> [n \in Texts |-> Answer(g, s, n)]]
<1>1. Answers = whole
  BY DEF Answers
<1>2. Exists(0)
  <2> DEFINE g == [s \in {} |-> {}]
  <2>1. g = Rule(g, 0)
    BY LowIs
  <2> QED
    BY <2>1
<1>3. ASSUME NEW m \in Nat, Exists(m) PROVE Exists(m + 1)
  <2>1. PICK g : g = Rule(g, m)
    BY <1>3
  <2> DEFINE h == [s \in Low(m + 1) |-> [n \in Texts |-> Answer(g, s, n)]]
  <2>2. \A s \in Low(m) : s \in Low(m + 1) /\ h[s] = g[s]
    <3>1. \A s \in Low(m) : s \in Low(m + 1)
      BY LowIs
    <3>2. \A s \in Low(m) : g[s] = [n \in Texts |-> Answer(g, s, n)]
      BY <2>1
    <3> QED
      BY <3>1, <3>2
  <2>3. ASSUME NEW s \in Low(m + 1) PROVE [n \in Texts |-> Answer(g, s, n)] = [n \in Texts |-> Answer(h, s, n)]
    <3> HIDE DEF h
    <3>1. s \in Trees /\ \A t \in Trees : Height[t] < Height[s] => h[t] = g[t]
      BY <2>2, LowIs
    <3> QED
      BY <3>1, AnswersLocal
  <2>4. h = Rule(h, m + 1)
    BY <2>3
  <2> QED
    BY <2>4
<1> HIDE DEF Exists
<1>4. Exists(Tallest + 1)
  <2> DEFINE S == {m \in Nat : Exists(m)}
  <2>1. S \in SUBSET Nat /\ 0 \in S /\ \A m \in S : m + 1 \in S
    BY <1>2, <1>3
  <2>2. S = Nat
    <3> HIDE DEF S
    <3> QED
      BY <2>1, EveryNat
  <2>3. Tallest + 1 \in Nat
    BY DEF SpaceAssumption
  <2> QED
    BY <2>2, <2>3
<1>5. Trees = Low(Tallest + 1)
  BY LowIs
<1>6. \E g : g = [s \in Trees |-> [n \in Texts |-> Answer(g, s, n)]]
  BY <1>4, <1>5 DEF Exists
<1>7. whole = [s \in Trees |-> [n \in Texts |-> Answer(whole, s, n)]]
  BY <1>6
<1> HIDE DEF whole
<1> QED
  BY <1>1, <1>7

LEMMA ShownAre ==
  ASSUME SpaceAssumption
  PROVE  \A s \in Trees : Shown[s] = Show(Shown, s)
<1> DEFINE Rule(g, m) == [s \in Low(m) |-> Show(g, s)]
           Exists(m) == \E g : g = Rule(g, m)
           whole == CHOOSE g : g = [s \in Trees |-> Show(g, s)]
<1>1. Shown = whole
  BY DEF Shown
<1>2. Exists(0)
  <2> DEFINE g == [s \in {} |-> {}]
  <2>1. g = Rule(g, 0)
    BY LowIs
  <2> QED
    BY <2>1
<1>3. ASSUME NEW m \in Nat, Exists(m) PROVE Exists(m + 1)
  <2>1. PICK g : g = Rule(g, m)
    BY <1>3
  <2> DEFINE h == [s \in Low(m + 1) |-> Show(g, s)]
  <2>2. \A s \in Low(m) : s \in Low(m + 1) /\ h[s] = g[s]
    <3>1. \A s \in Low(m) : s \in Low(m + 1)
      BY LowIs
    <3>2. \A s \in Low(m) : g[s] = Show(g, s)
      BY <2>1
    <3> QED
      BY <3>1, <3>2
  <2>3. ASSUME NEW s \in Low(m + 1) PROVE Show(g, s) = Show(h, s)
    <3> HIDE DEF h
    <3>1. s \in Trees /\ \A t \in Trees : Height[t] < Height[s] => h[t] = g[t]
      BY <2>2, LowIs
    <3> QED
      BY <3>1, ShownLocal
  <2>4. h = Rule(h, m + 1)
    BY <2>3
  <2> QED
    BY <2>4
<1> HIDE DEF Exists
<1>4. Exists(Tallest + 1)
  <2> DEFINE S == {m \in Nat : Exists(m)}
  <2>1. S \in SUBSET Nat /\ 0 \in S /\ \A m \in S : m + 1 \in S
    BY <1>2, <1>3
  <2>2. S = Nat
    <3> HIDE DEF S
    <3> QED
      BY <2>1, EveryNat
  <2>3. Tallest + 1 \in Nat
    BY DEF SpaceAssumption
  <2> QED
    BY <2>2, <2>3
<1>5. Trees = Low(Tallest + 1)
  BY LowIs
<1>6. \E g : g = [s \in Trees |-> Show(g, s)]
  BY <1>4, <1>5 DEF Exists
<1>7. whole = [s \in Trees |-> Show(whole, s)]
  BY <1>6
<1> HIDE DEF whole
<1> QED
  BY <1>1, <1>7

LEMMA DoorwaysAre ==
  ASSUME SpaceAssumption
  PROVE  \A s \in Trees : Doorways[s] = Stand(Doorways, s)
<1> DEFINE Rule(g, m) == [s \in Low(m) |-> Stand(g, s)]
           Exists(m) == \E g : g = Rule(g, m)
           whole == CHOOSE g : g = [s \in Trees |-> Stand(g, s)]
<1>1. Doorways = whole
  BY DEF Doorways
<1>2. Exists(0)
  <2> DEFINE g == [s \in {} |-> {}]
  <2>1. g = Rule(g, 0)
    BY LowIs
  <2> QED
    BY <2>1
<1>3. ASSUME NEW m \in Nat, Exists(m) PROVE Exists(m + 1)
  <2>1. PICK g : g = Rule(g, m)
    BY <1>3
  <2> DEFINE h == [s \in Low(m + 1) |-> Stand(g, s)]
  <2>2. \A s \in Low(m) : s \in Low(m + 1) /\ h[s] = g[s]
    <3>1. \A s \in Low(m) : s \in Low(m + 1)
      BY LowIs
    <3>2. \A s \in Low(m) : g[s] = Stand(g, s)
      BY <2>1
    <3> QED
      BY <3>1, <3>2
  <2>3. ASSUME NEW s \in Low(m + 1) PROVE Stand(g, s) = Stand(h, s)
    <3> HIDE DEF h
    <3>1. s \in Trees /\ \A t \in Trees : Height[t] < Height[s] => h[t] = g[t]
      BY <2>2, LowIs
    <3> QED
      BY <3>1, DoorwaysLocal
  <2>4. h = Rule(h, m + 1)
    BY <2>3
  <2> QED
    BY <2>4
<1> HIDE DEF Exists
<1>4. Exists(Tallest + 1)
  <2> DEFINE S == {m \in Nat : Exists(m)}
  <2>1. S \in SUBSET Nat /\ 0 \in S /\ \A m \in S : m + 1 \in S
    BY <1>2, <1>3
  <2>2. S = Nat
    <3> HIDE DEF S
    <3> QED
      BY <2>1, EveryNat
  <2>3. Tallest + 1 \in Nat
    BY DEF SpaceAssumption
  <2> QED
    BY <2>2, <2>3
<1>5. Trees = Low(Tallest + 1)
  BY LowIs
<1>6. \E g : g = [s \in Trees |-> Stand(g, s)]
  BY <1>4, <1>5 DEF Exists
<1>7. whole = [s \in Trees |-> Stand(whole, s)]
  BY <1>6
<1> HIDE DEF whole
<1> QED
  BY <1>1, <1>7

LEMMA ShowsAllAre ==
  ASSUME SpaceAssumption
  PROVE  \A s \in Trees : ShowsAll[s] = ShowAll(ShowsAll, s)
<1> DEFINE Rule(g, m) == [s \in Low(m) |-> ShowAll(g, s)]
           Exists(m) == \E g : g = Rule(g, m)
           whole == CHOOSE g : g = [s \in Trees |-> ShowAll(g, s)]
<1>1. ShowsAll = whole
  BY DEF ShowsAll
<1>2. Exists(0)
  <2> DEFINE g == [s \in {} |-> {}]
  <2>1. g = Rule(g, 0)
    BY LowIs
  <2> QED
    BY <2>1
<1>3. ASSUME NEW m \in Nat, Exists(m) PROVE Exists(m + 1)
  <2>1. PICK g : g = Rule(g, m)
    BY <1>3
  <2> DEFINE h == [s \in Low(m + 1) |-> ShowAll(g, s)]
  <2>2. \A s \in Low(m) : s \in Low(m + 1) /\ h[s] = g[s]
    <3>1. \A s \in Low(m) : s \in Low(m + 1)
      BY LowIs
    <3>2. \A s \in Low(m) : g[s] = ShowAll(g, s)
      BY <2>1
    <3> QED
      BY <3>1, <3>2
  <2>3. ASSUME NEW s \in Low(m + 1) PROVE ShowAll(g, s) = ShowAll(h, s)
    <3> HIDE DEF h
    <3>1. s \in Trees /\ \A t \in Trees : Height[t] < Height[s] => h[t] = g[t]
      BY <2>2, LowIs
    <3> QED
      BY <3>1, ShowsAllLocal
  <2>4. h = Rule(h, m + 1)
    BY <2>3
  <2> QED
    BY <2>4
<1> HIDE DEF Exists
<1>4. Exists(Tallest + 1)
  <2> DEFINE S == {m \in Nat : Exists(m)}
  <2>1. S \in SUBSET Nat /\ 0 \in S /\ \A m \in S : m + 1 \in S
    BY <1>2, <1>3
  <2>2. S = Nat
    <3> HIDE DEF S
    <3> QED
      BY <2>1, EveryNat
  <2>3. Tallest + 1 \in Nat
    BY DEF SpaceAssumption
  <2> QED
    BY <2>2, <2>3
<1>5. Trees = Low(Tallest + 1)
  BY LowIs
<1>6. \E g : g = [s \in Trees |-> ShowAll(g, s)]
  BY <1>4, <1>5 DEF Exists
<1>7. whole = [s \in Trees |-> ShowAll(whole, s)]
  BY <1>6
<1> HIDE DEF whole
<1> QED
  BY <1>1, <1>7

-----------------------------------------------------------------------------
(* Answers.                                                                  *)

LEMMA FirstDoorIs ==
  ASSUME NEW doors, DOMAIN doors \subseteq Nat, NEW n
  PROVE  \/ FirstDoor(doors, n) = Miss
         \/ \E i \in DOMAIN doors : MatchIri(doors[i], n) /\ FirstDoor(doors, n) = Resolved(doors[i].id)
<1> DEFINE M == { i \in DOMAIN doors : MatchIri(doors[i], n) }
<1>1. CASE M = {}
  BY <1>1 DEF FirstDoor
<1>2. CASE M # {}
  <2>1. M \in SUBSET Nat
    OBVIOUS
  <2> HIDE DEF M
  <2>2. Min(M) \in M
    BY <1>2, <2>1, LeastOf DEF Min
  <2> QED
    BY <1>2, <2>2 DEF FirstDoor, M
<1> QED
  BY <1>1, <1>2

LEMMA FirstHitIs ==
  ASSUME NEW answers, DOMAIN answers \subseteq Nat
  PROVE  \/ FirstHit(answers) = Miss
         \/ \E i \in DOMAIN answers : answers[i].hit /\ FirstHit(answers) = answers[i]
<1> DEFINE M == { i \in DOMAIN answers : answers[i].hit }
<1>1. CASE M = {}
  BY <1>1 DEF FirstHit
<1>2. CASE M # {}
  <2>1. M \in SUBSET Nat
    OBVIOUS
  <2> HIDE DEF M
  <2>2. Min(M) \in M
    BY <1>2, <2>1, LeastOf DEF Min
  <2> QED
    BY <1>2, <2>2 DEF FirstHit, M
<1> QED
  BY <1>1, <1>2

\* A hit: its door, the name it was rewritten to, and the levels on its path.
IsHit(r) ==
  /\ r = [hit |-> TRUE, door |-> r.door, canonical |-> r.canonical, levels |-> r.levels]
  /\ r.levels \in Seq(DOMAIN LevelOf)
  /\ r.canonical \in Texts \cup {NoValue}

\* A hit on a door stands where its path says: directly in the innermost level,
\* and every level on the path is within the tree.
InPlace(r, s) ==
  /\ IsLimiter(r) \/ r.door \in DoorsOfSpace(s)
  /\ IsLimiter(r) \/ r.levels # << >> \/ <<r.door, NoValue>> \in Doorways[s]
  /\ IsLimiter(r) \/ r.levels = << >> \/ <<r.door, NoValue>> \in Doorways[LevelOf[r.levels[1]].inner]
  /\ \A i \in DOMAIN r.levels : DoorsOfSpace(LevelOf[r.levels[i]].inner) \subseteq DoorsOfSpace(s)

HitIn(r, s) == IsHit(r) /\ InPlace(r, s)

AnswerIn(r, s) == r = Miss \/ HitIn(r, s)

\* What stands below a tree stands in it.
LEMMA DoorwaysBelow ==
  ASSUME SpaceAssumption, NEW s \in Trees
  PROVE  /\ s.kind = "fallback" => \A i \in DOMAIN s.spaces :
              Doorways[s.spaces[i]] \subseteq Doorways[s]
         /\ s.kind \in {"mount", "rewrite", "alias", "opaque"} => Doorways[s.inner] = Doorways[s]
         /\ s.kind = "level" => \A p \in Doorways[LevelOf[s.serial].inner] :
              <<p[1], IF p[2] = NoValue THEN s.serial ELSE p[2]>> \in Doorways[s]
<1>1. Doorways[s] = Stand(Doorways, s)
  BY DoorwaysAre
<1>2. ASSUME s.kind = "fallback" PROVE \A i \in DOMAIN s.spaces : Doorways[s.spaces[i]] \subseteq Doorways[s]
  <2>1. Stand(Doorways, s) = UNION { Doorways[s.spaces[i]] : i \in DOMAIN s.spaces }
    BY <1>2, StandIs
  <2> QED
    BY <1>1, <2>1
<1>3. ASSUME s.kind \in {"mount", "rewrite", "alias", "opaque"} PROVE Doorways[s.inner] = Doorways[s]
  <2>1. Stand(Doorways, s) = Doorways[s.inner]
    BY <1>3, StandIs
  <2> QED
    BY <1>1, <2>1
<1>4. ASSUME s.kind = "level"
      PROVE  \A p \in Doorways[LevelOf[s.serial].inner] :
               <<p[1], IF p[2] = NoValue THEN s.serial ELSE p[2]>> \in Doorways[s]
  <2>1. Stand(Doorways, s) = { <<p[1], IF p[2] = NoValue THEN s.serial ELSE p[2]>> :
                                 p \in Doorways[LevelOf[s.serial].inner] }
    BY <1>4, StandIs
  <2> QED
    BY <1>1, <2>1
<1> QED
  BY <1>2, <1>3, <1>4

LEMMA DoorsBelow ==
  ASSUME SpaceAssumption, NEW s \in Trees
  PROVE  /\ s.kind = "fallback" => \A i \in DOMAIN s.spaces : DoorsOfSpace(s.spaces[i]) \subseteq DoorsOfSpace(s)
         /\ s.kind \in {"mount", "rewrite", "alias", "opaque"} => DoorsOfSpace(s.inner) \subseteq DoorsOfSpace(s)
         /\ s.kind = "level" => DoorsOfSpace(LevelOf[s.serial].inner) \subseteq DoorsOfSpace(s)
<1>1. \A S, T : S \subseteq T => { p[1] : p \in S } \subseteq { p[1] : p \in T }
  OBVIOUS
<1>2. ASSUME s.kind = "level" PROVE DoorsOfSpace(LevelOf[s.serial].inner) \subseteq DoorsOfSpace(s)
  <2> SUFFICES ASSUME NEW p \in Doorways[LevelOf[s.serial].inner] PROVE p[1] \in DoorsOfSpace(s)
    BY DEF DoorsOfSpace
  <2> DEFINE q == <<p[1], IF p[2] = NoValue THEN s.serial ELSE p[2]>>
  <2>1. q \in Doorways[s] /\ q[1] = p[1]
    BY <1>2, DoorwaysBelow
  <2> QED
    BY <2>1 DEF DoorsOfSpace
<1> QED
  BY <1>1, <1>2, DoorwaysBelow DEF DoorsOfSpace

\* What is in place below a tree that is no level is in place in it.
LEMMA InPlaceAbove ==
  ASSUME NEW r, NEW s, NEW t, InPlace(r, t), Doorways[t] \subseteq Doorways[s]
  PROVE  InPlace(r, s)
<1>1. DoorsOfSpace(t) \subseteq DoorsOfSpace(s)
  BY DEF DoorsOfSpace
<1> QED
  BY <1>1 DEF InPlace

LEMMA DoorAnswers ==
  ASSUME SpaceAssumption, NEW s \in Trees, s.kind = "doors", NEW n
  PROVE  AnswerIn(FirstDoor(s.doors, n), s)
<1>1. DOMAIN s.doors \subseteq Nat
  BY TreeIs
<1>2. CASE FirstDoor(s.doors, n) = Miss
  BY <1>2 DEF AnswerIn
<1>3. ASSUME NEW i \in DOMAIN s.doors PROVE AnswerIn(Resolved(s.doors[i].id), s)
  <2> DEFINE r == Resolved(s.doors[i].id)
  <2>1. Stand(Doorways, s) = { <<s.doors[j].id, NoValue>> : j \in DOMAIN s.doors }
    BY StandIs
  <2>2. <<s.doors[i].id, NoValue>> \in Doorways[s]
    BY <2>1, DoorwaysAre
  <2>3. s.doors[i].id \in DoorsOfSpace(s)
    BY <2>2 DEF DoorsOfSpace
  <2>4. r.door = s.doors[i].id /\ r.levels = << >> /\ r.canonical = NoValue /\ IsHit(r)
    BY DEF Resolved, IsHit
  <2> QED
    BY <2>2, <2>3, <2>4 DEF AnswerIn, HitIn, InPlace
<1> QED
  BY <1>1, <1>2, <1>3, FirstDoorIs

LEMMA LimitAnswers ==
  ASSUME NEW s PROVE AnswerIn(Resolved("bottom"), s)
<1> DEFINE r == Resolved("bottom")
<1>1. r.door = "bottom" /\ r.levels = << >> /\ r.canonical = NoValue /\ IsHit(r)
  BY DEF Resolved, IsHit
<1> QED
  BY <1>1 DEF AnswerIn, HitIn, InPlace, IsLimiter

LEMMA LevelsSet ==
  ASSUME NEW r, NEW m, NEW h \in BOOLEAN,
         r = [hit |-> h, door |-> r.door, canonical |-> r.canonical, levels |-> r.levels]
  PROVE  [r EXCEPT !.levels = m] = [hit |-> h, door |-> r.door, canonical |-> r.canonical, levels |-> m]
OBVIOUS

LEMMA Appended ==
  ASSUME NEW S, NEW l \in Seq(S), NEW x \in S
  PROVE  /\ Append(l, x) \in Seq(S) /\ Append(l, x) # << >>
         /\ Append(l, x)[1] = IF l = << >> THEN x ELSE l[1]
         /\ \A i \in DOMAIN Append(l, x) : Append(l, x)[i] = x \/ \E j \in DOMAIN l : Append(l, x)[i] = l[j]
<1>1. /\ Len(l) \in Nat /\ DOMAIN l = 1 .. Len(l)
      /\ Append(l, x) \in Seq(S) /\ DOMAIN Append(l, x) = 1 .. Len(l) + 1
      /\ \A i \in 1 .. Len(l) : Append(l, x)[i] = l[i]
      /\ Append(l, x)[Len(l) + 1] = x
  BY AppendProperties
<1>2. (l = << >> <=> Len(l) = 0) /\ Append(l, x) # << >>
  BY EmptySeq, AppendProperties
<1> DEFINE longer == Append(l, x)
<1>3. Append(l, x) = longer
  OBVIOUS
<1> HIDE DEF longer
<1> QED
  BY <1>2, <1>1, <1>3

LEMMA LevelAnswers ==
  ASSUME SpaceAssumption, NEW s \in Trees, s.kind = "level", NEW r, AnswerIn(r, LevelOf[s.serial].inner)
  PROVE  AnswerIn(Within(r, s.serial), s)
<1> DEFINE q == Within(r, s.serial)
           inner == LevelOf[s.serial].inner
<1>1. CASE r = Miss
  BY <1>1 DEF AnswerIn, Within, Miss
<1>2. CASE HitIn(r, inner)
  <2>1. s.serial \in DOMAIN LevelOf
    BY TreeIs
  <2>2. /\ r = [hit |-> TRUE, door |-> r.door, canonical |-> r.canonical, levels |-> r.levels]
        /\ r.levels \in Seq(DOMAIN LevelOf)
    BY <1>2 DEF HitIn, IsHit
  <2>3. q = [hit |-> TRUE, door |-> r.door, canonical |-> r.canonical, levels |-> Append(r.levels, s.serial)]
    <3>1. r.hit
      BY <2>2
    <3>2. q = [r EXCEPT !.levels = Append(r.levels, s.serial)]
      BY <3>1 DEF Within
    <3> QED
      BY <2>2, <3>2, LevelsSet
  <2>4. Append(r.levels, s.serial) \in Seq(DOMAIN LevelOf)
    BY <2>1, <2>2
  <2>5. q.door = r.door /\ q.canonical = r.canonical /\ q.levels = Append(r.levels, s.serial)
    BY <2>3
  <2>6. IsHit(q)
    BY <1>2, <2>3, <2>4, <2>5 DEF HitIn, IsHit
  <2>7. q.levels # << >> /\ q.levels[1] = IF r.levels = << >> THEN s.serial ELSE r.levels[1]
    BY <2>1, <2>2, <2>5, Appended
  <2>8. DoorsOfSpace(inner) \subseteq DoorsOfSpace(s)
    BY DoorsBelow
  <2>9. \A i \in DOMAIN q.levels : q.levels[i] = s.serial \/ \E j \in DOMAIN r.levels : q.levels[i] = r.levels[j]
    BY <2>1, <2>2, <2>5, Appended
  <2>10. InPlace(r, inner) /\ (IsLimiter(q) <=> IsLimiter(r))
    BY <1>2, <2>5 DEF HitIn, IsLimiter
  <2> HIDE DEF q
  <2>11. \A i \in DOMAIN q.levels : DoorsOfSpace(LevelOf[q.levels[i]].inner) \subseteq DoorsOfSpace(s)
    <3> SUFFICES ASSUME NEW i \in DOMAIN q.levels
                 PROVE  DoorsOfSpace(LevelOf[q.levels[i]].inner) \subseteq DoorsOfSpace(inner)
      BY <2>8
    <3> QED
      BY <2>9, <2>10 DEF InPlace
  <2>12. InPlace(q, s)
    BY <2>5, <2>7, <2>8, <2>10, <2>11 DEF InPlace
  <2> QED
    BY <2>6, <2>12 DEF AnswerIn, HitIn, q
<1> QED
  BY <1>1, <1>2 DEF AnswerIn

LEMMA CanonicalAnswers ==
  ASSUME NEW s, NEW r, AnswerIn(r, s), NEW n \in Texts
  PROVE  AnswerIn(WithCanonical(r, n), s)
<1> DEFINE q == WithCanonical(r, n)
<1>1. CASE r = Miss
  BY <1>1 DEF AnswerIn, WithCanonical, Miss
<1>2. CASE HitIn(r, s)
  <2>1. r = [hit |-> TRUE, door |-> r.door, canonical |-> r.canonical, levels |-> r.levels]
    BY <1>2 DEF HitIn, IsHit
  <2>2. q = r \/ q = [hit |-> TRUE, door |-> r.door, canonical |-> n, levels |-> r.levels]
    BY <2>1 DEF WithCanonical
  <2>3. q.door = r.door /\ q.levels = r.levels /\ q.canonical \in {r.canonical, n} /\ IsHit(q)
    BY <1>2, <2>2 DEF HitIn, IsHit
  <2> HIDE DEF q
  <2>4. InPlace(q, s)
    BY <1>2, <2>3 DEF HitIn, InPlace, IsLimiter
  <2> QED
    BY <2>3, <2>4 DEF AnswerIn, HitIn, q
<1> QED
  BY <1>1, <1>2 DEF AnswerIn

\* Every tree answers with a miss or with a hit that is in place in it.
LEMMA AnswersInPlace ==
  ASSUME SpaceAssumption
  PROVE  \A s \in Trees : \A n \in Texts : AnswerIn(Answers[s][n], s)
<1> DEFINE T == { s \in Trees : \A n \in Texts : AnswerIn(Answers[s][n], s) }
<1>1. ASSUME NEW s \in Trees, \A t \in Trees : Height[t] < Height[s] => t \in T PROVE s \in T
  <2> SUFFICES ASSUME NEW n \in Texts PROVE AnswerIn(Answers[s][n], s)
    OBVIOUS
  <2>1. Answers[s][n] = Answer(Answers, s, n)
    BY AnswersAre
  <2>2. \A t : Below(t, s) => \A m \in Texts : AnswerIn(Answers[t][m], t)
    BY <1>1 DEF Below
  <2>3. \A t, m : Below(t, s) /\ Doorways[t] \subseteq Doorways[s] /\ m \in Texts => AnswerIn(Answers[t][m], s)
    BY <2>2, InPlaceAbove DEF AnswerIn, HitIn
  <2> HIDE DEF T
  <2>4. CASE s.kind = "doors"
    BY <2>1, <2>4, AnswerIs, DoorAnswers
  <2>5. CASE s.kind = "mount"
    <3>1. AnswerIn(Answers[s.inner][n], s) /\ AnswerIn(Miss, s)
      BY <2>3, <2>5, TreeIs, DoorwaysBelow DEF AnswerIn
    <3> QED
      BY <2>1, <2>5, <3>1, AnswerIs
  <2>6. CASE s.kind = "fallback"
    <3> DEFINE answers == [i \in DOMAIN s.spaces |-> Answers[s.spaces[i]][n]]
    <3>1. Answer(Answers, s, n) = FirstHit(answers)
      BY <2>6, AnswerOfFallback
    <3>2. DOMAIN answers = DOMAIN s.spaces /\ DOMAIN s.spaces \subseteq Nat
      BY <2>6, TreeIs
    <3>3. \A i \in DOMAIN s.spaces : AnswerIn(answers[i], s)
      BY <2>3, <2>6, TreeIs, DoorwaysBelow
    <3> HIDE DEF answers
    <3>4. AnswerIn(FirstHit(answers), s)
      BY <3>2, <3>3, FirstHitIs DEF AnswerIn
    <3> QED
      BY <2>1, <3>1, <3>4
  <2>7. CASE s.kind = "limit"
    <3>1. AnswerIn(Miss, s)
      BY DEF AnswerIn
    <3> QED
      BY <2>1, <2>7, <3>1, AnswerIs, LimitAnswers
  <2>8. CASE s.kind = "level"
    <3>1. AnswerIn(Answers[LevelOf[s.serial].inner][n], LevelOf[s.serial].inner)
      BY <2>2, <2>8, TreeIs
    <3>2. Answer(Answers, s, n) = Within(Answers[LevelOf[s.serial].inner][n], s.serial)
      BY <2>8, AnswerIs
    <3> QED
      BY <2>1, <2>8, <3>1, <3>2, LevelAnswers
  <2>9. CASE s.kind \in {"rewrite", "alias"}
    <3>1. \A m \in Texts : AnswerIn(Answers[s.inner][m], s)
      BY <2>3, <2>9, TreeIs, DoorwaysBelow
    <3>2. n \in DOMAIN s.rule => s.rule[n] \in Texts
      BY <2>9, TreeIs DEF IsRule
    <3>3. Answer(Answers, s, n) = Rewritten(Answers[s.inner], s.rule, n)
      BY <2>9, AnswerIs
    <3>4. AnswerIn(Rewritten(Answers[s.inner], s.rule, n), s)
      BY <3>1, <3>2, CanonicalAnswers DEF Rewritten
    <3> QED
      BY <2>1, <3>3, <3>4
  <2>10. CASE s.kind = "opaque"
    <3>1. AnswerIn(Answers[s.inner][n], s)
      BY <2>3, <2>10, TreeIs, DoorwaysBelow
    <3> QED
      BY <2>1, <2>10, <3>1, AnswerIs
  <2> QED
    BY <2>4, <2>5, <2>6, <2>7, <2>8, <2>9, <2>10, TreeIs
<1>2. Trees \subseteq T
  <2> HIDE DEF T
  <2> QED
    BY <1>1, EveryTree
<1> QED
  BY <1>2

-----------------------------------------------------------------------------
(* Topologies.                                                               *)

Gates == Seq(Segments) \cup {NoValue}

\* A level around a find, with the gate from it down.
Frames == [name : { LevelOf[l].name : l \in DOMAIN LevelOf }, gate : Gates]

\* A find has its place, and is a level or a door.
IsFound(f) ==
  /\ f.levels \in Seq(Frames) /\ f.root \in Gates
  /\ \/ /\ f = [what |-> "level", serial |-> f.serial, levels |-> f.levels, root |-> f.root]
        /\ f.serial \in DOMAIN LevelOf
     \/ /\ f = [what |-> "door", text |-> f.text, match |-> f.match, levels |-> f.levels, root |-> f.root]
        /\ f.text \in Seq(Segments)

\* What a find keeps whatever encloses it.
SameFind(g, f) ==
  /\ g.what = f.what
  /\ f.what = "level" => g.serial = f.serial
  /\ f.what = "door" => g.text = f.text /\ g.match = f.match

LEMMA GateNarrows ==
  ASSUME NEW gate \in Gates, NEW prefix \in Seq(Segments)
  PROVE  Narrow(gate, prefix) \in Gates
BY DEF Narrow, Gates

LEMMA MountedIs ==
  ASSUME NEW f, IsFound(f), NEW prefix \in Seq(Segments)
  PROVE  /\ IsFound(Mounted(f, prefix)) /\ SameFind(Mounted(f, prefix), f)
         /\ Mounted(f, prefix).levels = f.levels
         /\ Mounted(f, prefix).root = Narrow(f.root, prefix)
<1> DEFINE gate == Narrow(f.root, prefix)
           g == [f EXCEPT !.root = gate]
<1>1. gate \in Gates
  BY GateNarrows DEF IsFound
<1> HIDE DEF gate
<1>2. CASE f = [what |-> "level", serial |-> f.serial, levels |-> f.levels, root |-> f.root]
  <2>1. g = [what |-> "level", serial |-> f.serial, levels |-> f.levels, root |-> gate] /\ f.what = "level"
    BY <1>2
  <2>2. g.levels = f.levels /\ g.root = gate /\ g.what = "level" /\ g.serial = f.serial
    BY <2>1
  <2> HIDE DEF g
  <2> QED
    BY <1>1, <1>2, <2>1, <2>2 DEF IsFound, SameFind, Mounted, gate, g
<1>3. CASE f = [what |-> "door", text |-> f.text, match |-> f.match, levels |-> f.levels, root |-> f.root]
  <2>1. /\ g = [what |-> "door", text |-> f.text, match |-> f.match, levels |-> f.levels, root |-> gate]
        /\ f.what = "door"
    BY <1>3
  <2>2. g.levels = f.levels /\ g.root = gate /\ g.what = "door" /\ g.text = f.text /\ g.match = f.match
    BY <2>1
  <2> HIDE DEF g
  <2> QED
    BY <1>1, <1>3, <2>1, <2>2 DEF IsFound, SameFind, Mounted, gate, g
<1> QED
  BY <1>2, <1>3 DEF IsFound

LEMMA EnclosedIs ==
  ASSUME NEW f, IsFound(f), NEW l \in DOMAIN LevelOf
  PROVE  LET g == Enclosed(f, LevelOf[l].name)
             around == [name |-> LevelOf[l].name, gate |-> f.root]
         IN  /\ IsFound(g) /\ SameFind(g, f) /\ g.root = f.root
             /\ around \in Frames /\ g.levels = Append(f.levels, around)
<1> DEFINE around == [name |-> LevelOf[l].name, gate |-> f.root]
           levels == Append(f.levels, around)
           g == [f EXCEPT !.levels = levels]
<1>1. around \in Frames /\ levels \in Seq(Frames)
  BY AppendProperties DEF Frames, IsFound
<1>2. Enclosed(f, LevelOf[l].name) = g
  BY DEF Enclosed
<1>3. levels = Append(f.levels, around)
  OBVIOUS
<1> HIDE DEF levels, around
<1>4. CASE f = [what |-> "level", serial |-> f.serial, levels |-> f.levels, root |-> f.root]
  <2>1. g = [what |-> "level", serial |-> f.serial, levels |-> levels, root |-> f.root] /\ f.what = "level"
    BY <1>4
  <2>2. g.levels = levels /\ g.root = f.root /\ g.what = "level" /\ g.serial = f.serial
    BY <2>1
  <2> HIDE DEF g
  <2>3. IsFound(g) /\ SameFind(g, f)
    BY <1>1, <1>4, <2>1, <2>2 DEF IsFound, SameFind
  <2> QED
    BY <1>1, <1>2, <1>3, <2>2, <2>3 DEF around
<1>5. CASE f = [what |-> "door", text |-> f.text, match |-> f.match, levels |-> f.levels, root |-> f.root]
  <2>1. /\ g = [what |-> "door", text |-> f.text, match |-> f.match, levels |-> levels, root |-> f.root]
        /\ f.what = "door"
    BY <1>5
  <2>2. g.levels = levels /\ g.root = f.root /\ g.what = "door" /\ g.text = f.text /\ g.match = f.match
    BY <2>1
  <2> HIDE DEF g
  <2>3. IsFound(g) /\ SameFind(g, f)
    BY <1>1, <1>5, <2>1, <2>2 DEF IsFound, SameFind
  <2> QED
    BY <1>1, <1>2, <1>3, <2>2, <2>3 DEF around
<1> QED
  BY <1>4, <1>5 DEF IsFound

LEMMA FoundDoorIs ==
  ASSUME NEW d, d.text \in Seq(Segments)
  PROVE  /\ IsFound(FoundDoor(d)) /\ FoundDoor(d).what = "door"
         /\ FoundDoor(d).text = d.text /\ FoundDoor(d).match = d.match
         /\ FoundDoor(d).levels = << >> /\ FoundDoor(d).root = << >>
<1>1. << >> \in Seq(Frames) /\ << >> \in Gates
  BY EmptySeq DEF Gates
<1> QED
  BY <1>1 DEF FoundDoor, IsFound

LEMMA FoundLevelIs ==
  ASSUME NEW l \in DOMAIN LevelOf
  PROVE  /\ IsFound(FoundLevel(l)) /\ FoundLevel(l).what = "level" /\ FoundLevel(l).serial = l
         /\ FoundLevel(l).levels = << >> /\ FoundLevel(l).root = << >>
<1>1. << >> \in Seq(Frames) /\ << >> \in Gates
  BY EmptySeq DEF Gates
<1> QED
  BY <1>1 DEF FoundLevel, IsFound

LEMMA ShownAs ==
  ASSUME SpaceAssumption, NEW s \in Trees
  PROVE  /\ s.kind = "doors" => Shown[s] = { FoundDoor(s.doors[i]) : i \in DOMAIN s.doors }
         /\ s.kind = "mount" => Shown[s] = { Mounted(f, s.prefix) : f \in Shown[s.inner] }
         /\ s.kind = "fallback" => Shown[s] = UNION { Shown[s.spaces[i]] : i \in DOMAIN s.spaces }
         /\ s.kind = "level" =>
              Shown[s] = {FoundLevel(s.serial)}
                \cup { Enclosed(f, LevelOf[s.serial].name) : f \in Shown[LevelOf[s.serial].inner] }
         /\ s.kind = "alias" =>
              Shown[s] = { FoundDoor([text |-> n, match |-> "exact"]) : n \in DOMAIN s.rule } \cup Shown[s.inner]
         /\ s.kind = "rewrite" => Shown[s] = Shown[s.inner]
         /\ s.kind \in {"limit", "opaque"} => Shown[s] = {}
<1>1. Shown[s] = Show(Shown, s)
  BY ShownAre
<1> QED
  BY <1>1, ShowIs, Zenon

\* A find of a tree: its own door or level, or a find of a tree below it, as it
\* is, mounted or enclosed.
LEMMA ShownFrom ==
  ASSUME SpaceAssumption, NEW s \in Trees, NEW f \in Shown[s]
  PROVE  \/ s.kind = "doors" /\ \E i \in DOMAIN s.doors : f = FoundDoor(s.doors[i])
         \/ s.kind = "alias" /\ \E n \in DOMAIN s.rule : f = FoundDoor([text |-> n, match |-> "exact"])
         \/ s.kind = "level" /\ f = FoundLevel(s.serial)
         \/ s.kind = "level" /\ \E g \in Shown[LevelOf[s.serial].inner] : f = Enclosed(g, LevelOf[s.serial].name)
         \/ s.kind = "mount" /\ \E g \in Shown[s.inner] : f = Mounted(g, s.prefix)
         \/ s.kind = "fallback" /\ \E i \in DOMAIN s.spaces : f \in Shown[s.spaces[i]]
         \/ s.kind \in {"alias", "rewrite"} /\ f \in Shown[s.inner]
<1>1. CASE s.kind = "doors"
  BY <1>1, ShownAs
<1>2. CASE s.kind = "mount"
  BY <1>2, ShownAs
<1>3. CASE s.kind = "fallback"
  BY <1>3, ShownAs
<1>4. CASE s.kind = "level"
  BY <1>4, ShownAs
<1>5. CASE s.kind \in {"alias", "rewrite"}
  BY <1>5, ShownAs
<1>6. CASE s.kind \in {"limit", "opaque"}
  BY <1>6, ShownAs
<1> QED
  BY <1>1, <1>2, <1>3, <1>4, <1>5, <1>6, TreeIs

\* Where a level a tree shows stands: what stands directly in the level stands in
\* it in the tree too.
Standing(f, s) ==
  f.what = "level" =>
    \A p \in Doorways[LevelOf[f.serial].inner] : p[2] = NoValue => <<p[1], f.serial>> \in Doorways[s]

FindIn(f, s) == IsFound(f) /\ Standing(f, s)

LEMMA FindsInPlace ==
  ASSUME SpaceAssumption
  PROVE  \A s \in Trees : \A f \in Shown[s] : FindIn(f, s)
<1> DEFINE T == { s \in Trees : \A f \in Shown[s] : FindIn(f, s) }
<1>1. ASSUME NEW s \in Trees, \A t \in Trees : Height[t] < Height[s] => t \in T PROVE s \in T
  <2> SUFFICES ASSUME NEW f \in Shown[s] PROVE FindIn(f, s)
    OBVIOUS
  <2>1. \A t : Below(t, s) => \A g \in Shown[t] : FindIn(g, t)
    BY <1>1 DEF Below
  <2> HIDE DEF T
  <2>2. CASE s.kind = "doors" /\ \E i \in DOMAIN s.doors : f = FoundDoor(s.doors[i])
    <3>1. PICK i \in DOMAIN s.doors : f = FoundDoor(s.doors[i])
      BY <2>2
    <3>2. s.doors[i].text \in Seq(Segments)
      BY <2>2, TreeIs DEF IsDoor, SpaceAssumption
    <3> QED
      BY <3>1, <3>2, FoundDoorIs DEF FindIn, Standing
  <2>3. CASE s.kind = "alias" /\ \E n \in DOMAIN s.rule : f = FoundDoor([text |-> n, match |-> "exact"])
    <3>1. PICK n \in DOMAIN s.rule : f = FoundDoor([text |-> n, match |-> "exact"])
      BY <2>3
    <3>2. n \in Seq(Segments)
      BY <2>3, TreeIs DEF IsRule, SpaceAssumption
    <3>3. [text |-> n, match |-> "exact"].text \in Seq(Segments)
      BY <3>2
    <3> QED
      BY <3>1, <3>3, FoundDoorIs DEF FindIn, Standing
  <2>4. CASE s.kind = "level" /\ f = FoundLevel(s.serial)
    <3>1. s.serial \in DOMAIN LevelOf
      BY <2>4, TreeIs
    <3>2. IsFound(f) /\ f.serial = s.serial
      BY <2>4, <3>1, FoundLevelIs
    <3>3. \A p \in Doorways[LevelOf[s.serial].inner] : p[2] = NoValue => <<p[1], s.serial>> \in Doorways[s]
      BY <2>4, DoorwaysBelow
    <3> QED
      BY <3>2, <3>3 DEF FindIn, Standing
  <2>5. CASE s.kind = "level" /\ \E g \in Shown[LevelOf[s.serial].inner] : f = Enclosed(g, LevelOf[s.serial].name)
    <3>1. PICK g \in Shown[LevelOf[s.serial].inner] : f = Enclosed(g, LevelOf[s.serial].name)
      BY <2>5
    <3>2. s.serial \in DOMAIN LevelOf /\ FindIn(g, LevelOf[s.serial].inner)
      BY <2>1, <2>5, TreeIs
    <3>3. IsFound(f) /\ SameFind(f, g)
      BY <3>1, <3>2, EnclosedIs DEF FindIn
    <3>4. Standing(f, s)
      <4> SUFFICES ASSUME f.what = "level", NEW p \in Doorways[LevelOf[f.serial].inner], p[2] = NoValue
                   PROVE  <<p[1], f.serial>> \in Doorways[s]
        BY DEF Standing
      <4>1. g.what = "level" /\ f.serial = g.serial /\ g.serial # NoValue
        BY <3>2, <3>3, LevelIs DEF SameFind, FindIn, IsFound
      <4> DEFINE q == <<p[1], f.serial>>
      <4>2. q \in Doorways[LevelOf[s.serial].inner] /\ q[1] = p[1] /\ q[2] = f.serial
        BY <3>2, <4>1 DEF FindIn, Standing
      <4> HIDE DEF q
      <4>3. <<q[1], IF q[2] = NoValue THEN s.serial ELSE q[2]>> \in Doorways[s]
        BY <2>5, <4>2, DoorwaysBelow
      <4> QED
        BY <4>1, <4>2, <4>3
    <3> QED
      BY <3>3, <3>4 DEF FindIn
  <2>6. CASE s.kind = "mount" /\ \E g \in Shown[s.inner] : f = Mounted(g, s.prefix)
    <3>1. PICK g \in Shown[s.inner] : f = Mounted(g, s.prefix)
      BY <2>6
    <3>2. s.prefix \in Seq(Segments) /\ FindIn(g, s.inner) /\ Doorways[s.inner] = Doorways[s]
      BY <2>1, <2>6, TreeIs, DoorwaysBelow DEF SpaceAssumption
    <3>3. IsFound(f) /\ SameFind(f, g)
      BY <3>1, <3>2, MountedIs DEF FindIn
    <3> QED
      BY <3>2, <3>3 DEF FindIn, Standing, SameFind, IsFound
  <2>7. CASE s.kind = "fallback" /\ \E i \in DOMAIN s.spaces : f \in Shown[s.spaces[i]]
    <3>1. PICK i \in DOMAIN s.spaces : f \in Shown[s.spaces[i]]
      BY <2>7
    <3>2. FindIn(f, s.spaces[i]) /\ Doorways[s.spaces[i]] \subseteq Doorways[s]
      BY <2>1, <2>7, <3>1, TreeIs, DoorwaysBelow
    <3> QED
      BY <3>2 DEF FindIn, Standing
  <2>8. CASE s.kind \in {"alias", "rewrite"} /\ f \in Shown[s.inner]
    <3>1. FindIn(f, s.inner) /\ Doorways[s.inner] = Doorways[s]
      BY <2>1, <2>8, TreeIs, DoorwaysBelow
    <3> QED
      BY <3>1 DEF FindIn, Standing
  <2> QED
    BY <2>2, <2>3, <2>4, <2>5, <2>6, <2>7, <2>8, ShownFrom
<1>2. Trees \subseteq T
  <2> HIDE DEF T
  <2> QED
    BY <1>1, EveryTree
<1> QED
  BY <1>2

-----------------------------------------------------------------------------
(* The seal table.                                                           *)

\* The table was made for this root, with what some host sealed.
TableFor(t, s) == \E host \in HostSeals : t = FromTopology(s, host)

Sealed(s) == UNION { Claims(LevelOf[f.serial].seals, LevelOf[f.serial].name) : f \in LevelsShown(s) }

LEMMA TableIs ==
  ASSUME NEW s, NEW host
  PROVE  LET t == FromTopology(s, host)
             claims == Claims(CoreSeals, "core") \cup Claims(host, "host") \cup Sealed(s)
         IN  /\ t.claims = claims
             /\ t.levels = { f.serial : f \in LevelsShown(s) }
             /\ t.trivial <=> (host = {} /\ Sealed(s) = {})
             /\ t.built => \A d \in DoorsShown(s) : \A c \in claims : ~Binds(d, c)
BY DEF FromTopology, Sealed

LEMMA SealedIs ==
  ASSUME SpaceAssumption, NEW s \in Trees, NEW c \in Sealed(s)
  PROVE  c.prefix \in Texts /\ c.owner \notin {"core", "host"}
<1>1. PICK f \in LevelsShown(s) : c \in Claims(LevelOf[f.serial].seals, LevelOf[f.serial].name)
  BY DEF Sealed
<1>2. f.serial \in DOMAIN LevelOf
  BY FindsInPlace DEF LevelsShown, FindIn, IsFound
<1> QED
  BY <1>1, <1>2, LevelIs DEF Claims

LEMMA TableHolds ==
  ASSUME ChainAssumption, NEW s \in Trees, NEW t, TableFor(t, s)
  PROVE  /\ t.levels = { f.serial : f \in LevelsShown(s) }
         /\ t.levels \subseteq DOMAIN LevelOf
         /\ \A c \in t.claims : c.prefix \in Texts
         /\ t.trivial => \A n : OwnersOf(t, n) \subseteq {"core"}
         /\ \A n \in Asked : "core" \notin OwnersOf(t, n)
         /\ t.built => \A d \in DoorsShown(s) : \A c \in t.claims : ~Binds(d, c)
<1>1. PICK host \in HostSeals : t = FromTopology(s, host)
  BY DEF TableFor
<1>2. SpaceAssumption /\ host \subseteq Texts /\ CoreSeals \subseteq Texts
      /\ \A n \in Asked, p \in CoreSeals : ~StartsWith(n, p)
  BY DEF ChainAssumption, SpaceAssumption
<1>3. /\ t.claims = Claims(CoreSeals, "core") \cup Claims(host, "host") \cup Sealed(s)
      /\ t.levels = { f.serial : f \in LevelsShown(s) }
      /\ t.trivial <=> (host = {} /\ Sealed(s) = {})
      /\ t.built => \A d \in DoorsShown(s) : \A c \in t.claims : ~Binds(d, c)
  BY <1>1, TableIs
<1>4. \A f \in LevelsShown(s) : f.serial \in DOMAIN LevelOf
  BY <1>2, FindsInPlace DEF LevelsShown, FindIn, IsFound
<1>5. \A c \in t.claims : /\ c.prefix \in Texts
                          /\ c.owner = "core" => c.prefix \in CoreSeals
  BY <1>2, <1>3, SealedIs DEF Claims
<1>6. t.trivial => \A c \in t.claims : c.owner = "core"
  BY <1>3 DEF Claims
<1> QED
  BY <1>2, <1>3, <1>4, <1>5, <1>6 DEF OwnersOf

\* What stands directly in a registered level stands in it in the root.
LEMMA RegisteredStands ==
  ASSUME ChainAssumption, NEW s \in Trees, NEW t, TableFor(t, s), NEW l \in t.levels, NEW d,
         <<d, NoValue>> \in Doorways[LevelOf[l].inner]
  PROVE  <<d, l>> \in Doorways[s]
<1>1. SpaceAssumption /\ t.levels = { f.serial : f \in LevelsShown(s) }
  BY TableHolds DEF ChainAssumption
<1>2. PICK f \in LevelsShown(s) : l = f.serial
  BY <1>1
<1>3. FindIn(f, s) /\ f.what = "level"
  BY <1>1, FindsInPlace DEF LevelsShown
<1> DEFINE p == <<d, NoValue>>
<1>4. p[1] = d /\ p[2] = NoValue
  OBVIOUS
<1> HIDE DEF p
<1> QED
  BY <1>2, <1>3, <1>4 DEF FindIn, Standing, p

-----------------------------------------------------------------------------
(* Chains.                                                                   *)

LEMMA GreatestOf ==
  ASSUME NEW N \in Nat, NEW T \in SUBSET (1 .. N), T # {}
  PROVE  Max(T) \in T /\ \A y \in T : y <= Max(T)
<1> DEFINE U == { N - y : y \in T }
<1>1. U \in SUBSET Nat /\ U # {}
  OBVIOUS
<1>2. PICK u \in U : \A v \in U : u <= v
  <2> HIDE DEF U
  <2> QED
    BY <1>1, LeastOf
<1>3. PICK x \in T : u = N - x
  BY <1>2
<1>4. ASSUME NEW y \in T PROVE y <= x
  <2>1. N - y \in U /\ y \in Int /\ x \in Int
    OBVIOUS
  <2>2. u <= N - y
    BY <1>2, <2>1
  <2> QED
    BY <1>3, <2>1, <2>2
<1>5. \E z \in T : \A y \in T : z >= y
  BY <1>4
<1> DEFINE m == CHOOSE z \in T : \A y \in T : z >= y
<1>6. m \in T /\ \A y \in T : m >= y
  BY <1>5
<1>7. Max(T) = m
  BY DEF Max
<1> HIDE DEF m
<1> QED
  BY <1>6, <1>7

Identities == { ByName(c) : c \in DOMAIN CorridorOf } \cup { Anonymous(k) : k \in Nat }
Corridors == [space : DOMAIN CorridorOf, id : Identities]
IsScope(s) ==
  /\ s = [injected |-> s.injected, confined |-> s.confined, levels |-> s.levels, severed |-> s.severed]
  /\ s.injected \in Seq(Corridors)
  /\ s.confined \in Nat /\ s.confined <= Len(s.injected)
  /\ s.levels \in Seq(DOMAIN LevelOf)
  /\ s.severed \in BOOLEAN

LEMMA CorridorAnswers ==
  ASSUME ChainAssumption, NEW c \in Corridors, NEW n \in Texts
  PROVE  /\ CorridorOf[c.space] \in Trees
         /\ AnswerIn(CorridorAnswer(c, n), CorridorOf[c.space])
<1>1. c.space \in DOMAIN CorridorOf
  BY DEF Corridors
<1>2. SpaceAssumption /\ CorridorOf[c.space] \in Trees
  BY <1>1 DEF ChainAssumption
<1> QED
  BY <1>2, AnswersInPlace DEF CorridorAnswer, AnswerOf

LEMMA LevelAnswered ==
  ASSUME ChainAssumption, NEW l \in DOMAIN LevelOf, NEW n \in Texts
  PROVE  /\ LevelOf[l].inner \in Trees
         /\ AnswerIn(LevelAnswer(l, n), LevelOf[l].inner)
<1>1. SpaceAssumption
  BY DEF ChainAssumption
<1> QED
  BY <1>1, LevelIs, AnswersInPlace DEF LevelAnswer, AnswerOf

\* The corridors answer with the last of them that does.
LastAnswer(r, cs, n) ==
  \/ r = Miss /\ \A i \in DOMAIN cs : ~CorridorAnswer(cs[i], n).hit
  \/ \E i \in DOMAIN cs :
       /\ CorridorAnswer(cs[i], n).hit /\ r = CorridorAnswer(cs[i], n)
       /\ \A j \in DOMAIN cs : j > i => ~CorridorAnswer(cs[j], n).hit

LEMMA CorridorHitIs ==
  ASSUME NEW cs \in Seq(Corridors), NEW n
  PROVE  LastAnswer(CorridorHit(cs, n), cs, n)
<1> DEFINE M == { i \in DOMAIN cs : CorridorAnswer(cs[i], n).hit }
<1>1. CASE M = {}
  BY <1>1 DEF CorridorHit, LastAnswer
<1>2. CASE M # {}
  <2>1. Len(cs) \in Nat /\ DOMAIN cs = 1 .. Len(cs)
    OBVIOUS
  <2>2. M \in SUBSET (1 .. Len(cs))
    BY <2>1
  <2>3. CorridorHit(cs, n) = CorridorAnswer(cs[Max(M)], n)
    BY <1>2 DEF CorridorHit
  <2> HIDE DEF M
  <2>4. Max(M) \in M /\ \A y \in M : y <= Max(M)
    BY <1>2, <2>1, <2>2, GreatestOf
  <2> DEFINE m == Max(M)
  <2>5. m \in M /\ \A y \in M : y <= m
    BY <2>4
  <2>6. CorridorHit(cs, n) = CorridorAnswer(cs[m], n)
    BY <2>3
  <2> HIDE DEF m
  <2>7. m \in DOMAIN cs /\ CorridorAnswer(cs[m], n).hit
    BY <2>5 DEF M
  <2>8. \A j \in DOMAIN cs : j > m => ~CorridorAnswer(cs[j], n).hit
    BY <2>1, <2>5, <2>7 DEF M
  <2> QED
    BY <2>6, <2>7, <2>8 DEF LastAnswer
<1> QED
  BY <1>1, <1>2

LEMMA CorridorHitOf ==
  ASSUME ChainAssumption, NEW cs \in Seq(Corridors), NEW n \in Texts, CorridorHit(cs, n).hit
  PROVE  \E i \in DOMAIN cs : HitIn(CorridorHit(cs, n), CorridorOf[cs[i].space])
<1>1. PICK i \in DOMAIN cs : CorridorHit(cs, n) = CorridorAnswer(cs[i], n)
  BY CorridorHitIs DEF LastAnswer, Miss
<1>2. cs[i] \in Corridors
  OBVIOUS
<1> QED
  BY <1>1, <1>2, CorridorAnswers DEF AnswerIn, Miss

\* What a frame answered: the level of the frame is one its name may be looked up
\* in, and the path goes on outward of it.
FramedIn(r, levels, i, n, owners) ==
  LET found == LevelAnswer(levels[i], n)
  IN  /\ i \in DOMAIN levels /\ \A o \in owners : FrameAdmits(seals, o, levels[i])
      /\ HitIn(found, LevelOf[levels[i]].inner)
      /\ r = [hit |-> TRUE, door |-> found.door, canonical |-> found.canonical,
              levels |-> found.levels \o SubSeq(levels, i, Len(levels))]

LEMMA FrameHitIs ==
  ASSUME ChainAssumption, NEW levels \in Seq(DOMAIN LevelOf), NEW n \in Texts, NEW owners
  PROVE  \/ FrameHit(levels, n, owners) = Miss
         \/ \E i \in DOMAIN levels : FramedIn(FrameHit(levels, n, owners), levels, i, n, owners)
<1> DEFINE M == { i \in DOMAIN levels :
                    /\ \A o \in owners : FrameAdmits(seals, o, levels[i])
                    /\ LevelAnswer(levels[i], n).hit }
<1>1. CASE M = {}
  BY <1>1 DEF FrameHit
<1>2. CASE M # {}
  <2> DEFINE m == Min(M)
             found == LevelAnswer(levels[m], n)
             outward == SubSeq(levels, m, Len(levels))
  <2>1. M \in SUBSET Nat
    OBVIOUS
  <2>2. FrameHit(levels, n, owners) = [found EXCEPT !.levels = found.levels \o outward]
    BY <1>2 DEF FrameHit
  <2> HIDE DEF M
  <2>3. m \in M
    BY <1>2, <2>1, LeastOf DEF Min
  <2> HIDE DEF m
  <2>4. m \in DOMAIN levels /\ (\A o \in owners : FrameAdmits(seals, o, levels[m])) /\ found.hit
    BY <2>3 DEF M
  <2>5. HitIn(found, LevelOf[levels[m]].inner)
    BY <2>4, LevelAnswered DEF AnswerIn, Miss
  <2>6. found = [hit |-> TRUE, door |-> found.door, canonical |-> found.canonical, levels |-> found.levels]
    BY <2>5 DEF HitIn, IsHit
  <2>7. [found EXCEPT !.levels = found.levels \o outward]
          = [hit |-> TRUE, door |-> found.door, canonical |-> found.canonical, levels |-> found.levels \o outward]
    BY <2>6, LevelsSet
  <2> QED
    BY <2>2, <2>4, <2>5, <2>7 DEF FramedIn
<1> QED
  BY <1>1, <1>2

\* A path is laid of one sequence, then of elements of another.
LaidOf(path, l, m) ==
  \A k \in DOMAIN path : (k \in DOMAIN l /\ path[k] = l[k]) \/ \E j \in DOMAIN m : path[k] = m[j]

LEMMA Outward ==
  ASSUME NEW S, NEW l \in Seq(S), NEW m \in Seq(S), NEW i \in DOMAIN m,
         NEW path, path = l \o SubSeq(m, i, Len(m))
  PROVE  /\ path \in Seq(S) /\ path # << >>
         /\ path[1] = IF l = << >> THEN m[i] ELSE l[1]
         /\ LaidOf(path, l, m)
<1> DEFINE rest == SubSeq(m, i, Len(m))
<1>1. path = l \o rest
  OBVIOUS
<1>2. Len(m) \in Nat /\ DOMAIN m = 1 .. Len(m) /\ Len(l) \in Nat /\ DOMAIN l = 1 .. Len(l)
  OBVIOUS
<1>3. i \in Int /\ Len(m) \in Int /\ i <= Len(m) /\ i >= 1 /\ \A k \in i .. Len(m) : m[k] \in S
  BY <1>2
<1>4. /\ rest \in Seq(S) /\ Len(rest) = Len(m) - i + 1
      /\ \A k \in 1 .. Len(m) - i + 1 : rest[k] = m[i + k - 1]
  BY <1>3, SubSeqProperties
<1> HIDE DEF rest
<1> DEFINE whole == l \o rest
<1>5. /\ whole \in Seq(S) /\ Len(whole) = Len(l) + Len(rest)
      /\ \A k \in 1 .. Len(l) + Len(rest) : whole[k] = IF k <= Len(l) THEN l[k] ELSE rest[k - Len(l)]
  BY <1>4, ConcatProperties
<1> HIDE DEF whole
<1>6. /\ path \in Seq(S) /\ Len(path) = Len(l) + Len(rest)
      /\ \A k \in 1 .. Len(l) + Len(rest) : path[k] = IF k <= Len(l) THEN l[k] ELSE rest[k - Len(l)]
  BY <1>1, <1>5 DEF whole
<1>7. DOMAIN path = 1 .. Len(path) /\ Len(path) >= 1
  BY <1>2, <1>3, <1>4, <1>6
<1>8. path # << >>
  BY <1>7
<1>9. path[1] = IF l = << >> THEN m[i] ELSE l[1]
  <2>1. (l = << >>) <=> Len(l) = 0
    BY EmptySeq
  <2>2. CASE Len(l) = 0
    <3>1. path[1] = rest[1 - Len(l)] /\ 1 - Len(l) = 1
      BY <1>4, <1>6, <1>7, <2>2
    <3>2. 1 \in 1 .. Len(m) - i + 1 /\ i + 1 - 1 = i
      BY <1>2, <1>3
    <3>3. rest[1] = m[i]
      BY <1>4, <3>2
    <3> QED
      BY <2>1, <2>2, <3>1, <3>3
  <2>3. CASE Len(l) # 0
    <3>1. 1 \in 1 .. Len(l) + Len(rest) /\ 1 <= Len(l)
      BY <1>2, <1>4, <2>3, <1>3
    <3> QED
      BY <1>6, <2>1, <2>3, <3>1
  <2> QED
    BY <2>2, <2>3
<1>10. ASSUME NEW k \in DOMAIN path
       PROVE  (k \in DOMAIN l /\ path[k] = l[k]) \/ \E j \in DOMAIN m : path[k] = m[j]
  <2>1. k \in 1 .. Len(l) + Len(rest)
    BY <1>6, <1>7
  <2>2. CASE k <= Len(l)
    BY <1>2, <1>6, <2>1, <2>2
  <2>3. CASE k > Len(l)
    <3> DEFINE j == i + (k - Len(l)) - 1
    <3>1. k - Len(l) \in 1 .. Len(m) - i + 1 /\ j \in DOMAIN m
      BY <1>2, <1>3, <1>4, <2>1, <2>3
    <3>2. path[k] = rest[k - Len(l)]
      <4>1. path[k] = IF k <= Len(l) THEN l[k] ELSE rest[k - Len(l)]
        BY <1>6, <2>1
      <4>2. ~(k <= Len(l))
        BY <1>2, <2>1, <2>3
      <4> QED
        BY <4>1, <4>2
    <3>3. i + (k - Len(l)) - 1 = j /\ rest[k - Len(l)] = m[i + (k - Len(l)) - 1]
      BY <1>4, <3>1
    <3> QED
      BY <3>1, <3>2, <3>3
  <2> QED
    BY <1>2, <2>1, <2>2, <2>3
<1> QED
  BY <1>6, <1>8, <1>9, <1>10 DEF LaidOf

\* A path is of levels of a stack and of levels found on the way.
PathOf(path, levels, inward) ==
  \A k \in DOMAIN path : \/ \E j \in DOMAIN levels : path[k] = levels[j]
                         \/ \E j \in DOMAIN inward : path[k] = inward[j]

StartsAt(path, level, inward) == path[1] = IF inward = << >> THEN level ELSE inward[1]

\* A hit in a frame: its door is one of the frame's, directly in the innermost
\* level of its path; every level of the path is a frame's or within the frame.
LEMMA FramedHit ==
  ASSUME NEW levels \in Seq(DOMAIN LevelOf), NEW n, NEW owners, NEW r, NEW i,
         FramedIn(r, levels, i, n, owners)
  PROVE  LET frame == LevelOf[levels[i]].inner
             found == LevelAnswer(levels[i], n)
         IN  /\ IsHit(r) /\ r.hit /\ r.levels # << >> /\ r.door = found.door /\ r.canonical = found.canonical
             /\ IsLimiter(r) \/ r.door \in DoorsOfSpace(frame)
             /\ IsLimiter(r) \/ <<r.door, NoValue>> \in Doorways[LevelOf[r.levels[1]].inner]
             /\ StartsAt(r.levels, levels[i], found.levels)
             /\ PathOf(r.levels, levels, found.levels)
             /\ \A j \in DOMAIN found.levels : DoorsOfSpace(LevelOf[found.levels[j]].inner) \subseteq DoorsOfSpace(frame)
<1> DEFINE frame == LevelOf[levels[i]].inner
           found == LevelAnswer(levels[i], n)
           inward == found.levels
           path == inward \o SubSeq(levels, i, Len(levels))
<1>1. /\ i \in DOMAIN levels /\ HitIn(found, frame)
      /\ r = [hit |-> TRUE, door |-> found.door, canonical |-> found.canonical, levels |-> path]
  BY DEF FramedIn
<1>2. inward \in Seq(DOMAIN LevelOf) /\ found.canonical \in Texts \cup {NoValue}
  BY <1>1 DEF HitIn, IsHit
<1> HIDE DEF inward
<1>3. /\ path \in Seq(DOMAIN LevelOf) /\ path # << >>
      /\ path[1] = IF inward = << >> THEN levels[i] ELSE inward[1]
      /\ \A k \in DOMAIN path : (k \in DOMAIN inward /\ path[k] = inward[k])
                                  \/ \E j \in DOMAIN levels : path[k] = levels[j]
  <2>1. i \in DOMAIN levels
    BY <1>1
  <2> DEFINE S == DOMAIN LevelOf
  <2>2. inward \in Seq(S) /\ levels \in Seq(S)
    BY <1>2
  <2> HIDE DEF S
  <2>3. path = inward \o SubSeq(levels, i, Len(levels))
    OBVIOUS
  <2> HIDE DEF path
  <2>4. /\ path \in Seq(S) /\ path # << >>
        /\ path[1] = IF inward = << >> THEN levels[i] ELSE inward[1]
        /\ LaidOf(path, inward, levels)
    <3>1. path \in Seq(S)
      BY <2>1, <2>2, <2>3, Outward
    <3>2. path # << >>
      BY <2>1, <2>2, <2>3, Outward
    <3>3. path[1] = IF inward = << >> THEN levels[i] ELSE inward[1]
      BY <2>1, <2>2, <2>3, Outward
    <3>4. LaidOf(path, inward, levels)
      BY <2>1, <2>2, <2>3, Outward
    <3> QED
      BY <3>1, <3>2, <3>3, <3>4
  <2> QED
    BY <2>4 DEF S, LaidOf
<1> HIDE DEF path
<1>4. r.levels = path /\ r.door = found.door /\ r.canonical = found.canonical /\ r.hit
  BY <1>1
<1>5. IsHit(r)
  BY <1>1, <1>2, <1>3, <1>4 DEF IsHit, inward
<1> HIDE DEF found
<1>6. IsLimiter(r) <=> IsLimiter(found)
  BY <1>4 DEF IsLimiter
<1>7. InPlace(found, frame)
  BY <1>1 DEF HitIn
<1>8. IsLimiter(r) \/ <<r.door, NoValue>> \in Doorways[LevelOf[r.levels[1]].inner]
  BY <1>3, <1>4, <1>6, <1>7 DEF InPlace, inward
<1>9. IsLimiter(r) \/ r.door \in DoorsOfSpace(frame)
  BY <1>4, <1>6, <1>7 DEF InPlace
<1>10. PathOf(r.levels, levels, found.levels)
  BY <1>3, <1>4 DEF inward, PathOf
<1>11. \A j \in DOMAIN found.levels : DoorsOfSpace(LevelOf[found.levels[j]].inner) \subseteq DoorsOfSpace(frame)
  BY <1>7 DEF InPlace
<1>12. StartsAt(r.levels, levels[i], found.levels)
  BY <1>3, <1>4 DEF inward, StartsAt
<1> QED
  BY <1>3, <1>4, <1>5, <1>8, <1>9, <1>10, <1>11, <1>12 DEF found

LEMMA SliceIs ==
  ASSUME NEW S, NEW q \in Seq(S), NEW a \in Nat, NEW b \in Nat, 1 <= a, b <= Len(q)
  PROVE  /\ SubSeq(q, a, b) \in Seq(S) /\ Len(SubSeq(q, a, b)) = IF a <= b THEN b - a + 1 ELSE 0
         /\ \A i \in 1 .. b - a + 1 : SubSeq(q, a, b)[i] = q[a + i - 1]
<1>1. a \in Int /\ b \in Int /\ \A i \in a .. b : q[i] \in S
  OBVIOUS
<1> QED
  BY <1>1, SubSeqProperties

LEMMA SplitIs ==
  ASSUME NEW s, IsScope(s)
  PROVE  /\ Behind(s) \in Seq(Corridors) /\ Len(Behind(s)) = s.confined
         /\ \A i \in 1 .. s.confined : Behind(s)[i] = s.injected[i]
         /\ Injected(s) \in Seq(Corridors) /\ Len(Injected(s)) = Len(s.injected) - s.confined
         /\ \A i \in 1 .. Len(s.injected) - s.confined : Injected(s)[i] = s.injected[s.confined + i]
<1>1. s.injected \in Seq(Corridors) /\ s.confined \in Nat /\ s.confined <= Len(s.injected)
  BY DEF IsScope
<1> DEFINE c == s.confined
           all == s.injected
           d == c + 1
<1>2. /\ Len(all) \in Nat /\ c \in Nat /\ d \in Nat /\ 1 <= d /\ c <= Len(all) /\ all \in Seq(Corridors)
      /\ d = c + 1 /\ 1 \in Nat /\ 1 <= 1 /\ Len(all) <= Len(all)
  BY <1>1
<1> HIDE DEF c, d, all
<1>3. /\ SubSeq(all, 1, c) \in Seq(Corridors)
      /\ Len(SubSeq(all, 1, c)) = IF 1 <= c THEN c - 1 + 1 ELSE 0
      /\ \A i \in 1 .. c - 1 + 1 : SubSeq(all, 1, c)[i] = all[1 + i - 1]
  BY <1>2, SliceIs
<1>4. /\ SubSeq(all, d, Len(all)) \in Seq(Corridors)
      /\ Len(SubSeq(all, d, Len(all))) = IF d <= Len(all) THEN Len(all) - d + 1 ELSE 0
      /\ \A i \in 1 .. Len(all) - d + 1 : SubSeq(all, d, Len(all))[i] = all[d + i - 1]
  BY <1>2, SliceIs
<1>5. Behind(s) = SubSeq(all, 1, c) /\ Injected(s) = SubSeq(all, d, Len(all))
  BY DEF Behind, Injected, all, c, d
<1> DEFINE b == Behind(s)
           h == Injected(s)
<1> HIDE DEF b, h
<1>6. /\ b \in Seq(Corridors) /\ Len(b) = IF 1 <= c THEN c - 1 + 1 ELSE 0
      /\ \A i \in 1 .. c - 1 + 1 : b[i] = all[1 + i - 1]
  BY <1>3, <1>5 DEF b
<1>7. /\ h \in Seq(Corridors) /\ Len(h) = IF d <= Len(all) THEN Len(all) - d + 1 ELSE 0
      /\ \A i \in 1 .. Len(all) - d + 1 : h[i] = all[d + i - 1]
  BY <1>4, <1>5 DEF h
<1>8. c \in Nat /\ Len(all) \in Nat /\ c <= Len(all) /\ d = c + 1
  BY <1>2
<1>9. Len(b) = c /\ \A i \in 1 .. c : b[i] = all[i]
  BY <1>6, <1>8
<1>10. Len(h) = Len(all) - c /\ \A i \in 1 .. Len(all) - c : h[i] = all[c + i]
  BY <1>7, <1>8
<1> QED
  BY <1>6, <1>7, <1>9, <1>10 DEF b, h, c, all


-----------------------------------------------------------------------------
(* One walk of a chain.                                                      *)

\* Which part of the chain answered.
HostAnswers(r, s, n) == CorridorHit(Injected(s), n).hit /\ r = CorridorHit(Injected(s), n)

FrameAnswers(r, s, n) ==
  \E owners : /\ seals.trivial \/ owners = OwnersOf(seals, n)
              /\ \E i \in DOMAIN s.levels : \E frame :
                   FramedIn(frame, s.levels, i, n, owners) /\ r = Admit(frame, n)

BehindAnswers(r, s, n) ==
  /\ seals.trivial \/ OwnersOf(seals, n) = {}
  /\ CorridorHit(Behind(s), n).hit /\ r = CorridorHit(Behind(s), n)

RootAnswers(r, s, n) == ~s.severed /\ r = Admit(AnswerOf(RootOf[root], n), n)

LEMMA ResolveIs ==
  ASSUME ChainAssumption, NEW s, IsScope(s), NEW n \in Texts
  PROVE  LET r == ResolveIn(s, n)
         IN  \/ HostAnswers(r, s, n) \/ FrameAnswers(r, s, n) \/ BehindAnswers(r, s, n)
             \/ RootAnswers(r, s, n) \/ (r = Miss /\ s.severed)
<1> DEFINE owners == IF seals.trivial THEN {} ELSE OwnersOf(seals, n)
           host == CorridorHit(Injected(s), n)
           frame == FrameHit(s.levels, n, owners)
           behind == IF owners = {} THEN CorridorHit(Behind(s), n) ELSE Miss
           other == Admit(AnswerOf(RootOf[root], n), n)
           admitted == Admit(frame, n)
           r == ResolveIn(s, n)
<1>1. r = IF host.hit THEN host
          ELSE IF frame.hit THEN admitted
          ELSE IF behind.hit THEN behind
          ELSE IF s.severed THEN Miss ELSE other
  BY DEF ResolveIn
<1>2. frame = Miss \/ \E i \in DOMAIN s.levels : FramedIn(frame, s.levels, i, n, owners)
  BY FrameHitIs DEF IsScope
<1>3. behind.hit => BehindAnswers(behind, s, n)
  BY DEF BehindAnswers, Miss
<1>4. host.hit => HostAnswers(host, s, n)
  BY DEF HostAnswers
<1>5. seals.trivial \/ owners = OwnersOf(seals, n)
  OBVIOUS
<1>6. frame.hit => FrameAnswers(admitted, s, n)
  <2> HIDE DEF frame, owners
  <2> QED
    BY <1>2, <1>5 DEF FrameAnswers, Miss
<1>7. ~s.severed => RootAnswers(other, s, n)
  BY DEF RootAnswers
<1> HIDE DEF owners, host, frame, behind, other, admitted, r
<1>8. HostAnswers(r, s, n) \/ FrameAnswers(r, s, n) \/ BehindAnswers(r, s, n)
        \/ RootAnswers(r, s, n) \/ (r = Miss /\ s.severed)
  <2>1. CASE host.hit
    BY <1>1, <1>4, <2>1 DEF HostAnswers
  <2>2. CASE ~host.hit /\ frame.hit
    BY <1>1, <1>6, <2>2 DEF FrameAnswers
  <2>3. CASE ~host.hit /\ ~frame.hit /\ behind.hit
    BY <1>1, <1>3, <2>3 DEF BehindAnswers
  <2>4. CASE ~host.hit /\ ~frame.hit /\ ~behind.hit
    BY <1>1, <1>7, <2>4 DEF RootAnswers
  <2> QED
    BY <2>1, <2>2, <2>3, <2>4
<1> QED
  BY <1>8 DEF r

\* What is admitted and hits was found, and its names may be answered there.
LEMMA AdmittedIs ==
  ASSUME ChainAssumption, NEW q, IsHit(q) \/ q = Miss, NEW n \in Texts, Admit(q, n).hit
  PROVE  /\ Admit(q, n) = q /\ IsHit(q)
         /\ \/ IsLimiter(q)
            \/ seals.trivial /\ q.levels = << >> /\ q.canonical = NoValue
            \/ AdmitNames(seals, {n, q.canonical} \ {NoValue}, q.levels)
<1>1. Admit(q, n) = q
  BY DEF Admit, Breach
<1>2. q.hit
  BY <1>1
<1>3. IsHit(q)
  BY <1>2 DEF Miss
<1>4. Admit(q, n) # Breach
  BY <1>1, <1>2 DEF Breach
<1> QED
  BY <1>1, <1>2, <1>3, <1>4 DEF Admit

CorridorsIn(cs) == { cs[i] : i \in DOMAIN cs }

LEMMA DoorsOfCorridors ==
  ASSUME NEW cs
  PROVE  CorridorDoors(cs) = UNION { DoorsOfSpace(CorridorOf[c.space]) : c \in CorridorsIn(cs) }
BY DEF CorridorDoors, CorridorsIn

LEMMA CorridorDoor ==
  ASSUME ChainAssumption, NEW cs \in Seq(Corridors), NEW n \in Texts, CorridorHit(cs, n).hit
  PROVE  LET r == CorridorHit(cs, n)
         IN  /\ IsHit(r)
             /\ IsLimiter(r) \/ r.door \in CorridorDoors(cs)
             /\ \A k \in DOMAIN r.levels :
                  DoorsOfSpace(LevelOf[r.levels[k]].inner) \subseteq CorridorDoors(cs)
<1> DEFINE r == CorridorHit(cs, n)
<1>1. PICK i \in DOMAIN cs : HitIn(r, CorridorOf[cs[i].space])
  BY CorridorHitOf
<1>2. DoorsOfSpace(CorridorOf[cs[i].space]) \subseteq CorridorDoors(cs)
  BY DEF CorridorDoors
<1> HIDE DEF r
<1> QED
  BY <1>1, <1>2 DEF HitIn, InPlace, r

LEMMA PartsOf ==
  ASSUME NEW s, IsScope(s)
  PROVE  /\ CorridorsIn(s.injected) = CorridorsIn(Behind(s)) \cup CorridorsIn(Injected(s))
         /\ CorridorDoors(Behind(s)) \subseteq CorridorDoors(s.injected)
         /\ CorridorDoors(Injected(s)) \subseteq CorridorDoors(s.injected)
<1> DEFINE all == s.injected
           c == s.confined
           b == Behind(s)
           h == Injected(s)
<1>1. all \in Seq(Corridors) /\ c \in Nat /\ c <= Len(all)
  BY DEF IsScope
<1>2. /\ b \in Seq(Corridors) /\ Len(b) = c /\ \A i \in 1 .. c : b[i] = all[i]
      /\ h \in Seq(Corridors) /\ Len(h) = Len(all) - c /\ \A i \in 1 .. Len(all) - c : h[i] = all[c + i]
  BY SplitIs
<1> HIDE DEF all, c, b, h
<1>3. /\ Len(all) \in Nat /\ DOMAIN all = 1 .. Len(all)
      /\ DOMAIN b = 1 .. c /\ DOMAIN h = 1 .. Len(all) - c
  BY <1>1, <1>2
<1>4. \A i \in DOMAIN all : all[i] \in CorridorsIn(b) \cup CorridorsIn(h)
  <2> SUFFICES ASSUME NEW i \in DOMAIN all PROVE all[i] \in CorridorsIn(b) \cup CorridorsIn(h)
    OBVIOUS
  <2>1. CASE i <= c
    <3>1. i \in DOMAIN b /\ b[i] = all[i]
      BY <1>1, <1>2, <1>3, <2>1
    <3> QED
      BY <3>1 DEF CorridorsIn
  <2>2. CASE ~(i <= c)
    <3> DEFINE k == i - c
    <3>1. k \in 1 .. Len(all) - c /\ c + k = i
      BY <1>1, <1>3, <2>2
    <3> HIDE DEF k
    <3>2. k \in DOMAIN h /\ h[k] = all[i]
      BY <1>2, <1>3, <3>1
    <3> QED
      BY <3>2 DEF CorridorsIn
  <2> QED
    BY <2>1, <2>2
<1>5. \A i \in DOMAIN b : b[i] \in CorridorsIn(all)
  BY <1>1, <1>2, <1>3 DEF CorridorsIn
<1>6. \A i \in DOMAIN h : h[i] \in CorridorsIn(all)
  <2> SUFFICES ASSUME NEW i \in DOMAIN h PROVE h[i] \in CorridorsIn(all)
    OBVIOUS
  <2>1. c + i \in DOMAIN all /\ h[i] = all[c + i]
    BY <1>1, <1>2, <1>3
  <2> QED
    BY <2>1 DEF CorridorsIn
<1>7. CorridorsIn(all) = CorridorsIn(b) \cup CorridorsIn(h)
  BY <1>4, <1>5, <1>6 DEF CorridorsIn
<1>8. CorridorDoors(b) \subseteq CorridorDoors(all) /\ CorridorDoors(h) \subseteq CorridorDoors(all)
  BY <1>7, DoorsOfCorridors
<1> QED
  BY <1>7, <1>8 DEF all, b, h

\* What an endpoint is reached by: a hit, and what holds of where it stands.
LEMMA ReachedIs ==
  ASSUME ChainAssumption, root \in DOMAIN RootOf, NEW s, IsScope(s), NEW n \in Texts, ResolveIn(s, n).hit
  PROVE  LET r == ResolveIn(s, n)
         IN  /\ IsHit(r)
             /\ Kept(s) /\ s.confined > 0 =>
                  /\ r.door \in CorridorDoors(s.injected) \cup {"bottom"}
                  /\ \A k \in DOMAIN r.levels :
                       DoorsOfSpace(LevelOf[r.levels[k]].inner) \subseteq CorridorDoors(s.injected)
<1> DEFINE r == ResolveIn(s, n)
           all == CorridorDoors(s.injected)
           StaysIn == /\ r.door \in all \cup {"bottom"}
                      /\ \A k \in DOMAIN r.levels : DoorsOfSpace(LevelOf[r.levels[k]].inner) \subseteq all
<1>1. r.hit
  OBVIOUS
<1>2. \/ HostAnswers(r, s, n) \/ FrameAnswers(r, s, n) \/ BehindAnswers(r, s, n)
      \/ RootAnswers(r, s, n) \/ (r = Miss /\ s.severed)
  BY ResolveIs
<1>3. /\ Behind(s) \in Seq(Corridors) /\ CorridorDoors(Behind(s)) \subseteq all
      /\ Injected(s) \in Seq(Corridors) /\ CorridorDoors(Injected(s)) \subseteq all
  BY SplitIs, PartsOf
<1>4. s.levels \in Seq(DOMAIN LevelOf)
  BY DEF IsScope
<1> HIDE DEF r, all
<1>5. IsHit(r) /\ (Kept(s) /\ s.confined > 0 => StaysIn)
  <2>1. CASE HostAnswers(r, s, n)
    BY <1>3, <2>1, CorridorDoor DEF HostAnswers, IsLimiter
  <2>2. CASE BehindAnswers(r, s, n)
    BY <1>3, <2>2, CorridorDoor DEF BehindAnswers, IsLimiter
  <2>3. CASE FrameAnswers(r, s, n)
    <3>1. PICK owners : \E i \in DOMAIN s.levels : \E f : FramedIn(f, s.levels, i, n, owners) /\ r = Admit(f, n)
      BY <2>3 DEF FrameAnswers
    <3>2. PICK i \in DOMAIN s.levels : \E f : FramedIn(f, s.levels, i, n, owners) /\ r = Admit(f, n)
      BY <3>1
    <3>3. PICK f : FramedIn(f, s.levels, i, n, owners) /\ r = Admit(f, n)
      BY <3>2
    <3> DEFINE frame == LevelOf[s.levels[i]].inner
               found == LevelAnswer(s.levels[i], n)
    <3>4. IsHit(f) /\ (IsLimiter(f) \/ f.door \in DoorsOfSpace(frame))
      BY <1>4, <3>3, FramedHit
    <3>5. PathOf(f.levels, s.levels, found.levels)
      BY <1>4, <3>3, FramedHit
    <3>6. \A j \in DOMAIN found.levels : DoorsOfSpace(LevelOf[found.levels[j]].inner) \subseteq DoorsOfSpace(frame)
      BY <1>4, <3>3, FramedHit
    <3>7. r = f
      BY <1>1, <3>3, <3>4, AdmittedIs
    <3>8. Kept(s) /\ s.confined > 0 => \A j \in DOMAIN s.levels : DoorsOfSpace(LevelOf[s.levels[j]].inner) \subseteq all
      BY DEF Kept, all
    <3> HIDE DEF found
    <3> QED
      BY <3>4, <3>7, <3>8, <3>5, <3>6 DEF IsLimiter, PathOf
  <2>4. CASE RootAnswers(r, s, n)
    <3>1. AnswerIn(AnswerOf(RootOf[root], n), RootOf[root])
      BY AnswersInPlace DEF ChainAssumption, AnswerOf
    <3>2. IsHit(r)
      BY <1>1, <2>4, <3>1, AdmittedIs DEF RootAnswers, AnswerIn, HitIn
    <3>3. ~(Kept(s) /\ s.confined > 0)
      BY <2>4 DEF RootAnswers, Kept
    <3> QED
      BY <3>2, <3>3
  <2>5. CASE r = Miss
    BY <1>1, <2>5 DEF Miss
  <2> QED
    BY <1>2, <2>1, <2>2, <2>3, <2>4, <2>5
<1> QED
  BY <1>5 DEF r, all

\* A chain that keeps to its corridors reaches no other door.
LEMMA KeptIsContained ==
  ASSUME ChainAssumption, root \in DOMAIN RootOf, NEW s, IsScope(s), Kept(s)
  PROVE  Contained(s)
BY ReachedIs DEF Contained, ChainAssumption

\* What one chain answers a sealed name with.
SealedFor(s) ==
  \A n \in Asked :
    LET r == ResolveIn(s, n)
    IN  r.hit /\ ~IsLimiter(r) /\ r.door \notin CorridorDoors(Injected(s)) =>
          \A m \in NamesOf(r, s, n) : \A owner \in OwnersOf(seals, m) :
            \E p \in Doorways[RootOf[root]] :
              /\ p[1] = r.door
              /\ owner = "host" => p[2] = NoValue
              /\ owner # "host" => p[2] \in seals.levels /\ LevelOf[p[2]].name = owner

Owned(door, owner) ==
  \E p \in Doorways[RootOf[root]] :
    /\ p[1] = door
    /\ owner = "host" => p[2] = NoValue
    /\ owner # "host" => p[2] \in seals.levels /\ LevelOf[p[2]].name = owner

LEMMA OwnedBy ==
  ASSUME NEW d, NEW l, NEW owner, <<d, l>> \in Doorways[RootOf[root]],
         owner = "host" => l = NoValue,
         owner # "host" => l \in seals.levels /\ LevelOf[l].name = owner
  PROVE  Owned(d, owner)
<1> DEFINE p == <<d, l>>
<1>1. p \in Doorways[RootOf[root]] /\ p[1] = d /\ p[2] = l
  OBVIOUS
<1> HIDE DEF p
<1> QED
  BY <1>1 DEF Owned

\* An answer that was admitted stands where the owner of its names is.
LEMMA AdmittedOwned ==
  ASSUME ChainAssumption, root \in DOMAIN RootOf, TableFor(seals, RootOf[root]),
         NEW r, IsHit(r), NEW names, AdmitNames(seals, names, r.levels),
         r.levels = << >> => <<r.door, NoValue>> \in Doorways[RootOf[root]],
         r.levels # << >> => <<r.door, NoValue>> \in Doorways[LevelOf[r.levels[1]].inner],
         NEW m \in names, NEW owner \in OwnersOf(seals, m)
  PROVE  Owned(r.door, owner)
<1>1. /\ owner # "core"
      /\ owner = "host" => r.levels = << >>
      /\ owner # "host" => r.levels # << >> /\ IsOwner(seals, owner, Head(r.levels))
  BY DEF AdmitNames
<1>2. CASE owner = "host"
  BY <1>1, <1>2, OwnedBy
<1>3. CASE owner # "host"
  <2>1. r.levels # << >> /\ r.levels[1] \in seals.levels /\ LevelOf[r.levels[1]].name = owner
    BY <1>1, <1>3 DEF IsOwner, IsHit
  <2>2. <<r.door, r.levels[1]>> \in Doorways[RootOf[root]]
    BY <2>1, RegisteredStands DEF ChainAssumption
  <2> QED
    BY <1>3, <2>1, <2>2, OwnedBy
<1> QED
  BY <1>2, <1>3

LEMMA NamesAre ==
  ASSUME NEW r, NEW s, NEW n, NEW m \in NamesOf(r, s, n)
  PROVE  m = n \/ (r.door \notin CorridorDoors(Behind(s)) /\ m = r.canonical /\ m # NoValue)
<1> DEFINE confined == CorridorDoors(Behind(s))
<1>1. CASE r.door \in confined
  <2>1. NamesOf(r, s, n) = {n}
    BY <1>1 DEF NamesOf
  <2> QED
    BY <2>1
<1>2. CASE r.door \notin confined
  <2>1. NamesOf(r, s, n) = {n} \cup ({r.canonical} \ {NoValue})
    BY <1>2 DEF NamesOf
  <2> QED
    BY <1>2, <2>1
<1> QED
  BY <1>1, <1>2

LEMMA ChainsAreSealed ==
  ASSUME ChainAssumption, root \in DOMAIN RootOf, TableFor(seals, RootOf[root]), NEW s, IsScope(s)
  PROVE  SealedFor(s)
<1> SUFFICES ASSUME NEW n \in Asked, ResolveIn(s, n).hit, ~IsLimiter(ResolveIn(s, n)),
                    ResolveIn(s, n).door \notin CorridorDoors(Injected(s)),
                    NEW m \in NamesOf(ResolveIn(s, n), s, n), NEW owner \in OwnersOf(seals, m)
             PROVE  Owned(ResolveIn(s, n).door, owner)
  BY DEF SealedFor, Owned
<1> DEFINE r == ResolveIn(s, n)
<1>1. r.hit /\ ~IsLimiter(r) /\ r.door \notin CorridorDoors(Injected(s)) /\ m \in NamesOf(r, s, n)
  OBVIOUS
<1>2. \/ HostAnswers(r, s, n) \/ FrameAnswers(r, s, n) \/ BehindAnswers(r, s, n)
      \/ RootAnswers(r, s, n) \/ r = Miss
  BY ResolveIs DEF ChainAssumption
<1>3. /\ n \in Texts /\ n # NoValue /\ "core" \notin OwnersOf(seals, n)
      /\ seals.trivial => \A k : OwnersOf(seals, k) \subseteq {"core"}
      /\ RootOf[root] \in Trees
  BY TableHolds DEF ChainAssumption, SpaceAssumption
<1>4. Behind(s) \in Seq(Corridors) /\ Injected(s) \in Seq(Corridors) /\ s.levels \in Seq(DOMAIN LevelOf)
  BY SplitIs DEF IsScope
<1> HIDE DEF r
<1>5. m = n \/ (m = r.canonical /\ m # NoValue)
  BY <1>1, NamesAre
<1>6. r.door \in CorridorDoors(Behind(s)) => m = n
  BY <1>1, NamesAre
<1>7. CASE HostAnswers(r, s, n)
  BY <1>1, <1>3, <1>4, <1>7, CorridorDoor DEF HostAnswers
<1>8. CASE BehindAnswers(r, s, n)
  <2>1. r.door \in CorridorDoors(Behind(s))
    BY <1>1, <1>3, <1>4, <1>8, CorridorDoor DEF BehindAnswers
  <2> QED
    BY <1>3, <1>6, <1>8, <2>1 DEF BehindAnswers
<1>9. CASE FrameAnswers(r, s, n)
  <2>1. PICK owners : \E i \in DOMAIN s.levels : \E f : FramedIn(f, s.levels, i, n, owners) /\ r = Admit(f, n)
    BY <1>9 DEF FrameAnswers
  <2>2. PICK i \in DOMAIN s.levels : \E f : FramedIn(f, s.levels, i, n, owners) /\ r = Admit(f, n)
    BY <2>1
  <2>3. PICK f : FramedIn(f, s.levels, i, n, owners) /\ r = Admit(f, n)
    BY <2>2
  <2>4. /\ IsHit(f) /\ f.levels # << >>
        /\ IsLimiter(f) \/ <<f.door, NoValue>> \in Doorways[LevelOf[f.levels[1]].inner]
    BY <1>4, <2>3, FramedHit
  <2>5. r = f /\ AdmitNames(seals, {n, f.canonical} \ {NoValue}, f.levels)
    BY <1>1, <1>3, <2>3, <2>4, AdmittedIs
  <2>6. m \in {n, f.canonical} \ {NoValue}
    BY <1>3, <1>5, <2>5
  <2>7. Owned(f.door, owner)
    BY <1>1, <2>4, <2>5, <2>6, AdmittedOwned
  <2> QED
    BY <2>5, <2>7 DEF r
<1>10. CASE RootAnswers(r, s, n)
  <2> DEFINE q == AnswerOf(RootOf[root], n)
  <2>1. AnswerIn(q, RootOf[root])
    BY <1>3, AnswersInPlace DEF ChainAssumption, AnswerOf
  <2>2. r = Admit(q, n)
    BY <1>10 DEF RootAnswers
  <2> HIDE DEF q
  <2>3. /\ r = q /\ IsHit(q)
        /\ \/ seals.trivial /\ q.levels = << >> /\ q.canonical = NoValue
           \/ AdmitNames(seals, {n, q.canonical} \ {NoValue}, q.levels)
    BY <1>1, <1>3, <2>1, <2>2, AdmittedIs DEF AnswerIn, HitIn
  <2>4. InPlace(q, RootOf[root])
    BY <2>1, <2>3, <1>1 DEF AnswerIn, HitIn, Miss
  <2>5. CASE seals.trivial /\ q.canonical = NoValue
    BY <1>3, <1>5, <2>3, <2>5
  <2>6. CASE AdmitNames(seals, {n, q.canonical} \ {NoValue}, q.levels)
    <3>1. m \in {n, q.canonical} \ {NoValue}
      BY <1>3, <1>5, <2>3
    <3>2. /\ q.levels = << >> => <<q.door, NoValue>> \in Doorways[RootOf[root]]
          /\ q.levels # << >> => <<q.door, NoValue>> \in Doorways[LevelOf[q.levels[1]].inner]
      BY <1>1, <2>3, <2>4 DEF InPlace
    <3>3. Owned(q.door, owner)
      BY <2>3, <2>6, <3>1, <3>2, AdmittedOwned
    <3> QED
      BY <2>3, <3>3 DEF r
  <2> QED
    BY <2>3, <2>5, <2>6
<1>11. CASE r = Miss
  BY <1>1, <1>11 DEF Miss
<1> QED
  BY <1>2, <1>7, <1>8, <1>9, <1>10, <1>11

-----------------------------------------------------------------------------
(* How a chain is extended.                                                  *)

LEMMA ScopeOf ==
  ASSUME NEW a \in Seq(Corridors), NEW c \in Nat, c <= Len(a), NEW l \in Seq(DOMAIN LevelOf), NEW v \in BOOLEAN,
         NEW s, s = [injected |-> a, confined |-> c, levels |-> l, severed |-> v]
  PROVE  IsScope(s) /\ s.injected = a /\ s.confined = c /\ s.levels = l /\ s.severed = v
<1>1. s.injected = a /\ s.confined = c /\ s.levels = l /\ s.severed = v
  OBVIOUS
<1> QED
  BY <1>1 DEF IsScope

LEMMA JoinedCorridors ==
  ASSUME NEW a \in Seq(Corridors), NEW b \in Seq(Corridors), NEW q, q = a \o b
  PROVE  q \in Seq(Corridors) /\ Len(q) = Len(a) + Len(b) /\ CorridorsIn(q) = CorridorsIn(a) \cup CorridorsIn(b)
<1> DEFINE r == a \o b
<1>1. /\ r \in Seq(Corridors) /\ Len(r) = Len(a) + Len(b)
      /\ \A k \in 1 .. Len(a) + Len(b) : r[k] = IF k <= Len(a) THEN a[k] ELSE b[k - Len(a)]
  BY ConcatProperties
<1>2. q = r
  OBVIOUS
<1> HIDE DEF r
<1>3. /\ Len(a) \in Nat /\ Len(b) \in Nat /\ DOMAIN a = 1 .. Len(a) /\ DOMAIN b = 1 .. Len(b)
      /\ DOMAIN q = 1 .. Len(a) + Len(b)
  BY <1>1, <1>2
<1>4. \A k \in DOMAIN q : q[k] \in CorridorsIn(a) \cup CorridorsIn(b)
  <2> SUFFICES ASSUME NEW k \in DOMAIN q PROVE q[k] \in CorridorsIn(a) \cup CorridorsIn(b)
    OBVIOUS
  <2>1. CASE k <= Len(a)
    <3>1. k \in DOMAIN a /\ q[k] = a[k]
      BY <1>1, <1>2, <1>3, <2>1
    <3> QED
      BY <3>1 DEF CorridorsIn
  <2>2. CASE ~(k <= Len(a))
    <3>1. k - Len(a) \in DOMAIN b /\ q[k] = b[k - Len(a)]
      BY <1>1, <1>2, <1>3, <2>2
    <3> QED
      BY <3>1 DEF CorridorsIn
  <2> QED
    BY <2>1, <2>2
<1>5. \A k \in DOMAIN a : a[k] \in CorridorsIn(q)
  <2> SUFFICES ASSUME NEW k \in DOMAIN a PROVE a[k] \in CorridorsIn(q)
    OBVIOUS
  <2>1. k \in DOMAIN q /\ q[k] = a[k]
    BY <1>1, <1>2, <1>3
  <2> QED
    BY <2>1 DEF CorridorsIn
<1>6. \A k \in DOMAIN b : b[k] \in CorridorsIn(q)
  <2> SUFFICES ASSUME NEW k \in DOMAIN b PROVE b[k] \in CorridorsIn(q)
    OBVIOUS
  <2> DEFINE j == k + Len(a)
  <2>1. j \in DOMAIN q /\ ~(j <= Len(a)) /\ j - Len(a) = k
    BY <1>3
  <2> HIDE DEF j
  <2>2. q[j] = b[k]
    BY <1>1, <1>2, <1>3, <2>1
  <2> QED
    BY <2>1, <2>2 DEF CorridorsIn
<1>7. CorridorsIn(q) = CorridorsIn(a) \cup CorridorsIn(b)
  <2>1. CorridorsIn(q) \subseteq CorridorsIn(a) \cup CorridorsIn(b)
    <3> SUFFICES ASSUME NEW x \in CorridorsIn(q) PROVE x \in CorridorsIn(a) \cup CorridorsIn(b)
      OBVIOUS
    <3>1. PICK k \in DOMAIN q : x = q[k]
      BY DEF CorridorsIn
    <3> QED
      BY <1>4, <3>1
  <2>2. CorridorsIn(a) \subseteq CorridorsIn(q)
    <3> SUFFICES ASSUME NEW x \in CorridorsIn(a) PROVE x \in CorridorsIn(q)
      OBVIOUS
    <3>1. PICK k \in DOMAIN a : x = a[k]
      BY DEF CorridorsIn
    <3> QED
      BY <1>5, <3>1
  <2>3. CorridorsIn(b) \subseteq CorridorsIn(q)
    <3> SUFFICES ASSUME NEW x \in CorridorsIn(b) PROVE x \in CorridorsIn(q)
      OBVIOUS
    <3>1. PICK k \in DOMAIN b : x = b[k]
      BY DEF CorridorsIn
    <3> QED
      BY <1>6, <3>1
  <2> QED
    BY <2>1, <2>2, <2>3
<1> QED
  BY <1>1, <1>2, <1>7

LEMMA OneCorridor ==
  ASSUME NEW a \in Seq(Corridors), NEW k \in Corridors
  PROVE  /\ <<k>> \in Seq(Corridors) /\ Len(<<k>>) = 1 /\ CorridorsIn(<<k>>) = {k}
         /\ Append(a, k) = a \o <<k>>
<1>1. <<k>> \in Seq(Corridors) /\ Len(<<k>>) = 1 /\ DOMAIN <<k>> = {1} /\ <<k>>[1] = k
  OBVIOUS
<1>2. Append(a, k) = a \o <<k>>
  BY AppendIsConcat
<1> QED
  BY <1>1, <1>2 DEF CorridorsIn

LEMMA IdentityIs ==
  ASSUME NEW c \in DOMAIN CorridorOf
  PROVE  /\ Corridor(c, ByName(c)) \in Corridors
         /\ \A k \in Nat : Corridor(c, Anonymous(k)) \in Corridors
BY DEF Corridor, Corridors, Identities

\* A corridor more, a level stack, a severed root.
LEMMA WithIs ==
  ASSUME NEW s, IsScope(s), NEW c, NEW id, Corridor(c, id) \in Corridors
  PROVE  LET t == With(s, c, id)
         IN  /\ IsScope(t) /\ t.confined = s.confined /\ t.levels = s.levels /\ t.severed = s.severed
             /\ CorridorsIn(t.injected) = CorridorsIn(s.injected) \cup {Corridor(c, id)}
<1> DEFINE k == Corridor(c, id)
           a == Append(s.injected, k)
           t == [s EXCEPT !.injected = a]
<1>1. /\ s = [injected |-> s.injected, confined |-> s.confined, levels |-> s.levels, severed |-> s.severed]
      /\ s.injected \in Seq(Corridors) /\ s.confined \in Nat /\ s.confined <= Len(s.injected)
      /\ s.levels \in Seq(DOMAIN LevelOf) /\ s.severed \in BOOLEAN
  BY DEF IsScope
<1>2. With(s, c, id) = t
  BY DEF With
<1> HIDE DEF k
<1>3. <<k>> \in Seq(Corridors) /\ Len(<<k>>) = 1 /\ CorridorsIn(<<k>>) = {k} /\ a = s.injected \o <<k>>
  BY <1>1, OneCorridor DEF k
<1> HIDE DEF a
<1> DEFINE one == <<k>>
<1>4. one \in Seq(Corridors) /\ Len(one) = 1 /\ CorridorsIn(one) = {k} /\ a = s.injected \o one
  BY <1>3
<1> HIDE DEF one
<1> DEFINE old == s.injected
<1>5. old \in Seq(Corridors) /\ a = old \o one
  BY <1>1, <1>4
<1> HIDE DEF old
<1>6. /\ a \in Seq(Corridors) /\ Len(a) = Len(old) + 1
      /\ CorridorsIn(a) = CorridorsIn(old) \cup {k}
  <2>1. one \in Seq(Corridors) /\ a = old \o one
    BY <1>4, <1>5
  <2>2. /\ a \in Seq(Corridors) /\ Len(a) = Len(old) + Len(one)
        /\ CorridorsIn(a) = CorridorsIn(old) \cup CorridorsIn(one)
    BY <1>5, <2>1, JoinedCorridors
  <2> QED
    BY <1>4, <2>2
<1>7. /\ a \in Seq(Corridors) /\ Len(a) = Len(s.injected) + 1
      /\ CorridorsIn(a) = CorridorsIn(s.injected) \cup {k}
  BY <1>6 DEF old
<1>8. t = [injected |-> a, confined |-> s.confined, levels |-> s.levels, severed |-> s.severed]
  BY <1>1
<1> HIDE DEF t
<1>9. s.confined <= Len(a)
  BY <1>1, <1>7
<1>10. IsScope(t) /\ t.injected = a /\ t.confined = s.confined /\ t.levels = s.levels /\ t.severed = s.severed
  BY <1>1, <1>7, <1>8, <1>9, ScopeOf
<1> QED
  BY <1>2, <1>7, <1>10 DEF k

LEMMA SeveredIs ==
  ASSUME NEW s, IsScope(s)
  PROVE  LET t == Severed(s)
         IN  /\ IsScope(t) /\ t.confined = s.confined /\ t.levels = s.levels /\ t.severed
             /\ t.injected = s.injected
<1> DEFINE t == Severed(s)
<1>1. /\ s = [injected |-> s.injected, confined |-> s.confined, levels |-> s.levels, severed |-> s.severed]
      /\ s.injected \in Seq(Corridors) /\ s.confined \in Nat /\ s.confined <= Len(s.injected)
      /\ s.levels \in Seq(DOMAIN LevelOf) /\ s.severed \in BOOLEAN
  BY DEF IsScope
<1>2. PICK h \in BOOLEAN : h = TRUE
  OBVIOUS
<1> DEFINE u == [s EXCEPT !.severed = h]
<1>3. u = [injected |-> s.injected, confined |-> s.confined, levels |-> s.levels, severed |-> h]
  BY <1>1
<1>4. t = u
  BY <1>2 DEF Severed
<1> HIDE DEF t, u
<1>5. IsScope(u) /\ u.injected = s.injected /\ u.confined = s.confined /\ u.levels = s.levels /\ u.severed = h
  BY <1>1, <1>3, ScopeOf
<1> QED
  BY <1>2, <1>5, <1>4 DEF t

LEMMA DescendIs ==
  ASSUME NEW s, IsScope(s), NEW path \in Seq(DOMAIN LevelOf)
  PROVE  LET t == Descend(s, path)
         IN  /\ IsScope(t) /\ t.confined = s.confined /\ t.levels = path /\ t.severed = s.severed
             /\ t.injected = s.injected
<1> DEFINE t == Descend(s, path)
<1>1. /\ s = [injected |-> s.injected, confined |-> s.confined, levels |-> s.levels, severed |-> s.severed]
      /\ s.injected \in Seq(Corridors) /\ s.confined \in Nat /\ s.confined <= Len(s.injected)
      /\ s.severed \in BOOLEAN
  BY DEF IsScope
<1>2. t = [injected |-> s.injected, confined |-> s.confined, levels |-> path, severed |-> s.severed]
  BY <1>1 DEF Descend
<1> HIDE DEF t
<1>3. /\ IsScope(t) /\ t.injected = s.injected /\ t.confined = s.confined /\ t.levels = path
      /\ t.severed = s.severed
  BY <1>1, <1>2, ScopeOf
<1> QED
  BY <1>3 DEF t

LEMMA ConfinedIs ==
  ASSUME NEW s, IsScope(s), NEW c \in DOMAIN CorridorOf
  PROVE  LET t == Confined(s, c)
         IN  /\ IsScope(t) /\ t.levels = << >> /\ t.severed
             /\ CorridorsIn(t.injected) = CorridorsIn(s.injected) \cup {Corridor(c, ByName(c))}
<1> DEFINE k == Corridor(c, ByName(c))
           a == <<k>> \o s.injected
           t == Confined(s, c)
           c1 == s.confined + 1
           none == << >>
<1>1. /\ s.injected \in Seq(Corridors) /\ s.confined \in Nat /\ s.confined <= Len(s.injected)
      /\ Len(s.injected) \in Nat /\ s.confined + 1 \in Nat
  BY DEF IsScope
<1>2. PICK h \in BOOLEAN : h = TRUE
  OBVIOUS
<1>3. t = [injected |-> a, confined |-> c1, levels |-> none, severed |-> h]
  BY <1>2 DEF Confined
<1>4. k \in Corridors
  BY IdentityIs
<1> HIDE DEF k
<1> DEFINE one == <<k>>
<1>5. one \in Seq(Corridors) /\ Len(one) = 1 /\ CorridorsIn(one) = {k} /\ a = one \o s.injected
  BY <1>1, <1>4, OneCorridor
<1> HIDE DEF one, a
<1>6. /\ a \in Seq(Corridors) /\ Len(a) = 1 + Len(s.injected)
      /\ CorridorsIn(a) = {k} \cup CorridorsIn(s.injected)
  BY <1>1, <1>5, JoinedCorridors
<1> HIDE DEF t
<1>7. c1 <= Len(a) /\ c1 \in Nat /\ none \in Seq(DOMAIN LevelOf)
  BY <1>1, <1>6, EmptySeq
<1> HIDE DEF c1, none
<1>8. IsScope(t) /\ t.injected = a /\ t.levels = none /\ t.severed = h
  BY <1>3, <1>6, <1>7, ScopeOf
<1> QED
  BY <1>2, <1>6, <1>8 DEF t, k, none

LEMMA StackIs ==
  ASSUME NEW s, IsScope(s), NEW inner, IsScope(inner)
  PROVE  LET t == Stack(s, inner)
         IN  /\ IsScope(t) /\ t.confined = s.confined + inner.confined
             /\ t.levels = IF inner.levels # << >> THEN inner.levels
                           ELSE IF inner.confined > 0 THEN << >> ELSE s.levels
             /\ t.severed <=> (s.severed \/ inner.severed)
             /\ CorridorsIn(t.injected) = CorridorsIn(s.injected) \cup CorridorsIn(inner.injected)
<1> DEFINE b == Behind(inner)
           h == Injected(inner)
           bs == b \o s.injected
           a == bs \o h
           t == Stack(s, inner)
           l == IF inner.levels # << >> THEN inner.levels ELSE IF inner.confined > 0 THEN << >> ELSE s.levels
           v == s.severed \/ inner.severed
           c == s.confined + inner.confined
<1>1. /\ s.injected \in Seq(Corridors) /\ s.confined \in Nat /\ s.confined <= Len(s.injected)
      /\ s.levels \in Seq(DOMAIN LevelOf) /\ inner.levels \in Seq(DOMAIN LevelOf)
      /\ inner.injected \in Seq(Corridors) /\ inner.confined \in Nat /\ inner.confined <= Len(inner.injected)
      /\ Len(s.injected) \in Nat /\ Len(inner.injected) \in Nat
  BY DEF IsScope
<1>2. /\ b \in Seq(Corridors) /\ Len(b) = inner.confined
      /\ h \in Seq(Corridors) /\ Len(h) = Len(inner.injected) - inner.confined
      /\ CorridorsIn(inner.injected) = CorridorsIn(b) \cup CorridorsIn(h)
  BY SplitIs, PartsOf
<1>3. t = [injected |-> a, confined |-> c, levels |-> l, severed |-> v]
  BY DEF Stack
<1>4. l \in Seq(DOMAIN LevelOf) /\ v \in BOOLEAN /\ c \in Nat
  BY <1>1, EmptySeq
<1>5. b \in Seq(Corridors) /\ s.injected \in Seq(Corridors) /\ bs = b \o s.injected
  BY <1>1, <1>2
<1> HIDE DEF b, h
<1>6. a = bs \o h
  OBVIOUS
<1> HIDE DEF bs, a
<1>7. /\ bs \in Seq(Corridors) /\ Len(bs) = Len(b) + Len(s.injected)
      /\ CorridorsIn(bs) = CorridorsIn(b) \cup CorridorsIn(s.injected)
  BY <1>5, JoinedCorridors
<1>8. /\ a \in Seq(Corridors) /\ Len(a) = Len(bs) + Len(h)
      /\ CorridorsIn(a) = CorridorsIn(bs) \cup CorridorsIn(h)
  BY <1>2, <1>6, <1>7, JoinedCorridors
<1>9. c <= Len(a)
  <2>1. Len(a) = inner.confined + Len(s.injected) + (Len(inner.injected) - inner.confined)
    BY <1>2, <1>7, <1>8
  <2>2. /\ s.confined \in Nat /\ inner.confined \in Nat /\ Len(s.injected) \in Nat
        /\ Len(inner.injected) \in Nat /\ s.confined <= Len(s.injected)
        /\ inner.confined <= Len(inner.injected)
    BY <1>1
  <2> QED
    BY <2>1, <2>2
<1> HIDE DEF t, l, v, c
<1>10. IsScope(t) /\ t.injected = a /\ t.confined = c /\ t.levels = l /\ t.severed = v
  BY <1>3, <1>4, <1>8, <1>9, ScopeOf
<1>11. CorridorsIn(t.injected) = CorridorsIn(s.injected) \cup CorridorsIn(inner.injected)
  BY <1>2, <1>7, <1>8, <1>10
<1> QED
  BY <1>10, <1>11 DEF t, l, v, c


-----------------------------------------------------------------------------
(* What holds of the chains of a kernel.                                     *)

OnChains == UNION { CorridorsIn(scope[w].injected) : w \in Who }

\* A corridor is known by its own name, or by a number given out before.
Tagged(k, upto) ==
  k \in Corridors /\ (k.id = ByName(k.space) \/ \E j \in Nat : j < upto /\ k.id = Anonymous(j))

Apart(K) == \A j, k \in K : j.id = k.id => j = k

\* A tree that shows everything, and no level that seals but a registered one.
Clear(t) == ShowsAll[t] /\ \A f \in LevelsShown(t) : Known(f.serial)

Plain(l) == Known(l) /\ Clear(LevelOf[l].inner)

ChainInv ==
  /\ root \in DOMAIN RootOf /\ TableFor(seals, RootOf[root])
  /\ scope = [w \in Who |-> scope[w]]
  /\ \A w \in Who : IsScope(scope[w]) /\ (scope[w].confined > 0 => scope[w].severed)
  /\ fresh \in Nat
  /\ \A k \in OnChains : Tagged(k, fresh)
  /\ Apart(OnChains)
  /\ NothingHidden => \A w \in Who : \A i \in DOMAIN scope[w].levels : Plain(scope[w].levels[i])

LEMMA ChainsStart ==
  ASSUME ChainAssumption, ChainsInit
  PROVE  ChainInv
<1> DEFINE s == EmptyScope
           none == << >>
           flat == << >>
           zero == 0
<1>1. PICK h \in BOOLEAN : h = FALSE
  OBVIOUS
<1>2. s = [injected |-> none, confined |-> zero, levels |-> flat, severed |-> h]
  BY <1>1 DEF EmptyScope
<1>3. /\ none \in Seq(Corridors) /\ flat \in Seq(DOMAIN LevelOf) /\ zero <= Len(none) /\ zero \in Nat
      /\ DOMAIN none = {} /\ DOMAIN flat = {}
  BY EmptySeq
<1> HIDE DEF s, none, flat, zero
<1>4. IsScope(s) /\ s.injected = none /\ s.confined = zero /\ s.levels = flat
  <2>1. none \in Seq(Corridors) /\ flat \in Seq(DOMAIN LevelOf) /\ zero <= Len(none) /\ zero \in Nat
    BY <1>3
  <2> QED
    BY <1>2, <2>1, ScopeOf
<1>5. scope = [w \in Who |-> s] /\ fresh \in Nat /\ root \in DOMAIN RootOf
  BY DEF ChainsInit, s
<1>6. TableFor(seals, RootOf[root])
  BY DEF ChainsInit, TableFor
<1>7. \A w \in Who : scope[w] = s
  BY <1>5
<1>8. OnChains = {}
  BY <1>3, <1>4, <1>7 DEF OnChains, CorridorsIn
<1>9. \A w \in Who : DOMAIN scope[w].levels = {}
  BY <1>3, <1>4, <1>7
<1> QED
  BY <1>4, <1>5, <1>6, <1>7, <1>8, <1>9 DEF ChainInv, Apart, zero

LEMMA Extended ==
  ASSUME ChainInv, NEW w \in Who, NEW s, IsScope(s), s.confined > 0 => s.severed,
         scope' = [scope EXCEPT ![w] = s], root' = root, seals' = seals,
         fresh' \in Nat, fresh <= fresh',
         NEW K, CorridorsIn(s.injected) \subseteq OnChains \cup K,
         \A k \in K : Tagged(k, fresh'), Apart(OnChains \cup K),
         NothingHidden => \A i \in DOMAIN s.levels : Plain(s.levels[i])
  PROVE  ChainInv'
<1>1. scope' = [scope EXCEPT ![w] = s] /\ root' = root /\ seals' = seals
  OBVIOUS
<1>2. scope = [v \in Who |-> scope[v]]
  BY DEF ChainInv
<1>3. scope' = [v \in Who |-> scope'[v]] /\ \A v \in Who : scope'[v] = IF v = w THEN s ELSE scope[v]
  BY <1>1, <1>2
<1>4. OnChains' \subseteq OnChains \cup K
  <2> SUFFICES ASSUME NEW v \in Who, NEW k \in CorridorsIn(scope'[v].injected) PROVE k \in OnChains \cup K
    BY DEF OnChains, CorridorsIn
  <2>1. CASE v = w
    BY <1>3, <2>1
  <2>2. CASE v # w
    BY <1>3, <2>2 DEF OnChains
  <2> QED
    BY <2>1, <2>2
<1>5. \A k \in OnChains' : Tagged(k, fresh')
  <2>1. \A k \in OnChains : Tagged(k, fresh')
    BY DEF ChainInv, Tagged
  <2> QED
    BY <1>4, <2>1
<1>6. Apart(OnChains')
  BY <1>4 DEF Apart
<1>7. \A v \in Who : IsScope(scope'[v]) /\ (scope'[v].confined > 0 => scope'[v].severed)
  BY <1>3 DEF ChainInv
<1>8. TableFor(seals', RootOf[root']) /\ root' \in DOMAIN RootOf
  BY <1>1 DEF ChainInv
<1>9. NothingHidden' => \A v \in Who : \A i \in DOMAIN scope'[v].levels : Plain(scope[v].levels[i])'
  <2> SUFFICES ASSUME NothingHidden', NEW v \in Who, NEW i \in DOMAIN scope'[v].levels
               PROVE  Plain(scope[v].levels[i])'
    OBVIOUS
  <2>1. NothingHidden
    BY <1>1 DEF NothingHidden, Known
  <2>2. Plain(scope'[v].levels[i])
    BY <1>3, <2>1 DEF ChainInv
  <2> QED
    BY <1>1, <2>2 DEF Plain, Clear, Known
<1> QED
  BY <1>3, <1>5, <1>6, <1>7, <1>8, <1>9 DEF ChainInv

-----------------------------------------------------------------------------
(* What a topology shows of where a name leads.                              *)

LEMMA PrefixIs ==
  ASSUME NEW S, NEW a \in Seq(S), NEW n \in Seq(S)
  PROVE  StartsWith(n, a) <=> Len(a) <= Len(n) /\ \A i \in 1 .. Len(a) : a[i] = n[i]
<1> DEFINE k == Len(a)
           b == SubSeq(a, 1, k)
           m == SubSeq(n, 1, k)
<1>1. k \in Nat /\ Len(n) \in Nat
  OBVIOUS
<1>2. StartsWith(n, a) <=> k <= Len(n) /\ b = m
  BY DEF StartsWith, IsPrefix
<1> SUFFICES ASSUME k <= Len(n) PROVE b = m <=> \A i \in 1 .. k : a[i] = n[i]
  BY <1>2
<1>3. k \in Nat /\ 1 \in Nat /\ 1 <= 1 /\ k <= Len(a) /\ k <= Len(n)
  BY <1>1
<1> HIDE DEF k
<1>4. /\ b \in Seq(S) /\ Len(b) = IF 1 <= k THEN k - 1 + 1 ELSE 0
      /\ \A i \in 1 .. k - 1 + 1 : b[i] = a[1 + i - 1]
  BY <1>3, SliceIs
<1>5. /\ m \in Seq(S) /\ Len(m) = IF 1 <= k THEN k - 1 + 1 ELSE 0
      /\ \A i \in 1 .. k - 1 + 1 : m[i] = n[1 + i - 1]
  BY <1>3, SliceIs
<1> HIDE DEF b, m
<1>6. Len(b) = k /\ Len(m) = k /\ \A i \in 1 .. k : b[i] = a[i] /\ m[i] = n[i]
  BY <1>3, <1>4, <1>5
<1>7. (\A i \in 1 .. k : a[i] = n[i]) => b = m
  <2> SUFFICES ASSUME \A i \in 1 .. k : a[i] = n[i] PROVE b = m
    OBVIOUS
  <2>1. Len(b) = Len(m) /\ \A i \in 1 .. Len(b) : b[i] = m[i]
    BY <1>6
  <2> QED
    BY <1>4, <1>5, <2>1, SeqEqual
<1> QED
  BY <1>6, <1>7

\* Two prefixes of a name share names.
LEMMA PrefixesTouch ==
  ASSUME NEW S, NEW a \in Seq(S), NEW b \in Seq(S), NEW n \in Seq(S), StartsWith(n, a), StartsWith(n, b)
  PROVE  Touches(a, b)
<1>1. /\ Len(a) \in Nat /\ Len(b) \in Nat
      /\ Len(a) <= Len(n) /\ \A i \in 1 .. Len(a) : a[i] = n[i]
  BY PrefixIs
<1>2. Len(b) <= Len(n) /\ \A i \in 1 .. Len(b) : b[i] = n[i]
  BY PrefixIs
<1>3. CASE Len(a) <= Len(b)
  <2>1. Len(a) <= Len(b) /\ \A i \in 1 .. Len(a) : a[i] = b[i]
    BY <1>1, <1>2, <1>3
  <2>2. StartsWith(b, a)
    BY <2>1, PrefixIs
  <2> QED
    BY <2>2 DEF Touches
<1>4. CASE Len(b) <= Len(a)
  <2>1. Len(b) <= Len(a) /\ \A i \in 1 .. Len(b) : b[i] = a[i]
    BY <1>1, <1>2, <1>4
  <2>2. StartsWith(a, b)
    BY <2>1, PrefixIs
  <2> QED
    BY <2>2 DEF Touches
<1> QED
  BY <1>1, <1>3, <1>4

LEMMA EmptyPrefix ==
  ASSUME NEW S, NEW n \in Seq(S)
  PROVE  StartsWith(n, << >>)
<1>1. << >> \in Seq(S) /\ Len(<< >>) = 0
  BY EmptySeq
<1>2. Len(<< >>) <= Len(n) /\ \A i \in 1 .. Len(<< >>) : << >>[i] = n[i]
  BY <1>1
<1> QED
  BY <1>1, <1>2, PrefixIs

\* A gate that a name passes, narrowed by a mount that it passes, it passes.
LEMMA GatePassed ==
  ASSUME SpaceAssumption, NEW gate \in Gates, NEW prefix \in Seq(Segments), NEW n \in Seq(Segments),
         gate # NoValue, StartsWith(n, gate), StartsWith(n, prefix)
  PROVE  Narrow(gate, prefix) # NoValue /\ StartsWith(n, Narrow(gate, prefix))
<1>1. gate \in Seq(Segments) /\ prefix # NoValue
  BY DEF Gates, SpaceAssumption
<1>2. Touches(gate, prefix)
  BY <1>1, PrefixesTouch
<1> QED
  BY <1>1, <1>2 DEF Narrow, Touches

LEMMA AppendedHolds ==
  ASSUME NEW S, NEW l \in Seq(S), NEW x \in S
  PROVE  /\ \E i \in DOMAIN Append(l, x) : Append(l, x)[i] = x
         /\ \A j \in DOMAIN l : \E i \in DOMAIN Append(l, x) : Append(l, x)[i] = l[j]
<1>1. /\ Append(l, x) \in Seq(S) /\ DOMAIN Append(l, x) = 1 .. Len(l) + 1
      /\ \A i \in 1 .. Len(l) : Append(l, x)[i] = l[i]
      /\ Append(l, x)[Len(l) + 1] = x
  BY AppendProperties
<1>2. Len(l) \in Nat /\ DOMAIN l = 1 .. Len(l)
  OBVIOUS
<1>3. Len(l) + 1 \in 1 .. Len(l) + 1 /\ 1 .. Len(l) \subseteq 1 .. Len(l) + 1
  BY <1>2
<1> DEFINE k == Append(l, x)
<1> HIDE DEF k
<1>4. /\ DOMAIN k = 1 .. Len(l) + 1 /\ k[Len(l) + 1] = x
      /\ \A i \in 1 .. Len(l) : k[i] = l[i]
  BY <1>1 DEF k
<1>5. (\E i \in DOMAIN k : k[i] = x) /\ \A j \in DOMAIN l : \E i \in DOMAIN k : k[i] = l[j]
  BY <1>2, <1>3, <1>4
<1> QED
  BY <1>5 DEF k

LEMMA FramesAppended ==
  ASSUME NEW l \in Seq(Frames), NEW x \in Frames, NEW k, k = Append(l, x)
  PROVE  /\ k # << >> /\ k[1] = IF l = << >> THEN x ELSE l[1]
         /\ \E i \in DOMAIN k : k[i] = x
         /\ \A j \in DOMAIN l : \E i \in DOMAIN k : k[i] = l[j]
<1>1. k # << >> /\ k[1] = IF l = << >> THEN x ELSE l[1]
  BY Appended
<1>2. \E i \in DOMAIN k : k[i] = x
  BY AppendedHolds
<1>3. \A j \in DOMAIN l : \E i \in DOMAIN k : k[i] = l[j]
  BY AppendedHolds
<1> QED
  BY <1>1, <1>2, <1>3

\* A find of a level is a find of the tree the level is shown in, with the level
\* around it and the gate from the level down.
Lifts(h, g, l) ==
  /\ SameFind(h, g) /\ IsFound(h)
  /\ h.levels # << >> /\ (g.levels # << >> => h.levels[1] = g.levels[1])
  /\ \E i \in DOMAIN h.levels : h.levels[i] = [name |-> LevelOf[l].name, gate |-> g.root]

Nested(f, s) ==
  f.what = "level" =>
    LET inner == LevelOf[f.serial].inner
    IN  /\ \A g \in Shown[inner] : \E h \in Shown[s] : Lifts(h, g, f.serial)
        /\ ShowsAll[s] => ShowsAll[inner]

LEMMA EnclosedLifts ==
  ASSUME NEW g, IsFound(g), NEW l \in DOMAIN LevelOf
  PROVE  Lifts(Enclosed(g, LevelOf[l].name), g, l)
<1> DEFINE around == [name |-> LevelOf[l].name, gate |-> g.root]
           h == Enclosed(g, LevelOf[l].name)
<1>1. /\ IsFound(h) /\ SameFind(h, g)
      /\ around \in Frames /\ h.levels = Append(g.levels, around) /\ g.levels \in Seq(Frames)
  BY EnclosedIs DEF IsFound
<1> HIDE DEF around, h
<1>2. /\ h.levels # << >> /\ h.levels[1] = IF g.levels = << >> THEN around ELSE g.levels[1]
      /\ \E i \in DOMAIN h.levels : h.levels[i] = around
  BY <1>1, FramesAppended
<1> QED
  BY <1>1, <1>2 DEF Lifts, around, h

\* It stays so when the tree is mounted or enclosed.
LEMMA MountedLifts ==
  ASSUME NEW g, NEW h, NEW l, Lifts(h, g, l), NEW prefix \in Seq(Segments)
  PROVE  Lifts(Mounted(h, prefix), g, l)
<1>1. /\ IsFound(Mounted(h, prefix)) /\ SameFind(Mounted(h, prefix), h)
      /\ Mounted(h, prefix).levels = h.levels
  BY MountedIs DEF Lifts
<1> QED
  BY <1>1 DEF Lifts, SameFind

LEMMA EnclosedAgain ==
  ASSUME NEW g, NEW h, NEW l, Lifts(h, g, l), NEW m \in DOMAIN LevelOf
  PROVE  Lifts(Enclosed(h, LevelOf[m].name), g, l)
<1> DEFINE around == [name |-> LevelOf[m].name, gate |-> h.root]
           e == Enclosed(h, LevelOf[m].name)
           own == [name |-> LevelOf[l].name, gate |-> g.root]
<1>1. /\ IsFound(e) /\ SameFind(e, h)
      /\ around \in Frames /\ e.levels = Append(h.levels, around) /\ h.levels \in Seq(Frames)
  BY EnclosedIs DEF IsFound, Lifts
<1>2. /\ h.levels # << >> /\ (g.levels # << >> => h.levels[1] = g.levels[1])
      /\ \E i \in DOMAIN h.levels : h.levels[i] = own
  BY DEF Lifts
<1> HIDE DEF around, e, own
<1> DEFINE k == e.levels
           old == h.levels
<1>3. k = Append(old, around) /\ old \in Seq(Frames) /\ around \in Frames
  BY <1>1
<1> HIDE DEF k, old
<1>4. /\ k # << >> /\ k[1] = IF old = << >> THEN around ELSE old[1]
      /\ \A j \in DOMAIN old : \E i \in DOMAIN k : k[i] = old[j]
  BY <1>3, FramesAppended
<1>5. /\ e.levels # << >> /\ e.levels[1] = IF h.levels = << >> THEN around ELSE h.levels[1]
      /\ \A j \in DOMAIN h.levels : \E i \in DOMAIN e.levels : e.levels[i] = h.levels[j]
  BY <1>4 DEF k, old
<1>6. \E i \in DOMAIN e.levels : e.levels[i] = own
  BY <1>2, <1>5
<1>7. SameFind(e, g)
  BY <1>1 DEF Lifts, SameFind
<1> QED
  BY <1>1, <1>2, <1>5, <1>6, <1>7 DEF Lifts, own, e

LEMMA ShowsAllBelow ==
  ASSUME SpaceAssumption, NEW s \in Trees, ShowsAll[s]
  PROVE  /\ s.kind \notin {"rewrite", "alias", "opaque"}
         /\ s.kind = "mount" => ShowsAll[s.inner]
         /\ s.kind = "fallback" => \A i \in DOMAIN s.spaces : ShowsAll[s.spaces[i]]
         /\ s.kind = "level" => ShowsAll[LevelOf[s.serial].inner]
<1>1. ShowsAll[s] = ShowAll(ShowsAll, s)
  BY ShowsAllAre
<1>2. ShowAll(ShowsAll, s)
  BY <1>1
<1>3. CASE s.kind \in {"rewrite", "alias", "opaque"}
  BY <1>2, <1>3, ShowAllIs
<1>4. CASE s.kind = "mount"
  BY <1>2, <1>4, ShowAllIs
<1>5. CASE s.kind = "fallback"
  BY <1>2, <1>5, ShowAllIs
<1>6. CASE s.kind = "level"
  BY <1>2, <1>6, ShowAllIs
<1> QED
  BY <1>3, <1>4, <1>5, <1>6

LEMMA LevelsNest ==
  ASSUME SpaceAssumption
  PROVE  \A s \in Trees : \A f \in Shown[s] : Nested(f, s)
<1> DEFINE T == { s \in Trees : \A f \in Shown[s] : Nested(f, s) }
<1>1. ASSUME NEW s \in Trees, \A t \in Trees : Height[t] < Height[s] => t \in T PROVE s \in T
  <2> SUFFICES ASSUME NEW f \in Shown[s] PROVE Nested(f, s)
    OBVIOUS
  <2>1. \A t : Below(t, s) => t \in Trees /\ \A g \in Shown[t] : Nested(g, t)
    BY <1>1 DEF Below
  <2> HIDE DEF T
  <2>2. IsFound(f)
    BY FindsInPlace DEF FindIn
  <2>3. CASE f.what # "level"
    BY <2>3 DEF Nested
  <2>4. CASE s.kind = "level" /\ f = FoundLevel(s.serial)
    <3>1. s.serial \in DOMAIN LevelOf /\ f.serial = s.serial
      BY <2>4, TreeIs, FoundLevelIs
    <3>2. \A g \in Shown[LevelOf[s.serial].inner] : Enclosed(g, LevelOf[s.serial].name) \in Shown[s]
      BY <2>4, ShownAs
    <3>3. \A g \in Shown[LevelOf[s.serial].inner] : IsFound(g)
      BY <3>1, LevelIs, FindsInPlace DEF FindIn
    <3>4. \A g \in Shown[LevelOf[s.serial].inner] : Lifts(Enclosed(g, LevelOf[s.serial].name), g, s.serial)
      BY <3>1, <3>3, EnclosedLifts
    <3>5. ShowsAll[s] => ShowsAll[LevelOf[s.serial].inner]
      BY <2>4, ShowsAllBelow
    <3> QED
      BY <3>1, <3>2, <3>4, <3>5 DEF Nested
  <2>5. CASE s.kind = "level" /\ \E g \in Shown[LevelOf[s.serial].inner] : f = Enclosed(g, LevelOf[s.serial].name)
    <3> DEFINE t == LevelOf[s.serial].inner
    <3>1. PICK e \in Shown[t] : f = Enclosed(e, LevelOf[s.serial].name)
      BY <2>5
    <3>2. s.serial \in DOMAIN LevelOf /\ Below(t, s)
      BY <2>5, TreeIs
    <3>3. IsFound(e) /\ Nested(e, t)
      BY <2>1, <3>2, FindsInPlace DEF FindIn
    <3>4. SameFind(f, e)
      BY <3>1, <3>2, <3>3, EnclosedIs
    <3>5. \A g \in Shown[t] : Enclosed(g, LevelOf[s.serial].name) \in Shown[s]
      BY <2>5, ShownAs
    <3>6. ShowsAll[s] => ShowsAll[t]
      BY <2>5, ShowsAllBelow
    <3> HIDE DEF t
    <3>7. ASSUME f.what = "level", NEW g \in Shown[LevelOf[f.serial].inner] PROVE \E h \in Shown[s] : Lifts(h, g, f.serial)
      <4>1. e.what = "level" /\ f.serial = e.serial
        BY <3>3, <3>4, <3>7 DEF SameFind
      <4>2. PICK h \in Shown[t] : Lifts(h, g, f.serial)
        BY <3>3, <3>7, <4>1 DEF Nested
      <4>3. Lifts(Enclosed(h, LevelOf[s.serial].name), g, f.serial)
        BY <3>2, <4>2, EnclosedAgain
      <4> QED
        BY <3>5, <4>2, <4>3
    <3> QED
      BY <3>3, <3>4, <3>6, <3>7 DEF Nested, SameFind
  <2>6. CASE s.kind = "mount" /\ \E g \in Shown[s.inner] : f = Mounted(g, s.prefix)
    <3>1. PICK e \in Shown[s.inner] : f = Mounted(e, s.prefix)
      BY <2>6
    <3>2. s.prefix \in Seq(Segments) /\ Below(s.inner, s)
      BY <2>6, TreeIs DEF SpaceAssumption
    <3>3. IsFound(e) /\ Nested(e, s.inner)
      BY <2>1, <3>2, FindsInPlace DEF FindIn
    <3>4. SameFind(f, e)
      BY <3>1, <3>2, <3>3, MountedIs
    <3>5. \A g \in Shown[s.inner] : Mounted(g, s.prefix) \in Shown[s]
      BY <2>6, ShownAs
    <3>6. ShowsAll[s] => ShowsAll[s.inner]
      BY <2>6, ShowsAllBelow
    <3>7. ASSUME f.what = "level", NEW g \in Shown[LevelOf[f.serial].inner] PROVE \E h \in Shown[s] : Lifts(h, g, f.serial)
      <4>1. e.what = "level" /\ f.serial = e.serial
        BY <3>3, <3>4, <3>7 DEF SameFind
      <4>2. PICK h \in Shown[s.inner] : Lifts(h, g, f.serial)
        BY <3>3, <3>7, <4>1 DEF Nested
      <4>3. Lifts(Mounted(h, s.prefix), g, f.serial)
        BY <3>2, <4>2, MountedLifts
      <4> QED
        BY <3>5, <4>2, <4>3
    <3> QED
      BY <3>3, <3>4, <3>6, <3>7 DEF Nested, SameFind
  <2>7. CASE s.kind = "fallback" /\ \E i \in DOMAIN s.spaces : f \in Shown[s.spaces[i]]
    <3>1. PICK i \in DOMAIN s.spaces : f \in Shown[s.spaces[i]]
      BY <2>7
    <3>2. Nested(f, s.spaces[i])
      BY <2>1, <2>7, <3>1, TreeIs
    <3>3. Shown[s.spaces[i]] \subseteq Shown[s] /\ (ShowsAll[s] => ShowsAll[s.spaces[i]])
      BY <2>7, ShownAs, ShowsAllBelow
    <3> QED
      BY <3>2, <3>3 DEF Nested
  <2>8. CASE s.kind \in {"alias", "rewrite"} /\ f \in Shown[s.inner]
    <3>1. Nested(f, s.inner)
      BY <2>1, <2>8, TreeIs
    <3>2. Shown[s.inner] \subseteq Shown[s] /\ ~ShowsAll[s]
      BY <2>8, ShownAs, ShowsAllBelow
    <3> QED
      BY <3>1, <3>2 DEF Nested
  <2>9. CASE s.kind = "doors" /\ \E i \in DOMAIN s.doors : f = FoundDoor(s.doors[i])
    BY <2>9 DEF FoundDoor, Nested
  <2>10. CASE s.kind = "alias" /\ \E n \in DOMAIN s.rule : f = FoundDoor([text |-> n, match |-> "exact"])
    BY <2>10 DEF FoundDoor, Nested
  <2> QED
    BY <2>4, <2>5, <2>6, <2>7, <2>8, <2>9, <2>10, ShownFrom
<1>2. Trees \subseteq T
  <2> HIDE DEF T
  <2> QED
    BY <1>1, EveryTree
<1> QED
  BY <1>2

\* The door a topology shows where a name is answered: its grammar takes the
\* name, no mount on its route refuses it, and it stands in the level it is
\* answered in.
Leads(d, r, n) ==
  /\ MatchIri(d, n)
  /\ d.root # NoValue /\ StartsWith(n, d.root)
  /\ d.levels = << >> <=> r.levels = << >>
  /\ r.levels # << >> => d.levels[1].name = LevelOf[r.levels[1]].name

PathShown(r, s) == \A i \in DOMAIN r.levels : \E f \in LevelsShown(s) : f.serial = r.levels[i]

Routed(r, s, n) ==
  r.hit => /\ r.canonical = NoValue
           /\ PathShown(r, s)
           /\ IsLimiter(r) \/ \E d \in DoorsShown(s) : Leads(d, r, n)

LEMMA DoorRouted ==
  ASSUME SpaceAssumption, NEW s \in Trees, s.kind = "doors", NEW n \in Texts
  PROVE  Routed(FirstDoor(s.doors, n), s, n)
<1>1. CASE FirstDoor(s.doors, n) = Miss
  BY <1>1 DEF Routed, Miss
<1>2. ASSUME NEW i \in DOMAIN s.doors, MatchIri(s.doors[i], n), FirstDoor(s.doors, n) = Resolved(s.doors[i].id)
      PROVE  Routed(FirstDoor(s.doors, n), s, n)
  <2> DEFINE r == Resolved(s.doors[i].id)
             d == FoundDoor(s.doors[i])
  <2>1. s.doors[i].text \in Seq(Segments) /\ n \in Seq(Segments) /\ NoValue \notin Seq(Segments)
    BY TreeIs DEF IsDoor, SpaceAssumption
  <2>2. r.canonical = NoValue /\ r.levels = << >> /\ DOMAIN r.levels = {}
    BY EmptySeq DEF Resolved
  <2>3. /\ d.what = "door" /\ d.text = s.doors[i].text /\ d.match = s.doors[i].match
        /\ d.levels = << >> /\ d.root = << >>
    BY <2>1, FoundDoorIs
  <2>4. d \in Shown[s]
    BY ShownAs
  <2> HIDE DEF r, d
  <2>5. << >> \in Seq(Segments) /\ StartsWith(n, << >>)
    BY <2>1, EmptyPrefix, EmptySeq
  <2>6. MatchIri(d, n)
    BY <1>2, <2>3 DEF MatchIri
  <2>7. Leads(d, r, n) /\ d \in DoorsShown(s)
    BY <2>1, <2>2, <2>3, <2>4, <2>5, <2>6 DEF Leads, DoorsShown
  <2>8. Routed(r, s, n)
    BY <2>2, <2>7 DEF Routed, PathShown
  <2> QED
    BY <1>2, <2>8 DEF r
<1>3. DOMAIN s.doors \subseteq Nat
  BY TreeIs
<1> QED
  BY <1>1, <1>2, <1>3, FirstDoorIs

LEMMA MountRouted ==
  ASSUME SpaceAssumption, NEW s \in Trees, s.kind = "mount", NEW n \in Texts, NEW r,
         StartsWith(n, s.prefix), Routed(r, s.inner, n)
  PROVE  Routed(r, s, n)
<1> SUFFICES ASSUME r.hit PROVE Routed(r, s, n)
  BY DEF Routed
<1>1. s.prefix \in Seq(Segments) /\ n \in Seq(Segments) /\ s.inner \in Trees /\ NoValue \notin Seq(Segments)
  BY TreeIs DEF SpaceAssumption, Below
<1>2. \A f \in Shown[s.inner] : Mounted(f, s.prefix) \in Shown[s] /\ IsFound(f)
  BY <1>1, ShownAs, FindsInPlace DEF FindIn
<1>3. PathShown(r, s)
  <2> SUFFICES ASSUME NEW i \in DOMAIN r.levels PROVE \E f \in LevelsShown(s) : f.serial = r.levels[i]
    BY DEF PathShown
  <2>1. PICK f \in LevelsShown(s.inner) : f.serial = r.levels[i]
    BY DEF Routed, PathShown
  <2>2. SameFind(Mounted(f, s.prefix), f) /\ f.what = "level" /\ Mounted(f, s.prefix) \in Shown[s]
    BY <1>1, <1>2, MountedIs DEF LevelsShown
  <2> QED
    BY <2>1, <2>2 DEF SameFind, LevelsShown
<1>4. ASSUME NEW f \in DoorsShown(s.inner), Leads(f, r, n) PROVE \E d \in DoorsShown(s) : Leads(d, r, n)
  <2> DEFINE d == Mounted(f, s.prefix)
  <2>1. f \in Shown[s.inner] /\ f.what = "door"
    BY DEF DoorsShown
  <2>2. IsFound(f) /\ d \in Shown[s]
    BY <1>2, <2>1
  <2>3. SameFind(d, f) /\ d.levels = f.levels /\ d.root = Narrow(f.root, s.prefix)
    BY <1>1, <2>2, MountedIs
  <2> HIDE DEF d
  <2>4. d.what = "door" /\ d.text = f.text /\ d.match = f.match
    BY <2>1, <2>3 DEF SameFind
  <2>5. f.root \in Gates /\ f.root # NoValue /\ StartsWith(n, f.root)
    BY <1>4, <2>2 DEF Leads, IsFound
  <2>6. d.root # NoValue /\ StartsWith(n, d.root)
    BY <1>1, <2>3, <2>5, GatePassed
  <2>7. MatchIri(d, n)
    BY <1>4, <2>4 DEF MatchIri, Leads
  <2>8. Leads(d, r, n)
    BY <1>4, <2>3, <2>6, <2>7 DEF Leads
  <2> QED
    BY <2>2, <2>4, <2>8 DEF DoorsShown
<1> QED
  BY <1>3, <1>4 DEF Routed

LEMMA LevelRouted ==
  ASSUME SpaceAssumption, NEW s \in Trees, s.kind = "level", NEW n \in Texts, NEW r,
         AnswerIn(r, LevelOf[s.serial].inner), Routed(r, LevelOf[s.serial].inner, n)
  PROVE  Routed(Within(r, s.serial), s, n)
<1> DEFINE l == s.serial
           inner == LevelOf[l].inner
           q == Within(r, l)
<1>1. CASE r = Miss
  BY <1>1 DEF Routed, Within, Miss
<1>2. CASE HitIn(r, inner)
  <2>1. l \in DOMAIN LevelOf /\ inner \in Trees
    BY TreeIs, LevelIs
  <2>2. /\ r = [hit |-> TRUE, door |-> r.door, canonical |-> r.canonical, levels |-> r.levels]
        /\ r.levels \in Seq(DOMAIN LevelOf)
    BY <1>2 DEF HitIn, IsHit
  <2>3. r.hit
    BY <2>2
  <2>4. q = [hit |-> TRUE, door |-> r.door, canonical |-> r.canonical, levels |-> Append(r.levels, l)]
    <3>1. q = [r EXCEPT !.levels = Append(r.levels, l)]
      BY <2>3 DEF Within
    <3> QED
      BY <2>2, <3>1, LevelsSet
  <2>5. q.door = r.door /\ q.canonical = r.canonical /\ q.levels = Append(r.levels, l)
    BY <2>4
  <2> HIDE DEF q
  <2> DEFINE path == q.levels
             old == r.levels
  <2>6. path = Append(old, l) /\ old \in Seq(DOMAIN LevelOf) /\ l \in DOMAIN LevelOf
    BY <2>1, <2>2, <2>5
  <2> HIDE DEF path, old, l
  <2>7. /\ path # << >> /\ path[1] = IF old = << >> THEN l ELSE old[1]
        /\ \A i \in DOMAIN path : path[i] = l \/ \E j \in DOMAIN old : path[i] = old[j]
    BY <2>6, Appended
  <2>8. FoundLevel(l) \in Shown[s] /\ \A f \in Shown[inner] : Enclosed(f, LevelOf[l].name) \in Shown[s] /\ IsFound(f)
    BY <2>1, ShownAs, FindsInPlace DEF FindIn, l
  <2>9. PathShown(q, s)
    <3> SUFFICES ASSUME NEW i \in DOMAIN path PROVE \E f \in LevelsShown(s) : f.serial = path[i]
      BY DEF PathShown, path
    <3>1. CASE path[i] = l
      <4>1. FoundLevel(l).serial = l /\ FoundLevel(l).what = "level"
        BY <2>1, FoundLevelIs
      <4> QED
        BY <2>8, <3>1, <4>1 DEF LevelsShown
    <3>2. CASE \E j \in DOMAIN old : path[i] = old[j]
      <4>1. PICK j \in DOMAIN old : path[i] = old[j]
        BY <3>2
      <4>2. PICK f \in LevelsShown(inner) : f.serial = old[j]
        BY <2>3 DEF Routed, PathShown, old, inner, l
      <4>3. SameFind(Enclosed(f, LevelOf[l].name), f) /\ f.what = "level" /\ Enclosed(f, LevelOf[l].name) \in Shown[s]
        BY <2>1, <2>8, EnclosedIs DEF LevelsShown
      <4> QED
        BY <4>1, <4>2, <4>3 DEF SameFind, LevelsShown
    <3> QED
      BY <2>7, <3>1, <3>2
  <2>10. ASSUME NEW f \in DoorsShown(inner), Leads(f, r, n) PROVE \E d \in DoorsShown(s) : Leads(d, q, n)
    <3> DEFINE d == Enclosed(f, LevelOf[l].name)
               around == [name |-> LevelOf[l].name, gate |-> f.root]
    <3>1. f \in Shown[inner] /\ f.what = "door"
      BY DEF DoorsShown
    <3>2. IsFound(f) /\ d \in Shown[s]
      BY <2>8, <3>1
    <3>3. SameFind(d, f) /\ d.levels = Append(f.levels, around) /\ d.root = f.root /\ around \in Frames
      BY <2>1, <3>2, EnclosedIs
    <3>4. around.name = LevelOf[l].name /\ f.levels \in Seq(Frames)
      BY <3>2 DEF IsFound
    <3> HIDE DEF d, around
    <3>5. d.what = "door" /\ d.text = f.text /\ d.match = f.match
      BY <3>1, <3>3 DEF SameFind
    <3> DEFINE dl == d.levels
               fl == f.levels
    <3>6. dl = Append(fl, around) /\ fl \in Seq(Frames) /\ around \in Frames
      BY <3>3, <3>4
    <3>7. (fl = << >> <=> old = << >>) /\ (old # << >> => fl[1].name = LevelOf[old[1]].name)
      BY <2>10 DEF Leads, old
    <3> HIDE DEF dl, fl
    <3>8. dl # << >> /\ dl[1] = IF fl = << >> THEN around ELSE fl[1]
      BY <3>6, FramesAppended
    <3>9. dl[1].name = LevelOf[path[1]].name
      BY <2>7, <3>4, <3>7, <3>8
    <3>10. MatchIri(d, n) /\ d.root # NoValue /\ StartsWith(n, d.root)
      BY <2>10, <3>3, <3>5 DEF MatchIri, Leads
    <3>11. Leads(d, q, n)
      BY <2>7, <3>8, <3>9, <3>10 DEF Leads, dl, path
    <3> QED
      BY <3>2, <3>5, <3>11 DEF DoorsShown
  <2>11. r.canonical = NoValue /\ (IsLimiter(r) \/ \E d \in DoorsShown(inner) : Leads(d, r, n))
    BY <2>3 DEF Routed, inner, l
  <2>12. Routed(q, s, n)
    BY <2>5, <2>9, <2>10, <2>11 DEF Routed, IsLimiter
  <2> QED
    BY <2>12 DEF q, l
<1> QED
  BY <1>1, <1>2 DEF AnswerIn

\* Where a topology shows everything, each answer is a door it shows, reached
\* under the asked name.
LEMMA AnswersRouted ==
  ASSUME SpaceAssumption
  PROVE  \A s \in Trees : ShowsAll[s] => \A n \in Texts : Routed(Answers[s][n], s, n)
<1> DEFINE T == { s \in Trees : ShowsAll[s] => \A n \in Texts : Routed(Answers[s][n], s, n) }
<1>1. ASSUME NEW s \in Trees, \A t \in Trees : Height[t] < Height[s] => t \in T PROVE s \in T
  <2> SUFFICES ASSUME ShowsAll[s], NEW n \in Texts PROVE Routed(Answers[s][n], s, n)
    OBVIOUS
  <2>1. Answers[s][n] = Answer(Answers, s, n)
    BY AnswersAre
  <2>2. \A t : Below(t, s) /\ ShowsAll[t] => \A m \in Texts : Routed(Answers[t][m], t, m)
    BY <1>1 DEF Below
  <2> HIDE DEF T
  <2>3. Routed(Miss, s, n)
    BY DEF Routed, Miss
  <2>4. CASE s.kind = "doors"
    BY <2>1, <2>4, AnswerIs, DoorRouted
  <2>5. CASE s.kind = "mount"
    <3>1. Routed(Answers[s.inner][n], s.inner, n)
      BY <2>2, <2>5, TreeIs, ShowsAllBelow
    <3>2. StartsWith(n, s.prefix) => Routed(Answers[s.inner][n], s, n)
      BY <2>5, <3>1, MountRouted
    <3> QED
      BY <2>1, <2>3, <2>5, <3>2, AnswerIs
  <2>6. CASE s.kind = "fallback"
    <3> DEFINE answers == [i \in DOMAIN s.spaces |-> Answers[s.spaces[i]][n]]
    <3>1. Answer(Answers, s, n) = FirstHit(answers)
      BY <2>6, AnswerOfFallback
    <3>2. DOMAIN answers = DOMAIN s.spaces /\ DOMAIN s.spaces \subseteq Nat
      BY <2>6, TreeIs
    <3>3. \A i \in DOMAIN s.spaces : Routed(answers[i], s, n)
      <4> SUFFICES ASSUME NEW i \in DOMAIN s.spaces PROVE Routed(answers[i], s, n)
        OBVIOUS
      <4>1. Routed(answers[i], s.spaces[i], n) /\ Shown[s.spaces[i]] \subseteq Shown[s]
        BY <2>2, <2>6, TreeIs, ShowsAllBelow, ShownAs
      <4> HIDE DEF answers
      <4>2. LevelsShown(s.spaces[i]) \subseteq LevelsShown(s) /\ DoorsShown(s.spaces[i]) \subseteq DoorsShown(s)
        BY <4>1 DEF LevelsShown, DoorsShown
      <4> QED
        BY <4>1, <4>2 DEF Routed, PathShown
    <3> HIDE DEF answers
    <3>4. Routed(FirstHit(answers), s, n)
      BY <2>3, <3>2, <3>3, FirstHitIs
    <3> QED
      BY <2>1, <3>1, <3>4
  <2>7. CASE s.kind = "limit"
    <3>1. Routed(Resolved("bottom"), s, n)
      <4>1. Resolved("bottom").door = "bottom" /\ Resolved("bottom").canonical = NoValue
            /\ DOMAIN Resolved("bottom").levels = {}
        BY EmptySeq DEF Resolved
      <4> QED
        BY <4>1 DEF Routed, PathShown, IsLimiter
    <3> QED
      BY <2>1, <2>3, <2>7, <3>1, AnswerIs
  <2>8. CASE s.kind = "level"
    <3> DEFINE inner == LevelOf[s.serial].inner
    <3>1. Below(inner, s) /\ inner \in Trees /\ ShowsAll[inner]
      BY <2>8, TreeIs, ShowsAllBelow DEF Below
    <3>2. Routed(Answers[inner][n], inner, n) /\ AnswerIn(Answers[inner][n], inner)
      BY <2>2, <3>1, AnswersInPlace
    <3>3. Answer(Answers, s, n) = Within(Answers[inner][n], s.serial)
      BY <2>8, AnswerIs
    <3> QED
      BY <2>1, <2>8, <3>2, <3>3, LevelRouted
  <2>9. CASE s.kind \in {"rewrite", "alias", "opaque"}
    BY <2>9, ShowsAllBelow
  <2> QED
    BY <2>4, <2>5, <2>6, <2>7, <2>8, <2>9, TreeIs
<1>2. Trees \subseteq T
  <2> HIDE DEF T
  <2> QED
    BY <1>1, EveryTree
<1> QED
  BY <1>2

-----------------------------------------------------------------------------
(* Nothing is refused later.                                                 *)

LEMMA ClearBelow ==
  ASSUME SpaceAssumption, NEW t \in Trees, Clear(t), NEW f \in LevelsShown(t)
  PROVE  Plain(f.serial)
<1> DEFINE inner == LevelOf[f.serial].inner
<1>1. f \in Shown[t] /\ f.what = "level" /\ Known(f.serial) /\ ShowsAll[t]
  BY DEF LevelsShown, Clear
<1>2. ShowsAll[inner] /\ \A g \in Shown[inner] : \E h \in Shown[t] : Lifts(h, g, f.serial)
  BY <1>1, LevelsNest DEF Nested
<1>3. ASSUME NEW g \in LevelsShown(inner) PROVE Known(g.serial)
  <2>1. g \in Shown[inner] /\ g.what = "level"
    BY DEF LevelsShown
  <2>2. PICK h \in Shown[t] : Lifts(h, g, f.serial)
    BY <1>2, <2>1
  <2>3. h.what = "level" /\ h.serial = g.serial
    BY <2>1, <2>2 DEF Lifts, SameFind
  <2> QED
    BY <2>3 DEF Clear, LevelsShown
<1> QED
  BY <1>1, <1>2, <1>3 DEF Plain, Clear

LEMMA RootIsClear ==
  ASSUME ChainAssumption, root \in DOMAIN RootOf, TableFor(seals, RootOf[root]), NothingHidden
  PROVE  RootOf[root] \in Trees /\ Clear(RootOf[root]) /\ SpaceAssumption
<1>1. RootOf[root] \in Trees /\ SpaceAssumption
  BY DEF ChainAssumption
<1>2. seals.levels = { f.serial : f \in LevelsShown(RootOf[root]) }
  BY <1>1, TableHolds
<1> QED
  BY <1>1, <1>2 DEF Clear, Known, NothingHidden

LEMMA AnswerPlain ==
  ASSUME SpaceAssumption, NEW t \in Trees, Clear(t), NEW n \in Texts, AnswerOf(t, n).hit
  PROVE  \A i \in DOMAIN AnswerOf(t, n).levels : Plain(AnswerOf(t, n).levels[i])
<1> DEFINE r == AnswerOf(t, n)
<1>1. Routed(r, t, n) /\ r.hit
  BY AnswersRouted DEF AnswerOf, Clear
<1> HIDE DEF r
<1>2. ASSUME NEW i \in DOMAIN r.levels PROVE Plain(r.levels[i])
  <2>1. PICK f \in LevelsShown(t) : f.serial = r.levels[i]
    BY <1>1 DEF Routed, PathShown
  <2>2. Plain(f.serial)
    BY ClearBelow
  <2> QED
    BY <2>1, <2>2
<1> QED
  BY <1>2 DEF r

LEMMA CorridorPlain ==
  ASSUME ChainAssumption, NothingHidden, NEW cs \in Seq(Corridors), NEW n \in Texts, CorridorHit(cs, n).hit
  PROVE  \A i \in DOMAIN CorridorHit(cs, n).levels : Plain(CorridorHit(cs, n).levels[i])
<1> DEFINE r == CorridorHit(cs, n)
<1>1. PICK i \in DOMAIN cs : r = CorridorAnswer(cs[i], n)
  BY CorridorHitIs DEF LastAnswer, Miss
<1> DEFINE t == CorridorOf[cs[i].space]
<1>2. cs[i].space \in DOMAIN CorridorOf
  <2>1. cs[i] \in Corridors
    OBVIOUS
  <2> QED
    BY <2>1 DEF Corridors
<1>3. t \in Trees /\ Clear(t) /\ SpaceAssumption
  BY <1>2 DEF ChainAssumption, NothingHidden, Clear
<1>4. r = AnswerOf(t, n) /\ r.hit
  BY <1>1 DEF CorridorAnswer
<1> HIDE DEF r, t
<1>5. \A k \in DOMAIN r.levels : Plain(r.levels[k])
  BY <1>3, <1>4, AnswerPlain
<1> QED
  BY <1>5 DEF r

\* An endpoint is reached through plain levels only.
LEMMA ReachedPlain ==
  ASSUME ChainAssumption, root \in DOMAIN RootOf, TableFor(seals, RootOf[root]), NothingHidden,
         NEW s, IsScope(s), \A i \in DOMAIN s.levels : Plain(s.levels[i]),
         NEW n \in Texts, ResolveIn(s, n).hit
  PROVE  \A k \in DOMAIN ResolveIn(s, n).levels : Plain(ResolveIn(s, n).levels[k])
<1> DEFINE r == ResolveIn(s, n)
<1>1. r.hit
  OBVIOUS
<1>2. \/ HostAnswers(r, s, n) \/ FrameAnswers(r, s, n) \/ BehindAnswers(r, s, n)
      \/ RootAnswers(r, s, n) \/ (r = Miss /\ s.severed)
  BY ResolveIs
<1>3. Behind(s) \in Seq(Corridors) /\ Injected(s) \in Seq(Corridors) /\ s.levels \in Seq(DOMAIN LevelOf)
  BY SplitIs DEF IsScope
<1> HIDE DEF r
<1>4. \A k \in DOMAIN r.levels : Plain(r.levels[k])
  <2>1. CASE HostAnswers(r, s, n)
    BY <1>3, <2>1, CorridorPlain DEF HostAnswers
  <2>2. CASE BehindAnswers(r, s, n)
    BY <1>3, <2>2, CorridorPlain DEF BehindAnswers
  <2>3. CASE FrameAnswers(r, s, n)
    <3>1. PICK owners : \E i \in DOMAIN s.levels : \E f : FramedIn(f, s.levels, i, n, owners) /\ r = Admit(f, n)
      BY <2>3 DEF FrameAnswers
    <3>2. PICK i \in DOMAIN s.levels : \E f : FramedIn(f, s.levels, i, n, owners) /\ r = Admit(f, n)
      BY <3>1
    <3>3. PICK f : FramedIn(f, s.levels, i, n, owners) /\ r = Admit(f, n)
      BY <3>2
    <3> DEFINE t == LevelOf[s.levels[i]].inner
               found == LevelAnswer(s.levels[i], n)
    <3>4. IsHit(f)
      BY <1>3, <3>3, FramedHit
    <3>5. PathOf(f.levels, s.levels, found.levels)
      BY <1>3, <3>3, FramedHit
    <3>6. HitIn(found, t)
      BY <3>3 DEF FramedIn
    <3>7. found = AnswerOf(t, n)
      BY DEF LevelAnswer
    <3>8. found = AnswerOf(t, n) /\ found.hit
      <4> HIDE DEF found
      <4> QED
        BY <3>6, <3>7 DEF HitIn, IsHit
    <3>9. t \in Trees /\ Clear(t) /\ SpaceAssumption
      BY <1>3, LevelIs DEF Plain, ChainAssumption
    <3> HIDE DEF found, t
    <3>10. \A j \in DOMAIN found.levels : Plain(found.levels[j])
      BY <3>8, <3>9, AnswerPlain
    <3>11. r = f
      BY <1>1, <3>3, <3>4, AdmittedIs
    <3> QED
      BY <3>5, <3>10, <3>11 DEF PathOf
  <2>4. CASE RootAnswers(r, s, n)
    <3> DEFINE t == RootOf[root]
               q == AnswerOf(t, n)
    <3>1. t \in Trees /\ Clear(t) /\ SpaceAssumption
      BY RootIsClear
    <3>2. AnswerIn(q, t)
      BY <3>1, AnswersInPlace DEF AnswerOf
    <3>3. r = Admit(q, n)
      BY <2>4 DEF RootAnswers
    <3>4. q.hit => \A k \in DOMAIN q.levels : Plain(q.levels[k])
      <4> HIDE DEF t
      <4> QED
        BY <3>1, AnswerPlain
    <3> HIDE DEF q, t
    <3>5. r = q
      BY <1>1, <3>2, <3>3, AdmittedIs DEF AnswerIn, HitIn
    <3> QED
      BY <1>1, <3>4, <3>5
  <2>5. CASE r = Miss
    BY <1>1, <2>5 DEF Miss
  <2> QED
    BY <1>2, <2>1, <2>2, <2>3, <2>4, <2>5
<1> QED
  BY <1>4 DEF r

\* A path that breaks a seal.
Breaks(owner, path) ==
  \/ owner = "host" /\ path # << >>
  \/ owner \notin {"core", "host"} /\ (path = << >> \/ ~IsOwner(seals, owner, path[1]))

LEMMA BreachIs ==
  ASSUME ChainAssumption, root \in DOMAIN RootOf, TableFor(seals, RootOf[root]), NEW n \in Asked,
         NEW q, IsHit(q), q.canonical = NoValue, \A i \in DOMAIN q.levels : Known(q.levels[i]),
         Admit(q, n) = Breach
  PROVE  /\ ~IsLimiter(q) /\ ~(seals.trivial /\ q.levels = << >>)
         /\ \E c \in seals.claims : StartsWith(n, c.prefix) /\ Breaks(c.owner, q.levels)
<1>1. /\ n \in Texts /\ n # NoValue /\ "core" \notin OwnersOf(seals, n)
  BY TableHolds DEF ChainAssumption, SpaceAssumption
<1>2. q.hit /\ q.levels \in Seq(DOMAIN LevelOf)
  BY DEF IsHit
<1>3. q # Breach
  BY <1>2 DEF Breach
<1>4. /\ ~IsLimiter(q) /\ ~(seals.trivial /\ q.levels = << >>)
      /\ ~AdmitNames(seals, {n, q.canonical} \ {NoValue}, q.levels)
  BY <1>3 DEF Admit
<1>5. {n, q.canonical} \ {NoValue} = {n}
  BY <1>1
<1>6. ~AdmitNames(seals, {n}, q.levels)
  BY <1>4, <1>5
<1>7. PICK owner \in OwnersOf(seals, n) :
        ~(/\ owner # "core"
          /\ owner = "host" => q.levels = << >>
          /\ owner # "host" => q.levels # << >> /\ IsOwner(seals, owner, Head(q.levels)))
  BY <1>6 DEF AdmitNames, Known
<1>8. Breaks(owner, q.levels)
  BY <1>1, <1>2, <1>7 DEF Breaks
<1>9. \E c \in seals.claims : StartsWith(n, c.prefix) /\ c.owner = owner
  BY DEF OwnersOf
<1> QED
  BY <1>4, <1>8, <1>9

\* A door that a sealed name leads to, outside its owner, is refused at build.
LEMMA BoundIs ==
  ASSUME SpaceAssumption, NEW n \in Texts, NEW c, c.prefix \in Texts, StartsWith(n, c.prefix),
         NEW d, IsFound(d), d.what = "door", MatchIri(d, n), ~Placed(d, c.owner),
         NEW gate \in Gates, gate # NoValue, StartsWith(n, gate),
         gate = d.root \/ \E i \in DOMAIN d.levels : d.levels[i].name = c.owner /\ d.levels[i].gate = gate
  PROVE  Binds(d, c)
<1>1. n \in Seq(Segments) /\ c.prefix \in Seq(Segments) /\ d.text \in Seq(Segments) /\ gate \in Seq(Segments)
  BY DEF SpaceAssumption, IsFound, Gates
<1>2. Reaches(gate, c.prefix)
  BY <1>1, PrefixesTouch DEF Reaches
<1>3. StartsWith(n, d.text) /\ (d.match = "exact" => n = d.text)
  BY DEF MatchIri
<1>4. MayMatch(d, c.prefix)
  BY <1>1, <1>3, PrefixesTouch DEF MayMatch
<1> QED
  BY <1>2, <1>4 DEF Binds

LEMMA RootUnbroken ==
  ASSUME ChainAssumption, root \in DOMAIN RootOf, TableFor(seals, RootOf[root]), NothingHidden, seals.built,
         NEW n \in Asked
  PROVE  Admit(AnswerOf(RootOf[root], n), n) # Breach
<1> DEFINE t == RootOf[root]
           q == AnswerOf(t, n)
<1> SUFFICES ASSUME Admit(q, n) = Breach PROVE FALSE
  OBVIOUS
<1>1. t \in Trees /\ Clear(t) /\ SpaceAssumption /\ n \in Texts
  BY RootIsClear DEF ChainAssumption
<1>2. AnswerIn(q, t) /\ Routed(q, t, n) /\ (q.hit => \A k \in DOMAIN q.levels : Plain(q.levels[k]))
  <2>1. AnswerIn(q, t) /\ Routed(q, t, n)
    BY <1>1, AnswersInPlace, AnswersRouted DEF AnswerOf, Clear
  <2> HIDE DEF t
  <2>2. q.hit => \A k \in DOMAIN q.levels : Plain(q.levels[k])
    BY <1>1, AnswerPlain
  <2> QED
    BY <2>1, <2>2
<1>3. /\ seals.levels = { f.serial : f \in LevelsShown(t) }
      /\ \A c \in seals.claims : c.prefix \in Texts
      /\ \A d \in DoorsShown(t) : \A c \in seals.claims : ~Binds(d, c)
  BY <1>1, TableHolds
<1>4. Admit(q, n) = Breach
  OBVIOUS
<1> HIDE DEF q, t
<1>5. q.hit
  <2>1. Admit(q, n) = q \/ q.hit
    BY DEF Admit
  <2>2. Miss # Breach
    BY DEF Miss, Breach
  <2> QED
    BY <1>2, <1>4, <2>1, <2>2 DEF AnswerIn, HitIn, IsHit
<1>6. /\ IsHit(q) /\ q.canonical = NoValue /\ PathShown(q, t) /\ q.levels \in Seq(DOMAIN LevelOf)
      /\ IsLimiter(q) \/ \E d \in DoorsShown(t) : Leads(d, q, n)
      /\ \A i \in DOMAIN q.levels : Known(q.levels[i])
  BY <1>2, <1>5 DEF AnswerIn, HitIn, IsHit, Routed, Miss, Plain
<1>7. /\ ~IsLimiter(q)
      /\ \E c \in seals.claims : StartsWith(n, c.prefix) /\ Breaks(c.owner, q.levels)
  BY <1>4, <1>6, BreachIs
<1>8. PICK c \in seals.claims : StartsWith(n, c.prefix) /\ Breaks(c.owner, q.levels)
  BY <1>7
<1>9. PICK d \in DoorsShown(t) : Leads(d, q, n)
  BY <1>6, <1>7
<1>10. IsFound(d) /\ d.what = "door" /\ d.root \in Gates /\ d.levels \in Seq(Frames)
  BY <1>1, FindsInPlace DEF DoorsShown, FindIn, IsFound
<1>11. \A i \in DOMAIN q.levels : q.levels[i] \in seals.levels
  BY <1>3, <1>6 DEF PathShown
<1>12. ~Placed(d, c.owner)
  <2>1. CASE q.levels = << >>
    BY <1>8, <1>9, <2>1 DEF Placed, Breaks, Leads
  <2>2. CASE q.levels # << >>
    <3>1. q.levels[1] \in seals.levels
      BY <1>6, <1>11, <2>2
    <3>2. d.levels # << >> /\ d.levels[1].name = LevelOf[q.levels[1]].name /\ Head(d.levels) = d.levels[1]
      BY <1>9, <1>10, <2>2 DEF Leads
    <3> QED
      BY <1>8, <2>2, <3>1, <3>2 DEF Placed, Breaks, IsOwner
  <2> QED
    BY <2>1, <2>2
<1>13. MatchIri(d, n) /\ d.root # NoValue /\ StartsWith(n, d.root)
  BY <1>9 DEF Leads
<1>14. Binds(d, c)
  BY <1>1, <1>3, <1>8, <1>10, <1>12, <1>13, BoundIs
<1> QED
  BY <1>3, <1>14

LEMMA FrameUnbroken ==
  ASSUME ChainAssumption, root \in DOMAIN RootOf, TableFor(seals, RootOf[root]), NothingHidden, seals.built,
         NEW n \in Asked, NEW levels \in Seq(DOMAIN LevelOf), \A j \in DOMAIN levels : Plain(levels[j]),
         NEW owners, seals.trivial \/ owners = OwnersOf(seals, n),
         NEW i, NEW f, FramedIn(f, levels, i, n, owners)
  PROVE  Admit(f, n) # Breach
<1> SUFFICES ASSUME Admit(f, n) = Breach PROVE FALSE
  OBVIOUS
<1> DEFINE l == levels[i]
           t == LevelOf[l].inner
           found == LevelAnswer(levels[i], n)
           R == RootOf[root]
<1>1. n \in Texts /\ SpaceAssumption /\ R \in Trees
  BY DEF ChainAssumption
<1>2. /\ i \in DOMAIN levels /\ \A o \in owners : FrameAdmits(seals, o, l)
      /\ HitIn(found, t)
  BY DEF FramedIn
<1>3. l \in DOMAIN LevelOf /\ Plain(l) /\ t \in Trees /\ Clear(t)
  BY <1>1, <1>2, LevelIs DEF Plain
<1>4. found = AnswerOf(t, n)
  BY DEF LevelAnswer
<1>5. IsHit(f) /\ f.levels # << >>
  BY FramedHit
<1>6. f.canonical = found.canonical /\ f.door = found.door
  BY DEF FramedIn
<1>7. StartsAt(f.levels, levels[i], found.levels)
  BY FramedHit
<1>8. /\ IsHit(f) /\ f.levels # << >> /\ f.canonical = found.canonical /\ f.door = found.door
      /\ f.levels[1] = IF found.levels = << >> THEN l ELSE found.levels[1]
  BY <1>5, <1>7, <1>6 DEF StartsAt
<1>9. PathOf(f.levels, levels, found.levels)
  BY FramedHit
<1>10. /\ seals.levels = { g.serial : g \in LevelsShown(R) }
       /\ \A c \in seals.claims : c.prefix \in Texts
       /\ \A d \in DoorsShown(R) : \A c \in seals.claims : ~Binds(d, c)
       /\ seals.trivial => OwnersOf(seals, n) \subseteq {"core"}
  BY <1>1, TableHolds
<1> HIDE DEF found, l
<1>11. found.hit /\ found.levels \in Seq(DOMAIN LevelOf)
  BY <1>2 DEF HitIn, IsHit
<1>12. Routed(found, t, n)
  BY <1>1, <1>3, <1>4, AnswersRouted DEF AnswerOf, Clear
<1>13. found.canonical = NoValue /\ PathShown(found, t) /\ (IsLimiter(found) \/ \E d \in DoorsShown(t) : Leads(d, found, n))
  BY <1>11, <1>12 DEF Routed
<1> HIDE DEF t, R
<1>14. \A j \in DOMAIN found.levels : Plain(found.levels[j])
  BY <1>1, <1>3, <1>4, <1>11, AnswerPlain
<1>15. \A k \in DOMAIN f.levels : Known(f.levels[k])
  BY <1>9, <1>14 DEF PathOf, Plain
<1>16. ~IsLimiter(f) /\ \E c \in seals.claims : StartsWith(n, c.prefix) /\ Breaks(c.owner, f.levels)
  BY <1>8, <1>13, <1>15, BreachIs
<1>17. PICK c \in seals.claims : StartsWith(n, c.prefix) /\ Breaks(c.owner, f.levels)
  BY <1>16
<1>18. c.owner \in OwnersOf(seals, n) /\ c.owner # "core"
  BY <1>17 DEF OwnersOf, Breaks
<1>19. FrameAdmits(seals, c.owner, l)
  BY <1>2, <1>10, <1>18
<1>20. /\ c.owner \notin {"core", "host"} /\ LevelOf[l].name = c.owner /\ l \in seals.levels
       /\ ~IsOwner(seals, c.owner, f.levels[1])
  BY <1>8, <1>17, <1>19 DEF FrameAdmits, IsOwner, Breaks
<1>21. found.levels # << >> /\ f.levels[1] = found.levels[1]
  BY <1>8, <1>20 DEF IsOwner
<1>22. PICK g \in LevelsShown(R) : g.serial = l
  BY <1>10, <1>20
<1>23. \A e \in Shown[t] : \E h \in Shown[R] : Lifts(h, e, l)
  BY <1>1, <1>22, LevelsNest DEF LevelsShown, Nested, R, t
<1>24. found.levels[1] \in seals.levels
  <2>1. 1 \in DOMAIN found.levels
    BY <1>11, <1>21
  <2>2. PICK e \in LevelsShown(t) : e.serial = found.levels[1]
    BY <1>13, <2>1 DEF PathShown
  <2>3. e \in Shown[t] /\ e.what = "level"
    BY DEF LevelsShown
  <2>4. PICK h \in Shown[R] : Lifts(h, e, l)
    BY <1>23, <2>3
  <2>5. h.what = "level" /\ h.serial = found.levels[1]
    BY <2>2, <2>3, <2>4 DEF Lifts, SameFind
  <2> QED
    BY <1>10, <2>4, <2>5 DEF LevelsShown
<1>25. LevelOf[found.levels[1]].name # c.owner
  BY <1>20, <1>21, <1>24 DEF IsOwner
<1>26. ~IsLimiter(found)
  BY <1>8, <1>16 DEF IsLimiter
<1>27. PICK d \in DoorsShown(t) : Leads(d, found, n)
  BY <1>13, <1>26
<1>28. d \in Shown[t] /\ d.what = "door"
  BY DEF DoorsShown
<1>29. PICK h \in Shown[R] : Lifts(h, d, l)
  BY <1>23, <1>28
<1>30. /\ d.root \in Gates /\ d.root # NoValue /\ StartsWith(n, d.root) /\ MatchIri(d, n)
       /\ d.levels # << >> /\ d.levels[1].name = LevelOf[found.levels[1]].name
  BY <1>1, <1>3, <1>21, <1>27, <1>28, FindsInPlace DEF Leads, FindIn, IsFound
<1>31. /\ IsFound(h) /\ h.what = "door" /\ h.text = d.text /\ h.match = d.match
       /\ h.levels # << >> /\ h.levels[1] = d.levels[1] /\ h.levels \in Seq(Frames)
  BY <1>28, <1>29, <1>30 DEF Lifts, SameFind, IsFound
<1>32. ~Placed(h, c.owner)
  <2>1. Head(h.levels) = h.levels[1]
    BY <1>31
  <2> QED
    BY <1>20, <1>25, <1>30, <1>31, <2>1 DEF Placed
<1>33. \E j \in DOMAIN h.levels : h.levels[j].name = c.owner /\ h.levels[j].gate = d.root
  BY <1>20, <1>29 DEF Lifts
<1>34. MatchIri(h, n)
  BY <1>30, <1>31 DEF MatchIri
<1>35. Binds(h, c)
  BY <1>1, <1>10, <1>17, <1>30, <1>31, <1>32, <1>33, <1>34, BoundIs
<1> QED
  BY <1>10, <1>31, <1>35 DEF DoorsShown

\* No walk of a plain chain is refused.
LEMMA WalkUnbroken ==
  ASSUME ChainAssumption, root \in DOMAIN RootOf, TableFor(seals, RootOf[root]), NothingHidden, seals.built,
         NEW n \in Asked, NEW s, IsScope(s), \A i \in DOMAIN s.levels : Plain(s.levels[i])
  PROVE  ResolveIn(s, n) # Breach
<1> DEFINE r == ResolveIn(s, n)
<1>1. n \in Texts /\ Breach.hit = FALSE /\ Miss # Breach /\ s.levels \in Seq(DOMAIN LevelOf)
  BY DEF ChainAssumption, Breach, Miss, IsScope
<1>2. \/ HostAnswers(r, s, n) \/ FrameAnswers(r, s, n) \/ BehindAnswers(r, s, n)
      \/ RootAnswers(r, s, n) \/ (r = Miss /\ s.severed)
  BY <1>1, ResolveIs
<1> HIDE DEF r
<1>3. r # Breach
  <2>1. CASE HostAnswers(r, s, n)
    BY <1>1, <2>1 DEF HostAnswers
  <2>2. CASE BehindAnswers(r, s, n)
    BY <1>1, <2>2 DEF BehindAnswers
  <2>3. CASE FrameAnswers(r, s, n)
    <3>1. PICK owners : /\ seals.trivial \/ owners = OwnersOf(seals, n)
                        /\ \E i \in DOMAIN s.levels : \E f : FramedIn(f, s.levels, i, n, owners) /\ r = Admit(f, n)
      BY <2>3 DEF FrameAnswers
    <3>2. PICK i \in DOMAIN s.levels : \E f : FramedIn(f, s.levels, i, n, owners) /\ r = Admit(f, n)
      BY <3>1
    <3>3. PICK f : FramedIn(f, s.levels, i, n, owners) /\ r = Admit(f, n)
      BY <3>2
    <3> QED
      BY <1>1, <3>1, <3>3, FrameUnbroken
  <2>4. CASE RootAnswers(r, s, n)
    BY <2>4, RootUnbroken DEF RootAnswers
  <2>5. CASE r = Miss
    BY <1>1, <2>5
  <2> QED
    BY <1>2, <2>1, <2>2, <2>3, <2>4, <2>5
<1> QED
  BY <1>3 DEF r

-----------------------------------------------------------------------------
(* What every step keeps.                                                    *)

LEMMA OneMoreApart ==
  ASSUME ChainInv, NEW c \in DOMAIN CorridorOf
  PROVE  /\ Tagged(Corridor(c, ByName(c)), fresh) /\ Apart(OnChains \cup {Corridor(c, ByName(c))})
         /\ Tagged(Corridor(c, Anonymous(fresh)), fresh + 1)
         /\ Apart(OnChains \cup {Corridor(c, Anonymous(fresh))})
<1> DEFINE named == Corridor(c, ByName(c))
           numbered == Corridor(c, Anonymous(fresh))
<1>1. fresh \in Nat /\ Apart(OnChains) /\ \A k \in OnChains : Tagged(k, fresh)
  BY DEF ChainInv
<1>2. /\ named \in Corridors /\ named.space = c /\ named.id = ByName(c)
      /\ numbered \in Corridors /\ numbered.space = c /\ numbered.id = Anonymous(fresh)
  BY <1>1, IdentityIs DEF Corridor
<1>3. \A a, b : /\ ByName(a) = ByName(b) => a = b
                /\ Anonymous(a) = Anonymous(b) => a = b
                /\ ByName(a) # Anonymous(b)
  BY DEF ByName, Anonymous
<1> HIDE DEF named, numbered
<1>4. Tagged(named, fresh) /\ Tagged(numbered, fresh + 1)
  BY <1>1, <1>2 DEF Tagged
<1>5. \A k \in OnChains : k.id = ByName(c) => k = named
  <2> SUFFICES ASSUME NEW k \in OnChains, k.id = ByName(c) PROVE k = named
    OBVIOUS
  <2>1. k \in Corridors /\ k.space = c
    BY <1>1, <1>3 DEF Tagged
  <2> QED
    BY <1>2, <2>1 DEF Corridors
<1>6. \A k \in OnChains : k.id # Anonymous(fresh)
  BY <1>1, <1>3 DEF Tagged
<1> QED
  BY <1>1, <1>2, <1>4, <1>5, <1>6 DEF Apart, named, numbered

LEMMA PathsOfHits ==
  ASSUME ChainAssumption, ChainInv, NEW w \in Who, NEW n \in Asked, ResolveIn(scope[w], n).hit
  PROVE  LET t == Descend(scope[w], ResolveIn(scope[w], n).levels)
         IN  /\ IsScope(t) /\ t.confined = scope[w].confined /\ t.severed = scope[w].severed
             /\ t.levels = ResolveIn(scope[w], n).levels
             /\ t.injected = scope[w].injected
             /\ NothingHidden => \A i \in DOMAIN t.levels : Plain(t.levels[i])
<1> DEFINE s == scope[w]
           r == ResolveIn(s, n)
           t == Descend(s, r.levels)
<1>1. /\ IsScope(s) /\ root \in DOMAIN RootOf /\ TableFor(seals, RootOf[root]) /\ n \in Texts
      /\ NothingHidden => \A i \in DOMAIN s.levels : Plain(s.levels[i])
  BY DEF ChainInv, ChainAssumption
<1>2. r.hit
  OBVIOUS
<1> HIDE DEF s
<1>3. IsHit(r) /\ (NothingHidden => \A i \in DOMAIN r.levels : Plain(r.levels[i]))
  BY <1>1, <1>2, ReachedIs, ReachedPlain
<1> HIDE DEF r
<1>4. /\ IsScope(t) /\ t.confined = s.confined /\ t.levels = r.levels /\ t.severed = s.severed
      /\ t.injected = s.injected
  BY <1>1, <1>3, DescendIs DEF IsHit
<1> HIDE DEF t
<1>5. NothingHidden => \A i \in DOMAIN t.levels : Plain(t.levels[i])
  BY <1>3, <1>4
<1> QED
  BY <1>4, <1>5 DEF t, r, s

LEMMA ChainsStep ==
  ASSUME ChainAssumption, ChainInv, ChainsNext
  PROVE  ChainInv'
<1>1. PICK w \in Who : \/ \E c \in DOMAIN CorridorOf : Inject(w, c) \/ InjectAnonymous(w, c)
                       \/ SeverRoot(w)
                       \/ \E v \in Who : StackOn(w, v)
                       \/ \E n \in Asked : Issue(w, n)
  BY DEF ChainsNext
<1> DEFINE s == scope[w]
<1>2. /\ IsScope(s) /\ (s.confined > 0 => s.severed) /\ fresh \in Nat
      /\ CorridorsIn(s.injected) \subseteq OnChains
      /\ Apart(OnChains)
      /\ NothingHidden => \A i \in DOMAIN s.levels : Plain(s.levels[i])
  BY DEF ChainInv, OnChains
<1>3. ASSUME NEW c \in DOMAIN CorridorOf, Inject(w, c) PROVE ChainInv'
  <2> DEFINE k == Corridor(c, ByName(c))
  <2>1. PICK t : t = With(s, c, ByName(c))
    OBVIOUS
  <2>2. scope' = [scope EXCEPT ![w] = t] /\ root' = root /\ seals' = seals /\ fresh' = fresh
    BY <1>3, <2>1 DEF Inject, Extend
  <2>3. k \in Corridors /\ Tagged(k, fresh) /\ Apart(OnChains \cup {k})
    BY IdentityIs, OneMoreApart
  <2> HIDE DEF s
  <2>4. /\ IsScope(t) /\ t.confined = s.confined /\ t.levels = s.levels /\ t.severed = s.severed
        /\ CorridorsIn(t.injected) = CorridorsIn(s.injected) \cup {k}
    BY <1>2, <2>1, <2>3, WithIs
  <2> HIDE DEF k
  <2>5. PICK K : K = {k}
    OBVIOUS
  <2>6. /\ CorridorsIn(t.injected) \subseteq OnChains \cup K /\ Apart(OnChains \cup K)
        /\ \A j \in K : Tagged(j, fresh')
    BY <1>2, <2>2, <2>3, <2>4, <2>5
  <2>7. (t.confined > 0 => t.severed) /\ (NothingHidden => \A i \in DOMAIN t.levels : Plain(t.levels[i]))
    BY <1>2, <2>4
  <2>8. fresh' \in Nat /\ fresh <= fresh'
    BY <1>2, <2>2
  <2> QED
    BY <2>2, <2>4, <2>6, <2>7, <2>8, Extended
<1>4. ASSUME NEW c \in DOMAIN CorridorOf, InjectAnonymous(w, c) PROVE ChainInv'
  <2> DEFINE k == Corridor(c, Anonymous(fresh))
  <2>1. PICK t : t = With(s, c, Anonymous(fresh))
    OBVIOUS
  <2>2. scope' = [scope EXCEPT ![w] = t] /\ root' = root /\ seals' = seals /\ fresh' = fresh + 1
    BY <1>4, <2>1 DEF InjectAnonymous, Extend
  <2>3. k \in Corridors /\ Tagged(k, fresh + 1) /\ Apart(OnChains \cup {k})
    BY <1>2, IdentityIs, OneMoreApart
  <2> HIDE DEF s
  <2>4. /\ IsScope(t) /\ t.confined = s.confined /\ t.levels = s.levels /\ t.severed = s.severed
        /\ CorridorsIn(t.injected) = CorridorsIn(s.injected) \cup {k}
    BY <1>2, <2>1, <2>3, WithIs
  <2> HIDE DEF k
  <2>5. PICK K : K = {k}
    OBVIOUS
  <2>6. /\ CorridorsIn(t.injected) \subseteq OnChains \cup K /\ Apart(OnChains \cup K)
        /\ \A j \in K : Tagged(j, fresh')
    BY <1>2, <2>2, <2>3, <2>4, <2>5
  <2>7. (t.confined > 0 => t.severed) /\ (NothingHidden => \A i \in DOMAIN t.levels : Plain(t.levels[i]))
    BY <1>2, <2>4
  <2>8. fresh' \in Nat /\ fresh <= fresh'
    BY <1>2, <2>2
  <2> QED
    BY <2>2, <2>4, <2>6, <2>7, <2>8, Extended
<1>5. ASSUME SeverRoot(w) PROVE ChainInv'
  <2>1. PICK t : t = Severed(s)
    OBVIOUS
  <2>2. scope' = [scope EXCEPT ![w] = t] /\ root' = root /\ seals' = seals /\ fresh' = fresh
    BY <1>5, <2>1 DEF SeverRoot, Extend
  <2> HIDE DEF s
  <2>3. /\ IsScope(t) /\ t.confined = s.confined /\ t.levels = s.levels /\ t.severed
        /\ t.injected = s.injected
    BY <1>2, <2>1, SeveredIs
  <2>4. PICK K : K = {}
    OBVIOUS
  <2>5. /\ CorridorsIn(t.injected) \subseteq OnChains \cup K /\ Apart(OnChains \cup K)
        /\ \A j \in K : Tagged(j, fresh')
    BY <1>2, <2>3, <2>4
  <2>6. (t.confined > 0 => t.severed) /\ (NothingHidden => \A i \in DOMAIN t.levels : Plain(t.levels[i]))
    BY <1>2, <2>3
  <2>7. fresh' \in Nat /\ fresh <= fresh'
    BY <1>2, <2>2
  <2> QED
    BY <2>2, <2>3, <2>5, <2>6, <2>7, Extended
<1>6. ASSUME NEW v \in Who, StackOn(w, v) PROVE ChainInv'
  <2> DEFINE u == scope[v]
  <2>1. PICK t : t = Stack(s, u)
    OBVIOUS
  <2>2. scope' = [scope EXCEPT ![w] = t] /\ root' = root /\ seals' = seals /\ fresh' = fresh
    BY <1>6, <2>1 DEF StackOn, Extend
  <2>3. /\ IsScope(u) /\ (u.confined > 0 => u.severed)
        /\ CorridorsIn(u.injected) \subseteq OnChains
        /\ NothingHidden => \A i \in DOMAIN u.levels : Plain(u.levels[i])
    BY DEF ChainInv, OnChains
  <2> HIDE DEF s, u
  <2>4. /\ IsScope(t) /\ t.confined = s.confined + u.confined
        /\ t.levels = IF u.levels # << >> THEN u.levels ELSE IF u.confined > 0 THEN << >> ELSE s.levels
        /\ t.severed <=> (s.severed \/ u.severed)
        /\ CorridorsIn(t.injected) = CorridorsIn(s.injected) \cup CorridorsIn(u.injected)
    BY <1>2, <2>1, <2>3, StackIs
  <2>5. PICK K : K = {}
    OBVIOUS
  <2>6. /\ CorridorsIn(t.injected) \subseteq OnChains \cup K /\ Apart(OnChains \cup K)
        /\ \A j \in K : Tagged(j, fresh')
    BY <1>2, <2>3, <2>4, <2>5
  <2>7. s.confined \in Nat /\ u.confined \in Nat /\ DOMAIN << >> = {}
    BY <1>2, <2>3 DEF IsScope
  <2>8. t.confined > 0 => t.severed
    BY <1>2, <2>3, <2>4, <2>7
  <2>9. NothingHidden => \A i \in DOMAIN t.levels : Plain(t.levels[i])
    BY <1>2, <2>3, <2>4, <2>7
  <2>10. fresh' \in Nat /\ fresh <= fresh'
    BY <1>2, <2>2
  <2> QED
    BY <2>2, <2>4, <2>6, <2>8, <2>9, <2>10, Extended
<1>7. ASSUME NEW n \in Asked, Issue(w, n) PROVE ChainInv'
  <2> DEFINE r == ResolveIn(s, n)
             inner == Descend(s, r.levels)
             c == ConfinedTo[r.door]
             t == Confined(inner, c)
  <2>1. r.hit /\ fresh' = fresh /\ Extend(w, IF r.door \in DOMAIN ConfinedTo THEN t ELSE inner)
    BY <1>7 DEF Issue
  <2>2. /\ IsScope(inner) /\ inner.confined = s.confined /\ inner.severed = s.severed /\ inner.injected = s.injected
        /\ NothingHidden => \A i \in DOMAIN inner.levels : Plain(inner.levels[i])
    BY <2>1, PathsOfHits
  <2>3. r.door \in DOMAIN ConfinedTo => c \in DOMAIN CorridorOf
    BY DEF ChainAssumption
  <2>4. fresh' \in Nat /\ fresh <= fresh'
    BY <1>2, <2>1
  <2>5. CASE r.door \in DOMAIN ConfinedTo
    <3> DEFINE k == Corridor(c, ByName(c))
    <3>1. PICK e : e = t
      OBVIOUS
    <3>2. scope' = [scope EXCEPT ![w] = e] /\ root' = root /\ seals' = seals
      BY <2>1, <2>5, <3>1 DEF Extend
    <3> HIDE DEF inner, c, s
    <3>3. Tagged(k, fresh) /\ Apart(OnChains \cup {k})
      BY <2>3, <2>5, OneMoreApart
    <3>4. /\ IsScope(e) /\ e.levels = << >> /\ e.severed
          /\ CorridorsIn(e.injected) = CorridorsIn(inner.injected) \cup {k}
      BY <2>2, <2>3, <2>5, <3>1, ConfinedIs
    <3> HIDE DEF k
    <3>5. PICK K : K = {k}
      OBVIOUS
    <3>6. /\ CorridorsIn(e.injected) \subseteq OnChains \cup K /\ Apart(OnChains \cup K)
          /\ \A j \in K : Tagged(j, fresh')
      BY <1>2, <2>1, <2>2, <3>3, <3>4, <3>5
    <3>7. (e.confined > 0 => e.severed) /\ (NothingHidden => \A i \in DOMAIN e.levels : Plain(e.levels[i]))
      BY <3>4
    <3> QED
      BY <2>4, <3>2, <3>4, <3>6, <3>7, Extended
  <2>6. CASE r.door \notin DOMAIN ConfinedTo
    <3>1. PICK e : e = inner
      OBVIOUS
    <3>2. scope' = [scope EXCEPT ![w] = e] /\ root' = root /\ seals' = seals
      BY <2>1, <2>6, <3>1 DEF Extend
    <3> HIDE DEF inner, s
    <3>3. PICK K : K = {}
      OBVIOUS
    <3>4. /\ CorridorsIn(e.injected) \subseteq OnChains \cup K /\ Apart(OnChains \cup K)
          /\ \A j \in K : Tagged(j, fresh')
      BY <1>2, <2>2, <3>1, <3>3
    <3>5. /\ IsScope(e) /\ (e.confined > 0 => e.severed)
          /\ NothingHidden => \A i \in DOMAIN e.levels : Plain(e.levels[i])
      BY <1>2, <2>2, <3>1
    <3> QED
      BY <2>4, <3>2, <3>4, <3>5, Extended
  <2> QED
    BY <2>5, <2>6
<1> QED
  BY <1>1, <1>3, <1>4, <1>5, <1>6, <1>7

\* The chains of every run of a kernel are chains as described.
LEMMA ChainsInvariant ==
  ASSUME ChainAssumption PROVE ChainsSpec => []ChainInv
<1>1. ChainsInit => ChainInv
  BY ChainsStart
<1>2. ChainInv /\ [ChainsNext]_chainVars => ChainInv'
  <2> SUFFICES ASSUME ChainInv, [ChainsNext]_chainVars PROVE ChainInv'
    OBVIOUS
  <2>1. CASE ChainsNext
    BY <2>1, ChainsStep
  <2>2. CASE UNCHANGED chainVars
    <3>1. root' = root /\ seals' = seals /\ scope' = scope /\ fresh' = fresh
      BY <2>2 DEF chainVars
    <3>2. OnChains' = OnChains
      BY <3>1 DEF OnChains, CorridorsIn
    <3>3. NothingHidden' => NothingHidden
      BY <3>1 DEF NothingHidden, Known
    <3>4. ASSUME NEW w \in Who, NEW i \in DOMAIN scope[w].levels, Plain(scope[w].levels[i])
          PROVE  Plain(scope[w].levels[i])'
      BY <3>1, <3>4 DEF Plain, Clear, Known
    <3> QED
      BY <3>1, <3>2, <3>3, <3>4 DEF ChainInv
  <2> QED
    BY <2>1, <2>2
<1> QED
  BY <1>1, <1>2, PTL DEF ChainsSpec

\* A sealed name is answered by a door of its owner or by a corridor the host
\* injected, whatever chain asks it, and where the topology shows everything no
\* answer is refused after the kernel was built (SealTable of seal.rs).
THEOREM SealsAlwaysHold ==
  ASSUME ChainAssumption PROVE ChainsSpec => []SealsHold
<1>1. ASSUME ChainInv, seals.built PROVE SealedByOwner /\ BuildShowsAll
  <2>1. /\ root \in DOMAIN RootOf /\ TableFor(seals, RootOf[root]) /\ \A w \in Who : IsScope(scope[w])
        /\ NothingHidden => \A w \in Who : \A i \in DOMAIN scope[w].levels : Plain(scope[w].levels[i])
    BY <1>1 DEF ChainInv
  <2>2. \A w \in Who : SealedFor(scope[w])
    BY <2>1, ChainsAreSealed
  <2>3. SealedByOwner
    BY <2>2 DEF SealedByOwner, SealedFor
  <2>4. BuildShowsAll
    BY <1>1, <2>1, WalkUnbroken DEF BuildShowsAll
  <2> QED
    BY <2>3, <2>4
<1>2. ChainInv => SealsHold
  BY <1>1 DEF SealsHold
<1> QED
  BY <1>2, ChainsInvariant, PTL

-----------------------------------------------------------------------------
(* What a fingerprint keeps of a chain.                                      *)

LEMMA LastIsOnly ==
  ASSUME NEW cs \in Seq(Corridors), NEW n, NEW r, NEW q, LastAnswer(r, cs, n), LastAnswer(q, cs, n)
  PROVE  r = q
<1>1. Len(cs) \in Nat /\ DOMAIN cs = 1 .. Len(cs)
  OBVIOUS
<1>2. CASE \A i \in DOMAIN cs : ~CorridorAnswer(cs[i], n).hit
  BY <1>2 DEF LastAnswer
<1>3. CASE \E i \in DOMAIN cs : CorridorAnswer(cs[i], n).hit
  <2>1. PICK i \in DOMAIN cs : /\ CorridorAnswer(cs[i], n).hit /\ r = CorridorAnswer(cs[i], n)
                               /\ \A k \in DOMAIN cs : k > i => ~CorridorAnswer(cs[k], n).hit
    BY <1>3 DEF LastAnswer
  <2>2. PICK j \in DOMAIN cs : /\ CorridorAnswer(cs[j], n).hit /\ q = CorridorAnswer(cs[j], n)
                               /\ \A k \in DOMAIN cs : k > j => ~CorridorAnswer(cs[k], n).hit
    BY <1>3 DEF LastAnswer
  <2>3. i = j
    BY <1>1, <2>1, <2>2
  <2> QED
    BY <2>1, <2>2, <2>3
<1> QED
  BY <1>2, <1>3

LEMMA WholeHitIs ==
  ASSUME NEW s, IsScope(s), NEW n
  PROVE  CorridorHit(s.injected, n)
           = IF CorridorHit(Injected(s), n).hit THEN CorridorHit(Injected(s), n) ELSE CorridorHit(Behind(s), n)
<1> DEFINE all == s.injected
           c == s.confined
           b == Behind(s)
           h == Injected(s)
           whole == CorridorHit(all, n)
           host == CorridorHit(h, n)
           behind == CorridorHit(b, n)
<1>1. all \in Seq(Corridors) /\ c \in Nat /\ c <= Len(all)
  BY DEF IsScope
<1>2. /\ b \in Seq(Corridors) /\ Len(b) = c /\ \A i \in 1 .. c : b[i] = all[i]
      /\ h \in Seq(Corridors) /\ Len(h) = Len(all) - c /\ \A i \in 1 .. Len(all) - c : h[i] = all[c + i]
  BY SplitIs
<1> HIDE DEF all, c, b, h
<1>3. /\ Len(all) \in Nat /\ DOMAIN all = 1 .. Len(all)
      /\ DOMAIN b = 1 .. c /\ DOMAIN h = 1 .. Len(all) - c
  BY <1>1, <1>2
<1>4. LastAnswer(whole, all, n) /\ LastAnswer(host, h, n) /\ LastAnswer(behind, b, n)
  BY <1>1, <1>2, CorridorHitIs
<1> HIDE DEF whole, host, behind
<1>5. \A j \in DOMAIN all : \/ j \in DOMAIN b /\ b[j] = all[j] /\ j <= c
                            \/ j - c \in DOMAIN h /\ h[j - c] = all[j] /\ j > c
  <2> SUFFICES ASSUME NEW j \in DOMAIN all
               PROVE  \/ j \in DOMAIN b /\ b[j] = all[j] /\ j <= c
                      \/ j - c \in DOMAIN h /\ h[j - c] = all[j] /\ j > c
    OBVIOUS
  <2> DEFINE k == j - c
  <2>1. k \in Int /\ c + k = j /\ (j > c => k \in 1 .. Len(all) - c) /\ (j <= c => j \in 1 .. c)
    BY <1>1, <1>3
  <2>2. j > c \/ j <= c
    BY <1>1, <1>3
  <2> HIDE DEF k
  <2>3. (j > c => k \in DOMAIN h /\ h[k] = all[j]) /\ (j <= c => j \in DOMAIN b /\ b[j] = all[j])
    BY <1>2, <1>3, <2>1
  <2> QED
    BY <2>2, <2>3 DEF k
<1>6. CASE \E i \in DOMAIN h : CorridorAnswer(h[i], n).hit
  <2>1. PICK i \in DOMAIN h : /\ CorridorAnswer(h[i], n).hit /\ host = CorridorAnswer(h[i], n)
                              /\ \A j \in DOMAIN h : j > i => ~CorridorAnswer(h[j], n).hit
    BY <1>4, <1>6 DEF LastAnswer
  <2> DEFINE k == c + i
  <2>2. k \in DOMAIN all /\ k \in Int /\ k > c /\ i \in Int /\ \A j \in DOMAIN all : j > k => j > c /\ j - c > i
    BY <1>1, <1>3
  <2>3. h[i] = all[k]
    BY <1>2, <1>3
  <2> HIDE DEF k
  <2>4. \A j \in DOMAIN all : j > k => ~CorridorAnswer(all[j], n).hit
    <3> SUFFICES ASSUME NEW j \in DOMAIN all, j > k PROVE ~CorridorAnswer(all[j], n).hit
      OBVIOUS
    <3>1. j > c /\ j - c > i /\ j \in Int
      BY <1>3, <2>2
    <3>2. j - c \in DOMAIN h /\ h[j - c] = all[j]
      BY <1>1, <1>5, <3>1
    <3> QED
      BY <2>1, <3>1, <3>2
  <2>5. LastAnswer(host, all, n)
    BY <2>1, <2>2, <2>3, <2>4 DEF LastAnswer
  <2>6. whole = host /\ host.hit
    BY <1>1, <1>4, <2>1, <2>5, LastIsOnly
  <2> QED
    BY <2>6 DEF whole, host, all, h
<1>7. CASE \A i \in DOMAIN h : ~CorridorAnswer(h[i], n).hit
  <2>1. ~host.hit
    BY <1>4, <1>7 DEF LastAnswer, Miss
  <2>2. \A j \in DOMAIN all : j > c => ~CorridorAnswer(all[j], n).hit
    <3> SUFFICES ASSUME NEW j \in DOMAIN all, j > c PROVE ~CorridorAnswer(all[j], n).hit
      OBVIOUS
    <3>1. j - c \in DOMAIN h /\ h[j - c] = all[j]
      BY <1>1, <1>3, <1>5
    <3> QED
      BY <1>7, <3>1
  <2>3. \A j \in DOMAIN all : j <= c => j \in DOMAIN b /\ b[j] = all[j]
    BY <1>1, <1>3, <1>5
  <2>4. \A j \in DOMAIN all : j \in Int /\ (j > c \/ j <= c)
    BY <1>1, <1>3
  <2>5. LastAnswer(behind, all, n)
    <3>1. CASE behind = Miss /\ \A i \in DOMAIN b : ~CorridorAnswer(b[i], n).hit
      <4>1. \A j \in DOMAIN all : ~CorridorAnswer(all[j], n).hit
        BY <2>2, <2>3, <2>4, <3>1
      <4> QED
        BY <3>1, <4>1 DEF LastAnswer
    <3>2. CASE \E i \in DOMAIN b : /\ CorridorAnswer(b[i], n).hit /\ behind = CorridorAnswer(b[i], n)
                                   /\ \A j \in DOMAIN b : j > i => ~CorridorAnswer(b[j], n).hit
      <4>1. PICK i \in DOMAIN b : /\ CorridorAnswer(b[i], n).hit /\ behind = CorridorAnswer(b[i], n)
                                  /\ \A j \in DOMAIN b : j > i => ~CorridorAnswer(b[j], n).hit
        BY <3>2
      <4>2. i \in DOMAIN all /\ b[i] = all[i]
        BY <1>1, <1>2, <1>3
      <4>3. \A j \in DOMAIN all : j > i => ~CorridorAnswer(all[j], n).hit
        BY <2>2, <2>3, <2>4, <4>1
      <4> QED
        BY <4>1, <4>2, <4>3 DEF LastAnswer
    <3> QED
      BY <1>4, <3>1, <3>2 DEF LastAnswer
  <2>6. whole = behind
    BY <1>1, <1>4, <2>5, LastIsOnly
  <2> QED
    BY <2>1, <2>6 DEF whole, host, behind, all, h, b
<1> QED
  BY <1>6, <1>7

\* Outside every level a name no one seals is answered by the last corridor
\* that does, wherever the split is.
LEMMA LevellessIs ==
  ASSUME NEW s, IsScope(s), s.levels = << >>, NEW n, OwnersOf(seals, n) = {}
  PROVE  ResolveIn(s, n) = IF CorridorHit(s.injected, n).hit THEN CorridorHit(s.injected, n)
                           ELSE IF s.severed THEN Miss ELSE Admit(AnswerOf(RootOf[root], n), n)
<1> DEFINE host == CorridorHit(Injected(s), n)
           behind == CorridorHit(Behind(s), n)
           whole == CorridorHit(s.injected, n)
           other == Admit(AnswerOf(RootOf[root], n), n)
           owners == IF seals.trivial THEN {} ELSE OwnersOf(seals, n)
           frame == FrameHit(s.levels, n, owners)
           r == ResolveIn(s, n)
<1>1. owners = {}
  OBVIOUS
<1>2. frame = Miss
  <2>1. DOMAIN s.levels = {}
    OBVIOUS
  <2> QED
    BY <2>1 DEF FrameHit
<1>3. r = IF host.hit THEN host
          ELSE IF frame.hit THEN Admit(frame, n)
          ELSE IF (IF owners = {} THEN behind ELSE Miss).hit THEN (IF owners = {} THEN behind ELSE Miss)
          ELSE IF s.severed THEN Miss ELSE other
  BY DEF ResolveIn
<1>4. whole = IF host.hit THEN host ELSE behind
  BY WholeHitIs
<1> HIDE DEF host, behind, whole, other, owners, frame, r
<1>5. ~frame.hit
  BY <1>2 DEF Miss
<1>6. r = IF whole.hit THEN whole ELSE IF s.severed THEN Miss ELSE other
  BY <1>1, <1>3, <1>4, <1>5
<1> QED
  BY <1>6 DEF whole, other, r

LEMMA FingerprintParts ==
  ASSUME NEW s, NEW t, s # EmptyScope, t # EmptyScope, Fingerprint(s) = Fingerprint(t)
  PROVE  /\ s.severed = t.severed
         /\ DOMAIN s.injected = DOMAIN t.injected
         /\ \A i \in DOMAIN s.injected : s.injected[i].id = t.injected[i].id
         /\ (s.levels = << >>) = (t.levels = << >>)
         /\ s.levels # << >> => /\ s.confined = t.confined
                                /\ DOMAIN s.levels = DOMAIN t.levels
                                /\ \A i \in DOMAIN s.levels : LevelOf[s.levels[i]].name = LevelOf[t.levels[i]].name
<1> DEFINE ids(u) == [i \in DOMAIN u.injected |-> u.injected[i].id]
           names(u) == [i \in DOMAIN u.levels |-> LevelOf[u.levels[i]].name]
           place(u) == IF u.levels = << >> THEN << >> ELSE <<u.confined, names(u)>>
<1>1. <<s.severed, ids(s), place(s)>> = <<t.severed, ids(t), place(t)>>
  BY DEF Fingerprint
<1>2. /\ DOMAIN ids(s) = DOMAIN s.injected /\ DOMAIN ids(t) = DOMAIN t.injected
      /\ \A i \in DOMAIN s.injected : ids(s)[i] = s.injected[i].id
      /\ \A i \in DOMAIN t.injected : ids(t)[i] = t.injected[i].id
      /\ DOMAIN names(s) = DOMAIN s.levels /\ DOMAIN names(t) = DOMAIN t.levels
      /\ \A i \in DOMAIN s.levels : names(s)[i] = LevelOf[s.levels[i]].name
      /\ \A i \in DOMAIN t.levels : names(t)[i] = LevelOf[t.levels[i]].name
  OBVIOUS
<1>3. /\ s.levels = << >> => place(s) = << >>
      /\ s.levels # << >> => place(s) = <<s.confined, names(s)>>
      /\ t.levels = << >> => place(t) = << >>
      /\ t.levels # << >> => place(t) = <<t.confined, names(t)>>
  OBVIOUS
<1> HIDE DEF ids, names, place
<1>4. s.severed = t.severed /\ ids(s) = ids(t) /\ place(s) = place(t)
  BY <1>1
<1>5. \A x, y : <<x, y>> # << >>
  OBVIOUS
<1>6. (s.levels = << >>) = (t.levels = << >>)
  BY <1>3, <1>4, <1>5
<1>7. s.levels # << >> => s.confined = t.confined /\ names(s) = names(t)
  BY <1>3, <1>4, <1>6
<1> QED
  BY <1>2, <1>4, <1>6, <1>7

LEMMA SameLength ==
  ASSUME NEW S, NEW q \in Seq(S), NEW r \in Seq(S), DOMAIN q = DOMAIN r
  PROVE  Len(q) = Len(r)
<1> DEFINE m == Len(q)
           n == Len(r)
<1>1. m \in Nat /\ n \in Nat /\ 1 .. m = 1 .. n
  OBVIOUS
<1> HIDE DEF m, n
<1>2. ~(m > n)
  <2>1. m > n => m \in 1 .. m /\ m \notin 1 .. n
    BY <1>1
  <2> QED
    BY <1>1, <2>1
<1>3. ~(n > m)
  <2>1. n > m => n \in 1 .. n /\ n \notin 1 .. m
    BY <1>1
  <2> QED
    BY <1>1, <2>1
<1>4. m = n
  BY <1>1, <1>2, <1>3
<1> QED
  BY <1>4 DEF m, n

LEMMA FingerprintTells ==
  ASSUME ChainAssumption, ChainInv, HonestNames, NEW v \in Who, NEW w \in Who,
         Fingerprint(scope[v]) = Fingerprint(scope[w]), NEW n \in Asked, OwnersOf(seals, n) = {}
  PROVE  ResolveIn(scope[v], n) = ResolveIn(scope[w], n)
<1> DEFINE s == scope[v]
           t == scope[w]
<1>1. IsScope(s) /\ IsScope(t)
  BY DEF ChainInv
<1>2. CorridorsIn(s.injected) \subseteq OnChains /\ CorridorsIn(t.injected) \subseteq OnChains /\ Apart(OnChains)
  BY DEF ChainInv, OnChains
<1>3. \A i \in DOMAIN s.levels, j \in DOMAIN t.levels :
        LevelOf[s.levels[i]].name = LevelOf[t.levels[j]].name => s.levels[i] = t.levels[j]
  BY DEF HonestNames
<1>4. Fingerprint(s) = Fingerprint(t)
  OBVIOUS
<1> HIDE DEF s, t
<1>5. s = EmptyScope => Fingerprint(s) = << >>
  BY DEF Fingerprint
<1>6. t = EmptyScope => Fingerprint(t) = << >>
  BY DEF Fingerprint
<1>7. s # EmptyScope => Fingerprint(s) # << >>
  BY DEF Fingerprint
<1>8. t # EmptyScope => Fingerprint(t) # << >>
  BY DEF Fingerprint
<1>9. CASE s = EmptyScope \/ t = EmptyScope
  <2>1. s = t
    BY <1>4, <1>9, <1>5, <1>6, <1>7, <1>8
  <2> QED
    BY <2>1 DEF s, t
<1>10. CASE s # EmptyScope /\ t # EmptyScope
  <2>1. /\ s.severed = t.severed
        /\ DOMAIN s.injected = DOMAIN t.injected
        /\ \A i \in DOMAIN s.injected : s.injected[i].id = t.injected[i].id
        /\ (s.levels = << >>) = (t.levels = << >>)
        /\ s.levels # << >> => /\ s.confined = t.confined
                               /\ DOMAIN s.levels = DOMAIN t.levels
                               /\ \A i \in DOMAIN s.levels : LevelOf[s.levels[i]].name = LevelOf[t.levels[i]].name
    BY <1>4, <1>10, FingerprintParts
  <2>2. /\ s.injected \in Seq(Corridors) /\ t.injected \in Seq(Corridors)
        /\ s.levels \in Seq(DOMAIN LevelOf) /\ t.levels \in Seq(DOMAIN LevelOf)
        /\ DOMAIN s.injected = 1 .. Len(s.injected) /\ DOMAIN t.injected = 1 .. Len(t.injected)
        /\ DOMAIN s.levels = 1 .. Len(s.levels) /\ DOMAIN t.levels = 1 .. Len(t.levels)
        /\ Len(s.injected) \in Nat /\ Len(t.injected) \in Nat /\ Len(s.levels) \in Nat /\ Len(t.levels) \in Nat
    BY <1>1 DEF IsScope
  <2>3. \A i \in DOMAIN s.injected : s.injected[i] = t.injected[i]
    BY <1>2, <2>1 DEF Apart, CorridorsIn
  <2>4. Len(s.injected) = Len(t.injected)
    BY <2>1, <2>2, SameLength
  <2>5. s.injected = t.injected
    BY <2>2, <2>3, <2>4, SeqEqual
  <2>6. CASE s.levels = << >>
    <3>1. t.levels = << >>
      BY <2>1, <2>6
    <3>2. ResolveIn(s, n) = IF CorridorHit(s.injected, n).hit THEN CorridorHit(s.injected, n)
                            ELSE IF s.severed THEN Miss ELSE Admit(AnswerOf(RootOf[root], n), n)
      BY <1>1, <2>6, LevellessIs
    <3>3. ResolveIn(t, n) = IF CorridorHit(t.injected, n).hit THEN CorridorHit(t.injected, n)
                            ELSE IF t.severed THEN Miss ELSE Admit(AnswerOf(RootOf[root], n), n)
      BY <1>1, <3>1, LevellessIs
    <3>4. ResolveIn(s, n) = ResolveIn(t, n)
      BY <2>1, <2>5, <3>2, <3>3
    <3> QED
      BY <3>4 DEF s, t
  <2>7. CASE s.levels # << >>
    <3>1. \A i \in DOMAIN s.levels : s.levels[i] = t.levels[i]
      BY <1>3, <2>1, <2>7
    <3>2. Len(s.levels) = Len(t.levels)
      BY <2>1, <2>2, <2>7, SameLength
    <3>3. s.levels = t.levels
      BY <2>2, <3>1, <3>2, SeqEqual
    <3>4. s.confined = t.confined
      BY <2>1, <2>7
    <3>5. s = t
      BY <1>1, <2>1, <2>5, <3>3, <3>4 DEF IsScope
    <3> QED
      BY <3>5 DEF s, t
  <2> QED
    BY <2>6, <2>7
<1> QED
  BY <1>9, <1>10

\* Two chains with one fingerprint answer an unsealed name alike, wherever
\* their corridors were injected or confined, as long as a level's name names
\* one level (Scope::fingerprint of space.rs).
THEOREM FingerprintAlwaysDetermines ==
  ASSUME ChainAssumption PROVE ChainsSpec => []FingerprintDetermines
<1>1. ASSUME ChainInv, HonestNames, NEW v \in Who, NEW w \in Who,
             Fingerprint(scope[v]) = Fingerprint(scope[w]), NEW n \in Asked, OwnersOf(seals, n) = {}
      PROVE  SameAnswer(scope[v], scope[w], n)
  <2>1. ResolveIn(scope[v], n) = ResolveIn(scope[w], n)
    BY <1>1, FingerprintTells
  <2> QED
    BY <2>1 DEF SameAnswer
<1>2. ChainInv => FingerprintDetermines
  BY <1>1 DEF FingerprintDetermines
<1> QED
  BY <1>2, ChainsInvariant, PTL


-----------------------------------------------------------------------------
(* What keeps a confined chain to its corridors.                             *)

LEMMA DoorsGrow ==
  ASSUME NEW cs, NEW ds, CorridorsIn(cs) \subseteq CorridorsIn(ds)
  PROVE  CorridorDoors(cs) \subseteq CorridorDoors(ds)
BY DoorsOfCorridors

\* A chain keeps to its corridors when the one it was extended from did.
LEMMA KeptOn ==
  ASSUME NEW s, NEW t, CorridorsIn(s.injected) \subseteq CorridorsIn(t.injected),
         t.confined > 0 => t.severed,
         t.levels # << >> /\ t.confined > 0 =>
            \A i \in DOMAIN t.levels : DoorsOfSpace(LevelOf[t.levels[i]].inner) \subseteq CorridorDoors(s.injected)
  PROVE  Kept(t)
<1>1. CorridorDoors(s.injected) \subseteq CorridorDoors(t.injected)
  BY DoorsGrow
<1>2. t.levels = << >> => DOMAIN t.levels = {}
  OBVIOUS
<1> QED
  BY <1>1, <1>2 DEF Kept

LEMMA KeptStep ==
  ASSUME ChainAssumption, ChainInv, NEW w \in Who, Kept(scope[w]), ChainsNext,
         ~\E v \in Who : scope[v].levels # << >> /\ StackOn(w, v)
  PROVE  Kept(scope'[w])
<1> DEFINE s == scope[w]
           D == CorridorDoors(s.injected)
<1>1. PICK u \in Who : \/ \E c \in DOMAIN CorridorOf : Inject(u, c) \/ InjectAnonymous(u, c)
                       \/ SeverRoot(u)
                       \/ \E v \in Who : StackOn(u, v)
                       \/ \E n \in Asked : Issue(u, n)
  BY DEF ChainsNext
<1>2. /\ root \in DOMAIN RootOf /\ scope = [v \in Who |-> scope[v]]
      /\ IsScope(s) /\ (s.confined > 0 => s.severed) /\ s.confined \in Nat /\ fresh \in Nat
      /\ s.confined > 0 => \A i \in DOMAIN s.levels : DoorsOfSpace(LevelOf[s.levels[i]].inner) \subseteq D
  BY DEF ChainInv, Kept, IsScope
<1>3. CASE u # w
  <2>1. \E t : scope' = [scope EXCEPT ![u] = t]
    BY <1>1 DEF Inject, InjectAnonymous, SeverRoot, StackOn, Issue, Extend
  <2>2. scope'[w] = scope[w]
    BY <1>2, <1>3, <2>1
  <2> QED
    BY <2>2
<1>4. CASE u = w
  <2>1. ASSUME NEW c \in DOMAIN CorridorOf, NEW id, Corridor(c, id) \in Corridors,
               scope' = [scope EXCEPT ![w] = With(s, c, id)]
        PROVE  Kept(scope'[w])
    <3>1. PICK t : t = With(s, c, id)
      OBVIOUS
    <3>2. scope'[w] = t
      BY <1>2, <2>1, <3>1
    <3> HIDE DEF s
    <3>3. /\ t.confined = s.confined /\ t.levels = s.levels /\ t.severed = s.severed
          /\ CorridorsIn(t.injected) = CorridorsIn(s.injected) \cup {Corridor(c, id)}
      BY <1>2, <2>1, <3>1, WithIs
    <3>4. Kept(t)
      BY <1>2, <3>3, KeptOn
    <3> QED
      BY <3>2, <3>4
  <2>2. ASSUME NEW c \in DOMAIN CorridorOf, Inject(w, c) PROVE Kept(scope'[w])
    <3>1. PICK id : id = ByName(c)
      OBVIOUS
    <3>2. scope' = [scope EXCEPT ![w] = With(s, c, id)]
      BY <2>2, <3>1 DEF Inject, Extend
    <3> QED
      BY <2>1, <3>1, <3>2, IdentityIs
  <2>3. ASSUME NEW c \in DOMAIN CorridorOf, InjectAnonymous(w, c) PROVE Kept(scope'[w])
    <3>1. PICK id : id = Anonymous(fresh)
      OBVIOUS
    <3>2. scope' = [scope EXCEPT ![w] = With(s, c, id)]
      BY <2>3, <3>1 DEF InjectAnonymous, Extend
    <3> QED
      BY <1>2, <2>1, <3>1, <3>2, IdentityIs
  <2>4. ASSUME SeverRoot(w) PROVE Kept(scope'[w])
    <3>1. PICK t : t = Severed(s)
      OBVIOUS
    <3>2. scope'[w] = t
      BY <1>2, <2>4, <3>1 DEF SeverRoot, Extend
    <3> HIDE DEF s
    <3>3. /\ t.confined = s.confined /\ t.levels = s.levels /\ t.severed /\ t.injected = s.injected
      BY <1>2, <3>1, SeveredIs
    <3>4. Kept(t)
      BY <1>2, <3>3, KeptOn
    <3> QED
      BY <3>2, <3>4
  <2>5. ASSUME NEW v \in Who, StackOn(w, v) PROVE Kept(scope'[w])
    <3> DEFINE in == scope[v]
    <3>1. PICK t : t = Stack(s, in)
      OBVIOUS
    <3>2. scope'[w] = t
      BY <1>2, <2>5, <3>1 DEF StackOn, Extend
    <3>3. IsScope(in) /\ (in.confined > 0 => in.severed) /\ in.confined \in Nat
      BY DEF ChainInv, IsScope
    <3>4. in.levels = << >>
      BY <2>5
    <3> HIDE DEF s, in
    <3>5. /\ t.confined = s.confined + in.confined
          /\ t.levels = IF in.levels # << >> THEN in.levels ELSE IF in.confined > 0 THEN << >> ELSE s.levels
          /\ t.severed <=> (s.severed \/ in.severed)
          /\ CorridorsIn(s.injected) \subseteq CorridorsIn(t.injected)
      <4>1. IsScope(s) /\ IsScope(in) /\ t = Stack(s, in)
        BY <1>2, <3>1, <3>3
      <4>2. t.confined = s.confined + in.confined
        BY <4>1, StackIs
      <4>3. t.levels = IF in.levels # << >> THEN in.levels ELSE IF in.confined > 0 THEN << >> ELSE s.levels
        BY <4>1, StackIs
      <4>4. t.severed <=> (s.severed \/ in.severed)
        BY <4>1, StackIs
      <4>5. CorridorsIn(t.injected) = CorridorsIn(s.injected) \cup CorridorsIn(in.injected)
        BY <4>1, StackIs
      <4> QED
        BY <4>2, <4>3, <4>4, <4>5
    <3>6. t.confined > 0 => t.severed
      BY <1>2, <3>3, <3>5
    <3>7. t.levels # << >> => t.levels = s.levels /\ t.confined = s.confined
      BY <1>2, <3>3, <3>4, <3>5
    <3>8. Kept(t)
      BY <1>2, <3>5, <3>6, <3>7, KeptOn
    <3> QED
      BY <3>2, <3>8
  <2>6. ASSUME NEW n \in Asked, Issue(w, n) PROVE Kept(scope'[w])
    <3> DEFINE r == ResolveIn(s, n)
               inner == Descend(s, r.levels)
               c == ConfinedTo[r.door]
    <3>1. PICK t : t = IF r.door \in DOMAIN ConfinedTo THEN Confined(inner, c) ELSE inner
      OBVIOUS
    <3>2. r.hit /\ scope'[w] = t
      BY <1>2, <2>6, <3>1 DEF Issue, Extend
    <3>3. IsHit(r) /\ (s.confined > 0 => \A k \in DOMAIN r.levels : DoorsOfSpace(LevelOf[r.levels[k]].inner) \subseteq D)
      BY <1>2, <3>2, ReachedIs DEF ChainAssumption
    <3>4. /\ IsScope(inner) /\ inner.confined = s.confined /\ inner.severed = s.severed /\ inner.injected = s.injected
          /\ inner.levels = r.levels
      BY <3>2, PathsOfHits
    <3>5. r.door \in DOMAIN ConfinedTo => c \in DOMAIN CorridorOf
      BY DEF ChainAssumption
    <3> HIDE DEF inner, c
    <3>6. CASE r.door \in DOMAIN ConfinedTo
      <4>1. t.levels = << >> /\ t.severed /\ CorridorsIn(inner.injected) \subseteq CorridorsIn(t.injected)
        BY <3>1, <3>4, <3>5, <3>6, ConfinedIs
      <4> HIDE DEF s
      <4>2. CorridorsIn(s.injected) \subseteq CorridorsIn(t.injected)
        BY <3>4, <4>1
      <4>3. Kept(t)
        BY <4>1, <4>2, KeptOn
      <4> QED
        BY <3>2, <4>3
    <3>7. CASE r.door \notin DOMAIN ConfinedTo
      <4>1. t = inner
        BY <3>1, <3>7
      <4> HIDE DEF s, r
      <4>2. /\ CorridorsIn(s.injected) \subseteq CorridorsIn(t.injected)
            /\ t.confined = s.confined /\ t.severed = s.severed /\ t.levels = r.levels
        BY <3>4, <4>1
      <4>3. Kept(t)
        BY <1>2, <3>3, <4>2, KeptOn
      <4> QED
        BY <3>2, <4>3
    <3> QED
      BY <3>6, <3>7
  <2> QED
    BY <1>1, <1>4, <2>2, <2>3, <2>4, <2>5, <2>6
<1> QED
  BY <1>3, <1>4

\* A chain that keeps to its corridors reaches no other door.
KeptReach == \A w \in Who : Kept(scope[w]) => Contained(scope[w])

LEMMA KeptAlwaysReach ==
  ASSUME ChainAssumption PROVE ChainsSpec => []KeptReach
<1>1. ChainInv => KeptReach
  BY KeptIsContained DEF ChainInv, KeptReach
<1> QED
  BY <1>1, ChainsInvariant, PTL

\* Once an endpoint is confined, whatever its sub-requests inject, sever or are
\* stacked on, nothing they ask reaches a door outside its corridors, but where
\* a host stacks on it a chain seen inside a level (Scope::confined and stack).
THEOREM ConfinedAlwaysStaysConfined ==
  ASSUME ChainAssumption PROVE ChainsSpec => ConfinedStaysConfined
<1>1. ASSUME ChainInv, KeptReach', [ChainsNext]_chainVars PROVE \A w \in Who : StaysConfined(w)
  <2> SUFFICES ASSUME NEW w \in Who, Kept(scope[w]),
                      ~\E v \in Who : scope[v].levels # << >> /\ StackOn(w, v)
               PROVE  Kept(scope[w])' /\ Contained(scope[w])'
    BY DEF StaysConfined
  <2>1. Kept(scope'[w])
    <3>1. CASE ChainsNext
      BY <1>1, <3>1, KeptStep
    <3>2. CASE UNCHANGED chainVars
      BY <3>2 DEF chainVars
    <3> QED
      BY <1>1, <3>1, <3>2
  <2>2. Kept(scope[w])'
    BY <2>1 DEF Kept
  <2>3. Contained(scope[w])'
    BY <1>1, <2>2 DEF KeptReach
  <2> QED
    BY <2>2, <2>3
<1>2. ChainsSpec => []ChainInv
  BY ChainsInvariant
<1>3. ChainsSpec => []KeptReach
  BY KeptAlwaysReach
<1>4. ChainInv /\ KeptReach' /\ [ChainsNext]_chainVars => [\A w \in Who : StaysConfined(w)]_chainVars
  BY <1>1
<1> QED
  BY <1>2, <1>3, <1>4, PTL DEF ChainsSpec, ConfinedStaysConfined
=============================================================================
