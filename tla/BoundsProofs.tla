----------------------------- MODULE BoundsProofs -----------------------------
(***************************************************************************)
(* The accounts of RunBudgets and of EvictionPolicies, which add up.       *)
(*                                                                         *)
(* The pools of a run are never overdrawn and never leak, for any tree of  *)
(* requests, limits, entitlements and amounts, however their takes, undos, *)
(* returns and admissions interleave.  The invariant adds, at every        *)
(* counter, what each request below it holds or drew and what its step     *)
(* under way has subtracted there and not yet settled: with what is left   *)
(* that is, at every moment, what the counter started with.  Of retries,   *)
(* which are never given back, no request draws more than it is entitled   *)
(* to.                                                                     *)
(*                                                                         *)
(* The cache keeps every bound of its policy, for any tables, keys,        *)
(* prefixes and sizes: of a store, only the entry's own partition can be   *)
(* over its bound, and no longer once the new entry has gone, so that the  *)
(* loop that evicts stays in that partition and ends within every bound.   *)
(***************************************************************************)
EXTENDS RunBudgets, EvictionPolicies, TalliesProofs, FiniteSetTheorems, WellFoundedInduction, TLAPS

(***************************************************************************)
(* Chains of counters.                                                     *)

Parents == [Requests -> Requests \cup {Absent}]
ClosedIn(f, S) == \A x \in S : f[x] # Absent => f[x] \in S

LEMMA PathIsLeast ==
  ASSUME NEW f, NEW c, NEW S \in SUBSET Requests, c \in S, ClosedIn(f, S)
  PROVE  PathIn(f, c) \subseteq S
BY DEF PathIn, ClosedIn

LEMMA PathIsClosed ==
  ASSUME BudgetAssumption, NEW f \in Parents, NEW c \in Requests
  PROVE  c \in PathIn(f, c) /\ PathIn(f, c) \subseteq Requests /\ ClosedIn(f, PathIn(f, c))
<1>1. c \in PathIn(f, c) /\ PathIn(f, c) \subseteq Requests
  BY DEF PathIn
<1>2. ASSUME NEW x \in PathIn(f, c), f[x] # Absent PROVE f[x] \in PathIn(f, c)
  <2>1. f[x] \in Requests
    BY <1>1, <1>2 DEF Parents
  <2>2. ASSUME NEW S \in SUBSET Requests, c \in S, \A y \in S : f[y] # Absent => f[y] \in S
        PROVE  f[x] \in S
    BY <1>2, <2>2 DEF PathIn
  <2> QED
    BY <2>1, <2>2 DEF PathIn
<1> QED
  BY <1>1, <1>2 DEF ClosedIn

\* A path is its first counter and the path of the next.
LEMMA PathSteps ==
  ASSUME BudgetAssumption, NEW f \in Parents, NEW c \in Requests
  PROVE  PathIn(f, c) = {c} \cup (IF f[c] = Absent THEN {} ELSE PathIn(f, f[c]))
<1> DEFINE S == {c} \cup (IF f[c] = Absent THEN {} ELSE PathIn(f, f[c]))
<1>1. f[c] \in Requests \cup {Absent}
  BY DEF Parents
<1>2. S \in SUBSET Requests /\ ClosedIn(f, S)
  BY <1>1, PathIsClosed DEF ClosedIn
<1>3. PathIn(f, c) \subseteq S
  BY <1>2, PathIsLeast
<1>4. c \in PathIn(f, c) /\ PathIn(f, c) \in SUBSET Requests /\ ClosedIn(f, PathIn(f, c))
  BY PathIsClosed
<1>5. f[c] # Absent => PathIn(f, f[c]) \subseteq PathIn(f, c)
  BY <1>4, PathIsLeast DEF ClosedIn
<1> QED
  BY <1>3, <1>4, <1>5

LEMMA PathGoesOn ==
  ASSUME BudgetAssumption, NEW f \in Parents, NEW c \in Requests, NEW d \in PathIn(f, c)
  PROVE  PathIn(f, d) \subseteq PathIn(f, c)
BY PathIsClosed, PathIsLeast

\* The path of a counter depends on the parents of its own counters alone.
LEMMA PathUnmoved ==
  ASSUME BudgetAssumption, NEW f \in Parents, NEW g \in Parents, NEW c \in Requests,
         \A x \in PathIn(f, c) : g[x] = f[x]
  PROVE  PathIn(g, c) = PathIn(f, c)
<1>1. c \in PathIn(f, c) /\ PathIn(f, c) \in SUBSET Requests /\ ClosedIn(g, PathIn(f, c))
  BY PathIsClosed DEF ClosedIn
<1>2. PathIn(g, c) \subseteq PathIn(f, c)
  BY <1>1, PathIsLeast
<1>3. c \in PathIn(g, c) /\ PathIn(g, c) \in SUBSET Requests /\ ClosedIn(g, PathIn(g, c))
  BY PathIsClosed
<1>4. ClosedIn(f, PathIn(g, c))
  BY <1>2, <1>3 DEF ClosedIn
<1> QED
  BY <1>2, <1>3, <1>4, PathIsLeast

(***************************************************************************)
(* The invariant.                                                          *)

\* The counters are a tree whose root is the door's.
Tree ==
  /\ above[DoorRequest] = Absent
  /\ \A c \in Minted : above[c] # Absent => above[c] \in Minted /\ c \notin Path(above[c])

PlaceOK(r) ==
  /\ pc[r] \in {"new", "measuring"} => r \notin Minted /\ holding[r] = 0 /\ kept[r] = 0
  /\ pc[r] # "new" => pool[r] \in Minted
  /\ pc[r] \in {"measuring", "taking", "undoing", "giving"} => at[r] \in Path(pool[r])
  /\ pc[r] = "undoing" => stop[r] \in Path(at[r]) \ {at[r]}

\* What r's step under way has subtracted from c, or has yet to give back.
InTransit(r, c) ==
  \/ pc[r] = "taking" /\ c \notin Path(at[r])
  \/ pc[r] = "undoing" /\ c \in Path(at[r]) /\ c \notin Path(stop[r])
  \/ pc[r] = "giving" /\ c \in Path(at[r])

\* What c lacks on r's account.
Out(r, c) ==
  IF r \in Running /\ c \in Path(pool[r])
  THEN holding[r] + kept[r] + (IF InTransit(r, c) THEN amount[r] ELSE 0)
  ELSE 0

Balanced(c) == left[c] + Tally(Requests, [r \in Requests |-> Out(r, c)]) = limit[c]

BudgetInv ==
  /\ BudgetsTyped /\ Tree
  /\ \A r \in Requests : PlaceOK(r)
  /\ \A c \in Minted : Balanced(c)

LEMMA MintedPath ==
  ASSUME BudgetAssumption, BudgetsTyped, Tree, NEW c \in Minted
  PROVE  Path(c) \subseteq Minted /\ c \in Path(c)
<1>1. ClosedIn(above, Minted) /\ Minted \in SUBSET Requests /\ above \in Parents
  BY DEF ClosedIn, Tree, Minted, BudgetsTyped, Parents
<1> QED
  BY <1>1, PathIsLeast, PathIsClosed DEF Path, Minted

\* From a counter of a path to another one further up: the way leads over the next.
LEMMA NextOnPath ==
  ASSUME BudgetAssumption, BudgetsTyped, NEW c \in Requests, NEW d \in Path(c), d # c
  PROVE  above[c] \in Requests /\ d \in Path(above[c])
<1>1. above \in Parents /\ above[c] \in Requests \cup {Absent}
  BY DEF BudgetsTyped, Parents
<1> QED
  BY <1>1, PathSteps DEF Path

LEMMA NoWayBack ==
  ASSUME BudgetAssumption, BudgetsTyped, Tree, NEW c \in Minted, NEW d \in Path(c), d # c
  PROVE  c \notin Path(d)
<1>1. c \in Requests /\ above \in Parents
  BY DEF Minted, BudgetsTyped, Parents
<1>2. above[c] \in Requests /\ d \in Path(above[c])
  BY <1>1, NextOnPath
<1>3. Path(d) \subseteq Path(above[c])
  BY <1>1, <1>2, PathGoesOn DEF Path
<1>4. c \notin Path(above[c])
  BY <1>2 DEF Tree, BudgetAssumption
<1> QED
  BY <1>3, <1>4

LEMMA OutIsNat ==
  ASSUME BudgetsTyped, NEW r \in Requests, NEW c
  PROVE  Out(r, c) \in Nat
BY DEF BudgetsTyped, Out

\* A counter stays right when what one request changes is changed in it as well.
LEMMA BalancedStep ==
  ASSUME BudgetAssumption, BudgetsTyped, BudgetsTyped', NEW c \in Requests, NEW q \in Requests,
         \A r \in Requests \ {q} : Out(r, c)' = Out(r, c),
         left'[c] + Out(q, c)' = left[c] + Out(q, c), limit'[c] = limit[c], Balanced(c)
  PROVE  Balanced(c)'
<1> DEFINE m == [r \in Requests |-> Out(r, c)]
           n == [r \in Requests |-> Out(r, c)']
<1>1. \A r \in Requests : Out(r, c) \in Nat /\ Out(r, c)' \in Nat
  BY OutIsNat DEF Out, BudgetsTyped, Running, InTransit, Path
<1>2. Tally(Requests, n) - Tally(Requests, m) = n[q] - m[q]
  BY <1>1, TallyStep DEF BudgetAssumption
<1>3. Tally(Requests, n) \in Nat /\ Tally(Requests, m) \in Nat
  BY <1>1, TallyIsNat DEF BudgetAssumption
<1>4. left[c] + Tally(Requests, m) = limit[c]
  BY DEF Balanced
<1>5. left[c] \in Nat /\ left'[c] \in Nat /\ limit[c] \in Nat
  BY DEF BudgetsTyped
<1>6. left'[c] + Tally(Requests, n) = limit'[c]
  BY <1>1, <1>2, <1>3, <1>4, <1>5
<1> QED
  BY <1>6 DEF Balanced, Tally

(***************************************************************************)
(* The steps that leave the tree as it is.                                 *)

\* A request that is where it was.
Still(r) ==
  /\ pool'[r] = pool[r] /\ pc'[r] = pc[r] /\ at'[r] = at[r] /\ stop'[r] = stop[r]
  /\ amount'[r] = amount[r] /\ holding'[r] = holding[r] /\ kept'[r] = kept[r]

LEMMA StillOut ==
  ASSUME UNCHANGED above, NEW r \in Requests, Still(r)
  PROVE  /\ PlaceOK(r) => PlaceOK(r)'
         /\ \A c \in Requests : Out(r, c)' = Out(r, c)
<1>1. Minted' = Minted /\ \A x : PathIn(above', x) = PathIn(above, x)
  BY DEF Minted
<1>2. PlaceOK(r) => PlaceOK(r)'
  BY <1>1 DEF PlaceOK, Path, Still
<1>3. ASSUME NEW c \in Requests PROVE Out(r, c)' = Out(r, c)
  BY <1>1 DEF Out, Running, InTransit, Path, Still
<1> QED
  BY <1>2, <1>3

LEMMA OneMoves ==
  ASSUME BudgetAssumption, BudgetInv, BudgetsTyped', NEW q \in Requests,
         UNCHANGED <<above, limit>>, \A r \in Requests \ {q} : Still(r), PlaceOK(q)',
         \A c \in Minted : left'[c] + Out(q, c)' = left[c] + Out(q, c)
  PROVE  BudgetInv'
<1>1. Minted' = Minted /\ Tree'
  BY DEF Minted, Tree, BudgetInv, Path
<1>2. \A r \in Requests : PlaceOK(r)'
  BY StillOut DEF BudgetInv
<1>3. ASSUME NEW c \in Minted PROVE Balanced(c)'
  <2>1. c \in Requests /\ Balanced(c) /\ limit'[c] = limit[c] /\ BudgetsTyped
    BY DEF Minted, BudgetInv
  <2>2. \A r \in Requests \ {q} : Out(r, c)' = Out(r, c)
    BY <2>1, StillOut
  <2> QED
    BY <2>1, <2>2, BalancedStep
<1> QED
  BY <1>1, <1>2, <1>3 DEF BudgetInv

\* Where a request under way is.
LEMMA AtSomeCounter ==
  ASSUME BudgetAssumption, BudgetInv, NEW r \in Requests,
         pc[r] \in {"measuring", "taking", "undoing", "giving"}
  PROVE  /\ pool[r] \in Minted /\ at[r] \in Minted /\ at[r] \in Path(pool[r])
         /\ Path(at[r]) \subseteq Path(pool[r])
         /\ above[at[r]] # Absent => /\ above[at[r]] \in Minted
                                     /\ at[r] \notin Path(above[at[r]])
                                     /\ Path(at[r]) = {at[r]} \cup Path(above[at[r]])
         /\ above[at[r]] = Absent => Path(at[r]) = {at[r]}
<1>1. pool[r] \in Minted /\ at[r] \in Path(pool[r])
  BY DEF BudgetInv, PlaceOK
<1>2. at[r] \in Minted
  BY <1>1, MintedPath DEF BudgetInv
<1>3. above \in Parents /\ at[r] \in Requests /\ pool[r] \in Requests
  BY <1>1, <1>2 DEF BudgetInv, BudgetsTyped, Parents, Minted
<1>4. Path(at[r]) \subseteq Path(pool[r])
  BY <1>1, <1>3, PathGoesOn DEF Path
<1>5. Path(at[r]) = {at[r]} \cup (IF above[at[r]] = Absent THEN {} ELSE Path(above[at[r]]))
  BY <1>3, PathSteps DEF Path
<1>6. above[at[r]] # Absent => above[at[r]] \in Minted /\ at[r] \notin Path(above[at[r]])
  BY <1>2 DEF BudgetInv, Tree
<1> QED
  BY <1>1, <1>2, <1>4, <1>5, <1>6

LEMMA MeasureKeeps ==
  ASSUME BudgetAssumption, BudgetInv, NEW r \in Requests, Measure(r)
  PROVE  BudgetInv'
<1>1. /\ pool[r] \in Minted /\ above[at[r]] \in Minted /\ at[r] \in Minted
      /\ Path(at[r]) = {at[r]} \cup Path(above[at[r]]) /\ Path(at[r]) \subseteq Path(pool[r])
  BY AtSomeCounter DEF Measure
<1>2. above[at[r]] \in Path(above[at[r]])
  BY <1>1, MintedPath DEF BudgetInv
<1>3. BudgetsTyped'
  BY <1>1 DEF BudgetInv, BudgetsTyped, Measure, MinOf, Minted
<1>4. at' = [at EXCEPT ![r] = above[at[r]]] /\ at \in [Requests -> Requests \cup {Absent}]
  BY DEF BudgetInv, BudgetsTyped, Measure
<1>5. \A q \in Requests \ {r} : Still(q)
  BY <1>4 DEF Measure, Still
<1>6. PlaceOK(r)'
  BY <1>1, <1>2, <1>4 DEF BudgetInv, PlaceOK, Measure, Minted, Path
<1>7. \A c \in Minted : left'[c] + Out(r, c)' = left[c] + Out(r, c)
  BY DEF Out, Running, Measure
<1> QED
  BY <1>3, <1>5, <1>6, <1>7, OneMoves DEF Measure

LEMMA AdmitKeeps ==
  ASSUME BudgetAssumption, BudgetInv, NEW r \in Requests, NEW p \in Requests,
         NEW e \in Entitlements, AdmitRequest(r, p, e)
  PROVE  BudgetInv'
<1>1. pool[p] \in Minted /\ pool[p] \in Requests
  BY DEF BudgetInv, PlaceOK, AdmitRequest, Minted
<1>2. pool[p] \in Path(pool[p])
  BY <1>1, MintedPath DEF BudgetInv
<1>3. BudgetsTyped'
  BY <1>1 DEF BudgetInv, BudgetsTyped, AdmitRequest, BudgetAssumption, Phases
<1>4. /\ pc' = [pc EXCEPT ![r] = "measuring"] /\ pool' = [pool EXCEPT ![r] = pool[p]]
      /\ at' = [at EXCEPT ![r] = pool[p]]
      /\ pc \in [Requests -> Phases] /\ pool \in [Requests -> Requests \cup {Absent}]
      /\ at \in [Requests -> Requests \cup {Absent}]
  BY DEF BudgetInv, BudgetsTyped, AdmitRequest
<1>5. \A q \in Requests \ {r} : Still(q)
  BY <1>4 DEF AdmitRequest, Still
<1>6. PlaceOK(r)'
  BY <1>1, <1>2, <1>4 DEF BudgetInv, PlaceOK, AdmitRequest, Minted, Path
<1>7. \A c \in Minted : left'[c] + Out(r, c)' = left[c] + Out(r, c)
  BY <1>4 DEF Out, Running, AdmitRequest
<1> QED
  BY <1>3, <1>5, <1>6, <1>7, OneMoves DEF AdmitRequest

LEMMA AsksArePositive == BudgetAssumption => Asks \subseteq Nat \ {0}
BY DEF BudgetAssumption, Asks

LEMMA TakeKeeps ==
  ASSUME BudgetAssumption, BudgetInv, NEW r \in Requests, NEW n \in Asks, Take(r, n)
  PROVE  BudgetInv'
<1>1. pool[r] \in Minted /\ pool[r] \in Requests
  BY DEF BudgetInv, PlaceOK, Take, Minted
<1>2. pool[r] \in Path(pool[r])
  BY <1>1, MintedPath DEF BudgetInv
<1>3. BudgetsTyped'
  BY <1>1, AsksArePositive DEF BudgetInv, BudgetsTyped, Take, BudgetAssumption, Phases
<1>4. /\ pc' = [pc EXCEPT ![r] = "taking"] /\ amount' = [amount EXCEPT ![r] = n]
      /\ at' = [at EXCEPT ![r] = pool[r]]
      /\ pc \in [Requests -> Phases] /\ amount \in [Requests -> Nat]
      /\ at \in [Requests -> Requests \cup {Absent}]
      /\ UNCHANGED <<left, above, pool, stop, holding, kept, limit>> /\ pc[r] = "idle"
  BY DEF BudgetInv, BudgetsTyped, Take
<1>5. \A q \in Requests \ {r} : Still(q)
  BY <1>4 DEF Still
<1>6. PlaceOK(r)'
  BY <1>1, <1>2, <1>4 DEF PlaceOK, Minted, Path
<1>7. \A c \in Minted : left'[c] + Out(r, c)' = left[c] + Out(r, c)
  BY <1>4 DEF Out, Running, InTransit, Path
<1> QED
  BY <1>3, <1>4, <1>5, <1>6, <1>7, OneMoves

LEMMA TakeCellKeeps ==
  ASSUME BudgetAssumption, BudgetInv, NEW r \in Requests, TakeCell(r)
  PROVE  BudgetInv'
<1> DEFINE here == at[r]
<1>1. /\ pool[r] \in Minted /\ here \in Minted /\ here \in Path(pool[r])
      /\ Path(here) \subseteq Path(pool[r])
      /\ above[here] # Absent => /\ above[here] \in Minted
                                 /\ here \notin Path(above[here])
                                 /\ Path(here) = {here} \cup Path(above[here])
      /\ above[here] = Absent => Path(here) = {here}
  BY AtSomeCounter DEF TakeCell
<1>2. above[here] # Absent => above[here] \in Path(above[here])
  BY <1>1, MintedPath DEF BudgetInv
<1>3. BudgetsTyped'
  BY <1>1 DEF BudgetInv, BudgetsTyped, TakeCell, Covers, Minted, Phases
<1>4. /\ left' = [left EXCEPT ![here] = @ - amount[r]] /\ at' = [at EXCEPT ![r] = above[here]]
      /\ UNCHANGED <<above, pool, stop, kept, limit>> /\ pc[r] = "taking"
      /\ pc \in [Requests -> Phases] /\ amount \in [Requests -> Nat]
      /\ at \in [Requests -> Requests \cup {Absent}] /\ holding \in [Requests -> Nat]
      /\ left \in [Requests -> Nat] /\ kept \in [Requests -> Nat]
  BY DEF BudgetInv, BudgetsTyped, TakeCell
<1>5. here \in Requests /\ Minted \subseteq Requests
  BY <1>1 DEF Minted
<1>6. CASE above[here] = Absent
  <2>1. /\ holding' = [holding EXCEPT ![r] = @ + amount[r]]
        /\ pc' = [pc EXCEPT ![r] = "idle"] /\ amount' = [amount EXCEPT ![r] = 0]
    BY <1>6 DEF TakeCell
  <2>2. \A q \in Requests \ {r} : Still(q)
    BY <1>4, <2>1 DEF Still
  <2>3. PlaceOK(r)'
    BY <1>1, <1>4, <2>1 DEF PlaceOK, Minted
  <2>4. ASSUME NEW c \in Minted PROVE left'[c] + Out(r, c)' = left[c] + Out(r, c)
    <3>1. Out(r, c)' = IF c \in Path(pool[r]) THEN holding[r] + amount[r] + kept[r] ELSE 0
      BY <1>4, <2>1 DEF Out, Running, InTransit, Path
    <3>2. Out(r, c) = IF c \in Path(pool[r])
                      THEN holding[r] + kept[r] + (IF c = here THEN 0 ELSE amount[r]) ELSE 0
      BY <1>1, <1>4, <1>6 DEF Out, Running, InTransit
    <3>3. left'[c] = IF c = here THEN left[c] - amount[r] ELSE left[c]
      BY <1>4, <1>5
    <3>4. amount[r] \in Nat /\ holding[r] \in Nat /\ kept[r] \in Nat /\ left[c] \in Nat
      BY <1>4, <1>5
    <3> QED
      BY <1>1, <3>1, <3>2, <3>3, <3>4
  <2> QED
    BY <1>3, <1>4, <2>2, <2>3, <2>4, OneMoves
<1>7. CASE above[here] # Absent
  <2>1. UNCHANGED <<holding, pc, amount>>
    BY <1>7 DEF TakeCell
  <2>2. \A q \in Requests \ {r} : Still(q)
    BY <1>4, <2>1 DEF Still
  <2>3. PlaceOK(r)'
    BY <1>1, <1>2, <1>4, <1>7, <2>1 DEF PlaceOK, Minted, Path
  <2>4. ASSUME NEW c \in Minted PROVE left'[c] + Out(r, c)' = left[c] + Out(r, c)
    <3> DEFINE further == c \in Path(above[here])
    <3>1. Out(r, c)' = IF c \in Path(pool[r])
                       THEN holding[r] + kept[r] + (IF further THEN 0 ELSE amount[r]) ELSE 0
      BY <1>4, <2>1 DEF Out, Running, InTransit, Path
    <3>2. Out(r, c) = IF c \in Path(pool[r])
                      THEN holding[r] + kept[r] + (IF c = here \/ further THEN 0 ELSE amount[r]) ELSE 0
      BY <1>1, <1>4, <1>7 DEF Out, Running, InTransit
    <3>3. left'[c] = IF c = here THEN left[c] - amount[r] ELSE left[c]
      BY <1>4, <1>5
    <3>4. amount[r] \in Nat /\ holding[r] \in Nat /\ kept[r] \in Nat /\ left[c] \in Nat
      BY <1>4, <1>5
    <3>5. c = here => c \in Path(pool[r]) /\ ~further
      BY <1>1, <1>7
    <3> QED
      BY <3>1, <3>2, <3>3, <3>4, <3>5
  <2> QED
    BY <1>3, <1>4, <2>2, <2>3, <2>4, OneMoves
<1> QED
  BY <1>6, <1>7

LEMMA RefuseKeeps ==
  ASSUME BudgetAssumption, BudgetInv, NEW r \in Requests, Refuse(r)
  PROVE  BudgetInv'
<1>1. pool[r] \in Minted /\ at[r] \in Minted /\ at[r] \in Path(pool[r])
  BY AtSomeCounter DEF Refuse
<1>2. pool[r] \in Path(pool[r])
  BY <1>1, MintedPath DEF BudgetInv
<1>3. BudgetsTyped'
  BY <1>1 DEF BudgetInv, BudgetsTyped, Refuse, Minted, Phases
<1>4. /\ UNCHANGED <<left, above, pool, holding, kept, limit>> /\ pc[r] = "taking"
      /\ pc \in [Requests -> Phases] /\ amount \in [Requests -> Nat]
      /\ at \in [Requests -> Requests \cup {Absent}]
      /\ stop \in [Requests -> Requests \cup {Absent}]
  BY DEF BudgetInv, BudgetsTyped, Refuse
<1>5. CASE Undone(r)
  <2>1. /\ pc' = [pc EXCEPT ![r] = "undoing"] /\ stop' = [stop EXCEPT ![r] = at[r]]
        /\ at' = [at EXCEPT ![r] = pool[r]] /\ UNCHANGED amount
    BY <1>5 DEF Refuse
  <2>2. \A q \in Requests \ {r} : Still(q)
    BY <1>4, <2>1 DEF Still
  <2>3. PlaceOK(r)'
    BY <1>1, <1>2, <1>4, <1>5, <2>1 DEF PlaceOK, Minted, Path, Undone
  <2>4. \A c \in Minted : left'[c] + Out(r, c)' = left[c] + Out(r, c)
    BY <1>4, <2>1 DEF Out, Running, InTransit, Path
  <2> QED
    BY <1>3, <1>4, <2>2, <2>3, <2>4, OneMoves
<1>6. CASE ~Undone(r)
  <2>1. /\ pc' = [pc EXCEPT ![r] = "idle"] /\ amount' = [amount EXCEPT ![r] = 0]
        /\ at' = [at EXCEPT ![r] = Absent] /\ UNCHANGED stop
    BY <1>6 DEF Refuse
  <2>2. \A q \in Requests \ {r} : Still(q)
    BY <1>4, <2>1 DEF Still
  <2>3. PlaceOK(r)'
    BY <1>1, <1>4, <2>1 DEF PlaceOK, Minted
  <2>4. \A c \in Minted : left'[c] + Out(r, c)' = left[c] + Out(r, c)
    BY <1>4, <1>6, <2>1 DEF Out, Running, InTransit, Path, Undone
  <2> QED
    BY <1>3, <1>4, <2>2, <2>3, <2>4, OneMoves
<1> QED
  BY <1>5, <1>6

LEMMA UndoCellKeeps ==
  ASSUME BudgetAssumption, BudgetInv, NEW r \in Requests, UndoCell(r)
  PROVE  BudgetInv'
<1> DEFINE here == at[r]
<1>1. /\ pool[r] \in Minted /\ here \in Minted /\ here \in Path(pool[r])
      /\ Path(here) \subseteq Path(pool[r])
      /\ above[here] # Absent => /\ above[here] \in Minted
                                 /\ here \notin Path(above[here])
                                 /\ Path(here) = {here} \cup Path(above[here])
  BY AtSomeCounter DEF UndoCell
<1>2. stop[r] \in Path(here) /\ stop[r] # here /\ here \in Requests /\ Minted \subseteq Requests
  BY <1>1 DEF BudgetInv, PlaceOK, UndoCell, Minted
<1>3. above[here] \in Requests /\ stop[r] \in Path(above[here])
  BY <1>2, NextOnPath DEF BudgetInv
<1>4. above[here] # Absent
  BY <1>3 DEF BudgetAssumption
<1>5. here \notin Path(stop[r])
  BY <1>1, <1>2, NoWayBack DEF BudgetInv
<1>6. above[here] \in Path(above[here])
  BY <1>1, <1>4, MintedPath DEF BudgetInv
<1>7. BudgetsTyped'
  BY <1>1, <1>3 DEF BudgetInv, BudgetsTyped, UndoCell, Minted, Phases
<1>8. /\ left' = [left EXCEPT ![here] = @ + amount[r]]
      /\ UNCHANGED <<above, pool, holding, kept, limit>> /\ pc[r] = "undoing"
      /\ pc \in [Requests -> Phases] /\ amount \in [Requests -> Nat]
      /\ at \in [Requests -> Requests \cup {Absent}]
      /\ stop \in [Requests -> Requests \cup {Absent}]
      /\ left \in [Requests -> Nat] /\ kept \in [Requests -> Nat] /\ holding \in [Requests -> Nat]
  BY DEF BudgetInv, BudgetsTyped, UndoCell
<1> DEFINE Owed(c) == IF c \in Path(pool[r]) THEN holding[r] + kept[r] ELSE 0
<1>9. ASSUME NEW c \in Minted
      PROVE  /\ Out(r, c) = Owed(c) + (IF c \in Path(here) /\ c \notin Path(stop[r]) THEN amount[r] ELSE 0)
             /\ left'[c] = (IF c = here THEN left[c] + amount[r] ELSE left[c])
             /\ amount[r] \in Nat /\ Owed(c) \in Nat /\ left[c] \in Nat
  <2>1. c \in Path(here) => c \in Path(pool[r])
    BY <1>1
  <2>2. amount[r] \in Nat /\ holding[r] \in Nat /\ kept[r] \in Nat /\ left[c] \in Nat
    BY <1>2, <1>8
  <2>3. Out(r, c) = Owed(c) + (IF c \in Path(here) /\ c \notin Path(stop[r]) THEN amount[r] ELSE 0)
    BY <1>8, <2>1, <2>2 DEF Out, Running, InTransit
  <2>4. left'[c] = (IF c = here THEN left[c] + amount[r] ELSE left[c])
    BY <1>2, <1>8
  <2> QED
    BY <2>2, <2>3, <2>4
<1>10. CASE above[here] = stop[r]
  <2>1. /\ pc' = [pc EXCEPT ![r] = "idle"] /\ amount' = [amount EXCEPT ![r] = 0]
        /\ at' = [at EXCEPT ![r] = Absent] /\ stop' = [stop EXCEPT ![r] = Absent]
    BY <1>10 DEF UndoCell
  <2>2. \A q \in Requests \ {r} : Still(q)
    BY <1>8, <2>1 DEF Still
  <2>3. PlaceOK(r)'
    BY <1>1, <1>8, <2>1 DEF PlaceOK, Minted
  <2>4. ASSUME NEW c \in Minted PROVE left'[c] + Out(r, c)' = left[c] + Out(r, c)
    <3>1. Out(r, c)' = Owed(c)
      BY <1>8, <2>1 DEF Out, Running, InTransit, Path
    <3>2. c \in Path(here) /\ c \notin Path(stop[r]) <=> c = here
      BY <1>1, <1>4, <1>5, <1>10
    <3> HIDE DEF Owed, here
    <3> QED
      BY <1>9, <3>1, <3>2
  <2> QED
    BY <1>7, <1>8, <2>2, <2>3, <2>4, OneMoves
<1>11. CASE above[here] # stop[r]
  <2>1. at' = [at EXCEPT ![r] = above[here]] /\ UNCHANGED <<pc, stop, amount>>
    BY <1>11 DEF UndoCell
  <2>2. \A q \in Requests \ {r} : Still(q)
    BY <1>8, <2>1 DEF Still
  <2>3. PlaceOK(r)'
    BY <1>1, <1>3, <1>4, <1>6, <1>8, <1>11, <2>1 DEF PlaceOK, Minted, Path
  <2>4. ASSUME NEW c \in Minted PROVE left'[c] + Out(r, c)' = left[c] + Out(r, c)
    <3> DEFINE still == c \in Path(above[here]) /\ c \notin Path(stop[r])
    <3>1. c \in Path(above[here]) => c \in Path(pool[r])
      BY <1>1, <1>4
    <3>2. Out(r, c)' = Owed(c) + (IF still THEN amount[r] ELSE 0)
      BY <1>8, <1>9, <2>1, <3>1 DEF Out, Running, InTransit, Path
    <3>3. /\ c = here => c \in Path(here) /\ c \notin Path(stop[r]) /\ ~still
          /\ c # here => (c \in Path(here) /\ c \notin Path(stop[r]) <=> still)
      BY <1>1, <1>4, <1>5
    <3> HIDE DEF Owed, here, still
    <3> QED
      BY <1>9, <3>2, <3>3
  <2> QED
    BY <1>7, <1>8, <2>2, <2>3, <2>4, OneMoves
<1> QED
  BY <1>10, <1>11

LEMMA KeepDrawnKeeps ==
  ASSUME BudgetAssumption, BudgetInv, NEW r \in Requests, KeepDrawn(r)
  PROVE  BudgetInv'
<1>1. BudgetsTyped'
  BY DEF BudgetInv, BudgetsTyped, KeepDrawn
<1>2. /\ kept' = [kept EXCEPT ![r] = @ + holding[r]] /\ holding' = [holding EXCEPT ![r] = 0]
      /\ UNCHANGED <<left, above, pool, pc, at, stop, amount, limit>> /\ pc[r] = "idle"
      /\ kept \in [Requests -> Nat] /\ holding \in [Requests -> Nat]
  BY DEF BudgetInv, BudgetsTyped, KeepDrawn
<1>3. \A q \in Requests \ {r} : Still(q)
  BY <1>2 DEF Still
<1>4. PlaceOK(r)'
  BY <1>2 DEF BudgetInv, PlaceOK, Minted
<1>5. \A c \in Minted : left'[c] + Out(r, c)' = left[c] + Out(r, c)
  BY <1>2 DEF Out, Running, InTransit, Path
<1> QED
  BY <1>1, <1>2, <1>3, <1>4, <1>5, OneMoves

LEMMA GiveKeeps ==
  ASSUME BudgetAssumption, BudgetInv, NEW r \in Requests, NEW n \in Amounts, Give(r, n)
  PROVE  BudgetInv'
<1>1. pool[r] \in Minted /\ pool[r] \in Requests
  BY DEF BudgetInv, PlaceOK, Give, Minted
<1>2. pool[r] \in Path(pool[r])
  BY <1>1, MintedPath DEF BudgetInv
<1>3. n \in Nat /\ n <= holding[r]
  BY DEF Give, BudgetAssumption
<1>4. BudgetsTyped'
  BY <1>1, <1>3 DEF BudgetInv, BudgetsTyped, Give, Phases
<1>5. /\ holding' = [holding EXCEPT ![r] = @ - n] /\ pc' = [pc EXCEPT ![r] = "giving"]
      /\ amount' = [amount EXCEPT ![r] = n] /\ at' = [at EXCEPT ![r] = pool[r]]
      /\ UNCHANGED <<left, above, pool, stop, kept, limit>> /\ pc[r] = "idle"
      /\ pc \in [Requests -> Phases] /\ amount \in [Requests -> Nat]
      /\ at \in [Requests -> Requests \cup {Absent}]
      /\ kept \in [Requests -> Nat] /\ holding \in [Requests -> Nat]
  BY DEF BudgetInv, BudgetsTyped, Give
<1>6. \A q \in Requests \ {r} : Still(q)
  BY <1>5 DEF Still
<1>7. PlaceOK(r)'
  BY <1>1, <1>2, <1>5 DEF PlaceOK, Minted, Path
<1>8. \A c \in Minted : left'[c] + Out(r, c)' = left[c] + Out(r, c)
  BY <1>3, <1>5 DEF Out, Running, InTransit, Path
<1> QED
  BY <1>4, <1>5, <1>6, <1>7, <1>8, OneMoves

LEMMA GiveCellKeeps ==
  ASSUME BudgetAssumption, BudgetInv, NEW r \in Requests, GiveCell(r)
  PROVE  BudgetInv'
<1> DEFINE here == at[r]
<1>1. /\ pool[r] \in Minted /\ here \in Minted /\ here \in Path(pool[r])
      /\ Path(here) \subseteq Path(pool[r])
      /\ above[here] # Absent => /\ above[here] \in Minted
                                 /\ here \notin Path(above[here])
                                 /\ Path(here) = {here} \cup Path(above[here])
      /\ above[here] = Absent => Path(here) = {here}
  BY AtSomeCounter DEF GiveCell
<1>2. above[here] # Absent => above[here] \in Path(above[here])
  BY <1>1, MintedPath DEF BudgetInv
<1>3. BudgetsTyped'
  BY <1>1 DEF BudgetInv, BudgetsTyped, GiveCell, Minted, Phases
<1>4. /\ left' = [left EXCEPT ![here] = @ + amount[r]] /\ at' = [at EXCEPT ![r] = above[here]]
      /\ UNCHANGED <<above, pool, stop, holding, kept, limit>> /\ pc[r] = "giving"
      /\ pc \in [Requests -> Phases] /\ amount \in [Requests -> Nat]
      /\ at \in [Requests -> Requests \cup {Absent}] /\ holding \in [Requests -> Nat]
      /\ left \in [Requests -> Nat] /\ kept \in [Requests -> Nat]
  BY DEF BudgetInv, BudgetsTyped, GiveCell
<1>5. here \in Requests /\ Minted \subseteq Requests
  BY <1>1 DEF Minted
<1> DEFINE Owed(c) == IF c \in Path(pool[r]) THEN holding[r] + kept[r] ELSE 0
<1>6. ASSUME NEW c \in Minted
      PROVE  /\ Out(r, c) = Owed(c) + (IF c \in Path(here) THEN amount[r] ELSE 0)
             /\ left'[c] = (IF c = here THEN left[c] + amount[r] ELSE left[c])
             /\ amount[r] \in Nat /\ Owed(c) \in Nat /\ left[c] \in Nat
  <2>1. c \in Path(here) => c \in Path(pool[r])
    BY <1>1
  <2>2. amount[r] \in Nat /\ holding[r] \in Nat /\ kept[r] \in Nat /\ left[c] \in Nat
    BY <1>4, <1>5
  <2>3. Out(r, c) = Owed(c) + (IF c \in Path(here) THEN amount[r] ELSE 0)
    BY <1>4, <2>1, <2>2 DEF Out, Running, InTransit
  <2>4. left'[c] = (IF c = here THEN left[c] + amount[r] ELSE left[c])
    BY <1>4, <1>5
  <2> QED
    BY <2>2, <2>3, <2>4
<1>7. CASE above[here] = Absent
  <2>1. pc' = [pc EXCEPT ![r] = "idle"] /\ amount' = [amount EXCEPT ![r] = 0]
    BY <1>7 DEF GiveCell
  <2>2. \A q \in Requests \ {r} : Still(q)
    BY <1>4, <2>1 DEF Still
  <2>3. PlaceOK(r)'
    BY <1>1, <1>4, <2>1 DEF PlaceOK, Minted
  <2>4. ASSUME NEW c \in Minted PROVE left'[c] + Out(r, c)' = left[c] + Out(r, c)
    <3>1. Out(r, c)' = Owed(c)
      BY <1>4, <2>1 DEF Out, Running, InTransit, Path
    <3>2. c \in Path(here) <=> c = here
      BY <1>1, <1>7
    <3> HIDE DEF Owed, here
    <3> QED
      BY <1>6, <3>1, <3>2
  <2> QED
    BY <1>3, <1>4, <2>2, <2>3, <2>4, OneMoves
<1>8. CASE above[here] # Absent
  <2>1. UNCHANGED <<pc, amount>>
    BY <1>8 DEF GiveCell
  <2>2. \A q \in Requests \ {r} : Still(q)
    BY <1>4, <2>1 DEF Still
  <2>3. PlaceOK(r)'
    BY <1>1, <1>2, <1>4, <1>8, <2>1 DEF PlaceOK, Minted, Path
  <2>4. ASSUME NEW c \in Minted PROVE left'[c] + Out(r, c)' = left[c] + Out(r, c)
    <3> DEFINE further == c \in Path(above[here])
    <3>1. further => c \in Path(pool[r])
      BY <1>1, <1>8
    <3>2. Out(r, c)' = Owed(c) + (IF further THEN amount[r] ELSE 0)
      BY <1>4, <1>6, <2>1, <3>1 DEF Out, Running, InTransit, Path
    <3>3. (c = here => c \in Path(here) /\ ~further) /\ (c # here => (c \in Path(here) <=> further))
      BY <1>1, <1>8
    <3> HIDE DEF Owed, here, further
    <3> QED
      BY <1>6, <3>2, <3>3
  <2> QED
    BY <1>3, <1>4, <2>2, <2>3, <2>4, OneMoves
<1> QED
  BY <1>7, <1>8

(***************************************************************************)
(* A counter is minted.                                                    *)

\* The counters there are keep their paths, which do not lead over the new one.
LEMMA OldPaths ==
  ASSUME BudgetAssumption, BudgetInv, BudgetsTyped', NEW r \in Requests \ Minted,
         above' = [above EXCEPT ![r] = pool[r]], NEW c \in Minted
  PROVE  Path(c)' = Path(c) /\ r \notin Path(c) /\ Path(c) \subseteq Minted
<1>1. above \in Parents /\ above' \in Parents /\ Minted \subseteq Requests
  BY DEF BudgetInv, BudgetsTyped, Parents, Minted
<1>2. Path(c) \subseteq Minted
  BY MintedPath DEF BudgetInv
<1>3. \A x \in PathIn(above, c) : above'[x] = above[x]
  BY <1>1, <1>2 DEF Path, Parents
<1>4. PathIn(above', c) = PathIn(above, c)
  BY <1>1, <1>3, PathUnmoved
<1> QED
  BY <1>2, <1>4 DEF Path

LEMMA NarrowPoolKeeps ==
  ASSUME BudgetAssumption, BudgetInv, NEW r \in Requests, NarrowPool(r)
  PROVE  BudgetInv'
<1>1. /\ pool[r] \in Minted /\ r \notin Minted /\ holding[r] = 0 /\ kept[r] = 0
      /\ Minted \subseteq Requests /\ Absent \notin Requests
  BY DEF BudgetInv, PlaceOK, NarrowPool, Minted, BudgetAssumption
<1>2. /\ pc' = [pc EXCEPT ![r] = "idle"] /\ at' = [at EXCEPT ![r] = Absent]
      /\ UNCHANGED <<stop, amount, holding, kept>> /\ pc[r] = "measuring"
      /\ pc \in [Requests -> Phases] /\ at \in [Requests -> Requests \cup {Absent}]
      /\ pool \in [Requests -> Requests \cup {Absent}]
      /\ above \in [Requests -> Requests \cup {Absent}]
      /\ left \in [Requests -> Nat] /\ limit \in [Requests -> Nat] /\ entitled \in [Requests -> Nat]
  BY DEF BudgetInv, BudgetsTyped, NarrowPool
<1>3. BudgetsTyped'
  BY <1>1 DEF BudgetInv, BudgetsTyped, NarrowPool, Phases
<1>4. CASE ~Narrows(r)
  <2>1. UNCHANGED <<pool, above, left, limit>>
    BY <1>4 DEF NarrowPool
  <2>2. \A q \in Requests \ {r} : Still(q)
    BY <1>2, <2>1 DEF Still
  <2>3. PlaceOK(r)'
    BY <1>1, <1>2, <2>1 DEF PlaceOK, Minted
  <2>4. \A c \in Minted : left'[c] + Out(r, c)' = left[c] + Out(r, c)
    BY <1>1, <1>2, <2>1 DEF Out, Running, InTransit
  <2> QED
    BY <1>3, <2>1, <2>2, <2>3, <2>4, OneMoves
<1>5. CASE Narrows(r)
  <2>1. /\ pool' = [pool EXCEPT ![r] = r] /\ above' = [above EXCEPT ![r] = pool[r]]
        /\ left' = [left EXCEPT ![r] = entitled[r]] /\ limit' = [limit EXCEPT ![r] = entitled[r]]
    BY <1>5 DEF NarrowPool
  <2>2. Minted' = Minted \cup {r}
    BY <1>1, <1>2, <2>1 DEF Minted
  <2>4. \A c \in Minted : Path(c)' = Path(c) /\ r \notin Path(c) /\ Path(c) \subseteq Minted
    BY <1>1, <1>3, <2>1, OldPaths
  <2>5. Tree'
    <3>1. above'[DoorRequest] = Absent
      BY <1>1, <1>2, <2>1 DEF BudgetInv, Tree, Minted, BudgetAssumption
    <3>2. above'[r] = pool[r] /\ r \notin PathIn(above', pool[r])
      BY <1>1, <1>2, <2>1, <2>4 DEF Path
    <3>3. ASSUME NEW c \in Minted, above'[c] # Absent
          PROVE  above'[c] \in Minted /\ c \notin PathIn(above', above'[c])
      <4>1. above'[c] = above[c] /\ above[c] \in Minted /\ c \notin Path(above[c])
        BY <1>1, <1>2, <2>1, <3>3 DEF BudgetInv, Tree
      <4>2. PathIn(above', above[c]) = Path(above[c])
        BY <2>4, <4>1 DEF Path
      <4> QED
        BY <4>1, <4>2
    <3>4. \A c \in Minted' : above'[c] # Absent =>
            above'[c] \in Minted' /\ c \notin PathIn(above', above'[c])
      BY <1>1, <2>2, <3>2, <3>3
    <3> QED
      BY <3>1, <3>4 DEF Tree, Path
  <2>6. ASSUME NEW q \in Requests \ {r}
        PROVE  PlaceOK(q)' /\ \A c \in Minted' : Out(q, c)' = IF c = r THEN 0 ELSE Out(q, c)
    <3>1. Still(q) /\ q \in Requests
      BY <1>2, <2>1 DEF Still
    <3>2. PlaceOK(q)
      BY DEF BudgetInv
    <3>3. pc[q] # "new" => /\ pool[q] \in Minted
                           /\ PathIn(above', pool[q]) = PathIn(above, pool[q])
                           /\ r \notin PathIn(above, pool[q])
      BY <2>4, <3>2 DEF PlaceOK, Path
    <3>4. pc[q] \in {"measuring", "taking", "undoing", "giving"} =>
            at[q] \in Minted /\ PathIn(above', at[q]) = PathIn(above, at[q])
      BY <2>4, <3>1, AtSomeCounter DEF Path
    <3>5. pc[q] = "undoing" => stop[q] \in Minted /\ PathIn(above', stop[q]) = PathIn(above, stop[q])
      BY <2>4, <3>2, <3>4 DEF PlaceOK, Path
    <3>6. PlaceOK(q)'
      BY <2>2, <3>1, <3>2, <3>3, <3>4, <3>5 DEF PlaceOK, Path, Still
    <3>7. ASSUME NEW c \in Minted' PROVE Out(q, c)' = IF c = r THEN 0 ELSE Out(q, c)
      BY <3>1, <3>3, <3>4, <3>5 DEF Out, Running, InTransit, Path, Still
    <3> QED
      BY <3>6, <3>7
  <2>7. PlaceOK(r)' /\ \A c \in Minted' : Out(r, c)' = 0
    BY <1>1, <1>2, <2>1, <2>2 DEF PlaceOK, Out, InTransit
  <2>8. ASSUME NEW c \in Minted PROVE Balanced(c)'
    <3>1. c \in Requests /\ c # r /\ c \in Minted'
      BY <1>1, <2>2
    <3>2. left'[c] = left[c] /\ limit'[c] = limit[c] /\ Balanced(c)
      BY <1>2, <2>1, <3>1 DEF BudgetInv
    <3>3. Out(r, c)' = 0 /\ Out(r, c) = 0
      BY <1>2, <2>7, <3>1 DEF Out, Running
    <3>4. \A q \in Requests \ {r} : Out(q, c)' = Out(q, c)
      BY <2>6, <3>1
    <3> QED
      BY <1>3, <3>1, <3>2, <3>3, <3>4, BalancedStep DEF BudgetInv
  <2>9. Balanced(r)'
    <3> DEFINE n == [q \in Requests |-> Out(q, r)']
    <3>1. \A q \in Requests : n[q] = 0
      BY <2>2, <2>6, <2>7
    <3>2. Tally(Requests, n) = 0
      BY <3>1, TallyNothing
    <3>3. left'[r] = entitled[r] /\ limit'[r] = entitled[r] /\ entitled[r] \in Nat
      BY <1>2, <2>1
    <3>4. left'[r] + Tally(Requests, n) = limit'[r]
      BY <3>2, <3>3
    <3> QED
      BY <3>4 DEF Balanced, Tally
  <2> QED
    BY <1>3, <2>2, <2>5, <2>6, <2>7, <2>8, <2>9 DEF BudgetInv
<1> QED
  BY <1>4, <1>5

(***************************************************************************)
(* The theorem.                                                            *)

LEMMA BudgetStart == BudgetAssumption /\ BudgetInit => BudgetInv
<1> SUFFICES ASSUME BudgetAssumption, BudgetInit PROVE BudgetInv
  OBVIOUS
<1>1. BudgetsTyped
  BY DEF BudgetAssumption, BudgetInit, BudgetsTyped, Phases
<1>2. Minted = {DoorRequest} /\ above[DoorRequest] = Absent /\ DoorRequest \in Requests
  BY DEF BudgetAssumption, BudgetInit, Minted
<1>3. Tree
  BY <1>2 DEF Tree
<1>4. \A r \in Requests : PlaceOK(r)
  BY <1>2 DEF PlaceOK, BudgetInit, BudgetAssumption
<1>5. \A c \in Minted : Balanced(c)
  <2> DEFINE n == [r \in Requests |-> Out(r, DoorRequest)]
  <2>1. \A r \in Requests : n[r] = 0
    BY DEF Out, InTransit, Running, BudgetInit
  <2>2. Tally(Requests, n) = 0
    BY <2>1, TallyNothing
  <2>3. left[DoorRequest] = DoorLimit /\ limit[DoorRequest] = DoorLimit /\ DoorLimit \in Nat
    BY <1>2 DEF BudgetInit, BudgetAssumption
  <2> HIDE DEF n
  <2>4. left[DoorRequest] + Tally(Requests, n) = limit[DoorRequest]
    BY <2>2, <2>3
  <2> QED
    BY <1>2, <2>4 DEF Balanced, n
<1> QED
  BY <1>1, <1>3, <1>4, <1>5 DEF BudgetInv

LEMMA BudgetStep == BudgetAssumption /\ BudgetInv /\ [BudgetNext]_budgetVars => BudgetInv'
<1> SUFFICES ASSUME BudgetAssumption, BudgetInv, [BudgetNext]_budgetVars PROVE BudgetInv'
  OBVIOUS
<1>1. CASE UNCHANGED budgetVars
  BY <1>1 DEF budgetVars, BudgetInv, BudgetsTyped, Tree, PlaceOK, Balanced, Tally, Out, InTransit,
              Running, Minted, Path
<1>2. CASE BudgetNext
  <2> PICK r \in Requests :
        \/ \E p \in Requests, e \in Entitlements : AdmitRequest(r, p, e)
        \/ Measure(r) \/ NarrowPool(r) \/ TakeCell(r) \/ Refuse(r) \/ UndoCell(r)
        \/ KeepDrawn(r) \/ GiveCell(r)
        \/ \E n \in Asks : Take(r, n)
        \/ \E n \in Amounts : Give(r, n)
    BY <1>2 DEF BudgetNext
  <2> QED
    BY AdmitKeeps, MeasureKeeps, NarrowPoolKeeps, TakeKeeps, TakeCellKeeps, RefuseKeeps,
       UndoCellKeeps, KeepDrawnKeeps, GiveKeeps, GiveCellKeeps
<1> QED
  BY <1>1, <1>2

LEMMA BudgetsFollow == BudgetAssumption /\ BudgetInv => NeverOverdrawn /\ NothingLeaks
<1> SUFFICES ASSUME BudgetAssumption, BudgetInv, NEW c \in Minted
             PROVE  /\ Used(c) <= limit[c]
                    /\ (\A r \in Running : pc[r] = "idle") => left[c] + Used(c) = limit[c]
  BY DEF NeverOverdrawn, NothingLeaks
<1> DEFINE m == [r \in Requests |-> IF r \in Running /\ c \in Path(pool[r])
                                    THEN holding[r] + kept[r] ELSE 0]
           n == [r \in Requests |-> Out(r, c)]
<1>1. /\ left[c] \in Nat /\ limit[c] \in Nat
      /\ Used(c) = Tally(Requests, m) /\ left[c] + Tally(Requests, n) = limit[c]
  BY DEF BudgetInv, BudgetsTyped, Minted, Used, Balanced
<1>2. \A r \in Requests : m[r] \in Nat /\ n[r] \in Nat /\ m[r] <= n[r]
  BY DEF BudgetInv, BudgetsTyped, Out
<1>3. /\ Tally(Requests, m) <= Tally(Requests, n)
      /\ Tally(Requests, m) \in Nat /\ Tally(Requests, n) \in Nat
  BY <1>2, TallyMonotone, TallyIsNat DEF BudgetAssumption
<1>4. ASSUME \A r \in Running : pc[r] = "idle" PROVE m = n
  <2>1. \A r \in Running : ~InTransit(r, c)
    BY <1>4 DEF InTransit
  <2>2. \A r \in Requests : holding[r] + kept[r] + 0 = holding[r] + kept[r]
    BY DEF BudgetInv, BudgetsTyped
  <2> QED
    BY <2>1, <2>2 DEF Out
<1> HIDE DEF m, n
<1> QED
  BY <1>1, <1>3, <1>4

(***************************************************************************)
(* Retries are drawn one at a time and never given back.  A retry that a   *)
(* refused take puts back is put back below a counter at zero, which stays *)
(* between it and the door: what a request can ever draw is bounded, at    *)
(* some counter of its path, by what is left there and what it has drawn.  *)

\* No take that begins at c is granted.
Exhausted(c) == \E e \in Path(c) : left[e] = 0

\* The retry r's take under way has subtracted from c.
Passed(r, c) == IF pc[r] = "taking" /\ c \notin Path(at[r]) THEN 1 ELSE 0

\* All r can draw, as far as c lets it through.
Within(r, c) == holding[r] + kept[r] + Passed(r, c) + left[c] <= entitled[r]

RetryOK(r) ==
  /\ pc[r] # "giving"
  /\ pc[r] \in {"taking", "undoing"} => amount[r] = 1
  /\ pc[r] = "undoing" => Exhausted(stop[r])
  /\ pc[r] = "measuring" => \E c \in Path(pool[r]) : left[c] <= least[r]
  /\ r \in Running => \E c \in Path(pool[r]) : Within(r, c)

RetryInv == BudgetInv /\ \A r \in Requests : RetryOK(r)

\* What is put back is put back below a counter at zero.
Calm == \A c \in Minted : left'[c] <= left[c] \/ \E e \in Path(c) : left'[e] = 0

\* What else a request is about stays too.
Quiet(r) == Still(r) /\ entitled'[r] = entitled[r] /\ least'[r] = least[r]

LEMMA CalmFinds ==
  ASSUME BudgetAssumption, BudgetInv, BudgetsTyped', Calm, NEW c \in Minted
  PROVE  \E d \in Path(c) : left'[d] <= left[c] /\ (d = c \/ left'[d] = 0)
<1>1. c \in Path(c) /\ Path(c) \subseteq Minted /\ Minted \subseteq Requests
  BY MintedPath DEF BudgetInv, Minted
<1>2. CASE left'[c] <= left[c]
  BY <1>1, <1>2
<1>3. CASE \E e \in Path(c) : left'[e] = 0
  BY <1>1, <1>3 DEF BudgetInv, BudgetsTyped
<1> QED
  BY <1>2, <1>3 DEF Calm

LEMMA CalmLeavesExhausted ==
  ASSUME BudgetAssumption, BudgetInv, BudgetsTyped', Calm, UNCHANGED above,
         NEW c \in Minted, Exhausted(c)
  PROVE  Exhausted(c)'
<1>1. PICK e \in Path(c) : left[e] = 0
  BY DEF Exhausted
<1>2. e \in Minted /\ e \in Requests /\ c \in Requests /\ above \in Parents
  BY MintedPath DEF BudgetInv, BudgetsTyped, Minted, Parents
<1>3. PICK d \in Path(e) : left'[d] <= left[e]
  BY <1>2, CalmFinds
<1>4. d \in Path(c) /\ d \in Requests
  BY <1>1, <1>2, <1>3, PathGoesOn, PathIsClosed DEF Path
<1>5. left'[d] = 0
  BY <1>1, <1>3, <1>4 DEF BudgetsTyped
<1> QED
  BY <1>4, <1>5 DEF Exhausted, Path

\* A take that has come past a counter has come past those below it on its way.
LEMMA PassedFurtherUp ==
  ASSUME BudgetAssumption, BudgetInv, NEW r \in Requests, NEW c \in Requests, NEW d \in Path(c)
  PROVE  Passed(r, d) <= Passed(r, c)
<1>1. CASE pc[r] = "taking" /\ c \in Path(at[r])
  <2>1. at[r] \in Requests /\ above \in Parents
    BY <1>1, AtSomeCounter DEF Minted, BudgetInv, BudgetsTyped, Parents
  <2>2. d \in Path(at[r])
    BY <1>1, <2>1, PathGoesOn DEF Path
  <2> QED
    BY <1>1, <2>2 DEF Passed
<1> QED
  BY <1>1 DEF Passed

LEMMA QuietStaysOK ==
  ASSUME BudgetAssumption, BudgetInv, BudgetsTyped', Calm, UNCHANGED above,
         NEW r \in Requests, Quiet(r), RetryOK(r)
  PROVE  RetryOK(r)'
<1>1. above \in Parents /\ Minted \subseteq Requests /\ PlaceOK(r) /\ Tree /\ BudgetsTyped
  BY DEF BudgetInv, BudgetsTyped, Parents, Minted
<1>2. \A x : Path(x)' = Path(x)
  BY DEF Path
<1>3. pc'[r] # "giving" /\ (pc'[r] \in {"taking", "undoing"} => amount'[r] = 1)
  BY DEF RetryOK, Quiet, Still
<1>4. ASSUME pc'[r] = "undoing" PROVE Exhausted(stop[r])'
  <2>1. pc[r] = "undoing" /\ stop'[r] = stop[r] /\ Exhausted(stop[r])
    BY <1>4 DEF RetryOK, Quiet, Still
  <2>2. stop[r] \in Minted
    BY <1>1, <2>1, AtSomeCounter, MintedPath DEF PlaceOK
  <2> QED
    BY <2>1, <2>2, CalmLeavesExhausted DEF Exhausted, Path
<1>5. ASSUME pc'[r] = "measuring" PROVE (\E c \in Path(pool[r]) : left[c] <= least[r])'
  <2>1. pc[r] = "measuring" /\ pool'[r] = pool[r] /\ least'[r] = least[r] /\ pool[r] \in Minted
    BY <1>1, <1>5 DEF Quiet, Still, PlaceOK
  <2>2. PICK c \in Path(pool[r]) : left[c] <= least[r]
    BY <2>1 DEF RetryOK
  <2>3. c \in Minted
    BY <1>1, <2>1, MintedPath
  <2>4. PICK d \in Path(c) : left'[d] <= left[c]
    BY <2>3, CalmFinds
  <2>5. d \in Path(pool[r]) /\ d \in Requests /\ c \in Requests
    BY <1>1, <2>1, <2>2, <2>3, PathGoesOn, PathIsClosed DEF Path
  <2>6. left'[d] <= least[r]
    BY <1>1, <2>2, <2>4, <2>5 DEF BudgetsTyped
  <2> QED
    BY <1>2, <2>1, <2>5, <2>6
<1>6. ASSUME r \in Running' PROVE (\E c \in Path(pool[r]) : Within(r, c))'
  <2>1. r \in Running /\ pool[r] \in Minted
    BY <1>1, <1>6 DEF Quiet, Still, PlaceOK, Running
  <2>2. PICK c \in Path(pool[r]) : Within(r, c)
    BY <2>1 DEF RetryOK
  <2>3. c \in Minted
    BY <1>1, <2>1, MintedPath
  <2>4. PICK d \in Path(c) : left'[d] <= left[c]
    BY <2>3, CalmFinds
  <2>5. d \in Path(pool[r]) /\ d \in Requests /\ c \in Requests
    BY <1>1, <2>1, <2>2, <2>3, PathGoesOn, PathIsClosed DEF Path
  <2>6. Passed(r, d) <= Passed(r, c) /\ Passed(r, d)' = Passed(r, d)
    BY <1>2, <2>4, <2>5, PassedFurtherUp DEF Passed, Quiet, Still
  <2>7. /\ holding'[r] = holding[r] /\ kept'[r] = kept[r] /\ entitled'[r] = entitled[r]
        /\ holding[r] \in Nat /\ kept[r] \in Nat /\ entitled[r] \in Nat
        /\ left[c] \in Nat /\ left'[d] \in Nat /\ pool'[r] = pool[r]
    BY <1>1, <2>5 DEF BudgetsTyped, Quiet, Still
  <2>8. Passed(r, c) \in Nat /\ Passed(r, d) \in Nat
    BY DEF Passed
  <2>9. Within(r, d)'
    BY <2>2, <2>4, <2>6, <2>7, <2>8 DEF Within
  <2> QED
    BY <1>2, <2>5, <2>7, <2>9
<1> QED
  BY <1>3, <1>4, <1>5, <1>6 DEF RetryOK

LEMMA OneDraws ==
  ASSUME BudgetAssumption, RetryInv, BudgetInv', Calm, UNCHANGED above,
         NEW q \in Requests, \A r \in Requests \ {q} : Quiet(r), RetryOK(q)'
  PROVE  RetryInv'
BY QuietStaysOK DEF RetryInv, BudgetInv

LEMMA CalmWhenNoneGains ==
  ASSUME \A c \in Minted : left'[c] <= left[c]
  PROVE  Calm
BY DEF Calm

LEMMA AdmitDraws ==
  ASSUME BudgetAssumption, RetryInv, BudgetInv', NEW r \in Requests, NEW p \in Requests,
         NEW e \in Entitlements, AdmitRequest(r, p, e)
  PROVE  RetryInv'
<1>1. BudgetsTyped /\ pool[p] \in Minted /\ pool[p] \in Path(pool[p])
  BY MintedPath DEF RetryInv, BudgetInv, PlaceOK, AdmitRequest
<1>2. /\ pc' = [pc EXCEPT ![r] = "measuring"] /\ pool' = [pool EXCEPT ![r] = pool[p]]
      /\ least' = [least EXCEPT ![r] = left[pool[p]]] /\ UNCHANGED <<left, above>>
  BY DEF AdmitRequest
<1>3. \A q \in Requests \ {r} : Quiet(q)
  BY <1>1 DEF AdmitRequest, Quiet, Still, BudgetsTyped
<1>4. pc'[r] = "measuring" /\ pool'[r] = pool[p] /\ least'[r] = left[pool[p]]
  BY <1>1, <1>2 DEF BudgetsTyped
<1>5. RetryOK(r)'
  <2>1. (\E c \in Path(pool[r]) : left[c] <= least[r])'
    BY <1>1, <1>2, <1>4 DEF Path, BudgetsTyped, Minted
  <2> QED
    BY <1>4, <2>1 DEF RetryOK, Running
<1>6. Calm
  BY <1>1, <1>2 DEF Calm, BudgetsTyped, Minted
<1> QED
  BY <1>2, <1>3, <1>5, <1>6, OneDraws

LEMMA MeasureDraws ==
  ASSUME BudgetAssumption, RetryInv, BudgetInv', NEW r \in Requests, Measure(r)
  PROVE  RetryInv'
<1>1. /\ BudgetsTyped /\ pool[r] \in Minted /\ at[r] \in Minted /\ above[at[r]] \in Minted
      /\ above[at[r]] \in Path(pool[r])
  <2>1. /\ pool[r] \in Minted /\ at[r] \in Minted /\ above[at[r]] \in Minted
        /\ Path(at[r]) \subseteq Path(pool[r]) /\ Path(at[r]) = {at[r]} \cup Path(above[at[r]])
    BY AtSomeCounter DEF Measure, RetryInv
  <2>2. above[at[r]] \in Path(above[at[r]])
    BY <2>1, MintedPath DEF RetryInv, BudgetInv
  <2> QED
    BY <2>1, <2>2 DEF RetryInv, BudgetInv
<1>2. /\ least' = [least EXCEPT ![r] = MinOf(@, left[above[at[r]]])]
      /\ UNCHANGED <<left, above, pool, pc>> /\ pc[r] = "measuring"
  BY DEF Measure
<1>3. \A q \in Requests \ {r} : Quiet(q)
  BY <1>1 DEF Measure, Quiet, Still, BudgetsTyped
<1>4. RetryOK(r)'
  <2>1. PICK c \in Path(pool[r]) : left[c] <= least[r]
    BY <1>2 DEF RetryInv, RetryOK
  <2>2. least'[r] = least[r] \/ least'[r] = left[above[at[r]]]
    BY <1>1, <1>2 DEF BudgetsTyped, MinOf
  <2>3. (\E d \in Path(pool[r]) : left[d] <= least[r])'
    BY <1>1, <1>2, <2>1, <2>2 DEF Path, BudgetsTyped, Minted
  <2> QED
    BY <1>2, <2>3 DEF RetryOK, Running
<1>5. Calm
  BY <1>1, <1>2 DEF Calm, BudgetsTyped, Minted
<1> QED
  BY <1>2, <1>3, <1>4, <1>5, OneDraws

LEMMA TakeDraws ==
  ASSUME BudgetAssumption, metered = "retries", RetryInv, BudgetInv', NEW r \in Requests,
         NEW n \in Asks, Take(r, n)
  PROVE  RetryInv'
<1>1. BudgetsTyped /\ pool[r] \in Minted /\ Minted \subseteq Requests
  BY DEF RetryInv, BudgetInv, PlaceOK, Take, Minted
<1>2. /\ pc' = [pc EXCEPT ![r] = "taking"] /\ at' = [at EXCEPT ![r] = pool[r]]
      /\ amount' = [amount EXCEPT ![r] = n]
      /\ UNCHANGED <<left, above, pool, entitled, holding, kept>> /\ pc[r] = "idle" /\ n = 1
  BY DEF Take, Asks
<1>3. \A q \in Requests \ {r} : Quiet(q)
  BY <1>1 DEF Take, Quiet, Still, BudgetsTyped
<1>4. pc'[r] = "taking" /\ at'[r] = pool[r] /\ amount'[r] = 1
  BY <1>1, <1>2 DEF BudgetsTyped
<1>5. RetryOK(r)'
  <2>1. PICK c \in Path(pool[r]) : Within(r, c)
    BY <1>2 DEF RetryInv, RetryOK, Running
  <2>2. Passed(r, c) = 0 /\ Passed(r, c)' = 0
    BY <1>2, <1>4, <2>1 DEF Passed, Path
  <2>3. Within(r, c)' /\ c \in Path(pool[r])'
    BY <1>2, <2>1, <2>2 DEF Within, Path
  <2> QED
    BY <1>4, <2>3 DEF RetryOK
<1>6. Calm
  BY <1>1, <1>2 DEF Calm, BudgetsTyped
<1> QED
  BY <1>2, <1>3, <1>5, <1>6, OneDraws

LEMMA TakeCellDraws ==
  ASSUME BudgetAssumption, RetryInv, BudgetInv', NEW r \in Requests, TakeCell(r)
  PROVE  RetryInv'
<1> DEFINE here == at[r]
<1>1. /\ BudgetsTyped /\ pool[r] \in Minted /\ here \in Minted /\ Minted \subseteq Requests
      /\ above[here] # Absent => /\ here \notin Path(above[here])
                                 /\ Path(here) = {here} \cup Path(above[here])
      /\ above[here] = Absent => Path(here) = {here}
  BY AtSomeCounter DEF TakeCell, RetryInv, BudgetInv, Minted
<1>2. /\ left' = [left EXCEPT ![here] = @ - amount[r]] /\ at' = [at EXCEPT ![r] = above[here]]
      /\ UNCHANGED <<above, pool, entitled, kept>> /\ pc[r] = "taking"
      /\ amount[r] = 1 /\ left[here] >= 1
  BY DEF TakeCell, Covers, RetryInv, RetryOK
<1>3. \A c \in Minted : left'[c] = IF c = here THEN left[c] - 1 ELSE left[c]
  BY <1>1, <1>2 DEF BudgetsTyped
<1>4. Calm
  BY <1>1, <1>3, CalmWhenNoneGains DEF BudgetsTyped
<1>5. \A q \in Requests \ {r} : Quiet(q)
  BY <1>1 DEF TakeCell, Quiet, Still, BudgetsTyped
<1>6. PICK c \in Path(pool[r]) : Within(r, c)
  BY <1>2 DEF RetryInv, RetryOK, Running
<1>7. /\ c \in Minted /\ c \in Requests
      /\ left[c] \in Nat /\ holding[r] \in Nat /\ kept[r] \in Nat /\ entitled[r] \in Nat
  BY <1>1, <1>6, MintedPath DEF RetryInv, BudgetInv, BudgetsTyped
<1>8. CASE above[here] = Absent
  <2>1. /\ holding'[r] = holding[r] + 1 /\ pc'[r] = "idle" /\ pc' = [pc EXCEPT ![r] = "idle"]
    BY <1>1, <1>2, <1>8 DEF TakeCell, BudgetsTyped
  <2>2. Passed(r, c)' = 0 /\ Passed(r, c) = IF c = here THEN 0 ELSE 1
    BY <1>1, <1>2, <1>8, <2>1 DEF Passed
  <2>3. Within(r, c)'
    BY <1>2, <1>3, <1>6, <1>7, <2>1, <2>2 DEF Within
  <2>4. RetryOK(r)'
    BY <1>2, <1>6, <2>1, <2>3 DEF RetryOK, Path
  <2> QED
    BY <1>2, <1>4, <1>5, <2>4, OneDraws
<1>9. CASE above[here] # Absent
  <2>1. UNCHANGED <<holding, pc, amount>>
    BY <1>9 DEF TakeCell
  <2>2. Passed(r, c)' = Passed(r, c) + (IF c = here THEN 1 ELSE 0) /\ Passed(r, c) \in Nat
    BY <1>1, <1>2, <1>9, <2>1 DEF Passed, Path, BudgetsTyped
  <2>3. Within(r, c)'
    BY <1>2, <1>3, <1>6, <1>7, <2>1, <2>2 DEF Within
  <2>4. RetryOK(r)'
    BY <1>2, <1>6, <2>1, <2>3 DEF RetryOK, Path
  <2> QED
    BY <1>2, <1>4, <1>5, <2>4, OneDraws
<1> QED
  BY <1>8, <1>9

LEMMA RefuseDraws ==
  ASSUME BudgetAssumption, RetryInv, BudgetInv', NEW r \in Requests, Refuse(r)
  PROVE  RetryInv'
<1>1. BudgetsTyped /\ Minted \subseteq Requests /\ at[r] \in Minted
  BY AtSomeCounter DEF RetryInv, BudgetInv, Minted, Refuse
<1>2. UNCHANGED <<left, above, pool, entitled, holding, kept>> /\ pc[r] = "taking" /\ amount[r] = 1
  BY DEF Refuse, RetryInv, RetryOK
<1>3. left[at[r]] = 0
  BY <1>1, <1>2 DEF Refuse, Covers, BudgetsTyped
<1>4. Exhausted(at[r])
  BY <1>1, <1>3, MintedPath DEF Exhausted, RetryInv, BudgetInv
<1>5. \A q \in Requests \ {r} : Quiet(q)
  BY <1>1 DEF Refuse, Quiet, Still, BudgetsTyped
<1>6. \/ pc'[r] = "undoing" /\ stop'[r] = at[r] /\ amount'[r] = 1
      \/ pc'[r] = "idle"
  BY <1>1, <1>2 DEF Refuse, BudgetsTyped
<1>7. PICK c \in Path(pool[r]) : Within(r, c)
  BY <1>2 DEF RetryInv, RetryOK, Running
<1>8. Within(r, c)'
  <2>1. Passed(r, c)' = 0 /\ Passed(r, c) \in Nat
    BY <1>6 DEF Passed
  <2>2. c \in Requests
    BY <1>7 DEF Path, PathIn
  <2> QED
    BY <1>1, <1>2, <1>7, <2>1, <2>2 DEF Within, BudgetsTyped
<1>9. RetryOK(r)'
  BY <1>2, <1>4, <1>6, <1>7, <1>8 DEF RetryOK, Exhausted, Path
<1>10. Calm
  BY <1>1, <1>2 DEF Calm, BudgetsTyped
<1> QED
  BY <1>2, <1>5, <1>9, <1>10, OneDraws

LEMMA UndoCellDraws ==
  ASSUME BudgetAssumption, RetryInv, BudgetInv', NEW r \in Requests, UndoCell(r)
  PROVE  RetryInv'
<1> DEFINE here == at[r]
<1>1. /\ BudgetsTyped /\ BudgetInv /\ Tree /\ here \in Minted /\ Minted \subseteq Requests
      /\ pool[r] \in Minted /\ stop[r] \in Path(here) /\ stop[r] # here
  BY AtSomeCounter DEF RetryInv, BudgetInv, Minted, UndoCell, PlaceOK
<1>2. /\ left' = [left EXCEPT ![here] = @ + amount[r]]
      /\ UNCHANGED <<above, pool, entitled, holding, kept>> /\ pc[r] = "undoing"
      /\ amount[r] = 1 /\ Exhausted(stop[r])
  BY DEF UndoCell, RetryInv, RetryOK
<1>3. PICK e \in Path(stop[r]) : left[e] = 0
  BY <1>2 DEF Exhausted
<1>4. e \in Path(here) /\ e # here /\ e \in Requests
  <2>1. above \in Parents /\ stop[r] \in Requests /\ stop[r] \in Minted
    BY <1>1, MintedPath DEF BudgetsTyped, Parents
  <2>2. Path(stop[r]) \subseteq Path(here)
    BY <1>1, <2>1, PathGoesOn DEF Path
  <2>3. here \notin Path(stop[r])
    BY <1>1, NoWayBack
  <2> QED
    BY <1>3, <2>2, <2>3 DEF Path, PathIn
<1>5. Calm
  BY <1>1, <1>2, <1>3, <1>4 DEF Calm, BudgetsTyped
<1>6. \A q \in Requests \ {r} : Quiet(q)
  BY <1>1 DEF UndoCell, Quiet, Still, BudgetsTyped
<1>7. \/ pc'[r] = "undoing" /\ stop'[r] = stop[r] /\ amount'[r] = 1
      \/ pc'[r] = "idle"
  BY <1>1, <1>2 DEF UndoCell, BudgetsTyped
<1>8. PICK c \in Path(pool[r]) : Within(r, c)
  BY <1>2 DEF RetryInv, RetryOK, Running
<1>9. c \in Minted /\ c \in Requests /\ Path(c) \subseteq Path(pool[r])
  BY <1>1, <1>8, MintedPath, PathGoesOn DEF Path, BudgetsTyped, Parents
<1>10. PICK d \in Path(c) : left'[d] <= left[c]
  BY <1>1, <1>5, <1>9, CalmFinds DEF BudgetInv
<1>11. Within(r, d)' /\ d \in Path(pool[r])
  <2>1. Passed(r, c) = 0 /\ Passed(r, d)' = 0
    BY <1>2, <1>7 DEF Passed
  <2>2. d \in Requests
    BY <1>10 DEF Path, PathIn
  <2>3. left'[d] \in Nat
    BY <2>2 DEF BudgetInv, BudgetsTyped
  <2> QED
    BY <1>1, <1>2, <1>8, <1>9, <1>10, <2>1, <2>3 DEF Within, BudgetsTyped
<1>12. \E x \in Path(stop[r]) : left'[x] = 0
  BY <1>1, <1>2, <1>3, <1>4 DEF BudgetsTyped
<1>13. RetryOK(r)'
  BY <1>2, <1>7, <1>11, <1>12 DEF RetryOK, Exhausted, Path
<1> QED
  BY <1>2, <1>5, <1>6, <1>13, OneDraws

LEMMA KeepDraws ==
  ASSUME BudgetAssumption, RetryInv, BudgetInv', NEW r \in Requests, KeepDrawn(r)
  PROVE  RetryInv'
<1>1. BudgetsTyped /\ Minted \subseteq Requests
  BY DEF RetryInv, BudgetInv, Minted
<1>2. /\ UNCHANGED <<left, above, pool, entitled, pc, at>> /\ pc[r] = "idle"
      /\ kept'[r] = kept[r] + holding[r] /\ holding'[r] = 0
  BY <1>1 DEF KeepDrawn, BudgetsTyped
<1>3. \A q \in Requests \ {r} : Quiet(q)
  BY <1>1 DEF KeepDrawn, Quiet, Still, BudgetsTyped
<1>4. PICK c \in Path(pool[r]) : Within(r, c)
  BY <1>2 DEF RetryInv, RetryOK, Running
<1>5. Within(r, c)'
  <2>1. Passed(r, c)' = 0 /\ Passed(r, c) = 0 /\ c \in Requests
    BY <1>2, <1>4 DEF Passed, Path, PathIn
  <2> QED
    BY <1>1, <1>2, <1>4, <2>1 DEF Within, BudgetsTyped
<1>6. RetryOK(r)'
  BY <1>2, <1>4, <1>5 DEF RetryOK, Path
<1>7. Calm
  BY <1>1, <1>2 DEF Calm, BudgetsTyped
<1> QED
  BY <1>2, <1>3, <1>6, <1>7, OneDraws

LEMMA NarrowDraws ==
  ASSUME BudgetAssumption, RetryInv, BudgetInv', NEW r \in Requests, NarrowPool(r)
  PROVE  RetryInv'
<1>1. /\ BudgetInv /\ BudgetsTyped /\ BudgetsTyped' /\ Minted \subseteq Requests
      /\ r \notin Minted /\ holding[r] = 0 /\ kept[r] = 0
  BY DEF RetryInv, BudgetInv, PlaceOK, NarrowPool, Minted
<1>2. pc'[r] = "idle" /\ pc[r] = "measuring" /\ UNCHANGED <<entitled, holding, kept>>
  BY <1>1 DEF NarrowPool, BudgetsTyped
<1>3. CASE ~Narrows(r)
  <2>1. UNCHANGED <<pool, above, left>>
    BY <1>3 DEF NarrowPool
  <2>2. PICK c \in Path(pool[r]) : left[c] <= least[r]
    BY <1>2 DEF RetryInv, RetryOK
  <2>3. Within(r, c)'
    <3>1. Passed(r, c)' = 0 /\ c \in Requests
      BY <1>2, <2>2 DEF Passed, Path, PathIn
    <3> QED
      BY <1>1, <1>2, <1>3, <2>1, <2>2, <3>1 DEF Within, Narrows, BudgetsTyped
  <2>4. RetryOK(r)'
    BY <1>2, <2>1, <2>2, <2>3 DEF RetryOK, Path
  <2>5. \A q \in Requests \ {r} : Quiet(q)
    BY <1>1, <2>1 DEF NarrowPool, Quiet, Still, BudgetsTyped
  <2>6. Calm
    BY <1>1, <2>1 DEF Calm, BudgetsTyped
  <2> QED
    BY <2>1, <2>4, <2>5, <2>6, OneDraws
<1>4. CASE Narrows(r)
  <2>1. /\ pool' = [pool EXCEPT ![r] = r] /\ above' = [above EXCEPT ![r] = pool[r]]
        /\ left' = [left EXCEPT ![r] = entitled[r]]
    BY <1>4 DEF NarrowPool
  <2>2. \A c \in Minted : Path(c)' = Path(c) /\ r \notin Path(c) /\ Path(c) \subseteq Minted
    BY <1>1, <2>1, OldPaths
  <2>3. RetryOK(r)'
    <3>1. pool'[r] = r /\ left'[r] = entitled[r] /\ above' \in Parents
      BY <1>1, <2>1 DEF BudgetsTyped, Parents
    <3>2. r \in Path(pool[r])'
      BY <3>1, PathIsClosed DEF Path
    <3>3. Passed(r, r)' = 0
      BY <1>2 DEF Passed
    <3>4. Within(r, r)'
      BY <1>1, <1>2, <3>1, <3>3 DEF Within, BudgetsTyped
    <3> QED
      BY <1>2, <3>2, <3>4 DEF RetryOK
  <2>4. ASSUME NEW q \in Requests \ {r} PROVE RetryOK(q)'
    <3>1. Quiet(q) /\ PlaceOK(q) /\ RetryOK(q) /\ q \in Requests
      BY <1>1, <2>1 DEF NarrowPool, Quiet, Still, BudgetsTyped, RetryInv, BudgetInv
    <3>2. pc[q] # "new" => Path(pool[q])' = Path(pool[q])
      BY <2>2, <3>1 DEF PlaceOK, Path, Quiet, Still
    <3>3. pc[q] = "taking" => Path(at[q])' = Path(at[q])
      BY <1>1, <2>2, <3>1, AtSomeCounter DEF Path, Quiet, Still
    <3>4. pc[q] = "undoing" => stop[q] \in Minted /\ Path(stop[q])' = Path(stop[q])
      <4>1. pc[q] = "undoing" => stop[q] \in Minted
        BY <1>1, <3>1, AtSomeCounter, MintedPath DEF BudgetInv, PlaceOK
      <4> QED
        BY <2>2, <3>1, <4>1 DEF Path, Quiet, Still
    <3>5. \A c \in Minted : left'[c] = left[c]
      BY <1>1, <2>1 DEF BudgetsTyped
    <3>6. pc[q] # "new" => pool[q] \in Minted /\ Path(pool[q]) \subseteq Minted
      BY <2>2, <3>1 DEF PlaceOK
    <3>7. pc[q] = "undoing" => Exhausted(stop[q])'
      BY <2>2, <3>1, <3>4, <3>5 DEF RetryOK, Exhausted
    <3>8. pc[q] = "measuring" => (\E c \in Path(pool[q]) : left[c] <= least[q])'
      BY <3>1, <3>2, <3>5, <3>6 DEF RetryOK, Quiet, Still
    <3>9. q \in Running => (\E c \in Path(pool[q]) : Within(q, c))'
      <4> SUFFICES ASSUME q \in Running PROVE \E c \in Path(pool[q])' : Within(q, c)'
        OBVIOUS
      <4>1. PICK c \in Path(pool[q]) : Within(q, c)
        BY <3>1 DEF RetryOK
      <4>2. Passed(q, c)' = Passed(q, c)
        BY <3>1, <3>3 DEF Passed, Quiet, Still
      <4>3. Within(q, c)' /\ pc[q] # "new" /\ c \in Minted
        BY <3>1, <3>5, <3>6, <4>1, <4>2 DEF Within, Running, Quiet, Still
      <4> QED
        BY <3>2, <4>1, <4>3
    <3> QED
      BY <3>1, <3>7, <3>8, <3>9 DEF RetryOK, Running, Quiet, Still
  <2> QED
    BY <2>3, <2>4 DEF RetryInv
<1> QED
  BY <1>3, <1>4

LEMMA RetryStart == BudgetAssumption /\ BudgetInit => RetryInv
<1> SUFFICES ASSUME BudgetAssumption, BudgetInit PROVE RetryInv
  OBVIOUS
<1>1. BudgetInv
  BY BudgetStart
<1>2. ASSUME NEW r \in Requests PROVE RetryOK(r)
  <2>1. CASE r = DoorRequest
    <3>1. /\ pc[r] = "idle" /\ pool[r] = r /\ left[r] = DoorLimit /\ entitled[r] = DoorLimit
          /\ holding[r] = 0 /\ kept[r] = 0 /\ DoorLimit \in Nat
      BY <2>1 DEF BudgetAssumption, BudgetInit
    <3>2. r \in Path(r)
      BY <1>1, PathIsClosed DEF BudgetInv, BudgetsTyped, Parents, Path
    <3>3. Within(r, r)
      BY <3>1 DEF Within, Passed
    <3> QED
      BY <3>1, <3>2, <3>3 DEF RetryOK
  <2>2. CASE r # DoorRequest
    BY <2>2 DEF BudgetInit, RetryOK, Running
  <2> QED
    BY <2>1, <2>2
<1> QED
  BY <1>1, <1>2 DEF RetryInv

LEMMA RetryStep ==
  BudgetAssumption /\ metered = "retries" /\ RetryInv /\ [BudgetNext]_budgetVars => RetryInv'
<1> SUFFICES ASSUME BudgetAssumption, metered = "retries", RetryInv, [BudgetNext]_budgetVars
             PROVE  RetryInv'
  OBVIOUS
<1>1. BudgetInv'
  BY BudgetStep DEF RetryInv
<1>2. CASE UNCHANGED budgetVars
  BY <1>1, <1>2 DEF budgetVars, RetryInv, RetryOK, Exhausted, Within, Passed, Running, Path
<1>3. CASE BudgetNext
  <2> PICK r \in Requests :
        \/ \E p \in Requests, e \in Entitlements : AdmitRequest(r, p, e)
        \/ Measure(r) \/ NarrowPool(r) \/ TakeCell(r) \/ Refuse(r) \/ UndoCell(r)
        \/ KeepDrawn(r) \/ GiveCell(r)
        \/ \E n \in Asks : Take(r, n)
        \/ \E n \in Amounts : Give(r, n)
    BY <1>3 DEF BudgetNext
  <2>1. ~GiveCell(r) /\ \A n \in Amounts : ~Give(r, n)
    BY DEF RetryInv, RetryOK, GiveCell, Give
  <2> QED
    BY <1>1, <2>1, AdmitDraws, MeasureDraws, NarrowDraws, TakeDraws, TakeCellDraws, RefuseDraws,
       UndoCellDraws, KeepDraws
<1> QED
  BY <1>2, <1>3

LEMMA RetriesFollow ==
  ASSUME BudgetAssumption, RetryInv
  PROVE  WithinEntitlement
<1> SUFFICES ASSUME NEW r \in Running PROVE holding[r] + kept[r] <= entitled[r]
  BY DEF WithinEntitlement
<1>1. r \in Requests /\ BudgetsTyped
  BY DEF Running, RetryInv, BudgetInv
<1>2. PICK c \in Path(pool[r]) : Within(r, c)
  BY <1>1 DEF RetryInv, RetryOK
<1>3. c \in Requests /\ Passed(r, c) \in Nat
  BY <1>2 DEF Path, PathIn, Passed
<1> QED
  BY <1>1, <1>2, <1>3 DEF Within, BudgetsTyped

(***************************************************************************)
(* Either pool of a run.                                                   *)

RunInv == BudgetInv /\ (metered = "retries" => RetryInv)

LEMMA OnePool == [BudgetNext]_budgetVars => UNCHANGED metered
BY DEF BudgetNext, budgetVars, AdmitRequest, Measure, NarrowPool, Take, TakeCell, Refuse, UndoCell,
       KeepDrawn, Give, GiveCell

LEMMA RunStep == BudgetAssumption /\ RunInv /\ [BudgetNext]_budgetVars => RunInv'
BY BudgetStep, RetryStep, OnePool DEF RunInv

\* However the takes, refusals, undos, returns and admissions of a run interleave, no
\* counter of its pools is ever overdrawn and none loses or gains what is not held below
\* it (Pool::try_take, give_back, narrowed); and no request draws more retries than its
\* capability is entitled to, though its takes race the undos of others while it is
\* admitted, narrowed or drawing (RetryBudget, whose draws are try_take(1);
\* Pool::remaining).  Bytes are given back, and for them this fails: a pool handed on
\* while little was left in it fills again.
THEOREM RunBudgetsAlwaysHold == BudgetAssumption => (BudgetSpec => []BudgetsHold)
<1> SUFFICES ASSUME BudgetAssumption PROVE BudgetSpec => []BudgetsHold
  OBVIOUS
<1>1. BudgetInit => RunInv
  BY BudgetStart, RetryStart DEF RunInv
<1>2. RunInv /\ [BudgetNext]_budgetVars => RunInv'
  BY RunStep
<1>3. RunInv => BudgetsHold
  BY BudgetsFollow, RetriesFollow DEF RunInv, BudgetsHold
<1> QED
  BY <1>1, <1>2, <1>3, PTL DEF BudgetSpec

-----------------------------------------------------------------------------

(***************************************************************************)
(* The first of finitely many.                                             *)

\* By any relation that compares all of them, and is transitive.
LEMMA FirstOf ==
  ASSUME NEW S, IsFiniteSet(S), S # {}, NEW R \in SUBSET (S \X S),
         \A x, y \in S : <<x, y>> \in R \/ <<y, x>> \in R,
         \A x, y, z \in S : <<x, y>> \in R /\ <<y, z>> \in R => <<x, z>> \in R
  PROVE  \E x \in S : \A y \in S : <<x, y>> \in R
<1> DEFINE Below(x) == {y \in S : <<x, y>> \notin R}
           Counts == {Cardinality(Below(x)) : x \in S}
<1>1. \A x \in S : IsFiniteSet(Below(x)) /\ Cardinality(Below(x)) \in Nat
  BY FS_Subset, FS_CardinalityType
<1>2. \A x, y \in S : <<x, y>> \notin R => Below(y) \subseteq Below(x) /\ Below(y) # Below(x)
  <2> SUFFICES ASSUME NEW x \in S, NEW y \in S, <<x, y>> \notin R
               PROVE  Below(y) \subseteq Below(x) /\ Below(y) # Below(x)
    OBVIOUS
  <2>1. Below(y) \subseteq Below(x)
    OBVIOUS
  <2>2. y \in Below(x) /\ y \notin Below(y)
    OBVIOUS
  <2> QED
    BY <2>1, <2>2
<1>3. \E x \in S : \A y \in S : <<x, y>> \notin R => Below(y) \subseteq Below(x) /\ Below(y) # Below(x)
                               /\ Cardinality(Below(x)) <= Cardinality(Below(y))
  <2> HIDE DEF Below
  <2>1. Counts \in SUBSET Nat /\ Counts # {}
    BY <1>1
  <2>2. PICK n \in Counts : \A m \in Counts : n <= m
    BY <2>1, LeastOf
  <2>3. PICK x \in S : n = Cardinality(Below(x))
    BY <2>2
  <2> QED
    BY <1>2, <2>2, <2>3
<1>4. PICK x \in S : \A y \in S : <<x, y>> \notin R => Below(y) \subseteq Below(x) /\ Below(y) # Below(x)
                               /\ Cardinality(Below(x)) <= Cardinality(Below(y))
  BY <1>3
<1> HIDE DEF Below
<1>5. \A y \in S : <<x, y>> \in R
  <2> SUFFICES ASSUME NEW y \in S, <<x, y>> \notin R PROVE FALSE
    OBVIOUS
  <2>1. /\ Below(y) \subseteq Below(x) /\ Below(y) # Below(x)
        /\ Cardinality(Below(x)) <= Cardinality(Below(y))
    BY <1>4
  <2>2. Cardinality(Below(y)) <= Cardinality(Below(x))
        /\ (Cardinality(Below(y)) = Cardinality(Below(x)) => Below(y) = Below(x))
    BY <1>1, <2>1, FS_Subset
  <2> QED
    BY <1>1, <2>1, <2>2
<1> QED
  BY <1>5

(***************************************************************************)
(* The loop.                                                               *)

LEMMA RemainingIs ==
  ASSUME NEW f, IsFiniteSet(DOMAIN f), NEW I \in SUBSET (SUBSET DOMAIN f), DOMAIN f \in I,
         \A T \in I : Overflowing(Restricted(f, T)) # {} => Rid(f, T) \in I /\ Rid(f, T) # T
  PROVE  Remaining(f) \in I /\ Overflowing(Restricted(f, Remaining(f))) = {}
<1> DEFINE D == DOMAIN f
           Ends(T) == Overflowing(Restricted(f, T)) = {}
           Rule(g) == [S \in SUBSET D |-> IF Ends(S) THEN S ELSE g[Rid(f, S)]]
           ends == CHOOSE g : g = Rule(g)
<1>1. Remaining(f) = ends[D]
  BY DEF Remaining
\* What the rule comes to from each set: the end of the sets it leads to.
<1> DEFINE Closed(S) == {C \in SUBSET (SUBSET D) :
                           S \in C /\ \A T \in C : ~Ends(T) => Rid(f, T) \in C}
           From(S) == {T \in SUBSET D : \A C \in Closed(S) : T \in C}
           Final(S) == {T \in From(S) : Ends(T)}
           end == [S \in SUBSET D |-> CHOOSE T : T \in Final(S)]
<1>2. \A S \in SUBSET D : Rid(f, S) \in SUBSET D
  BY DEF Rid
<1> HIDE DEF Ends
<1>3. \A S \in SUBSET D : From(S) \in Closed(S) /\ \A C \in Closed(S) : From(S) \subseteq C
  BY <1>2
<1>4. ASSUME NEW S \in SUBSET D, Ends(S) PROVE Final(S) = {S}
  <2>1. {S} \in Closed(S)
    BY <1>4
  <2>2. S \in From(S) /\ From(S) \subseteq {S}
    BY <1>3, <2>1
  <2> HIDE DEF From
  <2> QED
    BY <1>4, <2>2
<1>5. ASSUME NEW S \in SUBSET D, ~Ends(S) PROVE Final(S) = Final(Rid(f, S))
  <2> DEFINE next == Rid(f, S)
  <2>1. next \in SUBSET D
    BY <1>2
  <2>2. From(next) \subseteq From(S)
    <3>1. From(S) \in Closed(next)
      BY <1>3, <1>5, <2>1
    <3> QED
      BY <1>3, <2>1, <3>1
  <2>3. From(S) \subseteq {S} \cup From(next)
    <3>1. {S} \cup From(next) \in Closed(S)
      BY <1>3, <1>5, <2>1
    <3> QED
      BY <1>3, <3>1
  <2> QED
    BY <1>5, <2>2, <2>3
<1>6. end = Rule(end)
  <2> HIDE DEF Final
  <2>1. \A S \in SUBSET D : end[S] = IF Ends(S) THEN S ELSE end[Rid(f, S)]
    BY <1>2, <1>4, <1>5
  <2>2. end = [S \in SUBSET D |-> end[S]]
    OBVIOUS
  <2> HIDE DEF end
  <2>3. [S \in SUBSET D |-> end[S]] = [S \in SUBSET D |-> IF Ends(S) THEN S ELSE end[Rid(f, S)]]
    BY <2>1
  <2> QED
    BY <2>2, <2>3
<1>7. ends = Rule(ends)
  BY <1>6
<1> HIDE DEF ends
<1>8. \A S \in SUBSET D : ends[S] = IF Ends(S) THEN S ELSE ends[Rid(f, S)]
  BY <1>7
<1> DEFINE Good(T) == ends[T] \in I /\ Ends(ends[T])
           Bad == {T \in I : ~Good(T)}
           Numbers == {Cardinality(T) : T \in Bad}
<1>9. \A T \in SUBSET D : IsFiniteSet(T) /\ Cardinality(T) \in Nat
  BY FS_Subset, FS_CardinalityType
<1>10. ASSUME NEW T \in I, ~Ends(T)
       PROVE  /\ Rid(f, T) \in I /\ Cardinality(Rid(f, T)) < Cardinality(T)
              /\ Good(Rid(f, T)) => Good(T)
  <2>1. Rid(f, T) \in I /\ Rid(f, T) # T /\ T \in SUBSET D
    BY <1>10 DEF Ends
  <2>2. Rid(f, T) \subseteq T
    BY DEF Rid
  <2>3. Cardinality(Rid(f, T)) < Cardinality(T)
    BY <1>9, <2>1, <2>2, FS_Subset
  <2> QED
    BY <1>8, <1>10, <2>1, <2>3
<1>11. ASSUME NEW T \in I, Ends(T) PROVE Good(T)
  BY <1>8, <1>11
<1>12. Bad = {}
  <2> SUFFICES ASSUME Bad # {} PROVE FALSE
    OBVIOUS
  <2> HIDE DEF Good
  <2>1. Numbers \in SUBSET Nat /\ Numbers # {}
    BY <1>9
  <2>2. PICK n \in Numbers : \A m \in Numbers : n <= m
    BY <2>1, LeastOf
  <2>3. PICK T \in Bad : n = Cardinality(T)
    BY <2>2
  <2>4. Rid(f, T) \in Bad /\ Cardinality(Rid(f, T)) < Cardinality(T)
    BY <1>10, <1>11, <2>3
  <2> QED
    BY <1>9, <2>2, <2>3, <2>4
<1>13. Good(D)
  BY <1>12
<1> QED
  BY <1>1, <1>13 DEF Ends

(***************************************************************************)
(* The policy that a table describes.                                      *)

Kinds == {"lru", "fifo", "cost-aware", "scan-resistant"}
PlainPolicy == [kind : Kinds, maxEntries : Nat \ {0}, maxBytes : Nat \ {0}, percent : Nat]

LEMMA ShareOfEntries ==
  ASSUME NEW t, TableOf(t), t.maxBytes > 0, NEW p \in DOMAIN t.parts
  PROVE  /\ EntriesIn(t, t.parts[p]) \in Nat
         /\ (t.parts[p].maxEntries # Unset => t.parts[p].maxEntries > 0) => EntriesIn(t, t.parts[p]) > 0
<1> DEFINE part == t.parts[p]
           a == t.maxEntries * part.maxBytes
           share == a \div t.maxBytes
<1>1. t.maxEntries \in Nat /\ part.maxBytes \in Nat /\ t.maxBytes \in Nat /\ t.maxBytes > 0
  BY DEF TableOf
<1>2. a \in Nat
  BY <1>1
<1> HIDE DEF a
<1>3. share \in Int
  BY <1>1, <1>2
<1> HIDE DEF share
<1>4. AtLeastOne(share) \in Nat /\ AtLeastOne(share) > 0
  BY <1>3 DEF AtLeastOne
<1>5. CASE part.maxEntries = Unset
  <2>1. EntriesIn(t, part) = AtLeastOne(share)
    BY <1>5 DEF EntriesIn, share, a
  <2> QED
    BY <1>4, <2>1
<1>6. CASE part.maxEntries # Unset
  <2>1. EntriesIn(t, part) = part.maxEntries /\ part.maxEntries \in Nat
    BY <1>6 DEF EntriesIn, TableOf
  <2> QED
    BY <1>6, <2>1
<1> QED
  BY <1>5, <1>6

LEMMA SubLeaves ==
  ASSUME NEW a \in Nat, a > 0, NEW b \in Nat, b = 0 \/ SaturatingSub(a, b) > 0
  PROVE  SaturatingSub(a, b) \in Nat \ {0} /\ a = b + SaturatingSub(a, b)
BY DEF SaturatingSub

LEMMA PolicyIs ==
  ASSUME NEW t, TableOf(t), ToPolicy(t) # NoPolicy
  PROVE  /\ DOMAIN ToPolicy(t) = DOMAIN t.parts \cup {Rest}
         /\ ToPolicy(t) \in [DOMAIN t.parts \cup {Rest} -> PlainPolicy]
         /\ t.maxEntries = Tally(DOMAIN t.parts \cup {Rest},
                                 [p \in DOMAIN t.parts \cup {Rest} |-> ToPolicy(t)[p].maxEntries])
         /\ t.maxBytes = Tally(DOMAIN t.parts \cup {Rest},
                               [p \in DOMAIN t.parts \cup {Rest} |-> ToPolicy(t)[p].maxBytes])
<1> DEFINE Prefixes == DOMAIN t.parts
           es == [p \in Prefixes |-> EntriesIn(t, t.parts[p])]
           bs == [p \in Prefixes |-> t.parts[p].maxBytes]
           all == ToPolicy(t)
<1>1. /\ t.maxEntries \in Nat /\ t.maxBytes \in Nat /\ t.maxEntries > 0 /\ t.maxBytes > 0
      /\ IsFiniteSet(Prefixes) /\ Rest \notin Prefixes
      /\ Names(t.kind, t.percent)
      /\ \A p \in Prefixes : /\ t.parts[p].maxBytes \in Nat /\ t.parts[p].maxBytes > 0
                             /\ t.parts[p].maxEntries # Unset => t.parts[p].maxEntries > 0
                             /\ Names(KindIn(t, t.parts[p]), PercentIn(t, t.parts[p]))
      /\ Prefixes # {} => LeftOver(t).maxEntries > 0 /\ LeftOver(t).maxBytes > 0
  BY DEF ToPolicy, TableOf
<1>2. all = [p \in Prefixes \cup {Rest} |->
               IF p = Rest
               THEN Plain(t.kind, LeftOver(t).maxEntries, LeftOver(t).maxBytes, PercentOf(t.percent))
               ELSE Plain(KindIn(t, t.parts[p]), EntriesIn(t, t.parts[p]), t.parts[p].maxBytes,
                          PercentOf(PercentIn(t, t.parts[p])))]
  BY DEF ToPolicy
<1>3. \A p \in Prefixes : es[p] \in Nat /\ es[p] > 0 /\ bs[p] \in Nat /\ bs[p] > 0
  <2> SUFFICES ASSUME NEW p \in Prefixes PROVE es[p] \in Nat /\ es[p] > 0 /\ bs[p] \in Nat /\ bs[p] > 0
    OBVIOUS
  <2>1. bs[p] \in Nat /\ bs[p] > 0
    BY <1>1
  <2>2. EntriesIn(t, t.parts[p]) \in Nat /\ EntriesIn(t, t.parts[p]) > 0
    BY <1>1, ShareOfEntries
  <2>3. es[p] = EntriesIn(t, t.parts[p])
    OBVIOUS
  <2> HIDE DEF es, bs
  <2> QED
    BY <2>1, <2>2, <2>3
<1>4. Tally(Prefixes, es) \in Nat /\ Tally(Prefixes, bs) \in Nat
  BY <1>1, <1>3, TallyIsNat
<1>5. LeftOver(t) = [maxEntries |-> SaturatingSub(t.maxEntries, Tally(Prefixes, es)),
                     maxBytes |-> SaturatingSub(t.maxBytes, Tally(Prefixes, bs))]
  BY DEF LeftOver
<1>6. Prefixes = {} => Tally(Prefixes, es) = 0 /\ Tally(Prefixes, bs) = 0
  BY TallyNothing
<1> DEFINE e == Tally(Prefixes, es)
           b == Tally(Prefixes, bs)
           le == LeftOver(t).maxEntries
           lb == LeftOver(t).maxBytes
<1>7. le = SaturatingSub(t.maxEntries, e) /\ lb = SaturatingSub(t.maxBytes, b)
  BY <1>5
<1>8. e \in Nat /\ b \in Nat /\ (Prefixes = {} => e = 0 /\ b = 0)
  BY <1>4, <1>6
<1>9. Prefixes # {} => le > 0 /\ lb > 0
  BY <1>1
<1> HIDE DEF e, b, le, lb
<1>10. /\ le \in Nat \ {0} /\ lb \in Nat \ {0}
       /\ t.maxEntries = e + le /\ t.maxBytes = b + lb
  <2>1. (e = 0 \/ le > 0) /\ (b = 0 \/ lb > 0)
    BY <1>8, <1>9
  <2> QED
    BY <1>1, <1>7, <1>8, <2>1, SubLeaves
<1> HIDE DEF all
<1>11. \A kind, percent : Names(kind, percent) => kind \in Kinds /\ PercentOf(percent) \in Nat
  BY DEF Names, Kinds, PercentOf, DefaultPercent
<1>12. all[Rest] = Plain(t.kind, le, lb, PercentOf(t.percent))
  BY <1>2 DEF le, lb
<1>13. \A p \in Prefixes : all[p] = Plain(KindIn(t, t.parts[p]), es[p], bs[p],
                                         PercentOf(PercentIn(t, t.parts[p])))
  BY <1>1, <1>2
<1>14. all[Rest] \in PlainPolicy /\ all[Rest].maxEntries = le /\ all[Rest].maxBytes = lb
  BY <1>1, <1>10, <1>11, <1>12 DEF Plain, PlainPolicy
<1>15. \A p \in Prefixes : all[p] \in PlainPolicy /\ all[p].maxEntries = es[p] /\ all[p].maxBytes = bs[p]
  <2> HIDE DEF es, bs
  <2> SUFFICES ASSUME NEW p \in Prefixes
               PROVE  all[p] \in PlainPolicy /\ all[p].maxEntries = es[p] /\ all[p].maxBytes = bs[p]
    OBVIOUS
  <2>1. es[p] \in Nat \ {0} /\ bs[p] \in Nat \ {0}
    BY <1>3
  <2>2. KindIn(t, t.parts[p]) \in Kinds /\ PercentOf(PercentIn(t, t.parts[p])) \in Nat
    BY <1>1, <1>11
  <2> DEFINE kind == KindIn(t, t.parts[p])
             percent == PercentOf(PercentIn(t, t.parts[p]))
  <2>3. all[p] = [kind |-> kind, maxEntries |-> es[p], maxBytes |-> bs[p], percent |-> percent]
    BY <1>13 DEF Plain
  <2> HIDE DEF kind, percent, all
  <2> QED
    BY <2>1, <2>2, <2>3 DEF PlainPolicy, kind, percent
<1>16. all \in [Prefixes \cup {Rest} -> PlainPolicy]
  BY <1>2, <1>14, <1>15
<1>17. t.maxEntries = Tally(Prefixes \cup {Rest}, [p \in Prefixes \cup {Rest} |-> all[p].maxEntries])
  <2> DEFINE n == [p \in Prefixes \cup {Rest} |-> all[p].maxEntries]
  <2>1. \A p \in Prefixes : es[p] \in Nat /\ n[p] = es[p]
    BY <1>3, <1>15
  <2>2. n[Rest] = le
    BY <1>14
  <2> HIDE DEF n, es
  <2>4. n[Rest] \in Nat
    BY <1>10, <2>2
  <2>5. IsFiniteSet(Prefixes) /\ Rest \notin Prefixes
    BY <1>1
  <2> HIDE DEF Prefixes
  <2>3. Tally(Prefixes \cup {Rest}, n) = Tally(Prefixes, es) + n[Rest]
    BY <2>1, <2>4, <2>5, TallyOneMore
  <2> QED
    BY <1>10, <2>2, <2>3 DEF e, n
<1>18. t.maxBytes = Tally(Prefixes \cup {Rest}, [p \in Prefixes \cup {Rest} |-> all[p].maxBytes])
  <2> DEFINE n == [p \in Prefixes \cup {Rest} |-> all[p].maxBytes]
  <2>1. \A p \in Prefixes : bs[p] \in Nat /\ n[p] = bs[p]
    BY <1>3, <1>15
  <2>2. n[Rest] = lb
    BY <1>14
  <2> HIDE DEF n, bs
  <2>4. n[Rest] \in Nat
    BY <1>10, <2>2
  <2>5. IsFiniteSet(Prefixes) /\ Rest \notin Prefixes
    BY <1>1
  <2> HIDE DEF Prefixes
  <2>3. Tally(Prefixes \cup {Rest}, n) = Tally(Prefixes, bs) + n[Rest]
    BY <2>1, <2>4, <2>5, TallyOneMore
  <2> QED
    BY <1>10, <2>2, <2>3 DEF b, n
<1> QED
  BY <1>2, <1>16, <1>17, <1>18 DEF all

(***************************************************************************)
(* Which entry goes.                                                       *)

Entry == [bytes : Nat, cost : Nat \cup {Unset}, hits : Nat, stored : Nat, used : Nat]
Facts(f) ==
  /\ IsFiniteSet(DOMAIN f)
  /\ \A k \in DOMAIN f : f[k] \in Entry /\ f[k].stored <= f[k].used

LEMMA LeastRecentIsOne ==
  ASSUME NEW f, Facts(f), NEW S \in SUBSET DOMAIN f, S # {}
  PROVE  LeastRecent(f, S) \in S
<1> DEFINE Moments == {f[k].used : k \in S}
<1>1. Moments \in SUBSET Nat /\ Moments # {}
  BY DEF Facts, Entry
<1>2. PICK n \in Moments : \A m \in Moments : n <= m
  BY <1>1, LeastOf
<1>3. \E k \in S : \A j \in S : f[k].used <= f[j].used
  BY <1>2
<1> QED
  BY <1>3 DEF LeastRecent

LEMMA OldestIsOne ==
  ASSUME NEW f, Facts(f), NEW S \in SUBSET DOMAIN f, S # {}
  PROVE  Oldest(f, S) \in S
<1> DEFINE Stored == {f[k].stored : k \in S}
<1>1. Stored \in SUBSET Nat /\ Stored # {}
  BY DEF Facts, Entry
<1>2. PICK n \in Stored : \A m \in Stored : n <= m
  BY <1>1, LeastOf
<1>3. \E k \in S : \A j \in S : f[k].stored <= f[j].stored
  BY <1>2
<1> QED
  BY <1>3 DEF Oldest

LEMMA DensityIsNat ==
  ASSUME NEW e \in Entry
  PROVE  Density(e) \in Nat
<1> DEFINE cost == IF e.cost = Unset THEN 0 ELSE e.cost
           worth == cost * 1024 * (e.hits + 1)
           size == AtLeastOne(e.bytes)
<1>1. cost \in Nat /\ e.hits + 1 \in Nat
  BY DEF Entry
<1>2. size \in Nat /\ size > 0
  BY DEF Entry, AtLeastOne
<1> HIDE DEF cost, size
<1>3. cost * 1024 \in Nat
  BY <1>1
<1>4. worth \in Nat
  BY <1>1, <1>3
<1> HIDE DEF worth
<1>5. worth \div size \in Nat
  BY <1>2, <1>4
<1> QED
  BY <1>5 DEF Density, worth, size, cost

LEMMA LeastValuableIsOne ==
  ASSUME NEW f, Facts(f), NEW S \in SUBSET DOMAIN f, S # {}
  PROVE  LeastValuable(f, S) \in S
<1> DEFINE Worths == {Density(f[k]) : k \in S}
<1>1. \A k \in S : Density(f[k]) \in Nat /\ f[k].used \in Nat
  BY DensityIsNat DEF Facts, Entry
<1>9. Worths \in SUBSET Nat /\ Worths # {}
  BY <1>1
<1>2. PICK n \in Worths : \A m \in Worths : n <= m
  BY <1>9, LeastOf
<1> DEFINE Least == {k \in S : Density(f[k]) = n}
<1>3. LeastRecent(f, Least) \in Least
  BY <1>2, LeastRecentIsOne
<1> DEFINE k == LeastRecent(f, Least)
<1>4. \A j \in Least : f[k].used <= f[j].used
  <2> DEFINE Moments == {f[j].used : j \in Least}
  <2>1. Moments \in SUBSET Nat /\ Moments # {}
    BY <1>1, <1>3
  <2>2. PICK u \in Moments : \A v \in Moments : u <= v
    BY <2>1, LeastOf
  <2>3. \E i \in Least : \A j \in Least : f[i].used <= f[j].used
    BY <2>2
  <2> QED
    BY <2>3 DEF LeastRecent
<1> HIDE DEF k
<1>5. \A j \in S : n < Density(f[j]) \/ Density(f[j]) = n
  BY <1>1, <1>2
<1>6. \A j \in S : \/ Density(f[k]) < Density(f[j])
                   \/ Density(f[k]) = Density(f[j]) /\ f[k].used <= f[j].used
  <2>1. k \in S /\ Density(f[k]) = n
    BY <1>3 DEF k
  <2> QED
    BY <1>4, <1>5, <2>1
<1>7. k \in S
  BY <1>3 DEF k
<1>8. LeastRecent(f, S) \in S
  BY LeastRecentIsOne
<1> QED
  BY <1>6, <1>7, <1>8 DEF LeastValuable

\* Rates, a hits in x ticks, are compared by their products.
LEMMA TimesMore ==
  ASSUME NEW a \in Nat, NEW b \in Nat, NEW n \in Nat \ {0}
  PROVE  (a <= b <=> a * n <= b * n) /\ (a = b <=> a * n = b * n) /\ a * n \in Nat
OBVIOUS

LEMMA RatesCompare ==
  ASSUME NEW a \in Nat, NEW b \in Nat, NEW c \in Nat,
         NEW x \in Nat \ {0}, NEW y \in Nat \ {0}, NEW z \in Nat \ {0},
         a * y <= b * x, b * z <= c * y
  PROVE  a * z <= c * x /\ (a * z = c * x => a * y = b * x /\ b * z = c * y)
<1>1. /\ a * y \in Nat /\ b * x \in Nat /\ b * z \in Nat /\ c * y \in Nat
      /\ a * z \in Nat /\ c * x \in Nat
  BY TimesMore
<1>2. (a * y) * z = (a * z) * y /\ (b * x) * z = (b * z) * x /\ (c * y) * x = (c * x) * y
  OBVIOUS
<1> DEFINE ay == a * y
           bx == b * x
           bz == b * z
           cy == c * y
           az == a * z
           cx == c * x
<1> HIDE DEF ay, bx, bz, cy, az, cx
<1>3. /\ ay <= bx <=> ay * z <= bx * z
      /\ ay = bx <=> ay * z = bx * z
      /\ ay * z \in Nat /\ bx * z \in Nat
  BY <1>1, TimesMore DEF ay, bx
<1>4. /\ bz <= cy <=> bz * x <= cy * x
      /\ bz = cy <=> bz * x = cy * x
      /\ bz * x \in Nat /\ cy * x \in Nat
  BY <1>1, TimesMore DEF bz, cy
<1>5. /\ az <= cx <=> az * y <= cx * y
      /\ az = cx <=> az * y = cx * y
      /\ az * y \in Nat /\ cx * y \in Nat
  BY <1>1, TimesMore DEF az, cx
<1>6. ay * z = az * y /\ bx * z = bz * x /\ cy * x = cx * y /\ ay <= bx /\ bz <= cy
  BY <1>2 DEF ay, bx, bz, cy, az, cx
<1>7. az <= cx /\ (az = cx => ay = bx /\ bz = cy)
  <2> DEFINE m == ay * z
             n == bx * z
             o == cy * x
  <2>1. m \in Nat /\ n \in Nat /\ o \in Nat /\ m <= n /\ n <= o
    BY <1>3, <1>4, <1>6
  <2>2. /\ az <= cx <=> m <= o
        /\ az = cx <=> m = o
        /\ ay = bx <=> m = n
        /\ bz = cy <=> n = o
    BY <1>3, <1>4, <1>5, <1>6
  <2> HIDE DEF m, n, o
  <2> QED
    BY <2>1, <2>2
<1> QED
  BY <1>7 DEF ay, bx, bz, cy, az, cx

LEMMA LatestIsLatest ==
  ASSUME NEW f, Facts(f), NEW S \in SUBSET DOMAIN f, S # {}
  PROVE  \A k \in S : Residence(f, S, k) \in Nat \ {0}
<1> DEFINE R == {z \in S \X S : f[z[2]].used <= f[z[1]].used}
<1>1. \A k \in S : f[k].used \in Nat /\ f[k].stored \in Nat /\ f[k].stored <= f[k].used
  BY DEF Facts, Entry
<1>2. R \in SUBSET (S \X S) /\ \A x, y \in S : <<x, y>> \in R <=> f[y].used <= f[x].used
  OBVIOUS
<1> HIDE DEF R
<1>3. IsFiniteSet(S)
  <2>1. IsFiniteSet(DOMAIN f)
    BY DEF Facts
  <2> QED
    BY <2>1, FS_Subset
<1>4. \A x, y \in S : <<x, y>> \in R \/ <<y, x>> \in R
  <2> SUFFICES ASSUME NEW x \in S, NEW y \in S PROVE <<x, y>> \in R \/ <<y, x>> \in R
    OBVIOUS
  <2>1. f[x].used \in Nat /\ f[y].used \in Nat
    BY <1>1
  <2>2. f[x].used <= f[y].used \/ f[y].used <= f[x].used
    BY <2>1
  <2> QED
    BY <1>2, <2>2
<1>5. \A x, y, z \in S : <<x, y>> \in R /\ <<y, z>> \in R => <<x, z>> \in R
  BY <1>1, <1>2
<1>6. \E x \in S : \A y \in S : <<x, y>> \in R
  BY <1>2, <1>3, <1>4, <1>5, FirstOf
<1>7. \E u \in {f[j].used : j \in S} : \A j \in S : f[j].used <= u
  BY <1>2, <1>6
<1>8. Latest(f, S) \in Nat /\ \A j \in S : f[j].used <= Latest(f, S)
  BY <1>1, <1>7 DEF Latest
<1> QED
  BY <1>1, <1>8 DEF Residence

LEMMA LeastWantedIsOne ==
  ASSUME NEW f, Facts(f), NEW S \in SUBSET DOMAIN f, NEW P \in SUBSET S, P # {}
  PROVE  (CHOOSE k \in P : \A j \in P : NoMoreWanted(f, S, k, j)) \in P
<1> DEFINE R == {z \in P \X P : NoMoreWanted(f, S, z[1], z[2])}
           h == [k \in P |-> f[k].hits]
           u == [k \in P |-> f[k].used]
           r == [k \in P |-> Residence(f, S, k)]
<1>1. \A k \in P : h[k] \in Nat /\ u[k] \in Nat /\ r[k] \in Nat \ {0}
  <2> SUFFICES ASSUME NEW k \in P PROVE h[k] \in Nat /\ u[k] \in Nat /\ r[k] \in Nat \ {0}
    OBVIOUS
  <2>1. f[k].hits \in Nat /\ f[k].used \in Nat
    BY DEF Facts, Entry
  <2>2. Residence(f, S, k) \in Nat \ {0}
    BY LatestIsLatest
  <2> QED
    BY <2>1, <2>2
<1>2. \A k, j \in P : <<k, j>> \in R <=> \/ h[k] * r[j] < h[j] * r[k]
                                         \/ h[k] * r[j] = h[j] * r[k] /\ u[k] <= u[j]
  BY DEF NoMoreWanted
<1>3. R \in SUBSET (P \X P)
  OBVIOUS
<1>4. IsFiniteSet(P)
  BY FS_Subset DEF Facts
<1> HIDE DEF R, h, u, r
<1>5. \A k, j \in P : h[k] * r[j] \in Nat
  BY <1>1, TimesMore
<1>6. \A x, y \in P : <<x, y>> \in R \/ <<y, x>> \in R
  <2> SUFFICES ASSUME NEW x \in P, NEW y \in P PROVE <<x, y>> \in R \/ <<y, x>> \in R
    OBVIOUS
  <2> DEFINE m == h[x] * r[y]
             n == h[y] * r[x]
  <2>1. m \in Nat /\ n \in Nat
    BY <1>5
  <2>2. /\ <<x, y>> \in R <=> m < n \/ (m = n /\ u[x] <= u[y])
        /\ <<y, x>> \in R <=> n < m \/ (n = m /\ u[y] <= u[x])
    BY <1>2
  <2> HIDE DEF m, n
  <2> QED
    BY <1>1, <2>1, <2>2
<1>7. \A x, y, z \in P : <<x, y>> \in R /\ <<y, z>> \in R => <<x, z>> \in R
  <2> SUFFICES ASSUME NEW x \in P, NEW y \in P, NEW z \in P, <<x, y>> \in R, <<y, z>> \in R
               PROVE  <<x, z>> \in R
    OBVIOUS
  <2> DEFINE a == h[x]
             b == h[y]
             c == h[z]
             i == r[x]
             j == r[y]
             k == r[z]
  <2>1. /\ a \in Nat /\ b \in Nat /\ c \in Nat
        /\ i \in Nat \ {0} /\ j \in Nat \ {0} /\ k \in Nat \ {0}
        /\ u[x] \in Nat /\ u[y] \in Nat /\ u[z] \in Nat
    BY <1>1
  <2>2. /\ a * j < b * i \/ (a * j = b * i /\ u[x] <= u[y])
        /\ b * k < c * j \/ (b * k = c * j /\ u[y] <= u[z])
        /\ <<x, z>> \in R <=> a * k < c * i \/ (a * k = c * i /\ u[x] <= u[z])
    BY <1>2
  <2>3. a * j \in Nat /\ b * i \in Nat /\ b * k \in Nat /\ c * j \in Nat /\ a * k \in Nat /\ c * i \in Nat
    BY <1>5
  <2> HIDE DEF a, b, c, i, j, k
  <2>4. a * j <= b * i /\ b * k <= c * j
    BY <2>2, <2>3
  <2>5. a * k <= c * i /\ (a * k = c * i => a * j = b * i /\ b * k = c * j)
    BY <2>1, <2>4, RatesCompare
  <2>6. a * k < c * i \/ (a * k = c * i /\ u[x] <= u[z])
    BY <2>1, <2>2, <2>3, <2>5
  <2> QED
    BY <2>2, <2>6
<1>8. \E k \in P : \A j \in P : <<k, j>> \in R
  BY <1>3, <1>4, <1>6, <1>7, FirstOf
<1>9. \E k \in P : \A j \in P : NoMoreWanted(f, S, k, j)
  BY <1>8 DEF R
<1> QED
  BY <1>9

(***************************************************************************)
(* What the members of a partition come to.                                *)

LEMMA BytesAreNat ==
  ASSUME NEW f, Facts(f), NEW S \in SUBSET DOMAIN f
  PROVE  BytesOf(f, S) \in Nat /\ IsFiniteSet(S) /\ Cardinality(S) \in Nat
<1>1. IsFiniteSet(S)
  <2>1. IsFiniteSet(DOMAIN f)
    BY DEF Facts
  <2> QED
    BY <2>1, FS_Subset
<1> DEFINE n == [k \in S |-> f[k].bytes]
<1>2. \A k \in S : n[k] \in Nat
  BY DEF Facts, Entry
<1> HIDE DEF n
<1>3. Tally(S, n) \in Nat
  BY <1>1, <1>2, TallyIsNat
<1> QED
  BY <1>1, <1>3, FS_CardinalityType DEF BytesOf, n

\* Two caches hold the same under the same keys.
LEMMA BytesAgree ==
  ASSUME NEW f, NEW g, NEW S, \A k \in S : f[k].bytes = g[k].bytes
  PROVE  BytesOf(f, S) = BytesOf(g, S)
<1>1. [k \in S |-> f[k].bytes] = [k \in S |-> g[k].bytes]
  OBVIOUS
<1> QED
  BY <1>1 DEF BytesOf

LEMMA BytesOfParts ==
  ASSUME NEW f, Facts(f), NEW S \in SUBSET DOMAIN f, NEW Q \in SUBSET S
  PROVE  /\ BytesOf(f, S) = BytesOf(f, Q) + BytesOf(f, S \ Q)
         /\ BytesOf(f, Q) <= BytesOf(f, S)
         /\ Cardinality(Q) <= Cardinality(S)
<1>1. IsFiniteSet(S) /\ BytesOf(f, Q) \in Nat /\ BytesOf(f, S \ Q) \in Nat
  BY BytesAreNat
<1> DEFINE n == [k \in S |-> f[k].bytes]
           m == [k \in Q |-> f[k].bytes]
           o == [k \in S \ Q |-> f[k].bytes]
<1>2. /\ \A k \in S : n[k] \in Nat
      /\ \A k \in Q : m[k] = n[k]
      /\ \A k \in S \ Q : o[k] = n[k]
  BY DEF Facts, Entry
<1>3. BytesOf(f, S) = Tally(S, n) /\ BytesOf(f, Q) = Tally(Q, m) /\ BytesOf(f, S \ Q) = Tally(S \ Q, o)
  BY DEF BytesOf
<1> HIDE DEF n, m, o
<1>4. Tally(S, n) = Tally(Q, n) + Tally(S \ Q, n)
  BY <1>1, <1>2, TallyOfParts
<1>5. Tally(Q, m) = Tally(Q, n) /\ Tally(S \ Q, o) = Tally(S \ Q, n)
  BY <1>2, TallyAgrees
<1>6. Cardinality(Q) <= Cardinality(S)
  BY <1>1, FS_Subset
<1> QED
  BY <1>1, <1>3, <1>4, <1>5, <1>6

LEMMA BytesOfOne ==
  ASSUME NEW f, Facts(f), NEW k \in DOMAIN f
  PROVE  BytesOf(f, {k}) = f[k].bytes
<1> DEFINE n == [j \in {k} |-> f[j].bytes]
<1>1. n[k] = f[k].bytes /\ f[k].bytes \in Nat
  BY DEF Facts, Entry
<1> HIDE DEF n
<1>2. IsFiniteSet({})
  BY FS_EmptySet
<1>3. Tally({} \cup {k}, n) = Tally({}, n) + n[k]
  <2>1. \A x \in {} : n[x] \in Nat /\ n[x] = n[x]
    OBVIOUS
  <2>2. k \notin {} /\ n[k] \in Nat
    BY <1>1
  <2> QED
    BY <1>2, <2>1, <2>2, TallyOneMore
<1>4. Tally({}, n) = 0
  BY TallyNothing
<1>5. {} \cup {k} = {k}
  OBVIOUS
<1> QED
  BY <1>1, <1>3, <1>4, <1>5 DEF BytesOf, n

LEMMA NothingWeighsNothing ==
  ASSUME NEW f
  PROVE  BytesOf(f, {}) = 0 /\ Cardinality({}) = 0
BY TallyNothing, FS_EmptySet DEF BytesOf

LawfulPolicy ==
  /\ IsFiniteSet(DOMAIN policy) /\ Rest \in DOMAIN policy
  /\ policy \in [DOMAIN policy -> PlainPolicy]
  /\ \A p \in DOMAIN policy \ {Rest} : PrefixLength[p] \in Nat

LEMMA SharesAreNat ==
  ASSUME LawfulPolicy, NEW p \in DOMAIN policy
  PROVE  /\ policy[p] \in PlainPolicy /\ policy[p].kind \in Kinds
         /\ policy[p].maxEntries \in Nat \ {0} /\ policy[p].maxBytes \in Nat \ {0}
         /\ Share(p, policy[p].maxEntries) \in Nat /\ Share(p, policy[p].maxBytes) \in Nat
<1>1. policy[p] \in PlainPolicy
  BY DEF LawfulPolicy
<1>2. /\ policy[p].kind \in Kinds
      /\ policy[p].maxEntries \in Nat \ {0} /\ policy[p].maxBytes \in Nat \ {0}
      /\ policy[p].percent \in Nat
  BY <1>1 DEF PlainPolicy
<1>3. ASSUME NEW m \in Nat, NEW n \in Nat PROVE (m * n) \div 100 \in Nat
  <2> DEFINE x == m * n
  <2>1. x \in Nat
    OBVIOUS
  <2> HIDE DEF x
  <2>2. x \div 100 \in Nat
    BY <2>1
  <2> QED
    BY <2>2 DEF x
<1>4. Share(p, policy[p].maxEntries) \in Nat /\ Share(p, policy[p].maxBytes) \in Nat
  <2> DEFINE w == policy[p].percent
             a == policy[p].maxEntries
             b == policy[p].maxBytes
  <2>1. w \in Nat /\ a \in Nat /\ b \in Nat
    BY <1>2
  <2>2. Share(p, a) = (a * w) \div 100 /\ Share(p, b) = (b * w) \div 100
    BY DEF Share
  <2> HIDE DEF w, a, b
  <2>3. Share(p, a) \in Nat /\ Share(p, b) \in Nat
    BY <1>3, <2>1, <2>2
  <2> QED
    BY <2>3 DEF a, b
<1> QED
  BY <1>1, <1>2, <1>4

\* What is over a bound is something; and more of it is over it too.
LEMMA ProtectedOverSome ==
  ASSUME LawfulPolicy, NEW p \in DOMAIN policy, NEW f, NEW S,
         ProtectedOver(p, f, S), Protected(f, S) = {}
  PROVE  FALSE
<1>1. Share(p, policy[p].maxEntries) \in Nat /\ Share(p, policy[p].maxBytes) \in Nat
  BY SharesAreNat
<1>2. BytesOf(f, {}) = 0 /\ Cardinality({}) = 0
  BY NothingWeighsNothing
<1> QED
  BY <1>1, <1>2 DEF ProtectedOver

LEMMA ScanVictimIsOne ==
  ASSUME LawfulPolicy, NEW p \in DOMAIN policy, NEW f, Facts(f), NEW S \in SUBSET DOMAIN f, S # {}
  PROVE  /\ ScanVictim(p, f, S) \in S
         /\ ScanVictim(p, f, S) \in Protected(f, S)
              => S \ Protected(f, S) = {} \/ ProtectedOver(p, f, S)
<1>1. Protected(f, S) \in SUBSET S
  BY DEF Protected
<1>2. CASE S \ Protected(f, S) # {} /\ ~ProtectedOver(p, f, S)
  <2>1. ScanVictim(p, f, S) = LeastRecent(f, S \ Protected(f, S))
    BY <1>2 DEF ScanVictim
  <2>2. S \ Protected(f, S) \in SUBSET DOMAIN f
    OBVIOUS
  <2>3. LeastRecent(f, S \ Protected(f, S)) \in S \ Protected(f, S)
    BY <1>2, <2>2, LeastRecentIsOne
  <2> QED
    BY <2>1, <2>3
<1>3. CASE ~(S \ Protected(f, S) # {} /\ ~ProtectedOver(p, f, S))
  <2>1. ScanVictim(p, f, S) = CHOOSE k \in Protected(f, S) :
                                 \A j \in Protected(f, S) : NoMoreWanted(f, S, k, j)
    BY <1>3 DEF ScanVictim
  <2>2. Protected(f, S) # {}
    <3>1. CASE S \ Protected(f, S) = {}
      BY <3>1
    <3>2. CASE ProtectedOver(p, f, S) /\ Protected(f, S) = {}
      BY <1>3, <3>2, ProtectedOverSome
    <3> QED
      BY <1>3, <3>1, <3>2
  <2>3. (CHOOSE k \in Protected(f, S) : \A j \in Protected(f, S) : NoMoreWanted(f, S, k, j))
          \in Protected(f, S)
    BY <1>1, <2>2, LeastWantedIsOne
  <2> QED
    BY <1>1, <1>3, <2>1, <2>3
<1> QED
  BY <1>2, <1>3

LEMMA VictimIsOne ==
  ASSUME LawfulPolicy, NEW p \in DOMAIN policy, NEW f, Facts(f),
         NEW S \in SUBSET DOMAIN f, S # {}
  PROVE  /\ Victim(p, f, S) \in S
         /\ policy[p].kind = "scan-resistant" /\ f[Victim(p, f, S)].hits > 0
              => S \ Protected(f, S) = {} \/ ProtectedOver(p, f, S)
<1>1. policy[p].kind \in Kinds
  BY SharesAreNat
<1>2. CASE policy[p].kind = "lru"
  BY <1>2, LeastRecentIsOne DEF Victim
<1>3. CASE policy[p].kind = "fifo"
  BY <1>3, OldestIsOne DEF Victim
<1>4. CASE policy[p].kind = "cost-aware"
  BY <1>4, LeastValuableIsOne DEF Victim
<1>5. CASE policy[p].kind = "scan-resistant"
  <2>1. Victim(p, f, S) = ScanVictim(p, f, S)
    BY <1>5 DEF Victim
  <2>2. /\ ScanVictim(p, f, S) \in S
        /\ ScanVictim(p, f, S) \in Protected(f, S)
             => S \ Protected(f, S) = {} \/ ProtectedOver(p, f, S)
    BY ScanVictimIsOne
  <2> QED
    BY <2>1, <2>2 DEF Protected
<1> QED
  BY <1>1, <1>2, <1>3, <1>4, <1>5 DEF Kinds

(***************************************************************************)
(* Partitions and their bounds.                                            *)

\* Every key is in a partition of the policy.
LEMMA PartitionIsOne ==
  ASSUME LawfulPolicy, NEW k
  PROVE  PartitionOf(k) \in DOMAIN policy
<1> DEFINE claims == ClaimedBy[k] \cap (DOMAIN policy \ {Rest})
           R == {z \in claims \X claims : PrefixLength[z[2]] <= PrefixLength[z[1]]}
<1>1. IsFiniteSet(claims)
  <2>1. IsFiniteSet(DOMAIN policy)
    BY DEF LawfulPolicy
  <2> QED
    BY <2>1, FS_Subset
<1>2. \A p \in claims : PrefixLength[p] \in Nat /\ p \in DOMAIN policy
  BY DEF LawfulPolicy
<1>3. PartitionOf(k) = IF claims = {} THEN Rest
                       ELSE CHOOSE p \in claims : \A q \in claims : PrefixLength[q] <= PrefixLength[p]
  BY DEF PartitionOf
<1>4. R \in SUBSET (claims \X claims)
      /\ \A x, y \in claims : <<x, y>> \in R <=> PrefixLength[y] <= PrefixLength[x]
  OBVIOUS
<1> HIDE DEF claims, R
<1>5. \A x, y \in claims : <<x, y>> \in R \/ <<y, x>> \in R
  <2> SUFFICES ASSUME NEW x \in claims, NEW y \in claims PROVE <<x, y>> \in R \/ <<y, x>> \in R
    OBVIOUS
  <2>1. PrefixLength[x] <= PrefixLength[y] \/ PrefixLength[y] <= PrefixLength[x]
    BY <1>2
  <2> QED
    BY <1>4, <2>1
<1>6. \A x, y, z \in claims : <<x, y>> \in R /\ <<y, z>> \in R => <<x, z>> \in R
  BY <1>2, <1>4
<1>7. CASE claims # {}
  <2>1. \E x \in claims : \A y \in claims : <<x, y>> \in R
    BY <1>1, <1>4, <1>5, <1>6, <1>7, FirstOf
  <2>2. \E x \in claims : \A y \in claims : PrefixLength[y] <= PrefixLength[x]
    BY <1>4, <2>1
  <2>3. PartitionOf(k) \in claims
    BY <1>3, <1>7, <2>2
  <2> QED
    BY <1>2, <2>3
<1>8. CASE claims = {}
  BY <1>3, <1>8 DEF LawfulPolicy
<1> QED
  BY <1>7, <1>8

\* Fewer members, the same under the same keys, are not over where more are not.
LEMMA FewerAreNoMoreOver ==
  ASSUME LawfulPolicy, NEW p \in DOMAIN policy, NEW f, NEW g, Facts(f), Facts(g),
         Members(p, f) \subseteq Members(p, g),
         \A k \in Members(p, f) : f[k].bytes = g[k].bytes,
         Over(p, f)
  PROVE  Over(p, g)
<1> DEFINE M == Members(p, f)
           N == Members(p, g)
<1>1. M \in SUBSET DOMAIN f /\ M \in SUBSET DOMAIN g /\ N \in SUBSET DOMAIN g /\ M \in SUBSET N
  BY DEF Members
<1>2. BytesOf(f, M) = BytesOf(g, M)
  BY BytesAgree
<1>3. /\ BytesOf(f, M) \in Nat /\ BytesOf(g, N) \in Nat
      /\ Cardinality(M) \in Nat /\ Cardinality(N) \in Nat
  BY <1>1, BytesAreNat
<1>4. BytesOf(g, M) <= BytesOf(g, N) /\ Cardinality(M) <= Cardinality(N)
  BY <1>1, BytesOfParts
<1>5. policy[p].maxEntries \in Nat /\ policy[p].maxBytes \in Nat
  BY SharesAreNat
<1>6. Cardinality(M) > policy[p].maxEntries \/ BytesOf(f, M) > policy[p].maxBytes
  BY DEF Over
<1> HIDE DEF M, N
<1>7. Cardinality(N) > policy[p].maxEntries \/ BytesOf(g, N) > policy[p].maxBytes
  BY <1>2, <1>3, <1>4, <1>5, <1>6
<1> QED
  BY <1>7 DEF Over, N

\* So for those that were served.
LEMMA FewerServedAreNoMoreOver ==
  ASSUME LawfulPolicy, NEW p \in DOMAIN policy, NEW f, NEW g, Facts(f), Facts(g),
         NEW S \in SUBSET DOMAIN f, NEW Q \in SUBSET DOMAIN g,
         Protected(f, S) \subseteq Protected(g, Q),
         \A k \in Protected(f, S) : f[k].bytes = g[k].bytes,
         ProtectedOver(p, f, S)
  PROVE  ProtectedOver(p, g, Q)
<1> DEFINE M == Protected(f, S)
           N == Protected(g, Q)
           e == Share(p, policy[p].maxEntries)
           b == Share(p, policy[p].maxBytes)
<1>1. M \in SUBSET DOMAIN f /\ M \in SUBSET DOMAIN g /\ N \in SUBSET DOMAIN g /\ M \in SUBSET N
  BY DEF Protected
<1>2. BytesOf(f, M) = BytesOf(g, M)
  BY BytesAgree
<1>3. /\ BytesOf(f, M) \in Nat /\ BytesOf(g, N) \in Nat
      /\ Cardinality(M) \in Nat /\ Cardinality(N) \in Nat
  BY <1>1, BytesAreNat
<1>4. BytesOf(g, M) <= BytesOf(g, N) /\ Cardinality(M) <= Cardinality(N)
  BY <1>1, BytesOfParts
<1>5. e \in Nat /\ b \in Nat
  BY SharesAreNat
<1>6. Cardinality(M) > e \/ BytesOf(f, M) > b
  BY DEF ProtectedOver
<1> HIDE DEF M, N, e, b
<1>7. Cardinality(N) > e \/ BytesOf(g, N) > b
  BY <1>2, <1>3, <1>4, <1>5, <1>6
<1> QED
  BY <1>7 DEF ProtectedOver, N, e, b

\* With one partition over its bound, it is the one that gives something up.
LEMMA OneIsFurthest ==
  ASSUME LawfulPolicy, NEW f, Facts(f), NEW p, Overflowing(f) \subseteq {p}, Overflowing(f) # {}
  PROVE  Furthest(f) = p /\ p \in DOMAIN policy /\ Over(p, f) /\ Members(p, f) # {}
<1>1. Overflowing(f) = {p} /\ p \in DOMAIN policy /\ Over(p, f)
  BY DEF Overflowing
<1>2. Members(p, f) \in SUBSET DOMAIN f
  BY DEF Members
<1>3. BytesOf(f, Members(p, f)) \in Nat /\ Cardinality(Members(p, f)) \in Nat
  BY <1>2, BytesAreNat
<1>4. policy[p].maxEntries \in Nat /\ policy[p].maxBytes \in Nat
  BY <1>1, SharesAreNat
<1>5. NoLessOver(p, p, f)
  BY <1>3, <1>4 DEF NoLessOver, ExcessEntries, SaturatingSub
<1>6. \E x \in {p} : \A q \in {p} : NoLessOver(x, q, f)
  BY <1>5
<1>7. Furthest(f) \in {p}
  BY <1>1, <1>6 DEF Furthest
<1>8. Members(p, f) # {}
  <2>1. ASSUME Members(p, f) = {} PROVE FALSE
    BY <1>1, <1>4, <2>1, NothingWeighsNothing DEF Over
  <2> QED
    BY <2>1
<1> QED
  BY <1>1, <1>7, <1>8

(***************************************************************************)
(* What a store gives up.                                                  *)

LEMMA RestrictedIs ==
  ASSUME NEW f, Facts(f), NEW T \in SUBSET DOMAIN f
  PROVE  /\ Facts(Restricted(f, T)) /\ DOMAIN Restricted(f, T) = T
         /\ \A k \in T : Restricted(f, T)[k] = f[k]
         /\ \A p : Members(p, Restricted(f, T)) = Members(p, f) \cap T
<1>1. DOMAIN Restricted(f, T) = T /\ \A k \in T : Restricted(f, T)[k] = f[k]
  BY DEF Restricted
<1>2. IsFiniteSet(T)
  BY BytesAreNat
<1>3. Facts(Restricted(f, T))
  BY <1>1, <1>2 DEF Facts
<1>4. \A p : Members(p, Restricted(f, T)) = Members(p, f) \cap T
  BY <1>1 DEF Members
<1> QED
  BY <1>1, <1>3, <1>4

\* A store gives up entries of its own partition alone, none that was served unless
\* those served are over their share, and stops within every bound.
LEMMA StoreGivesUp ==
  ASSUME LawfulPolicy, NEW g, NEW f, Facts(g), Facts(f), NEW k \in DOMAIN f,
         f[k].hits = 0, DOMAIN f = DOMAIN g \cup {k},
         \A j \in DOMAIN f \ {k} : f[j] = g[j],
         Overflowing(g) = {}
  PROVE  /\ Remaining(f) \in SUBSET DOMAIN f
         /\ Overflowing(Restricted(f, Remaining(f))) = {}
         /\ \A j \in DOMAIN f \ Remaining(f) :
               /\ PartitionOf(j) = PartitionOf(k)
               /\ policy[PartitionOf(k)].kind = "scan-resistant" /\ f[j].hits > 0
                    => ProtectedOver(PartitionOf(k), g, Members(PartitionOf(k), g))
<1> DEFINE p == PartitionOf(k)
           Fair(j) == /\ PartitionOf(j) = p
                      /\ policy[p].kind = "scan-resistant" /\ f[j].hits > 0
                           => ProtectedOver(p, g, Members(p, g))
           I == {T \in SUBSET DOMAIN f : \A j \in DOMAIN f \ T : Fair(j)}
<1>1. p \in DOMAIN policy
  BY PartitionIsOne
<1>2. IsFiniteSet(DOMAIN f) /\ I \in SUBSET (SUBSET DOMAIN f) /\ DOMAIN f \in I
  BY DEF Facts
<1>3. ASSUME NEW T \in I, Overflowing(Restricted(f, T)) # {}
      PROVE  Rid(f, T) \in I /\ Rid(f, T) # T
  <2> DEFINE now == Restricted(f, T)
             M == Members(p, now)
             v == Victim(p, now, M)
  <2>1. T \in SUBSET DOMAIN f
    OBVIOUS
  <2>2. /\ Facts(now) /\ DOMAIN now = T
        /\ \A j \in T : now[j] = f[j]
        /\ \A q : Members(q, now) = Members(q, f) \cap T
    BY <2>1, RestrictedIs
  <2> HIDE DEF now, I, Fair
  \* No other partition is over its bound, and none is when the new entry has gone.
  <2>3. ASSUME NEW q \in DOMAIN policy, q # p \/ k \notin T PROVE ~Over(q, now)
    <3>1. Members(q, now) \subseteq DOMAIN g \ {k}
      BY <2>1, <2>2, <2>3 DEF Members, p
    <3>2. Members(q, now) \subseteq Members(q, g)
      BY <2>2, <3>1 DEF Members
    <3>3. \A j \in Members(q, now) : now[j].bytes = g[j].bytes
      BY <2>1, <2>2, <3>1
    <3>4. ~Over(q, g)
      BY DEF Overflowing
    <3> QED
      BY <2>2, <3>2, <3>3, <3>4, FewerAreNoMoreOver
  <2>4. Overflowing(now) \subseteq {p} /\ k \in T
    <3>1. Overflowing(now) \subseteq {p}
      BY <2>3 DEF Overflowing
    <3>2. k \in T
      BY <1>3, <2>3 DEF Overflowing, now
    <3> QED
      BY <3>1, <3>2
  <2>5. Furthest(now) = p /\ M # {}
    <3>1. Overflowing(now) # {}
      BY <1>3 DEF now
    <3> QED
      BY <2>2, <2>4, <3>1, OneIsFurthest
  <2>6. Rid(f, T) = T \ {v}
    BY <2>5 DEF Rid, now
  <2>7. M \in SUBSET DOMAIN now /\ k \in M
    BY <2>2, <2>4 DEF Members, p
  <2>8. /\ v \in M
        /\ policy[p].kind = "scan-resistant" /\ now[v].hits > 0
             => M \ Protected(now, M) = {} \/ ProtectedOver(p, now, M)
    BY <1>1, <2>2, <2>5, <2>7, VictimIsOne
  <2>9. k \in M \ Protected(now, M)
    BY <2>2, <2>4, <2>7 DEF Protected
  <2>10. v \in T /\ PartitionOf(v) = p /\ now[v] = f[v]
    BY <2>2, <2>8 DEF Members
  <2>11. ASSUME ProtectedOver(p, now, M) PROVE ProtectedOver(p, g, Members(p, g))
    <3>1. Protected(now, M) \subseteq DOMAIN g \ {k}
      BY <2>1, <2>2, <2>9 DEF Protected, Members
    <3>2. \A j \in Protected(now, M) : j \in T /\ now[j] = g[j]
      BY <2>1, <2>2, <2>7, <3>1 DEF Protected
    <3>3. Protected(now, M) \subseteq Protected(g, Members(p, g))
      BY <3>1, <3>2 DEF Protected, Members
    <3>4. Members(p, g) \in SUBSET DOMAIN g
      BY DEF Members
    <3> HIDE DEF M
    <3>5. \A j \in Protected(now, M) : now[j].bytes = g[j].bytes
      BY <3>2
    <3> QED
      BY <1>1, <2>2, <2>7, <2>11, <3>3, <3>4, <3>5, FewerServedAreNoMoreOver
  <2>12. Fair(v)
    BY <2>8, <2>9, <2>10, <2>11 DEF Fair
  <2>13. \A j \in DOMAIN f \ T : Fair(j)
    BY DEF I
  <2>14. T \ {v} \in I
    BY <2>1, <2>12, <2>13 DEF I
  <2> QED
    BY <2>6, <2>10, <2>14
<1> HIDE DEF I
<1>4. Remaining(f) \in I /\ Overflowing(Restricted(f, Remaining(f))) = {}
  BY <1>2, <1>3, RemainingIs
<1> QED
  BY <1>4 DEF I

(***************************************************************************)
(* The sketch.                                                             *)

Parts == DOMAIN table.parts \cup {Rest}
Counts == 0 .. CountMax
Counters == [counters : [Cells -> Counts], additions : Nat]
\* No counter of a request is below what the request was wanted.
CoveredBy(w, s) == \A q \in RequestsCounted : \A c \in CellsOf[q] : w[q] <= s.counters[c]
SketchInv ==
  /\ sketch \in [Parts -> Counters] /\ wanted \in [Parts -> [RequestsCounted -> Counts]]
  /\ \A p \in Parts : CoveredBy(wanted[p], sketch[p])

LEMMA CountsGrow ==
  ASSUME PolicyAssumption, NEW m \in Counts, NEW n \in Counts, m <= n
  PROVE  /\ OneMore(m) \in Counts /\ OneMore(m) <= OneMore(n) /\ m <= OneMore(n)
         /\ m \div 2 \in Counts /\ m \div 2 <= n \div 2
BY DEF PolicyAssumption, Counts, OneMore

\* One more computation is counted at every counter of its request, and a halving
\* halves both.
LEMMA IncrementCovers ==
  ASSUME PolicyAssumption, NEW w \in [RequestsCounted -> Counts], NEW s \in Counters, CoveredBy(w, s),
         NEW q \in RequestsCounted, NEW counted, counted = [w EXCEPT ![q] = OneMore(@)]
  PROVE  /\ Incremented(s, q) \in Counters
         /\ (IF Due(s) THEN Halve(counted) ELSE counted) \in [RequestsCounted -> Counts]
         /\ CoveredBy(IF Due(s) THEN Halve(counted) ELSE counted, Incremented(s, q))
<1> DEFINE b == Bump(s.counters, q)
<1>1. s.counters \in [Cells -> Counts] /\ s.additions \in Nat
  BY DEF Counters
<1>2. \A r \in RequestsCounted : CellsOf[r] \subseteq Cells
  BY DEF Cells
<1>3. /\ b \in [Cells -> Counts]
      /\ \A c \in Cells : b[c] = IF c \in CellsOf[q] THEN OneMore(s.counters[c]) ELSE s.counters[c]
  <2>1. \A c \in Cells : b[c] = IF c \in CellsOf[q] THEN OneMore(s.counters[c]) ELSE s.counters[c]
    BY DEF Bump
  <2>2. \A c \in Cells : s.counters[c] \in Counts
    BY <1>1
  <2>3. \A c \in Cells : OneMore(s.counters[c]) \in Counts
    <3> SUFFICES ASSUME NEW c \in Cells PROVE OneMore(s.counters[c]) \in Counts
      OBVIOUS
    <3>1. s.counters[c] \in Counts /\ s.counters[c] <= s.counters[c]
      BY <2>2 DEF Counts
    <3> QED
      BY <3>1, CountsGrow
  <2>4. b = [c \in Cells |-> b[c]]
    BY DEF Bump
  <2> HIDE DEF b
  <2>5. \A c \in Cells : b[c] \in Counts
    BY <2>1, <2>2, <2>3
  <2> QED
    BY <2>1, <2>4, <2>5
<1>4. /\ counted \in [RequestsCounted -> Counts]
      /\ \A r \in RequestsCounted : counted[r] = IF r = q THEN OneMore(w[q]) ELSE w[r]
  <2>1. w[q] \in Counts /\ w[q] <= w[q]
    BY DEF Counts
  <2>2. OneMore(w[q]) \in Counts
    BY <2>1, CountsGrow
  <2> QED
    BY <2>2
<1> HIDE DEF b
<1>5. \A r \in RequestsCounted : \A c \in CellsOf[r] : counted[r] <= b[c]
  <2> SUFFICES ASSUME NEW r \in RequestsCounted, NEW c \in CellsOf[r] PROVE counted[r] <= b[c]
    OBVIOUS
  <2>1. c \in Cells /\ w[r] \in Counts /\ s.counters[c] \in Counts /\ w[r] <= s.counters[c]
    BY <1>1, <1>2 DEF CoveredBy
  <2>2. OneMore(w[r]) <= OneMore(s.counters[c]) /\ w[r] <= OneMore(s.counters[c])
    BY <2>1, CountsGrow
  <2>3. r = q => c \in CellsOf[q]
    OBVIOUS
  <2> QED
    BY <1>3, <1>4, <2>1, <2>2, <2>3
<1>6. CASE ~Due(s)
  <2>1. Incremented(s, q) = [counters |-> b, additions |-> s.additions + 1]
    BY <1>6 DEF Incremented, b
  <2> QED
    BY <1>1, <1>3, <1>4, <1>5, <1>6, <2>1 DEF Counters, CoveredBy
<1>7. CASE Due(s)
  <2> DEFINE hb == Halve(b)
             hc == Halve(counted)
  <2>1. Incremented(s, q) = [counters |-> hb, additions |-> 0]
    BY <1>7 DEF Incremented, b
  <2>2. /\ hb \in [Cells -> Counts] /\ \A c \in Cells : hb[c] = b[c] \div 2
    <3>1. hb = [c \in Cells |-> b[c] \div 2]
      BY <1>3 DEF Halve
    <3>2. \A c \in Cells : b[c] \div 2 \in Counts
      <4> SUFFICES ASSUME NEW c \in Cells PROVE b[c] \div 2 \in Counts
        OBVIOUS
      <4>1. b[c] \in Counts /\ b[c] <= b[c]
        BY <1>3 DEF Counts
      <4> QED
        BY <4>1, CountsGrow
    <3> QED
      BY <3>1, <3>2
  <2>3. /\ hc \in [RequestsCounted -> Counts] /\ \A r \in RequestsCounted : hc[r] = counted[r] \div 2
    <3>1. hc = [r \in RequestsCounted |-> counted[r] \div 2]
      BY <1>4 DEF Halve
    <3>2. \A r \in RequestsCounted : counted[r] \div 2 \in Counts
      <4> SUFFICES ASSUME NEW r \in RequestsCounted PROVE counted[r] \div 2 \in Counts
        OBVIOUS
      <4>1. counted[r] \in Counts /\ counted[r] <= counted[r]
        BY <1>4 DEF Counts
      <4> QED
        BY <4>1, CountsGrow
    <3> QED
      BY <3>1, <3>2
  <2>4. \A r \in RequestsCounted : \A c \in CellsOf[r] : hc[r] <= hb[c]
    <3> SUFFICES ASSUME NEW r \in RequestsCounted, NEW c \in CellsOf[r] PROVE hc[r] <= hb[c]
      OBVIOUS
    <3>1. c \in Cells /\ counted[r] \in Counts /\ b[c] \in Counts /\ counted[r] <= b[c]
      BY <1>2, <1>3, <1>4, <1>5
    <3>2. counted[r] \div 2 <= b[c] \div 2
      BY <3>1, CountsGrow
    <3> QED
      BY <2>2, <2>3, <3>1, <3>2
  <2> HIDE DEF hb, hc
  <2>5. Incremented(s, q) \in Counters /\ CoveredBy(hc, Incremented(s, q))
    BY <2>1, <2>2, <2>4 DEF Counters, CoveredBy
  <2> QED
    BY <1>7, <2>3, <2>5 DEF hc
<1> QED
  BY <1>6, <1>7

\* The estimate of a request is the least of its counters.
LEMMA EstimateCovers ==
  ASSUME PolicyAssumption, NEW s \in Counters, NEW w \in [RequestsCounted -> Counts],
         CoveredBy(w, s), NEW q \in RequestsCounted
  PROVE  Estimate(s, q) >= w[q]
<1> DEFINE T == {s.counters[c] : c \in CellsOf[q]}
<1>1. CellsOf[q] # {} /\ CellsOf[q] \subseteq Cells
  BY DEF PolicyAssumption, RequestsCounted, Cells
<1>2. \A c \in CellsOf[q] : s.counters[c] \in Nat /\ s.counters[c] \in Counts
  BY <1>1 DEF Counters, Counts
<1>3. T \in SUBSET Nat /\ T # {}
  BY <1>1, <1>2
<1>4. \E n \in T : \A m \in T : n <= m
  BY <1>3, LeastOf
<1>5. \E n \in T : \A c \in CellsOf[q] : n <= s.counters[c]
  BY <1>4
<1>6. Estimate(s, q) \in T
  BY <1>5 DEF Estimate
<1> QED
  BY <1>2, <1>6 DEF CoveredBy, Counts

(***************************************************************************)
(* The invariant: what a theorem about the bound of the cache rests on.    *)

PolicyInv ==
  /\ table \in Tables /\ policy = ToPolicy(table)
  /\ tick \in Nat
  /\ Facts(resident) /\ DOMAIN resident \subseteq Keys
  /\ \A k \in DOMAIN resident : resident[k].used <= tick
  /\ Overflowing(resident) = {}
  /\ bytes = BytesOf(resident, DOMAIN resident)
  /\ SketchInv

LEMMA PolicyIsLawful ==
  ASSUME PolicyAssumption, PolicyInv, policy # NoPolicy
  PROVE  LawfulPolicy /\ DOMAIN policy = Parts
<1>1. TableOf(table) /\ ToPolicy(table) # NoPolicy
  BY DEF PolicyAssumption, PolicyInv
<1>2. DOMAIN policy = Parts /\ policy \in [Parts -> PlainPolicy]
  BY <1>1, PolicyIs DEF PolicyInv, Parts
<1>3. IsFiniteSet(Parts) /\ Rest \in Parts /\ \A p \in Parts \ {Rest} : PrefixLength[p] \in Nat
  <2>1. IsFiniteSet(DOMAIN table.parts)
    BY <1>1 DEF TableOf
  <2>2. IsFiniteSet(DOMAIN table.parts \cup {Rest})
    BY <2>1, FS_AddElement
  <2> QED
    BY <1>1, <2>2 DEF Parts, TableOf
<1> QED
  BY <1>2, <1>3 DEF LawfulPolicy

LEMMA PolicyStart == PolicyAssumption /\ PolicyInit => PolicyInv
<1> SUFFICES ASSUME PolicyAssumption, PolicyInit PROVE PolicyInv
  OBVIOUS
<1>1. table \in Tables /\ policy = ToPolicy(table) /\ tick \in Nat /\ DOMAIN resident = {}
  BY DEF PolicyInit
<1>2. Facts(resident)
  BY <1>1, FS_EmptySet DEF Facts
<1>3. bytes = BytesOf(resident, DOMAIN resident)
  BY <1>1, NothingWeighsNothing DEF PolicyInit
<1>4. Overflowing(resident) = {}
  <2>1. CASE policy = NoPolicy
    BY <2>1 DEF Overflowing, NoPolicy
  <2>2. CASE policy # NoPolicy
    <3>1. TableOf(table) /\ ToPolicy(table) # NoPolicy
      BY <1>1, <2>2 DEF PolicyAssumption
    <3>2. policy \in [DOMAIN policy -> PlainPolicy]
      BY <1>1, <3>1, PolicyIs
    <3>3. \A p \in DOMAIN policy : policy[p].maxEntries \in Nat /\ policy[p].maxBytes \in Nat
      BY <3>2 DEF PlainPolicy
    <3>4. \A p : Members(p, resident) = {}
      BY <1>1 DEF Members
    <3> QED
      BY <3>3, <3>4, NothingWeighsNothing DEF Overflowing, Over
  <2> QED
    BY <2>1, <2>2
<1>5. SketchInv
  <2>1. CountMax \in Nat
    BY DEF PolicyAssumption
  <2>2. /\ sketch = [p \in Parts |-> [counters |-> [c \in Cells |-> 0], additions |-> 0]]
        /\ wanted = [p \in Parts |-> [q \in RequestsCounted |-> 0]]
    BY DEF PolicyInit, Parts
  <2>3. 0 \in Counts
    BY <2>1 DEF Counts
  <2>4. \A q \in RequestsCounted : CellsOf[q] \subseteq Cells
    BY DEF Cells
  <2> QED
    BY <2>2, <2>3, <2>4 DEF SketchInv, Counters, CoveredBy
<1> QED
  BY <1>1, <1>2, <1>3, <1>4, <1>5 DEF PolicyInv

\* What a store leaves.
LEMMA StoreKeeps ==
  ASSUME PolicyAssumption, PolicyInv, NEW k \in Keys, NEW size \in Sizes, NEW cost \in Costs,
         Store(k, size, cost)
  PROVE  PolicyInv' /\ GivesUpIn(k)
<1> DEFINE p == PartitionOf(k)
           q == RequestOf[k]
           D == DOMAIN resident \cup {k}
           with == [j \in D |-> IF j = k THEN Slot(size, cost) ELSE resident[j]]
           L == Remaining(with)
           counted == [wanted[p] EXCEPT ![q] = OneMore(@)]
<1>1. LawfulPolicy /\ DOMAIN policy = Parts /\ p \in DOMAIN policy
  BY PolicyIsLawful, PartitionIsOne DEF Store, Playing
<1>2. /\ table' = table /\ policy' = policy /\ tick' = tick + 1
      /\ tick \in Nat /\ Facts(resident) /\ DOMAIN resident \subseteq Keys
      /\ Overflowing(resident) = {}
      /\ bytes = BytesOf(resident, DOMAIN resident)
  BY DEF Store, PolicyInv
<1>3. SketchInv'
  <2>1. /\ q \in RequestsCounted /\ p \in Parts /\ table' = table
        /\ sketch \in [Parts -> Counters] /\ wanted \in [Parts -> [RequestsCounted -> Counts]]
        /\ \A r \in Parts : CoveredBy(wanted[r], sketch[r])
    BY <1>1, <1>2 DEF RequestsCounted, PolicyInv, SketchInv
  <2>2. CASE policy[p].kind = "scan-resistant"
    <3> DEFINE s == Incremented(sketch[p], q)
               w == IF Due(sketch[p]) THEN Halve(counted) ELSE counted
    <3>1. s \in Counters /\ w \in [RequestsCounted -> Counts] /\ CoveredBy(w, s)
      <4>1. /\ sketch[p] \in Counters /\ wanted[p] \in [RequestsCounted -> Counts]
            /\ CoveredBy(wanted[p], sketch[p])
        BY <2>1
      <4>2. q \in RequestsCounted /\ counted = [wanted[p] EXCEPT ![q] = OneMore(@)]
        BY <2>1
      <4> HIDE DEF counted, p, q
      <4> QED
        BY <4>1, <4>2, IncrementCovers
    <3>2. sketch' = [sketch EXCEPT ![p] = s] /\ wanted' = [wanted EXCEPT ![p] = w]
      BY <2>2 DEF Store
    <3> HIDE DEF s, w, p
    <3> QED
      BY <2>1, <3>1, <3>2 DEF SketchInv, Parts
  <2>3. CASE policy[p].kind # "scan-resistant"
    BY <2>1, <2>3 DEF Store, SketchInv, Parts
  <2> QED
    BY <2>2, <2>3
<1>4. CASE UNCHANGED <<resident, bytes>>
  <2>1. PolicyInv'
    <3>1. Overflowing(resident)' = Overflowing(resident)
      BY <1>2, <1>4 DEF Overflowing, Over, Members, PartitionOf
    <3>2. /\ table' \in Tables /\ policy' = ToPolicy(table') /\ tick' \in Nat
          /\ Facts(resident)' /\ DOMAIN resident' \subseteq Keys
          /\ bytes' = BytesOf(resident', DOMAIN resident')
      BY <1>2, <1>4 DEF PolicyInv, Facts
    <3>3. ASSUME NEW j \in DOMAIN resident PROVE resident[j].used <= tick'
      <4>1. resident[j].used \in Nat /\ resident[j].used <= tick
        BY DEF PolicyInv, Facts, Entry
      <4> QED
        BY <1>2, <4>1
    <3> QED
      BY <1>2, <1>3, <1>4, <3>1, <3>2, <3>3 DEF PolicyInv
  <2>2. GivesUpIn(k)
    BY <1>4 DEF GivesUpIn, LeftAlone, GivenUp
  <2> QED
    BY <2>1, <2>2
<1>5. CASE /\ resident' = Restricted(with, L)
           /\ bytes' = SaturatingSub(Replaced(k, size), BytesOf(with, DOMAIN with \ L))
  <2>1. /\ DOMAIN with = D
        /\ with[k] = [bytes |-> size, cost |-> cost, hits |-> 0, stored |-> tick + 1, used |-> tick + 1]
        /\ \A j \in D \ {k} : with[j] = resident[j] /\ j \in DOMAIN resident
    BY DEF Slot
  <2>2. size \in Nat /\ cost \in Nat \cup {Unset}
    BY DEF PolicyAssumption
  <2>3. Facts(with)
    <3>1. IsFiniteSet(D)
      BY <1>2, FS_AddElement DEF Facts
    <3>2. \A j \in D : with[j] \in Entry /\ with[j].stored <= with[j].used
      BY <1>2, <2>1, <2>2 DEF Facts, Entry
    <3> HIDE DEF with
    <3> QED
      BY <2>1, <3>1, <3>2 DEF Facts
  <2> HIDE DEF with, D
  <2>4. D = DOMAIN resident \cup {k}
    BY DEF D
  <2>5. /\ L \in SUBSET DOMAIN with
        /\ Overflowing(Restricted(with, L)) = {}
        /\ \A j \in DOMAIN with \ L :
              /\ PartitionOf(j) = p
              /\ policy[p].kind = "scan-resistant" /\ with[j].hits > 0
                   => ProtectedOver(p, resident, Members(p, resident))
    <3>1. k \in DOMAIN with /\ with[k].hits = 0 /\ DOMAIN with = DOMAIN resident \cup {k}
          /\ \A j \in DOMAIN with \ {k} : with[j] = resident[j]
      BY <2>1, <2>4
    <3> QED
      BY <1>1, <1>2, <2>3, <3>1, StoreGivesUp
  <2>6. /\ Facts(resident') /\ DOMAIN resident' = L
        /\ \A j \in L : resident'[j] = with[j]
    BY <1>5, <2>3, <2>5, RestrictedIs
  \* The new answer's bytes are in the place of those it replaces.
  <2>7. Replaced(k, size) = BytesOf(with, D)
    <3> DEFINE O == DOMAIN resident \ {k}
               old == IF k \in DOMAIN resident THEN resident[k].bytes ELSE 0
    <3>1. O \in SUBSET DOMAIN resident /\ O = D \ {k} /\ {k} \in SUBSET D
      BY <2>4
    <3>2. BytesOf(with, D) = BytesOf(with, {k}) + BytesOf(with, O)
      BY <2>1, <2>3, <3>1, BytesOfParts
    <3>3. BytesOf(with, {k}) = size
      BY <2>1, <2>3, <2>4, BytesOfOne
    <3>4. BytesOf(with, O) = BytesOf(resident, O)
      BY <2>1, <3>1, BytesAgree
    <3>5. BytesOf(resident, O) \in Nat
      BY <1>2, <3>1, BytesAreNat
    <3>6. bytes = old + BytesOf(resident, O) /\ old \in Nat
      <4>1. CASE k \in DOMAIN resident
        <5>1. BytesOf(resident, DOMAIN resident) = BytesOf(resident, {k}) + BytesOf(resident, O)
          BY <1>2, <4>1, BytesOfParts
        <5>2. BytesOf(resident, {k}) = resident[k].bytes /\ resident[k].bytes \in Nat
          BY <1>2, <4>1, BytesOfOne DEF Facts, Entry
        <5> QED
          BY <1>2, <4>1, <5>1, <5>2
      <4>2. CASE k \notin DOMAIN resident
        <5>1. O = DOMAIN resident
          BY <4>2
        <5> HIDE DEF O
        <5> QED
          BY <1>2, <3>5, <4>2, <5>1
      <4> QED
        BY <4>1, <4>2
    <3>7. Replaced(k, size) = SaturatingSub(bytes, old) + size
      BY DEF Replaced
    <3> HIDE DEF old, O
    <3> QED
      BY <2>2, <3>2, <3>3, <3>4, <3>5, <3>6, <3>7 DEF SaturatingSub
  <2>8. bytes' = BytesOf(resident', DOMAIN resident')
    <3>1. /\ BytesOf(with, D) = BytesOf(with, L) + BytesOf(with, D \ L)
          /\ BytesOf(with, L) \in Nat /\ BytesOf(with, D \ L) \in Nat
      <4>1. D \ L \in SUBSET DOMAIN with
        BY <2>1
      <4> QED
        BY <2>1, <2>3, <2>5, <4>1, BytesOfParts, BytesAreNat
    <3>2. BytesOf(resident', L) = BytesOf(with, L)
      BY <2>6, BytesAgree
    <3>3. bytes' = SaturatingSub(BytesOf(with, D), BytesOf(with, D \ L))
      BY <1>5, <2>1, <2>7
    <3> QED
      BY <2>6, <3>1, <3>2, <3>3 DEF SaturatingSub
  <2>9. \A j \in L : j \in Keys /\ resident'[j].used <= tick'
    <3> SUFFICES ASSUME NEW j \in L PROVE j \in Keys /\ resident'[j].used <= tick'
      OBVIOUS
    <3>1. j \in D /\ resident'[j] = with[j]
      BY <2>1, <2>5, <2>6
    <3>2. CASE j = k
      BY <1>2, <2>1, <3>1, <3>2
    <3>3. CASE j # k
      <4>1. j \in DOMAIN resident /\ with[j] = resident[j]
        BY <2>1, <3>1, <3>3
      <4>2. resident[j].used \in Nat /\ resident[j].used <= tick
        BY <4>1 DEF PolicyInv, Facts, Entry
      <4> QED
        BY <1>2, <3>1, <4>1, <4>2
    <3> QED
      BY <3>2, <3>3
  <2>10. Overflowing(resident)' = {}
    <3>1. Overflowing(resident)' = Overflowing(Restricted(with, L))
      BY <1>2, <1>5 DEF Overflowing, Over, Members, PartitionOf
    <3> QED
      BY <2>5, <3>1
  <2>11. PolicyInv'
    <3>1. table' \in Tables /\ policy' = ToPolicy(table') /\ tick' \in Nat
      BY <1>2 DEF PolicyInv
    <3>2. Facts(resident)' /\ (DOMAIN resident \subseteq Keys)'
          /\ (\A j \in DOMAIN resident : resident[j].used <= tick)'
      BY <2>6, <2>9 DEF Facts
    <3> QED
      BY <1>3, <2>8, <2>10, <3>1, <3>2 DEF PolicyInv
  <2>12. \A j \in DOMAIN resident' \ {k} : LeftAlone(j)
    <3> SUFFICES ASSUME NEW j \in DOMAIN resident' \ {k} PROVE LeftAlone(j)
      OBVIOUS
    <3>1. j \in L /\ j \in D \ {k}
      BY <2>1, <2>5, <2>6
    <3>2. resident'[j] = resident[j] /\ j \in DOMAIN resident /\ j \in DOMAIN resident'
      BY <2>1, <2>6, <3>1
    <3> QED
      BY <3>2 DEF LeftAlone
  <2>13. \A j \in GivenUp \ {k} :
            /\ PartitionOf(j) = p
            /\ policy[p].kind = "scan-resistant" /\ resident[j].hits > 0
                 => ProtectedOver(p, resident, Members(p, resident))
    <3> SUFFICES ASSUME NEW j \in GivenUp \ {k}
                 PROVE  /\ PartitionOf(j) = p
                        /\ policy[p].kind = "scan-resistant" /\ resident[j].hits > 0
                             => ProtectedOver(p, resident, Members(p, resident))
      OBVIOUS
    <3>1. j \in D \ {k} /\ j \notin L
      BY <2>4, <2>6 DEF GivenUp
    <3>2. j \in DOMAIN with \ L /\ with[j] = resident[j]
      BY <2>1, <3>1
    <3> HIDE DEF p
    <3> QED
      BY <2>5, <3>2
  <2>14. GivesUpIn(k)
    BY <2>12, <2>13 DEF GivesUpIn
  <2> QED
    BY <2>11, <2>14
<1> QED
  BY <1>4, <1>5 DEF Store

LEMMA ServeKeeps ==
  ASSUME PolicyAssumption, PolicyInv, NEW k \in Keys, Serve(k)
  PROVE  PolicyInv' /\ GivesUpIn(k)
<1> DEFINE e == [resident[k] EXCEPT !.hits = @ + 1, !.used = tick + 1]
<1>1. LawfulPolicy
  BY PolicyIsLawful DEF Serve, Playing
<1>2. /\ k \in DOMAIN resident /\ tick' = tick + 1 /\ bytes' = bytes
      /\ table' = table /\ policy' = policy /\ sketch' = sketch /\ wanted' = wanted
      /\ tick \in Nat /\ Facts(resident) /\ DOMAIN resident \subseteq Keys
      /\ Overflowing(resident) = {}
  BY DEF Serve, PolicyInv
<1>3. /\ DOMAIN resident' = DOMAIN resident /\ resident'[k] = e
      /\ \A j \in DOMAIN resident \ {k} : resident'[j] = resident[j]
  BY <1>2 DEF Serve
<1>4. /\ e \in Entry /\ e.bytes = resident[k].bytes /\ e.stored = resident[k].stored
      /\ e.used = tick + 1 /\ e.stored <= e.used
  <2>1. /\ resident[k] \in Entry /\ resident[k].stored <= resident[k].used
        /\ resident[k].used <= tick
    BY <1>2 DEF PolicyInv, Facts
  <2>2. \A r : r \in Entry => /\ [r EXCEPT !.hits = @ + 1] \in Entry
                             /\ [r EXCEPT !.hits = @ + 1].bytes = r.bytes
                             /\ [r EXCEPT !.hits = @ + 1].stored = r.stored
    BY DEF Entry
  <2>3. \A r, n : r \in Entry /\ n \in Nat => /\ [r EXCEPT !.used = n] \in Entry
                                              /\ [r EXCEPT !.used = n].used = n
                                              /\ [r EXCEPT !.used = n].bytes = r.bytes
                                              /\ [r EXCEPT !.used = n].stored = r.stored
    BY DEF Entry
  <2> DEFINE served == [resident[k] EXCEPT !.hits = @ + 1]
  <2>4. e = [served EXCEPT !.used = tick + 1]
    OBVIOUS
  <2>5. served \in Entry /\ served.bytes = resident[k].bytes /\ served.stored = resident[k].stored
    BY <2>1, <2>2
  <2>6. tick + 1 \in Nat /\ resident[k].stored \in Nat /\ resident[k].used \in Nat
    BY <1>2, <2>1 DEF Entry
  <2> HIDE DEF e, served
  <2> QED
    BY <1>2, <2>1, <2>3, <2>4, <2>5, <2>6
<1> HIDE DEF e
<1>5. \A j \in DOMAIN resident : /\ resident'[j] \in Entry /\ resident'[j].stored <= resident'[j].used
                                 /\ resident'[j].used <= tick'
                                 /\ resident'[j].bytes = resident[j].bytes
                                 /\ resident'[j].stored = resident[j].stored
  <2> SUFFICES ASSUME NEW j \in DOMAIN resident
               PROVE  /\ resident'[j] \in Entry /\ resident'[j].stored <= resident'[j].used
                      /\ resident'[j].used <= tick'
                      /\ resident'[j].bytes = resident[j].bytes
                      /\ resident'[j].stored = resident[j].stored
    OBVIOUS
  <2>1. CASE j = k
    BY <1>2, <1>3, <1>4, <2>1
  <2>2. CASE j # k
    <3>1. /\ resident[j] \in Entry /\ resident[j].stored <= resident[j].used
          /\ resident[j].used <= tick /\ resident[j].used \in Nat
      BY DEF PolicyInv, Facts, Entry
    <3> QED
      BY <1>2, <1>3, <2>2, <3>1
  <2> QED
    BY <2>1, <2>2
<1>6. Facts(resident')
  BY <1>2, <1>3, <1>5 DEF Facts
<1>7. bytes' = BytesOf(resident', DOMAIN resident')
  BY <1>2, <1>3, <1>5, BytesAgree DEF PolicyInv
<1>8. Overflowing(resident)' = {}
  <2>1. ASSUME NEW p \in DOMAIN policy PROVE ~Over(p, resident')
    <3>1. Members(p, resident') = Members(p, resident)
      BY <1>3 DEF Members
    <3>2. \A j \in Members(p, resident') : resident'[j].bytes = resident[j].bytes
      BY <1>3, <1>5 DEF Members
    <3>3. ~Over(p, resident)
      BY <1>2 DEF Overflowing
    <3> QED
      BY <1>1, <1>2, <1>6, <3>1, <3>2, <3>3, FewerAreNoMoreOver
  <2>2. Overflowing(resident)' = Overflowing(resident')
    BY <1>2 DEF Overflowing, Over, Members, PartitionOf
  <2>3. Overflowing(resident') = {}
    BY <2>1 DEF Overflowing
  <2> QED
    BY <2>2, <2>3
<1>9. SketchInv'
  BY <1>2 DEF PolicyInv, SketchInv, Parts
<1>10. PolicyInv'
  <2>1. table' \in Tables /\ policy' = ToPolicy(table') /\ tick' \in Nat
    BY <1>2 DEF PolicyInv
  <2>2. Facts(resident)' /\ DOMAIN resident' \subseteq Keys
    BY <1>2, <1>3, <1>6 DEF Facts
  <2> QED
    BY <1>3, <1>5, <1>7, <1>8, <1>9, <2>1, <2>2 DEF PolicyInv
<1>11. GivesUpIn(k)
  BY <1>3, <1>5 DEF GivesUpIn, GivenUp, LeftAlone
<1> QED
  BY <1>10, <1>11

LEMMA RemoveKeeps ==
  ASSUME PolicyAssumption, PolicyInv, NEW k \in Keys, Remove(k)
  PROVE  PolicyInv' /\ tick' = tick
<1> DEFINE O == DOMAIN resident \ {k}
<1>1. LawfulPolicy
  BY PolicyIsLawful DEF Remove, Playing
<1>2. /\ k \in DOMAIN resident /\ tick' = tick
      /\ table' = table /\ policy' = policy /\ sketch' = sketch /\ wanted' = wanted
      /\ resident' = Restricted(resident, O)
      /\ bytes' = SaturatingSub(bytes, resident[k].bytes)
      /\ bytes = BytesOf(resident, DOMAIN resident)
      /\ tick \in Nat /\ Facts(resident) /\ DOMAIN resident \subseteq Keys
      /\ Overflowing(resident) = {}
  BY DEF Remove, PolicyInv
<1>3. O \in SUBSET DOMAIN resident
  OBVIOUS
<1>4. /\ Facts(resident') /\ DOMAIN resident' = O
      /\ \A j \in O : resident'[j] = resident[j]
      /\ \A p : Members(p, resident') = Members(p, resident) \cap O
  BY <1>2, <1>3, RestrictedIs
<1>5. bytes' = BytesOf(resident', DOMAIN resident')
  <2>1. BytesOf(resident, DOMAIN resident) = BytesOf(resident, {k}) + BytesOf(resident, O)
    BY <1>2, BytesOfParts
  <2>2. BytesOf(resident, {k}) = resident[k].bytes /\ resident[k].bytes \in Nat
    BY <1>2, BytesOfOne DEF Facts, Entry
  <2>3. BytesOf(resident', O) = BytesOf(resident, O)
    BY <1>4, BytesAgree
  <2>4. BytesOf(resident, O) \in Nat
    BY <1>2, <1>3, BytesAreNat
  <2> HIDE DEF O
  <2> QED
    BY <1>2, <1>4, <2>1, <2>2, <2>3, <2>4 DEF SaturatingSub
<1>6. Overflowing(resident)' = {}
  <2>1. ASSUME NEW p \in DOMAIN policy PROVE ~Over(p, resident')
    <3>1. Members(p, resident') \subseteq Members(p, resident)
      BY <1>4
    <3>2. \A j \in Members(p, resident') : resident'[j].bytes = resident[j].bytes
      BY <1>4
    <3>3. ~Over(p, resident)
      BY <1>2 DEF Overflowing
    <3> QED
      BY <1>1, <1>2, <1>4, <3>1, <3>2, <3>3, FewerAreNoMoreOver
  <2>2. Overflowing(resident)' = Overflowing(resident')
    BY <1>2 DEF Overflowing, Over, Members, PartitionOf
  <2>3. Overflowing(resident') = {}
    BY <2>1 DEF Overflowing
  <2> QED
    BY <2>2, <2>3
<1>7. SketchInv'
  BY <1>2 DEF PolicyInv, SketchInv, Parts
<1>8. PolicyInv'
  <2>1. table' \in Tables /\ policy' = ToPolicy(table') /\ tick' \in Nat
    BY <1>2 DEF PolicyInv
  <2>2. Facts(resident)' /\ DOMAIN resident' \subseteq Keys
        /\ \A j \in DOMAIN resident' : resident'[j].used <= tick'
    BY <1>2, <1>4 DEF Facts, PolicyInv
  <2> QED
    BY <1>5, <1>6, <1>7, <2>1, <2>2 DEF PolicyInv
<1> QED
  BY <1>2, <1>8

LEMMA PolicyStep ==
  ASSUME PolicyAssumption, PolicyInv, [PolicyNext]_policyVars
  PROVE  PolicyInv' /\ (tick' # tick => \E k \in Keys : GivesUpIn(k))
<1>1. CASE UNCHANGED policyVars
  <2>1. /\ table' = table /\ policy' = policy /\ resident' = resident /\ bytes' = bytes
        /\ tick' = tick /\ sketch' = sketch /\ wanted' = wanted
    BY <1>1 DEF policyVars
  <2>2. Overflowing(resident)' = Overflowing(resident)
    BY <2>1 DEF Overflowing, Over, Members, PartitionOf
  <2> QED
    BY <2>1, <2>2 DEF PolicyInv, Facts, SketchInv, Parts
<1>2. CASE PolicyNext
  <2>1. PICK k \in Keys : \/ \E size \in Sizes, cost \in Costs : Store(k, size, cost)
                          \/ Serve(k) \/ Remove(k)
    BY <1>2 DEF PolicyNext
  <2> QED
    BY <2>1, StoreKeeps, ServeKeeps, RemoveKeeps
<1> QED
  BY <1>1, <1>2

\* Whatever tables, keys, prefixes, sizes and sketches, a cache is within every bound
\* its table describes after each of its steps and its count of bytes is exact, the
\* partitions of a table add up to the whole, and the sketch never takes a request for
\* less wanted than it was (CacheConfig::to_policy, enforce_bound, the count-min sketch).
THEOREM CacheAlwaysBounded == PolicyAssumption => (PolicySpec => []CacheBounded)
<1> SUFFICES ASSUME PolicyAssumption PROVE PolicySpec => []CacheBounded
  OBVIOUS
<1>1. PolicyInit => PolicyInv
  BY PolicyStart
<1>2. PolicyInv /\ [PolicyNext]_policyVars => PolicyInv'
  BY PolicyStep
<1>3. PolicyInv => CacheBounded
  <2> SUFFICES ASSUME PolicyInv PROVE CacheBounded
    OBVIOUS
  <2>1. TablesAddUp
    <3> SUFFICES ASSUME policy # NoPolicy
                 PROVE  /\ \A p \in DOMAIN policy : policy[p].maxEntries > 0 /\ policy[p].maxBytes > 0
                        /\ table.maxEntries = Tally(DOMAIN policy, [p \in DOMAIN policy |-> policy[p].maxEntries])
                        /\ table.maxBytes = Tally(DOMAIN policy, [p \in DOMAIN policy |-> policy[p].maxBytes])
      BY DEF TablesAddUp
    <3>1. \A p \in DOMAIN policy : policy[p].maxEntries > 0 /\ policy[p].maxBytes > 0
      BY PolicyIsLawful, SharesAreNat
    <3>2. TableOf(table) /\ policy = ToPolicy(table)
      BY DEF PolicyInv, PolicyAssumption
    <3> QED
      BY <3>1, <3>2, PolicyIs
  <2>2. KeepsItsBounds
    BY DEF PolicyInv, KeepsItsBounds
  <2>3. NeverUndercounts
    <3>1. ASSUME NEW p \in Parts, NEW q \in RequestsCounted
          PROVE  Estimate(sketch[p], q) >= wanted[p][q]
      BY EstimateCovers DEF PolicyInv, SketchInv
    <3>2. DOMAIN sketch = Parts
      BY DEF PolicyInv, SketchInv
    <3> QED
      BY <3>1, <3>2 DEF NeverUndercounts
  <2> QED
    BY <2>1, <2>2, <2>3 DEF CacheBounded
<1> QED
  BY <1>1, <1>2, <1>3, PTL DEF PolicySpec

\* A store takes entries of its own partition alone, and of those that were served
\* only where the served are over their share; a read takes nothing (evict,
\* ScanResistant::victim, Partitioned::victim).
THEOREM EvictsOnlyWhatItMay == PolicyAssumption => (PolicySpec => EvictsWhatItMay)
<1> SUFFICES ASSUME PolicyAssumption PROVE PolicySpec => EvictsWhatItMay
  OBVIOUS
<1>1. PolicyInit => PolicyInv
  BY PolicyStart
<1>2. PolicyInv /\ [PolicyNext]_policyVars => PolicyInv'
  BY PolicyStep
<1>3. PolicyInv /\ [PolicyNext]_policyVars
        => [tick' # tick => \E k \in Keys : GivesUpIn(k)]_policyVars
  BY PolicyStep
<1> QED
  BY <1>1, <1>2, <1>3, PTL DEF PolicySpec, EvictsWhatItMay
===============================================================================
