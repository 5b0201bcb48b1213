------------------------------ MODULE NamesProofs ------------------------------
(***************************************************************************)
(* Names: how an event names what was cut, what is demanded and offered    *)
(* under a name, and what an alias table makes of one.  A part for each,   *)
(* in this order: NameTheFirst, Contracts, Aliases, Selection.             *)
(***************************************************************************)
EXTENDS NameTheFirst, Contracts, Aliases, Selection, TalliesProofs, SequenceTheorems, FiniteSetTheorems, TLAPS

(***************************************************************************)
(* How an event names what its cut invalidated, for any targets, any bound *)
(* on the names and entries in any order, repeated ones included.          *)
(*                                                                         *)
(* While there is room everything seen is kept, so a target is left out    *)
(* only where the names are all taken.  One comparison with the largest    *)
(* name is enough because everything left out is beyond all of them: a     *)
(* target that makes room has not been seen before, or it would be one.    *)
(***************************************************************************)
\* Every set of names has a largest one.
WellOrdered(T) == \A S \in SUBSET T : S # {} => \E m \in S : \A y \in S : y <= m

NamingInv ==
  /\ kept \subseteq Int /\ IsFiniteSet(kept) /\ WellOrdered(kept)
  /\ visited \in Seq(Targets) /\ more \in Nat
  /\ IsFiniteSet(Seen) /\ kept \subseteq Seen
  /\ Cardinality(kept) <= Named
  /\ Seen # kept => ~Room
  /\ \A x \in kept, y \in Seen \ kept : x < y
  /\ CountsTheRest

-----------------------------------------------------------------------------
LEMMA LargestIsKept ==
  ASSUME NEW T, T \subseteq Int, T # {}, WellOrdered(T)
  PROVE  Largest(T) \in T /\ \A y \in T : y <= Largest(T)
<1>1. \E x \in T : \A y \in T : y <= x
  BY DEF WellOrdered
<1> QED
  BY <1>1 DEF Largest

LEMMA OneMoreOrdered ==
  ASSUME NEW T, T \subseteq Int, WellOrdered(T), NEW x \in Int
  PROVE  WellOrdered(T \cup {x})
<1> SUFFICES ASSUME NEW S \in SUBSET (T \cup {x}), S # {}
             PROVE  \E m \in S : \A y \in S : y <= m
  BY DEF WellOrdered
<1>1. CASE S \ {x} = {}
  <2>1. x \in S /\ \A y \in S : y = x
    BY <1>1
  <2> QED
    BY <2>1
<1>2. CASE S \ {x} # {}
  <2>1. PICK m \in S \ {x} : \A y \in S \ {x} : y <= m
    BY <1>2 DEF WellOrdered
  <2>2. m \in Int /\ \A y \in S : y \in Int
    BY <2>1
  <2>3. CASE x \in S /\ m <= x
    BY <2>1, <2>2, <2>3
  <2>4. CASE ~(x \in S /\ m <= x)
    BY <2>1, <2>2, <2>4
  <2> QED
    BY <2>3, <2>4
<1> QED
  BY <1>1, <1>2

LEMMA FewerOrdered == ASSUME NEW T, WellOrdered(T), NEW S \in SUBSET T PROVE WellOrdered(S)
BY DEF WellOrdered

\* A visit adds one target to those seen, and its place to the places.
LEMMA SeenGrows ==
  ASSUME visited \in Seq(Targets), NEW x \in Targets, visited' = Append(visited, x)
  PROVE  /\ visited' \in Seq(Targets) /\ Seen' = Seen \cup {x}
         /\ DOMAIN visited = 1 .. Len(visited)
         /\ DOMAIN visited' = DOMAIN visited \cup {Len(visited) + 1}
         /\ Len(visited) + 1 \notin DOMAIN visited
         /\ visited'[Len(visited) + 1] = x
         /\ \A i \in DOMAIN visited : visited'[i] = visited[i]
<1>1. /\ visited' \in Seq(Targets) /\ Len(visited) \in Nat /\ Len(visited') = Len(visited) + 1
      /\ DOMAIN visited = 1 .. Len(visited) /\ DOMAIN visited' = 1 .. Len(visited')
      /\ visited'[Len(visited) + 1] = x
      /\ \A i \in 1 .. Len(visited) : visited'[i] = visited[i]
  OBVIOUS
<1>2. 1 .. Len(visited') = 1 .. Len(visited) \cup {Len(visited) + 1}
  BY <1>1
<1>3. Seen' = Seen \cup {x}
  BY <1>1, <1>2 DEF Seen
<1>4. Len(visited) + 1 \notin 1 .. Len(visited)
  BY <1>1
<1> QED
  BY <1>1, <1>2, <1>3, <1>4

\* The places of the entries left out are finitely many.
LEMMA UnnamedFinite ==
  ASSUME visited \in Seq(Targets)
  PROVE  IsFiniteSet(Unnamed) /\ Cardinality(Unnamed) \in Nat
<1>1. IsFiniteSet(1 .. Len(visited))
  BY FS_Interval
<1>2. Unnamed \in SUBSET (1 .. Len(visited))
  BY DEF Unnamed
<1>3. IsFiniteSet(Unnamed)
  BY <1>1, <1>2, FS_Subset
<1> QED
  BY <1>3, FS_CardinalityType

\* A full list of names has one.
LEMMA FullIsNotEmpty ==
  ASSUME NamingInv, ~Room
  PROVE  /\ kept # {} /\ Largest(kept) \in kept /\ Largest(kept) \in Int
         /\ \A y \in kept : y <= Largest(kept)
<1>1. Cardinality(kept) # 0
  BY NamingAssumption DEF Room
<1>2. kept # {}
  BY <1>1, FS_EmptySet
<1> QED
  BY <1>2, LargestIsKept DEF NamingInv

-----------------------------------------------------------------------------
LEMMA NamingInit == Init => NamingInv
<1> SUFFICES ASSUME Init PROVE NamingInv
  OBVIOUS
<1>1. kept = {} /\ more = 0 /\ visited = <<>>
  BY DEF Init
<1>2. Seen = {} /\ Unnamed = {} /\ Seen \ kept = {}
  BY <1>1 DEF Seen, Unnamed
<1>3. CountsTheRest
  BY <1>1, <1>2, FS_EmptySet DEF CountsTheRest
<1>4. WellOrdered(kept)
  BY <1>1 DEF WellOrdered
<1>5. visited \in Seq(Targets)
  BY <1>1
<1> QED
  BY <1>1, <1>2, <1>3, <1>4, <1>5, FS_EmptySet, NamingAssumption DEF NamingInv

\* While there is room, everything seen is kept.
LEMMA KeepStep ==
  ASSUME NamingInv, NEW x \in Targets, visited' = Append(visited, x), Keep(x)
  PROVE  NamingInv'
<1>1. Room /\ kept' = kept \cup {x} /\ more' = more /\ x \in Int
  BY NamingAssumption DEF Keep
<1>2. visited' \in Seq(Targets) /\ Seen' = Seen \cup {x} /\ IsFiniteSet(Seen')
  BY SeenGrows, FS_AddElement DEF NamingInv
<1>3. Seen = kept /\ Seen' = kept'
  BY <1>1, <1>2 DEF NamingInv
<1>4. IsFiniteSet(kept') /\ Cardinality(kept') <= Named
  <2>1. IsFiniteSet(kept) /\ Cardinality(kept) \in Nat
    BY FS_CardinalityType DEF NamingInv
  <2>2. /\ IsFiniteSet(kept \cup {x})
        /\ Cardinality(kept \cup {x}) = IF x \in kept THEN Cardinality(kept) ELSE Cardinality(kept) + 1
    BY <2>1, FS_AddElement
  <2>3. Cardinality(kept) < Named /\ Named \in Nat
    BY <1>1, NamingAssumption DEF Room
  <2> QED
    BY <1>1, <2>1, <2>2, <2>3
<1>5. WellOrdered(kept')
  BY <1>1, OneMoreOrdered DEF NamingInv
<1>6. CountsTheRest'
  <2>1. Unnamed = {}
    BY <1>3 DEF Unnamed, Seen
  <2>2. Unnamed' = {} /\ Seen' \ kept' = {}
    BY <1>3 DEF Unnamed, Seen
  <2>3. more = 0
    <3>1. more \in Nat /\ more <= Cardinality({}) /\ Cardinality({}) = 0
      BY <2>1, FS_EmptySet DEF NamingInv, CountsTheRest
    <3> QED
      BY <3>1
  <2>4. Cardinality({}) = 0
    BY FS_EmptySet
  <2>5. Cardinality(Seen' \ kept') = 0 /\ Cardinality(Unnamed') = 0
    BY <2>2, <2>4
  <2>6. more' = 0
    BY <1>1, <2>3
  <2> QED
    BY <2>5, <2>6 DEF CountsTheRest
<1> QED
  BY <1>1, <1>2, <1>3, <1>4, <1>5, <1>6 DEF NamingInv

\* A target beyond every name is one of the rest.
LEMMA RejectStep ==
  ASSUME NamingInv, NEW x \in Targets, visited' = Append(visited, x), Reject(x)
  PROVE  NamingInv'
<1>1. ~Room /\ x > Largest(kept) /\ more' = more + 1 /\ kept' = kept /\ x \in Int
  BY NamingAssumption DEF Reject, TurnedAway
<1>2. visited' \in Seq(Targets) /\ Seen' = Seen \cup {x} /\ IsFiniteSet(Seen')
  BY SeenGrows, FS_AddElement DEF NamingInv
<1>3. \A y \in kept : y \in Int /\ y < x
  BY <1>1, FullIsNotEmpty DEF NamingInv
<1>4. Seen' \ kept' = (Seen \ kept) \cup {x}
  BY <1>1, <1>2, <1>3
<1>5. CountsTheRest'
  <2>1. IsFiniteSet(Seen \ kept)
    BY FS_Subset DEF NamingInv
  <2>2. Cardinality(Seen' \ kept') \in {Cardinality(Seen \ kept), Cardinality(Seen \ kept) + 1}
        /\ Cardinality(Seen \ kept) \in Nat
    <3>1. Cardinality((Seen \ kept) \cup {x}) =
            IF x \in Seen \ kept THEN Cardinality(Seen \ kept) ELSE Cardinality(Seen \ kept) + 1
      BY <2>1, FS_AddElement
    <3>2. Cardinality(Seen \ kept) \in Nat
      BY <2>1, FS_CardinalityType
    <3> QED
      BY <1>4, <3>1, <3>2
  <2>3. Unnamed' = Unnamed \cup {Len(visited) + 1} /\ Len(visited) + 1 \notin Unnamed
    BY <1>1, <1>3, SeenGrows DEF Unnamed, NamingInv
  <2>4. Cardinality(Unnamed') = Cardinality(Unnamed) + 1 /\ Cardinality(Unnamed) \in Nat
    BY <2>3, UnnamedFinite, FS_AddElement DEF NamingInv
  <2>5. more \in Nat /\ Cardinality(Seen \ kept) <= more /\ more <= Cardinality(Unnamed)
    BY DEF NamingInv, CountsTheRest
  <2> QED
    BY <1>1, <2>2, <2>4, <2>5 DEF CountsTheRest
<1>6. \A z \in kept', y \in Seen' \ kept' : z < y
  BY <1>1, <1>3, <1>4 DEF NamingInv
<1>7. ~Room' /\ kept' \subseteq Seen'
  BY <1>1, <1>2 DEF Room, NamingInv
<1> QED
  BY <1>1, <1>2, <1>5, <1>6, <1>7 DEF NamingInv

\* A name visited again changes nothing.
LEMMA AgainStep ==
  ASSUME NamingInv, NEW x \in Targets, visited' = Append(visited, x), Again(x)
  PROVE  NamingInv'
<1>1. ~Room /\ x \in kept /\ more' = more /\ kept' = kept
  BY DEF Again
<1>2. visited' \in Seq(Targets) /\ Seen' = Seen
  BY <1>1, SeenGrows, ZenonT(20) DEF NamingInv
<1>3. Unnamed' = Unnamed
  BY <1>1, SeenGrows DEF Unnamed, NamingInv
<1> QED
  BY <1>1, <1>2, <1>3 DEF NamingInv, CountsTheRest, Room

\* A target before the largest name takes its place: it was never seen, and the
\* one that makes room is one of the rest.
LEMMA ReplaceStep ==
  ASSUME NamingInv, NEW x \in Targets, visited' = Append(visited, x), Replace(x)
  PROVE  NamingInv'
<1> DEFINE last == Largest(kept)
<1>1. /\ ~Room /\ ~(x > last) /\ x \notin kept /\ more' = more + 1
      /\ kept' = (kept \ {last}) \cup {x} /\ x \in Int
  BY NamingAssumption DEF Replace, TurnedAway, MoreAfterEviction
<1>2. visited' \in Seq(Targets) /\ Seen' = Seen \cup {x} /\ IsFiniteSet(Seen')
  BY SeenGrows, FS_AddElement DEF NamingInv
<1>3. last \in kept /\ last \in Int /\ \A y \in kept : y \in Int /\ y <= last
  BY <1>1, FullIsNotEmpty DEF NamingInv
<1> HIDE DEF last
<1>4. x < last /\ x \notin Seen
  BY <1>1, <1>3 DEF NamingInv
<1>5. Seen' \ kept' = (Seen \ kept) \cup {last} /\ last \notin Seen \ kept /\ kept' \subseteq Seen'
  BY <1>1, <1>2, <1>3, <1>4 DEF NamingInv
<1>6. Cardinality(kept') = Cardinality(kept) /\ IsFiniteSet(kept') /\ Cardinality(kept) \in Nat
  <2>1. IsFiniteSet(kept) /\ Cardinality(kept) \in Nat
    BY FS_CardinalityType DEF NamingInv
  <2>2. IsFiniteSet(kept \ {last}) /\ Cardinality(kept \ {last}) = Cardinality(kept) - 1
    BY <1>3, <2>1, FS_RemoveElement
  <2>3. x \notin kept \ {last}
    BY <1>1
  <2> QED
    <3>1. /\ IsFiniteSet((kept \ {last}) \cup {x})
          /\ Cardinality((kept \ {last}) \cup {x}) = Cardinality(kept \ {last}) + 1
      BY <2>2, <2>3, FS_AddElement
    <3> QED
      BY <1>1, <2>1, <2>2, <3>1
<1>7. WellOrdered(kept')
  <2>1. WellOrdered(kept \ {last})
    BY FewerOrdered DEF NamingInv
  <2> QED
    BY <1>1, <2>1, OneMoreOrdered DEF NamingInv
<1>8. CountsTheRest'
  <2>1. IsFiniteSet(Seen \ kept)
    BY FS_Subset DEF NamingInv
  <2>2. Cardinality(Seen' \ kept') = Cardinality(Seen \ kept) + 1 /\ Cardinality(Seen \ kept) \in Nat
    BY <1>5, <2>1, FS_AddElement, FS_CardinalityType
  <2>3. PICK i \in DOMAIN visited : visited[i] = last
    BY <1>3 DEF NamingInv, Seen
  <2>4. i \notin Unnamed /\ Unnamed \cup {i} \subseteq Unnamed'
    <3>1. i \notin Unnamed
      BY <1>3, <2>3 DEF Unnamed
    <3>2. last \notin kept'
      BY <1>1, <1>3, <1>4
    <3>3. i \in Unnamed'
      BY <2>3, <3>2, SeenGrows DEF Unnamed, NamingInv
    <3>4. ASSUME NEW j \in Unnamed PROVE j \in Unnamed'
      <4>1. j \in DOMAIN visited /\ visited[j] \notin kept /\ visited[j] \in Seen
        BY <3>4 DEF Unnamed, Seen
      <4>2. visited[j] \notin kept'
        BY <1>1, <1>4, <4>1
      <4> QED
        BY <4>1, <4>2, SeenGrows DEF Unnamed, NamingInv
    <3> QED
      BY <3>1, <3>3, <3>4
  <2>5. /\ IsFiniteSet(Unnamed) /\ Cardinality(Unnamed) \in Nat
        /\ IsFiniteSet(Unnamed') /\ Cardinality(Unnamed') \in Nat
    <3>1. IsFiniteSet(Unnamed')
      <4>1. IsFiniteSet(1 .. Len(visited'))
        BY <1>2, FS_Interval
      <4>2. Unnamed' \in SUBSET (1 .. Len(visited'))
        BY <1>2 DEF Unnamed
      <4> QED
        BY <4>1, <4>2, FS_Subset
    <3> QED
      BY <3>1, UnnamedFinite, FS_CardinalityType DEF NamingInv
  <2>6. Cardinality(Unnamed) + 1 <= Cardinality(Unnamed')
    <3>1. Cardinality(Unnamed \cup {i}) = Cardinality(Unnamed) + 1
      BY <2>4, <2>5, FS_AddElement
    <3>2. Cardinality(Unnamed \cup {i}) <= Cardinality(Unnamed')
      BY <2>4, <2>5, FS_Subset
    <3> QED
      BY <3>1, <3>2
  <2> QED
    BY <1>1, <2>2, <2>5, <2>6 DEF NamingInv, CountsTheRest
<1>9. \A z \in kept', y \in Seen' \ kept' : z < y
  <2>1. \A z \in kept' : z \in Int /\ z < last
    BY <1>1, <1>3, <1>4
  <2>2. \A y \in Seen \ kept : last < y
    BY <1>3 DEF NamingInv
  <2>3. \A y \in Seen : y \in Int
    <3>1. \A i \in DOMAIN visited : visited[i] \in Targets
      BY DEF NamingInv
    <3> QED
      BY <3>1, NamingAssumption DEF Seen
  <2> SUFFICES ASSUME NEW z \in kept', NEW y \in Seen' \ kept' PROVE z < y
    OBVIOUS
  <2>4. z \in Int /\ z < last
    BY <2>1
  <2>5. y = last \/ (y \in Seen \ kept /\ y \in Int /\ last < y)
    BY <1>5, <2>2, <2>3
  <2> QED
    BY <1>3, <2>4, <2>5
<1>10. ~Room'
  BY <1>1, <1>6 DEF Room
<1>11. kept' \subseteq Int
  BY <1>1, <1>3
<1>12. Cardinality(kept') <= Named /\ more' \in Nat
  BY <1>1, <1>6 DEF NamingInv
<1> QED
  BY <1>2, <1>5, <1>6, <1>7, <1>8, <1>9, <1>10, <1>11, <1>12 DEF NamingInv

LEMMA NamingStep == NamingInv /\ [Next]_vars => NamingInv'
<1> SUFFICES ASSUME NamingInv, [Next]_vars PROVE NamingInv'
  OBVIOUS
<1>1. ASSUME NEW x \in Targets, Visit(x) PROVE NamingInv'
  BY <1>1, KeepStep, RejectStep, AgainStep, ReplaceStep DEF Visit
<1>2. CASE UNCHANGED vars
  BY <1>2 DEF vars, NamingInv, Seen, Unnamed, CountsTheRest, Room
<1> QED
  BY <1>1, <1>2 DEF Next

-----------------------------------------------------------------------------
\* An event names the smallest distinct targets of its cut, as many as fit and in
\* whatever order the cache yields them, and counts the rest: zero exactly when
\* nothing was left out (cache.rs, name_the_first).
THEOREM NamesTheFirst == Spec => []CutNamesTheSmallest
<1>1. ASSUME NamingInv PROVE CutNamesTheSmallest
  <2>1. /\ IsFiniteSet(Seen) /\ IsFiniteSet(kept) /\ kept \in SUBSET Seen
        /\ Cardinality(kept) <= Named /\ (Seen # kept => ~Room) /\ Named \in Nat
    BY <1>1, NamingAssumption DEF NamingInv
  <2>2. Cardinality(Seen) \in Nat /\ Cardinality(kept) \in Nat /\ Cardinality(kept) <= Cardinality(Seen)
    BY <2>1, FS_CardinalityType, FS_Subset
  <2>3. Cardinality(kept) = (IF Cardinality(Seen) < Named THEN Cardinality(Seen) ELSE Named)
    <3>1. CASE Seen = kept
      BY <2>1, <2>2, <3>1
    <3>2. CASE Seen # kept
      BY <2>1, <2>2, <3>2 DEF Room
    <3> QED
      BY <3>1, <3>2
  <2> QED
    BY <1>1, <2>3 DEF NamingInv, CutNamesTheSmallest, NamesTheSmallest
<1>2. Init => NamingInv
  BY NamingInit
<1>3. NamingInv /\ [Next]_vars => NamingInv'
  BY NamingStep
<1> QED
  BY <1>1, <1>2, <1>3, PTL DEF Spec

-----------------------------------------------------------------------------
(***************************************************************************)
(* What a contract accepts.                                                *)

\* A call: the values given each of some names, at least one.
Calls == UNION {[N -> Seq(ArgValues) \ {<< >>}] : N \in SUBSET ArgNames}
ContractsTyped == spec \in Contracts /\ proposed \in Calls

LEMMA CallsGrow ==
  ASSUME ContractsTyped, NEW n \in ArgNames, NEW v \in ArgValues, Give(n, v)
  PROVE  ContractsTyped'
<1> DEFINE given == IF Has(proposed, n) THEN proposed[n] ELSE << >>
<1>1. PICK N \in SUBSET ArgNames : proposed \in [N -> Seq(ArgValues) \ {<< >>}]
  BY DEF ContractsTyped, Calls
<1>2. given \in Seq(ArgValues)
  BY <1>1 DEF Has
<1>3. Append(given, v) \in Seq(ArgValues) \ {<< >>}
  BY <1>2
<1>4. proposed' = [m \in N \cup {n} |-> IF m = n THEN Append(given, v) ELSE proposed[m]]
  BY <1>1 DEF Give
<1>5. proposed' \in [N \cup {n} -> Seq(ArgValues) \ {<< >>}]
  BY <1>1, <1>3, <1>4
<1> QED
  BY <1>5 DEF ContractsTyped, Calls, Give

LEMMA ContractsAreTyped == ContractSpec => []ContractsTyped
<1>1. ContractInit => ContractsTyped
  <2> SUFFICES ASSUME ContractInit PROVE ContractsTyped
    OBVIOUS
  <2>1. proposed \in [{} -> Seq(ArgValues) \ {<< >>}]
    BY DEF ContractInit
  <2> QED
    BY <2>1 DEF ContractInit, ContractsTyped, Calls
<1>2. ContractsTyped /\ [ContractNext]_contractVars => ContractsTyped'
  BY CallsGrow DEF ContractNext, contractVars, ContractsTyped
<1> QED
  BY <1>1, <1>2, PTL DEF ContractSpec

(***************************************************************************)
(* The defaults.                                                           *)

LEMMA OneIsItsJoin ==
  ASSUME NEW s, NEW n, NEW v
  PROVE  JoinedValue(s, n, <<v>>) = v
<1> DEFINE one == <<v>>
<1>1. Len(one) = 1 /\ one[1] = v
  OBVIOUS
<1> HIDE DEF one
<1>2. JoinedValue(s, n, one) = v
  BY <1>1, Zenon DEF JoinedValue
<1> QED
  BY <1>2 DEF one

\* What is given once is its own join, so the defaults are what is sent for them.
LEMMA PrefilledJoin ==
  ASSUME NEW s, NEW args
  PROVE  /\ DOMAIN Joined(s, Prefill(s, args)) = DOMAIN args \cup Defaulted(s, args)
         /\ \A n \in DOMAIN args : Joined(s, Prefill(s, args))[n] = Joined(s, args)[n]
         /\ \A n \in Defaulted(s, args) :
              Joined(s, Prefill(s, args))[n] = s.inputs[n].default /\ n \notin DOMAIN args
         /\ Repeated(s, Prefill(s, args)) = Repeated(s, args)
<1> DEFINE filled == Prefill(s, args)
<1>1. DOMAIN filled = DOMAIN args \cup Defaulted(s, args)
  BY DEF Prefill
<1>2. \A n \in DOMAIN args : filled[n] = args[n]
  BY DEF Prefill, Has
<1>3. \A n \in Defaulted(s, args) : filled[n] = << s.inputs[n].default >> /\ n \notin DOMAIN args
  BY DEF Prefill, Has, Defaulted
<1> HIDE DEF filled
<1>4. \A n \in DOMAIN args : JoinedValue(s, n, filled[n]) = JoinedValue(s, n, args[n])
  BY <1>2
<1>5. \A n \in Defaulted(s, args) : JoinedValue(s, n, filled[n]) = s.inputs[n].default
  BY <1>3, OneIsItsJoin
<1>6. Repeated(s, filled) = Repeated(s, args)
  <2>1. \A n \in Defaulted(s, args) : Len(filled[n]) = 1
    BY <1>3
  <2>2. ASSUME NEW n \in Defaulted(s, args) PROVE ~(Len(filled[n]) > 1)
    <3>1. Len(filled[n]) = 1
      BY <2>1
    <3>2. ~(1 > 1)
      OBVIOUS
    <3> QED
      BY ONLY <3>1, <3>2, Zenon
  <2>3. \A n : n \in Repeated(s, filled) <=>
                n \in DOMAIN filled /\ Len(filled[n]) > 1 /\ ~IsList(s, n)
    BY DEF Repeated
  <2>4. \A n : n \in Repeated(s, args) <=> n \in DOMAIN args /\ Len(args[n]) > 1 /\ ~IsList(s, n)
    BY DEF Repeated
  <2>5. \A n : n \in Repeated(s, filled) <=> n \in Repeated(s, args)
    BY <1>1, <1>2, <2>2, <2>3, <2>4
  <2> QED
    BY <2>5 DEF Repeated
<1> QED
  BY <1>1, <1>3, <1>4, <1>5, <1>6 DEF Joined, filled

\* A default is checked when it is bound: alone it breaks nothing and needs nothing.
LEMMA DefaultBreaksNothing ==
  ASSUME NEW s, Valid(s), SafeDefaults(s), NEW args, NEW n \in Defaulted(s, args), NEW joined
  PROVE  LET input == s.inputs[n]
         IN  /\ CheckValue(input, n, input.default) = {}
             /\ CheckNeeds(input, n, input.default, joined) = {}
<1> DEFINE input == s.inputs[n]
<1>1. n \in DOMAIN s.inputs /\ input.default # NoDefault
  BY DEF Defaulted
<1>2. /\ CheckValue(input, n, input.default) = {} /\ input.needs = {}
      /\ \A w \in DOMAIN input.values : input.default = <<w>> => input.values[w] = {}
  BY <1>1 DEF Valid, ValidInput
<1>3. input.list => DOMAIN input.values = {}
  BY <1>1 DEF SafeDefaults
<1>4. ASSUME NEW w \in DOMAIN input.values, <<w>> \in Items(input, input.default)
      PROVE  input.values[w] = {}
  BY <1>2, <1>3, <1>4 DEF Items
<1>5. CheckNeeds(input, n, input.default, joined) = {}
  BY <1>2, <1>4 DEF CheckNeeds
<1> QED
  BY <1>2, <1>5

\* More that is given leaves no need unmet that was met.
LEMMA NeedsStayMet ==
  ASSUME NEW input, NEW n, NEW value, NEW f, NEW g, \A m : Given(f, m) => Given(g, m),
         CheckNeeds(input, n, value, f) = {}
  PROVE  CheckNeeds(input, n, value, g) = {}
BY DEF CheckNeeds

\* What conforms, but for envelopes: the rules one by one.
Conforms(s, names, joined, twice) ==
  /\ \A n \in DOMAIN s.inputs : CheckInput(s, n, joined) = {}
  /\ \A n \in DOMAIN s.inputs : n \notin twice
  /\ \A g \in s.groups : ~CheckGroup(g, joined)
  /\ \A n \in names \ (DOMAIN s.inputs) : s.arguments.kind = "open"

LEMMA CheckIsConforms ==
  ASSUME NEW s, ~IsEnvelope(s), NEW args
  PROVE  Check(s, args) = {} <=> Conforms(s, DOMAIN args, Joined(s, args), Repeated(s, args))
<1> DEFINE joined == Joined(s, args)
           twice == Repeated(s, args)
<1>1. Checked(s, joined) = DOMAIN s.inputs
  BY DEF Checked, Skipped
<1>2. CheckEnvelope(s, joined) = {}
  BY DEF CheckEnvelope, FieldsGiven
<1>3. CheckInputs(s, joined) = {} <=> \A n \in DOMAIN s.inputs : CheckInput(s, n, joined) = {}
  BY <1>1 DEF CheckInputs
<1>4. CheckTwice(s, args, joined) = {} <=> \A n \in DOMAIN s.inputs : n \notin twice
  BY <1>1 DEF CheckTwice
<1>5. CheckGroups(s, joined) = {} <=> \A g \in s.groups : ~CheckGroup(g, joined)
  BY DEF CheckGroups
<1>6. CheckUnknown(s, args) = {} <=> \A n \in (DOMAIN args) \ (DOMAIN s.inputs) : s.arguments.kind = "open"
  BY DEF CheckUnknown
<1> QED
  BY <1>2, <1>3, <1>4, <1>5, <1>6 DEF Check, Conforms

LEMMA DefaultsKeepConforming ==
  ASSUME NEW s, NEW args, Valid(s), SafeDefaults(s), Check(s, args) = {}
  PROVE  Check(s, Prefill(s, args)) = {}
<1> DEFINE filled == Prefill(s, args)
           before == Joined(s, args)
           after == Joined(s, filled)
<1>1. /\ DOMAIN after = DOMAIN args \cup Defaulted(s, args) /\ DOMAIN before = DOMAIN args
      /\ \A n \in DOMAIN args : after[n] = before[n]
      /\ \A n \in Defaulted(s, args) : after[n] = s.inputs[n].default /\ n \notin DOMAIN args
      /\ Repeated(s, filled) = Repeated(s, args)
      /\ DOMAIN filled = DOMAIN args \cup Defaulted(s, args)
  BY PrefilledJoin DEF Joined, Prefill
<1>2. CASE Defaulted(s, args) = {}
  <2>1. DOMAIN filled = DOMAIN args /\ after = before
    BY <1>1, <1>2 DEF Joined
  <2>2. CheckUnknown(s, filled) = CheckUnknown(s, args)
    BY <2>1 DEF CheckUnknown
  <2>3. CheckTwice(s, filled, after) = CheckTwice(s, args, before)
    BY <1>1, <2>1 DEF CheckTwice
  <2> QED
    BY <2>1, <2>2, <2>3 DEF Check
<1>3. CASE Defaulted(s, args) # {}
  <2>1. ~IsEnvelope(s)
    BY <1>3 DEF SafeDefaults, Defaulted
  <2>2. Conforms(s, DOMAIN args, before, Repeated(s, args))
    BY <2>1, CheckIsConforms
  <2>3. \A n : Given(before, n) => Given(after, n)
    BY <1>1 DEF Given, Has
  <2>4. ASSUME NEW n \in DOMAIN s.inputs PROVE CheckInput(s, n, after) = {}
    <3>1. CheckInput(s, n, before) = {}
      BY <2>2 DEF Conforms
    <3>2. CASE n \in DOMAIN args
      <4>1. /\ CheckValue(s.inputs[n], n, before[n]) = {}
            /\ CheckNeeds(s.inputs[n], n, before[n], before) = {}
        BY <1>1, <3>1, <3>2 DEF CheckInput, Has
      <4>2. CheckNeeds(s.inputs[n], n, before[n], after) = {}
        BY <2>3, <4>1, NeedsStayMet
      <4> QED
        BY <1>1, <3>2, <4>1, <4>2 DEF CheckInput, Has
    <3>3. CASE n \in Defaulted(s, args)
      <4>1. /\ CheckValue(s.inputs[n], n, after[n]) = {}
            /\ CheckNeeds(s.inputs[n], n, after[n], after) = {}
        BY <1>1, <3>3, DefaultBreaksNothing
      <4> QED
        BY <1>1, <3>3, <4>1 DEF CheckInput, Has
    <3>4. CASE n \notin DOMAIN args /\ n \notin Defaulted(s, args)
      BY <1>1, <3>1, <3>4 DEF CheckInput, Has
    <3> QED
      BY <3>2, <3>3, <3>4
  <2>5. ASSUME NEW g \in s.groups PROVE ~CheckGroup(g, after)
    <3>1. \A m \in g.members : m \notin Defaulted(s, args)
      BY DEF Valid, ValidGroup, Defaulted
    <3>2. \A m \in g.members : Given(after, m) <=> Given(before, m)
      BY <1>1, <3>1 DEF Given, Has
    <3>3. { m \in g.members : Given(after, m) } = { m \in g.members : Given(before, m) }
      BY <3>2
    <3>4. ~CheckGroup(g, before)
      BY <2>2 DEF Conforms
    <3> QED
      BY <3>3, <3>4 DEF CheckGroup
  <2>6. Defaulted(s, args) \subseteq DOMAIN s.inputs
    BY DEF Defaulted
  <2>7. Conforms(s, DOMAIN filled, after, Repeated(s, filled))
    <3> HIDE DEF before, after, filled
    <3> QED
      BY <1>1, <2>2, <2>4, <2>5, <2>6 DEF Conforms
  <2> QED
    BY <2>1, <2>7, CheckIsConforms
<1> QED
  BY <1>2, <1>3

(***************************************************************************)
(* The routed value.                                                       *)

\* A value no group excludes breaks no group that held.
LEMMA RoutingBreaksNothing ==
  ASSUME NEW s, NEW g \in s.groups, NEW named, NEW n, IsFiniteSet(g.members),
         g.kind \in {"exactly_one", "at_least_one", "at_most_one"},
         n \notin named, n \notin ExcludedByGroups(s, named),
         Broken(g, g.members \cap (named \cup {n}))
  PROVE  Broken(g, g.members \cap named)
<1> DEFINE now == g.members \cap named
           then == g.members \cap (named \cup {n})
<1>1. IsFiniteSet(now) /\ IsFiniteSet(then) /\ Cardinality(now) \in Nat
  BY FS_Intersection, FS_CardinalityType
<1>2. CASE g.kind = "at_least_one"
  BY <1>2 DEF Broken
<1>3. CASE g.kind \in {"exactly_one", "at_most_one"} /\ now # {}
  <2>1. n \notin g.members
    BY <1>3 DEF ExcludedByGroups
  <2>2. then = now
    BY <2>1
  <2> QED
    BY <2>2
<1>4. CASE g.kind = "exactly_one" /\ now = {}
  <2>1. Cardinality(now) = 0
    BY <1>4, FS_EmptySet
  <2> QED
    BY <1>4, <2>1 DEF Broken
<1>5. CASE g.kind = "at_most_one" /\ now = {}
  <2>1. then = {} \/ then = {n}
    BY <1>5
  <2>2. Cardinality(then) = 0 \/ Cardinality(then) = 1
    BY <2>1, FS_EmptySet, FS_Singleton
  <2>3. Cardinality(then) > 1
    BY <1>5 DEF Broken
  <2> HIDE DEF then
  <2> QED
    BY <2>2, <2>3
<1> QED
  BY <1>2, <1>3, <1>4, <1>5

\* A value in a pipe slot mends a group.
LEMMA RoutingMends ==
  ASSUME NEW s, Valid(s), NEW named, NEW n \in PipeSlots(s, named)
  PROVE  \E g \in s.groups : Broken(g, g.members \cap named)
                             /\ ~Broken(g, g.members \cap (named \cup {n}))
<1>1. PICK g \in s.groups : /\ g.kind \in {"exactly_one", "at_least_one"}
                            /\ g.members \cap named = {} /\ n \in g.pipe
  BY DEF PipeSlots
<1>2. n \in g.members
  BY <1>1 DEF Valid, ValidGroup
<1>3. g.members \cap (named \cup {n}) = {n}
  BY <1>1, <1>2
<1>4. Cardinality({n}) = 1 /\ Cardinality(g.members \cap named) = 0
  BY <1>1, FS_EmptySet, FS_Singleton
<1>5. Broken(g, g.members \cap named)
  BY <1>1, <1>4 DEF Broken
<1>6. ~Broken(g, {n})
  BY <1>1, <1>4 DEF Broken
<1> QED
  BY <1>3, <1>5, <1>6

LEMMA RoutedFit == ContractAssumption /\ ContractsTyped => RoutedValuesFit
<1> SUFFICES ASSUME ContractAssumption, ContractsTyped, Valid(spec), NEW named, NEW n,
                    n \notin named, n \notin ExcludedByGroups(spec, named)
             PROVE  /\ BrokenBy(named \cup {n}) \subseteq BrokenBy(named)
                    /\ n \in PipeSlots(spec, named) => BrokenBy(named \cup {n}) # BrokenBy(named)
  BY DEF RoutedValuesFit
<1>1. BrokenBy(named \cup {n}) \subseteq BrokenBy(named)
  BY RoutingBreaksNothing DEF BrokenBy, ContractAssumption, ContractsTyped
<1>2. ASSUME n \in PipeSlots(spec, named) PROVE BrokenBy(named \cup {n}) # BrokenBy(named)
  BY <1>2, RoutingMends DEF BrokenBy
<1> QED
  BY <1>1, <1>2

(***************************************************************************)
(* What the selector withholds.                                            *)

\* No value of a dead input that is no list passes.
LEMMA DeadAcceptsNothing ==
  ASSUME NEW s, NEW n \in DOMAIN s.inputs, AcceptsNothing(s.inputs[n]), ~s.inputs[n].list,
         NEW joined, Has(joined, n)
  PROVE  CheckInput(s, n, joined) # {}
<1> DEFINE input == s.inputs[n]
           value == joined[n]
<1>1. value \in Items(input, value)
  BY DEF Items
<1>2. Refuses(input, value)
  BY DEF Refuses, AcceptsNothing
<1>3. <<"value", n, value>> \in CheckValue(input, n, value)
  BY <1>1, <1>2 DEF CheckValue
<1> QED
  BY <1>3 DEF CheckInput

LEMMA Uncallable ==
  ASSUME NEW s, Valid(s), ~IsEnvelope(s), NoDeadLists(s), ~Callable(s), NEW args,
         \A g \in s.groups : g.kind \in {"exactly_one", "at_least_one", "at_most_one"}
  PROVE  Check(s, args) # {}
<1> SUFFICES ASSUME Check(s, args) = {} PROVE FALSE
  OBVIOUS
<1> DEFINE joined == Joined(s, args)
<1>1. Conforms(s, DOMAIN args, joined, Repeated(s, args))
  BY CheckIsConforms
<1>2. \A n \in DOMAIN s.inputs : AcceptsNothing(s.inputs[n]) => ~Has(joined, n)
  BY <1>1, DeadAcceptsNothing DEF NoDeadLists, Conforms
<1>3. CASE \E n \in DOMAIN s.inputs : /\ s.inputs[n].required /\ s.inputs[n].source = "argument"
                                      /\ AcceptsNothing(s.inputs[n])
  <2>1. PICK n \in DOMAIN s.inputs : /\ s.inputs[n].required /\ s.inputs[n].source = "argument"
                                     /\ AcceptsNothing(s.inputs[n])
    BY <1>3
  <2>2. <<"missing", n>> \in CheckInput(s, n, joined)
    BY <1>2, <2>1 DEF CheckInput
  <2> QED
    BY <1>1, <2>2 DEF Conforms
<1>4. CASE \E g \in s.groups : /\ g.kind \in {"exactly_one", "at_least_one"}
                               /\ \A m \in g.members : /\ m \in DOMAIN s.inputs
                                                       /\ AcceptsNothing(s.inputs[m])
  <2>1. PICK g \in s.groups : /\ g.kind \in {"exactly_one", "at_least_one"}
                              /\ \A m \in g.members : /\ m \in DOMAIN s.inputs
                                                      /\ AcceptsNothing(s.inputs[m])
    BY <1>4
  <2>2. { m \in g.members : Given(joined, m) } = {}
    BY <1>2, <2>1 DEF Given
  <2>3. CheckGroup(g, joined)
    BY <2>1, <2>2, FS_EmptySet DEF CheckGroup, Broken
  <2> QED
    BY <1>1, <2>3 DEF Conforms
<1> QED
  BY <1>3, <1>4 DEF Callable

\* What others conclude from a contract that was bound agrees with what it accepts, for
\* any contracts and calls: the defaults the kernel fills in (prefill) break no call that
\* conforms, a value the engine routes (pipe_slots, excluded_by_groups) mends its group
\* and breaks none, and what the selector withholds (callable) no call conforms to.
THEOREM ContractsAlwaysHold == ContractAssumption => (ContractSpec => []ContractsHold)
<1> SUFFICES ASSUME ContractAssumption PROVE ContractSpec => []ContractsHold
  OBVIOUS
<1>1. ContractsTyped => ContractsHold
  <2> SUFFICES ASSUME ContractsTyped PROVE ContractsHold
    OBVIOUS
  <2>1. DefaultsConform
    BY DefaultsKeepConforming DEF DefaultsConform
  <2>2. RoutedValuesFit
    BY RoutedFit
  <2>3. WithheldIsUncallable
    BY Uncallable DEF WithheldIsUncallable, ContractAssumption, ContractsTyped
  <2> QED
    BY <2>1, <2>2, <2>3 DEF ContractsHold
<1> QED
  BY <1>1, ContractsAreTyped, PTL

-----------------------------------------------------------------------------
(***************************************************************************)
(* What the alias table makes of a name, for any rules, hop budget, names   *)
(* and arguments.  The loop keeps a trail of names, no two alike, and the   *)
(* rules that led from each to the next; a chain that does not end within   *)
(* the budget is still walking when the turns run out.  Of two tables built *)
(* from the same rules, with those of one name in the order authored, the   *)
(* same rule is the first to match any name, so every turn is the same.     *)
(* The counters add up because a request on its way was rewritten by the    *)
(* table as it stands: no rule is inserted once one has been counted.       *)
(***************************************************************************)

LEMMA MinIs ==
  ASSUME NEW T \in SUBSET Nat, T # {}
  PROVE  Min(T) \in T /\ \A y \in T : Min(T) <= y
BY LeastOf DEF Min

(***************************************************************************)
(* Precedence.                                                             *)

Kinds == {"exact", "prefix", "template"}

LEMMA Precedence ==
  ASSUME AliasAssumption, NEW a \in Rules, NEW b \in Rules
  PROVE  /\ ~Precedes(a, a)
         /\ Precedes(a, b) => ~Precedes(b, a)
         /\ ~Precedes(a, b) /\ ~Precedes(b, a) => Len(a.from) = Len(b.from) /\ a.match = b.match
         /\ \A c \in Rules : /\ Precedes(a, b) /\ ~Precedes(c, b) => Precedes(a, c)
                             /\ ~Precedes(a, b) /\ ~Precedes(b, c) => ~Precedes(a, c)
<1>1. \A r \in Rules : r.match \in Kinds /\ Len(r.from) \in Nat
  BY DEF AliasAssumption, Kinds
<1>2. Keyword["exact"] = 1 /\ Keyword["prefix"] = 2 /\ Keyword["template"] = 3
  BY DEF Keyword
<1> QED
  BY <1>1, <1>2, SMTT(20) DEF Precedes, Kinds

\* Of two rules that match one name and neither of which precedes the other, the
\* name is the same: they are two rules for one thing.
LEMMA OneNameEach ==
  ASSUME AliasAssumption, NEW a \in Rules, NEW b \in Rules, NEW n, Matches(a, n), Matches(b, n),
         ~Precedes(a, b), ~Precedes(b, a)
  PROVE  SameName(a, b)
<1>1. Len(a.from) = Len(b.from) /\ a.match = b.match
  BY Precedence
<1>2. a.from \in Seq(STRING) /\ b.from \in Seq(STRING) /\ a.match \in Kinds
  BY DEF AliasAssumption, Kinds
<1>3. CASE a.match = "exact"
  BY <1>1, <1>3 DEF Matches, SameName
<1>4. CASE a.match # "exact"
  <2>1. IsPrefix(a.from, n) /\ IsPrefix(b.from, n)
    BY <1>1, <1>2, <1>4 DEF Matches, Kinds
  <2>2. SubSeq(a.from, 1, Len(a.from)) = SubSeq(b.from, 1, Len(b.from))
    BY <1>1, <2>1 DEF IsPrefix
  <2>3. SubSeq(a.from, 1, Len(a.from)) = a.from /\ SubSeq(b.from, 1, Len(b.from)) = b.from
    BY <1>2, SubSeqFull
  <2> QED
    BY <1>1, <2>2, <2>3 DEF SameName
<1> QED
  BY <1>3, <1>4

(***************************************************************************)
(* The table in precedence order.                                          *)

Sorted(t) == \A i, j \in DOMAIN t : i < j => ~Precedes(t[j], t[i])

LEMMA InsertedIs ==
  ASSUME AliasAssumption, NEW t \in Seq(Rules), Sorted(t), NEW r \in Rules
  PROVE  /\ Inserted(t, r) \in Seq(Rules) /\ Len(Inserted(t, r)) = Len(t) + 1
         /\ \E p \in 1 .. Len(t) + 1 :
              /\ \A i \in 1 .. p - 1 : Inserted(t, r)[i] = t[i] /\ ~Precedes(r, t[i])
              /\ Inserted(t, r)[p] = r
              /\ \A i \in p .. Len(t) : Inserted(t, r)[i + 1] = t[i] /\ Precedes(r, t[i])
<1> DEFINE T == {i \in DOMAIN t : Precedes(r, t[i])}
           p == Min(T \cup {Len(t) + 1})
           new == Inserted(t, r)
<1>1. DOMAIN t = 1 .. Len(t) /\ Len(t) \in Nat /\ \A i \in 1 .. Len(t) : t[i] \in Rules
  OBVIOUS
<1>2. p \in T \cup {Len(t) + 1} /\ \A y \in T \cup {Len(t) + 1} : p <= y
  <2> DEFINE S == T \cup {Len(t) + 1}
  <2>1. S \in SUBSET Nat /\ S # {}
    BY <1>1
  <2> HIDE DEF S
  <2>2. Min(S) \in S /\ \A y \in S : Min(S) <= y
    BY <2>1, MinIs
  <2> QED
    BY <2>2 DEF S
<1>3. new = SubSeq(t, 1, p - 1) \o <<r>> \o SubSeq(t, p, Len(t))
  BY DEF Inserted, InsertAt
<1> HIDE DEF p, new
<1>4. p \in 1 .. Len(t) + 1
  BY <1>1, <1>2
<1>5. /\ \A i \in 1 .. p - 1 : ~Precedes(r, t[i])
      /\ \A i \in p .. Len(t) : Precedes(r, t[i])
  <2>1. ASSUME NEW i \in 1 .. p - 1 PROVE ~Precedes(r, t[i])
    BY <1>1, <1>2, <1>4
  <2>2. ASSUME NEW i \in p .. Len(t) PROVE Precedes(r, t[i])
    <3>1. p \in 1 .. Len(t) /\ Precedes(r, t[p])
      BY <1>1, <1>2, <1>4
    <3>2. i = p \/ ~Precedes(t[i], t[p])
      BY <1>1, <1>4 DEF Sorted
    <3> QED
      BY <1>1, <1>4, <3>1, <3>2, Precedence
  <2> QED
    BY <2>1, <2>2
<1>6. /\ new \in Seq(Rules) /\ Len(new) = Len(t) + 1
      /\ \A i \in 1 .. p - 1 : new[i] = t[i]
      /\ new[p] = r
      /\ \A i \in p .. Len(t) : new[i + 1] = t[i]
  <2> DEFINE u == SubSeq(t, 1, p - 1)
             v == SubSeq(t, p, Len(t))
  <2>1. u \in Seq(Rules) /\ Len(u) = p - 1 /\ \A i \in 1 .. p - 1 : u[i] = t[i]
    BY <1>1, <1>4
  <2>2. v \in Seq(Rules) /\ Len(v) = Len(t) + 1 - p /\ \A i \in 1 .. Len(t) + 1 - p : v[i] = t[p + i - 1]
    BY <1>1, <1>4
  <2> HIDE DEF u, v
  <2>3. new = u \o <<r>> \o v
    BY <1>3 DEF u, v
  <2>4. /\ u \o <<r>> \in Seq(Rules) /\ Len(u \o <<r>>) = p
        /\ \A i \in 1 .. p - 1 : (u \o <<r>>)[i] = t[i]
        /\ (u \o <<r>>)[p] = r
    BY <1>4, <2>1
  <2> DEFINE w == u \o <<r>>
  <2> HIDE DEF w
  <2>5. new = w \o v /\ w \in Seq(Rules) /\ Len(w) = p
    BY <2>3, <2>4 DEF w
  <2>6. new \in Seq(Rules) /\ Len(new) = Len(t) + 1
    <3>1. w \o v \in Seq(Rules) /\ Len(w \o v) = Len(w) + Len(v)
      BY <2>2, <2>5, ConcatProperties
    <3> QED
      BY <1>1, <1>4, <2>2, <2>5, <3>1
  <2>7. \A i \in 1 .. p : new[i] = w[i]
    BY <1>1, <1>4, <2>2, <2>5
  <2>8. ASSUME NEW i \in p .. Len(t) PROVE new[i + 1] = t[i]
    <3>1. i + 1 - p \in 1 .. Len(t) + 1 - p /\ p + (i + 1 - p) - 1 = i
      BY <1>1, <1>4
    <3>2. new[i + 1] = v[i + 1 - p]
      BY <1>1, <1>4, <2>2, <2>5
    <3> QED
      BY <2>2, <3>1, <3>2
  <2> QED
    BY <1>4, <2>4, <2>6, <2>7, <2>8 DEF w
<1> QED
  BY <1>4, <1>5, <1>6 DEF new

LEMMA InsertedSorted ==
  ASSUME AliasAssumption, NEW t \in Seq(Rules), Sorted(t), NEW r \in Rules
  PROVE  /\ Inserted(t, r) \in Seq(Rules) /\ Sorted(Inserted(t, r))
         /\ ToSet(Inserted(t, r)) = ToSet(t) \cup {r}
<1> DEFINE new == Inserted(t, r)
<1>1. new \in Seq(Rules) /\ Len(new) = Len(t) + 1
  BY InsertedIs
<1>2. PICK p \in 1 .. Len(t) + 1 :
        /\ \A i \in 1 .. p - 1 : new[i] = t[i] /\ ~Precedes(r, t[i])
        /\ new[p] = r
        /\ \A i \in p .. Len(t) : new[i + 1] = t[i] /\ Precedes(r, t[i])
  BY InsertedIs
<1> HIDE DEF new
<1>3. Len(t) \in Nat /\ DOMAIN t = 1 .. Len(t) /\ DOMAIN new = 1 .. Len(t) + 1
  BY <1>1
\* Where the new table took each of its rules from.
<1>4. \A i \in 1 .. Len(t) + 1 : \/ i \in 1 .. p - 1 /\ new[i] = t[i]
                                 \/ i = p
                                 \/ i - 1 \in p .. Len(t) /\ new[i] = t[i - 1]
  <2> SUFFICES ASSUME NEW i \in 1 .. Len(t) + 1, i > p PROVE i - 1 \in p .. Len(t) /\ new[i] = t[i - 1]
    BY <1>2, <1>3
  <2>1. i - 1 \in p .. Len(t) /\ (i - 1) + 1 = i
    BY <1>3
  <2> QED
    BY <1>2, <2>1
<1>5. Sorted(new)
  <2> SUFFICES ASSUME NEW i \in 1 .. Len(t) + 1, NEW j \in 1 .. Len(t) + 1, i < j
               PROVE  ~Precedes(new[j], new[i])
    BY <1>3 DEF Sorted
  <2>1. \A k \in 1 .. Len(t) : t[k] \in Rules
    OBVIOUS
  <2>2. CASE i = p
    <3>1. j - 1 \in p .. Len(t) /\ new[j] = t[j - 1]
      BY <1>4, <2>2
    <3> QED
      BY <1>2, <2>1, <2>2, <3>1, Precedence
  <2>3. CASE j = p
    <3>1. i \in 1 .. p - 1
      BY <2>3
    <3> QED
      BY <1>2, <2>3, <3>1
  <2>4. CASE i # p /\ j # p
    <3>1. \E k, l \in 1 .. Len(t) : k < l /\ new[i] = t[k] /\ new[j] = t[l]
      BY <1>3, <1>4, <2>4
    <3> QED
      BY <1>3, <3>1 DEF Sorted
  <2> QED
    BY <2>2, <2>3, <2>4
<1>6. ToSet(new) = ToSet(t) \cup {r}
  <2>1. ToSet(new) \subseteq ToSet(t) \cup {r}
    BY <1>2, <1>3, <1>4 DEF ToSet
  <2>2. \A i \in 1 .. Len(t) : \E j \in 1 .. Len(t) + 1 : new[j] = t[i]
    <3> SUFFICES ASSUME NEW i \in 1 .. Len(t) PROVE \E j \in 1 .. Len(t) + 1 : new[j] = t[i]
      OBVIOUS
    <3>1. CASE i < p
      BY <1>2, <1>3, <3>1
    <3>2. CASE i >= p
      <4>1. i \in p .. Len(t) /\ i + 1 \in 1 .. Len(t) + 1
        BY <1>3, <3>2
      <4> QED
        BY <1>2, <4>1
    <3> QED
      BY <3>1, <3>2
  <2>3. p \in DOMAIN new /\ new[p] = r
    BY <1>2, <1>3
  <2> QED
    BY <1>3, <2>1, <2>2, <2>3 DEF ToSet
<1> QED
  BY <1>1, <1>5, <1>6 DEF new

\* Which rules of one name were authored first.
Stable(t, order, m) ==
  \A i, j \in DOMAIN t : i < j /\ SameName(t[i], t[j]) =>
    \E k, l \in 1 .. m : k < l /\ order[k] = t[i] /\ order[l] = t[j]

LEMMA InsertedStable ==
  ASSUME AliasAssumption, NEW t \in Seq(Rules), Sorted(t), NEW m \in Nat, NEW order,
         ToSet(t) = {order[k] : k \in 1 .. m}, Stable(t, order, m), order[m + 1] \in Rules
  PROVE  Stable(Inserted(t, order[m + 1]), order, m + 1)
<1> DEFINE r == order[m + 1]
           new == Inserted(t, r)
<1>1. new \in Seq(Rules) /\ Len(new) = Len(t) + 1
  BY InsertedIs
<1>2. PICK p \in 1 .. Len(t) + 1 :
        /\ \A i \in 1 .. p - 1 : new[i] = t[i] /\ ~Precedes(r, t[i])
        /\ new[p] = r
        /\ \A i \in p .. Len(t) : new[i + 1] = t[i] /\ Precedes(r, t[i])
  BY InsertedIs
<1> HIDE DEF new
<1>3. Len(t) \in Nat /\ DOMAIN t = 1 .. Len(t) /\ DOMAIN new = 1 .. Len(t) + 1
  BY <1>1
<1>4. \A i \in 1 .. Len(t) + 1 : \/ i \in 1 .. p - 1 /\ new[i] = t[i]
                                 \/ i = p
                                 \/ i - 1 \in p .. Len(t) /\ new[i] = t[i - 1]
  <2> SUFFICES ASSUME NEW i \in 1 .. Len(t) + 1, i > p PROVE i - 1 \in p .. Len(t) /\ new[i] = t[i - 1]
    BY <1>2, <1>3
  <2>1. i - 1 \in p .. Len(t) /\ (i - 1) + 1 = i
    BY <1>3
  <2> QED
    BY <1>2, <2>1
<1>5. SUFFICES ASSUME NEW i \in 1 .. Len(t) + 1, NEW j \in 1 .. Len(t) + 1, i < j,
                      SameName(new[i], new[j])
               PROVE  \E k, l \in 1 .. m + 1 : k < l /\ order[k] = new[i] /\ order[l] = new[j]
  BY <1>3 DEF Stable, new
<1>6. CASE i = p
  <2>1. j - 1 \in p .. Len(t) /\ new[j] = t[j - 1]
    BY <1>4, <1>5, <1>6
  <2>2. Precedes(r, new[j]) /\ SameName(r, new[j])
    BY <1>2, <1>5, <1>6, <2>1
  <2>3. Len(r.from) \in Nat
    BY DEF AliasAssumption
  <2>4. Keyword[r.match] < Keyword[r.match] /\ r.match \in Kinds
    BY <2>2, <2>3 DEF AliasAssumption, Kinds, Precedes, SameName
  <2>5. Keyword["exact"] = 1 /\ Keyword["prefix"] = 2 /\ Keyword["template"] = 3
    BY DEF Keyword
  <2> QED
    BY <2>4, <2>5 DEF Kinds
<1>7. CASE j = p
  <2>1. i \in 1 .. p - 1 /\ new[i] = t[i] /\ i \in DOMAIN t
    BY <1>2, <1>3, <1>5, <1>7
  <2>2. new[i] \in ToSet(t)
    BY <2>1 DEF ToSet
  <2>3. PICK k \in 1 .. m : order[k] = new[i]
    BY <2>2
  <2>4. k \in 1 .. m + 1 /\ m + 1 \in 1 .. m + 1 /\ k < m + 1
    OBVIOUS
  <2> QED
    BY <1>2, <1>7, <2>3, <2>4
<1>8. CASE i # p /\ j # p
  <2>1. PICK u, v \in 1 .. Len(t) : u < v /\ new[i] = t[u] /\ new[j] = t[v]
    BY <1>3, <1>4, <1>5, <1>8
  <2>2. PICK k, l \in 1 .. m : k < l /\ order[k] = t[u] /\ order[l] = t[v]
    BY <1>3, <1>5, <2>1 DEF Stable
  <2>3. k \in 1 .. m + 1 /\ l \in 1 .. m + 1
    OBVIOUS
  <2> QED
    BY <2>1, <2>2, <2>3
<1> QED
  BY <1>6, <1>7, <1>8

\* The table that an authored order comes to.
LEMMA BuiltIs ==
  ASSUME AliasAssumption, NEW order \in Seq(Rules)
  PROVE  /\ Built(order) \in Seq(Rules) /\ Sorted(Built(order))
         /\ ToSet(Built(order)) = ToSet(order)
         /\ Stable(Built(order), order, Len(order))
<1> DEFINE Rule(g, m) == [k \in 0 .. m |-> IF k = 0 THEN << >> ELSE Inserted(g[k - 1], order[k])]
           Exists(m) == \E g : g = Rule(g, m)
           table == CHOOSE g : g = Rule(g, Len(order))
           Good(k) == /\ table[k] \in Seq(Rules) /\ Sorted(table[k])
                      /\ ToSet(table[k]) = {order[i] : i \in 1 .. k}
                      /\ Stable(table[k], order, k)
<1>1. Built(order) = table[Len(order)]
  BY DEF Built
<1>2. Len(order) \in Nat /\ DOMAIN order = 1 .. Len(order) /\ \A k \in 1 .. Len(order) : order[k] \in Rules
  OBVIOUS
<1>3. Exists(0)
  <2> DEFINE e == << >>
             g == [k \in 0 .. 0 |-> e]
  <2>1. g = Rule(g, 0)
    <3>1. \A k \in 0 .. 0 : k = 0
      OBVIOUS
    <3> QED
      BY <3>1
  <2> QED
    BY <2>1
<1>4. ASSUME NEW m \in Nat, Exists(m) PROVE Exists(m + 1)
  <2>1. PICK g : g = Rule(g, m)
    BY <1>4
  <2> DEFINE h == [k \in 0 .. m + 1 |-> IF k = m + 1 THEN Inserted(g[m], order[m + 1]) ELSE g[k]]
  <2>2. \A k \in 0 .. m + 1 : h[k] = IF k = 0 THEN << >> ELSE Inserted(h[k - 1], order[k])
    <3> SUFFICES ASSUME NEW k \in 0 .. m + 1
                 PROVE  h[k] = IF k = 0 THEN << >> ELSE Inserted(h[k - 1], order[k])
      OBVIOUS
    <3>1. \A i \in 0 .. m : h[i] = g[i]
      OBVIOUS
    <3>2. h[m + 1] = Inserted(g[m], order[m + 1])
      OBVIOUS
    <3>3. \A i \in 0 .. m : g[i] = IF i = 0 THEN << >> ELSE Inserted(g[i - 1], order[i])
      BY <2>1
    <3> HIDE DEF h
    <3>4. CASE k = m + 1
      <4>1. k - 1 = m /\ k # 0 /\ m \in 0 .. m
        BY <3>4
      <4> QED
        BY <3>1, <3>2, <3>4, <4>1
    <3>5. CASE k # m + 1
      <4>1. k \in 0 .. m /\ (k # 0 => k - 1 \in 0 .. m)
        BY <3>5
      <4> QED
        BY <3>1, <3>3, <4>1
    <3> QED
      BY <3>4, <3>5
  <2>3. h = [k \in 0 .. m + 1 |-> h[k]]
    OBVIOUS
  <2> HIDE DEF h
  <2>4. h = Rule(h, m + 1)
    BY <2>2, <2>3
  <2> QED
    BY <2>4
<1> HIDE DEF Exists
<1>5. \A m \in Nat : Exists(m)
  <2> DEFINE S == {m \in Nat : Exists(m)}
  <2>1. S \in SUBSET Nat /\ 0 \in S /\ \A m \in S : m + 1 \in S
    BY <1>3, <1>4
  <2>2. S = Nat
    <3> HIDE DEF S
    <3> QED
      BY <2>1, EveryNat
  <2> QED
    BY <2>2
<1>6. table = Rule(table, Len(order))
  BY <1>2, <1>5 DEF Exists
<1> HIDE DEF table
<1>7. /\ table[0] = << >>
      /\ \A k \in 1 .. Len(order) : table[k] = Inserted(table[k - 1], order[k])
  BY <1>2, <1>6
<1>8. Good(0)
  BY <1>7 DEF Sorted, Stable, ToSet
<1>9. ASSUME NEW k \in 0 .. Len(order) - 1, Good(k) PROVE Good(k + 1)
  <2>1. k + 1 \in 1 .. Len(order) /\ (k + 1) - 1 = k /\ k \in Nat
    BY <1>2
  <2>2. table[k + 1] = Inserted(table[k], order[k + 1]) /\ order[k + 1] \in Rules
    BY <1>2, <1>7, <2>1
  <2> DEFINE t == table[k]
  <2> HIDE DEF t
  <2>3. /\ t \in Seq(Rules) /\ Sorted(t) /\ ToSet(t) = {order[i] : i \in 1 .. k}
        /\ Stable(t, order, k)
    BY <1>9 DEF t
  <2>4. /\ Inserted(t, order[k + 1]) \in Seq(Rules) /\ Sorted(Inserted(t, order[k + 1]))
        /\ ToSet(Inserted(t, order[k + 1])) = ToSet(t) \cup {order[k + 1]}
    BY <2>2, <2>3, InsertedSorted
  <2>5. Stable(Inserted(t, order[k + 1]), order, k + 1)
    BY <2>1, <2>2, <2>3, InsertedStable
  <2>6. 1 .. k + 1 = (1 .. k) \cup {k + 1}
    BY <2>1
  <2>7. {order[i] : i \in 1 .. k} \cup {order[k + 1]} = {order[i] : i \in 1 .. k + 1}
    BY <2>6
  <2> QED
    BY <2>2, <2>3, <2>4, <2>5, <2>7 DEF t
<1> HIDE DEF Good
<1>10. \A k \in 0 .. Len(order) : Good(k)
  <2> DEFINE S == {k \in 0 .. Len(order) : Good(k)}
  <2>1. S \in SUBSET (0 .. Len(order)) /\ 0 \in S /\ \A k \in S : k < Len(order) => k + 1 \in S
    BY <1>2, <1>8, <1>9
  <2>2. S = 0 .. Len(order)
    <3> HIDE DEF S
    <3> QED
      BY <1>2, <2>1, UpTo
  <2> QED
    BY <2>2
<1>11. Good(Len(order))
  BY <1>2, <1>10
<1>12. ToSet(order) = {order[i] : i \in 1 .. Len(order)}
  BY <1>2 DEF ToSet
<1> QED
  BY <1>1, <1>11, <1>12 DEF Good

(***************************************************************************)
(* The rule that applies.                                                  *)

LEMMA FirstIs ==
  ASSUME NEW t \in Seq(Rules), NEW n, Candidates(t, n) # {}
  PROVE  /\ Min(Candidates(t, n)) \in DOMAIN t /\ Matches(t[Min(Candidates(t, n))], n)
         /\ \A j \in DOMAIN t : Matches(t[j], n) => Min(Candidates(t, n)) <= j
<1>1. Candidates(t, n) \in SUBSET Nat
  BY DEF Candidates
<1>2. Min(Candidates(t, n)) \in Candidates(t, n) /\ \A j \in Candidates(t, n) : Min(Candidates(t, n)) <= j
  BY <1>1, MinIs
<1> QED
  BY <1>2 DEF Candidates

\* Two tables with the same rules, those for one thing in the same order.
SameRules(t, u) ==
  /\ ToSet(u) = ToSet(t)
  /\ \A i, j \in DOMAIN t : \A k, l \in DOMAIN u :
       i < j /\ SameName(t[i], t[j]) /\ u[k] = t[i] /\ u[l] = t[j] => ~(l < k)

LEMMA SameRule ==
  ASSUME AliasAssumption, NEW t \in Seq(Rules), Sorted(t), NEW u \in Seq(Rules), Sorted(u),
         SameRules(t, u), NEW n
  PROVE  /\ Candidates(u, n) = {} <=> Candidates(t, n) = {}
         /\ Candidates(t, n) # {} => u[Min(Candidates(u, n))] = t[Min(Candidates(t, n))]
<1>1. /\ \A i \in DOMAIN t : \E k \in DOMAIN u : u[k] = t[i]
      /\ \A k \in DOMAIN u : \E i \in DOMAIN t : t[i] = u[k]
  <2>1. /\ \A i \in DOMAIN t : t[i] \in ToSet(u)
        /\ \A k \in DOMAIN u : u[k] \in ToSet(t)
    BY DEF SameRules, ToSet
  <2> QED
    BY <2>1 DEF ToSet
<1>2. Candidates(u, n) = {} <=> Candidates(t, n) = {}
  BY <1>1 DEF Candidates
<1>3. ASSUME Candidates(t, n) # {}
      PROVE  u[Min(Candidates(u, n))] = t[Min(Candidates(t, n))]
  <2> DEFINE i == Min(Candidates(t, n))
             k == Min(Candidates(u, n))
  <2>1. i \in DOMAIN t /\ Matches(t[i], n) /\ \A j \in DOMAIN t : Matches(t[j], n) => i <= j
    BY <1>3, FirstIs
  <2>2. k \in DOMAIN u /\ Matches(u[k], n) /\ \A l \in DOMAIN u : Matches(u[l], n) => k <= l
    BY <1>2, <1>3, FirstIs
  <2> HIDE DEF i, k
  <2>3. PICK j \in DOMAIN t : t[j] = u[k]
    BY <1>1, <2>2
  <2>4. PICK l \in DOMAIN u : u[l] = t[i]
    BY <1>1, <2>1
  <2>5. i <= j /\ k <= l
    BY <2>1, <2>2, <2>3, <2>4
  <2>6. SUFFICES ASSUME t[i] # u[k] PROVE FALSE
    BY DEF i, k
  <2>7. i < j /\ k < l
    BY <2>1, <2>2, <2>3, <2>4, <2>5, <2>6
  <2>8. ~Precedes(t[j], t[i]) /\ ~Precedes(u[l], u[k])
    BY <2>1, <2>2, <2>7 DEF Sorted
  <2>9. SameName(t[i], t[j])
    BY <2>1, <2>2, <2>3, <2>4, <2>8, OneNameEach
  <2>10. ~(k < l)
    BY <2>1, <2>2, <2>3, <2>4, <2>7, <2>9 DEF SameRules
  <2> QED
    BY <2>7, <2>10
<1> QED
  BY <1>2, <1>3

(***************************************************************************)
(* The walk, turn by turn.                                                 *)

LEMMA BudgetIsNat ==
  ASSUME AliasAssumption
  PROVE  Budget \in Nat /\ Budget >= 1
BY DEF AliasAssumption, Budget

Moved(t, w) == IF w.stage = "walking" THEN Turn(t, w) ELSE w

LEMMA TurnsAre ==
  ASSUME AliasAssumption, NEW t, NEW n
  PROVE  /\ Turns(t, n)[0] = Walked(<<n>>, << >>, "walking")
         /\ \A k \in 1 .. Budget : Turns(t, n)[k] = Moved(t, Turns(t, n)[k - 1])
<1> DEFINE first == Walked(<<n>>, << >>, "walking")
           Rule(g, m) == [k \in 0 .. m |-> IF k = 0 THEN first ELSE Moved(t, g[k - 1])]
           Exists(m) == \E g : g = Rule(g, m)
           turn == CHOOSE g : g = Rule(g, Budget)
<1>1. Turns(t, n) = turn
  BY DEF Turns, Moved
<1>2. Budget \in Nat
  BY BudgetIsNat
<1> HIDE DEF first
<1>3. Exists(0)
  <2> DEFINE g == [k \in 0 .. 0 |-> first]
  <2>1. g = Rule(g, 0)
    <3>1. \A k \in 0 .. 0 : k = 0
      OBVIOUS
    <3> QED
      BY <3>1
  <2> QED
    BY <2>1
<1>4. ASSUME NEW m \in Nat, Exists(m) PROVE Exists(m + 1)
  <2>1. PICK g : g = Rule(g, m)
    BY <1>4
  <2> DEFINE h == [k \in 0 .. m + 1 |-> IF k = m + 1 THEN Moved(t, g[m]) ELSE g[k]]
  <2>2. \A k \in 0 .. m + 1 : h[k] = IF k = 0 THEN first ELSE Moved(t, h[k - 1])
    <3> SUFFICES ASSUME NEW k \in 0 .. m + 1
                 PROVE  h[k] = IF k = 0 THEN first ELSE Moved(t, h[k - 1])
      OBVIOUS
    <3>1. \A i \in 0 .. m : h[i] = g[i]
      OBVIOUS
    <3>2. h[m + 1] = Moved(t, g[m])
      OBVIOUS
    <3>3. \A i \in 0 .. m : g[i] = IF i = 0 THEN first ELSE Moved(t, g[i - 1])
      BY <2>1
    <3> HIDE DEF h
    <3>4. CASE k = m + 1
      <4>1. k - 1 = m /\ k # 0 /\ m \in 0 .. m
        BY <3>4
      <4> QED
        BY <3>1, <3>2, <3>4, <4>1
    <3>5. CASE k # m + 1
      <4>1. k \in 0 .. m /\ (k # 0 => k - 1 \in 0 .. m)
        BY <3>5
      <4> QED
        BY <3>1, <3>3, <4>1
    <3> QED
      BY <3>4, <3>5
  <2>3. h = [k \in 0 .. m + 1 |-> h[k]]
    OBVIOUS
  <2> HIDE DEF h
  <2>4. h = Rule(h, m + 1)
    BY <2>2, <2>3
  <2> QED
    BY <2>4
<1> HIDE DEF Exists
<1>5. Exists(Budget)
  <2> DEFINE S == {m \in Nat : Exists(m)}
  <2>1. S \in SUBSET Nat /\ 0 \in S /\ \A m \in S : m + 1 \in S
    BY <1>3, <1>4
  <2>2. S = Nat
    <3> HIDE DEF S
    <3> QED
      BY <2>1, EveryNat
  <2> QED
    BY <1>2, <2>2
<1>6. turn = Rule(turn, Budget)
  BY <1>5 DEF Exists
<1> HIDE DEF turn
<1>7. turn[0] = first /\ \A k \in 1 .. Budget : turn[k] = Moved(t, turn[k - 1])
  BY <1>2, <1>6
<1> QED
  BY <1>1, <1>7 DEF first

Stages == {"walking", "ended", "refused"}
LEMMA TurnsOK ==
  ASSUME AliasAssumption, NEW t \in Seq(Rules), NEW n
  PROVE  \A k \in 0 .. Budget : Turns(t, n)[k].applied \in Seq(DOMAIN t) /\ Turns(t, n)[k].stage \in Stages
<1> DEFINE w(k) == Turns(t, n)[k]
           Good(k) == w(k).applied \in Seq(DOMAIN t) /\ w(k).stage \in Stages
           S == {k \in 0 .. Budget : Good(k)}
<1>1. w(0) = Walked(<<n>>, << >>, "walking") /\ \A k \in 1 .. Budget : w(k) = Moved(t, w(k - 1))
  BY TurnsAre
<1>2. Budget \in Nat
  BY BudgetIsNat
<1> HIDE DEF w
<1>3. Good(0)
  <2>1. w(0).applied = << >> /\ w(0).stage = "walking"
    BY <1>1 DEF Walked
  <2>2. << >> \in Seq(DOMAIN t)
    BY EmptySeq
  <2> QED
    BY <2>1, <2>2 DEF Stages
<1>4. ASSUME NEW k \in 0 .. Budget, Good(k), k < Budget PROVE Good(k + 1)
  <2>1. w(k + 1) = Moved(t, w(k))
    <3>1. k + 1 \in 1 .. Budget /\ (k + 1) - 1 = k
      BY <1>2, <1>4
    <3> QED
      BY <1>1, <3>1
  <2> DEFINE current == Last(w(k).trail)
             i == Min(Candidates(t, current))
  <2>2. CASE w(k).stage # "walking"
    BY <1>4, <2>1, <2>2 DEF Moved
  <2>3. CASE w(k).stage = "walking" /\ Candidates(t, current) = {}
    BY <1>4, <2>1, <2>3 DEF Moved, Turn, Walked, Stages
  <2>4. CASE w(k).stage = "walking" /\ Candidates(t, current) # {}
    <3>1. i \in DOMAIN t
      BY <2>4, FirstIs
    <3>2. Append(w(k).applied, i) \in Seq(DOMAIN t)
      BY <1>4, <3>1
    <3>3. /\ w(k + 1).applied = Append(w(k).applied, i)
          /\ w(k + 1).stage \in Stages
      BY <2>1, <2>4 DEF Moved, Turn, Walked, Stages
    <3> QED
      BY <3>2, <3>3
  <2> QED
    BY <2>2, <2>3, <2>4
<1>5. S \in SUBSET (0 .. Budget) /\ 0 \in S /\ \A k \in S : k < Budget => k + 1 \in S
  BY <1>2, <1>3, <1>4
<1>6. S = 0 .. Budget
  <2>1. 0 \in Nat /\ Budget \in Nat /\ 0 <= Budget
    BY <1>2
  <2> HIDE DEF S
  <2> QED
    BY <2>1, <1>5, UpTo
<1> QED
  BY <1>6 DEF w

LEMMA WalkPath ==
  ASSUME AliasAssumption, NEW t \in Seq(Rules), NEW n
  PROVE  /\ Walk(t, n).kind \in {"direct", "aliased", "refused"}
         /\ Walk(t, n).rules \in Seq(DOMAIN t)
         /\ Walk(t, n).kind = "aliased" => Walk(t, n).rules # << >>
<1> DEFINE w == Turns(t, n)[Budget]
<1>1. w.applied \in Seq(DOMAIN t)
  <2>1. Budget \in 0 .. Budget
    BY BudgetIsNat
  <2> QED
    BY <2>1, TurnsOK
<1> HIDE DEF w
<1>2. \/ Walk(t, n) = Direct
      \/ Walk(t, n) = Refused(w.applied)
      \/ w.applied # << >> /\ Walk(t, n) = Aliased(n, Last(w.trail), w.applied)
  BY DEF Walk, w
<1>3. << >> \in Seq(DOMAIN t)
  BY EmptySeq
<1>4. CASE Walk(t, n) = Direct
  BY <1>3, <1>4 DEF Direct
<1>5. CASE Walk(t, n) = Refused(w.applied)
  BY <1>1, <1>5 DEF Refused
<1>6. CASE w.applied # << >> /\ Walk(t, n) = Aliased(n, Last(w.trail), w.applied)
  BY <1>1, <1>6 DEF Aliased
<1> QED
  BY <1>2, <1>4, <1>5, <1>6

\* Tables that are alike walk a name through the same names.
LEMMA SameTurns ==
  ASSUME AliasAssumption, NEW t \in Seq(Rules), Sorted(t), NEW u \in Seq(Rules), Sorted(u),
         SameRules(t, u), NEW n
  PROVE  \A k \in 0 .. Budget :
           /\ Turns(u, n)[k].trail = Turns(t, n)[k].trail
           /\ Turns(u, n)[k].stage = Turns(t, n)[k].stage
           /\ Len(Turns(u, n)[k].applied) = Len(Turns(t, n)[k].applied)
<1> DEFINE a(k) == Turns(t, n)[k]
           b(k) == Turns(u, n)[k]
           Good(k) == /\ b(k).trail = a(k).trail /\ b(k).stage = a(k).stage
                      /\ Len(b(k).applied) = Len(a(k).applied)
           S == {k \in 0 .. Budget : Good(k)}
<1>1. /\ a(0) = Walked(<<n>>, << >>, "walking") /\ \A k \in 1 .. Budget : a(k) = Moved(t, a(k - 1))
      /\ b(0) = Walked(<<n>>, << >>, "walking") /\ \A k \in 1 .. Budget : b(k) = Moved(u, b(k - 1))
  BY TurnsAre
<1>2. /\ \A k \in 0 .. Budget : a(k).applied \in Seq(DOMAIN t)
      /\ \A k \in 0 .. Budget : b(k).applied \in Seq(DOMAIN u)
  BY TurnsOK
<1>3. Budget \in Nat /\ 0 <= Budget
  BY BudgetIsNat
<1> HIDE DEF a, b
<1>4. Good(0)
  BY <1>1
<1>5. ASSUME NEW k \in 0 .. Budget, Good(k), k < Budget PROVE Good(k + 1)
  <2>1. a(k + 1) = Moved(t, a(k)) /\ b(k + 1) = Moved(u, b(k))
    <3>1. k + 1 \in 1 .. Budget /\ (k + 1) - 1 = k
      BY <1>3, <1>5
    <3> QED
      BY <1>1, <3>1
  <2> DEFINE current == Last(a(k).trail)
             i == Min(Candidates(t, current))
             j == Min(Candidates(u, current))
  <2>2. current = Last(b(k).trail)
    BY <1>5
  <2>3. CASE a(k).stage # "walking"
    BY <1>5, <2>1, <2>3 DEF Moved
  <2>4. CASE a(k).stage = "walking" /\ Candidates(t, current) = {}
    <3>1. Candidates(u, current) = {}
      BY <2>4, SameRule
    <3> QED
      BY <1>5, <2>1, <2>2, <2>4, <3>1 DEF Moved, Turn, Walked
  <2>5. CASE a(k).stage = "walking" /\ Candidates(t, current) # {}
    <3>1. Candidates(u, current) # {} /\ u[j] = t[i]
      BY <2>5, SameRule
    <3>2. i \in DOMAIN t /\ j \in DOMAIN u
      BY <2>5, <3>1, FirstIs
    <3>3. Len(Append(b(k).applied, j)) = Len(Append(a(k).applied, i))
      <4>1. Len(Append(a(k).applied, i)) = Len(a(k).applied) + 1
        BY <1>2, <3>2
      <4>2. Len(Append(b(k).applied, j)) = Len(b(k).applied) + 1
        BY <1>2, <3>2
      <4> QED
        BY <1>5, <4>1, <4>2
    <3> DEFINE next == Apply(t[i], current)
    <3>4. next = Apply(u[j], current)
      BY <3>1
    <3>5. CASE next \in NotIris \cup ToSet(a(k).trail)
      <4>1. a(k + 1) = Walked(a(k).trail, Append(a(k).applied, i), "refused")
        BY <2>1, <2>5, <3>5 DEF Moved, Turn
      <4>2. b(k + 1) = Walked(b(k).trail, Append(b(k).applied, j), "refused")
        BY <1>5, <2>1, <2>2, <2>5, <3>1, <3>4, <3>5 DEF Moved, Turn
      <4> QED
        BY <1>5, <3>3, <4>1, <4>2 DEF Walked
    <3>6. CASE next \notin NotIris \cup ToSet(a(k).trail)
      <4>1. a(k + 1) = Walked(Append(a(k).trail, next), Append(a(k).applied, i), "walking")
        BY <2>1, <2>5, <3>6 DEF Moved, Turn
      <4>2. b(k + 1) = Walked(Append(b(k).trail, next), Append(b(k).applied, j), "walking")
        BY <1>5, <2>1, <2>2, <2>5, <3>1, <3>4, <3>6 DEF Moved, Turn
      <4>3. Append(b(k).trail, next) = Append(a(k).trail, next)
        BY <1>5
      <4>4. /\ a(k + 1).trail = Append(a(k).trail, next) /\ a(k + 1).stage = "walking"
            /\ a(k + 1).applied = Append(a(k).applied, i)
        BY <4>1 DEF Walked
      <4>5. /\ b(k + 1).trail = Append(b(k).trail, next) /\ b(k + 1).stage = "walking"
            /\ b(k + 1).applied = Append(b(k).applied, j)
        BY <4>2 DEF Walked
      <4> QED
        BY <3>3, <4>3, <4>4, <4>5
    <3> QED
      BY <3>5, <3>6
  <2> QED
    BY <2>3, <2>4, <2>5
<1>6. S \in SUBSET (0 .. Budget) /\ 0 \in S /\ \A k \in S : k < Budget => k + 1 \in S
  BY <1>3, <1>4, <1>5
<1>7. S = 0 .. Budget
  <2> HIDE DEF S
  <2> QED
    BY <1>3, <1>6, UpTo
<1> QED
  BY <1>7 DEF a, b

LEMMA SameWalk ==
  ASSUME AliasAssumption, NEW t \in Seq(Rules), Sorted(t), NEW u \in Seq(Rules), Sorted(u),
         SameRules(t, u), NEW n
  PROVE  /\ Walk(t, n).kind = Walk(u, n).kind
         /\ Walk(t, n).kind = "aliased" => Walk(t, n).canonical = Walk(u, n).canonical
<1> DEFINE v == Turns(t, n)[Budget]
           w == Turns(u, n)[Budget]
<1>1. Budget \in 0 .. Budget
  BY BudgetIsNat
<1>2. w.trail = v.trail /\ w.stage = v.stage /\ Len(w.applied) = Len(v.applied)
  BY <1>1, SameTurns
<1>3. v.applied \in Seq(DOMAIN t) /\ w.applied \in Seq(DOMAIN u)
  BY <1>1, TurnsOK
<1>4. w.applied = << >> <=> v.applied = << >>
  BY <1>2, <1>3, SMTT(20)
<1> QED
  BY <1>2, <1>4 DEF Walk, Direct, Aliased, Refused

(***************************************************************************)
(* A named request.                                                        *)

\* What is sent once the first k rules of the path have been merged, for each k.
Sending(sent, t, applied, verb, args) ==
  /\ sent[0] = [ok |-> TRUE, args |-> args]
  /\ \A k \in 1 .. Len(applied) :
       sent[k] = IF sent[k - 1].ok THEN Merge(t[applied[k]], verb, sent[k - 1].args)
                 ELSE sent[k - 1]
  /\ sent[Len(applied)] = Forwarded(t, applied, verb, args)

LEMMA SentIs ==
  ASSUME NEW t, NEW D, NEW applied \in Seq(D), NEW verb, NEW args
  PROVE  \E sent : Sending(sent, t, applied, verb, args)
<1> DEFINE first == [ok |-> TRUE, args |-> args]
           Merged(x, k) == IF x.ok THEN Merge(t[applied[k]], verb, x.args) ELSE x
           Rule(g, m) == [k \in 0 .. m |-> IF k = 0 THEN first ELSE Merged(g[k - 1], k)]
           Exists(m) == \E g : g = Rule(g, m)
           sent == CHOOSE g : g = Rule(g, Len(applied))
<1>1. Forwarded(t, applied, verb, args) = sent[Len(applied)]
  BY DEF Forwarded
<1>2. Len(applied) \in Nat
  OBVIOUS
<1> HIDE DEF first, Merged
<1>3. Exists(0)
  <2> DEFINE g == [k \in 0 .. 0 |-> first]
  <2>1. g = Rule(g, 0)
    <3>1. \A k \in 0 .. 0 : k = 0
      OBVIOUS
    <3> QED
      BY <3>1
  <2> QED
    BY <2>1
<1>4. ASSUME NEW m \in Nat, Exists(m) PROVE Exists(m + 1)
  <2>1. PICK g : g = Rule(g, m)
    BY <1>4
  <2> DEFINE h == [k \in 0 .. m + 1 |-> IF k = m + 1 THEN Merged(g[m], m + 1) ELSE g[k]]
  <2>2. \A k \in 0 .. m + 1 : h[k] = IF k = 0 THEN first ELSE Merged(h[k - 1], k)
    <3> SUFFICES ASSUME NEW k \in 0 .. m + 1
                 PROVE  h[k] = IF k = 0 THEN first ELSE Merged(h[k - 1], k)
      OBVIOUS
    <3>1. \A i \in 0 .. m : h[i] = g[i]
      OBVIOUS
    <3>2. h[m + 1] = Merged(g[m], m + 1)
      OBVIOUS
    <3>3. \A i \in 0 .. m : g[i] = IF i = 0 THEN first ELSE Merged(g[i - 1], i)
      BY <2>1
    <3> HIDE DEF h
    <3>4. CASE k = m + 1
      <4>1. k - 1 = m /\ k # 0 /\ m \in 0 .. m
        BY <3>4
      <4> QED
        BY <3>1, <3>2, <3>4, <4>1
    <3>5. CASE k # m + 1
      <4>1. k \in 0 .. m /\ (k # 0 => k - 1 \in 0 .. m)
        BY <3>5
      <4> QED
        BY <3>1, <3>3, <4>1
    <3> QED
      BY <3>4, <3>5
  <2>3. h = [k \in 0 .. m + 1 |-> h[k]]
    OBVIOUS
  <2> HIDE DEF h
  <2>4. h = Rule(h, m + 1)
    BY <2>2, <2>3
  <2> QED
    BY <2>4
<1> HIDE DEF Exists
<1>5. Exists(Len(applied))
  <2> DEFINE S == {m \in Nat : Exists(m)}
  <2>1. S \in SUBSET Nat /\ 0 \in S /\ \A m \in S : m + 1 \in S
    BY <1>3, <1>4
  <2>2. S = Nat
    <3> HIDE DEF S
    <3> QED
      BY <2>1, EveryNat
  <2> QED
    BY <1>2, <2>2
<1>6. sent = Rule(sent, Len(applied))
  BY <1>5 DEF Exists
<1> HIDE DEF sent
<1>7. sent[0] = first /\ \A k \in 1 .. Len(applied) : sent[k] = Merged(sent[k - 1], k)
  BY <1>2, <1>6
<1> QED
  BY <1>1, <1>7 DEF first, Merged, Sending

LEMMA MergeKeeps ==
  ASSUME NEW rule, NEW verb, NEW args, Merge(rule, verb, args).ok
  PROVE  LET got == Merge(rule, verb, args).args
         IN  /\ DOMAIN args \subseteq DOMAIN got /\ DOMAIN rule.fixes \subseteq DOMAIN got
             /\ \A a \in DOMAIN args : got[a] = args[a]
             /\ \A a \in DOMAIN rule.fixes : got[a] = rule.fixes[a]
<1>1. Merge(rule, verb, args) = [ok |-> TRUE, args |-> Beside(Beside(args, rule.fixes), rule.defaults)]
      /\ DOMAIN rule.fixes \cap DOMAIN args = {}
  BY DEF Merge, RefusedRequest
<1> DEFINE f == Beside(args, rule.fixes)
           g == Beside(f, rule.defaults)
<1>2. /\ DOMAIN f = DOMAIN args \cup DOMAIN rule.fixes
      /\ \A a \in DOMAIN args : f[a] = args[a]
      /\ \A a \in DOMAIN rule.fixes : f[a] = rule.fixes[a]
  BY <1>1 DEF Beside
<1> HIDE DEF f
<1>3. DOMAIN f \subseteq DOMAIN g /\ \A a \in DOMAIN f : g[a] = f[a]
  BY DEF Beside
<1>4. Merge(rule, verb, args).args = g
  BY <1>1 DEF f
<1> HIDE DEF g
<1> QED
  BY <1>2, <1>3, <1>4

\* What was given and what was fixed, once the first k rules have been merged.
Carries(x, t, applied, args, k) ==
  x.ok =>
    /\ DOMAIN args \subseteq DOMAIN x.args /\ \A a \in DOMAIN args : x.args[a] = args[a]
    /\ \A j \in 1 .. k : LET fixes == t[applied[j]].fixes
                         IN  /\ DOMAIN fixes \subseteq DOMAIN x.args
                             /\ \A a \in DOMAIN fixes : x.args[a] = fixes[a]

LEMMA MergeCarries ==
  ASSUME NEW x, NEW t, NEW applied, NEW args, NEW k \in Nat, Carries(x, t, applied, args, k), NEW verb
  PROVE  Carries(IF x.ok THEN Merge(t[applied[k + 1]], verb, x.args) ELSE x, t, applied, args, k + 1)
<1> DEFINE rule == t[applied[k + 1]]
           y == Merge(rule, verb, x.args)
<1>1. CASE ~x.ok
  BY <1>1 DEF Carries
<1>2. CASE x.ok
  <2> SUFFICES ASSUME y.ok PROVE Carries(y, t, applied, args, k + 1)
    BY <1>2 DEF Carries
  <2>1. /\ DOMAIN x.args \subseteq DOMAIN y.args /\ DOMAIN rule.fixes \subseteq DOMAIN y.args
        /\ \A a \in DOMAIN x.args : y.args[a] = x.args[a]
        /\ \A a \in DOMAIN rule.fixes : y.args[a] = rule.fixes[a]
    BY MergeKeeps
  <2> HIDE DEF y
  <2>2. DOMAIN args \subseteq DOMAIN y.args /\ \A a \in DOMAIN args : y.args[a] = args[a]
    BY <1>2, <2>1 DEF Carries
  <2>3. ASSUME NEW j \in 1 .. k + 1
        PROVE  /\ DOMAIN t[applied[j]].fixes \subseteq DOMAIN y.args
               /\ \A a \in DOMAIN t[applied[j]].fixes : y.args[a] = t[applied[j]].fixes[a]
    <3>1. CASE j = k + 1
      BY <2>1, <3>1
    <3>2. CASE j # k + 1
      <4>1. j \in 1 .. k
        BY <3>2
      <4> QED
        BY <1>2, <2>1, <4>1 DEF Carries
    <3> QED
      BY <3>1, <3>2
  <2> QED
    BY <2>2, <2>3 DEF Carries
<1> QED
  BY <1>1, <1>2

LEMMA ForwardedCarries ==
  ASSUME NEW t, NEW D, NEW applied \in Seq(D), NEW verb, NEW args
  PROVE  Carries(Forwarded(t, applied, verb, args), t, applied, args, Len(applied))
<1>1. PICK sent : Sending(sent, t, applied, verb, args)
  BY SentIs
<1> DEFINE Good(k) == Carries(sent[k], t, applied, args, k)
           S == {k \in 0 .. Len(applied) : Good(k)}
<1>2. Len(applied) \in Nat /\ 0 <= Len(applied)
  OBVIOUS
<1>3. Good(0)
  BY <1>1 DEF Carries, Sending
<1>4. ASSUME NEW k \in 0 .. Len(applied), Good(k), k < Len(applied) PROVE Good(k + 1)
  <2>1. k + 1 \in 1 .. Len(applied) /\ (k + 1) - 1 = k /\ k \in Nat
    BY <1>2, <1>4
  <2>2. sent[k + 1] = IF sent[k].ok THEN Merge(t[applied[k + 1]], verb, sent[k].args) ELSE sent[k]
    BY <1>1, <2>1 DEF Sending
  <2> QED
    BY <1>4, <2>1, <2>2, MergeCarries
<1> HIDE DEF Good
<1>5. S \in SUBSET (0 .. Len(applied)) /\ 0 \in S /\ \A k \in S : k < Len(applied) => k + 1 \in S
  BY <1>2, <1>3, <1>4
<1>6. S = 0 .. Len(applied)
  <2> HIDE DEF S
  <2> QED
    BY <1>2, <1>5, UpTo
<1>7. Good(Len(applied))
  BY <1>2, <1>6
<1> QED
  BY <1>1, <1>7 DEF Good, Sending

LEMMA NamedRequests ==
  ASSUME AliasAssumption, rules \in Seq(Rules)
  PROVE  NamedRequestHolds
<1> SUFFICES ASSUME NEW n \in AliasNames, NEW verb \in {"Source", "Sink", "Exists"},
                    NEW given \in SUBSET Arguments,
                    Forwarded(rules, Walk(rules, n).rules, verb, [a \in given |-> "caller"]).ok
             PROVE  LET path == Walk(rules, n).rules
                        sent == Forwarded(rules, path, verb, [a \in given |-> "caller"])
                    IN  /\ \A a \in given : sent.args[a] = "caller"
                        /\ \A k \in DOMAIN path : LET fixes == rules[path[k]].fixes
                                                  IN  \A a \in DOMAIN fixes : sent.args[a] = fixes[a]
  BY DEF NamedRequestHolds
<1> DEFINE path == Walk(rules, n).rules
           asked == [a \in given |-> "caller"]
           sent == Forwarded(rules, path, verb, asked)
<1>1. path \in Seq(DOMAIN rules)
  BY WalkPath
<1>2. DOMAIN asked = given /\ \A a \in given : asked[a] = "caller"
  OBVIOUS
<1>3. sent.ok
  OBVIOUS
<1> HIDE DEF path, asked
<1>4. Carries(sent, rules, path, asked, Len(path))
  BY <1>1, ForwardedCarries
<1> HIDE DEF sent
<1>5. DOMAIN path = 1 .. Len(path)
  BY <1>1
<1>6. /\ \A a \in given : sent.args[a] = "caller"
      /\ \A k \in DOMAIN path : LET fixes == rules[path[k]].fixes
                                IN  \A a \in DOMAIN fixes : sent.args[a] = fixes[a]
  BY <1>2, <1>3, <1>4, <1>5 DEF Carries
<1> QED
  BY <1>6 DEF sent, path, asked

(***************************************************************************)
(* To the end of the chain.                                                *)

LEMMA ChainIs ==
  ASSUME AliasAssumption, NEW n \in AliasNames
  PROVE  Chain[n][1] = n /\ \A k \in 1 .. Budget : Chain[n][k + 1] = NextName(Chain[n][k])
<1> DEFINE Rule(g, m) == [k \in 1 .. m + 1 |-> IF k = 1 THEN n ELSE NextName(g[k - 1])]
           Exists(m) == \E g : g = Rule(g, m)
           name == CHOOSE g : g = Rule(g, Budget)
<1>1. Chain[n] = name
  BY DEF Chain
<1>2. Budget \in Nat
  BY BudgetIsNat
<1>3. Exists(0)
  <2> DEFINE g == [k \in 1 .. 0 + 1 |-> n]
  <2>1. g = Rule(g, 0)
    <3>1. \A k \in 1 .. 0 + 1 : k = 1
      OBVIOUS
    <3> QED
      BY <3>1
  <2> QED
    BY <2>1
<1>4. ASSUME NEW m \in Nat, Exists(m) PROVE Exists(m + 1)
  <2>1. PICK g : g = Rule(g, m)
    BY <1>4
  <2> DEFINE h == [k \in 1 .. (m + 1) + 1 |-> IF k = m + 2 THEN NextName(g[m + 1]) ELSE g[k]]
  <2>2. \A k \in 1 .. (m + 1) + 1 : h[k] = IF k = 1 THEN n ELSE NextName(h[k - 1])
    <3> SUFFICES ASSUME NEW k \in 1 .. (m + 1) + 1
                 PROVE  h[k] = IF k = 1 THEN n ELSE NextName(h[k - 1])
      OBVIOUS
    <3>1. \A i \in 1 .. m + 1 : h[i] = g[i]
      OBVIOUS
    <3>2. h[m + 2] = NextName(g[m + 1])
      OBVIOUS
    <3>3. \A i \in 1 .. m + 1 : g[i] = IF i = 1 THEN n ELSE NextName(g[i - 1])
      BY <2>1
    <3> HIDE DEF h
    <3>4. CASE k = m + 2
      <4>1. k - 1 = m + 1 /\ k # 1 /\ m + 1 \in 1 .. m + 1
        BY <3>4
      <4> QED
        BY <3>1, <3>2, <3>4, <4>1
    <3>5. CASE k # m + 2
      <4>1. k \in 1 .. m + 1 /\ (k # 1 => k - 1 \in 1 .. m + 1)
        BY <3>5
      <4> QED
        BY <3>1, <3>3, <4>1
    <3> QED
      BY <3>4, <3>5
  <2>3. h = [k \in 1 .. (m + 1) + 1 |-> h[k]]
    OBVIOUS
  <2> HIDE DEF h
  <2>4. h = Rule(h, m + 1)
    BY <2>2, <2>3
  <2> QED
    BY <2>4
<1> HIDE DEF Exists
<1>5. Exists(Budget)
  <2> DEFINE S == {m \in Nat : Exists(m)}
  <2>1. S \in SUBSET Nat /\ 0 \in S /\ \A m \in S : m + 1 \in S
    BY <1>3, <1>4
  <2>2. S = Nat
    <3> HIDE DEF S
    <3> QED
      BY <2>1, EveryNat
  <2> QED
    BY <1>2, <2>2
<1>6. name = Rule(name, Budget)
  BY <1>5 DEF Exists
<1> HIDE DEF name
<1>7. \A k \in 1 .. Budget + 1 : name[k] = IF k = 1 THEN n ELSE NextName(name[k - 1])
  BY <1>2, <1>6
<1>8. ASSUME NEW k \in 1 .. Budget PROVE name[k + 1] = NextName(name[k])
  <2>1. k + 1 \in 1 .. Budget + 1 /\ k + 1 # 1 /\ (k + 1) - 1 = k
    BY <1>2
  <2> QED
    BY <1>7, <2>1
<1>9. name[1] = n
  <2>1. 1 \in 1 .. Budget + 1
    BY <1>2
  <2> QED
    BY <1>7, <2>1
<1> QED
  BY <1>1, <1>8, <1>9

\* A walk of m rewrites along the chain from n.
Along(w, n, m) ==
  /\ w.trail \in Seq({Chain[n][j] : j \in 1 .. Budget + 1}) /\ Len(w.trail) = m + 1
  /\ \A j \in 1 .. m + 1 : w.trail[j] = Chain[n][j]
  /\ Len(w.applied) = m
  /\ \A j \in 1 .. m : Candidates(rules, Chain[n][j]) # {}
  /\ \A j \in 2 .. m + 1 : Chain[n][j] \notin NotIris

\* The chain is followed for m rewrites, and the next gives no name or a name seen.
Breaks(n, m) ==
  /\ \A j \in 1 .. m + 1 : Candidates(rules, Chain[n][j]) # {}
  /\ Chain[n][m + 2] \in NotIris \/ \E i \in 1 .. m + 1 : Chain[n][m + 2] = Chain[n][i]

Follows(w, n, k) ==
  \/ w.stage = "walking" /\ Along(w, n, k)
  \/ /\ w.stage = "ended"
     /\ \E m \in 0 .. k - 1 : Along(w, n, m) /\ Candidates(rules, Chain[n][m + 1]) = {}
  \/ w.stage = "refused" /\ \E m \in 0 .. k - 1 : Breaks(n, m)

LEMMA TurnFollows ==
  ASSUME AliasAssumption, NEW n \in AliasNames, NEW w,
         rules \in Seq(Rules), w.applied \in Seq(DOMAIN rules),
         NEW k \in 0 .. Budget - 1, Along(w, n, k)
  PROVE  Follows(Turn(rules, w), n, k + 1)
<1> DEFINE c == Chain[n]
           C == {Chain[n][j] : j \in 1 .. Budget + 1}
           current == Last(w.trail)
           i == Min(Candidates(rules, current))
           next == Apply(rules[i], current)
<1>1. Budget \in Nat
  BY BudgetIsNat
<1>2. /\ w.trail \in Seq(C) /\ Len(w.trail) = k + 1 /\ \A j \in 1 .. k + 1 : w.trail[j] = c[j]
      /\ Len(w.applied) = k
      /\ \A j \in 1 .. k : Candidates(rules, c[j]) # {}
      /\ \A j \in 2 .. k + 1 : c[j] \notin NotIris
  BY DEF Along
<1>3. current = c[k + 1]
  <2>1. k + 1 \in 1 .. k + 1
    BY <1>1
  <2>2. w.trail[k + 1] = c[k + 1]
    BY <1>2, <2>1
  <2> QED
    BY <1>2, <2>2 DEF Last
<1>4. c[k + 2] = NextName(c[k + 1])
  <2>1. k + 1 \in 1 .. Budget /\ (k + 1) + 1 = k + 2
    BY <1>1
  <2> QED
    BY <2>1, ChainIs
<1> HIDE DEF C
<1>5. CASE Candidates(rules, current) = {}
  <2>1. Turn(rules, w) = Walked(w.trail, w.applied, "ended")
    BY <1>5 DEF Turn
  <2> DEFINE v == Walked(w.trail, w.applied, "ended")
  <2>2. v.trail = w.trail /\ v.applied = w.applied /\ v.stage = "ended"
    BY DEF Walked
  <2> HIDE DEF v
  <2>3. Along(v, n, k)
    BY <2>2 DEF Along
  <2>4. k \in 0 .. (k + 1) - 1
    BY <1>1
  <2>5. Follows(v, n, k + 1)
    BY <1>3, <1>5, <2>2, <2>3, <2>4 DEF Follows
  <2> QED
    BY <2>1, <2>5 DEF v
<1>6. CASE Candidates(rules, current) # {}
  <2>1. next = c[k + 2]
    BY <1>3, <1>4, <1>6 DEF NextName
  <2>2. \A j \in 1 .. k + 1 : Candidates(rules, c[j]) # {}
    <3> SUFFICES ASSUME NEW j \in 1 .. k + 1 PROVE Candidates(rules, c[j]) # {}
      OBVIOUS
    <3>1. j = k + 1 \/ j \in 1 .. k
      BY <1>1
    <3> QED
      BY <1>2, <1>3, <1>6, <3>1
  <2>3. ToSet(w.trail) = {c[j] : j \in 1 .. k + 1}
    <3>1. DOMAIN w.trail = 1 .. k + 1
      BY <1>2
    <3> QED
      BY <1>2, <3>1 DEF ToSet
  <2>4. CASE next \in NotIris \cup ToSet(w.trail)
    <3>1. Turn(rules, w).stage = "refused"
      BY <1>6, <2>4 DEF Turn, Walked
    <3>2. Breaks(n, k)
      BY <2>1, <2>2, <2>3, <2>4 DEF Breaks
    <3>3. k \in 0 .. (k + 1) - 1
      BY <1>1
    <3> QED
      BY <3>1, <3>2, <3>3 DEF Follows
  <2>5. CASE next \notin NotIris \cup ToSet(w.trail)
    <3> DEFINE v == Turn(rules, w)
    <3>1. /\ v.trail = Append(w.trail, next) /\ v.applied = Append(w.applied, i)
          /\ v.stage = "walking"
      BY <1>6, <2>5 DEF Turn, Walked
    <3> HIDE DEF v
    <3>2. next \in C
      <4>1. k + 2 \in 1 .. Budget + 1
        BY <1>1
      <4> QED
        BY <2>1, <4>1 DEF C
    <3>3. /\ v.trail \in Seq(C) /\ Len(v.trail) = k + 2 /\ v.trail[k + 2] = next
          /\ \A j \in 1 .. k + 1 : v.trail[j] = c[j]
      <4> HIDE DEF next, c
      <4> QED
        BY <1>1, <1>2, <3>1, <3>2
    <3>4. Len(v.applied) = k + 1
      <4>1. i \in DOMAIN rules
        BY <1>6, FirstIs
      <4> HIDE DEF i
      <4> QED
        BY <1>2, <3>1, <4>1
    <3>5. \A j \in 1 .. (k + 1) + 1 : v.trail[j] = c[j]
      <4> SUFFICES ASSUME NEW j \in 1 .. (k + 1) + 1 PROVE v.trail[j] = c[j]
        OBVIOUS
      <4>1. j = k + 2 \/ j \in 1 .. k + 1
        BY <1>1
      <4> QED
        BY <2>1, <3>3, <4>1
    <3>6. \A j \in 2 .. (k + 1) + 1 : c[j] \notin NotIris
      <4> SUFFICES ASSUME NEW j \in 2 .. (k + 1) + 1 PROVE c[j] \notin NotIris
        OBVIOUS
      <4>1. j = k + 2 \/ j \in 2 .. k + 1
        BY <1>1
      <4> QED
        BY <1>2, <2>1, <2>5, <4>1
    <3>7. k + 2 = (k + 1) + 1
      BY <1>1
    <3>8. Along(v, n, k + 1)
      BY <2>2, <3>3, <3>4, <3>5, <3>6, <3>7 DEF Along, C
    <3> QED
      BY <3>1, <3>8 DEF Follows, v
  <2> QED
    BY <2>4, <2>5
<1> QED
  BY <1>5, <1>6

LEMMA TurnsFollow ==
  ASSUME AliasAssumption, NEW n \in AliasNames, rules \in Seq(Rules)
  PROVE  \A k \in 0 .. Budget : Follows(Turns(rules, n)[k], n, k)
<1> DEFINE w(k) == Turns(rules, n)[k]
           Good(k) == Follows(w(k), n, k)
           S == {k \in 0 .. Budget : Good(k)}
<1>1. w(0) = Walked(<<n>>, << >>, "walking") /\ \A k \in 1 .. Budget : w(k) = Moved(rules, w(k - 1))
  BY TurnsAre
<1>2. \A k \in 0 .. Budget : w(k).applied \in Seq(DOMAIN rules)
  BY TurnsOK
<1>3. Budget \in Nat /\ 0 <= Budget
  BY BudgetIsNat
<1>4. Chain[n][1] = n
  BY ChainIs
<1> HIDE DEF w
<1>5. Good(0)
  <2>1. w(0).trail = <<n>> /\ w(0).applied = << >> /\ w(0).stage = "walking"
    BY <1>1 DEF Walked
  <2>2. n \in {Chain[n][j] : j \in 1 .. Budget + 1}
    <3>1. 1 \in 1 .. Budget + 1
      BY <1>3
    <3> QED
      BY <1>4, <3>1
  <2>3. <<n>> \in Seq({Chain[n][j] : j \in 1 .. Budget + 1}) /\ Len(<<n>>) = 0 + 1 /\ <<n>>[1] = n
    BY <2>2
  <2>4. 1 .. 0 + 1 = {1} /\ 1 .. 0 = {} /\ 2 .. 0 + 1 = {}
    OBVIOUS
  <2>5. Len(<< >>) = 0
    OBVIOUS
  <2>6. Along(w(0), n, 0)
    BY <1>4, <2>1, <2>3, <2>4, <2>5 DEF Along
  <2> QED
    BY <2>1, <2>6 DEF Follows
<1>6. ASSUME NEW k \in 0 .. Budget, Good(k), k < Budget PROVE Good(k + 1)
  <2>1. w(k + 1) = Moved(rules, w(k))
    <3>1. k + 1 \in 1 .. Budget /\ (k + 1) - 1 = k
      BY <1>3, <1>6
    <3> QED
      BY <1>1, <3>1
  <2>2. CASE w(k).stage = "walking"
    <3>1. k \in 0 .. Budget - 1
      BY <1>3, <1>6
    <3>2. Along(w(k), n, k)
      BY <1>6, <2>2 DEF Follows
    <3>3. Follows(Turn(rules, w(k)), n, k + 1)
      BY <1>2, <3>1, <3>2, TurnFollows
    <3> QED
      BY <2>1, <2>2, <3>3 DEF Moved
  <2>3. CASE w(k).stage # "walking"
    <3>1. \A m \in 0 .. k - 1 : m \in 0 .. (k + 1) - 1
      BY <1>3
    <3> QED
      BY <1>6, <2>1, <2>3, <3>1 DEF Moved, Follows
  <2> QED
    BY <2>2, <2>3
<1> HIDE DEF Good
<1>7. S \in SUBSET (0 .. Budget) /\ 0 \in S /\ \A k \in S : k < Budget => k + 1 \in S
  BY <1>3, <1>5, <1>6
<1>8. S = 0 .. Budget
  <2> HIDE DEF S
  <2> QED
    BY <1>3, <1>7, UpTo
<1> QED
  BY <1>8 DEF w, Good

\* A chain that has come to an end stays there.
LEMMA EndStays ==
  ASSUME AliasAssumption, NEW n \in AliasNames, NEW m \in 1 .. Budget + 1,
         Candidates(rules, Chain[n][m]) = {}
  PROVE  \A j \in m .. Budget + 1 : Chain[n][j] = Chain[n][m]
<1> DEFINE Good(j) == Chain[n][j] = Chain[n][m]
           S == {j \in m .. Budget + 1 : Good(j)}
<1>1. Budget \in Nat /\ m \in Nat /\ Budget + 1 \in Nat /\ m <= Budget + 1
  BY BudgetIsNat
<1>2. ASSUME NEW j \in m .. Budget + 1, Good(j), j < Budget + 1 PROVE Good(j + 1)
  <2>1. j \in 1 .. Budget
    BY <1>1, <1>2
  <2>2. Chain[n][j + 1] = NextName(Chain[n][j])
    BY <2>1, ChainIs
  <2> QED
    BY <1>2, <2>2 DEF NextName
<1>3. S \in SUBSET (m .. Budget + 1) /\ m \in S /\ \A j \in S : j < Budget + 1 => j + 1 \in S
  BY <1>1, <1>2
<1>4. S = m .. Budget + 1
  <2> HIDE DEF S
  <2> QED
    BY <1>1, <1>3, UpTo
<1> QED
  BY <1>4

\* A chain that comes back to itself never ends.
LEMMA CycleStays ==
  ASSUME AliasAssumption, NEW n \in AliasNames, NEW m \in 0 .. Budget - 1,
         \A j \in 1 .. m + 1 : Candidates(rules, Chain[n][j]) # {},
         NEW i \in 1 .. m + 1, Chain[n][m + 2] = Chain[n][i]
  PROVE  \A j \in 1 .. Budget : Candidates(rules, Chain[n][j]) # {}
<1> DEFINE c == Chain[n]
           Good(j) == \E x \in 1 .. m + 1 : c[j] = c[x]
           S == {j \in 1 .. Budget : Good(j)}
<1>1. Budget \in Nat /\ 1 <= Budget /\ m \in Nat
  BY BudgetIsNat
<1>2. ASSUME NEW j \in 1 .. Budget, Good(j), j < Budget PROVE Good(j + 1)
  <2>1. PICK x \in 1 .. m + 1 : c[j] = c[x]
    BY <1>2
  <2>2. x \in 1 .. Budget
    BY <1>1
  <2>3. c[j + 1] = NextName(c[j]) /\ c[x + 1] = NextName(c[x])
    BY <2>2, ChainIs
  <2>4. c[j + 1] = c[x + 1]
    BY <2>1, <2>3
  <2>5. CASE x = m + 1
    <3>1. x + 1 = m + 2
      BY <1>1, <2>5
    <3> QED
      BY <2>4, <3>1
  <2>6. CASE x # m + 1
    <3>1. x + 1 \in 1 .. m + 1
      BY <1>1, <2>6
    <3> QED
      BY <2>4, <3>1
  <2> QED
    BY <2>5, <2>6
<1>3. Good(1)
  <2>1. 1 \in 1 .. m + 1
    BY <1>1
  <2> QED
    BY <2>1
<1> HIDE DEF Good
<1>4. S \in SUBSET (1 .. Budget) /\ 1 \in S /\ \A j \in S : j < Budget => j + 1 \in S
  BY <1>1, <1>2, <1>3
<1>5. S = 1 .. Budget
  <2> HIDE DEF S
  <2> QED
    BY <1>1, <1>4, UpTo
<1>6. \A j \in 1 .. Budget : Good(j)
  BY <1>5
<1> QED
  BY <1>6 DEF Good

LEMMA WalkEnds ==
  ASSUME AliasAssumption, rules \in Seq(Rules)
  PROVE  WalksToTheEnd
<1> SUFFICES ASSUME NEW n \in AliasNames, n \notin Reserved
             PROVE  /\ (Walk(rules, n).kind = "direct") = (Candidates(rules, n) = {})
                    /\ Walk(rules, n).kind = "aliased" =>
                          EndsWithin(n, Budget - 1) /\ Walk(rules, n).canonical = Chain[n][Budget]
                    /\ Walk(rules, n).kind = "refused" => ~EndsWithin(n, Budget - 1)
  BY DEF WalksToTheEnd
<1> DEFINE c == Chain[n]
           w == Turns(rules, n)[Budget]
           found == Walk(rules, n)
<1>1. Budget \in Nat /\ 1 <= Budget /\ Budget \in 0 .. Budget /\ (Budget - 1) + 1 = Budget
  BY BudgetIsNat
<1>2. Follows(w, n, Budget) /\ w.applied \in Seq(DOMAIN rules) /\ c[1] = n
  BY <1>1, TurnsFollow, TurnsOK, ChainIs
<1> HIDE DEF w
<1>3. found = IF w.stage # "ended" THEN Refused(w.applied)
                ELSE IF w.applied = << >> THEN Direct
                ELSE Aliased(n, Last(w.trail), w.applied)
  BY DEF Walk, w
<1> HIDE DEF found, c
<1>4. EndsWithin(n, Budget - 1) <=> /\ Candidates(rules, c[Budget]) = {}
                                    /\ \A j \in 2 .. Budget : c[j] \notin NotIris
  BY <1>1 DEF EndsWithin, c
<1>5. CASE w.stage = "walking"
  <2>1. Along(w, n, Budget)
    BY <1>2, <1>5 DEF Follows
  <2>2. Candidates(rules, c[1]) # {} /\ Candidates(rules, c[Budget]) # {}
    BY <1>1, <2>1 DEF Along, c
  <2>3. found.kind = "refused"
    BY <1>3, <1>5 DEF Refused
  <2> QED
    BY <1>2, <1>4, <2>2, <2>3 DEF found
<1>6. CASE w.stage = "refused"
  <2>1. PICK m \in 0 .. Budget - 1 : Breaks(n, m)
    BY <1>2, <1>6 DEF Follows
  <2>2. Candidates(rules, c[1]) # {} /\ Candidates(rules, c[m + 1]) # {}
    BY <1>1, <2>1 DEF Breaks, c
  <2>3. found.kind = "refused"
    BY <1>3, <1>6 DEF Refused
  <2>4. ~EndsWithin(n, Budget - 1)
    <3>1. CASE m = Budget - 1
      BY <1>1, <1>4, <2>2, <3>1
    <3>2. CASE m # Budget - 1 /\ c[m + 2] \in NotIris
      <4>1. m + 2 \in 2 .. Budget
        BY <1>1, <3>2
      <4> QED
        BY <1>4, <3>2, <4>1
    <3>3. CASE \E i \in 1 .. m + 1 : c[m + 2] = c[i]
      <4>1. \A j \in 1 .. Budget : Candidates(rules, c[j]) # {}
        BY <2>1, <3>3, CycleStays DEF Breaks, c
      <4> QED
        BY <1>1, <1>4, <4>1
    <3> QED
      BY <2>1, <3>1, <3>2, <3>3 DEF Breaks, c
  <2> QED
    BY <1>2, <2>2, <2>3, <2>4 DEF found
<1>7. CASE w.stage = "ended"
  <2>1. PICK m \in 0 .. Budget - 1 : Along(w, n, m) /\ Candidates(rules, c[m + 1]) = {}
    BY <1>2, <1>7 DEF Follows, c
  <2>2. m + 1 \in 1 .. Budget + 1 /\ Budget \in m + 1 .. Budget + 1
    BY <1>1
  <2>3. \A j \in m + 1 .. Budget + 1 : c[j] = c[m + 1]
    BY <2>1, <2>2, EndStays DEF c
  <2>4. CASE m = 0
    <3>1. w.applied = << >>
      BY <1>2, <2>1, <2>4 DEF Along
    <3>2. found.kind = "direct"
      BY <1>3, <1>7, <3>1 DEF Direct
    <3>3. Candidates(rules, n) = {}
      BY <1>2, <2>1, <2>4
    <3> QED
      BY <3>2, <3>3 DEF found
  <2>5. CASE m # 0
    <3>1. w.applied # << >>
      BY <1>2, <2>1, <2>5 DEF Along
    <3>2. found.kind = "aliased" /\ found.canonical = Last(w.trail)
      BY <1>3, <1>7, <3>1 DEF Aliased
    <3>3. Last(w.trail) = c[m + 1]
      BY <1>1, <2>1 DEF Along, Last, c
    <3>4. Candidates(rules, c[1]) # {}
      BY <1>1, <2>1, <2>5 DEF Along, c
    <3>5. c[Budget] = c[m + 1]
      BY <2>2, <2>3
    <3>6. \A j \in 2 .. m + 1 : c[j] \notin NotIris
      BY <2>1 DEF Along, c
    <3>7. \A j \in 2 .. Budget : c[j] \notin NotIris
      <4> SUFFICES ASSUME NEW j \in 2 .. Budget PROVE c[j] \notin NotIris
        OBVIOUS
      <4>1. CASE j <= m + 1
        <5>1. j \in 2 .. m + 1
          BY <1>1, <4>1
        <5> QED
          BY <3>6, <5>1
      <4>2. CASE ~(j <= m + 1)
        <5>1. j \in m + 1 .. Budget + 1 /\ m + 1 \in 2 .. m + 1
          BY <1>1, <2>5, <4>2
        <5> QED
          BY <2>3, <3>6, <5>1
      <4> QED
        BY <4>1, <4>2
    <3> QED
      BY <1>2, <1>4, <2>1, <3>2, <3>3, <3>4, <3>5, <3>7 DEF found, c
  <2> QED
    BY <2>4, <2>5
<1> QED
  BY <1>2, <1>5, <1>6, <1>7 DEF Follows

(***************************************************************************)
(* Whatever order the rules were authored in.                              *)

LEMMA OrderIrrelevant ==
  ASSUME AliasAssumption, rules \in Seq(Rules), Sorted(rules)
  PROVE  AuthoredOrderIrrelevant
<1> SUFFICES ASSUME NEW order \in Authorings, NEW n \in AliasNames
             PROVE  /\ Walk(rules, n).kind = Walk(Built(order), n).kind
                    /\ Walk(rules, n).kind = "aliased" =>
                          Walk(rules, n).canonical = Walk(Built(order), n).canonical
  BY DEF AuthoredOrderIrrelevant
<1>1. /\ order \in [DOMAIN rules -> ToSet(rules)] /\ ToSet(order) = ToSet(rules)
      /\ \A i, j \in DOMAIN rules : i < j /\ SameName(rules[i], rules[j]) =>
           \A k, l \in DOMAIN order : order[k] = rules[i] /\ order[l] = rules[j] => k <= l
  BY DEF Authorings
<1>2. order \in Seq(Rules) /\ DOMAIN order = 1 .. Len(order) /\ Len(order) \in Nat
  <2>1. ToSet(rules) \subseteq Rules /\ DOMAIN rules = 1 .. Len(rules) /\ Len(rules) \in Nat
    BY DEF ToSet
  <2>2. order \in [1 .. Len(rules) -> Rules]
    BY <1>1, <2>1
  <2> QED
    BY <2>1, <2>2
<1> DEFINE u == Built(order)
<1>3. u \in Seq(Rules) /\ Sorted(u) /\ ToSet(u) = ToSet(order) /\ Stable(u, order, Len(order))
  BY <1>2, BuiltIs
<1> HIDE DEF u
<1>4. ASSUME NEW i \in DOMAIN rules, NEW j \in DOMAIN rules, NEW k \in DOMAIN u, NEW l \in DOMAIN u,
             i < j, SameName(rules[i], rules[j]), u[k] = rules[i], u[l] = rules[j], l < k
      PROVE  FALSE
  <2>1. SameName(u[l], u[k])
    BY <1>4 DEF SameName
  <2>2. PICK x, y \in 1 .. Len(order) : x < y /\ order[x] = u[l] /\ order[y] = u[k]
    BY <1>4, <2>1, <1>3 DEF Stable
  <2>3. y <= x
    BY <1>1, <1>2, <1>4, <2>2
  <2> QED
    BY <1>2, <2>2, <2>3
<1>5. SameRules(rules, u)
  BY <1>1, <1>3, <1>4 DEF SameRules
<1> QED
  BY <1>3, <1>5, SameWalk DEF u

(***************************************************************************)
(* The counters.                                                           *)

\* How often a walk of n through t applies r.
Applies(t, n, r) == Cardinality({k \in DOMAIN Walk(t, n).rules : t[Walk(t, n).rules[k]] = r})
Owed(t, p, r) == [n \in AliasNames |-> p[n] * Applies(t, n, r)]

LEMMA AppliesIs ==
  ASSUME AliasAssumption, NEW t \in Seq(Rules), NEW n, NEW r
  PROVE  /\ Applies(t, n, r) \in Nat
         /\ Walk(t, n).kind = "aliased" =>
              \E q \in Rules : Applies(t, n, q) > 0
<1> DEFINE path == Walk(t, n).rules
           Places(q) == {k \in DOMAIN path : t[path[k]] = q}
<1>1. path \in Seq(DOMAIN t) /\ (Walk(t, n).kind = "aliased" => path # << >>)
  BY WalkPath
<1> HIDE DEF path
<1>2. DOMAIN path = 1 .. Len(path) /\ Len(path) \in Nat
  BY <1>1
<1>3. \A q : IsFiniteSet(Places(q)) /\ Cardinality(Places(q)) \in Nat
  <2>1. IsFiniteSet(DOMAIN path)
    BY <1>2, FS_Interval
  <2> QED
    BY <2>1, FS_Subset, FS_CardinalityType
<1>4. \A q : Applies(t, n, q) = Cardinality(Places(q))
  BY DEF Applies, path
<1>5. ASSUME Walk(t, n).kind = "aliased" PROVE \E q \in Rules : Applies(t, n, q) > 0
  <2>1. 1 \in DOMAIN path /\ path[1] \in DOMAIN t
    BY <1>1, <1>5
  <2> DEFINE q == t[path[1]]
  <2>2. q \in Rules /\ 1 \in Places(q)
    BY <2>1
  <2> HIDE DEF Places
  <2>3. Cardinality(Places(q)) # 0
    BY <1>3, <2>2, FS_EmptySet
  <2> QED
    BY <1>3, <1>4, <2>2, <2>3
<1> QED
  BY <1>3, <1>4, <1>5

LEMMA OwedIs ==
  ASSUME AliasAssumption, NEW t \in Seq(Rules), NEW p \in [AliasNames -> Nat], NEW r
  PROVE  \A n \in AliasNames : Owed(t, p, r)[n] = p[n] * Applies(t, n, r) /\ Owed(t, p, r)[n] \in Nat
<1> SUFFICES ASSUME NEW n \in AliasNames
             PROVE  Owed(t, p, r)[n] = p[n] * Applies(t, n, r) /\ Owed(t, p, r)[n] \in Nat
  OBVIOUS
<1>1. p[n] \in Nat /\ Applies(t, n, r) \in Nat
  BY AppliesIs
<1> QED
  BY <1>1 DEF Owed

OneMore(p, q, n) == q[n] = p[n] + 1 /\ \A m \in AliasNames \ {n} : q[m] = p[m]

\* One request more on its way owes what its walk applies.
LEMMA OneMoreOwed ==
  ASSUME AliasAssumption, NEW t \in Seq(Rules), NEW p \in [AliasNames -> Nat], NEW q \in [AliasNames -> Nat],
         NEW n \in AliasNames, OneMore(p, q, n), NEW r
  PROVE  /\ Tally(AliasNames, Owed(t, p, r)) \in Nat
         /\ Tally(AliasNames, Owed(t, q, r)) = Tally(AliasNames, Owed(t, p, r)) + Applies(t, n, r)
<1> DEFINE f == Owed(t, p, r)
           g == Owed(t, q, r)
<1>1. IsFiniteSet(AliasNames)
  BY DEF AliasAssumption
<1>2. \A m \in AliasNames : f[m] = p[m] * Applies(t, m, r) /\ f[m] \in Nat
  BY OwedIs
<1>3. \A m \in AliasNames : g[m] = q[m] * Applies(t, m, r) /\ g[m] \in Nat
  BY OwedIs
<1> HIDE DEF f, g
<1>4. \A m \in AliasNames \ {n} : g[m] = f[m]
  BY <1>2, <1>3 DEF OneMore
<1>5. Tally(AliasNames, g) - Tally(AliasNames, f) = g[n] - f[n]
  <2>1. Heap(AliasNames \ {n}, g) = Heap(AliasNames \ {n}, f)
    BY <1>4 DEF Heap
  <2>2. \A m \in AliasNames : f[m] \in Nat
    BY <1>2
  <2>3. \A m \in AliasNames : g[m] \in Nat
    BY <1>3
  <2>4. /\ Cardinality(Heap(AliasNames \ {n}, f)) \in Nat
        /\ Tally(AliasNames, f) = Cardinality(Heap(AliasNames \ {n}, f)) + f[n]
    BY <1>1, <2>2, TallyApart
  <2>5. Tally(AliasNames, g) = Cardinality(Heap(AliasNames \ {n}, g)) + g[n]
    BY <1>1, <2>3, TallyApart
  <2>6. f[n] \in Nat /\ g[n] \in Nat
    BY <2>2, <2>3
  <2> QED
    BY <2>1, <2>4, <2>5, <2>6
<1>6. Tally(AliasNames, f) \in Nat /\ Tally(AliasNames, g) \in Nat
  BY <1>1, <1>2, <1>3, TallyIsNat
<1>7. g[n] = f[n] + Applies(t, n, r)
  <2>1. Applies(t, n, r) \in Nat /\ p[n] \in Nat
    BY AppliesIs
  <2>2. (p[n] + 1) * Applies(t, n, r) = p[n] * Applies(t, n, r) + Applies(t, n, r)
    BY <2>1
  <2> QED
    BY <1>2, <1>3, <2>2 DEF OneMore
<1>8. Applies(t, n, r) \in Nat /\ f[n] \in Nat
  BY <1>2, AppliesIs
<1>9. Tally(AliasNames, g) = Tally(AliasNames, f) + Applies(t, n, r)
  BY <1>5, <1>6, <1>7, <1>8
<1> QED
  BY <1>6, <1>9 DEF f, g

AliasTyped ==
  /\ rules \in Seq(Rules) /\ Sorted(rules)
  /\ hops \in [Rules -> Nat] /\ unresolved \in [Rules -> Nat] /\ refused \in [Rules -> Nat]
  /\ pending \in [AliasNames -> Nat]
\* A request on its way was rewritten by the table as it stands.
PendingAliased == \A n \in AliasNames : pending[n] > 0 => Walk(rules, n).kind = "aliased"
Credited == \A r \in Rules : unresolved[r] + Tally(AliasNames, Owed(rules, pending, r)) <= hops[r]
AliasInv == AliasTyped /\ PendingAliased /\ Credited

LEMMA CreditedIs ==
  ASSUME AliasAssumption, AliasInv
  PROVE  MissesAreHops
<1> SUFFICES ASSUME NEW r \in Rules
             PROVE  unresolved[r] + Tally(AliasNames, OnTheirWay(r)) <= hops[r]
  BY DEF MissesAreHops
<1>1. \A n \in AliasNames : OnTheirWay(r)[n] = Owed(rules, pending, r)[n]
  <2> SUFFICES ASSUME NEW n \in AliasNames PROVE OnTheirWay(r)[n] = Owed(rules, pending, r)[n]
    OBVIOUS
  <2>1. Times(r, Walk(rules, n).rules) = Applies(rules, n, r)
    BY DEF Times, Applies
  <2>2. Applies(rules, n, r) \in Nat /\ pending[n] \in Nat
    BY AppliesIs DEF AliasInv, AliasTyped
  <2> QED
    BY <2>1, <2>2 DEF OnTheirWay, Owed
<1>2. Tally(AliasNames, OnTheirWay(r)) = Tally(AliasNames, Owed(rules, pending, r))
  BY <1>1, TallyAgrees
<1> QED
  BY <1>2 DEF AliasInv, Credited

\* What Times counts along the walk of a name.
LEMMA TimesApplies ==
  ASSUME NEW n, NEW r
  PROVE  Times(r, Walk(rules, n).rules) = Applies(rules, n, r)
BY DEF Times, Applies

LEMMA AliasInitOK ==
  ASSUME AliasAssumption, AliasInit
  PROVE  AliasInv
<1>1. rules \in Seq(Rules) /\ Sorted(rules) /\ DOMAIN rules = {}
  BY EmptySeq DEF AliasInit, Sorted
<1>2. AliasTyped
  BY <1>1 DEF AliasInit, AliasTyped
<1>3. PendingAliased
  BY DEF AliasInit, PendingAliased
<1>4. Credited
  <2> SUFFICES ASSUME NEW r \in Rules
               PROVE  unresolved[r] + Tally(AliasNames, Owed(rules, pending, r)) <= hops[r]
    BY DEF Credited
  <2>1. pending \in [AliasNames -> Nat] /\ \A n \in AliasNames : pending[n] = 0
    BY DEF AliasInit
  <2>2. \A n \in AliasNames : Owed(rules, pending, r)[n] = pending[n] * Applies(rules, n, r)
    BY <1>1, <2>1, OwedIs
  <2>3. \A n \in AliasNames : Applies(rules, n, r) \in Nat
    BY <1>1, AppliesIs
  <2>4. \A n \in AliasNames : Owed(rules, pending, r)[n] = 0
    BY <2>1, <2>2, <2>3
  <2>5. Tally(AliasNames, Owed(rules, pending, r)) = 0
    BY <2>4, TallyNothing
  <2>6. unresolved[r] = 0 /\ hops[r] = 0
    BY DEF AliasInit
  <2> QED
    BY <2>5, <2>6
<1> QED
  BY <1>2, <1>3, <1>4 DEF AliasInv

\* While no rule has been credited with a hop, no rewritten request is on its way.
LEMMA NoHopsNoRequests ==
  ASSUME AliasAssumption, AliasInv, \A r \in Rules : hops[r] = 0
  PROVE  \A n \in AliasNames : pending[n] = 0
<1> SUFFICES ASSUME NEW n \in AliasNames, pending[n] # 0 PROVE FALSE
  OBVIOUS
<1>1. rules \in Seq(Rules) /\ pending \in [AliasNames -> Nat] /\ unresolved \in [Rules -> Nat]
  BY DEF AliasInv, AliasTyped
<1>2. pending[n] > 0 /\ Walk(rules, n).kind = "aliased"
  BY <1>1 DEF AliasInv, PendingAliased
<1>3. PICK q \in Rules : Applies(rules, n, q) > 0
  BY <1>1, <1>2, AppliesIs
<1> DEFINE f == Owed(rules, pending, q)
<1>4. \A m \in AliasNames : f[m] = pending[m] * Applies(rules, m, q) /\ f[m] \in Nat
  BY <1>1, OwedIs
<1>5. unresolved[q] + Tally(AliasNames, f) <= hops[q]
  BY DEF AliasInv, Credited
<1> HIDE DEF f
<1>6. /\ Cardinality(Heap(AliasNames \ {n}, f)) \in Nat
      /\ Tally(AliasNames, f) = Cardinality(Heap(AliasNames \ {n}, f)) + f[n]
  BY <1>4, TallyApart DEF AliasAssumption
<1>7. f[n] = 0
  <2>1. unresolved[q] \in Nat /\ hops[q] = 0 /\ f[n] \in Nat
    BY <1>1, <1>4
  <2> QED
    BY <1>5, <1>6, <2>1
<1>8. Applies(rules, n, q) \in Nat /\ pending[n] \in Nat
  BY <1>1, AppliesIs
<1>9. pending[n] * Applies(rules, n, q) > 0
  BY <1>2, <1>3, <1>8
<1> QED
  BY <1>4, <1>7, <1>9

LEMMA InsertOK ==
  ASSUME AliasAssumption, AliasInv, NEW r \in Rules, Insert(r)
  PROVE  AliasInv'
<1>1. AliasTyped
  BY DEF AliasInv
<1>2. \A q \in Rules : hops[q] = 0
  <2> SUFFICES ASSUME NEW q \in Rules PROVE hops[q] = 0
    OBVIOUS
  <2>1. hops[q] \in Nat /\ refused[q] \in Nat /\ hops[q] + refused[q] = 0
    BY <1>1 DEF AliasTyped, Insert
  <2> QED
    BY <2>1
<1>3. \A n \in AliasNames : pending[n] = 0
  BY <1>2, NoHopsNoRequests
<1>4. rules' \in Seq(Rules) /\ Sorted(rules')
  BY <1>1, InsertedSorted DEF AliasTyped, Insert
<1>5. UNCHANGED <<hops, unresolved, refused, pending>>
  BY DEF Insert
<1>6. AliasTyped'
  BY <1>1, <1>4, <1>5 DEF AliasTyped, Sorted
<1>7. PendingAliased'
  BY <1>3, <1>5 DEF PendingAliased
<1>8. Credited'
  <2> SUFFICES ASSUME NEW q \in Rules
               PROVE  unresolved'[q] + Tally(AliasNames, Owed(rules', pending', q)) <= hops'[q]
    BY DEF Credited, Owed, Applies
  <2>1. pending' \in [AliasNames -> Nat] /\ \A n \in AliasNames : pending'[n] = 0
    BY <1>1, <1>3, <1>5 DEF AliasTyped
  <2>2. \A n \in AliasNames : Owed(rules', pending', q)[n] = pending'[n] * Applies(rules', n, q)
    BY <1>4, <2>1, OwedIs
  <2>3. \A n \in AliasNames : Applies(rules', n, q) \in Nat
    BY <1>4, AppliesIs
  <2>4. \A n \in AliasNames : Owed(rules', pending', q)[n] = 0
    BY <2>1, <2>2, <2>3
  <2>5. Tally(AliasNames, Owed(rules', pending', q)) = 0
    BY <2>4, TallyNothing
  <2>6. unresolved[q] <= hops[q]
    <3>1. unresolved[q] + Tally(AliasNames, Owed(rules, pending, q)) <= hops[q]
      BY DEF AliasInv, Credited
    <3>2. Tally(AliasNames, Owed(rules, pending, q)) \in Nat
      <4>1. \A n \in AliasNames : Owed(rules, pending, q)[n] \in Nat
        BY <1>1, OwedIs DEF AliasTyped
      <4> QED
        BY <4>1, TallyIsNat DEF AliasAssumption
    <3>3. unresolved[q] \in Nat /\ hops[q] \in Nat
      BY <1>1 DEF AliasTyped
    <3> QED
      BY <3>1, <3>2, <3>3
  <2>7. unresolved[q] \in Nat /\ hops[q] \in Nat
    BY <1>1 DEF AliasTyped
  <2> QED
    BY <1>5, <2>5, <2>6, <2>7
<1> QED
  BY <1>6, <1>7, <1>8 DEF AliasInv

LEMMA CountIs ==
  ASSUME AliasAssumption, rules \in Seq(Rules), NEW counter \in [Rules -> Nat], NEW n
  PROVE  /\ Count(counter, Walk(rules, n).rules) \in [Rules -> Nat]
         /\ \A r \in Rules : Count(counter, Walk(rules, n).rules)[r] = counter[r] + Applies(rules, n, r)
<1>1. \A r \in Rules : Applies(rules, n, r) \in Nat
  BY AppliesIs
<1>2. Count(counter, Walk(rules, n).rules) = [r \in Rules |-> counter[r] + Applies(rules, n, r)]
  BY TimesApplies DEF Count
<1>3. \A r \in Rules : counter[r] + Applies(rules, n, r) \in Nat
  BY <1>1
<1> QED
  BY <1>2, <1>3

LEMMA CanonicalizeOK ==
  ASSUME AliasAssumption, AliasInv, NEW n \in AliasNames, Canonicalize(n)
  PROVE  AliasInv'
<1>1. AliasTyped /\ rules' = rules /\ unresolved' = unresolved
  BY DEF AliasInv, Canonicalize
<1>2. CASE Walk(rules, n).kind = "aliased" /\ hops' = Count(hops, Walk(rules, n).rules)
           /\ pending' = [pending EXCEPT ![n] = @ + 1] /\ refused' = refused
  <2>1. /\ hops' \in [Rules -> Nat]
        /\ \A r \in Rules : hops'[r] = hops[r] + Applies(rules, n, r)
    BY <1>1, <1>2, CountIs DEF AliasTyped
  <2>2. /\ pending' \in [AliasNames -> Nat] /\ pending'[n] = pending[n] + 1
        /\ \A m \in AliasNames \ {n} : pending'[m] = pending[m]
    BY <1>1, <1>2 DEF AliasTyped
  <2>3. AliasTyped'
    BY <1>1, <1>2, <2>1, <2>2 DEF AliasTyped, Sorted
  <2>4. PendingAliased'
    <3> SUFFICES ASSUME NEW m \in AliasNames, pending'[m] > 0 PROVE Walk(rules, m).kind = "aliased"
      BY <1>1 DEF PendingAliased
    <3> QED
      BY <1>2, <2>2 DEF AliasInv, PendingAliased
  <2>5. Credited'
    <3> SUFFICES ASSUME NEW q \in Rules
                 PROVE  unresolved[q] + Tally(AliasNames, Owed(rules, pending', q)) <= hops'[q]
      BY <1>1 DEF Credited, Owed, Applies
    <3>1. /\ Tally(AliasNames, Owed(rules, pending, q)) \in Nat
          /\ Tally(AliasNames, Owed(rules, pending', q))
               = Tally(AliasNames, Owed(rules, pending, q)) + Applies(rules, n, q)
      <4>1. OneMore(pending, pending', n)
        BY <2>2 DEF OneMore
      <4> QED
        BY <1>1, <2>2, <4>1, OneMoreOwed DEF AliasTyped
    <3>2. unresolved[q] + Tally(AliasNames, Owed(rules, pending, q)) <= hops[q]
      BY DEF AliasInv, Credited
    <3>3. unresolved[q] \in Nat /\ hops[q] \in Nat /\ Applies(rules, n, q) \in Nat
      BY <1>1, AppliesIs DEF AliasTyped
    <3>4. hops'[q] = hops[q] + Applies(rules, n, q)
      BY <2>1
    <3> QED
      BY <3>1, <3>2, <3>3, <3>4
  <2> QED
    BY <2>3, <2>4, <2>5 DEF AliasInv
<1>3. CASE refused' = Count(refused, Walk(rules, n).rules) /\ UNCHANGED <<hops, pending>>
  <2>1. refused' \in [Rules -> Nat]
    BY <1>1, <1>3, CountIs DEF AliasTyped
  <2>2. AliasTyped'
    BY <1>1, <1>3, <2>1 DEF AliasTyped, Sorted
  <2>3. PendingAliased' /\ Credited'
    BY <1>1, <1>3 DEF AliasInv, PendingAliased, Credited, Owed, Applies
  <2> QED
    BY <2>2, <2>3 DEF AliasInv
<1> QED
  BY <1>2, <1>3 DEF Canonicalize

\* One request less on its way.
LEMMA OneLess ==
  ASSUME AliasAssumption, AliasInv, NEW n \in AliasNames, pending[n] > 0,
         pending' = [pending EXCEPT ![n] = @ - 1], rules' = rules
  PROVE  /\ pending' \in [AliasNames -> Nat] /\ PendingAliased'
         /\ \A r \in Rules :
              /\ Tally(AliasNames, Owed(rules, pending', r)) \in Nat
              /\ Tally(AliasNames, Owed(rules, pending, r))
                   = Tally(AliasNames, Owed(rules, pending', r)) + Applies(rules, n, r)
<1>1. AliasTyped
  BY DEF AliasInv
<1>2. /\ pending' \in [AliasNames -> Nat] /\ pending[n] = pending'[n] + 1
      /\ \A m \in AliasNames \ {n} : pending[m] = pending'[m]
  <2>1. pending \in [AliasNames -> Nat] /\ pending[n] \in Nat /\ pending[n] - 1 \in Nat
    BY <1>1 DEF AliasTyped
  <2> QED
    BY <2>1
<1>3. PendingAliased'
  <2> SUFFICES ASSUME NEW m \in AliasNames, pending'[m] > 0 PROVE Walk(rules, m).kind = "aliased"
    BY DEF PendingAliased
  <2>1. pending[m] > 0
    BY <1>2
  <2> QED
    BY <2>1 DEF AliasInv, PendingAliased
<1>4. ASSUME NEW r \in Rules
      PROVE  /\ Tally(AliasNames, Owed(rules, pending', r)) \in Nat
             /\ Tally(AliasNames, Owed(rules, pending, r))
                  = Tally(AliasNames, Owed(rules, pending', r)) + Applies(rules, n, r)
  <2>1. rules \in Seq(Rules) /\ pending \in [AliasNames -> Nat]
    BY <1>1 DEF AliasTyped
  <2>2. \A t \in Seq(Rules), p \in [AliasNames -> Nat], q \in [AliasNames -> Nat] :
          OneMore(q, p, n) => /\ Tally(AliasNames, Owed(t, q, r)) \in Nat
                              /\ Tally(AliasNames, Owed(t, p, r))
                                   = Tally(AliasNames, Owed(t, q, r)) + Applies(t, n, r)
    <3> SUFFICES ASSUME NEW t \in Seq(Rules), NEW p \in [AliasNames -> Nat], NEW q \in [AliasNames -> Nat],
                        OneMore(q, p, n)
                 PROVE  /\ Tally(AliasNames, Owed(t, q, r)) \in Nat
                        /\ Tally(AliasNames, Owed(t, p, r))
                             = Tally(AliasNames, Owed(t, q, r)) + Applies(t, n, r)
      OBVIOUS
    <3> QED
      BY OneMoreOwed
  <2>3. OneMore(pending', pending, n)
    BY <1>2 DEF OneMore
  <2> QED
    BY <1>2, <2>1, <2>2, <2>3
<1> QED
  BY <1>2, <1>3, <1>4

LEMMA ResolvesOK ==
  ASSUME AliasAssumption, AliasInv, NEW n \in AliasNames, Resolves(n)
  PROVE  AliasInv'
<1>1. AliasTyped /\ UNCHANGED <<rules, hops, unresolved, refused>>
  BY DEF AliasInv, Resolves
<1>2. /\ pending' \in [AliasNames -> Nat] /\ PendingAliased'
      /\ \A r \in Rules :
           /\ Tally(AliasNames, Owed(rules, pending', r)) \in Nat
           /\ Tally(AliasNames, Owed(rules, pending, r))
                = Tally(AliasNames, Owed(rules, pending', r)) + Applies(rules, n, r)
  BY <1>1, OneLess DEF Resolves
<1>3. AliasTyped'
  BY <1>1, <1>2 DEF AliasTyped, Sorted
<1>4. Credited'
  <2> SUFFICES ASSUME NEW r \in Rules
               PROVE  unresolved[r] + Tally(AliasNames, Owed(rules, pending', r)) <= hops[r]
    BY <1>1 DEF Credited, Owed, Applies
  <2>1. unresolved[r] + Tally(AliasNames, Owed(rules, pending, r)) <= hops[r]
    BY DEF AliasInv, Credited
  <2>2. unresolved[r] \in Nat /\ hops[r] \in Nat /\ Applies(rules, n, r) \in Nat
    BY <1>1, AppliesIs DEF AliasTyped
  <2> QED
    BY <1>2, <2>1, <2>2
<1> QED
  BY <1>2, <1>3, <1>4 DEF AliasInv

LEMMA RecordUnresolvedOK ==
  ASSUME AliasAssumption, AliasInv, NEW n \in AliasNames, RecordUnresolved(n)
  PROVE  AliasInv'
<1>1. AliasTyped /\ UNCHANGED <<rules, hops, refused>>
  BY DEF AliasInv, RecordUnresolved
<1>2. /\ pending' \in [AliasNames -> Nat] /\ PendingAliased'
      /\ \A r \in Rules :
           /\ Tally(AliasNames, Owed(rules, pending', r)) \in Nat
           /\ Tally(AliasNames, Owed(rules, pending, r))
                = Tally(AliasNames, Owed(rules, pending', r)) + Applies(rules, n, r)
  BY <1>1, OneLess DEF RecordUnresolved
<1>3. /\ unresolved' \in [Rules -> Nat]
      /\ \A r \in Rules : unresolved'[r] = unresolved[r] + Applies(rules, n, r)
  BY <1>1, CountIs DEF AliasTyped, RecordUnresolved
<1>4. AliasTyped'
  BY <1>1, <1>2, <1>3 DEF AliasTyped, Sorted
<1>5. Credited'
  <2> SUFFICES ASSUME NEW r \in Rules
               PROVE  unresolved'[r] + Tally(AliasNames, Owed(rules, pending', r)) <= hops[r]
    BY <1>1 DEF Credited, Owed, Applies
  <2>1. unresolved[r] + Tally(AliasNames, Owed(rules, pending, r)) <= hops[r]
    BY DEF AliasInv, Credited
  <2>2. unresolved[r] \in Nat /\ hops[r] \in Nat /\ Applies(rules, n, r) \in Nat
    BY <1>1, AppliesIs DEF AliasTyped
  <2>3. unresolved'[r] = unresolved[r] + Applies(rules, n, r)
    BY <1>3
  <2> QED
    BY <1>2, <2>1, <2>2, <2>3
<1> QED
  BY <1>2, <1>4, <1>5 DEF AliasInv

LEMMA AliasStep ==
  ASSUME AliasAssumption, AliasInv, [AliasNext]_aliasVars
  PROVE  AliasInv'
<1>1. CASE UNCHANGED aliasVars
  BY <1>1 DEF aliasVars, AliasInv, AliasTyped, Sorted, PendingAliased, Credited, Owed, Applies
<1>2. CASE \E r \in Rules : Insert(r)
  BY <1>2, InsertOK
<1>3. CASE \E n \in AliasNames : Canonicalize(n) \/ Resolves(n) \/ RecordUnresolved(n)
  BY <1>3, CanonicalizeOK, ResolvesOK, RecordUnresolvedOK
<1> QED
  BY <1>1, <1>2, <1>3 DEF AliasNext

\* A name is rewritten to the end of its chain or refused, whatever cycles and
\* growing chains the table holds; in whatever order its rules were authored; and
\* every miss charged to a rule is one of its hops (alias.rs, insert, walk and
\* record_unresolved).
THEOREM RewritesAlwaysHold == ASSUME AliasAssumption PROVE AliasSpec => []RewritesHold
<1>1. AliasInit => AliasInv
  BY AliasInitOK
<1>2. AliasInv /\ [AliasNext]_aliasVars => AliasInv'
  BY AliasStep
<1>3. AliasInv => RewritesHold
  BY WalkEnds, OrderIrrelevant, CreditedIs DEF AliasInv, AliasTyped, RewritesHold
<1> QED
  BY <1>1, <1>2, <1>3, PTL DEF AliasSpec

\* A named request forwards every argument fixed along its chain as it was fixed,
\* and every argument given as it was given, or it is refused
\* (ViewEndpoint::forwarded).
THEOREM NamedRequestAlwaysHolds == ASSUME AliasAssumption PROVE AliasSpec => []NamedRequestHolds
<1>1. AliasInit => AliasInv
  BY AliasInitOK
<1>2. AliasInv /\ [AliasNext]_aliasVars => AliasInv'
  BY AliasStep
<1>3. AliasInv => NamedRequestHolds
  BY NamedRequests DEF AliasInv, AliasTyped
<1> QED
  BY <1>1, <1>2, <1>3, PTL DEF AliasSpec

(***************************************************************************)
(* What a space offers, for any space: any doors, any forwards between     *)
(* them, cycles included, any capability and any axioms.                   *)
(*                                                                         *)
(* A name has one door or none, so what a probe sees and what serves can   *)
(* be compared forward by forward: whatever an endpoint is described by,   *)
(* after as many forwards as are left, the action described asks for what  *)
(* the endpoint that serves it asks for.  Entries of one pattern describe  *)
(* one door, so an action that a narrower caller may not run hides no      *)
(* other; and a transreptor that is offered was not projected, so its name *)
(* resolves to it.                                                         *)
(***************************************************************************)
\* A name has one door or none, the first that names it.
LEMMA ReachedIs ==
  ASSUME NEW doors \in Seq(Doors), NEW iri
  PROVE  /\ \A d \in Reached(doors, iri) :
              /\ d \in Doors /\ ~d.limiter
              /\ \E i \in DOMAIN doors : d = doors[i]
         /\ \A d, e \in Reached(doors, iri) : d = e
<1> DEFINE A == Answering(doors, iri)
<1>1. CASE A = {}
  BY <1>1 DEF Reached, Resolve
<1>2. CASE A # {}
  <2>1. A \in SUBSET Nat
    BY DEF Answering
  <2> HIDE DEF A
  <2>2. Min(A) \in A
    BY <1>2, <2>1, MinIs
  <2>3. Min(A) \in DOMAIN doors
    BY <2>2 DEF A, Answering
  <2>4. doors[Min(A)] \in Doors
    BY <2>3
  <2>5. Resolve(doors, iri) = doors[Min(A)]
    BY <1>2 DEF Resolve, A
  <2> QED
    BY <2>3, <2>4, <2>5 DEF Reached
<1> QED
  BY <1>1, <1>2

\* What a probe sees, forward by forward.
LEMMA ProbesAre ==
  ASSUME SelAssumption, NEW doors
  PROVE  /\ ProbeWithin(doors)[0] = AsReached(doors)
         /\ \A k \in 1 .. MaxForwards :
              ProbeWithin(doors)[k] = BehindTargets(doors, ProbeWithin(doors)[k - 1])
<1> DEFINE first == AsReached(doors)
           Rule(g, m) == [k \in 0 .. m |-> IF k = 0 THEN first ELSE BehindTargets(doors, g[k - 1])]
           Exists(m) == \E g : g = Rule(g, m)
           probe == CHOOSE g : g = Rule(g, MaxForwards)
<1>1. ProbeWithin(doors) = probe
  BY DEF ProbeWithin
<1>2. MaxForwards \in Nat
  BY DEF SelAssumption
<1> HIDE DEF first
<1>3. Exists(0)
  <2> DEFINE g == [k \in 0 .. 0 |-> first]
  <2>1. g = Rule(g, 0)
    <3>1. \A k \in 0 .. 0 : k = 0
      OBVIOUS
    <3> QED
      BY <3>1
  <2> QED
    BY <2>1
<1>4. ASSUME NEW m \in Nat, Exists(m) PROVE Exists(m + 1)
  <2>1. PICK g : g = Rule(g, m)
    BY <1>4
  <2> DEFINE h == [k \in 0 .. m + 1 |-> IF k = m + 1 THEN BehindTargets(doors, g[m]) ELSE g[k]]
  <2>2. \A k \in 0 .. m + 1 : h[k] = IF k = 0 THEN first ELSE BehindTargets(doors, h[k - 1])
    <3> SUFFICES ASSUME NEW k \in 0 .. m + 1
                 PROVE  h[k] = IF k = 0 THEN first ELSE BehindTargets(doors, h[k - 1])
      OBVIOUS
    <3>1. \A i \in 0 .. m : h[i] = g[i]
      OBVIOUS
    <3>2. h[m + 1] = BehindTargets(doors, g[m])
      OBVIOUS
    <3>3. \A i \in 0 .. m : g[i] = IF i = 0 THEN first ELSE BehindTargets(doors, g[i - 1])
      BY <2>1
    <3> HIDE DEF h
    <3>4. CASE k = m + 1
      <4>1. k - 1 = m /\ k # 0 /\ m \in 0 .. m
        BY <3>4
      <4> QED
        BY <3>1, <3>2, <3>4, <4>1
    <3>5. CASE k # m + 1
      <4>1. k \in 0 .. m /\ (k # 0 => k - 1 \in 0 .. m)
        BY <3>5
      <4> QED
        BY <3>1, <3>3, <4>1
    <3> QED
      BY <3>4, <3>5
  <2>3. h = [k \in 0 .. m + 1 |-> h[k]]
    OBVIOUS
  <2> HIDE DEF h
  <2>4. h = Rule(h, m + 1)
    BY <2>2, <2>3
  <2> QED
    BY <2>4
<1> HIDE DEF Exists
<1>5. Exists(MaxForwards)
  <2> DEFINE S == {m \in Nat : Exists(m)}
  <2>1. S \in SUBSET Nat /\ 0 \in S /\ \A m \in S : m + 1 \in S
    BY <1>3, <1>4
  <2>2. S = Nat
    <3> HIDE DEF S
    <3> QED
      BY <2>1, EveryNat
  <2> QED
    BY <1>2, <2>2
<1>6. probe = Rule(probe, MaxForwards)
  BY <1>5 DEF Exists
<1> HIDE DEF probe
<1>7. probe[0] = first /\ \A k \in 1 .. MaxForwards : probe[k] = BehindTargets(doors, probe[k - 1])
  BY <1>2, <1>6
<1> QED
  BY <1>1, <1>7 DEF first

ServedAtOnce == [iri \in Iris |-> { d \in Reached(offering, iri) : d.forwards = << >> }]

\* What serves, forward by forward.
LEMMA ServedAre ==
  ASSUME SelAssumption, NEW verb
  PROVE  /\ ServedBy(verb)[0] = ServedAtOnce
         /\ \A k \in 1 .. MaxForwards : ServedBy(verb)[k] = BehindForwards(verb, ServedBy(verb)[k - 1])
<1> DEFINE Rule(g, m) == [k \in 0 .. m |-> IF k = 0 THEN ServedAtOnce ELSE BehindForwards(verb, g[k - 1])]
           Exists(m) == \E g : g = Rule(g, m)
           served == CHOOSE g : g = Rule(g, MaxForwards)
<1>1. ServedBy(verb) = served
  BY DEF ServedBy, ServedAtOnce
<1>2. MaxForwards \in Nat
  BY DEF SelAssumption
<1>3. Exists(0)
  <2> DEFINE g == [k \in 0 .. 0 |-> ServedAtOnce]
  <2>1. g = Rule(g, 0)
    <3>1. \A k \in 0 .. 0 : k = 0
      OBVIOUS
    <3> QED
      BY <3>1
  <2> QED
    BY <2>1
<1>4. ASSUME NEW m \in Nat, Exists(m) PROVE Exists(m + 1)
  <2>1. PICK g : g = Rule(g, m)
    BY <1>4
  <2> DEFINE h == [k \in 0 .. m + 1 |-> IF k = m + 1 THEN BehindForwards(verb, g[m]) ELSE g[k]]
  <2>2. \A k \in 0 .. m + 1 : h[k] = IF k = 0 THEN ServedAtOnce ELSE BehindForwards(verb, h[k - 1])
    <3> SUFFICES ASSUME NEW k \in 0 .. m + 1
                 PROVE  h[k] = IF k = 0 THEN ServedAtOnce ELSE BehindForwards(verb, h[k - 1])
      OBVIOUS
    <3>1. \A i \in 0 .. m : h[i] = g[i]
      OBVIOUS
    <3>2. h[m + 1] = BehindForwards(verb, g[m])
      OBVIOUS
    <3>3. \A i \in 0 .. m : g[i] = IF i = 0 THEN ServedAtOnce ELSE BehindForwards(verb, g[i - 1])
      BY <2>1
    <3> HIDE DEF h
    <3>4. CASE k = m + 1
      <4>1. k - 1 = m /\ k # 0 /\ m \in 0 .. m
        BY <3>4
      <4> QED
        BY <3>1, <3>2, <3>4, <4>1
    <3>5. CASE k # m + 1
      <4>1. k \in 0 .. m /\ (k # 0 => k - 1 \in 0 .. m)
        BY <3>5
      <4> QED
        BY <3>1, <3>3, <4>1
    <3> QED
      BY <3>4, <3>5
  <2>3. h = [k \in 0 .. m + 1 |-> h[k]]
    OBVIOUS
  <2> HIDE DEF h
  <2>4. h = Rule(h, m + 1)
    BY <2>2, <2>3
  <2> QED
    BY <2>4
<1> HIDE DEF Exists
<1>5. Exists(MaxForwards)
  <2> DEFINE S == {m \in Nat : Exists(m)}
  <2>1. S \in SUBSET Nat /\ 0 \in S /\ \A m \in S : m + 1 \in S
    BY <1>3, <1>4
  <2>2. S = Nat
    <3> HIDE DEF S
    <3> QED
      BY <2>1, EveryNat
  <2> QED
    BY <1>2, <2>2
<1>6. served = Rule(served, MaxForwards)
  BY <1>5 DEF Exists
<1> HIDE DEF served
<1>7. served[0] = ServedAtOnce /\ \A k \in 1 .. MaxForwards : served[k] = BehindForwards(verb, served[k - 1])
  BY <1>2, <1>6
<1> QED
  BY <1>1, <1>7

(***************************************************************************)
(* Contracts, projected.                                                   *)

DoorFields == {"pattern", "names", "exact", "limiter", "label", "id", "forwards", "actions", "conversion"}
ActionFields == {"verb", "requires", "outputs", "needs", "optional", "bound"}

\* One action per verb.
Contract(d) ==
  /\ \A x \in d.actions : IsRecord(x, ActionFields)
  /\ \A x, y \in d.actions : x.verb = y.verb => x = y

LEMMA DoorIs ==
  ASSUME SelAssumption, NEW d \in Doors
  PROVE  IsRecord(d, DoorFields) /\ Contract(d)
BY DEF SelAssumption, Contract, DoorFields, ActionFields

\* A door that answers is probed at a name; an exact one, at its own.
LEMMA DoorAt ==
  ASSUME SelAssumption, NEW d \in Doors, ~d.limiter
  PROVE  ProbeOf[d.pattern] \in Iris /\ (d.exact => ProbeOf[d.pattern] = d.pattern)
BY DEF SelAssumption

LEMMA ActionIs ==
  ASSUME NEW d, Contract(d), NEW verb
  PROVE  /\ \A x \in ActionOf(d, verb) : x \in d.actions /\ x.verb \in {verb, "Source"}
         /\ \A x \in ActionOf(d, verb) : x.verb # verb => verb = "Exists"
         /\ \A x, y \in ActionOf(d, verb) : x = y
         /\ \A x \in d.actions : x.verb = verb => x \in ActionOf(d, verb)
BY DEF ActionOf, Contract

Renamed(x, verb) == [x EXCEPT !.verb = verb]

LEMMA RenamedIs ==
  ASSUME NEW x, IsRecord(x, ActionFields), NEW verb
  PROVE  /\ IsRecord(Renamed(x, verb), ActionFields)
         /\ Renamed(x, verb).verb = verb /\ Renamed(x, verb).requires = x.requires
BY DEF IsRecord, ActionFields, Renamed

LEMMA ProjectIs ==
  ASSUME NEW d, IsRecord(d, DoorFields), NEW target, Contract(target)
  PROVE  /\ Project(d, target).conversion = << >>
         /\ Project(d, target).actions =
              UNION { { Renamed(x, v) : x \in ActionOf(target, v) } : v \in VerbsForwarded(d, target) }
         /\ Contract(Project(d, target))
<1> DEFINE p == Project(d, target)
           A == UNION { { Renamed(x, v) : x \in ActionOf(target, v) } : v \in VerbsForwarded(d, target) }
<1>1. p.conversion = << >> /\ p.actions = A
  BY DEF Project, IsRecord, DoorFields, Renamed
<1>2. ASSUME NEW x \in A
      PROVE  IsRecord(x, ActionFields) /\ \E y \in ActionOf(target, x.verb) : x = Renamed(y, x.verb)
  <2>0. PICK v \in VerbsForwarded(d, target) : \E y \in ActionOf(target, v) : x = Renamed(y, v)
    OBVIOUS
  <2>1. PICK y \in ActionOf(target, v) : x = Renamed(y, v)
    BY <2>0
  <2>2. IsRecord(y, ActionFields)
    BY ActionIs DEF Contract
  <2>3. x.verb = v /\ IsRecord(x, ActionFields)
    BY <2>1, <2>2, RenamedIs
  <2> QED
    BY <2>1, <2>3
<1>3. ASSUME NEW x \in A, NEW y \in A, x.verb = y.verb PROVE x = y
  <2>1. PICK z \in ActionOf(target, x.verb) : x = Renamed(z, x.verb)
    BY <1>2
  <2>2. PICK w \in ActionOf(target, y.verb) : y = Renamed(w, y.verb)
    BY <1>2
  <2>3. z = w
    BY <1>3, ActionIs
  <2> QED
    BY <1>3, <2>1, <2>2, <2>3
<1> HIDE DEF A
<1>4. Contract(p)
  BY <1>1, <1>2, <1>3 DEF Contract
<1> QED
  BY <1>1, <1>4 DEF A

\* What the projection says of a verb is what the target says of it.
LEMMA ProjectedAction ==
  ASSUME NEW d, IsRecord(d, DoorFields), NEW target, Contract(target), NEW verb,
         NEW x \in ActionOf(Project(d, target), verb),
         verb = "Exists" \/ d.forwards[1].verb \in {EveryVerb, verb}
  PROVE  \E y \in ActionOf(target, verb) : x.requires = y.requires
<1> DEFINE p == Project(d, target)
<1>1. Contract(p) /\ p.actions =
        UNION { { Renamed(y, v) : y \in ActionOf(target, v) } : v \in VerbsForwarded(d, target) }
  BY ProjectIs
<1> HIDE DEF p
<1>2. x \in ActionOf(p, verb)
  BY DEF p
<1>3. x \in p.actions
  BY <1>1, <1>2, ActionIs
<1>a. PICK v \in VerbsForwarded(d, target) : \E y \in ActionOf(target, v) : x = Renamed(y, v)
  BY <1>1, <1>3
<1>4. PICK y \in ActionOf(target, v) : x = Renamed(y, v)
  BY <1>a
<1>5. x.verb = v /\ x.requires = y.requires
  BY <1>4, ActionIs, RenamedIs DEF Contract
<1>6. CASE v = verb
  BY <1>4, <1>5, <1>6
<1>7. CASE v # verb
  <2>1. verb = "Exists" /\ v = "Source"
    BY <1>1, <1>2, <1>5, <1>7, ActionIs
  <2>2. ~\E a \in p.actions : a.verb = "Exists"
    BY <1>2, <1>5, <2>1 DEF ActionOf
  <2>3. ASSUME "Exists" \in VerbsForwarded(d, target), NEW z \in ActionOf(target, "Exists") PROVE FALSE
    <3>1. Renamed(z, "Exists") \in p.actions
      BY <1>1, <2>3
    <3>2. Renamed(z, "Exists").verb = "Exists"
      BY <2>3, ActionIs, RenamedIs DEF Contract
    <3> QED
      BY <2>2, <3>1, <3>2
  <2>4. y \in target.actions /\ y.verb = "Source"
    BY <1>4, <2>1, ActionIs
  <2>5. ~\E a \in target.actions : a.verb = "Exists"
    <3> SUFFICES ASSUME NEW a \in target.actions, a.verb = "Exists" PROVE FALSE
      OBVIOUS
    <3>1. a \in ActionOf(target, "Exists")
      BY ActionIs
    <3>2. "Exists" \in VerbsForwarded(d, target)
      BY DEF VerbsForwarded
    <3> QED
      BY <2>3, <3>1, <3>2
  <2>6. y \in ActionOf(target, "Exists")
    BY <2>4, <2>5 DEF ActionOf
  <2> QED
    BY <1>5, <2>1, <2>6
<1> QED
  BY <1>6, <1>7

(***************************************************************************)
(* What is described, and what serves.                                     *)

ProbeOK(probe) ==
  \A iri \in Iris :
    /\ \A d \in probe[iri] : Contract(d)
    /\ \A d, e \in probe[iri] : d = e

Behind(d, targets) ==
  IF d.forwards = << >> THEN d
  ELSE IF targets[d.forwards[1].target] = {} THEN d
  ELSE Project(d, CHOOSE t \in targets[d.forwards[1].target] : TRUE)

LEMMA BehindIs ==
  ASSUME NEW doors, NEW targets, NEW iri \in Iris
  PROVE  BehindTargets(doors, targets)[iri] = { Behind(d, targets) : d \in Reached(doors, iri) }
BY DEF BehindTargets, Behind

LEMMA ProbesOK ==
  ASSUME SelAssumption, NEW doors \in Seq(Doors)
  PROVE  \A k \in 0 .. MaxForwards : ProbeOK(ProbeWithin(doors)[k])
<1> DEFINE probe(k) == ProbeWithin(doors)[k]
           S == {k \in 0 .. MaxForwards : ProbeOK(probe(k))}
<1>1. /\ probe(0) = AsReached(doors)
      /\ \A k \in 1 .. MaxForwards : probe(k) = BehindTargets(doors, probe(k - 1))
  BY ProbesAre
<1>2. MaxForwards \in Nat
  BY DEF SelAssumption
<1> HIDE DEF probe
<1>3. \A iri : /\ \A d \in Reached(doors, iri) : Contract(d) /\ IsRecord(d, DoorFields) /\ d \in Doors
               /\ \A d, e \in Reached(doors, iri) : d = e
  BY ReachedIs, DoorIs
<1>4. ProbeOK(probe(0))
  BY <1>1, <1>3 DEF ProbeOK, AsReached
<1>5. ASSUME NEW k \in 0 .. MaxForwards, ProbeOK(probe(k)), k < MaxForwards PROVE ProbeOK(probe(k + 1))
  <2>1. probe(k + 1) = BehindTargets(doors, probe(k))
    <3>1. k + 1 \in 1 .. MaxForwards /\ (k + 1) - 1 = k
      BY <1>2, <1>5
    <3> QED
      BY <1>1, <3>1
  <2> SUFFICES ASSUME NEW iri \in Iris
               PROVE  /\ \A d \in probe(k + 1)[iri] : Contract(d)
                      /\ \A d, e \in probe(k + 1)[iri] : d = e
    BY DEF ProbeOK
  <2>2. probe(k + 1)[iri] = { Behind(d, probe(k)) : d \in Reached(doors, iri) }
    BY <2>1, BehindIs
  <2>3. ASSUME NEW d \in Reached(doors, iri) PROVE Contract(Behind(d, probe(k)))
    <3> DEFINE targets == probe(k)[d.forwards[1].target]
    <3>1. CASE d.forwards = << >> \/ targets = {}
      BY <1>3, <3>1 DEF Behind
    <3>2. CASE d.forwards # << >> /\ targets # {}
      <4>1. d.forwards[1].target \in Iris
        BY <1>3, <3>2 DEF SelAssumption
      <4>2. (CHOOSE t \in targets : TRUE) \in targets
        BY <3>2
      <4>3. Contract(CHOOSE t \in targets : TRUE)
        BY <1>5, <4>1, <4>2 DEF ProbeOK
      <4>4. Behind(d, probe(k)) = Project(d, CHOOSE t \in targets : TRUE)
        BY <3>2 DEF Behind
      <4> QED
        BY <1>3, <4>3, <4>4, ProjectIs
    <3> QED
      BY <3>1, <3>2
  <2> QED
    BY <1>3, <2>2, <2>3
<1>6. S \in SUBSET (0 .. MaxForwards) /\ 0 \in S /\ \A k \in S : k < MaxForwards => k + 1 \in S
  BY <1>2, <1>4, <1>5
<1>7. S = 0 .. MaxForwards
  <2>1. 0 \in Nat /\ MaxForwards \in Nat /\ 0 <= MaxForwards
    BY <1>2
  <2> HIDE DEF S
  <2> QED
    BY <2>1, <1>6, UpTo
<1> QED
  BY <1>7 DEF probe

\* Whatever is described by a probe is what serves.
Tells(probe, served, verb) ==
  \A iri \in Iris :
    /\ probe[iri] = {} => served[iri] = {}
    /\ \A d \in probe[iri], e \in served[iri] : \A x \in ActionOf(d, verb), y \in ActionOf(e, verb) :
         x.requires = y.requires

LEMMA DescribedAsServed ==
  ASSUME SelAssumption, offering \in Seq(Doors), NEW verb
  PROVE  \A k \in 0 .. MaxForwards : Tells(ProbeWithin(offering)[k], ServedBy(verb)[k], verb)
<1> DEFINE probe(k) == ProbeWithin(offering)[k]
           served(k) == ServedBy(verb)[k]
           S == {k \in 0 .. MaxForwards : Tells(probe(k), served(k), verb)}
<1>1. /\ probe(0) = AsReached(offering)
      /\ \A k \in 1 .. MaxForwards : probe(k) = BehindTargets(offering, probe(k - 1))
  BY ProbesAre
<1>2. /\ served(0) = ServedAtOnce
      /\ \A k \in 1 .. MaxForwards : served(k) = BehindForwards(verb, served(k - 1))
  BY ServedAre
<1>3. \A k \in 0 .. MaxForwards : ProbeOK(probe(k))
  BY ProbesOK
<1>4. MaxForwards \in Nat
  BY DEF SelAssumption
<1> HIDE DEF probe, served
<1>5. \A iri : /\ \A d \in Reached(offering, iri) : Contract(d) /\ IsRecord(d, DoorFields) /\ d \in Doors
               /\ \A d, e \in Reached(offering, iri) : d = e
  BY ReachedIs, DoorIs
<1>6. ASSUME NEW d, Contract(d), NEW x \in ActionOf(d, verb), NEW y \in ActionOf(d, verb)
      PROVE  x.requires = y.requires
  BY <1>6, ActionIs
<1>7. Tells(probe(0), served(0), verb)
  <2> SUFFICES ASSUME NEW iri \in Iris
               PROVE  /\ probe(0)[iri] = {} => served(0)[iri] = {}
                      /\ \A d \in probe(0)[iri], e \in served(0)[iri] :
                           \A x \in ActionOf(d, verb), y \in ActionOf(e, verb) : x.requires = y.requires
    BY DEF Tells
  <2>1. /\ probe(0)[iri] = Reached(offering, iri)
        /\ served(0)[iri] = {d \in Reached(offering, iri) : d.forwards = << >>}
    BY <1>1, <1>2 DEF AsReached, ServedAtOnce
  <2> QED
    BY <1>5, <1>6, <2>1
<1>8. ASSUME NEW k \in 0 .. MaxForwards, Tells(probe(k), served(k), verb), k < MaxForwards
      PROVE  Tells(probe(k + 1), served(k + 1), verb)
  <2>1. probe(k + 1) = BehindTargets(offering, probe(k)) /\ served(k + 1) = BehindForwards(verb, served(k))
    <3>1. k + 1 \in 1 .. MaxForwards /\ (k + 1) - 1 = k
      BY <1>4, <1>8
    <3> QED
      BY <1>1, <1>2, <3>1
  <2> SUFFICES ASSUME NEW iri \in Iris
               PROVE  /\ probe(k + 1)[iri] = {} => served(k + 1)[iri] = {}
                      /\ \A d \in probe(k + 1)[iri], e \in served(k + 1)[iri] :
                           \A x \in ActionOf(d, verb), y \in ActionOf(e, verb) : x.requires = y.requires
    BY DEF Tells
  <2>2. probe(k + 1)[iri] = { Behind(d, probe(k)) : d \in Reached(offering, iri) }
    BY <2>1, BehindIs
  <2> DEFINE serves(d) == IF d.forwards = << >> THEN {d}
                          ELSE IF verb # "Exists" /\ d.forwards[1].verb \notin {EveryVerb, verb} THEN {}
                          ELSE served(k)[d.forwards[1].target]
  <2>3. served(k + 1)[iri] = UNION { serves(d) : d \in Reached(offering, iri) }
    BY <2>1 DEF BehindForwards
  <2> HIDE DEF serves
  <2>4. probe(k + 1)[iri] = {} => served(k + 1)[iri] = {}
    BY <2>2, <2>3
  <2>5. ASSUME NEW d \in Reached(offering, iri), NEW e \in serves(d),
               NEW x \in ActionOf(Behind(d, probe(k)), verb), NEW y \in ActionOf(e, verb)
        PROVE  x.requires = y.requires
    <3>1. CASE d.forwards = << >>
      <4>1. e = d /\ Behind(d, probe(k)) = d
        BY <2>5, <3>1 DEF serves, Behind
      <4> QED
        BY <1>5, <1>6, <2>5, <4>1
    <3>2. CASE d.forwards # << >>
      <4> DEFINE target == d.forwards[1].target
                 t == CHOOSE t \in probe(k)[target] : TRUE
      <4>1. /\ verb = "Exists" \/ d.forwards[1].verb \in {EveryVerb, verb}
            /\ e \in served(k)[target]
        BY <2>5, <3>2 DEF serves
      <4>2. target \in Iris
        BY <1>5, <3>2 DEF SelAssumption
      <4>3. probe(k)[target] # {}
        BY <1>8, <4>1, <4>2 DEF Tells
      <4>4. t \in probe(k)[target] /\ Contract(t)
        BY <1>3, <4>2, <4>3 DEF ProbeOK
      <4>5. x \in ActionOf(Project(d, t), verb)
        BY <2>5, <3>2, <4>3 DEF Behind
      <4> HIDE DEF t
      <4>6. PICK z \in ActionOf(t, verb) : x.requires = z.requires
        BY <1>5, <4>1, <4>4, <4>5, ProjectedAction
      <4>7. z.requires = y.requires
        BY <1>8, <2>5, <4>1, <4>2, <4>4, <4>6 DEF Tells
      <4> QED
        BY <4>6, <4>7
    <3> QED
      BY <3>1, <3>2
  <2>6. ASSUME NEW d \in probe(k + 1)[iri], NEW e \in served(k + 1)[iri],
               NEW x \in ActionOf(d, verb), NEW y \in ActionOf(e, verb)
        PROVE  x.requires = y.requires
    <3>1. PICK a \in Reached(offering, iri) : d = Behind(a, probe(k))
      BY <2>2, <2>6
    <3>2. PICK b \in Reached(offering, iri) : e \in serves(b)
      BY <2>3, <2>6
    <3>3. a = b
      BY <1>5
    <3> QED
      BY <2>5, <2>6, <3>1, <3>2, <3>3
  <2> QED
    BY <2>4, <2>6
<1>9. S \in SUBSET (0 .. MaxForwards) /\ 0 \in S /\ \A k \in S : k < MaxForwards => k + 1 \in S
  BY <1>4, <1>7, <1>8
<1>10. S = 0 .. MaxForwards
  <2>1. 0 \in Nat /\ MaxForwards \in Nat /\ 0 <= MaxForwards
    BY <1>4
  <2> HIDE DEF S
  <2> QED
    BY <2>1, <1>9, UpTo
<1> QED
  BY <1>10 DEF probe, served

(***************************************************************************)
(* The offers.                                                             *)

LEMMA ProbeIs ==
  ASSUME SelAssumption, NEW doors \in Seq(Doors), NEW iri \in Iris
  PROVE  /\ \A d \in Probe(doors, iri) : Contract(d)
         /\ \A d, e \in Probe(doors, iri) : d = e
<1>1. MaxForwards \in 0 .. MaxForwards
  BY DEF SelAssumption
<1> QED
  BY <1>1, ProbesOK DEF Probe, ProbeOK

\* What a match is of.
LEMMA MatchIs ==
  ASSUME SelAssumption, NEW doors \in Seq(Doors), NEW i \in Entries(doors), NEW q, NEW present,
         NEW m \in MatchesOf(doors, i, q, present)
  PROVE  \E d \in DescribeEntry(doors, doors[i]) : \E a \in d.actions :
           /\ m = Match(doors[i], d, a, present)
           /\ Fits(doors[i], a, q, present) /\ a.requires \subseteq q.capability
           /\ m.endpoint = doors[i].pattern /\ m.verb = a.verb
<1>1. PICK d \in DescribeEntry(doors, doors[i]) :
        m \in { Match(doors[i], d, a, present) :
                  a \in { x \in d.actions : /\ Fits(doors[i], x, q, present)
                                            /\ x.requires \subseteq q.capability } }
  BY DEF MatchesOf
<1>2. PICK a \in d.actions : /\ m = Match(doors[i], d, a, present)
                             /\ Fits(doors[i], a, q, present) /\ a.requires \subseteq q.capability
  BY <1>1
<1>3. m.endpoint = doors[i].pattern /\ m.verb = a.verb
  BY <1>2 DEF Match
<1> QED
  BY <1>2, <1>3

LEMMA EntryIs ==
  ASSUME SelAssumption, NEW doors \in Seq(Doors), NEW i \in Entries(doors)
  PROVE  /\ ProbeOf[doors[i].pattern] \in Iris
         /\ DescribeEntry(doors, doors[i]) \subseteq Probe(doors, ProbeOf[doors[i].pattern])
<1>1. doors[i] \in Doors /\ ~doors[i].limiter
  BY DEF Entries
<1>2. ProbeOf[doors[i].pattern] \in Iris
  BY <1>1, DoorAt
<1>3. DescribeEntry(doors, doors[i]) \subseteq Probe(doors, ProbeOf[doors[i].pattern])
  BY DEF DescribeEntry
<1> QED
  BY <1>2, <1>3

LEMMA Admitted ==
  ASSUME SelAssumption, offering \in Seq(Doors), offered = {} \/ offered = Select(offering, query)
  PROVE  OffersAreAdmitted
<1> DEFINE present == ExpandPresent(query.present)
<1> SUFFICES ASSUME NEW m \in offered, NEW e \in ServedBy(m.verb)[MaxForwards][ProbeOf[m.endpoint]],
                    NEW y \in ActionOf(e, m.verb)
             PROVE  y.requires \subseteq query.capability
  BY DEF OffersAreAdmitted
<1>1. m \in Firsts(offering, query, present)
  BY DEF Select, BesideFit
<1> HIDE DEF present
<1>2. PICK i \in Entries(offering) : m \in MatchesOf(offering, i, query, present)
  BY <1>1 DEF Firsts
<1>3. PICK d \in DescribeEntry(offering, offering[i]) : \E a \in d.actions :
        /\ a.requires \subseteq query.capability
        /\ m.endpoint = offering[i].pattern /\ m.verb = a.verb
  BY <1>2, MatchIs
<1>4. PICK a \in d.actions : /\ a.requires \subseteq query.capability
                             /\ m.endpoint = offering[i].pattern /\ m.verb = a.verb
  BY <1>3
<1> DEFINE iri == ProbeOf[offering[i].pattern]
<1>5. iri \in Iris /\ d \in ProbeWithin(offering)[MaxForwards][iri] /\ Contract(d)
  BY EntryIs, ProbeIs DEF Probe
<1>6. a \in ActionOf(d, m.verb)
  BY <1>4, <1>5, ActionIs
<1>7. Tells(ProbeWithin(offering)[MaxForwards], ServedBy(m.verb)[MaxForwards], m.verb)
  <2>1. MaxForwards \in 0 .. MaxForwards
    BY DEF SelAssumption
  <2>2. \A v : \A k \in 0 .. MaxForwards : Tells(ProbeWithin(offering)[k], ServedBy(v)[k], v)
    BY DescribedAsServed
  <2> QED
    BY <2>1, <2>2
<1>8. a.requires = y.requires
  BY <1>4, <1>5, <1>6, <1>7 DEF Tells
<1> QED
  BY <1>4, <1>8

Narrowed(q, c) == [q EXCEPT !.capability = c]

LEMMA NarrowedIs ==
  ASSUME SelAssumption, NEW q \in Queries, NEW c
  PROVE  /\ Narrowed(q, c).capability = c /\ Narrowed(q, c).present = q.present
         /\ Narrowed(q, c).verb = q.verb /\ Narrowed(q, c).want = q.want
<1>1. IsRecord(q, {"present", "verb", "want", "capability"})
  BY DEF SelAssumption
<1> QED
  BY <1>1 DEF IsRecord, Narrowed

LEMMA FitsAlike ==
  ASSUME NEW q, NEW r, r.verb = q.verb, r.want = q.want, NEW entry, NEW a, NEW present
  PROVE  Fits(entry, a, r, present) = Fits(entry, a, q, present)
BY DEF Fits

LEMMA NarrowerMatches ==
  ASSUME SelAssumption, NEW doors \in Seq(Doors), NEW q \in Queries, NEW c \in SUBSET q.capability,
         NEW present, NEW i \in Entries(doors)
  PROVE  MatchesOf(doors, i, Narrowed(q, c), present) \subseteq MatchesOf(doors, i, q, present)
<1> DEFINE r == Narrowed(q, c)
<1>1. r.capability \subseteq q.capability /\ r.verb = q.verb /\ r.want = q.want
  BY NarrowedIs
<1> HIDE DEF r
<1>2. \A a : Fits(doors[i], a, r, present) = Fits(doors[i], a, q, present)
  BY <1>1, FitsAlike
<1>3. MatchesOf(doors, i, r, present) \subseteq MatchesOf(doors, i, q, present)
  BY <1>1, <1>2 DEF MatchesOf
<1> QED
  BY <1>3 DEF r

LEMMA NarrowerFirsts ==
  ASSUME SelAssumption, NEW doors \in Seq(Doors), NEW q \in Queries, NEW c \in SUBSET q.capability,
         NEW present
  PROVE  Firsts(doors, Narrowed(q, c), present) \subseteq Firsts(doors, q, present)
<1> DEFINE r == Narrowed(q, c)
<1>1. r.capability = c /\ r.verb = q.verb /\ r.want = q.want
  BY NarrowedIs
<1> SUFFICES ASSUME NEW i \in Entries(doors), NEW m \in MatchesOf(doors, i, r, present),
                    ~\E j \in Entries(doors) : j < i /\ \E n \in MatchesOf(doors, j, r, present) :
                        n.endpoint = m.endpoint /\ n.verb = m.verb
             PROVE  m \in Firsts(doors, q, present)
  BY DEF Firsts
<1>2. m \in MatchesOf(doors, i, q, present)
  BY NarrowerMatches
<1> HIDE DEF r
<1>3. PICK d \in DescribeEntry(doors, doors[i]) : \E a \in d.actions :
        /\ a.requires \subseteq r.capability
        /\ m.endpoint = doors[i].pattern /\ m.verb = a.verb
  BY MatchIs
<1>4. PICK a \in d.actions : /\ a.requires \subseteq r.capability
                             /\ m.endpoint = doors[i].pattern /\ m.verb = a.verb
  BY <1>3
<1>5. ASSUME NEW j \in Entries(doors), j < i, NEW n \in MatchesOf(doors, j, q, present),
             n.endpoint = m.endpoint, n.verb = m.verb
      PROVE  FALSE
  <2>1. PICK e \in DescribeEntry(doors, doors[j]) : \E b \in e.actions :
          /\ n = Match(doors[j], e, b, present)
          /\ Fits(doors[j], b, q, present)
          /\ n.endpoint = doors[j].pattern /\ n.verb = b.verb
    BY <1>5, MatchIs
  <2>2. PICK b \in e.actions : /\ n = Match(doors[j], e, b, present)
                               /\ Fits(doors[j], b, q, present)
                               /\ n.endpoint = doors[j].pattern /\ n.verb = b.verb
    BY <2>1
  <2>3. doors[j].pattern = doors[i].pattern /\ b.verb = a.verb
    BY <1>4, <1>5, <2>2
  <2> DEFINE iri == ProbeOf[doors[i].pattern]
  <2>4. iri \in Iris /\ d \in Probe(doors, iri) /\ e \in Probe(doors, iri)
    BY <2>3, EntryIs
  <2>5. d = e /\ Contract(d)
    BY <2>4, ProbeIs
  <2>6. a = b
    BY <2>3, <2>5 DEF Contract
  <2>7. Fits(doors[j], b, r, present)
    BY <1>1, <2>2, FitsAlike
  <2>8. n \in MatchesOf(doors, j, r, present)
    BY <1>4, <2>2, <2>6, <2>7 DEF MatchesOf
  <2> QED
    BY <1>5, <2>8
<1> QED
  BY <1>2, <1>5 DEF Firsts

LEMMA NarrowerOffers ==
  ASSUME SelAssumption, offering \in Seq(Doors),
         query = Nothing \/ (query \in Queries /\ offered = Select(offering, query))
  PROVE  NarrowerOffersLess
<1> SUFFICES ASSUME query \in Queries, offered = Select(offering, query), NEW c \in SUBSET query.capability
             PROVE  Select(offering, Narrowed(query, c)) \subseteq offered
  BY DEF NarrowerOffersLess, Narrowed
<1> DEFINE present == ExpandPresent(query.present)
           few == Firsts(offering, Narrowed(query, c), present)
           all == Firsts(offering, query, present)
<1>1. few \subseteq all
  BY NarrowerFirsts
<1>2. Select(offering, Narrowed(query, c)) = BesideFit(few) /\ offered = BesideFit(all)
  BY NarrowedIs DEF Select
<1> HIDE DEF few, all
<1> QED
  BY <1>1, <1>2 DEF BesideFit

(***************************************************************************)
(* The plans.                                                              *)

EligibleIn(cs, from, to, careful) ==
  { i \in DOMAIN cs : /\ careful => cs[i].lossless
                      /\ Handles(cs[i], from, to) }
HopOf(cs, from, to, careful) == Step(cs[Min(EligibleIn(cs, from, to, careful))], to)

LEMMA PlanIs ==
  ASSUME NEW cs, NEW from, NEW to, NEW careful
  PROVE  PlanOver(cs, from, to, careful) =
           IF EligibleIn(cs, from, to, careful) # {} THEN <<HopOf(cs, from, to, careful)>>
           ELSE IF Agree(from, Canonical) \/ Agree(to, Canonical) THEN << >>
           ELSE IF \/ EligibleIn(cs, from, Canonical, careful) = {}
                   \/ EligibleIn(cs, Canonical, to, careful) = {} THEN << >>
           ELSE <<HopOf(cs, from, Canonical, careful), HopOf(cs, Canonical, to, careful)>>
BY DEF PlanOver, EligibleIn, HopOf

Mounted == offering \o Streams
Candidate(i) == Collect(Mounted)[i]

\* A candidate is not described by a projection: its name resolves to it.
LEMMA ProbedAsReached ==
  ASSUME SelAssumption, NEW doors \in Seq(Doors), NEW iri \in Iris, NEW d \in Probe(doors, iri),
         d.conversion # << >>
  PROVE  d \in Reached(doors, iri)
<1>1. CASE MaxForwards = 0
  <2>1. ProbeWithin(doors)[MaxForwards] = AsReached(doors)
    BY <1>1, ProbesAre
  <2> QED
    BY <2>1 DEF Probe, AsReached
<1>2. CASE MaxForwards # 0
  <2> DEFINE targets == ProbeWithin(doors)[MaxForwards - 1]
  <2>1. MaxForwards \in 1 .. MaxForwards /\ MaxForwards - 1 \in 0 .. MaxForwards
    BY <1>2 DEF SelAssumption
  <2>2. ProbeWithin(doors)[MaxForwards] = BehindTargets(doors, targets)
    BY <2>1, ProbesAre
  <2>3. ProbeOK(targets)
    BY <2>1, ProbesOK
  <2> HIDE DEF targets
  <2>4. PICK e \in Reached(doors, iri) : d = Behind(e, targets)
    BY <2>2, BehindIs DEF Probe
  <2>5. e \in Doors /\ ~e.limiter /\ IsRecord(e, DoorFields)
    BY ReachedIs, DoorIs
  <2>6. SUFFICES ASSUME d # e PROVE FALSE
    BY <2>4
  <2> DEFINE target == e.forwards[1].target
             t == CHOOSE t \in targets[target] : TRUE
  <2>7. e.forwards # << >> /\ targets[target] # {} /\ d = Project(e, t)
    BY <2>4, <2>6 DEF Behind
  <2>8. target \in Iris
    BY <2>5, <2>7 DEF SelAssumption
  <2>9. Contract(t)
    BY <2>3, <2>7, <2>8 DEF ProbeOK
  <2> HIDE DEF t
  <2> QED
    BY <2>5, <2>7, <2>9, ProjectIs
<1> QED
  BY <1>1, <1>2

LEMMA CandidateIs ==
  ASSUME SelAssumption, Mounted \in Seq(Doors), NEW i \in DOMAIN Collect(Mounted)
  PROVE  /\ i \in DOMAIN Mounted /\ i \in Nat
         /\ \E d \in Reached(Mounted, Candidate(i).iri) :
              /\ d \in Transreptors(Mounted, i) /\ d.conversion # << >>
              /\ Candidate(i).from = d.conversion[1].from /\ Candidate(i).to = d.conversion[1].to
              /\ Candidate(i).lossless = d.conversion[1].lossless
<1> DEFINE d == CHOOSE d \in Transreptors(Mounted, i) : TRUE
<1>1. /\ i \in Entries(Mounted) /\ Mounted[i].exact /\ Transreptors(Mounted, i) # {}
      /\ Candidate(i) = [iri |-> Mounted[i].pattern, from |-> d.conversion[1].from,
                         to |-> d.conversion[1].to, lossless |-> d.conversion[1].lossless]
  BY DEF Collect, Candidate
<1>2. d \in Transreptors(Mounted, i)
  BY <1>1
<1> HIDE DEF d
<1>3. d \in DescribeEntry(Mounted, Mounted[i]) /\ d.conversion # << >>
  BY <1>2 DEF Transreptors
<1>4. i \in DOMAIN Mounted /\ ~Mounted[i].limiter /\ Mounted[i] \in Doors
  BY <1>1 DEF Entries
<1>5. ProbeOf[Mounted[i].pattern] = Mounted[i].pattern /\ Mounted[i].pattern \in Iris
  BY <1>1, <1>4, DoorAt
<1>6. d \in Probe(Mounted, Mounted[i].pattern)
  BY <1>1, <1>3, <1>5, EntryIs
<1>7. d \in Reached(Mounted, Mounted[i].pattern)
  BY <1>3, <1>5, <1>6, ProbedAsReached
<1> QED
  BY <1>1, <1>2, <1>3, <1>4, <1>7

\* A candidate that handles a conversion is an edge of the graph.
LEMMA HopIsEdge ==
  ASSUME SelAssumption, Mounted \in Seq(Doors), NEW from, NEW to, NEW careful,
         EligibleIn(Collect(Mounted), from, to, careful) # {}
  PROVE  LET hop == HopOf(Collect(Mounted), from, to, careful)
         IN  /\ hop.to = to /\ Edge(hop.endpoint, from, to, hop.lossless)
             /\ careful => hop.lossless
<1> DEFINE E == EligibleIn(Collect(Mounted), from, to, careful)
           i == Min(E)
           hop == HopOf(Collect(Mounted), from, to, careful)
<1>1. E \in SUBSET Nat
  BY CandidateIs DEF EligibleIn
<1>2. i \in E
  <2> HIDE DEF E
  <2> QED
    BY <1>1, MinIs DEF E
<1> HIDE DEF i
<1>3. i \in DOMAIN Collect(Mounted) /\ Handles(Candidate(i), from, to) /\ (careful => Candidate(i).lossless)
  BY <1>2 DEF EligibleIn, Candidate
<1>4. PICK d \in Reached(Mounted, Candidate(i).iri) :
        /\ d.conversion # << >>
        /\ Candidate(i).from = d.conversion[1].from /\ Candidate(i).to = d.conversion[1].to
        /\ Candidate(i).lossless = d.conversion[1].lossless
  BY <1>3, CandidateIs
<1>5. hop = Step(Candidate(i), to)
  BY DEF HopOf, Candidate, i
<1>6. hop.to = to /\ hop.endpoint = Candidate(i).iri /\ hop.lossless = Candidate(i).lossless
  BY <1>5 DEF Step
<1>7. Handles(d.conversion[1], from, to)
  BY <1>3, <1>4 DEF Handles
<1>8. Edge(hop.endpoint, from, to, hop.lossless)
  BY <1>4, <1>6, <1>7 DEF Edge, Mounted
<1> QED
  BY <1>3, <1>6, <1>8

\* A lossless way is found.
LEMMA EdgeIsEligible ==
  ASSUME SelAssumption, Mounted \in Seq(Doors), NEW from, NEW to, LosslessEdge(from, to)
  PROVE  EligibleIn(Collect(Mounted), from, to, TRUE) # {}
<1>1. PICK i \in DOMAIN Mounted :
        /\ ~Mounted[i].limiter /\ Mounted[i].exact /\ Mounted[i].forwards = << >>
        /\ Mounted[i].conversion # << >> /\ Mounted[i].conversion[1].auto
        /\ Edge(Mounted[i].pattern, from, to, TRUE)
        /\ Reached(Mounted, Mounted[i].pattern) = {Mounted[i]}
  BY DEF LosslessEdge, Mounted
<1> DEFINE d == Mounted[i]
<1>2. d \in Doors /\ i \in Entries(Mounted)
  BY <1>1 DEF Entries
<1>3. ProbeOf[d.pattern] = d.pattern /\ d.pattern \in Iris
  BY <1>1, <1>2, DoorAt
<1> HIDE DEF d
<1>4. Probe(Mounted, d.pattern) = {d}
  <2>1. CASE MaxForwards = 0
    <3>1. ProbeWithin(Mounted)[MaxForwards] = AsReached(Mounted)
      BY <2>1, ProbesAre
    <3> QED
      BY <1>1, <1>3, <3>1 DEF Probe, AsReached, d
  <2>2. CASE MaxForwards # 0
    <3> DEFINE targets == ProbeWithin(Mounted)[MaxForwards - 1]
    <3>1. MaxForwards \in 1 .. MaxForwards
      BY <2>2 DEF SelAssumption
    <3>2. ProbeWithin(Mounted)[MaxForwards] = BehindTargets(Mounted, targets)
      BY <3>1, ProbesAre
    <3> HIDE DEF targets
    <3>3. Probe(Mounted, d.pattern) = {Behind(e, targets) : e \in {d}}
      BY <1>1, <1>3, <3>2, BehindIs DEF Probe, d
    <3>4. Behind(d, targets) = d
      BY <1>1 DEF Behind, d
    <3> QED
      BY <3>3, <3>4
  <2> QED
    BY <2>1, <2>2
<1>5. Transreptors(Mounted, i) = {d}
  BY <1>1, <1>3, <1>4 DEF Transreptors, DescribeEntry, d
<1>6. i \in DOMAIN Collect(Mounted)
  BY <1>1, <1>2, <1>5 DEF Collect
<1>7. /\ Candidate(i).from = d.conversion[1].from /\ Candidate(i).to = d.conversion[1].to
      /\ Candidate(i).lossless = d.conversion[1].lossless
  BY <1>5, <1>6, CandidateIs
<1>8. d.conversion[1].lossless = TRUE /\ Handles(d.conversion[1], from, to)
  BY <1>1 DEF Edge, Mounted, d
<1>9. Handles(Candidate(i), from, to) /\ Candidate(i).lossless
  BY <1>7, <1>8 DEF Handles
<1> QED
  BY <1>6, <1>9 DEF EligibleIn, Candidate

\* What a plan over the candidates is worth.
PlanOK(p, from, to) ==
  /\ p[Len(p)].to = to
  /\ \A i \in DOMAIN p : Edge(p[i].endpoint, IF i = 1 THEN from ELSE p[i - 1].to, p[i].to, p[i].lossless)

LEMMA PlanOverOK ==
  ASSUME SelAssumption, Mounted \in Seq(Doors), NEW from, NEW to, NEW careful,
         NEW p, p = PlanOver(Collect(Mounted), from, to, careful), p # << >>
  PROVE  /\ PlanOK(p, from, to)
         /\ careful => \A i \in DOMAIN p : p[i].lossless
<1> DEFINE cs == Collect(Mounted)
           E(f, t) == EligibleIn(cs, f, t, careful)
           H(f, t) == HopOf(cs, f, t, careful)
<1>1. \/ E(from, to) # {} /\ p = <<H(from, to)>>
      \/ /\ E(from, Canonical) # {} /\ E(Canonical, to) # {}
         /\ p = <<H(from, Canonical), H(Canonical, to)>>
  BY PlanIs
<1>2. ASSUME NEW f, NEW t, E(f, t) # {}
      PROVE  /\ H(f, t).to = t /\ Edge(H(f, t).endpoint, f, t, H(f, t).lossless)
             /\ careful => H(f, t).lossless
  BY <1>2, HopIsEdge
<1> HIDE DEF E, H
<1>3. CASE E(from, to) # {} /\ p = <<H(from, to)>>
  <2>1. Len(p) = 1 /\ DOMAIN p = {1} /\ p[1] = H(from, to)
    BY <1>3
  <2> QED
    BY <1>2, <1>3, <2>1 DEF PlanOK
<1>4. CASE /\ E(from, Canonical) # {} /\ E(Canonical, to) # {}
           /\ p = <<H(from, Canonical), H(Canonical, to)>>
  <2>1. Len(p) = 2 /\ DOMAIN p = {1, 2} /\ p[1] = H(from, Canonical) /\ p[2] = H(Canonical, to)
    BY <1>4
  <2>2. p[1].to = Canonical /\ p[2].to = to
    BY <1>2, <1>4, <2>1
  <2>3. Edge(p[1].endpoint, from, p[1].to, p[1].lossless) /\ Edge(p[2].endpoint, p[1].to, p[2].to, p[2].lossless)
    BY <1>2, <1>4, <2>1, <2>2
  <2>4. careful => p[1].lossless /\ p[2].lossless
    BY <1>2, <1>4, <2>1
  <2>5. 2 # 1 /\ 2 - 1 = 1
    OBVIOUS
  <2> QED
    BY <2>1, <2>2, <2>3, <2>4, <2>5 DEF PlanOK
<1> QED
  BY <1>1, <1>3, <1>4

LEMMA NoPlanNoWay ==
  ASSUME SelAssumption, Mounted \in Seq(Doors), NEW from, NEW to,
         PlanOver(Collect(Mounted), from, to, TRUE) = << >>
  PROVE  ~LosslessWay(from, to)
<1> DEFINE E(f, t) == EligibleIn(Collect(Mounted), f, t, TRUE)
<1>1. \A f, t : LosslessEdge(f, t) => E(f, t) # {}
  BY EdgeIsEligible
<1>2. E(from, to) = {}
  BY PlanIs
<1>3. \/ Agree(from, Canonical) \/ Agree(to, Canonical)
      \/ E(from, Canonical) = {} \/ E(Canonical, to) = {}
  BY <1>2, PlanIs
<1> HIDE DEF E
<1> QED
  BY <1>1, <1>2, <1>3 DEF LosslessWay

LEMMA SoundPlans ==
  ASSUME SelAssumption, offering \in Seq(Doors),
         (request = Nothing /\ plan = << >>) \/ plan = SelectTransreptor(offering, request)
  PROVE  PlansAreSound
<1> DEFINE cs == Collect(Mounted)
           from == request.from
           to == request.to
           careful == PlanOver(cs, from, to, TRUE)
           careless == PlanOver(cs, from, to, FALSE)
<1>1. Mounted \in Seq(Doors)
  BY ConcatProperties DEF SelAssumption, Mounted
<1>2. plan # << >> =>
        /\ plan = SelectTransreptor(offering, request)
        /\ \/ plan = careful
           \/ careful = << >> /\ request.lossy /\ plan = careless
  BY DEF SelectTransreptor, PlanFor, Mounted
<1>3. (request # Nothing /\ plan = << >> /\ ~Agree(from, to)) => careful = << >>
  BY DEF SelectTransreptor, PlanFor, Mounted
<1>4. careful = << >> => ~LosslessWay(from, to)
  BY <1>1, NoPlanNoWay
<1>5. plan # << >> /\ plan = careful => PlanOK(plan, from, to) /\ \A i \in DOMAIN plan : plan[i].lossless
  BY <1>1, PlanOverOK
<1>6. plan # << >> /\ plan = careless => PlanOK(plan, from, to)
  BY <1>1, PlanOverOK
<1> HIDE DEF careful, careless
<1> QED
  BY <1>2, <1>3, <1>4, <1>5, <1>6 DEF PlansAreSound, PlanOK

-----------------------------------------------------------------------------
\* What was offered was offered of this space, for this query; what was planned, for
\* this conversion.
SelInv ==
  /\ offering \in Offerings
  /\ \/ query = Nothing /\ offered = {}
     \/ query \in Queries /\ offered = Select(offering, query)
  /\ \/ request = Nothing /\ plan = << >>
     \/ request \in Conversions /\ plan = SelectTransreptor(offering, request)

\* An action is offered only to who may run it where it is served, whatever it
\* forwards through; a narrower capability only takes offers away; and a plan can
\* be run as it stands, and loses nothing unless it must and may (select.rs,
\* select_actions and select_transreptor_with).
THEOREM OffersAlwaysHold == ASSUME SelAssumption PROVE SelSpec => []OffersHold
<1>1. SelInit => SelInv
  BY DEF SelInit, SelInv
<1>2. SelInv /\ [SelNext]_selVars => SelInv'
  BY DEF SelInv, SelNext, OfferActions, PlanConversion, selVars
<1>3. SelInv => OffersHold
  <2> SUFFICES ASSUME SelInv PROVE OffersHold
    OBVIOUS
  <2>1. offering \in Seq(Doors)
    BY DEF SelInv, SelAssumption
  <2> QED
    BY <2>1, Admitted, NarrowerOffers, SoundPlans DEF SelInv, OffersHold
<1> QED
  BY <1>1, <1>2, <1>3, PTL DEF SelSpec
==============================================================================
