------------------------------- MODULE Chains -------------------------------
(* The resolution chain a request carries (Scope of space.rs): corridors a   *)
(* host injected, the stack of levels the issuing endpoint was found in,     *)
(* corridors an endpoint confined itself to, and the root unless it is       *)
(* severed.  A root and the host's seals give the seal table; the chains of  *)
(* two requests are then extended, confined, stacked and descended by        *)
(* whatever the endpoints they reach do.                                     *)
EXTENDS Spaces

CONSTANTS RootOf,     \* root name -> space
          CorridorOf, \* corridor name -> space
          ConfinedTo, \* door -> the corridor its endpoint is confined to (partial)
          HostSeals,  \* the seal sets a host may ask for
          Asked,      \* the names requests ask for
          Who,        \* the requests whose chains are followed
          MaxInjected,  \* bound on the corridors of each chain
          MaxAnonymous  \* bound on the corridors injected without a name

VARIABLES root,   \* the root this kernel was built on
          seals,  \* its seal table
          scope,  \* who -> the chain its next request carries
          fresh   \* the next anonymous corridor's number

chainVars == <<root, seals, scope, fresh>>

(* A request for a core name never reaches a chain: the kernel answers it.   *)
ChainAssumption ==
    /\ SpaceAssumption
    /\ \A r \in DOMAIN RootOf : RootOf[r] \in Trees
    /\ \A c \in DOMAIN CorridorOf : CorridorOf[c] \in Trees
    /\ \A d \in DOMAIN ConfinedTo : ConfinedTo[d] \in DOMAIN CorridorOf
    /\ \A host \in HostSeals : host \subseteq Texts
    /\ Asked \subseteq Texts
    /\ \A n \in Asked, p \in CoreSeals : ~StartsWith(n, p)

-----------------------------------------------------------------------------
(* The chain.                                                                *)

EmptyScope == [injected |-> << >>, confined |-> 0, levels |-> << >>, severed |-> FALSE]

(* What a corridor is fingerprinted by (CorridorIdentity).                   *)
ByName(c) == <<"named", c>>
Anonymous(k) == <<"anonymous", k>>

Corridor(c, id) == [space |-> c, id |-> id]

With(s, c, id) == [s EXCEPT !.injected = Append(@, Corridor(c, id))]

Severed(s) == [s EXCEPT !.severed = TRUE]

(* The level stack the endpoint was reached through outlives confinement.    *)
ConfinedInPlace(s, c) ==
    [injected |-> <<Corridor(c, ByName(c))>> \o s.injected, confined |-> s.confined + 1,
     levels |-> s.levels, severed |-> TRUE]

Confined(s, c) ==
    [injected |-> <<Corridor(c, ByName(c))>> \o s.injected, confined |-> s.confined + 1,
     levels |-> << >>, severed |-> TRUE]

Descend(s, path) == [s EXCEPT !.levels = path]

Behind(s) == SubSeq(s.injected, 1, s.confined)
Injected(s) == SubSeq(s.injected, s.confined + 1, Len(s.injected))

Stack(s, inner) ==
    [injected |-> Behind(inner) \o s.injected \o Injected(inner),
     confined |-> s.confined + inner.confined,
     levels |-> IF inner.levels # << >> THEN inner.levels
                ELSE IF inner.confined > 0 THEN << >> ELSE s.levels,
     severed |-> s.severed \/ inner.severed]

(* The split between host's and confined corridors left out of the digest.   *)
FingerprintUnsplit(s) ==
    IF s = EmptyScope THEN << >>
    ELSE <<s.severed, [i \in DOMAIN s.injected |-> s.injected[i].id],
           [i \in DOMAIN s.levels |-> LevelOf[s.levels[i]].name]>>

(* What the cache keys a chain's answers on; the digest is taken injective.  *)
Fingerprint(s) ==
    IF s = EmptyScope THEN << >>
    ELSE <<s.severed, [i \in DOMAIN s.injected |-> s.injected[i].id],
           IF s.levels = << >> THEN << >>
           ELSE <<s.confined, [i \in DOMAIN s.levels |-> LevelOf[s.levels[i]].name]>> >>

-----------------------------------------------------------------------------
(* One walk of the chain.                                                    *)

Breach == [hit |-> FALSE, breach |-> TRUE]

Admit(r, n) ==
    IF /\ r.hit
       /\ ~IsLimiter(r)
       /\ (seals.trivial /\ r.levels = << >>) => r.canonical # NoValue
       /\ ~AdmitNames(seals, {n, r.canonical} \ {NoValue}, r.levels)
    THEN Breach
    ELSE r

AnswerOf(s, n) == Answers[s][n]
CorridorAnswer(corridor, n) == AnswerOf(CorridorOf[corridor.space], n)
LevelAnswer(serial, n) == AnswerOf(LevelOf[serial].inner, n)

(* The corridors of a chain are kept outermost first and walked in reverse.  *)
CorridorHit(corridors, n) ==
    LET hits == { i \in DOMAIN corridors : CorridorAnswer(corridors[i], n).hit }
    IN  IF hits = {} THEN Miss ELSE CorridorAnswer(corridors[Max(hits)], n)

(* The level frames, innermost first.  A frame the name's owner is not is    *)
(* skipped; a hit was found inside the frame and every level outward of it.  *)
FrameHit(levels, n, owners) ==
    LET hits == { i \in DOMAIN levels :
                    /\ \A o \in owners : FrameAdmits(seals, o, levels[i])
                    /\ LevelAnswer(levels[i], n).hit }
    IN  IF hits = {} THEN Miss
        ELSE [LevelAnswer(levels[Min(hits)], n) EXCEPT
                !.levels = @ \o SubSeq(levels, Min(hits), Len(levels))]

ResolveIn(s, n) ==
    LET owners == IF seals.trivial THEN {} ELSE OwnersOf(seals, n)
        host == CorridorHit(Injected(s), n)
        frame == FrameHit(s.levels, n, owners)
        behind == IF owners = {} THEN CorridorHit(Behind(s), n) ELSE Miss
    IN  IF host.hit THEN host
        ELSE IF frame.hit THEN Admit(frame, n)
        ELSE IF behind.hit THEN behind
        ELSE IF s.severed THEN Miss
        ELSE Admit(AnswerOf(RootOf[root], n), n)

-----------------------------------------------------------------------------
(* Actions.  A kernel exists only where its seal table was accepted.         *)

ChainsInit ==
    /\ root \in DOMAIN RootOf
    /\ \E host \in HostSeals : seals = FromTopology(RootOf[root], host)
    /\ scope = [w \in Who |-> EmptyScope]
    /\ fresh = 1

Extend(w, s) ==
    /\ seals.built
    /\ Len(s.injected) <= MaxInjected[w]
    /\ scope' = [scope EXCEPT ![w] = s]
    /\ UNCHANGED <<root, seals>>

(* A host injects a named corridor, an unnamed one, or severs the chain.     *)
Inject(w, c) == Extend(w, With(scope[w], c, ByName(c))) /\ UNCHANGED fresh

InjectAnonymous(w, c) ==
    /\ fresh <= MaxAnonymous
    /\ Extend(w, With(scope[w], c, Anonymous(fresh)))
    /\ fresh' = fresh + 1

SeverRoot(w) == ~scope[w].severed /\ Extend(w, Severed(scope[w])) /\ UNCHANGED fresh

(* One chain is stacked on another.                                          *)
StackOn(w, inner) == w # inner /\ Extend(w, Stack(scope[w], scope[inner])) /\ UNCHANGED fresh

(* A request reaches an endpoint: what it issues runs in the chain descended *)
(* to where it was found, confined if the endpoint confines itself.          *)
Issue(w, n) ==
    LET r == ResolveIn(scope[w], n)
        inner == Descend(scope[w], r.levels)
    IN  /\ r.hit
        /\ ~IsLimiter(r)
        /\ Extend(w, IF r.door \in DOMAIN ConfinedTo
                     THEN Confined(inner, ConfinedTo[r.door]) ELSE inner)
        /\ UNCHANGED fresh

ChainsNext ==
    \E w \in Who :
        \/ \E c \in DOMAIN CorridorOf : Inject(w, c) \/ InjectAnonymous(w, c)
        \/ SeverRoot(w)
        \/ \E v \in Who : StackOn(w, v)
        \/ \E n \in Asked : Issue(w, n)

ChainsSpec == ChainsInit /\ [][ChainsNext]_chainVars

-----------------------------------------------------------------------------
(* Properties.                                                               *)

CorridorDoors(corridors) ==
    UNION { DoorsOfSpace(CorridorOf[corridors[i].space]) : i \in DOMAIN corridors }

(* The names a hit is held to: the target's and, unless a confined corridor  *)
(* answered, the one it was rewritten to.                                    *)
NamesOf(r, s, n) ==
    {n} \cup (IF r.door \in CorridorDoors(Behind(s)) THEN {} ELSE {r.canonical} \ {NoValue})

(* Whatever chain asks, a sealed name is answered by a corridor the host     *)
(* injected or by a door that stands where its owner is (in that very level  *)
(* object; outside every level for the host's): seal.rs, "answered by its    *)
(* owner or not at all".  The door's place is the tree's, not the reported   *)
(* path.  A name a root or a level rewrote into a sealed one is held to the  *)
(* same.                                                                     *)
SealedByOwner ==
    \A w \in Who : \A n \in Asked :
        LET r == ResolveIn(scope[w], n)
        IN  r.hit /\ ~IsLimiter(r) /\ r.door \notin CorridorDoors(Injected(scope[w])) =>
              \A m \in NamesOf(r, scope[w], n) : \A owner \in OwnersOf(seals, m) :
                  \E p \in Doorways[RootOf[root]] :
                    /\ p[1] = r.door
                    /\ owner = "host" => p[2] = NoValue
                    /\ owner # "host" => p[2] \in seals.levels /\ LevelOf[p[2]].name = owner

(* A level that seals is one the root shows.                                 *)
Known(serial) == LevelOf[serial].seals # {} => serial \in seals.levels

(* Everything a request may be answered by is shown, and no corridor brings  *)
(* a level that seals which the root does not have.                          *)
NothingHidden ==
    /\ ShowsAll[RootOf[root]]
    /\ \A c \in DOMAIN CorridorOf :
          ShowsAll[CorridorOf[c]] /\ \A f \in LevelsShown(CorridorOf[c]) : Known(f.serial)

(* Where the topology shows everything, a table that was built never has to  *)
(* refuse an answer later: what can be checked at build is checked there     *)
(* (seal.rs, module note).                                                   *)
BuildShowsAll ==
    NothingHidden => \A w \in Who : \A n \in Asked : ResolveIn(scope[w], n) # Breach

\* A sealed name is answered by a door of its owner or by none, and what can be
\* checked of that at build is checked at build (seal.rs SealTable).
SealsHold == seals.built => SealedByOwner /\ BuildShowsAll

(* A confined chain reaches the doors of its corridors and no others.        *)
Contained(s) ==
    s.confined > 0 => \A n \in Asked :
        LET r == ResolveIn(s, n)
        IN  r.hit => r.door \in CorridorDoors(s.injected) \cup {"bottom"}

(* What keeps it so: it is severed, and its levels have no other doors.      *)
Kept(s) ==
    s.confined > 0 =>
        /\ s.severed
        /\ \A i \in DOMAIN s.levels :
              DoorsOfSpace(LevelOf[s.levels[i]].inner) \subseteq CorridorDoors(s.injected)

(* Once an endpoint is confined, nothing it or its sub-requests issue        *)
(* reaches a door of the root (Scope::confined, and how injection, severing, *)
(* stacking and descending carry it on).  The one exception is a host that   *)
(* stacks on it a chain an endpoint saw inside a level: Scope::stack lets    *)
(* that level stack replace the chain's.                                     *)
StaysConfined(w) ==
    \/ Kept(scope[w])' /\ Contained(scope[w])'
    \/ ~Kept(scope[w])
    \/ \E v \in Who : scope[v].levels # << >> /\ StackOn(w, v)
\* An endpoint once confined reaches no door of the root, whatever its
\* sub-requests inject, sever or are stacked on (Scope::confined).
ConfinedStaysConfined == [][\A w \in Who : StaysConfined(w)]_chainVars

(* The two chains agree on a name: the same door under the same name, or     *)
(* neither answers.                                                          *)
SameAnswer(s, t, n) ==
    LET one == ResolveIn(s, n)
        other == ResolveIn(t, n)
    IN  /\ one.hit = other.hit
        /\ one.hit => one.door = other.door /\ one.canonical = other.canonical

(* A level's name names one level object on the stacks of the chains.        *)
HonestNames ==
    \A v, w \in Who : \A i \in DOMAIN scope[v].levels, j \in DOMAIN scope[w].levels :
        LevelOf[scope[v].levels[i]].name = LevelOf[scope[w].levels[j]].name =>
            scope[v].levels[i] = scope[w].levels[j]

\* Chains the cache cannot tell apart answer an unsealed name alike
\* (Scope::fingerprint).
FingerprintDetermines ==
    seals.built /\ HonestNames => \A v, w \in Who :
        Fingerprint(scope[v]) = Fingerprint(scope[w]) =>
            \A n \in Asked : OwnersOf(seals, n) = {} => SameAnswer(scope[v], scope[w], n)
=============================================================================
