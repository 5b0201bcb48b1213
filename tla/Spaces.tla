------------------------------- MODULE Spaces -------------------------------
(* The spaces of space.rs as trees, what a name resolves to in one of them,  *)
(* and the seal table (seal.rs) a kernel builds from a root's topology.      *)
(* A name, a prefix and the literal head of a pattern are sequences of       *)
(* segments; "starts with" is IsPrefix.  A tree is a record whose `kind`     *)
(* says which other fields it has:                                           *)
(*   doors(doors), mount(prefix, inner), fallback(spaces), limit(prefix),    *)
(*   level(serial), rewrite(rule, inner), alias(rule, inner), opaque(inner). *)
(* `rule` maps a name to the name it is rewritten to.  A rewrite's rule is a *)
(* closure, an alias's a table its topology shows (the rules that resolve in *)
(* the space below).  `opaque` is a host's own Space: it resolves, and its   *)
(* topology shows nothing.  A level is the object its serial names.          *)
EXTENDS Integers, Sequences, SequencesExt, FiniteSets

CONSTANTS Segments,  \* what names, prefixes and heads are sequences of
          Texts,     \* the names, prefixes and heads there are
          Trees,     \* the spaces there are
          Height,    \* tree -> a number above those of the spaces it is built of
          Tallest,   \* the largest of these: a program builds finitely many
          LevelOf,   \* serial -> [name, seals, namespace, inner] (LevelCore)
          CoreSeals, \* the prefixes core answers itself
          NoValue    \* Option::None

StartsWith(n, prefix) == IsPrefix(prefix, n)

(* Two prefixes share names: one extends the other.                          *)
Touches(a, b) == StartsWith(a, b) \/ StartsWith(b, a)

(* A space is built of spaces built before it.                               *)
Below(inner, s) == inner \in Trees /\ Height[inner] < Height[s]

IsDoor(d) == d.text \in Texts /\ d.match \in {"exact", "prefix", "template"}

IsRule(rule) == \A n \in DOMAIN rule : n \in Texts /\ rule[n] \in Texts

IsTree(s) ==
    \/ s.kind = "doors" /\ DOMAIN s.doors \subseteq Nat /\ \A i \in DOMAIN s.doors : IsDoor(s.doors[i])
    \/ s.kind = "mount" /\ s.prefix \in Texts /\ Below(s.inner, s)
    \/ s.kind = "fallback" /\ DOMAIN s.spaces \subseteq Nat
       /\ \A i \in DOMAIN s.spaces : Below(s.spaces[i], s)
    \/ s.kind = "limit"
    \/ s.kind = "level" /\ s.serial \in DOMAIN LevelOf /\ Below(LevelOf[s.serial].inner, s)
    \/ s.kind \in {"rewrite", "alias"} /\ IsRule(s.rule) /\ Below(s.inner, s)
    \/ s.kind = "opaque" /\ Below(s.inner, s)

SpaceAssumption ==
    /\ Texts \subseteq Seq(Segments) /\ CoreSeals \subseteq Texts /\ NoValue \notin Seq(Segments)
    /\ Tallest \in Nat /\ Height \in [Trees -> 0 .. Tallest]
    /\ \A s \in Trees : IsTree(s)
    /\ \A l \in DOMAIN LevelOf :
          /\ LevelOf[l].name \notin {"core", "host"}
          /\ LevelOf[l].seals \subseteq Texts
          /\ LevelOf[l].inner \in Trees
    /\ NoValue \notin DOMAIN LevelOf

-----------------------------------------------------------------------------
(* Resolution.                                                               *)

Miss == [hit |-> FALSE]

(* A fresh hit: on this door, under the asked name, in no level.             *)
Resolved(door) ==
    [hit |-> TRUE, door |-> door, canonical |-> NoValue, levels |-> << >>]

IsLimiter(hit) == hit.door = "bottom"

MatchIri(door, n) ==
    /\ door.match = "exact" => n = door.text
    /\ StartsWith(n, door.text)
    /\ door.match = "template" => n # door.text

Within(r, serial) ==
    IF r.hit THEN [r EXCEPT !.levels = Append(@, serial)] ELSE r

WithCanonical(r, n) ==
    IF r.hit /\ r.canonical = NoValue THEN [r EXCEPT !.canonical = n] ELSE r

(* EndpointSpace: the first binding whose grammar matches.                   *)
FirstDoor(doors, n) ==
    LET matching == { i \in DOMAIN doors : MatchIri(doors[i], n) }
    IN  IF matching = {} THEN Miss ELSE Resolved(doors[Min(matching)].id)

(* Fallback: the first layer that answers.                                   *)
FirstHit(answers) ==
    LET hits == { i \in DOMAIN answers : answers[i].hit }
    IN  IF hits = {} THEN Miss ELSE answers[Min(hits)]

Rewritten(answers, rule, n) ==
    IF n \in DOMAIN rule THEN WithCanonical(answers[rule[n]], rule[n]) ELSE answers[n]

(* What a tree answers, of what the trees it is built of answer.             *)
Answer(answers, s, n) ==
    CASE s.kind = "doors" -> FirstDoor(s.doors, n)
      [] s.kind = "mount" -> IF StartsWith(n, s.prefix) THEN answers[s.inner][n] ELSE Miss
      [] s.kind = "fallback" -> FirstHit([i \in DOMAIN s.spaces |-> answers[s.spaces[i]][n]])
      [] s.kind = "limit" -> IF StartsWith(n, s.prefix) THEN Resolved("bottom") ELSE Miss
      [] s.kind = "level" -> Within(answers[LevelOf[s.serial].inner][n], s.serial)
      [] s.kind \in {"rewrite", "alias"} -> Rewritten(answers[s.inner], s.rule, n)
      [] s.kind = "opaque" -> answers[s.inner][n]

Answers[s \in Trees] == [n \in Texts |-> Answer(Answers, s, n)]

-----------------------------------------------------------------------------
(* What a topology shows of a tree: its levels and its doors, each with the  *)
(* levels around it (innermost first, with the gate from that level down)    *)
(* and the gate from the tree's own root.  A gate is the narrowest of the    *)
(* mounts on a route whichever is met first, so a find is carried outward    *)
(* here where the walk carries its gates inward.                             *)

(* Narrow a route's gate by a mount's prefix; NoValue once none is admitted. *)
Narrow(gate, prefix) ==
    IF gate = NoValue THEN NoValue
    ELSE IF StartsWith(prefix, gate) THEN prefix
    ELSE IF StartsWith(gate, prefix) THEN gate ELSE NoValue

FoundDoor(door) ==
    [what |-> "door", text |-> door.text, match |-> door.match, levels |-> << >>, root |-> << >>]

FoundLevel(serial) == [what |-> "level", serial |-> serial, levels |-> << >>, root |-> << >>]

Mounted(found, prefix) == [found EXCEPT !.root = Narrow(@, prefix)]

Enclosed(found, name) ==
    [found EXCEPT !.levels = Append(@, [name |-> name, gate |-> found.root])]

(* What a tree shows, of what the trees it is built of show.                 *)
Show(shown, s) ==
    CASE s.kind = "doors" -> { FoundDoor(s.doors[i]) : i \in DOMAIN s.doors }
      [] s.kind = "mount" -> { Mounted(f, s.prefix) : f \in shown[s.inner] }
      [] s.kind = "fallback" -> UNION { shown[s.spaces[i]] : i \in DOMAIN s.spaces }
      [] s.kind = "level" ->
            {FoundLevel(s.serial)}
            \cup { Enclosed(f, LevelOf[s.serial].name) : f \in shown[LevelOf[s.serial].inner] }
      [] s.kind = "alias" ->
            { FoundDoor([text |-> n, match |-> "exact"]) : n \in DOMAIN s.rule }
            \cup shown[s.inner]
      [] s.kind = "rewrite" -> shown[s.inner]
      [] s.kind \in {"limit", "opaque"} -> {}

Shown[s \in Trees] == Show(Shown, s)

LevelsShown(s) == { f \in Shown[s] : f.what = "level" }
DoorsShown(s) == { f \in Shown[s] : f.what = "door" }

(* The namespace a level may seal under: its own, or the gate it stands at.  *)
Namespace(found) ==
    IF LevelOf[found.serial].namespace # NoValue THEN LevelOf[found.serial].namespace
    ELSE IF found.levels = << >> THEN found.root ELSE Head(found.levels).gate

-----------------------------------------------------------------------------
(* The seal table.  A claim is [prefix, owner]; an owner is "core", "host"   *)
(* or a level's name.                                                        *)

MayMatch(door, prefix) ==
    IF door.match = "exact" THEN StartsWith(door.text, prefix)
    ELSE Touches(door.text, prefix)

Reaches(gate, prefix) == gate # NoValue /\ Touches(gate, prefix)

Placed(door, owner) ==
    \/ owner = "core"
    \/ owner = "host" /\ door.levels = << >>
    \/ owner \notin {"core", "host"} /\ door.levels # << >> /\ Head(door.levels).name = owner

(* Whether a door is refused against a claim: by name wherever it stands     *)
(* outside its owner; by expansion only where a sealed name can reach it.    *)
Binds(door, claim) ==
    /\ ~Placed(door, claim.owner)
    /\ ~StartsWith(door.text, claim.prefix) =>
          /\ MayMatch(door, claim.prefix)
          /\ ~Reaches(door.root, claim.prefix) =>
                \E i \in DOMAIN door.levels :
                    /\ door.levels[i].name = claim.owner
                    /\ Reaches(door.levels[i].gate, claim.prefix)

Claims(prefixes, owner) == { [prefix |-> p, owner |-> owner] : p \in prefixes }

(* The table for a root, with the host's own seals; where it is not built    *)
(* there was a SealError, and there is no kernel.                            *)
FromTopology(s, host) ==
    LET sealed == UNION { Claims(LevelOf[f.serial].seals, LevelOf[f.serial].name) : f \in LevelsShown(s) }
        claims == Claims(CoreSeals, "core") \cup Claims(host, "host") \cup sealed
        inside == \A f \in LevelsShown(s) : \A p \in LevelOf[f.serial].seals :
                     /\ Namespace(f) \notin {NoValue, << >>}
                     /\ StartsWith(p, Namespace(f))
        apart == \A c, d \in claims : Touches(c.prefix, d.prefix) => c.owner = d.owner
        unbound == \A d \in DoorsShown(s) : \A c \in claims : ~Binds(d, c)
    IN  [built |-> inside /\ apart /\ unbound,
         claims |-> claims,
         levels |-> { f.serial : f \in LevelsShown(s) },
         trivial |-> host = {} /\ sealed = {}]

(* The owners of the sealed prefixes a name falls under: at most one, since  *)
(* overlapping claims of two owners are refused.                             *)
OwnersOf(table, n) == { c.owner : c \in { d \in table.claims : StartsWith(n, d.prefix) } }

(* Mutation: a level is taken for an owner by its name.                      *)
IsOwnerByName(table, name, serial) == LevelOf[serial].name = name

(* A level is registered as the object the topology showed, not by its name. *)
IsOwner(table, name, serial) ==
    LevelOf[serial].name = name /\ serial \in table.levels

FrameAdmits(table, owner, serial) ==
    owner \notin {"core", "host"} /\ IsOwner(table, owner, serial)

(* Seals::admit: the names of a hit (the target and a reported canonical)    *)
(* against the path it was found at.                                         *)
AdmitNames(table, names, path) ==
    /\ \A i \in DOMAIN path :
          LevelOf[path[i]].seals # {} => path[i] \in table.levels
    /\ \A n \in names : \A owner \in OwnersOf(table, n) :
          /\ owner # "core"
          /\ owner = "host" => path = << >>
          /\ owner # "host" => path # << >> /\ IsOwner(table, owner, Head(path))

-----------------------------------------------------------------------------
(* Where doors really are, read off the trees and not off a resolution: each *)
(* with the innermost level it stands in.                                    *)

Stand(doorways, s) ==
    CASE s.kind = "doors" -> { <<s.doors[i].id, NoValue>> : i \in DOMAIN s.doors }
      [] s.kind = "fallback" -> UNION { doorways[s.spaces[i]] : i \in DOMAIN s.spaces }
      [] s.kind = "limit" -> {}
      [] s.kind = "level" ->
            { <<p[1], IF p[2] = NoValue THEN s.serial ELSE p[2]>> : p \in doorways[LevelOf[s.serial].inner] }
      [] s.kind \in {"mount", "rewrite", "alias", "opaque"} -> doorways[s.inner]

Doorways[s \in Trees] == Stand(Doorways, s)

DoorsOfSpace(s) == { p[1] : p \in Doorways[s] }

(* Whether the topology shows all of a tree: nothing opaque, no rewriting.   *)
ShowAll(shows, s) ==
    CASE s.kind \in {"doors", "limit"} -> TRUE
      [] s.kind = "mount" -> shows[s.inner]
      [] s.kind = "fallback" -> \A i \in DOMAIN s.spaces : shows[s.spaces[i]]
      [] s.kind = "level" -> shows[LevelOf[s.serial].inner]
      [] s.kind \in {"rewrite", "alias", "opaque"} -> FALSE

ShowsAll[s \in Trees] == ShowAll(ShowsAll, s)
=============================================================================
