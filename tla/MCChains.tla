------------------------------ MODULE MCChains ------------------------------
(* Small trees for Chains: names of at most two segments, a level `lock`     *)
(* that seals what it serves, a module level `tool` beside and inside it, an *)
(* impostor with the owner's name behind an opaque space, mounts that close  *)
(* a route and rewriters that open one.                                      *)
EXTENDS TLC, Sequences, SequencesExt, Functions

CONSTANT NoValue  \* Option::None

Exact(id, text) == [id |-> id, text |-> text, match |-> "exact"]
Template(id, text) == [id |-> id, text |-> text, match |-> "template"]
DoorsOf(ds) == [kind |-> "doors", doors |-> ds]
Mount(prefix, inner) == [kind |-> "mount", prefix |-> prefix, inner |-> inner]
Fallback(ss) == [kind |-> "fallback", spaces |-> ss]
Limit(prefix) == [kind |-> "limit", prefix |-> prefix]
Level(serial) == [kind |-> "level", serial |-> serial]
Rewrite(rule, inner) == [kind |-> "rewrite", rule |-> rule, inner |-> inner]
Alias(rule, inner) == [kind |-> "alias", rule |-> rule, inner |-> inner]
Opaque(inner) == [kind |-> "opaque", inner |-> inner]

KERNEL == <<"kernel">>
OP == <<"kernel", "op">>
LOCK == <<"lock">>
KEY == <<"lock", "key">>
TOOL == <<"tool">>
USED == <<"tool", "use">>
APP == <<"app">>

MCCoreSeals == {KERNEL}
(* A request for a core name never reaches a chain: the kernel answers it.   *)
MCAsked == {KEY, USED, APP}
MCSegments == {"kernel", "op", "lock", "key", "tool", "use", "app"}
MCTexts == {KERNEL, OP, LOCK, KEY, TOOL, USED, APP, << >>}

(* serial -> LevelCore: 1 the owner, 2 a module, 3 an impostor named as the  *)
(* owner, 4 a module that binds by template, 5 a module around an opaque     *)
(* space that answers the sealed name.                                       *)
MCLevelOf ==
    1 :> [name |-> "lock", seals |-> {LOCK}, namespace |-> LOCK,
          inner |-> Fallback(<<DoorsOf(<<Exact("key", KEY)>>), Level(2)>>)]
    @@ 2 :> [name |-> "tool", seals |-> {}, namespace |-> NoValue,
             inner |-> DoorsOf(<<Exact("use", USED), Exact("toolApp", APP)>>)]
    @@ 3 :> [name |-> "lock", seals |-> {}, namespace |-> NoValue,
             inner |-> DoorsOf(<<Exact("fake", KEY), Exact("fakeApp", APP)>>)]
    @@ 4 :> [name |-> "tool4", seals |-> {}, namespace |-> NoValue,
             inner |-> DoorsOf(<<Template("any", << >>)>>)]
    @@ 5 :> [name |-> "tool5", seals |-> {}, namespace |-> NoValue,
             inner |-> Fallback(<<Opaque(DoorsOf(<<Exact("hidden", KEY)>>)),
                                  DoorsOf(<<Exact("use5", USED)>>)>>)]
    @@ 6 :> [name |-> "lock6", seals |-> {LOCK}, namespace |-> NoValue,
             inner |-> DoorsOf(<<Exact("key6", KEY)>>)]

MCRootOf ==
    [plain |-> Fallback(<<Level(1), DoorsOf(<<Exact("app", APP)>>)>>),
     impostor |-> Fallback(<<Opaque(Level(3)), Level(1)>>),
     gated |-> Fallback(<<Mount(TOOL, Level(4)), Mount(LOCK, Level(6)),
                          DoorsOf(<<Exact("app", APP)>>)>>),
     open |-> Fallback(<<Level(4), Level(1)>>),
     hidden |-> Fallback(<<Level(5), Level(1)>>),
     rewritten |-> Rewrite(APP :> USED @@ USED :> KEY,
                           Rewrite(USED :> KEY, Fallback(<<DoorsOf(<<Exact("use", USED)>>), Level(1)>>))),
     aliased |-> Fallback(<<Alias(APP :> OP, DoorsOf(<<Template("all", << >>)>>)),
                            Limit(LOCK), Level(2)>>),
     squatted |-> Fallback(<<DoorsOf(<<Exact("squat", KEY)>>), Level(1)>>)]

MCCorridorOf ==
    [front |-> Fallback(<<DoorsOf(<<Exact("cKey", KEY)>>), Level(2)>>),
     cell |-> DoorsOf(<<Exact("cUse", USED), Exact("cApp", APP)>>)]

MCConfinedTo == [app |-> "cell", toolApp |-> "front"]

MCHostSeals == {{}, {LOCK}}

(* The trees, and how high each is built.                                    *)
Inner(s) ==
    CASE s.kind \in {"doors", "limit"} -> {}
      [] s.kind = "fallback" -> Range(s.spaces)
      [] s.kind = "level" -> {MCLevelOf[s.serial].inner}
      [] OTHER -> {s.inner}

RECURSIVE Subtrees(_), HeightOf(_)
Subtrees(s) == {s} \cup UNION { Subtrees(t) : t \in Inner(s) }
HeightOf(s) == Max({0} \cup { HeightOf(t) + 1 : t \in Inner(s) })

MCTrees ==
    UNION { Subtrees(s) : s \in Range(MCRootOf) \cup Range(MCCorridorOf)
                                \cup { MCLevelOf[l].inner : l \in DOMAIN MCLevelOf } }
MCHeight == [s \in MCTrees |-> HeightOf(s)]
MCTallest == Max(Range(MCHeight))
=============================================================================
