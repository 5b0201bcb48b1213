---------------------------- MODULE Declarations ----------------------------
(* A space declared as data (declare.rs, topology.rs): a document of nodes   *)
(* that refer to each other is read into a tree within bounds, the tree is   *)
(* built into live spaces, and what is built renders a document again.       *)
(* A document maps each node it states to what that node says of itself:     *)
(*   [kind, children: names, doors: <<[endpoint, corridor: name or none]>>]. *)
(* A tree holds trees where the document holds names.  A skolem is the  *)
(* name of an anonymous node; a door's `corridor` is a sequence of at    *)
(* most one.                                                                 *)
EXTENDS Integers, Sequences, SequencesExt, FiniteSetsExt, TLC

CONSTANTS Documents,   \* the documents an operator writes
          Registered,  \* the endpoints the host registered
          Skolems,     \* the names of anonymous nodes, in order
          MaxDepth,    \* MAX_DECLARATION_DEPTH
          MaxNodes     \* MAX_DECLARATION_NODES

VARIABLES document, stage, tree, space

declVars == <<document, stage, tree, space>>

Nothing == [kind |-> "nothing"]
IsSkolem(name) == name \in ToSet(Skolems)
Anonymous == "anonymous"
Empty == [name \in {} |-> Nothing]

Buildable == {"EndpointSpace", "Fallback", "Mount", "Level"}
OneChild == {"Mount", "Level"}

(* What a node encloses: its children, then its doors' corridors.            *)
Corridors(node) == FlattenSeq([i \in DOMAIN node.doors |-> node.doors[i].corridor])
Encloses(node) == node.children \o Corridors(node)

(* `node` with its enclosed nodes replaced, in the order of Encloses.        *)
WithEnclosed(node, enclosed) ==
    LET n == Len(node.children)
        before(i) == Len(FlattenSeq([j \in 1..(i - 1) |-> node.doors[j].corridor]))
    IN  [node EXCEPT !.children = SubSeq(enclosed, 1, n),
                     !.doors = [i \in DOMAIN node.doors |->
                        [node.doors[i] EXCEPT !.corridor =
                            [k \in DOMAIN node.doors[i].corridor |-> enclosed[n + before(i) + 1]]]]]

(* A node's own share of the budget; what it encloses is charged on its own. *)
Share(node) == 1 + Len(node.doors)

-----------------------------------------------------------------------------
(* Reading a document: Graph::root, node, below, all_used.                   *)

Referenced(doc) == UNION { ToSet(Encloses(doc[s])) : s \in DOMAIN doc }
Roots(doc) == DOMAIN doc \ Referenced(doc)

(* An off-by-one: a node one level too deep is read.                         *)
TooDeepToRead(path) == Len(path) > MaxDepth

TooDeep(path) == Len(path) >= MaxDepth

Refused(why) == [ok |-> FALSE, why |-> why]

RECURSIVE ReadNode(_, _, _, _), ReadAll(_, _, _, _, _)
ReadNode(doc, s, path, spent) ==
    IF s \in ToSet(path) THEN Refused("cycle")
    ELSE IF TooDeep(path) THEN Refused("too_large")
    ELSE IF s \notin DOMAIN doc THEN Refused("malformed")
    ELSE IF doc[s].kind = "Level" /\ IsSkolem(s) THEN Refused("malformed")
    ELSE IF \E i \in DOMAIN Corridors(doc[s]) : IsSkolem(Corridors(doc[s])[i])
        THEN Refused("malformed")
    ELSE IF spent + Share(doc[s]) > MaxNodes THEN Refused("too_large")
    ELSE LET below == ReadAll(doc, Encloses(doc[s]), Append(path, s), spent + Share(doc[s]), << >>)
         IN  IF ~below.ok THEN below
             ELSE [ok |-> TRUE, spent |-> below.spent, reached |-> below.reached \cup {s},
                   tree |-> WithEnclosed(doc[s], below.trees)
                            @@ [id |-> IF IsSkolem(s) THEN Anonymous ELSE s]]

ReadAll(doc, names, path, spent, done) ==
    IF names = << >> THEN [ok |-> TRUE, spent |-> spent, trees |-> done, reached |-> {}]
    ELSE LET first == ReadNode(doc, Head(names), path, spent)
         IN  IF ~first.ok THEN first
             ELSE LET rest == ReadAll(doc, Tail(names), path, first.spent, Append(done, first.tree))
                  IN  IF rest.ok THEN [rest EXCEPT !.reached = @ \cup first.reached] ELSE rest

FromTurtle(doc) ==
    IF Cardinality(Roots(doc)) # 1 THEN Refused("malformed")
    ELSE LET read == ReadNode(doc, CHOOSE r \in Roots(doc) : TRUE, << >>, 0)
         IN  IF read.ok /\ read.reached # DOMAIN doc THEN Refused("malformed") ELSE read

-----------------------------------------------------------------------------
(* Building a tree: measure and claims, then Builder::space.                 *)

RECURSIVE Depth(_), Size(_), Subtrees(_)
Depth(t) == 1 + Max({0} \cup { Depth(Encloses(t)[i]) : i \in DOMAIN Encloses(t) })
Size(t) == Share(t) + FoldSeq(LAMBDA inner, sum : sum + Size(inner), 0, Encloses(t))
Subtrees(t) == {t} \cup UNION { Subtrees(Encloses(t)[i]) : i \in DOMAIN Encloses(t) }

NamedIn(t) == { x \in Subtrees(t) : x.id # Anonymous }
OneClaimPerName(t) == \A x, y \in NamedIn(t) : x.id = y.id => x = y

(* Every refusal a node earns by itself.                                     *)
NodeRefusal(t) ==
    IF t.kind \notin Buildable THEN "not_data"
    ELSE IF \/ t.kind = "EndpointSpace" /\ t.children # << >>
            \/ t.kind \in OneChild /\ Len(t.children) # 1
            \/ t.kind = "Level" /\ t.id = Anonymous
    THEN "malformed"
    ELSE IF \E i \in DOMAIN t.doors : t.doors[i].endpoint \notin Registered THEN "unknown_endpoint"
    ELSE IF \E i \in DOMAIN t.doors : \E k \in DOMAIN t.doors[i].corridor :
               t.doors[i].corridor[k].id = Anonymous
    THEN "malformed" ELSE "none"

(* A name already built is the same space; a new space is the next object.   *)
(* A slip: names are forgotten, so a shared name is built twice.             *)
ForgetName(named, t, s) == named

Remember(named, t, s) == IF t.id = Anonymous THEN named ELSE named @@ (t.id :> s)

RECURSIVE Assemble(_, _, _), AssembleAll(_, _, _, _)
Assemble(t, named, object) ==
    IF t.id \in DOMAIN named THEN [space |-> named[t.id], named |-> named, object |-> object]
    ELSE LET below == AssembleAll(Encloses(t), named, object, << >>)
             s == WithEnclosed(t, below.spaces) @@ [object |-> below.object]
         IN  [space |-> s, named |-> Remember(below.named, t, s), object |-> below.object + 1]

AssembleAll(ts, named, object, done) ==
    IF ts = << >> THEN [spaces |-> done, named |-> named, object |-> object]
    ELSE LET first == Assemble(Head(ts), named, object)
         IN  AssembleAll(Tail(ts), first.named, first.object, Append(done, first.space))

Build(t) ==
    IF Depth(t) > MaxDepth \/ Size(t) > MaxNodes THEN Refused("too_large")
    ELSE IF ~OneClaimPerName(t) THEN Refused("claimed_twice")
    ELSE IF \E x \in Subtrees(t) : NodeRefusal(x) # "none" THEN Refused("node")
    ELSE [ok |-> TRUE, space |-> Assemble(t, Empty, 1).space]

-----------------------------------------------------------------------------
(* What a live space reports, and the document that renders a tree.          *)

RECURSIVE TopologyOf(_)
TopologyOf(s) ==
    LET reported == WithEnclosed(s, [i \in DOMAIN Encloses(s) |-> TopologyOf(Encloses(s)[i])])
    IN  [f \in DOMAIN reported \ {"object"} |-> reported[f]]

(* What rendering carries down the tree: the last skolem and the nodes       *)
(* already written.  A named node is written where it is first met.          *)
(* A slip: it is written again, under new skolems.                           *)
WrittenNever(name, rendered) == FALSE

Written(name, rendered) == name \in DOMAIN rendered

RECURSIVE Render(_, _, _), RenderAll(_, _, _, _)
Render(t, rendered, skolem) ==
    LET anonymous == t.id = Anonymous
        me == IF anonymous THEN Skolems[skolem + 1] ELSE t.id
        last == IF anonymous THEN skolem + 1 ELSE skolem
    IN  IF Written(me, rendered) THEN [name |-> me, doc |-> rendered, skolem |-> skolem]
        ELSE LET below == RenderAll(Encloses(t), (me :> Nothing) @@ rendered, last, << >>)
                 shallow == WithEnclosed([f \in DOMAIN t \ {"id"} |-> t[f]], below.names)
             IN  [name |-> me, doc |-> (me :> shallow) @@ below.doc, skolem |-> below.skolem]

RenderAll(ts, rendered, skolem, done) ==
    IF ts = << >> THEN [names |-> done, doc |-> rendered, skolem |-> skolem]
    ELSE LET first == Render(Head(ts), rendered, skolem)
         IN  RenderAll(Tail(ts), first.doc, first.skolem, Append(done, first.name))

ToTurtle(t) == Render(t, Empty, 0).doc

-----------------------------------------------------------------------------

DeclInit ==
    /\ document \in Documents
    /\ stage = "written"
    /\ tree = Nothing /\ space = Nothing

(* Topology::from_turtle, of an operator's document or of a rendered one.    *)
Parse ==
    /\ stage \in {"written", "rendered"}
    /\ LET read == FromTurtle(document)
       IN  IF read.ok THEN tree' = read.tree /\ stage' = "parsed"
           ELSE stage' = read.why /\ UNCHANGED tree
    /\ UNCHANGED <<document, space>>

BuildSpace ==
    /\ stage = "parsed"
    /\ LET built == Build(tree)
       IN  IF built.ok THEN space' = built.space /\ stage' = "built"
           ELSE stage' = "build_" \o built.why /\ UNCHANGED space
    /\ UNCHANGED <<document, tree>>

(* urn:kernel:topology of the built space, rendered.                         *)
RenderSpace ==
    /\ stage = "built"
    /\ document' = ToTurtle(TopologyOf(space))
    /\ stage' = "rendered"
    /\ UNCHANGED <<tree, space>>

DeclNext == Parse \/ BuildSpace \/ RenderSpace

-----------------------------------------------------------------------------
(* Properties.                                                               *)

(* What is built answers as declared: it reports the tree it was built from, *)
(* and each name in it is one space, wherever it is met.                     *)
BuiltAsDeclared ==
    stage = "built" =>
        /\ TopologyOf(space) = tree
        /\ \A x, y \in NamedIn(space) : x.id = y.id => x.object = y.object

(* Rendering loses nothing: what a built space renders reads back, as the    *)
(* tree it was built from.                                                   *)
RendersWhatItRead ==
    stage = "rendered" =>
        LET again == FromTurtle(document) IN again.ok /\ again.tree = tree

(* The parser and the builder account alike: a tree the parser produced is   *)
(* within the builder's bounds and names each claim once.                    *)
ParserAndBuilderAgree == stage \notin {"build_too_large", "build_claimed_twice"}
=============================================================================
