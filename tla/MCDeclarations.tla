--------------------------- MODULE MCDeclarations ---------------------------
(* Documents of two named nodes and one anonymous one, each a leaf with up   *)
(* to one door, a fallback of up to two layers, a mount, a level or a kind   *)
(* that is not data.                                                         *)
EXTENDS SequencesExt

MCSkolems == <<"_1", "_2", "_3", "_4", "_5", "_6", "_7">>
MCNames == {"a", "b", "_1"}
Node(kind, children, doors) == [kind |-> kind, children |-> children, doors |-> doors]
Door(endpoint, corridor) == [endpoint |-> endpoint, corridor |-> corridor]

MCNodes ==
    { Node("EndpointSpace", << >>, << >>), Node("Opaque", << >>, << >>),
      Node("EndpointSpace", << >>, <<Door("e", << >>)>>),
      Node("EndpointSpace", << >>, <<Door("unregistered", << >>)>>) }
    \cup { Node("EndpointSpace", << >>, <<Door("e", <<n>>)>>) : n \in MCNames }
    \cup { Node("Fallback", ns, << >>) : ns \in BoundedSeq(MCNames, 2) }
    \cup { Node(k, <<n>>, << >>) : k \in {"Mount", "Level"}, n \in MCNames }

(* Chains one level deeper than the bound.                                   *)
MCDeepNames == MCNames \cup {"c"}
MCDeepNodes ==
    { Node("EndpointSpace", << >>, << >>) }
    \cup { Node("Mount", <<n>>, << >>) : n \in MCDeepNames }

MCDocuments ==
    [MCNames -> MCNodes] \cup [{"a", "_1"} -> MCNodes] \cup [MCDeepNames -> MCDeepNodes]
=============================================================================
