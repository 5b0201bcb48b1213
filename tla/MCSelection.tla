---------------------------- MODULE MCSelection ----------------------------
(* Spaces of up to three doors of a dozen kinds: exact and template, views   *)
(* and a named request onto them, a limiter, transreptors of each direction. *)
EXTENDS Sequences, SequencesExt

T(e, c) == [essence |-> e, charset |-> c]
Csv == T("csv", "none")
CsvUtf8 == T("csv", "utf8")
CsvLatin == T("csv", "latin")
Json == T("json", "none")
EveryVerb == "any"
AnyType == T("any", "none")
MCCanonical == T("turtle", "none")

Action(verb, requires, needs, optional) ==
    [verb |-> verb, requires |-> requires, outputs |-> {Json}, needs |-> needs,
     optional |-> optional, bound |-> TRUE]
Door(pattern, label, actions) ==
    [pattern |-> pattern, names |-> {pattern}, exact |-> TRUE, limiter |-> FALSE,
     label |-> label, id |-> label, forwards |-> << >>, actions |-> actions, conversion |-> << >>]
View(pattern, target, verb) ==
    [Door(pattern, "view", { Action(v, {}, {}, {}) : v \in {"Source", "Sink"} })
        EXCEPT !.forwards = <<[target |-> target, verb |-> verb]>>]
Template(label, actions) ==
    [Door("t/{x}", label, actions) EXCEPT !.exact = FALSE, !.names = {"t/probe", "t/1"}]
Limiter(names) == [Door("limit", "bottom", {}) EXCEPT !.limiter = TRUE, !.names = names]
Transreptor(pattern, from, to, lossless, auto) ==
    [Door(pattern, pattern, {}) EXCEPT
        !.conversion = <<[from |-> from, to |-> to, lossless |-> lossless, auto |-> auto]>>]

MCActionDoors ==
    { Door("a", "one", {Action("Source", {"read"}, {"Person"}, {}), Action("Sink", {"write"}, {}, {})}),
      Door("a", "two", {Action("Source", {}, {}, {"Agent"})}),
      Door("b", "three", {Action("Source", {}, {}, {}), Action("Exists", {"read"}, {"Untyped"}, {})}),
      Door("b", "four", {Action("Source", {"read", "write"}, {"Agent"}, {"Untyped"})}),
      Template("five", {Action("Source", {"read"}, {"Person"}, {})}),
      [Template("six", {Action("Source", {}, {}, {})}) EXCEPT !.id = "five"],
      View("v", "a", EveryVerb), View("v", "w", "Source"), View("w", "a", "Source"), View("w", "v", EveryVerb),
      Limiter({"a", "t/probe"}), Limiter({"v"}) }
MCTransreptors ==
    { Transreptor("p", {Csv}, {Json}, FALSE, TRUE), Transreptor("p", {CsvUtf8}, {MCCanonical}, TRUE, TRUE),
      Transreptor("q", {MCCanonical}, {Json}, TRUE, TRUE), Transreptor("q", {CsvLatin}, {Json}, TRUE, FALSE),
      Transreptor("r", {MCCanonical}, {Json, Csv}, FALSE, TRUE), Transreptor("r", {Csv, Json}, {MCCanonical}, TRUE, TRUE),
      Limiter({"p"}), View("v", "q", EveryVerb) }
MCOfferings == TupleOf(MCActionDoors, 3) \cup TupleOf(MCTransreptors, 3)
    \cup TupleOf(MCActionDoors, 2) \cup TupleOf(MCTransreptors, 2)
MCStreams == <<Transreptor("s", {Csv}, {Json}, TRUE, FALSE), Transreptor("u", {Json}, {Csv}, TRUE, TRUE)>>

MCQueries ==
    { q \in [present : {{}, {"Person"}, {"Untyped"}}, verb : {EveryVerb, "Source", "Exists"},
             want : {AnyType}, capability : SUBSET {"read", "write"}] :
        q.verb = "Exists" => q.present = {} }
    \cup { [present |-> {"Agent"}, verb |-> EveryVerb, want |-> w, capability |-> {"read", "write"}] : w \in {Json, Csv} }
MCConversions ==
    [from : {Csv, CsvUtf8, CsvLatin, Json}, to : {Json, MCCanonical, CsvLatin}, lossy : BOOLEAN]
MCDoors == MCActionDoors \cup MCTransreptors \cup ToSet(MCStreams)
MCIris == {"a", "b", "v", "w", "p", "q", "r", "s", "u", "t/probe", "t/1"}
MCProbeOf == [p \in {"a", "b", "v", "w", "p", "q", "r", "s", "u", "t/{x}"} |->
                IF p = "t/{x}" THEN "t/probe" ELSE p]
MCAxioms == {<<"Person", "Agent">>}
MCClasses == {"Person", "Agent"}
=============================================================================
