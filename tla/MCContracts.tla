----------------------------- MODULE MCContracts -----------------------------
(* Contracts over a body (content) and two arguments (mode, thread): inputs  *)
(* that are required, optional, enumerated, dead, defaulted, lists, bindings *)
(* or dependent, in and out of groups, closed, open and enveloped.           *)
EXTENDS Sequences

CONSTANT NoDefault

Comma == <<",">>
Plain == [required |-> FALSE, source |-> "argument", default |-> NoDefault, enumerated |-> FALSE,
          one_of |-> {}, needs |-> {}, list |-> FALSE, separator |-> << >>,
          numeric |-> FALSE, values |-> << >>]
Words == [w \in {"a"} |-> {"thread"}]
Modes == [Plain EXCEPT !.enumerated = TRUE, !.one_of = {"a", "1"}]

Bodies == { Plain,
            [Plain EXCEPT !.required = TRUE],
            [Plain EXCEPT !.enumerated = TRUE],
            [Plain EXCEPT !.needs = {"thread"}],
            [Plain EXCEPT !.list = TRUE, !.numeric = TRUE],
            [Plain EXCEPT !.required = TRUE, !.list = TRUE, !.separator = Comma,
                            !.enumerated = TRUE] }
ModeInputs == { Plain,
                [Modes EXCEPT !.values = Words],
                [Modes EXCEPT !.values = Words, !.list = TRUE, !.separator = Comma],
                [Modes EXCEPT !.default = <<"1">>, !.values = Words],
                [Modes EXCEPT !.default = <<"a">>],
                [Plain EXCEPT !.required = TRUE, !.enumerated = TRUE],
                [Plain EXCEPT !.default = <<"1">>, !.source = "binding"] }
ThreadInputs == { Plain,
                  [Plain EXCEPT !.default = <<"a">>, !.needs = {"mode"}],
                  [Plain EXCEPT !.default = <<"1">>, !.numeric = TRUE] }
Groups == { {},
            { [kind |-> "at_least_one", members |-> {"mode", "thread"}, pipe |-> {}] },
            { [kind |-> "exactly_one", members |-> {"content", "thread"}, pipe |-> {"content"}] },
            { [kind |-> "at_least_one", members |-> {"content", "mode"}, pipe |-> {"content"}],
              [kind |-> "at_most_one", members |-> {"content", "thread"}, pipe |-> {}] } }
Kinds == { [kind |-> "closed"], [kind |-> "open"], [kind |-> "envelope", carrier |-> "content"] }

MCContracts ==
    { [verb |-> v, inputs |-> i, groups |-> g, arguments |-> k] :
        v \in {"Sink"}, g \in Groups, k \in Kinds,
        i \in { [content |-> b, mode |-> m, thread |-> t] : b \in Bodies, m \in ModeInputs, t \in ThreadInputs }
          \cup { [content |-> b, mode |-> m] : b \in Bodies, m \in ModeInputs } }
MCValues == { << >>, <<"a">>, <<"1">>, Comma }

=============================================================================
