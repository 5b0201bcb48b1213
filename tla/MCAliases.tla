----------------------------- MODULE MCAliases ------------------------------
(* A table of small rules for Aliases: of each match kind, in a cycle, in a *)
(* growing chain, into the kernel and out of it, broken, two of one name, and *)
(* two views.                                                                *)
EXTENDS Sequences

CONSTANT AnyVerb  \* a rule that binds no verb

Rule(match, from, to) ==
    [match |-> match, from |-> from, to |-> to, at |-> "child", verb |-> AnyVerb,
     fixes |-> << >>, defaults |-> << >>]
View(match, from, to, verb, fixes, defaults) ==
    [match |-> match, from |-> from, to |-> to, at |-> "root", verb |-> verb,
     fixes |-> fixes, defaults |-> defaults]

A == <<"a">>
B == <<"b">>
C == <<"c">>
D == <<"d">>
AX == <<"a", "x">>
BX == <<"b", "x">>
OPS == <<"kernel">>

MCAliasNames == {A, B, C, AX, BX, OPS}
MCReserved == {OPS}
MCNotIris == {<<"bad", "x">>}

MCRules ==
    {Rule("exact", A, B), Rule("exact", A, D), Rule("prefix", A, B), Rule("prefix", B, C),
     Rule("exact", AX, D), Rule("prefix", C, A), Rule("prefix", D, <<"d", "d">>),
     Rule("template", A, <<"bad">>), Rule("exact", OPS, A),
     View("template", B, A, "Source", [q |-> "fixed"], << >>),
     View("exact", B, C, AnyVerb, [r |-> "fixed"], [q |-> "default"])}
=============================================================================
