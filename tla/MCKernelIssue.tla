---------------------------- MODULE MCKernelIssue ----------------------------
(***************************************************************************)
(* A host with one cell, reached by its name, by an alias of the kernel's  *)
(* table and by an alias of a space; a composite over it; an endpoint that *)
(* calls itself; a cell that needs a scope, one that is concealed without  *)
(* it, a limiter, a kernel operation, and names that fail to resolve.      *)
(***************************************************************************)
EXTENDS KernelIssue, TLC

CellNames == {"cell", "logical", "mounted", "view", "loop", "secret", "guarded",
              "shown", "limited", "void", "catalog", "looped", "escape", "stray", "range"}

KernelNames == {"catalog"}
NoStreams == {}
StreamNames == {"range"}

ByTable == [n \in CellNames |-> CASE n = "logical" -> "cell"
                                  [] n = "looped" -> Refused
                                  [] OTHER -> n]

To(door, reported) == [door |-> door, reported |-> reported]
Chain == [n \in CellNames |->
    CASE n = "mounted" -> To("cell", "cell")
      [] n = "shown" -> To("secret", "secret")
      [] n = "limited" -> To("limiter", "void")
      [] n = "escape" -> To("cell", "catalog")
      [] n \in {"void", "catalog", "looped", "logical"} -> To(Miss, n)
      [] n = "stray" -> To(Breach, n)
      [] OTHER -> To(n, n)]

Plain == [source |-> {}, sink |-> {}]
Declared(requires, sensitive, calls, expiry) ==
    [limiter |-> FALSE, requires |-> requires, sensitive |-> sensitive,
     calls |-> calls, expiry |-> expiry]
Contracts ==
    [cell |-> Declared(Plain, {}, None, "dependent"),
     view |-> Declared([source |-> {}], {}, "mounted", "dependent"),
     loop |-> Declared([source |-> {}], {}, "loop", "dependent"),
     range |-> Declared([source |-> {}], {}, None, "dependent"),
     guarded |-> Declared([source |-> {"s"}], {}, None, "dependent"),
     secret |-> Declared([source |-> {"s"}], {"source"}, None, "always"),
     limiter |-> [Declared([source |-> {}], {}, None, "dependent") EXCEPT !.limiter = TRUE]]

Caps == {{}, {"s"}}
Ask(name, verb, cap) == [name |-> name, verb |-> verb, cap |-> cap]
Requests == {
    Ask("view", "source", {}), Ask("mounted", "sink", {}),
    Ask("logical", "source", {}), Ask("loop", "source", {}), Ask("catalog", "source", {}),
    Ask("catalog", "sink", {}), Ask("cell", "meta", {}), Ask("guarded", "source", {}),
    Ask("guarded", "source", {"s"}), Ask("shown", "source", {}), Ask("shown", "source", {"s"}),
    Ask("limited", "source", {}), Ask("void", "source", {}), Ask("looped", "source", {}),
    Ask("escape", "source", {}), Ask("stray", "source", {})}
StreamRequests == {Ask("range", "source", {}), Ask("cell", "source", {})}
Hot == Permutations(Tasks)

\* The hypotheses of two theorems about these names; stream names break the first.
ASSUME Streams = {} => DryRunAssumption
ASSUME LimitedApart
==============================================================================
