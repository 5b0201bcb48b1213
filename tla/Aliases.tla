------------------------------ MODULE Aliases -------------------------------
(* The alias table (alias.rs): rules kept in precedence order, a walk that   *)
(* rewrites a name hop by hop, the counters that make a rewrite visible, and *)
(* the request a root rule (a view, a named request) forwards.               *)
(* A name is a sequence of segments.  A rule is                              *)
(*   [match: exact | prefix | template, from, to, at: child | root, verb,    *)
(*    fixes: argument -> value, defaults: argument -> value]                 *)
(* A template's `from` is its literal head: it captures one more segment,    *)
(* which its target template carries over.                                   *)
EXTENDS Integers, Sequences, SequencesExt, FiniteSetsExt, Tallies

CONSTANTS Rules,     \* the rules a table may be built from
          AliasNames,  \* the names asked for
          Arguments,   \* the arguments a caller may give
          Reserved,  \* the names in urn:kernel:
          NotIris,   \* the texts Iri::parse refuses
          MaxHops,   \* the table's hop budget, before it is clamped
          MaxRules, MaxCount,  \* bounds on the table and on its counters
          AnyVerb    \* a rule that binds no verb

VARIABLES rules,      \* the table, in precedence order
          hops, unresolved, refused, \* rule -> its counters
          pending     \* name -> its rewritten requests that have not resolved yet

aliasVars == <<rules, hops, unresolved, refused, pending>>

AliasAssumption ==
    /\ IsFiniteSet(AliasNames)
    /\ MaxHops \in Nat
    /\ \A r \in Rules : r.match \in {"exact", "prefix", "template"} /\ r.from \in Seq(STRING)

-----------------------------------------------------------------------------
(* Precedence: longest `from`, then the keyword of the match kind.  The code *)
(* sorts what is left by name; no name matches two rules of one length and   *)
(* kind whose names differ, and here they stay as inserted.                  *)

Keyword == [exact |-> 1, prefix |-> 2, template |-> 3]

Precedes(a, b) ==
    \/ Len(a.from) > Len(b.from)
    \/ Len(a.from) = Len(b.from) /\ Keyword[a.match] < Keyword[b.match]

(* The push and the stable sort: the new rule goes behind its equals.        *)
Inserted(table, rule) ==
    LET behind == { i \in DOMAIN table : Precedes(rule, table[i]) }
    IN  InsertAt(table, Min(behind \cup {Len(table) + 1}), rule)

Budget == IF MaxHops = 0 THEN 1 ELSE MaxHops

Matches(rule, n) ==
    CASE rule.match = "exact"    -> n = rule.from
      [] rule.match = "prefix"   -> IsPrefix(rule.from, n)
      [] rule.match = "template" -> IsPrefix(rule.from, n) /\ Len(n) = Len(rule.from) + 1

Apply(rule, n) ==
    IF rule.match = "exact" THEN rule.to
    ELSE rule.to \o SubSeq(n, Len(rule.from) + 1, Len(n))

(* The indices of the rules that match; the first of them applies.           *)
Candidates(table, n) == { i \in DOMAIN table : Matches(table[i], n) }

-----------------------------------------------------------------------------
(* The walk.  A cycle is refused by the names already seen, a chain that     *)
(* only grows by the budget.                                                 *)

Direct == [kind |-> "direct", rules |-> << >>]
Aliased(n, c, applied) ==
    [kind |-> "aliased", logical |-> n, canonical |-> c, rules |-> applied]
Refused(applied) == [kind |-> "refused", rules |-> applied]

Walked(trail, applied, stage) == [trail |-> trail, applied |-> applied, stage |-> stage]

(* One turn of the loop: no rule matches, or the first that does is applied. *)
Turn(table, w) ==
    LET current == Last(w.trail)
        i == Min(Candidates(table, current))
        next == Apply(table[i], current)
    IN  IF Candidates(table, current) = {} THEN Walked(w.trail, w.applied, "ended")
        ELSE IF next \in NotIris \cup ToSet(w.trail)
            THEN Walked(w.trail, Append(w.applied, i), "refused")
        ELSE Walked(Append(w.trail, next), Append(w.applied, i), "walking")

(* The loop after each of its turns, of which there are as many as the budget. *)
Turns(table, n) ==
    LET turn[k \in 0..Budget] ==
            IF k = 0 THEN Walked(<<n>>, << >>, "walking")
            ELSE LET w == turn[k - 1] IN IF w.stage = "walking" THEN Turn(table, w) ELSE w
    IN  turn

(* A plausible slip: chains are not followed.                                *)
WalkOnce(table, n) ==
    LET matching == Candidates(table, n)
    IN  IF n \in Reserved \/ matching = {} THEN Direct
        ELSE Aliased(n, Apply(table[Min(matching)], n), <<Min(matching)>>)

Walk(table, n) ==
    LET w == Turns(table, n)[Budget]
    IN  IF n \in Reserved THEN Direct
        ELSE IF w.stage # "ended" THEN Refused(w.applied)
        ELSE IF w.applied = << >> THEN Direct
        ELSE Aliased(n, Last(w.trail), w.applied)

-----------------------------------------------------------------------------
(* The request a chain with a root rule forwards, given the caller's verb    *)
(* and arguments: each named request it passed through, in the order it      *)
(* applied, fixes its arguments and fills in its defaults.                   *)

IsView(table, hop) == \E k \in DOMAIN hop.rules : table[hop.rules[k]].at = "root"

RefusedRequest == [ok |-> FALSE]

(* The arguments, with those of "more" that they leave out.                  *)
Beside(args, more) ==
    [a \in DOMAIN args \cup DOMAIN more |-> IF a \in DOMAIN args THEN args[a] ELSE more[a]]

(* A caller's value for a fixed argument is quietly kept.                    *)
MergeQuietly(rule, verb, args) ==
    [ok |-> TRUE, args |-> Beside(Beside(args, rule.fixes), rule.defaults)]

Merge(rule, verb, args) ==
    IF \/ rule.verb \notin {AnyVerb, verb} /\ verb # "Exists"
       \/ DOMAIN rule.fixes \cap DOMAIN args # {}
    THEN RefusedRequest
    ELSE [ok |-> TRUE, args |-> Beside(Beside(args, rule.fixes), rule.defaults)]

Forwarded(table, applied, verb, args) ==
    LET sent[k \in 0..Len(applied)] ==
            IF k = 0 THEN [ok |-> TRUE, args |-> args]
            ELSE LET before == sent[k - 1]
                 IN  IF before.ok THEN Merge(table[applied[k]], verb, before.args) ELSE before
    IN  sent[Len(applied)]

-----------------------------------------------------------------------------
(* Actions.                                                                  *)

AliasInit ==
    /\ rules = << >>
    /\ hops = [r \in Rules |-> 0]
    /\ unresolved = [r \in Rules |-> 0]
    /\ refused = [r \in Rules |-> 0]
    /\ pending = [n \in AliasNames |-> 0]

(* How often rule r applied along a path of indices.                         *)
Times(r, applied) == Cardinality({ k \in DOMAIN applied : rules[applied[k]] = r })

Count(counter, applied) == [r \in Rules |-> counter[r] + Times(r, applied)]

(* A table is built before it is shared with a kernel or an overlay.         *)
Insert(rule) ==
    /\ Len(rules) < MaxRules
    /\ rule \notin ToSet(rules)
    /\ \A r \in Rules : hops[r] + refused[r] = 0
    /\ rules' = Inserted(rules, rule)
    /\ UNCHANGED <<hops, unresolved, refused, pending>>

(* A request's name is canonicalized on its way in.                          *)
Canonicalize(n) ==
    LET outcome == Walk(rules, n)
    IN  /\ \A r \in Rules : hops[r] + refused[r] < MaxCount
        /\ \/ /\ outcome.kind = "aliased"
              /\ hops' = Count(hops, outcome.rules)
              /\ pending' = [pending EXCEPT ![n] = @ + 1]
              /\ UNCHANGED refused
           \/ /\ outcome.kind = "refused"
              /\ refused' = Count(refused, outcome.rules)
              /\ UNCHANGED <<hops, pending>>
        /\ UNCHANGED <<rules, unresolved>>

(* The rewritten name resolved, or to nothing: then the miss is charged to   *)
(* the rules of its path.                                                    *)
Resolves(n) ==
    /\ pending[n] > 0
    /\ pending' = [pending EXCEPT ![n] = @ - 1]
    /\ UNCHANGED <<rules, hops, unresolved, refused>>

RecordUnresolved(n) ==
    /\ pending[n] > 0
    /\ pending' = [pending EXCEPT ![n] = @ - 1]
    /\ unresolved' = Count(unresolved, Walk(rules, n).rules)
    /\ UNCHANGED <<rules, hops, refused>>

AliasNext ==
    \/ \E r \in Rules : Insert(r)
    \/ \E n \in AliasNames : Canonicalize(n) \/ Resolves(n) \/ RecordUnresolved(n)

AliasSpec == AliasInit /\ [][AliasNext]_aliasVars

-----------------------------------------------------------------------------
(* Reference: the chain of single rewrites from a name, cut after the budget.*)

NextName(n) ==
    LET matching == Candidates(rules, n)
    IN  IF matching = {} THEN n ELSE Apply(rules[Min(matching)], n)

Chain ==
    [n \in AliasNames |->
        LET name[k \in 1..(Budget + 1)] == IF k = 1 THEN n ELSE NextName(name[k - 1])
        IN  name]

(* The chain from n ends after at most k rewrites.                           *)
EndsWithin(n, k) ==
    /\ Candidates(rules, Chain[n][k + 1]) = {}
    /\ \A j \in 2..(k + 1) : Chain[n][j] \notin NotIris

(* A name that the table rewrites is rewritten to the end of its chain, with *)
(* no rule left to apply, or refused: never to a name half way (alias.rs,    *)
(* decision 5), whatever cycles, growing chains and broken rewrites the      *)
(* table holds.                                                              *)
WalksToTheEnd ==
    \A n \in AliasNames \ Reserved :
        LET outcome == Walk(rules, n)
        IN  /\ (outcome.kind = "direct") = (Candidates(rules, n) = {})
            /\ outcome.kind = "aliased" =>
                  EndsWithin(n, Budget - 1) /\ outcome.canonical = Chain[n][Budget]
            /\ outcome.kind = "refused" => ~EndsWithin(n, Budget - 1)

(* The orders the rules may have been authored in.  Of two rules of one kind *)
(* and name only the one authored first can ever apply.                      *)
SameName(r, s) == r.match = s.match /\ r.from = s.from

Authorings ==
    { order \in [DOMAIN rules -> ToSet(rules)] :
        /\ ToSet(order) = ToSet(rules)
        /\ \A i, j \in DOMAIN rules : i < j /\ SameName(rules[i], rules[j]) =>
              \A k, l \in DOMAIN order : order[k] = rules[i] /\ order[l] = rules[j] => k <= l }

Built(order) ==
    LET table[k \in 0..Len(order)] ==
            IF k = 0 THEN << >> ELSE Inserted(table[k - 1], order[k])
    IN  table[Len(order)]

(* The table means the same in whatever order its rules were authored        *)
(* (AliasTable, "most specific first", sorted on every insertion).           *)
AuthoredOrderIrrelevant ==
    \A order \in Authorings : \A n \in AliasNames :
        LET here == Walk(rules, n)
            there == Walk(Built(order), n)
        IN  /\ here.kind = there.kind
            /\ here.kind = "aliased" => here.canonical = there.canonical

(* The counters an operator reads at urn:kernel:aliases: every miss charged  *)
(* to a rule, and every rewritten request still on its way, is one of the    *)
(* rewrites the rule is credited with.                                       *)
OnTheirWay(r) ==
    [n \in AliasNames |->
        IF pending[n] = 0 THEN 0 ELSE pending[n] * Times(r, Walk(rules, n).rules)]

MissesAreHops ==
    \A r \in Rules : unresolved[r] + Tally(AliasNames, OnTheirWay(r)) <= hops[r]

(* A name is rewritten to the end of its chain or refused, the same in       *)
(* whatever order the rules were authored, and every miss charged to a rule  *)
(* is one of its hops (AliasTable::insert, canonicalize, record_unresolved). *)
RewritesHold == WalksToTheEnd /\ AuthoredOrderIrrelevant /\ MissesAreHops

(* A named request means one request: what is forwarded carries every        *)
(* argument fixed along the chain as it was fixed and every argument the     *)
(* caller gave as the caller gave it (ViewEndpoint::forwarded, "fixed wins,  *)
(* and says so").                                                            *)
NamedRequestHolds ==
    \A n \in AliasNames :
        LET outcome == Walk(rules, n)
        IN  outcome.kind = "aliased" /\ IsView(rules, outcome) =>
              \A verb \in {"Source", "Sink", "Exists"}, given \in SUBSET Arguments :
                  LET sent == Forwarded(rules, outcome.rules, verb, [a \in given |-> "caller"])
                  IN  sent.ok =>
                        /\ \A a \in given : sent.args[a] = "caller"
                        /\ \A k \in DOMAIN outcome.rules :
                              LET fixes == rules[outcome.rules[k]].fixes
                              IN  \A a \in DOMAIN fixes : sent.args[a] = fixes[a]

(* A chain of as many rewrites as the budget is followed: `A->B->C` "is      *)
(* followed transitively up to AliasTable::max_hops" (alias.rs:128).         *)
BudgetIsFollowed ==
    \A n \in AliasNames : EndsWithin(n, Budget) => Walk(rules, n).kind # "refused"
=============================================================================
