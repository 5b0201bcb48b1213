------------------------------ MODULE Contracts ------------------------------
(* What an action's contract accepts (check.rs), which contracts an author   *)
(* may bind (describe.rs validate), and what the kernel, the engine and the  *)
(* selector conclude from one: the defaults it injects, the slot a piped     *)
(* value fills, whether any call is possible.                                *)
(* A value is the sequence of its words, empty when it is blank.  The words  *)
(* of a list are its items but for the separators among them; its separator  *)
(* is a word of its own (a comma), or blank (a space, a newline).            *)
(* A contract is [verb, inputs: name -> input, groups, arguments], an input  *)
(*   [required, source, default, enumerated, one_of, needs, list, separator, *)
(*    numeric, values: word -> the inputs that word needs].                  *)
EXTENDS Integers, Sequences, SequencesExt, FiniteSets

CONSTANTS Contracts,     \* the contracts authors write
          ArgNames,      \* the argument names callers use
          ArgValues,     \* the values they give
          Numerals,      \* the words that parse as an xsd:integer
          MaxGiven,      \* bound on the values of a proposed call
          NoDefault

VARIABLES spec,          \* the contract of the action called
          proposed       \* the call: the values given each name, in order

contractVars == <<spec, proposed>>

(* A group is of one of three kinds; its members are a finite set.           *)
ContractAssumption ==
    \A s \in Contracts : \A g \in s.groups :
        /\ IsFiniteSet(g.members)
        /\ g.kind \in {"exactly_one", "at_least_one", "at_most_one"}

-----------------------------------------------------------------------------
(* Proposed arguments.                                                       *)

Has(args, n) == n \in DOMAIN args

(* A member counts as given when its value is not blank.                     *)
Given(joined, n) == Has(joined, n) /\ joined[n] # << >>

IsList(s, n) == n \in DOMAIN s.inputs /\ s.inputs[n].list

(* The repeats of a list joined, of any other name the first kept.           *)
JoinedValue(s, n, values) ==
    IF Len(values) = 1 \/ ~IsList(s, n) THEN values[1]
    ELSE FlattenSeq([i \in DOMAIN values |->
            IF i = 1 THEN values[i] ELSE s.inputs[n].separator \o values[i]])

Repeated(s, args) == { n \in DOMAIN args : Len(args[n]) > 1 /\ ~IsList(s, n) }

Joined(s, args) == [n \in DOMAIN args |-> JoinedValue(s, n, args[n])]

JoinRepeats(s, args) ==
    IF Repeated(s, args) # {} THEN [kind |-> "InvalidArgument"]
    ELSE [kind |-> "joined", args |-> Joined(s, args)]

-----------------------------------------------------------------------------
(* The rules of a contract.                                                  *)

Items(input, value) ==
    IF input.list THEN { <<value[i]>> : i \in DOMAIN value } \ {input.separator} ELSE {value}

(* One value against its enumeration, then against its datatype.             *)
Refuses(input, item) ==
    \/ input.enumerated /\ \A word \in input.one_of : item # <<word>>
    \/ input.numeric /\ \A word \in Numerals : item # <<word>>

CheckValue(input, n, value) ==
    { <<"value", n, item>> : item \in { v \in Items(input, value) : Refuses(input, v) } }

(* What the given words of an enumeration need, and the input itself.        *)
CheckNeeds(input, n, value, args) ==
    LET unmet(needs) == \E other \in needs : ~Given(args, other)
    IN  { <<"needs", n, word>> : word \in
             { w \in DOMAIN input.values : <<w>> \in Items(input, value) /\ unmet(input.values[w]) } }
        \cup { <<"needs", n>> : x \in { y \in {n} : value # << >> /\ unmet(input.needs) } }

Broken(group, members) ==
    \/ group.kind = "exactly_one"  /\ Cardinality(members) # 1
    \/ group.kind = "at_least_one" /\ members = {}
    \/ group.kind = "at_most_one"  /\ Cardinality(members) > 1

CheckGroup(group, args) == Broken(group, { m \in group.members : Given(args, m) })

IsEnvelope(s) == s.arguments.kind = "envelope"
FieldsGiven(s, args) ==
    IsEnvelope(s) /\ \E n \in DOMAIN s.inputs \ {s.arguments.carrier} : Given(args, n)

(* Which of an envelope's inputs a call is about: the fields or the carrier. *)
Skipped(s, n, args) ==
    /\ IsEnvelope(s)
    /\ IF FieldsGiven(s, args) THEN n = s.arguments.carrier
       ELSE n # s.arguments.carrier /\ s.inputs[n].source = "argument"

CheckInput(s, n, joined) ==
    LET input == s.inputs[n]
    IN  IF Has(joined, n)
        THEN CheckValue(input, n, joined[n]) \cup CheckNeeds(input, n, joined[n], joined)
        ELSE { <<"missing", n>> : x \in
                 { y \in {n} : input.required /\ input.source # "binding" } }

(* The inputs a call is about, each by its own rules.                        *)
Checked(s, joined) == { n \in DOMAIN s.inputs : ~Skipped(s, n, joined) }
CheckInputs(s, joined) == UNION { CheckInput(s, n, joined) : n \in Checked(s, joined) }

(* The body given twice: as the carrier and as the fields inside it.         *)
CheckEnvelope(s, joined) ==
    { <<"envelope", n>> : n \in
        { c \in DOMAIN s.inputs : /\ FieldsGiven(s, joined)
                                  /\ c = s.arguments.carrier /\ Given(joined, c) } }

CheckTwice(s, args, joined) ==
    { <<"given_twice", n>> : n \in Repeated(s, args) \cap Checked(s, joined) }

CheckGroups(s, joined) == { <<"group", g>> : g \in { h \in s.groups : CheckGroup(h, joined) } }

CheckUnknown(s, args) ==
    { <<"unknown", n>> : n \in { m \in (DOMAIN args) \ (DOMAIN s.inputs) : s.arguments.kind # "open" } }

(* Every rule a proposed call breaks.                                        *)
Check(s, args) ==
    LET joined == Joined(s, args)
    IN  CheckEnvelope(s, joined) \cup CheckInputs(s, joined) \cup CheckTwice(s, args, joined)
          \cup CheckGroups(s, joined) \cup CheckUnknown(s, args)

-----------------------------------------------------------------------------
(* What an author may bind.                                                  *)

(* A slip: a member with a default is let through.                           *)
ValidGroupWithDefaults(s, group) ==
    /\ Cardinality(group.members) >= 2
    /\ \A m \in group.members : /\ m \in DOMAIN s.inputs
                                /\ s.inputs[m].source # "binding"
                                /\ ~s.inputs[m].required
    /\ group.pipe \subseteq group.members
    /\ s.verb \in {"Sink", "Delete"} => group.pipe \subseteq {"content"}

ValidGroup(s, group) ==
    /\ Cardinality(group.members) >= 2
    /\ \A m \in group.members : /\ m \in DOMAIN s.inputs
                                /\ s.inputs[m].source # "binding"
                                /\ ~s.inputs[m].required
                                /\ s.inputs[m].default = NoDefault
    /\ group.pipe \subseteq group.members
    /\ s.verb \in {"Sink", "Delete"} => group.pipe \subseteq {"content"}

ValidInput(s, n) ==
    LET input == s.inputs[n]
        default == input.default
    IN  /\ default # NoDefault =>
             /\ ~input.required
             /\ CheckValue(input, n, default) = {}
             /\ input.needs = {}
             /\ \A w \in DOMAIN input.values : default = <<w>> => input.values[w] = {}
        /\ input.needs \subseteq DOMAIN s.inputs \ {n}
        /\ DOMAIN input.values \subseteq input.one_of
        /\ \A w \in DOMAIN input.values : input.values[w] \subseteq DOMAIN s.inputs

Valid(s) ==
    /\ \A g \in s.groups : ValidGroup(s, g)
    /\ IsEnvelope(s) => /\ s.arguments.carrier \in DOMAIN s.inputs
                        /\ s.inputs[s.arguments.carrier].source = "argument"
    /\ \A n \in DOMAIN s.inputs : ValidInput(s, n)

-----------------------------------------------------------------------------
(* What others conclude from a contract.                                     *)

(* The kernel: the declared defaults the request leaves out.                 *)
Defaulted(s, args) ==
    { n \in DOMAIN s.inputs : /\ s.inputs[n].source = "argument"
                              /\ s.inputs[n].default # NoDefault
                              /\ ~Has(args, n) }
Prefill(s, args) ==
    [n \in DOMAIN args \cup Defaulted(s, args) |->
        IF Has(args, n) THEN args[n] ELSE << s.inputs[n].default >>]

(* The engine: where a piped value may go, and where a value must not go.    *)
PipeSlots(s, named) ==
    UNION { g.pipe : g \in { h \in s.groups : /\ h.kind \in {"exactly_one", "at_least_one"}
                                              /\ h.members \cap named = {} } }

(* A slip: only the groups of exactly one exclude.                           *)
ExcludedByExactlyOne(s, named) ==
    UNION { g.members \ named : g \in { h \in s.groups : /\ h.kind = "exactly_one"
                                                         /\ h.members \cap named # {} } }

ExcludedByGroups(s, named) ==
    UNION { g.members \ named : g \in { h \in s.groups : /\ h.kind \in {"exactly_one", "at_most_one"}
                                                         /\ h.members \cap named # {} } }

(* The selector: no call can satisfy a dead required input, or a group of    *)
(* members that are all dead.                                                *)
AcceptsNothing(input) == input.enumerated /\ input.one_of = {}

(* A slip: an optional input that accepts nothing already rules calls out.   *)
CallableIfNothingDead(s) == \A n \in DOMAIN s.inputs : ~AcceptsNothing(s.inputs[n])

Callable(s) ==
    /\ \A n \in DOMAIN s.inputs :
          s.inputs[n].required /\ s.inputs[n].source = "argument" => ~AcceptsNothing(s.inputs[n])
    /\ \A g \in s.groups :
          g.kind \in {"exactly_one", "at_least_one"} =>
            \E m \in g.members : m \in DOMAIN s.inputs => ~AcceptsNothing(s.inputs[m])

-----------------------------------------------------------------------------

ContractInit == spec \in Contracts /\ proposed = [n \in {} |-> << >>]

(* ProposedArgs::with.                                                       *)
Give(n, v) ==
    LET given == IF Has(proposed, n) THEN proposed[n] ELSE << >>
    IN  /\ Cardinality({ at \in (DOMAIN proposed) \X (1 .. MaxGiven) :
                              at[2] <= Len(proposed[at[1]]) }) < MaxGiven
        /\ proposed' = [m \in DOMAIN proposed \cup {n} |->
                          IF m = n THEN Append(given, v) ELSE proposed[m]]
        /\ UNCHANGED spec

ContractNext == \E n \in ArgNames, v \in ArgValues : Give(n, v)

ContractSpec == ContractInit /\ [][ContractNext]_contractVars

-----------------------------------------------------------------------------
(* Properties.                                                               *)

(* The defaults the kernel injects (prefill) never turn a call that conforms *)
(* to a bound contract into one that does not.  The exceptions: an envelope  *)
(* with a defaulted field, which the kernel then sends beside the carrier,   *)
(* and a list whose default holds, among several, a word with needs.         *)
SafeDefaults(s) ==
    \A n \in DOMAIN s.inputs : s.inputs[n].default # NoDefault =>
        ~IsEnvelope(s) /\ (s.inputs[n].list => DOMAIN s.inputs[n].values = {})
DefaultsConform ==
    Valid(spec) /\ SafeDefaults(spec) /\ Check(spec, proposed) = {}
        => Check(spec, Prefill(spec, proposed)) = {}

(* A value routed by the engine into a pipe slot that no group excludes      *)
(* mends the group it was missing from and breaks none that held; and any    *)
(* value kept out of the excluded inputs breaks none either.                 *)
BrokenBy(members) == { g \in spec.groups : Broken(g, g.members \cap members) }
RoutedValuesFit ==
    Valid(spec) =>
        LET named == { n \in DOMAIN proposed : Given(Joined(spec, proposed), n) }
        IN  \A n \in DOMAIN spec.inputs \ (named \cup ExcludedByGroups(spec, named)) :
                /\ BrokenBy(named \cup {n}) \subseteq BrokenBy(named)
                /\ n \in PipeSlots(spec, named) => BrokenBy(named \cup {n}) # BrokenBy(named)

(* The selector withholds an action as uncallable only if no call conforms.  *)
(* The exceptions: an envelope, whose dead field need not be given, and a    *)
(* dead list, of which a blank value gives no item.                          *)
NoDeadLists(s) == \A n \in DOMAIN s.inputs : AcceptsNothing(s.inputs[n]) => ~s.inputs[n].list
WithheldIsUncallable ==
    Valid(spec) /\ ~IsEnvelope(spec) /\ NoDeadLists(spec) /\ ~Callable(spec)
        => Check(spec, proposed) # {}

(* What is concluded from a contract agrees with what it accepts: no default *)
(* breaks a call, a routed value mends its group and breaks none, and what   *)
(* is withheld no call conforms to (prefill, pipe_slots, callable, check).   *)
ContractsHold == DefaultsConform /\ RoutedValuesFit /\ WithheldIsUncallable

=============================================================================
