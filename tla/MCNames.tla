------------------------------ MODULE MCNames ------------------------------
(* Names: how they are spelled, matched, rewritten, sealed and resolved, and *)
(* what is declared, offered and demanded under them.  The components work   *)
(* on data of their own, so a behaviour is one component's, its subject; the *)
(* others stand by.                                                          *)
EXTENDS NameTheFirst, Contracts, Aliases, Selection, Chains, TLC

CONSTANTS
    Subjects,                   \* the components looked at
    NoMatch,
    Standby,                    \* the value of a variable of another component
    a, b                        \* the requests whose chains are followed

VARIABLES
    subject,
    document, stage, tree, space,                 \* Declarations
    pattern, bindings, input                      \* Templates

declarations == <<document, stage, tree, space>>
templates == <<pattern, bindings, input>>
namesVars == <<subject, vars, contractVars, chainVars, aliasVars, declarations, selVars, templates>>

-----------------------------------------------------------------------------
(* The small instances.                                                      *)

LOCAL ChainData == INSTANCE MCChains
MCSegments == ChainData!MCSegments
MCTexts == ChainData!MCTexts
MCTrees == ChainData!MCTrees
MCHeight == ChainData!MCHeight
MCTallest == ChainData!MCTallest
MCLevelOf == ChainData!MCLevelOf
MCCoreSeals == ChainData!MCCoreSeals
MCRootOf == ChainData!MCRootOf
MCCorridorOf == ChainData!MCCorridorOf
MCConfinedTo == ChainData!MCConfinedTo
MCHostSeals == ChainData!MCHostSeals
MCAsked == ChainData!MCAsked
MCMaxInjected == (a :> 2) @@ (b :> 1)
ASSUME AllowedTrees == ChainAssumption

LOCAL AliasData == INSTANCE MCAliases
MCRules == AliasData!MCRules
MCAliasNames == AliasData!MCAliasNames
MCReserved == AliasData!MCReserved
MCNotIris == AliasData!MCNotIris
ASSUME AllowedRules == AliasAssumption

LOCAL ContractData == INSTANCE MCContracts
MCContracts == ContractData!MCContracts
MCArgNames == {"content", "mode", "thread"}
MCValues == ContractData!MCValues
ASSUME AllowedContracts == ContractAssumption

LOCAL DocumentData == INSTANCE MCDeclarations
Documents == DocumentData!MCDocuments
Skolems == DocumentData!MCSkolems
De == INSTANCE Declarations WITH Registered <- {"e"}, MaxDepth <- 3, MaxNodes <- 6

LOCAL SelectionData == INSTANCE MCSelection
MCOfferings == SelectionData!MCOfferings
MCDoors == SelectionData!MCDoors
MCIris == SelectionData!MCIris
MCStreams == SelectionData!MCStreams
MCQueries == SelectionData!MCQueries
MCConversions == SelectionData!MCConversions
MCClasses == SelectionData!MCClasses
MCAxioms == SelectionData!MCAxioms
MCProbeOf == SelectionData!MCProbeOf
MCCanonical == SelectionData!MCCanonical
ASSUME AllowedDoors == SelAssumption

Alphabet == {"R", ":", "%", "2", "5"}
Escapes == (<<"2", "5">> :> "%") @@ (<<"5", "2">> :> "R") @@ (<<"2", "2">> :> "\"")
           @@ (<<"5", "5">> :> "U") @@ (<<"3", "A">> :> ":")
Lit(text) == [lit |-> TRUE, text |-> text]
Var(v) == [lit |-> FALSE, text |-> <<v>>]
Patterns ==
    { <<Lit(<<"R">>), Var("n")>>, <<Var("n"), Lit(<<"2", "R">>)>>, <<Var("n"), Lit(<<":">>), Var("m")>>,
      <<Lit(<<":">>), Var("n"), Lit(<<"2", ":">>), Var("m"), Lit(<<"R">>)>>,
      <<Var("n"), Lit(<<"R">>), Var("n")>>, <<Var("n"), Var("m")>> }
Te == INSTANCE Templates WITH
        Unreserved <- {"R", "2", "5", "U"}, Encoded <- {"%", "\""}, MaxText <- 3,
        Verbs <- {<<"S">>, <<"R">>}, Digests <- {<<"2">>, <<"5">>}

-----------------------------------------------------------------------------
NamesInit ==
    /\ subject \in Subjects
    /\ Init
    /\ IF subject = "chains" THEN ChainsInit
       ELSE root = Standby /\ seals = [built |-> FALSE] /\ scope = [w \in Who |-> EmptyScope] /\ fresh = 1
    /\ AliasInit
    /\ subject # "contracts" => spec = CHOOSE s \in Contracts : TRUE
    /\ ContractInit
    /\ IF subject = "declarations" THEN De!DeclInit
       ELSE document = Standby /\ stage = Standby /\ tree = Standby /\ space = Standby
    /\ IF subject = "selection" THEN SelInit
       ELSE offering = Standby /\ query = Nothing /\ offered = {} /\ request = Nothing /\ plan = << >>
    /\ IF subject = "templates" THEN Te!TmplInit
       ELSE pattern = Standby /\ bindings = Standby /\ input = Standby

OfChains == subject = "chains"
    /\ UNCHANGED <<subject, vars, aliasVars, contractVars, declarations, selVars, templates>>
OfAliases == subject = "aliases"
    /\ UNCHANGED <<subject, vars, chainVars, contractVars, declarations, selVars, templates>>
OfContracts == subject = "contracts"
    /\ UNCHANGED <<subject, vars, chainVars, aliasVars, declarations, selVars, templates>>
OfDeclarations == subject = "declarations"
    /\ UNCHANGED <<subject, vars, chainVars, aliasVars, contractVars, selVars, templates>>
OfSelection == subject = "selection"
    /\ UNCHANGED <<subject, vars, chainVars, aliasVars, contractVars, declarations, templates>>
OfTemplates == subject = "templates"
    /\ UNCHANGED <<subject, vars, chainVars, aliasVars, contractVars, declarations, selVars>>
OfNaming == subject = "naming"
    /\ UNCHANGED <<subject, chainVars, aliasVars, contractVars, declarations, selVars, templates>>

NamesNext ==
    \/ OfChains /\ \E w \in Who, c \in DOMAIN CorridorOf : Inject(w, c)
    \/ OfChains /\ \E w \in Who, c \in DOMAIN CorridorOf : InjectAnonymous(w, c)
    \/ OfChains /\ \E w \in Who : SeverRoot(w)
    \/ OfChains /\ \E v, w \in Who : StackOn(w, v)
    \/ OfChains /\ \E w \in Who, n \in Asked : Issue(w, n)
    \/ OfAliases /\ \E r \in Rules : Insert(r)
    \/ OfAliases /\ \E n \in AliasNames : Canonicalize(n)
    \/ OfAliases /\ \E n \in AliasNames : Resolves(n)
    \/ OfAliases /\ \E n \in AliasNames : RecordUnresolved(n)
    \/ OfContracts /\ \E n \in ArgNames, v \in ArgValues : Give(n, v)
    \/ OfDeclarations /\ De!Parse
    \/ OfDeclarations /\ De!BuildSpace
    \/ OfDeclarations /\ De!RenderSpace
    \/ OfSelection /\ \E q \in Queries : OfferActions(q)
    \/ OfSelection /\ \E r \in Conversions : PlanConversion(r)
    \/ OfTemplates /\ \E v \in Te!Variables(pattern), c \in Alphabet : Te!Bind(v, c)
    \/ OfNaming /\ \E x \in Targets : Visit(x)

NamesSpec == NamesInit /\ [][NamesNext]_namesVars

-----------------------------------------------------------------------------
(* Each component's properties, in the behaviours that are about it.         *)

\* What is built from a declaration is that declaration, each name one space; it
\* renders as what reads back as itself; and whatever the parser accepts is
\* within the builder's bounds (declare.rs, topology.rs).
DeclarationsHold == subject = "declarations" =>
    De!BuiltAsDeclared /\ De!RendersWhatItRead /\ De!ParserAndBuilderAgree

\* A template matches what it expands to, and a name written into an IRI reads
\* back as itself (UriTemplate::match_from, encode_name, parse_contract_iri).
NamesReadBack == subject = "templates" => Te!MatchesItsExpansion /\ Te!NamesReadBack
=============================================================================
