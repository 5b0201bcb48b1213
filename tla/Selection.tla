----------------------------- MODULE Selection -----------------------------
(* What a space offers (select.rs, forward.rs, media.rs): the walk that      *)
(* describes each entry by resolving it, the actions offered to a            *)
(* capability, and the plans that convert one media type to another.         *)
(* A space is a sequence of doors, the first that names an IRI answers it:   *)
(*   [pattern, names, exact, limiter, label, id, forwards: <<[target, verb]>>,*)
(*    actions: {[verb, requires, outputs, needs, optional, bound]},          *)
(*    conversion: <<[from, to, lossless, auto]>>].                           *)
(* `names` are the IRIs the pattern matches, the probe's among them; `needs` *)
(* and `optional` are the classes of its inputs, `bound` whether a template's*)
(* variables are declared.  A media type is [essence, charset].              *)
EXTENDS Integers, Sequences, SequencesExt, FiniteSetsExt, Relation

CONSTANTS Doors,        \* the doors a space may have
          Iris,         \* the names there are
          Offerings,    \* the spaces a host mounts
          Streams,      \* the kernel's stream builtins, behind every root
          Queries,      \* [present, verb, want, capability]
          Conversions,  \* [from, to, lossy]: conversions asked for
          Axioms,       \* rdfs:subClassOf pairs
          Classes,
          ProbeOf,      \* the name a pattern is probed at
          MaxForwards,  \* MAX_FORWARDS
          Canonical,    \* text/turtle
          Untyped       \* the class of an input that declares none

VARIABLES offering, query, offered, request, plan

selVars == <<offering, query, offered, request, plan>>

IsRecord(r, fields) == r = [f \in fields |-> r[f]]

(* A door has one action per verb (Description::action_specs), and an exact  *)
(* pattern is probed at itself.                                              *)
SelAssumption ==
    /\ MaxForwards \in Nat
    /\ Offerings \subseteq Seq(Doors) /\ Streams \in Seq(Doors)
    /\ \A d \in Doors :
          /\ IsRecord(d, {"pattern", "names", "exact", "limiter", "label", "id", "forwards",
                          "actions", "conversion"})
          /\ ~d.limiter => /\ ProbeOf[d.pattern] \in Iris
                           /\ d.exact => ProbeOf[d.pattern] = d.pattern
          /\ d.forwards # << >> => d.forwards[1].target \in Iris
          /\ \A x \in d.actions :
                IsRecord(x, {"verb", "requires", "outputs", "needs", "optional", "bound"})
          /\ \A x, y \in d.actions : x.verb = y.verb => x = y
    /\ \A q \in Queries : IsRecord(q, {"present", "verb", "want", "capability"})

Nothing == [kind |-> "nothing"]
EveryVerb == "any"
AnyType == [essence |-> "any", charset |-> "none"]

(* media_types_agree: one essence, and no parameter both state differently.  *)
Agree(a, b) ==
    /\ a.essence = b.essence
    /\ a.charset = b.charset \/ "none" \in {a.charset, b.charset}

-----------------------------------------------------------------------------
(* Resolving and describing.                                                 *)

Answering(doors, iri) == { i \in DOMAIN doors : iri \in doors[i].names }
Resolve(doors, iri) ==
    IF Answering(doors, iri) = {} THEN Nothing ELSE doors[Min(Answering(doors, iri))]

(* A hit on a limiter is a miss.                                             *)
Reached(doors, iri) ==
    LET d == Resolve(doors, iri) IN IF d # Nothing /\ ~d.limiter THEN {d} ELSE {}

(* The contract a forwarder presents: its target's, for the verbs it         *)
(* forwards; an undeclared Exists is described by Source.                    *)
ActionOf(d, verb) ==
    IF \E a \in d.actions : a.verb = verb THEN { a \in d.actions : a.verb = verb }
    ELSE IF verb = "Exists" THEN { a \in d.actions : a.verb = "Source" } ELSE {}

VerbsForwarded(d, target) ==
    IF d.forwards[1].verb = EveryVerb THEN { a.verb : a \in target.actions }
    ELSE {d.forwards[1].verb, "Exists"}

(* A slip: the projection forgets what the target requires.                  *)
ProjectUnguarded(d, target) ==
    [d EXCEPT !.id = d.pattern, !.conversion = << >>,
              !.actions = UNION { { [x EXCEPT !.verb = v, !.requires = {}] : x \in ActionOf(target, v) }
                                  : v \in VerbsForwarded(d, target) }]

Project(d, target) ==
    [d EXCEPT !.id = d.pattern, !.conversion = << >>,
              !.actions = UNION { { [x EXCEPT !.verb = v] : x \in ActionOf(target, v) }
                                  : v \in VerbsForwarded(d, target) }]

(* probe: the endpoint at each name, a forwarder behind its target's         *)
(* contract, or behind its own when the target is nowhere: after as many     *)
(* forwards as are left to follow.                                           *)
AsReached(doors) == [iri \in Iris |-> Reached(doors, iri)]

BehindTargets(doors, targets) ==
    [iri \in Iris |->
        { IF d.forwards = << >> THEN d
          ELSE LET target == targets[d.forwards[1].target]
               IN  IF target = {} THEN d ELSE Project(d, CHOOSE t \in target : TRUE)
          : d \in Reached(doors, iri) }]

ProbeWithin(doors) ==
    LET probe[forwards \in 0..MaxForwards] ==
            IF forwards = 0 THEN AsReached(doors) ELSE BehindTargets(doors, probe[forwards - 1])
    IN  probe

Probe(doors, iri) == ProbeWithin(doors)[MaxForwards][iri]

Entries(doors) == { i \in DOMAIN doors : ~doors[i].limiter }

(* describe_entry: what the entry's name, or its probe, resolves to; a       *)
(* template's is taken only if its label or its id says it is the entry's.   *)
DescribeEntry(doors, entry) ==
    { d \in Probe(doors, ProbeOf[entry.pattern]) : entry.exact \/ entry.label \in {d.label, d.id} }

-----------------------------------------------------------------------------
(* The actions a query is offered: select_actions.                           *)

(* A class fits where any class above it is asked for.                       *)
Supers == TransitiveClosure([sub, sup \in Classes |-> <<sub, sup>> \in Axioms], Classes)
ExpandPresent(present) ==
    present \cup { c \in Classes : \E p \in present \cap Classes : Supers[<<p, c>>] }

TemplateDrivable(entry, action) == entry.exact \/ action.bound

Inputs(action) == action.needs \cup action.optional
Satisfiable(action, present) ==
    Inputs(action) = {} \/ (action.needs # {} /\ action.needs \subseteq present)

(* Every filter of the walk but the capability.                              *)
Fits(entry, action, q, present) ==
    /\ TemplateDrivable(entry, action)
    /\ q.verb \in {EveryVerb, action.verb}
    /\ q.want # AnyType => \E o \in action.outputs : Agree(o, q.want)
    /\ present # {} => Satisfiable(action, present)

Match(entry, d, action, present) ==
    [endpoint |-> entry.pattern, id |-> d.id, verb |-> action.verb, requires |-> action.requires,
     missing |-> Cardinality((action.optional \ {Untyped}) \ present),
     argless |-> present # {} /\ Inputs(action) = {}]

(* The matches of one entry; one it shares with an entry before it, by       *)
(* pattern and verb, is the first's.                                         *)
MatchesOf(doors, i, q, present) ==
    UNION { { Match(doors[i], d, a, present) :
                a \in { x \in d.actions : /\ Fits(doors[i], x, q, present)
                                          /\ x.requires \subseteq q.capability } }
            : d \in DescribeEntry(doors, doors[i]) }

Firsts(doors, q, present) ==
    UNION { { m \in MatchesOf(doors, i, q, present) :
                ~\E j \in Entries(doors) : j < i /\ \E n \in MatchesOf(doors, j, q, present) :
                    n.endpoint = m.endpoint /\ n.verb = m.verb }
            : i \in Entries(doors) }

(* An action that needs nothing is offered only beside one that fits.        *)
BesideFit(matches) == IF \A m \in matches : m.argless THEN {} ELSE matches

Select(doors, q) == BesideFit(Firsts(doors, q, ExpandPresent(q.present)))

-----------------------------------------------------------------------------
(* A plan from one media type to another: select_transreptor_with.           *)

(* A transreptor is named exactly and driven by `content` and `as` alone.    *)
Transreptors(doors, i) ==
    { d \in DescribeEntry(doors, doors[i]) : d.conversion # << >> /\ d.conversion[1].auto }

Collect(doors) ==
    [i \in { j \in Entries(doors) : doors[j].exact /\ Transreptors(doors, j) # {} } |->
        LET c == (CHOOSE d \in Transreptors(doors, i) : TRUE).conversion[1]
        IN  [iri |-> doors[i].pattern, from |-> c.from, to |-> c.to, lossless |-> c.lossless]]

Handles(c, from, to) ==
    (\E f \in c.from : Agree(f, from)) /\ (\E t \in c.to : Agree(t, to))

Step(c, to) == [endpoint |-> c.iri, to |-> to, lossless |-> c.lossless]

(* The first that converts directly, else the first of each half through the *)
(* canonical type.                                                           *)
PlanOver(candidates, from, to, losslessOnly) ==
    LET Eligible(f, t) == { i \in DOMAIN candidates :
                              /\ losslessOnly => candidates[i].lossless
                              /\ Handles(candidates[i], f, t) }
        Hop(f, t) == Step(candidates[Min(Eligible(f, t))], t)
    IN  IF Eligible(from, to) # {} THEN <<Hop(from, to)>>
        ELSE IF Agree(from, Canonical) \/ Agree(to, Canonical) THEN << >>
        ELSE IF Eligible(from, Canonical) = {} \/ Eligible(Canonical, to) = {} THEN << >>
        ELSE <<Hop(from, Canonical), Hop(Canonical, to)>>

PlanFor(candidates, from, to, lossy) ==
    LET careful == PlanOver(candidates, from, to, TRUE)
    IN  IF careful # << >> \/ ~lossy THEN careful ELSE PlanOver(candidates, from, to, FALSE)

SelectTransreptor(doors, r) ==
    IF Agree(r.from, r.to) THEN << >> ELSE PlanFor(Collect(doors \o Streams), r.from, r.to, r.lossy)

-----------------------------------------------------------------------------

SelInit ==
    /\ offering \in Offerings
    /\ query = Nothing /\ offered = {}
    /\ request = Nothing /\ plan = << >>

OfferActions(q) ==
    /\ query = Nothing /\ request = Nothing
    /\ query' = q /\ offered' = Select(offering, q)
    /\ UNCHANGED <<offering, request, plan>>

PlanConversion(r) ==
    /\ query = Nothing /\ request = Nothing
    /\ request' = r /\ plan' = SelectTransreptor(offering, r)
    /\ UNCHANGED <<offering, query, offered>>

SelNext ==
    \/ \E q \in Queries : OfferActions(q)
    \/ \E r \in Conversions : PlanConversion(r)

SelSpec == SelInit /\ [][SelNext]_selVars

-----------------------------------------------------------------------------
(* Properties.                                                               *)

(* What a name is served by, at the end of its forwards.                     *)
BehindForwards(verb, served) ==
    [iri \in Iris |->
        UNION { IF d.forwards = << >> THEN {d}
                ELSE IF verb # "Exists" /\ d.forwards[1].verb \notin {EveryVerb, verb} THEN {}
                ELSE served[d.forwards[1].target]
                : d \in Reached(offering, iri) }]

ServedBy(verb) ==
    LET served[left \in 0..MaxForwards] ==
            IF left = 0
            THEN [iri \in Iris |-> { d \in Reached(offering, iri) : d.forwards = << >> }]
            ELSE BehindForwards(verb, served[left - 1])
    IN  served

(* An offer is no more than the floor will admit: every action offered,      *)
(* through whatever it forwards to, is one whose scopes the caller holds at  *)
(* the endpoint that serves it (declared = enforced, transitively).          *)
OffersAreAdmitted ==
    \A m \in offered : \A d \in ServedBy(m.verb)[MaxForwards][ProbeOf[m.endpoint]] :
        \A x \in ActionOf(d, m.verb) : x.requires \subseteq query.capability

(* An attenuated caller's manifold is part of the wider caller's: what it    *)
(* may not do can take offers away, and never adds or changes one.           *)
NarrowerOffersLess ==
    query # Nothing =>
        \A c \in SUBSET query.capability :
            Select(offering, [query EXCEPT !.capability = c]) \subseteq offered

(* A plan can be run as it stands: each step's name resolves to a            *)
(* transreptor that reads what came before it and produces what the step     *)
(* says, the last produces what was asked, and a projection is crossed only  *)
(* with consent and only where there is no lossless way, directly or through *)
(* the canonical type.                                                       *)
Edge(iri, from, to, lossless) ==
    \E d \in Reached(offering \o Streams, iri) :
        /\ d.conversion # << >> /\ d.conversion[1].lossless = lossless
        /\ Handles(d.conversion[1], from, to)

LosslessEdge(from, to) ==
    \E i \in DOMAIN (offering \o Streams) :
        LET d == (offering \o Streams)[i]
        IN  /\ ~d.limiter /\ d.exact /\ d.forwards = << >>
            /\ d.conversion # << >> /\ d.conversion[1].auto
            /\ Edge(d.pattern, from, to, TRUE)
            /\ Reached(offering \o Streams, d.pattern) = {d}

LosslessWay(from, to) ==
    \/ LosslessEdge(from, to)
    \/ /\ ~Agree(from, Canonical) /\ ~Agree(to, Canonical)
       /\ LosslessEdge(from, Canonical) /\ LosslessEdge(Canonical, to)

PlansAreSound ==
    /\ plan # << >> =>
        /\ plan[Len(plan)].to = request.to
        /\ \A i \in DOMAIN plan :
            Edge(plan[i].endpoint, IF i = 1 THEN request.from ELSE plan[i - 1].to,
                 plan[i].to, plan[i].lossless)
        /\ (\E i \in DOMAIN plan : ~plan[i].lossless) =>
              request.lossy /\ ~LosslessWay(request.from, request.to)
    /\ (request # Nothing /\ plan = << >> /\ ~Agree(request.from, request.to)) =>
        ~LosslessWay(request.from, request.to)

(* An action is offered only to who may run it where it is served, narrowing *)
(* a capability only takes offers away, and a conversion plan can be run as  *)
(* it stands (select_actions, select_transreptor_with).                      *)
OffersHold == OffersAreAdmitted /\ NarrowerOffersLess /\ PlansAreSound
=============================================================================
