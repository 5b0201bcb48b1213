----------------------------- MODULE Capabilities -----------------------------
(***************************************************************************)
(* Capabilities: what a holder may do and who it acts as (capability.rs),  *)
(* with the predicate that decides a declared requirement (select.rs,      *)
(* cap_satisfies).  A capability is root or a set of scopes.  A scope is   *)
(* kept as far as the code looks into its text: whether it begins with     *)
(* urn:cap:, the class of its first three segments, and for one that       *)
(* begins with urn:cap:principal: what the check of the IRI behind it      *)
(* finds.                                                                  *)
(***************************************************************************)
EXTENDS Naturals, Sequences

CONSTANTS
    Scopes,      \* the scopes of this instance
    Families,    \* declared requirements of the form "prefix*"
    Under        \* Under[f]: the scopes that begin with the prefix of f

\* A segment is the word "principal", another word, begins with a dash, or neither.
Segment == {"principal", "word", "dash", "other"}
\* What check_principal finds wrong with the text behind urn:cap:principal:.
IriCheck == {"good", "unparsable", "long", "wildcard"}

ASSUME ScopesAssumption ==
    Scopes \subseteq [cap : BOOLEAN, segments : Seq(Segment), iri : IriCheck]
ASSUME FamiliesAssumption == Under \in [Families -> SUBSET Scopes]

IsWord(segment) == segment \in {"principal", "word"}

\* A dash on the rule in one of the two reserved positions: an exclusion.
IsDenyScope(s) ==
    /\ s.cap
    /\ Len(s.segments) > 1
    /\ IsWord(s.segments[1])
    /\ \/ s.segments[2] = "dash"
       \/ Len(s.segments) > 2 /\ IsWord(s.segments[2]) /\ s.segments[3] = "dash"

PrincipalPrefixed(s) == s.cap /\ Len(s.segments) > 1 /\ s.segments[1] = "principal"

\* The scope names a principal: what stands behind the prefix is an IRI of
\* bounded length, without a wildcard, that does not spell an exclusion.
PrincipalIn(s) == PrincipalPrefixed(s) /\ s.iri = "good" /\ ~IsDenyScope(s)

Exclusions == {s \in Scopes : IsDenyScope(s)}
Principals == {s \in Scopes : PrincipalIn(s)}

-------------------------------------------------------------------------------
Root == [root |-> TRUE, scopes |-> {}]
Scoped(scopes) == [root |-> FALSE, scopes |-> scopes]
Capability == {Root} \cup {Scoped(scopes) : scopes \in SUBSET Scopes}

\* p is the one principal that these scopes carry.
SinglePrincipal(scopes, p) == scopes \cap Principals = {p}

\* A narrowing never yields an ambiguous capability.
AtMostOnePrincipal(scopes) ==
    IF \E p, q \in scopes \cap Principals : p # q THEN scopes \ Principals ELSE scopes

KeptPickingOne(scopes, requested) ==
    {s \in scopes : s \in Exclusions \/ s \in requested} \cup (requested \cap Exclusions)

\* What a scoped holder keeps when it narrows itself to the requested scopes:
\* grants it holds and asks for, its one principal if it asks for it, and the
\* exclusions of both sides.
Kept(scopes, requested) ==
    {s \in scopes : IF s \in Principals
                    THEN SinglePrincipal(scopes, s) /\ s \in requested
                    ELSE s \in Exclusions \/ s \in requested}
        \cup (requested \cap Exclusions)

Attenuate(c, requested) ==
    Scoped(IF c.root THEN AtMostOnePrincipal(requested) ELSE Kept(c.scopes, requested))

\* What a door resolves under when a peer carries a capability: no more than
\* its own, which is the ceiling, and as the principal the ceiling names.
Clamp(ceiling, carried) ==
    IF carried.root THEN ceiling
    ELSE LET narrowed == Attenuate(ceiling, carried.scopes)
         IN IF ceiling.root THEN narrowed
            ELSE Scoped(narrowed.scopes
                        \cup {p \in Principals : SinglePrincipal(ceiling.scopes, p)})

\* Root for everyone, any other capability as the one principal it carries.
ActsAs(c, p) == c.root \/ SinglePrincipal(c.scopes, p)

\* The door's mint, refused for root.
WithPrincipal(c, p) == Scoped({s \in c.scopes : ~PrincipalPrefixed(s)} \cup {p})

Allows(c, s) ==
    \/ c.root
    \/ /\ s \in c.scopes \ Exclusions
       /\ s \in Principals => SinglePrincipal(c.scopes, s)

\* A declared requirement: a family is satisfied by any scope held under its
\* prefix, exclusions counted; a plain scope must be granted.
Satisfies(c, requirement) ==
    IF requirement \in Families
    THEN c.root \/ c.scopes \cap Under[requirement] # {}
    ELSE Allows(c, requirement)
===============================================================================
