------------------------------ MODULE Delegation ------------------------------
(***************************************************************************)
(* The life of one line of capabilities: minted by a trusted host, handed  *)
(* on narrowed any number of times, and clamped at doors it arrives at     *)
(* over a transport, where the peer may present whatever it likes.         *)
(***************************************************************************)
EXTENDS Capabilities

VARIABLES
    cap,      \* the capability at the end of the line
    minted    \* history: the capability the host last minted it from

lineVars == <<cap, minted>>

LineTypeOK == cap \in Capability /\ minted \in Capability

LineInit == cap = Root /\ minted = Root

\* Capability::scoped and Capability::root, the trusted minting path.
Mint(c) == cap' = c /\ minted' = c

\* Capability::with_principal, in the same trust class.
MintPrincipal(p) ==
    /\ ~cap.root
    /\ cap' = WithPrincipal(cap, p)
    /\ minted' = cap'

\* A holder hands on a narrowed capability.
Narrow(requested) ==
    /\ cap' = Attenuate(cap, requested)
    /\ UNCHANGED minted

\* A door whose ceiling is the line's capability serves a peer that carries one.
Arrive(carried) ==
    /\ cap' = Clamp(cap, carried)
    /\ UNCHANGED minted

LineNext ==
    \/ \E c \in Capability : Mint(c)
    \/ \E p \in Principals : MintPrincipal(p)
    \/ \E requested \in SUBSET Scopes : Narrow(requested)
    \/ \E carried \in Capability : Arrive(carried)

LineSpec == LineInit /\ [][LineNext]_lineVars

-------------------------------------------------------------------------------
\* However often a capability was narrowed and clamped, it grants nothing and
\* acts as nobody that the minted one did not, it has shed none of the
\* exclusions, and a family it newly satisfies it satisfies by exclusions
\* alone ("There is no operation that widens a capability", capability.rs).
NoAmplification ==
    /\ \A s \in Scopes : Allows(cap, s) => Allows(minted, s)
    /\ \A p \in Principals : ActsAs(cap, p) => ActsAs(minted, p)
    /\ ~cap.root => minted.scopes \cap Exclusions \subseteq cap.scopes
    /\ \A f \in Families : \/ Satisfies(cap, f) => Satisfies(minted, f)
                           \/ cap.scopes \cap Under[f] \subseteq Exclusions
===============================================================================
