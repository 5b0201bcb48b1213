---------------------------- MODULE MCResources ----------------------------
(* What a run holds and spends: capabilities and held content (Delivery),    *)
(* the budgets of a run, bodies read under them, arguments that name bodies, *)
(* and the bound of the cache.  Each component works on data of its own, so  *)
(* a behaviour is one component's, its subject; the others stand by.         *)
EXTENDS Delivery, Arguments, RunBudgets, Streams, EvictionPolicies, TLC

CONSTANTS
    Subjects                         \* the components looked at

VARIABLE subject

resourceVars == <<subject, vars, budgetVars, policyVars, streamVars, argVars>>

-----------------------------------------------------------------------------
(* The small instances.                                                      *)

\* A grant, an exclusion, two principals and a wildcard under the principals'
\* prefix, which names nobody; two contents of which one fills the store, and a
\* replay whose stated length is wrong.
Scope(segments, iri) == [cap |-> TRUE, segments |-> segments, iri |-> iri]
MCScopes ==
    { Scope(<<"word", "word", "other">>, "unparsable"),
      Scope(<<"word", "word", "dash">>, "unparsable"),
      Scope(<<"principal", "word", "word">>, "good"),
      Scope(<<"principal", "word", "other">>, "good"),
      Scope(<<"principal", "other">>, "wildcard") }
MCFamilies == {"read"}
MCUnder == [f \in MCFamilies |-> {s \in MCScopes : s.segments[1] = "word"}]
MCLengthOf == [id \in Contents |-> IF id = CHOOSE one \in Contents : TRUE THEN 1 ELSE 2]

\* Four keys: two of one request, one under a prefix and one under a longer prefix
\* within it; many small tables are read, and one per policy is played.
MCKeys == {"a", "b", "f", "g"}
MCRequestOf == ("a" :> "q") @@ ("b" :> "r") @@ ("f" :> "q") @@ ("g" :> "s")
MCClaimedBy == ("a" :> {}) @@ ("b" :> {}) @@ ("f" :> {"feed"}) @@ ("g" :> {"feed", "feedlong"})
MCPrefixLength == ("feed" :> 4) @@ ("feedlong" :> 8)
MCCellsOf == ("q" :> {1, 2}) @@ ("r" :> {2, 3}) @@ ("s" :> {3, 4})
Part(maxBytes, maxEntries, kind, percent) ==
    [maxBytes |-> maxBytes, maxEntries |-> maxEntries, kind |-> kind, percent |-> percent]
Table(kind, percent, maxEntries, maxBytes, parts) ==
    [kind |-> kind, percent |-> percent, maxEntries |-> maxEntries, maxBytes |-> maxBytes,
     parts |-> parts]
NoParts == [p \in {} |-> Unset]
SomeParts == {Part(b, e, Unset, Unset) : b \in 0 .. 2, e \in {Unset, 0, 2}}
                \cup {Part(1, 1, "scan-resistant", 50), Part(1, 1, "fifo", 50)}
MCPlayed ==
    { Table("lru", Unset, 2, 3, NoParts), Table("fifo", Unset, 2, 3, NoParts),
      Table("cost-aware", Unset, 2, 3, NoParts), Table("scan-resistant", 80, 3, 3, NoParts),
      Table("lru", Unset, 3, 7, ("feed" :> Part(3, 1, "scan-resistant", Unset))
                                @@ ("feedlong" :> Part(1, Unset, Unset, Unset))) }
MCTables ==
    MCPlayed
    \cup {Table(kind, percent, e, b, NoParts) :
            kind \in {"lru", "scan-resistant", "lfu"}, percent \in {Unset, 0, 99}, e \in 0 .. 1, b \in 0 .. 1}
    \cup {Table("scan-resistant", Unset, e, b, "feed" :> part) :
            e \in 1 .. 3, b \in 1 .. 3, part \in SomeParts}
    \cup {Table("lru", Unset, e, b, ("feed" :> part) @@ ("feedlong" :> other)) :
            e \in 2 .. 3, b \in 2 .. 4, part \in SomeParts, other \in SomeParts}
MCCosts == {Unset, 3}

\* Bodies that are text and bodies that are not, in sequences of up to three bytes.
MCBodies == {<<"m", "t", "t">>, <<"l", "a">>, <<"m", "t">>, << >>}
MCOffsets == 0 .. 3

\* Endpoints that declare an argument by body, by value, by name or openly, that
\* forward it, or that ask one that does; one referent, written twice.
MCDoor == {"valued", "named", "over"}
MCReads == [reader |-> [content |-> "body"], valued |-> [content |-> "value"], named |-> [content |-> "name"],
          both |-> [content |-> "body", copy |-> "open"], relay |-> [content |-> "body"],
          twice |-> [content |-> "body"], over |-> [content |-> "body"]]
MCWay == [reader |-> "leaf", valued |-> "leaf", named |-> "leaf", both |-> "leaf", relay |-> "relay",
        twice |-> "compose", over |-> "relay"]
MCTarget == [relay |-> "reader", twice |-> "both", over |-> "twice"]
MCVersions == <<"old", "new">>

ASSUME ResourceAssumption ==
    BudgetAssumption /\ StreamsAssumption /\ PolicyAssumption

-----------------------------------------------------------------------------
ResourceInit ==
    /\ subject \in Subjects
    /\ Init /\ ArgInit /\ BudgetInit /\ StreamsInit
    /\ subject # "arguments" => ~store.installed
    /\ subject # "budgets" => metered = "bytes"
    /\ subject # "streams" => body = [content |-> << >>, shape |-> "bytes", stated |-> TRUE]
    /\ PolicyInit /\ (subject # "policies" => table = CHOOSE t \in Played : TRUE)

Of(component) == subject = component /\ UNCHANGED subject
OfDelivery == Of("delivery") /\ UNCHANGED <<budgetVars, policyVars, streamVars, argVars>>
OfLine == OfDelivery /\ UNCHANGED storeVars
OfStore == OfDelivery /\ UNCHANGED lineVars
Replayed == Contents \cup {None}
Stated == Hints \cup {None}
OfBudgets == Of("budgets") /\ UNCHANGED <<vars, policyVars, streamVars, argVars>>
OfPolicies == Of("policies") /\ UNCHANGED <<vars, budgetVars, streamVars, argVars>>
\* Of the tables played one compares costs; under the others any cost is like another.
CostsCompared == IF table.kind = "cost-aware" THEN MCCosts ELSE {Unset}
OfStreams == Of("streams") /\ UNCHANGED <<vars, budgetVars, policyVars, argVars>>
OfArguments == Of("arguments") /\ UNCHANGED <<vars, budgetVars, policyVars, streamVars>>

\* Whether there is a store makes a difference to who asks for content alone; and a
\* body attached before, none to who asks by reference.
OfStored == OfArguments /\ store.installed

\* Only a reader of the store tells when it changed, and no property looks at it: a
\* change at another time is the same as one just before the next reading.
AsContentIsRead == \E a \in {"content", "copy"} : ReadsStore(a)

\* Requests not yet admitted are alike, and so are readers not yet reading.
NextRequest(r) == pc[r] = "new" /\ r = CHOOSE q \in Requests : pc[q] = "new"
NextReader(r) == rd[r].pc = "idle" /\ r = CHOOSE q \in Readers : rd[q].pc = "idle"

ResourceNext ==
    \/ OfLine /\ \E given \in Capability : Mint(given)
    \/ OfLine /\ \E p \in Principals : MintPrincipal(p)
    \/ OfLine /\ \E requested \in SUBSET Scopes : Narrow(requested)
    \/ OfLine /\ \E carried \in Capability : Arrive(carried)
    \/ OfStore /\ \E x \in Handles, id \in Contents : Put(x, id)
    \/ OfStore /\ \E x \in Handles, id \in Contents : PutFor(x, cap, id)
    \/ OfStore /\ \E x \in Handles, id \in Replayed, hint \in Stated : PutReplay(x, id, hint)
    \/ OfStore /\ \E x \in Handles, id \in Replayed, hint \in Stated : PutReplayFor(x, cap, id, hint)
    \/ OfStore /\ \E x, y \in Handles : CloneHandle(x, y)
    \/ OfStore /\ \E x \in Handles : DropHandle(x)
    \/ OfStore /\ DropStore
    \/ OfBudgets /\ \E r, p \in Requests, e \in Entitlements : NextRequest(r) /\ AdmitRequest(r, p, e)
    \/ OfBudgets /\ \E r \in Requests : Measure(r)
    \/ OfBudgets /\ \E r \in Requests : NarrowPool(r)
    \/ OfBudgets /\ \E r \in Requests, n \in Asks : Take(r, n)
    \/ OfBudgets /\ \E r \in Requests : TakeCell(r)
    \/ OfBudgets /\ \E r \in Requests : Refuse(r)
    \/ OfBudgets /\ \E r \in Requests : UndoCell(r)
    \/ OfBudgets /\ \E r \in Requests : KeepDrawn(r)
    \/ OfBudgets /\ \E r \in Requests, n \in Amounts : Give(r, n)
    \/ OfBudgets /\ \E r \in Requests : GiveCell(r)
    \/ OfPolicies /\ \E k \in Keys, size \in Sizes, cost \in CostsCompared : Store(k, size, cost)
    \/ OfPolicies /\ \E k \in Keys : Serve(k)
    \/ OfPolicies /\ \E k \in Keys : Remove(k)
    \/ OfStreams /\ \E r \in Readers, ask \in Ops : NextReader(r) /\ Open(r, ask)
    \/ OfStreams /\ \E r \in Readers, k \in 1 .. 2 : Chunk(r, k)
    \/ OfStreams /\ \E r \in Readers : End(r)
    \/ OfStreams /\ \E r \in Readers : Break(r)
    \/ OfStreams /\ \E r \in Readers : Abandon(r)
    \/ OfStreams /\ Expire
    \/ OfStored /\ \E e \in Door, c \in Payloads : Issue(e, Inline(c))
    \/ OfStored /\ bodies = << >> /\ \E e \in Door : Issue(e, Reference)
    \/ OfArguments /\ \E e \in Door, c \in Payloads : Issue(e, ById(Digest(c)))
    \/ OfStored /\ \E e \in Door, shape \in {"once", "replay", "validated"}, c \in Payloads : IssueAttached(e, shape, c)
    \/ OfArguments /\ NothingToCollect
    \/ OfArguments /\ Collect
    \/ OfArguments /\ \E why \in {"conflict", "over budget"} : CollectRefused(why)
    \/ OfArguments /\ Hit
    \/ OfArguments /\ Enter
    \/ OfArguments /\ \E a \in {"content", "copy"} : SettleName(a)
    \/ OfArguments /\ \E a \in {"content", "copy"} : SettleReferent(a)
    \/ OfArguments /\ \E a \in {"content", "copy"} : ReferentMissing(a)
    \/ OfArguments /\ \E a \in {"content", "copy"} : ReadInline(a)
    \/ OfArguments /\ \E a \in {"content", "copy"} : ReadReference(a)
    \/ OfArguments /\ \E a \in {"content", "copy"} : ReadAttached(a)
    \/ OfArguments /\ \E a \in {"content", "copy"} : ReadSpent(a)
    \/ OfArguments /\ \E a \in {"content", "copy"} : ReadHeld(a)
    \/ OfArguments /\ \E a \in {"content", "copy"} : ReadUnheld(a)
    \/ OfArguments /\ Answer
    \/ OfArguments /\ Fail
    \/ OfArguments /\ Ask
    \/ OfArguments /\ Return
    \/ OfArguments /\ FallBack
    \/ OfArguments /\ Retry
    \/ OfArguments /\ PassOn
    \/ OfArguments /\ Write
    \/ OfArguments /\ AsContentIsRead /\ \E c \in Payloads : PutContent(c)
    \/ OfArguments /\ AsContentIsRead /\ \E c \in Payloads : ReleaseContent(c)

ResourceSpec == ResourceInit /\ [][ResourceNext]_resourceVars

-----------------------------------------------------------------------------
\* The bytes a request holds are within its entitlement, as the comment on a
\* narrowed budget has it.
BytesWithinEntitlement == metered = "bytes" => WithinEntitlement

=============================================================================
