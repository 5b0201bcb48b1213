------------------------------- MODULE MCLive -------------------------------
(* What runs beside a request and must be told, or must end: a declaration's *)
(* drive loop, cut listeners, the memos of contracts and the executor of     *)
(* sub-requests.  Each works on data of its own, so a behaviour is one       *)
(* component's, its subject; the others stay as they begin.                  *)
EXTENDS DynamicBinding, CutListeners, ContractMemos, SubRequests, TLC

CONSTANTS
    Subjects       \* the components looked at

VARIABLE subject

liveVars == <<subject, vars, cutsVars, contractVars, subVars>>

-----------------------------------------------------------------------------
(* The small instances.                                                      *)

\* Three versions of the declaration, of which the second is refused.
MCVerdict == [v \in Versions |-> IF v = 0 THEN "unreadable" ELSE IF v = 2 THEN "check" ELSE "ok"]

\* l1 hears everything of t1 and holds one event; l2 hears what concerns its own
\* capability, of every thread, and holds two.
InPartition == "k1" :> "cap"
Wanted == ("l1" :> {"t1"}) @@ ("l2" :> {"t1", "t2"})
HeardAs == ("l1" :> "all") @@ ("l2" :> "cap")
Room == ("l1" :> 1) @@ ("l2" :> 2)
\* A task waits for l1 alone, and cuts are enough to fill its queue again.
Wa == INSTANCE CutListeners WITH MaxSeq <- 4

\* A static contract, one that ages, and one that may not be kept; at first a
\* mount's contract is not to be kept, the others are static.
AllKinds == (1 :> "rebind") @@ (2 :> "age") @@ (3 :> "never")
OnlyStatic == 1 :> "rebind"
FirstBound == "n1" :> "e1"
DeclaredFirst == [e \in Endpoints |-> IF e = "e1" /\ 3 \in ContractVersions THEN 3 ELSE 1]
\* Where no time passes, a contract does not age.
Timeless == ContractVersions \ {2}

\* A composite that issues a leaf, a fan-out with one nested in it, and a scope
\* whose closure asks for a leaf and for another fan-out.
Invocations == {"r", "a", "f", "b", "c", "d", "s", "e", "g", "h"}
Tree == [r |-> <<"a", "f", "s">>, a |-> << >>, f |-> <<"b", "c">>, b |-> << >>, c |-> <<"d">>,
         d |-> << >>, s |-> <<"e", "g">>, e |-> << >>, g |-> <<"h">>, h |-> << >>]
How == [r |-> "issue", a |-> "leaf", f |-> "fan_out", b |-> "leaf", c |-> "fan_out", d |-> "leaf",
        s |-> "scope_sync", e |-> "leaf", g |-> "fan_out", h |-> "leaf"]
ASSUME LiveAssumption ==
    /\ ListenAssumption /\ Wa!ListenAssumption
    /\ MemoAssumption

-----------------------------------------------------------------------------
LiveInit ==
    /\ subject \in Subjects
    /\ Init
    /\ CutsInit
    /\ MemosInit
    /\ subject \notin {"memos", "ages"} => place["e1"] = "a1"
    /\ SubInit

Of(component) == subject = component /\ UNCHANGED subject
OfDynamic == Of("dynamic") /\ UNCHANGED <<cutsVars, contractVars, subVars>>
OfCuts == Of("cuts") /\ UNCHANGED <<vars, contractVars, subVars>>
OfWake == Of("wake") /\ UNCHANGED <<vars, contractVars, subVars>>
OfMemos == Of("memos") /\ UNCHANGED <<vars, cutsVars, subVars>>
OfAges == Of("ages") /\ UNCHANGED <<vars, cutsVars, subVars>>
OfSubRequests == Of("subrequests") /\ UNCHANGED <<vars, cutsVars, contractVars>>

LiveNext ==
    \/ OfDynamic /\ Write
    \/ OfDynamic /\ CutDeclaration
    \/ OfDynamic /\ Listen
    \/ OfDynamic /\ Lookup
    \/ OfDynamic /\ Read
    \/ OfDynamic /\ StoreDeclaration
    \/ OfDynamic /\ Wait
    \/ OfDynamic /\ InstallTopology
    \/ OfDynamic /\ \E r \in Rebuilders : Prepare(r)
    \/ OfDynamic /\ \E r \in Rebuilders : Check(r)
    \/ OfDynamic /\ \E r \in Rebuilders : Swap(r)
    \/ OfDynamic /\ \E r \in Rebuilders : CutSpace(r)
    \/ OfDynamic /\ \E r \in Rebuilders : CutBindings(r)
    \/ OfDynamic /\ \E f \in Faces : Ask(f)
    \/ OfDynamic /\ \E f \in Faces : Resolve(f)
    \/ OfDynamic /\ \E f \in Faces : Answer(f)
    \/ OfCuts /\ \E k \in Keys, T \in SUBSET Threads \ {{}} : Store(k, T)
    \/ OfCuts /\ \E k \in Keys : Evict(k)
    \/ OfCuts /\ \E l \in Listeners : Register(l)
    \/ OfCuts /\ \E l \in Listeners : Unlisten(l)
    \/ OfCuts /\ \E c \in Cutters, t \in Threads : Begin(c, t)
    \/ OfCuts /\ \E c \in Cutters : Interested(c)
    \/ OfCuts /\ \E c \in Cutters : SweepList(c)
    \/ OfCuts /\ \E c \in Cutters : CutPlain(c)
    \/ OfCuts /\ \E c \in Cutters : CutObserved(c)
    \/ OfCuts /\ \E c \in Cutters : Deliver(c)
    \/ OfCuts /\ \E l \in Listeners : Drain(l)
    \/ OfWake /\ Wa!Register("l1")
    \/ OfWake /\ Wa!Unlisten("l1")
    \/ OfWake /\ \E c \in Cutters : Wa!Begin(c, "t1")
    \/ OfWake /\ \E c \in Cutters : Wa!Interested(c)
    \/ OfWake /\ \E c \in Cutters : Wa!SweepList(c)
    \/ OfWake /\ \E c \in Cutters : Wa!CutPlain(c)
    \/ OfWake /\ \E c \in Cutters : Wa!CutObserved(c)
    \/ OfWake /\ \E c \in Cutters : Wa!Deliver(c)
    \/ OfWake /\ \E c \in Cutters : Wa!Wake(c)
    \/ OfWake /\ Wa!Drain("l1")
    \/ OfWake /\ Wa!Poll("w1", "l1")
    \/ OfWake /\ Wa!GiveUp("w1")
    \/ OfMemos /\ \E e \in Endpoints, p \in Addresses : Rebind("n1", e, p)
    \/ OfMemos /\ \E e \in Endpoints, v \in Timeless : ContractChanges(e, v)
    \/ OfMemos /\ ClearMemos
    \/ OfMemos /\ ClearFloors
    \/ OfMemos /\ ClearProbes
    \/ OfMemos /\ \E r \in Requests : ResolveName(r, "n1")
    \/ OfMemos /\ \E r \in Requests : LookupFloor(r)
    \/ OfMemos /\ \E r \in Requests : Describe(r)
    \/ OfMemos /\ \E r \in Requests : Insert(r)
    \/ OfMemos /\ \E r \in Requests : Record(r)
    \/ OfAges /\ TimePasses
    \/ OfAges /\ \E e \in Endpoints, p \in Addresses : Rebind("n1", e, p)
    \/ OfAges /\ \E e \in Endpoints, v \in ContractVersions : ContractChanges(e, v)
    \/ OfAges /\ ClearMemos
    \/ OfAges /\ ClearFloors
    \/ OfAges /\ ClearProbes
    \/ OfAges /\ ResolveName("r1", "n1")
    \/ OfAges /\ LookupFloor("r1")
    \/ OfAges /\ Describe("r1")
    \/ OfAges /\ Insert("r1")
    \/ OfAges /\ Record("r1")
    \/ OfSubRequests /\ \E n \in Nodes : Start(n)
    \/ OfSubRequests /\ \E n \in Nodes : Succeed(n)
    \/ OfSubRequests /\ \E n \in Nodes : Fail(n)
    \/ OfSubRequests /\ \E n \in Nodes : Issue(n)
    \/ OfSubRequests /\ \E n \in Nodes : FanOut(n)
    \/ OfSubRequests /\ \E n \in Nodes : Join(n)
    \/ OfSubRequests /\ \E n \in Nodes : OpenScope(n)
    \/ OfSubRequests /\ \E n \in Nodes : Send(n)
    \/ OfSubRequests /\ \E n \in Nodes : Serve(n)
    \/ OfSubRequests /\ \E n \in Nodes, how \in {"returned", "panicked"} : Leave(n, how)
    \/ OfSubRequests /\ \E n \in Nodes : EndScope(n)
    \/ OfSubRequests /\ Drop

\* What each component may count on: see DynamicBinding.FairSpec,
\* CutListeners.Fairness and SubRequests.SubFairness.
LiveSpec ==
    /\ LiveInit /\ [][LiveNext]_liveVars
    /\ WF_liveVars(OfDynamic /\ DriveStep)
    /\ WF_liveVars(OfDynamic /\ HostStep)
    /\ WF_liveVars(OfDynamic /\ CutDeclaration)
    /\ \A c \in Cutters : WF_liveVars(OfWake /\ Wa!CutStep(c))
    /\ WF_liveVars(OfWake /\ Wa!PolledAgain("w1"))
    /\ \A n \in Nodes : WF_liveVars(OfSubRequests /\ Step(n))

-----------------------------------------------------------------------------
\* When the writing stops, the drive loop settles on the last declaration
\* (DynamicSpace::drive).
DriveSettles == subject = "dynamic" => SettlesOnLastDeclaration

\* No invocation and no closure waits for ever (fan_out, scope_sync).
EverythingIsAnswered == subject = "subrequests" => EverythingAnswers
=============================================================================
