---------------------------- MODULE SubRequests ----------------------------
(* How an invocation resolves its sub-requests (endpoint.rs): one by one,    *)
(* fanned out over the host's executor and joined, or for a synchronous      *)
(* closure on a thread of its own that asks through a channel.  A node is an *)
(* invocation; Kids[n] are the sub-requests it makes, in order.              *)
EXTENDS Integers, Sequences, SequencesExt, FiniteSets

CONSTANTS Nodes, Root, NoAnswer,
          Kids,      \* Kids[n]: the sub-requests of n
          Way,       \* Way[n]: "leaf", "issue", "fan_out" or "scope_sync"
          Failing,   \* the leaves that may fail
          Keeping,   \* the closures that keep a clone of their issuer
          Width      \* how many tasks the executor runs at once

VARIABLES
    state,       \* state[n]: idle, queued, running, calling, joining, serving, done or gone
    answer,   \* answer[n]: what n left for the invocation that asked, or NoAnswer
    results,  \* results[n]: what n's sub-requests came to, as n sees them
    recorded, \* recorded[n]: the sub-requests n recorded as dependencies
    arrival,  \* arrival[n]: n's sub-requests in the order they were answered
    closure,  \* closure[n]: none, running, blocked, returned or panicked
    clones,   \* clones[n]: who holds the issuer of n's scope
    asked     \* asked[n]: how many requests n's closure has sent

(* The requests of a run are a tree: who asks is asked by one alone.         *)
ASSUME SubAssumption ==
    /\ Root \in Nodes /\ Width \in Nat /\ Kids \in [Nodes -> Seq(Nodes)]
    /\ Way \in [Nodes -> {"leaf", "issue", "fan_out", "scope_sync"}]
    /\ Failing \subseteq { n \in Nodes : Way[n] = "leaf" }
    /\ \A n \in Nodes : Way[n] = "leaf" => Kids[n] = << >>
    /\ \A n \in Nodes : n # Root <=> \E p \in Nodes : n \in ToSet(Kids[p])
    /\ \A m, n \in Nodes : \A i \in DOMAIN Kids[m], j \in DOMAIN Kids[n] :
         Kids[m][i] = Kids[n][j] => m = n /\ i = j

subVars == <<state, answer, results, recorded, arrival, closure, clones, asked>>

Parent(n) == CHOOSE p \in Nodes : n \in ToSet(Kids[p])
Running == { n \in Nodes : state[n] = "running" }
Idle(n) == Cardinality(Running) < Width
Answered(n) == Len(arrival[n])

SubInit ==
    /\ state = [n \in Nodes |-> IF n = Root THEN "queued" ELSE "idle"]
    /\ answer = [n \in Nodes |-> NoAnswer]
    /\ results = [n \in Nodes |-> << >>]
    /\ recorded = [n \in Nodes |-> {}]
    /\ arrival = [n \in Nodes |-> << >>]
    /\ closure = [n \in Nodes |-> "none"]
    /\ clones = [n \in Nodes |-> {}]
    /\ asked = [n \in Nodes |-> 0]

-----------------------------------------------------------------------------
(* The executor runs a task until it awaits; a task that was woken queues.   *)

Start(n) ==
    /\ state[n] = "queued" /\ Idle(n)
    /\ state' = [state EXCEPT ![n] = "running"]
    /\ UNCHANGED <<answer, results, recorded, arrival, closure, clones, asked>>

(* The answer of n reaches whoever asked: a fan-out's slot, the invocation   *)
(* that awaits it on the same task, or the closure waiting on its channel.   *)
Resumed(n) ==
    IF n = Root \/ Way[Parent(n)] = "fan_out" THEN [state EXCEPT ![n] = "done"]
    ELSE IF Way[Parent(n)] = "issue" THEN [state EXCEPT ![n] = "done", ![Parent(n)] = "running"]
    ELSE [state EXCEPT ![n] = "done", ![Parent(n)] = "serving"]

Finish(n, outcome) ==
    /\ state' = Resumed(n)
    /\ answer' = [answer EXCEPT ![n] = outcome]
    /\ IF n = Root THEN UNCHANGED <<results, recorded, arrival, closure>>
       ELSE LET p == Parent(n)
            IN  /\ arrival' = [arrival EXCEPT ![p] = Append(@, n)]
                /\ IF Way[p] = "fan_out" THEN UNCHANGED <<results, recorded, closure>>
                   ELSE /\ results' = [results EXCEPT ![p] = Append(@, outcome)]
                        /\ recorded' = [recorded EXCEPT ![p] = @ \cup {n}]
                        /\ closure' = [closure EXCEPT ![p] = IF @ = "blocked" THEN "running" ELSE @]
    /\ UNCHANGED <<clones, asked>>

Succeed(n) ==
    /\ state[n] = "running" /\ Way[n] # "scope_sync"
    /\ Len(results[n]) = Len(Kids[n])
    /\ Finish(n, "ok")

Fail(n) ==
    /\ state[n] = "running" /\ n \in Failing
    /\ Finish(n, "failed")

(* issue: the sub-request runs on the same task.                             *)
Issue(n) ==
    /\ state[n] = "running" /\ Way[n] = "issue" /\ Answered(n) < Len(Kids[n])
    /\ state' = [state EXCEPT ![n] = "calling", ![Kids[n][Answered(n) + 1]] = "running"]
    /\ UNCHANGED <<answer, results, recorded, arrival, closure, clones, asked>>

-----------------------------------------------------------------------------
(* fan_out: a task for each, then the join parks.                            *)

(* A slip: the join blocks the thread its children need.                     *)
Blocking(n) == "running"

Parked(n) == "joining"

FanOut(n) ==
    /\ state[n] = "running" /\ Way[n] = "fan_out" /\ results[n] = << >>
    /\ \A k \in ToSet(Kids[n]) : state[k] = "idle"
    /\ state' = [k \in Nodes |-> IF k \in ToSet(Kids[n]) THEN "queued"
                              ELSE IF k = n THEN Parked(n) ELSE state[k]]
    /\ UNCHANGED <<answer, results, recorded, arrival, closure, clones, asked>>

(* A slip: the results are taken in the order the branches ended.            *)
CollectedByArrival(n) == [i \in DOMAIN Kids[n] |-> answer[arrival[n][i]]]

Collected(n) == [i \in DOMAIN Kids[n] |-> answer[Kids[n][i]]]

Join(n) ==
    /\ Way[n] = "fan_out" /\ state[n] = Parked(n) /\ results[n] = << >>
    /\ Answered(n) = Len(Kids[n])
    /\ state' = [state EXCEPT ![n] = "queued"]
    /\ results' = [results EXCEPT ![n] = Collected(n)]
    /\ recorded' = [recorded EXCEPT ![n] = ToSet(Kids[n])]
    /\ UNCHANGED <<answer, arrival, closure, clones, asked>>

-----------------------------------------------------------------------------
(* scope_sync: a thread for the closure, and a channel the invocation drains.*)

OpenScope(n) ==
    /\ state[n] = "running" /\ Way[n] = "scope_sync" /\ closure[n] = "none"
    /\ state' = [state EXCEPT ![n] = "serving"]
    /\ closure' = [closure EXCEPT ![n] = "running"]
    /\ clones' = [clones EXCEPT ![n] = {"closure"}]
    /\ UNCHANGED <<answer, results, recorded, arrival, asked>>

Open(n) == state[n] \in {"serving", "calling"}

(* SyncIssuer::issue: sent and waited for, or refused once the scope ended.  *)
Send(n) ==
    /\ closure[n] = "running" /\ asked[n] < Len(Kids[n])
    /\ asked' = [asked EXCEPT ![n] = @ + 1]
    /\ closure' = [closure EXCEPT ![n] = IF Open(n) THEN "blocked" ELSE @]
    /\ UNCHANGED <<state, answer, results, recorded, arrival, clones>>

Serve(n) ==
    /\ state[n] = "serving" /\ Answered(n) < asked[n] /\ Idle(n)
    /\ state' = [state EXCEPT ![n] = "calling", ![Kids[n][Answered(n) + 1]] = "running"]
    /\ UNCHANGED <<answer, results, recorded, arrival, closure, clones, asked>>

(* The closure returns or unwinds, its issuer with it unless it kept one.    *)
Leave(n, how) ==
    /\ closure[n] = "running"
    /\ how = "returned" => asked[n] = Len(Kids[n])
    /\ closure' = [closure EXCEPT ![n] = how]
    /\ clones' = [clones EXCEPT ![n] = IF n \in Keeping /\ how = "returned" THEN {"kept"} ELSE {}]
    /\ UNCHANGED <<state, answer, results, recorded, arrival, asked>>

EndScope(n) ==
    /\ state[n] = "serving" /\ clones[n] = {} /\ Answered(n) = asked[n] /\ Idle(n)
    /\ Finish(n, IF closure[n] = "panicked" THEN "failed" ELSE "ok")

-----------------------------------------------------------------------------
(* The host drops the request where it awaits.  What was spawned runs on;    *)
(* a closure waiting for an answer is told that its scope ended.             *)

UnderWay == { n \in Nodes : state[n] \notin {"idle", "done"} }

(* The task of the root runs it and, of each invocation on the task that     *)
(* does not fan out, what that asked and awaits.                             *)
OnTask(S) ==
    /\ Root \in S
    /\ \A n \in S : Way[n] # "fan_out" => ToSet(Kids[n]) \cap UnderWay \subseteq S

RootTask ==
    LET tasks == { S \in SUBSET UnderWay : OnTask(S) }
    IN  { n \in UnderWay : \A S \in tasks : n \in S }

(* A slip: the reply is lost with the scope.                                 *)
StillWaiting(where) == where

ToldItEnded(where) == IF where = "blocked" THEN "running" ELSE where

Drop ==
    /\ state[Root] \in {"calling", "joining", "serving"}
    /\ RootTask \cap Running = {}
    /\ state' = [n \in Nodes |-> IF n \in RootTask THEN "gone" ELSE state[n]]
    /\ closure' = [n \in Nodes |->
           IF n \in RootTask THEN ToldItEnded(closure[n]) ELSE closure[n]]
    /\ UNCHANGED <<answer, results, recorded, arrival, clones, asked>>

Step(n) ==
    \/ Start(n) \/ Succeed(n) \/ Issue(n) \/ FanOut(n) \/ Join(n)
    \/ OpenScope(n) \/ Send(n) \/ Serve(n) \/ Leave(n, "returned") \/ EndScope(n)

SubNext ==
    \/ \E n \in Nodes : Start(n)
    \/ \E n \in Nodes : Succeed(n)
    \/ \E n \in Nodes : Fail(n)
    \/ \E n \in Nodes : Issue(n)
    \/ \E n \in Nodes : FanOut(n)
    \/ \E n \in Nodes : Join(n)
    \/ \E n \in Nodes : OpenScope(n)
    \/ \E n \in Nodes : Send(n)
    \/ \E n \in Nodes : Serve(n)
    \/ \E n \in Nodes, how \in {"returned", "panicked"} : Leave(n, how)
    \/ \E n \in Nodes : EndScope(n)
    \/ Drop

SubSpec == SubInit /\ [][SubNext]_subVars

(* The executor runs what is runnable, endpoints answer, closures return.    *)
SubFairness == \A n \in Nodes : WF_subVars(Step(n))

-----------------------------------------------------------------------------
(* Properties.                                                               *)

(* A fan-out is to its invocation what issuing one by one is: the answers in *)
(* the order of the requests, and each branch, a failed one too, recorded.   *)
FannedOutAsIssued ==
    \A n \in Nodes : state[n] = "done" /\ Way[n] \in {"issue", "fan_out"} =>
        /\ results[n] = [i \in DOMAIN Kids[n] |-> answer[Kids[n][i]]]
        /\ recorded[n] = ToSet(Kids[n])

(* Nothing waits for ever, however few tasks the executor runs and however   *)
(* deep fan-outs and scopes nest: each invocation that began is answered or  *)
(* dropped, and no closure stays blocked, its host gone or not.              *)
EverythingAnswers ==
    <>[]( /\ \A n \in Nodes : state[n] \in {"idle", "done", "gone"}
          /\ \A n \in Nodes : closure[n] # "blocked" )

(* "The scope returns when `f` does" (endpoint.rs, scope_sync).              *)
ScopeEndsWithItsClosure ==
    \A n \in Nodes : closure[n] = "returned" ~> state[n] \in {"done", "gone"}
=============================================================================
