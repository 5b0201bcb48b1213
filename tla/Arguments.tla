----------------------------- MODULE Arguments -----------------------------
(* How the value of an argument reaches an endpoint (kernel.rs, endpoint.rs, *)
(* run.rs): inline, as a reference the kernel settles by the contract, or as *)
(* a content id, whose body a door attached to the run.  One run at a time;  *)
(* a cut that lands while it runs makes it decline to store (ReprCache).     *)
EXTENDS Integers, Sequences, FiniteSets

CONSTANTS Payloads,    \* what bodies hold
          Door,        \* the endpoints a door asks for
          Reads,       \* Reads[e][a]: body, name, value, open or undeclared
          Way,         \* Way[e]: leaf, relay (it forwards) or compose
          Target,      \* Target[e]: whom a relay or a composite asks
          Versions,    \* what the referent holds after each write
          MaxAttached, MaxTries,
          NoBody       \* the run of a request without a body

VARIABLES
    version,   \* how often the one referent was written, 0 while it is missing
    store,     \* the content store: whether there is one, what it holds for the caller
    bodies,    \* the bodies attached so far, in order
    stack,     \* the requests in progress, the innermost last
    answers,   \* the cache: what each request was answered
    outcome    \* what the innermost finished request came to

argVars == <<version, store, bodies, stack, answers, outcome>>

Endpoints == DOMAIN Way

ASSUME ArgAssumption ==
    /\ Door \subseteq Endpoints
    /\ \A e \in Endpoints : Way[e] \in {"relay", "compose"} => Target[e] \in Endpoints
    /\ Len(Versions) \in Nat /\ DOMAIN Versions = 1 .. Len(Versions)
    /\ NoBody \notin Nat \ {0}

Inline(c) == [by |-> "inline", of |-> c]
Reference == [by |-> "reference", of |-> "x"]
ById(id) == [by |-> "content", of |-> id]

(* attachment_id: the digest of a body that knows it, else a fresh nonce (a  *)
(* buffer has one too, and is here a replay without a validator).            *)
Digest(c) == [nonce |-> FALSE, of |-> c]
AttachmentId(shape, c) ==
    IF shape = "validated" THEN Digest(c) ELSE [nonce |-> TRUE, of |-> Len(bodies) + 1]

Attached(shape, c) ==
    [id |-> AttachmentId(shape, c), content |-> c, left |-> TRUE,
     oneShot |-> shape = "once", reopenable |-> shape # "once"]

Carrying(frame) ==
    { a \in DOMAIN frame.args : frame.run # NoBody /\ frame.args[a] = ById(bodies[frame.run].id) }

(* Attached::body_for: a second handle, or the one there is.                 *)
Left(run) == bodies[run].left
Opened(run) == IF bodies[run].oneShot THEN [bodies EXCEPT ![run].left = FALSE] ELSE bodies

(* A request as it arrives: its arguments as they identify it, as they were  *)
(* sent, and as the endpoint will see them.                                  *)
Arrived(e, args, run) ==
    [ep |-> e, args |-> args, sent |-> args, seen |-> args, run |-> run, phase |-> "arrived",
     got |-> << >>, volatile |-> FALSE, deps |-> {}, cut |-> FALSE, tries |-> 0]

ArgInit ==
    /\ version = 0 /\ bodies = << >> /\ stack = << >> /\ outcome = [is |-> "none"]
    /\ answers = << >> /\ store \in [installed : BOOLEAN, holds : {{}}]

Top == stack[Len(stack)]
Below == SubSeq(stack, 1, Len(stack) - 1)
Becomes(frame) == stack' = Append(Below, frame)
At(phase) == stack # << >> /\ Top.phase = phase

-----------------------------------------------------------------------------
(* A door issues: by value, by reference, or with a body attached.           *)

Issue(e, arg) ==
    /\ stack = << >>
    /\ stack' = <<Arrived(e, [a \in {"content"} |-> arg], NoBody)>>
    /\ outcome' = [is |-> "none"]
    /\ UNCHANGED <<version, store, bodies, answers>>

IssueAttached(e, shape, c) ==
    /\ stack = << >> /\ Len(bodies) < MaxAttached
    /\ bodies' = Append(bodies, Attached(shape, c))
    /\ stack' = <<Arrived(e, [a \in {"content"} |-> ById(AttachmentId(shape, c))], Len(bodies) + 1)>>
    /\ outcome' = [is |-> "none"]
    /\ UNCHANGED <<version, store, answers>>

Ends(result) ==
    /\ outcome' = result
    /\ stack' = Below

Failed(why) == [is |-> "failed", why |-> why, volatile |-> Top.volatile, deps |-> Top.deps,
                ep |-> Top.ep, sent |-> Top.sent]

-----------------------------------------------------------------------------
(* settle_attached: what is not declared to be read as a body is collected.  *)

Undeclared(frame) == { a \in Carrying(frame) : Reads[frame.ep][a] # "body" }

CollectedArgs(frame) ==
    [a \in DOMAIN frame.args |->
        IF a \in Undeclared(frame) THEN Inline(bodies[frame.run].content) ELSE frame.args[a]]

Detached(frame) == IF Undeclared(frame) = Carrying(frame) THEN NoBody ELSE frame.run

NothingToCollect ==
    /\ At("arrived")
    /\ Way[Top.ep] # "relay" => Undeclared(Top) = {}
    /\ Becomes([Top EXCEPT !.phase = "keyed"])
    /\ UNCHANGED <<version, store, bodies, answers, outcome>>

Collect ==
    /\ At("arrived") /\ Way[Top.ep] # "relay" /\ Undeclared(Top) # {}
    /\ Left(Top.run) /\ (bodies[Top.run].oneShot => Cardinality(Undeclared(Top)) = 1)
    /\ bodies' = Opened(Top.run)
    /\ Becomes([Top EXCEPT !.args = CollectedArgs(Top), !.seen = CollectedArgs(Top),
                           !.run = Detached(Top), !.phase = "keyed"])
    /\ UNCHANGED <<version, store, answers, outcome>>

(* Past the run's budget, or spent by a reader before.                       *)
CollectRefused(why) ==
    /\ At("arrived") /\ Way[Top.ep] # "relay" /\ Undeclared(Top) # {}
    /\ why = "conflict" => \/ ~Left(Top.run)
                           \/ bodies[Top.run].oneShot /\ Cardinality(Undeclared(Top)) > 1
    /\ why = "over budget" => Left(Top.run)
    /\ bodies' = Opened(Top.run)
    /\ Ends(Failed(why))
    /\ UNCHANGED <<version, store, answers>>

-----------------------------------------------------------------------------
(* The cache, and the invocation.                                            *)

Key(frame) == [ep |-> frame.ep, args |-> frame.args]

Hit ==
    /\ At("keyed") /\ Key(Top) \in DOMAIN answers
    /\ Ends([is |-> "ok", value |-> answers[Key(Top)].value, volatile |-> FALSE,
             deps |-> answers[Key(Top)].deps, ep |-> Top.ep, sent |-> Top.sent])
    /\ UNCHANGED <<version, store, bodies, answers>>

(* A slip: only an endpoint that reads the body is marked.                   *)
OneShotWhenRead(frame) == FALSE

(* note_one_shot_attachment: a request carrying a nonce can never repeat.    *)
OneShot(frame) == Carrying(frame) # {} /\ bodies[frame.run].id.nonce

Enter ==
    /\ At("keyed") /\ Key(Top) \notin DOMAIN answers
    /\ Becomes([Top EXCEPT !.phase = "invoked", !.volatile = OneShot(Top)])
    /\ UNCHANGED <<version, store, bodies, answers, outcome>>

(* References::settles, for an endpoint that does not forward.               *)
Unsettled(frame) ==
    { a \in DOMAIN frame.seen : /\ frame.seen[a] = Reference /\ Way[frame.ep] # "relay"
                               /\ Reads[frame.ep][a] \in {"name", "value", "open"} }

SettleName(a) ==
    /\ At("invoked") /\ a \in Unsettled(Top) /\ Reads[Top.ep][a] = "name"
    /\ Becomes([Top EXCEPT !.seen[a] = Inline("the name")])
    /\ UNCHANGED <<version, store, bodies, answers, outcome>>

(* A slip: the referent is read past the invocation.                         *)
ReadUnrecorded(frame) == frame.deps

Recorded(frame) == frame.deps \cup {"x"}

(* Read through the invocation: recorded, whether it is there or missing.    *)
SettleReferent(a) ==
    /\ At("invoked") /\ a \in Unsettled(Top) /\ Reads[Top.ep][a] # "name" /\ version > 0
    /\ Becomes([Top EXCEPT !.deps = Recorded(Top), !.seen[a] = Inline(Versions[version])])
    /\ UNCHANGED <<version, store, bodies, answers, outcome>>

-----------------------------------------------------------------------------
(* content_body: a leaf reads what it wants of its arguments.                *)

Reading(a) ==
    /\ At("invoked") /\ Unsettled(Top) = {} /\ Way[Top.ep] = "leaf"
    /\ a \in DOMAIN Top.seen \ DOMAIN Top.got

Gets(a, value) == [b \in DOMAIN Top.got \cup {a} |-> IF b = a THEN value ELSE Top.got[b]]

ReadInline(a) ==
    /\ Reading(a) /\ Top.seen[a].by = "inline"
    /\ Becomes([Top EXCEPT !.got = Gets(a, Top.seen[a].of)])
    /\ UNCHANGED <<version, store, bodies, answers, outcome>>

ReadReference(a) ==
    /\ Reading(a) /\ Top.seen[a] = Reference /\ version > 0
    /\ Becomes([Top EXCEPT !.got = Gets(a, Versions[version]), !.deps = Recorded(Top)])
    /\ UNCHANGED <<version, store, bodies, answers, outcome>>

ReferentMissing(a) ==
    /\ version = 0
    /\ \/ At("invoked") /\ a \in Unsettled(Top) /\ Reads[Top.ep][a] # "name"
       \/ Reading(a) /\ Top.seen[a] = Reference
    /\ Ends([Failed("not found") EXCEPT !.deps = Recorded(Top)])
    /\ UNCHANGED <<version, store, bodies, answers>>

ReadAttached(a) ==
    /\ Reading(a) /\ a \in Carrying(Top) /\ Left(Top.run)
    /\ bodies' = Opened(Top.run)
    /\ Becomes([Top EXCEPT !.got = Gets(a, bodies[Top.run].content),
                           !.volatile = @ \/ bodies[Top.run].id.nonce])
    /\ UNCHANGED <<version, store, answers, outcome>>

ReadSpent(a) ==
    /\ Reading(a) /\ a \in Carrying(Top) /\ ~Left(Top.run)
    /\ Ends(Failed("conflict"))
    /\ UNCHANGED <<version, store, bodies, answers>>

(* Not this run's body: the content store, which holds bodies by digest.     *)
ReadsStore(a) == Reading(a) /\ Top.seen[a].by = "content" /\ a \notin Carrying(Top)
HeldIds == { Digest(c) : c \in store.holds }

ReadHeld(a) ==
    /\ ReadsStore(a) /\ Top.seen[a].of \in HeldIds
    /\ Becomes([Top EXCEPT !.got = Gets(a, Top.args[a].of.of)])
    /\ UNCHANGED <<version, store, bodies, answers, outcome>>

(* Content that is not held, or held for others, is not found; a kernel      *)
(* without a store says so instead.  No name is read, so none is recorded.   *)
ReadUnheld(a) ==
    /\ ReadsStore(a) /\ Top.seen[a].of \notin HeldIds
    /\ Ends(Failed(IF store.installed THEN "not found" ELSE "unsupported"))
    /\ UNCHANGED <<version, store, bodies, answers>>

-----------------------------------------------------------------------------
(* An endpoint answers, fails, or asks another.                              *)

(* The newest answer is kept: a cache with room for one.                     *)
Stored(frame, value) ==
    IF frame.volatile \/ (frame.cut /\ frame.deps # {}) THEN answers
    ELSE [k \in {Key(frame)} |-> [value |-> value, deps |-> frame.deps]]

AnswerWith(value) ==
    /\ answers' = Stored(Top, value)
    /\ Ends([is |-> "ok", value |-> value, volatile |-> Top.volatile, deps |-> Top.deps,
             ep |-> Top.ep, sent |-> Top.sent])
    /\ UNCHANGED <<version, store, bodies>>

Answer ==
    /\ At("invoked") /\ Unsettled(Top) = {} /\ Way[Top.ep] = "leaf"
    /\ AnswerWith(Top.got)

Fail ==
    /\ At("invoked") /\ Way[Top.ep] = "leaf"
    /\ Ends(Failed("unavailable"))
    /\ UNCHANGED <<version, store, bodies, answers>>

(* A relay passes on what it was sent; a composite hands it on twice.        *)
Ask ==
    /\ At("invoked") /\ Unsettled(Top) = {} /\ Way[Top.ep] \in {"relay", "compose"}
    /\ stack' = Append(Append(Below, [Top EXCEPT !.phase = "asking"]),
                       Arrived(Target[Top.ep],
                               IF Way[Top.ep] = "relay" THEN Top.seen
                               ELSE [a \in {"content", "copy"} |-> Top.seen["content"]],
                               Top.run))
    /\ outcome' = [is |-> "none"]
    /\ UNCHANGED <<version, store, bodies, answers>>

Answered == At("asking") /\ outcome.is # "none"

(* Recorded::record: a missing name is a dependency, any other failure makes *)
(* the answer volatile.                                                      *)
Folded(frame, result) ==
    [frame EXCEPT !.deps = @ \cup result.deps,
                  !.volatile = @ \/ result.volatile
                                 \/ (result.is = "failed" /\ result.why # "not found")]

Return ==
    /\ Answered /\ outcome.is = "ok"
    /\ LET frame == Folded(Top, outcome)
       IN  /\ answers' = Stored(frame, outcome.value)
           /\ Ends([outcome EXCEPT !.volatile = frame.volatile, !.deps = frame.deps,
                                   !.ep = Top.ep, !.sent = Top.sent])
    /\ UNCHANGED <<version, store, bodies>>

Nothing == [fallback |-> "nothing"]

(* A composite answers without a value that is missing.                      *)
FallBack ==
    /\ Answered /\ outcome.is = "failed" /\ outcome.why = "not found" /\ Way[Top.ep] = "compose"
    /\ LET frame == Folded(Top, outcome)
       IN  /\ answers' = Stored(frame, Nothing)
           /\ Ends([is |-> "ok", value |-> Nothing, volatile |-> frame.volatile,
                    deps |-> frame.deps, ep |-> Top.ep, sent |-> Top.sent])
    /\ UNCHANGED <<version, store, bodies>>

(* A slip: judged by what is left of the body.                               *)
ReopenableByWhatIsLeft(frame) ==
    frame.run # NoBody /\ Carrying(frame) # {} => ~(bodies[frame.run].oneShot /\ bodies[frame.run].left)

(* Invocation::attachments_reopenable.                                       *)
AttachmentsReopenable(frame) ==
    frame.run # NoBody /\ Carrying(frame) # {} => bodies[frame.run].reopenable

Retry ==
    /\ Answered /\ outcome.is = "failed" /\ Way[Top.ep] = "relay"
    /\ Top.tries < MaxTries /\ AttachmentsReopenable(Top)
    /\ Becomes([Folded(Top, outcome) EXCEPT !.phase = "invoked", !.tries = @ + 1])
    /\ outcome' = [is |-> "none"]
    /\ UNCHANGED <<version, store, bodies, answers>>

PassOn ==
    /\ Answered /\ outcome.is = "failed"
    /\ LET frame == Folded(Top, outcome)
       IN  Ends([outcome EXCEPT !.volatile = frame.volatile, !.deps = frame.deps,
                                !.ep = Top.ep, !.sent = Top.sent])
    /\ UNCHANGED <<version, store, bodies, answers>>

(* A write to the referent, and the cut of its thread.                       *)
Write ==
    /\ version < Len(Versions)
    /\ version' = version + 1
    /\ answers' = [k \in { k \in DOMAIN answers : "x" \notin answers[k].deps } |-> answers[k]]
    /\ stack' = [i \in DOMAIN stack |-> [stack[i] EXCEPT !.cut = TRUE]]
    /\ UNCHANGED <<store, bodies, outcome>>

(* A host puts content, or drops its last handle on it: no thread is cut.    *)
PutContent(c) ==
    /\ store.installed /\ c \notin store.holds
    /\ store' = [store EXCEPT !.holds = @ \cup {c}]
    /\ UNCHANGED <<version, bodies, stack, answers, outcome>>

ReleaseContent(c) ==
    /\ c \in store.holds
    /\ store' = [store EXCEPT !.holds = @ \ {c}]
    /\ UNCHANGED <<version, bodies, stack, answers, outcome>>

ArgNext ==
    \/ \E e \in Door, c \in Payloads : Issue(e, Inline(c))
    \/ \E e \in Door : Issue(e, Reference)
    \/ \E e \in Door, c \in Payloads : Issue(e, ById(Digest(c)))
    \/ \E e \in Door, s \in {"once", "replay", "validated"}, c \in Payloads : IssueAttached(e, s, c)
    \/ NothingToCollect
    \/ Collect
    \/ \E why \in {"conflict", "over budget"} : CollectRefused(why)
    \/ Hit
    \/ Enter
    \/ \E a \in {"content", "copy"} : SettleName(a)
    \/ \E a \in {"content", "copy"} : SettleReferent(a)
    \/ \E a \in {"content", "copy"} : ReferentMissing(a)
    \/ \E a \in {"content", "copy"} : ReadInline(a)
    \/ \E a \in {"content", "copy"} : ReadReference(a)
    \/ \E a \in {"content", "copy"} : ReadAttached(a)
    \/ \E a \in {"content", "copy"} : ReadSpent(a)
    \/ \E a \in {"content", "copy"} : ReadHeld(a)
    \/ \E a \in {"content", "copy"} : ReadUnheld(a)
    \/ Answer
    \/ Fail
    \/ Ask
    \/ Return
    \/ FallBack
    \/ Retry
    \/ PassOn
    \/ Write
    \/ \E c \in Payloads : PutContent(c)
    \/ \E c \in Payloads : ReleaseContent(c)

ArgSpec == ArgInit /\ [][ArgNext]_argVars

-----------------------------------------------------------------------------
(* Properties.                                                               *)

Meanings(arg, versions) ==
    CASE arg.by = "inline" -> {arg.of}
      [] arg.by = "reference" -> {"the name"} \cup { Versions[v] : v \in versions }
      [] arg.by = "content" -> {IF arg.of.nonce THEN bodies[arg.of.of].content ELSE arg.of.of}

Says(value, args, versions) ==
    IF value = Nothing THEN TRUE
    ELSE \A a \in DOMAIN value : value[a] \in Meanings(args["content"], versions)

(* However an argument travels, the answer is the one its value gives: what  *)
(* is cached says what the body holds and what the referent holds now; no    *)
(* fallback is cached over a value that came inline, and one over a missing  *)
(* referent is gone when it appears.  One over content that was not held is  *)
(* not: putting the content cuts nothing (Kernel::settle_attached,           *)
(* settle_references, content_for, MemoryContentStore::put).                 *)
AnswersAsByValue ==
    /\ \A k \in DOMAIN answers :
          /\ Says(answers[k].value, k.args, {version} \ {0})
          /\ answers[k].value = Nothing =>
                \/ k.args["content"].by = "reference" /\ version = 0
                \/ k.args["content"].by = "content"
    /\ outcome.is = "ok" => Says(outcome.value, outcome.sent, DOMAIN Versions)

(* Nothing is stored under a request that can never be asked again, whether  *)
(* or not its endpoint read the body (note_one_shot_attachment).             *)
NothingUnaskableIsStored ==
    \A k \in DOMAIN answers, a \in {"content", "copy"} :
        a \in DOMAIN k.args /\ k.args[a].by = "content" => ~k.args[a].of.nonce

(* A request that is issued again because its attachments can be reopened    *)
(* does not find them spent (attachments_reopenable).                        *)
RetriesFindTheBody ==
    Answered /\ Top.tries > 0 /\ outcome.is = "failed" => outcome.why # "conflict"
=============================================================================
