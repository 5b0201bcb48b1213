# A verification development of ikigai-core

TLA+ modules, TLC configurations and TLAPS proofs about the kernel in
`src/crates/ikigai-core`. All paths below are relative to that crate's `src/`.

## 1. The system

ikigai-core resolves names. A host issues a request (a verb, an IRI, arguments)
under a capability; the kernel resolves the name in a tree of spaces to an
endpoint, checks what the endpoint declares, and either answers from a cache or
invokes the endpoint, which may issue sub-requests of its own. Everything an
answer was computed from is recorded as a set of *golden threads*; cutting a
thread invalidates every cached answer that hangs from it. There is no runtime in
the crate: requests are futures, polled by whatever threads the host has, so
everything below happens concurrently.

| part | source | state it keeps | operations | interacts with | modules |
|---|---|---|---|---|---|
| representation cache | `cache.rs`, `repr.rs` | entries, failures, generations, cut log, horizon, sequence (one mutex); `cut_seq` (atomic) | snapshot, lookups, stores, `discard`, `cut` | request path, cuts | `ReprCache`, `CoherentCache` |
| eviction policies | `cache.rs`, `cache_config.rs` | recency, frequency, a sketch, partitions | store, hit, victim | inside the cache's mutex | `EvictionPolicies` |
| request path | `kernel.rs` (`issue_answer`), `request.rs` | the locals of one request's frame | rewrite, resolve, admit, look up, invoke, store, cut after a write | everything | `KernelIssue` |
| cuts and listeners | `kernel.rs` (`cut`, `listen`), `listen.rs` | registry of weak references; per listener a queue, a drop count, a waker | `register`, `interested`, `deliver`, `drain`, `wait` | under the cache mutex, wakes host tasks | `CutListeners`, `NameTheFirst` |
| contract memos | `kernel.rs` (`FloorMemo`, `ProbeMemo`) | contracts by address of the endpoint; by name | `admit`, `record`, `lookup`, `clear` | request path; cleared by a cut | `ContractMemos` |
| run budgets | `run.rs` | a chain of atomic counters per run | `try_take`, `give_back`, `narrowed` | request path, bodies | `RunBudgets` |
| resolver and records | `endpoint.rs` | what an invocation recorded; tasks under way | `issue`, `fan_out`, `scope_sync`, `record` | folds sub-requests into their issuer | `SubRequests`, `Arguments`, `ReprCache` |
| arguments by reference | `kernel.rs`, `endpoint.rs`, `run.rs` | bodies attached to a run | settle, collect, read, fall back, retry | cache, budgets, content | `Arguments` |
| content store | `content_store.rs`, `content.rs` | bodies by digest with holders; bytes held | `put*`, `hold`, `get_for`, clone and drop | capabilities | `ContentStore`, `Delivery` |
| dynamic spaces | `dynamic.rs` | the space in force, its status | `install`, `refresh`, `drive`, `resolve` | cuts threads, awaits a listener | `DynamicBinding` |
| spaces and resolution | `space.rs` | the tree; a chain per request | `resolve`, inject, stack, sever, descend | seals, request path | `Spaces`, `Chains` |
| seals and confinement | `seal.rs`, `confine.rs` | a table built from a root's topology | build, admit, confine | resolution | `Chains` |
| aliases and redirects | `alias.rs`, `redirect.rs`, `forward.rs` | rules in order; counters per rule | insert, walk, charge a miss, forward a view | request path | `Aliases` |
| capabilities | `capability.rs` | none | attenuate, clamp, `allows`, `acts_as` | everything | `Capabilities`, `Delegation` |
| contracts | `describe.rs`, `check.rs`, `contract.rs` | none | validate, check, defaults, routing | memos, selection | `Contracts` |
| declarations and topologies | `declare.rs`, `topology.rs` | none | read, build, render | dynamic spaces | `Declarations` |
| selection and forms of names | `select.rs`, `grammar.rs`, `media.rs` | none | describe entries, offer actions, plan conversions, match and expand | catalog, spaces | `Selection`, `Templates` |
| bodies and streams | `body.rs`, `stream.rs` | a body read once or replayed | collect, decode, range, spill | budgets | `Streams` |
| read-outs | `explain.rs`, `kernel_ops.rs`, `*_graph.rs` | none | explain, probe; projections | request path, cache | in `KernelIssue`, partly |
| names, verbs and errors; builtins; vocabulary | `iri.rs`, `verb.rs`, `error.rs`, `builtins.rs`, `ikigai-vocab` | none | parsing, generated terms | | (`Templates`, partly) |

**What is hard here.** An answer takes time to compute, and what it read may
change meanwhile; the change is announced by a cut that finds nothing to
invalidate yet (the *lost cut*). The state that decides whether to decline the
late store is bounded, so it must be forgotten safely. One piece of state has many
names (aliases, mounts, the kernel's own table), and what is cached, cut, judged and
explained under them must be the same. Sub-requests run on tasks and threads that
wait for each other. Outside the mutex there are lock-free reads, chains of atomics,
describe calls between a read lock and a write lock, and wakers that run host code.
Futures are dropped at any await. `PROJECT.json` lists the hazards line by line with
the properties that cover them.

## 2. The modules

A module with a component's state has one action per operation, critical section or
stretch between awaits. The properties of a component stand at its end. Definitions
after a comment "A slip:" or "Mutation:", and definitions beside one that they
resemble, are faulty variants that no specification uses; each is there to show that
a property would notice.

**ReprCache** — one action per critical section of the cache's mutex and per step of
a request's frame.

| code | action |
|---|---|
| `ReprCache::cut`, `cut_with` | `RecordCut`, then `PublishCut` (the store to `cut_seq`) with the mutex held |
| `issue_answer` up to the lookups: snapshot and stamp | `Begin` |
| `get_failure`; `get_or_offer` | `LookupFailure`; `LookupEntry` |
| entering the endpoint; `depends_on`; a sub-request's outcome | `Invoke`, part of `LookupEntry`; `Observe`; `Fold` |
| the endpoint answers, with or without a revalidated body; `discard` | `Succeed` |
| `store_outcome`, with eviction and `sweep_generations` | `Store` |
| a failure by missing data; without expiry; with one | `FailMissing`; `FailVolatile`; `FailStated`, `DiscardAfterFailure` |
| return to the host; future dropped at an await; the clock | `Deliver`; `Abandon`; `TimePasses` |

Versions of data are counted by the cuts that announce them; the `saw` fields record
which an answer has seen and are history. A store may evict any set of entries, which
covers every policy. **CoherentCache** is its promise: a place shows the current view
of what it hangs from or nothing, and a change of a thread empties every place that
hangs from it in the same step.

**KernelIssue** — the request path from the name as asked to the answer. Every door
fronts one piece of state with a version number; an answer is the versions it was
built from. `Arrive` is the rewriting by the kernel's table and the depth check,
`AnswerKernelOp` the kernel's own names, `Resolve` the walk of the chain, the limiter,
the refusal to move into the kernel's namespace and the adoption of the reported name,
with the floor and its concealment (`Admit`) in the same step; then `Lookup`, `Describe`, `Touch` (the endpoint works),
`Call` and `Return` (a sub-request and the folding of its outcome), `Succeed`, `Fail`,
`Store`, `CutTarget` (the cut after any dispatched write) and `Reap`. A write that failed
cuts like one that succeeded (`AfterFailing`): the error arm cuts at `kernel.rs:4978`, and
an answer of `revalidated` where nothing was offered, which leaves at `kernel.rs:4989`
through `unoffered`, is cut inside that function (`kernel.rs:3258`). `Drop` abandons a host's request with everything below it, also between a
write and its cut. `Explained` and `Probed` are `explain` and `is_cached` as functions
of the same state; the probe adopts the name a space reports for every verb but `Meta`
(`ProbedAs`, `kernel.rs:6232`). The cut log is exact here, which is proved of `ReprCache`.

**EvictionPolicies** — `store_outcome` with `contest` and `enforce_bound`, `serve`
and `discard`, under each policy a `[cache]` table can describe; the frequency sketch
counts, halves and collides. A choice between equals is any of them. The loop that
evicts is a recursive function of what is left (`Remaining`), so that it can be
reasoned about.

**CutListeners** — `interested` is three steps: the load of the count (`Begin`), the
read of the list (`Interested`) and the sweep of dead entries (`SweepList`). A cut nobody
listens for is `CutPlain`; otherwise `CutObserved` takes the mutex, `Deliver` queues
the event everywhere and releases it, and `Wake` runs afterwards, a waker at a time.
**NameTheFirst** is the loop that shortens the list of names in an event, an action
per target.

**ContractMemos** — a request resolves, looks up under the read lock, describes with
no lock, inserts under the write lock with the sweep of a full memo, and records for
the probe. A rebind allocates an endpoint at any address neither in use nor reserved
by a weak reference. The cut of the bindings clears one memo, then the other.

**RunBudgets** — a pool is a chain of counters from a request's own up to the door's.
`try_take` is one action per counter (`TakeCell`), a refusal puts back counter by
counter (`UndoCell`), `give_back` likewise (`GiveCell`); `remaining` reads counter by
counter (`Measure`) and `narrowed` decides on what it read (`NarrowPool`). `metered` says
which of a run's two pools a behaviour follows: retries are spent one at a time and never
returned. What the
requests below a counter hold together is counted unit by unit, so that it can be
reasoned about without a recursion.

**Streams** — readers of one attached body, each collecting it (`collect_within`),
checking it as text (`Utf8Checked`), reading a range (`read_range`) or spilling it, chunk
by chunk under the run's byte pool; `Open`, `Chunk`, `End`, `Break`, `Abandon`, `Expire`.
`ValidUpTo` is where the standard library's decoder stops. **Tallies** are the sums over
finite sets that `RunBudgets`, `ContentStore` and `Streams` account by.

**SubRequests** — invocations that issue one by one, fan out over the host's executor
and join, or serve a synchronous closure on a thread of its own through a channel;
a fan-out inside a fan-out on a full executor; drops.

**Arguments** — an argument inline, as a reference the kernel settles by the
contract, or as a content id with a body attached to the run: settled before the
endpoint or read by it, once or again, with what makes an answer one-shot, what is
recorded of a missing referent, the store under a key anyone can ask again, and the
retry that must still find the body. An id that is not the run's own body is read from the
content store (`ReadHeld`), which a host may have installed or not and in which content
comes and goes (`PutContent`, `ReleaseContent`); what is not held is not found, and a
kernel without a store answers that it is unsupported (`ReadUnheld`). Who may read what is
held is `Delivery`'s: here `store.holds` is what this caller may read.

**Capabilities**, **Delegation**, **ContentStore**, **Delivery** — scopes, families,
exclusions and principals; a line of capabilities minted, narrowed, tightened and
clamped; values held by principals while handles live; and the last two side by side,
where the capability at the end of a line reads the store.

**DynamicBinding** — writers, the drive loop (`Listen`, `Lookup`, `Read`,
`StoreDeclaration`, `Wait`), a host's `InstallTopology`, and for each rebuilder
`Prepare`, `Check`, `Swap`, `CutSpace`, `CutBindings`; requests at its two faces, the
doors and the catalog, `Ask`, `Resolve` and `Answer` throughout.

**Spaces**, **Chains** — space trees and resolution in them; the chain a request
carries, injected, stacked, severed, confined, descended; its fingerprint; the seal
table built from a topology and asked at every hit. A tree is a value of `Trees` and is
built of trees of a lesser `Height`; what it answers, shows and holds are functions of
the tree (`Answers`, `Shown`, `Doorways`, `ShowsAll`), each given by what the trees below
it answer, show and hold. The code's walk of a topology carries its gates inward; `Show`
carries a find outward, which comes to the same, as a gate is the narrowest of the mounts
on a route in whatever order they are met.

**Aliases** — rules inserted in precedence order, the hop-by-hop walk with its
budget, the counters, and the request a view forwards. The loops of `walk` and
`forwarded` are functions of how many turns they have made (`Turns`, `Forwarded`), so
that they can be reasoned about without a recursion over data.

**Contracts**, **Declarations**, **Selection**, **Templates** — what a contract
accepts and what the kernel concludes from it; a document read into a tree, built and
rendered; entries described, actions offered, conversions planned; templates and
escapes. Each is a set of operators for the code's functions and a few actions that
present their inputs to them.

**MCReprCache**, **MCKernelIssue** give constants. **MCNames**, **MCLive** and
**MCResources** run several components at once for TLC, with the constants of some in
**MCChains**, **MCAliases**, **MCContracts**, **MCDeclarations** and **MCSelection**.
Where a component has theorems the run extends it and checks the very property that
is proved (`MCNames` extends `NameTheFirst`, `Contracts`, `Aliases`, `Selection` and `Chains`, `MCLive` extends `DynamicBinding`, `CutListeners`, `ContractMemos` and
`SubRequests`, `MCResources` extends `Delivery`, `Arguments`, `Streams`, `EvictionPolicies` and
`RunBudgets`); the others are instances.
Their variable `subject` says whose behaviour it is: the components in such a module
work on data of their own and share nothing, so interleaving them would multiply
states and show nothing new. Components that do share state are composed for real:
the kernel's cut, cache and drive loop in `DynamicBinding`, capabilities and content
in `Delivery`, requests and cache in `ReprCache` and `KernelIssue`, bodies and pools
in `Streams`.

## 3. The runs

| run | instance | shows |
|---|---|---|
| `ReprCacheCuts` | 2 threads, 2 keys, 2 requests, log of 1, watermark 1, 2 cuts, 2 stores, no clock | nothing stale is served (`NoStaleLive`), the bounded log is exact where it is asked (`CutLogExact`), a sweep revives nothing (`CutIsForever`) |
| `ReprCacheTimed` | 1 thread, 2 keys of one resource, 2 requests, deadlines, validators, 1 cached failure, 1 cut | `FailuresBounded`, `NewerEntryKept`, and the refinement `KeepsPromise` |
| `Issue` | 3 tasks, 2 host requests of 16 kinds, a nesting budget of 1, 15 names of 7 doors | `ReadYourWrites`, `NoDepthInCache`, `CachedWithinAuthority`, `ConcealedIsMissing`, `ExplainedAsAnswered`, `ProbedAsServed` |
| `Names` | seven subjects, below | `SealsHold`, `ConfinedStaysConfined`, `FingerprintDetermines`, `RewritesHold`, `NamedRequestHolds`, `ContractsHold`, `DeclarationsHold`, `OffersHold`, `NamesReadBack`, `CutNamesTheSmallest` |
| `Live` | six subjects, below | `NoAnswerFromGoneDoors`, `CutsHeardInOrder`, `AdmittedOnOwnContract`, `FannedOutAsIssued`, `DriveSettles`, `HearsLaterCuts`, `NoLostWakeup`, `EverythingIsAnswered` |
| `Resources` | five subjects, below | `NoAmplification`, `CountsItsHandles`, `ReadsItsOwn`, `BudgetsHold`, `CacheBounded`, `EvictsWhatItMay`, `StreamsHold`, `AnswersAsByValue`, `NothingUnaskableIsStored`, `RetriesFindTheBody` |
| `BudgetNarrowing`, `MemoRebound`, `DriveNarrowed`, `HopBudget`, `StreamExplained`, `ScopeEnds` | the instances above, or smaller | one documented statement each that does not hold (section 4) |

The subjects and their bounds:

- `Names`: `chains` (trees with a sealing level, an impostor of its name behind an
  opaque space, a module level, closing and opening mounts and rewriters; two chains
  with up to 2 and 1 injected corridors); `aliases` (rules of every kind, among them a
  cycle, a growing chain, two rules of one name and rules into and out of the kernel's
  namespace; tables of 3 rules, 3 hops); `contracts` (body and two arguments, 2 values given);
  `declarations` (two named nodes and an anonymous one, every kind); `selection`
  (spaces of up to three of a dozen kinds of doors); `templates` (texts of 3
  characters over an alphabet with the escape character and two that it escapes to);
  `naming` (4 targets, 2 named, 6 entries).
- `Live`: `dynamic` (2 writes beside a host's install, declarations that cannot be read
  or are refused among them); `cuts` (two cutters, two listeners of which one has
  room for 1 event, 2 cuts); `wake` (two cutters, one waiter, 4 cuts); `memos` (2
  requests, 3 endpoints at 2 addresses, no clock) and `ages` (1 request with a clock, and
  contracts that age);
  `subrequests` (a tree of ten invocations on an executor of one thread).
- `Resources`: `delivery` (2 handles, 2 contents, scopes with two principals and an
  exclusion); `budgets` (either pool of a run: a door with 3 and two
  requests below it, entitled to between none and 2);
  `policies` (4 keys in 3 partitions, of which two overlap, answers of 1 and 3 bytes,
  5 ticks); `streams` (3
  bodies whole, cut inside a character, or malformed, and the empty one; a pool of 4,
  a chunk of 2, a spill limit of 2); `arguments` (endpoints that read a body by value
  and by name, through relays, twice, and beside each other; a store or none, whose
  content comes and goes). What nothing can tell apart is
  not enumerated: what an answer cost, under a policy that compares no costs
  (`CostsCompared`); when the store changes, other than before it is read
  (`AsContentIsRead`: a change commutes with every other step, and no property looks at
  the store); whether there is a store, for a request that carries no content, and an
  attached body, for one by reference (`OfStored`); and which of two requests or readers
  begins first (`NextRequest`, `NextReader`).

**Why the bounds are enough.** A log of one is full after one cut and forgets at the
second, so two cuts reach every case of `cut_since`. Two requests make an issuer with
a sub-request, or two requests under one key of which one stores while the other
revalidates. Three tasks are the least for a composite, what it asks, and a write
beside both; a budget of 1 refuses the second nested request. A chain of three
counters is the shortest in which a refusal has two to put back. A queue of one is full
at the second cut. One endpoint dies, another takes its address, and a third is
allocated elsewhere. Three hops reach a chain within the budget, one as long as it and
one that exceeds it. Two injected corridors are one found first and one shadowed by
it. A nested fan-out in a fan-out fills an executor of one. Five ticks are two answers
stored, both served, and one replaced by an answer for which there is no room beside the
other. `MaxSeq`, `MaxTick`,
`MaxNow`, `MaxEntries`, `MaxIssues`, `MaxWrites`, `MaxInjected`, `MaxRules`, `MaxCount`,
`MaxGiven` and `MaxText` bound what is unbounded in the code; each guards one action.

**Symmetry** permutes requests and exchanges the two resources where each key has its
own (`ReprCacheCuts`), permutes the keys where both name one resource
(`ReprCacheTimed`), and permutes the task slots (`Issue`). None is used where liveness
is checked.

**Deadlock** is checked in the two `ReprCache` runs. The others have bounded inputs,
and a system whose inputs are used up and whose requests are answered rightly does
nothing more. That nothing stops too early is what `DriveSettles`, `NoLostWakeup` and
`EverythingIsAnswered` say.

**Fairness** is assumed in `Live` (and the violations that share its specification). Weakly
fair are: the steps of the drive loop and of a host's install, which are futures a
host has spawned and polls when they are woken; the cut that the kernel makes after a
write, which is straight-line code behind it; the steps of a thread inside
`Kernel::cut`, which blocks on nothing but short critical sections; the polling of a
task whose waker was called, which is the contract of `Waker`; and each step of an
invocation that an executor thread has taken. Not fair: writing, installing, draining,
giving up, beginning a cut, dropping a request.

## 4. What the runs found

Six places where the code does something other than its documentation says. Each is a
run that TLC must find violated; `PROJECT.json` quotes the lines.

1. `BudgetNarrowing`, `run.rs:249`. `narrowed` gives a sub-request its issuer's own
   pool when its entitlement is no less than what happens to be left. Retries only ever
   run down, so that is sound for them. Bytes come back, and then the sub-request may
   hold more than its capability is entitled to.
2. `MemoRebound`, `kernel.rs:4741`. A request that resolved before a rebind may record
   the old contract after the cut of the bindings cleared the probe memo.
3. `DriveNarrowed`, `dynamic.rs:618`. Under a narrowed capability the drive loop hears
   only cuts that invalidate an entry of its own; a write between listening and storing
   leaves none, and the space never catches up.
4. `HopBudget`, `alias.rs:870`. The end of a chain is recognised only at the top of a
   round, so a chain of exactly `max_hops` rewrites is refused.
5. `StreamExplained`, `explain.rs:363`. A stream name is explained as unresolved and
   answered by the kernel's own space.
6. `ScopeEnds`, `endpoint.rs:2106`. A scope goes on serving for a clone of its issuer
   that outlives the closure.

Smaller ones, noted while modelling and with no run:

- `deliver` rereads the listener list, so a listener registered after the interest
  check may hear the cut (`listen.rs:333` says it does not); an event counts targets
  left out, where its documentation says entries.
- Between the swap of a dynamic space and the cut that follows, an answer of the old
  doors can still be served; `NoAnswerFromGoneDoors` is about the time after the cut.
- `is_cached` can say "cached" for a name a corridor moves into `urn:kernel:`, which
  `ProbedAsServed` leaves out; a concealed name is explained.
- "The probe canonicalizes exactly as the serving path does" (`kernel.rs:6189`) is not so
  of a `Meta`: `kernel.rs:6232` adopts no reported name for one, where serving does
  (`kernel.rs:4641`). A description under a name its space reports otherwise is served from
  the cache and never probed as cached. `ProbedAsServed` says exactly that of those names
  (`DescribedElsewhere`), and the equivalence of all the others.
- A composite that falls back because content was not found (`endpoint.rs:1740`,
  `kernel.rs:6593`) is cached with nothing that a put of that content would cut, so the
  fallback outlives the absence. `AnswersAsByValue` grants a fallback over a missing
  referent only while it is missing, and one over content at any time.
- The limiter's refusal tells the canonical name where the comment promises the text
  of a miss; `ConcealedIsMissing` is about misses and concealed names.
- The protected victims of the scan-resistant policy: a newcomer is given up when
  everything else is protected, and a larger replacement may displace other entries.
  The hits of an entry end with the answer that had them: a replacement starts as an
  entry never served and may itself be what is given up, which is why `GivesUpIn` makes
  an exception of the key that is stored. The exception came out of the proof; with
  answers of nearly one size the smaller claim holds.
- An envelope's groups are always checked, where `check.rs` says only what it wraps.
- A future that collects a body and is dropped keeps its draw on the pool.
- Only the first name is checked against `urn:kernel:` by the alias walk.
- A required list of an empty enumeration is withheld as uncallable
  (`select.rs:884`), but `check.rs:455` accepts a call that gives it a blank value or
  separators alone, of which there are no items to refuse. `WithheldIsUncallable` leaves
  such lists out (`NoDeadLists`).
- `validate` counts the members of a group and does not ask that they differ; here they
  are a set.

## 5. What is proved

With TLAPS, for every value of the constants the named assumptions allow; TLC
evaluates each assumption on the instances above.

| module | theorems | assumption |
|---|---|---|
| `ReprCacheProofs` | `TypeCorrect`, `InvariantHolds`, `NothingStaleIsServed`, `CutLogIsExact`, `CutsAreForever`, `FailuresStayBounded`, `GivingUpForgetsNothingNewer`, `ImplementsCoherentCache` | any finite set of keys, any threads, requests and bounds |
| `KernelIssueProofs` | `ReadsFollowWrites`, `DepthStaysOutOfTheCache`, `CacheWidensNothing`, `ConcealedTellsNothing`, `DryRunIsTheRequest`, `ProbeIsTheRequest` | `IssueAssumption`: the names of a door report one canonical name, which leads to it; the last two as below |
| `LiveProofs` | `DynamicTypeCorrect`, `NothingFromGoneDoors`; `MemosHold`; `FanOutIsIssuing`; `CutsAreHeardInOrder`, `NoCutPassesBy` | any number of writes and installs, under root or a narrowed capability; any endpoints, addresses, requests and ages; `SubAssumption`: any tree of requests, executor width and closures; `ListenAssumption`: any threads, entries, listeners, queues of at least one, cutters and waiters |
| `BoundsProofs` | `RunBudgetsAlwaysHold`; `CacheAlwaysBounded`, `EvictsOnlyWhatItMay` | `BudgetAssumption`: any finite tree of requests, a limit, entitlements and amounts, for the bytes, which are returned, and for the retries, which are drawn by one and are not; `PolicyAssumption`: any tables of numbers with finitely many prefixes, any keys, prefixes that claim them, sizes and costs, and a sketch in which every request has a counter |
| `ContentProofs` | `LineAmplifiesNothing`, `StoreCountsItsHandles`, `DeliveryAmplifiesNothing`, `DeliveryCountsItsHandles`, `DeliveryReadsItsOwn`; `StreamsAlwaysHold`; `AnsweredAsByValue`, `NothingUnaskableStored`, `RetriesFindBodies` | `ContentAssumption`: any scopes and families, finitely many handles and contents, any lengths and capabilities; `StreamsAssumption`: any bodies and finite set of readers, any pool, spill limit, offsets and chunks; `ArgAssumption`: any endpoints and what they declare, contents, versions, attached bodies and retries |
| `ChainsProofs` | `SealsAlwaysHold`, `FingerprintAlwaysDetermines`, `ConfinedAlwaysStaysConfined` | `ChainAssumption`: any trees built of trees of a lesser height, any levels but none called `core` or `host`, any roots, corridors, confinements and host seals, any number of chains; no name asked is one core answers itself |
| `NamesProofs` | `NamesTheFirst`; `ContractsAlwaysHold`; `RewritesAlwaysHold`, `NamedRequestAlwaysHolds`; `OffersAlwaysHold` | `NamingAssumption`: any set of targets, at least one named; `ContractAssumption`: any contracts and calls, groups of finitely many members and of the three kinds there are; `AliasAssumption`: any rules of the three kinds, any hop budget, finitely many names; `SelAssumption`: any doors, cycles of forwards included, with one action per verb (`Description::action_specs`) and, where the pattern is exact, probed at their own names, any classes, queries and conversions, any number of forwards followed |
| `TalliesProofs` | the lemmas about sums, and those in the place of an induction over numbers, that four of the others cite | |

Two of the theorems of `KernelIssueProofs` have a hypothesis of their own, which
`MCKernelIssue` has TLC evaluate on its names. `DryRunAssumption`: stream names lead
nowhere in the chain, no space reports a stream name for another, and no limiter is
reported under a name that only the kernel answers. Without the first two the code does
explain what it does not answer (section 4, `StreamExplained`); the third is where
`explain` and `issue_answer` look at the limiter and at the kernel's namespace in a
different order. `LimitedApart`: no limiter is reported under a name that others are
served by; the probe looks up the reported name and does not ask who reports it. A
description is its exception, looked up by the name as asked; the theorem says that it is
then never found under a name its space reports otherwise (`DescribedElsewhere`).

**The arguments.** None of the properties is inductive; what each invariant adds is
what is on its way.

- *ReprCache.* `LogSound`: above the horizon the log is complete and in order.
  `RequestsSound`: if anything a request holds is outdated, the cut came after its
  snapshot, and a sub-request's snapshot is no older than its issuer's, which carries
  the first through `Fold`. `PinsSound`: pins are never ahead of the generations, and
  while a pin is current its slot has seen the last cut. They meet in `Store`: nothing
  outdated passes `CutSince`. The refinement maps a slot whose edges are current to what
  it has seen, and every other slot to nothing.
- *KernelIssue.* `Current`: where an answer under way is older than the state, the
  write is under way or lost, or a thread the answer hangs from was cut since its
  snapshot, so its store is declined. `Sound`: it hangs from the thread of everything
  it saw and its capability reads all of it; what the nesting budget shaped is
  volatile. `Nested`: a sub-request has its issuer's capability, and a snapshot no
  older. The assumption about names is where aliasing enters: one door, one thread.
- *ContractMemos.* `Allocated`: live endpoints have addresses of their own, and an
  address a memo entry reserves is, while a live endpoint is there, that endpoint's.
- *RunBudgets.* At every counter, at every moment, what is left, what the requests below
  hold or drew, and what their steps under way have subtracted there and not yet settled
  add up to what it started with (`Balanced`). A take under way has subtracted from the
  counters it has passed, an undo still owes those between its place and the one that
  refused, a return those it has yet to reach. That the counters are a tree is part of it:
  a new one is below a pool that is minted and above nobody's, so no path that anyone is on
  changes (`PathUnmoved`). The sum is the cardinality of a set of units, which only the
  request that moves can change.
- *RunBudgets, the retries.* A pool that was measured may later hold more than was read
  in it, for refused takes are put back. But a take of one is refused only at a counter
  that is at zero, and puts back only below it (`Exhausted`), so wherever a counter gains,
  one further up is at zero (`Calm`). So at some counter of a request's path, though not
  always the same one, what is left and what the request has drawn stay within its
  entitlement (`RetryOK`). The step that fails for bytes is the return.
- *EvictionPolicies.* The loop: a set of sets that holds everything there is, and with any
  set that is over a bound what is left of it after one eviction, smaller, holds what
  the loop ends with (`RemainingIs`). For a store these are the sets that lack only
  entries of the partition stored in, none of them served unless those served are over
  their share (`StoreGivesUp`). Only that partition can be over its bound, as the others
  hold no more than before, and only while the new entry is there, which was never
  served; so there is something never served to give up, or the share is exceeded. That a
  policy names a member at all needs what it compares by to be total and transitive, which for
  hits per tick, compared by products, is `RatesCompare`. Of the sketch: no counter of a
  request is below what the request was wanted, and halving keeps that.
- *DynamicBinding.* What a request resolved in is in force, or about to be cut, or has
  been cut since the request's snapshot (`FaceOK`).
- *The read-outs of KernelIssue.* `OnItsWay`: what a request has been told and the name it
  goes by follow from the name as asked and from the floor it has passed, so what it ends
  in is a function of its name, verb and capability, and can be compared with what the dry
  run computes. `Keys`: a key of the cache is that of a request that was admitted.
- *CutListeners.* While a cut is being delivered its thread holds the mutex, its number is
  the last that was given, and everything in a history is older; the entries it found
  live had the generation it has just left. The registry's list covers every held listener
  and the count is zero only for an empty list, so a cutter that began after a listener was
  registered has been sent to observe, unless the listener did not want its thread.
- *NameTheFirst.* While there is room everything seen is kept; from then on whatever was
  left out lies beyond every name.
- *Arguments.* What an argument denotes never changes on its way through relays and
  retries. What was got of the referent is of the newest version, or the request hangs from
  the thread that was cut and is not stored. A fallback comes of a failure that was not
found, and that is of a referent, which the failure hangs from, or of content; one of content
is stored only under a request that carried content, for no argument is made content on its
way (`Missing`, `Comes`). A nonce is carried only together with its
  run, so what is asked under one is one-shot; and a body that is spent is not reopenable.
- *Contracts.* No step is hard here; the definitions are. A value given once is its own
  join, so what a default adds to the joined call is the default itself (`PrefilledJoin`).
  It breaks no rule of its own input, as that was checked when the contract was bound, it
  leaves no need unmet that was met (`NeedsStayMet`), and no member of a group has one. A
  value that no group excludes joins a group of at most one only where nothing of it is
  named, so what it breaks was broken (`RoutingBreaksNothing`).
- *Aliases.* The loop keeps a trail of names, no two alike, that follows the chain of
  single rewrites (`WalkPath`, `TurnFollows`); one that meets a name again cycles and never
  ends (`CycleStays`), one that has not ended within the budget is refused. A table is
  sorted with the rules of one name in the order authored, whatever order the others came in
  (`InsertedSorted`, `InsertedStable`); two such tables of the same rules agree on the first
  that matches any name (`SameRule`), so on every turn and on what the walk ends with. Rules
  of one name must keep their order: of those only the first ever applies. The counters:
  a request on its way was rewritten by the table as it stands, which grows no more once a
  rule has been counted, so what the requests on their way owe is a sum of which a step
  changes one term (`OneMoreOwed`).
- *Selection.* A name has one door or none, so the walk that describes it and the walk that
  serves it can be compared forward by forward (`DescribedAsServed`): with as many forwards
  left, an action described asks for what the action that serves it asks for, the undeclared
  `Exists` that `Source` describes included. Entries of one pattern describe one door, so
  where a narrower caller is offered an action, the entry that shadows it for the wider
  caller offers the same (`NarrowerFirsts`). A candidate for a plan is described by no
  projection, for a projection converts nothing, so its name resolves to it
  (`ProbedAsReached`).
- *Chains, of a tree.* There is no induction over trees to cite, so what a function of
  trees is at every tree is shown to exist height by height (`AnswersAre`, `ShownAre`,
  `DoorwaysAre`, `ShowsAllAre`), and what holds of every tree follows from what holds of
  those below it (`EveryTree`). Who answers is a door that stands in the level the answer
  reports as innermost (`AnswersInPlace`), and a level the topology shows is one whose
  doors stand in it where the tree has it (`FindsInPlace`); so where the seal table takes a
  level for an owner, the door stands in that level object (`ChainsAreSealed`).
  For the converse, that a table that was built has nothing to refuse: where a tree shows
  everything, every answer has a door in the topology whose grammar takes the name and
  whose gates let it pass, and every level of its path is shown (`AnswersRouted`); within a
  frame of a level it is the gate from that level down that lets it pass
  (`LevelsNest`), so a hit that would be refused is a door that was (`WalkUnbroken`).
- *Chains, of a chain.* `ChainInv`: a corridor is known by its own name or by a number
  that was given out before, and only once (`Apart`), so chains of one fingerprint have
  the same corridors in the same order. Where they are not inside a level the split between
  host's and confined corridors is not in the fingerprint, and need not be: what no one
  seals is answered by the last corridor that does, wherever the split is (`WholeHitIs`).
  A confined chain is severed, and the levels it descends to are reached through its
  corridors and so have no doors but theirs (`ReachedIs`), which every step but the one
  excepted keeps (`KeptStep`).
- *SubRequests.* An invocation that asks one by one awaits the request under way, which is
  the next of its kids; each branch of a fan-out arrives once, so when as many have arrived
  as there are, they are all. A drop takes a whole task, which is closed under who awaits
  whom, so no live caller is left with a callee that is gone.
- *Delegation.* The scopes themselves are bounded by the minted ones, exclusions
  included, because a clamp may put the ceiling's principal back.
- *ContentStore.* Each count is the cardinality of the live handles of that holder, by
  the theorems on finite sets, and the bytes accounted for are a tally of one term per
  content, of which a step changes one.
- *Streams.* What a reader has put out, what its decoder holds back and what it has not
  read yet make up the body; of a range, the body from where it starts, while more is
  wanted. For a text what was put out ends where a whole sequence ends (`TextRead`), so
  that what is held back begins one, and a text that is refused at a chunk would have been
  refused whole (`AdmitRejoins`, `RefusedIsNoText`). To be able to reason about the decoder
  the positions it comes to are not a recursion but the least set that is closed under
  going on by one whole sequence. What readers hold and what is left make up the pool.
- *Delivery.* Steps of one component stutter in the other, and both invariants together
  bound what is read.

**Only model-checked.** `DeclarationsHold` and `NamesReadBack`, whose modules are
recursive over documents and texts; liveness (`DriveSettles`, `NoLostWakeup`,
`EverythingIsAnswered`), which is out of the prover's reach, as is anything with
`ENABLED`.

## 6. What is not modelled

- *No state and no decision of the kernel:* the generated vocabulary, the builtins, the
  graph renderings of the cache and the spaces, tracing and the forms answers take on
  the wire, `redirect.rs`, the parsing of IRIs, verbs, errors and media types.
- *`uncached.rs`*, a ring of notes about answers that were not stored.
- *In modelled parts:* sub-requests under a narrowed capability
  (`issue_attenuated`): every `Call` of `KernelIssue` has its issuer's capability, and
  narrowing is modelled where it is decided (`Delegation`, `RunBudgets`); the provenance an
  answer carries from a pipe, which `LookupEntry` of `ReprCache` does not keep; the length of
  the variables in a template, by which the alias table orders rules too
  (`Aliases.Precedes` compares literal text); an untyped required input in
  `Selection.Satisfiable`, which counts as filled there; `existence_sensitive` of a declared
  door, which comes from the description of what it binds; panics that poison a lock; memory ordering, which is
  sequentially consistent here, as the release and acquire pairs around `cut_seq` and
  the listener count give for the reads the properties are about; the scope test of
  `listen`; collisions of cell names and the host's checks on a built space
  (`declare.rs`); catalog walks over stream names; `held_to_contract` of an alias; a
  template's multi-byte characters; repeated runs over one cache in `Arguments`, whose
  budget refuses at any time.
- *Two hazards have no property:* that a refusal of a budget may be spurious while
  another take is being undone, which the code allows; and that wakers are woken with no
  lock held, which holds by the shape of the model.

## 7. What is left

1. `KernelIssue` composed with `CoherentCache` in place of its own exact log, by
   refinement.
2. Read-outs: `uncached.rs`, and the scope test of `listen`.
3. Declarations with the host's seal and alias checks on what was built, which composes
   `Declarations` with `Chains` and `Aliases`.
