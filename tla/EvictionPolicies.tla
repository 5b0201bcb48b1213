--------------------------- MODULE EvictionPolicies ---------------------------
(***************************************************************************)
(* The bound of the representation cache (cache.rs) and the policies that  *)
(* keep it: least recently served, oldest, least value per byte, scan      *)
(* resistant, and budgets per name prefix, built from a host's [cache]     *)
(* table (cache_config.rs).                                                *)
(*                                                                         *)
(* A policy is a function from partitions to plain policies: a cache that  *)
(* is not partitioned has the rest alone, whose bound is the cache's, and  *)
(* over it the partitioned policy decides what the plain one does.         *)
(* The whole of a store runs under the cache's mutex, so it is one action. *)
(***************************************************************************)
EXTENDS Tallies

CONSTANTS
    Keys,       \* cache keys
    RequestOf,  \* RequestOf[k]: the request key k was computed for
    ClaimedBy,  \* ClaimedBy[k]: the prefixes the target of k starts with
    PrefixLength, \* PrefixLength[p]: the length of prefix p
    CellsOf,    \* CellsOf[q]: the counters of the sketch that request q hashes to
    CountMax,   \* the largest count a counter of the sketch holds
    Sample,     \* increments between two halvings of the sketch
    Sizes, Costs, Tables, Played, MaxTick, Unset

Rest == "rest"

\* A table gives numbers, and finitely many prefixes a share of them.
TableOf(t) ==
    /\ t.maxEntries \in Nat /\ t.maxBytes \in Nat
    /\ IsFiniteSet(DOMAIN t.parts) /\ Rest \notin DOMAIN t.parts
    /\ \A p \in DOMAIN t.parts : /\ t.parts[p].maxBytes \in Nat
                                 /\ t.parts[p].maxEntries \in Nat \cup {Unset}
                                 /\ PrefixLength[p] \in Nat

PolicyAssumption ==
    /\ Sample \in Nat \ {0} /\ CountMax \in Nat /\ MaxTick \in Nat
    /\ Sizes \subseteq Nat /\ Costs \subseteq Nat \cup {Unset}
    /\ \A k \in Keys : CellsOf[RequestOf[k]] # {}
    /\ \A t \in Tables : TableOf(t)

NoPolicy == [p \in {} |-> Unset]
RequestsCounted == {RequestOf[k] : k \in Keys}
Cells == UNION {CellsOf[q] : q \in RequestsCounted}

VARIABLES
    table,    \* the [cache] table
    policy,   \* the policy it describes, or NoPolicy
    resident,  \* resident[k]: the resident entry under key k
    bytes,    \* the cache's own count of resident bytes
    tick,
    sketch,   \* sketch[p]: the counters of partition p, and increments since halving
    wanted    \* history: how often each request was computed, halved with the sketch

policyVars == <<table, policy, resident, bytes, tick, sketch, wanted>>

-------------------------------------------------------------------------------
(* From a [cache] table to a policy.                                       *)

Plain(kind, maxEntries, maxBytes, percent) ==
    [kind |-> kind, maxEntries |-> maxEntries, maxBytes |-> maxBytes, percent |-> percent]

DefaultPercent == 80
PercentOf(given) == IF given = Unset THEN DefaultPercent ELSE given

\* policy(): a share is scan-resistant's alone, and between 1 and 99.
Names(kind, percent) ==
    /\ kind \in {"lru", "fifo", "cost-aware", "scan-resistant"}
    /\ percent # Unset => kind = "scan-resistant" /\ percent \in 1 .. 99

KindIn(t, part) == IF part.kind = Unset THEN t.kind ELSE part.kind
PercentIn(t, part) ==
    IF part.percent = Unset /\ KindIn(t, part) = "scan-resistant" THEN t.percent ELSE part.percent
AtLeastOne(n) == IF n < 1 THEN 1 ELSE n
EntriesIn(t, part) ==
    IF part.maxEntries = Unset THEN AtLeastOne((t.maxEntries * part.maxBytes) \div t.maxBytes)
                              ELSE part.maxEntries

SaturatingSub(a, b) == IF a < b THEN 0 ELSE a - b

\* What the partitions leave to the names no prefix claims.
WholeAsRest(t) == [maxEntries |-> t.maxEntries, maxBytes |-> t.maxBytes]
LeftOver(t) ==
    [maxEntries |-> SaturatingSub(t.maxEntries,
                        Tally(DOMAIN t.parts, [p \in DOMAIN t.parts |-> EntriesIn(t, t.parts[p])])),
     maxBytes |-> SaturatingSub(t.maxBytes,
                      Tally(DOMAIN t.parts, [p \in DOMAIN t.parts |-> t.parts[p].maxBytes]))]

\* CacheConfig::to_policy: the policy, or a refusal.  A prefix given twice or
\* empty is refused too: the partitions of a table are a function of prefixes.
ToPolicy(t) ==
    IF ~ /\ t.maxEntries > 0 /\ t.maxBytes > 0
         /\ Names(t.kind, t.percent)
         /\ \A p \in DOMAIN t.parts :
              /\ t.parts[p].maxBytes > 0
              /\ t.parts[p].maxEntries # Unset => t.parts[p].maxEntries > 0
              /\ Names(KindIn(t, t.parts[p]), PercentIn(t, t.parts[p]))
         /\ DOMAIN t.parts # {} => LeftOver(t).maxEntries > 0 /\ LeftOver(t).maxBytes > 0
    THEN NoPolicy
    ELSE [p \in DOMAIN t.parts \cup {Rest} |->
            IF p = Rest
            THEN Plain(t.kind, LeftOver(t).maxEntries, LeftOver(t).maxBytes, PercentOf(t.percent))
            ELSE Plain(KindIn(t, t.parts[p]), EntriesIn(t, t.parts[p]), t.parts[p].maxBytes,
                       PercentOf(PercentIn(t, t.parts[p])))]

-------------------------------------------------------------------------------
(* Partitions.  Everything below reads a function f from keys to resident.  *)

\* The longest prefix that claims a key, or the rest.
PartitionOf(k) ==
    LET claims == ClaimedBy[k] \cap (DOMAIN policy \ {Rest})
    IN IF claims = {} THEN Rest
       ELSE CHOOSE p \in claims : \A q \in claims : PrefixLength[q] <= PrefixLength[p]

MembersOfAll(p, f) == DOMAIN f
Members(p, f) == {k \in DOMAIN f : PartitionOf(k) = p}
Restricted(f, S) == [k \in S |-> f[k]]
BytesOf(f, S) == Tally(S, [k \in S |-> f[k].bytes])

\* How far a partition is over its bound: bytes first, then resident.
Over(p, f) == \/ Cardinality(Members(p, f)) > policy[p].maxEntries
              \/ BytesOf(f, Members(p, f)) > policy[p].maxBytes
ExcessBytes(p, f) == SaturatingSub(BytesOf(f, Members(p, f)), policy[p].maxBytes)
ExcessEntries(p, f) == SaturatingSub(Cardinality(Members(p, f)), policy[p].maxEntries)
NoLessOver(p, q, f) ==
    \/ ExcessBytes(p, f) > ExcessBytes(q, f)
    \/ ExcessBytes(p, f) = ExcessBytes(q, f) /\ ExcessEntries(p, f) >= ExcessEntries(q, f)
Overflowing(f) == {p \in DOMAIN policy : Over(p, f)}
Furthest(f) == CHOOSE p \in Overflowing(f) : \A q \in Overflowing(f) : NoLessOver(p, q, f)

-------------------------------------------------------------------------------
(* The plain policies: which of the members goes.                          *)

LeastRecent(f, S) == CHOOSE k \in S : \A j \in S : f[k].used <= f[j].used
Oldest(f, S) == CHOOSE k \in S : \A j \in S : f[k].stored <= f[j].stored

\* Milliseconds of computing per KiB held, times one plus the hits.
Density(e) ==
    ((IF e.cost = Unset THEN 0 ELSE e.cost) * 1024 * (e.hits + 1)) \div AtLeastOne(e.bytes)
LeastValuable(f, S) ==
    IF \A k \in S : f[k].cost = Unset THEN LeastRecent(f, S)
    ELSE CHOOSE k \in S : \A j \in S :
            \/ Density(f[k]) < Density(f[j])
            \/ Density(f[k]) = Density(f[j]) /\ f[k].used <= f[j].used

Protected(f, S) == {k \in S : f[k].hits > 0}
Share(p, whole) == (whole * policy[p].percent) \div 100
ProtectedOver(p, f, S) ==
    \/ Cardinality(Protected(f, S)) > Share(p, policy[p].maxEntries)
    \/ BytesOf(f, Protected(f, S)) > Share(p, policy[p].maxBytes)

\* Hits per tick resident, compared without division; of equals the least recent.
Latest(f, S) == CHOOSE u \in {f[j].used : j \in S} : \A j \in S : f[j].used <= u
Residence(f, S, k) == Latest(f, S) - f[k].stored + 1
NoMoreWanted(f, S, k, j) ==
    LET mine == f[k].hits * Residence(f, S, j)
        other == f[j].hits * Residence(f, S, k)
    IN mine < other \/ (mine = other /\ f[k].used <= f[j].used)

LeastRecentOfAll(p, f, S) == LeastRecent(f, S)
\* The least recent entry never served, while those served keep to their share.
ScanVictim(p, f, S) ==
    IF S \ Protected(f, S) # {} /\ ~ProtectedOver(p, f, S)
    THEN LeastRecent(f, S \ Protected(f, S))
    ELSE CHOOSE k \in Protected(f, S) :
            \A j \in Protected(f, S) : NoMoreWanted(f, S, k, j)

Victim(p, f, S) ==
    CASE policy[p].kind = "lru" -> LeastRecent(f, S)
      [] policy[p].kind = "fifo" -> Oldest(f, S)
      [] policy[p].kind = "cost-aware" -> LeastValuable(f, S)
      [] policy[p].kind = "scan-resistant" -> ScanVictim(p, f, S)

-------------------------------------------------------------------------------
(* The sketch of the scan-resistant policy.                                *)

Estimate(s, q) == CHOOSE n \in {s.counters[c] : c \in CellsOf[q]} :
                        \A c \in CellsOf[q] : n <= s.counters[c]
Frequency(s, q, hits) == Estimate(s, q) + hits

OneMore(count) == IF count < CountMax THEN count + 1 ELSE CountMax

BumpOne(counters, q) ==
    LET first == CHOOSE c \in CellsOf[q] : TRUE
    IN [counters EXCEPT ![first] = OneMore(@)]
Bump(counters, q) ==
    [c \in Cells |-> IF c \in CellsOf[q] THEN OneMore(counters[c]) ELSE counters[c]]
Halve(counts) == [c \in DOMAIN counts |-> counts[c] \div 2]
Due(s) == s.additions + 1 >= Sample
Incremented(s, q) ==
    IF Due(s) THEN [counters |-> Halve(Bump(s.counters, q)), additions |-> 0]
              ELSE [counters |-> Bump(s.counters, q), additions |-> s.additions + 1]

-------------------------------------------------------------------------------
(* The cache under its policy.                                             *)

PolicyInit ==
    /\ table \in Tables
    /\ policy = ToPolicy(table)
    /\ resident = [k \in {} |-> Unset]
    /\ bytes = 0 /\ tick = 0
    /\ sketch = [p \in DOMAIN table.parts \cup {Rest} |->
                    [counters |-> [c \in Cells |-> 0], additions |-> 0]]
    /\ wanted = [p \in DOMAIN table.parts \cup {Rest} |-> [q \in RequestsCounted |-> 0]]

\* A policy may keep its residents rather than store what would displace one.
HasRoom(p, size) == /\ Cardinality(Members(p, resident)) < policy[p].maxEntries
                 /\ BytesOf(resident, Members(p, resident)) + size <= policy[p].maxBytes
Contest(p, k, size) ==
    LET S == Members(p, resident)
        victim == Victim(p, resident, S)
    IN /\ ~HasRoom(p, size) /\ policy[p].kind = "scan-resistant" /\ S # {}
       /\ resident[victim].hits = 0
       => Frequency(sketch'[p], RequestOf[k], 0)
                > Frequency(sketch'[p], RequestOf[victim], resident[victim].hits)

\* What the eviction of one entry leaves of f, when only those in S are left.
Rid(f, S) ==
    LET now == Restricted(f, S)
        p == Furthest(now)
    IN S \ {Victim(p, now, Members(p, now))}

\* Evict until every bound is met: what is left of f.  The count of bytes is
\* reduced by one entry at a time, and no further than to nothing.
RemainingOnce(f) == IF Overflowing(f) = {} THEN DOMAIN f ELSE Rid(f, DOMAIN f)
Remaining(f) ==
    LET left[S \in SUBSET DOMAIN f] ==
            IF Overflowing(Restricted(f, S)) = {} THEN S ELSE left[Rid(f, S)]
    IN left[DOMAIN f]

Added(k, size) == bytes + size
\* The bytes once a new entry is in the place of the one its key had.
Replaced(k, size) ==
    SaturatingSub(bytes, IF k \in DOMAIN resident THEN resident[k].bytes ELSE 0) + size

Slot(size, cost) ==
    [bytes |-> size, cost |-> cost, hits |-> 0, stored |-> tick + 1, used |-> tick + 1]

Playing == table \in Played /\ policy # NoPolicy /\ tick < MaxTick

Store(k, size, cost) ==
    /\ Playing
    /\ tick' = tick + 1
    /\ LET p == PartitionOf(k)
           q == RequestOf[k]
           scans == policy[p].kind = "scan-resistant"
           counted == [wanted[p] EXCEPT ![q] = OneMore(@)]
           with == [j \in DOMAIN resident \cup {k} |->
                        IF j = k THEN Slot(size, cost) ELSE resident[j]]
       IN /\ sketch' = IF scans THEN [sketch EXCEPT ![p] = Incremented(@, q)] ELSE sketch
          /\ wanted' = IF ~scans THEN wanted
                       ELSE [wanted EXCEPT ![p] = IF Due(sketch[p]) THEN Halve(counted)
                                                                    ELSE counted]
          /\ IF size <= policy[p].maxBytes /\ (k \notin DOMAIN resident => Contest(p, k, size))
             THEN /\ resident' = Restricted(with, Remaining(with))
                  /\ bytes' = SaturatingSub(Replaced(k, size), BytesOf(with, DOMAIN with \ Remaining(with)))
             ELSE UNCHANGED <<resident, bytes>>
    /\ UNCHANGED <<table, policy>>

\* A read served from a live entry.
Serve(k) ==
    /\ Playing /\ k \in DOMAIN resident
    /\ tick' = tick + 1
    /\ resident' = [resident EXCEPT ![k].hits = @ + 1, ![k].used = tick + 1]
    /\ UNCHANGED <<table, policy, bytes, sketch, wanted>>

\* A read finds the entry stale, or a revalidation gives it up.
Remove(k) ==
    /\ Playing /\ k \in DOMAIN resident
    /\ resident' = Restricted(resident, DOMAIN resident \ {k})
    /\ bytes' = SaturatingSub(bytes, resident[k].bytes)
    /\ UNCHANGED <<table, policy, tick, sketch, wanted>>

PolicyNext == \E k \in Keys :
    \/ \E size \in Sizes, cost \in Costs : Store(k, size, cost)
    \/ Serve(k)
    \/ Remove(k)

PolicySpec == PolicyInit /\ [][PolicyNext]_policyVars

-------------------------------------------------------------------------------
\* What a table describes adds up: with every partition's budget taken out of the
\* whole nothing is left without a budget, and the parts are the whole.
TablesAddUp ==
    policy # NoPolicy =>
        /\ \A p \in DOMAIN policy : policy[p].maxEntries > 0 /\ policy[p].maxBytes > 0
        /\ table.maxEntries = Tally(DOMAIN policy, [p \in DOMAIN policy |-> policy[p].maxEntries])
        /\ table.maxBytes = Tally(DOMAIN policy, [p \in DOMAIN policy |-> policy[p].maxBytes])

\* After any sequence of stores, replacements by larger answers, hits and removals
\* every partition is within its own bound, and the cache's count of bytes is the
\* bytes it holds, which no saturating subtraction has hidden.
KeepsItsBounds ==
    policy # NoPolicy =>
        /\ Overflowing(resident) = {}
        /\ bytes = BytesOf(resident, DOMAIN resident)

\* What a step takes of the residents, and what it leaves as it was.
GivenUp == DOMAIN resident \ DOMAIN resident'
LeftAlone(j) == j \in DOMAIN resident \cap DOMAIN resident' /\ resident'[j].stored = resident[j].stored

\* What one partition holds never depends on another: a store in one takes no
\* entry of another, however full either is.  And a scan leaves what is used over
\* and over alone: a scan-resistant partition gives up an entry that was served
\* only when those served are over their share.  The entry a new answer replaces
\* is none that is given up: the answer itself is, when there is no room for it.
GivesUpIn(k) ==
    /\ \A j \in DOMAIN resident' \ {k} : LeftAlone(j)
    /\ \A j \in GivenUp \ {k} :
          LET p == PartitionOf(j)
          IN /\ p = PartitionOf(k)
             /\ policy[p].kind = "scan-resistant" /\ resident[j].hits > 0
                => ProtectedOver(p, resident, Members(p, resident))

\* The sketch errs upward only: no request is taken to be wanted less often than
\* it was computed, counts halved alike, whatever it collides with.
NeverUndercounts ==
    \A p \in DOMAIN sketch : \A q \in RequestsCounted : Estimate(sketch[p], q) >= wanted[p][q]

\* The bounds of the cache are kept, under every policy its tables describe.
CacheBounded == TablesAddUp /\ KeepsItsBounds /\ NeverUndercounts

\* What a policy gives up for a new entry is of the entry's own partition, and a
\* served entry only when the served are over their share (evict, ScanResistant).
EvictsWhatItMay == [][tick' # tick => \E k \in Keys : GivesUpIn(k)]_policyVars
===============================================================================
