---------------------------- MODULE CdnAllowlist ----------------------------
(***************************************************************************)
(* cdn_allowlist_update.py, once a day: the addresses of the feed of       *)
(* botnets that lie in ranges of the big providers replace the contents of *)
(* a reference set of QRadar: purge, then one bulk load.                   *)
(*                                                                         *)
(* Addresses are small numbers, ranges pairs of them.                      *)
(***************************************************************************)
EXTENDS Host, Integers, Sequences, FiniteSets

CONSTANTS
    Provider,       \* names of PROVIDERS
    RangesOf(_),    \* what a provider publishes: a set of pairs
    StaticRanges,   \* cdn_allowlist_static_cidrs, if configured
    FeedAddress,    \* what may be in the feed
    MaxIps,         \* cdn_allowlist_max_ips
    MaxCdnFailures

Published == UNION {RangesOf(p) : p \in Provider}
Fronts == Published \cup StaticRanges

ASSUME CdnAssumption == MaxIps \in Nat /\ MaxCdnFailures \in Nat
ASSUME RangeAssumption ==
    /\ Fronts \subseteq Nat \X Nat /\ IsFiniteSet(Fronts)
    /\ FeedAddress \subseteq Nat /\ IsFiniteSet(FeedAddress)

VARIABLES
    cdn,        \* where the run is
    cdnDue,     \* the run of the day is still to come
    feed,       \* the feed of botnets, as it is
    target,     \* the reference set of allowed addresses
    ranges,     \* sorted ranges of the run
    read,       \* the feed as the last run read it
    allow,      \* what the run wants to load
    failures

cdnVars == <<cdn, cdnDue, feed, target, ranges, read, allow, failures>>

CdnInit ==
    /\ cdn = "idle" /\ cdnDue = TRUE
    /\ feed = {} /\ target = {} /\ ranges = <<>> /\ read = {} /\ allow = {}
    /\ failures = 0

-----------------------------------------------------------------------------
(***************************************************************************)
(* Ranges: sorted by their first address; bisect finds the last range that *)
(* begins at or before the address, and the search goes back from there.   *)
(***************************************************************************)
Before(r, s) == r[1] < s[1] \/ (r[1] = s[1] /\ r[2] <= s[2])

\* The elements of a set of ranges, each once and in order.
IsSorted(list, set) ==
    /\ {list[i] : i \in DOMAIN list} = set
    /\ \A i, j \in DOMAIN list : i < j => Before(list[i], list[j])

Bisect(ip, sorted) == Cardinality({i \in DOMAIN sorted : sorted[i][1] <= ip})

InRanges(ip, sorted) == \E i \in 1 .. Bisect(ip, sorted) : ip <= sorted[i][2]

Within(ip, set) == \E r \in set : r[1] <= ip /\ ip <= r[2]

-----------------------------------------------------------------------------
FeedChanges(a) ==
    /\ feed' = IF a \in feed THEN feed \ {a} ELSE feed \cup {a}
    /\ UNCHANGED <<cdn, cdnDue, target, ranges, read, allow, failures>>

NextCdnDay ==
    /\ cdn = "idle" /\ ~cdnDue
    /\ cdnDue' = TRUE
    /\ UNCHANGED <<cdn, feed, target, ranges, read, allow, failures>>

Failure == failures < MaxCdnFailures /\ failures' = failures + 1

\* A provider that does not answer is skipped; config.json, read by every run, may lack
\* the static ranges.  Either counts as a failure of the run.
CollectCidrs(answered, static) ==
    /\ cdn = "idle" /\ cdnDue
    /\ cdnDue' = FALSE
    /\ IF answered = Provider /\ static = StaticRanges THEN UNCHANGED failures ELSE Failure
    /\ LET set == static \cup UNION {RangesOf(p) : p \in answered} IN
        \E list \in [1..Cardinality(set) -> set] : IsSorted(list, set) /\ ranges' = list
    /\ cdn' = "collected"
    /\ UNCHANGED <<feed, target, read, allow>>

LeaveRun == cdn' = "idle" /\ ranges' = <<>> /\ allow' = {}

NoRanges ==
    /\ cdn = "collected" /\ ranges = <<>>
    /\ LeaveRun /\ UNCHANGED <<cdnDue, feed, target, read, failures>>

Intersect ==
    /\ cdn = "collected" /\ ranges # <<>>
    /\ read' = feed
    /\ allow' = {a \in feed : InRanges(a, ranges)}
    /\ cdn' = "checked"
    /\ UNCHANGED <<cdnDue, feed, target, ranges, failures>>

TooMany == Cardinality(allow) > MaxIps

Refuse ==
    /\ cdn = "checked" /\ TooMany
    /\ LeaveRun /\ UNCHANGED <<cdnDue, feed, target, read, failures>>

PurgeWrongNever ==
    /\ cdn = "checked" /\ ~TooMany
    /\ cdn' = "purged"
    /\ UNCHANGED <<cdnDue, feed, target, ranges, read, allow, failures>>

\* ensure_set and purge_set; what QRadar answers is only logged.
Purge ==
    /\ cdn = "checked" /\ ~TooMany
    /\ \/ target' = {} /\ UNCHANGED failures
       \/ Failure /\ UNCHANGED target
    /\ cdn' = "purged"
    /\ UNCHANGED <<cdnDue, feed, ranges, read, allow>>

\* bulk_load adds; with nothing to load it is not called.
BulkLoad ==
    /\ cdn = "purged"
    /\ target' = target \cup allow
    /\ LeaveRun /\ UNCHANGED <<cdnDue, feed, read, failures>>

\* A request that raises, or a kill.
CdnFails ==
    /\ cdn # "idle" /\ Failure
    /\ LeaveRun /\ UNCHANGED <<cdnDue, feed, target, read>>

CdnStep ==
    \/ \E answered \in SUBSET Provider, static \in {{}, StaticRanges} : CollectCidrs(answered, static)
    \/ NoRanges \/ Intersect \/ Refuse \/ Purge \/ BulkLoad

CdnNext == (\E a \in FeedAddress : FeedChanges(a)) \/ NextCdnDay \/ CdnStep \/ CdnFails

\* While the program is on, the timer fires and a run goes on until it ends or fails.
CdnFairness == WF_cdnVars(Runs("cdn") /\ NextCdnDay) /\ WF_cdnVars(Runs("cdn") /\ CdnStep)

-----------------------------------------------------------------------------
\* The shape of the state; the list never holds more than the run may load, plus what a
\* refused purge left.
CdnTypeOK ==
    /\ cdn \in {"idle", "collected", "checked", "purged"} /\ cdnDue \in BOOLEAN
    /\ feed \subseteq FeedAddress /\ target \subseteq FeedAddress /\ read \subseteq FeedAddress
    /\ ranges \in Seq(Fronts)
    /\ allow \subseteq read /\ (cdn = "purged" => Cardinality(allow) <= MaxIps)
    /\ failures \in 0..MaxCdnFailures

\* Overlapping ranges or not, bisect finds the addresses that lie in one of them.
IntersectionExact ==
    cdn = "checked" => allow = {a \in read : Within(a, {ranges[i] : i \in DOMAIN ranges})}

\* Whatever fails, nothing but addresses of the providers gets onto the list, which
\* would hide the traffic of a real botnet.
OnlyFrontsAllowed == \A a \in target : Within(a, Fronts)

\* The list recovers: again and again it is the whole intersection with the feed that
\* the last run read, or that has become too large to be loaded.
ListRecovers ==
    []<>(/\ cdn = "idle"
         /\ LET fronts == {a \in read : Within(a, Fronts)} IN
            target = fronts \/ Cardinality(fronts) > MaxIps)
=============================================================================
