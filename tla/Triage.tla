------------------------------- MODULE Triage -------------------------------
(***************************************************************************)
(* One offense under /process-one of app.py: the decision pipeline from    *)
(* the query of the events to the note, the unblocking of its address and  *)
(* the automatic close, run by several handlers (gunicorn has several      *)
(* processes, and is_manual and force go past the "currently processing"   *)
(* check) any of which may die between two awaits.                         *)
(*                                                                         *)
(* Scores are tenths.  Of a verdict's text only what the guard looks for   *)
(* is kept: whether it says "compromise".  Of the events only whether      *)
(* there are any.  The retries of tier-1 and the window of the query       *)
(* change no state and are part of the call they belong to.                *)
(*                                                                         *)
(* A handler is at one of                                                  *)
(*   idle     no request                                                   *)
(*   begin    has SELECTed the row and will analyse                        *)
(*   look     status PROCESSING is committed; asks QRadar for the offense  *)
(*   match    has the offense; asks for the names of its rules             *)
(*   query    runs the AQL of every matched use case                       *)
(*   generic  runs default.aql because the others returned nothing         *)
(*   tier1, tier2   asks a model                                           *)
(*   clean, note, act, record   carries out `fate`                         *)
(***************************************************************************)
EXTENDS Integers, FiniteSets, Sequences

CONSTANTS
    Run,                \* handlers of /process-one
    Request,            \* the requests they get, see RequestType
    Case,               \* offenses to consider, see CaseType
    Score,              \* the scores models give, in tenths
    Aql,                \* AQL files
    DefaultAql,         \* default.aql
    CloseMax,           \* 0.6, a literal in the code
    ScoreFloor,         \* COMPROMISE_SCORE_FLOOR
    CleanupMax,         \* refset_cleanup_max_score
    EscalateThreshold, EscalateEnabled,
    RequiresTier2,      \* refset_cleanup_requires_tier2
    FallbackToDefault,  \* fallback_to_default_aql
    MaxLenses,          \* max_aql_lenses_per_offense
    NoVerdict,          \* no verdict yet
    Provider,
    NoProvider,         \* a provider key left empty
    Primary, Manual, Fallback, Heavy,   \* ai_provider, ai_manual_provider, ai_fallback, escalate_provider
    MaxFaults           \* bound: handlers that die, offense look-ups that fail

RequestType == [manual: BOOLEAN, force: BOOLEAN]

(***************************************************************************)
(* A lens is a use case the offense matches: its AQL, its close_on_empty   *)
(* flag, and whether only the name of a contributing rule matches (such    *)
(* lenses come after those the description matches).                       *)
(***************************************************************************)
Lens == [aql: Aql, close: BOOLEAN, byRule: BOOLEAN]

CaseType == [lenses: Seq(Lens), damaged: BOOLEAN, candidate: BOOLEAN, assignee: BOOLEAN]

Verdict == [score: Nat, compromise: BOOLEAN, mitigated: BOOLEAN]

Answer == [score: Score, compromise: BOOLEAN, mitigated: BOOLEAN]

ASSUME RequestAssumption == Request \subseteq RequestType
ASSUME CaseAssumption == Case \subseteq CaseType
ASSUME ScoreAssumption ==
    /\ Score \subseteq Nat
    /\ CloseMax \in Nat /\ ScoreFloor \in Nat /\ CleanupMax \in Nat /\ EscalateThreshold \in Nat
    /\ CloseMax < ScoreFloor
\* config_schema.py:123-125: the unblocking threshold is lower than that of closing.
ASSUME ThresholdAssumption == CleanupMax <= CloseMax
ASSUME SwitchAssumption ==
    /\ EscalateEnabled \in BOOLEAN /\ RequiresTier2 \in BOOLEAN /\ FallbackToDefault \in BOOLEAN
    /\ MaxLenses \in Nat /\ MaxFaults \in Nat
ASSUME ProviderAssumption ==
    /\ Primary \in Provider /\ Heavy \in Provider
    /\ {Manual, Fallback} \subseteq Provider \cup {NoProvider}
    /\ NoProvider \notin Provider
ASSUME NoVerdictAssumption == NoVerdict \notin Verdict
ASSUME DefaultAqlAssumption == DefaultAql \in Aql

VARIABLES
    offense,    \* the offense as QRadar reports it; does not change
    status,     \* offenses.status, "absent" without a row
    fresh,      \* the row is younger than PROCESSING_STALE_MINUTES
    stored,     \* score and verdict in the row
    rulesMap,   \* RULES_MAP_CACHE: "none", "known", or "unknown" when {} was cached
    open,       \* the offense is OPEN in QRadar
    blocked,    \* its address is in the block-list
    faults,
    pc, req,    \* per handler
    known,      \* rule names were available when the lenses were matched
    found,      \* result of every AQL file run
    generic,    \* the evidence comes from default.aql after the others were empty
    verdict, author,        \* the verdict that counts, and the provider that gave it
    guard,      \* guard_note is not empty
    fate,       \* what the run came to
    deeds,      \* what this run did to the offense
    reply       \* what the caller was told

durable == <<offense, status, fresh, stored, rulesMap, open, blocked, faults>>
mind == <<known, found, generic, verdict, author, guard, fate>>
vars == <<durable, pc, req, mind, deeds, reply>>

-----------------------------------------------------------------------------
(***************************************************************************)
(* Which queries an offense gets.                                          *)
(***************************************************************************)
Matched(k) == {i \in 1..Len(offense.lenses) : k \/ ~offense.lenses[i].byRule}

FirstUses(k) ==
    {i \in Matched(k) :
        \A j \in Matched(k) : j < i => offense.lenses[j].aql # offense.lenses[i].aql}

Truncated(k) == Cardinality(FirstUses(k)) > MaxLenses

\* The files to run: those of the matched lenses without repetition, cut to
\* the first MaxLenses, or the default file.
Plan(k) ==
    IF Matched(k) = {} THEN (IF MaxLenses = 0 THEN {} ELSE {DefaultAql})
    ELSE {offense.lenses[i].aql :
            i \in {i \in FirstUses(k) : Cardinality({j \in FirstUses(k) : j < i}) < MaxLenses}}

\* Variants named ...Wrong... are slips the properties must notice; no definition
\* of the model uses them.
CloseOnEmptyWrongCount(k) ==
    IF Cardinality(Plan(k)) > 1
    THEN (\A i \in Matched(k) : offense.lenses[i].close) /\ ~Truncated(k)
    ELSE \E i \in Matched(k) :
            /\ offense.lenses[i].close
            /\ \A j \in Matched(k) : i <= j

CloseOnEmpty(k) ==
    IF Cardinality(Matched(k)) > 1
    THEN (\A i \in Matched(k) : offense.lenses[i].close) /\ ~Truncated(k)
    ELSE \E i \in Matched(k) : offense.lenses[i].close

(***************************************************************************)
(* enforce_compromise_guard                                                *)
(***************************************************************************)
GuardFiresWrongMitigated(v) == v.compromise /\ v.score <= CloseMax

GuardFires(v) == v.compromise /\ (v.mitigated \/ v.score <= CloseMax)

Guarded(v) ==
    IF GuardFires(v)
    THEN [v EXCEPT !.mitigated = FALSE,
                   !.score = IF @ < ScoreFloor THEN ScoreFloor ELSE @]
    ELSE v

FirstProviderWrongEmpty(q) == IF q.manual THEN Manual ELSE Primary

FirstProvider(q) == IF q.manual /\ Manual # NoProvider THEN Manual ELSE Primary

HasFallback(q) == Fallback # NoProvider /\ Fallback # FirstProvider(q)

-----------------------------------------------------------------------------
Statuses == {"absent", "PROCESSING", "PROCESSED", "DAMAGED", "AQL_ERROR", "NO_EVENTS",
             "AI_ERROR", "QRADAR_UNAVAILABLE"}
Places == {"idle", "begin", "look", "match", "query", "generic", "tier1", "tier2",
           "clean", "note", "act", "record"}
Fates == {"none", "DAMAGED", "AQL_ERROR", "NO_EVENTS", "AI_ERROR", "EMPTY", "VERDICT"}
Replies == {"none", "skipped", "busy", "404", "retry", "error", "closed", "success", "lost"}
Deeds == {"noted", "removed", "closed", "assigned"}
Results == {"rows", "empty", "failed"}

NoResults == [a \in {} |-> "empty"]

Init ==
    /\ offense \in Case
    /\ status = "absent" /\ fresh = TRUE /\ stored = NoVerdict
    /\ rulesMap = "none"
    /\ open = TRUE /\ blocked = offense.candidate
    /\ faults = 0
    /\ pc = [r \in Run |-> "idle"]
    /\ req \in [Run -> Request]
    /\ known = [r \in Run |-> FALSE]
    /\ found = [r \in Run |-> NoResults]
    /\ generic = [r \in Run |-> FALSE]
    /\ verdict = [r \in Run |-> NoVerdict]
    /\ author = [r \in Run |-> NoProvider]
    /\ guard = [r \in Run |-> FALSE]
    /\ fate = [r \in Run |-> "none"]
    /\ deeds = [r \in Run |-> {}]
    /\ reply = [r \in Run |-> "none"]

Goto(r, from, to) == pc[r] = from /\ pc' = [pc EXCEPT ![r] = to]

Answered(r, a) == reply' = [reply EXCEPT ![r] = a]

Does(r, deed) == deeds' = [deeds EXCEPT ![r] = @ \cup {deed}]

(***************************************************************************)
(* The door: SELECT, then INSERT OR REPLACE.  SQLite opens the transaction *)
(* at the INSERT, so another process may get in between.                   *)
(***************************************************************************)
Blocks(q, s) ==
    IF q.manual \/ q.force THEN "none"
    ELSE IF s = "PROCESSED" THEN "skipped"
    ELSE IF s = "PROCESSING" /\ fresh THEN "busy"
    ELSE "none"

Arrive(r, q) ==
    LET turnedAway == Blocks(q, status) IN
    /\ Goto(r, "idle", IF turnedAway = "none" THEN "begin" ELSE "idle")
    /\ req' = [req EXCEPT ![r] = q]
    /\ Answered(r, turnedAway)
    /\ deeds' = [deeds EXCEPT ![r] = {}]
    /\ known' = [known EXCEPT ![r] = FALSE]
    /\ found' = [found EXCEPT ![r] = NoResults]
    /\ generic' = [generic EXCEPT ![r] = FALSE]
    /\ verdict' = [verdict EXCEPT ![r] = NoVerdict]
    /\ author' = [author EXCEPT ![r] = NoProvider]
    /\ guard' = [guard EXCEPT ![r] = FALSE]
    /\ fate' = [fate EXCEPT ![r] = "none"]
    /\ UNCHANGED durable

Begin(r) ==
    /\ Goto(r, "begin", "look")
    /\ status' = "PROCESSING" /\ fresh' = TRUE /\ stored' = NoVerdict
    /\ UNCHANGED <<offense, rulesMap, open, blocked, faults, req, mind, deeds, reply>>

Look(r) ==
    /\ Goto(r, "look", IF offense.damaged THEN "record" ELSE "match")
    /\ fate' = [fate EXCEPT ![r] = IF offense.damaged THEN "DAMAGED" ELSE @]
    /\ UNCHANGED <<durable, req, known, found, generic, verdict, author, guard, deeds, reply>>

\* get_offense_details returned None: HTTP 404, the row stays PROCESSING.
LookFails(r) ==
    /\ faults < MaxFaults
    /\ faults' = faults + 1
    /\ Goto(r, "look", "idle")
    /\ Answered(r, "404")
    /\ UNCHANGED <<offense, status, fresh, stored, rulesMap, open, blocked, req, mind, deeds>>

\* get_rules_map: the cache, or a request whose failure is cached as {}.
Match(r) ==
    /\ Goto(r, "match", "query")
    /\ IF rulesMap = "none" THEN rulesMap' \in {"known", "unknown"}
       ELSE UNCHANGED rulesMap
    /\ known' = [known EXCEPT ![r] = rulesMap' = "known"]
    /\ UNCHANGED <<offense, status, fresh, stored, open, blocked, faults, req, found, generic,
                   verdict, author, guard, fate, deeds, reply>>

(***************************************************************************)
(* Evidence.                                                               *)
(***************************************************************************)
Failures(results) == {a \in DOMAIN results : results[a] = "failed"}
HasRows(results) == \E a \in DOMAIN results : results[a] = "rows"

AllFailed(results) == Failures(results) # {} /\ Failures(results) = DOMAIN results

\* close_on_empty as it stands once the queries are done.
MayCloseOnEmpty(r, results) ==
    CloseOnEmpty(known[r]) /\ Failures(results) = {} /\ ~req[r].manual

TriesGeneric(r) == FallbackToDefault /\ DefaultAql \notin Plan(known[r])

FateOf(r, results) ==
    IF AllFailed(results) THEN "AQL_ERROR"
    ELSE IF HasRows(results) THEN "none"
    ELSE IF MayCloseOnEmpty(r, results) THEN "EMPTY"
    ELSE IF TriesGeneric(r) THEN "none"
    ELSE "NO_EVENTS"

Query(r) ==
    \E results \in [Plan(known[r]) -> Results] :
        LET end == FateOf(r, results) IN
        /\ Goto(r, "query", IF end # "none" THEN "note"
                            ELSE IF HasRows(results) THEN "tier1" ELSE "generic")
        /\ found' = [found EXCEPT ![r] = results]
        /\ fate' = [fate EXCEPT ![r] = end]
        /\ UNCHANGED <<durable, req, known, generic, verdict, author, guard, deeds, reply>>

\* The fallback query: None (it failed) and [] (no events) are one case.
QueryGeneric(r) ==
    \E result \in Results :
        /\ Goto(r, "generic", IF result = "rows" THEN "tier1" ELSE "note")
        /\ found' = [found EXCEPT ![r] =
             [a \in DOMAIN @ \cup {DefaultAql} |-> IF a = DefaultAql THEN result ELSE @[a]]]
        /\ generic' = [generic EXCEPT ![r] = result = "rows"]
        /\ fate' = [fate EXCEPT ![r] = IF result = "rows" THEN "none" ELSE "NO_EVENTS"]
        /\ UNCHANGED <<durable, req, known, verdict, author, guard, deeds, reply>>

\* QRadarUnavailable: 503, and the row is freed if it still says PROCESSING.
Unavailable(r) ==
    /\ pc[r] \in {"query", "generic"}
    /\ pc' = [pc EXCEPT ![r] = "idle"]
    /\ status' = IF status = "PROCESSING" THEN "QRADAR_UNAVAILABLE" ELSE status
    /\ Answered(r, "retry")
    /\ UNCHANGED <<offense, fresh, stored, rulesMap, open, blocked, faults, req, mind, deeds>>

(***************************************************************************)
(* Models.                                                                 *)
(***************************************************************************)
Judged(r, v, provider) ==
    /\ verdict' = [verdict EXCEPT ![r] = Guarded(v)]
    /\ author' = [author EXCEPT ![r] = provider]
    /\ guard' = [guard EXCEPT ![r] = @ \/ GuardFires(v)]

\* Tier 1: the first provider with its retries, or the fallback.
Tier1(r) ==
    \E v \in Answer, provider \in {FirstProvider(req[r])}
                        \cup (IF HasFallback(req[r]) THEN {Fallback} ELSE {}) :
        /\ Goto(r, "tier1", "tier2")
        /\ Judged(r, v, provider)
        /\ UNCHANGED <<durable, req, known, found, generic, fate, deeds, reply>>

Tier1Fails(r) ==
    /\ Goto(r, "tier1", "record")
    /\ fate' = [fate EXCEPT ![r] = "AI_ERROR"]
    /\ UNCHANGED <<durable, req, known, found, generic, verdict, author, guard, deeds, reply>>

CleanupCandidate(r) == offense.candidate /\ ~req[r].manual

UnblockReviewNeeded(r) ==
    /\ CleanupCandidate(r) /\ RequiresTier2
    /\ verdict[r].score <= CleanupMax /\ ~verdict[r].mitigated

Escalates(r) ==
    /\ EscalateEnabled /\ ~req[r].manual /\ ~verdict[r].mitigated
    /\ verdict[r].score > EscalateThreshold \/ UnblockReviewNeeded(r)
    /\ Heavy # author[r]

\* The verdict of tier 2 replaces that of tier 1, but a guard_note stays.
Escalate(r) ==
    /\ Goto(r, "tier2", "clean")
    /\ Escalates(r)
    /\ \E v \in Answer : Judged(r, v, Heavy)
    /\ fate' = [fate EXCEPT ![r] = "VERDICT"]
    /\ UNCHANGED <<durable, req, known, found, generic, deeds, reply>>

\* No escalation, or it failed (whatever was raised): tier 1 keeps the word.
KeepVerdict(r) ==
    /\ Goto(r, "tier2", "clean")
    /\ fate' = [fate EXCEPT ![r] = "VERDICT"]
    /\ UNCHANGED <<durable, req, known, found, generic, verdict, author, guard, deeds, reply>>

(***************************************************************************)
(* Deeds.                                                                  *)
(***************************************************************************)
\* `escalated or used_provider == esc_provider` is: Heavy gave the verdict.
HeavyReviewed(r) == author[r] = Heavy

UnblocksWrongReview(r) ==
    /\ CleanupCandidate(r)
    /\ verdict[r].score <= CleanupMax /\ ~verdict[r].mitigated

Unblocks(r) ==
    /\ CleanupCandidate(r)
    /\ verdict[r].score <= CleanupMax /\ ~verdict[r].mitigated
    /\ HeavyReviewed(r) \/ ~RequiresTier2

Clean(r) ==
    /\ Goto(r, "clean", "note")
    /\ \/ /\ Unblocks(r)
          /\ blocked' = FALSE
          /\ Does(r, "removed")
       \/ UNCHANGED <<blocked, deeds>>      \* nothing to do, or the DELETE failed
    /\ UNCHANGED <<offense, status, fresh, stored, rulesMap, open, faults, req, mind, reply>>

Note(r) ==
    /\ Goto(r, "note", "act")
    /\ Does(r, "noted")
    /\ UNCHANGED <<durable, req, mind, reply>>

ClosesWrongFailure(r) ==
    \/ fate[r] \in {"EMPTY", "AQL_ERROR"}
    \/ /\ fate[r] = "VERDICT" /\ ~req[r].manual
       /\ verdict[r].mitigated \/ verdict[r].score <= CloseMax

Closes(r) ==
    \/ fate[r] = "EMPTY"
    \/ /\ fate[r] = "VERDICT" /\ ~req[r].manual
       /\ verdict[r].mitigated \/ verdict[r].score <= CloseMax

\* close_qradar_offense and the assignment only log their failures.
Act(r) ==
    /\ Goto(r, "act", "record")
    /\ \/ /\ Closes(r)
          /\ open' = FALSE
          /\ Does(r, "closed")
       \/ /\ ~Closes(r) /\ fate[r] = "VERDICT" /\ offense.assignee
          /\ Does(r, "assigned")
          /\ UNCHANGED open
       \/ UNCHANGED <<open, deeds>>
    /\ UNCHANGED <<offense, status, fresh, stored, rulesMap, blocked, faults, req, mind, reply>>

Record(r) ==
    /\ Goto(r, "record", "idle")
    /\ status' = IF fate[r] \in {"EMPTY", "VERDICT"} THEN "PROCESSED" ELSE fate[r]
    /\ fresh' = TRUE
    /\ stored' = IF fate[r] = "VERDICT" THEN verdict[r] ELSE stored
    /\ Answered(r, CASE fate[r] = "VERDICT" -> "success"
                     [] fate[r] = "EMPTY" -> "closed"
                     [] fate[r] \in {"DAMAGED", "NO_EVENTS"} -> "skipped"
                     [] OTHER -> "error")
    /\ UNCHANGED <<offense, rulesMap, open, blocked, faults, req, mind, deeds>>

(***************************************************************************)
(* A handler is killed, or an exception of httpx outside every try ends it *)
(* with HTTP 500.  Nothing is cleaned up.                                  *)
(***************************************************************************)
Die(r) ==
    /\ faults < MaxFaults
    /\ faults' = faults + 1
    /\ pc[r] # "idle"
    /\ pc' = [pc EXCEPT ![r] = "idle"]
    /\ Answered(r, "lost")
    /\ UNCHANGED <<offense, status, fresh, stored, rulesMap, open, blocked, req, mind, deeds>>

(***************************************************************************)
(* Around the handlers: an hour passes, the cache of rule names runs out,  *)
(* a rule of QRadar puts the address back on the block-list.               *)
(***************************************************************************)
GrowStale ==
    /\ fresh /\ status = "PROCESSING"
    /\ fresh' = FALSE
    /\ UNCHANGED <<offense, status, stored, rulesMap, open, blocked, faults, pc, req, mind, deeds, reply>>

ForgetRules ==
    /\ rulesMap # "none"
    /\ rulesMap' = "none"
    /\ UNCHANGED <<offense, status, fresh, stored, open, blocked, faults, pc, req, mind, deeds, reply>>

BlockAgain ==
    /\ offense.candidate /\ ~blocked
    /\ blocked' = TRUE
    /\ UNCHANGED <<offense, status, fresh, stored, rulesMap, open, faults, pc, req, mind, deeds, reply>>

Work(r) ==
    \/ Begin(r) \/ Look(r) \/ LookFails(r) \/ Match(r)
    \/ Query(r) \/ QueryGeneric(r) \/ Unavailable(r)
    \/ Tier1(r) \/ Tier1Fails(r) \/ Escalate(r) \/ KeepVerdict(r)
    \/ Clean(r) \/ Note(r) \/ Act(r) \/ Record(r)

Next ==
    \/ \E r \in Run : (\E q \in Request : Arrive(r, q)) \/ Work(r) \/ Die(r)
    \/ GrowStale \/ ForgetRules \/ BlockAgain

Spec == Init /\ [][Next]_vars

-----------------------------------------------------------------------------
(***************************************************************************)
(* Properties.                                                             *)
(***************************************************************************)

\* The shape of every variable; a verdict has an author.
TypeOK ==
    /\ offense \in Case
    /\ status \in Statuses /\ fresh \in BOOLEAN
    /\ stored \in Verdict \cup {NoVerdict}
    /\ rulesMap \in {"none", "known", "unknown"}
    /\ open \in BOOLEAN /\ blocked \in BOOLEAN
    /\ faults \in Nat
    /\ pc \in [Run -> Places]
    /\ req \in [Run -> Request]
    /\ known \in [Run -> BOOLEAN]
    /\ found \in [Run -> UNION {[S -> Results] : S \in SUBSET Aql}]
    /\ generic \in [Run -> BOOLEAN]
    /\ verdict \in [Run -> Verdict \cup {NoVerdict}]
    /\ author \in [Run -> Provider \cup {NoProvider}]
    /\ \A r \in Run : verdict[r] # NoVerdict => author[r] \in Provider
    /\ guard \in [Run -> BOOLEAN]
    /\ fate \in [Run -> Fates]
    /\ deeds \in [Run -> SUBSET Deeds]
    /\ reply \in [Run -> Replies]

ClosedOnEmpty(r) == fate[r] = "EMPTY" /\ "closed" \in deeds[r]

\* An offense closed because "the AQL found nothing risky": every use case it
\* was matched to says that emptiness is good news, and the query of every one
\* of them did run and did return nothing.
NeverClosedBlind ==
    \A r \in Run : ClosedOnEmpty(r) =>
        /\ Matched(known[r]) # {}
        /\ \A i \in Matched(known[r]) :
            LET lens == offense.lenses[i] IN
            /\ lens.close
            /\ lens.aql \in DOMAIN found[r]
            /\ found[r][lens.aql] = "empty"

\* An address leaves the block-list only in an automatic run and on the word of
\* the heavy model, whose answer is neither a compromise nor mitigated: not
\* after a failed escalation, and not by way of a fallback to a third provider.
UnblockOnlyReviewed ==
    \A r \in Run : "removed" \in deeds[r] =>
        /\ ~req[r].manual
        /\ RequiresTier2 => author[r] = Heavy
        /\ ~verdict[r].compromise /\ ~verdict[r].mitigated

\* Whatever tier 1 and tier 2 said of score and mitigation, a run whose last word
\* is "compromise" does not close the offense; a manual run closes none.
CompromiseStaysOpen ==
    \A r \in Run : "closed" \in deeds[r] =>
        /\ ~req[r].manual
        /\ fate[r] = "VERDICT" => ~verdict[r].compromise

\* What a second run would repeat.  A run answered "error" has at most left its note,
\* one answered 503, 404 or "busy" not even that.  A run that ended without an answer
\* (killed, or an exception that became HTTP 500) may have acted, as nothing is undone;
\* but if it has touched the offense or the block-list, its analysis was complete: it
\* had a verdict or an established emptiness, and no failure of a query or a model.
RetriesLeaveNoTrace ==
    \A r \in Run :
        /\ reply[r] = "error" => deeds[r] \subseteq {"noted"}
        /\ reply[r] \in {"retry", "404", "busy"} => deeds[r] = {}
        /\ reply[r] = "lost" => deeds[r] \subseteq {"noted"} \/ fate[r] \in {"EMPTY", "VERDICT"}

\* An analyst is never handed an offense whose address this run has unblocked.
UnblockedNotAssigned ==
    \A r \in Run : ~({"removed", "assigned"} \subseteq deeds[r])
=============================================================================
