---------------------------- MODULE FalconDigest ----------------------------
(***************************************************************************)
(* The daily report on Falcon detections, falcon_pua_scan.py: read the     *)
(* events of the last Lookback hours, leave out what falcon_pua_reported   *)
(* names, send one message to the chat, and only then write the rows.      *)
(*                                                                         *)
(* Only events that pass the allow-lists are modelled.  A run takes no     *)
(* time: events arrive and time passes between runs.  An event reaches     *)
(* QRadar up to Late after it happened.                                    *)
(***************************************************************************)
EXTENDS Integers, FiniteSets

CONSTANTS
    Object,         \* files found on hosts: records with a key
    NoHash,         \* the key of an event without sha256
    Lookback,       \* falcon_pua_lookback_hours
    DedupTime,      \* falcon_pua_dedup_days
    ReportItems,    \* falcon_pua_max_report_items
    AqlRows,        \* falcon_pua_max_aql_rows
    Day, Late, MaxEvents

Keys == {o.key : o \in Object} \ {NoHash}
Long == DedupTime + 1       \* any age beyond the memory of the digest

ASSUME FalconAssumption ==
    /\ {Lookback, DedupTime, ReportItems, AqlRows, Day, Late, MaxEvents} \subseteq Nat \ {0}
    /\ Lookback >= Day + Late

VARIABLES
    falcon,         \* where the run is
    sinceRun,       \* time since the last run was due
    events,         \* what QRadar has: file, age, and what became of it
    newItems,       \* new_items
    reported,       \* per key: age of last_reported_ts, Long if there is none
    shown, unmarked \* per key: age of the last message with it; keys shown without a row

falconVars == <<falcon, sinceRun, events, newItems, reported, shown, unmarked>>

FalconInit ==
    /\ falcon = "idle" /\ sinceRun = 0
    /\ events = {} /\ newItems = {}
    /\ reported = [k \in Keys |-> Long]
    /\ shown = [k \in Keys |-> Long] /\ unmarked = {}

-----------------------------------------------------------------------------
\* A detection arrives in QRadar, stamped with the time it happened.
Detect(o, age) ==
    /\ falcon = "idle" /\ Cardinality(events) < MaxEvents
    /\ events' = events \cup {[what |-> o, age |-> age, fate |-> "waits"]}
    /\ UNCHANGED <<falcon, sinceRun, newItems, reported, shown, unmarked>>

Older(ages) == [k \in Keys |-> IF ages[k] < Long THEN ages[k] + 1 ELSE Long]

FalconHour ==
    /\ falcon = "idle" /\ sinceRun < Day
    /\ sinceRun' = sinceRun + 1
    /\ events' = {[e EXCEPT !.age = @ + 1] : e \in {x \in events : x.age <= Lookback}}
    /\ reported' = Older(reported) /\ shown' = Older(shown)
    /\ UNCHANGED <<falcon, newItems, unmarked>>

-----------------------------------------------------------------------------

InReach(e) == e.age <= Lookback

InTable(o) == o.key # NoHash /\ reported[o.key] <= DedupTime

\* Events in reach get a fate, unless an earlier run has already shown them.
Fated(Fate(_)) ==
    {IF InReach(e) /\ e.fate \in {"waits", "unsent", "missed", "beyond"} THEN [e EXCEPT !.fate = Fate(e)] ELSE e :
        e \in events}

\* cron did not run it, the search or the database failed, it was killed early.
MissedRun ==
    /\ falcon = "idle" /\ sinceRun = Day
    /\ sinceRun' = 0
    /\ events' = Fated(LAMBDA e : "missed")
    /\ UNCHANGED <<falcon, newItems, reported, shown, unmarked>>

\* Nothing new, no message.
AfterFilter == IF newItems' = {} THEN "idle" ELSE "report"

Fewer(n, m) == IF n < m THEN n ELSE m

\* ORDER BY starttime DESC LIMIT: the youngest events in reach.
Answer(rows) ==
    LET reach == {e \in events : InReach(e)} IN
    /\ rows \subseteq reach
    /\ Cardinality(rows) = Fewer(Cardinality(reach), AqlRows)
    /\ \A e \in rows, f \in reach \ rows : e.age <= f.age

FilterAndDedupe(rows) ==
    /\ falcon = "idle" /\ sinceRun = Day
    /\ Answer(rows)
    /\ sinceRun' = 0
    /\ newItems' = {o \in {e.what : e \in rows} : ~InTable(o)}
    /\ events' = Fated(LAMBDA e : IF e \notin rows THEN "beyond"
                                  ELSE IF InTable(e.what) THEN "known" ELSE e.fate)
    /\ falcon' = AfterFilter
    /\ UNCHANGED <<reported, shown, unmarked>>

\* build_chat_message stops after max_items; which these are depends on the hosts.
Message(part) ==
    Cardinality(part) = Fewer(Cardinality(newItems), ReportItems)

\* The chat has the message; `rest` is what becomes of the items it had no place for.
Delivered(part, rest) ==
    /\ falcon = "report" /\ Message(part)
    /\ shown' = [k \in Keys |-> IF \E o \in part : o.key = k THEN 0 ELSE shown[k]]
    /\ events' = Fated(LAMBDA e : IF e.what \in part THEN "shown"
                                  ELSE IF e.what \in newItems THEN rest ELSE e.fate)

SendReport(part) ==
    /\ Delivered(part, "cut")
    /\ falcon' = "mark"
    /\ UNCHANGED <<sinceRun, newItems, reported, unmarked>>

KeysOf(items) == {o.key : o \in items} \ {NoHash}

\* send_to_chat returns False for a time-out as well, and the chat may have the message:
\* no rows are written.
ReportAnswerLost(part) ==
    /\ Delivered(part, "unsent")
    /\ unmarked' = unmarked \cup KeysOf(part)
    /\ newItems' = {} /\ falcon' = "idle"
    /\ UNCHANGED <<sinceRun, reported>>

WebhookFails ==
    /\ falcon = "report"
    /\ events' = Fated(LAMBDA e : IF e.what \in newItems THEN "unsent" ELSE e.fate)
    /\ newItems' = {} /\ falcon' = "idle"
    /\ UNCHANGED <<sinceRun, reported, shown, unmarked>>

NewKeys == KeysOf(newItems)

MarkFoundWrongStops ==
    reported' = [k \in Keys |->
        IF k \in NewKeys /\ \A o \in newItems : o.key # NoHash THEN 0 ELSE reported[k]]

\* All of new_items, with those the message had no place for; one transaction.
MarkFound == reported' = [k \in Keys |-> IF k \in NewKeys THEN 0 ELSE reported[k]]

MarkReported ==
    /\ falcon = "mark"
    /\ MarkFound
    /\ unmarked' = unmarked \ NewKeys
    /\ newItems' = {} /\ falcon' = "idle"
    /\ UNCHANGED <<sinceRun, events, shown>>

\* Killed, or the database is locked, after the message went out.
MarkLost ==
    /\ falcon = "mark"
    /\ unmarked' = unmarked \cup NewKeys
    /\ newItems' = {} /\ falcon' = "idle"
    /\ UNCHANGED <<sinceRun, events, reported, shown>>

FalconNext ==
    \/ \E o \in Object, age \in 0..Late : Detect(o, age)
    \/ FalconHour \/ MissedRun
    \/ \E rows \in SUBSET events : FilterAndDedupe(rows)
    \/ \E part \in SUBSET newItems : SendReport(part) \/ ReportAnswerLost(part)
    \/ WebhookFails \/ MarkReported \/ MarkLost

FalconSpec == FalconInit /\ [][FalconNext]_falconVars

-----------------------------------------------------------------------------
\* The shape of the digest's state; a run is under way exactly as long as it has new
\* items, so that no empty message is sent.
FalconTypeOK ==
    /\ falcon \in {"idle", "report", "mark"} /\ sinceRun \in 0..Day
    /\ events \subseteq [what : Object, age : 0 .. Lookback + 1,
                         fate : {"waits", "shown", "known", "cut", "unsent", "missed", "beyond"}]
    /\ newItems \subseteq Object /\ (falcon = "idle" <=> newItems = {})
    /\ reported \in [Keys -> 0..Long] /\ shown \in [Keys -> 0..Long]
    /\ unmarked \subseteq Keys

\* No detection leaves the window of the digest unnoticed: it was shown, its file was
\* known, the query or the message had no place for it, or a run failed while it was in
\* reach.
\* The window of 25 hours covers what reaches QRadar late.
NothingOverlooked ==
    \A e \in events : e.age > Lookback => e.fate # "waits"

\* A file that was shown is not shown again before the deduplication period is over,
\* unless the run that showed it lost its rows, or did not learn that the chat had the
\* message.
ShownOnce ==
    [][\A k \in Keys :
          shown'[k] = 0 /\ shown[k] # 0 /\ shown[k] <= DedupTime => k \in unmarked]_falconVars
=============================================================================
