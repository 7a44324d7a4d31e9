---------------------------- MODULE CortexDigest ----------------------------
(***************************************************************************)
(* The daily report on Cortex XDR alerts, cortex_xdr_scan.py: read the     *)
(* alerts of the last XdrLookback hours page by page, oldest first and at  *)
(* most XdrCap of them, leave out those with a row in cortex_xdr_reported, *)
(* send one message, and only then write the rows.                         *)
(*                                                                         *)
(* Cortex appends alerts, also while the pages are read.  Only alerts that *)
(* pass the filters are modelled, and no --dry-run, which changes nothing. *)
(***************************************************************************)
EXTENDS Integers, Sequences, FiniteSets

CONSTANTS
    XdrLookback,    \* cortex_xdr_lookback_hours
    XdrPage,        \* cortex_xdr_page_size
    XdrCap,         \* cortex_xdr_max_alerts
    XdrItems,       \* cortex_xdr_max_report_items
    XdrDay, MaxAlerts

ASSUME XdrAssumption ==
    /\ {XdrLookback, XdrPage, XdrCap, XdrItems, XdrDay, MaxAlerts} \subseteq Nat \ {0}
    /\ XdrLookback >= XdrDay

VARIABLES
    xdr,        \* where the run is
    xdrSince,   \* time since the last run was due
    alerts,     \* what Cortex has, in order of creation: age, fate, and whether it has a row
    first,      \* index of the first alert of the window
    count,      \* len(out)
    present     \* number of alerts there were when the run began

xdrVars == <<xdr, xdrSince, alerts, first, count, present>>

XdrInit == xdr = "idle" /\ xdrSince = 0 /\ alerts = <<>> /\ first = 1 /\ count = 0 /\ present = 0

-----------------------------------------------------------------------------
NewAlert == [age |-> 0, fate |-> "waits", row |-> FALSE]

Raise ==
    /\ Len(alerts) < MaxAlerts
    /\ alerts' = Append(alerts, NewAlert)
    /\ UNCHANGED <<xdr, xdrSince, first, count, present>>

InWindow(a) == a.age <= XdrLookback

\* Alerts are in order of creation, so the window is a tail of them.
Beyond == {i \in DOMAIN alerts : ~InWindow(alerts[i])}
FirstInWindow == Cardinality(Beyond) + 1

\* What has left the window is of no concern to any run to come.
XdrHour ==
    /\ xdr = "idle" /\ xdrSince < XdrDay
    /\ xdrSince' = xdrSince + 1
    /\ LET kept == SubSeq(alerts, FirstInWindow, Len(alerts)) IN
       alerts' = [i \in DOMAIN kept |-> [kept[i] EXCEPT !.age = @ + 1]]
    /\ UNCHANGED <<xdr, first, count, present>>

-----------------------------------------------------------------------------
Fetched == {i \in DOMAIN alerts : i >= first /\ i < first + count}

\* Alerts nobody has been told of get a fate.
Unseen(i) == alerts[i].fate \in {"waits", "unsent", "missed", "capped"}
SetFate(set, fate) ==
    alerts' = [i \in DOMAIN alerts |->
                  IF i \in set /\ Unseen(i) THEN [alerts[i] EXCEPT !.fate = fate] ELSE alerts[i]]

BackToIdle == xdr' = "idle" /\ first' = 1 /\ count' = 0 /\ present' = 0

\* creation_time >= now - lookback; the bound stays as it is for all pages.
BeginFetch ==
    /\ xdr = "idle" /\ xdrSince = XdrDay
    /\ xdrSince' = 0 /\ xdr' = "fetch"
    /\ first' = FirstInWindow
    /\ count' = 0 /\ present' = Len(alerts)
    /\ UNCHANGED alerts

Batch == LET left == Len(alerts) - (first + count) + 1 IN IF left < XdrPage THEN left ELSE XdrPage

LastPageWrongFull(batch) == batch <= XdrPage
LastPage(batch) == batch < XdrPage \/ count + batch >= Len(alerts) - first + 1

UpToCap(n) == IF n > XdrCap THEN XdrCap ELSE n

\* One page; `while len(out) < cap`, then out[:cap].
FetchPage ==
    /\ xdr = "fetch"
    /\ LET got == count + Batch IN
       /\ count' = UpToCap(got)
       /\ xdr' = IF LastPage(Batch) \/ got >= XdrCap THEN "filter" ELSE "fetch"
    /\ UNCHANGED <<xdrSince, alerts, first, present>>

\* A page fails: no report at all.  Or the run is killed.
FetchFails ==
    /\ xdr \in {"fetch", "filter"}
    /\ SetFate(first .. present, "missed")
    /\ BackToIdle /\ UNCHANGED xdrSince

New == {i \in Fetched : ~alerts[i].row}

FilterAlerts ==
    /\ xdr = "filter"
    /\ xdr' = "send"
    /\ IF count = XdrCap THEN SetFate(first + count .. present, "capped") ELSE UNCHANGED alerts
    /\ UNCHANGED <<xdrSince, first, count, present>>

NothingNew ==
    /\ xdr = "send" /\ New = {}
    /\ BackToIdle /\ UNCHANGED <<xdrSince, alerts>>

\* The chat has the message.
AlertsDelivered(part, fate, rest) ==
    /\ xdr = "send" /\ New # {}
    /\ Cardinality(part) = IF Cardinality(New) < XdrItems THEN Cardinality(New) ELSE XdrItems
    /\ alerts' = [i \in DOMAIN alerts |->
                    IF i \in part THEN [alerts[i] EXCEPT !.fate = fate]
                    ELSE IF i \in New /\ Unseen(i) THEN [alerts[i] EXCEPT !.fate = rest] ELSE alerts[i]]

SendAlerts(part) ==
    /\ AlertsDelivered(part, "shown", "cut")
    /\ xdr' = "mark"
    /\ UNCHANGED <<xdrSince, first, count, present>>

\* It has, but send_to_chat timed out and returns False: no rows.
SendAnswerLost(part) ==
    /\ AlertsDelivered(part, "unmarked", "unsent")
    /\ BackToIdle /\ UNCHANGED xdrSince

XdrWebhookFails ==
    /\ xdr = "send" /\ New # {}
    /\ SetFate(New, "unsent")
    /\ BackToIdle /\ UNCHANGED xdrSince

MarkAlerts == alerts' = [i \in DOMAIN alerts |-> [alerts[i] EXCEPT !.row = @ \/ i \in New]]

MarkAll ==
    /\ xdr = "mark"
    /\ MarkAlerts
    /\ BackToIdle /\ UNCHANGED xdrSince

\* The rows are lost: killed, or the database is locked.
MarkingLost ==
    /\ xdr = "mark"
    /\ alerts' = [i \in DOMAIN alerts |->
                    IF i \in New THEN [alerts[i] EXCEPT !.fate = "unmarked"]
                    ELSE alerts[i]]
    /\ BackToIdle /\ UNCHANGED xdrSince

XdrNext ==
    \/ Raise \/ XdrHour
    \/ BeginFetch \/ FetchPage \/ FetchFails \/ FilterAlerts \/ NothingNew
    \/ \E part \in SUBSET New : SendAlerts(part) \/ SendAnswerLost(part)
    \/ XdrWebhookFails \/ MarkAll \/ MarkingLost

-----------------------------------------------------------------------------
\* The shape of the state: what a run has read is there, and within the cap.
XdrTypeOK ==
    /\ xdr \in {"idle", "fetch", "filter", "send", "mark"} /\ xdrSince \in 0..XdrDay
    /\ alerts \in Seq([age : 0 .. XdrLookback + 1, row : BOOLEAN,
            fate : {"waits", "shown", "unmarked", "cut", "capped", "unsent", "missed"}])
    /\ first \in 1 .. Len(alerts) + 1 /\ present \in 0 .. Len(alerts)
    /\ count \in 0..XdrCap /\ first + count <= Len(alerts) + 1

\* The pages fit together although alerts arrive in between: a run whose reading is
\* over has every alert that was there when it began, unless it reached the cap.
PagesComplete ==
    xdr \in {"filter", "send"} /\ count < XdrCap => first .. present \subseteq Fetched

\* No alert leaves the window unnoticed, unless the cap cut it off or a run failed.
NoAlertOverlooked ==
    \A i \in DOMAIN alerts : alerts[i].age > XdrLookback => alerts[i].fate # "waits"

\* What a run is going to send is news to the chat: no earlier message had it or left it
\* out for want of room, but for a message whose rows were lost or whose answer was.
AlertShownOnce == [](xdr = "send" => \A i \in New : alerts[i].fate \notin {"shown", "cut"})
=============================================================================
