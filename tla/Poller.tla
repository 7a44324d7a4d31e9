------------------------------- MODULE Poller -------------------------------
(***************************************************************************)
(* The life of an offense between QRadar, poller.py, the work queue and    *)
(* the analysis: discovery of new offenses, retries of failed ones and the *)
(* re-triage of long-lived ones, interleaved with analysts, the worker,    *)
(* the sweep and QRadar itself.                                            *)
(*                                                                         *)
(* Time is relative: now is always Horizon, and Tick moves every time      *)
(* stamp one unit into the past, down to 0.  As every period is shorter    *)
(* than Horizon, stamps that far back are not told apart by the code.      *)
(*                                                                         *)
(* A run of the poller is in a phase (off, discover, retriage) and, for    *)
(* the offense `cur`, at a place:                                          *)
(*   next     takes the next offense of the batch QRadar returned          *)
(*   status   reads the state of its row in the queue                      *)
(*   age      reads the age of that row (discovery, ERROR rows)            *)
(*   verdict  reads the age of the verdict in `offenses` (re-triage)       *)
(*   notes    asks QRadar for its notes                                    *)
(*   put      enqueues it                                                  *)
(***************************************************************************)
EXTENDS QueueDB

CONSTANTS
    Sound,          \* offenses with an offense_source
    ByName,         \* those whose description matches a use case
    ByRule,         \* those of which only a rule's name does
    Asked,          \* offenses analysts may ask for
    Changing,       \* offenses QRadar and analysts may change
    Horizon,        \* bound: older than this is all the same
    Window,         \* LOOKBACK_TIME_MS
    ErrorRetry,     \* queue_error_retry_hours
    Interval,       \* poller_retriage_interval_hours
    LoudMin,        \* poller_retriage_min_magnitude
    MaxNew,         \* MAX_ENQUEUE_PER_RUN
    MaxRetriage,    \* poller_retriage_max_per_run
    LowMagMax,      \* queue_sweep_low_mag_max
    Ttl,            \* queue_sweep_ttl_days
    Retention,      \* queue_done_retention_days
    Nobody,         \* no offense in the poller's hands
    MaxFaults       \* bound: failures of any kind

Periods == {Window, ErrorRetry, Interval, Ttl, Retention}

ASSUME PeriodAssumption ==
    /\ Horizon \in Nat
    /\ Periods \subseteq 1..Horizon - 1
ASSUME LimitAssumption ==
    {LoudMin, MaxNew, MaxRetriage, LowMagMax, MaxFaults} \subseteq Nat
ASSUME KindAssumption ==
    /\ UNION {Sound, ByName, ByRule, Asked, Changing} \subseteq Offense
    /\ Nobody \notin Offense
\* Defaults: the window of 48 hours ends before the TTL of 3 days, and the quiet
\* rows the sweep drops (magnitude 3) are not loud (6).
ASSUME SweepAssumption == Window <= Ttl /\ LowMagMax < LoudMin

VARIABLES
    world,      \* per offense, QRadar's view
    notes,      \* per offense, time of the youngest "AI Analysis" note, or NULL
    verdict,    \* per offense, the row of `offenses`
    queue,      \* work_queue
    dropped,    \* offenses the sweep took out unanalysed and nobody put back
    phase, place, cur,
    windowStart,    \* search_start_time of the run
    names,      \* get_rules_map succeeded
    batch,      \* offenses still to look at, with the magnitude QRadar gave
    count,      \* offenses queued by this phase
    force,      \* the `force` argument of the enqueue to come
    ran,        \* cron has run the poller in this unit of time
    faults

outside == <<world, notes, verdict>>
poller == <<phase, place, cur, windowStart, names, batch, count, force>>
vars == <<outside, queue, dropped, poller, ran, faults>>

World == [open: BOOLEAN, magnitude: Magnitude, live: BOOLEAN, started: 0..Horizon]

\* What matters of a row of `offenses`: is it PROCESSED, since when, and was it
\* an analyst's run that said so.
Verdict == [processed: BOOLEAN, at: 0..Horizon, manual: BOOLEAN]
NoVerdict == [processed |-> FALSE, at |-> 0, manual |-> FALSE]

Init ==
    /\ world \in [Offense -> [open: {TRUE}, magnitude: Magnitude, live: BOOLEAN,
                              started: {0, Horizon}]]
    /\ notes = [o \in Offense |-> NULL]
    /\ verdict = [o \in Offense |-> NoVerdict]
    /\ queue = [o \in Offense |-> NoRow]
    /\ dropped = {}
    /\ phase = "off" /\ place = "next" /\ cur = Nobody
    /\ windowStart = 0 /\ names = FALSE /\ batch = [o \in {} |-> 0]
    /\ count = 0 /\ force = FALSE
    /\ ran = FALSE /\ faults = 0

-----------------------------------------------------------------------------
(***************************************************************************)
(* Ages, and what the code asks of an offense.                             *)
(***************************************************************************)
AgeOf(t) == Horizon - t

\* Variants named ...Wrong... are slips the properties must notice; no definition
\* of the model uses them.
RecentWrongEver(t) == t # NULL
RecentWrongUnit(t) == t # NULL /\ AgeOf(t) < 1

Recent(t) == t # NULL /\ AgeOf(t) < Interval

Matched(o) == o \in ByName \/ (names /\ o \in ByRule)

Waiting(o) == queue[o] # NoRow /\ queue[o].status \in {"QUEUED", "IN_PROGRESS"}

DiscoveredWrongWindow == {o \in Offense : world[o].open}

Discovered == {o \in Offense : world[o].open /\ world[o].started > Horizon - Window}

LongLived ==
    {o \in Offense :
        /\ world[o].open /\ world[o].live
        /\ world[o].started <= windowStart
        /\ world[o].magnitude >= LoudMin}

Magnitudes(S) == [o \in S |-> world[o].magnitude]

Fault == faults < MaxFaults /\ faults' = faults + 1

\* A read or request that may fail, at the cost of a fault.
Succeeds(ok) == IF ok THEN UNCHANGED faults ELSE Fault

-----------------------------------------------------------------------------
(***************************************************************************)
(* A run of the poller.                                                    *)
(***************************************************************************)
Begin(newPhase, offenses) ==
    /\ phase' = newPhase
    /\ batch' = Magnitudes(offenses)
    /\ place' = "next" /\ cur' = Nobody /\ count' = 0 /\ force' = FALSE

\* Both requests to QRadar; when that for the offenses fails the run is over
\* without a change.
Start ==
    /\ phase = "off"
    /\ \E ok \in BOOLEAN : names' = ok /\ Succeeds(ok)
    /\ windowStart' = Horizon - Window
    /\ Begin("discover", Discovered)
    /\ UNCHANGED <<outside, queue, dropped, ran>>

Goto(p) == place' = p /\ UNCHANGED <<phase, windowStart, names, batch, count>>

\* `continue`: on to the next offense of the batch.
Skip ==
    /\ place' = "next" /\ cur' = Nobody
    /\ batch' = [o \in DOMAIN batch \ {cur} |-> batch[o]]
    /\ force' = FALSE
    /\ UNCHANGED <<phase, windowStart, names, count>>

\* QRadar sorts the batch of the re-triage by magnitude.
MayPick(o) ==
    /\ o \in DOMAIN batch
    /\ phase = "retriage" => \A p \in DOMAIN batch : batch[p] <= batch[o]

PassOver(o) ==
    /\ batch' = [p \in DOMAIN batch \ {o} |-> batch[p]]
    /\ UNCHANGED <<phase, place, cur, windowStart, names, count, force>>

Take(o) == cur' = o /\ force' = (phase = "retriage") /\ Goto("status")

Candidate(o) == o \in Sound /\ Matched(o)

Pick(o) ==
    /\ phase # "off" /\ place = "next" /\ MayPick(o)
    /\ \/ ~Candidate(o) /\ PassOver(o) /\ UNCHANGED faults
       \/ Candidate(o) /\ phase = "retriage" /\ Take(o) /\ UNCHANGED faults
       \/ /\ Candidate(o) /\ phase = "discover"
          /\ \E ok \in BOOLEAN :
              /\ Succeeds(ok)
              /\ IF ok /\ verdict[o].processed THEN PassOver(o) ELSE Take(o)
    /\ UNCHANGED <<outside, queue, dropped, ran>>

ReadStatus ==
    /\ place = "status"
    /\ IF phase = "discover"
       THEN CASE queue[cur] = NoRow /\ count >= MaxNew -> Skip
              [] queue[cur] = NoRow /\ count < MaxNew ->
                    Goto("notes") /\ UNCHANGED <<cur, force>>
              [] queue[cur] # NoRow ->
                    /\ Goto(IF queue[cur].status = "ERROR" THEN "age" ELSE "put")
                    /\ UNCHANGED <<cur, force>>
       ELSE IF Waiting(cur) \/ count >= MaxRetriage THEN Skip
            ELSE Goto("verdict") /\ UNCHANGED <<cur, force>>
    /\ UNCHANGED <<outside, queue, dropped, ran, faults>>

ReadAge ==
    /\ place = "age"
    /\ force' = (queue[cur] # NoRow /\ AgeOf(queue[cur].enqueued_at) >= ErrorRetry)
    /\ Goto("put")
    /\ UNCHANGED <<outside, queue, dropped, cur, ran, faults>>

ReadVerdict ==
    /\ place = "verdict"
    /\ \E ok \in BOOLEAN :
        /\ Succeeds(ok)
        /\ CASE ok /\ verdict[cur].processed /\ Recent(verdict[cur].at) -> Skip
             [] ok /\ verdict[cur].processed /\ ~Recent(verdict[cur].at) ->
                    Goto("put") /\ UNCHANGED <<cur, force>>
             [] OTHER -> Goto("notes") /\ UNCHANGED <<cur, force>>
    /\ UNCHANGED <<outside, queue, dropped, ran>>

\* has_ai_note, any note at all, and ai_note_age_hours; a failure counts as none.
ReadNotes ==
    /\ place = "notes"
    /\ \E ok \in BOOLEAN :
        /\ Succeeds(ok)
        /\ IF ok /\ (IF phase = "discover" THEN notes[cur] # NULL ELSE Recent(notes[cur]))
           THEN Skip
           ELSE Goto("put") /\ UNCHANGED <<cur, force>>
    /\ UNCHANGED <<outside, queue, dropped, ran>>

CountedWrongAll(outcome) == TRUE

Counted(outcome) ==
    outcome = "inserted" \/ (phase = "retriage" /\ outcome = "requeued")

Put ==
    /\ place = "put"
    /\ queue' = Enqueue(queue, cur, batch[cur], "auto", phase = "retriage", force, Horizon)
    /\ dropped' = {o \in dropped : queue'[o] = NoRow}
    /\ count' = IF Counted(EnqueueOutcome(queue, cur, batch[cur], force)) THEN count + 1
                ELSE count
    /\ place' = "next" /\ cur' = Nobody /\ force' = FALSE
    /\ batch' = [o \in DOMAIN batch \ {cur} |-> batch[o]]
    /\ UNCHANGED <<outside, phase, windowStart, names, ran, faults>>

Retriage ==
    /\ phase = "discover" /\ place = "next" /\ DOMAIN batch = {}
    /\ Begin("retriage", LongLived)
    /\ UNCHANGED <<outside, queue, dropped, windowStart, names, ran, faults>>

Off ==
    /\ phase' = "off" /\ place' = "next" /\ cur' = Nobody /\ batch' = [o \in {} |-> 0]
    /\ windowStart' = 0 /\ names' = FALSE /\ count' = 0 /\ force' = FALSE
    /\ ran' = TRUE
    /\ UNCHANGED <<outside, queue, dropped>>

End ==
    /\ phase = "retriage" /\ place = "next" /\ DOMAIN batch = {}
    /\ Off
    /\ UNCHANGED faults

\* An exception (the database is locked, QRadar fails the second query) or a kill.
Abort == phase # "off" /\ Off /\ Fault

PollerStep ==
    \/ Start \/ (\E o \in Offense : Pick(o)) \/ ReadStatus \/ ReadAge \/ ReadVerdict
    \/ ReadNotes \/ Put \/ Retriage \/ End

-----------------------------------------------------------------------------
(***************************************************************************)
(* Everybody else.                                                         *)
(***************************************************************************)
\* The web form: /universal-analysis with is_manual.
Ask(o) ==
    /\ o \in Asked
    /\ queue' = Enqueue(queue, o, world[o].magnitude, "manual", FALSE, TRUE, Horizon)
    /\ dropped' = {p \in dropped : queue'[p] = NoRow}
    /\ UNCHANGED <<outside, poller, ran, faults>>

\* The worker; that a claim is answered is the business of module Worker.
Claim(o) ==
    /\ queue[o] # NoRow /\ queue[o].status = "QUEUED"
    /\ queue' = [queue EXCEPT ![o] = ClaimRow(@, 0)]
    /\ UNCHANGED <<outside, dropped, poller, ran, faults>>

Settle(o, status) == queue' = Mark(queue, o, status)

InHands(o) == queue[o] # NoRow /\ queue[o].status = "IN_PROGRESS"

\* /process-one answers "skipped": it has its verdict, and nobody asked for another.
Skipped(o) ==
    /\ InHands(o)
    /\ verdict[o].processed /\ ~IsManual(queue[o]) /\ ~queue[o].force
    /\ Settle(o, "DONE")
    /\ UNCHANGED <<world, notes, verdict, dropped, poller, ran, faults>>

Analysed(o) ==
    /\ InHands(o)
    /\ ~verdict[o].processed \/ IsManual(queue[o]) \/ queue[o].force

\* The analysis begins: PROCESSING replaces the verdict there was.
Arrive(o) ==
    /\ Analysed(o) /\ verdict[o].processed
    /\ verdict' = [verdict EXCEPT ![o] = NoVerdict]
    /\ UNCHANGED <<world, notes, queue, dropped, poller, ran, faults>>

\* QRadar may refuse a note; nobody looks.
Annotate(o) ==
    \/ notes' = [notes EXCEPT ![o] = Horizon] /\ UNCHANGED faults
    \/ UNCHANGED notes /\ Fault

\* A verdict; the offense may be closed.
Judge(o) ==
    /\ Analysed(o)
    /\ verdict' = [verdict EXCEPT ![o] =
                    [processed |-> TRUE, at |-> Horizon, manual |-> IsManual(queue[o])]]
    /\ Annotate(o)
    /\ \E open \in {world[o].open, FALSE} : world' = [world EXCEPT ![o].open = open]
    /\ Settle(o, "DONE")
    /\ UNCHANGED <<dropped, poller, ran>>

\* NO_EVENTS is done with; AQL_ERROR is not.
Undecided(o) ==
    /\ Analysed(o)
    /\ verdict' = [verdict EXCEPT ![o] = NoVerdict]
    /\ Annotate(o)
    /\ \E status \in {"DONE", "ERROR"} : Settle(o, status)
    /\ UNCHANGED <<world, dropped, poller, ran>>

\* AI_ERROR, and answers without an analysis (4xx, 5xx at last): no note.
Unanswered(o) ==
    /\ Analysed(o)
    /\ Fault
    /\ \E v \in {verdict[o], NoVerdict} : verdict' = [verdict EXCEPT ![o] = v]
    /\ Settle(o, "ERROR")
    /\ UNCHANGED <<world, notes, dropped, poller, ran>>

\* sweep, at the start of a run of the worker.
SweepTail ==
    LET swept == Swept(queue, LowMagMax, Ttl, Retention, Horizon) IN
    /\ swept # {}
    /\ queue' = Sweep(queue, LowMagMax, Ttl, Retention, Horizon)
    /\ dropped' = dropped \cup {o \in swept : queue[o].status = "QUEUED"}
    /\ UNCHANGED <<outside, poller, ran, faults>>

\* ai_state.db is lost, queue and verdicts alike.
Wipe ==
    /\ Fault
    /\ queue' = [o \in Offense |-> NoRow]
    /\ verdict' = [o \in Offense |-> NoVerdict]
    /\ UNCHANGED <<world, notes, dropped, poller, ran>>

\* QRadar adds events, revises the magnitude; an analyst closes the offense.
Change(o) ==
    /\ o \in Changing
    /\ \E w \in World :
        /\ w.started = world[o].started
        /\ w.open => world[o].open
        /\ w # world[o]
        /\ world' = [world EXCEPT ![o] = w]
    /\ UNCHANGED <<notes, verdict, queue, dropped, poller, ran, faults>>

Back(t) == IF t > 0 THEN t - 1 ELSE t

\* cron runs the poller much more often than time advances by a unit, so at least
\* one run ends in every unit.
Tick ==
    /\ ran /\ ran' = FALSE
    /\ world' = [o \in Offense |-> [world[o] EXCEPT !.started = Back(@)]]
    /\ notes' = [o \in Offense |-> Back(notes[o])]
    /\ verdict' = [o \in Offense |-> [verdict[o] EXCEPT !.at = Back(@)]]
    /\ queue' = [o \in Offense |->
                    IF queue[o] = NoRow THEN NoRow
                    ELSE [queue[o] EXCEPT !.enqueued_at = Back(@)]]
    /\ windowStart' = Back(windowStart)
    /\ UNCHANGED <<dropped, phase, place, cur, names, batch, count, force, faults>>

Next ==
    \/ PollerStep \/ Abort \/ SweepTail \/ Wipe \/ Tick
    \/ \E o \in Offense :
        \/ Ask(o) \/ Claim(o) \/ Arrive(o) \/ Skipped(o) \/ Judge(o) \/ Undecided(o)
        \/ Unanswered(o) \/ Change(o)

Spec == Init /\ [][Next]_vars

\* cron starts the poller again and again and its calls return; nothing is
\* assumed of the worker, of QRadar or of analysts.
FairSpec == Spec /\ WF_vars(PollerStep)

-----------------------------------------------------------------------------
(***************************************************************************)
(* Properties.                                                             *)
(***************************************************************************)

\* The shape of every variable; the poller has an offense in its hands exactly
\* between two `next`.
TypeOK ==
    /\ world \in [Offense -> World]
    /\ notes \in [Offense -> 0..Horizon \cup {NULL}]
    /\ verdict \in [Offense -> Verdict]
    /\ queue \in [Offense -> Row \cup {NoRow}]
    /\ dropped \subseteq Offense
    /\ phase \in {"off", "discover", "retriage"}
    /\ place \in {"next", "status", "age", "verdict", "notes", "put"}
    /\ cur \in Offense \cup {Nobody}
    /\ place = "next" <=> cur = Nobody
    /\ cur # Nobody => cur \in DOMAIN batch
    /\ batch \in UNION {[S -> Magnitude] : S \in SUBSET Offense}
    /\ windowStart \in 0..Horizon
    /\ names \in BOOLEAN /\ force \in BOOLEAN /\ ran \in BOOLEAN
    /\ count \in Nat /\ faults \in Nat

Young(t) == t # NULL /\ Horizon - t < Interval

\* While no read has failed, the re-triage does not spend an analysis on an offense
\* whose automatic verdict is younger than the interval, however the reads of
\* queue, verdict and notes interleave with the worker.
FreshVerdictStands ==
    faults = 0 =>
        \A o \in Offense :
            Waiting(o) /\ queue[o].source = "auto" /\ queue[o].force =>
                ~(verdict[o].processed /\ ~verdict[o].manual /\ Young(verdict[o].at))

\* What the sweep dropped as quiet does not come back by way of the poller, unless
\* it has become loud: the TTL and the window, the two magnitudes fit together.
SweptStaysOut ==
    [][\A o \in Offense :
        o \in dropped /\ queue'[o] # NoRow =>
            queue'[o].source = "manual" \/ queue'[o].magnitude >= LoudMin]_vars

\* An analyst's request, once in the queue, is not turned into an automatic one,
\* not even by a poller that saw an older ERROR row and means to force its retry.
AnalystKept ==
    [][\A o \in Offense :
        /\ Waiting(o) /\ queue[o].source = "manual"
        /\ queue'[o] # NoRow /\ queue'[o].status \in {"QUEUED", "IN_PROGRESS"}
        => queue'[o].source = "manual"]_vars

Fresh(o) == (verdict[o].processed /\ Young(verdict[o].at)) \/ Young(notes[o])

\* A new offense that matches a use case gets a row, however many others compete
\* for the places of a run, if it stays new: open, inside the window, without a
\* verdict or a note.  One that leaves the window before its turn comes is not seen
\* by the discovery any more; time may stand still, so that this excuses no
\* starvation.
New(o) ==
    /\ world[o].open /\ o \in Sound \cap ByName
    /\ world[o].started > Horizon - Window
    /\ ~verdict[o].processed /\ notes[o] = NULL

NewIsQueued == \A o \in Offense : New(o) ~> (queue[o] # NoRow \/ ~New(o))

\* A loud offense that lives beyond the window and has no fresh verdict is queued
\* again, however many others compete for the places of a run.  (Offenses whose
\* analysis fails without leaving a note are candidates of every run; failures are
\* bounded here.)
Overdue(o) ==
    /\ world[o].open /\ world[o].live /\ o \in Sound \cap ByName
    /\ world[o].started <= Horizon - Window
    /\ world[o].magnitude >= LoudMin
    /\ ~Fresh(o)

LoudIsRevisited == \A o \in Offense : Overdue(o) ~> (Waiting(o) \/ ~Overdue(o))
=============================================================================
