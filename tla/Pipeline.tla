------------------------------ MODULE Pipeline ------------------------------
(***************************************************************************)
(* The worker and /process-one together: the row of work_queue, the HTTP   *)
(* request that carries a claim, the handler that serves it and the row of *)
(* offenses.  What each side does alone is in Worker and in Triage; this   *)
(* module is about what lies between them: a handler that outlives the     *)
(* worker's patience, a lease that runs out over it, a second handler that *)
(* meets the traces of the first, answers nobody waits for any more.       *)
(*                                                                         *)
(* Time is relative: it is always Now, and Tick moves the leases towards   *)
(* the past and lets requests, handlers and PROCESSING marks grow older.   *)
(*                                                                         *)
(* A handler is at one of                                                  *)
(*   idle     serves nothing                                               *)
(*   select   has the request, has not read the offense's row              *)
(*   insert   found nothing against it, has not written PROCESSING         *)
(*   work     queries and models, as Triage has them                       *)
(*   note, record   has a fate: writes the note, then the row, and answers *)
(***************************************************************************)
EXTENDS QueueDB

CONSTANTS
    Thread,         \* the worker's threads
    Handler,        \* requests the service handles at a time
    NoHandler,
    Nothing,        \* the offense of a thread or a handler that has none
    HttpTimeout,    \* timeout_seconds + 30
    LockWait,       \* longest wait of one statement for SQLite
    Lease,          \* what a lease has left when the request goes out, at least
    Stale,          \* PROCESSING_STALE_MINUTES
    Life,           \* longest time a handler may take: its awaits have timeouts
    MaxAttempts,    \* worker_max_attempts
    Analysts,       \* bound: are there requests by analysts and re-triages
    MaxFaults       \* bound: deaths, refusals, failures of any kind

ASSUME PipelineAssumption ==
    /\ {HttpTimeout, LockWait, Lease, Stale, Life, MaxAttempts, MaxFaults} \subseteq Nat
    /\ NoHandler \notin Handler /\ Nothing \notin Offense
    /\ Analysts \in BOOLEAN
\* worker_lease_seconds less the longest wait of claim_next leaves 900 - 152 seconds,
\* and 30 < 630, 630 + 30 < 748: see LeaseAssumption of Worker.
ASSUME PipelineLeaseAssumption == LockWait < HttpTimeout /\ HttpTimeout + LockWait < Lease

VARIABLES
    queue,          \* work_queue
    status, since,  \* per offense: offenses.status and its age, up to Stale
    call,           \* per thread: the request in flight or its answer
    run,            \* per handler
    notes,          \* per offense: verdict notes by automatic, unforced runs
    overlapped,     \* offenses of which a second analysis was let in next to a first
    faults

vars == <<queue, status, since, call, run, notes, overlapped, faults>>

Now == 1

Statuses == {"absent", "PROCESSING", "PROCESSED", "DAMAGED", "AQL_ERROR", "NO_EVENTS",
             "AI_ERROR", "QRADAR_UNAVAILABLE"}
Fates == {"PROCESSED", "DAMAGED", "AQL_ERROR", "NO_EVENTS", "AI_ERROR"}
Answers == {"ok", "error", "busy", "4xx", "5xx", "conn"}

Call == [offense: Offense \cup {Nothing}, handler: Handler \cup {NoHandler},
         attempts: Nat, age: Nat, answer: Answers \cup {"none"}]
Run == [at: {"idle", "select", "insert", "work", "note", "record"},
        offense: Offense \cup {Nothing}, bypass: BOOLEAN, age: Nat, fate: Fates \cup {"none"}]

NoCall == [offense |-> Nothing, handler |-> NoHandler, attempts |-> 0, age |-> 0,
           answer |-> "none"]
NoRun == [at |-> "idle", offense |-> Nothing, bypass |-> FALSE, age |-> 0, fate |-> "none"]

Init ==
    /\ queue = [o \in Offense |-> NoRow]
    /\ status = [o \in Offense |-> "absent"] /\ since = [o \in Offense |-> 0]
    /\ call = [t \in Thread |-> NoCall]
    /\ run = [h \in Handler |-> NoRun]
    /\ notes = [o \in Offense |-> 0]
    /\ overlapped = {}
    /\ faults = 0

Fault == faults < MaxFaults /\ faults' = faults + 1

service == <<status, since, run, notes, overlapped>>

-----------------------------------------------------------------------------
(***************************************************************************)
(* Who asks for an analysis; Poller has the reads that lead to it.         *)
(***************************************************************************)
Request(o, m, source, force, forced) ==
    /\ queue' = Enqueue(queue, o, m, source, force, forced, Now)
    /\ UNCHANGED <<service, call, faults>>

Discover(o, m) == Request(o, m, "auto", FALSE, FALSE)

RetryError(o, m) ==
    /\ queue[o] # NoRow /\ queue[o].status = "ERROR"
    /\ Request(o, m, "auto", FALSE, TRUE)

Retriage(o, m) ==
    /\ Analysts
    /\ o \notin WithStatus(queue, "QUEUED") \cup WithStatus(queue, "IN_PROGRESS")
    /\ Request(o, m, "auto", TRUE, TRUE)

Ask(o, m) == Analysts /\ Request(o, m, "manual", FALSE, TRUE)

-----------------------------------------------------------------------------
(***************************************************************************)
(* The worker.                                                             *)
(***************************************************************************)
Capped(n, top) == IF n > top THEN top ELSE n

\* claim_next; attempts beyond the limit are not told apart.
Taken(o) ==
    LET r == ClaimRow(queue[o], Now + Lease) IN
    [queue EXCEPT ![o] = [r EXCEPT !.attempts = Capped(r.attempts, MaxAttempts)]]

\* A thread claims a row and posts it; the service takes the request.
Post(t, o, h) ==
    /\ call[t] = NoCall /\ run[h] = NoRun
    /\ IsNextClaim(queue, Now, o)
    /\ queue' = Taken(o)
    /\ call' = [call EXCEPT ![t] = [NoCall EXCEPT
                    !.offense = o, !.handler = h, !.attempts = queue'[o].attempts]]
    /\ run' = [run EXCEPT ![h] = [NoRun EXCEPT
                    !.at = "select", !.offense = o,
                    !.bypass = IsManual(queue[o]) \/ queue[o].force]]
    /\ UNCHANGED <<status, since, notes, overlapped, faults>>

\* The service is down: the row waits for its lease.
PostFails(t, o) ==
    /\ call[t] = NoCall
    /\ IsNextClaim(queue, Now, o)
    /\ queue' = Taken(o)
    /\ Fault
    /\ UNCHANGED <<service, call>>

GiveUp(t) ==
    /\ call[t].handler # NoHandler /\ call[t].answer = "none"
    /\ call[t].age >= HttpTimeout
    /\ call' = [call EXCEPT ![t] = NoCall]
    /\ UNCHANGED <<queue, service, faults>>

\* Variants named ...Wrong... are slips the properties must notice; no definition
\* of the model uses them.
SettledAsWrongBusy(answer, attempts) ==
    CASE answer \in {"ok", "busy"} -> "DONE"
      [] answer \in {"error", "4xx"} -> "ERROR"
      [] answer = "5xx" /\ attempts >= MaxAttempts -> "ERROR"
      [] OTHER -> "IN_PROGRESS"

SettledAs(answer, attempts) ==
    CASE answer = "ok" -> "DONE"
      [] answer \in {"error", "4xx"} -> "ERROR"
      [] answer = "5xx" /\ attempts >= MaxAttempts -> "ERROR"
      [] OTHER -> "IN_PROGRESS"

Settle(t) ==
    /\ call[t].answer # "none"
    /\ LET o == call[t].offense
           end == SettledAs(call[t].answer, call[t].attempts)
       IN queue' = IF end = "IN_PROGRESS" THEN queue ELSE Mark(queue, o, end)
    /\ call' = [call EXCEPT ![t] = NoCall]
    /\ UNCHANGED <<service, faults>>

\* The worker process dies; the service does not notice.
WorkerDies ==
    /\ \E t \in Thread : call[t] # NoCall
    /\ call' = [t \in Thread |-> NoCall]
    /\ Fault
    /\ UNCHANGED <<queue, service>>

-----------------------------------------------------------------------------
(***************************************************************************)
(* The handlers of /process-one.                                           *)
(***************************************************************************)
Step(h, from, to) == run[h].at = from /\ run' = [run EXCEPT ![h].at = to]

ReplyWrongLost(h, answer) == run' = [run EXCEPT ![h] = NoRun] /\ UNCHANGED call

\* The answer reaches the thread that still waits for it, if any.
Reply(h, answer) ==
    /\ run' = [run EXCEPT ![h] = NoRun]
    /\ call' = [t \in Thread |->
                  IF call[t].handler = h /\ call[t].answer = "none"
                  THEN [call[t] EXCEPT !.handler = NoHandler, !.answer = answer]
                  ELSE call[t]]

HeldBackWrongForever(o) == status[o] = "PROCESSING"
HeldBackWrongStale(o) == status[o] = "PROCESSING" /\ since[o] < 1
HeldBack(o) == status[o] = "PROCESSING" /\ since[o] < Stale

Analysed(o) == status[o] = "PROCESSED"

Past(h) == run[h].at \in {"insert", "work", "note", "record"}

\* An analyst or a re-triage goes past the mark of another handler, or that handler
\* has outlived it.
Licensed(h, k) == run[h].bypass \/ run[k].bypass \/ run[k].age >= Stale

Enter(h) ==
    LET o == run[h].offense IN
    /\ Step(h, "select", "insert")
    /\ overlapped' = IF \E k \in Handler : Past(k) /\ run[k].offense = o /\ Licensed(h, k)
                     THEN overlapped \cup {o} ELSE overlapped
    /\ UNCHANGED call

TurnAway(h, answer) == Reply(h, answer) /\ UNCHANGED overlapped

Select(h) ==
    LET o == run[h].offense IN
    /\ run[h].at = "select"
    /\ \/ (run[h].bypass \/ ~(Analysed(o) \/ HeldBack(o))) /\ Enter(h)
       \/ ~run[h].bypass /\ Analysed(o) /\ TurnAway(h, "ok")
       \/ ~run[h].bypass /\ HeldBack(o) /\ TurnAway(h, "busy")
    /\ UNCHANGED <<queue, status, since, notes, faults>>

Insert(h) ==
    LET o == run[h].offense IN
    /\ Step(h, "insert", "work")
    /\ status' = [status EXCEPT ![o] = "PROCESSING"]
    /\ since' = [since EXCEPT ![o] = 0]
    /\ UNCHANGED <<queue, call, notes, overlapped, faults>>

\* Queries and models come to a result; two of the results leave no note.
Conclude(h, fate) ==
    /\ run[h].at = "work"
    /\ run' = [run EXCEPT ![h].at = IF fate \in {"AI_ERROR", "DAMAGED"} THEN "record" ELSE "note",
                          ![h].fate = fate]
    /\ IF fate \in {"AQL_ERROR", "AI_ERROR"} THEN Fault ELSE UNCHANGED faults
    /\ UNCHANGED <<queue, status, since, call, notes, overlapped>>

\* get_offense_details finds nothing: the row stays PROCESSING.
NotFound(h) ==
    /\ run[h].at = "work"
    /\ Reply(h, "4xx")
    /\ Fault
    /\ UNCHANGED <<queue, status, since, notes, overlapped>>

\* QRadarUnavailable: HTTP 503, and a PROCESSING row is freed, whoever wrote it.
Unavailable(h) ==
    LET o == run[h].offense IN
    /\ run[h].at = "work"
    /\ Reply(h, "5xx")
    /\ status' = [status EXCEPT ![o] = IF @ = "PROCESSING" THEN "QRADAR_UNAVAILABLE" ELSE @]
    /\ Fault
    /\ UNCHANGED <<queue, since, notes, overlapped>>

NotesAfter(h) ==
    IF run[h].bypass \/ run[h].fate # "PROCESSED" THEN notes
    ELSE [notes EXCEPT ![run[h].offense] = Capped(@ + 1, MaxFaults + 2)]

\* The note and, for a verdict, the closing or the assignment.
Note(h) ==
    /\ Step(h, "note", "record")
    /\ \/ notes' = NotesAfter(h) /\ UNCHANGED faults
       \/ UNCHANGED notes /\ Fault         \* refused; nobody looks
    /\ UNCHANGED <<queue, status, since, call, overlapped>>

RecordWrongNothing(h) ==
    /\ run[h].at = "record"
    /\ Reply(h, IF run[h].fate \in {"AQL_ERROR", "AI_ERROR"} THEN "error" ELSE "ok")
    /\ UNCHANGED <<queue, status, since, notes, overlapped, faults>>

Record(h) ==
    LET o == run[h].offense IN
    /\ run[h].at = "record"
    /\ status' = [status EXCEPT ![o] = run[h].fate]
    /\ since' = [since EXCEPT ![o] = 0]
    /\ Reply(h, IF run[h].fate \in {"AQL_ERROR", "AI_ERROR"} THEN "error" ELSE "ok")
    /\ UNCHANGED <<queue, notes, overlapped, faults>>

\* The process is killed, or an exception outside every try: after the request for
\* the note was sent, it may have been written all the same.
HandlerDies(h, answer) ==
    /\ run[h].at # "idle"
    /\ Fault
    /\ Reply(h, answer)
    /\ notes' \in IF run[h].at = "note" THEN {notes, NotesAfter(h)} ELSE {notes}
    /\ UNCHANGED <<queue, status, since, overlapped>>

HandlerStep(h) ==
    \/ Select(h) \/ Insert(h) \/ NotFound(h) \/ Unavailable(h) \/ Note(h) \/ Record(h)
    \/ \E fate \in Fates : Conclude(h, fate)

-----------------------------------------------------------------------------
Back(t) == IF t > 0 THEN t - 1 ELSE t

PatienceFor(c) == IF c.answer = "none" THEN HttpTimeout ELSE HttpTimeout + LockWait

LifeAt(place) == IF place \in {"select", "insert"} THEN LockWait ELSE Life

Tick ==
    /\ \A t \in Thread : call[t] # NoCall => call[t].age < PatienceFor(call[t])
    /\ \A h \in Handler : run[h] # NoRun => run[h].age < LifeAt(run[h].at)
    /\ call' = [t \in Thread |->
                  IF call[t] = NoCall THEN NoCall ELSE [call[t] EXCEPT !.age = @ + 1]]
    /\ run' = [h \in Handler |->
                  IF run[h] = NoRun THEN NoRun ELSE [run[h] EXCEPT !.age = @ + 1]]
    /\ since' = [o \in Offense |->
                  IF status[o] = "PROCESSING" THEN Capped(since[o] + 1, Stale) ELSE 0]
    /\ queue' = [o \in Offense |->
                  IF queue[o] = NoRow THEN NoRow
                  ELSE [queue[o] EXCEPT !.enqueued_at = Back(@), !.lease_until = Back(@)]]
    /\ UNCHANGED <<status, notes, overlapped, faults>>

WorkerStep(t) ==
    \/ \E o \in Offense, h \in Handler : Post(t, o, h)
    \/ \E o \in Offense : PostFails(t, o)
    \/ GiveUp(t) \/ Settle(t)

Next ==
    \/ \E o \in Offense, m \in Magnitude :
        Discover(o, m) \/ RetryError(o, m) \/ Retriage(o, m) \/ Ask(o, m)
    \/ \E t \in Thread : WorkerStep(t)
    \/ WorkerDies
    \/ \E h \in Handler : HandlerStep(h) \/ \E answer \in {"5xx", "conn"} : HandlerDies(h, answer)
    \/ Tick

Spec == Init /\ [][Next]_vars

\* Timers start the worker again and again, asyncio runs the handlers, time passes.
FairSpec ==
    /\ Spec
    /\ WF_vars(Tick)
    /\ \A t \in Thread : WF_vars(WorkerStep(t))
    /\ \A h \in Handler : WF_vars(HandlerStep(h))

-----------------------------------------------------------------------------
(***************************************************************************)
(* Properties.                                                             *)
(***************************************************************************)

\* The shape of every variable; a thread waits for a handler that serves its offense.
TypeOK ==
    /\ queue \in [Offense -> Row \cup {NoRow}]
    /\ status \in [Offense -> Statuses] /\ since \in [Offense -> 0..Stale]
    /\ call \in [Thread -> Call] /\ run \in [Handler -> Run]
    /\ \A t \in Thread : call[t].handler # NoHandler =>
            run[call[t].handler].offense = call[t].offense
    /\ notes \in [Offense -> Nat] /\ overlapped \subseteq Offense
    /\ faults \in 0..MaxFaults

\* Although SELECT and INSERT are two transactions and the queue sends an offense
\* again while its first handler is still at it, two analyses of an offense run at
\* once only after an analyst or a re-triage went past the mark of the first, or the
\* first outlived PROCESSING_STALE_MINUTES.
OneAnalysis ==
    \A h, k \in Handler :
        h # k /\ Past(h) /\ Past(k) /\ run[h].offense = run[k].offense
            => run[h].offense \in overlapped

\* An automatic request is done with only if the offense was analysed or there was
\* nothing to analyse, whatever answer or silence the worker went by.
DoneMeansAnalysed ==
    \A o \in Offense \ overlapped :
        queue[o] # NoRow /\ queue[o].status = "DONE" /\ queue[o].source = "auto" /\ ~queue[o].force
        => status[o] \in {"PROCESSED", "NO_EVENTS", "DAMAGED"}

\* Timeouts, expired leases and repeated requests do not repeat a verdict: each
\* verdict note beyond the first has a failure to answer for it.
OneVerdictNote ==
    \A o \in Offense \ overlapped : notes[o] <= 1 + faults

\* A row nobody settles any more (its thread timed out, died or was told "busy") is
\* settled in the end, even if every analysis outlasts the worker's patience: the
\* next one finds it PROCESSED.  Not so where an analysis comes to no verdict, as
\* NO_EVENTS holds nobody back: it may be repeated, and outlast the worker, for ever.
Pending(o) ==
    /\ queue[o] # NoRow /\ queue[o].status \in {"QUEUED", "IN_PROGRESS"}
    /\ queue[o].source = "auto" /\ ~queue[o].force

AutomaticSettles ==
    \A o \in Offense :
        Pending(o) ~> ~Pending(o) \/ o \in overlapped \/ status[o] \in {"NO_EVENTS", "DAMAGED"}

\* An offense does not stay marked as being processed for ever, whoever died or gave up
\* over it: the queue sends it again until the mark is old enough to be ignored.  Only
\* an ERROR row may leave it marked (HTTP 404, or 5xx on the last attempt): the worker
\* lets such a row rest, and it is the poller's or an analyst's to bring back.
StuckMarkFreed ==
    \A o \in Offense :
        status[o] = "PROCESSING" ~>
            status[o] # "PROCESSING" \/ (queue[o] # NoRow /\ queue[o].status = "ERROR")
=============================================================================
