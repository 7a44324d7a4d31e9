------------------------------- MODULE Worker -------------------------------
(***************************************************************************)
(* The queue at work: producers that enqueue, one worker process at a time *)
(* (worker.lock) whose threads claim rows, POST them to /process-one and   *)
(* settle them, chat sessions that put the worker on hold, and the clock   *)
(* that runs against leases, HTTP timeouts and TTLs.                       *)
(*                                                                         *)
(* A thread of worker.py:loop is always at one of                          *)
(*   top    about to test `stop` and the batch limit                       *)
(*   wait   in wait_for_chat_hold                                          *)
(*   tx     has read the clock, claim_next's transaction not yet done      *)
(*   call   POST /process-one is in flight                                 *)
(*   mark   the response is in hand, the row not yet settled               *)
(*   tally  process_claim returned an outcome, counters not yet updated    *)
(*   done   returned, died of an exception, or no run is going on          *)
(* An increment such as `taken += 1` of one closure variable is atomic     *)
(* under CPython's interpreter lock and is part of the step around it.     *)
(***************************************************************************)
EXTENDS QueueDB

CONSTANTS
    Thread,         \* the worker's thread pool, CONCURRENCY of them
    NoClaim,        \* a thread that holds no claim
    Submission,     \* what producers ask for: see SubmissionType
    Lease,          \* worker_lease_seconds
    HttpTimeout,    \* timeout_seconds + 30
    ClaimWait,      \* longest wait of claim_next and enqueue for the SQLite lock
    MarkWait,       \* longest wait of mark for it
    MaxAttempts,    \* worker_max_attempts
    MaxConnErrors,  \* MAX_CONN_ERRORS
    BatchPerRun,    \* worker_batch_per_run, 0 for no limit
    LowMagMax,      \* queue_sweep_low_mag_max
    Ttl,            \* queue_sweep_ttl_days
    Retention,      \* queue_done_retention_days
    HoldSeconds,    \* durations app.py passes to set_hold
    MaxNow          \* bound: the clock stops here

(***************************************************************************)
(* `force` is the override stored in the row; `forced` is enqueue's        *)
(* argument of that name (app.py passes force or is_manual, the poller     *)
(* passes True for a retry and for a re-triage).                           *)
(***************************************************************************)
SubmissionType == [offense: Offense, magnitude: Magnitude, source: Source,
                   force: BOOLEAN, forced: BOOLEAN]

Claim == [offense: Offense, attempts: Nat, is_manual: BOOLEAN, force: BOOLEAN]

ASSUME SubmissionAssumption == Submission \subseteq SubmissionType
ASSUME ThreadAssumption == IsFiniteSet(Thread)
ASSUME NoClaimAssumption == NoClaim \notin Claim
ASSUME ParameterAssumption ==
    /\ Lease \in Nat /\ HttpTimeout \in Nat
    /\ ClaimWait \in Nat /\ MarkWait \in Nat
    /\ MaxAttempts \in Nat /\ MaxConnErrors \in Nat /\ BatchPerRun \in Nat
    /\ LowMagMax \in Nat /\ Ttl \in Nat /\ Retention \in Nat
    /\ HoldSeconds \subseteq Nat /\ MaxNow \in Nat

(***************************************************************************)
(* config_schema.py asks for a lease longer than the analysis.  What the   *)
(* code needs is a little more: the lease runs from the clock read before  *)
(* the claim's transaction until the settling UPDATE, so it also covers    *)
(* two waits for the database lock.  They differ: claim_next goes through  *)
(* _retry_locked, five attempts of 30 s with 2 s of pauses between them,   *)
(* mark is one UPDATE that waits 30 s.  The defaults satisfy it:           *)
(* 152 + 630 + 30 = 812 < 900.                                             *)
(***************************************************************************)
ASSUME LeaseAssumption == ClaimWait + HttpTimeout + MarkWait < Lease

VARIABLES
    queue,          \* work_queue
    now,            \* wall clock
    hold,           \* queue_control['hold:chat'], 0 if never set
    running,        \* a worker process holds worker.lock
    stop, taken, connErrors, qradarDown,     \* main()'s closure variables
    pc, since, claim, answer                 \* per thread; since: when it got there

runVars == <<running, stop, taken, connErrors, qradarDown>>
threadVars == <<pc, since, claim, answer>>
vars == <<queue, now, hold, runVars, threadVars>>

(***************************************************************************)
(* What requests.post can yield.  Response is what process_claim tells     *)
(* apart among HTTP responses, NoResponse the exceptions it maps itself.   *)
(***************************************************************************)
Response == {"ok", "error", "processing", "4xx", "5xx", "503retry"}
NoResponse == {"conn", "timeout", "err"}
Outcome == {"ok", "app_error", "busy", "http4xx", "http5xx_final",
            "qradar_down", "http5xx"} \cup NoResponse
NoAnswer == "none"

OutcomeOf(response, attempts) ==
    CASE response = "ok" -> "ok"
      [] response = "error" -> "app_error"
      [] response = "processing" -> "busy"
      [] response = "4xx" -> "http4xx"
      [] response \in {"5xx", "503retry"} /\ attempts >= MaxAttempts -> "http5xx_final"
      [] response = "503retry" /\ attempts < MaxAttempts -> "qradar_down"
      [] OTHER -> "http5xx"

\* The row after process_claim: some outcomes leave it to its lease.
Settled(q, o, outcome) ==
    IF outcome = "ok" THEN Mark(q, o, "DONE")
    ELSE IF outcome \in {"app_error", "http4xx", "http5xx_final"} THEN Mark(q, o, "ERROR")
    ELSE q

InFlight(t) == pc[t] \in {"call", "mark"}

Idle(place) == [t \in Thread |-> place]

Init ==
    /\ queue = [o \in Offense |-> NoRow]
    /\ now = 0
    /\ hold = 0
    /\ running = FALSE
    /\ stop = FALSE /\ taken = 0 /\ connErrors = 0 /\ qradarDown = 0
    /\ pc = Idle("done")
    /\ since = Idle(0)
    /\ claim = Idle(NoClaim)
    /\ answer = Idle(NoAnswer)

(***************************************************************************)
(* Outside the worker: producers, chat sessions, time.                     *)
(***************************************************************************)
\* enqueue reads the clock before it waits for the lock.
Submit(s, at) ==
    /\ now - ClaimWait <= at /\ at <= now
    /\ queue' = Enqueue(queue, s.offense, s.magnitude, s.source, s.force, s.forced, at)
    /\ UNCHANGED <<now, hold, runVars, threadVars>>

SetHold(seconds) ==
    /\ hold' = now + seconds
    /\ UNCHANGED <<queue, now, runVars, threadVars>>

Patience(place) ==
    CASE place = "tx" -> ClaimWait
      [] place = "call" -> HttpTimeout
      [] OTHER -> MarkWait

Timed == {"tx", "call", "mark"}

Tick ==
    /\ now < MaxNow
    /\ \A t \in Thread : pc[t] \in Timed => now < since[t] + Patience(pc[t])
    /\ now' = now + 1
    /\ UNCHANGED <<queue, hold, runVars, threadVars>>

(***************************************************************************)
(* A worker run.                                                           *)
(***************************************************************************)
FreshRun == stop' = FALSE /\ taken' = 0 /\ connErrors' = 0 /\ qradarDown' = 0

StartRun ==
    /\ ~running
    /\ running' = TRUE
    /\ queue' = Sweep(queue, LowMagMax, Ttl, Retention, now)
    /\ FreshRun
    /\ pc' = Idle("top")
    /\ UNCHANGED <<now, hold, since, claim, answer>>

EndRun ==
    /\ running
    /\ \A t \in Thread : pc[t] = "done"
    /\ running' = FALSE
    /\ FreshRun       \* the closure variables are gone with the process
    /\ UNCHANGED <<queue, now, hold, threadVars>>

\* The process is killed (deploy, OOM, reboot): the kernel drops the lock.
Crash ==
    /\ running
    /\ running' = FALSE
    /\ FreshRun
    /\ pc' = Idle("done") /\ since' = Idle(0)
    /\ claim' = Idle(NoClaim) /\ answer' = Idle(NoAnswer)
    /\ UNCHANGED <<queue, now, hold>>

(***************************************************************************)
(* One thread of the pool.                                                 *)
(***************************************************************************)
Goto(t, place) ==
    /\ pc[t] # place
    /\ pc' = [pc EXCEPT ![t] = place]
    /\ since' = [since EXCEPT ![t] = IF place \in Timed THEN now ELSE 0]

BatchFullWrongBound == BatchPerRun > 0 /\ taken > BatchPerRun

BatchFull == BatchPerRun > 0 /\ taken >= BatchPerRun

Begin(t) ==
    /\ pc[t] = "top"
    /\ Goto(t, IF stop \/ BatchFull THEN "done" ELSE "wait")
    /\ UNCHANGED <<queue, now, hold, runVars, claim, answer>>

\* wait_for_chat_hold leaves on `stop` or once the hold is over; `stop` is
\* tested again, and claim_next reads the clock.
PassHold(t) ==
    /\ pc[t] = "wait"
    /\ stop \/ hold <= now
    /\ Goto(t, IF stop THEN "done" ELSE "tx")
    /\ UNCHANGED <<queue, now, hold, runVars, claim, answer>>

Count(n) == IF BatchPerRun > 0 THEN n + 1 ELSE n    \* only the batch limit reads `taken`

ClaimNext(t) ==
    /\ pc[t] = "tx"
    /\ \E o \in Offense :
        /\ IsNextClaim(queue, since[t], o)
        /\ queue' = [queue EXCEPT ![o] = ClaimRow(@, since[t] + Lease)]
        /\ claim' = [claim EXCEPT ![t] =
             [offense |-> o, attempts |-> queue[o].attempts + 1,
              is_manual |-> IsManual(queue[o]), force |-> queue[o].force]]
    /\ taken' = Count(taken)
    /\ Goto(t, "call")
    /\ UNCHANGED <<now, hold, running, stop, connErrors, qradarDown, answer>>

ClaimNothing(t) ==
    /\ pc[t] = "tx"
    /\ Claimable(queue, since[t]) = {}
    /\ Goto(t, "done")
    /\ UNCHANGED <<queue, now, hold, runVars, claim, answer>>

Respond(t, response) ==
    /\ pc[t] = "call"
    /\ answer' = [answer EXCEPT ![t] = response]
    /\ Goto(t, "mark")
    /\ UNCHANGED <<queue, now, hold, runVars, claim>>

Fail(t, exception) ==
    /\ pc[t] = "call"
    /\ exception = "timeout" => now >= since[t] + HttpTimeout
    /\ answer' = [answer EXCEPT ![t] = exception]
    /\ claim' = [claim EXCEPT ![t] = NoClaim]
    /\ Goto(t, "tally")
    /\ UNCHANGED <<queue, now, hold, runVars>>

Settle(t) ==
    /\ pc[t] = "mark"
    /\ LET outcome == OutcomeOf(answer[t], claim[t].attempts) IN
        /\ queue' = Settled(queue, claim[t].offense, outcome)
        /\ answer' = [answer EXCEPT ![t] = outcome]
    /\ claim' = [claim EXCEPT ![t] = NoClaim]
    /\ Goto(t, "tally")
    /\ UNCHANGED <<now, hold, runVars>>

Tally(t) ==
    /\ pc[t] = "tally"
    /\ connErrors' = IF answer[t] = "conn" THEN connErrors + 1 ELSE connErrors
    /\ qradarDown' = CASE answer[t] = "conn" -> qradarDown
                       [] answer[t] = "qradar_down" -> qradarDown + 1
                       [] OTHER -> 0
    /\ stop' = (stop \/ (answer[t] = "conn" /\ connErrors' >= MaxConnErrors)
                     \/ (answer[t] = "qradar_down" /\ qradarDown' >= MaxConnErrors))
    /\ answer' = [answer EXCEPT ![t] = NoAnswer]
    /\ Goto(t, "top")
    /\ UNCHANGED <<queue, now, hold, running, taken, claim>>

\* "database is locked" to the end of the patience: the exception stays in
\* the future nobody reads, the thread is gone and its row keeps its lease.
Die(t) ==
    /\ pc[t] \in {"wait", "tx", "mark"}
    /\ claim' = [claim EXCEPT ![t] = NoClaim]
    /\ answer' = [answer EXCEPT ![t] = NoAnswer]
    /\ Goto(t, "done")
    /\ UNCHANGED <<queue, now, hold, runVars>>

ThreadStep(t) ==
    \/ Begin(t) \/ PassHold(t) \/ ClaimNext(t) \/ ClaimNothing(t)
    \/ \E response \in Response : Respond(t, response)
    \/ \E exception \in NoResponse : Fail(t, exception)
    \/ Settle(t) \/ Tally(t) \/ Die(t)

Next ==
    \/ \E s \in Submission, at \in 0..now : Submit(s, at)
    \/ \E seconds \in HoldSeconds : SetHold(seconds)
    \/ Tick
    \/ StartRun \/ EndRun \/ Crash
    \/ \E t \in Thread : ThreadStep(t)

Spec == Init /\ [][Next]_vars

-----------------------------------------------------------------------------
(***************************************************************************)
(* Properties.                                                             *)
(***************************************************************************)

\* The shape of every variable.
TypeOK ==
    /\ queue \in [Offense -> Row \cup {NoRow}]
    /\ now \in Nat /\ hold \in Nat
    /\ running \in BOOLEAN /\ stop \in BOOLEAN
    /\ taken \in Nat /\ connErrors \in Nat /\ qradarDown \in Nat
    /\ pc \in [Thread -> {"top", "wait", "tx", "call", "mark", "tally", "done"}]
    /\ since \in [Thread -> Nat]
    /\ claim \in [Thread -> Claim \cup {NoClaim}]
    /\ answer \in [Thread -> Response \cup Outcome \cup {NoAnswer}]

\* Two threads never work on the same offense at the same time, whatever
\* crashes, timeouts, expired leases and re-submissions came before.
OneThreadPerOffense ==
    \A t, u \in Thread :
        InFlight(t) /\ InFlight(u) /\ claim[t].offense = claim[u].offense => t = u

\* While a thread works on an offense its row is the very row it claimed:
\* nobody swept it, settled it, re-queued it, claimed it again or changed
\* how it is to be analysed.  So the unconditional UPDATE of mark() settles
\* the thread's own claim and never somebody else's.
ClaimStaysCurrent ==
    \A t \in Thread : InFlight(t) =>
        LET r == queue[claim[t].offense] IN
        /\ r # NoRow
        /\ r.status = "IN_PROGRESS"
        /\ r.attempts = claim[t].attempts
        /\ IsManual(r) = claim[t].is_manual
        /\ r.force = claim[t].force

\* The lease of a row in a thread's hands has not run out: what makes the
\* two properties above hold.  Only strictly earlier leases are up for grabs.
LeaseCoversWork ==
    \A t \in Thread : InFlight(t) => now < queue[claim[t].offense].lease_until

\* The batch limit and the stop after repeated failures are tested before
\* the work and counted after it; each thread can slip past the test once.
OvershootBounded ==
    LET slack == Cardinality(Thread) - 1 IN
    /\ BatchPerRun > 0 => taken <= BatchPerRun + slack
    /\ MaxConnErrors > 0 => connErrors <= MaxConnErrors + slack
    /\ MaxConnErrors > 0 => qradarDown <= MaxConnErrors + slack

\* position_of's WHERE clause and claim_next's ORDER_BY are two texts; they
\* must rank the waiting rows the same way.
PositionFollowsClaimOrder ==
    \A o \in WithStatus(queue, "QUEUED") :
        AheadOf(queue, o) = {p \in WithStatus(queue, "QUEUED") : Precedes(queue, p, o)}

\* The promise the queue was built for: a claim never passes over a louder
\* offense that was waiting, nor over an analyst's request of equal magnitude.
Claims(o) == \E t \in Thread : pc[t] = "tx" /\ pc'[t] = "call" /\ claim'[t].offense = o

LoudestFirst ==
    [][\A o \in Offense : Claims(o) =>
          \A p \in WithStatus(queue, "QUEUED") :
             /\ queue[p].magnitude <= queue[o].magnitude
             /\ queue[p].magnitude = queue[o].magnitude /\ IsManual(queue[p])
                   => IsManual(queue[o])]_vars
=============================================================================
