# Verification of the QRadar AI middleware

TLA+ modules that model the middleware, TLC configurations that check them on
small instances, and theorems about them that TLAPS checks. The reference is
the code under `src/`; where a document or a comment disagrees with it, the
model follows the code and a run exhibits the disagreement.

## 1. The system

| component | source | state it keeps | operations |
|---|---|---|---|
| work queue | `queue_db.py` | tables `work_queue`, `queue_control` of `ai_state.db` | `enqueue`, `claim_next`, `mark`, `sweep`, `position_of`, `set_hold`/`hold_active` |
| worker | `worker.py` | `worker.lock`, counters of a run, its threads | one run: sweep, then threads that claim, POST to `/process-one`, settle, count |
| triage | `app.py` `/process-one` | table `offenses`, cache of rule names; in QRadar: offense, notes, block-list | analyse one offense: AQL, models, guard, escalation, unblocking, note, close, assign, record |
| public entry | `app.py` `/universal-analysis`, `/queue/*` | none of its own | enqueue a request, report status and depth |
| poller | `poller.py` | `poller.lock` | discovery of new offenses, retry of ERROR rows, re-triage of long-lived ones |
| chat sandbox | `app.py` `/chat/*` | the hold `hold:chat` | set the hold, renew it while waiting for the model, leave a grace period |
| matching of use cases | `prompts_loader.py`, `prompts.json` | none | which use cases (lenses) an offense matches, by description and by rule name |
| catch-up tool | `tools/catchup.py` | none of its own | classify and order old offenses, submit them |
| botnet scan | `botnet_scan.py` | table `botnet_scan`, the block-list in QRadar | review stale entries, hunt new ones |
| digests | `falcon_pua_scan.py`, `cortex_xdr_scan.py` | tables of what was reported | read, filter, send, mark as reported |
| endpoint cleanup | `cortex_endpoint_cleanup.py` | table of deleted endpoints | notice those that return, find silent ones, guard, delete, record, report |
| CDN allow-list | `cdn_allowlist_update.py` | a reference set in QRadar | collect ranges, intersect with the feed, purge and load |
| automatic update | `autoupdate.sh`, `deploy.sh` | git HEAD, the packages, the running service | pull, install, smoke test, restart, health check, roll back |
| the rest | `config_schema.py`, `tracker.py`, `tools/aql_runner.py`, `tools/ai_state_stats.py`, `tools/measure_tier_disagreement.py`, `tests/`, `prompts/`, `queries/` | none | configuration, read-only reports, data |

How they interact. Poller, web form and catch-up tool *enqueue*; the worker
*claims* a row under a lease and calls `/process-one` over HTTP; what comes
back decides whether the row becomes DONE or ERROR or stays IN_PROGRESS until
its lease runs out. `/process-one` runs in several gunicorn processes and talks
to QRadar and to the models; its own record of an offense is the row of
`offenses`, which the poller reads to decide what to enqueue. A chat session
sets a hold in the database that the worker's threads read before each claim.
The table `work_queue` is the only state that all of them share. The jobs of
the timers (scans, digests, cleanup, allow-list) and the update share nothing
with each other or with the queue but the host they run on.

What is hard about it: threads that claim concurrently while leases run out;
an HTTP timeout that leaves the analysis running; workers, handlers and the
service being killed between any two steps; partly failed queries; verdicts of
two models with three thresholds; QRadar calls whose failure is only logged;
retries that meet the traces of the first attempt; rows that change while
somebody works on them. `PROJECT.json` lists these hazards by line.

What makes each component correct:

* *queue and worker*: nobody works on an offense twice at a time; a thread
  settles the row it claimed; a row is never lost, and comes back if its holder
  fails; louder offenses go first; the reported position is true; the limits of
  a run hold.
* *triage*: an offense is closed only on evidence (a verdict, or an emptiness
  that every matched use case takes for good news); a compromise stays open; an
  address is unblocked only after review; what will be retried has left no
  trace, or acted on a complete analysis.
* *poller*: every open offense that matches is eventually queued, none is
  re-analysed more often than the back-off says.
* *queue, worker and triage together*: no offense is analysed twice at a time,
  what is called done has a result, verdicts are not repeated, a row settles, and
  no offense stays marked as being processed.
* *chat*: while a user waits for the model the worker starts nothing new; once
  the sessions end the worker goes on; the history loses no more than it must.
* *catch-up*: what a pass finds that nobody has seen is attended to, a stuck one
  is put into the queue again, no use case waits for the whole of another.
* *digests*: nothing is overlooked and nothing is shown twice, but for what a
  cap or a failure answers for.
* *cleanup and botnet scan*: only what is silent is deleted or taken off, what
  was changed can be told from the table, a return is reported, no server is
  blocked.
* *allow-list*: only addresses of the providers are exempt, and the list
  recovers from every failure.
* *update*: the service runs code that passed the smoke test, answers, and ends
  up with the last good push.

## 2. Modules

| module | what it is |
|---|---|
| `QueueDB` | the table and the transactions on it, as operators |
| `Worker` | producers, worker runs, threads, crashes and the clock around that table; type invariant and safety properties |
| `LeasedQueue` | what the queue promises, without clocks and leases |
| `WorkerLeased` | the refinement mapping from `Worker` to `LeasedQueue` |
| `WorkerProofs` | theorems about `Worker` |
| `WorkerLeasedProofs` | the refinement, proved |
| `MCWorker` | instances of the above for TLC |
| `Triage` | `/process-one` for one offense under several handlers |
| `TriageClaims` | statements about the triage that the code does not keep |
| `TriageProofs` | theorems about `Triage` |
| `MCTriage` | instances for TLC |
| `Poller` | `poller.py` on top of `QueueDB`, with QRadar, verdicts, notes, analysts, the worker and the sweep around it |
| `PollerClaims` | a statement about the poller that the code does not keep |
| `PollerProofs` | theorems about `Poller` |
| `MCPoller` | instances for TLC |
| `Pipeline` | `QueueDB`, worker and `/process-one` together: calls, handlers and marks that outlive each other |
| `PipelineProofs` | theorems about `Pipeline` |
| `Host` | which program of the host a behaviour is about |
| `ChatHold` | `/chat/send`, the hold, the worker's threads and the one slot of the model |
| `AutoUpdate` | `autoupdate.sh`, run by cron and by `deploy.sh` |
| `AutoUpdateProofs` | theorems about `AutoUpdate` |
| `Catchup` | `tools/catchup.py` |
| `MCServices` | chat, update and catch-up tool, composed for TLC |
| `ServicesProofs` | theorems about `ChatHold`, `Catchup` and the composition |
| `FalconDigest`, `CortexDigest` | the two daily reports |
| `EndpointCleanup` | the deletion of silent endpoints |
| `BotnetScan` | review and hunt of the block-list |
| `CdnAllowlist` | the list of exempt addresses |
| `MCJobs` | the five jobs, composed for TLC |
| `JobsProofs` | theorems about the five jobs |

### Queue and worker

A table is a function from offenses to rows or `NoRow`. `BEGIN IMMEDIATE`
makes each transaction of `queue_db.py` one atomic operator; the two DELETEs of
`sweep` are autocommitted one after the other but concern disjoint sets of rows
that no other operation moves between, and are one step. Each thread has a place
(`pc`), the time it got there (`since`), its claim and the answer in its hands.
The places follow `worker.py:loop`: test the limits (`top`), wait for the hold
(`wait`), claim (`tx`: the clock has been read, the transaction has not run),
call (`call`), settle (`mark`), count (`tally`). `claim_next` computes the lease
from the clock read *before* it waits for the database lock, which is why `tx`
is a place of its own and why `since` matters. `Die` is the exception "database
is locked" that ends a thread inside an unread future; `Crash` ends the process.

Time is an integer clock. A thread cannot stay longer at `tx` than `ClaimWait`,
at `call` than `HttpTimeout`, at `mark` than `MarkWait` (`Patience`); this is what
`timeout=` of `requests` and of `sqlite3` give. The two waits for the database
differ: `claim_next` goes through `_retry_locked`, five attempts of 30 s with 2 s
of pauses between them; `mark` is one UPDATE that waits 30 s. The assumption
`LeaseAssumption` (ClaimWait + HttpTimeout + MarkWait < Lease) says what the lease
has to cover, and the defaults meet it: 152 + 630 + 30 = 812 < 900 seconds.

Left out: the columns `lens` and `result`, the overrides other than `force`,
logging, the alert on the depth. Timestamps are numbers, so the conversion in
`_plus` is not covered: it reads a UTC string as local time and writes it back,
which is harmless until daylight saving changes in between; then a lease, a hold
or a cut-off is an hour off (`queue_db.py:65`). An hour more delays a row, an hour
less frees one that is being worked on; `LeaseAssumption` fails for that lease.

### Triage

One offense, its row in `offenses`, its state in QRadar (open, on the
block-list) and a set of handlers. Each step between two awaits that can be
separated by a crash or by another handler is an action. `found` keeps the
result of every AQL file: rows, empty, or failed. `verdict` is the verdict that
counts, `author` the provider that gave it, so that "the heavy model reviewed
it" is `author[r] = Heavy`; the test of the code (`escalated or used_provider ==
esc_provider`) is the same. `deeds` records what the run did to the offense.
Scores are tenths and only the values around the thresholds matter.

Abstracted: the text of prompts and notes, the time window, the parsing of
answers, the retries of tier 1 within one call, the wording of a verdict (only
whether the guard reads it as a compromise). Assumed: the prompt files named in
`prompts.json` exist. A handler that ends by an exception outside every `try`
(HTTP 500) is the same as one that dies.

### Poller

One run of the poller at a time (`poller.lock`), in the phase `discover` or
`retriage`. For the offense in its hands it is at a `place`, one for each read
that others may act after: the state of the row, its age, the verdict, the
notes, and last the enqueueing. Everything else is what the poller may meet:
the worker claims, begins (`Arrive` wipes the verdict), skips, judges or fails;
an analyst asks again; the sweep deletes; QRadar revises a magnitude or an
analyst closes the offense; the database is lost; a read, a note or the whole
run fails. A failure of any kind costs one of `MaxFaults`.

Ages, not times, decide what the poller does, so the clock stands still at
`Horizon` and `Tick` moves every stamp one unit back, down to 0. All periods are
shorter than `Horizon`, which makes a stamp of 0 "older than everything" and the
state space finite without an end of time: the properties are checked over
unbounded histories. `Tick` waits until a run has ended in the present unit
(`ran`): the poller runs every few minutes and a unit stands for hours.

Left out: the statistics, the limit of 500 offenses that the second query asks
for, the catch-up tool, which enqueues under a source of its own (`Catchup`), and how the worker's rows come back from a lost answer (that is `Worker`).
`ByName` and `ByRule` stand for the matching of use cases, the latter being
unknown in a run whose look-up of rule names failed.

### Pipeline

What lies between the two sides: the row of `work_queue`, the request that
carries a claim, the handler that serves it, the row of `offenses`. `Worker`
takes an answer from nowhere and `Triage` a request; here a thread waits for one
handler, gives up after `HttpTimeout`, and the handler goes on, answers nobody,
and may meet the second handler that the expired lease has brought. A handler
reads the row of the offense (`select`) and writes PROCESSING (`insert`) in two
transactions; `work`, `note` and `record` are what `Triage` has in detail, here
one step each with every result. `notes` counts the verdict notes of automatic
runs; `overlapped` remembers the offenses of which a second analysis was let in
by a licence of the code: an analyst or a re-triage goes past the mark, or the
first handler has outlived `PROCESSING_STALE_MINUTES`.

Time is relative: it is always `Now`, `Tick` moves leases back and makes calls,
handlers and marks older, so there is no end of time here either. A handler may
live up to `Life`, which reaches the staleness of its mark. Claim and POST are
one step (the time between them is the thread's own, without a wait), and so are
the answer of a handler and its arrival. The lock waits that `Worker` has at `tx`
are covered by `LockWait` at `select` and `insert`. The coarser steps are why the
assumption is `HttpTimeout + LockWait < Lease` and not that of `Worker`.

### Chat

`ChatHold` has sessions of `/chat/send`, the worker's threads and the one slot of
llm01. A session sets the hold, tries, on 5xx renews it and sleeps, streams,
and leaves the grace period in `finally`, whatever ended it; a kill of the
service leaves it out. A thread waits for the hold, and between seeing none and
claiming it can be overtaken by a session. The hold is the time it has left.
`began` remembers which threads have taken an offense since a session's request.
`costs` and `dropped` are the history in tokens and how many messages the
trimming cut.

The model answers 5xx within `Patience`, so that a session renews its hold every
`2 * Patience` at the latest (`RenewalAssumption`: a refused POST and a pause of 2 s
against holds of 120 s and 45 s). If llm01 kept a request waiting instead of
refusing it, up to the timeout of 300 s, the hold would run out under it.

### Automatic update

Commits are numbered by their pushes. A run compares HEAD with origin/main,
pulls (which fetches once more), installs packages if the requirements changed,
tests, restarts, checks and rolls back; each is a step between which a push, a
kill (`RunStops`), a restart of the service for another reason or another run may
come, as neither cron nor
`deploy.sh` takes a lock. What a commit needs, whether its packages can be installed, whether it passes and whether it starts are constants;
`PackagesAssumption` says that packages of a later commit do no harm, since `pip
install` removes nothing. Left out: the check of the files' permissions.

### Catch-up

A pass classifies all open offenses by their state at its start, orders them
round robin over the use cases, and hands them to threads; each posts to
`/universal-analysis`, where `Enqueue` answers. The round robin of `order_candidates`
is stated by what it gives: the round of a candidate is its place within its use
case (`Round`), and the list goes by rounds, within a round by the size of the use
case and its name (`InFront`), which fixes it. The use case of an offense without
a key is its description (`UseCase`).

Around the pass there is what decides whether its work comes to anything. The
worker takes the waiting offenses in the order of the queue (`Next1` is
`IsNextClaim` of `QueueDB`), and an analysis ends in each of the ways there are: a
verdict, nothing found, damaged data, a failed query or model, an offense QRadar
does not know (`Analyse`), no answer, with or without effect (`AnswerLost`), QRadar
down (`QRadarDown`). The sweep drops finished rows and quiet waiting ones. Offenses
leave the poller's window, the database is cleaned, a post fails with or without
having been carried out, connections are refused until the pass gives up. An
analyst's explicit list is the same tool with a lock of its own. Claim, analysis
and settling are one step (`Pipeline` has them apart); the rows the poller
queues are left out.

### The jobs of the timers

Each runs alone (file lock), reads an external system, changes something there
or sends a message, and writes its table; every step between can fail or be the
last. Time is counted in the units in which the job is run, relative to now.

A request or a message can fail, and it can be carried out without the job learning of
it: `requests.post` raises for a time-out in either case, so that both outcomes are
actions (`ReportAnswerLost`, `SendAnswerLost`) or disjuncts (`Request`).

* `FalconDigest`: detections with an age and a `fate`, which records what became
  of each: shown, known, cut by the cap of the message, beyond the rows of the
  query, unsent, missed by a failed run, or still waiting. Events arrive up to
  `Late` after they happened.
* `CortexDigest`: the pages of the API, by offset, while alerts arrive; the loop's
  three ways to end; the cap. Alerts are numbered as they arrive and only grow older, so
  what a query can see is the tail of the list from `FirstInWindow` on.
* `EndpointCleanup`: per endpoint the days of silence; the rows of deleted ones
  with what has come back; the look-up tables `by_id` and `by_name`; deletion in
  batches, then record, report and marking. An endpoint whose agent is uninstalled
  is not back (`Active`). The report has lines for `MaxLines` returns (60 in the code)
  and only counts the others, while `mark_returned` marks them all. The webhook is
  configured.
* `BotnetScan`: per address when it was last seen and last attacked; review and
  hunt, each with an open transaction (`written`) that a kill rolls back while the
  changes in QRadar stay; rules and triage change the list at the same time. `changes`
  are the requests QRadar has carried out, whatever the job was told of them, and a
  roll-back does not take them from it; `cut` is the phase whose rows it took.
* `CdnAllowlist`: ranges as pairs of small numbers, `ranges.sort()` by its result (the
  list of all ranges that `IsSorted` holds of), `bisect` as the code has it, the feed,
  the purge and the load, each of which may fail.

Dry runs, which change nothing, and the wording of messages are left out, as are
the filters by name (allow-lists): only items that pass them are modelled.

`MCServices` and `MCJobs` choose one program per behaviour (`job`): the programs share
no state, so that their state spaces stand side by side. The properties in these
modules name the hazard and take together the programs exposed to it; the
statement for each program is in its module.

## 3. Runs

| run | instance | shows |
|---|---|---|
| `Worker` | 2 threads, 2 offenses, lease 4, HTTP timeout 1, waits of claim and settling 1 each, clock up to 5, batch limit 1, failure limit 1 | `OneThreadPerOffense`, `ClaimStaysCurrent`, `OvershootBounded`, `TypeOK` |
| `WorkerRefine` | 2 threads, 2 offenses, lease 2, HTTP timeout 1, clock up to 3 | `ImplementsLeasedQueue` |
| `WorkerOrder` | 1 thread, 3 offenses of 2 magnitudes, both sources, a hold of 1 | `LoudestFirst`, `PositionFollowsClaimOrder` |
| `Triage` | 1 handler that may be run again and again and may die once; offenses of 0 to 3 use cases, cap of 2 queries; scores 0.3, 0.4, 0.6, 0.7 | `NeverClosedBlind`, `RetriesLeaveNoTrace`, `UnblockOnlyReviewed`, `CompromiseStaysOpen`, `TypeOK` |
| `Poller` | 1 offense, quiet or loud, matched by a rule's name; an analyst; one fault; periods 1 to 3, horizon 4 | `FreshVerdictStands`, `SweptStaysOut`, `AnalystKept`, `TypeOK` |
| `PollerRevisit` | 2 offenses, both old or both new, one place per run and phase; periods 1 and 2, horizon 3 | `NewIsQueued`, `LoudIsRevisited`, liveness |
| `Pipeline` | 1 offense, 2 threads, 2 handlers, HTTP timeout 2, lock wait 1, lease 4, staleness and life 6, one fault, analysts | `OneAnalysis`, `DoneMeansAnalysed`, `OneVerdictNote`, `TypeOK`, and `AutomaticSettles`, `StuckMarkFreed`, liveness |
| `Services` | chat: 2 sessions, 1 thread, holds 4 and 3; update: 2 runs, 4 commits (good, failing the test, with new packages, not installable), one accident; catch-up: 3 offenses of 2 use cases, one quiet, three command lines (one with `--force`), an analyst's list, one fault | `OneMorePerThread`, `HistoryFits`, `OnlyTestedRuns`, `AnswersWhenIdle`, `ServicesTypeOK`, and, in part or whole liveness, `ChatAndWorkerGoOn`, `UpdateArrives`, `CatchupGetsThrough` |
| `Jobs` | digests: 3 events or 4 alerts, pages of 2, caps below that; cleanup: 3 endpoints on 2 hosts, one of them uninstalled at times, batches of 1, reports of one line; scan: 2 addresses, one a server; allow-list: 2 providers with nested ranges and a static one; one or two failures each | `NothingMissed`, `ReportedOnce`, `EffectsRecorded`, `RemovalsJustified`, `ListsSafe`, `JobsTypeOK`, and the liveness properties `CleanupSeesReturns`, `ListsSettle` |
| `TriageFailedQuery` | 1 handler | disagreement, see section 6 |
| `PollerErrors` | 1 offense, no fault | disagreement, see section 6 |
| `CatchupRetry` | the instance of `Services` | disagreement, see section 6 |

What the properties of `Services` and `Jobs` stand for:

* `ChatAndWorkerGoOn`: a user who waits gets an answer or an error
  (`SessionsEnd`); the hold does not outlive the chats (`WorkerResumes`).
* `UpdateArrives`: the last push, if it is good, ends up running.
* `CatchupGetsThrough`: no use case waits for the whole of another (`PlanIsFair`), a
  pass comes to its end (`PassEnds`), and what it planned that nobody had seen is
  attended to (`NewIsAttended`): the worker comes to an end with it. That is said of
  offenses louder than what the sweep drops, unless the request was lost or the
  row went with the database, or the queue always has others in front of it: no
  lost answer and no QRadar that was down for a while loses them.
* `NothingMissed`: nothing leaves the window of a digest without having been shown
  or being known, unless a cap or a failed run answers for it; the pages of Cortex
  fit together. `ReportedOnce`: nothing is shown twice unless a run lost its rows after
  the message, or did not learn that the message had arrived.
* `RemovalsJustified`: no endpoint that is alive and no address just listed is
  removed, unless that changed after the run read it. `EffectsRecorded`: a deleted
  endpoint has its row unless a failure came between deletion and record; a request
  that QRadar carried out for the scan has its row even if its answer was lost, and
  a kill takes the rows of the phase it ends and of no other.
* `ListsSafe`: no server is blocked while its list can be read; only addresses of
  the providers are exempt; `bisect` finds them all. `ListsSettle`: a quiet address
  leaves the block-list for good, the allow-list recovers from every failure.
* `CleanupSeesReturns`: a return is reported, whatever runs fail in between, and has a
  line of its own unless the run that marked it had more than a report lists
  (`LineBeforeMark`).

Bounds. `MaxNow` ends the clock. In `Worker` it is one tick past the lease of a
claim made at time 0, so a lease runs out, the row is claimed again and the
second claim is answered; one more offense and one more thread than one are
enough for two claims to collide, and the threads are symmetric. Lease, timeout
and waits are the smallest numbers that satisfy the assumption strictly,
with each of the three waits taking time. The third offense of `WorkerOrder`
gives ties of magnitude broken by source, by time and by id. `MaxFaults` bounds
the deaths of handlers; a second one meets the state the first one left behind,
which a repeated request also meets. Submissions are fixed small sets;
`attempts` and the counters are bounded by the clock and by the length of a run.
The clock has nothing left to do at `MaxNow`, but requests and runs go on, so
deadlock is checked everywhere.

In `Poller` one offense suffices: its properties relate the several places that
keep something about the same offense (queue, verdict, notes, poller), and other
offenses only take places of a run, which `PollerRevisit` adds. Periods of 1 to 3
units give every order of ages that the assumption `Window <= Ttl` allows at the
boundary, equality included. One fault of any kind meets every state; two in a
row are seen by the code as one that lasts.

In `Pipeline` one offense suffices for the same reason, and two handlers and two
threads for two attempts to meet; a third would need a second expired lease,
whose state is that of the first. The time of a handler passes the HTTP timeout,
the lease and the staleness, in this order. `Capped` keeps the counters of
attempts and notes finite where their exact value no longer matters. `Horizon`,
`Long`, `Past`, `Oldest` and `StaleAfter` do the same to ages in the other modules:
older than any period the code looks at. `MaxEvents`, `MaxAlerts` and `MaxRows` bound
what arrives; the caps under test are smaller, so that they bite. `MaxFaults`,
`MaxAccidents`, `MaxTroubles`, `MaxMishaps` and `MaxCdnFailures` bound failures; after
the last one the liveness properties say that the job recovers.

Symmetry of the threads is used in `Worker` and `WorkerRefine`; nothing orders
threads, and no liveness is checked there.

Fairness. `PollerRevisit` assumes only that the poller's steps are taken (cron starts it
again and again, its requests have timeouts); nothing is assumed of the worker,
of analysts, of QRadar or of time. `Pipeline` (`FairSpec`) assumes that time passes,
that each thread goes on (systemd restarts the worker) and each handler; which
result an analysis has, whether analysts ask and what fails is left open.
`ChatFairness` assumes that time passes and that sessions and threads go on, not
that the model ever frees its slot for a session. `AutoFairness`: a run goes on and
cron starts the next; nobody has to push. `CatchFairness`: a pass that was started
goes on, as each of its requests has a timeout, and the worker's timer never
stops. Nobody has to start the tool, which is run by hand, nothing has to be
swept, and the worker takes what the order of the queue gives it. The jobs' fairness is
that of their timers and of a run's own steps, failures being bounded. Each of
them is asked only of the program a behaviour is about.

## 4. Proofs

For every set of offenses, threads, handlers, sessions, commits and submissions
and every parameter that satisfies the named assumptions. Every safety invariant and
every action property that a run checks is stated by a theorem; `[]PlanIsFair`, the
safety part of `CatchupGetsThrough`, has one of its own.

* `TypeCorrect` (`WorkerProofs`): `[]TypeOK`, from the inductive `TypeInv`.
* `LeaseCorrect`, `ExclusiveWork`, `ClaimCorrect`. None of the three properties
  is inductive: that two threads do not share an offense rests on the lease not
  having run out, that rests on when the claim was made, and that the row is
  still the claimed one rests on nobody else touching rows whose lease is valid.
  `HoldInv` says it all at once: for each thread at `call` or `mark` the row is
  IN_PROGRESS with the claim's attempts, source and override, its lease reaches
  at least `Lease` past the reading of the clock, the time spent so far is
  within the patience of each place, and no other thread has the same offense.
  One lemma per group of actions shows that a step keeps it: `Enqueue`, `Sweep`
  and other threads' `ClaimNext` spare held rows, `Tick` is stopped by the
  patience, `Settle` gives the claim up in the step in which it changes the row.
  `LeaseAssumption` is used exactly once, to show that a held row is not
  claimable.
* `PositionCorrect`: the clause of `position_of` equals the order of
  `claim_next` on every table; `NextClaimUnique`: that order is total, so
  `LIMIT 1` is deterministic.
* `LoudestFirstCorrect`: the action property, from the definition of the order.
* `OvershootCorrect`: `OvershootBounded`, for a finite set of threads (`ThreadAssumption`).
  The limits are read without a lock before the hold and the claim, so a counter can
  pass its limit by as many threads as had read it before. `OvershootInv` counts both
  together: the counter and the threads at places from which they may still raise it
  (`Claiming`, `Working`) exceed the limit by at most the threads less one. A thread that
  raises the counter leaves these places in the same step (`GotoCount`).
* `Implementation`: `Spec => ImplementsLeasedQueue`. Each action maps to a step
  of `LeasedQueue` or leaves the mapped variables alone; `HoldInv` provides that
  a row is in one pair of hands, so that the `CHOOSE` of the mapping is the
  thread that took it.
* `TriageProofs`: every safety property its run checks, and `HandOverCorrect`.
  `TriageInv` is `TypeOK` and, per handler, `RunInv`: what the run can have done
  by the place it is at (`Stage`), what its fate rests on (`Grounds`: a verdict
  the guard has nothing against, or the results of the planned queries), what
  each deed rests on (`Justified`) and what the caller was told (`Told`). None of
  the properties is inductive without it: a deed is checked against a verdict
  that was formed several steps before, possibly twice. The steps of other
  handlers and of the surroundings leave `RunInv` alone (`RunUntouched`), so
  there is one lemma per action of the handler itself.
* `EmptyCloseCorrect` needs `MaxLenses > 0` and rests on `CloseOnEmptyCovers`:
  the flag computed from the *matched* use cases is good for every query of
  theirs although files are de-duplicated and cut; the first use of each query
  exists because sets of numbers have a least one (`LeastOne`).
* `RetryCorrect` is about what a second run would repeat, per answer of the first. A
  run that ended without one (killed, HTTP 500) may have unblocked or closed and is
  repeated as well, as nothing is undone; what is proved of it is that its analysis
  was complete, which is `Justified` read together with `Grounds`.
* `UnblockCorrect` and `HandOverCorrect` use `ThresholdAssumption`,
  `CompromiseCorrect` the order of `CloseMax` and `ScoreFloor` through
  `GuardedVerdict`.
* `PollerProofs`: types, `AnalystKept`, `SweptStaysOut` and, below, `FreshVerdictStands`. `PollerInv` adds to the
  types `QuietTail` (what the sweep dropped has no row and began before the window;
  no row is older than its offense) and `BatchInv` (the
  offenses of a run's answer are, in the discovery, still inside the window, even
  after the one tick that may come during a run, and loud in the re-triage). Without them a run that
  read the offense before the sweep could put it back after it. `Window <= Ttl` is
  what makes the two exclude each other, a tick in between included.
* `FreshCorrect` (`PollerProofs`): `FreshVerdictStands`. The re-triage reads row, verdict
  and notes one after the other before it enqueues. `FreshInv` says what stays true
  of what it read: after the row, no automatic row of the offense waits
  (`RowSeen`); after the verdict, none that is young and automatic stands (`VerdictSeen`),
  as one reached in between could only come from an analyst's row. All of it holds
  until something has failed (`Unfailed`), as the property itself does.
* `PipelineProofs`: types, `OneAnalysis`, `DoneMeansAnalysed` and `OneVerdictNote`. That no second
  handler enters rests on two different protections, one after the other. Before
  a handler has written PROCESSING there is only the lease: `Starts` says that
  such a handler is young, its row is held, and nobody else has been sent. Once it
  has written it there is only the mark: `Marks` says that it is there and not
  older than the handler. `Calls` and `Shape` tie threads, rows and
  handlers together; `Finished` says that whatever was answered, recorded or
  settled as done has a result that no handler will overwrite. The assumption
  `PipelineLeaseAssumption` is used where one protection takes over from the other.
* `OneNoteCorrect` (`PipelineProofs`): `OneVerdictNote`. A second note beyond the faults
  needs a second automatic run that comes to a verdict. `Rests` names the three things
  that keep it away once a note is there: the recorded verdict (`Verdict`); the handler
  that has written the note and not yet the record (`Writing`); and, when an analyst or a
  re-triage has overwritten the record, a row that makes no automatic run again
  (`Reserved`). `Accounted` is the balance of notes and faults; `Follows` ties the
  handler that has not marked its offense yet to what the row says.
* `ServicesProofs`, chat: `WaitingIsHeld` and, from it, `OneMoreCorrect`. `HoldInv` says
  that the hold lasts until every sleeping session has tried once more
  (`HoldLasts`); a grace period written by another session keeps that because of
  `RenewalAssumption`. A thread that took an offense while somebody waits is
  not about to take another (`NoneAboutToClaim`).
  `HistoryCorrect`: the number of messages kept is a `CHOOSE`; `KeptIs` shows that it is
  the length of the longest run of fitting messages from the newest on, since a set
  closed under smaller numbers is as long as it is large (`PrefixCounted`).
* `ServicesProofs`, catch-up: `CatchInv` says that what a pass found is finite and names no
  offense twice (`Sortable`), that its plan is the front part of an order of all of it
  (`PlanOf`), that each thread is about an offense of the plan, and what the queue
  holds. `FairCorrect` rests on three facts about an order, for any candidates: rounds
  tell the candidates of a use case apart (`RoundsDiffer`), an order has all of them
  (`OrderComplete`: as many places as candidates, none twice), and what is ahead of the
  first left of one use case fits into as many rounds as that one's place
  (`FrontIsFair`).
* `ServicesTypeCorrect` and `HostCorrect` (`ServicesProofs`): a step of the host is a step
  of one program and none of the others (`HostStep`), so that what is proved of each
  holds of the specification the run checks.
* `AutoUpdateProofs`: types, `OnlyTestedRuns` and `AnswersWhenIdle`. `AutoInv` has
  two cases: between runs (`Settled`) the service runs the checkout, which starts
  with the installed packages, and answers; during the one run (`Underway`) it says, per step, where
  HEAD, packages and service are, and that the commit to go back to passed, and
  answers with whatever packages have been installed since, which is where
  `PackagesAssumption` is needed.
* `JobsProofs`: `JobsTypeCorrect`, `MissedCorrect`, `ReportedOnceCorrect`, `ListsCorrect`,
  `RemovalsCorrect`, `EffectsCorrect` and `LineCorrect`, theorems about
  `JobsSpec`, each step of which is a step of one job (`StepOfOne`). `CleanupInv` says
  that what a run is still going to delete was silent when it was read or has called
  since (`PendingSilent`), and that what was removed has a row from after its last
  contact or the run that removed it will write one (`RowsCome`). That this run writes
  it for every candidate rests on a list of all candidates without repetition having
  them all, hence on the finiteness of the console (`ConsoleAssumption`). `ScanInv` has
  the like for the scan: what the review still has to do was stale when it was read
  (`ReviewStale`), and what QRadar has carried out is in the table or in the open
  transaction, but for the phase that was cut (`ChangesWritten`). One lemma about
  `Request` serves both phases (`RequestWritten`): the row does not depend on the answer.
* `MissedCorrect` and `ReportedOnceCorrect` rest on `FalconInv` and `XdrInv`. For Falcon, what
  waits is no older than the time since the last run and the delay of QRadar together,
  or is among the new items of the run (`WaitingFits`), and what was shown has a row at
  least as young unless it was lost or never written (`RowsYounger`). For Cortex, alerts stand in the order
  of creation (`InOrder`), so that a window is a tail and the pages cut a run of it: the
  next page begins where the last one ended, what arrives meanwhile stands behind and is
  left to the next run (`RunFits`, `AlertsWait`); what was told has a row (`ToldHaveRows`).
* `ListsCorrect`: `CdnInv` says that the ranges of a run are sorted (`InRangeOrder`) and that
  what is to be loaded is what the feed and the ranges have in common (`AllowExact`).
  The bisection is proved for every sorted list (`BisectFinds`): what begins at or
  before an address is a front part of the list, as long as `bisect` counts,
  and going back from there meets every range that can
  hold the address, nested ones included. `RangeAssumption` says that addresses are
  numbers and the published ranges finitely many.

## 5. Only model-checked

* Liveness: `StuckMarkFreed`, `NewIsQueued`, `LoudIsRevisited`, `AutomaticSettles`,
  `ChatAndWorkerGoOn`, `UpdateArrives`, `CatchupGetsThrough` and `CleanupSeesReturns` but
  for their safety parts (`FairCorrect`, `LineCorrect`),
  `ListsSettle`: liveness under fairness, and with it `ENABLED`, is outside the prover's
  reach.
* What a recursive definition computes for every input. The proofs do without: a
  least element of a set of numbers takes the place of an induction (`SmallestNumber`,
  `LeastOne`), and sums over threads and places of a list are cardinalities.

## 6. Where the code and what is said of it differ

Three have a run that must find the violation; `PROJECT.json` quotes the lines.

* `FailureIsNotEmptiness`: a failed generic query, or a partial failure next to
  empty results, is recorded as "no events" and never retried.
* `ErrorRowsRest`: the back-off of a failed row counts from its enqueueing, so a
  row that waited long is put back at once.
* `RetriedIsQueued`: a retry of the catch-up tool without `--force` is answered
  `skipped` for as long as the queue keeps the finished row of the failed attempt
  (14 days), although the docstring promises that the tool puts these offenses
  into the queue.

Seen while modelling and not kept as runs.

Queue and worker:
* A timeout never turns a row into ERROR, however often (`worker.py:72`, against
  the docstring, lines 13-14): it is not counted against `worker_max_attempts`.
* A position of 0 can be overtaken by a row whose lease runs out; the count of
  consecutive 503 answers is reset by timeouts too.
* An analyst's request for a waiting automatic row changes its magnitude but
  neither its source nor its overrides, so that it is analysed as an automatic
  one (`queue_db.py:132`, against `app.py:687-689`).

Triage:
* One provider for both tiers counts as reviewed (`app.py:1266`).
* A failed look-up of rule names is cached for an hour and hides use cases of a
  composite (`app.py:201`): `NeverClosedBlind` speaks of the use cases the run
  matched, and such a run may close an offense as empty on the queries of fewer than
  it has.
* A 404 (the offense could not be read) leaves PROCESSING behind, and the worker sets the
  row to ERROR: only the poller, within its 48 hours, or an analyst brings the
  offense back. `StuckMarkFreed` excepts it.
* A handler that dies, or ends by HTTP 500, after unblocking or closing is run again
  on what it has changed (`RetriesLeaveNoTrace`).
* A cap of 0 queries would let a single flagged use case close without a query
  (the runs use caps of at least 1).
* The note that the guard writes after tier 1 ("the offense stays open") is kept
  when tier 2 clears the offense, which is then closed under it (`app.py:1234`).
* A failed close is logged only and the offense recorded as PROCESSED
  (`app.py:461`); only the re-triage looks at the offense again.

Pipeline:
* An analysis that outlasts the HTTP timeout and ends in NO_EVENTS holds nobody
  back: it is repeated as long as it outlasts the worker, with a SKIPPED note each
  time. `AutomaticSettles` excepts it.
* Manual and forced rows pass the mark; one that outlasts the worker is
  claimed again and a second analysis starts next to the first.
* A handler that finds QRadar unavailable frees the mark whoever wrote it; the
  timeouts of one handler can add up to more than the staleness of 60 minutes.

Poller:
* The re-triage passes over a QUEUED row without refreshing its magnitude
  (`poller.py:171`), and an analysis that fails without a note is queued again by
  every run (`poller.py:179`), which takes places from others.

Chat:
* `finally` sets the hold to the grace period even if another session has a
  longer one (`app.py:1744`). It does no harm, because the one that waits renews
  its hold sooner than the grace period ends (`OneMorePerThread`).
* A stream longer than `chat_hold_seconds` outlives its hold, and the worker takes
  new offenses, against the comment in `app.py` above `hold_seconds`.

Update:
* `git pull` fetches again, so `REQ_CHANGED` may be about an older commit
  (`autoupdate.sh:71`): the service is then restarted without its packages, against
  lines 9-10, and the roll-back and the next tick heal it.
* After `git pull` HEAD is the new commit. A kill before the restart leaves nothing
  for the next tick to do, and the tested or untested code starts with the next
  restart for whatever reason; a kill between restart and roll-back leaves the
  service down (`autoupdate.sh:76`). Nothing keeps a run of cron and one of
  `deploy.sh:32` apart: one may reset the checkout of the other. The properties
  are therefore stated for runs that are neither cut short nor overlapped.
* After a failed smoke test the packages of the rejected commit stay, and between
  pull and reset the running service reads the prompts and queries of a commit
  that does not pass (against lines 11-12).

Catch-up:
* With `--limit`, the same failing offenses can take every place; an analyst's
  analysis that failed is retried as an automatic one; AI_ERROR, DAMAGED and
  QRADAR_UNAVAILABLE are taken for offenses never seen, and posted in each pass.
* A quiet offense that waits too long is swept from the queue, and only the next pass,
  which somebody has to start, would find it again.

Jobs:
* Falcon: items the message has no place for are marked as reported all the same
  (`falcon_pua_scan.py:436`). After a failed webhook "tomorrow" (line 439) comes too late
  for what is older than the window then. `config_schema.py:158,161` has 24 hours and 1000
  rows where the code falls back to 25 and 5000.
* Falcon and Cortex: a webhook that times out after the chat has the message counts as
  failed, and the next report repeats all of it (`falcon_pua_scan.py:384-393`,
  `cortex_xdr_scan.py:377-386`).
* Cleanup: returns beyond the 60 lines of a report are marked all the same and never
  named (`cortex_endpoint_cleanup.py:362,456`).
* Cleanup: a failure between deletion and record loses the row for good
  (`cortex_endpoint_cleanup.py:232`); `by_id` keeps the last row of an endpoint and
  `by_name` the first of a host, so that a return may be noticed only after
  another row has been marked, or reported once per row.
* Botnet scan: the review takes an address off after 48 hours without a hit and
  the hunt of the same run, which looks back 7 days, puts it on again, against the
  docstring ("the block has done its work"). A reference set that cannot be read counts
  as empty, so that the hunt knows no servers in that run (`botnet_scan.py:121-131`).
  A request that timed out may have been carried out and has a row that says it failed;
  an addition of that kind does not count against the cap. A kill loses the
  rows of its phase.
  The transaction of a phase is open during all its requests, while writers of
  `offenses` wait for the lock only 5 seconds.
* Allow-list: with the static ranges the test "no ranges" never fires; the answer
  to the purge is not looked at; a failure between purge and load leaves the list
  empty until the next day (`cdn_allowlist_update.py:274`).

Times pass through local time (`queue_db.py:65`, section 2).

## 7. Plan

Modelled so far: everything that changes state, but for what section 8 lists.
What is left, in this order:

1. `PromptsLoader`: substring matching, priority and de-duplication of lenses
   against a reference definition; agreement of poller and middleware on the use
   case.
2. `QueueTime` (`_plus` across a change of local time) and `AqlComments`: pure
   algorithms against reference definitions.

## 8. Not modelled

Text (prompts, notes, HTML, logs, AQL), HTTP and JSON plumbing of the model
clients, the asset context of the prompt and the index of reference sets that
feeds it, read-only tools and reports (`tracker.py`, `tools/ai_state_stats.py`,
`tools/measure_tier_disagreement.py`, the look-ups of `/queue/*`), the table of
configuration keys (its constraints appear as assumptions on constants), static
data and its smoke test, the layout of the web pages. The behaviour of QRadar,
Ariel, Cortex, the chat's webhook, the models, git, pip, systemd and SQLite is
taken as what the code sees of it: an answer, an error, a timeout, an atomic
transaction. Dry runs of the jobs change nothing and are left out.
