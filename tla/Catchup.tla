------------------------------ MODULE Catchup ------------------------------
(***************************************************************************)
(* tools/catchup.py: a pass over the open offenses that the poller does    *)
(* not see any more.  It classifies them by the state they have when it    *)
(* starts, puts the wanted ones in order, and posts them to                *)
(* /universal-analysis, which puts them into the work queue.               *)
(*                                                                         *)
(* Of the other programs there is what the pass meets: the worker, which   *)
(* takes what waits in the order of the queue, its sweep, an explicit list *)
(* of an analyst (the same tool with a lock of its own), a cleaned         *)
(* database.  A claim, its analysis and its settling are one step here     *)
(* (Worker and Pipeline have them apart), ages and attempts are choices,   *)
(* and what the poller queues itself is left out.                          *)
(***************************************************************************)
EXTENDS Host, Integers, Sequences, FiniteSets

CONSTANTS
    Old,            \* offenses that are open
    UseCase(_, _),  \* the label of an offense, with and without the names of its rules:
                    \* the key that matches, else its description
    Matches(_, _),  \* does a key match it
    LoudnessOf(_),  \* its magnitude
    Started(_),     \* its start_time
    Absent,         \* no row in the work queue
    Recent,         \* those the poller still sees at first
    LowMagMax,      \* the sweep drops waiting rows up to this magnitude
    Outcome(_),     \* what the analysis of an offense can come to
    Listed,         \* those an analyst may name on the command line
    Asked,          \* with which of --manual and --force: pairs of Booleans
    Option,         \* command lines: records of retry, onlyRetry, unmatched, limit, manual
                    \* and force
    Workers,        \* --concurrency
    GiveUpAfter,    \* connection errors after which a pass stops: 5
    MaxFaults

Q == INSTANCE QueueDB WITH Offense <- Old, NoRow <- Absent, Magnitude <- {LoudnessOf(o) : o \in Old}

\* How an analysis ends for which /process-one answers at all, apart from a QRadar that is
\* down: five statuses of the record, and the answer 404.
Endings == {"PROCESSED", "NO_EVENTS", "DAMAGED", "AQL_ERROR", "AI_ERROR", "NOT_FOUND"}

ASSUME CatchupAssumption ==
    /\ Option \subseteq [retry : SUBSET {"AQL_ERROR", "NO_EVENTS"}, onlyRetry : BOOLEAN,
                         unmatched : BOOLEAN, limit : Nat, manual : BOOLEAN, force : BOOLEAN]
    /\ Old \subseteq Nat /\ IsFiniteSet(Old) /\ Recent \subseteq Old
    /\ \A o \in Old :
        /\ LoudnessOf(o) \in Nat /\ Started(o) \in Nat
        /\ \A named \in BOOLEAN : UseCase(o, named) \in Nat
        /\ Outcome(o) \subseteq Endings
    /\ Asked \subseteq BOOLEAN \X BOOLEAN
    /\ Workers \in Nat \ {0} /\ GiveUpAfter \in Nat \ {0} /\ MaxFaults \in Nat

VARIABLES
    known,      \* offenses.status, "none" without a record
    noted,      \* offenses with the note of a real verdict
    inWindow,   \* offenses the poller still sees
    queueRows,  \* work_queue
    wanted,     \* what classify found
    plan,       \* what order_candidates made of it
    mode,       \* --manual and --force of the pass
    taken,      \* how much of the plan has been handed to threads
    sending,    \* offenses whose thread has still to post
    refused,    \* connection errors of the pass
    excused,    \* ghost: offenses whose request failed or was cancelled in the last pass, or
                \* whose row went with the database
    faults

passVars == <<wanted, plan, mode, taken, sending, refused>>
catchVars == <<known, noted, inWindow, queueRows, passVars, excused, faults>>

Retryable == {"AQL_ERROR", "NO_EVENTS"}

CatchInit ==
    /\ known = [o \in Old |-> "none"] /\ noted = {} /\ inWindow = Recent
    /\ queueRows = [o \in Old |-> Absent]
    /\ wanted = {} /\ plan = <<>> /\ mode = [manual |-> FALSE, force |-> FALSE]
    /\ taken = 0 /\ sending = {} /\ refused = 0
    /\ excused = {} /\ faults = 0

-----------------------------------------------------------------------------
(***************************************************************************)
(* classify and order_candidates.                                          *)
(***************************************************************************)
\* Processed and being processed are passed over; what has a status that classify does
\* not name falls through to the branch of offenses without a record.
Seen(o) == known[o] \in {"PROCESSED", "PROCESSING"} \cup Retryable

Reason(o) == IF known[o] \in Retryable THEN known[o] ELSE "NEVER_SEEN"

Classify(o, matched, arg) ==
    IF Seen(o) THEN known[o] \in arg.retry
    ELSE (matched \/ arg.unmatched) /\ o \notin inWindow /\ ~arg.onlyRetry

\* Within a use case: louder first, then older, then by id.
Sooner(c, d) ==
    \/ c.loud > d.loud
    \/ c.loud = d.loud /\ c.start < d.start
    \/ c.loud = d.loud /\ c.start = d.start /\ c.id <= d.id

\* One of each use case in every round, the use case with most candidates first: the round
\* of a candidate is its place within its use case.
Case(case, found) == {c \in found : c.case = case}
Round(c, found) == Cardinality({d \in Case(c.case, found) : Sooner(d, c)})
Size(c, found) == Cardinality(Case(c.case, found))

InFront(c, d, found) ==
    \/ Round(c, found) < Round(d, found)
    \/ /\ Round(c, found) = Round(d, found)
       /\ \/ Size(c, found) > Size(d, found)
          \/ Size(c, found) = Size(d, found) /\ c.case < d.case

IsOrder(list, found) == \A i, j \in DOMAIN list : i < j => InFront(list[i], list[j], found)

UpToLimit(seq, limit) == IF limit = 0 THEN seq ELSE SubSeq(seq, 1, IF limit < Len(seq) THEN limit ELSE Len(seq))

Idle == plan = <<>>

\* A failed look-up of the rules leaves the descriptions to match by.
StartPass(named, arg) ==
    /\ Idle
    /\ wanted' = {[id |-> o, case |-> UseCase(o, named), loud |-> LoudnessOf(o),
                       start |-> Started(o), why |-> Reason(o)] :
                        o \in {x \in Old : Classify(x, Matches(x, named), arg)}}
    /\ \E list \in [1 .. Cardinality(wanted') -> wanted'] :
          IsOrder(list, wanted') /\ plan' = UpToLimit(list, arg.limit)
    /\ mode' = [manual |-> arg.manual, force |-> arg.force]
    /\ taken' = 0 /\ refused' = 0 /\ excused' = {}
    /\ UNCHANGED <<known, noted, inWindow, queueRows, sending, faults>>

-----------------------------------------------------------------------------
(***************************************************************************)
(* run_queue.                                                              *)
(***************************************************************************)
Stops == refused >= GiveUpAfter

Fault == faults < MaxFaults /\ faults' = faults + 1

ThreadFree == Cardinality(sending) < Workers

\* A thread takes the next offense; one never seen that has a verdict after all is left
\* alone.  A look-up of the notes that fails counts as no verdict.
Take ==
    /\ taken < Len(plan) /\ ~Stops /\ ThreadFree
    /\ LET c == plan[taken + 1] IN
       \/ /\ c.why = "NEVER_SEEN" /\ c.id \in noted
          /\ UNCHANGED <<sending, faults>>
       \/ /\ ~(c.why = "NEVER_SEEN" /\ c.id \in noted)
          /\ sending' = sending \cup {c.id} /\ UNCHANGED faults
       \/ /\ c.why = "NEVER_SEEN" /\ c.id \in noted /\ Fault
          /\ sending' = sending \cup {c.id}
    /\ taken' = taken + 1
    /\ UNCHANGED <<known, noted, inWindow, queueRows, wanted, plan, mode, refused, excused>>

\* /universal-analysis on behalf of the tool: a manual request forces as well.
Requested(o, manual, force) ==
    Q!Enqueue(queueRows, o, LoudnessOf(o), IF manual THEN "manual" ELSE "catchup",
              force, force \/ manual, 0)

Posted(o) == Requested(o, mode.manual, mode.force)

Post(o) ==
    /\ o \in sending
    /\ sending' = sending \ {o}
    /\ queueRows' = Posted(o)
    /\ UNCHANGED <<known, noted, inWindow, wanted, plan, mode, taken, refused, excused, faults>>

\* The middleware cannot be reached, or its answer does not come: the request may have been
\* carried out all the same.
PostFails(o) ==
    /\ o \in sending /\ Fault
    /\ sending' = sending \ {o} /\ excused' = excused \cup {o}
    /\ queueRows' \in {queueRows, Posted(o)}
    /\ refused' \in {refused, refused + 1}
    /\ UNCHANGED <<known, noted, inWindow, wanted, plan, mode, taken>>

\* Too many connection errors: what no thread has taken is cancelled.
GiveUp ==
    /\ taken < Len(plan) /\ Stops
    /\ taken' = Len(plan)
    /\ excused' = excused \cup {plan[i].id : i \in taken + 1 .. Len(plan)}
    /\ UNCHANGED <<known, noted, inWindow, queueRows, wanted, plan, mode, sending, refused, faults>>

Exit ==
    /\ plan # <<>> /\ taken = Len(plan) /\ sending = {}
    /\ wanted' = {} /\ plan' = <<>> /\ taken' = 0 /\ refused' = 0
    /\ UNCHANGED <<known, noted, inWindow, queueRows, mode, sending, excused, faults>>

-----------------------------------------------------------------------------
(***************************************************************************)
(* What goes on meanwhile.                                                 *)
(***************************************************************************)
\* --offenses, with --manual or --force or neither; its lock is another one.
ExplicitList(o, manual, force) ==
    /\ queueRows' = Requested(o, manual, force)
    /\ UNCHANGED <<known, noted, inWindow, passVars, excused, faults>>

LeaveWindow(o) ==
    /\ inWindow' = inWindow \ {o}
    /\ o \in inWindow
    /\ UNCHANGED <<known, noted, queueRows, passVars, excused, faults>>

\* The row the worker takes next.  Rows are queued at 0, and one whose answer was lost has a
\* lease that ended at 0.
Next1(o) == Q!IsNextClaim(queueRows, 1, o)

\* A slip: the lease is cleared as if the row were settled.
LeftWrongCleared(o) ==
    [queueRows EXCEPT ![o] = [@ EXCEPT !.status = "IN_PROGRESS", !.lease_until = Q!NULL]]

\* Nothing is marked: the lease runs out.
Left(o) == [queueRows EXCEPT ![o] = [@ EXCEPT !.status = "IN_PROGRESS", !.lease_until = 0]]

\* worker.py and /process-one: an offense with a verdict is analysed again only if that was
\* asked for.  An answer that it is being processed leaves everything as it is, until the
\* mark is too old to be believed.
Analyse(o, outcome) ==
    /\ Next1(o)
    /\ IF known[o] = "PROCESSED" /\ queueRows[o].source # "manual" /\ ~queueRows[o].force
       THEN queueRows' = Q!Mark(queueRows, o, "DONE") /\ UNCHANGED <<known, noted>>
       ELSE /\ known' = [known EXCEPT ![o] = IF outcome = "NOT_FOUND" THEN "PROCESSING" ELSE outcome]
            /\ noted' = IF outcome = "PROCESSED" THEN noted \cup {o} ELSE noted
            /\ queueRows' = Q!Mark(queueRows, o,
                    IF outcome \in {"AQL_ERROR", "AI_ERROR", "NOT_FOUND"} THEN "ERROR" ELSE "DONE")
    /\ UNCHANGED <<inWindow, passVars, excused, faults>>

\* Nobody was reached; or /process-one failed, with or without its note, which is the one case
\* that counts against the attempts; or it went on and came to a verdict after the worker
\* had stopped waiting.
AnswerLost(o) ==
    /\ Next1(o) /\ Fault
    /\ \/ UNCHANGED <<known, noted>> /\ queueRows' = Left(o)
       \/ /\ known' = [known EXCEPT ![o] = "PROCESSING"] /\ noted' \in {noted, noted \cup {o}}
          /\ queueRows' \in {Left(o), Q!Mark(queueRows, o, "ERROR")}
       \/ /\ known' = [known EXCEPT ![o] = "PROCESSED"] /\ noted' = noted \cup {o}
          /\ queueRows' = Left(o)
    /\ UNCHANGED <<inWindow, passVars, excused>>

\* 503: Ariel or QRadar is down; at the last attempt the row is given up.
QRadarDown(o) ==
    /\ Next1(o) /\ Fault
    /\ known' = [known EXCEPT ![o] = "QRADAR_UNAVAILABLE"]
    /\ queueRows' \in {Left(o), Q!Mark(queueRows, o, "ERROR")}
    /\ UNCHANGED <<noted, inWindow, passVars, excused>>

\* The sweep: a quiet row that has waited too long goes, and a finished one when its
\* retention is over.
SweepRow(o) ==
    /\ queueRows[o] # Absent
    /\ \/ queueRows[o].status \in {"DONE", "ERROR"}
       \/ queueRows[o].status = "QUEUED" /\ queueRows[o].magnitude <= LowMagMax
    /\ queueRows' = [queueRows EXCEPT ![o] = Absent]
    /\ UNCHANGED <<known, noted, inWindow, passVars, excused, faults>>

\* The records of offenses are emptied, or the whole database is.
DatabaseCleaned ==
    /\ Fault
    /\ known' = [o \in Old |-> "none"]
    /\ \/ UNCHANGED <<queueRows, excused>>
       \/ queueRows' = [o \in Old |-> Absent] /\ excused' = Old
    /\ UNCHANGED <<noted, inWindow, passVars>>

-----------------------------------------------------------------------------
Pass == Take \/ GiveUp \/ Exit \/ \E o \in Old : Post(o)

Work == \E o \in Old : \E outcome \in Outcome(o) : Analyse(o, outcome)

CatchNext ==
    \/ \E named \in BOOLEAN, arg \in Option : StartPass(named, arg)
    \/ Pass \/ Work
    \/ \E o \in Old :
        \/ PostFails(o) \/ LeaveWindow(o) \/ SweepRow(o) \/ AnswerLost(o) \/ QRadarDown(o)
        \/ o \in Listed /\ \E ask \in Asked : ExplicitList(o, ask[1], ask[2])
    \/ DatabaseCleaned

\* A pass that was started goes on, as each of its requests has a timeout, and the worker's
\* timer never stops.  Nobody has to start the tool, and nothing has to be swept.
CatchFairness ==
    /\ WF_catchVars(Runs("catchup") /\ Pass)
    /\ WF_catchVars(Runs("catchup") /\ Work)

-----------------------------------------------------------------------------
CatchTypeOK ==
    /\ known \in [Old -> Endings \cup {"none", "PROCESSING", "QRADAR_UNAVAILABLE"}]
    /\ noted \subseteq Old /\ inWindow \subseteq Old /\ excused \subseteq Old
    /\ mode \in [manual : BOOLEAN, force : BOOLEAN]
    /\ \A o \in Old : queueRows[o] # Absent =>
        queueRows[o] \in Q!Row /\ queueRows[o].source # "auto"
    /\ \A o \in sending : \E i \in 1 .. taken : plan[i].id = o
    /\ Cardinality(sending) <= Workers /\ refused <= faults /\ faults \in 0 .. MaxFaults

\* Every prefix of the plan treats the use cases alike: one is behind another by at most
\* one offense unless it has no more, and within a use case nothing quieter or, of the
\* same magnitude, younger comes first.  The plan has no offense twice.
PlanIsFair ==
    LET inPrefix(n, case) == Cardinality({i \in 1 .. n : plan[i].case = case})
        total(case) == Cardinality({c \in wanted : c.case = case})
        cases == {c.case : c \in wanted}
    IN /\ \A n \in 0 .. Len(plan), a, b \in cases :
            inPrefix(n, a) + 1 >= inPrefix(n, b) \/ inPrefix(n, a) = total(a)
       /\ \A i, j \in DOMAIN plan : i < j =>
            /\ plan[i].id # plan[j].id
            /\ plan[i].case = plan[j].case => Sooner(plan[i], plan[j])

Planned(o, whys) == \E i \in DOMAIN plan : plan[i].id = o /\ plan[i].why \in whys

\* The worker has come to an end with it, somebody had before, or its request was lost.
Attended(o) ==
    \/ known[o] \notin {"none", "PROCESSING", "QRADAR_UNAVAILABLE"}
    \/ queueRows[o] # Absent /\ queueRows[o].status \in {"DONE", "ERROR"}
    \/ o \in noted \/ o \in excused

Waits(o) == queueRows[o] # Absent /\ queueRows[o].status \in {"QUEUED", "IN_PROGRESS"}

\* A louder offense, or an analyst's of the same magnitude, is in its way.
Outranked(o) ==
    Waits(o) /\ \E p \in Old \ {o} : Waits(p) /\ Q!Precedes(queueRows, p, o)

\* A pass comes to its end.
PassEnds == plan # <<>> ~> plan = <<>>

\* An offense nobody has seen, louder than what the sweep drops, that a pass has put on its
\* list is attended to, unless the queue has others in front of it again and again: neither a
\* lost answer, a QRadar that is down for a while nor an emptied table of records loses it.
NewIsAttended ==
    \A o \in {x \in Old : LoudnessOf(x) > LowMagMax} :
        (taken = 0 /\ Planned(o, {"NEVER_SEEN"}) ~> Attended(o)) \/ []<>Outranked(o)

\* An offense whose query failed or found nothing and that a pass takes up again is put into
\* the queue by a request that was answered: what the tool's header and --retry promise.
RetriedIsQueued ==
    [][\A o \in Old : Planned(o, Retryable) /\ Post(o) => Waits(o)']_catchVars
=============================================================================
