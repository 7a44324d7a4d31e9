----------------------------- MODULE PollerProofs -----------------------------
(***************************************************************************)
(* Proofs about the poller between queue, sweep, worker and analysts, for  *)
(* every set of offenses and all periods, limits and magnitudes that       *)
(* satisfy the assumptions of Poller.                                      *)
(***************************************************************************)
EXTENDS Poller, TLAPS

Table == [Offense -> Row \cup {NoRow}]
Batches == UNION {[S -> Magnitude] : S \in SUBSET Offense}
Places == {"next", "status", "age", "verdict", "notes", "put"}

WorldType ==
    /\ world \in [Offense -> World]
    /\ notes \in [Offense -> 0..Horizon \cup {NULL}]
    /\ verdict \in [Offense -> Verdict]

QueueType == queue \in Table /\ dropped \subseteq Offense

RunType ==
    /\ phase \in {"off", "discover", "retriage"} /\ place \in Places
    /\ cur \in Offense \cup {Nobody}
    /\ place = "next" <=> cur = Nobody
    /\ cur # Nobody => cur \in DOMAIN batch
    /\ batch \in Batches
    /\ windowStart \in 0..Horizon
    /\ names \in BOOLEAN /\ force \in BOOLEAN /\ ran \in BOOLEAN
    /\ count \in Nat /\ faults \in Nat
    /\ phase = "off" => place = "next"

Inv == WorldType /\ QueueType /\ RunType

LEMMA Bounds ==
    /\ Horizon \in Nat /\ Window \in 1..Horizon - 1 /\ Interval \in 1..Horizon - 1
    /\ Ttl \in Nat /\ Window <= Ttl /\ LowMagMax \in Nat /\ LoudMin \in Nat
    /\ Nobody \notin Offense /\ MaxFaults \in Nat
BY PeriodAssumption, LimitAssumption, KindAssumption, SweepAssumption DEF Periods

-----------------------------------------------------------------------------
(***************************************************************************)
(* The table, as in queue_db.py.                                           *)
(***************************************************************************)

\* enqueue yields a row of the time of the call, or leaves all but the magnitude.
LEMMA EnqueueRow ==
    ASSUME NEW q \in Table, NEW o \in Offense, NEW m \in Magnitude,
           NEW src \in Source, NEW f \in BOOLEAN, NEW forced \in BOOLEAN
    PROVE  LET n == Enqueue(q, o, m, src, f, forced, Horizon) IN
           /\ n \in Table
           /\ \A p \in Offense \ {o} : n[p] = q[p]
           /\ n[o] # NoRow
           /\ \/ n[o].source = src /\ n[o].enqueued_at = Horizon /\ n[o].magnitude = m
                 /\ (q[o] = NoRow \/ q[o].status \in {"DONE", "ERROR"})
              \/ /\ q[o] # NoRow
                 /\ n[o].source = q[o].source /\ n[o].enqueued_at = q[o].enqueued_at
                 /\ n[o].status = q[o].status
<1> DEFINE outcome == EnqueueOutcome(q, o, m, forced)
           n == Enqueue(q, o, m, src, f, forced, Horizon)
<1>1. CASE outcome \in {"inserted", "requeued"}
  <2>1. NewRow(m, src, f, Horizon) \in Row
    BY Bounds DEF NewRow, Row, Status, NULL
  <2>2. n = [q EXCEPT ![o] = NewRow(m, src, f, Horizon)]
    BY <1>1 DEF Enqueue
  <2>3. q[o] = NoRow \/ q[o].status \in {"DONE", "ERROR"}
    BY <1>1 DEF EnqueueOutcome
  <2>4. NewRow(m, src, f, Horizon).source = src /\ NewRow(m, src, f, Horizon).enqueued_at = Horizon
        /\ NewRow(m, src, f, Horizon).magnitude = m
    BY DEF NewRow
  <2>5. NewRow(m, src, f, Horizon) # NoRow
    BY <2>1, NoRowAssumption
  <2>6. n \in Table /\ n[o] = NewRow(m, src, f, Horizon) /\ \A p \in Offense \ {o} : n[p] = q[p]
    BY <2>1, <2>2 DEF Table
  <2>7. QED
    BY <2>3, <2>4, <2>5, <2>6
<1>2. CASE outcome = "refreshed"
  <2>1. q[o] # NoRow
    BY <1>2 DEF EnqueueOutcome
  <2> DEFINE r == [q[o] EXCEPT !.magnitude = m]
  <2>2. /\ r \in Row /\ r.source = q[o].source /\ r.enqueued_at = q[o].enqueued_at
        /\ r.status = q[o].status
    BY <2>1 DEF Table, Row
  <2>3. r # NoRow
    BY <2>2, NoRowAssumption
  <2>4. n = [q EXCEPT ![o] = r]
    BY <1>2 DEF Enqueue
  <2>5. n \in Table /\ n[o] = r /\ \A p \in Offense \ {o} : n[p] = q[p]
    BY <2>2, <2>4 DEF Table
  <2>6. QED
    BY <2>1, <2>2, <2>3, <2>5
<1>3. CASE outcome \notin {"inserted", "requeued", "refreshed"}
  <2>1. n = q
    BY <1>3 DEF Enqueue
  <2>2. q[o] # NoRow
    BY <1>3 DEF EnqueueOutcome
  <2>3. QED
    BY <2>1, <2>2
<1>4. QED
  BY <1>1, <1>2, <1>3

\* Claiming, settling and ageing change neither the source of a row nor make one.
SameRows(q, n) ==
    \A o \in Offense :
        /\ n[o] = NoRow <=> q[o] = NoRow
        /\ q[o] # NoRow => n[o].source = q[o].source

LEMMA ClaimRows ==
    ASSUME QueueType, NEW o \in Offense, queue[o] # NoRow
    PROVE  LET n == [queue EXCEPT ![o] = ClaimRow(queue[o], 0)] IN
           /\ n \in Table /\ SameRows(queue, n)
           /\ \A p \in Offense : queue[p] # NoRow => n[p].enqueued_at = queue[p].enqueued_at
<1> DEFINE n == [queue EXCEPT ![o] = ClaimRow(queue[o], 0)]
           c == ClaimRow(queue[o], 0)
<1>1. queue[o] \in Row /\ queue[o].attempts + 1 \in Nat
  BY DEF QueueType, Table, Row
<1>2. \A k \in Nat :
        LET r == [queue[o] EXCEPT !.status = "IN_PROGRESS", !.lease_until = 0, !.attempts = k] IN
        r \in Row /\ r.source = queue[o].source /\ r.enqueued_at = queue[o].enqueued_at
  BY <1>1 DEF Row, Status
<1>3. c \in Row /\ c.source = queue[o].source /\ c.enqueued_at = queue[o].enqueued_at
  BY <1>1, <1>2 DEF ClaimRow
<1>4. c # NoRow
  BY <1>3, NoRowAssumption
<1>5. n \in Table /\ n[o] = c /\ \A p \in Offense \ {o} : n[p] = queue[p]
  BY <1>3 DEF QueueType, Table
<1>6. QED
  BY <1>3, <1>4, <1>5 DEF SameRows

LEMMA MarkRows ==
    ASSUME QueueType, NEW o \in Offense, NEW s \in Status, queue[o] # NoRow
    PROVE  LET n == Mark(queue, o, s) IN
           /\ n \in Table /\ SameRows(queue, n)
           /\ \A p \in Offense : queue[p] # NoRow => n[p].enqueued_at = queue[p].enqueued_at
<1> DEFINE n == Mark(queue, o, s)
           c == [queue[o] EXCEPT !.status = s, !.lease_until = NULL]
<1>1. queue[o] \in Row
  BY DEF QueueType, Table
<1>2. c \in Row /\ c.source = queue[o].source /\ c.enqueued_at = queue[o].enqueued_at
  BY <1>1 DEF Row, NULL
<1>3. c # NoRow
  BY <1>2, NoRowAssumption
<1>4. n \in Table /\ n[o] = c /\ \A p \in Offense \ {o} : n[p] = queue[p]
  BY <1>2 DEF QueueType, Table, Mark
<1>5. QED
  BY <1>2, <1>3, <1>4 DEF SameRows

-----------------------------------------------------------------------------
(***************************************************************************)
(* Batches.                                                                *)
(***************************************************************************)
LEMMA MagnitudesType ==
    ASSUME WorldType, NEW S \in SUBSET Offense
    PROVE  /\ Magnitudes(S) \in Batches /\ DOMAIN Magnitudes(S) = S
           /\ \A o \in S : Magnitudes(S)[o] = world[o].magnitude
<1>1. \A o \in S : world[o].magnitude \in Magnitude
  BY DEF WorldType, World
<1>2. Magnitudes(S) \in [S -> Magnitude]
  BY <1>1 DEF Magnitudes
<1>3. QED
  BY <1>2 DEF Batches, Magnitudes

LEMMA BatchShrinks ==
    ASSUME NEW b \in Batches, NEW c
    PROVE  LET n == [o \in DOMAIN b \ {c} |-> b[o]] IN
           n \in Batches /\ DOMAIN n = DOMAIN b \ {c} /\ \A o \in DOMAIN n : n[o] = b[o]
<1>1. PICK S \in SUBSET Offense : b \in [S -> Magnitude]
  BY DEF Batches
<1>2. S \ {c} \in SUBSET Offense /\ DOMAIN b = S
  BY <1>1
<1>3. [o \in DOMAIN b \ {c} |-> b[o]] \in [S \ {c} -> Magnitude]
  BY <1>1, <1>2
<1>4. QED
  BY <1>2, <1>3 DEF Batches

LEMMA BatchMagnitude ==
    ASSUME NEW b \in Batches, NEW o \in DOMAIN b
    PROVE  b[o] \in Magnitude /\ o \in Offense
BY DEF Batches

LEMMA EmptyBatch == [o \in {} |-> 0] \in Batches /\ DOMAIN [o \in {} |-> 0] = {}
<1>1. [o \in {} |-> 0] \in [{} -> Magnitude]
  OBVIOUS
<1>2. QED
  BY <1>1 DEF Batches

-----------------------------------------------------------------------------
(***************************************************************************)
(* What makes the window, the TTL and the two magnitudes fit together.     *)
(***************************************************************************)

\* A row is not older than its offense; what was dropped began before the window and has
\* no row.
QuietTail ==
    /\ \A o \in dropped : queue[o] = NoRow /\ world[o].started < Horizon - Window
    /\ \A o \in Offense : queue[o] # NoRow => world[o].started <= queue[o].enqueued_at

\* Of one unit of time at most one passes during a run.
BatchInv ==
    /\ phase = "discover" => \A o \in DOMAIN batch :
        /\ world[o].started >= Horizon - Window
        /\ ran => world[o].started > Horizon - Window
    /\ phase = "retriage" => \A o \in DOMAIN batch : batch[o] >= LoudMin

PollerInv == Inv /\ QuietTail /\ BatchInv

LEMMA FaultType == faults \in Nat /\ (Fault \/ UNCHANGED faults) => faults' \in Nat
BY DEF Fault

LEMMA StartKeeps ==
    ASSUME PollerInv, Start
    PROVE  PollerInv'
<1>1. Discovered \subseteq Offense /\ UNCHANGED <<world, notes, verdict, queue, dropped, ran>>
  BY DEF Discovered, Start, outside
<1>2. /\ phase' = "discover" /\ place' = "next" /\ cur' = Nobody /\ count' = 0 /\ force' = FALSE
      /\ batch' \in Batches /\ DOMAIN batch' = Discovered
  BY <1>1, MagnitudesType DEF Start, Begin, PollerInv, Inv
<1>3. names' \in BOOLEAN /\ faults' \in Nat /\ windowStart' = Horizon - Window
  BY FaultType DEF Start, Succeeds, PollerInv, Inv, RunType
<1>4. windowStart' \in 0..Horizon
  BY <1>3, Bounds
<1>5. RunType'
  BY <1>1, <1>2, <1>3, <1>4 DEF RunType, Places, PollerInv, Inv
<1>6. \A o \in Discovered : world[o].started > Horizon - Window /\ world[o].started \in Nat
  BY Bounds DEF Discovered, PollerInv, Inv, WorldType, World
<1>7. BatchInv'
  BY <1>1, <1>2, <1>6, Bounds DEF BatchInv
<1>8. WorldType' /\ QueueType' /\ QuietTail'
  BY <1>1 DEF PollerInv, Inv, WorldType, QueueType, QuietTail
<1>9. QED
  BY <1>5, <1>7, <1>8 DEF PollerInv, Inv

LEMMA RetriageKeeps ==
    ASSUME PollerInv, Retriage
    PROVE  PollerInv'
<1>1. LongLived \subseteq Offense
      /\ UNCHANGED <<world, notes, verdict, queue, dropped, ran, faults, names, windowStart>>
  BY DEF LongLived, Retriage, outside
<1>2. /\ phase' = "retriage" /\ place' = "next" /\ cur' = Nobody /\ count' = 0 /\ force' = FALSE
      /\ batch' \in Batches /\ DOMAIN batch' = LongLived
      /\ \A o \in LongLived : batch'[o] = world[o].magnitude
  BY <1>1, MagnitudesType DEF Retriage, Begin, PollerInv, Inv
<1>3. RunType'
  BY <1>1, <1>2 DEF RunType, Places, PollerInv, Inv
<1>4. BatchInv'
  BY <1>2 DEF BatchInv, LongLived
<1>5. WorldType' /\ QueueType' /\ QuietTail'
  BY <1>1 DEF PollerInv, Inv, WorldType, QueueType, QuietTail
<1>6. QED
  BY <1>3, <1>4, <1>5 DEF PollerInv, Inv

\* The run goes on with the same batch or with one offense less.
LEMMA RunGoesOn ==
    ASSUME PollerInv, UNCHANGED <<world, notes, verdict, queue, dropped, ran, phase, windowStart, names, count>>,
           faults' \in Nat, phase # "off", force' \in BOOLEAN, NEW c,
           batch' = batch \/ batch' = [o \in DOMAIN batch \ {c} |-> batch[o]],
           \/ place' = "next" /\ cur' = Nobody
           \/ place' \in Places \ {"next"} /\ cur' \in DOMAIN batch'
    PROVE  PollerInv'
<1>1. batch' \in Batches /\ DOMAIN batch' \subseteq DOMAIN batch
      /\ \A o \in DOMAIN batch' : batch'[o] = batch[o] /\ o \in Offense
  BY BatchShrinks, BatchMagnitude DEF PollerInv, Inv, RunType
<1>2. RunType'
  BY <1>1, Bounds DEF PollerInv, Inv, RunType, Places
<1>3. BatchInv'
  BY <1>1 DEF PollerInv, BatchInv
<1>4. WorldType' /\ QueueType' /\ QuietTail'
  BY DEF PollerInv, Inv, WorldType, QueueType, QuietTail
<1>5. QED
  BY <1>2, <1>3, <1>4 DEF PollerInv, Inv

LEMMA PickKeeps ==
    ASSUME PollerInv, NEW o \in Offense, Pick(o)
    PROVE  PollerInv'
<1>1. /\ phase # "off" /\ place = "next" /\ cur = Nobody /\ o \in DOMAIN batch
      /\ faults' \in Nat /\ UNCHANGED <<world, notes, verdict, queue, dropped, ran>>
  BY FaultType DEF Pick, MayPick, Succeeds, outside, PollerInv, Inv, RunType
<1>2. CASE PassOver(o)
  BY <1>1, <1>2, RunGoesOn DEF PassOver, PollerInv, Inv, RunType
<1>3. CASE Take(o)
  BY <1>1, <1>3, RunGoesOn DEF Take, Goto, Places, PollerInv, Inv, RunType
<1>4. QED
  BY <1>2, <1>3 DEF Pick

\* The reads lead on to another place or to the next offense.
LEMMA ReadKeeps ==
    ASSUME PollerInv, ReadStatus \/ ReadAge \/ ReadVerdict \/ ReadNotes
    PROVE  PollerInv'
<1>1. /\ place # "next" /\ phase # "off" /\ cur # Nobody /\ cur \in DOMAIN batch
      /\ force \in BOOLEAN
  BY DEF ReadStatus, ReadAge, ReadVerdict, ReadNotes, PollerInv, Inv, RunType
<1>2. faults' \in Nat /\ UNCHANGED <<world, notes, verdict, queue, dropped, ran>>
  BY FaultType DEF ReadStatus, ReadAge, ReadVerdict, ReadNotes, Succeeds, outside, PollerInv, Inv, RunType
<1>3. CASE Skip
  BY <1>1, <1>2, <1>3, RunGoesOn DEF Skip
<1>4. CASE \E p \in Places \ {"next"} : Goto(p) /\ UNCHANGED cur /\ force' \in BOOLEAN
  BY <1>1, <1>2, <1>4, RunGoesOn DEF Goto
<1>5. Skip \/ \E p \in Places \ {"next"} : Goto(p) /\ UNCHANGED cur /\ force' \in BOOLEAN
  <2>1. CASE ReadStatus
    <3>1. count \in Nat /\ MaxNew \in Nat
      BY LimitAssumption DEF PollerInv, Inv, RunType
    <3>2. count >= MaxNew \/ count < MaxNew
      BY <3>1
    <3>3. \/ Skip
          \/ Goto("notes") /\ UNCHANGED <<cur, force>>
          \/ Goto("age") /\ UNCHANGED <<cur, force>>
          \/ Goto("put") /\ UNCHANGED <<cur, force>>
          \/ Goto("verdict") /\ UNCHANGED <<cur, force>>
      BY <2>1, <3>2 DEF ReadStatus
    <3>4. QED
      BY <1>1, <3>3 DEF Places
  <2>2. CASE ReadAge
    BY <1>1, <2>2 DEF ReadAge, Places
  <2>3. CASE ReadVerdict
    BY <1>1, <2>3 DEF ReadVerdict, Places
  <2>4. CASE ReadNotes
    BY <1>1, <2>4 DEF ReadNotes, Places
  <2>5. QED
    BY <2>1, <2>2, <2>3, <2>4
<1>6. QED
  BY <1>3, <1>4, <1>5

LEMMA OffKeeps ==
    ASSUME PollerInv, End \/ Abort
    PROVE  PollerInv'
<1>1. Off /\ faults' \in Nat
  BY FaultType DEF End, Abort, PollerInv, Inv, RunType
<1>2. UNCHANGED <<world, notes, verdict, queue, dropped>>
  BY <1>1 DEF Off, outside
<1>3. RunType'
  <2>1. /\ phase' = "off" /\ place' = "next" /\ cur' = Nobody /\ batch' = [o \in {} |-> 0]
        /\ windowStart' = 0 /\ names' = FALSE /\ count' = 0 /\ force' = FALSE /\ ran' = TRUE
    BY <1>1 DEF Off
  <2>2. batch' \in Batches /\ windowStart' \in 0..Horizon /\ count' \in Nat
    BY <2>1, EmptyBatch, Bounds
  <2>3. names' \in BOOLEAN /\ force' \in BOOLEAN /\ ran' \in BOOLEAN
    BY <2>1
  <2>4. QED
    BY <1>1, <2>1, <2>2, <2>3 DEF RunType, Places
<1>4. BatchInv'
  BY <1>1 DEF Off, BatchInv
<1>5. WorldType' /\ QueueType' /\ QuietTail'
  BY <1>2 DEF PollerInv, Inv, WorldType, QueueType, QuietTail
<1>6. QED
  BY <1>3, <1>4, <1>5 DEF PollerInv, Inv

\* Requests: by the poller and by analysts.
LEMMA RequestKeeps ==
    ASSUME PollerInv, NEW o \in Offense, NEW m \in Magnitude, NEW src \in Source,
           NEW f \in BOOLEAN, NEW forced \in BOOLEAN,
           queue' = Enqueue(queue, o, m, src, f, forced, Horizon),
           dropped' = {p \in dropped : queue'[p] = NoRow},
           UNCHANGED <<world, notes, verdict>>
    PROVE  WorldType' /\ QueueType' /\ QuietTail'
<1>1. queue \in Table
  BY DEF PollerInv, Inv, QueueType
<1>2. /\ queue' \in Table /\ \A p \in Offense \ {o} : queue'[p] = queue[p]
      /\ queue'[o] # NoRow
      /\ queue'[o].enqueued_at = Horizon
         \/ (queue[o] # NoRow /\ queue'[o].enqueued_at = queue[o].enqueued_at)
  BY <1>1, EnqueueRow
<1>3. \A p \in Offense : world[p].started <= Horizon
  BY Bounds DEF PollerInv, Inv, WorldType, World
<1>4. QuietTail'
  BY <1>2, <1>3 DEF PollerInv, Inv, QueueType, QuietTail
<1>5. QED
  BY <1>2, <1>4 DEF PollerInv, Inv, WorldType, QueueType

LEMMA PutKeeps ==
    ASSUME PollerInv, Put
    PROVE  PollerInv'
<1>1. /\ place # "next" /\ phase # "off" /\ cur # Nobody /\ cur \in Offense /\ cur \in DOMAIN batch
      /\ force \in BOOLEAN /\ batch \in Batches /\ (phase = "retriage") \in BOOLEAN
  BY DEF Put, PollerInv, Inv, RunType
<1>2. batch[cur] \in Magnitude /\ "auto" \in Source
  BY <1>1, BatchMagnitude DEF Source
<1>3. WorldType' /\ QueueType' /\ QuietTail'
  BY <1>1, <1>2, RequestKeeps DEF Put, outside
<1>4. /\ batch' \in Batches /\ DOMAIN batch' \subseteq DOMAIN batch
      /\ \A o \in DOMAIN batch' : batch'[o] = batch[o]
  BY <1>1, BatchShrinks DEF Put
<1>5. count' \in Nat
  BY DEF Put, PollerInv, Inv, RunType
<1>6. RunType'
  BY <1>4, <1>5, Bounds DEF Put, PollerInv, Inv, RunType, Places
<1>7. BatchInv'
  BY <1>4 DEF Put, outside, PollerInv, BatchInv
<1>8. QED
  BY <1>3, <1>6, <1>7 DEF PollerInv, Inv

-----------------------------------------------------------------------------
(***************************************************************************)
(* Everybody else leaves the run of the poller alone.                      *)
(***************************************************************************)
LEMMA OthersKeep ==
    ASSUME PollerInv, UNCHANGED <<phase, place, cur, windowStart, names, batch, count, force, ran>>,
           faults' \in Nat, WorldType', QueueType', QuietTail',
           \A o \in Offense : world'[o].started = world[o].started
    PROVE  PollerInv'
<1>1. RunType'
  BY DEF PollerInv, Inv, RunType
<1>2. \A o \in DOMAIN batch : o \in Offense
  BY BatchMagnitude DEF PollerInv, Inv, RunType
<1>3. BatchInv'
  BY <1>2 DEF PollerInv, BatchInv
<1>4. QED
  BY <1>1, <1>3 DEF PollerInv, Inv

LEMMA AskKeeps ==
    ASSUME PollerInv, NEW o \in Offense, Ask(o)
    PROVE  PollerInv'
<1>1. world[o].magnitude \in Magnitude /\ "manual" \in Source
  BY DEF PollerInv, Inv, WorldType, World, Source
<1>2. WorldType' /\ QueueType' /\ QuietTail'
  BY <1>1, RequestKeeps DEF Ask, outside
<1>3. faults' \in Nat
  BY DEF Ask, PollerInv, Inv, RunType
<1>4. QED
  BY <1>2, <1>3, OthersKeep DEF Ask, outside, poller

\* A table with the same rows and times.
LEMMA TailKept ==
    ASSUME PollerInv, queue' \in Table, SameRows(queue, queue'), dropped' = dropped,
           \A p \in Offense : queue[p] # NoRow => queue'[p].enqueued_at = queue[p].enqueued_at,
           \A o \in Offense : world'[o].started = world[o].started
    PROVE  QueueType' /\ QuietTail'
BY DEF PollerInv, Inv, QueueType, QuietTail, SameRows

LEMMA ClaimKeeps ==
    ASSUME PollerInv, NEW o \in Offense, Claim(o)
    PROVE  PollerInv'
<1>1. QueueType' /\ QuietTail'
  BY ClaimRows, TailKept DEF Claim, outside, PollerInv, Inv
<1>2. WorldType' /\ faults' \in Nat
  BY DEF Claim, outside, PollerInv, Inv, WorldType, RunType
<1>3. QED
  BY <1>1, <1>2, OthersKeep DEF Claim, outside, poller

\* What the worker and /process-one make of a row in their hands.
LEMMA SettleRows ==
    ASSUME PollerInv, NEW o \in Offense, InHands(o), NEW s \in {"DONE", "ERROR"}, Settle(o, s)
    PROVE  /\ queue' \in Table /\ SameRows(queue, queue')
           /\ \A p \in Offense : queue[p] # NoRow => queue'[p].enqueued_at = queue[p].enqueued_at
BY MarkRows DEF Settle, InHands, Status, PollerInv, Inv

LEMMA VerdictType ==
    ASSUME WorldType, NEW o \in Offense, NEW v \in Verdict \cup {NoVerdict, verdict[o]}
    PROVE  [verdict EXCEPT ![o] = v] \in [Offense -> Verdict]
<1>1. NoVerdict \in Verdict
  BY Bounds DEF NoVerdict, Verdict
<1>2. QED
  BY <1>1 DEF WorldType

LEMMA AnnotateType ==
    ASSUME PollerInv, NEW o \in Offense, Annotate(o)
    PROVE  notes' \in [Offense -> 0..Horizon \cup {NULL}] /\ faults' \in Nat
BY FaultType, Bounds DEF Annotate, PollerInv, Inv, WorldType, RunType

LEMMA AnalysisKeeps ==
    ASSUME PollerInv, NEW o \in Offense,
           Arrive(o) \/ Skipped(o) \/ Judge(o) \/ Undecided(o) \/ Unanswered(o)
    PROVE  PollerInv'
<1>1. InHands(o) /\ UNCHANGED <<phase, place, cur, windowStart, names, batch, count, force, ran, dropped>>
  BY DEF Arrive, Skipped, Judge, Undecided, Unanswered, Analysed, poller
<1>2. QueueType' /\ ((\A p \in Offense : world'[p].started = world[p].started) => QuietTail')
  <2>1. CASE \E s \in {"DONE", "ERROR"} : Settle(o, s)
    <3>1. /\ queue' \in Table /\ SameRows(queue, queue')
          /\ \A p \in Offense : queue[p] # NoRow => queue'[p].enqueued_at = queue[p].enqueued_at
      BY <1>1, <2>1, SettleRows
    <3>2. QueueType'
      BY <1>1, <3>1 DEF PollerInv, Inv, QueueType
    <3>3. QED
      BY <1>1, <3>1, <3>2, TailKept
  <2>2. CASE queue' = queue
    BY <1>1, <2>2 DEF PollerInv, Inv, QueueType, QuietTail
  <2>3. QED
    BY <2>1, <2>2 DEF Arrive, Skipped, Judge, Undecided, Unanswered
<1>3. faults' \in Nat /\ notes' \in [Offense -> 0..Horizon \cup {NULL}]
  BY AnnotateType, FaultType DEF Arrive, Skipped, Judge, Undecided, Unanswered,
     PollerInv, Inv, RunType, WorldType
<1>4. verdict' \in [Offense -> Verdict]
  <2>1. [processed |-> TRUE, at |-> Horizon, manual |-> IsManual(queue[o])] \in Verdict
    BY Bounds DEF Verdict, IsManual
  <2>2. CASE verdict' = verdict
    BY <2>2 DEF PollerInv, Inv, WorldType
  <2>3. CASE \E v \in Verdict \cup {NoVerdict, verdict[o]} : verdict' = [verdict EXCEPT ![o] = v]
    BY <2>3, VerdictType DEF PollerInv, Inv
  <2>4. QED
    BY <2>1, <2>2, <2>3 DEF Arrive, Skipped, Judge, Undecided, Unanswered
<1>5. world' \in [Offense -> World] /\ \A p \in Offense : world'[p].started = world[p].started
  <2>1. CASE Judge(o)
    <3>1. PICK open \in {world[o].open, FALSE} : world' = [world EXCEPT ![o].open = open]
      BY <2>1 DEF Judge
    <3>2. [world[o] EXCEPT !.open = open] \in World
          /\ [world[o] EXCEPT !.open = open].started = world[o].started
      BY DEF PollerInv, Inv, WorldType, World
    <3>3. world' = [world EXCEPT ![o] = [world[o] EXCEPT !.open = open]]
      BY <3>1 DEF PollerInv, Inv, WorldType
    <3>4. QED
      BY <3>2, <3>3 DEF PollerInv, Inv, WorldType
  <2>2. CASE world' = world
    BY <2>2 DEF PollerInv, Inv, WorldType
  <2>3. QED
    BY <2>1, <2>2 DEF Arrive, Skipped, Judge, Undecided, Unanswered
<1>6. WorldType'
  BY <1>3, <1>4, <1>5 DEF WorldType
<1>7. QED
  BY <1>1, <1>2, <1>3, <1>5, <1>6, OthersKeep

\* The sweep drops rows older than the TTL; their offenses began before the window.
LEMMA SweepKeeps ==
    ASSUME PollerInv, SweepTail
    PROVE  PollerInv'
<1> DEFINE swept == Swept(queue, LowMagMax, Ttl, Retention, Horizon)
<1>1. /\ queue' = [o \in Offense |-> IF o \in swept THEN NoRow ELSE queue[o]]
      /\ dropped' = dropped \cup {o \in swept : queue[o].status = "QUEUED"}
  BY DEF SweepTail, Sweep
<1>2. swept \subseteq Offense
  BY DEF Swept, Rows
<1>3. QueueType'
  BY <1>1, <1>2 DEF PollerInv, Inv, QueueType, Table
<1>4. ASSUME NEW o \in swept, queue[o].status = "QUEUED"
      PROVE  world[o].started < Horizon - Window
  <2>1. queue[o] # NoRow /\ queue[o].enqueued_at < Horizon - Ttl /\ o \in Offense
    BY <1>4 DEF Swept, Rows
  <2>2. queue[o] \in Row /\ world[o].started \in Nat /\ world[o].started <= queue[o].enqueued_at
    BY <2>1, Bounds DEF PollerInv, Inv, QueueType, Table, QuietTail, WorldType, World
  <2>3. queue[o].enqueued_at \in Nat
    BY <2>2 DEF Row
  <2>4. QED
    BY <2>1, <2>2, <2>3, Bounds
<1>5. UNCHANGED <<world, notes, verdict, phase, place, cur, windowStart, names, batch, count, force, ran, faults>>
  BY DEF SweepTail, outside, poller
<1> HIDE DEF swept
<1>6. QuietTail'
  BY <1>1, <1>2, <1>4, <1>5 DEF PollerInv, Inv, QueueType, QuietTail
<1>7. WorldType' /\ faults' \in Nat
  BY <1>5 DEF PollerInv, Inv, WorldType, RunType
<1>8. QED
  BY <1>3, <1>5, <1>6, <1>7, OthersKeep

LEMMA WipeKeeps ==
    ASSUME PollerInv, Wipe
    PROVE  PollerInv'
<1>1. queue' \in Table /\ \A o \in Offense : queue'[o] = NoRow
  BY DEF Wipe, Table
<1>2. NoVerdict \in Verdict
  BY Bounds DEF NoVerdict, Verdict
<1>3. WorldType' /\ faults' \in Nat
  BY <1>2, FaultType DEF Wipe, PollerInv, Inv, WorldType, RunType
<1>4. QueueType' /\ QuietTail'
  BY <1>1 DEF Wipe, PollerInv, Inv, QueueType, QuietTail
<1>5. QED
  BY <1>3, <1>4, OthersKeep DEF Wipe, poller

LEMMA ChangeKeeps ==
    ASSUME PollerInv, NEW o \in Offense, Change(o)
    PROVE  PollerInv'
<1>1. PICK w \in World : w.started = world[o].started /\ world' = [world EXCEPT ![o] = w]
  BY DEF Change
<1>2. WorldType' /\ \A p \in Offense : world'[p].started = world[p].started
  BY <1>1 DEF Change, PollerInv, Inv, WorldType
<1>3. QueueType' /\ QuietTail' /\ faults' \in Nat
  BY <1>2 DEF Change, PollerInv, Inv, QueueType, QuietTail, RunType
<1>4. QED
  BY <1>2, <1>3, OthersKeep DEF Change, poller

-----------------------------------------------------------------------------
(***************************************************************************)
(* Time: everything moves into the past together.                          *)
(***************************************************************************)
LEMMA BackType ==
    /\ \A t \in 0..Horizon : Back(t) \in 0..Horizon
    /\ Back(NULL) = NULL
    /\ \A t \in Nat : Back(t) \in Nat /\ Back(t) <= t /\ Back(t) >= t - 1
    /\ \A t, u \in Nat : t <= u => Back(t) <= Back(u)
BY Bounds DEF Back, NULL

LEMMA TickKeeps == PollerInv /\ Tick => PollerInv'
<1> SUFFICES ASSUME PollerInv, Tick
             PROVE  PollerInv'
  OBVIOUS
<1>1. /\ world' \in [Offense -> World]
      /\ \A o \in Offense : world'[o].started = Back(world[o].started)
                            /\ world[o].started \in Nat
  <2>1. \A o \in Offense : world[o] \in World /\ Back(world[o].started) \in 0..Horizon
    BY BackType DEF PollerInv, Inv, WorldType, World
  <2>2. \A w \in World, t \in 0..Horizon :
          [w EXCEPT !.started = t] \in World /\ [w EXCEPT !.started = t].started = t
    BY DEF World
  <2>3. world' = [o \in Offense |-> [world[o] EXCEPT !.started = Back(world[o].started)]]
    BY DEF Tick
  <2>4. \A o \in Offense : world[o].started \in Nat
    BY <2>1, Bounds DEF World
  <2>5. QED
    BY <2>1, <2>2, <2>3, <2>4
<1>2. notes' \in [Offense -> 0..Horizon \cup {NULL}]
  BY BackType DEF Tick, PollerInv, Inv, WorldType
<1>3. verdict' \in [Offense -> Verdict]
  <2>1. \A o \in Offense : verdict[o] \in Verdict /\ Back(verdict[o].at) \in 0..Horizon
    BY BackType DEF PollerInv, Inv, WorldType, Verdict
  <2>2. \A v \in Verdict, t \in 0..Horizon : [v EXCEPT !.at = t] \in Verdict
    BY DEF Verdict
  <2>3. verdict' = [o \in Offense |-> [verdict[o] EXCEPT !.at = Back(verdict[o].at)]]
    BY DEF Tick
  <2>4. QED
    BY <2>1, <2>2, <2>3
<1>4. /\ queue' \in Table /\ SameRows(queue, queue')
      /\ \A o \in Offense : queue[o] # NoRow =>
            /\ queue'[o].enqueued_at = Back(queue[o].enqueued_at)
            /\ queue[o].enqueued_at \in Nat
  <2>1. \A o \in Offense : queue[o] # NoRow =>
          queue[o] \in Row /\ queue[o].enqueued_at \in Nat /\ Back(queue[o].enqueued_at) \in Nat
    BY BackType DEF PollerInv, Inv, QueueType, Table, Row
  <2>2. ASSUME NEW r \in Row, NEW t \in Nat
        PROVE  /\ [r EXCEPT !.enqueued_at = t] \in Row
               /\ [r EXCEPT !.enqueued_at = t].enqueued_at = t
               /\ [r EXCEPT !.enqueued_at = t].source = r.source
    BY DEF Row
  <2>3. \A o \in Offense : queue'[o] = IF queue[o] = NoRow THEN NoRow
            ELSE [queue[o] EXCEPT !.enqueued_at = Back(queue[o].enqueued_at)]
    BY DEF Tick
  <2>4. ASSUME NEW o \in Offense, queue[o] # NoRow
        PROVE  /\ queue'[o] \in Row /\ queue'[o].enqueued_at = Back(queue[o].enqueued_at)
               /\ queue'[o].source = queue[o].source
    <3>1. queue'[o] = [queue[o] EXCEPT !.enqueued_at = Back(queue[o].enqueued_at)]
      BY <2>3, <2>4
    <3>2. queue[o] \in Row /\ Back(queue[o].enqueued_at) \in Nat
      BY <2>1, <2>4
    <3>3. QED
      BY <2>2, <3>1, <3>2
  <2>5. queue' \in Table
    BY <2>3, <2>4 DEF Tick, Table
  <2>6. QED
    BY <2>1, <2>3, <2>4, <2>5, NoRowAssumption DEF SameRows
<1>5. UNCHANGED <<dropped, phase, place, cur, names, batch, count, force, faults>> /\ ran /\ ~ran'
  BY DEF Tick
<1>6. RunType'
  <2>1. windowStart' \in 0..Horizon
    BY BackType DEF Tick, PollerInv, Inv, RunType
  <2>2. ran' \in BOOLEAN
    BY DEF Tick
  <2>3. QED
    BY <1>5, <2>1, <2>2 DEF PollerInv, Inv, RunType
<1>7. WorldType' /\ QueueType'
  BY <1>1, <1>2, <1>3, <1>4, <1>5 DEF PollerInv, Inv, WorldType, QueueType
<1>8. QuietTail'
  <2>1. \A o \in dropped : queue'[o] = NoRow /\ world'[o].started < Horizon - Window
    BY <1>1, <1>4, BackType, Bounds DEF PollerInv, Inv, QueueType, QuietTail, SameRows
  <2>2. \A o \in Offense : queue'[o] # NoRow => world'[o].started <= queue'[o].enqueued_at
    BY <1>1, <1>4, BackType DEF PollerInv, QuietTail, SameRows
  <2>3. QED
    BY <1>5, <2>1, <2>2 DEF QuietTail
<1>9. BatchInv'
  <2>1. \A o \in DOMAIN batch : o \in Offense
    BY BatchMagnitude DEF PollerInv, Inv, RunType
  <2>2. ASSUME phase = "discover", NEW o \in DOMAIN batch
        PROVE  world'[o].started >= Horizon - Window
    <3>1. world[o].started > Horizon - Window /\ world[o].started \in Nat
      BY <1>1, <1>5, <2>1, <2>2 DEF PollerInv, BatchInv
    <3>2. Back(world[o].started) \in Nat /\ Back(world[o].started) >= world[o].started - 1
      BY <3>1, BackType
    <3>3. QED
      BY <1>1, <2>1, <2>2, <3>1, <3>2, Bounds
  <2>3. QED
    BY <1>5, <2>2 DEF PollerInv, BatchInv
<1>10. QED
  BY <1>6, <1>7, <1>8, <1>9 DEF PollerInv, Inv

-----------------------------------------------------------------------------
LEMMA PollerInvInit == Init => PollerInv
<1> SUFFICES ASSUME Init
             PROVE  PollerInv
  OBVIOUS
<1>1. /\ phase = "off" /\ place = "next" /\ cur = Nobody /\ batch = [o \in {} |-> 0]
      /\ windowStart = 0 /\ names = FALSE /\ count = 0 /\ force = FALSE /\ ran = FALSE /\ faults = 0
      /\ dropped = {} /\ queue = [o \in Offense |-> NoRow] /\ verdict = [o \in Offense |-> NoVerdict]
      /\ notes = [o \in Offense |-> NULL]
  BY DEF Init
<1>2. batch \in Batches /\ windowStart \in 0..Horizon
  BY <1>1, EmptyBatch, Bounds
<1>3. names \in BOOLEAN /\ force \in BOOLEAN /\ ran \in BOOLEAN
  BY <1>1
<1>4. RunType
  BY <1>1, <1>2, <1>3 DEF RunType, Places
<1>5. NoVerdict \in Verdict
  BY Bounds DEF NoVerdict, Verdict
<1>6. world \in [Offense -> World]
  <2>1. [open: {TRUE}, magnitude: Magnitude, live: BOOLEAN, started: {0, Horizon}] \subseteq World
    <3>1. {0, Horizon} \subseteq 0..Horizon /\ {TRUE} \subseteq BOOLEAN
      BY Bounds
    <3>2. QED
      BY <3>1 DEF World
  <2>2. QED
    BY <2>1 DEF Init
<1>7. WorldType
  BY <1>1, <1>5, <1>6 DEF WorldType
<1>8. QueueType /\ QuietTail /\ BatchInv
  BY <1>1 DEF QueueType, Table, QuietTail, BatchInv
<1>9. QED
  BY <1>4, <1>7, <1>8 DEF PollerInv, Inv

LEMMA PollerInvStep == PollerInv /\ [Next]_vars => PollerInv'
<1> SUFFICES ASSUME PollerInv, [Next]_vars
             PROVE  PollerInv'
  OBVIOUS
<1>1. CASE UNCHANGED vars
  BY <1>1 DEF vars, outside, poller, PollerInv, Inv, WorldType, QueueType, RunType, QuietTail, BatchInv
<1>2. CASE PollerStep
  BY <1>2, StartKeeps, PickKeeps, ReadKeeps, PutKeeps, RetriageKeeps, OffKeeps DEF PollerStep
<1>3. QED
  BY <1>1, <1>2, OffKeeps, SweepKeeps, WipeKeeps, TickKeeps, AskKeeps, ClaimKeeps,
     AnalysisKeeps, ChangeKeeps DEF Next

LEMMA PollerInvAlways == Spec => []PollerInv
BY PollerInvInit, PollerInvStep, PTL DEF Spec

\* Every reachable state of poller, queue and world is well typed, and the poller has an
\* offense in its hands exactly between two `next`.
THEOREM TypeCorrect == Spec => []TypeOK
<1>1. PollerInv => TypeOK
  BY DEF PollerInv, Inv, WorldType, QueueType, RunType, TypeOK, Table, Batches, Places
<1>2. QED
  BY <1>1, PollerInvAlways, PTL

-----------------------------------------------------------------------------
(***************************************************************************)
(* Who makes rows, and whose they are.                                     *)
(***************************************************************************)
\* Only the poller and analysts make a row or change its source.
LEMMA NoNewRow ==
    ASSUME PollerInv, [Next]_vars, ~Put, \A o \in Offense : ~Ask(o), NEW o \in Offense
    PROVE  \/ queue'[o] = NoRow
           \/ queue[o] # NoRow /\ queue'[o].source = queue[o].source
<1>1. CASE queue' = queue
  BY <1>1
<1>2. CASE \E p \in Offense : Claim(p)
  BY <1>2, ClaimRows DEF Claim, SameRows, PollerInv, Inv
<1>3. CASE \E p \in Offense, s \in {"DONE", "ERROR"} : InHands(p) /\ Settle(p, s)
  BY <1>3, SettleRows DEF SameRows
<1>4. CASE SweepTail \/ Wipe
  BY <1>4 DEF SweepTail, Sweep, Wipe
<1>5. CASE Tick
  <2>1. queue'[o] = IF queue[o] = NoRow THEN NoRow
                    ELSE [queue[o] EXCEPT !.enqueued_at = Back(queue[o].enqueued_at)]
    BY <1>5 DEF Tick
  <2>2. queue[o] # NoRow => queue[o] \in Row
    BY DEF PollerInv, Inv, QueueType, Table
  <2>3. QED
    BY <2>1, <2>2 DEF Row
<1>6. \/ queue' = queue \/ SweepTail \/ Wipe \/ Tick
      \/ \E p \in Offense : Claim(p) \/ \E s \in {"DONE", "ERROR"} : InHands(p) /\ Settle(p, s)
  <2>1. PollerStep \/ Abort => queue' = queue
    BY DEF PollerStep, Start, Pick, ReadStatus, ReadAge, ReadVerdict, ReadNotes, Retriage, End, Abort, Off
  <2>2. ASSUME NEW p \in Offense,
               Arrive(p) \/ Skipped(p) \/ Judge(p) \/ Undecided(p) \/ Unanswered(p)
        PROVE  queue' = queue \/ \E s \in {"DONE", "ERROR"} : InHands(p) /\ Settle(p, s)
    BY <2>2 DEF Arrive, Skipped, Judge, Undecided, Unanswered, Analysed
  <2>3. \A p \in Offense : Change(p) => queue' = queue
    BY DEF Change
  <2>4. UNCHANGED vars => queue' = queue
    BY DEF vars
  <2>5. QED
    BY <2>1, <2>2, <2>3, <2>4 DEF Next
<1>7. QED
  BY <1>1, <1>2, <1>3, <1>4, <1>5, <1>6

\* What a request does to the table: a new row is the caller's, a waiting one keeps its source.
LEMMA RequestRow ==
    ASSUME PollerInv, NEW p \in Offense, NEW m \in Magnitude, NEW src \in Source,
           NEW f \in BOOLEAN, NEW forced \in BOOLEAN,
           queue' = Enqueue(queue, p, m, src, f, forced, Horizon), NEW o \in Offense
    PROVE  \/ queue'[o] = queue[o]
           \/ o = p /\ queue[o] # NoRow /\ queue'[o].source = queue[o].source
           \/ /\ o = p /\ queue'[o].source = src /\ queue'[o].magnitude = m
              /\ queue[o] = NoRow \/ queue[o].status \in {"DONE", "ERROR"}
<1>1. queue \in Table
  BY DEF PollerInv, Inv, QueueType
<1>2. QED
  BY <1>1, EnqueueRow

\* The row an automatic request or an analyst's leaves.
LEMMA PutRow ==
    ASSUME PollerInv, Put, NEW o \in Offense, queue'[o] # NoRow
    PROVE  \/ queue[o] # NoRow /\ queue'[o].source = queue[o].source
           \/ /\ queue[o] = NoRow \/ queue[o].status \in {"DONE", "ERROR"}
              /\ o \in DOMAIN batch /\ phase # "off" /\ queue'[o].magnitude = batch[o]
<1>1. /\ cur \in Offense /\ cur \in DOMAIN batch /\ phase # "off" /\ batch[cur] \in Magnitude
      /\ force \in BOOLEAN /\ queue \in Table
  BY BatchMagnitude DEF Put, PollerInv, Inv, QueueType, RunType
<1>2. "auto" \in Source /\ (phase = "retriage") \in BOOLEAN
  BY DEF Source
<1>3. queue' = Enqueue(queue, cur, batch[cur], "auto", phase = "retriage", force, Horizon)
  BY DEF Put
<1>4. \/ queue'[o] = queue[o]
      \/ o = cur /\ queue[o] # NoRow /\ queue'[o].source = queue[o].source
      \/ /\ o = cur /\ queue'[o].source = "auto" /\ queue'[o].magnitude = batch[cur]
         /\ queue[o] = NoRow \/ queue[o].status \in {"DONE", "ERROR"}
  BY <1>1, <1>2, <1>3, RequestRow
<1>5. QED
  BY <1>1, <1>4

LEMMA AskRow ==
    ASSUME PollerInv, NEW p \in Offense, Ask(p), NEW o \in Offense, queue'[o] # NoRow
    PROVE  \/ queue[o] # NoRow /\ queue'[o].source = queue[o].source
           \/ /\ queue[o] = NoRow \/ queue[o].status \in {"DONE", "ERROR"}
              /\ queue'[o].source = "manual"
<1>1. world[p].magnitude \in Magnitude /\ queue \in Table
  BY DEF PollerInv, Inv, QueueType, WorldType, World
<1>2. "manual" \in Source
  BY DEF Source
<1>3. queue' = Enqueue(queue, p, world[p].magnitude, "manual", FALSE, TRUE, Horizon)
  BY DEF Ask
<1>4. \/ queue'[o] = queue[o]
      \/ o = p /\ queue[o] # NoRow /\ queue'[o].source = queue[o].source
      \/ /\ o = p /\ queue'[o].source = "manual" /\ queue'[o].magnitude = world[p].magnitude
         /\ queue[o] = NoRow \/ queue[o].status \in {"DONE", "ERROR"}
  BY <1>1, <1>2, <1>3, RequestRow
<1>5. QED
  BY <1>4

\* A waiting row keeps its source, whoever asks for the offense again: no request of an
\* analyst is turned into an automatic one.
THEOREM AnalystKeptCorrect == Spec => AnalystKept
<1>1. ASSUME PollerInv, [Next]_vars, NEW o \in Offense, Waiting(o), queue'[o] # NoRow
      PROVE  queue'[o].source = queue[o].source
  <2>1. queue[o] # NoRow /\ queue[o].status \in {"QUEUED", "IN_PROGRESS"} /\ queue \in Table
    BY <1>1 DEF Waiting, PollerInv, Inv, QueueType
  <2>2. CASE Put
    BY <1>1, <2>1, <2>2, PutRow
  <2>3. CASE \E p \in Offense : Ask(p)
    BY <1>1, <2>1, <2>3, AskRow
  <2>4. CASE ~Put /\ \A p \in Offense : ~Ask(p)
    BY <1>1, <2>4, NoNewRow
  <2>5. QED
    BY <2>2, <2>3, <2>4
<1>2. PollerInv /\ [Next]_vars =>
        [\A o \in Offense :
            /\ Waiting(o) /\ queue[o].source = "manual"
            /\ queue'[o] # NoRow /\ queue'[o].status \in {"QUEUED", "IN_PROGRESS"}
            => queue'[o].source = "manual"]_vars
  BY <1>1
<1>3. QED
  BY <1>2, PollerInvAlways, PTL DEF Spec, AnalystKept

\* What the sweep dropped began before the window of the discovery, and the re-triage asks
\* for loud offenses only.
THEOREM SweptCorrect == Spec => SweptStaysOut
<1>1. ASSUME PollerInv, [Next]_vars, NEW o \in Offense, o \in dropped, queue'[o] # NoRow
      PROVE  queue'[o].source = "manual" \/ queue'[o].magnitude >= LoudMin
  <2>1. queue[o] = NoRow /\ world[o].started < Horizon - Window /\ queue \in Table
    BY <1>1 DEF PollerInv, Inv, QueueType, QuietTail
  <2>2. CASE Put
    <3>1. o \in DOMAIN batch /\ phase # "off" /\ queue'[o].magnitude = batch[o]
      BY <1>1, <2>1, <2>2, PutRow
    <3>3. phase # "discover"
      <4>1. world[o].started \in Nat
        BY Bounds, <1>1 DEF PollerInv, Inv, WorldType, World
      <4>2. QED
        BY <1>1, <2>1, <3>1, <4>1, Bounds DEF PollerInv, BatchInv
    <3>4. phase = "retriage"
      BY <1>1, <3>1, <3>3 DEF PollerInv, Inv, RunType
    <3>5. QED
      BY <1>1, <3>1, <3>4 DEF PollerInv, BatchInv
  <2>3. CASE \E p \in Offense : Ask(p)
    BY <1>1, <2>1, <2>3, AskRow
  <2>4. CASE ~Put /\ \A p \in Offense : ~Ask(p)
    BY <1>1, <2>1, <2>4, NoNewRow
  <2>5. QED
    BY <2>2, <2>3, <2>4
<1>2. PollerInv => dropped \subseteq Offense
  BY DEF PollerInv, Inv, QueueType
<1>3. PollerInv /\ [Next]_vars =>
        [\A o \in Offense :
            o \in dropped /\ queue'[o] # NoRow =>
                queue'[o].source = "manual" \/ queue'[o].magnitude >= LoudMin]_vars
  BY <1>1
<1>4. QED
  BY <1>3, PollerInvAlways, PTL DEF Spec, SweptStaysOut

-----------------------------------------------------------------------------
(***************************************************************************)
(* Verdicts that stand.  Only the re-triage forces an automatic row, and   *)
(* it reads row, verdict and note one after the other.  What it saw stays  *)
(* good enough until it enqueues: no automatic row of the offense in its   *)
(* hands waits, so a verdict reached in between is an analyst's.           *)
(***************************************************************************)
Stands(o) == verdict[o].processed /\ ~verdict[o].manual /\ Young(verdict[o].at)

Forced(o) == Waiting(o) /\ queue[o].source = "auto" /\ queue[o].force

RowSeen == phase = "retriage" /\ place \in {"verdict", "notes", "put"}
VerdictSeen == phase = "retriage" /\ place \in {"notes", "put"}

FreshInv ==
    /\ \A o \in Offense : Forced(o) => ~Stands(o)
    /\ RowSeen /\ Waiting(cur) => queue[cur].source = "manual"
    /\ VerdictSeen => ~Stands(cur)
    /\ place = "age" => phase = "discover"

Unfailed == PollerInv /\ (faults = 0 => FreshInv)

\* A failure stays on record.
LEMMA FaultsStay ==
    ASSUME PollerInv, [Next]_vars, faults' = 0
    PROVE  faults = 0 /\ UNCHANGED faults
<1>1. faults \in Nat
  BY DEF PollerInv, Inv, RunType
<1>2. ~Fault
  BY <1>1 DEF Fault
<1>3. CASE UNCHANGED vars
  BY <1>3 DEF vars
<1>4. CASE PollerStep
  BY <1>2, <1>4
  DEF PollerStep, Start, Pick, ReadStatus, ReadAge, ReadVerdict, ReadNotes, Put, Retriage, End,
      Succeeds
<1>5. CASE Abort \/ SweepTail \/ Wipe \/ Tick
  BY <1>2, <1>5 DEF Abort, SweepTail, Wipe, Tick
<1>6. ASSUME NEW o \in Offense,
             \/ Ask(o) \/ Claim(o) \/ Arrive(o) \/ Skipped(o) \/ Judge(o) \/ Undecided(o)
             \/ Unanswered(o) \/ Change(o)
      PROVE  UNCHANGED faults
  BY <1>2, <1>6 DEF Ask, Claim, Arrive, Skipped, Judge, Undecided, Unanswered, Change, Annotate
<1>7. UNCHANGED faults
  BY <1>3, <1>4, <1>5, <1>6 DEF Next
<1>8. QED
  BY <1>7

\* The steps of anyone but the poller.
Others ==
    \/ SweepTail \/ Tick
    \/ \E o \in Offense :
        \/ Ask(o) \/ Claim(o) \/ Arrive(o) \/ Skipped(o) \/ Judge(o) \/ Undecided(o)
        \/ Unanswered(o) \/ Change(o)

\* A request leaves a row that waits its source and does not force it; a row that begins to wait
\* is the caller's.
LEMMA RequestForce ==
    ASSUME queue \in Table, NEW p \in Offense, NEW m \in Magnitude, NEW src \in Source,
           NEW f \in BOOLEAN, NEW forced \in BOOLEAN,
           queue' = Enqueue(queue, p, m, src, f, forced, Horizon), NEW o \in Offense
    PROVE  \/ queue'[o] = queue[o]
           \/ /\ queue[o] # NoRow /\ queue[o].status = "QUEUED"
              /\ queue'[o].source = queue[o].source /\ (queue'[o].force => queue[o].force)
           \/ o = p /\ queue'[o].source = src
<1> DEFINE outcome == EnqueueOutcome(queue, p, m, forced)
<1>1. CASE outcome \in {"inserted", "requeued"}
  <2>1. queue' = [queue EXCEPT ![p] = NewRow(m, src, f, Horizon)]
    BY <1>1 DEF Enqueue
  <2>2. QED
    BY <2>1 DEF Table, NewRow
<1>2. CASE outcome = "refreshed"
  <2>1. queue[p] # NoRow /\ queue[p].status = "QUEUED" /\ queue[p] \in Row
    BY <1>2 DEF EnqueueOutcome, Table
  <2>2. queue' = [queue EXCEPT ![p] = [queue[p] EXCEPT !.magnitude = m]]
    BY <1>2 DEF Enqueue
  <2>3. QED
    BY <2>1, <2>2 DEF Table, Row
<1>3. CASE outcome \notin {"inserted", "requeued", "refreshed"}
  BY <1>3 DEF Enqueue
<1>4. QED
  BY <1>1, <1>2, <1>3

\* Whoever but the poller steps: a row that waits afterwards waited before, the same in
\* source and no more forced, or is an analyst's.
LEMMA WaitingKept ==
    ASSUME PollerInv, Others, NEW o \in Offense, Waiting(o)'
    PROVE  \/ Waiting(o) /\ queue'[o].source = queue[o].source /\ (queue'[o].force => queue[o].force)
           \/ queue'[o].source = "manual"
<1>1. queue \in Table /\ (queue[o] # NoRow => queue[o] \in Row)
  BY DEF PollerInv, Inv, QueueType, Table
<1>2. CASE queue' = queue
  BY <1>2 DEF Waiting
<1>3. ASSUME NEW p \in Offense, Ask(p)
      PROVE  \/ Waiting(o) /\ queue'[o].source = queue[o].source /\ (queue'[o].force => queue[o].force)
             \/ queue'[o].source = "manual"
  <2>1. world[p].magnitude \in Magnitude /\ "manual" \in Source
    BY DEF PollerInv, Inv, WorldType, World, Source
  <2>2. queue' = Enqueue(queue, p, world[p].magnitude, "manual", FALSE, TRUE, Horizon)
    BY <1>3 DEF Ask
  <2>3. \/ queue'[o] = queue[o]
        \/ /\ queue[o] # NoRow /\ queue[o].status = "QUEUED"
           /\ queue'[o].source = queue[o].source /\ (queue'[o].force => queue[o].force)
        \/ queue'[o].source = "manual"
    BY <1>1, <2>1, <2>2, RequestForce
  <2>4. QED
    BY <2>3 DEF Waiting
<1>4. ASSUME NEW p \in Offense, Claim(p)
      PROVE  Waiting(o) /\ queue'[o].source = queue[o].source /\ (queue'[o].force => queue[o].force)
  <2>1. queue' = [queue EXCEPT ![p] = ClaimRow(queue[p], 0)]
        /\ queue[p] # NoRow /\ queue[p].status = "QUEUED" /\ queue[p] \in Row
    BY <1>4, <1>1 DEF Claim, PollerInv, Inv, QueueType, Table
  <2>2. ClaimRow(queue[p], 0).source = queue[p].source /\ ClaimRow(queue[p], 0).force = queue[p].force
    BY <2>1 DEF ClaimRow, Row
  <2>3. QED
    BY <1>1, <2>1, <2>2 DEF Waiting, Table
<1>5. ASSUME NEW p \in Offense, NEW s \in {"DONE", "ERROR"}, Settle(p, s)
      PROVE  Waiting(o) /\ queue'[o].source = queue[o].source /\ (queue'[o].force => queue[o].force)
  <2>1. queue' = Mark(queue, p, s)
    BY <1>5 DEF Settle
  <2>2. CASE queue[p] = NoRow \/ o # p
    BY <1>1, <2>1, <2>2 DEF Mark, Waiting, Table
  <2>3. CASE queue[p] # NoRow /\ o = p
    <3>1. queue'[o].status = s
      BY <1>1, <2>1, <2>3 DEF Mark, Table, Row
    <3>2. QED
      BY <3>1 DEF Waiting
  <2>4. QED
    BY <2>2, <2>3
<1>6. CASE SweepTail
  BY <1>6 DEF SweepTail, Sweep, Waiting
<1>7. CASE Tick
  <2>1. queue'[o] = IF queue[o] = NoRow THEN NoRow
                    ELSE [queue[o] EXCEPT !.enqueued_at = Back(queue[o].enqueued_at)]
    BY <1>7 DEF Tick
  <2>2. QED
    BY <1>1, <2>1 DEF Waiting, Row
<1>8. ASSUME NEW p \in Offense,
             \/ Arrive(p) \/ Skipped(p) \/ Judge(p) \/ Undecided(p) \/ Unanswered(p) \/ Change(p)
      PROVE  queue' = queue \/ \E s \in {"DONE", "ERROR"} : Settle(p, s)
  BY <1>8 DEF Arrive, Skipped, Judge, Undecided, Unanswered, Change
<1>9. QED
  BY <1>2, <1>3, <1>4, <1>5, <1>6, <1>7, <1>8 DEF Others

\* Whoever but the poller steps: no automatic verdict becomes young again, unless the worker
\* reaches one for an automatic row, which then waits no more.
LEMMA VerdictKept ==
    ASSUME PollerInv, Others, NEW o \in Offense, ~Stands(o)
    PROVE  \/ ~Stands(o)'
           \/ InHands(o) /\ ~IsManual(queue[o]) /\ ~Waiting(o)'
<1>1. verdict \in [Offense -> Verdict] /\ queue \in Table
  BY DEF PollerInv, Inv, WorldType, QueueType
<1>2. CASE verdict'[o] = verdict[o]
  BY <1>2 DEF Stands, Young
<1>3. CASE verdict'[o] = NoVerdict
  BY <1>3 DEF Stands, NoVerdict
<1>4. CASE Tick
  <2>1. verdict'[o] = [verdict[o] EXCEPT !.at = Back(verdict[o].at)]
    BY <1>4 DEF Tick
  <2>2. verdict[o] \in Verdict /\ verdict[o].at \in Int /\ Horizon \in Int /\ Interval \in 1..Horizon - 1
    BY <1>1, Bounds DEF Verdict
  <2>3. /\ verdict'[o].processed = verdict[o].processed /\ verdict'[o].manual = verdict[o].manual
        /\ verdict'[o].at = Back(verdict[o].at)
    BY <2>1, <2>2 DEF Verdict
  <2>4. Young(Back(verdict[o].at)) => Young(verdict[o].at)
    BY <1>1, <2>2 DEF Young, Back, NULL, Verdict
  <2>5. QED
    BY <2>3, <2>4 DEF Stands
<1>5. ASSUME NEW p \in Offense, Judge(p), verdict'[o] # verdict[o]
      PROVE  \/ ~Stands(o)'
             \/ InHands(o) /\ ~IsManual(queue[o]) /\ ~Waiting(o)'
  <2>1. o = p /\ verdict'[o].manual = IsManual(queue[o]) /\ InHands(o) /\ Settle(o, "DONE")
    BY <1>1, <1>5 DEF Judge, Analysed
  <2>2. queue[o] # NoRow /\ queue[o] \in Row /\ queue' = Mark(queue, o, "DONE")
    BY <1>1, <2>1 DEF InHands, Settle, Table
  <2>3. queue'[o].status = "DONE"
    BY <1>1, <2>2 DEF Mark, Table, Row
  <2>4. ~Waiting(o)'
    BY <2>3 DEF Waiting
  <2>5. QED
    BY <2>1, <2>4 DEF Stands
<1>6. ASSUME NEW p \in Offense,
             Arrive(p) \/ Undecided(p) \/ Unanswered(p)
      PROVE  verdict'[o] = verdict[o] \/ verdict'[o] = NoVerdict
  BY <1>1, <1>6 DEF Arrive, Undecided, Unanswered
<1>7. ASSUME NEW p \in Offense, Ask(p) \/ Claim(p) \/ Skipped(p) \/ Change(p)
      PROVE  verdict' = verdict
  BY <1>7 DEF Ask, Claim, Skipped, Change, outside
<1>8. SweepTail => verdict' = verdict
  BY DEF SweepTail, outside
<1>9. QED
  BY <1>2, <1>3, <1>4, <1>5, <1>6, <1>7, <1>8 DEF Others

LEMMA OthersFresh ==
    ASSUME PollerInv, PollerInv', FreshInv, Others
    PROVE  FreshInv'
<1>1. UNCHANGED <<phase, place, cur>>
  BY DEF Others, SweepTail, Tick, Ask, Claim, Arrive, Skipped, Judge, Undecided, Unanswered, Change, poller
<1>2. ASSUME NEW o \in Offense, Forced(o)'
      PROVE  ~Stands(o)'
  <2>1. Waiting(o)' /\ queue'[o].source = "auto" /\ queue'[o].force
    BY <1>2 DEF Forced
  <2>2. Forced(o)
    BY <2>1, WaitingKept DEF Forced
  <2>3. ~Stands(o)
    BY <2>2 DEF FreshInv
  <2>4. QED
    BY <2>1, <2>3, VerdictKept
<1>3. RowSeen => cur \in Offense
  BY DEF RowSeen, PollerInv, Inv, RunType
<1>4. ASSUME NEW o \in Offense, o = cur, RowSeen, Waiting(o)'
      PROVE  queue'[o].source = "manual"
  BY <1>4, WaitingKept DEF FreshInv
<1>5. VerdictSeen => ~Stands(cur)'
  <2> SUFFICES ASSUME VerdictSeen PROVE ~Stands(cur)'
    OBVIOUS
  <2>1. RowSeen /\ cur \in Offense /\ ~Stands(cur)
    BY <1>3 DEF VerdictSeen, RowSeen, FreshInv
  <2>2. InHands(cur) => IsManual(queue[cur])
    BY <2>1 DEF InHands, Waiting, FreshInv, IsManual
  <2>3. \A o \in Offense : o = cur => ~Stands(o)'
    BY <2>1, <2>2, VerdictKept
  <2>4. QED
    BY <1>1, <2>1, <2>3
<1>6. QED
  BY <1>1, <1>2, <1>3, <1>4, <1>5 DEF FreshInv, RowSeen, VerdictSeen, Waiting

\* The poller's steps but for the enqueue.
LEMMA ReadFresh ==
    ASSUME PollerInv, FreshInv, UNCHANGED faults,
           \/ Start \/ (\E o \in Offense : Pick(o)) \/ ReadStatus \/ ReadAge \/ ReadVerdict
           \/ ReadNotes \/ Retriage \/ End
    PROVE  FreshInv'
<1>1. faults \in Nat /\ ~Fault
  BY DEF PollerInv, Inv, RunType, Fault
<1>2. UNCHANGED <<queue, verdict>>
  BY DEF Start, Pick, ReadStatus, ReadAge, ReadVerdict, ReadNotes, Retriage, End, Off, outside
<1>3. \A o \in Offense : Forced(o)' => ~Stands(o)'
  BY <1>2 DEF FreshInv, Forced, Waiting, Stands
<1>4. CASE Start \/ Retriage \/ End
  BY <1>3, <1>4 DEF Start, Retriage, End, Begin, Off, FreshInv, RowSeen, VerdictSeen
<1>5. ASSUME NEW o \in Offense, Pick(o)
      PROVE  FreshInv'
  <2>1. place' \in {"next", "status"}
    BY <1>5 DEF Pick, PassOver, Take, Goto
  <2>2. QED
    BY <1>3, <2>1 DEF FreshInv, RowSeen, VerdictSeen
<1>6. CASE ReadStatus
  <2>0. count < MaxNew \/ count >= MaxNew
    BY LimitAssumption DEF PollerInv, Inv, RunType
  <2>1. phase' = phase
    BY <1>6, <2>0 DEF ReadStatus, Goto, Skip
  <2>2. CASE phase = "discover"
    <3>1. place' \in {"next", "notes", "age", "put"}
      BY <1>6, <2>0, <2>2 DEF ReadStatus, Goto, Skip
    <3>2. QED
      BY <1>3, <2>1, <2>2 DEF FreshInv, RowSeen, VerdictSeen
  <2>3. CASE phase # "discover"
    <3>1. place' = "next" \/ (place' = "verdict" /\ cur' = cur /\ ~Waiting(cur))
      BY <1>6, <2>3 DEF ReadStatus, Goto, Skip
    <3>2. QED
      BY <1>2, <1>3, <3>1 DEF FreshInv, RowSeen, VerdictSeen, Waiting
  <2>4. QED
    BY <2>2, <2>3
<1>7. CASE ReadAge
  <2>1. phase = "discover" /\ phase' = phase /\ place' = "put"
    BY <1>7 DEF ReadAge, Goto, FreshInv
  <2>2. QED
    BY <1>3, <2>1 DEF FreshInv, RowSeen, VerdictSeen
<1>8. CASE ReadVerdict
  <2>1. \/ verdict[cur].processed /\ Recent(verdict[cur].at) /\ Skip
        \/ /\ ~(verdict[cur].processed /\ Recent(verdict[cur].at))
           /\ \E p \in {"put", "notes"} : Goto(p)
           /\ UNCHANGED cur
    BY <1>1, <1>8 DEF ReadVerdict, Succeeds
  <2>2. CASE Skip
    BY <1>3, <2>2 DEF Skip, FreshInv, RowSeen, VerdictSeen
  <2>3. CASE /\ ~(verdict[cur].processed /\ Recent(verdict[cur].at))
             /\ \E p \in {"put", "notes"} : Goto(p)
             /\ UNCHANGED cur
    <3>1. ~Stands(cur)
      BY <2>3 DEF Stands, Young, Recent, AgeOf
    <3>2. phase' = phase /\ place' \in {"put", "notes"} /\ cur' = cur /\ place = "verdict"
      BY <1>8, <2>3 DEF Goto, ReadVerdict
    <3>3. QED
      BY <1>2, <1>3, <3>1, <3>2 DEF FreshInv, RowSeen, VerdictSeen, Waiting, Stands
  <2>4. QED
    BY <2>1, <2>2, <2>3
<1>9. CASE ReadNotes
  <2>1. Skip \/ (Goto("put") /\ UNCHANGED cur)
    BY <1>9 DEF ReadNotes
  <2>2. CASE Skip
    BY <1>3, <2>2 DEF Skip, FreshInv, RowSeen, VerdictSeen
  <2>3. CASE Goto("put") /\ UNCHANGED cur
    <3>1. phase' = phase /\ place' = "put" /\ cur' = cur /\ place = "notes"
      BY <1>9, <2>3 DEF Goto, ReadNotes
    <3>2. QED
      BY <1>2, <1>3, <3>1 DEF FreshInv, RowSeen, VerdictSeen, Waiting, Stands
  <2>4. QED
    BY <2>1, <2>2, <2>3
<1>10. QED
  BY <1>4, <1>5, <1>6, <1>7, <1>8, <1>9

\* The enqueue: what it forces, the re-triage has in its hands.
LEMMA PutFresh ==
    ASSUME PollerInv, FreshInv, Put
    PROVE  FreshInv'
<1>1. /\ cur \in Offense /\ batch[cur] \in Magnitude
      /\ force \in BOOLEAN /\ queue \in Table /\ "auto" \in Source /\ (phase = "retriage") \in BOOLEAN
  BY BatchMagnitude DEF Put, PollerInv, Inv, QueueType, RunType, Source
<1>2. queue' = Enqueue(queue, cur, batch[cur], "auto", phase = "retriage", force, Horizon)
      /\ verdict' = verdict /\ place = "put" /\ place' = "next"
  BY DEF Put, outside
<1>3. ASSUME NEW o \in Offense, Forced(o)'
      PROVE  ~Stands(o)'
  <2>1. ASSUME phase = "retriage"
        PROVE  Forced(o) \/ (o = cur /\ phase = "retriage")
    <3>1. \/ queue'[o] = queue[o]
          \/ /\ queue[o] # NoRow /\ queue[o].status = "QUEUED"
             /\ queue'[o].source = queue[o].source /\ (queue'[o].force => queue[o].force)
          \/ o = cur
      BY <1>1, <1>2, RequestForce
    <3>2. QED
      BY <1>3, <2>1, <3>1 DEF Forced, Waiting
  <2>2. ASSUME phase # "retriage"
        PROVE  Forced(o)
    <3> DEFINE outcome == EnqueueOutcome(queue, cur, batch[cur], force)
    <3>1. CASE outcome \in {"inserted", "requeued"}
      <4>1. queue' = [queue EXCEPT ![cur] = NewRow(batch[cur], "auto", phase = "retriage", Horizon)]
        BY <1>2, <3>1 DEF Enqueue
      <4>2. ~NewRow(batch[cur], "auto", phase = "retriage", Horizon).force
        BY <2>2 DEF NewRow
      <4>3. QED
        BY <1>1, <1>3, <4>1, <4>2 DEF Forced, Waiting, Table
    <3>2. CASE outcome = "refreshed"
      <4>1. queue[cur] # NoRow /\ queue[cur].status = "QUEUED" /\ queue[cur] \in Row
        BY <1>1, <3>2 DEF EnqueueOutcome, Table
      <4>2. queue' = [queue EXCEPT ![cur] = [queue[cur] EXCEPT !.magnitude = batch[cur]]]
        BY <1>2, <3>2 DEF Enqueue
      <4>3. QED
        BY <1>1, <1>3, <4>1, <4>2 DEF Forced, Waiting, Table, Row
    <3>3. CASE outcome \notin {"inserted", "requeued", "refreshed"}
      BY <1>2, <1>3, <3>3 DEF Enqueue, Forced, Waiting
    <3>4. QED
      BY <3>1, <3>2, <3>3
  <2>3. ~Stands(o)
    BY <1>2, <2>1, <2>2 DEF FreshInv, VerdictSeen
  <2>4. QED
    BY <1>2, <2>3 DEF Stands
<1>4. QED
  BY <1>2, <1>3 DEF FreshInv, RowSeen, VerdictSeen

LEMMA UnfailedInit == Init => Unfailed
<1> SUFFICES ASSUME Init PROVE FreshInv
  BY PollerInvInit DEF Unfailed
<1>1. \A o \in Offense : ~Waiting(o)
  BY DEF Init, Waiting
<1>2. QED
  BY <1>1 DEF Init, FreshInv, Forced, RowSeen, VerdictSeen

LEMMA UnfailedStep == Unfailed /\ [Next]_vars => Unfailed'
<1> SUFFICES ASSUME Unfailed, [Next]_vars, faults' = 0 PROVE FreshInv'
  BY PollerInvStep DEF Unfailed
<1>1. PollerInv /\ PollerInv' /\ FreshInv /\ UNCHANGED faults
  BY FaultsStay, PollerInvStep DEF Unfailed
<1>2. CASE UNCHANGED vars
  BY <1>1, <1>2
  DEF vars, outside, poller, FreshInv, Forced, RowSeen, VerdictSeen, Waiting, Stands
<1>3. CASE PollerStep
  BY <1>1, <1>3, ReadFresh, PutFresh DEF PollerStep
<1>4. CASE Abort \/ Wipe
  BY <1>1, <1>4 DEF Abort, Wipe, Fault, PollerInv, Inv, RunType
<1>5. CASE Others
  BY <1>1, <1>5, OthersFresh
<1>6. QED
  BY <1>2, <1>3, <1>4, <1>5 DEF Next, Others

\* Until something fails, no analysis is spent on an offense whose automatic verdict is
\* younger than the interval, whatever happens between the poller's reads and its enqueue.
THEOREM FreshCorrect == Spec => []FreshVerdictStands
<1>1. Unfailed => FreshVerdictStands
  BY DEF Unfailed, FreshInv, FreshVerdictStands, Forced, Stands
<1>2. QED
  BY <1>1, UnfailedInit, UnfailedStep, PTL DEF Spec
=============================================================================
