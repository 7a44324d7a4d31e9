---------------------------- MODULE WorkerProofs ----------------------------
(***************************************************************************)
(* Proofs about the work queue and the worker, for every set of offenses,  *)
(* threads and submissions and every lease, timeout and limit that satisfy *)
(* the assumptions of Worker.                                              *)
(***************************************************************************)
EXTENDS Worker, FiniteSetTheorems, TLAPS

Table == [Offense -> Row \cup {NoRow}]

-----------------------------------------------------------------------------
(***************************************************************************)
(* The operations of queue_db.py keep the table well formed.               *)
(***************************************************************************)

\* A row just enqueued is a row.
LEMMA NewRowType ==
    ASSUME NEW m \in Magnitude, NEW src \in Source, NEW force \in BOOLEAN,
           NEW at \in Nat
    PROVE  NewRow(m, src, force, at) \in Row
BY DEF NewRow, Row, Status, NULL

\* Claiming a row yields a row.
LEMMA ClaimRowType ==
    ASSUME NEW r \in Row, NEW until \in Nat
    PROVE  ClaimRow(r, until) \in Row
<1>1. r.attempts + 1 \in Nat
  BY DEF Row
<1>2. \A n \in Nat :
        [r EXCEPT !.status = "IN_PROGRESS", !.lease_until = until, !.attempts = n] \in Row
  BY DEF Row, Status, NULL
<1>3. QED
  BY <1>1, <1>2 DEF ClaimRow

\* enqueue keeps the table a table.
LEMMA EnqueueType ==
    ASSUME NEW q \in Table, NEW o \in Offense, NEW m \in Magnitude,
           NEW src \in Source, NEW force \in BOOLEAN, NEW forced \in BOOLEAN,
           NEW at \in Nat
    PROVE  Enqueue(q, o, m, src, force, forced, at) \in Table
<1> DEFINE outcome == EnqueueOutcome(q, o, m, forced)
<1>1. CASE outcome \in {"inserted", "requeued"}
  BY <1>1, NewRowType DEF Enqueue, Table
<1>2. CASE outcome = "refreshed"
  <2>1. q[o] # NoRow
    BY <1>2 DEF EnqueueOutcome
  <2>2. [q[o] EXCEPT !.magnitude = m] \in Row
    BY <2>1 DEF Table, Row
  <2>3. QED
    BY <1>2, <2>2 DEF Enqueue, Table
<1>3. CASE outcome \notin {"inserted", "requeued", "refreshed"}
  BY <1>3 DEF Enqueue
<1>4. QED
  BY <1>1, <1>2, <1>3

\* mark keeps the table a table.
LEMMA MarkType ==
    ASSUME NEW q \in Table, NEW o \in Offense, NEW s \in Status
    PROVE  Mark(q, o, s) \in Table
<1>1. CASE q[o] = NoRow
  BY <1>1 DEF Mark
<1>2. CASE q[o] # NoRow
  <2>1. [q[o] EXCEPT !.status = s, !.lease_until = NULL] \in Row
    BY <1>2 DEF Table, Row, NULL
  <2>2. QED
    BY <1>2, <2>1 DEF Mark, Table
<1>3. QED
  BY <1>1, <1>2

\* process_claim settles at most the row it was given.
LEMMA SettledType ==
    ASSUME NEW q \in Table, NEW o \in Offense, NEW outcome
    PROVE  Settled(q, o, outcome) \in Table
BY MarkType DEF Settled, Status

LEMMA SettledFrame ==
    ASSUME NEW q \in Table, NEW o \in Offense, NEW outcome, NEW p \in Offense, p # o
    PROVE  Settled(q, o, outcome)[p] = q[p]
BY DEF Settled, Mark, Table

\* sweep keeps the table a table and leaves IN_PROGRESS rows alone.
LEMMA SweepType ==
    ASSUME NEW q \in Table, NEW low, NEW ttl, NEW keep, NEW at
    PROVE  Sweep(q, low, ttl, keep, at) \in Table
BY DEF Sweep, Table

LEMMA SweepSparesHeld ==
    ASSUME NEW q \in Table, NEW low, NEW ttl, NEW keep, NEW at,
           NEW o \in Offense, q[o] # NoRow, q[o].status = "IN_PROGRESS"
    PROVE  Sweep(q, low, ttl, keep, at)[o] = q[o]
BY DEF Sweep, Swept

\* enqueue never touches a row in progress.
LEMMA EnqueueSparesHeld ==
    ASSUME NEW q \in Table, NEW o \in Offense, NEW m, NEW src, NEW force,
           NEW forced, NEW at,
           NEW p \in Offense, q[p] # NoRow, q[p].status = "IN_PROGRESS"
    PROVE  Enqueue(q, o, m, src, force, forced, at)[p] = q[p]
<1>1. CASE p # o
  BY <1>1 DEF Enqueue, Table
<1>2. CASE p = o
  BY <1>2 DEF Enqueue, EnqueueOutcome
<1>3. QED
  BY <1>1, <1>2

-----------------------------------------------------------------------------
(***************************************************************************)
(* Type correctness.  TypeOK alone is not inductive: a thread that settles *)
(* an offense needs a claim to name it.                                    *)
(***************************************************************************)
TypeInv ==
    /\ TypeOK
    /\ \A t \in Thread : InFlight(t) => claim[t] \in Claim

Places == {"top", "wait", "tx", "call", "mark", "tally", "done"}

\* A thread that moves keeps pc and since well typed.
LEMMA GotoType ==
    ASSUME TypeOK, NEW t \in Thread, NEW place \in Places, Goto(t, place)
    PROVE  /\ pc' \in [Thread -> Places]
           /\ since' \in [Thread -> Nat]
           /\ pc'[t] = place
           /\ \A u \in Thread : u # t => pc'[u] = pc[u] /\ since'[u] = since[u]
           /\ place \in Timed => since'[t] = now
BY DEF Goto, TypeOK, Places

\* process_claim reports one of the outcomes it documents.
LEMMA OutcomeType ==
    ASSUME NEW response, NEW attempts
    PROVE  OutcomeOf(response, attempts) \in Outcome
BY DEF OutcomeOf, Outcome, NoResponse

LEMMA TypeInvInit == Init => TypeInv
<1> SUFFICES ASSUME Init PROVE TypeInv
  OBVIOUS
<1>1. queue \in [Offense -> Row \cup {NoRow}]
  BY DEF Init
<1>2. \A t \in Thread : ~InFlight(t)
  BY DEF Init, Idle, InFlight
<1>3. QED
  BY <1>1, <1>2 DEF Init, TypeInv, TypeOK, Idle

\* Steps of producers, chat sessions and the clock.
LEMMA TypeInvOutside ==
    ASSUME TypeInv,
           \/ \E s \in Submission, at \in 0..now : Submit(s, at)
           \/ \E seconds \in HoldSeconds : SetHold(seconds)
           \/ Tick
    PROVE  TypeInv'
<1>1. ASSUME NEW s \in Submission, NEW at \in 0..now, Submit(s, at)
      PROVE  TypeInv'
  <2>1. /\ s.offense \in Offense /\ s.magnitude \in Magnitude /\ s.source \in Source
        /\ s.force \in BOOLEAN /\ s.forced \in BOOLEAN
    BY SubmissionAssumption DEF SubmissionType
  <2>2. at \in Nat
    BY DEF TypeInv, TypeOK
  <2>3. queue' \in Table
    BY <1>1, <2>1, <2>2, EnqueueType DEF Submit, TypeInv, TypeOK, Table
  <2>4. QED
    BY <1>1, <2>3
    DEF Submit, TypeInv, TypeOK, Table, runVars, threadVars, InFlight
<1>2. ASSUME NEW seconds \in HoldSeconds, SetHold(seconds)
      PROVE  TypeInv'
  BY <1>2, ParameterAssumption
  DEF SetHold, TypeInv, TypeOK, runVars, threadVars, InFlight
<1>3. CASE Tick
  BY <1>3 DEF Tick, TypeInv, TypeOK, runVars, threadVars, InFlight
<1>4. QED
  BY <1>1, <1>2, <1>3

\* A worker process starts, ends or is killed.
LEMMA TypeInvRun ==
    ASSUME TypeInv, StartRun \/ EndRun \/ Crash
    PROVE  TypeInv'
<1>1. CASE StartRun
  <2>1. queue' \in Table
    BY <1>1, SweepType DEF StartRun, TypeInv, TypeOK, Table
  <2>2. QED
    BY <1>1, <2>1 DEF StartRun, FreshRun, TypeInv, TypeOK, Table, Idle, InFlight
<1>2. CASE EndRun
  BY <1>2 DEF EndRun, FreshRun, TypeInv, TypeOK, threadVars, InFlight
<1>3. CASE Crash
  BY <1>3 DEF Crash, FreshRun, TypeInv, TypeOK, Idle, InFlight, NoAnswer
<1>4. QED
  BY <1>1, <1>2, <1>3

\* One step of a thread of the pool.
LEMMA TypeInvThread ==
    ASSUME TypeInv, NEW t \in Thread, ThreadStep(t)
    PROVE  TypeInv'
<1> USE DEF Places
<1>1. CASE Begin(t)
  BY <1>1, GotoType DEF Begin, TypeInv, TypeOK, runVars, InFlight
<1>2. CASE PassHold(t)
  BY <1>2, GotoType DEF PassHold, TypeInv, TypeOK, runVars, InFlight
<1>3. CASE ClaimNext(t)
  <2>1. PICK o \in Offense :
          /\ IsNextClaim(queue, since[t], o)
          /\ queue' = [queue EXCEPT ![o] = ClaimRow(@, since[t] + Lease)]
          /\ claim' = [claim EXCEPT ![t] =
               [offense |-> o, attempts |-> queue[o].attempts + 1,
                is_manual |-> IsManual(queue[o]), force |-> queue[o].force]]
    BY <1>3 DEF ClaimNext
  <2>2. queue[o] \in Row
    BY <2>1 DEF IsNextClaim, Claimable, Rows, TypeInv, TypeOK
  <2>3. queue' \in Table
    <3>1. since[t] + Lease \in Nat
      BY ParameterAssumption DEF TypeInv, TypeOK
    <3>2. QED
      BY <2>1, <2>2, <3>1, ClaimRowType DEF TypeInv, TypeOK, Table
  <2>4. claim'[t] \in Claim
    <3>1. queue[o].attempts + 1 \in Nat /\ queue[o].force \in BOOLEAN
      BY <2>2 DEF Row
    <3>2. IsManual(queue[o]) \in BOOLEAN
      BY DEF IsManual
    <3>3. QED
      BY <2>1, <3>1, <3>2 DEF Claim, TypeInv, TypeOK
  <2>5. claim' \in [Thread -> Claim \cup {NoClaim}]
    BY <2>1, <2>4 DEF TypeInv, TypeOK
  <2>6. taken' \in Nat
    BY <1>3 DEF ClaimNext, Count, TypeInv, TypeOK
  <2>7. QED
    BY <1>3, <2>1, <2>3, <2>4, <2>5, <2>6, GotoType
    DEF ClaimNext, TypeInv, TypeOK, Table, InFlight
<1>4. CASE ClaimNothing(t)
  BY <1>4, GotoType DEF ClaimNothing, TypeInv, TypeOK, runVars, InFlight
<1>5. ASSUME NEW response \in Response, Respond(t, response)
      PROVE  TypeInv'
  BY <1>5, GotoType DEF Respond, TypeInv, TypeOK, runVars, InFlight
<1>6. ASSUME NEW exception \in NoResponse, Fail(t, exception)
      PROVE  TypeInv'
  BY <1>6, GotoType DEF Fail, TypeInv, TypeOK, runVars, InFlight, Outcome
<1>7. CASE Settle(t)
  <2>1. claim[t].offense \in Offense
    BY <1>7 DEF Settle, TypeInv, InFlight, Claim
  <2>2. queue' \in Table
    BY <1>7, <2>1, SettledType DEF Settle, TypeInv, TypeOK, Table
  <2>3. answer' \in [Thread -> Response \cup Outcome \cup {NoAnswer}]
    BY <1>7, OutcomeType DEF Settle, TypeInv, TypeOK
  <2>4. QED
    BY <1>7, <2>2, <2>3, GotoType
    DEF Settle, TypeInv, TypeOK, Table, runVars, InFlight
<1>8. CASE Tally(t)
  BY <1>8, GotoType DEF Tally, TypeInv, TypeOK, InFlight, NoAnswer
<1>9. CASE Die(t)
  BY <1>9, GotoType DEF Die, TypeInv, TypeOK, runVars, InFlight, NoAnswer
<1>10. QED
  BY <1>1, <1>2, <1>3, <1>4, <1>5, <1>6, <1>7, <1>8, <1>9 DEF ThreadStep

LEMMA TypeInvStep == TypeInv /\ [Next]_vars => TypeInv'
<1> SUFFICES ASSUME TypeInv, [Next]_vars PROVE TypeInv'
  OBVIOUS
<1>1. CASE UNCHANGED vars
  BY <1>1 DEF vars, runVars, threadVars, TypeInv, TypeOK, InFlight
<1>2. CASE Next
  BY <1>2, TypeInvOutside, TypeInvRun, TypeInvThread DEF Next
<1>3. QED
  BY <1>1, <1>2

\* Every state of the worker and its table is well typed.
THEOREM TypeCorrect == Spec => []TypeOK
<1>1. TypeInv => TypeOK
  BY DEF TypeInv
<1>2. QED
  BY <1>1, TypeInvInit, TypeInvStep, PTL DEF Spec

-----------------------------------------------------------------------------
(***************************************************************************)
(* Exclusive work.  mark() updates by offense id alone and claim_next      *)
(* hands out a row again once its lease is over, so everything hangs on    *)
(* time: the waits of a thread add up to less than the lease.  Clock says  *)
(* no wait outlasts its patience, Holds(t) how much of the lease the waits *)
(* of thread t have used so far.                                           *)
(***************************************************************************)
Clock ==
    \A t \in Thread : pc[t] \in Timed =>
        since[t] <= now /\ now <= since[t] + Patience(pc[t])

Spent(place) == IF place = "call" THEN ClaimWait ELSE ClaimWait + HttpTimeout

Holds(t) ==
    LET r == queue[claim[t].offense] IN
    /\ r # NoRow
    /\ r.status = "IN_PROGRESS"
    /\ r.attempts = claim[t].attempts
    /\ IsManual(r) = claim[t].is_manual
    /\ r.force = claim[t].force
    /\ r.lease_until \in Nat
    /\ since[t] + Lease <= r.lease_until + Spent(pc[t])

HoldInv ==
    /\ TypeInv
    /\ Clock
    /\ \A t \in Thread : InFlight(t) => Holds(t)
    /\ OneThreadPerOffense

\* The lease of a row in a thread's hands is not over.
LEMMA HoldInvLease == HoldInv => LeaseCoversWork
<1> SUFFICES ASSUME HoldInv, NEW t \in Thread, InFlight(t)
             PROVE  now < queue[claim[t].offense].lease_until
  BY DEF LeaseCoversWork
<1>1. Holds(t) /\ pc[t] \in Timed
  BY DEF HoldInv, InFlight, Timed
<1>2. now <= since[t] + Patience(pc[t])
  BY <1>1 DEF HoldInv, Clock
<1>3. now \in Nat /\ since[t] \in Nat /\ queue[claim[t].offense].lease_until \in Nat
  BY <1>1 DEF HoldInv, TypeInv, TypeOK, Holds
<1>4. since[t] + Lease <= queue[claim[t].offense].lease_until + Spent(pc[t])
  BY <1>1 DEF Holds
<1>5. \/ Patience(pc[t]) + Spent(pc[t]) = ClaimWait + HttpTimeout
      \/ Patience(pc[t]) + Spent(pc[t]) = ClaimWait + HttpTimeout + MarkWait
  BY ParameterAssumption DEF InFlight, Patience, Spent
<1>6. Patience(pc[t]) \in Nat /\ Spent(pc[t]) \in Nat
  BY ParameterAssumption DEF Patience, Spent
<1>7. QED
  BY <1>2, <1>3, <1>4, <1>5, <1>6, ParameterAssumption, LeaseAssumption

\* A row in a thread's hands is not up for grabs, not even for a thread that
\* read the clock a while ago.
LEMMA HeldNotClaimable ==
    ASSUME HoldInv, NEW t \in Thread, InFlight(t), NEW at \in Nat, at <= now
    PROVE  claim[t].offense \notin Claimable(queue, at)
<1>1. Holds(t)
  BY DEF HoldInv
<1>2. now < queue[claim[t].offense].lease_until
  BY HoldInvLease DEF LeaseCoversWork
<1>3. now \in Nat /\ queue[claim[t].offense].lease_until \in Nat
  BY <1>1 DEF HoldInv, TypeInv, TypeOK, Holds
<1>4. QED
  BY <1>1, <1>2, <1>3 DEF Claimable, Expired, Holds

\* A thread that did not move, and whose row did not change, still holds it.
LEMMA HoldsFrame ==
    ASSUME NEW t \in Thread, Holds(t),
           queue'[claim[t].offense] = queue[claim[t].offense],
           claim'[t] = claim[t], pc'[t] = pc[t], since'[t] = since[t]
    PROVE  Holds(t)'
BY DEF Holds

LEMMA HoldInvInit == Init => HoldInv
<1> SUFFICES ASSUME Init PROVE HoldInv
  OBVIOUS
<1>1. \A t \in Thread : ~InFlight(t) /\ pc[t] \notin Timed
  BY DEF Init, Idle, InFlight, Timed
<1>2. QED
  BY <1>1, TypeInvInit DEF HoldInv, Clock, OneThreadPerOffense

\* Producers never touch a row in progress, and the clock waits for no one
\* beyond its patience.
LEMMA HoldInvOutside ==
    ASSUME HoldInv,
           \/ \E s \in Submission, at \in 0..now : Submit(s, at)
           \/ \E seconds \in HoldSeconds : SetHold(seconds)
           \/ Tick
    PROVE  HoldInv'
<1>1. TypeInv'
  BY TypeInvOutside DEF HoldInv
<1>2. UNCHANGED threadVars
  BY DEF Submit, SetHold, Tick
<1>3. OneThreadPerOffense'
  BY <1>2 DEF HoldInv, OneThreadPerOffense, InFlight, threadVars
<1>4. \A t \in Thread : InFlight(t) =>
        queue'[claim[t].offense] = queue[claim[t].offense]
  <2> SUFFICES ASSUME NEW t \in Thread, InFlight(t)
               PROVE  queue'[claim[t].offense] = queue[claim[t].offense]
    OBVIOUS
  <2>1. ASSUME NEW s \in Submission, NEW at \in 0..now, Submit(s, at)
        PROVE  queue'[claim[t].offense] = queue[claim[t].offense]
    <3>1. claim[t].offense \in Offense /\ s.offense \in Offense
      BY SubmissionAssumption DEF HoldInv, TypeInv, Claim, SubmissionType
    <3>2. Holds(t) /\ queue \in Table
      BY DEF HoldInv, TypeInv, TypeOK, Table
    <3>3. QED
      BY <2>1, <3>1, <3>2, EnqueueSparesHeld DEF Submit, Holds
  <2>2. QED
    BY <2>1 DEF SetHold, Tick
<1>5. \A t \in Thread : InFlight(t)' => Holds(t)'
  BY <1>2, <1>4, HoldsFrame DEF HoldInv, InFlight, threadVars
<1>6. Clock'
  <2>1. CASE now' = now
    BY <1>2, <2>1 DEF HoldInv, Clock, threadVars
  <2>2. CASE Tick
    <3> SUFFICES ASSUME NEW t \in Thread, pc[t] \in Timed
                 PROVE  since[t] <= now' /\ now' <= since[t] + Patience(pc[t])
      BY <1>2 DEF Clock, threadVars
    <3>1. now < since[t] + Patience(pc[t]) /\ since[t] <= now /\ now' = now + 1
      BY <2>2 DEF Tick, HoldInv, Clock
    <3>2. now \in Nat /\ since[t] \in Nat /\ Patience(pc[t]) \in Nat
      BY ParameterAssumption DEF HoldInv, TypeInv, TypeOK, Patience
    <3>3. QED
      BY <3>1, <3>2
  <2>3. QED
    BY <2>1, <2>2 DEF Submit, SetHold
<1>7. QED
  BY <1>1, <1>3, <1>5, <1>6 DEF HoldInv

\* A run starts, ends or dies with no thread in the middle of anything.
LEMMA HoldInvRun ==
    ASSUME HoldInv, StartRun \/ EndRun \/ Crash
    PROVE  HoldInv'
<1>1. TypeInv'
  BY TypeInvRun DEF HoldInv
<1>2. \A t \in Thread : ~InFlight(t)' /\ pc'[t] \notin Timed
  BY DEF StartRun, EndRun, Crash, Idle, InFlight, Timed, threadVars
<1>3. QED
  BY <1>1, <1>2 DEF HoldInv, Clock, OneThreadPerOffense

\* A thread moves alone.
LEMMA OthersStay ==
    ASSUME TypeOK, NEW t \in Thread, ThreadStep(t), NEW u \in Thread, u # t
    PROVE  pc'[u] = pc[u] /\ since'[u] = since[u] /\ claim'[u] = claim[u]
<1>1. \E place : Goto(t, place)
  BY DEF ThreadStep, Begin, PassHold, ClaimNext, ClaimNothing, Respond, Fail,
         Settle, Tally, Die
<1>2. pc'[u] = pc[u] /\ since'[u] = since[u]
  BY <1>1 DEF Goto, TypeOK
<1>3. \/ claim' = claim
      \/ \E c : claim' = [claim EXCEPT ![t] = c]
  BY DEF ThreadStep, Begin, PassHold, ClaimNext, ClaimNothing, Respond, Fail,
         Settle, Tally, Die
<1>4. QED
  BY <1>2, <1>3 DEF TypeOK

\* Every wait starts now and no wait is shorter than nothing.
LEMMA ClockThread ==
    ASSUME HoldInv, NEW t \in Thread, ThreadStep(t)
    PROVE  Clock'
<1> SUFFICES ASSUME NEW u \in Thread, pc'[u] \in Timed
             PROVE  since'[u] <= now' /\ now' <= since'[u] + Patience(pc'[u])
  BY DEF Clock, Patience
<1>1. now' = now
  BY DEF ThreadStep, Begin, PassHold, ClaimNext, ClaimNothing, Respond, Fail,
         Settle, Tally, Die
<1>2. CASE u # t
  BY <1>1, <1>2, OthersStay DEF HoldInv, TypeInv, Clock
<1>3. CASE u = t
  <2>1. \E place \in Places : Goto(t, place)
    BY DEF Places, ThreadStep, Begin, PassHold, ClaimNext, ClaimNothing, Respond, Fail,
           Settle, Tally, Die
  <2>2. since'[t] = now
    BY <1>3, <2>1, GotoType DEF HoldInv, TypeInv
  <2>3. now \in Nat /\ Patience(pc'[t]) \in Nat
    BY ParameterAssumption DEF HoldInv, TypeInv, TypeOK, Patience
  <2>4. QED
    BY <1>1, <1>3, <2>2, <2>3
<1>4. QED
  BY <1>2, <1>3

\* What another thread holds stays as it is: claim_next takes no held row and
\* the UPDATE of mark() is for this thread's own offense.
LEMMA OthersHold ==
    ASSUME HoldInv, NEW t \in Thread, ThreadStep(t),
           NEW u \in Thread, u # t, InFlight(u)
    PROVE  queue'[claim[u].offense] = queue[claim[u].offense]
<1>1. TypeOK /\ Holds(u) /\ claim[u].offense \in Offense
  BY DEF HoldInv, TypeInv, Claim
<1>2. CASE ClaimNext(t)
  <2>1. PICK o \in Offense :
          /\ IsNextClaim(queue, since[t], o)
          /\ queue' = [queue EXCEPT ![o] = ClaimRow(@, since[t] + Lease)]
    BY <1>2 DEF ClaimNext
  <2>2. since[t] \in Nat /\ since[t] <= now
    BY <1>1, <1>2 DEF HoldInv, Clock, TypeOK, ClaimNext, Timed
  <2>3. o # claim[u].offense
    BY <2>1, <2>2, HeldNotClaimable DEF IsNextClaim
  <2>4. QED
    BY <1>1, <2>1, <2>3 DEF TypeOK
<1>3. CASE Settle(t)
  <2>1. InFlight(t)
    BY <1>3 DEF Settle, InFlight
  <2>2. claim[t].offense # claim[u].offense
    BY <2>1 DEF HoldInv, OneThreadPerOffense
  <2>3. claim[t].offense \in Offense
    BY <2>1 DEF HoldInv, TypeInv, Claim
  <2>4. QED
    BY <1>1, <1>3, <2>2, <2>3, SettledFrame DEF Settle, TypeOK, Table
<1>4. CASE ~ClaimNext(t) /\ ~Settle(t)
  BY <1>4 DEF ThreadStep, Begin, PassHold, ClaimNothing, Respond, Fail, Tally, Die
<1>5. QED
  BY <1>2, <1>3, <1>4

\* A thread gets hold of a row by claiming it, and keeps it until the settling
\* UPDATE; both waits so far are charged to the lease.
LEMMA OwnHold ==
    ASSUME HoldInv, NEW t \in Thread, ThreadStep(t), InFlight(t)'
    PROVE  Holds(t)'
<1>1. CASE ClaimNext(t)
  <2>1. PICK o \in Offense :
          /\ IsNextClaim(queue, since[t], o)
          /\ queue' = [queue EXCEPT ![o] = ClaimRow(@, since[t] + Lease)]
          /\ claim' = [claim EXCEPT ![t] =
               [offense |-> o, attempts |-> queue[o].attempts + 1,
                is_manual |-> IsManual(queue[o]), force |-> queue[o].force]]
    BY <1>1 DEF ClaimNext
  <2>2. queue[o] \in Row /\ queue[o] # NoRow
    BY <2>1 DEF IsNextClaim, Claimable, Rows, HoldInv, TypeInv, TypeOK
  <2>3. claim'[t] = [offense |-> o, attempts |-> queue[o].attempts + 1,
                     is_manual |-> IsManual(queue[o]), force |-> queue[o].force]
    BY <2>1 DEF HoldInv, TypeInv, TypeOK
  <2>4. /\ pc'[t] = "call"
        /\ since'[t] = now
        /\ since[t] <= now /\ now <= since[t] + ClaimWait
        /\ now \in Nat /\ since[t] \in Nat
    BY <1>1, GotoType
    DEF ClaimNext, HoldInv, TypeInv, TypeOK, Clock, Timed, Patience, Places
  <2>5. queue'[o] = ClaimRow(queue[o], since[t] + Lease)
    BY <2>1 DEF HoldInv, TypeInv, TypeOK
  <2>6. since[t] + Lease \in Nat
    BY <2>4, ParameterAssumption
  <2>7. queue'[o] \in Row
    BY <2>2, <2>5, <2>6, ClaimRowType
  <2>8. /\ queue'[o].status = "IN_PROGRESS"
        /\ queue'[o].attempts = queue[o].attempts + 1
        /\ queue'[o].source = queue[o].source
        /\ queue'[o].force = queue[o].force
        /\ queue'[o].lease_until = since[t] + Lease
    BY <2>2, <2>5 DEF ClaimRow, Row
  <2>9. since'[t] + Lease <= queue'[o].lease_until + Spent(pc'[t])
    BY <2>4, <2>8, ParameterAssumption DEF Spent
  <2>10. claim'[t].offense = o /\ claim'[t].attempts = queue'[o].attempts
         /\ claim'[t].is_manual = IsManual(queue'[o]) /\ claim'[t].force = queue'[o].force
    BY <2>3, <2>8 DEF IsManual
  <2>11. queue'[o] # NoRow
    BY <2>7, NoRowAssumption
  <2>12. QED
    BY <2>6, <2>8, <2>9, <2>10, <2>11 DEF Holds
<1>2. ASSUME NEW response \in Response, Respond(t, response)
      PROVE  Holds(t)'
  <2>1. pc[t] = "call" /\ pc'[t] = "mark" /\ since'[t] = now
    BY <1>2, GotoType DEF Respond, HoldInv, TypeInv, Timed, Places
  <2>2. Holds(t) /\ queue' = queue /\ claim' = claim
    BY <1>2, <2>1 DEF Respond, HoldInv, InFlight
  <2>3. now <= since[t] + HttpTimeout
    BY <2>1 DEF HoldInv, Clock, Timed, Patience
  <2>4. now \in Nat /\ since[t] \in Nat /\ queue[claim[t].offense].lease_until \in Nat
    BY <2>2 DEF HoldInv, TypeInv, TypeOK, Holds
  <2>5. since[t] + Lease <= queue[claim[t].offense].lease_until + ClaimWait
    BY <2>1, <2>2 DEF Holds, Spent
  <2>6. since'[t] + Lease <= queue'[claim'[t].offense].lease_until + Spent(pc'[t])
    BY <2>1, <2>2, <2>3, <2>4, <2>5, ParameterAssumption DEF Spent
  <2>7. QED
    BY <2>2, <2>6 DEF Holds
<1>3. CASE ~ClaimNext(t) /\ \A response \in Response : ~Respond(t, response)
  <2>1. \E place \in Places \ {"call", "mark"} : Goto(t, place)
    BY <1>3 DEF ThreadStep, Begin, PassHold, ClaimNothing, Fail, Settle, Tally, Die, Places
  <2>2. ~InFlight(t)'
    BY <2>1, GotoType DEF HoldInv, TypeInv, InFlight
  <2>3. QED
    BY <2>2
<1>4. QED
  BY <1>1, <1>2, <1>3

\* Two threads end up with one offense neither by a claim nor by a response.
LEMMA OneThreadStep ==
    ASSUME HoldInv, NEW t \in Thread, ThreadStep(t)
    PROVE  OneThreadPerOffense'
<1> SUFFICES ASSUME NEW u \in Thread, u # t, InFlight(t)', InFlight(u)'
             PROVE  claim'[t].offense # claim'[u].offense
  BY OthersStay DEF HoldInv, TypeInv, OneThreadPerOffense, InFlight
<1>1. InFlight(u) /\ claim'[u] = claim[u]
  BY OthersStay DEF HoldInv, TypeInv, InFlight
<1>2. CASE ClaimNext(t)
  <2>1. PICK o \in Offense : IsNextClaim(queue, since[t], o) /\ claim'[t].offense = o
    BY <1>2 DEF ClaimNext, HoldInv, TypeInv, TypeOK
  <2>2. since[t] \in Nat /\ since[t] <= now
    BY <1>2 DEF HoldInv, TypeInv, Clock, TypeOK, ClaimNext, Timed
  <2>3. QED
    BY <1>1, <2>1, <2>2, HeldNotClaimable DEF IsNextClaim
<1>3. ASSUME NEW response \in Response, Respond(t, response)
      PROVE  claim'[t].offense # claim'[u].offense
  <2>1. InFlight(t) /\ claim' = claim
    BY <1>3 DEF Respond, InFlight
  <2>2. QED
    BY <1>1, <2>1 DEF HoldInv, OneThreadPerOffense
<1>4. CASE ~ClaimNext(t) /\ \A response \in Response : ~Respond(t, response)
  <2>1. \E place \in Places \ {"call", "mark"} : Goto(t, place)
    BY <1>4 DEF ThreadStep, Begin, PassHold, ClaimNothing, Fail, Settle, Tally, Die, Places
  <2>2. QED
    BY <2>1, GotoType DEF HoldInv, TypeInv, InFlight
<1>5. QED
  BY <1>2, <1>3, <1>4

LEMMA HoldInvThread ==
    ASSUME HoldInv, NEW t \in Thread, ThreadStep(t)
    PROVE  HoldInv'
<1>1. TypeInv'
  BY TypeInvThread DEF HoldInv
<1>2. ASSUME NEW u \in Thread, InFlight(u)'
      PROVE  Holds(u)'
  <2>1. CASE u = t
    BY <1>2, <2>1, OwnHold
  <2>2. CASE u # t
    <3>1. pc'[u] = pc[u] /\ since'[u] = since[u] /\ claim'[u] = claim[u]
      BY <2>2, OthersStay DEF HoldInv, TypeInv
    <3>2. InFlight(u)
      BY <1>2, <3>1 DEF InFlight
    <3>3. queue'[claim[u].offense] = queue[claim[u].offense]
      BY <2>2, <3>2, OthersHold
    <3>4. QED
      BY <3>1, <3>2, <3>3, HoldsFrame DEF HoldInv
  <2>3. QED
    BY <2>1, <2>2
<1>3. QED
  BY <1>1, <1>2, ClockThread, OneThreadStep DEF HoldInv

LEMMA HoldInvStep == HoldInv /\ [Next]_vars => HoldInv'
<1> SUFFICES ASSUME HoldInv, [Next]_vars PROVE HoldInv'
  OBVIOUS
<1>1. CASE UNCHANGED vars
  BY <1>1, TypeInvStep
  DEF vars, threadVars, HoldInv, Clock, Holds, OneThreadPerOffense, InFlight
<1>2. CASE Next
  BY <1>2, HoldInvOutside, HoldInvRun, HoldInvThread DEF Next
<1>3. QED
  BY <1>1, <1>2

LEMMA HoldInvCorrect == Spec => []HoldInv
BY HoldInvInit, HoldInvStep, PTL DEF Spec

\* Whatever crashes, timeouts, expiries and re-submissions came before, no two
\* threads work on one offense.
THEOREM ExclusiveWork == Spec => []OneThreadPerOffense
<1>1. HoldInv => OneThreadPerOffense
  BY DEF HoldInv
<1>2. QED
  BY <1>1, HoldInvCorrect, PTL

\* The row a thread will settle is the very row it claimed.
THEOREM ClaimCorrect == Spec => []ClaimStaysCurrent
<1>1. HoldInv => ClaimStaysCurrent
  BY DEF HoldInv, Holds, ClaimStaysCurrent
<1>2. QED
  BY <1>1, HoldInvCorrect, PTL

\* No lease ends under a thread's hands.
THEOREM LeaseCorrect == Spec => []LeaseCoversWork
BY HoldInvLease, HoldInvCorrect, PTL

-----------------------------------------------------------------------------
(***************************************************************************)
(* The order of service.                                                   *)
(***************************************************************************)

\* ORDER_BY leaves no two rows tied.
LEMMA PrecedesTotal ==
    ASSUME NEW q \in Table, NEW o \in Rows(q), NEW p \in Rows(q), o # p
    PROVE  Precedes(q, o, p) <=> ~Precedes(q, p, o)
<1>1. q[o] \in Row /\ q[p] \in Row /\ o \in Nat /\ p \in Nat
  BY OffenseAssumption DEF Rows, Table
<1>2. /\ q[o].magnitude \in Nat /\ q[p].magnitude \in Nat
      /\ q[o].enqueued_at \in Nat /\ q[p].enqueued_at \in Nat
  BY <1>1, MagnitudeAssumption DEF Row
<1>3. IsManual(q[o]) \in BOOLEAN /\ IsManual(q[p]) \in BOOLEAN
  BY DEF IsManual
<1>4. QED
  BY <1>1, <1>2, <1>3 DEF Precedes

\* "LIMIT 1" picks one row, not one of several.
LEMMA NextClaimUnique ==
    ASSUME NEW q \in Table, NEW at,
           NEW o, NEW p, IsNextClaim(q, at, o), IsNextClaim(q, at, p)
    PROVE  o = p
<1> SUFFICES ASSUME o # p PROVE FALSE
  OBVIOUS
<1>1. o \in Rows(q) /\ p \in Rows(q)
  BY DEF IsNextClaim, Claimable
<1>2. Precedes(q, o, p) /\ Precedes(q, p, o)
  BY DEF IsNextClaim
<1>3. QED
  BY <1>1, <1>2, PrecedesTotal

\* The position an analyst is shown ranks the waiting rows as claims do.
THEOREM PositionCorrect == Spec => []PositionFollowsClaimOrder
<1>1. TypeOK => PositionFollowsClaimOrder
  <2> SUFFICES ASSUME TypeOK, NEW o \in WithStatus(queue, "QUEUED"),
                      NEW p \in WithStatus(queue, "QUEUED")
               PROVE  p \in AheadOf(queue, o) <=> Precedes(queue, p, o)
    BY DEF PositionFollowsClaimOrder, AheadOf
  <2>1. queue[o] \in Row /\ queue[p] \in Row /\ o \in Nat /\ p \in Nat
    BY OffenseAssumption DEF WithStatus, Rows, TypeOK
  <2>2. /\ queue[o].magnitude \in Nat /\ queue[p].magnitude \in Nat
        /\ queue[o].enqueued_at \in Nat /\ queue[p].enqueued_at \in Nat
    BY <2>1, MagnitudeAssumption DEF Row
  <2>3. /\ ManualRank(queue[p]) > ManualRank(queue[o])
             <=> IsManual(queue[p]) /\ ~IsManual(queue[o])
        /\ ManualRank(queue[p]) = ManualRank(queue[o])
             <=> (IsManual(queue[p]) <=> IsManual(queue[o]))
    BY DEF ManualRank, IsManual
  <2>4. (IsManual(queue[p]) = IsManual(queue[o]))
             <=> (IsManual(queue[p]) <=> IsManual(queue[o]))
    BY DEF IsManual
  <2>5. QED
    BY <2>1, <2>2, <2>3, <2>4 DEF AheadOf, Precedes
<1>2. QED
  BY <1>1, TypeCorrect, PTL

\* No claim passes over a louder waiting offense, nor over an analyst's request
\* of equal magnitude.
THEOREM LoudestFirstCorrect == Spec => LoudestFirst
<1> DEFINE Respected(o) ==
      \A p \in WithStatus(queue, "QUEUED") :
         /\ queue[p].magnitude <= queue[o].magnitude
         /\ queue[p].magnitude = queue[o].magnitude /\ IsManual(queue[p])
               => IsManual(queue[o])
<1>1. ASSUME TypeOK, [Next]_vars, NEW o \in Offense, Claims(o)
      PROVE  Respected(o)
  <2>1. PICK t \in Thread : pc[t] = "tx" /\ pc'[t] = "call" /\ claim'[t].offense = o
    BY <1>1 DEF Claims
  <2>2. ~UNCHANGED vars
    BY <2>1 DEF vars, threadVars
  <2>3. PICK u \in Thread : ThreadStep(u)
    BY <1>1, <2>1, <2>2
    DEF Next, Submit, SetHold, Tick, StartRun, EndRun, Crash, Idle, threadVars, TypeOK
  <2>4. u = t
    BY <1>1, <2>1, <2>3, OthersStay
  <2>5. ClaimNext(t)
    BY <1>1, <2>1, <2>3, <2>4
    DEF ThreadStep, Begin, PassHold, ClaimNothing, Respond, Fail, Settle, Tally, Die,
        Goto, TypeOK
  <2>6. IsNextClaim(queue, since[t], o)
    BY <1>1, <2>1, <2>5 DEF ClaimNext, TypeOK
  <2>7. ASSUME NEW p \in WithStatus(queue, "QUEUED"), p # o
        PROVE  Precedes(queue, o, p)
    BY <2>6, <2>7 DEF IsNextClaim, Claimable, WithStatus
  <2>8. ASSUME NEW p \in WithStatus(queue, "QUEUED")
        PROVE  queue[p].magnitude \in Nat /\ queue[o].magnitude \in Nat
    BY <1>1, <2>6, <2>8, MagnitudeAssumption
    DEF IsNextClaim, Claimable, WithStatus, Rows, TypeOK, Row
  <2>9. QED
    BY <2>7, <2>8 DEF Precedes
<1>2. TypeOK /\ [Next]_vars => [\A o \in Offense : Claims(o) => Respected(o)]_vars
  BY <1>1
<1>3. QED
  BY <1>2, TypeCorrect, PTL DEF Spec, LoudestFirst

-----------------------------------------------------------------------------
(***************************************************************************)
(* Overshoot.  The batch limit and the stop are tested at the top of the   *)
(* loop, `taken` is counted after the claim and the failures after the     *)
(* outcome.  A thread that is past the test may still add one: what is     *)
(* bounded is the counter plus the threads that are past the test.         *)
(***************************************************************************)
At(places) == {t \in Thread : pc[t] \in places}

Claiming == {"wait", "tx"}                                 \* may still take a row
Working == {"wait", "tx", "call", "mark", "tally"}         \* may still fail

Slack == Cardinality(Thread) - 1

OvershootInv ==
    /\ TypeInv
    /\ BatchPerRun > 0 => taken + Cardinality(At(Claiming)) <= BatchPerRun + Slack
    /\ MaxConnErrors > 0 =>
        /\ connErrors + Cardinality(At(Working)) <= MaxConnErrors + Slack
        /\ qradarDown + Cardinality(At(Working)) <= MaxConnErrors + Slack
        /\ connErrors >= MaxConnErrors \/ qradarDown >= MaxConnErrors => stop

\* How many threads are at some places is a number, at most all of them.
LEMMA AtType ==
    ASSUME NEW places
    PROVE  /\ IsFiniteSet(At(places))
           /\ Cardinality(At(places)) \in Nat
           /\ Cardinality(Thread) \in Nat
           /\ Cardinality(At(places)) <= Cardinality(Thread)
<1>1. At(places) \in SUBSET Thread
  BY DEF At
<1>2. IsFiniteSet(At(places)) /\ Cardinality(At(places)) <= Cardinality(Thread)
  BY <1>1, ThreadAssumption, FS_Subset
<1>3. QED
  BY <1>2, ThreadAssumption, FS_CardinalityType

LEMMA AtTypeNext ==
    ASSUME NEW places
    PROVE  /\ IsFiniteSet(At(places)')
           /\ Cardinality(At(places)') \in Nat
           /\ Cardinality(At(places)') <= Cardinality(Thread)
<1>1. At(places)' \in SUBSET Thread
  BY DEF At
<1>2. IsFiniteSet(At(places)') /\ Cardinality(At(places)') <= Cardinality(Thread)
  BY <1>1, ThreadAssumption, FS_Subset
<1>3. QED
  BY <1>2, ThreadAssumption, FS_CardinalityType

\* A thread that moves changes the count by itself alone.
LEMMA GotoCount ==
    ASSUME TypeOK, NEW t \in Thread, NEW place \in Places, Goto(t, place), NEW places
    PROVE  Cardinality(At(places)') =
             Cardinality(At(places))
               + (IF place \in places THEN 1 ELSE 0)
               - (IF pc[t] \in places THEN 1 ELSE 0)
<1>1. /\ pc'[t] = place
      /\ \A u \in Thread : u # t => pc'[u] = pc[u]
  BY GotoType
<1>2. IsFiniteSet(At(places)) /\ Cardinality(At(places)) \in Nat
  BY AtType
<1>3. CASE place \in places /\ pc[t] \in places
  <2>1. At(places)' = At(places)
    BY <1>1, <1>3 DEF At
  <2>2. QED
    BY <1>2, <1>3, <2>1
<1>4. CASE place \in places /\ pc[t] \notin places
  <2>1. At(places)' = At(places) \cup {t} /\ t \notin At(places)
    BY <1>1, <1>4 DEF At
  <2>2. Cardinality(At(places)') = Cardinality(At(places)) + 1
    BY <1>2, <2>1, FS_AddElement
  <2>3. QED
    BY <1>2, <1>4, <2>2
<1>5. CASE place \notin places /\ pc[t] \in places
  <2>1. At(places)' = At(places) \ {t} /\ t \in At(places)
    BY <1>1, <1>5 DEF At
  <2>2. Cardinality(At(places)') = Cardinality(At(places)) - 1
    BY <1>2, <2>1, FS_RemoveElement
  <2>3. QED
    BY <1>2, <1>5, <2>2
<1>6. CASE place \notin places /\ pc[t] \notin places
  <2>1. At(places)' = At(places)
    BY <1>1, <1>6 DEF At
  <2>2. QED
    BY <1>2, <1>6, <2>1
<1>7. QED
  BY <1>3, <1>4, <1>5, <1>6

\* A worker that starts or is gone has counted nothing, and no thread of it
\* is past the test.
LEMMA OvershootFresh ==
    ASSUME TypeInv', taken' = 0, connErrors' = 0, qradarDown' = 0,
           \A t \in Thread : pc'[t] \in {"top", "done"}
    PROVE  OvershootInv'
<1>1. At(Claiming)' = {} /\ At(Working)' = {}
  BY DEF At, Claiming, Working
<1>2. Cardinality(At(Claiming)') = 0 /\ Cardinality(At(Working)') = 0
  BY <1>1, FS_EmptySet
<1>3. Cardinality(Thread) \in Nat
  BY AtType
<1>4. QED
  BY <1>2, <1>3, ParameterAssumption DEF OvershootInv, Slack

LEMMA OvershootInit == Init => OvershootInv
<1> SUFFICES ASSUME Init PROVE OvershootInv
  OBVIOUS
<1>1. At(Claiming) = {} /\ At(Working) = {}
  BY DEF Init, Idle, At, Claiming, Working
<1>2. Cardinality(At(Claiming)) = 0 /\ Cardinality(At(Working)) = 0
  BY <1>1, FS_EmptySet
<1>3. Cardinality(Thread) \in Nat
  BY AtType
<1>4. QED
  BY <1>2, <1>3, TypeInvInit, ParameterAssumption DEF Init, OvershootInv, Slack

\* A step that moves no thread and counts nothing.
LEMMA OvershootFrame ==
    ASSUME OvershootInv, TypeInv',
           UNCHANGED <<pc, stop, taken, connErrors, qradarDown>>
    PROVE  OvershootInv'
<1>1. At(Claiming)' = At(Claiming) /\ At(Working)' = At(Working)
  BY DEF At
<1>2. QED
  BY <1>1 DEF OvershootInv, Slack

\* A step that takes a thread no nearer to counting, and counts nothing.
LEMMA OvershootRetreat ==
    ASSUME OvershootInv, TypeInv', NEW t \in Thread, NEW place \in Places, Goto(t, place),
           place \in Claiming => pc[t] \in Claiming,
           place \in Working => pc[t] \in Working,
           UNCHANGED <<stop, taken, connErrors, qradarDown>>
    PROVE  OvershootInv'
<1>1. TypeOK
  BY DEF OvershootInv, TypeInv
<1>2. /\ Cardinality(At(Claiming)') <= Cardinality(At(Claiming))
      /\ Cardinality(At(Working)') <= Cardinality(At(Working))
  BY <1>1, GotoCount, AtType, AtTypeNext
<1>3. /\ Cardinality(At(Claiming)) \in Nat /\ Cardinality(At(Working)) \in Nat
      /\ Cardinality(At(Claiming)') \in Nat /\ Cardinality(At(Working)') \in Nat
      /\ Cardinality(Thread) \in Nat
  BY AtType, AtTypeNext
<1>4. taken \in Nat /\ connErrors \in Nat /\ qradarDown \in Nat
  BY <1>1 DEF TypeOK
<1>5. QED
  BY <1>2, <1>3, <1>4, ParameterAssumption DEF OvershootInv, Slack

\* The test: a thread goes past it only below both limits, and then at most
\* all of them are past it.
LEMMA OvershootBegin ==
    ASSUME OvershootInv, TypeInv', NEW t \in Thread, Begin(t)
    PROVE  OvershootInv'
<1>1. CASE stop \/ BatchFull
  BY <1>1, OvershootRetreat DEF Begin, Places, Claiming, Working, runVars
<1>2. CASE ~(stop \/ BatchFull)
  <2>1. Cardinality(Thread) \in Nat
    BY AtType
  <2>2. /\ Cardinality(At(Claiming)') \in Nat
        /\ Cardinality(At(Claiming)') <= Cardinality(Thread)
        /\ Cardinality(At(Working)') \in Nat
        /\ Cardinality(At(Working)') <= Cardinality(Thread)
    BY AtTypeNext
  <2>3. UNCHANGED <<stop, taken, connErrors, qradarDown>>
    BY DEF Begin, runVars
  <2>4. taken \in Nat /\ connErrors \in Nat /\ qradarDown \in Nat
    BY DEF OvershootInv, TypeInv, TypeOK
  <2>5. BatchPerRun > 0 => taken < BatchPerRun
    BY <1>2, <2>4, ParameterAssumption DEF BatchFull
  <2>6. MaxConnErrors > 0 => connErrors < MaxConnErrors /\ qradarDown < MaxConnErrors
    BY <1>2, <2>4, ParameterAssumption DEF OvershootInv
  <2>7. QED
    BY <2>1, <2>2, <2>3, <2>4, <2>5, <2>6, ParameterAssumption DEF OvershootInv, Slack
<1>3. QED
  BY <1>1, <1>2

\* A claim is counted by a thread that leaves the places before it.
LEMMA OvershootClaim ==
    ASSUME OvershootInv, TypeInv', NEW t \in Thread, ClaimNext(t)
    PROVE  OvershootInv'
<1>1. TypeOK /\ pc[t] = "tx" /\ Goto(t, "call") /\ taken' = Count(taken)
      /\ UNCHANGED <<stop, connErrors, qradarDown>>
  BY DEF OvershootInv, TypeInv, ClaimNext
<1>2. Cardinality(At(Claiming)') = Cardinality(At(Claiming)) + 0 - 1
  BY <1>1, GotoCount DEF Claiming, Places
<1>3. Cardinality(At(Working)') = Cardinality(At(Working)) + 1 - 1
  BY <1>1, GotoCount DEF Working, Places
<1>4. Cardinality(At(Claiming)) \in Nat /\ Cardinality(At(Working)) \in Nat
      /\ Cardinality(Thread) \in Nat
  BY AtType
<1>5. taken \in Nat /\ connErrors \in Nat /\ qradarDown \in Nat
  BY <1>1 DEF TypeOK
<1>6. QED
  BY <1>1, <1>2, <1>3, <1>4, <1>5, ParameterAssumption DEF OvershootInv, Slack, Count

\* A failure is counted by a thread that goes back to the test, and the stop
\* is set as soon as a counter reaches the limit.
LEMMA OvershootTally ==
    ASSUME OvershootInv, TypeInv', NEW t \in Thread, Tally(t)
    PROVE  OvershootInv'
<1>1. TypeOK /\ pc[t] = "tally" /\ Goto(t, "top") /\ taken' = taken
  BY DEF OvershootInv, TypeInv, Tally
<1>2. Cardinality(At(Claiming)') = Cardinality(At(Claiming)) + 0 - 0
  BY <1>1, GotoCount DEF Claiming, Places
<1>3. Cardinality(At(Working)') = Cardinality(At(Working)) + 0 - 1
  BY <1>1, GotoCount DEF Working, Places
<1>4. Cardinality(At(Claiming)) \in Nat /\ Cardinality(At(Working)) \in Nat
      /\ Cardinality(Thread) \in Nat /\ Cardinality(At(Working)') \in Nat
  BY AtType, AtTypeNext
<1>5. taken \in Nat /\ connErrors \in Nat /\ qradarDown \in Nat
  BY <1>1 DEF TypeOK
<1>6. CASE answer[t] = "conn"
  <2>1. /\ connErrors' = connErrors + 1 /\ qradarDown' = qradarDown
        /\ stop \/ connErrors' >= MaxConnErrors => stop'
    BY <1>6 DEF Tally
  <2>2. QED
    BY <1>1, <1>2, <1>3, <1>4, <1>5, <2>1, ParameterAssumption DEF OvershootInv, Slack
<1>7. CASE answer[t] = "qradar_down"
  <2>1. /\ connErrors' = connErrors /\ qradarDown' = qradarDown + 1
        /\ stop \/ qradarDown' >= MaxConnErrors => stop'
    BY <1>7 DEF Tally
  <2>2. QED
    BY <1>1, <1>2, <1>3, <1>4, <1>5, <2>1, ParameterAssumption DEF OvershootInv, Slack
<1>8. CASE answer[t] \notin {"conn", "qradar_down"}
  <2>1. connErrors' = connErrors /\ qradarDown' = 0 /\ stop' = stop
    BY <1>8 DEF Tally, OvershootInv, TypeInv, TypeOK
  <2>2. QED
    BY <1>1, <1>2, <1>3, <1>4, <1>5, <2>1, ParameterAssumption DEF OvershootInv, Slack
<1>9. QED
  BY <1>6, <1>7, <1>8

LEMMA OvershootThread ==
    ASSUME OvershootInv, TypeInv', NEW t \in Thread, ThreadStep(t)
    PROVE  OvershootInv'
<1> USE DEF Places, Claiming, Working, runVars
<1>1. CASE PassHold(t)
  BY <1>1, OvershootRetreat DEF PassHold
<1>2. CASE ClaimNothing(t)
  BY <1>2, OvershootRetreat DEF ClaimNothing
<1>3. ASSUME NEW response \in Response, Respond(t, response) PROVE OvershootInv'
  BY <1>3, OvershootRetreat DEF Respond
<1>4. ASSUME NEW exception \in NoResponse, Fail(t, exception) PROVE OvershootInv'
  BY <1>4, OvershootRetreat DEF Fail
<1>5. CASE Settle(t)
  BY <1>5, OvershootRetreat DEF Settle
<1>6. CASE Die(t)
  BY <1>6, OvershootRetreat DEF Die
<1>7. QED
  BY <1>1, <1>2, <1>3, <1>4, <1>5, <1>6, OvershootBegin, OvershootClaim, OvershootTally
  DEF ThreadStep

LEMMA OvershootStep == OvershootInv /\ [Next]_vars => OvershootInv'
<1> SUFFICES ASSUME OvershootInv, [Next]_vars PROVE OvershootInv'
  OBVIOUS
<1>1. TypeInv'
  BY TypeInvStep DEF OvershootInv
<1>2. CASE UNCHANGED vars
  BY <1>1, <1>2, OvershootFrame DEF vars, runVars, threadVars
<1>3. ASSUME NEW s \in Submission, NEW at \in 0..now, Submit(s, at) PROVE OvershootInv'
  BY <1>1, <1>3, OvershootFrame DEF Submit, runVars, threadVars
<1>4. ASSUME NEW seconds \in HoldSeconds, SetHold(seconds) PROVE OvershootInv'
  BY <1>1, <1>4, OvershootFrame DEF SetHold, runVars, threadVars
<1>5. CASE Tick
  BY <1>1, <1>5, OvershootFrame DEF Tick, runVars, threadVars
<1>6. CASE StartRun
  BY <1>1, <1>6, OvershootFresh DEF StartRun, FreshRun, Idle
<1>7. CASE EndRun
  BY <1>1, <1>7, OvershootFresh DEF EndRun, FreshRun, threadVars
<1>8. CASE Crash
  BY <1>1, <1>8, OvershootFresh DEF Crash, FreshRun, Idle
<1>9. ASSUME NEW t \in Thread, ThreadStep(t) PROVE OvershootInv'
  BY <1>1, <1>9, OvershootThread
<1>10. QED
  BY <1>2, <1>3, <1>4, <1>5, <1>6, <1>7, <1>8, <1>9 DEF Next

\* The claims of a run stay within the batch limit, and its failures in a
\* row within MAX_CONN_ERRORS, but for one per thread besides the first,
\* whatever the interleaving of the pool's tests and counters.
THEOREM OvershootCorrect == Spec => []OvershootBounded
<1>1. OvershootInv => OvershootBounded
  <2> SUFFICES ASSUME OvershootInv PROVE OvershootBounded
    OBVIOUS
  <2>1. Cardinality(At(Claiming)) \in Nat /\ Cardinality(At(Working)) \in Nat
        /\ Cardinality(Thread) \in Nat
    BY AtType
  <2>2. taken \in Nat /\ connErrors \in Nat /\ qradarDown \in Nat
    BY DEF OvershootInv, TypeInv, TypeOK
  <2>3. QED
    BY <2>1, <2>2, ParameterAssumption DEF OvershootInv, OvershootBounded, Slack
<1>2. QED
  BY <1>1, OvershootInit, OvershootStep, PTL DEF Spec
=============================================================================
