------------------------- MODULE WorkerLeasedProofs -------------------------
(***************************************************************************)
(* The worker implements LeasedQueue, for all values of the constants.     *)
(***************************************************************************)
EXTENDS WorkerLeased, WorkerProofs

\* Between runs no thread is anywhere: the kernel drops worker.lock only when
\* the process, and with it every thread, is gone.
QuietBetweenRuns == ~running => \A t \in Thread : pc[t] = "done"

RefInv == HoldInv /\ QuietBetweenRuns

LEMMA RefInvCorrect == Spec => []RefInv
<1>1. Init => RefInv
  BY HoldInvInit DEF Init, Idle, RefInv, QuietBetweenRuns
<1>2. RefInv /\ [Next]_vars => RefInv'
  <2> SUFFICES ASSUME RefInv, [Next]_vars PROVE RefInv'
    OBVIOUS
  <2>1. HoldInv'
    BY HoldInvStep DEF RefInv
  <2>2. QuietBetweenRuns'
    <3>1. ASSUME NEW t \in Thread, ThreadStep(t)
          PROVE  running' = running /\ pc[t] # "done"
      BY <3>1 DEF ThreadStep, Begin, PassHold, ClaimNext, ClaimNothing, Respond,
                  Fail, Settle, Tally, Die, runVars
    <3>2. CASE \E t \in Thread : ThreadStep(t)
      BY <3>1, <3>2 DEF RefInv, QuietBetweenRuns
    <3>3. CASE ~\E t \in Thread : ThreadStep(t)
      BY <3>3 DEF RefInv, QuietBetweenRuns, Next, vars, runVars, threadVars, Submit,
                  SetHold, Tick, StartRun, EndRun, Crash, Idle
    <3>4. QED
      BY <3>2, <3>3
  <2>3. QED
    BY <2>1, <2>2 DEF RefInv
<1>3. QED
  BY <1>1, <1>2, PTL DEF Spec

-----------------------------------------------------------------------------
(***************************************************************************)
(* What the refinement mapping says.                                       *)
(***************************************************************************)
BarOK ==
    \A o \in Offense :
        /\ holderBar[o] \in Thread \cup {NoOne}
        /\ \A t \in Thread : holderBar[o] = t <=> InFlight(t) /\ claim[t].offense = o
        /\ (\E t \in Thread : InFlight(t) /\ claim[t].offense = o)
              => stateBar[o] = "taken"

\* The mapped holder of an offense is the one thread that works on it.
LEMMA BarCorrect == HoldInv => BarOK
<1> SUFFICES ASSUME HoldInv, NEW o \in Offense
             PROVE  /\ holderBar[o] \in Thread \cup {NoOne}
                    /\ \A t \in Thread :
                          holderBar[o] = t <=> InFlight(t) /\ claim[t].offense = o
                    /\ (\E t \in Thread : InFlight(t) /\ claim[t].offense = o)
                          => stateBar[o] = "taken"
  BY DEF BarOK
<1>1. CASE HoldersOf(o) = {}
  BY <1>1, NoOneAssumption DEF holderBar, HoldersOf
<1>2. ASSUME NEW t \in HoldersOf(o)
      PROVE  /\ HoldersOf(o) = {t}
             /\ stateBar[o] = "taken"
  <2>1. t \in Thread /\ InFlight(t) /\ claim[t].offense = o
    BY DEF HoldersOf
  <2>2. HoldersOf(o) = {t}
    BY <2>1 DEF HoldInv, OneThreadPerOffense, HoldersOf
  <2>3. queue[o] # NoRow /\ queue[o].status = "IN_PROGRESS"
    BY <2>1 DEF HoldInv, Holds
  <2>4. QED
    BY <2>2, <2>3 DEF stateBar
<1>3. CASE HoldersOf(o) # {}
  <2>1. PICK t : t \in HoldersOf(o)
    BY <1>3
  <2>2. HoldersOf(o) = {t} /\ stateBar[o] = "taken"
    BY <1>2, <2>1
  <2>3. holderBar[o] = t
    BY <2>2 DEF holderBar, HoldersOf
  <2>4. QED
    BY <2>1, <2>2, <2>3, NoOneAssumption DEF HoldersOf
<1>4. QED
  BY <1>1, <1>3

BarFunctions ==
    /\ holderBar = [o \in Offense |-> holderBar[o]]
    /\ stateBar = [o \in Offense |-> stateBar[o]]

LEMMA BarShape == BarFunctions
BY DEF BarFunctions, holderBar, stateBar

\* The mapped state of an offense depends on its row alone.
LEMMA StateFrame ==
    ASSUME NEW o \in Offense, queue'[o] = queue[o]
    PROVE  stateBar'[o] = stateBar[o]
BY DEF stateBar

LEMMA HolderFrame ==
    ASSUME pc' = pc, claim' = claim
    PROVE  holderBar' = holderBar
BY DEF holderBar, HoldersOf, InFlight

-----------------------------------------------------------------------------
(***************************************************************************)
(* Every step maps to a step of LeasedQueue or to a stutter.               *)
(***************************************************************************)
barVars == <<stateBar, holderBar>>

\* enqueue: a new or forced row waits, a waiting one at most grows louder.
LEMMA SubmitMaps ==
    ASSUME TypeOK, NEW s \in Submission, NEW at \in 0..now, Submit(s, at)
    PROVE  LQ!Submit(s.offense) \/ UNCHANGED barVars
<1> DEFINE o == s.offense
           outcome == EnqueueOutcome(queue, o, s.magnitude, s.forced)
<1>1. o \in Offense
  BY SubmissionAssumption DEF SubmissionType
<1>2. holderBar' = holderBar
  BY HolderFrame DEF Submit, threadVars
<1>3. CASE outcome \in {"inserted", "requeued"}
  <2>1. stateBar[o] \in {"absent", "finished"}
    BY <1>1, <1>3 DEF EnqueueOutcome, stateBar
  <2>2. queue' = [queue EXCEPT ![o] = NewRow(s.magnitude, s.source, s.force, at)]
    BY <1>3 DEF Submit, Enqueue
  <2>3. queue'[o] \in Row /\ queue'[o].status = "QUEUED"
    <3>1. /\ s.magnitude \in Magnitude /\ s.source \in Source /\ s.force \in BOOLEAN
          /\ at \in Nat
      BY SubmissionAssumption DEF SubmissionType, TypeOK
    <3>2. NewRow(s.magnitude, s.source, s.force, at) \in Row
      BY <3>1, NewRowType
    <3>3. QED
      BY <1>1, <2>2, <3>2 DEF TypeOK, NewRow
  <2>4. stateBar'[o] = "waiting"
    BY <1>1, <2>3, NoRowAssumption DEF stateBar
  <2>5. \A p \in Offense : p # o => stateBar'[p] = stateBar[p]
    BY <2>2, StateFrame DEF TypeOK
  <2>6. stateBar' = [stateBar EXCEPT ![o] = "waiting"]
    BY <1>1, <2>4, <2>5 DEF stateBar
  <2>7. QED
    BY <1>2, <2>1, <2>6 DEF LQ!Submit
<1>4. CASE outcome \notin {"inserted", "requeued"}
  <2>1. CASE outcome = "refreshed"
    <3>1. queue[o] # NoRow /\ queue[o].status = "QUEUED"
      BY <2>1 DEF EnqueueOutcome
    <3>2. queue' = [queue EXCEPT ![o] = [@ EXCEPT !.magnitude = s.magnitude]]
      BY <1>4, <2>1 DEF Submit, Enqueue
    <3>3. queue'[o] \in Row /\ queue'[o].status = "QUEUED"
      <4>1. queue[o] \in Row /\ s.magnitude \in Magnitude
        BY <1>1, <3>1, SubmissionAssumption DEF TypeOK, SubmissionType
      <4>2. QED
        BY <1>1, <3>1, <3>2, <4>1 DEF TypeOK, Row
    <3>4. stateBar'[o] = stateBar[o]
      BY <1>1, <3>1, <3>3, NoRowAssumption DEF stateBar
    <3>5. \A p \in Offense : p # o => stateBar'[p] = stateBar[p]
      BY <3>2, StateFrame DEF TypeOK
    <3>6. stateBar' = stateBar
      BY <3>4, <3>5 DEF stateBar
    <3>7. QED
      BY <1>2, <3>6 DEF barVars
  <2>2. CASE outcome # "refreshed"
    <3>1. queue' = queue
      BY <1>4, <2>2 DEF Submit, Enqueue
    <3>2. stateBar' = stateBar
      BY <3>1 DEF stateBar
    <3>3. QED
      BY <1>2, <3>2 DEF barVars
  <2>3. QED
    BY <2>1, <2>2
<1>5. QED
  BY <1>3, <1>4

\* A run starts by sweeping, and dies by abandoning everything.
LEMMA RunMaps ==
    ASSUME RefInv, StartRun \/ EndRun \/ Crash
    PROVE  \/ \E D \in SUBSET Offense : LQ!Drop(D)
           \/ \E H \in SUBSET Thread : LQ!Abandon(H)
           \/ UNCHANGED barVars
<1>0. TypeOK /\ BarOK
  BY BarCorrect DEF RefInv, HoldInv, TypeInv
<1>1. CASE StartRun
  <2> DEFINE D == Swept(queue, LowMagMax, Ttl, Retention, now)
  <2>1. D \in SUBSET Offense
    BY DEF Swept, Rows
  <2>2. \A t \in Thread : ~InFlight(t) /\ ~InFlight(t)'
    BY <1>1 DEF StartRun, RefInv, QuietBetweenRuns, InFlight, Idle
  <2>3. holderBar' = holderBar
    BY <2>2 DEF holderBar, HoldersOf
  <2>4. \A o \in D : stateBar[o] \in {"waiting", "finished"}
    BY <2>1 DEF stateBar, Swept, Rows
  <2>5. \A o \in Offense :
          queue'[o] = IF o \in D THEN NoRow ELSE queue[o]
    BY <1>1 DEF StartRun, Sweep
  <2>6. stateBar' = [o \in Offense |-> IF o \in D THEN "absent" ELSE stateBar[o]]
    BY <2>5 DEF stateBar
  <2>7. QED
    BY <2>1, <2>3, <2>4, <2>6 DEF LQ!Drop
<1>2. CASE EndRun
  <2>1. queue' = queue /\ pc' = pc /\ claim' = claim
    BY <1>2 DEF EndRun, threadVars
  <2>2. QED
    BY <2>1, HolderFrame DEF stateBar, barVars
<1>3. CASE Crash
  <2>1. stateBar' = stateBar
    BY <1>3 DEF Crash, stateBar
  <2>2. \A o \in Offense : holderBar'[o] = NoOne
    BY <1>3 DEF Crash, Idle, holderBar, HoldersOf, InFlight
  <2>3. \A o \in Offense : holderBar[o] \notin Thread => holderBar[o] = NoOne
    BY <1>0 DEF BarOK
  <2>4. holderBar' = [o \in Offense |-> IF holderBar[o] \in Thread THEN NoOne
                                        ELSE holderBar[o]]
    BY <2>2, <2>3 DEF holderBar
  <2>5. LQ!Abandon(Thread)
    BY <2>1, <2>4 DEF LQ!Abandon
  <2>6. QED
    BY <2>5
<1>4. QED
  BY <1>1, <1>2, <1>3

\* claim_next takes an offense nobody holds.
LEMMA ClaimMaps ==
    ASSUME RefInv, RefInv', NEW t \in Thread, ClaimNext(t)
    PROVE  \E o \in Offense : LQ!Take(t, o)
<1>0. TypeOK /\ BarOK /\ BarOK'
  BY BarCorrect, PTL DEF RefInv, HoldInv, TypeInv
<1>1. PICK o \in Offense :
        /\ IsNextClaim(queue, since[t], o)
        /\ queue' = [queue EXCEPT ![o] = ClaimRow(@, since[t] + Lease)]
        /\ claim'[t].offense = o
  <2>1. PICK o \in Offense :
          /\ IsNextClaim(queue, since[t], o)
          /\ queue' = [queue EXCEPT ![o] = ClaimRow(@, since[t] + Lease)]
          /\ claim' = [claim EXCEPT ![t] =
               [offense |-> o, attempts |-> queue[o].attempts + 1,
                is_manual |-> IsManual(queue[o]), force |-> queue[o].force]]
    BY DEF ClaimNext
  <2>2. claim'[t].offense = o
    BY <1>0, <2>1 DEF TypeOK
  <2>3. QED
    BY <2>1, <2>2
<1>2. ~InFlight(t) /\ InFlight(t)'
  BY <1>0 DEF ClaimNext, Goto, InFlight, TypeOK
<1>3. since[t] \in Nat /\ since[t] <= now
  BY <1>0 DEF RefInv, HoldInv, Clock, TypeOK, ClaimNext, Timed
<1>4. \A u \in Thread : ~(InFlight(u) /\ claim[u].offense = o)
  BY <1>1, <1>3, HeldNotClaimable DEF IsNextClaim, RefInv
<1>5. holderBar[o] = NoOne
  BY <1>0, <1>4 DEF BarOK
<1>6. \A p \in Offense : holderBar[p] # t
  BY <1>0, <1>2 DEF BarOK
<1>7. stateBar[o] \in {"waiting", "taken"}
  BY <1>1 DEF IsNextClaim, Claimable, Rows, Expired, stateBar
<1>8. stateBar'[o] = "taken" /\ holderBar'[o] = t
  BY <1>0, <1>1, <1>2 DEF BarOK
<1>9. ASSUME NEW p \in Offense, p # o
      PROVE  stateBar'[p] = stateBar[p] /\ holderBar'[p] = holderBar[p]
  <2>1. stateBar'[p] = stateBar[p]
    BY <1>0, <1>1, <1>9, StateFrame DEF TypeOK
  <2>2. \A u \in Thread :
          (InFlight(u) /\ claim[u].offense = p) <=> (InFlight(u)' /\ claim'[u].offense = p)
    <3> SUFFICES ASSUME NEW u \in Thread
                 PROVE  (InFlight(u) /\ claim[u].offense = p)
                          <=> (InFlight(u)' /\ claim'[u].offense = p)
      OBVIOUS
    <3>1. CASE u = t
      BY <1>1, <1>2, <1>9, <3>1
    <3>2. CASE u # t
      BY <1>0, <3>2, OthersStay DEF ThreadStep, InFlight
    <3>3. QED
      BY <3>1, <3>2
  <2>3. holderBar'[p] = holderBar[p]
    BY <1>0, <2>2 DEF BarOK
  <2>4. QED
    BY <2>1, <2>3
<1>10. /\ stateBar' = [stateBar EXCEPT ![o] = "taken"]
       /\ holderBar' = [holderBar EXCEPT ![o] = t]
  <2>1. BarFunctions /\ BarFunctions'
    BY BarShape, PTL
  <2>2. QED
    BY <1>8, <1>9, <2>1 DEF BarFunctions
<1>11. QED
  BY <1>5, <1>6, <1>7, <1>10 DEF LQ!Take

\* mark() finishes the thread's own offense; an outcome that leaves the row to
\* its lease gives it up.
LEMMA SettleMaps ==
    ASSUME RefInv, RefInv', NEW t \in Thread, Settle(t)
    PROVE  (\E o \in Offense : LQ!Finish(t, o)) \/ LQ!Abandon({t})
<1> DEFINE o == claim[t].offense
           outcome == OutcomeOf(answer[t], claim[t].attempts)
<1>0. TypeOK /\ BarOK /\ BarOK'
  BY BarCorrect, PTL DEF RefInv, HoldInv, TypeInv
<1>1. InFlight(t) /\ ~InFlight(t)' /\ o \in Offense
  BY <1>0 DEF Settle, Goto, InFlight, TypeOK, RefInv, HoldInv, TypeInv, Claim
<1>2. holderBar[o] = t /\ \A p \in Offense : p # o => holderBar[p] # t
  BY <1>0, <1>1 DEF BarOK
<1>3. \A u \in Thread : u # t => (InFlight(u)' <=> InFlight(u)) /\ claim'[u] = claim[u]
  BY <1>0, OthersStay DEF ThreadStep, InFlight
<1>4. \A p \in Offense : holderBar'[p] = IF p = o THEN NoOne ELSE holderBar[p]
  BY <1>0, <1>1, <1>2, <1>3 DEF BarOK
<1>5. BarFunctions /\ BarFunctions'
  BY BarShape, PTL
<1>6. CASE outcome \in {"ok", "app_error", "http4xx", "http5xx_final"}
  <2>1. PICK s \in {"DONE", "ERROR"} : queue' = Mark(queue, o, s)
    BY <1>6 DEF Settle, Settled
  <2>2. queue[o] \in Row /\ queue[o] # NoRow
    BY <1>0, <1>1 DEF RefInv, HoldInv, Holds, TypeOK
  <2>3. queue'[o] # NoRow /\ queue'[o].status = s
    <3>1. Mark(queue, o, s)[o] = [queue[o] EXCEPT !.status = s, !.lease_until = NULL]
      BY <1>0, <1>1, <2>2 DEF Mark, TypeOK
    <3>2. [queue[o] EXCEPT !.status = s, !.lease_until = NULL] \in Row
      BY <2>2 DEF Row, Status, NULL
    <3>3. QED
      BY <2>1, <2>2, <3>1, <3>2, NoRowAssumption DEF Row
  <2>4. stateBar'[o] = "finished"
    BY <1>1, <2>3 DEF stateBar
  <2>5. \A p \in Offense : p # o => stateBar'[p] = stateBar[p]
    BY <1>0, <2>1, StateFrame DEF Mark, TypeOK
  <2>6. stateBar' = [stateBar EXCEPT ![o] = "finished"]
    BY <1>5, <2>4, <2>5 DEF BarFunctions
  <2>7. holderBar' = [holderBar EXCEPT ![o] = NoOne]
    BY <1>4, <1>5 DEF BarFunctions
  <2>8. LQ!Finish(t, o)
    BY <1>2, <2>6, <2>7 DEF LQ!Finish
  <2>9. QED
    BY <1>1, <2>8
<1>7. CASE outcome \notin {"ok", "app_error", "http4xx", "http5xx_final"}
  <2>1. queue' = queue
    BY <1>7 DEF Settle, Settled
  <2>2. stateBar' = stateBar
    BY <2>1 DEF stateBar
  <2>3. holderBar' = [p \in Offense |-> IF holderBar[p] \in {t} THEN NoOne ELSE holderBar[p]]
    BY <1>2, <1>4, <1>5 DEF BarFunctions
  <2>4. QED
    BY <2>2, <2>3 DEF LQ!Abandon
<1>8. QED
  BY <1>6, <1>7

\* An exception, of requests or of SQLite, gives up what the thread held.
LEMMA GiveUpMaps ==
    ASSUME RefInv, RefInv', NEW t \in Thread,
           (\E exception \in NoResponse : Fail(t, exception)) \/ Die(t)
    PROVE  LQ!Abandon({t})
<1>0. TypeOK /\ BarOK /\ BarOK'
  BY BarCorrect, PTL DEF RefInv, HoldInv, TypeInv
<1>1. ~InFlight(t)' /\ queue' = queue
  BY <1>0 DEF Fail, Die, Goto, InFlight, TypeOK
<1>2. \A u \in Thread : u # t => (InFlight(u)' <=> InFlight(u)) /\ claim'[u] = claim[u]
  BY <1>0, OthersStay DEF ThreadStep, InFlight
<1>3. \A p \in Offense : holderBar'[p] = IF holderBar[p] = t THEN NoOne ELSE holderBar[p]
  BY <1>0, <1>1, <1>2 DEF BarOK
<1>4. BarFunctions /\ BarFunctions'
  BY BarShape, PTL
<1>5. stateBar' = stateBar
  BY <1>1 DEF stateBar
<1>6. holderBar' = [p \in Offense |-> IF holderBar[p] \in {t} THEN NoOne ELSE holderBar[p]]
  BY <1>3, <1>4 DEF BarFunctions
<1>7. QED
  BY <1>5, <1>6 DEF LQ!Abandon

\* The other steps of a thread are its own business.
LEMMA InnerMaps ==
    ASSUME RefInv, RefInv', NEW t \in Thread,
           \/ Begin(t) \/ PassHold(t) \/ ClaimNothing(t) \/ Tally(t)
           \/ \E response \in Response : Respond(t, response)
    PROVE  UNCHANGED barVars
<1>0. TypeOK /\ BarOK /\ BarOK'
  BY BarCorrect, PTL DEF RefInv, HoldInv, TypeInv
<1>1. queue' = queue /\ claim' = claim
  BY DEF Begin, PassHold, ClaimNothing, Tally, Respond
<1>2. \A u \in Thread : InFlight(u)' <=> InFlight(u)
  BY <1>0 DEF Begin, PassHold, ClaimNothing, Tally, Respond, Goto, InFlight, TypeOK
<1>3. \A o \in Offense : holderBar'[o] = holderBar[o]
  BY <1>0, <1>1, <1>2 DEF BarOK
<1>4. BarFunctions /\ BarFunctions'
  BY BarShape, PTL
<1>5. holderBar' = holderBar
  BY <1>3, <1>4 DEF BarFunctions
<1>6. stateBar' = stateBar
  BY <1>1 DEF stateBar
<1>7. QED
  BY <1>5, <1>6 DEF barVars

\* The worker implements the leased queue.
THEOREM Implementation == Spec => ImplementsLeasedQueue
<1>1. Init => LQ!Init
  BY DEF Init, LQ!Init, stateBar, holderBar, HoldersOf, InFlight, Idle
<1>2. RefInv /\ RefInv' /\ [Next]_vars => [LQ!Next]_(LQ!vars)
  <2> SUFFICES ASSUME RefInv, RefInv', [Next]_vars
               PROVE  LQ!Next \/ UNCHANGED barVars
    BY DEF LQ!vars, barVars
  <2>1. TypeOK
    BY DEF RefInv, HoldInv, TypeInv
  <2>2. CASE UNCHANGED vars
    BY <2>2 DEF vars, threadVars, barVars, stateBar, holderBar, HoldersOf, InFlight
  <2>3. ASSUME NEW s \in Submission, NEW at \in 0..now, Submit(s, at)
        PROVE  LQ!Next \/ UNCHANGED barVars
    BY <2>1, <2>3, SubmitMaps, SubmissionAssumption DEF SubmissionType, LQ!Next
  <2>4. CASE \/ \E seconds \in HoldSeconds : SetHold(seconds)
             \/ Tick
    BY <2>4, HolderFrame DEF SetHold, Tick, threadVars, barVars, stateBar
  <2>5. CASE StartRun \/ EndRun \/ Crash
    BY <2>5, RunMaps DEF LQ!Next
  <2>6. ASSUME NEW t \in Thread, ThreadStep(t)
        PROVE  LQ!Next \/ UNCHANGED barVars
    BY <2>1, <2>6, ClaimMaps, SettleMaps, GiveUpMaps, InnerMaps
    DEF ThreadStep, LQ!Next
  <2>7. QED
    BY <2>2, <2>3, <2>4, <2>5, <2>6 DEF Next
<1>3. QED
  BY <1>1, <1>2, RefInvCorrect, PTL DEF Spec, ImplementsLeasedQueue, LQ!Spec
=============================================================================
