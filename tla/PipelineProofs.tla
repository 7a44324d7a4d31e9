---------------------------- MODULE PipelineProofs ----------------------------
(***************************************************************************)
(* Proofs about the worker and /process-one together, for any number of    *)
(* threads, handlers and offenses and every lease, timeout and limit that  *)
(* satisfy the assumptions of Pipeline.                                    *)
(***************************************************************************)
EXTENDS Pipeline, TLAPS

Table == [Offense -> Row \cup {NoRow}]

Shape ==
    /\ queue \in Table
    /\ status \in [Offense -> Statuses] /\ since \in [Offense -> 0..Stale]
    /\ call \in [Thread -> Call] /\ run \in [Handler -> Run]
    /\ notes \in [Offense -> Nat] /\ overlapped \subseteq Offense
    /\ faults \in 0..MaxFaults

Early(h) == run[h].at \in {"select", "insert"}
Late(h) == run[h].at \in {"work", "note", "record"}

\* The row is in somebody's hands, and its lease covers all the time since.
Held(o, age) ==
    /\ o \in Offense /\ queue[o] # NoRow /\ queue[o].status = "IN_PROGRESS"
    /\ queue[o].lease_until >= Now + Lease - age

\* A thread waits for one handler and holds the row of its offense, alone.
Holds(t) == call[t] # NoCall =>
    /\ Held(call[t].offense, call[t].age)
    /\ call[t].age <= PatienceFor(call[t])
    /\ call[t].handler = NoHandler => call[t].answer # "none"

Waits(t) == call[t].handler # NoHandler =>
    /\ call[t].answer = "none"
    /\ run[call[t].handler] # NoRun
    /\ run[call[t].handler].offense = call[t].offense
    /\ run[call[t].handler].age = call[t].age

Calls ==
    /\ \A t \in Thread : Holds(t) /\ Waits(t)
    /\ \A t, u \in Thread :
        call[t] # NoCall /\ call[u] # NoCall /\ call[t].offense = call[u].offense => t = u

\* A handler that has not written its mark is within the lease of the claim that started
\* it; so nobody else has been sent for its offense, and nobody settles the row.
Serves(h) ==
    /\ run[h] # NoRun => run[h].at # "idle" /\ run[h].offense \in Offense
    /\ run[h].at \in {"note", "record"} => run[h].fate \in Fates

Leased(h) == Early(h) =>
    /\ run[h].age <= LockWait /\ Held(run[h].offense, run[h].age)
    /\ \A t \in Thread :
        call[t] # NoCall /\ call[t].offense = run[h].offense => call[t].handler = h

Starts ==
    /\ \A h \in Handler : Serves(h) /\ Leased(h)
    /\ \A h, k \in Handler : Early(h) /\ Early(k) /\ run[h].offense = run[k].offense => h = k

\* The mark of a handler at work is there and not older than the handler, unless a second
\* one was let in.
Marks ==
    /\ \A h \in Handler : Late(h) /\ run[h].offense \notin overlapped =>
        status[run[h].offense] = "PROCESSING" /\ since[run[h].offense] <= run[h].age
    /\ OneAnalysis

Settles(o) == status[o] \in {"PROCESSED", "NO_EVENTS", "DAMAGED"}
NobodyAt(o) == \A h \in Handler : Past(h) => run[h].offense # o

\* What is reported or recorded as done has a result and no handler that could change it.
Finished ==
    /\ \A t \in Thread : call[t].answer = "ok" /\ call[t].offense \notin overlapped =>
        Settles(call[t].offense) /\ NobodyAt(call[t].offense)
    /\ \A o \in Offense \ overlapped : queue[o] # NoRow /\ queue[o].status = "DONE" =>
        Settles(o) /\ NobodyAt(o)

PipeInv == Shape /\ Calls /\ Starts /\ Marks /\ Finished

-----------------------------------------------------------------------------
(***************************************************************************)
(* Types.                                                                  *)
(***************************************************************************)
LEMMA Bounds ==
    /\ HttpTimeout \in Nat /\ LockWait \in Nat /\ Lease \in Nat /\ Stale \in Nat
    /\ MaxAttempts \in Nat /\ MaxFaults \in Nat
    /\ NoHandler \notin Handler /\ Nothing \notin Offense
    /\ LockWait < HttpTimeout /\ HttpTimeout + LockWait < Lease
BY PipelineAssumption, PipelineLeaseAssumption

LEMMA NoCallType == NoCall \in Call /\ NoRun \in Run
BY DEF NoCall, NoRun, Call, Run

LEMMA RowAfterEnqueue ==
    ASSUME NEW q \in Table, NEW o \in Offense, NEW m \in Magnitude,
           NEW src \in Source, NEW force \in BOOLEAN, NEW forced \in BOOLEAN
    PROVE  /\ Enqueue(q, o, m, src, force, forced, Now) \in Table
           /\ \A p \in Offense : q[p] # NoRow /\ q[p].status = "IN_PROGRESS" =>
                Enqueue(q, o, m, src, force, forced, Now)[p] = q[p]
           /\ \A p \in Offense :
                LET r == Enqueue(q, o, m, src, force, forced, Now)[p] IN
                r # NoRow /\ r.status = "DONE" => q[p] # NoRow /\ q[p].status = "DONE"
<1> DEFINE outcome == EnqueueOutcome(q, o, m, forced)
<1> DEFINE next == Enqueue(q, o, m, src, force, forced, Now)
<1>1. CASE outcome \in {"inserted", "requeued"}
  <2>1. NewRow(m, src, force, Now) \in Row /\ NewRow(m, src, force, Now).status = "QUEUED"
    BY DEF NewRow, Row, Status, NULL, Now
  <2>2. next = [q EXCEPT ![o] = NewRow(m, src, force, Now)]
    BY <1>1 DEF Enqueue
  <2>3. ~(q[o] # NoRow /\ q[o].status = "IN_PROGRESS")
    BY <1>1 DEF EnqueueOutcome
  <2>4. QED
    BY <2>1, <2>2, <2>3 DEF Table
<1>2. CASE outcome = "refreshed"
  <2>1. q[o] # NoRow /\ q[o].status = "QUEUED"
    BY <1>2 DEF EnqueueOutcome
  <2>2. [q[o] EXCEPT !.magnitude = m] \in Row /\ [q[o] EXCEPT !.magnitude = m].status = "QUEUED"
    BY <2>1 DEF Table, Row
  <2>3. next = [q EXCEPT ![o] = [q[o] EXCEPT !.magnitude = m]]
    BY <1>2 DEF Enqueue
  <2>4. QED
    BY <2>1, <2>2, <2>3 DEF Table
<1>3. CASE outcome \notin {"inserted", "requeued", "refreshed"}
  BY <1>3 DEF Enqueue
<1>4. QED
  BY <1>1, <1>2, <1>3

\* What claim_next makes of a row.
LEMMA TakenRow ==
    ASSUME Shape, NEW o \in Offense, queue[o] # NoRow
    PROVE  /\ Taken(o) \in Table
           /\ Taken(o)[o].status = "IN_PROGRESS" /\ Taken(o)[o] # NoRow
           /\ Taken(o)[o].lease_until = Now + Lease
           /\ \A p \in Offense \ {o} : Taken(o)[p] = queue[p]
<1> DEFINE r == ClaimRow(queue[o], Now + Lease)
           taken == [r EXCEPT !.attempts = Capped(r.attempts, MaxAttempts)]
<1>1. queue[o] \in Row /\ Now + Lease \in Nat
  BY Bounds DEF Shape, Table, Now
<1>2. queue[o].attempts + 1 \in Nat
  BY <1>1 DEF Row
<1>3. r \in Row /\ r.status = "IN_PROGRESS" /\ r.lease_until = Now + Lease
  <2>1. \A n, until \in Nat :
          LET c == [queue[o] EXCEPT !.status = "IN_PROGRESS", !.lease_until = until, !.attempts = n]
          IN c \in Row /\ c.status = "IN_PROGRESS" /\ c.lease_until = until
    BY <1>1 DEF Row, Status, NULL
  <2>2. QED
    BY <1>1, <1>2, <2>1 DEF ClaimRow
<1>4. Capped(r.attempts, MaxAttempts) \in Nat
  BY <1>3, Bounds DEF Row, Capped
<1>5. taken \in Row /\ taken.status = "IN_PROGRESS" /\ taken.lease_until = Now + Lease
  BY <1>3, <1>4 DEF Row
<1>6. taken # NoRow
  BY <1>5, NoRowAssumption
<1>7. Taken(o) = [queue EXCEPT ![o] = taken]
  BY DEF Taken
<1>8. QED
  BY <1>5, <1>6, <1>7 DEF Shape, Table

LEMMA RowAfterMark ==
    ASSUME Shape, NEW o \in Offense, NEW s \in Status
    PROVE  /\ Mark(queue, o, s) \in Table
           /\ \A p \in Offense \ {o} : Mark(queue, o, s)[p] = queue[p]
           /\ queue[o] # NoRow => Mark(queue, o, s)[o].status = s
<1>1. CASE queue[o] = NoRow
  BY <1>1 DEF Mark, Shape
<1>2. CASE queue[o] # NoRow
  <2>1. [queue[o] EXCEPT !.status = s, !.lease_until = NULL] \in Row
    BY <1>2 DEF Shape, Table, Row, NULL
  <2>2. [queue[o] EXCEPT !.status = s, !.lease_until = NULL].status = s
    BY <1>2 DEF Shape, Table, Row
  <2>3. QED
    BY <1>2, <2>1, <2>2 DEF Mark, Shape, Table
<1>3. QED
  BY <1>1, <1>2

\* What Reply makes of the calls and the handlers.
LEMMA ReplyShape ==
    ASSUME Shape, Calls, NEW h \in Handler, NEW a \in Answers, Reply(h, a)
    PROVE  /\ call' \in [Thread -> Call] /\ run' \in [Handler -> Run]
           /\ run'[h] = NoRun /\ \A k \in Handler \ {h} : run'[k] = run[k]
           /\ \A t \in Thread : call[t].handler # h => call'[t] = call[t]
           /\ \A t \in Thread : call[t].handler = h =>
                /\ call'[t].offense = call[t].offense /\ call'[t].age = call[t].age
                /\ call'[t].handler = NoHandler /\ call'[t].answer = a
                /\ call[t] # NoCall /\ call'[t] # NoCall
<1>1. h # NoHandler /\ a # "none"
  BY Bounds DEF Answers
<1>2. \A t \in Thread : call[t].handler = h => call[t].answer = "none" /\ call[t] # NoCall
  BY <1>1 DEF Calls, Waits, NoCall
<1>3. \A c \in Call :
        LET d == [c EXCEPT !.handler = NoHandler, !.answer = a] IN
        /\ d \in Call /\ d.offense = c.offense /\ d.age = c.age
        /\ d.handler = NoHandler /\ d.answer = a /\ d # NoCall
  BY <1>1 DEF Call, NoCall
<1>4. \A t \in Thread : call[t] \in Call
  BY DEF Shape
<1>5. \A t \in Thread : call'[t] = IF call[t].handler = h
                                   THEN [call[t] EXCEPT !.handler = NoHandler, !.answer = a]
                                   ELSE call[t]
  BY <1>2 DEF Reply
<1>6. call' \in [Thread -> Call]
  BY <1>3, <1>4 DEF Reply
<1>7. run' \in [Handler -> Run] /\ run'[h] = NoRun /\ \A k \in Handler \ {h} : run'[k] = run[k]
  BY NoCallType DEF Reply, Shape
<1>8. \A t \in Thread : call[t].handler # h => call'[t] = call[t]
  BY <1>5
<1>9. ASSUME NEW t \in Thread, call[t].handler = h
      PROVE  /\ call'[t].offense = call[t].offense /\ call'[t].age = call[t].age
             /\ call'[t].handler = NoHandler /\ call'[t].answer = a
             /\ call[t] # NoCall /\ call'[t] # NoCall
  <2>1. call'[t] = [call[t] EXCEPT !.handler = NoHandler, !.answer = a]
    BY <1>5, <1>9
  <2>2. call[t] # NoCall /\ call[t] \in Call
    BY <1>2, <1>4, <1>9
  <2> DEFINE d == [call[t] EXCEPT !.handler = NoHandler, !.answer = a]
  <2>3. /\ d.offense = call[t].offense /\ d.age = call[t].age
        /\ d.handler = NoHandler /\ d.answer = a /\ d # NoCall
    BY <1>3, <2>2
  <2>4. call'[t] = d
    BY <2>1
  <2> HIDE DEF d
  <2>5. QED
    BY <2>2, <2>3, <2>4
<1>10. QED
  BY <1>6, <1>7, <1>8, <1>9

\* What Step makes of a handler.
LEMMA StepShape ==
    ASSUME Shape, NEW h \in Handler, NEW from,
           NEW to \in {"insert", "work", "record"}, Step(h, from, to)
    PROVE  /\ run' \in [Handler -> Run]
           /\ run[h].at = from /\ run'[h].at = to /\ run'[h].offense = run[h].offense
           /\ run'[h].age = run[h].age /\ run'[h].fate = run[h].fate
           /\ \A k \in Handler \ {h} : run'[k] = run[k]
<1>1. \A r \in Run : LET n == [r EXCEPT !.at = to] IN
        n \in Run /\ n.at = to /\ n.offense = r.offense /\ n.age = r.age /\ n.fate = r.fate
  BY DEF Run
<1>2. QED
  BY <1>1 DEF Step, Shape

-----------------------------------------------------------------------------
(***************************************************************************)
(* Requests change no row in progress and make none DONE; a thread that    *)
(* gives up, or dies with the others, takes its claim with it.             *)
(***************************************************************************)
LEMMA NewQueueKeeps ==
    ASSUME PipeInv, queue' \in Table,
           UNCHANGED <<status, since, call, run, notes, overlapped, faults>>,
           \A p \in Offense : queue[p] # NoRow /\ queue[p].status = "IN_PROGRESS" =>
                queue'[p] = queue[p],
           \A p \in Offense : queue'[p] # NoRow /\ queue'[p].status = "DONE" =>
                queue[p] # NoRow /\ queue[p].status = "DONE"
    PROVE  PipeInv'
<1>1. Shape'
  BY DEF PipeInv, Shape
<1>2. \A o, age : Held(o, age) => Held(o, age)'
  BY DEF Held
<1>3. Calls'
  BY <1>2 DEF PipeInv, Calls, Holds, Waits, PatienceFor
<1>4. Starts'
  BY <1>2 DEF PipeInv, Starts, Serves, Leased, Early
<1>5. Marks'
  BY DEF PipeInv, Marks, Late, OneAnalysis, Past
<1>6. Finished'
  BY DEF PipeInv, Finished, Settles, NobodyAt, Past
<1>7. QED
  BY <1>1, <1>3, <1>4, <1>5, <1>6 DEF PipeInv

LEMMA RequestKeeps ==
    ASSUME PipeInv, NEW o \in Offense, NEW m \in Magnitude,
           Discover(o, m) \/ RetryError(o, m) \/ Retriage(o, m) \/ Ask(o, m)
    PROVE  PipeInv'
<1>1. PICK src \in Source, force \in BOOLEAN, forced \in BOOLEAN : Request(o, m, src, force, forced)
  BY DEF Discover, RetryError, Retriage, Ask, Source
<1>2. queue' = Enqueue(queue, o, m, src, force, forced, Now)
  BY <1>1 DEF Request
<1>3. queue \in Table
  BY DEF PipeInv, Shape
<1>4. UNCHANGED <<status, since, call, run, notes, overlapped, faults>>
  BY <1>1 DEF Request, service
<1>5. QED
  BY <1>2, <1>3, <1>4, RowAfterEnqueue, NewQueueKeeps

LEMMA CallsDropped ==
    ASSUME PipeInv, UNCHANGED <<queue, status, since, run, notes, overlapped>>,
           faults' \in 0..MaxFaults,
           call' \in [Thread -> Call],
           \A t \in Thread : call'[t] = call[t] \/ call'[t] = NoCall
    PROVE  PipeInv'
<1>1. Shape'
  BY DEF PipeInv, Shape
<1>2. NoCall.handler = NoHandler /\ NoCall.answer = "none"
  BY DEF NoCall
<1>3. Calls'
  BY <1>2 DEF PipeInv, Calls, Holds, Waits, PatienceFor, Held
<1>4. Starts'
  BY <1>2 DEF PipeInv, Starts, Serves, Leased, Early, Held
<1>5. Marks'
  BY DEF PipeInv, Marks, Late, OneAnalysis, Past
<1>6. Finished'
  BY <1>2 DEF PipeInv, Finished, Settles, NobodyAt, Past
<1>7. QED
  BY <1>1, <1>3, <1>4, <1>5, <1>6 DEF PipeInv

LEMMA FaultType == Shape /\ (Fault \/ UNCHANGED faults) => faults' \in 0..MaxFaults
BY Bounds DEF Shape, Fault

LEMMA DropKeeps ==
    ASSUME PipeInv, WorkerDies \/ \E t \in Thread : GiveUp(t)
    PROVE  PipeInv'
<1>1. CASE WorkerDies
  BY <1>1, CallsDropped, FaultType, NoCallType DEF WorkerDies, service, PipeInv
<1>2. CASE \E t \in Thread : GiveUp(t)
  <2>1. PICK t \in Thread : GiveUp(t)
    BY <1>2
  <2>2. call' \in [Thread -> Call] /\ \A u \in Thread : call'[u] = call[u] \/ call'[u] = NoCall
    BY <2>1, NoCallType DEF GiveUp, PipeInv, Shape
  <2>3. QED
    BY <2>1, <2>2, CallsDropped, FaultType DEF GiveUp, service, PipeInv
<1>3. QED
  BY <1>1, <1>2

-----------------------------------------------------------------------------
(***************************************************************************)
(* Claims: the lease of the row has run out, so that no handler is before  *)
(* its mark and no thread has the row.                                     *)
(***************************************************************************)
LEMMA NobodyHolds ==
    ASSUME PipeInv, NEW o \in Offense, IsNextClaim(queue, Now, o)
    PROVE  /\ queue[o] # NoRow /\ queue[o].status # "DONE"
           /\ \A t \in Thread : call[t] # NoCall => call[t].offense # o
           /\ \A h \in Handler : Early(h) => run[h].offense # o
<1>1. /\ queue[o] # NoRow
      /\ queue[o].status = "QUEUED" \/ (queue[o].status = "IN_PROGRESS" /\ queue[o].lease_until < Now)
  BY DEF IsNextClaim, Claimable, Expired, Rows
<1>2. queue[o] \in Row
  BY <1>1 DEF PipeInv, Shape, Table
<1>3. ASSUME NEW age \in Nat, age <= HttpTimeout + LockWait, Held(o, age)
      PROVE  FALSE
  BY <1>1, <1>2, <1>3, Bounds DEF Held, Row, Now, NULL
<1>4. ASSUME NEW t \in Thread, call[t] # NoCall, call[t].offense = o
      PROVE  FALSE
  <2>1. call[t].age \in Nat /\ call[t].age <= HttpTimeout + LockWait
    BY <1>4, Bounds DEF PipeInv, Shape, Calls, Holds, Call, PatienceFor
  <2>2. Held(o, call[t].age)
    BY <1>4 DEF PipeInv, Calls, Holds
  <2>3. QED
    BY <1>3, <2>1, <2>2
<1>5. ASSUME NEW h \in Handler, Early(h), run[h].offense = o
      PROVE  FALSE
  <2>1. run[h].age \in Nat /\ run[h].age <= HttpTimeout + LockWait
    BY <1>5, Bounds DEF PipeInv, Shape, Starts, Leased, Run
  <2>2. Held(o, run[h].age)
    BY <1>5 DEF PipeInv, Starts, Leased
  <2>3. QED
    BY <1>3, <2>1, <2>2
<1>6. QED
  BY <1>1, <1>4, <1>5

LEMMA PostFailsKeeps ==
    ASSUME PipeInv, NEW t \in Thread, NEW o \in Offense, PostFails(t, o)
    PROVE  PipeInv'
<1>1. /\ queue[o] # NoRow /\ \A u \in Thread : call[u] # NoCall => call[u].offense # o
      /\ \A h \in Handler : Early(h) => run[h].offense # o
  BY NobodyHolds DEF PostFails
<1>2. /\ queue' \in Table /\ queue'[o].status = "IN_PROGRESS"
      /\ \A p \in Offense \ {o} : queue'[p] = queue[p]
  BY <1>1, TakenRow DEF PostFails, PipeInv
<1>3. UNCHANGED <<status, since, run, notes, overlapped, call>>
  BY DEF PostFails, service
<1>4. Shape'
  BY <1>2, <1>3, FaultType DEF PipeInv, Shape, PostFails
<1>5. \A p, age : Held(p, age) /\ p # o => Held(p, age)'
  BY <1>2 DEF Held
<1>6. Calls'
  BY <1>1, <1>3, <1>5 DEF PipeInv, Calls, Holds, Waits, PatienceFor
<1>7. Starts'
  BY <1>1, <1>3, <1>5 DEF PipeInv, Starts, Serves, Leased, Early
<1>8. Marks'
  BY <1>3 DEF PipeInv, Marks, Late, OneAnalysis, Past
<1>9. Finished'
  BY <1>2, <1>3 DEF PipeInv, Finished, Settles, NobodyAt, Past
<1>10. QED
  BY <1>4, <1>6, <1>7, <1>8, <1>9 DEF PipeInv

LEMMA PostKeeps ==
    ASSUME PipeInv, NEW t \in Thread, NEW o \in Offense, NEW h \in Handler, Post(t, o, h)
    PROVE  PipeInv'
<1>1. /\ queue[o] # NoRow /\ \A u \in Thread : call[u] # NoCall => call[u].offense # o
      /\ \A k \in Handler : Early(k) => run[k].offense # o
  BY NobodyHolds DEF Post
<1>2. /\ queue' \in Table /\ queue'[o].status = "IN_PROGRESS" /\ queue'[o] # NoRow
      /\ queue'[o].lease_until = Now + Lease
      /\ \A p \in Offense \ {o} : queue'[p] = queue[p]
  BY <1>1, TakenRow DEF Post, PipeInv
<1>3. /\ call'[t] \in Call /\ call'[t].offense = o /\ call'[t].handler = h
      /\ call'[t].age = 0 /\ call'[t].answer = "none"
      /\ \A u \in Thread \ {t} : call'[u] = call[u]
  <2>1. queue'[o].attempts \in Nat
    BY <1>2 DEF Table, Row
  <2>2. QED
    BY <2>1 DEF Post, NoCall, Call, PipeInv, Shape
<1>4. /\ run'[h] \in Run /\ run'[h].at = "select" /\ run'[h].offense = o /\ run'[h].age = 0
      /\ \A k \in Handler \ {h} : run'[k] = run[k]
  BY DEF Post, NoRun, Run, PipeInv, Shape, IsManual
<1>5. UNCHANGED <<status, since, notes, overlapped, faults>>
  BY DEF Post
<1>6. Shape'
  <2>1. call' \in [Thread -> Call]
    BY <1>3 DEF Post, PipeInv, Shape
  <2>2. run' \in [Handler -> Run]
    BY <1>4 DEF Post, PipeInv, Shape
  <2>3. QED
    BY <1>2, <1>5, <2>1, <2>2 DEF PipeInv, Shape
<1>7. \A p, age : Held(p, age) /\ p # o => Held(p, age)'
  BY <1>2 DEF Held
<1>8. Held(o, 0)'
  BY <1>2, Bounds DEF Held, Now
<1>9. call[t] = NoCall /\ run[h] = NoRun /\ run'[h] # NoRun /\ call'[t] # NoCall
  <2>1. run'[h] # NoRun
    BY <1>4 DEF NoRun
  <2>2. call'[t] # NoCall
    BY <1>3, Bounds DEF NoCall
  <2>3. QED
    BY <2>1, <2>2 DEF Post
<1>10. \A u \in Thread : call[u].handler # h
  BY <1>9, Bounds DEF PipeInv, Calls, Waits
<1>11. Calls'
  <2>1. ASSUME NEW u \in Thread, u # t
        PROVE  Holds(u)' /\ Waits(u)'
    <3>1. call'[u] = call[u] /\ (call[u] # NoCall => call[u].offense # o)
      BY <1>1, <1>3, <2>1
    <3>2. Holds(u)'
      BY <1>7, <3>1 DEF PipeInv, Calls, Holds, PatienceFor
    <3>3. call[u].handler # NoHandler => call[u].handler \in Handler \ {h}
      BY <1>10 DEF PipeInv, Shape, Call
    <3>4. Waits(u)'
      BY <1>4, <3>1, <3>3 DEF PipeInv, Calls, Waits
    <3>5. QED
      BY <3>2, <3>4
  <2>2. Holds(t)'
    BY <1>3, <1>8, Bounds DEF Holds, PatienceFor
  <2>3. Waits(t)'
    BY <1>3, <1>4, <1>9 DEF Waits
  <2>4. \A u, w \in Thread :
          call'[u] # NoCall /\ call'[w] # NoCall /\ call'[u].offense = call'[w].offense => u = w
    BY <1>1, <1>3 DEF PipeInv, Calls
  <2>5. QED
    BY <2>1, <2>2, <2>3, <2>4 DEF Calls
<1>12. Starts'
  <2>1. \A k \in Handler : Early(k)' => k = h \/ (Early(k) /\ run[k].offense # o)
    BY <1>1, <1>4 DEF Early
  <2>2. ASSUME NEW k \in Handler, k # h
        PROVE  Serves(k)' /\ Leased(k)'
    <3>1. run'[k] = run[k]
      BY <1>4, <2>2
    <3>2. Serves(k)'
      BY <3>1 DEF PipeInv, Starts, Serves
    <3>3. Leased(k)'
      BY <1>3, <1>7, <2>1, <2>2, <3>1 DEF PipeInv, Starts, Leased
    <3>4. QED
      BY <3>2, <3>3
  <2>3. Serves(h)'
    BY <1>4 DEF Serves
  <2>4. Leased(h)'
    BY <1>1, <1>3, <1>4, <1>8, Bounds DEF Leased
  <2>5. \A k, j \in Handler : Early(k)' /\ Early(j)' /\ run'[k].offense = run'[j].offense => k = j
    BY <1>4, <2>1 DEF PipeInv, Starts
  <2>6. QED
    BY <2>2, <2>3, <2>4, <2>5 DEF Starts
<1>13. \A k \in Handler : Past(k)' <=> Past(k) /\ k # h
  BY <1>4, <1>9 DEF Past, NoRun
<1>14. Marks'
  BY <1>4, <1>5, <1>13 DEF PipeInv, Marks, Late, OneAnalysis
<1>15. Finished'
  BY <1>2, <1>3, <1>4, <1>5, <1>13 DEF PipeInv, Finished, Settles, NobodyAt
<1>16. QED
  BY <1>6, <1>11, <1>12, <1>14, <1>15 DEF PipeInv

-----------------------------------------------------------------------------
(***************************************************************************)
(* A thread settles a row nobody else holds, with an answer that says how  *)
(* the analysis ended.                                                     *)
(***************************************************************************)
LEMMA SettleKeeps ==
    ASSUME PipeInv, NEW t \in Thread, Settle(t)
    PROVE  PipeInv'
<1> DEFINE o == call[t].offense
           end == SettledAs(call[t].answer, call[t].attempts)
<1>1. call[t] # NoCall /\ call[t].answer # "none" /\ call[t].handler = NoHandler
  BY DEF Settle, NoCall, PipeInv, Calls, Waits
<1>2. o \in Offense /\ queue[o] # NoRow
  BY <1>1 DEF PipeInv, Calls, Holds, Held
<1>3. \A u \in Thread \ {t} : call[u] # NoCall => call[u].offense # o
  BY <1>1 DEF PipeInv, Calls
<1>4. \A h \in Handler : Early(h) => run[h].offense # o
  BY <1>1, Bounds DEF PipeInv, Starts, Leased
<1>5. call' = [call EXCEPT ![t] = NoCall] /\ UNCHANGED <<status, since, run, notes, overlapped, faults>>
  BY DEF Settle, service
<1>6. /\ queue' \in Table /\ \A p \in Offense \ {o} : queue'[p] = queue[p]
      /\ queue'[o] # NoRow /\ queue'[o].status = "DONE" =>
            queue[o].status = "DONE" \/ call[t].answer = "ok"
  <2>1. CASE end = "IN_PROGRESS"
    BY <2>1 DEF Settle, PipeInv, Shape
  <2>2. CASE end # "IN_PROGRESS"
    <3>1. end \in {"DONE", "ERROR"} /\ (end = "DONE" <=> call[t].answer = "ok")
      BY <2>2 DEF SettledAs
    <3>2. queue' = Mark(queue, o, end)
      BY <2>2 DEF Settle
    <3>3. end \in Status
      BY <3>1 DEF Status
    <3>4. QED
      BY <1>2, <3>1, <3>2, <3>3, RowAfterMark DEF PipeInv
  <2>3. QED
    BY <2>1, <2>2
<1>7. Shape'
  BY <1>5, <1>6, NoCallType DEF PipeInv, Shape
<1>8. \A p, age : Held(p, age) /\ p # o => Held(p, age)'
  BY <1>6 DEF Held
<1>9. \A u \in Thread : \/ u = t /\ call'[u] = NoCall
                        \/ u # t /\ call'[u] = call[u]
  BY <1>5 DEF PipeInv, Shape
<1>10. NoCall.handler = NoHandler /\ NoCall.answer = "none"
  BY DEF NoCall
<1>11. Calls'
  BY <1>3, <1>5, <1>8, <1>9, <1>10 DEF PipeInv, Calls, Holds, Waits, PatienceFor
<1>12. Starts'
  BY <1>4, <1>5, <1>8, <1>9 DEF PipeInv, Starts, Serves, Leased, Early
<1>13. Marks'
  BY <1>5 DEF PipeInv, Marks, Late, OneAnalysis, Past
<1>14. Finished'
  BY <1>2, <1>5, <1>6, <1>9, <1>10 DEF PipeInv, Finished, Settles, NobodyAt, Past
<1>15. QED
  BY <1>7, <1>11, <1>12, <1>13, <1>14 DEF PipeInv

-----------------------------------------------------------------------------
(***************************************************************************)
(* Handlers that answer.                                                   *)
(***************************************************************************)
LEMMA ReplyKeeps ==
    ASSUME PipeInv, NEW h \in Handler, NEW a \in Answers, Reply(h, a), UNCHANGED queue
    PROVE  /\ Calls' /\ Starts'
           /\ \A k \in Handler : Past(k)' => k # h /\ Past(k) /\ run'[k] = run[k]
<1>1. /\ call' \in [Thread -> Call] /\ run' \in [Handler -> Run]
      /\ run'[h] = NoRun /\ \A k \in Handler \ {h} : run'[k] = run[k]
      /\ \A t \in Thread : call[t].handler # h => call'[t] = call[t]
      /\ \A t \in Thread : call[t].handler = h =>
            /\ call'[t].offense = call[t].offense /\ call'[t].age = call[t].age
            /\ call'[t].handler = NoHandler /\ call'[t].answer = a
            /\ call[t] # NoCall /\ call'[t] # NoCall
  BY ReplyShape DEF PipeInv
<1>2. \A o, age : Held(o, age) => Held(o, age)'
  BY DEF Held
<1>3. a # "none" /\ NoRun.at = "idle"
  BY DEF Answers, NoRun
<1>4. ASSUME NEW t \in Thread
      PROVE  Holds(t)' /\ Waits(t)'
  <2>1. CASE call[t].handler = h
    <3>1. call[t].age <= PatienceFor(call[t]) /\ Held(call[t].offense, call[t].age)
      BY <1>1, <2>1 DEF PipeInv, Calls, Holds
    <3>2. call[t].age \in Nat
      BY DEF PipeInv, Shape, Call
    <3>3. Holds(t)'
      BY <1>1, <1>2, <1>3, <2>1, <3>1, <3>2, Bounds DEF Holds, PatienceFor
    <3>4. Waits(t)'
      BY <1>1, <2>1 DEF Waits
    <3>5. QED
      BY <3>3, <3>4
  <2>2. CASE call[t].handler # h
    <3>1. call'[t] = call[t]
      BY <1>1, <2>2
    <3>2. Holds(t)'
      BY <1>2, <3>1 DEF PipeInv, Calls, Holds, PatienceFor
    <3>3. call[t].handler # NoHandler => call[t].handler \in Handler \ {h}
      BY <2>2 DEF PipeInv, Shape, Call
    <3>4. Waits(t)'
      BY <1>1, <3>1, <3>3 DEF PipeInv, Calls, Waits
    <3>5. QED
      BY <3>2, <3>4
  <2>3. QED
    BY <2>1, <2>2
<1>5. \A t \in Thread : call'[t].offense = call[t].offense /\ (call'[t] # NoCall <=> call[t] # NoCall)
  BY <1>1
<1>6. Calls'
  BY <1>4, <1>5 DEF PipeInv, Calls
<1>7. ASSUME NEW k \in Handler, k # h
      PROVE  Serves(k)' /\ Leased(k)'
  <2>1. run'[k] = run[k]
    BY <1>1, <1>7
  <2>2. Serves(k)'
    BY <2>1 DEF PipeInv, Starts, Serves
  <2>3. Leased(k)'
    BY <1>1, <1>2, <1>5, <1>7, <2>1 DEF PipeInv, Starts, Leased, Early
  <2>4. QED
    BY <2>2, <2>3
<1>8. Serves(h)' /\ Leased(h)'
  BY <1>1, <1>3 DEF Serves, Leased, Early
<1>9. \A k, j \in Handler : Early(k)' /\ Early(j)' /\ run'[k].offense = run'[j].offense => k = j
  BY <1>1, <1>3 DEF PipeInv, Starts, Early
<1>10. Starts'
  BY <1>7, <1>8, <1>9 DEF Starts
<1>11. \A k \in Handler : Past(k)' => k # h /\ Past(k) /\ run'[k] = run[k]
  BY <1>1, <1>3 DEF Past
<1>12. QED
  BY <1>6, <1>10, <1>11

\* Whose calls report "ok" after the answer.
LEMMA OkAfterReply ==
    ASSUME PipeInv, NEW h \in Handler, NEW a \in Answers, Reply(h, a),
           NEW t \in Thread, call'[t].answer = "ok"
    PROVE  \/ call[t].answer = "ok" /\ call'[t].offense = call[t].offense
           \/ a = "ok" /\ call'[t].offense = run[h].offense
<1>1. CASE call[t].handler = h
  <2>1. run[h].offense = call[t].offense
    BY <1>1, Bounds DEF PipeInv, Calls, Waits
  <2>2. QED
    BY <1>1, <2>1, ReplyShape DEF PipeInv
<1>2. CASE call[t].handler # h
  BY <1>2, ReplyShape DEF PipeInv
<1>3. QED
  BY <1>1, <1>2

\* A handler answers and leaves the offense's row as it is.
LEMMA QuietReply ==
    ASSUME PipeInv, NEW h \in Handler, NEW a \in Answers, Reply(h, a),
           UNCHANGED <<queue, status, since, overlapped>>,
           notes' \in [Offense -> Nat], faults' \in 0..MaxFaults,
           a = "ok" /\ run[h].offense \notin overlapped =>
                Settles(run[h].offense) /\ NobodyAt(run[h].offense)
    PROVE  PipeInv'
<1>1. Calls' /\ Starts' /\ \A k \in Handler : Past(k)' => k # h /\ Past(k) /\ run'[k] = run[k]
  BY ReplyKeeps
<1>2. Shape'
  BY ReplyShape DEF PipeInv, Shape
<1>3. \A o : NobodyAt(o) => NobodyAt(o)'
  BY <1>1 DEF NobodyAt
<1>4. Finished'
  BY <1>3, OkAfterReply DEF PipeInv, Finished, Settles
<1>5. Marks'
  BY <1>1 DEF PipeInv, Marks, Late, OneAnalysis, Past
<1>6. QED
  BY <1>1, <1>2, <1>4, <1>5 DEF PipeInv

\* A handler past its mark answers and changes the offense's row.
LEMMA LoudReply ==
    ASSUME PipeInv, NEW h \in Handler, Past(h), NEW a \in Answers, Reply(h, a),
           UNCHANGED <<queue, notes, overlapped>>,
           NEW s \in Statuses, status' = [status EXCEPT ![run[h].offense] = s],
           since' = since \/ since' = [since EXCEPT ![run[h].offense] = 0],
           faults' \in 0..MaxFaults,
           a = "ok" => s \in {"PROCESSED", "NO_EVENTS", "DAMAGED"}
    PROVE  PipeInv'
<1>0. PICK o \in Offense : o = run[h].offense
  BY DEF PipeInv, Starts, Serves, Past, NoRun
<1>1. Calls' /\ Starts' /\ \A k \in Handler : Past(k)' => k # h /\ Past(k) /\ run'[k] = run[k]
  BY ReplyKeeps
<1>3. Shape'
  BY <1>0, ReplyShape, Bounds DEF PipeInv, Shape
<1>4. \A p \in Offense \ {o} : status'[p] = status[p] /\ since'[p] = since[p]
  BY <1>0 DEF PipeInv, Shape
<1>5. \A k \in Handler : Past(k)' /\ run'[k].offense = o => o \in overlapped
  BY <1>0, <1>1 DEF PipeInv, Marks, OneAnalysis
<1>6. Marks'
  <2>1. OneAnalysis'
    BY <1>1 DEF PipeInv, Marks, OneAnalysis
  <2>2. ASSUME NEW k \in Handler, Late(k)', run'[k].offense \notin overlapped'
        PROVE  status'[run'[k].offense] = "PROCESSING" /\ since'[run'[k].offense] <= run'[k].age
    <3>1. Past(k)'
      BY <2>2 DEF Late, Past
    <3>2. run'[k] = run[k] /\ run[k].offense # o /\ run[k].offense \in Offense /\ Late(k)
      BY <1>1, <1>5, <2>2, <3>1 DEF PipeInv, Starts, Serves, Late, Past, NoRun
    <3>3. QED
      BY <1>4, <2>2, <3>2 DEF PipeInv, Marks
  <2>3. QED
    BY <2>1, <2>2 DEF Marks
<1>7. o \notin overlapped => NobodyAt(o)'
  BY <1>5 DEF NobodyAt
<1>8. \A p : NobodyAt(p) => NobodyAt(p)' /\ p # o
  BY <1>0, <1>1 DEF NobodyAt
<1>9. ASSUME NEW t \in Thread, call'[t].answer = "ok", call'[t].offense \notin overlapped'
      PROVE  Settles(call[t].offense)' /\ NobodyAt(call[t].offense)'
  <2>1. CASE call[t].answer = "ok" /\ call'[t].offense = call[t].offense
    <3>1. call[t].offense \in Offense /\ Settles(call[t].offense) /\ NobodyAt(call[t].offense)
      BY <1>9, <2>1 DEF PipeInv, Finished, Calls, Holds, Held, NoCall
    <3>2. QED
      BY <1>4, <1>8, <2>1, <3>1 DEF Settles
  <2>2. CASE a = "ok" /\ call'[t].offense = o
    BY <1>0, <1>7, <1>9, <2>2 DEF Settles, PipeInv, Shape
  <2>3. QED
    BY <1>0, <1>9, <2>1, <2>2, OkAfterReply
<1>10. \A p \in Offense \ overlapped : queue[p] # NoRow /\ queue[p].status = "DONE" =>
          Settles(p)' /\ NobodyAt(p)'
  BY <1>4, <1>8 DEF PipeInv, Finished, Settles
<1>11. Finished'
  BY <1>9, <1>10 DEF Finished
<1>12. QED
  BY <1>1, <1>3, <1>6, <1>11 DEF PipeInv

-----------------------------------------------------------------------------
(***************************************************************************)
(* Handlers that go on.                                                    *)
(***************************************************************************)
LEMMA MoveKeeps ==
    ASSUME PipeInv, NEW h \in Handler, run[h].at # "idle", UNCHANGED <<queue, call>>,
           run'[h].at # "idle", run'[h].offense = run[h].offense, run'[h].age = run[h].age,
           Early(h)' => Early(h), Serves(h)',
           \A k \in Handler \ {h} : run'[k] = run[k]
    PROVE  Calls' /\ Starts'
<1>1. \A o, age : Held(o, age) => Held(o, age)'
  BY DEF Held
<1>2. \A k \in Handler : /\ run'[k].offense = run[k].offense /\ run'[k].age = run[k].age
                         /\ (run[k] # NoRun => run'[k] # NoRun) /\ (Early(k)' => Early(k))
  BY DEF NoRun, Early
<1>3. ASSUME NEW t \in Thread
      PROVE  Holds(t)' /\ Waits(t)'
  <2>1. Holds(t)'
    BY <1>1 DEF PipeInv, Calls, Holds, PatienceFor
  <2>2. call[t].handler # NoHandler => call[t].handler \in Handler
    BY DEF PipeInv, Shape, Call
  <2>3. Waits(t)'
    BY <1>2, <2>2 DEF PipeInv, Calls, Waits
  <2>4. QED
    BY <2>1, <2>3
<1>4. Calls'
  BY <1>3 DEF PipeInv, Calls
<1>5. ASSUME NEW k \in Handler
      PROVE  Serves(k)' /\ Leased(k)'
  <2>1. Serves(k)'
    BY DEF PipeInv, Starts, Serves
  <2>2. Leased(k)'
    BY <1>1, <1>2 DEF PipeInv, Starts, Leased
  <2>3. QED
    BY <2>1, <2>2
<1>6. Starts'
  BY <1>2, <1>5 DEF PipeInv, Starts
<1>7. QED
  BY <1>4, <1>6

\* While a handler is before its mark the row is in progress, and nobody has an answer.
LEMMA NothingFinished ==
    ASSUME PipeInv, NEW h \in Handler, Early(h)
    PROVE  /\ run[h].offense \in Offense /\ queue[run[h].offense].status = "IN_PROGRESS"
           /\ \A t \in Thread : call[t].answer = "ok" => call[t].offense # run[h].offense
BY Bounds DEF PipeInv, Starts, Leased, Held, Calls, Waits, NoCall

\* What h finds: nothing against it only if nobody is past the mark, or somebody is and
\* h is licensed.
LEMMA EnterKeeps ==
    ASSUME PipeInv, NEW h \in Handler, run[h].at = "select", Enter(h),
           run[h].bypass \/ ~HeldBack(run[h].offense),
           UNCHANGED <<queue, status, since, notes, faults>>
    PROVE  PipeInv'
<1>0. PICK o \in Offense : o = run[h].offense
  BY NothingFinished DEF Early
<1>1. /\ run' \in [Handler -> Run] /\ run'[h].at = "insert" /\ run'[h].offense = o
      /\ run'[h].age = run[h].age /\ run'[h].fate = run[h].fate
      /\ \A k \in Handler \ {h} : run'[k] = run[k]
  BY <1>0, StepShape DEF Enter, PipeInv
<1>2. call' = call /\ overlapped \subseteq overlapped' /\ overlapped' \subseteq overlapped \cup {o}
  BY <1>0 DEF Enter
<1>3. Shape'
  BY <1>1, <1>2 DEF PipeInv, Shape
<1>4. Calls' /\ Starts'
  <2>1. Early(h) /\ Serves(h)'
    BY <1>0, <1>1 DEF Early, Serves
  <2>2. QED
    BY <1>0, <1>1, <1>2, <2>1, MoveKeeps
<1>5. ASSUME NEW k \in Handler, k # h, Past(k), run[k].offense = o
      PROVE  o \in overlapped'
  <2>1. CASE Licensed(h, k)
    BY <1>0, <1>5, <2>1 DEF Enter
  <2>2. CASE ~Licensed(h, k)
    <3>1. ~run[h].bypass /\ run[k].age < Stale /\ ~HeldBack(o)
      BY <1>0, <2>2, Bounds DEF Licensed, PipeInv, Shape, Run
    <3>2. Late(k)
      BY <1>0, <1>5 DEF PipeInv, Starts, Early, Late, Past
    <3>3. since[o] \in Nat /\ run[k].age \in Nat
      BY Bounds DEF PipeInv, Shape, Run
    <3>4. o \in overlapped
      BY <1>5, <3>1, <3>2, <3>3, Bounds DEF PipeInv, Marks, HeldBack
    <3>5. QED
      BY <1>2, <3>4
  <2>3. QED
    BY <2>1, <2>2
<1>6. Marks'
  <2>1. \A k \in Handler : Late(k)' => Late(k) /\ run'[k] = run[k]
    BY <1>1 DEF Late
  <2>2. \A k \in Handler : Past(k)' => k = h \/ (Past(k) /\ run'[k] = run[k])
    BY <1>1 DEF Past
  <2>3. OneAnalysis'
    BY <1>1, <1>2, <1>5, <2>2 DEF PipeInv, Marks, OneAnalysis
  <2>4. QED
    BY <1>2, <2>1, <2>3 DEF PipeInv, Marks
<1>7. Finished'
  <2>1. \A p : p # o /\ NobodyAt(p) => NobodyAt(p)'
    BY <1>1 DEF NobodyAt, Past
  <2>2. Early(h)
    BY DEF Early
  <2>3. queue[o].status = "IN_PROGRESS" /\ \A t \in Thread : call[t].answer = "ok" => call[t].offense # o
    BY <1>0, <2>2, NothingFinished
  <2>4. QED
    BY <1>2, <2>1, <2>3 DEF PipeInv, Finished, Settles
<1>8. QED
  BY <1>3, <1>4, <1>6, <1>7 DEF PipeInv

LEMMA TurnAwayKeeps ==
    ASSUME PipeInv, NEW h \in Handler, run[h].at = "select",
           \/ Analysed(run[h].offense) /\ TurnAway(h, "ok")
           \/ TurnAway(h, "busy"),
           UNCHANGED <<queue, status, since, notes, faults>>
    PROVE  PipeInv'
<1>1. PICK a \in Answers : Reply(h, a) /\ (a = "ok" => Analysed(run[h].offense))
  BY DEF TurnAway, Answers
<1>2. Analysed(run[h].offense) /\ run[h].offense \notin overlapped => NobodyAt(run[h].offense)
  BY DEF PipeInv, Marks, Starts, NobodyAt, Analysed, Past, Late, Early
<1>3. UNCHANGED <<queue, status, since, overlapped>> /\ notes' \in [Offense -> Nat] /\ faults' \in 0..MaxFaults
  BY DEF TurnAway, PipeInv, Shape
<1>4. QED
  BY <1>1, <1>2, <1>3, QuietReply DEF Analysed, Settles

LEMMA SelectKeeps ==
    ASSUME PipeInv, NEW h \in Handler, Select(h)
    PROVE  PipeInv'
BY EnterKeeps, TurnAwayKeeps DEF Select

\* The mark of h is the only one, or both are counted as overlapped.
LEMMA InsertKeeps ==
    ASSUME PipeInv, NEW h \in Handler, Insert(h)
    PROVE  PipeInv'
<1>0. PICK o \in Offense : o = run[h].offense
  BY NothingFinished DEF Early, Insert, Step
<1>1. /\ run' \in [Handler -> Run] /\ run'[h].at = "work" /\ run'[h].offense = o
      /\ run'[h].age = run[h].age /\ run'[h].fate = run[h].fate /\ run[h].at = "insert"
      /\ \A k \in Handler \ {h} : run'[k] = run[k]
  BY <1>0, StepShape DEF Insert, PipeInv
<1>2. UNCHANGED <<queue, call, notes, overlapped, faults>>
  BY DEF Insert
<1>3. /\ status'[o] = "PROCESSING" /\ since'[o] = 0
      /\ \A p \in Offense \ {o} : status'[p] = status[p] /\ since'[p] = since[p]
  BY <1>0 DEF Insert, PipeInv, Shape
<1>4. Shape'
  <2>1. status' \in [Offense -> Statuses]
    BY <1>0 DEF Insert, PipeInv, Shape, Statuses
  <2>2. since' \in [Offense -> 0..Stale]
    BY <1>0, Bounds DEF Insert, PipeInv, Shape
  <2>3. QED
    BY <1>1, <1>2, <2>1, <2>2 DEF PipeInv, Shape
<1>5. Calls' /\ Starts'
  <2>1. ~Early(h)' /\ Serves(h)'
    BY <1>0, <1>1 DEF Early, Serves
  <2>2. QED
    BY <1>0, <1>1, <1>2, <2>1, MoveKeeps
<1>6. \A k \in Handler : (Past(k)' <=> Past(k)) /\ run'[k].offense = run[k].offense
  BY <1>0, <1>1 DEF Past
<1>7. Marks'
  <2>1. OneAnalysis'
    BY <1>2, <1>6 DEF PipeInv, Marks, OneAnalysis
  <2>2. ASSUME NEW k \in Handler, Late(k)', run'[k].offense \notin overlapped'
        PROVE  status'[run'[k].offense] = "PROCESSING" /\ since'[run'[k].offense] <= run'[k].age
    <3>1. CASE k = h
      BY <1>1, <1>3, <3>1 DEF Run
    <3>2. CASE k # h
      <4>1. run'[k] = run[k] /\ Late(k) /\ Past(k) /\ Past(h)
        BY <1>1, <2>2, <3>2 DEF Late, Past
      <4>2. run[k].offense # o
        BY <1>0, <1>2, <2>2, <3>2, <4>1 DEF PipeInv, Marks, OneAnalysis
      <4>3. run[k].offense \in Offense
        BY <4>1 DEF PipeInv, Starts, Serves, Past, NoRun
      <4>4. QED
        BY <1>2, <1>3, <2>2, <4>1, <4>2, <4>3 DEF PipeInv, Marks
    <3>3. QED
      BY <3>1, <3>2
  <2>3. QED
    BY <2>1, <2>2 DEF Marks
<1>8. Finished'
  <2>1. \A p : NobodyAt(p) => NobodyAt(p)' /\ p # o
    BY <1>0, <1>1, <1>6 DEF NobodyAt, Past
  <2>2. \A t \in Thread : call[t].answer = "ok" => call[t].offense \in Offense
    BY DEF PipeInv, Calls, Holds, Held, NoCall
  <2>3. QED
    BY <1>2, <1>3, <2>1, <2>2 DEF PipeInv, Finished, Settles
<1>9. QED
  BY <1>4, <1>5, <1>7, <1>8 DEF PipeInv

\* Between mark and answer only the handler itself changes.
LEMMA ProgressKeeps ==
    ASSUME PipeInv, NEW h \in Handler, Conclude(h, run'[h].fate) \/ Note(h),
           run'[h].fate \in Fates
    PROVE  PipeInv'
<1>1. Late(h) /\ run[h] \in Run /\ run[h].offense \in Offense
  BY DEF Conclude, Note, Step, Late, PipeInv, Shape, Starts, Serves, NoRun
<1>2. /\ run' \in [Handler -> Run] /\ run'[h].at \in {"note", "record"}
      /\ run'[h].offense = run[h].offense /\ run'[h].age = run[h].age
      /\ \A k \in Handler \ {h} : run'[k] = run[k]
  <2>1. CASE Note(h)
    BY <2>1, StepShape DEF Note, PipeInv
  <2>2. CASE Conclude(h, run'[h].fate)
    <3>1. \A to \in {"note", "record"}, fate \in Fates :
            LET r == [run[h] EXCEPT !.at = to, !.fate = fate] IN
            r \in Run /\ r.at = to /\ r.offense = run[h].offense /\ r.age = run[h].age
      BY <1>1 DEF Run
    <3>2. PICK to \in {"note", "record"}, fate \in Fates :
            run' = [run EXCEPT ![h].at = to, ![h].fate = fate]
      BY <2>2 DEF Conclude
    <3>3. run' = [run EXCEPT ![h] = [run[h] EXCEPT !.at = to, !.fate = fate]]
      BY <1>1, <3>2 DEF PipeInv, Shape
    <3>4. QED
      BY <3>1, <3>3 DEF PipeInv, Shape
  <2>3. QED
    BY <2>1, <2>2
<1>3. UNCHANGED <<queue, status, since, call, overlapped>> /\ faults' \in 0..MaxFaults
  BY FaultType DEF Conclude, Note, PipeInv
<1>4. notes' \in [Offense -> Nat]
  BY Bounds DEF Conclude, Note, NotesAfter, Capped, PipeInv, Shape
<1>5. Shape'
  BY <1>2, <1>3, <1>4 DEF PipeInv, Shape
<1>6. Calls' /\ Starts'
  <2>1. ~Early(h)' /\ Serves(h)' /\ run[h].at # "idle"
    BY <1>1, <1>2 DEF Early, Serves, Late
  <2>2. QED
    BY <1>2, <1>3, <2>1, MoveKeeps
<1>7. \A k \in Handler : /\ (Past(k)' <=> Past(k)) /\ (Late(k)' <=> Late(k))
                         /\ run'[k].offense = run[k].offense /\ run'[k].age = run[k].age
  BY <1>1, <1>2 DEF Past, Late
<1>8. Marks'
  BY <1>3, <1>7 DEF PipeInv, Marks, OneAnalysis
<1>9. Finished'
  BY <1>3, <1>7 DEF PipeInv, Finished, Settles, NobodyAt
<1>10. QED
  BY <1>5, <1>6, <1>8, <1>9 DEF PipeInv

\* An exit of a handler, other than being turned away.
LEMMA ExitKeeps ==
    ASSUME PipeInv, NEW h \in Handler,
           \/ NotFound(h) \/ Unavailable(h) \/ Record(h)
           \/ HandlerDies(h, "5xx") \/ HandlerDies(h, "conn")
    PROVE  PipeInv'
<1>1. faults' \in 0..MaxFaults
  BY FaultType DEF NotFound, Unavailable, Record, HandlerDies, PipeInv
<1>2. CASE NotFound(h)
  <2>1. notes' \in [Offense -> Nat] /\ "4xx" \in Answers
    BY <1>2 DEF NotFound, PipeInv, Shape, Answers
  <2>2. QED
    BY <1>1, <1>2, <2>1, QuietReply DEF NotFound
<1>3. ASSUME NEW a \in {"5xx", "conn"}, HandlerDies(h, a)
      PROVE  PipeInv'
  <2>1. NotesAfter(h) \in [Offense -> Nat]
    <3>1. run[h].offense \in Offense
      BY <1>3 DEF HandlerDies, PipeInv, Starts, Serves, NoRun
    <3>2. Capped(notes[run[h].offense] + 1, MaxFaults + 2) \in Nat
      BY <3>1, Bounds DEF Capped, PipeInv, Shape
    <3>3. QED
      BY <3>1, <3>2 DEF NotesAfter, PipeInv, Shape
  <2>2. notes' \in [Offense -> Nat] /\ a \in Answers
    BY <1>3, <2>1 DEF HandlerDies, PipeInv, Shape, Answers
  <2>3. QED
    BY <1>1, <1>3, <2>2, QuietReply DEF HandlerDies
<1>4. CASE Unavailable(h)
  <2> DEFINE s == IF status[run[h].offense] = "PROCESSING" THEN "QRADAR_UNAVAILABLE"
                  ELSE status[run[h].offense]
  <2>1. Past(h) /\ "5xx" \in Answers
    BY <1>4 DEF Unavailable, Past, Answers
  <2>2. run[h].offense \in Offense
    BY <2>1 DEF PipeInv, Starts, Serves, Past, NoRun
  <2>3. s \in Statuses
    BY <2>2 DEF Statuses, PipeInv, Shape
  <2>4. status' = [status EXCEPT ![run[h].offense] = s]
    BY <1>4 DEF Unavailable
  <2>5. Reply(h, "5xx") /\ UNCHANGED <<queue, since, notes, overlapped>>
    BY <1>4 DEF Unavailable
  <2> HIDE DEF s
  <2>6. QED
    BY <1>1, <2>1, <2>3, <2>4, <2>5, LoudReply
<1>5. CASE Record(h)
  <2> DEFINE a == IF run[h].fate \in {"AQL_ERROR", "AI_ERROR"} THEN "error" ELSE "ok"
  <2>1. Past(h) /\ a \in Answers /\ run[h].fate \in Fates
    BY <1>5 DEF Record, Past, Answers, PipeInv, Starts, Serves
  <2>2. run[h].fate \in Statuses /\ (a = "ok" => run[h].fate \in {"PROCESSED", "NO_EVENTS", "DAMAGED"})
    BY <2>1 DEF Fates, Statuses
  <2>3. /\ Reply(h, a) /\ UNCHANGED <<queue, notes, overlapped>>
        /\ status' = [status EXCEPT ![run[h].offense] = run[h].fate]
        /\ since' = [since EXCEPT ![run[h].offense] = 0]
    BY <1>5 DEF Record
  <2> HIDE DEF a
  <2>4. QED
    BY <1>1, <2>1, <2>2, <2>3, LoudReply
<1>6. QED
  BY <1>2, <1>3, <1>4, <1>5

LEMMA HandlerKeeps ==
    ASSUME PipeInv, NEW h \in Handler, HandlerStep(h)
    PROVE  PipeInv'
<1>1. CASE Select(h) \/ Insert(h)
  BY <1>1, SelectKeeps, InsertKeeps
<1>2. CASE NotFound(h) \/ Unavailable(h) \/ Record(h)
  BY <1>2, ExitKeeps
<1>3. CASE Note(h)
  <2>1. run'[h].fate = run[h].fate
    BY <1>3, StepShape DEF Note, PipeInv
  <2>2. run[h].fate \in Fates
    BY <1>3 DEF Note, Step, PipeInv, Starts, Serves
  <2>3. QED
    BY <1>3, <2>1, <2>2, ProgressKeeps
<1>4. ASSUME NEW fate \in Fates, Conclude(h, fate)
      PROVE  PipeInv'
  <2>1. PICK to \in {"note", "record"} : run' = [run EXCEPT ![h].at = to, ![h].fate = fate]
    BY <1>4 DEF Conclude
  <2>2. run[h] \in Run /\ run'[h] = [run[h] EXCEPT !.at = to, !.fate = fate]
    BY <2>1 DEF PipeInv, Shape
  <2>3. run'[h].fate = fate
    BY <2>2 DEF Run
  <2>4. QED
    BY <1>4, <2>3, ProgressKeeps
<1>5. QED
  BY <1>1, <1>2, <1>3, <1>4 DEF HandlerStep

-----------------------------------------------------------------------------
(***************************************************************************)
(* Time: leases, requests and handlers grow older together.                *)
(***************************************************************************)
Aged(r) == [r EXCEPT !.age = @ + 1]

LEMMA AgedShape ==
    /\ \A c \in Call : /\ Aged(c) \in Call /\ Aged(c).offense = c.offense
                       /\ Aged(c).handler = c.handler /\ Aged(c).answer = c.answer
                       /\ Aged(c).age = c.age + 1
    /\ \A r \in Run : /\ Aged(r) \in Run /\ Aged(r).offense = r.offense /\ Aged(r).at = r.at
                      /\ Aged(r).fate = r.fate /\ Aged(r).age = r.age + 1
<1>1. \A c \in Call : c.age + 1 \in Nat
  BY DEF Call
<1>2. \A r \in Run : r.age + 1 \in Nat
  BY DEF Run
<1>3. \A c \in Call, n \in Nat : LET d == [c EXCEPT !.age = n] IN
        /\ d \in Call /\ d.offense = c.offense /\ d.handler = c.handler
        /\ d.answer = c.answer /\ d.age = n
  BY DEF Call
<1>4. \A r \in Run, n \in Nat : LET d == [r EXCEPT !.age = n] IN
        /\ d \in Run /\ d.offense = r.offense /\ d.at = r.at /\ d.fate = r.fate /\ d.age = n
  BY DEF Run
<1>5. QED
  BY <1>1, <1>2, <1>3, <1>4 DEF Aged

LEMMA TickKeeps == PipeInv /\ Tick => PipeInv'
<1> SUFFICES ASSUME PipeInv, Tick
             PROVE  PipeInv'
  OBVIOUS
<1>1. \A o \in Offense : queue'[o] \in Row \cup {NoRow}
                         /\ (queue'[o] = NoRow <=> queue[o] = NoRow)
                         /\ (queue[o] # NoRow => /\ queue'[o].status = queue[o].status
                                                 /\ queue'[o].lease_until >= queue[o].lease_until - 1
                                                 /\ queue[o].lease_until \in Int)
  <2>1. ASSUME NEW o \in Offense, queue[o] # NoRow
        PROVE  LET r == [queue[o] EXCEPT !.enqueued_at = Back(@), !.lease_until = Back(@)] IN
               /\ r \in Row /\ r.status = queue[o].status
               /\ r.lease_until >= queue[o].lease_until - 1 /\ queue[o].lease_until \in Int
    <3>1. queue[o] \in Row
      BY <2>1 DEF PipeInv, Shape, Table
    <3>2. \A n \in Nat : Back(n) \in Nat /\ Back(n) >= n - 1
      BY DEF Back
    <3>3. Back(NULL) = NULL
      BY DEF Back, NULL
    <3>4. /\ Back(queue[o].enqueued_at) \in Nat /\ Back(queue[o].lease_until) \in Nat \cup {NULL}
          /\ Back(queue[o].lease_until) >= queue[o].lease_until - 1 /\ queue[o].lease_until \in Int
      BY <3>1, <3>2, <3>3 DEF Row, NULL
    <3>5. QED
      BY <3>1, <3>4 DEF Row
  <2>2. QED
    BY <2>1, NoRowAssumption DEF Tick
<1>2. /\ \A t \in Thread : call[t] = NoCall => call'[t] = NoCall
      /\ \A t \in Thread : call[t] # NoCall =>
            /\ call[t].age < PatienceFor(call[t])
            /\ call'[t] \in Call /\ call'[t].offense = call[t].offense
            /\ call'[t].handler = call[t].handler /\ call'[t].answer = call[t].answer
            /\ call'[t].age = call[t].age + 1 /\ call[t].age \in Nat
  <2>1. \A t \in Thread : call[t] \in Call /\ call[t].age \in Nat
    BY DEF PipeInv, Shape, Call
  <2>2. \A t \in Thread :
          call'[t] = IF call[t] = NoCall THEN NoCall ELSE Aged(call[t])
    BY DEF Tick, Aged
  <2>3. \A t \in Thread : call[t] # NoCall => call[t].age < PatienceFor(call[t])
    BY DEF Tick
  <2>4. QED
    BY <2>1, <2>2, <2>3, AgedShape
<1>3. /\ \A h \in Handler : run[h] = NoRun => run'[h] = NoRun
      /\ \A h \in Handler : run[h] # NoRun =>
            /\ run[h].age < LifeAt(run[h].at)
            /\ run'[h] \in Run /\ run'[h].offense = run[h].offense
            /\ run'[h].at = run[h].at /\ run'[h].fate = run[h].fate
            /\ run'[h].age = run[h].age + 1 /\ run[h].age \in Nat
  <2>1. \A h \in Handler : run[h] \in Run /\ run[h].age \in Nat
    BY DEF PipeInv, Shape, Run
  <2>2. \A h \in Handler :
          run'[h] = IF run[h] = NoRun THEN NoRun ELSE Aged(run[h])
    BY DEF Tick, Aged
  <2>3. \A h \in Handler : run[h] # NoRun => run[h].age < LifeAt(run[h].at)
    BY DEF Tick
  <2>4. QED
    BY <2>1, <2>2, <2>3, AgedShape
<1>4. /\ \A o \in Offense : since'[o] \in 0..Stale
      /\ \A o \in Offense : status[o] = "PROCESSING" => since'[o] <= since[o] + 1
  <2>1. \A o \in Offense : since[o] \in Nat /\ since[o] <= Stale
    BY Bounds DEF PipeInv, Shape
  <2>2. \A o \in Offense : since'[o] = IF status[o] = "PROCESSING" THEN Capped(since[o] + 1, Stale) ELSE 0
    BY DEF Tick
  <2>3. \A n \in Nat : Capped(n, Stale) \in 0..Stale /\ Capped(n, Stale) <= n
    BY Bounds DEF Capped
  <2>4. 0 \in 0..Stale
    BY Bounds
  <2>5. QED
    BY <2>1, <2>2, <2>3, <2>4
<1>5. UNCHANGED <<status, notes, overlapped, faults>>
  BY DEF Tick
<1>6. Shape'
  <2>1. queue' \in Table /\ since' \in [Offense -> 0..Stale]
    BY <1>1, <1>4 DEF Tick, Table
  <2>2. call' \in [Thread -> Call]
    BY <1>2, NoCallType DEF Tick
  <2>3. run' \in [Handler -> Run]
    BY <1>3, NoCallType DEF Tick
  <2>4. QED
    BY <1>5, <2>1, <2>2, <2>3 DEF PipeInv, Shape
<1>7. ASSUME NEW o, NEW age \in Nat, Held(o, age)
      PROVE  /\ o \in Offense /\ queue'[o] # NoRow /\ queue'[o].status = "IN_PROGRESS"
             /\ queue'[o].lease_until >= Now + Lease - (age + 1)
  <2>1. queue'[o] \in Row
    BY <1>1, <1>7 DEF Held
  <2>2. queue'[o].lease_until \in Int
    BY <2>1 DEF Row, NULL
  <2>3. QED
    BY <1>1, <1>7, <2>2, Bounds DEF Held, Now
<1>8. NoCall.handler = NoHandler /\ NoCall.age = 0 /\ NoRun.at = "idle"
  BY DEF NoCall, NoRun
<1>9. \A t \in Thread : call[t] # NoCall => call'[t] # NoCall
  BY <1>2, <1>8
<1>10. \A h \in Handler : /\ run'[h].at = run[h].at /\ run'[h].offense = run[h].offense
                          /\ run'[h].fate = run[h].fate
                          /\ (run[h].at # "idle" => run[h] # NoRun)
                          /\ (run[h] # NoRun => run[h].at # "idle" /\ run'[h] # NoRun)
  BY <1>3, <1>8 DEF PipeInv, Starts, Serves
<1>11. Calls'
  <2>1. ASSUME NEW t \in Thread, call[t] # NoCall
        PROVE  Holds(t)' /\ Waits(t)'
    <3>1. Held(call[t].offense, call[t].age) /\ call[t].age \in Nat
      BY <1>2, <2>1 DEF PipeInv, Calls, Holds
    <3>2. Held(call[t].offense, call[t].age)'
      BY <1>2, <1>7, <2>1, <3>1 DEF Held
    <3>3. PatienceFor(call[t]) \in Nat /\ PatienceFor(call'[t]) = PatienceFor(call[t])
      BY <1>2, <2>1, Bounds DEF PatienceFor
    <3>4. Holds(t)'
      BY <1>2, <2>1, <3>2, <3>3 DEF PipeInv, Calls, Holds
    <3>5. call[t].handler # NoHandler => call[t].handler \in Handler
      BY DEF PipeInv, Shape, Call
    <3>6. Waits(t)'
      BY <1>2, <1>3, <1>10, <2>1, <3>5 DEF PipeInv, Calls, Waits
    <3>7. QED
      BY <3>4, <3>6
  <2>2. ASSUME NEW t \in Thread, call[t] = NoCall
        PROVE  Holds(t)' /\ Waits(t)'
    BY <1>2, <1>8, <2>2 DEF Holds, Waits
  <2>3. QED
    BY <1>2, <1>9, <2>1, <2>2 DEF PipeInv, Calls
<1>12. Starts'
  <2>1. ASSUME NEW h \in Handler
        PROVE  Serves(h)' /\ Leased(h)'
    <3>1. Serves(h)'
      BY <1>3, <1>10 DEF PipeInv, Starts, Serves
    <3>2. ASSUME Early(h)'
          PROVE  Leased(h)'
      <4>1. Early(h) /\ run[h] # NoRun
        BY <1>10, <3>2 DEF Early
      <4>2. run'[h].age <= LockWait
        BY <1>3, <4>1, Bounds DEF LifeAt, Early
      <4>3. Held(run[h].offense, run[h].age) /\ run[h].age \in Nat
        BY <1>3, <4>1 DEF PipeInv, Starts, Leased
      <4>4. Held(run[h].offense, run[h].age)'
        BY <1>3, <1>7, <4>1, <4>3 DEF Held
      <4>5. \A t \in Thread : call'[t] # NoCall /\ call'[t].offense = run'[h].offense => call'[t].handler = h
        BY <1>2, <1>10, <4>1 DEF PipeInv, Starts, Leased
      <4>6. QED
        BY <4>2, <4>4, <4>5 DEF Leased
    <3>3. QED
      BY <3>1, <3>2 DEF Leased
  <2>2. \A h, k \in Handler : Early(h)' /\ Early(k)' /\ run'[h].offense = run'[k].offense => h = k
    BY <1>10 DEF PipeInv, Starts, Early
  <2>3. QED
    BY <2>1, <2>2 DEF Starts
<1>13. Marks'
  <2>1. OneAnalysis'
    BY <1>5, <1>10 DEF PipeInv, Marks, OneAnalysis, Past
  <2>2. ASSUME NEW h \in Handler, Late(h)', run'[h].offense \notin overlapped'
        PROVE  status'[run'[h].offense] = "PROCESSING" /\ since'[run'[h].offense] <= run'[h].age
    <3>1. Late(h) /\ run[h] # NoRun /\ run[h].offense \in Offense
      BY <1>10, <2>2 DEF Late, PipeInv, Starts, Serves
    <3>2. status[run[h].offense] = "PROCESSING" /\ since[run[h].offense] <= run[h].age
      BY <1>5, <1>10, <2>2, <3>1 DEF PipeInv, Marks
    <3>3. since[run[h].offense] \in Nat /\ since'[run[h].offense] \in Nat
      BY <1>4, <3>1, Bounds DEF PipeInv, Shape
    <3>4. QED
      BY <1>3, <1>4, <1>5, <3>1, <3>2, <3>3
  <2>3. QED
    BY <2>1, <2>2 DEF Marks
<1>14. Finished'
  BY <1>1, <1>2, <1>5, <1>10 DEF PipeInv, Finished, Settles, NobodyAt, Past
<1>15. QED
  BY <1>6, <1>11, <1>12, <1>13, <1>14 DEF PipeInv

-----------------------------------------------------------------------------
LEMMA PipeInvInit == Init => PipeInv
<1> SUFFICES ASSUME Init
             PROVE  PipeInv
  OBVIOUS
<1>1. NoCall.handler = NoHandler /\ NoCall.answer = "none" /\ NoRun.at = "idle"
  BY DEF NoCall, NoRun
<1>2. Shape
  BY NoCallType, Bounds DEF Init, Shape, Table, Statuses
<1>3. Calls /\ Starts
  BY <1>1 DEF Init, Calls, Holds, Waits, Starts, Serves, Leased, Early
<1>4. Marks /\ Finished
  BY <1>1 DEF Init, Marks, Finished, OneAnalysis, Past, Late
<1>5. QED
  BY <1>2, <1>3, <1>4 DEF PipeInv

LEMMA PipeInvStep == PipeInv /\ [Next]_vars => PipeInv'
<1> SUFFICES ASSUME PipeInv, [Next]_vars
             PROVE  PipeInv'
  OBVIOUS
<1>1. CASE UNCHANGED vars
  BY <1>1, NewQueueKeeps DEF vars, PipeInv, Shape
<1>2. ASSUME NEW t \in Thread, WorkerStep(t)
      PROVE  PipeInv'
  BY <1>2, PostKeeps, PostFailsKeeps, DropKeeps, SettleKeeps DEF WorkerStep
<1>3. QED
  BY <1>1, <1>2, RequestKeeps, DropKeeps, HandlerKeeps, ExitKeeps, TickKeeps DEF Next

LEMMA PipeInvAlways == Spec => []PipeInv
BY PipeInvInit, PipeInvStep, PTL DEF Spec

\* Queue, calls, handlers and rows are what they should be, and each thread waits for a
\* handler that serves its own offense.
THEOREM PipeTypeCorrect == Spec => []TypeOK
<1>1. PipeInv => TypeOK
  BY DEF PipeInv, Shape, Calls, Waits, TypeOK, Table
<1>2. QED
  BY <1>1, PipeInvAlways, PTL

\* The lease and PROCESSING, checked in two transactions by any number of processes, keep
\* a second analysis out until one of the two known exceptions lets it in.
THEOREM OneAnalysisCorrect == Spec => []OneAnalysis
<1>1. PipeInv => OneAnalysis
  BY DEF PipeInv, Marks
<1>2. QED
  BY <1>1, PipeInvAlways, PTL

\* What the queue calls done has a result in offenses, whatever was lost on the way.
THEOREM DoneCorrect == Spec => []DoneMeansAnalysed
<1>1. PipeInv => DoneMeansAnalysed
  BY DEF PipeInv, Finished, Settles, DoneMeansAnalysed
<1>2. QED
  BY <1>1, PipeInvAlways, PTL


-----------------------------------------------------------------------------
(***************************************************************************)
(* Verdict notes.  As long as nothing fails, what keeps an automatic run   *)
(* from writing a second note of a verdict is one of three things: the     *)
(* recorded verdict; the handler that wrote the note and has not recorded  *)
(* it yet; or, after an analyst or a re-triage has overwritten the         *)
(* verdict, a row that will not make an automatic run again.               *)
(***************************************************************************)
Bypasses(r) == IsManual(r) \/ r.force

\* A handler that has not written its mark goes by what the row still says.
Follows(h) == Early(h) => run[h].bypass = Bypasses(queue[run[h].offense])

Verdict(o) ==
    /\ status[o] = "PROCESSED"
    /\ \A h \in Handler : run[h].at = "insert" /\ run[h].offense = o => run[h].bypass

Writing(o) ==
    \E h \in Handler : run[h].at = "record" /\ run[h].offense = o /\ run[h].fate = "PROCESSED"

SetAside(r) ==
    /\ r # NoRow
    /\ r.status = "DONE" \/ (r.status \in {"QUEUED", "IN_PROGRESS"} /\ Bypasses(r))

Failures == {"error", "4xx", "5xx"}

Reserved(o) ==
    /\ SetAside(queue[o])
    /\ \A h \in Handler : run[h].offense = o =>
        /\ run[h].bypass
        /\ run[h].at \in {"note", "record"} => run[h].fate \notin {"AQL_ERROR", "AI_ERROR"}
    /\ \A t \in Thread : call[t].offense = o => call[t].answer \notin Failures

Rests(o) == Verdict(o) \/ Writing(o) \/ Reserved(o)

Accounted(o) == notes[o] <= faults \/ (notes[o] <= 1 + faults /\ Rests(o))

NotesInv == (\A h \in Handler : Follows(h)) /\ \A o \in Offense \ overlapped : Accounted(o)

\* A step that writes no note: a failure accounts for one more, otherwise the rest goes on.
LEMMA Unnoted ==
    ASSUME PipeInv, NotesInv, PipeInv', notes' = notes, overlapped \subseteq overlapped',
           \A h \in Handler : Follows(h)',
           \/ Fault
           \/ faults' = faults /\ \A o \in Offense \ overlapped' : Rests(o) => Rests(o)'
    PROVE  NotesInv'
<1>1. faults \in Nat /\ \A o \in Offense : notes[o] \in Nat
  BY Bounds DEF PipeInv, Shape
<1>2. CASE Fault
  <2>1. faults' = faults + 1
    BY <1>2 DEF Fault
  <2>2. ASSUME NEW o \in Offense \ overlapped'
        PROVE  notes'[o] <= faults'
    <3>1. notes[o] <= 1 + faults
      BY <1>1, <2>2 DEF NotesInv, Accounted
    <3>2. QED
      BY <1>1, <2>1, <3>1
  <2>3. QED
    BY <2>2 DEF NotesInv, Accounted
<1>3. CASE faults' = faults /\ \A o \in Offense \ overlapped' : Rests(o) => Rests(o)'
  BY <1>3 DEF NotesInv, Accounted
<1>4. QED
  BY <1>2, <1>3

\* The rest of an offense that the step is not about.
LEMMA OthersRest ==
    ASSUME NEW p \in Offense, Rests(p), status'[p] = status[p],
           SetAside(queue[p]) => SetAside(queue'[p]),
           \A k \in Handler : run'[k] = run[k] \/ (run[k].offense # p /\ run'[k].offense # p),
           \A t \in Thread : \/ call'[t] = call[t]
                             \/ call'[t].offense # p
                             \/ call'[t].answer \notin Failures
    PROVE  Rests(p)'
<1>1. CASE Verdict(p)
  <2>1. Verdict(p)'
    BY <1>1 DEF Verdict
  <2>2. QED
    BY <2>1 DEF Rests
<1>2. CASE Writing(p)
  <2>1. Writing(p)'
    BY <1>2 DEF Writing
  <2>2. QED
    BY <2>1 DEF Rests
<1>3. CASE Reserved(p)
  <2>1. Reserved(p)'
    BY <1>3 DEF Reserved
  <2>2. QED
    BY <2>1 DEF Rests
<1>4. QED
  BY <1>1, <1>2, <1>3 DEF Rests

\* Nobody but an analyst and a re-triage takes a finished row up again.
LEMMA EnqueueSetsAside ==
    ASSUME PipeInv, NEW o \in Offense, NEW m \in Magnitude, NEW src \in Source,
           NEW force \in BOOLEAN, NEW forced \in BOOLEAN,
           forced => src = "manual" \/ force \/ (queue[o] # NoRow /\ queue[o].status = "ERROR"),
           NEW p \in Offense, SetAside(queue[p])
    PROVE  SetAside(Enqueue(queue, o, m, src, force, forced, Now)[p])
<1> DEFINE outcome == EnqueueOutcome(queue, o, m, forced)
           next == Enqueue(queue, o, m, src, force, forced, Now)
<1>1. queue \in Table
  BY DEF PipeInv, Shape
<1>2. CASE p # o \/ outcome = "skipped"
  <2>1. next[p] = queue[p]
    BY <1>1, <1>2 DEF Enqueue, Table
  <2>2. QED
    BY <2>1
<1>3. CASE p = o /\ outcome = "refreshed"
  <2>1. queue[o] \in Row
    BY <1>1, <1>3 DEF SetAside, Table
  <2>2. next[o] = [queue[o] EXCEPT !.magnitude = m]
    BY <1>1, <1>3 DEF Enqueue, Table
  <2>3. next[o] \in Row /\ next[o].status = queue[o].status
        /\ next[o].source = queue[o].source /\ next[o].force = queue[o].force
    <3>1. \A r \in Row : LET n == [r EXCEPT !.magnitude = m] IN
            n \in Row /\ n.status = r.status /\ n.source = r.source /\ n.force = r.force
      BY DEF Row
    <3>2. QED
      BY <2>1, <2>2, <3>1
  <2>4. QED
    BY <1>3, <2>3, NoRowAssumption DEF SetAside, Bypasses, IsManual
<1>4. CASE p = o /\ outcome \in {"inserted", "requeued"}
  <2>1. next[o] = NewRow(m, src, force, Now)
    BY <1>1, <1>4 DEF Enqueue, Table
  <2>2. queue[o] # NoRow /\ forced /\ queue[o].status # "ERROR"
    BY <1>4 DEF EnqueueOutcome, SetAside
  <2>3. src = "manual" \/ force
    BY <2>2
  <2>4. NewRow(m, src, force, Now) \in Row
    BY DEF NewRow, Row, Status, NULL, Now
  <2>5. SetAside(NewRow(m, src, force, Now))
    BY <2>3, <2>4, NoRowAssumption DEF SetAside, Bypasses, IsManual, NewRow
  <2>6. QED
    BY <1>4, <2>1, <2>5
<1>5. outcome \in {"inserted", "requeued", "refreshed", "skipped"}
  BY DEF EnqueueOutcome
<1>6. QED
  BY <1>2, <1>3, <1>4, <1>5

LEMMA RequestAccounts ==
    ASSUME PipeInv, NotesInv, PipeInv', NEW o \in Offense, NEW m \in Magnitude,
           Discover(o, m) \/ RetryError(o, m) \/ Retriage(o, m) \/ Ask(o, m)
    PROVE  NotesInv'
<1>1. PICK src \in Source, force \in BOOLEAN, forced \in BOOLEAN :
        /\ Request(o, m, src, force, forced)
        /\ forced => src = "manual" \/ force \/ (queue[o] # NoRow /\ queue[o].status = "ERROR")
  BY DEF Discover, RetryError, Retriage, Ask, Source
<1>2. queue' = Enqueue(queue, o, m, src, force, forced, Now) /\ queue \in Table
  BY <1>1 DEF Request, PipeInv, Shape
<1>3. UNCHANGED <<status, call, run, notes, overlapped, faults>>
  BY <1>1 DEF Request, service
<1>4. \A p \in Offense : queue[p] # NoRow /\ queue[p].status = "IN_PROGRESS" => queue'[p] = queue[p]
  BY <1>2, RowAfterEnqueue
<1>5. \A h \in Handler : Follows(h)'
  BY <1>3, <1>4 DEF PipeInv, Starts, Leased, Held, NotesInv, Follows, Early
<1>6. \A p \in Offense : SetAside(queue[p]) => SetAside(queue'[p])
  BY <1>1, <1>2, EnqueueSetsAside
<1>7. \A p \in Offense : Rests(p) => Rests(p)'
  BY <1>3, <1>6, OthersRest
<1>8. QED
  BY <1>3, <1>5, <1>7, Unnoted

\* A claim leaves the source and the override of the row as they are.
LEMMA TakenBypasses ==
    ASSUME PipeInv, NEW o \in Offense, queue[o] # NoRow
    PROVE  Bypasses(Taken(o)[o]) = Bypasses(queue[o])
<1>1. queue[o] \in Row
  BY DEF PipeInv, Shape, Table
<1>2. \A r \in Row : \A until, n :
        LET c == ClaimRow(r, until)
            d == [c EXCEPT !.attempts = n]
        IN d.source = r.source /\ d.force = r.force
  BY DEF Row, ClaimRow
<1>3. Taken(o)[o] = LET r == ClaimRow(queue[o], Now + Lease) IN
                    [r EXCEPT !.attempts = Capped(r.attempts, MaxAttempts)]
  BY DEF Taken, PipeInv, Shape, Table
<1>4. Taken(o)[o].source = queue[o].source /\ Taken(o)[o].force = queue[o].force
  BY <1>1, <1>2, <1>3
<1>5. QED
  BY <1>4 DEF Bypasses, IsManual

LEMMA TakenSetsAside ==
    ASSUME PipeInv, NEW o \in Offense, IsNextClaim(queue, Now, o)
    PROVE  /\ SetAside(queue[o]) => SetAside(Taken(o)[o]) /\ Bypasses(queue[o])
           /\ \A p \in Offense \ {o} : Taken(o)[p] = queue[p]
<1>1. queue[o] # NoRow /\ queue[o].status # "DONE"
  BY NobodyHolds
<1>2. /\ Taken(o)[o].status = "IN_PROGRESS" /\ Taken(o)[o] # NoRow
      /\ \A p \in Offense \ {o} : Taken(o)[p] = queue[p]
  BY <1>1, TakenRow DEF PipeInv
<1>3. QED
  BY <1>1, <1>2, TakenBypasses DEF SetAside

LEMMA PostAccounts ==
    ASSUME PipeInv, NotesInv, PipeInv', NEW t \in Thread, NEW o \in Offense, NEW h \in Handler,
           Post(t, o, h)
    PROVE  NotesInv'
<1>1. /\ queue[o] # NoRow /\ \A k \in Handler : Early(k) => run[k].offense # o
  BY NobodyHolds DEF Post
<1>2. /\ SetAside(queue[o]) => SetAside(queue'[o]) /\ Bypasses(queue[o])
      /\ \A p \in Offense \ {o} : queue'[p] = queue[p]
      /\ Bypasses(queue'[o]) = Bypasses(queue[o])
  BY <1>1, TakenSetsAside, TakenBypasses DEF Post
<1>3. /\ run[h] = NoRun /\ run'[h].at = "select" /\ run'[h].offense = o
      /\ run'[h].bypass = Bypasses(queue[o])
      /\ \A k \in Handler \ {h} : run'[k] = run[k]
  BY DEF Post, NoRun, PipeInv, Shape, Bypasses
<1>4. call'[t].offense = o /\ call'[t].answer = "none" /\ \A u \in Thread \ {t} : call'[u] = call[u]
  BY DEF Post, NoCall, PipeInv, Shape
<1>5. UNCHANGED <<status, notes, overlapped, faults>>
  BY DEF Post
<1>6. ASSUME NEW k \in Handler
      PROVE  Follows(k)'
  <2>1. CASE k = h
    BY <1>2, <1>3, <2>1 DEF Follows
  <2>2. CASE k # h /\ Early(k)
    <3>1. run[k].offense \in Offense \ {o} /\ run'[k] = run[k]
      BY <1>1, <1>3, <2>2 DEF PipeInv, Starts, Leased, Held
    <3>2. QED
      BY <1>2, <2>2, <3>1 DEF NotesInv, Follows
  <2>3. CASE k # h /\ ~Early(k)
    BY <1>3, <2>3 DEF Follows, Early
  <2>4. QED
    BY <2>1, <2>2, <2>3
<1>7. ASSUME NEW p \in Offense \ {o}, Rests(p)
      PROVE  Rests(p)'
  <2>1. run[h].offense # p /\ run'[h].offense # p /\ call'[t].offense # p
    BY <1>3, <1>4, Bounds DEF NoRun
  <2>2. QED
    BY <1>2, <1>3, <1>4, <1>5, <1>7, <2>1, OthersRest
<1>8. ASSUME Rests(o)
      PROVE  Rests(o)'
  <2>1. CASE Verdict(o)
    <3>1. Verdict(o)'
      BY <1>3, <1>5, <2>1 DEF Verdict
    <3>2. QED
      BY <3>1 DEF Rests
  <2>2. CASE Writing(o)
    <3>1. PICK k \in Handler : run[k].at = "record" /\ run[k].offense = o /\ run[k].fate = "PROCESSED"
      BY <2>2 DEF Writing
    <3>2. run'[k] = run[k]
      BY <1>3, <3>1 DEF NoRun
    <3>3. QED
      BY <3>1, <3>2 DEF Writing, Rests
  <2>3. CASE Reserved(o)
    <3>1. SetAside(queue'[o]) /\ Bypasses(queue[o])
      BY <1>2, <2>3 DEF Reserved
    <3>2. ASSUME NEW k \in Handler, run'[k].offense = o
          PROVE  /\ run'[k].bypass
                 /\ run'[k].at \in {"note", "record"} => run'[k].fate \notin {"AQL_ERROR", "AI_ERROR"}
      <4>1. CASE k = h
        BY <1>3, <3>1, <4>1
      <4>2. CASE k # h
        BY <1>3, <2>3, <3>2, <4>2 DEF Reserved
      <4>3. QED
        BY <4>1, <4>2
    <3>3. \A u \in Thread : call'[u].offense = o => call'[u].answer \notin Failures
      BY <1>4, <2>3 DEF Reserved, Failures
    <3>4. Reserved(o)'
      BY <3>1, <3>2, <3>3 DEF Reserved
    <3>5. QED
      BY <3>4 DEF Rests
  <2>4. QED
    BY <1>8, <2>1, <2>2, <2>3 DEF Rests
<1>9. QED
  BY <1>5, <1>6, <1>7, <1>8, Unnoted

LEMMA PostFailsAccounts ==
    ASSUME PipeInv, NotesInv, PipeInv', NEW t \in Thread, NEW o \in Offense, PostFails(t, o)
    PROVE  NotesInv'
<1>1. \A k \in Handler : Early(k) => run[k].offense # o
  BY NobodyHolds DEF PostFails
<1>2. \A p \in Offense \ {o} : queue'[p] = queue[p]
  BY TakenSetsAside DEF PostFails
<1>3. UNCHANGED <<run, notes, overlapped>> /\ Fault
  BY DEF PostFails, service
<1>4. \A k \in Handler : Follows(k)'
  BY <1>1, <1>2, <1>3 DEF PipeInv, Starts, Leased, Held, NotesInv, Follows, Early
<1>5. QED
  BY <1>3, <1>4, Unnoted

LEMMA DropAccounts ==
    ASSUME PipeInv, NotesInv, PipeInv', WorkerDies \/ \E t \in Thread : GiveUp(t)
    PROVE  NotesInv'
<1>1. UNCHANGED <<queue, status, run, notes, overlapped>>
  BY DEF WorkerDies, GiveUp, service
<1>2. \A k \in Handler : Follows(k)'
  BY <1>1 DEF NotesInv, Follows, Early
<1>3. CASE WorkerDies
  BY <1>1, <1>2, <1>3, Unnoted DEF WorkerDies
<1>4. ASSUME NEW t \in Thread, GiveUp(t)
      PROVE  NotesInv'
  <2>1. \A u \in Thread : call'[u] = call[u] \/ call'[u].answer \notin Failures
    BY <1>4 DEF GiveUp, NoCall, Failures, PipeInv, Shape
  <2>2. \A p \in Offense : Rests(p) => Rests(p)'
    BY <1>1, <2>1, OthersRest
  <2>3. faults' = faults
    BY <1>4 DEF GiveUp
  <2>4. QED
    BY <1>1, <1>2, <2>2, <2>3, Unnoted
<1>5. QED
  BY <1>3, <1>4

LEMMA SettleAccounts ==
    ASSUME PipeInv, NotesInv, PipeInv', NEW t \in Thread, Settle(t)
    PROVE  NotesInv'
<1>1. call[t] # NoCall /\ call[t].answer # "none" /\ call[t].handler = NoHandler
  BY DEF Settle, NoCall, PipeInv, Calls, Waits
<1>2. PICK o \in Offense : o = call[t].offense /\ queue[o] # NoRow /\ queue[o] \in Row
  BY <1>1 DEF PipeInv, Calls, Holds, Held, Shape, Table
<1> DEFINE end == SettledAs(call[t].answer, call[t].attempts)
<1>3. \A k \in Handler : Early(k) => run[k].offense # o
  BY <1>1, <1>2, Bounds DEF PipeInv, Starts, Leased
<1>4. UNCHANGED <<status, run, notes, overlapped, faults>>
  BY DEF Settle, service
<1>5. \A u \in Thread : call'[u] = call[u] \/ call'[u].answer \notin Failures
  BY DEF Settle, NoCall, Failures, PipeInv, Shape
<1>6. \A p \in Offense \ {o} : queue'[p] = queue[p]
  <2>1. CASE end = "IN_PROGRESS"
    BY <1>2, <2>1 DEF Settle
  <2>2. CASE end # "IN_PROGRESS"
    BY <1>2, <2>2 DEF Settle, Mark, PipeInv, Shape, Table
  <2>3. QED
    BY <2>1, <2>2
<1>7. \A k \in Handler : Follows(k)'
  BY <1>3, <1>4, <1>6 DEF PipeInv, Starts, Leased, Held, NotesInv, Follows, Early
<1>8. ASSUME SetAside(queue[o]), call[t].answer \notin Failures
      PROVE  SetAside(queue'[o])
  <2>1. call[t].answer \in Answers
    BY <1>1 DEF PipeInv, Shape, Call
  <2>2. end \in {"DONE", "IN_PROGRESS"}
    BY <1>8, <2>1 DEF SettledAs, Failures, Answers
  <2>3. CASE end = "IN_PROGRESS"
    BY <1>8, <2>3 DEF Settle
  <2>4. CASE end = "DONE"
    <3>1. queue' = [queue EXCEPT ![o] = [queue[o] EXCEPT !.status = "DONE", !.lease_until = NULL]]
      BY <1>2, <2>4 DEF Settle, Mark
    <3>2. queue'[o] = [queue[o] EXCEPT !.status = "DONE", !.lease_until = NULL]
      BY <1>2, <3>1 DEF PipeInv, Shape, Table
    <3>3. queue'[o] \in Row /\ queue'[o].status = "DONE"
      BY <1>2, <3>2 DEF Row, Status, NULL
    <3>4. QED
      BY <3>3, NoRowAssumption DEF SetAside
  <2>5. QED
    BY <2>2, <2>3, <2>4
<1>9. ASSUME NEW p \in Offense \ {o}, Rests(p)
      PROVE  Rests(p)'
  BY <1>4, <1>5, <1>6, <1>9, OthersRest
<1>10. ASSUME Rests(o)
       PROVE  Rests(o)'
  <2>1. CASE Verdict(o)
    BY <1>4, <2>1 DEF Rests, Verdict
  <2>2. CASE Writing(o)
    BY <1>4, <2>2 DEF Rests, Writing
  <2>3. CASE Reserved(o)
    <3>1. SetAside(queue'[o])
      BY <1>2, <1>8, <2>3 DEF Reserved
    <3>2. \A u \in Thread : call'[u].offense = o => call'[u].answer \notin Failures
      BY <1>5, <2>3 DEF Reserved
    <3>3. Reserved(o)'
      BY <1>4, <2>3, <3>1, <3>2 DEF Reserved
    <3>4. QED
      BY <3>3 DEF Rests
  <2>4. QED
    BY <1>10, <2>1, <2>2, <2>3 DEF Rests
<1>11. QED
  BY <1>4, <1>7, <1>9, <1>10, Unnoted

\* A handler that has answered is gone, and only the threads that waited for it have changed.
LEMMA ReplyLeaves ==
    ASSUME PipeInv, NEW h \in Handler, run[h] # NoRun, NEW a \in Answers, Reply(h, a)
    PROVE  /\ run[h].offense \in Offense /\ run'[h] = NoRun
           /\ \A k \in Handler \ {h} : run'[k] = run[k]
           /\ \A p \in Offense : run'[h].offense # p
           /\ \A t \in Thread : \/ call'[t] = call[t]
                                \/ call'[t].offense = run[h].offense /\ call'[t].answer = a
<1>1. /\ run'[h] = NoRun /\ \A k \in Handler \ {h} : run'[k] = run[k]
      /\ \A t \in Thread : call[t].handler # h => call'[t] = call[t]
      /\ \A t \in Thread : call[t].handler = h =>
            call'[t].offense = call[t].offense /\ call'[t].answer = a
  BY ReplyShape DEF PipeInv
<1>2. \A t \in Thread : call[t].handler = h => run[h].offense = call[t].offense
  BY Bounds DEF PipeInv, Calls, Waits
<1>3. run[h].offense \in Offense
  BY DEF PipeInv, Starts, Serves
<1>4. QED
  BY <1>1, <1>2, <1>3, Bounds DEF NoRun

LEMMA ReplyFollows ==
    ASSUME PipeInv, NotesInv, NEW h \in Handler, run[h] # NoRun, NEW a \in Answers, Reply(h, a),
           UNCHANGED queue
    PROVE  \A k \in Handler : Follows(k)'
<1>1. run'[h] = NoRun /\ \A k \in Handler \ {h} : run'[k] = run[k]
  BY ReplyLeaves
<1>2. QED
  BY <1>1 DEF NotesInv, Follows, Early, NoRun

\* Another handler past its mark means that the offense is counted as overlapped.
LEMMA NobodyElse ==
    ASSUME PipeInv, NEW h \in Handler, Past(h), run[h].offense \notin overlapped,
           NEW k \in Handler, k # h, Past(k)
    PROVE  run[k].offense # run[h].offense
BY DEF PipeInv, Marks, OneAnalysis

LEMMA SelectAccounts ==
    ASSUME PipeInv, NotesInv, PipeInv', NEW h \in Handler, Select(h)
    PROVE  NotesInv'
<1>1. run[h].at = "select" /\ UNCHANGED <<queue, status, notes, faults>>
  BY DEF Select
<1>2. run[h] # NoRun
  BY <1>1 DEF NoRun
<1>3. PICK o \in Offense : o = run[h].offense
  BY <1>2 DEF PipeInv, Starts, Serves
<1>4. CASE Enter(h)
  <2>1. /\ run'[h].at = "insert" /\ run'[h].offense = o /\ run'[h].bypass = run[h].bypass
        /\ run'[h].fate = run[h].fate /\ \A k \in Handler \ {h} : run'[k] = run[k]
    <3>1. \A r \in Run : LET n == [r EXCEPT !.at = "insert"] IN
            n.at = "insert" /\ n.offense = r.offense /\ n.bypass = r.bypass /\ n.fate = r.fate
      BY DEF Run
    <3>2. QED
      BY <1>3, <1>4, <3>1 DEF Enter, Step, PipeInv, Shape
  <2>2. call' = call /\ overlapped \subseteq overlapped'
    BY <1>4 DEF Enter
  <2>3. Verdict(o) => run[h].bypass
    <3>1. ASSUME NEW a \in {"ok", "busy"}, TurnAway(h, a)
          PROVE  FALSE
      <4>1. run'[h] = NoRun
        BY <1>2, <3>1, ReplyLeaves DEF TurnAway, Answers
      <4>2. QED
        BY <2>1, <4>1 DEF NoRun
    <3>2. ~run[h].bypass => ~Analysed(o)
      BY <1>3, <3>1 DEF Select
    <3>3. QED
      BY <3>2 DEF Verdict, Analysed
  <2>4. \A k \in Handler : Follows(k)'
    BY <1>1, <1>3, <2>1 DEF NotesInv, Follows, Early
  <2>5. \A p \in Offense \ {o} : Rests(p) => Rests(p)'
    BY <1>1, <1>3, <2>1, <2>2, OthersRest
  <2>6. Rests(o) => Rests(o)'
    <3>1. Verdict(o) => Verdict(o)'
      BY <1>1, <2>1, <2>3 DEF Verdict
    <3>2. Writing(o) => Writing(o)'
      BY <1>1, <2>1 DEF Writing
    <3>3. Reserved(o) => Reserved(o)'
      BY <1>1, <1>3, <2>1, <2>2 DEF Reserved
    <3>4. QED
      BY <3>1, <3>2, <3>3 DEF Rests
  <2>7. QED
    BY <1>1, <2>2, <2>4, <2>5, <2>6, Unnoted
<1>5. ASSUME NEW a \in {"ok", "busy"}, TurnAway(h, a)
      PROVE  NotesInv'
  <2>1. a \in Answers /\ a \notin Failures /\ Reply(h, a) /\ overlapped' = overlapped
    BY <1>5 DEF Answers, Failures, TurnAway
  <2>2. /\ run'[h] = NoRun /\ \A k \in Handler \ {h} : run'[k] = run[k]
        /\ \A p \in Offense : run'[h].offense # p
        /\ \A t \in Thread : call'[t] = call[t] \/ call'[t].answer \notin Failures
    BY <1>2, <2>1, ReplyLeaves
  <2>3. \A k \in Handler : Follows(k)'
    BY <1>1, <1>2, <2>1, ReplyFollows
  <2>4. \A p \in Offense : Verdict(p) => Verdict(p)'
    BY <1>1, <2>2 DEF Verdict
  <2>5. \A p \in Offense : Writing(p) => Writing(p)'
    BY <1>1, <2>2 DEF Writing
  <2>6. \A p \in Offense : Reserved(p) => Reserved(p)'
    BY <1>1, <2>2 DEF Reserved
  <2>7. QED
    BY <1>1, <2>1, <2>3, <2>4, <2>5, <2>6, Unnoted DEF Rests
<1>6. QED
  BY <1>4, <1>5 DEF Select

\* An analyst's or a re-triage's run overwrites a verdict only while the row says so.
LEMMA InsertAccounts ==
    ASSUME PipeInv, NotesInv, PipeInv', NEW h \in Handler, Insert(h)
    PROVE  NotesInv'
<1>1. /\ run[h].at = "insert" /\ run[h] # NoRun /\ Early(h) /\ Past(h)
      /\ UNCHANGED <<queue, call, notes, overlapped, faults>>
  BY DEF Insert, Step, NoRun, Early, Past
<1>2. PICK o \in Offense : o = run[h].offense
  BY <1>1 DEF PipeInv, Starts, Serves
<1>3. /\ run'[h].at = "work" /\ run'[h].offense = o /\ run'[h].bypass = run[h].bypass
      /\ \A k \in Handler \ {h} : run'[k] = run[k]
  <2>1. \A r \in Run : LET n == [r EXCEPT !.at = "work"] IN
          n.at = "work" /\ n.offense = r.offense /\ n.bypass = r.bypass
    BY DEF Run
  <2>2. QED
    BY <1>2, <2>1 DEF Insert, Step, PipeInv, Shape
<1>4. status'[o] = "PROCESSING" /\ \A p \in Offense \ {o} : status'[p] = status[p]
  BY <1>2 DEF Insert, PipeInv, Shape
<1>5. \A k \in Handler : Follows(k)'
  BY <1>1, <1>3 DEF NotesInv, Follows, Early
<1>6. \A p \in Offense \ {o} : Rests(p) => Rests(p)'
  BY <1>1, <1>2, <1>3, <1>4, OthersRest
<1>7. ASSUME o \notin overlapped, Rests(o)
      PROVE  Reserved(o)'
  <2>1. \A k \in Handler \ {h} : run[k].offense # o
    <3>1. ASSUME NEW k \in Handler \ {h}, run[k].offense = o
          PROVE  FALSE
      <4>1. run[k] # NoRun
        BY <3>1, Bounds DEF NoRun
      <4>2. Early(k) \/ Past(k)
        BY <4>1 DEF PipeInv, Shape, Run, Starts, Serves, Early, Past
      <4>3. ~Early(k)
        BY <1>1, <1>2, <3>1 DEF PipeInv, Starts
      <4>4. ~Past(k)
        BY <1>1, <1>2, <1>7, <3>1, NobodyElse
      <4>5. QED
        BY <4>2, <4>3, <4>4
    <3>2. QED
      BY <3>1
  <2>2. ~Writing(o)
    BY <1>1, <2>1 DEF Writing
  <2>3. run[h].bypass
    BY <1>1, <1>2, <1>7, <2>2 DEF Rests, Verdict, Reserved
  <2>4. SetAside(queue[o])
    BY <1>1, <1>2, <2>3 DEF PipeInv, Starts, Leased, Held, NotesInv, Follows, SetAside
  <2>5. ASSUME NEW t \in Thread, call[t].offense = o
        PROVE  call[t].answer \notin Failures
    <3>1. call[t] # NoCall => call[t].handler = h
      BY <1>1, <1>2, <2>5 DEF PipeInv, Starts, Leased
    <3>2. call[t].handler = h => call[t].answer = "none"
      BY Bounds DEF PipeInv, Calls, Waits
    <3>3. QED
      BY <3>1, <3>2 DEF NoCall, Failures
  <2>6. ASSUME NEW k \in Handler, run'[k].offense = o
        PROVE  run'[k].bypass /\ run'[k].at \notin {"note", "record"}
    BY <1>3, <2>1, <2>3, <2>6
  <2>7. SetAside(queue'[o]) /\ \A t \in Thread : call'[t].offense = o => call'[t].answer \notin Failures
    BY <1>1, <2>4, <2>5
  <2>8. QED
    BY <2>6, <2>7 DEF Reserved
<1>8. QED
  BY <1>1, <1>2, <1>5, <1>6, <1>7, Unnoted DEF Rests

\* A handler goes on to note or record.
Advances(h) ==
    /\ run[h].at \in {"work", "note"} /\ run'[h].at \in {"note", "record"}
    /\ run'[h].offense = run[h].offense /\ run'[h].bypass = run[h].bypass
    /\ \A k \in Handler \ {h} : run'[k] = run[k]
    /\ UNCHANGED <<queue, status, call, overlapped>>

LEMMA ConcludeAdvances ==
    ASSUME PipeInv, NEW h \in Handler, NEW fate \in Fates, Conclude(h, fate)
    PROVE  Advances(h) /\ run'[h].fate = fate /\ notes' = notes
<1>1. \A r \in Run : \A at : LET n == [r EXCEPT !.at = at, !.fate = fate] IN
        n.at = at /\ n.offense = r.offense /\ n.bypass = r.bypass /\ n.fate = fate
  BY DEF Run
<1>2. QED
  BY <1>1 DEF Conclude, Advances, PipeInv, Shape

LEMMA NoteAdvances ==
    ASSUME PipeInv, NEW h \in Handler, Note(h)
    PROVE  Advances(h) /\ run[h].at = "note" /\ run'[h].at = "record" /\ run'[h].fate = run[h].fate
<1>1. \A r \in Run : LET n == [r EXCEPT !.at = "record"] IN
        n.at = "record" /\ n.offense = r.offense /\ n.bypass = r.bypass /\ n.fate = r.fate
  BY DEF Run
<1>2. QED
  BY <1>1 DEF Note, Step, Advances, PipeInv, Shape

LEMMA AdvanceFollows ==
    ASSUME NotesInv, NEW h \in Handler, Advances(h)
    PROVE  \A k \in Handler : Follows(k)'
BY DEF NotesInv, Follows, Early, Advances

LEMMA AdvanceRests ==
    ASSUME NEW h \in Handler, Advances(h), NEW p \in Offense, Rests(p),
           \/ run'[h].fate \notin {"AQL_ERROR", "AI_ERROR"}
           \/ run[h].at = "note" /\ run'[h].fate = run[h].fate
    PROVE  Rests(p)'
<1>1. CASE Verdict(p)
  BY <1>1 DEF Rests, Verdict, Advances
<1>2. CASE Writing(p)
  BY <1>2 DEF Rests, Writing, Advances
<1>3. CASE Reserved(p)
  <2>1. Reserved(p)'
    BY <1>3 DEF Reserved, Advances
  <2>2. QED
    BY <2>1 DEF Rests
<1>4. QED
  BY <1>1, <1>2, <1>3 DEF Rests

LEMMA ConcludeAccounts ==
    ASSUME PipeInv, NotesInv, PipeInv', NEW h \in Handler, NEW fate \in Fates, Conclude(h, fate)
    PROVE  NotesInv'
<1>1. Advances(h) /\ run'[h].fate = fate /\ notes' = notes /\ overlapped' = overlapped
  BY ConcludeAdvances DEF Advances
<1>2. CASE fate \in {"AQL_ERROR", "AI_ERROR"}
  BY <1>1, <1>2, AdvanceFollows, Unnoted DEF Conclude
<1>3. CASE fate \notin {"AQL_ERROR", "AI_ERROR"}
  BY <1>1, <1>3, AdvanceFollows, AdvanceRests, Unnoted DEF Conclude
<1>4. QED
  BY <1>2, <1>3

\* Whoever is about to note an automatic verdict finds every earlier note accounted for by a
\* failure.
LEMMA NoteIsDue ==
    ASSUME PipeInv, NotesInv, NEW h \in Handler, run[h].at = "note", ~run[h].bypass,
           run[h].offense \notin overlapped
    PROVE  run[h].offense \in Offense /\ notes[run[h].offense] <= faults
<1>1. Past(h) /\ Late(h) /\ run[h].offense \in Offense
  BY DEF Past, Late, PipeInv, Starts, Serves, NoRun
<1>2. PICK o \in Offense : o = run[h].offense
  BY <1>1
<1>3. ~Verdict(o)
  BY <1>1, <1>2 DEF PipeInv, Marks, Verdict
<1>4. ~Writing(o)
  <2>1. ASSUME NEW k \in Handler, run[k].at = "record", run[k].offense = o
        PROVE  FALSE
    BY <1>1, <1>2, <2>1, NobodyElse DEF Past
  <2>2. QED
    BY <2>1 DEF Writing
<1>5. ~Reserved(o)
  BY <1>2 DEF Reserved
<1>6. QED
  BY <1>1, <1>2, <1>3, <1>4, <1>5 DEF NotesInv, Accounted, Rests

\* What a note adds, at most.
LEMMA NoteAdds ==
    ASSUME PipeInv, NEW h \in Handler, run[h].at = "note"
    PROVE  /\ run[h].offense \in Offense
           /\ \A p \in Offense \ {run[h].offense} : NotesAfter(h)[p] = notes[p]
           /\ NotesAfter(h)[run[h].offense] <= notes[run[h].offense] + 1
           /\ run[h].bypass \/ run[h].fate # "PROCESSED" => NotesAfter(h) = notes
           /\ \A p \in Offense : NotesAfter(h)[p] \in Nat
<1>1. PICK o \in Offense : o = run[h].offense
  BY DEF PipeInv, Starts, Serves, NoRun
<1>2. \A p \in Offense : notes[p] \in Nat
  BY DEF PipeInv, Shape
<1>3. Capped(notes[o] + 1, MaxFaults + 2) \in Nat /\ Capped(notes[o] + 1, MaxFaults + 2) <= notes[o] + 1
  BY <1>2, Bounds DEF Capped
<1>4. NotesAfter(h) = notes \/ NotesAfter(h) = [notes EXCEPT ![o] = Capped(notes[o] + 1, MaxFaults + 2)]
  BY <1>1 DEF NotesAfter
<1>5. QED
  BY <1>1, <1>2, <1>3, <1>4 DEF NotesAfter, PipeInv, Shape

LEMMA NoteAccounts ==
    ASSUME PipeInv, NotesInv, PipeInv', NEW h \in Handler, Note(h)
    PROVE  NotesInv'
<1>1. /\ Advances(h) /\ run[h].at = "note" /\ run'[h].at = "record" /\ run'[h].fate = run[h].fate
      /\ run'[h].offense = run[h].offense /\ overlapped' = overlapped
  BY NoteAdvances DEF Advances
<1>2. \A k \in Handler : Follows(k)'
  BY <1>1, AdvanceFollows
<1>3. \A p \in Offense : Rests(p) => Rests(p)'
  BY <1>1, AdvanceRests
<1>4. CASE notes' = notes
  BY <1>1, <1>2, <1>3, <1>4, Unnoted DEF Note
<1>5. CASE notes' # notes
  <2>1. notes' = NotesAfter(h) /\ faults' = faults /\ ~run[h].bypass /\ run[h].fate = "PROCESSED"
    BY <1>1, <1>5, NoteAdds DEF Note
  <2>2. faults \in Nat /\ \A p \in Offense : notes[p] \in Nat
    BY Bounds DEF PipeInv, Shape
  <2>3. ASSUME NEW p \in Offense \ overlapped
        PROVE  Accounted(p)'
    <3>1. CASE p # run[h].offense
      BY <1>1, <1>3, <2>1, <2>3, <3>1, NoteAdds DEF NotesInv, Accounted
    <3>2. CASE p = run[h].offense
      <4>1. notes[p] <= faults
        BY <1>1, <2>1, <2>3, <3>2, NoteIsDue
      <4>2. notes'[p] <= notes[p] + 1 /\ notes'[p] \in Nat
        BY <1>1, <2>1, <3>2, NoteAdds
      <4>3. notes'[p] <= 1 + faults'
        BY <2>1, <2>2, <4>1, <4>2
      <4>4. Writing(p)'
        BY <1>1, <2>1, <3>2 DEF Writing
      <4>5. QED
        BY <4>3, <4>4 DEF Accounted, Rests
    <3>3. QED
      BY <3>1, <3>2
  <2>4. QED
    BY <1>1, <1>2, <2>3 DEF NotesInv
<1>6. QED
  BY <1>4, <1>5

LEMMA FailedAccounts ==
    ASSUME PipeInv, NotesInv, PipeInv', NEW h \in Handler, NotFound(h) \/ Unavailable(h)
    PROVE  NotesInv'
<1>1. /\ run[h] # NoRun /\ Fault /\ UNCHANGED <<queue, notes, overlapped>>
      /\ \E a \in Answers : Reply(h, a)
  BY DEF NotFound, Unavailable, NoRun, Answers
<1>2. QED
  BY <1>1, ReplyFollows, Unnoted

LEMMA RecordAccounts ==
    ASSUME PipeInv, NotesInv, PipeInv', NEW h \in Handler, Record(h)
    PROVE  NotesInv'
<1> DEFINE a == IF run[h].fate \in {"AQL_ERROR", "AI_ERROR"} THEN "error" ELSE "ok"
<1>1. /\ run[h].at = "record" /\ Late(h) /\ Past(h) /\ run[h] # NoRun /\ a \in Answers /\ Reply(h, a)
      /\ UNCHANGED <<queue, notes, overlapped, faults>>
  BY DEF Record, Late, Past, NoRun, Answers
<1>2. PICK o \in Offense : o = run[h].offense
  BY <1>1 DEF PipeInv, Starts, Serves
<1>3. status'[o] = run[h].fate /\ \A p \in Offense \ {o} : status'[p] = status[p]
  BY <1>2 DEF Record, PipeInv, Shape
<1> HIDE DEF a
<1>4. /\ run'[h] = NoRun /\ \A k \in Handler \ {h} : run'[k] = run[k]
      /\ \A p \in Offense : run'[h].offense # p
      /\ \A t \in Thread : call'[t] = call[t] \/ (call'[t].offense = o /\ call'[t].answer = a)
  BY <1>1, <1>2, ReplyLeaves
<1>5. \A k \in Handler : Follows(k)'
  BY <1>1, ReplyFollows
<1>6. \A p \in Offense \ {o} : Rests(p) => Rests(p)'
  BY <1>1, <1>2, <1>3, <1>4, OthersRest
<1>7. ASSUME o \notin overlapped, Rests(o)
      PROVE  Rests(o)'
  <2>1. ~Verdict(o)
    BY <1>1, <1>2, <1>7 DEF PipeInv, Marks, Verdict
  <2>2. CASE Writing(o)
    <3>1. run[h].fate = "PROCESSED"
      BY <1>1, <1>2, <1>7, <2>2, NobodyElse DEF Writing, Past
    <3>2. \A k \in Handler : run'[k].at = "insert" => run'[k].offense # o
      BY <1>1, <1>2, <1>4, <1>7, NobodyElse DEF Past, NoRun
    <3>3. Verdict(o)'
      BY <1>3, <3>1, <3>2 DEF Verdict
    <3>4. QED
      BY <3>3 DEF Rests
  <2>3. CASE Reserved(o)
    <3>1. a = "ok"
      BY <1>1, <1>2, <2>3 DEF Reserved, a
    <3>2. Reserved(o)'
      BY <1>1, <1>4, <2>3, <3>1 DEF Reserved, Failures
    <3>3. QED
      BY <3>2 DEF Rests
  <2>4. QED
    BY <1>7, <2>1, <2>2, <2>3 DEF Rests
<1>8. QED
  BY <1>1, <1>2, <1>5, <1>6, <1>7, Unnoted

\* The note of a handler that dies may have been written; the death accounts for it.
LEMMA DeathAccounts ==
    ASSUME PipeInv, NotesInv, PipeInv', NEW h \in Handler, NEW a \in Answers, HandlerDies(h, a)
    PROVE  NotesInv'
<1>1. /\ run[h] # NoRun /\ faults' = faults + 1 /\ Reply(h, a) /\ UNCHANGED <<queue, overlapped>>
      /\ Fault
  BY DEF HandlerDies, NoRun, Fault
<1>2. \A k \in Handler : Follows(k)'
  BY <1>1, ReplyFollows
<1>3. CASE notes' = notes
  BY <1>1, <1>2, <1>3, Unnoted
<1>4. CASE notes' # notes
  <2>1. notes' = NotesAfter(h) /\ run[h].at = "note"
    BY <1>4 DEF HandlerDies
  <2>2. ~run[h].bypass
    BY <1>4, <2>1, NoteAdds
  <2>3. faults \in Nat /\ \A p \in Offense : notes[p] \in Nat /\ notes'[p] \in Nat
    BY <2>1, NoteAdds, Bounds DEF PipeInv, Shape
  <2>4. ASSUME NEW p \in Offense \ overlapped
        PROVE  notes'[p] <= faults'
    <3>1. CASE p # run[h].offense
      <4>1. notes'[p] = notes[p] /\ notes[p] <= 1 + faults
        BY <2>1, <2>3, <2>4, <3>1, NoteAdds DEF NotesInv, Accounted
      <4>2. QED
        BY <1>1, <2>3, <4>1
    <3>2. CASE p = run[h].offense
      <4>1. notes'[p] <= notes[p] + 1 /\ notes[p] <= faults
        BY <2>1, <2>2, <2>4, <3>2, NoteAdds, NoteIsDue
      <4>2. QED
        BY <1>1, <2>3, <4>1
    <3>3. QED
      BY <3>1, <3>2
  <2>5. QED
    BY <1>1, <1>2, <2>4 DEF NotesInv, Accounted
<1>5. QED
  BY <1>3, <1>4

LEMMA TickAccounts ==
    ASSUME PipeInv, NotesInv, PipeInv', Tick
    PROVE  NotesInv'
<1>1. UNCHANGED <<status, notes, overlapped, faults>>
  BY DEF Tick
<1>2. \A o \in Offense : queue[o] # NoRow =>
        queue'[o] # NoRow /\ queue'[o].status = queue[o].status /\ Bypasses(queue'[o]) = Bypasses(queue[o])
  <2>1. \A r \in Row : \A e, l :
          LET n == [r EXCEPT !.enqueued_at = e, !.lease_until = l] IN
          n.status = r.status /\ n.source = r.source /\ n.force = r.force
    BY DEF Row
  <2>2. ASSUME NEW o \in Offense, queue[o] # NoRow
        PROVE  queue'[o] # NoRow /\ queue'[o].status = queue[o].status
               /\ queue'[o].source = queue[o].source /\ queue'[o].force = queue[o].force
    <3>1. queue[o] \in Row
      BY <2>2 DEF PipeInv, Shape, Table
    <3>2. queue'[o] = [queue[o] EXCEPT !.enqueued_at = Back(queue[o].enqueued_at),
                                       !.lease_until = Back(queue[o].lease_until)]
      BY <2>2 DEF Tick
    <3>3. queue'[o].status = queue[o].status /\ queue'[o].source = queue[o].source
          /\ queue'[o].force = queue[o].force
      BY <2>1, <3>1, <3>2
    <3>4. Back(queue[o].enqueued_at) \in Nat /\ Back(queue[o].lease_until) \in Nat \cup {NULL}
      BY <3>1 DEF Row, Back, NULL
    <3>5. queue'[o] \in Row
      BY <3>1, <3>2, <3>4 DEF Row
    <3>6. QED
      BY <3>3, <3>5, NoRowAssumption
  <2>3. QED
    BY <2>2 DEF Bypasses, IsManual
<1>3. \A k \in Handler : /\ run'[k].at = run[k].at /\ run'[k].offense = run[k].offense
                         /\ run'[k].bypass = run[k].bypass /\ run'[k].fate = run[k].fate
  <2>1. \A r \in Run, n \in Nat : LET d == [r EXCEPT !.age = n] IN
          d.at = r.at /\ d.offense = r.offense /\ d.bypass = r.bypass /\ d.fate = r.fate
    BY DEF Run
  <2>2. ASSUME NEW k \in Handler, run[k] # NoRun
        PROVE  /\ run'[k].at = run[k].at /\ run'[k].offense = run[k].offense
               /\ run'[k].bypass = run[k].bypass /\ run'[k].fate = run[k].fate
    <3>1. run'[k] = [run[k] EXCEPT !.age = run[k].age + 1]
      BY <2>2 DEF Tick
    <3>2. run[k] \in Run /\ run[k].age + 1 \in Nat
      BY DEF PipeInv, Shape, Run
    <3>3. QED
      BY <2>1, <3>1, <3>2
  <2>3. ASSUME NEW k \in Handler, run[k] = NoRun
        PROVE  run'[k] = run[k]
    BY <2>3 DEF Tick
  <2>4. QED
    BY <2>2, <2>3
<1>4. \A t \in Thread : call'[t].offense = call[t].offense /\ call'[t].answer = call[t].answer
  <2>1. ASSUME NEW t \in Thread, call[t] # NoCall
        PROVE  call'[t].offense = call[t].offense /\ call'[t].answer = call[t].answer
    <3>1. call'[t] = Aged(call[t]) /\ call[t] \in Call
      BY <2>1 DEF Tick, Aged, PipeInv, Shape
    <3>2. QED
      BY <3>1, AgedShape
  <2>2. ASSUME NEW t \in Thread, call[t] = NoCall
        PROVE  call'[t] = call[t]
    BY <2>2 DEF Tick
  <2>3. QED
    BY <2>1, <2>2
<1>5. \A k \in Handler : Follows(k)'
  BY <1>2, <1>3 DEF PipeInv, Starts, Leased, Held, NotesInv, Follows, Early
<1>6. \A o \in Offense : SetAside(queue[o]) => SetAside(queue'[o])
  BY <1>2 DEF SetAside
<1>7. ASSUME NEW o \in Offense, Rests(o)
      PROVE  Rests(o)'
  <2>1. CASE Verdict(o)
    BY <1>1, <1>3, <2>1 DEF Rests, Verdict
  <2>2. CASE Writing(o)
    BY <1>3, <2>2 DEF Rests, Writing
  <2>3. CASE Reserved(o)
    <3>1. Reserved(o)'
      BY <1>3, <1>4, <1>6, <2>3 DEF Reserved
    <3>2. QED
      BY <3>1 DEF Rests
  <2>4. QED
    BY <1>7, <2>1, <2>2, <2>3 DEF Rests
<1>8. QED
  BY <1>1, <1>5, <1>7, Unnoted

LEMMA NotesInvInit == Init => NotesInv
<1> SUFFICES ASSUME Init
             PROVE  NotesInv
  OBVIOUS
<1>1. \A h \in Handler : Follows(h)
  BY DEF Init, Follows, Early, NoRun
<1>2. \A o \in Offense : notes[o] <= faults
  BY DEF Init
<1>3. QED
  BY <1>1, <1>2 DEF NotesInv, Accounted

LEMMA NotesInvStep == PipeInv /\ PipeInv' /\ NotesInv /\ [Next]_vars => NotesInv'
<1> SUFFICES ASSUME PipeInv, PipeInv', NotesInv, [Next]_vars
             PROVE  NotesInv'
  OBVIOUS
<1>1. CASE UNCHANGED vars
  <2>1. UNCHANGED <<queue, status, call, run, notes, overlapped, faults>>
    BY <1>1 DEF vars
  <2>2. \A k \in Handler : Follows(k)'
    BY <2>1 DEF NotesInv, Follows, Early
  <2>3. \A o \in Offense : Rests(o) => Rests(o)'
    BY <2>1, OthersRest
  <2>4. QED
    BY <2>1, <2>2, <2>3, Unnoted
<1>2. ASSUME NEW t \in Thread, WorkerStep(t)
      PROVE  NotesInv'
  BY <1>2, PostAccounts, PostFailsAccounts, DropAccounts, SettleAccounts DEF WorkerStep
<1>3. ASSUME NEW h \in Handler, HandlerStep(h)
      PROVE  NotesInv'
  BY <1>3, SelectAccounts, InsertAccounts, FailedAccounts, NoteAccounts, RecordAccounts,
     ConcludeAccounts DEF HandlerStep
<1>4. ASSUME NEW h \in Handler, NEW a \in {"5xx", "conn"}, HandlerDies(h, a)
      PROVE  NotesInv'
  BY <1>4, DeathAccounts DEF Answers
<1>5. QED
  BY <1>1, <1>2, <1>3, <1>4, RequestAccounts, DropAccounts, TickAccounts DEF Next

\* An offense gets one verdict note by automatic runs and one more per failure at most, as
\* long as no second analysis was let in.
THEOREM OneNoteCorrect == Spec => []OneVerdictNote
<1>1. PipeInv /\ NotesInv => OneVerdictNote
  <2> SUFFICES ASSUME PipeInv, NotesInv, NEW o \in Offense \ overlapped
               PROVE  notes[o] <= 1 + faults
    BY DEF OneVerdictNote
  <2>1. notes[o] \in Nat /\ faults \in Nat
    BY Bounds DEF PipeInv, Shape
  <2>2. QED
    BY <2>1 DEF NotesInv, Accounted
<1>2. QED
  BY <1>1, NotesInvInit, NotesInvStep, PipeInvAlways, PTL DEF Spec

=============================================================================
