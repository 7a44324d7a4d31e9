---------------------------- MODULE WorkerLeased ----------------------------
(***************************************************************************)
(* The worker and its table implement LeasedQueue: a row is in somebody's  *)
(* hands exactly while a thread has it in flight, and a row left           *)
(* IN_PROGRESS by a thread that failed or died is taken by no one.         *)
(***************************************************************************)
EXTENDS Worker

CONSTANT NoOne

ASSUME NoOneAssumption == NoOne \notin Thread

HoldersOf(o) == {t \in Thread : InFlight(t) /\ claim[t].offense = o}

holderBar ==
    [o \in Offense |-> IF HoldersOf(o) = {} THEN NoOne
                       ELSE CHOOSE t \in Thread : t \in HoldersOf(o)]

stateBar ==
    [o \in Offense |->
        IF queue[o] = NoRow THEN "absent"
        ELSE CASE queue[o].status = "QUEUED" -> "waiting"
               [] queue[o].status = "IN_PROGRESS" -> "taken"
               [] OTHER -> "finished"]

LQ == INSTANCE LeasedQueue
        WITH Holder <- Thread, state <- stateBar, holder <- holderBar

\* Every behaviour of producers, worker runs and crashes is a behaviour of the
\* abstract leased queue.
ImplementsLeasedQueue == LQ!Spec
=============================================================================
