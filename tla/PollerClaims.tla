---------------------------- MODULE PollerClaims ----------------------------
(***************************************************************************)
(* What comments and change records say of the poller and the code does    *)
(* not do.                                                                 *)
(***************************************************************************)
EXTENDS Poller

\* poller.py:40-42: an ERROR row is put back in the queue no sooner than
\* ERROR_RETRY_HOURS later, so that a broken query is not retried by every run.
\* The failure of a query leaves a note; a row in ERROR whose note is younger than
\* that has failed since.
ErrorRowsRest ==
    [][\A o \in Offense :
        /\ queue[o] # NoRow /\ queue[o].status = "ERROR"
        /\ queue'[o] # NoRow /\ queue'[o].status = "QUEUED" /\ queue'[o].source = "auto"
        => notes[o] = NULL \/ AgeOf(notes[o]) >= ErrorRetry]_vars
=============================================================================
