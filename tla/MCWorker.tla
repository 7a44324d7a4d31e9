------------------------------ MODULE MCWorker ------------------------------
(***************************************************************************)
(* Small instances of the worker for TLC.                                  *)
(***************************************************************************)
EXTENDS WorkerLeased, TLC

Ask(o, m, src, force, forced) ==
    [offense |-> o, magnitude |-> m, source |-> src, force |-> force, forced |-> forced]

\* Two offenses, enough traffic to re-queue a finished row while its lease
\* history is fresh.
LeaseTraffic == {Ask(1, 7, "auto", FALSE, TRUE), Ask(2, 2, "manual", FALSE, TRUE)}

\* Three offenses of two magnitudes and both kinds of source, one of which
\* grows louder while it waits.
OrderTraffic ==
    {Ask(1, 2, "auto", FALSE, FALSE), Ask(1, 7, "auto", FALSE, FALSE),
     Ask(2, 2, "manual", FALSE, TRUE), Ask(3, 7, "auto", FALSE, FALSE)}

ThreadSymmetry == Permutations(Thread)
=============================================================================
