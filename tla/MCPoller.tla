------------------------------ MODULE MCPoller ------------------------------
(***************************************************************************)
(* Small instances of Poller for TLC.                                      *)
(***************************************************************************)
EXTENDS PollerClaims

\* Offenses that compete: both live, both new or both old.
RivalInit ==
    /\ Init
    /\ \A o, p \in Offense : world[o].live /\ world[o].started = world[p].started

RivalSpec == RivalInit /\ [][Next]_vars /\ WF_vars(PollerStep)
=============================================================================
