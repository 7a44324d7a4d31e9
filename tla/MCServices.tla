----------------------------- MODULE MCServices -----------------------------
(***************************************************************************)
(* The chat, the automatic update and the catch-up tool in one run of TLC: *)
(* they share no state, so their state spaces stand side by side and are   *)
(* not multiplied.                                                         *)
(***************************************************************************)
EXTENDS ChatHold, AutoUpdate, Catchup

ServicesInit ==
    /\ job \in {"chat", "update", "catchup"}
    /\ ChatInit /\ AutoInit /\ CatchInit

ServicesNext ==
    \/ Runs("chat") /\ ChatNext /\ UNCHANGED <<job, autoVars, catchVars>>
    \/ Runs("update") /\ AutoNext /\ UNCHANGED <<job, chatVars, catchVars>>
    \/ Runs("catchup") /\ CatchNext /\ UNCHANGED <<job, chatVars, autoVars>>

servicesVars == <<job, chatVars, autoVars, catchVars>>

ServicesSpec ==
    /\ ServicesInit /\ [][ServicesNext]_servicesVars
    /\ ChatFairness /\ AutoFairness /\ CatchFairness

-----------------------------------------------------------------------------
(***************************************************************************)
(* Instances.                                                              *)
(***************************************************************************)
\* Histories of a chat: one whose oldest message must go, one whose newest
\* message alone is too long.
Histories == {<<2, 1, 2>>, <<1, 4>>}

\* A commit that fails the smoke test, one that needs new packages, one whose packages
\* cannot be installed.
Requirements(c) == CASE c \in {1, 2} -> 1 [] c = 3 -> 3 [] OTHER -> 2
Installable(v) == v # 2
SmokeResult(c) == c # 2
Compatible(c, v) == v >= Requirements(c)

\* Two offenses of one use case, the second louder, and a quiet one that only the name of a
\* rule matches.
Label(o, named) == IF o = 3 THEN (IF named THEN 2 ELSE 3) ELSE 1
Matching(o, named) == o # 3 \/ named
Loudness(o) == CASE o = 1 -> 5 [] o = 2 -> 7 [] OTHER -> 3
SameStart(o) == 1
Outcomes(o) == CASE o = 1 -> {"AQL_ERROR"} [] o = 2 -> {"PROCESSED"} [] OTHER -> {"AI_ERROR"}

\* The tool as it is started by default, for stuck offenses only and by force, and for a few
\* of all.
NoArguments == [retry |-> {"AQL_ERROR"}, onlyRetry |-> FALSE, unmatched |-> FALSE, limit |-> 0,
                manual |-> FALSE, force |-> FALSE]
CommandLines == {NoArguments,
                 [NoArguments EXCEPT !.onlyRetry = TRUE, !.force = TRUE],
                 [NoArguments EXCEPT !.unmatched = TRUE, !.limit = 2]}

\* An analyst names an offense with --manual.
ByHand == {<<TRUE, FALSE>>}

-----------------------------------------------------------------------------
(***************************************************************************)
(* What is said of each program alone is in its module; here it is said of *)
(* the program that runs.                                                  *)
(***************************************************************************)
\* The shape of every variable of the three programs, and who owns what at a time: the
\* slot of the model, a refused connection, an installed package.
ServicesTypeOK == ChatTypeOK /\ AutoTypeOK /\ CatchTypeOK

\* Neither starves the other: a user who waits for the slot gets it or is told to try
\* later, and the hold of the chats does not keep the worker from going on for ever.
ChatAndWorkerGoOn == Runs("chat") => SessionsEnd /\ WorkerResumes

\* A good push gets released.
UpdateArrives == Runs("update") => GoodReleaseArrives

\* In each pass of the catch-up no use case waits for the whole of another, a pass comes to
\* its end, and what it found that nobody had seen is attended to.
CatchupGetsThrough == []PlanIsFair /\ (Runs("catchup") => PassEnds /\ NewIsAttended)
=============================================================================
