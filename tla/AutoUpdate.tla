----------------------------- MODULE AutoUpdate -----------------------------
(***************************************************************************)
(* autoupdate.sh, started by cron and by deploy.sh with nothing that keeps *)
(* two of them apart: a push to origin/main is pulled, its dependencies    *)
(* are installed, the smoke test runs, the service is restarted and has to *)
(* answer; otherwise the checkout goes back to where it was.               *)
(*                                                                         *)
(* Commits are numbered in the order of their pushes; of a commit only     *)
(* its requirements.txt, its smoke test and whether it starts matter.      *)
(***************************************************************************)
EXTENDS Host, Naturals

CONSTANTS
    Updater,        \* who runs the script: cron, deploy.sh
    LastCommit,     \* bound on the pushes
    Req(_),         \* version of requirements.txt in a commit
    Installs(_),    \* pip can install that version
    PassesSmoke(_),
    Starts(_, _),   \* the service of a commit answers with the packages of a version
    MaxAccidents

ASSUME UpdateAssumption == LastCommit \in Nat \ {0} /\ MaxAccidents \in Nat

Commit == 1 .. LastCommit

\* What is deployed first was installed and answers.
ASSUME FirstCommitAssumption == Installs(Req(1)) /\ Starts(1, Req(1))
\* A commit that runs with some packages runs with those it names itself and with those
\* of any later commit: the script installs and never removes.
ASSUME PackagesAssumption ==
    \A c, d, e \in Commit : Starts(c, Req(d)) /\ c <= e /\ Installs(Req(e)) => Starts(c, Req(e))

VARIABLES
    pushed,     \* origin/main
    head,       \* HEAD of the checkout in APP_DIR, and the files there
    venv,       \* version of the installed packages
    service,    \* the running process: its commit and its packages
    phase, prev, reqChanged,    \* per run of the script
    passed,     \* ghost: commits that passed the smoke test
    overlapped, \* ghost: two runs were under way together
    accidents

autoVars == <<pushed, head, venv, service, phase, prev, reqChanged, passed, overlapped, accidents>>

AutoInit ==
    /\ pushed = 1 /\ head = 1 /\ venv = Req(1)
    /\ service = [code |-> 1, packages |-> Req(1)]
    /\ phase = [u \in Updater |-> "off"] /\ prev = [u \in Updater |-> 1]
    /\ reqChanged = [u \in Updater |-> FALSE]
    /\ passed = {1} /\ overlapped = FALSE /\ accidents = 0

-----------------------------------------------------------------------------
Goes(u, there) == phase' = [phase EXCEPT ![u] = there]

ResetWrongNone(u) == head' = head
Reset(u) == head' = prev[u]         \* git reset --hard "$PREV_SHA"

Restarted == [code |-> head, packages |-> venv]     \* systemctl restart
Answers == Starts(service.code, service.packages)

Push == 
    /\ pushed < LastCommit /\ pushed' = pushed + 1
    /\ UNCHANGED <<head, venv, service, phase, prev, reqChanged, passed, overlapped, accidents>>

DiffersWrongLater(u) == FALSE       \* decided after the pull: HEAD is REMOTE
Differs(u) == Req(head) # Req(pushed)

\* fetch; nothing new is a quiet exit.
UpToDate(u) == phase[u] = "off" /\ head = pushed /\ UNCHANGED autoVars

Compare(u) ==
    /\ phase[u] = "off" /\ head # pushed
    /\ Goes(u, "behind")
    /\ prev' = [prev EXCEPT ![u] = head]
    /\ reqChanged' = [reqChanged EXCEPT ![u] = Differs(u)]
    /\ overlapped' = (overlapped \/ \E other \in Updater \ {u} : phase[other] # "off")
    /\ UNCHANGED <<pushed, head, venv, service, passed, accidents>>

\* git pull fetches once more: it may bring a later commit than the one compared.
Pull(u) ==
    /\ phase[u] = "behind"
    /\ head' = pushed
    /\ Goes(u, IF reqChanged[u] THEN "pulled" ELSE "ready")
    /\ UNCHANGED <<pushed, venv, service, prev, reqChanged, passed, overlapped, accidents>>

PipInstallWrongIgnores(u) ==
    /\ phase[u] = "pulled"
    /\ venv' = Req(head) /\ Goes(u, "ready") /\ UNCHANGED head
    /\ UNCHANGED <<pushed, service, prev, reqChanged, passed, overlapped, accidents>>

PipInstall(u) ==
    /\ phase[u] = "pulled"
    /\ IF Installs(Req(head))
       THEN venv' = Req(head) /\ Goes(u, "ready") /\ UNCHANGED head
       ELSE Reset(u) /\ Goes(u, "off") /\ UNCHANGED venv
    /\ UNCHANGED <<pushed, service, prev, reqChanged, passed, overlapped, accidents>>

SmokeTestWrongWarns(u) ==
    /\ phase[u] = "ready"
    /\ passed' = IF PassesSmoke(head) THEN passed \cup {head} ELSE passed
    /\ Goes(u, "tested")
    /\ UNCHANGED <<pushed, head, venv, service, prev, reqChanged, overlapped, accidents>>

\* The packages stay as pip left them.
SmokeTest(u) ==
    /\ phase[u] = "ready"
    /\ IF PassesSmoke(head)
       THEN passed' = passed \cup {head} /\ Goes(u, "tested") /\ UNCHANGED head
       ELSE Reset(u) /\ Goes(u, "off") /\ UNCHANGED passed
    /\ UNCHANGED <<pushed, venv, service, prev, reqChanged, overlapped, accidents>>

RestartService(u) ==
    /\ phase[u] = "tested"
    /\ service' = Restarted
    /\ Goes(u, "restarted")
    /\ UNCHANGED <<pushed, head, venv, prev, reqChanged, passed, overlapped, accidents>>

HealthCheck(u) ==
    /\ phase[u] = "restarted"
    /\ IF Answers
       THEN Goes(u, "off") /\ UNCHANGED head
       ELSE Reset(u) /\ Goes(u, "undone")
    /\ UNCHANGED <<pushed, venv, service, prev, reqChanged, passed, overlapped, accidents>>

RollBack(u) ==
    /\ phase[u] = "undone"
    /\ venv' = IF reqChanged[u] /\ Installs(Req(head)) THEN Req(head) ELSE venv
    /\ service' = [code |-> head, packages |-> venv']
    /\ Goes(u, "off")
    /\ UNCHANGED <<pushed, head, prev, reqChanged, passed, overlapped, accidents>>

Accident == accidents < MaxAccidents /\ accidents' = accidents + 1

\* A run is killed, or its pull or its pip fails for a reason of its own.
RunStops(u) ==
    /\ phase[u] # "off" /\ Accident
    /\ Goes(u, "off")
    /\ \/ UNCHANGED head
       \/ phase[u] = "pulled" /\ Reset(u)
    /\ UNCHANGED <<pushed, venv, service, prev, reqChanged, passed, overlapped>>

\* systemd or a reboot of the host starts the service from what is on the disk.
ServiceRestarts ==
    /\ Accident
    /\ service' = Restarted
    /\ UNCHANGED <<pushed, head, venv, phase, prev, reqChanged, passed, overlapped>>

Update(u) ==
    \/ Compare(u) \/ Pull(u) \/ PipInstall(u) \/ SmokeTest(u)
    \/ RestartService(u) \/ HealthCheck(u) \/ RollBack(u)

AutoNext == Push \/ (\E u \in Updater : UpToDate(u) \/ Update(u) \/ RunStops(u)) \/ ServiceRestarts

AutoSpec == AutoInit /\ [][AutoNext]_autoVars

\* While it is on, cron starts the script every ten minutes and a run goes on; nobody has
\* to push.
AutoFairness == \A u \in Updater : WF_autoVars(Runs("update") /\ Update(u))

-----------------------------------------------------------------------------
AutoTypeOK ==
    /\ pushed \in Commit /\ head \in 1 .. pushed
    /\ service \in [code : 1 .. pushed, packages : {Req(c) : c \in Commit}]
    /\ venv \in {Req(c) : c \in 1 .. pushed} /\ Installs(venv)
    /\ phase \in [Updater -> {"off", "behind", "pulled", "ready", "tested", "restarted", "undone"}]
    /\ prev \in [Updater -> Commit] /\ reqChanged \in [Updater -> BOOLEAN]
    /\ passed \subseteq 1 .. pushed
    /\ overlapped \in BOOLEAN /\ accidents \in 0 .. MaxAccidents

\* One overlap is enough to leave the packages of an old commit under a new one, and the
\* service down, until somebody intervenes; so is a kill between pull and restart.
Undisturbed == accidents = 0 /\ ~overlapped

\* While one run follows the other and none is cut short, the service never runs a
\* commit that did not pass the smoke test, not even by a roll-back.
OnlyTestedRuns == Undisturbed => service.code \in passed

\* And whatever was pushed, the service answers when no run is under way.
AnswersWhenIdle == Undisturbed /\ (\A u \in Updater : phase[u] = "off") => Answers

Good(c) == PassesSmoke(c) /\ Installs(Req(c)) /\ Starts(c, Req(c))

\* A release is a push: the last commit, if it is good, ends up running, whatever was
\* pushed before it and at whatever moment of a run.
GoodReleaseArrives ==
    <>[](Undisturbed /\ Good(pushed) => service.code = pushed)
=============================================================================
