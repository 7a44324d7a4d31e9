--------------------------- MODULE AutoUpdateProofs ---------------------------
(***************************************************************************)
(* Proofs about autoupdate.sh, for every sequence of commits, any number   *)
(* of runs and any moment of a push.                                       *)
(***************************************************************************)
EXTENDS AutoUpdate, TLAPS

-----------------------------------------------------------------------------
(***************************************************************************)
(* Types.                                                                  *)
(***************************************************************************)
AutoTypeInv == AutoTypeOK /\ \A u \in Updater : prev[u] \in 1 .. pushed

\* The first commit is there, installed.
LEMMA AutoInitType == AutoInit => AutoTypeInv
<1> SUFFICES ASSUME AutoInit
             PROVE  AutoTypeInv
  OBVIOUS
<1>1. 1 \in Commit /\ MaxAccidents \in Nat
  BY UpdateAssumption DEF Commit
<1>2. Req(1) \in {Req(c) : c \in Commit} /\ Req(1) \in {Req(c) : c \in 1 .. 1}
  BY <1>1
<1>3. service \in [code : 1 .. pushed, packages : {Req(c) : c \in Commit}]
  BY <1>2 DEF AutoInit
<1>4. venv \in {Req(c) : c \in 1 .. pushed} /\ Installs(venv)
  BY <1>2, FirstCommitAssumption DEF AutoInit
<1>5. phase \in [Updater -> {"off", "behind", "pulled", "ready", "tested", "restarted", "undone"}]
  BY DEF AutoInit
<1>6. prev \in [Updater -> Commit] /\ reqChanged \in [Updater -> BOOLEAN]
      /\ \A u \in Updater : prev[u] \in 1 .. pushed
  BY <1>1 DEF AutoInit
<1>7. pushed \in Commit /\ head \in 1 .. pushed /\ passed \subseteq 1 .. pushed
  BY <1>1 DEF AutoInit
<1>8. accidents \in 0 .. MaxAccidents
  BY <1>1 DEF AutoInit
<1>9. overlapped \in BOOLEAN
  BY DEF AutoInit
<1>10. QED
  BY <1>3, <1>4, <1>5, <1>6, <1>7, <1>8, <1>9 DEF AutoTypeInv, AutoTypeOK

\* Every step of a run keeps the types.
LEMMA UpdateType ==
    ASSUME AutoTypeInv, NEW u \in Updater, Update(u)
    PROVE  AutoTypeInv'
<1>1. CASE Compare(u)
  <2>1. overlapped' \in BOOLEAN /\ Differs(u) \in BOOLEAN
    BY <1>1 DEF Compare, Differs
  <2>2. reqChanged' \in [Updater -> BOOLEAN]
    BY <1>1, <2>1 DEF Compare, AutoTypeInv, AutoTypeOK
  <2>3. phase' \in [Updater -> {"off", "behind", "pulled", "ready", "tested", "restarted", "undone"}]
    BY <1>1 DEF Compare, Goes, AutoTypeInv, AutoTypeOK
  <2>4. head \in Commit
    BY UpdateAssumption DEF AutoTypeInv, AutoTypeOK, Commit
  <2>5. prev' \in [Updater -> Commit] /\ \A w \in Updater : prev'[w] \in 1 .. pushed'
    BY <1>1, <2>4 DEF Compare, AutoTypeInv, AutoTypeOK
  <2>6. QED
    BY <1>1, <2>1, <2>2, <2>3, <2>5 DEF Compare, AutoTypeInv, AutoTypeOK
<1>2. CASE Pull(u)
  BY <1>2, UpdateAssumption DEF AutoTypeInv, AutoTypeOK, Commit, Pull, Goes
<1>3. CASE PipInstall(u)
  BY <1>3, UpdateAssumption DEF AutoTypeInv, AutoTypeOK, Commit, PipInstall, Goes, Reset
<1>4. CASE SmokeTest(u)
  <2>1. head' \in 1 .. pushed' /\ passed' \subseteq 1 .. pushed'
    BY <1>4 DEF AutoTypeInv, AutoTypeOK, SmokeTest, Reset
  <2>2. phase' \in [Updater -> {"off", "behind", "pulled", "ready", "tested", "restarted", "undone"}]
    BY <1>4 DEF SmokeTest, Goes, AutoTypeInv, AutoTypeOK
  <2>3. QED
    BY <1>4, <2>1, <2>2 DEF SmokeTest, AutoTypeInv, AutoTypeOK
<1>5. CASE RestartService(u)
  BY <1>5, UpdateAssumption DEF AutoTypeInv, AutoTypeOK, Commit, RestartService, Goes, Restarted
<1>6. CASE HealthCheck(u)
  BY <1>6, UpdateAssumption DEF AutoTypeInv, AutoTypeOK, Commit, HealthCheck, Goes, Reset
<1>7. CASE RollBack(u)
  BY <1>7, UpdateAssumption DEF AutoTypeInv, AutoTypeOK, Commit, RollBack, Goes
<1>8. QED
  BY <1>1, <1>2, <1>3, <1>4, <1>5, <1>6, <1>7 DEF Update

\* So do pushes, idle runs and accidents.
LEMMA OutsideType ==
    ASSUME AutoTypeInv,
           Push \/ (\E u \in Updater : UpToDate(u) \/ RunStops(u)) \/ ServiceRestarts
    PROVE  AutoTypeInv'
<1>1. CASE Push
  BY <1>1, UpdateAssumption DEF AutoTypeInv, AutoTypeOK, Commit, Push
<1>2. CASE \E u \in Updater : UpToDate(u)
  BY <1>2 DEF AutoTypeInv, AutoTypeOK, UpToDate, autoVars
<1>3. CASE \E u \in Updater : RunStops(u)
  BY <1>3, UpdateAssumption DEF AutoTypeInv, AutoTypeOK, Commit, RunStops, Accident, Goes, Reset
<1>4. CASE ServiceRestarts
  BY <1>4, UpdateAssumption DEF AutoTypeInv, AutoTypeOK, Commit, ServiceRestarts, Accident, Restarted
<1>5. QED
  BY <1>1, <1>2, <1>3, <1>4

LEMMA AutoTypeStep == AutoTypeInv /\ [AutoNext]_autoVars => AutoTypeInv'
<1>1. ASSUME AutoTypeInv, UNCHANGED autoVars
      PROVE  AutoTypeInv'
  BY <1>1 DEF AutoTypeInv, AutoTypeOK, autoVars
<1>2. QED
  BY <1>1, UpdateType, OutsideType DEF AutoNext

\* Checkout, packages, service and runs are what they should be: the packages are always
\* of a pushed commit, completely installed.
THEOREM AutoTypeCorrect == AutoSpec => []AutoTypeOK
<1>1. AutoTypeInv => AutoTypeOK
  BY DEF AutoTypeInv
<1>2. QED
  BY <1>1, AutoInitType, AutoTypeStep, PTL DEF AutoSpec

-----------------------------------------------------------------------------
(***************************************************************************)
(* What holds in the middle of a run.  Between runs the service is the     *)
(* checkout, it answers, and it would answer with the packages of the      *)
(* moment if it were started again.  During a run that is said of prev, to *)
(* which the run may go back at any time.                                  *)
(***************************************************************************)
Busy(u) == phase[u] # "off"

Settled ==
    /\ service.code = head
    /\ Starts(head, venv)
    /\ Answers

Before(u) == phase[u] \in {"behind", "pulled", "ready", "tested"}

Underway(u) ==
    /\ prev[u] \in passed
    /\ Starts(prev[u], venv)
    /\ prev[u] <= head
    /\ phase[u] \in {"behind", "undone"} => head = prev[u]
    /\ Before(u) => service.code = prev[u] /\ Answers
    /\ phase[u] \in {"tested", "restarted"} => head \in passed
    /\ phase[u] = "restarted" => service = [code |-> head, packages |-> venv]

AutoInv ==
    /\ AutoTypeInv
    /\ Undisturbed =>
        /\ \A u, w \in Updater : Busy(u) /\ Busy(w) => u = w
        /\ service.code \in passed
        /\ (\A u \in Updater : ~Busy(u)) => Settled
        /\ \A u \in Updater : Busy(u) => Underway(u)

\* Packages change to those of a commit that is not before the one to go back to.
LEMMA PackagesServe ==
    ASSUME AutoTypeInv, NEW c \in 1 .. pushed, Starts(c, venv),
           NEW e \in 1 .. pushed, c <= e, Installs(Req(e))
    PROVE  Starts(c, Req(e))
<1>1. PICK d \in 1 .. pushed : venv = Req(d)
  BY DEF AutoTypeInv, AutoTypeOK
<1>2. c \in Commit /\ d \in Commit /\ e \in Commit
  BY UpdateAssumption DEF AutoTypeInv, AutoTypeOK, Commit
<1>3. Starts(c, Req(d))
  BY <1>1
<1>4. QED
  BY <1>2, <1>3, PackagesAssumption

\* A run that is compared with the others is alone.
LEMMA Alone ==
    ASSUME AutoInv, Undisturbed, NEW u \in Updater, Busy(u)
    PROVE  /\ \A w \in Updater \ {u} : ~Busy(w)
           /\ Underway(u)
           /\ service.code \in passed
BY DEF AutoInv

\* The steps that are taken while run u is alone: what is left to show is what they
\* make of u.
LEMMA OneRunMoves ==
    ASSUME AutoInv, Undisturbed, AutoTypeInv', NEW u \in Updater, Busy(u),
           UNCHANGED <<overlapped, accidents>>,
           \A w \in Updater \ {u} : phase'[w] = phase[w],
           service'.code \in passed',
           Busy(u)' => Underway(u)',
           ~Busy(u)' => Settled'
    PROVE  AutoInv'
BY Alone DEF AutoInv, Busy

LEMMA CompareKeeps ==
    ASSUME AutoInv, AutoTypeInv', NEW u \in Updater, Compare(u)
    PROVE  AutoInv'
<1> SUFFICES ASSUME Undisturbed'
             PROVE  AutoInv'
  BY DEF AutoInv
<1>1. Undisturbed /\ \A w \in Updater : ~Busy(w)
  BY DEF Compare, Undisturbed, Busy
<1>2. Settled /\ service.code \in passed
  BY <1>1 DEF AutoInv
<1>3. \A w \in Updater : Busy(w)' => w = u
  BY <1>1 DEF Compare, Goes, Busy, AutoTypeInv, AutoTypeOK
<1>4. phase'[u] = "behind" /\ prev'[u] = head
  BY DEF Compare, Goes, AutoTypeInv, AutoTypeOK
<1>5. Underway(u)'
  BY <1>2, <1>4 DEF Compare, Underway, Before, Settled, Answers, AutoTypeInv, AutoTypeOK
<1>6. Busy(u)'
  BY <1>4 DEF Busy
<1>7. QED
  BY <1>2, <1>3, <1>5, <1>6 DEF Compare, AutoInv

LEMMA PullKeeps ==
    ASSUME AutoInv, Undisturbed, AutoTypeInv', NEW u \in Updater, Pull(u)
    PROVE  AutoInv'
<1>1. Busy(u)
  BY DEF Pull, Busy
<1>2. Underway(u) /\ service.code \in passed
  BY <1>1, Alone
<1>3. phase'[u] \in {"pulled", "ready"} /\ \A w \in Updater \ {u} : phase'[w] = phase[w]
  BY DEF Pull, Goes, AutoInv, AutoTypeInv, AutoTypeOK
<1>4. prev[u] <= head'
  BY DEF Pull, AutoInv, AutoTypeInv
<1>5. Underway(u)'
  BY <1>2, <1>3, <1>4 DEF Pull, Underway, Before, Answers
<1>6. Busy(u)'
  BY <1>3 DEF Busy
<1>7. QED
  BY <1>1, <1>2, <1>3, <1>5, <1>6, OneRunMoves DEF Pull

\* The new packages are those of head, which is not before prev.
LEMMA PipInstallKeeps ==
    ASSUME AutoInv, Undisturbed, AutoTypeInv', NEW u \in Updater, PipInstall(u)
    PROVE  AutoInv'
<1>1. Busy(u)
  BY DEF PipInstall, Busy
<1>2. Underway(u) /\ service.code \in passed
  BY <1>1, Alone
<1>3. \A w \in Updater \ {u} : phase'[w] = phase[w]
  BY DEF PipInstall, Goes, AutoInv, AutoTypeInv, AutoTypeOK
<1>4. CASE Installs(Req(head))
  <2>1. phase'[u] = "ready"
    BY <1>4 DEF PipInstall, Goes, AutoInv, AutoTypeInv, AutoTypeOK
  <2>2. Starts(prev[u], Req(head))
    BY <1>2, <1>4, PackagesServe DEF AutoInv, AutoTypeInv, AutoTypeOK, Underway
  <2>3. Underway(u)'
    BY <1>2, <1>4, <2>1, <2>2, <1>1 DEF PipInstall, Underway, Before, Answers
  <2>4. QED
    BY <1>1, <1>2, <1>3, <2>1, <2>3, OneRunMoves DEF PipInstall, Busy
<1>5. CASE ~Installs(Req(head))
  <2>1. phase'[u] = "off"
    BY <1>5 DEF PipInstall, Goes, AutoInv, AutoTypeInv, AutoTypeOK
  <2>2. Settled'
    BY <1>2, <1>5 DEF PipInstall, Reset, Settled, Underway, Before, Answers
  <2>3. QED
    BY <1>1, <1>2, <1>3, <2>1, <2>2, OneRunMoves DEF PipInstall, Busy
<1>6. QED
  BY <1>4, <1>5

LEMMA SmokeTestKeeps ==
    ASSUME AutoInv, Undisturbed, AutoTypeInv', NEW u \in Updater, SmokeTest(u)
    PROVE  AutoInv'
<1>1. Busy(u)
  BY DEF SmokeTest, Busy
<1>2. Underway(u) /\ service.code \in passed
  BY <1>1, Alone
<1>3. /\ \A w \in Updater \ {u} : phase'[w] = phase[w]
      /\ passed \subseteq passed'
  BY DEF SmokeTest, Goes, AutoInv, AutoTypeInv, AutoTypeOK
<1>4. CASE PassesSmoke(head)
  <2>1. phase'[u] = "tested"
    BY <1>4 DEF SmokeTest, Goes, AutoInv, AutoTypeInv, AutoTypeOK
  <2>2. Underway(u)'
    BY <1>2, <1>4, <2>1 DEF SmokeTest, Underway, Before, Answers
  <2>3. QED
    BY <1>1, <1>2, <1>3, <2>1, <2>2, OneRunMoves DEF SmokeTest, Busy
<1>5. CASE ~PassesSmoke(head)
  <2>1. phase'[u] = "off"
    BY <1>5 DEF SmokeTest, Goes, AutoInv, AutoTypeInv, AutoTypeOK
  <2>2. Settled'
    BY <1>2, <1>5 DEF SmokeTest, Reset, Settled, Underway, Before, Answers
  <2>3. QED
    BY <1>1, <1>2, <1>3, <2>1, <2>2, OneRunMoves DEF SmokeTest, Busy
<1>6. QED
  BY <1>4, <1>5

LEMMA RestartKeeps ==
    ASSUME AutoInv, Undisturbed, AutoTypeInv', NEW u \in Updater, RestartService(u)
    PROVE  AutoInv'
<1>1. Busy(u)
  BY DEF RestartService, Busy
<1>2. Underway(u)
  BY <1>1, Alone
<1>3. phase'[u] = "restarted" /\ \A w \in Updater \ {u} : phase'[w] = phase[w]
  BY DEF RestartService, Goes, AutoInv, AutoTypeInv, AutoTypeOK
<1>4. service'.code \in passed'
  BY <1>2 DEF RestartService, Restarted, Underway
<1>5. Underway(u)'
  BY <1>2, <1>3 DEF RestartService, Restarted, Underway, Before
<1>6. QED
  BY <1>1, <1>3, <1>4, <1>5, OneRunMoves DEF RestartService, Busy

LEMMA HealthCheckKeeps ==
    ASSUME AutoInv, Undisturbed, AutoTypeInv', NEW u \in Updater, HealthCheck(u)
    PROVE  AutoInv'
<1>1. Busy(u)
  BY DEF HealthCheck, Busy
<1>2. Underway(u) /\ service.code \in passed
  BY <1>1, Alone
<1>3. \A w \in Updater \ {u} : phase'[w] = phase[w]
  BY DEF HealthCheck, Goes, AutoInv, AutoTypeInv, AutoTypeOK
<1>4. CASE Answers
  <2>1. phase'[u] = "off"
    BY <1>4 DEF HealthCheck, Goes, AutoInv, AutoTypeInv, AutoTypeOK
  <2>2. service = [code |-> head, packages |-> venv]
    BY <1>2 DEF HealthCheck, Underway
  <2>3. Settled'
    BY <1>4, <2>2 DEF HealthCheck, Settled, Answers
  <2>4. QED
    BY <1>1, <1>2, <1>3, <2>1, <2>3, OneRunMoves DEF HealthCheck, Busy
<1>5. CASE ~Answers
  <2>1. phase'[u] = "undone"
    BY <1>5 DEF HealthCheck, Goes, AutoInv, AutoTypeInv, AutoTypeOK
  <2>2. Underway(u)'
    BY <1>2, <1>5, <2>1 DEF HealthCheck, Reset, Underway, Before, AutoInv, AutoTypeInv, AutoTypeOK
  <2>3. QED
    BY <1>1, <1>2, <1>3, <2>1, <2>2, OneRunMoves DEF HealthCheck, Busy
<1>6. QED
  BY <1>4, <1>5

LEMMA RollBackKeeps ==
    ASSUME AutoInv, Undisturbed, AutoTypeInv', NEW u \in Updater, RollBack(u)
    PROVE  AutoInv'
<1>1. Busy(u)
  BY DEF RollBack, Busy
<1>2. Underway(u) /\ head = prev[u]
  BY <1>1, Alone DEF RollBack, Underway
<1>3. phase'[u] = "off" /\ \A w \in Updater \ {u} : phase'[w] = phase[w]
  BY DEF RollBack, Goes, AutoInv, AutoTypeInv, AutoTypeOK
<1>4. Starts(head, venv')
  <2>1. CASE venv' = venv
    BY <1>2, <2>1 DEF Underway
  <2>2. CASE venv' = Req(head) /\ Installs(Req(head))
    <3>1. head \in 1 .. pushed /\ head <= head
      BY UpdateAssumption DEF AutoInv, AutoTypeInv, AutoTypeOK, Commit
    <3>2. Starts(head, venv)
      BY <1>2 DEF Underway
    <3>3. QED
      BY <2>2, <3>1, <3>2, PackagesServe DEF AutoInv
  <2>3. QED
    BY <2>1, <2>2 DEF RollBack
<1>5. service'.code = head /\ service'.packages = venv'
  BY DEF RollBack
<1>6. Settled' /\ service'.code \in passed'
  BY <1>2, <1>4, <1>5 DEF RollBack, Settled, Answers, Underway
<1>7. QED
  BY <1>1, <1>3, <1>6, OneRunMoves DEF RollBack, Busy

LEMMA PushKeeps ==
    ASSUME AutoInv, AutoTypeInv', Push
    PROVE  AutoInv'
BY DEF AutoInv, Push, Undisturbed, Busy, Settled, Answers, Underway, Before

LEMMA UnchangedKeeps ==
    ASSUME AutoInv, UNCHANGED autoVars
    PROVE  AutoInv'
<1>1. AutoTypeInv'
  BY AutoTypeStep DEF AutoInv
<1>2. QED
  BY <1>1 DEF AutoInv, autoVars, Undisturbed, Busy, Settled, Answers, Underway, Before

\* After an accident nothing is promised.
LEMMA AccidentKeeps ==
    ASSUME AutoInv, AutoTypeInv', Accident
    PROVE  AutoInv'
<1>1. accidents' # 0
  BY DEF AutoInv, AutoTypeInv, AutoTypeOK, Accident
<1>2. QED
  BY <1>1 DEF AutoInv, Undisturbed

\* And an overlap is not forgotten.
LEMMA DisturbedStays ==
    ASSUME AutoInv, AutoTypeInv', ~Undisturbed, NEW u \in Updater, Update(u)
    PROVE  AutoInv'
<1>1. ~Undisturbed'
  BY DEF Undisturbed, Update, Compare, Pull, PipInstall, SmokeTest, RestartService, HealthCheck, RollBack
<1>2. QED
  BY <1>1 DEF AutoInv

LEMMA AutoInvStep == AutoInv /\ [AutoNext]_autoVars => AutoInv'
<1> SUFFICES ASSUME AutoInv, [AutoNext]_autoVars
             PROVE  AutoInv'
  OBVIOUS
<1>1. AutoTypeInv'
  BY AutoTypeStep DEF AutoInv
<1>2. ASSUME NEW u \in Updater, Update(u)
      PROVE  AutoInv'
  <2>1. CASE Compare(u)
    BY <1>1, <2>1, CompareKeeps
  <2>2. CASE Undisturbed /\ ~Compare(u)
    BY <1>1, <1>2, <2>2, PullKeeps, PipInstallKeeps, SmokeTestKeeps, RestartKeeps,
       HealthCheckKeeps, RollBackKeeps DEF Update
  <2>3. CASE ~Undisturbed
    BY <1>1, <1>2, <2>3, DisturbedStays
  <2>4. QED
    BY <2>1, <2>2, <2>3
<1>3. CASE Push
  BY <1>1, <1>3, PushKeeps
<1>4. CASE \E u \in Updater : UpToDate(u)
  BY <1>4, UnchangedKeeps DEF UpToDate
<1>5. CASE (\E u \in Updater : RunStops(u)) \/ ServiceRestarts
  BY <1>1, <1>5, AccidentKeeps DEF RunStops, ServiceRestarts
<1>6. QED
  BY <1>2, <1>3, <1>4, <1>5, UnchangedKeeps DEF AutoNext

LEMMA AutoInvInit == AutoInit => AutoInv
<1> SUFFICES ASSUME AutoInit
             PROVE  AutoInv
  OBVIOUS
<1>1. AutoTypeInv
  BY AutoInitType
<1>2. \A u \in Updater : ~Busy(u)
  BY DEF AutoInit, Busy
<1>3. Settled /\ service.code \in passed
  BY FirstCommitAssumption DEF AutoInit, Settled, Answers
<1>4. QED
  BY <1>1, <1>2, <1>3 DEF AutoInv

LEMMA AutoInvAlways == AutoSpec => []AutoInv
BY AutoInvInit, AutoInvStep, PTL DEF AutoSpec

\* While one run follows the other and none is cut short, what runs passed the smoke
\* test, whatever is pushed and whenever: every exit of autoupdate.sh, the roll-back
\* included, leaves the service with a commit that did.
THEOREM TestedCorrect == AutoSpec => []OnlyTestedRuns
<1>1. AutoInv => OnlyTestedRuns
  BY DEF AutoInv, OnlyTestedRuns
<1>2. QED
  BY <1>1, AutoInvAlways, PTL

\* And between two runs the service answers, although it may have new packages under
\* old code by then.
THEOREM AnswersCorrect == AutoSpec => []AnswersWhenIdle
<1>1. AutoInv => AnswersWhenIdle
  BY DEF AutoInv, AnswersWhenIdle, Busy, Settled
<1>2. QED
  BY <1>1, AutoInvAlways, PTL

=============================================================================
