---------------------------- MODULE ServicesProofs ----------------------------
(***************************************************************************)
(* Proofs about the chat and the catch-up tool, and what holds of the      *)
(* programs together.  First the hold of the chat sandbox, for every       *)
(* number of sessions and threads and whatever the holds and waits are set *)
(* to, as long as a hold outlasts two stays (RenewalAssumption).           *)
(***************************************************************************)
EXTENDS MCServices, AutoUpdateProofs, FiniteSetTheorems, WellFoundedInduction

-----------------------------------------------------------------------------
(***************************************************************************)
(* Numbers.                                                                *)
(***************************************************************************)
\* A set of numbers has a smallest one.
LEMMA SmallestNumber ==
    ASSUME NEW T \in SUBSET Nat, T # {}
    PROVE  \E x \in T : \A y \in T : x <= y
<1> DEFINE R == OpToRel(<, Nat)
<1>1. IsWellFoundedOn(R, Nat)
  BY NatLessThanWellFounded, Zenon
<1>2. \A a, b \in Nat : <<a, b>> \in R <=> a < b
  BY DEF OpToRel
<1> HIDE DEF R
<1>3. PICK x \in T : \A y \in T : ~(<<y, x>> \in R)
  BY <1>1, WFMin
<1>4. x \in Nat /\ \A y \in T : y \in Nat
  OBVIOUS
<1>5. \A y \in T : ~(y < x)
  BY <1>2, <1>3, <1>4, Zenon
<1>6. QED
  BY <1>4, <1>5

\* A set that has, with an index, all before it, is as long as its cardinality says.
LEMMA PrefixCounted ==
    ASSUME NEW n \in Nat, NEW H \in SUBSET (1..n),
           \A i, j \in 1..n : i <= j /\ j \in H => i \in H
    PROVE  Cardinality(H) \in Nat /\ \A i \in 1..n : i \in H <=> i <= Cardinality(H)
<1>1. IsFiniteSet(1..n)
  BY FS_Interval
<1>2. IsFiniteSet(H)
  BY <1>1, FS_Subset
<1>3. Cardinality(H) \in Nat
  BY <1>2, FS_CardinalityType
<1>4. ASSUME NEW i \in 1..n, i \in H
      PROVE  i <= Cardinality(H)
  <2>1. 1..i \in SUBSET H
    <3> SUFFICES ASSUME NEW j \in 1..i
                 PROVE  j \in H
      OBVIOUS
    <3>1. j \in 1..n /\ j <= i
      OBVIOUS
    <3>2. QED
      BY <1>4, <3>1
  <2>2. IsFiniteSet(1..i) /\ Cardinality(1..i) = i
    BY FS_Interval
  <2>3. QED
    BY <1>2, <2>1, <2>2, FS_Subset
<1>5. ASSUME NEW i \in 1..n, i \notin H
      PROVE  ~(i <= Cardinality(H))
  <2>1. H \in SUBSET (1..(i - 1))
    <3> SUFFICES ASSUME NEW j \in H, j >= i
                 PROVE  FALSE
      OBVIOUS
    <3>1. j \in 1..n /\ i <= j
      OBVIOUS
    <3>2. QED
      BY <1>5, <3>1
  <2>2. IsFiniteSet(1..(i - 1)) /\ Cardinality(1..(i - 1)) = i - 1
    BY FS_Interval
  <2>3. Cardinality(H) <= Cardinality(1..(i - 1))
    BY <2>1, <2>2, FS_Subset
  <2>4. QED
    BY <1>3, <2>2, <2>3
<1>6. QED
  BY <1>3, <1>4, <1>5

-----------------------------------------------------------------------------
(***************************************************************************)
(* The hold of the chat.                                                   *)
(***************************************************************************)
Place == {"idle", "try", "sleep", "stream", "leave"}

HoldType ==
    /\ hold \in Nat
    /\ chat \in [Session -> Place] /\ stay \in [Session -> Nat]
    /\ thread \in [Thread -> {"hold", "claim", "query", "model"}]
    /\ began \in [Session -> SUBSET Thread]

\* A session that sleeps has a hold that lasts until it has slept and tried once more;
\* one that tries, a hold that lasts until it is refused.
HoldLasts ==
    \A s \in Session :
        /\ chat[s] = "sleep" => stay[s] <= Patience /\ hold + stay[s] >= 2 * Patience + 1
        /\ chat[s] = "try" => stay[s] <= Patience /\ hold + stay[s] >= Patience + 1

NoneAboutToClaim ==
    \A s \in Session, t \in Thread : Waiting(s) /\ t \in began[s] => thread[t] # "claim"

HoldInv == HoldType /\ HoldLasts /\ NoneAboutToClaim

LEMMA Bounds == /\ HoldSeconds \in Nat /\ GraceSeconds \in Nat /\ Patience \in Nat
                /\ HoldSeconds >= 2 * Patience + 1 /\ GraceSeconds >= 2 * Patience + 1
BY ChatAssumption, RenewalAssumption

\* While somebody waits there is a hold.
LEMMA HeldWhileWaiting ==
    ASSUME HoldInv, NEW s \in Session, Waiting(s)
    PROVE  HoldActive
BY Bounds DEF HoldInv, HoldType, HoldLasts, Waiting, HoldActive

\* A new hold is long enough for everybody.
LEMMA NewHoldLasts ==
    ASSUME HoldType, HoldLasts, HoldType',
           hold' = HoldSeconds \/ hold' = GraceSeconds,
           \A s \in Session : \/ chat'[s] = chat[s] /\ stay'[s] = stay[s]
                              \/ stay'[s] = 0
    PROVE  HoldLasts'
BY Bounds DEF HoldType, HoldLasts

LEMMA InitHolds == ChatInit => HoldInv
BY DEF ChatInit, HoldInv, HoldType, HoldLasts, NoneAboutToClaim, Waiting, Place

LEMMA AskKeeps ==
    ASSUME HoldInv, NEW s \in Session, NEW history \in Costs, Ask(s, history)
    PROVE  HoldInv'
<1>1. HoldType'
  BY Bounds DEF HoldInv, HoldType, Ask, Move, Place
<1>2. \A r \in Session : \/ chat'[r] = chat[r] /\ stay'[r] = stay[r]
                         \/ stay'[r] = 0
  BY DEF HoldInv, HoldType, Ask, Move
<1>3. HoldLasts'
  BY <1>1, <1>2, NewHoldLasts DEF HoldInv, Ask
<1>4. NoneAboutToClaim'
  BY DEF HoldInv, HoldType, NoneAboutToClaim, Ask, Move, Waiting
<1>5. QED
  BY <1>1, <1>3, <1>4 DEF HoldInv

\* Nobody starts to wait but with Ask, and only Claim adds to began.
LEMMA OthersWait ==
    ASSUME HoldInv, thread' = thread,
           \A s \in Session : Waiting(s)' => Waiting(s) /\ began'[s] = began[s]
    PROVE  NoneAboutToClaim'
BY DEF HoldInv, NoneAboutToClaim

LEMMA SessionKeeps ==
    ASSUME HoldInv, NEW s \in Session, SessionStep(s) \/ Killed(s)
    PROVE  HoldInv'
<1>1. CASE Refused(s)
  <2>1. HoldType'
    BY <1>1, Bounds DEF HoldInv, HoldType, Refused, Move, Renew, Place
  <2>2. \A r \in Session : \/ chat'[r] = chat[r] /\ stay'[r] = stay[r]
                           \/ stay'[r] = 0
    BY <1>1 DEF HoldInv, HoldType, Refused, Move
  <2>3. HoldLasts'
    BY <1>1, <2>1, <2>2, NewHoldLasts DEF HoldInv, Refused, Renew
  <2>4. NoneAboutToClaim'
    BY <1>1, OthersWait DEF HoldInv, HoldType, Refused, Move, Waiting
  <2>5. QED
    BY <2>1, <2>3, <2>4 DEF HoldInv
<1>2. CASE Retry(s)
  <2>1. HoldType'
    BY <1>2 DEF HoldInv, HoldType, Retry, Move, Place
  <2>2. HoldLasts'
    BY <1>2, Bounds DEF HoldInv, HoldType, HoldLasts, Retry, Move
  <2>3. NoneAboutToClaim'
    BY <1>2, OthersWait DEF HoldInv, HoldType, Retry, Move, Waiting
  <2>4. QED
    BY <2>1, <2>2, <2>3 DEF HoldInv
<1>3. CASE Admitted(s) \/ Fails(s) \/ Ends(s) \/ Killed(s)
  <2>1. /\ hold' = hold /\ thread' = thread
        /\ \E place \in {"idle", "stream", "leave"} : chat' = [chat EXCEPT ![s] = place]
        /\ stay' = [stay EXCEPT ![s] = 0]
        /\ began' = began \/ began' = [began EXCEPT ![s] = {}]
    BY <1>3 DEF Admitted, Fails, Ends, Killed, LeftIdle, Move
  <2>2. /\ chat' \in [Session -> Place] /\ chat'[s] \in {"idle", "stream", "leave"}
        /\ \A r \in Session \ {s} : chat'[r] = chat[r]
    BY <2>1 DEF HoldInv, HoldType, Place
  <2>3. stay' \in [Session -> Nat] /\ \A r \in Session \ {s} : stay'[r] = stay[r]
    BY <2>1 DEF HoldInv, HoldType
  <2>4. began' \in [Session -> SUBSET Thread] /\ \A r \in Session \ {s} : began'[r] = began[r]
    BY <2>1 DEF HoldInv, HoldType
  <2>5. HoldType'
    BY <2>1, <2>2, <2>3, <2>4 DEF HoldInv, HoldType
  <2>6. HoldLasts'
    BY <2>1, <2>2, <2>3 DEF HoldInv, HoldLasts
  <2>7. NoneAboutToClaim'
    BY <2>1, <2>2, <2>4, OthersWait DEF Waiting
  <2>8. QED
    BY <2>5, <2>6, <2>7 DEF HoldInv
<1>4. CASE Leave(s)
  <2>1. HoldType'
    BY <1>4, Bounds DEF HoldInv, HoldType, Leave, LeftIdle, Move, Place
  <2>2. \A r \in Session : \/ chat'[r] = chat[r] /\ stay'[r] = stay[r]
                           \/ stay'[r] = 0
    BY <1>4 DEF HoldInv, HoldType, Leave, Move
  <2>3. HoldLasts'
    BY <1>4, <2>1, <2>2, NewHoldLasts DEF HoldInv, Leave
  <2>4. NoneAboutToClaim'
    BY <1>4, OthersWait DEF HoldInv, HoldType, Leave, LeftIdle, Move, Waiting
  <2>5. QED
    BY <2>1, <2>3, <2>4 DEF HoldInv
<1>5. QED
  BY <1>1, <1>2, <1>3, <1>4 DEF SessionStep

LEMMA ThreadKeeps ==
    ASSUME HoldInv, NEW t \in Thread, ThreadStep(t)
    PROVE  HoldInv'
<1>1. HoldType' /\ UNCHANGED <<hold, chat, stay>>
  BY DEF HoldInv, HoldType, ThreadStep, PassHold, Claim, TakeSlot, Finish, Go, sessionVars
<1>2. HoldLasts'
  BY <1>1 DEF HoldInv, HoldLasts
<1>3. CASE PassHold(t)
  <2>1. \A s \in Session : ~Waiting(s)
    BY <1>3, HeldWhileWaiting DEF PassHold
  <2>2. QED
    BY <1>1, <1>2, <2>1 DEF HoldInv, NoneAboutToClaim, Waiting
<1>4. CASE Claim(t)
  <2>1. thread'[t] = "query" /\ \A u \in Thread \ {t} : thread'[u] = thread[u]
    BY <1>4 DEF Claim, Go, HoldInv, HoldType
  <2>2. \A s \in Session : began'[s] \subseteq began[s] \cup {t}
    BY <1>4 DEF Claim
  <2>3. NoneAboutToClaim'
    BY <1>1, <2>1, <2>2 DEF HoldInv, NoneAboutToClaim, Waiting
  <2>4. QED
    BY <1>1, <1>2, <2>3 DEF HoldInv
<1>5. CASE TakeSlot(t) \/ Finish(t)
  <2>1. began' = began /\ thread'[t] # "claim" /\ \A u \in Thread \ {t} : thread'[u] = thread[u]
    BY <1>5 DEF TakeSlot, Finish, Go, HoldInv, HoldType
  <2>2. NoneAboutToClaim'
    BY <1>1, <2>1 DEF HoldInv, NoneAboutToClaim, Waiting
  <2>3. QED
    BY <1>1, <1>2, <2>2 DEF HoldInv
<1>6. QED
  BY <1>3, <1>4, <1>5 DEF ThreadStep

\* The hold loses a second, and every stay gains one.
LEMMA TickKeeps == HoldInv /\ Tick => HoldInv'
<1> SUFFICES ASSUME HoldInv, Tick
             PROVE  HoldInv'
  OBVIOUS
<1>1. HoldType'
  BY DEF HoldInv, HoldType, Tick, Less
<1>2. hold' >= hold - 1 /\ hold' \in Nat
  BY DEF HoldInv, HoldType, Tick, Less
<1>3. \A s \in Session : chat[s] \in {"try", "sleep"} =>
          stay'[s] = stay[s] + 1 /\ stay[s] < Patience
  BY DEF HoldInv, HoldType, Tick, Limit
<1>4. HoldLasts'
  BY <1>2, <1>3, Bounds DEF HoldInv, HoldType, HoldLasts, Tick
<1>5. NoneAboutToClaim'
  BY OthersWait DEF Tick, Waiting
<1>6. QED
  BY <1>1, <1>4, <1>5 DEF HoldInv

LEMMA HoldInvStep == HoldInv /\ [ChatNext]_chatVars => HoldInv'
<1>1. ASSUME HoldInv, UNCHANGED chatVars
      PROVE  HoldInv'
  BY <1>1 DEF HoldInv, HoldType, HoldLasts, NoneAboutToClaim, Waiting, chatVars, sessionVars
<1>2. QED
  BY <1>1, AskKeeps, SessionKeeps, ThreadKeeps, TickKeeps DEF ChatNext

LEMMA HoldInvAlways == ChatSpec => []HoldInv
BY InitHolds, HoldInvStep, PTL DEF ChatSpec

\* However many chats there are, however often the model refuses them and whenever one
\* of them ends, while a user waits each thread takes at most one offense more.
THEOREM OneMoreCorrect == ChatSpec => OneMorePerThread
<1>1. HoldInv /\ [ChatNext]_chatVars =>
        [\A s \in Session, t \in Thread :
            Waiting(s) /\ t \in began[s] => ~(thread[t] = "claim" /\ thread'[t] = "query")]_chatVars
  BY DEF HoldInv, NoneAboutToClaim
<1>2. QED
  BY <1>1, HoldInvAlways, PTL DEF ChatSpec, OneMorePerThread

\* Nobody waits for the slot without a hold that keeps the worker away.
THEOREM WaitingIsHeld == ChatSpec => [](\A s \in Session : Waiting(s) => HoldActive)
<1>1. HoldInv => \A s \in Session : Waiting(s) => HoldActive
  BY HeldWhileWaiting
<1>2. QED
  BY <1>1, HoldInvAlways, PTL

-----------------------------------------------------------------------------
(***************************************************************************)
(* The rest of the shape of the chats, and who has the slot.               *)
(***************************************************************************)
LEMMA ChatBounds ==
    /\ HoldSeconds \in Nat /\ GraceSeconds \in Nat /\ WaitSeconds \in Nat /\ Patience \in Nat
    /\ Nobody \notin Session \cup Thread /\ Session \cap Thread = {}
    /\ Costs \subseteq Seq(Nat) \ {<<>>}
BY ChatAssumption

\* Of a history some messages are kept, the newest in any case: those from the newest back
\* to the first that does not fit.
LEMMA KeptIs ==
    ASSUME NEW history \in Costs
    PROVE  /\ Kept(history) \in 1..Len(history)
           /\ Kept(history) > 1 => CostOf(history, Kept(history)) <= Budget
           /\ Kept(history) < Len(history) => ~(CostOf(history, Kept(history) + 1) <= Budget)
<1> DEFINE n == Len(history)
           Fitting == {j \in 1..n : \A i \in 1..j : Fits(history, i)}
           c == Cardinality(Fitting)
           Is(k) == (\A j \in 1..k : Fits(history, j)) /\ (k < n => ~Fits(history, k + 1))
<1>1. n \in Nat /\ n >= 1
  BY ChatBounds
<1> HIDE DEF n
<1>2. Fits(history, 1)
  BY DEF Fits
<1>3. Fitting \in SUBSET (1..n)
  OBVIOUS
<1>4. \A j \in 1..n : j \in Fitting <=> \A i \in 1..j : Fits(history, i)
  OBVIOUS
<1> HIDE DEF Fitting
<1>5. \A i, j \in 1..n : i <= j /\ j \in Fitting => i \in Fitting
  BY <1>4
<1>6. c \in Nat /\ \A i \in 1..n : i \in Fitting <=> i <= c
  BY <1>1, <1>3, <1>5, PrefixCounted
<1>7. c <= n
  <2>1. Cardinality(1..n) = n /\ IsFiniteSet(1..n)
    BY <1>1, FS_Interval
  <2>2. QED
    BY <1>3, <2>1, FS_Subset
<1> HIDE DEF c
<1>8. c \in 0..n /\ Is(c)
  <2>1. \A j \in 1..c : Fits(history, j)
    BY <1>1, <1>4, <1>6, <1>7
  <2>2. ASSUME c < n, Fits(history, c + 1)
        PROVE  FALSE
    <3>1. c + 1 \in 1..n /\ c + 1 \notin Fitting
      BY <1>1, <1>6, <2>2
    <3>2. \A i \in 1 .. c + 1 : Fits(history, i)
      <4>1. \A i \in 1 .. c + 1 : i \in 1..c \/ i = c + 1
        BY <1>6
      <4>2. QED
        BY <2>1, <2>2, <4>1
    <3>3. QED
      BY <1>4, <3>1, <3>2
  <2>3. QED
    BY <1>6, <1>7, <2>1, <2>2
<1>9. Kept(history) = CHOOSE k \in 0..n : Is(k)
  BY DEF Kept, n
<1> HIDE DEF Is
<1>10. Kept(history) \in 0..n /\ Is(Kept(history))
  BY <1>8, <1>9
<1>11. Kept(history) # 0
  BY <1>1, <1>2, <1>10 DEF Is
<1>12. QED
  BY <1>1, <1>10, <1>11 DEF Is, Fits, n

HistoryInv ==
    /\ costs \in [Session -> Costs \cup {<<>>}] /\ dropped \in [Session -> Nat]
    /\ chat \in [Session -> Place]
    /\ HistoryFits

LEMMA HistoryStart == ChatInit => HistoryInv
BY DEF ChatInit, HistoryInv, HistoryFits, Place

LEMMA AskHistory ==
    ASSUME HistoryInv, NEW s \in Session, NEW history \in Costs, Ask(s, history)
    PROVE  HistoryInv'
<1>1. /\ chat' = [chat EXCEPT ![s] = "try"]
      /\ costs' = [costs EXCEPT ![s] = history]
      /\ dropped' = [dropped EXCEPT ![s] = Len(history) - Kept(history)]
  BY DEF Ask, Move
<1>2. Len(history) \in Nat /\ Kept(history) \in 1..Len(history)
  BY KeptIs, ChatBounds
<1>3. /\ costs' \in [Session -> Costs \cup {<<>>}] /\ dropped' \in [Session -> Nat]
      /\ chat' \in [Session -> Place]
  BY <1>1, <1>2 DEF HistoryInv, Place
<1>4. costs'[s] = history /\ dropped'[s] = Len(history) - Kept(history)
  BY <1>1 DEF HistoryInv
<1>5. \A r \in Session \ {s} :
        costs'[r] = costs[r] /\ dropped'[r] = dropped[r] /\ chat'[r] = chat[r]
  BY <1>1 DEF HistoryInv
<1>6. ASSUME NEW r \in Session, chat'[r] # "idle"
      PROVE  /\ Len(costs'[r]) - dropped'[r] >= 1
             /\ Len(costs'[r]) - dropped'[r] > 1 =>
                   CostOf(costs'[r], Len(costs'[r]) - dropped'[r]) <= Budget
             /\ dropped'[r] > 0 => ~(CostOf(costs'[r], Len(costs'[r]) - dropped'[r] + 1) <= Budget)
  <2>1. CASE r = s
    <3>1. Len(history) - (Len(history) - Kept(history)) = Kept(history)
      BY <1>2
    <3>2. Len(history) - Kept(history) > 0 => Kept(history) < Len(history)
      BY <1>2
    <3>3. QED
      BY <1>2, <1>4, <2>1, <3>1, <3>2, KeptIs
  <2>2. CASE r # s
    BY <1>5, <1>6, <2>2 DEF HistoryInv, HistoryFits
  <2>3. QED
    BY <2>1, <2>2
<1>7. QED
  BY <1>3, <1>6 DEF HistoryInv, HistoryFits

\* All other steps leave the history of a session as it is, or clear it with the session.
LEMMA HistoryStep == HistoryInv /\ [ChatNext]_chatVars => HistoryInv'
<1> SUFFICES ASSUME HistoryInv, [ChatNext]_chatVars
             PROVE  HistoryInv'
  OBVIOUS
<1>1. ASSUME UNCHANGED <<chat, costs, dropped>>
      PROVE  HistoryInv'
  BY <1>1 DEF HistoryInv, HistoryFits
<1>2. ASSUME NEW s \in Session, SessionStep(s) \/ Killed(s)
      PROVE  HistoryInv'
  <2>1. PICK place \in Place : chat' = [chat EXCEPT ![s] = place]
    BY <1>2 DEF SessionStep, Refused, Retry, Admitted, Fails, Ends, Leave, Killed, Move, Place
  <2>2. \/ UNCHANGED <<costs, dropped>> /\ chat[s] # "idle"
        \/ place = "idle" /\ costs' = [costs EXCEPT ![s] = <<>>] /\ dropped' = [dropped EXCEPT ![s] = 0]
    <3>1. CASE Leave(s) \/ Killed(s)
      <4>1. chat'[s] = place /\ chat'[s] = "idle"
        BY <2>1, <3>1 DEF Leave, Killed, Move, HistoryInv
      <4>2. QED
        BY <3>1, <4>1 DEF Leave, Killed, LeftIdle
    <3>2. CASE Refused(s) \/ Retry(s) \/ Admitted(s) \/ Fails(s) \/ Ends(s)
      BY <3>2 DEF Refused, Retry, Admitted, Fails, Ends, Move
    <3>3. QED
      BY <1>2, <3>1, <3>2 DEF SessionStep
  <2>3. /\ costs' \in [Session -> Costs \cup {<<>>}] /\ dropped' \in [Session -> Nat]
        /\ chat' \in [Session -> Place]
    BY <2>1, <2>2 DEF HistoryInv
  <2>4. ASSUME NEW r \in Session, chat'[r] # "idle"
        PROVE  chat[r] # "idle" /\ costs'[r] = costs[r] /\ dropped'[r] = dropped[r]
    BY <2>1, <2>2, <2>4 DEF HistoryInv
  <2>5. HistoryFits'
    BY <2>4 DEF HistoryInv, HistoryFits
  <2>6. QED
    BY <2>3, <2>5 DEF HistoryInv
<1>3. CASE Tick \/ \E t \in Thread : ThreadStep(t)
  BY <1>1, <1>3 DEF Tick, ThreadStep, PassHold, Claim, TakeSlot, Finish, sessionVars
<1>4. QED
  BY <1>1, <1>2, <1>3, AskHistory DEF ChatNext, chatVars, sessionVars

\* The history sent to the model loses its oldest messages only, as few as must go, and
\* never the newest, whatever the costs and the budget are.
THEOREM HistoryCorrect == ChatSpec => []HistoryFits
<1>1. HistoryInv => HistoryFits
  BY DEF HistoryInv
<1>2. QED
  BY <1>1, HistoryStart, HistoryStep, PTL DEF ChatSpec

LEMMA ChatTypeStart == ChatInit => ChatTypeOK
BY ChatBounds DEF ChatInit, ChatTypeOK

\* A session keeps the shape, and takes the slot only when it is free.
LEMMA SessionTypeKeeps ==
    ASSUME ChatTypeOK, HistoryInv', NEW s \in Session,
           SessionStep(s) \/ Killed(s) \/ \E history \in Costs : Ask(s, history)
    PROVE  ChatTypeOK'
<1>1. /\ costs' \in [Session -> Costs \cup {<<>>}] /\ dropped' \in [Session -> Nat]
      /\ chat' \in [Session -> {"idle", "try", "sleep", "stream", "leave"}]
  BY DEF HistoryInv, Place
<1>2. hold' = hold \/ hold' = HoldSeconds \/ hold' = GraceSeconds
  BY DEF SessionStep, Refused, Renew, Retry, Admitted, Fails, Ends, Leave, Killed, Ask
<1>3. hold' \in 0..HoldSeconds \cup 0..GraceSeconds
  BY <1>2, ChatBounds DEF ChatTypeOK
<1>4. stay' = [stay EXCEPT ![s] = 0] /\ UNCHANGED <<thread, age>>
      /\ (waited' = waited \/ waited' = [waited EXCEPT ![s] = 0])
      /\ (began' = began \/ began' = [began EXCEPT ![s] = {}])
  BY DEF SessionStep, Refused, Retry, Admitted, Fails, Ends, Leave, LeftIdle, Killed, Ask, Move
<1>5. /\ stay' \in [Session -> Nat] /\ waited' \in [Session -> 0..WaitSeconds]
      /\ began' \in [Session -> SUBSET Thread]
  <2>1. stay' \in [Session -> Nat]
    BY <1>4 DEF ChatTypeOK
  <2>2. waited' \in [Session -> 0..WaitSeconds]
    <3>1. waited \in [Session -> 0..WaitSeconds] /\ 0 \in 0..WaitSeconds
      BY ChatBounds DEF ChatTypeOK
    <3> DEFINE N == 0..WaitSeconds
    <3> HIDE DEF N
    <3>2. waited \in [Session -> N] /\ 0 \in N => waited' \in [Session -> N]
      BY <1>4
    <3>3. QED
      BY <3>1, <3>2 DEF N
  <2>3. began' \in [Session -> SUBSET Thread]
    BY <1>4 DEF ChatTypeOK
  <2>4. QED
    BY <2>1, <2>2, <2>3
<1>6. \A r \in Session \ {s} : chat'[r] = chat[r]
  BY DEF SessionStep, Refused, Retry, Admitted, Fails, Ends, Leave, Killed, Ask, Move, ChatTypeOK
<1>7. \/ chat[s] # "stream" /\ chat'[s] # "stream" /\ slot' = slot
      \/ chat[s] # "stream" /\ chat'[s] = "stream" /\ slot = Nobody /\ slot' = s
      \/ chat[s] = "stream" /\ chat'[s] # "stream" /\ slot' = Nobody
  <2>1. CASE Admitted(s)
    BY <2>1 DEF Admitted, Move, ChatTypeOK
  <2>2. CASE Ends(s)
    BY <2>2 DEF Ends, Move, ChatTypeOK
  <2>3. CASE Killed(s)
    BY <2>3 DEF Killed, ChatTypeOK
  <2>4. CASE Refused(s) \/ Retry(s) \/ Fails(s) \/ Leave(s) \/ \E history \in Costs : Ask(s, history)
    BY <2>4 DEF Refused, Retry, Fails, Leave, Ask, Move, ChatTypeOK
  <2>5. QED
    BY <2>1, <2>2, <2>3, <2>4 DEF SessionStep
<1>8. slot' \in Session \cup Thread \cup {Nobody}
  BY <1>7 DEF ChatTypeOK
<1>9. \A r \in Session : chat'[r] = "stream" <=> slot' = r
  BY <1>6, <1>7, ChatBounds DEF ChatTypeOK
<1>10. \A t \in Thread : thread'[t] = "model" <=> slot' = t
  BY <1>4, <1>7, ChatBounds DEF ChatTypeOK
<1>11. QED
  BY <1>1, <1>3, <1>4, <1>5, <1>8, <1>9, <1>10 DEF ChatTypeOK

LEMMA ThreadTypeKeeps ==
    ASSUME ChatTypeOK, NEW t \in Thread, ThreadStep(t)
    PROVE  ChatTypeOK'
<1>1. /\ thread' \in [Thread -> {"hold", "claim", "query", "model"}] /\ age' = [age EXCEPT ![t] = 0]
      /\ UNCHANGED <<hold, chat, stay, waited, costs, dropped>>
      /\ \A u \in Thread \ {t} : thread'[u] = thread[u]
  BY DEF ThreadStep, PassHold, Claim, TakeSlot, Finish, Go, sessionVars, ChatTypeOK
<1>2. age' \in [Thread -> Nat]
  BY <1>1 DEF ChatTypeOK
<1>3. began' \in [Session -> SUBSET Thread]
  <2>1. CASE Claim(t)
    <3>1. \A s \in Session : (IF chat[s] = "idle" THEN {} ELSE began[s] \cup {t}) \in SUBSET Thread
      BY DEF ChatTypeOK
    <3>2. QED
      BY <2>1, <3>1 DEF Claim
  <2>2. CASE PassHold(t) \/ TakeSlot(t) \/ Finish(t)
    BY <2>2 DEF PassHold, TakeSlot, Finish, ChatTypeOK
  <2>3. QED
    BY <2>1, <2>2 DEF ThreadStep
<1>4. \/ thread[t] # "model" /\ thread'[t] # "model" /\ slot' = slot
      \/ thread[t] # "model" /\ thread'[t] = "model" /\ slot = Nobody /\ slot' = t
      \/ thread[t] = "model" /\ thread'[t] # "model" /\ slot' = Nobody
  <2>1. CASE PassHold(t) \/ Claim(t)
    BY <2>1 DEF PassHold, Claim, Go, ChatTypeOK
  <2>2. CASE TakeSlot(t)
    BY <2>2 DEF TakeSlot, Go, ChatTypeOK
  <2>3. CASE Finish(t)
    BY <2>3 DEF Finish, Go, ChatTypeOK
  <2>4. QED
    BY <2>1, <2>2, <2>3 DEF ThreadStep
<1>5. slot' \in Session \cup Thread \cup {Nobody}
  BY <1>4 DEF ChatTypeOK
<1>6. \A r \in Session : chat'[r] = "stream" <=> slot' = r
  BY <1>1, <1>4, ChatBounds DEF ChatTypeOK
<1>7. \A u \in Thread : thread'[u] = "model" <=> slot' = u
  BY <1>1, <1>4, ChatBounds DEF ChatTypeOK
<1>8. QED
  BY <1>1, <1>2, <1>3, <1>5, <1>6, <1>7 DEF ChatTypeOK

LEMMA TickTypeKeeps ==
    ASSUME ChatTypeOK, Tick
    PROVE  ChatTypeOK'
<1>1. hold' \in 0..HoldSeconds \cup 0..GraceSeconds
  BY ChatBounds DEF Tick, Less, ChatTypeOK
<1>2. stay' \in [Session -> Nat] /\ age' \in [Thread -> Nat]
  BY DEF Tick, ChatTypeOK
<1>3. waited' \in [Session -> 0..WaitSeconds]
  BY ChatBounds DEF Tick, ChatTypeOK
<1>4. QED
  BY <1>1, <1>2, <1>3 DEF Tick, ChatTypeOK

ChatShape == ChatTypeOK /\ HistoryInv

LEMMA ChatShapeStep == ChatShape /\ [ChatNext]_chatVars => ChatShape'
<1> SUFFICES ASSUME ChatShape, [ChatNext]_chatVars
             PROVE  ChatShape'
  OBVIOUS
<1>1. HistoryInv'
  BY HistoryStep DEF ChatShape
<1>2. CASE UNCHANGED chatVars
  BY <1>1, <1>2 DEF ChatShape, ChatTypeOK, chatVars, sessionVars
<1>3. QED
  BY <1>1, <1>2, SessionTypeKeeps, ThreadTypeKeeps, TickTypeKeeps DEF ChatNext, ChatShape

-----------------------------------------------------------------------------
(***************************************************************************)
(* The catch-up tool: the shape of a pass, and what it found.              *)
(***************************************************************************)
Candidate ==
    [id : Old, case : Nat, loud : Nat, start : Nat,
     why : Retryable \cup {"NEVER_SEEN"}]

Statuses == Endings \cup {"none", "PROCESSING", "QRADAR_UNAVAILABLE"}

\* What can be put in order: finitely many candidates, each offense once.
Sortable(found) ==
    /\ IsFiniteSet(found) /\ found \subseteq Candidate
    /\ \A c, d \in found : c.id = d.id => c = d

\* The plan is the front part of an order of all that was found.
PlanOf(found) ==
    \E list \in [1 .. Cardinality(found) -> found] :
        /\ IsOrder(list, found)
        /\ plan \in Seq(found) /\ Len(plan) <= Cardinality(found)
        /\ \A i \in 1 .. Len(plan) : plan[i] = list[i]

CatchInv ==
    /\ CatchTypeOK
    /\ queueRows \in [Old -> Q!Row \cup {Absent}]
    /\ IsFiniteSet(sending) /\ refused \in Nat
    /\ taken \in 0 .. Len(plan)
    /\ Sortable(wanted) /\ PlanOf(wanted)

LEMMA CatchBounds ==
    /\ Old \subseteq Nat /\ IsFiniteSet(Old) /\ Recent \subseteq Old
    /\ Workers \in Nat /\ MaxFaults \in Nat
    /\ \A arg \in Option :
        arg.limit \in Nat /\ arg.retry \subseteq Retryable /\ arg.manual \in BOOLEAN /\ arg.force \in BOOLEAN
BY CatchupAssumption DEF Retryable

\* No candidates, no plan.
LEMMA NothingFound ==
    ASSUME NEW found, found = {}, plan = <<>>
    PROVE  Sortable(found) /\ PlanOf(found)
<1>1. IsFiniteSet(found) /\ Cardinality(found) = 0
  BY FS_EmptySet
<1>2. Sortable(found)
  BY <1>1 DEF Sortable
<1> DEFINE none == [i \in 1 .. 0 |-> i]
<1>3. none \in [1 .. Cardinality(found) -> found] /\ IsOrder(none, found)
  BY <1>1 DEF IsOrder
<1>4. plan \in Seq(found) /\ Len(plan) = 0
  OBVIOUS
<1>5. /\ plan \in Seq(found) /\ Len(plan) <= Cardinality(found)
      /\ \A i \in 1 .. Len(plan) : plan[i] = none[i]
  BY <1>1, <1>4
<1>6. PlanOf(found)
  BY <1>3, <1>5, Zenon DEF PlanOf
<1>7. QED
  BY <1>2, <1>6

LEMMA CatchStart == CatchInit => CatchInv
<1> SUFFICES ASSUME CatchInit
             PROVE  CatchInv
  OBVIOUS
<1>1. Sortable(wanted) /\ PlanOf(wanted)
  BY NothingFound DEF CatchInit
<1>2. IsFiniteSet(sending) /\ Cardinality(sending) = 0
  BY FS_EmptySet DEF CatchInit
<1>3. queueRows \in [Old -> Q!Row \cup {Absent}]
  BY DEF CatchInit
<1>4. CatchTypeOK
  BY <1>2, CatchBounds DEF CatchInit, CatchTypeOK, Endings
<1>5. taken \in 0 .. Len(plan) /\ refused \in Nat
  BY DEF CatchInit
<1>6. QED
  BY <1>1, <1>2, <1>3, <1>4, <1>5 DEF CatchInv

\* What classify finds can be put in order.
LEMMA FoundSortable ==
    ASSUME CatchInv, NEW named \in BOOLEAN, NEW arg \in Option, StartPass(named, arg)
    PROVE  Sortable(wanted')
<1> DEFINE chosen == {x \in Old : Classify(x, Matches(x, named), arg)}
           Rec(o) == [id |-> o, case |-> UseCase(o, named), loud |-> LoudnessOf(o),
                      start |-> Started(o), why |-> Reason(o)]
           f == [o \in chosen |-> Rec(o)]
<1>1. wanted' = {Rec(o) : o \in chosen}
  BY DEF StartPass
<1>2. IsFiniteSet(chosen)
  BY CatchBounds, FS_Subset
<1>3. \A o \in chosen : Reason(o) \in Retryable \cup {"NEVER_SEEN"}
  BY DEF Reason
<1>4. \A o \in chosen :
        o \in Old /\ UseCase(o, named) \in Nat /\ LoudnessOf(o) \in Nat /\ Started(o) \in Nat
  BY CatchupAssumption
<1> HIDE DEF chosen
<1>5. \A o \in chosen : Rec(o) \in Candidate /\ Rec(o).id = o
  BY <1>3, <1>4 DEF Candidate
<1> HIDE DEF Rec
<1>6. f \in Surjection(chosen, wanted')
  <2>1. f \in [chosen -> wanted']
    BY <1>1
  <2>2. \A t \in wanted' : \E o \in chosen : f[o] = t
    BY <1>1
  <2>3. QED
    BY <2>1, <2>2 DEF Surjection
<1>7. IsFiniteSet(wanted')
  BY <1>2, <1>6, FS_Surjection
<1>8. wanted' \subseteq Candidate /\ \A c, d \in wanted' : c.id = d.id => c = d
  BY <1>1, <1>5
<1>9. QED
  BY <1>7, <1>8 DEF Sortable

LEMMA StartPassKeeps ==
    ASSUME CatchInv, NEW named \in BOOLEAN, NEW arg \in Option, StartPass(named, arg)
    PROVE  CatchInv'
<1>1. Sortable(wanted')
  BY FoundSortable
<1>2. Cardinality(wanted') \in Nat
  BY <1>1, FS_CardinalityType DEF Sortable
<1>3. PICK list \in [1 .. Cardinality(wanted') -> wanted'] :
        IsOrder(list, wanted') /\ plan' = UpToLimit(list, arg.limit)
  BY DEF StartPass
<1>4. /\ plan' \in Seq(wanted') /\ Len(plan') <= Cardinality(wanted')
      /\ \A i \in 1 .. Len(plan') : plan'[i] = list[i]
  <2>1. list \in Seq(wanted') /\ Len(list) = Cardinality(wanted') /\ arg.limit \in Nat
    BY <1>2, <1>3, CatchBounds
  <2>2. QED
    BY <1>2, <1>3, <2>1 DEF UpToLimit
<1>5. PlanOf(wanted)'
  BY <1>3, <1>4 DEF PlanOf
<1>6. sending = {} /\ sending' = {} /\ taken' = 0 /\ refused' = 0
  BY DEF StartPass, Idle, CatchInv, CatchTypeOK
<1>7. Len(plan') \in Nat
  BY <1>4
<1>8. UNCHANGED <<known, noted, inWindow, queueRows, faults>>
      /\ excused' = {} /\ mode' = [manual |-> arg.manual, force |-> arg.force]
  BY DEF StartPass
<1>9. mode' \in [manual : BOOLEAN, force : BOOLEAN]
  BY <1>8, CatchBounds
<1>10. Cardinality(sending') <= Workers
  BY <1>6 DEF CatchInv, CatchTypeOK
<1>11. CatchTypeOK'
  BY <1>6, <1>8, <1>9, <1>10, CatchBounds DEF CatchTypeOK, CatchInv
<1>12. QED
  BY <1>1, <1>5, <1>6, <1>7, <1>8, <1>11 DEF CatchInv

\* The other actions of a pass.
LEMMA TakeKeeps ==
    ASSUME CatchInv, Take
    PROVE  CatchInv'
<1> DEFINE c == plan[taken + 1]
<1>1. /\ taken' = taken + 1 /\ taken' \in 0 .. Len(plan') /\ plan' = plan
      /\ UNCHANGED <<known, noted, inWindow, queueRows, wanted, mode, refused, excused>>
  BY DEF Take, CatchInv
<1>2. sending' = sending \/ sending' = sending \cup {c.id}
  BY DEF Take
<1>3. faults' \in 0 .. MaxFaults /\ refused' <= faults'
  BY CatchBounds DEF Take, Fault, CatchInv, CatchTypeOK
<1>4. IsFiniteSet(sending') /\ Cardinality(sending') <= Workers
  <2>1. Cardinality(sending) \in Nat /\ IsFiniteSet(sending) /\ Cardinality(sending) < Workers
    BY FS_CardinalityType DEF Take, ThreadFree, CatchInv
  <2>2. /\ IsFiniteSet(sending \cup {c.id})
        /\ \/ Cardinality(sending \cup {c.id}) = Cardinality(sending)
           \/ Cardinality(sending \cup {c.id}) = Cardinality(sending) + 1
    BY <2>1, FS_AddElement
  <2>3. Cardinality(sending \cup {c.id}) <= Workers
    BY <2>1, <2>2, CatchBounds
  <2>4. CASE sending' = sending
    BY <2>1, <2>4, CatchBounds
  <2>5. CASE sending' = sending \cup {c.id}
    BY <2>2, <2>3, <2>5
  <2>6. QED
    BY <1>2, <2>4, <2>5
<1>5. \A o \in sending' : \E i \in 1 .. taken' : plan'[i].id = o
  <2>1. taken \in Nat /\ \A o \in sending : \E i \in 1 .. taken : plan[i].id = o
    BY DEF CatchInv, CatchTypeOK
  <2>2. QED
    BY <1>1, <1>2, <2>1
<1>6. CatchTypeOK'
  BY <1>1, <1>3, <1>4, <1>5 DEF CatchTypeOK, CatchInv
<1>7. QED
  BY <1>1, <1>4, <1>6 DEF CatchInv, PlanOf

\* Only the queue changes, and what is put there is a row of somebody's wish.
LEMMA EnqueueKeeps ==
    ASSUME CatchInv, NEW o \in Old, NEW source \in {"manual", "catchup"},
           NEW force \in BOOLEAN, NEW forced \in BOOLEAN,
           queueRows' = Q!Enqueue(queueRows, o, LoudnessOf(o), source, force, forced, 0)
    PROVE  /\ queueRows' \in [Old -> Q!Row \cup {Absent}]
           /\ \A x \in Old : queueRows'[x] # Absent =>
                queueRows'[x] \in Q!Row /\ queueRows'[x].source # "auto"
<1> DEFINE new == Q!NewRow(LoudnessOf(o), source, force, 0)
           louder == [queueRows[o] EXCEPT !.magnitude = LoudnessOf(o)]
<1>1. new \in Q!Row /\ new.source # "auto"
  BY DEF Q!NewRow, Q!Row, Q!Status, Q!Source, Q!NULL
<1>2. \/ queueRows' = [queueRows EXCEPT ![o] = new]
      \/ queueRows[o] # Absent /\ queueRows' = [queueRows EXCEPT ![o] = louder]
      \/ queueRows' = queueRows
  BY DEF Q!Enqueue, Q!EnqueueOutcome
<1>3. queueRows \in [Old -> Q!Row \cup {Absent}]
      /\ \A x \in Old : queueRows[x] # Absent =>
            queueRows[x] \in Q!Row /\ queueRows[x].source # "auto"
  BY DEF CatchInv, CatchTypeOK
<1>4. queueRows[o] # Absent => louder \in Q!Row /\ louder.source # "auto"
  BY <1>3 DEF Q!Row
<1> HIDE DEF new, louder
<1>5. QED
  BY <1>1, <1>2, <1>3, <1>4

LEMMA MarkKeeps ==
    ASSUME CatchInv, NEW o \in Old, NEW status \in {"DONE", "ERROR"},
           queueRows' = Q!Mark(queueRows, o, status)
    PROVE  /\ queueRows' \in [Old -> Q!Row \cup {Absent}]
           /\ \A x \in Old : queueRows'[x] # Absent =>
                queueRows'[x] \in Q!Row /\ queueRows'[x].source # "auto"
<1> DEFINE marked == [queueRows[o] EXCEPT !.status = status, !.lease_until = Q!NULL]
<1>1. queueRows \in [Old -> Q!Row \cup {Absent}]
      /\ \A x \in Old : queueRows[x] # Absent =>
            queueRows[x] \in Q!Row /\ queueRows[x].source # "auto"
  BY DEF CatchInv, CatchTypeOK
<1>2. \/ queueRows' = queueRows
      \/ queueRows[o] # Absent /\ queueRows' = [queueRows EXCEPT ![o] = marked]
  BY DEF Q!Mark
<1>3. queueRows[o] # Absent => marked \in Q!Row /\ marked.source # "auto"
  BY <1>1 DEF Q!Row, Q!Status, Q!NULL
<1> HIDE DEF marked
<1>4. QED
  BY <1>1, <1>2, <1>3

LEMMA LeftKeeps ==
    ASSUME CatchInv, NEW o \in Old, queueRows[o] # Absent, queueRows' = Left(o)
    PROVE  /\ queueRows' \in [Old -> Q!Row \cup {Absent}]
           /\ \A x \in Old : queueRows'[x] # Absent =>
                queueRows'[x] \in Q!Row /\ queueRows'[x].source # "auto"
<1> DEFINE left == [queueRows[o] EXCEPT !.status = "IN_PROGRESS", !.lease_until = 0]
<1>1. queueRows \in [Old -> Q!Row \cup {Absent}]
      /\ \A x \in Old : queueRows[x] # Absent =>
            queueRows[x] \in Q!Row /\ queueRows[x].source # "auto"
  BY DEF CatchInv, CatchTypeOK
<1>2. queueRows' = [queueRows EXCEPT ![o] = left]
  BY <1>1 DEF Left
<1>3. left \in Q!Row /\ left.source # "auto"
  BY <1>1 DEF Q!Row, Q!Status, Q!NULL
<1> HIDE DEF left
<1>4. QED
  BY <1>1, <1>2, <1>3

\* Of a step that leaves the pass alone, or only marks what its threads have posted.
LEMMA PassAlone ==
    ASSUME CatchInv, UNCHANGED <<wanted, plan, mode>>, sending' \subseteq sending,
           excused' \subseteq Old,
           taken' \in taken .. Len(plan), refused' \in Nat, refused' <= faults',
           faults' \in 0 .. MaxFaults, noted' \subseteq Old, inWindow' \subseteq Old,
           known' \in [Old -> Statuses],
           queueRows' \in [Old -> Q!Row \cup {Absent}],
           \A x \in Old : queueRows'[x] # Absent =>
                queueRows'[x] \in Q!Row /\ queueRows'[x].source # "auto"
    PROVE  CatchInv'
<1>1. IsFiniteSet(sending') /\ Cardinality(sending') <= Workers
  <2>1. IsFiniteSet(sending) /\ sending' \in SUBSET sending
    BY DEF CatchInv
  <2>2. IsFiniteSet(sending') /\ Cardinality(sending') <= Cardinality(sending)
    BY <2>1, FS_Subset
  <2>3. Cardinality(sending) \in Nat /\ Cardinality(sending') \in Nat
    BY <2>1, <2>2, FS_CardinalityType
  <2>4. Cardinality(sending) <= Workers /\ Workers \in Nat
    BY CatchBounds DEF CatchInv, CatchTypeOK
  <2>5. QED
    BY <2>2, <2>3, <2>4
<1>2. taken' \in 0 .. Len(plan') /\ taken \in 0 .. Len(plan)
  BY DEF CatchInv
<1>3. \A o \in sending' : \E i \in 1 .. taken' : plan'[i].id = o
  <2>1. \A o \in sending : \E i \in 1 .. taken : plan[i].id = o
    BY DEF CatchInv, CatchTypeOK
  <2>2. 1 .. taken \subseteq 1 .. taken'
    BY <1>2
  <2>3. QED
    BY <2>1, <2>2
<1>4. CatchTypeOK'
  BY <1>1, <1>3 DEF CatchTypeOK, CatchInv, Statuses
<1>5. Sortable(wanted') /\ PlanOf(wanted)'
  BY DEF CatchInv, PlanOf
<1>6. QED
  BY <1>1, <1>2, <1>4, <1>5 DEF CatchInv

\* What a pass has handed over, or has left to hand over, are offenses of its plan.
LEMMA PlanIds ==
    ASSUME CatchInv
    PROVE  \A i \in 1 .. Len(plan) : plan[i].id \in Old
<1>1. plan \in Seq(wanted) /\ wanted \subseteq Candidate
  BY DEF CatchInv, PlanOf, Sortable
<1>2. QED
  BY <1>1 DEF Candidate

\* A request, of the pass or of an analyst.
LEMMA RequestKeeps ==
    ASSUME CatchInv, NEW o \in Old, NEW manual \in BOOLEAN, NEW force \in BOOLEAN,
           queueRows' = Requested(o, manual, force)
    PROVE  /\ queueRows' \in [Old -> Q!Row \cup {Absent}]
           /\ \A x \in Old : queueRows'[x] # Absent =>
                queueRows'[x] \in Q!Row /\ queueRows'[x].source # "auto"
<1> DEFINE source == IF manual THEN "manual" ELSE "catchup"
           forced == force \/ manual
<1>1. queueRows' = Q!Enqueue(queueRows, o, LoudnessOf(o), source, force, forced, 0)
  BY DEF Requested
<1>2. source \in {"manual", "catchup"} /\ forced \in BOOLEAN
  OBVIOUS
<1> HIDE DEF source, forced
<1>3. QED
  BY <1>1, <1>2, EnqueueKeeps

LEMMA PassKeeps ==
    ASSUME CatchInv,
           \/ GiveUp
           \/ \E o \in Old : Post(o) \/ PostFails(o)
    PROVE  CatchInv'
<1>1. CASE GiveUp
  <2>1. taken' = Len(plan) /\ taken \in 0 .. Len(plan)
    BY <1>1 DEF GiveUp, CatchInv
  <2>2. excused' \subseteq Old
    BY <1>1, <2>1, PlanIds DEF GiveUp, CatchInv, CatchTypeOK
  <2>3. QED
    BY <1>1, <2>1, <2>2, PassAlone DEF GiveUp, CatchInv, CatchTypeOK, Statuses
<1>2. ASSUME NEW o \in Old, Post(o)
      PROVE  CatchInv'
  <2>1. queueRows' = Requested(o, mode.manual, mode.force)
        /\ mode.manual \in BOOLEAN /\ mode.force \in BOOLEAN
    BY <1>2 DEF Post, Posted, CatchInv, CatchTypeOK
  <2>2. /\ queueRows' \in [Old -> Q!Row \cup {Absent}]
        /\ \A x \in Old : queueRows'[x] # Absent =>
             queueRows'[x] \in Q!Row /\ queueRows'[x].source # "auto"
    BY <2>1, RequestKeeps
  <2>3. QED
    BY <1>2, <2>2, PassAlone DEF Post, CatchInv, CatchTypeOK, Statuses
<1>3. ASSUME NEW o \in Old, PostFails(o)
      PROVE  CatchInv'
  <2>1. refused' \in Nat /\ refused' <= faults' /\ faults' \in 0 .. MaxFaults
    BY <1>3, CatchBounds DEF PostFails, Fault, CatchInv, CatchTypeOK
  <2>2. mode.manual \in BOOLEAN /\ mode.force \in BOOLEAN
    BY DEF CatchInv, CatchTypeOK
  <2>3. /\ queueRows' \in [Old -> Q!Row \cup {Absent}]
        /\ \A x \in Old : queueRows'[x] # Absent =>
             queueRows'[x] \in Q!Row /\ queueRows'[x].source # "auto"
    <3>1. CASE queueRows' = queueRows
      BY <3>1 DEF CatchInv, CatchTypeOK
    <3>2. CASE queueRows' = Requested(o, mode.manual, mode.force)
      BY <2>2, <3>2, RequestKeeps
    <3>3. QED
      BY <1>3, <3>1, <3>2 DEF PostFails, Posted
  <2>4. QED
    BY <1>3, <2>1, <2>3, PassAlone DEF PostFails, CatchInv, CatchTypeOK, Statuses
<1>4. QED
  BY <1>1, <1>2, <1>3

LEMMA ExitKeeps ==
    ASSUME CatchInv, Exit
    PROVE  CatchInv'
<1>1. wanted' = {} /\ plan' = <<>> /\ taken' = 0 /\ refused' = 0 /\ sending' = {} /\ sending = {}
      /\ UNCHANGED <<known, noted, inWindow, queueRows, mode, excused, faults>>
  BY DEF Exit
<1>2. Sortable(wanted') /\ PlanOf(wanted)'
  <2>1. IsFiniteSet(wanted') /\ Cardinality(wanted') = 0
    BY <1>1, FS_EmptySet
  <2> DEFINE none == [i \in 1 .. 0 |-> i]
  <2>2. none \in [1 .. Cardinality(wanted') -> wanted'] /\ IsOrder(none, wanted')
    BY <2>1 DEF IsOrder
  <2>3. /\ plan' \in Seq(wanted') /\ Len(plan') <= Cardinality(wanted')
        /\ \A i \in 1 .. Len(plan') : plan'[i] = none[i]
    BY <1>1, <2>1
  <2>4. PlanOf(wanted)'
    BY <2>2, <2>3, Zenon DEF PlanOf
  <2>5. QED
    BY <1>1, <2>1, <2>4 DEF Sortable
<1>3. CatchTypeOK'
  BY <1>1 DEF CatchTypeOK, CatchInv
<1>4. taken' \in 0 .. Len(plan') /\ refused' \in Nat /\ IsFiniteSet(sending')
  BY <1>1, FS_EmptySet
<1>5. QED
  BY <1>1, <1>2, <1>3, <1>4 DEF CatchInv

\* What goes on meanwhile.
LEMMA MeanwhileKeeps ==
    ASSUME CatchInv, NEW o \in Old,
           \/ LeaveWindow(o) \/ SweepRow(o)
           \/ \E ask \in Asked : ExplicitList(o, ask[1], ask[2])
    PROVE  CatchInv'
<1>1. CASE LeaveWindow(o)
  BY <1>1, PassAlone DEF LeaveWindow, passVars, CatchInv, CatchTypeOK, Statuses
<1>2. CASE SweepRow(o)
  BY <1>2, PassAlone DEF SweepRow, passVars, CatchInv, CatchTypeOK, Statuses
<1>3. ASSUME NEW ask \in Asked, ExplicitList(o, ask[1], ask[2])
      PROVE  CatchInv'
  <2> DEFINE manual == ask[1]
             force == ask[2]
  <2>1. manual \in BOOLEAN /\ force \in BOOLEAN
    BY CatchupAssumption
  <2>2. queueRows' = Requested(o, manual, force)
        /\ UNCHANGED <<known, noted, inWindow, passVars, excused, faults>>
    BY <1>3 DEF ExplicitList
  <2> HIDE DEF manual, force
  <2>3. /\ queueRows' \in [Old -> Q!Row \cup {Absent}]
        /\ \A x \in Old : queueRows'[x] # Absent =>
             queueRows'[x] \in Q!Row /\ queueRows'[x].source # "auto"
    BY <2>1, <2>2, RequestKeeps
  <2>4. QED
    BY <2>2, <2>3, PassAlone DEF passVars, CatchInv, CatchTypeOK, Statuses
<1>4. QED
  BY <1>1, <1>2, <1>3

\* What the worker takes is there.
LEMMA NextIsRow ==
    ASSUME NEW o \in Old, Next1(o)
    PROVE  queueRows[o] # Absent
BY DEF Next1, Q!IsNextClaim, Q!Claimable, Q!Rows

LEMMA AnalyseKeeps ==
    ASSUME CatchInv, NEW o \in Old, NEW outcome \in Outcome(o), Analyse(o, outcome)
    PROVE  CatchInv'
<1>1. outcome \in Endings
  BY CatchupAssumption
<1>2. known' \in [Old -> Statuses] /\ noted' \subseteq Old
  BY <1>1 DEF Analyse, Statuses, CatchInv, CatchTypeOK
<1>3. \E status \in {"DONE", "ERROR"} : queueRows' = Q!Mark(queueRows, o, status)
  BY DEF Analyse
<1>4. /\ queueRows' \in [Old -> Q!Row \cup {Absent}]
      /\ \A x \in Old : queueRows'[x] # Absent =>
           queueRows'[x] \in Q!Row /\ queueRows'[x].source # "auto"
  BY <1>3, MarkKeeps
<1>5. UNCHANGED <<inWindow, passVars, excused, faults>>
  BY DEF Analyse
<1>6. QED
  BY <1>2, <1>4, <1>5, PassAlone DEF passVars, CatchInv, CatchTypeOK

\* No answer, or 503: the row is left to its lease, or given up.
LEMMA FailureKeeps ==
    ASSUME CatchInv, NEW o \in Old, AnswerLost(o) \/ QRadarDown(o)
    PROVE  CatchInv'
<1>1. queueRows[o] # Absent
  BY NextIsRow DEF AnswerLost, QRadarDown
<1>2. queueRows' = Left(o) \/ queueRows' = Q!Mark(queueRows, o, "ERROR")
  BY DEF AnswerLost, QRadarDown
<1>3. /\ queueRows' \in [Old -> Q!Row \cup {Absent}]
      /\ \A x \in Old : queueRows'[x] # Absent =>
           queueRows'[x] \in Q!Row /\ queueRows'[x].source # "auto"
  BY <1>1, <1>2, LeftKeeps, MarkKeeps
<1>4. known' \in [Old -> Statuses] /\ noted' \subseteq Old
  <2>1. known \in [Old -> Statuses] /\ noted \subseteq Old
    BY DEF Statuses, CatchInv, CatchTypeOK
  <2>2. {"PROCESSING", "PROCESSED", "QRADAR_UNAVAILABLE"} \subseteq Statuses
    BY DEF Statuses, Endings
  <2>3. QED
    BY <2>1, <2>2 DEF AnswerLost, QRadarDown
<1>5. UNCHANGED <<inWindow, passVars, excused>> /\ Fault
  BY DEF AnswerLost, QRadarDown
<1>6. faults' \in 0 .. MaxFaults /\ refused <= faults'
  BY <1>5, CatchBounds DEF Fault, CatchInv, CatchTypeOK
<1>7. QED
  BY <1>3, <1>4, <1>5, <1>6, PassAlone DEF passVars, CatchInv, CatchTypeOK

LEMMA CleanedKeeps ==
    ASSUME CatchInv, DatabaseCleaned
    PROVE  CatchInv'
<1>1. faults' \in 0 .. MaxFaults /\ refused' <= faults'
  BY CatchBounds DEF DatabaseCleaned, Fault, passVars, CatchInv, CatchTypeOK
<1>2. known' \in [Old -> Statuses]
  BY DEF DatabaseCleaned, Statuses
<1>3. queueRows' \in [Old -> Q!Row \cup {Absent}] /\ excused' \subseteq Old
  BY DEF DatabaseCleaned, CatchInv, CatchTypeOK
<1>4. \A x \in Old : queueRows'[x] # Absent =>
        queueRows'[x] \in Q!Row /\ queueRows'[x].source # "auto"
  BY DEF DatabaseCleaned, CatchInv, CatchTypeOK
<1>5. QED
  BY <1>1, <1>2, <1>3, <1>4, PassAlone DEF DatabaseCleaned, passVars, CatchInv, CatchTypeOK

LEMMA CatchStep == CatchInv /\ [CatchNext]_catchVars => CatchInv'
<1> SUFFICES ASSUME CatchInv, [CatchNext]_catchVars
             PROVE  CatchInv'
  OBVIOUS
<1>1. CASE UNCHANGED catchVars
  BY <1>1, PassAlone DEF catchVars, passVars, CatchInv, CatchTypeOK, Statuses
<1>2. QED
  BY <1>1, StartPassKeeps, TakeKeeps, PassKeeps, ExitKeeps, MeanwhileKeeps, AnalyseKeeps,
     FailureKeeps, CleanedKeeps DEF CatchNext, Pass, Work

-----------------------------------------------------------------------------
(***************************************************************************)
(* The programs together.                                                  *)
(***************************************************************************)
\* A step of the host is a step of one program; the others stand still.
LEMMA HostStep ==
    ASSUME [ServicesNext]_servicesVars
    PROVE  [ChatNext]_chatVars /\ [AutoNext]_autoVars /\ [CatchNext]_catchVars
BY DEF ServicesNext, servicesVars

\* Everything the three programs keep has the shape their code gives it: the slot of the
\* model has one owner, no more connections are counted as refused than were, every thread
\* of a pass is about an offense of its plan.
THEOREM ServicesTypeCorrect == ServicesSpec => []ServicesTypeOK
<1> DEFINE Shape == ChatShape /\ AutoTypeInv /\ CatchInv
<1>1. ServicesInit => Shape
  BY ChatTypeStart, HistoryStart, AutoInitType, CatchStart DEF ServicesInit, ChatShape
<1>2. Shape /\ [ServicesNext]_servicesVars => Shape'
  BY HostStep, ChatShapeStep, AutoTypeStep, CatchStep
<1>3. Shape => ServicesTypeOK
  BY DEF ServicesTypeOK, ChatShape, AutoTypeInv, CatchInv
<1>4. QED
  BY <1>1, <1>2, <1>3, PTL DEF ServicesSpec

\* What was proved of the chat and of the update alone holds of them on the host.
LEMMA HostRunsThem == ServicesSpec => ChatSpec /\ AutoSpec
<1>1. ServicesInit => ChatInit /\ AutoInit
  BY DEF ServicesInit
<1>2. [ServicesNext]_servicesVars => [ChatNext]_chatVars /\ [AutoNext]_autoVars
  BY HostStep
<1>3. QED
  BY <1>1, <1>2, PTL DEF ServicesSpec, ChatSpec, AutoSpec

\* On the host as well: the models get the newest messages that fit, only a tested commit
\* runs, the service answers when nobody updates it, and a waiting chat is held up by one
\* model call per thread.
THEOREM HostCorrect ==
    ServicesSpec => [](HistoryFits /\ OnlyTestedRuns /\ AnswersWhenIdle) /\ OneMorePerThread
BY HostRunsThem, HistoryCorrect, TestedCorrect, AnswersCorrect, OneMoreCorrect, PTL

-----------------------------------------------------------------------------
(***************************************************************************)
(* A pass treats the use cases alike.  Within a use case the round of a    *)
(* candidate is its place, so no two have the same; across use cases the   *)
(* plan goes round by round, so what of one use case is ahead of the first *)
(* that is left of another fits into as many rounds as that one's place.   *)
(***************************************************************************)
\* Of two candidates one comes sooner, and what is sooner than the sooner is sooner.
LEMMA SoonerOrders ==
    ASSUME NEW found, Sortable(found), NEW c \in found, NEW d \in found
    PROVE  /\ Sooner(c, d) \/ Sooner(d, c)
           /\ Sooner(c, d) /\ Sooner(d, c) => c = d
           /\ \A e \in found : Sooner(e, c) /\ Sooner(c, d) => Sooner(e, d)
<1>1. \A x \in found : x.id \in Nat /\ x.loud \in Nat /\ x.start \in Nat
  BY CatchBounds DEF Sortable, Candidate
<1>2. Sooner(c, d) \/ Sooner(d, c)
  BY <1>1 DEF Sooner
<1>3. Sooner(c, d) /\ Sooner(d, c) => c.id = d.id
  BY <1>1 DEF Sooner
<1>4. \A e \in found : Sooner(e, c) /\ Sooner(c, d) => Sooner(e, d)
  BY <1>1 DEF Sooner
<1>5. QED
  BY <1>2, <1>3, <1>4 DEF Sortable

\* Rounds count from one and tell the candidates of a use case apart.
LEMMA RoundsGrow ==
    ASSUME NEW found, Sortable(found), NEW c \in found
    PROVE  /\ Round(c, found) \in Nat \ {0}
           /\ \A d \in found : d.case = c.case /\ d # c /\ Sooner(c, d) =>
                Round(c, found) < Round(d, found)
<1> DEFINE Earlier(d) == {e \in Case(d.case, found) : Sooner(e, d)}
<1>1. ASSUME NEW d \in found
      PROVE  IsFiniteSet(Earlier(d)) /\ Cardinality(Earlier(d)) \in Nat
  <2>1. Earlier(d) \in SUBSET found
    BY DEF Case
  <2>2. IsFiniteSet(Earlier(d))
    BY <2>1, FS_Subset DEF Sortable
  <2>3. QED
    BY <2>2, FS_CardinalityType
<1>2. c \in Earlier(c)
  BY SoonerOrders DEF Case
<1>3. Cardinality(Earlier(c)) # 0
  BY <1>1, <1>2, FS_EmptySet
<1>4. ASSUME NEW d \in found, d.case = c.case, d # c, Sooner(c, d)
      PROVE  Cardinality(Earlier(c)) < Cardinality(Earlier(d))
  <2>1. Earlier(c) \in SUBSET Earlier(d)
    BY <1>4, SoonerOrders DEF Case
  <2>2. d \in Earlier(d) /\ d \notin Earlier(c)
    BY <1>4, SoonerOrders DEF Case
  <2>3. /\ Cardinality(Earlier(c)) <= Cardinality(Earlier(d))
        /\ Cardinality(Earlier(c)) # Cardinality(Earlier(d))
    BY <1>1, <2>1, <2>2, FS_Subset
  <2>4. Cardinality(Earlier(c)) \in Nat /\ Cardinality(Earlier(d)) \in Nat
    BY <1>1
  <2>5. QED
    BY <2>3, <2>4
<1>5. Cardinality(Earlier(c)) \in Nat
  BY <1>1
<1>6. \A d \in found : Round(d, found) = Cardinality(Earlier(d))
  BY DEF Round
<1> HIDE DEF Earlier
<1>7. QED
  BY <1>3, <1>4, <1>5, <1>6

\* Candidates of one use case in the same round are the same candidate.
LEMMA RoundsDiffer ==
    ASSUME NEW found, Sortable(found), NEW c \in found, NEW d \in found,
           c.case = d.case, Round(c, found) = Round(d, found)
    PROVE  c = d
<1>1. Round(c, found) \in Nat /\ Round(d, found) \in Nat
  BY RoundsGrow
<1>2. ~(c # d /\ Sooner(c, d)) /\ ~(c # d /\ Sooner(d, c))
  BY <1>1, RoundsGrow
<1>3. QED
  BY <1>2, SoonerOrders

\* An order never puts a candidate in front of itself or of one in an earlier round.
LEMMA OrderRounds ==
    ASSUME NEW found, Sortable(found),
           NEW list \in [1 .. Cardinality(found) -> found], IsOrder(list, found),
           NEW i \in 1 .. Cardinality(found), NEW j \in 1 .. Cardinality(found), i < j
    PROVE  /\ Round(list[i], found) <= Round(list[j], found)
           /\ list[i] # list[j]
           /\ list[i].case = list[j].case => Round(list[i], found) < Round(list[j], found)
<1>1. InFront(list[i], list[j], found)
  BY DEF IsOrder
<1>2. list[i] \in found /\ list[j] \in found
  OBVIOUS
<1>3. Round(list[i], found) \in Nat /\ Round(list[j], found) \in Nat
  BY <1>2, RoundsGrow
<1>4. list[i].case \in Nat /\ list[j].case \in Nat
  BY <1>2 DEF Sortable, Candidate
<1>5. Size(list[i], found) \in Nat /\ Size(list[j], found) \in Nat
  <2>1. \A x \in found : Case(x.case, found) \in SUBSET found
    BY DEF Case
  <2>2. \A x \in found : IsFiniteSet(Case(x.case, found))
    BY <2>1, FS_Subset DEF Sortable
  <2>3. \A x \in found : Cardinality(Case(x.case, found)) \in Nat
    BY <2>2, FS_CardinalityType
  <2>4. QED
    BY <1>2, <2>3 DEF Size
<1>6. list[i].case = list[j].case => Size(list[i], found) = Size(list[j], found)
  BY DEF Size
<1>7. Round(list[i], found) <= Round(list[j], found)
  BY <1>1, <1>3 DEF InFront
<1>8. list[i].case = list[j].case => Round(list[i], found) < Round(list[j], found)
  BY <1>1, <1>3, <1>4, <1>5, <1>6 DEF InFront
<1>9. QED
  BY <1>3, <1>7, <1>8

\* An order has every candidate: it has as many places as there are candidates, and none
\* twice.
LEMMA OrderComplete ==
    ASSUME NEW found, Sortable(found),
           NEW list \in [1 .. Cardinality(found) -> found], IsOrder(list, found)
    PROVE  \A c \in found : \E i \in 1 .. Cardinality(found) : list[i] = c
<1> DEFINE n == Cardinality(found)
<1>1. n \in Nat /\ IsFiniteSet(found)
  BY FS_CardinalityType DEF Sortable
<1>2. \A i, j \in 1 .. n : i # j => list[i] # list[j]
  <2> SUFFICES ASSUME NEW i \in 1 .. n, NEW j \in 1 .. n, i # j
               PROVE  list[i] # list[j]
    OBVIOUS
  <2>1. CASE i < j
    BY <2>1, OrderRounds
  <2>2. CASE j < i
    BY <2>2, OrderRounds
  <2>3. QED
    BY <1>1, <2>1, <2>2
<1>3. list \in Injection(1 .. n, found)
  BY <1>2 DEF Injection, IsInjective
<1>4. Cardinality(1 .. n) = n
  BY <1>1, FS_Interval
<1>5. list \in Surjection(1 .. n, found)
  BY <1>1, <1>3, <1>4, FS_Injection
<1>6. QED
  BY <1>5 DEF Surjection

\* What an order puts in its first n places of one use case, and which places these are.
FrontOf(list, found, n, case) == {c \in found : c.case = case /\ \E i \in 1 .. n : list[i] = c}
Places(list, n, case) == {i \in 1 .. n : list[i].case = case}

\* No candidate has two places.
LEMMA PlacesCount ==
    ASSUME NEW found, Sortable(found),
           NEW list \in [1 .. Cardinality(found) -> found], IsOrder(list, found),
           NEW n \in 0 .. Cardinality(found), NEW case
    PROVE  /\ IsFiniteSet(FrontOf(list, found, n, case))
           /\ Cardinality(FrontOf(list, found, n, case)) \in Nat
           /\ Cardinality(Places(list, n, case)) = Cardinality(FrontOf(list, found, n, case))
<1> DEFINE front == FrontOf(list, found, n, case)
           places == Places(list, n, case)
           f == [i \in places |-> list[i]]
<1>1. Cardinality(found) \in Nat /\ IsFiniteSet(found)
  BY FS_CardinalityType DEF Sortable
<1>2. 1 .. n \subseteq 1 .. Cardinality(found) /\ n \in Nat
  BY <1>1
<1>3. IsFiniteSet(places)
  <2>1. IsFiniteSet(1 .. n) /\ places \in SUBSET (1 .. n)
    BY <1>2, FS_Interval DEF Places
  <2>2. QED
    BY <2>1, FS_Subset
<1>4. f \in [places -> front]
  BY <1>2 DEF Places, FrontOf
<1>5. \A i, j \in places : f[i] = f[j] => i = j
  <2> SUFFICES ASSUME NEW i \in places, NEW j \in places, i # j
               PROVE  list[i] # list[j]
    OBVIOUS
  <2>1. i \in 1 .. Cardinality(found) /\ j \in 1 .. Cardinality(found)
    BY <1>2 DEF Places
  <2>2. CASE i < j
    BY <2>1, <2>2, OrderRounds
  <2>3. CASE j < i
    BY <2>1, <2>3, OrderRounds
  <2>4. QED
    BY <1>1, <2>1, <2>2, <2>3
<1>6. \A c \in front : \E i \in places : f[i] = c
  BY DEF Places, FrontOf
<1> HIDE DEF f, places, front
<1>7. f \in Bijection(places, front)
  BY <1>4, <1>5, <1>6 DEF Bijection, Injection, Surjection, IsInjective
<1>8. IsFiniteSet(front) /\ Cardinality(front) = Cardinality(places)
  BY <1>3, <1>7, FS_Bijection DEF ExistsBijection
<1>9. Cardinality(front) \in Nat
  BY <1>8, FS_CardinalityType
<1>10. QED
  BY <1>8, <1>9 DEF front, places

\* What an order has taken of one use case is at most one more than what it has taken of
\* another, unless it has taken that one whole.
LEMMA FrontIsFair ==
    ASSUME NEW found, Sortable(found),
           NEW list \in [1 .. Cardinality(found) -> found], IsOrder(list, found),
           NEW n \in 0 .. Cardinality(found), NEW a, NEW b
    PROVE  \/ Cardinality(Places(list, n, b)) <= Cardinality(Places(list, n, a)) + 1
           \/ Cardinality(Places(list, n, a)) = Cardinality(Case(a, found))
<1> DEFINE Front(case) == FrontOf(list, found, n, case)
           Taking(case) == Cardinality(Places(list, n, case))
           all == Case(a, found)
           left == all \ Front(a)
           Rounds == {Round(c, found) : c \in left}
<1>1. /\ IsFiniteSet(Front(a)) /\ Taking(a) = Cardinality(Front(a)) /\ Cardinality(Front(a)) \in Nat
      /\ IsFiniteSet(Front(b)) /\ Taking(b) = Cardinality(Front(b)) /\ Cardinality(Front(b)) \in Nat
  BY PlacesCount
<1>2. Front(a) \subseteq all /\ all \subseteq found
  BY DEF Case, FrontOf
<1>3. \A c \in found : \E i \in 1 .. Cardinality(found) : list[i] = c
  BY OrderComplete
<1>4. Cardinality(found) \in Nat
  BY FS_CardinalityType DEF Sortable
<1>5. CASE left = {}
  <2>1. Front(a) = all
    BY <1>2, <1>5
  <2>2. Taking(a) = Cardinality(all)
    BY <1>1, <2>1
  <2>3. QED
    BY <2>2
<1>6. CASE left # {}
  <2>1. Rounds \in SUBSET Nat /\ Rounds # {}
    <3>1. \A c \in left : Round(c, found) \in Nat
      BY <1>2, RoundsGrow
    <3>2. QED
      BY <1>6, <3>1
  <2>2. PICK r \in Rounds : \A y \in Rounds : r <= y
    BY <2>1, SmallestNumber
  <2>3. PICK x \in left : r = Round(x, found)
    OBVIOUS
  <2>4. x \in found /\ x.case = a /\ ~(\E i \in 1 .. n : list[i] = x)
    BY DEF Case, FrontOf
  <2>5. \A c \in left : Round(x, found) <= Round(c, found)
    BY <2>2, <2>3
  <2>6. Round(x, found) \in Nat
    BY <2>4, RoundsGrow
  <2>7. Round(x, found) <= Cardinality(Front(a)) + 1
    <3> DEFINE before == {d \in Case(x.case, found) : Sooner(d, x)}
    <3>1. ASSUME NEW d \in before, d # x
          PROVE  d \in Front(a)
      <4>1. d \in found /\ d.case = a /\ Sooner(d, x)
        BY <2>4 DEF Case
      <4>2. Round(d, found) < Round(x, found) /\ Round(d, found) \in Nat
        BY <2>4, <3>1, <4>1, RoundsGrow
      <4>3. d \notin left
        BY <2>5, <2>6, <4>2
      <4>4. QED
        BY <4>1, <4>3 DEF Case
    <3> HIDE DEF before, Front
    <3>2. before \in SUBSET (Front(a) \cup {x})
      BY <3>1
    <3>3. /\ IsFiniteSet(Front(a) \cup {x})
          /\ \/ Cardinality(Front(a) \cup {x}) = Cardinality(Front(a))
             \/ Cardinality(Front(a) \cup {x}) = Cardinality(Front(a)) + 1
      BY <1>1, FS_AddElement
    <3>4. Cardinality(before) <= Cardinality(Front(a) \cup {x})
      BY <3>2, <3>3, FS_Subset
    <3>5. Round(x, found) = Cardinality(before)
      BY DEF Round, before
    <3>6. QED
      BY <1>1, <2>6, <3>3, <3>4, <3>5
  <2>8. Cardinality(Front(b)) <= Round(x, found)
    <3> DEFINE k == Round(x, found)
               f == [c \in Front(b) |-> Round(c, found)]
    <3>1. ASSUME NEW c \in Front(b)
          PROVE  Round(c, found) \in 1 .. k
      <4>1. c \in found /\ \E i \in 1 .. n : list[i] = c
        BY DEF FrontOf
      <4> PICK i \in 1 .. n : list[i] = c
        BY <4>1
      <4>2. PICK j \in 1 .. Cardinality(found) : list[j] = x
        BY <1>3, <2>4
      <4>3. i \in 1 .. Cardinality(found) /\ ~(j \in 1 .. n)
        BY <1>4, <2>4, <4>2
      <4>4. i < j
        BY <1>4, <4>2, <4>3
      <4>5. Round(c, found) <= Round(x, found)
        BY <4>2, <4>3, <4>4, OrderRounds
      <4>6. Round(c, found) \in Nat \ {0}
        BY <4>1, RoundsGrow
      <4>7. QED
        BY <2>6, <4>5, <4>6
    <3>2. \A c, d \in Front(b) : Round(c, found) = Round(d, found) => c = d
      <4>1. \A c \in Front(b) : c \in found /\ c.case = b
        BY DEF FrontOf
      <4>2. QED
        BY <4>1, RoundsDiffer
    <3> HIDE DEF Front
    <3>3. f \in Injection(Front(b), 1 .. k)
      BY <3>1, <3>2 DEF Injection, IsInjective
    <3>4. IsFiniteSet(1 .. k) /\ Cardinality(1 .. k) = k
      BY <2>6, FS_Interval
    <3>5. QED
      BY <3>3, <3>4, FS_Injection
  <2>9. Taking(b) <= Taking(a) + 1
    BY <1>1, <2>6, <2>7, <2>8
  <2>10. QED
    BY <2>9
<1>7. QED
  BY <1>5, <1>6

\* In each pass no use case waits for the whole of another, no offense is posted twice,
\* and within a use case the louder and the older come first.
LEMMA PlanFair == CatchInv => PlanIsFair
<1> SUFFICES ASSUME CatchInv
             PROVE  PlanIsFair
  OBVIOUS
<1>1. Sortable(wanted) /\ Cardinality(wanted) \in Nat
  BY FS_CardinalityType DEF CatchInv, Sortable
<1>2. PICK list \in [1 .. Cardinality(wanted) -> wanted] :
        /\ IsOrder(list, wanted)
        /\ plan \in Seq(wanted) /\ Len(plan) <= Cardinality(wanted)
        /\ \A i \in 1 .. Len(plan) : plan[i] = list[i]
  BY DEF CatchInv, PlanOf
<1>3. Len(plan) \in Nat
  BY <1>2
<1>4. ASSUME NEW n \in 0 .. Len(plan), NEW a, NEW b
      PROVE  \/ Cardinality(Places(plan, n, a)) + 1 >= Cardinality(Places(plan, n, b))
             \/ Cardinality(Places(plan, n, a)) = Cardinality(Case(a, wanted))
  <2>1. n \in 0 .. Cardinality(wanted) /\ \A i \in 1 .. n : plan[i] = list[i]
    BY <1>1, <1>2, <1>3
  <2>2. Places(plan, n, a) = Places(list, n, a) /\ Places(plan, n, b) = Places(list, n, b)
    BY <2>1 DEF Places
  <2>3. Cardinality(Places(list, n, a)) \in Nat /\ Cardinality(Places(list, n, b)) \in Nat
    BY <1>1, <1>2, <2>1, PlacesCount
  <2>4. \/ Cardinality(Places(list, n, b)) <= Cardinality(Places(list, n, a)) + 1
        \/ Cardinality(Places(list, n, a)) = Cardinality(Case(a, wanted))
    BY <1>1, <1>2, <2>1, FrontIsFair
  <2>5. QED
    BY <2>2, <2>3, <2>4
<1>5. ASSUME NEW i \in DOMAIN plan, NEW j \in DOMAIN plan, i < j
      PROVE  /\ plan[i].id # plan[j].id
             /\ plan[i].case = plan[j].case => Sooner(plan[i], plan[j])
  <2>1. i \in 1 .. Cardinality(wanted) /\ j \in 1 .. Cardinality(wanted)
        /\ plan[i] = list[i] /\ plan[j] = list[j] /\ list[i] \in wanted /\ list[j] \in wanted
    BY <1>1, <1>2, <1>3
  <2>2. /\ list[i] # list[j]
        /\ list[i].case = list[j].case => Round(list[i], wanted) < Round(list[j], wanted)
    BY <1>1, <1>2, <1>5, <2>1, OrderRounds
  <2>3. list[i].id # list[j].id
    BY <1>1, <2>1, <2>2 DEF Sortable
  <2>4. Round(list[i], wanted) \in Nat /\ Round(list[j], wanted) \in Nat
    BY <1>1, <2>1, RoundsGrow
  <2>5. ASSUME list[i].case = list[j].case, ~Sooner(list[i], list[j])
        PROVE  FALSE
    <3>1. Sooner(list[j], list[i])
      BY <1>1, <2>1, <2>5, SoonerOrders
    <3>2. Round(list[j], wanted) < Round(list[i], wanted)
      BY <1>1, <2>1, <2>2, <2>5, <3>1, RoundsGrow
    <3>3. QED
      BY <2>2, <2>4, <2>5, <3>2
  <2>6. QED
    BY <2>1, <2>3, <2>5
<1>6. \A n \in 0 .. Len(plan), a, b \in {c.case : c \in wanted} :
        \/ Cardinality(Places(plan, n, a)) + 1 >= Cardinality(Places(plan, n, b))
        \/ Cardinality(Places(plan, n, a)) = Cardinality(Case(a, wanted))
  BY <1>4
<1>7. \A i, j \in DOMAIN plan : i < j =>
        /\ plan[i].id # plan[j].id
        /\ plan[i].case = plan[j].case => Sooner(plan[i], plan[j])
  BY <1>5
<1>8. QED
  BY <1>6, <1>7, Zenon DEF PlanIsFair, Places, Case

\* Whatever the tool finds and however it was called, every front part of its plan serves
\* the use cases alike, in the order order_candidates promises, and posts nothing twice.
THEOREM FairCorrect == ServicesSpec => []PlanIsFair
<1>1. ServicesInit => CatchInv
  BY CatchStart DEF ServicesInit
<1>2. CatchInv /\ [ServicesNext]_servicesVars => CatchInv'
  BY HostStep, CatchStep
<1>3. QED
  BY <1>1, <1>2, PlanFair, PTL DEF ServicesSpec

=============================================================================
