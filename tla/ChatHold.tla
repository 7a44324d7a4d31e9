------------------------------ MODULE ChatHold ------------------------------
(***************************************************************************)
(* The chat sandbox of app.py and the worker's threads, which share the    *)
(* one slot of llm01.  A chat puts a hold into queue_control so that the   *)
(* worker takes no new offense, and waits for the slot as long as the      *)
(* model answers 5xx.                                                      *)
(*                                                                         *)
(* The hold is kept as the time it has left; Tick uses it up.              *)
(*                                                                         *)
(* A session is at one of                                                  *)
(*   idle     no request                                                   *)
(*   try      about to POST to llm01                                       *)
(*   sleep    got 5xx and renewed the hold                                 *)
(*   stream   has the slot and passes the answer on                        *)
(*   leave    in `finally`                                                 *)
(* A thread of the worker is at one of                                     *)
(*   hold     in wait_for_chat_hold                                        *)
(*   claim    saw no hold, has not claimed yet                             *)
(*   query    its offense is in /process-one, at the AQL                   *)
(*   model    its offense has the slot                                     *)
(***************************************************************************)
EXTENDS Host, Integers, Sequences, FiniteSets, Functions

CONSTANTS
    Session, Thread,
    Nobody,         \* the slot is free
    HoldSeconds,    \* chat_hold_seconds
    GraceSeconds,   \* chat_grace_seconds
    WaitSeconds,    \* chat_wait_seconds
    StreamTimeout,  \* openai_timeout_seconds
    Patience,       \* longest stay of a session or a thread at its other places
    Costs,          \* token counts of the histories a request may bring
    Budget          \* what of the context is left for them

ASSUME ChatAssumption ==
    /\ {HoldSeconds, GraceSeconds, WaitSeconds, StreamTimeout, Patience, Budget} \subseteq Nat
    /\ Nobody \notin Session \cup Thread /\ Session \cap Thread = {}
    /\ Costs \subseteq Seq(Nat) \ {<<>>}
\* A refused POST and the pause of two seconds are shorter than the holds of 120 and 45.
ASSUME RenewalAssumption == 2 * Patience < HoldSeconds /\ 2 * Patience < GraceSeconds

VARIABLES
    hold,           \* time left of hold:chat
    slot,           \* who has the slot of llm01
    chat, stay, waited,     \* per session: place, time there, time since the request
    costs, dropped,         \* per session: history in tokens, oldest first; messages cut
    thread, age,            \* per thread: place, time there
    began           \* per session: the threads that took an offense since its request

sessionVars == <<chat, stay, waited, costs, dropped>>
chatVars == <<hold, slot, sessionVars, thread, age, began>>

-----------------------------------------------------------------------------
(***************************************************************************)
(* _fit_history: from the newest message back, until one does not fit; the *)
(* newest is kept in any case.                                             *)
(***************************************************************************)
CostOf(history, kept) ==
    FoldFunctionOnSet(+, 0, history, Len(history) - kept + 1 .. Len(history))

FitsWrongAlone(history, kept) == CostOf(history, kept) <= Budget

Fits(history, kept) == kept = 1 \/ CostOf(history, kept) <= Budget

Kept(history) ==
    CHOOSE k \in 0..Len(history) :
        /\ \A j \in 1..k : Fits(history, j)
        /\ k < Len(history) => ~Fits(history, k + 1)

-----------------------------------------------------------------------------
ChatInit ==
    /\ hold = 0 /\ slot = Nobody
    /\ chat = [s \in Session |-> "idle"]
    /\ stay = [s \in Session |-> 0] /\ waited = [s \in Session |-> 0]
    /\ costs = [s \in Session |-> <<>>] /\ dropped = [s \in Session |-> 0]
    /\ thread = [t \in Thread |-> "hold"] /\ age = [t \in Thread |-> 0]
    /\ began = [s \in Session |-> {}]

-----------------------------------------------------------------------------
(***************************************************************************)
(* /chat/send.                                                             *)
(***************************************************************************)
Move(s, from, to) ==
    /\ chat[s] = from
    /\ chat' = [chat EXCEPT ![s] = to]
    /\ stay' = [stay EXCEPT ![s] = 0]

Ask(s, history) ==
    /\ Move(s, "idle", "try")
    /\ hold' = HoldSeconds
    /\ waited' = [waited EXCEPT ![s] = 0]
    /\ costs' = [costs EXCEPT ![s] = history]
    /\ dropped' = [dropped EXCEPT ![s] = Len(history) - Kept(history)]
    /\ began' = [began EXCEPT ![s] = {}]
    /\ UNCHANGED <<slot, thread, age>>

StillWaits(s) == waited[s] < WaitSeconds

RenewWrongForgets == UNCHANGED hold

Renew == hold' = HoldSeconds

\* 5xx: the slot is taken, or the model has troubles of its own.
Refused(s) ==
    /\ StillWaits(s)
    /\ Move(s, "try", "sleep")
    /\ Renew
    /\ UNCHANGED <<slot, waited, costs, dropped, thread, age, began>>

Retry(s) ==
    /\ Move(s, "sleep", "try")
    /\ UNCHANGED <<hold, slot, waited, costs, dropped, thread, age, began>>

Admitted(s) ==
    /\ slot = Nobody
    /\ Move(s, "try", "stream")
    /\ slot' = s
    /\ UNCHANGED <<hold, waited, costs, dropped, thread, age, began>>

\* 4xx, the last 5xx, no connection, or a client that went away.
Fails(s) ==
    /\ \/ Move(s, "try", "leave")
       \/ Move(s, "sleep", "leave")
    /\ UNCHANGED <<hold, slot, waited, costs, dropped, thread, age, began>>

\* The answer ended, or broke off.
Ends(s) ==
    /\ Move(s, "stream", "leave")
    /\ slot' = Nobody
    /\ UNCHANGED <<hold, waited, costs, dropped, thread, age, began>>

LeftIdle(s) ==
    /\ waited' = [waited EXCEPT ![s] = 0]
    /\ costs' = [costs EXCEPT ![s] = <<>>]
    /\ dropped' = [dropped EXCEPT ![s] = 0]
    /\ began' = [began EXCEPT ![s] = {}]

\* `finally` overwrites whatever hold there is.
Leave(s) ==
    /\ Move(s, "leave", "idle")
    /\ hold' = GraceSeconds
    /\ LeftIdle(s)
    /\ UNCHANGED <<slot, thread, age>>

\* The service is killed: no `finally`.
Killed(s) ==
    /\ chat[s] # "idle"
    /\ chat' = [chat EXCEPT ![s] = "idle"]
    /\ stay' = [stay EXCEPT ![s] = 0]
    /\ slot' = IF slot = s THEN Nobody ELSE slot
    /\ LeftIdle(s)
    /\ UNCHANGED <<hold, thread, age>>

SessionStep(s) ==
    Refused(s) \/ Retry(s) \/ Admitted(s) \/ Fails(s) \/ Ends(s) \/ Leave(s)

-----------------------------------------------------------------------------
(***************************************************************************)
(* The worker's threads.                                                   *)
(***************************************************************************)
Go(t, from, to) ==
    /\ thread[t] = from
    /\ thread' = [thread EXCEPT ![t] = to]
    /\ age' = [age EXCEPT ![t] = 0]

HoldActiveWrongAny == hold >= 0

HoldActive == hold > 0

PassHold(t) ==
    /\ ~HoldActive
    /\ Go(t, "hold", "claim")
    /\ UNCHANGED <<hold, slot, sessionVars, began>>

Waiting(s) == chat[s] \in {"try", "sleep"}

Claim(t) ==
    /\ Go(t, "claim", "query")
    /\ began' = [s \in Session |-> IF chat[s] = "idle" THEN {} ELSE began[s] \cup {t}]
    /\ UNCHANGED <<hold, slot, sessionVars>>

TakeSlot(t) ==
    /\ slot = Nobody
    /\ Go(t, "query", "model")
    /\ slot' = t
    /\ UNCHANGED <<hold, sessionVars, began>>

\* No events, no slot, or the model has answered: the offense is out of the way.
Finish(t) ==
    /\ Go(t, "query", "hold") \/ Go(t, "model", "hold")
    /\ slot' = IF slot = t THEN Nobody ELSE slot
    /\ UNCHANGED <<hold, sessionVars, began>>

ThreadStep(t) == PassHold(t) \/ Claim(t) \/ TakeSlot(t) \/ Finish(t)

-----------------------------------------------------------------------------
Less(n, d) == IF n > d THEN n - d ELSE 0

Limit(s) == CASE chat[s] = "stream" -> StreamTimeout [] OTHER -> Patience

Tick ==
    /\ \A s \in Session : chat[s] # "idle" => stay[s] < Limit(s)
    /\ \A t \in Thread : thread[t] # "hold" => age[t] < Patience
    /\ hold' = Less(hold, 1)
    /\ stay' = [s \in Session |-> IF chat[s] = "idle" THEN 0 ELSE stay[s] + 1]
    /\ waited' = [s \in Session |->
                    IF Waiting(s) /\ waited[s] < WaitSeconds THEN waited[s] + 1 ELSE waited[s]]
    /\ age' = [t \in Thread |-> IF thread[t] = "hold" THEN 0 ELSE age[t] + 1]
    /\ UNCHANGED <<slot, chat, costs, dropped, thread, began>>

ChatNext ==
    \/ \E s \in Session :
        \/ \E history \in Costs : Ask(s, history)
        \/ SessionStep(s) \/ Killed(s)
    \/ \E t \in Thread : ThreadStep(t)
    \/ Tick

ChatSpec == ChatInit /\ [][ChatNext]_chatVars

\* While the service is on, handlers and threads run and time passes; users need not ask.
ChatFairness ==
    /\ WF_chatVars(Runs("chat") /\ Tick)
    /\ \A s \in Session : WF_chatVars(Runs("chat") /\ SessionStep(s))
    /\ \A t \in Thread : WF_chatVars(Runs("chat") /\ ThreadStep(t))

-----------------------------------------------------------------------------
(***************************************************************************)
(* Properties.                                                             *)
(***************************************************************************)

\* The shape of every variable; the slot belongs to whoever streams or analyses.
ChatTypeOK ==
    /\ hold \in 0..HoldSeconds \cup 0..GraceSeconds
    /\ slot \in Session \cup Thread \cup {Nobody}
    /\ chat \in [Session -> {"idle", "try", "sleep", "stream", "leave"}]
    /\ stay \in [Session -> Nat] /\ waited \in [Session -> 0..WaitSeconds]
    /\ costs \in [Session -> Costs \cup {<<>>}] /\ dropped \in [Session -> Nat]
    /\ thread \in [Thread -> {"hold", "claim", "query", "model"}]
    /\ age \in [Thread -> Nat]
    /\ began \in [Session -> SUBSET Thread]
    /\ \A s \in Session : chat[s] = "stream" <=> slot = s
    /\ \A t \in Thread : thread[t] = "model" <=> slot = t

\* While a user waits for the slot, each thread takes at most the one offense it was
\* about to take: the hold is renewed before it runs out, however often the model
\* refuses and although the end of another chat cuts it to the grace period.
OneMorePerThread ==
    [][\A s \in Session, t \in Thread :
          Waiting(s) /\ t \in began[s] => ~(thread[t] = "claim" /\ thread'[t] = "query")]_chatVars

\* The history sent to the model loses its oldest messages only, no more of them than
\* it must, and never the newest.
HistoryFits ==
    \A s \in Session : chat[s] # "idle" =>
        LET sent == Len(costs[s]) - dropped[s] IN
        /\ sent >= 1
        /\ sent > 1 => CostOf(costs[s], sent) <= Budget
        /\ dropped[s] > 0 => ~(CostOf(costs[s], sent + 1) <= Budget)

\* A user who waits gets an answer or an error, even if the model refuses for ever.
SessionsEnd == \A s \in Session : Waiting(s) ~> ~Waiting(s)

\* The hold does not outlive the chats: without them the worker goes on, also after
\* the service was killed in the middle of one.
WorkerResumes ==
    \A t \in Thread : thread[t] = "hold" ~> thread[t] # "hold" \/ \E s \in Session : chat[s] # "idle"
=============================================================================
