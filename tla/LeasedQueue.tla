---------------------------- MODULE LeasedQueue ----------------------------
(***************************************************************************)
(* What the work queue promises to its users, without clocks, leases or    *)
(* transactions: an offense is in the queue at most once, at most one      *)
(* holder works on it, only its holder finishes it, an offense in someone's*)
(* hands is neither dropped nor re-submitted, and one that its holder gave *)
(* up (or died with) can be taken again.                                   *)
(***************************************************************************)
CONSTANTS Offense, Holder, NoOne

VARIABLES state, holder

vars == <<state, holder>>

State == {"absent", "waiting", "taken", "finished"}

Init ==
    /\ state = [o \in Offense |-> "absent"]
    /\ holder = [o \in Offense |-> NoOne]

Submit(o) ==
    /\ state[o] \in {"absent", "finished"}
    /\ state' = [state EXCEPT ![o] = "waiting"]
    /\ UNCHANGED holder

Take(h, o) ==
    /\ state[o] \in {"waiting", "taken"}
    /\ holder[o] = NoOne
    /\ \A p \in Offense : holder[p] # h
    /\ state' = [state EXCEPT ![o] = "taken"]
    /\ holder' = [holder EXCEPT ![o] = h]

Finish(h, o) ==
    /\ holder[o] = h
    /\ state' = [state EXCEPT ![o] = "finished"]
    /\ holder' = [holder EXCEPT ![o] = NoOne]

\* A holder gives up its offense, or all holders die at once.
Abandon(H) ==
    /\ holder' = [o \in Offense |-> IF holder[o] \in H THEN NoOne ELSE holder[o]]
    /\ UNCHANGED state

Drop(D) ==
    /\ \A o \in D : state[o] \in {"waiting", "finished"}
    /\ state' = [o \in Offense |-> IF o \in D THEN "absent" ELSE state[o]]
    /\ UNCHANGED holder

Next ==
    \/ \E o \in Offense : Submit(o)
    \/ \E h \in Holder, o \in Offense : Take(h, o) \/ Finish(h, o)
    \/ \E H \in SUBSET Holder : Abandon(H)
    \/ \E D \in SUBSET Offense : Drop(D)

Spec == Init /\ [][Next]_vars
=============================================================================
