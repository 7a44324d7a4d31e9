----------------------------- MODULE BotnetScan -----------------------------
(***************************************************************************)
(* botnet_scan.py, every few hours: take addresses whose last_seen is old  *)
(* off ME-PA-Suspicious-IP-Addresses (review), then put addresses on it    *)
(* whose logins of the last days look like a slow botnet (hunt).           *)
(*                                                                         *)
(* Each phase writes its rows of the table botnet_scan in one transaction, *)
(* which is committed when the phase is over; its requests to QRadar are   *)
(* done by then.  QRadar's rules and the triage change the list as well.   *)
(* Time is counted in periods of the timer.                                *)
(***************************************************************************)
EXTENDS Host, Integers, FiniteSets

CONSTANTS
    Address,
    Internal,       \* addresses of the company's servers, in several reference sets
    StaleAfter,     \* botnet_scan_review_stale_hours
    LookbackTime,   \* botnet_scan_lookback_days
    MaxAdds,        \* botnet_scan_max_adds_per_run
    MaxMishaps      \* failed requests and kills

ASSUME BotnetAssumption ==
    /\ {StaleAfter, LookbackTime, MaxAdds} \subseteq Nat \ {0} /\ MaxMishaps \in Nat
    /\ Internal \subseteq Address

VARIABLES
    scan,           \* where the run is
    due,            \* the timer has not fired in this period yet
    seen,           \* per address: age of its last_seen in the list, Off if it is not in it
    attack,         \* per address: age of the login attempts that fit, Past if beyond LookbackTime
    todo,           \* addresses the phase has still to deal with
    internalIps,    \* internal_ips
    added,          \* number of additions of this hunt
    renewed,        \* addresses that the rules put on the list since the review read it
    audit, written, \* rows about a request: in the table, and in the open transaction
    changes,        \* of this period: the requests that QRadar has carried out
    cut,            \* of this period: the action whose rows were rolled back
    mishaps

botnetVars == <<scan, due, seen, attack, todo, internalIps, added, renewed, audit, written,
                changes, cut, mishaps>>

Row == [act : {"remove", "add"}, ip : Address]

Off == -1
Past == LookbackTime + 1
OnBlockList == {a \in Address : seen[a] # Off}

BotnetInit ==
    /\ scan = "idle" /\ due = TRUE
    /\ seen = [a \in Address |-> Off] /\ attack = [a \in Address |-> Past]
    /\ todo = {} /\ internalIps = {} /\ added = 0 /\ renewed = {}
    /\ audit = {} /\ written = {} /\ changes = {} /\ cut = "none" /\ mishaps = 0

Mishap == mishaps < MaxMishaps /\ mishaps' = mishaps + 1

-----------------------------------------------------------------------------
(***************************************************************************)
(* The attackers, the rules and the triage.                                *)
(***************************************************************************)

\* Attempts too slow for the rules (rule = FALSE), or a rule puts the address on the list.
Attack(a, rule) ==
    /\ attack' = [attack EXCEPT ![a] = 0]
    /\ seen' = IF rule THEN [seen EXCEPT ![a] = 0] ELSE seen
    /\ renewed' = IF rule /\ scan = "review" THEN renewed \cup {a} ELSE renewed
    /\ UNCHANGED <<scan, due, todo, internalIps, added, audit, written, changes, cut,
                   mishaps>>

\* The triage unblocks it, or an analyst does.
Unblock(a) ==
    /\ a \in OnBlockList
    /\ seen' = [seen EXCEPT ![a] = Off]
    /\ UNCHANGED <<scan, due, attack, todo, internalIps, added, renewed, audit, written,
                   changes, cut, mishaps>>

NextPeriod ==
    /\ scan = "idle" /\ ~due
    /\ due' = TRUE
    /\ seen' = [a \in Address |-> IF seen[a] \in {Off, StaleAfter} THEN seen[a] ELSE seen[a] + 1]
    /\ attack' = [a \in Address |-> IF attack[a] = Past THEN Past ELSE attack[a] + 1]
    /\ audit' = {} /\ changes' = {} /\ cut' = "none"    \* of the runs before, nothing is asked any more
    /\ UNCHANGED <<scan, todo, internalIps, added, renewed, written, mishaps>>

-----------------------------------------------------------------------------
(***************************************************************************)
(* Review.                                                                 *)
(***************************************************************************)
Stale(a) == seen[a] >= StaleAfter

\* The list is read once; a failed reading counts as an empty list.
BeginReview ==
    /\ scan = "idle" /\ due
    /\ due' = FALSE /\ scan' = "review" /\ renewed' = {}
    /\ \/ todo' = {a \in Address : Stale(a)} /\ UNCHANGED mishaps
       \/ todo' = {} /\ Mishap
    /\ UNCHANGED <<seen, attack, internalIps, added, audit, written, changes, cut>>

RequestWrongSilent(action, a, age) ==
    \/ /\ seen' = [seen EXCEPT ![a] = age]
       /\ changes' = changes \cup {[act |-> action, ip |-> a]}
       /\ \/ written' = written \cup {[act |-> action, ip |-> a]} /\ UNCHANGED mishaps
          \/ Mishap /\ UNCHANGED written
    \/ Mishap /\ UNCHANGED <<seen, changes, written>>

\* A request and its row.  The row is written whatever came of the request; after a time-out
\* it says failed, and QRadar may have carried the request out or not.
Request(action, a, age) ==
    /\ written' = written \cup {[act |-> action, ip |-> a]}
    /\ \/ /\ seen' = [seen EXCEPT ![a] = age]
          /\ changes' = changes \cup {[act |-> action, ip |-> a]}
          /\ UNCHANGED mishaps \/ Mishap
       \/ Mishap /\ UNCHANGED <<seen, changes>>

RemoveStale(a) ==
    /\ scan = "review" /\ a \in todo
    /\ todo' = todo \ {a}
    /\ Request("remove", a, Off)
    /\ UNCHANGED <<scan, due, attack, internalIps, added, renewed, audit, cut>>

Committed == audit \cup written

-----------------------------------------------------------------------------
(***************************************************************************)
(* Hunt.  The search, the list and the reference sets of servers are read  *)
(* once; what cannot be read counts as empty.                              *)
(***************************************************************************)
RecentEnough(a) == attack[a] <= LookbackTime

BeginHunt ==
    /\ scan = "review" /\ todo = {}
    /\ audit' = Committed /\ written' = {}
    /\ scan' = "hunt" /\ added' = 0
    /\ \/ /\ todo' = {a \in Address : RecentEnough(a) /\ a \notin OnBlockList}
          /\ internalIps' = Internal
          /\ UNCHANGED mishaps
       \/ /\ Mishap
          /\ \/ todo' = {} /\ internalIps' = Internal
             \/ todo' = {a \in Address : RecentEnough(a)} /\ internalIps' = Internal
             \/ todo' = {a \in Address : RecentEnough(a) /\ a \notin OnBlockList} /\ internalIps' \in SUBSET Internal
    /\ UNCHANGED <<due, seen, attack, renewed, changes, cut>>

CapReached == added >= MaxAdds

SkippedWrongNone(a) == FALSE
Skipped(a) == a \in internalIps

SkipCandidate(a) ==
    /\ scan = "hunt" /\ ~CapReached /\ a \in todo /\ Skipped(a)
    /\ todo' = todo \ {a}
    /\ UNCHANGED <<scan, due, seen, attack, internalIps, added, renewed, audit, written,
                   changes, cut, mishaps>>

AddCandidate(a) ==
    /\ scan = "hunt" /\ ~CapReached /\ a \in todo /\ ~Skipped(a)
    /\ todo' = todo \ {a}
    /\ Request("add", a, 0)
    /\ added' = IF mishaps' = mishaps THEN added + 1 ELSE added     \* those answered "added"
    /\ UNCHANGED <<scan, due, attack, internalIps, renewed, audit, cut>>

EndScan ==
    /\ scan' = "idle"
    /\ todo' = {} /\ internalIps' = {} /\ added' = 0 /\ renewed' = {} /\ written' = {}
    /\ UNCHANGED <<due, seen, attack>>

EndHunt ==
    /\ scan = "hunt" /\ (todo = {} \/ CapReached)
    /\ audit' = Committed
    /\ EndScan /\ UNCHANGED <<changes, cut, mishaps>>

\* An exception or a kill rolls the open transaction back; QRadar keeps the changes.
Rollback ==
    /\ scan # "idle" /\ Mishap
    /\ EndScan
    /\ cut' = IF scan = "review" THEN "remove" ELSE "add"
    /\ UNCHANGED <<audit, changes>>

BotnetStep ==
    \/ BeginReview \/ BeginHunt \/ EndHunt
    \/ \E a \in Address : RemoveStale(a) \/ SkipCandidate(a) \/ AddCandidate(a)

BotnetNext ==
    \/ \E a \in Address : Unblock(a) \/ \E rule \in BOOLEAN : Attack(a, rule)
    \/ NextPeriod \/ BotnetStep \/ Rollback

\* While the program is on, the timer fires and a run goes on until it ends or fails.
BotnetFairness == WF_botnetVars(Runs("botnet") /\ NextPeriod) /\ WF_botnetVars(Runs("botnet") /\ BotnetStep)

-----------------------------------------------------------------------------
\* The shape of the state; a hunt counts no more additions than it may make.
BotnetTypeOK ==
    /\ scan \in {"idle", "review", "hunt"} /\ due \in BOOLEAN
    /\ seen \in [Address -> Off..StaleAfter] /\ attack \in [Address -> 0..Past]
    /\ todo \subseteq Address /\ internalIps \subseteq Internal /\ renewed \subseteq Address
    /\ added \in 0..MaxAdds
    /\ audit \subseteq Row /\ written \subseteq Row /\ changes \subseteq Row
    /\ cut \in {"none", "remove", "add"}
    /\ mishaps \in 0..MaxMishaps

\* The review takes no address off that the rules have just put on the list, unless
\* they did so after it had read the list.
OnlyQuietRemoved ==
    [][\A a \in Address :
          scan = "review" /\ a \in todo \ todo' /\ seen[a] # Off /\ seen'[a] = Off =>
              seen[a] >= StaleAfter \/ a \in renewed]_botnetVars

\* The job blocks no server of the company, unless it could not read what they are.
ServersNotBlocked ==
    [][\A a \in Internal :
          scan = "hunt" /\ a \in todo \ todo' /\ seen'[a] # seen[a] => internalIps # Internal]_botnetVars

\* Between two runs every request QRadar has carried out in this period has a row of its
\* address and action, those included whose answer was lost; a failure takes the rows of the
\* phase it ends with it and of no other.
ChangesAudited == scan = "idle" => \A c \in changes \ audit : c.act = cut

\* An address that has stopped attacking leaves the list for good.
QuietLeavesForGood ==
    \A a \in Address : <>[](attack[a] = Past) => <>[](seen[a] = Off)
=============================================================================
