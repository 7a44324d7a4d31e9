--------------------------- MODULE EndpointCleanup --------------------------
(***************************************************************************)
(* cortex_endpoint_cleanup.py: once a day, find the endpoints deleted      *)
(* earlier that are back, delete from the console of Cortex those that     *)
(* have been silent for SilentDays, record them in cortex_endpoint_deleted,*)
(* and report both to the chat.                                            *)
(*                                                                         *)
(* A host may come back under its old id or, reinstalled, under another    *)
(* one.  `last_seen > deleted_ts` of a row is kept as the set of ids with  *)
(* the row's host name that made contact after the deletion.               *)
(***************************************************************************)
EXTENDS Host, Integers, Sequences, FiniteSets

CONSTANTS
    Endpoint,       \* endpoint ids
    HostOf(_),      \* endpoint_name
    Reinstalled,    \* ids that hosts get only later
    Guarded,        \* ids that apply_guards leaves alone
    SilentDays,     \* cortex_xdr_cleanup_days
    MaxPerRun,      \* cortex_xdr_cleanup_max_per_run
    BatchSize,      \* DELETE_BATCH
    MaxLines,       \* returned[:60] of build_chat_message
    Leaving,        \* ids whose agent may be uninstalled
    MaxRows, MaxTroubles

ASSUME CleanupAssumption ==
    /\ {SilentDays, MaxPerRun, BatchSize, MaxLines, MaxRows, MaxTroubles} \subseteq Nat
    /\ SilentDays >= 1 /\ MaxPerRun >= 1 /\ BatchSize >= 1 /\ MaxLines >= 1
    /\ Guarded \cup Reinstalled \cup Leaving \subseteq Endpoint
\* The console is a list.
ASSUME ConsoleAssumption == IsFiniteSet(Endpoint)

VARIABLES
    cleanup,        \* where the run is
    ranToday,       \* the timer has fired today
    console,        \* per id: days since last_seen, or Gone
    uninstalled,    \* ids the console shows as UNINSTALLED, or without a status
    deleted,        \* cortex_endpoint_deleted in order: id, back, marked, told
    returned,       \* rows the run found to be back
    candidates,     \* ids the run is about to delete, and those it has not deleted yet
    pending,
    contacted,      \* ids that made contact since the run read them
    removed, lost,  \* ids the job deleted that have not been seen since; those without a row
    troubles

cleanupVars == <<cleanup, ranToday, console, uninstalled, deleted, returned, candidates, pending,
                 contacted, removed, lost, troubles>>

Gone == -1
Oldest == SilentDays + 1
Known == {e \in Endpoint : console[e] # Gone}

CleanupInit ==
    /\ cleanup = "idle" /\ ranToday = FALSE
    /\ console = [e \in Endpoint |-> IF e \in Reinstalled THEN Gone ELSE 0] /\ deleted = <<>>
    /\ uninstalled = {}
    /\ returned = {} /\ candidates = {} /\ pending = {} /\ contacted = {}
    /\ removed = {} /\ lost = {}
    /\ troubles = 0

-----------------------------------------------------------------------------
(***************************************************************************)
(* Cortex, an external service, and the hosts.                             *)
(***************************************************************************)

\* An agent checks in; one whose entry was deleted gets it back.
Contact(e) ==
    /\ \/ console[e] # 0 \/ e \in uninstalled
       \/ \E i \in DOMAIN deleted : HostOf(deleted[i].id) = HostOf(e) /\ e \notin deleted[i].back
    /\ uninstalled' = uninstalled \ {e}
    /\ console' = [console EXCEPT ![e] = 0]
    /\ deleted' = [i \in DOMAIN deleted |->
                      IF HostOf(deleted[i].id) = HostOf(e)
                      THEN [deleted[i] EXCEPT !.back = @ \cup {e}] ELSE deleted[i]]
    /\ contacted' = IF cleanup = "idle" THEN {} ELSE contacted \cup {e}
    /\ removed' = removed \ {e} /\ lost' = lost \ {e}
    /\ UNCHANGED <<cleanup, ranToday, returned, candidates, pending, troubles>>

\* The agent is taken off the host; its entry stays, with the contacts it had.
Uninstall(e) ==
    /\ e \in (Known \cap Leaving) \ uninstalled
    /\ uninstalled' = uninstalled \cup {e}
    /\ UNCHANGED <<cleanup, ranToday, console, deleted, returned, candidates, pending, contacted,
                   removed, lost, troubles>>

NextDay ==
    /\ cleanup = "idle" /\ ranToday
    /\ ranToday' = FALSE
    /\ console' = [e \in Endpoint |->
                      IF console[e] \in {Gone, Oldest} THEN console[e] ELSE console[e] + 1]
    /\ UNCHANGED <<cleanup, uninstalled, deleted, returned, candidates, pending, contacted, removed,
                   lost, troubles>>

-----------------------------------------------------------------------------
(***************************************************************************)
(* find_returned: of several rows with one id the last counts, of several  *)
(* with one name the first, and a name only if its row was not found by id.*)
(* An endpoint that is uninstalled, or has no status, is not back.         *)
(***************************************************************************)
Active == Known \ uninstalled

Open == {i \in DOMAIN deleted : ~deleted[i].marked}
ById == {i \in Open : \A j \in Open : deleted[j].id = deleted[i].id => j <= i}
ByName == {i \in Open : \A j \in Open : HostOf(deleted[j].id) = HostOf(deleted[i].id) => i <= j}

SameId == {i \in ById : deleted[i].id \in Active /\ deleted[i].id \in deleted[i].back}

FoundIds == {deleted[i].id : i \in SameId}

NewIdWrongNone == {}

NewId ==
    {i \in ByName : deleted[i].id \notin FoundIds
        /\ \E e \in Active \ {deleted[i].id} : HostOf(e) = HostOf(deleted[i].id) /\ e \in deleted[i].back}

FindReturned ==
    /\ cleanup = "idle" /\ ~ranToday
    /\ ranToday' = TRUE
    /\ returned' = SameId \cup NewId
    /\ contacted' = {}
    /\ cleanup' = "fetch"
    /\ UNCHANGED <<console, uninstalled, deleted, candidates, pending, removed, lost, troubles>>

-----------------------------------------------------------------------------
(***************************************************************************)
(* fetch_silent and apply_guards.  Whatever Cortex answers, the threshold  *)
(* is checked again here.                                                  *)
(***************************************************************************)
SilentWrongTrusts(answer) == answer
Silent(answer) == {e \in answer : console[e] >= SilentDays}

UnguardedWrongAll(eps) == eps
Unguarded(eps) == eps \ Guarded

Least(n, m) == IF n < m THEN n ELSE m

\* Oldest first, at most MaxPerRun, and no more than there is room for under MaxRows.
UpTo(set, eps) ==
    /\ set \subseteq eps
    /\ Cardinality(set) = Least(Cardinality(eps), Least(MaxPerRun, MaxRows - Len(deleted)))
    /\ \A e \in set, f \in eps \ set : console[e] >= console[f]

FetchSilent(answer, set) ==
    /\ cleanup = "fetch"
    /\ UpTo(set, Unguarded(Silent(answer)))
    /\ candidates' = set /\ pending' = set
    /\ contacted' = {}
    /\ cleanup' = IF set = {} /\ returned = {} THEN "idle" ELSE "delete"
    /\ UNCHANGED <<ranToday, console, uninstalled, deleted, returned, removed, lost, troubles>>

\* One request of delete_endpoints.
DeleteBatch(batch) ==
    /\ cleanup = "delete" /\ pending # {}
    /\ batch \subseteq pending
    /\ Cardinality(batch) = Least(Cardinality(pending), BatchSize)
    /\ \E stays \in SUBSET batch :      \* Cortex said yes, but keeps some
          /\ stays = {} \/ troubles < MaxTroubles
          /\ troubles' = IF stays = {} THEN troubles ELSE troubles + 1
          /\ console' = [e \in Endpoint |-> IF e \in batch \ stays THEN Gone ELSE console[e]]
          /\ removed' = removed \cup (batch \ stays)
    /\ pending' = pending \ batch
    /\ UNCHANGED <<cleanup, ranToday, uninstalled, deleted, returned, candidates, contacted, lost>>

RecordedWrongLeft(set) == {e \in set : console[e] # Gone}
Recorded(set) == set

RowOf(e) == [id |-> e, back |-> {}, marked |-> FALSE, told |-> FALSE]

\* The control reading only changes the wording, also when it fails; all candidates
\* are recorded, in the order of the list.
RecordDeleted(order) ==
    /\ cleanup = "delete" /\ pending = {}
    /\ order \in [1 .. Cardinality(Recorded(candidates)) -> Recorded(candidates)]
    /\ \A i, j \in DOMAIN order : i # j => order[i] # order[j]
    /\ deleted' = deleted \o [i \in DOMAIN order |-> RowOf(order[i])]
    /\ cleanup' = "report"
    /\ UNCHANGED <<ranToday, console, uninstalled, returned, candidates, pending, contacted, removed,
                   lost, troubles>>

EndOfRun ==
    /\ cleanup' = "idle"
    /\ returned' = {} /\ candidates' = {} /\ pending' = {} /\ contacted' = {}
    /\ UNCHANGED <<ranToday, uninstalled>>

\* A line for each return that is listed.
Told(listed) ==
    [i \in DOMAIN deleted |-> IF i \in listed THEN [deleted[i] EXCEPT !.told = TRUE] ELSE deleted[i]]

\* The report goes out; beyond MaxLines it only counts the returns.  Which of them these
\* are depends on the order of Cortex' answers.
SendCleanup(listed) ==
    /\ cleanup = "report"
    /\ listed \subseteq returned /\ Cardinality(listed) = Least(Cardinality(returned), MaxLines)
    /\ deleted' = Told(listed)
    /\ cleanup' = "mark"
    /\ UNCHANGED <<ranToday, console, uninstalled, returned, candidates, pending, contacted, removed,
                   lost, troubles>>

\* All rows of returns, with those the report only counted.
MarkReturned ==
    deleted' = [i \in DOMAIN deleted |->
                   IF i \in returned THEN [deleted[i] EXCEPT !.marked = TRUE] ELSE deleted[i]]

MarkReturnedRows ==
    /\ cleanup = "mark"
    /\ MarkReturned
    /\ EndOfRun
    /\ UNCHANGED <<console, removed, lost, troubles>>

\* A call of the API or the webhook fails, or the run is killed.  A deletion that was
\* not confirmed may have been carried out.
Trouble ==
    /\ cleanup # "idle" /\ troubles < MaxTroubles
    /\ troubles' = troubles + 1
    /\ \E done \in SUBSET pending :
          /\ cleanup = "delete" \/ done = {}
          /\ console' = [e \in Endpoint |-> IF e \in done THEN Gone ELSE console[e]]
          /\ removed' = removed \cup done
          /\ lost' = IF cleanup = "delete" THEN lost \cup (removed' \cap ((candidates \ pending) \cup done)) ELSE lost
    /\ EndOfRun
    /\ UNCHANGED deleted

CleanupStep ==
    \/ FindReturned
    \/ \E answer \in {Known, {e \in Known : console[e] >= SilentDays}}, set \in SUBSET Endpoint :
          FetchSilent(answer, set)
    \/ \E batch \in SUBSET pending : DeleteBatch(batch)
    \/ \E n \in 0 .. Cardinality(candidates) : \E order \in [1..n -> candidates] : RecordDeleted(order)
    \/ \E listed \in SUBSET returned : SendCleanup(listed)
    \/ MarkReturnedRows

CleanupNext ==
    \/ \E e \in Endpoint : Contact(e) \/ Uninstall(e)
    \/ NextDay \/ CleanupStep \/ Trouble

\* While the program is on, the timer fires every day and a run goes on until it ends or
\* fails.
CleanupFairness == WF_cleanupVars(Runs("cleanup") /\ NextDay) /\ WF_cleanupVars(Runs("cleanup") /\ CleanupStep)

-----------------------------------------------------------------------------
\* The shape of the state; a run's lists are empty between runs.
CleanupTypeOK ==
    /\ cleanup \in {"idle", "fetch", "delete", "report", "mark"} /\ ranToday \in BOOLEAN
    /\ console \in [Endpoint -> Gone..Oldest]
    /\ deleted \in Seq([id : Endpoint, back : SUBSET Endpoint, marked : BOOLEAN, told : BOOLEAN])
    /\ uninstalled \subseteq Leaving
    /\ returned \subseteq DOMAIN deleted
    /\ pending \subseteq candidates /\ candidates \subseteq Endpoint \ Guarded
    /\ Cardinality(candidates) <= MaxPerRun
    /\ lost \subseteq removed /\ removed \subseteq Endpoint /\ contacted \subseteq Endpoint /\ troubles \in 0..MaxTroubles
    /\ cleanup = "idle" => returned = {} /\ candidates = {}

\* Only silent endpoints are deleted, even if Cortex answers with all of them; the one
\* exception is an endpoint that reported while the run was deleting.
OnlySilentDeleted ==
    [][\A e \in Endpoint :
          console[e] # Gone /\ console'[e] = Gone => console[e] >= SilentDays \/ e \in contacted]_cleanupVars

\* What the job deleted can be found again: an endpoint it removed has a row from after
\* its last contact, unless a run failed between the deletion and the record.
DeletedIsRecorded ==
    cleanup \in {"idle", "fetch", "report", "mark"} =>
        \A e \in removed \ lost : \E i \in DOMAIN deleted : deleted[i].id = e /\ e \notin deleted[i].back

\* An endpoint that comes back after its last deletion, under its old id or another, and
\* is not uninstalled again, gets into a report that was sent, whatever runs fail in between.
Back(i) ==
    /\ i \in ById
    /\ ~deleted[i].told
    /\ \E e \in Active : e \in deleted[i].back

ReturnIsReported == \A i \in 1..MaxRows : Back(i) ~> ~Back(i)

\* It has a line of its own there, unless the run that marked it had found more returns
\* than a report lists.
LineBeforeMark ==
    [][\A i \in DOMAIN deleted :
          ~deleted[i].marked /\ deleted'[i].marked /\ ~deleted[i].told =>
              Cardinality(returned) > MaxLines]_cleanupVars
=============================================================================
