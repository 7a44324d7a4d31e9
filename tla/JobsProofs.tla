------------------------------ MODULE JobsProofs ------------------------------
(***************************************************************************)
(* Proofs about the jobs of the timers, each by an invariant of its own:   *)
(* the cleanup of endpoints, the scan of the block-list, the two digests   *)
(* and the allow-list, for all sets of endpoints, addresses, files and     *)
(* ranges and every limit.  At the end, what holds of the jobs together.   *)
(***************************************************************************)
EXTENDS MCJobs, FiniteSetTheorems, TLAPS

-----------------------------------------------------------------------------
(***************************************************************************)
(* A step of all jobs is a step of one of them.                            *)
(***************************************************************************)
LEMMA StepOfOne ==
    ASSUME [JobsNext]_jobsVars
    PROVE  /\ [CleanupNext]_cleanupVars /\ [BotnetNext]_botnetVars
           /\ [FalconNext]_falconVars /\ [XdrNext]_xdrVars /\ [CdnNext]_cdnVars
<1>1. CASE UNCHANGED jobsVars
  BY <1>1 DEF jobsVars
<1>2. CASE JobsNext
  BY <1>2 DEF JobsNext
<1>3. QED
  BY <1>1, <1>2

-----------------------------------------------------------------------------
(***************************************************************************)
(* The cleanup.                                                            *)
(***************************************************************************)
DeletedRow == [id : Endpoint, back : SUBSET Endpoint, marked : BOOLEAN, told : BOOLEAN]

CleanupShape ==
    /\ cleanup \in {"idle", "fetch", "delete", "report", "mark"}
    /\ console \in [Endpoint -> Gone..Oldest]
    /\ deleted \in Seq(DeletedRow)
    /\ candidates \subseteq Endpoint /\ pending \subseteq candidates
    /\ removed \subseteq Endpoint /\ lost \subseteq Endpoint
    /\ cleanup # "delete" => pending = {}

\* What a run is going to delete was silent when it was read, and is unless it called.
PendingSilent == \A e \in pending : console[e] >= SilentDays \/ e \in contacted

\* A row made after the last contact.
HasRow(e) == \E i \in DOMAIN deleted : deleted[i].id = e /\ e \notin deleted[i].back

\* What was removed has such a row, or the run that removed it will write one.
RowsCome ==
    \A e \in removed \ lost : HasRow(e) \/ (cleanup = "delete" /\ e \in candidates \ pending)

CleanupInv == CleanupShape /\ PendingSilent /\ RowsCome

LEMMA CleanupBounds ==
    /\ SilentDays \in Nat /\ SilentDays >= 1 /\ Gone = -1 /\ Oldest = SilentDays + 1
    /\ 0 \in Gone..Oldest /\ Gone \in Gone..Oldest
BY CleanupAssumption DEF Gone, Oldest

LEMMA CleanupStart == CleanupInit => CleanupInv
<1> SUFFICES ASSUME CleanupInit
             PROVE  CleanupInv
  OBVIOUS
<1>1. console \in [Endpoint -> Gone..Oldest]
  BY CleanupBounds DEF CleanupInit
<1>2. CleanupShape
  BY <1>1 DEF CleanupInit, CleanupShape
<1>3. QED
  BY <1>2 DEF CleanupInit, CleanupInv, PendingSilent, RowsCome

\* Rows keep what counts.
SameDeletions ==
    /\ deleted' \in Seq(DeletedRow) /\ DOMAIN deleted \subseteq DOMAIN deleted'
    /\ \A i \in DOMAIN deleted : deleted'[i].id = deleted[i].id /\ deleted'[i].back = deleted[i].back

LEMMA RowsStay ==
    ASSUME SameDeletions, NEW e, HasRow(e)
    PROVE  HasRow(e)'
BY DEF SameDeletions, HasRow

LEMMA Unmodified ==
    ASSUME CleanupShape, deleted' = deleted
    PROVE  SameDeletions
BY DEF CleanupShape, SameDeletions

\* A new mark on a row leaves its id and what came back.
LEMMA RowChange ==
    ASSUME NEW r \in DeletedRow
    PROVE  /\ [r EXCEPT !.told = TRUE] \in DeletedRow
           /\ [r EXCEPT !.told = TRUE].id = r.id /\ [r EXCEPT !.told = TRUE].back = r.back
           /\ [r EXCEPT !.told = TRUE].marked = r.marked
           /\ [r EXCEPT !.marked = TRUE] \in DeletedRow
           /\ [r EXCEPT !.marked = TRUE].id = r.id /\ [r EXCEPT !.marked = TRUE].back = r.back
BY DEF DeletedRow

LEMMA ListOf ==
    ASSUME NEW S, NEW n \in Nat, NEW t \in [1..n -> S]
    PROVE  t \in Seq(S) /\ Len(t) = n /\ DOMAIN t = 1..n
OBVIOUS

LEMMA SameLengthSeq ==
    ASSUME NEW S, NEW s \in Seq(S), NEW t, DOMAIN t = DOMAIN s, t = [i \in DOMAIN s |-> t[i]],
           \A i \in DOMAIN s : t[i] \in S
    PROVE  t \in Seq(S)
<1>1. t = [i \in 1..Len(s) |-> t[i]] /\ Len(s) \in Nat
  OBVIOUS
<1>2. t \in [1..Len(s) -> S]
  BY <1>1
<1>3. QED
  BY <1>1, <1>2

LEMMA ContactKeeps ==
    ASSUME CleanupInv, NEW c \in Endpoint, Contact(c)
    PROVE  CleanupInv'
<1>1. deleted \in Seq(DeletedRow) /\ console \in [Endpoint -> Gone..Oldest]
  BY DEF CleanupInv, CleanupShape
<1>2. /\ DOMAIN deleted' = DOMAIN deleted
      /\ \A i \in DOMAIN deleted :
            deleted'[i] = IF HostOf(deleted[i].id) = HostOf(c)
                          THEN [deleted[i] EXCEPT !.back = deleted[i].back \cup {c}] ELSE deleted[i]
      /\ deleted' = [i \in DOMAIN deleted |-> deleted'[i]]
  BY DEF Contact
<1>3. \A i \in DOMAIN deleted : deleted[i] \in DeletedRow
  BY <1>1
<1>4. \A i \in DOMAIN deleted :
        /\ deleted'[i] \in DeletedRow /\ deleted'[i].id = deleted[i].id
        /\ deleted'[i].back \subseteq deleted[i].back \cup {c}
  BY <1>2, <1>3 DEF DeletedRow
<1>5. deleted' \in Seq(DeletedRow)
  BY <1>1, <1>2, <1>4, SameLengthSeq
<1>6. console' = [console EXCEPT ![c] = 0]
  BY DEF Contact
<1>7. console' \in [Endpoint -> Gone..Oldest] /\ \A e \in Endpoint \ {c} : console'[e] = console[e]
  BY <1>1, <1>6, CleanupBounds
<1>8. /\ removed' = removed \ {c} /\ lost' = lost \ {c}
      /\ UNCHANGED <<cleanup, candidates, pending>>
      /\ contacted' = IF cleanup = "idle" THEN {} ELSE contacted \cup {c}
  BY DEF Contact
<1>9. CleanupShape'
  BY <1>5, <1>7, <1>8 DEF CleanupInv, CleanupShape
<1>10. PendingSilent'
  BY <1>7, <1>8 DEF CleanupInv, CleanupShape, PendingSilent
<1>11. \A e \in Endpoint \ {c} : HasRow(e) => HasRow(e)'
  BY <1>2, <1>4 DEF HasRow
<1>12. RowsCome'
  BY <1>8, <1>11 DEF CleanupInv, CleanupShape, RowsCome
<1>13. QED
  BY <1>9, <1>10, <1>12 DEF CleanupInv

LEMMA NextDayKeeps ==
    ASSUME CleanupInv, NextDay
    PROVE  CleanupInv'
<1>1. \A e \in Endpoint : console[e] \in Gone..Oldest
  BY DEF CleanupInv, CleanupShape
<1>2. console' \in [Endpoint -> Gone..Oldest]
  BY <1>1, CleanupBounds DEF NextDay
<1>3. CleanupShape' /\ PendingSilent'
  BY <1>2 DEF NextDay, CleanupInv, CleanupShape, PendingSilent
<1>4. RowsCome'
  BY DEF NextDay, CleanupInv, RowsCome, HasRow
<1>5. QED
  BY <1>3, <1>4 DEF CleanupInv

LEMMA ReadingKeeps ==
    ASSUME CleanupInv,
           FindReturned \/ \E answer \in SUBSET Known, set \in SUBSET Endpoint : FetchSilent(answer, set)
    PROVE  CleanupInv'
<1>1. CASE FindReturned
  <2>1. CleanupShape' /\ PendingSilent'
    BY <1>1 DEF FindReturned, CleanupInv, CleanupShape, PendingSilent
  <2>2. RowsCome'
    BY <1>1 DEF FindReturned, CleanupInv, RowsCome, HasRow
  <2>3. QED
    BY <2>1, <2>2 DEF CleanupInv
<1>2. ASSUME NEW answer \in SUBSET Known, NEW set \in SUBSET Endpoint, FetchSilent(answer, set)
      PROVE  CleanupInv'
  <2>1. \A e \in set : console[e] >= SilentDays
    BY <1>2 DEF FetchSilent, UpTo, Unguarded, Silent
  <2>2. CleanupShape' /\ PendingSilent'
    BY <1>2, <2>1 DEF FetchSilent, CleanupInv, CleanupShape, PendingSilent
  <2>3. RowsCome'
    BY <1>2 DEF FetchSilent, CleanupInv, RowsCome, HasRow
  <2>4. QED
    BY <2>2, <2>3 DEF CleanupInv
<1>3. QED
  BY <1>1, <1>2

\* What goes was about to go.
LEMMA BatchKeeps ==
    ASSUME CleanupInv, NEW batch \in SUBSET pending, DeleteBatch(batch)
    PROVE  CleanupInv'
<1>1. PICK stays \in SUBSET batch :
        /\ console' = [e \in Endpoint |-> IF e \in batch \ stays THEN Gone ELSE console[e]]
        /\ removed' = removed \cup (batch \ stays)
  BY DEF DeleteBatch
<1>2. /\ pending' = pending \ batch /\ batch \subseteq pending
      /\ UNCHANGED <<cleanup, deleted, candidates, contacted, lost>> /\ cleanup = "delete"
  BY DEF DeleteBatch
<1>3. console' \in [Endpoint -> Gone..Oldest]
  BY <1>1, CleanupBounds DEF CleanupInv, CleanupShape
<1>4. CleanupShape'
  BY <1>1, <1>2, <1>3 DEF CleanupInv, CleanupShape
<1>5. PendingSilent'
  BY <1>1, <1>2 DEF CleanupInv, CleanupShape, PendingSilent
<1>6. RowsCome'
  BY <1>1, <1>2 DEF CleanupInv, CleanupShape, RowsCome, HasRow
<1>7. QED
  BY <1>4, <1>5, <1>6 DEF CleanupInv

\* A list of all candidates without a repetition has them all.
LEMMA OrderComplete ==
    ASSUME CleanupShape, NEW order, order \in [1..Cardinality(candidates) -> candidates],
           \A i, j \in DOMAIN order : i # j => order[i] # order[j]
    PROVE  \A e \in candidates : \E i \in DOMAIN order : order[i] = e
<1>1. IsFiniteSet(candidates)
  BY ConsoleAssumption, FS_Subset DEF CleanupShape
<1>2. Cardinality(candidates) \in Nat
  BY <1>1, FS_CardinalityType
<1>3. order \in Injection(1..Cardinality(candidates), candidates)
  BY DEF Injection, IsInjective
<1>4. Cardinality(1..Cardinality(candidates)) = Cardinality(candidates)
  BY <1>2, FS_Interval
<1>5. order \in Surjection(1..Cardinality(candidates), candidates)
  BY <1>1, <1>3, <1>4, FS_Injection
<1>6. QED
  BY <1>5 DEF Surjection

\* Rows are appended.
LEMMA AppendedRows ==
    ASSUME NEW order, RecordDeleted(order), deleted \in Seq(DeletedRow), NEW i \in DOMAIN deleted
    PROVE  deleted'[i] = deleted[i]
<1>1. DOMAIN order = 1..Cardinality(Recorded(candidates))
      /\ deleted' = deleted \o [k \in DOMAIN order |-> RowOf(order[k])]
  BY DEF RecordDeleted
<1>2. QED
  BY <1>1

LEMMA RecordKeeps ==
    ASSUME CleanupInv, NEW order, RecordDeleted(order)
    PROVE  CleanupInv' /\ SameDeletions
<1>1. /\ order \in [1..Cardinality(candidates) -> candidates]
      /\ \A i, j \in DOMAIN order : i # j => order[i] # order[j]
      /\ deleted' = deleted \o [i \in DOMAIN order |-> RowOf(order[i])]
      /\ cleanup = "delete" /\ cleanup' = "report" /\ pending = {}
      /\ UNCHANGED <<console, candidates, pending, contacted, removed, lost>>
  BY DEF RecordDeleted, Recorded
<1>2. Cardinality(candidates) \in Nat /\ candidates \subseteq Endpoint /\ deleted \in Seq(DeletedRow)
  BY ConsoleAssumption, FS_Subset, FS_CardinalityType DEF CleanupInv, CleanupShape
<1> DEFINE n == Cardinality(candidates)
           new == [i \in 1..n |-> RowOf(order[i])]
<1>3. \A e \in Endpoint : RowOf(e) \in DeletedRow /\ RowOf(e).id = e /\ RowOf(e).back = {}
  BY DEF RowOf, DeletedRow
<1>4. new \in Seq(DeletedRow) /\ Len(new) = n /\ DOMAIN order = 1..n
  <2>1. \A i \in 1..n : order[i] \in Endpoint
    BY <1>1, <1>2
  <2>2. new \in [1..n -> DeletedRow]
    BY <1>3, <2>1
  <2>3. DOMAIN order = 1..n
    BY <1>1
  <2> HIDE DEF n, new
  <2>4. QED
    BY <1>2, <2>2, <2>3, ListOf DEF n
<1>5. deleted' = deleted \o new
  BY <1>1, <1>4
<1> HIDE DEF new
<1>6. /\ deleted' \in Seq(DeletedRow) /\ Len(deleted') = Len(deleted) + n
      /\ \A i \in 1..Len(deleted) : deleted'[i] = deleted[i]
      /\ \A i \in 1..n : deleted'[Len(deleted) + i] = new[i]
  BY <1>2, <1>4, <1>5
<1>7. SameDeletions
  <2>1. DOMAIN deleted = 1..Len(deleted) /\ DOMAIN deleted' = 1..Len(deleted') /\ Len(deleted) \in Nat
    BY <1>2, <1>6
  <2>2. DOMAIN deleted \subseteq DOMAIN deleted'
    BY <1>2, <1>6, <2>1
  <2> HIDE DEF n
  <2>3. \A i \in DOMAIN deleted : deleted'[i] = deleted[i]
    BY <1>6, <2>1, Zenon
  <2>4. QED
    BY <1>6, <2>2, <2>3, Zenon DEF SameDeletions
<1>8. \A e \in candidates : HasRow(e)'
  <2> SUFFICES ASSUME NEW e \in candidates
               PROVE  HasRow(e)'
    OBVIOUS
  <2>1. PICK i \in 1..n : order[i] = e
    BY <1>1, <1>4, OrderComplete DEF CleanupInv
  <2>2. new[i] = RowOf(e)
    BY <2>1 DEF new
  <2>3. deleted'[Len(deleted) + i] = RowOf(e) /\ Len(deleted) + i \in DOMAIN deleted'
    BY <1>2, <1>6, <2>2
  <2>4. QED
    BY <1>2, <1>3, <2>3 DEF HasRow
<1>9. CleanupShape' /\ PendingSilent'
  BY <1>1, <1>6 DEF CleanupInv, CleanupShape, PendingSilent
<1>10. RowsCome'
  BY <1>1, <1>7, <1>8, RowsStay DEF CleanupInv, RowsCome
<1>11. QED
  BY <1>7, <1>9, <1>10 DEF CleanupInv

\* Report and marking change what is known of a return, not of a deletion.
LEMMA ReportKeeps ==
    ASSUME CleanupInv, MarkReturnedRows \/ \E listed \in SUBSET returned : SendCleanup(listed)
    PROVE  CleanupInv'
<1>1. \A i \in DOMAIN deleted : deleted[i] \in DeletedRow
  BY DEF CleanupInv, CleanupShape
<1>2. /\ DOMAIN deleted' = DOMAIN deleted /\ deleted' = [i \in DOMAIN deleted |-> deleted'[i]]
      /\ \A i \in DOMAIN deleted :
            /\ deleted'[i] \in DeletedRow
            /\ deleted'[i].id = deleted[i].id /\ deleted'[i].back = deleted[i].back
  <2>1. ASSUME NEW listed \in SUBSET returned, SendCleanup(listed)
        PROVE  /\ DOMAIN deleted' = DOMAIN deleted /\ deleted' = [i \in DOMAIN deleted |-> deleted'[i]]
               /\ \A i \in DOMAIN deleted :
                     /\ deleted'[i] \in DeletedRow
                     /\ deleted'[i].id = deleted[i].id /\ deleted'[i].back = deleted[i].back
    <3>1. deleted' = [i \in DOMAIN deleted |->
              IF i \in listed THEN [deleted[i] EXCEPT !.told = TRUE] ELSE deleted[i]]
      BY <2>1 DEF SendCleanup, Told
    <3>2. \A i \in DOMAIN deleted :
            deleted'[i] = deleted[i] \/ deleted'[i] = [deleted[i] EXCEPT !.told = TRUE]
      BY <3>1
    <3>3. DOMAIN deleted' = DOMAIN deleted /\ deleted' = [i \in DOMAIN deleted |-> deleted'[i]]
      BY <3>1
    <3>4. QED
      BY <1>1, <3>2, <3>3, RowChange
  <2>2. CASE MarkReturnedRows
    <3>1. deleted' = [i \in DOMAIN deleted |->
              IF i \in returned THEN [deleted[i] EXCEPT !.marked = TRUE] ELSE deleted[i]]
      BY <2>2 DEF MarkReturnedRows, MarkReturned
    <3>2. \A i \in DOMAIN deleted :
            deleted'[i] = deleted[i] \/ deleted'[i] = [deleted[i] EXCEPT !.marked = TRUE]
      BY <3>1
    <3>3. DOMAIN deleted' = DOMAIN deleted /\ deleted' = [i \in DOMAIN deleted |-> deleted'[i]]
      BY <3>1
    <3>4. QED
      BY <1>1, <3>2, <3>3, RowChange
  <2>3. QED
    BY <2>1, <2>2
<1>3. SameDeletions
  BY <1>2, SameLengthSeq DEF CleanupInv, CleanupShape, SameDeletions
<1>4. UNCHANGED <<console, removed, lost>> /\ pending = {} /\ pending' = {}
  BY DEF SendCleanup, MarkReturnedRows, EndOfRun, CleanupInv, CleanupShape
<1>5. candidates' \subseteq Endpoint /\ cleanup' \in {"idle", "mark"} /\ cleanup # "delete"
  BY DEF SendCleanup, MarkReturnedRows, EndOfRun, CleanupInv, CleanupShape
<1>6. CleanupShape' /\ PendingSilent'
  BY <1>3, <1>4, <1>5 DEF CleanupInv, CleanupShape, PendingSilent, SameDeletions
<1>7. RowsCome'
  BY <1>3, <1>4, <1>5, RowsStay DEF CleanupInv, RowsCome
<1>8. QED
  BY <1>6, <1>7 DEF CleanupInv

LEMMA TroubleKeeps ==
    ASSUME CleanupInv, Trouble
    PROVE  CleanupInv'
<1>1. PICK done \in SUBSET pending :
        /\ cleanup = "delete" \/ done = {}
        /\ console' = [e \in Endpoint |-> IF e \in done THEN Gone ELSE console[e]]
        /\ removed' = removed \cup done
        /\ lost' = IF cleanup = "delete" THEN lost \cup (removed' \cap ((candidates \ pending) \cup done)) ELSE lost
  BY DEF Trouble
<1>2. cleanup' = "idle" /\ candidates' = {} /\ pending' = {} /\ deleted' = deleted
  BY DEF Trouble, EndOfRun
<1>3. console' \in [Endpoint -> Gone..Oldest]
  BY <1>1, CleanupBounds DEF CleanupInv, CleanupShape
<1>4. CleanupShape' /\ PendingSilent'
  BY <1>1, <1>2, <1>3 DEF CleanupInv, CleanupShape, PendingSilent
<1>5. RowsCome'
  BY <1>1, <1>2 DEF CleanupInv, CleanupShape, RowsCome, HasRow
<1>6. QED
  BY <1>4, <1>5 DEF CleanupInv

LEMMA CleanupStepKeeps == CleanupInv /\ [CleanupNext]_cleanupVars => CleanupInv'
<1> SUFFICES ASSUME CleanupInv, [CleanupNext]_cleanupVars
             PROVE  CleanupInv'
  OBVIOUS
<1>1. CASE UNCHANGED cleanupVars
  BY <1>1 DEF cleanupVars, CleanupInv, CleanupShape, PendingSilent, RowsCome, HasRow
<1>2. CASE CleanupStep
  <2>1. {e \in Known : console[e] >= SilentDays} \in SUBSET Known /\ Known \in SUBSET Known
    OBVIOUS
  <2>2. QED
    BY <1>2, <2>1, ReadingKeeps, BatchKeeps, RecordKeeps, ReportKeeps DEF CleanupStep
<1>3. ASSUME NEW e \in Endpoint, Uninstall(e)
      PROVE  CleanupInv'
  BY <1>3 DEF Uninstall, CleanupInv, CleanupShape, PendingSilent, RowsCome, HasRow
<1>4. QED
  BY <1>1, <1>2, <1>3, ContactKeeps, NextDayKeeps, TroubleKeeps DEF CleanupNext

LEMMA CleanupInvAlways == JobsSpec => []CleanupInv
<1>1. JobsInit => CleanupInv
  BY CleanupStart DEF JobsInit
<1>2. CleanupInv /\ [JobsNext]_jobsVars => CleanupInv'
  BY CleanupStepKeeps, StepOfOne
<1>3. QED
  BY <1>1, <1>2, PTL DEF JobsSpec

\* An endpoint goes only by the deletion of one that was about to go.
LEMMA DeletionsSilent ==
    ASSUME CleanupInv, [CleanupNext]_cleanupVars, NEW e \in Endpoint,
           console[e] # Gone, console'[e] = Gone
    PROVE  console[e] >= SilentDays \/ e \in contacted
<1>1. console \in [Endpoint -> Gone..Oldest] /\ console[e] \in Gone..Oldest
  BY DEF CleanupInv, CleanupShape
<1>2. CASE \E c \in Endpoint : Contact(c)
  BY <1>1, <1>2, CleanupBounds DEF Contact
<1>3. CASE NextDay
  BY <1>1, <1>3, CleanupBounds DEF NextDay
<1>4. CASE Trouble \/ \E batch \in SUBSET pending : DeleteBatch(batch)
  <2>1. e \in pending
    BY <1>4 DEF Trouble, DeleteBatch
  <2>2. QED
    BY <2>1 DEF CleanupInv, PendingSilent
<1>5. CASE console' = console
  BY <1>5
<1>6. QED
  BY <1>2, <1>3, <1>4, <1>5 DEF CleanupNext, CleanupStep, Uninstall, FindReturned, FetchSilent, RecordDeleted,
     SendCleanup, MarkReturnedRows, cleanupVars

-----------------------------------------------------------------------------
(***************************************************************************)
(* The scan of the block-list.                                             *)
(***************************************************************************)
BotnetShape ==
    /\ scan \in {"idle", "review", "hunt"}
    /\ seen \in [Address -> Off..StaleAfter]
    /\ todo \subseteq Address

\* What the review is going to take off was stale when it was read; since then it may have
\* been listed anew, or have been taken off by somebody else.
ReviewStale == scan = "review" => \A a \in todo : Stale(a) \/ a \in renewed \/ seen[a] = Off

\* While a run is on, a change is in the table or in the transaction that is open, which has
\* rows of one phase only; after a run, what is missing is of the phase that was cut short.
ChangesWritten ==
    /\ scan # "idle" => changes \subseteq audit \cup written
    /\ scan = "review" => \A w \in written : w.act = "remove"
    /\ scan = "hunt" => \A w \in written : w.act = "add"
    /\ scan = "idle" => written = {} /\ \A c \in changes \ audit : c.act = cut
    /\ scan = "idle" /\ due => changes = {}

\* A run takes the period's firing of the timer.
RunsAfterDue == scan # "idle" => ~due

ScanInv == BotnetShape /\ ReviewStale /\ ChangesWritten /\ RunsAfterDue

\* Whatever came of a request, it has a row, and nothing else has been carried out.
LEMMA RequestWritten ==
    ASSUME NEW action, NEW a, NEW age, Request(action, a, age)
    PROVE  \E w : /\ w.act = action /\ written' = written \cup {w}
                  /\ changes' \subseteq changes \cup {w}
<1> DEFINE w == [act |-> action, ip |-> a]
<1>1. w.act = action
  OBVIOUS
<1>2. written' = written \cup {w} /\ changes' \subseteq changes \cup {w}
  BY DEF Request
<1>3. QED
  BY <1>1, <1>2

LEMMA ScanBounds ==
    /\ StaleAfter \in Nat /\ StaleAfter >= 1 /\ Off = -1
    /\ 0 \in Off..StaleAfter /\ Off \in Off..StaleAfter
BY BotnetAssumption DEF Off

LEMMA ScanStart == BotnetInit => ScanInv
<1> SUFFICES ASSUME BotnetInit
             PROVE  ScanInv
  OBVIOUS
<1>1. seen \in [Address -> Off..StaleAfter]
  BY ScanBounds DEF BotnetInit
<1>2. QED
  BY <1>1 DEF BotnetInit, ScanInv, BotnetShape, ReviewStale, ChangesWritten, RunsAfterDue

\* Rules, attackers, the triage and analysts.
LEMMA OutsideKeeps ==
    ASSUME ScanInv, NEW a \in Address, Unblock(a) \/ \E rule \in BOOLEAN : Attack(a, rule)
    PROVE  ScanInv'
<1>1. CASE Unblock(a)
  <2>1. BotnetShape'
    BY <1>1, ScanBounds DEF Unblock, ScanInv, BotnetShape
  <2>2. ReviewStale'
    BY <1>1 DEF Unblock, ScanInv, BotnetShape, ReviewStale, Stale
  <2>3. QED
    BY <1>1, <2>1, <2>2 DEF Unblock, ScanInv, ChangesWritten, RunsAfterDue
<1>2. ASSUME NEW rule \in BOOLEAN, Attack(a, rule)
      PROVE  ScanInv'
  <2>1. BotnetShape'
    BY <1>2, ScanBounds DEF Attack, ScanInv, BotnetShape
  <2>2. ReviewStale'
    BY <1>2 DEF Attack, ScanInv, BotnetShape, ReviewStale, Stale
  <2>3. QED
    BY <1>2, <2>1, <2>2 DEF Attack, ScanInv, ChangesWritten, RunsAfterDue
<1>3. QED
  BY <1>1, <1>2

LEMMA PeriodKeeps ==
    ASSUME ScanInv, NextPeriod
    PROVE  ScanInv'
<1>1. \A a \in Address : seen[a] \in Off..StaleAfter
  BY DEF ScanInv, BotnetShape
<1>2. seen' \in [Address -> Off..StaleAfter]
  BY <1>1, ScanBounds DEF NextPeriod
<1>3. QED
  BY <1>2 DEF NextPeriod, ScanInv, BotnetShape, ReviewStale, ChangesWritten, RunsAfterDue

LEMMA ReviewKeeps ==
    ASSUME ScanInv, BeginReview \/ \E a \in Address : RemoveStale(a)
    PROVE  ScanInv'
<1>1. CASE BeginReview
  <2>1. todo' \subseteq {a \in Address : Stale(a)} /\ scan' = "review"
    BY <1>1 DEF BeginReview
  <2>2. BotnetShape'
    BY <1>1, <2>1 DEF BeginReview, ScanInv, BotnetShape
  <2>3. ReviewStale'
    BY <1>1, <2>1 DEF BeginReview, ReviewStale, Stale
  <2>4. QED
    BY <1>1, <2>1, <2>2, <2>3 DEF BeginReview, ScanInv, ChangesWritten, RunsAfterDue
<1>2. ASSUME NEW a \in Address, RemoveStale(a)
      PROVE  ScanInv'
  <2>1. /\ todo' = todo \ {a} /\ UNCHANGED <<scan, due, renewed, audit, cut>> /\ scan = "review"
        /\ Request("remove", a, Off)
    BY <1>2 DEF RemoveStale
  <2>2. seen' = [seen EXCEPT ![a] = Off] \/ seen' = seen
    BY <2>1 DEF Request
  <2>3. BotnetShape'
    BY <2>1, <2>2, ScanBounds DEF ScanInv, BotnetShape
  <2>4. ReviewStale'
    BY <2>1, <2>2 DEF ScanInv, BotnetShape, ReviewStale, Stale
  <2>5. ChangesWritten'
    BY <2>1, RequestWritten DEF ScanInv, ChangesWritten, RunsAfterDue
  <2>6. QED
    BY <2>1, <2>3, <2>4, <2>5 DEF ScanInv, RunsAfterDue
<1>3. QED
  BY <1>1, <1>2

LEMMA HuntKeeps ==
    ASSUME ScanInv, BeginHunt \/ \E a \in Address : SkipCandidate(a) \/ AddCandidate(a)
    PROVE  ScanInv'
<1>1. CASE BeginHunt
  <2>1. /\ todo' \subseteq Address /\ scan' = "hunt" /\ scan = "review"
        /\ UNCHANGED <<due, seen, changes>> /\ audit' = audit \cup written /\ written' = {}
    BY <1>1 DEF BeginHunt, Committed
  <2>2. QED
    BY <2>1 DEF ScanInv, BotnetShape, ReviewStale, ChangesWritten, RunsAfterDue
<1>2. ASSUME NEW a \in Address, SkipCandidate(a)
      PROVE  ScanInv'
  BY <1>2 DEF SkipCandidate, ScanInv, BotnetShape, ReviewStale, ChangesWritten, RunsAfterDue
<1>3. ASSUME NEW a \in Address, AddCandidate(a)
      PROVE  ScanInv'
  <2>1. /\ todo' = todo \ {a} /\ UNCHANGED <<scan, due, renewed, audit, cut>> /\ scan = "hunt"
        /\ Request("add", a, 0)
    BY <1>3 DEF AddCandidate
  <2>2. seen' = [seen EXCEPT ![a] = 0] \/ seen' = seen
    BY <2>1 DEF Request
  <2>3. BotnetShape'
    BY <2>1, <2>2, ScanBounds DEF ScanInv, BotnetShape
  <2>4. ReviewStale'
    BY <2>1 DEF ReviewStale
  <2>5. ChangesWritten'
    BY <2>1, RequestWritten DEF ScanInv, ChangesWritten, RunsAfterDue
  <2>6. QED
    BY <2>1, <2>3, <2>4, <2>5 DEF ScanInv, RunsAfterDue
<1>4. QED
  BY <1>1, <1>2, <1>3

\* A roll-back leaves the changes of its own phase without rows.
LEMMA EndKeeps ==
    ASSUME ScanInv, EndHunt \/ Rollback
    PROVE  ScanInv'
<1>1. BotnetShape' /\ ReviewStale' /\ scan' = "idle" /\ written' = {} /\ UNCHANGED <<due, changes>>
  BY DEF EndHunt, Rollback, EndScan, ScanInv, BotnetShape, ReviewStale
<1>2. scan # "idle" /\ changes \subseteq audit \cup written
  BY DEF EndHunt, Rollback, ScanInv, ChangesWritten, RunsAfterDue
<1>3. \A c \in changes' \ audit' : c.act = cut'
  <2>1. CASE EndHunt
    BY <1>1, <1>2, <2>1 DEF EndHunt, Committed
  <2>2. CASE Rollback
    <3>1. audit' = audit /\ cut' = IF scan = "review" THEN "remove" ELSE "add"
      BY <2>2 DEF Rollback
    <3>2. \A w \in written : w.act = IF scan = "review" THEN "remove" ELSE "add"
      BY <1>2 DEF ScanInv, BotnetShape, ChangesWritten
    <3>3. QED
      BY <1>1, <1>2, <3>1, <3>2
  <2>3. QED
    BY <2>1, <2>2
<1>4. ~due'
  BY <1>1, <1>2 DEF ScanInv, RunsAfterDue
<1>5. QED
  BY <1>1, <1>3, <1>4 DEF ScanInv, ChangesWritten, RunsAfterDue

LEMMA ScanStepKeeps == ScanInv /\ [BotnetNext]_botnetVars => ScanInv'
<1> SUFFICES ASSUME ScanInv, [BotnetNext]_botnetVars
             PROVE  ScanInv'
  OBVIOUS
<1>1. CASE UNCHANGED botnetVars
  BY <1>1 DEF botnetVars, ScanInv, BotnetShape, ReviewStale, Stale, ChangesWritten, RunsAfterDue
<1>2. CASE BotnetNext
  BY <1>2, OutsideKeeps, PeriodKeeps, ReviewKeeps, HuntKeeps, EndKeeps DEF BotnetNext, BotnetStep
<1>3. QED
  BY <1>1, <1>2

LEMMA ScanInvAlways == JobsSpec => []ScanInv
<1>1. JobsInit => ScanInv
  BY ScanStart DEF JobsInit
<1>2. ScanInv /\ [JobsNext]_jobsVars => ScanInv'
  BY ScanStepKeeps, StepOfOne
<1>3. QED
  BY <1>1, <1>2, PTL DEF JobsSpec

\* Only the removal of a stale address takes it from the list of the review.
LEMMA RemovalsStale ==
    ASSUME ScanInv, [BotnetNext]_botnetVars, NEW a \in Address,
           scan = "review", a \in todo \ todo', seen[a] # Off, seen'[a] = Off
    PROVE  seen[a] >= StaleAfter \/ a \in renewed
<1>1. Stale(a) \/ a \in renewed
  BY DEF ScanInv, ReviewStale
<1>2. QED
  BY <1>1 DEF Stale

\* Only an addition takes an address from the list of the hunt and changes it.
LEMMA AdditionsKnown ==
    ASSUME ScanInv, [BotnetNext]_botnetVars, NEW a \in Internal,
           scan = "hunt", a \in todo \ todo', seen'[a] # seen[a]
    PROVE  internalIps # Internal
<1>1. a \in Address /\ seen \in [Address -> Off..StaleAfter]
  BY BotnetAssumption DEF ScanInv, BotnetShape
<1>2. CASE \E b \in Address : AddCandidate(b)
  <2>1. PICK b \in Address : AddCandidate(b)
    BY <1>2
  <2>2. b = a /\ a \notin internalIps
    BY <2>1 DEF AddCandidate, Skipped
  <2>3. QED
    BY <2>2
<1>3. CASE seen' = seen
  BY <1>3
<1>4. CASE UNCHANGED todo \/ scan # "hunt"
  BY <1>4
<1>5. QED
  BY <1>2, <1>3, <1>4 DEF BotnetNext, BotnetStep, Unblock, Attack, NextPeriod, BeginReview, BeginHunt,
     EndHunt, EndScan, RemoveStale, SkipCandidate, Rollback, botnetVars

-----------------------------------------------------------------------------
(***************************************************************************)
(* The digest of Falcon.  What waits to be shown is no older than the time *)
(* since the last run and the delay of QRadar together; while a run is     *)
(* under way it has it among its new items.  What was shown has a row at   *)
(* least as young, but for the run that is about to write its rows and     *)
(* for those that lost theirs.                                             *)
(***************************************************************************)
Fates == {"waits", "shown", "known", "cut", "unsent", "missed", "beyond"}
Event == [what : Object, age : 0 .. Lookback + 1, fate : Fates]

WaitingFits ==
    \A e \in events : e.fate = "waits" =>
        /\ falcon = "idle" => e.age <= Late + sinceRun
        /\ falcon = "report" => e.age <= Lookback /\ e.what \in newItems
        /\ falcon # "mark"

RowsYounger ==
    \A k \in Keys :
        k \in unmarked \/ reported[k] <= shown[k] \/ (falcon = "mark" /\ k \in NewKeys)

FalconInv ==
    /\ FalconTypeOK
    /\ WaitingFits
    /\ RowsYounger
    /\ falcon = "report" => \A o \in newItems : ~InTable(o)

LEMMA FalconBounds ==
    /\ Lookback \in Nat /\ DedupTime \in Nat /\ Day \in Nat /\ Late \in Nat
    /\ Day >= 1 /\ Late >= 1 /\ Lookback >= Day + Late
    /\ Long = DedupTime + 1 /\ Long \in Nat /\ 0 \in 0..Long /\ Long \in 0..Long
BY FalconAssumption DEF Long

LEMMA KeyOf ==
    ASSUME NEW o \in Object, o.key # NoHash
    PROVE  o.key \in Keys
BY DEF Keys

\* A fate changes nothing else of an event.
LEMMA FateType ==
    ASSUME NEW e \in Event, NEW f \in Fates
    PROVE  /\ [e EXCEPT !.fate = f] \in Event
           /\ [e EXCEPT !.fate = f].what = e.what
           /\ [e EXCEPT !.fate = f].age = e.age
           /\ [e EXCEPT !.fate = f].fate = f
BY DEF Event

LEMMA FalconStart == FalconInit => FalconInv
<1> SUFFICES ASSUME FalconInit
             PROVE  FalconInv
  OBVIOUS
<1>1. reported \in [Keys -> 0..Long] /\ shown \in [Keys -> 0..Long]
  BY FalconBounds DEF FalconInit
<1>2. FalconTypeOK
  BY <1>1, FalconBounds DEF FalconInit, FalconTypeOK
<1>3. WaitingFits /\ RowsYounger
  BY FalconBounds DEF FalconInit, WaitingFits, RowsYounger
<1>4. QED
  BY <1>2, <1>3 DEF FalconInit, FalconInv

LEMMA DetectKeeps ==
    ASSUME FalconInv, NEW o \in Object, NEW age \in 0..Late, Detect(o, age)
    PROVE  FalconInv'
<1> DEFINE new == [what |-> o, age |-> age, fate |-> "waits"]
<1>1. new \in Event /\ new.age = age /\ new.fate = "waits"
  BY FalconBounds DEF Event, Fates
<1>2. /\ events' = events \cup {new} /\ falcon = "idle"
      /\ UNCHANGED <<falcon, sinceRun, newItems, reported, shown, unmarked>>
  BY DEF Detect
<1> HIDE DEF new
<1>3. FalconTypeOK'
  BY <1>1, <1>2 DEF FalconInv, FalconTypeOK, Event, Fates
<1>4. sinceRun \in Nat
  BY FalconBounds DEF FalconInv, FalconTypeOK
<1>5. WaitingFits'
  BY <1>1, <1>2, <1>4, FalconBounds DEF FalconInv, WaitingFits
<1>6. RowsYounger' /\ (falcon' = "report" => \A p \in newItems' : ~InTable(p)')
  BY <1>2 DEF FalconInv, RowsYounger, NewKeys, KeysOf, InTable
<1>7. QED
  BY <1>3, <1>5, <1>6 DEF FalconInv

LEMMA OlderType ==
    ASSUME NEW f \in [Keys -> 0..Long], NEW g \in [Keys -> 0..Long]
    PROVE  /\ Older(f) \in [Keys -> 0..Long]
           /\ \A k \in Keys : f[k] <= g[k] => Older(f)[k] <= Older(g)[k]
BY FalconBounds DEF Older

LEMMA HourKeeps ==
    ASSUME FalconInv, FalconHour
    PROVE  FalconInv'
<1>1. /\ falcon = "idle" /\ sinceRun < Day /\ sinceRun' = sinceRun + 1
      /\ events' = {[e EXCEPT !.age = e.age + 1] : e \in {x \in events : x.age <= Lookback}}
      /\ reported' = Older(reported) /\ shown' = Older(shown)
      /\ UNCHANGED <<falcon, newItems, unmarked>>
  BY DEF FalconHour
<1>2. events \subseteq Event /\ sinceRun \in 0..Day
      /\ reported \in [Keys -> 0..Long] /\ shown \in [Keys -> 0..Long]
  BY DEF FalconInv, FalconTypeOK, Event, Fates
<1>3. \A e \in Event : e.age <= Lookback =>
        /\ [e EXCEPT !.age = e.age + 1] \in Event
        /\ [e EXCEPT !.age = e.age + 1].fate = e.fate
        /\ [e EXCEPT !.age = e.age + 1].age = e.age + 1
        /\ e.age \in Nat
  BY FalconBounds DEF Event
<1>4. \A f \in events' : f \in Event /\ \E e \in events : f.fate = e.fate /\ f.age = e.age + 1 /\ e.age \in Nat
  <2> SUFFICES ASSUME NEW f \in events'
               PROVE  f \in Event /\ \E e \in events : f.fate = e.fate /\ f.age = e.age + 1 /\ e.age \in Nat
    OBVIOUS
  <2>1. PICK e \in events : e.age <= Lookback /\ f = [e EXCEPT !.age = e.age + 1]
    BY <1>1
  <2>2. e \in Event
    BY <1>2
  <2>3. f \in Event /\ f.fate = e.fate /\ f.age = e.age + 1 /\ e.age \in Nat
    BY <1>3, <2>1, <2>2
  <2>4. QED
    BY <2>3
<1>5. sinceRun' \in 0..Day
  BY <1>1, <1>2, FalconBounds
<1>6. FalconTypeOK'
  BY <1>1, <1>2, <1>4, <1>5, OlderType DEF FalconInv, FalconTypeOK, Event, Fates
<1>7. WaitingFits'
  BY <1>1, <1>2, <1>4, FalconBounds DEF FalconInv, WaitingFits
<1>8. RowsYounger'
  BY <1>1, <1>2, OlderType DEF FalconInv, RowsYounger
<1>9. QED
  BY <1>1, <1>6, <1>7, <1>8 DEF FalconInv

\* Before a run, and with nothing of it done, everything that waits is in reach.
LEMMA AllInReach ==
    ASSUME FalconInv, falcon = "idle"
    PROVE  \A e \in events : e.fate = "waits" => InReach(e)
<1>1. \A e \in events : e.age \in Nat
  BY FalconBounds DEF FalconInv, FalconTypeOK
<1>2. sinceRun \in Nat /\ sinceRun <= Day
  BY FalconBounds DEF FalconInv, FalconTypeOK
<1>3. QED
  BY <1>1, <1>2, FalconBounds DEF FalconInv, WaitingFits, InReach

LEMMA MissedKeeps ==
    ASSUME FalconInv, MissedRun
    PROVE  FalconInv'
<1>1. /\ falcon = "idle" /\ sinceRun' = 0
      /\ events' = {IF InReach(e) /\ e.fate \in {"waits", "unsent", "missed", "beyond"}
                    THEN [e EXCEPT !.fate = "missed"] ELSE e : e \in events}
      /\ UNCHANGED <<falcon, newItems, reported, shown, unmarked>>
  BY DEF MissedRun, Fated
<1>2. events \subseteq Event
  BY DEF FalconInv, FalconTypeOK, Event, Fates
<1>3. \A e \in Event : [e EXCEPT !.fate = "missed"] \in Event /\ [e EXCEPT !.fate = "missed"].fate = "missed"
  BY FateType DEF Fates
<1>4. \A f \in events' : f \in Event /\ f.fate # "waits"
  BY <1>1, <1>2, <1>3, AllInReach
<1>5. FalconTypeOK'
  BY <1>1, <1>4, FalconBounds DEF FalconInv, FalconTypeOK, Event, Fates
<1>6. WaitingFits' /\ RowsYounger'
  BY <1>1, <1>4 DEF FalconInv, WaitingFits, RowsYounger
<1>7. QED
  BY <1>1, <1>5, <1>6 DEF FalconInv

\* What waits after the filter is new.
LEMMA FilterKeeps ==
    ASSUME FalconInv, NEW rows \in SUBSET events, FilterAndDedupe(rows)
    PROVE  FalconInv'
<1> DEFINE Fate(e) == IF e \notin rows THEN "beyond" ELSE IF InTable(e.what) THEN "known" ELSE e.fate
<1>1. /\ falcon = "idle" /\ sinceRun' = 0
      /\ newItems' = {o \in {e.what : e \in rows} : ~InTable(o)}
      /\ falcon' = IF newItems' = {} THEN "idle" ELSE "report"
      /\ UNCHANGED <<reported, shown, unmarked>>
  BY DEF FilterAndDedupe, AfterFilter
<1>2. events' = {IF InReach(e) /\ e.fate \in {"waits", "unsent", "missed", "beyond"}
                 THEN [e EXCEPT !.fate = Fate(e)] ELSE e : e \in events}
  BY DEF FilterAndDedupe, Fated
<1>3. events \subseteq Event
  BY DEF FalconInv, FalconTypeOK, Event, Fates
<1>4. \A e \in events : Fate(e) \in Fates /\ (Fate(e) = "waits" => e \in rows /\ ~InTable(e.what))
  BY <1>3 DEF Event, Fates
<1> HIDE DEF Fate
<1>5. \A f \in events' : f \in Event /\ (f.fate = "waits" => f.age <= Lookback /\ f.what \in newItems')
  <2> SUFFICES ASSUME NEW e \in events
               PROVE  LET f == IF InReach(e) /\ e.fate \in {"waits", "unsent", "missed", "beyond"}
                               THEN [e EXCEPT !.fate = Fate(e)] ELSE e
                      IN f \in Event /\ (f.fate = "waits" => f.age <= Lookback /\ f.what \in newItems')
    BY <1>2
  <2>1. e \in Event /\ Fate(e) \in Fates
    BY <1>3, <1>4
  <2>2. CASE InReach(e) /\ e.fate \in {"waits", "unsent", "missed", "beyond"}
    <3>1. /\ [e EXCEPT !.fate = Fate(e)] \in Event /\ [e EXCEPT !.fate = Fate(e)].what = e.what
          /\ [e EXCEPT !.fate = Fate(e)].age = e.age /\ [e EXCEPT !.fate = Fate(e)].fate = Fate(e)
      BY <2>1, FateType
    <3>2. Fate(e) = "waits" => e.age <= Lookback /\ e.what \in newItems'
      BY <1>1, <1>4, <2>2 DEF InReach
    <3>3. QED
      BY <2>2, <3>1, <3>2
  <2>3. CASE ~(InReach(e) /\ e.fate \in {"waits", "unsent", "missed", "beyond"})
    BY <1>1, <2>1, <2>3, AllInReach
  <2>4. QED
    BY <2>2, <2>3
<1>6. newItems' \subseteq Object
  BY <1>1, <1>3 DEF Event
<1>7. FalconTypeOK'
  BY <1>1, <1>5, <1>6, FalconBounds DEF FalconInv, FalconTypeOK, Event, Fates
<1>8. WaitingFits'
  BY <1>1, <1>5 DEF WaitingFits
<1>9. RowsYounger'
  BY <1>1 DEF FalconInv, RowsYounger
<1>10. falcon' = "report" => \A o \in newItems' : ~InTable(o)'
  BY <1>1 DEF InTable
<1>11. QED
  BY <1>7, <1>8, <1>9, <1>10 DEF FalconInv

\* Once every new item has a fate, nothing waits.
LEMMA NothingWaits ==
    ASSUME FalconInv, falcon = "report", NEW fate \in [events -> Fates],
           \A e \in events : e.what \in newItems \/ e.fate # "waits" => fate[e] # "waits",
           events' = {IF InReach(e) /\ e.fate \in {"waits", "unsent", "missed", "beyond"}
                      THEN [e EXCEPT !.fate = fate[e]] ELSE e : e \in events}
    PROVE  \A f \in events' : f \in Event /\ f.fate # "waits"
<1>1. events \subseteq Event
  BY DEF FalconInv, FalconTypeOK, Event, Fates
<1>2. \A e \in events : e.fate = "waits" => InReach(e) /\ e.what \in newItems
  BY DEF FalconInv, WaitingFits, InReach
<1> SUFFICES ASSUME NEW f \in events'
             PROVE  f \in Event /\ f.fate # "waits"
  OBVIOUS
<1>3. PICK e \in events :
        f = IF InReach(e) /\ e.fate \in {"waits", "unsent", "missed", "beyond"}
            THEN [e EXCEPT !.fate = fate[e]] ELSE e
  OBVIOUS
<1>4. fate[e] \in Fates /\ fate[e] # "waits"
  BY <1>2
<1>5. [e EXCEPT !.fate = fate[e]] \in Event /\ [e EXCEPT !.fate = fate[e]].fate = fate[e]
  BY <1>1, <1>4, FateType
<1>6. QED
  BY <1>1, <1>2, <1>3, <1>4, <1>5

\* The same when the fates are given by what is in the message.
LEMMA NothingWaitsAfter ==
    ASSUME FalconInv, falcon = "report", NEW part \in SUBSET newItems,
           NEW told \in Fates \ {"waits"}, NEW rest \in Fates \ {"waits"},
           events' = {IF InReach(e) /\ e.fate \in {"waits", "unsent", "missed", "beyond"}
                      THEN [e EXCEPT !.fate = IF e.what \in part THEN told
                                              ELSE IF e.what \in newItems THEN rest ELSE e.fate]
                      ELSE e : e \in events}
    PROVE  \A f \in events' : f \in Event /\ f.fate # "waits"
<1> DEFINE fate == [e \in events |-> IF e.what \in part THEN told
                                     ELSE IF e.what \in newItems THEN rest ELSE e.fate]
<1>1. \A e \in events : e.fate \in Fates
  BY DEF FalconInv, FalconTypeOK, Fates
<1>2. fate \in [events -> Fates]
  BY <1>1
<1>3. \A e \in events : e.what \in newItems \/ e.fate # "waits" => fate[e] # "waits"
  OBVIOUS
<1>4. events' = {IF InReach(e) /\ e.fate \in {"waits", "unsent", "missed", "beyond"}
                 THEN [e EXCEPT !.fate = fate[e]] ELSE e : e \in events}
  OBVIOUS
<1> HIDE DEF fate
<1>5. QED
  BY <1>2, <1>3, <1>4, NothingWaits

\* What a message changes, whatever the run learns of it.
LEMMA DeliveryKeeps ==
    ASSUME FalconInv, NEW part \in SUBSET newItems, NEW rest \in Fates \ {"waits"},
           Delivered(part, rest)
    PROVE  /\ falcon = "report" /\ newItems # {}
           /\ \A f \in events' : f \in Event /\ f.fate # "waits"
           /\ shown' \in [Keys -> 0..Long]
           /\ \A k \in Keys : k \notin KeysOf(part) => shown'[k] = shown[k]
<1>1. /\ falcon = "report"
      /\ shown' = [k \in Keys |-> IF \E o \in part : o.key = k THEN 0 ELSE shown[k]]
      /\ events' = {IF InReach(e) /\ e.fate \in {"waits", "unsent", "missed", "beyond"}
                    THEN [e EXCEPT !.fate = IF e.what \in part THEN "shown"
                                            ELSE IF e.what \in newItems THEN rest ELSE e.fate]
                    ELSE e : e \in events}
  BY DEF Delivered, Fated
<1>2. newItems # {} /\ shown \in [Keys -> 0..Long]
  BY <1>1 DEF FalconInv, FalconTypeOK
<1>3. "shown" \in Fates \ {"waits"}
  BY DEF Fates
<1>4. \A f \in events' : f \in Event /\ f.fate # "waits"
  BY <1>1, <1>3, NothingWaitsAfter
<1>5. shown' \in [Keys -> 0..Long]
  BY <1>1, <1>2, FalconBounds
<1>6. \A k \in Keys : k \notin KeysOf(part) => shown'[k] = shown[k]
  BY <1>1 DEF KeysOf, Keys
<1>7. QED
  BY <1>1, <1>2, <1>4, <1>5, <1>6

\* After the message, or without it, nothing waits.
LEMMA OutcomeKeeps ==
    ASSUME FalconInv,
           WebhookFails \/ \E part \in SUBSET newItems : SendReport(part) \/ ReportAnswerLost(part)
    PROVE  FalconInv'
<1>1. {"shown", "cut", "unsent"} \subseteq Fates \ {"waits"}
  BY DEF Fates
<1>2. CASE WebhookFails
  <2>1. /\ events' = {IF InReach(e) /\ e.fate \in {"waits", "unsent", "missed", "beyond"}
                      THEN [e EXCEPT !.fate = IF e.what \in newItems THEN "unsent" ELSE e.fate] ELSE e : e \in events}
        /\ falcon = "report" /\ newItems' = {} /\ falcon' = "idle"
        /\ UNCHANGED <<sinceRun, reported, shown, unmarked>>
    BY <1>2 DEF WebhookFails, Fated
  <2>2. \A f \in events' : f \in Event /\ f.fate # "waits"
    <3> DEFINE fate == [e \in events |-> IF e.what \in newItems THEN "unsent" ELSE e.fate]
    <3>1. \A e \in events : e.fate \in Fates
      BY DEF FalconInv, FalconTypeOK, Fates
    <3>2. fate \in [events -> Fates]
      BY <1>1, <3>1
    <3>3. \A e \in events : e.what \in newItems \/ e.fate # "waits" => fate[e] # "waits"
      OBVIOUS
    <3>4. events' = {IF InReach(e) /\ e.fate \in {"waits", "unsent", "missed", "beyond"}
                     THEN [e EXCEPT !.fate = fate[e]] ELSE e : e \in events}
      BY <2>1
    <3> HIDE DEF fate
    <3>5. QED
      BY <2>1, <3>2, <3>3, <3>4, NothingWaits
  <2>3. FalconTypeOK'
    BY <2>1, <2>2 DEF FalconInv, FalconTypeOK, Event, Fates
  <2>4. WaitingFits' /\ RowsYounger'
    BY <2>1, <2>2 DEF FalconInv, WaitingFits, RowsYounger
  <2>5. QED
    BY <2>1, <2>3, <2>4 DEF FalconInv
<1>3. ASSUME NEW part \in SUBSET newItems, SendReport(part)
      PROVE  FalconInv'
  <2>1. /\ Delivered(part, "cut") /\ falcon' = "mark"
        /\ UNCHANGED <<sinceRun, newItems, reported, unmarked>>
    BY <1>3 DEF SendReport
  <2>2. /\ falcon = "report" /\ newItems # {} /\ shown' \in [Keys -> 0..Long]
        /\ \A f \in events' : f \in Event /\ f.fate # "waits"
        /\ \A k \in Keys : k \notin KeysOf(part) => shown'[k] = shown[k]
    BY <1>1, <2>1, DeliveryKeeps
  <2>3. FalconTypeOK'
    BY <2>1, <2>2 DEF FalconInv, FalconTypeOK, Event, Fates
  <2>4. WaitingFits'
    BY <2>2 DEF WaitingFits
  <2>5. RowsYounger'
    <3>1. NewKeys' = NewKeys /\ KeysOf(part) \subseteq NewKeys
      BY <2>1 DEF NewKeys, KeysOf
    <3>2. QED
      BY <2>1, <2>2, <3>1 DEF FalconInv, RowsYounger
  <2>6. QED
    BY <2>1, <2>3, <2>4, <2>5 DEF FalconInv
<1>4. ASSUME NEW part \in SUBSET newItems, ReportAnswerLost(part)
      PROVE  FalconInv'
  <2>1. /\ Delivered(part, "unsent") /\ falcon' = "idle" /\ newItems' = {}
        /\ unmarked' = unmarked \cup KeysOf(part) /\ UNCHANGED <<sinceRun, reported>>
    BY <1>4 DEF ReportAnswerLost
  <2>2. /\ falcon = "report" /\ shown' \in [Keys -> 0..Long]
        /\ \A f \in events' : f \in Event /\ f.fate # "waits"
        /\ \A k \in Keys : k \notin KeysOf(part) => shown'[k] = shown[k]
    BY <1>1, <2>1, DeliveryKeeps
  <2>3. unmarked' \subseteq Keys
    BY <2>1 DEF KeysOf, Keys, FalconInv, FalconTypeOK
  <2>4. FalconTypeOK'
    BY <2>1, <2>2, <2>3 DEF FalconInv, FalconTypeOK, Event, Fates
  <2>5. WaitingFits'
    BY <2>2 DEF WaitingFits
  <2>6. RowsYounger'
    BY <2>1, <2>2 DEF FalconInv, RowsYounger
  <2>7. QED
    BY <2>1, <2>4, <2>5, <2>6 DEF FalconInv
<1>5. QED
  BY <1>2, <1>3, <1>4

LEMMA MarkKeeps ==
    ASSUME FalconInv, MarkReported \/ MarkLost
    PROVE  FalconInv'
<1>1. /\ falcon = "mark" /\ falcon' = "idle" /\ newItems' = {}
      /\ UNCHANGED <<sinceRun, events, shown>>
  BY DEF MarkReported, MarkLost
<1>2. /\ \A k \in Keys : shown[k] \in Nat
      /\ reported \in [Keys -> 0..Long] /\ NewKeys \subseteq Keys
  BY FalconBounds DEF FalconInv, FalconTypeOK, NewKeys, KeysOf, Keys
<1>3. reported' \in [Keys -> 0..Long] /\ unmarked' \subseteq Keys
  BY <1>2, FalconBounds DEF MarkReported, MarkFound, MarkLost, FalconInv, FalconTypeOK
<1>4. FalconTypeOK'
  BY <1>1, <1>3 DEF FalconInv, FalconTypeOK
<1>5. WaitingFits'
  BY <1>1 DEF FalconInv, WaitingFits
<1>6. RowsYounger'
  <2>1. CASE MarkReported
    BY <1>1, <1>2, <2>1 DEF MarkReported, MarkFound, FalconInv, RowsYounger
  <2>2. CASE MarkLost
    BY <1>1, <2>2 DEF MarkLost, FalconInv, RowsYounger
  <2>3. QED
    BY <2>1, <2>2
<1>7. QED
  BY <1>1, <1>4, <1>5, <1>6 DEF FalconInv

LEMMA FalconStepKeeps == FalconInv /\ [FalconNext]_falconVars => FalconInv'
<1> SUFFICES ASSUME FalconInv, [FalconNext]_falconVars
             PROVE  FalconInv'
  OBVIOUS
<1>1. CASE UNCHANGED falconVars
  BY <1>1 DEF falconVars, FalconInv, FalconTypeOK, WaitingFits, RowsYounger, NewKeys, KeysOf, InTable
<1>2. CASE FalconNext
  BY <1>2, DetectKeeps, HourKeeps, MissedKeeps, FilterKeeps, OutcomeKeeps, MarkKeeps DEF FalconNext
<1>3. QED
  BY <1>1, <1>2

LEMMA FalconInvAlways == JobsSpec => []FalconInv
<1>1. JobsInit => FalconInv
  BY FalconStart DEF JobsInit
<1>2. FalconInv /\ [JobsNext]_jobsVars => FalconInv'
  BY FalconStepKeeps, StepOfOne
<1>3. QED
  BY <1>1, <1>2, PTL DEF JobsSpec

\* What leaves the reach of the digest does not wait.
LEMMA FalconOverlooksNothing == FalconInv => NothingOverlooked
<1> SUFFICES ASSUME FalconInv, NEW e \in events, e.age > Lookback, e.fate = "waits"
             PROVE  FALSE
  BY DEF NothingOverlooked
<1>1. e.age \in Nat /\ falcon \in {"idle", "report", "mark"}
  BY FalconBounds DEF FalconInv, FalconTypeOK
<1>2. falcon # "report" /\ falcon # "mark"
  BY <1>1, FalconBounds DEF FalconInv, WaitingFits
<1>3. InReach(e)
  BY <1>1, <1>2, AllInReach
<1>4. QED
  BY <1>1, <1>3, FalconBounds DEF InReach

\* Only a message makes a file's age 0 again, and it names new items alone.
LEMMA FalconShowsOnce ==
    ASSUME FalconInv, [FalconNext]_falconVars, NEW k \in Keys,
           shown'[k] = 0, shown[k] # 0, shown[k] <= DedupTime
    PROVE  k \in unmarked
<1>1. shown \in [Keys -> 0..Long] /\ reported \in [Keys -> 0..Long]
  BY DEF FalconInv, FalconTypeOK
<1>2. CASE shown' = shown
  BY <1>2
<1>3. CASE FalconHour
  BY <1>1, <1>3, FalconBounds DEF FalconHour, Older
<1>4. ASSUME NEW part \in SUBSET newItems, SendReport(part) \/ ReportAnswerLost(part)
      PROVE  k \in unmarked
  <2>0. falcon = "report" /\ shown' = [j \in Keys |-> IF \E o \in part : o.key = j THEN 0 ELSE shown[j]]
    BY <1>4 DEF SendReport, ReportAnswerLost, Delivered, Fated
  <2>1. PICK o \in part : o.key = k
    BY <1>1, <2>0
  <2>2. ~InTable(o) /\ k # NoHash
    BY <2>0, <2>1 DEF FalconInv, Keys
  <2>3. reported[k] > DedupTime
    BY <1>1, <2>1, <2>2, FalconBounds DEF InTable
  <2>4. k \in unmarked \/ reported[k] <= shown[k]
    BY <2>0 DEF FalconInv, RowsYounger
  <2>5. QED
    BY <1>1, <2>3, <2>4, FalconBounds
<1>5. QED
  BY <1>2, <1>3, <1>4 DEF FalconNext, Detect, MissedRun, FilterAndDedupe, WebhookFails, MarkReported,
     MarkLost, falconVars

-----------------------------------------------------------------------------
(***************************************************************************)
(* The digest of Cortex XDR.  Alerts stand in order of creation, so those  *)
(* of the window are a tail and the pages cut a run of it; what comes      *)
(* while the pages are read stands behind it and is left to the next run.  *)
(***************************************************************************)
XdrFates == {"waits", "shown", "unmarked", "cut", "capped", "unsent", "missed"}
Alert == [age : 0 .. XdrLookback + 1, row : BOOLEAN, fate : XdrFates]

InOrder == \A i, j \in 1..Len(alerts) : i <= j => alerts[j].age <= alerts[i].age

RunFits ==
    /\ xdr = "idle" => first = 1 /\ count = 0 /\ present = 0
    /\ xdr # "idle" => xdrSince = 0 /\ \A i \in 1..Len(alerts) : i > present => alerts[i].age = 0
    /\ xdr \in {"filter", "send", "mark"} /\ count < XdrCap => first + count > present

AlertWaits(i) ==
    /\ ~alerts[i].row
    /\ xdr = "idle" => alerts[i].age <= xdrSince
    /\ xdr # "idle" => alerts[i].age <= XdrLookback
    /\ xdr \in {"fetch", "filter", "send"} /\ i <= present => i >= first
    /\ xdr = "send" /\ i <= present => i < first + count
    /\ xdr = "mark" => i > present /\ i \notin Fetched

AlertsWait == \A i \in 1..Len(alerts) : alerts[i].fate = "waits" => AlertWaits(i)

\* What was in a message, or had no place there, has a row.
ToldHaveRows ==
    \A i \in 1..Len(alerts) :
        alerts[i].fate \in {"shown", "cut"} => alerts[i].row \/ (xdr = "mark" /\ i \in New)

XdrInv == XdrTypeOK /\ InOrder /\ RunFits /\ AlertsWait /\ ToldHaveRows

LEMMA XdrBounds ==
    /\ XdrLookback \in Nat /\ XdrPage \in Nat /\ XdrCap \in Nat /\ XdrDay \in Nat
    /\ XdrPage >= 1 /\ XdrCap >= 1 /\ XdrDay <= XdrLookback
BY XdrAssumption

LEMMA AlertList ==
    ASSUME XdrTypeOK
    PROVE  /\ alerts \in Seq(Alert) /\ Len(alerts) \in Nat /\ DOMAIN alerts = 1..Len(alerts)
           /\ \A i \in 1..Len(alerts) :
                /\ alerts[i] \in Alert /\ alerts[i].age \in Nat
                /\ alerts[i].row \in BOOLEAN /\ alerts[i].fate \in XdrFates
           /\ first \in Nat /\ first >= 1 /\ count \in Nat /\ count <= XdrCap /\ present \in Nat
           /\ present <= Len(alerts) /\ first + count <= Len(alerts) + 1
           /\ xdrSince \in Nat /\ xdrSince <= XdrDay
<1>1. alerts \in Seq(Alert)
  BY DEF XdrTypeOK, Alert, XdrFates
<1>2. Len(alerts) \in Nat /\ DOMAIN alerts = 1..Len(alerts)
  BY <1>1
<1>3. \A i \in 1..Len(alerts) : alerts[i] \in Alert
  BY <1>1
<1>4. \A a \in Alert : a.age \in Nat /\ a.row \in BOOLEAN /\ a.fate \in XdrFates
  BY XdrBounds DEF Alert
<1>5. QED
  BY <1>1, <1>2, <1>3, <1>4, XdrBounds DEF XdrTypeOK

LEMMA FetchedAre ==
    ASSUME XdrTypeOK
    PROVE  /\ Fetched = {i \in 1..Len(alerts) : first <= i /\ i < first + count}
           /\ New = {i \in Fetched : ~alerts[i].row}
BY AlertList DEF Fetched, New

LEMMA XdrStart == XdrInit => XdrInv
<1> SUFFICES ASSUME XdrInit
             PROVE  XdrInv
  OBVIOUS
<1>1. alerts = <<>> /\ Len(alerts) = 0 /\ \A S : alerts \in Seq(S)
  BY DEF XdrInit
<1>2. XdrTypeOK
  BY <1>1, XdrBounds DEF XdrInit, XdrTypeOK
<1>3. QED
  BY <1>1, <1>2 DEF XdrInit, XdrInv, InOrder, RunFits, AlertsWait, ToldHaveRows

\* The window is the tail that begins at FirstInWindow.
LEMMA WindowIsTail ==
    ASSUME XdrInv
    PROVE  /\ FirstInWindow \in 1 .. Len(alerts) + 1
           /\ \A i \in 1..Len(alerts) : InWindow(alerts[i]) <=> i >= FirstInWindow
<1> DEFINE n == Len(alerts)
<1>1. n \in Nat /\ DOMAIN alerts = 1..n
  BY AlertList DEF XdrInv
<1>2. Beyond \in SUBSET (1..n)
  BY <1>1 DEF Beyond
<1> HIDE DEF n
<1>3. IsFiniteSet(1..n) /\ Cardinality(1..n) = n
  BY <1>1, FS_Interval
<1>4. IsFiniteSet(Beyond) /\ Cardinality(Beyond) \in Nat /\ Cardinality(Beyond) <= n
  BY <1>2, <1>3, FS_Subset, FS_CardinalityType
<1>5. ASSUME NEW i \in 1..n, InWindow(alerts[i])
      PROVE  Cardinality(Beyond) < i
  <2>1. Beyond \in SUBSET (1..(i - 1))
    <3> SUFFICES ASSUME NEW j \in 1..n, ~InWindow(alerts[j]), j >= i
                 PROVE  FALSE
      BY <1>1, <1>2 DEF Beyond
    <3>1. alerts[j].age <= alerts[i].age /\ alerts[i].age \in Nat /\ alerts[j].age \in Nat
      BY AlertList DEF XdrInv, InOrder, n
    <3>2. QED
      BY <1>5, <3>1, XdrBounds DEF InWindow
  <2>2. IsFiniteSet(1..(i - 1)) /\ Cardinality(1..(i - 1)) = i - 1
    BY <1>1, FS_Interval
  <2>3. Cardinality(Beyond) <= i - 1
    BY <2>1, <2>2, FS_Subset
  <2>4. QED
    BY <1>1, <1>4, <2>3
<1>6. ASSUME NEW i \in 1..n, ~InWindow(alerts[i])
      PROVE  i <= Cardinality(Beyond)
  <2>1. 1..i \in SUBSET Beyond
    <3> SUFFICES ASSUME NEW j \in 1..i
                 PROVE  j \in 1..n /\ ~InWindow(alerts[j])
      BY <1>1 DEF Beyond
    <3>1. j \in 1..n
      BY <1>1
    <3>2. alerts[i].age <= alerts[j].age /\ alerts[i].age \in Nat /\ alerts[j].age \in Nat
      BY <1>1, <3>1, AlertList DEF XdrInv, InOrder, n
    <3>3. QED
      BY <1>6, <3>1, <3>2, XdrBounds DEF InWindow
  <2>2. IsFiniteSet(1..i) /\ Cardinality(1..i) = i
    BY <1>1, FS_Interval
  <2>3. QED
    BY <1>4, <2>1, <2>2, FS_Subset
<1>7. QED
  BY <1>1, <1>4, <1>5, <1>6 DEF FirstInWindow, n

\* An alert that is added stands last, outside what the run reads or has read.
LEMMA RaiseKeeps ==
    ASSUME XdrInv, Raise
    PROVE  XdrInv'
<1> DEFINE n == Len(alerts)
<1>1. NewAlert \in Alert /\ NewAlert.age = 0 /\ NewAlert.fate = "waits" /\ ~NewAlert.row
  BY XdrBounds DEF NewAlert, Alert, XdrFates
<1>2. alerts' = Append(alerts, NewAlert) /\ UNCHANGED <<xdr, xdrSince, first, count, present>>
  BY DEF Raise
<1>3. XdrTypeOK /\ n \in Nat /\ alerts \in Seq(Alert)
  BY AlertList DEF XdrInv
<1>4. /\ alerts' \in Seq(Alert) /\ Len(alerts') = n + 1
      /\ \A i \in 1..n : alerts'[i] = alerts[i]
      /\ alerts'[n + 1] = NewAlert
  BY <1>1, <1>2, <1>3
<1>5. XdrTypeOK'
  BY <1>2, <1>3, <1>4, AlertList DEF XdrTypeOK, Alert, XdrFates
<1>6. InOrder'
  <2> SUFFICES ASSUME NEW i \in 1 .. n + 1, NEW j \in 1 .. n + 1, i <= j
               PROVE  alerts'[j].age <= alerts'[i].age
    BY <1>4 DEF InOrder
  <2>1. CASE j \in 1..n
    BY <1>3, <1>4, <2>1 DEF XdrInv, InOrder
  <2>2. CASE j = n + 1
    <3>1. alerts'[j].age = 0
      BY <1>1, <1>4, <2>2
    <3>2. alerts'[i].age \in Nat
      BY <1>1, <1>3, <1>4, AlertList
    <3>3. QED
      BY <3>1, <3>2
  <2>3. QED
    BY <1>3, <2>1, <2>2
<1>7. RunFits'
  BY <1>1, <1>2, <1>3, <1>4 DEF XdrInv, RunFits
<1>8. Fetched' = Fetched /\ New' = New
  <2> HIDE DEF n
  <2>1. DOMAIN alerts' = 1 .. n + 1 /\ DOMAIN alerts = 1..n /\ n \in Nat
    BY <1>3, <1>4 DEF n
  <2>2. first \in Nat /\ count \in Nat /\ first + count <= n + 1
    BY <1>3, AlertList DEF n
  <2>3. Fetched' = Fetched
    BY <1>2, <2>1, <2>2 DEF Fetched
  <2>4. \A i \in Fetched : alerts'[i] = alerts[i]
    BY <1>4, <2>1 DEF Fetched, n
  <2>5. QED
    BY <2>3, <2>4 DEF New
<1>9. AlertsWait'
  <2> HIDE DEF n
  <2>1. ASSUME NEW i \in 1..n, alerts'[i].fate = "waits"
        PROVE  AlertWaits(i)'
    <3>1. AlertWaits(i)
      BY <1>4, <2>1 DEF XdrInv, AlertsWait, n
    <3>2. QED
      BY <1>2, <1>4, <1>8, <3>1 DEF AlertWaits
  <2>2. n + 1 > present /\ n + 1 \notin Fetched
    BY <1>3, AlertList, FetchedAre DEF n
  <2>3. ASSUME NEW i, i = n + 1
        PROVE  AlertWaits(i)'
    <3>1. ~alerts'[i].row /\ alerts'[i].age = 0 /\ i > present /\ i \notin Fetched
      BY <1>1, <1>4, <2>2, <2>3
    <3>2. i \in Int /\ present \in Nat /\ xdrSince \in Nat /\ XdrLookback \in Nat
      BY <1>3, <2>3, AlertList, XdrBounds
    <3>3. ~(i <= present') /\ i \notin Fetched' /\ i > present'
      BY <1>2, <1>8, <3>1, <3>2
    <3>4. alerts'[i].age <= xdrSince' /\ alerts'[i].age <= XdrLookback
      BY <1>2, <3>1, <3>2
    <3>5. QED
      BY <3>1, <3>3, <3>4 DEF AlertWaits
  <2>4. \A i \in 1 .. n + 1 : i \in 1..n \/ i = n + 1
    BY <1>3
  <2>5. QED
    BY <1>4, <2>1, <2>3, <2>4 DEF AlertsWait
<1>10. ToldHaveRows'
  BY <1>1, <1>2, <1>3, <1>4, <1>8 DEF XdrInv, ToldHaveRows
<1>11. QED
  BY <1>5, <1>6, <1>7, <1>9, <1>10 DEF XdrInv

\* Between runs the alerts grow older together, and what has left the window goes.
LEMMA XdrHourKeeps ==
    ASSUME XdrInv, XdrHour
    PROVE  XdrInv'
<1> DEFINE n == Len(alerts)
           f == FirstInWindow
           kept == SubSeq(alerts, f, n)
<1>1. XdrTypeOK /\ n \in Nat /\ alerts \in Seq(Alert) /\ f \in 1 .. n + 1
  BY AlertList, WindowIsTail DEF XdrInv
<1>2. /\ xdr = "idle" /\ xdrSince < XdrDay /\ xdrSince' = xdrSince + 1
      /\ alerts' = [i \in DOMAIN kept |-> [kept[i] EXCEPT !.age = kept[i].age + 1]]
      /\ UNCHANGED <<xdr, first, count, present>>
      /\ first = 1 /\ count = 0 /\ present = 0
  BY DEF XdrHour, XdrInv, RunFits
<1> HIDE DEF f, n
<1>3. /\ kept \in Seq(Alert) /\ Len(kept) = n + 1 - f
      /\ \A i \in 1 .. n + 1 - f : kept[i] = alerts[f + i - 1]
  BY <1>1 DEF n
<1> HIDE DEF kept
<1>4. \A i \in 1 .. n + 1 - f : f + i - 1 \in 1..n /\ kept[i] \in Alert /\ kept[i].age <= XdrLookback
  BY <1>1, <1>3, WindowIsTail, AlertList DEF InWindow, f, n
<1>5. \A a \in Alert : a.age <= XdrLookback =>
        /\ [a EXCEPT !.age = a.age + 1] \in Alert
        /\ [a EXCEPT !.age = a.age + 1].age = a.age + 1
        /\ [a EXCEPT !.age = a.age + 1].fate = a.fate
        /\ [a EXCEPT !.age = a.age + 1].row = a.row
  BY XdrBounds DEF Alert
<1>6. \A i \in 1 .. n + 1 - f :
        /\ alerts'[i] \in Alert /\ alerts'[i].age = alerts[f + i - 1].age + 1
        /\ alerts'[i].fate = alerts[f + i - 1].fate /\ alerts'[i].row = alerts[f + i - 1].row
  BY <1>1, <1>2, <1>3, <1>4, <1>5
<1>7. alerts' \in Seq(Alert) /\ Len(alerts') = n + 1 - f
  <2>1. n + 1 - f \in Nat /\ DOMAIN kept = 1 .. n + 1 - f
    BY <1>1, <1>3
  <2>2. alerts' \in [1 .. n + 1 - f -> Alert]
    BY <1>2, <1>6, <2>1
  <2>3. QED
    BY <2>1, <2>2, ListOf
<1>8. XdrTypeOK'
  <2>1. xdrSince' \in 0..XdrDay
    BY <1>1, <1>2, XdrBounds DEF XdrTypeOK
  <2>2. first' \in 1 .. Len(alerts') + 1 /\ present' \in 0 .. Len(alerts') /\ count' \in 0..XdrCap
        /\ first' + count' <= Len(alerts') + 1
    BY <1>1, <1>2, <1>7, XdrBounds
  <2>3. QED
    BY <1>2, <1>7, <2>1, <2>2 DEF XdrTypeOK, Alert, XdrFates
<1>9. \A i \in 1 .. n + 1 - f : alerts[f + i - 1].age \in Nat
  BY <1>1, <1>4, AlertList DEF n
<1>10. InOrder'
  <2> SUFFICES ASSUME NEW i \in 1 .. n + 1 - f, NEW j \in 1 .. n + 1 - f, i <= j
               PROVE  alerts'[j].age <= alerts'[i].age
    BY <1>7 DEF InOrder
  <2>1. alerts[f + j - 1].age <= alerts[f + i - 1].age
    <3>1. f + i - 1 \in 1..n /\ f + j - 1 \in 1..n /\ f + i - 1 <= f + j - 1
      BY <1>1, <1>4
    <3>2. QED
      BY <3>1 DEF XdrInv, InOrder, n
  <2>2. QED
    BY <1>6, <1>9, <2>1
<1>11. RunFits'
  BY <1>2 DEF RunFits
<1>12. ASSUME NEW i \in 1 .. n + 1 - f
       PROVE  /\ alerts'[i].fate = "waits" => AlertWaits(i)'
              /\ alerts'[i].fate \in {"shown", "cut"} => alerts'[i].row
  <2> DEFINE k == f + i - 1
  <2>1. k \in 1..n /\ alerts[k].age \in Nat /\ alerts'[i].age = alerts[k].age + 1
        /\ alerts'[i].fate = alerts[k].fate /\ alerts'[i].row = alerts[k].row
    BY <1>4, <1>6, <1>9
  <2> HIDE DEF k
  <2>2. alerts[k].fate = "waits" => AlertWaits(k)
    BY <2>1 DEF XdrInv, AlertsWait, n
  <2>3. alerts[k].fate = "waits" => ~alerts[k].row /\ alerts[k].age <= xdrSince
    BY <1>2, <2>2 DEF AlertWaits
  <2>4. alerts[k].fate \in {"shown", "cut"} => alerts[k].row
    BY <1>2, <2>1 DEF XdrInv, ToldHaveRows, n
  <2>5. alerts'[i].fate = "waits" => ~alerts'[i].row /\ alerts'[i].age <= xdrSince'
    <3>1. xdrSince \in Nat
      BY <1>1, AlertList
    <3>2. QED
      BY <1>2, <2>1, <2>3, <3>1
  <2>6. QED
    BY <1>2, <2>1, <2>4, <2>5 DEF AlertWaits
<1>13. AlertsWait' /\ ToldHaveRows'
  BY <1>7, <1>12 DEF AlertsWait, ToldHaveRows
<1>14. QED
  BY <1>8, <1>10, <1>11, <1>13 DEF XdrInv

\* The reading: begins in front of all that waits, and ends behind what was there when it
\* began, unless the cap ends it.
LEMMA FetchKeeps ==
    ASSUME XdrInv, BeginFetch \/ FetchPage
    PROVE  XdrInv'
<1>1. XdrTypeOK /\ Len(alerts) \in Nat
  BY AlertList DEF XdrInv
<1>2. CASE BeginFetch
  <2>1. /\ xdr = "idle" /\ xdrSince = XdrDay /\ xdrSince' = 0 /\ xdr' = "fetch"
        /\ first' = FirstInWindow /\ count' = 0 /\ present' = Len(alerts) /\ alerts' = alerts
    BY <1>2 DEF BeginFetch
  <2>2. XdrTypeOK'
    BY <1>1, <2>1, WindowIsTail, XdrBounds DEF XdrTypeOK
  <2>3. RunFits' /\ InOrder' /\ ToldHaveRows'
    BY <2>1 DEF XdrInv, RunFits, InOrder, ToldHaveRows
  <2>4. \A i \in 1..Len(alerts) : alerts[i].fate = "waits" => InWindow(alerts[i])
    BY <1>1, <2>1, AlertList, XdrBounds DEF XdrInv, AlertsWait, AlertWaits, InWindow
  <2>5. AlertsWait'
    BY <2>1, <2>4, WindowIsTail DEF XdrInv, AlertsWait, AlertWaits, InWindow
  <2>6. QED
    BY <2>2, <2>3, <2>5 DEF XdrInv
<1>3. CASE FetchPage
  <2>1. /\ xdr = "fetch" /\ count' = UpToCap(count + Batch)
        /\ xdr' = IF LastPage(Batch) \/ count + Batch >= XdrCap THEN "filter" ELSE "fetch"
        /\ UNCHANGED <<xdrSince, alerts, first, present>>
    BY <1>3 DEF FetchPage
  <2>2. /\ Batch \in Nat /\ first + count + Batch <= Len(alerts) + 1
        /\ Batch < XdrPage => first + count + Batch = Len(alerts) + 1
    BY <1>1, AlertList, XdrBounds DEF Batch
  <2>3. count' \in 0..XdrCap /\ count' <= count + Batch
        /\ (count' < XdrCap => count' = count + Batch /\ count + Batch < XdrCap)
    BY <1>1, <2>1, <2>2, AlertList, XdrBounds DEF UpToCap
  <2>4. first + count' <= Len(alerts) + 1
    BY <1>1, <2>2, <2>3, AlertList
  <2>5. XdrTypeOK'
    BY <2>1, <2>3, <2>4 DEF XdrInv, XdrTypeOK
  <2>6. xdr' = "filter" /\ count' < XdrCap => first + count' > present
    <3> SUFFICES ASSUME xdr' = "filter", count' < XdrCap
                 PROVE  first + count' > present
      OBVIOUS
    <3>1. first \in Nat /\ count \in Nat /\ present \in Nat /\ present <= Len(alerts)
      BY <1>1, AlertList
    <3>2. count' = count + Batch /\ count + Batch < XdrCap
      BY <2>3
    <3>3. LastPage(Batch)
      <4>1. ~(count + Batch >= XdrCap)
        BY <2>2, <3>1, <3>2, XdrBounds
      <4>2. QED
        BY <2>1, <4>1
    <3>4. first + count + Batch > Len(alerts)
      BY <1>1, <2>2, <3>1, <3>3 DEF LastPage
    <3>5. QED
      BY <1>1, <2>2, <3>1, <3>2, <3>4
  <2>7. RunFits' /\ InOrder' /\ ToldHaveRows'
    BY <2>1, <2>6 DEF XdrInv, RunFits, InOrder, ToldHaveRows
  <2>8. AlertsWait'
    BY <2>1 DEF XdrInv, AlertsWait, AlertWaits
  <2>9. QED
    BY <2>5, <2>7, <2>8 DEF XdrInv
<1>4. QED
  BY <1>2, <1>3

\* The alerts stay, but for their fates and rows.
SameAlerts ==
    /\ alerts' \in Seq(Alert) /\ Len(alerts') = Len(alerts)
    /\ \A i \in 1..Len(alerts) : alerts'[i].age = alerts[i].age

LEMMA NewFate ==
    ASSUME XdrTypeOK, NEW set, NEW fate \in XdrFates \ {"waits"}, SetFate(set, fate)
    PROVE  /\ SameAlerts
           /\ \A i \in 1..Len(alerts) :
                /\ alerts'[i].row = alerts[i].row
                /\ alerts'[i].fate = IF i \in set /\ Unseen(i) THEN fate ELSE alerts[i].fate
<1> DEFINE n == Len(alerts)
<1>1. n \in Nat /\ DOMAIN alerts = 1..n /\ \A i \in 1..n : alerts[i] \in Alert
  BY AlertList
<1>2. alerts' = [i \in 1..n |->
          IF i \in set /\ Unseen(i) THEN [alerts[i] EXCEPT !.fate = fate] ELSE alerts[i]]
  BY <1>1 DEF SetFate
<1> HIDE DEF n
<1>3. \A a \in Alert : /\ [a EXCEPT !.fate = fate] \in Alert /\ [a EXCEPT !.fate = fate].age = a.age
                       /\ [a EXCEPT !.fate = fate].row = a.row /\ [a EXCEPT !.fate = fate].fate = fate
  BY DEF Alert
<1>4. \A i \in 1..n :
        /\ alerts'[i] \in Alert /\ alerts'[i].age = alerts[i].age /\ alerts'[i].row = alerts[i].row
        /\ alerts'[i].fate = IF i \in set /\ Unseen(i) THEN fate ELSE alerts[i].fate
  BY <1>1, <1>2, <1>3
<1>5. alerts' \in Seq(Alert) /\ Len(alerts') = n
  <2>1. alerts' \in [1..n -> Alert]
    BY <1>2, <1>4
  <2>2. QED
    BY <1>1, <2>1, ListOf
<1>6. QED
  BY <1>4, <1>5 DEF SameAlerts, n

LEMMA SameOrder ==
    ASSUME XdrInv, SameAlerts
    PROVE  InOrder'
BY DEF XdrInv, InOrder, SameAlerts

\* A run that is over, and left nothing of what was there at its beginning waiting.
LEMMA RunOver ==
    ASSUME XdrInv, SameAlerts, xdr # "idle", BackToIdle, UNCHANGED xdrSince,
           \A i \in 1..Len(alerts) : alerts'[i].fate = "waits" => ~alerts'[i].row /\ i > present,
           \A i \in 1..Len(alerts) : alerts'[i].fate \in {"shown", "cut"} => alerts'[i].row
    PROVE  XdrInv'
<1>1. XdrTypeOK /\ xdrSince = 0 /\ \A i \in 1..Len(alerts) : i > present => alerts'[i].age = 0
  BY DEF XdrInv, RunFits, SameAlerts
<1>2. xdr' = "idle" /\ first' = 1 /\ count' = 0 /\ present' = 0 /\ xdrSince' = xdrSince
  BY DEF BackToIdle
<1>3. XdrTypeOK'
  BY <1>1, <1>2, AlertList, XdrBounds DEF SameAlerts, XdrTypeOK, Alert, XdrFates
<1>4. RunFits' /\ AlertsWait' /\ ToldHaveRows'
  BY <1>1, <1>2 DEF SameAlerts, RunFits, AlertsWait, AlertWaits, ToldHaveRows
<1>5. QED
  BY <1>3, <1>4, SameOrder DEF XdrInv

LEMMA FailKeeps ==
    ASSUME XdrInv, FetchFails
    PROVE  XdrInv'
<1>1. XdrTypeOK /\ xdr \in {"fetch", "filter"} /\ SetFate(first .. present, "missed") /\ BackToIdle /\ UNCHANGED xdrSince
  BY DEF XdrInv, FetchFails
<1>2. "missed" \in XdrFates \ {"waits"}
  BY DEF XdrFates
<1>3. /\ SameAlerts
      /\ \A i \in 1..Len(alerts) :
            /\ alerts'[i].row = alerts[i].row
            /\ alerts'[i].fate = IF i \in first .. present /\ Unseen(i) THEN "missed" ELSE alerts[i].fate
  BY <1>1, <1>2, NewFate
<1>4. \A i \in 1..Len(alerts) : alerts'[i].fate = "waits" => ~alerts'[i].row /\ i > present
  BY <1>1, <1>3, AlertList DEF XdrInv, AlertsWait, AlertWaits, Unseen
<1>5. \A i \in 1..Len(alerts) : alerts'[i].fate \in {"shown", "cut"} => alerts'[i].row
  BY <1>1, <1>3 DEF XdrInv, ToldHaveRows
<1>6. QED
  BY <1>1, <1>3, <1>4, <1>5, RunOver

\* What the cap cut off gets its fate; the rest of what waits has been read.
LEMMA FilterAlertsKeeps ==
    ASSUME XdrInv, FilterAlerts
    PROVE  XdrInv'
<1>1. XdrTypeOK /\ xdr = "filter" /\ xdr' = "send" /\ UNCHANGED <<xdrSince, first, count, present>>
      /\ IF count = XdrCap THEN SetFate(first + count .. present, "capped") ELSE UNCHANGED alerts
  BY DEF XdrInv, FilterAlerts
<1>2. "capped" \in XdrFates \ {"waits"}
  BY DEF XdrFates
<1>3. /\ SameAlerts
      /\ \A i \in 1..Len(alerts) :
            /\ alerts'[i].row = alerts[i].row
            /\ alerts'[i].fate = IF count = XdrCap /\ i \in first + count .. present /\ Unseen(i)
                                 THEN "capped" ELSE alerts[i].fate
  <2>1. CASE count = XdrCap
    BY <1>1, <1>2, <2>1, NewFate
  <2>2. CASE count # XdrCap
    BY <1>1, <2>2, AlertList DEF SameAlerts
  <2>3. QED
    BY <2>1, <2>2
<1>4. XdrTypeOK'
  BY <1>1, <1>3, AlertList DEF SameAlerts, XdrTypeOK, Alert, XdrFates
<1>5. RunFits'
  BY <1>1, <1>3 DEF SameAlerts, XdrInv, RunFits
<1>6. ASSUME NEW i \in 1..Len(alerts), alerts'[i].fate = "waits"
      PROVE  AlertWaits(i)'
  <2>1. alerts[i].fate = "waits" /\ AlertWaits(i)
    BY <1>3, <1>6 DEF XdrInv, AlertsWait
  <2>2. ~(count = XdrCap /\ i \in first + count .. present)
    BY <1>3, <1>6, <2>1 DEF Unseen
  <2>3. i <= present => i < first + count
    <3>1. first \in Nat /\ count \in Nat /\ count <= XdrCap /\ present \in Nat
      BY <1>1, AlertList
    <3>2. count # XdrCap => first + count > present
      BY <1>1, <3>1, XdrBounds DEF XdrInv, RunFits
    <3>3. QED
      BY <2>2, <3>1, <3>2
  <2>4. QED
    BY <1>1, <1>3, <2>1, <2>3 DEF AlertWaits, SameAlerts
<1>7. AlertsWait' /\ ToldHaveRows'
  BY <1>1, <1>3, <1>6 DEF XdrInv, AlertsWait, ToldHaveRows, SameAlerts
<1>8. QED
  BY <1>3, <1>4, <1>5, <1>7, SameOrder DEF XdrInv

\* Nothing to send, or it could not be sent.
LEMMA UnsentKeeps ==
    ASSUME XdrInv, NothingNew \/ XdrWebhookFails
    PROVE  XdrInv'
<1>1. XdrTypeOK /\ xdr = "send" /\ BackToIdle /\ UNCHANGED xdrSince
  BY DEF XdrInv, NothingNew, XdrWebhookFails
<1>2. "unsent" \in XdrFates \ {"waits"}
  BY DEF XdrFates
<1>3. /\ SameAlerts
      /\ \A i \in 1..Len(alerts) :
            /\ alerts'[i].row = alerts[i].row
            /\ alerts'[i].fate = IF i \in New /\ Unseen(i) THEN "unsent" ELSE alerts[i].fate
  <2>1. CASE XdrWebhookFails
    BY <1>1, <1>2, <2>1, NewFate DEF XdrWebhookFails
  <2>2. CASE NothingNew
    BY <1>1, <2>2, AlertList DEF NothingNew, SameAlerts
  <2>3. QED
    BY <2>1, <2>2
<1>4. ASSUME NEW i \in 1..Len(alerts), alerts'[i].fate = "waits"
      PROVE  ~alerts'[i].row /\ i > present
  <2>1. alerts[i].fate = "waits" /\ AlertWaits(i) /\ i \notin New
    BY <1>3, <1>4 DEF XdrInv, AlertsWait, Unseen
  <2>2. i <= present => i \in New
    BY <1>1, <2>1, FetchedAre, AlertList DEF AlertWaits
  <2>3. QED
    BY <1>1, <1>3, <2>1, <2>2, AlertList DEF AlertWaits
<1>5. \A i \in 1..Len(alerts) : alerts'[i].fate \in {"shown", "cut"} => alerts'[i].row
  BY <1>1, <1>3 DEF XdrInv, ToldHaveRows
<1>6. QED
  BY <1>1, <1>3, <1>4, <1>5, RunOver

\* The fates after a message.
LEMMA DeliveredFates ==
    ASSUME XdrTypeOK, NEW part \in SUBSET New, NEW fate \in XdrFates, NEW rest \in XdrFates,
           AlertsDelivered(part, fate, rest)
    PROVE  /\ SameAlerts
           /\ \A i \in 1..Len(alerts) :
                /\ alerts'[i].row = alerts[i].row
                /\ alerts'[i].fate = IF i \in part THEN fate
                                     ELSE IF i \in New /\ Unseen(i) THEN rest ELSE alerts[i].fate
<1> DEFINE n == Len(alerts)
<1>1. n \in Nat /\ DOMAIN alerts = 1..n /\ \A i \in 1..n : alerts[i] \in Alert
  BY AlertList
<1>2. alerts' = [i \in 1..n |->
          IF i \in part THEN [alerts[i] EXCEPT !.fate = fate]
          ELSE IF i \in New /\ Unseen(i) THEN [alerts[i] EXCEPT !.fate = rest] ELSE alerts[i]]
  BY <1>1 DEF AlertsDelivered
<1> HIDE DEF n
<1>3. \A a \in Alert, f \in XdrFates :
        /\ [a EXCEPT !.fate = f] \in Alert /\ [a EXCEPT !.fate = f].age = a.age
        /\ [a EXCEPT !.fate = f].row = a.row /\ [a EXCEPT !.fate = f].fate = f
  BY DEF Alert
<1>4. ASSUME NEW i \in 1..n
      PROVE  /\ alerts'[i] \in Alert /\ alerts'[i].age = alerts[i].age /\ alerts'[i].row = alerts[i].row
             /\ alerts'[i].fate = IF i \in part THEN fate
                                  ELSE IF i \in New /\ Unseen(i) THEN rest ELSE alerts[i].fate
  <2>1. alerts[i] \in Alert
    BY <1>1
  <2>2. CASE i \in part
    <3>1. alerts'[i] = [alerts[i] EXCEPT !.fate = fate]
      BY <1>2, <2>2
    <3>2. QED
      BY <1>3, <2>1, <2>2, <3>1
  <2>3. CASE i \notin part /\ i \in New /\ Unseen(i)
    <3>1. alerts'[i] = [alerts[i] EXCEPT !.fate = rest]
      BY <1>2, <2>3
    <3>2. QED
      BY <1>3, <2>1, <2>3, <3>1
  <2>4. CASE i \notin part /\ ~(i \in New /\ Unseen(i))
    BY <1>2, <2>1, <2>4
  <2>5. QED
    BY <2>2, <2>3, <2>4
<1>5. alerts' \in Seq(Alert) /\ Len(alerts') = n
  <2>1. alerts' \in [1..n -> Alert]
    BY <1>2, <1>4
  <2>2. QED
    BY <1>1, <2>1, ListOf
<1>6. QED
  BY <1>4, <1>5 DEF SameAlerts, n

\* The message arrived, and the run does not know.
LEMMA AnswerLostKeeps ==
    ASSUME XdrInv, NEW part \in SUBSET New, SendAnswerLost(part)
    PROVE  XdrInv'
<1>1. /\ XdrTypeOK /\ xdr = "send" /\ AlertsDelivered(part, "unmarked", "unsent")
      /\ BackToIdle /\ UNCHANGED xdrSince
  BY DEF XdrInv, SendAnswerLost, AlertsDelivered
<1>2. "unmarked" \in XdrFates /\ "unsent" \in XdrFates
  BY DEF XdrFates
<1>3. /\ SameAlerts
      /\ \A i \in 1..Len(alerts) :
            /\ alerts'[i].row = alerts[i].row
            /\ alerts'[i].fate = IF i \in part THEN "unmarked"
                                 ELSE IF i \in New /\ Unseen(i) THEN "unsent" ELSE alerts[i].fate
  BY <1>1, <1>2, DeliveredFates
<1>4. ASSUME NEW i \in 1..Len(alerts), alerts'[i].fate = "waits"
      PROVE  ~alerts'[i].row /\ i > present
  <2>1. alerts[i].fate = "waits" /\ i \notin New
    BY <1>3, <1>4 DEF Unseen
  <2>2. AlertWaits(i)
    BY <2>1 DEF XdrInv, AlertsWait
  <2>3. i <= present => i \in New
    BY <1>1, <2>1, <2>2, FetchedAre, AlertList DEF AlertWaits
  <2>4. QED
    BY <1>1, <1>3, <2>1, <2>2, <2>3, AlertList DEF AlertWaits
<1>5. \A i \in 1..Len(alerts) : alerts'[i].fate \in {"shown", "cut"} => alerts'[i].row
  BY <1>1, <1>3 DEF XdrInv, ToldHaveRows
<1>6. QED
  BY <1>1, <1>3, <1>4, <1>5, RunOver

\* The message: nothing it could have told of waits any more.
LEMMA SendKeeps ==
    ASSUME XdrInv, NEW part \in SUBSET New, SendAlerts(part)
    PROVE  XdrInv'
<1> DEFINE n == Len(alerts)
<1>1. XdrTypeOK /\ n \in Nat /\ DOMAIN alerts = 1..n
  BY AlertList DEF XdrInv
<1>2. /\ AlertsDelivered(part, "shown", "cut") /\ xdr = "send" /\ xdr' = "mark"
      /\ UNCHANGED <<xdrSince, first, count, present>>
  BY DEF SendAlerts, AlertsDelivered
<1>3. "shown" \in XdrFates /\ "cut" \in XdrFates
  BY DEF XdrFates
<1>4. /\ SameAlerts
      /\ \A i \in 1..n :
            /\ alerts'[i].row = alerts[i].row
            /\ alerts'[i].fate = IF i \in part THEN "shown"
                                 ELSE IF i \in New /\ Unseen(i) THEN "cut" ELSE alerts[i].fate
  BY <1>1, <1>2, <1>3, DeliveredFates
<1>5. alerts' \in Seq(Alert) /\ Len(alerts') = n /\ \A i \in 1..n : alerts'[i].age = alerts[i].age
  BY <1>4 DEF SameAlerts
<1> HIDE DEF n
<1>7. XdrTypeOK'
  BY <1>1, <1>2, <1>5 DEF XdrTypeOK, Alert, XdrFates, n
<1>8. Fetched' = Fetched /\ New' = New
  <2>1. DOMAIN alerts' = 1..n
    BY <1>5
  <2>2. Fetched' = Fetched
    BY <1>1, <1>2, <2>1 DEF Fetched
  <2>3. QED
    BY <1>1, <1>4, <2>2 DEF Fetched, New
<1>9. RunFits'
  BY <1>2, <1>5 DEF XdrInv, RunFits, n
<1>10. ASSUME NEW i \in 1..n, alerts'[i].fate = "waits"
       PROVE  AlertWaits(i)'
  <2>1. alerts[i].fate = "waits" /\ i \notin New
    BY <1>4, <1>10 DEF Unseen
  <2>2. AlertWaits(i)
    BY <2>1 DEF XdrInv, AlertsWait, n
  <2>3. i \notin Fetched
    BY <1>1, <2>1, <2>2, FetchedAre DEF AlertWaits
  <2>4. i > present
    BY <1>1, <1>2, <2>2, <2>3, FetchedAre, AlertList DEF AlertWaits, n
  <2>5. QED
    BY <1>2, <1>4, <1>5, <1>8, <2>2, <2>3, <2>4 DEF AlertWaits
<1>11. AlertsWait'
  BY <1>5, <1>10 DEF AlertsWait
<1>12. ToldHaveRows'
  <2> SUFFICES ASSUME NEW i \in 1..n, alerts'[i].fate \in {"shown", "cut"}
               PROVE  alerts'[i].row \/ i \in New'
    BY <1>2, <1>5 DEF ToldHaveRows
  <2>1. i \in New \/ alerts[i].fate \in {"shown", "cut"}
    BY <1>4
  <2>2. i \in New \/ alerts[i].row
    BY <1>2, <2>1 DEF XdrInv, ToldHaveRows, n
  <2>3. QED
    BY <1>4, <1>8, <2>2
<1>13. QED
  BY <1>4, <1>7, <1>9, <1>11, <1>12, SameOrder DEF XdrInv

\* The rows are written, or lost.
LEMMA XdrMarkKeeps ==
    ASSUME XdrInv, MarkAll \/ MarkingLost
    PROVE  XdrInv'
<1> DEFINE n == Len(alerts)
<1>1. /\ XdrTypeOK /\ n \in Nat /\ DOMAIN alerts = 1..n
      /\ \A i \in 1..n : alerts[i] \in Alert /\ alerts[i].row \in BOOLEAN
      /\ New \subseteq Fetched
  BY AlertList, FetchedAre DEF XdrInv
<1>2. xdr = "mark" /\ BackToIdle /\ UNCHANGED xdrSince
  BY DEF MarkAll, MarkingLost
<1>3. \A a \in Alert :
        /\ [a EXCEPT !.fate = "unmarked"] \in Alert /\ [a EXCEPT !.fate = "unmarked"].age = a.age
        /\ [a EXCEPT !.fate = "unmarked"].row = a.row
        /\ [a EXCEPT !.fate = "unmarked"].fate = "unmarked"
  BY DEF Alert, XdrFates
<1>4. \A a \in Alert, r \in BOOLEAN :
        /\ [a EXCEPT !.row = r] \in Alert /\ [a EXCEPT !.row = r].age = a.age
        /\ [a EXCEPT !.row = r].fate = a.fate /\ [a EXCEPT !.row = r].row = r
  BY DEF Alert
<1> HIDE DEF n
<1>5. CASE MarkAll
  <2>1. alerts' = [i \in 1..n |-> [alerts[i] EXCEPT !.row = alerts[i].row \/ i \in New]]
    BY <1>1, <1>5 DEF MarkAll, MarkAlerts
  <2>2. ASSUME NEW i \in 1..n
        PROVE  /\ alerts'[i] \in Alert /\ alerts'[i].age = alerts[i].age
               /\ alerts'[i].fate = alerts[i].fate
               /\ alerts'[i].row <=> alerts[i].row \/ i \in New
    <3> DEFINE r == alerts[i].row \/ i \in New
    <3>1. r \in BOOLEAN /\ alerts[i] \in Alert /\ alerts'[i] = [alerts[i] EXCEPT !.row = r]
      BY <1>1, <2>1
    <3>2. (alerts[i].row \/ i \in New) <=> r
      OBVIOUS
    <3> HIDE DEF r
    <3>3. alerts'[i] \in Alert /\ alerts'[i].age = alerts[i].age /\ alerts'[i].fate = alerts[i].fate
      BY <1>4, <3>1
    <3>4. alerts'[i].row = r
      BY <1>4, <3>1
    <3>5. QED
      BY <3>2, <3>3, <3>4
  <2>3. SameAlerts
    <3>1. alerts' \in [1..n -> Alert]
      BY <2>1, <2>2
    <3>2. alerts' \in Seq(Alert) /\ Len(alerts') = n
      BY <1>1, <3>1, ListOf
    <3>3. QED
      BY <2>2, <3>2 DEF SameAlerts, n
  <2>4. \A i \in 1..n : alerts'[i].fate = "waits" => ~alerts'[i].row /\ i > present
    BY <1>1, <1>2, <2>2 DEF XdrInv, AlertsWait, AlertWaits, n
  <2>5. \A i \in 1..n : alerts'[i].fate \in {"shown", "cut"} => alerts'[i].row
    BY <1>2, <2>2 DEF XdrInv, ToldHaveRows, n
  <2>6. QED
    BY <1>2, <2>3, <2>4, <2>5, RunOver DEF n
<1>6. CASE MarkingLost
  <2>1. alerts' = [i \in 1..n |->
            IF i \in New THEN [alerts[i] EXCEPT !.fate = "unmarked"] ELSE alerts[i]]
    BY <1>1, <1>6 DEF MarkingLost
  <2>2. \A i \in 1..n :
          /\ alerts'[i] \in Alert /\ alerts'[i].age = alerts[i].age
          /\ alerts'[i].fate = IF i \in New THEN "unmarked" ELSE alerts[i].fate
          /\ alerts'[i].row = alerts[i].row
    BY <1>1, <1>3, <2>1
  <2>3. SameAlerts
    <3>1. alerts' \in [1..n -> Alert]
      BY <2>1, <2>2
    <3>2. alerts' \in Seq(Alert) /\ Len(alerts') = n
      BY <1>1, <3>1, ListOf
    <3>3. QED
      BY <2>2, <3>2 DEF SameAlerts, n
  <2>4. \A i \in 1..n : alerts'[i].fate = "waits" => ~alerts'[i].row /\ i > present
    BY <1>2, <2>2 DEF XdrInv, AlertsWait, AlertWaits, n
  <2>5. \A i \in 1..n : alerts'[i].fate \in {"shown", "cut"} => alerts'[i].row
    BY <1>2, <2>2 DEF XdrInv, ToldHaveRows, n
  <2>6. QED
    BY <1>2, <2>3, <2>4, <2>5, RunOver DEF n
<1>7. QED
  BY <1>5, <1>6

LEMMA XdrStepKeeps == XdrInv /\ [XdrNext]_xdrVars => XdrInv'
<1> SUFFICES ASSUME XdrInv, [XdrNext]_xdrVars
             PROVE  XdrInv'
  OBVIOUS
<1>1. CASE UNCHANGED xdrVars
  BY <1>1 DEF xdrVars, XdrInv, XdrTypeOK, InOrder, RunFits, AlertsWait, AlertWaits, ToldHaveRows,
     New, Fetched
<1>2. CASE XdrNext
  BY <1>2, RaiseKeeps, XdrHourKeeps, FetchKeeps, FailKeeps, FilterAlertsKeeps, UnsentKeeps, SendKeeps,
     AnswerLostKeeps, XdrMarkKeeps DEF XdrNext
<1>3. QED
  BY <1>1, <1>2

LEMMA XdrInvAlways == JobsSpec => []XdrInv
<1>1. JobsInit => XdrInv
  BY XdrStart DEF JobsInit
<1>2. XdrInv /\ [JobsNext]_jobsVars => XdrInv'
  BY XdrStepKeeps, StepOfOne
<1>3. QED
  BY <1>1, <1>2, PTL DEF JobsSpec

LEMMA XdrOverlooksNothing == XdrInv => NoAlertOverlooked /\ PagesComplete
<1> SUFFICES ASSUME XdrInv
             PROVE  NoAlertOverlooked /\ PagesComplete
  OBVIOUS
<1>1. XdrTypeOK
  BY DEF XdrInv
<1>2. NoAlertOverlooked
  BY <1>1, AlertList, XdrBounds DEF XdrInv, AlertsWait, AlertWaits, NoAlertOverlooked
<1>3. PagesComplete
  <2> SUFFICES ASSUME xdr \in {"filter", "send"}, count < XdrCap, NEW i \in first .. present
               PROVE  i \in Fetched
    BY DEF PagesComplete
  <2>1. first + count > present
    BY DEF XdrInv, RunFits
  <2>2. QED
    BY <1>1, <2>1, AlertList, FetchedAre
<1>4. QED
  BY <1>2, <1>3

LEMMA XdrShowsOnce ==
    ASSUME XdrInv, xdr = "send", NEW i \in New
    PROVE  alerts[i].fate \notin {"shown", "cut"}
<1>1. XdrTypeOK /\ i \in 1..Len(alerts) /\ ~alerts[i].row
  BY FetchedAre DEF XdrInv
<1>2. QED
  BY <1>1 DEF XdrInv, ToldHaveRows

-----------------------------------------------------------------------------
(***************************************************************************)
(* The allow-list.  The ranges of a run are sorted, so that those which    *)
(* begin at or before an address are the first ones, as many as bisect     *)
(* counts; what the run wants to load lies in them until it is loaded.     *)
(***************************************************************************)
RangeSet == {ranges[i] : i \in DOMAIN ranges}

InRangeOrder == \A i, j \in DOMAIN ranges : i < j => Before(ranges[i], ranges[j])

AllowExact == cdn \in {"checked", "purged"} => allow = {a \in read : Within(a, RangeSet)}

CdnInv == CdnTypeOK /\ InRangeOrder /\ AllowExact /\ OnlyFrontsAllowed

\* A search that begins where bisect says finds an address exactly if a range holds it.
LEMMA BisectFinds ==
    ASSUME NEW n \in Nat, NEW s \in [1..n -> Nat \X Nat], NEW ip \in Nat,
           \A i, j \in 1..n : i < j => Before(s[i], s[j])
    PROVE  InRanges(ip, s) <=> \E i \in 1..n : s[i][1] <= ip /\ ip <= s[i][2]
<1> DEFINE H == {i \in 1..n : s[i][1] <= ip}
<1>1. DOMAIN s = 1..n /\ \A i \in 1..n : s[i][1] \in Nat /\ s[i][2] \in Nat
  OBVIOUS
<1>2. \A i, j \in 1..n : i <= j => s[i][1] <= s[j][1]
  <2> SUFFICES ASSUME NEW i \in 1..n, NEW j \in 1..n, i <= j
               PROVE  s[i][1] <= s[j][1]
    OBVIOUS
  <2>1. CASE i = j
    BY <1>1, <2>1
  <2>2. CASE i < j
    <3>1. Before(s[i], s[j])
      BY <2>2
    <3>2. QED
      BY <1>1, <3>1 DEF Before
  <2>3. QED
    BY <2>1, <2>2
<1>3. H \in SUBSET (1..n) /\ \A i \in 1..n : i \in H <=> s[i][1] <= ip
  OBVIOUS
<1>4. Bisect(ip, s) = Cardinality(H)
  BY <1>1 DEF Bisect
<1> HIDE DEF H
<1>5. IsFiniteSet(1..n) /\ Cardinality(1..n) = n
  BY FS_Interval
<1>6. IsFiniteSet(H) /\ Cardinality(H) \in Nat /\ Cardinality(H) <= n
  <2>1. H \in SUBSET (1..n)
    BY <1>3
  <2>2. IsFiniteSet(H) /\ Cardinality(H) <= Cardinality(1..n)
    BY <1>5, <2>1, FS_Subset
  <2>3. QED
    BY <1>5, <2>2, FS_CardinalityType
<1>7. ASSUME NEW i \in 1..n, i \in H
      PROVE  i <= Cardinality(H)
  <2>1. 1..i \in SUBSET H
    <3> SUFFICES ASSUME NEW j \in 1..i
                 PROVE  j \in H
      OBVIOUS
    <3>1. j \in 1..n /\ j <= i
      OBVIOUS
    <3>2. s[j][1] <= s[i][1] /\ s[i][1] <= ip
      BY <1>2, <1>3, <1>7, <3>1
    <3>3. QED
      BY <1>1, <1>3, <3>1, <3>2
  <2>2. IsFiniteSet(1..i) /\ Cardinality(1..i) = i
    BY FS_Interval
  <2>3. QED
    BY <1>6, <2>1, <2>2, FS_Subset
<1>8. ASSUME NEW i \in 1..n, i \notin H
      PROVE  Cardinality(H) < i
  <2>1. H \in SUBSET (1..(i - 1))
    <3> SUFFICES ASSUME NEW j \in H, j >= i
                 PROVE  FALSE
      BY <1>3
    <3>1. j \in 1..n /\ s[j][1] <= ip
      BY <1>3
    <3>2. s[i][1] <= s[j][1]
      BY <1>2, <3>1
    <3>3. QED
      BY <1>1, <1>3, <1>8, <3>1, <3>2
  <2>2. IsFiniteSet(1..(i - 1)) /\ Cardinality(1..(i - 1)) = i - 1
    BY FS_Interval
  <2>3. Cardinality(H) <= Cardinality(1..(i - 1))
    BY <2>1, <2>2, FS_Subset
  <2>4. QED
    BY <1>6, <2>2, <2>3
<1>9. \A i \in Int : i \in 1 .. Cardinality(H) <=> i \in H
  BY <1>3, <1>6, <1>7, <1>8
<1>10. InRanges(ip, s) <=> \E i \in H : ip <= s[i][2]
  BY <1>3, <1>4, <1>6, <1>9 DEF InRanges
<1>11. QED
  BY <1>3, <1>10

LEMMA CdnStart == CdnInit => CdnInv
<1> SUFFICES ASSUME CdnInit
             PROVE  CdnInv
  OBVIOUS
<1>1. ranges = <<>> /\ DOMAIN ranges = {} /\ ranges \in Seq(Fronts)
  BY DEF CdnInit
<1>2. QED
  BY <1>1, CdnAssumption DEF CdnInit, CdnInv, CdnTypeOK, InRangeOrder, AllowExact, OnlyFrontsAllowed

\* What a run collects is a part of the ranges there are, in order.
LEMMA CollectKeeps ==
    ASSUME CdnInv, NEW answered \in SUBSET Provider, NEW static \in {{}, StaticRanges},
           CollectCidrs(answered, static)
    PROVE  CdnInv'
<1> DEFINE set == static \cup UNION {RangesOf(p) : p \in answered}
           n == Cardinality(set)
<1>1. set \in SUBSET Fronts
  BY DEF Fronts, Published
<1>2. IsFiniteSet(set) /\ n \in Nat
  BY <1>1, RangeAssumption, FS_Subset, FS_CardinalityType
<1>3. /\ cdn' = "collected" /\ cdnDue' = FALSE /\ UNCHANGED <<feed, target, read, allow>>
      /\ failures' = failures \/ Failure
      /\ \E list \in [1..n -> set] : IsSorted(list, set) /\ ranges' = list
  BY DEF CollectCidrs
<1> HIDE DEF n, set
<1>4. ranges' \in [1..n -> Fronts] /\ IsSorted(ranges', set)
  BY <1>1, <1>3
<1>5. ranges' \in Seq(Fronts)
  BY <1>2, <1>4, ListOf
<1>6. failures' \in 0..MaxCdnFailures
  BY <1>3, CdnAssumption DEF CdnInv, CdnTypeOK, Failure
<1>7. CdnTypeOK' /\ AllowExact' /\ OnlyFrontsAllowed'
  BY <1>3, <1>5, <1>6 DEF CdnInv, CdnTypeOK, AllowExact, OnlyFrontsAllowed
<1>8. InRangeOrder'
  BY <1>4 DEF IsSorted, InRangeOrder
<1>9. QED
  BY <1>7, <1>8 DEF CdnInv

\* The ranges are numbers in order; a range of the run is a range there is.
LEMMA RangeList ==
    ASSUME CdnInv
    PROVE  /\ Len(ranges) \in Nat /\ ranges \in [1..Len(ranges) -> Nat \X Nat]
           /\ DOMAIN ranges = 1..Len(ranges) /\ RangeSet \in SUBSET Fronts
<1>1. ranges \in Seq(Fronts)
  BY DEF CdnInv, CdnTypeOK
<1>2. Len(ranges) \in Nat /\ ranges \in [1..Len(ranges) -> Fronts]
  BY <1>1
<1>3. QED
  BY <1>2, RangeAssumption DEF RangeSet

LEMMA IntersectKeeps ==
    ASSUME CdnInv, Intersect
    PROVE  CdnInv'
<1> DEFINE n == Len(ranges)
<1>1. /\ cdn' = "checked" /\ read' = feed /\ allow' = {a \in feed : InRanges(a, ranges)}
      /\ UNCHANGED <<cdnDue, feed, target, ranges, failures>>
  BY DEF Intersect
<1>2. /\ n \in Nat /\ ranges \in [1..n -> Nat \X Nat] /\ DOMAIN ranges = 1..n
      /\ \A i, j \in 1..n : i < j => Before(ranges[i], ranges[j])
      /\ feed \in SUBSET Nat
  BY RangeList, RangeAssumption DEF CdnInv, InRangeOrder, CdnTypeOK
<1> HIDE DEF n
<1>3. \A a \in feed : InRanges(a, ranges) <=> \E i \in 1..n : ranges[i][1] <= a /\ a <= ranges[i][2]
  BY <1>2, BisectFinds
<1>4. \A a \in feed : InRanges(a, ranges) <=> Within(a, RangeSet)
  BY <1>2, <1>3 DEF Within, RangeSet
<1>5. AllowExact'
  <2>1. allow' = {a \in feed : Within(a, RangeSet)}
    BY <1>1, <1>4
  <2>2. RangeSet' = RangeSet
    BY <1>1 DEF RangeSet
  <2>3. QED
    BY <1>1, <2>1, <2>2 DEF AllowExact
<1>6. QED
  BY <1>1, <1>5 DEF CdnInv, CdnTypeOK, InRangeOrder, OnlyFrontsAllowed

LEMMA LoadKeeps ==
    ASSUME CdnInv, Purge \/ BulkLoad
    PROVE  CdnInv'
<1>1. CASE Purge
  <2>1. /\ cdn = "checked" /\ ~TooMany /\ cdn' = "purged" /\ UNCHANGED <<cdnDue, feed, ranges, read, allow>>
        /\ target' \in SUBSET target /\ (failures' = failures \/ Failure)
    BY <1>1 DEF Purge
  <2>2. Cardinality(allow) <= MaxIps
    <3>1. allow \in SUBSET FeedAddress
      BY DEF CdnInv, CdnTypeOK
    <3>2. IsFiniteSet(allow) /\ Cardinality(allow) \in Nat
      BY <3>1, RangeAssumption, FS_Subset, FS_CardinalityType
    <3>3. QED
      BY <2>1, <3>2, CdnAssumption DEF TooMany
  <2>3. failures' \in 0..MaxCdnFailures
    BY <2>1, CdnAssumption DEF CdnInv, CdnTypeOK, Failure
  <2>4. CdnTypeOK'
    BY <2>1, <2>2, <2>3 DEF CdnInv, CdnTypeOK
  <2>5. InRangeOrder' /\ AllowExact' /\ OnlyFrontsAllowed'
    BY <2>1 DEF CdnInv, InRangeOrder, AllowExact, RangeSet, OnlyFrontsAllowed
  <2>6. QED
    BY <2>4, <2>5 DEF CdnInv
<1>2. CASE BulkLoad
  <2>1. /\ cdn = "purged" /\ cdn' = "idle" /\ ranges' = <<>> /\ allow' = {}
        /\ target' = target \cup allow /\ UNCHANGED <<cdnDue, feed, read, failures>>
    BY <1>2 DEF BulkLoad, LeaveRun
  <2>2. \A a \in allow : Within(a, Fronts)
    BY <2>1, RangeList DEF CdnInv, AllowExact, Within
  <2>3. OnlyFrontsAllowed'
    BY <2>1, <2>2 DEF CdnInv, OnlyFrontsAllowed
  <2>4. ranges' \in Seq(Fronts) /\ DOMAIN ranges' = {}
    BY <2>1
  <2>5. QED
    BY <2>1, <2>3, <2>4 DEF CdnInv, CdnTypeOK, InRangeOrder, AllowExact
<1>3. QED
  BY <1>1, <1>2

LEMMA LeaveKeeps ==
    ASSUME CdnInv, NoRanges \/ Refuse \/ CdnFails
    PROVE  CdnInv'
<1>1. /\ cdn' = "idle" /\ ranges' = <<>> /\ allow' = {} /\ UNCHANGED <<cdnDue, feed, target, read>>
      /\ failures' = failures \/ Failure
  BY DEF NoRanges, Refuse, CdnFails, LeaveRun
<1>2. failures' \in 0..MaxCdnFailures
  BY <1>1, CdnAssumption DEF CdnInv, CdnTypeOK, Failure
<1>3. ranges' \in Seq(Fronts) /\ DOMAIN ranges' = {}
  BY <1>1
<1>4. QED
  BY <1>1, <1>2, <1>3 DEF CdnInv, CdnTypeOK, InRangeOrder, AllowExact, OnlyFrontsAllowed

LEMMA CdnStepKeeps == CdnInv /\ [CdnNext]_cdnVars => CdnInv'
<1> SUFFICES ASSUME CdnInv, [CdnNext]_cdnVars
             PROVE  CdnInv'
  OBVIOUS
<1>1. CASE UNCHANGED cdnVars
  BY <1>1 DEF cdnVars, CdnInv, CdnTypeOK, InRangeOrder, AllowExact, RangeSet, OnlyFrontsAllowed
<1>2. CASE NextCdnDay \/ \E a \in FeedAddress : FeedChanges(a)
  BY <1>2 DEF NextCdnDay, FeedChanges, CdnInv, CdnTypeOK, InRangeOrder, AllowExact, RangeSet,
     OnlyFrontsAllowed
<1>3. QED
  BY <1>1, <1>2, CollectKeeps, IntersectKeeps, LoadKeeps, LeaveKeeps DEF CdnNext, CdnStep

LEMMA CdnInvAlways == JobsSpec => []CdnInv
<1>1. JobsInit => CdnInv
  BY CdnStart DEF JobsInit
<1>2. CdnInv /\ [JobsNext]_jobsVars => CdnInv'
  BY CdnStepKeeps, StepOfOne
<1>3. QED
  BY <1>1, <1>2, PTL DEF JobsSpec

LEMMA CdnIsSafe == CdnInv => OnlyFrontsAllowed /\ IntersectionExact
BY DEF CdnInv, AllowExact, RangeSet, IntersectionExact

-----------------------------------------------------------------------------
(***************************************************************************)
(* The rest of the shape of cleanup and scan: their caps, and the guards   *)
(* of deletion.                                                            *)
(***************************************************************************)
LEMMA CleanupTypeStart == CleanupInit => CleanupTypeOK
<1> SUFFICES ASSUME CleanupInit
             PROVE  CleanupTypeOK
  OBVIOUS
<1>1. console \in [Endpoint -> Gone..Oldest]
  BY CleanupBounds DEF CleanupInit
<1>2. Cardinality(candidates) <= MaxPerRun /\ 0 \in 0..MaxTroubles
  BY FS_EmptySet, CleanupAssumption DEF CleanupInit
<1>3. deleted = <<>> /\ \A S : deleted \in Seq(S)
  BY DEF CleanupInit
<1>4. /\ cleanup = "idle" /\ ranToday \in BOOLEAN /\ returned = {} /\ candidates = {} /\ pending = {}
      /\ contacted = {} /\ removed = {} /\ lost = {} /\ troubles = 0 /\ uninstalled = {}
  BY DEF CleanupInit
<1>5. QED
  BY <1>1, <1>2, <1>3, <1>4 DEF CleanupTypeOK

\* A run that lists endpoints anew keeps to its cap and leaves out the guarded ones.
LEMMA FetchTypeKeeps ==
    ASSUME CleanupInv, CleanupTypeOK, NEW answer \in SUBSET Known, NEW set, FetchSilent(answer, set)
    PROVE  CleanupTypeOK'
<1> DEFINE eps == Unguarded(Silent(answer))
<1>1. /\ UpTo(set, eps) /\ candidates' = set /\ pending' = set /\ contacted' = {}
      /\ cleanup' = IF set = {} /\ returned = {} THEN "idle" ELSE "delete"
      /\ UNCHANGED <<ranToday, console, uninstalled, deleted, returned, removed, lost, troubles>>
  BY DEF FetchSilent
<1>2. eps \in SUBSET (Endpoint \ Guarded)
  BY DEF Unguarded, Silent, Known
<1>3. IsFiniteSet(Endpoint \ Guarded)
  BY ConsoleAssumption, FS_Subset
<1>4. set \in SUBSET (Endpoint \ Guarded)
  BY <1>1, <1>2 DEF UpTo
<1>5. Cardinality(eps) \in Nat
  BY <1>2, <1>3, FS_Subset, FS_CardinalityType
<1> HIDE DEF eps
<1>6. Cardinality(set) = Least(Cardinality(eps), Least(MaxPerRun, MaxRows - Len(deleted)))
  BY <1>1 DEF UpTo
<1>7. Cardinality(set) <= MaxPerRun
  <2>1. MaxPerRun \in Nat /\ MaxRows - Len(deleted) \in Int
    <3>1. deleted \in Seq(DeletedRow)
      BY DEF CleanupInv, CleanupShape
    <3>2. Len(deleted) \in Nat
      BY <3>1
    <3>3. QED
      BY <3>2, CleanupAssumption
  <2>2. QED
    BY <1>5, <1>6, <2>1 DEF Least
<1>8. cleanup' \in {"idle", "delete"} /\ (cleanup' = "idle" => returned' = {} /\ candidates' = {})
  BY <1>1
<1>9. QED
  BY <1>1, <1>4, <1>7, <1>8 DEF CleanupTypeOK

LEMMA CleanupTypeKeeps == CleanupInv /\ CleanupTypeOK /\ [CleanupNext]_cleanupVars => CleanupTypeOK'
<1> SUFFICES ASSUME CleanupInv, CleanupTypeOK, [CleanupNext]_cleanupVars
             PROVE  CleanupTypeOK'
  OBVIOUS
<1>1. /\ console' \in [Endpoint -> Gone..Oldest] /\ pending' \subseteq candidates'
      /\ deleted' \in Seq([id : Endpoint, back : SUBSET Endpoint, marked : BOOLEAN, told : BOOLEAN])
  BY CleanupStepKeeps DEF CleanupInv, CleanupShape, DeletedRow
<1>2. Cardinality({}) <= MaxPerRun
  BY FS_EmptySet, CleanupAssumption
<1>3. CASE UNCHANGED cleanupVars
  BY <1>3 DEF cleanupVars, CleanupTypeOK
<1>4. ASSUME NEW e \in Endpoint, Contact(e)
      PROVE  CleanupTypeOK'
  <2>1. DOMAIN deleted' = DOMAIN deleted /\ contacted' \subseteq Endpoint
        /\ removed' = removed \ {e} /\ lost' = lost \ {e} /\ uninstalled' = uninstalled \ {e}
        /\ UNCHANGED <<cleanup, ranToday, returned, candidates, pending, troubles>>
    BY <1>4 DEF Contact, CleanupTypeOK
  <2>2. QED
    BY <1>1, <2>1 DEF CleanupTypeOK
<1>5. CASE NextDay
  BY <1>1, <1>5 DEF NextDay, CleanupTypeOK
<1>6. CASE FindReturned
  <2>1. SameId \cup NewId \subseteq DOMAIN deleted
    BY DEF SameId, NewId, ById, ByName, Open
  <2>2. QED
    BY <1>1, <1>6, <2>1 DEF FindReturned, CleanupTypeOK
<1>7. ASSUME NEW batch \in SUBSET pending, DeleteBatch(batch)
      PROVE  CleanupTypeOK'
  <2>1. troubles' \in 0..MaxTroubles
    BY <1>7, CleanupAssumption DEF DeleteBatch, CleanupTypeOK
  <2>2. removed \subseteq removed' /\ removed' \subseteq removed \cup batch
    BY <1>7 DEF DeleteBatch
  <2>3. QED
    BY <1>1, <1>7, <2>1, <2>2 DEF DeleteBatch, CleanupTypeOK
<1>8. ASSUME NEW order, RecordDeleted(order)
      PROVE  CleanupTypeOK'
  <2>1. DOMAIN deleted \subseteq DOMAIN deleted'
    BY <1>8, RecordKeeps DEF SameDeletions
  <2>2. QED
    BY <1>1, <1>8, <2>1 DEF RecordDeleted, CleanupTypeOK
<1>9. ASSUME NEW listed, SendCleanup(listed)
      PROVE  CleanupTypeOK'
  <2>1. DOMAIN deleted' = DOMAIN deleted
    BY <1>9 DEF SendCleanup, Told
  <2>2. QED
    BY <1>1, <1>9, <2>1 DEF SendCleanup, CleanupTypeOK
<1>10. CASE MarkReturnedRows
  BY <1>1, <1>2, <1>10 DEF MarkReturnedRows, EndOfRun, CleanupTypeOK
<1>11. CASE Trouble
  <2>1. troubles' \in 0..MaxTroubles
    BY <1>11, CleanupAssumption DEF Trouble, CleanupTypeOK
  <2>2. removed' \subseteq Endpoint /\ lost' \subseteq removed'
    BY <1>11 DEF Trouble, CleanupTypeOK
  <2>3. QED
    BY <1>1, <1>2, <1>11, <2>1, <2>2 DEF Trouble, EndOfRun, CleanupTypeOK
<1>12. Known \in SUBSET Known /\ {e \in Known : console[e] >= SilentDays} \in SUBSET Known
  OBVIOUS
<1>13. ASSUME NEW e \in Endpoint, Uninstall(e)
       PROVE  CleanupTypeOK'
  BY <1>1, <1>13 DEF Uninstall, CleanupTypeOK
<1>14. QED
  BY <1>3, <1>4, <1>5, <1>6, <1>7, <1>8, <1>9, <1>10, <1>11, <1>12, <1>13, FetchTypeKeeps
     DEF CleanupNext, CleanupStep

LEMMA BotnetTypeStart == BotnetInit => BotnetTypeOK
<1> SUFFICES ASSUME BotnetInit
             PROVE  BotnetTypeOK
  OBVIOUS
<1>1. seen \in [Address -> Off..StaleAfter] /\ attack \in [Address -> 0..Past]
  BY ScanBounds, BotnetAssumption DEF BotnetInit, Past
<1>2. 0 \in 0..MaxAdds /\ 0 \in 0..MaxMishaps
  BY BotnetAssumption
<1>3. QED
  BY <1>1, <1>2 DEF BotnetInit, BotnetTypeOK

LEMMA BotnetTypeKeeps == ScanInv /\ BotnetTypeOK /\ [BotnetNext]_botnetVars => BotnetTypeOK'
<1> SUFFICES ASSUME ScanInv, BotnetTypeOK, [BotnetNext]_botnetVars
             PROVE  BotnetTypeOK'
  OBVIOUS
<1>1. scan' \in {"idle", "review", "hunt"} /\ seen' \in [Address -> Off..StaleAfter] /\ todo' \subseteq Address
  BY ScanStepKeeps DEF ScanInv, BotnetShape
<1>2. Past \in Nat /\ 0 \in 0..Past /\ MaxAdds \in Nat /\ MaxMishaps \in Nat
      /\ 0 \in 0..MaxAdds /\ Internal \subseteq Address
  BY BotnetAssumption DEF Past
<1>3. Mishap => mishaps' \in 0..MaxMishaps
  BY <1>2 DEF Mishap, BotnetTypeOK
<1>4. CASE UNCHANGED botnetVars
  BY <1>4 DEF botnetVars, BotnetTypeOK
<1>5. CASE \E a \in Address : Unblock(a) \/ \E rule \in BOOLEAN : Attack(a, rule)
  BY <1>1, <1>2, <1>5 DEF Unblock, Attack, BotnetTypeOK
<1>6. CASE NextPeriod
  <2>1. attack' \in [Address -> 0..Past]
    BY <1>2, <1>6 DEF NextPeriod, BotnetTypeOK
  <2>2. QED
    BY <1>1, <1>6, <2>1 DEF NextPeriod, BotnetTypeOK
<1>7. CASE BeginReview
  BY <1>1, <1>3, <1>7 DEF BeginReview, BotnetTypeOK
<1>8. CASE BeginHunt
  BY <1>1, <1>2, <1>3, <1>8 DEF BeginHunt, Committed, BotnetTypeOK
<1>9. CASE EndHunt \/ Rollback
  <2>1. cut' \in {"none", "remove", "add"}
    BY <1>9 DEF EndHunt, Rollback, BotnetTypeOK
  <2>2. QED
    BY <1>1, <1>2, <1>3, <1>9, <2>1 DEF EndHunt, Rollback, EndScan, Committed, BotnetTypeOK
<1>10. ASSUME NEW action \in {"remove", "add"}, NEW a \in Address, NEW age, Request(action, a, age)
       PROVE  written' \subseteq Row /\ changes' \subseteq Row /\ mishaps' \in 0..MaxMishaps
  <2>1. [act |-> action, ip |-> a] \in Row
    BY DEF Row
  <2>2. QED
    BY <1>3, <1>10, <2>1 DEF Request, BotnetTypeOK
<1>11. ASSUME NEW a \in Address, RemoveStale(a) \/ SkipCandidate(a)
       PROVE  BotnetTypeOK'
  <2>1. CASE RemoveStale(a)
    BY <1>1, <1>10, <2>1 DEF RemoveStale, BotnetTypeOK
  <2>2. CASE SkipCandidate(a)
    BY <1>1, <2>2 DEF SkipCandidate, BotnetTypeOK
  <2>3. QED
    BY <1>11, <2>1, <2>2
<1>12. ASSUME NEW a \in Address, AddCandidate(a)
       PROVE  BotnetTypeOK'
  <2>1. added' \in 0..MaxAdds
    BY <1>2, <1>12 DEF AddCandidate, CapReached, BotnetTypeOK
  <2>2. QED
    BY <1>1, <1>10, <1>12, <2>1 DEF AddCandidate, BotnetTypeOK
<1>13. QED
  BY <1>4, <1>5, <1>6, <1>7, <1>8, <1>9, <1>11, <1>12 DEF BotnetNext, BotnetStep

LEMMA TypesAlways == JobsSpec => [](CleanupTypeOK /\ BotnetTypeOK)
<1>1. JobsInit => CleanupTypeOK /\ BotnetTypeOK
  BY CleanupTypeStart, BotnetTypeStart DEF JobsInit
<1>2. CleanupInv /\ ScanInv /\ CleanupTypeOK /\ BotnetTypeOK /\ [JobsNext]_jobsVars =>
        (CleanupTypeOK /\ BotnetTypeOK)'
  BY CleanupTypeKeeps, BotnetTypeKeeps, StepOfOne
<1>3. QED
  BY <1>1, <1>2, CleanupInvAlways, ScanInvAlways, PTL DEF JobsSpec

-----------------------------------------------------------------------------
\* Before it marks the rows of the returns, a run has given each a line, if there was room.
ReturnsListed ==
    cleanup = "mark" /\ Cardinality(returned) <= MaxLines => \A i \in returned : deleted[i].told

LEMMA ReturnedRows ==
    ASSUME CleanupInv, CleanupTypeOK
    PROVE  /\ returned \in SUBSET (1..Len(deleted)) /\ DOMAIN deleted = 1..Len(deleted)
           /\ \A i \in 1..Len(deleted) : deleted[i] \in DeletedRow
           /\ IsFiniteSet(returned) /\ Cardinality(returned) \in Nat
<1>1. deleted \in Seq(DeletedRow)
  BY DEF CleanupInv, CleanupShape
<1>2. Len(deleted) \in Nat /\ DOMAIN deleted = 1..Len(deleted)
      /\ \A i \in 1..Len(deleted) : deleted[i] \in DeletedRow
  BY <1>1
<1>3. returned \in SUBSET (1..Len(deleted))
  BY <1>2 DEF CleanupTypeOK
<1>4. IsFiniteSet(1..Len(deleted))
  <2>1. 1 \in Int /\ Len(deleted) \in Int
    BY <1>2
  <2>2. QED
    BY <2>1, FS_Interval
<1>5. IsFiniteSet(returned)
  BY <1>3, <1>4, FS_Subset
<1>6. QED
  BY <1>2, <1>3, <1>5, FS_CardinalityType

\* A report with room for all lists all.
LEMMA AllListed ==
    ASSUME CleanupInv, CleanupTypeOK, NEW listed, SendCleanup(listed),
           Cardinality(returned) <= MaxLines
    PROVE  \A i \in returned : deleted'[i].told
<1>1. returned \in SUBSET DOMAIN deleted /\ \A i \in DOMAIN deleted : deleted[i] \in DeletedRow
  BY ReturnedRows
<1>2. IsFiniteSet(returned) /\ Cardinality(returned) \in Nat
  BY ReturnedRows
<1>3. listed \in SUBSET returned /\ Cardinality(listed) = Least(Cardinality(returned), MaxLines)
  BY DEF SendCleanup
<1>4. Cardinality(returned) = Cardinality(listed)
  BY <1>2, <1>3, CleanupAssumption DEF Least
<1>5. listed = returned
  BY <1>2, <1>3, <1>4, FS_Subset
<1>6. \A i \in returned : deleted[i] \in DeletedRow /\ deleted'[i] = [deleted[i] EXCEPT !.told = TRUE]
  BY <1>1, <1>5 DEF SendCleanup, Told
<1>7. \A r \in DeletedRow : [r EXCEPT !.told = TRUE].told
  BY DEF DeletedRow
<1>8. QED
  BY <1>6, <1>7

\* Contacts change nothing of what the rows say of reports.
LEMMA ContactTold ==
    ASSUME CleanupInv, NEW e \in Endpoint, Contact(e)
    PROVE  /\ UNCHANGED <<cleanup, returned>>
           /\ \A i \in DOMAIN deleted : deleted'[i].told = deleted[i].told /\ deleted'[i].marked = deleted[i].marked
<1>1. \A r \in DeletedRow : \A b : [r EXCEPT !.back = b].told = r.told /\ [r EXCEPT !.back = b].marked = r.marked
  BY DEF DeletedRow
<1>2. \A i \in DOMAIN deleted : deleted[i] \in DeletedRow
  BY DEF CleanupInv, CleanupShape
<1>3. \A i \in DOMAIN deleted :
        deleted'[i] = deleted[i] \/ deleted'[i] = [deleted[i] EXCEPT !.back = deleted[i].back \cup {e}]
  BY DEF Contact
<1>4. QED
  BY <1>1, <1>2, <1>3 DEF Contact

LEMMA ListedKeeps ==
    CleanupInv /\ CleanupTypeOK /\ ReturnsListed /\ [CleanupNext]_cleanupVars => ReturnsListed'
<1> SUFFICES ASSUME CleanupInv, CleanupTypeOK, ReturnsListed, [CleanupNext]_cleanupVars
             PROVE  ReturnsListed'
  OBVIOUS
<1>1. CASE UNCHANGED cleanupVars \/ \E e \in Endpoint : Uninstall(e)
  BY <1>1 DEF cleanupVars, Uninstall, ReturnsListed
<1>2. ASSUME NEW e \in Endpoint, Contact(e)
      PROVE  ReturnsListed'
  BY <1>2, ContactTold DEF ReturnsListed, CleanupTypeOK
<1>3. ASSUME NEW listed, SendCleanup(listed)
      PROVE  ReturnsListed'
  <2>1. UNCHANGED returned
    BY <1>3 DEF SendCleanup
  <2>2. QED
    BY <1>3, <2>1, AllListed DEF ReturnsListed
<1>4. CASE cleanup' # "mark"
  BY <1>4 DEF ReturnsListed
<1>5. QED
  BY <1>1, <1>2, <1>3, <1>4 DEF CleanupNext, CleanupStep, NextDay, FindReturned, FetchSilent, DeleteBatch,
     RecordDeleted, MarkReturnedRows, EndOfRun, Trouble

LEMMA MarkedAreTold ==
    ASSUME CleanupInv, CleanupTypeOK, ReturnsListed, [CleanupNext]_cleanupVars, NEW i \in DOMAIN deleted,
           ~deleted[i].marked, deleted'[i].marked, ~deleted[i].told
    PROVE  Cardinality(returned) > MaxLines
<1>1. deleted \in Seq(DeletedRow) /\ deleted[i] \in DeletedRow
  BY DEF CleanupInv, CleanupShape
<1>2. ASSUME NEW e \in Endpoint, Contact(e)
      PROVE  FALSE
  BY <1>2, ContactTold
<1>3. ASSUME NEW listed, SendCleanup(listed)
      PROVE  FALSE
  <2>1. deleted'[i] = deleted[i] \/ deleted'[i] = [deleted[i] EXCEPT !.told = TRUE]
    BY <1>3 DEF SendCleanup, Told
  <2>2. QED
    BY <1>1, <2>1, RowChange
<1>4. ASSUME NEW order, RecordDeleted(order)
      PROVE  FALSE
  <2>1. deleted'[i] = deleted[i]
    BY <1>1, <1>4, AppendedRows
  <2>2. QED
    BY <2>1
<1>5. CASE MarkReturnedRows
  <2>1. cleanup = "mark" /\ i \in returned
    BY <1>5 DEF MarkReturnedRows, MarkReturned
  <2>2. ~(Cardinality(returned) <= MaxLines)
    BY <2>1 DEF ReturnsListed
  <2>3. Cardinality(returned) \in Nat /\ MaxLines \in Nat
    BY ReturnedRows, CleanupAssumption
  <2>4. QED
    BY <2>2, <2>3
<1>6. CASE deleted' = deleted
  BY <1>6
<1>7. QED
  BY <1>2, <1>3, <1>4, <1>5, <1>6 DEF CleanupNext, CleanupStep, Uninstall, NextDay, FindReturned,
     FetchSilent, DeleteBatch, Trouble, cleanupVars

\* The row of a return is marked without a line of its own only by a run that found more
\* returns than a report lists.
THEOREM LineCorrect == JobsSpec => LineBeforeMark
<1>1. JobsInit => ReturnsListed
  BY DEF JobsInit, CleanupInit, ReturnsListed
<1>2. CleanupInv /\ CleanupTypeOK /\ ReturnsListed /\ [JobsNext]_jobsVars => ReturnsListed'
  BY ListedKeeps, StepOfOne
<1>3. CleanupInv /\ CleanupTypeOK /\ ReturnsListed /\ [JobsNext]_jobsVars =>
        [\A i \in DOMAIN deleted :
            ~deleted[i].marked /\ deleted'[i].marked /\ ~deleted[i].told =>
                Cardinality(returned) > MaxLines]_cleanupVars
  BY MarkedAreTold, StepOfOne
<1>4. QED
  BY <1>1, <1>2, <1>3, CleanupInvAlways, TypesAlways, PTL DEF JobsSpec, LineBeforeMark

-----------------------------------------------------------------------------
\* Endpoints are deleted and addresses taken off only if they were silent when the run read
\* them or have changed since.
THEOREM RemovalsCorrect == JobsSpec => RemovalsJustified
<1>1. CleanupInv /\ [JobsNext]_jobsVars =>
        [\A e \in Endpoint :
            console[e] # Gone /\ console'[e] = Gone => console[e] >= SilentDays \/ e \in contacted]_cleanupVars
  BY DeletionsSilent, StepOfOne
<1>2. ScanInv /\ [JobsNext]_jobsVars =>
        [\A a \in Address :
            scan = "review" /\ a \in todo \ todo' /\ seen[a] # Off /\ seen'[a] = Off =>
                seen[a] >= StaleAfter \/ a \in renewed]_botnetVars
  BY RemovalsStale, StepOfOne
<1>3. JobsSpec => OnlySilentDeleted
  BY <1>1, CleanupInvAlways, PTL DEF JobsSpec, OnlySilentDeleted
<1>4. JobsSpec => OnlyQuietRemoved
  BY <1>2, ScanInvAlways, PTL DEF JobsSpec, OnlyQuietRemoved
<1>5. QED
  BY <1>3, <1>4 DEF RemovalsJustified

\* What was deleted, blocked or unblocked can be told from the tables, but for what a failure
\* between the change and its record lost.
THEOREM EffectsCorrect == JobsSpec => []EffectsRecorded
<1>1. CleanupInv => DeletedIsRecorded
  BY DEF CleanupInv, RowsCome, HasRow, DeletedIsRecorded
<1>2. ScanInv => ChangesAudited
  BY DEF ScanInv, ChangesWritten, ChangesAudited
<1>3. CleanupInv /\ ScanInv => EffectsRecorded
  BY <1>1, <1>2 DEF EffectsRecorded
<1>4. QED
  BY <1>3, CleanupInvAlways, ScanInvAlways, PTL

\* No server of the company is blocked by a run that could read which they are.
LEMMA ServersCorrect == JobsSpec => ServersNotBlocked
<1>1. ScanInv /\ [JobsNext]_jobsVars =>
        [\A a \in Internal :
            scan = "hunt" /\ a \in todo \ todo' /\ seen'[a] # seen[a] => internalIps # Internal]_botnetVars
  BY AdditionsKnown, StepOfOne
<1>2. QED
  BY <1>1, ScanInvAlways, PTL DEF JobsSpec, ServersNotBlocked

\* The lists in QRadar harm nobody: no server is blocked by a run that knew the servers, and
\* what is exempt lies in the ranges of the providers, exactly as bisect finds it.
THEOREM ListsCorrect == JobsSpec => ListsSafe
<1>1. JobsSpec => [](OnlyFrontsAllowed /\ IntersectionExact)
  BY CdnInvAlways, CdnIsSafe, PTL
<1>2. QED
  BY <1>1, ServersCorrect DEF ListsSafe

\* Nothing leaves the window of a digest unseen, but for a cap or a run that failed, and a
\* reading of Cortex that is over has all there was when it began.
THEOREM MissedCorrect == JobsSpec => []NothingMissed
<1>1. FalconInv /\ XdrInv => NothingMissed
  BY FalconOverlooksNothing, XdrOverlooksNothing DEF NothingMissed
<1>2. QED
  BY <1>1, FalconInvAlways, XdrInvAlways, PTL

\* A digest shows nothing twice, unless a run lost its rows after the message or did not
\* learn that the message had arrived.
THEOREM ReportedOnceCorrect == JobsSpec => ReportedOnce
<1>1. FalconInv /\ [JobsNext]_jobsVars =>
        [\A k \in Keys :
            shown'[k] = 0 /\ shown[k] # 0 /\ shown[k] <= DedupTime => k \in unmarked]_falconVars
  BY FalconShowsOnce, StepOfOne
<1>2. XdrInv => (xdr = "send" => \A i \in New : alerts[i].fate \notin {"shown", "cut"})
  BY XdrShowsOnce
<1>3. JobsSpec => ShownOnce
  BY <1>1, FalconInvAlways, PTL DEF JobsSpec, ShownOnce
<1>4. JobsSpec => AlertShownOnce
  BY <1>2, XdrInvAlways, PTL DEF AlertShownOnce
<1>5. QED
  BY <1>3, <1>4 DEF ReportedOnce

\* Every variable of the jobs keeps its shape: the caps of the runs, the guards of deletion,
\* and lists that are empty between runs.
THEOREM JobsTypeCorrect == JobsSpec => []JobsTypeOK
<1>1. FalconInv => FalconTypeOK
  BY DEF FalconInv
<1>2. XdrInv => XdrTypeOK
  BY DEF XdrInv
<1>3. CdnInv => CdnTypeOK
  BY DEF CdnInv
<1>4. FalconInv /\ XdrInv /\ CdnInv /\ CleanupTypeOK /\ BotnetTypeOK => JobsTypeOK
  BY <1>1, <1>2, <1>3 DEF JobsTypeOK
<1>5. QED
  BY <1>4, FalconInvAlways, XdrInvAlways, CdnInvAlways, TypesAlways, PTL

=============================================================================
