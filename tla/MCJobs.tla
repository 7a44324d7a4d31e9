------------------------------- MODULE MCJobs -------------------------------
(***************************************************************************)
(* The jobs of the timers in one run of TLC: they share no state, so their *)
(* state spaces stand side by side and are not multiplied.                 *)
(***************************************************************************)
EXTENDS FalconDigest, CortexDigest, EndpointCleanup, BotnetScan, CdnAllowlist

JobsInit ==
    /\ job \in {"falcon", "cortex", "cleanup", "botnet", "cdn"}
    /\ FalconInit /\ XdrInit /\ CleanupInit /\ BotnetInit /\ CdnInit

JobsNext ==
    \/ Runs("falcon") /\ FalconNext /\ UNCHANGED <<job, xdrVars, cleanupVars, botnetVars, cdnVars>>
    \/ Runs("cortex") /\ XdrNext /\ UNCHANGED <<job, falconVars, cleanupVars, botnetVars, cdnVars>>
    \/ Runs("cleanup") /\ CleanupNext /\ UNCHANGED <<job, falconVars, xdrVars, botnetVars, cdnVars>>
    \/ Runs("botnet") /\ BotnetNext /\ UNCHANGED <<job, falconVars, xdrVars, cleanupVars, cdnVars>>
    \/ Runs("cdn") /\ CdnNext /\ UNCHANGED <<job, falconVars, xdrVars, cleanupVars, botnetVars>>

jobsVars == <<job, falconVars, xdrVars, cleanupVars, botnetVars, cdnVars>>

JobsSpec ==
    /\ JobsInit /\ [][JobsNext]_jobsVars
    /\ CleanupFairness /\ BotnetFairness /\ CdnFairness

-----------------------------------------------------------------------------
(***************************************************************************)
(* Instances.                                                              *)
(***************************************************************************)
\* One file in two places, and one without a hash.
Files == {[key |-> "a", path |-> 1], [key |-> "a", path |-> 2], [key |-> "none", path |-> 1]}

\* Two endpoints of one host, one of them installed later, and one of another host.
HostNames(e) == IF e = "e3" THEN "h2" ELSE "h1"

\* Ranges that overlap, one inside the gap of another, and a single static address.
Ranges(p) == IF p = "p1" THEN {<<1, 2>>, <<4, 4>>} ELSE {<<0, 3>>}
StaticCidrs == {<<5, 5>>}

-----------------------------------------------------------------------------
(***************************************************************************)
(* What is said of each job alone is in its module; here the jobs that are *)
(* exposed to the same hazard are taken together.                          *)
(***************************************************************************)
\* The shape of every variable of the jobs, with their caps and the guards of deletion.
JobsTypeOK == FalconTypeOK /\ XdrTypeOK /\ CleanupTypeOK /\ BotnetTypeOK /\ CdnTypeOK

\* The digests overlook nothing: what leaves their window was shown, or there is a cap
\* or a failed run to answer for it; the pages of Cortex fit together.
NothingMissed == NothingOverlooked /\ NoAlertOverlooked /\ PagesComplete

\* The digests show nothing twice, unless a run was killed between message and record or
\* did not learn that its message had arrived.
ReportedOnce == ShownOnce /\ AlertShownOnce

\* Nothing is removed on an outdated reading: no endpoint that is alive, no address that
\* has just been put on the block-list, but for what changed after it was read.
RemovalsJustified == OnlySilentDeleted /\ OnlyQuietRemoved

\* What the cleanup deletes and what the scan blocks or unblocks can be told from their
\* tables, although the change and its record are two steps and an answer may be lost.
EffectsRecorded == DeletedIsRecorded /\ ChangesAudited

\* The lists in QRadar harm nobody: no server of the company is blocked, and nothing but
\* the ranges of the providers is exempt.
ListsSafe == ServersNotBlocked /\ [](OnlyFrontsAllowed /\ IntersectionExact)

\* The return of a deleted endpoint is reported, with a line of its own as long as the
\* report has room.
CleanupSeesReturns == LineBeforeMark /\ (Runs("cleanup") => ReturnIsReported)

\* The lists in QRadar come to rest: an address that has stopped attacking leaves the
\* block-list for good, and the allow-list recovers from every failure.
ListsSettle ==
    /\ Runs("botnet") => QuietLeavesForGood
    /\ Runs("cdn") => ListRecovers
=============================================================================
