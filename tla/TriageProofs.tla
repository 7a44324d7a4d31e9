---------------------------- MODULE TriageProofs ----------------------------
(***************************************************************************)
(* Proofs about the triage of an offense, for every set of handlers,       *)
(* requests, offenses, scores and providers and every threshold that       *)
(* satisfies the assumptions of Triage.                                    *)
(***************************************************************************)
EXTENDS Triage, FiniteSetTheorems, WellFoundedInduction, TLAPS

-----------------------------------------------------------------------------
(***************************************************************************)
(* Which queries an offense gets.                                          *)
(***************************************************************************)

\* Every set of numbers has a least one.
LEMMA LeastOne ==
    ASSUME NEW S \in SUBSET Nat, S # {}
    PROVE  \E m \in S : \A n \in S : m <= n
<1> DEFINE R == OpToRel(<, Nat)
<1>1. IsWellFoundedOn(R, Nat)
  BY NatLessThanWellFounded
<1>2. \A m, n \in Nat : n < m => <<n, m>> \in R
  BY DEF OpToRel
<1> HIDE DEF R
<1>3. PICK m \in S : \A n \in S : ~(<<n, m>> \in R)
  BY <1>1, WFMin
<1>4. \A n \in S : ~(n < m)
  BY <1>2, <1>3, Zenon
<1>5. QED
  BY <1>4

\* The lenses of an offense are lenses.
LEMMA LensType ==
    ASSUME offense \in Case
    PROVE  /\ Len(offense.lenses) \in Nat
           /\ \A i \in 1..Len(offense.lenses) : offense.lenses[i] \in Lens
BY CaseAssumption DEF CaseType

\* There are finitely many of them.
LEMMA MatchedFinite ==
    ASSUME offense \in Case, NEW k
    PROVE  /\ IsFiniteSet(Matched(k))
           /\ IsFiniteSet(FirstUses(k))
           /\ Cardinality(FirstUses(k)) <= Cardinality(Matched(k))
<1>1. IsFiniteSet(1..Len(offense.lenses))
  BY LensType, FS_Interval
<1>2. Matched(k) \in SUBSET (1..Len(offense.lenses))
  BY DEF Matched
<1>3. IsFiniteSet(Matched(k))
  BY <1>1, <1>2, FS_Subset
<1>4. FirstUses(k) \in SUBSET Matched(k)
  BY DEF FirstUses
<1>5. QED
  BY <1>3, <1>4, FS_Subset

\* Only files that exist are run.
LEMMA PlanType ==
    ASSUME offense \in Case, NEW k
    PROVE  Plan(k) \subseteq Aql
BY LensType, DefaultAqlAssumption DEF Plan, FirstUses, Matched, Lens

\* The first use of a query is there for every matched lens.
LEMMA FirstUseExists ==
    ASSUME offense \in Case, NEW k, NEW i \in Matched(k)
    PROVE  \E j \in FirstUses(k) : offense.lenses[j].aql = offense.lenses[i].aql
<1> DEFINE S == {j \in Matched(k) : offense.lenses[j].aql = offense.lenses[i].aql}
<1>1. S \in SUBSET Nat /\ S # {}
  BY LensType DEF Matched
<1>2. PICK m \in S : \A n \in S : m <= n
  BY <1>1, LeastOne
<1>3. \A j \in Matched(k) : j < m => offense.lenses[j].aql # offense.lenses[m].aql
  BY <1>1, <1>2
<1>4. QED
  BY <1>3 DEF FirstUses

\* Without a cut, every matched lens has its query run.
LEMMA UncutPlanCovers ==
    ASSUME offense \in Case, NEW k, ~Truncated(k), NEW i \in Matched(k)
    PROVE  offense.lenses[i].aql \in Plan(k)
<1>1. PICK f \in FirstUses(k) : offense.lenses[f].aql = offense.lenses[i].aql
  BY FirstUseExists
<1> DEFINE before == {j \in FirstUses(k) : j < f}
<1>2. IsFiniteSet(FirstUses(k))
  BY MatchedFinite
<1>3. f \notin before
  BY LensType DEF FirstUses, Matched
<1>4. Cardinality(before) < MaxLenses
  <2>1. before \in SUBSET FirstUses(k) /\ before # FirstUses(k)
    BY <1>1, <1>3
  <2>2. /\ Cardinality(before) <= Cardinality(FirstUses(k))
        /\ Cardinality(before) # Cardinality(FirstUses(k))
        /\ IsFiniteSet(before)
    BY <1>2, <2>1, FS_Subset
  <2>3. Cardinality(before) \in Nat /\ Cardinality(FirstUses(k)) \in Nat
    BY <1>2, <2>2, FS_CardinalityType
  <2>4. QED
    BY <2>2, <2>3, SwitchAssumption DEF Truncated
<1>5. Matched(k) # {}
  OBVIOUS
<1>6. QED
  BY <1>1, <1>4, <1>5 DEF Plan

\* CloseOnEmpty is about all the matched lenses and all their queries, provided
\* at least one query per offense is allowed.
LEMMA CloseOnEmptyCovers ==
    ASSUME offense \in Case, NEW k, MaxLenses > 0, CloseOnEmpty(k)
    PROVE  /\ Matched(k) # {}
           /\ \A i \in Matched(k) :
                offense.lenses[i].close /\ offense.lenses[i].aql \in Plan(k)
<1>1. IsFiniteSet(Matched(k))
  BY MatchedFinite
<1>2. Cardinality(Matched(k)) \in Nat
  BY <1>1, FS_CardinalityType
<1>3. CASE Cardinality(Matched(k)) > 1
  <2>1. Matched(k) # {}
    BY <1>3, FS_EmptySet
  <2>2. QED
    BY <1>3, <2>1, UncutPlanCovers DEF CloseOnEmpty
<1>4. CASE ~(Cardinality(Matched(k)) > 1)
  <2>1. PICK i \in Matched(k) : offense.lenses[i].close
    BY <1>4 DEF CloseOnEmpty
  <2>2. Cardinality(Matched(k)) = 1
    BY <1>1, <1>2, <1>4, <2>1, FS_EmptySet
  <2>3. Matched(k) = {i}
    BY <1>1, <2>1, <2>2, FS_Singleton
  <2>4. ~Truncated(k)
    <3>1. IsFiniteSet(FirstUses(k)) /\ Cardinality(FirstUses(k)) <= 1
      BY <2>2, MatchedFinite
    <3>2. Cardinality(FirstUses(k)) \in Nat
      BY <3>1, FS_CardinalityType
    <3>3. QED
      BY <3>1, <3>2, SwitchAssumption DEF Truncated
  <2>5. QED
    BY <2>1, <2>3, <2>4, UncutPlanCovers
<1>5. QED
  BY <1>3, <1>4

-----------------------------------------------------------------------------
(***************************************************************************)
(* What a run has decided, and what it has done so far.                    *)
(***************************************************************************)

\* There is a verdict, and the guard has nothing against it.
Decided(r) ==
    /\ verdict[r] \in Verdict
    /\ ~GuardFires(verdict[r])

Outcomes == Fates \ {"none", "DAMAGED", "AI_ERROR"}

\* How far the run is, and what it can have done by then.
Stage(r) ==
    /\ pc[r] \in {"begin", "look", "match", "query", "generic", "tier1", "tier2"} =>
            fate[r] = "none" /\ deeds[r] = {}
    /\ pc[r] = "tier2" => Decided(r)
    /\ pc[r] = "clean" => fate[r] = "VERDICT" /\ deeds[r] = {}
    /\ pc[r] = "note" => fate[r] \in Outcomes /\ deeds[r] \subseteq {"removed"}
    /\ pc[r] = "act" => fate[r] \in Outcomes /\ deeds[r] \subseteq {"removed", "noted"}
    /\ pc[r] = "record" => fate[r] # "none"

\* What the fate of a run rests on.
Grounds(r) ==
    /\ fate[r] = "VERDICT" => Decided(r)
    /\ fate[r] = "EMPTY" =>
            /\ found[r] \in [Plan(known[r]) -> Results]
            /\ ~HasRows(found[r])
            /\ MayCloseOnEmpty(r, found[r])

\* What each deed rests on.
Justified(r) ==
    /\ "removed" \in deeds[r] => fate[r] = "VERDICT" /\ Unblocks(r)
    /\ "closed" \in deeds[r] => Closes(r)
    /\ "assigned" \in deeds[r] => fate[r] = "VERDICT" /\ ~Closes(r)

\* What the caller has been told.
Told(r) ==
    /\ pc[r] # "idle" => reply[r] = "none"
    /\ reply[r] = "error" => fate[r] \in {"AQL_ERROR", "AI_ERROR"}
    /\ reply[r] \in {"retry", "404", "busy"} => deeds[r] = {}

RunInv(r) == Stage(r) /\ Grounds(r) /\ Justified(r) /\ Told(r)

TriageInv == TypeOK /\ \A r \in Run : RunInv(r)

\* What RunInv says of a run depends on this.
Local(r) == <<pc[r], req[r], known[r], found[r], verdict[r], author[r], fate[r], deeds[r],
              reply[r]>>

\* A step of something else leaves a run as it is.
LEMMA RunUntouched ==
    ASSUME NEW r \in Run, RunInv(r), UNCHANGED <<offense, Local(r)>>
    PROVE  RunInv(r)'
<1>1. /\ offense' = offense /\ pc'[r] = pc[r] /\ req'[r] = req[r]
      /\ known'[r] = known[r] /\ found'[r] = found[r] /\ verdict'[r] = verdict[r]
      /\ author'[r] = author[r] /\ fate'[r] = fate[r] /\ deeds'[r] = deeds[r]
      /\ reply'[r] = reply[r]
  BY DEF Local
<1>2. Stage(r)'
  BY <1>1 DEF RunInv, Stage, Decided
<1>3. Grounds(r)'
  <2>1. /\ Plan(known[r])' = Plan(known[r])
        /\ CloseOnEmpty(known[r])' = CloseOnEmpty(known[r])
    BY <1>1 DEF Plan, FirstUses, Matched, CloseOnEmpty, Truncated
  <2>2. MayCloseOnEmpty(r, found[r])' = MayCloseOnEmpty(r, found[r])
    BY <1>1, <2>1 DEF MayCloseOnEmpty
  <2>3. QED
    BY <1>1, <2>1, <2>2 DEF RunInv, Grounds, Decided
<1>4. Justified(r)'
  BY <1>1 DEF RunInv, Justified, Unblocks, Closes, CleanupCandidate, HeavyReviewed
<1>5. Told(r)'
  BY <1>1 DEF RunInv, Told
<1>6. QED
  BY <1>2, <1>3, <1>4, <1>5 DEF RunInv

\* The guard makes verdicts of verdicts and leaves nothing to object to.
LEMMA GuardedVerdict ==
    ASSUME NEW v \in Answer
    PROVE  Guarded(v) \in Verdict /\ ~GuardFires(Guarded(v))
<1>1. v \in Verdict
  BY ScoreAssumption DEF Answer, Verdict
<1>2. CASE GuardFires(v)
  <2> DEFINE score == IF v.score < ScoreFloor THEN ScoreFloor ELSE v.score
  <2>1. Guarded(v) = [v EXCEPT !.mitigated = FALSE, !.score = score]
    BY <1>2 DEF Guarded
  <2>2. score \in Nat /\ score > CloseMax
    BY <1>1, ScoreAssumption DEF Verdict
  <2> HIDE DEF score
  <2>3. /\ Guarded(v) \in Verdict
        /\ Guarded(v).mitigated = FALSE
        /\ Guarded(v).score = score
    BY <1>1, <2>1, <2>2 DEF Verdict
  <2>4. QED
    BY <2>2, <2>3, ScoreAssumption DEF GuardFires
<1>3. CASE ~GuardFires(v)
  BY <1>1, <1>3 DEF Guarded
<1>4. QED
  BY <1>2, <1>3

-----------------------------------------------------------------------------
(***************************************************************************)
(* A step of one handler concerns no other.                                *)
(***************************************************************************)
LEMMA OthersUntouched ==
    ASSUME TypeOK, NEW r \in Run,
           (\E q \in Request : Arrive(r, q)) \/ Work(r) \/ Die(r),
           NEW s \in Run, s # r
    PROVE  UNCHANGED <<offense, Local(s)>>
<1>1. CASE \E q \in Request : Arrive(r, q)
  BY <1>1 DEF TypeOK, Arrive, Goto, Answered, durable, Local
<1>2. CASE Work(r)
  <2>1. CASE Begin(r) \/ Look(r) \/ LookFails(r) \/ Match(r)
    BY <2>1 DEF TypeOK, Begin, Look, LookFails, Match, Goto, Answered, durable, mind, Local
  <2>2. CASE Query(r) \/ QueryGeneric(r) \/ Unavailable(r)
    BY <2>2 DEF TypeOK, Query, QueryGeneric, Unavailable, Goto, Answered, durable, mind, Local
  <2>3. CASE Tier1(r) \/ Tier1Fails(r) \/ Escalate(r) \/ KeepVerdict(r)
    BY <2>3 DEF TypeOK, Tier1, Tier1Fails, Escalate, KeepVerdict, Judged, Goto, durable, mind,
                Local
  <2>4. CASE Clean(r) \/ Note(r) \/ Act(r) \/ Record(r)
    BY <2>4 DEF TypeOK, Clean, Note, Act, Record, Does, Goto, Answered, durable, mind, Local
  <2>5. QED
    BY <1>2, <2>1, <2>2, <2>3, <2>4 DEF Work
<1>3. CASE Die(r)
  BY <1>3 DEF TypeOK, Die, Goto, Answered, durable, mind, Local
<1>4. QED
  BY <1>1, <1>2, <1>3

-----------------------------------------------------------------------------
(***************************************************************************)
(* Types.                                                                  *)
(***************************************************************************)

\* The variables start with values of their types.
LEMMA InitType == Init => TypeOK
<1>1. \A S \in SUBSET Aql : [S -> Results] \subseteq UNION {[U -> Results] : U \in SUBSET Aql}
  OBVIOUS
<1>2. NoResults \in UNION {[U -> Results] : U \in SUBSET Aql}
  BY <1>1 DEF NoResults, Results
<1>3. QED
  BY <1>2, CaseAssumption, SwitchAssumption, NoVerdictAssumption
  DEF Init, TypeOK, CaseType, Statuses, Places, Fates, Deeds, Replies

\* Every step keeps them.
LEMMA ArriveType ==
    ASSUME TypeOK, NEW r \in Run, NEW q \in Request, Arrive(r, q)
    PROVE  TypeOK'
<1>1. NoResults \in UNION {[U -> Results] : U \in SUBSET Aql}
  <2>1. NoResults \in [{} -> Results]
    BY DEF NoResults
  <2>2. QED
    BY <2>1
<1>2. Blocks(q, status) \in Replies
  BY DEF Blocks, Replies
<1>3. QED
  BY <1>1, <1>2, NoVerdictAssumption
  DEF TypeOK, Arrive, Goto, Answered, durable, Places, Fates, Deeds

LEMMA EvidenceType ==
    ASSUME TypeOK, NEW r \in Run,
           Begin(r) \/ Look(r) \/ LookFails(r) \/ Match(r)
             \/ Query(r) \/ QueryGeneric(r) \/ Unavailable(r)
    PROVE  TypeOK'
<1> DEFINE AllResults == UNION {[U -> Results] : U \in SUBSET Aql}
<1>1. CASE Begin(r)
  BY <1>1 DEF TypeOK, Begin, Goto, mind, Statuses, Places
<1>2. CASE Look(r)
  BY <1>2 DEF TypeOK, Look, Goto, durable, Places, Fates
<1>3. CASE LookFails(r)
  BY <1>3 DEF TypeOK, LookFails, Goto, Answered, mind, Places, Replies
<1>4. CASE Match(r)
  BY <1>4 DEF TypeOK, Match, Goto, Places
<1>5. CASE Query(r)
  <2>1. PICK results \in [Plan(known[r]) -> Results] :
          /\ found' = [found EXCEPT ![r] = results]
          /\ fate' = [fate EXCEPT ![r] = FateOf(r, results)]
    BY <1>5 DEF Query
  <2>2. results \in AllResults
    BY PlanType DEF TypeOK
  <2>3. FateOf(r, results) \in Fates
    BY DEF FateOf, Fates
  <2>4. pc' \in [Run -> Places]
    BY <1>5 DEF Query, Goto, TypeOK, Places
  <2> HIDE DEF AllResults
  <2>5. found' \in [Run -> AllResults] /\ fate' \in [Run -> Fates]
    BY <2>1, <2>2, <2>3 DEF TypeOK, AllResults
  <2>6. QED
    BY <1>5, <2>4, <2>5 DEF TypeOK, Query, durable, AllResults
<1>6. CASE QueryGeneric(r)
  <2>1. PICK result \in Results :
          /\ Goto(r, "generic", IF result = "rows" THEN "tier1" ELSE "note")
          /\ found' = [found EXCEPT ![r] =
               [a \in DOMAIN @ \cup {DefaultAql} |->
                    IF a = DefaultAql THEN result ELSE @[a]]]
          /\ generic' = [generic EXCEPT ![r] = result = "rows"]
          /\ fate' = [fate EXCEPT ![r] = IF result = "rows" THEN "none" ELSE "NO_EVENTS"]
    BY <1>6 DEF QueryGeneric
  <2> DEFINE results == [a \in DOMAIN found[r] \cup {DefaultAql} |->
                            IF a = DefaultAql THEN result ELSE found[r][a]]
  <2>2. results \in AllResults
    <3>1. PICK U \in SUBSET Aql : found[r] \in [U -> Results]
      BY DEF TypeOK
    <3>2. results \in [U \cup {DefaultAql} -> Results]
      BY <3>1
    <3>3. U \cup {DefaultAql} \in SUBSET Aql
      BY DefaultAqlAssumption
    <3>4. QED
      BY <3>2, <3>3
  <2>3. found' = [found EXCEPT ![r] = results]
    BY <2>1 DEF TypeOK
  <2> HIDE DEF AllResults, results
  <2>4. found' \in [Run -> AllResults]
    BY <2>2, <2>3 DEF TypeOK, AllResults
  <2>5. QED
    BY <1>6, <2>1, <2>4
    DEF TypeOK, QueryGeneric, Goto, durable, AllResults, Places, Fates
<1>7. CASE Unavailable(r)
  BY <1>7 DEF TypeOK, Unavailable, Answered, mind, Statuses, Places, Replies
<1>8. QED
  BY <1>1, <1>2, <1>3, <1>4, <1>5, <1>6, <1>7

LEMMA JudgedType ==
    ASSUME TypeOK, NEW r \in Run, NEW v \in Answer, NEW p \in Provider, Judged(r, v, p)
    PROVE  /\ verdict' \in [Run -> Verdict \cup {NoVerdict}]
           /\ author' \in [Run -> Provider \cup {NoProvider}]
           /\ guard' \in [Run -> BOOLEAN]
           /\ \A s \in Run : verdict'[s] # NoVerdict => author'[s] \in Provider
<1>1. GuardFires(v) \in BOOLEAN
  BY ScoreAssumption DEF GuardFires, Answer
<1>2. QED
  BY <1>1, GuardedVerdict DEF TypeOK, Judged

LEMMA VerdictType ==
    ASSUME TriageInv, NEW r \in Run,
           Tier1(r) \/ Tier1Fails(r) \/ Escalate(r) \/ KeepVerdict(r)
             \/ Clean(r) \/ Note(r) \/ Act(r) \/ Record(r) \/ Die(r)
    PROVE  TypeOK'
<1> USE DEF TriageInv
<1>1. CASE Tier1(r)
  <2>1. PICK v \in Answer, p \in Provider : Judged(r, v, p)
    BY <1>1, ProviderAssumption DEF Tier1, FirstProvider, HasFallback
  <2>2. QED
    BY <1>1, <2>1, JudgedType DEF TypeOK, Tier1, Goto, durable, Places
<1>2. CASE Tier1Fails(r)
  BY <1>2 DEF TypeOK, Tier1Fails, Goto, durable, Places, Fates
<1>3. CASE Escalate(r)
  <2>1. PICK v \in Answer : Judged(r, v, Heavy)
    BY <1>3 DEF Escalate
  <2>2. QED
    BY <1>3, <2>1, JudgedType, ProviderAssumption
    DEF TypeOK, Escalate, Goto, durable, Places, Fates
<1>4. CASE KeepVerdict(r)
  BY <1>4 DEF TypeOK, KeepVerdict, Goto, durable, Places, Fates
<1>5. CASE Clean(r)
  <2>1. deeds' \in [Run -> SUBSET Deeds] /\ blocked' \in BOOLEAN
    BY <1>5 DEF TypeOK, Clean, Does, Deeds
  <2>2. QED
    BY <1>5, <2>1 DEF TypeOK, Clean, Goto, mind, Places
<1>6. CASE Note(r)
  BY <1>6 DEF TypeOK, Note, Goto, Does, durable, mind, Places, Deeds
<1>7. CASE Act(r)
  <2>1. open' \in BOOLEAN
    BY <1>7 DEF TypeOK, Act
  <2>2. \E d \in SUBSET Deeds : deeds' = [deeds EXCEPT ![r] = @ \cup d]
    <3>1. deeds' = deeds \/ \E d \in Deeds : Does(r, d)
      BY <1>7 DEF Act, Deeds
    <3>2. CASE deeds' = deeds
      BY <3>2 DEF TypeOK
    <3>3. CASE \E d \in Deeds : Does(r, d)
      BY <3>3 DEF Does
    <3>4. QED
      BY <3>1, <3>2, <3>3
  <2>3. deeds' \in [Run -> SUBSET Deeds]
    BY <2>2 DEF TypeOK
  <2>4. QED
    BY <1>7, <2>1, <2>3 DEF TypeOK, Act, Goto, mind, Places
<1>8. CASE Record(r)
  <2>1. fate[r] \in Fates /\ fate[r] # "none"
    BY <1>8 DEF TypeOK, RunInv, Stage, Record, Goto
  <2>2. status' \in Statuses
    BY <1>8, <2>1 DEF Record, Fates, Statuses
  <2>3. reply' \in [Run -> Replies]
    BY <1>8, <2>1 DEF TypeOK, Record, Answered, Fates, Replies
  <2>4. QED
    BY <1>8, <2>2, <2>3 DEF TypeOK, Record, Goto, mind, Places
<1>9. CASE Die(r)
  BY <1>9 DEF TypeOK, Die, Answered, mind, Places, Replies
<1>10. QED
  BY <1>1, <1>2, <1>3, <1>4, <1>5, <1>6, <1>7, <1>8, <1>9

-----------------------------------------------------------------------------
(***************************************************************************)
(* A handler's own steps keep its invariant.                               *)
(***************************************************************************)

LEMMA ArriveRun ==
    ASSUME TypeOK, NEW r \in Run, NEW q \in Request, Arrive(r, q)
    PROVE  RunInv(r)'
<1>1. /\ fate'[r] = "none" /\ deeds'[r] = {}
      /\ pc'[r] \in {"idle", "begin"}
      /\ reply'[r] \in {"none", "skipped", "busy"}
      /\ pc'[r] # "idle" => reply'[r] = "none"
  BY DEF TypeOK, Arrive, Goto, Answered, Blocks
<1>2. QED
  BY <1>1 DEF RunInv, Stage, Grounds, Justified, Told

\* Up to the evidence nothing is done; an early end leaves no trace.
LEMMA LookRun ==
    ASSUME TriageInv, NEW r \in Run,
           Begin(r) \/ Look(r) \/ LookFails(r) \/ Match(r) \/ Unavailable(r)
    PROVE  RunInv(r)'
<1>1. fate[r] = "none" /\ deeds[r] = {} /\ reply[r] = "none"
  BY DEF TriageInv, RunInv, Stage, Told, Begin, Look, LookFails, Match, Unavailable, Goto
<1>2. deeds'[r] = {}
  BY <1>1 DEF Begin, Look, LookFails, Match, Unavailable
<1>3. CASE Begin(r) \/ Match(r)
  <2>1. fate'[r] = "none" /\ pc'[r] \in {"look", "query"} /\ reply'[r] = "none"
    BY <1>1, <1>3 DEF TriageInv, TypeOK, Begin, Match, Goto, mind
  <2>2. QED
    BY <1>2, <2>1 DEF RunInv, Stage, Grounds, Justified, Told
<1>4. CASE Look(r)
  <2>1. /\ reply'[r] = "none"
        /\ \/ pc'[r] = "record" /\ fate'[r] = "DAMAGED"
           \/ pc'[r] = "match" /\ fate'[r] = "none"
    BY <1>1, <1>4 DEF TriageInv, TypeOK, Look, Goto
  <2>2. QED
    BY <1>2, <2>1 DEF RunInv, Stage, Grounds, Justified, Told
<1>5. CASE LookFails(r) \/ Unavailable(r)
  <2>1. fate'[r] = "none" /\ pc'[r] = "idle" /\ reply'[r] \in {"404", "retry"}
    BY <1>1, <1>5 DEF TriageInv, TypeOK, LookFails, Unavailable, Goto, Answered, mind
  <2>2. QED
    BY <1>2, <2>1 DEF RunInv, Stage, Grounds, Justified, Told
<1>6. QED
  BY <1>3, <1>4, <1>5

\* A run is EMPTY only on the results of its plan.
LEMMA QueryRun ==
    ASSUME TriageInv, NEW r \in Run, Query(r)
    PROVE  RunInv(r)'
<1>1. PICK results \in [Plan(known[r]) -> Results] :
        /\ Goto(r, "query", IF FateOf(r, results) # "none" THEN "note"
                            ELSE IF HasRows(results) THEN "tier1" ELSE "generic")
        /\ found' = [found EXCEPT ![r] = results]
        /\ fate' = [fate EXCEPT ![r] = FateOf(r, results)]
        /\ UNCHANGED <<durable, req, known, generic, verdict, author, guard, deeds, reply>>
  BY DEF Query
<1>2. deeds'[r] = {} /\ reply'[r] = "none"
  BY <1>1 DEF TriageInv, RunInv, Stage, Told, Goto
<1>3. /\ fate'[r] = FateOf(r, results) /\ found'[r] = results
      /\ fate'[r] # "none" => pc'[r] = "note"
      /\ fate'[r] = "none" => pc'[r] \in {"tier1", "generic"}
  BY <1>1 DEF TriageInv, TypeOK, Goto
<1>4. fate'[r] \in {"none", "AQL_ERROR", "EMPTY", "NO_EVENTS"}
  BY <1>3 DEF FateOf
<1>5. Stage(r)' /\ Justified(r)' /\ Told(r)'
  BY <1>2, <1>3, <1>4 DEF Stage, Justified, Told, Outcomes, Fates
<1>6. Grounds(r)'
  <2>1. ASSUME fate'[r] = "EMPTY"
        PROVE  ~HasRows(results) /\ MayCloseOnEmpty(r, results)
    BY <1>3, <2>1 DEF FateOf
  <2>2. /\ Plan(known[r])' = Plan(known[r])
        /\ CloseOnEmpty(known[r])' = CloseOnEmpty(known[r])
    BY <1>1 DEF Plan, FirstUses, Matched, CloseOnEmpty, Truncated, durable
  <2>3. MayCloseOnEmpty(r, found[r])' = MayCloseOnEmpty(r, results)
    BY <1>1, <1>3, <2>2 DEF MayCloseOnEmpty
  <2>4. QED
    BY <1>3, <1>4, <2>1, <2>2, <2>3 DEF Grounds
<1>7. QED
  BY <1>5, <1>6 DEF RunInv

\* A run whose generic query was needed is never EMPTY.
LEMMA QueryGenericRun ==
    ASSUME TriageInv, NEW r \in Run, QueryGeneric(r)
    PROVE  RunInv(r)'
<1>1. deeds'[r] = {} /\ reply'[r] = "none"
  BY DEF TriageInv, RunInv, Stage, Told, Goto, QueryGeneric
<1>2. \/ pc'[r] = "tier1" /\ fate'[r] = "none"
      \/ pc'[r] = "note" /\ fate'[r] = "NO_EVENTS"
  BY DEF TriageInv, TypeOK, Goto, QueryGeneric
<1>3. QED
  BY <1>1, <1>2 DEF RunInv, Stage, Grounds, Justified, Told, Outcomes, Fates

\* Whatever a model says, the verdict that counts is guarded.
LEMMA ModelRun ==
    ASSUME TriageInv, NEW r \in Run,
           Tier1(r) \/ Tier1Fails(r) \/ Escalate(r) \/ KeepVerdict(r)
    PROVE  RunInv(r)'
<1>1. fate[r] = "none" /\ deeds'[r] = {} /\ reply'[r] = "none"
  BY DEF TriageInv, RunInv, Stage, Told, Tier1, Tier1Fails, Escalate, KeepVerdict, Goto
<1>2. CASE Tier1(r) \/ Escalate(r)
  <2>1. PICK v \in Answer : verdict'[r] = Guarded(v)
    BY <1>2 DEF TriageInv, TypeOK, Tier1, Escalate, Judged
  <2>2. Decided(r)'
    BY <2>1, GuardedVerdict DEF Decided
  <2>3. \/ pc'[r] = "tier2" /\ fate'[r] = "none"
        \/ pc'[r] = "clean" /\ fate'[r] = "VERDICT"
    BY <1>1, <1>2 DEF TriageInv, TypeOK, Tier1, Escalate, Goto
  <2>4. QED
    BY <1>1, <2>2, <2>3 DEF RunInv, Stage, Grounds, Justified, Told
<1>3. CASE Tier1Fails(r)
  <2>1. pc'[r] = "record" /\ fate'[r] = "AI_ERROR"
    BY <1>3 DEF TriageInv, TypeOK, Tier1Fails, Goto
  <2>2. QED
    BY <1>1, <2>1 DEF RunInv, Stage, Grounds, Justified, Told
<1>4. CASE KeepVerdict(r)
  <2>1. pc'[r] = "clean" /\ fate'[r] = "VERDICT"
    BY <1>4 DEF TriageInv, TypeOK, KeepVerdict, Goto
  <2>2. Decided(r)'
    BY <1>4 DEF TriageInv, RunInv, Stage, KeepVerdict, Goto, Decided
  <2>3. QED
    BY <1>1, <2>1, <2>2 DEF RunInv, Stage, Grounds, Justified, Told
<1>5. QED
  BY <1>2, <1>3, <1>4

\* A run that changes nothing but its place, its deeds and the world keeps the
\* grounds of its fate and of its deeds.
LEMMA MindUntouched ==
    ASSUME NEW r \in Run, RunInv(r), UNCHANGED <<offense, req, mind>>
    PROVE  /\ Grounds(r)'
           /\ Unblocks(r)' = Unblocks(r)
           /\ Closes(r)' = Closes(r)
           /\ Decided(r)' = Decided(r)
<1>1. /\ Plan(known[r])' = Plan(known[r])
      /\ CloseOnEmpty(known[r])' = CloseOnEmpty(known[r])
  BY DEF Plan, FirstUses, Matched, CloseOnEmpty, Truncated, mind
<1>2. MayCloseOnEmpty(r, found[r])' = MayCloseOnEmpty(r, found[r])
  BY <1>1 DEF MayCloseOnEmpty, mind
<1>3. Decided(r)' = Decided(r)
  BY DEF Decided, mind
<1>4. Grounds(r)'
  BY <1>1, <1>2, <1>3 DEF RunInv, Grounds, mind
<1>5. QED
  BY <1>3, <1>4 DEF Unblocks, Closes, CleanupCandidate, HeavyReviewed, mind

LEMMA CleanRun ==
    ASSUME TriageInv, NEW r \in Run, Clean(r)
    PROVE  RunInv(r)'
<1>1. UNCHANGED <<offense, req, mind, reply>>
  BY DEF Clean
<1>2. fate'[r] = "VERDICT" /\ reply'[r] = "none" /\ pc'[r] = "note"
  BY DEF TriageInv, TypeOK, RunInv, Stage, Told, Clean, Goto, mind
<1>3. deeds'[r] = {} \/ (deeds'[r] = {"removed"} /\ Unblocks(r))
  <2>1. deeds[r] = {}
    BY DEF TriageInv, RunInv, Stage, Clean, Goto
  <2>2. CASE Unblocks(r) /\ Does(r, "removed")
    BY <2>1, <2>2 DEF TriageInv, TypeOK, Does
  <2>3. CASE UNCHANGED deeds
    BY <2>1, <2>3
  <2>4. QED
    BY <2>2, <2>3 DEF Clean
<1>4. QED
  BY <1>1, <1>2, <1>3, MindUntouched
  DEF TriageInv, RunInv, Stage, Justified, Told, Outcomes, Fates

LEMMA NoteRun ==
    ASSUME TriageInv, NEW r \in Run, Note(r)
    PROVE  RunInv(r)'
<1>1. UNCHANGED <<offense, req, mind, reply>>
  BY DEF Note, durable
<1>2. fate'[r] = fate[r] /\ fate[r] \in Outcomes /\ reply'[r] = "none" /\ pc'[r] = "act"
  BY DEF TriageInv, TypeOK, RunInv, Stage, Told, Note, Goto, mind
<1>3. deeds'[r] = deeds[r] \cup {"noted"} /\ deeds[r] \subseteq {"removed"}
  BY DEF TriageInv, TypeOK, RunInv, Stage, Note, Does, Goto
<1>4. QED
  BY <1>1, <1>2, <1>3, MindUntouched
  DEF TriageInv, RunInv, Stage, Justified, Told, Outcomes, Fates

\* Closing and assigning exclude each other.
LEMMA ActRun ==
    ASSUME TriageInv, NEW r \in Run, Act(r)
    PROVE  RunInv(r)'
<1>1. UNCHANGED <<offense, req, mind, reply>>
  BY DEF Act
<1>2. fate'[r] = fate[r] /\ fate[r] \in Outcomes /\ reply'[r] = "none" /\ pc'[r] = "record"
  BY DEF TriageInv, TypeOK, RunInv, Stage, Told, Act, Goto, mind
<1>3. deeds[r] \subseteq {"removed", "noted"}
  BY DEF TriageInv, RunInv, Stage, Act, Goto
<1>4. \/ deeds'[r] = deeds[r]
      \/ deeds'[r] = deeds[r] \cup {"closed"} /\ Closes(r)
      \/ deeds'[r] = deeds[r] \cup {"assigned"} /\ ~Closes(r) /\ fate[r] = "VERDICT"
  <2>1. CASE Closes(r) /\ Does(r, "closed")
    BY <2>1 DEF TriageInv, TypeOK, Does
  <2>2. CASE ~Closes(r) /\ fate[r] = "VERDICT" /\ Does(r, "assigned")
    BY <2>2 DEF TriageInv, TypeOK, Does
  <2>3. CASE UNCHANGED deeds
    BY <2>3
  <2>4. QED
    BY <2>1, <2>2, <2>3 DEF Act
<1>5. Justified(r)'
  BY <1>1, <1>2, <1>3, <1>4, MindUntouched DEF TriageInv, RunInv, Justified
<1>6. Stage(r)' /\ Told(r)'
  BY <1>2 DEF Stage, Told, Outcomes, Fates
<1>7. QED
  BY <1>1, <1>5, <1>6, MindUntouched DEF TriageInv, RunInv

LEMMA EndRun ==
    ASSUME TriageInv, NEW r \in Run, Record(r) \/ Die(r)
    PROVE  RunInv(r)'
<1>1. UNCHANGED <<offense, req, mind, deeds>>
  BY DEF Record, Die
<1>2. pc'[r] = "idle"
  BY DEF TriageInv, TypeOK, Record, Die, Goto
<1>3. /\ reply'[r] = "error" => fate[r] \in {"AQL_ERROR", "AI_ERROR"}
      /\ reply'[r] \notin {"retry", "404", "busy"}
  <2>1. CASE Record(r)
    <3>1. fate[r] \in Fates \ {"none"}
      BY <2>1 DEF TriageInv, TypeOK, RunInv, Stage, Record, Goto
    <3>2. QED
      BY <2>1, <3>1 DEF TriageInv, TypeOK, Record, Answered, Fates
  <2>2. CASE Die(r)
    BY <2>2 DEF TriageInv, TypeOK, Die, Answered
  <2>3. QED
    BY <2>1, <2>2
<1>4. Justified(r)'
  BY <1>1, MindUntouched DEF TriageInv, RunInv, Justified, mind
<1>5. Stage(r)' /\ Told(r)'
  BY <1>1, <1>2, <1>3 DEF Stage, Told, mind
<1>6. QED
  BY <1>1, <1>4, <1>5, MindUntouched DEF TriageInv, RunInv

-----------------------------------------------------------------------------
(***************************************************************************)
(* The invariant is inductive.                                             *)
(***************************************************************************)
LEMMA InitInv == Init => TriageInv
<1>1. ASSUME Init, NEW r \in Run
      PROVE  RunInv(r)
  BY <1>1 DEF Init, RunInv, Stage, Grounds, Justified, Told
<1>2. QED
  BY <1>1, InitType DEF TriageInv

\* A step of a handler.
LEMMA HandlerInv ==
    ASSUME TriageInv, NEW r \in Run,
           (\E q \in Request : Arrive(r, q)) \/ Work(r) \/ Die(r)
    PROVE  TriageInv'
<1>1. TypeOK'
  BY ArriveType, EvidenceType, VerdictType DEF Work, TriageInv
<1>2. RunInv(r)'
  BY ArriveRun, LookRun, QueryRun, QueryGenericRun, ModelRun, CleanRun, NoteRun, ActRun, EndRun
  DEF Work, TriageInv
<1>3. \A s \in Run : s # r => RunInv(s)'
  BY OthersUntouched, RunUntouched DEF TriageInv
<1>4. QED
  BY <1>1, <1>2, <1>3 DEF TriageInv

\* A step of the surroundings, or none.
LEMMA SurroundingsInv ==
    ASSUME TriageInv, GrowStale \/ ForgetRules \/ BlockAgain \/ UNCHANGED vars
    PROVE  TriageInv'
<1>1. UNCHANGED <<offense, pc, req, mind, deeds, reply>>
  BY DEF GrowStale, ForgetRules, BlockAgain, vars, durable
<1>2. TypeOK'
  BY DEF TriageInv, TypeOK, GrowStale, ForgetRules, BlockAgain, vars, durable, mind
<1>3. \A r \in Run : UNCHANGED <<offense, Local(r)>>
  BY <1>1 DEF Local, mind
<1>4. QED
  BY <1>2, <1>3, RunUntouched DEF TriageInv

\* Every reachable state satisfies the invariant.
THEOREM Invariance == Spec => []TriageInv
<1>1. TriageInv /\ [Next]_vars => TriageInv'
  BY HandlerInv, SurroundingsInv DEF Next
<1>2. QED
  BY InitInv, <1>1, PTL DEF Spec

-----------------------------------------------------------------------------
(***************************************************************************)
(* The properties.                                                         *)
(***************************************************************************)

\* Types: every variable of the triage keeps its shape.
THEOREM TypeCorrect == Spec => []TypeOK
<1>1. TriageInv => TypeOK
  BY DEF TriageInv
<1>2. QED
  BY <1>1, Invariance, PTL

\* An automatic close because nothing was found happens only when every matched
\* use case allows it and its query ran and came back empty, provided the
\* configuration allows at least one query per offense.
THEOREM EmptyCloseCorrect ==
    ASSUME MaxLenses > 0
    PROVE  Spec => []NeverClosedBlind
<1>1. ASSUME TriageInv
      PROVE  NeverClosedBlind
  <2> SUFFICES ASSUME NEW r \in Run, ClosedOnEmpty(r)
               PROVE  /\ Matched(known[r]) # {}
                      /\ \A i \in Matched(known[r]) :
                            /\ offense.lenses[i].close
                            /\ offense.lenses[i].aql \in DOMAIN found[r]
                            /\ found[r][offense.lenses[i].aql] = "empty"
    BY DEF NeverClosedBlind
  <2>1. /\ found[r] \in [Plan(known[r]) -> Results]
        /\ ~HasRows(found[r])
        /\ CloseOnEmpty(known[r])
        /\ Failures(found[r]) = {}
    BY <1>1 DEF TriageInv, RunInv, Grounds, ClosedOnEmpty, MayCloseOnEmpty
  <2>2. \A a \in Plan(known[r]) : found[r][a] = "empty"
    BY <2>1 DEF HasRows, Failures, Results
  <2>3. QED
    BY <1>1, <2>1, <2>2, CloseOnEmptyCovers DEF TriageInv, TypeOK
<1>2. TriageInv => NeverClosedBlind
  BY <1>1
<1>3. QED
  BY <1>2, Invariance, PTL

\* An address is taken off the block-list only on a reviewed verdict that is
\* neither a compromise nor mitigated.
THEOREM UnblockCorrect == Spec => []UnblockOnlyReviewed
<1>1. ASSUME TriageInv, NEW r \in Run, "removed" \in deeds[r]
      PROVE  /\ ~req[r].manual
             /\ RequiresTier2 => author[r] = Heavy
             /\ ~verdict[r].compromise /\ ~verdict[r].mitigated
  <2>1. Unblocks(r) /\ Decided(r)
    BY <1>1 DEF TriageInv, RunInv, Justified, Grounds
  <2>2. verdict[r].score <= CloseMax
    BY <2>1, ScoreAssumption, ThresholdAssumption DEF Unblocks, Decided, Verdict
  <2>3. QED
    BY <2>1, <2>2 DEF Unblocks, Decided, GuardFires, CleanupCandidate, HeavyReviewed
<1>2. TriageInv => UnblockOnlyReviewed
  BY <1>1 DEF UnblockOnlyReviewed
<1>3. QED
  BY <1>2, Invariance, PTL

\* No run closes an offense whose last verdict is a compromise, and no manual
\* run closes any.
THEOREM CompromiseCorrect == Spec => []CompromiseStaysOpen
<1>1. ASSUME TriageInv, NEW r \in Run, "closed" \in deeds[r]
      PROVE  /\ ~req[r].manual
             /\ fate[r] = "VERDICT" => ~verdict[r].compromise
  <2>1. Closes(r) /\ Grounds(r)
    BY <1>1 DEF TriageInv, RunInv, Justified
  <2>2. CASE fate[r] = "EMPTY"
    BY <2>1, <2>2 DEF Grounds, MayCloseOnEmpty
  <2>3. CASE fate[r] = "VERDICT"
    BY <2>1, <2>3 DEF Grounds, Decided, GuardFires, Closes
  <2>4. QED
    BY <2>1, <2>2, <2>3 DEF Closes
<1>2. TriageInv => CompromiseStaysOpen
  BY <1>1 DEF CompromiseStaysOpen
<1>3. QED
  BY <1>2, Invariance, PTL

\* What a second run would repeat: at most a note after "error", nothing after 503,
\* 404 and "busy", and after no answer only what a complete analysis had decided.
THEOREM RetryCorrect == Spec => []RetriesLeaveNoTrace
<1>1. ASSUME TriageInv, NEW r \in Run, reply[r] = "error"
      PROVE  deeds[r] \subseteq {"noted"}
  <2>1. fate[r] \in {"AQL_ERROR", "AI_ERROR"}
    BY <1>1 DEF TriageInv, RunInv, Told
  <2>2. deeds[r] \subseteq Deeds
    BY <1>1 DEF TriageInv, TypeOK
  <2>3. QED
    BY <1>1, <2>1, <2>2 DEF TriageInv, RunInv, Justified, Closes, Deeds
<1>2. ASSUME TriageInv, NEW r \in Run, fate[r] \notin {"EMPTY", "VERDICT"}
      PROVE  deeds[r] \subseteq {"noted"}
  <2>1. deeds[r] \subseteq Deeds
    BY <1>2 DEF TriageInv, TypeOK
  <2>2. QED
    BY <1>2, <2>1 DEF TriageInv, RunInv, Justified, Closes, Deeds
<1>3. TriageInv => RetriesLeaveNoTrace
  BY <1>1, <1>2 DEF RetriesLeaveNoTrace, TriageInv, RunInv, Told
<1>4. QED
  BY <1>3, Invariance, PTL

\* A run that has unblocked the address closes the offense or leaves it: the
\* score that unblocks also closes, which is where the order of the two
\* thresholds counts.
THEOREM HandOverCorrect == Spec => []UnblockedNotAssigned
<1>1. ASSUME TriageInv, NEW r \in Run, "removed" \in deeds[r]
      PROVE  "assigned" \notin deeds[r]
  <2>1. fate[r] = "VERDICT" /\ Unblocks(r) /\ Decided(r)
    BY <1>1 DEF TriageInv, RunInv, Justified, Grounds
  <2>2. verdict[r].score <= CloseMax
    BY <2>1, ScoreAssumption, ThresholdAssumption DEF Unblocks, Decided, Verdict
  <2>3. Closes(r)
    BY <2>1, <2>2 DEF Unblocks, Closes, CleanupCandidate
  <2>4. QED
    BY <1>1, <2>3 DEF TriageInv, RunInv, Justified
<1>2. TriageInv => UnblockedNotAssigned
  BY <1>1 DEF UnblockedNotAssigned
<1>3. QED
  BY <1>2, Invariance, PTL
=============================================================================
