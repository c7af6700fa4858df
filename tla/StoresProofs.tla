---------------------------- MODULE StoresProofs ----------------------------
(* What every step of modules Prompts and Records keeps, whatever surrounds *)
(* it (module PlatformProofs): lemmas for any versions, cases and notices.  *)
EXTENDS Prompts, Records, FiniteSetTheorems, TLAPS

(* --- prompts -------------------------------------------------------------- *)

PromptsMove ==
    \/ Render \/ InvalidateCache
    \/ \E commit \in BOOLEAN :
        \/ SyncToDb(commit)
        \/ \E v \in Versions : Deactivate(v, commit) \/ \E pass \in BOOLEAN : Activate(v, pass, commit)
    \/ \E v \in Versions : Draft(v)
    \/ \E v \in Released : RestartPrompts(v)
    \/ UNCHANGED prompts

(* What the registry in memory names, if anything, was shipped or passed.   *)
PromptsInv ==
    /\ PromptsOK /\ PromptsVetted
    /\ shipped \in everShipped
    /\ registry # NoVersion => registry \in everShipped \cup passed

LEMMA PromptsInit == InitPrompts => PromptsInv
<1> SUFFICES ASSUME InitPrompts PROVE PromptsInv
  OBVIOUS
<1>1. PromptsOK
  BY PromptAssumption DEF InitPrompts, PromptsOK, RowStatus
<1>2. ActiveRows(rows) = {}
  BY DEF InitPrompts, ActiveRows
<1> QED
  BY <1>1, <1>2 DEF InitPrompts, PromptsInv, PromptsVetted

(* The version in use is a vetted one, whether or not the registry has been *)
(* loaded, and the cached one if there is one.                              *)
LEMMA ActiveIsVetted ==
    ASSUME PromptsInv
    PROVE  /\ ActiveVersion \in Versions /\ ActiveVersion \in everShipped \cup passed
           /\ GetActive(cache) = ActiveVersion
BY PromptAssumption DEF PromptsInv, PromptsOK, PromptsVetted, ActiveVersion, GetActive, RegistryVersion

LEMMA RenderKeeps == PromptsInv /\ Render => PromptsInv'
<1> SUFFICES ASSUME PromptsInv, Render PROVE PromptsInv'
  OBVIOUS
<1>1. PICK v : v = ActiveVersion
  OBVIOUS
<1>2. v \in Versions /\ v \in everShipped \cup passed /\ GetActive(cache) = v
  BY <1>1, ActiveIsVetted
<1>3. /\ registry' = v /\ cache' = IF v \in Files THEN v ELSE cache
      /\ reviewedWith' = reviewedWith \cup IF v \in Files /\ v \in Renderable THEN {v} ELSE {}
      /\ UNCHANGED <<shipped, rows, everShipped, passed>>
  BY <1>1, <1>2 DEF Render, LoadFromYaml, Renders
<1>4. cache = NoVersion \/ cache = v
  BY <1>2 DEF GetActive
<1>5. PromptsOK'
  BY <1>2, <1>3 DEF PromptsInv, PromptsOK
<1>6. PromptsVetted'
  BY <1>2, <1>3, <1>4 DEF PromptsInv, PromptsVetted, ActiveRows
<1> QED
  BY <1>2, <1>3, <1>5, <1>6 DEF PromptsInv

LEMMA SyncKeeps ==
    ASSUME PromptsInv, NEW commit \in BOOLEAN, SyncToDb(commit)
    PROVE  PromptsInv'
<1>1. PICK v : v = ActiveVersion
  OBVIOUS
<1>2. v \in Versions /\ v \in everShipped \cup passed /\ GetActive(cache) = v
  BY <1>1, ActiveIsVetted
<1>3. /\ registry' = v /\ (rows' = rows \/ rows' = [rows EXCEPT ![v] = "active"])
      /\ UNCHANGED <<shipped, cache, everShipped, passed, reviewedWith>>
  BY <1>1 DEF SyncToDb
<1>4. cache = NoVersion \/ cache = v
  BY <1>2 DEF GetActive
<1>5. rows' \in [Versions -> RowStatus] /\ ActiveRows(rows') \subseteq ActiveRows(rows) \cup {v}
  BY <1>2, <1>3 DEF PromptsInv, PromptsOK, RowStatus, ActiveRows
<1>6. PromptsOK'
  BY <1>2, <1>3, <1>5 DEF PromptsInv, PromptsOK
<1>7. PromptsVetted'
  BY <1>2, <1>3, <1>4, <1>5 DEF PromptsInv, PromptsVetted
<1> QED
  BY <1>2, <1>3, <1>6, <1>7 DEF PromptsInv

LEMMA ActivateKeeps ==
    ASSUME PromptsInv, NEW v \in Versions, NEW pass \in BOOLEAN, NEW commit \in BOOLEAN,
           Activate(v, pass, commit)
    PROVE  PromptsInv'
<1>1. /\ registry' = v /\ cache' = NoVersion /\ passed' = passed \cup {v}
      /\ rows' = rows \/ rows' = [Retire(rows) EXCEPT ![v] = "active"]
      /\ UNCHANGED <<shipped, everShipped, reviewedWith>>
  BY DEF Activate, Gate, CacheDropped
<1>2. Retire(rows) \in [Versions -> RowStatus] /\ ActiveRows(Retire(rows)) = {}
  BY DEF PromptsInv, PromptsOK, RowStatus, Retire, ActiveRows
<1>3. rows' \in [Versions -> RowStatus] /\ ActiveRows(rows') \subseteq ActiveRows(rows) \cup {v}
  BY <1>1, <1>2 DEF PromptsInv, PromptsOK, RowStatus, ActiveRows
<1>4. PromptsOK'
  BY <1>1, <1>3 DEF PromptsInv, PromptsOK
<1>5. PromptsVetted'
  BY <1>1, <1>3 DEF PromptsInv, PromptsVetted
<1> QED
  BY <1>1, <1>4, <1>5 DEF PromptsInv

LEMMA DeactivateKeeps ==
    ASSUME PromptsInv, NEW v \in Versions, NEW commit \in BOOLEAN, Deactivate(v, commit)
    PROVE  PromptsInv'
<1>1. /\ cache' = NoVersion /\ (rows' = rows \/ rows' = [rows EXCEPT ![v] = "deprecated"])
      /\ UNCHANGED <<shipped, registry, everShipped, passed, reviewedWith>>
  BY DEF Deactivate
<1>2. rows' \in [Versions -> RowStatus] /\ ActiveRows(rows') \subseteq ActiveRows(rows)
  BY <1>1 DEF PromptsInv, PromptsOK, RowStatus, ActiveRows
<1> QED
  BY <1>1, <1>2 DEF PromptsInv, PromptsOK, PromptsVetted

LEMMA DraftKeeps ==
    ASSUME PromptsInv, NEW v \in Versions, Draft(v)
    PROVE  PromptsInv'
<1>1. /\ rows' = [rows EXCEPT ![v] = "draft"]
      /\ UNCHANGED <<shipped, registry, cache, everShipped, passed, reviewedWith>>
  BY DEF Draft
<1>2. rows' \in [Versions -> RowStatus] /\ ActiveRows(rows') \subseteq ActiveRows(rows)
  BY <1>1 DEF PromptsInv, PromptsOK, RowStatus, ActiveRows
<1> QED
  BY <1>1, <1>2 DEF PromptsInv, PromptsOK, PromptsVetted

LEMMA PromptsKeeps == PromptsInv /\ PromptsMove => PromptsInv'
<1> SUFFICES ASSUME PromptsInv, PromptsMove PROVE PromptsInv'
  OBVIOUS
<1>1. CASE InvalidateCache
  BY <1>1 DEF InvalidateCache, PromptsInv, PromptsOK, PromptsVetted, ActiveRows
<1>2. CASE \E v \in Released : RestartPrompts(v)
  BY <1>2 DEF RestartPrompts, PromptsInv, PromptsOK, PromptsVetted, ActiveRows
<1>3. CASE UNCHANGED prompts
  BY <1>3 DEF prompts, PromptsInv, PromptsOK, PromptsVetted, ActiveRows
<1> QED
  BY <1>1, <1>2, <1>3, RenderKeeps, SyncKeeps, ActivateKeeps, DeactivateKeeps, DraftKeeps
     DEF PromptsMove

(* --- golden data set, evaluation, feedback -------------------------------- *)

RecordsMove ==
    \/ StartGolden \/ CommitGolden \/ RestartRecords
    \/ \E c \in Cases : DeleteCase(c) \/ \E ok \in BOOLEAN : AddCase(c, ok)
    \/ \E S \in SUBSET Cases : EvalRun(S)
    \/ \E f \in FeedbackCases : MarkIncorporated(f) \/ \E exists \in BOOLEAN : Record(f, exists)
    \/ \E N \in SUBSET Notices : MarkRead(N)
    \/ UNCHANGED records

Batch == [pc : {"idle", "open"}, tried : SUBSET Cases, pending : SUBSET Cases, success : Nat]
Confirmations == FeedbackCases \X {"recorded", "incorporated"}
RecordsInv == RecordsOK /\ RecordsKept /\ batch \in Batch /\ confirmed \subseteq Confirmations

LEMMA Finite == \A S \in SUBSET Cases : IsFiniteSet(S) /\ Cardinality(S) \in Nat
BY RecordsAssumption, FS_Subset, FS_CardinalityType

LEMMA NoBatchIs ==
    ASSUME NEW pc \in {"idle", "open"}
    PROVE  /\ NoBatch \in Batch /\ NoBatch.tried = {} /\ NoBatch.pending = {} /\ NoBatch.pc = "idle"
           /\ [NoBatch EXCEPT !.pc = pc] \in Batch
           /\ [NoBatch EXCEPT !.pc = pc].tried = {} /\ [NoBatch EXCEPT !.pc = pc].pending = {}
BY DEF NoBatch, Batch

LEMMA RecordsInit == InitRecords => RecordsInv
<1> SUFFICES ASSUME InitRecords PROVE RecordsInv
  OBVIOUS
<1>1. /\ golden = {} /\ batch = NoBatch /\ evals = {} /\ goldenAnswers = {} /\ confirmed = {}
      /\ feedback = [f \in FeedbackCases |-> "none"] /\ inbox \in [Notices -> {"none", "unread"}]
  BY DEF InitRecords
<1>2. RecordsOK
  BY <1>1, NoBatchIs DEF RecordsOK
<1>3. RecordsKept /\ confirmed \subseteq Confirmations
  BY <1>1 DEF RecordsKept
<1> QED
  BY <1>1, <1>2, <1>3, NoBatchIs DEF RecordsInv

(* The steps of a golden import touch neither what was confirmed nor the    *)
(* feedback cases.                                                          *)
LEMMA BatchStep ==
    ASSUME RecordsInv, batch' \in Batch, batch'.pending \subseteq batch'.tried,
           golden' \in SUBSET Cases, UNCHANGED <<evals, feedback, inbox, confirmed>>
    PROVE  RecordsInv'
BY DEF RecordsInv, RecordsOK, RecordsKept, Batch

LEMMA FreshBatch ==
    ASSUME RecordsInv, UNCHANGED <<golden, evals, feedback, inbox, goldenAnswers, confirmed>>,
           NEW pc \in {"idle", "open"}, batch' = [NoBatch EXCEPT !.pc = pc]
    PROVE  RecordsInv'
<1>1. golden' \in SUBSET Cases
  BY DEF RecordsInv, RecordsOK
<1> QED
  BY <1>1, NoBatchIs, BatchStep

LEMMA RestartKeepsRecords == RecordsInv /\ RestartRecords => RecordsInv'
<1>1. NoBatch = [NoBatch EXCEPT !.pc = "idle"]
  BY DEF NoBatch
<1> QED
  BY <1>1, FreshBatch DEF RestartRecords

LEMMA AddKeeps ==
    ASSUME RecordsInv, NEW c \in Cases, NEW ok \in BOOLEAN, AddCase(c, ok)
    PROVE  RecordsInv'
<1>1. /\ golden' \in SUBSET Cases /\ batch \in Batch /\ batch.pending \subseteq batch.tried
      /\ UNCHANGED <<evals, feedback, inbox, confirmed>>
  BY DEF AddCase, RecordsInv, RecordsOK
<1>2. PICK tried, pending, success :
          tried = batch.tried \cup {c} /\ pending = batch.pending \cup {c} /\ success = batch.success + 1
  OBVIOUS
<1>3. batch' = IF ok THEN [batch EXCEPT !.tried = tried, !.pending = pending, !.success = success]
                     ELSE [batch EXCEPT !.tried = tried, !.pending = {}]
  BY <1>1, <1>2 DEF AddCase, Batch
<1>4. /\ tried \in SUBSET Cases /\ pending \in SUBSET Cases /\ {} \in SUBSET Cases /\ success \in Nat
      /\ pending \subseteq tried
  BY <1>1, <1>2 DEF Batch
<1>5. batch' \in Batch /\ batch'.pending \subseteq batch'.tried
  BY <1>1, <1>3, <1>4 DEF Batch
<1> QED
  BY <1>1, <1>5, BatchStep

LEMMA GoldenKeeps == RecordsInv /\ CommitGolden => RecordsInv'
<1> SUFFICES ASSUME RecordsInv, CommitGolden PROVE RecordsInv'
  OBVIOUS
<1>1. /\ golden' = golden \cup batch.pending /\ batch' = NoBatch
      /\ UNCHANGED <<evals, feedback, inbox, confirmed>>
  BY DEF CommitGolden, StoreCases
<1>2. golden' \in SUBSET Cases
  BY <1>1 DEF RecordsInv, RecordsOK, Batch
<1> QED
  BY <1>1, <1>2, NoBatchIs, BatchStep

LEMMA EvalKeeps ==
    ASSUME RecordsInv, NEW S \in SUBSET Cases, EvalRun(S)
    PROVE  RecordsInv'
<1>1. PICK pass \in BOOLEAN : pass = OverallPass(S)
  BY DEF OverallPass
<1>2. PICK e : e = [cases |-> S, pass |-> pass]
  OBVIOUS
<1>3. e.cases \subseteq Cases /\ e.pass \in BOOLEAN
  BY <1>2
<1>4. evals' = evals \cup {e} /\ UNCHANGED <<golden, batch, feedback, inbox, goldenAnswers, confirmed>>
  BY <1>1, <1>2 DEF EvalRun
<1> QED
  BY <1>3, <1>4 DEF RecordsInv, RecordsOK, RecordsKept

(* A confirmed state of a feedback case is added to those confirmed, and     *)
(* replaces an earlier one only if it is "incorporated".                     *)
LEMMA FeedbackKeeps ==
    ASSUME RecordsInv, NEW f \in FeedbackCases, NEW st \in {"recorded", "incorporated"},
           st = "recorded" => feedback[f] = "none",
           feedback' = [feedback EXCEPT ![f] = st],
           confirmed' = confirmed \cup {<<f, st>>},
           UNCHANGED <<golden, batch, evals, inbox, goldenAnswers>>
    PROVE  RecordsInv'
<1>1. feedback \in [FeedbackCases -> {"none", "recorded", "incorporated"}]
  BY DEF RecordsInv, RecordsOK
<1>2. confirmed \subseteq Confirmations /\ \A a \in confirmed : feedback[a[1]] \in {a[2], "incorporated"}
  BY DEF RecordsInv, RecordsKept
<1>3. \A a \in confirmed' : feedback'[a[1]] \in {a[2], "incorporated"}
  <2> SUFFICES ASSUME NEW a \in confirmed' PROVE feedback'[a[1]] \in {a[2], "incorporated"}
    OBVIOUS
  <2>1. CASE a \in confirmed
    <3>1. a[1] \in FeedbackCases /\ a[2] # "none"
      BY <1>2, <2>1 DEF Confirmations
    <3> QED
      BY <1>1, <1>2, <2>1, <3>1
  <2>2. CASE a = <<f, st>>
    BY <1>1, <2>2
  <2> QED
    BY <2>1, <2>2
<1>4. confirmed' \subseteq Confirmations
  BY <1>2 DEF Confirmations
<1>5. RecordsOK'
  BY <1>1 DEF RecordsInv, RecordsOK
<1> QED
  BY <1>3, <1>4, <1>5 DEF RecordsInv, RecordsKept

LEMMA ReadingKeeps ==
    ASSUME RecordsInv, NEW N \in SUBSET Notices, MarkRead(N)
    PROVE  RecordsInv'
<1>1. inbox' \in [Notices -> {"none", "unread", "read"}]
  BY DEF MarkRead, Flushed, RecordsInv, RecordsOK
<1> QED
  BY <1>1 DEF MarkRead, RecordsInv, RecordsOK, RecordsKept

LEMMA RecordsKeeps == RecordsInv /\ RecordsMove => RecordsInv'
<1> SUFFICES ASSUME RecordsInv, RecordsMove PROVE RecordsInv'
  OBVIOUS
<1>1. CASE StartGolden
  BY <1>1, FreshBatch DEF StartGolden
<1>2. CASE \E c \in Cases : DeleteCase(c)
  BY <1>2 DEF DeleteCase, RecordsInv, RecordsOK, RecordsKept
<1>3. CASE \E f \in FeedbackCases, exists \in BOOLEAN : Record(f, exists)
  BY <1>3, FeedbackKeeps DEF Record, Committed
<1>4. CASE \E f \in FeedbackCases : MarkIncorporated(f)
  BY <1>4, FeedbackKeeps DEF MarkIncorporated, Committed
<1>5. CASE UNCHANGED records
  BY <1>5 DEF records, RecordsInv, RecordsOK, RecordsKept
<1> QED
  BY <1>1, <1>2, <1>3, <1>4, <1>5, RestartKeepsRecords, AddKeeps, GoldenKeeps, EvalKeeps, ReadingKeeps
     DEF RecordsMove

(* --- what a passed evaluation means --------------------------------------- *)

LEMMA CaseIs ==
    ASSUME NEW c \in Cases
    PROVE  /\ CaseOf[c].sections \in 0..7 /\ CaseOf[c]["sections"] = CaseOf[c].sections
<1>1. CaseOf[c] \in GoldenCase
  BY RecordsAssumption
<1> QED
  BY <1>1 DEF GoldenCase

(* As many sections as seven for each case: every case has them all.         *)
LEMMA NoSectionMissing ==
    ASSUME NEW S \in SUBSET Cases, AtLeast(S, 7, "sections")
    PROVE  \A c \in S : CaseOf[c].sections = 7
<1> PICK All, P : All = S \X (1..7) /\ P = Points(S, "sections")
  OBVIOUS
<1>1. /\ IsFiniteSet(S) /\ Cardinality(S) \in Nat /\ IsFiniteSet(1..7) /\ Cardinality(1..7) = 7
  <2>1. IsFiniteSet(1..7) /\ Cardinality(1..7) = IF 1 > 7 THEN 0 ELSE 7 - 1 + 1
    <3>1. 1 \in Int /\ 7 \in Int
      OBVIOUS
    <3> QED
      BY <3>1, FS_Interval
  <2> QED
    BY <2>1, Finite
<1>2. IsFiniteSet(All) /\ Cardinality(All) = Cardinality(S) * 7
  BY <1>1, FS_Product
<1>3. P \subseteq All
  <2>1. ASSUME NEW p \in P PROVE p \in All
    <3>1. PICK c \in S : p \in {c} \X (1..CaseOf[c].sections)
      BY <2>1, CaseIs DEF Points
    <3>2. 1..CaseOf[c].sections \subseteq 1..7
      BY <3>1, CaseIs
    <3> QED
      BY <3>1, <3>2
  <2> QED
    BY <2>1
<1>4. Cardinality(P) >= 7 * Cardinality(S)
  BY DEF AtLeast, Total
<1>5. P = All
  <2>1. IsFiniteSet(P) /\ Cardinality(P) \in Nat /\ Cardinality(P) <= Cardinality(All)
    BY <1>2, <1>3, FS_Subset, FS_CardinalityType
  <2>2. Cardinality(P) = Cardinality(All)
    BY <1>1, <1>2, <1>4, <2>1
  <2> QED
    BY <1>2, <1>3, <2>2, FS_Subset
<1>6. ASSUME NEW c \in S PROVE CaseOf[c].sections = 7
  <2>1. <<c, 7>> \in P
    BY <1>5
  <2>2. PICK d \in S : <<c, 7>> \in {d} \X (1..CaseOf[d].sections)
    BY <2>1, CaseIs DEF Points
  <2> QED
    BY <2>2, CaseIs
<1> QED
  BY <1>6

(* If the labels agree by chance alone, every pair of cases agrees: each    *)
(* case with itself, too.                                                   *)
LEMMA KappaMeans ==
    ASSUME NEW S \in SUBSET Cases, S # {}, Kappa(S), Cardinality(S) < 10
    PROVE  \A c \in S : CaseOf[c].actual = CaseOf[c].expected
<1> PICK n, g, m : n = Cardinality(S) /\ g = Agreeing(S) /\ m = Cardinality(g)
  OBVIOUS
<1> PICK P : P = {p \in S \X S : CaseOf[p[1]].actual = CaseOf[p[2]].expected}
  OBVIOUS
<1>1. IsFiniteSet(S) /\ n \in Nat /\ n > 0 /\ n < 10
  BY Finite, FS_EmptySet
<1>2. /\ IsFiniteSet(S \X S) /\ Cardinality(S \X S) = n * n
      /\ P \subseteq S \X S /\ Chance(S) = Cardinality(P)
  BY <1>1, FS_Product DEF Chance
<1>3. Chance(S) \in Nat /\ (Chance(S) = n * n => P = S \X S)
  BY <1>2, FS_Subset, FS_CardinalityType
<1>4. CASE Chance(S) = n * n
  <2> SUFFICES ASSUME NEW c \in S PROVE CaseOf[c].actual = CaseOf[c].expected
    OBVIOUS
  <2>1. <<c, c>> \in P
    BY <1>3, <1>4
  <2> QED
    BY <2>1
<1>5. CASE 10 * (m * n - Chance(S)) >= 9 * (n * n - Chance(S))
  <2>1. g \subseteq S /\ m \in Nat
    BY Finite DEF Agreeing
  <2>2. ASSUME m <= n - 1 PROVE FALSE
    <3>1. m * n <= (n - 1) * n
      BY <1>1, <2>1, <2>2, Z3
    <3>2. (n - 1) * n = n * n - n
      BY <1>1, Z3
    <3>3. m * n \in Int /\ n * n \in Int
      BY <1>1, <2>1, Z3
    <3>4. 9 * (n * n) <= 10 * (n * n - n)
      BY <1>1, <1>3, <1>5, <3>1, <3>2, <3>3
    <3>5. n * n >= 10 * n
      BY <1>1, <3>3, <3>4
    <3> QED
      BY <1>1, <3>5, Z3
  <2>3. m <= n /\ (m = n => g = S)
    BY <1>1, <2>1, FS_Subset
  <2>4. g = S
    BY <1>1, <2>1, <2>2, <2>3
  <2> QED
    BY <2>4 DEF Agreeing
<1> QED
  BY <1>4, <1>5 DEF Kappa

LEMMA PassMeans ==
    ASSUME NEW S \in SUBSET Cases, S # {}, OverallPass(S), Cardinality(S) < 10
    PROVE  \A c \in S : CaseOf[c].actual = CaseOf[c].expected /\ CaseOf[c].sections = 7
<1>1. AtLeast(S, 7, "sections") /\ Kappa(S)
  BY DEF OverallPass
<1> QED
  BY <1>1, NoSectionMissing, KappaMeans

LEMMA PassKeeps == PassMeansAgreement /\ RecordsMove => PassMeansAgreement'
<1> SUFFICES ASSUME PassMeansAgreement, RecordsMove PROVE PassMeansAgreement'
  OBVIOUS
<1>1. ASSUME NEW S \in SUBSET Cases, EvalRun(S) PROVE PassMeansAgreement'
  <2>1. PICK e : e = [cases |-> S, pass |-> OverallPass(S)]
    OBVIOUS
  <2>2. evals' = evals \cup {e} /\ S # {}
    BY <1>1, <2>1 DEF EvalRun
  <2>3. e.pass /\ Cardinality(e.cases) < 10 =>
            \A c \in e.cases : CaseOf[c].actual = CaseOf[c].expected /\ CaseOf[c].sections = 7
    BY <2>1, <2>2, PassMeans
  <2> QED
    BY <2>2, <2>3 DEF PassMeansAgreement
<1>2. CASE evals' = evals
  BY <1>2 DEF PassMeansAgreement
<1>3. (\E S \in SUBSET Cases : EvalRun(S)) \/ evals' = evals
  BY DEF RecordsMove, StartGolden, CommitGolden, RestartRecords, DeleteCase, AddCase,
         MarkIncorporated, Record, MarkRead, records
<1> QED
  BY <1>1, <1>2, <1>3

=============================================================================
