------------------------ MODULE ReviewWorkflowProofs ------------------------
(***************************************************************************)
(* Theorems about ReviewWorkflow for every max_iteration, every step limit *)
(* and both ways LangGraph may treat a router's writes.                    *)
(***************************************************************************)
EXTENDS ReviewWorkflow, TLAPS

USE DEF Reviewers, Agents, Nodes, Ends, NodeStatus, Risks, TaskStatus

-----------------------------------------------------------------------------
(* Types.  Rounds stay bounded because a retry costs a step.               *)

TypeInv == TypeOK /\ round <= steps + 1

LEMMA InitType == Init => TypeInv
BY WorkflowAssumption DEF Init, TypeInv, TypeOK, ReviewState, ReviewTask, NoOutput

LEMMA TypeFacts ==
    ASSUME TypeInv
    PROVE  /\ round \in Nat /\ steps \in Nat /\ round >= 1
           /\ state \in ReviewState /\ state.output \in [Agents -> AgentOutput \cup {NoOutput}]
           /\ state.iteration \in Nat
           /\ results \in [Agents -> AgentOutput \cup {NoOutput}]
           /\ task \in ReviewTask
BY WorkflowAssumption DEF TypeInv, TypeOK, ReviewState

LEMMA AdvanceType ==
    ASSUME TypeInv, NEW n \in Nodes \cup Ends, Advance(n)
    PROVE  /\ steps' \in 0..RecursionLimit /\ steps' = steps + 1
           /\ next' = n /\ next' \in Nodes \cup Ends
BY WorkflowAssumption DEF TypeInv, TypeOK, Advance

LEMMA WriteType ==
    ASSUME NEW s \in TaskStatus, NEW n \in Nodes \cup {"error"}, Write(s, n)
    PROVE  task' \in ReviewTask
BY DEF Write, ReviewTask

(* What an agent reports in this round.                                    *)
LEMMA OutputInRound ==
    ASSUME TypeInv, NEW s \in NodeStatus, NEW r \in Risks
    PROVE  [status |-> s, risks |-> r, round |-> round] \in AgentOutput
BY TypeFacts DEF AgentOutput

LEMMA AnswerType ==
    ASSUME TypeInv, NEW a \in Agents, NEW s \in NodeStatus,
           NEW status \in TaskStatus, NEW n \in Nodes, Answer(a, s, status, n)
    PROVE  /\ results' \in [Agents -> AgentOutput \cup {NoOutput}]
           /\ task' \in ReviewTask
<1>1. [status |-> s, risks |-> "none", round |-> round] \in AgentOutput
  BY OutputInRound
<1>2. results' \in [Agents -> AgentOutput \cup {NoOutput}]
  BY <1>1, TypeFacts DEF Answer
<1>3. task' \in ReviewTask
  BY WriteType DEF Answer
<1> QED
  BY <1>2, <1>3

LEMMA OutputType ==
    ASSUME TypeInv, NEW a \in Agents, NEW s \in NodeStatus, NEW r \in Risks, Output(a, s, r)
    PROVE  /\ state' \in ReviewState
           /\ state'.iteration = state.iteration
           /\ state'.document = state.document /\ state'.normative = state.normative
           /\ state'.output = [state.output EXCEPT
                                  ![a] = [status |-> s, risks |-> r, round |-> round]]
<1> DEFINE out == [status |-> s, risks |-> r, round |-> round]
<1>1. out \in AgentOutput
  BY OutputInRound
<1>2. state' = [state EXCEPT !.output = [state.output EXCEPT ![a] = out]]
  BY DEF Output
<1>3. [state.output EXCEPT ![a] = out] \in [Agents -> AgentOutput \cup {NoOutput}]
  BY <1>1, TypeFacts
<1> HIDE DEF out
<1>4. QED
  BY <1>2, <1>3, TypeFacts DEF ReviewState, out

(* What evidence_verify and its router do, with outcome s.                 *)
LEMMA VerifiedType ==
    ASSUME TypeInv, NEW s \in NodeStatus, Verified(s)
    PROVE  /\ state' \in ReviewState /\ state'.iteration <= MaxIteration
           /\ state'.document = state.document /\ state'.normative = state.normative
           /\ state'.output = [state.output EXCEPT
                  !["evidence_verify"] = [status |-> s, risks |-> "none", round |-> round]]
           /\ \/ /\ s = "pass" /\ next' = "report_generation" /\ round' = round
              \/ /\ s = "retry" /\ next' = "legal_retrieve" /\ round' = round + 1
              \/ /\ s = "retry" /\ next' = "human_fallback" /\ round' = round
           /\ steps' \in 0..RecursionLimit /\ steps' = steps + 1
           /\ shared' = shared
<1> DEFINE o == [status |-> s, risks |-> "none", round |-> round]
           out == [state EXCEPT !.output["evidence_verify"] = o]
<1>1. o \in AgentOutput
  BY OutputInRound
<1>2. /\ out \in ReviewState
      /\ out.iteration = state.iteration
      /\ out.document = state.document /\ out.normative = state.normative
      /\ out.output = [state.output EXCEPT !["evidence_verify"] = o]
      /\ out.output["evidence_verify"].status = s
  <2>1. out = [state EXCEPT !.output = [state.output EXCEPT !["evidence_verify"] = o]]
    OBVIOUS
  <2>2. [state.output EXCEPT !["evidence_verify"] = o] \in [Agents -> AgentOutput \cup {NoOutput}]
    BY <1>1, TypeFacts
  <2>3. [state.output EXCEPT !["evidence_verify"] = o]["evidence_verify"] = o
    BY TypeFacts
  <2> HIDE DEF o
  <2>4. /\ out \in ReviewState
        /\ out.iteration = state.iteration
        /\ out.document = state.document /\ out.normative = state.normative
        /\ out.output = [state.output EXCEPT !["evidence_verify"] = o]
    BY <2>1, <2>2, TypeFacts DEF ReviewState
  <2> QED
    BY <2>3, <2>4 DEF o
<1>3. state.iteration <= MaxIteration /\ MaxIteration \in Nat
  BY WorkflowAssumption DEF TypeInv, TypeOK
<1> DEFINE n == EvidenceRouter(out)
           retry == n \notin {"report_generation", "human_fallback"}
<1>4. /\ state' = IF retry /\ shared THEN [out EXCEPT !.iteration = @ + 1] ELSE out
      /\ round' = IF retry THEN round + 1 ELSE round
      /\ Advance(n)
      /\ shared' = shared
  BY DEF Verified
<1> HIDE DEF out
<1>5. \/ s = "pass" /\ n = "report_generation"
      \/ s = "retry" /\ n = "legal_retrieve" /\ state.iteration < MaxIteration
      \/ s = "retry" /\ n = "human_fallback"
  BY <1>2 DEF EvidenceRouter
<1>6. /\ steps' \in 0..RecursionLimit /\ steps' = steps + 1 /\ next' = n
  BY <1>4, <1>5, AdvanceType
<1>7. /\ state' \in ReviewState /\ state'.iteration <= MaxIteration
      /\ state'.document = state.document /\ state'.normative = state.normative
      /\ state'.output = out.output
  <2>1. CASE retry /\ shared
    <3>1. state' = [out EXCEPT !.iteration = out.iteration + 1]
      BY <2>1, <1>4
    <3>2. state.iteration < MaxIteration
      BY <2>1, <1>5
    <3>3. out.iteration + 1 \in Nat /\ out.iteration + 1 <= MaxIteration
      BY <3>2, <1>2, <1>3, TypeFacts
    <3> QED
      BY <3>1, <3>3, <1>2 DEF ReviewState
  <2>2. CASE ~(retry /\ shared)
    BY <2>2, <1>2, <1>3, <1>4
  <2> QED
    BY <2>1, <2>2
<1> QED
  BY <1>2, <1>4, <1>5, <1>6, <1>7

-----------------------------------------------------------------------------
LEMMA StepType == TypeInv /\ [Next]_vars => TypeInv'
<1> SUFFICES ASSUME TypeInv, [Next]_vars PROVE TypeInv'
  OBVIOUS
<1> USE DEF TypeInv, TypeOK
<1>0. /\ RecursionLimit \in Nat /\ MaxIteration \in Nat
      /\ state.iteration <= MaxIteration /\ shared \in Sharing
      /\ round \in Nat /\ steps \in Nat /\ round >= 1 /\ round <= steps + 1
  BY WorkflowAssumption
<1>a. ASSUME steps' \in 0..RecursionLimit, steps' = steps + 1, round' = round
      PROVE  round' \in 1..(RecursionLimit + 1) /\ round' <= steps' + 1
  BY <1>a, <1>0
<1>1. CASE DocParse
  <2>1. /\ next' \in Nodes \cup Ends /\ steps' \in 0..RecursionLimit /\ steps' = steps + 1
    BY <1>1, AdvanceType DEF DocParse
  <2>2. task' \in ReviewTask
    BY <1>1, WriteType DEF DocParse
  <2>3. state' \in ReviewState /\ state'.iteration = state.iteration
    BY <1>1, TypeFacts DEF DocParse, ReviewState
  <2> QED
    BY <1>1, <1>0, <1>a, <2>1, <2>2, <2>3 DEF DocParse
<1>2. CASE DocClassify
  <2>1. /\ next' \in Nodes \cup Ends /\ steps' \in 0..RecursionLimit /\ steps' = steps + 1
    <3>1. ClassifyRouter(state') \in Nodes
      BY DEF ClassifyRouter
    <3> QED
      BY <1>2, <3>1, AdvanceType DEF DocClassify
  <2>2. /\ task' \in ReviewTask /\ results' \in [Agents -> AgentOutput \cup {NoOutput}]
        /\ state' \in ReviewState /\ state'.iteration = state.iteration
    <3>1. CASE NoAnswer /\ Output("doc_classify", "retry", "none")
      BY <3>1, OutputType, TypeFacts DEF NoAnswer
    <3>2. ASSUME NEW s \in NodeStatus, NEW normative \in BOOLEAN,
                 Answer("doc_classify", s, "classifying", "legal_retrieve"),
                 state' = [state EXCEPT !.normative = normative,
                             !.output["doc_classify"] = [status |-> s, risks |-> "none",
                                                         round |-> round]]
          PROVE  /\ task' \in ReviewTask /\ results' \in [Agents -> AgentOutput \cup {NoOutput}]
                 /\ state' \in ReviewState /\ state'.iteration = state.iteration
      <4> DEFINE o == [status |-> s, risks |-> "none", round |-> round]
      <4>1. o \in AgentOutput
        BY OutputInRound
      <4>2. [state.output EXCEPT !["doc_classify"] = o] \in [Agents -> AgentOutput \cup {NoOutput}]
        BY <4>1, TypeFacts
      <4>3. state' = [state EXCEPT !.normative = normative,
                                   !.output = [state.output EXCEPT !["doc_classify"] = o]]
        BY <3>2
      <4> HIDE DEF o
      <4>4. state' \in ReviewState /\ state'.iteration = state.iteration
        BY <4>2, <4>3, TypeFacts DEF ReviewState
      <4> QED
        BY <4>4, <3>2, AnswerType
    <3> QED
      BY <1>2, <3>1, <3>2 DEF DocClassify
  <2> QED
    BY <1>2, <1>0, <1>a, <2>1, <2>2 DEF DocClassify
<1>3. CASE LegalRetrieve
  <2>1. /\ next' \in Nodes \cup Ends /\ steps' \in 0..RecursionLimit /\ steps' = steps + 1
    BY <1>3, AdvanceType DEF LegalRetrieve
  <2>2. task' \in ReviewTask
    BY <1>3, WriteType, TypeFacts DEF LegalRetrieve
  <2> QED
    BY <1>3, <1>0, <1>a, <2>1, <2>2 DEF LegalRetrieve
<1>4. ASSUME NEW a \in Reviewers, Review(a)
      PROVE  TypeInv'
  <2>1. After[a] \in Nodes /\ AuthorityRouter(state') \in Nodes
    BY DEF After, AuthorityRouter
  <2>2. /\ next' \in Nodes \cup Ends /\ steps' \in 0..RecursionLimit /\ steps' = steps + 1
    BY <1>4, <2>1, AdvanceType DEF Review
  <2>3. /\ task' \in ReviewTask /\ results' \in [Agents -> AgentOutput \cup {NoOutput}]
        /\ state' \in ReviewState /\ state'.iteration = state.iteration
    <3>1. CASE NoAnswer /\ Output(a, "retry", "none")
      BY <3>1, OutputType, TypeFacts DEF NoAnswer
    <3>2. ASSUME NEW s \in NodeStatus, NEW r \in RisksOf(a),
                 Answer(a, s, "reviewing", After[a]), Output(a, s, r)
          PROVE  /\ task' \in ReviewTask /\ results' \in [Agents -> AgentOutput \cup {NoOutput}]
                 /\ state' \in ReviewState /\ state'.iteration = state.iteration
      <4>1. r \in Risks
        BY DEF RisksOf
      <4>2. task' \in ReviewTask /\ results' \in [Agents -> AgentOutput \cup {NoOutput}]
        BY <3>2, <2>1, AnswerType
      <4>3. state' \in ReviewState /\ state'.iteration = state.iteration
        BY <3>2, <4>1, OutputType
      <4> QED
        BY <4>2, <4>3
    <3> QED
      BY <1>4, <3>1, <3>2 DEF Review
  <2> QED
    BY <1>4, <1>0, <1>a, <2>2, <2>3 DEF Review
<1>5. CASE EvidenceVerify
  <2>1. PICK s \in NodeStatus : Verified(s)
    BY <1>5 DEF EvidenceVerify
  <2>2. task' \in ReviewTask /\ results' \in [Agents -> AgentOutput \cup {NoOutput}]
    BY <1>5, AnswerType, TypeFacts DEF EvidenceVerify, NoAnswer
  <2>3. /\ state' \in ReviewState /\ state'.iteration <= MaxIteration
        /\ next' \in Nodes \cup Ends
        /\ round' \in {round, round + 1}
        /\ steps' \in 0..RecursionLimit /\ steps' = steps + 1
        /\ shared' = shared
    BY <2>1, VerifiedType
  <2>4. round' \in 1..(RecursionLimit + 1) /\ round' <= steps' + 1
    BY <1>0, <2>3
  <2> QED
    BY <1>0, <2>2, <2>3, <2>4
<1>6. CASE ReportGeneration
  <2>1. /\ next' \in Nodes \cup Ends /\ steps' \in 0..RecursionLimit /\ steps' = steps + 1
    BY <1>6, AdvanceType DEF ReportGeneration
  <2>2. /\ task' \in ReviewTask /\ results' \in [Agents -> AgentOutput \cup {NoOutput}]
        /\ state' \in ReviewState /\ state'.iteration = state.iteration
    BY <1>6, AnswerType, OutputType, TypeFacts DEF ReportGeneration, NoAnswer
  <2> QED
    BY <1>6, <1>0, <1>a, <2>1, <2>2 DEF ReportGeneration
<1>7. CASE HumanFallback \/ HumanReview
  <2>1. /\ next' \in Nodes \cup Ends /\ steps' \in 0..RecursionLimit /\ steps' = steps + 1
    BY <1>7, AdvanceType DEF HumanFallback, HumanReview
  <2>2. task' \in ReviewTask
    BY <1>7, WriteType DEF HumanFallback, HumanReview
  <2> QED
    BY <1>7, <1>0, <1>a, <2>1, <2>2 DEF HumanFallback, HumanReview
<1>8. CASE OutOfSteps
  BY <1>8, <1>0, WriteType DEF OutOfSteps
<1>9. CASE Raise
  <2>1. results' \in [Agents -> AgentOutput \cup {NoOutput}]
    BY <1>9, OutputInRound, TypeFacts DEF Raise
  <2>2. task' \in ReviewTask
    BY <1>9, WriteType DEF Raise
  <2> QED
    BY <1>9, <1>0, <2>1, <2>2 DEF Raise
<1>10. CASE Crash
  BY <1>10, <1>0 DEF Crash
<1>11. CASE UNCHANGED vars
  BY <1>11 DEF vars
<1> QED
  BY <1>1, <1>2, <1>3, <1>4, <1>5, <1>6, <1>7, <1>8, <1>9, <1>10, <1>11 DEF Next, Node

(* Every reachable state is well typed: rounds and steps stay within the   *)
(* step limit, the retry counter within max_iteration.                     *)
THEOREM TypeCorrect == Spec => []TypeOK
<1>1. TypeInv => TypeOK
  BY DEF TypeInv
<1> QED
  BY InitType, StepType, <1>1, PTL DEF Spec

-----------------------------------------------------------------------------
(* The row tells how the run went.  The invariant is inductive as it       *)
(* stands: no step leaves an end, and before human_review only             *)
(* human_fallback writes its status.                                       *)

LEMMA AnswerRow ==
    ASSUME NEW a, NEW s, NEW status, NEW n, Answer(a, s, status, n)
    PROVE  task' = [status |-> status, node |-> n]
BY DEF Answer, Write

LEMMA InitOutcome == Init => RowTellsOutcome
BY DEF Init, RowTellsOutcome

LEMMA StepOutcome == TypeInv /\ RowTellsOutcome /\ [Next]_vars => RowTellsOutcome'
<1> SUFFICES ASSUME TypeInv, RowTellsOutcome, [Next]_vars PROVE RowTellsOutcome'
  OBVIOUS
<1> USE DEF RowTellsOutcome, Write, Advance
<1>1. CASE DocParse
  BY <1>1 DEF DocParse
<1>2. CASE DocClassify
  <2>1. next' \in {"legal_retrieve", "report_generation"} /\ next = "doc_classify"
    BY <1>2 DEF DocClassify, ClassifyRouter
  <2>2. CASE task' = task
    BY <2>1, <2>2
  <2>3. ASSUME NEW s \in NodeStatus, Answer("doc_classify", s, "classifying", "legal_retrieve")
        PROVE  RowTellsOutcome'
    BY <2>1, <2>3, AnswerRow
  <2> QED
    BY <1>2, <2>2, <2>3 DEF DocClassify, NoAnswer
<1>3. CASE LegalRetrieve
  BY <1>3 DEF LegalRetrieve
<1>4. ASSUME NEW a \in Reviewers, Review(a)
      PROVE  RowTellsOutcome'
  <2>1. /\ next = a
        /\ next' \in {"procedure_review", "content_review", "risk_assessment",
                      "evidence_verify", "report_generation"}
    BY <1>4 DEF Review, After, AuthorityRouter
  <2>2. task' = task \/ task'.status = "reviewing"
    BY <1>4, AnswerRow DEF Review, NoAnswer
  <2> QED
    BY <2>1, <2>2
<1>5. CASE EvidenceVerify
  <2>1. /\ next = "evidence_verify"
        /\ next' \in {"report_generation", "legal_retrieve", "human_fallback"}
    BY <1>5, VerifiedType DEF EvidenceVerify
  <2>2. task' = task \/ task'.status = "verifying"
    BY <1>5, AnswerRow DEF EvidenceVerify, NoAnswer
  <2> QED
    BY <2>1, <2>2
<1>6. CASE ReportGeneration
  BY <1>6, AnswerRow DEF ReportGeneration, NoAnswer
<1>7. CASE HumanFallback \/ HumanReview
  BY <1>7 DEF HumanFallback, HumanReview
<1>8. CASE OutOfSteps \/ Raise
  BY <1>8 DEF OutOfSteps, Raise
<1>9. CASE Crash
  BY <1>9 DEF Crash
<1>10. CASE UNCHANGED vars
  BY <1>10 DEF vars
<1> QED
  BY <1>1, <1>2, <1>3, <1>4, <1>5, <1>6, <1>7, <1>8, <1>9, <1>10 DEF Next, Node

(* The status a client polls is human_review when the graph has reached    *)
(* its end and only on its last steps, and failed when an exception or the *)
(* step limit ended the run.                                               *)
THEOREM OutcomeInRow == Spec => []RowTellsOutcome
BY InitType, StepType, InitOutcome, StepOutcome, PTL DEF Spec

-----------------------------------------------------------------------------
(* Reports.  Where the graph stands tells which reviewers have been asked  *)
(* in this round, and there is no report before report_generation.         *)

Asked(n) ==
    CASE n = "procedure_review" -> {"authority_review"}
      [] n = "content_review"   -> {"authority_review", "procedure_review"}
      [] n = "risk_assessment"  -> {"authority_review", "procedure_review", "content_review"}
      [] n = "evidence_verify"  -> Reviewers
      [] OTHER                  -> {}

NoReport == results["report_generation"] = NoOutput

PathInv ==
    /\ next \in Nodes \ {"report_generation", "human_review"} => NoReport
    /\ \A a \in Asked(next) : state.output[a].round = round
    /\ ReportIsJustified

USE DEF NoReport

LEMMA InitPath == Init => PathInv
BY DEF Init, PathInv, Asked, ReportIsJustified

(* A step to an end, or the last one before it, changes no round and no    *)
(* output and writes no report unless report_generation does.              *)
LEMMA SettledPath ==
    ASSUME PathInv, next \in Nodes, next' \in Ends \cup {"human_review"},
           state'.normative = state.normative, round' = round,
           \A a \in Reviewers \cup {"evidence_verify"} : state'.output[a] = state.output[a],
           next = "report_generation" \/ NoReport' \/ (next = "human_review" /\ results' = results)
    PROVE  PathInv'
<1>1. Asked(next') = {}
  BY DEF Asked
<1>2. CASE next = "report_generation" \/ ~NoReport
  BY <1>1, <1>2 DEF PathInv, ReportIsJustified, Reviewed
<1>3. CASE next # "report_generation" /\ NoReport
  <2>1. NoReport'
    BY <1>3
  <2> QED
    BY <2>1, <1>1 DEF PathInv, ReportIsJustified
<1> QED
  BY <1>2, <1>3

(* A step between two nodes before the report.                             *)
LEMMA EarlyPath ==
    ASSUME next' \in Nodes \ {"report_generation", "human_review"}, NoReport',
           \A a \in Asked(next') : state'.output[a].round = round'
    PROVE  PathInv'
BY DEF PathInv, ReportIsJustified

(* An answer of another agent is no report.                                *)
LEMMA AnswerNoReport ==
    ASSUME TypeInv, NEW a \in Agents \ {"report_generation"}, NoReport,
           NEW s, NEW status, NEW n,
           Answer(a, s, status, n) \/ NoAnswer
    PROVE  NoReport'
BY TypeFacts DEF Answer, NoAnswer

LEMMA StepPath == TypeInv /\ PathInv /\ [Next]_vars => PathInv'
<1> SUFFICES ASSUME TypeInv, PathInv, [Next]_vars PROVE PathInv'
  OBVIOUS
<1>1. CASE DocParse
  <2>1. NoReport' /\ next' = "doc_classify" /\ Asked(next') = {}
    BY <1>1 DEF DocParse, Advance, PathInv, Asked
  <2> QED
    BY <2>1, EarlyPath
<1>2. CASE DocClassify
  <2>1. next = "doc_classify" /\ NoReport /\ next' = ClassifyRouter(state')
    BY <1>2 DEF DocClassify, Advance, PathInv
  <2>2. NoReport'
    BY <1>2, <2>1, AnswerNoReport DEF DocClassify
  <2>3. CASE state'.normative
    BY <2>1, <2>2, <2>3, EarlyPath DEF ClassifyRouter, Asked
  <2>4. CASE ~state'.normative
    BY <2>1, <2>2, <2>4 DEF ClassifyRouter, Asked, PathInv, ReportIsJustified
  <2> QED
    BY <2>3, <2>4
<1>3. CASE LegalRetrieve
  <2>1. NoReport' /\ next' = "authority_review" /\ Asked(next') = {}
    BY <1>3 DEF LegalRetrieve, Advance, PathInv, Asked
  <2> QED
    BY <2>1, EarlyPath
<1>4. ASSUME NEW a \in Reviewers, Review(a)
      PROVE  PathInv'
  <2>1. /\ next = a /\ NoReport /\ round' = round
        /\ \A b \in Asked(a) : state.output[b].round = round
    BY <1>4 DEF Review, PathInv
  <2>2. NoReport'
    BY <1>4, <2>1, AnswerNoReport DEF Review
  <2>3. PICK s \in NodeStatus, r \in Risks : Output(a, s, r)
    <3>1. RisksOf(a) \subseteq Risks /\ "retry" \in NodeStatus /\ "none" \in Risks
      BY DEF RisksOf
    <3>2. \/ \E s \in NodeStatus, r \in RisksOf(a) : Output(a, s, r)
          \/ Output(a, "retry", "none")
      BY <1>4 DEF Review
    <3> QED
      BY <3>1, <3>2
  <2>4. state'.output = [state.output EXCEPT ![a] = [status |-> s, risks |-> r, round |-> round]]
    <3>1. /\ state' = [state EXCEPT !.output = [state.output EXCEPT ![a] =
                            [status |-> s, risks |-> r, round |-> round]]]
          /\ state \in ReviewState
      BY <2>3, TypeFacts DEF Output
    <3> QED
      BY <3>1 DEF ReviewState
  <2>5. /\ state'.output[a] = [status |-> s, risks |-> r, round |-> round]
        /\ \A b \in Asked(a) \cup {a} : state'.output[b].round = round
    BY <2>1, <2>4, TypeFacts DEF Asked
  <2>6. next' = IF a = "authority_review" THEN AuthorityRouter(state') ELSE After[a]
    BY <1>4 DEF Review, Advance
  <2>7. CASE next' # "report_generation"
    <3>1. /\ next' \in Nodes \ {"report_generation", "human_review"}
          /\ Asked(next') = Asked(a) \cup {a}
      BY <2>6, <2>7 DEF After, AuthorityRouter, Asked
    <3> QED
      BY <3>1, <2>1, <2>2, <2>5, EarlyPath
  <2>8. CASE next' = "report_generation"
    <3>1. a = "authority_review" /\ s = "retry"
      BY <2>5, <2>6, <2>8 DEF After, AuthorityRouter
    <3> QED
      BY <3>1, <2>1, <2>5, <2>8 DEF PathInv, ReportIsJustified, Asked
  <2> QED
    BY <2>7, <2>8
<1>5. CASE EvidenceVerify
  <2>1. /\ next = "evidence_verify" /\ NoReport
        /\ \A a \in Reviewers : state.output[a].round = round
    BY <1>5 DEF EvidenceVerify, PathInv, Asked
  <2>2. NoReport'
    BY <1>5, <2>1, AnswerNoReport DEF EvidenceVerify
  <2>3. PICK s \in NodeStatus : Verified(s) /\ (s = "pass" => ~EvidenceMissing)
    BY <1>5 DEF EvidenceVerify
  <2>4. state'.output = [state.output EXCEPT
                !["evidence_verify"] = [status |-> s, risks |-> "none", round |-> round]]
    BY <2>3, VerifiedType
  <2>5. /\ state'.output["evidence_verify"] = [status |-> s, risks |-> "none", round |-> round]
        /\ \A a \in Reviewers : state'.output[a] = state.output[a]
    BY <2>4, TypeFacts
  <2>6. CASE next' = "report_generation"
    <3>1. s = "pass" /\ round' = round
      BY <2>3, <2>6, VerifiedType
    <3>2. \A a \in Reviewers : state'.output[a].round = round' /\ state'.output[a].risks # "unbacked"
      BY <3>1, <2>1, <2>3, <2>5 DEF EvidenceMissing
    <3> QED
      BY <3>1, <3>2, <2>5, <2>6 DEF PathInv, ReportIsJustified, Reviewed, Asked
  <2>7. CASE next' # "report_generation"
    <3>1. next' \in {"legal_retrieve", "human_fallback"}
      BY <2>3, <2>7, VerifiedType
    <3> QED
      BY <3>1, <2>2, EarlyPath DEF Asked
  <2> QED
    BY <2>6, <2>7
<1>6. CASE ReportGeneration
  <2>1. next = "report_generation" /\ next' = "human_review" /\ round' = round
    BY <1>6 DEF ReportGeneration, Advance
  <2>2. PICK s \in NodeStatus : Output("report_generation", s, "none")
    BY <1>6 DEF ReportGeneration
  <2>3. /\ state'.normative = state.normative
        /\ \A a \in Reviewers \cup {"evidence_verify"} : state'.output[a] = state.output[a]
    <3> DEFINE o == [status |-> s, risks |-> "none", round |-> round]
    <3>1. /\ state'.normative = state.normative
          /\ state'.output = [state.output EXCEPT !["report_generation"] = o]
      BY <2>2, OutputType, ZenonT(60)
    <3> HIDE DEF o
    <3> QED
      BY <3>1, TypeFacts
  <2> QED
    BY <2>1, <2>3, SettledPath
<1>7. CASE HumanFallback
  <2>1. /\ next = "human_fallback" /\ next' = "human_review" /\ NoReport'
        /\ state' = state /\ round' = round
    BY <1>7 DEF HumanFallback, Advance, PathInv
  <2> QED
    BY <2>1, SettledPath
<1>8. CASE HumanReview
  <2>1. /\ next = "human_review" /\ next' = "END" /\ results' = results
        /\ state' = state /\ round' = round
    BY <1>8 DEF HumanReview, Advance
  <2> QED
    BY <2>1, SettledPath
<1>9. CASE OutOfSteps \/ Crash
  <2>1. next = "report_generation" \/ NoReport \/ next = "human_review"
    BY <1>9 DEF OutOfSteps, Crash, PathInv
  <2> QED
    BY <1>9, <2>1, SettledPath DEF OutOfSteps, Crash
<1>10. CASE Raise
  <2>1. /\ next \in Nodes /\ next' = "failed" /\ state' = state /\ round' = round
    BY <1>10 DEF Raise
  <2>2. next = "report_generation" \/ NoReport' \/ (next = "human_review" /\ results' = results)
    <3>1. NoReport \/ next \in {"report_generation", "human_review"}
      BY <2>1 DEF PathInv
    <3>2. CASE results' = results
      BY <3>1, <3>2
    <3>3. ASSUME NEW s \in NodeStatus, next \in Agents,
                 results' = [results EXCEPT ![next] =
                                [status |-> s, risks |-> "none", round |-> round]]
          PROVE  next = "report_generation" \/ NoReport'
      BY <3>1, <3>3, TypeFacts
    <3> QED
      BY <1>10, <3>2, <3>3 DEF Raise
  <2> QED
    BY <2>1, <2>2, SettledPath
<1>11. CASE UNCHANGED vars
  BY <1>11 DEF vars, PathInv, ReportIsJustified, Reviewed
<1> QED
  BY <1>1, <1>2, <1>3, <1>4, <1>5, <1>6, <1>7, <1>8, <1>9, <1>10, <1>11 DEF Next, Node

(* A report is only written for a document that is no normative one, that  *)
(* lacks authority in this round, or whose four reviews of this round were *)
(* verified to have evidence for every risk.                               *)
THEOREM JustifiedReports == Spec => []ReportIsJustified
<1>1. PathInv => ReportIsJustified
  BY DEF PathInv
<1> QED
  BY InitType, StepType, InitPath, StepPath, <1>1, PTL DEF Spec
-----------------------------------------------------------------------------
(* What the row shows is never ahead of the node that runs next, but for   *)
(* the two nodes a retry starts over at.                                   *)
Ahead(n) ==
    IF n = "human_fallback" THEN 10
    ELSE IF round > 1 /\ n \in {"legal_retrieve", "authority_review"} THEN 9
    ELSE Progress(n)

AheadInv == next \in Nodes => Progress(task.node) <= Ahead(next)

(* The step that ProgressGoesBackOnRetry allows.                           *)
GoesOn ==
    Progress(task'.node) < Progress(task.node) =>
        \/ round > 1 /\ next \in {"legal_retrieve", "authority_review"}
        \/ task'.node \in {"error", "human_fallback"}

LEMMA ProgressOf ==
    /\ Progress("doc_parse") = 1 /\ Progress("doc_classify") = 2
    /\ Progress("legal_retrieve") = 3 /\ Progress("authority_review") = 4
    /\ Progress("procedure_review") = 5 /\ Progress("content_review") = 6
    /\ Progress("risk_assessment") = 7 /\ Progress("evidence_verify") = 8
    /\ Progress("report_generation") = 9 /\ Progress("human_review") = 10
    /\ Progress("human_fallback") = 0 /\ Progress("error") = 0
BY DEF Progress

LEMMA ProgressType == \A n \in Nodes \cup {"error"} : Progress(n) \in 0..10
BY ProgressOf DEF Nodes, Agents, Reviewers

LEMMA AheadType == \A n \in Nodes : Ahead(n) \in 0..10
BY ProgressType DEF Ahead

LEMMA InitAhead == Init => AheadInv
BY ProgressOf DEF Init, AheadInv, Ahead

LEMMA StepAhead == TypeInv /\ AheadInv /\ [Next]_vars => AheadInv' /\ GoesOn
<1> SUFFICES ASSUME TypeInv, AheadInv, [Next]_vars PROVE AheadInv' /\ GoesOn
  OBVIOUS
<1>0. /\ next \in Nodes => Progress(task.node) <= Ahead(next)
      /\ Progress(task.node) \in 0..10 /\ round >= 1 /\ round \in Nat
  BY ProgressType, TypeFacts DEF AheadInv, TypeInv, TypeOK, ReviewTask
<1>1. CASE DocParse
  <2>1. /\ next = "doc_parse" /\ next' = "doc_classify" /\ task'.node \in {"doc_parse", "doc_classify"}
    BY <1>1 DEF DocParse, Advance, Write
  <2> QED
    BY <1>0, <2>1, ProgressOf DEF AheadInv, GoesOn, Ahead, Nodes, Agents
<1>2. CASE DocClassify
  <2>1. /\ next = "doc_classify" /\ next' \in {"legal_retrieve", "report_generation"} /\ round' = round
        /\ task' = task \/ task'.node = "legal_retrieve"
    <3>1. \A s, n : Answer("doc_classify", s, "classifying", n) => task'.node = n
      BY AnswerRow
    <3>2. task' = task \/ task'.node = "legal_retrieve"
      BY <1>2, <3>1 DEF DocClassify, NoAnswer
    <3> QED
      BY <1>2, <3>2 DEF DocClassify, Advance, ClassifyRouter
  <2> QED
    BY <1>0, <2>1, ProgressOf DEF AheadInv, GoesOn, Ahead, Nodes, Agents
<1>3. CASE LegalRetrieve
  <2>1. /\ next = "legal_retrieve" /\ next' = "authority_review" /\ round' = round
        /\ task' = task \/ task'.node = "authority_review"
    BY <1>3 DEF LegalRetrieve, Advance, Write
  <2> QED
    BY <1>0, <2>1, ProgressOf DEF AheadInv, GoesOn, Ahead, Nodes, Agents, Reviewers
<1>4. ASSUME NEW a \in Reviewers, Review(a) PROVE AheadInv' /\ GoesOn
  <2>1. next = a /\ round' = round /\ (task' = task \/ task'.node = After[a])
    BY <1>4, AnswerRow DEF Review, NoAnswer
  <2>2. CASE a = "authority_review"
    <3>1. ASSUME NoAnswer, Output(a, "retry", "none") PROVE next' = "report_generation"
      <4>1. state'.output[a].status = "retry"
        BY <1>4, <3>1, TypeFacts DEF Output, ReviewState, Agents
      <4> QED
        BY <1>4, <2>2, <4>1 DEF Review, Advance, AuthorityRouter
    <3>2. next' \in {"procedure_review", "report_generation"}
      BY <1>4, <2>2 DEF Review, Advance, AuthorityRouter
    <3>3. task'.node = "procedure_review" \/ (task' = task /\ next' = "report_generation")
      BY <1>4, <2>2, <3>1, AnswerRow DEF Review, After, NoAnswer
    <3> QED
      BY <1>0, <2>1, <2>2, <3>2, <3>3, ProgressOf DEF AheadInv, GoesOn, Ahead, Nodes, Agents, Reviewers
  <2>3. CASE a # "authority_review"
    <3>1. /\ next' = After[a] /\ After[a] \in {"content_review", "risk_assessment", "evidence_verify"}
          /\ a \in {"procedure_review", "content_review", "risk_assessment"}
          /\ Progress(After[a]) = Progress(a) + 1
      BY <1>4, <2>3, ProgressOf DEF Review, Advance, After, Reviewers
    <3> QED
      BY <1>0, <2>1, <3>1, ProgressOf DEF AheadInv, GoesOn, Ahead, Nodes, Agents, Reviewers
  <2> QED
    BY <2>2, <2>3
<1>5. CASE EvidenceVerify
  <2>1. /\ next = "evidence_verify"
        /\ task' = task \/ task'.node = "report_generation"
    BY <1>5, AnswerRow DEF EvidenceVerify, NoAnswer
  <2>2. \/ next' \in {"report_generation", "human_fallback"}
        \/ next' = "legal_retrieve" /\ round' = round + 1
    BY <1>5 DEF EvidenceVerify, Verified, Advance, EvidenceRouter
  <2> QED
    BY <1>0, <2>1, <2>2, ProgressOf DEF AheadInv, GoesOn, Ahead, Nodes, Agents, Reviewers
<1>6. CASE ReportGeneration
  <2>1. /\ next = "report_generation" /\ next' = "human_review"
        /\ task' = task \/ task'.node = "human_review"
    BY <1>6, AnswerRow DEF ReportGeneration, NoAnswer, Advance
  <2> QED
    BY <1>0, <2>1, ProgressOf DEF AheadInv, GoesOn, Ahead, Nodes, Agents
<1>7. CASE HumanFallback
  <2>1. next' = "human_review" /\ task'.node = "human_fallback"
    BY <1>7 DEF HumanFallback, Advance, Write
  <2> QED
    BY <2>1, ProgressOf DEF AheadInv, GoesOn, Ahead
<1>8. CASE HumanReview
  <2>1. next' = "END" /\ task'.node = "human_review"
    BY <1>8 DEF HumanReview, Advance, Write
  <2> QED
    BY <1>0, <2>1, ProgressOf DEF AheadInv, GoesOn, Nodes, Agents, Reviewers
<1>9. CASE OutOfSteps \/ Raise
  <2>1. next' = "failed" /\ task'.node = "error"
    BY <1>9 DEF OutOfSteps, Raise, Write
  <2> QED
    BY <2>1 DEF AheadInv, GoesOn, Nodes, Agents, Reviewers
<1>10. CASE Crash
  <2>1. next' = "crashed" /\ task' = task
    BY <1>10 DEF Crash
  <2> QED
    BY <1>0, <2>1 DEF AheadInv, GoesOn, Nodes, Agents, Reviewers
<1>11. CASE UNCHANGED vars
  BY <1>0, <1>11 DEF vars, AheadInv, GoesOn, Ahead
<1> QED
  BY <1>1, <1>2, <1>3, <1>4, <1>5, <1>6, <1>7, <1>8, <1>9, <1>10, <1>11 DEF Next, Node

(* The progress a client sees goes back only when a retry starts over, or  *)
(* the run is handed to a human or fails, however often the graph goes     *)
(* round.                                                                  *)
THEOREM ProgressGoesOn == Spec => ProgressGoesBackOnRetry
<1>1. TypeInv /\ AheadInv /\ [Next]_vars =>
        [Progress(task'.node) < Progress(task.node) =>
           \/ round > 1 /\ next \in {"legal_retrieve", "authority_review"}
           \/ task'.node \in {"error", "human_fallback"}]_vars
  BY StepAhead DEF GoesOn
<1> QED
  BY InitType, StepType, InitAhead, StepAhead, <1>1, PTL DEF Spec, ProgressGoesBackOnRetry

=============================================================================
