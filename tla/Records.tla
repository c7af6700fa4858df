------------------------------- MODULE Records -------------------------------
(* Rows that one request writes and the next ones read: the golden data set *)
(* and the evaluation runs over it (services/eval_runner.py), the reviewers' *)
(* feedback cases (services/feedback.py), notifications and user feedback   *)
(* (services/notification.py, services/user_feedback.py).  A handler that   *)
(* flushes without committing changes nothing (db/session.py get_db).       *)
EXTENDS Naturals, Sequences, FiniteSets

CONSTANTS Cases, CaseOf,       \* golden cases and what each contains
          Statuses,            \* what a status may say: any string
          FeedbackCases, Notices

VARIABLES golden, batch, evals, feedback, inbox,
          goldenAnswers, confirmed     \* history

records == <<golden, batch, evals, feedback, inbox, goldenAnswers, confirmed>>

(* expected_json as compute_case_metrics sees it when it stands for the     *)
(* answer too: percentages, sections found of seven, the two statuses.      *)
GoldenCase == [parse : 0..100, retrieval : 0..100, citation : 0..100, sections : 0..7,
               hallucination : 0..100, actual : Statuses, expected : Statuses]

ASSUME RecordsAssumption == IsFiniteSet(Cases) /\ CaseOf \in [Cases -> GoldenCase]

NoBatch == [pc |-> "idle", tried |-> {}, pending |-> {}, success |-> 0]

InitRecords ==
    /\ golden = {} /\ batch = NoBatch /\ evals = {}
    /\ feedback = [f \in FeedbackCases |-> "none"]
    /\ inbox \in [Notices -> {"none", "unread"}]      \* rows older than migration 0006
    /\ goldenAnswers = {} /\ confirmed = {}
-----------------------------------------------------------------------------
(* --- golden data set ----------------------------------------------------- *)

StartGolden ==
    /\ batch.pc = "idle" /\ golden # Cases
    /\ batch' = [NoBatch EXCEPT !.pc = "open"]
    /\ UNCHANGED <<golden, evals, feedback, inbox, goldenAnswers, confirmed>>

(* Each case is flushed and counted; a failing one rolls back, with itself, *)
(* all the cases flushed before it.                                         *)
AddCase(c, ok) ==
    /\ batch.pc = "open" /\ c \notin golden \cup batch.tried
    /\ batch' = IF ok
                THEN [batch EXCEPT !.tried = @ \cup {c}, !.pending = @ \cup {c}, !.success = @ + 1]
                ELSE [batch EXCEPT !.tried = @ \cup {c}, !.pending = {}]
    /\ UNCHANGED <<golden, evals, feedback, inbox, goldenAnswers, confirmed>>

StoreCases(rows, pending) == rows \cup pending
CommitGolden ==
    /\ batch.pc = "open" /\ batch.tried # {}
    /\ golden' = StoreCases(golden, batch.pending)
    /\ goldenAnswers' = goldenAnswers \cup
           {[success |-> batch.success, stored |-> Cardinality(golden') - Cardinality(golden)]}
    /\ batch' = NoBatch
    /\ UNCHANGED <<evals, feedback, inbox, confirmed>>

DeleteCase(c) ==
    /\ c \in golden
    /\ golden' = golden \ {c}
    /\ UNCHANGED <<batch, evals, feedback, inbox, goldenAnswers, confirmed>>
-----------------------------------------------------------------------------
(* --- evaluation ---------------------------------------------------------- *)

(* The sum of a metric over the cases, each of which has so many points.    *)
Points(S, metric) == UNION {{c} \X (1..CaseOf[c][metric]) : c \in S}
Total(S, metric) == Cardinality(Points(S, metric))
AtLeast(S, percent, metric) == Total(S, metric) >= percent * Cardinality(S)

(* Cohen's kappa at least 0.9, in integers: kappa = (po - pe) / (1 - pe).    *)
(* pe sums, over every label that occurs, the share of the actual times that *)
(* of the expected statuses with it: the pairs of cases of which the one is  *)
(* expected to be what the other is.                                         *)
Agreeing(S) == {c \in S : CaseOf[c].actual = CaseOf[c].expected}
Chance(S) ==   \* pe, times the square of the number of cases
    Cardinality({p \in S \X S : CaseOf[p[1]].actual = CaseOf[p[2]].expected})

(* Fault: 1 if the expected labels alone are equal.                       *)
KappaOneSided(S) ==
    LET n == Cardinality(S) IN
    \/ Cardinality({CaseOf[c].expected : c \in S}) = 1
    \/ 10 * (Cardinality(Agreeing(S)) * n - Chance(S)) >= 9 * (n * n - Chance(S))
Kappa(S) ==
    LET n == Cardinality(S) IN
    \/ Chance(S) = n * n
    \/ 10 * (Cardinality(Agreeing(S)) * n - Chance(S)) >= 9 * (n * n - Chance(S))

OverallPass(S) ==
    /\ AtLeast(S, 95, "parse")
    /\ AtLeast(S, 90, "retrieval")
    /\ AtLeast(S, 85, "citation")
    /\ Kappa(S)
    /\ AtLeast(S, 7, "sections")
    /\ Total(S, "hallucination") <= 5 * Cardinality(S)

(* The route gives no case_runner, so each case's expected answer is        *)
(* measured against itself.  Which cases max_cases keeps is left open.      *)
EvalRun(S) ==
    /\ S # {} /\ S \subseteq golden
    /\ evals' = evals \cup {[cases |-> S, pass |-> OverallPass(S)]}
    /\ UNCHANGED <<golden, batch, feedback, inbox, goldenAnswers, confirmed>>
-----------------------------------------------------------------------------
(* --- feedback and notifications ------------------------------------------ *)

Flushed(row, new) == row
Committed(row, new) == new

Record(f, taskExists) ==
    /\ feedback[f] = "none" /\ taskExists
    /\ feedback' = [feedback EXCEPT ![f] = Committed(@, "recorded")]
    /\ confirmed' = confirmed \cup {<<f, "recorded">>}
    /\ UNCHANGED <<golden, batch, evals, inbox, goldenAnswers>>

MarkIncorporated(f) ==
    /\ feedback[f] # "none"
    /\ feedback' = [feedback EXCEPT ![f] = Committed(@, "incorporated")]
    /\ confirmed' = confirmed \cup {<<f, "incorporated">>}
    /\ UNCHANGED <<golden, batch, evals, inbox, goldenAnswers>>

(* mark_read, mark_all_read; closing, answering and triaging user feedback  *)
(* (a notice stands for such a row too) are flushed only.                   *)
MarkRead(N) ==
    /\ \E n \in N : inbox[n] = "unread"
    /\ inbox' = [n \in Notices |-> IF n \in N /\ inbox[n] = "unread"
                                   THEN Flushed(inbox[n], "read") ELSE inbox[n]]
    /\ UNCHANGED <<golden, batch, evals, feedback, goldenAnswers, confirmed>>

RestartRecords ==
    /\ batch' = NoBatch
    /\ UNCHANGED <<golden, evals, feedback, inbox, goldenAnswers, confirmed>>
-----------------------------------------------------------------------------
RecordsOK ==
    /\ golden \subseteq Cases /\ batch.pc \in {"idle", "open"}
    /\ batch.tried \subseteq Cases /\ batch.pending \subseteq batch.tried
    /\ \A e \in evals : e.cases \subseteq Cases /\ e.pass \in BOOLEAN
    /\ feedback \in [FeedbackCases -> {"none", "recorded", "incorporated"}]
    /\ inbox \in [Notices -> {"none", "unread", "read"}]

(* What the client was told stays: a feedback case that was recorded is not *)
(* lost, and one marked incorporated stays so (services/feedback.py commits  *)
(* before it answers).                                                      *)
RecordsKept == \A a \in confirmed : feedback[a[1]] \in {a[2], "incorporated"}

(* batch_import tolerates failing cases (eval_runner.py:235): what it counts *)
(* as a success is in the data set when it answers.  It is not: the rollback *)
(* for a failing case takes back the cases flushed before it (expected       *)
(* violation).                                                              *)
GoldenAnswersTrue == \A a \in goldenAnswers : a.stored = a.success

(* A run over fewer than ten cases passes only if every case's two statuses *)
(* agree and every report is complete: no average hides a failed case.      *)
PassMeansAgreement ==
    \A e \in evals : e.pass /\ Cardinality(e.cases) < 10 =>
        \A c \in e.cases : CaseOf[c].actual = CaseOf[c].expected /\ CaseOf[c].sections = 7
=============================================================================
