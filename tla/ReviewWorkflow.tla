--------------------------- MODULE ReviewWorkflow ---------------------------
(***************************************************************************)
(* One review task of agent/graph.py and agent/nodes.py: the graph of      *)
(* agents that trigger_doc_parse_background runs after an upload, and the  *)
(* rows a client sees meanwhile.                                           *)
(*                                                                         *)
(* A step is one superstep of LangGraph: a node with its language-model    *)
(* call, the commit of what it writes, and the router behind it.  The      *)
(* answers of the model are free.  FAIL and RETRY are one value, retry:    *)
(* both routers only ask whether a status is PASS.  Of the ReviewResult    *)
(* rows the newest of each agent is kept, the one the report route reads.  *)
(*                                                                         *)
(* LangGraph is not in the repository and its version is open.  Whether a  *)
(* router's assignment to its argument reaches the next node (Sharing) and *)
(* how many supersteps a run may take (RecursionLimit) are its own         *)
(* business; released versions hand a router a copy of the state.          *)
(***************************************************************************)
EXTENDS Naturals

CONSTANTS
    MaxIteration,    \* max_iteration of new_state
    RecursionLimit,  \* supersteps LangGraph allows
    Sharing          \* whether a router's writes stay: subset of BOOLEAN

ASSUME WorkflowAssumption ==
    /\ MaxIteration \in Nat
    /\ RecursionLimit \in Nat
    /\ Sharing \subseteq BOOLEAN

VARIABLES
    next,     \* node that runs next, or how the run ended
    steps,    \* supersteps made
    state,    \* ReviewState
    round,    \* how often the reviewers have been asked
    task,     \* review_tasks row: [status, node]
    results,  \* newest review_results row of each agent
    shared    \* what LangGraph does with a router's writes

vars == <<next, steps, state, round, task, results, shared>>

Reviewers == {"authority_review", "procedure_review", "content_review", "risk_assessment"}
Agents == Reviewers \cup {"doc_classify", "evidence_verify", "report_generation"}
Nodes == Agents \cup {"doc_parse", "legal_retrieve", "human_review", "human_fallback"}
Ends == {"END", "failed", "crashed"}

NodeStatus == {"pass", "retry"}
(* What an agent reports: no risk, only risks with full evidence, or some  *)
(* without (or below the minimum confidence).                              *)
Risks == {"none", "backed", "unbacked"}
AgentOutput == [status : NodeStatus, risks : Risks, round : Nat]
NoOutput == [status |-> "none", risks |-> "none", round |-> 0]

TaskStatus == {"parsing", "classifying", "reviewing", "verifying", "reporting",
               "human_review", "failed"}
ReviewTask == [status : TaskStatus, node : Nodes \cup {"error"}]
ReviewState == [document : BOOLEAN, normative : BOOLEAN, iteration : Nat,
                output : [Agents -> AgentOutput \cup {NoOutput}]]

Init ==
    /\ next = "doc_parse"
    /\ steps = 0
    /\ state = [document |-> FALSE, normative |-> FALSE, iteration |-> 0,
                output |-> [a \in Agents |-> NoOutput]]
    /\ round = 1
    /\ task = [status |-> "parsing", node |-> "doc_parse"]
    /\ results = [a \in Agents |-> NoOutput]
    /\ shared \in Sharing

-----------------------------------------------------------------------------
Advance(n) ==
    /\ steps < RecursionLimit
    /\ steps' = steps + 1
    /\ next' = n

Write(s, n) == task' = [status |-> s, node |-> n]

(* Fault: the status is saved as the model spells it.                      *)
AnswerUncoerced(a, s, status, n) ==
    /\ \E spelled \in {"PASS", "RETRY"} :
        results' = [results EXCEPT ![a] = [status |-> spelled, risks |-> "none", round |-> round]]
    /\ Write(status, n)

(* _run_llm_node with an answer: it builds the output, without risks, and  *)
(* saves it; the node fills the risks in when it is back.                  *)
Answer(a, s, status, n) ==
    /\ results' = [results EXCEPT ![a] = [status |-> s, risks |-> "none", round |-> round]]
    /\ Write(status, n)

(* _run_llm_node without one: RETRY in memory, nothing is saved.           *)
NoAnswer == UNCHANGED <<task, results>>

Output(a, s, r) ==
    state' = [state EXCEPT !.output[a] = [status |-> s, risks |-> r, round |-> round]]

-----------------------------------------------------------------------------
(* A parse failure is written to the row, and the graph goes on.           *)
DocParse ==
    /\ next = "doc_parse"
    /\ \/ /\ state' = [state EXCEPT !.document = TRUE]
          /\ Write("classifying", "doc_classify")
       \/ /\ UNCHANGED state
          /\ Write("failed", "doc_parse")
    /\ Advance("doc_classify")
    /\ UNCHANGED <<round, results, shared>>

ClassifyRouter(st) == IF st.normative THEN "legal_retrieve" ELSE "report_generation"

DocClassify ==
    /\ next = "doc_classify"
    /\ \/ \E s \in NodeStatus, normative \in BOOLEAN :
            /\ Answer("doc_classify", s, "classifying", "legal_retrieve")
            /\ state' = [state EXCEPT !.normative = normative,
                             !.output["doc_classify"] = [status |-> s, risks |-> "none",
                                                         round |-> round]]
       \/ NoAnswer /\ Output("doc_classify", "retry", "none")
    /\ Advance(ClassifyRouter(state'))
    /\ UNCHANGED <<round, shared>>

(* Without a parsed document nothing is retrieved and nothing is written.  *)
LegalRetrieve ==
    /\ next = "legal_retrieve"
    /\ IF state.document THEN Write("reviewing", "authority_review") ELSE UNCHANGED task
    /\ Advance("authority_review")
    /\ UNCHANGED <<state, round, results, shared>>

After == [authority_review  |-> "procedure_review",
          procedure_review  |-> "content_review",
          content_review    |-> "risk_assessment",
          risk_assessment   |-> "evidence_verify",
          report_generation |-> "human_review"]

AuthorityRouter(st) ==
    IF st.output["authority_review"].status = "pass" THEN "procedure_review"
                                                     ELSE "report_generation"

(* risk_assessment rates the others and reads no risks from the answer.    *)
RisksOf(a) == IF a = "risk_assessment" THEN {"none"} ELSE Risks

Review(a) ==
    /\ next = a
    /\ \/ \E s \in NodeStatus, r \in RisksOf(a) :
            Answer(a, s, "reviewing", After[a]) /\ Output(a, s, r)
       \/ NoAnswer /\ Output(a, "retry", "none")
    /\ Advance(IF a = "authority_review" THEN AuthorityRouter(state') ELSE After[a])
    /\ UNCHANGED <<round, shared>>

(* EvidenceHarness: some output holds a risk without evidence.             *)
EvidenceMissing == \E a \in Reviewers : state.output[a].risks = "unbacked"

EvidenceRouter(st) ==
    IF st.output["evidence_verify"].status = "pass" THEN "report_generation"
    ELSE IF st.iteration < MaxIteration THEN "legal_retrieve"
    ELSE "human_fallback"

(* The outcome s in memory, and the router behind it, which counts the     *)
(* retry in the state it was handed.                                       *)
Verified(s) ==
    LET out == [state EXCEPT !.output["evidence_verify"] =
                    [status |-> s, risks |-> "none", round |-> round]]
        n == EvidenceRouter(out)
        retry == n \notin {"report_generation", "human_fallback"}
    IN
    /\ state' = IF retry /\ shared THEN [out EXCEPT !.iteration = @ + 1] ELSE out
    /\ round' = IF retry THEN round + 1 ELSE round
    /\ Advance(n)
    /\ UNCHANGED shared

(* Faults: the model's word is taken for it; the row gets the way the      *)
(* router goes, not the default.                                           *)
VerifyTrustsModel ==
    /\ next = "evidence_verify"
    /\ \E s \in NodeStatus :
        /\ Answer("evidence_verify", s, "verifying", "report_generation")
        /\ Verified(s)
VerifyWritesRoute ==
    /\ next = "evidence_verify"
    /\ \/ \E s \in NodeStatus :
            /\ Verified(IF EvidenceMissing THEN "retry" ELSE s)
            /\ Answer("evidence_verify", s, "verifying", next')
       \/ NoAnswer /\ Verified("retry")

(* The row holds the model's status; missing evidence only counts in       *)
(* memory.                                                                 *)
EvidenceVerify ==
    /\ next = "evidence_verify"
    /\ \/ \E s \in NodeStatus :
            /\ Answer("evidence_verify", s, "verifying", "report_generation")
            /\ Verified(IF EvidenceMissing THEN "retry" ELSE s)
       \/ NoAnswer /\ Verified("retry")

ReportGeneration ==
    /\ next = "report_generation"
    /\ \/ \E s \in NodeStatus :
            /\ Answer("report_generation", s, "reporting", "human_review")
            /\ Output("report_generation", s, "none")
       \/ NoAnswer /\ Output("report_generation", "retry", "none")
    /\ Advance("human_review")
    /\ UNCHANGED <<round, shared>>

HumanFallback ==
    /\ next = "human_fallback"
    /\ Write("human_review", "human_fallback")
    /\ Advance("human_review")
    /\ UNCHANGED <<state, round, results, shared>>

HumanReview ==
    /\ next = "human_review"
    /\ Write("human_review", "human_review")
    /\ Advance("END")
    /\ UNCHANGED <<state, round, results, shared>>

-----------------------------------------------------------------------------
(* Fault: nobody notices that the steps have run out.                      *)
SpinAtLimit ==
    /\ next \in Nodes
    /\ steps = RecursionLimit
    /\ UNCHANGED vars

(* LangGraph gives up: GraphRecursionError, handled like any exception.    *)
OutOfSteps ==
    /\ next \in Nodes
    /\ steps = RecursionLimit
    /\ next' = "failed"
    /\ Write("failed", "error")
    /\ UNCHANGED <<steps, state, round, results, shared>>

(* Fault: the exception is logged and that is all.                         *)
RaiseSilently ==
    /\ next \in Nodes
    /\ steps < RecursionLimit
    /\ next' = "failed"
    /\ UNCHANGED <<steps, state, round, task, results, shared>>

(* A node raises anything but an AgentError (a refused request, an answer  *)
(* that does not validate, a database error), before it commits or, in an  *)
(* agent, after it: what it returned is lost, what it saved is not.        *)
Raise ==
    /\ next \in Nodes
    /\ steps < RecursionLimit
    /\ \/ UNCHANGED results
       \/ \E s \in NodeStatus :
            /\ next \in Agents
            /\ results' = [results EXCEPT ![next] =
                              [status |-> s, risks |-> "none", round |-> round]]
    /\ next' = "failed"
    /\ Write("failed", "error")
    /\ UNCHANGED <<steps, state, round, shared>>

(* The process dies, or the database is gone when the failure should be    *)
(* written.  Nothing starts the workflow again.                            *)
Crash ==
    /\ next \in Nodes
    /\ next' = "crashed"
    /\ UNCHANGED <<steps, state, round, task, results, shared>>

Node ==
    \/ DocParse \/ DocClassify \/ LegalRetrieve
    \/ \E a \in Reviewers : Review(a)
    \/ EvidenceVerify \/ ReportGeneration \/ HumanFallback \/ HumanReview

Next == Node \/ OutOfSteps \/ Raise \/ Crash

Spec == Init /\ [][Next]_vars
-----------------------------------------------------------------------------
(* State and rows are well typed; steps, rounds and retries stay within    *)
(* their limits.                                                           *)
TypeOK ==
    /\ next \in Nodes \cup Ends
    /\ steps \in 0..RecursionLimit
    /\ state \in ReviewState /\ state.iteration <= MaxIteration
    /\ round \in 1..(RecursionLimit + 1)
    /\ task \in ReviewTask
    /\ results \in [Agents -> AgentOutput \cup {NoOutput}]
    /\ shared \in Sharing

(* Every reviewer was asked in this round and none names a risk without    *)
(* evidence.                                                               *)
Reviewed ==
    \A a \in Reviewers : /\ state.output[a].round = round
                         /\ state.output[a].risks # "unbacked"

(* A report is written of a document that is no normative one, or whose    *)
(* issuer is found to have no authority in this round, or whose review     *)
(* was verified: then all four reviewers speak of the round that was       *)
(* verified, with evidence, however often the graph went round.            *)
ReportIsJustified ==
    (next = "report_generation" \/ results["report_generation"] # NoOutput) =>
        LET authority == state.output["authority_review"]
            verify == state.output["evidence_verify"]
        IN \/ ~state.normative
           \/ authority.round = round /\ authority.status = "retry"
           \/ verify.round = round /\ verify.status = "pass" /\ Reviewed

(* The row a client polls tells how the run went, unless the process died: *)
(* it says human_review when the graph has reached its end and only on its *)
(* last steps, and failed when an exception or the step limit ended it.    *)
RowTellsOutcome ==
    /\ next = "END" => task = [status |-> "human_review", node |-> "human_review"]
    /\ next = "failed" => task = [status |-> "failed", node |-> "error"]
    /\ task.status = "human_review" => next \in {"human_review", "END", "crashed"}

(* The table of get_task_status, in tenths: unknown nodes are 0.           *)
Progress(n) ==
    CASE n = "doc_parse" -> 1          [] n = "doc_classify" -> 2
      [] n = "legal_retrieve" -> 3     [] n = "authority_review" -> 4
      [] n = "procedure_review" -> 5   [] n = "content_review" -> 6
      [] n = "risk_assessment" -> 7    [] n = "evidence_verify" -> 8
      [] n = "report_generation" -> 9  [] n = "human_review" -> 10
      [] OTHER -> 0

(* The progress a client sees goes back only when a retry has started over *)
(* at legal_retrieve (or, without a document, at the next node), or when   *)
(* the run is handed to a human or fails.                                  *)
ProgressGoesBackOnRetry ==
    [][Progress(task'.node) < Progress(task.node) =>
          \/ round > 1 /\ next \in {"legal_retrieve", "authority_review"}
          \/ task'.node \in {"error", "human_fallback"}]_vars

(* "A verification that fails beyond max_iteration goes to a human": the   *)
(* step limit never has to end a run.                                      *)
NeverOutOfSteps == next \in Nodes => steps < RecursionLimit

-----------------------------------------------------------------------------
(* One asyncio task drives the graph; model and database calls time out.   *)
FairSpec == Spec /\ WF_vars(Node \/ OutOfSteps)

(* Every run comes to an end, whatever the model answers.                  *)
Finishes == <>(next \in Ends)
=============================================================================
