------------------------------ MODULE Platform ------------------------------
(* The application around the review: requests pass the rate limiter of     *)
(* main.py and reach the handlers of Intake, Library and Records; an        *)
(* accepted upload is reviewed (agent/nodes.py: a prompt and a call of the  *)
(* model for each node, and the retrieval from the library between them);   *)
(* operators change prompts; Redis fails and the process restarts.          *)
EXTENDS Intake, Limits, Prompts, Library, Records

CONSTANT Scopes    \* bounds: what one behaviour works with, and how much of it

VARIABLES scope, requests,
          review    \* progress of each review: what it does and in which stage,
                    \* answers its nodes have taken, laws cited

vars == <<intake, now, limits, gateway, prompts, lawLibrary, records, scope, requests, review>>

Parts == {"uploads", "reviews", "prompts", "library", "golden", "feedback", "limiter"}
Scope == [parts : SUBSET Parts, members : SUBSET Members,
          requests : Nat, ticks : Nat, restarts : Nat, lines : Nat, calls : Nat]

ASSUME PlatformAssumption == Callers = Uploads /\ Scopes \subseteq Scope

(* doc_classify; legal_retrieve, which asks the model for queries first; the *)
(* reviewers, evidence_verify and report_generation.                        *)
Review == [node : {"render", "call", "retrieve"}, stage : {"classify", "query", "review"},
           calls : Nat, cited : SUBSET (1..MaxBatch)]
NewReview == [node |-> "render", stage |-> "classify", calls |-> 0, cited |-> {}]

Init ==
    /\ InitIntake /\ InitLimits /\ InitPrompts /\ InitLibrary /\ InitRecords
    /\ scope \in Scopes /\ requests = 0
    /\ "feedback" \notin scope.parts => \A n \in Notices : inbox[n] = "none"
    /\ review = [t \in Uploads |-> NewReview]
-----------------------------------------------------------------------------
(* --- requests ------------------------------------------------------------ *)

Counts(part) ==
    /\ part \in scope.parts /\ requests < scope.requests
    /\ requests' = requests + 1 /\ UNCHANGED scope

(* rate_limit_middleware: counted before the handler runs, whatever becomes *)
(* of it; not at all if rate_limit_enabled is off.                          *)
Admit(part) ==
    /\ Counts(part)
    /\ IF "limiter" \in scope.parts THEN CheckAndIncr(TRUE) ELSE UNCHANGED limits

Refuse ==
    /\ Counts("limiter") /\ CheckAndIncr(FALSE)
    /\ UNCHANGED <<intake, now, gateway, prompts, lawLibrary, records, review>>

UploadRequest ==
    /\ Admit("uploads")
    /\ \E w \in Workers, m \in scope.members : BeginUpload(w, m)
    /\ UNCHANGED <<now, gateway, prompts, lawLibrary, records, review>>

LibraryRequest ==
    /\ Admit("library")
    /\ \/ \E one \in BOOLEAN : StartImport(one)
       \/ \E l \in DOMAIN library : CheckTimeValidity(l) \/ \E s \in LawStatus : UpdateLawStatus(l, s)
    /\ UNCHANGED <<intake, now, gateway, prompts, records, review>>

GoldenRequest ==
    /\ Admit("golden")
    /\ StartGolden \/ (\E c \in Cases : DeleteCase(c)) \/ \E S \in SUBSET Cases : EvalRun(S)
    /\ UNCHANGED <<intake, now, gateway, prompts, lawLibrary, review>>

FeedbackRequest ==
    /\ Admit("feedback")
    /\ \/ \E f \in FeedbackCases, t \in Uploads : Record(f, task[t].st # "none")
       \/ \E f \in FeedbackCases : MarkIncorporated(f)
       \/ \E N \in SUBSET Notices : MarkRead(N)
    /\ UNCHANGED <<intake, now, gateway, prompts, lawLibrary, review>>

(* A settled or refunded order (module Payment) changes a member's plan.    *)
PlanChange ==
    /\ Counts("uploads")
    /\ \E m \in scope.members, tier \in Tiers : SetTier(m, tier)
    /\ UNCHANGED <<now, limits, gateway, prompts, lawLibrary, records, review>>

PromptChange ==
    /\ Counts("prompts")
    /\ \/ InvalidateCache
       \/ \E commit \in BOOLEAN :
            SyncToDb(commit) \/ \E v \in Versions : Deactivate(v, commit)
                                                    \/ \E pass \in BOOLEAN : Activate(v, pass, commit)
       \/ \E v \in Versions : Draft(v)
    /\ UNCHANGED <<intake, now, limits, gateway, lawLibrary, records, review>>
-----------------------------------------------------------------------------
(* --- requests in progress ------------------------------------------------ *)

UploadStep ==
    /\ \E w \in Workers : SaveUpload(w) \/ CommitUpload(w) \/ AbortUpload(w)
    /\ UNCHANGED <<now, limits, gateway, prompts, lawLibrary, records, scope, requests, review>>

LibraryStep ==
    /\ \/ linesRead < scope.lines /\ \E kind \in Kinds : ReadLine(kind)
       \/ \E insert \in BOOLEAN : EntryFails(insert)
       \/ \E future \in BOOLEAN : ImportLaw(future)
       \/ NextEntry \/ CommitImport \/ \E ok \in BOOLEAN : AnswerImport(ok)
    /\ UNCHANGED <<intake, now, limits, gateway, prompts, records, scope, requests, review>>

GoldenStep ==
    /\ CommitGolden \/ \E c \in Cases, ok \in BOOLEAN : AddCase(c, ok)
    /\ UNCHANGED <<intake, now, limits, gateway, prompts, lawLibrary, scope, requests, review>>
-----------------------------------------------------------------------------
(* --- a review ------------------------------------------------------------ *)

AtNode(t, node) == "reviews" \in scope.parts /\ t \in running /\ review[t].node = node
Ends(t, st) == EndReview(t, st) /\ review' = [review EXCEPT ![t].node = "render"]

(* A prompt that cannot be loaded or rendered fails the review, but for that *)
(* of the queries: legal_retrieve then falls back on heuristics.            *)
Prompted(t) ==
    /\ Renders(GetActive(cache)) /\ Enqueue(t)
    /\ review' = [review EXCEPT ![t].node = "call"] /\ UNCHANGED intake
Searches(t) == review' = [review EXCEPT ![t].node = "retrieve"] /\ UNCHANGED intake
RenderPrompt(t) ==
    /\ AtNode(t, "render") /\ Render
    /\ \/ Prompted(t)
       \/ /\ ~Renders(GetActive(cache)) /\ UNCHANGED gateway
          /\ IF review[t].stage = "query" THEN Searches(t) ELSE Ends(t, "failed")
    /\ UNCHANGED <<now, limits, lawLibrary, records, scope, requests>>

CallModel(t) ==
    /\ AtNode(t, "call")
    /\ Acquire(t) \/ Awake(t) \/ Backoff(t) \/ \E o \in {"json", "text", "4xx", "5xx"} : Post(t, o)
    /\ UNCHANGED <<intake, now, limits, prompts, lawLibrary, records, scope, requests, review>>

(* An answer or an AgentError: the next node, another round from            *)
(* legal_retrieve on, or the end, as the graph decides (module              *)
(* ReviewWorkflow); a refusal raises and fails the review.  The queries'    *)
(* call may end as it likes.                                                *)
TakeAnswer(t) ==
    /\ AtNode(t, "call") /\ call[t].pc \in {"answered", "error", "refused"}
    /\ EndCall(t)
    /\ \/ review[t].stage = "query" /\ Searches(t)
       \/ /\ review[t].stage # "query" /\ call[t].pc # "refused" /\ review[t].calls + 1 < scope.calls
          /\ \E stage \in {"query", "review"} :
                review' = [review EXCEPT ![t].node = "render", ![t].stage = stage, ![t].calls = @ + 1]
          /\ UNCHANGED intake
       \/ review[t].stage = "review" /\ call[t].pc # "refused" /\ Ends(t, "done")
       \/ review[t].stage # "query" /\ Ends(t, "failed")
    /\ UNCHANGED <<now, limits, bucket, admitted, posts, prompts, lawLibrary, records, scope, requests>>

(* ... and searches: what is effective now; later nodes do not look again.  *)
RetrieveLaws(t) ==
    /\ AtNode(t, "retrieve")
    /\ review' = [review EXCEPT ![t].node = "render", ![t].stage = "review", ![t].cited = Retrievable]
    /\ UNCHANGED <<intake, now, limits, gateway, prompts, lawLibrary, records, scope, requests>>

ReviewStep(t) == RetrieveLaws(t) \/ RenderPrompt(t) \/ CallModel(t) \/ TakeAnswer(t)
-----------------------------------------------------------------------------
Tick ==
    /\ now < scope.ticks /\ now' = now + 1
    /\ UNCHANGED <<intake, limits, gateway, prompts, lawLibrary, records, scope, requests, review>>

RedisBack ==
    /\ RedisReturns
    /\ UNCHANGED <<intake, now, gateway, prompts, lawLibrary, records, scope, requests, review>>

(* The process restarts, possibly as a new release.                         *)
Restart ==
    /\ restarts < scope.restarts
    /\ RestartIntake /\ RestartLimits /\ RestartLibrary /\ RestartRecords
    /\ \E v \in Released : (v # shipped => "prompts" \in scope.parts) /\ RestartPrompts(v)
    /\ review' = [t \in Uploads |-> NewReview]
    /\ UNCHANGED <<now, scope, requests>>

Next ==
    \/ UploadRequest \/ LibraryRequest \/ GoldenRequest \/ FeedbackRequest \/ Refuse
    \/ PlanChange \/ PromptChange
    \/ UploadStep \/ LibraryStep \/ GoldenStep
    \/ \E t \in Uploads : ReviewStep(t)
    \/ Tick \/ RedisBack \/ Restart

Spec == Init /\ [][Next]_vars
-----------------------------------------------------------------------------
(* Each part is well typed, and the bounds of the scope are kept.           *)
TypeOK ==
    /\ IntakeOK /\ LimitsOK /\ PromptsOK /\ LibraryOK /\ RecordsOK
    /\ scope \in Scopes /\ requests \in 0..scope.requests /\ review \in [Uploads -> Review]

(* Both limiters are kept although requests, reviews, restarts and outages  *)
(* interleave (the statements are in module Limits).                        *)
LimitsKept == WindowKept(restarts) /\ CallsBounded(restarts)

(* A call of the model belongs to a review that runs, and a review that     *)
(* waits for the model is in the gateway: a restart, a failed prompt or a   *)
(* refused call leaves neither behind.                                      *)
CallsHaveReviews ==
    \A t \in Uploads : call[t].pc # "idle" <=> (t \in running /\ review[t].node = "call")

(* A law a review cites had taken effect when it was imported, or somebody  *)
(* had set its status: nothing else makes a law retrievable.                *)
CitedLawsInForce ==
    \A t \in Uploads : \A l \in review[t].cited : library[l].future => l \in byHand

(* What was answered as done is stored: the laws an import answered with,   *)
(* the feedback cases.  No failed entry, poisoned session or restart takes  *)
(* any of it away (golden cases: GoldenAnswersTrue, module Records).        *)
AnswersKept == told <= Len(library) /\ RecordsKept
=============================================================================
