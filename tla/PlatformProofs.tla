--------------------------- MODULE PlatformProofs ---------------------------
(* Theorems about module Platform: every step of the application is a step  *)
(* of each of its parts, or leaves it alone, so that the invariants of      *)
(* IntakeProofs, LimitsProofs, StoresProofs and LibraryProofs hold of the   *)
(* whole, for any members, laws, prompts, limits and bounds; with them, the *)
(* invariant of the reviews, which read the library and wait for the model. *)
EXTENDS Platform, IntakeProofs, LimitsProofs, StoresProofs, LibraryProofs

Moves ==
    /\ IntakeStep /\ WindowMove /\ CallsStep
    /\ PromptsMove /\ LibraryMove /\ RecordsMove

ScopeHolds == scope \in Scopes /\ requests \in 0..scope.requests

LEMMA ScopeIs ==
    ASSUME ScopeHolds
    PROVE  scope.members \subseteq Members /\ scope.requests \in Nat /\ requests \in Nat
BY PlatformAssumption DEF ScopeHolds, Scope

(* --- every step is a step of each part ------------------------------------ *)

LEMMA Admitted ==
    ASSUME NEW part, Admit(part), UNCHANGED <<now, restarts>>
    PROVE  WindowMove
<1>1. CASE "limiter" \in scope.parts
  BY <1>1 DEF Admit, WindowMove
<1>2. CASE "limiter" \notin scope.parts
  BY <1>2 DEF Admit, WindowMove
<1> QED
  BY <1>1, <1>2

LEMMA UploadRequestMoves ==
    ASSUME ScopeHolds, UploadRequest
    PROVE  Moves
<1>1. PICK w \in Workers, m \in Members : BeginUpload(w, m)
  BY ScopeIs DEF UploadRequest
<1>2. restarts' = restarts
  BY <1>1 DEF BeginUpload
<1>3. Admit("uploads") /\ UNCHANGED <<now, gateway, prompts, lawLibrary, records, review>>
  BY DEF UploadRequest
<1> QED
  BY <1>1, <1>2, <1>3, Admitted DEF Moves, IntakeStep, CallsStep, PromptsMove, LibraryMove, RecordsMove

LEMMA LibraryRequestMoves ==
    ASSUME LibraryRequest
    PROVE  Moves
<1>1. Admit("library") /\ UNCHANGED <<intake, now, gateway, prompts, records, review>>
  BY DEF LibraryRequest
<1>2. restarts' = restarts
  BY <1>1 DEF intake
<1>3. LibraryMove
  BY DEF LibraryRequest, LibraryMove
<1> QED
  BY <1>1, <1>2, <1>3, Admitted DEF Moves, IntakeStep, CallsStep, PromptsMove, RecordsMove

LEMMA GoldenRequestMoves ==
    ASSUME GoldenRequest
    PROVE  Moves
<1>1. Admit("golden") /\ UNCHANGED <<intake, now, gateway, prompts, lawLibrary, review>>
  BY DEF GoldenRequest
<1>2. restarts' = restarts
  BY <1>1 DEF intake
<1>3. RecordsMove
  BY DEF GoldenRequest, RecordsMove
<1> QED
  BY <1>1, <1>2, <1>3, Admitted DEF Moves, IntakeStep, CallsStep, PromptsMove, LibraryMove

LEMMA FeedbackRequestMoves ==
    ASSUME FeedbackRequest
    PROVE  Moves
<1>1. Admit("feedback") /\ UNCHANGED <<intake, now, gateway, prompts, lawLibrary, review>>
  BY DEF FeedbackRequest
<1>2. restarts' = restarts
  BY <1>1 DEF intake
<1>3. RecordsMove
  <2>1. \A t \in Uploads : (task[t].st # "none") \in BOOLEAN
    OBVIOUS
  <2>2. CASE \E f \in FeedbackCases, t \in Uploads : Record(f, task[t].st # "none")
    BY <2>1, <2>2 DEF RecordsMove
  <2> QED
    BY <2>2 DEF FeedbackRequest, RecordsMove
<1> QED
  BY <1>1, <1>2, <1>3, Admitted DEF Moves, IntakeStep, CallsStep, PromptsMove, LibraryMove

LEMMA RefuseMoves ==
    ASSUME Refuse
    PROVE  Moves
<1>1. CheckAndIncr(FALSE) /\ UNCHANGED <<intake, now, gateway, prompts, lawLibrary, records, review>>
  BY DEF Refuse
<1>2. restarts' = restarts
  BY <1>1 DEF intake
<1> QED
  BY <1>1, <1>2 DEF Moves, IntakeStep, WindowMove, CallsStep, PromptsMove, LibraryMove, RecordsMove

LEMMA PlanChangeMoves ==
    ASSUME ScopeHolds, PlanChange
    PROVE  Moves
<1>1. PICK m \in Members, tier \in Tiers : SetTier(m, tier)
  BY ScopeIs DEF PlanChange
<1>2. restarts' = restarts
  BY <1>1 DEF SetTier
<1>3. UNCHANGED <<now, limits, gateway, prompts, lawLibrary, records, review>>
  BY DEF PlanChange
<1> QED
  BY <1>1, <1>2, <1>3 DEF Moves, IntakeStep, WindowMove, CallsStep, PromptsMove, LibraryMove, RecordsMove

LEMMA PromptChangeMoves ==
    ASSUME PromptChange
    PROVE  Moves
<1>1. UNCHANGED <<intake, now, limits, gateway, lawLibrary, records, review>>
  BY DEF PromptChange
<1>2. restarts' = restarts
  BY <1>1 DEF intake
<1>3. PromptsMove
  BY DEF PromptChange, PromptsMove
<1> QED
  BY <1>1, <1>2, <1>3 DEF Moves, IntakeStep, WindowMove, CallsStep, LibraryMove, RecordsMove

LEMMA UploadStepMoves ==
    ASSUME UploadStep
    PROVE  Moves
<1>1. PICK w \in Workers : SaveUpload(w) \/ CommitUpload(w) \/ AbortUpload(w)
  BY DEF UploadStep
<1>2. restarts' = restarts
  BY <1>1 DEF SaveUpload, CommitUpload, AbortUpload
<1>3. UNCHANGED <<now, limits, gateway, prompts, lawLibrary, records, scope, requests, review>>
  BY DEF UploadStep
<1> QED
  BY <1>1, <1>2, <1>3 DEF Moves, IntakeStep, WindowMove, CallsStep, PromptsMove, LibraryMove, RecordsMove

LEMMA LibraryStepMoves ==
    ASSUME LibraryStep
    PROVE  Moves
<1>1. UNCHANGED <<intake, now, limits, gateway, prompts, records, scope, requests, review>>
  BY DEF LibraryStep
<1>2. restarts' = restarts
  BY <1>1 DEF intake
<1>3. LibraryMove
  BY DEF LibraryStep, LibraryMove
<1> QED
  BY <1>1, <1>2, <1>3 DEF Moves, IntakeStep, WindowMove, CallsStep, PromptsMove, RecordsMove

LEMMA GoldenStepMoves ==
    ASSUME GoldenStep
    PROVE  Moves
<1>1. UNCHANGED <<intake, now, limits, gateway, prompts, lawLibrary, scope, requests, review>>
  BY DEF GoldenStep
<1>2. restarts' = restarts
  BY <1>1 DEF intake
<1>3. RecordsMove
  BY DEF GoldenStep, RecordsMove
<1> QED
  BY <1>1, <1>2, <1>3 DEF Moves, IntakeStep, WindowMove, CallsStep, PromptsMove, LibraryMove

LEMMA RetrieveMoves ==
    ASSUME NEW t \in Uploads, RetrieveLaws(t)
    PROVE  Moves
<1>1. UNCHANGED <<intake, now, limits, gateway, prompts, lawLibrary, records, scope, requests>>
  BY DEF RetrieveLaws
<1>2. restarts' = restarts
  BY <1>1 DEF intake
<1> QED
  BY <1>1, <1>2 DEF Moves, IntakeStep, WindowMove, CallsStep, PromptsMove, LibraryMove, RecordsMove

LEMMA RenderMoves ==
    ASSUME NEW t \in Uploads, RenderPrompt(t)
    PROVE  Moves
<1>1. Render /\ UNCHANGED <<now, limits, lawLibrary, records, scope, requests>>
  BY DEF RenderPrompt
<1>2. \/ Enqueue(t) /\ UNCHANGED intake
      \/ (UNCHANGED intake \/ EndReview(t, "failed")) /\ UNCHANGED gateway
  BY DEF RenderPrompt, Prompted, Searches, Ends
<1>3. restarts' = restarts /\ t \in Callers
  BY <1>2, PlatformAssumption DEF intake, EndReview
<1>4. IntakeStep
  BY <1>2 DEF IntakeStep
<1>5. CallsStep
  BY <1>1, <1>2, <1>3 DEF CallsStep, CallMove
<1> QED
  BY <1>1, <1>3, <1>4, <1>5 DEF Moves, WindowMove, PromptsMove, LibraryMove, RecordsMove

LEMMA CallModelMoves ==
    ASSUME NEW t \in Uploads, CallModel(t)
    PROVE  Moves
<1>1. /\ Acquire(t) \/ Awake(t) \/ Backoff(t) \/ \E o \in {"json", "text", "4xx", "5xx"} : Post(t, o)
      /\ UNCHANGED <<intake, now, limits, prompts, lawLibrary, records, scope, requests, review>>
  BY DEF CallModel
<1>2. restarts' = restarts /\ t \in Callers
  BY <1>1, PlatformAssumption DEF intake
<1>3. CallsStep
  BY <1>1, <1>2 DEF CallsStep, CallMove
<1> QED
  BY <1>1, <1>2, <1>3 DEF Moves, IntakeStep, WindowMove, PromptsMove, LibraryMove, RecordsMove

LEMMA TakeAnswerMoves ==
    ASSUME NEW t \in Uploads, TakeAnswer(t)
    PROVE  Moves
<1>1. /\ call[t].pc \in {"answered", "error", "refused"} /\ EndCall(t)
      /\ UNCHANGED <<now, limits, bucket, admitted, posts, prompts, lawLibrary, records, scope, requests>>
  BY DEF TakeAnswer
<1>2. UNCHANGED intake \/ \E st \in {"done", "failed"} : EndReview(t, st)
  BY DEF TakeAnswer, Searches, Ends
<1>3. restarts' = restarts /\ t \in Callers
  BY <1>2, PlatformAssumption DEF intake, EndReview
<1>4. CallsStep
  BY <1>1, <1>3 DEF CallsStep, CallMove
<1>5. IntakeStep
  BY <1>2 DEF IntakeStep
<1> QED
  BY <1>1, <1>3, <1>4, <1>5 DEF Moves, WindowMove, PromptsMove, LibraryMove, RecordsMove

LEMMA TickMoves ==
    ASSUME Tick
    PROVE  Moves
<1>1. now' = now + 1 /\ UNCHANGED <<intake, limits, gateway, prompts, lawLibrary, records>>
  BY DEF Tick
<1>2. restarts' = restarts
  BY <1>1 DEF intake
<1> QED
  BY <1>1, <1>2 DEF Moves, IntakeStep, WindowMove, CallsStep, PromptsMove, LibraryMove, RecordsMove

LEMMA RedisBackMoves ==
    ASSUME RedisBack
    PROVE  Moves
<1>1. RedisReturns /\ UNCHANGED <<intake, now, gateway, prompts, lawLibrary, records>>
  BY DEF RedisBack
<1>2. restarts' = restarts
  BY <1>1 DEF intake
<1> QED
  BY <1>1, <1>2 DEF Moves, IntakeStep, WindowMove, CallsStep, PromptsMove, LibraryMove, RecordsMove

LEMMA RestartMoves ==
    ASSUME Restart
    PROVE  Moves
<1>1. /\ RestartIntake /\ RestartLimits /\ RestartLibrary /\ RestartRecords /\ UNCHANGED now
      /\ \E v \in Released : RestartPrompts(v)
  BY DEF Restart
<1>2. restarts' = restarts + 1
  BY <1>1 DEF RestartIntake
<1> QED
  BY <1>1, <1>2 DEF Moves, IntakeStep, WindowMove, CallsStep, PromptsMove, LibraryMove, RecordsMove

(* Every step of the application, or of its surroundings, moves each part   *)
(* as that part allows.                                                     *)
LEMMA EveryStepMoves ==
    ASSUME ScopeHolds, [Next]_vars
    PROVE  Moves
<1>1. CASE UNCHANGED vars
  <2>1. UNCHANGED <<intake, now, limits, gateway, prompts, lawLibrary, records>>
    BY <1>1 DEF vars
  <2>2. restarts' = restarts
    BY <2>1 DEF intake
  <2> QED
    BY <2>1, <2>2 DEF Moves, IntakeStep, WindowMove, CallsStep, PromptsMove, LibraryMove, RecordsMove
<1>2. CASE \E t \in Uploads : ReviewStep(t)
  BY <1>2, RetrieveMoves, RenderMoves, CallModelMoves, TakeAnswerMoves DEF ReviewStep
<1> QED
  BY <1>1, <1>2, UploadRequestMoves, LibraryRequestMoves, GoldenRequestMoves, FeedbackRequestMoves,
     RefuseMoves, PlanChangeMoves, PromptChangeMoves, UploadStepMoves, LibraryStepMoves, GoldenStepMoves,
     TickMoves, RedisBackMoves, RestartMoves DEF Next

(* --- reviews -------------------------------------------------------------- *)

ReviewTypes == review \in [Uploads -> Review]

Cites ==
    \A t \in Uploads : review[t].cited \subseteq DOMAIN library
                       /\ \A l \in review[t].cited : library[l].future => l \in byHand

(* A review that waits for the model is in the gateway; one that does not   *)
(* run does not wait.                                                       *)
Waits ==
    \A t \in Uploads :
        /\ t \notin running => review[t].node # "call"
        /\ call[t].pc # "idle" <=> t \in running /\ review[t].node = "call"

ReviewInv == ScopeHolds /\ ReviewTypes /\ Cites /\ Waits

PartsInv == IntakeInv /\ WindowInv /\ CallsInv /\ PromptsInv /\ LibraryInv /\ RecordsInv
PlatformInv == PartsInv /\ ReviewInv

LEMMA PartsKeep ==
    ASSUME PartsInv, Moves
    PROVE  PartsInv'
BY IntakeKeeps, WindowKeeps, CallsKeeps, PromptsKeeps, LibraryKeeps, RecordsKeeps DEF PartsInv, Moves

LEMMA ScopeKeeps ==
    ASSUME ScopeHolds, [Next]_vars
    PROVE  ScopeHolds'
<1>1. \/ UNCHANGED <<scope, requests>>
      \/ requests < scope.requests /\ requests' = requests + 1 /\ scope' = scope
  <2>1. CASE UNCHANGED vars
    BY <2>1 DEF vars
  <2>2. CASE \E t \in Uploads : ReviewStep(t)
    BY <2>2 DEF ReviewStep, RetrieveLaws, RenderPrompt, CallModel, TakeAnswer
  <2>3. CASE UploadRequest \/ LibraryRequest \/ GoldenRequest \/ FeedbackRequest \/ Refuse \/ PlanChange \/ PromptChange
    BY <2>3 DEF UploadRequest, LibraryRequest, GoldenRequest, FeedbackRequest, Refuse, PlanChange,
                PromptChange, Admit, Counts
  <2>4. CASE UploadStep \/ LibraryStep \/ GoldenStep \/ Tick \/ RedisBack \/ Restart
    BY <2>4 DEF UploadStep, LibraryStep, GoldenStep, Tick, RedisBack, Restart
  <2> QED
    BY <2>1, <2>2, <2>3, <2>4 DEF Next
<1>2. scope.requests \in Nat /\ requests \in Nat /\ scope \in Scopes /\ requests \in 0..scope.requests
  BY ScopeIs DEF ScopeHolds
<1> QED
  BY <1>1, <1>2 DEF ScopeHolds

(* What is cited was retrieved from the library as it was, or is: laws stay, *)
(* and so does what somebody has set by hand.                                *)
LEMMA CitesKeeps ==
    ASSUME LibraryInv, LibraryMove, Cites,
           \A t \in Uploads : review'[t].cited \subseteq review[t].cited \cup Retrievable
    PROVE  Cites'
<1>1. /\ \A l \in DOMAIN library : l \in DOMAIN library' /\ library'[l].future = library[l].future
      /\ byHand \subseteq byHand'
  BY LibraryKeeps
<1>2. Retrievable \subseteq DOMAIN library /\ \A l \in Retrievable : library[l].future => l \in byHand
  BY LibraryGives
<1>3. \A t \in Uploads : \A l \in review'[t].cited : l \in DOMAIN library /\ (library[l].future => l \in byHand)
  BY <1>2 DEF Cites
<1> QED
  BY <1>1, <1>3 DEF Cites


ReviewsKept ==
    /\ ReviewTypes' /\ Waits'
    /\ \A t \in Uploads : review'[t].cited \subseteq review[t].cited \cup Retrievable

LEMMA OthersKeepReviews ==
    ASSUME ReviewTypes, Waits, UNCHANGED <<review, running, call>>
    PROVE  ReviewsKept
BY DEF ReviewTypes, Waits, ReviewsKept

(* A review begins when its task is committed: till then nobody was there.  *)
LEMMA UploadKeepsReviews ==
    ASSUME IntakeInv, ReviewTypes, Waits, UploadStep
    PROVE  ReviewsKept
<1>1. UNCHANGED <<call, review>>
  BY DEF UploadStep, gateway
<1>2. PICK w \in Workers : SaveUpload(w) \/ CommitUpload(w) \/ AbortUpload(w)
  BY DEF UploadStep
<1>3. CASE SaveUpload(w) \/ AbortUpload(w)
  BY <1>1, <1>3, OthersKeepReviews DEF SaveUpload, AbortUpload
<1>4. CASE CommitUpload(w)
  <2>1. running' = running \cup {up[w].task} /\ up[w].pc = "saved"
    BY <1>4 DEF CommitUpload
  <2>2. up[w].task \notin running
    BY <2>1 DEF IntakeInv, IntakeOK, UploadHolds, TaskWhole
  <2> QED
    BY <1>1, <2>1, <2>2 DEF ReviewTypes, Waits, ReviewsKept
<1> QED
  BY <1>2, <1>3, <1>4

(* A review that goes on, at another node or in another stage.              *)
LEMMA ReviewMoves ==
    ASSUME ReviewTypes, NEW t \in Uploads, NEW r \in Review, review' = [review EXCEPT ![t] = r],
           r.cited \subseteq review[t].cited \cup Retrievable
    PROVE  /\ ReviewTypes'
           /\ \A s \in Uploads : review'[s].node = IF s = t THEN r.node ELSE review[s].node
           /\ \A s \in Uploads : review'[s].cited \subseteq review[s].cited \cup Retrievable
BY DEF ReviewTypes

LEMMA RetrieveKeepsReviews ==
    ASSUME ReviewTypes, Waits, LibraryInv, NEW t \in Uploads, RetrieveLaws(t)
    PROVE  ReviewsKept
<1>1. /\ t \in running /\ review[t].node = "retrieve" /\ UNCHANGED <<running, call>>
      /\ review' = [review EXCEPT ![t].node = "render", ![t].stage = "review", ![t].cited = Retrievable]
  BY DEF RetrieveLaws, AtNode, intake, gateway
<1>2. Retrievable \in SUBSET (1..MaxBatch)
  BY LibraryGives
<1>3. PICK r : r = [review[t] EXCEPT !.node = "render", !.stage = "review", !.cited = Retrievable]
  OBVIOUS
<1>4. /\ r \in Review /\ r.node = "render" /\ r.cited = Retrievable
      /\ review' = [review EXCEPT ![t] = r]
  BY <1>1, <1>2, <1>3 DEF ReviewTypes, Review
<1>5. /\ ReviewTypes'
      /\ \A s \in Uploads : review'[s].node = IF s = t THEN r.node ELSE review[s].node
      /\ \A s \in Uploads : review'[s].cited \subseteq review[s].cited \cup Retrievable
  BY <1>4, ReviewMoves
<1>6. Waits'
  BY <1>1, <1>4, <1>5 DEF Waits
<1> QED
  BY <1>5, <1>6 DEF ReviewsKept

(* What becomes of a review whose prompt fails, or whose call has ended.    *)
LEMMA SearchMoves ==
    ASSUME ReviewTypes, NEW t \in Uploads, Searches(t)
    PROVE  /\ ReviewTypes' /\ running' = running
           /\ \A s \in Uploads : /\ review'[s].node = (IF s = t THEN "retrieve" ELSE review[s].node)
                                 /\ review'[s].cited = review[s].cited
BY DEF Searches, ReviewTypes, Review, intake

LEMMA EndMoves ==
    ASSUME ReviewTypes, NEW t \in Uploads, NEW st, Ends(t, st)
    PROVE  /\ ReviewTypes' /\ running' = running \ {t}
           /\ \A s \in Uploads : /\ review'[s].node = (IF s = t THEN "render" ELSE review[s].node)
                                 /\ review'[s].cited = review[s].cited
BY DEF Ends, EndReview, ReviewTypes, Review

LEMMA CallKeepsReviews ==
    ASSUME ReviewTypes, Waits, CallsInv, NEW t \in Uploads, CallModel(t)
    PROVE  ReviewsKept
<1>1. /\ t \in running /\ review[t].node = "call" /\ UNCHANGED <<running, review>>
      /\ Acquire(t) \/ Awake(t) \/ Backoff(t) \/ \E o \in {"json", "text", "4xx", "5xx"} : Post(t, o)
  BY DEF CallModel, AtNode, intake
<1>2. call \in [Uploads -> Call]
  BY PlatformAssumption DEF CallsInv, CallsOK
<1>3. call'[t].pc # "idle" /\ \A s \in Uploads : s # t => call'[s] = call[s]
  <2>1. CASE Acquire(t)
    BY <1>2, <2>1 DEF Acquire, Call
  <2>2. CASE Awake(t)
    BY <1>2, <2>2 DEF Awake, Call
  <2>3. CASE Backoff(t)
    BY <1>2, <2>3 DEF Backoff, Call
  <2>4. CASE \E o \in {"json", "text", "4xx", "5xx"} : Post(t, o)
    BY <1>2, <2>4 DEF Post, Call
  <2> QED
    BY <1>1, <2>1, <2>2, <2>3, <2>4
<1> QED
  BY <1>1, <1>2, <1>3 DEF ReviewTypes, Waits, ReviewsKept

LEMMA RenderKeepsReviews ==
    ASSUME ReviewTypes, Waits, CallsInv, NEW t \in Uploads, RenderPrompt(t)
    PROVE  ReviewsKept
<1>1. t \in running /\ review[t].node = "render"
  BY DEF RenderPrompt, AtNode
<1>2. call \in [Uploads -> Call]
  BY PlatformAssumption DEF CallsInv, CallsOK
<1>3. CASE Enqueue(t) /\ review' = [review EXCEPT ![t].node = "call"] /\ UNCHANGED intake
  <2>1. /\ ReviewTypes'
        /\ \A s \in Uploads : /\ review'[s].node = (IF s = t THEN "call" ELSE review[s].node)
                              /\ review'[s].cited = review[s].cited
    BY <1>3 DEF ReviewTypes, Review
  <2>2. \A s \in Uploads : call'[s].pc = IF s = t THEN "queued" ELSE call[s].pc
    BY <1>2, <1>3 DEF Enqueue, Call
  <2>3. running' = running
    BY <1>3 DEF intake
  <2> QED
    BY <1>1, <2>1, <2>2, <2>3 DEF Waits, ReviewsKept
<1>4. CASE Searches(t) /\ UNCHANGED gateway
  <2>1. call' = call
    BY <1>4 DEF gateway
  <2> QED
    BY <1>1, <1>4, <2>1, SearchMoves DEF Waits, ReviewsKept
<1>5. CASE Ends(t, "failed") /\ UNCHANGED gateway
  <2>1. call' = call
    BY <1>5 DEF gateway
  <2> QED
    BY <1>1, <1>5, <2>1, EndMoves DEF Waits, ReviewsKept
<1> QED
  BY <1>3, <1>4, <1>5 DEF RenderPrompt, Prompted

LEMMA AnswerKeepsReviews ==
    ASSUME ReviewTypes, Waits, CallsInv, NEW t \in Uploads, TakeAnswer(t)
    PROVE  ReviewsKept
<1>1. t \in running /\ review[t].node = "call" /\ EndCall(t)
  BY DEF TakeAnswer, AtNode
<1>2. call \in [Uploads -> Call]
  BY PlatformAssumption DEF CallsInv, CallsOK
<1>3. \A s \in Uploads : call'[s].pc = IF s = t THEN "idle" ELSE call[s].pc
  BY <1>1, <1>2 DEF EndCall, NoCall, Call
<1>4. ASSUME NEW stage \in {"query", "review"}, UNCHANGED intake,
             review' = [review EXCEPT ![t].node = "render", ![t].stage = stage, ![t].calls = @ + 1]
      PROVE  ReviewsKept
  <2>1. /\ ReviewTypes'
        /\ \A s \in Uploads : /\ review'[s].node = (IF s = t THEN "render" ELSE review[s].node)
                              /\ review'[s].cited = review[s].cited
    BY <1>4 DEF ReviewTypes, Review
  <2>2. running' = running
    BY <1>4 DEF intake
  <2> QED
    BY <1>1, <1>3, <2>1, <2>2 DEF Waits, ReviewsKept
<1>5. CASE Searches(t)
  BY <1>1, <1>3, <1>5, SearchMoves DEF Waits, ReviewsKept
<1>6. ASSUME NEW st, Ends(t, st) PROVE ReviewsKept
  BY <1>1, <1>3, <1>6, EndMoves DEF Waits, ReviewsKept
<1> QED
  BY <1>4, <1>5, <1>6 DEF TakeAnswer

LEMMA RestartKeepsReviews ==
    ASSUME Restart
    PROVE  ReviewsKept
<1>1. /\ review' = [t \in Uploads |-> NewReview] /\ running' = {}
      /\ call' = [c \in Callers |-> NoCall]
  BY DEF Restart, RestartIntake, RestartLimits
<1>2. NewReview \in Review /\ NewReview.node = "render" /\ NewReview.cited = {} /\ NoCall.pc = "idle"
  BY PlatformAssumption DEF NewReview, Review, NoCall
<1> QED
  BY <1>1, <1>2, PlatformAssumption DEF ReviewTypes, Waits, ReviewsKept

LEMMA ReviewsStay ==
    ASSUME PartsInv, ReviewTypes, Waits, [Next]_vars
    PROVE  ReviewsKept
<1>1. CASE UNCHANGED vars
  BY <1>1, OthersKeepReviews DEF vars, intake, gateway
<1>2. CASE \E t \in Uploads : ReviewStep(t)
  BY <1>2, RetrieveKeepsReviews, RenderKeepsReviews, CallKeepsReviews, AnswerKeepsReviews
     DEF ReviewStep, PartsInv
<1>3. CASE UploadStep
  BY <1>3, UploadKeepsReviews DEF PartsInv
<1>4. CASE UploadRequest \/ PlanChange
  BY <1>4, OthersKeepReviews DEF UploadRequest, BeginUpload, PlanChange, SetTier, gateway
<1>5. CASE LibraryRequest \/ GoldenRequest \/ FeedbackRequest \/ Refuse \/ PromptChange
  BY <1>5, OthersKeepReviews
     DEF LibraryRequest, GoldenRequest, FeedbackRequest, Refuse, PromptChange, intake, gateway
<1>6. CASE LibraryStep \/ GoldenStep \/ Tick \/ RedisBack
  BY <1>6, OthersKeepReviews DEF LibraryStep, GoldenStep, Tick, RedisBack, intake, gateway
<1>7. CASE Restart
  BY <1>7, RestartKeepsReviews
<1> QED
  BY <1>1, <1>2, <1>3, <1>4, <1>5, <1>6, <1>7 DEF Next


(* --- the theorems --------------------------------------------------------- *)

LEMMA PlatformInit == Init => PlatformInv
<1> SUFFICES ASSUME Init PROVE PlatformInv
  OBVIOUS
<1>1. /\ InitIntake /\ InitLimits /\ InitPrompts /\ InitLibrary /\ InitRecords
      /\ scope \in Scopes /\ requests = 0 /\ review = [t \in Uploads |-> NewReview]
  BY DEF Init
<1>2. restarts = 0 /\ running = {} /\ call = [c \in Callers |-> NoCall]
  BY <1>1 DEF InitIntake, InitLimits
<1>3. PartsInv
  BY <1>1, <1>2, IntakeInit, WindowInit, CallsInit, PromptsInit, LibraryInit, RecordsInit DEF PartsInv
<1>4. ScopeHolds
  BY <1>1, PlatformAssumption DEF ScopeHolds, Scope
<1>5. NewReview \in Review /\ NewReview.node = "render" /\ NewReview.cited = {} /\ NoCall.pc = "idle"
  BY PlatformAssumption DEF NewReview, Review, NoCall
<1>6. ReviewTypes /\ Cites /\ Waits
  BY <1>1, <1>2, <1>5, PlatformAssumption DEF ReviewTypes, Cites, Waits
<1> QED
  BY <1>3, <1>4, <1>6 DEF PlatformInv, ReviewInv

LEMMA PlatformKeeps == PlatformInv /\ [Next]_vars => PlatformInv'
<1> SUFFICES ASSUME PlatformInv, [Next]_vars PROVE PlatformInv'
  OBVIOUS
<1>1. PartsInv /\ ScopeHolds /\ ReviewTypes /\ Cites /\ Waits
  BY DEF PlatformInv, ReviewInv
<1>2. Moves
  BY <1>1, EveryStepMoves
<1>3. PartsInv'
  BY <1>1, <1>2, PartsKeep
<1>4. ScopeHolds'
  BY <1>1, ScopeKeeps
<1>5. ReviewsKept
  BY <1>1, ReviewsStay
<1>6. Cites'
  BY <1>1, <1>2, <1>5, CitesKeeps DEF PartsInv, Moves, ReviewsKept
<1> QED
  BY <1>3, <1>4, <1>5, <1>6 DEF PlatformInv, ReviewInv, ReviewsKept

(* Whatever is proved of PlatformInv holds in every state of every behaviour. *)
LEMMA PlatformHolds == Spec => []PlatformInv
<1>1. Init => PlatformInv
  BY PlatformInit
<1>2. PlatformInv /\ [Next]_vars => PlatformInv'
  BY PlatformKeeps
<1> QED
  BY <1>1, <1>2, PTL DEF Spec

(* Every part of the application stays well typed, and the bounds of a scope *)
(* are never passed, in any of its steps and after any restart.              *)
THEOREM PartsAreTyped == Spec => []TypeOK
<1>1. PlatformInv => TypeOK
  BY LimitsHold, LibraryGives
     DEF PlatformInv, PartsInv, ReviewInv, ScopeHolds, ReviewTypes, IntakeInv, PromptsInv, RecordsInv, TypeOK
<1> QED
  BY <1>1, PlatformHolds, PTL

(* The trial is charged at most once per accepted upload and, while no       *)
(* uploads overlap, exactly once and never past the limit (quota.py,         *)
(* documents.py).                                                            *)
THEOREM TrialStaysCharged == Spec => []TrialIsCharged
<1>1. PlatformInv => TrialIsCharged
  BY ChargesFollow DEF PlatformInv, PartsInv
<1> QED
  BY <1>1, PlatformHolds, PTL

(* A task has its file, its rows and its review, whatever fails or restarts. *)
THEOREM UploadsStayWhole == Spec => []UploadsWhole
<1>1. PlatformInv => UploadsWhole
  BY WholeFollows DEF PlatformInv, PartsInv
<1> QED
  BY <1>1, PlatformHolds, PTL

(* What the list or the search shows a member can be opened by that member,  *)
(* for any organizations and roles.                                          *)
THEOREM ListedOpens == Spec => []ListedCanBeOpened
<1>1. PlatformInv => ListedCanBeOpened
  BY OpenFollows DEF PlatformInv, PartsInv
<1> QED
  BY <1>1, PlatformHolds, PTL

(* In no window are more requests let through than the limit, and as many    *)
(* again per outage of Redis and restart; and calls of the provider stay     *)
(* within the bucket, two per tick, and MaxRetries posts each.               *)
THEOREM LimitsStayKept == Spec => []LimitsKept
<1>1. PlatformInv => LimitsKept
  BY WindowGives, CallsGive DEF PlatformInv, PartsInv, LimitsKept
<1> QED
  BY <1>1, PlatformHolds, PTL

(* A call of the model belongs to a review that waits for it, and a review   *)
(* that waits has one, through failures, refusals, swallowed ones (of the    *)
(* queries) and restarts.                                                    *)
THEOREM CallsBelongToReviews == Spec => []CallsHaveReviews
<1>1. PlatformInv => CallsHaveReviews
  BY DEF PlatformInv, ReviewInv, Waits, CallsHaveReviews
<1> QED
  BY <1>1, PlatformHolds, PTL

(* A prompt that reviews use, or that the table calls active, was shipped or *)
(* has passed the gate, and the cache hides no activation.                   *)
THEOREM PromptsStayVetted == Spec => []PromptsVetted
<1>1. PlatformInv => PromptsVetted
  BY DEF PlatformInv, PartsInv, PromptsInv
<1> QED
  BY <1>1, PlatformHolds, PTL

(* Every stored law is split without loss, in order, each clause under its   *)
(* own chapter, section and article, for texts of any length.                *)
THEOREM LawsStaySplit == Spec => []LawsAreSplit
<1>1. PlatformInv => LawsAreSplit
  BY LibraryGives DEF PlatformInv, PartsInv
<1> QED
  BY <1>1, PlatformHolds, PTL

(* A cited law had taken effect when it was imported, or its status was set. *)
THEOREM CitationsStayInForce == Spec => []CitedLawsInForce
<1>1. PlatformInv => CitedLawsInForce
  BY DEF PlatformInv, ReviewInv, Cites, CitedLawsInForce
<1> QED
  BY <1>1, PlatformHolds, PTL

(* The laws that an import answered with are in the library, and feedback    *)
(* that was recorded, or marked incorporated, stays so, whatever entries     *)
(* fail and however the process restarts.                                    *)
THEOREM AnswersStayKept == Spec => []AnswersKept
<1>1. PlatformInv => AnswersKept
  BY LibraryGives DEF PlatformInv, PartsInv, RecordsInv, AnswersKept
<1> QED
  BY <1>1, PlatformHolds, PTL

(* An evaluation over fewer than ten cases that passes hides no failed case: *)
(* neither Cohen's kappa nor an average makes up for one, whatever strings   *)
(* the statuses are.                                                         *)
THEOREM PassesAgree == Spec => []PassMeansAgreement
<1>1. Init => PassMeansAgreement
  BY DEF Init, InitRecords, PassMeansAgreement
<1>2. PlatformInv /\ PassMeansAgreement /\ [Next]_vars => PassMeansAgreement'
  BY EveryStepMoves, PassKeeps DEF PlatformInv, ReviewInv, Moves
<1> QED
  BY <1>1, <1>2, PlatformHolds, PTL DEF Spec
=============================================================================
