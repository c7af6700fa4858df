# legal-review in TLA+

A verification of the back end of *legal-review* (`src/backend/app`): what it
does when requests overlap, when the pay channel repeats or loses a callback,
when a language model answers anything at all, when Redis or a commit fails, and
when a process dies between two steps. TLC checks the modules on small
instances; TLAPS proves every safety property a passing run checks for every
instance. Liveness is checked by TLC only.

    tlc -workers 2 -config MCPayment_serial.cfg MCPayment
    tlc -workers 2 -config MCPlatform_platform.cfg MCPlatform
    tlapm PaymentProofs.tla        # likewise the other seven *Proofs modules

## 1. The system

FastAPI routes over SQLAlchemy (async) and PostgreSQL at READ COMMITTED. Every
request has a session of its own (`db/session.py:46`); a session keeps what it
has loaded, writes only the columns it changed, and takes no row locks by
`SELECT ... FOR UPDATE` anywhere. Hence the hard behaviours: **stale sessions**,
**external calls in the middle of a transaction**, **rollback of more than was
meant**, and **background tasks nothing restarts**.

| Component | State | Operations | Interacts with | Hard | Correct when |
|---|---|---|---|---|---|
| Payment service (`services/payment/service.py`, `api/v1/billing.py`) | orders, payment rows, plans | create, poll, callback, refund | channel (call, callback), quota (reads the plan) | stale rows, repeated/lost callbacks, crash after a channel call | paid ⇔ settled once, refunds backed, plan = what was paid |
| Pay channels (`providers.py`) | none (the channel's trades) | place, query, refund, verify | payment service | answers lost or ambiguous | an unverified callback changes nothing |
| Review graph (`agent/*.py`) | ReviewState, task row, result rows | 11 nodes, 3 routers, trigger | model gateway, retrieval, notifications | retry loop, partial failure, crash | reports only of verified reviews; every run ends where the row says |
| Task API, search, tenants (`tasks.py`, `search.py`, `tenant.py`) | – | list, search, open, status, report | rows of uploads and of the graph | reads between two commits; three rules of who sees what | progress and report agree with the run; what is shown can be opened |
| Upload, sandbox (`documents.py`, `sandbox.py`) | files, task, document rows | upload | quota, graph | file without rows, lost start | an accepted upload is reviewed |
| Quota (`quota_service.py`) | `free_trial_used` | consume, status | plan rows | lost update | charged for what was accepted, and no more than the trial |
| Verification codes (`verification.py`) | code rows | send, verify | SMS/e-mail, auth routes | rollback of attempts, overlap of sends | one use, five attempts, limits |
| Accounts, sessions (`auth_service.py`, `auth.py`, `account.py`) | users, identities, refresh tokens | login, refresh, revoke, reset, bind, unbind | codes, tenants | rotation races, revocation races | one live descendant, no live token after a reset, a phone only once proven |
| Core bridge (`core_user_bridge.py`) | users, organisations | ensure local user | auth service | insert races, a rollback in the middle of a retry loop | no user without organisation |
| Rate limit (`rate_limit.py`) | counters in Redis or memory | check and count | every route | renewed expiry, fallback | limit per window |
| Prompts (`prompt_manager.py`) | registry, cache, `prompts` | load, sync, activate, deactivate | graph nodes | memory against table | versions in use were shipped or passed the gate |
| Model gateway (`tools/llm.py`) | token bucket | complete, retry | graph nodes | retries, waiting callers | a bounded rate |
| Legal library, retrieval (`legal_library.py`, `rag.py`) | laws, clauses | import, status, search | graph | half-imported and poisoned batches | what an import answered with is stored, split without loss |
| Notifications, feedback | rows | record, incorporate, read | graph, routes | flush without commit | what was answered is stored |
| Evaluation (`eval_runner.py`) | golden cases, runs | import, delete, run | routes | rollback of a whole batch, small averages | counted cases are stored (they are not, section 3), a passed run hides no failed case |
| Parsers, front end, deployment, analytics, audit log | – | – | – | – | not modelled, see section 7 |

`PROJECT.json` lists every hazard with its line under `hazards`.

## 2. Modules

| Module | Models |
|---|---|
| `Payment` | orders, payment rows, plans, refunds, as overlapping requests against the channel |
| `PaymentLedger` | what the payment service promises: every request takes effect at one instant |
| `MCPayment` | instances of `Payment` |
| `PaymentProofs` | theorems about `Payment`, and that it implements `PaymentLedger` |
| `ReviewWorkflow` | one review run: nodes, routers, rows, exceptions, step limit, crash |
| `MCReviewWorkflow` | instances of `ReviewWorkflow` |
| `ReviewWorkflowProofs` | theorems about `ReviewWorkflow` |
| `Verification` | rows of one-time codes: when one is sent, what `verify` makes of it |
| `Sessions` | rows of refresh tokens: issue, rotate, revoke |
| `Accounts` | the auth and account routes over both, and users of the Core service |
| `MCAccounts` | instances of `Accounts` |
| `AccountsProofs` | theorems about `Accounts` |
| `Intake` | quota, upload, start and end of a review, who sees a task |
| `Limits` | the clock; requests per address (Redis and memory), calls of the model (token bucket, retries) |
| `Prompts` | one prompt key: release, memory, table |
| `Library` | splitter, import of laws, their status, retrieval |
| `Records` | golden cases, evaluation, feedback, notifications |
| `Platform` | composes the last five: every request passes the limiter, every accepted upload is reviewed with prompt, laws and model calls |
| `MCPlatform` | the instance of `Platform` |
| `IntakeProofs`, `LimitsProofs`, `StoresProofs` (`Prompts`, `Records`), `LibraryProofs` | what every step of a part keeps, whatever surrounds it: lemmas |
| `PlatformProofs` | that every step of `Platform` is such a step of each part; the theorems |

Definitions whose comment begins with *Fault* are deliberate errors: `mutants`
in `PROJECT.json` puts each in the place of the definition that follows it, and
TLC then finds the named property violated.

### Payment

`order`, `rows`, `plan` are the tables `orders`, `payments`, `user_plans`;
`chan` is the channel's knowledge of each trade (a trade has its order's id);
`txn[w]` is a request in progress: where it is (`pc`), what it has loaded (order
status, plan, row), what it has flushed (`closed`). A request is cut at the
points where others can act: before and after each call to the channel, and
between two selects whose results are used together.

| Code | Actions |
|---|---|
| `create_order` (service.py:75) | `CreateReuse`/`CreateNew`, then `Query*`, `ChannelPlace`, `CreateCommit` or `CreateReturn` |
| `get_order_status` (billing.py:126) | `PollOrder`, `Query*`, `Settle` or `PollClose` |
| `handle_callback`, `_mark_paid` (service.py:219, 240) | `CallbackStart`, `CallbackOrder`, `CallbackPayment` or `CallbackMatch`, `Settle`/`SettleFails` |
| `refund_order` (service.py:517) | `RefundStart`, `RefundCall`/`RefundRefused`, `RefundCommit` |
| rollback, crash, timeout | `Abort` at any point: the channel keeps what it has done |

What a reader may look for and how it is treated:

* *Identity map.* `Order.user` and `User.plan` are loaded eagerly, so a request
  carries the plan as it was when the order was loaded; `_activate_plan`'s own
  select does not refresh it (`LoadedPlan`). A request that found no plan inserts
  one, and `user_id` is unique (`SettleFails`).
* *Changed columns only* (`Write`): a status that equals the loaded one is not
  written, even if the table holds another one by now.
* *Locks.* `create_order` flushes the orders it closes before it calls the
  channel: those rows stay locked until it ends (`Unlocked`). Other writes are
  flushed at the commit.
* *Refund answers.* The code takes only SUCCESS for done. The channel may have
  returned the money and answered PROCESSING: `RefundCall` has both outcomes.
* *Sums.* `refunded[o]` stands for the query that sums the REFUNDED rows of `o`;
  it is kept beside the rows only so that actions need no fold. Every property
  about refunds speaks of the rows themselves (`RefundedIn`, which counts a row once
  per unit of its amount), so a sum that had drifted from them would show.
* *WeChat headers.* `wechat_notify` hands `dict(request.headers)` on, with
  lower-case keys, and `verify_callback` looks for capitalised ones (`Verified`).

### ReviewWorkflow

`next` is LangGraph's next node, `state` the `ReviewState`, `task` and `results`
the rows. Node, commit and router are one step, as nothing else writes these
rows; an exception may come before the commit or after it (`Raise`). Model
answers are free: each agent's status and whether its risks carry evidence.
`AgentError` (no usable answer) does not stop the graph: the output is RETRY in
memory and nothing is saved (`NoAnswer`). LangGraph is not part of the
repository and its version is open (`langgraph>=0.2.0`): `Sharing` says whether a
router's assignment to its argument stays, `RecursionLimit` is its step limit;
released versions copy the state, and the customary limit is 25.

### Accounts

`code`, `token`, `user` are the tables `verification_codes`, `refresh_tokens` and
`users` with the identities of a user; `txn[w]` is a request in progress and the
users row its session has loaded. A request reads in one step (several, where a
code is involved: the code row, then the user), and writes and commits in
another; from its first flush on it holds the locks of the rows it has written.

| Code | Actions |
|---|---|
| `send_code` (verification.py:115), behind `/sms/send`, `/email/send`, `/password/forgot` | `SmsSend`, `EmailSend`, `PasswordForgot`, then `SendCommit` |
| `verify` (verification.py:261) | `RefuseCode` (wrong, late or locked), `EnterCode`, `UseCode` |
| logins | `LoginPassword`, `LoginPhone`, `LoginVerification`; `LoginKnown` or `LoginUnknown`; `LoginCommit` or `CreateAccount` |
| `register_password` | `RegisterPassword`, `CreateAccount` |
| `refresh_token_pair` | `Refresh`, `RefreshCommit` |
| logout, one session, all sessions | `Logout`, `RevokeSession`, `LogoutAll` |
| password reset and change | `PasswordReset`, `ResetLoad`, `ResetCommit`; `PasswordChange`, `ChangeCommit` |
| bind, unbind | `BindIdentity`, `BindLoad`, `BindCommit`; `UnbindIdentity`, `UnbindCommit` |
| `ensure_local_user` (core_user_bridge.py) | `EnsureLocalUser`, `BridgeCommit` |
| exception, failed delivery, conflict, crash | `Abort` |

* *Rollback of attempts.* `verify` flushes what a refusal changes (`Flushed`) and
  raises; `get_db` rolls back (`AfterException`). The run `accounts_attempts`
  shows what this does to the attempt counter.
* *No user is ever disabled and no OAuth account linked*: nothing in the
  repository writes `UserStatus` after creation or creates an `OAuthIdentity`.
* *Send limits* each have a window of their own: `Recent` (cooldown), `Lately` (one
  address), `Today` (one target, 24 hours), and each is renewed when it is over.
* *Bridge after a conflict.* `BridgeConflict` is the `IntegrityError` of one try: its
  rollback removes the organisation flushed before (`EnsurePersonalOrg`), the loop goes
  on with another name, and only the foreign key (`HasOrg`) keeps the next try from
  inserting a user without organisation. After `BridgeTries` the request fails.
* *Two successors.* `next` is the column `replaced_by_id`, which the later of two
  overlapping refreshes overwrites. The rows do not say what they were rotated from;
  `prev` is history that does, and `TokenChains` counts by it.
* *Login methods.* `LoginMethods` is `_count_login_methods`: it counts a password even
  when no e-mail and no phone is left, with which nobody can log in
  (`Authenticated`). Unbinding the only identifier of an account with a password is
  thus allowed, and no property says that a usable login remains.
* *A conflict in `account_bind`* is no `ConflictError` but the unique key's own
  exception: the answer differs, the rows do not.
* The cooldown compares aware and naive times on some databases and then fails
  with an error of its own: refused either way.

### Platform

| Code | Actions |
|---|---|
| `rate_limit_middleware` (main.py), `check_and_incr` (rate_limit.py) | `Admit`, `Refuse`, `CheckAndIncr`, `RedisReturns` |
| `upload_document` (documents.py), `consume` (quota_service.py), `save_upload` (sandbox.py) | `BeginUpload`, `SaveUpload`, `CommitUpload`, `AbortUpload` |
| background review (documents.py, nodes.py) | `RenderPrompt`, `CallModel`, `TakeAnswer`, `RetrieveLaws`, `EndReview` |
| `complete`, `TokenBucket.acquire` (llm.py) | `Enqueue`, `Acquire`, `Awake`, `Post`, `Backoff`, `EndCall` |
| `PromptManager` (prompt_manager.py) | `Render`, `SyncToDb`, `Activate`, `Deactivate`, `InvalidateCache` |
| `split_law`, `import_law`, `batch_import` | `StartImport`, `ReadLine` (`Scan`), `EntryFails`, `ImportLaw`, `NextEntry`, `CommitImport`, `AnswerImport` |
| `update_law_status`, `check_time_validity`, `search_simple` | `UpdateLawStatus`, `CheckTimeValidity`, `Retrievable` |
| golden set and evaluation (eval_runner.py) | `StartGolden`, `AddCase`, `CommitGolden`, `DeleteCase`, `EvalRun` |
| feedback, notifications | `Record`, `MarkIncorporated`, `MarkRead` |
| plan rows, written by `Payment` | `PlanChange` |
| process and Redis | `Restart`, `RedisBack` |

* *Order of a review.* `doc_classify` asks the model first; `legal_retrieve` asks it for
  queries and then searches; the reviewers, the verification and the report follow, and
  a retry starts at `legal_retrieve` again. `review[t].stage` says where the review is. A
  prompt or a call that fails ends the review, except that of the queries, which
  `_generate_legal_queries` swallows (`Searches`).
* *Who sees a task* is decided by `apply_org_filter_with_column` (list),
  `_load_task` (every other route) and a rule of its own in `global_search`:
  `Listed`, `MayOpen`, `Found`. `is_super_admin` is a flag set by hand.
* *Files outlive rollbacks*: `save_upload` writes before the organisation check.
* *The expiry of the Redis counter is renewed by every hit* (INCR and EXPIRE in
  one pipeline); the deque of the process drops what is strictly older.
* *Token bucket.* `acquire` sleeps under its lock and then keeps the time from
  before the sleep (`Awake`), so the wait refills the bucket once more. One tick
  is the time of one token; the code's clock is continuous.
* *Prompts in memory.* `activate` changes registry and cache before its caller
  commits, `deactivate` leaves the registry; no route calls `sync_to_db`,
  `activate` or `deactivate`: they are there for operators, so they may come at any
  time, committed or not. `check_gate`'s measurements are `pass`.
* *Batches.* `batch_import` goes on after a failed entry in the same session
  (`poisoned`): the good entries of such a batch are lost with it, though its docstring
  says that one failure harms no other, but the client gets an error and no answer.
  The golden import rolls back and so loses the cases flushed before, and answers as
  if it had not (`GoldenAnswersTrue`, expected to fail). One import of each kind at a
  time.
* *Lines for texts.* The splitter sees a line only through its regular
  expressions: `Kinds`. A clause holds line numbers, so `SplitRight` can compare
  it with the text without a second scan.
* *Paragraphs.* Without an article heading the splitter falls back to one clause
  per paragraph, ended by exactly two newlines (`ParagraphEnds`; a line of blanks does
  not end one). `split_law` computes them at the end; the model keeps them line by
  line (`AddToParagraphs`), so that what they hold can be said of every prefix.
* *Statuses* of golden cases are any strings (`Statuses`), and kappa sums over all that
  occur: `Chance` counts the pairs of cases of which one is expected to be what the
  other is.
* *Averages* (`Total`) count points: a case with a metric of 90 has the points 1 to 90.
* *Flushed only.* Marks that routes flush and do not commit are modelled by what
  they come to: `Flushed`, `Discarded`.
* *Evaluation* is run by the route without a `case_runner`: each case's expected
  answer is measured against itself (`EvalRun`).

## 3. Runs

| Run | Question | Bounds |
|---|---|---|
| `payment_serial` | Do requests that do not overlap implement the ledger, through late payments, re-orders, partial refunds, crashes? | 1 request at a time, 2 orders of one user and product, price 2, 4 ticks, 2 rows per order |
| `payment_callbacks` | Does a trade settle one order only, also matched by its amount, and is every paid trade settled in the end? | 1 request at a time, 2 orders of 2 users, price 1, 3 ticks, callbacks with and without `out_trade_no`, fairness |
| `payment_overlap` | What holds however two requests interleave, on an order that is asked for again, polled and refunded in parts? | 2 requests, 1 order, price 2, 3 ticks, 4 rows |
| `payment_lost_period` | *violated*: every paid period is in `expires_at` | 2 requests, 2 products |
| `payment_split_refund` | *violated*: a full refund is recognised | 2 requests, 1 order, price 2 |
| `payment_wechat` | *violated*: a paid WeChat trade is settled by its callback | 1 request at a time, 2 orders of one user, 2 ticks, fairness, `Channel = "wechat"` |
| `workflow` | Is every report justified, and does the row tell the outcome? | `MaxIteration` 1, limit 17: room for fallback, for running out of steps, for two retry rounds |
| `workflow_fallback` | *violated*: the loop ends at a human after `max_iteration` | the program's 5 and 25 |
| `accounts` | What holds of codes, identities, passwords and sessions, overlapping or not? | 2 requests at a time and 5 in all, one user and one Core user, one phone and one e-mail, 2 passwords, 2 codes, 3 tokens, 2 ticks; cooldown and address window 1 tick, a day 2, one code in each; 2 tries of the bridge |
| `accounts_attempts` | *violated*: five wrong answers lock a code | 1 request at a time, 4 in all, `MaxAttempts` 2 |
| `platform` | Are uploads whole and charged, limits kept, prompts vetted, laws and records what was answered? | 12 scopes (below); 4 members, 2 uploads at once and in all, 3 model answers per review, bucket of 2, 3 prompt versions, 4 lines, 2 laws, 4 golden cases with 3 statuses |
| `platform_golden` | *violated*: what a golden import counts as a success is stored | the golden scope alone |

Why the bounds are enough. Two orders are what reuse, replacing a late order and
one plan extended twice need; two requests are what a stale read and the write it
overtakes need; price 2 is the smallest that can be refunded in parts; time is
only compared with the timeout (1 tick), the match window (0) and the expiry
(2), so four ticks reach every order of these events. Five auth requests are, for
instance, a code sent, a first login, a refresh and a reset with its own code;
three tokens are a login and two overlapping refreshes, or two refreshes in a
row; a code is late, a cooldown over and a token expired after one tick, a day after
two, so that a limit is reached, renewed and reached again. Two tries of the bridge are
a conflict and the try that finds its organisation gone.

The parts of `Platform` share only the limiter, the reviews and the restart; all
of them free at once have too many states. `scope` therefore picks, in the
initial state, the parts one behaviour uses and its bounds (`MCScopes`):

| Parts | What happens |
|---|---|
| uploads | 4 requests of 4 members (team, supervisor, personal, super-admin without organisation), overlaps, plan changes, a restart |
| feedback, limiter | 4 requests through the limiter, 2 ticks, outages, a restart |
| uploads, reviews | 2 reviews that compete for the token bucket, of two members with a restart, or of one through all three stages and 2 ticks; retries of posts |
| uploads, reviews, prompts | a review between prompt changes, a new release; once with one call and three changes, once through the queries |
| uploads, reviews, library | a review between import and status change, with a retry that searches again |
| library | texts of 3 lines in 2 imports or a batch, failures, a restart |
| golden | batches, deletion and evaluation of 4 cases |
| uploads, feedback | feedback of reviewed tasks, marks that are lost |

No cfg constrains the state space. `MaxClock`, `MaxRows`, `MaxRequests`,
`MaxCodes`, `MaxTokens`, `MaxLines`, `MaxBatch`, the set `Uploads` and the
numbers in a scope are guards of the actions that would exceed them; at the limit
the system stops, which is why deadlock is not checked: with every order
refunded and the clock at its end, every request made or a review finished, it
rightly has nothing to do.

Properties, by what they say:

* `SettledOnlyIfPaid`, `ProIsPaid`, `RequestsOK`, `SettledHasReceipt` (overlap)
  relate tables, channel and the memory of stale requests.
* `RefundsBacked` (overlap): the refund rows against money returned, with crashes in
  between.
* `OneOrderPerTrade`, `OwnPaidIsSettled` (callbacks).
* `OneFreshPending`, `ClosedIsUnpaid`, `FullRefundIsRefunded`,
  `ExtendedBySettlement`, `SettledIsFinal`, `ImplementsLedger` (serial). With two
  overlapping requests the first three and `SettledIsFinal` fail: `close_if_expired`
  and `refund_order` write from what they loaded before a channel call. The run
  `payment_split_refund` shows one of these; the others are hazards of the list.
* `ReportIsJustified`, `RowTellsOutcome`, `ProgressGoesBackOnRetry`, `Finishes`
  (workflow).
* `AccountsWhole`, `PhonesProven`, `TokenChains`, `CodeUses`, `SendLimits` (accounts)
  hold for every interleaving, the last three with as many exceptions as requests
  overlap: the code checks and writes in two steps, so a token has two successors
  when two refreshes overlap, and a third can never join them. `OneLiveSession`,
  `ResetEndsSessions`, `PasswordIsChosen` are stated for requests that do not overlap
  (`~overlapped`): two refreshes of one token, a login or a rehash beside a reset
  break them, as the hazards say.
* `TrialIsCharged`, `UploadsWhole`, `ListedCanBeOpened`, `LimitsKept`,
  `CallsHaveReviews`, `PromptsVetted`, `LawsAreSplit`, `CitedLawsInForce`,
  `AnswersKept`, `PassMeansAgreement` (platform). Where a failure costs something,
  the property says how much: a window's limit again for each outage of Redis and
  each restart, two model calls per tick and not one, free uploads beyond the trial
  only by overlap. `AnswersKept` speaks of laws and feedback; of golden cases the same
  statement is false (`GoldenAnswersTrue`).

Findings. `payment_lost_period`, `payment_split_refund`, `payment_wechat`,
`workflow_fallback`, `accounts_attempts` and `platform_golden` each refute a sentence of
the code's own comments or docs, quoted in `PROJECT.json`.

## 4. Fairness

`FairSpec` of `Payment` (`payment_callbacks`, `payment_wechat`) assumes that each step of a request is eventually taken (the
server runs it), that a request does not fail every time it is tried (strong
fairness of the callback's steps and of `Settle`), and that the channel repeats
the callback of a paid trade until one is handled, which both channels document
and `wechat_notify`'s docstring relies on. Nothing is assumed of users, polls or
the clock. `Finishes` assumes that the one asyncio task that drives a review is
scheduled: its calls to model and database have timeouts. A crash ends a run
(`next = "crashed"`); nothing restarts it, and no property claims otherwise.

## 5. Proofs

Every theorem is about every value of the constants that satisfies the named
assumptions of the module that declares them. Those ask for what the code
implies: that there are finitely many requests at a time (`Workers`, `Callers`),
finitely many golden cases, at least one identifier and one password, limits and
sizes that are natural numbers, distinct names for "none". Bounds such as
`MaxClock`, `MaxRows`, `MaxRequests`, `MaxLines` or a scope are any numbers at all,
so they restrict no theorem.

### Payment (`PaymentProofs`)

| Hypothesis | Theorems |
|---|---|
| none | `TypeCorrect`; `Refunds` (`RefundsBacked`) |
| `AllEcho` | `PaidOrders` (`SettledOnlyIfPaid`), `Receipts` (`SettledHasReceipt`), `ProPlans` (`ProIsPaid`), `Requests` (`RequestsOK`) |
| `OneAtATime`, finitely many orders | `TradesUsedOnce` (`OneOrderPerTrade`) |
| `OneAtATime`, `AllEcho` | `LedgerImplemented` (`ImplementsLedger`), `NoSecondOrder` (`OneFreshPending`), `PaidNeverClosed` (`ClosedIsUnpaid`), `FullRefunds` (`FullRefundIsRefunded`), `SettledForGood` (`SettledIsFinal`), `PeriodsAdded` (`ExtendedBySettlement`) |

`AllEcho`: callbacks carry `out_trade_no`, as both channels' do; matched by amount
a callback may settle another order, and those properties fail. `OneAtATime`:
one request at a time. With two the properties are false (section 3), so the
hypothesis is no convenience; it says what the code relies on.

* *Stale requests.* `SettledOnlyIfPaid` alone is not inductive: `Settle` writes
  long after the payment was looked up, so the invariant must say what every
  request in progress still may rely on. That is `RequestsOK`: a request about to
  settle works on its own trade and that trade is paid; one that refunds works on
  an order with a receipt. These survive because the channel never takes a payment
  back and no request removes a receipt (closing touches PENDING rows only).
  `SafeInv` is the conjunction, `StepSafe` the step with one case per action, and
  `SafeFromProgress` the lemma that a step which only adds rows, payments and
  receipts keeps what other requests rely on.
* *Refunds in flight.* Between the channel's answer and the commit, money is
  returned that no row shows. `RefundInv` counts it: each request past its channel
  call owes one unit per unit of its amount (`Owed`), what is recorded and owed
  together is at most what the channel returned. `UnitsInv` carries this over to the
  rows themselves. Every request owes on its own, so
  any number may overlap; a crash only forgets what it owed.
* *The ledger.* `AloneInv` joins what states of the ledger satisfy (`LedgerInv`: no
  two orders in time for one product, refunds within the price and equal to it
  exactly when REFUNDED), what the rows add, and that what the one request has
  loaded is still what the tables hold. Then each step of `Payment` is a step of
  `PaymentLedger` or changes nothing it sees, `LedgerStepKeeps` shows that the
  ledger keeps its part, and the other properties follow from ledger states or
  ledger steps.
* *Trades.* `TradesInv` says that a settled order has a settled row with some paid
  trade, and that no two orders' settled rows share one; choosing it is an
  injection from settled orders into paid trades.

### Review workflow (`ReviewWorkflowProofs`)

For every `MaxIteration`, `RecursionLimit` and `Sharing`: `TypeCorrect`,
`OutcomeInRow` (`RowTellsOutcome`), `JustifiedReports` (`ReportIsJustified`),
`ProgressGoesOn` (`ProgressGoesBackOnRetry`).

`ReportIsJustified` speaks of the end of a path through the graph; its
strengthening `PathInv` says at each node which reviewers have spoken in the
present round, so that arriving at `evidence_verify` means all four have.
`AheadInv` bounds what the row shows by the node that runs next; where nothing is
written (no answer, no document) the row lags behind but never runs ahead, except
at the two nodes where a retry starts over.

### Accounts (`AccountsProofs`)

* `TypesHold`, `AccountsStayWhole`, `PhonesAreProven`, `TokensChain` hold for any overlap. A commit is
  one of a few changes of the tables (`UserStep`, `TokenStep`), whatever handler
  makes it. `AccountInv` is kept because each checks the unique keys at its commit;
  `TokenInv` because tokens are issued in order, so that a successor is a later one
  and a token's owner and login exist before it.
* `PhonesAreProven` follows the code a request carries: from the row it was entered for,
  through the session, to the phone it becomes, while the row keeps target and purpose.
* `SessionsAreSingle`, `ResetsEndSessions`, `PasswordsAreChosen` are
  about histories without overlap. `Alone` says that until the first overlap what
  the one request has loaded is still true (`Fresh`), and that live tokens differ in
  their login and know the last reset of their user.
* `CodesAreUsedUp`, `SendsAreLimited` and `TokensChain` bound rows *and* the requests that are about to
  add one: `CountInv` shows that their number together never passes the limit, plus
  as many as overlap.

### Platform (`PlatformProofs` and the modules of its parts)

`EveryStepMoves`: a step of the whole is a step of each part or leaves the part
alone. Each part's invariant is kept by its own steps (`IntakeKeeps`,
`WindowKeeps`, `CallsKeeps`, `PromptsKeeps`, `LibraryKeeps`, `RecordsKeeps`), so
their conjunction `PartsInv` is kept by all; `ReviewInv` adds what joins the parts,
namely that reviews cite laws the library holds and wait exactly for the calls the
gateway has. The theorems: `PartsAreTyped`, `TrialStaysCharged`, `UploadsStayWhole`,
`ListedOpens`, `LimitsStayKept`, `CallsBelongToReviews`, `PromptsStayVetted`,
`LawsStaySplit`, `CitationsStayInForce`, `AnswersStayKept`, `PassesAgree`, one for
each invariant of the run `platform`.

* *Charges.* While no uploads overlap, `ChargedAlone` says that the one request's
  copy of the plan is the row, and within the limit.
* *Window.* `LabelledWith` gives each request let through a counter (Redis, or the
  process in its n-th life) and a slot of that counter; two with the same label are
  a window apart. So the requests of one window map one to one into labels, of
  which there are `RateLimit` per counter.
* *Calls.* Tokens in the bucket plus calls admitted never exceed a full bucket per
  life and two per tick up to the last refill; the second disjunct of `Spent` is the
  sleeper that has taken its token in advance. Posts still to be made are a set
  (`Left`), so that admitted calls times `MaxRetries` covers posts made and to come.
* *Splitter.* `SplitInv` says of the splitter's state after any prefix of a text what
  `LawRight` says of the result: every line is in the clause it belongs to, clauses
  are in order and name the last headings before them. As it is kept line by line
  (`ReadLine`), it covers texts of every length without an induction over texts.
* *Kappa.* `KappaMeans`: with fewer than ten cases one disagreement leaves kappa
  below 0.9, as 10 (n - 1) n < 9 n n for n < 10; and kappa is taken to be 1 only if
  both sides give one and the same label to all. The chance agreement is a set of pairs
  of cases, so nothing is assumed of the labels or their number. `NoSectionMissing`: an average at
  its maximum leaves no case below it.

### Only model-checked

Liveness under fairness: `OwnPaidIsSettled` (`payment_callbacks`) and `Finishes`
(`workflow`). The provers here have no rule for `ENABLED` and so none for `WF` and
`SF`. The runs that expect a violation are counterexamples and need no proof.

## 6. Plan

1. Payment, its ledger, the review workflow, accounts, platform: modelled and
   checked.
2. Proofs of every safety property of a passing run, and the refinement of the
   ledger: done.
3. Next: safety lemmas under the liveness properties (a measure that every step of a
   review lowers); what of the ledger survives requests that overlap but work for
   different users.

## 7. Not modelled

* Signatures and request formats of the channels; the numbers behind embeddings
  and scores; texts of prompts, laws and answers. Where their outcome matters it
  is a choice.
* Parsers and OCR: pure input handling through libraries; a failed parse is an
  exception of the workflow.
* Front end: keeps no state that the properties speak of. Deployment and
  migrations: only their unique keys, NOT NULLs and defaults are used.
* Analytics and audit log: rows written once and listed. `metrics.py`: counters
  in memory, shown only.
* New notifications and new user feedback: neither sets `organization_id`, which
  migration 0006 made NOT NULL, so each insert fails, in a session of its own or
  swallowed by its caller. `Notices` are the rows from before.
* Login events, profile fields, the proxied login of the Core service:
  no property tells them apart.
* Several tiers, periods and currencies are one product each: the payment service
  compares them only for equality. `"pro"` stands for every paid tier in `Intake`.
* The workflow keeps only the newest result row of each agent, and no logs:
  those are written in sessions of their own, and their failure is swallowed.
* Lengths of time in `Accounts` are ticks: no request lasts a tick, as ticks are
  minutes and requests are not.
