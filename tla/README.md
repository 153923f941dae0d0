# Verification of FinaX

FinaX is a keeper for Aave V3 positions on Arbitrum. A borrower signs a mandate
(`RiskParams` with a signature, a nonce and a deadline). The backend watches the
borrower's position, and when its health factor nears liquidation it sends one
transaction to a vault contract, which repays debt with a flash loan, takes
collateral through an allowance, swaps it to pay the loan back, and reverts
unless the position has improved. An optional agent proposes rescues that a human
approves.

This directory holds TLA+ models of that system, TLC configurations that check
them on small instances, and TLAPS proofs of the results that matter for every
instance. Paths below are relative to `src/`.

## 1. The system

### 1.1 Components

| Component | Code | State | Operations |
|---|---|---|---|
| Circuit breaker | `backend/app/core/breaker.py` | failure streak, pause, reason, threshold | `allow`, `record_success`, `record_failure`, `trip`, `reset` |
| In-flight registry | `core/inflight.py` | locked borrowers, time of the last release, cooldown | `can_start`, `acquire`, `release` |
| Protection service | `core/protection_service.py`, `core/state.py` | mandates, position states | `register`, `snapshot`, `protect`, `tick` |
| Worker, container, config routes | `scheduler.py`, `main.py`, `deps.py`, `api/routes_config.py`, `api/routes_positions.py`, `api/routes_metrics.py` | autonomous flag, wiring | worker loop, `PUT /config`, `POST /breaker/reset`, start and shutdown |
| Submitter | `core/submitter.py` | none of its own; acts on the keeper's account | `submit`, with a direct-repay fallback |
| RPC client | `chain/client.py` | active endpoint | `call`: retries and failover |
| Vault | `contracts/src/LiquidationShieldVault.sol`, `HealthMath.sol` | used nonces, token balances | `executeProtection`, `executeOperation` |
| Approvals | `api/routes_agent.py`, `agent/store.py`, `agent/models.py` | proposals, tuning suggestions, audit rows | approve, reject, dismiss, panic; insert, claim, finish, count |
| Crew graph | `agent/graph.py`, `agent/tools.py`, `agent/facts.py` | one run's state | monitor, analyst, strategist, gate, propose, tuner, auditor |
| Policy gate | `agent/policy.py` | none | sixteen checks, verdict, severity |
| Chat and number guard | `agent/chat.py`, `agent/toolspec.py`, `agent/guard.py` | stored threads and messages; per turn the conversation and the guard's allow-list | a turn with its tool loop, deletion of a thread |
| Assessment | `core/pipeline.py`, `risk.py`, `sizing.py`, `selector.py`, `viability.py` | none | risk verdict, repay size, asset choice, cost check |
| Simulator | `core/simulator.py` | none | dry run with a bump loop |
| Monitor | `core/monitor.py` | last prices, volatility estimate | `poll_once`, `sample_price`, `classify_state` |
| Prompts, runtime, readers, settings, consoles | `agent/prompts.py`, `agent/runtime.py`, `chain/*`, `config/*`, `frontend/*` | none that decides | I/O and presentation |

### 1.2 Interactions

The backend is one asyncio process. Tasks interleave only at an `await`; there
are no threads inside the core. The worker and every API request call the same
`ProtectionService`, which owns the breaker and the registry:

    worker.tick ----+
    POST /protect --+--> protect: register, breaker, can_start
    approve --------+      await pipeline.evaluate
                           await simulator.simulate
                           acquire  (synchronous: the real test)
                           await submitter.submit --> ChainClient.call --> node
                           label, breaker, release (finally)

    POST /agent/crew/run --> crew graph --> assess, snapshot, metrics (reads)
                             policy gate --> proposals, tuning suggestions, audit
    POST /agent/chat ------> model <--> read-only tools; threads and messages

`ChainClient` is shared by all of them. The agent's SQLite store is the only state
that survives a restart on the backend's side; the chain (keeper nonce, mempool,
vault nonces, positions) is the other. A crew run queues a row and nothing else: a
human decision carries it to `protect`.

### 1.3 What is hard

* State read before an `await` and used after it: the breaker, the registry
  copy of a tick, the pair an approval captured, the count behind the rate limit,
  the active endpoint.
* A broadcast that may have been delivered although the caller saw an error, a
  receipt that does not come in 120 s, a restart with a transaction pending.
* Decisions on one proposal that overlap, with a single conditional write among
  unconditional ones.
* Each step of the flash-loan body may fail after earlier steps moved tokens.
* A crew run holds figures across model calls of up to a minute, while the mandate
  is replaced and the position moves; its row and its audit row are two writes.
* Chat turns share threads that may be deleted under them, with a model that may
  ask for tools for ever.

PROJECT.json lists these one by one, each at its line with the properties that
cover it.

### 1.4 What correctness means

* Registry and service: rescues of one borrower never overlap, every lock is
  released, no state says SUBMITTED behind a free lock.
* Breaker: a pause lets nobody new in, and the failures that can still follow it
  are bounded; a pause nobody resets ends all submissions.
* Submitter: the keeper's transactions do not pile up; RESTORED is never wrong;
  every submission ends.
* Planning: the repayment is the least that restores the target, within the debt;
  the cheapest collateral is chosen; what is submitted was quoted together.
* Approvals: a proposal runs at most once, never after an accepted rejection; the
  rate limit holds up to the number of concurrent runs.
* Crew and gate: whatever the models say, a queued plan is one the vault would take;
  the result and the audit trail tell what a run did; a run ends.
* Chat: an answer without a banner states figures its own turn was shown; a model
  sees the question it answers; messages go with their thread; a turn ends.
* RPC client: giving up should mean that every endpoint was asked, and does for a call
  that no other steers (section 6); outages end for the callers when they end.
* Vault: a transaction reverts entirely or leaves the position better and within
  what was signed; a nonce is worth one rescue.

## 2. The modules

| Module | Models | Uses |
|---|---|---|
| `CircuitBreaker` | `breaker.py` | |
| `InFlightRegistry` | `inflight.py` | |
| `ProtectionService` | `protection_service.py`, worker, routes | extends the two above; instance of `SingleFlight` |
| `SingleFlight` | abstract: what the lock promises | |
| `RescueSubmission` | `submitter.py` over `client.py`, keeper account, mempool | |
| `ApprovalQueue` | `routes_agent.py`, `store.py`, the gate and insert of the crew | |
| `PolicyGate` | `policy.py` and the answers it judges, as operators | |
| `CrewGraph` | `graph.py`, `tools.py`, `store.py`, dismissal of suggestions | extends `PolicyGate` |
| `NumberGuard` | `guard.py`, as operators | |
| `ChatTurns` | `chat.py`, `toolspec.py`, threads of `store.py` | extends `NumberGuard` |
| `RescuePlanning` | `pipeline.py`, `risk.py`, `sizing.py`, `selector.py`, `viability.py`, `simulator.py` | |
| `ChainClient` | `client.py` | |
| `LiquidationShieldVault` | the vault, `HealthMath`, the Aave position | |
| `MC...` | constants and symmetry for TLC | the module named |
| `...Proofs` | theorems | the module named |

Definitions marked "Mutant" are wrong variants of the definition below them, used
to see that a property notices the bug; no specification uses them.

### ProtectionService

Each action is the code between two awaits; `pc[t]` is the await at which task
`t` is suspended. Requests are slots in `Clients`; the worker is one more task.
`EnterProtect` is `protect` from its first line to the first await and is shared
by the API and by `PollDone`, because the worker enters `protect` in the segment
that follows the poll. `SimulateOk` contains the lock test and the broadcast
decision, with no second look at the breaker. `SubmitRestored` and
`SubmitReverted` contain the label, the breaker, and the `finally` that releases.

What the awaits return comes from the chain and is chosen freely among the
outcomes the code tells apart. Abstractions: an absent position state reads as
HEALTHY (as `state_of` does); the cooldown is kept as the time that remains;
"tick" stands for the point between two borrowers of one pass; the order in which
a pass visits borrowers is free. `build_container` never wires a simulator without
a submitter, so `Modes` has two members. `unregister` has no caller under `app/`
and is not an action. Cancelling the worker at shutdown is part of `Restart`.
`GET /positions/{b}` with an address that is not checksummed writes a state under
an alias key; the model has canonical keys only.

### RescueSubmission

At most one submission per borrower exists, which is what `SingleFlight` says and
`ProtectionService` implements, so the state is indexed by borrower. `_send` is
re-run from the start by `ChainClient.call` after a transport error
(`TransportError`), which at "send" may come after delivery. The node's
acceptance rule is `Accepted`: a nonce that is not spent and a fee that beats the
transaction waiting under the same nonce. A transaction is identified by its
nonce, mandate and fee. `FallbackTriggered` is allowed at every step of the try
block because any JSON-RPC error takes that branch. `Mine` is the chain.
`MaxTries` stands for endpoints times retries.

### ApprovalQueue

Each store call is one SQL statement between awaits. `FinishProposal` is the
unconditional `UPDATE`; `ClaimProposal` is the conditional one. The whole gate but
the rate limit is one Boolean, `eligible`, which the world may flip at any time;
the rate limit is modelled exactly, since approval counts the proposal it is
about. `service.protect` is reduced to its first act, registering the pair, and
its return. Rows outlive their TTL before they leave the one-hour window.

### PolicyGate

`Checks` is the record of all sixteen checks, in the code's names; `Blocking`,
`Allowed` and `Severity` are the verdict. Health factors keep a unit finer than a
basis point, because the gate floors one (`HfBps`) and rounds another (`Round`, to
even). `GateRaises` is the one input on which the code returns no verdict. An
assessment is any record that `PipelineAnswers` admits, which is what `RescuePlanning`
shows of `evaluate` and no more: the target is in the signed band, but the signed
cost is not among the pipeline's conditions.

### CrewGraph

One borrower; each action is the code of a node between two awaits, and `pc[r]`
names the await. `read` is what a node has read and not yet judged, so that the
gate's assessment, snapshot, metrics and counts come from different moments, under
the mandate the node took first. `state` is LangGraph's state with the fields that
decide something; a node's partial update is merged into it by `Goto`. A model may
choose any strategy, suggest any value for any tunable field, or fail. Any read or
write outside a `try` may raise (`RunFails`). The two counts are one step with free
results and so are the breaker and the lock: how the counts and the inserts of
several runs interleave is `ApprovalQueue`'s subject, the breaker and the lock are
`ProtectionService`'s. The number guard, which judges the prose of propose and of the
auditor, changes no decision, but it raises on an infinite figure among the facts
(`GuardRaises`): from there such a run can only fail. A run does not look at another run's rows except through
those counts, so one run is enough for TLC; the proofs are about any number. `Unregister` has no caller under `app/`;
it is kept because the nodes handle it ("mandate disappeared mid-run").

### NumberGuard and ChatTurns

Prose is the set of figures in it. `Renderings` and `Matches` are exact over
rationals; figures are naturals of the fourth decimal, or the float infinity, on which
the check raises before it reads the prose (`CheckRaises`). A turn's actions follow
`run_chat`, and it may fail at every await but a tool call, whose errors are answers
(`TurnFails`). `AppendMessage` carries the foreign key, so after its thread was deleted,
and with an infinite figure observed, failing is all a turn can do. Messages are rows by id, and ids are never
given twice (`AUTOINCREMENT`, `lastId`); the history is the rows with fewer than
`HistoryLimit` newer ones in the thread, or all of them when the limit is negative, as
SQLite has it. `returned` records what tools returned
to a turn, for `FiguresTraced`. The tools differ only in whether their answers hold
numbers; errors and explanations are strings, which the guard does not read.

### RescuePlanning

One call of `evaluate` followed by one of `simulate`. Each read may answer anything
in the sets given by the constants, also when the same figure is read twice (the
debt price is). Sizing keeps the code's integer arithmetic; the WAD factors cancel
because WAD is a multiple of BPS squared, and `Scale` is 10^decimals for every
token. Only the head of the ranking is used, so the stable sort is its first
element (`IsFirst`). `int(k * sigma)` is a free shift of the target. A raising
quote is an amount of 0 in the selector and an exception in the bump loop. `Selected`
and `NoneEligible` follow the last `Scored` without an await; nothing that could
run in between touches their variables. `plan` is updated in place after a bump,
but the submitter is given the simulator's figures, so it is not kept.

### ChainClient

`active` is shared, and `TurnTo` reads it anew at every offset, as the loop does.
`tried` and `steered` record which endpoints a call asked, and whether another
call moved `active` meanwhile; no action reads them. `up` is the environment.

### LiquidationShieldVault

One borrower, one collateral asset, debt in the repaid asset and elsewhere. Steps
of the flash-loan body are actions, so that a revert may strike after each;
nothing else runs until the transaction ends. `WithdrawCollateral` carries
Aave's own check on the aToken transfer. `ExecuteSwap` lets the market name its
price; `MarketEdge` bounds how much it may beat the oracle. The residual goes to
the borrower's wallet. Divisions truncate as in the contract. Amounts are far
below 2^256; overflow is not a subject of this model.

## 3. The runs

Every run finishes within five minutes on two workers.

| Run | Module, config | Checks |
|---|---|---|
| `service` | `ProtectionService`, `Service.cfg` | lock and label, failure overrun, admission while paused; refinement of `SingleFlight`; locks are released, borrowers polled, a pause quiesces |
| `submission` | `MCRescueSubmission`, `Submission.cfg` | one pending keeper transaction, RESTORED is real, submissions end |
| `approval` | `MCApprovalQueue`, `Approval.cfg` | at most one execution, rejection is final for execution, rate overshoot |
| `planning` | `MCRescuePlanning`, `Planning.cfg` | least size, within the debt, cheapest collateral, amounts quoted together, termination |
| `failover` | `ChainClient`, `Failover.cfg` | recovery from outages |
| `vault` | `MCLiquidationShieldVault`, `Vault.cfg` | nonces, no worse position, bounded spending |
| `crew` | `MCCrewGraph`, `Crew.cfg` | executable proposals, honest results, a complete trail, termination |
| `chat` | `MCChatTurns`, `Chat.cfg` | traced figures, the question in view, no orphaned messages, termination |
| `no_second_broadcast` | `NoSecondBroadcast.cfg` | violated, see section 6 |
| `executed_is_final` | `ExecutedIsFinal.cfg` | violated |
| `no_custody` | `NoCustody.cfg` | violated |
| `exhausted_asked_all` | `ChainClient`, `ExhaustedAskedAll.cfg` | violated |

### Bounds

* `service`: two borrowers, so that one may starve the other, the worker and one
  request, thresholds 1 and 2, one cooldown, both wirings. Two tasks are the fewest that
  race for a lock and for the breaker; a third, which could still be assessing while one
  holds the lock and one has lost it, is covered by the proofs only. A threshold of 2
  with 1 reachable by `PUT /config` lets the threshold drop inside a streak. No
  symmetry, since liveness is checked; `approval` alone uses one, with nothing temporal
  but action properties.
* `submission`: two borrowers with a mandate each, two fees, two tries, one mined
  keeper transaction. Two fees are enough for one transaction to displace
  another. `MaxNonce` is the only bound on the chain; with it TLC stops mining,
  not submitting.
* `approval`: three proposals, two requests, two crew runs, limit 2: the limit can
  be reached and overshot by one, and approve and reject overlap in every way.
* `planning`: BPS is 4, so that costs below a basis point occur with values up to 8;
  two collaterals of which the dearer may have the higher threshold; prices that
  include 0 (no answer); two targets; limits 0 and 2, so that a limit can fall below
  the bumps already made.
* `crew`: one run, two dismissals, two mandates (one without a deadline, one that
  expires and bounds cost and band more tightly), six assessments and three
  accounts chosen one step to either side of a bound: half a basis point above the
  trigger, cost above the tighter and above both caps, repay one unit above the
  share of the debt, a declined one near its target, no debt. Fourteen of the sixteen
  checks fail somewhere; the other two cannot at this caller: `registered`, because the
  node returns before the gate when the mandate is gone, and `target_in_signed_band`,
  because the pipeline clamps the target into the band.
* `chat`: two turns, two threads, two iterations of the tool loop with up to two
  calls each, a history window of 2 over 3 earlier messages: the wrong end of it would
  miss the question, and the other turn's question and answer can push the question
  out. Scales are small (a token
  is 50, a WAD 1000, the tolerance 1/20) because 10^18 is beyond TLC's integers;
  each kind of rendering occurs. The reply is backed once the tools have returned their
  figures and not before; a tool may also return an infinite figure.
* `failover`, `exhausted_asked_all`: two calls, two endpoints, two attempts: retry,
  failover and exhaustion all occur, and one call can move the other's rotation.
* `vault`: amounts up to 4, two prices, two signed mandates (one that expires
  first) and an unsigned one under a nonce the borrower did sign. Small amounts
  put the truncations of `leverageWad`, the premium and the health factor on
  their boundaries.

### Fairness

* `ProtectionService`: weak fairness of each task's steps and of time. RPC calls
  and the receipt wait carry timeouts, so every await returns or raises, and
  asyncio resumes ready tasks. Requests, operators and restarts owe nothing.
* `RescueSubmission`: weak fairness of each submission, for the same reason. The
  chain owes nothing: submissions end although nothing is ever mined.
* `RescuePlanning`: weak fairness of the one planning; every read returns or raises.
* `CrewGraph`, `ChatTurns`: weak fairness of each run and each turn: reads and
  statements end, and every model call is under `asyncio.wait_for`. Requests, the
  borrower and the model's choices owe nothing.
* `ChainClient`: weak fairness of each call. Endpoints owe nothing; `OutageEnds`
  assumes in its own premise that they become stable.

Deadlock is checked in every run but `chat`, which ends when both turns are over and
both threads are deleted.

## 4. The proofs

All theorems hold for every value of the constants that satisfies the named
assumptions of the modules. Every invariant, action property and refinement of the
passing runs is the subject of one; each inductive invariant was first checked by TLC on the
instance of its run.

`ProtectionServiceProofs`

* `TypeCorrect`.
* `LockCorrect`: the lock is held exactly while a task awaits a submission, one
  task per borrower, and SUBMITTED implies the lock. The conjunction is inductive
  with the type invariant; none of its parts is alone, since freeing the lock
  keeps the equivalence only if nobody else awaits a submission. Most actions are
  shown "quiet" once; three are not: taking the lock, resolving, restarting.
* `SingleFlightImplemented`: every step maps to `Begin`, `End`, `Lost` or a
  stutter, with the lock invariants as hypothesis.
* `PausedAdmitsNobody`: an action property; each action is examined.
* `OverrunBounded`: the streak plus the tasks still inside `protect` stays below
  the largest threshold plus the number of tasks. Every failure removes a task
  from the set it adds to the streak, so the sum is what is inductive.

`RescueSubmissionProofs`

* `SubmissionTypeCorrect`, the bound on tries included.
* `KeeperSerialised`: strengthened with "a nonce a submission has read is at most
  the confirmed count"; the node then accepts it only if it is equal.
* `RestoredIsReal`: strengthened with what a signed transaction implies: a receipt
  with its nonce and mandate and status 1 was mined after the submission began,
  because mined nonces are below the count the submission read.

`RescuePlanningProofs`

* `PlanningTypeCorrect`: no figure is negative, division included.
* `SizingCorrect` and `SizeWithinDebt`: the invariant is that a positive size is the
  floored quotient of numerator and denominator on the account that was read. "Reaches
  the target" is shown equivalent to "times the denominator covers the numerator"; the
  bracket of floor division does the rest. For the debt: numerator <= debt *
  denominator exactly when the collateral covers the debt at the bundled cost.
* `RankingCorrect`: costs that compare after flooring compare before it up to one basis
  point (`FlooredCostsCompare`); the invariant says that the list is
  empty until the selector has its price and that every candidate on it is scored
  with that price.
* `DryRunCorrect`: between a bump and its quote the two disagree, so the invariant
  states agreement by stage, and that a bump under way is within a limit too.

`ApprovalQueueProofs`

* `QueueTypeCorrect`.
* `ExecutionCorrect`: a request that won the claim and has not called `protect`
  yet holds a licence; an undecided row has no licence, execution or refusal; two
  requests never hold a licence for one row; a licence means no execution so far.
  The unconditional writes keep this because none of them makes a row PENDING.
  `RejectionHonoured` is another consequence of the same invariant.
* `RateBounded`: rows in the window plus verdicts not yet inserted stay below the
  limit plus the number of runs; the gate adds a verdict only below the limit, the
  insert turns a verdict into a row.

`ChainClientProofs`

* `ClientTypeCorrect`.
* `ExhaustionCorrect` is about `UnsteeredAskedAll`, what is left of `ExhaustedAskedAll` once
  the calls of its counterexample are set aside: a call whose rotation nobody turned has asked exactly the
  endpoints at the offsets up to its own, counted from the active one
  (`AskedInv`); offsets 0 to N - 1 reach every endpoint (`RotationCovers`). The success
  of another call moves `active` and marks the calls under way as steered in the same
  step, which is why the invariant can leave those out.

`LiquidationShieldVaultProofs`

* `VaultTypeCorrect`, `NonceCorrect`, and the action properties `PositionNoWorse` and
  `SpendingBounded`, from one invariant that relates the running transaction to the
  snapshot taken when it began: which checks it has passed (`TxInv`), that the nonce
  is the only one whose marks and count differ (`NonceInv`), where the collateral and
  the loan are at each step of the body (`FundsInv`), and what the guards at the end
  have established (`GuardInv`). A revert restores the snapshot; the arithmetic is in
  the last step only.

`CrewGraphProofs`

* `CrewTypeCorrect`, `TerminalCorrect`, `TrailCorrect` and `ProposalCorrect`, from one
  invariant. `RunInv(r)` says for each await of run `r`
  which rows it has left, what its graph state holds, and which mandate, assessment and
  verdict its node has read; in particular the terminal the auditor will report is
  honest at the moment the run reaches the auditor, by whichever of the six routes.
  It speaks of one run and its own rows, so `RunKept` carries it over every other
  actor's step, and one lemma per node (`...Moves`) shows that the run's own step keeps
  it. `DismissInv` needs from `RunInv` that a suggestion is inserted once: a second
  insert would reopen a dismissed row. `ProposalCorrect` then takes apart a
  favourable verdict (`AllowedMeans`).

`ChatTurnsProofs`

* `GuardCorrect`: first arithmetic (`MatchRestates`): what matches a rounded,
  truncated or scaled rendering of a value restates the value, for every tolerance and
  scale; then that the allow-list of a turn holds only what tools returned to it.
* `QuestionCorrect`: a row of a turn is in the thread the turn is on (`RowsInv`), so what
  the history leaves out has a full window after it (`QuestionInWindow`). What keeps the
  property afterwards is that the rows newer than a question only grow, or go together
  with it when the thread is deleted (`SeenKept`).
* `CascadeCorrect` and `ChatTypeCorrect`, from the same invariant.

The assumptions the proofs use: counts and amounts are naturals, scales are positive,
placeholders for "none" and the float infinity are no values, and the mandates satisfy
the API's validators. TLC evaluates each of them on the instances it checks.

Proved without a run of their own: `OneSubmissionPerBorrower` (in `LockCorrect`),
`BumpsBounded` (in `DryRunCorrect`) and `UnsteeredAskedAll` (`ExhaustionCorrect`).

Only model-checked: the liveness properties (`LockReleased`, `EveryBorrowerPolled`,
`PauseQuiesces`, `SubmissionResolves`, `PlanningEnds`, `OutageEnds`, `RunEnds`, `TurnEnds`),
for which the prover has no rules. `SingleFlight` is a safety specification: it states no
fairness, and none is shown.

## 5. Properties and the bugs they notice

PROJECT.json names, for every property of a passing run, a wrong variant of a
modelled definition under which TLC finds the property violated: a leaked lock on
the failure path, a breaker check left to the callers, a claim whose `WHERE` names
the id only, a broadcast that is not counted, a nonce that is not marked, a health
guard that ignores leverage, and so on.

## 6. Where the code and its documents disagree

Each has a run whose counterexample is the scenario.

* `NoSecondBroadcast`: after a receipt timeout the lock is freed and the next
  rescue is broadcast with the first one pending; a transport error re-broadcasts
  at once. `PRD.md:208` forbids it. The second carries the same keeper nonce, so
  at most one of them is mined (`OneKeeperTxPending`).
* `ExecutedIsFinal`: `finish_proposal` writes by id only, so a slow approval writes
  STALE or EXPIRED over EXECUTED. Nothing runs twice; the record is wrong.
* `NoCustody`: when the debt shrank below the planned repayment, the surplus of the
  flash loan stays in the vault, and nothing returns it.
* `ExhaustedAskedAll`: `ChainClientError` is "raised when every configured RPC endpoint
  fails a call" (`client.py:30`). Each attempt computes its endpoint from the shared
  `_active` (`client.py:81`), so a call that another one overtakes asks one endpoint twice
  and raises without having asked the other, which may be up. A call that nobody steers
  does ask all of them (`ExhaustionCorrect`), and `OutageEnds` is what callers can rely on.

Seen in the models, with no run of their own:

* The breaker is read once, before two awaits (`EnterProtect`, `SimulateOk`). A
  rescue admitted before a panic or before the tripping failure is broadcast after
  it. `PRD.md:211-212`: "no further gas is spent until reset"; `routes_agent.py:365`:
  "Stop everything". `FailureOverrunBounded` and `PauseQuiesces` say what does hold.
* Approval counts the proposal itself against the hourly limit (`Revalidate`): at the
  limit it can only become STALE, which `agent/models.py:34` reserves for a position
  that "had moved underneath it".
* A position without debt is assessed with an infinite health factor, and
  `round()` of the infinite gap raises (`GateRaises`, `policy.py:136`): the run ends in
  "error", and an approval in a 500, although `policy.py:13-14` has every check
  reported. `tests/test_agent_policy.py:152` gives the debt-free snapshot an
  assessment with a finite health factor.
* The number guard raises on the same infinity: `float(int(value))` (`guard.py:73`) of every
  allowed figure, before the prose is looked at. A crew run whose monitor saw a position
  without debt ends in "error" at propose or at the auditor (`GuardRaises`) without its
  CREW_RUN row; one that retuned leaves its suggestion and the audit row of it behind. A
  chat turn to which a tool returned an infinite health factor fails after all its calls,
  and its question stays without an answer (`AnnotateRaises`).
* A proposal's row stores the facts the monitor read, next to a verdict about a second
  assessment, possibly under another mandate, valued with the monitor's price
  (`MonitorSnapshot`, `GateSnapshot`). `routes_agent.py:281-283` says that `revalidate`
  is "shared by the approve route and the crew graph"; the graph has its own copy.
* A deadline of 0 is "no expiry, matching the vault's own Expired check"
  (`policy.py:96`); the vault has no such exception. `ProposalExecutable` leaves that
  case out.
* WATCH is an actionable state (`policy.py:41`) that no allowed proposal has:
  `hf_below_trigger` and `classify_state` compare the same two numbers
  (`ProposalExecutable` says ASSESSING).
* If the audit write after an insert fails, the run reports "error" and the pending
  proposal stays (`RunFails` at "proposeAudit"); `TrailComplete` holds for runs that
  report anything else.
* A suggested value may equal the current one (`Suggest`).
* "history already ends with the message just appended" (`chat.py:137`) does not hold
  when two turns share a thread: the model may be given the other's question last. Nor
  need the message be there at all: `agent_chat_history_turns` (`settings.py:69`) has no
  lower bound, and enough messages of other turns push it out of any window.
  `QuestionSeen` is what does hold.
* A thread that is deleted and recreated under a turn may end up with an answer
  whose question is gone. `ChatReply.facts`, "provenance for every number"
  (`agent/models.py:242`), keeps the last result of each tool only (`chat.py:174`).
* `toolspec.py:42` says that nothing the chat may call can write; a snapshot refreshes
  the position's label.
* A slower `protect` overwrites SUBMITTED with DECLINED or ASSESSING while the
  lock is held, against the transition table in `core/state.py:5-6`
  (`EvaluateDeclined`, `SimulateFailed` and `EnterProtect` have no guard on it).
* `tick` and `approve` write the mandate they captured back over one stored
  meanwhile (`PollDone`, `Protect`), although `protection_service.py:71` and
  `PRD.md:245` read as if the latest signed one governs.
* A rescue that was mined is labelled REVERTED, and counted as a failure, when the
  re-read of the health factor fails (`RereadRaised`) or the receipt is late.
* A delivered broadcast that looked lost is mined, the re-run of `_send` fails at
  gas estimation because the mandate is used, and the fallback repays again, where
  the node signs for the borrower (anvil). `client.py:76` asks for an idempotent
  closure, and `submitter.py:32` says such errors "must surface".
* The economic gate judges the first quote. After a bump the new quote is not judged
  again (`Bumped`, `Requoted`), although FR-11 (`PRD.md:193`) speaks of what is
  executed; the vault's `maxCostBps` is what still bounds it. Nor is a quote
  compared with `maxSlippageBps`, as FR-6 (`PRD.md:178-179`) has it: the slippage is
  added on top of the quote, whatever the quote is.
* A restart between the claim and the last write leaves a proposal APPROVED for
  good.
* Concurrent crew runs overshoot `PRD.md:228-230`'s limit; `RateOvershootBounded`
  says by how much.

## 7. What is not modelled

* Chain readers, settings, ABIs, observability, demo tools, web consoles: input,
  output and constants; no state the properties speak of.
* Prompts, language models, and how figures are cut out of prose: text. A model's
  answer is a free choice.
* The volatility estimate (`RollingVolatility`) and the breach probability: floating
  point statistics; the target's shift is free in `RescuePlanning`.
* The store's connection (lazily opened, closed at shutdown) and the per-node trace
  rows of a crew run, whose failures are swallowed.
* Logging and metrics; the audit rows of the approval routes.

## 8. Plan

Done: the modules of section 2, in the order service, submission, approvals,
client, vault, planning, gate and crew, chat and guard; the proofs of section 4.

Next, in order:

1. A composition of `CrewGraph` with `ApprovalQueue`, replacing `eligible` by the gate's
   operators.
2. A composition of `ProtectionService` with `RescueSubmission`.
