-------------------------- MODULE ProtectionService --------------------------
(***************************************************************************)
(* The keeper's orchestrator (backend/app/core/protection_service.py) with *)
(* the worker loop that drives it (scheduler.py) and the API routes that   *)
(* enter it.                                                               *)
(*                                                                         *)
(* Everything runs on one asyncio event loop, so the unit of interleaving  *)
(* is the code between two awaits: each action below is one such segment,  *)
(* and pc[t] names the await at which task t is suspended.  A task is the  *)
(* worker or the handler of one API request.                               *)
(*                                                                         *)
(*   "evaluating"  await self._pipeline.evaluate                           *)
(*   "simulating"  await self._resolve_demo_signature / simulator.simulate *)
(*   "submitting"  await self._submitter.submit, lock held                 *)
(*   "polling"     (worker) await monitor.poll_once / sample_price         *)
(*   "tick"        (worker) between two borrowers of one tick              *)
(*   "waiting"     (worker) between two ticks                              *)
(*                                                                         *)
(* Account data, plans and receipts come from the chain: what an await     *)
(* returns is chosen freely among the outcomes the code distinguishes.     *)
(***************************************************************************)
EXTENDS CircuitBreaker, InFlightRegistry, FiniteSets

CONSTANTS
    Clients,      \* slots for concurrent API requests that call protect()
    Worker,       \* the autonomous worker task
    Mandates,     \* borrower-signed (RiskParams, signature) pairs, opaque here
    NoMandate,
    NoJob,
    Modes         \* wirings build_container may produce, a subset of WiringModes

Tasks == Clients \cup {Worker}

\* "assess": neither simulator nor submitter; "live": both.  build_container
\* never wires a simulator without a submitter.
WiringModes == {"assess", "live"}

ASSUME ServiceAssumption ==
    /\ Worker \notin Clients
    /\ IsFiniteSet(Clients)
    /\ NoMandate \notin Mandates
    /\ Modes \subseteq WiringModes

Jobs == [borrower : Borrowers, mandate : Mandates]

ASSUME NoJobAssumption == NoJob \notin Jobs

MonitorStates == {"HEALTHY", "WATCH", "ASSESSING"}      \* classify_state
PositionState ==
    MonitorStates \cup {"DECLINED", "READY", "SUBMITTED", "RESTORED", "REVERTED"}

ProtectPC == {"evaluating", "simulating", "submitting"}
WorkerPC == {"waiting", "tick", "polling"}

VARIABLES
    registry,     \* _registry[b], or NoMandate
    states,       \* state_of(b): an absent entry reads as HEALTHY
    autonomous,   \* autonomous_enabled
    mode,
    pc,           \* where each task is suspended
    job,          \* the (borrower, mandate) a task works for
    todo          \* rest of the list tick() captured when it started

serviceVars == <<registry, states, autonomous, mode>>
taskVars == <<pc, job, todo>>
vars == <<breakerVars, inflightVars, serviceVars, taskVars>>

TypeOK ==
    /\ BreakerTypeOK
    /\ InFlightTypeOK
    /\ registry \in [Borrowers -> Mandates \cup {NoMandate}]
    /\ states \in [Borrowers -> PositionState]
    /\ autonomous \in BOOLEAN
    /\ mode \in Modes
    /\ pc \in [Tasks -> ProtectPC \cup WorkerPC \cup {"idle"}]
    /\ job \in [Tasks -> Jobs \cup {NoJob}]
    /\ todo \subseteq Jobs
    /\ \A t \in Tasks : pc[t] \in ProtectPC \cup {"polling"} => job[t] \in Jobs
    /\ \A c \in Clients : pc[c] \in ProtectPC \cup {"idle"}
    /\ pc[Worker] # "idle"

Init ==
    /\ BreakerInit
    /\ InFlightInit
    /\ registry = [b \in Borrowers |-> NoMandate]
    /\ states = [b \in Borrowers |-> "HEALTHY"]
    /\ autonomous \in BOOLEAN
    /\ mode \in Modes
    /\ pc = [t \in Tasks |-> IF t = Worker THEN "waiting" ELSE "idle"]
    /\ job = [t \in Tasks |-> NoJob]
    /\ todo = {}

-----------------------------------------------------------------------------
(* Vocabulary.                                                             *)

Protecting(t) == pc[t] \in ProtectPC
Submitting(t, b) == pc[t] = "submitting" /\ job[t].borrower = b

\* Store the signed pair; states.setdefault(b, HEALTHY) is invisible through
\* state_of.
Register(j) == registry' = [registry EXCEPT ![j.borrower] = j.mandate]

SetState(b, s) == states' = [states EXCEPT ![b] = s]

\* Suspend t at the await named p, working for j.
Suspend(t, p, j) ==
    /\ pc' = [pc EXCEPT ![t] = p]
    /\ job' = [job EXCEPT ![t] = j]

\* Mutant: an exception in protect() ends the worker as it ends a request.
LeaveForGood(t) == Suspend(t, "idle", NoJob)

\* protect() returned or raised: a request is answered, and the worker (whose
\* tick catches everything) moves on to the next borrower.
Leave(t) == Suspend(t, IF t = Worker THEN "tick" ELSE "idle", NoJob)

-----------------------------------------------------------------------------
(* protect(), up to its first await.                                       *)

\* Mutant: protect() relies on its callers for the breaker.
EnterProtectUnchecked(t, j) ==
    /\ CanStart(j.borrower)
    /\ Register(j)
    /\ SetState(j.borrower, "ASSESSING")
    /\ Suspend(t, "evaluating", j)

\* register, breaker and lock passed: the position is ASSESSING.
EnterProtect(t, j) ==
    /\ BreakerAllows
    /\ CanStart(j.borrower)
    /\ Register(j)
    /\ SetState(j.borrower, "ASSESSING")
    /\ Suspend(t, "evaluating", j)

ProtectAdmitted(c, j) ==
    /\ pc[c] = "idle"
    /\ EnterProtect(c, j)
    /\ UNCHANGED <<breakerVars, inflightVars, autonomous, mode, todo>>

\* A refused request has still replaced the stored mandate.
ProtectBlocked(j) ==
    /\ ~BreakerAllows \/ ~CanStart(j.borrower)
    /\ Register(j)
    /\ UNCHANGED <<breakerVars, inflightVars, states, autonomous, mode, taskVars>>

-----------------------------------------------------------------------------
(* protect(), one segment per await.                                       *)

\* Not viable, or no plan.
EvaluateDeclined(t) ==
    /\ pc[t] = "evaluating"
    /\ SetState(job[t].borrower, "DECLINED")
    /\ Leave(t)
    /\ UNCHANGED <<breakerVars, inflightVars, registry, autonomous, mode, todo>>

EvaluateViable(t) ==
    /\ pc[t] = "evaluating"
    /\ \/ /\ mode = "assess"
          /\ SetState(job[t].borrower, "READY")
          /\ Leave(t)
       \/ /\ mode = "live"
          /\ Suspend(t, "simulating", job[t])
          /\ UNCHANGED states
    /\ UNCHANGED <<breakerVars, inflightVars, registry, autonomous, mode, todo>>

\* evaluate() or simulate() raised: nothing catches it inside protect, and the
\* position keeps the state it had.
AssessmentRaised(t) ==
    /\ pc[t] \in {"evaluating", "simulating"}
    /\ Leave(t)
    /\ UNCHANGED <<breakerVars, inflightVars, serviceVars, todo>>

SimulateFailed(t) ==
    /\ pc[t] = "simulating"
    /\ SetState(job[t].borrower, "DECLINED")
    /\ Leave(t)
    /\ UNCHANGED <<breakerVars, inflightVars, registry, autonomous, mode, todo>>

\* The dry run passed: take the lock and broadcast, or lose the race for it.
\* The breaker is not consulted again.
SimulateOk(t) ==
    /\ pc[t] = "simulating"
    /\ \/ /\ Acquire(job[t].borrower)
          /\ SetState(job[t].borrower, "SUBMITTED")
          /\ Suspend(t, "submitting", job[t])
       \/ /\ ~CanStart(job[t].borrower)
          /\ Leave(t)
          /\ UNCHANGED <<inflightVars, states>>
    /\ UNCHANGED <<breakerVars, registry, autonomous, mode, todo>>

\* Mutant: the lock is released on the failure path only.
SubmitRestoredKeepsLock(t) ==
    /\ pc[t] = "submitting"
    /\ RecordSuccess
    /\ SetState(job[t].borrower, "RESTORED")
    /\ Leave(t)
    /\ UNCHANGED <<inflightVars, registry, autonomous, mode, todo>>

\* submit() returned status 1.
SubmitRestored(t) ==
    /\ pc[t] = "submitting"
    /\ RecordSuccess
    /\ SetState(job[t].borrower, "RESTORED")
    /\ Release(job[t].borrower)
    /\ Leave(t)
    /\ UNCHANGED <<registry, autonomous, mode, todo>>

\* Mutant: the early return of the except branch skips the release.
SubmitRevertedKeepsLock(t) ==
    /\ pc[t] = "submitting"
    /\ RecordFailure
    /\ SetState(job[t].borrower, "REVERTED")
    /\ Leave(t)
    /\ UNCHANGED <<inflightVars, registry, autonomous, mode, todo>>

\* Mutant: the except branch counts the failure and leaves the label alone.
SubmitRevertedKeepsLabel(t) ==
    /\ pc[t] = "submitting"
    /\ RecordFailure
    /\ Release(job[t].borrower)
    /\ Leave(t)
    /\ UNCHANGED <<registry, states, autonomous, mode, todo>>

\* submit() returned another status, or raised.
SubmitReverted(t) ==
    /\ pc[t] = "submitting"
    /\ RecordFailure
    /\ SetState(job[t].borrower, "REVERTED")
    /\ Release(job[t].borrower)
    /\ Leave(t)
    /\ UNCHANGED <<registry, autonomous, mode, todo>>

ProtectStep(t) ==
    \/ EvaluateDeclined(t)
    \/ EvaluateViable(t)
    \/ AssessmentRaised(t)
    \/ SimulateFailed(t)
    \/ SimulateOk(t)
    \/ SubmitRestored(t)
    \/ SubmitReverted(t)

-----------------------------------------------------------------------------
(* tick() and the worker loop.                                             *)

\* The poll interval elapsed.  tick() copies the registry once, up front.
TickStart ==
    /\ pc[Worker] = "waiting"
    /\ autonomous
    /\ todo' = {j \in Jobs : registry[j.borrower] = j.mandate}
    /\ pc' = [pc EXCEPT ![Worker] = "tick"]
    /\ UNCHANGED <<breakerVars, inflightVars, serviceVars, job>>

TickPoll ==
    /\ pc[Worker] = "tick"
    /\ \E j \in todo :
          /\ todo' = todo \ {j}
          /\ Suspend(Worker, "polling", j)
    /\ UNCHANGED <<breakerVars, inflightVars, serviceVars>>

\* Mutant: the exception escapes the loop over the borrowers.
PollRaisedAborts ==
    /\ pc[Worker] = "polling"
    /\ Leave(Worker)
    /\ todo' = {}
    /\ UNCHANGED <<breakerVars, inflightVars, serviceVars>>

\* poll_once() or sample_price() raised; the loop goes on with the next borrower.
PollRaised ==
    /\ pc[Worker] = "polling"
    /\ Leave(Worker)
    /\ UNCHANGED <<breakerVars, inflightVars, serviceVars, todo>>

\* The snapshot is in.  An intervention enters protect() in the same segment,
\* with the mandate captured when the tick started.
PollDone(s) ==
    /\ pc[Worker] = "polling"
    /\ LET j == job[Worker] IN
         \/ /\ s = "ASSESSING"
            /\ EnterProtect(Worker, j)
         \/ /\ ~(s = "ASSESSING" /\ BreakerAllows /\ CanStart(j.borrower))
            /\ IF IsLocked(j.borrower) THEN UNCHANGED states
                                       ELSE SetState(j.borrower, s)
            /\ Leave(Worker)
            /\ UNCHANGED registry
    /\ UNCHANGED <<breakerVars, inflightVars, autonomous, mode, todo>>

TickEnd ==
    /\ pc[Worker] = "tick"
    /\ todo = {}
    /\ pc' = [pc EXCEPT ![Worker] = "waiting"]
    /\ UNCHANGED <<breakerVars, inflightVars, serviceVars, job, todo>>

WorkerStep ==
    \/ TickStart
    \/ TickPoll
    \/ PollRaised
    \/ \E s \in MonitorStates : PollDone(s)
    \/ TickEnd
    \/ ProtectStep(Worker)

-----------------------------------------------------------------------------
(* The remaining requests and the environment.                             *)

\* POST /positions/{b}/assessment: register, then a read-only assessment.
PostAssessment(j) ==
    /\ Register(j)
    /\ UNCHANGED <<breakerVars, inflightVars, states, autonomous, mode, taskVars>>

\* GET /positions/{b}: the write after the await of snapshot().
GetPosition(b, s) ==
    /\ ~IsLocked(b)
    /\ SetState(b, s)
    /\ UNCHANGED <<breakerVars, inflightVars, registry, autonomous, mode, taskVars>>

\* POST /breaker/reset.
ResetBreaker ==
    /\ Reset
    /\ UNCHANGED <<inflightVars, serviceVars, taskVars>>

\* POST /agent/panic.
Panic ==
    /\ Trip("manual")
    /\ UNCHANGED <<inflightVars, serviceVars, taskVars>>

\* PUT /config.
PutConfig(n, d, a) ==
    /\ SetMaxFailures(n)
    /\ SetCooldown(d)
    /\ autonomous' = a
    /\ UNCHANGED <<registry, states, mode, taskVars>>

TimePasses ==
    /\ Elapse
    /\ UNCHANGED <<breakerVars, serviceVars, taskVars>>

\* The process ends (lifespan shutdown cancels the worker; or it is killed) and
\* a new one builds its container.  Nothing of the service is persisted.
Restart ==
    /\ consecutive' = 0
    /\ paused' = FALSE
    /\ reason' = NoReason
    /\ maxFailures' \in Thresholds
    /\ locked' = {}
    /\ cooling' = [b \in Borrowers |-> 0]
    /\ cooldown' \in Cooldowns
    /\ registry' = [b \in Borrowers |-> NoMandate]
    /\ states' = [b \in Borrowers |-> "HEALTHY"]
    /\ autonomous' \in BOOLEAN
    /\ mode' \in Modes
    /\ pc' = [t \in Tasks |-> IF t = Worker THEN "waiting" ELSE "idle"]
    /\ job' = [t \in Tasks |-> NoJob]
    /\ todo' = {}

Operator ==
    \/ ResetBreaker
    \/ Panic
    \/ \E n \in Thresholds, d \in Cooldowns, a \in BOOLEAN : PutConfig(n, d, a)

Next ==
    \/ \E c \in Clients, j \in Jobs : ProtectAdmitted(c, j)
    \/ \E j \in Jobs : ProtectBlocked(j)
    \/ \E j \in Jobs : PostAssessment(j)
    \/ \E c \in Clients : ProtectStep(c)
    \/ WorkerStep
    \/ \E b \in Borrowers, s \in MonitorStates : GetPosition(b, s)
    \/ Operator
    \/ TimePasses
    \/ Restart

Spec == Init /\ [][Next]_vars

\* Every await of the service comes back: RPC calls and the receipt wait carry
\* timeouts.  Requests, the operator and the market owe nothing.
Fairness ==
    /\ WF_vars(WorkerStep)
    /\ \A c \in Clients : WF_vars(ProtectStep(c))
    /\ WF_vars(TimePasses)

FairSpec == Spec /\ Fairness
-----------------------------------------------------------------------------
(* Safety.                                                                 *)

\* The lock is held exactly while some task awaits a submission: no path
\* through protect()'s try/finally leaks it, and none frees another's.
LockIffSubmitting ==
    \A b \in Borrowers : IsLocked(b) <=> \E t \in Tasks : Submitting(t, b)

\* FR-16: two tasks never await a submission for the same borrower, however
\* the segments of protect() and tick() interleave.
OneSubmissionPerBorrower ==
    \A b \in Borrowers : \A t, u \in Tasks :
        Submitting(t, b) /\ Submitting(u, b) => t = u

\* state.py: "a borrower in SUBMITTED holds the in-flight lock".  Polls,
\* snapshots and racing protects must not leave SUBMITTED behind a free lock.
SubmittedHoldsLock ==
    \A b \in Borrowers : states[b] = "SUBMITTED" => IsLocked(b)

\* The breaker is read once, before two awaits, so tasks already past it still
\* submit after the trip.  What FR-17 amounts to: the streak exceeds the
\* threshold by less than the number of tasks that can be past the check,
\* whatever PUT /config does to the threshold meanwhile.
MaxThreshold == CHOOSE n \in Thresholds : \A m \in Thresholds : m <= n
Admitted == {t \in Tasks : Protecting(t)}

FailureOverrunBounded ==
    /\ ~paused => consecutive < MaxThreshold
    /\ paused => consecutive + Cardinality(Admitted)
                    < MaxThreshold + Cardinality(Tasks)

\* While the breaker is paused no task gets past it, from the API or from the
\* worker: the set of tasks inside protect() can only shrink.
NoAdmissionWhilePaused ==
    [][paused => {t \in Tasks : pc'[t] \in ProtectPC} \subseteq Admitted]_vars

\* The lock and cooldown implement the single-flight promise.
Flight == [b \in Borrowers |-> {t \in Tasks : Submitting(t, b)}]
SF == INSTANCE SingleFlight WITH flight <- Flight
ImplementsSingleFlight == SF!Spec

-----------------------------------------------------------------------------
(* Liveness, under FairSpec.                                               *)

\* Every lock is released, whichever way the submission ends: no borrower is
\* locked for good.
LockReleased == \A b \in Borrowers : []<>~IsLocked(b)

\* Borrowers whose poll or rescue keeps raising do not starve the others: a
\* registered borrower is polled again unless automation is switched off or
\* the process restarts without it.
Polled(b) == pc[Worker] = "polling" /\ job[Worker].borrower = b
EveryBorrowerPolled ==
    \A b \in Borrowers :
        []<>(Polled(b) \/ ~autonomous \/ registry[b] = NoMandate)

\* A pause that nobody resets eventually stops all submissions.
PauseQuiesces ==
    <>[]paused => <>[](\A t \in Tasks : pc[t] # "submitting")

=============================================================================
