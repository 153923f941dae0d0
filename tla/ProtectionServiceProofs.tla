---------------------- MODULE ProtectionServiceProofs ----------------------
(***************************************************************************)
(* Proofs about ProtectionService, for any set of borrowers and mandates   *)
(* and any finite set of concurrent requests.                              *)
(***************************************************************************)
EXTENDS ProtectionService, FiniteSetTheorems, TLAPS

(***************************************************************************)
(* Typing.                                                                 *)
(***************************************************************************)

\* The initial states are well typed.
LEMMA InitTypeOK == Init => TypeOK
<1> SUFFICES ASSUME Init PROVE TypeOK
  OBVIOUS
<1>1. BreakerTypeOK
  BY DEF Init, BreakerInit, BreakerTypeOK, NoReason, TripReasons
<1>2. InFlightTypeOK
  BY DEF Init, InFlightInit, InFlightTypeOK
<1>3. pc \in [Tasks -> ProtectPC \cup WorkerPC \cup {"idle"}]
  BY DEF Init, WorkerPC
<1>4. \A t \in Tasks : pc[t] \notin ProtectPC \cup {"polling"}
  BY DEF Init, ProtectPC
<1>5. pc[Worker] = "waiting" /\ \A c \in Clients : pc[c] = "idle"
  BY ServiceAssumption DEF Init, Tasks
<1> QED
  BY <1>1, <1>2, <1>3, <1>4, <1>5
  DEF Init, TypeOK, PositionState, MonitorStates, ProtectPC

\* Every segment of protect() keeps the state well typed.
LEMMA ProtectStepTypeOK ==
  ASSUME TypeOK, NEW t \in Tasks, ProtectStep(t)
  PROVE  TypeOK'
<1> USE ServiceAssumption
        DEF TypeOK, BreakerTypeOK, InFlightTypeOK, PositionState, MonitorStates,
            ProtectPC, WorkerPC, Tasks, breakerVars, inflightVars, serviceVars,
            SetState, Leave, Suspend
<1>1. CASE EvaluateDeclined(t)
  BY <1>1 DEF EvaluateDeclined, Jobs
<1>2. CASE EvaluateViable(t)
  BY <1>2 DEF EvaluateViable, Jobs
<1>3. CASE AssessmentRaised(t)
  BY <1>3 DEF AssessmentRaised
<1>4. CASE SimulateFailed(t)
  BY <1>4 DEF SimulateFailed, Jobs
<1>5. CASE SimulateOk(t)
  BY <1>5 DEF SimulateOk, Acquire, Jobs
<1>6. CASE SubmitRestored(t)
  BY <1>6, CooldownsAssumption DEF SubmitRestored, RecordSuccess, Release, Jobs
<1>7. CASE SubmitReverted(t)
  <2>1. BreakerTypeOK'
    <3>1. consecutive' \in Nat /\ maxFailures' \in Thresholds
      BY <1>7 DEF SubmitReverted, RecordFailure
    <3>2. paused' \in BOOLEAN /\ reason' \in TripReasons \cup {NoReason}
      BY <1>7, Zenon DEF SubmitReverted, RecordFailure, TripReasons
    <3> QED
      BY <3>1, <3>2
  <2>2. InFlightTypeOK'
    BY <1>7, CooldownsAssumption DEF SubmitReverted, Release, Jobs
  <2> HIDE DEF BreakerTypeOK, InFlightTypeOK
  <2> QED
    BY <1>7, <2>1, <2>2 DEF SubmitReverted, Jobs
<1> QED
  BY <1>1, <1>2, <1>3, <1>4, <1>5, <1>6, <1>7, ProtectStep(t) DEF ProtectStep

\* Every step keeps the state well typed.
LEMMA NextTypeOK == TypeOK /\ [Next]_vars => TypeOK'
<1> SUFFICES ASSUME TypeOK, [Next]_vars PROVE TypeOK'
  OBVIOUS
<1>1. CASE \E t \in Tasks : ProtectStep(t)
  BY <1>1, ProtectStepTypeOK
<1> USE ServiceAssumption, ThresholdsAssumption, CooldownsAssumption
        DEF TypeOK, BreakerTypeOK, InFlightTypeOK, PositionState, MonitorStates,
            ProtectPC, WorkerPC, Tasks, breakerVars, inflightVars, serviceVars,
            taskVars, SetState, Leave, Suspend, Register
<1>2. ASSUME NEW c \in Clients, NEW j \in Jobs, ProtectAdmitted(c, j) PROVE TypeOK'
  BY <1>2 DEF ProtectAdmitted, EnterProtect, Jobs
<1>3. ASSUME NEW j \in Jobs, ProtectBlocked(j) PROVE TypeOK'
  BY <1>3 DEF ProtectBlocked, Jobs
<1>4. ASSUME NEW j \in Jobs, PostAssessment(j) PROVE TypeOK'
  BY <1>4 DEF PostAssessment, Jobs
<1>5. CASE TickStart
  BY <1>5 DEF TickStart
<1>6. CASE TickPoll
  BY <1>6 DEF TickPoll
<1>7. CASE PollRaised
  BY <1>7 DEF PollRaised
<1>8. ASSUME NEW s \in MonitorStates, PollDone(s) PROVE TypeOK'
  BY <1>8 DEF PollDone, EnterProtect, Jobs
<1>9. CASE TickEnd
  BY <1>9 DEF TickEnd
<1>10. ASSUME NEW b \in Borrowers, NEW s \in MonitorStates, GetPosition(b, s)
       PROVE  TypeOK'
  BY <1>10 DEF GetPosition
<1>11. CASE ResetBreaker
  BY <1>11 DEF ResetBreaker, Reset
<1>12. CASE Panic
  BY <1>12 DEF Panic, Trip, TripReasons
<1>13. ASSUME NEW n \in Thresholds, NEW d \in Cooldowns, NEW a \in BOOLEAN,
              PutConfig(n, d, a)
       PROVE  TypeOK'
  BY <1>13 DEF PutConfig, SetMaxFailures, SetCooldown
<1>14. CASE TimePasses
  BY <1>14 DEF TimePasses, Elapse, InCooldown
<1>15. CASE Restart
  BY <1>15 DEF Restart, NoReason
<1>16. CASE UNCHANGED vars
  BY <1>16 DEF vars
<1> HIDE DEF TypeOK, MonitorStates
<1> QED
  BY <1>1, <1>2, <1>3, <1>4, <1>5, <1>6, <1>7, <1>8, <1>9, <1>10, <1>11, <1>12,
     <1>13, <1>14, <1>15, <1>16
  DEF Next, WorkerStep, Operator

\* Type correctness of the service's state in every reachable state.
THEOREM TypeCorrect == Spec => []TypeOK
  BY InitTypeOK, NextTypeOK, PTL DEF Spec

(***************************************************************************)
(* The in-flight lock.  None of the three invariants is inductive alone:   *)
(* that a task which takes the free lock is the only one submitting needs  *)
(* LockIffSubmitting, that releasing leaves nobody behind needs            *)
(* OneSubmissionPerBorrower.                                               *)
(***************************************************************************)
FlightInv == LockIffSubmitting /\ OneSubmissionPerBorrower /\ SubmittedHoldsLock

\* A step is quiet when it moves no task into or out of a submission, leaves
\* the lock alone and marks no position SUBMITTED.
Quiet ==
    /\ locked' = locked
    /\ \A t \in Tasks, b \in Borrowers : Submitting(t, b)' <=> Submitting(t, b)
    /\ \A b \in Borrowers : states'[b] = "SUBMITTED" => states[b] = "SUBMITTED"

\* Quiet steps preserve the lock invariants.
LEMMA QuietPreserves == FlightInv /\ Quiet => FlightInv'
  BY DEF FlightInv, Quiet, LockIffSubmitting, OneSubmissionPerBorrower,
         SubmittedHoldsLock, IsLocked

\* Only taking the lock, resolving a submission and a restart are not quiet.
LEMMA MostStepsQuiet ==
  ASSUME TypeOK, [Next]_vars,
         \A t \in Tasks :
            ~(SimulateOk(t) \/ SubmitRestored(t) \/ SubmitReverted(t)),
         ~Restart
  PROVE  Quiet
<1> USE ServiceAssumption
        DEF Quiet, Submitting, TypeOK, InFlightTypeOK, breakerVars, inflightVars,
            serviceVars, taskVars, SetState, Leave, Suspend
<1>1. ASSUME NEW t \in Tasks,
             EvaluateDeclined(t) \/ EvaluateViable(t) \/ AssessmentRaised(t)
               \/ SimulateFailed(t)
      PROVE  Quiet
  BY <1>1 DEF EvaluateDeclined, EvaluateViable, AssessmentRaised, SimulateFailed
<1>2. ASSUME NEW t \in Tasks, NEW j \in Jobs, EnterProtect(t, j),
             pc[t] # "submitting", locked' = locked
      PROVE  Quiet
  BY <1>2 DEF EnterProtect
<1>3. ASSUME NEW c \in Clients, NEW j \in Jobs, ProtectAdmitted(c, j) PROVE Quiet
  BY <1>2, <1>3 DEF ProtectAdmitted, Tasks
<1>4. ASSUME NEW j \in Jobs, ProtectBlocked(j) \/ PostAssessment(j) PROVE Quiet
  BY <1>4 DEF ProtectBlocked, PostAssessment
<1>5. CASE TickStart \/ TickPoll \/ PollRaised \/ TickEnd
  BY <1>5 DEF TickStart, TickPoll, PollRaised, TickEnd, Tasks
<1>6. ASSUME NEW s \in MonitorStates, PollDone(s) PROVE Quiet
  <2>1. Worker \in Tasks /\ pc[Worker] = "polling" /\ job[Worker] \in Jobs
        /\ locked' = locked
    BY <1>6 DEF PollDone, Tasks
  <2>2. CASE EnterProtect(Worker, job[Worker])
    BY <1>2, <2>1, <2>2
  <2>3. CASE ~EnterProtect(Worker, job[Worker])
    BY <1>6, <2>1, <2>3 DEF PollDone, MonitorStates
  <2> QED BY <2>2, <2>3
<1>7. ASSUME NEW b \in Borrowers, NEW s \in MonitorStates, GetPosition(b, s)
      PROVE  Quiet
  BY <1>7 DEF GetPosition, MonitorStates
<1>8. CASE Operator
  BY <1>8 DEF Operator, ResetBreaker, Reset, Panic, Trip, PutConfig, SetCooldown
<1>9. CASE TimePasses
  BY <1>9 DEF TimePasses, Elapse
<1>10. CASE UNCHANGED vars
  BY <1>10 DEF vars
<1> HIDE DEF Quiet
<1> QED
  BY <1>1, <1>3, <1>4, <1>5, <1>6, <1>7, <1>8, <1>9, <1>10
  DEF Next, WorkerStep, ProtectStep, Tasks

\* Taking the lock: nobody else was submitting, because the lock was free.
LEMMA SimulateOkFlight ==
  ASSUME TypeOK, FlightInv, NEW t \in Tasks, SimulateOk(t)
  PROVE  FlightInv'
<1> DEFINE b == job[t].borrower
<1>1. b \in Borrowers /\ pc[t] = "simulating"
  BY DEF SimulateOk, TypeOK, ProtectPC, Jobs
<1>2. CASE ~CanStart(b)
  <2>1. Quiet
    BY <1>1, <1>2 DEF SimulateOk, Acquire, Quiet, Submitting, TypeOK, Leave, Suspend,
                     inflightVars
  <2> QED BY <2>1, QuietPreserves
<1>3. CASE Acquire(b)
  <2>1. /\ locked' = locked \cup {b}
        /\ b \notin locked
        /\ pc' = [pc EXCEPT ![t] = "submitting"]
        /\ job' = [job EXCEPT ![t] = job[t]]
        /\ states' = [states EXCEPT ![b] = "SUBMITTED"]
    BY <1>1, <1>3 DEF SimulateOk, Acquire, CanStart, IsLocked, SetState, Suspend
  <2>2. \A u \in Tasks, a \in Borrowers :
           Submitting(u, a)' <=> Submitting(u, a) \/ (u = t /\ a = b)
    BY <1>1, <2>1 DEF Submitting, TypeOK
  <2>3. \A u \in Tasks : ~Submitting(u, b)
    BY <1>1, <2>1 DEF FlightInv, LockIffSubmitting, IsLocked
  <2>4. \A a \in Borrowers : states'[a] = "SUBMITTED" => states[a] = "SUBMITTED" \/ a = b
    BY <2>1 DEF TypeOK
  <2> QED
    BY <1>1, <2>1, <2>2, <2>3, <2>4
    DEF FlightInv, LockIffSubmitting, OneSubmissionPerBorrower,
        SubmittedHoldsLock, IsLocked
<1> QED
  BY <1>2, <1>3 DEF SimulateOk

\* Resolving a submission: nobody else was submitting for the borrower whose
\* lock is released.
LEMMA ResolveFlight ==
  ASSUME TypeOK, FlightInv, NEW t \in Tasks, SubmitRestored(t) \/ SubmitReverted(t)
  PROVE  FlightInv'
<1> DEFINE b == job[t].borrower
<1>1. b \in Borrowers /\ pc[t] = "submitting"
  BY DEF SubmitRestored, SubmitReverted, TypeOK, ProtectPC, Jobs
<1>2. /\ locked' = locked \ {b}
      /\ \E p \in {"tick", "idle"} : pc' = [pc EXCEPT ![t] = p]
      /\ job' = [job EXCEPT ![t] = NoJob]
      /\ \E s \in {"RESTORED", "REVERTED"} : states' = [states EXCEPT ![b] = s]
  BY <1>1 DEF SubmitRestored, SubmitReverted, Release, Leave, Suspend, SetState
<1>3. \A u \in Tasks, a \in Borrowers :
         Submitting(u, a)' <=> Submitting(u, a) /\ u # t
  BY <1>1, <1>2 DEF Submitting, TypeOK
<1>4. \A u \in Tasks : Submitting(u, b) => u = t
  BY <1>1 DEF FlightInv, OneSubmissionPerBorrower, Submitting
<1>5. \A a \in Borrowers : states'[a] = "SUBMITTED" => states[a] = "SUBMITTED" /\ a # b
  BY <1>1, <1>2 DEF TypeOK
<1>6. \A a \in Borrowers : Submitting(t, a) => a = b
  BY DEF Submitting
<1> QED
  BY <1>1, <1>2, <1>3, <1>4, <1>5, <1>6
  DEF FlightInv, LockIffSubmitting, OneSubmissionPerBorrower, SubmittedHoldsLock,
      IsLocked

\* FR-16 inside one process, and "a borrower in SUBMITTED holds the in-flight
\* lock", for any number of borrowers and concurrent requests.
THEOREM LockCorrect ==
  Spec => [](LockIffSubmitting /\ OneSubmissionPerBorrower /\ SubmittedHoldsLock)
<1>1. Init => FlightInv
  BY DEF Init, InFlightInit, FlightInv, LockIffSubmitting, OneSubmissionPerBorrower,
         SubmittedHoldsLock, Submitting, IsLocked
<1>2. TypeOK /\ FlightInv /\ [Next]_vars => FlightInv'
  <2> SUFFICES ASSUME TypeOK, FlightInv, [Next]_vars PROVE FlightInv'
    OBVIOUS
  <2>1. CASE Restart
    BY <2>1 DEF Restart, FlightInv, LockIffSubmitting, OneSubmissionPerBorrower,
                SubmittedHoldsLock, Submitting, IsLocked
  <2> QED
    BY <2>1, MostStepsQuiet, QuietPreserves, SimulateOkFlight, ResolveFlight
<1> QED
  BY <1>1, <1>2, TypeCorrect, PTL DEF Spec, FlightInv

(***************************************************************************)
(* The single-flight promise, by refinement: a quiet step stutters, taking *)
(* the lock is Begin, resolving a submission is End, a restart is Lost.    *)
(***************************************************************************)

\* The service implements SingleFlight.
THEOREM SingleFlightImplemented == Spec => ImplementsSingleFlight
<1>1. Init => SF!Init
  BY DEF Init, SF!Init, Flight, Submitting
<1>2. TypeOK /\ FlightInv /\ [Next]_vars => [SF!Next]_Flight
  <2> SUFFICES ASSUME TypeOK, FlightInv, [Next]_vars PROVE [SF!Next]_Flight
    OBVIOUS
  <2>1. CASE Quiet
    BY <2>1 DEF Quiet, Flight
  <2>2. CASE Restart
    <3>1. Flight' = [b \in Borrowers |-> {}]
      BY <2>2 DEF Restart, Flight, Submitting
    <3> QED BY <3>1 DEF SF!Next, SF!Lost
  <2>3. ASSUME NEW t \in Tasks, SimulateOk(t), Acquire(job[t].borrower)
        PROVE  [SF!Next]_Flight
    <3> DEFINE b == job[t].borrower
    <3>1. /\ b \in Borrowers
          /\ pc[t] = "simulating"
          /\ b \notin locked
          /\ pc' = [pc EXCEPT ![t] = "submitting"]
          /\ job' = [job EXCEPT ![t] = job[t]]
      BY <2>3 DEF SimulateOk, Acquire, CanStart, IsLocked, Suspend, TypeOK, ProtectPC, Jobs
    <3>2. \A u \in Tasks, a \in Borrowers :
             Submitting(u, a)' <=> Submitting(u, a) \/ (u = t /\ a = b)
      BY <3>1 DEF Submitting, TypeOK
    <3>3. Flight[b] = {} /\ \A a \in Borrowers : t \notin Flight[a]
      BY <3>1 DEF FlightInv, LockIffSubmitting, IsLocked, Flight, Submitting
    <3>4. Flight' = [Flight EXCEPT ![b] = {t}]
      <4>1. \A a \in Borrowers : {u \in Tasks : Submitting(u, a)'}
                                 = IF a = b THEN {t} ELSE Flight[a]
        BY <3>2, <3>3 DEF Flight
      <4>2. Flight' = [a \in Borrowers |-> IF a = b THEN {t} ELSE Flight[a]]
        BY <4>1 DEF Flight
      <4> QED BY <4>2 DEF Flight
    <3> QED BY <3>1, <3>3, <3>4 DEF SF!Next, SF!Begin
  <2>4. ASSUME NEW t \in Tasks, SubmitRestored(t) \/ SubmitReverted(t)
        PROVE  [SF!Next]_Flight
    <3> DEFINE b == job[t].borrower
    <3>1. /\ b \in Borrowers
          /\ pc[t] = "submitting"
          /\ \E p \in {"tick", "idle"} : pc' = [pc EXCEPT ![t] = p]
          /\ job' = [job EXCEPT ![t] = NoJob]
      BY <2>4 DEF SubmitRestored, SubmitReverted, Leave, Suspend, TypeOK, ProtectPC, Jobs
    <3>2. \A u \in Tasks, a \in Borrowers :
             Submitting(u, a)' <=> Submitting(u, a) /\ u # t
      BY <3>1 DEF Submitting, TypeOK
    <3>3. /\ Flight[b] = {t}
          /\ \A a \in Borrowers : a # b => t \notin Flight[a]
      BY <3>1 DEF FlightInv, OneSubmissionPerBorrower, Flight, Submitting
    <3>4. Flight' = [Flight EXCEPT ![b] = {}]
      <4>1. \A a \in Borrowers : {u \in Tasks : Submitting(u, a)'}
                                 = IF a = b THEN {} ELSE Flight[a]
        BY <3>2, <3>3 DEF Flight
      <4>2. Flight' = [a \in Borrowers |-> IF a = b THEN {} ELSE Flight[a]]
        BY <4>1 DEF Flight
      <4> QED BY <4>2 DEF Flight
    <3> QED BY <3>1, <3>3, <3>4 DEF SF!Next, SF!End
  <2>5. ASSUME NEW t \in Tasks, SimulateOk(t), ~Acquire(job[t].borrower)
        PROVE  [SF!Next]_Flight
    <3>1. Flight' = Flight
      BY <2>5 DEF SimulateOk, Flight, Submitting, TypeOK, Leave, Suspend
    <3> QED BY <3>1
  <2> QED BY <2>1, <2>2, <2>3, <2>4, <2>5, MostStepsQuiet
<1>3. Spec => []FlightInv
  BY LockCorrect DEF FlightInv
<1> QED
  BY <1>1, <1>2, <1>3, TypeCorrect, PTL DEF Spec, SF!Spec, ImplementsSingleFlight

(***************************************************************************)
(* The circuit breaker's overrun.                                          *)
(***************************************************************************)

\* The threshold in force never exceeds the largest one PUT /config accepts.
LEMMA MaxThresholdBounds ==
  /\ MaxThreshold \in Nat \ {0}
  /\ \A n \in Thresholds : n <= MaxThreshold
<1>1. \E n \in Thresholds : \A m \in Thresholds : m <= n
  BY ThresholdsAssumption
<1>2. MaxThreshold \in Thresholds /\ \A m \in Thresholds : m <= MaxThreshold
  BY <1>1 DEF MaxThreshold
<1> QED BY <1>2, ThresholdsAssumption

\* While the breaker is paused no step admits a task into protect().
LEMMA PausedStepAdmitsNobody ==
  ASSUME TypeOK, [Next]_vars, paused
  PROVE  Admitted' \subseteq Admitted
<1> USE ServiceAssumption
        DEF Admitted, Protecting, TypeOK, ProtectPC, WorkerPC, taskVars, Leave, Suspend
<1>1. ASSUME NEW t \in Tasks, ProtectStep(t) PROVE Admitted' \subseteq Admitted
  BY <1>1 DEF ProtectStep, EvaluateDeclined, EvaluateViable, AssessmentRaised,
              SimulateFailed, SimulateOk, SubmitRestored, SubmitReverted
<1>2. ASSUME NEW c \in Clients, NEW j \in Jobs, ProtectAdmitted(c, j)
      PROVE  Admitted' \subseteq Admitted
  BY <1>2 DEF ProtectAdmitted, EnterProtect, BreakerAllows
<1>3. CASE TickStart \/ TickPoll \/ PollRaised \/ TickEnd
  BY <1>3 DEF TickStart, TickPoll, PollRaised, TickEnd
<1>4. ASSUME NEW s \in MonitorStates, PollDone(s) PROVE Admitted' \subseteq Admitted
  BY <1>4 DEF PollDone, EnterProtect, BreakerAllows
<1>5. CASE Restart
  BY <1>5 DEF Restart
<1>6. CASE pc' = pc
  BY <1>6
<1> HIDE DEF Admitted
<1> QED
  BY <1>1, <1>2, <1>3, <1>4, <1>5, <1>6
  DEF Next, WorkerStep, Tasks, ProtectBlocked, PostAssessment, GetPosition, Operator,
      ResetBreaker, Panic, PutConfig, TimePasses, vars

\* The breaker closes the only door into protect(), for every configuration.
THEOREM PausedAdmitsNobody == Spec => NoAdmissionWhilePaused
<1>1. TypeOK /\ [Next]_vars =>
        [paused => {t \in Tasks : pc'[t] \in ProtectPC} \subseteq Admitted]_vars
  BY PausedStepAdmitsNobody DEF Admitted, Protecting
<1> QED
  BY <1>1, TypeCorrect, PTL DEF Spec, NoAdmissionWhilePaused

\* Cardinalities of the sets of tasks the bound talks about.
LEMMA AdmittedFinite ==
  /\ IsFiniteSet(Tasks) /\ Cardinality(Tasks) \in Nat \ {0}
  /\ IsFiniteSet(Admitted) /\ Cardinality(Admitted) \in Nat
  /\ Cardinality(Admitted) <= Cardinality(Tasks)
<1>1. IsFiniteSet(Tasks)
  BY ServiceAssumption, FS_AddElement DEF Tasks
<1>2. Cardinality(Tasks) \in Nat /\ Cardinality(Tasks) # 0
  BY <1>1, FS_CardinalityType, FS_EmptySet DEF Tasks
<1>3. Admitted \in SUBSET Tasks
  BY DEF Admitted
<1>4. IsFiniteSet(Admitted) /\ Cardinality(Admitted) <= Cardinality(Tasks)
  BY <1>1, <1>3, FS_Subset
<1> QED BY <1>1, <1>2, <1>4, FS_CardinalityType

\* A resolved submission takes its task out of protect().
LEMMA ResolveLeaves ==
  ASSUME TypeOK, NEW t \in Tasks, SubmitRestored(t) \/ SubmitReverted(t)
  PROVE  /\ Admitted' = Admitted \ {t}
         /\ Cardinality(Admitted') = Cardinality(Admitted) - 1
<1>1. t \in Admitted
  BY DEF SubmitRestored, SubmitReverted, Admitted, Protecting, ProtectPC
<1>2. Admitted' = Admitted \ {t}
  BY DEF SubmitRestored, SubmitReverted, Admitted, Protecting, ProtectPC, TypeOK,
         Leave, Suspend
<1> QED BY <1>1, <1>2, AdmittedFinite, FS_RemoveElement

\* Steps that resolve no submission and are no operator action or restart leave
\* the breaker alone.
LEMMA BreakerUntouched ==
  ASSUME [Next]_vars, ~Operator, ~Restart,
         \A t \in Tasks : ~(SubmitRestored(t) \/ SubmitReverted(t))
  PROVE  paused' = paused /\ consecutive' = consecutive
<1> USE DEF breakerVars
<1>1. CASE UNCHANGED vars
  BY <1>1 DEF vars
<1>2. ASSUME NEW t \in Tasks, ProtectStep(t)
      PROVE  paused' = paused /\ consecutive' = consecutive
  BY <1>2 DEF ProtectStep, EvaluateDeclined, EvaluateViable, AssessmentRaised,
              SimulateFailed, SimulateOk
<1>3. ASSUME WorkerStep PROVE paused' = paused /\ consecutive' = consecutive
  BY <1>2, <1>3 DEF WorkerStep, TickStart, TickPoll, PollRaised, PollDone, TickEnd, Tasks
<1> QED
  BY <1>1, <1>2, <1>3
  DEF Next, Tasks, ProtectAdmitted, ProtectBlocked, PostAssessment, GetPosition,
      TimePasses

\* Every step keeps the streak within the bound.
LEMMA OverrunStep ==
  ASSUME TypeOK, FailureOverrunBounded, [Next]_vars
  PROVE  FailureOverrunBounded'
<1> DEFINE k == Cardinality(Admitted)
           N == Cardinality(Tasks)
<1>1. k \in Nat /\ N \in Nat \ {0} /\ k <= N
  BY AdmittedFinite
<1>2. k' \in Nat /\ k' <= N
  <2>1. IsFiniteSet(Tasks) /\ Admitted' \in SUBSET Tasks
    BY AdmittedFinite DEF Admitted
  <2> QED BY <2>1, FS_Subset, FS_CardinalityType
<1>3. /\ consecutive \in Nat
      /\ MaxThreshold \in Nat \ {0}
      /\ maxFailures \in Nat /\ maxFailures <= MaxThreshold
      /\ MaxThreshold' = MaxThreshold /\ N' = N
  BY MaxThresholdBounds, ThresholdsAssumption
  DEF TypeOK, BreakerTypeOK, MaxThreshold, Tasks
<1>4. paused \in BOOLEAN
  BY DEF TypeOK, BreakerTypeOK
<1>5. paused => k' <= k
  <2>1. ASSUME paused PROVE Admitted' \in SUBSET Admitted
    BY <2>1, PausedStepAdmitsNobody
  <2> QED BY <2>1, AdmittedFinite, FS_Subset
<1>6. /\ ~paused => consecutive < MaxThreshold
      /\ paused => consecutive + k < MaxThreshold + N
  BY DEF FailureOverrunBounded
<1> SUFFICES /\ ~paused' => consecutive' < MaxThreshold
             /\ paused' => consecutive' + k' < MaxThreshold + N
  BY <1>3 DEF FailureOverrunBounded
<1>7. ASSUME NEW t \in Tasks, SubmitRestored(t)
      PROVE  /\ ~paused' => consecutive' < MaxThreshold
             /\ paused' => consecutive' + k' < MaxThreshold + N
  <2>1. k' = k - 1
    BY <1>7, ResolveLeaves
  <2>2. consecutive' = 0
    BY <1>7 DEF SubmitRestored, RecordSuccess
  <2> HIDE DEF k, N
  <2> QED BY <2>1, <2>2, <1>1, <1>2, <1>3
<1>8. ASSUME NEW t \in Tasks, SubmitReverted(t)
      PROVE  /\ ~paused' => consecutive' < MaxThreshold
             /\ paused' => consecutive' + k' < MaxThreshold + N
  <2>1. k' = k - 1
    BY <1>8, ResolveLeaves
  <2>2. /\ consecutive' = consecutive + 1
        /\ ~paused' => ~paused /\ ~(consecutive + 1 >= maxFailures)
    BY <1>8 DEF SubmitReverted, RecordFailure
  <2> HIDE DEF k, N
  <2>3. CASE paused
    BY <2>1, <2>2, <2>3, <1>1, <1>2, <1>3, <1>6
  <2>4. CASE ~paused
    BY <2>1, <2>2, <2>4, <1>1, <1>2, <1>3, <1>6
  <2> QED BY <2>3, <2>4
<1>9. ASSUME Operator
      PROVE  /\ ~paused' => consecutive' < MaxThreshold
             /\ paused' => consecutive' + k' < MaxThreshold + N
  <2>1. k' = k
    <3>1. pc' = pc
      BY <1>9 DEF Operator, ResetBreaker, Panic, PutConfig, taskVars
    <3> QED BY <3>1 DEF Admitted, Protecting
  <2>2. \/ consecutive' = 0 /\ ~paused'
        \/ consecutive' = consecutive /\ paused'
        \/ consecutive' = consecutive /\ paused' = paused
    BY <1>9 DEF Operator, ResetBreaker, Reset, Panic, Trip, PutConfig, SetMaxFailures
  <2> HIDE DEF k, N
  <2>3. CASE consecutive' = 0 /\ ~paused'
    BY <2>3, <1>3
  <2>4. CASE consecutive' = consecutive /\ paused'
    <3>1. CASE paused
      BY <3>1, <2>1, <2>4, <1>1, <1>3, <1>6
    <3>2. CASE ~paused
      BY <3>2, <2>1, <2>4, <1>1, <1>3, <1>6
    <3> QED BY <3>1, <3>2
  <2>5. CASE consecutive' = consecutive /\ paused' = paused
    BY <2>1, <2>5, <1>1, <1>3, <1>6
  <2> QED BY <2>2, <2>3, <2>4, <2>5
<1>10. ASSUME Restart
       PROVE  /\ ~paused' => consecutive' < MaxThreshold
              /\ paused' => consecutive' + k' < MaxThreshold + N
  BY <1>10, <1>3 DEF Restart
<1>11. ASSUME paused' = paused, consecutive' = consecutive
       PROVE  /\ ~paused' => consecutive' < MaxThreshold
              /\ paused' => consecutive' + k' < MaxThreshold + N
  <2> HIDE DEF k, N
  <2>1. CASE paused
    <3>1. /\ consecutive + k < MaxThreshold + N /\ k' <= k
          /\ consecutive' = consecutive /\ paused'
      BY <2>1, <1>11, <1>5, <1>6, Zenon
    <3>2. \A l \in Nat : l <= k => consecutive + l < MaxThreshold + N
      BY <3>1, <1>1, <1>3
    <3>3. consecutive' + k' < MaxThreshold + N
      BY <3>1, <3>2, <1>2, Zenon
    <3> QED BY <3>1, <3>3
  <2>2. CASE ~paused
    BY <2>2, <1>11, <1>3, <1>6
  <2> QED BY <2>1, <2>2
<1> QED
  BY <1>7, <1>8, <1>9, <1>10, <1>11, BreakerUntouched

\* FR-17 as the code keeps it: the streak of failed rescues can exceed the
\* largest threshold only by tasks that were already past the breaker.
THEOREM OverrunBounded == Spec => []FailureOverrunBounded
<1>1. Init => FailureOverrunBounded
  BY MaxThresholdBounds DEF Init, BreakerInit, FailureOverrunBounded
<1> QED
  BY <1>1, OverrunStep, TypeCorrect, PTL DEF Spec
=============================================================================
