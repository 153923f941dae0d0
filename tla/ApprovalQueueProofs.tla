------------------------ MODULE ApprovalQueueProofs ------------------------
(***************************************************************************)
(* Proofs about ApprovalQueue, for any number of proposals, concurrent     *)
(* requests and crew runs.                                                 *)
(***************************************************************************)
EXTENDS ApprovalQueue, FiniteSetTheorems, TLAPS

(***************************************************************************)
(* Typing.                                                                 *)
(***************************************************************************)

\* Every step of a request keeps the state well typed.
LEMMA RequestStepTypeOK ==
  ASSUME TypeOK, NEW r \in Requests, RequestStep(r)
  PROVE  TypeOK'
<1> USE QueueAssumption
        DEF TypeOK, storeVars, historyVars, Goto, Answer, FinishProposal, ClaimProposal,
            ProposalStatus, Decisions, ApprovePC, RejectPC
<1>1. ASSUME NEW ack \in BOOLEAN, Revalidate(r, ack) PROVE TypeOK'
  BY <1>1 DEF Revalidate
<1>2. CASE RevalidateRaised(r)
  BY <1>2 DEF RevalidateRaised
<1>3. CASE MarkStale(r) \/ MarkExpired(r) \/ MarkRejected(r)
  BY <1>3 DEF MarkStale, MarkExpired, MarkRejected
<1>4. CASE ApproveClaim(r)
  BY <1>4 DEF ApproveClaim
<1>5. CASE MarkApproved(r)
  BY <1>5 DEF MarkApproved
<1>6. CASE Protect(r)
  BY <1>6 DEF Protect
<1>7. CASE ProtectReturns(r)
  BY <1>7 DEF ProtectReturns
<1>8. ASSUME NEW s \in {"EXECUTED", "FAILED"}, MarkFinished(r, s) PROVE TypeOK'
  BY <1>8 DEF MarkFinished
<1>9. CASE RejectClaim(r)
  BY <1>9 DEF RejectClaim
<1> HIDE DEF TypeOK
<1> QED
  BY <1>1, <1>2, <1>3, <1>4, <1>5, <1>6, <1>7, <1>8, <1>9, RequestStep(r) DEF RequestStep

\* Every step keeps the state well typed.
LEMMA NextTypeOK == TypeOK /\ [Next]_vars => TypeOK'
<1> SUFFICES ASSUME TypeOK, [Next]_vars PROVE TypeOK'
  OBVIOUS
<1> USE QueueAssumption
        DEF TypeOK, storeVars, requestVars, historyVars, Goto, ProposalStatus,
            ApprovePC, RejectPC
<1>1. ASSUME NEW k \in Crews, CrewGate(k) PROVE TypeOK'
  BY <1>1 DEF CrewGate
<1>2. ASSUME NEW k \in Crews, NEW p \in Proposals, CrewPropose(k, p) PROVE TypeOK'
  BY <1>2 DEF CrewPropose
<1>3. ASSUME NEW r \in Requests, NEW p \in Proposals, ApproveBegin(r, p) PROVE TypeOK'
  BY <1>3 DEF ApproveBegin
<1>4. ASSUME NEW r \in Requests, NEW p \in Proposals, RejectBegin(r, p) PROVE TypeOK'
  BY <1>4 DEF RejectBegin
<1>5. ASSUME NEW r \in Requests, RequestStep(r) PROVE TypeOK'
  BY <1>5, RequestStepTypeOK
<1>6. ASSUME NEW m \in Mandates, SignMandate(m) PROVE TypeOK'
  BY <1>6 DEF SignMandate
<1>7. CASE PositionChanges
  BY <1>7 DEF PositionChanges
<1>8. ASSUME NEW p \in Proposals, TtlPasses(p) \/ HourPasses(p) PROVE TypeOK'
  BY <1>8 DEF TtlPasses, HourPasses
<1>9. CASE Restart
  BY <1>9 DEF Restart
<1>10. CASE UNCHANGED vars
  BY <1>10 DEF vars
<1> HIDE DEF TypeOK
<1> QED
  BY <1>1, <1>2, <1>3, <1>4, <1>5, <1>6, <1>7, <1>8, <1>9, <1>10 DEF Next

\* Type correctness of the queue.
THEOREM QueueTypeCorrect == Spec => []TypeOK
<1>1. Init => TypeOK
  BY DEF Init, TypeOK
<1> QED
  BY <1>1, NextTypeOK, PTL DEF Spec

(***************************************************************************)
(* Execution.  The claim is the only conditional write, so the argument    *)
(* follows the licence it gives: before a proposal leaves PENDING nobody   *)
(* holds one, leaving PENDING issues at most one, no write brings PENDING  *)
(* back, and service.protect uses it up.                                   *)
(***************************************************************************)
Licensed(r, p) == on[r] = p /\ pc[r] \in {"approved", "protect"}

ExecInv ==
    \A p \in Proposals :
        /\ executions[p] <= 1
        /\ status[p] \in {"absent", "PENDING"} =>
              executions[p] = 0 /\ p \notin refused /\ \A r \in Requests : ~Licensed(r, p)
        /\ \A r \in Requests : Licensed(r, p) => executions[p] = 0 /\ p \notin refused
        /\ \A r, q \in Requests : Licensed(r, p) /\ Licensed(q, p) => r = q
        /\ p \in refused => executions[p] = 0

\* A step that executes nothing, refuses nothing, licenses nobody and brings no
\* decided proposal back keeps the invariant.
LEMMA ExecQuiet ==
  ASSUME TypeOK, ExecInv, executions' = executions, refused' = refused,
         \A p \in Proposals : status'[p] \in {"absent", "PENDING"}
                                => status[p] \in {"absent", "PENDING"},
         \A r \in Requests, p \in Proposals : Licensed(r, p)' => Licensed(r, p)
  PROVE  ExecInv'
  BY DEF ExecInv

\* Every step of a request keeps the invariant.
LEMMA RequestStepExec ==
  ASSUME TypeOK, ExecInv, NEW r \in Requests, RequestStep(r)
  PROVE  ExecInv'
<1> USE DEF TypeOK, Goto, Answer, FinishProposal, ClaimProposal, storeVars, historyVars
<1>1. ASSUME NEW ack \in BOOLEAN, Revalidate(r, ack) PROVE ExecInv'
  BY <1>1, ExecQuiet DEF Revalidate, Licensed
<1>2. CASE RevalidateRaised(r)
  BY <1>2, ExecQuiet DEF RevalidateRaised, Licensed
<1>3. CASE MarkStale(r) \/ MarkExpired(r) \/ MarkRejected(r)
  BY <1>3, ExecQuiet DEF MarkStale, MarkExpired, MarkRejected, Licensed
<1>4. CASE ApproveClaim(r)
  <2>1. CASE status[on[r]] # "PENDING"
    BY <1>4, <2>1, ExecQuiet DEF ApproveClaim, Licensed
  <2>2. CASE status[on[r]] = "PENDING"
    <3>1. /\ status' = [status EXCEPT ![on[r]] = "APPROVED"]
          /\ pc' = [pc EXCEPT ![r] = "approved"]
          /\ UNCHANGED <<on, executions, refused>>
          /\ on[r] \in Proposals
      BY <1>4, <2>2 DEF ApproveClaim
    <3>2. \A q \in Requests, p \in Proposals :
             Licensed(q, p)' => Licensed(q, p) \/ (q = r /\ p = on[r])
      BY <3>1 DEF Licensed
    <3>3. /\ executions[on[r]] = 0 /\ on[r] \notin refused
          /\ \A q \in Requests : ~Licensed(q, on[r])
      BY <2>2, <3>1 DEF ExecInv
    <3>4. \A p \in Proposals : status'[p] \in {"absent", "PENDING"}
                                 => status[p] \in {"absent", "PENDING"} /\ p # on[r]
      BY <3>1
    <3> HIDE DEF TypeOK
    <3> QED BY <3>1, <3>2, <3>3, <3>4 DEF ExecInv
  <2> QED BY <2>1, <2>2
<1>5. CASE MarkApproved(r)
  BY <1>5, ExecQuiet DEF MarkApproved, Licensed
<1>6. CASE Protect(r)
  <2>1. /\ executions' = [executions EXCEPT ![on[r]] = @ + 1]
        /\ pc' = [pc EXCEPT ![r] = "protecting"]
        /\ UNCHANGED <<on, status, refused>>
        /\ on[r] \in Proposals
        /\ Licensed(r, on[r])
    BY <1>6 DEF Protect, Licensed
  <2>2. executions[on[r]] = 0 /\ on[r] \notin refused
    BY <2>1 DEF ExecInv
  <2>3. \A q \in Requests, p \in Proposals : Licensed(q, p)' => Licensed(q, p) /\ q # r
    BY <2>1 DEF Licensed
  <2>4. \A q \in Requests : ~Licensed(q, on[r])'
    BY <2>1, <2>3 DEF ExecInv
  <2>5. status[on[r]] \notin {"absent", "PENDING"}
    BY <2>1 DEF ExecInv
  <2>6. \A p \in Proposals : executions'[p] = IF p = on[r] THEN 1 ELSE executions[p]
    BY <2>1, <2>2
  <2> HIDE DEF TypeOK
  <2> QED BY <2>1, <2>2, <2>3, <2>4, <2>5, <2>6 DEF ExecInv
<1>7. CASE ProtectReturns(r)
  BY <1>7, ExecQuiet DEF ProtectReturns, Licensed
<1>8. ASSUME NEW s \in {"EXECUTED", "FAILED"}, MarkFinished(r, s) PROVE ExecInv'
  BY <1>8, ExecQuiet DEF MarkFinished, Licensed
<1>9. CASE RejectClaim(r)
  <2>1. CASE status[on[r]] # "PENDING"
    BY <1>9, <2>1, ExecQuiet DEF RejectClaim, Licensed
  <2>2. CASE status[on[r]] = "PENDING"
    <3>1. /\ status' = [status EXCEPT ![on[r]] = "REJECTED"]
          /\ refused' = refused \cup {on[r]}
          /\ pc' = [pc EXCEPT ![r] = "rejected"]
          /\ UNCHANGED <<on, executions>>
          /\ on[r] \in Proposals
      BY <1>9, <2>2 DEF RejectClaim
    <3>2. \A q \in Requests, p \in Proposals : Licensed(q, p)' => Licensed(q, p)
      BY <3>1 DEF Licensed
    <3>3. /\ executions[on[r]] = 0
          /\ \A q \in Requests : ~Licensed(q, on[r])
      BY <2>2, <3>1 DEF ExecInv
    <3>4. \A p \in Proposals : status'[p] \in {"absent", "PENDING"}
                                 => status[p] \in {"absent", "PENDING"} /\ p # on[r]
      BY <3>1
    <3> HIDE DEF TypeOK
    <3> QED BY <3>1, <3>2, <3>3, <3>4 DEF ExecInv
  <2> QED BY <2>1, <2>2
<1> HIDE DEF TypeOK
<1> QED
  BY <1>1, <1>2, <1>3, <1>4, <1>5, <1>6, <1>7, <1>8, <1>9, RequestStep(r) DEF RequestStep

\* A proposal is executed at most once, and never once rejected.
THEOREM ExecutionCorrect == Spec => [](ExecutedAtMostOnce /\ RejectedNeverExecuted)
<1>1. Init => ExecInv
  BY DEF Init, ExecInv, Licensed
<1>2. TypeOK /\ ExecInv /\ [Next]_vars => ExecInv'
  <2> SUFFICES ASSUME TypeOK, ExecInv, [Next]_vars PROVE ExecInv'
    OBVIOUS
  <2> USE DEF TypeOK, Goto, storeVars, requestVars, historyVars
  <2>1. ASSUME NEW k \in Crews, CrewGate(k) PROVE ExecInv'
    BY <2>1, ExecQuiet DEF CrewGate, Licensed
  <2>2. ASSUME NEW k \in Crews, NEW p \in Proposals, CrewPropose(k, p) PROVE ExecInv'
    BY <2>2, ExecQuiet DEF CrewPropose, Licensed
  <2>3. ASSUME NEW r \in Requests, NEW p \in Proposals, ApproveBegin(r, p) PROVE ExecInv'
    BY <2>3, ExecQuiet DEF ApproveBegin, Licensed
  <2>4. ASSUME NEW r \in Requests, NEW p \in Proposals, RejectBegin(r, p) PROVE ExecInv'
    BY <2>4, ExecQuiet DEF RejectBegin, Licensed
  <2>5. ASSUME NEW m \in Mandates, SignMandate(m) PROVE ExecInv'
    BY <2>5, ExecQuiet DEF SignMandate, Licensed
  <2>6. CASE PositionChanges
    BY <2>6, ExecQuiet DEF PositionChanges, Licensed
  <2>7. ASSUME NEW p \in Proposals, TtlPasses(p) \/ HourPasses(p) PROVE ExecInv'
    BY <2>7, ExecQuiet DEF TtlPasses, HourPasses, Licensed
  <2>8. CASE Restart
    BY <2>8, ExecQuiet DEF Restart, Licensed
  <2>9. CASE UNCHANGED vars
    BY <2>9, ExecQuiet DEF vars, Licensed
  <2> HIDE DEF TypeOK
  <2> QED
    BY <2>1, <2>2, <2>3, <2>4, <2>5, <2>6, <2>7, <2>8, <2>9, RequestStepExec DEF Next
<1>3. ExecInv /\ TypeOK => ExecutedAtMostOnce /\ RejectedNeverExecuted
  BY DEF ExecInv, TypeOK, ExecutedAtMostOnce, RejectedNeverExecuted
<1> QED
  BY <1>1, <1>2, <1>3, QueueTypeCorrect, PTL DEF Spec

\* The operator's half of it: an accepted rejection is final for execution, whatever
\* requests were under way.
THEOREM RejectionHonoured == Spec => []RejectedNeverExecuted
  BY ExecutionCorrect, PTL

(***************************************************************************)
(* The rate limit.  A verdict needs a count below the limit and there are  *)
(* at most Crews of them outstanding; an insert turns one into a row.      *)
(***************************************************************************)
Gated == {k \in Crews : crew[k] = "gated"}

RateInv == Cardinality(recent) + Cardinality(Gated) < MaxPerHour + Cardinality(Crews)

\* The two counts are natural numbers, and the verdicts are at most the crews.
LEMMA CountsFinite ==
  ASSUME TypeOK
  PROVE  /\ IsFiniteSet(recent) /\ Cardinality(recent) \in Nat
         /\ IsFiniteSet(Gated) /\ Cardinality(Gated) \in Nat
         /\ Cardinality(Crews) \in Nat /\ Cardinality(Gated) <= Cardinality(Crews)
<1>1. recent \subseteq Proposals /\ Gated \subseteq Crews
  BY DEF TypeOK, Gated
<1> QED
  BY <1>1, QueueAssumption, FS_Subset, FS_CardinalityType

\* A step that inserts no row and passes no gate keeps the invariant.
LEMMA RateQuiet ==
  ASSUME TypeOK, TypeOK', RateInv, recent' \subseteq recent, Gated' \subseteq Gated
  PROVE  RateInv'
<1>1. Cardinality(recent') <= Cardinality(recent) /\ Cardinality(Gated') <= Cardinality(Gated)
  BY CountsFinite, FS_Subset
<1>2. Cardinality(recent') \in Nat /\ Cardinality(Gated') \in Nat
  BY CountsFinite, FS_Subset, FS_CardinalityType
<1> QED
  BY <1>1, <1>2, CountsFinite, QueueAssumption DEF RateInv

\* Concurrent crew runs overshoot the hourly limit by less than their number.
THEOREM RateBounded == Spec => []RateOvershootBounded
<1>1. Init => RateInv
  <2> SUFFICES ASSUME Init PROVE RateInv
    OBVIOUS
  <2>1. recent = {} /\ Gated = {}
    BY DEF Init, Gated
  <2>2. Cardinality(Crews) \in Nat /\ Cardinality(Crews) # 0
    BY QueueAssumption, FS_CardinalityType, FS_EmptySet
  <2> QED
    BY <2>1, <2>2, FS_EmptySet, QueueAssumption DEF RateInv
<1>2. TypeOK /\ TypeOK' /\ RateInv /\ [Next]_vars => RateInv'
  <2> SUFFICES ASSUME TypeOK, TypeOK', RateInv, [Next]_vars PROVE RateInv'
    OBVIOUS
  <2>1. ASSUME NEW k \in Crews, CrewGate(k) PROVE RateInv'
    <3>1. recent' = recent /\ Cardinality(recent) < MaxPerHour
      BY <2>1 DEF CrewGate, GateAllows, RecentCount, storeVars
    <3>2. Gated' \subseteq Crews
      BY DEF Gated
    <3>3. Cardinality(Gated') \in Nat /\ Cardinality(Gated') <= Cardinality(Crews)
      BY <3>2, QueueAssumption, FS_Subset, FS_CardinalityType
    <3> QED
      BY <3>1, <3>3, CountsFinite, QueueAssumption DEF RateInv
  <2>2. ASSUME NEW k \in Crews, NEW p \in Proposals, CrewPropose(k, p) PROVE RateInv'
    <3>1. recent' = recent \cup {p}
      BY <2>2 DEF CrewPropose
    <3>2. Gated' = Gated \ {k} /\ k \in Gated
      BY <2>2 DEF CrewPropose, Gated, TypeOK
    <3>3. Cardinality(recent') \in Nat /\ Cardinality(recent') <= Cardinality(recent) + 1
      <4>1. IsFiniteSet(recent) /\ Cardinality(recent) \in Nat
        BY CountsFinite
      <4>2. \/ Cardinality(recent \cup {p}) = Cardinality(recent)
            \/ Cardinality(recent \cup {p}) = Cardinality(recent) + 1
        BY <4>1, FS_AddElement
      <4> QED
        BY <3>1, <4>1, <4>2
    <3>4. Cardinality(Gated') = Cardinality(Gated) - 1
      BY <3>2, CountsFinite, FS_RemoveElement
    <3> QED
      BY <3>3, <3>4, CountsFinite, QueueAssumption DEF RateInv
  <2>3. ASSUME UNCHANGED <<recent, crew>> PROVE RateInv'
    BY <2>3, RateQuiet DEF Gated
  <2>4. ASSUME NEW r \in Requests, RequestStep(r) PROVE UNCHANGED <<recent, crew>>
    BY <2>4 DEF RequestStep, Revalidate, RevalidateRaised, MarkStale, MarkExpired, ApproveClaim,
                MarkApproved, Protect, ProtectReturns, MarkFinished, RejectClaim, MarkRejected,
                storeVars
  <2>5. ASSUME NEW r \in Requests, NEW p \in Proposals, ApproveBegin(r, p) \/ RejectBegin(r, p)
        PROVE UNCHANGED <<recent, crew>>
    BY <2>5 DEF ApproveBegin, RejectBegin, storeVars
  <2>6. ASSUME NEW m \in Mandates, SignMandate(m) PROVE UNCHANGED <<recent, crew>>
    BY <2>6 DEF SignMandate, storeVars
  <2>7. ASSUME PositionChanges \/ UNCHANGED vars PROVE UNCHANGED <<recent, crew>>
    BY <2>7 DEF PositionChanges, storeVars, vars
  <2>8. ASSUME NEW p \in Proposals, TtlPasses(p) \/ HourPasses(p) PROVE RateInv'
    BY <2>8, RateQuiet DEF TtlPasses, HourPasses, Gated
  <2>9. CASE Restart
    BY <2>9, RateQuiet DEF Restart, Gated, storeVars
  <2> QED
    BY <2>1, <2>2, <2>3, <2>4, <2>5, <2>6, <2>7, <2>8, <2>9 DEF Next
<1>3. RateInv => RateOvershootBounded
  BY DEF RateInv, Gated, RateOvershootBounded, RecentCount
<1> QED
  BY <1>1, <1>2, <1>3, QueueTypeCorrect, PTL DEF Spec
=============================================================================
