---------------------------- MODULE ApprovalQueue ----------------------------
(***************************************************************************)
(* Agent proposals of one borrower, from the crew's policy gate            *)
(* (backend/app/agent/graph.py, tools.py) through the proposals table      *)
(* (agent/store.py) to the human decision (api/routes_agent.py).           *)
(*                                                                         *)
(* Every store call is an await around one SQL statement, so a statement   *)
(* is atomic and anything may happen between two of them.  pc[r] names the *)
(* next statement or call of request r:                                    *)
(*                                                                         *)
(*   approve:  "revalidate" -> "stale" | "expire" | "claim"                *)
(*             -> "approved" -> "protect" -> "protecting" -> "finish"      *)
(*   reject:   "claimReject" -> "rejected"                                 *)
(*                                                                         *)
(* A crew run is "gated" between the gate's verdict and the insert.  What  *)
(* service.protect does is ProtectionService's business; here it registers *)
(* the pair it is given and returns.                                       *)
(***************************************************************************)
EXTENDS Integers, FiniteSets

CONSTANTS
    Proposals,    \* ids the table can hand out
    Requests,     \* concurrent approve / reject requests
    Crews,        \* concurrent crew runs
    Mandates,
    NoMandate,
    NoProposal,
    MaxPerHour    \* max_proposals_per_borrower_per_hour

ASSUME QueueAssumption ==
    /\ NoMandate \notin Mandates
    /\ NoProposal \notin Proposals
    /\ IsFiniteSet(Proposals)
    /\ IsFiniteSet(Crews) /\ Crews # {}
    /\ MaxPerHour \in Nat

VARIABLES
    (* persisted *)
    status,       \* proposals.status, "absent" before the insert
    recent,       \* rows with created_at within the last hour
    expired,      \* rows with expires_at in the past
    (* the process *)
    pc, on, pair, \* per request: where it is, its proposal, the pair it captured
    crew,         \* per crew run
    registry,     \* service.params_of(borrower)
    (* the world *)
    eligible,     \* the position passes every check of the gate but the rate limit
    (* what happened, for the properties *)
    executions,   \* calls of service.protect made for a proposal
    refused       \* proposals whose reject request won the claim

storeVars == <<status, recent, expired>>
requestVars == <<pc, on, pair>>
historyVars == <<executions, refused>>
vars == <<storeVars, requestVars, crew, registry, eligible, historyVars>>

Decisions == {"APPROVED", "REJECTED", "EXECUTED", "FAILED", "STALE", "EXPIRED"}
ProposalStatus == {"PENDING"} \cup Decisions
ApprovePC == {"revalidate", "stale", "expire", "claim", "approved", "protect",
              "protecting", "finish"}
RejectPC == {"claimReject", "rejected"}

TypeOK ==
    /\ status \in [Proposals -> ProposalStatus \cup {"absent"}]
    /\ recent \subseteq Proposals
    /\ expired \subseteq Proposals
    /\ pc \in [Requests -> ApprovePC \cup RejectPC \cup {"idle"}]
    /\ on \in [Requests -> Proposals \cup {NoProposal}]
    /\ pair \in [Requests -> Mandates \cup {NoMandate}]
    /\ crew \in [Crews -> {"idle", "gated"}]
    /\ registry \in Mandates \cup {NoMandate}
    /\ eligible \in BOOLEAN
    /\ executions \in [Proposals -> Nat]
    /\ refused \subseteq Proposals
    /\ \A r \in Requests : pc[r] # "idle" => on[r] \in Proposals

Init ==
    /\ status = [p \in Proposals |-> "absent"]
    /\ recent = {}
    /\ expired = {}
    /\ pc = [r \in Requests |-> "idle"]
    /\ on = [r \in Requests |-> NoProposal]
    /\ pair = [r \in Requests |-> NoMandate]
    /\ crew = [k \in Crews |-> "idle"]
    /\ registry = NoMandate
    /\ eligible \in BOOLEAN
    /\ executions = [p \in Proposals |-> 0]
    /\ refused = {}

-----------------------------------------------------------------------------
(* SQL statements.                                                         *)

\* count_recent_proposals.
RecentCount == Cardinality(recent)

\* UPDATE proposals SET status = s WHERE id = p, whatever the status is.
FinishProposal(p, s) == status' = [status EXCEPT ![p] = s]

\* Mutant: the WHERE clause names the id only.
ClaimAnyway(p, s) == FinishProposal(p, s)

\* UPDATE ... WHERE id = p AND status = 'PENDING' with rowcount 1.
ClaimProposal(p, s) == status[p] = "PENDING" /\ FinishProposal(p, s)

\* Mutant: the rate limit is compared with <= instead of <.
GateAllowsOneMore == registry # NoMandate /\ eligible /\ RecentCount <= MaxPerHour

\* policy.evaluate on freshly read figures.
GateAllows == registry # NoMandate /\ eligible /\ RecentCount < MaxPerHour

-----------------------------------------------------------------------------
(* The crew.                                                               *)

\* node_policy_gate allowed the run; a blocked run queues nothing.
CrewGate(k) ==
    /\ crew[k] = "idle"
    /\ GateAllows
    /\ crew' = [crew EXCEPT ![k] = "gated"]
    /\ UNCHANGED <<storeVars, requestVars, registry, eligible, historyVars>>

\* node_propose / t_propose_protection / insert_proposal.
CrewPropose(k, p) ==
    /\ crew[k] = "gated"
    /\ status[p] = "absent"
    /\ status' = [status EXCEPT ![p] = "PENDING"]
    /\ recent' = recent \cup {p}
    /\ crew' = [crew EXCEPT ![k] = "idle"]
    /\ UNCHANGED <<expired, requestVars, registry, eligible, historyVars>>

-----------------------------------------------------------------------------
(* POST /agent/proposals/{p}/approve.                                      *)

Goto(r, s) == pc' = [pc EXCEPT ![r] = s]

\* Mutant: the handler goes on after it has answered.
AnswerAndGoOn(r) ==
    /\ on' = [on EXCEPT ![r] = NoProposal]
    /\ pair' = [pair EXCEPT ![r] = NoMandate]
    /\ UNCHANGED pc

Answer(r) ==
    /\ Goto(r, "idle")
    /\ on' = [on EXCEPT ![r] = NoProposal]
    /\ pair' = [pair EXCEPT ![r] = NoMandate]

\* The row is PENDING, and the stored pair is captured in the same segment; a
\* borrower without a pair goes straight to STALE.  Any other row is a 404 or a
\* 409 and changes nothing.
ApproveBegin(r, p) ==
    /\ pc[r] = "idle"
    /\ status[p] = "PENDING"
    /\ on' = [on EXCEPT ![r] = p]
    /\ pair' = [pair EXCEPT ![r] = registry]
    /\ Goto(r, IF registry = NoMandate THEN "stale" ELSE "revalidate")
    /\ UNCHANGED <<storeVars, crew, registry, eligible, historyVars>>

\* revalidate() and the TTL check that follows it in the same segment.
\* ack: body.acknowledge_stale.
Revalidate(r, ack) ==
    /\ pc[r] = "revalidate"
    /\ Goto(r, IF ~(eligible /\ RecentCount < MaxPerHour) THEN "stale"
               ELSE IF on[r] \in expired /\ ~ack THEN "expire" ELSE "claim")
    /\ UNCHANGED <<storeVars, on, pair, crew, registry, eligible, historyVars>>

\* revalidate() raised (a read of the position failed): a 500, nothing written.
RevalidateRaised(r) ==
    /\ pc[r] = "revalidate"
    /\ Answer(r)
    /\ UNCHANGED <<storeVars, crew, registry, eligible, historyVars>>

MarkStale(r) ==
    /\ pc[r] = "stale"
    /\ FinishProposal(on[r], "STALE")
    /\ Answer(r)
    /\ UNCHANGED <<recent, expired, crew, registry, eligible, historyVars>>

MarkExpired(r) ==
    /\ pc[r] = "expire"
    /\ FinishProposal(on[r], "EXPIRED")
    /\ Answer(r)
    /\ UNCHANGED <<recent, expired, crew, registry, eligible, historyVars>>

\* Mutant: the result of the claim is not looked at.
ApproveClaimIgnored(r) ==
    /\ pc[r] = "claim"
    /\ \/ ClaimProposal(on[r], "APPROVED")
       \/ status[on[r]] # "PENDING" /\ UNCHANGED status
    /\ Goto(r, "approved")
    /\ UNCHANGED <<recent, expired, on, pair, crew, registry, eligible, historyVars>>

ApproveClaim(r) ==
    /\ pc[r] = "claim"
    /\ \/ ClaimProposal(on[r], "APPROVED") /\ Goto(r, "approved") /\ UNCHANGED <<on, pair>>
       \/ status[on[r]] # "PENDING" /\ Answer(r) /\ UNCHANGED status
    /\ UNCHANGED <<recent, expired, crew, registry, eligible, historyVars>>

MarkApproved(r) ==
    /\ pc[r] = "approved"
    /\ FinishProposal(on[r], "APPROVED")
    /\ Goto(r, "protect")
    /\ UNCHANGED <<recent, expired, on, pair, crew, registry, eligible, historyVars>>

\* service.protect(params, signature), with the pair captured by ApproveBegin;
\* its first act is to register that pair.
Protect(r) ==
    /\ pc[r] = "protect"
    /\ registry' = pair[r]
    /\ executions' = [executions EXCEPT ![on[r]] = @ + 1]
    /\ Goto(r, "protecting")
    /\ UNCHANGED <<storeVars, on, pair, crew, eligible, refused>>

ProtectReturns(r) ==
    /\ pc[r] = "protecting"
    /\ Goto(r, "finish")
    /\ UNCHANGED <<storeVars, on, pair, crew, registry, eligible, historyVars>>

\* EXECUTED when the result was submitted, FAILED otherwise or after an exception.
MarkFinished(r, s) ==
    /\ pc[r] = "finish"
    /\ FinishProposal(on[r], s)
    /\ Answer(r)
    /\ UNCHANGED <<recent, expired, crew, registry, eligible, historyVars>>

-----------------------------------------------------------------------------
(* POST /agent/proposals/{p}/reject.                                       *)

\* The row exists; its status is not looked at here.
RejectBegin(r, p) ==
    /\ pc[r] = "idle"
    /\ status[p] # "absent"
    /\ on' = [on EXCEPT ![r] = p]
    /\ Goto(r, "claimReject")
    /\ UNCHANGED <<storeVars, pair, crew, registry, eligible, historyVars>>

RejectClaim(r) ==
    /\ pc[r] = "claimReject"
    /\ \/ /\ ClaimProposal(on[r], "REJECTED")
          /\ refused' = refused \cup {on[r]}
          /\ Goto(r, "rejected")
          /\ UNCHANGED <<on, pair>>
       \/ /\ status[on[r]] # "PENDING"
          /\ Answer(r)
          /\ UNCHANGED <<status, refused>>
    /\ UNCHANGED <<recent, expired, crew, registry, eligible, executions>>

MarkRejected(r) ==
    /\ pc[r] = "rejected"
    /\ FinishProposal(on[r], "REJECTED")
    /\ Answer(r)
    /\ UNCHANGED <<recent, expired, crew, registry, eligible, historyVars>>

RequestStep(r) ==
    \/ \E ack \in BOOLEAN : Revalidate(r, ack)
    \/ RevalidateRaised(r)
    \/ MarkStale(r)
    \/ MarkExpired(r)
    \/ ApproveClaim(r)
    \/ MarkApproved(r)
    \/ Protect(r)
    \/ ProtectReturns(r)
    \/ \E s \in {"EXECUTED", "FAILED"} : MarkFinished(r, s)
    \/ RejectClaim(r)
    \/ MarkRejected(r)

-----------------------------------------------------------------------------
(* The rest of the world.                                                  *)

\* The borrower signs and posts a mandate.
SignMandate(m) ==
    /\ registry' = m
    /\ UNCHANGED <<storeVars, requestVars, crew, eligible, historyVars>>

\* The position, the market or the keeper starts or stops passing the gate.
PositionChanges ==
    /\ eligible' = ~eligible
    /\ UNCHANGED <<storeVars, requestVars, crew, registry, historyVars>>

\* A row outlives its TTL, and later the window of the rate limit.
TtlPasses(p) ==
    /\ status[p] # "absent" /\ p \notin expired
    /\ expired' = expired \cup {p}
    /\ UNCHANGED <<status, recent, requestVars, crew, registry, eligible, historyVars>>

HourPasses(p) ==
    /\ p \in recent /\ p \in expired
    /\ recent' = recent \ {p}
    /\ UNCHANGED <<status, expired, requestVars, crew, registry, eligible, historyVars>>

\* The process is replaced: the table stays, requests and registry are gone.
Restart ==
    /\ pc' = [r \in Requests |-> "idle"]
    /\ on' = [r \in Requests |-> NoProposal]
    /\ pair' = [r \in Requests |-> NoMandate]
    /\ crew' = [k \in Crews |-> "idle"]
    /\ registry' = NoMandate
    /\ UNCHANGED <<storeVars, eligible, historyVars>>

Next ==
    \/ \E k \in Crews : CrewGate(k) \/ \E p \in Proposals : CrewPropose(k, p)
    \/ \E r \in Requests, p \in Proposals : ApproveBegin(r, p) \/ RejectBegin(r, p)
    \/ \E r \in Requests : RequestStep(r)
    \/ \E m \in Mandates : SignMandate(m)
    \/ PositionChanges
    \/ \E p \in Proposals : TtlPasses(p) \/ HourPasses(p)
    \/ Restart

Spec == Init /\ [][Next]_vars

-----------------------------------------------------------------------------
(* Safety.                                                                 *)

\* FR-20: one human approval executes a proposal once, although every write
\* but the claim is unconditional and requests overlap or die half-way.
ExecutedAtMostOnce == \A p \in Proposals : executions[p] <= 1

\* A proposal whose rejection was accepted never reaches service.protect.
RejectedNeverExecuted == \A p \in refused : executions[p] = 0

\* The gate reads the count and the insert comes later, so concurrent crew runs
\* overshoot the rate limit, by less than their number.
RateOvershootBounded ==
    RecentCount + Cardinality({k \in Crews : crew[k] = "gated"})
        < MaxPerHour + Cardinality(Crews)

-----------------------------------------------------------------------------
(* What the documentation says and the code does not do.                   *)

\* models.py: EXECUTED is "protect() ran and the tx succeeded", and the claim
\* "keeps the audit trail honest".
ExecutedIsFinal ==
    [][\A p \in Proposals : status[p] = "EXECUTED" => status'[p] = "EXECUTED"]_vars
=============================================================================
