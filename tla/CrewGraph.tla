----------------------------- MODULE CrewGraph -----------------------------
(***************************************************************************)
(* The crew graph (backend/app/agent/graph.py) for one borrower: run_crew  *)
(* with its nodes, the rows it writes (agent/store.py, agent/tools.py) and *)
(* the dismissal of a tuning suggestion (api/routes_agent.py).             *)
(*                                                                         *)
(*   monitor -> analyst -> strategist -> gate -> propose -> auditor        *)
(*                                    \-> tuner ----------> auditor        *)
(*                                    \-------------------> auditor        *)
(*                                                                         *)
(* pc[r] names the next await of run r.  A model's answer is free; what it *)
(* may decide is one of four strategies, and one mandate field with its    *)
(* value.  The prose it writes, the figures the guard flags in it and the  *)
(* node traces, whose write failures are swallowed, decide nothing and are *)
(* left out; that the guard itself can raise is not.  Proposals are decided in ApprovalQueue; the breaker, the     *)
(* lock and the label that service.snapshot refreshes are                  *)
(* ProtectionService's, and what metrics() says of them is free here.      *)
(***************************************************************************)
EXTENDS PolicyGate, FiniteSets

CONSTANTS
    Runs,              \* crew runs
    Dismissals,        \* requests to dismiss a tuning suggestion
    Mandates,          \* mandates the borrower may sign
    Assessments,       \* answers of the pipeline
    Accounts,          \* answers of getUserAccountData
    Prices,            \* oracle prices of the debt asset
    SuggestedValues,   \* values a model may suggest for a field
    MaxRecent,         \* proposals of the last hour, at most
    MaxTime,
    Nothing            \* a field of the graph state that was never set

Strategies == {"protect_now", "watch", "stand_down", "retune"}
Terminals == {"proposed", "no_action", "gate_blocked", "tuning_suggested", "error"}

\* PolicyDecision, but for the list of its checks.
Verdicts == [allowed : BOOLEAN, severity : {"ok", "soft_block", "hard_block"}]

\* The API takes no negative figure of a mandate (ge=0), the pipeline and the chain
\* return none, and None is no answer.
ASSUME CrewAssumption ==
    /\ \A m \in Mandates :
        /\ ValidParams(m)
        /\ {m.trigger, m.base, m.max, m.cost, m.deadline} \subseteq Nat
    /\ \A a \in Assessments : a.viable \in BOOLEAN /\ {a.target, a.repay, a.cost} \subseteq Nat
    /\ \A acc \in Accounts : {acc.debt, acc.hf} \subseteq Nat
    /\ Prices \subseteq Nat
    /\ NoMandate \notin Mandates
    /\ Nothing \notin Strategies \cup Terminals \cup Verdicts
    /\ IsFiniteSet(Runs)
    /\ MaxTime \in Nat /\ MaxRecent \in Nat

VARIABLES
    (* the keeper *)
    mandate,      \* service.params_of(borrower)
    now,          \* time.time()
    (* persisted *)
    proposals,    \* run -> its row
    tunings,      \* run -> its row
    audit,        \* audit rows: who wrote what
    (* the process *)
    pc, state,    \* per run: the next await, and the graph state
    read,         \* per run: the mandate its node took from the registry, and what
                  \* the node has read since
    dpc, target   \* per dismissal

keeper == <<mandate, now>>
tables == <<proposals, tunings, audit>>
runVars == <<pc, state, read>>
dismissVars == <<dpc, target>>
vars == <<keeper, tables, runVars, dismissVars>>

TuningStatus == {"open", "dismissed", "resigned"}

\* The vocabulary of the audit trail; the actions of the approval routes are
\* ApprovalQueue's, the panic button is ProtectionService's.
AuditAction == {"CREW_RUN", "PROPOSED", "GATE_BLOCKED", "TUNING_SUGGESTED", "TUNING_DISMISSED"}

\* service.metrics(), for this borrower.
Metrics == [paused : BOOLEAN, inflight : BOOLEAN]

RunPC == {"idle", "monitor", "assess", "snapshot", "price", "analyst", "strategist",
          "gate", "gateAssess", "gateSnapshot", "count", "propose",
          "proposeAudit", "tuner", "suggest", "tunerAudit", "auditor", "blockedAudit",
          "runAudit", "done", "lost"}

\* The graph state a run starts with: nothing but its inputs.
Initial == [registered |-> FALSE, facts |-> Nothing, infinite |-> FALSE, price |-> 0,
            strategy |-> Nothing, gate |-> Nothing, proposed |-> FALSE, tuned |-> FALSE,
            terminal |-> Nothing]

NothingRead == [mandate |-> NoMandate, assessment |-> Nothing, gate |-> Nothing]

TypeOK ==
    /\ mandate \in Mandates \cup {NoMandate}
    /\ now \in 0 .. MaxTime
    /\ DOMAIN proposals \subseteq Runs /\ DOMAIN tunings \subseteq Runs
    /\ \A r \in DOMAIN tunings : tunings[r].status \in TuningStatus \ {"resigned"}
    /\ audit \subseteq (Runs \cup Dismissals) \X AuditAction
    /\ pc \in [Runs -> RunPC]
    /\ \A r \in Runs :
        /\ state[r].price \in Prices \cup {0}
        /\ state[r].strategy \in Strategies \cup {Nothing}
        /\ state[r].terminal \in Terminals \cup {Nothing}
        /\ pc[r] = "done" => state[r].terminal # Nothing
        /\ read[r].mandate \in Mandates \cup {NoMandate}
        /\ pc[r] \in {"assess", "snapshot", "gateAssess", "gateSnapshot", "suggest"} =>
               read[r].mandate # NoMandate
    /\ dpc \in [Dismissals -> {"idle", "set", "audit", "ok", "conflict"}]
    /\ \A d \in Dismissals : dpc[d] # "idle" => target[d] \in DOMAIN tunings

Init ==
    /\ mandate \in Mandates \cup {NoMandate}
    /\ now = 0
    /\ proposals = <<>> /\ tunings = <<>> /\ audit = {}
    /\ pc = [r \in Runs |-> "idle"]
    /\ state = [r \in Runs |-> Initial]
    /\ read = [r \in Runs |-> NothingRead]
    /\ dpc = [d \in Dismissals |-> "idle"]
    /\ target = [d \in Dismissals |-> Nothing]

-----------------------------------------------------------------------------
(* Steps of a run.                                                         *)

\* From await p to await q, with graph state s.
Goto(r, p, q, s) ==
    /\ pc[r] = p
    /\ pc' = [pc EXCEPT ![r] = q]
    /\ state' = [state EXCEPT ![r] = s]

\* A node begins: params_of, before its first await.
Capture(r) == read' = [read EXCEPT ![r].mandate = mandate]

\* A node ends: nothing of what it read outlives it but the graph state.
Drop(r) == read' = [read EXCEPT ![r] = NothingRead]

\* store.audit.
Audit(who, action) == audit' = audit \cup {<<who, action>>}

\* run_crew: the graph is compiled and invoked on the inputs.
StartRun(r) ==
    /\ Goto(r, "idle", "monitor", Initial)
    /\ UNCHANGED <<keeper, tables, read, dismissVars>>

\* The number guard renders every figure of the fact sheet before it looks at the
\* prose, and int() of an infinite health factor raises OverflowError.
GuardRaises(s) == s.infinite

\* Any exception of a node that is not caught in it: the result says "error".
RunFails(r) ==
    /\ \/ pc[r] \in {"assess", "snapshot", "gateAssess", "gateSnapshot", "count",
                     "propose", "proposeAudit", "tunerAudit", "blockedAudit", "runAudit"}
       \/ pc[r] = "auditor" /\ GuardRaises(state[r])
    /\ pc' = [pc EXCEPT ![r] = "done"]
    /\ state' = [state EXCEPT ![r].terminal = "error"]
    /\ Drop(r)
    /\ UNCHANGED <<keeper, tables, dismissVars>>

-----------------------------------------------------------------------------
(* node_monitor.                                                           *)

MonitorUnregistered(r) ==
    /\ mandate = NoMandate
    /\ Goto(r, "monitor", "analyst", [state[r] EXCEPT !.terminal = "no_action"])
    /\ UNCHANGED <<keeper, tables, read, dismissVars>>

MonitorBegin(r) ==
    /\ mandate # NoMandate
    /\ Goto(r, "monitor", "assess", state[r])
    /\ Capture(r)
    /\ UNCHANGED <<keeper, tables, dismissVars>>

\* service.assess, in the monitor and again in the gate.
Assess(r, a) ==
    /\ \/ Goto(r, "assess", "snapshot", state[r])
       \/ Goto(r, "gateAssess", "gateSnapshot", state[r])
    /\ a \in PipelineAnswers(read[r].mandate, Assessments)
    /\ read' = [read EXCEPT ![r].assessment = a]
    /\ UNCHANGED <<keeper, tables, dismissVars>>

\* The fields of build_factsheet that decide something.
FactSheet(a, snap) ==
    [viable |-> a.viable, hf |-> HfBps(snap.account), trigger |-> snap.trigger]

MonitorSnapshot(r, acc) ==
    LET snap == Snapshot(acc, read[r].mandate.trigger)
    IN  /\ Goto(r, "snapshot", "price",
                [state[r] EXCEPT !.registered = TRUE,
                                 !.facts = FactSheet(read[r].assessment, snap),
                                 !.infinite = (read[r].assessment.hf = Infinite)])
        /\ Drop(r)
        /\ UNCHANGED <<keeper, tables, dismissVars>>

\* _debt_price_base: the only reading of the price in a run, 0 when it fails.
MonitorPrice(r, price) ==
    /\ Goto(r, "price", "analyst", [state[r] EXCEPT !.price = price])
    /\ UNCHANGED <<keeper, tables, read, dismissVars>>

-----------------------------------------------------------------------------
(* node_analyst, node_strategist and the routing.                          *)

\* Prose, or the fallback when the model fails: either way the run goes on.
Analyst(r) ==
    /\ Goto(r, "analyst", "strategist", state[r])
    /\ UNCHANGED <<keeper, tables, read, dismissVars>>

DeterministicStrategy(facts) ==
    IF facts = Nothing THEN "stand_down"
    ELSE IF facts.viable /\ facts.hf <= facts.trigger THEN "protect_now"
    ELSE IF facts.hf <= facts.trigger + WatchBand THEN "watch" ELSE "stand_down"

RouteStrategy(s) ==
    CASE s.registered /\ s.strategy = "protect_now" -> "gate"
      [] s.registered /\ s.strategy = "retune" -> "tuner"
      [] OTHER -> "auditor"

\* The model's choice, or the deterministic one when its answer is unusable.  No
\* later node decides anything from the facts but whether the guard raises, so
\* they are dropped here and that is kept.
Strategist(r, choice) ==
    LET s == [state[r] EXCEPT !.strategy = choice, !.facts = Nothing]
    IN  /\ Goto(r, "strategist", RouteStrategy(s), s)
        /\ UNCHANGED <<keeper, tables, read, dismissVars>>

StrategistFallsBack(r) == Strategist(r, DeterministicStrategy(state[r].facts))

-----------------------------------------------------------------------------
(* node_policy_gate.                                                       *)

GateDisappeared(r) ==
    /\ mandate = NoMandate
    /\ Goto(r, "gate", "auditor", [state[r] EXCEPT !.terminal = "gate_blocked"])
    /\ UNCHANGED <<keeper, tables, read, dismissVars>>

\* Mutant: the mandate is taken to be there still.
GateBeginUnchecked(r) ==
    /\ Goto(r, "gate", "gateAssess", state[r])
    /\ Capture(r)
    /\ UNCHANGED <<keeper, tables, dismissVars>>

GateBegin(r) ==
    /\ mandate # NoMandate
    /\ Goto(r, "gate", "gateAssess", state[r])
    /\ Capture(r)
    /\ UNCHANGED <<keeper, tables, dismissVars>>

\* The snapshot, and in the same segment the metrics and the time.  The price is
\* the monitor's.
GateSnapshot(r, acc, metrics) ==
    LET snap == Snapshot(acc, read[r].mandate.trigger)
    IN  /\ Goto(r, "gateSnapshot", "count", state[r])
        /\ read' = [read EXCEPT ![r].gate =
                      [mandate |-> read[r].mandate, assessment |-> read[r].assessment,
                       snapshot |-> snap, paused |-> metrics.paused, inflight |-> metrics.inflight,
                       now |-> now, price |-> state[r].price,
                       recent |-> 0, recentGlobal |-> 0]]
        /\ UNCHANGED <<keeper, tables, dismissVars>>

RouteGate(gate) == IF gate # Nothing /\ gate.allowed THEN "propose" ELSE "auditor"

\* The two counts and the verdict.  What the counts come to, with other runs
\* inserting rows between them, is ApprovalQueue's.
CountAndEvaluate(r, own, all) ==
    LET in == [read[r].gate EXCEPT !.recent = own, !.recentGlobal = all]
        gate == [allowed |-> Allowed(in), severity |-> Severity(in)]
    IN  /\ pc[r] = "count" /\ ~GateRaises(in)
        /\ Goto(r, "count", RouteGate(gate), [state[r] EXCEPT !.gate = gate])
        /\ read' = [read EXCEPT ![r] = IF gate.allowed THEN [NothingRead EXCEPT !.gate = in]
                                                       ELSE NothingRead]
        /\ UNCHANGED <<keeper, tables, dismissVars>>

-----------------------------------------------------------------------------
(* node_propose.                                                           *)

\* INSERT INTO proposals.  judged is not a column: it is what the verdict in the
\* row was about.
InsertProposal(r, judged) ==
    proposals' = [p \in DOMAIN proposals \cup {r} |->
                    IF p = r THEN [judged |-> judged] ELSE proposals[p]]

\* t_propose_protection refuses what the gate blocked.
ProposeProtection(r) == state[r].gate.allowed /\ InsertProposal(r, read[r].gate)

Propose(r) ==
    /\ ~GuardRaises(state[r])
    /\ Goto(r, "propose", "proposeAudit", state[r])
    /\ ProposeProtection(r)
    /\ Drop(r)
    /\ UNCHANGED <<keeper, tunings, audit, dismissVars>>

\* Mutant: the audit row is left to the auditor, which writes its own only.
ProposeUnaudited(r) ==
    /\ Goto(r, "proposeAudit", "auditor",
            [state[r] EXCEPT !.proposed = TRUE, !.terminal = "proposed"])
    /\ UNCHANGED <<keeper, tables, read, dismissVars>>

ProposeAudit(r) ==
    /\ Goto(r, "proposeAudit", "auditor",
            [state[r] EXCEPT !.proposed = TRUE, !.terminal = "proposed"])
    /\ Audit(r, "PROPOSED")
    /\ UNCHANGED <<keeper, proposals, tunings, read, dismissVars>>

-----------------------------------------------------------------------------
(* node_tuner.                                                             *)

TunerDisappeared(r) ==
    /\ mandate = NoMandate
    /\ Goto(r, "tuner", "auditor", [state[r] EXCEPT !.terminal = "no_action"])
    /\ UNCHANGED <<keeper, tables, read, dismissVars>>

TunerBegin(r) ==
    /\ mandate # NoMandate
    /\ Goto(r, "tuner", "suggest", state[r])
    /\ Capture(r)
    /\ UNCHANGED <<keeper, tables, dismissVars>>

\* INSERT INTO tuning_suggestions.  The columns that show the suggestion are read
\* by nobody but its reader.
InsertTuning(r) ==
    tunings' = [p \in DOMAIN tunings \cup {r} |->
                    IF p = r THEN [status |-> "open"] ELSE tunings[p]]

\* t_propose_tuning: the complete mandate to sign, validated before it is stored.
ProposeTuning(r, m, field, value) ==
    /\ ValidParams([m EXCEPT ![field] = value])
    /\ InsertTuning(r)

\* The model answers with one field and its value.
Suggest(r, field, value) ==
    /\ Goto(r, "suggest", "tunerAudit", state[r])
    /\ ProposeTuning(r, read[r].mandate, field, value)
    /\ UNCHANGED <<keeper, proposals, audit, read, dismissVars>>

\* Mutant: the model is asked again until its answer is usable.
TunerAsksAgain(r) ==
    /\ Goto(r, "suggest", "tuner", state[r])
    /\ UNCHANGED <<keeper, tables, read, dismissVars>>

\* The model failed or timed out, its answer is no valid mandate, or the insert
\* failed.
TunerGivesUp(r) ==
    /\ Goto(r, "suggest", "auditor", [state[r] EXCEPT !.terminal = "no_action"])
    /\ UNCHANGED <<keeper, tables, read, dismissVars>>

TunerAudit(r) ==
    /\ Goto(r, "tunerAudit", "auditor",
            [state[r] EXCEPT !.tuned = TRUE, !.terminal = "tuning_suggested"])
    /\ Audit(r, "TUNING_SUGGESTED")
    /\ UNCHANGED <<keeper, proposals, tunings, read, dismissVars>>

-----------------------------------------------------------------------------
(* node_auditor.                                                           *)

\* Mutant: a verdict that blocks is forgotten.
TerminalForUngated(s) ==
    IF s.proposed THEN "proposed" ELSE IF s.tuned THEN "tuning_suggested" ELSE "no_action"

TerminalFor(s) ==
    IF s.proposed THEN "proposed"
    ELSE IF s.tuned THEN "tuning_suggested"
    ELSE IF s.gate # Nothing /\ ~s.gate.allowed THEN "gate_blocked" ELSE "no_action"

\* The terminal a node has set, or the one the state implies; then the summary.
Auditor(r) ==
    LET terminal == IF state[r].terminal # Nothing THEN state[r].terminal
                    ELSE TerminalFor(state[r])
    IN  /\ ~GuardRaises(state[r])
        /\ Goto(r, "auditor", IF terminal = "gate_blocked" THEN "blockedAudit" ELSE "runAudit",
                [state[r] EXCEPT !.terminal = terminal])
        /\ UNCHANGED <<keeper, tables, read, dismissVars>>

BlockedAudit(r) ==
    /\ Goto(r, "blockedAudit", "runAudit", state[r])
    /\ Audit(r, "GATE_BLOCKED")
    /\ UNCHANGED <<keeper, proposals, tunings, read, dismissVars>>

RunAudit(r) ==
    /\ Goto(r, "runAudit", "done", state[r])
    /\ Audit(r, "CREW_RUN")
    /\ UNCHANGED <<keeper, proposals, tunings, read, dismissVars>>

-----------------------------------------------------------------------------
(* POST /agent/tuning/{id}/dismiss.                                        *)

\* get_tuning found the row; a missing one is a 404.
DismissBegin(d, p) ==
    /\ dpc[d] = "idle"
    /\ p \in DOMAIN tunings
    /\ dpc' = [dpc EXCEPT ![d] = "set"]
    /\ target' = [target EXCEPT ![d] = p]
    /\ UNCHANGED <<keeper, tables, runVars>>

\* UPDATE ... WHERE id = ? AND status = 'open': the loser gets a 409.
SetTuningStatus(d) ==
    LET open == tunings[target[d]].status = "open"
    IN  /\ dpc[d] = "set"
        /\ tunings' = IF open THEN [tunings EXCEPT ![target[d]].status = "dismissed"] ELSE tunings
        /\ dpc' = [dpc EXCEPT ![d] = IF open THEN "audit" ELSE "conflict"]
        /\ UNCHANGED <<keeper, proposals, audit, runVars, target>>

DismissAudit(d) ==
    /\ dpc[d] = "audit"
    /\ Audit(d, "TUNING_DISMISSED")
    /\ dpc' = [dpc EXCEPT ![d] = "ok"]
    /\ UNCHANGED <<keeper, proposals, tunings, runVars, target>>

-----------------------------------------------------------------------------
(* The rest of the keeper.                                                 *)

\* POST /protect registers a mandate the borrower has signed.
Register(m) ==
    /\ mandate' = m
    /\ UNCHANGED <<now, tables, runVars, dismissVars>>

\* ProtectionService.unregister.
Unregister ==
    /\ mandate' = NoMandate
    /\ UNCHANGED <<now, tables, runVars, dismissVars>>

Tick ==
    /\ now < MaxTime
    /\ now' = now + 1
    /\ UNCHANGED <<mandate, tables, runVars, dismissVars>>

\* The process ends in the middle of anything; the tables remain.
Restart ==
    /\ mandate' = NoMandate
    /\ pc' = [r \in Runs |-> IF pc[r] \in {"idle", "done"} THEN pc[r] ELSE "lost"]
    /\ dpc' = [d \in Dismissals |-> IF dpc[d] \in {"set", "audit"} THEN "idle" ELSE dpc[d]]
    /\ read' = [r \in Runs |-> NothingRead]
    /\ UNCHANGED <<now, tables, state, target>>

-----------------------------------------------------------------------------
RunStep(r) ==
    \/ RunFails(r)
    \/ MonitorUnregistered(r) \/ MonitorBegin(r)
    \/ \E a \in Assessments : Assess(r, a)
    \/ \E acc \in Accounts :
        \/ MonitorSnapshot(r, acc)
        \/ \E metrics \in Metrics : GateSnapshot(r, acc, metrics)
    \/ \E price \in Prices \cup {0} : MonitorPrice(r, price)
    \/ Analyst(r)
    \/ \E choice \in Strategies : Strategist(r, choice)
    \/ StrategistFallsBack(r)
    \/ GateDisappeared(r) \/ GateBegin(r)
    \/ \E own, all \in 0 .. MaxRecent : own <= all /\ CountAndEvaluate(r, own, all)
    \/ Propose(r) \/ ProposeAudit(r)
    \/ TunerDisappeared(r) \/ TunerBegin(r) \/ TunerGivesUp(r) \/ TunerAudit(r)
    \/ \E field \in TunableFields, value \in SuggestedValues : Suggest(r, field, value)
    \/ Auditor(r) \/ BlockedAudit(r) \/ RunAudit(r)

DismissStep(d) ==
    \/ \E p \in Runs : DismissBegin(d, p)
    \/ SetTuningStatus(d)
    \/ DismissAudit(d)

Keeper == (\E m \in Mandates : Register(m)) \/ Unregister \/ Tick \/ Restart

Next ==
    \/ \E r \in Runs : StartRun(r) \/ RunStep(r)
    \/ \E d \in Dismissals : DismissStep(d)
    \/ Keeper

\* Awaits are answered: reads and statements end or raise, and a model call ends
\* within its timeout.
Spec == Init /\ [][Next]_vars /\ \A r \in Runs : WF_vars(RunStep(r))

-----------------------------------------------------------------------------
(* Properties.                                                             *)

\* Whatever the model answered and whatever moved between the awaits, the plan a
\* queued row's verdict was about is one the vault would take for the mandate it
\* was assessed under: current (a deadline of 0, which the gate reads as none,
\* aside), an allowed collateral, a target in the signed band, a cost within both
\* caps, a repay that could be valued and is within the operator's share of the
\* debt.  The position was at its trigger, so WATCH never leads to a row although
\* policy.py lists it as actionable.
ProposalExecutable ==
    \A r \in DOMAIN proposals :
        LET j == proposals[r].judged
            value == (j.assessment.repay * j.price) \div TokenUnit
        IN  /\ j.mandate.deadline # 0 => j.now <= j.mandate.deadline
            /\ j.assessment.coll \in j.mandate.allowed
            /\ j.assessment.target \in j.mandate.base .. j.mandate.max
            /\ j.assessment.cost <= j.mandate.cost /\ j.assessment.cost <= Limits.cost
            /\ 0 < value
            /\ value * Limits.repayDen <= j.snapshot.account.debt * Limits.repayNum
            /\ j.snapshot.state = "ASSESSING"

\* Runs whose result reached the caller as something else than "error".
Concluded == {r \in Runs : pc[r] = "done" /\ state[r].terminal # "error"}

\* The terminal a run reports is what it did: "proposed" exactly when it left a
\* row, "tuning_suggested" exactly when it left a suggestion, and a run that set
\* out to protect a registered borrower says that it was refused when it was.
TerminalHonest ==
    \A r \in Concluded :
        /\ state[r].terminal = "proposed" <=> r \in DOMAIN proposals
        /\ state[r].terminal = "tuning_suggested" <=> r \in DOMAIN tunings
        /\ state[r].terminal = "gate_blocked" <=>
               /\ state[r].registered /\ state[r].strategy = "protect_now"
               /\ r \notin DOMAIN proposals

\* The audit trail tells of every row a concluded run left and of every refusal,
\* no run, failed and lost ones included, claims a row that is not there, and of the
\* operators who dismiss one suggestion at the same time one is on record.
TrailComplete ==
    /\ \A r \in Concluded :
        /\ <<r, "CREW_RUN">> \in audit
        /\ r \in DOMAIN proposals => <<r, "PROPOSED">> \in audit
        /\ r \in DOMAIN tunings => <<r, "TUNING_SUGGESTED">> \in audit
        /\ state[r].terminal = "gate_blocked" => <<r, "GATE_BLOCKED">> \in audit
    /\ \A r \in Runs :
        /\ <<r, "PROPOSED">> \in audit => r \in DOMAIN proposals
        /\ <<r, "TUNING_SUGGESTED">> \in audit => r \in DOMAIN tunings
        /\ \A d, e \in Dismissals :
            /\ target[d] = r /\ <<d, "TUNING_DISMISSED">> \in audit
            /\ target[e] = r /\ <<e, "TUNING_DISMISSED">> \in audit
            => d = e

\* Every run ends with a result, through failed reads and silent models, unless
\* the process is stopped.
RunEnds == \A r \in Runs : pc[r] = "monitor" ~> pc[r] \in {"done", "lost"}
=============================================================================
