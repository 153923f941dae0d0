-------------------------- MODULE CrewGraphProofs --------------------------
(***************************************************************************)
(* Proofs about CrewGraph, for any number of runs and dismissals and       *)
(* whatever the model, the pipeline, Aave and the clock answer.            *)
(*                                                                         *)
(* RunInv says, for the await a run stands at, which rows it has left and  *)
(* what its graph state promises about them.  It speaks of one run only,   *)
(* and a step changes one run, so the frame lemma RunKept carries it over  *)
(* the steps of every other actor.                                         *)
(***************************************************************************)
EXTENDS CrewGraph, TLAPS

(* The types the proofs need, stronger than TypeOK.                        *)

Facts == [viable : BOOLEAN, hf : Nat, trigger : Nat]

GraphState ==
    [registered : BOOLEAN, facts : Facts \cup {Nothing}, infinite : BOOLEAN,
     price : Prices \cup {0}, strategy : Strategies \cup {Nothing},
     gate : Verdicts \cup {Nothing}, proposed : BOOLEAN, tuned : BOOLEAN, terminal : Terminals \cup {Nothing}]

Snapshots == {Snapshot(acc, m.trigger) : acc \in Accounts, m \in Mandates}

\* What a verdict is about, as the gate node collects it.
GateInputs ==
    [mandate : Mandates, assessment : Assessments, snapshot : Snapshots,
     paused : BOOLEAN, inflight : BOOLEAN, now : 0 .. MaxTime, price : Prices \cup {0},
     recent : 0 .. MaxRecent, recentGlobal : 0 .. MaxRecent]

Reads ==
    [mandate : Mandates \cup {NoMandate}, assessment : Assessments \cup {Nothing},
     gate : GateInputs \cup {Nothing}]

Tunings == [status : {"open", "dismissed"}]

StoreType ==
    /\ mandate \in Mandates \cup {NoMandate}
    /\ now \in 0 .. MaxTime
    /\ DOMAIN proposals \subseteq Runs
    /\ DOMAIN tunings \subseteq Runs
    /\ audit \subseteq (Runs \cup Dismissals) \X AuditAction

RunType ==
    /\ pc \in [Runs -> RunPC]
    /\ state \in [Runs -> GraphState]
    /\ read \in [Runs -> Reads]

DismissType ==
    /\ dpc \in [Dismissals -> {"idle", "set", "audit", "ok", "conflict"}]
    /\ target \in [Dismissals -> Runs \cup {Nothing}]

-----------------------------------------------------------------------------
(* Where a run stands.                                                     *)

\* The awaits before the strategy is chosen, of the gate's node and the next, and
\* of the tuner's.
Watching == {"idle", "monitor", "assess", "snapshot", "price", "analyst", "strategist"}
Gating == {"gate", "gateAssess", "gateSnapshot", "count", "propose", "proposeAudit"}
Tuning == {"tuner", "suggest", "tunerAudit"}

\* The terminal the auditor will report.
Reported(s) == IF s.terminal # Nothing THEN s.terminal ELSE TerminalFor(s)

\* Terminal t tells what run r did.
Honest(r, t) ==
    /\ t \in Terminals \ {"error"}
    /\ t = "proposed" <=> r \in DOMAIN proposals
    /\ t = "tuning_suggested" <=> r \in DOMAIN tunings
    /\ t = "gate_blocked" <=>
           state[r].registered /\ state[r].strategy = "protect_now" /\ r \notin DOMAIN proposals

\* The rows run r has left are in the audit trail.
RowsAudited(r) ==
    /\ r \in DOMAIN proposals => <<r, "PROPOSED">> \in audit
    /\ r \in DOMAIN tunings => <<r, "TUNING_SUGGESTED">> \in audit

\* No result of any node is in graph state s yet.
Fresh(s) == s.gate = Nothing /\ ~s.proposed /\ ~s.tuned

WatchingInv(r) ==
    pc[r] \in Watching =>
        /\ r \notin DOMAIN proposals /\ r \notin DOMAIN tunings
        /\ Fresh(state[r])
        /\ \/ /\ state[r].terminal = Nothing
              /\ state[r].registered <=> pc[r] \in {"price", "analyst", "strategist"}
           \/ /\ state[r].terminal = "no_action" /\ ~state[r].registered
              /\ pc[r] \in {"analyst", "strategist"}

GatingInv(r) ==
    pc[r] \in Gating =>
        /\ state[r].registered /\ state[r].strategy = "protect_now"
        /\ state[r].terminal = Nothing /\ ~state[r].proposed /\ ~state[r].tuned
        /\ r \notin DOMAIN tunings
        /\ r \in DOMAIN proposals <=> pc[r] = "proposeAudit"
        /\ pc[r] = "propose" => state[r].gate # Nothing /\ state[r].gate.allowed

TuningInv(r) ==
    pc[r] \in Tuning =>
        /\ state[r].registered /\ state[r].strategy = "retune"
        /\ state[r].terminal = Nothing /\ Fresh(state[r])
        /\ r \notin DOMAIN proposals
        /\ r \in DOMAIN tunings <=> pc[r] = "tunerAudit"

\* The result of run r reached the caller.
Ended(r) == pc[r] = "done" /\ state[r].terminal # "error"

EndingInv(r) ==
    /\ pc[r] = "auditor" => Honest(r, Reported(state[r])) /\ RowsAudited(r)
    /\ pc[r] \in {"blockedAudit", "runAudit"} \/ Ended(r) =>
           Honest(r, state[r].terminal) /\ RowsAudited(r)
    /\ pc[r] = "blockedAudit" => state[r].terminal = "gate_blocked"
    /\ (pc[r] = "runAudit" \/ Ended(r)) /\ state[r].terminal = "gate_blocked" =>
           <<r, "GATE_BLOCKED">> \in audit
    /\ Ended(r) => <<r, "CREW_RUN">> \in audit

\* The figures of a verdict belong together: the snapshot was classified against
\* the trigger of the mandate that was assessed.
Consistent(in) ==
    /\ in \in GateInputs
    /\ in.snapshot = Snapshot(in.snapshot.account, in.mandate.trigger)

\* What a node has read, at the awaits that use it.
ReadInv(r) ==
    /\ pc[r] \in {"assess", "snapshot", "gateAssess", "gateSnapshot", "suggest"} =>
           read[r].mandate \in Mandates
    /\ pc[r] \in {"snapshot", "gateSnapshot"} => read[r].assessment \in Assessments
    /\ pc[r] = "count" => Consistent(read[r].gate)
    /\ pc[r] = "propose" => Consistent(read[r].gate) /\ Allowed(read[r].gate)

RunInv(r) == WatchingInv(r) /\ GatingInv(r) /\ TuningInv(r) /\ EndingInv(r) /\ ReadInv(r)

-----------------------------------------------------------------------------
(* What stands in the tables.                                              *)

\* A queued row's verdict was about such figures, and favourable.
JudgedInv ==
    \A r \in DOMAIN proposals :
        Consistent(proposals[r].judged) /\ Allowed(proposals[r].judged)

TuningRowsInv == \A r \in DOMAIN tunings : tunings[r] \in Tunings

\* The trail claims no row that is not there.
AuditSound ==
    \A r \in Runs :
        /\ <<r, "PROPOSED">> \in audit => r \in DOMAIN proposals
        /\ <<r, "TUNING_SUGGESTED">> \in audit => r \in DOMAIN tunings

\* A dismissal that went through has its row, alone.
DismissInv ==
    /\ \A d \in Dismissals :
        /\ dpc[d] # "idle" => target[d] \in DOMAIN tunings
        /\ dpc[d] \in {"audit", "ok"} => tunings[target[d]].status = "dismissed"
        /\ <<d, "TUNING_DISMISSED">> \in audit => dpc[d] = "ok"
    /\ \A d, e \in Dismissals :
        dpc[d] \in {"audit", "ok"} /\ dpc[e] \in {"audit", "ok"} /\ target[d] = target[e] => d = e

CrewInv ==
    /\ StoreType /\ RunType /\ DismissType
    /\ \A r \in Runs : RunInv(r)
    /\ JudgedInv /\ TuningRowsInv /\ AuditSound /\ DismissInv

-----------------------------------------------------------------------------
(* The facts about operators that the proofs rest on.                      *)

\* A node's updates of the graph state keep it one, and touch what they name only.
LEMMA TerminalSet ==
    ASSUME NEW s \in GraphState, NEW t \in Terminals
    PROVE  LET u == [s EXCEPT !.terminal = t]
           IN  /\ u \in GraphState /\ u.terminal = t
               /\ u.registered = s.registered /\ u.strategy = s.strategy /\ u.gate = s.gate
               /\ u.proposed = s.proposed /\ u.tuned = s.tuned
  BY DEF GraphState

\* MonitorPrice writes the price, and none of the fields the routing reads.
LEMMA PriceSet ==
    ASSUME NEW s \in GraphState, NEW price \in Prices \cup {0}
    PROVE  LET u == [s EXCEPT !.price = price]
           IN  /\ u \in GraphState /\ u.terminal = s.terminal
               /\ u.registered = s.registered /\ u.strategy = s.strategy /\ u.gate = s.gate
               /\ u.proposed = s.proposed /\ u.tuned = s.tuned
  BY DEF GraphState

\* Strategist writes its choice and drops the facts.
LEMMA StrategySet ==
    ASSUME NEW s \in GraphState, NEW choice \in Strategies
    PROVE  LET u == [s EXCEPT !.strategy = choice, !.facts = Nothing]
           IN  /\ u \in GraphState /\ u.terminal = s.terminal
               /\ u.registered = s.registered /\ u.strategy = choice /\ u.gate = s.gate
               /\ u.proposed = s.proposed /\ u.tuned = s.tuned
  BY DEF GraphState

\* CountAndEvaluate writes the gate's verdict.
LEMMA GateSet ==
    ASSUME NEW s \in GraphState, NEW gate \in Verdicts
    PROVE  LET u == [s EXCEPT !.gate = gate]
           IN  /\ u \in GraphState /\ u.terminal = s.terminal
               /\ u.registered = s.registered /\ u.strategy = s.strategy /\ u.gate = gate
               /\ u.proposed = s.proposed /\ u.tuned = s.tuned
  BY DEF GraphState

\* ProposeAudit and TunerAudit record that their row was inserted, and the terminal that says so.
LEMMA OutcomeSet ==
    ASSUME NEW s \in GraphState
    PROVE  LET p == [s EXCEPT !.proposed = TRUE, !.terminal = "proposed"]
               t == [s EXCEPT !.tuned = TRUE, !.terminal = "tuning_suggested"]
           IN  /\ p \in GraphState /\ p.terminal = "proposed"
               /\ p.registered = s.registered /\ p.strategy = s.strategy
               /\ t \in GraphState /\ t.terminal = "tuning_suggested"
               /\ t.registered = s.registered /\ t.strategy = s.strategy
  BY DEF GraphState, Terminals

\* No node keeps anything of another run's.
OthersStay(r) ==
    \A o \in Runs \ {r} : pc'[o] = pc[o] /\ state'[o] = state[o] /\ read'[o] = read[o]

\* What a step of a run has to show of the run itself.
Moved(r) == RunType' /\ OthersStay(r) /\ RunInv(r)'

\* From await p to await q with graph state s, for run r only.
Stepped(r, p, q, s) ==
    /\ pc' \in [Runs -> RunPC] /\ state' \in [Runs -> GraphState]
    /\ pc[r] = p /\ pc'[r] = q /\ state'[r] = s
    /\ \A o \in Runs \ {r} : pc'[o] = pc[o] /\ state'[o] = state[o]

\* Goto is such a step.
LEMMA GotoMoves ==
    ASSUME RunType, NEW r \in Runs, NEW p \in RunPC, NEW q \in RunPC, NEW s \in GraphState,
           Goto(r, p, q, s)
    PROVE  Stepped(r, p, q, s)
  BY DEF RunType, Goto, Stepped

\* A node takes the mandate from the registry.
LEMMA CaptureReads ==
    ASSUME RunType, StoreType, NEW r \in Runs, Capture(r)
    PROVE  /\ read' \in [Runs -> Reads] /\ read'[r].mandate = mandate
           /\ \A o \in Runs \ {r} : read'[o] = read[o]
  <1>1. read[r] \in Reads
    BY DEF RunType
  <1>2. [read[r] EXCEPT !.mandate = mandate] \in Reads
        /\ [read[r] EXCEPT !.mandate = mandate].mandate = mandate
    BY <1>1 DEF Reads, StoreType
  <1> QED
    BY <1>2 DEF Capture, RunType

\* A node forgets what it has read.
LEMMA DropReads ==
    ASSUME RunType, NEW r \in Runs, Drop(r)
    PROVE  /\ read' \in [Runs -> Reads] /\ read'[r] = NothingRead
           /\ \A o \in Runs \ {r} : read'[o] = read[o]
  <1>1. NothingRead \in Reads
    BY DEF NothingRead, Reads
  <1> QED
    BY <1>1 DEF Drop, RunType

\* The invariant of a run is about its own rows and audit entries.
LEMMA RunKept ==
    ASSUME NEW r \in Runs, RunInv(r),
           pc'[r] = pc[r], state'[r] = state[r], read'[r] = read[r],
           r \in DOMAIN proposals' <=> r \in DOMAIN proposals,
           r \in DOMAIN tunings' <=> r \in DOMAIN tunings,
           audit \subseteq audit'
    PROVE  RunInv(r)'
  <1>1. WatchingInv(r)' /\ GatingInv(r)' /\ TuningInv(r)' /\ ReadInv(r)'
    BY DEF RunInv, WatchingInv, GatingInv, TuningInv, ReadInv, Fresh
  <1>2. EndingInv(r)'
    BY DEF RunInv, EndingInv, Ended, Honest, RowsAudited, Reported, TerminalFor
  <1> QED
    BY <1>1, <1>2 DEF RunInv

-----------------------------------------------------------------------------
(* The steps of a run, node by node.                                       *)

\* None is neither a strategy, a terminal nor a verdict.
LEMMA NothingIsNone ==
    /\ Nothing \notin Strategies /\ Nothing \notin Terminals /\ Nothing \notin Verdicts
    /\ NoMandate \notin Mandates
  BY CrewAssumption

\* run_crew and node_monitor.
LEMMA MonitorMoves ==
    ASSUME CrewInv, NEW r \in Runs,
           \/ StartRun(r) \/ MonitorUnregistered(r) \/ MonitorBegin(r)
           \/ \E price \in Prices \cup {0} : MonitorPrice(r, price)
    PROVE  Moved(r)
  <1> USE DEF CrewInv
  <1>1. RunType /\ StoreType /\ RunInv(r) /\ state[r] \in GraphState
    BY DEF RunType
  <1>2. CASE StartRun(r)
    <2>1. Initial \in GraphState
      BY DEF Initial, GraphState
    <2>2. /\ Initial.terminal = Nothing /\ ~Initial.registered
          /\ Fresh(Initial)
      BY DEF Initial, Fresh
    <2>3. Goto(r, "idle", "monitor", Initial) /\ read' = read
      BY <1>2 DEF StartRun
    <2>4. Stepped(r, "idle", "monitor", Initial)
      BY <1>1, <2>1, <2>3, GotoMoves DEF RunPC
    <2>5. r \notin DOMAIN proposals' /\ r \notin DOMAIN tunings'
      BY <1>1, <1>2, <2>4 DEF StartRun, tables, RunInv, WatchingInv, Watching, Stepped
    <2> QED
      BY <1>1, <2>2, <2>3, <2>4, <2>5 DEF Moved, OthersStay, RunType, RunInv, WatchingInv,
         GatingInv, TuningInv, EndingInv, ReadInv, Watching, Gating, Tuning, Ended, Fresh, Stepped
  <1>3. CASE MonitorUnregistered(r)
    <2> DEFINE u == [state[r] EXCEPT !.terminal = "no_action"]
    <2>1. /\ u \in GraphState /\ u.terminal = "no_action" /\ u.registered = state[r].registered
          /\ u.gate = state[r].gate /\ u.proposed = state[r].proposed /\ u.tuned = state[r].tuned
      BY <1>1, TerminalSet DEF Terminals
    <2>2. Goto(r, "monitor", "analyst", u) /\ read' = read
      BY <1>3 DEF MonitorUnregistered
    <2> HIDE DEF u
    <2>3. Stepped(r, "monitor", "analyst", u)
      BY <1>1, <2>1, <2>2, GotoMoves DEF RunPC
    <2>4. r \notin DOMAIN proposals' /\ r \notin DOMAIN tunings'
      BY <1>1, <1>3, <2>3 DEF MonitorUnregistered, tables, RunInv, WatchingInv, Watching, Stepped
    <2> QED
      BY <1>1, <2>1, <2>2, <2>3, <2>4 DEF Moved, OthersStay, RunType, RunInv, WatchingInv,
         GatingInv, TuningInv, EndingInv, ReadInv, Watching, Gating, Tuning, Ended, Fresh, Stepped
  <1>4. CASE MonitorBegin(r)
    <2>1. Goto(r, "monitor", "assess", state[r]) /\ Capture(r) /\ mandate \in Mandates
      BY <1>1, <1>4 DEF MonitorBegin, StoreType
    <2>2. Stepped(r, "monitor", "assess", state[r])
      BY <1>1, <2>1, GotoMoves DEF RunPC
    <2>3. /\ read' \in [Runs -> Reads] /\ read'[r].mandate \in Mandates
          /\ \A o \in Runs \ {r} : read'[o] = read[o]
      BY <1>1, <2>1, CaptureReads
    <2>4. r \notin DOMAIN proposals' /\ r \notin DOMAIN tunings'
      BY <1>1, <1>4, <2>2 DEF MonitorBegin, tables, RunInv, WatchingInv, Watching, Stepped
    <2> QED
      BY <1>1, <2>2, <2>3, <2>4 DEF Moved, OthersStay, RunType, RunInv, WatchingInv,
         GatingInv, TuningInv, EndingInv, ReadInv, Watching, Gating, Tuning, Ended, Fresh, Stepped
  <1>5. CASE \E price \in Prices \cup {0} : MonitorPrice(r, price)
    <2>1. PICK price \in Prices \cup {0} : MonitorPrice(r, price)
      BY <1>5
    <2> DEFINE u == [state[r] EXCEPT !.price = price]
    <2>2. /\ u \in GraphState /\ u.terminal = state[r].terminal
          /\ u.registered = state[r].registered
          /\ u.gate = state[r].gate /\ u.proposed = state[r].proposed /\ u.tuned = state[r].tuned
      BY <1>1, PriceSet
    <2>3. Goto(r, "price", "analyst", u) /\ read' = read
      BY <2>1 DEF MonitorPrice
    <2> HIDE DEF u
    <2>4. Stepped(r, "price", "analyst", u)
      BY <1>1, <2>2, <2>3, GotoMoves DEF RunPC
    <2>5. r \notin DOMAIN proposals' /\ r \notin DOMAIN tunings'
      BY <1>1, <2>1, <2>4 DEF MonitorPrice, tables, RunInv, WatchingInv, Watching, Stepped
    <2> QED
      BY <1>1, <2>2, <2>3, <2>4, <2>5 DEF Moved, OthersStay, RunType, RunInv, WatchingInv,
         GatingInv, TuningInv, EndingInv, ReadInv, Watching, Gating, Tuning, Ended, Fresh, Stepped
  <1> QED
    BY <1>2, <1>3, <1>4, <1>5

\* service.assess answers with one of the pipeline's assessments.
LEMMA AssessMoves ==
    ASSUME CrewInv, NEW r \in Runs, NEW a \in Assessments, Assess(r, a)
    PROVE  Moved(r)
  <1>1. RunType /\ RunInv(r) /\ state[r] \in GraphState /\ read[r] \in Reads
    BY DEF CrewInv, RunType
  <1>2. /\ [read[r] EXCEPT !.assessment = a] \in Reads
        /\ [read[r] EXCEPT !.assessment = a].assessment = a
        /\ [read[r] EXCEPT !.assessment = a].mandate = read[r].mandate
    BY <1>1 DEF Reads
  <1>3. /\ read' \in [Runs -> Reads] /\ read'[r].assessment = a
        /\ read'[r].mandate = read[r].mandate
        /\ \A o \in Runs \ {r} : read'[o] = read[o]
    BY <1>1, <1>2 DEF Assess, RunType
  <1>4. Stepped(r, "assess", "snapshot", state[r]) \/ Stepped(r, "gateAssess", "gateSnapshot", state[r])
    BY <1>1, GotoMoves DEF Assess, RunPC
  <1>5. proposals' = proposals /\ tunings' = tunings
    BY DEF Assess, tables
  <1> QED
    BY <1>1, <1>3, <1>4, <1>5 DEF Moved, OthersStay, RunType, RunInv, WatchingInv, GatingInv,
       TuningInv, EndingInv, ReadInv, Watching, Gating, Tuning, Ended, Fresh, Stepped

\* The fact sheet of a registered position.
LEMMA MonitorSnapshotMoves ==
    ASSUME CrewInv, NEW r \in Runs, NEW acc \in Accounts, MonitorSnapshot(r, acc)
    PROVE  Moved(r)
  <1> DEFINE snap == Snapshot(acc, read[r].mandate.trigger)
             f == FactSheet(read[r].assessment, snap)
             hf == read[r].assessment.hf
             u == [state[r] EXCEPT !.registered = TRUE, !.facts = f, !.infinite = (hf = Infinite)]
  <1>1. RunType /\ RunInv(r) /\ state[r] \in GraphState
    BY DEF CrewInv, RunType
  <1>2. Goto(r, "snapshot", "price", u) /\ Drop(r) /\ proposals' = proposals /\ tunings' = tunings
    BY DEF MonitorSnapshot, tables
  <1>3. read[r].mandate \in Mandates /\ read[r].assessment \in Assessments
    BY <1>1, <1>2 DEF RunInv, ReadInv, Goto
  <1>4. acc.hf \in Nat /\ WadPerBp \in Nat \ {0}
    BY CrewAssumption, GateAssumption
  <1>5. acc.hf \div WadPerBp \in Nat
    BY <1>4
  <1>6. read[r].assessment.viable \in BOOLEAN /\ read[r].mandate.trigger \in Nat
    BY <1>3, CrewAssumption
  <1>7. f \in Facts
    BY <1>5, <1>6 DEF FactSheet, Facts, HfBps, Snapshot
  <1> HIDE DEF f, hf
  <1>8. /\ u \in GraphState /\ u.terminal = state[r].terminal
        /\ u.registered /\ u.gate = state[r].gate
        /\ u.proposed = state[r].proposed /\ u.tuned = state[r].tuned
    BY <1>1, <1>7 DEF GraphState
  <1> HIDE DEF u
  <1>9. Stepped(r, "snapshot", "price", u)
    BY <1>1, <1>2, <1>8, GotoMoves DEF RunPC
  <1>10. read' \in [Runs -> Reads] /\ \A o \in Runs \ {r} : read'[o] = read[o]
    BY <1>1, <1>2, DropReads
  <1> QED
    BY <1>1, <1>2, <1>8, <1>9, <1>10 DEF Moved, OthersStay, RunType, RunInv, WatchingInv,
       GatingInv, TuningInv, EndingInv, ReadInv, Watching, Gating, Tuning, Ended, Fresh, Stepped

\* node_analyst decides nothing.
LEMMA AnalystMoves ==
    ASSUME CrewInv, NEW r \in Runs, Analyst(r)
    PROVE  Moved(r)
  <1>1. RunType /\ RunInv(r) /\ state[r] \in GraphState
    BY DEF CrewInv, RunType
  <1>2. Stepped(r, "analyst", "strategist", state[r])
    BY <1>1, GotoMoves DEF Analyst, RunPC
  <1>3. proposals' = proposals /\ tunings' = tunings /\ read' = read
    BY DEF Analyst, tables
  <1> QED
    BY <1>1, <1>2, <1>3 DEF Moved, OthersStay, RunType, RunInv, WatchingInv,
       GatingInv, TuningInv, EndingInv, ReadInv, Watching, Gating, Tuning, Ended, Fresh, Stepped

\* node_strategist: the model's choice, or the deterministic one, decides the route.
LEMMA StrategistMoves ==
    ASSUME CrewInv, NEW r \in Runs, NEW choice \in Strategies, Strategist(r, choice)
    PROVE  Moved(r)
  <1> DEFINE u == [state[r] EXCEPT !.strategy = choice, !.facts = Nothing]
  <1>1. RunType /\ RunInv(r) /\ state[r] \in GraphState
    BY DEF CrewInv, RunType
  <1>2. Goto(r, "strategist", RouteStrategy(u), u) /\ proposals' = proposals /\ tunings' = tunings
        /\ read' = read
    BY DEF Strategist, tables
  <1>3. /\ u \in GraphState /\ u.terminal = state[r].terminal
        /\ u.registered = state[r].registered /\ u.strategy = choice /\ u.gate = state[r].gate
        /\ u.proposed = state[r].proposed /\ u.tuned = state[r].tuned
    BY <1>1, StrategySet
  <1> HIDE DEF u
  <1>4. \/ RouteStrategy(u) = "gate" /\ u.registered /\ choice = "protect_now"
        \/ RouteStrategy(u) = "tuner" /\ u.registered /\ choice = "retune"
        \/ RouteStrategy(u) = "auditor" /\ (~u.registered \/ choice \notin {"protect_now", "retune"})
    BY <1>3 DEF RouteStrategy
  <1>5. Stepped(r, "strategist", RouteStrategy(u), u)
    BY <1>1, <1>2, <1>3, <1>4, GotoMoves DEF RunPC
  <1>6. /\ r \notin DOMAIN proposals' /\ r \notin DOMAIN tunings'
        /\ u.gate = Nothing /\ ~u.proposed /\ ~u.tuned
        /\ (u.registered /\ u.terminal = Nothing) \/ (~u.registered /\ u.terminal = "no_action")
    BY <1>1, <1>2, <1>3, <1>5 DEF Stepped, RunInv, WatchingInv, Watching, Fresh
  <1>7. RouteStrategy(u) = "auditor" => Reported(u) = "no_action"
    BY <1>6, NothingIsNone DEF Reported, TerminalFor, Terminals
  <1>8. RouteStrategy(u) = "auditor" => (Honest(r, Reported(state[r])) /\ RowsAudited(r))'
    BY <1>3, <1>4, <1>5, <1>6, <1>7 DEF Stepped, Honest, RowsAudited, Terminals
  <1> QED
    BY <1>1, <1>2, <1>3, <1>4, <1>5, <1>6, <1>8 DEF Moved, OthersStay, RunType, RunInv, WatchingInv,
       GatingInv, TuningInv, EndingInv, ReadInv, Watching, Gating, Tuning, Ended, Fresh, Stepped

\* The deterministic strategy is one of them.
LEMMA FallbackIsStrategy ==
    ASSUME NEW facts
    PROVE  DeterministicStrategy(facts) \in Strategies
  BY DEF DeterministicStrategy, Strategies

\* node_policy_gate up to its snapshot.
LEMMA GateMoves ==
    ASSUME CrewInv, NEW r \in Runs, GateDisappeared(r) \/ GateBegin(r)
    PROVE  Moved(r)
  <1>1. RunType /\ StoreType /\ RunInv(r) /\ state[r] \in GraphState
    BY DEF CrewInv, RunType
  <1>2. CASE GateDisappeared(r)
    <2> DEFINE u == [state[r] EXCEPT !.terminal = "gate_blocked"]
    <2>1. Goto(r, "gate", "auditor", u) /\ proposals' = proposals /\ tunings' = tunings
          /\ read' = read
      BY <1>2 DEF GateDisappeared, tables
    <2>2. /\ u \in GraphState /\ u.terminal = "gate_blocked"
          /\ u.registered = state[r].registered /\ u.strategy = state[r].strategy
      BY <1>1, TerminalSet DEF Terminals
    <2> HIDE DEF u
    <2>3. Stepped(r, "gate", "auditor", u)
      BY <1>1, <2>1, <2>2, GotoMoves DEF RunPC
    <2>4. Reported(u) = "gate_blocked"
      BY <2>2, NothingIsNone DEF Reported, Terminals
    <2>5. (Honest(r, Reported(state[r])) /\ RowsAudited(r))'
      BY <1>1, <2>1, <2>2, <2>3, <2>4 DEF Stepped, Honest, RowsAudited, Terminals, RunInv,
         GatingInv, Gating
    <2> QED
      BY <1>1, <2>1, <2>3, <2>5 DEF Moved, OthersStay, RunType, RunInv, WatchingInv, GatingInv,
         TuningInv, EndingInv, ReadInv, Watching, Gating, Tuning, Ended, Stepped
  <1>3. CASE GateBegin(r)
    <2>1. /\ Goto(r, "gate", "gateAssess", state[r]) /\ Capture(r) /\ mandate \in Mandates
          /\ proposals' = proposals /\ tunings' = tunings
      BY <1>1, <1>3 DEF GateBegin, StoreType, tables
    <2>2. Stepped(r, "gate", "gateAssess", state[r])
      BY <1>1, <2>1, GotoMoves DEF RunPC
    <2>3. /\ read' \in [Runs -> Reads] /\ read'[r].mandate \in Mandates
          /\ \A o \in Runs \ {r} : read'[o] = read[o]
      BY <1>1, <2>1, CaptureReads
    <2> QED
      BY <1>1, <2>1, <2>2, <2>3 DEF Moved, OthersStay, RunType, RunInv, WatchingInv, GatingInv,
         TuningInv, EndingInv, ReadInv, Watching, Gating, Tuning, Ended, Stepped
  <1> QED
    BY <1>2, <1>3

\* The snapshot the gate takes is classified against the mandate it assessed.
LEMMA GateSnapshotMoves ==
    ASSUME CrewInv, NEW r \in Runs, NEW acc \in Accounts, NEW metrics \in Metrics,
           GateSnapshot(r, acc, metrics)
    PROVE  Moved(r)
  <1> DEFINE snap == Snapshot(acc, read[r].mandate.trigger)
             in == [mandate |-> read[r].mandate, assessment |-> read[r].assessment,
                    snapshot |-> snap, paused |-> metrics.paused, inflight |-> metrics.inflight,
                    now |-> now, price |-> state[r].price, recent |-> 0, recentGlobal |-> 0]
  <1>1. RunType /\ StoreType /\ RunInv(r) /\ state[r] \in GraphState /\ read[r] \in Reads
    BY DEF CrewInv, RunType
  <1>2. /\ Goto(r, "gateSnapshot", "count", state[r]) /\ read' = [read EXCEPT ![r].gate = in]
        /\ proposals' = proposals /\ tunings' = tunings
    BY DEF GateSnapshot, tables
  <1>3. Stepped(r, "gateSnapshot", "count", state[r])
    BY <1>1, <1>2, GotoMoves DEF RunPC
  <1>4. read[r].mandate \in Mandates /\ read[r].assessment \in Assessments
    BY <1>1, <1>3 DEF RunInv, ReadInv, Stepped
  <1>5. snap \in Snapshots
    BY <1>4 DEF Snapshots
  <1>6. snap = Snapshot(snap.account, read[r].mandate.trigger)
    BY DEF Snapshot
  <1>7. 0 \in 0 .. MaxRecent /\ now \in 0 .. MaxTime /\ state[r].price \in Prices \cup {0}
        /\ metrics.paused \in BOOLEAN /\ metrics.inflight \in BOOLEAN
    BY <1>1, CrewAssumption DEF StoreType, GraphState, Metrics
  <1> HIDE DEF snap
  <1>8. in \in GateInputs /\ in.snapshot = snap /\ in.mandate = read[r].mandate
    BY <1>4, <1>5, <1>7 DEF GateInputs
  <1> HIDE DEF in
  <1>9. Consistent(in)
    BY <1>6, <1>8 DEF Consistent
  <1>10. [read[r] EXCEPT !.gate = in] \in Reads /\ [read[r] EXCEPT !.gate = in].gate = in
    BY <1>1, <1>8 DEF Reads
  <1>11. /\ read' \in [Runs -> Reads] /\ read'[r].gate = in
         /\ \A o \in Runs \ {r} : read'[o] = read[o]
    BY <1>1, <1>2, <1>10 DEF RunType
  <1> QED
    BY <1>1, <1>2, <1>3, <1>9, <1>11 DEF Moved, OthersStay, RunType, RunInv, WatchingInv, GatingInv,
       TuningInv, EndingInv, ReadInv, Watching, Gating, Tuning, Ended, Stepped

\* The verdict, and what it was about, go on to the proposal; a blocked run ends.
LEMMA CountMoves ==
    ASSUME CrewInv, NEW r \in Runs, NEW own \in 0 .. MaxRecent, NEW all \in 0 .. MaxRecent,
           CountAndEvaluate(r, own, all)
    PROVE  Moved(r)
  <1> DEFINE in == [read[r].gate EXCEPT !.recent = own, !.recentGlobal = all]
             gate == [allowed |-> Allowed(in), severity |-> Severity(in)]
             u == [state[r] EXCEPT !.gate = gate]
             kept == IF gate.allowed THEN [NothingRead EXCEPT !.gate = in] ELSE NothingRead
  <1>1. RunType /\ RunInv(r) /\ state[r] \in GraphState
    BY DEF CrewInv, RunType
  <1>2. /\ Goto(r, "count", RouteGate(gate), u) /\ read' = [read EXCEPT ![r] = kept]
        /\ proposals' = proposals /\ tunings' = tunings
    BY DEF CountAndEvaluate, tables
  <1>3. Consistent(read[r].gate)
    BY <1>1, <1>2 DEF Goto, RunInv, ReadInv
  <1>4. /\ in \in GateInputs /\ in.snapshot = read[r].gate.snapshot
        /\ in.mandate = read[r].gate.mandate
    BY <1>3 DEF Consistent, GateInputs
  <1> HIDE DEF in
  <1>5. Consistent(in)
    BY <1>3, <1>4 DEF Consistent
  <1>6. Allowed(in) \in BOOLEAN /\ Severity(in) \in {"ok", "soft_block", "hard_block"}
    BY DEF Allowed, Severity
  <1>7. gate \in Verdicts /\ gate.allowed = Allowed(in)
    BY <1>6 DEF Verdicts
  <1>8. kept \in Reads /\ (gate.allowed => kept.gate = in)
    BY <1>4 DEF Reads, NothingRead
  <1> HIDE DEF gate, kept
  <1>9. /\ u \in GraphState /\ u.terminal = state[r].terminal
        /\ u.registered = state[r].registered /\ u.strategy = state[r].strategy /\ u.gate = gate
        /\ u.proposed = state[r].proposed /\ u.tuned = state[r].tuned
    BY <1>1, <1>7, GateSet
  <1> HIDE DEF u
  <1>10. \/ RouteGate(gate) = "propose" /\ gate.allowed
         \/ RouteGate(gate) = "auditor" /\ ~gate.allowed
    BY <1>7, NothingIsNone DEF RouteGate
  <1>11. Stepped(r, "count", RouteGate(gate), u)
    BY <1>1, <1>2, <1>9, <1>10, GotoMoves DEF RunPC
  <1>12. /\ read' \in [Runs -> Reads] /\ read'[r] = kept
         /\ \A o \in Runs \ {r} : read'[o] = read[o]
    BY <1>1, <1>2, <1>8 DEF RunType
  <1>13. /\ u.registered /\ u.strategy = "protect_now" /\ u.terminal = Nothing
         /\ ~u.proposed /\ ~u.tuned /\ r \notin DOMAIN proposals' /\ r \notin DOMAIN tunings'
    BY <1>1, <1>2, <1>9, <1>11 DEF Stepped, RunInv, GatingInv, Gating
  <1>14. ~gate.allowed => Reported(u) = "gate_blocked"
    BY <1>7, <1>9, <1>13, NothingIsNone DEF Reported, TerminalFor
  <1>15. ~gate.allowed => (Honest(r, Reported(state[r])) /\ RowsAudited(r))'
    BY <1>11, <1>13, <1>14 DEF Stepped, Honest, RowsAudited, Terminals
  <1>16. WatchingInv(r)' /\ TuningInv(r)' /\ EndingInv(r)'
    BY <1>10, <1>11, <1>15 DEF WatchingInv, TuningInv, EndingInv, Watching, Tuning, Ended, Stepped
  <1>17. GatingInv(r)' /\ ReadInv(r)'
    BY <1>5, <1>7, <1>8, <1>9, <1>10, <1>11, <1>12, <1>13, NothingIsNone
       DEF GatingInv, ReadInv, Gating, Stepped
  <1> QED
    BY <1>11, <1>12, <1>16, <1>17 DEF Moved, OthersStay, RunType, RunInv, Stepped

\* node_propose: the row first, its audit entry after another await.
LEMMA ProposeMoves ==
    ASSUME CrewInv, NEW r \in Runs, Propose(r) \/ ProposeAudit(r)
    PROVE  Moved(r)
  <1>1. RunType /\ RunInv(r) /\ state[r] \in GraphState
    BY DEF CrewInv, RunType
  <1>2. CASE Propose(r)
    <2>1. Goto(r, "propose", "proposeAudit", state[r]) /\ Drop(r) /\ tunings' = tunings
      BY <1>2 DEF Propose
    <2>2. r \in DOMAIN proposals'
      BY <1>2 DEF Propose, ProposeProtection, InsertProposal
    <2>3. Stepped(r, "propose", "proposeAudit", state[r])
      BY <1>1, <2>1, GotoMoves DEF RunPC
    <2>4. read' \in [Runs -> Reads] /\ \A o \in Runs \ {r} : read'[o] = read[o]
      BY <1>1, <2>1, DropReads
    <2> QED
      BY <1>1, <2>1, <2>2, <2>3, <2>4 DEF Moved, OthersStay, RunType, RunInv, WatchingInv, GatingInv,
         TuningInv, EndingInv, ReadInv, Watching, Gating, Tuning, Ended, Stepped
  <1>3. CASE ProposeAudit(r)
    <2> DEFINE u == [state[r] EXCEPT !.proposed = TRUE, !.terminal = "proposed"]
    <2>1. /\ Goto(r, "proposeAudit", "auditor", u) /\ <<r, "PROPOSED">> \in audit'
          /\ proposals' = proposals /\ tunings' = tunings /\ read' = read
      BY <1>3 DEF ProposeAudit, Audit
    <2>2. u \in GraphState /\ u.terminal = "proposed"
      BY <1>1, OutcomeSet
    <2> HIDE DEF u
    <2>3. Stepped(r, "proposeAudit", "auditor", u)
      BY <1>1, <2>1, <2>2, GotoMoves DEF RunPC
    <2>4. Reported(u) = "proposed"
      BY <2>2, NothingIsNone DEF Reported, Terminals
    <2>5. (Honest(r, Reported(state[r])) /\ RowsAudited(r))'
      BY <1>1, <2>1, <2>3, <2>4 DEF Stepped, Honest, RowsAudited, Terminals, RunInv, GatingInv, Gating
    <2> QED
      BY <1>1, <2>1, <2>3, <2>5 DEF Moved, OthersStay, RunType, RunInv, WatchingInv, GatingInv,
         TuningInv, EndingInv, ReadInv, Watching, Gating, Tuning, Ended, Stepped
  <1> QED
    BY <1>2, <1>3

\* A tuner that has nothing to suggest, or nobody to suggest it to.
LEMMA TunerStops ==
    ASSUME CrewInv, NEW r \in Runs, TunerDisappeared(r) \/ TunerGivesUp(r)
    PROVE  Moved(r)
  <1> DEFINE u == [state[r] EXCEPT !.terminal = "no_action"]
  <1>1. RunType /\ RunInv(r) /\ state[r] \in GraphState
    BY DEF CrewInv, RunType
  <1>2. /\ Goto(r, "tuner", "auditor", u) \/ Goto(r, "suggest", "auditor", u)
        /\ proposals' = proposals /\ tunings' = tunings /\ read' = read
    BY DEF TunerDisappeared, TunerGivesUp, tables
  <1>3. u \in GraphState /\ u.terminal = "no_action" /\ u.strategy = state[r].strategy
    BY <1>1, TerminalSet DEF Terminals
  <1> HIDE DEF u
  <1>4. Stepped(r, "tuner", "auditor", u) \/ Stepped(r, "suggest", "auditor", u)
    BY <1>1, <1>2, <1>3, GotoMoves DEF RunPC
  <1>5. Reported(u) = "no_action"
    BY <1>3, NothingIsNone DEF Reported, Terminals
  <1>6. (Honest(r, Reported(state[r])) /\ RowsAudited(r))'
    BY <1>1, <1>2, <1>3, <1>4, <1>5 DEF Stepped, Honest, RowsAudited, Terminals, RunInv, TuningInv,
       Tuning
  <1> QED
    BY <1>1, <1>2, <1>4, <1>6 DEF Moved, OthersStay, RunType, RunInv, WatchingInv, GatingInv,
       TuningInv, EndingInv, ReadInv, Watching, Gating, Tuning, Ended, Stepped

\* node_tuner that suggests.
LEMMA TunerMoves ==
    ASSUME CrewInv, NEW r \in Runs,
           \/ TunerBegin(r) \/ TunerAudit(r)
           \/ \E field \in TunableFields, value \in SuggestedValues : Suggest(r, field, value)
    PROVE  Moved(r)
  <1>1. RunType /\ StoreType /\ RunInv(r) /\ state[r] \in GraphState
    BY DEF CrewInv, RunType
  <1>2. CASE TunerBegin(r)
    <2>1. /\ Goto(r, "tuner", "suggest", state[r]) /\ Capture(r) /\ mandate \in Mandates
          /\ proposals' = proposals /\ tunings' = tunings
      BY <1>1, <1>2 DEF TunerBegin, StoreType, tables
    <2>2. Stepped(r, "tuner", "suggest", state[r])
      BY <1>1, <2>1, GotoMoves DEF RunPC
    <2>3. /\ read' \in [Runs -> Reads] /\ read'[r].mandate \in Mandates
          /\ \A o \in Runs \ {r} : read'[o] = read[o]
      BY <1>1, <2>1, CaptureReads
    <2> QED
      BY <1>1, <2>1, <2>2, <2>3 DEF Moved, OthersStay, RunType, RunInv, WatchingInv, GatingInv,
         TuningInv, EndingInv, ReadInv, Watching, Gating, Tuning, Ended, Stepped, Fresh
  <1>3. CASE \E field \in TunableFields, value \in SuggestedValues : Suggest(r, field, value)
    <2>1. /\ Goto(r, "suggest", "tunerAudit", state[r])
          /\ r \in DOMAIN tunings' /\ proposals' = proposals /\ read' = read
      BY <1>3 DEF Suggest, ProposeTuning, InsertTuning
    <2>2. Stepped(r, "suggest", "tunerAudit", state[r])
      BY <1>1, <2>1, GotoMoves DEF RunPC
    <2> QED
      BY <1>1, <2>1, <2>2 DEF Moved, OthersStay, RunType, RunInv, WatchingInv, GatingInv,
         TuningInv, EndingInv, ReadInv, Watching, Gating, Tuning, Ended, Stepped, Fresh
  <1>4. CASE TunerAudit(r)
    <2> DEFINE u == [state[r] EXCEPT !.tuned = TRUE, !.terminal = "tuning_suggested"]
    <2>1. /\ Goto(r, "tunerAudit", "auditor", u) /\ <<r, "TUNING_SUGGESTED">> \in audit'
          /\ proposals' = proposals /\ tunings' = tunings /\ read' = read
      BY <1>4 DEF TunerAudit, Audit
    <2>2. u \in GraphState /\ u.terminal = "tuning_suggested" /\ u.strategy = state[r].strategy
      BY <1>1, OutcomeSet
    <2> HIDE DEF u
    <2>3. Stepped(r, "tunerAudit", "auditor", u)
      BY <1>1, <2>1, <2>2, GotoMoves DEF RunPC
    <2>4. Reported(u) = "tuning_suggested"
      BY <2>2, NothingIsNone DEF Reported, Terminals
    <2>5. (Honest(r, Reported(state[r])) /\ RowsAudited(r))'
      BY <1>1, <2>1, <2>2, <2>3, <2>4 DEF Stepped, Honest, RowsAudited, Terminals, RunInv,
         TuningInv, Tuning
    <2> QED
      BY <1>1, <2>1, <2>3, <2>5 DEF Moved, OthersStay, RunType, RunInv, WatchingInv, GatingInv,
         TuningInv, EndingInv, ReadInv, Watching, Gating, Tuning, Ended, Stepped
  <1> QED
    BY <1>2, <1>3, <1>4

\* node_auditor reports the terminal and writes it down.
LEMMA AuditorMoves ==
    ASSUME CrewInv, NEW r \in Runs, Auditor(r) \/ BlockedAudit(r) \/ RunAudit(r)
    PROVE  Moved(r)
  <1>1. RunType /\ RunInv(r) /\ state[r] \in GraphState
    BY DEF CrewInv, RunType
  <1>2. CASE Auditor(r)
    <2> DEFINE t == Reported(state[r])
               u == [state[r] EXCEPT !.terminal = t]
               q == IF t = "gate_blocked" THEN "blockedAudit" ELSE "runAudit"
    <2>1. /\ Goto(r, "auditor", q, u)
          /\ proposals' = proposals /\ tunings' = tunings /\ audit' = audit /\ read' = read
      BY <1>2 DEF Auditor, Reported, tables
    <2>2. Honest(r, t) /\ RowsAudited(r)
      BY <1>1, <2>1 DEF Goto, RunInv, EndingInv
    <2> HIDE DEF t
    <2>3. /\ u \in GraphState /\ u.terminal = t
          /\ u.registered = state[r].registered /\ u.strategy = state[r].strategy
      BY <1>1, <2>2, TerminalSet DEF Honest
    <2> HIDE DEF u
    <2>4. Stepped(r, "auditor", q, u)
      BY <1>1, <2>1, <2>3, GotoMoves DEF RunPC
    <2>5. (Honest(r, state[r].terminal) /\ RowsAudited(r))'
      BY <2>1, <2>2, <2>3, <2>4 DEF Stepped, Honest, RowsAudited
    <2> QED
      BY <1>1, <2>1, <2>3, <2>4, <2>5 DEF Moved, OthersStay, RunType, RunInv, WatchingInv, GatingInv,
         TuningInv, EndingInv, ReadInv, Watching, Gating, Tuning, Ended, Stepped
  <1>3. CASE BlockedAudit(r)
    <2>1. /\ Goto(r, "blockedAudit", "runAudit", state[r]) /\ read' = read
          /\ proposals' = proposals /\ tunings' = tunings
          /\ audit \subseteq audit' /\ <<r, "GATE_BLOCKED">> \in audit'
      BY <1>3 DEF BlockedAudit, Audit
    <2>2. Stepped(r, "blockedAudit", "runAudit", state[r])
      BY <1>1, <2>1, GotoMoves DEF RunPC
    <2>3. (Honest(r, state[r].terminal) /\ RowsAudited(r))'
      BY <1>1, <2>1, <2>2 DEF Stepped, Honest, RowsAudited, RunInv, EndingInv
    <2> QED
      BY <1>1, <2>1, <2>2, <2>3 DEF Moved, OthersStay, RunType, RunInv, WatchingInv, GatingInv,
         TuningInv, EndingInv, ReadInv, Watching, Gating, Tuning, Ended, Stepped
  <1>4. CASE RunAudit(r)
    <2>1. /\ Goto(r, "runAudit", "done", state[r]) /\ read' = read
          /\ proposals' = proposals /\ tunings' = tunings
          /\ audit \subseteq audit' /\ <<r, "CREW_RUN">> \in audit'
      BY <1>4 DEF RunAudit, Audit
    <2>2. Stepped(r, "runAudit", "done", state[r])
      BY <1>1, <2>1, GotoMoves DEF RunPC
    <2>3. (Honest(r, state[r].terminal) /\ RowsAudited(r))'
      BY <1>1, <2>1, <2>2 DEF Stepped, Honest, RowsAudited, RunInv, EndingInv
    <2> QED
      BY <1>1, <2>1, <2>2, <2>3 DEF Moved, OthersStay, RunType, RunInv, WatchingInv, GatingInv,
         TuningInv, EndingInv, ReadInv, Watching, Gating, Tuning, Ended, Stepped
  <1> QED
    BY <1>2, <1>3, <1>4

\* An exception ends the run with "error", of which nothing is claimed.
LEMMA FailureMoves ==
    ASSUME CrewInv, NEW r \in Runs, RunFails(r)
    PROVE  Moved(r)
  <1> DEFINE u == [state[r] EXCEPT !.terminal = "error"]
  <1>1. RunType /\ RunInv(r) /\ state[r] \in GraphState
    BY DEF CrewInv, RunType
  <1>2. u \in GraphState /\ u.terminal = "error"
    BY <1>1, TerminalSet DEF Terminals
  <1>3. /\ pc' = [pc EXCEPT ![r] = "done"] /\ state' = [state EXCEPT ![r] = u] /\ Drop(r)
        /\ proposals' = proposals /\ tunings' = tunings
    BY DEF RunFails, tables
  <1> HIDE DEF u
  <1>4. Stepped(r, pc[r], "done", u)
    BY <1>1, <1>2, <1>3 DEF Stepped, RunType, RunPC
  <1>5. read' \in [Runs -> Reads] /\ \A o \in Runs \ {r} : read'[o] = read[o]
    BY <1>1, <1>3, DropReads
  <1> QED
    BY <1>1, <1>2, <1>4, <1>5 DEF Moved, OthersStay, RunType, RunInv, WatchingInv, GatingInv,
       TuningInv, EndingInv, ReadInv, Watching, Gating, Tuning, Ended, Stepped

\* Every step of a run keeps the run's invariant and leaves the other runs alone.
LEMMA RunStepMoves ==
    ASSUME CrewInv, NEW r \in Runs, StartRun(r) \/ RunStep(r)
    PROVE  Moved(r)
  <1>1. ASSUME StrategistFallsBack(r) PROVE Moved(r)
    BY <1>1, StrategistMoves, FallbackIsStrategy DEF StrategistFallsBack
  <1> QED
    BY <1>1, MonitorMoves, AssessMoves, MonitorSnapshotMoves, AnalystMoves, StrategistMoves,
       GateMoves, GateSnapshotMoves, CountMoves, ProposeMoves, TunerStops, TunerMoves,
       AuditorMoves, FailureMoves DEF RunStep

-----------------------------------------------------------------------------
(* The tables.                                                             *)

\* The steps of a run that write to a table, and what no step of a run touches.
LEMMA RunWrites ==
    ASSUME NEW r \in Runs, StartRun(r) \/ RunStep(r)
    PROVE  /\ UNCHANGED <<mandate, now, dpc, target>>
           /\ \/ UNCHANGED <<proposals, tunings, audit>>
              \/ Propose(r) \/ ProposeAudit(r)
              \/ \E field \in TunableFields, value \in SuggestedValues : Suggest(r, field, value)
              \/ TunerAudit(r) \/ BlockedAudit(r) \/ RunAudit(r)
  BY DEF RunStep, StartRun, RunFails, MonitorUnregistered, MonitorBegin, Assess, MonitorSnapshot,
     GateSnapshot, MonitorPrice, Analyst, Strategist, StrategistFallsBack, GateDisappeared,
     GateBegin, CountAndEvaluate, Propose, ProposeAudit, TunerDisappeared, TunerBegin,
     TunerGivesUp, TunerAudit, Suggest, Auditor, BlockedAudit, RunAudit, keeper, tables,
     dismissVars

\* What the tables hold, and the dismissals that work on them.
TablesInv == StoreType /\ DismissType /\ JudgedInv /\ TuningRowsInv /\ AuditSound /\ DismissInv

\* The rest of the run's step: the tables, and that no other run's rows change.
LEMMA RunStepTables ==
    ASSUME CrewInv, NEW r \in Runs, StartRun(r) \/ RunStep(r)
    PROVE  /\ TablesInv'
           /\ audit \subseteq audit'
           /\ \A o \in Runs \ {r} : /\ o \in DOMAIN proposals' <=> o \in DOMAIN proposals
                                    /\ o \in DOMAIN tunings' <=> o \in DOMAIN tunings
  <1>1. UNCHANGED <<mandate, now, dpc, target>>
    BY RunWrites
  <1>2. TablesInv /\ RunType /\ RunInv(r)
    BY DEF CrewInv, TablesInv
  <1>3. CASE UNCHANGED <<proposals, tunings, audit>>
    BY <1>1, <1>2, <1>3 DEF TablesInv, StoreType, DismissType, JudgedInv, TuningRowsInv, AuditSound,
       DismissInv
  <1>4. CASE Propose(r)
    <2>1. /\ DOMAIN proposals' = DOMAIN proposals \cup {r}
          /\ proposals'[r] = [judged |-> read[r].gate]
          /\ \A o \in DOMAIN proposals \ {r} : proposals'[o] = proposals[o]
          /\ tunings' = tunings /\ audit' = audit
      BY <1>4 DEF Propose, ProposeProtection, InsertProposal
    <2>2. Consistent(read[r].gate) /\ Allowed(read[r].gate)
      BY <1>2, <1>4 DEF Propose, Goto, RunInv, ReadInv
    <2>3. JudgedInv'
      BY <1>2, <2>1, <2>2 DEF TablesInv, JudgedInv
    <2> QED
      BY <1>1, <1>2, <2>1, <2>3 DEF TablesInv, StoreType, DismissType, TuningRowsInv, AuditSound,
         DismissInv
  <1>5. CASE ProposeAudit(r)
    <2>1. proposals' = proposals /\ tunings' = tunings /\ audit' = audit \cup {<<r, "PROPOSED">>}
      BY <1>5 DEF ProposeAudit, Audit
    <2>2. r \in DOMAIN proposals
      BY <1>2, <1>5 DEF ProposeAudit, Goto, RunInv, GatingInv, Gating
    <2> QED
      BY <1>1, <1>2, <2>1, <2>2 DEF TablesInv, StoreType, DismissType, JudgedInv, TuningRowsInv,
         AuditSound, DismissInv, AuditAction
  <1>6. CASE \E field \in TunableFields, value \in SuggestedValues : Suggest(r, field, value)
    <2>1. PICK field \in TunableFields, value \in SuggestedValues : Suggest(r, field, value)
      BY <1>6
    <2>2. /\ DOMAIN tunings' = DOMAIN tunings \cup {r}
          /\ tunings'[r] = [status |-> "open"]
          /\ \A o \in DOMAIN tunings \ {r} : tunings'[o] = tunings[o]
          /\ proposals' = proposals /\ audit' = audit
      BY <2>1 DEF Suggest, ProposeTuning, InsertTuning
    <2>3. r \notin DOMAIN tunings
      BY <1>2, <2>1 DEF Suggest, Goto, RunInv, TuningInv, Tuning
    <2>5. TuningRowsInv'
      BY <1>2, <2>2 DEF TablesInv, TuningRowsInv, Tunings
    <2>6. DismissInv'
      BY <1>1, <1>2, <2>2, <2>3 DEF TablesInv, DismissInv
    <2> QED
      BY <1>1, <1>2, <2>2, <2>5, <2>6 DEF TablesInv, StoreType, DismissType, JudgedInv, AuditSound
  <1>7. CASE TunerAudit(r)
    <2>1. /\ proposals' = proposals /\ tunings' = tunings
          /\ audit' = audit \cup {<<r, "TUNING_SUGGESTED">>}
      BY <1>7 DEF TunerAudit, Audit
    <2>2. r \in DOMAIN tunings
      BY <1>2, <1>7 DEF TunerAudit, Goto, RunInv, TuningInv, Tuning
    <2> QED
      BY <1>1, <1>2, <2>1, <2>2 DEF TablesInv, StoreType, DismissType, JudgedInv, TuningRowsInv,
         AuditSound, DismissInv, AuditAction
  <1>8. CASE BlockedAudit(r) \/ RunAudit(r)
    <2>1. /\ proposals' = proposals /\ tunings' = tunings
          /\ \/ audit' = audit \cup {<<r, "GATE_BLOCKED">>}
             \/ audit' = audit \cup {<<r, "CREW_RUN">>}
      BY <1>8 DEF BlockedAudit, RunAudit, Audit
    <2> QED
      BY <1>1, <1>2, <2>1 DEF TablesInv, StoreType, DismissType, JudgedInv, TuningRowsInv,
         AuditSound, DismissInv, AuditAction
  <1> QED
    BY <1>3, <1>4, <1>5, <1>6, <1>7, <1>8, RunWrites

\* POST /agent/tuning/{id}/dismiss: one statement decides between concurrent ones.
LEMMA DismissTables ==
    ASSUME CrewInv, NEW d \in Dismissals, DismissStep(d)
    PROVE  /\ TablesInv'
           /\ audit \subseteq audit' /\ DOMAIN proposals' = DOMAIN proposals
           /\ DOMAIN tunings' = DOMAIN tunings
           /\ UNCHANGED <<pc, state, read>>
  <1>1. TablesInv
    BY DEF CrewInv, TablesInv
  <1>2. CASE \E p \in Runs : DismissBegin(d, p)
    <2>1. PICK p \in Runs : DismissBegin(d, p)
      BY <1>2
    <2>2. /\ UNCHANGED <<mandate, now, proposals, tunings, audit, pc, state, read>>
          /\ p \in DOMAIN tunings /\ dpc[d] = "idle"
          /\ dpc' = [dpc EXCEPT ![d] = "set"] /\ target' = [target EXCEPT ![d] = p]
      BY <2>1 DEF DismissBegin, keeper, tables, runVars
    <2>3. DismissInv' /\ DismissType'
      BY <1>1, <2>2 DEF TablesInv, DismissInv, DismissType
    <2> QED
      BY <1>1, <2>2, <2>3 DEF TablesInv, StoreType, JudgedInv, TuningRowsInv, AuditSound
  <1>3. CASE SetTuningStatus(d)
    <2> DEFINE p == target[d]
    <2>1. /\ UNCHANGED <<mandate, now, proposals, audit, pc, state, read, target>>
          /\ dpc[d] = "set"
      BY <1>3 DEF SetTuningStatus, keeper, runVars
    <2>2. p \in DOMAIN tunings /\ tunings[p] \in Tunings
      BY <1>1, <2>1 DEF TablesInv, DismissInv, TuningRowsInv
    <2>3. CASE tunings[p].status = "open"
      <3>1. tunings' = [tunings EXCEPT ![p].status = "dismissed"] /\ dpc' = [dpc EXCEPT ![d] = "audit"]
        BY <1>3, <2>3 DEF SetTuningStatus
      <3>3. /\ [tunings[p] EXCEPT !.status = "dismissed"] \in Tunings
            /\ [tunings[p] EXCEPT !.status = "dismissed"].status = "dismissed"
        BY <2>2 DEF Tunings
      <3>4. /\ tunings'[p] = [tunings[p] EXCEPT !.status = "dismissed"]
            /\ DOMAIN tunings' = DOMAIN tunings
            /\ \A o \in DOMAIN tunings \ {p} : tunings'[o] = tunings[o]
        BY <2>2, <3>1
      <3>5. tunings'[p] \in Tunings /\ tunings'[p].status = "dismissed"
        BY <3>3, <3>4
      <3>6. TuningRowsInv'
        BY <1>1, <2>2, <3>4, <3>5 DEF TablesInv, TuningRowsInv
      <3>7. \A e \in Dismissals : dpc[e] \in {"audit", "ok"} => target[e] # p
        BY <1>1, <2>3 DEF TablesInv, DismissInv
      <3>8. DismissInv' /\ DismissType'
        BY <1>1, <2>1, <2>2, <3>1, <3>4, <3>5, <3>7 DEF TablesInv, DismissInv, DismissType
      <3> QED
        BY <1>1, <2>1, <3>4, <3>6, <3>8 DEF TablesInv, StoreType, JudgedInv, AuditSound
    <2>4. CASE tunings[p].status # "open"
      <3>1. tunings' = tunings /\ dpc' = [dpc EXCEPT ![d] = "conflict"]
        BY <1>3, <2>4 DEF SetTuningStatus
      <3>2. DismissInv' /\ DismissType'
        BY <1>1, <2>1, <3>1 DEF TablesInv, DismissInv, DismissType
      <3> QED
        BY <1>1, <2>1, <3>1, <3>2 DEF TablesInv, StoreType, JudgedInv, TuningRowsInv, AuditSound
    <2> QED
      BY <2>3, <2>4
  <1>4. CASE DismissAudit(d)
    <2>1. /\ UNCHANGED <<mandate, now, proposals, tunings, pc, state, read, target>>
          /\ dpc[d] = "audit" /\ dpc' = [dpc EXCEPT ![d] = "ok"]
          /\ audit' = audit \cup {<<d, "TUNING_DISMISSED">>}
      BY <1>4 DEF DismissAudit, Audit, keeper, runVars
    <2>2. DismissInv' /\ DismissType'
      BY <1>1, <2>1 DEF TablesInv, DismissInv, DismissType
    <2> QED
      BY <1>1, <2>1, <2>2 DEF TablesInv, StoreType, JudgedInv, TuningRowsInv, AuditSound, AuditAction
  <1> QED
    BY <1>2, <1>3, <1>4 DEF DismissStep

-----------------------------------------------------------------------------
(* The inductive invariant.                                                *)

\* Registrations, the clock and a restart.
LEMMA KeeperKeeps ==
    ASSUME CrewInv, Keeper
    PROVE  CrewInv'
  <1>1. TablesInv /\ RunType /\ \A r \in Runs : RunInv(r)
    BY DEF CrewInv, TablesInv
  <1>2. CASE (\E m \in Mandates : Register(m)) \/ Unregister \/ Tick
    <2>1. /\ mandate' \in Mandates \cup {NoMandate} /\ now' \in 0 .. MaxTime
          /\ UNCHANGED <<proposals, tunings, audit, pc, state, read, dpc, target>>
      BY <1>1, <1>2, CrewAssumption DEF Register, Unregister, Tick, TablesInv, StoreType, tables, runVars,
         dismissVars
    <2>2. TablesInv' /\ RunType'
      BY <1>1, <2>1 DEF TablesInv, StoreType, DismissType, JudgedInv, TuningRowsInv, AuditSound,
         DismissInv, RunType
    <2>3. \A r \in Runs : RunInv(r)'
      BY <1>1, <2>1, RunKept
    <2> QED
      BY <2>2, <2>3 DEF CrewInv, TablesInv
  <1>3. CASE Restart
    <2>1. /\ mandate' \in Mandates \cup {NoMandate}
          /\ UNCHANGED <<now, proposals, tunings, audit, state, target>>
      BY <1>3 DEF Restart, tables
    <2>2. NothingRead \in Reads
      BY DEF NothingRead, Reads
    <2>3. RunType'
      BY <1>1, <1>3, <2>1, <2>2 DEF Restart, RunType, RunPC
    <2>4. \A r \in Runs : \/ pc'[r] = "lost"
                          \/ pc'[r] = pc[r] /\ pc[r] \in {"idle", "done"}
      BY <1>3 DEF Restart
    <2>5. ASSUME NEW r \in Runs PROVE RunInv(r)'
      <3>1. RunInv(r) /\ state'[r] = state[r] /\ audit' = audit
            /\ proposals' = proposals /\ tunings' = tunings
        BY <1>1, <2>1
      <3>2. WatchingInv(r)' /\ GatingInv(r)' /\ TuningInv(r)' /\ ReadInv(r)'
        BY <2>4, <3>1 DEF RunInv, WatchingInv, GatingInv, TuningInv, ReadInv, Watching, Gating,
           Tuning, Fresh
      <3>3. EndingInv(r)'
        BY <2>4, <3>1 DEF RunInv, EndingInv, Ended, Honest, RowsAudited
      <3> QED
        BY <3>2, <3>3 DEF RunInv
    <2>6. DismissType' /\ DismissInv'
      BY <1>1, <1>3, <2>1 DEF Restart, TablesInv, DismissType, DismissInv
    <2> QED
      BY <1>1, <2>1, <2>3, <2>5, <2>6 DEF CrewInv, TablesInv, StoreType, JudgedInv, TuningRowsInv,
         AuditSound
  <1> QED
    BY <1>2, <1>3 DEF Keeper

\* No run has started and every table is empty.
LEMMA CrewInvInit == Init => CrewInv
  <1> SUFFICES ASSUME Init PROVE CrewInv
    OBVIOUS
  <1>1. DOMAIN proposals = {} /\ DOMAIN tunings = {} /\ audit = {}
    BY DEF Init
  <1>2. Initial \in GraphState /\ NothingRead \in Reads
    BY DEF Initial, GraphState, NothingRead, Reads
  <1>3. Initial.terminal = Nothing /\ ~Initial.registered /\ Fresh(Initial)
    BY DEF Initial, Fresh
  <1>4. StoreType /\ DismissType /\ RunType
    BY <1>1, <1>2, CrewAssumption DEF Init, StoreType, DismissType, RunType, RunPC
  <1>5. \A r \in Runs : pc[r] = "idle" /\ state[r] = Initial
    BY DEF Init
  <1>6. \A r \in Runs : RunInv(r)
    BY <1>1, <1>3, <1>5 DEF RunInv, WatchingInv, GatingInv, TuningInv, EndingInv, ReadInv,
       Watching, Gating, Tuning, Ended
  <1>7. JudgedInv /\ TuningRowsInv /\ AuditSound
    BY <1>1 DEF JudgedInv, TuningRowsInv, AuditSound
  <1>8. DismissInv
    BY <1>1 DEF Init, DismissInv
  <1> QED
    BY <1>4, <1>6, <1>7, <1>8 DEF CrewInv

\* Every step of a run, of a dismissal and of the keeper keeps the invariant.
LEMMA CrewInvNext == CrewInv /\ [Next]_vars => CrewInv'
  <1> SUFFICES ASSUME CrewInv, [Next]_vars PROVE CrewInv'
    OBVIOUS
  <1>1. ASSUME NEW r \in Runs, StartRun(r) \/ RunStep(r) PROVE CrewInv'
    <2>1. RunType' /\ OthersStay(r) /\ RunInv(r)'
      BY <1>1, RunStepMoves DEF Moved
    <2>2. /\ TablesInv' /\ audit \subseteq audit'
          /\ \A o \in Runs \ {r} : /\ o \in DOMAIN proposals' <=> o \in DOMAIN proposals
                                   /\ o \in DOMAIN tunings' <=> o \in DOMAIN tunings
      BY <1>1, RunStepTables
    <2>3. ASSUME NEW o \in Runs \ {r} PROVE RunInv(o)'
      <3>1. RunInv(o)
        BY DEF CrewInv
      <3> QED
        BY <2>1, <2>2, <3>1, RunKept DEF OthersStay
    <2> QED
      BY <2>1, <2>2, <2>3 DEF CrewInv, TablesInv
  <1>2. ASSUME NEW d \in Dismissals, DismissStep(d) PROVE CrewInv'
    <2>1. /\ TablesInv'
          /\ audit \subseteq audit' /\ DOMAIN proposals' = DOMAIN proposals
          /\ DOMAIN tunings' = DOMAIN tunings
          /\ UNCHANGED <<pc, state, read>>
      BY <1>2, DismissTables
    <2>2. \A r \in Runs : RunInv(r)'
      BY <2>1, RunKept DEF CrewInv
    <2>3. RunType'
      BY <2>1 DEF CrewInv, RunType
    <2> QED
      BY <2>1, <2>2, <2>3 DEF CrewInv, TablesInv
  <1>3. CASE UNCHANGED vars
    <2>1. UNCHANGED <<mandate, now, proposals, tunings, audit, pc, state, read, dpc, target>>
      BY <1>3 DEF vars, keeper, tables, runVars, dismissVars
    <2>2. \A r \in Runs : RunInv(r)'
      BY <2>1, RunKept DEF CrewInv
    <2> QED
      BY <2>1, <2>2 DEF CrewInv, StoreType, DismissType, RunType, JudgedInv, TuningRowsInv, AuditSound,
         DismissInv
  <1> QED
    BY <1>1, <1>2, <1>3, KeeperKeeps DEF Next

\* The invariant of every reachable state.
THEOREM CrewInvariant == Spec => []CrewInv
  BY CrewInvInit, CrewInvNext, PTL DEF Spec

-----------------------------------------------------------------------------
(* The properties of CrewGraph.                                            *)

\* The type invariant: rows and audit entries belong to runs and operators, a run
\* that is done has a terminal, and a node that awaits the pipeline, the chain or
\* the model has a mandate.
THEOREM CrewTypeCorrect == Spec => []TypeOK
  <1>1. CrewInv => TypeOK
    <2> SUFFICES ASSUME CrewInv PROVE TypeOK
      OBVIOUS
    <2>1. StoreType /\ RunType /\ DismissType /\ TuningRowsInv /\ DismissInv
      BY DEF CrewInv
    <2>2. \A r \in DOMAIN tunings : tunings[r].status \in TuningStatus \ {"resigned"}
      BY <2>1 DEF TuningRowsInv, Tunings, TuningStatus
    <2>3. \A r \in Runs :
            /\ state[r].price \in Prices \cup {0}
            /\ state[r].strategy \in Strategies \cup {Nothing}
            /\ state[r].terminal \in Terminals \cup {Nothing}
            /\ read[r].mandate \in Mandates \cup {NoMandate}
      BY <2>1 DEF RunType, GraphState, Reads
    <2>4. ASSUME NEW r \in Runs
          PROVE  /\ pc[r] = "done" => state[r].terminal # Nothing
                 /\ pc[r] \in {"assess", "snapshot", "gateAssess", "gateSnapshot", "suggest"} =>
                        read[r].mandate # NoMandate
      <3>1. RunInv(r)
        BY DEF CrewInv
      <3> QED
        BY <3>1, NothingIsNone DEF RunInv, EndingInv, ReadInv, Ended, Honest, Terminals
    <2> QED
      BY <2>1, <2>2, <2>3, <2>4 DEF TypeOK, StoreType, RunType, DismissType, DismissInv
  <1> QED
    BY <1>1, CrewInvariant, PTL

\* The terminal a run reports is what it did, through every interleaving of runs,
\* re-registrations, failures and restarts.
THEOREM TerminalCorrect == Spec => []TerminalHonest
  <1>1. CrewInv => TerminalHonest
    BY DEF CrewInv, RunInv, EndingInv, Ended, Honest, TerminalHonest, Concluded
  <1> QED
    BY <1>1, CrewInvariant, PTL

\* The audit trail tells of every row a concluded run left and of every refusal,
\* claims no row that is not there, and records one operator per dismissed
\* suggestion.
THEOREM TrailCorrect == Spec => []TrailComplete
  <1>1. CrewInv => TrailComplete
    <2> SUFFICES ASSUME CrewInv PROVE TrailComplete
      OBVIOUS
    <2>1. \A r \in Concluded :
            /\ <<r, "CREW_RUN">> \in audit
            /\ r \in DOMAIN proposals => <<r, "PROPOSED">> \in audit
            /\ r \in DOMAIN tunings => <<r, "TUNING_SUGGESTED">> \in audit
            /\ state[r].terminal = "gate_blocked" => <<r, "GATE_BLOCKED">> \in audit
      BY DEF CrewInv, RunInv, EndingInv, Ended, RowsAudited, Concluded
    <2>2. \A d, e \in Dismissals :
            /\ target[d] = target[e]
            /\ <<d, "TUNING_DISMISSED">> \in audit /\ <<e, "TUNING_DISMISSED">> \in audit
            => d = e
      BY DEF CrewInv, DismissInv
    <2> QED
      BY <2>1, <2>2 DEF TrailComplete, CrewInv, AuditSound
  <1> QED
    BY <1>1, CrewInvariant, PTL

\* A favourable verdict means that these checks passed.
LEMMA AllowedMeans ==
    ASSUME NEW in, Allowed(in), in.mandate # NoMandate
    PROVE  /\ in.mandate.deadline = 0 \/ in.mandate.deadline > in.now
           /\ HfBps(in.snapshot.account) <= in.mandate.trigger
           /\ in.assessment.cost <= Least(in.mandate.cost, Limits.cost)
           /\ in.assessment.coll \in in.mandate.allowed
           /\ in.mandate.base <= in.assessment.target /\ in.assessment.target <= in.mandate.max
           /\ HasDebt(in.snapshot.account)
           /\ RepayBounded(in)
  <1>1. \A c \in DOMAIN Checks(in) : Checks(in)[c]
    BY DEF Allowed, Blocking
  <1>2. {"mandate_not_expired", "hf_below_trigger", "cost_within_mandate", "collateral_allowlisted",
         "target_in_signed_band", "has_debt", "repay_bounded"} \subseteq DOMAIN Checks(in)
    BY DEF Checks
  <1>3. /\ Checks(in).mandate_not_expired /\ Checks(in).hf_below_trigger
        /\ Checks(in).cost_within_mandate /\ Checks(in).collateral_allowlisted
        /\ Checks(in).target_in_signed_band /\ Checks(in).has_debt /\ Checks(in).repay_bounded
    BY <1>1, <1>2
  <1> QED
    BY <1>3 DEF Checks

\* A floored quotient bounds the product.
LEMMA QuotientBounds ==
    ASSUME NEW v \in Nat, NEW n \in Nat, NEW d \in Nat \ {0}, v <= n \div d
    PROVE  v * d <= n
  <1>1. (n \div d) * d <= n /\ n \div d \in Nat
    OBVIOUS
  <1>2. v * d <= (n \div d) * d
    BY <1>1
  <1> QED
    BY <1>1, <1>2

\* A queued row's verdict was about a plan the vault would take for the mandate it
\* was assessed under, and about a position at its trigger.
THEOREM ProposalCorrect == Spec => []ProposalExecutable
  <1>1. CrewInv => ProposalExecutable
    <2> SUFFICES ASSUME CrewInv, NEW r \in DOMAIN proposals
                 PROVE  LET j == proposals[r].judged
                            value == (j.assessment.repay * j.price) \div TokenUnit
                        IN  /\ j.mandate.deadline # 0 => j.now <= j.mandate.deadline
                            /\ j.assessment.coll \in j.mandate.allowed
                            /\ j.assessment.target \in j.mandate.base .. j.mandate.max
                            /\ j.assessment.cost <= j.mandate.cost /\ j.assessment.cost <= Limits.cost
                            /\ 0 < value
                            /\ value * Limits.repayDen <= j.snapshot.account.debt * Limits.repayNum
                            /\ j.snapshot.state = "ASSESSING"
      BY DEF ProposalExecutable
    <2> DEFINE j == proposals[r].judged
               m == j.mandate
               a == j.assessment
               acc == j.snapshot.account
               value == (a.repay * j.price) \div TokenUnit
    <2>1. Consistent(j) /\ Allowed(j)
      BY DEF CrewInv, JudgedInv
    <2>2. /\ m \in Mandates /\ a \in Assessments /\ acc \in Accounts
          /\ j.now \in Nat /\ j.price \in Nat
          /\ j.snapshot.state = ClassifyState(acc, m.trigger)
      <3>1. j \in GateInputs /\ j.snapshot = Snapshot(acc, m.trigger)
        BY <2>1 DEF Consistent
      <3>2. m \in Mandates /\ a \in Assessments /\ j.snapshot \in Snapshots
            /\ j.now \in 0 .. MaxTime /\ j.price \in Prices \cup {0}
        BY <3>1 DEF GateInputs
      <3>3. acc \in Accounts
        BY <3>2 DEF Snapshots, Snapshot
      <3>4. j.snapshot.state = ClassifyState(acc, m.trigger)
        BY <3>1 DEF Snapshot
      <3>5. \A t \in 0 .. MaxTime, price \in Prices \cup {0} : t \in Nat /\ price \in Nat
        BY CrewAssumption
      <3>6. j.now \in Nat /\ j.price \in Nat
        <4> HIDE DEF j
        <4> QED
          BY <3>2, <3>5
      <3> QED
        BY <3>2, <3>3, <3>4, <3>6
    <2>3. /\ m.deadline \in Nat /\ m.base \in Nat /\ m.max \in Nat /\ m.cost \in Nat /\ m.trigger \in Nat
          /\ a.target \in Nat /\ a.repay \in Nat /\ a.cost \in Nat
          /\ acc.debt \in Nat /\ acc.hf \in Nat /\ m # NoMandate
      BY <2>2, CrewAssumption
    <2>4. /\ TokenUnit \in Nat \ {0} /\ WadPerBp \in Nat \ {0} /\ WatchBand \in Nat
          /\ Limits.cost \in Nat /\ Limits.repayNum \in Nat /\ Limits.repayDen \in Nat \ {0}
      BY GateAssumption DEF PolicyLimits
    <2>5. /\ m.deadline = 0 \/ m.deadline > j.now
          /\ HfBps(acc) <= m.trigger
          /\ a.cost <= Least(m.cost, Limits.cost)
          /\ a.coll \in m.allowed
          /\ m.base <= a.target /\ a.target <= m.max
          /\ HasDebt(acc)
          /\ RepayBounded(j)
      BY <2>1, <2>3, AllowedMeans
    <2>6. 0 < value /\ value <= (acc.debt * Limits.repayNum) \div Limits.repayDen
      BY <2>2, <2>5 DEF RepayBounded, RepayValueBase
    <2>7. j.snapshot.state = "ASSESSING"
      <3>1. HfBps(acc) \in Nat
        BY <2>3, <2>4 DEF HfBps
      <3>2. ~(HfBps(acc) > m.trigger)
        BY <2>3, <2>5, <3>1
      <3> QED
        BY <2>2, <2>5, <3>2 DEF ClassifyState
    <2> HIDE DEF j, m, a, acc
    <2>8. a.repay * j.price \in Nat /\ acc.debt * Limits.repayNum \in Nat
      BY <2>2, <2>3, <2>4
    <2>9. value \in Nat
      BY <2>4, <2>8
    <2> HIDE DEF value
    <2>10. value * Limits.repayDen <= acc.debt * Limits.repayNum
      BY <2>4, <2>6, <2>8, <2>9, QuotientBounds
    <2>11. a.cost <= m.cost /\ a.cost <= Limits.cost
      BY <2>3, <2>4, <2>5 DEF Least
    <2>12. a.target \in m.base .. m.max /\ (m.deadline # 0 => j.now <= m.deadline)
      BY <2>2, <2>3, <2>5
    <2> QED
      BY <2>5, <2>6, <2>7, <2>10, <2>11, <2>12 DEF j, m, a, acc, value
  <1> QED
    BY <1>1, CrewInvariant, PTL
=============================================================================
