----------------------------- MODULE ChatTurns -----------------------------
(***************************************************************************)
(* Chat turns (backend/app/agent/chat.py) over the stored threads          *)
(* (agent/store.py), with the tools the model may call (agent/toolspec.py, *)
(* agent/tools.py) and the guard on what it says.                          *)
(*                                                                         *)
(* pc[t] names the next await of turn t:                                   *)
(*                                                                         *)
(*   "ensure" -> "question" -> "history" -> "model" <-> "tools"            *)
(*                                             -> "answer" -> "done"       *)
(*                                                                         *)
(* Prose is the set of figures in it.  The trace of the calls and the map  *)
(* of last results per tool that a reply carries decide nothing and are    *)
(* left out; so is the label service.snapshot refreshes, which is          *)
(* ProtectionService's.                                                    *)
(***************************************************************************)
EXTENDS NumberGuard, FiniteSets

CONSTANTS
    Turns, Threads,
    Results,        \* sets of figures a tool result may hold
    Replies,        \* sets of figures a reply may hold
    OutageFigures,  \* figures in an outage notice, a status code or a version
    MaxLoops,       \* max(agent_max_tool_loops, 1)
    MaxCalls,       \* tool calls in one response of the model
    HistoryLimit,   \* agent_chat_history_turns
    Earlier,        \* messages each thread holds from earlier days
    NoThread, NoTurn

\* Figures are quantities; a tool may return an infinite one.  Settings bound the
\* history in no way.
ASSUME ChatAssumption ==
    /\ UNION Results \subseteq Nat \cup {Infinite}
    /\ UNION (Replies \cup {OutageFigures}) \subseteq Nat
    /\ NoTurn \notin Turns /\ NoThread \notin Threads
    /\ MaxLoops \in Nat \ {0} /\ MaxCalls \in Nat \ {0} /\ Earlier \in Nat
    /\ HistoryLimit \in Int

VARIABLES
    (* persisted *)
    threads,      \* chat_threads
    messages,     \* chat_messages: id -> row
    lastId,       \* the largest id ever given (AUTOINCREMENT)
    (* the process, per turn *)
    pc, on,       \* where it is, and its thread
    seen,         \* turns whose questions are in the conversation
    loops,        \* calls of the model made
    calls,        \* tool calls of its last response still to dispatch
    allowed,      \* the guard's allow-list
    reply,        \* what will be answered: its figures, and if it is an outage notice
    (* what happened, for the properties *)
    returned      \* figures that tools returned to the turn

store == <<threads, messages, lastId>>
turnVars == <<pc, on, seen, loops, calls, allowed, reply, returned>>
vars == <<store, turnVars>>

\* The chat model's complete capability surface, by where an answer comes from.
TextTools == {"t_doctrine", "t_list_positions", "t_position_state"}
ExplainTools == {"t_explain_state", "t_explain_revert"}
KeeperTools == {"t_registered_params", "t_metrics"}
ChainTools == {"t_position_snapshot", "t_assess", "t_risk_signal"}
StoreTools == {"t_list_proposals", "t_audit_trail"}
ReadOnlySpecs == TextTools \cup ExplainTools \cup KeeperTools \cup ChainTools \cup StoreTools

Message == [thread : Threads, turn : Turns \cup {NoTurn}, role : {"user", "assistant"},
            figures : Replies \cup {{}, OutageFigures}, outage : BOOLEAN, flagged : BOOLEAN]

NoReply == [figures |-> {}, outage |-> FALSE]

Active == {"ensure", "question", "history", "model", "tools", "answer"}

TypeOK ==
    /\ threads \subseteq Threads
    /\ lastId \in Nat /\ DOMAIN messages \subseteq 1 .. lastId
    /\ \A i \in DOMAIN messages : messages[i] \in Message
    /\ pc \in [Turns -> Active \cup {"idle", "done", "failed", "lost"}]
    /\ on \in [Turns -> Threads \cup {NoThread}]
    /\ \A t \in Turns :
        /\ pc[t] \in Active => on[t] \in Threads
        /\ loops[t] \in 0 .. MaxLoops
        /\ pc[t] = "model" => loops[t] < MaxLoops
        /\ calls[t] \in 0 .. MaxCalls
        /\ pc[t] = "tools" <=> calls[t] > 0
        /\ seen[t] \subseteq Turns \cup {NoTurn}

Row(th, t, role, figures, outage, flagged) ==
    [thread |-> th, turn |-> t, role |-> role, figures |-> figures, outage |-> outage,
     flagged |-> flagged]

Init ==
    /\ threads = Threads
    /\ \E th \in Threads :
        messages = [i \in 1 .. Earlier |-> Row(th, NoTurn, "user", {}, FALSE, FALSE)]
    /\ lastId = Earlier
    /\ pc = [t \in Turns |-> "idle"]
    /\ on = [t \in Turns |-> NoThread]
    /\ seen = [t \in Turns |-> {}]
    /\ loops = [t \in Turns |-> 0]
    /\ calls = [t \in Turns |-> 0]
    /\ allowed = [t \in Turns |-> {}]
    /\ reply = [t \in Turns |-> NoReply]
    /\ returned = [t \in Turns |-> {}]

-----------------------------------------------------------------------------
(* The store.                                                              *)

\* INSERT INTO chat_messages; the foreign key refuses a thread that is gone.
AppendMessage(row) ==
    /\ row.thread \in threads
    /\ lastId' = lastId + 1
    /\ messages' = [i \in DOMAIN messages \cup {lastId + 1} |->
                     IF i = lastId + 1 THEN row ELSE messages[i]]

\* WHERE thread_id = ?, by id.
OfThread(th) == {i \in DOMAIN messages : messages[i].thread = th}

\* What was written to the thread of row i after it.
Newer(i) == {j \in OfThread(messages[i].thread) : j > i}

\* A negative LIMIT is none.
Limited(n) == HistoryLimit >= 0 /\ n >= HistoryLimit

\* Mutant: ORDER BY id LIMIT, the wrong end of the conversation.
HistoryFromStart(th) ==
    {i \in OfThread(th) : ~Limited(Cardinality({j \in OfThread(th) : j < i}))}

\* ORDER BY id DESC LIMIT: the newest window.
History(th) == {i \in OfThread(th) : ~Limited(Cardinality(Newer(i)))}

-----------------------------------------------------------------------------
(* run_chat.                                                               *)

Goto(t, p, q) == pc[t] = p /\ pc' = [pc EXCEPT ![t] = q]

\* The turn's local variables end with it.
Forget(ts) ==
    /\ seen' = [t \in Turns |-> IF t \in ts THEN {} ELSE seen[t]]
    /\ loops' = [t \in Turns |-> IF t \in ts THEN 0 ELSE loops[t]]
    /\ calls' = [t \in Turns |-> IF t \in ts THEN 0 ELSE calls[t]]
    /\ allowed' = [t \in Turns |-> IF t \in ts THEN {} ELSE allowed[t]]
    /\ reply' = [t \in Turns |-> IF t \in ts THEN NoReply ELSE reply[t]]

\* POST /agent/chat; the server mints a thread id when the body has none.
Begin(t, th) ==
    /\ Goto(t, "idle", "ensure")
    /\ on' = [on EXCEPT ![t] = th]
    /\ UNCHANGED <<store, seen, loops, calls, allowed, reply, returned>>

EnsureThread(t) ==
    /\ Goto(t, "ensure", "question")
    /\ threads' = threads \cup {on[t]}
    /\ UNCHANGED <<messages, lastId, on, seen, loops, calls, allowed, reply, returned>>

AppendQuestion(t) ==
    /\ Goto(t, "question", "history")
    /\ AppendMessage(Row(on[t], t, "user", {}, FALSE, FALSE))
    /\ UNCHANGED <<threads, on, seen, loops, calls, allowed, reply, returned>>

\* _history_messages: user and assistant rows, and no other is ever written.
Replayed(ids) == {messages[i].turn : i \in ids}

\* The history is replayed and a fresh guard is made.
ReadHistory(t) ==
    /\ Goto(t, "history", "model")
    /\ seen' = [seen EXCEPT ![t] = Replayed(History(on[t]))]
    /\ UNCHANGED <<store, on, loops, calls, allowed, reply, returned>>

\* The model answers without calling a tool.
ModelAnswers(t, figures) ==
    /\ Goto(t, "model", "answer")
    /\ loops' = [loops EXCEPT ![t] = @ + 1]
    /\ reply' = [reply EXCEPT ![t] = [figures |-> figures, outage |-> FALSE]]
    /\ UNCHANGED <<store, on, seen, calls, allowed, returned>>

\* The call fails: the turn answers that it could not reach the model.
ModelFails(t) ==
    /\ Goto(t, "model", "answer")
    /\ loops' = [loops EXCEPT ![t] = @ + 1]
    /\ reply' = [reply EXCEPT ![t] = [figures |-> OutageFigures, outage |-> TRUE]]
    /\ UNCHANGED <<store, on, seen, calls, allowed, returned>>

\* Mutant: a response that asks for tools does not use up an iteration.
ModelCallsToolsUncounted(t, n) ==
    /\ Goto(t, "model", "tools")
    /\ calls' = [calls EXCEPT ![t] = n]
    /\ UNCHANGED <<store, on, seen, loops, allowed, reply, returned>>

\* The response asks for n tool calls.
ModelCallsTools(t, n) ==
    /\ Goto(t, "model", "tools")
    /\ loops' = [loops EXCEPT ![t] = @ + 1]
    /\ calls' = [calls EXCEPT ![t] = n]
    /\ UNCHANGED <<store, on, seen, allowed, reply, returned>>

\* A tool that raises, is called with wrong arguments or does not exist answers
\* with an error text; so do the ones that need a mandate without one.
ResultsOf(name) == 
    IF name \in KeeperTools \cup ChainTools \cup StoreTools THEN Results \cup {{}} ELSE {{}}

\* The model may ask for any name.
ToolResults == UNION {ResultsOf(name) : name \in ReadOnlySpecs \cup {"another"}}

\* Mutant: the iterations of the loop are not counted.
AfterToolsUnbounded(t) == "model"

\* for ... else: out of iterations, the turn answers with a truncation notice.
AfterTools(t) == IF loops[t] < MaxLoops THEN "model" ELSE "answer"

\* Mutant: the guard is one object that every turn feeds.
ObserveForAll(t, result) == allowed' = [u \in Turns |-> allowed[u] \cup result]

\* guard.observe.
Observe(t, result) == allowed' = [allowed EXCEPT ![t] = @ \cup result]

\* _dispatch of one call.
CallTool(t, result) ==
    /\ Goto(t, "tools", IF calls[t] > 1 THEN "tools" ELSE AfterTools(t))
    /\ calls' = [calls EXCEPT ![t] = @ - 1]
    /\ Observe(t, result)
    /\ returned' = [returned EXCEPT ![t] = @ \cup result]
    /\ UNCHANGED <<store, on, seen, loops, reply>>

\* guard.annotate on what the model or the loop wrote.
AnnotateRaises(t) == ~reply[t].outage /\ CheckRaises(allowed[t])

\* guard.annotate: an outage notice is this layer's own prose and is not judged.
Flagged(t) == ~reply[t].outage /\ Unverified(reply[t].figures, allowed[t]) # {}

AppendAnswer(t) ==
    /\ Goto(t, "answer", "done")
    /\ ~AnnotateRaises(t)
    /\ AppendMessage(Row(on[t], t, "assistant", reply[t].figures, reply[t].outage, Flagged(t)))
    /\ Forget({t})
    /\ UNCHANGED <<threads, on, returned>>

\* What run_chat raises to its caller: an error of the store, the foreign key's when
\* the thread was deleted under the turn included; one of build_chat_model, before
\* the history is read; AgentTimeout; the guard's.  A tool call does not raise.
TurnFails(t) ==
    /\ \E p \in Active \ {"tools"} : Goto(t, p, "failed")
    /\ Forget({t})
    /\ UNCHANGED <<store, on, returned>>

-----------------------------------------------------------------------------
\* Mutant: the messages do not go with the thread.
DeleteThreadOnly(th) ==
    /\ threads' = threads \ {th}
    /\ UNCHANGED <<messages, lastId, turnVars>>

\* DELETE /agent/chat/{thread}: the messages cascade.
DeleteThread(th) ==
    /\ th \in threads
    /\ threads' = threads \ {th}
    /\ messages' = [i \in DOMAIN messages \ OfThread(th) |-> messages[i]]
    /\ UNCHANGED <<lastId, turnVars>>

\* The process ends; the threads remain.
Restart ==
    /\ \E t \in Turns : pc[t] \in Active
    /\ pc' = [t \in Turns |-> IF pc[t] \in Active THEN "lost" ELSE pc[t]]
    /\ Forget(Turns)
    /\ UNCHANGED <<store, on, returned>>

TurnStep(t) ==
    \/ EnsureThread(t) \/ AppendQuestion(t) \/ ReadHistory(t)
    \/ \E figures \in Replies : ModelAnswers(t, figures)
    \/ ModelFails(t)
    \/ \E n \in 1 .. MaxCalls : ModelCallsTools(t, n)
    \/ \E result \in ToolResults : CallTool(t, result)
    \/ AppendAnswer(t)
    \/ TurnFails(t)

Next ==
    \/ \E t \in Turns : TurnStep(t) \/ \E th \in Threads : Begin(t, th)
    \/ \E th \in Threads : DeleteThread(th)
    \/ Restart

\* Statements and reads end, and a model call ends within its timeout.
Spec == Init /\ [][Next]_vars /\ \A t \in Turns : WF_vars(TurnStep(t))

-----------------------------------------------------------------------------
(* Properties.                                                             *)

\* f is v in some unit, to the tolerance and the rounding of that unit: v as it is,
\* without its decimals, as a percentage, divided by a percentage, by basis points,
\* by a token's or by a WAD's scale.
Restates(f, v) ==
    \E c \in {<<v, 1, Cent>>, <<Unit * (v \div Unit), 1, 0>>, <<v * Percent, 1, Cent>>,
              <<v, Percent, Cent>>, <<v, Percent * Percent, Cent>>, <<v, TokenUnit, Cent>>,
              <<v, WadUnit, Cent>>} :
        Gap(f * c[2], c[1]) * Tolerance <= Greater(f * c[2], c[1]) + c[2] * c[3] * Tolerance

\* A stored answer that carries no banner states only figures that tools returned
\* to that very turn, to the tolerance: not to another turn, and not to an earlier
\* one whose messages are replayed.  An infinite figure backs none.
FiguresTraced ==
    \A i \in DOMAIN messages :
        LET m == messages[i]
        IN  m.role = "assistant" /\ ~m.outage /\ ~m.flagged =>
                \A f \in m.figures \ Bare : \E v \in returned[m.turn] \ {Infinite} : Restates(f, v)

\* While the question of a turn is stored, the conversation the model answers from
\* holds it, however the other turns wrote to the thread meanwhile, unless a whole
\* window of newer messages had followed it there.
QuestionSeen ==
    \A t \in Turns : \A i \in DOMAIN messages :
        pc[t] \in {"model", "tools", "answer"} /\ messages[i].turn = t =>
            t \in seen[t] \/ Limited(Cardinality(Newer(i)))

\* No message outlives its thread, also when the thread is deleted in the middle
\* of a turn that still has an answer to write.
NoOrphans == \A i \in DOMAIN messages : messages[i].thread \in threads

\* Every turn ends, whatever tools the model keeps asking for.
TurnEnds == \A t \in Turns : pc[t] = "ensure" ~> pc[t] \in {"done", "failed", "lost"}
=============================================================================
