-------------------------- MODULE ChatTurnsProofs --------------------------
(***************************************************************************)
(* Proofs about ChatTurns, for any number of turns and threads, any        *)
(* figures and any scales of the guard.                                    *)
(***************************************************************************)
EXTENDS ChatTurns, FiniteSetTheorems, TLAPS

-----------------------------------------------------------------------------
(* The guard's arithmetic: what matches a rendering of a value restates it. *)

\* Rounding moves n/d by at most half of the unit u it rounds to.
LEMMA RoundIsNear ==
    ASSUME NEW n \in Nat, NEW d \in Nat \ {0}, NEW u \in Nat \ {0}
    PROVE  \E k \in Nat : /\ RoundTo(n, d, u) = <<k, 1>>
                          /\ 2 * Gap(k * d, n) <= d * u
  <1> DEFINE w == d * u
             q == n \div w
             m == n % w
  <1>1. w \in Nat \ {0}
    OBVIOUS
  <1> HIDE DEF w
  <1>2. q \in Nat /\ m \in 0 .. w - 1 /\ n = w * q + m
    BY <1>1
  <1> HIDE DEF q, m
  <1> DEFINE up == IF 2 * m < w \/ (2 * m = w /\ q % 2 = 0) THEN q ELSE q + 1
  <1>3. RoundTo(n, d, u) = <<u * up, 1>>
    BY DEF RoundTo, w, q, m
  <1>4. (up = q /\ 2 * m <= w) \/ (up = q + 1 /\ 2 * m >= w)
    BY <1>1, <1>2
  <1> HIDE DEF up
  <1>5. up \in Nat
    BY <1>2, <1>4
  <1>6. u * up \in Nat /\ (u * up) * d = w * up
    BY <1>5 DEF w
  <1>7. w * (q + 1) = w * q + w /\ w * q \in Nat
    BY <1>1, <1>2
  <1>8. 2 * Gap(w * up, n) <= w
    BY <1>1, <1>2, <1>4, <1>7 DEF Gap
  <1> QED
    BY <1>3, <1>6, <1>8 DEF w

\* f is n/d to the tolerance and a unit c: the inequality of Restates.
Near(f, n, d, c) == Gap(f * d, n) * Tolerance <= Greater(f * d, n) + d * c * Tolerance

\* A product keeps an order.
LEMMA Monotone ==
    ASSUME NEW a \in Nat, NEW b \in Nat, NEW c \in Nat, a <= b
    PROVE  a * c <= b * c
  OBVIOUS

\* Exact renderings.
LEMMA ExactIsNear ==
    ASSUME NEW f \in Nat, NEW n \in Nat, NEW d \in Nat \ {0}, NEW c \in Nat, Matches(f, <<n, d>>)
    PROVE  Near(f, n, d, c)
  <1>1. Gap(f * d, n) * Tolerance <= Greater(f * d, n)
    BY DEF Matches
  <1>2. Tolerance \in Nat
    BY GuardAssumption
  <1>3. f * d \in Nat /\ d * c \in Nat
    OBVIOUS
  <1>4. (d * c) * Tolerance \in Nat
    BY <1>2, <1>3
  <1>5. Gap(f * d, n) \in Nat /\ Greater(f * d, n) \in Nat
    BY <1>3 DEF Gap, Greater
  <1>6. Gap(f * d, n) * Tolerance \in Nat
    BY <1>2, <1>5
  <1> QED
    BY <1>1, <1>4, <1>5, <1>6 DEF Near

\* What matches K/d, an approximation of n/d to half of d * c, is near n/d.
LEMMA ApproximateIsNear ==
    ASSUME NEW f \in Nat, NEW n \in Nat, NEW d \in Nat \ {0}, NEW c \in Nat, NEW k \in Nat,
           Matches(f, <<k, 1>>), 2 * Gap(k * d, n) <= d * c
    PROVE  Near(f, n, d, c)
  <1> DEFINE T == Tolerance
             g == Gap(f, k)
             G == Greater(f, k)
             F == f * d
             K == k * d
             e == Gap(K, n)
             w == d * c
  <1>1. T \in Nat \ {0} /\ g \in Nat /\ G \in Nat /\ F \in Nat /\ K \in Nat /\ w \in Nat
    BY GuardAssumption DEF Gap, Greater
  <1>2. e \in Nat
    BY <1>1 DEF Gap
  <1>3. g * T <= G
    BY DEF Matches
  <1>4. Gap(F, K) = g * d /\ Greater(F, K) = G * d
    <2>1. CASE f >= k
      <3>1. K <= F
        BY <2>1, Monotone
      <3>2. (f - k) * d = F - K
        OBVIOUS
      <3>3. g = f - k /\ G = f /\ Gap(F, K) = F - K /\ Greater(F, K) = F
        BY <2>1, <3>1, <1>1 DEF Gap, Greater
      <3> QED
        BY <3>2, <3>3
    <2>2. CASE k > f
      <3>1. F <= K
        BY <2>2, Monotone
      <3>2. (k - f) * d = K - F
        OBVIOUS
      <3>3. g = k - f /\ G = k /\ Gap(F, K) = K - F /\ Greater(F, K) = K
        BY <2>2, <3>1, <1>1 DEF Gap, Greater
      <3> QED
        BY <3>2, <3>3
    <2> QED
      BY <2>1, <2>2
  <1> HIDE DEF T, g, G, F, K, e, w
  <1>5. Gap(F, K) * T <= Greater(F, K)
    <2>1. g * T \in Nat
      BY <1>1
    <2>2. (g * T) * d <= G * d
      BY <1>1, <1>3, <2>1, Monotone
    <2>3. (g * d) * T = (g * T) * d
      BY <1>1
    <2> QED
      BY <1>4, <2>2, <2>3
  <1>6. Gap(F, n) <= Gap(F, K) + e /\ Greater(F, K) <= Greater(F, n) + e
    BY <1>1 DEF Gap, Greater, e
  <1>7. Gap(F, n) \in Nat /\ Gap(F, K) \in Nat /\ Greater(F, n) \in Nat /\ Greater(F, K) \in Nat
    BY <1>1 DEF Gap, Greater
  <1>8. Gap(F, n) * T <= Gap(F, K) * T + e * T
    <2>1. Gap(F, n) * T <= (Gap(F, K) + e) * T
      BY <1>1, <1>2, <1>6, <1>7, Monotone
    <2> QED
      BY <1>1, <1>2, <1>7, <2>1
  <1>9. e + e * T <= w * T
    <2>1. (2 * e) * T <= w * T
      BY <1>1, <1>2, Monotone DEF e, w, K
    <2>2. 1 * e <= T * e
      BY <1>1, <1>2, Monotone
    <2>3. /\ (2 * e) * T = e * T + e * T /\ 1 * e = e /\ T * e = e * T
          /\ e * T \in Nat /\ w * T \in Nat
      BY <1>1, <1>2
    <2>4. e <= e * T /\ e * T + e * T <= w * T
      BY <2>1, <2>2, <2>3
    <2> DEFINE x == e * T
               z == w * T
    <2>5. x \in Nat /\ z \in Nat /\ e <= x /\ x + x <= z
      BY <2>3, <2>4
    <2> HIDE DEF x, z
    <2>6. e + x <= z
      BY <1>2, <2>5
    <2> QED
      BY <2>6 DEF x, z
  <1>10. e * T \in Nat /\ w * T \in Nat /\ Gap(F, n) * T \in Nat /\ Gap(F, K) * T \in Nat
    BY <1>1, <1>2, <1>7
  <1>11. Gap(F, n) * T <= Greater(F, n) + w * T
    BY <1>2, <1>5, <1>6, <1>7, <1>8, <1>9, <1>10
  <1> QED
    BY <1>11 DEF Near, F, w, T

\* Rounded renderings, with a unit no larger than that of Restates.
LEMMA RoundedIsNear ==
    ASSUME NEW f \in Nat, NEW n \in Nat, NEW d \in Nat \ {0}, NEW u \in Nat \ {0}, NEW c \in Nat,
           u <= c, Matches(f, RoundTo(n, d, u))
    PROVE  Near(f, n, d, c)
  <1>1. PICK k \in Nat : RoundTo(n, d, u) = <<k, 1>> /\ 2 * Gap(k * d, n) <= d * u
    BY RoundIsNear
  <1>2. u * d <= c * d
    BY Monotone
  <1>3. u * d = d * u /\ c * d = d * c /\ d * u \in Nat /\ d * c \in Nat
    OBVIOUS
  <1>4. k * d \in Nat
    OBVIOUS
  <1>5. Gap(k * d, n) \in Nat
    BY <1>4 DEF Gap
  <1>6. 2 * Gap(k * d, n) <= d * c
    BY <1>1, <1>2, <1>3, <1>5
  <1> QED
    BY <1>1, <1>6, ApproximateIsNear

\* guard.check: a figure that passes for a value restates it, in one of seven units.
LEMMA MatchRestates ==
    ASSUME NEW f \in Nat, NEW v \in Nat, NEW c \in Renderings(v), Matches(f, c)
    PROVE  Restates(f, v)
  <1>1. /\ Unit \in Nat \ {0} /\ Cent \in Nat \ {0} /\ Percent \in Nat \ {0}
        /\ TokenUnit \in Nat \ {0} /\ WadUnit \in Nat \ {0} /\ Tolerance \in Nat \ {0}
    BY GuardAssumption
  <1>2. SUFFICES \/ Near(f, v, 1, Cent) \/ Near(f, Unit * (v \div Unit), 1, 0)
                 \/ Near(f, v * Percent, 1, Cent) \/ Near(f, v, Percent, Cent)
                 \/ Near(f, v, Percent * Percent, Cent) \/ Near(f, v, TokenUnit, Cent)
                 \/ Near(f, v, WadUnit, Cent)
    BY DEF Restates, Near
  <1>3. /\ v * Percent \in Nat /\ Percent * Percent \in Nat \ {0}
        /\ 1 \in Nat \ {0} /\ 1 <= Cent /\ 0 \in Nat
        /\ Unit * (v \div Unit) \in Nat
    BY <1>1
  <1>4. \/ c = <<v, 1>> \/ c = RoundTo(v, 1, Cent) \/ c = <<Unit * (v \div Unit), 1>>
        \/ c = <<v * Percent, 1>> \/ c = RoundTo(v * Percent, 1, Cent)
        \/ c = <<v, Percent>> \/ c = RoundTo(v, Percent, Cent)
        \/ c = <<v, Percent * Percent>> \/ c = RoundTo(v, Percent * Percent, 1)
        \/ c = <<v, TokenUnit>> \/ c = RoundTo(v, TokenUnit, Cent)
        \/ c = <<v, WadUnit>> \/ c = RoundTo(v, WadUnit, 1)
    BY DEF Renderings
  <1>5. CASE c = <<v, 1>> \/ c = RoundTo(v, 1, Cent)
    BY <1>1, <1>3, <1>5, ExactIsNear, RoundedIsNear
  <1>6. CASE c = <<Unit * (v \div Unit), 1>>
    <2> DEFINE whole == Unit * (v \div Unit)
    <2>1. whole \in Nat /\ Matches(f, <<whole, 1>>)
      BY <1>3, <1>6
    <2> HIDE DEF whole
    <2>2. Near(f, whole, 1, 0)
      BY <1>3, <2>1, ExactIsNear
    <2> QED
      BY <2>2 DEF whole
  <1>7. CASE c = <<v * Percent, 1>> \/ c = RoundTo(v * Percent, 1, Cent)
    BY <1>1, <1>3, <1>7, ExactIsNear, RoundedIsNear
  <1>8. CASE c = <<v, Percent>> \/ c = RoundTo(v, Percent, Cent)
    BY <1>1, <1>8, ExactIsNear, RoundedIsNear
  <1>9. CASE c = <<v, Percent * Percent>> \/ c = RoundTo(v, Percent * Percent, 1)
    BY <1>1, <1>3, <1>9, ExactIsNear, RoundedIsNear
  <1>10. CASE c = <<v, TokenUnit>> \/ c = RoundTo(v, TokenUnit, Cent)
    BY <1>1, <1>10, ExactIsNear, RoundedIsNear
  <1>11. CASE c = <<v, WadUnit>> \/ c = RoundTo(v, WadUnit, 1)
    BY <1>1, <1>3, <1>11, ExactIsNear, RoundedIsNear
  <1> QED
    BY <1>4, <1>5, <1>6, <1>7, <1>8, <1>9, <1>10, <1>11

-----------------------------------------------------------------------------
(* The inductive invariant.                                                *)

PCs == Active \cup {"idle", "done", "failed", "lost"}

\* Where a turn has written nothing, and where its question has been read back.
Early == {"idle", "ensure", "question"}
Conversing == {"model", "tools", "answer"}

\* The figures prose may hold, and a reply.
Figures == Replies \cup {{}, OutageFigures}
Answers == [figures : Figures, outage : BOOLEAN]

\* What a tool may return.
Quantities == Nat \cup {Infinite}

TurnType ==
    /\ pc \in [Turns -> PCs]
    /\ on \in [Turns -> Threads \cup {NoThread}]
    /\ seen \in [Turns -> SUBSET (Turns \cup {NoTurn})]
    /\ loops \in [Turns -> 0 .. MaxLoops]
    /\ calls \in [Turns -> 0 .. MaxCalls]
    /\ allowed \in [Turns -> SUBSET Quantities]
    /\ reply \in [Turns -> Answers]
    /\ returned \in [Turns -> SUBSET Quantities]

\* The loop of run_chat, and the guard: it has observed results of this turn only.
LoopInv(t) ==
    /\ pc[t] \in Active => on[t] \in Threads
    /\ pc[t] \in Early \cup {"history"} => loops[t] = 0
    /\ pc[t] = "model" => loops[t] < MaxLoops
    /\ pc[t] = "tools" <=> calls[t] > 0
    /\ allowed[t] \subseteq returned[t]

StoreType ==
    /\ threads \subseteq Threads
    /\ lastId \in Nat /\ Earlier <= lastId
    /\ DOMAIN messages \subseteq 1 .. lastId
    /\ \A i \in DOMAIN messages : messages[i] \in Message /\ messages[i].thread \in threads

\* A row is of an earlier day, or was written by its turn at the step that writes
\* it, into the thread the turn is on.
Written(i) ==
    LET row == messages[i]
    IN  \/ row.turn = NoTurn /\ row.role = "user" /\ i <= Earlier
        \/ /\ row.turn \in Turns /\ i > Earlier
           /\ row.thread = on[row.turn]
           /\ pc[row.turn] \notin Early
           /\ row.role = "assistant" => pc[row.turn] = "done"

RowsInv ==
    /\ StoreType
    /\ \A i \in DOMAIN messages : Written(i)

ChatInv ==
    /\ TurnType /\ RowsInv
    /\ \A t \in Turns : LoopInv(t)
    /\ QuestionSeen /\ FiguresTraced

-----------------------------------------------------------------------------
(* The turns.                                                              *)

\* Figures are quantities, wherever they come from; only a tool's may be infinite.
LEMMA FiguresAreNat ==
    /\ \A figures \in Figures : figures \subseteq Nat
    /\ \A result \in ToolResults : result \subseteq Quantities
  <1>1. /\ \A s \in Results : s \subseteq Quantities
        /\ \A s \in Replies \cup {OutageFigures} : s \subseteq Nat
    BY ChatAssumption DEF Quantities
  <1>2. ToolResults \subseteq Results \cup {{}}
    BY DEF ToolResults, ResultsOf
  <1> QED
    BY <1>1, <1>2 DEF Figures

\* From p to q, turn t only.
Stepped(t, p, q) ==
    /\ pc[t] = p /\ pc'[t] = q
    /\ \A u \in Turns \ {t} : pc'[u] = pc[u]

\* Goto moves one turn and leaves the others where they are.
LEMMA GotoSteps ==
    ASSUME TurnType, NEW t \in Turns, NEW p, NEW q \in PCs, Goto(t, p, q)
    PROVE  pc' \in [Turns -> PCs] /\ Stepped(t, p, q)
  BY DEF TurnType, Goto, Stepped

\* The turns ts are over, and their local variables with them.
LEMMA ForgetTypes ==
    ASSUME TurnType, NEW ts, Forget(ts)
    PROVE  /\ seen' \in [Turns -> SUBSET (Turns \cup {NoTurn})]
           /\ loops' \in [Turns -> 0 .. MaxLoops] /\ calls' \in [Turns -> 0 .. MaxCalls]
           /\ allowed' \in [Turns -> SUBSET Quantities] /\ reply' \in [Turns -> Answers]
           /\ \A t \in Turns : IF t \in ts THEN calls'[t] = 0 /\ allowed'[t] = {}
                               ELSE /\ seen'[t] = seen[t] /\ loops'[t] = loops[t]
                                    /\ calls'[t] = calls[t] /\ allowed'[t] = allowed[t]
  <1>1. 0 \in 0 .. MaxLoops /\ 0 \in 0 .. MaxCalls
    BY ChatAssumption
  <1>2. NoReply \in Answers
    BY DEF NoReply, Answers, Figures
  <1> QED
    BY <1>1, <1>2 DEF Forget, TurnType

\* What every step has to show of the turns.
TurnsKept == TurnType' /\ \A t \in Turns : LoopInv(t)'

\* The steps before the model is asked.
LEMMA OpeningKeeps ==
    ASSUME ChatInv, NEW t \in Turns,
           (\E th \in Threads : Begin(t, th)) \/ EnsureThread(t) \/ AppendQuestion(t) \/ ReadHistory(t)
    PROVE  TurnsKept
  <1>1. TurnType /\ StoreType /\ \A u \in Turns : LoopInv(u)
    BY DEF ChatInv, RowsInv
  <1>2. UNCHANGED <<loops, calls, allowed, reply, returned>>
    BY DEF Begin, EnsureThread, AppendQuestion, ReadHistory
  <1>3. CASE \E th \in Threads : Begin(t, th)
    <2>1. PICK th \in Threads : Begin(t, th)
      BY <1>3
    <2>2. pc' \in [Turns -> PCs] /\ Stepped(t, "idle", "ensure")
      BY <1>1, <2>1, GotoSteps DEF Begin, PCs, Active
    <2>3. on' = [on EXCEPT ![t] = th] /\ seen' = seen
      BY <2>1 DEF Begin
    <2>4. TurnType'
      BY <1>1, <1>2, <2>2, <2>3 DEF TurnType
    <2>5. on'[t] \in Threads /\ \A u \in Turns \ {t} : on'[u] = on[u]
      BY <1>1, <2>3 DEF TurnType
    <2> QED
      BY <1>1, <1>2, <2>2, <2>4, <2>5 DEF TurnsKept, LoopInv, Stepped, Active, Early
  <1>4. CASE EnsureThread(t) \/ AppendQuestion(t)
    <2>1. /\ pc' \in [Turns -> PCs]
          /\ Stepped(t, "ensure", "question") \/ Stepped(t, "question", "history")
      BY <1>1, <1>4, GotoSteps DEF EnsureThread, AppendQuestion, PCs, Active
    <2>2. on' = on /\ seen' = seen
      BY <1>4 DEF EnsureThread, AppendQuestion
    <2> QED
      BY <1>1, <1>2, <2>1, <2>2 DEF TurnsKept, TurnType, LoopInv, Stepped, Active, Early
  <1>5. CASE ReadHistory(t)
    <2>1. pc' \in [Turns -> PCs] /\ Stepped(t, "history", "model")
      BY <1>1, <1>5, GotoSteps DEF ReadHistory, PCs, Active
    <2>2. on' = on /\ seen' = [seen EXCEPT ![t] = Replayed(History(on[t]))]
      BY <1>5 DEF ReadHistory
    <2>3. Replayed(History(on[t])) \subseteq Turns \cup {NoTurn}
      BY <1>1 DEF Replayed, History, OfThread, StoreType, Message
    <2>4. TurnType'
      BY <1>1, <1>2, <2>1, <2>2, <2>3 DEF TurnType
    <2>5. 0 < MaxLoops
      BY ChatAssumption
    <2> QED
      BY <1>1, <1>2, <2>1, <2>2, <2>4, <2>5 DEF TurnsKept, LoopInv, Stepped, Active, Early
  <1> QED
    BY <1>3, <1>4, <1>5

\* The model answers, fails, or asks for tools.
LEMMA ModelKeeps ==
    ASSUME ChatInv, NEW t \in Turns,
           \/ \E figures \in Replies : ModelAnswers(t, figures)
           \/ ModelFails(t)
           \/ \E n \in 1 .. MaxCalls : ModelCallsTools(t, n)
    PROVE  TurnsKept
  <1>1. TurnType /\ \A u \in Turns : LoopInv(u)
    BY DEF ChatInv
  <1>2. UNCHANGED <<on, seen, allowed, returned>> /\ loops' = [loops EXCEPT ![t] = @ + 1]
    BY DEF ModelAnswers, ModelFails, ModelCallsTools
  <1>3. pc[t] = "model"
    BY DEF ModelAnswers, ModelFails, ModelCallsTools, Goto
  <1>4. loops[t] \in 0 .. MaxLoops /\ loops[t] < MaxLoops /\ MaxLoops \in Nat
    BY <1>1, <1>3, ChatAssumption DEF TurnType, LoopInv
  <1>5. loops' \in [Turns -> 0 .. MaxLoops] /\ \A u \in Turns \ {t} : loops'[u] = loops[u]
    BY <1>1, <1>2, <1>4 DEF TurnType
  <1>6. CASE (\E figures \in Replies : ModelAnswers(t, figures)) \/ ModelFails(t)
    <2>1. pc' \in [Turns -> PCs] /\ Stepped(t, "model", "answer")
      BY <1>1, <1>6, GotoSteps DEF ModelAnswers, ModelFails, PCs, Active
    <2>2. /\ calls' = calls
          /\ \E a \in Answers : reply' = [reply EXCEPT ![t] = a]
      BY <1>6 DEF ModelAnswers, ModelFails, Answers, Figures
    <2>3. reply' \in [Turns -> Answers]
      BY <1>1, <2>2 DEF TurnType
    <2>4. TurnType'
      BY <1>1, <1>2, <1>5, <2>1, <2>2, <2>3 DEF TurnType
    <2> QED
      BY <1>1, <1>2, <1>5, <2>1, <2>2, <2>4 DEF TurnsKept, LoopInv, Stepped, Active, Early
  <1>7. CASE \E n \in 1 .. MaxCalls : ModelCallsTools(t, n)
    <2>1. PICK n \in 1 .. MaxCalls : ModelCallsTools(t, n)
      BY <1>7
    <2>2. pc' \in [Turns -> PCs] /\ Stepped(t, "model", "tools")
      BY <1>1, <2>1, GotoSteps DEF ModelCallsTools, PCs, Active
    <2>3. n \in 0 .. MaxCalls /\ n > 0
      BY ChatAssumption
    <2>4. /\ reply' = reply /\ calls' \in [Turns -> 0 .. MaxCalls] /\ calls'[t] = n
          /\ \A u \in Turns \ {t} : calls'[u] = calls[u]
      BY <1>1, <2>1, <2>3 DEF ModelCallsTools, TurnType
    <2>5. TurnType'
      BY <1>1, <1>2, <1>5, <2>2, <2>4 DEF TurnType
    <2> QED
      BY <1>1, <1>2, <1>5, <2>2, <2>3, <2>4, <2>5 DEF TurnsKept, LoopInv, Stepped, Active, Early
  <1> QED
    BY <1>6, <1>7

\* _dispatch: the guard observes what the tool returned to this turn.
LEMMA CallToolKeeps ==
    ASSUME ChatInv, NEW t \in Turns, NEW result \in ToolResults, CallTool(t, result)
    PROVE  TurnsKept /\ \A u \in Turns : returned[u] \subseteq returned'[u]
  <1>1. TurnType /\ \A u \in Turns : LoopInv(u)
    BY DEF ChatInv
  <1>2. /\ Goto(t, "tools", IF calls[t] > 1 THEN "tools" ELSE AfterTools(t))
        /\ calls' = [calls EXCEPT ![t] = @ - 1]
        /\ allowed' = [allowed EXCEPT ![t] = @ \cup result]
        /\ returned' = [returned EXCEPT ![t] = @ \cup result]
        /\ UNCHANGED <<on, seen, loops, reply>>
    BY DEF CallTool, Observe
  <1>3. result \subseteq Quantities
    BY FiguresAreNat
  <1>4. calls[t] \in 0 .. MaxCalls /\ calls[t] > 0 /\ MaxCalls \in Nat /\ MaxLoops \in Nat
        /\ loops[t] \in 0 .. MaxLoops
    BY <1>1, <1>2, ChatAssumption DEF TurnType, LoopInv, Goto
  <1>5. /\ calls' \in [Turns -> 0 .. MaxCalls] /\ calls'[t] = calls[t] - 1
        /\ \A u \in Turns \ {t} : calls'[u] = calls[u]
    BY <1>1, <1>2, <1>4 DEF TurnType
  <1>6. /\ allowed' \in [Turns -> SUBSET Quantities] /\ returned' \in [Turns -> SUBSET Quantities]
        /\ allowed'[t] = allowed[t] \cup result /\ returned'[t] = returned[t] \cup result
        /\ \A u \in Turns \ {t} : allowed'[u] = allowed[u] /\ returned'[u] = returned[u]
    BY <1>1, <1>2, <1>3 DEF TurnType
  <1>7. \/ calls[t] > 1 /\ Goto(t, "tools", "tools")
        \/ calls[t] = 1 /\ loops[t] < MaxLoops /\ Goto(t, "tools", "model")
        \/ calls[t] = 1 /\ Goto(t, "tools", "answer")
    BY <1>2, <1>4 DEF AfterTools
  <1>8. /\ pc' \in [Turns -> PCs]
        /\ \/ calls[t] > 1 /\ Stepped(t, "tools", "tools")
           \/ calls[t] = 1 /\ loops[t] < MaxLoops /\ Stepped(t, "tools", "model")
           \/ calls[t] = 1 /\ Stepped(t, "tools", "answer")
    BY <1>1, <1>7, GotoSteps DEF PCs, Active
  <1>9. TurnType'
    BY <1>1, <1>2, <1>5, <1>6, <1>8 DEF TurnType
  <1>10. ASSUME NEW u \in Turns PROVE LoopInv(u)'
    <2>1. CASE u = t
      BY <1>1, <1>2, <1>4, <1>5, <1>6, <1>8, <2>1 DEF LoopInv, Stepped, Active, Early
    <2>2. CASE u # t
      BY <1>1, <1>2, <1>5, <1>6, <1>8, <2>2 DEF LoopInv, Stepped
    <2> QED
      BY <2>1, <2>2
  <1> QED
    BY <1>6, <1>9, <1>10 DEF TurnsKept

\* The answer is written, the turn fails, or the process ends.
LEMMA ClosingKeeps ==
    ASSUME ChatInv, (\E t \in Turns : AppendAnswer(t) \/ TurnFails(t)) \/ Restart
    PROVE  TurnsKept
  <1>1. TurnType /\ \A u \in Turns : LoopInv(u)
    BY DEF ChatInv
  <1>2. ASSUME NEW ts, Forget(ts), on' = on, returned' = returned, pc' \in [Turns -> PCs],
               \A u \in Turns :
                 \/ u \in ts /\ pc'[u] \in {"done", "failed", "lost"}
                 \/ u \in ts /\ pc'[u] = pc[u] /\ pc[u] \notin Active /\ loops'[u] = 0
                 \/ u \notin ts /\ pc'[u] = pc[u]
        PROVE  TurnsKept
    <2>1. TurnType'
      BY <1>1, <1>2, ForgetTypes DEF TurnType
    <2>2. ASSUME NEW u \in Turns PROVE LoopInv(u)'
      <3>1. IF u \in ts THEN calls'[u] = 0 /\ allowed'[u] = {}
            ELSE /\ loops'[u] = loops[u] /\ calls'[u] = calls[u] /\ allowed'[u] = allowed[u]
        BY <1>1, <1>2, ForgetTypes
      <3> QED
        BY <1>1, <1>2, <3>1 DEF LoopInv, Active, Early
    <2> QED
      BY <2>1, <2>2 DEF TurnsKept
  <1>3. ASSUME NEW t \in Turns, AppendAnswer(t) \/ TurnFails(t)
        PROVE  TurnsKept
    <2>1. /\ \E p \in Active : Goto(t, p, "done") \/ Goto(t, p, "failed")
          /\ Forget({t}) /\ on' = on /\ returned' = returned
      BY <1>3 DEF AppendAnswer, TurnFails, Active
    <2>2. /\ pc' \in [Turns -> PCs] /\ pc'[t] \in {"done", "failed"}
          /\ \A u \in Turns \ {t} : pc'[u] = pc[u]
      BY <1>1, <2>1, GotoSteps DEF Stepped, PCs
    <2> QED
      BY <1>2, <2>1, <2>2
  <1>4. CASE Restart
    <2>1. /\ pc' = [t \in Turns |-> IF pc[t] \in Active THEN "lost" ELSE pc[t]]
          /\ Forget(Turns) /\ on' = on /\ returned' = returned
      BY <1>4 DEF Restart
    <2>2. pc' \in [Turns -> PCs]
      BY <1>1, <2>1 DEF TurnType, PCs
    <2>3. \A u \in Turns : loops'[u] = 0
      BY <2>1 DEF Forget
    <2> QED
      BY <1>2, <2>1, <2>2, <2>3
  <1> QED
    BY <1>3, <1>4

-----------------------------------------------------------------------------
(* The messages.                                                           *)

\* No turn goes back to where it had written nothing, or changes its thread once
\* it writes, or leaves "done".
Onward(t) ==
    /\ pc[t] \notin Early => pc'[t] \notin Early /\ on'[t] = on[t]
    /\ pc[t] = "done" => pc'[t] = "done"

\* A step that writes no message.
LEMMA RowsKept ==
    ASSUME RowsInv, \A t \in Turns : Onward(t),
           threads \subseteq threads', threads' \subseteq Threads,
           messages' = messages, lastId' = lastId
    PROVE  RowsInv'
  <1>1. StoreType'
    BY DEF RowsInv, StoreType
  <1>2. \A i \in DOMAIN messages' : Written(i)'
    BY DEF RowsInv, Written, Onward
  <1> QED
    BY <1>1, <1>2 DEF RowsInv

\* Turn t writes the row of its question, or of its answer, for the first time.
LEMMA RowsAppended ==
    ASSUME RowsInv, NEW t \in Turns, NEW row \in Message, AppendMessage(row),
           threads' = threads, on' = on,
           row.turn = t, row.thread = on[t],
           pc'[t] \notin Early, \A u \in Turns \ {t} : pc'[u] = pc[u], pc[t] # "done",
           \/ row.role = "user" /\ pc[t] \in Early
           \/ row.role = "assistant" /\ pc'[t] = "done"
    PROVE  RowsInv'
  <1>0. PICK new : new = lastId + 1
    OBVIOUS
  <1>1. /\ lastId' = new /\ row.thread \in threads
        /\ DOMAIN messages' = DOMAIN messages \cup {new}
        /\ messages'[new] = row
        /\ \A i \in DOMAIN messages \ {new} : messages'[i] = messages[i]
    BY <1>0 DEF AppendMessage
  <1>2. /\ StoreType /\ lastId \in Nat /\ Earlier \in Nat /\ Earlier <= lastId
        /\ DOMAIN messages \subseteq 1 .. lastId
    BY ChatAssumption DEF RowsInv, StoreType
  <1>3. new \notin DOMAIN messages /\ new \in Nat /\ new > Earlier
    BY <1>0, <1>2
  <1>4. DOMAIN messages' \subseteq 1 .. lastId'
    BY <1>0, <1>1, <1>2
  <1>5. Earlier <= lastId'
    BY <1>0, <1>1, <1>2
  <1>6. StoreType'
    BY <1>1, <1>2, <1>3, <1>4, <1>5 DEF StoreType
  <1>7. NoTurn \notin Turns
    BY ChatAssumption
  <1>8. ASSUME NEW i \in DOMAIN messages
        PROVE  Written(i)'
    <2>1. Written(i) /\ messages[i] = messages'[i] /\ messages[i] \in Message
      BY <1>1, <1>2, <1>3 DEF RowsInv, StoreType
    <2>2. messages[i].turn = t => pc[t] \notin Early /\ messages[i].role = "user"
      BY <1>7, <2>1 DEF Written, Message
    <2> QED
      BY <1>7, <2>1, <2>2 DEF Written
  <1>9. Written(new)'
    BY <1>1, <1>3 DEF Written
  <1>10. \A i \in DOMAIN messages' : Written(i)'
    BY <1>1, <1>8, <1>9
  <1> QED
    BY <1>6, <1>10 DEF RowsInv

\* The messages go with their thread.
LEMMA RowsDeleted ==
    ASSUME RowsInv, NEW th \in Threads, DeleteThread(th)
    PROVE  RowsInv'
  <1>1. /\ DOMAIN messages' = DOMAIN messages \ OfThread(th)
        /\ \A i \in DOMAIN messages' : messages'[i] = messages[i]
        /\ threads' = threads \ {th} /\ lastId' = lastId /\ pc' = pc /\ on' = on
    BY DEF DeleteThread, turnVars
  <1>2. \A i \in DOMAIN messages' : i \in DOMAIN messages /\ messages[i].thread # th
    BY <1>1 DEF OfThread
  <1>3. StoreType'
    BY <1>1, <1>2 DEF RowsInv, StoreType
  <1>4. \A i \in DOMAIN messages' : Written(i)'
    BY <1>1, <1>2 DEF RowsInv, Written
  <1> QED
    BY <1>3, <1>4 DEF RowsInv

\* A row's newer ones are finitely many, and more of them stay enough to fill the window.
LEMMA LimitedGrows ==
    ASSUME NEW S, NEW T, IsFiniteSet(T), S \subseteq T, Limited(Cardinality(S))
    PROVE  Limited(Cardinality(T))
  <1>1. IsFiniteSet(S) /\ Cardinality(S) <= Cardinality(T)
    BY FS_Subset
  <1>2. Cardinality(S) \in Nat /\ Cardinality(T) \in Nat /\ HistoryLimit \in Int
    BY <1>1, FS_CardinalityType, ChatAssumption
  <1> QED
    BY <1>1, <1>2 DEF Limited

\* The rows that stay, of a turn that has read the history before, when each still has after it
\* what was written after it: a row's thread goes as a whole.
LEMMA SeenKept ==
    ASSUME QuestionSeen, NEW t \in Turns, pc[t] \in Conversing, seen'[t] = seen[t],
           NEW i \in DOMAIN messages, messages[i].turn = t,
           IsFiniteSet(Newer(i)'), Newer(i) \subseteq Newer(i)'
    PROVE  t \in seen'[t] \/ Limited(Cardinality(Newer(i)))'
  <1>1. t \in seen[t] \/ Limited(Cardinality(Newer(i)))
    BY DEF QuestionSeen, Conversing
  <1> DEFINE S == Newer(i)
             T == Newer(i)'
  <1>2. IsFiniteSet(T) /\ S \subseteq T
    OBVIOUS
  <1> HIDE DEF S, T
  <1>3. Limited(Cardinality(S)) => Limited(Cardinality(T))
    BY <1>2, LimitedGrows
  <1> QED
    BY <1>1, <1>3 DEF S, T, Limited

\* Ids are given out one after the other: a thread holds finitely many.
LEMMA NewerFinite ==
    ASSUME StoreType, NEW i
    PROVE  IsFiniteSet(Newer(i))
  <1>1. IsFiniteSet(1 .. lastId)
    BY FS_Interval DEF StoreType
  <1>2. Newer(i) \subseteq 1 .. lastId
    BY DEF StoreType, Newer, OfThread
  <1> QED
    BY <1>1, <1>2, FS_Subset

\* The same after a step.
LEMMA NewerFiniteNext ==
    ASSUME StoreType', NEW i
    PROVE  IsFiniteSet(Newer(i)')
  <1>1. IsFiniteSet(1 .. lastId')
    BY FS_Interval DEF StoreType
  <1>2. Newer(i)' \subseteq 1 .. lastId'
    BY DEF StoreType, Newer, OfThread
  <1> QED
    BY <1>1, <1>2, FS_Subset

\* What tools have returned to a turn stays returned.
LEMMA FiguresKept ==
    ASSUME FiguresTraced, RowsInv,
           \A i \in DOMAIN messages' : i \in DOMAIN messages /\ messages'[i] = messages[i],
           \A t \in Turns : returned[t] \subseteq returned'[t]
    PROVE  FiguresTraced'
  <1> SUFFICES ASSUME NEW i \in DOMAIN messages',
                      messages'[i].role = "assistant", ~messages'[i].outage, ~messages'[i].flagged,
                      NEW f \in messages'[i].figures \ Bare
               PROVE  \E v \in returned'[messages'[i].turn] \ {Infinite} : Restates(f, v)
    BY DEF FiguresTraced
  <1>1. i \in DOMAIN messages /\ messages'[i] = messages[i] /\ messages[i].turn \in Turns
    BY DEF RowsInv, Written
  <1>2. \E v \in returned[messages[i].turn] \ {Infinite} : Restates(f, v)
    BY <1>1 DEF FiguresTraced
  <1> QED
    BY <1>1, <1>2

\* What the history leaves out of a thread has a window of newer rows after it.
LEMMA QuestionInWindow ==
    ASSUME RowsInv, NEW t \in Turns, NEW i \in DOMAIN messages, messages[i].turn = t
    PROVE  i \in History(on[t]) \/ Limited(Cardinality(Newer(i)))
  <1>1. messages[i].thread = on[t]
    BY ChatAssumption DEF RowsInv, Written
  <1> QED
    BY <1>1 DEF History, OfThread

-----------------------------------------------------------------------------
(* The steps, together.                                                    *)

\* A step that leaves the messages alone and moves the turns onward.
LEMMA QuietStep ==
    ASSUME ChatInv, TurnsKept, \A t \in Turns : Onward(t),
           threads \subseteq threads', threads' \subseteq Threads,
           messages' = messages, lastId' = lastId,
           \A t \in Turns : pc'[t] \in Conversing => pc[t] \in Conversing /\ seen'[t] = seen[t],
           \A t \in Turns : returned[t] \subseteq returned'[t]
    PROVE  ChatInv'
  <1>1. RowsInv'
    BY RowsKept DEF ChatInv
  <1>2. QuestionSeen'
    <2> SUFFICES ASSUME NEW t \in Turns, NEW i \in DOMAIN messages',
                        pc'[t] \in {"model", "tools", "answer"}, messages'[i].turn = t
                 PROVE  t \in seen'[t] \/ Limited(Cardinality(Newer(i)))'
      BY DEF QuestionSeen
    <2>1. Newer(i)' = Newer(i)
      BY DEF Newer, OfThread
    <2>2. IsFiniteSet(Newer(i)')
      BY <2>1, NewerFinite DEF ChatInv, RowsInv
    <2> QED
      BY <2>1, <2>2, SeenKept DEF ChatInv, Conversing
  <1>3. FiguresTraced'
    BY FiguresKept DEF ChatInv
  <1> QED
    BY <1>1, <1>2, <1>3 DEF ChatInv, TurnsKept

\* A turn that starts, or makes sure of its thread row, writes no message and keeps the invariant.
LEMMA OpeningInv ==
    ASSUME ChatInv, NEW t \in Turns, (\E th \in Threads : Begin(t, th)) \/ EnsureThread(t)
    PROVE  ChatInv'
  <1>1. TurnType /\ StoreType /\ LoopInv(t)
    BY DEF ChatInv, RowsInv
  <1>2. TurnsKept
    BY OpeningKeeps
  <1>3. messages' = messages /\ lastId' = lastId /\ seen' = seen /\ returned' = returned
    BY DEF Begin, EnsureThread, store
  <1>4. /\ Stepped(t, "idle", "ensure") \/ Stepped(t, "ensure", "question")
        /\ \A u \in Turns \ {t} : on'[u] = on[u]
    BY <1>1, GotoSteps DEF Begin, EnsureThread, PCs, Active, TurnType
  <1>5. threads \subseteq threads' /\ threads' \subseteq Threads
    BY <1>1 DEF Begin, EnsureThread, Goto, store, StoreType, LoopInv, Active
  <1>6. \A u \in Turns : Onward(u)
    BY <1>4 DEF Onward, Stepped, Early
  <1>7. \A u \in Turns : pc'[u] \in Conversing => pc[u] \in Conversing
    BY <1>4 DEF Stepped, Conversing
  <1> QED
    BY <1>2, <1>3, <1>5, <1>6, <1>7, QuietStep

\* The model's round trips and the tool calls touch the turn's own variables only and keep the
\* invariant.
LEMMA MiddleInv ==
    ASSUME ChatInv, NEW t \in Turns,
           \/ \E figures \in Replies : ModelAnswers(t, figures)
           \/ ModelFails(t)
           \/ \E n \in 1 .. MaxCalls : ModelCallsTools(t, n)
           \/ \E result \in ToolResults : CallTool(t, result)
    PROVE  ChatInv'
  <1>1. TurnType /\ StoreType
    BY DEF ChatInv, RowsInv
  <1>2. TurnsKept /\ \A u \in Turns : returned[u] \subseteq returned'[u]
    <2>1. CASE \E result \in ToolResults : CallTool(t, result)
      BY <2>1, CallToolKeeps
    <2>2. CASE \/ (\E figures \in Replies : ModelAnswers(t, figures)) \/ ModelFails(t)
               \/ \E n \in 1 .. MaxCalls : ModelCallsTools(t, n)
      <3>1. returned' = returned
        BY <2>2 DEF ModelAnswers, ModelFails, ModelCallsTools
      <3> QED
        BY <2>2, <3>1, ModelKeeps
    <2> QED
      BY <2>1, <2>2
  <1>3. /\ messages' = messages /\ lastId' = lastId /\ threads' = threads
        /\ seen' = seen /\ on' = on
    BY DEF ModelAnswers, ModelFails, ModelCallsTools, CallTool, store
  <1>4. PICK q \in {"answer", "tools", "model"} : Goto(t, "model", q) \/ Goto(t, "tools", q)
    BY DEF ModelAnswers, ModelFails, ModelCallsTools, CallTool, AfterTools
  <1>5. Stepped(t, "model", q) \/ Stepped(t, "tools", q)
    BY <1>1, <1>4, GotoSteps DEF PCs, Active
  <1>6. \A u \in Turns : Onward(u)
    BY <1>3, <1>5 DEF Onward, Stepped, Early
  <1>7. \A u \in Turns : pc'[u] \in Conversing => pc[u] \in Conversing
    BY <1>5 DEF Stepped, Conversing
  <1> QED
    BY <1>1, <1>2, <1>3, <1>6, <1>7, QuietStep DEF StoreType

\* A turn that fails, and a restart that drops every turn in flight, keep the rows and the invariant.
LEMMA EndingInv ==
    ASSUME ChatInv, (\E t \in Turns : TurnFails(t)) \/ Restart
    PROVE  ChatInv'
  <1>1. TurnType /\ StoreType
    BY DEF ChatInv, RowsInv
  <1>2. TurnsKept
    BY ClosingKeeps
  <1>3. /\ messages' = messages /\ lastId' = lastId /\ threads' = threads
        /\ returned' = returned /\ on' = on
    BY DEF TurnFails, Restart, store
  <1>4. \A u \in Turns :
          \/ pc'[u] \in {"failed", "lost"} /\ pc[u] \in Active
          \/ pc'[u] = pc[u] /\ (pc[u] \in Active => seen'[u] = seen[u])
    <2>1. ASSUME NEW t \in Turns, TurnFails(t), NEW u \in Turns
          PROVE  \/ pc'[u] \in {"failed", "lost"} /\ pc[u] \in Active
                 \/ pc'[u] = pc[u] /\ (pc[u] \in Active => seen'[u] = seen[u])
      <3>1. PICK p \in Active : Goto(t, p, "failed")
        BY <2>1 DEF TurnFails
      <3>2. Stepped(t, p, "failed")
        BY <1>1, <3>1, GotoSteps DEF PCs
      <3>3. u # t => seen'[u] = seen[u]
        BY <1>1, <2>1, ForgetTypes DEF TurnFails
      <3> QED
        BY <3>2, <3>3 DEF Stepped
    <2>2. CASE Restart
      BY <2>2 DEF Restart
    <2> QED
      BY <2>1, <2>2
  <1>5. \A u \in Turns : Onward(u)
    BY <1>3, <1>4 DEF Onward, Early, Active
  <1>6. \A u \in Turns : pc'[u] \in Conversing => pc[u] \in Conversing /\ seen'[u] = seen[u]
    BY <1>4 DEF Conversing, Active
  <1> QED
    BY <1>1, <1>2, <1>3, <1>5, <1>6, QuietStep DEF StoreType

\* Reading the history after the question's own row was appended: the question is among the ids read,
\* unless a window of newer rows is, or its thread was deleted in between.
LEMMA ReadHistoryInv ==
    ASSUME ChatInv, NEW t \in Turns, ReadHistory(t)
    PROVE  ChatInv'
  <1>1. TurnType /\ StoreType /\ RowsInv
    BY DEF ChatInv, RowsInv
  <1>2. TurnsKept
    BY OpeningKeeps
  <1>3. /\ messages' = messages /\ lastId' = lastId /\ threads' = threads
        /\ returned' = returned /\ on' = on
        /\ seen' = [seen EXCEPT ![t] = Replayed(History(on[t]))]
    BY DEF ReadHistory, store
  <1>4. Stepped(t, "history", "model")
    BY <1>1, GotoSteps DEF ReadHistory, PCs, Active
  <1>5. \A u \in Turns : Onward(u)
    BY <1>3, <1>4 DEF Onward, Stepped, Early
  <1>6. RowsInv'
    BY <1>1, <1>3, <1>5, RowsKept DEF StoreType
  <1>7. FiguresTraced'
    BY <1>1, <1>3, FiguresKept DEF ChatInv
  <1>8. QuestionSeen'
    <2> SUFFICES ASSUME NEW u \in Turns, NEW i \in DOMAIN messages',
                        pc'[u] \in {"model", "tools", "answer"}, messages'[i].turn = u
                 PROVE  u \in seen'[u] \/ Limited(Cardinality(Newer(i)))'
      BY DEF QuestionSeen
    <2>0. Newer(i)' = Newer(i)
      BY <1>3 DEF Newer, OfThread
    <2>1. CASE u = t
      <3>1. i \in History(on[t]) \/ Limited(Cardinality(Newer(i)))
        BY <1>1, <1>3, <2>1, QuestionInWindow
      <3>2. i \in History(on[t]) => t \in Replayed(History(on[t]))
        BY <1>3, <2>1 DEF Replayed
      <3>3. seen'[t] = Replayed(History(on[t]))
        BY <1>1, <1>3 DEF TurnType
      <3> QED
        BY <2>0, <2>1, <3>1, <3>2, <3>3 DEF Limited
    <2>2. CASE u # t
      <3>1. pc[u] \in Conversing /\ seen'[u] = seen[u]
        BY <1>1, <1>3, <1>4, <2>2 DEF Stepped, TurnType, Conversing
      <3>2. IsFiniteSet(Newer(i)')
        BY <1>1, <2>0, NewerFinite
      <3> QED
        BY <1>3, <2>0, <3>1, <3>2, SeenKept DEF ChatInv
    <2> QED
      BY <2>1, <2>2
  <1> QED
    BY <1>2, <1>6, <1>7, <1>8 DEF ChatInv, TurnsKept

\* Deleting a thread takes its messages along and leaves every other row as it was.
LEMMA DeleteInv ==
    ASSUME ChatInv, NEW th \in Threads, DeleteThread(th)
    PROVE  ChatInv'
  <1>1. UNCHANGED <<pc, on, seen, loops, calls, allowed, reply, returned>>
    BY DEF DeleteThread, turnVars
  <1>2. \A i \in DOMAIN messages' : i \in DOMAIN messages /\ messages'[i] = messages[i]
    BY DEF DeleteThread
  <1>3. RowsInv'
    BY RowsDeleted DEF ChatInv
  <1>4. QuestionSeen'
    <2> SUFFICES ASSUME NEW t \in Turns, NEW i \in DOMAIN messages',
                        pc'[t] \in {"model", "tools", "answer"}, messages'[i].turn = t
                 PROVE  t \in seen'[t] \/ Limited(Cardinality(Newer(i)))'
      BY DEF QuestionSeen
    <2>1. i \in DOMAIN messages /\ messages'[i] = messages[i] /\ messages[i].thread # th
      BY <1>2 DEF DeleteThread, OfThread
    <2>2. ASSUME NEW j \in Newer(i) PROVE j \in Newer(i)'
      <3>1. j \in DOMAIN messages /\ messages[j].thread # th /\ messages[j].thread = messages[i].thread /\ j > i
        BY <2>1 DEF Newer, OfThread
      <3>2. j \in DOMAIN messages' /\ messages'[j] = messages[j]
        BY <3>1 DEF DeleteThread, OfThread
      <3> QED
        BY <2>1, <3>1, <3>2 DEF Newer, OfThread
    <2>3. StoreType'
      BY <1>3 DEF RowsInv
    <2>4. IsFiniteSet(Newer(i)')
      BY <2>3, NewerFiniteNext
    <2> QED
      BY <1>1, <2>1, <2>2, <2>4, SeenKept DEF ChatInv, Conversing
  <1>5. FiguresTraced'
    BY <1>1, <1>2, FiguresKept DEF ChatInv
  <1>6. TurnType' /\ \A t \in Turns : LoopInv(t)'
    BY <1>1 DEF ChatInv, TurnType, LoopInv
  <1> QED
    BY <1>3, <1>4, <1>5, <1>6 DEF ChatInv

\* A row of turn t is added: the other turns' questions, and the answers that were
\* there, are as before.
LEMMA AppendedElsewhere ==
    ASSUME ChatInv, RowsInv', NEW t \in Turns, NEW row, AppendMessage(row), row.turn = t,
           pc'[t] \notin Conversing, returned' = returned,
           \A u \in Turns \ {t} : pc'[u] = pc[u] /\ seen'[u] = seen[u],
           row.role = "assistant" /\ ~row.outage /\ ~row.flagged =>
             \A f \in row.figures \ Bare : \E v \in returned[t] \ {Infinite} : Restates(f, v)
    PROVE  QuestionSeen' /\ FiguresTraced'
  <1>1. PICK new : new = lastId + 1
    OBVIOUS
  <1>2. /\ DOMAIN messages' = DOMAIN messages \cup {new}
        /\ messages'[new] = row
        /\ \A i \in DOMAIN messages \ {new} : messages'[i] = messages[i]
    BY <1>1 DEF AppendMessage
  <1>3. QuestionSeen'
    <2> SUFFICES ASSUME NEW u \in Turns, NEW i \in DOMAIN messages',
                        pc'[u] \in {"model", "tools", "answer"}, messages'[i].turn = u
                 PROVE  u \in seen'[u] \/ Limited(Cardinality(Newer(i)))'
      BY DEF QuestionSeen
    <2>1. u # t
      BY DEF Conversing
    <2>2. new \notin DOMAIN messages
      BY <1>1 DEF ChatInv, RowsInv, StoreType
    <2>3. i \in DOMAIN messages /\ messages[i].turn = u /\ messages'[i] = messages[i]
      BY <1>2, <2>1, <2>2
    <2>4. Newer(i) \subseteq Newer(i)'
      BY <1>2, <2>2, <2>3 DEF Newer, OfThread
    <2>5. IsFiniteSet(Newer(i)')
      BY NewerFiniteNext DEF RowsInv
    <2> QED
      BY <2>1, <2>3, <2>4, <2>5, SeenKept DEF ChatInv, Conversing
  <1>4. FiguresTraced'
    <2> SUFFICES ASSUME NEW i \in DOMAIN messages',
                        messages'[i].role = "assistant", ~messages'[i].outage, ~messages'[i].flagged,
                        NEW f \in messages'[i].figures \ Bare
                 PROVE  \E v \in returned'[messages'[i].turn] \ {Infinite} : Restates(f, v)
      BY DEF FiguresTraced
    <2>1. CASE i = new
      BY <1>2, <2>1
    <2>2. CASE i # new
      BY <1>2, <2>2 DEF ChatInv, FiguresTraced
    <2> QED
      BY <2>1, <2>2
  <1> QED
    BY <1>3, <1>4

\* The question's row takes a new id, past every id given out, in a thread row that exists.
LEMMA AppendQuestionInv ==
    ASSUME ChatInv, NEW t \in Turns, AppendQuestion(t)
    PROVE  ChatInv'
  <1> DEFINE row == Row(on[t], t, "user", {}, FALSE, FALSE)
  <1>1. TurnType /\ RowsInv /\ LoopInv(t)
    BY DEF ChatInv
  <1>2. TurnsKept
    BY OpeningKeeps
  <1>3. /\ AppendMessage(row) /\ threads' = threads /\ on' = on /\ seen' = seen
        /\ returned' = returned
    BY DEF AppendQuestion
  <1>4. Stepped(t, "question", "history")
    BY <1>1, GotoSteps DEF AppendQuestion, PCs, Active
  <1>5. on[t] \in Threads
    BY <1>1, <1>4 DEF Stepped, LoopInv, Active
  <1>6. row \in Message /\ row.turn = t /\ row.thread = on[t] /\ row.role = "user"
    BY <1>5 DEF Row, Message
  <1> HIDE DEF row
  <1>7. RowsInv'
    BY <1>1, <1>3, <1>4, <1>6, RowsAppended DEF Stepped, Early
  <1>8. QuestionSeen' /\ FiguresTraced'
    BY <1>3, <1>4, <1>6, <1>7, AppendedElsewhere DEF Stepped, Conversing
  <1> QED
    BY <1>2, <1>7, <1>8 DEF ChatInv, TurnsKept

\* An answer that carries no banner restates what the guard has observed.
LEMMA UnflaggedTraced ==
    ASSUME ChatInv, NEW t \in Turns, ~reply[t].outage, ~Flagged(t), ~CheckRaises(allowed[t]),
           NEW f \in reply[t].figures \ Bare
    PROVE  \E v \in returned[t] \ {Infinite} : Restates(f, v)
  <1>1. TurnType /\ LoopInv(t)
    BY DEF ChatInv
  <1>2. Unverified(reply[t].figures, allowed[t]) = {}
    BY DEF Flagged
  <1>3. PICK v \in allowed[t] : \E c \in Renderings(v) : Matches(f, c)
    BY <1>2 DEF Unverified
  <1>4. v \in returned[t] \ {Infinite} /\ v \in Nat
    BY <1>1 DEF LoopInv, TurnType, Quantities, CheckRaises
  <1>5. reply[t].figures \in Figures
    BY <1>1 DEF TurnType, Answers
  <1>6. f \in Nat
    BY <1>5, FiguresAreNat
  <1> QED
    BY <1>3, <1>4, <1>6, MatchRestates

\* The answer's row: its figures are traced to the turn's results, or it carries the flag or is the
\* outage text.
LEMMA AppendAnswerInv ==
    ASSUME ChatInv, NEW t \in Turns, AppendAnswer(t)
    PROVE  ChatInv'
  <1> DEFINE row == Row(on[t], t, "assistant", reply[t].figures, reply[t].outage, Flagged(t))
  <1>1. TurnType /\ RowsInv /\ LoopInv(t)
    BY DEF ChatInv
  <1>2. TurnsKept
    BY ClosingKeeps
  <1>3. AppendMessage(row) /\ threads' = threads /\ on' = on /\ Forget({t}) /\ returned' = returned
    BY DEF AppendAnswer
  <1>4. Stepped(t, "answer", "done")
    BY <1>1, GotoSteps DEF AppendAnswer, PCs
  <1>5. on[t] \in Threads
    BY <1>1, <1>4 DEF Stepped, LoopInv, Active
  <1>6. reply[t].figures \in Figures /\ reply[t].outage \in BOOLEAN /\ Flagged(t) \in BOOLEAN
    BY <1>1 DEF TurnType, Answers, Flagged
  <1>7. /\ row \in Message /\ row.turn = t /\ row.thread = on[t] /\ row.role = "assistant"
        /\ row.figures = reply[t].figures /\ row.outage = reply[t].outage /\ row.flagged = Flagged(t)
    BY <1>5, <1>6 DEF Row, Message, Figures
  <1> HIDE DEF row
  <1>8. RowsInv'
    BY <1>1, <1>3, <1>4, <1>7, RowsAppended DEF Stepped, Early
  <1>9. \A u \in Turns \ {t} : seen'[u] = seen[u]
    BY <1>1, <1>3, ForgetTypes
  <1>10. ~row.outage /\ ~row.flagged =>
           \A f \in row.figures \ Bare : \E v \in returned[t] \ {Infinite} : Restates(f, v)
    <2>1. ~row.outage => ~CheckRaises(allowed[t])
      BY <1>7 DEF AppendAnswer, AnnotateRaises
    <2> QED
      BY <1>7, <2>1, UnflaggedTraced
  <1>11. QuestionSeen' /\ FiguresTraced'
    BY <1>3, <1>4, <1>7, <1>8, <1>9, <1>10, AppendedElsewhere DEF Stepped, Conversing
  <1> QED
    BY <1>2, <1>8, <1>11 DEF ChatInv, TurnsKept

\* The database as the service finds it: earlier questions of one thread, no turn under way.
LEMMA ChatInvInit == Init => ChatInv
  <1> SUFFICES ASSUME Init PROVE ChatInv
    OBVIOUS
  <1>1. PICK th \in Threads : messages = [i \in 1 .. Earlier |-> Row(th, NoTurn, "user", {}, FALSE, FALSE)]
    BY DEF Init
  <1>2. /\ DOMAIN messages = 1 .. Earlier /\ Earlier \in Nat /\ NoTurn \notin Turns
        /\ lastId = Earlier /\ threads = Threads
    BY <1>1, ChatAssumption DEF Init
  <1>3. \A i \in DOMAIN messages :
          /\ messages[i] \in Message /\ messages[i].thread = th
          /\ messages[i].turn = NoTurn /\ messages[i].role = "user"
    BY <1>1, <1>2 DEF Row, Message
  <1>4. StoreType
    BY <1>2, <1>3 DEF StoreType
  <1>5. RowsInv
    BY <1>2, <1>3, <1>4 DEF RowsInv, Written
  <1>6. NoReply \in Answers /\ 0 \in 0 .. MaxLoops /\ 0 \in 0 .. MaxCalls
    BY ChatAssumption DEF NoReply, Answers, Figures
  <1>7. TurnType
    BY <1>6 DEF Init, TurnType, PCs
  <1>8. \A t \in Turns : LoopInv(t)
    BY DEF Init, LoopInv, Active
  <1>9. QuestionSeen /\ FiguresTraced
    BY <1>3 DEF Init, QuestionSeen, FiguresTraced
  <1> QED
    BY <1>5, <1>7, <1>8, <1>9 DEF ChatInv

\* Every step of a turn, a deletion and a restart keep the invariant.
LEMMA ChatInvNext == ChatInv /\ [Next]_vars => ChatInv'
  <1> SUFFICES ASSUME ChatInv, [Next]_vars PROVE ChatInv'
    OBVIOUS
  <1>1. ASSUME NEW t \in Turns, TurnStep(t) \/ \E th \in Threads : Begin(t, th)
        PROVE  ChatInv'
    BY <1>1, OpeningInv, AppendQuestionInv, ReadHistoryInv, MiddleInv, AppendAnswerInv, EndingInv
       DEF TurnStep
  <1>2. CASE UNCHANGED vars
    BY <1>2 DEF ChatInv, TurnType, LoopInv, RowsInv, StoreType, Written, QuestionSeen, FiguresTraced,
       Newer, OfThread, vars, store, turnVars
  <1> QED
    BY <1>1, <1>2, DeleteInv, EndingInv DEF Next

\* The invariant of every reachable state.
THEOREM ChatInvariant == Spec => []ChatInv
  BY ChatInvInit, ChatInvNext, PTL DEF Spec

-----------------------------------------------------------------------------
(* The properties of ChatTurns.                                            *)

\* The type invariant, the bound on the tool loop included.
THEOREM ChatTypeCorrect == Spec => []TypeOK
  <1>1. ChatInv => TypeOK
    BY DEF ChatInv, RowsInv, StoreType, TurnType, LoopInv, PCs, TypeOK
  <1> QED
    BY <1>1, ChatInvariant, PTL

\* An answer without a banner states only figures that tools returned to its own
\* turn, for every figure, tolerance and scale of the guard.
THEOREM GuardCorrect == Spec => []FiguresTraced
  <1>1. ChatInv => FiguresTraced
    BY DEF ChatInv
  <1> QED
    BY <1>1, ChatInvariant, PTL

\* The bounded history still holds the question unless the other turns, however many,
\* have filled the whole window after it: for any limit, none and negative ones included.
THEOREM QuestionCorrect == Spec => []QuestionSeen
  <1>1. ChatInv => QuestionSeen
    BY DEF ChatInv
  <1> QED
    BY <1>1, ChatInvariant, PTL

\* No message outlives its thread, with deletions at any point of any turn.
THEOREM CascadeCorrect == Spec => []NoOrphans
  <1>1. ChatInv => NoOrphans
    BY DEF ChatInv, RowsInv, StoreType, NoOrphans
  <1> QED
    BY <1>1, ChatInvariant, PTL
=============================================================================
