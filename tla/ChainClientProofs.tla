------------------------- MODULE ChainClientProofs -------------------------
(***************************************************************************)
(* Proofs about ChainClient, for any number of concurrent calls, endpoints *)
(* and retries.                                                            *)
(***************************************************************************)
EXTENDS ChainClient, TLAPS

-----------------------------------------------------------------------------
(* The rotation.                                                           *)

\* One turn around the list is all the modulus ever takes off.
LEMMA WrapOnce ==
  ASSUME NEW n \in Nat \ {0}, NEW x \in 0 .. 2 * n - 1
  PROVE  x % n = IF x < n THEN x ELSE x - n
  OBVIOUS

\* The o-th endpoint from the active one is an endpoint.
LEMMA RotatedType ==
  ASSUME active \in Indices, NEW o \in Indices
  PROVE  Rotated(o) \in Indices
<1>1. active + o \in 0 .. 2 * Endpoints - 1
  BY ClientAssumption DEF Indices
<1> QED
  BY <1>1, WrapOnce, ClientAssumption DEF Rotated, Indices

\* The rotation begins at the active endpoint.
LEMMA RotatedFirst ==
  ASSUME active \in Indices
  PROVE  Rotated(0) = active
<1>1. active + 0 \in 0 .. 2 * Endpoints - 1
  BY ClientAssumption DEF Indices
<1> QED
  BY <1>1, WrapOnce, ClientAssumption DEF Rotated, Indices

\* A full turn meets every endpoint.
LEMMA RotationCovers ==
  ASSUME active \in Indices
  PROVE  {Rotated(o) : o \in Indices} = Indices
<1>1. ASSUME NEW i \in Indices PROVE \E o \in Indices : Rotated(o) = i
  <2> DEFINE o == IF i >= active THEN i - active ELSE i - active + Endpoints
  <2>1. o \in Indices /\ active + o \in 0 .. 2 * Endpoints - 1
    BY ClientAssumption DEF Indices
  <2>2. Rotated(o) = i
    BY <2>1, WrapOnce, ClientAssumption DEF Rotated, Indices
  <2> QED
    BY <2>1, <2>2
<1> QED
  BY <1>1, RotatedType

-----------------------------------------------------------------------------
(* Types.                                                                  *)

\* Every step of the client keeps the types, the index of the endpoint included.
LEMMA NextTypeOK == TypeOK /\ [Next]_vars => TypeOK'
<1> SUFFICES ASSUME TypeOK, [Next]_vars PROVE TypeOK'
  OBVIOUS
<1> USE ClientAssumption DEF TypeOK, Goto, Return, TurnTo, callVars, Outcomes
<1>1. 0 \in Indices /\ 1 \in 1 .. MaxRetries
  BY DEF Indices
<1>2. ASSUME NEW c \in Callers, Begin(c) PROVE TypeOK'
  BY <1>1, <1>2, RotatedType DEF Begin
<1>3. ASSUME NEW c \in Callers, Succeeds(c) PROVE TypeOK'
  BY <1>3 DEF Succeeds
<1>4. ASSUME NEW c \in Callers, Raises(c) PROVE TypeOK'
  BY <1>4 DEF Raises
<1>5. ASSUME NEW c \in Callers, Fails(c) PROVE TypeOK'
  BY <1>5 DEF Fails
<1>6. ASSUME NEW c \in Callers, Retry(c) PROVE TypeOK'
  BY <1>6 DEF Retry
<1>7. ASSUME NEW c \in Callers, FailOver(c) PROVE TypeOK'
  <2>1. offset[c] + 1 \in Indices
    BY <1>7 DEF FailOver, Indices
  <2> QED
    BY <1>1, <1>7, <2>1, RotatedType DEF FailOver
<1>8. ASSUME NEW c \in Callers, Exhausted(c) PROVE TypeOK'
  BY <1>8 DEF Exhausted
<1>9. CASE Outage
  BY <1>9 DEF Outage
<1>10. CASE UNCHANGED vars
  BY <1>10 DEF vars
<1> HIDE DEF TypeOK
<1> QED
  BY <1>2, <1>3, <1>4, <1>5, <1>6, <1>7, <1>8, <1>9, <1>10 DEF Next, CallStep

\* The client stays within its list of endpoints and its number of retries.
THEOREM ClientTypeCorrect == Spec => []TypeOK
<1>1. Init => TypeOK
  BY ClientAssumption DEF Init, TypeOK, Indices, Outcomes
<1> QED
  BY <1>1, NextTypeOK, PTL DEF Spec

-----------------------------------------------------------------------------
(* Exhaustion.                                                             *)

\* A call that nobody steered has asked the endpoints of its rotation so far;
\* while it is under way it has no outcome.
AskedInv ==
    \A c \in Callers :
        /\ pc[c] # "idle" => outcome[c] = "none"
        /\ pc[c] # "idle" /\ c \notin steered =>
               tried[c] = {Rotated(o) : o \in 0 .. offset[c]}
        /\ outcome[c] = "exhausted" => tried[c] = Indices \/ c \in steered

\* Steps of one call that leave the rotation and the endpoints asked alone.
LEMMA StepKeepsAsked ==
  ASSUME TypeOK, AskedInv, NEW c \in Callers,
         Raises(c) \/ Fails(c) \/ Retry(c)
  PROVE  AskedInv'
<1> USE DEF AskedInv, TypeOK, Goto, Return, callVars, Rotated
<1>1. CASE Raises(c)
  BY <1>1 DEF Raises
<1>2. CASE Fails(c)
  BY <1>2 DEF Fails
<1>3. CASE Retry(c)
  BY <1>3 DEF Retry
<1> QED
  BY <1>1, <1>2, <1>3

\* ChainClientError is raised after every endpoint was asked, unless a concurrent
\* call moved _active under the call: nothing else makes a call skip an endpoint.
THEOREM ExhaustionCorrect == Spec => []UnsteeredAskedAll
<1>1. Init => AskedInv
  BY DEF Init, AskedInv
<1>2. TypeOK /\ AskedInv /\ [Next]_vars => AskedInv'
  <2> SUFFICES ASSUME TypeOK, AskedInv, [Next]_vars PROVE AskedInv'
    OBVIOUS
  <2>1. ASSUME NEW c \in Callers, Begin(c) PROVE AskedInv'
    <3>1. 0 .. 0 = {0}
      OBVIOUS
    <3>2. {Rotated(o) : o \in 0 .. 0} = {active}
      BY <3>1, RotatedFirst DEF TypeOK
    <3>3. /\ active' = active /\ offset' = [offset EXCEPT ![c] = 0]
          /\ tried' = [tried EXCEPT ![c] = {active}]
          /\ outcome' = [outcome EXCEPT ![c] = "none"]
          /\ pc' = [pc EXCEPT ![c] = "trying"] /\ steered' = steered \ {c}
      BY <2>1 DEF Begin, TurnTo, Goto
    <3>4. (tried[c] = {Rotated(o) : o \in 0 .. offset[c]})'
      BY <3>2, <3>3 DEF TypeOK, Rotated
    <3> QED
      BY <3>3, <3>4 DEF TypeOK, AskedInv, Rotated
  <2>2. ASSUME NEW c \in Callers, Succeeds(c) PROVE AskedInv'
    <3>1. /\ outcome' = [outcome EXCEPT ![c] = "answered"]
          /\ pc' = [pc EXCEPT ![c] = "idle"]
          /\ tried' = tried /\ offset' = offset
          /\ \/ active' = active /\ steered' = steered
             \/ steered' = steered \cup (Callers \ {c})
      BY <2>2 DEF Succeeds, Return, Goto, callVars
    <3> QED
      BY <3>1 DEF TypeOK, AskedInv, Rotated
  <2>3. ASSUME NEW c \in Callers, FailOver(c) PROVE AskedInv'
    <3> DEFINE n == offset[c] + 1
    <3>1. /\ active' = active /\ offset' = [offset EXCEPT ![c] = n]
          /\ tried' = [tried EXCEPT ![c] = @ \cup {Rotated(n)}]
          /\ outcome' = outcome /\ pc' = [pc EXCEPT ![c] = "trying"]
          /\ steered' = steered /\ pc[c] = "asleep"
      BY <2>3 DEF FailOver, TurnTo, Goto
    <3>2. 0 .. n = (0 .. offset[c]) \cup {n}
      BY DEF TypeOK, Indices
    <3>3. c \notin steered => (tried[c] = {Rotated(o) : o \in 0 .. offset[c]})'
      BY <3>1, <3>2 DEF TypeOK, AskedInv, Rotated
    <3> QED
      BY <3>1, <3>3 DEF TypeOK, AskedInv, Rotated
  <2>4. ASSUME NEW c \in Callers, Exhausted(c) PROVE AskedInv'
    <3>0. offset[c] = Endpoints - 1
      <4>1. offset[c] \in Int
        BY DEF TypeOK, Indices
      <4> QED
        BY <2>4, <4>1, ClientAssumption DEF Exhausted
    <3>1. 0 .. offset[c] = Indices
      BY <3>0 DEF Indices
    <3>2. c \notin steered => tried[c] = Indices
      BY <2>4, <3>1, RotationCovers DEF AskedInv, TypeOK, Exhausted
    <3>3. /\ outcome' = [outcome EXCEPT ![c] = "exhausted"]
          /\ pc' = [pc EXCEPT ![c] = "idle"]
          /\ tried' = tried /\ offset' = offset /\ active' = active /\ steered' = steered
      BY <2>4 DEF Exhausted, Return, Goto, callVars
    <3> QED
      BY <3>2, <3>3 DEF TypeOK, AskedInv, Rotated
  <2>5. CASE Outage
    BY <2>5 DEF Outage, AskedInv, Rotated, callVars
  <2>6. CASE UNCHANGED vars
    BY <2>6 DEF vars, callVars, AskedInv, Rotated
  <2> QED
    BY <2>1, <2>2, <2>3, <2>4, <2>5, <2>6, StepKeepsAsked DEF Next, CallStep
<1>3. AskedInv => UnsteeredAskedAll
  BY DEF AskedInv, UnsteeredAskedAll
<1> QED
  BY <1>1, <1>2, <1>3, ClientTypeCorrect, PTL DEF Spec
=============================================================================
