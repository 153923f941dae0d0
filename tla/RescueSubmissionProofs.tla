----------------------- MODULE RescueSubmissionProofs -----------------------
(***************************************************************************)
(* Proofs about RescueSubmission, for any set of borrowers and mandates    *)
(* and any number of retries.                                              *)
(***************************************************************************)
EXTENDS RescueSubmission, TLAPS

(***************************************************************************)
(* Typing.                                                                 *)
(***************************************************************************)

\* A resolved submission leaves well-typed process state.
LEMMA ResolveType ==
  ASSUME TypeOK, NEW b \in Borrowers, NEW label \in Outcomes, Resolve(b, label)
  PROVE  /\ stage' \in [Borrowers -> Stages]
         /\ mandate' \in [Borrowers -> Mandates \cup {NoMandate}]
         /\ nonce' \in [Borrowers -> Nat]
         /\ bid' \in [Borrowers -> Bids]
         /\ tries' \in [Borrowers -> 0..MaxTries]
         /\ outcome' \in [Borrowers -> Outcomes]
         /\ \A a \in Borrowers : stage'[a] # "idle" => mandate'[a] \in Mandates
  BY SubmissionAssumption DEF TypeOK, Resolve, Goto, Stages

\* A signed transaction is a transaction.
LEMMA SentTxType ==
  ASSUME TypeOK, NEW b \in Borrowers, stage[b] # "idle"
  PROVE  SentTx(b) \in Txs
  BY DEF TypeOK, SentTx, Txs

\* Every step keeps the state well typed.
LEMMA NextTypeOK == TypeOK /\ [Next]_vars => TypeOK'
<1> SUFFICES ASSUME TypeOK, [Next]_vars PROVE TypeOK'
  OBVIOUS
<1> USE SubmissionAssumption DEF chainVars, Goto, Stay
<1>1. ASSUME NEW b \in Borrowers, NEW m \in Mandates, Simulate(b, m) PROVE TypeOK'
  BY <1>1 DEF TypeOK, Simulate, Stages, Outcomes
<1>2. ASSUME NEW b \in Borrowers, Start(b) PROVE TypeOK'
  BY <1>2 DEF TypeOK, Start, Stages
<1>3. ASSUME NEW b \in Borrowers, GetTransactionCount(b) PROVE TypeOK'
  BY <1>3 DEF TypeOK, GetTransactionCount, Stages
<1>4. ASSUME NEW b \in Borrowers, BuildTransaction(b) PROVE TypeOK'
  BY <1>4 DEF TypeOK, BuildTransaction, Stages
<1>5. ASSUME NEW b \in Borrowers, SendRawTransaction(b) PROVE TypeOK'
  <2>1. SentTx(b) \in Txs
    BY <1>5, SentTxType DEF SendRawTransaction
  <2> QED
    BY <1>5, <2>1 DEF TypeOK, SendRawTransaction, Accepted, Stages
<1>6. ASSUME NEW b \in Borrowers, ReceiptArrives(b) PROVE TypeOK'
  <2>1. CASE Resolve(b, "REVERTED")
    BY <1>6, <2>1, ResolveType DEF TypeOK, ReceiptArrives, Outcomes
  <2>2. CASE Goto(b, "reread") /\ Stay
    BY <1>6, <2>2 DEF TypeOK, ReceiptArrives, Stages
  <2> QED BY <1>6, <2>1, <2>2 DEF ReceiptArrives
<1>7. ASSUME NEW b \in Borrowers,
             ReceiptTimeout(b) \/ FallbackRaised(b) \/ RereadRaised(b) \/ Reread(b)
      PROVE  TypeOK'
  <2>1. \E label \in Outcomes : Resolve(b, label)
    BY <1>7 DEF ReceiptTimeout, FallbackRaised, RereadRaised, Reread, Outcomes
  <2>2. UNCHANGED chainVars
    BY <1>7 DEF ReceiptTimeout, FallbackRaised, RereadRaised, Reread
  <2> QED BY <2>1, <2>2, ResolveType DEF TypeOK
<1>8. ASSUME NEW b \in Borrowers, FallbackTriggered(b) \/ FallbackReceipt(b)
      PROVE  TypeOK'
  BY <1>8 DEF TypeOK, FallbackTriggered, FallbackReceipt, Stages
<1>9. ASSUME NEW b \in Borrowers, FallbackRepay(b) PROVE TypeOK'
  BY <1>9 DEF TypeOK, FallbackRepay, Stages
<1>10. ASSUME NEW b \in Borrowers, TransportError(b) PROVE TypeOK'
  <2>1. /\ keeperNonce' \in Nat /\ mined' \subseteq Receipts /\ used' \subseteq Mandates
        /\ repayments' \in [Borrowers -> Nat] /\ unlocked' \in BOOLEAN
    BY <1>10 DEF TypeOK, TransportError
  <2>2. mempool' \subseteq Txs
    <3>1. stage[b] # "idle"
      BY <1>10 DEF TransportError, InSend
    <3> QED
      BY <1>10, <3>1, SentTxType DEF TypeOK, TransportError, Accepted
  <2>3. CASE tries[b] < MaxTries
    <3>1. /\ stage' = [stage EXCEPT ![b] = "count"]
          /\ tries' = [tries EXCEPT ![b] = @ + 1]
          /\ nonce' = [nonce EXCEPT ![b] = 0]
          /\ bid' = [bid EXCEPT ![b] = 0]
          /\ UNCHANGED <<mandate, outcome>>
          /\ stage[b] # "idle"
      BY <1>10, <2>3 DEF TransportError, InSend
    <3>2. tries[b] + 1 \in 0..MaxTries
      BY <2>3 DEF TypeOK
    <3>3. tries' \in [Borrowers -> 0..MaxTries]
      BY <3>1, <3>2 DEF TypeOK
    <3> QED
      BY <2>1, <2>2, <3>1, <3>3 DEF TypeOK, Stages
  <2>4. CASE ~(tries[b] < MaxTries)
    <3>1. Resolve(b, "REVERTED")
      BY <1>10, <2>4 DEF TransportError
    <3> QED BY <2>1, <2>2, <3>1, ResolveType DEF TypeOK, Outcomes
  <2> QED BY <2>3, <2>4
<1>11. ASSUME NEW tx \in mempool, NEW status \in {0, 1}, Mine(tx, status) PROVE TypeOK'
  <2>1. tx \in Txs /\ [tx |-> tx, status |-> status] \in Receipts
    BY DEF TypeOK, Receipts
  <2> QED
    BY <1>11, <2>1 DEF TypeOK, Mine, processVars, Txs
<1>12. CASE Restart
  BY <1>12 DEF TypeOK, Restart, Stages, Outcomes
<1>13. CASE UNCHANGED vars
  BY <1>13 DEF TypeOK, vars, processVars
<1> QED
  BY <1>1, <1>2, <1>3, <1>4, <1>5, <1>6, <1>7, <1>8, <1>9, <1>10, <1>11, <1>12, <1>13
  DEF Next, SubmissionStep

\* Type correctness of submissions and chain.
THEOREM SubmissionTypeCorrect == Spec => []TypeOK
<1>1. Init => TypeOK
  BY SubmissionAssumption DEF Init, TypeOK, Stages, Outcomes
<1> QED
  BY <1>1, NextTypeOK, PTL DEF Spec

(***************************************************************************)
(* One keeper transaction at a time.  The property is inductive only       *)
(* together with the fact behind it: no submission holds a nonce beyond    *)
(* the confirmed count, because the count is all it ever asks for.         *)
(***************************************************************************)
NonceInv == OneKeeperTxPending /\ \A b \in Borrowers : nonce[b] <= keeperNonce

\* A node that accepts a transaction of the keeper ends up with that one alone.
LEMMA AcceptedAlone ==
  ASSUME TypeOK, NonceInv, NEW b \in Borrowers, stage[b] # "idle", Accepted(SentTx(b)),
         keeperNonce' = keeperNonce
  PROVE  OneKeeperTxPending'
<1>1. SentTx(b) \in Txs /\ SentTx(b).nonce = nonce[b]
  BY SentTxType DEF SentTx
<1>2. nonce[b] = keeperNonce
  BY <1>1 DEF Accepted, NonceInv, TypeOK
<1>3. mempool' = {SentTx(b)}
  BY <1>1, <1>2 DEF Accepted, NonceInv, OneKeeperTxPending
<1> QED
  BY <1>1, <1>2, <1>3 DEF OneKeeperTxPending

\* At most one keeper transaction is pending, for any number of borrowers.
THEOREM KeeperSerialised == Spec => []OneKeeperTxPending
<1>1. Init => NonceInv
  BY DEF Init, NonceInv, OneKeeperTxPending
<1>2. TypeOK /\ NonceInv /\ [Next]_vars => NonceInv'
  <2> SUFFICES ASSUME TypeOK, NonceInv, [Next]_vars PROVE NonceInv'
    OBVIOUS
  <2>1. ASSUME NEW b \in Borrowers, SendRawTransaction(b) PROVE NonceInv'
    <3>1. OneKeeperTxPending'
      BY <2>1, AcceptedAlone DEF SendRawTransaction
    <3> QED BY <2>1, <3>1 DEF SendRawTransaction, Stay, NonceInv
  <2>2. ASSUME NEW b \in Borrowers, TransportError(b) PROVE NonceInv'
    <3>1. OneKeeperTxPending'
      <4>1. CASE UNCHANGED chainVars
        BY <4>1 DEF chainVars, NonceInv, OneKeeperTxPending
      <4>2. CASE stage[b] = "send" /\ Accepted(SentTx(b)) /\ keeperNonce' = keeperNonce
        BY <4>2, AcceptedAlone
      <4> QED BY <2>2, <4>1, <4>2 DEF TransportError
    <3>2. keeperNonce' = keeperNonce /\ nonce' = [nonce EXCEPT ![b] = 0]
      BY <2>2 DEF TransportError, chainVars, Resolve
    <3>3. \A a \in Borrowers : nonce'[a] <= keeperNonce'
      BY <3>2 DEF NonceInv, TypeOK
    <3> QED BY <3>1, <3>3 DEF NonceInv
  <2>3. ASSUME NEW tx \in mempool, NEW status \in {0, 1}, Mine(tx, status)
        PROVE  NonceInv'
    <3>1. mempool' = {} /\ keeperNonce' = keeperNonce + 1 /\ nonce' = nonce
      BY <2>3 DEF Mine, NonceInv, OneKeeperTxPending, processVars
    <3> QED BY <3>1 DEF NonceInv, OneKeeperTxPending, TypeOK
  <2>4. ASSUME mempool' = mempool, keeperNonce' = keeperNonce,
               \A a \in Borrowers : nonce'[a] \in {0, nonce[a], keeperNonce}
        PROVE  NonceInv'
    BY <2>4 DEF NonceInv, OneKeeperTxPending, TypeOK
  <2>5. CASE \/ \E b \in Borrowers, m \in Mandates : Simulate(b, m)
             \/ \E b \in Borrowers : Start(b) \/ GetTransactionCount(b)
                                      \/ BuildTransaction(b) \/ FallbackTriggered(b)
                                      \/ FallbackRepay(b) \/ FallbackReceipt(b)
             \/ Restart
             \/ UNCHANGED vars
    BY <2>4, <2>5
    DEF Simulate, Start, GetTransactionCount, BuildTransaction, FallbackTriggered,
        FallbackRepay, FallbackReceipt, Restart, vars, processVars, chainVars, Stay, TypeOK
  <2>6. ASSUME NEW b \in Borrowers,
               ReceiptArrives(b) \/ ReceiptTimeout(b) \/ FallbackRaised(b)
                 \/ Reread(b) \/ RereadRaised(b)
        PROVE  NonceInv'
    BY <2>4, <2>6
    DEF ReceiptArrives, ReceiptTimeout, FallbackRaised, Reread, RereadRaised, Resolve,
        chainVars, Stay, TypeOK
  <2> QED
    BY <2>1, <2>2, <2>3, <2>5, <2>6 DEF Next, SubmissionStep
<1> QED
  BY <1>1, <1>2, SubmissionTypeCorrect, PTL DEF Spec, NonceInv

(***************************************************************************)
(* RESTORED is never claimed without a repayment.  A receipt is trusted by *)
(* its transaction, so the argument is about which receipts can exist: all *)
(* mined nonces are below the confirmed count, a submission's nonce was    *)
(* the confirmed count after it began, hence a receipt under its nonce is  *)
(* younger than the submission and its repayment has been counted.         *)
(***************************************************************************)
Signed == {"build", "send", "receipt"}

LabelInv ==
    /\ \A r \in mined : r.tx.nonce < keeperNonce
    /\ \A b \in Borrowers :
          /\ stage[b] # "idle" => Owner[mandate[b]] = b /\ outcome[b] = "none"
          /\ stage[b] \in Signed =>
                \A r \in mined : r.tx.nonce = nonce[b] /\ r.tx.mandate = mandate[b]
                                   /\ r.status = 1 => repayments[b] > 0
          /\ stage[b] \in {"repaid", "reread"} => repayments[b] > 0
          /\ outcome[b] = "RESTORED" => repayments[b] > 0

\* A step of one submission that touches only that submission's state keeps
\* the invariant if it keeps that borrower's part of it.
LEMMA LabelLocal ==
  ASSUME TypeOK, LabelInv, NEW b \in Borrowers,
         keeperNonce' = keeperNonce, mined' = mined,
         \A a \in Borrowers \ {b} :
            /\ stage'[a] = stage[a] /\ mandate'[a] = mandate[a]
            /\ nonce'[a] = nonce[a] /\ outcome'[a] = outcome[a]
            /\ repayments'[a] = repayments[a],
         stage'[b] # "idle" => Owner[mandate'[b]] = b /\ outcome'[b] = "none",
         stage'[b] \in Signed =>
            \A r \in mined : r.tx.nonce = nonce'[b] /\ r.tx.mandate = mandate'[b]
                               /\ r.status = 1 => repayments'[b] > 0,
         stage'[b] \in {"repaid", "reread"} => repayments'[b] > 0,
         outcome'[b] = "RESTORED" => repayments'[b] > 0
  PROVE  LabelInv'
  BY DEF LabelInv

\* Resolving a submission keeps the invariant if RESTORED is earned.
LEMMA LabelResolve ==
  ASSUME TypeOK, LabelInv, NEW b \in Borrowers, NEW label \in Outcomes,
         Resolve(b, label), label = "RESTORED" => repayments[b] > 0,
         keeperNonce' = keeperNonce, mined' = mined, repayments' = repayments
  PROVE  LabelInv'
<1>1. /\ stage'[b] = "idle" /\ outcome'[b] = label
      /\ \A a \in Borrowers \ {b} :
            /\ stage'[a] = stage[a] /\ mandate'[a] = mandate[a]
            /\ nonce'[a] = nonce[a] /\ outcome'[a] = outcome[a]
  BY DEF Resolve, Goto, TypeOK
<1> QED BY <1>1, LabelLocal DEF Signed

\* No RESTORED label without a repayment mined after the submission began.
THEOREM RestoredIsReal == Spec => []RestoredMeansRepaid
<1>1. Init => LabelInv
  BY DEF Init, LabelInv, Signed
<1>2. TypeOK /\ LabelInv /\ [Next]_vars => LabelInv'
  <2> SUFFICES ASSUME TypeOK, LabelInv, [Next]_vars PROVE LabelInv'
    OBVIOUS
  <2> USE DEF chainVars, Goto, Stay, TypeOK
  <2>1. ASSUME NEW b \in Borrowers, NEW m \in Mandates, Simulate(b, m) PROVE LabelInv'
    BY <2>1, LabelLocal DEF Simulate, Signed
  <2>2. ASSUME NEW b \in Borrowers, Start(b) PROVE LabelInv'
    <3>1. Owner[mandate[b]] = b /\ outcome[b] = "none"
      BY <2>2 DEF Start, LabelInv
    <3> QED BY <2>2, <3>1, LabelLocal DEF Start, Signed
  <2>3. ASSUME NEW b \in Borrowers, GetTransactionCount(b) PROVE LabelInv'
    <3>1. Owner[mandate[b]] = b /\ outcome[b] = "none"
      BY <2>3 DEF GetTransactionCount, LabelInv
    <3>2. \A r \in mined : r.tx.nonce # keeperNonce
      BY DEF LabelInv, Receipts, Txs
    <3> QED BY <2>3, <3>1, <3>2, LabelLocal DEF GetTransactionCount
  <2>4. ASSUME NEW b \in Borrowers, BuildTransaction(b) \/ SendRawTransaction(b)
        PROVE  LabelInv'
    <3>1. /\ Owner[mandate[b]] = b /\ outcome[b] = "none"
          /\ \A r \in mined : r.tx.nonce = nonce[b] /\ r.tx.mandate = mandate[b]
                                /\ r.status = 1 => repayments[b] > 0
      BY <2>4 DEF BuildTransaction, SendRawTransaction, LabelInv, Signed
    <3>2. \E s \in {"send", "receipt"} : stage' = [stage EXCEPT ![b] = s]
      BY <2>4 DEF BuildTransaction, SendRawTransaction
    <3>3. UNCHANGED <<mandate, nonce, outcome, keeperNonce, mined, repayments>>
      BY <2>4 DEF BuildTransaction, SendRawTransaction
    <3> QED BY <3>1, <3>2, <3>3, LabelLocal
  <2>5. ASSUME NEW b \in Borrowers, ReceiptArrives(b) PROVE LabelInv'
    <3>1. CASE Resolve(b, "REVERTED")
      BY <2>5, <3>1, LabelResolve DEF ReceiptArrives, Outcomes
    <3>2. ASSUME NEW r \in mined, r.tx = SentTx(b), r.status = 1, Goto(b, "reread"), Stay
          PROVE  LabelInv'
      <4>1. /\ Owner[mandate[b]] = b /\ outcome[b] = "none"
            /\ repayments[b] > 0
        BY <2>5, <3>2 DEF ReceiptArrives, LabelInv, Signed, SentTx
      <4> QED BY <2>5, <3>2, <4>1, LabelLocal DEF ReceiptArrives, Signed
    <3> QED BY <2>5, <3>1, <3>2 DEF ReceiptArrives
  <2>6. ASSUME NEW b \in Borrowers,
               ReceiptTimeout(b) \/ FallbackRaised(b) \/ RereadRaised(b)
        PROVE  LabelInv'
    BY <2>6, LabelResolve DEF ReceiptTimeout, FallbackRaised, RereadRaised, Outcomes
  <2>7. ASSUME NEW b \in Borrowers, Reread(b) PROVE LabelInv'
    <3>1. repayments[b] > 0
      BY <2>7 DEF Reread, LabelInv
    <3> QED BY <2>7, <3>1, LabelResolve DEF Reread, Outcomes
  <2>8. ASSUME NEW b \in Borrowers, FallbackTriggered(b) \/ FallbackReceipt(b)
        PROVE  LabelInv'
    <3>1. /\ Owner[mandate[b]] = b /\ outcome[b] = "none"
          /\ stage[b] = "repaid" => repayments[b] > 0
      BY <2>8 DEF FallbackTriggered, FallbackReceipt, LabelInv
    <3> QED BY <2>8, <3>1, LabelLocal DEF FallbackTriggered, FallbackReceipt, Signed
  <2>9. ASSUME NEW b \in Borrowers, FallbackRepay(b) PROVE LabelInv'
    <3>1. Owner[mandate[b]] = b /\ outcome[b] = "none"
      BY <2>9 DEF FallbackRepay, LabelInv
    <3> QED BY <2>9, <3>1, LabelLocal DEF FallbackRepay, Signed
  <2>10. ASSUME NEW b \in Borrowers, TransportError(b) PROVE LabelInv'
    <3>1. UNCHANGED <<keeperNonce, mined, repayments>>
      BY <2>10 DEF TransportError
    <3>2. CASE Resolve(b, "REVERTED")
      BY <3>1, <3>2, LabelResolve DEF Outcomes
    <3>3. CASE ~Resolve(b, "REVERTED")
      <4>1. Owner[mandate[b]] = b /\ outcome[b] = "none"
        BY <2>10 DEF TransportError, LabelInv, InSend
      <4> QED BY <2>10, <3>1, <3>3, <4>1, LabelLocal DEF TransportError, Signed
    <3> QED BY <3>2, <3>3
  <2>11. ASSUME NEW tx \in mempool, NEW status \in {0, 1}, Mine(tx, status)
         PROVE  LabelInv'
    <3>1. tx \in Txs /\ tx.nonce = keeperNonce /\ keeperNonce' = keeperNonce + 1
      BY <2>11 DEF Mine
    <3>2. mined' = mined \cup {[tx |-> tx, status |-> status]}
          /\ UNCHANGED <<stage, mandate, nonce, outcome>>
      BY <2>11 DEF Mine, processVars
    <3>3. \A b \in Borrowers : repayments'[b] >= repayments[b] /\ repayments'[b] \in Nat
      BY <2>11, <3>1, SubmissionAssumption DEF Mine, Txs
    <3>4. status = 1 => repayments'[Owner[tx.mandate]] > 0
      BY <2>11, <3>1, SubmissionAssumption DEF Mine, Txs
    <3>5. \A r \in mined' : r.tx.nonce < keeperNonce'
      BY <3>1, <3>2 DEF LabelInv, Receipts, Txs
    <3>6. ASSUME NEW b \in Borrowers, stage[b] \in Signed, NEW r \in mined',
                 r.tx.nonce = nonce[b], r.tx.mandate = mandate[b], r.status = 1
          PROVE  repayments'[b] > 0
      <4>1. CASE r \in mined
        BY <3>3, <3>6, <4>1 DEF LabelInv
      <4>2. CASE r = [tx |-> tx, status |-> status]
        <5>1. Owner[tx.mandate] = b /\ status = 1
          BY <3>6, <4>2 DEF LabelInv, Signed
        <5> QED BY <3>4, <5>1
      <4> QED BY <3>2, <4>1, <4>2
    <3>7. \A b \in Borrowers : repayments[b] > 0 => repayments'[b] > 0
      BY <3>3
    <3> QED BY <3>2, <3>5, <3>6, <3>7 DEF LabelInv
  <2>12. CASE Restart
    BY <2>12 DEF Restart, LabelInv, Signed
  <2>13. CASE UNCHANGED vars
    BY <2>13 DEF vars, processVars, LabelInv
  <2> HIDE DEF TypeOK, chainVars, Goto, Stay
  <2> QED
    BY <2>1, <2>2, <2>3, <2>4, <2>5, <2>6, <2>7, <2>8, <2>9, <2>10, <2>11, <2>12, <2>13
    DEF Next, SubmissionStep
<1>3. LabelInv => RestoredMeansRepaid
  BY DEF LabelInv, RestoredMeansRepaid
<1> QED
  BY <1>1, <1>2, <1>3, SubmissionTypeCorrect, PTL DEF Spec
=============================================================================
