-------------------------- MODULE RescueSubmission --------------------------
(***************************************************************************)
(* One rescue on its way to the chain: Submitter.submit                    *)
(* (backend/app/core/submitter.py) run through ChainClient.call            *)
(* (backend/app/chain/client.py), against the keeper's account, the        *)
(* mempool and the vault's used nonces.                                    *)
(*                                                                         *)
(* There is at most one submission per borrower in the process             *)
(* (SingleFlight, which ProtectionService implements), so the state of a   *)
(* submission is indexed by the borrower.  stage[b] is the await at which  *)
(* it is suspended:                                                        *)
(*                                                                         *)
(*   "idle"       no submission; the lock is free                          *)
(*   "simulated"  the dry run passed, its answer is on the way             *)
(*   "count"      get_transaction_count                                    *)
(*   "build"      chain_id / build_transaction (estimates gas)             *)
(*   "send"       send_raw_transaction                                     *)
(*   "receipt"    wait_for_transaction_receipt, 120 s                      *)
(*   "fallback"   approve and repay, sent from the borrower's own account  *)
(*   "repaid"     wait_for_transaction_receipt of the repay                *)
(*   "reread"     get_user_account_data after a status 1                   *)
(*                                                                         *)
(* _send is passed to ChainClient.call, which runs it again from the start *)
(* after a transport error, on the same or the next endpoint.              *)
(***************************************************************************)
EXTENDS Integers, FiniteSets

CONSTANTS
    Borrowers,
    Mandates,
    Owner,        \* Owner[m]: the borrower that signed mandate m
    NoMandate,
    Bids,         \* fees build_transaction may fill in
    MaxTries,     \* endpoints * rpc_max_retries: runs of _send before giving up
    MaxNonce      \* bound: keeper transactions that may be mined

ASSUME SubmissionAssumption ==
    /\ Owner \in [Mandates -> Borrowers]
    /\ NoMandate \notin Mandates
    /\ Bids \subseteq Nat /\ 0 \in Bids
    /\ MaxTries \in Nat \ {0}
    /\ MaxNonce \in Nat

VARIABLES
    (* the keeper process *)
    stage,
    mandate,      \* the mandate the submission replays
    nonce,        \* keeper nonce read at "count"
    bid,          \* fee filled in at "build"
    tries,        \* runs of _send begun by ChainClient.call
    outcome,      \* label protect() gave the last submission
    (* the chain *)
    keeperNonce,  \* the keeper's confirmed transaction count
    mempool,      \* keeper transactions waiting to be mined
    mined,        \* mined ones, with their status
    used,         \* mandates whose vault nonce is used
    repayments,   \* debt repayments of b mined since its submission began
    unlocked      \* the node signs for the borrowers' accounts (anvil)

processVars == <<stage, mandate, nonce, bid, tries, outcome>>
chainVars == <<keeperNonce, mempool, mined, used, repayments, unlocked>>
vars == <<processVars, chainVars>>

Txs == [nonce : Nat, mandate : Mandates, bid : Bids]
Receipts == [tx : Txs, status : {0, 1}]
Stages == {"idle", "simulated", "count", "build", "send", "receipt",
           "fallback", "repaid", "reread"}
InSend == {"count", "build", "send", "receipt", "fallback", "repaid"}
Outcomes == {"none", "RESTORED", "REVERTED"}

TypeOK ==
    /\ stage \in [Borrowers -> Stages]
    /\ mandate \in [Borrowers -> Mandates \cup {NoMandate}]
    /\ nonce \in [Borrowers -> Nat]
    /\ bid \in [Borrowers -> Bids]
    /\ tries \in [Borrowers -> 0..MaxTries]
    /\ outcome \in [Borrowers -> Outcomes]
    /\ keeperNonce \in Nat
    /\ mempool \subseteq Txs
    /\ mined \subseteq Receipts
    /\ used \subseteq Mandates
    /\ repayments \in [Borrowers -> Nat]
    /\ unlocked \in BOOLEAN
    /\ \A b \in Borrowers : stage[b] # "idle" => mandate[b] \in Mandates

Init ==
    /\ stage = [b \in Borrowers |-> "idle"]
    /\ mandate = [b \in Borrowers |-> NoMandate]
    /\ nonce = [b \in Borrowers |-> 0]
    /\ bid = [b \in Borrowers |-> 0]
    /\ tries = [b \in Borrowers |-> 0]
    /\ outcome = [b \in Borrowers |-> "none"]
    /\ keeperNonce = 0
    /\ mempool = {}
    /\ mined = {}
    /\ used = {}
    /\ repayments = [b \in Borrowers |-> 0]
    /\ unlocked \in BOOLEAN

-----------------------------------------------------------------------------
(* Vocabulary.                                                             *)

Goto(b, s) == stage' = [stage EXCEPT ![b] = s]

\* The transaction the submission of b has signed.
SentTx(b) == [nonce |-> nonce[b], mandate |-> mandate[b], bid |-> bid[b]]

\* submit() returned or raised, protect() labels the position and frees the lock.
Resolve(b, label) ==
    /\ Goto(b, "idle")
    /\ outcome' = [outcome EXCEPT ![b] = label]
    /\ mandate' = [mandate EXCEPT ![b] = NoMandate]
    /\ nonce' = [nonce EXCEPT ![b] = 0]
    /\ bid' = [bid EXCEPT ![b] = 0]
    /\ tries' = [tries EXCEPT ![b] = 0]

Stay == UNCHANGED <<mandate, nonce, bid, tries, outcome>>

-----------------------------------------------------------------------------
(* The submission.                                                         *)

\* simulate() evaluated the call in the present state of the chain, in which
\* the vault still accepts the mandate.
Simulate(b, m) ==
    /\ stage[b] = "idle"
    /\ Owner[m] = b
    /\ m \notin used
    /\ Goto(b, "simulated")
    /\ mandate' = [mandate EXCEPT ![b] = m]
    /\ outcome' = [outcome EXCEPT ![b] = "none"]
    /\ UNCHANGED <<nonce, bid, tries, chainVars>>

\* The answer of the dry run is back: submit() starts its first run of _send.
Start(b) ==
    /\ stage[b] = "simulated"
    /\ Goto(b, "count")
    /\ tries' = [tries EXCEPT ![b] = 1]
    /\ repayments' = [repayments EXCEPT ![b] = 0]
    /\ UNCHANGED <<mandate, nonce, bid, outcome,
                   keeperNonce, mempool, mined, used, unlocked>>

\* Mutant: the count includes the keeper's pending transactions.
GetPendingCount(b) ==
    /\ stage[b] = "count"
    /\ Goto(b, "build")
    /\ nonce' = [nonce EXCEPT ![b] = keeperNonce + Cardinality(mempool)]
    /\ UNCHANGED <<mandate, bid, tries, outcome, chainVars>>

\* The count is the confirmed one: transactions in the mempool do not show.
GetTransactionCount(b) ==
    /\ stage[b] = "count"
    /\ Goto(b, "build")
    /\ nonce' = [nonce EXCEPT ![b] = keeperNonce]
    /\ UNCHANGED <<mandate, bid, tries, outcome, chainVars>>

\* Gas estimation runs the call, so only an acceptable mandate gets through;
\* the fee follows the market.
BuildTransaction(b) ==
    /\ stage[b] = "build"
    /\ mandate[b] \notin used
    /\ Goto(b, "send")
    /\ \E fee \in Bids : bid' = [bid EXCEPT ![b] = fee]
    /\ UNCHANGED <<mandate, nonce, tries, outcome, chainVars>>

\* The node takes a transaction whose nonce is not spent and that outbids the
\* one waiting under the same nonce; otherwise it answers "nonce too low",
\* "already known" or "replacement transaction underpriced".
Accepted(tx) ==
    /\ tx.nonce >= keeperNonce
    /\ \A x \in mempool : x.nonce = tx.nonce => x.bid < tx.bid
    /\ mempool' = {x \in mempool : x.nonce # tx.nonce} \cup {tx}

SendRawTransaction(b) ==
    /\ stage[b] = "send"
    /\ Accepted(SentTx(b))
    /\ Goto(b, "receipt")
    /\ Stay
    /\ UNCHANGED <<keeperNonce, mined, used, repayments, unlocked>>

\* Mutant: any receipt counts as a rescue.
ReceiptIgnoresStatus(b) ==
    /\ stage[b] = "receipt"
    /\ \E r \in mined : r.tx = SentTx(b)
    /\ Goto(b, "reread")
    /\ Stay
    /\ UNCHANGED chainVars

\* The receipt is there.  Status 0 ends submit() without the re-read.
ReceiptArrives(b) ==
    /\ stage[b] = "receipt"
    /\ \E r \in mined :
          /\ r.tx = SentTx(b)
          /\ \/ r.status = 1 /\ Goto(b, "reread") /\ Stay
             \/ r.status = 0 /\ Resolve(b, "REVERTED")
    /\ UNCHANGED chainVars

\* TimeExhausted after 120 s: not retried, not a fallback trigger, so it ends in
\* protect()'s except branch while the transaction is still pending.
ReceiptTimeout(b) ==
    /\ stage[b] = "receipt"
    /\ \A r \in mined : r.tx # SentTx(b)
    /\ Resolve(b, "REVERTED")
    /\ UNCHANGED chainVars

\* Web3RPCError or ContractLogicError in the try block: any JSON-RPC error
\* answer, a nonce error or a revert at gas estimation included.
FallbackTriggered(b) ==
    /\ stage[b] \in {"count", "build", "send", "receipt"}
    /\ Goto(b, "fallback")
    /\ Stay
    /\ UNCHANGED chainVars

\* approve and repay are accepted and mined: only a node that holds the
\* borrower's key takes them.
FallbackRepay(b) ==
    /\ stage[b] = "fallback"
    /\ unlocked
    /\ Goto(b, "repaid")
    /\ repayments' = [repayments EXCEPT ![b] = @ + 1]
    /\ Stay
    /\ UNCHANGED <<keeperNonce, mempool, mined, used, unlocked>>

FallbackReceipt(b) ==
    /\ stage[b] = "repaid"
    /\ Goto(b, "reread")
    /\ Stay
    /\ UNCHANGED chainVars

\* An error raised inside the handler itself is not handled again; a repayment whose
\* receipt has status 0 ends the submission in the same way.
FallbackRaised(b) ==
    /\ stage[b] \in {"fallback", "repaid"}
    /\ Resolve(b, "REVERTED")
    /\ UNCHANGED chainVars

\* Mutant: the retries are not counted.
TransportErrorUncounted(b) ==
    /\ stage[b] \in InSend
    /\ Goto(b, "count")
    /\ Stay
    /\ UNCHANGED chainVars

\* Mutant: range(1, max_retries + 2) runs _send once too often.
TransportErrorOneMore(b) ==
    /\ stage[b] \in InSend
    /\ tries[b] <= MaxTries
    /\ Goto(b, "count")
    /\ tries' = [tries EXCEPT ![b] = @ + 1]
    /\ UNCHANGED <<mandate, nonce, bid, outcome, chainVars>>

\* A timeout or connection error anywhere in _send; a request that was already
\* delivered has its effect.
TransportError(b) ==
    /\ stage[b] \in InSend
    /\ \/ UNCHANGED chainVars
       \/ /\ stage[b] = "send"
          /\ Accepted(SentTx(b))
          /\ UNCHANGED <<keeperNonce, mined, used, repayments, unlocked>>
    /\ IF tries[b] < MaxTries
         THEN /\ Goto(b, "count")
              /\ tries' = [tries EXCEPT ![b] = @ + 1]
              /\ nonce' = [nonce EXCEPT ![b] = 0]
              /\ bid' = [bid EXCEPT ![b] = 0]
              /\ UNCHANGED <<mandate, outcome>>
         ELSE Resolve(b, "REVERTED")          \* ChainClientError

Reread(b) ==
    /\ stage[b] = "reread"
    /\ Resolve(b, "RESTORED")
    /\ UNCHANGED chainVars

\* get_user_account_data raised: protect()'s except branch labels the rescue.
RereadRaised(b) ==
    /\ stage[b] = "reread"
    /\ Resolve(b, "REVERTED")
    /\ UNCHANGED chainVars

SubmissionStep(b) ==
    \/ Start(b)
    \/ GetTransactionCount(b)
    \/ BuildTransaction(b)
    \/ SendRawTransaction(b)
    \/ ReceiptArrives(b)
    \/ ReceiptTimeout(b)
    \/ FallbackTriggered(b)
    \/ FallbackRepay(b)
    \/ FallbackReceipt(b)
    \/ FallbackRaised(b)
    \/ TransportError(b)
    \/ Reread(b)
    \/ RereadRaised(b)

-----------------------------------------------------------------------------
(* The chain and the process around the submission.                        *)

\* The next keeper transaction is mined.  executeProtection succeeds only with
\* an unused mandate; whatever else it checks may fail.
Mine(tx, status) ==
    /\ keeperNonce < MaxNonce
    /\ tx.nonce = keeperNonce
    /\ status = 1 => tx.mandate \notin used
    /\ keeperNonce' = keeperNonce + 1
    /\ mempool' = {x \in mempool : x.nonce # tx.nonce}
    /\ mined' = mined \cup {[tx |-> tx, status |-> status]}
    /\ IF status = 1
         THEN /\ used' = used \cup {tx.mandate}
              /\ repayments' = [repayments EXCEPT ![Owner[tx.mandate]] = @ + 1]
         ELSE UNCHANGED <<used, repayments>>
    /\ UNCHANGED <<processVars, unlocked>>

\* The process is replaced; locks and labels are gone, the mempool is not.
Restart ==
    /\ stage' = [b \in Borrowers |-> "idle"]
    /\ mandate' = [b \in Borrowers |-> NoMandate]
    /\ nonce' = [b \in Borrowers |-> 0]
    /\ bid' = [b \in Borrowers |-> 0]
    /\ tries' = [b \in Borrowers |-> 0]
    /\ outcome' = [b \in Borrowers |-> "none"]
    /\ UNCHANGED chainVars

Next ==
    \/ \E b \in Borrowers, m \in Mandates : Simulate(b, m)
    \/ \E b \in Borrowers : SubmissionStep(b)
    \/ \E tx \in mempool, status \in {0, 1} : Mine(tx, status)
    \/ Restart

Spec == Init /\ [][Next]_vars

\* Requests and receipt waits time out, so a suspended submission moves on.
\* Nothing is owed by the chain.
FairSpec == Spec /\ \A b \in Borrowers : WF_vars(SubmissionStep(b))

-----------------------------------------------------------------------------
(* Safety.                                                                 *)

\* The keeper's confirmed count is the nonce of every transaction it sends, so
\* at most one keeper transaction waits to be mined, whatever the number of
\* borrowers, retries and restarts: rescues of different borrowers displace or
\* refuse each other instead of queueing.
OneKeeperTxPending ==
    /\ \A tx \in mempool : tx.nonce = keeperNonce
    /\ \A x, y \in mempool : x = y

\* Nothing is labelled RESTORED unless a repayment of that borrower was mined
\* after its submission began: the label never rests on a stale receipt.
RestoredMeansRepaid ==
    \A b \in Borrowers : outcome[b] = "RESTORED" => repayments[b] > 0

\* Every submission is resolved, whatever the chain does.
SubmissionResolves == \A b \in Borrowers : stage[b] = "count" ~> stage[b] = "idle"

-----------------------------------------------------------------------------
(* What the documentation says and the code does not do.                   *)

\* FR-16: "While a rescue tx for a borrower is submitted and unconfirmed, the
\* system SHALL NOT submit another rescue for that borrower".
PendingFor(b) == {tx \in mempool : Owner[tx.mandate] = b}
NoSecondBroadcast ==
    [][\A b \in Borrowers :
         PendingFor(b) # {} => ~(stage[b] = "send" /\ stage'[b] = "receipt")]_vars
=============================================================================
