------------------------ MODULE LiquidationShieldVault ------------------------
(***************************************************************************)
(* The vault (contracts/src/LiquidationShieldVault.sol) and the Aave       *)
(* position it restructures: one borrower, one collateral asset, debt in   *)
(* the asset the rescue repays and debt in others.                         *)
(*                                                                         *)
(* A transaction runs alone; its steps are the calls executeProtection and *)
(* executeOperation make, in their order, and a revert at any step brings  *)
(* back the state saved when it began.  pc is the next step:               *)
(*                                                                         *)
(*   "repay" "withdraw" "swap" "residual" "cost" "health" "reclaim"        *)
(*                                                                         *)
(* Amounts are small integers; debt assets have price 1 and the collateral *)
(* asset has price `price'.  BPS and WAD are the two fixed-point scales.   *)
(***************************************************************************)
EXTENDS Integers

CONSTANTS
    Mandates,     \* RiskParams a caller may present
    NoTx,
    BPS, WAD,
    Threshold,    \* Aave's liquidation threshold, in BPS
    PremiumBps,   \* Aave's flash-loan premium, in BPS
    Prices,       \* oracle prices of the collateral
    MarketEdge,   \* by how much a swap may beat the oracle price
    MaxAmount,    \* bound: amounts the borrower and the caller may name
    MaxTime       \* bound: last block timestamp

RiskParams ==
    [nonce : Nat, base : Nat, max : Nat, cost : Nat, deadline : Nat,
     signed : BOOLEAN, allowed : BOOLEAN]

ASSUME VaultAssumption ==
    /\ Mandates \subseteq RiskParams
    /\ BPS \in Nat \ {0} /\ WAD \in Nat /\ WAD % BPS = 0
    /\ Threshold \in Nat /\ PremiumBps \in Nat
    /\ Prices \subseteq Nat /\ MarketEdge \in Nat
    /\ MaxAmount \in Nat /\ MaxTime \in Nat

Amounts == 0..MaxAmount
Nonces == {m.nonce : m \in Mandates}

VARIABLES
    debt, otherDebt,       \* the borrower's debt, in the repaid asset and elsewhere
    coll,                  \* aTokens of the borrower
    wallet,                \* collateral tokens in the borrower's wallet
    allowance,             \* aTokens the vault may move
    used,                  \* usedNonces[borrower]
    vaultDebt, vaultColl,  \* token balances of the vault
    price, clock,
    pc, tx, saved,         \* the running transaction
    executions             \* committed rescues per nonce

position == <<debt, coll, wallet, allowance, used, vaultDebt, vaultColl>>
market == <<otherDebt, price, clock>>
txVars == <<pc, tx, saved>>
vars == <<position, market, txVars, executions>>

Steps == {"repay", "withdraw", "swap", "residual", "cost", "health", "reclaim"}
Txs == [mandate : Mandates, repay : Nat, maxIn : Nat, target : Nat, in : Nat]
Snapshots == [debt : Nat, coll : Nat, wallet : Nat, allowance : Nat,
              used : SUBSET Nonces, vaultDebt : Nat, vaultColl : Nat]

TypeOK ==
    /\ debt \in Nat /\ otherDebt \in Nat /\ coll \in Nat /\ wallet \in Nat
    /\ allowance \in Nat
    /\ used \subseteq Nonces
    /\ vaultDebt \in Nat /\ vaultColl \in Nat
    /\ price \in Prices /\ clock \in Nat
    /\ pc \in Steps \cup {"idle"}
    /\ pc # "idle" => tx \in Txs /\ saved \in Snapshots
    /\ executions \in [Nonces -> Nat]

Init ==
    /\ debt \in Amounts /\ otherDebt \in {0, 1} /\ coll \in Amounts
    /\ wallet = 0 /\ allowance = 0
    /\ used = {} /\ vaultDebt = 0 /\ vaultColl = 0
    /\ price \in Prices /\ clock = 0
    /\ pc = "idle" /\ tx = NoTx /\ saved = NoTx
    /\ executions = [n \in Nonces |-> 0]

-----------------------------------------------------------------------------
(* HealthMath and Aave's figures.                                          *)

bpsToWad(bps) == bps * (WAD \div BPS)

leverageWad(d, c) == IF c = 0 THEN 0 ELSE (d * WAD) \div c

TotalDebt == debt + otherDebt
CollateralBase == coll * price

\* Aave's health factor is at least hf (WAD); without debt it is unbounded.
HealthAtLeast(c, d, hf) == d # 0 => (c * Threshold * WAD) \div (d * BPS) >= hf

\* Rounded half up.
Premium(amount) == (amount * PremiumBps + BPS \div 2) \div BPS

OutNeeded == tx.repay + Premium(tx.repay)

Smaller(a, b) == IF a <= b THEN a ELSE b

-----------------------------------------------------------------------------
(* executeProtection.                                                      *)

\* _validateParams; msg.sender is the keeper or the borrower.
ValidateParams(m) ==
    /\ clock <= m.deadline
    /\ m.nonce \notin used
    /\ m.allowed
    /\ m.signed

\* Mutant: the nonce is checked and not marked.
ExecuteProtectionUnmarked(m, repay, maxIn, target) ==
    /\ pc = "idle"
    /\ ValidateParams(m)
    /\ target \in m.base .. m.max
    /\ TotalDebt # 0
    /\ saved' = [debt |-> debt, coll |-> coll, wallet |-> wallet, allowance |-> allowance,
                 used |-> used, vaultDebt |-> vaultDebt, vaultColl |-> vaultColl]
    /\ tx' = [mandate |-> m, repay |-> repay, maxIn |-> maxIn, target |-> target, in |-> 0]
    /\ vaultDebt' = vaultDebt + repay
    /\ pc' = "repay"
    /\ UNCHANGED <<debt, coll, wallet, allowance, used, vaultColl, market, executions>>

\* The checks pass, the nonce is marked and the flash loan arrives.
ExecuteProtection(m, repay, maxIn, target) ==
    /\ pc = "idle"
    /\ ValidateParams(m)
    /\ target \in m.base .. m.max
    /\ TotalDebt # 0
    /\ saved' = [debt |-> debt, coll |-> coll, wallet |-> wallet, allowance |-> allowance,
                 used |-> used, vaultDebt |-> vaultDebt, vaultColl |-> vaultColl]
    /\ tx' = [mandate |-> m, repay |-> repay, maxIn |-> maxIn, target |-> target, in |-> 0]
    /\ used' = used \cup {m.nonce}
    /\ vaultDebt' = vaultDebt + repay
    /\ pc' = "repay"
    /\ UNCHANGED <<debt, coll, wallet, allowance, vaultColl, market, executions>>

-----------------------------------------------------------------------------
(* executeOperation, one action per numbered step.                         *)

\* Mutant: the amount asked for is booked, not the amount taken.
RepayDebtInFull ==
    /\ pc = "repay"
    /\ tx.repay > 0
    /\ debt' = debt - tx.repay
    /\ vaultDebt' = vaultDebt - tx.repay
    /\ pc' = "withdraw"
    /\ UNCHANGED <<coll, wallet, allowance, used, vaultColl, market, tx, saved, executions>>

\* Aave takes no more than the debt; what is left stays with the vault.
RepayDebt ==
    /\ pc = "repay"
    /\ LET paid == Smaller(tx.repay, debt) IN
         /\ paid > 0
         /\ debt' = debt - paid
         /\ vaultDebt' = vaultDebt - paid
    /\ pc' = "withdraw"
    /\ UNCHANGED <<coll, wallet, allowance, used, vaultColl, market, tx, saved, executions>>

\* The aToken transfer needs the allowance, the balance, and a position that
\* stays above the liquidation boundary after it.
WithdrawCollateral ==
    /\ pc = "withdraw"
    /\ tx.maxIn <= allowance /\ tx.maxIn <= coll
    /\ HealthAtLeast((coll - tx.maxIn) * price, TotalDebt, WAD)
    /\ coll' = coll - tx.maxIn
    /\ allowance' = allowance - tx.maxIn
    /\ vaultColl' = vaultColl + tx.maxIn
    /\ pc' = "swap"
    /\ UNCHANGED <<debt, wallet, used, vaultDebt, market, tx, saved, executions>>

\* exactOutputSingle: the market names its price, up to amountInMaximum.
ExecuteSwap(in) ==
    /\ pc = "swap"
    /\ in <= tx.maxIn
    /\ in * price + MarketEdge >= OutNeeded
    /\ tx' = [tx EXCEPT !.in = in]
    /\ vaultColl' = vaultColl - in
    /\ vaultDebt' = vaultDebt + OutNeeded
    /\ pc' = "residual"
    /\ UNCHANGED <<debt, coll, wallet, allowance, used, market, saved, executions>>

\* Mutant: what the swap left is not sent back.
KeepResidual ==
    /\ pc = "residual"
    /\ pc' = "cost"
    /\ UNCHANGED <<position, market, tx, saved, executions>>

\* The whole collateral balance of the vault goes to the borrower's wallet; it
\* is not supplied again.
ReturnResidual ==
    /\ pc = "residual"
    /\ wallet' = wallet + vaultColl
    /\ vaultColl' = 0
    /\ pc' = "cost"
    /\ UNCHANGED <<debt, coll, allowance, used, vaultDebt, market, tx, saved, executions>>

EnforceCost ==
    /\ pc = "cost"
    /\ tx.in * price <= (OutNeeded * (BPS + tx.mandate.cost)) \div BPS
    /\ pc' = "health"
    /\ UNCHANGED <<position, market, tx, saved, executions>>

\* Mutant: the guard only looks at the health factor.
VerifyHealthFactorAlone ==
    /\ pc = "health"
    /\ HealthAtLeast(CollateralBase, TotalDebt, bpsToWad(tx.target))
    /\ pc' = "reclaim"
    /\ UNCHANGED <<position, market, tx, saved, executions>>

VerifyHealthFactor ==
    /\ pc = "health"
    /\ HealthAtLeast(CollateralBase, TotalDebt, bpsToWad(tx.target))
    /\ TotalDebt < saved.debt + otherDebt
    /\ leverageWad(TotalDebt, CollateralBase)
         <= leverageWad(saved.debt + otherDebt, saved.coll * price)
    /\ pc' = "reclaim"
    /\ UNCHANGED <<position, market, tx, saved, executions>>

EndTx == pc' = "idle" /\ tx' = NoTx /\ saved' = NoTx

\* Aave takes the loan and the premium back and the transaction commits.
PoolReclaims ==
    /\ pc = "reclaim"
    /\ vaultDebt >= OutNeeded
    /\ vaultDebt' = vaultDebt - OutNeeded
    /\ executions' = [executions EXCEPT ![tx.mandate.nonce] = @ + 1]
    /\ EndTx
    /\ UNCHANGED <<debt, coll, wallet, allowance, used, vaultColl, market>>

\* A failed check, a refused transfer or swap, or no gas left.
Revert ==
    /\ pc # "idle"
    /\ debt' = saved.debt /\ coll' = saved.coll /\ wallet' = saved.wallet
    /\ allowance' = saved.allowance /\ used' = saved.used
    /\ vaultDebt' = saved.vaultDebt /\ vaultColl' = saved.vaultColl
    /\ EndTx
    /\ UNCHANGED <<market, executions>>

-----------------------------------------------------------------------------
(* Between transactions.                                                   *)

BorrowerApproves(a) ==
    /\ pc = "idle"
    /\ allowance' = a
    /\ UNCHANGED <<debt, coll, wallet, used, vaultDebt, vaultColl, market, txVars, executions>>

\* Interest, a loan or a repayment of the borrower's own.
DebtMoves(d) ==
    /\ pc = "idle"
    /\ debt' = d
    /\ UNCHANGED <<coll, wallet, allowance, used, vaultDebt, vaultColl, market, txVars,
                   executions>>

MarketMoves(p) ==
    /\ pc = "idle"
    /\ clock < MaxTime
    /\ price' = p
    /\ clock' = clock + 1
    /\ UNCHANGED <<position, otherDebt, txVars, executions>>

Next ==
    \/ \E m \in Mandates, repay, maxIn \in Amounts : \E target \in m.base .. m.max :
          ExecuteProtection(m, repay, maxIn, target)
    \/ RepayDebt
    \/ WithdrawCollateral
    \/ \E in \in Amounts : ExecuteSwap(in)
    \/ ReturnResidual
    \/ EnforceCost
    \/ VerifyHealthFactor
    \/ PoolReclaims
    \/ Revert
    \/ \E a \in Amounts : BorrowerApproves(a)
    \/ \E d \in Amounts : DebtMoves(d)
    \/ \E p \in Prices : MarketMoves(p)

Spec == Init /\ [][Next]_vars

-----------------------------------------------------------------------------
(* Properties.                                                             *)

Reverted ==
    /\ debt' = saved.debt /\ coll' = saved.coll /\ wallet' = saved.wallet
    /\ allowance' = saved.allowance /\ used' = saved.used
    /\ vaultDebt' = saved.vaultDebt /\ vaultColl' = saved.vaultColl

Improved ==
    /\ tx.mandate.signed
    /\ debt' < saved.debt
    /\ HealthAtLeast(coll' * price, debt' + otherDebt, bpsToWad(tx.mandate.base))
    /\ leverageWad(debt' + otherDebt, coll' * price)
         <= leverageWad(saved.debt + otherDebt, saved.coll * price)

\* FR-9 and FR-14: however a transaction ends, the position is what it was, or it
\* is less indebted, no more levered and above the floor the borrower signed.
NoWorse == [][pc # "idle" /\ pc' = "idle" => Reverted \/ Improved]_vars

\* The rescue costs the borrower what the swap took and nothing else, and that is
\* within the signed bound of what was repaid to Aave and its premium.
SpendBounded ==
    [][PoolReclaims =>
         LET spent == saved.coll + saved.wallet + saved.vaultColl - coll' - wallet' IN
           /\ spent = tx.in
           /\ spent * price <= (OutNeeded * (BPS + tx.mandate.cost)) \div BPS]_vars

\* Between transactions a nonce is used exactly when one rescue was committed
\* with it: reverts give it back, commits spend it for good.
NonceSpentOnce ==
    pc = "idle" => \A n \in Nonces : executions[n] = IF n \in used THEN 1 ELSE 0

\* PRD 4.1: "The vault never takes custody beyond the single transaction".
NoCustody == pc = "idle" => vaultColl = 0 /\ vaultDebt = 0
=============================================================================
