-------------------- MODULE LiquidationShieldVaultProofs --------------------
(***************************************************************************)
(* Proofs about LiquidationShieldVault, for any mandates, scales, fees,    *)
(* prices and amounts.                                                     *)
(***************************************************************************)
EXTENDS LiquidationShieldVault, TLAPS

-----------------------------------------------------------------------------
(* Arithmetic.                                                             *)

\* Floor division of a natural number is a natural number.
LEMMA DivNat ==
  ASSUME NEW a \in Nat, NEW b \in Nat, b > 0
  PROVE  a \div b \in Nat
  OBVIOUS

\* Products of natural numbers are natural numbers.
LEMMA TimesNat ==
  ASSUME NEW a \in Nat, NEW b \in Nat
  PROVE  a * b \in Nat
  OBVIOUS

\* Multiplication by a natural number keeps the order.
LEMMA TimesMonotone ==
  ASSUME NEW a \in Nat, NEW b \in Nat, NEW c \in Nat, a <= b
  PROVE  a * c <= b * c
  OBVIOUS

\* The scale divides.
LEMMA ScalePositive == BPS \in Nat /\ BPS > 0 /\ WAD \in Nat
  BY VaultAssumption

\* The output a swap must give is an amount.
LEMMA OutNeededType ==
  ASSUME tx.repay \in Nat
  PROVE  OutNeeded \in Nat
<1>1. tx.repay * PremiumBps \in Nat /\ BPS \div 2 \in Nat
  BY VaultAssumption, TimesNat, DivNat, ScalePositive
<1>2. tx.repay * PremiumBps + BPS \div 2 \in Nat
  BY <1>1
<1>3. Premium(tx.repay) \in Nat
  BY <1>2, DivNat, ScalePositive DEF Premium
<1> QED
  BY <1>3 DEF OutNeeded

\* A health factor above a target is above every lower one.
LEMMA HealthMonotone ==
  ASSUME NEW c \in Nat, NEW d \in Nat, NEW low \in Nat, NEW high \in Nat, low <= high,
         HealthAtLeast(c, d, bpsToWad(high))
  PROVE  HealthAtLeast(c, d, bpsToWad(low))
<1>1. WAD \div BPS \in Nat
  BY DivNat, ScalePositive
<1>2. bpsToWad(low) <= bpsToWad(high) /\ bpsToWad(low) \in Nat /\ bpsToWad(high) \in Nat
  BY <1>1, TimesMonotone, TimesNat DEF bpsToWad
<1>3. d # 0 => (c * Threshold * WAD) \div (d * BPS) \in Nat
  <2> SUFFICES ASSUME d # 0 PROVE (c * Threshold * WAD) \div (d * BPS) \in Nat
    OBVIOUS
  <2>1. c * Threshold * WAD \in Nat
    BY TimesNat, VaultAssumption
  <2>2. d * BPS \in Nat /\ d * BPS > 0
    BY ScalePositive
  <2> QED
    BY <2>1, <2>2, DivNat
<1> HIDE DEF bpsToWad
<1> QED
  BY <1>2, <1>3 DEF HealthAtLeast

-----------------------------------------------------------------------------
(* The running transaction and the snapshot it would revert to.            *)

\* What executeProtection has established, and a revert gives back.
TxInv ==
    pc # "idle" =>
        /\ tx.mandate.signed
        /\ tx.target \in tx.mandate.base .. tx.mandate.max
        /\ tx.mandate.nonce \in Nonces
        /\ tx.mandate.nonce \notin saved.used
        /\ used = saved.used \cup {tx.mandate.nonce}

\* A nonce counts as spent by the commits so far: the running transaction's own is
\* in `used' already, and not in the snapshot.
Spent == IF pc = "idle" THEN used ELSE saved.used
NonceInv == \A n \in Nonces : executions[n] = IF n \in Spent THEN 1 ELSE 0

\* Where the borrower's collateral is at each step of the flash-loan body, and that
\* the vault has the loan before it repays.
FundsInv ==
    /\ pc = "repay" => vaultDebt >= tx.repay
    /\ pc \in {"repay", "withdraw"} =>
           coll = saved.coll /\ wallet = saved.wallet /\ vaultColl = saved.vaultColl
    /\ pc = "swap" =>
           /\ coll = saved.coll - tx.maxIn /\ wallet = saved.wallet
           /\ vaultColl = saved.vaultColl + tx.maxIn
    /\ pc = "residual" =>
           /\ coll = saved.coll - tx.maxIn /\ wallet = saved.wallet
           /\ vaultColl = saved.vaultColl + tx.maxIn - tx.in
    /\ pc \in {"cost", "health", "reclaim"} =>
           coll + wallet = saved.coll + saved.wallet + saved.vaultColl - tx.in

\* What the two guards have let through.
GuardInv ==
    /\ pc \in {"health", "reclaim"} =>
           tx.in * price <= (OutNeeded * (BPS + tx.mandate.cost)) \div BPS
    /\ pc = "reclaim" =>
           /\ HealthAtLeast(CollateralBase, TotalDebt, bpsToWad(tx.target))
           /\ TotalDebt < saved.debt + otherDebt
           /\ leverageWad(TotalDebt, CollateralBase)
                <= leverageWad(saved.debt + otherDebt, saved.coll * price)

VaultInv == TypeOK /\ TxInv /\ NonceInv /\ FundsInv /\ GuardInv

-----------------------------------------------------------------------------
(* One lemma per group of steps.                                           *)

\* The checks pass and the loan arrives: the snapshot is the state before.
LEMMA ExecuteKeeps ==
  ASSUME VaultInv, NEW m \in Mandates, NEW repay \in Amounts, NEW maxIn \in Amounts,
         NEW t \in m.base .. m.max, ExecuteProtection(m, repay, maxIn, t)
  PROVE  VaultInv'
<1> USE DEF ExecuteProtection, market
<1>1. m \in RiskParams /\ m.nonce \in Nonces /\ repay \in Nat /\ maxIn \in Nat /\ t \in Nat
  BY VaultAssumption DEF RiskParams, Nonces, Amounts
<1>2. TypeOK'
  BY <1>1 DEF VaultInv, TypeOK, Txs, Snapshots, Steps
<1>3. TxInv'
  BY <1>1 DEF TxInv, ValidateParams, RiskParams
<1>4. NonceInv'
  BY DEF VaultInv, NonceInv, Spent
<1>5. FundsInv'
  BY <1>1 DEF VaultInv, FundsInv, TypeOK
<1>6. GuardInv'
  BY DEF GuardInv
<1> QED
  BY <1>2, <1>3, <1>4, <1>5, <1>6 DEF VaultInv

\* The four steps that move tokens.
LEMMA BodyKeeps ==
  ASSUME VaultInv,
         RepayDebt \/ WithdrawCollateral \/ (\E in \in Amounts : ExecuteSwap(in)) \/ ReturnResidual
  PROVE  VaultInv'
<1> USE DEF market
<1>1. pc # "idle" => tx \in Txs /\ saved \in Snapshots
  BY DEF VaultInv, TypeOK
<1>2. pc # "idle" => OutNeeded \in Nat
  BY <1>1, OutNeededType DEF Txs
<1>3. CASE RepayDebt
  <2>1. TypeOK'
    BY <1>1, <1>3 DEF RepayDebt, VaultInv, TypeOK, FundsInv, Smaller, Txs, Steps
  <2>2. TxInv' /\ NonceInv' /\ FundsInv' /\ GuardInv'
    BY <1>3 DEF RepayDebt, VaultInv, TxInv, NonceInv, Spent, FundsInv, GuardInv
  <2> QED
    BY <2>1, <2>2 DEF VaultInv
<1>4. CASE WithdrawCollateral
  <2>1. TypeOK'
    BY <1>1, <1>4 DEF WithdrawCollateral, VaultInv, TypeOK, Txs, Steps
  <2>2. TxInv' /\ NonceInv' /\ GuardInv'
    BY <1>4 DEF WithdrawCollateral, VaultInv, TxInv, NonceInv, Spent, GuardInv
  <2>3. FundsInv'
    BY <1>1, <1>4 DEF WithdrawCollateral, VaultInv, TypeOK, FundsInv
  <2> QED
    BY <2>1, <2>2, <2>3 DEF VaultInv
<1>5. ASSUME NEW in \in Amounts, ExecuteSwap(in) PROVE VaultInv'
  <2>1. in \in Nat /\ tx' = [tx EXCEPT !.in = in] /\ tx \in Txs /\ saved \in Snapshots
    BY <1>1, <1>5, VaultAssumption DEF ExecuteSwap, Amounts
  <2>2. /\ tx' \in Txs /\ tx'.mandate = tx.mandate /\ tx'.target = tx.target
        /\ tx'.maxIn = tx.maxIn /\ tx'.in = in
    BY <2>1 DEF Txs
  <2>3. TypeOK'
    BY <1>2, <1>5, <2>1, <2>2 DEF ExecuteSwap, VaultInv, TypeOK, FundsInv, Txs, Snapshots, Steps
  <2>4. TxInv' /\ NonceInv' /\ GuardInv'
    BY <1>5, <2>2 DEF ExecuteSwap, VaultInv, TxInv, NonceInv, Spent, GuardInv
  <2>5. FundsInv'
    <3>1. /\ pc = "swap" /\ pc' = "residual" /\ vaultColl' = vaultColl - in
          /\ coll' = coll /\ wallet' = wallet /\ saved' = saved
      BY <1>5 DEF ExecuteSwap
    <3>2. /\ coll = saved.coll - tx.maxIn /\ wallet = saved.wallet
          /\ vaultColl = saved.vaultColl + tx.maxIn
      BY <3>1 DEF VaultInv, FundsInv
    <3> QED
      BY <2>1, <2>2, <3>1, <3>2 DEF FundsInv, Txs, Snapshots
  <2> QED
    BY <2>3, <2>4, <2>5 DEF VaultInv
<1>6. CASE ReturnResidual
  <2>1. TypeOK'
    BY <1>6 DEF ReturnResidual, VaultInv, TypeOK, Steps
  <2>2. TxInv' /\ NonceInv' /\ GuardInv'
    BY <1>6 DEF ReturnResidual, VaultInv, TxInv, NonceInv, Spent, GuardInv
  <2>3. FundsInv'
    BY <1>1, <1>6 DEF ReturnResidual, VaultInv, TypeOK, FundsInv, Txs, Snapshots
  <2> QED
    BY <2>1, <2>2, <2>3 DEF VaultInv
<1> QED
  BY <1>3, <1>4, <1>5, <1>6

\* The two guards move nothing.
LEMMA GuardsKeep ==
  ASSUME VaultInv, EnforceCost \/ VerifyHealthFactor
  PROVE  VaultInv'
<1> USE DEF position, market
<1>1. CASE EnforceCost
  <2>1. TypeOK' /\ TxInv' /\ NonceInv' /\ FundsInv'
    BY <1>1 DEF EnforceCost, VaultInv, TypeOK, Steps, TxInv, NonceInv, Spent, FundsInv
  <2>2. OutNeeded' = OutNeeded
    BY <1>1 DEF EnforceCost, OutNeeded, Premium
  <2>3. GuardInv'
    BY <1>1, <2>2 DEF EnforceCost, GuardInv
  <2> QED
    BY <2>1, <2>3 DEF VaultInv
<1>2. CASE VerifyHealthFactor
  <2>1. TypeOK' /\ TxInv' /\ NonceInv' /\ FundsInv'
    BY <1>2 DEF VerifyHealthFactor, VaultInv, TypeOK, Steps, TxInv, NonceInv, Spent, FundsInv
  <2>2. OutNeeded' = OutNeeded /\ TotalDebt' = TotalDebt /\ CollateralBase' = CollateralBase
    BY <1>2 DEF VerifyHealthFactor, OutNeeded, Premium, TotalDebt, CollateralBase
  <2>3. GuardInv'
    BY <1>2, <2>2 DEF VerifyHealthFactor, VaultInv, GuardInv, HealthAtLeast, leverageWad, bpsToWad
  <2> QED
    BY <2>1, <2>3 DEF VaultInv
<1> QED
  BY <1>1, <1>2

\* A transaction ends: a commit spends its nonce, a revert gives it back.
LEMMA EndKeeps ==
  ASSUME VaultInv, PoolReclaims \/ Revert
  PROVE  VaultInv'
<1> USE DEF market, EndTx
<1>1. pc # "idle" => tx \in Txs /\ saved \in Snapshots
  BY DEF VaultInv, TypeOK
<1>2. CASE PoolReclaims
  <2>1. OutNeeded \in Nat /\ tx.mandate.nonce \in Nonces
    BY <1>1, <1>2, OutNeededType DEF PoolReclaims, Txs, VaultInv, TxInv
  <2>2. TypeOK'
    BY <1>2, <2>1 DEF PoolReclaims, VaultInv, TypeOK
  <2>3. NonceInv'
    BY <1>2, <2>1 DEF PoolReclaims, VaultInv, TypeOK, TxInv, NonceInv, Spent
  <2>4. TxInv' /\ FundsInv' /\ GuardInv'
    BY <1>2 DEF PoolReclaims, TxInv, FundsInv, GuardInv
  <2> QED
    BY <2>2, <2>3, <2>4 DEF VaultInv
<1>3. CASE Revert
  <2>1. TypeOK'
    BY <1>1, <1>3 DEF Revert, VaultInv, TypeOK, Snapshots
  <2>2. NonceInv'
    BY <1>3 DEF Revert, VaultInv, NonceInv, Spent
  <2>3. TxInv' /\ FundsInv' /\ GuardInv'
    BY <1>3 DEF Revert, TxInv, FundsInv, GuardInv
  <2> QED
    BY <2>1, <2>2, <2>3 DEF VaultInv
<1> QED
  BY <1>2, <1>3

\* Between transactions.
LEMMA IdleKeeps ==
  ASSUME VaultInv,
         \/ \E a \in Amounts : BorrowerApproves(a) \/ DebtMoves(a)
         \/ \E p \in Prices : MarketMoves(p)
  PROVE  VaultInv'
<1> USE VaultAssumption DEF market, position, txVars, Amounts
<1>1. pc = "idle" /\ pc' = "idle"
  BY DEF BorrowerApproves, DebtMoves, MarketMoves
<1>2. TypeOK'
  BY <1>1 DEF VaultInv, TypeOK, BorrowerApproves, DebtMoves, MarketMoves
<1>3. NonceInv'
  BY <1>1 DEF VaultInv, NonceInv, Spent, BorrowerApproves, DebtMoves, MarketMoves
<1>4. TxInv' /\ FundsInv' /\ GuardInv'
  BY <1>1 DEF TxInv, FundsInv, GuardInv
<1> QED
  BY <1>2, <1>3, <1>4 DEF VaultInv

\* The invariant of the vault.
LEMMA VaultInvariant == Spec => []VaultInv
<1>1. Init => VaultInv
  <2> SUFFICES ASSUME Init PROVE VaultInv
    OBVIOUS
  <2>1. TypeOK
    BY VaultAssumption DEF Init, TypeOK, Amounts
  <2>2. TxInv /\ NonceInv /\ FundsInv /\ GuardInv
    BY DEF Init, TxInv, NonceInv, Spent, FundsInv, GuardInv
  <2> QED
    BY <2>1, <2>2 DEF VaultInv
<1>2. VaultInv /\ [Next]_vars => VaultInv'
  <2> SUFFICES ASSUME VaultInv, [Next]_vars PROVE VaultInv'
    OBVIOUS
  <2>1. CASE UNCHANGED vars
    <3>1. OutNeeded' = OutNeeded /\ TotalDebt' = TotalDebt /\ CollateralBase' = CollateralBase
      BY <2>1 DEF vars, position, market, txVars, OutNeeded, Premium, TotalDebt, CollateralBase
    <3>2. TypeOK' /\ TxInv' /\ NonceInv' /\ FundsInv'
      BY <2>1 DEF vars, position, market, txVars, VaultInv, TypeOK, TxInv, NonceInv, Spent, FundsInv
    <3>3. GuardInv'
      BY <2>1, <3>1 DEF vars, position, market, txVars, VaultInv, GuardInv, HealthAtLeast,
                        leverageWad, bpsToWad
    <3> QED
      BY <3>2, <3>3 DEF VaultInv
  <2> QED
    BY <2>1, ExecuteKeeps, BodyKeeps, GuardsKeep, EndKeeps, IdleKeeps DEF Next
<1> QED
  BY <1>1, <1>2, PTL DEF Spec

-----------------------------------------------------------------------------
(* The theorems.                                                           *)

\* No balance, debt or allowance goes below zero, in the middle of a transaction
\* or after it.
THEOREM VaultTypeCorrect == Spec => []TypeOK
  BY VaultInvariant, PTL DEF VaultInv

\* Replay protection: between transactions a nonce is used exactly when one rescue
\* was committed with it.
THEOREM NonceCorrect == Spec => []NonceSpentOnce
<1>1. VaultInv => NonceSpentOnce
  BY DEF VaultInv, NonceInv, Spent, NonceSpentOnce
<1> QED
  BY <1>1, VaultInvariant, PTL

\* However a transaction ends, the position is restored, or less indebted, no more
\* levered and above the floor the borrower signed.
THEOREM PositionNoWorse == Spec => NoWorse
<1>1. VaultInv /\ [Next]_vars => [pc # "idle" /\ pc' = "idle" => Reverted \/ Improved]_vars
  <2> SUFFICES ASSUME VaultInv, Next, pc # "idle", pc' = "idle"
               PROVE  Reverted \/ Improved
    OBVIOUS
  <2>1. CASE Revert
    BY <2>1 DEF Revert, Reverted
  <2>2. CASE PoolReclaims
    <3>1. /\ debt' = debt /\ coll' = coll /\ pc = "reclaim"
          /\ tx \in Txs /\ saved \in Snapshots
      BY <2>2 DEF PoolReclaims, VaultInv, TypeOK
    <3>2. /\ HealthAtLeast(coll * price, debt + otherDebt, bpsToWad(tx.target))
          /\ debt + otherDebt < saved.debt + otherDebt
          /\ leverageWad(debt + otherDebt, coll * price)
               <= leverageWad(saved.debt + otherDebt, saved.coll * price)
      BY <3>1 DEF VaultInv, GuardInv, TotalDebt, CollateralBase
    <3>3. /\ tx.mandate.signed /\ tx.mandate.base \in Nat /\ tx.target \in Nat
          /\ tx.mandate.base <= tx.target
      BY <3>1, VaultAssumption DEF VaultInv, TxInv, Txs, RiskParams
    <3>4. coll * price \in Nat /\ debt + otherDebt \in Nat
      <4>1. coll \in Nat /\ price \in Nat /\ debt \in Nat /\ otherDebt \in Nat
        BY VaultAssumption DEF VaultInv, TypeOK
      <4> QED
        BY <4>1, TimesNat
    <3>5. HealthAtLeast(coll * price, debt + otherDebt, bpsToWad(tx.mandate.base))
      BY <3>2, <3>3, <3>4, HealthMonotone
    <3>6. debt < saved.debt
      BY <3>1, <3>2 DEF VaultInv, TypeOK, Snapshots
    <3> HIDE DEF VaultInv
    <3> QED
      BY <3>1, <3>2, <3>3, <3>5, <3>6 DEF Improved
  <2> QED
    BY <2>1, <2>2 DEF Next, ExecuteProtection, RepayDebt, WithdrawCollateral, ExecuteSwap,
          ReturnResidual, EnforceCost, VerifyHealthFactor, BorrowerApproves, DebtMoves, MarketMoves
<1> QED
  BY <1>1, VaultInvariant, PTL DEF Spec, NoWorse

\* A committed rescue costs the borrower what the swap took, within the signed
\* bound, wherever in the flash-loan body the collateral was meanwhile.
THEOREM SpendingBounded == Spec => SpendBounded
<1> DEFINE spent == saved.coll + saved.wallet + saved.vaultColl - coll' - wallet'
           Bounded == /\ spent = tx.in
                      /\ spent * price <= (OutNeeded * (BPS + tx.mandate.cost)) \div BPS
<1>1. VaultInv => [PoolReclaims => Bounded]_vars
  <2> SUFFICES ASSUME VaultInv, PoolReclaims PROVE Bounded
    OBVIOUS
  <2>1. coll' = coll /\ wallet' = wallet /\ pc = "reclaim" /\ tx \in Txs /\ saved \in Snapshots
    BY DEF PoolReclaims, VaultInv, TypeOK
  <2>2. spent = tx.in
    BY <2>1 DEF VaultInv, TypeOK, FundsInv, Txs, Snapshots
  <2>3. tx.in * price <= (OutNeeded * (BPS + tx.mandate.cost)) \div BPS
    BY <2>1 DEF VaultInv, GuardInv
  <2> QED
    BY <2>2, <2>3
<1> QED
  BY <1>1, VaultInvariant, PTL DEF Spec, SpendBounded
=============================================================================
