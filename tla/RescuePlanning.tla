--------------------------- MODULE RescuePlanning ---------------------------
(***************************************************************************)
(* How one rescue is planned: AssessmentPipeline.evaluate                  *)
(* (backend/app/core/pipeline.py with risk.py, sizing.py, selector.py and  *)
(* viability.py), then the dry run with its bump loop (simulator.py), for  *)
(* one mandate.  The result is the repayment and the quote the submitter   *)
(* gets (as amountInMaximum, a fixed multiple of it), or a refusal.        *)
(*                                                                         *)
(* Every figure is read from the chain at an await and may differ from the *)
(* one read before, so an answer is chosen freely.  stage is the await:    *)
(*                                                                         *)
(*   "account"    get_user_account_data                                    *)
(*   "debt"       reserve and price of the debt asset, for the sizing      *)
(*   "selector"   the same two, read again by the selector                 *)
(*   "candidate"  reserve, price, quote and allowance of a collateral      *)
(*   "reserve"    reserve of the chosen collateral, for its bonus          *)
(*   "call"       eth_call of executeProtection                            *)
(*   "requote"    quote_exact_output_single after a bump                   *)
(*                                                                         *)
(* Values are in base currency; Scale is one token.  The WAD of sizing.py  *)
(* is a multiple of BPS squared and cancels.                               *)
(***************************************************************************)
EXTENDS Integers, Sequences

CONSTANTS
    BPS,
    BundledBps,       \* DEFAULT_BUNDLED_COST_BPS
    PremiumBps,       \* FLASH_PREMIUM_BPS
    BumpBps,          \* _BUMP_BPS
    GasCost,          \* DEFAULT_GAS_COST_BASE
    Scale,            \* 10^decimals, the same for every token
    Assets,           \* collateral assets
    LT, Bonus,        \* liquidation threshold and bonus of each
    Candidates,       \* allowed_collaterals, a sequence of assets
    TargetBase, TargetMax,    \* the signed band of the health factor
    Shifts,           \* values of int(k * sigma)
    Values,           \* base-currency values an account read may return
    Thresholds,       \* liquidation thresholds it may return, in BPS
    Prices, Quotes,   \* prices, and amounts a quote may return
    BumpLimits,       \* settings of max_simulation_bumps
    NoChoice

ASSUME PlanningAssumption ==
    /\ BPS \in Nat \ {0} /\ BundledBps \in Nat /\ PremiumBps \in Nat /\ BumpBps \in Nat
    /\ GasCost \in Nat /\ Scale \in Nat \ {0}
    /\ LT \in [Assets -> Nat] /\ Bonus \in [Assets -> Nat]
    /\ Candidates \in Seq(Assets)
    /\ TargetBase \in Nat /\ TargetMax \in Nat /\ TargetBase <= TargetMax
    /\ Shifts \subseteq Int
    /\ Values \subseteq Nat /\ Thresholds \subseteq Nat
    /\ Prices \subseteq Nat /\ Quotes \subseteq Nat
    /\ BumpLimits \subseteq Nat

VARIABLES
    stage,
    target,       \* hf_target_bps
    acct,         \* the account as read
    delta, repay, \* sizing: base value and tokens; repay grows with the bumps
    debtPrice,    \* the selector's own reading
    choices,      \* candidates scored so far
    best,         \* what select_best returned
    amountIn, quotedOut,    \* the last quote, and the output it was asked for
    bumps,
    outcome,
    maxBumps      \* Simulator.max_bumps, set by PUT /config

localVars == <<target, acct, delta, repay, debtPrice, choices, best, amountIn, quotedOut, bumps>>
vars == <<stage, localVars, outcome, maxBumps>>

Accounts == [coll : Nat, debt : Nat, lt : Nat]
Choices == [asset : Assets, amountIn : Nat, inValue : Nat, outValue : Nat,
            slippage : Nat, eligible : BOOLEAN]
Stages == {"idle", "account", "debt", "selector", "candidate", "reserve", "call", "requote"}
Outcomes == {"none", "declined", "failed", "raised", "ready"}

TypeOK ==
    /\ stage \in Stages
    /\ target \in Nat
    /\ acct \in Accounts
    /\ delta \in Nat /\ repay \in Nat /\ debtPrice \in Nat
    /\ choices \in Seq(Choices)
    /\ best \in Choices \cup {NoChoice}
    /\ amountIn \in Nat /\ quotedOut \in Nat /\ bumps \in Nat
    /\ outcome \in Outcomes
    /\ maxBumps \in BumpLimits
    /\ stage \in {"reserve", "call", "requote"} => best \in Choices

NoAccount == [coll |-> 0, debt |-> 0, lt |-> 0]

Init ==
    /\ stage = "idle" /\ outcome = "none"
    /\ target = 0 /\ acct = NoAccount /\ delta = 0 /\ repay = 0 /\ debtPrice = 0
    /\ choices = <<>> /\ best = NoChoice
    /\ amountIn = 0 /\ quotedOut = 0 /\ bumps = 0
    /\ maxBumps \in BumpLimits

-----------------------------------------------------------------------------
(* The figures.                                                            *)

Larger(a, b) == IF a >= b THEN a ELSE b
Smaller(a, b) == IF a <= b THEN a ELSE b

\* dynamic_hf_target_bps.
HfTarget(shift) == Larger(TargetBase, Smaller(TargetBase + Larger(shift, 0), TargetMax))

\* Mutant: the account's margin is left out.
NumOfDebtAlone(a, t) == BPS * t * a.debt

\* size_repay.  Numerator and denominator of the repayment that brings account a
\* to health factor t when each unit repaid costs 1 + f units of collateral.
Num(a, t) == BPS * (t * a.debt - a.coll * a.lt)

\* Mutant: the cost of the swap is left out.
DenomWithoutCost(a, t) == BPS * t - BPS * a.lt

Denom(a, t) == BPS * t - (BPS + BundledBps) * a.lt

\* Base value to tokens, rounded up.
CeilTokens(value, price) == (value * Scale + price - 1) \div price

OutNeeded(r) == r + (r * PremiumBps) \div BPS

\* _to_base_value.
BaseValue(amount, price) == (amount * price) \div Scale

\* Mutant: a swap that beats the oracle has a negative cost.
ChoiceUnclamped(asset, in, price, allowance) ==
    LET out == BaseValue(quotedOut, debtPrice)
        value == BaseValue(in, price) IN
    [asset |-> asset, amountIn |-> in, inValue |-> value, outValue |-> out,
     slippage |-> IF out > 0 THEN ((value - out) * BPS) \div out ELSE 0,
     eligible |-> 0 < in /\ in <= allowance /\ out > 0]

\* build_choice; an unquotable pair has amountIn 0.
Choice(asset, in, price, allowance) ==
    LET out == BaseValue(quotedOut, debtPrice)
        value == BaseValue(in, price) IN
    [asset |-> asset, amountIn |-> in, inValue |-> value, outValue |-> out,
     slippage |-> IF out > 0 THEN Larger(((value - out) * BPS) \div out, 0) ELSE 0,
     eligible |-> 0 < in /\ in <= allowance /\ out > 0]

\* Mutant: the liquidation threshold comes first.
PrecedesByThreshold(a, b) ==
    \/ a.eligible /\ ~b.eligible
    \/ a.eligible = b.eligible /\ LT[a.asset] > LT[b.asset]

\* The sort key of rank_collaterals.
Precedes(a, b) ==
    \/ a.eligible /\ ~b.eligible
    \/ /\ a.eligible = b.eligible
       /\ \/ a.slippage < b.slippage
          \/ a.slippage = b.slippage /\ LT[a.asset] > LT[b.asset]

\* The sort is stable: among equals the earliest candidate comes first.
IsFirst(i) ==
    \A j \in DOMAIN choices :
        /\ ~Precedes(choices[j], choices[i])
        /\ j < i => Precedes(choices[i], choices[j])

\* assess_viability.
Viable(value, bonus, swapCost) ==
    (value * bonus) \div BPS > (value * PremiumBps) \div BPS + swapCost + GasCost

-----------------------------------------------------------------------------
(* evaluate().                                                             *)

\* The local variables die with the call; repay and the quote are its result.
Finish(how) == stage' = "idle" /\ outcome' = how

\* A new assessment: sigma is known before the first read.
Begin(shift) ==
    /\ stage = "idle"
    /\ stage' = "account" /\ outcome' = "none"
    /\ target' = HfTarget(shift)
    /\ acct' = NoAccount /\ delta' = 0 /\ repay' = 0 /\ debtPrice' = 0
    /\ choices' = <<>> /\ best' = NoChoice
    /\ amountIn' = 0 /\ quotedOut' = 0 /\ bumps' = 0
    /\ UNCHANGED maxBumps

AccountRead(a) ==
    /\ stage = "account"
    /\ acct' = a
    /\ IF a.debt = 0 THEN Finish("declined")
                     ELSE stage' = "debt" /\ UNCHANGED outcome
    /\ UNCHANGED <<target, delta, repay, debtPrice, choices, best, amountIn, quotedOut,
                   bumps, maxBumps>>

\* The target cannot be reached, is reached already, or the price is missing.
SizingDeclined(price) ==
    /\ stage = "debt"
    /\ \/ Denom(acct, target) <= 0
       \/ Num(acct, target) <= 0
       \/ price = 0
       \/ Num(acct, target) \div Denom(acct, target) = 0
    /\ Finish("declined")
    /\ UNCHANGED <<localVars, maxBumps>>

Sized(price) ==
    /\ stage = "debt"
    /\ Denom(acct, target) > 0
    /\ Num(acct, target) > 0
    /\ price > 0
    /\ LET d == Num(acct, target) \div Denom(acct, target) IN
         /\ d > 0
         /\ delta' = d
         /\ repay' = CeilTokens(d, price)
         /\ quotedOut' = OutNeeded(CeilTokens(d, price))
    /\ stage' = "selector"
    /\ UNCHANGED <<target, acct, debtPrice, choices, best, amountIn, bumps, outcome, maxBumps>>

SelectorRead(price) ==
    /\ stage = "selector"
    /\ debtPrice' = price
    /\ stage' = "candidate"
    /\ UNCHANGED <<target, acct, delta, repay, choices, best, amountIn, quotedOut, bumps,
                   outcome, maxBumps>>

Scored(in, price, allowance) ==
    /\ stage = "candidate"
    /\ Len(choices) < Len(Candidates)
    /\ choices' = Append(choices, Choice(Candidates[Len(choices) + 1], in, price, allowance))
    /\ UNCHANGED <<stage, target, acct, delta, repay, debtPrice, best, amountIn, quotedOut,
                   bumps, outcome, maxBumps>>

\* select_best, once every candidate is scored.
Selected ==
    /\ stage = "candidate"
    /\ Len(choices) = Len(Candidates)
    /\ \E i \in DOMAIN choices :
          /\ IsFirst(i)
          /\ choices[i].eligible
          /\ best' = choices[i]
          /\ amountIn' = choices[i].amountIn
    /\ stage' = "reserve"
    /\ UNCHANGED <<target, acct, delta, repay, debtPrice, choices, quotedOut, bumps,
                   outcome, maxBumps>>

NoneEligible ==
    /\ stage = "candidate"
    /\ Len(choices) = Len(Candidates)
    /\ \A i \in DOMAIN choices : IsFirst(i) => ~choices[i].eligible
    /\ Finish("declined")
    /\ UNCHANGED <<localVars, maxBumps>>

\* The economic gate; the plan goes on to the simulator.
ReserveRead ==
    /\ stage = "reserve"
    /\ IF Viable(delta, Bonus[best.asset], Larger(best.inValue - best.outValue, 0))
         THEN stage' = "call" /\ UNCHANGED outcome
         ELSE Finish("declined")
    /\ choices' = <<>>
    /\ UNCHANGED <<target, acct, delta, repay, debtPrice, best, amountIn, quotedOut, bumps,
                   maxBumps>>

-----------------------------------------------------------------------------
(* simulate().                                                             *)

\* The call passed, or reverted with no data (the flash loan was reached).
DryRunPassed ==
    /\ stage = "call"
    /\ Finish("ready")
    /\ UNCHANGED <<localVars, maxBumps>>

\* Any other revert or error, or an undersized repayment at the limit.
DryRunFailed ==
    /\ stage = "call"
    /\ Finish("failed")
    /\ UNCHANGED <<localVars, maxBumps>>

\* HealthBelowTarget or DebtNotReduced: repay more.
Bumped ==
    /\ stage = "call"
    /\ bumps < maxBumps
    /\ repay' = (repay * (BPS + BumpBps)) \div BPS
    /\ stage' = "requote"
    /\ UNCHANGED <<target, acct, delta, debtPrice, choices, best, amountIn, quotedOut, bumps,
                   outcome, maxBumps>>

\* The loop goes on unless the limit was lowered below the bumps made.
LoopHead ==
    IF bumps' <= maxBumps THEN stage' = "call" /\ UNCHANGED outcome
                          ELSE Finish("failed")

\* Mutant: the bumps are not counted.
RequotedUncounted(in) ==
    /\ stage = "requote"
    /\ amountIn' = in
    /\ quotedOut' = OutNeeded(repay)
    /\ bumps' = bumps
    /\ LoopHead
    /\ UNCHANGED <<target, acct, delta, repay, debtPrice, choices, best, maxBumps>>

\* Mutant: the quote is for the output of the first plan.
RequotedFirst(in) ==
    /\ stage = "requote"
    /\ amountIn' = in
    /\ bumps' = bumps + 1
    /\ LoopHead
    /\ UNCHANGED <<target, acct, delta, repay, debtPrice, choices, best, quotedOut, maxBumps>>

Requoted(in) ==
    /\ stage = "requote"
    /\ amountIn' = in
    /\ quotedOut' = OutNeeded(repay)
    /\ bumps' = bumps + 1
    /\ LoopHead
    /\ UNCHANGED <<target, acct, delta, repay, debtPrice, choices, best, maxBumps>>

\* A read raised.  A quote of the selector that raises is an amount of 0 instead,
\* and a dry run that raises has failed; every other read is unprotected.
Raised ==
    /\ stage \in {"account", "debt", "selector", "candidate", "reserve", "requote"}
    /\ Finish("raised")
    /\ UNCHANGED <<localVars, maxBumps>>

PutConfig(n) ==
    /\ maxBumps' = n
    /\ UNCHANGED <<stage, localVars, outcome>>

Evaluate ==
    \/ \E a \in [coll : Values, debt : Values, lt : Thresholds] : AccountRead(a)
    \/ \E price \in Prices : SizingDeclined(price) \/ Sized(price) \/ SelectorRead(price)
    \/ \E in, allowance \in Quotes, price \in Prices : Scored(in, price, allowance)
    \/ Selected
    \/ NoneEligible
    \/ ReserveRead

Simulate ==
    \/ DryRunPassed
    \/ DryRunFailed
    \/ Bumped
    \/ \E in \in Quotes : Requoted(in)

PlanStep == Evaluate \/ Simulate \/ Raised

Next ==
    \/ \E shift \in Shifts : Begin(shift)
    \/ PlanStep
    \/ \E n \in BumpLimits : PutConfig(n)

Spec == Init /\ [][Next]_vars

\* Every read returns or raises.
FairSpec == Spec /\ WF_vars(PlanStep)

-----------------------------------------------------------------------------
(* Properties.                                                             *)

\* Repaying x, at a cost of 1 + f in collateral for each unit, brings the account
\* that was read to the target.
Reaches(x) ==
    (BPS * acct.coll - x * (BPS + BundledBps)) * acct.lt >= BPS * target * (acct.debt - x)

\* FR-3, "no smaller amount reaches HF_target": the closed form of size_repay is the
\* least repayment that reaches the target, less at most one unit of base
\* currency to its rounding.
SizeIsLeast ==
    delta > 0 => Reaches(delta + 1) /\ \A x \in 0 .. delta - 1 : ~Reaches(x)

\* size_repay does not look at the debt.  The repayment stays within it as long as
\* the collateral covers the debt at the bundled cost.
RepayWithinDebt ==
    delta > 0 /\ BPS * acct.coll >= (BPS + BundledBps) * acct.debt => delta <= acct.debt

\* FR-5, "the one producing lower total cost ... is selected": the ranking is by
\* whole basis points, clamped at 0, before the threshold.  The chosen
\* collateral costs at most one basis point of the output more than any other
\* eligible one, or nothing.
CheapestWithinABp ==
    stage = "reserve" =>
        \A j \in DOMAIN choices :
            choices[j].eligible =>
                BPS * (best.inValue - Larger(choices[j].inValue, best.outValue)) < best.outValue

\* What the submitter gets was quoted together: amountInMaximum rests on a quote
\* for the repayment of this very plan and its premium, whatever was bumped.
QuotedForRepay == outcome = "ready" => quotedOut = OutNeeded(repay)

\* PUT /config may move the limit between any two dry runs; the bumps stay within
\* the largest limit there was.
BumpsBounded == \E n \in BumpLimits : bumps <= n

\* Every planning ends.
PlanningEnds == stage # "idle" ~> stage = "idle"
=============================================================================
