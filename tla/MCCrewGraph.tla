---------------------------- MODULE MCCrewGraph ----------------------------
(* CrewGraph for TLC: one basis point is two units of the health factor.    *)
EXTENDS CrewGraph

CONSTANTS weth, wbtc

MCLimits == [repayNum |-> 1, repayDen |-> 2, cost |-> 4, gap |-> 4, perBorrower |-> 1, global |-> 2]

\* One without a deadline, and one that expires and bounds the cost more.
MCMandates ==
    {[trigger |-> 110, base |-> 120, max |-> 130, k |-> 2, slippage |-> 1, cost |-> 5,
      allowed |-> {weth}, deadline |-> 0],
     [trigger |-> 105, base |-> 125, max |-> 125, k |-> 0, slippage |-> 1, cost |-> 3,
      allowed |-> {weth, wbtc}, deadline |-> 1]}

Viable(cost, repay, coll) ==
    [hf |-> 211, target |-> 125, repay |-> repay, coll |-> coll, cost |-> cost, viable |-> TRUE]

\* Cheap, above the tighter and above both cost bounds, above the repay bound, a
\* rescue declined for a position near its target, and the answer for a position
\* without debt.
MCAssessments ==
    {Viable(3, 50, weth), Viable(4, 50, wbtc), Viable(5, 50, weth), Viable(3, 51, weth),
     [hf |-> 245, target |-> 125, repay |-> 0, coll |-> NoAsset, cost |-> 0, viable |-> FALSE],
     [hf |-> Infinite, target |-> 125, repay |-> 0, coll |-> NoAsset, cost |-> 0, viable |-> FALSE]}

\* Half a basis point above the trigger, in the watch band, and without debt.
MCAccounts == {[debt |-> 100, hf |-> 211], [debt |-> 100, hf |-> 221], [debt |-> 0, hf |-> 10000]}

MCPrices == {1}
MCSuggestedValues == {124, 1001}
=============================================================================
