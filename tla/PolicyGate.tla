----------------------------- MODULE PolicyGate -----------------------------
(***************************************************************************)
(* The deterministic policy gate (backend/app/agent/policy.py) and the     *)
(* backend's answers it judges (backend/app/core/models.py).               *)
(*                                                                         *)
(* Ratios are basis points, as in the code.  A health factor keeps the     *)
(* finer unit Aave returns it in: WadPerBp units make one basis point, so  *)
(* that rounding down and rounding to the nearest are different.           *)
(***************************************************************************)
EXTENDS Integers

CONSTANTS
    Bps,          \* 10000 basis points
    WadPerBp,     \* 10^14
    WatchBand,    \* watch_band_bps
    TokenUnit,    \* 10^decimals of the debt token
    NoMandate,    \* service.params_of(borrower) is None
    NoAsset,      \* collateral_asset = "" of a declined assessment
    Infinite,     \* float("inf"), the assessed hf of a position without debt
    Limits        \* the operator's PolicyLimits

\* The share of the debt a repay may reach, repayNum / repayDen, the cost in basis
\* points, the least gap to the target, and the proposals per hour.
PolicyLimits == [repayNum : Nat, repayDen : Nat \ {0}, cost : Nat, gap : Nat,
                 perBorrower : Nat, global : Nat]

ASSUME GateAssumption ==
    /\ Bps \in Nat \ {0} /\ WadPerBp \in Nat \ {0} /\ TokenUnit \in Nat \ {0}
    /\ WatchBand \in Nat
    /\ Limits \in PolicyLimits

\* TunableField: what a tuning suggestion may touch.
TunableFields == {"trigger", "base", "max", "k", "slippage", "cost"}

\* RiskParams' own validators.
ValidParams(m) == m.slippage <= Bps /\ m.cost <= Bps /\ m.base <= m.max

HasDebt(account) == account.debt > 0

\* WAD -> bps, rounding down.
HfBps(account) == account.hf \div WadPerBp

ClassifyState(account, trigger) ==
    CASE ~HasDebt(account) -> "HEALTHY"
      [] HasDebt(account) /\ HfBps(account) <= trigger -> "ASSESSING"
      [] HasDebt(account) /\ HfBps(account) > trigger ->
            IF HfBps(account) <= trigger + WatchBand THEN "WATCH" ELSE "HEALTHY"

\* PositionMonitor.poll_once on the account it read.
Snapshot(account, trigger) ==
    [account |-> account, trigger |-> trigger, state |-> ClassifyState(account, trigger)]

\* The answers evaluate() can give for mandate m: the target is clamped to the
\* signed band, a collateral comes from the signed list, and only a sized and
\* sourced rescue is viable.  The signed cost is not among its conditions.
PipelineAnswers(m, assessments) ==
    {a \in assessments :
        /\ a.target \in m.base .. m.max
        /\ a.coll \in m.allowed \cup {NoAsset}
        /\ a.viable => a.repay > 0 /\ a.coll # NoAsset
        /\ a.hf = Infinite => a.repay = 0}

\* Python's round() of n/d: to the nearest, ties to even.
Round(n, d) ==
    LET q == n \div d  r == 2 * (n % d)
    IN  IF r < d \/ (r = d /\ q % 2 = 0) THEN q ELSE q + 1

Least(a, b) == IF a <= b THEN a ELSE b

\* An unreadable price is 0, and values the repay at 0.
RepayValueBase(repay, price) ==
    IF price <= 0 THEN 0 ELSE (repay * price) \div TokenUnit

\* Mutant: an unvalued repay passes by arithmetic accident.
RepayBoundedAbove(in) ==
    RepayValueBase(in.assessment.repay, in.price)
        <= (in.snapshot.account.debt * Limits.repayNum) \div Limits.repayDen

RepayBounded(in) ==
    LET value == RepayValueBase(in.assessment.repay, in.price)
    IN  0 < value /\ value <= (in.snapshot.account.debt * Limits.repayNum) \div Limits.repayDen

\* round() of an infinite gap raises OverflowError: no check is reported.
GateRaises(in) == in.assessment.hf = Infinite

\* The sixteen checks.  in: the mandate, assessment, snapshot and metrics read,
\* the time, the debt price and the two counts.  Without a mandate the checks
\* against it fail.
Checks(in) ==
    LET m == in.mandate  a == in.assessment  acc == in.snapshot.account
        signed == m # NoMandate
    IN  [registered            |-> signed,
         mandate_not_expired   |-> signed /\ (m.deadline = 0 \/ m.deadline > in.now),
         hf_below_trigger      |-> signed /\ HfBps(acc) <= m.trigger,
         cost_within_mandate   |-> signed /\ a.cost <= Least(m.cost, Limits.cost),
         collateral_allowlisted |-> signed /\ a.coll \in m.allowed,
         target_in_signed_band |-> signed /\ m.base <= a.target /\ a.target <= m.max,
         has_debt              |-> HasDebt(acc),
         state_actionable      |-> in.snapshot.state \in {"WATCH", "ASSESSING"},
         hf_gap_material       |-> Round(a.target * WadPerBp - a.hf, WadPerBp) >= Limits.gap,
         assessment_viable     |-> a.viable,
         repay_positive        |-> a.repay > 0,
         repay_bounded         |-> RepayBounded(in),
         breaker_ok            |-> ~in.paused,
         not_inflight          |-> ~in.inflight,
         rate_limit_borrower   |-> in.recent < Limits.perBorrower,
         rate_limit_global     |-> in.recentGlobal < Limits.global]

\* No check short-circuits: the names of all that fail.
Blocking(in) == {c \in DOMAIN Checks(in) : ~Checks(in)[c]}

Allowed(in) == Blocking(in) = {}

\* Failing one of these means the keeper itself has said stop.
HardBlockChecks == {"breaker_ok", "not_inflight"}

Severity(in) ==
    IF Allowed(in) THEN "ok"
    ELSE IF Blocking(in) \cap HardBlockChecks # {} THEN "hard_block" ELSE "soft_block"
=============================================================================
