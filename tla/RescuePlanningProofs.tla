------------------------ MODULE RescuePlanningProofs ------------------------
(***************************************************************************)
(* Proofs about RescuePlanning, for any scale, fees, mandate, answers of   *)
(* the chain and limits.                                                   *)
(***************************************************************************)
EXTENDS RescuePlanning, TLAPS

-----------------------------------------------------------------------------
(* Arithmetic.                                                             *)

\* Floor division of a natural number is a natural number.
LEMMA DivNat ==
  ASSUME NEW a \in Nat, NEW b \in Nat, b > 0
  PROVE  a \div b \in Nat
  OBVIOUS

\* Floor division brackets the quotient.
LEMMA DivBracket ==
  ASSUME NEW a \in Int, NEW b \in Nat, b > 0
  PROVE  /\ a \div b \in Int
         /\ (a \div b) * b <= a
         /\ a < (a \div b + 1) * b
  OBVIOUS

\* Products of natural numbers are natural numbers.
LEMMA TimesNat ==
  ASSUME NEW a \in Nat, NEW b \in Nat
  PROVE  a * b \in Nat
  OBVIOUS

\* Products of integers are integers.
LEMMA TimesInt ==
  ASSUME NEW a \in Int, NEW b \in Int
  PROVE  a * b \in Int
  OBVIOUS

\* The two scales divide.
LEMMA ScalesPositive ==
  BPS \in Nat /\ BPS > 0 /\ Scale \in Nat /\ Scale > 0
  BY PlanningAssumption

\* Multiplication by a natural number keeps the order.
LEMMA TimesMonotone ==
  ASSUME NEW a \in Int, NEW b \in Int, NEW c \in Nat, a <= b
  PROVE  a * c <= b * c
  OBVIOUS

-----------------------------------------------------------------------------
(* Types.                                                                  *)

\* The target lies in the band of the mandate.
LEMMA HfTargetType ==
  ASSUME NEW shift \in Shifts
  PROVE  HfTarget(shift) \in Nat
  BY PlanningAssumption DEF HfTarget, Larger, Smaller

\* The output a repayment needs is an amount.
LEMMA OutNeededType ==
  ASSUME NEW r \in Nat
  PROVE  OutNeeded(r) \in Nat
<1>1. r * PremiumBps \in Nat
  BY PlanningAssumption, TimesNat
<1>2. (r * PremiumBps) \div BPS \in Nat
  BY <1>1, ScalesPositive, DivNat
<1> QED
  BY <1>2 DEF OutNeeded

\* A value is a whole number of tokens.
LEMMA CeilTokensType ==
  ASSUME NEW value \in Nat, NEW price \in Nat, price > 0
  PROVE  CeilTokens(value, price) \in Nat
<1>1. value * Scale \in Nat
  BY PlanningAssumption, TimesNat
<1>2. value * Scale + price - 1 \in Nat
  BY <1>1
<1> QED
  BY <1>2, DivNat DEF CeilTokens

\* A bumped repayment is an amount.
LEMMA BumpType ==
  ASSUME NEW r \in Nat
  PROVE  (r * (BPS + BumpBps)) \div BPS \in Nat
<1>1. BPS + BumpBps \in Nat
  BY PlanningAssumption
<1>2. r * (BPS + BumpBps) \in Nat
  BY <1>1, TimesNat
<1> QED
  BY <1>2, ScalesPositive, DivNat

\* The base value of an amount.
LEMMA BaseValueType ==
  ASSUME NEW amount \in Nat, NEW price \in Nat
  PROVE  BaseValue(amount, price) \in Nat
<1>1. amount * price \in Nat
  BY TimesNat
<1> QED
  BY <1>1, ScalesPositive, DivNat DEF BaseValue

\* Numerator and denominator of the sizing are integers.
LEMMA SizingType ==
  ASSUME TypeOK
  PROVE  Num(acct, target) \in Int /\ Denom(acct, target) \in Int
<1>1. acct.debt \in Int /\ acct.coll \in Int /\ acct.lt \in Int /\ target \in Int
  BY DEF TypeOK, Accounts
<1>2. BPS \in Int /\ BPS + BundledBps \in Int
  BY PlanningAssumption
<1>3. target * acct.debt - acct.coll * acct.lt \in Int
  BY <1>1, TimesInt
<1>4. BPS * target \in Int /\ (BPS + BundledBps) * acct.lt \in Int
  BY <1>1, <1>2, TimesInt
<1>5. Num(acct, target) \in Int
  BY <1>2, <1>3, TimesInt DEF Num
<1>6. Denom(acct, target) \in Int
  BY <1>4 DEF Denom
<1> QED
  BY <1>5, <1>6

\* A scored candidate.
LEMMA ChoiceType ==
  ASSUME TypeOK, NEW asset \in Assets, NEW in \in Quotes, NEW price \in Prices,
         NEW allowance \in Quotes
  PROVE  Choice(asset, in, price, allowance) \in Choices
<1> DEFINE out == BaseValue(quotedOut, debtPrice)
           value == BaseValue(in, price)
           slip == IF out > 0 THEN Larger(((value - out) * BPS) \div out, 0) ELSE 0
<1>1. out \in Nat /\ value \in Nat /\ in \in Nat /\ allowance \in Nat
  BY BaseValueType, PlanningAssumption DEF TypeOK
<1>2. slip \in Nat
  <2>1. CASE out > 0
    <3>1. (value - out) * BPS \in Int
      BY <1>1, PlanningAssumption
    <3>2. ((value - out) * BPS) \div out \in Int
      BY <3>1, <1>1, <2>1, DivBracket
    <3> QED
      BY <3>2, <2>1 DEF Larger
  <2>2. CASE ~(out > 0)
    BY <2>2
  <2> QED
    BY <2>1, <2>2
<1> HIDE DEF slip, out, value
<1>3. [asset |-> asset, amountIn |-> in, inValue |-> value, outValue |-> out,
       slippage |-> slip, eligible |-> 0 < in /\ in <= allowance /\ out > 0] \in Choices
  BY <1>1, <1>2 DEF Choices
<1> QED
  BY <1>3 DEF Choice, slip, out, value

\* Every step keeps the types.
LEMMA NextTypeOK == TypeOK /\ [Next]_vars => TypeOK'
<1> SUFFICES ASSUME TypeOK, [Next]_vars PROVE TypeOK'
  OBVIOUS
<1>1. ASSUME NEW shift \in Shifts, Begin(shift) PROVE TypeOK'
  BY <1>1, HfTargetType DEF Begin, TypeOK, NoAccount, Accounts, Stages, Outcomes
<1>2. ASSUME NEW a \in [coll : Values, debt : Values, lt : Thresholds], AccountRead(a)
      PROVE  TypeOK'
  BY <1>2, PlanningAssumption DEF AccountRead, Finish, TypeOK, Accounts, Stages, Outcomes
<1>3. ASSUME NEW price \in Prices, SizingDeclined(price) PROVE TypeOK'
  BY <1>3 DEF SizingDeclined, Finish, localVars, TypeOK, Stages, Outcomes
<1>4. ASSUME NEW price \in Prices, Sized(price) PROVE TypeOK'
  <2> DEFINE d == Num(acct, target) \div Denom(acct, target)
  <2>2. Num(acct, target) \in Int /\ Denom(acct, target) \in Int
    BY SizingType
  <2>3. Num(acct, target) \in Nat /\ Denom(acct, target) \in Nat /\ Denom(acct, target) > 0
    BY <1>4, <2>2 DEF Sized
  <2>4. d \in Nat
    BY <2>3, DivNat
  <2>5. price \in Nat /\ price > 0
    BY <1>4, PlanningAssumption DEF Sized
  <2>6. CeilTokens(d, price) \in Nat
    BY <2>4, <2>5, CeilTokensType
  <2>7. OutNeeded(CeilTokens(d, price)) \in Nat
    BY <2>6, OutNeededType
  <2>8. delta' = d /\ repay' = CeilTokens(d, price) /\ quotedOut' = OutNeeded(CeilTokens(d, price))
    BY <1>4 DEF Sized
  <2> HIDE DEF d
  <2> QED
    BY <1>4, <2>4, <2>6, <2>7, <2>8 DEF Sized, TypeOK, Stages, Outcomes
<1>5. ASSUME NEW price \in Prices, SelectorRead(price) PROVE TypeOK'
  BY <1>5, PlanningAssumption DEF SelectorRead, TypeOK, Stages, Outcomes
<1>6. ASSUME NEW in \in Quotes, NEW allowance \in Quotes, NEW price \in Prices,
             Scored(in, price, allowance)
      PROVE  TypeOK'
  <2>1. Len(choices) + 1 \in 1 .. Len(Candidates)
    BY <1>6, PlanningAssumption DEF Scored, TypeOK
  <2>2. Candidates[Len(choices) + 1] \in Assets
    BY <2>1, PlanningAssumption
  <2>3. Choice(Candidates[Len(choices) + 1], in, price, allowance) \in Choices
    BY <2>2, ChoiceType
  <2>4. choices' \in Seq(Choices)
    BY <1>6, <2>3 DEF Scored, TypeOK
  <2> QED
    BY <1>6, <2>4 DEF Scored, TypeOK, Stages
<1>7. ASSUME Selected PROVE TypeOK'
  <2>1. PICK i \in DOMAIN choices : best' = choices[i] /\ amountIn' = choices[i].amountIn
    BY <1>7 DEF Selected
  <2>2. choices[i] \in Choices
    BY <2>1 DEF TypeOK
  <2>3. best' \in Choices /\ amountIn' \in Nat
    BY <2>1, <2>2 DEF Choices
  <2> QED
    BY <1>7, <2>3 DEF Selected, TypeOK, Stages, Outcomes
<1>8. ASSUME NoneEligible PROVE TypeOK'
  BY <1>8 DEF NoneEligible, Finish, localVars, TypeOK, Stages, Outcomes
<1>9. ASSUME ReserveRead PROVE TypeOK'
  BY <1>9 DEF ReserveRead, Finish, TypeOK, Stages, Outcomes
<1>10. ASSUME DryRunPassed \/ DryRunFailed \/ Raised PROVE TypeOK'
  BY <1>10 DEF DryRunPassed, DryRunFailed, Raised, Finish, localVars, TypeOK, Stages, Outcomes
<1>11. ASSUME Bumped PROVE TypeOK'
  <2>1. repay' \in Nat
    BY <1>11, BumpType DEF Bumped, TypeOK
  <2> QED
    BY <1>11, <2>1 DEF Bumped, TypeOK, Stages
<1>12. ASSUME NEW in \in Quotes, Requoted(in) PROVE TypeOK'
  <2>1. quotedOut' \in Nat /\ amountIn' \in Nat /\ bumps' \in Nat
    BY <1>12, OutNeededType, PlanningAssumption DEF Requoted, TypeOK
  <2> QED
    BY <1>12, <2>1 DEF Requoted, LoopHead, Finish, TypeOK, Stages, Outcomes
<1>13. ASSUME NEW n \in BumpLimits, PutConfig(n) PROVE TypeOK'
  BY <1>13 DEF PutConfig, localVars, TypeOK
<1>14. ASSUME UNCHANGED vars PROVE TypeOK'
  BY <1>14 DEF vars, localVars, TypeOK
<1> QED
  BY <1>1, <1>2, <1>3, <1>4, <1>5, <1>6, <1>7, <1>8, <1>9, <1>10, <1>11, <1>12, <1>13, <1>14
     DEF Next, PlanStep, Evaluate, Simulate

\* The type invariant: no figure of the assessment is negative, whatever the chain
\* answers.
THEOREM PlanningTypeCorrect == Spec => []TypeOK
<1>1. Init => TypeOK
  BY DEF Init, TypeOK, NoAccount, Accounts, Stages, Outcomes
<1> QED
  BY <1>1, NextTypeOK, PTL DEF Spec

-----------------------------------------------------------------------------
(* The size of the repayment.                                              *)

\* What a repayment leaves above the target, regrouped.
LEMMA Regroup ==
  ASSUME NEW b \in Int, NEW f \in Int, NEW c \in Int, NEW d \in Int, NEW l \in Int,
         NEW t \in Int, NEW x \in Int
  PROVE  (b * c - x * (b + f)) * l - b * t * (d - x)
           = x * (b * t - (b + f) * l) - b * (t * d - c * l)
  OBVIOUS

\* A repayment reaches the target when it covers the numerator.
LEMMA ReachesIff ==
  ASSUME TypeOK, NEW x \in Int
  PROVE  Reaches(x) <=> x * Denom(acct, target) >= Num(acct, target)
<1>1. acct.debt \in Int /\ acct.coll \in Int /\ acct.lt \in Int /\ target \in Int
  BY DEF TypeOK, Accounts
<1>2. BPS \in Int /\ BundledBps \in Int
  BY PlanningAssumption
<1> DEFINE left == (BPS * acct.coll - x * (BPS + BundledBps)) * acct.lt
           right == BPS * target * (acct.debt - x)
<1>3. left - right = x * Denom(acct, target) - Num(acct, target)
  BY <1>1, <1>2, Regroup DEF Num, Denom
<1>4. left \in Int /\ right \in Int
  BY <1>1, <1>2, TimesInt
<1>5. x * Denom(acct, target) \in Int /\ Num(acct, target) \in Int
  BY SizingType, TimesInt
<1>6. Reaches(x) <=> left >= right
  BY DEF Reaches
<1> HIDE DEF left, right
<1> QED
  BY <1>3, <1>4, <1>5, <1>6

\* A multiple compared with a bracketed quotient.
LEMMA QuotientIsLeast ==
  ASSUME NEW q \in Nat, NEW n \in Int, NEW d \in Nat, d > 0, q * d <= n, n < (q + 1) * d,
         NEW x \in Nat, x <= q - 1
  PROVE  x * d < n
<1>1. (x + 1) * d <= q * d
  BY TimesMonotone
<1>2. (x + 1) * d = x * d + d
  OBVIOUS
<1> QED
  BY <1>1, <1>2, TimesNat

\* The size is the quotient of the sizing formula on the account that was read; it
\* is set once, after the account.
SizeInv ==
    /\ stage \in {"account", "debt"} => delta = 0
    /\ delta > 0 => /\ Denom(acct, target) > 0
                    /\ delta = Num(acct, target) \div Denom(acct, target)

\* The quotient is the least repayment, and no more than a covered debt.
LEMMA SizeInvImplies ==
  ASSUME TypeOK, SizeInv
  PROVE  SizeIsLeast /\ RepayWithinDebt
<1> SUFFICES ASSUME delta > 0 PROVE SizeIsLeast /\ RepayWithinDebt
  BY DEF SizeIsLeast, RepayWithinDebt
<1> DEFINE n == Num(acct, target)
           d == Denom(acct, target)
<1>1. n \in Int /\ d \in Nat /\ d > 0 /\ delta \in Nat
  BY SizingType DEF SizeInv, TypeOK
<1>2. delta = n \div d
  BY DEF SizeInv
<1>3. delta * d <= n /\ n < (delta + 1) * d
  <2> HIDE DEF n, d
  <2> QED
    BY <1>1, <1>2, DivBracket
<1>4. Reaches(delta + 1)
  <2>1. delta + 1 \in Int /\ (delta + 1) * d \in Int
    BY <1>1, TimesInt
  <2>2. (delta + 1) * d >= n
    BY <1>1, <1>3, <2>1
  <2> QED
    BY <2>1, <2>2, ReachesIff
<1>5. ASSUME NEW x \in 0 .. delta - 1 PROVE ~Reaches(x)
  <2>1. x \in Nat /\ x \in Int /\ x <= delta - 1
    BY <1>1, <1>5
  <2>2. x * d < n
    <3> HIDE DEF n, d
    <3> QED
      BY <1>1, <1>3, <2>1, QuotientIsLeast
  <2>3. x * d \in Int
    BY <1>1, <2>1, TimesInt
  <2>4. ~(x * d >= n)
    <3> HIDE DEF n, d
    <3> QED
      BY <1>1, <2>2, <2>3
  <2> QED
    BY <2>1, <2>4, ReachesIff
<1>6. ASSUME BPS * acct.coll >= (BPS + BundledBps) * acct.debt PROVE delta <= acct.debt
  <2>1. acct.debt \in Nat /\ acct.coll \in Nat /\ acct.lt \in Nat /\ target \in Nat
    BY DEF TypeOK, Accounts
  <2>2. BPS \in Nat /\ BundledBps \in Nat
    BY PlanningAssumption
  <2>3. BPS * acct.coll \in Int /\ (BPS + BundledBps) * acct.debt \in Int
    BY <2>1, <2>2, TimesInt
  <2>4. (BPS + BundledBps) * acct.debt * acct.lt <= BPS * acct.coll * acct.lt
    BY <1>6, <2>1, <2>3, TimesMonotone
  <2>5. acct.debt * d - n = BPS * acct.coll * acct.lt - (BPS + BundledBps) * acct.debt * acct.lt
    BY <2>1, <2>2 DEF Num, Denom
  <2>6. BPS * acct.coll * acct.lt \in Int /\ (BPS + BundledBps) * acct.debt * acct.lt \in Int
    BY <2>1, <2>3, TimesInt
  <2>7. acct.debt * d \in Int
    BY <1>1, <2>1, TimesInt
  <2> HIDE DEF n, d
  <2>8. n <= acct.debt * d
    BY <1>1, <2>4, <2>5, <2>6, <2>7
  <2>9. SUFFICES ASSUME delta >= acct.debt + 1 PROVE FALSE
    BY <1>1, <2>1
  <2>10. (acct.debt + 1) * d <= delta * d
    BY <1>1, <2>1, <2>9, TimesMonotone
  <2>11. (acct.debt + 1) * d = acct.debt * d + d
    BY <1>1, <2>1
  <2>12. delta * d \in Int
    BY <1>1, TimesInt
  <2> QED
    BY <1>1, <1>3, <2>7, <2>8, <2>10, <2>11, <2>12
<1> QED
  BY <1>4, <1>5, <1>6 DEF SizeIsLeast, RepayWithinDebt

\* FR-3: the repayment is the least that reaches the target, to within one unit of
\* base currency, and stays within a debt that the collateral covers; for every
\* account, price and mandate.
THEOREM SizingCorrect == Spec => [](SizeIsLeast /\ RepayWithinDebt)
<1>1. Init => SizeInv
  BY DEF Init, SizeInv
<1>2. TypeOK /\ SizeInv /\ [Next]_vars => SizeInv'
  <2> SUFFICES ASSUME TypeOK, SizeInv, [Next]_vars PROVE SizeInv'
    OBVIOUS
  <2>1. ASSUME NEW shift \in Shifts, Begin(shift) PROVE SizeInv'
    BY <2>1 DEF Begin, SizeInv
  <2>2. ASSUME NEW a \in [coll : Values, debt : Values, lt : Thresholds], AccountRead(a)
        PROVE  SizeInv'
    <3>1. delta' = 0
      BY <2>2 DEF AccountRead, SizeInv
    <3> QED
      BY <3>1 DEF SizeInv
  <2>3. ASSUME NEW price \in Prices, Sized(price) PROVE SizeInv'
    <3>1. Denom(acct, target) > 0 /\ delta' = Num(acct, target) \div Denom(acct, target)
      BY <2>3 DEF Sized
    <3>2. stage' = "selector" /\ acct' = acct /\ target' = target
      BY <2>3 DEF Sized
    <3>3. Num(acct, target)' = Num(acct, target) /\ Denom(acct, target)' = Denom(acct, target)
      BY <3>2 DEF Num, Denom
    <3> QED
      BY <3>1, <3>2, <3>3 DEF SizeInv
  <2>4. ASSUME delta' = delta, acct' = acct, target' = target,
               stage' \in {"account", "debt"} => stage \in {"account", "debt"}
        PROVE  SizeInv'
    BY <2>4 DEF SizeInv, Num, Denom
  <2>5. ASSUME NEW price \in Prices, SizingDeclined(price) \/ SelectorRead(price)
        PROVE  SizeInv'
    BY <2>5, <2>4 DEF SizingDeclined, SelectorRead, Finish, localVars
  <2>6. ASSUME NEW in \in Quotes, NEW allowance \in Quotes, NEW price \in Prices,
               Scored(in, price, allowance)
        PROVE  SizeInv'
    BY <2>6, <2>4 DEF Scored
  <2>7. ASSUME Selected \/ NoneEligible \/ ReserveRead \/ Raised PROVE SizeInv'
    BY <2>7, <2>4 DEF Selected, NoneEligible, ReserveRead, Raised, Finish, localVars
  <2>8. ASSUME DryRunPassed \/ DryRunFailed \/ Bumped PROVE SizeInv'
    BY <2>8, <2>4 DEF DryRunPassed, DryRunFailed, Bumped, Finish, localVars
  <2>9. ASSUME NEW in \in Quotes, Requoted(in) PROVE SizeInv'
    BY <2>9, <2>4 DEF Requoted, LoopHead, Finish
  <2>10. ASSUME NEW m \in BumpLimits, PutConfig(m) PROVE SizeInv'
    BY <2>10, <2>4 DEF PutConfig, localVars
  <2>11. ASSUME UNCHANGED vars PROVE SizeInv'
    BY <2>11, <2>4 DEF vars, localVars
  <2> QED
    BY <2>1, <2>2, <2>3, <2>5, <2>6, <2>7, <2>8, <2>9, <2>10, <2>11
       DEF Next, PlanStep, Evaluate, Simulate
<1>3. TypeOK /\ SizeInv => SizeIsLeast /\ RepayWithinDebt
  BY SizeInvImplies
<1> QED
  BY <1>1, <1>2, <1>3, PlanningTypeCorrect, PTL DEF Spec

\* The debt half of it: the repayment stays within a debt that the collateral covers
\* at the bundled cost, although size_repay never looks at the debt.
THEOREM SizeWithinDebt == Spec => []RepayWithinDebt
  BY SizingCorrect, PTL

-----------------------------------------------------------------------------
(* The dry run.                                                            *)

\* Between a bump and its quote the two disagree, and a bump that is under way is
\* within a limit too.
LoopInv ==
    /\ stage # "idle" => outcome = "none"
    /\ stage \in {"selector", "candidate", "reserve", "call"} => quotedOut = OutNeeded(repay)
    /\ outcome = "ready" => quotedOut = OutNeeded(repay)
    /\ \E n \in BumpLimits : bumps <= n
    /\ stage = "requote" => \E n \in BumpLimits : bumps + 1 <= n

\* The amounts that leave the dry run were quoted together, and PUT /config cannot
\* stretch the bump loop past the largest limit it ever set.
THEOREM DryRunCorrect == Spec => [](QuotedForRepay /\ BumpsBounded)
<1>1. Init => LoopInv
  <2> SUFFICES ASSUME Init PROVE LoopInv
    OBVIOUS
  <2>1. maxBumps \in BumpLimits /\ bumps <= maxBumps
    BY PlanningAssumption DEF Init
  <2> QED
    BY <2>1 DEF Init, LoopInv
<1>2. TypeOK /\ LoopInv /\ [Next]_vars => LoopInv'
  <2> SUFFICES ASSUME TypeOK, LoopInv, [Next]_vars PROVE LoopInv'
    OBVIOUS
  <2>1. ASSUME NEW shift \in Shifts, Begin(shift) PROVE LoopInv'
    <3>1. bumps' <= maxBumps /\ maxBumps \in BumpLimits
      BY <2>1, PlanningAssumption DEF Begin, TypeOK
    <3> QED
      BY <2>1, <3>1 DEF Begin, LoopInv
  <2>2. ASSUME NEW a \in [coll : Values, debt : Values, lt : Thresholds], AccountRead(a)
        PROVE  LoopInv'
    BY <2>2 DEF AccountRead, Finish, LoopInv
  <2>3. ASSUME NEW price \in Prices, SizingDeclined(price) \/ SelectorRead(price)
        PROVE  LoopInv'
    BY <2>3 DEF SizingDeclined, SelectorRead, Finish, localVars, LoopInv
  <2>4. ASSUME NEW price \in Prices, Sized(price) PROVE LoopInv'
    BY <2>4 DEF Sized, LoopInv
  <2>5. ASSUME NEW in \in Quotes, NEW allowance \in Quotes, NEW price \in Prices,
               Scored(in, price, allowance)
        PROVE  LoopInv'
    BY <2>5 DEF Scored, LoopInv
  <2>6. ASSUME Selected \/ NoneEligible \/ ReserveRead \/ Raised PROVE LoopInv'
    BY <2>6 DEF Selected, NoneEligible, ReserveRead, Raised, Finish, localVars, LoopInv
  <2>7. ASSUME DryRunPassed \/ DryRunFailed PROVE LoopInv'
    BY <2>7 DEF DryRunPassed, DryRunFailed, Finish, localVars, LoopInv
  <2>8. ASSUME Bumped PROVE LoopInv'
    <3>1. maxBumps \in BumpLimits /\ bumps' + 1 <= maxBumps
      BY <2>8, PlanningAssumption DEF Bumped, TypeOK
    <3> QED
      BY <2>8, <3>1 DEF Bumped, LoopInv
  <2>9. ASSUME NEW in \in Quotes, Requoted(in) PROVE LoopInv'
    BY <2>9 DEF Requoted, LoopHead, Finish, LoopInv
  <2>10. ASSUME NEW n \in BumpLimits, PutConfig(n) PROVE LoopInv'
    BY <2>10 DEF PutConfig, localVars, LoopInv
  <2>11. ASSUME UNCHANGED vars PROVE LoopInv'
    BY <2>11 DEF vars, localVars, LoopInv
  <2> QED
    BY <2>1, <2>2, <2>3, <2>4, <2>5, <2>6, <2>7, <2>8, <2>9, <2>10, <2>11
       DEF Next, PlanStep, Evaluate, Simulate
<1>3. LoopInv => QuotedForRepay /\ BumpsBounded
  BY DEF LoopInv, QuotedForRepay, BumpsBounded
<1> QED
  BY <1>1, <1>2, <1>3, PlanningTypeCorrect, PTL DEF Spec
-----------------------------------------------------------------------------
(* The choice of the collateral.                                           *)

\* If the floored and clamped cost of v is no more than that of w, then v is less
\* than one basis point of the output above w, or above nothing at all.
LEMMA FlooredCostsCompare ==
  ASSUME NEW b \in Nat, NEW o \in Nat, o > 0, NEW v \in Nat, NEW w \in Nat,
         Larger(((v - o) * b) \div o, 0) <= Larger(((w - o) * b) \div o, 0)
  PROVE  b * (v - Larger(w, o)) < o
<1> DEFINE x == (v - o) * b
           y == (w - o) * b
           p == x \div o
           q == y \div o
<1>1. x \in Int /\ y \in Int /\ p \in Int /\ q \in Int
  BY DivBracket
<1>2. x < (p + 1) * o /\ q * o <= y
  BY <1>1, DivBracket
<1>3. CASE v <= o
  <2>1. v - Larger(w, o) \in Int /\ v - Larger(w, o) <= 0
    BY <1>3 DEF Larger
  <2>2. (v - Larger(w, o)) * b <= 0 * b
    BY <2>1, TimesMonotone
  <2> QED
    BY <2>1, <2>2
<1>4. CASE v > o /\ w <= o
  <2>1. y <= 0 * b
    BY <1>4, TimesMonotone
  <2>2. q <= 0
    <3> SUFFICES ASSUME q >= 1 PROVE FALSE
      BY <1>1
    <3>1. 1 * o <= q * o
      BY <1>1, TimesMonotone
    <3> HIDE DEF q, y
    <3> QED
      BY <1>1, <1>2, <2>1, <3>1
  <2>3. p <= 0
    <3> HIDE DEF p, q
    <3> QED
      BY <1>1, <2>2 DEF Larger, p, q
  <2>4. (p + 1) * o <= 1 * o
    BY <1>1, <2>3, TimesMonotone
  <2>5. x < o
    <3> HIDE DEF x, p
    <3> QED
      BY <1>1, <1>2, <2>4
  <2> QED
    BY <1>4, <2>5 DEF Larger
<1>5. CASE v > o /\ w > o
  <2>1. y \in Nat /\ q \in Nat
    BY <1>5, TimesNat, DivNat
  <2>2. p <= q
    <3> HIDE DEF p, q
    <3> QED
      BY <1>1, <2>1 DEF Larger, p, q
  <2>3. (p + 1) * o <= (q + 1) * o
    BY <1>1, <2>2, TimesMonotone
  <2>4. (q + 1) * o = q * o + o
    BY <1>1
  <2>5. q * o \in Int /\ (p + 1) * o \in Int
    BY <1>1, TimesInt
  <2>6. x < y + o
    <3> HIDE DEF x, y, p, q
    <3> QED
      BY <1>1, <1>2, <2>3, <2>4, <2>5
  <2>7. b * (v - w) = x - y
    OBVIOUS
  <2>8. Larger(w, o) = w
    BY <1>5 DEF Larger
  <2> HIDE DEF x, y
  <2> QED
    BY <1>1, <2>6, <2>7, <2>8
<1> QED
  BY <1>3, <1>4, <1>5

\* A candidate is scored against the one output that every candidate was quoted for.
Scores(c) ==
    /\ c \in Choices
    /\ c.outValue = BaseValue(quotedOut, debtPrice)
    /\ c.eligible => c.outValue > 0
    /\ c.outValue > 0 =>
           c.slippage = Larger(((c.inValue - c.outValue) * BPS) \div c.outValue, 0)

\* Nothing is scored before the selector has its price, and the candidates on the
\* list are scored alike until the list is gone.
RankInv ==
    /\ stage \in {"account", "debt", "selector"} => choices = <<>>
    /\ stage = "candidate" => \A j \in DOMAIN choices : Scores(choices[j])
    /\ CheapestWithinABp

\* build_choice scores.
LEMMA ChoiceScores ==
  ASSUME TypeOK, NEW asset \in Assets, NEW in \in Quotes, NEW price \in Prices,
         NEW allowance \in Quotes
  PROVE  Scores(Choice(asset, in, price, allowance))
<1> DEFINE c == Choice(asset, in, price, allowance)
<1>1. c \in Choices
  BY ChoiceType
<1>2. c.outValue = BaseValue(quotedOut, debtPrice) /\ c.inValue = BaseValue(in, price)
  BY DEF Choice
<1>3. c.eligible => c.outValue > 0
  BY DEF Choice
<1>4. c.outValue > 0 =>
          c.slippage = Larger(((c.inValue - c.outValue) * BPS) \div c.outValue, 0)
  BY DEF Choice
<1> HIDE DEF c
<1> QED
  BY <1>1, <1>2, <1>3, <1>4 DEF Scores, c

\* What ranks first among the eligible is the cheapest, to a basis point.
LEMMA FirstIsCheapest ==
  ASSUME TypeOK, NEW c, NEW d, Scores(c), Scores(d), c.eligible, d.eligible,
         ~Precedes(d, c)
  PROVE  BPS * (c.inValue - Larger(d.inValue, c.outValue)) < c.outValue
<1>1. c.slippage <= d.slippage
  BY DEF Precedes, Scores, Choices
<1>2. c.outValue = d.outValue /\ c.outValue > 0
  BY DEF Scores
<1>3. c.inValue \in Nat /\ d.inValue \in Nat /\ c.outValue \in Nat
  BY DEF Scores, Choices
<1>4. /\ c.slippage = Larger(((c.inValue - c.outValue) * BPS) \div c.outValue, 0)
      /\ d.slippage = Larger(((d.inValue - c.outValue) * BPS) \div c.outValue, 0)
  BY <1>2 DEF Scores
<1> QED
  BY <1>1, <1>2, <1>3, <1>4, FlooredCostsCompare, ScalesPositive

\* FR-5: the collateral that is sold costs less than one basis point of the output
\* more than any other eligible one, although the costs are floored and clamped
\* before they are compared; for any list of candidates and any quotes.
THEOREM RankingCorrect == Spec => []CheapestWithinABp
<1>1. Init => RankInv
  BY DEF Init, RankInv, CheapestWithinABp
<1>2. TypeOK /\ RankInv /\ [Next]_vars => RankInv'
  <2> SUFFICES ASSUME TypeOK, RankInv, [Next]_vars PROVE RankInv'
    OBVIOUS
  <2>1. ASSUME NEW shift \in Shifts, Begin(shift) PROVE RankInv'
    BY <2>1 DEF Begin, RankInv, CheapestWithinABp
  <2>2. ASSUME NEW a \in [coll : Values, debt : Values, lt : Thresholds], AccountRead(a)
        PROVE  RankInv'
    BY <2>2 DEF AccountRead, Finish, RankInv, CheapestWithinABp
  <2>3. ASSUME NEW price \in Prices, SizingDeclined(price) \/ Sized(price) PROVE RankInv'
    BY <2>3 DEF SizingDeclined, Sized, Finish, localVars, RankInv, CheapestWithinABp
  <2>4. ASSUME NEW price \in Prices, SelectorRead(price) PROVE RankInv'
    BY <2>4 DEF SelectorRead, RankInv, CheapestWithinABp
  <2>5. ASSUME NEW in \in Quotes, NEW allowance \in Quotes, NEW price \in Prices,
               Scored(in, price, allowance)
        PROVE  RankInv'
    <3> DEFINE c == Choice(Candidates[Len(choices) + 1], in, price, allowance)
    <3>1. Candidates[Len(choices) + 1] \in Assets
      BY <2>5, PlanningAssumption DEF Scored, TypeOK
    <3>2. Scores(c)
      BY <3>1, ChoiceScores
    <3>3. /\ stage = "candidate" /\ stage' = "candidate" /\ choices' = Append(choices, c)
          /\ quotedOut' = quotedOut /\ debtPrice' = debtPrice
      BY <2>5 DEF Scored
    <3> HIDE DEF c
    <3>4. \A j \in DOMAIN choices' : Scores(choices'[j])
      <4>1. \A j \in DOMAIN choices : Scores(choices[j])
        BY <3>3 DEF RankInv
      <4>2. choices \in Seq(Choices) /\ c \in Choices
        BY <3>2 DEF TypeOK, Scores
      <4>3. ASSUME NEW j \in DOMAIN choices'
            PROVE  \/ choices'[j] = c
                   \/ j \in DOMAIN choices /\ choices'[j] = choices[j]
        BY <3>3, <4>2
      <4> QED
        BY <3>2, <4>1, <4>3
    <3>5. \A k : Scores(k)' <=> Scores(k)
      BY <3>3 DEF Scores, BaseValue
    <3> QED
      BY <3>3, <3>4, <3>5 DEF RankInv, CheapestWithinABp
  <2>6. ASSUME Selected PROVE RankInv'
    <3>1. PICK i \in DOMAIN choices :
              IsFirst(i) /\ choices[i].eligible /\ best' = choices[i]
      BY <2>6 DEF Selected
    <3>2. choices' = choices /\ stage' = "reserve" /\ \A j \in DOMAIN choices : Scores(choices[j])
      BY <2>6 DEF Selected, RankInv
    <3>3. ASSUME NEW j \in DOMAIN choices, choices[j].eligible
          PROVE  BPS * (best'.inValue - Larger(choices[j].inValue, best'.outValue)) < best'.outValue
      BY <3>1, <3>2, <3>3, FirstIsCheapest DEF IsFirst
    <3> QED
      BY <3>2, <3>3 DEF RankInv, CheapestWithinABp
  <2>7. ASSUME NoneEligible \/ ReserveRead \/ Raised PROVE RankInv'
    BY <2>7 DEF NoneEligible, ReserveRead, Raised, Finish, localVars, RankInv, CheapestWithinABp
  <2>8. ASSUME DryRunPassed \/ DryRunFailed \/ Bumped PROVE RankInv'
    BY <2>8 DEF DryRunPassed, DryRunFailed, Bumped, Finish, localVars, RankInv, CheapestWithinABp
  <2>9. ASSUME NEW in \in Quotes, Requoted(in) PROVE RankInv'
    BY <2>9 DEF Requoted, LoopHead, Finish, RankInv, CheapestWithinABp
  <2>10. ASSUME (\E m \in BumpLimits : PutConfig(m)) \/ UNCHANGED vars PROVE RankInv'
    <3>1. /\ stage' = stage /\ choices' = choices /\ best' = best
          /\ quotedOut' = quotedOut /\ debtPrice' = debtPrice
      BY <2>10 DEF PutConfig, vars, localVars
    <3>2. \A k : Scores(k)' <=> Scores(k)
      BY <3>1 DEF Scores, BaseValue
    <3> QED
      BY <3>1, <3>2 DEF RankInv, CheapestWithinABp
  <2> QED
    BY <2>1, <2>2, <2>3, <2>4, <2>5, <2>6, <2>7, <2>8, <2>9, <2>10
       DEF Next, PlanStep, Evaluate, Simulate
<1>3. RankInv => CheapestWithinABp
  BY DEF RankInv
<1> QED
  BY <1>1, <1>2, <1>3, PlanningTypeCorrect, PTL DEF Spec
=============================================================================
