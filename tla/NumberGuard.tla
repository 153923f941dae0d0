---------------------------- MODULE NumberGuard ----------------------------
(***************************************************************************)
(* The provenance check on model prose (backend/app/agent/guard.py).       *)
(*                                                                         *)
(* A quantity is a natural number of the smallest unit prose is compared   *)
(* in, the fourth decimal: Unit of them are 1 and Cent of them 0.01.  The  *)
(* code's constants are parameters, so that TLC can use smaller ones.      *)
(* A tool may also return the float infinity, the health factor of a       *)
(* position without debt.                                                  *)
(***************************************************************************)
EXTENDS Integers

CONSTANTS
    Unit,         \* 10^4
    Cent,         \* 10^2
    Percent,      \* 100, and its square a basis point
    TokenUnit,    \* 10^6
    WadFloor,     \* 10^16
    WadUnit,      \* 10^18
    Tolerance,    \* 200: the relative tolerance is one in so many
    Infinite      \* float("inf")

ASSUME GuardAssumption ==
    /\ {Unit, Cent, Percent, TokenUnit, WadFloor, WadUnit, Tolerance} \subseteq Nat \ {0}
    /\ Infinite \notin Nat

\* Small integers and denominators that claim nothing about a position.
Bare == {Unit * n : n \in {0, 1, 2, 3, 4, 5, 10, 100, 1000, 10000}}

\* n/d to the nearest multiple of u, ties to even.
RoundTo(n, d, u) ==
    LET w == d * u  q == n \div w  r == 2 * (n % w)
    IN  <<u * (IF r < w \/ (r = w /\ q % 2 = 0) THEN q ELSE q + 1), 1>>

\* How the value v may appear: as it is, rounded, truncated, as a percentage or
\* the reverse, as a ratio of basis points, and in whole tokens or as a plain
\* ratio when it is large enough to be a raw amount.  Rationals <<n, d>>.
Renderings(v) ==
    {<<v, 1>>, RoundTo(v, 1, Cent), <<Unit * (v \div Unit), 1>>}
      \cup {<<v * Percent, 1>>, RoundTo(v * Percent, 1, Cent), <<v, Percent>>, RoundTo(v, Percent, Cent)}
      \cup {<<v, Percent * Percent>>, RoundTo(v, Percent * Percent, 1)}
      \cup (IF v >= TokenUnit * Unit THEN {<<v, TokenUnit>>, RoundTo(v, TokenUnit, Cent)} ELSE {})
      \cup (IF v >= WadFloor * Unit THEN {<<v, WadUnit>>, RoundTo(v, WadUnit, 1)} ELSE {})

Greater(a, b) == IF a >= b THEN a ELSE b
Gap(a, b) == IF a >= b THEN a - b ELSE b - a

\* Within the relative tolerance of the larger of the two.
Matches(f, c) == Gap(f * c[2], c[1]) * Tolerance <= Greater(f * c[2], c[1])

\* The renderings of every allowed value are made before the prose is looked at, and
\* float(int(value)) of an infinite one raises OverflowError.
CheckRaises(allowed) == Infinite \in allowed

\* check(): the figures of the prose that match no rendering of an allowed value,
\* when CheckRaises does not hold.
Unverified(figures, allowed) ==
    {f \in figures \ Bare : ~\E v \in allowed : \E c \in Renderings(v) : Matches(f, c)}
=============================================================================
