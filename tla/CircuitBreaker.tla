--------------------------- MODULE CircuitBreaker ---------------------------
(***************************************************************************)
(* The keeper's circuit breaker (backend/app/core/breaker.py): a streak of *)
(* failed rescues, a pause that only an operator clears, and the threshold *)
(* that PUT /config may change while the streak is running.                *)
(*                                                                         *)
(* The operators below are the methods of class CircuitBreaker; a caller   *)
(* conjoins them with what else it does between two awaits.                *)
(***************************************************************************)
EXTENDS Integers

CONSTANT Thresholds   \* values PUT /config may give max_consecutive_failures

\* KeeperConfig validates the threshold to 1..20: it is positive and bounded.
ASSUME ThresholdsAssumption ==
    /\ Thresholds \subseteq Nat \ {0}
    /\ \E n \in Thresholds : \A m \in Thresholds : m <= n

VARIABLES
    consecutive,      \* _consecutive: failed rescues since a success or a reset
    paused,           \* _paused
    reason,           \* _reason
    maxFailures       \* _max

breakerVars == <<consecutive, paused, reason, maxFailures>>

NoReason == "none"
TripReasons == {"consecutive_failures", "manual"}

BreakerTypeOK ==
    /\ consecutive \in Nat
    /\ paused \in BOOLEAN
    /\ reason \in TripReasons \cup {NoReason}
    /\ maxFailures \in Thresholds

BreakerInit ==
    /\ consecutive = 0
    /\ paused = FALSE
    /\ reason = NoReason
    /\ maxFailures \in Thresholds

-----------------------------------------------------------------------------
\* Mutant: allow() forgets the pause.
BreakerAllowsAlways == TRUE

BreakerAllows == ~paused

\* A success clears the streak and nothing else: a pause survives it.
RecordSuccess ==
    /\ consecutive' = 0
    /\ UNCHANGED <<paused, reason, maxFailures>>

\* Mutant: the threshold is compared with > instead of >=.
RecordFailureLate ==
    /\ consecutive' = consecutive + 1
    /\ IF consecutive + 1 > maxFailures /\ ~paused
         THEN paused' = TRUE /\ reason' = "consecutive_failures"
         ELSE UNCHANGED <<paused, reason>>
    /\ UNCHANGED maxFailures

\* A failure trips a breaker that is not yet paused once the streak is long enough.
RecordFailure ==
    /\ consecutive' = consecutive + 1
    /\ IF consecutive + 1 >= maxFailures /\ ~paused
         THEN paused' = TRUE /\ reason' = "consecutive_failures"
         ELSE UNCHANGED <<paused, reason>>
    /\ UNCHANGED maxFailures

\* The hard signal; POST /agent/panic is its only caller.
Trip(why) ==
    /\ paused' = TRUE
    /\ reason' = why
    /\ UNCHANGED <<consecutive, maxFailures>>

Reset ==
    /\ paused' = FALSE
    /\ reason' = NoReason
    /\ consecutive' = 0
    /\ UNCHANGED maxFailures

\* The setter behind PUT /config: it does not look at the running streak.
SetMaxFailures(n) ==
    /\ maxFailures' = n
    /\ UNCHANGED <<consecutive, paused, reason>>
=============================================================================
