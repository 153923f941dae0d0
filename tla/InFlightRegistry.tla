-------------------------- MODULE InFlightRegistry --------------------------
(***************************************************************************)
(* The per-borrower in-flight lock and cooldown                            *)
(* (backend/app/core/inflight.py).                                         *)
(*                                                                         *)
(* The code compares a monotonic clock with _cooldown_until[b]; the model  *)
(* keeps the time that is left, cooling[b] = max(0, until - clock), so     *)
(* that time needs no upper bound.                                         *)
(***************************************************************************)
EXTENDS Integers

CONSTANTS
    Borrowers,
    Cooldowns         \* values PUT /config may give cooldown_seconds

ASSUME CooldownsAssumption ==
    Cooldowns \subseteq Nat /\ Cooldowns # {}

VARIABLES
    locked,           \* keys of _locked
    cooling,          \* time left until _cooldown_until[b]
    cooldown          \* _cooldown

inflightVars == <<locked, cooling, cooldown>>

InFlightTypeOK ==
    /\ locked \subseteq Borrowers
    /\ cooling \in [Borrowers -> Nat]
    /\ cooldown \in Cooldowns

InFlightInit ==
    /\ locked = {}
    /\ cooling = [b \in Borrowers |-> 0]
    /\ cooldown \in Cooldowns

-----------------------------------------------------------------------------
IsLocked(b) == b \in locked

InCooldown(b) == cooling[b] > 0

\* Mutant: only the cooldown is looked at.
CanStartIfCool(b) == ~InCooldown(b)

CanStart(b) == ~IsLocked(b) /\ ~InCooldown(b)

\* acquire() returning True; a caller that finds ~CanStart(b) gets False and
\* changes nothing.
Acquire(b) ==
    /\ CanStart(b)
    /\ locked' = locked \cup {b}
    /\ UNCHANGED <<cooling, cooldown>>

\* release() is unconditional and always restarts the cooldown window.
Release(b) ==
    /\ locked' = locked \ {b}
    /\ cooling' = [cooling EXCEPT ![b] = cooldown]
    /\ UNCHANGED cooldown

\* The setter behind PUT /config: windows already running keep their end.
SetCooldown(n) ==
    /\ cooldown' = n
    /\ UNCHANGED <<locked, cooling>>

\* One unit of monotonic time.
Elapse ==
    /\ \E b \in Borrowers : InCooldown(b)
    /\ cooling' = [b \in Borrowers |-> IF InCooldown(b) THEN cooling[b] - 1 ELSE 0]
    /\ UNCHANGED <<locked, cooldown>>
=============================================================================
