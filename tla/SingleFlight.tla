---------------------------- MODULE SingleFlight ----------------------------
(***************************************************************************)
(* What the in-flight lock promises its callers, with no lock in sight:    *)
(* rescues of one borrower never overlap, each is ended by the task that   *)
(* began it, and a task runs one rescue at a time.  That a rescue ends is  *)
(* no part of it: the service states that as LockReleased.                 *)
(*                                                                         *)
(* flight[b] is the set of tasks that are between submitting a rescue of b *)
(* and seeing its outcome.                                                 *)
(***************************************************************************)
CONSTANTS Borrowers, Tasks

VARIABLE flight

Init == flight = [b \in Borrowers |-> {}]

Begin(t, b) ==
    /\ flight[b] = {}
    /\ \A a \in Borrowers : t \notin flight[a]
    /\ flight' = [flight EXCEPT ![b] = {t}]

End(t, b) ==
    /\ flight[b] = {t}
    /\ flight' = [flight EXCEPT ![b] = {}]

\* The process that ran the tasks is gone.
Lost == flight' = [b \in Borrowers |-> {}]

Next ==
    \/ Lost
    \/ \E t \in Tasks, b \in Borrowers : Begin(t, b) \/ End(t, b)

Spec == Init /\ [][Next]_flight
=============================================================================
