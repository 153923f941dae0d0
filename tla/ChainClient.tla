----------------------------- MODULE ChainClient -----------------------------
(***************************************************************************)
(* The RPC client (backend/app/chain/client.py): every read of the keeper  *)
(* goes through call(), which retries one endpoint, then fails over to the *)
(* next, and remembers in _active the endpoint that answered last.         *)
(*                                                                         *)
(* One client serves every task of the process.  _active is shared, and    *)
(* call() reads it again whenever it moves on, so concurrent calls steer   *)
(* each other.  Each action is the code between two awaits:                *)
(*                                                                         *)
(*   "idle"    no call                                                     *)
(*   "trying"  await fn(provider)                                          *)
(*   "asleep"  await asyncio.sleep after a transport error                 *)
(***************************************************************************)
EXTENDS Integers

CONSTANTS
    Callers,
    Endpoints,    \* len(_providers)
    MaxRetries    \* rpc_max_retries

\* The constructor refuses an empty list of URLs.
ASSUME ClientAssumption ==
    /\ Endpoints \in Nat \ {0}
    /\ MaxRetries \in Nat \ {0}

Indices == 0 .. Endpoints - 1

VARIABLES
    active,       \* _active
    pc,
    offset, idx, attempt,    \* loop variables of each call
    outcome,      \* how the last call of a caller ended
    tried,        \* endpoints the call has asked
    steered,      \* calls during which _active changed
    up            \* endpoints that answer

callVars == <<offset, idx, attempt>>
vars == <<active, pc, callVars, outcome, tried, steered, up>>

Outcomes == {"none", "answered", "raised", "exhausted"}

TypeOK ==
    /\ active \in Indices
    /\ pc \in [Callers -> {"idle", "trying", "asleep"}]
    /\ offset \in [Callers -> Indices]
    /\ idx \in [Callers -> Indices]
    /\ attempt \in [Callers -> 1..MaxRetries]
    /\ outcome \in [Callers -> Outcomes]
    /\ tried \in [Callers -> SUBSET Indices]
    /\ steered \subseteq Callers
    /\ up \subseteq Indices

Init ==
    /\ active = 0
    /\ pc = [c \in Callers |-> "idle"]
    /\ offset = [c \in Callers |-> 0]
    /\ idx = [c \in Callers |-> 0]
    /\ attempt = [c \in Callers |-> 1]
    /\ outcome = [c \in Callers |-> "none"]
    /\ tried = [c \in Callers |-> {}]
    /\ steered = {}
    /\ up \in SUBSET Indices

-----------------------------------------------------------------------------
(* call().                                                                 *)

Goto(c, s) == pc' = [pc EXCEPT ![c] = s]

Return(c, how) ==
    /\ Goto(c, "idle")
    /\ outcome' = [outcome EXCEPT ![c] = how]

\* Mutant: failing over asks the active endpoint again.
NotRotated(o) == (active + 0 * o) % Endpoints

\* The o-th endpoint from the one that is active now.
Rotated(o) == (active + o) % Endpoints

\* Mutant: the index is not reduced.
TurnToUnwrapped(c, o) ==
    /\ offset' = [offset EXCEPT ![c] = o]
    /\ idx' = [idx EXCEPT ![c] = active + o]
    /\ attempt' = [attempt EXCEPT ![c] = 1]

\* The head of the loop over the offsets.
TurnTo(c, o) ==
    /\ offset' = [offset EXCEPT ![c] = o]
    /\ idx' = [idx EXCEPT ![c] = Rotated(o)]
    /\ attempt' = [attempt EXCEPT ![c] = 1]

Begin(c) ==
    /\ pc[c] = "idle"
    /\ TurnTo(c, 0)
    /\ Goto(c, "trying")
    /\ outcome' = [outcome EXCEPT ![c] = "none"]
    /\ tried' = [tried EXCEPT ![c] = {active}]
    /\ steered' = steered \ {c}
    /\ UNCHANGED <<active, up>>

\* fn answered: stick to this endpoint.
Succeeds(c) ==
    /\ pc[c] = "trying"
    /\ idx[c] \in up
    /\ active' = idx[c]
    /\ steered' = IF active' = active THEN steered ELSE steered \cup (Callers \ {c})
    /\ Return(c, "answered")
    /\ UNCHANGED <<callVars, tried, up>>

\* A revert or a bad value: no retry, no failover, and _active is kept.
Raises(c) ==
    /\ pc[c] = "trying"
    /\ idx[c] \in up
    /\ Return(c, "raised")
    /\ UNCHANGED <<active, callVars, tried, steered, up>>

\* A transport error: the endpoint is down, or was while the call was out.
Fails(c) ==
    /\ pc[c] = "trying"
    /\ idx[c] \notin up
    /\ Goto(c, "asleep")
    /\ UNCHANGED <<active, callVars, outcome, tried, steered, up>>

Retry(c) ==
    /\ pc[c] = "asleep"
    /\ attempt[c] < MaxRetries
    /\ attempt' = [attempt EXCEPT ![c] = @ + 1]
    /\ Goto(c, "trying")
    /\ UNCHANGED <<active, offset, idx, outcome, tried, steered, up>>

FailOver(c) ==
    /\ pc[c] = "asleep"
    /\ attempt[c] = MaxRetries
    /\ offset[c] + 1 < Endpoints
    /\ TurnTo(c, offset[c] + 1)
    /\ tried' = [tried EXCEPT ![c] = @ \cup {Rotated(offset[c] + 1)}]
    /\ Goto(c, "trying")
    /\ UNCHANGED <<active, outcome, steered, up>>

\* ChainClientError.
Exhausted(c) ==
    /\ pc[c] = "asleep"
    /\ attempt[c] = MaxRetries
    /\ offset[c] + 1 = Endpoints
    /\ Return(c, "exhausted")
    /\ UNCHANGED <<active, callVars, tried, steered, up>>

CallStep(c) ==
    \/ Succeeds(c)
    \/ Raises(c)
    \/ Fails(c)
    \/ Retry(c)
    \/ FailOver(c)
    \/ Exhausted(c)

\* Endpoints come and go.
Outage == up' \in SUBSET Indices /\ UNCHANGED <<active, pc, callVars, outcome, tried, steered>>

Next == (\E c \in Callers : Begin(c) \/ CallStep(c)) \/ Outage

Spec == Init /\ [][Next]_vars

\* Requests carry a timeout, so a call that is out or asleep moves on.
FairSpec == Spec /\ \A c \in Callers : WF_vars(CallStep(c))

-----------------------------------------------------------------------------
(* Properties.                                                             *)

\* ChainClientError, "Raised when every configured RPC endpoint fails a call": a
\* call that gives up has asked every endpoint.  The code does not keep it: idx
\* is recomputed from the shared _active, so the success of a concurrent call can
\* turn the rotation back onto the endpoint that has just failed.
ExhaustedAskedAll ==
    \A c \in Callers : outcome[c] = "exhausted" => tried[c] = Indices

\* What is left of it: the only calls that give up with an endpoint unasked are
\* those under which another call moved _active.
UnsteeredAskedAll ==
    \A c \in Callers :
        outcome[c] = "exhausted" => tried[c] = Indices \/ c \in steered

\* Once the set of reachable endpoints is stable and not empty, only finitely
\* many calls give up: concurrent calls do not keep steering each other past the
\* endpoints that answer.
OutageEnds ==
    \A reachable \in SUBSET Indices \ {{}} :
        <>[](up = reachable) => <>[][~ \E c \in Callers : Exhausted(c)]_vars
=============================================================================
