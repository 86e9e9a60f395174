------------------------------ MODULE BusService ------------------------------
(* What the bus master promises the threads that use it: requests are served   *)
(* one at a time, and a request that has been accepted is completed once; the  *)
(* board may stop altogether.                                                  *)
CONSTANT Requesters
VARIABLES
    phase,     \* "idle", "active" (has the bus, no result yet) or "done"
    stopped    \* the board has stopped

vars == <<phase, stopped>>

Init == phase = [r \in Requesters |-> "idle"] /\ stopped = FALSE

\* The request gets the bus.
Accept(r) ==
    /\ ~stopped /\ phase[r] = "idle"
    /\ \A q \in Requesters : phase[q] # "active"
    /\ phase' = [phase EXCEPT ![r] = "active"]
    /\ UNCHANGED stopped

\* The request gets its result.
Finish(r) ==
    /\ ~stopped /\ phase[r] = "active"
    /\ phase' = [phase EXCEPT ![r] = "done"]
    /\ UNCHANGED stopped

\* The requester leaves with the result.
Leave(r) ==
    /\ ~stopped /\ phase[r] = "done"
    /\ phase' = [phase EXCEPT ![r] = "idle"]
    /\ UNCHANGED stopped

\* The board stops in the middle of a request.
Stop ==
    /\ ~stopped /\ \E r \in Requesters : phase[r] = "active"
    /\ stopped' = TRUE
    /\ UNCHANGED phase

Next == Stop \/ \E r \in Requesters : Accept(r) \/ Finish(r) \/ Leave(r)

Spec == Init /\ [][Next]_vars

\* No accepted request is forgotten, and nobody stays with a result.
FairSpec == Spec /\ \A r \in Requesters : WF_vars(Finish(r)) /\ WF_vars(Leave(r))

===============================================================================
