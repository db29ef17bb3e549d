-------------------------------- MODULE Calls --------------------------------
(***************************************************************************)
(* The requests the API server works on at one time.  A request that reads *)
(* the database before it writes keeps what it read in its record.         *)
(***************************************************************************)
CONSTANT Requests

VARIABLE call

Idle == [op |-> "idle"]
CallsInit == call = [r \in Requests |-> Idle]
Become(r, c) == call' = [call EXCEPT ![r] = c]
Begin(r, c) == call[r] = Idle /\ Become(r, c)
Finish(r) == Become(r, Idle)
=============================================================================
