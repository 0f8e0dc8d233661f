--------------------------- MODULE MCSessionSteps ---------------------------
(* Instances of SessionSteps for TLC: the event loop and one worker.       *)
EXTENDS SessionSteps, TLC

CONSTANTS loop, worker

MCWorkers == {worker}
MCNoTree == [p \in {} |-> Absent]
MCMaster == MASTER
=============================================================================
