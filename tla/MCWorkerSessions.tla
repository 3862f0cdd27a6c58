--------------------------- MODULE MCWorkerSessions ---------------------------
(* Instances of WorkerSessions for TLC.                                     *)
EXTENDS WorkerSessions

OneChat == [s \in Sessions |-> "chat"]
=============================================================================
