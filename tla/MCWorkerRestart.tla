--------------------------- MODULE MCWorkerRestart ---------------------------
(* An instance of WorkerRestart for TLC.                                    *)
EXTENDS WorkerRestart

OneChat == [s \in Sessions |-> "chat"]
=============================================================================
