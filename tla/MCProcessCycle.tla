--------------------------- MODULE MCProcessCycle ----------------------------
(* Small instances of ProcessCycle for TLC. *)
EXTENDS ProcessCycle

(* worker_processes 1; a cache path adds processes, of which the loader ends  *)
(* by itself and is not started again.                                        *)
WorkerOnly == <<"worker">>
WorkerLoader == <<"worker", "cache loader">>
=============================================================================
