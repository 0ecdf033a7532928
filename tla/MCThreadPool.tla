---------------------------- MODULE MCThreadPool -----------------------------
(* Three threads, three tasks, and a queue that overflows. *)
EXTENDS ThreadPool

CONSTANTS t1, t2, t3, k1, k2, k3

ThreeThreads == {t1, t2, t3}
ThreeTasks == {k1, k2, k3}
=============================================================================
