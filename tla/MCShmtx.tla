------------------------------ MODULE MCShmtx -------------------------------
(* Small instances of the shared-memory mutex. *)
EXTENDS Shmtx

CONSTANTS p1, p2, p3

TwoProcs == {p1, p2}
ThreeProcs == {p1, p2, p3}
=============================================================================
