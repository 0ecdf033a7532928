---------------------------- MODULE MCAcceptMutex ----------------------------
(* Small instances of AcceptMutex for TLC. *)
EXTENDS AcceptMutex
=============================================================================
