------------------------------- MODULE Mutex --------------------------------
(***************************************************************************)
(* What the shared-memory mutex of src/core/ngx_shmtx.c promises to its    *)
(* callers, without saying how: at most one owner, the owner is the        *)
(* process that holds the lock (alive or crashed), a crashed process is    *)
(* reaped by the master, which frees what the process owned.               *)
(***************************************************************************)
CONSTANTS Procs, None   \* None is not a process

VARIABLES owner,  \* the process the lock belongs to, or None
          phase   \* what each process is doing with the lock

vars == <<owner, phase>>

Phases == {"idle", "waiting", "holding", "dead", "gone"}

Init == /\ owner = None
        /\ phase = [p \in Procs |-> "idle"]

Become(p, ph) == phase' = [phase EXCEPT ![p] = ph]

Request(p) == /\ phase[p] = "idle"
              /\ Become(p, "waiting")
              /\ UNCHANGED owner

Acquire(p) == /\ phase[p] = "waiting"
              /\ owner = None
              /\ owner' = p
              /\ Become(p, "holding")

(* ngx_shmtx_trylock() from an idle process. *)
TryAcquire(p) == /\ phase[p] = "idle"
                 /\ owner = None
                 /\ owner' = p
                 /\ Become(p, "holding")

Release(p) == /\ phase[p] = "holding"
              /\ owner' = None
              /\ Become(p, "idle")

(* A process may die in any phase; the lock stays its own until it is reaped. *)
Crash(p) == /\ phase[p] \in {"idle", "waiting", "holding"}
            /\ Become(p, "dead")
            /\ UNCHANGED owner

Reap(p) == /\ phase[p] = "dead"
           /\ Become(p, "gone")
           /\ owner' = IF owner = p THEN None ELSE owner

Respawn(p) == /\ phase[p] = "gone"
              /\ Become(p, "idle")
              /\ UNCHANGED owner

Next == \E p \in Procs : \/ Request(p) \/ Acquire(p) \/ TryAcquire(p)
                         \/ Release(p) \/ Crash(p) \/ Reap(p) \/ Respawn(p)

Spec == Init /\ [][Next]_vars
=============================================================================
