----------------------------- MODULE TaskService -----------------------------
(***************************************************************************)
(* What a thread pool promises the event loop of a worker: a posted task   *)
(* is run once, by one thread, in the order of posting, and only then      *)
(* completed, once, by the event loop; it may be posted again after that.  *)
(***************************************************************************)
EXTENDS Sequences

CONSTANTS Tasks

VARIABLES status,  \* where each task is in its life
          line     \* the posted tasks that no thread has taken yet

vars == <<status, line>>

Init == /\ status = [k \in Tasks |-> "idle"]
        /\ line = <<>>

Become(k, s) == status' = [status EXCEPT ![k] = s]

Post(k) == /\ status[k] = "idle"
           /\ Become(k, "posted")
           /\ line' = Append(line, k)

Take(k) == /\ line # <<>>
           /\ k = Head(line)
           /\ line' = Tail(line)
           /\ Become(k, "running")

Finish(k) == /\ status[k] = "running"
             /\ Become(k, "ran")
             /\ UNCHANGED line

Complete(k) == /\ status[k] = "ran"
               /\ Become(k, "idle")
               /\ UNCHANGED line

Next == \E k \in Tasks : Post(k) \/ Take(k) \/ Finish(k) \/ Complete(k)

Spec == Init /\ [][Next]_vars
=============================================================================
