----------------------------- MODULE AcceptMutex -----------------------------
(***************************************************************************)
(* How the processes of src/event share the listen sockets: the mutex      *)
(* ngx_accept_mutex decides who has them in its epoll, the loop of         *)
(* ngx_process_events_and_timers() takes it with trylock before every      *)
(* epoll_wait(), and ngx_accept_disabled lets a loaded worker stand back.  *)
(* The fork sets ngx_use_accept_mutex at every turn of that loop, so the   *)
(* cache manager and a worker that shuts down compete as well.             *)
(*                                                                         *)
(* The lock is the abstract owner that Shmtx implements: only trylock,     *)
(* unlock and force_unlock are used on it, one atomic step each.           *)
(* Modelled is `accept_mutex on' with level-triggered listen events.       *)
(***************************************************************************)
EXTENDS Integers, FiniteSets

CONSTANTS
    Workers,      \* worker processes
    Helpers,      \* cache manager and loader: no listen sockets, always a timer
    Listeners,    \* cycle->listening
    Free,         \* the value 0 of the lock
    ConnectionN,  \* cycle->connection_n, less the listeners' connections
    Eighth,       \* cycle->connection_n / 8
    MultiAccept,  \* the directive multi_accept
    MaxBacklog,   \* bound: connections waiting in the kernel, per listener
    MaxFaults     \* bound: crashes, failed epoll_ctl() calls, EMFILE answers

ASSUME AcceptAssumption ==
    /\ Workers \cap Helpers = {} /\ Free \notin Workers \cup Helpers
    /\ ConnectionN \in Nat \ {0}
    /\ Eighth \in Nat /\ MaxBacklog \in Nat /\ MaxFaults \in Nat
    /\ MultiAccept \in BOOLEAN

Procs == Workers \cup Helpers

VARIABLES
    lock,       \* the pid in ngx_accept_mutex
    held,       \* ngx_accept_mutex_held
    disabled,   \* ngx_accept_disabled
    listening,  \* the listeners in the epoll of each process (read->active)
    life,       \* "open"; "quit": ngx_quit is set; "exiting": listeners closed
    free,       \* cycle->free_connection_n
    pc,         \* where the process is in its event loop
    via,        \* how ngx_process_events_and_timers() reached epoll_wait()
    ready,      \* listeners whose accept handler is still to run
    backlog,    \* established connections accept() would return
    erred,      \* processes in which an epoll_ctl() on a listener has failed
    faults

proc == <<held, disabled, listening, life, free, pc, via, ready>>
vars == <<lock, proc, backlog, erred, faults>>

Init == /\ lock = Free
        /\ held = [p \in Procs |-> FALSE]
        /\ disabled = [p \in Procs |-> 0]
        /\ listening = [p \in Procs |-> {}]
        /\ life = [p \in Procs |-> "open"]
        /\ free = [p \in Procs |-> ConnectionN]
        /\ pc = [p \in Procs |-> "top"]
        /\ via = [p \in Procs |-> "skip"]
        /\ ready = [p \in Procs |-> {}]
        /\ backlog = [l \in Listeners |-> 0]
        /\ erred = {}
        /\ faults = 0

Goto(p, l) == pc' = [pc EXCEPT ![p] = l]
Wait(p, how) == Goto(p, "wait") /\ via' = [via EXCEPT ![p] = how]
Fault == faults < MaxFaults /\ faults' = faults + 1

(* The listeners the loop over cycle->listening reaches. *)
Served(p) == IF p \in Workers /\ life[p] # "exiting" THEN Listeners ELSE {}

-----------------------------------------------------------------------------
(* Taking the mutex: the first half of ngx_process_events_and_timers(). *)

AtTop(p) == pc[p] = "top" /\ (life[p] = "exiting" => free[p] < ConnectionN)

SkipLock(p) == /\ AtTop(p)
               /\ disabled[p] > 0
               /\ disabled' = [disabled EXCEPT ![p] = @ - 1]
               /\ Wait(p, "skip")
               /\ UNCHANGED <<lock, held, listening, life, free, ready, backlog, erred, faults>>

(* ngx_enable_accept_events(), when no epoll_ctl() fails. *)
Enabled(p) == IF held[p] THEN listening
                         ELSE [listening EXCEPT ![p] = Served(p)]

LockHeld(p) == /\ AtTop(p)
               /\ disabled[p] <= 0
               /\ lock = Free
               /\ lock' = p
               /\ listening' = Enabled(p)
               /\ held' = [held EXCEPT ![p] = TRUE]
               /\ Wait(p, "lock")
               /\ UNCHANGED <<disabled, life, free, ready, backlog, erred, faults>>

(* trylock succeeds, epoll_ctl() fails: no epoll_wait() in this turn. *)
EnableStart(p) == /\ AtTop(p)
                  /\ disabled[p] <= 0
                  /\ lock = Free
                  /\ ~held[p]
                  /\ listening[p] # Served(p)
                  /\ Fault
                  /\ erred' = erred \cup {p}
                  /\ lock' = p
                  /\ \E done \in SUBSET Served(p) :
                        /\ done # Served(p)
                        /\ listening' = [listening EXCEPT ![p] = @ \cup done]
                  /\ Goto(p, "enableErr")
                  /\ UNCHANGED <<held, disabled, life, free, via, ready, backlog>>

ErrorUnlocks(p) == IF lock = p THEN Free ELSE lock

EnableFailed(p) == /\ pc[p] = "enableErr"
                   /\ lock' = ErrorUnlocks(p)
                   /\ Goto(p, "failed")
                   /\ UNCHANGED <<held, disabled, listening, life, free, via, ready, backlog, erred, faults>>

(* Slip: ngx_accept_mutex_held is cleared but the listeners stay. *)
KeepsListening(p) == /\ held' = [held EXCEPT ![p] = FALSE]
                     /\ UNCHANGED listening

Withdraw(p) == /\ held' = [held EXCEPT ![p] = FALSE]
               /\ listening' = IF held[p] THEN [listening EXCEPT ![p] = {}] ELSE listening

LockMiss(p) == /\ AtTop(p)
               /\ disabled[p] <= 0
               /\ lock # Free
               /\ Withdraw(p)
               /\ Wait(p, "nolock")
               /\ UNCHANGED <<lock, disabled, life, free, ready, backlog, erred, faults>>

(* ngx_disable_accept_events() fails part way: held stays set. *)
DisableFails(p) == /\ AtTop(p)
                   /\ disabled[p] <= 0
                   /\ lock # Free
                   /\ held[p]
                   /\ listening[p] # {}
                   /\ Fault
                   /\ erred' = erred \cup {p}
                   /\ \E rest \in SUBSET listening[p] :
                         rest # {} /\ listening' = [listening EXCEPT ![p] = rest]
                   /\ Goto(p, "failed")
                   /\ UNCHANGED <<lock, held, disabled, life, free, via, ready, backlog>>

-----------------------------------------------------------------------------
(* ngx_process_events(): epoll_wait() and the events it reports. *)

HasTimer(p) == p \in Helpers \/ free[p] < ConnectionN
Bounded(p) == via[p] = "nolock" \/ HasTimer(p) \/ life[p] = "quit"
Readable(p) == {l \in listening[p] : backlog[l] > 0}

EpollReturns(p) == /\ pc[p] = "wait"
                   /\ Readable(p) # {} \/ Bounded(p)
                   /\ ready' = [ready EXCEPT ![p] = Readable(p)]
                   /\ Goto(p, "accept")
                   /\ UNCHANGED <<lock, held, disabled, listening, life, free, via, backlog, erred, faults>>

(* ngx_event_accept() for one listener of the batch. *)
AcceptNothing(p, l) == /\ backlog[l] = 0
                       /\ ready' = [ready EXCEPT ![p] = @ \ {l}]
                       /\ UNCHANGED <<lock, held, disabled, listening, life, free, pc, via, backlog, erred, faults>>

Take(p, room) == free' = [free EXCEPT ![p] = IF room > 0 THEN room - 1 ELSE 0]

(* With no free connection ngx_get_connection() closes idle ones; if there  *)
(* are none the new socket is closed at once.                               *)
AcceptOne(p, l) == /\ backlog[l] > 0
                   /\ backlog' = [backlog EXCEPT ![l] = @ - 1]
                   /\ disabled' = [disabled EXCEPT ![p] = Eighth - free[p]]
                   /\ \E drained \in IF free[p] = 0 THEN 0..ConnectionN ELSE {0} :
                         LET room == free[p] + drained IN
                         /\ Take(p, room)
                         /\ ready' = IF MultiAccept /\ room > 0
                                     THEN ready
                                     ELSE [ready EXCEPT ![p] = @ \ {l}]
                   /\ UNCHANGED <<lock, held, listening, life, pc, via, erred, faults>>

(* Slip: the mutex is unlocked but still marked as held. *)
UnlockOnly(p) == /\ lock' = IF held[p] /\ lock = p THEN Free ELSE lock
                 /\ UNCHANGED held

DropMutex(p) == /\ lock' = IF held[p] /\ lock = p THEN Free ELSE lock
                /\ held' = [held EXCEPT ![p] = FALSE]

(* accept() fails with EMFILE or ENFILE: drop all listeners and the mutex. *)
OutOfFiles(p, l) == /\ Fault
                    /\ listening' = [listening EXCEPT ![p] = {}]
                    /\ DropMutex(p)
                    /\ disabled' = [disabled EXCEPT ![p] = 1]
                    /\ ready' = [ready EXCEPT ![p] = @ \ {l}]
                    /\ UNCHANGED <<life, free, pc, via, backlog, erred>>

(* The same, but epoll_ctl() fails on the way: the rest is not done. *)
OutOfFilesFails(p, l) == /\ Fault
                         /\ erred' = erred \cup {p}
                         /\ \E rest \in SUBSET listening[p] :
                               rest # {} /\ listening' = [listening EXCEPT ![p] = rest]
                         /\ ready' = [ready EXCEPT ![p] = @ \ {l}]
                         /\ UNCHANGED <<lock, held, disabled, life, free, pc, via, backlog>>

Accept(p) == /\ pc[p] = "accept"
             /\ \E l \in ready[p] :
                   \/ AcceptNothing(p, l) \/ AcceptOne(p, l)
                   \/ OutOfFiles(p, l) \/ OutOfFilesFails(p, l)

(* Slip: the unlock after the accept handlers is forgotten. *)
KeepsLock(p) == lock

Unlocked(p) == IF held[p] /\ lock = p THEN Free ELSE lock

(* The mutex is given back before the other events are worked on. *)
Unlock(p) == /\ pc[p] = "accept"
             /\ ready[p] = {}
             /\ lock' = Unlocked(p)
             /\ via' = [via EXCEPT ![p] = "skip"]
             /\ Goto(p, "turn")
             /\ UNCHANGED <<held, disabled, listening, life, free, ready, backlog, erred, faults>>

-----------------------------------------------------------------------------
(* The rest of a turn: timers, posted events, and the flags of the signals. *)

CloseConnection(p) == /\ pc[p] = "turn"
                      /\ free[p] < ConnectionN
                      /\ free' = [free EXCEPT ![p] = @ + 1]
                      /\ UNCHANGED <<lock, held, disabled, listening, life, pc, via, ready, backlog, erred, faults>>

(* ngx_close_listening_sockets() and ngx_exiting = 1. *)
CloseListeners(p) == /\ listening' = [listening EXCEPT ![p] = {}]
                     /\ held' = [held EXCEPT ![p] = FALSE]
                     /\ life' = [life EXCEPT ![p] = "exiting"]

Turn(p) == /\ pc[p] \in {"turn", "failed"}
           /\ IF life[p] = "quit"
              THEN CloseListeners(p)
              ELSE UNCHANGED <<listening, held, life>>
           /\ Goto(p, "top")
           /\ UNCHANGED <<lock, disabled, free, via, ready, backlog, erred, faults>>

(* A shutting down worker without timers leaves. *)
Exit(p) == /\ pc[p] = "top"
           /\ life[p] = "exiting"
           /\ free[p] = ConnectionN
           /\ Goto(p, "dead")
           /\ UNCHANGED <<lock, held, disabled, listening, life, free, via, ready, backlog, erred, faults>>

QuitSignal(p) == /\ p \in Workers
                 /\ life[p] = "open"
                 /\ pc[p] # "dead"
                 /\ life' = [life EXCEPT ![p] = "quit"]
                 /\ UNCHANGED <<lock, held, disabled, listening, free, pc, via, ready, backlog, erred, faults>>

Crash(p) == /\ pc[p] \notin {"dead", "gone"}
            /\ Fault
            /\ Goto(p, "dead")
            /\ UNCHANGED <<lock, held, disabled, listening, life, free, via, ready, backlog, erred>>

(* Slip: the master does not unlock the mutex of a process that died. *)
ReapKeepsLock(p) == lock

ReapUnlocks(p) == IF lock = p THEN Free ELSE lock

(* The master: ngx_unlock_mutexes(), then a fresh process unless quitting. *)
Reap(p) == /\ pc[p] = "dead"
           /\ lock' = ReapUnlocks(p)
           /\ held' = [held EXCEPT ![p] = FALSE]
           /\ disabled' = [disabled EXCEPT ![p] = 0]
           /\ listening' = [listening EXCEPT ![p] = {}]
           /\ free' = [free EXCEPT ![p] = ConnectionN]
           /\ via' = [via EXCEPT ![p] = "skip"]
           /\ ready' = [ready EXCEPT ![p] = {}]
           /\ Goto(p, IF life[p] = "open" THEN "top" ELSE "gone")
           /\ erred' = erred \ {p}
           /\ UNCHANGED <<life, backlog, faults>>

Arrive(l) == /\ backlog[l] < MaxBacklog
             /\ backlog' = [backlog EXCEPT ![l] = @ + 1]
             /\ UNCHANGED <<lock, proc, erred, faults>>

-----------------------------------------------------------------------------
TryLock(p) == LockHeld(p) \/ LockMiss(p) \/ EnableStart(p) \/ DisableFails(p)

Step(p) == \/ SkipLock(p) \/ TryLock(p) \/ EnableFailed(p)
           \/ EpollReturns(p) \/ Accept(p) \/ Unlock(p)
           \/ Turn(p) \/ Exit(p) \/ Reap(p)

Next == \/ \E p \in Procs : \/ Step(p) \/ CloseConnection(p)
                            \/ QuitSignal(p) \/ Crash(p)
        \/ \E l \in Listeners : Arrive(l)

Spec == Init /\ [][Next]_vars

(* Every process runs its loop, and every connection ends one day: each has *)
(* a timer that expires in some turn.                                        *)
FairSpec == /\ Spec
            /\ \A p \in Procs : WF_vars(Step(p)) /\ SF_vars(CloseConnection(p))

-----------------------------------------------------------------------------
(* Shape of the state. *)
TypeOK == /\ lock \in Procs \cup {Free}
          /\ held \in [Procs -> BOOLEAN]
          /\ disabled \in [Procs -> Int]
          /\ listening \in [Procs -> SUBSET Listeners]
          /\ life \in [Procs -> {"open", "quit", "exiting"}]
          /\ free \in [Procs -> 0..ConnectionN]
          /\ pc \in [Procs -> {"top", "wait", "accept", "enableErr", "failed", "turn", "dead", "gone"}]
          /\ via \in [Procs -> {"skip", "lock", "nolock"}]
          /\ ready \in [Procs -> SUBSET Listeners]
          /\ backlog \in [Listeners -> 0..MaxBacklog]
          /\ erred \subseteq Procs
          /\ faults \in 0..MaxFaults

(* The owner of the mutex is inside the stretch from trylock to the unlock  *)
(* before the posted events, or it died there: no process sleeps or works   *)
(* on requests elsewhere with the mutex locked (ngx_event.c:402-404).       *)
OwnerInCriticalStretch ==
    \A p \in Procs : lock = p =>
        \/ pc[p] = "dead"
        \/ pc[p] = "enableErr"
        \/ pc[p] \in {"wait", "accept"} /\ via[p] = "lock" /\ held[p]

(* held says what epoll holds: a worker that marks the mutex as held and    *)
(* has not failed to withdraw listens on every listener it still has, so    *)
(* skipping ngx_enable_accept_events() (ngx_event_accept.c:410) is right.   *)
HeldMeansListening ==
    \A p \in Procs \ erred : pc[p] \notin {"dead", "gone"} =>
        listening[p] = IF held[p] THEN Served(p) ELSE {}

(* Of the processes that asked for the mutex before they went to sleep in   *)
(* epoll_wait(), only its owner has listeners in epoll: one connection does *)
(* not wake several of them.                                                *)
NoThunderingHerd ==
    \A p \in Procs \ erred :
        (pc[p] = "wait" /\ via[p] # "skip" /\ listening[p] # {}) => lock = p

(* Established connections are accepted in the end, unless the mutex goes   *)
(* to a process that has closed its listeners or could not register them    *)
(* all, or no worker asks for it any more.                                  *)
OwnerCannotAccept(p) == lock = p /\ pc[p] = "wait" /\ (Served(p) = {} \/ p \in erred)
Deaf(p) == \/ pc[p] = "gone" \/ life[p] # "open"
           \/ pc[p] = "wait" /\ via[p] = "skip" /\ listening[p] # Listeners
EventuallyAccepted ==
    \A l \in Listeners : backlog[l] = MaxBacklog ~>
        \/ backlog[l] < MaxBacklog
        \/ \E p \in Procs : OwnerCannotAccept(p)
        \/ \A p \in Workers : Deaf(p)

(* The comment of ngx_event.c:341: who holds the mutex has its listen       *)
(* descriptors in its epoll while it waits there.                           *)
OwnerListens ==
    \A p \in Procs : (lock = p /\ pc[p] = "wait") => listening[p] # {}

(* The comment of ngx_event_accept.c:148: a worker that ran out of files    *)
(* stands back once, then competes for the mutex again.                     *)
CompetesAgain ==
    \A p \in Workers :
        (pc[p] = "wait" /\ via[p] = "skip" /\ listening[p] = {}) ~>
            (via[p] # "skip" \/ listening[p] # {} \/ pc[p] \in {"dead", "gone"})
=============================================================================
