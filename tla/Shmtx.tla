------------------------------- MODULE Shmtx --------------------------------
(***************************************************************************)
(* The shared-memory mutex of src/core/ngx_shmtx.c, atomic-operations      *)
(* build: a lock word that holds the pid of its owner, a counter `wait' of *)
(* processes that announced they will sleep, and a POSIX semaphore.  Every *)
(* process runs the same code; the master also runs the forced unlock of   *)
(* ngx_unlock_mutexes() when it reaps a dead worker.                       *)
(*                                                                         *)
(* A test `*lock == 0 && cas(lock, 0, pid)' is one step here: a failed cas *)
(* after a successful read has the effect of a failed read at the time of  *)
(* the cas.  Reading `wait' and the cas on it are two steps, because the   *)
(* read value is kept in a local and the loop is retried.                  *)
(***************************************************************************)
EXTENDS Integers, FiniteSets

CONSTANTS
    Procs,        \* worker processes
    Master,       \* the master process
    Free,         \* the value 0 of the lock word
    SpinMax,      \* mtx->spin (2048 in the code)
    NCpu,         \* ngx_ncpu
    MaxFaults     \* bound: crashes and semaphore errors in one behaviour

Waking == {"wread", "wcas", "post"}       \* inside ngx_shmtx_wakeup()
Contending == {"try", "spin", "reg", "retry"}  \* awake in ngx_shmtx_lock()
Owning == {"unreg", "cs"}                 \* past a successful cas
Alive == {"idle", "sleep"} \cup Contending \cup Owning \cup Waking
Points == Alive \cup {"dead", "gone"}

ASSUME ShmtxAssumption ==
    /\ Master \notin Procs /\ Free \notin Procs
    /\ IsFiniteSet(Procs)
    /\ SpinMax \in Nat /\ NCpu \in Nat /\ MaxFaults \in Nat

AllProcs == Procs \cup {Master}

VARIABLES
    semaphore, \* mtx->semaphore: 1 if sem_init() succeeded
    lock,      \* the lock word: pid of the owner, or Free
    wait,      \* the announced sleepers; may legitimately drop below zero
    sem,       \* the value of the semaphore
    pc,        \* the program point of each process
    n,         \* the local n of the spin loop
    w,         \* the local `wait' of ngx_shmtx_wakeup()
    faults,    \* crashes and semaphore errors so far (bounded by MaxFaults)
    losses     \* history: processes that died with a wakeup in their hands

rest == <<semaphore, faults, losses>>
vars == <<semaphore, lock, wait, sem, pc, n, w, faults, losses>>

Init == /\ semaphore \in {0, 1}   \* ngx_shmtx_create() goes on when sem_init() fails
        /\ lock = Free
        /\ wait = 0
        /\ sem = 0
        /\ pc = [p \in AllProcs |-> "idle"]
        /\ n = [p \in Procs |-> 0]
        /\ w = [p \in AllProcs |-> 0]
        /\ faults = 0
        /\ losses = 0

Goto(p, l) == pc' = [pc EXCEPT ![p] = l]

-----------------------------------------------------------------------------
(* ngx_shmtx_trylock(): a failed attempt changes nothing. *)
Trylock(p) == /\ pc[p] = "idle"
              /\ lock = Free
              /\ lock' = p
              /\ Goto(p, "cs")
              /\ UNCHANGED <<wait, sem, n, w, rest>>

LockCall(p) == /\ pc[p] = "idle"
               /\ Goto(p, "try")
               /\ UNCHANGED <<lock, wait, sem, n, w, rest>>

(* Slip: the owner word is stored without comparing it with 0. *)
AcquireBlindly(p) == /\ pc[p] \in {"try", "spin"}
                     /\ lock' = p
                     /\ n' = [n EXCEPT ![p] = 0]
                     /\ Goto(p, "cs")
                     /\ UNCHANGED <<wait, sem, w, rest>>

(* The cas at the head of the loop or in the spin loop succeeds. *)
Acquire(p) == /\ pc[p] \in {"try", "spin"}
              /\ lock = Free
              /\ lock' = p
              /\ n' = [n EXCEPT ![p] = 0]
              /\ Goto(p, "cs")
              /\ UNCHANGED <<wait, sem, w, rest>>

(* What follows the spinning: the semaphore, or sched_yield() and again. *)
AfterSpin == IF semaphore = 1 THEN "reg" ELSE "try"

TryFails(p) == /\ pc[p] = "try"
               /\ lock # Free
               /\ IF NCpu > 1 /\ 1 < SpinMax
                  THEN n' = [n EXCEPT ![p] = 1] /\ Goto(p, "spin")
                  ELSE UNCHANGED n /\ Goto(p, AfterSpin)
               /\ UNCHANGED <<lock, wait, sem, w, rest>>

SpinFails(p) == /\ pc[p] = "spin"
                /\ lock # Free
                /\ IF 2 * n[p] < SpinMax
                   THEN n' = [n EXCEPT ![p] = 2 * @] /\ UNCHANGED pc
                   ELSE n' = [n EXCEPT ![p] = 0] /\ Goto(p, AfterSpin)
                /\ UNCHANGED <<lock, wait, sem, w, rest>>

(* Announce the sleep, then try the lock once more before sleeping. *)
Register(p) == /\ pc[p] = "reg"
               /\ wait' = wait + 1
               /\ Goto(p, "retry")
               /\ UNCHANGED <<lock, sem, n, w, rest>>

RetryAcquires(p) == /\ pc[p] = "retry"
                    /\ lock = Free
                    /\ lock' = p
                    /\ Goto(p, "unreg")
                    /\ UNCHANGED <<wait, sem, n, w, rest>>

(* Slip: going to sleep without the second look at the lock. *)
SleepAtOnce(p) == /\ pc[p] = "retry"
                  /\ Goto(p, "sleep")
                  /\ UNCHANGED <<lock, wait, sem, n, w, rest>>

RetryFails(p) == /\ pc[p] = "retry"
                 /\ lock # Free
                 /\ Goto(p, "sleep")
                 /\ UNCHANGED <<lock, wait, sem, n, w, rest>>

(* Slip: the announcement is not taken back. *)
ForgetUnregister(p) == /\ pc[p] = "unreg"
                       /\ Goto(p, "cs")
                       /\ UNCHANGED <<lock, wait, sem, n, w, rest>>

Unregister(p) == /\ pc[p] = "unreg"
                 /\ wait' = wait - 1
                 /\ Goto(p, "cs")
                 /\ UNCHANGED <<lock, sem, n, w, rest>>

(* sem_wait(): an EINTR return only repeats the call. *)
SemWait(p) == /\ pc[p] = "sleep"
              /\ sem > 0
              /\ sem' = sem - 1
              /\ Goto(p, "try")
              /\ UNCHANGED <<lock, wait, n, w, rest>>

(* Any other error is logged and the lock loop goes on without a token. *)
SemWaitError(p) == /\ pc[p] = "sleep"
                   /\ faults < MaxFaults
                   /\ faults' = faults + 1
                   /\ Goto(p, "try")
                   /\ UNCHANGED <<semaphore, lock, wait, sem, n, w, losses>>

-----------------------------------------------------------------------------
(* Slip: the unlocker wakes nobody. *)
NoWakeup == "idle"

(* ngx_shmtx_wakeup() is called when the cas on the lock word succeeded. *)
WakeupEntry == IF semaphore = 1 THEN "wread" ELSE "idle"

Unlock(p) == /\ pc[p] = "cs"
             /\ IF lock = p THEN lock' = Free /\ Goto(p, WakeupEntry)
                            ELSE UNCHANGED lock /\ Goto(p, "idle")
             /\ UNCHANGED <<wait, sem, n, w, rest>>

WakeRead(p) == /\ pc[p] = "wread"
               /\ IF wait <= 0 THEN UNCHANGED w /\ Goto(p, "idle")
                               ELSE w' = [w EXCEPT ![p] = wait] /\ Goto(p, "wcas")
               /\ UNCHANGED <<lock, wait, sem, n, rest>>

WakeCas(p) == /\ pc[p] = "wcas"
              /\ IF wait = w[p] THEN wait' = wait - 1 /\ Goto(p, "post")
                                ELSE UNCHANGED wait /\ Goto(p, "wread")
              /\ w' = [w EXCEPT ![p] = 0]
              /\ UNCHANGED <<lock, sem, n, rest>>

Post(p) == /\ pc[p] = "post"
           /\ sem' = sem + 1
           /\ Goto(p, "idle")
           /\ UNCHANGED <<lock, wait, n, w, rest>>

-----------------------------------------------------------------------------
(* A worker dies; what it left in shared memory stays. *)
Crash(p) == /\ pc[p] \in Alive
            /\ faults < MaxFaults
            /\ faults' = faults + 1
            /\ n' = [n EXCEPT ![p] = 0]
            /\ w' = [w EXCEPT ![p] = 0]
            /\ losses' = losses + (IF pc[p] \in Contending \cup Waking THEN 1 ELSE 0)
            /\ Goto(p, "dead")
            /\ UNCHANGED <<semaphore, lock, wait, sem>>

(* Slip: the forced unlock frees the lock whoever owns it. *)
ReapFreesAny(p) == /\ pc[p] = "dead"
                   /\ pc[Master] = "idle"
                   /\ lock' = Free
                   /\ pc' = [pc EXCEPT ![p] = "gone", ![Master] = WakeupEntry]
                   /\ UNCHANGED <<wait, sem, n, w, rest>>

(* SIGCHLD handler of the master: waitpid(), then ngx_shmtx_force_unlock()
   on behalf of the dead pid. *)
Reap(p) == /\ pc[p] = "dead"
           /\ pc[Master] = "idle"
           /\ IF lock = p
              THEN /\ lock' = Free
                   /\ pc' = [pc EXCEPT ![p] = "gone", ![Master] = WakeupEntry]
              ELSE UNCHANGED lock /\ Goto(p, "gone")
           /\ UNCHANGED <<wait, sem, n, w, rest>>

(* The master spawns a replacement worker once the handler has returned. *)
Respawn(p) == /\ pc[p] = "gone"
              /\ pc[Master] = "idle"
              /\ Goto(p, "idle")
              /\ UNCHANGED <<lock, wait, sem, n, w, rest>>

-----------------------------------------------------------------------------
(* The steps of ngx_shmtx_lock() after the call. *)
LockStep(p) == \/ Acquire(p) \/ TryFails(p) \/ SpinFails(p) \/ Register(p)
               \/ RetryAcquires(p) \/ RetryFails(p) \/ Unregister(p) \/ SemWait(p)

WakeStep(p) == WakeRead(p) \/ WakeCas(p) \/ Post(p)

Next == \/ \E p \in Procs : \/ Trylock(p) \/ LockCall(p) \/ LockStep(p)
                            \/ SemWaitError(p) \/ Unlock(p)
                            \/ Crash(p) \/ Reap(p) \/ Respawn(p)
        \/ \E p \in AllProcs : WakeStep(p)

Spec == Init /\ [][Next]_vars

(* A process that is inside ngx_shmtx_lock() or ngx_shmtx_wakeup() is
   scheduled; callers need not ever call, die, or fail. *)
CodeFairness == /\ \A p \in Procs : WF_vars(LockStep(p))
                /\ \A p \in AllProcs : WF_vars(WakeStep(p))

(* Critical sections are finite, and the master reaps its children. *)
ClientFairness == \A p \in Procs : WF_vars(Unlock(p)) /\ WF_vars(Reap(p))

FairSpec == Spec /\ CodeFairness /\ ClientFairness

-----------------------------------------------------------------------------
TypeOK == /\ semaphore \in {0, 1}
          /\ lock \in Procs \cup {Free}
          /\ wait \in Int
          /\ sem \in Nat
          /\ pc \in [AllProcs -> Points]
          /\ n \in [Procs -> Nat]
          /\ w \in [AllProcs -> Int]
          /\ faults \in 0..MaxFaults
          /\ losses \in 0..faults

(* Two processes are never past a successful acquisition at once, whatever
   crashed and was force-unlocked on the way (ngx_shmtx_lock, _trylock,
   _force_unlock). *)
MutualExclusion == \A p, q \in Procs :
                      pc[p] \in Owning /\ pc[q] \in Owning => p = q

(* Those who announced a sleep and have neither slept nor withdrawn, and
   those who took an announcement off the counter and owe a sem_post(). *)
Registered == {p \in Procs : pc[p] \in {"retry", "unreg", "sleep"}}
Posting == {p \in AllProcs : pc[p] = "post"}
Imbalance == wait + sem + Cardinality(Posting) - Cardinality(Registered)

(* Every announcement is in the counter, on its way, or a token in the
   semaphore: the counter going negative, a late wakeup for somebody who got
   the lock by himself, and the retry loops never create or lose one.  Only
   the death of a waker loses one, and each crash or semaphore error leaves
   at most one too many (ngx_shmtx_lock, ngx_shmtx_wakeup). *)
TokenConservation == Imbalance \in -losses .. faults

(* A free lock and a sleeper: there is a token for it, or somebody awake who
   will try the lock or look at the counter. *)
SleeperWillWake ==
    lock = Free /\ (\E p \in Procs : pc[p] = "sleep")
        => sem > 0 \/ \E q \in AllProcs : pc[q] \in Contending \cup Waking

(* No wakeup is lost by the races of ngx_shmtx_lock(), ngx_shmtx_wakeup() and
   the forced unlock, also when owners and sleepers die. *)
NoLostWakeup == losses = 0 => SleeperWillWake

(* A process that sleeps on the mutex sleeps until another one releases the
   lock: the comment at ngx_shmtx.c:209, with no exception for processes that
   die in between (ngx_unlock_mutexes() exists to undo such deaths). *)
SleepsOnlyUntilRelease == SleeperWillWake

PhaseOf(l) == CASE l \in {"idle"} \cup Waking -> "idle"
                [] l \in Contending \cup {"sleep"} -> "waiting"
                [] l \in Owning -> "holding"
                [] l \in {"dead", "gone"} -> l

(* The abstract mutex this code implements. *)
AbsMutex == INSTANCE Mutex WITH None <- Free,
                                owner <- lock,
                                phase <- [p \in Procs |-> PhaseOf(pc[p])]

(* Every step of lock, trylock, unlock, wakeup and forced unlock is a step of
   the abstract mutex or changes nothing its callers can see. *)
ImplementsMutex == AbsMutex!Spec

(* With a scheduler fair to the code, and unless a process dies with a wakeup
   in its hands, a free lock that somebody wants does not stay free. *)
FreeLockIsTaken ==
    ([](losses = 0)) => []<>(lock # Free \/ \A p \in Procs : PhaseOf(pc[p]) # "waiting")
=============================================================================
