---------------------------- MODULE Shmtx_proofs ----------------------------
(***************************************************************************)
(* Proofs about the shared-memory mutex, for any finite set of workers,    *)
(* any spin bound and any number of crashes.                               *)
(***************************************************************************)
EXTENDS Shmtx, FiniteSetTheorems, TLAPS

-----------------------------------------------------------------------------
(* TypeOK holds in every state the mutex code can reach. *)
THEOREM TypeCorrect == Spec => []TypeOK
<1>1. Init => TypeOK
  BY ShmtxAssumption DEF ShmtxAssumption, Init, TypeOK, AllProcs, Points, Alive,
                               Contending, Waking, Owning
<1>2. TypeOK /\ [Next]_vars => TypeOK'
  <2> SUFFICES ASSUME TypeOK, [Next]_vars PROVE TypeOK'
    OBVIOUS
  <2> USE ShmtxAssumption DEF ShmtxAssumption, TypeOK, Points, Alive, Contending, Waking, Owning,
          AllProcs, Goto, rest
  <2>1. ASSUME NEW p \in Procs, Trylock(p) PROVE TypeOK'
    BY <2>1 DEF Trylock
  <2>2. ASSUME NEW p \in Procs, LockCall(p) PROVE TypeOK'
    BY <2>2 DEF LockCall
  <2>3. ASSUME NEW p \in Procs, LockStep(p) PROVE TypeOK'
    <3>1. CASE Acquire(p)
      BY <3>1 DEF Acquire
    <3>2. CASE TryFails(p)
      BY <3>2 DEF TryFails, AfterSpin
    <3>3. CASE SpinFails(p)
      BY <3>3 DEF SpinFails, AfterSpin
    <3>4. CASE Register(p)
      BY <3>4 DEF Register
    <3>5. CASE RetryAcquires(p) \/ RetryFails(p)
      BY <3>5 DEF RetryAcquires, RetryFails
    <3>6. CASE Unregister(p)
      BY <3>6 DEF Unregister
    <3>7. CASE SemWait(p)
      BY <3>7 DEF SemWait
    <3> QED BY <2>3, <3>1, <3>2, <3>3, <3>4, <3>5, <3>6, <3>7 DEF LockStep
  <2>4. ASSUME NEW p \in Procs, SemWaitError(p) PROVE TypeOK'
    BY <2>4 DEF SemWaitError
  <2>5. ASSUME NEW p \in Procs, Unlock(p) PROVE TypeOK'
    BY <2>5 DEF Unlock, WakeupEntry
  <2>6. ASSUME NEW p \in Procs, Crash(p) PROVE TypeOK'
    BY <2>6 DEF Crash
  <2>7. ASSUME NEW p \in Procs, Reap(p) PROVE TypeOK'
    BY <2>7 DEF Reap, WakeupEntry
  <2>8. ASSUME NEW p \in Procs, Respawn(p) PROVE TypeOK'
    BY <2>8 DEF Respawn
  <2>9. ASSUME NEW p \in AllProcs, WakeStep(p) PROVE TypeOK'
    BY <2>9 DEF WakeStep, WakeRead, WakeCas, Post
  <2>10. CASE UNCHANGED vars
    BY <2>10 DEF vars
  <2> QED BY <2>1, <2>2, <2>3, <2>4, <2>5, <2>6, <2>7, <2>8, <2>9, <2>10 DEF Next
<1> QED BY <1>1, <1>2, PTL DEF Spec

-----------------------------------------------------------------------------
(* Whoever is past a successful cas is the owner in the lock word. *)
OwnerInv == \A p \in Procs : pc[p] \in Owning => lock = p

LEMMA OwnerInvStep == TypeOK /\ OwnerInv /\ [Next]_vars => OwnerInv'
<1> SUFFICES ASSUME TypeOK, OwnerInv, [Next]_vars PROVE OwnerInv'
  OBVIOUS
<1> USE ShmtxAssumption DEF ShmtxAssumption, TypeOK, OwnerInv, Points, Alive, Contending, Waking,
        Owning, AllProcs, Goto, rest
<1>1. ASSUME NEW p \in Procs, Trylock(p) \/ LockCall(p) PROVE OwnerInv'
  BY <1>1 DEF Trylock, LockCall
<1>2. ASSUME NEW p \in Procs, LockStep(p) PROVE OwnerInv'
  <2>1. CASE Acquire(p) \/ RetryAcquires(p)
    BY <2>1 DEF Acquire, RetryAcquires
  <2>2. CASE TryFails(p) \/ SpinFails(p)
    BY <2>2 DEF TryFails, SpinFails, AfterSpin
  <2>3. CASE Register(p) \/ RetryFails(p) \/ Unregister(p) \/ SemWait(p)
    BY <2>3 DEF Register, RetryFails, Unregister, SemWait
  <2> QED BY <1>2, <2>1, <2>2, <2>3 DEF LockStep
<1>3. ASSUME NEW p \in Procs, Unlock(p) PROVE OwnerInv'
  BY <1>3 DEF Unlock, WakeupEntry
<1>4. ASSUME NEW p \in Procs, SemWaitError(p) \/ Crash(p) \/ Respawn(p) PROVE OwnerInv'
  BY <1>4 DEF SemWaitError, Crash, Respawn
<1>5. ASSUME NEW p \in Procs, Reap(p) PROVE OwnerInv'
  BY <1>5 DEF Reap, WakeupEntry
<1>6. ASSUME NEW p \in AllProcs, WakeStep(p) PROVE OwnerInv'
  BY <1>6 DEF WakeStep, WakeRead, WakeCas, Post
<1>7. CASE UNCHANGED vars
  BY <1>7 DEF vars
<1> QED BY <1>1, <1>2, <1>3, <1>4, <1>5, <1>6, <1>7 DEF Next

THEOREM OwnerCorrect == Spec => []OwnerInv
<1>1. Init => OwnerInv
  BY DEF Init, OwnerInv, AllProcs, Owning
<1> QED BY <1>1, OwnerInvStep, TypeCorrect, PTL DEF Spec

(* The mutex excludes: two processes are never past a successful acquisition
   at once, whatever crashed and was force-unlocked on the way. *)
THEOREM Exclusion == Spec => []MutualExclusion
<1>1. OwnerInv => MutualExclusion
  BY DEF OwnerInv, MutualExclusion
<1> QED BY <1>1, OwnerCorrect, PTL
-----------------------------------------------------------------------------
(* Counting the announced sleepers and the pending posts. *)
RegPoints == {"retry", "unreg", "sleep"}

LEMMA Counts ==
  ASSUME TypeOK
  PROVE  /\ IsFiniteSet(Registered) /\ Cardinality(Registered) \in Nat
         /\ IsFiniteSet(Posting) /\ Cardinality(Posting) \in Nat
         /\ Imbalance \in Int
<1>1. IsFiniteSet(Procs) /\ IsFiniteSet(AllProcs)
  BY ShmtxAssumption, FS_AddElement DEF ShmtxAssumption, AllProcs
<1>2. Registered \subseteq Procs /\ Posting \subseteq AllProcs
  BY DEF Registered, Posting
<1>3. IsFiniteSet(Registered) /\ IsFiniteSet(Posting)
  BY <1>1, <1>2, FS_Subset
<1>4. Cardinality(Registered) \in Nat /\ Cardinality(Posting) \in Nat
  BY <1>3, FS_CardinalityType
<1> QED BY <1>3, <1>4 DEF TypeOK, Imbalance

(* A step of one process between points that count for neither set. *)
LEMMA PlainMove ==
  ASSUME TypeOK, NEW p \in AllProcs, NEW l, Goto(p, l),
         pc[p] \notin RegPoints \cup {"post"}, l \notin RegPoints \cup {"post"}
  PROVE  Registered' = Registered /\ Posting' = Posting
BY DEF TypeOK, Goto, RegPoints, Registered, Posting, AllProcs

LEMMA Enter ==
  ASSUME TypeOK, NEW p \in Procs, NEW l \in RegPoints, Goto(p, l),
         pc[p] \notin RegPoints \cup {"post"}
  PROVE  /\ Cardinality(Registered') = Cardinality(Registered) + 1
         /\ Posting' = Posting
<1>1. Registered' = Registered \cup {p} /\ p \notin Registered
  BY DEF TypeOK, Goto, RegPoints, Registered, AllProcs
<1>2. Posting' = Posting
  BY DEF TypeOK, Goto, RegPoints, Posting, AllProcs
<1> QED BY <1>1, <1>2, Counts, FS_AddElement

LEMMA Leave ==
  ASSUME TypeOK, NEW p \in Procs, NEW l, Goto(p, l),
         pc[p] \in RegPoints, l \notin RegPoints \cup {"post"}
  PROVE  /\ Cardinality(Registered') = Cardinality(Registered) - 1
         /\ Posting' = Posting
<1>1. Registered' = Registered \ {p} /\ p \in Registered
  BY DEF TypeOK, Goto, RegPoints, Registered, AllProcs
<1>2. Posting' = Posting
  BY DEF TypeOK, Goto, RegPoints, Posting, AllProcs
<1> QED BY <1>1, <1>2, Counts, FS_RemoveElement

LEMMA Promise ==
  ASSUME TypeOK, NEW p \in AllProcs, Goto(p, "post"), pc[p] = "wcas"
  PROVE  /\ Cardinality(Posting') = Cardinality(Posting) + 1
         /\ Registered' = Registered
<1>1. Posting' = Posting \cup {p} /\ p \notin Posting
  BY DEF TypeOK, Goto, Posting, AllProcs
<1>2. Registered' = Registered
  BY DEF TypeOK, Goto, Registered, AllProcs
<1> QED BY <1>1, <1>2, Counts, FS_AddElement

LEMMA Fulfil ==
  ASSUME TypeOK, NEW p \in AllProcs, NEW l, Goto(p, l), pc[p] = "post",
         l \notin RegPoints \cup {"post"}
  PROVE  /\ Cardinality(Posting') = Cardinality(Posting) - 1
         /\ Registered' = Registered
<1>1. Posting' = Posting \ {p} /\ p \in Posting
  BY DEF TypeOK, Goto, RegPoints, Posting, AllProcs
<1>2. Registered' = Registered
  BY DEF TypeOK, Goto, RegPoints, Registered, AllProcs
<1> QED BY <1>1, <1>2, Counts, FS_RemoveElement

-----------------------------------------------------------------------------
LEMMA TokenStep == TypeOK /\ TokenConservation /\ [Next]_vars => TokenConservation'
<1> SUFFICES ASSUME TypeOK, TokenConservation, [Next]_vars PROVE TokenConservation'
  OBVIOUS
<1> USE ShmtxAssumption, Counts DEF ShmtxAssumption, TokenConservation, Imbalance,
        TypeOK, AllProcs, rest
<1>1. ASSUME NEW p \in Procs, Trylock(p) \/ LockCall(p) PROVE TokenConservation'
  BY <1>1, PlainMove DEF Trylock, LockCall, RegPoints
<1>2. ASSUME NEW p \in Procs, LockStep(p) PROVE TokenConservation'
  <2>1. CASE Acquire(p)
    BY <2>1, PlainMove DEF Acquire, RegPoints
  <2>2. CASE TryFails(p)
    BY <2>2, PlainMove DEF TryFails, AfterSpin, RegPoints
  <2>3. CASE SpinFails(p)
    <3>1. CASE pc' = pc
      BY <2>3, <3>1 DEF SpinFails, Registered, Posting
    <3>2. CASE Goto(p, AfterSpin)
      BY <2>3, <3>2, PlainMove DEF SpinFails, AfterSpin, RegPoints
    <3> QED BY <2>3, <3>1, <3>2 DEF SpinFails
  <2>4. CASE Register(p)
    BY <2>4, Enter DEF Register, RegPoints
  <2>5. CASE RetryAcquires(p) \/ RetryFails(p)
    <3>1. Registered' = Registered /\ Posting' = Posting
      BY <2>5 DEF RetryAcquires, RetryFails, Goto, Registered, Posting
    <3> QED BY <2>5, <3>1 DEF RetryAcquires, RetryFails
  <2>6. CASE Unregister(p)
    BY <2>6, Leave DEF Unregister, RegPoints
  <2>7. CASE SemWait(p)
    BY <2>7, Leave DEF SemWait, RegPoints
  <2> QED BY <1>2, <2>1, <2>2, <2>3, <2>4, <2>5, <2>6, <2>7 DEF LockStep
<1>3. ASSUME NEW p \in Procs, SemWaitError(p) PROVE TokenConservation'
  BY <1>3, Leave DEF SemWaitError, RegPoints
<1>4. ASSUME NEW p \in Procs, Unlock(p) PROVE TokenConservation'
  BY <1>4, PlainMove DEF Unlock, WakeupEntry, RegPoints
<1>5. ASSUME NEW p \in Procs, Crash(p) PROVE TokenConservation'
  <2>1. losses' \in losses .. losses + 1 /\ faults' = faults + 1
    BY <1>5 DEF Crash
  <2>2. CASE pc[p] = "post"
    BY <1>5, <2>1, <2>2, Fulfil DEF Crash, RegPoints, Waking
  <2>3. CASE pc[p] \in RegPoints
    BY <1>5, <2>1, <2>3, Leave DEF Crash, RegPoints
  <2>4. CASE pc[p] \notin RegPoints \cup {"post"}
    BY <1>5, <2>1, <2>4, PlainMove DEF Crash, RegPoints
  <2> QED BY <2>2, <2>3, <2>4
<1>6. ASSUME NEW p \in Procs, Reap(p) PROVE TokenConservation'
  <2>1. Registered' = Registered /\ Posting' = Posting
    BY <1>6 DEF Reap, Goto, WakeupEntry, Registered, Posting
  <2> QED BY <1>6, <2>1 DEF Reap
<1>7. ASSUME NEW p \in Procs, Respawn(p) PROVE TokenConservation'
  BY <1>7, PlainMove DEF Respawn, RegPoints
<1>8. ASSUME NEW p \in AllProcs, WakeRead(p) PROVE TokenConservation'
  BY <1>8, PlainMove DEF WakeRead, RegPoints
<1>9. ASSUME NEW p \in AllProcs, WakeCas(p) PROVE TokenConservation'
  <2>1. CASE wait = w[p]
    BY <1>9, <2>1, Promise DEF WakeCas
  <2>2. CASE wait # w[p]
    BY <1>9, <2>2, PlainMove DEF WakeCas, RegPoints
  <2> QED BY <2>1, <2>2
<1>10. ASSUME NEW p \in AllProcs, Post(p) PROVE TokenConservation'
  BY <1>10, Fulfil DEF Post, RegPoints
<1>11. CASE UNCHANGED vars
  BY <1>11 DEF vars, Registered, Posting
<1> QED BY <1>1, <1>2, <1>3, <1>4, <1>5, <1>6, <1>7, <1>8, <1>9, <1>10, <1>11
        DEF Next, WakeStep

(* No announcement is created or lost: only the death of a waker takes one
   away, only crashes and semaphore errors leave one over. *)
THEOREM Conservation == Spec => []TokenConservation
<1>1. Init => TokenConservation
  <2> SUFFICES ASSUME Init PROVE TokenConservation
    OBVIOUS
  <2>1. Registered = {} /\ Posting = {}
    BY DEF Init, Registered, Posting, AllProcs
  <2> QED BY <2>1, FS_EmptySet DEF Init, TokenConservation, Imbalance
<1> QED BY <1>1, TokenStep, TypeCorrect, PTL DEF Spec
-----------------------------------------------------------------------------
(* Without a semaphore nobody announces a sleep. *)
NoSemNoSleep == semaphore = 0 =>
                  \A p \in Procs : pc[p] \notin RegPoints \cup {"reg"}

WakeInv == NoSemNoSleep /\ NoLostWakeup

LEMMA NoSemStep == TypeOK /\ NoSemNoSleep /\ [Next]_vars => NoSemNoSleep'
<1> SUFFICES ASSUME TypeOK, NoSemNoSleep, [Next]_vars PROVE NoSemNoSleep'
  OBVIOUS
<1> USE DEF NoSemNoSleep, RegPoints, TypeOK, AllProcs, Goto, rest
<1>1. ASSUME NEW p \in Procs, Trylock(p) \/ LockCall(p) \/ LockStep(p)
      PROVE NoSemNoSleep'
  BY <1>1 DEF Trylock, LockCall, LockStep, Acquire, TryFails, SpinFails, AfterSpin,
              Register, RetryAcquires, RetryFails, Unregister, SemWait
<1>2. ASSUME NEW p \in Procs,
             SemWaitError(p) \/ Unlock(p) \/ Crash(p) \/ Reap(p) \/ Respawn(p)
      PROVE NoSemNoSleep'
  BY <1>2, ShmtxAssumption
     DEF ShmtxAssumption, SemWaitError, Unlock, Crash, Reap, Respawn, WakeupEntry
<1>3. ASSUME NEW p \in AllProcs, WakeStep(p) PROVE NoSemNoSleep'
  BY <1>3 DEF WakeStep, WakeRead, WakeCas, Post
<1>4. CASE UNCHANGED vars
  BY <1>4 DEF vars
<1> QED BY <1>1, <1>2, <1>3, <1>4 DEF Next

LEMMA WakeStepLemma ==
  TypeOK /\ TokenConservation /\ WakeInv /\ [Next]_vars => NoLostWakeup'
<1> SUFFICES ASSUME TypeOK, TokenConservation, WakeInv, [Next]_vars,
                    losses' = 0, lock' = Free,
                    NEW s \in Procs, pc'[s] = "sleep"
             PROVE  sem' > 0 \/ \E q \in AllProcs : pc'[q] \in Contending \cup Waking
  BY DEF NoLostWakeup, SleeperWillWake
<1> USE ShmtxAssumption DEF ShmtxAssumption, WakeInv, NoLostWakeup, SleeperWillWake,
        TypeOK, AllProcs, rest, Goto, Contending, Waking
<1>1. ASSUME NEW p \in Procs, Trylock(p) \/ LockCall(p)
      PROVE  sem' > 0 \/ \E q \in AllProcs : pc'[q] \in Contending \cup Waking
  BY <1>1 DEF Trylock, LockCall
<1>2. ASSUME NEW p \in Procs, LockStep(p)
      PROVE  sem' > 0 \/ \E q \in AllProcs : pc'[q] \in Contending \cup Waking
  <2>1. CASE Acquire(p) \/ TryFails(p) \/ SpinFails(p)
    BY <1>2, <2>1 DEF Acquire, TryFails, SpinFails
  <2>2. CASE Register(p) \/ RetryAcquires(p) \/ RetryFails(p)
    BY <1>2, <2>2 DEF Register, RetryAcquires, RetryFails
  <2>3. CASE Unregister(p)
    BY <2>3 DEF Unregister
  <2>4. CASE SemWait(p)
    BY <2>4 DEF SemWait
  <2> QED BY <1>2, <2>1, <2>2, <2>3, <2>4 DEF LockStep
<1>3. ASSUME NEW p \in Procs, SemWaitError(p)
      PROVE  sem' > 0 \/ \E q \in AllProcs : pc'[q] \in Contending \cup Waking
  BY <1>3 DEF SemWaitError
<1>4. ASSUME NEW p \in Procs, Unlock(p)
      PROVE  sem' > 0 \/ \E q \in AllProcs : pc'[q] \in Contending \cup Waking
  BY <1>4 DEF Unlock, WakeupEntry, NoSemNoSleep, RegPoints
<1>5. ASSUME NEW p \in Procs, Crash(p)
      PROVE  sem' > 0 \/ \E q \in AllProcs : pc'[q] \in Contending \cup Waking
  BY <1>5 DEF Crash
<1>6. ASSUME NEW p \in Procs, Reap(p) \/ Respawn(p)
      PROVE  sem' > 0 \/ \E q \in AllProcs : pc'[q] \in Contending \cup Waking
  BY <1>6 DEF Reap, Respawn, WakeupEntry, NoSemNoSleep, RegPoints
<1>7. ASSUME NEW p \in AllProcs, WakeRead(p)
      PROVE  sem' > 0 \/ \E q \in AllProcs : pc'[q] \in Contending \cup Waking
  <2>1. CASE wait > 0
    BY <1>7, <2>1 DEF WakeRead
  <2>2. CASE wait <= 0
    <3>1. s \in Registered
      BY <1>7 DEF WakeRead, Registered
    <3>2. Cardinality(Registered) > 0
      BY <3>1, Counts, FS_EmptySet
    <3>3. losses = 0 /\ sem' = sem
      BY <1>7 DEF WakeRead
    <3>4. sem + Cardinality(Posting) > 0
      BY <2>2, <3>2, <3>3, Counts DEF TokenConservation, Imbalance
    <3>5. CASE sem > 0
      BY <3>3, <3>5
    <3>6. CASE sem = 0
      <4>1. Cardinality(Posting) # 0
        BY <3>4, <3>6, Counts
      <4>2. PICK q \in Posting : TRUE
        BY <4>1, Counts, FS_EmptySet
      <4>3. q \in AllProcs /\ pc[q] = "post"
        BY <4>2 DEF Posting
      <4>4. pc'[q] = "post"
        BY <1>7, <4>3 DEF WakeRead
      <4> QED BY <4>3, <4>4
    <3> QED BY <3>5, <3>6
  <2> QED BY <2>1, <2>2
<1>8. ASSUME NEW p \in AllProcs, WakeCas(p) \/ Post(p)
      PROVE  sem' > 0 \/ \E q \in AllProcs : pc'[q] \in Contending \cup Waking
  BY <1>8 DEF WakeCas, Post
<1>9. CASE UNCHANGED vars
  BY <1>9 DEF vars
<1> QED BY <1>1, <1>2, <1>3, <1>4, <1>5, <1>6, <1>7, <1>8, <1>9 DEF Next, WakeStep

(* No wakeup is lost as long as nobody dies holding one: with the lock free, a
   sleeper has a token or somebody awake will pass one on. *)
THEOREM WakeupsAreKept == Spec => []NoLostWakeup
<1>1. Init => WakeInv
  BY DEF Init, WakeInv, NoSemNoSleep, NoLostWakeup, SleeperWillWake, RegPoints, AllProcs
<1>2. TypeOK /\ TokenConservation /\ WakeInv /\ [Next]_vars => WakeInv'
  BY NoSemStep, WakeStepLemma DEF WakeInv
<1>3. WakeInv => NoLostWakeup
  BY DEF WakeInv
<1> QED BY <1>1, <1>2, <1>3, TypeCorrect, Conservation, PTL DEF Spec

-----------------------------------------------------------------------------
(* The code implements the abstract mutex: the initial states map to initial
   states, and every step to a step or a stutter. *)
THEOREM Implements == Spec => ImplementsMutex
<1> DEFINE ph == [p \in Procs |-> PhaseOf(pc[p])]
<1>1. Init => AbsMutex!Init
  <2>1. PhaseOf("idle") = "idle"
    BY DEF PhaseOf, Waking, Contending, Owning
  <2> QED BY <2>1 DEF Init, AbsMutex!Init, AllProcs
<1>2. TypeOK /\ OwnerInv /\ [Next]_vars => [AbsMutex!Next]_(AbsMutex!vars)
  <2> SUFFICES ASSUME TypeOK, OwnerInv, [Next]_vars
               PROVE  AbsMutex!Next \/ UNCHANGED <<lock, ph>>
    BY DEF AbsMutex!vars
  <2> USE ShmtxAssumption DEF ShmtxAssumption, TypeOK, AllProcs, Points, Alive, rest, Goto,
          PhaseOf, Contending, Waking, Owning, AbsMutex!Next, AbsMutex!Become
  <2>1. ASSUME NEW p \in Procs, Trylock(p) PROVE AbsMutex!TryAcquire(p)
    BY <2>1 DEF Trylock, AbsMutex!TryAcquire
  <2>2. ASSUME NEW p \in Procs, LockCall(p) PROVE AbsMutex!Request(p)
    BY <2>2 DEF LockCall, AbsMutex!Request
  <2>3. ASSUME NEW p \in Procs, Acquire(p) \/ RetryAcquires(p) PROVE AbsMutex!Acquire(p)
    <3>1. CASE Acquire(p)
      BY <3>1 DEF Acquire, AbsMutex!Acquire
    <3>2. CASE RetryAcquires(p)
      BY <3>2 DEF RetryAcquires, AbsMutex!Acquire
    <3> QED BY <2>3, <3>1, <3>2
  <2>4. ASSUME NEW p \in Procs, \/ TryFails(p) \/ SpinFails(p) \/ Register(p) \/ RetryFails(p)
                                \/ Unregister(p) \/ SemWait(p) \/ SemWaitError(p)
        PROVE UNCHANGED <<lock, ph>>
    BY <2>4 DEF TryFails, SpinFails, AfterSpin, Register, RetryFails, Unregister,
                SemWait, SemWaitError
  <2>5. ASSUME NEW p \in Procs, Unlock(p) PROVE AbsMutex!Release(p)
    <3>1. pc[p] = "cs" /\ lock = p
      BY <2>5 DEF Unlock, OwnerInv
    <3>2. lock' = Free /\ pc' = [pc EXCEPT ![p] = WakeupEntry]
      BY <2>5, <3>1 DEF Unlock
    <3>3. WakeupEntry \in {"wread", "idle"}
      BY DEF WakeupEntry
    <3> QED BY <3>1, <3>2, <3>3 DEF AbsMutex!Release
  <2>6. ASSUME NEW p \in Procs, Crash(p) PROVE AbsMutex!Crash(p)
    BY <2>6 DEF Crash, AbsMutex!Crash
  <2>7. ASSUME NEW p \in Procs, Reap(p) PROVE AbsMutex!Reap(p)
    <3>1. pc[p] = "dead" /\ p # Master
      BY <2>7 DEF Reap
    <3>2. WakeupEntry \in {"wread", "idle"}
      BY DEF WakeupEntry
    <3>3. CASE lock = p
      <4>1. lock' = Free /\ pc' = [pc EXCEPT ![p] = "gone", ![Master] = WakeupEntry]
        BY <2>7, <3>3 DEF Reap
      <4>2. \A q \in Procs : pc'[q] = IF q = p THEN "gone" ELSE pc[q]
        BY <4>1
      <4>3. ph' = [ph EXCEPT ![p] = "gone"] /\ ph[p] = "dead"
        BY <3>1, <4>2
      <4> QED BY <3>3, <4>1, <4>3 DEF AbsMutex!Reap
    <3>4. CASE lock # p
      <4>1. lock' = lock /\ pc' = [pc EXCEPT ![p] = "gone"]
        BY <2>7, <3>4 DEF Reap
      <4>2. \A q \in Procs : pc'[q] = IF q = p THEN "gone" ELSE pc[q]
        BY <4>1
      <4>3. ph' = [ph EXCEPT ![p] = "gone"] /\ ph[p] = "dead"
        BY <3>1, <4>2
      <4> QED BY <3>4, <4>1, <4>3 DEF AbsMutex!Reap
    <3> QED BY <3>3, <3>4
  <2>8. ASSUME NEW p \in Procs, Respawn(p) PROVE AbsMutex!Respawn(p)
    BY <2>8 DEF Respawn, AbsMutex!Respawn
  <2>9. ASSUME NEW p \in AllProcs, WakeStep(p) PROVE UNCHANGED <<lock, ph>>
    BY <2>9 DEF WakeStep, WakeRead, WakeCas, Post
  <2>10. CASE UNCHANGED vars
    BY <2>10 DEF vars
  <2> QED BY <2>1, <2>2, <2>3, <2>4, <2>5, <2>6, <2>7, <2>8, <2>9, <2>10 DEF Next, LockStep
<1> QED BY <1>1, <1>2, TypeCorrect, OwnerCorrect, PTL DEF Spec, ImplementsMutex, AbsMutex!Spec
=============================================================================
