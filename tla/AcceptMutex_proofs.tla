------------------------- MODULE AcceptMutex_proofs -------------------------
(***************************************************************************)
(* Proofs about the accept mutex, for any workers, helpers, listeners and  *)
(* any number of connections, crashes and failed system calls.             *)
(***************************************************************************)
EXTENDS AcceptMutex, TLAPS

-----------------------------------------------------------------------------
(* TypeOK holds in every state of the event loops: the free list of         *)
(* connections never gets below zero or above its capacity.                 *)
LEMMA TypeStep == TypeOK /\ [Next]_vars => TypeOK'
<1> SUFFICES ASSUME TypeOK, [Next]_vars PROVE TypeOK'
  OBVIOUS
<1> USE AcceptAssumption DEF AcceptAssumption, TypeOK, proc, Goto, Wait, Procs
<1>1. ASSUME NEW p \in Procs, SkipLock(p) PROVE TypeOK'
  BY <1>1 DEF SkipLock
<1>2. ASSUME NEW p \in Procs, TryLock(p) PROVE TypeOK'
  <2>1. CASE LockHeld(p)
    BY <2>1 DEF LockHeld, Enabled, Served
  <2>2. CASE LockMiss(p)
    BY <2>2 DEF LockMiss, Withdraw
  <2>3. CASE EnableStart(p)
    <3>1. PICK done \in SUBSET Served(p) :
            listening' = [listening EXCEPT ![p] = @ \cup done]
      BY <2>3 DEF EnableStart
    <3>2. done \subseteq Listeners
      BY DEF Served
    <3>3. listening' \in [Procs -> SUBSET Listeners]
      BY <3>1, <3>2
    <3> QED BY <2>3, <3>3 DEF EnableStart, Fault
  <2>4. CASE DisableFails(p)
    <3>1. PICK remain \in SUBSET listening[p] :
            listening' = [listening EXCEPT ![p] = remain]
      BY <2>4 DEF DisableFails
    <3>2. listening' \in [Procs -> SUBSET Listeners]
      BY <3>1
    <3> QED BY <2>4, <3>2 DEF DisableFails, Fault
  <2> QED BY <1>2, <2>1, <2>2, <2>3, <2>4 DEF TryLock
<1>3. ASSUME NEW p \in Procs, EnableFailed(p) PROVE TypeOK'
  BY <1>3 DEF EnableFailed, ErrorUnlocks
<1>4. ASSUME NEW p \in Procs, EpollReturns(p) PROVE TypeOK'
  BY <1>4 DEF EpollReturns, Readable
<1>5. ASSUME NEW p \in Procs, Accept(p) PROVE TypeOK'
  <2> PICK l \in ready[p] : \/ AcceptNothing(p, l) \/ AcceptOne(p, l)
                            \/ OutOfFiles(p, l) \/ OutOfFilesFails(p, l)
    BY <1>5 DEF Accept
  <2> l \in Listeners
    OBVIOUS
  <2>1. CASE AcceptNothing(p, l)
    BY <2>1 DEF AcceptNothing
  <2>2. CASE AcceptOne(p, l)
    <3>1. PICK drained \in 0..ConnectionN :
            /\ drained > 0 => free[p] = 0
            /\ Take(p, free[p] + drained)
            /\ \/ ready' = ready
               \/ ready' = [ready EXCEPT ![p] = @ \ {l}]
      BY <2>2 DEF AcceptOne
    <3>2. free[p] + drained \in 0..ConnectionN
      BY <3>1
    <3>3. free' \in [Procs -> 0..ConnectionN]
      BY <3>1, <3>2 DEF Take
    <3>4. ready' \in [Procs -> SUBSET Listeners]
      BY <3>1
    <3>5. backlog' \in [Listeners -> 0..MaxBacklog] /\ disabled' \in [Procs -> Int]
      BY <2>2 DEF AcceptOne
    <3> QED BY <2>2, <3>3, <3>4, <3>5 DEF AcceptOne
  <2>3. CASE OutOfFiles(p, l)
    BY <2>3 DEF OutOfFiles, DropMutex, Fault
  <2>4. CASE OutOfFilesFails(p, l)
    <3>1. PICK remain \in SUBSET listening[p] :
            listening' = [listening EXCEPT ![p] = remain]
      BY <2>4 DEF OutOfFilesFails
    <3>2. listening' \in [Procs -> SUBSET Listeners]
      BY <3>1
    <3> QED BY <2>4, <3>2 DEF OutOfFilesFails, Fault
  <2> QED BY <2>1, <2>2, <2>3, <2>4
<1>6. ASSUME NEW p \in Procs, Unlock(p) PROVE TypeOK'
  BY <1>6 DEF Unlock, Unlocked
<1>7. ASSUME NEW p \in Procs, Turn(p) \/ CloseConnection(p) PROVE TypeOK'
  <2>1. CASE CloseConnection(p)
    BY <2>1 DEF CloseConnection
  <2>2. CASE Turn(p)
    <3>1. /\ listening' \in [Procs -> SUBSET Listeners]
          /\ held' \in [Procs -> BOOLEAN]
          /\ life' \in [Procs -> {"open", "quit", "exiting"}]
      BY <2>2, Zenon DEF Turn, CloseListeners
    <3> QED BY <2>2, <3>1 DEF Turn
  <2> QED BY <1>7, <2>1, <2>2
<1>8. ASSUME NEW p \in Procs, Exit(p) \/ QuitSignal(p) \/ Crash(p) PROVE TypeOK'
  BY <1>8 DEF Exit, QuitSignal, Crash, Fault
<1>9. ASSUME NEW p \in Procs, Reap(p) PROVE TypeOK'
  BY <1>9 DEF Reap, ReapUnlocks
<1>10. ASSUME NEW l \in Listeners, Arrive(l) PROVE TypeOK'
  BY <1>10 DEF Arrive
<1>11. CASE UNCHANGED vars
  BY <1>11 DEF vars
<1> QED BY <1>1, <1>2, <1>3, <1>4, <1>5, <1>6, <1>7, <1>8, <1>9, <1>10, <1>11
        DEF Next, Step

THEOREM TypeCorrect == Spec => []TypeOK
<1>1. Init => TypeOK
  BY AcceptAssumption DEF AcceptAssumption, Init, TypeOK, Procs
<1> QED BY <1>1, TypeStep, PTL DEF Spec

-----------------------------------------------------------------------------
(* The owner of the mutex is between its trylock and the unlock before the  *)
(* posted events, or it died there and the master has yet to unlock for it. *)
LEMMA OwnerStep == TypeOK /\ OwnerInCriticalStretch /\ [Next]_vars => OwnerInCriticalStretch'
<1> SUFFICES ASSUME TypeOK, OwnerInCriticalStretch, [Next]_vars
             PROVE  OwnerInCriticalStretch'
  OBVIOUS
<1> USE AcceptAssumption DEF AcceptAssumption, TypeOK, OwnerInCriticalStretch,
        proc, Goto, Wait, Procs
<1>1. ASSUME NEW p \in Procs, SkipLock(p) PROVE OwnerInCriticalStretch'
  BY <1>1 DEF SkipLock, AtTop
<1>2. ASSUME NEW p \in Procs, TryLock(p) PROVE OwnerInCriticalStretch'
  <2>1. CASE LockHeld(p)
    BY <2>1 DEF LockHeld, AtTop
  <2>2. CASE LockMiss(p)
    BY <2>2 DEF LockMiss, Withdraw, AtTop
  <2>3. CASE EnableStart(p)
    BY <2>3 DEF EnableStart, AtTop
  <2>4. CASE DisableFails(p)
    BY <2>4 DEF DisableFails, AtTop
  <2> QED BY <1>2, <2>1, <2>2, <2>3, <2>4 DEF TryLock
<1>3. ASSUME NEW p \in Procs, EnableFailed(p) PROVE OwnerInCriticalStretch'
  BY <1>3 DEF EnableFailed, ErrorUnlocks
<1>4. ASSUME NEW p \in Procs, EpollReturns(p) PROVE OwnerInCriticalStretch'
  BY <1>4 DEF EpollReturns
<1>5. ASSUME NEW p \in Procs, Accept(p) PROVE OwnerInCriticalStretch'
  <2> PICK l \in ready[p] : \/ AcceptNothing(p, l) \/ AcceptOne(p, l)
                            \/ OutOfFiles(p, l) \/ OutOfFilesFails(p, l)
    BY <1>5 DEF Accept
  <2>1. CASE AcceptNothing(p, l)
    BY <2>1 DEF AcceptNothing
  <2>2. CASE AcceptOne(p, l)
    BY <2>2 DEF AcceptOne
  <2>3. CASE OutOfFiles(p, l)
    BY <1>5, <2>3 DEF OutOfFiles, DropMutex, Accept
  <2>4. CASE OutOfFilesFails(p, l)
    BY <2>4 DEF OutOfFilesFails
  <2> QED BY <2>1, <2>2, <2>3, <2>4
<1>6. ASSUME NEW p \in Procs, Unlock(p) PROVE OwnerInCriticalStretch'
  BY <1>6 DEF Unlock, Unlocked
<1>7. ASSUME NEW p \in Procs, Turn(p) \/ CloseConnection(p) PROVE OwnerInCriticalStretch'
  BY <1>7 DEF Turn, CloseListeners, CloseConnection
<1>8. ASSUME NEW p \in Procs, Exit(p) \/ QuitSignal(p) \/ Crash(p)
      PROVE  OwnerInCriticalStretch'
  BY <1>8 DEF Exit, QuitSignal, Crash
<1>9. ASSUME NEW p \in Procs, Reap(p) PROVE OwnerInCriticalStretch'
  BY <1>9 DEF Reap, ReapUnlocks
<1>10. ASSUME NEW l \in Listeners, Arrive(l) PROVE OwnerInCriticalStretch'
  BY <1>10 DEF Arrive
<1>11. CASE UNCHANGED vars
  BY <1>11 DEF vars
<1> QED BY <1>1, <1>2, <1>3, <1>4, <1>5, <1>6, <1>7, <1>8, <1>9, <1>10, <1>11
        DEF Next, Step

THEOREM CriticalStretch == Spec => []OwnerInCriticalStretch
<1>1. Init => OwnerInCriticalStretch
  BY AcceptAssumption DEF AcceptAssumption, Init, OwnerInCriticalStretch, Procs
<1> QED BY <1>1, OwnerStep, TypeCorrect, PTL DEF Spec
-----------------------------------------------------------------------------
(* The flag ngx_accept_mutex_held never lies about epoll, in a process whose *)
(* epoll_ctl() calls on the listeners have not failed.                       *)
LEMMA HeldStep == TypeOK /\ HeldMeansListening /\ [Next]_vars => HeldMeansListening'
<1> SUFFICES ASSUME TypeOK, HeldMeansListening, [Next]_vars
             PROVE  HeldMeansListening'
  OBVIOUS
<1> USE DEF TypeOK, HeldMeansListening, Served, proc, Goto, Wait, Procs
<1>1. ASSUME NEW p \in Procs, SkipLock(p) PROVE HeldMeansListening'
  BY <1>1 DEF SkipLock, AtTop
<1>2. ASSUME NEW p \in Procs, TryLock(p) PROVE HeldMeansListening'
  <2>1. CASE LockHeld(p)
    BY <2>1 DEF LockHeld, Enabled, AtTop
  <2>2. CASE LockMiss(p)
    BY <2>2 DEF LockMiss, Withdraw, AtTop
  <2>3. CASE EnableStart(p)
    BY <2>3 DEF EnableStart, AtTop
  <2>4. CASE DisableFails(p)
    BY <2>4 DEF DisableFails, AtTop
  <2> QED BY <1>2, <2>1, <2>2, <2>3, <2>4 DEF TryLock
<1>3. ASSUME NEW p \in Procs, EnableFailed(p) PROVE HeldMeansListening'
  BY <1>3 DEF EnableFailed
<1>4. ASSUME NEW p \in Procs, EpollReturns(p) PROVE HeldMeansListening'
  BY <1>4 DEF EpollReturns
<1>5. ASSUME NEW p \in Procs, Accept(p) PROVE HeldMeansListening'
  <2> PICK l \in ready[p] : \/ AcceptNothing(p, l) \/ AcceptOne(p, l)
                            \/ OutOfFiles(p, l) \/ OutOfFilesFails(p, l)
    BY <1>5 DEF Accept
  <2>1. CASE AcceptNothing(p, l)
    BY <2>1 DEF AcceptNothing
  <2>2. CASE AcceptOne(p, l)
    BY <2>2 DEF AcceptOne
  <2>3. CASE OutOfFiles(p, l)
    BY <2>3 DEF OutOfFiles, DropMutex
  <2>4. CASE OutOfFilesFails(p, l)
    BY <2>4 DEF OutOfFilesFails
  <2> QED BY <2>1, <2>2, <2>3, <2>4
<1>6. ASSUME NEW p \in Procs, Unlock(p) PROVE HeldMeansListening'
  BY <1>6 DEF Unlock
<1>7. ASSUME NEW p \in Procs, Turn(p) \/ CloseConnection(p) PROVE HeldMeansListening'
  <2>1. CASE CloseConnection(p)
    BY <2>1 DEF CloseConnection
  <2>2. CASE Turn(p) /\ life[p] = "quit"
    <3>1. /\ listening' = [listening EXCEPT ![p] = {}]
          /\ held' = [held EXCEPT ![p] = FALSE]
          /\ life' = [life EXCEPT ![p] = "exiting"]
          /\ pc' = [pc EXCEPT ![p] = "top"]
          /\ erred' = erred
          /\ pc[p] \in {"turn", "failed"}
      BY <2>2 DEF Turn, CloseListeners
    <3> QED BY <3>1
  <2>3. CASE Turn(p) /\ life[p] # "quit"
    <3>1. /\ UNCHANGED <<listening, held, life, erred>>
          /\ pc' = [pc EXCEPT ![p] = "top"]
          /\ pc[p] \in {"turn", "failed"}
      BY <2>3 DEF Turn
    <3> QED BY <3>1
  <2> QED BY <1>7, <2>1, <2>2, <2>3
<1>8. ASSUME NEW p \in Procs, Exit(p) \/ QuitSignal(p) \/ Crash(p)
      PROVE  HeldMeansListening'
  BY <1>8 DEF Exit, QuitSignal, Crash
<1>9. ASSUME NEW p \in Procs, Reap(p) PROVE HeldMeansListening'
  BY <1>9 DEF Reap
<1>10. ASSUME NEW l \in Listeners, Arrive(l) PROVE HeldMeansListening'
  BY <1>10 DEF Arrive
<1>11. CASE UNCHANGED vars
  BY <1>11 DEF vars
<1> QED BY <1>1, <1>2, <1>3, <1>4, <1>5, <1>6, <1>7, <1>8, <1>9, <1>10, <1>11
        DEF Next, Step

THEOREM HeldIsTrue == Spec => []HeldMeansListening
<1>1. Init => HeldMeansListening
  BY DEF Init, HeldMeansListening
<1> QED BY <1>1, HeldStep, TypeCorrect, PTL DEF Spec

-----------------------------------------------------------------------------
(* How a process went to sleep says what it may still own: the one that got *)
(* the mutex owns it, the one that missed it does not hold the listeners.   *)
WayIn == \A p \in Procs : pc[p] = "wait" =>
            /\ via[p] = "lock" => lock = p
            /\ via[p] = "nolock" => ~held[p]

LEMMA WayInStep == TypeOK /\ WayIn /\ [Next]_vars => WayIn'
<1> SUFFICES ASSUME TypeOK, WayIn, [Next]_vars PROVE WayIn'
  OBVIOUS
<1> USE AcceptAssumption DEF AcceptAssumption, TypeOK, WayIn, proc, Goto, Wait, Procs
<1>1. ASSUME NEW p \in Procs, SkipLock(p) PROVE WayIn'
  BY <1>1 DEF SkipLock, AtTop
<1>2. ASSUME NEW p \in Procs, TryLock(p) PROVE WayIn'
  <2>1. CASE LockHeld(p)
    BY <2>1 DEF LockHeld, AtTop
  <2>2. CASE LockMiss(p)
    BY <2>2 DEF LockMiss, Withdraw, AtTop
  <2>3. CASE EnableStart(p)
    BY <2>3 DEF EnableStart, AtTop
  <2>4. CASE DisableFails(p)
    BY <2>4 DEF DisableFails, AtTop
  <2> QED BY <1>2, <2>1, <2>2, <2>3, <2>4 DEF TryLock
<1>3. ASSUME NEW p \in Procs, EnableFailed(p) PROVE WayIn'
  BY <1>3 DEF EnableFailed, ErrorUnlocks
<1>4. ASSUME NEW p \in Procs, EpollReturns(p) PROVE WayIn'
  BY <1>4 DEF EpollReturns
<1>5. ASSUME NEW p \in Procs, Accept(p) PROVE WayIn'
  <2> PICK l \in ready[p] : \/ AcceptNothing(p, l) \/ AcceptOne(p, l)
                            \/ OutOfFiles(p, l) \/ OutOfFilesFails(p, l)
    BY <1>5 DEF Accept
  <2>1. CASE AcceptNothing(p, l)
    BY <2>1 DEF AcceptNothing
  <2>2. CASE AcceptOne(p, l)
    BY <2>2 DEF AcceptOne
  <2>3. CASE OutOfFiles(p, l)
    BY <1>5, <2>3 DEF OutOfFiles, DropMutex, Accept
  <2>4. CASE OutOfFilesFails(p, l)
    BY <2>4 DEF OutOfFilesFails
  <2> QED BY <2>1, <2>2, <2>3, <2>4
<1>6. ASSUME NEW p \in Procs, Unlock(p) PROVE WayIn'
  BY <1>6 DEF Unlock, Unlocked
<1>7. ASSUME NEW p \in Procs, Turn(p) \/ CloseConnection(p) PROVE WayIn'
  BY <1>7 DEF Turn, CloseListeners, CloseConnection
<1>8. ASSUME NEW p \in Procs, Exit(p) \/ QuitSignal(p) \/ Crash(p) PROVE WayIn'
  BY <1>8 DEF Exit, QuitSignal, Crash
<1>9. ASSUME NEW p \in Procs, Reap(p) PROVE WayIn'
  BY <1>9 DEF Reap, ReapUnlocks
<1>10. ASSUME NEW l \in Listeners, Arrive(l) PROVE WayIn'
  BY <1>10 DEF Arrive
<1>11. CASE UNCHANGED vars
  BY <1>11 DEF vars
<1> QED BY <1>1, <1>2, <1>3, <1>4, <1>5, <1>6, <1>7, <1>8, <1>9, <1>10, <1>11
        DEF Next, Step

(* One connection wakes one process: among those that asked for the mutex   *)
(* on their way into epoll_wait(), only its owner watches the listeners.    *)
THEOREM NoHerd == Spec => []NoThunderingHerd
<1>1. Init => WayIn
  BY DEF Init, WayIn
<1>2. Spec => []WayIn
  BY <1>1, WayInStep, TypeCorrect, PTL DEF Spec
<1>3. TypeOK /\ WayIn /\ HeldMeansListening => NoThunderingHerd
  <2> SUFFICES ASSUME TypeOK, WayIn, HeldMeansListening, NEW p \in Procs \ erred,
                      pc[p] = "wait", via[p] # "skip", listening[p] # {}
               PROVE  lock = p
    BY DEF NoThunderingHerd
  <2>1. held[p]
    BY DEF HeldMeansListening
  <2> QED BY <2>1 DEF WayIn, TypeOK
<1> QED BY <1>2, <1>3, TypeCorrect, HeldIsTrue, PTL
=============================================================================
