-------------------------- MODULE ThreadPool_proofs --------------------------
(***************************************************************************)
(* Proofs about the thread pool, for any finite set of threads, any tasks  *)
(* and any limit of the queue.                                             *)
(***************************************************************************)
EXTENDS ThreadPool, FiniteSetTheorems, SequenceTheorems, TLAPS

-----------------------------------------------------------------------------
(* How often a task stands in a list *)

LEMMA OccurrencesType ==
    ASSUME NEW S, NEW s \in Seq(S), NEW k
    PROVE  /\ IsFiniteSet({i \in 1..Len(s) : s[i] = k})
           /\ Occurrences(k, s) \in Nat
<1>1. IsFiniteSet(1..Len(s))
  <2>1. Len(s) \in Int
    OBVIOUS
  <2> QED BY <2>1, FS_Interval
<1>2. IsFiniteSet({i \in 1..Len(s) : s[i] = k})
  BY <1>1, FS_Subset
<1> QED BY <1>2, FS_CardinalityType DEF Occurrences

LEMMA OccurrencesEmpty == \A k : Occurrences(k, <<>>) = 0
<1> TAKE k
<1>1. {i \in 1..Len(<<>>) : <<>>[i] = k} = {}
  OBVIOUS
<1> QED BY <1>1, FS_EmptySet DEF Occurrences

LEMMA OccurrencesAppend ==
    ASSUME NEW S, NEW s \in Seq(S), NEW x \in S, NEW k
    PROVE  Occurrences(k, Append(s, x)) = Occurrences(k, s) + (IF x = k THEN 1 ELSE 0)
<1> DEFINE t == Append(s, x)
           A == {i \in 1..Len(s) : s[i] = k}
           B == {i \in 1..Len(t) : t[i] = k}
<1>1. Len(s) \in Nat /\ Len(t) = Len(s) + 1 /\ t[Len(s) + 1] = x
  OBVIOUS
<1>2. \A i \in 1..Len(s) : t[i] = s[i]
  OBVIOUS
<1>3. IsFiniteSet(A) /\ Cardinality(A) \in Nat
  BY OccurrencesType DEF Occurrences
<1>4. CASE x = k
  <2>1. B = A \cup {Len(s) + 1}
    <3> HIDE DEF t
    <3> QED BY <1>1, <1>2, <1>4
  <2>2. Len(s) + 1 \notin A
    BY <1>1
  <2> QED BY <1>3, <1>4, <2>1, <2>2, FS_AddElement DEF Occurrences
<1>5. CASE x # k
  <2>1. B = A
    <3> HIDE DEF t
    <3> QED BY <1>1, <1>2, <1>5
  <2>2. Occurrences(k, t) = Cardinality(B) /\ Occurrences(k, s) = Cardinality(A)
    BY DEF Occurrences
  <2> HIDE DEF A, B, t
  <2> QED BY <1>3, <1>5, <2>1, <2>2 DEF t
<1> QED BY <1>4, <1>5

LEMMA OccurrencesTail ==
    ASSUME NEW S, NEW s \in Seq(S), s # <<>>, NEW k
    PROVE  Occurrences(k, s) = Occurrences(k, Tail(s)) + (IF Head(s) = k THEN 1 ELSE 0)
<1> DEFINE t == Tail(s)
           A == {i \in 1..Len(s) : s[i] = k}
           B == {i \in 1..Len(t) : t[i] = k}
           C == {i \in A : i # 1}
           f == [i \in B |-> i + 1]
<1>1. /\ Len(s) \in Nat \ {0} /\ Len(t) = Len(s) - 1 /\ t \in Seq(S) /\ Head(s) = s[1]
      /\ \A i \in 1..Len(t) : t[i] = s[i + 1]
  OBVIOUS
<1> HIDE DEF t
<1>2. f \in Bijection(B, C)
  <2>1. \A i \in B : f[i] \in C
    BY <1>1
  <2>2. \A i, j \in B : f[i] = f[j] => i = j
    BY <1>1
  <2>3. \A j \in C : \E i \in B : f[i] = j
    <3> TAKE j \in C
    <3>1. j - 1 \in B /\ (j - 1) + 1 = j
      BY <1>1
    <3> QED BY <3>1
  <2> QED BY <2>1, <2>2, <2>3 DEF Bijection, Injection, Surjection, IsInjective
<1>3. IsFiniteSet(A) /\ IsFiniteSet(B) /\ Cardinality(B) \in Nat
  BY <1>1, OccurrencesType DEF Occurrences
<1>4. Cardinality(C) = Cardinality(B) /\ IsFiniteSet(C)
  BY <1>2, <1>3, FS_Bijection DEF ExistsBijection
<1>5. CASE Head(s) = k
  <2>1. A = C \cup {1} /\ 1 \notin C
    BY <1>1, <1>5
  <2> HIDE DEF A, C
  <2>2. Cardinality(A) = Cardinality(C) + 1
    BY <1>4, <2>1, FS_AddElement
  <2> QED BY <1>3, <1>4, <1>5, <2>2 DEF Occurrences, t, A
<1>6. CASE Head(s) # k
  <2>1. A = C
    BY <1>1, <1>6
  <2>2. Occurrences(k, t) = Cardinality(B) /\ Occurrences(k, s) = Cardinality(A)
    BY DEF Occurrences
  <2> HIDE DEF A, B, C
  <2> QED BY <1>3, <1>4, <1>6, <2>1, <2>2 DEF t
<1> QED BY <1>5, <1>6

-----------------------------------------------------------------------------
(* The inductive invariant *)

Woken == {t \in Threads : pc[t] = "woken"}
Exited == {t \in Threads : pc[t] = "exited"}
Held(k) == {t \in Threads : cur[t] = k}

(* A thread holds a task from the queue until it is done, and the exit task  *)
(* until it ends. *)
CurInv == \A t \in Threads : /\ cur[t] # NoTask <=> pc[t] \in {"run", "fin"}
                             /\ cur[t] = ExitTask => pc[t] = "run"

(* The event loop stops the threads only when it has no done task in hand,   *)
(* and as many as there are. *)
MainInv == /\ main \notin {"batch", "callback"} => batch = <<>>
           /\ main \in {"loop", "batch", "callback"} => joined = 0 /\ exitLock = 0
           /\ main = "stopping" => exitLock = 0
           /\ main \in {"stopping", "join", "gaveup"} => joined < Cardinality(Threads)
           /\ main = "gaveup" => exitLock = 1
           /\ main = "destroyed" => joined = Cardinality(Threads) /\ exitLock = 0

(* The exit task is in one place while the event loop waits for it, at the   *)
(* end of the queue or in a thread that left the queue empty; else nowhere.  *)
NoExitIn(s) == \A i \in 1..Len(s) : s[i] # ExitTask
ExitAwaited == main = "join" /\ exitLock = 1
ExitQueued == /\ queue # <<>> /\ queue[Len(queue)] = ExitTask
              /\ \A i \in 1..Len(queue) - 1 : queue[i] # ExitTask
              /\ \A t \in Threads : cur[t] # ExitTask
ExitHeld == queue = <<>> /\ \E t \in Threads : Held(ExitTask) = {t}
ExitNowhere == NoExitIn(queue) /\ \A t \in Threads : cur[t] # ExitTask
ExitInv == IF ExitAwaited THEN ExitQueued \/ ExitHeld ELSE ExitNowhere

(* Each post wakes a thread as long as one sleeps: while any thread sleeps,  *)
(* as many are on their way as there are tasks in the queue.                 *)
WakeInv == Asleep # {} => Len(queue) <= Cardinality(Woken)

(* The thread that ran the exit task has taken the last task of the queue. *)
Drained == main = "join" /\ exitLock = 0 => queue = <<>>

IInv == /\ TypeOK /\ CurInv /\ MainInv /\ ExitInv /\ Drained
        /\ WaitingCount /\ OnePlace /\ WakeInv /\ DoneIsNotified /\ JoinsOneByOne

LEMMA Finite ==
    /\ IsFiniteSet(Asleep) /\ IsFiniteSet(Woken) /\ IsFiniteSet(Exited) /\ IsFiniteSet(Idle)
    /\ \A k : IsFiniteSet(Held(k)) /\ Cardinality(Held(k)) \in Nat
    /\ {Cardinality(Asleep), Cardinality(Woken), Cardinality(Exited), Cardinality(Idle),
        Cardinality(Threads)} \subseteq Nat
<1>1. IsFiniteSet(Threads)
  BY ThreadPoolAssumption DEF ThreadPoolAssumption
<1>2. IsFiniteSet(Asleep) /\ IsFiniteSet(Woken) /\ IsFiniteSet(Exited) /\ IsFiniteSet(Idle)
  BY <1>1, FS_Subset DEF Asleep, Woken, Exited, Idle
<1>3. \A k : IsFiniteSet(Held(k))
  BY <1>1, FS_Subset DEF Held
<1> QED BY <1>1, <1>2, <1>3, FS_CardinalityType

-----------------------------------------------------------------------------
(* Types and where the tasks are *)

LEMMA TypeStep == IInv /\ [Next]_vars => TypeOK' /\ CurInv' /\ MainInv'
<1> SUFFICES ASSUME IInv, [Next]_vars PROVE TypeOK' /\ CurInv' /\ MainInv'
  OBVIOUS
<1>a. TypeOK /\ CurInv /\ MainInv
  BY DEF IInv
<1>b. ExitTask \notin Tasks /\ NoTask \notin AllTasks /\ Cardinality(Threads) \in Nat
  BY ThreadPoolAssumption, Finite DEF ThreadPoolAssumption, AllTasks
<1> USE <1>a, <1>b DEF TypeOK, CurInv, MainInv, Goto, pool, exit, AllTasks
<1>1. ASSUME NEW k \in Tasks, Post(k) PROVE TypeOK' /\ CurInv' /\ MainInv'
  <2>1. /\ \/ pc' = pc
           \/ \E t \in Threads : pc[t] = "wait" /\ pc' = [pc EXCEPT ![t] = "woken"]
        /\ active' = [active EXCEPT ![k] = 1] /\ queue' = Append(queue, k) /\ waiting' = waiting + 1
        /\ UNCHANGED <<cur, done, notified, main, batch, exitLock, joined>>
    BY <1>1 DEF Post, Enqueue, Signal, Asleep
  <2>2. TypeOK'
    <3>1. queue' \in Seq(AllTasks)
      BY <2>1
    <3>2. pc' \in [Threads -> {"start", "wait", "woken", "run", "fin", "notify", "exited"}]
      BY <2>1
    <3>3. active' \in [AllTasks -> {0, 1}] /\ waiting' \in Int
      BY <2>1
    <3> QED BY <2>1, <3>1, <3>2, <3>3
  <2>3. CurInv'
    BY <2>1
  <2> QED BY <2>1, <2>2, <2>3
<1>2. ASSUME PostExit PROVE TypeOK' /\ CurInv' /\ MainInv'
  <2>1. /\ \/ pc' = pc
           \/ \E t \in Threads : pc[t] = "wait" /\ pc' = [pc EXCEPT ![t] = "woken"]
        /\ active' = [active EXCEPT ![ExitTask] = 1] /\ queue' = Append(queue, ExitTask)
        /\ waiting' = waiting + 1 /\ exitLock' = 1 /\ main' = "join"
        /\ UNCHANGED <<cur, done, notified, batch, joined>>
    BY <1>2 DEF PostExit, Enqueue, Signal, Asleep
  <2>2. TypeOK'
    <3>1. queue' \in Seq(AllTasks)
      BY <2>1
    <3>2. pc' \in [Threads -> {"start", "wait", "woken", "run", "fin", "notify", "exited"}]
      BY <2>1
    <3>3. active' \in [AllTasks -> {0, 1}] /\ waiting' \in Int
      BY <2>1
    <3> QED BY <2>1, <3>1, <3>2, <3>3
  <2>3. CurInv'
    BY <2>1
  <2>4. MainInv'
    BY <1>2, <2>1 DEF PostExit
  <2> QED BY <2>2, <2>3, <2>4
<1>3. ASSUME NEW t \in Threads, Start(t) \/ Recheck(t) PROVE TypeOK' /\ CurInv' /\ MainInv'
  <2>1. CASE queue = <<>>
    <3>1. /\ pc[t] \in {"start", "woken"} /\ pc' = [pc EXCEPT ![t] = "wait"] /\ waiting' \in Int
          /\ UNCHANGED <<queue, cur, active, done, notified, main, batch, exitLock, joined>>
      BY <1>3, <2>1 DEF Start, Recheck, TakeOrWait
    <3> QED BY <3>1
  <2>2. CASE queue # <<>>
    <3>1. Head(queue) \in AllTasks /\ Tail(queue) \in Seq(AllTasks)
      BY <2>2
    <3>2. /\ pc[t] \in {"start", "woken"} /\ pc' = [pc EXCEPT ![t] = "run"] /\ waiting' \in Int
          /\ cur' = [cur EXCEPT ![t] = Head(queue)] /\ queue' = Tail(queue)
          /\ UNCHANGED <<active, done, notified, main, batch, exitLock, joined>>
      BY <1>3, <2>2 DEF Start, Recheck, TakeOrWait
    <3>3. TypeOK'
      BY <3>1, <3>2
    <3> QED BY <3>1, <3>2, <3>3
  <2> QED BY <2>1, <2>2
<1>4. ASSUME NEW t \in Threads, SpuriousWakeup(t) \/ Run(t) \/ RunExit(t) \/ Notify(t)
      PROVE  TypeOK' /\ CurInv' /\ MainInv'
  <2>1. CASE SpuriousWakeup(t)
    BY <2>1 DEF SpuriousWakeup
  <2>2. CASE Run(t)
    BY <2>2 DEF Run
  <2>3. CASE RunExit(t)
    <3>1. TypeOK'
      BY <2>3 DEF RunExit
    <3>2. CurInv'
      BY <2>3 DEF RunExit
    <3>3. main = "join"
      BY <2>3 DEF RunExit, IInv, ExitInv, ExitAwaited, ExitNowhere
    <3> QED BY <2>3, <3>1, <3>2, <3>3 DEF RunExit
  <2>4. CASE Notify(t)
    BY <2>4 DEF Notify
  <2> QED BY <1>4, <2>1, <2>2, <2>3, <2>4
<1>5. ASSUME NEW t \in Threads, Finish(t) PROVE TypeOK' /\ CurInv' /\ MainInv'
  <2>1. cur[t] \in Tasks
    BY <1>5 DEF Finish
  <2> QED BY <1>5, <2>1 DEF Finish
<1>6. ASSUME HandleNotify \/ CallbackReturns \/ BatchEnds \/ Destroy \/ DestroyGivesUp
      PROVE  TypeOK' /\ CurInv' /\ MainInv'
  <2>1. Cardinality(Threads) > 0
    BY ThreadPoolAssumption, FS_EmptySet DEF ThreadPoolAssumption
  <2> QED BY <1>6, <2>1 DEF HandleNotify, CallbackReturns, BatchEnds, Destroy, DestroyGivesUp
<1>7. ASSUME CompleteTask PROVE TypeOK' /\ CurInv' /\ MainInv'
  <2>1. Head(batch) \in Tasks /\ Tail(batch) \in Seq(Tasks)
    BY <1>7 DEF CompleteTask
  <2> QED BY <1>7, <2>1 DEF CompleteTask
<1>8. ASSUME Join PROVE TypeOK' /\ CurInv' /\ MainInv'
  BY <1>8 DEF Join
<1>9. CASE Stopped \/ UNCHANGED vars
  BY <1>9 DEF Stopped, vars
<1> QED BY <1>1, <1>2, <1>3, <1>4, <1>5, <1>6, <1>7, <1>8, <1>9 DEF Next, ThreadStep, MainStep

LEMMA ExitStep == IInv /\ [Next]_vars => ExitInv'
<1> SUFFICES ASSUME IInv, [Next]_vars PROVE ExitInv'
  OBVIOUS
<1>a. TypeOK /\ CurInv /\ MainInv /\ ExitInv
  BY DEF IInv
<1>b. ExitTask \notin Tasks /\ NoTask # ExitTask
  BY ThreadPoolAssumption DEF ThreadPoolAssumption, AllTasks
<1> USE DEF ExitInv, ExitAwaited, ExitQueued, ExitHeld, ExitNowhere, NoExitIn, Held
<1>1. ASSUME NEW k \in Tasks, Post(k) PROVE ExitInv'
  <2>1. ~ExitAwaited /\ ~ExitAwaited' /\ cur' = cur /\ queue' = Append(queue, k) /\ queue \in Seq(AllTasks)
    BY <1>1, <1>a DEF Post, Enqueue, TypeOK
  <2>2. Len(queue') = Len(queue) + 1 /\ queue'[Len(queue) + 1] = k /\ \A i \in 1..Len(queue) : queue'[i] = queue[i]
    BY <2>1
  <2>3. Len(queue) \in Nat
    BY <2>1
  <2> QED BY <1>a, <1>b, <2>1, <2>2, <2>3
<1>2. ASSUME PostExit PROVE ExitInv'
  <2>1. /\ ~ExitAwaited /\ ExitAwaited' /\ cur' = cur /\ queue' = Append(queue, ExitTask)
        /\ queue \in Seq(AllTasks)
    BY <1>2, <1>a DEF PostExit, Enqueue, TypeOK
  <2>2. /\ Len(queue') = Len(queue) + 1 /\ queue'[Len(queue) + 1] = ExitTask /\ queue' # <<>>
        /\ \A i \in 1..Len(queue) : queue'[i] = queue[i]
    BY <2>1
  <2>3. Len(queue) \in Nat
    BY <2>1
  <2> QED BY <1>a, <1>b, <2>1, <2>2, <2>3
<1>3. ASSUME NEW t \in Threads, Start(t) \/ Recheck(t) PROVE ExitInv'
  <2>1. CASE queue = <<>>
    BY <1>3, <1>a, <2>1 DEF Start, Recheck, TakeOrWait, exit
  <2>2. CASE queue # <<>>
    <3>1. /\ queue \in Seq(AllTasks) /\ cur' = [cur EXCEPT ![t] = Head(queue)] /\ queue' = Tail(queue)
          /\ UNCHANGED <<main, exitLock>>
      BY <1>3, <1>a, <2>2 DEF Start, Recheck, TakeOrWait, exit, TypeOK
    <3>2. /\ Len(queue) \in Nat \ {0} /\ Len(queue') = Len(queue) - 1 /\ Head(queue) = queue[1]
          /\ \A i \in 1..Len(queue) - 1 : queue'[i] = queue[i + 1]
          /\ Len(queue) = 1 <=> queue' = <<>>
      <4>1. Len(queue) \in Nat \ {0} /\ Head(queue) = queue[1]
        BY <2>2, <3>1
      <4>2. /\ Len(Tail(queue)) = Len(queue) - 1
            /\ \A i \in 1..Len(queue) - 1 : Tail(queue)[i] = queue[i + 1]
        BY <2>2, <3>1, <4>1
      <4>3. Tail(queue) \in Seq(AllTasks)
        BY <2>2, <3>1
      <4>4. Len(Tail(queue)) = 0 <=> Tail(queue) = <<>>
        BY <4>3, EmptySeq
      <4> QED BY <3>1, <4>1, <4>2, <4>4
    <3>3. \A u \in Threads : cur'[u] = IF u = t THEN queue[1] ELSE cur[u]
      BY <1>a, <3>1, <3>2 DEF TypeOK
    <3>4. CASE ExitAwaited
      <4>1. ExitQueued
        BY <1>a, <2>2, <3>4
      <4>2. CASE Len(queue) = 1
        <5>1. Held(ExitTask)' = {t}
          BY <3>2, <3>3, <4>1, <4>2
        <5> QED BY <3>1, <3>2, <3>4, <4>2, <5>1
      <4>3. CASE Len(queue) > 1
        BY <3>1, <3>2, <3>3, <3>4, <4>1, <4>3
      <4> QED BY <3>2, <4>2, <4>3
    <3>5. CASE ~ExitAwaited
      BY <1>a, <3>1, <3>2, <3>3, <3>5
    <3> QED BY <3>4, <3>5
  <2> QED BY <2>1, <2>2
<1>4. ASSUME NEW t \in Threads, SpuriousWakeup(t) \/ Run(t) \/ Notify(t) PROVE ExitInv'
  BY <1>4, <1>a DEF SpuriousWakeup, Run, Notify, exit
<1>5. ASSUME NEW t \in Threads, RunExit(t) PROVE ExitInv'
  <2>1. /\ cur[t] = ExitTask /\ exitLock' = 0 /\ queue' = queue
        /\ \A u \in Threads : cur'[u] = IF u = t THEN NoTask ELSE cur[u]
    BY <1>5, <1>a DEF RunExit, TypeOK
  <2>2. ExitHeld
    BY <1>a, <2>1
  <2> QED BY <1>b, <2>1, <2>2
<1>6. ASSUME NEW t \in Threads, Finish(t) PROVE ExitInv'
  <2>1. cur[t] # ExitTask /\ \A u \in Threads : cur'[u] = IF u = t THEN NoTask ELSE cur[u]
    BY <1>6, <1>a DEF Finish, TypeOK, CurInv
  <2> QED BY <1>6, <1>a, <1>b, <2>1 DEF Finish, exit
<1>7. ASSUME HandleNotify \/ CallbackReturns \/ BatchEnds \/ Destroy \/ DestroyGivesUp \/ CompleteTask \/ Join
      PROVE  ExitInv'
  <2>1. UNCHANGED <<queue, cur>> /\ ~ExitAwaited /\ ~ExitAwaited'
    BY <1>7, <1>a DEF HandleNotify, CallbackReturns, BatchEnds, Destroy, DestroyGivesUp, CompleteTask,
          Join, pool, exit, MainInv
  <2> QED BY <1>a, <2>1
<1>8. CASE Stopped \/ UNCHANGED vars
  BY <1>8, <1>a DEF Stopped, vars
<1> QED BY <1>1, <1>2, <1>3, <1>4, <1>5, <1>6, <1>7, <1>8 DEF Next, ThreadStep, MainStep

-----------------------------------------------------------------------------
(* What the lists, the threads and the counters add up to *)

LEMMA OnePlaceStep == IInv /\ [Next]_vars => OnePlace'
<1> SUFFICES ASSUME IInv, [Next]_vars, NEW k \in Tasks
             PROVE  (active[k] = Occurrences(k, queue) + Occurrences(k, done) + Occurrences(k, batch)
                                   + Cardinality(Held(k)))'
  BY DEF OnePlace, Held
<1>a. TypeOK /\ CurInv /\ MainInv
  BY DEF IInv
<1>b. ExitTask \notin Tasks /\ NoTask \notin AllTasks
  BY ThreadPoolAssumption DEF ThreadPoolAssumption, AllTasks
<1>c. active[k] = Occurrences(k, queue) + Occurrences(k, done) + Occurrences(k, batch) + Cardinality(Held(k))
  BY DEF IInv, OnePlace, Held
<1>t. /\ {Occurrences(k, queue), Occurrences(k, done), Occurrences(k, batch), Cardinality(Held(k))} \subseteq Nat
      /\ active[k] \in {0, 1} /\ IsFiniteSet(Held(k))
  <2>1. queue \in Seq(AllTasks) /\ done \in Seq(Tasks) /\ batch \in Seq(Tasks)
    BY <1>a DEF TypeOK
  <2>2. Occurrences(k, queue) \in Nat
    BY <2>1, OccurrencesType
  <2>3. Occurrences(k, done) \in Nat /\ Occurrences(k, batch) \in Nat
    BY <2>1, OccurrencesType
  <2>4. active[k] \in {0, 1}
    BY <1>a DEF TypeOK, AllTasks
  <2> QED BY <2>2, <2>3, <2>4, Finite
<1>e. Occurrences(k, <<>>) = 0
  BY OccurrencesEmpty
<1>s. ASSUME UNCHANGED <<active, queue, done, batch>>, Held(k)' = Held(k)
      PROVE  (active[k] = Occurrences(k, queue) + Occurrences(k, done) + Occurrences(k, batch)
                            + Cardinality(Held(k)))'
  BY <1>c, <1>s
<1>1. ASSUME NEW j \in Tasks, Post(j)
      PROVE  active'[k] = Occurrences(k, queue)' + Occurrences(k, done)' + Occurrences(k, batch)'
                            + Cardinality(Held(k)')
  <2>1. /\ active' = [active EXCEPT ![j] = 1] /\ active[j] = 0 /\ queue' = Append(queue, j)
        /\ UNCHANGED <<done, batch>> /\ Held(k)' = Held(k)
    BY <1>1 DEF Post, Enqueue, Accepts, Held
  <2>2. Occurrences(k, queue)' = Occurrences(k, queue) + (IF j = k THEN 1 ELSE 0)
    BY <1>a, <2>1, OccurrencesAppend DEF TypeOK, AllTasks
  <2>3. active'[k] = active[k] + (IF j = k THEN 1 ELSE 0)
    BY <1>a, <1>t, <2>1 DEF TypeOK, AllTasks
  <2> QED BY <1>c, <1>t, <2>1, <2>2, <2>3
<1>2. ASSUME PostExit
      PROVE  active'[k] = Occurrences(k, queue)' + Occurrences(k, done)' + Occurrences(k, batch)'
                            + Cardinality(Held(k)')
  <2>1. /\ active' = [active EXCEPT ![ExitTask] = 1] /\ queue' = Append(queue, ExitTask)
        /\ UNCHANGED <<done, batch>> /\ Held(k)' = Held(k)
    BY <1>2 DEF PostExit, Enqueue, Held
  <2>2. Occurrences(k, queue)' = Occurrences(k, queue)
    <3>1. queue \in Seq(AllTasks) /\ ExitTask \in AllTasks /\ ExitTask # k
      BY <1>a, <1>b DEF TypeOK, AllTasks
    <3>2. Occurrences(k, Append(queue, ExitTask)) = Occurrences(k, queue) + (IF ExitTask = k THEN 1 ELSE 0)
      BY <3>1, OccurrencesAppend
    <3> QED BY <1>t, <2>1, <3>1, <3>2
  <2>3. active'[k] = active[k]
    BY <1>a, <1>b, <2>1 DEF TypeOK, AllTasks
  <2> QED BY <1>c, <1>t, <2>1, <2>2, <2>3
<1>3. ASSUME NEW t \in Threads, Start(t) \/ Recheck(t)
      PROVE  active'[k] = Occurrences(k, queue)' + Occurrences(k, done)' + Occurrences(k, batch)'
                            + Cardinality(Held(k)')
  <2>0. UNCHANGED <<active, done, batch>> /\ pc[t] \in {"start", "woken"}
    BY <1>3 DEF Start, Recheck
  <2>1. CASE queue = <<>>
    <3>1. queue' = queue /\ Held(k)' = Held(k)
      BY <1>3, <2>1 DEF Start, Recheck, TakeOrWait, Held
    <3> QED BY <1>s, <2>0, <3>1
  <2>2. CASE queue # <<>>
    <3>1. cur' = [cur EXCEPT ![t] = Head(queue)] /\ queue' = Tail(queue)
      BY <1>3, <2>2 DEF Start, Recheck, TakeOrWait
    <3>2. Occurrences(k, queue) = Occurrences(k, queue') + (IF Head(queue) = k THEN 1 ELSE 0)
      BY <1>a, <2>2, <3>1, OccurrencesTail DEF TypeOK
    <3>3. t \notin Held(k)
      BY <1>a, <1>b, <2>0 DEF CurInv, Held, AllTasks
    <3>4. Held(k)' = IF Head(queue) = k THEN Held(k) \cup {t} ELSE Held(k)
      BY <1>a, <3>1, <3>3 DEF Held, TypeOK
    <3>5. Cardinality(Held(k)') = Cardinality(Held(k)) + (IF Head(queue) = k THEN 1 ELSE 0)
      <4>1. CASE Head(queue) = k
        <5>1. Cardinality(Held(k) \cup {t}) = Cardinality(Held(k)) + 1
          BY <1>t, <3>3, FS_AddElement
        <5> QED BY <3>4, <4>1, <5>1
      <4>2. CASE Head(queue) # k
        BY <1>t, <3>4, <4>2
      <4> QED BY <4>1, <4>2
    <3>6. Occurrences(k, queue') \in Nat
      <4>1. Tail(queue) \in Seq(AllTasks)
        BY <1>a, <2>2 DEF TypeOK
      <4> QED BY <3>1, <4>1, OccurrencesType
    <3> QED BY <1>c, <1>t, <2>0, <3>2, <3>5, <3>6
  <2> QED BY <2>1, <2>2
<1>4. ASSUME NEW t \in Threads, SpuriousWakeup(t) \/ Run(t) \/ Notify(t) \/ RunExit(t)
      PROVE  active'[k] = Occurrences(k, queue)' + Occurrences(k, done)' + Occurrences(k, batch)'
                            + Cardinality(Held(k)')
  <2>1. UNCHANGED <<active, queue, done, batch>>
    BY <1>4 DEF SpuriousWakeup, Run, Notify, RunExit
  <2>2. Held(k)' = Held(k)
    BY <1>4, <1>a, <1>b DEF SpuriousWakeup, Run, Notify, RunExit, Held, TypeOK, AllTasks
  <2> QED BY <1>s, <2>1, <2>2
<1>5. ASSUME NEW t \in Threads, Finish(t)
      PROVE  active'[k] = Occurrences(k, queue)' + Occurrences(k, done)' + Occurrences(k, batch)'
                            + Cardinality(Held(k)')
  <2>1. /\ cur' = [cur EXCEPT ![t] = NoTask] /\ done' = Append(done, cur[t])
        /\ UNCHANGED <<active, queue, batch>> /\ cur[t] \in Tasks
    BY <1>5, <1>a DEF Finish, CurInv, TypeOK, AllTasks
  <2>2. Occurrences(k, done)' = Occurrences(k, done) + (IF cur[t] = k THEN 1 ELSE 0)
    BY <1>a, <2>1, OccurrencesAppend DEF TypeOK
  <2>3. Held(k)' = Held(k) \ {t} /\ (t \in Held(k) <=> cur[t] = k)
    BY <1>a, <1>b, <2>1 DEF Held, TypeOK, AllTasks
  <2>4. Cardinality(Held(k)') = Cardinality(Held(k)) - (IF cur[t] = k THEN 1 ELSE 0)
    <3>1. CASE cur[t] = k
      <4>1. Cardinality(Held(k) \ {t}) = Cardinality(Held(k)) - 1
        BY <1>t, <2>3, <3>1, FS_RemoveElement
      <4> QED BY <2>3, <3>1, <4>1
    <3>2. CASE cur[t] # k
      <4>1. Held(k)' = Held(k)
        BY <2>3, <3>2
      <4> QED BY <1>t, <3>2, <4>1
    <3> QED BY <3>1, <3>2
  <2> QED BY <1>c, <1>t, <2>1, <2>2, <2>4
<1>6. ASSUME HandleNotify
      PROVE  active'[k] = Occurrences(k, queue)' + Occurrences(k, done)' + Occurrences(k, batch)'
                            + Cardinality(Held(k)')
  <2>1. batch = <<>> /\ done' = <<>> /\ batch' = done /\ UNCHANGED <<active, queue, cur>>
    BY <1>6, <1>a DEF HandleNotify, MainInv, pool
  <2> QED BY <1>c, <1>e, <1>t, <2>1 DEF Held
<1>7. ASSUME CompleteTask
      PROVE  active'[k] = Occurrences(k, queue)' + Occurrences(k, done)' + Occurrences(k, batch)'
                            + Cardinality(Held(k)')
  <2>1. /\ batch # <<>> /\ active' = [active EXCEPT ![Head(batch)] = 0] /\ batch' = Tail(batch)
        /\ UNCHANGED <<queue, done, cur>>
    BY <1>7 DEF CompleteTask, pool
  <2>2. Occurrences(k, batch) = Occurrences(k, batch') + (IF Head(batch) = k THEN 1 ELSE 0)
    BY <1>a, <2>1, OccurrencesTail DEF TypeOK
  <2>3. Occurrences(k, batch') \in Nat
    <3>1. Tail(batch) \in Seq(Tasks)
      BY <1>a, <2>1 DEF TypeOK
    <3> QED BY <2>1, <3>1, OccurrencesType
  <2>4. active'[k] = IF Head(batch) = k THEN 0 ELSE active[k]
    BY <1>a, <2>1 DEF TypeOK, AllTasks
  <2>5. Held(k)' = Held(k)
    BY <2>1 DEF Held
  <2> QED BY <1>c, <1>t, <2>1, <2>2, <2>3, <2>4, <2>5
<1>8. ASSUME Join
      PROVE  active'[k] = Occurrences(k, queue)' + Occurrences(k, done)' + Occurrences(k, batch)'
                            + Cardinality(Held(k)')
  <2>1. active'[k] = active[k] /\ UNCHANGED <<queue, done, batch, cur>>
    BY <1>8, <1>a, <1>b DEF Join, pool, TypeOK, AllTasks
  <2> QED BY <1>c, <2>1 DEF Held
<1>9. ASSUME CallbackReturns \/ BatchEnds \/ Destroy \/ DestroyGivesUp \/ Stopped \/ UNCHANGED vars
      PROVE  active'[k] = Occurrences(k, queue)' + Occurrences(k, done)' + Occurrences(k, batch)'
                            + Cardinality(Held(k)')
  <2>1. UNCHANGED <<active, queue, done, batch, cur>>
    BY <1>9 DEF CallbackReturns, BatchEnds, Destroy, DestroyGivesUp, Stopped, vars, pool
  <2> QED BY <1>s, <2>1 DEF Held
<1> QED BY <1>1, <1>2, <1>3, <1>4, <1>5, <1>6, <1>7, <1>8, <1>9 DEF Next, ThreadStep, MainStep

LEMMA WaitingStep == IInv /\ [Next]_vars => WaitingCount'
<1> SUFFICES ASSUME IInv, [Next]_vars PROVE WaitingCount'
  OBVIOUS
<1>a. TypeOK /\ WaitingCount
  BY DEF IInv
<1>b. /\ waiting \in Int /\ MaxQueue \in Nat /\ Len(queue) \in Nat /\ queue \in Seq(AllTasks)
      /\ Cardinality(Idle) \in Nat /\ IsFiniteSet(Idle)
  <2>1. queue \in Seq(AllTasks) /\ waiting \in Int
    BY <1>a DEF TypeOK
  <2>2. Len(queue) \in Nat
    BY <2>1
  <2> QED BY <2>1, <2>2, Finite, ThreadPoolAssumption DEF ThreadPoolAssumption
<1>s. ASSUME UNCHANGED <<queue, waiting>>, Idle' = Idle PROVE WaitingCount'
  BY <1>a, <1>s DEF WaitingCount
<1>1. ASSUME NEW k, Enqueue(k) PROVE WaitingCount'
  <2>1. queue' = Append(queue, k) /\ waiting' = waiting + 1 /\ waiting < MaxQueue
    BY <1>1 DEF Enqueue, Accepts
  <2>2. Idle' = Idle
    BY <1>1, <1>a DEF Enqueue, Signal, Asleep, Goto, Idle, TypeOK
  <2>3. Len(queue') = Len(queue) + 1
    BY <1>b, <2>1
  <2> QED BY <1>a, <1>b, <2>1, <2>2, <2>3 DEF WaitingCount
<1>2. ASSUME NEW t \in Threads, Start(t) PROVE WaitingCount'
  <2>1. waiting' = waiting - 1 /\ t \notin Idle
    BY <1>2 DEF Start, Idle
  <2>2. CASE queue = <<>>
    <3>1. queue' = queue /\ pc' = [pc EXCEPT ![t] = "wait"]
      BY <1>2, <2>2 DEF Start, TakeOrWait, Goto
    <3>2. Idle' = Idle \cup {t}
      BY <1>a, <3>1 DEF Idle, TypeOK
    <3>3. Cardinality(Idle') = Cardinality(Idle) + 1
      BY <1>b, <2>1, <3>2, FS_AddElement
    <3> QED BY <1>a, <1>b, <2>1, <3>1, <3>3 DEF WaitingCount
  <2>3. CASE queue # <<>>
    <3>1. queue' = Tail(queue) /\ pc' = [pc EXCEPT ![t] = "run"]
      BY <1>2, <2>3 DEF Start, TakeOrWait, Goto
    <3>2. Idle' = Idle
      BY <1>a, <2>1, <3>1 DEF Idle, TypeOK
    <3>3. Len(queue') = Len(queue) - 1
      BY <1>b, <2>3, <3>1
    <3> QED BY <1>a, <1>b, <2>1, <3>2, <3>3 DEF WaitingCount
  <2> QED BY <2>2, <2>3
<1>3. ASSUME NEW t \in Threads, Recheck(t) PROVE WaitingCount'
  <2>1. waiting' = waiting /\ t \in Idle
    BY <1>3 DEF Recheck, Idle
  <2>2. CASE queue = <<>>
    <3>1. queue' = queue /\ pc' = [pc EXCEPT ![t] = "wait"]
      BY <1>3, <2>2 DEF Recheck, TakeOrWait, Goto
    <3>2. Idle' = Idle
      BY <1>a, <2>1, <3>1 DEF Idle, TypeOK
    <3> QED BY <1>s, <2>1, <3>1, <3>2
  <2>3. CASE queue # <<>>
    <3>1. queue' = Tail(queue) /\ pc' = [pc EXCEPT ![t] = "run"]
      BY <1>3, <2>3 DEF Recheck, TakeOrWait, Goto
    <3>2. Idle' = Idle \ {t}
      BY <1>a, <3>1 DEF Idle, TypeOK
    <3>3. Cardinality(Idle') = Cardinality(Idle) - 1
      BY <1>b, <2>1, <3>2, FS_RemoveElement
    <3>4. Len(queue') = Len(queue) - 1
      BY <1>b, <2>3, <3>1
    <3> QED BY <1>a, <1>b, <2>1, <3>3, <3>4 DEF WaitingCount
  <2> QED BY <2>2, <2>3
<1>4. ASSUME NEW t \in Threads, SpuriousWakeup(t) \/ Run(t) \/ RunExit(t) \/ Finish(t) \/ Notify(t)
      PROVE  WaitingCount'
  <2>1. UNCHANGED <<queue, waiting>>
    BY <1>4 DEF SpuriousWakeup, Run, RunExit, Finish, Notify
  <2>2. Idle' = Idle
    BY <1>4, <1>a DEF SpuriousWakeup, Run, RunExit, Finish, Notify, Goto, Idle, TypeOK
  <2> QED BY <1>s, <2>1, <2>2
<1>5. ASSUME HandleNotify \/ CompleteTask \/ CallbackReturns \/ BatchEnds \/ DestroyGivesUp \/ Join
               \/ Destroy \/ Stopped \/ UNCHANGED vars
      PROVE  WaitingCount'
  <2>1. UNCHANGED <<queue, waiting, pc>>
    BY <1>5 DEF HandleNotify, CompleteTask, CallbackReturns, BatchEnds, DestroyGivesUp, Join, Destroy,
         Stopped, vars, pool
  <2> QED BY <1>s, <2>1 DEF Idle
<1> QED BY <1>1, <1>2, <1>3, <1>4, <1>5 DEF Next, ThreadStep, MainStep, Post, PostExit

LEMMA WakeStep == IInv /\ [Next]_vars => WakeInv'
<1> SUFFICES ASSUME IInv, [Next]_vars PROVE WakeInv'
  OBVIOUS
<1>a. TypeOK /\ WakeInv
  BY DEF IInv
<1>b. queue \in Seq(AllTasks) /\ Len(queue) \in Nat /\ Cardinality(Woken) \in Nat /\ IsFiniteSet(Woken)
  <2>1. queue \in Seq(AllTasks)
    BY <1>a DEF TypeOK
  <2>2. Len(queue) \in Nat
    BY <2>1
  <2> QED BY <2>1, <2>2, Finite
<1>s. ASSUME UNCHANGED queue, Asleep' = Asleep, Woken' = Woken PROVE WakeInv'
  BY <1>a, <1>s DEF WakeInv
<1>1. ASSUME NEW k, Enqueue(k) PROVE WakeInv'
  <2>1. Len(queue') = Len(queue) + 1
    BY <1>1, <1>b DEF Enqueue
  <2>2. CASE Asleep = {}
    BY <1>1, <2>2 DEF Enqueue, Signal, Asleep, WakeInv
  <2>3. CASE Asleep # {}
    <3>1. PICK t \in Asleep : pc' = [pc EXCEPT ![t] = "woken"]
      BY <1>1, <2>3 DEF Enqueue, Signal, Goto
    <3>2. Woken' = Woken \cup {t} /\ t \notin Woken
      BY <1>a, <3>1 DEF Woken, Asleep, TypeOK
    <3>3. Cardinality(Woken') = Cardinality(Woken) + 1
      BY <1>b, <3>2, FS_AddElement
    <3> QED BY <1>a, <1>b, <2>1, <2>3, <3>3 DEF WakeInv
  <2> QED BY <2>2, <2>3
<1>2. ASSUME NEW t \in Threads, Start(t) \/ Recheck(t) PROVE WakeInv'
  <2>1. CASE queue = <<>>
    <3>1. Len(queue') = 0
      BY <1>2, <2>1 DEF Start, Recheck, TakeOrWait
    <3>2. IsFiniteSet(Woken') /\ Cardinality(Woken') \in Nat
      <4>1. Woken' \subseteq Threads
        BY DEF Woken
      <4> QED BY <4>1, ThreadPoolAssumption, FS_Subset, FS_CardinalityType DEF ThreadPoolAssumption
    <3> QED BY <3>1, <3>2 DEF WakeInv
  <2>2. CASE queue # <<>>
    <3>1. queue' = Tail(queue) /\ pc' = [pc EXCEPT ![t] = "run"] /\ pc[t] \in {"start", "woken"}
      BY <1>2, <2>2 DEF Start, Recheck, TakeOrWait, Goto
    <3>2. Len(queue') = Len(queue) - 1
      BY <1>b, <2>2, <3>1
    <3>3. Asleep' = Asleep /\ Woken' = Woken \ {t}
      BY <1>a, <3>1 DEF Asleep, Woken, TypeOK
    <3>4. Cardinality(Woken') >= Cardinality(Woken) - 1 /\ Cardinality(Woken') \in Nat
      <4>1. CASE t \in Woken
        <5>1. Cardinality(Woken \ {t}) = Cardinality(Woken) - 1 /\ IsFiniteSet(Woken \ {t})
          BY <1>b, <4>1, FS_RemoveElement
        <5> QED BY <1>b, <3>3, <5>1, FS_CardinalityType
      <4>2. CASE t \notin Woken
        <5>1. Woken' = Woken
          BY <3>3, <4>2
        <5> QED BY <1>b, <5>1
      <4> QED BY <4>1, <4>2
    <3> QED BY <1>a, <1>b, <3>2, <3>3, <3>4 DEF WakeInv
  <2> QED BY <2>1, <2>2
<1>3. ASSUME NEW t \in Threads, SpuriousWakeup(t) PROVE WakeInv'
  <2>1. Asleep # {} /\ Woken' = Woken \cup {t} /\ t \notin Woken /\ queue' = queue
    BY <1>3, <1>a DEF SpuriousWakeup, Asleep, Woken, Goto, TypeOK
  <2>2. Cardinality(Woken') = Cardinality(Woken) + 1
    BY <1>b, <2>1, FS_AddElement
  <2> QED BY <1>a, <1>b, <2>1, <2>2 DEF WakeInv
<1>4. ASSUME NEW t \in Threads, Run(t) \/ RunExit(t) \/ Finish(t) \/ Notify(t) PROVE WakeInv'
  <2>1. UNCHANGED queue
    BY <1>4 DEF Run, RunExit, Finish, Notify
  <2>2. Asleep' = Asleep /\ Woken' = Woken
    BY <1>4, <1>a DEF Run, RunExit, Finish, Notify, Goto, Asleep, Woken, TypeOK
  <2> QED BY <1>s, <2>1, <2>2
<1>5. ASSUME HandleNotify \/ CompleteTask \/ CallbackReturns \/ BatchEnds \/ DestroyGivesUp \/ Join
               \/ Destroy \/ Stopped \/ UNCHANGED vars
      PROVE  WakeInv'
  <2>1. UNCHANGED <<queue, pc>>
    BY <1>5 DEF HandleNotify, CompleteTask, CallbackReturns, BatchEnds, DestroyGivesUp, Join, Destroy,
         Stopped, vars, pool
  <2> QED BY <1>s, <2>1 DEF Asleep, Woken
<1> QED BY <1>1, <1>2, <1>3, <1>4, <1>5 DEF Next, ThreadStep, MainStep, Post, PostExit

LEMMA DoneStep == IInv /\ [Next]_vars => DoneIsNotified'
<1> SUFFICES ASSUME IInv, [Next]_vars PROVE DoneIsNotified'
  OBVIOUS
<1>a. TypeOK /\ DoneIsNotified
  BY DEF IInv
<1>s. ASSUME UNCHANGED <<done, notified>>, \A u \in Threads : pc[u] = "notify" => pc'[u] = "notify"
      PROVE  DoneIsNotified'
  BY <1>a, <1>s DEF DoneIsNotified
<1>1. ASSUME NEW k, Enqueue(k), UNCHANGED <<done, notified>> PROVE DoneIsNotified'
  <2>1. \A u \in Threads : pc[u] = "notify" => pc'[u] = "notify"
    BY <1>1, <1>a DEF Enqueue, Signal, Asleep, Goto, TypeOK
  <2> QED BY <1>s, <1>1, <2>1
<1>2. ASSUME NEW t \in Threads, Start(t) \/ Recheck(t) \/ SpuriousWakeup(t) \/ Run(t) \/ RunExit(t)
      PROVE  DoneIsNotified'
  <2>1. \A u \in Threads : pc[u] = "notify" => pc'[u] = "notify"
    BY <1>2, <1>a DEF Start, Recheck, TakeOrWait, SpuriousWakeup, Run, RunExit, Goto, TypeOK
  <2>2. UNCHANGED <<done, notified>>
    BY <1>2 DEF Start, Recheck, SpuriousWakeup, Run, RunExit
  <2> QED BY <1>s, <2>1, <2>2
<1>3. ASSUME NEW t \in Threads, Finish(t) PROVE DoneIsNotified'
  BY <1>3, <1>a DEF Finish, Goto, TypeOK, DoneIsNotified
<1>4. ASSUME NEW t \in Threads, Notify(t) PROVE DoneIsNotified'
  BY <1>4 DEF Notify, DoneIsNotified
<1>5. CASE HandleNotify
  BY <1>5 DEF HandleNotify, DoneIsNotified
<1>6. ASSUME CompleteTask \/ CallbackReturns \/ BatchEnds \/ DestroyGivesUp \/ Join
               \/ Destroy \/ Stopped \/ UNCHANGED vars
      PROVE  DoneIsNotified'
  <2>1. UNCHANGED <<done, notified, pc>>
    BY <1>6 DEF CompleteTask, CallbackReturns, BatchEnds, DestroyGivesUp, Join, Destroy, Stopped, vars, pool
  <2> QED BY <1>s, <2>1
<1> QED BY <1>1, <1>2, <1>3, <1>4, <1>5, <1>6 DEF Next, ThreadStep, MainStep, Post, PostExit

(* Where threads are known to sleep or to have ended, the queue is empty. *)
LEMMA AwakeWhenQueued == IInv => NoTaskStranded
<1> SUFFICES ASSUME IInv, queue # <<>> PROVE \E t \in Threads : pc[t] \notin {"wait", "exited"}
  BY DEF NoTaskStranded
<1>1. Len(queue) \in Nat /\ Len(queue) > 0
  <2>1. queue \in Seq(AllTasks)
    BY DEF IInv, TypeOK
  <2> QED BY <2>1
<1>2. CASE Asleep # {}
  <2>1. Len(queue) <= Cardinality(Woken)
    BY <1>2 DEF IInv, WakeInv
  <2>2. Woken # {}
    BY <1>1, <2>1, FS_EmptySet
  <2> QED BY <2>2 DEF Woken
<1>3. CASE Asleep = {}
  <2>1. Cardinality(Threads) > 0 /\ IsFiniteSet(Threads) /\ Cardinality(Threads) \in Nat
    BY ThreadPoolAssumption, Finite, FS_EmptySet DEF ThreadPoolAssumption
  <2>2. Cardinality(Exited) < Cardinality(Threads)
    <3>1. Cardinality(Exited) = joined + (IF main = "join" /\ exitLock = 0 THEN 1 ELSE 0)
      BY DEF IInv, JoinsOneByOne, Exited
    <3>2. main # "destroyed" /\ ~(main = "join" /\ exitLock = 0)
      BY DEF IInv, JoinsOneByOne, Drained
    <3>3. joined < Cardinality(Threads) /\ joined \in Int
      BY <2>1, <3>2 DEF IInv, MainInv, TypeOK
    <3> QED BY <2>1, <3>1, <3>2, <3>3
  <2>3. Exited # Threads
    BY <2>1, <2>2
  <2> QED BY <1>3, <2>3 DEF Asleep, Exited
<1> QED BY <1>2, <1>3

LEMMA JoinStep == IInv /\ [Next]_vars => JoinsOneByOne' /\ Drained'
<1> SUFFICES ASSUME IInv, [Next]_vars PROVE JoinsOneByOne' /\ Drained'
  OBVIOUS
<1>a. TypeOK /\ CurInv /\ MainInv /\ ExitInv /\ Drained /\ JoinsOneByOne
  BY DEF IInv
<1>b. /\ Cardinality(Exited) = joined + (IF main = "join" /\ exitLock = 0 THEN 1 ELSE 0)
      /\ main = "destroyed" => queue = <<>> /\ Exited = Threads
      /\ joined \in Nat /\ Cardinality(Exited) \in Nat /\ IsFiniteSet(Exited)
      /\ Cardinality(Threads) \in Nat /\ IsFiniteSet(Threads)
  <2>1. main = "destroyed" => queue = <<>> /\ Exited = Threads
    BY <1>a DEF JoinsOneByOne, Exited
  <2>2. joined \in Nat
    BY <1>a, Finite DEF TypeOK
  <2> QED BY <1>a, <2>1, <2>2, Finite, ThreadPoolAssumption
          DEF JoinsOneByOne, Exited, ThreadPoolAssumption
<1>g. ASSUME /\ Cardinality(Exited') = joined' + (IF main' = "join" /\ exitLock' = 0 THEN 1 ELSE 0)
             /\ main' = "destroyed" => queue' = <<>> /\ Exited' = Threads
             /\ main' = "join" /\ exitLock' = 0 => queue' = <<>>
      PROVE  JoinsOneByOne' /\ Drained'
  BY <1>g DEF JoinsOneByOne, Drained, Exited
<1>1. ASSUME NEW k, Enqueue(k) PROVE Exited' = Exited
  BY <1>1, <1>a DEF Enqueue, Signal, Asleep, Goto, Exited, TypeOK
<1>2. ASSUME NEW k \in Tasks, Post(k) PROVE JoinsOneByOne' /\ Drained'
  <2>1. Exited' = Exited /\ main \in {"loop", "callback"} /\ UNCHANGED <<main, exitLock, joined>>
    BY <1>1, <1>2 DEF Post, exit
  <2> QED BY <1>b, <1>g, <2>1
<1>3. ASSUME PostExit PROVE JoinsOneByOne' /\ Drained'
  <2>1. Exited' = Exited /\ main = "stopping" /\ main' = "join" /\ exitLock' = 1 /\ joined' = joined
    BY <1>1, <1>3 DEF PostExit
  <2> QED BY <1>b, <1>g, <2>1
<1>4. ASSUME NEW t \in Threads, Start(t) \/ Recheck(t) PROVE JoinsOneByOne' /\ Drained'
  <2>1. UNCHANGED <<main, exitLock, joined>>
    BY <1>4 DEF Start, Recheck, exit
  <2>2. Exited' = Exited
    BY <1>4, <1>a DEF Start, Recheck, TakeOrWait, Goto, Exited, TypeOK
  <2>3. queue = <<>> => queue' = <<>>
    BY <1>4 DEF Start, Recheck, TakeOrWait
  <2> QED BY <1>a, <1>b, <1>g, <2>1, <2>2, <2>3 DEF Drained
<1>5. ASSUME NEW t \in Threads, SpuriousWakeup(t) \/ Run(t) \/ Finish(t) \/ Notify(t)
      PROVE  JoinsOneByOne' /\ Drained'
  <2>1. UNCHANGED <<main, exitLock, joined, queue>>
    BY <1>5 DEF SpuriousWakeup, Run, Finish, Notify, exit
  <2>2. Exited' = Exited
    BY <1>5, <1>a DEF SpuriousWakeup, Run, Finish, Notify, Goto, Exited, TypeOK
  <2> QED BY <1>a, <1>b, <1>g, <2>1, <2>2 DEF Drained
<1>6. ASSUME NEW t \in Threads, RunExit(t) PROVE JoinsOneByOne' /\ Drained'
  <2>1. /\ pc[t] = "run" /\ cur[t] = ExitTask /\ pc' = [pc EXCEPT ![t] = "exited"]
        /\ exitLock' = 0 /\ UNCHANGED <<queue, main, joined>>
    BY <1>6 DEF RunExit, Goto
  <2>2. main = "join" /\ exitLock = 1 /\ queue = <<>>
    BY <1>a, <2>1 DEF ExitInv, ExitAwaited, ExitNowhere, ExitQueued, ExitHeld
  <2>3. Exited' = Exited \cup {t} /\ t \notin Exited
    BY <1>a, <2>1 DEF Exited, TypeOK
  <2>4. Cardinality(Exited') = Cardinality(Exited) + 1
    BY <1>b, <2>3, FS_AddElement
  <2> QED BY <1>b, <1>g, <2>1, <2>2, <2>4
<1>7. ASSUME Join PROVE JoinsOneByOne' /\ Drained'
  <2>1. /\ main = "join" /\ exitLock = 0 /\ joined' = joined + 1 /\ UNCHANGED <<queue, exitLock>>
        /\ main' = IF joined + 1 < Cardinality(Threads) THEN "stopping" ELSE "destroyed"
        /\ Exited' = Exited
    BY <1>7 DEF Join, pool, Exited
  <2>2. main' = "destroyed" => Exited = Threads
    <3>1. joined < Cardinality(Threads)
      BY <1>a, <2>1 DEF MainInv
    <3>2. Cardinality(Exited) = joined + 1
      BY <1>b, <2>1
    <3>3. Exited \subseteq Threads
      BY DEF Exited
    <3>4. Cardinality(Exited) = Cardinality(Threads) => Exited = Threads
      BY <1>b, <3>3, FS_Subset
    <3> QED BY <1>b, <2>1, <3>1, <3>2, <3>4
  <2>3. queue = <<>>
    BY <1>a, <2>1 DEF Drained
  <2>4. main' # "join" /\ Cardinality(Exited') = joined'
    BY <1>b, <2>1
  <2> QED BY <1>g, <2>1, <2>2, <2>3, <2>4
<1>8. ASSUME HandleNotify \/ CompleteTask \/ CallbackReturns \/ BatchEnds \/ Destroy
      PROVE  JoinsOneByOne' /\ Drained'
  <2>1. /\ main \in {"loop", "batch", "callback"} /\ main' \in {"loop", "batch", "callback", "stopping"}
        /\ UNCHANGED <<queue, pc, exitLock, joined>>
    BY <1>8 DEF HandleNotify, CompleteTask, CallbackReturns, BatchEnds, Destroy, pool, exit
  <2> QED BY <1>b, <1>g, <2>1 DEF Exited
<1>9. ASSUME DestroyGivesUp PROVE JoinsOneByOne' /\ Drained'
  <2>1. main = "stopping" /\ main' = "gaveup" /\ UNCHANGED <<queue, pc, joined>>
    BY <1>9 DEF DestroyGivesUp, pool
  <2> QED BY <1>b, <1>g, <2>1 DEF Exited
<1>10. ASSUME Stopped \/ UNCHANGED vars PROVE JoinsOneByOne' /\ Drained'
  <2>1. UNCHANGED <<queue, pc, main, exitLock, joined>>
    BY <1>10 DEF Stopped, vars
  <2> QED BY <1>a, <1>b, <1>g, <2>1 DEF Exited, Drained
<1> QED BY <1>2, <1>3, <1>4, <1>5, <1>6, <1>7, <1>8, <1>9, <1>10 DEF Next, ThreadStep, MainStep

-----------------------------------------------------------------------------
(* The theorems *)

LEMMA InitIInv == Init => IInv
<1> SUFFICES ASSUME Init PROVE IInv
  OBVIOUS
<1>1. /\ NoTask \notin AllTasks /\ ExitTask \in AllTasks /\ MaxQueue \in Nat
      /\ Cardinality(Threads) \in Nat /\ Cardinality(Threads) > 0
  BY ThreadPoolAssumption, Finite, FS_EmptySet DEF ThreadPoolAssumption, AllTasks
<1>2. TypeOK /\ CurInv /\ MainInv /\ ExitInv /\ Drained
  <2>1. <<>> \in Seq(AllTasks) /\ <<>> \in Seq(Tasks) /\ Len(<<>>) = 0
    OBVIOUS
  <2>2. TypeOK
    <3>1. joined \in 0..Cardinality(Threads) /\ waiting \in Int
      BY <1>1 DEF Init
    <3>2. /\ pc \in [Threads -> {"start", "wait", "woken", "run", "fin", "notify", "exited"}]
          /\ cur \in [Threads -> AllTasks \cup {NoTask}] /\ active \in [AllTasks -> {0, 1}]
      BY DEF Init
    <3> QED BY <2>1, <3>1, <3>2 DEF Init, TypeOK
  <2>3. CurInv /\ MainInv
    BY <1>1 DEF Init, CurInv, MainInv, AllTasks
  <2>4. ExitInv /\ Drained
    BY <1>1, <2>1 DEF Init, ExitInv, ExitAwaited, ExitNowhere, NoExitIn, Drained
  <2> QED BY <2>2, <2>3, <2>4
<1>3. Asleep = {} /\ Idle = {} /\ Exited = {} /\ \A k \in Tasks : Held(k) = {}
  BY <1>1 DEF Init, Asleep, Idle, Exited, Held, AllTasks
<1>4. WaitingCount /\ WakeInv /\ DoneIsNotified
  BY <1>1, <1>3, FS_EmptySet DEF Init, WaitingCount, WakeInv, DoneIsNotified
<1>5. JoinsOneByOne
  <2>1. Cardinality(Exited) = 0
    BY <1>3, FS_EmptySet
  <2> QED BY <2>1 DEF Init, JoinsOneByOne, Exited
<1>6. OnePlace
  <2>1. SUFFICES ASSUME NEW k \in Tasks
                 PROVE  active[k] = Occurrences(k, queue) + Occurrences(k, done) + Occurrences(k, batch)
                                      + Cardinality(Held(k))
    BY DEF OnePlace, Held
  <2>2. Occurrences(k, <<>>) = 0
    BY OccurrencesEmpty
  <2>3. Cardinality(Held(k)) = 0
    BY <1>3, FS_EmptySet
  <2>4. active[k] = 0 /\ queue = <<>> /\ done = <<>> /\ batch = <<>>
    BY DEF Init, AllTasks
  <2> QED BY <2>2, <2>3, <2>4
<1> QED BY <1>2, <1>4, <1>5, <1>6 DEF IInv

LEMMA Inductive == Spec => []IInv
<1>1. IInv /\ [Next]_vars => IInv'
  BY TypeStep, ExitStep, OnePlaceStep, WaitingStep, WakeStep, DoneStep, JoinStep DEF IInv
<1> QED BY <1>1, InitIInv, PTL DEF Spec

(* The types hold, and so every list is of tasks of its kind: the exit task is *)
(* never linked to ngx_thread_pool_done nor completed. *)
THEOREM TypeCorrect == Spec => []TypeOK
<1>1. IInv => TypeOK
  BY DEF IInv
<1> QED BY <1>1, Inductive, PTL

(* The counter that limits the queue counts what ngx_thread_task_post() and   *)
(* ngx_thread_pool_cycle() mean it to count, whoever takes which task. *)
THEOREM WaitingCorrect == Spec => []WaitingCount
<1>1. IInv => WaitingCount
  BY DEF IInv
<1> QED BY <1>1, Inductive, PTL

(* A task is linked once as long as it is active, and nowhere afterwards. *)
THEOREM TasksInOnePlace == Spec => []OnePlace
<1>1. IInv => OnePlace
  BY DEF IInv
<1> QED BY <1>1, Inductive, PTL

(* No wakeup is lost: a task in the queue has a thread that will look at it. *)
THEOREM NoLostTask == Spec => []NoTaskStranded
<1> QED BY AwakeWhenQueued, Inductive, PTL

(* The event loop will hear of every task on ngx_thread_pool_done. *)
THEOREM NoLostCompletion == Spec => []DoneIsNotified
<1>1. IInv => DoneIsNotified
  BY DEF IInv
<1> QED BY <1>1, Inductive, PTL

(* ngx_thread_pool_destroy() destroys the mutex after the last thread ended. *)
THEOREM ThreadsEndOneByOne == Spec => []JoinsOneByOne
<1>1. IInv => JoinsOneByOne
  BY DEF IInv
<1> QED BY <1>1, Inductive, PTL

-----------------------------------------------------------------------------
(* The task service *)

Listed(k, s) == \E i \in 1..Len(s) : s[i] = k

LEMMA ListedOccurs ==
    ASSUME NEW S, NEW s \in Seq(S), NEW k
    PROVE  Listed(k, s) <=> Occurrences(k, s) > 0
<1> DEFINE A == {i \in 1..Len(s) : s[i] = k}
<1>1. IsFiniteSet(A) /\ Cardinality(A) \in Nat /\ Occurrences(k, s) = Cardinality(A)
  BY OccurrencesType DEF Occurrences
<1>2. Listed(k, s) <=> A # {}
  BY DEF Listed
<1> HIDE DEF A
<1>3. Cardinality(A) = 0 <=> A = {}
  BY <1>1, FS_EmptySet
<1> QED BY <1>1, <1>2, <1>3

LEMMA ListedMoves ==
    ASSUME NEW S, NEW s \in Seq(S), NEW x \in S, NEW k
    PROVE  /\ Listed(k, Append(s, x)) <=> Listed(k, s) \/ x = k
           /\ s # <<>> => (Listed(k, s) <=> Listed(k, Tail(s)) \/ Head(s) = k)
           /\ ~Listed(k, <<>>)
<1>1. Listed(k, Append(s, x)) <=> Listed(k, s) \/ x = k
  <2>1. /\ Len(Append(s, x)) = Len(s) + 1 /\ Append(s, x)[Len(s) + 1] = x
        /\ \A i \in 1..Len(s) : Append(s, x)[i] = s[i]
        /\ Len(s) \in Nat
    BY AppendProperties
  <2> DEFINE t == Append(s, x)
  <2> HIDE DEF t
  <2> QED BY <2>1 DEF Listed, t
<1>2. ASSUME s # <<>> PROVE Listed(k, s) <=> Listed(k, Tail(s)) \/ Head(s) = k
  <2>1. /\ Len(Tail(s)) = Len(s) - 1 /\ \A i \in 1..Len(Tail(s)) : Tail(s)[i] = s[i + 1]
        /\ Head(s) = s[1] /\ Len(s) \in Nat \ {0}
    BY <1>2
  <2> DEFINE t == Tail(s)
             h == Head(s)
  <2> HIDE DEF t, h
  <2>2. /\ Len(t) = Len(s) - 1 /\ \A i \in 1..Len(t) : t[i] = s[i + 1]
        /\ h = s[1] /\ Len(s) \in Nat \ {0}
    BY <2>1 DEF t, h
  <2>3. ASSUME Listed(k, t) PROVE Listed(k, s)
    BY <2>2, <2>3 DEF Listed
  <2>4. ASSUME NEW i \in 1..Len(s), s[i] = k, i # 1 PROVE Listed(k, t)
    <3>1. i - 1 \in 1..Len(t) /\ t[i - 1] = s[(i - 1) + 1] /\ (i - 1) + 1 = i
      BY <2>2, <2>4
    <3> QED BY <2>4, <3>1 DEF Listed
  <2>5. ASSUME h = k PROVE Listed(k, s)
    <3>1. 1 \in 1..Len(s) /\ s[1] = k
      BY <2>2, <2>5
    <3> QED BY <3>1 DEF Listed
  <2> QED BY <2>2, <2>3, <2>4, <2>5 DEF Listed, t, h
<1>3. ~Listed(k, <<>>)
  BY DEF Listed
<1> QED BY <1>1, <1>2, <1>3

(* What the status of a task says of the places it may be in. *)
LEMMA StatusIs ==
    IInv => \A k \in Tasks :
       /\ StatusOf(k) \in {"idle", "posted", "running", "ran"}
       /\ StatusOf(k) = "idle" <=> active[k] = 0
       /\ StatusOf(k) = "posted" <=> Listed(k, queue)
       /\ StatusOf(k) = "running" <=> Held(k) # {}
       /\ StatusOf(k) = "ran" <=> Listed(k, done) \/ Listed(k, batch)
<1> SUFFICES ASSUME IInv, NEW k \in Tasks
             PROVE  /\ StatusOf(k) \in {"idle", "posted", "running", "ran"}
                    /\ StatusOf(k) = "idle" <=> active[k] = 0
                    /\ StatusOf(k) = "posted" <=> Listed(k, queue)
                    /\ StatusOf(k) = "running" <=> Held(k) # {}
                    /\ StatusOf(k) = "ran" <=> Listed(k, done) \/ Listed(k, batch)
  OBVIOUS
<1>a. TypeOK /\ CurInv /\ OnePlace
  BY DEF IInv
<1>1. active[k] = Occurrences(k, queue) + Occurrences(k, done) + Occurrences(k, batch) + Cardinality(Held(k))
  BY <1>a DEF OnePlace, Held
<1>2. /\ Occurrences(k, queue) \in Nat /\ Occurrences(k, done) \in Nat /\ Occurrences(k, batch) \in Nat
      /\ Cardinality(Held(k)) \in Nat /\ IsFiniteSet(Held(k)) /\ active[k] \in {0, 1}
  <2>1. queue \in Seq(AllTasks) /\ done \in Seq(Tasks) /\ batch \in Seq(Tasks) /\ active[k] \in {0, 1}
    BY <1>a DEF TypeOK, AllTasks
  <2> QED BY <2>1, OccurrencesType, Finite
<1>3. /\ Listed(k, queue) <=> Occurrences(k, queue) > 0
      /\ Listed(k, done) <=> Occurrences(k, done) > 0
      /\ Listed(k, batch) <=> Occurrences(k, batch) > 0
  <2>1. queue \in Seq(AllTasks) /\ done \in Seq(Tasks) /\ batch \in Seq(Tasks)
    BY <1>a DEF TypeOK
  <2> QED BY <2>1, ListedOccurs
<1>4. Held(k) # {} <=> Cardinality(Held(k)) > 0
  <2>1. Cardinality(Held(k)) = 0 <=> Held(k) = {}
    BY <1>2, FS_EmptySet
  <2> QED BY <1>2, <2>1
<1>5. Held(k) # {} <=> \E t \in Threads : pc[t] \in {"run", "fin"} /\ cur[t] = k
  <2>1. k # NoTask
    BY ThreadPoolAssumption DEF ThreadPoolAssumption
  <2> QED BY <1>a, <2>1 DEF CurInv, Held
<1>6. StatusOf(k) = IF active[k] = 0 THEN "idle"
                    ELSE IF Listed(k, queue) THEN "posted"
                    ELSE IF Held(k) # {} THEN "running" ELSE "ran"
  <2>1. active[k] = 0 => ~Listed(k, queue) /\ Held(k) = {}
    BY <1>1, <1>2, <1>3, <1>4
  <2>2. Listed(k, queue) => Held(k) = {}
    BY <1>1, <1>2, <1>3, <1>4
  <2> QED BY <1>5, <2>1, <2>2 DEF StatusOf, Listed
<1>7. active[k] = 0 => ~Listed(k, queue) /\ Held(k) = {} /\ ~Listed(k, done) /\ ~Listed(k, batch)
  BY <1>1, <1>2, <1>3, <1>4
<1>8. active[k] # 0 => \/ Listed(k, queue) /\ Held(k) = {} /\ ~Listed(k, done) /\ ~Listed(k, batch)
                       \/ ~Listed(k, queue) /\ Held(k) # {} /\ ~Listed(k, done) /\ ~Listed(k, batch)
                       \/ ~Listed(k, queue) /\ Held(k) = {} /\ (Listed(k, done) \/ Listed(k, batch))
  BY <1>1, <1>2, <1>3, <1>4
<1> QED BY <1>6, <1>7, <1>8, Zenon

(* The line is the queue up to the exit task. *)
LEMMA LineMoves ==
    ASSUME NEW s \in Seq(AllTasks)
    PROVE  /\ NoExitIn(s) => UserTasks(s) = s
           /\ \A k \in Tasks : UserTasks(Append(s, k)) = Append(s, k)
           /\ UserTasks(Append(s, ExitTask)) = s
           /\ (s # <<>> /\ Head(s) # ExitTask) =>
                 /\ UserTasks(s) # <<>> /\ Head(UserTasks(s)) = Head(s)
                 /\ UserTasks(Tail(s)) = Tail(UserTasks(s))
           /\ Len(s) = 1 /\ Head(s) = ExitTask => UserTasks(s) = <<>> /\ UserTasks(Tail(s)) = <<>>
<1>n. Len(s) \in Nat /\ ExitTask \notin Tasks
  BY ThreadPoolAssumption DEF ThreadPoolAssumption
<1>1. NoExitIn(s) => UserTasks(s) = s
  BY <1>n, EmptySeq DEF NoExitIn, UserTasks
<1>2. ASSUME NEW k \in Tasks PROVE UserTasks(Append(s, k)) = Append(s, k)
  <2>1. k \in AllTasks
    BY DEF AllTasks
  <2>2. Len(Append(s, k)) = Len(s) + 1 /\ Append(s, k)[Len(s) + 1] = k
    BY <2>1, AppendProperties
  <2> QED BY <1>n, <2>2 DEF UserTasks
<1>3. UserTasks(Append(s, ExitTask)) = s
  <2> DEFINE t == Append(s, ExitTask)
  <2>1. ExitTask \in AllTasks
    BY DEF AllTasks
  <2>2. /\ t \in Seq(AllTasks) /\ t # <<>> /\ Len(t) = Len(s) + 1 /\ t[Len(s) + 1] = ExitTask
        /\ \A i \in 1..Len(s) : t[i] = s[i]
    BY <2>1, AppendProperties
  <2> HIDE DEF t
  <2>3. UserTasks(t) = SubSeq(t, 1, Len(s))
    <3>1. Len(t) - 1 = Len(s)
      BY <1>n, <2>2
    <3> QED BY <2>2, <3>1 DEF UserTasks
  <2>4. SubSeq(t, 1, Len(s)) = s
    BY <1>n, <2>2
  <2> QED BY <2>3, <2>4 DEF t
<1>4. ASSUME s # <<>>, Head(s) # ExitTask
      PROVE  /\ UserTasks(s) # <<>> /\ Head(UserTasks(s)) = Head(s)
             /\ UserTasks(Tail(s)) = Tail(UserTasks(s))
  <2>1. /\ Len(s) \in Nat \ {0} /\ Head(s) = s[1] /\ Tail(s) \in Seq(AllTasks)
        /\ Len(Tail(s)) = Len(s) - 1 /\ \A i \in 1..Len(s) - 1 : Tail(s)[i] = s[i + 1]
    BY <1>4
  <2>2. CASE s[Len(s)] = ExitTask
    <3>1. Len(s) > 1
      BY <1>4, <2>1, <2>2
    <3> DEFINE f == SubSeq(s, 1, Len(s) - 1)
               t == Tail(s)
    <3>2. UserTasks(s) = f
      BY <1>4, <2>2 DEF UserTasks
    <3>3. f # <<>> /\ Head(f) = s[1] /\ Tail(f) = SubSeq(s, 2, Len(s) - 1)
      <4>1. f \in Seq(AllTasks) /\ Len(f) = Len(s) - 1
        BY <2>1, <3>1, SubSeqProperties
      <4>2. f # <<>>
        <5>1. Len(f) # 0
          BY <2>1, <3>1, <4>1
        <5> HIDE DEF f
        <5> QED BY <5>1, EmptySeq
      <4> QED BY <2>1, <3>1, <4>2, HeadTailOfSubSeq
    <3>4. t # <<>> /\ t[Len(t)] = ExitTask
      <4>1. Len(t) \in 1..Len(s) - 1 /\ t[Len(t)] = s[Len(t) + 1] /\ Len(t) + 1 = Len(s)
        <5>1. Len(t) = Len(s) - 1 /\ \A i \in 1..Len(s) - 1 : t[i] = s[i + 1]
          BY <2>1
        <5> HIDE DEF t
        <5> QED BY <2>1, <3>1, <5>1
      <4>2. t # <<>>
        <5>1. Len(t) # 0
          BY <2>1, <3>1
        <5> HIDE DEF t
        <5> QED BY <5>1, EmptySeq
      <4> QED BY <2>2, <4>1, <4>2
    <3>5. UserTasks(t) = SubSeq(t, 1, Len(t) - 1)
      BY <3>4 DEF UserTasks
    <3>6. SubSeq(t, 1, Len(t) - 1) = SubSeq(s, 2, Len(s) - 1)
      BY <2>1, <3>1
    <3> QED BY <2>1, <3>2, <3>3, <3>5, <3>6
  <2>3. CASE s[Len(s)] # ExitTask
    <3>1. UserTasks(s) = s
      BY <2>3 DEF UserTasks
    <3>2. UserTasks(Tail(s)) = Tail(s)
      <4>1. CASE Len(s) = 1
        <5>1. Tail(s) = <<>>
          <6>1. Tail(s) \in Seq(AllTasks) /\ Len(Tail(s)) = 0
            BY <2>1, <4>1
          <6> QED BY <6>1, EmptySeq
        <5> QED BY <5>1 DEF UserTasks
      <4>2. CASE Len(s) > 1
        <5>1. Len(Tail(s)) = Len(s) - 1 /\ Tail(s)[Len(s) - 1] = s[(Len(s) - 1) + 1] /\ (Len(s) - 1) + 1 = Len(s)
          BY <2>1, <4>2
        <5> QED BY <2>3, <5>1 DEF UserTasks
      <4> QED BY <2>1, <4>1, <4>2
    <3> QED BY <1>4, <3>1, <3>2
  <2> QED BY <2>2, <2>3
<1>5. ASSUME Len(s) = 1, Head(s) = ExitTask PROVE UserTasks(s) = <<>> /\ UserTasks(Tail(s)) = <<>>
  <2>1. s # <<>> /\ s[Len(s)] = ExitTask /\ SubSeq(s, 1, Len(s) - 1) = <<>> /\ Tail(s) = <<>>
    <3>1. s # <<>> /\ Head(s) = s[1]
      BY <1>5, SMTT(30)
    <3>2. SubSeq(s, 1, 0) = <<>>
      BY SubSeqEmpty
    <3>3. Tail(s) \in Seq(AllTasks) /\ Len(Tail(s)) = 0
      BY <1>5, <3>1
    <3>4. Tail(s) = <<>>
      BY <3>3, EmptySeq
    <3>5. Len(s) - 1 = 0
      BY <1>5
    <3> QED BY <1>5, <3>1, <3>2, <3>4, <3>5
  <2> QED BY <2>1 DEF UserTasks
<1> QED BY <1>1, <1>2, <1>3, <1>4, <1>5

(* The pool is the abstract task service, status by status. *)
Statuses == [k \in Tasks |-> StatusOf(k)]
Line == UserTasks(queue)

LEMMA ServiceStep ==
    IInv /\ IInv' /\ [Next]_vars =>
       \/ UNCHANGED <<Statuses, Line>>
       \/ \E k \in Tasks :
             \/ /\ StatusOf(k) = "idle" /\ Statuses' = [Statuses EXCEPT ![k] = "posted"]
                /\ Line' = Append(Line, k)
             \/ /\ Line # <<>> /\ k = Head(Line) /\ Line' = Tail(Line)
                /\ Statuses' = [Statuses EXCEPT ![k] = "running"]
             \/ /\ StatusOf(k) = "running" /\ Statuses' = [Statuses EXCEPT ![k] = "ran"]
                /\ Line' = Line
             \/ /\ StatusOf(k) = "ran" /\ Statuses' = [Statuses EXCEPT ![k] = "idle"]
                /\ Line' = Line
<1> DEFINE Simulated ==
       \/ UNCHANGED <<Statuses, Line>>
       \/ \E k \in Tasks :
             \/ /\ StatusOf(k) = "idle" /\ Statuses' = [Statuses EXCEPT ![k] = "posted"]
                /\ Line' = Append(Line, k)
             \/ /\ Line # <<>> /\ k = Head(Line) /\ Line' = Tail(Line)
                /\ Statuses' = [Statuses EXCEPT ![k] = "running"]
             \/ /\ StatusOf(k) = "running" /\ Statuses' = [Statuses EXCEPT ![k] = "ran"]
                /\ Line' = Line
             \/ /\ StatusOf(k) = "ran" /\ Statuses' = [Statuses EXCEPT ![k] = "idle"]
                /\ Line' = Line
<1> SUFFICES ASSUME IInv, IInv', [Next]_vars PROVE Simulated
  OBVIOUS
<1>a. /\ TypeOK /\ CurInv /\ MainInv /\ ExitInv /\ queue \in Seq(AllTasks) /\ done \in Seq(Tasks)
      /\ batch \in Seq(Tasks)
  BY DEF IInv, TypeOK
<1>b. ExitTask \notin Tasks /\ NoTask \notin Tasks /\ NoTask # ExitTask
  BY ThreadPoolAssumption DEF ThreadPoolAssumption
<1>c. \A k \in Tasks :
         /\ StatusOf(k) \in {"idle", "posted", "running", "ran"}
         /\ StatusOf(k) = "idle" <=> active[k] = 0
         /\ StatusOf(k) = "posted" <=> Listed(k, queue)
         /\ StatusOf(k) = "running" <=> Held(k) # {}
         /\ StatusOf(k) = "ran" <=> Listed(k, done) \/ Listed(k, batch)
  BY StatusIs
<1>d. \A k \in Tasks :
         /\ StatusOf(k)' \in {"idle", "posted", "running", "ran"}
         /\ StatusOf(k)' = "idle" <=> active'[k] = 0
         /\ StatusOf(k)' = "posted" <=> Listed(k, queue')
         /\ StatusOf(k)' = "running" <=> Held(k)' # {}
         /\ StatusOf(k)' = "ran" <=> Listed(k, done') \/ Listed(k, batch')
  <2>1. (\A k \in Tasks :
         /\ StatusOf(k) \in {"idle", "posted", "running", "ran"}
         /\ StatusOf(k) = "idle" <=> active[k] = 0
         /\ StatusOf(k) = "posted" <=> Listed(k, queue)
         /\ StatusOf(k) = "running" <=> Held(k) # {}
         /\ StatusOf(k) = "ran" <=> Listed(k, done) \/ Listed(k, batch))'
    BY StatusIs, PTL
  <2> QED BY <2>1 DEF Listed
(* A status is the same when the task is in the same kind of place. *)
<1>s. ASSUME NEW k \in Tasks, active'[k] = 0 <=> active[k] = 0, Listed(k, queue') <=> Listed(k, queue),
             Held(k)' # {} <=> Held(k) # {}
      PROVE  StatusOf(k)' = StatusOf(k)
  <2>1. StatusOf(k) \in {"idle", "posted", "running", "ran"} /\ StatusOf(k)' \in {"idle", "posted", "running", "ran"}
    BY <1>c, <1>d
  <2>2. StatusOf(k) = "idle" <=> StatusOf(k)' = "idle"
    BY <1>c, <1>d, <1>s
  <2>3. StatusOf(k) = "posted" <=> StatusOf(k)' = "posted"
    BY <1>c, <1>d, <1>s
  <2>4. StatusOf(k) = "running" <=> StatusOf(k)' = "running"
    BY <1>c, <1>d, <1>s
  <2> QED BY <2>1, <2>2, <2>3, <2>4
<1>t. ASSUME \A k \in Tasks : StatusOf(k)' = StatusOf(k) PROVE Statuses' = Statuses
  BY <1>t DEF Statuses
<1>u. ASSUME NEW k \in Tasks, NEW v, StatusOf(k)' = v, \A j \in Tasks \ {k} : StatusOf(j)' = StatusOf(j)
      PROVE  Statuses' = [Statuses EXCEPT ![k] = v]
  BY <1>u DEF Statuses
<1> HIDE DEF Statuses
<1>1. ASSUME NEW k \in Tasks, Post(k) PROVE Simulated
  <2>1. /\ active[k] = 0 /\ active' = [active EXCEPT ![k] = 1] /\ queue' = Append(queue, k)
        /\ cur' = cur /\ main \in {"loop", "callback"}
    BY <1>1 DEF Post, Enqueue, Accepts
  <2>2. \A j \in Tasks : Listed(j, queue') <=> Listed(j, queue) \/ k = j
    BY <1>a, <2>1, ListedMoves DEF AllTasks
  <2>3. \A j \in Tasks \ {k} : StatusOf(j)' = StatusOf(j)
    <3>1. \A j \in Tasks : Held(j)' = Held(j)
      BY <2>1 DEF Held
    <3>2. \A j \in Tasks \ {k} : active'[j] = active[j]
      BY <1>a, <2>1 DEF TypeOK, AllTasks
    <3> QED BY <1>s, <2>2, <3>1, <3>2
  <2>4. StatusOf(k) = "idle" /\ StatusOf(k)' = "posted"
    BY <1>c, <1>d, <2>1, <2>2
  <2>5. Line = queue /\ Line' = Append(queue, k)
    <3>1. NoExitIn(queue)
      BY <1>a, <2>1 DEF ExitInv, ExitAwaited, ExitNowhere
    <3> QED BY <1>a, <2>1, <3>1, LineMoves DEF Line
  <2> QED BY <1>u, <2>3, <2>4, <2>5
<1>2. ASSUME PostExit PROVE Simulated
  <2>1. /\ active' = [active EXCEPT ![ExitTask] = 1] /\ queue' = Append(queue, ExitTask)
        /\ cur' = cur /\ main = "stopping"
    BY <1>2 DEF PostExit, Enqueue
  <2>2. \A j \in Tasks : Listed(j, queue') <=> Listed(j, queue)
    <3>1. queue \in Seq(AllTasks) /\ ExitTask \in AllTasks
      BY <1>a DEF AllTasks
    <3> QED BY <1>b, <2>1, <3>1, ListedMoves DEF AllTasks
  <2>3. \A j \in Tasks : StatusOf(j)' = StatusOf(j)
    <3>1. \A j \in Tasks : Held(j)' = Held(j)
      BY <2>1 DEF Held
    <3>2. \A j \in Tasks : active'[j] = active[j]
      BY <1>a, <1>b, <2>1 DEF TypeOK, AllTasks
    <3> QED BY <1>s, <2>2, <3>1, <3>2
  <2>4. Line = queue /\ Line' = queue
    <3>1. NoExitIn(queue)
      BY <1>a, <2>1 DEF ExitInv, ExitAwaited, ExitNowhere
    <3> QED BY <1>a, <2>1, <3>1, LineMoves DEF Line
  <2> QED BY <1>t, <2>3, <2>4
<1>3. ASSUME NEW t \in Threads, Start(t) \/ Recheck(t) PROVE Simulated
  <2>0. active' = active /\ pc[t] \in {"start", "woken"} /\ TakeOrWait(t)
    BY <1>3 DEF Start, Recheck
  <2>1. CASE queue = <<>>
    <3>1. queue' = queue /\ cur' = cur
      BY <2>0, <2>1 DEF TakeOrWait
    <3>2. \A j \in Tasks : StatusOf(j)' = StatusOf(j)
      BY <1>s, <2>0, <3>1 DEF Held
    <3> QED BY <1>t, <3>1, <3>2 DEF Line
  <2>2. CASE queue # <<>>
    <3>1. /\ cur' = [cur EXCEPT ![t] = Head(queue)] /\ queue' = Tail(queue) /\ Head(queue) \in AllTasks
          /\ cur[t] = NoTask
      BY <1>a, <2>0, <2>2 DEF TakeOrWait, CurInv
    <3>2. \A j \in Tasks : Listed(j, queue) <=> Listed(j, queue') \/ Head(queue) = j
      BY <1>a, <2>2, <3>1, ListedMoves
    <3>3. \A j \in Tasks : Held(j)' = IF Head(queue) = j THEN Held(j) \cup {t} ELSE Held(j)
      BY <1>a, <1>b, <3>1 DEF Held, TypeOK
    <3>4. \A j \in Tasks : j # Head(queue) => StatusOf(j)' = StatusOf(j)
      BY <1>s, <2>0, <3>2, <3>3
    <3>5. CASE Head(queue) = ExitTask
      <4>1. Len(queue) = 1
        <5>1. Len(queue) \in Nat \ {0} /\ queue[1] = ExitTask
          BY <1>a, <2>2, <3>5
        <5>2. ExitQueued
          BY <1>a, <2>2, <5>1 DEF ExitInv, ExitNowhere, NoExitIn, ExitHeld
        <5> DEFINE n == Len(queue)
        <5>3. ~(1 \in 1..n - 1) /\ n \in Nat \ {0}
          BY <5>1, <5>2 DEF ExitQueued
        <5> HIDE DEF n
        <5>4. n = 1
          BY <5>3
        <5> QED BY <5>4 DEF n
      <4>2. Line = <<>> /\ Line' = <<>>
        BY <1>a, <3>1, <3>5, <4>1, LineMoves DEF Line
      <4> QED BY <1>b, <1>t, <3>4, <3>5, <4>2
    <3>6. CASE Head(queue) # ExitTask
      <4>1. PICK k \in Tasks : k = Head(queue)
        BY <3>1, <3>6 DEF AllTasks
      <4>2. StatusOf(k)' = "running"
        BY <1>d, <3>3, <4>1
      <4>3. Line # <<>> /\ k = Head(Line) /\ Line' = Tail(Line)
        BY <1>a, <2>2, <3>1, <3>6, <4>1, LineMoves DEF Line
      <4>4. Statuses' = [Statuses EXCEPT ![k] = "running"]
        BY <1>u, <3>4, <4>1, <4>2
      <4> QED BY <4>3, <4>4
    <3> QED BY <3>5, <3>6
  <2> QED BY <2>1, <2>2
<1>4. ASSUME NEW t \in Threads, SpuriousWakeup(t) \/ Run(t) \/ RunExit(t) \/ Notify(t) PROVE Simulated
  <2>1. UNCHANGED <<queue, active>>
    BY <1>4 DEF SpuriousWakeup, Run, RunExit, Notify
  <2>2. \A j \in Tasks : Held(j)' = Held(j)
    BY <1>4, <1>a, <1>b DEF SpuriousWakeup, Run, RunExit, Notify, Held, TypeOK
  <2>3. \A j \in Tasks : StatusOf(j)' = StatusOf(j)
    BY <1>s, <2>1, <2>2
  <2> QED BY <1>t, <2>1, <2>3 DEF Line
<1>5. ASSUME NEW t \in Threads, Finish(t) PROVE Simulated
  <2>1. PICK k \in Tasks : /\ k = cur[t] /\ cur' = [cur EXCEPT ![t] = NoTask]
                            /\ done' = Append(done, k) /\ UNCHANGED <<queue, active>>
    BY <1>5, <1>a DEF Finish, CurInv, TypeOK, AllTasks
  <2>2. Held(k) # {}
    BY <2>1 DEF Held
  <2>3. \A j \in Tasks \ {k} : Held(j)' = Held(j)
    BY <1>a, <1>b, <2>1 DEF Held, TypeOK
  <2>4. Listed(k, done')
    BY <1>a, <2>1, ListedMoves
  <2>5. StatusOf(k) = "running" /\ StatusOf(k)' = "ran"
    BY <1>c, <1>d, <2>1, <2>2, <2>4
  <2>6. \A j \in Tasks \ {k} : StatusOf(j)' = StatusOf(j)
    BY <1>s, <2>1, <2>3
  <2>7. Statuses' = [Statuses EXCEPT ![k] = "ran"]
    BY <1>u, <2>1, <2>5, <2>6
  <2> QED BY <2>1, <2>5, <2>7 DEF Line
<1>6. ASSUME HandleNotify \/ CallbackReturns \/ BatchEnds \/ Destroy \/ DestroyGivesUp \/ Stopped \/ UNCHANGED vars
      PROVE  Simulated
  <2>1. UNCHANGED <<queue, active, cur>>
    BY <1>6 DEF HandleNotify, CallbackReturns, BatchEnds, Destroy, DestroyGivesUp, Stopped, vars, pool
  <2>2. \A j \in Tasks : StatusOf(j)' = StatusOf(j)
    BY <1>s, <2>1 DEF Held
  <2> QED BY <1>t, <2>1, <2>2 DEF Line
<1>7. ASSUME CompleteTask PROVE Simulated
  <2>1. PICK k \in Tasks : /\ k = Head(batch) /\ active' = [active EXCEPT ![k] = 0]
                            /\ UNCHANGED <<queue, cur>> /\ batch # <<>>
    <3>1. batch # <<>> /\ Head(batch) \in Tasks
      BY <1>7, <1>a DEF CompleteTask
    <3> QED BY <1>7, <3>1 DEF CompleteTask, pool
  <2>2. Listed(k, batch)
    BY <1>a, <2>1, ListedMoves
  <2>3. StatusOf(k) = "ran" /\ StatusOf(k)' = "idle"
    <3>1. active'[k] = 0
      BY <1>a, <2>1 DEF TypeOK, AllTasks
    <3> QED BY <1>c, <1>d, <2>1, <2>2, <3>1
  <2>4. \A j \in Tasks \ {k} : StatusOf(j)' = StatusOf(j)
    <3>1. \A j \in Tasks \ {k} : active'[j] = active[j] /\ Held(j)' = Held(j)
      BY <1>a, <2>1 DEF TypeOK, AllTasks, Held
    <3> QED BY <1>s, <2>1, <3>1
  <2>5. Statuses' = [Statuses EXCEPT ![k] = "idle"]
    BY <1>u, <2>1, <2>3, <2>4
  <2> QED BY <2>1, <2>3, <2>5 DEF Line
<1>8. ASSUME Join PROVE Simulated
  <2>1. UNCHANGED <<queue, cur>> /\ \A j \in Tasks : active'[j] = active[j]
    BY <1>8, <1>a, <1>b DEF Join, pool, TypeOK, AllTasks
  <2>2. \A j \in Tasks : StatusOf(j)' = StatusOf(j)
    BY <1>s, <2>1 DEF Held
  <2> QED BY <1>t, <2>1, <2>2 DEF Line
<1> QED BY <1>1, <1>2, <1>3, <1>4, <1>5, <1>6, <1>7, <1>8 DEF Next, ThreadStep, MainStep

(* The pool does what TaskService promises: a posted task is run once, by    *)
(* one thread, in the order of posting, and then completed once by the event *)
(* loop, whatever wakeups, completions and exit tasks come in between.       *)
THEOREM Implements == Spec => ImplementsService
<1>1. Init => Service!Init
  <2> SUFFICES ASSUME Init PROVE Service!Init
    OBVIOUS
  <2>1. \A k \in Tasks : StatusOf(k) = "idle"
    <3>1. \A k \in Tasks : active[k] = 0
      BY DEF Init, AllTasks
    <3>2. IInv
      BY InitIInv
    <3> QED BY <3>1, <3>2, StatusIs
  <2>2. UserTasks(queue) = <<>>
    BY DEF Init, UserTasks
  <2> QED BY <2>1, <2>2 DEF Service!Init
<1>2. IInv /\ IInv' /\ [Next]_vars => [Service!Next]_(Service!vars)
  BY ServiceStep DEF Service!Next, Service!vars, Service!Post, Service!Take, Service!Finish,
        Service!Complete, Service!Become, Statuses, Line
<1> QED BY <1>1, <1>2, Inductive, PTL DEF Spec, ImplementsService, Service!Spec
=============================================================================
