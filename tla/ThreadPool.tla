----------------------------- MODULE ThreadPool ------------------------------
(***************************************************************************)
(* The thread pool of src/core/ngx_thread_pool.c: the event loop of a      *)
(* worker (main) posts tasks to a queue guarded by a mutex and a condition *)
(* variable, the threads run them, put them on a list of done tasks under  *)
(* a spinlock and notify the event loop through an eventfd, whose handler  *)
(* completes them.  A worker that exits stops the threads one by one with  *)
(* exit tasks.                                                             *)
(*                                                                         *)
(* A section under tp->mtx or under ngx_thread_pool_done_lock is one step: *)
(* everything it reads and writes is read and written under that lock.     *)
(***************************************************************************)
EXTENDS Integers, Sequences, FiniteSets

CONSTANTS
    Threads,   \* the tp->threads threads
    Tasks,     \* the tasks of the modules that use the pool
    ExitTask,  \* the task on the stack of ngx_thread_pool_destroy()
    NoTask,
    MaxQueue   \* tp->max_queue

ASSUME ThreadPoolAssumption ==
    /\ IsFiniteSet(Threads) /\ Threads # {}
    /\ ExitTask \notin Tasks
    /\ NoTask \notin Tasks \cup {ExitTask}
    /\ MaxQueue \in Nat

AllTasks == Tasks \cup {ExitTask}

VARIABLES
    queue,     \* tp->queue
    waiting,   \* tp->waiting
    pc,        \* the program point of each thread
    cur,       \* the task a thread holds
    active,    \* task->event.active
    done,      \* ngx_thread_pool_done
    notified,  \* the eventfd has an event epoll has not yet reported
    main,      \* what the event loop is doing
    batch,     \* the done tasks ngx_thread_pool_handler() is working through
    exitLock,  \* the variable `lock' of ngx_thread_pool_destroy()
    joined     \* the loop counter n there

vars == <<queue, waiting, pc, cur, active, done, notified, main, batch, exitLock, joined>>
pool == <<queue, waiting, pc, cur>>
exit == <<exitLock, joined>>

Init == /\ queue = <<>>
        /\ waiting = 0
        /\ pc = [t \in Threads |-> "start"]
        /\ cur = [t \in Threads |-> NoTask]
        /\ active = [k \in AllTasks |-> 0]
        /\ done = <<>>
        /\ notified = FALSE
        /\ main = "loop"
        /\ batch = <<>>
        /\ exitLock = 0
        /\ joined = 0

Goto(t, l) == pc' = [pc EXCEPT ![t] = l]
Asleep == {t \in Threads : pc[t] = "wait"}

-----------------------------------------------------------------------------
(* Slip: a task that is still active is accepted again. *)
AcceptsActive(k) == waiting < MaxQueue

(* ngx_thread_task_post(), where it does not return NGX_ERROR. *)
Accepts(k) == active[k] = 0 /\ waiting < MaxQueue

(* Slip: no ngx_thread_cond_signal(). *)
NoSignal == UNCHANGED pc

Signal == IF Asleep = {} THEN UNCHANGED pc ELSE \E t \in Asleep : Goto(t, "woken")

Enqueue(k) == /\ Accepts(k)
              /\ active' = [active EXCEPT ![k] = 1]
              /\ Signal
              /\ queue' = Append(queue, k)
              /\ waiting' = waiting + 1

(* A module posts a task: from the event loop, or from a completion handler. *)
Post(k) == /\ main \in {"loop", "callback"}
           /\ Enqueue(k)
           /\ UNCHANGED <<cur, done, notified, main, batch, exit>>

-----------------------------------------------------------------------------
(* Slip: the task linked last is taken first. *)
TakeNewestOrWait(t) == IF queue = <<>>
                       THEN Goto(t, "wait") /\ UNCHANGED <<queue, cur>>
                       ELSE /\ cur' = [cur EXCEPT ![t] = queue[Len(queue)]]
                            /\ queue' = SubSeq(queue, 1, Len(queue) - 1)
                            /\ Goto(t, "run")

(* ngx_thread_pool_cycle(): leave the critical section with a task, or wait. *)
TakeOrWait(t) == IF queue = <<>>
                 THEN Goto(t, "wait") /\ UNCHANGED <<queue, cur>>
                 ELSE /\ cur' = [cur EXCEPT ![t] = Head(queue)]
                      /\ queue' = Tail(queue)
                      /\ Goto(t, "run")

Start(t) == /\ pc[t] = "start"
            /\ waiting' = waiting - 1
            /\ TakeOrWait(t)
            /\ UNCHANGED <<active, done, notified, main, batch, exit>>

(* ngx_thread_cond_wait() may also return without a signal. *)
SpuriousWakeup(t) == /\ pc[t] = "wait"
                     /\ Goto(t, "woken")
                     /\ UNCHANGED <<queue, waiting, cur, active, done, notified, main, batch, exit>>

(* Slip: the decrement is inside the loop on the condition variable. *)
RecheckDecrements(t) == /\ pc[t] = "woken"
                        /\ waiting' = waiting - 1
                        /\ TakeOrWait(t)
                        /\ UNCHANGED <<active, done, notified, main, batch, exit>>

Recheck(t) == /\ pc[t] = "woken"
              /\ TakeOrWait(t)
              /\ UNCHANGED <<waiting, active, done, notified, main, batch, exit>>

Run(t) == /\ pc[t] = "run"
          /\ cur[t] # ExitTask
          /\ Goto(t, "fin")
          /\ UNCHANGED <<queue, waiting, cur, active, done, notified, main, batch, exit>>

(* Slip: the exit handler does not release the waiting event loop. *)
ExitKeepsLock(t) == /\ pc[t] = "run"
                    /\ cur[t] = ExitTask
                    /\ cur' = [cur EXCEPT ![t] = NoTask]
                    /\ Goto(t, "exited")
                    /\ UNCHANGED <<queue, waiting, active, done, notified, main, batch, exit>>

(* ngx_thread_pool_exit_handler(): the thread ends inside the handler. *)
RunExit(t) == /\ pc[t] = "run"
              /\ cur[t] = ExitTask
              /\ exitLock' = 0
              /\ cur' = [cur EXCEPT ![t] = NoTask]
              /\ Goto(t, "exited")
              /\ UNCHANGED <<queue, waiting, active, done, notified, main, batch, joined>>

Finish(t) == /\ pc[t] = "fin"
             /\ done' = Append(done, cur[t])
             /\ cur' = [cur EXCEPT ![t] = NoTask]
             /\ Goto(t, "notify")
             /\ UNCHANGED <<queue, waiting, active, notified, main, batch, exit>>

(* Slip: the thread does not write the eventfd. *)
NotifyForgets(t) == /\ pc[t] = "notify"
                    /\ Goto(t, "start")
                    /\ UNCHANGED <<queue, waiting, cur, active, done, notified, main, batch, exit>>

Notify(t) == /\ pc[t] = "notify"
             /\ notified' = TRUE
             /\ Goto(t, "start")
             /\ UNCHANGED <<queue, waiting, cur, active, done, main, batch, exit>>

-----------------------------------------------------------------------------
(* Slip: only the first done task is taken, as the question in the comment at
   ngx_thread_pool.c:415-418 suspects. *)
HandleFirstOnly == /\ main = "loop"
                   /\ notified /\ done # <<>>
                   /\ notified' = FALSE
                   /\ batch' = <<Head(done)>>
                   /\ done' = Tail(done)
                   /\ main' = "batch"
                   /\ UNCHANGED <<pool, active, exit>>

(* The eventfd event: ngx_thread_pool_handler() takes the whole list. *)
HandleNotify == /\ main = "loop"
                /\ notified
                /\ notified' = FALSE
                /\ batch' = done
                /\ done' = <<>>
                /\ main' = "batch"
                /\ UNCHANGED <<pool, active, exit>>

CompleteTask == /\ main = "batch"
                /\ batch # <<>>
                /\ active' = [active EXCEPT ![Head(batch)] = 0]
                /\ batch' = Tail(batch)
                /\ main' = "callback"
                /\ UNCHANGED <<pool, done, notified, exit>>

CallbackReturns == /\ main = "callback"
                   /\ main' = "batch"
                   /\ UNCHANGED <<pool, active, done, notified, batch, exit>>

BatchEnds == /\ main = "batch"
             /\ batch = <<>>
             /\ main' = "loop"
             /\ UNCHANGED <<pool, active, done, notified, batch, exit>>

-----------------------------------------------------------------------------
(* ngx_thread_pool_exit_worker() -> ngx_thread_pool_destroy(). *)
Destroy == /\ main = "loop"
           /\ main' = "stopping"
           /\ UNCHANGED <<pool, active, done, notified, batch, exit>>

PostExit == /\ main = "stopping"
            /\ exitLock' = 1
            /\ Enqueue(ExitTask)
            /\ main' = "join"
            /\ UNCHANGED <<cur, done, notified, batch, joined>>

(* The post fails: the pool is left as it is and the process exits. *)
DestroyGivesUp == /\ main = "stopping"
                  /\ ~Accepts(ExitTask)
                  /\ exitLock' = 1
                  /\ main' = "gaveup"
                  /\ UNCHANGED <<pool, active, done, notified, batch, joined>>

(* Slip: the next exit task is posted without waiting for the last. *)
JoinAtOnce == /\ main = "join"
              /\ active' = [active EXCEPT ![ExitTask] = 0]
              /\ joined' = joined + 1
              /\ main' = IF joined + 1 < Cardinality(Threads) THEN "stopping" ELSE "destroyed"
              /\ UNCHANGED <<pool, done, notified, batch, exitLock>>

Join == /\ main = "join"
        /\ exitLock = 0
        /\ active' = [active EXCEPT ![ExitTask] = 0]
        /\ joined' = joined + 1
        /\ main' = IF joined + 1 < Cardinality(Threads) THEN "stopping" ELSE "destroyed"
        /\ UNCHANGED <<pool, done, notified, batch, exitLock>>

-----------------------------------------------------------------------------
ThreadStep(t) == \/ Start(t) \/ Recheck(t) \/ Run(t) \/ RunExit(t)
                 \/ Finish(t) \/ Notify(t)

MainStep == \/ HandleNotify \/ CompleteTask \/ CallbackReturns \/ BatchEnds
            \/ PostExit \/ DestroyGivesUp \/ Join

(* The worker process has ended or is about to. *)
Stopped == main \in {"destroyed", "gaveup"} /\ UNCHANGED vars

Next == \/ \E k \in Tasks : Post(k)
        \/ \E t \in Threads : ThreadStep(t) \/ SpuriousWakeup(t)
        \/ MainStep
        \/ Destroy
        \/ Stopped

Spec == Init /\ [][Next]_vars

(* Threads are scheduled and handlers return; nobody has to post or exit. *)
FairSpec == /\ Spec
            /\ \A t \in Threads : WF_vars(ThreadStep(t))
            /\ WF_vars(MainStep)

-----------------------------------------------------------------------------
TypeOK == /\ queue \in Seq(AllTasks)
          /\ waiting \in Int
          /\ pc \in [Threads -> {"start", "wait", "woken", "run", "fin", "notify", "exited"}]
          /\ cur \in [Threads -> AllTasks \cup {NoTask}]
          /\ active \in [AllTasks -> {0, 1}]
          /\ done \in Seq(Tasks)
          /\ notified \in BOOLEAN
          /\ main \in {"loop", "batch", "callback", "stopping", "join", "destroyed", "gaveup"}
          /\ batch \in Seq(Tasks)
          /\ exitLock \in {0, 1}
          /\ joined \in 0..Cardinality(Threads)

(* The counter that limits the queue is its length less the idle threads, so
   the limit admits max_queue tasks beyond those an idle thread will take at
   once (ngx_thread_task_post, ngx_thread_pool_cycle). *)
Idle == {t \in Threads : pc[t] \in {"wait", "woken"}}
WaitingCount == /\ waiting = Len(queue) - Cardinality(Idle)
                /\ waiting <= MaxQueue

Occurrences(k, s) == Cardinality({i \in 1..Len(s) : s[i] = k})

(* A task is linked into one list at most, and into none when it is inactive:
   the same struct is reused by its owner and by ngx_thread_pool_destroy(),
   and a second link would corrupt a list or run the task twice. *)
OnePlace == \A k \in Tasks :
    active[k] = Occurrences(k, queue) + Occurrences(k, done) + Occurrences(k, batch)
                  + Cardinality({t \in Threads : cur[t] = k})

(* A queued task is never left while every living thread sleeps on the
   condition variable, although the signal precedes the link into the queue
   and another thread may take the task the woken one was meant to take. *)
NoTaskStranded == queue # <<>> => \E t \in Threads : pc[t] \notin {"wait", "exited"}

(* A done task is never forgotten: an event of the eventfd is pending, or the
   thread that linked the task is still to write it. *)
DoneIsNotified == done # <<>> => notified \/ \E t \in Threads : pc[t] = "notify"

(* Each round of ngx_thread_pool_destroy() ends exactly one thread, so when it
   destroys the mutex and the condition variable nobody uses them any more. *)
JoinsOneByOne ==
    /\ Cardinality({t \in Threads : pc[t] = "exited"})
         = joined + (IF main = "join" /\ exitLock = 0 THEN 1 ELSE 0)
    /\ main = "destroyed" => queue = <<>> /\ \A t \in Threads : pc[t] = "exited"

Stopping == main \in {"stopping", "join", "destroyed", "gaveup"}

(* Every task that is posted is completed, unless the worker exits first. *)
TasksComplete == \A k \in Tasks : active[k] = 1 ~> (active[k] = 0 \/ Stopping)

(* ngx_thread_pool_destroy() returns. *)
DestroyReturns == main = "stopping" ~> main \in {"destroyed", "gaveup"}

StatusOf(k) == CASE active[k] = 0 -> "idle"
                 [] \E i \in 1..Len(queue) : queue[i] = k -> "posted"
                 [] \E t \in Threads : pc[t] \in {"run", "fin"} /\ cur[t] = k -> "running"
                 [] OTHER -> "ran"

(* The queue without the exit task, which can only be the last in it. *)
UserTasks(s) == IF s # <<>> /\ s[Len(s)] = ExitTask THEN SubSeq(s, 1, Len(s) - 1) ELSE s

(* The pool is the abstract task service: once, in order, run before completed. *)
Service == INSTANCE TaskService WITH
             status <- [k \in Tasks |-> StatusOf(k)],
             line <- UserTasks(queue)
ImplementsService == Service!Spec
=============================================================================
