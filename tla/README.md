# A formal model of this nginx tree

The repository is nginx 1.9.2 with Chinese annotations and some changes of the
annotator's own (`src/nginx-1.9.2/src`). This directory holds TLA+ modules that model
its concurrent core, TLC configurations that check them on small instances, and proofs
checked by the TLA+ proof system (TLAPS). Paths below are relative to
`src/nginx-1.9.2/src`.

To check a run: `tlc -config MCShmtx.cfg MCShmtx`. To check the proofs:
`tlapm Shmtx_proofs.tla`.

## 1. Inventory

nginx is a master process that forks workers, a cache manager and a cache loader. They
share listen sockets and memory zones; everything in a worker but the thread pool is one
event loop.

| Component | State | Operations | Works with | Hard part | Correct when |
|---|---|---|---|---|---|
| Shared-memory mutex `core/ngx_shmtx.c` | lock word (pid), counter `wait`, semaphore | lock, trylock, unlock, wakeup, force_unlock | every shared zone, accept mutex, the master's SIGCHLD handler | races of sleep and wakeup, death of owners and wakers | one owner, no lost wakeup, tokens balance |
| Thread pool `core/ngx_thread_pool.c` | queue, `waiting`, done list, `event.active` | post, cycle, done/notify, handler, destroy | epoll's eventfd, modules that post tasks | several threads, spurious wakeups, reuse of a task, shutdown | each task runs and completes once, in order; destroy ends every thread |
| Accept mutex and event loop turn `event/ngx_event.c`, `ngx_event_accept.c` | `ngx_accept_mutex_held`, `ngx_accept_disabled`, `ngx_use_accept_mutex`, listeners in epoll | trylock, enable, disable, accept, unlock, close_listening_sockets | mutex, connection pool, epoll, master | stale flags, failures halfway, EMFILE, shutdown, crash | held says what epoll holds; no herd; connections are accepted |
| Master and process table `os/unix/ngx_process.c`, `ngx_process_cycle.c` | `ngx_processes[]`, signal flags, `live`, `delay`, `sigio`, `ngx_new_binary`, `ngx_noaccepting` | spawn, signal handler, get_status, reap_children, signal_worker_processes, master cycle | children, administrator, mutexes to unlock | coalesced signals, reload, upgrade and roll back in any order, failed fork | no child lost, no child restarted at the end, roles come back, the end comes |
| Connection pool `core/ngx_connection.c` | free list, reusable queue, instance bit | get, free, close, drain | accept, epoll | stale events, limit | never below zero; a stale event reaches nobody |
| Epoll module `event/modules/ngx_epoll_module.c` | registrations, event list | add, del, notify, process_events | event loop | stale events, posting order | |
| Timers, posted events `event/ngx_event_timer.c`, `ngx_event_posted.h` | rbtree of deadlines, queues | add, del, expire, cancel | all handlers | wrap-around, changes while expiring | fires once, not early |
| Reader-writer lock `core/ngx_rwlock.c` | readers count or WLOCK | wlock, rlock, unlock | round robin peers | no owner, starvation | writers exclude all |
| Upstream and round robin `http/ngx_http_upstream*.c` | peers: conns, fails, checked, weights; tried, tries | get, free, next | workers through a zone, reader-writer lock | shared counters under two levels of locks, retries, clocks that differ | conns counts the requests that hold the peer; one probe at a time; choices as the weights say |
| File cache `http/ngx_http_file_cache.c` | node: count, updating, exists, deleting | open, lock, update, free, expire, manager, loader | mutex, timers | lock_age against a slow request, deletion against use | one populates at a time; no node freed in use; the size is right; waiters and inactive nodes go |
| Open file cache `core/ngx_open_file_cache.c` | count, uses, close | open, cleanup, expire | requests | close while used | descriptor closed once, after the last use |
| Slab `core/ngx_slab.c` | free lists, page tags | alloc, free, coalesce | zones | bookkeeping of runs | disjoint ranges, nothing lost |
| Resolver `core/ngx_resolver.c` | names, waiting lists, resend queues | resolve, resend, process, timeout | timers | late and repeated answers | each waiter is called once |
| HTTP request `http/ngx_http_request.c`, `ngx_http_core_module.c`, postpone filter | `count`, `blocked`, posted subrequests | subrequest, finalize, terminate, close | upstream, body, filters | paths that count, the right to send | parts in order; freed once, after the last user; always ends |
| HTTP/2, SPDY | windows, frame queue, stream tree | frames, window updates | requests | flow control | windows are respected |
| Configuration and cycle, parsing, filters, TLS, mail, stream, OS layer, vendored code | | | | | not concurrent, or I/O, or not the server's own |

`PROJECT.json` lists all of these under `components` with what is modelled of each, and
under `hazards` the places that a test would hardly reach, each with the properties that
watch it or the reason why none does yet.

## 2. Modules and their correspondence with the code

`map` in `PROJECT.json` names the source lines of every definition that models code.
Definitions introduced by "Slip:" are plausible mistakes (a dropped guard, a missing
reset); they are not part of the specification, and serve to show that a property would
notice them.

**Mutex / Shmtx** (`core/ngx_shmtx.c`). `Shmtx` has one program counter per process.
`try`, `spin`, `reg`, `retry`, `unreg`, `sleep` are the points of `ngx_shmtx_lock()`;
`cs` is the caller's critical section; `wread`, `wcas`, `post` are those of
`ngx_shmtx_wakeup()`. Reading `wait` and the cas on it are two steps. A test `*lock == 0 &&
cas` is one. `Crash` kills a worker at any point, `Reap` is the master's
`ngx_unlock_mutexes()`, which continues with a wakeup in the master. `semaphore` is chosen
in `Init`: `sem_init()` may have failed. `faults` and `losses` are ghost counters: faults
bounds crashes and semaphore errors, losses counts processes that died awake with a
wakeup in their hands. `Mutex` is the abstract lock (an owner and a phase per process)
that `Shmtx` is shown to implement.

**TaskService / ThreadPool** (`core/ngx_thread_pool.c`, notify in the epoll module). A
section under `tp->mtx` or the done spinlock is one step. The signal of the condition
variable chooses any sleeping thread; waiting may also end spuriously. `main` is the
event loop: `loop`, `batch` (walking the list of done tasks), `callback` (inside a
completion handler, where a task may be posted again), `stopping` and `join`
(`ngx_thread_pool_destroy()`), `gaveup` (its early return) and `destroyed`. The exit task
is one task that is reused. `TaskService` is the abstract promise: posted, taken in order,
run, completed, once each.

**AcceptMutex** (`event/ngx_event.c`, `event/ngx_event_accept.c`, parts of
`core/ngx_connection.c`, the worker and cache manager cycles). One program counter per
process: `top` (before `ngx_process_events_and_timers()`), `wait` (in `epoll_wait()`),
`accept` (its listen events), `turn` (after the unlock), `failed` and `enableErr` (error
returns). `via` records whether the turn skipped the mutex, got it, or missed it.
The lock is the owner that `Mutex` abstracts: only trylock, unlock and force_unlock are
used on it and each is one atomic step, so the detailed lock adds nothing. The
single-listener EAGAIN answer is `AcceptNothing`; other transient errors of `accept()`
behave like it for these properties.

**ProcessCycle** (`os/unix/ngx_process.c`, `os/unix/ngx_process_cycle.c`,
`ngx_exec_new_binary()` of `core/nginx.c`). `table` is `ngx_processes[0..last-1]`; `kid`
is what the kernel knows of the child of each slot. `stage` is where the master is in its
loop; signals are blocked outside `sigsuspend()`, so only children interleave with the
stages. `pend` is the set of pending signals (they coalesce); `Wake` runs all handlers.
`delay` counts doublings: `KillAfter` stands for the doublings from 50 ms to more than a
second. A command on a child's channel and the `kill()` that replaces it are one effect.
`unseen` is a ghost: a roster was started by a roll back and not yet seen by
`ngx_reap_children()`. WINCH is modelled for a daemonised master.

**RWLock / UpstreamRR** (`core/ngx_rwlock.c`, `http/ngx_http_upstream_round_robin.c`, connect,
next and finalize of `http/ngx_http_upstream.c`). `RWLock` is the word of the lock: a call
is one step whose guard is the test that lets the compare-and-set through. In `UpstreamRR`
a critical section is two steps: the first takes the lock and copies what the section
reads into `view`, the second writes what it has computed from `view` and unlocks. A lock
that does not exclude would show as a lost update. `get`, `choose`, `relock`, `revive` are
the points of `ngx_http_upstream_get_round_robin_peer()` with its recursive call for the
backup group. `from` is the group in which the outer call began: only a call that began with
the primary servers comes back to their lock and revives them, while a retry inside the
backup group finds `peers->next` empty and revives that group alone. `connect` and `connected` those of `ngx_http_upstream_connect()` and of a
request in `epoll_wait()`; `free`, `lockpeer`, `update` those of
`ngx_http_upstream_free_round_robin_peer()`. `now` is what `ngx_time()` says in the worker,
up to `Lag` behind the clock. A worker that dies keeps its locks and its peer. `single`,
backup groups, `max_fails=0` and `down` are cases of the configuration.

**FileCache** (`http/ngx_http_file_cache.c`, the decisions of `http/ngx_http_upstream.c` to
cache, update or give up). A stretch under the zone's mutex is one step, which `Shmtx`
justifies; the deletion of a file, in the middle of which the mutex is given back, is
three (`BeginsDelete`, `Unlink`, `EndDelete`). `node` is the tree and its nodes, `queue` the
LRU queue, `size` is `sh->size`; times are abstracted to whether they have passed: `over`
(`lock_time <= now`), `inactive` (`expire <= now`), `valid` of a file, `live` of an error that
is kept in a node. A request goes from `exists` over `open`, `read`, `expired`, `lock`,
`waiting` to `fetch` and gives its node back in `Update` or `Free`. The zone may be full, or
have no room at all. Vary leads a request to the key of a variant (`Reopen`), and when the
response is of another variant, back to the main one (`UpdateVariant`): `main` is the key to go
back to, and `moved` says that the request is back, after which `exists` only finds it a node.
`lock_time` is a counter of milliseconds: two locks on one node are never taken in the same
one, since `lock_age` lies between them; two locks on different nodes may be. `owners`, `leaked` and `drifted` are ghosts: who holds the population
lock, the references of the dead, and the two ways in which `sh->size` gets out of step.
Each turn of the expiry after a deletion is a turn of its own, so other processes may
come between them, which the code forbids (it keeps the mutex): the model allows more.

**Request** (`http/ngx_http_request.c`, `ngx_http_subrequest()` of
`http/ngx_http_core_module.c`, the postpone and copy filters, start, downstream events and
finalization of `http/ngx_http_upstream.c`). One client request with its tree of
subrequests in one worker. The worker runs one handler at a time; `call` is the function
that runs next (`posted`, `content`, `flush`, `written`, `finalize`, `terminate`, `connection`,
`close`, `event`), and at `loop` it takes any event. `handler` and `reader` are
`r->write_event_handler` and `r->read_event_handler`; `active` is `c->data`; `postponed` the
lists of the postpone filter; `upstream` the requests whose `u->cleanup` is set; `aio` the
requests whose file is being read (`main->blocked` is their number). A site gives for each
request the sequence of its data and subrequests, whether it is a page made at once, a
proxied response or a file read by aio, and what the client does. The response headers
of an upstream are taken as sent when its content starts. An upstream that breaks off after
that ends as one that is done (`EndContent`): `ngx_http_upstream_finalize_request()` replaces
`NGX_ERROR` by the result of `ngx_http_send_special(NGX_HTTP_FLUSH)` (4695-4713), so the page goes
on without a termination. The script of a site is therefore what the upstream delivers,
be it the whole response or not. `PipeAborts` is the failure that terminates the page: the
event pipe returns `NGX_ABORT`. `count` has eight bits, as in the
code (`Byte`); `RequestAssumption` takes at most `NGX_HTTP_MAX_SUBREQUESTS` subrequests for a
page, each made at one place, and a main response that ends with data. `torn`, `astray` and
`again` are history: the request was terminated; it was terminated while a file was read for
another request of the page; the phases of some request ran twice.

## 3. Runs

| Run | Instance | Shows |
|---|---|---|
| `shmtx` | 3 workers, spin limit 4, 2 faults | exclusion, token accounting, no lost wakeup, refinement of `Mutex`, a wanted free lock is taken |
| `shmtx_strand` | 3 workers, 1 fault | **violated**: a process that dies between release and `sem_post()` strands a sleeper |
| `threadpool` | 3 threads, 3 tasks, `max_queue` 1 | counter, lists, no stranded task, destruction, completion, refinement of `TaskService` |
| `accept` | 2 workers, 2 listeners, 1 connection each, 1 fault | the meaning of held, owner and registrations; connections are accepted |
| `accept_owner` | 2 workers and a cache manager | **violated**: a process without listeners sleeps with the accept mutex (`ngx_event.c:317`) |
| `accept_emfile` | 2 workers, 1 listener, 1 fault | **violated**: after EMFILE a worker never competes again |
| `process` | a worker and a cache loader, table of 5, 2 signals, 1 crash or fatal exit, 1 failed fork | table, respawn or not, reload, upgrade, roll back, end |
| `process_orphan` | 1 worker | **violated**: the master leaves workers behind after a roll back |
| `process_noaccept` | 1 worker | **violated**: `ngx_noaccepting` survives a reload |
| `upstream` | 2 workers; two servers (weights 2 and 1, one without a limit of failures), a server with a backup, one server; 3 requests, 1 death, time up to 4 | accounting of connections, atomic sections, one probe per `fail_timeout`, proportional choices, requests end |
| `filecache` | seven settings of 2 or 3 requests, manager, loader, 1 or 2 keys, 0 to 2 nodes, up to 1 death | references, population lock, size, requests end, inactive nodes go |
| `request` | seven pages with 1 to 3 subrequests (nested, proxied, files, broken off), 3 kinds of client | order of the parts, count, no alert, the request ends |

The violations are disagreements between the code and a comment in it; `findings` in
`PROJECT.json` quotes the comments.

Bounds and why they suffice. Three processes on the mutex are an owner, a sleeper and a
third who overtakes; the fourth role, the reaping master, is always there. Two faults
let the death of a waker follow that of an owner. A spin limit of 4 gives two spin
rounds; 2048 only repeats them. Three threads are one asleep, one woken and one that
steals the task; with three tasks and a limit of one the queue overflows and the counter
is negative. Two workers and two listeners give the holder a rival, and let a failed
registration do half of its work. Two signals in a row reach every stage of the master
from every other; a table of five entries is two rosters and a new binary, so a reload
and an upgrade meet a full table. The worker stands for the roles that are respawned, the
loader for those that are not. On a smaller table `ComesBack` fails, since the code does
not notice a refused spawn and leaves the role empty.

Three requests are a full round of choices for weights 2 and 1. Two workers are enough
for a reader and a writer of a group, two owners of a peer's lock, and two clocks; the
time bound lets a disabled peer be probed again. The `Lag` of one tick is what the clocks of two
workers differ by. In `filecache` each setting is there for a case: a death with two keys
(also Vary, which leads from one to the other), old files that the loader finds with
`min_uses` 2 and with the lock, a zone with one node for two keys, a zone without room,
three requests that compete for the lock (one populates, its lock runs out, a second
takes it, the first comes back, a third waits), and an old file with the lock and with a
variant that only Vary leads to (a request goes there and back while another one
populates). In `request` the pages have a subrequest in a subrequest, data before, between
and after subrequests, empty responses, two files read at the same time, files next to
proxied parts, and one that is broken off before a subrequest that it would have made.

Fairness. A process inside a function of the code is scheduled (`WF` of its step);
callers need not call, die or fail. Critical sections end and the master reaps its
children (`ClientFairness` of `Shmtx`). Threads run and task handlers return. In `UpstreamRR`
a live worker runs and timeouts give each connection an outcome. In
`FileCache` requests and the manager run, and a waiter's timers fire; in `Request` something
happens as long as something can (each request has finitely many events, so that no one
of them can be put off for ever); a client need not read, a worker need not arrive. In
`AcceptMutex` every connection ends at last (`SF`, since each has a timer). In
`ProcessCycle` the timer fires, SIGKILL works, a graceful shutdown ends and so does the
loader; a child need not react to SIGTERM, and the new binary need not end. Nothing is
assumed about spurious wakeups, arrivals, posts, deaths or administrators.

`CHECK_DEADLOCK FALSE` stands where the system really stops: the master has exited, or
all workers have shut down, all requests have ended.

Some properties except a case in which the code really fails; the definition names it,
and `hazards` gives the line. Each was found by TLC as a violation of the property without
the exception (those of `OnePopulates` need three requests and Vary, more than the run has):
* `RequestsEnd` of `UpstreamRR`: a worker has died inside a critical section
  (`DiedInside`). The reader-writer lock has no owner, and nobody frees it.
* `OnePopulates`: a request whose response is not of the variant it asked for clears
  `updating` of the node it leaves, whoever has the lock by then
  (`ngx_http_file_cache.c:1512`; line 1841 compares `lock_time` first). If its own lock has run out,
  that is its successor's lock, and a third request populates the node as well. The lock
  counts as good only until then (`owners`). The same holds when it ends on its new node
  and the lock there was taken in the same millisecond as its own.
* `SizeIsKept`: a request finds a node while it is being deleted, or an expired error
  hides a file (`drifted`). `sh->size` is then too small, or too large, for good.
* `InactiveGo`: a process died while it was deleting the last node of the queue (`Stuck`).
  `deleting` stays set, and the expiry stops at that node.
* `InOrder` (its part about missing data), `CountIsKept` (its part about the freed pool),
  `NoAlert`, `RequestEnds`: a request is terminated
  while a file is being read for another request of the page (`astray`). Only the failed
  request becomes a finalizer (`ngx_http_request.c:2650`), while the end of the read wakes
  the request that may send. The main request then waits for an event that does not come,
  goes on with a part missing, logs the alert of line 2810, or frees the pool while a file
  is being read into it.
* `NoAlert`: the phases of a request ran twice (`again`). A subrequest is posted when it is
  made, and again when its turn comes (`ngx_http_postpone_filter_module.c:239`), also if it
  has not started yet: on the page `<<s, Data, t, Data>>` with a proxied main response, `s`
  has ended, data waits, and one call of the handler makes `t` and sends what waits. If the
  content of `t` comes from a phase handler, the second entry of `posted_requests` runs the
  content phase again: the alert "header already sent" (`ngx_http_core_module.c:3360`),
  `NGX_ERROR`, and the whole request is terminated, although nothing failed.
* `InOrder` says nothing about what an upstream that broke off did not deliver: the page
  goes on without it, and the client is not told (the only trace is that the connection
  is not kept). This is no exception in the definition; the parts of a page are those that
  are delivered.
* `HeldMeansListening`, `EventuallyAccepted`: an `epoll_ctl()` of the process failed (`erred`).

## 4. Proofs

Proved by TLAPS for every value of the constants that satisfies the named assumption of
the module (`ShmtxAssumption`, `ThreadPoolAssumption`, `AcceptAssumption`, `CycleAssumption`,
`UpstreamAssumption`, `CacheAssumption`, `RequestAssumption`):

* `Shmtx_proofs`: `TypeCorrect`, `OwnerCorrect`, `Exclusion`, `Conservation`,
  `WakeupsAreKept`, `Implements`.
  - The invariant for exclusion is `OwnerInv`: a process past its cas has its name in the
    lock word. `MutualExclusion` alone is not inductive, since it says nothing about the
    lock word that the next cas will test.
  - Conservation is inductive by itself, given types and facts about the cardinality of
    the two sets it counts when one process enters or leaves them.
  - `NoLostWakeup` is proved from `WakeInv == NoSemNoSleep /\ NoLostWakeup`, relative to
    types and conservation. `NoSemNoSleep` says that nobody is at the sleeping stages when
    there is no semaphore, so an unlock that skips the wakeup strands nobody. Conservation
    is for the step that reads `wait <= 0` and gives up: a sleeper is announced, so the
    balance leaves a token in the semaphore or a post under way.
  - The refinement maps each step to a step of `Mutex` or a stutter, with `OwnerInv` for
    the steps that free the lock.
* `AcceptMutex_proofs`: `TypeCorrect`, `CriticalStretch`, `HeldIsTrue`, `NoHerd`.
  `NoHerd` follows from `HeldMeansListening` (unless a withdrawal failed, a process
  watches its listeners exactly when it has the held flag) and `WayIn`, which ties the way a process came to `epoll_wait()` to what it owns: the one
  that got the mutex owns the lock word, the one that missed it has the flag cleared.

* `ThreadPool_proofs`: `TypeCorrect`, `WaitingCorrect`, `TasksInOnePlace`, `NoLostTask`,
  `NoLostCompletion`, `ThreadsEndOneByOne`. The strengthening says who holds which task
  (`CurInv`), what the destroyer has posted (`MainInv`, `ExitInv`: the exit task exists only
  while it joins, so it is one) and that nothing is left behind the last thread
  (`Drained`). `WakeInv` is the heart of the wakeup argument: the counter tells how many
  threads sleep, and a thread that was signalled or never slept will look at the queue.
  `OnePlace` counts occurrences in sequences, for which the module proves what `Append`,
  `Tail` and concatenation do to a count.
  `Implements` is the refinement of `TaskService`: a task is listed, done or free as the
  lists say (`StatusIs`, from `OnePlace`), and the abstract line is the queue without the
  exit task, which is always its last entry: the event loop posts nothing else while it
  destroys the pool (`ExitInv`).
* `ProcessCycle_proofs`: `TypeCorrect`, `TableIsComplete`, `ExitingIsTrue`, `NoOldWorkerStays`,
  `MasterLeavesLast`, `NothingStartsAtTheEnd`. A master that starts processes is not ending
  (`StartInv`), since signals are blocked while it works through its stages; `just_spawn`
  marks only the new roster, and only during a reload (`JustInv`); hence the pass that
  skips the marked ones tells all the old ones (`OldInv`); `LiveInv` ties the flag `live` to
  the children. The loops over the table are operators that rewrite it entry by entry,
  and the lemmas about them come first.
* `UpstreamRR_proofs`: `TypeCorrect`, `ConnsCorrect`, `SectionsAreAtomic`, `GroupLockExcludes`,
  `OneProbeAtATime`, `ServiceIsProportional`.
  `GroupLockInv` says that the word of a group is the number of processes that are inside as
  readers, or -1 and one is inside as a writer; `PeerLockInv` that the lock of a peer has
  one holder. From them `ViewIsFresh` is inductive: what is written into a peer by somebody
  else needs a lock that excludes this section. `ConnsAreHeld` then follows step by step,
  since the section that changes `conns` computes it from the present value.
  For the probes, `ClockInv` bounds how far the cached time of a running worker is behind
  the clock, and `ProbeInv` how far `checked` of a probed peer can have been moved back: a
  second probe within `fail_timeout` of the first would need a clock that is more than
  `Lag` behind. For the weights, `RoundInv` gives the closed form of smooth weighted round
  robin: until a failure or a loss disturbs the round, `current` of a peer is its weight
  times the choices made, less the sum of the weights times its own choices; it is above
  minus the sum of the weights, and the currents add up to zero. After a whole number of
  rounds the bounds leave no value but the proportional one.
* `FileCache_proofs`: `TypeCorrect`, `ReferencesAreKept`, `OneRequestPopulates`,
  `SizeIsTheSum`, which are all the invariants of its run. Types and `CountIsKept` are
  proved together (`IInv`): the queue has each node of the tree once only if no node is
  freed while somebody has it, and that needs the count. `Fits` says at which points a
  request has a node. A request that is back on its main key has its reference
  there and nowhere else (`MovedPlaces` are the points where it can be). `LockInv` is the
  argument for the population lock: a lock that has not run out has one owner, and no other
  request that is still on that node carries its `lock_time` (`Holds`), so that a request whose
  lock was taken over does not clear the flag of its successor in `Free`. For the next lock
  on the node to have a new `lock_time`, no request that holds a lock on it has a later one
  than the node. `SizeInv` says that a node that
  is being deleted has the deleter's reference only, and that a node without a file counts
  for nothing; with it each step changes `sh->size` by what it changes in the sum.
* `Request_proofs`: `TypeCorrect`, `CountCorrect`, `AlertCorrect`, `OrderCorrect`, `PageOrder`,
  `SentOnce`, for pages of any shape. `Base`
  (types, and that only requests that exist run, are listed, posted or may send) holds in
  every state. The rest of the invariant is a case distinction on the history.
  - Before a termination (`Untorn`): `Calls`, `Handlers`, `Finished` and `Broken` say what
    the running function, the handlers of a request, a finished request and a broken
    client imply about each other. `Tree` is the argument for the count: one path leads from
    the main request to the one that may send (`Lead`), each request on it first in its
    parent's list or taken from it, and every other unfinished request waits in the
    list of its parent, once (`Lists`). So when the main request may send and has nothing
    left, no subrequest is unfinished (`MainIsLast`), which is where the code would log its
    alert. `LastData` is needed because the main response ends with data: it keeps the
    main request pending until its subrequests are through. `Ancestry` says that a parent
    does not end before its subrequests, so the right to send goes to a live request.
  - After a termination, unless it went astray (`Torn`): either the main request has only to
    be closed (`Reaped`), or a file is being read for the request that may send, while what
    was posted before still runs (`Waiting`). The count is not exact any more, since the
    cleanups take one for each upstream; `Shares` bounds it from below by what may still
    take from it, upstreams and subrequests that have not started, and from above by the
    subrequests there are, which keeps it from wrapping.
  - When the pool is freed (`Freed`) nothing can run any more.
  Each part was checked by TLC on three sets of pages before its proof; several
  had to be strengthened there.

  `InOrder` says in which order the client gets the parts. Part y comes before part z
  if on the ways that lead to them from the main request there is a response in which the
  item towards y stands first (`Before`); `Above` gives the ways as a least closed set
  instead of a recursion, so that the prover can reason about them. `PageOrder` shows
  that this is a strict total order of the parts of any page, so `InOrder` leaves one order
  to send them in. The invariant for `OrderCorrect` is `OrderInv`.
  - `Ordering`: the request that may send is the frontier. Lists hold their items in turn
    (`InTurn`), nothing in a list comes before the branch of that request (`Leading`), and
    whoever has something left is on the branch or hangs from it in a list (`Attached`).
    Hence what was sent comes before all that is left (`Behind`), which makes `Sorted`
    inductive. This holds after terminations too.
  - `Kept`: until a termination a part that was not sent waits in a list or is still to be
    made (`Accounted`), so with `Behind` nothing was passed over, and when the main request
    is done all was sent (`MainEnds`, from the proof of the count). `Full` carries that
    over a termination that did not go astray, after which nothing is sent any more.
  - `Apart`: whoever writes or ends does not make its response any more.

  `SentOnce` follows: no part is before itself.
* `SumTheorems`: what the sums of `FileCache` and `UpstreamRR` over a finite set do when one
  value or one member changes. The sum is a fold, and the induction theorems of the
  library take an operator as a parameter, which no installed prover instantiates; the
  module argues by the least counterexample instead (`LeastNatural`), with the partial sums
  along an enumeration of the set.

Only model-checked: every liveness property, since tlapm does not reason about ENABLED and so
not about fairness. The refinements and every safety property of the passing runs are
proved.

The proofs do not lean on the provers' time limits: every module is also checked with a fifth
of the default limits (`tlapm --stretch 0.2`).

## 5. Not modelled, and why

The file-lock build of the mutex, Windows, other event modules and the path without
accept mutex (dead in this tree because of `ngx_event.c:317`) are not what is built.
Errors of `pthread_*` calls are logged and leave the pool unusable. Reopening of logs
changes no state of the model. `multi_accept` is a constant of `AcceptMutex` and FALSE in
the runs: with TRUE one busy listener can starve the other for ever. Channel messages that
pass descriptors between workers are not modelled; a full channel loses them (hazard at
`os/unix/ngx_process_cycle.c:803`).

Of `Request`: `post_action`, subrequests that are waited for or kept in memory, special
responses, request bodies, rate limits, what a cacheable upstream does when the client
has gone, the keepalive phase after the request. Of `UpstreamRR`: the other balancers, the
cache of connections, the time limit of retries beyond its effect (a request may stop to
retry at any time). Of `FileCache`: the reading of files by aio or threads (the request then
waits in `open`, which the model allows it to do anyway), purging, and a request that
bypasses the cache and still stores its response (`ngx_http_file_cache_create()`, called at
`ngx_http_upstream.c:3330`).

Parsing, configuration, filters that transform a body, TLS, the mail and stream proxies, the
layer above system calls, and the vendored code (LuaJIT, the Lua, echo and redis modules)
are sequential, or I/O, or not the server's own; these are most of the tree's lines.

## 6. Plan

Done: `Mutex`, `Shmtx`, `TaskService`, `ThreadPool`, `AcceptMutex`, `ProcessCycle`, `RWLock`,
`UpstreamRR`, `FileCache`, `Request`, with the proofs above.

Left are models, in this order: `Timers` (expiry with wrap-around, `% 2^w`, against handlers that
add and delete) and `Connections` (instance bit against stale events); `OpenFileCache`; `Slab`;
the descriptors that workers pass on channels; the resolver; HTTP/2 flow control.
