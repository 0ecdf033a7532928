------------------------------ MODULE FileCache -------------------------------
(***************************************************************************)
(* The cache of responses on disk (src/http/ngx_http_file_cache.c): its     *)
(* nodes in shared memory, the requests of the workers that use them, the   *)
(* cache manager and the cache loader.                                      *)
(*                                                                          *)
(* A stretch of code under the mutex of the zone is one step.  Times are    *)
(* abstracted to what is compared: whether they have passed.  Two locks on  *)
(* one node are never taken in the same millisecond, which is what          *)
(* lock_time counts; locks on two nodes may be.                             *)
(***************************************************************************)
EXTENDS Integers, Sequences, FiniteSets, Functions

CONSTANTS
    Requests,   \* each runs once
    Keys,
    Slots,      \* room for nodes in the zone
    None,       \* no key, no node
    Confs,      \* records: the requests that come, the slots there are, the keys that
                \* are asked for and those that Vary leads to, the keys that may have
                \* files already, proxy_cache_min_uses, proxy_cache_lock, and two
                \* bounds: the processes that die, and whether the manager wakes up
    MaxSize,    \* max_size= of proxy_cache_path
    Sizes,      \* of cached files, in blocks
    Tries       \* nodes in use that a forced expiry looks at (20 in the code)

Manager == "manager"
Deleters == Requests \cup {Manager}

ASSUME CacheAssumption ==
    /\ IsFiniteSet(Requests) /\ Manager \notin Requests
    /\ IsFiniteSet(Slots) /\ None \notin Keys \cup Slots
    /\ Confs \subseteq [requests : SUBSET Requests, zone : SUBSET Slots, keys : SUBSET Keys,
                       variants : SUBSET Keys, old : SUBSET Keys, min_uses : Nat \ {0},
                       lock : BOOLEAN, crashes : Nat, managed : BOOLEAN]
    /\ Sizes \subseteq Nat \ {0}
    /\ MaxSize \in Nat /\ Tries \in Nat \ {0}

VARIABLES
    conf,
    node,      \* sh->rbtree: the ngx_http_file_cache_node_t of each slot
    queue,     \* sh->queue, its head first
    size,      \* sh->size
    cold,      \* sh->cold
    file,      \* the files: their size, 0 for none, and whether they are valid
    over,      \* nodes with lock_time <= now
    inactive,  \* nodes with expire <= now
    takes,     \* counts the values given to lock_time
    pc,        \* of the requests and the manager
    c,         \* ngx_http_cache_t of each request; main: its first key while Vary
               \* has led it to another; moved: it is back from there
    victim,    \* the node that each process is deleting
    todo,      \* keys whose files the loader has not read
    seen,      \* the file that the loader has read
    crashes,
    owners,    \* history: the requests whose lock on a node is good
    leaked,    \* history: references of processes that died
    drifted    \* history: sh->size was put out of step (see SizeIsKept)

shared == <<node, queue, size, over, inactive>>
loader == <<todo, seen, cold>>
vars == <<conf, shared, takes, file, pc, c, victim, loader, crashes, owners, leaked, drifted>>

FreeNode == [key |-> None, count |-> 0, uses |-> 0, exists |-> FALSE, deleting |-> FALSE,
             updating |-> FALSE, lock_time |-> 0, error |-> FALSE, live |-> FALSE, fs_size |-> 0]

NewCache == [key |-> None, node |-> None, updating |-> FALSE, lock_time |-> 0,
             error |-> "no", late |-> FALSE, scarce |-> FALSE, cacheable |-> TRUE,
             main |-> None, moved |-> FALSE, fs_size |-> 0, ok |-> FALSE,
             stale |-> FALSE, timer |-> FALSE]

NoFile == [size |-> 0, valid |-> FALSE]
Files == [size : Sizes, valid : BOOLEAN]

(* ngx_http_file_cache_init(): an empty zone over the files that earlier    *)
(* runs of the program have left, or, when the loader has found none, what  *)
(* it leaves.                                                               *)
Init == /\ conf \in Confs
        /\ node = [n \in Slots |-> FreeNode]
        /\ queue = <<>> /\ size = 0
        /\ file \in [Keys -> {NoFile} \cup Files]
        /\ \A k \in Keys : k \notin conf.old => file[k] = NoFile
        /\ over = Slots /\ inactive = {}
        /\ takes = 0
        /\ pc = [a \in Deleters |-> IF a = Manager THEN "rest" ELSE "new"]
        /\ c = [r \in Requests |-> NewCache]
        /\ victim = [a \in Deleters |-> None]
        /\ todo = conf.old /\ seen = None /\ cold = (conf.old # {})
        /\ crashes = 0
        /\ owners = [n \in Slots |-> {}]
        /\ leaked = [n \in Slots |-> 0]
        /\ drifted = FALSE

-----------------------------------------------------------------------------
(* Nodes *)

Nodes == {n \in conf.zone : node[n].key # None}

Found(k) == {n \in Nodes : node[n].key = k}

(* What stands in q at the places I, in its order. *)
AtPlaces(q, I) ==
    [k \in 1..Cardinality(I) |-> q[CHOOSE i \in I : Cardinality({j \in I : j <= i}) = k]]

Without(q, n) == AtPlaces(q, {i \in DOMAIN q : q[i] # n})

(* To the head of the queue, with expire = now + inactive. *)
ToHead(n) == /\ queue' = <<n>> \o Without(queue, n)
             /\ inactive' = inactive \ {n}

FreesNode(n) == /\ node' = [node EXCEPT ![n] = FreeNode]
                /\ queue' = Without(queue, n)
                /\ inactive' = inactive \ {n}
                /\ over' = over \cup {n}
                /\ owners' = [owners EXCEPT ![n] = {}]

Goto(a, s) == pc' = [pc EXCEPT ![a] = s]
At(r, s) == pc[r] = s

(* The request and its ngx_http_cache_t are gone. *)
Done(r) == Goto(r, "done") /\ c' = [c EXCEPT ![r] = NewCache]

-----------------------------------------------------------------------------
(* ngx_http_file_cache_open(): ngx_http_file_cache_exists() *)

Arrive(r) == /\ At(r, "new") /\ r \in conf.requests
             /\ \E k \in conf.keys : c' = [c EXCEPT ![r].key = k]
             /\ Goto(r, "exists")
             /\ UNCHANGED <<conf, shared, takes, file, victim, loader, crashes, owners, leaked, drifted>>

Renewed(f) == [f EXCEPT !.live = FALSE, !.error = FALSE, !.exists = FALSE, !.fs_size = 0]

(* Slip: a request that waited for the lock is counted again. *)
EveryTime(r) == TRUE

FirstUse(r) == c[r].node = None

(* uses counts no further than min_uses, all that it is compared with. *)
Used(f) == IF f.uses < conf.min_uses THEN f.uses + 1 ELSE f.uses

Counted(r, f) == IF FirstUse(r) THEN [f EXCEPT !.uses = Used(f), !.count = @ + 1] ELSE f

(* Declined: the file is read only while the cache is cold. *)
AfterDeclined == IF cold THEN "open" ELSE IF conf.min_uses > 1 THEN "fetch" ELSE "lock"

(* A request that has its response already only wanted the node.            *)
AfterExists(r, s) == IF c[r].moved THEN "fetch" ELSE s

(* The node is there: of two nodes with one key the tree finds either. *)
Lookup(r, n) ==
    LET f == Counted(r, node[n])
        Goes(s, f2, scarce) ==
            /\ node' = [node EXCEPT ![n] = f2]
            /\ c' = [c EXCEPT ![r].node = n, ![r].scarce = scarce,
                              ![r].error = IF f2.error THEN "cached" ELSE "no",
                              ![r].cacheable = c[r].moved \/ ~(scarce /\ s = "fetch")]
            /\ Goto(r, AfterExists(r, s))
    IN
    /\ At(r, "exists")
    /\ n = c[r].node \/ (c[r].node = None /\ n \in Found(c[r].key))
    /\ ToHead(n)
    /\ \/ f.error /\ ~f.live /\ Goes(AfterDeclined, Renewed(f), conf.min_uses > 1)
       \/ f.error /\ f.live /\ Goes("answer", f, FALSE)
       \/ ~f.error /\ f.exists /\ Goes("open", f, FALSE)
       \/ ~f.error /\ ~f.exists /\ f.uses >= conf.min_uses /\ Goes("lock", f, FALSE)
       \/ ~f.error /\ ~f.exists /\ f.uses < conf.min_uses /\ Goes("fetch", f, TRUE)
    /\ drifted' = (drifted \/ f.deleting \/ (f.error /\ ~f.live /\ f.fs_size > 0))
    /\ UNCHANGED <<conf, size, over, takes, file, victim, loader, crashes, owners, leaked>>

Insert(r, n) ==
    /\ node' = [node EXCEPT ![n] = [FreeNode EXCEPT !.key = c[r].key, !.uses = 1, !.count = 1]]
    /\ ToHead(n)
    /\ c' = [c EXCEPT ![r].node = n, ![r].scarce = conf.min_uses > 1,
                      ![r].cacheable = c[r].moved \/ ~(conf.min_uses > 1 /\ ~cold)]
    /\ Goto(r, AfterExists(r, AfterDeclined))
    /\ UNCHANGED <<conf, size, over, takes, file, victim, loader, crashes, owners, leaked, drifted>>

Create(r) == /\ At(r, "exists")
             /\ c[r].node = None /\ Found(c[r].key) = {}
             /\ \E n \in conf.zone \ Nodes : Insert(r, n)

(* The zone is full: the mutex is given back to expire a node by force ...  *)
Full(r) == /\ At(r, "exists")
           /\ c[r].node = None /\ Found(c[r].key) = {}
           /\ Nodes = conf.zone
           /\ Goto(r, "force")
           /\ UNCHANGED <<conf, shared, takes, file, c, victim, loader, crashes, owners, leaked, drifted>>

(* ... and then a node is inserted without another look into the tree. *)
Retry(r) == /\ At(r, "retry")
            /\ \E n \in conf.zone \ Nodes : Insert(r, n)

NoRoom(r) == /\ At(r, "retry")
             /\ Nodes = conf.zone
             /\ Done(r)
             /\ UNCHANGED <<conf, shared, takes, file, victim, loader, crashes, owners, leaked, drifted>>

-----------------------------------------------------------------------------
(* The file: ngx_open_cached_file() and ngx_http_file_cache_read() *)

local == <<conf, shared, takes, file, victim, loader, crashes, owners, leaked, drifted>>

OpenFile(r) ==
    LET f == file[c[r].key] IN
    /\ At(r, "open")
    /\ \/ /\ f.size = 0
          /\ IF c[r].scarce
             THEN Goto(r, "fetch") /\ c' = [c EXCEPT ![r].cacheable = FALSE]
             ELSE Goto(r, "lock") /\ UNCHANGED c
       \/ /\ f.size > 0
          /\ c' = [c EXCEPT ![r].fs_size = f.size, ![r].stale = ~f.valid]
          /\ Goto(r, "read")
    /\ UNCHANGED local

(* Another error than ENOENT: the request ends. *)
OpenFails(r) == /\ At(r, "open")
                /\ Goto(r, "answer")
                /\ UNCHANGED <<local, c>>

(* The response is fetched, without the lock. *)
BadHeader(r) == /\ At(r, "read")
                /\ Goto(r, "fetch")
                /\ UNCHANGED <<local, c>>

(* ngx_http_file_cache_reopen(): Vary leads to the file of a variant. *)
Reopen(r) ==
    /\ At(r, "read")
    /\ c[r].main = None
    /\ node' = [node EXCEPT ![c[r].node].count = @ - 1]
    /\ \E k \in conf.variants \ {c[r].key} :
          c' = [c EXCEPT ![r] = [NewCache EXCEPT !.key = k, !.main = c[r].key,
                                                 !.late = c[r].late]]
    /\ Goto(r, "exists")
    /\ UNCHANGED <<conf, queue, size, over, inactive, takes, file, victim, loader,
                   crashes, owners, leaked, drifted>>

(* Slip: the file is added by each request that reads it. *)
AddsAlways(f) == TRUE

NotCounted(f) == ~f.exists

(* While the cache is cold a node learns of its file from the first reader. *)
ReadFile(r) ==
    LET n == c[r].node
        adds == cold /\ NotCounted(node[n])
    IN
    /\ At(r, "read")
    /\ IF adds
       THEN /\ node' = [node EXCEPT ![n].uses = 1, ![n].exists = TRUE,
                                    ![n].fs_size = c[r].fs_size]
            /\ size' = size + c[r].fs_size
       ELSE UNCHANGED <<node, size>>
    /\ Goto(r, IF c[r].stale THEN "expired" ELSE "answer")
    /\ UNCHANGED <<conf, queue, over, inactive, takes, file, c, victim, loader, crashes,
                   owners, leaked, drifted>>

(* NGX_HTTP_CACHE_STALE: the request updates the file ... *)
TakeStale(r) ==
    LET n == c[r].node IN
    /\ At(r, "expired")
    /\ ~node[n].updating
    /\ node' = [node EXCEPT ![n].updating = TRUE]
    /\ c' = [c EXCEPT ![r].updating = TRUE, ![r].lock_time = node[n].lock_time]
    /\ Goto(r, "fetch")
    /\ UNCHANGED <<conf, queue, size, over, inactive, takes, file, victim, loader,
                   crashes, owners, leaked, drifted>>

(* ... or NGX_HTTP_CACHE_UPDATING: it answers with the stale file, or       *)
(* fetches as well, as proxy_cache_use_stale says.                          *)
Updating(r) == /\ At(r, "expired")
               /\ node[c[r].node].updating
               /\ \E s \in {"answer", "fetch"} : Goto(r, s)
               /\ UNCHANGED <<local, c>>

-----------------------------------------------------------------------------
(* ngx_http_file_cache_lock() and ngx_http_file_cache_lock_wait() *)

NoLock(r) == /\ At(r, "lock")
             /\ ~conf.lock
             /\ Goto(r, "fetch")
             /\ UNCHANGED <<local, c>>

LockIsFree(n) == ~node[n].updating \/ n \in over

TakeLock(r) ==
    LET n == c[r].node IN
    /\ At(r, "lock") /\ conf.lock
    /\ LockIsFree(n)
    /\ takes' \in {takes, takes + 1} \ {node[n].lock_time}
    /\ node' = [node EXCEPT ![n].updating = TRUE, ![n].lock_time = takes']
    /\ over' = over \ {n}
    /\ c' = [c EXCEPT ![r].updating = TRUE, ![r].lock_time = takes']
    /\ owners' = [owners EXCEPT ![n] = (IF n \in over THEN {} ELSE @) \cup {r}]
    /\ Goto(r, "fetch")
    /\ UNCHANGED <<conf, queue, size, inactive, file, victim, loader, crashes, leaked, drifted>>

Wait(r) == /\ At(r, "lock") /\ conf.lock
           /\ ~LockIsFree(c[r].node)
           /\ \/ /\ c[r].late
                 /\ c' = [c EXCEPT ![r].cacheable = FALSE]
                 /\ Goto(r, "fetch")
              \/ /\ ~c[r].late
                 /\ c' = [c EXCEPT ![r].timer = TRUE]
                 /\ Goto(r, "waiting")
           /\ UNCHANGED local

WakeUp(r, late) == /\ c' = [c EXCEPT ![r].timer = FALSE, ![r].late = late]
                   /\ Goto(r, "exists")

(* proxy_cache_lock_timeout: "cache lock timeout" *)
WaitTooLong(r) == At(r, "waiting") /\ c[r].timer /\ WakeUp(r, TRUE) /\ UNCHANGED local

(* Slip: the timer is not set again. *)
OnlyOnce == FALSE

Rearmed == TRUE

LockWait(r) == /\ At(r, "waiting") /\ c[r].timer
               /\ IF node[c[r].node].updating /\ c[r].node \notin over
                  THEN c' = [c EXCEPT ![r].timer = Rearmed] /\ UNCHANGED pc
                  ELSE WakeUp(r, FALSE)
               /\ UNCHANGED local

-----------------------------------------------------------------------------
(* The response: ngx_http_file_cache_update() and _free() *)

(* ngx_http_file_cache_update_variant(), when the header of the response has *)
(* come: it is not of the variant that the request asked for, and goes back  *)
(* to the main key, for which ngx_http_file_cache_exists() finds a node.     *)
(* The flag of the old node is cleared whoever has the lock.                 *)
(* History: no lock on that node is good any more.                           *)
UpdateVariant(r) ==
    LET n == c[r].node IN
    /\ At(r, "fetch") /\ c[r].cacheable
    /\ c[r].main # None
    /\ node' = [node EXCEPT ![n].count = @ - 1, ![n].updating = FALSE]
    /\ c' = [c EXCEPT ![r] = [NewCache EXCEPT !.key = c[r].main, !.moved = TRUE,
                                             !.updating = c[r].updating,
                                             !.lock_time = c[r].lock_time]]
    /\ owners' = [owners EXCEPT ![n] = {}]
    /\ Goto(r, "exists")
    /\ UNCHANGED <<conf, queue, size, over, inactive, takes, file, victim, loader,
                   crashes, leaked, drifted>>

(* The temporary file is renamed; rename() or fstat() may fail. *)
Rename(r) ==
    /\ At(r, "fetch") /\ c[r].cacheable
    /\ \E s \in Sizes, moved, ok \in BOOLEAN :
          /\ ok => moved
          /\ file' = IF moved THEN [file EXCEPT ![c[r].key] = [size |-> s, valid |-> TRUE]]
                             ELSE file
          /\ c' = [c EXCEPT ![r].updating = FALSE, ![r].ok = ok,
                            ![r].fs_size = IF ok THEN s ELSE 0]
    /\ Goto(r, "update")
    /\ UNCHANGED <<conf, shared, takes, victim, loader, crashes, owners, leaked, drifted>>

Growth(r, f) == c[r].fs_size - f.fs_size

(* History: a new file is in place, which ends every lock. *)
Update(r) ==
    LET n == c[r].node
        f == [node[n] EXCEPT !.count = @ - 1, !.fs_size = c[r].fs_size,
                             !.exists = @ \/ c[r].ok, !.updating = FALSE]
    IN
    /\ At(r, "update")
    /\ size' = size + Growth(r, node[n])
    /\ node' = [node EXCEPT ![n] = f]
    /\ owners' = [owners EXCEPT ![n] = {}]
    /\ Done(r)
    /\ UNCHANGED <<conf, queue, over, inactive, takes, file, victim, loader, crashes,
                   leaked, drifted>>

(* The response is not cached, or it is an error that proxy_cache_valid     *)
(* keeps in the node, before the header is sent.                            *)
GiveUp(r) == /\ At(r, "fetch")
             /\ \E e \in {c[r].error} \cup (IF c[r].moved THEN {} ELSE {"new"}) :
                   c' = [c EXCEPT ![r].error = e]
             /\ Goto(r, "answer")
             /\ UNCHANGED local

(* 304 to a conditional request: ngx_http_file_cache_update_header(). *)
Revalidate(r) == /\ At(r, "fetch") /\ c[r].stale
                 /\ file' = [file EXCEPT ![c[r].key].valid = file[c[r].key].size > 0]
                 /\ Goto(r, "answer")
                 /\ UNCHANGED <<conf, shared, takes, c, victim, loader, crashes, owners, leaked, drifted>>

(* Slip: the flag is cleared by a request that has lost the lock, too. *)
AnyUpdater(r, f) == c[r].updating

StillMine(r, f) == c[r].updating /\ f.lock_time = c[r].lock_time

(* The time of an error is set anew: the request has its own, or, with the   *)
(* node of the main key, that of its response.                              *)
TimesError(r) == c[r].error = "new" \/ (c[r].moved /\ c[r].error = "cached")

(* History: a request that has moved has no lock on its node, and clears the *)
(* flag of another when their times are the same.                           *)
LocksLeft(r, n) == IF c[r].moved /\ StillMine(r, node[n]) THEN {} ELSE owners[n] \ {r}

Free(r) ==
    LET n == c[r].node
        f == [node[n] EXCEPT !.count = @ - 1,
                             !.updating = @ /\ ~StillMine(r, node[n]),
                             !.error = @ \/ c[r].error # "no",
                             !.live = @ \/ TimesError(r)]
    IN
    /\ At(r, "answer")
    /\ IF c[r].error = "no" /\ ~f.exists /\ f.count = 0 /\ conf.min_uses = 1
       THEN FreesNode(n)
       ELSE /\ node' = [node EXCEPT ![n] = f]
            /\ owners' = [owners EXCEPT ![n] = LocksLeft(r, n)]
            /\ UNCHANGED <<queue, over, inactive>>
    /\ Done(r)
    /\ UNCHANGED <<conf, size, takes, file, victim, loader, crashes, leaked, drifted>>

-----------------------------------------------------------------------------
(* ngx_http_file_cache_delete(): in the middle the mutex is given back *)

InUse(n) == node[n].count > 0

(* A node without a file goes at once. *)
DeletesNode(n) == ~node[n].exists /\ FreesNode(n) /\ UNCHANGED <<size, victim>>

(* Slip: the deleter takes no reference. *)
NoReference(f) == f.count

Referred(f) == f.count + 1

BeginsDelete(a, n) ==
    /\ node[n].exists
    /\ size' = size - node[n].fs_size
    /\ node' = [node EXCEPT ![n].count = Referred(node[n]), ![n].deleting = TRUE]
    /\ victim' = [victim EXCEPT ![a] = n]
    /\ UNCHANGED <<queue, over, inactive, owners>>

Unlink(a) == /\ \/ At(a, "unlink") /\ Goto(a, "relock")
                \/ At(a, "unlink old") /\ Goto(a, "relock old")
             /\ file' = [file EXCEPT ![node[victim[a]].key] = NoFile]
             /\ UNCHANGED <<conf, shared, takes, c, victim, loader, crashes, owners, leaked, drifted>>

(* The expiry keeps the mutex and goes on; a forced expiry is done. *)
EndDelete(a, next) ==
    LET n == victim[a]
        f == [node[n] EXCEPT !.count = @ - 1, !.deleting = FALSE]
    IN
    /\ IF f.count = 0
       THEN FreesNode(n)
       ELSE node' = [node EXCEPT ![n] = f] /\ UNCHANGED <<queue, over, inactive, owners>>
    /\ victim' = [victim EXCEPT ![a] = None]
    /\ Goto(a, next)
    /\ UNCHANGED <<conf, size, takes, file, c, loader, crashes, leaked, drifted>>

(* ngx_http_file_cache_forced_expire(): the last node of the queue that is  *)
(* not in use, unless there are too many in use behind it.                  *)
ForcedExpire(a, freed, busy) ==
    LET behind(i) == {j \in i + 1..Len(queue) : InUse(queue[j])}
        idle == {i \in DOMAIN queue : ~InUse(queue[i]) /\ Cardinality(behind(i)) < Tries}
    IN
    /\ At(a, "force")
    /\ \/ idle = {} /\ Goto(a, busy) /\ UNCHANGED <<node, queue, size, over, inactive, victim, owners>>
       \/ \E i \in idle :
             /\ \A j \in idle : j <= i
             /\ \/ DeletesNode(queue[i]) /\ Goto(a, freed)
                \/ BeginsDelete(a, queue[i]) /\ Goto(a, "unlink")
    /\ UNCHANGED <<conf, takes, file, c, loader, crashes, leaked, drifted>>

RequestForce(r) == ForcedExpire(r, "retry", "retry")

RequestEndDelete(r) == At(r, "relock") /\ EndDelete(r, "retry") 

-----------------------------------------------------------------------------
(* ngx_http_file_cache_manager() *)

(* Slip: the expiry waits for a node in use, whoever uses it. *)
StopsAtUsed(n) == InUse(n) \/ node[n].exists

StopsAt(n) == IF InUse(n) THEN node[n].deleting ELSE node[n].exists

(* ngx_http_file_cache_expire(): the inactive nodes from the end of the     *)
(* queue.  An idle one without a file is freed; one in use that nobody      *)
(* deletes (its user may have died) goes to the head of the queue; an idle  *)
(* one with a file is deleted, and one that is being deleted ends the loop. *)
ExpireFrom(next) ==
    LET stops == {i \in DOMAIN queue : queue[i] \notin inactive \/ StopsAt(queue[i])}
        last == CHOOSE i \in stops \cup {0} : \A j \in stops : j <= i
        passed == {i \in DOMAIN queue : i > last}
        busy == {i \in passed : InUse(queue[i])}
        freed == {queue[i] : i \in passed \ busy}
        rest == [n \in Slots |-> IF n \in freed THEN FreeNode ELSE node[n]]
        deletes == IF last = 0 THEN FALSE
                   ELSE queue[last] \in inactive /\ ~InUse(queue[last])
    IN
    /\ queue' = AtPlaces(queue, busy) \o SubSeq(queue, 1, last)
    /\ inactive' = inactive \ {queue[i] : i \in passed}
    /\ over' = over \cup freed
    /\ owners' = [n \in Slots |-> IF n \in freed THEN {} ELSE owners[n]]
    /\ \/ /\ ~deletes
          /\ node' = rest
          /\ Goto(Manager, next)
          /\ UNCHANGED <<size, victim>>
       \/ /\ deletes
          /\ size' = size - node[queue[last]].fs_size
          /\ node' = [rest EXCEPT ![queue[last]].count = Referred(node[queue[last]]),
                                  ![queue[last]].deleting = TRUE]
          /\ victim' = [victim EXCEPT ![Manager] = queue[last]]
          /\ Goto(Manager, "unlink old")

(* The loop goes on after a deletion, with the mutex as the deletion has    *)
(* left it: for the model another turn.                                     *)
Expire == /\ conf.managed
          /\ At(Manager, "rest") \/ At(Manager, "expire")
          /\ ExpireFrom("check")
          /\ UNCHANGED <<conf, takes, file, c, loader, crashes, leaked, drifted>>

ExpireGoesOn == At(Manager, "relock old") /\ EndDelete(Manager, "expire")

Check == /\ At(Manager, "check")
         /\ Goto(Manager, IF size < MaxSize THEN "rest" ELSE "force")
         /\ UNCHANGED <<conf, shared, takes, file, c, victim, loader, crashes, owners, leaked, drifted>>

ManagerForce == ForcedExpire(Manager, "check", "rest")

ManagerEndDelete == At(Manager, "relock") /\ EndDelete(Manager, "check") 

-----------------------------------------------------------------------------
(* ngx_http_file_cache_loader() *)

LoadRead(k) == /\ seen = None /\ k \in todo
               /\ \/ file[k].size = 0 /\ todo' = todo \ {k} /\ UNCHANGED seen
                  \/ file[k].size > 0 /\ seen' = [key |-> k, size |-> file[k].size] /\ UNCHANGED todo
               /\ UNCHANGED <<conf, shared, takes, file, pc, c, victim, cold, crashes, owners,
                              leaked, drifted>>

(* ngx_http_file_cache_add(): a node that a request has made stays as it is; *)
(* a file for which there is no room is deleted.                             *)
LoadAdd ==
    /\ seen # None
    /\ \/ /\ Found(seen.key) = {}
          /\ \E n \in conf.zone \ Nodes :
                /\ node' = [node EXCEPT ![n] = [FreeNode EXCEPT !.key = seen.key, !.uses = 1,
                                                     !.exists = TRUE, !.fs_size = seen.size]]
                /\ ToHead(n)
          /\ size' = size + seen.size
          /\ UNCHANGED file
       \/ /\ Found(seen.key) = {} /\ Nodes = conf.zone
          /\ file' = [file EXCEPT ![seen.key] = NoFile]
          /\ UNCHANGED <<node, queue, size, inactive>>
       \/ /\ \E n \in Found(seen.key) : ToHead(n)
          /\ UNCHANGED <<node, size, file>>
    /\ seen' = None /\ todo' = todo \ {seen.key}
    /\ UNCHANGED <<conf, over, takes, pc, c, victim, cold, crashes, owners, leaked, drifted>>

LoadEnd == /\ cold /\ todo = {}
           /\ cold' = FALSE
           /\ UNCHANGED <<conf, shared, takes, file, pc, c, victim, todo, seen, crashes, owners,
                          leaked, drifted>>

-----------------------------------------------------------------------------
(* Time and death *)

Timeless == UNCHANGED <<conf, queue, size, takes, pc, c, victim, loader, crashes, owners,
                        leaked, drifted>>

LockRunsOut(n) == /\ n \in Nodes \ over /\ node[n].updating
                  /\ over' = over \cup {n}
                  /\ UNCHANGED <<node, inactive, file>> /\ Timeless

FileExpires(k) == /\ file[k].valid
                  /\ file' = [file EXCEPT ![k].valid = FALSE]
                  /\ UNCHANGED <<node, inactive, over>> /\ Timeless

ErrorExpires(n) == /\ n \in Nodes /\ node[n].live
                   /\ node' = [node EXCEPT ![n].live = FALSE]
                   /\ UNCHANGED <<inactive, over, file>> /\ Timeless

(* expire falls from the head of the queue to its end. *)
Deactivate(n) == /\ n \in Nodes \ inactive /\ conf.managed
                 /\ \A i, j \in DOMAIN queue : (queue[i] = n /\ i < j) => queue[j] \in inactive
                 /\ inactive' = inactive \cup {n}
                 /\ UNCHANGED <<node, over, file>> /\ Timeless

Lost(refs) == leaked' = [n \in Slots |-> leaked[n] + Cardinality({i \in DOMAIN refs : refs[i] = n})]

(* Nothing in the zone is given back; the master frees the mutex and starts  *)
(* another process.                                                          *)
Crash(r) == /\ pc[r] \notin {"new", "done"}
            /\ crashes < conf.crashes /\ crashes' = crashes + 1
            /\ Lost(<<c[r].node, victim[r]>>)
            /\ Done(r)
            /\ victim' = [victim EXCEPT ![r] = None]
            /\ owners' = [n \in Slots |-> owners[n] \ {r}]
            /\ UNCHANGED <<conf, shared, takes, file, loader, drifted>>

ManagerCrash == /\ pc[Manager] # "rest"
                /\ crashes < conf.crashes /\ crashes' = crashes + 1
                /\ Lost(<<victim[Manager]>>)
                /\ victim' = [victim EXCEPT ![Manager] = None]
                /\ Goto(Manager, "rest")
                /\ UNCHANGED <<conf, node, queue, size, over, inactive, takes, file, c, loader,
                               owners, drifted>>

-----------------------------------------------------------------------------
Opens(r) == \/ \E n \in Slots : Lookup(r, n)
            \/ Create(r) \/ Full(r) \/ Retry(r) \/ NoRoom(r)
            \/ OpenFile(r) \/ OpenFails(r) \/ BadHeader(r) \/ Reopen(r) \/ ReadFile(r)
            \/ TakeStale(r) \/ Updating(r)
            \/ RequestForce(r) \/ Unlink(r) \/ RequestEndDelete(r)

Locks(r) == NoLock(r) \/ TakeLock(r) \/ Wait(r) \/ LockWait(r)

Answers(r) == UpdateVariant(r) \/ Rename(r) \/ Update(r) \/ GiveUp(r) \/ Revalidate(r) \/ Free(r)

Step(r) == Opens(r) \/ Locks(r) \/ Answers(r)

ManagerStep == \/ Expire \/ ExpireGoesOn \/ Check
               \/ ManagerForce \/ Unlink(Manager) \/ ManagerEndDelete

LoaderStep == LoadAdd \/ LoadEnd \/ \E k \in Keys : LoadRead(k)

Time == \/ \E n \in Slots : LockRunsOut(n) \/ ErrorExpires(n) \/ Deactivate(n)
        \/ \E k \in Keys : FileExpires(k)

Next == \/ \E r \in Requests : Arrive(r) \/ Step(r) \/ WaitTooLong(r) \/ Crash(r)
        \/ ManagerStep \/ ManagerCrash \/ LoaderStep \/ Time

Spec == Init /\ [][Next]_vars

(* Every process that lives runs, upstreams answer or time out, and timers  *)
(* fire.  No request can run for ever, so that fairness to all of them is   *)
(* fairness to each.                                                        *)
FairSpec == /\ Spec
            /\ WF_vars(\E r \in Requests : Step(r) \/ WaitTooLong(r))
            /\ WF_vars(ManagerStep)

-----------------------------------------------------------------------------
NodeData == [key : Keys \cup {None}, count : Nat, uses : Nat, exists : BOOLEAN,
             deleting : BOOLEAN, updating : BOOLEAN, lock_time : Nat, error : BOOLEAN,
             live : BOOLEAN, fs_size : {0} \cup Sizes]

CacheData == [key : Keys \cup {None}, node : Slots \cup {None}, updating : BOOLEAN,
              lock_time : Nat, error : {"no", "cached", "new"}, late : BOOLEAN,
              scarce : BOOLEAN, cacheable : BOOLEAN, main : Keys \cup {None}, moved : BOOLEAN,
              fs_size : {0} \cup Sizes, ok : BOOLEAN, stale : BOOLEAN, timer : BOOLEAN]

TypeOK ==
    /\ conf \in Confs
    /\ {cold, drifted} \subseteq BOOLEAN
    /\ node \in [Slots -> NodeData]
    /\ queue \in Seq(conf.zone) /\ Range(queue) = Nodes /\ Len(queue) = Cardinality(Nodes)
    /\ size \in Int
    /\ file \in [Keys -> {NoFile} \cup Files]
    /\ over \subseteq Slots /\ inactive \subseteq Nodes
    /\ takes \in Nat
    /\ c \in [Requests -> CacheData]
    /\ victim \in [Deleters -> Slots \cup {None}]

(* count of a node is the number of the requests and deleters that have it, *)
(* plus those that died with it, and nobody has a node that was freed or    *)
(* given to another key.                                                    *)
Users(n) == {r \in Requests : c[r].node = n}
DeletersOf(n) == {a \in Deleters : victim[a] = n}

CountIsKept ==
    /\ \A n \in Slots :
          node[n].count = Cardinality(Users(n)) + Cardinality(DeletersOf(n)) + leaked[n]
    /\ \A r \in Requests : c[r].node # None => node[c[r].node].key = c[r].key
    /\ \A a \in Deleters : victim[a] # None => victim[a] \in Nodes

(* proxy_cache_lock: "only one request at a time will be allowed to         *)
(* populate a new cache element".  One request at most has a good lock; it  *)
(* is good until lock_age has run out, a new file is in place, or a request *)
(* that goes back to the main key clears the flag: of the node that it      *)
(* leaves even when the lock is another's by now (line 1512 has no test of  *)
(* lock_time as 1841 has), or of its new node in the rare case that the two *)
(* locks are of one millisecond.  No other late request spoils it.          *)
OnePopulates == \A n \in Slots : Cardinality(owners[n]) <= 1

(* sh->size, which max_size is compared with, is what the nodes have, in    *)
(* spite of loader, first readers, updates and deleters that race.  It is   *)
(* put out of step in two ways (drifted): a request finds a node that is    *)
(* being deleted, or an error that expired hides a file.                    *)
SizeIsKept ==
    LET kept == {n \in Nodes : ~node[n].deleting} IN
    ~drifted => size = SumFunctionOnSet([n \in kept |-> node[n].fs_size], kept)

(* Every request ends: no wait for a lock lasts for ever, be its owner dead. *)
RequestsEnd == []<>(\A r \in Requests : pc[r] \in {"new", "done"})

(* An inactive node that nobody has is removed, whatever was lost with a     *)
(* process that died, unless that process was deleting the last node.        *)
Stuck == \E n \in Nodes : node[n].deleting /\ DeletersOf(n) = {}
InactiveGo == []<>(Stuck \/ \A n \in inactive : InUse(n))
=============================================================================
