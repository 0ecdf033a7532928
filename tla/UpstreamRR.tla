----------------------------- MODULE UpstreamRR ------------------------------
(***************************************************************************)
(* Weighted round robin over the peers of an upstream that all workers     *)
(* share in a zone: ngx_http_upstream_round_robin.c, its locks, and the    *)
(* part of ngx_http_upstream.c that gets a peer, gives it back and goes to *)
(* the next one.                                                           *)
(*                                                                         *)
(* A worker handles one request of the model at a time.  A critical        *)
(* section is two steps, one that takes the lock and reads, one that       *)
(* writes and unlocks, so that a lock that does not exclude shows as a     *)
(* lost update.                                                            *)
(***************************************************************************)
EXTENDS RWLock, Sequences, FiniteSets, Functions

CONSTANTS
    Workers,
    Peers,
    NoPeer,       \* a request that holds no peer: pc->sockaddr is NULL
    Upstreams,    \* configurations: records [primary, backup] of sequences of peers
    Weight,       \* server ... weight=
    MaxFails,     \* server ... max_fails=
    Down,         \* peers configured as down
    FailTimeout,  \* server ... fail_timeout=
    NextTries,    \* proxy_next_upstream_tries, 0 is no limit
    Lag,          \* bound: how far the cached time of a worker is behind
    MaxTime,      \* bound: the clock
    MaxRequests,  \* bound: requests
    MaxCrashes    \* bound: workers that die

Groups == {"primary", "backup"}

ASSUME UpstreamAssumption ==
    /\ NoPeer \notin Peers
    /\ Upstreams \subseteq [Groups -> Seq(Peers)]
    /\ \A u \in Upstreams :
          /\ u["primary"] # <<>>
          /\ Range(u["primary"]) \cap Range(u["backup"]) = {}
          /\ \A g \in Groups : Cardinality(Range(u[g])) = Len(u[g])
    /\ Weight \in [Peers -> Nat \ {0}] /\ MaxFails \in [Peers -> Nat]
    /\ Down \subseteq Peers
    /\ IsFiniteSet(Workers)
    /\ {FailTimeout, NextTries, Lag, MaxTime, MaxRequests, MaxCrashes} \subseteq Nat

VARIABLES
    up,        \* the configuration
    rwlock,    \* peers->rwlock of each group
    lock,      \* peer->lock
    peer,      \* the peers in shared memory
    time, now, \* the clock, and what ngx_time() says in a worker with a request
    pc,        \* where the request of each worker is
    req,       \* its ngx_http_upstream_rr_peer_data_t and what it does next
    view,      \* what it has read in its critical section
    alive,
    started, crashes,
    probe,     \* history: when the request chose a peer that was disabled, or 0
    served,    \* history: how often each peer was chosen
    disturbed  \* history: a peer failed, was skipped, or was chosen on a retry

shared == <<rwlock, lock, peer>>
clock == <<time, now>>
history == <<probe, served, disturbed>>
vars == <<up, shared, clock, pc, req, view, alive, started, crashes, history>>

Members(g) == Range(up[g])

(* Only an upstream of one server without backup: the weights are not used. *)
Single == Len(up["primary"]) = 1 /\ up["backup"] = <<>>

Tries == LET all == Len(up["primary"]) + Len(up["backup"]) IN
         IF NextTries > 0 /\ all > NextTries THEN NextTries ELSE all

(* from: the group that this call of get_round_robin_peer() began with. *)
FreshRequest == [group |-> "primary", from |-> "primary", cur |-> NoPeer, tried |-> {},
                 tries |-> Tries, failed |-> FALSE, again |-> FALSE]

Unread == <<>>
Epoch == FailTimeout + 1

Init == /\ up \in Upstreams
        /\ rwlock = [g \in Groups |-> FreeWord]
        /\ lock = [p \in Peers |-> FreeWord]
        /\ peer = [p \in Peers |-> [conns |-> 0, fails |-> 0, accessed |-> 0, checked |-> 0,
                                    current |-> 0, effective |-> Weight[p]]]
        /\ time = Epoch /\ now = [w \in Workers |-> 0]
        /\ pc = [w \in Workers |-> "idle"]
        /\ req = [w \in Workers |-> FreshRequest]
        /\ view = [w \in Workers |-> Unread]
        /\ alive = [w \in Workers |-> TRUE]
        /\ started = 0 /\ crashes = 0
        /\ probe = [w \in Workers |-> 0]
        /\ served = [p \in Peers |-> 0]
        /\ disturbed = FALSE

At(w, s) == alive[w] /\ pc[w] = s
Goto(w, s) == pc' = [pc EXCEPT ![w] = s]

(* The memory of a request ends with it, and the worker waits for events. *)
End(w) == /\ Goto(w, "idle")
          /\ req' = [req EXCEPT ![w] = FreshRequest]
          /\ now' = [now EXCEPT ![w] = 0]
Group(w) == req[w].group
Reads(w, S) == view' = [view EXCEPT ![w] = [p \in S |-> peer[p]]]
Forgets(w) == view' = [view EXCEPT ![w] = Unread]

-----------------------------------------------------------------------------
(* ngx_http_upstream_get_round_robin_peer() *)

(* ngx_http_upstream_init_request(): a request that wants a peer, in a      *)
(* worker that has cached the time when it came back from epoll_wait().     *)
Start(w) == /\ At(w, "idle")
            /\ started < MaxRequests
            /\ started' = started + 1
            /\ now' = [now EXCEPT ![w] = time]
            /\ Goto(w, "get")
            /\ UNCHANGED <<up, shared, time, req, view, alive, crashes, history>>

LockPeers(w) == /\ At(w, "get")
                /\ CanWrite(rwlock[Group(w)])
                /\ rwlock' = [rwlock EXCEPT ![Group(w)] = Wlock(@)]
                /\ Reads(w, Members(Group(w)))
                /\ Goto(w, "choose")
                /\ UNCHANGED <<up, lock, peer, clock, req, alive, started, crashes, history>>

Disabled(p, v) == MaxFails[p] > 0 /\ v[p].fails >= MaxFails[p]

Skipped(p, v, t) == Disabled(p, v) /\ t - v[p].checked <= FailTimeout

Usable(w) == {p \in Members(Group(w)) \ Down :
                 Single \/ (p \notin req[w].tried /\ ~Skipped(p, view[w], now[w]))}

Raised(p, v) == v[p].current + v[p].effective

(* The first of the group with the greatest weight. *)
IsBest(w, p, E) == LET pos(q) == CHOOSE i \in DOMAIN up[Group(w)] : up[Group(w)][i] = q IN
    \A q \in E :
        \/ Raised(q, view[w]) < Raised(p, view[w])
        \/ Raised(q, view[w]) = Raised(p, view[w]) /\ pos(p) <= pos(q)

Total(E, v) == SumFunctionOnSet([p \in E |-> v[p].effective], E)

(* Slip: the chosen peer keeps its raised weight. *)
NoToll(p, E, v) == 0

Toll(p, E, v) == Total(E, v)

(* Slip: checked keeps its value, so every request probes. *)
NoCheck(p, v, t) == v[p].checked

CheckedAt(p, v, t) == IF t - v[p].checked > FailTimeout THEN t ELSE v[p].checked

(* ngx_http_upstream_get_peer(): the weights of all usable peers change. *)
Weighed(p, best, E, v, t) ==
    [v[p] EXCEPT !.effective = IF @ < Weight[p] THEN @ + 1 ELSE @,
                 !.current = Raised(p, v) - (IF p = best THEN Toll(p, E, v) ELSE 0),
                 !.checked = IF p = best THEN CheckedAt(p, v, t) ELSE @,
                 !.conns = IF p = best THEN @ + 1 ELSE @]

(* History: the choices are counted until something disturbs the rounds. *)
Count(p, event) ==
    /\ disturbed' = (disturbed \/ event)
    /\ served' = [q \in Peers |-> IF disturbed' THEN 0
                                 ELSE IF q = p THEN served[q] + 1 ELSE served[q]]

Unlocks(w) == rwlock' = [rwlock EXCEPT ![Group(w)] = Unlock(@)]

Choose(w) ==
    LET E == Usable(w)
        v == view[w]
    IN
    /\ At(w, "choose")
    /\ \E best \in E :
          /\ IsBest(w, best, E)
          /\ peer' = [p \in Peers |->
                         IF p \notin E THEN peer[p]
                         ELSE IF Single THEN [v[p] EXCEPT !.conns = @ + 1]
                         ELSE Weighed(p, best, E, v, now[w])]
          /\ req' = [req EXCEPT ![w].cur = best,
                                ![w].tried = IF Single THEN @ ELSE @ \cup {best}]
          /\ probe' = [probe EXCEPT ![w] = IF ~Single /\ Disabled(best, v) THEN now[w] ELSE 0]
          /\ Count(best, E # Members("primary") \/ Single)
    /\ Unlocks(w)
    /\ Forgets(w)
    /\ Goto(w, "connect")
    /\ UNCHANGED <<up, lock, clock, alive, started, crashes>>

(* Nothing is usable: go to the backup servers, with no bit of tried set. *)
GoToBackup(w) == /\ At(w, "choose")
                 /\ Usable(w) = {}
                 /\ Group(w) = "primary" /\ up["backup"] # <<>>
                 /\ req' = [req EXCEPT ![w].group = "backup", ![w].tried = {}]
                 /\ Unlocks(w)
                 /\ Forgets(w)
                 /\ Goto(w, "get")
                 /\ UNCHANGED <<up, lock, peer, clock, alive, started, crashes, history>>

(* "all peers failed, mark them as live for quick recovery" *)
Revived(g) == peer' = [p \in Peers |-> IF p \in Members(g) THEN [peer[p] EXCEPT !.fails = 0]
                                       ELSE peer[p]]

(* NGX_BUSY.  A call that came from the primary servers to the backup ones  *)
(* revives the primary ones as well; a retry that began with the backup     *)
(* servers does not.                                                        *)
CameFromPrimary(w) == Group(w) = "backup" /\ req[w].from = "primary"

NoLivePeer(w) == /\ At(w, "choose")
                 /\ Usable(w) = {}
                 /\ Group(w) = "backup" \/ up["backup"] = <<>>
                 /\ Revived(Group(w))
                 /\ Unlocks(w)
                 /\ Forgets(w)
                 /\ \/ CameFromPrimary(w) /\ Goto(w, "relock") /\ UNCHANGED <<req, now>>
                    \/ ~CameFromPrimary(w) /\ End(w)
                 /\ UNCHANGED <<up, lock, time, alive, started, crashes, history>>

LockAgain(w) == /\ At(w, "relock")
                /\ CanWrite(rwlock["primary"])
                /\ rwlock' = [rwlock EXCEPT !["primary"] = Wlock(@)]
                /\ Reads(w, Members("primary"))
                /\ Goto(w, "revive")
                /\ UNCHANGED <<up, lock, peer, clock, req, alive, started, crashes, history>>

(* The request ends with 502: next_upstream never includes FT_NOLIVE. *)
Revive(w) == /\ At(w, "revive")
             /\ Revived("primary")
             /\ rwlock' = [rwlock EXCEPT !["primary"] = Unlock(@)]
             /\ Forgets(w)
             /\ End(w)
             /\ UNCHANGED <<up, lock, time, alive, started, crashes, history>>

-----------------------------------------------------------------------------
(* ngx_http_upstream_connect(), _next() and _finalize_request() *)

(* ngx_event_connect_peer() goes on in the same handler: no socket or no     *)
(* connection is left (NGX_ERROR), connect() is refused (NGX_DECLINED) ...   *)
Leave(w, failed, again) ==
    /\ req' = [req EXCEPT ![w].failed = failed, ![w].again = again]
    /\ Goto(w, "free")
    /\ UNCHANGED <<up, shared, time, view, alive, started, crashes, history>>

NoSocket(w) == At(w, "connect") /\ Leave(w, FALSE, FALSE) /\ UNCHANGED now

Decline(w) == At(w, "connect") /\ Leave(w, TRUE, TRUE) /\ UNCHANGED now

(* ... or the worker goes back to epoll_wait(). *)
Connect(w) == /\ At(w, "connect")
              /\ Goto(w, "connected")
              /\ now' = [now EXCEPT ![w] = 0]
              /\ UNCHANGED <<up, shared, time, req, view, alive, started, crashes, history>>

UpdateTime(w) == now' = [now EXCEPT ![w] = time]

(* The response is complete or the client has gone:                         *)
(* ngx_http_upstream_finalize_request().                                    *)
Finish(w) == At(w, "connected") /\ UpdateTime(w) /\ Leave(w, FALSE, FALSE)

(* Refused, timed out, or no valid header: ngx_http_upstream_next(). *)
Fail(w) == At(w, "connected") /\ UpdateTime(w) /\ Leave(w, TRUE, TRUE)

(* 403 or 404: ngx_http_upstream_test_next() asks for another peer. *)
Refuse(w) == /\ At(w, "connected")
             /\ req[w].tries > 1
             /\ UpdateTime(w)
             /\ Leave(w, FALSE, TRUE)

-----------------------------------------------------------------------------
(* ngx_http_upstream_free_round_robin_peer() *)

(* Slip: giving a peer back takes the read lock of the group only. *)
NoPeerLock(w) == TRUE

PeerIsFree(w) == CanWrite(lock[req[w].cur])

ReadLockPeers(w) == /\ At(w, "free")
                    /\ CanRead(rwlock[Group(w)])
                    /\ rwlock' = [rwlock EXCEPT ![Group(w)] = Rlock(@)]
                    /\ Goto(w, "lockpeer")
                    /\ UNCHANGED <<up, lock, peer, clock, req, view, alive, started, crashes, history>>

LockPeer(w) == /\ At(w, "lockpeer")
               /\ PeerIsFree(w)
               /\ lock' = [lock EXCEPT ![req[w].cur] = Wlock(@)]
               /\ Reads(w, {req[w].cur})
               /\ Goto(w, "update")
               /\ UNCHANGED <<up, rwlock, peer, clock, req, alive, started, crashes, history>>

Lowered(p, e) == IF MaxFails[p] = 0 THEN e
                 ELSE IF e < Weight[p] \div MaxFails[p] THEN 0
                 ELSE e - Weight[p] \div MaxFails[p]

GivenBack(p, v, failed, t) ==
    IF Single THEN [v EXCEPT !.conns = @ - 1]
    ELSE IF failed
    THEN [v EXCEPT !.fails = @ + 1, !.accessed = t, !.checked = t,
                   !.effective = Lowered(p, @), !.conns = @ - 1]
    ELSE [v EXCEPT !.fails = IF v.accessed < v.checked THEN 0 ELSE @, !.conns = @ - 1]

TriesLeft(w) == IF Single \/ req[w].tries = 0 THEN 0 ELSE req[w].tries - 1

(* The rest of ngx_http_upstream_next() decides in the same handler; what   *)
(* may end the request besides tries (the client, proxy_next_upstream, its  *)
(* timeout, a body that was sent) is left open.                             *)
Update(w) ==
    LET p == req[w].cur IN
    /\ At(w, "update")
    /\ peer' = [peer EXCEPT ![p] = GivenBack(p, view[w][p], req[w].failed, now[w])]
    /\ lock' = [lock EXCEPT ![p] = Unlock(@)]
    /\ Unlocks(w)
    /\ Forgets(w)
    /\ probe' = [probe EXCEPT ![w] = 0]
    /\ Count(NoPeer, req[w].failed)
    /\ \/ /\ req[w].again /\ TriesLeft(w) > 0
          /\ req' = [req EXCEPT ![w] = [@ EXCEPT !.from = Group(w), !.cur = NoPeer,
                                                !.tries = TriesLeft(w),
                                                !.failed = FALSE, !.again = FALSE]]
          /\ Goto(w, "get")
          /\ UNCHANGED now
       \/ End(w)
    /\ UNCHANGED <<up, time, alive, started, crashes>>

-----------------------------------------------------------------------------
(* Time and death *)

Tick == /\ time < MaxTime
        /\ \A w \in Workers : (alive[w] /\ now[w] > 0) => time + 1 - now[w] <= Lag
        /\ time' = time + 1
        /\ UNCHANGED <<up, shared, now, pc, req, view, alive, started, crashes, history>>

(* The memory of the worker is gone; neither the peer nor the locks that it *)
(* has are given back.                                                       *)
Inside == {"choose", "revive", "lockpeer", "update"}

Crash(w) == /\ alive[w] /\ pc[w] # "idle"
            /\ crashes < MaxCrashes
            /\ crashes' = crashes + 1
            /\ alive' = [alive EXCEPT ![w] = FALSE]
            /\ Goto(w, IF pc[w] \in Inside THEN pc[w] ELSE "idle")
            /\ req' = [req EXCEPT ![w] = [FreshRequest EXCEPT !.group = Group(w),
                                                             !.cur = req[w].cur]]
            /\ now' = [now EXCEPT ![w] = 0]
            /\ probe' = [probe EXCEPT ![w] = 0]
            /\ Forgets(w)
            /\ UNCHANGED <<up, shared, time, started, served, disturbed>>

-----------------------------------------------------------------------------
Outcome(w) == NoSocket(w) \/ Decline(w) \/ Connect(w) \/ Finish(w) \/ Fail(w) \/ Refuse(w)

Step(w) == \/ LockPeers(w) \/ Choose(w) \/ GoToBackup(w) \/ NoLivePeer(w)
           \/ LockAgain(w) \/ Revive(w) \/ Outcome(w)
           \/ ReadLockPeers(w) \/ LockPeer(w) \/ Update(w)

Next == \/ Tick
        \/ \E w \in Workers : Start(w) \/ Step(w) \/ Crash(w)

Spec == Init /\ [][Next]_vars

(* A worker that lives runs; the timeouts of connecting, sending and reading *)
(* give every connection an outcome.                                         *)
FairSpec == Spec /\ \A w \in Workers : WF_vars(Step(w))

-----------------------------------------------------------------------------
RequestData == [group : Groups, from : Groups, cur : Peers \cup {NoPeer}, tried : SUBSET Peers,
                tries : Nat, failed : BOOLEAN, again : BOOLEAN]

TypeOK ==
    /\ up \in Upstreams
    /\ rwlock \in [Groups -> Word]
    /\ lock \in [Peers -> {FreeWord, WriteWord}]
    /\ \A p \in Peers :
          /\ {peer[p].conns, peer[p].fails, peer[p].accessed, peer[p].checked} \subseteq Nat
          /\ peer[p].effective \in 0..Weight[p]
    /\ time \in Nat /\ now \in [Workers -> Nat]
    /\ pc \in [Workers -> {"idle", "get", "choose", "relock", "revive", "connect",
                           "connected", "free", "lockpeer", "update"}]
    /\ req \in [Workers -> RequestData]
    /\ alive \in [Workers -> BOOLEAN]

(* The two levels of locks (the group, then the peer) keep what a worker has *)
(* read in a critical section true until it writes it back.                  *)
ViewIsFresh == \A w \in Workers : \A p \in DOMAIN view[w] : view[w][p] = peer[p]

(* conns of a peer is the number of requests that hold it, the requests of   *)
(* dead workers included: it is given back once, on every way out, and no    *)
(* update of another worker is lost.                                         *)
ConnsAreHeld == \A p \in Peers :
    peer[p].conns = Cardinality({w \in Workers : req[w].cur = p})

(* fail_timeout: a peer that is disabled is probed by one request at a time; *)
(* the next probe comes later by more than fail_timeout, less the time by    *)
(* which the clocks of two workers may differ.                               *)
OneProbe == \A w1, w2 \in Workers :
    (w1 # w2 /\ probe[w1] > 0 /\ probe[w2] > 0 /\ req[w1].cur = req[w2].cur) =>
        \/ probe[w1] - probe[w2] > FailTimeout - Lag
        \/ probe[w2] - probe[w1] > FailTimeout - Lag

(* Smooth weighted round robin: while no peer fails or is skipped, a round   *)
(* of as many choices as the weights add up to gives each peer its weight.   *)
ProportionalService ==
    LET weights == SumFunctionOnSet(Weight, Members("primary"))
        chosen == SumFunctionOnSet(served, Members("primary"))
    IN (~disturbed /\ chosen % weights = 0) =>
          \A p \in Members("primary") : served[p] * weights = Weight[p] * chosen

(* Every request ends, with all of its retries, unless a worker has died     *)
(* with one of the locks.                                                    *)
DiedInside == \E w \in Workers : ~alive[w] /\ pc[w] \in Inside
RequestsEnd == []<>(DiedInside \/ \A w \in Workers : pc[w] = "idle")
=============================================================================
