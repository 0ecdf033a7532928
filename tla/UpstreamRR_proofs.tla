-------------------------- MODULE UpstreamRR_proofs --------------------------
(***************************************************************************)
(* Proofs about the shared round robin peers, for any finite set of        *)
(* workers, any peers, weights and limits, any number of requests and of   *)
(* workers that die.                                                       *)
(***************************************************************************)
EXTENDS UpstreamRR, SumTheorems

Fields == {"conns", "fails", "accessed", "checked", "current", "effective"}

(* The records and functions that TypeOK says nothing of.  (The current      *)
(* weight of a peer is a sum over its group, and has no type here.)          *)
Shape == /\ DOMAIN peer = Peers /\ \A p \in Peers : DOMAIN peer[p] = Fields
         /\ DOMAIN view = Workers

Holding == {"connect", "connected", "free", "lockpeer", "update"}

(* Where a request holds a peer, and of which group. *)
PlaceInv == \A w \in Workers :
    /\ pc[w] \in Holding => req[w].cur \in Members(Group(w))
    /\ pc[w] \in {"choose", "revive"} => req[w].cur = NoPeer
    /\ alive[w] /\ pc[w] \notin Holding => req[w].cur = NoPeer

(* What a request has read. *)
Seen(w) == IF ~alive[w] THEN {}
           ELSE IF pc[w] = "choose" THEN Members(Group(w))
           ELSE IF pc[w] = "revive" THEN Members("primary")
           ELSE IF pc[w] = "update" THEN {req[w].cur}
           ELSE {}
ViewInv == \A w \in Workers : DOMAIN view[w] = Seen(w)

(* The word of a group says who is inside. *)
Writers(g) == {w \in Workers : \/ pc[w] = "choose" /\ Group(w) = g
                               \/ pc[w] = "revive" /\ g = "primary"}
Readers(g) == {w \in Workers : pc[w] \in {"lockpeer", "update"} /\ Group(w) = g}

Written(g) == rwlock[g] = WriteWord /\ Readers(g) = {} /\ \E w \in Workers : Writers(g) = {w}
Read(g) == rwlock[g] = Cardinality(Readers(g)) /\ Writers(g) = {}
GroupLockInv == \A g \in Groups : Written(g) \/ Read(g)

(* The lock of a peer has one owner. *)
PeerLockInv ==
    /\ \A w \in Workers : pc[w] = "update" => lock[req[w].cur] = WriteWord
    /\ \A w1, w2 \in Workers :
          (pc[w1] = "update" /\ pc[w2] = "update" /\ req[w1].cur = req[w2].cur) => w1 = w2

IInv == /\ TypeOK /\ Shape /\ PlaceInv /\ ViewInv /\ GroupLockInv /\ PeerLockInv
        /\ ViewIsFresh /\ ConnsAreHeld

-----------------------------------------------------------------------------
(* The members of the two groups are peers, and no peer is in both. *)
LEMMA GroupsApart ==
    ASSUME TypeOK
    PROVE  /\ \A g \in Groups : Members(g) \subseteq Peers
           /\ Members("primary") \cap Members("backup") = {}
           /\ NoPeer \notin Peers
<1>1. up \in [Groups -> Seq(Peers)]
  BY UpstreamAssumption DEF UpstreamAssumption, TypeOK
<1>2. ASSUME NEW g \in Groups PROVE Members(g) \subseteq Peers
  <2>1. up[g] \in Seq(Peers)
    BY <1>1, <1>2
  <2> QED BY <2>1 DEF Members, Range
<1>3. Members("primary") \cap Members("backup") = {}
  BY UpstreamAssumption DEF UpstreamAssumption, TypeOK, Members
<1> QED BY <1>2, <1>3, UpstreamAssumption DEF UpstreamAssumption

(* What a failure takes of the weight is a natural number. *)
LEMMA Quotient ==
    ASSUME NEW a \in Nat, NEW b \in Nat \ {0}
    PROVE  a \div b \in Nat
  OBVIOUS

LEMMA Constants == /\ Weight \in [Peers -> Nat \ {0}] /\ MaxFails \in [Peers -> Nat]
                   /\ IsFiniteSet(Workers)
  BY UpstreamAssumption DEF UpstreamAssumption

LEMMA TriesType == ASSUME up \in Upstreams PROVE Tries \in Nat
<1> DEFINE all == Len(up["primary"]) + Len(up["backup"])
<1>1. up["primary"] \in Seq(Peers) /\ up["backup"] \in Seq(Peers)
  BY UpstreamAssumption DEF UpstreamAssumption, Groups
<1>2. Len(up["primary"]) \in Nat /\ Len(up["backup"]) \in Nat
  BY <1>1
<1>3. all \in Nat
  <2>1. \A m, n \in Nat : m + n \in Nat
    OBVIOUS
  <2> QED BY <1>2, <2>1, Zenon
<1>4. NextTries \in Nat
  BY UpstreamAssumption DEF UpstreamAssumption
<1>5. Tries = IF NextTries > 0 /\ all > NextTries THEN NextTries ELSE all
  BY DEF Tries
<1> HIDE DEF all
<1> QED BY <1>3, <1>4, <1>5

LEMMA FreshType ==
    ASSUME up \in Upstreams
    PROVE  FreshRequest \in RequestData
  BY TriesType DEF FreshRequest, RequestData, Groups

(* The words that the lock functions write. *)
LEMMA WordTypes ==
    ASSUME NEW n \in Word
    PROVE  Wlock(n) \in Word /\ Unlock(n) \in Word /\ (CanRead(n) => Rlock(n) \in Word)
  BY DEF Word, FreeWord, WriteWord, Wlock, Unlock, CanRead, Rlock

(* The fields of a request, and a request with some of them set. *)
LEMMA RequestTypes ==
    ASSUME NEW x \in RequestData
    PROVE  /\ x.group \in Groups /\ x.cur \in Peers \cup {NoPeer} /\ x.tried \subseteq Peers
           /\ x.tries \in Nat
           /\ [x EXCEPT !.group = "backup", !.tried = {}] \in RequestData
  BY DEF RequestData, Groups

LEMMA RequestLeft ==
    ASSUME NEW x \in RequestData, NEW b \in BOOLEAN, NEW c \in BOOLEAN
    PROVE  [x EXCEPT !.failed = b, !.again = c] \in RequestData
  BY DEF RequestData

LEMMA RequestChosen ==
    ASSUME NEW x \in RequestData, NEW p \in Peers \cup {NoPeer}, NEW S \in SUBSET Peers
    PROVE  [x EXCEPT !.cur = p, !.tried = S] \in RequestData
  BY DEF RequestData

LEMMA RequestAgain ==
    ASSUME NEW x \in RequestData, NEW g \in Groups, NEW n \in Nat
    PROVE  [x EXCEPT !.from = g, !.cur = NoPeer, !.tries = n, !.failed = FALSE,
                     !.again = FALSE] \in RequestData
  BY DEF RequestData

(* A worker that gives its peer back reads it under the lock. *)
LEMMA UpdateReads ==
    ASSUME TypeOK, PlaceInv, ViewInv, ViewIsFresh, NEW w \in Workers, Update(w)
    PROVE  req[w].cur \in Peers /\ view[w][req[w].cur] = peer[req[w].cur]
<1>1. alive[w] /\ pc[w] = "update"
  BY DEF Update, At
<1>2. req[w] \in RequestData
  BY DEF TypeOK
<1>3. Group(w) \in Groups
  BY <1>2, RequestTypes DEF Group
<1>4. req[w].cur \in Members(Group(w))
  BY <1>1 DEF PlaceInv, Holding
<1>5. DOMAIN view[w] = {req[w].cur}
  BY <1>1 DEF ViewInv, Seen
<1>6. view[w][req[w].cur] = peer[req[w].cur]
  BY <1>5 DEF ViewIsFresh
<1> QED BY <1>3, <1>4, <1>6, GroupsApart

-----------------------------------------------------------------------------
(* Types *)

LEMMA TypeInit == Init => TypeOK /\ Shape
<1> SUFFICES ASSUME Init PROVE TypeOK /\ Shape
  OBVIOUS
<1> USE DEF Init
<1>1. up \in Upstreams /\ rwlock \in [Groups -> Word] /\ lock \in [Peers -> {FreeWord, WriteWord}]
  BY DEF Word, FreeWord, WriteWord
<1>3. req \in [Workers -> RequestData]
  BY <1>1, FreshType
<1>4. time \in Nat /\ now \in [Workers -> Nat] /\ alive \in [Workers -> BOOLEAN]
  BY UpstreamAssumption DEF UpstreamAssumption, Epoch
<1>5. ASSUME NEW p \in Peers
      PROVE  /\ {peer[p].conns, peer[p].fails, peer[p].accessed, peer[p].checked} \subseteq Nat
             /\ peer[p].effective \in 0..Weight[p]
             /\ DOMAIN peer[p] = Fields
  BY <1>5, Constants DEF Fields
<1> QED BY <1>1, <1>3, <1>4, <1>5 DEF TypeOK, Shape

LEMMA TypeStep == IInv /\ [Next]_vars /\ ConnsAreHeld' => TypeOK' /\ Shape'
<1> SUFFICES ASSUME IInv, [Next]_vars, ConnsAreHeld' PROVE TypeOK' /\ Shape'
  OBVIOUS
<1>a. TypeOK /\ Shape
  BY DEF IInv
<1>c. \A p \in Peers : peer'[p].conns \in Nat
  <2> SUFFICES ASSUME NEW p \in Peers PROVE peer'[p].conns \in Nat
    OBVIOUS
  <2> DEFINE H == {w \in Workers : req'[w].cur = p}
  <2>1. peer'[p].conns = Cardinality(H)
    BY DEF ConnsAreHeld
  <2>2. IsFiniteSet(H)
    BY Constants, FS_Subset
  <2> HIDE DEF H
  <2>3. Cardinality(H) \in Nat
    BY <2>2, FS_CardinalityType
  <2> QED BY <2>1, <2>3
<1>p. ASSUME UNCHANGED peer
      PROVE  \A p \in Peers : /\ {peer'[p].conns, peer'[p].fails, peer'[p].accessed, peer'[p].checked}
                                   \subseteq Nat
                             /\ peer'[p].effective \in 0..Weight[p]
                             /\ DOMAIN peer'[p] = Fields
  BY <1>a, <1>p DEF TypeOK, Shape
<1>g. ASSUME NEW w \in Workers
      PROVE  Group(w) \in Groups /\ req[w].cur \in Peers \cup {NoPeer} /\ req[w] \in RequestData
  BY <1>a, RequestTypes DEF TypeOK, Group
<1>r. FreshRequest \in RequestData
  BY <1>a, FreshType DEF TypeOK
<1> USE <1>a DEF TypeOK, Shape, At, Goto, Unlocks, Forgets, Reads, Count, shared, clock, history, End
<1>1. ASSUME NEW w \in Workers, Start(w) PROVE TypeOK' /\ Shape'
  BY <1>1, <1>p DEF Start
<1>2. ASSUME NEW w \in Workers, LockPeers(w) \/ LockAgain(w) PROVE TypeOK' /\ Shape'
  BY <1>2, <1>p, <1>g, WordTypes DEF LockPeers, LockAgain, Groups
<1>3. ASSUME NEW w \in Workers, ReadLockPeers(w) PROVE TypeOK' /\ Shape'
  BY <1>3, <1>p, <1>g, WordTypes DEF ReadLockPeers
<1>4. ASSUME NEW w \in Workers, LockPeer(w) PROVE TypeOK' /\ Shape'
  BY <1>4, <1>p, <1>g DEF LockPeer, Wlock
<1>9. ASSUME NEW w \in Workers, Outcome(w) PROVE TypeOK' /\ Shape'
  <2>0. ASSUME NEW failed \in BOOLEAN, NEW again \in BOOLEAN, Leave(w, failed, again), now' \in [Workers -> Nat]
        PROVE  TypeOK' /\ Shape'
    <3>1. req' = [req EXCEPT ![w] = [req[w] EXCEPT !.failed = failed, !.again = again]]
      BY <2>0 DEF Leave
    <3>2. [req[w] EXCEPT !.failed = failed, !.again = again] \in RequestData
      BY <1>g, <2>0, RequestLeft
    <3>3. req' \in [Workers -> RequestData]
      BY <3>1, <3>2
    <3> QED BY <2>0, <3>3, <1>p DEF Leave
  <2>1. CASE NoSocket(w) \/ Decline(w)
    BY <2>0, <2>1 DEF NoSocket, Decline
  <2>2. CASE Connect(w)
    BY <2>2, <1>p DEF Connect
  <2>3. CASE Finish(w) \/ Fail(w) \/ Refuse(w)
    <3>1. now' \in [Workers -> Nat]
      BY <2>3 DEF Finish, Fail, Refuse, UpdateTime
    <3> QED BY <2>0, <2>3, <3>1 DEF Finish, Fail, Refuse
  <2> QED BY <1>9, <2>1, <2>2, <2>3 DEF Outcome
<1>5. ASSUME NEW w \in Workers, Crash(w) PROVE TypeOK' /\ Shape'
  <2>1. [FreshRequest EXCEPT !.group = Group(w), !.cur = req[w].cur] \in RequestData
    BY <1>g, <1>r DEF RequestData
  <2> QED BY <1>5, <1>p, <2>1 DEF Crash
<1>6. ASSUME Tick PROVE TypeOK' /\ Shape'
  BY <1>6, <1>p DEF Tick
<1>7. ASSUME UNCHANGED vars PROVE TypeOK' /\ Shape'
  BY <1>7, <1>p DEF vars
<1>8. ASSUME NEW w \in Workers, GoToBackup(w) PROVE TypeOK' /\ Shape'
  <2>2. [req[w] EXCEPT !.group = "backup", !.tried = {}] \in RequestData
    BY <1>g, RequestTypes
  <2>3. req' = [req EXCEPT ![w] = [req[w] EXCEPT !.group = "backup", !.tried = {}]]
    BY <1>8 DEF GoToBackup
  <2>4. req' \in [Workers -> RequestData]
    BY <2>2, <2>3
  <2>5. rwlock' \in [Groups -> Word]
    BY <1>8, <1>g, WordTypes DEF GoToBackup
  <2> QED BY <1>8, <1>p, <2>4, <2>5 DEF GoToBackup
<1>10. ASSUME NEW w \in Workers, Choose(w) PROVE TypeOK' /\ Shape'
  <2>1. PICK best \in Usable(w) :
           /\ peer' = [p \in Peers |->
                         IF p \notin Usable(w) THEN peer[p]
                         ELSE IF Single THEN [view[w][p] EXCEPT !.conns = @ + 1]
                         ELSE Weighed(p, best, Usable(w), view[w], now[w])]
           /\ req' = [req EXCEPT ![w].cur = best,
                                 ![w].tried = IF Single THEN @ ELSE @ \cup {best}]
    BY <1>10 DEF Choose
  <2>2. best \in Peers
    BY <1>g, GroupsApart DEF Usable
  <2>3. req' \in [Workers -> RequestData]
    <3> DEFINE S == IF Single THEN req[w].tried ELSE req[w].tried \cup {best}
    <3>0. req[w].tried \subseteq Peers
      BY <1>g, RequestTypes
    <3>1. S \subseteq Peers
      BY <2>2, <3>0, Zenon DEF S
    <3>2. req' = [req EXCEPT ![w] = [req[w] EXCEPT !.cur = best, !.tried = S]]
      BY <2>1
    <3> HIDE DEF S
    <3>3. [req[w] EXCEPT !.cur = best, !.tried = S] \in RequestData
      BY <1>g, <2>2, <3>1, RequestChosen
    <3> QED BY <3>2, <3>3
  <2>4. ASSUME NEW p \in Peers
        PROVE  /\ {peer'[p].fails, peer'[p].accessed, peer'[p].checked} \subseteq Nat
               /\ peer'[p].effective \in 0..Weight[p]
               /\ DOMAIN peer'[p] = Fields
    <3>1. p \in Usable(w) => view[w][p] = peer[p]
      BY <1>10 DEF IInv, ViewIsFresh, ViewInv, Seen, Usable, Choose
    <3>2. now[w] \in Nat /\ Weight[p] \in Nat
      BY Constants
    <3>3. CASE p \notin Usable(w)
      BY <2>1, <3>3
    <3>4. CASE p \in Usable(w) /\ Single
      BY <2>1, <3>1, <3>4 DEF Fields
    <3>5. CASE p \in Usable(w) /\ ~Single
      <4>1. peer'[p] = Weighed(p, best, Usable(w), view[w], now[w])
        BY <2>1, <3>5
      <4> DEFINE c == Raised(p, view[w]) - (IF p = best THEN Toll(p, Usable(w), view[w]) ELSE 0)
                 n == IF p = best THEN peer[p].conns + 1 ELSE peer[p].conns
      <4>2. peer'[p] = [peer[p] EXCEPT
                           !.effective = IF @ < Weight[p] THEN @ + 1 ELSE @,
                           !.current = c,
                           !.checked = IF p = best THEN CheckedAt(p, view[w], now[w]) ELSE @,
                           !.conns = n]
        BY <3>1, <3>5, <4>1 DEF Weighed
      <4> HIDE DEF c, n
      <4>3. CheckedAt(p, view[w], now[w]) \in Nat
        BY <3>1, <3>2, <3>5 DEF CheckedAt
      <4> QED BY <3>2, <4>2, <4>3 DEF Fields
    <3> QED BY <3>3, <3>4, <3>5
  <2>5. rwlock' \in [Groups -> Word] /\ DOMAIN peer' = Peers
    BY <1>10, <1>g, <2>1, WordTypes DEF Choose
  <2> QED BY <1>10, <1>c, <2>3, <2>4, <2>5 DEF Choose
<1>11. ASSUME NEW w \in Workers, NoLivePeer(w) \/ Revive(w) PROVE TypeOK' /\ Shape'
  <2>1. PICK g \in Groups : Revived(g)
    BY <1>11, <1>g DEF NoLivePeer, Revive, Groups
  <2>2. \A p \in Peers : /\ {peer'[p].fails, peer'[p].accessed, peer'[p].checked} \subseteq Nat
                         /\ peer'[p].effective \in 0..Weight[p]
                         /\ DOMAIN peer'[p] = Fields
    BY <2>1 DEF Revived, Fields
  <2>3. rwlock' \in [Groups -> Word] /\ DOMAIN peer' = Peers
    <3>1. PICK h \in Groups : rwlock' = [rwlock EXCEPT ![h] = Unlock(@)]
      BY <1>11, <1>g DEF NoLivePeer, Revive, Groups
    <3>2. rwlock' \in [Groups -> Word]
      BY <3>1, WordTypes
    <3>3. DOMAIN peer' = Peers
      BY <2>1 DEF Revived
    <3> QED BY <3>2, <3>3
  <2>4. CASE NoLivePeer(w)
    <3>1. CASE Goto(w, "relock") /\ UNCHANGED <<req, now>>
      BY <1>c, <2>2, <2>3, <2>4, <3>1 DEF NoLivePeer
    <3>2. CASE End(w)
      BY <1>c, <1>r, <2>2, <2>3, <2>4, <3>2 DEF NoLivePeer
    <3> QED BY <2>4, <3>1, <3>2 DEF NoLivePeer
  <2>5. CASE Revive(w)
    BY <1>c, <1>r, <2>2, <2>3, <2>5 DEF Revive
  <2> QED BY <1>11, <2>4, <2>5
<1>12. ASSUME NEW w \in Workers, Update(w) PROVE TypeOK' /\ Shape'
  <2> DEFINE p == req[w].cur
  <2>1. p \in Peers /\ view[w][p] = peer[p]
    BY <1>12, UpdateReads DEF IInv
  <2>2. peer' = [peer EXCEPT ![p] = GivenBack(p, peer[p], req[w].failed, now[w])]
    BY <1>12, <2>1 DEF Update
  <2> HIDE DEF p
  <2>3. Lowered(p, peer[p].effective) \in 0..Weight[p]
    <3>1. Weight[p] \in Nat /\ MaxFails[p] \in Nat /\ peer[p].effective \in 0..Weight[p]
      BY <2>1, Constants
    <3>2. MaxFails[p] # 0 => Weight[p] \div MaxFails[p] \in Nat
      BY <3>1, Quotient
    <3> QED BY <3>1, <3>2 DEF Lowered
  <2>4. \A q \in Peers : /\ {peer'[q].fails, peer'[q].accessed, peer'[q].checked} \subseteq Nat
                         /\ peer'[q].effective \in 0..Weight[q]
                         /\ DOMAIN peer'[q] = Fields
    BY <2>1, <2>2, <2>3 DEF GivenBack, Fields
  <2>5. rwlock' \in [Groups -> Word] /\ lock' \in [Peers -> {FreeWord, WriteWord}] /\ DOMAIN peer' = Peers
    <3>1. lock' = [lock EXCEPT ![p] = Unlock(lock[p])]
      BY <1>12 DEF Update, p
    <3>2. lock[p] = WriteWord
      BY <1>12 DEF IInv, PeerLockInv, Update, p
    <3> QED BY <1>12, <1>g, <2>1, <2>2, <3>1, <3>2, WordTypes DEF Update, Unlock
  <2>6. req' \in [Workers -> RequestData]
    <3>1. CASE req' = [req EXCEPT ![w] = FreshRequest]
      BY <3>1, <1>r
    <3>2. CASE req' = [req EXCEPT ![w] = [@ EXCEPT !.from = Group(w), !.cur = NoPeer,
                                                   !.tries = TriesLeft(w),
                                                   !.failed = FALSE, !.again = FALSE]]
      <4>0. req[w].tries \in Nat
        BY <1>g DEF RequestData
      <4>1. TriesLeft(w) \in Nat
        BY <4>0 DEF TriesLeft
      <4>2. [req[w] EXCEPT !.from = Group(w), !.cur = NoPeer, !.tries = TriesLeft(w),
                           !.failed = FALSE, !.again = FALSE] \in RequestData
        BY <1>g, <4>1, RequestAgain
      <4> QED BY <3>2, <4>2
    <3> QED BY <1>12, <3>1, <3>2 DEF Update
  <2>7. \A q \in Peers : peer'[q].conns \in Nat
    BY <1>c
  <2>8. now' \in [Workers -> Nat] /\ pc' \in [Workers -> {"idle", "get", "choose", "relock", "revive",
             "connect", "connected", "free", "lockpeer", "update"}] /\ DOMAIN view' = Workers
    BY <1>12 DEF Update
  <2>9. UNCHANGED <<up, time, alive>>
    BY <1>12 DEF Update
  <2> QED BY <2>4, <2>5, <2>6, <2>7, <2>8, <2>9
<1> QED BY <1>1, <1>2, <1>3, <1>4, <1>5, <1>6, <1>7, <1>8, <1>9, <1>10, <1>11, <1>12 DEF Next, Step

-----------------------------------------------------------------------------
(* Who holds what *)

(* What a step of a worker leaves alone. *)
LEMMA OthersStay ==
    ASSUME TypeOK, NEW w \in Workers, Start(w) \/ Step(w) \/ Crash(w)
    PROVE  /\ up' = up
           /\ \A x \in Workers \ {w} : pc'[x] = pc[x] /\ req'[x] = req[x] /\ alive'[x] = alive[x]
<1> USE DEF TypeOK, Goto, End
<1>1. CASE Start(w)
  BY <1>1 DEF Start
<1>2. CASE Crash(w)
  BY <1>2 DEF Crash
<1>3. CASE Outcome(w)
  BY <1>3 DEF Outcome, NoSocket, Decline, Connect, Finish, Fail, Refuse, Leave
<1>4. CASE LockPeers(w) \/ LockAgain(w) \/ ReadLockPeers(w) \/ LockPeer(w)
  BY <1>4 DEF LockPeers, LockAgain, ReadLockPeers, LockPeer
<1>5. CASE Choose(w) \/ GoToBackup(w)
  BY <1>5 DEF Choose, GoToBackup
<1>6. CASE NoLivePeer(w) \/ Revive(w)
  BY <1>6 DEF NoLivePeer, Revive
<1>7. CASE Update(w)
  BY <1>7 DEF Update
<1> QED BY <1>1, <1>2, <1>3, <1>4, <1>5, <1>6, <1>7 DEF Step

(* Where the request of the worker that makes a step goes. *)
Moves(w, from, to) == alive[w] /\ pc[w] \in from /\ pc'[w] \in to
Keeps(w) == Group(w)' = Group(w) /\ req'[w].cur = req[w].cur

LEMMA StepMoves ==
    ASSUME TypeOK, NEW w \in Workers, Start(w) \/ Step(w)
    PROVE  /\ alive' = alive
           /\ \/ Start(w) /\ Moves(w, {"idle"}, {"get"}) /\ Keeps(w)
              \/ LockPeers(w) /\ Moves(w, {"get"}, {"choose"}) /\ Keeps(w)
              \/ /\ Choose(w) /\ Moves(w, {"choose"}, {"connect"})
                 /\ Group(w)' = Group(w) /\ req'[w].cur \in Usable(w)
              \/ GoToBackup(w) /\ Moves(w, {"choose"}, {"get"}) /\ req'[w].cur = req[w].cur
              \/ /\ NoLivePeer(w)
                 /\ \/ Moves(w, {"choose"}, {"relock"}) /\ Keeps(w)
                    \/ Moves(w, {"choose"}, {"idle"}) /\ req'[w].cur = NoPeer
              \/ LockAgain(w) /\ Moves(w, {"relock"}, {"revive"}) /\ Keeps(w)
              \/ Revive(w) /\ Moves(w, {"revive"}, {"idle"}) /\ req'[w].cur = NoPeer
              \/ Outcome(w) /\ Moves(w, {"connect", "connected"}, {"connected", "free"}) /\ Keeps(w)
              \/ ReadLockPeers(w) /\ Moves(w, {"free"}, {"lockpeer"}) /\ Keeps(w)
              \/ LockPeer(w) /\ Moves(w, {"lockpeer"}, {"update"}) /\ Keeps(w)
              \/ Update(w) /\ Moves(w, {"update"}, {"get", "idle"}) /\ req'[w].cur = NoPeer
<1> USE DEF TypeOK, Goto, End, At, Moves, Keeps, Group
<1>0. req[w] \in RequestData /\ DOMAIN req[w] = {"group", "from", "cur", "tried", "tries",
                                         "failed", "again"}
  BY DEF RequestData
<1>1. CASE Start(w)
  BY <1>1 DEF Start
<1>2. CASE LockPeers(w)
  BY <1>2 DEF LockPeers
<1>3. CASE Choose(w)
  <2>1. PICK best \in Usable(w) :
           req' = [req EXCEPT ![w].cur = best,
                             ![w].tried = IF Single THEN @ ELSE @ \cup {best}]
    BY <1>3 DEF Choose
  <2>2. req'[w] = [req[w] EXCEPT !.cur = best,
                                !.tried = IF Single THEN @ ELSE @ \cup {best}]
    BY <2>1
  <2>3. req'[w].cur = best /\ req'[w].group = req[w].group
    BY <1>0, <2>2
  <2> QED BY <1>3, <2>3 DEF Choose
<1>4. CASE GoToBackup(w)
  BY <1>0, <1>4 DEF GoToBackup
<1>5. CASE NoLivePeer(w)
  BY <1>5 DEF NoLivePeer, FreshRequest
<1>6. CASE LockAgain(w)
  BY <1>6 DEF LockAgain
<1>7. CASE Revive(w)
  BY <1>7 DEF Revive, FreshRequest
<1>8. CASE Outcome(w)
  <2>1. ASSUME NEW failed, NEW again, Leave(w, failed, again)
        PROVE  Keeps(w) /\ alive' = alive /\ pc'[w] = "free"
    <3>1. req'[w] = [req[w] EXCEPT !.failed = failed, !.again = again]
      BY <2>1 DEF Leave
    <3> QED BY <1>0, <2>1, <3>1 DEF Leave
  <2>2. CASE Connect(w)
    BY <1>8, <2>2 DEF Connect
  <2>3. CASE ~Connect(w)
    BY <1>8, <2>1, <2>3 DEF Outcome, NoSocket, Decline, Finish, Fail, Refuse
  <2> QED BY <2>2, <2>3
<1>9. CASE ReadLockPeers(w)
  BY <1>9 DEF ReadLockPeers
<1>10. CASE LockPeer(w)
  BY <1>10 DEF LockPeer
<1>11. CASE Update(w)
  <2>1. CASE End(w)
    BY <1>11, <2>1 DEF Update, FreshRequest
  <2>2. CASE /\ req' = [req EXCEPT ![w] = [@ EXCEPT !.from = Group(w), !.cur = NoPeer,
                                                   !.tries = TriesLeft(w),
                                                   !.failed = FALSE, !.again = FALSE]]
             /\ Goto(w, "get")
    <3>1. req'[w].cur = NoPeer
      BY <1>0, <2>2
    <3> QED BY <1>11, <2>2, <3>1 DEF Update
  <2> QED BY <1>11, <2>1, <2>2 DEF Update
<1> QED BY <1>1, <1>2, <1>3, <1>4, <1>5, <1>6, <1>7, <1>8, <1>9, <1>10, <1>11 DEF Step

LEMMA CrashMoves ==
    ASSUME TypeOK, NEW w \in Workers, Crash(w)
    PROVE  /\ Keeps(w) /\ ~alive'[w] /\ UNCHANGED shared
           /\ pc'[w] = IF pc[w] \in Inside THEN pc[w] ELSE "idle"
           /\ \A x \in Workers \ {w} : view'[x] = view[x]
  BY DEF Crash, TypeOK, Goto, Forgets, Keeps, Group, FreshRequest, shared

LEMMA PlaceStep == IInv /\ [Next]_vars => PlaceInv'
<1> SUFFICES ASSUME IInv, [Next]_vars PROVE PlaceInv'
  OBVIOUS
<1>a. TypeOK /\ PlaceInv
  BY DEF IInv
<1>1. ASSUME NEW w \in Workers, Start(w) \/ Step(w) PROVE PlaceInv'
  BY <1>1, <1>a, OthersStay, StepMoves DEF PlaceInv, Moves, Keeps, Holding, Members, Group, Usable
<1>2. ASSUME NEW w \in Workers, Crash(w) PROVE PlaceInv'
  BY <1>2, <1>a, OthersStay, CrashMoves DEF PlaceInv, Keeps, Holding, Members, Group, Inside
<1>3. CASE Tick \/ UNCHANGED vars
  BY <1>3, <1>a DEF Tick, vars, PlaceInv, Members, Group, shared, history
<1> QED BY <1>1, <1>2, <1>3 DEF Next

LEMMA ViewStep == IInv /\ [Next]_vars => ViewInv'
<1> SUFFICES ASSUME IInv, [Next]_vars PROVE ViewInv'
  OBVIOUS
<1>a. TypeOK /\ Shape /\ ViewInv
  BY DEF IInv
<1>0. DOMAIN Unread = {}
  BY DEF Unread
<1>1. ASSUME NEW w \in Workers, Start(w) \/ Step(w) PROVE ViewInv'
  <2>1. \A x \in Workers \ {w} : view'[x] = view[x]
    BY <1>1, <1>a DEF Shape, Start, Step, LockPeers, Choose, GoToBackup, NoLivePeer, LockAgain, Revive, Outcome,
          NoSocket, Decline, Connect, Finish, Fail, Refuse, Leave, ReadLockPeers, LockPeer, Update,
          Forgets, Reads
  <2>2. ASSUME NEW x \in Workers \ {w} PROVE DOMAIN view'[x] = Seen(x)'
    BY <1>1, <1>a, <2>1, <2>2, OthersStay DEF ViewInv, Seen, Members, Group
  <2>3. DOMAIN view'[w] = Seen(w)'
    <3> USE <1>a DEF Shape, ViewInv, Seen, Moves, Keeps, Forgets, Reads, Members, Group
    <3>1. up' = up
      BY <1>1, OthersStay
    <3>2. CASE LockPeers(w)
      BY <3>1, <3>2 DEF LockPeers, At, Goto, TypeOK
    <3>5. CASE LockAgain(w)
      BY <3>1, <3>5 DEF LockAgain, At, Goto, TypeOK
    <3>6. CASE LockPeer(w)
      BY <3>1, <3>6 DEF LockPeer, At, Goto, TypeOK
    <3>3. CASE Choose(w) \/ GoToBackup(w) \/ NoLivePeer(w) \/ Revive(w) \/ Update(w)
      <4>1. view'[w] = Unread
        BY <3>3 DEF Choose, GoToBackup, NoLivePeer, Revive, Update
      <4>2. pc'[w] \notin {"choose", "revive", "update"}
        BY <3>3 DEF Choose, GoToBackup, NoLivePeer, Revive, Update, Goto, End, TypeOK
      <4> QED BY <1>0, <4>1, <4>2
    <3>4. CASE Start(w) \/ Outcome(w) \/ ReadLockPeers(w)
      <4>1. view'[w] = view[w]
        BY <3>4 DEF Start, Outcome, NoSocket, Decline, Connect, Finish, Fail, Refuse, Leave,
              ReadLockPeers
      <4>2. {pc[w], pc'[w]} \cap {"choose", "revive", "update"} = {}
        BY <3>4 DEF Start, Outcome, NoSocket, Decline, Connect, Finish, Fail, Refuse, Leave,
              ReadLockPeers, At, Goto, TypeOK
      <4> QED BY <4>1, <4>2
    <3> QED BY <1>1, <3>2, <3>3, <3>4, <3>5, <3>6 DEF Step
  <2> QED BY <2>2, <2>3 DEF ViewInv
<1>2. ASSUME NEW w \in Workers, Crash(w) PROVE ViewInv'
  <2>1. DOMAIN view'[w] = {} /\ up' = up /\ ~alive'[w]
    BY <1>0, <1>2, <1>a DEF Shape, Crash, Forgets, TypeOK
  <2>2. ASSUME NEW x \in Workers \ {w} PROVE DOMAIN view'[x] = Seen(x)'
    BY <1>2, <1>a, <2>1, <2>2, OthersStay, CrashMoves DEF ViewInv, Seen, Members, Group
  <2> QED BY <2>1, <2>2 DEF ViewInv, Seen
<1>3. CASE Tick \/ UNCHANGED vars
  BY <1>3, <1>a DEF Tick, vars, ViewInv, Seen, Members, Group, shared, history
<1> QED BY <1>1, <1>2, <1>3 DEF Next

-----------------------------------------------------------------------------
(* The locks *)

Writes(w, g) == (pc[w] = "choose" /\ Group(w) = g) \/ (pc[w] = "revive" /\ g = "primary")
IsReading(w, g) == pc[w] \in {"lockpeer", "update"} /\ Group(w) = g

(* How the sets of those inside change when one worker moves. *)
LEMMA OneMoves ==
    ASSUME TypeOK, NEW w \in Workers, Start(w) \/ Step(w) \/ Crash(w), NEW g \in Groups
    PROVE  /\ Writers(g)' = IF Writes(w, g)' THEN Writers(g) \cup {w} ELSE Writers(g) \ {w}
           /\ Readers(g)' = IF IsReading(w, g)' THEN Readers(g) \cup {w} ELSE Readers(g) \ {w}
  BY OthersStay DEF Writers, Readers, Writes, IsReading, Group

LEMMA GroupLockStep == IInv /\ [Next]_vars => GroupLockInv'
<1> SUFFICES ASSUME IInv, [Next]_vars PROVE GroupLockInv'
  OBVIOUS
<1>a. TypeOK /\ GroupLockInv
  BY DEF IInv
<1>r. \A g \in Groups : IsFiniteSet(Readers(g)) /\ Cardinality(Readers(g)) \in Nat
  BY Constants, FS_Subset, FS_CardinalityType DEF Readers
<1>e. Cardinality({}) = 0
  BY FS_EmptySet
<1>s. ASSUME NEW g \in Groups, Writers(g)' = Writers(g), Readers(g)' = Readers(g), rwlock'[g] = rwlock[g]
      PROVE  (Written(g) \/ Read(g))'
  BY <1>a, <1>s DEF GroupLockInv, Written, Read
<1>1. ASSUME NEW w \in Workers, LockPeers(w) \/ LockAgain(w) PROVE GroupLockInv'
  <2>1. PICK h \in Groups :
           /\ rwlock[h] = FreeWord /\ rwlock' = [rwlock EXCEPT ![h] = WriteWord]
           /\ \A g \in Groups : /\ Writes(w, g)' <=> g = h
                                /\ ~IsReading(w, g)' /\ ~Writes(w, g) /\ ~IsReading(w, g)
    <3>1. CASE LockPeers(w)
      <4>1. Group(w) \in Groups
        BY <1>a DEF TypeOK, RequestData, Group
      <4> QED BY <1>a, <3>1, <4>1 DEF LockPeers, At, Goto, CanWrite, Wlock, Writes, IsReading, TypeOK, Group
    <3>2. CASE LockAgain(w)
      BY <1>a, <3>2 DEF LockAgain, At, Goto, CanWrite, Wlock, Writes, IsReading, TypeOK, Groups, Group
    <3> QED BY <1>1, <3>1, <3>2
  <2>2. ASSUME NEW g \in Groups, g # h PROVE (Written(g) \/ Read(g))'
    <3>1. Writers(g)' = Writers(g) /\ Readers(g)' = Readers(g)
      BY <1>1, <1>a, <2>1, <2>2, OneMoves DEF Step, Writers, Readers, Writes, IsReading
    <3>2. rwlock'[g] = rwlock[g]
      BY <1>a, <2>1, <2>2 DEF TypeOK
    <3> QED BY <1>s, <3>1, <3>2
  <2>3. (Written(h) \/ Read(h))'
    <3>1. Writers(h)' = Writers(h) \cup {w} /\ Readers(h)' = Readers(h)
      BY <1>1, <1>a, <2>1, OneMoves DEF Step, Readers, IsReading
    <3>2. Cardinality(Readers(h)) = 0 /\ Writers(h) = {}
      BY <1>a, <2>1 DEF GroupLockInv, Written, Read, FreeWord, WriteWord
    <3>3. Readers(h) = {}
      BY <1>r, <3>2, FS_EmptySet
    <3> QED BY <1>a, <2>1, <3>1, <3>2, <3>3 DEF Written, TypeOK
  <2> QED BY <2>2, <2>3 DEF GroupLockInv
<1>2. ASSUME NEW w \in Workers, Choose(w) \/ GoToBackup(w) \/ NoLivePeer(w) \/ Revive(w)
      PROVE  GroupLockInv'
  <2>1. PICK h \in Groups :
           /\ w \in Writers(h) /\ rwlock' = [rwlock EXCEPT ![h] = Unlock(@)]
           /\ \A g \in Groups : /\ Writes(w, g) <=> g = h
                                /\ ~IsReading(w, g)' /\ ~Writes(w, g)' /\ ~IsReading(w, g)
    <3>1. Group(w) \in Groups
      BY <1>a DEF TypeOK, RequestData, Group
    <3>2. pc'[w] \notin {"choose", "revive", "lockpeer", "update"}
      BY <1>2, <1>a DEF Choose, GoToBackup, NoLivePeer, Revive, Goto, End, TypeOK
    <3>3. CASE Revive(w)
      BY <3>2, <3>3 DEF Revive, At, Writers, Writes, IsReading, Groups
    <3>4. CASE Choose(w) \/ GoToBackup(w) \/ NoLivePeer(w)
      BY <3>1, <3>2, <3>4 DEF Choose, GoToBackup, NoLivePeer, Unlocks, At, Writers, Writes, IsReading
    <3> QED BY <1>2, <3>3, <3>4
  <2>2. ASSUME NEW g \in Groups, g # h PROVE (Written(g) \/ Read(g))'
    <3>1. Writers(g)' = Writers(g) /\ Readers(g)' = Readers(g)
      BY <1>2, <1>a, <2>1, <2>2, OneMoves DEF Step, Writers, Readers, Writes, IsReading
    <3>2. rwlock'[g] = rwlock[g]
      BY <1>a, <2>1, <2>2 DEF TypeOK
    <3> QED BY <1>s, <3>1, <3>2
  <2>3. (Written(h) \/ Read(h))'
    <3>1. rwlock[h] = WriteWord /\ Readers(h) = {} /\ Writers(h) = {w}
      BY <1>a, <2>1 DEF GroupLockInv, Written, Read
    <3>2. Writers(h)' = {} /\ Readers(h)' = {}
      BY <1>2, <1>a, <2>1, <3>1, OneMoves DEF Step
    <3>3. rwlock'[h] = 0
      BY <1>a, <2>1, <3>1 DEF TypeOK, Unlock, FreeWord
    <3> QED BY <1>e, <3>2, <3>3 DEF Read
  <2> QED BY <2>2, <2>3 DEF GroupLockInv
<1>3. ASSUME NEW w \in Workers, ReadLockPeers(w) PROVE GroupLockInv'
  <2>1. PICK h \in Groups :
           /\ rwlock[h] # WriteWord /\ rwlock' = [rwlock EXCEPT ![h] = @ + 1] /\ w \notin Readers(h)
           /\ \A g \in Groups : /\ IsReading(w, g)' <=> g = h
                                /\ ~IsReading(w, g) /\ ~Writes(w, g) /\ ~Writes(w, g)'
    <3>1. Group(w) \in Groups
      BY <1>a DEF TypeOK, RequestData, Group
    <3> QED BY <1>3, <1>a, <3>1 DEF ReadLockPeers, CanRead, Rlock, At, Goto, Readers, Writes, IsReading,
               TypeOK, Group
  <2>2. ASSUME NEW g \in Groups, g # h PROVE (Written(g) \/ Read(g))'
    <3>1. Writers(g)' = Writers(g) /\ Readers(g)' = Readers(g)
      BY <1>3, <1>a, <2>1, <2>2, OneMoves DEF Step, Writers, Readers, Writes, IsReading
    <3>2. rwlock'[g] = rwlock[g]
      BY <1>a, <2>1, <2>2 DEF TypeOK
    <3> QED BY <1>s, <3>1, <3>2
  <2>3. (Written(h) \/ Read(h))'
    <3>1. rwlock[h] = Cardinality(Readers(h)) /\ Writers(h) = {}
      BY <1>a, <2>1 DEF GroupLockInv, Written, Read
    <3>2. Writers(h)' = {} /\ Readers(h)' = Readers(h) \cup {w}
      BY <1>3, <1>a, <2>1, <3>1, OneMoves DEF Step
    <3>3. Cardinality(Readers(h) \cup {w}) = Cardinality(Readers(h)) + 1
      BY <1>r, <2>1, FS_AddElement
    <3> QED BY <1>a, <2>1, <3>1, <3>2, <3>3 DEF Read, TypeOK
  <2> QED BY <2>2, <2>3 DEF GroupLockInv
<1>4. ASSUME NEW w \in Workers, Update(w) PROVE GroupLockInv'
  <2>1. PICK h \in Groups :
           /\ w \in Readers(h) /\ rwlock' = [rwlock EXCEPT ![h] = Unlock(@)]
           /\ \A g \in Groups : /\ IsReading(w, g) <=> g = h
                                /\ ~IsReading(w, g)' /\ ~Writes(w, g) /\ ~Writes(w, g)'
    <3>1. Group(w) \in Groups
      BY <1>a DEF TypeOK, RequestData, Group
    <3>2. pc'[w] \in {"get", "idle"} /\ pc[w] = "update"
      BY <1>4, <1>a DEF Update, At, Goto, End, TypeOK
    <3> QED BY <1>4, <3>1, <3>2 DEF Update, Unlocks, Readers, Writes, IsReading
  <2>2. ASSUME NEW g \in Groups, g # h PROVE (Written(g) \/ Read(g))'
    <3>1. Writers(g)' = Writers(g) /\ Readers(g)' = Readers(g)
      BY <1>4, <1>a, <2>1, <2>2, OneMoves DEF Step, Writers, Readers, Writes, IsReading
    <3>2. rwlock'[g] = rwlock[g]
      BY <1>a, <2>1, <2>2 DEF TypeOK
    <3> QED BY <1>s, <3>1, <3>2
  <2>3. (Written(h) \/ Read(h))'
    <3>1. rwlock[h] = Cardinality(Readers(h)) /\ Writers(h) = {}
      BY <1>a, <2>1 DEF GroupLockInv, Written, Read
    <3>2. Writers(h)' = {} /\ Readers(h)' = Readers(h) \ {w}
      BY <1>4, <1>a, <2>1, <3>1, OneMoves DEF Step
    <3>3. Cardinality(Readers(h) \ {w}) = Cardinality(Readers(h)) - 1
      BY <1>r, <2>1, FS_RemoveElement
    <3>4. rwlock'[h] = rwlock[h] - 1
      BY <1>a, <1>r, <2>1, <3>1 DEF TypeOK, Unlock, WriteWord
    <3> QED BY <3>1, <3>2, <3>3, <3>4 DEF Read
  <2> QED BY <2>2, <2>3 DEF GroupLockInv
<1>5. ASSUME NEW w \in Workers, Start(w) \/ Outcome(w) \/ LockPeer(w) \/ Crash(w) PROVE GroupLockInv'
  <2>1. rwlock' = rwlock
    BY <1>5 DEF Start, Outcome, NoSocket, Decline, Connect, Finish, Fail, Refuse, Leave, LockPeer,
          Crash, shared
  <2>2. ASSUME NEW g \in Groups PROVE Writes(w, g)' = Writes(w, g) /\ IsReading(w, g)' = IsReading(w, g)
    <3>1. CASE Crash(w)
      BY <1>a, <3>1, CrashMoves DEF Keeps, Inside, Writes, IsReading
    <3>2. CASE LockPeer(w)
      BY <1>a, <3>2 DEF LockPeer, At, Goto, Writes, IsReading, Group, TypeOK
    <3>3. CASE Start(w) \/ Outcome(w)
      <4>1. {pc[w], pc'[w]} \cap {"choose", "revive", "lockpeer", "update"} = {}
        BY <1>a, <3>3 DEF Start, Outcome, NoSocket, Decline, Connect, Finish, Fail, Refuse, Leave,
              At, Goto, TypeOK
      <4> QED BY <4>1 DEF Writes, IsReading
    <3> QED BY <1>5, <3>1, <3>2, <3>3
  <2>3. ASSUME NEW g \in Groups PROVE (Written(g) \/ Read(g))'
    <3>1. Writers(g)' = Writers(g) /\ Readers(g)' = Readers(g)
      BY <1>5, <1>a, <2>2, OneMoves DEF Step, Writers, Readers, Writes, IsReading
    <3> QED BY <1>s, <2>1, <3>1
  <2> QED BY <2>3 DEF GroupLockInv
<1>6. CASE Tick \/ UNCHANGED vars
  <2>1. rwlock' = rwlock /\ \A g \in Groups : Writers(g)' = Writers(g) /\ Readers(g)' = Readers(g)
    BY <1>6 DEF Tick, vars, shared, Writers, Readers, Group
  <2> QED BY <1>s, <2>1 DEF GroupLockInv
<1> QED BY <1>1, <1>2, <1>3, <1>4, <1>5, <1>6 DEF Next, Step

LEMMA PeerLockStep == IInv /\ [Next]_vars => PeerLockInv'
<1> SUFFICES ASSUME IInv, [Next]_vars PROVE PeerLockInv'
  OBVIOUS
<1>a. TypeOK /\ PeerLockInv /\ PlaceInv
  BY DEF IInv
<1>1. ASSUME NEW w \in Workers, LockPeer(w) PROVE PeerLockInv'
  <2>1. /\ lock[req[w].cur] = FreeWord /\ req[w].cur \in Peers
        /\ lock' = [lock EXCEPT ![req[w].cur] = WriteWord] /\ req' = req
        /\ pc' = [pc EXCEPT ![w] = "update"] /\ pc[w] = "lockpeer"
    BY <1>1, <1>a, GroupsApart DEF LockPeer, PeerIsFree, CanWrite, Wlock, TypeOK, PlaceInv, Holding,
          RequestData, Group, At, Goto
  <2> QED BY <1>a, <2>1 DEF PeerLockInv, TypeOK, FreeWord, WriteWord
<1>2. ASSUME NEW w \in Workers, Update(w) PROVE PeerLockInv'
  <2>1. /\ pc[w] = "update" /\ pc'[w] # "update" /\ lock' = [lock EXCEPT ![req[w].cur] = Unlock(@)]
    BY <1>2, <1>a DEF Update, At, Goto, End, TypeOK
  <2>2. \A x \in Workers \ {w} : pc'[x] = pc[x] /\ req'[x] = req[x]
    BY <1>2, <1>a, OthersStay DEF Step
  <2> QED BY <1>a, <2>1, <2>2 DEF PeerLockInv, TypeOK
<1>3. ASSUME NEW w \in Workers, Start(w) \/ Step(w) \/ Crash(w), ~LockPeer(w), ~Update(w)
      PROVE  PeerLockInv'
  <2>1. lock' = lock
    BY <1>3 DEF Start, Step, Crash, LockPeers, Choose, GoToBackup, NoLivePeer, LockAgain, Revive,
          Outcome, NoSocket, Decline, Connect, Finish, Fail, Refuse, Leave, ReadLockPeers, shared
  <2>2. pc'[w] = "update" => pc[w] = "update" /\ req'[w].cur = req[w].cur
    BY <1>3, <1>a, StepMoves, CrashMoves DEF Moves, Keeps, Inside
  <2> QED BY <1>3, <1>a, <2>1, <2>2, OthersStay DEF PeerLockInv
<1>4. CASE Tick \/ UNCHANGED vars
  BY <1>4, <1>a DEF Tick, vars, shared, PeerLockInv
<1> QED BY <1>1, <1>2, <1>3, <1>4 DEF Next, Step

-----------------------------------------------------------------------------
(* What a critical section reads stays true *)

(* No one else reads what a writer of a group may write. *)
LEMMA WriterIsAlone ==
    ASSUME IInv, NEW h \in Groups, NEW x \in Workers, Writes(x, h),
           NEW y \in Workers \ {x}, NEW p \in Members(h)
    PROVE  p \notin Seen(y)
<1>1. TypeOK /\ PlaceInv
  BY DEF IInv
<1>2. Writers(h) = {x} /\ Readers(h) = {}
  BY DEF IInv, GroupLockInv, Written, Read, Writers, Writes
<1>3. \A g \in Groups \ {h} : p \notin Members(g)
  BY <1>1, GroupsApart DEF Groups
<1>4. Group(y) \in Groups
  BY <1>1 DEF TypeOK, RequestData, Group
<1>5. CASE pc[y] = "choose"
  BY <1>2, <1>3, <1>4, <1>5 DEF Seen, Writers
<1>6. CASE pc[y] = "revive"
  BY <1>2, <1>3, <1>6 DEF Seen, Writers, Groups
<1>7. CASE pc[y] = "update"
  <2>1. req[y].cur \in Members(Group(y))
    BY <1>1, <1>7 DEF PlaceInv, Holding
  <2> QED BY <1>2, <1>3, <1>4, <1>7, <2>1 DEF Seen, Readers
<1> QED BY <1>5, <1>6, <1>7 DEF Seen

(* Nor what the owner of the lock of a peer may write. *)
LEMMA OwnerIsAlone ==
    ASSUME IInv, NEW x \in Workers, pc[x] = "update", NEW y \in Workers \ {x}
    PROVE  req[x].cur \notin Seen(y)
<1>1. TypeOK /\ PlaceInv
  BY DEF IInv
<1>2. req[x].cur \in Members(Group(x)) /\ Group(x) \in Groups
  BY <1>1 DEF PlaceInv, Holding, TypeOK, RequestData, Group
<1>3. Writers(Group(x)) = {}
  BY <1>2 DEF IInv, GroupLockInv, Written, Read, Readers
<1>4. \A g \in Groups \ {Group(x)} : req[x].cur \notin Members(g)
  BY <1>1, <1>2, GroupsApart DEF Groups
<1>5. Group(y) \in Groups
  BY <1>1 DEF TypeOK, RequestData, Group
<1>6. CASE pc[y] = "choose"
  BY <1>3, <1>4, <1>5, <1>6 DEF Seen, Writers
<1>7. CASE pc[y] = "revive"
  BY <1>2, <1>3, <1>4, <1>7 DEF Seen, Writers, Groups
<1>8. CASE pc[y] = "update"
  BY <1>8 DEF IInv, PeerLockInv, Seen
<1> QED BY <1>6, <1>7, <1>8 DEF Seen

LEMMA FreshStep == IInv /\ [Next]_vars => ViewIsFresh'
<1> SUFFICES ASSUME IInv, [Next]_vars PROVE ViewIsFresh'
  OBVIOUS
<1>a. TypeOK /\ Shape /\ ViewInv /\ ViewIsFresh
  BY DEF IInv
<1>0. DOMAIN Unread = {}
  BY DEF Unread
<1>1. ASSUME NEW w \in Workers, LockPeers(w) \/ LockAgain(w) \/ LockPeer(w) PROVE ViewIsFresh'
  <2>1. peer' = peer /\ \E S \in SUBSET Peers : Reads(w, S)
    <3>1. Members(Group(w)) \subseteq Peers /\ Members("primary") \subseteq Peers
      BY <1>a, GroupsApart DEF TypeOK, RequestData, Group, Groups
    <3>2. pc[w] = "lockpeer" => req[w].cur \in Members(Group(w))
      BY DEF IInv, PlaceInv, Holding
    <3> QED BY <1>1, <3>1, <3>2 DEF LockPeers, LockAgain, LockPeer, At
  <2> QED BY <1>a, <2>1 DEF ViewIsFresh, Shape, Reads
<1>2. ASSUME NEW w \in Workers, Choose(w) \/ GoToBackup(w) \/ NoLivePeer(w) \/ Revive(w) \/ Update(w)
      PROVE  ViewIsFresh'
  <2>1. view' = [view EXCEPT ![w] = Unread]
    BY <1>2 DEF Choose, GoToBackup, NoLivePeer, Revive, Update, Forgets
  <2>2. ASSUME NEW y \in Workers \ {w}, NEW p \in Seen(y) PROVE peer'[p] = peer[p]
    <3>1. p \in Peers
      BY <1>a, <2>2, GroupsApart DEF IInv, PlaceInv, Holding, Seen, TypeOK, RequestData, Group, Groups
    <3>2. Group(w) \in Groups
      BY <1>a DEF TypeOK, RequestData, Group
    <3>3. CASE Choose(w)
      <4>1. p \notin Members(Group(w))
        BY <2>2, <3>2, <3>3, WriterIsAlone DEF Choose, At, Writes
      <4> QED BY <3>1, <3>3, <4>1 DEF Choose, Usable
    <3>4. CASE GoToBackup(w)
      BY <3>4 DEF GoToBackup
    <3>5. CASE NoLivePeer(w)
      <4>1. p \notin Members(Group(w))
        BY <2>2, <3>2, <3>5, WriterIsAlone DEF NoLivePeer, At, Writes
      <4> QED BY <3>1, <3>5, <4>1 DEF NoLivePeer, Revived
    <3>6. CASE Revive(w)
      <4>1. p \notin Members("primary")
        BY <2>2, <3>6, WriterIsAlone DEF Revive, At, Writes, Groups
      <4> QED BY <3>1, <3>6, <4>1 DEF Revive, Revived
    <3>7. CASE Update(w)
      <4>1. p # req[w].cur
        BY <2>2, <3>7, OwnerIsAlone DEF Update, At
      <4> QED BY <3>1, <3>7, <4>1, <1>a DEF Update, Shape
    <3> QED BY <1>2, <3>3, <3>4, <3>5, <3>6, <3>7
  <2> QED BY <1>0, <1>a, <2>1, <2>2 DEF ViewIsFresh, ViewInv, Shape
<1>3. ASSUME NEW w \in Workers, Start(w) \/ Outcome(w) \/ ReadLockPeers(w) PROVE ViewIsFresh'
  <2>1. peer' = peer /\ view' = view
    BY <1>3 DEF Start, Outcome, NoSocket, Decline, Connect, Finish, Fail, Refuse, Leave,
          ReadLockPeers, shared
  <2> QED BY <1>a, <2>1 DEF ViewIsFresh
<1>4. ASSUME NEW w \in Workers, Crash(w) PROVE ViewIsFresh'
  <2>1. peer' = peer /\ view' = [view EXCEPT ![w] = Unread]
    BY <1>4 DEF Crash, Forgets, shared
  <2> QED BY <1>0, <1>a, <2>1 DEF ViewIsFresh, Shape
<1>5. CASE Tick \/ UNCHANGED vars
  <2>1. peer' = peer /\ view' = view
    BY <1>5 DEF Tick, vars, shared
  <2> QED BY <1>a, <2>1 DEF ViewIsFresh
<1> QED BY <1>1, <1>2, <1>3, <1>4, <1>5 DEF Next, Step

-----------------------------------------------------------------------------
(* The count of the requests that hold a peer *)

Holders(p) == {w \in Workers : req[w].cur = p}

LEMMA ConnsStep == IInv /\ [Next]_vars => ConnsAreHeld'
<1> SUFFICES ASSUME IInv, [Next]_vars PROVE ConnsAreHeld'
  OBVIOUS
<1>a. TypeOK /\ Shape /\ PlaceInv /\ ConnsAreHeld
  BY DEF IInv
<1>f. \A p \in Peers : IsFiniteSet(Holders(p))
  BY Constants, FS_Subset DEF Holders
<1>n. NoPeer \notin Peers
  BY <1>a, GroupsApart
<1>s. ASSUME \A p \in Peers : peer'[p].conns = peer[p].conns,
             \A w \in Workers : req'[w].cur = req[w].cur
      PROVE  ConnsAreHeld'
  <2>1. \A p \in Peers : Holders(p)' = Holders(p)
    BY <1>s DEF Holders
  <2> QED BY <1>a, <1>s, <2>1 DEF ConnsAreHeld, Holders
<1>1. ASSUME NEW w \in Workers, Choose(w) PROVE ConnsAreHeld'
  <2>1. PICK best \in Usable(w) :
           /\ peer' = [p \in Peers |->
                         IF p \notin Usable(w) THEN peer[p]
                         ELSE IF Single THEN [view[w][p] EXCEPT !.conns = @ + 1]
                         ELSE Weighed(p, best, Usable(w), view[w], now[w])]
           /\ req' = [req EXCEPT ![w].cur = best,
                                 ![w].tried = IF Single THEN @ ELSE @ \cup {best}]
    BY <1>1 DEF Choose
  <2>2. req'[w].cur = best /\ \A x \in Workers \ {w} : req'[x] = req[x]
    BY <1>a, <2>1 DEF TypeOK, RequestData
  <2>3. w \notin Holders(best) /\ req[w].cur = NoPeer /\ best \in Peers /\ best \in Members(Group(w))
    BY <1>1, <1>a, <1>n, GroupsApart DEF Holders, Choose, At, PlaceInv, Usable, TypeOK, RequestData, Group
  <2>4. ASSUME NEW p \in Peers PROVE peer'[p].conns = IF p = best THEN peer[p].conns + 1 ELSE peer[p].conns
    <3>1. CASE p \notin Usable(w)
      BY <2>1, <3>1
    <3>2. CASE p \in Usable(w)
      <4>1. view[w][p] = peer[p] /\ DOMAIN peer[p] = Fields
        BY <1>1, <1>a, <3>2 DEF IInv, ViewIsFresh, ViewInv, Seen, Usable, Choose, At, Shape
      <4>2. CASE Single
        <5>1. p = best
          <6>1. up["primary"] \in Seq(Peers) /\ up["backup"] = <<>> /\ Len(up["primary"]) = 1
            BY <1>a, <4>2, UpstreamAssumption DEF UpstreamAssumption, TypeOK, Groups, Single
          <6>2. Members("primary") = {up["primary"][1]} /\ Members("backup") = {}
            BY <6>1 DEF Members, Range
          <6>3. p \in Members(Group(w)) /\ Group(w) \in Groups
            BY <1>a, <3>2 DEF Usable, TypeOK, RequestData, Group
          <6> QED BY <2>3, <6>2, <6>3 DEF Groups
        <5>2. peer'[p] = [peer[p] EXCEPT !.conns = @ + 1]
          BY <2>1, <3>2, <4>1, <4>2
        <5> QED BY <4>1, <5>1, <5>2 DEF Fields
      <4>3. CASE ~Single
        <5>1. peer'[p] = Weighed(p, best, Usable(w), view[w], now[w])
          BY <2>1, <3>2, <4>3
        <5> DEFINE c == Raised(p, view[w]) - (IF p = best THEN Toll(p, Usable(w), view[w]) ELSE 0)
                   k == IF p = best THEN CheckedAt(p, view[w], now[w]) ELSE peer[p].checked
        <5>2. peer'[p] = [peer[p] EXCEPT !.effective = IF @ < Weight[p] THEN @ + 1 ELSE @,
                                        !.current = c, !.checked = k,
                                        !.conns = IF p = best THEN @ + 1 ELSE @]
          BY <4>1, <5>1 DEF Weighed
        <5> HIDE DEF c, k
        <5> QED BY <4>1, <5>2 DEF Fields
      <4> QED BY <4>2, <4>3
    <3> QED BY <3>1, <3>2
  <2>5. ASSUME NEW p \in Peers PROVE peer'[p].conns = Cardinality(Holders(p)')
    <3>1. CASE p = best
      <4>1. Holders(p)' = Holders(p) \cup {w}
        BY <2>2, <3>1 DEF Holders
      <4>2. Cardinality(Holders(p) \cup {w}) = Cardinality(Holders(p)) + 1
        BY <1>f, <2>3, <3>1, FS_AddElement
      <4> QED BY <1>a, <2>4, <3>1, <4>1, <4>2 DEF ConnsAreHeld, Holders
    <3>2. CASE p # best
      <4>1. Holders(p)' = Holders(p)
        BY <1>n, <2>2, <2>3, <3>2 DEF Holders
      <4> QED BY <1>a, <2>4, <3>2, <4>1 DEF ConnsAreHeld, Holders
    <3> QED BY <3>1, <3>2
  <2> QED BY <2>5 DEF ConnsAreHeld, Holders
<1>2. ASSUME NEW w \in Workers, Update(w) PROVE ConnsAreHeld'
  <2> DEFINE p == req[w].cur
  <2>1. p \in Peers /\ view[w][p] = peer[p] /\ DOMAIN peer[p] = Fields
    BY <1>2, <1>a, UpdateReads DEF IInv, Shape
  <2>2. peer' = [peer EXCEPT ![p] = GivenBack(p, peer[p], req[w].failed, now[w])]
    BY <1>2, <2>1 DEF Update
  <2>3. req'[w].cur = NoPeer /\ \A x \in Workers \ {w} : req'[x] = req[x]
    BY <1>2, <1>a, StepMoves, OthersStay DEF Step, Update, At, Moves
  <2>4. ASSUME NEW q \in Peers PROVE peer'[q].conns = IF q = p THEN peer[q].conns - 1 ELSE peer[q].conns
    BY <1>a, <2>1, <2>2 DEF GivenBack, Fields, Shape
  <2>5. ASSUME NEW q \in Peers PROVE peer'[q].conns = Cardinality(Holders(q)')
    <3>1. CASE q = p
      <4>1. Holders(q)' = Holders(q) \ {w} /\ w \in Holders(q)
        BY <1>n, <2>3, <3>1 DEF Holders
      <4>2. Cardinality(Holders(q) \ {w}) = Cardinality(Holders(q)) - 1
        BY <1>f, <4>1, FS_RemoveElement
      <4> QED BY <1>a, <2>4, <3>1, <4>1, <4>2 DEF ConnsAreHeld, Holders
    <3>2. CASE q # p
      <4>1. Holders(q)' = Holders(q)
        BY <1>n, <2>3, <3>2 DEF Holders
      <4> QED BY <1>a, <2>4, <3>2, <4>1 DEF ConnsAreHeld, Holders
    <3> QED BY <3>1, <3>2
  <2> QED BY <2>5 DEF ConnsAreHeld, Holders
<1>3. ASSUME NEW w \in Workers, Start(w) \/ Step(w), ~Choose(w), ~Update(w) PROVE ConnsAreHeld'
  <2>1. \A p \in Peers : peer'[p].conns = peer[p].conns
    <3>1. CASE NoLivePeer(w) \/ Revive(w)
      BY <1>a, <3>1 DEF NoLivePeer, Revive, Revived, Shape, Fields
    <3>2. CASE ~NoLivePeer(w) /\ ~Revive(w)
      BY <1>3, <3>2 DEF Start, Step, LockPeers, GoToBackup, LockAgain, Outcome, NoSocket, Decline,
            Connect, Finish, Fail, Refuse, Leave, ReadLockPeers, LockPeer, shared
    <3> QED BY <3>1, <3>2
  <2>2. req'[w].cur = req[w].cur
    BY <1>3, <1>a, StepMoves DEF Moves, Keeps, PlaceInv
  <2> QED BY <1>3, <1>a, <1>s, <2>1, <2>2, OthersStay
<1>4. ASSUME NEW w \in Workers, Crash(w) PROVE ConnsAreHeld'
  BY <1>4, <1>a, <1>s, CrashMoves, OthersStay DEF Keeps, shared
<1>5. CASE Tick \/ UNCHANGED vars
  BY <1>5, <1>s DEF Tick, vars, shared
<1> QED BY <1>1, <1>2, <1>3, <1>4, <1>5 DEF Next

-----------------------------------------------------------------------------
(* The inductive invariant *)

LEMMA Kept == IInv /\ [Next]_vars => IInv'
  BY TypeStep, PlaceStep, ViewStep, GroupLockStep, PeerLockStep, FreshStep, ConnsStep DEF IInv

LEMMA Inductive == Spec => []IInv
<1>1. Init => IInv
  <2> SUFFICES ASSUME Init PROVE IInv
    OBVIOUS
  <2>0. DOMAIN Unread = {} /\ Cardinality({}) = 0
    BY FS_EmptySet DEF Unread
  <2>1. TypeOK /\ Shape
    BY TypeInit
  <2>2. \A w \in Workers : pc[w] = "idle" /\ req[w].cur = NoPeer /\ view[w] = Unread
    BY DEF Init, FreshRequest
  <2>3. PlaceInv /\ ViewInv /\ PeerLockInv /\ ViewIsFresh
    BY <2>0, <2>2 DEF PlaceInv, ViewInv, PeerLockInv, ViewIsFresh, Holding, Seen
  <2>4. GroupLockInv
    <3>1. \A g \in Groups : Readers(g) = {} /\ Writers(g) = {} /\ rwlock[g] = 0
      BY <2>2 DEF Readers, Writers, Init, FreeWord
    <3> QED BY <2>0, <3>1 DEF GroupLockInv, Read
  <2>5. ConnsAreHeld
    <3>1. ASSUME NEW p \in Peers PROVE {w \in Workers : req[w].cur = p} = {}
      BY <2>1, <2>2, GroupsApart
    <3>2. \A p \in Peers : peer[p].conns = 0
      BY DEF Init
    <3> QED BY <2>0, <3>1, <3>2 DEF ConnsAreHeld
  <2> QED BY <2>1, <2>3, <2>4, <2>5 DEF IInv
<1> QED BY <1>1, Kept, PTL DEF Spec

-----------------------------------------------------------------------------
(* Probes of a peer that is disabled *)

(* The cached time of a worker that runs is not far behind the clock. *)
ClockInv ==
    /\ time > 0
    /\ \A w \in Workers :
          /\ now[w] <= time
          /\ (alive[w] /\ now[w] > 0) => time - now[w] <= Lag
          /\ (alive[w] /\ pc[w] \notin {"idle", "connected"}) => now[w] > 0

(* A request that probes holds the peer, and nothing has moved the time of   *)
(* its last check back by more than the clocks differ.                       *)
ProbeInv ==
    /\ probe \in [Workers -> Nat]
    /\ \A w \in Workers :
          /\ probe[w] <= time
          /\ probe[w] > 0 => /\ pc[w] \in Holding
                             /\ peer[req[w].cur].checked >= probe[w] - Lag

LEMMA Clocks == FailTimeout \in Nat /\ Lag \in Nat /\ MaxTime \in Nat
  BY UpstreamAssumption DEF UpstreamAssumption

LEMMA ClockStep == IInv /\ ClockInv /\ [Next]_vars => ClockInv'
<1> SUFFICES ASSUME IInv, ClockInv, [Next]_vars PROVE ClockInv'
  OBVIOUS
<1>a. /\ time \in Nat /\ now \in [Workers -> Nat] /\ TypeOK
      /\ alive \in [Workers -> BOOLEAN]
  BY DEF IInv, TypeOK
<1> USE <1>a, Clocks DEF ClockInv
<1>1. ASSUME Tick PROVE ClockInv'
  BY <1>1 DEF Tick
<1>2. ASSUME UNCHANGED vars PROVE ClockInv'
  BY <1>2 DEF vars, clock
<1>3. ASSUME NEW w \in Workers, time' = time, \A x \in Workers \ {w} : /\ now'[x] = now[x]
                                       /\ alive'[x] = alive[x] /\ pc'[x] = pc[x],
             \/ now'[w] = now[w] /\ (alive'[w] => alive[w] /\ pc[w] \notin {"idle", "connected"})
             \/ now'[w] = time
             \/ now'[w] = 0 /\ (~alive'[w] \/ pc'[w] \in {"idle", "connected"})
      PROVE  ClockInv'
  BY <1>3
<1>4. ASSUME NEW w \in Workers, Start(w) \/ Step(w) PROVE ClockInv'
  <2>1. /\ time' = time /\ alive' = alive
        /\ \A x \in Workers \ {w} : now'[x] = now[x] /\ pc'[x] = pc[x]
    BY <1>4, StepMoves, OthersStay DEF Start, Step, LockPeers, Choose, GoToBackup, NoLivePeer, LockAgain, Revive, Outcome,
          NoSocket, Decline, Connect, Finish, Fail, Refuse, Leave, ReadLockPeers, LockPeer, Update,
          End, UpdateTime, clock
  <2>2. CASE Start(w) \/ Finish(w) \/ Fail(w) \/ Refuse(w)
    <3>1. now'[w] = time
      BY <2>2 DEF Start, Finish, Fail, Refuse, UpdateTime
    <3> QED BY <1>3, <2>1, <3>1
  <2>3. CASE Connect(w) \/ Revive(w)
    <3>1. now'[w] = 0 /\ pc'[w] \in {"idle", "connected"}
      BY <2>3 DEF Connect, Revive, End, Goto, TypeOK
    <3> QED BY <1>3, <2>1, <3>1
  <2>4. CASE NoLivePeer(w) \/ Update(w)
    <3>1. \/ now'[w] = 0 /\ pc'[w] \in {"idle", "connected"}
          \/ now'[w] = now[w] /\ pc[w] \in {"choose", "update"} /\ alive[w]
      BY <2>4 DEF NoLivePeer, Update, End, Goto, At, TypeOK
    <3> QED BY <1>3, <2>1, <3>1
  <2>5. CASE LockPeers(w) \/ Choose(w) \/ GoToBackup(w) \/ LockAgain(w) \/ NoSocket(w) \/ Decline(w)
             \/ ReadLockPeers(w) \/ LockPeer(w)
    <3>1. now'[w] = now[w] /\ pc[w] \notin {"idle", "connected"} /\ alive[w]
      BY <2>5 DEF LockPeers, Choose, GoToBackup, LockAgain, NoSocket, Decline, ReadLockPeers, LockPeer,
            clock, At
    <3> QED BY <1>3, <2>1, <3>1
  <2> QED BY <1>4, <2>2, <2>3, <2>4, <2>5 DEF Step, Outcome
<1>5. ASSUME NEW w \in Workers, Crash(w) PROVE ClockInv'
  <2>1. /\ time' = time /\ now'[w] = 0 /\ ~alive'[w]
        /\ \A x \in Workers \ {w} : now'[x] = now[x] /\ pc'[x] = pc[x] /\ alive'[x] = alive[x]
    BY <1>5 DEF Crash, Goto, TypeOK
  <2> QED BY <1>3, <2>1
<1> QED BY <1>1, <1>2, <1>4, <1>5 DEF Next

(* What a choice does to the peer that it chooses. *)
LEMMA Chooses ==
    ASSUME IInv, NEW w \in Workers, Choose(w)
    PROVE  \E best \in Usable(w) :
              /\ best \in Peers /\ best \in Members(Group(w)) /\ req'[w].cur = best
              /\ \A q \in Usable(w) : view[w][q] = peer[q]
              /\ IsBest(w, best, Usable(w))
              /\ \A p \in Peers \ Usable(w) : peer'[p] = peer[p]
              /\ ~Single => \A p \in Usable(w) :
                    peer'[p] = Weighed(p, best, Usable(w), peer, now[w])
              /\ Single => \A p \in Usable(w) : peer'[p] = [peer[p] EXCEPT !.conns = @ + 1]
              /\ probe' = [probe EXCEPT ![w] = IF ~Single /\ Disabled(best, peer) THEN now[w] ELSE 0]
              /\ Count(best, Usable(w) # Members("primary") \/ Single)
<1> DEFINE E == Usable(w)
<1>a. TypeOK
  BY DEF IInv
<1>1. PICK best \in E :
          /\ IsBest(w, best, E)
          /\ peer' = [p \in Peers |->
                         IF p \notin E THEN peer[p]
                         ELSE IF Single THEN [view[w][p] EXCEPT !.conns = @ + 1]
                         ELSE Weighed(p, best, E, view[w], now[w])]
          /\ req' = [req EXCEPT ![w].cur = best,
                                ![w].tried = IF Single THEN @ ELSE @ \cup {best}]
          /\ probe' = [probe EXCEPT ![w] = IF ~Single /\ Disabled(best, view[w]) THEN now[w] ELSE 0]
          /\ Count(best, E # Members("primary") \/ Single)
  BY DEF Choose
<1>2. Group(w) \in Groups
  BY <1>a DEF TypeOK, RequestData, Group
<1>3. E \subseteq Members(Group(w)) /\ E \subseteq Peers
  BY <1>a, <1>2, GroupsApart DEF Usable
<1>4. \A q \in E : view[w][q] = peer[q]
  BY <1>3 DEF IInv, ViewIsFresh, ViewInv, Seen, Choose, At
<1>5. req'[w].cur = best
  <2>1. req'[w] = [req[w] EXCEPT !.cur = best, !.tried = IF Single THEN @ ELSE @ \cup {best}]
    BY <1>a, <1>1 DEF TypeOK
  <2>2. req[w] \in RequestData
    BY <1>a DEF TypeOK
  <2> QED BY <2>1, <2>2 DEF RequestData
<1>6. ASSUME NEW p \in E
      PROVE  /\ ~Single => peer'[p] = Weighed(p, best, E, peer, now[w])
             /\ Single => peer'[p] = [peer[p] EXCEPT !.conns = @ + 1]
  <2>1. Total(E, view[w]) = Total(E, peer)
    BY <1>4 DEF Total
  <2>2. Weighed(p, best, E, view[w], now[w]) = Weighed(p, best, E, peer, now[w])
    BY <1>4, <2>1 DEF Weighed, Raised, Toll, CheckedAt
  <2>3. p \in Peers
    BY <1>3
  <2> QED BY <1>1, <1>4, <2>2, <2>3
<1>7. Disabled(best, view[w]) = Disabled(best, peer)
  BY <1>4 DEF Disabled
<1>8. \A p \in Peers \ E : peer'[p] = peer[p]
  BY <1>1
<1>9. probe' = [probe EXCEPT ![w] = IF ~Single /\ Disabled(best, peer) THEN now[w] ELSE 0]
  BY <1>1, <1>7
<1> HIDE DEF E
<1>10. best \in Peers /\ best \in Members(Group(w))
  BY <1>3
<1>11. best \in Usable(w)
  BY DEF E
<1> QED BY <1>1, <1>4, <1>5, <1>6, <1>8, <1>9, <1>10, <1>11 DEF E

(* A request probes a peer only when the last check is long enough ago, and  *)
(* it sets the time of the check.                                            *)
LEMMA ChoosesProbe ==
    ASSUME IInv, NEW w \in Workers, Choose(w), probe \in [Workers -> Nat], probe'[w] > 0
    PROVE  /\ probe'[w] = now[w] /\ req'[w].cur \in Peers
           /\ peer'[req'[w].cur].checked = now[w]
           /\ now[w] - peer[req'[w].cur].checked > FailTimeout
<1>a. TypeOK /\ Shape /\ now[w] \in Nat
  BY DEF IInv, TypeOK
<1>1. PICK best \in Usable(w) :
         /\ best \in Peers /\ req'[w].cur = best
         /\ \A q \in Usable(w) : view[w][q] = peer[q]
         /\ ~Single => \A p \in Usable(w) : peer'[p] = Weighed(p, best, Usable(w), peer, now[w])
         /\ probe' = [probe EXCEPT ![w] = IF ~Single /\ Disabled(best, peer) THEN now[w] ELSE 0]
  BY Chooses
<1>2. probe'[w] = now[w] /\ ~Single /\ Disabled(best, peer)
  BY <1>1
<1>3. ~Skipped(best, peer, now[w])
  <2>1. ~Skipped(best, view[w], now[w])
    BY <1>2 DEF Usable
  <2> QED BY <1>1, <2>1 DEF Skipped, Disabled
<1>4. peer[best].checked \in Nat /\ DOMAIN peer[best] = Fields
  BY <1>a, <1>1 DEF TypeOK, Shape
<1>5. now[w] - peer[best].checked > FailTimeout
  BY <1>a, <1>2, <1>3, <1>4, Clocks DEF Skipped
<1>6. peer'[best].checked = now[w]
  <2>1. peer'[best] = Weighed(best, best, Usable(w), peer, now[w])
    BY <1>1, <1>2
  <2> DEFINE c == Raised(best, peer) - Toll(best, Usable(w), peer)
             e == IF peer[best].effective < Weight[best] THEN peer[best].effective + 1
                                                        ELSE peer[best].effective
  <2>2. peer'[best] = [peer[best] EXCEPT !.effective = e, !.current = c,
                                        !.checked = CheckedAt(best, peer, now[w]), !.conns = @ + 1]
    BY <2>1 DEF Weighed
  <2> HIDE DEF c, e
  <2>3. CheckedAt(best, peer, now[w]) = now[w]
    BY <1>5 DEF CheckedAt
  <2> QED BY <1>4, <2>2, <2>3 DEF Fields
<1> QED BY <1>1, <1>2, <1>5, <1>6

(* The time of the last check of a peer goes back only to the time of a      *)
(* worker that runs.                                                         *)
LEMMA CheckedStep ==
    ASSUME IInv, ClockInv, [Next]_vars, NEW p \in Peers
    PROVE  peer'[p].checked >= peer[p].checked \/ peer'[p].checked >= time - Lag
<1>a. TypeOK /\ Shape /\ peer[p].checked \in Nat /\ DOMAIN peer[p] = Fields /\ time \in Nat
  BY DEF IInv, TypeOK, Shape
<1>n. \A w \in Workers : now[w] \in Nat
  BY <1>a DEF TypeOK
<1>0. ASSUME peer'[p].checked = peer[p].checked
      PROVE  peer'[p].checked >= peer[p].checked
  BY <1>0, <1>a
<1>1. ASSUME NEW w \in Workers, Choose(w) PROVE peer'[p].checked >= peer[p].checked
  <2>1. PICK best \in Usable(w) :
           /\ \A q \in Peers \ Usable(w) : peer'[q] = peer[q]
           /\ ~Single => \A q \in Usable(w) :
                 peer'[q] = Weighed(q, best, Usable(w), peer, now[w])
           /\ Single => \A q \in Usable(w) : peer'[q] = [peer[q] EXCEPT !.conns = @ + 1]
    BY <1>1, Chooses
  <2>2. CASE p \notin Usable(w) \/ Single
    <3>1. peer'[p].checked = peer[p].checked
      BY <1>a, <2>1, <2>2 DEF Fields
    <3> QED BY <1>0, <3>1
  <2>3. CASE p \in Usable(w) /\ ~Single
    <3>1. peer'[p] = Weighed(p, best, Usable(w), peer, now[w])
      BY <2>1, <2>3
    <3> DEFINE c == Raised(p, peer) - (IF p = best THEN Toll(p, Usable(w), peer) ELSE 0)
               e == IF peer[p].effective < Weight[p] THEN peer[p].effective + 1 ELSE peer[p].effective
               k == IF p = best THEN CheckedAt(p, peer, now[w]) ELSE peer[p].checked
               n == IF p = best THEN peer[p].conns + 1 ELSE peer[p].conns
    <3>2. peer'[p] = [peer[p] EXCEPT !.effective = e, !.current = c, !.checked = k, !.conns = n]
      BY <3>1 DEF Weighed
    <3> HIDE DEF c, e, n, k
    <3>3. peer'[p].checked = k
      BY <1>a, <3>2 DEF Fields
    <3>4. k >= peer[p].checked
      BY <1>a, <1>n, Clocks DEF CheckedAt, k
    <3> QED BY <3>3, <3>4
  <2> QED BY <2>2, <2>3
<1>2. ASSUME NEW w \in Workers, Update(w)
      PROVE  peer'[p].checked >= peer[p].checked \/ peer'[p].checked >= time - Lag
  <2>1. /\ req[w].cur \in Peers /\ view[w][req[w].cur] = peer[req[w].cur]
    BY <1>2, UpdateReads DEF IInv
  <2>2. peer' = [peer EXCEPT ![req[w].cur] = GivenBack(req[w].cur, peer[req[w].cur], req[w].failed, now[w])]
    BY <1>2, <2>1 DEF Update
  <2>3. peer'[p].checked = peer[p].checked \/ peer'[p].checked = now[w]
    BY <1>a, <2>2 DEF Shape, GivenBack, Fields
  <2>4. now[w] >= time - Lag
    BY <1>2, <1>a, <1>n, Clocks DEF ClockInv, Update, At
  <2> QED BY <1>0, <2>3, <2>4
<1>3. ASSUME NEW w \in Workers, NoLivePeer(w) \/ Revive(w) PROVE peer'[p].checked = peer[p].checked
  BY <1>3, <1>a DEF NoLivePeer, Revive, Revived, Fields
<1>4. ASSUME NEW w \in Workers, Start(w) \/ Step(w) \/ Crash(w),
             ~(Choose(w) \/ Update(w) \/ NoLivePeer(w) \/ Revive(w))
      PROVE  peer' = peer
  BY <1>4 DEF Start, Step, Crash, LockPeers, GoToBackup, LockAgain, Outcome, NoSocket, Decline,
        Connect, Finish, Fail, Refuse, Leave, ReadLockPeers, LockPeer, shared
<1>5. CASE Tick \/ UNCHANGED vars
  BY <1>0, <1>5 DEF Tick, vars, shared
<1> QED BY <1>0, <1>1, <1>2, <1>3, <1>4, <1>5 DEF Next, Step

(* The other steps start no probe, and who probes keeps the peer. *)
LEMMA ProbesStay ==
    ASSUME IInv, probe \in [Workers -> Nat], [Next]_vars, NEW x \in Workers, ~Choose(x), probe'[x] > 0
    PROVE  /\ probe'[x] = probe[x]
           /\ (pc[x] \in Holding => pc'[x] \in Holding /\ req'[x].cur = req[x].cur)
<1>a. TypeOK
  BY DEF IInv
<1>1. ASSUME NEW w \in Workers, Start(w) \/ Step(w) \/ Crash(w), w # x
      PROVE  probe'[x] = probe[x] /\ pc'[x] = pc[x] /\ req'[x] = req[x]
  <2>1. probe'[x] = probe[x]
    BY <1>1 DEF Start, Step, LockPeers, Choose, GoToBackup, NoLivePeer, LockAgain, Revive, Outcome,
          NoSocket, Decline, Connect, Finish, Fail, Refuse, Leave, ReadLockPeers, LockPeer, Update,
          Crash, history
  <2> QED BY <1>a, <1>1, <2>1, OthersStay
<1>2. ASSUME Start(x) \/ Step(x) \/ Crash(x)
      PROVE  /\ probe'[x] = probe[x] /\ ~Crash(x) /\ ~Update(x)
             /\ (pc[x] \in Holding => pc'[x] \in Holding /\ req'[x].cur = req[x].cur)
  <2>1. ~Crash(x) /\ ~Update(x)
    BY DEF Crash, Update
  <2>2. probe'[x] = probe[x]
    BY <1>2, <2>1 DEF Start, Step, LockPeers, GoToBackup, NoLivePeer, LockAgain, Revive, Outcome,
          NoSocket, Decline, Connect, Finish, Fail, Refuse, Leave, ReadLockPeers, LockPeer,
          history
  <2> QED BY <1>a, <1>2, <2>1, <2>2, StepMoves DEF Moves, Keeps, Holding
<1>3. CASE Tick \/ UNCHANGED vars
  BY <1>3 DEF Tick, vars, history
<1> QED BY <1>1, <1>2, <1>3 DEF Next

LEMMA ProbeStep ==
    IInv /\ ClockInv /\ ProbeInv /\ OneProbe /\ [Next]_vars => ProbeInv' /\ OneProbe'
<1> SUFFICES ASSUME IInv, ClockInv, ProbeInv, OneProbe, [Next]_vars PROVE ProbeInv' /\ OneProbe'
  OBVIOUS
<1>a. /\ TypeOK /\ time \in Nat /\ \A w \in Workers : now[w] \in Nat
      /\ probe \in [Workers -> Nat]
  BY DEF IInv, TypeOK, ProbeInv
<1>t. time' \in Nat /\ time' >= time
  <2>1. ASSUME NEW w \in Workers, Start(w) \/ Crash(w) \/ LockPeers(w) \/ Choose(w) \/ GoToBackup(w)
                                  \/ NoLivePeer(w) \/ LockAgain(w) \/ Revive(w)
        PROVE  time' = time
    BY <2>1 DEF Start, Crash, LockPeers, Choose, GoToBackup, NoLivePeer, LockAgain, Revive, clock
  <2>2. ASSUME NEW w \in Workers, Outcome(w) \/ ReadLockPeers(w) \/ LockPeer(w) \/ Update(w)
        PROVE  time' = time
    BY <2>2 DEF Outcome, NoSocket, Decline, Connect, Finish, Fail, Refuse, Leave, ReadLockPeers, LockPeer,
          Update, clock
  <2>3. CASE Tick
    BY <1>a, <2>3 DEF Tick
  <2>4. CASE UNCHANGED vars
    BY <1>a, <2>4 DEF vars, clock
  <2> QED BY <1>a, <2>1, <2>2, <2>3, <2>4 DEF Next, Step
<1>p. probe' \in [Workers -> Nat]
  <2>1. ASSUME NEW w \in Workers, Choose(w) \/ Crash(w) \/ Update(w)
        PROVE  probe' = probe \/ probe' = [probe EXCEPT ![w] = 0] \/ probe' = [probe EXCEPT ![w] = now[w]]
    BY <2>1 DEF Choose, Crash, Update, history
  <2>2. ASSUME NEW w \in Workers, Start(w) \/ LockPeers(w) \/ GoToBackup(w) \/ NoLivePeer(w)
                                  \/ LockAgain(w) \/ Revive(w)
        PROVE  probe' = probe
    BY <2>2 DEF Start, LockPeers, GoToBackup, NoLivePeer, LockAgain, Revive, history
  <2>3. ASSUME NEW w \in Workers, Outcome(w) \/ ReadLockPeers(w) \/ LockPeer(w)
        PROVE  probe' = probe
    BY <2>3 DEF Outcome, NoSocket, Decline, Connect, Finish, Fail, Refuse, Leave, ReadLockPeers, LockPeer,
          history
  <2>4. CASE Tick \/ UNCHANGED vars
    BY <1>a, <2>4 DEF Tick, vars, history
  <2>5. ASSUME NEW w \in Workers, Start(w) \/ Step(w) \/ Crash(w) PROVE probe' \in [Workers -> Nat]
    <3>1. probe' = probe \/ probe' = [probe EXCEPT ![w] = 0] \/ probe' = [probe EXCEPT ![w] = now[w]]
      BY <2>1, <2>2, <2>3, <2>5 DEF Step
    <3> QED BY <1>a, <3>1
  <2> QED BY <1>a, <2>4, <2>5 DEF Next
<1>c. \A x \in Workers : pc[x] \in Holding => req[x].cur \in Peers
  BY <1>a, GroupsApart DEF IInv, PlaceInv, TypeOK, RequestData, Group
<1>k. \A p \in Peers : peer[p].checked \in Nat /\ peer'[p].checked \in Nat
  <2>1. TypeOK'
    BY Kept DEF IInv
  <2> QED BY <1>a, <2>1 DEF TypeOK
<1>1. ASSUME NEW x \in Workers, Choose(x), probe'[x] > 0
      PROVE  /\ probe'[x] <= time'
             /\ pc'[x] \in Holding /\ peer'[req'[x].cur].checked >= probe'[x] - Lag
             /\ \A y \in Workers \ {x} :
                   (probe'[y] > 0 /\ req'[y].cur = req'[x].cur) => probe'[x] - probe'[y] > FailTimeout - Lag
  <2>1. /\ probe'[x] = now[x] /\ req'[x].cur \in Peers
        /\ peer'[req'[x].cur].checked = now[x]
        /\ now[x] - peer[req'[x].cur].checked > FailTimeout
    BY <1>1, <1>a, ChoosesProbe
  <2>2. pc'[x] \in Holding
    BY <1>1, <1>a DEF Choose, Goto, Holding, TypeOK
  <2>3. ASSUME NEW y \in Workers \ {x}, probe'[y] > 0, req'[y].cur = req'[x].cur
        PROVE  probe'[x] - probe'[y] > FailTimeout - Lag
    <3>1. probe'[y] = probe[y] /\ req'[y].cur = req[y].cur
      <4>1. probe'[y] = probe[y]
        BY <1>1, <2>3 DEF Choose
      <4>2. req'[y] = req[y]
        BY <1>1, <1>a, <2>3, OthersStay DEF Step
      <4> QED BY <4>1, <4>2
    <3>2. peer[req[y].cur].checked >= probe[y] - Lag
      BY <2>3, <3>1 DEF ProbeInv
    <3>3. probe[y] \in Nat /\ peer[req[y].cur].checked \in Nat
      BY <1>a, <1>k, <2>1, <2>3, <3>1
    <3> QED BY <1>a, <2>1, <2>3, <3>1, <3>2, <3>3, Clocks
  <2>4. now[x] <= time
    BY DEF ClockInv
  <2> QED BY <1>a, <1>t, <2>1, <2>2, <2>3, <2>4, Clocks
<1>2. ASSUME NEW x \in Workers, ~Choose(x), probe'[x] > 0
      PROVE  /\ probe'[x] <= time' /\ probe'[x] = probe[x]
             /\ pc'[x] \in Holding /\ req'[x].cur = req[x].cur /\ req[x].cur \in Peers
             /\ peer'[req'[x].cur].checked >= probe'[x] - Lag
  <2>1. probe'[x] = probe[x] /\ probe[x] \in Nat
    BY <1>2, <1>a, ProbesStay
  <2>2. pc[x] \in Holding /\ peer[req[x].cur].checked >= probe[x] - Lag /\ probe[x] <= time
    BY <1>2, <2>1 DEF ProbeInv
  <2>3. pc'[x] \in Holding /\ req'[x].cur = req[x].cur
    BY <1>2, <1>a, <2>2, ProbesStay
  <2>4. req[x].cur \in Peers
    BY <1>c, <2>2
  <2>5. \/ peer'[req[x].cur].checked >= peer[req[x].cur].checked
        \/ peer'[req[x].cur].checked >= time - Lag
    BY <2>4, CheckedStep
  <2>6. peer'[req[x].cur].checked >= probe[x] - Lag
    BY <1>a, <1>k, <2>1, <2>2, <2>4, <2>5, Clocks
  <2> QED BY <1>a, <1>t, <2>1, <2>2, <2>3, <2>4, <2>6
<1>3. ProbeInv'
  <2>1. ASSUME NEW x \in Workers
        PROVE  /\ probe'[x] <= time'
               /\ probe'[x] > 0 => pc'[x] \in Holding /\ peer'[req'[x].cur].checked >= probe'[x] - Lag
    <3>1. CASE probe'[x] > 0
      BY <1>1, <1>2, <3>1
    <3>2. CASE ~(probe'[x] > 0)
      BY <1>p, <1>t, <3>2
    <3> QED BY <3>1, <3>2
  <2> QED BY <1>p, <2>1 DEF ProbeInv
<1>4. OneProbe'
  <2> SUFFICES ASSUME NEW w1 \in Workers, NEW w2 \in Workers, w1 # w2, probe'[w1] > 0, probe'[w2] > 0,
                      req'[w1].cur = req'[w2].cur
               PROVE  \/ probe'[w1] - probe'[w2] > FailTimeout - Lag
                      \/ probe'[w2] - probe'[w1] > FailTimeout - Lag
    BY DEF OneProbe
  <2>1. CASE Choose(w1)
    BY <1>1, <2>1
  <2>2. CASE Choose(w2)
    BY <1>1, <2>2
  <2>3. CASE ~Choose(w1) /\ ~Choose(w2)
    <3>1. /\ probe'[w1] = probe[w1] /\ req'[w1].cur = req[w1].cur
          /\ probe'[w2] = probe[w2] /\ req'[w2].cur = req[w2].cur
      BY <1>2, <2>3
    <3> QED BY <3>1 DEF OneProbe
  <2> QED BY <2>1, <2>2, <2>3
<1> QED BY <1>3, <1>4

-----------------------------------------------------------------------------
(* Rounds of smooth weighted round robin *)

Main == Members("primary")
Weights == SumFunctionOnSet(Weight, Main)
Chosen == SumFunctionOnSet(served, Main)
Currents == [p \in Main |-> peer[p].current]

(* As long as nothing disturbs the rounds, the current weight of a peer is   *)
(* what it has earned less what it has paid; all of them add up to zero, and *)
(* none falls by a whole round.                                              *)
Balanced(p) == /\ peer[p].effective = Weight[p]
               /\ peer[p].current \in Int
               /\ peer[p].current = Weight[p] * Chosen - served[p] * Weights
               /\ peer[p].current > -Weights
RoundInv == /\ served \in [Peers -> Nat] /\ disturbed \in BOOLEAN
            /\ ~disturbed => /\ \A p \in Main : Balanced(p)
                             /\ SumFunctionOnSet(Currents, Main) = 0

LEMMA MainIsFinite == ASSUME TypeOK PROVE IsFiniteSet(Main) /\ Main \subseteq Peers
<1>1. up["primary"] \in Seq(Peers)
  BY UpstreamAssumption DEF UpstreamAssumption, TypeOK, Groups
<1> DEFINE u == up["primary"]
<1>2. DOMAIN u = 1..Len(u) /\ Len(u) \in Nat
  BY <1>1
<1>3. IsFiniteSet(DOMAIN u)
  BY <1>2, FS_Interval
<1>4. u \in Surjection(DOMAIN u, Range(u))
  BY <1>1 DEF Surjection, Range
<1>5. IsFiniteSet(Range(u))
  BY <1>3, <1>4, FS_Surjection
<1> QED BY <1>5, GroupsApart DEF Main, Members, Groups

LEMMA WeightsType ==
    ASSUME TypeOK
    PROVE  Weights \in Nat /\ \A p \in Main : Weight[p] \in Nat \ {0} /\ Weight[p] <= Weights
<1>1. \A p \in Main : Weight[p] \in Nat \ {0}
  BY MainIsFinite, Constants
<1>2. IsFiniteSet(Main) /\ \A p \in Main : Weight[p] \in Nat
  BY <1>1, MainIsFinite
<1>3. /\ SumFunctionOnSet(Weight, Main) \in Nat
      /\ \A p \in Main : Weight[p] <= SumFunctionOnSet(Weight, Main)
  BY <1>2, SumNat
<1> QED BY <1>1, <1>3 DEF Weights

LEMMA ChosenType ==
    ASSUME TypeOK, served \in [Peers -> Nat]
    PROVE  Chosen \in Nat /\ \A p \in Main : served[p] \in Nat
<1>1. IsFiniteSet(Main) /\ \A p \in Main : served[p] \in Nat
  BY MainIsFinite
<1> QED BY <1>1, SumNat DEF Chosen

(* The products of an account. *)
LEMMA Earns ==
    ASSUME NEW w \in Nat, NEW n \in Nat, NEW s \in Nat, NEW t \in Nat
    PROVE  /\ w * (n + 1) - s * t = (w * n - s * t) + w
           /\ w * (n + 1) - (s + 1) * t = (w * n - s * t) + w - t
           /\ w * n - s * t \in Int
           /\ w * 0 - 0 * t = 0
  OBVIOUS

(* A multiple of t that is greater than -t is not negative. *)
LEMMA Multiples ==
    ASSUME NEW t \in Nat \ {0}, NEW k \in Nat, NEW w \in Nat, NEW s \in Nat,
           w * (k * t) - s * t > -t
    PROVE  w * (k * t) - s * t >= 0
<1>1. w * (k * t) - s * t = (w * k - s) * t
  OBVIOUS
<1>2. w * k - s \in Int
  OBVIOUS
<1> DEFINE z == w * k - s
<1>3. z \in Int /\ z * t > -t
  BY <1>1, <1>2
<1> HIDE DEF z
<1>4. z >= 0
  BY <1>3
<1>5. z * t >= 0
  BY <1>4, <1>3
<1> QED BY <1>1, <1>5 DEF z

LEMMA Divides ==
    ASSUME NEW n \in Nat, NEW t \in Nat \ {0}, n % t = 0
    PROVE  \E k \in Nat : n = k * t
<1>1. n \div t \in Nat
  OBVIOUS
<1>2. n = (n \div t) * t
  OBVIOUS
<1> QED BY <1>1, <1>2

(* At the end of a round every account is even. *)
LEMMA RoundsAreFair == IInv /\ RoundInv => ProportionalService
<1> SUFFICES ASSUME IInv, RoundInv, ~disturbed, Chosen % Weights = 0, NEW p \in Main
             PROVE  served[p] * Weights = Weight[p] * Chosen
  BY DEF ProportionalService, Main, Weights, Chosen
<1>a. TypeOK
  BY DEF IInv
<1>1. /\ Weights \in Nat \ {0} /\ Chosen \in Nat /\ IsFiniteSet(Main)
      /\ \A q \in Main : served[q] \in Nat /\ Weight[q] \in Nat
  BY <1>a, WeightsType, ChosenType, MainIsFinite DEF RoundInv
<1>2. PICK k \in Nat : Chosen = k * Weights
  BY <1>1, Divides
<1>3. ASSUME NEW q \in Main PROVE Currents[q] \in Nat
  <2>1. /\ peer[q].current \in Int
        /\ peer[q].current = Weight[q] * (k * Weights) - served[q] * Weights
        /\ peer[q].current > -Weights
    BY <1>2 DEF RoundInv, Balanced
  <2>2. peer[q].current >= 0
    BY <1>1, <2>1, Multiples
  <2> QED BY <2>1, <2>2 DEF Currents
<1>4. SumFunctionOnSet(Currents, Main) = 0
  BY DEF RoundInv
<1>5. Currents[p] <= 0
  BY <1>1, <1>3, <1>4, SumNat
<1>6. peer[p].current = 0
  BY <1>3, <1>5 DEF Currents
<1>7. Weight[p] * Chosen - served[p] * Weights = 0
  BY <1>6 DEF RoundInv, Balanced
<1>8. Weight[p] * Chosen \in Nat /\ served[p] * Weights \in Nat
  BY <1>1
<1> QED BY <1>7, <1>8

LEMMA RoundInit == Init => RoundInv
<1> SUFFICES ASSUME Init PROVE RoundInv
  OBVIOUS
<1>a. TypeOK
  BY TypeInit
<1>1. IsFiniteSet(Main) /\ Main \subseteq Peers /\ served \in [Peers -> Nat] /\ disturbed = FALSE
  BY <1>a, MainIsFinite DEF Init
<1>2. \A p \in Main : peer[p].current = 0 /\ peer[p].effective = Weight[p] /\ served[p] = 0
  BY <1>1 DEF Init
<1>3. SumFunctionOnSet(Currents, Main) = 0
  <2>1. Ints(Currents, Main) /\ \A p \in Main : Currents[p] = 0
    BY <1>2 DEF Ints, Currents
  <2>2. SumFunctionOnSet(Currents, Main) = SumFunctionOnSet(Currents, {})
    <3>1. {} \in SUBSET Main /\ \A x \in Main \ {} : Currents[x] = 0
      BY <2>1
    <3> QED BY <1>1, <2>1, <3>1, SumZeros
  <2> QED BY <2>2, SumEmpty
<1>4. Chosen = 0
  <2>1. Ints(served, Main)
    BY <1>2 DEF Ints
  <2>2. {} \in SUBSET Main /\ \A x \in Main \ {} : served[x] = 0
    BY <1>2
  <2>3. SumFunctionOnSet(served, Main) = SumFunctionOnSet(served, {})
    BY <1>1, <2>1, <2>2, SumZeros
  <2> QED BY <2>3, SumEmpty DEF Chosen
<1>5. ASSUME NEW p \in Main PROVE Balanced(p)
  <2>1. Weight[p] \in Nat \ {0} /\ Weights \in Nat /\ Weight[p] <= Weights
    BY <1>a, WeightsType
  <2>2. Weight[p] * 0 - 0 * Weights = 0
    BY <2>1, Earns
  <2> QED BY <1>2, <1>4, <2>1, <2>2 DEF Balanced
<1> QED BY <1>1, <1>3, <1>5 DEF RoundInv

(* One choice of a round. *)
LEMMA RoundChoose ==
    ASSUME IInv, RoundInv, NEW w \in Workers, Choose(w), ~disturbed'
    PROVE  (\A p \in Main : Balanced(p))' /\ (SumFunctionOnSet(Currents, Main) = 0)'
<1>a. TypeOK /\ Shape
  BY DEF IInv
<1>1. PICK best \in Usable(w) :
         /\ \A q \in Usable(w) : view[w][q] = peer[q]
         /\ IsBest(w, best, Usable(w))
         /\ ~Single => \A p \in Usable(w) : peer'[p] = Weighed(p, best, Usable(w), peer, now[w])
         /\ Count(best, Usable(w) # Members("primary") \/ Single)
  BY Chooses
<1>2. ~disturbed /\ Usable(w) = Main /\ ~Single
  BY <1>1 DEF Count, Main
<1>3. up' = up /\ Main' = Main /\ Weights' = Weights
  BY DEF Choose, Main, Members, Weights
<1>4. \A p \in Main : Balanced(p)
  BY <1>2 DEF RoundInv
<1>5. /\ IsFiniteSet(Main) /\ Main \subseteq Peers /\ best \in Main
      /\ Weights \in Nat /\ Chosen \in Nat
      /\ \A p \in Main : /\ served[p] \in Nat /\ Weight[p] \in Nat \ {0} /\ Weight[p] <= Weights
                         /\ DOMAIN peer[p] = Fields
  BY <1>a, <1>2, WeightsType, ChosenType, MainIsFinite DEF RoundInv, Shape
<1> DEFINE raised == [p \in Main |-> peer[p].current + Weight[p]]
<1>6. \A p \in Main : raised[p] \in Int /\ raised[p] = peer[p].current + Weight[p]
  BY <1>4, <1>5 DEF Balanced
<1>7. \A p \in Main : raised[p] <= raised[best]
  <2>1. \A p \in Main : Raised(p, view[w]) = raised[p]
    BY <1>1, <1>2, <1>4, <1>6 DEF Raised, Balanced
  <2>2. \A p \in Main : Raised(p, view[w]) < Raised(best, view[w]) \/ Raised(p, view[w]) = Raised(best, view[w])
    BY <1>1, <1>2 DEF IsBest
  <2> HIDE DEF raised
  <2> QED BY <1>5, <1>6, <2>1, <2>2
<1>8. SumFunctionOnSet(raised, Main) = Weights
  <2>1. Ints(Currents, Main) /\ Ints(Weight, Main)
    BY <1>4, <1>5 DEF Ints, Balanced, Currents
  <2>2. \A p \in Main : raised[p] = Currents[p] + Weight[p]
    BY DEF Currents
  <2> HIDE DEF raised
  <2>3. SumFunctionOnSet(raised, Main) = SumFunctionOnSet(Currents, Main) + SumFunctionOnSet(Weight, Main)
    BY <1>5, <2>1, <2>2, SumPlus
  <2>4. SumFunctionOnSet(Currents, Main) = 0
    BY <1>2 DEF RoundInv
  <2> QED BY <1>5, <2>3, <2>4 DEF Weights
<1> HIDE DEF raised
<1>9. raised[best] > 0
  <2> SUFFICES ASSUME ~(raised[best] > 0) PROVE FALSE
    OBVIOUS
  <2> DEFINE low == [p \in Main |-> -raised[p]]
             none == [p \in Main |-> 0]
  <2>1. \A p \in Main : low[p] \in Nat
    BY <1>5, <1>6, <1>7
  <2>2. \A p \in Main : none[p] = raised[p] + low[p] /\ none[p] = 0
    BY <1>6
  <2> HIDE DEF low, none
  <2>3. Ints(raised, Main) /\ Ints(low, Main) /\ Ints(none, Main)
    BY <1>6, <2>1, <2>2 DEF Ints
  <2>4. SumFunctionOnSet(none, Main) = SumFunctionOnSet(raised, Main) + SumFunctionOnSet(low, Main)
    BY <1>5, <2>2, <2>3, SumPlus
  <2>5. SumFunctionOnSet(none, Main) = 0
    <3>1. {} \in SUBSET Main /\ \A x \in Main \ {} : none[x] = 0
      BY <2>2
    <3>2. SumFunctionOnSet(none, Main) = SumFunctionOnSet(none, {})
      BY <1>5, <2>3, <3>1, SumZeros
    <3> QED BY <3>2, SumEmpty
  <2>6. SumFunctionOnSet(low, Main) \in Nat
    BY <1>5, <2>1, SumNat
  <2>7. Weights > 0
    BY <1>5
  <2> QED BY <1>5, <1>8, <2>4, <2>5, <2>6, <2>7
<1>10. Total(Main, peer) = Weights
  <2> DEFINE e == [p \in Main |-> peer[p].effective]
  <2>1. \A p \in Main : e[p] = Weight[p]
    BY <1>4 DEF Balanced
  <2>2. Ints(Weight, Main)
    BY <1>5 DEF Ints
  <2> HIDE DEF e
  <2>3. SumFunctionOnSet(e, Main) = SumFunctionOnSet(Weight, Main)
    BY <1>5, <2>1, <2>2, SumSame
  <2> QED BY <2>3 DEF Total, Weights, e
<1>11. ASSUME NEW p \in Main
       PROVE  /\ peer'[p].effective = Weight[p]
              /\ peer'[p].current = IF p = best THEN raised[p] - Weights ELSE raised[p]
  <2>1. peer'[p] = Weighed(p, best, Main, peer, now[w])
    BY <1>1, <1>2
  <2> DEFINE k == IF p = best THEN CheckedAt(p, peer, now[w]) ELSE peer[p].checked
             c == Raised(p, peer) - (IF p = best THEN Toll(p, Main, peer) ELSE 0)
             n == IF p = best THEN peer[p].conns + 1 ELSE peer[p].conns
             e == IF peer[p].effective < Weight[p] THEN peer[p].effective + 1 ELSE peer[p].effective
  <2>2. peer'[p] = [peer[p] EXCEPT !.effective = e, !.current = c, !.checked = k, !.conns = n]
    BY <2>1 DEF Weighed
  <2>3. e = Weight[p]
    BY <1>4, <1>5 DEF Balanced
  <2>4. c = IF p = best THEN raised[p] - Weights ELSE raised[p]
    <3>1. Raised(p, peer) = raised[p]
      BY <1>4, <1>6 DEF Raised, Balanced
    <3>2. Toll(p, Main, peer) = Weights
      BY <1>10 DEF Toll
    <3>3. raised[p] - 0 = raised[p]
      BY <1>6
    <3> QED BY <3>1, <3>2, <3>3
  <2> HIDE DEF c, e, n, k
  <2>5. peer'[p].effective = e /\ peer'[p].current = c
    BY <1>5, <2>2 DEF Fields
  <2> QED BY <2>3, <2>4, <2>5
<1>12. /\ served' \in [Peers -> Nat]
       /\ \A p \in Main : served'[p] = IF p = best THEN served[p] + 1 ELSE served[p]
  BY <1>1, <1>2, <1>5 DEF Count, RoundInv
<1>13. Chosen' = Chosen + 1
  <2>1. Ints(served, Main) /\ served'[best] \in Int /\ \A y \in Main \ {best} : served'[y] = served[y]
    BY <1>5, <1>12 DEF Ints
  <2>2. SumFunctionOnSet(served', Main) = SumFunctionOnSet(served, Main) - served[best] + served'[best]
    BY <1>5, <2>1, SumChange
  <2>3. served'[best] = served[best] + 1 /\ served[best] \in Nat
    BY <1>5, <1>12
  <2>4. Chosen' = SumFunctionOnSet(served', Main)
    BY <1>3 DEF Chosen
  <2>5. SumFunctionOnSet(served, Main) \in Nat
    BY <1>5 DEF Chosen
  <2> QED BY <2>2, <2>3, <2>4, <2>5 DEF Chosen
<1>14. ASSUME NEW p \in Main PROVE Balanced(p)'
  <2> DEFINE a == peer[p].current
             t == Weights
             n == Chosen
             s == served[p]
             v == Weight[p]
  <2>1. /\ v \in Nat /\ v > 0 /\ n \in Nat /\ s \in Nat /\ t \in Nat
        /\ a \in Int /\ a = v * n - s * t /\ a > -t /\ raised[p] = a + v
    BY <1>4, <1>5, <1>6 DEF Balanced
  <2> HIDE DEF a, t, n, s, v
  <2>2. /\ v * (n + 1) - s * t = a + v
        /\ v * (n + 1) - (s + 1) * t = a + v - t
    BY <2>1, Earns
  <2>3. p = best => a + v > 0
    BY <1>9, <2>1
  <2>4. CASE p = best
    <3>1. a + v - t \in Int /\ a + v - t > -t
      BY <2>1, <2>3, <2>4
    <3>2. peer'[p].current = a + v - t /\ served'[p] = s + 1 /\ Chosen' = n + 1 /\ peer'[p].effective = v
      BY <1>11, <1>12, <1>13, <2>1, <2>4 DEF a, t, n, s, v
    <3> QED BY <1>3, <2>2, <3>1, <3>2 DEF Balanced, t, v
  <2>5. CASE p # best
    <3>1. a + v \in Int /\ a + v > -t
      BY <2>1
    <3>2. peer'[p].current = a + v /\ served'[p] = s /\ Chosen' = n + 1 /\ peer'[p].effective = v
      BY <1>11, <1>12, <1>13, <2>1, <2>5 DEF a, t, n, s, v
    <3> QED BY <1>3, <2>2, <3>1, <3>2 DEF Balanced, t, v
  <2> QED BY <2>4, <2>5
<1>15. SumFunctionOnSet(Currents, Main)' = 0
  <2>1. Currents' = [p \in Main |-> peer'[p].current]
    BY <1>3 DEF Currents
  <2>2. /\ Ints(raised, Main) /\ Currents'[best] = raised[best] - Weights /\ Currents'[best] \in Int
        /\ \A y \in Main \ {best} : Currents'[y] = raised[y]
    BY <1>5, <1>6, <1>11, <2>1 DEF Ints
  <2>3. SumFunctionOnSet(Currents', Main) = SumFunctionOnSet(raised, Main) - raised[best] + Currents'[best]
    BY <1>5, <2>2, SumChange
  <2>4. SumFunctionOnSet(Currents', Main) = 0
    BY <1>5, <1>6, <1>8, <2>2, <2>3
  <2> QED BY <1>3, <2>4
<1> QED BY <1>3, <1>14, <1>15

(* The other steps leave the rounds alone or disturb them. *)
LEMMA RoundsStay ==
    ASSUME IInv, RoundInv, [Next]_vars, \A w \in Workers : ~Choose(w)
    PROVE  /\ served' \in [Peers -> Nat] /\ disturbed' \in BOOLEAN
           /\ ~disturbed' => /\ ~disturbed /\ served' = served /\ up' = up
                             /\ \A p \in Peers : /\ peer'[p].effective = peer[p].effective
                                                 /\ peer'[p].current = peer[p].current
<1>a. TypeOK /\ Shape /\ served \in [Peers -> Nat] /\ disturbed \in BOOLEAN
  BY DEF IInv, RoundInv
<1>1. ASSUME NEW w \in Workers, Update(w)
      PROVE  /\ served' \in [Peers -> Nat] /\ disturbed' \in BOOLEAN
             /\ ~disturbed' => /\ ~disturbed /\ served' = served /\ up' = up
                               /\ \A p \in Peers : /\ peer'[p].effective = peer[p].effective
                                                   /\ peer'[p].current = peer[p].current
  <2>1. Count(NoPeer, req[w].failed) /\ up' = up
    BY <1>1 DEF Update
  <2>2. served' \in [Peers -> Nat]
    BY <1>a, <2>1 DEF Count
  <2>3. disturbed' = (disturbed \/ req[w].failed)
    BY <2>1 DEF Count
  <2>4. disturbed' \in BOOLEAN
    BY <2>3
  <2>5. ASSUME ~disturbed'
        PROVE  /\ ~disturbed /\ served' = served
               /\ \A p \in Peers : /\ peer'[p].effective = peer[p].effective
                                   /\ peer'[p].current = peer[p].current
    <3>1. ~disturbed /\ ~req[w].failed
      BY <2>3, <2>5
    <3>2. served' = served
      BY <1>a, <2>1, <2>5, GroupsApart DEF Count
    <3>3. req[w].cur \in Peers /\ view[w][req[w].cur] = peer[req[w].cur]
      BY <1>1, UpdateReads DEF IInv
    <3>4. peer' = [peer EXCEPT ![req[w].cur] = GivenBack(req[w].cur, peer[req[w].cur], req[w].failed, now[w])]
      BY <1>1, <3>3 DEF Update
    <3>5. \A p \in Peers : /\ peer'[p].effective = peer[p].effective
                           /\ peer'[p].current = peer[p].current
      BY <1>a, <3>1, <3>3, <3>4 DEF GivenBack, Shape, Fields
    <3> QED BY <3>1, <3>2, <3>5
  <2> QED BY <2>1, <2>2, <2>4, <2>5
<1>2. ASSUME NEW w \in Workers, NoLivePeer(w) \/ Revive(w)
      PROVE  /\ served' = served /\ disturbed' = disturbed /\ up' = up
             /\ \A p \in Peers : /\ peer'[p].effective = peer[p].effective
                                 /\ peer'[p].current = peer[p].current
  BY <1>2, <1>a DEF NoLivePeer, Revive, Revived, Shape, Fields, history
<1>3. ASSUME NEW w \in Workers, Start(w) \/ Step(w) \/ Crash(w), ~(Update(w) \/ NoLivePeer(w) \/ Revive(w))
      PROVE  served' = served /\ disturbed' = disturbed /\ up' = up /\ peer' = peer
  BY <1>3 DEF Start, Step, Crash, LockPeers, GoToBackup, LockAgain, Outcome, NoSocket, Decline,
        Connect, Finish, Fail, Refuse, Leave, ReadLockPeers, LockPeer, shared, history
<1>4. CASE Tick \/ UNCHANGED vars
  BY <1>4, <1>a DEF Tick, vars, shared, history
<1> QED BY <1>a, <1>1, <1>2, <1>3, <1>4 DEF Next, Step

LEMMA RoundStep == IInv /\ RoundInv /\ [Next]_vars => RoundInv'
<1> SUFFICES ASSUME IInv, RoundInv, [Next]_vars PROVE RoundInv'
  OBVIOUS
<1>a. TypeOK
  BY DEF IInv
<1>1. ASSUME NEW w \in Workers, Choose(w) PROVE RoundInv'
  <2>1. PICK best \in Usable(w) : Count(best, Usable(w) # Members("primary") \/ Single)
    BY <1>1, Chooses
  <2>2. served' \in [Peers -> Nat]
    BY <2>1 DEF Count, RoundInv
  <2>3. disturbed' = (disturbed \/ (Usable(w) # Members("primary") \/ Single))
    BY <2>1 DEF Count
  <2>4. disturbed' \in BOOLEAN
    BY <2>3
  <2> QED BY <1>1, <2>2, <2>4, RoundChoose DEF RoundInv
<1>2. ASSUME \A w \in Workers : ~Choose(w) PROVE RoundInv'
  <2>1. /\ served' \in [Peers -> Nat] /\ disturbed' \in BOOLEAN
        /\ ~disturbed' => /\ ~disturbed /\ served' = served /\ up' = up
                          /\ \A p \in Peers : /\ peer'[p].effective = peer[p].effective
                                              /\ peer'[p].current = peer[p].current
    BY <1>2, RoundsStay
  <2>2. ASSUME ~disturbed'
        PROVE  (\A p \in Main : Balanced(p))' /\ (SumFunctionOnSet(Currents, Main) = 0)'
    <3>1. /\ Main' = Main /\ Weights' = Weights /\ Chosen' = Chosen
          /\ \A p \in Main : /\ peer'[p].effective = peer[p].effective
                             /\ peer'[p].current = peer[p].current /\ served'[p] = served[p]
      BY <1>a, <2>1, <2>2, MainIsFinite DEF Main, Members, Weights, Chosen
    <3>2. Currents' = Currents
      BY <3>1 DEF Currents
    <3>3. \A p \in Main : Balanced(p)
      BY <2>1, <2>2 DEF RoundInv
    <3>4. SumFunctionOnSet(Currents, Main) = 0
      BY <2>1, <2>2 DEF RoundInv
    <3> QED BY <3>1, <3>2, <3>3, <3>4 DEF Balanced
  <2> QED BY <2>1, <2>2 DEF RoundInv
<1> QED BY <1>1, <1>2

-----------------------------------------------------------------------------
(* The theorems *)

(* The types of everything that requests and workers keep; the count of a    *)
(* peer never falls below zero, its weight stays between 0 and weight=.      *)
THEOREM TypeCorrect == Spec => []TypeOK
<1>1. IInv => TypeOK
  BY DEF IInv
<1> QED BY <1>1, Inductive, PTL

(* conns of a peer is the number of requests that hold it. *)
THEOREM ConnsCorrect == Spec => []ConnsAreHeld
<1>1. IInv => ConnsAreHeld
  BY DEF IInv
<1> QED BY <1>1, Inductive, PTL

(* No other worker changes what a critical section has read of the peers:    *)
(* the two levels of locks make it atomic.                                   *)
THEOREM SectionsAreAtomic == Spec => []ViewIsFresh
<1>1. IInv => ViewIsFresh
  BY DEF IInv
<1> QED BY <1>1, Inductive, PTL

(* A writer of a group is alone in it. *)
THEOREM GroupLockExcludes ==
    Spec => [](\A g \in Groups : rwlock[g] = WriteWord =>
                  Readers(g) = {} /\ \E w \in Workers : Writers(g) = {w})
<1>1. IInv => \A g \in Groups : rwlock[g] = WriteWord =>
                  Readers(g) = {} /\ \E w \in Workers : Writers(g) = {w}
  <2> SUFFICES ASSUME IInv, NEW g \in Groups, rwlock[g] = WriteWord
               PROVE  Readers(g) = {} /\ \E w \in Workers : Writers(g) = {w}
    OBVIOUS
  <2>1. Cardinality(Readers(g)) \in Nat
    BY Constants, FS_Subset, FS_CardinalityType DEF Readers
  <2> QED BY <2>1 DEF IInv, GroupLockInv, Written, Read, WriteWord
<1> QED BY <1>1, Inductive, PTL

(* fail_timeout: a peer that is disabled is probed by one request, and by the *)
(* next only after fail_timeout, less what the clocks of the workers differ.  *)
THEOREM OneProbeAtATime == Spec => []OneProbe
<1>1. Init => ClockInv /\ ProbeInv /\ OneProbe
  <2> SUFFICES ASSUME Init PROVE ClockInv /\ ProbeInv /\ OneProbe
    OBVIOUS
  <2>1. time > 0 /\ probe \in [Workers -> Nat] /\ \A w \in Workers : now[w] = 0 /\ probe[w] = 0 /\ pc[w] = "idle"
    BY Clocks DEF Init, Epoch
  <2>2. time \in Nat
    BY TypeInit DEF TypeOK
  <2> QED BY <2>1, <2>2 DEF ClockInv, ProbeInv, OneProbe
<1>2. IInv /\ ClockInv /\ ProbeInv /\ OneProbe /\ [Next]_vars => (ClockInv /\ ProbeInv /\ OneProbe)'
  BY ClockStep, ProbeStep
<1>3. Spec => [](ClockInv /\ ProbeInv /\ OneProbe)
  BY <1>1, <1>2, Inductive, PTL DEF Spec
<1> QED BY <1>3, PTL

(* Smooth weighted round robin: a round gives each peer its weight. *)
THEOREM ServiceIsProportional == Spec => []ProportionalService
<1>1. Spec => []RoundInv
  BY RoundInit, RoundStep, Inductive, PTL DEF Spec
<1> QED BY <1>1, Inductive, RoundsAreFair, PTL
=============================================================================
