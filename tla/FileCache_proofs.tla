-------------------------- MODULE FileCache_proofs ---------------------------
(***************************************************************************)
(* Proofs about the cache of responses, for any finite sets of requests and *)
(* of nodes, any keys, any setting of the cache and any number of processes  *)
(* that die.                                                                 *)
(***************************************************************************)
EXTENDS FileCache, SumTheorems, SequenceTheorems

RequestPlaces == {"new", "exists", "force", "unlink", "relock", "retry", "open", "read", "expired",
                  "lock", "waiting", "fetch", "update", "answer", "done"}
ManagerPlaces == {"rest", "unlink old", "relock old", "expire", "check", "force", "unlink", "relock"}

BasePart == /\ conf \in Confs /\ {cold, drifted} \subseteq BOOLEAN
            /\ size \in Int /\ takes \in Nat
            /\ file \in [Keys -> {NoFile} \cup Files]
            /\ over \subseteq Slots
            /\ owners \in [Slots -> SUBSET Requests]
            /\ leaked \in [Slots -> Nat]
            /\ todo \subseteq Keys
            /\ seen = None \/ seen \in [key : Keys, size : Sizes]

NodePart == /\ node \in [Slots -> NodeData]
            /\ \A n \in Slots : IF node[n].key = None THEN node[n].count = 0 ELSE n \in conf.zone

(* No node stands in the queue twice.                                       *)
Apart(q) == \A i, j \in DOMAIN q : q[i] = q[j] => i = j

QueuePart == /\ queue \in Seq(conf.zone) /\ Range(queue) = Nodes /\ Apart(queue)
             /\ inactive \subseteq Nodes

(* Where a request has a node, and where a process deletes one: d is the     *)
(* cache of a request at s.                                                  *)
WithNode == {"open", "read", "expired", "lock", "waiting", "fetch", "update", "answer"}
Deleting == {"unlink", "relock", "unlink old", "relock old"}

(* Where a request that is back on its main key can be.                      *)
MovedPlaces == {"exists", "force", "unlink", "relock", "retry", "fetch", "update", "answer"}

Fits(d, s) == /\ s \in WithNode => d.node # None
              /\ d.node # None => s \in WithNode \cup {"exists"}
              /\ s \notin {"new", "done"} => d.key \in Keys
              /\ d.updating => d.moved \/ s \in {"fetch", "answer"}
              /\ d.moved => s \in MovedPlaces
              /\ s = "update" /\ ~d.ok => d.fs_size = 0

RequestPart == /\ c \in [Requests -> CacheData]
               /\ pc \in [Deleters -> RequestPlaces \cup ManagerPlaces]
               /\ \A r \in Requests : pc[r] \in RequestPlaces /\ Fits(c[r], pc[r])
               /\ pc[Manager] \in ManagerPlaces
               /\ victim \in [Deleters -> Slots \cup {None}]
               /\ \A a \in Deleters : victim[a] # None <=> pc[a] \in Deleting

IInv == BasePart /\ NodePart /\ QueuePart /\ RequestPart /\ CountIsKept

(* A request that has the lock of its node, or had it.                       *)
Holds(r) == c[r].updating /\ ~c[r].moved

(* A lock that has not run out has one owner, and the lock_time of no other   *)
(* request is that of the node, but for those that are back on a main key.    *)
LockInv ==
    /\ \A n \in Slots : /\ node[n].lock_time <= takes
                        /\ node[n].key = None => ~node[n].updating
    /\ \A r \in Requests :
          /\ c[r].lock_time <= takes
          /\ Holds(r) => c[r].lock_time <= node[c[r].node].lock_time
    /\ \A n \in Slots : \A r, q \in owners[n] : r = q
    /\ \A n \in Slots : (owners[n] # {} /\ n \notin over) =>
          /\ node[n].updating
          /\ \A r \in Requests :
                (Holds(r) /\ c[r].node = n /\ c[r].lock_time = node[n].lock_time)
                => r \in owners[n]

(* A node that is being deleted has one reference, the deleter's, alive or   *)
(* dead; a node without a file counts for nothing.                           *)
SizeInv ==
    /\ \A n \in Slots : ~node[n].exists => node[n].fs_size = 0
    /\ ~drifted => /\ \A n \in Slots : node[n].deleting => node[n].count = 1 /\ Users(n) = {}
                   /\ \A a \in Deleters : victim[a] # None => node[victim[a]].deleting

-----------------------------------------------------------------------------
(* Queues *)

(* AtPlaces(q, I) has what q has at I, once, and nothing else.               *)
LEMMA AtPlacesIs ==
    ASSUME NEW S, NEW q \in Seq(S), Apart(q), NEW I \in SUBSET DOMAIN q
    PROVE  /\ AtPlaces(q, I) \in Seq(S)
           /\ Apart(AtPlaces(q, I))
           /\ Range(AtPlaces(q, I)) = {q[i] : i \in I}
<1> DEFINE N == Cardinality(I)
           upto(i) == {j \in I : j <= i}
           rank == [i \in I |-> Cardinality(upto(i))]
           nth(k) == CHOOSE i \in I : Cardinality({j \in I : j <= i}) = k
           p == AtPlaces(q, I)
<1>1. Len(q) \in Nat /\ DOMAIN q = 1..Len(q) /\ \A i \in I : i \in Nat /\ q[i] \in S
  OBVIOUS
<1>2. IsFiniteSet(I) /\ N \in Nat
  <2>1. IsFiniteSet(1..Len(q))
    BY <1>1, FS_Interval
  <2>2. I \in SUBSET (1..Len(q))
    BY <1>1
  <2> QED BY <2>1, <2>2, FS_Subset, FS_CardinalityType
<1>3. \A i \in I : IsFiniteSet(upto(i)) /\ Cardinality(upto(i)) \in 1..N
  <2> TAKE i \in I
  <2>1. upto(i) \in SUBSET I /\ i \in upto(i)
    BY <1>1
  <2>2. IsFiniteSet(upto(i)) /\ Cardinality(upto(i)) <= N /\ Cardinality(upto(i)) \in Nat
    BY <1>2, <2>1, FS_Subset, FS_CardinalityType
  <2>3. Cardinality(upto(i)) # 0
    BY <2>1, <2>2, FS_EmptySet
  <2> QED BY <1>2, <2>2, <2>3
<1>4. \A i, k \in I : Cardinality(upto(i)) = Cardinality(upto(k)) => i = k
  <2>1. ASSUME NEW i \in I, NEW k \in I, i < k PROVE Cardinality(upto(i)) # Cardinality(upto(k))
    <3>1. upto(i) \in SUBSET upto(k) /\ k \in upto(k) /\ k \notin upto(i)
      BY <1>1, <2>1
    <3>2. IsFiniteSet(upto(k))
      BY <1>3
    <3> QED BY <3>1, <3>2, FS_Subset
  <2>2. \A i, k \in I : i = k \/ i < k \/ k < i
    BY <1>1
  <2> QED BY <2>1, <2>2
<1>5. rank \in Injection(I, 1..N)
  <2>1. rank \in [I -> 1..N]
    BY <1>3
  <2>2. \A i, k \in I : rank[i] = rank[k] => i = k
    BY <1>4
  <2> QED BY <2>1, <2>2 DEF Injection, IsInjective
<1>6. rank \in Surjection(I, 1..N)
  <2>1. IsFiniteSet(1..N) /\ Cardinality(1..N) = N
    BY <1>2, FS_Interval
  <2> HIDE DEF rank
  <2> QED BY <1>5, <2>1, FS_Injection
<1>7. \A k \in 1..N : nth(k) \in I /\ Cardinality(upto(nth(k))) = k
  <2> TAKE k \in 1..N
  <2>1. \E i \in I : Cardinality({j \in I : j <= i}) = k
    BY <1>6 DEF Surjection
  <2> QED BY <2>1
<1>8. \A i \in I : nth(Cardinality(upto(i))) = i
  BY <1>3, <1>4, <1>7
<1>9. p = [k \in 1..N |-> q[nth(k)]]
  BY DEF AtPlaces
<1> HIDE DEF nth, upto, rank, p
<1>10. p \in [1..N -> S]
  BY <1>1, <1>7, <1>9
<1>11. p \in Seq(S) /\ DOMAIN p = 1..N
  BY <1>2, <1>10
<1>12. Apart(p)
  <2>1. ASSUME NEW i \in 1..N, NEW k \in 1..N, p[i] = p[k] PROVE i = k
    <3>1. q[nth(i)] = q[nth(k)]
      BY <1>9, <2>1
    <3>2. nth(i) = nth(k)
      BY <1>7, <3>1 DEF Apart
    <3> QED BY <1>7, <3>2
  <2> QED BY <1>11, <2>1 DEF Apart
<1>13. Range(p) = {q[i] : i \in I}
  <2>1. ASSUME NEW k \in 1..N PROVE p[k] \in {q[i] : i \in I}
    BY <1>7, <1>9
  <2>2. ASSUME NEW i \in I PROVE \E k \in 1..N : p[k] = q[i]
    BY <1>3, <1>8, <1>9
  <2> QED BY <1>11, <2>1, <2>2 DEF Range
<1> QED BY <1>11, <1>12, <1>13 DEF p

(* A sequence of different elements has as many as its range.               *)
LEMMA LenIsCardinality ==
    ASSUME NEW S, NEW q \in Seq(S), Apart(q)
    PROVE  IsFiniteSet(Range(q)) /\ Len(q) = Cardinality(Range(q))
<1>1. Len(q) \in Nat /\ DOMAIN q = 1..Len(q)
  OBVIOUS
<1>2. q \in Bijection(1..Len(q), Range(q))
  <2>1. q \in [1..Len(q) -> Range(q)]
    BY <1>1 DEF Range
  <2>2. \A x \in Range(q) : \E i \in 1..Len(q) : q[i] = x
    BY <1>1 DEF Range
  <2> QED BY <1>1, <2>1, <2>2 DEF Bijection, Injection, IsInjective, Surjection, Apart
<1>3. IsFiniteSet(1..Len(q)) /\ Cardinality(1..Len(q)) = Len(q)
  BY <1>1, FS_Interval
<1> QED BY <1>2, <1>3, FS_Bijection DEF ExistsBijection

LEMMA Joined ==
    ASSUME NEW S, NEW q \in Seq(S), NEW p \in Seq(S), Apart(q), Apart(p), Range(q) \cap Range(p) = {}
    PROVE  /\ q \o p \in Seq(S) /\ Apart(q \o p)
           /\ Range(q \o p) = Range(q) \cup Range(p)
<1>1. /\ Len(q) \in Nat /\ DOMAIN q = 1..Len(q) /\ Len(p) \in Nat /\ DOMAIN p = 1..Len(p)
      /\ q \o p \in Seq(S) /\ DOMAIN (q \o p) = 1..Len(q) + Len(p)
  OBVIOUS
<1>2. \A i \in 1..Len(q) + Len(p) : /\ i <= Len(q) => i \in DOMAIN q /\ (q \o p)[i] = q[i]
                                    /\ i > Len(q) => i - Len(q) \in DOMAIN p /\ (q \o p)[i] = p[i - Len(q)]
  OBVIOUS
<1>3. \A i \in DOMAIN q, j \in DOMAIN p : q[i] # p[j]
  BY DEF Range
<1>4. ASSUME NEW i \in 1..Len(q) + Len(p), NEW j \in 1..Len(q) + Len(p), (q \o p)[i] = (q \o p)[j]
      PROVE  i = j
  <2>1. CASE i <= Len(q) /\ j <= Len(q)
    BY <1>2, <1>4, <2>1 DEF Apart
  <2>2. CASE i > Len(q) /\ j > Len(q)
    <3>1. i - Len(q) = j - Len(q)
      BY <1>2, <1>4, <2>2 DEF Apart
    <3> QED BY <1>1, <3>1
  <2>3. CASE (i <= Len(q) /\ j > Len(q)) \/ (j <= Len(q) /\ i > Len(q))
    BY <1>2, <1>3, <1>4, <2>3
  <2> QED BY <1>1, <2>1, <2>2, <2>3
<1>5. Range(q \o p) = Range(q) \cup Range(p)
  <2>1. ASSUME NEW i \in 1..Len(q) + Len(p) PROVE (q \o p)[i] \in Range(q) \cup Range(p)
    BY <1>1, <1>2 DEF Range
  <2>2. ASSUME NEW i \in DOMAIN q PROVE i \in 1..Len(q) + Len(p) /\ (q \o p)[i] = q[i]
    BY <1>1, <1>2
  <2>3. ASSUME NEW i \in DOMAIN p
        PROVE  i + Len(q) \in 1..Len(q) + Len(p) /\ (q \o p)[i + Len(q)] = p[i]
    BY <1>1, <1>2
  <2>4. Range(q) \subseteq Range(q \o p)
    BY <1>1, <2>2 DEF Range
  <2>5. Range(p) \subseteq Range(q \o p)
    BY <1>1, <2>3 DEF Range
  <2>6. Range(q \o p) \subseteq Range(q) \cup Range(p)
    BY <1>1, <2>1 DEF Range
  <2> QED BY <2>4, <2>5, <2>6
<1> QED BY <1>1, <1>4, <1>5 DEF Apart

LEMMA WithoutIs ==
    ASSUME NEW S, NEW q \in Seq(S), Apart(q), NEW n
    PROVE  /\ Without(q, n) \in Seq(S) /\ Apart(Without(q, n))
           /\ Range(Without(q, n)) = Range(q) \ {n}
<1> DEFINE I == {i \in DOMAIN q : q[i] # n}
<1>1. {q[i] : i \in I} = Range(q) \ {n}
  BY DEF Range
<1>2. I \in SUBSET DOMAIN q
  OBVIOUS
<1> HIDE DEF I
<1>3. AtPlaces(q, I) \in Seq(S) /\ Apart(AtPlaces(q, I)) /\ Range(AtPlaces(q, I)) = {q[i] : i \in I}
  BY <1>2, AtPlacesIs
<1> QED BY <1>1, <1>3 DEF Without, I

LEMMA HeadedIs ==
    ASSUME NEW S, NEW q \in Seq(S), Apart(q), NEW n \in S
    PROVE  /\ <<n>> \o Without(q, n) \in Seq(S) /\ Apart(<<n>> \o Without(q, n))
           /\ Range(<<n>> \o Without(q, n)) = Range(q) \cup {n}
<1>1. <<n>> \in Seq(S) /\ Apart(<<n>>) /\ Range(<<n>>) = {n}
  BY DEF Apart, Range
<1>2. /\ Without(q, n) \in Seq(S) /\ Apart(Without(q, n))
      /\ Range(Without(q, n)) = Range(q) \ {n}
  BY WithoutIs
<1>3. Range(<<n>>) \cap Range(Without(q, n)) = {}
  BY <1>1, <1>2
<1>4. /\ <<n>> \o Without(q, n) \in Seq(S) /\ Apart(<<n>> \o Without(q, n))
      /\ Range(<<n>> \o Without(q, n)) = Range(<<n>>) \cup Range(Without(q, n))
  <2> DEFINE head == <<n>>
             rest == Without(q, n)
  <2>1. /\ head \in Seq(S) /\ Apart(head) /\ rest \in Seq(S) /\ Apart(rest)
        /\ Range(head) \cap Range(rest) = {}
    BY <1>1, <1>2, <1>3
  <2> HIDE DEF head, rest
  <2>2. head \o rest \in Seq(S) /\ Apart(head \o rest) /\ Range(head \o rest) = Range(head) \cup Range(rest)
    BY <2>1, Joined
  <2> QED BY <2>2 DEF head, rest
<1> QED BY <1>1, <1>2, <1>4

-----------------------------------------------------------------------------
(* Counting *)

LEMMA Finite ==
    /\ IsFiniteSet(Requests) /\ IsFiniteSet(Deleters) /\ IsFiniteSet(Slots)
    /\ \A n : /\ IsFiniteSet(Users(n)) /\ Cardinality(Users(n)) \in Nat
              /\ IsFiniteSet(DeletersOf(n)) /\ Cardinality(DeletersOf(n)) \in Nat
<1>1. IsFiniteSet(Requests) /\ IsFiniteSet(Slots) /\ IsFiniteSet(Deleters)
  BY CacheAssumption, FS_AddElement DEF CacheAssumption, Deleters
<1>2. ASSUME NEW n PROVE Users(n) \in SUBSET Requests /\ DeletersOf(n) \in SUBSET Deleters
  BY DEF Users, DeletersOf
<1>3. ASSUME NEW n
      PROVE  /\ IsFiniteSet(Users(n)) /\ Cardinality(Users(n)) \in Nat
             /\ IsFiniteSet(DeletersOf(n)) /\ Cardinality(DeletersOf(n)) \in Nat
  BY <1>1, <1>2, FS_Subset, FS_CardinalityType
<1> QED BY <1>1, <1>3

(* The uses of a node change with the node that a request has.              *)
LEMMA UsersChange ==
    ASSUME NEW r \in Requests, \A q \in Requests \ {r} : c'[q].node = c[q].node
    PROVE  \A n : /\ (c[r].node = n <=> c'[r].node = n) => Users(n)' = Users(n)
                  /\ c[r].node = n /\ c'[r].node # n
                     => Cardinality(Users(n)') = Cardinality(Users(n)) - 1
                  /\ c[r].node # n /\ c'[r].node = n
                     => Cardinality(Users(n)') = Cardinality(Users(n)) + 1
<1> TAKE n
<1>1. (c[r].node = n <=> c'[r].node = n) => Users(n)' = Users(n)
  BY DEF Users
<1>2. ASSUME c[r].node = n, c'[r].node # n
      PROVE  Cardinality(Users(n)') = Cardinality(Users(n)) - 1
  <2>1. Users(n)' = Users(n) \ {r} /\ r \in Users(n)
    BY <1>2 DEF Users
  <2> QED BY <2>1, Finite, FS_RemoveElement
<1>3. ASSUME c[r].node # n, c'[r].node = n
      PROVE  Cardinality(Users(n)') = Cardinality(Users(n)) + 1
  <2>1. Users(n)' = Users(n) \cup {r} /\ r \notin Users(n)
    BY <1>3 DEF Users
  <2> QED BY <2>1, Finite, FS_AddElement
<1> QED BY <1>1, <1>2, <1>3

LEMMA DeletersChange ==
    ASSUME NEW a \in Deleters, \A b \in Deleters \ {a} : victim'[b] = victim[b]
    PROVE  \A n : /\ (victim[a] = n <=> victim'[a] = n) => DeletersOf(n)' = DeletersOf(n)
                  /\ victim[a] = n /\ victim'[a] # n
                     => Cardinality(DeletersOf(n)') = Cardinality(DeletersOf(n)) - 1
                  /\ victim[a] # n /\ victim'[a] = n
                     => Cardinality(DeletersOf(n)') = Cardinality(DeletersOf(n)) + 1
<1> TAKE n
<1>1. (victim[a] = n <=> victim'[a] = n) => DeletersOf(n)' = DeletersOf(n)
  BY DEF DeletersOf
<1>2. ASSUME victim[a] = n, victim'[a] # n
      PROVE  Cardinality(DeletersOf(n)') = Cardinality(DeletersOf(n)) - 1
  <2>1. DeletersOf(n)' = DeletersOf(n) \ {a} /\ a \in DeletersOf(n)
    BY <1>2 DEF DeletersOf
  <2> QED BY <2>1, Finite, FS_RemoveElement
<1>3. ASSUME victim[a] # n, victim'[a] = n
      PROVE  Cardinality(DeletersOf(n)') = Cardinality(DeletersOf(n)) + 1
  <2>1. DeletersOf(n)' = DeletersOf(n) \cup {a} /\ a \notin DeletersOf(n)
    BY <1>3 DEF DeletersOf
  <2> QED BY <2>1, Finite, FS_AddElement
<1> QED BY <1>1, <1>2, <1>3

-----------------------------------------------------------------------------
(* What keeps the parts of the invariant *)

LEMMA QueueStays ==
    ASSUME QueuePart, UNCHANGED <<conf, queue>>, Nodes' = Nodes, inactive' \subseteq Nodes
    PROVE  QueuePart'
  BY DEF QueuePart, Apart, Range

LEMMA QueueToHead ==
    ASSUME QueuePart, UNCHANGED conf, NEW n \in conf.zone, ToHead(n), Nodes' = Nodes \cup {n}
    PROVE  QueuePart'
<1> DEFINE q == <<n>> \o Without(queue, n)
<1>1. q \in Seq(conf.zone) /\ Apart(q) /\ Range(q) = Range(queue) \cup {n}
  <2> DEFINE zone == conf.zone
  <2>1. queue \in Seq(zone) /\ Apart(queue) /\ n \in zone
    BY DEF QueuePart
  <2> HIDE DEF zone
  <2>2. /\ <<n>> \o Without(queue, n) \in Seq(zone) /\ Apart(<<n>> \o Without(queue, n))
        /\ Range(<<n>> \o Without(queue, n)) = Range(queue) \cup {n}
    BY <2>1, HeadedIs
  <2> QED BY <2>2 DEF zone
<1>2. queue' = q /\ inactive' = inactive \ {n}
  BY DEF ToHead
<1> HIDE DEF q
<1>3. queue' \in Seq(conf.zone) /\ Apart(queue)' /\ Range(queue)' = Nodes'
  BY <1>1, <1>2 DEF QueuePart, Apart, Range
<1> QED BY <1>2, <1>3 DEF QueuePart

LEMMA QueueFrees ==
    ASSUME QueuePart, UNCHANGED conf, NEW n, queue' = Without(queue, n),
           inactive' = inactive \ {n}, Nodes' = Nodes \ {n}
    PROVE  QueuePart'
<1> DEFINE q == Without(queue, n)
<1>1. q \in Seq(conf.zone) /\ Apart(q) /\ Range(q) = Range(queue) \ {n}
  <2>1. queue \in Seq(conf.zone) /\ Apart(queue)
    BY DEF QueuePart
  <2> QED BY <2>1, WithoutIs
<1>2. queue' = q
  OBVIOUS
<1> HIDE DEF q
<1>3. queue' \in Seq(conf.zone) /\ Apart(queue)' /\ Range(queue)' = Nodes'
  BY <1>1, <1>2 DEF QueuePart, Apart, Range
<1> QED BY <1>3 DEF QueuePart

LEMMA NodesStay ==
    ASSUME UNCHANGED conf, \A n \in Slots : node'[n].key = node[n].key, conf \in Confs
    PROVE  Nodes' = Nodes
<1>1. conf.zone \subseteq Slots
  BY CacheAssumption DEF CacheAssumption
<1> QED BY <1>1 DEF Nodes

LEMMA RequestMoves ==
    ASSUME RequestPart, NEW r \in Requests, NEW d \in CacheData, NEW s \in RequestPlaces,
           c' = [c EXCEPT ![r] = d], Goto(r, s), Fits(d, s),
           NEW v \in Slots \cup {None}, victim' = [victim EXCEPT ![r] = v],
           v # None <=> s \in Deleting
    PROVE  RequestPart'
<1>1. r # Manager /\ r \in Deleters
  BY CacheAssumption DEF CacheAssumption, Deleters
<1>2. c' \in [Requests -> CacheData] /\ c'[r] = d /\ \A q \in Requests \ {r} : c'[q] = c[q]
  BY DEF RequestPart
<1>3. /\ pc' \in [Deleters -> RequestPlaces \cup ManagerPlaces]
      /\ pc'[r] = s /\ \A a \in Deleters \ {r} : pc'[a] = pc[a]
  BY <1>1 DEF RequestPart, Goto
<1>4. /\ victim' \in [Deleters -> Slots \cup {None}]
      /\ victim'[r] = v /\ \A a \in Deleters \ {r} : victim'[a] = victim[a]
  BY <1>1 DEF RequestPart
<1>5. \A q \in Requests : pc'[q] \in RequestPlaces /\ Fits(c'[q], pc'[q])
  BY <1>2, <1>3 DEF RequestPart, Deleters
<1>6. pc'[Manager] \in ManagerPlaces
  BY <1>1, <1>3 DEF RequestPart, Deleters
<1>7. \A a \in Deleters : victim'[a] # None <=> pc'[a] \in Deleting
  BY <1>3, <1>4 DEF RequestPart
<1> QED BY <1>2, <1>3, <1>4, <1>5, <1>6, <1>7 DEF RequestPart

LEMMA ManagerMoves ==
    ASSUME RequestPart, UNCHANGED c, NEW s \in ManagerPlaces, Goto(Manager, s),
           NEW v \in Slots \cup {None}, victim' = [victim EXCEPT ![Manager] = v],
           v # None <=> s \in Deleting
    PROVE  RequestPart'
<1>1. Manager \notin Requests /\ Manager \in Deleters
  BY CacheAssumption DEF CacheAssumption, Deleters
<1>2. /\ pc' \in [Deleters -> RequestPlaces \cup ManagerPlaces]
      /\ pc'[Manager] = s /\ \A a \in Deleters \ {Manager} : pc'[a] = pc[a]
  BY <1>1 DEF RequestPart, Goto
<1>3. /\ victim' \in [Deleters -> Slots \cup {None}]
      /\ victim'[Manager] = v /\ \A a \in Deleters \ {Manager} : victim'[a] = victim[a]
  BY <1>1 DEF RequestPart
<1>4. \A q \in Requests : pc'[q] \in RequestPlaces /\ Fits(c'[q], pc'[q])
  BY <1>1, <1>2 DEF RequestPart, Deleters
<1>5. \A a \in Deleters : victim'[a] # None <=> pc'[a] \in Deleting
  BY <1>2, <1>3 DEF RequestPart
<1> QED BY <1>2, <1>3, <1>4, <1>5 DEF RequestPart

LEMMA CountStays ==
    ASSUME CountIsKept, UNCHANGED <<conf, victim, leaked>>, conf \in Confs,
           RequestPart,
           \A n \in Slots : node'[n].count = node[n].count /\ node'[n].key = node[n].key,
           \A r \in Requests : /\ c'[r].node = c[r].node
                               /\ c[r].node # None => c'[r].key = c[r].key
    PROVE  CountIsKept'
<1>1. \A n : Users(n)' = Users(n) /\ DeletersOf(n)' = DeletersOf(n)
  BY DEF Users, DeletersOf
<1>2. Nodes' = Nodes
  BY NodesStay
<1>3. \A r \in Requests : c[r].node \in Slots \cup {None}
  BY DEF RequestPart, CacheData
<1>4. \A n \in Slots : node'[n].count = Cardinality(Users(n)') + Cardinality(DeletersOf(n)') + leaked'[n]
  BY <1>1 DEF CountIsKept
<1> QED BY <1>2, <1>3, <1>4 DEF CountIsKept

-----------------------------------------------------------------------------
(* A request takes a step that leaves the queue and the references alone.    *)

LEMMA Quiet ==
    ASSUME IInv, NEW r \in Requests, NEW d \in CacheData, NEW s \in RequestPlaces,
           c' = [c EXCEPT ![r] = d], Goto(r, s), Fits(d, s),
           d.node = c[r].node, c[r].node # None => d.key = c[r].key,
           {pc[r], s} \cap Deleting = {},
           UNCHANGED <<conf, queue, inactive, victim, leaked>>,
           BasePart', node' \in [Slots -> NodeData],
           \A n \in Slots : node'[n].count = node[n].count /\ node'[n].key = node[n].key
    PROVE  IInv'
<1>1. conf \in Confs /\ RequestPart /\ CountIsKept /\ QueuePart /\ NodePart
  BY DEF IInv, BasePart
<1>2. NodePart'
  BY <1>1 DEF NodePart
<1>3. Nodes' = Nodes
  BY <1>1, NodesStay
<1>4. QueuePart'
  BY <1>1, <1>3, QueueStays DEF QueuePart
<1>5. RequestPart'
  <2>1. victim[r] = None /\ victim' = [victim EXCEPT ![r] = None]
    BY <1>1 DEF RequestPart, Deleters
  <2>2. None \in Slots \cup {None} /\ (None # None <=> s \in Deleting)
    OBVIOUS
  <2> QED BY <1>1, <2>1, <2>2, RequestMoves
<1>6. \A q \in Requests : /\ c'[q].node = c[q].node
                          /\ c[q].node # None => c'[q].key = c[q].key
  BY <1>1 DEF RequestPart
<1>7. CountIsKept'
  BY <1>1, <1>6, CountStays
<1> QED BY <1>2, <1>4, <1>5, <1>7 DEF IInv

LEMMA BaseStays ==
    ASSUME BasePart, UNCHANGED <<conf, size, takes, over, owners, leaked, loader, drifted>>,
           file' \in [Keys -> {NoFile} \cup Files]
    PROVE  BasePart'
  BY DEF BasePart, loader

(* The cache of a request and where it is, from the invariant.               *)
LEMMA RequestHas ==
    ASSUME IInv, NEW r \in Requests
    PROVE  /\ c[r] \in CacheData /\ pc[r] \in RequestPlaces /\ Fits(c[r], pc[r])
           /\ c = [c EXCEPT ![r] = c[r]]
           /\ BasePart /\ node \in [Slots -> NodeData]
           /\ file \in [Keys -> {NoFile} \cup Files]
  BY DEF IInv, RequestPart, NodePart, BasePart

LEMMA SizesAre == \A x \in {0} \cup Sizes : x \in Nat /\ (x \in Sizes => x > 0)
  BY CacheAssumption DEF CacheAssumption

LEMMA FileHas ==
    ASSUME NEW f \in {NoFile} \cup Files
    PROVE  /\ f.size \in {0} \cup Sizes /\ f.valid \in BOOLEAN
           /\ [f EXCEPT !.valid = f.size > 0] \in {NoFile} \cup Files
<1> DEFINE b == f.size > 0
<1>1. /\ f \in [size : {0} \cup Sizes, valid : BOOLEAN]
      /\ f.size \in {0} \cup Sizes /\ f.valid \in BOOLEAN /\ b \in BOOLEAN
  <2>1. f = NoFile => f \in [size : {0} \cup Sizes, valid : BOOLEAN]
    BY DEF NoFile
  <2>2. f \in Files => f \in [size : {0} \cup Sizes, valid : BOOLEAN]
    BY DEF Files
  <2>3. b \in BOOLEAN
    OBVIOUS
  <2> HIDE DEF b
  <2>4. f \in [size : {0} \cup Sizes, valid : BOOLEAN]
    BY <2>1, <2>2
  <2> QED BY <2>3, <2>4
<1>2. [f EXCEPT !.valid = b] = [size |-> f.size, valid |-> b]
  <2> HIDE DEF b
  <2> QED BY <1>1
<1>3. CASE f.size = 0
  <2>1. b = FALSE
    BY <1>3
  <2> QED BY <1>1, <1>2, <1>3, <2>1 DEF NoFile
<1>4. CASE f.size # 0
  <2>1. f.size \in Sizes
    BY <1>1, <1>4
  <2> HIDE DEF b
  <2>2. [size |-> f.size, valid |-> b] \in Files
    BY <1>1, <2>1 DEF Files
  <2> QED BY <1>1, <1>2, <2>2 DEF b
<1> QED BY <1>3, <1>4

(* The fields of a node. *)
LEMMA NodeHas ==
    ASSUME NEW f \in NodeData
    PROVE  /\ f.count \in Nat /\ f.uses \in Nat /\ f.lock_time \in Nat
           /\ f.key \in Keys \cup {None} /\ f.fs_size \in {0} \cup Sizes /\ f.fs_size \in Nat
           /\ f.exists \in BOOLEAN /\ f.deleting \in BOOLEAN /\ f.updating \in BOOLEAN
           /\ f.error \in BOOLEAN /\ f.live \in BOOLEAN
  BY SizesAre DEF NodeData

LEMMA QuietSteps ==
    ASSUME IInv, NEW r \in Requests,
           \/ Full(r) \/ NoRoom(r) \/ OpenFails(r) \/ BadHeader(r) \/ Updating(r) \/ NoLock(r)
    PROVE  IInv'
<1> USE RequestHas DEF local, shared, At
<1>1. BasePart'
  BY BaseStays DEF Full, NoRoom, OpenFails, BadHeader, Updating, NoLock
<1>2. \A s \in RequestPlaces :
         /\ Goto(r, s) /\ Fits(c[r], s) /\ UNCHANGED <<c, node, conf, queue, inactive, victim, leaked>>
         /\ {pc[r], s} \cap Deleting = {}
         => IInv'
  BY <1>1, Quiet
<1>3. CASE Full(r)
  BY <1>2, <1>3 DEF Full, Fits, MovedPlaces, RequestPlaces, Deleting, WithNode
<1>4. CASE NoRoom(r)
  <2>1. /\ NewCache \in CacheData /\ Fits(NewCache, "done") /\ NewCache.node = None
        /\ c[r].node = None
    BY <1>4, CacheAssumption DEF NoRoom, Fits, WithNode, NewCache, CacheData, CacheAssumption
  <2>2. {pc[r], "done"} \cap Deleting = {} /\ "done" \in RequestPlaces
    BY <1>4 DEF NoRoom, Deleting, RequestPlaces
  <2> QED BY <1>1, <1>4, <2>1, <2>2, Quiet DEF NoRoom, Done
<1>5. CASE OpenFails(r)
  BY <1>2, <1>5 DEF OpenFails, Fits, MovedPlaces, RequestPlaces, Deleting, WithNode
<1>6. CASE BadHeader(r)
  BY <1>2, <1>6 DEF BadHeader, Fits, MovedPlaces, RequestPlaces, Deleting, WithNode
<1>7. CASE Updating(r)
  BY <1>2, <1>7 DEF Updating, Fits, MovedPlaces, RequestPlaces, Deleting, WithNode
<1>8. CASE NoLock(r)
  BY <1>2, <1>8 DEF NoLock, Fits, MovedPlaces, RequestPlaces, Deleting, WithNode
<1> QED BY <1>3, <1>4, <1>5, <1>6, <1>7, <1>8

LEMMA OpeningSteps ==
    ASSUME IInv, NEW r \in Requests,
           \/ Arrive(r) \/ OpenFile(r) \/ Revalidate(r) \/ GiveUp(r) \/ Rename(r)
    PROVE  IInv'
<1> USE RequestHas DEF local, shared, At
<1>1. CASE Arrive(r)
  <2>1. PICK k \in conf.keys : c' = [c EXCEPT ![r].key = k]
    BY <1>1 DEF Arrive
  <2>2. k \in Keys
    BY CacheAssumption DEF CacheAssumption, BasePart
  <2> DEFINE d == [c[r] EXCEPT !.key = k]
  <2>3. d \in CacheData /\ c' = [c EXCEPT ![r] = d] /\ d.node = c[r].node
    BY <2>1, <2>2 DEF CacheData
  <2>4. c[r].node = None /\ Fits(d, "exists") /\ {pc[r], "exists"} \cap Deleting = {}
    BY <1>1, <2>2 DEF Arrive, Fits, MovedPlaces, WithNode, Deleting, CacheData
  <2>5. BasePart'
    BY <1>1, BaseStays DEF Arrive
  <2> HIDE DEF d
  <2> QED BY <1>1, <2>3, <2>4, <2>5, Quiet DEF Arrive, RequestPlaces
<1>2. CASE OpenFile(r)
  <2> DEFINE d1 == [c[r] EXCEPT !.cacheable = FALSE]
             d2 == [c[r] EXCEPT !.fs_size = file[c[r].key].size, !.stale = ~file[c[r].key].valid]
  <2>1. BasePart'
    BY <1>2, BaseStays DEF OpenFile
  <2>2. pc[r] = "open" /\ c[r].key \in Keys
    BY <1>2 DEF OpenFile, Fits
  <2>3. file[c[r].key].size \in {0} \cup Sizes /\ file[c[r].key].valid \in BOOLEAN
    BY <2>2, FileHas
  <2>4. /\ d1 \in CacheData /\ d1.node = c[r].node /\ d1.key = c[r].key
        /\ Fits(d1, "fetch") /\ Fits(c[r], "lock")
    BY <2>2, ZenonT(60) DEF CacheData, Fits, MovedPlaces, WithNode
  <2>5. /\ d2 \in CacheData /\ d2.node = c[r].node /\ d2.key = c[r].key /\ Fits(d2, "read")
    BY <2>2, <2>3, ZenonT(60) DEF CacheData, Fits, MovedPlaces, WithNode
  <2>6. \/ c' = [c EXCEPT ![r] = d1] /\ Goto(r, "fetch")
        \/ c' = [c EXCEPT ![r] = c[r]] /\ Goto(r, "lock")
        \/ c' = [c EXCEPT ![r] = d2] /\ Goto(r, "read")
    BY <1>2 DEF OpenFile
  <2>7. {pc[r], "fetch"} \cap Deleting = {} /\ {pc[r], "lock"} \cap Deleting = {} /\ {pc[r], "read"} \cap Deleting = {}
    BY <2>2 DEF Deleting
  <2>8. UNCHANGED <<node, conf, queue, inactive, victim, leaked>>
    BY <1>2 DEF OpenFile
  <2> HIDE DEF d1, d2
  <2> QED BY <2>1, <2>4, <2>5, <2>6, <2>7, <2>8, Quiet DEF RequestPlaces
<1>3. CASE Revalidate(r)
  <2>1. pc[r] = "fetch" /\ c[r].key \in Keys
    BY <1>3 DEF Revalidate, Fits
  <2>2. file' \in [Keys -> {NoFile} \cup Files]
    <3>1. file' = [file EXCEPT ![c[r].key] = [file[c[r].key] EXCEPT !.valid = file[c[r].key].size > 0]]
      BY <1>3 DEF Revalidate
    <3>2. [file[c[r].key] EXCEPT !.valid = file[c[r].key].size > 0] \in {NoFile} \cup Files
      BY <2>1, FileHas
    <3> QED BY <2>1, <3>1, <3>2
  <2>3. BasePart'
    BY <1>3, <2>2, BaseStays DEF Revalidate
  <2>4. Fits(c[r], "answer") /\ {pc[r], "answer"} \cap Deleting = {}
    BY <2>1 DEF Fits, MovedPlaces, WithNode, Deleting
  <2> QED BY <1>3, <2>3, <2>4, Quiet DEF Revalidate, RequestPlaces
<1>4. CASE GiveUp(r)
  <2>1. PICK e \in {"no", "cached", "new"} : c' = [c EXCEPT ![r].error = e]
    <3>1. c[r].error \in {"no", "cached", "new"}
      BY DEF CacheData
    <3> QED BY <1>4, <3>1 DEF GiveUp
  <2> DEFINE d == [c[r] EXCEPT !.error = e]
  <2>2. d \in CacheData /\ c' = [c EXCEPT ![r] = d] /\ d.node = c[r].node /\ d.key = c[r].key
    BY <2>1 DEF CacheData
  <2>3. Fits(d, "answer") /\ {pc[r], "answer"} \cap Deleting = {}
    BY <1>4 DEF GiveUp, Fits, MovedPlaces, WithNode, Deleting, CacheData
  <2>4. BasePart'
    BY <1>4, BaseStays DEF GiveUp
  <2> HIDE DEF d
  <2> QED BY <1>4, <2>2, <2>3, <2>4, Quiet DEF GiveUp, RequestPlaces
<1>5. CASE Rename(r)
  <2>1. PICK s \in Sizes, moved \in BOOLEAN, ok \in BOOLEAN :
           /\ file' = IF moved THEN [file EXCEPT ![c[r].key] = [size |-> s, valid |-> TRUE]] ELSE file
           /\ c' = [c EXCEPT ![r].updating = FALSE, ![r].ok = ok, ![r].fs_size = IF ok THEN s ELSE 0]
    BY <1>5 DEF Rename
  <2> DEFINE d == [c[r] EXCEPT !.updating = FALSE, !.ok = ok, !.fs_size = IF ok THEN s ELSE 0]
  <2>2. pc[r] = "fetch" /\ c[r].key \in Keys
    BY <1>5 DEF Rename, Fits
  <2>3. d \in CacheData /\ c' = [c EXCEPT ![r] = d] /\ d.node = c[r].node /\ d.key = c[r].key
    BY <2>1, ZenonT(60) DEF CacheData
  <2>4. Fits(d, "update") /\ {pc[r], "update"} \cap Deleting = {}
    BY <2>2 DEF Fits, MovedPlaces, WithNode, Deleting, CacheData
  <2>5. file' \in [Keys -> {NoFile} \cup Files]
    BY <2>1, <2>2 DEF Files
  <2>6. BasePart'
    BY <1>5, <2>5, BaseStays DEF Rename
  <2> HIDE DEF d
  <2> QED BY <1>5, <2>3, <2>4, <2>6, Quiet DEF Rename, RequestPlaces
<1> QED BY <1>1, <1>2, <1>3, <1>4, <1>5

LEMMA StillFits ==
    ASSUME NEW d, NEW g, NEW s \in WithNode, NEW t \in WithNode \ {"update"}, Fits(d, s),
           d.key \in Keys, g.node = d.node, g.key = d.key, g.moved = d.moved,
           g.moved => t \in MovedPlaces, g.updating => g.moved \/ t \in {"fetch", "answer"}
    PROVE  Fits(g, t)
<1>1. g.node # None
  BY DEF Fits
<1> QED BY <1>1 DEF Fits, WithNode

LEMMA LockSteps ==
    ASSUME IInv, NEW r \in Requests,
           \/ Wait(r) \/ LockWait(r) \/ WaitTooLong(r) \/ TakeLock(r) \/ TakeStale(r)
    PROVE  IInv'
<1>0. /\ c[r] \in CacheData /\ pc[r] \in RequestPlaces /\ Fits(c[r], pc[r])
      /\ c = [c EXCEPT ![r] = c[r]]
      /\ BasePart /\ node \in [Slots -> NodeData] /\ file \in [Keys -> {NoFile} \cup Files]
  BY RequestHas
<1> USE <1>0 DEF local, shared, At
<1>1. CASE Wait(r)
  <2> DEFINE d1 == [c[r] EXCEPT !.cacheable = FALSE]
             d2 == [c[r] EXCEPT !.timer = TRUE]
  <2>0. pc[r] = "lock" /\ c[r].key \in Keys /\ ~c[r].moved /\ ~c[r].updating
    BY <1>1 DEF Wait, Fits, MovedPlaces
  <2>a. /\ d1 \in CacheData /\ d1.node = c[r].node /\ d1.key = c[r].key
        /\ d1.moved = c[r].moved /\ d1.updating = c[r].updating
    BY DEF CacheData
  <2>b. /\ d2 \in CacheData /\ d2.node = c[r].node /\ d2.key = c[r].key
        /\ d2.moved = c[r].moved /\ d2.updating = c[r].updating
    BY DEF CacheData
  <2>1. /\ d1 \in CacheData /\ d1.node = c[r].node /\ d1.key = c[r].key /\ Fits(d1, "fetch")
        /\ d2 \in CacheData /\ d2.node = c[r].node /\ d2.key = c[r].key /\ Fits(d2, "waiting")
    <3> HIDE DEF d1, d2
    <3>1. {"lock", "fetch", "waiting"} \subseteq WithNode
      BY DEF WithNode
    <3>2. Fits(d1, "fetch")
      BY <2>0, <2>a, <3>1, StillFits
    <3>3. Fits(d2, "waiting")
      BY <2>0, <2>b, <3>1, StillFits
    <3> QED BY <2>a, <2>b, <3>2, <3>3
  <2>2. {pc[r], "fetch"} \cap Deleting = {} /\ {pc[r], "waiting"} \cap Deleting = {}
    BY <1>1 DEF Wait, Deleting
  <2>3. \/ c' = [c EXCEPT ![r] = d1] /\ Goto(r, "fetch")
        \/ c' = [c EXCEPT ![r] = d2] /\ Goto(r, "waiting")
    BY <1>1 DEF Wait
  <2>4. BasePart' /\ UNCHANGED <<node, conf, queue, inactive, victim, leaked>>
    BY <1>1, BaseStays DEF Wait
  <2> HIDE DEF d1, d2
  <2> QED BY <2>1, <2>2, <2>3, <2>4, Quiet DEF RequestPlaces
<1>2. CASE LockWait(r) \/ WaitTooLong(r)
  <2>1. pc[r] = "waiting" /\ c[r].node # None /\ c[r].key \in Keys /\ ~c[r].updating /\ ~c[r].moved
    BY <1>2 DEF LockWait, WaitTooLong, Fits, MovedPlaces, WithNode, CacheData
  <2>2. BasePart' /\ UNCHANGED <<node, conf, queue, inactive, victim, leaked>>
    BY <1>2, BaseStays DEF LockWait, WaitTooLong
  <2>3. {pc[r], "exists"} \cap Deleting = {} /\ {pc[r], "waiting"} \cap Deleting = {}
    BY <2>1 DEF Deleting
  <2>4. CASE c' = [c EXCEPT ![r].timer = Rearmed] /\ UNCHANGED pc
    <3> DEFINE d == [c[r] EXCEPT !.timer = Rearmed]
    <3>1. /\ d \in CacheData /\ d.node = c[r].node /\ d.key = c[r].key /\ Fits(d, "waiting")
          /\ c' = [c EXCEPT ![r] = d]
      BY <2>1, <2>4, ZenonT(60) DEF CacheData, Fits, MovedPlaces, WithNode, Rearmed
    <3>2. Goto(r, "waiting")
      <4>1. pc \in [Deleters -> RequestPlaces \cup ManagerPlaces] /\ r \in Deleters
        BY DEF IInv, RequestPart, Deleters
      <4> QED BY <2>1, <2>4, <4>1 DEF Goto
    <3> HIDE DEF d
    <3> QED BY <2>2, <2>3, <3>1, <3>2, Quiet DEF RequestPlaces
  <2>5. ASSUME NEW late \in BOOLEAN, WakeUp(r, late) PROVE IInv'
    <3> DEFINE d == [c[r] EXCEPT !.timer = FALSE, !.late = late]
    <3>1. /\ d \in CacheData /\ d.node = c[r].node /\ d.key = c[r].key /\ Fits(d, "exists")
          /\ c' = [c EXCEPT ![r] = d] /\ Goto(r, "exists")
      BY <2>1, <2>5, ZenonT(60) DEF CacheData, Fits, MovedPlaces, WithNode, WakeUp
    <3> HIDE DEF d
    <3> QED BY <2>2, <2>3, <3>1, Quiet DEF RequestPlaces
  <2> QED BY <1>2, <2>4, <2>5 DEF LockWait, WaitTooLong
<1>3. CASE TakeLock(r)
  <2>0. PICK time \in {takes, takes + 1} : takes' = time
    BY <1>3 DEF TakeLock
  <2> DEFINE n == c[r].node
             d == [c[r] EXCEPT !.updating = TRUE, !.lock_time = time]
             f == [node[n] EXCEPT !.updating = TRUE, !.lock_time = time]
  <2>1. n \in Slots /\ time \in Nat /\ pc[r] = "lock"
    BY <1>3 DEF TakeLock, Fits, WithNode, CacheData, BasePart
  <2>2. node' = [node EXCEPT ![n] = f] /\ c' = [c EXCEPT ![r] = d] /\ takes' = time /\ Goto(r, "fetch")
    BY <1>3, <2>0 DEF TakeLock
  <2>3. f \in NodeData /\ f.count = node[n].count /\ f.key = node[n].key
    <3>1. node[n] \in NodeData
      BY <2>1
    <3> QED BY <2>1, <3>1 DEF NodeData
  <2>4. d \in CacheData /\ d.node = c[r].node /\ d.key = c[r].key /\ Fits(d, "fetch")
    BY <2>1, ZenonT(60) DEF CacheData, Fits, MovedPlaces, WithNode
  <2>5. owners' \in [Slots -> SUBSET Requests] /\ over' \subseteq Slots
    BY <1>3, <2>1 DEF TakeLock, BasePart
  <2>6. UNCHANGED <<conf, size, file, leaked, todo, seen, cold, drifted, queue, inactive, victim>>
    BY <1>3 DEF TakeLock, loader
  <2>7. BasePart'
    BY <2>1, <2>2, <2>5, <2>6 DEF BasePart
  <2>8. {pc[r], "fetch"} \cap Deleting = {}
    BY <2>1 DEF Deleting
  <2> HIDE DEF d, f, n
  <2>9. node' \in [Slots -> NodeData] /\ \A m \in Slots : node'[m].count = node[m].count /\ node'[m].key = node[m].key
    BY <2>1, <2>2, <2>3
  <2> QED BY <2>2, <2>4, <2>6, <2>7, <2>8, <2>9, Quiet DEF RequestPlaces
<1>4. CASE TakeStale(r)
  <2> DEFINE n == c[r].node
             time == node[n].lock_time
             d == [c[r] EXCEPT !.updating = TRUE, !.lock_time = time]
             f == [node[n] EXCEPT !.updating = TRUE]
  <2>1. n \in Slots /\ pc[r] = "expired"
    BY <1>4 DEF TakeStale, Fits, WithNode, CacheData
  <2>2. node' = [node EXCEPT ![n] = f] /\ c' = [c EXCEPT ![r] = d] /\ Goto(r, "fetch")
    BY <1>4 DEF TakeStale
  <2>3. f \in NodeData /\ f.count = node[n].count /\ f.key = node[n].key /\ time \in Nat
    <3>1. node[n] \in NodeData
      BY <2>1
    <3> QED BY <2>1, <3>1 DEF NodeData
  <2> HIDE DEF time
  <2>4. d \in CacheData /\ d.node = c[r].node /\ d.key = c[r].key /\ Fits(d, "fetch")
    <3>1. d \in CacheData /\ d.node = c[r].node /\ d.key = c[r].key /\ d.moved = c[r].moved
      BY <2>3 DEF CacheData
    <3>2. c[r].key \in Keys /\ ~c[r].moved
      BY <2>1 DEF Fits, MovedPlaces
    <3>3. "expired" \in WithNode /\ "fetch" \in WithNode \ {"update"}
      BY DEF WithNode
    <3> HIDE DEF d
    <3>4. Fits(d, "fetch")
      BY <2>1, <3>1, <3>2, <3>3, StillFits
    <3> QED BY <3>1, <3>4
  <2>5. BasePart'
    BY <1>4, BaseStays DEF TakeStale
  <2>6. {pc[r], "fetch"} \cap Deleting = {}
    BY <2>1 DEF Deleting
  <2> HIDE DEF d, f, n
  <2>7. node' \in [Slots -> NodeData] /\ \A m \in Slots : node'[m].count = node[m].count /\ node'[m].key = node[m].key
    BY <2>1, <2>2, <2>3
  <2> QED BY <1>4, <2>2, <2>4, <2>5, <2>6, <2>7, Quiet DEF RequestPlaces, TakeStale
<1> QED BY <1>1, <1>2, <1>3, <1>4

LEMMA ReadFileStep ==
    ASSUME IInv, NEW r \in Requests, ReadFile(r)
    PROVE  IInv'
<1> USE RequestHas DEF At, shared
<1> DEFINE n == c[r].node
           f == [node[n] EXCEPT !.uses = 1, !.exists = TRUE, !.fs_size = c[r].fs_size]
<1>1. n \in Slots /\ pc[r] = "read" /\ c[r].fs_size \in {0} \cup Sizes
  BY DEF ReadFile, Fits, WithNode, CacheData
<1>2. c' = [c EXCEPT ![r] = c[r]] /\ \E s \in {"expired", "answer"} : Goto(r, s)
  BY DEF ReadFile
<1>3. \/ UNCHANGED <<node, size>>
      \/ node' = [node EXCEPT ![n] = f] /\ size' = size + c[r].fs_size
  BY DEF ReadFile
<1>4. f \in NodeData /\ f.count = node[n].count /\ f.key = node[n].key
  <2>1. node[n] \in NodeData
    BY <1>1
  <2> QED BY <1>1, <2>1 DEF NodeData
<1>5. size' \in Int
  BY <1>1, <1>3, CacheAssumption DEF BasePart, CacheAssumption
<1>6. BasePart'
  BY <1>5 DEF ReadFile, BasePart, loader
<1>7. \A s \in {"expired", "answer"} : Fits(c[r], s) /\ {pc[r], s} \cap Deleting = {} /\ s \in RequestPlaces
  BY <1>1 DEF Fits, MovedPlaces, WithNode, Deleting, RequestPlaces
<1>8. UNCHANGED <<conf, queue, inactive, victim, leaked>>
  BY DEF ReadFile
<1> HIDE DEF f, n
<1>9. node' \in [Slots -> NodeData] /\ \A m \in Slots : node'[m].count = node[m].count /\ node'[m].key = node[m].key
  BY <1>1, <1>3, <1>4
<1> QED BY <1>2, <1>6, <1>7, <1>8, <1>9, Quiet

-----------------------------------------------------------------------------
(* A request finds a node or makes one.                                      *)

LEMMA Zone ==
    ASSUME conf \in Confs
    PROVE  /\ conf.zone \subseteq Slots /\ None \notin Slots
           /\ conf.keys \subseteq Keys /\ conf.variants \subseteq Keys
           /\ conf.min_uses \in Nat /\ conf.min_uses > 0 /\ None \notin Keys
           /\ (conf.min_uses > 1) \in BOOLEAN
<1>1. /\ conf.zone \in SUBSET Slots /\ conf.keys \in SUBSET Keys
      /\ conf.variants \in SUBSET Keys /\ conf.min_uses \in Nat \ {0}
      /\ None \notin Slots /\ None \notin Keys
  BY CacheAssumption DEF CacheAssumption
<1>2. (conf.min_uses > 1) \in BOOLEAN
  OBVIOUS
<1> QED BY <1>1, <1>2

LookupGoes(r, n, f, s, scarce) ==
    /\ node' = [node EXCEPT ![n] = f]
    /\ c' = [c EXCEPT ![r].node = n, ![r].scarce = scarce,
                      ![r].error = IF f.error THEN "cached" ELSE "no",
                      ![r].cacheable = c[r].moved \/ ~(scarce /\ s = "fetch")]
    /\ Goto(r, AfterExists(r, s))

LEMMA LookupIs ==
    ASSUME IInv, NEW r \in Requests, NEW n \in Slots, Lookup(r, n)
    PROVE  \E f \in {Counted(r, node[n]), Renewed(Counted(r, node[n]))},
              s \in {"open", "fetch", "lock", "answer"}, scarce \in BOOLEAN :
                 LookupGoes(r, n, f, s, scarce)
<1> DEFINE f == Counted(r, node[n])
<1>1. AfterDeclined \in {"open", "fetch", "lock"}
  BY DEF AfterDeclined
<1>2. (conf.min_uses > 1) \in BOOLEAN
  OBVIOUS
<1> HIDE DEF f
<1> QED BY <1>1, <1>2 DEF Lookup, LookupGoes, f

LEMMA LookupStep ==
    ASSUME IInv, NEW r \in Requests, NEW n \in Slots, Lookup(r, n)
    PROVE  IInv'
<1> DEFINE f == Counted(r, node[n])
<1>1. /\ BasePart /\ NodePart /\ QueuePart /\ RequestPart /\ CountIsKept
      /\ node[n] \in NodeData /\ c[r] \in CacheData /\ pc[r] = "exists" /\ Fits(c[r], pc[r])
      /\ conf \in Confs /\ cold \in BOOLEAN
  BY DEF IInv, NodePart, RequestPart, Lookup, At, BasePart
<1>2. /\ c[r].key \in Keys /\ (c[r].updating => c[r].moved) /\ n # None
      /\ c[r].node = None \/ c[r].node = n
      /\ node[n].key = c[r].key /\ n \in Nodes
  <2>1. c[r].key \in Keys /\ (c[r].updating => c[r].moved) /\ n # None /\ None \notin Keys
    BY <1>1, Zone DEF Fits, CacheData
  <2>2. node[n].key = c[r].key /\ (c[r].node = None \/ c[r].node = n)
    BY <1>1, <2>1 DEF Lookup, Found, CountIsKept
  <2>3. n \in conf.zone
    BY <1>1, <2>1, <2>2 DEF NodePart
  <2> QED BY <2>1, <2>2, <2>3 DEF Nodes
<1>3. /\ f \in NodeData /\ f.key = node[n].key
      /\ f.count = IF c[r].node = None THEN node[n].count + 1 ELSE node[n].count
  <2>1. Used(node[n]) \in Nat
    BY <1>1, NodeHas DEF Used
  <2>2. node[n].count + 1 \in Nat
    BY <1>1, NodeHas
  <2> QED BY <1>1, <2>1, <2>2 DEF Counted, FirstUse, NodeData
<1> HIDE DEF f
<1>4. PICK f2 \in {f, Renewed(f)}, s \in {"open", "fetch", "lock", "answer"}, scarce \in BOOLEAN :
         LookupGoes(r, n, f2, s, scarce)
  BY LookupIs DEF f
<1>5. f2 \in NodeData /\ f2.key = node[n].key /\ f2.count = f.count
  BY <1>3, <1>4 DEF Renewed, NodeData
<1> DEFINE b == c[r].moved \/ ~(scarce /\ s = "fetch")
           e == IF f2.error THEN "cached" ELSE "no"
           d == [c[r] EXCEPT !.node = n, !.scarce = scarce, !.error = e, !.cacheable = b]
           next == AfterExists(r, s)
<1>6. b \in BOOLEAN /\ e \in {"no", "cached", "new"}
  OBVIOUS
<1>7. c' = [c EXCEPT ![r] = d] /\ node' = [node EXCEPT ![n] = f2] /\ Goto(r, next)
  BY <1>4 DEF LookupGoes
<1> HIDE DEF b, e
<1>8. /\ d \in CacheData /\ d.node = n /\ d.key = c[r].key /\ d.updating = c[r].updating
      /\ d.moved = c[r].moved
  <2>1. d \in CacheData
    BY <1>1, <1>6 DEF CacheData
  <2>2. d.node = n /\ d.key = c[r].key
    BY <1>1 DEF CacheData
  <2>3. d.updating = c[r].updating /\ d.moved = c[r].moved
    BY <1>1 DEF CacheData
  <2> QED BY <2>1, <2>2, <2>3
<1> HIDE DEF d
<1>9. c' \in [Requests -> CacheData] /\ c'[r] = d /\ \A q \in Requests \ {r} : c'[q] = c[q]
  BY <1>1, <1>7, <1>8 DEF RequestPart
<1>10. /\ node' \in [Slots -> NodeData] /\ node'[n] = f2
       /\ \A m \in Slots \ {n} : node'[m] = node[m]
  BY <1>1, <1>5, <1>7 DEF NodePart
<1>11. NodePart'
  <2>1. conf' = conf /\ n \in conf.zone
    BY <1>2 DEF Lookup, Nodes
  <2>2. ASSUME NEW m \in Slots
        PROVE  IF node'[m].key = None THEN node'[m].count = 0 ELSE m \in conf.zone
    <3>1. CASE m = n
      <4>1. node'[m].key # None
        BY <1>2, <1>5, <1>10, <1>1, <3>1, Zone
      <4> QED BY <2>1, <3>1, <4>1
    <3>2. CASE m # n
      <4>1. node'[m] = node[m]
        BY <1>10, <3>2
      <4> QED BY <1>1, <4>1 DEF NodePart
    <3> QED BY <3>1, <3>2
  <2> QED BY <1>10, <2>1, <2>2 DEF NodePart
<1>12. QueuePart'
  <2>1. UNCHANGED conf /\ ToHead(n) /\ n \in conf.zone
    BY <1>2 DEF Lookup, Nodes
  <2>2. Nodes' = Nodes
    BY <1>1, <1>5, <1>10, <2>1, NodesStay
  <2> QED BY <1>1, <1>2, <2>1, <2>2, QueueToHead
<1>13. RequestPart'
  <2>1. victim' = [victim EXCEPT ![r] = None] /\ None \in Slots \cup {None}
    BY <1>1, ZenonT(60) DEF RequestPart, Deleters, Deleting, Lookup
  <2>2. Fits(d, next) /\ next \in RequestPlaces /\ next \notin Deleting
    <3>1. next = "fetch" \/ (~d.moved /\ next = s)
      BY <1>8 DEF AfterExists
    <3> HIDE DEF next
    <3> QED BY <1>2, <1>8, <3>1 DEF Fits, MovedPlaces, WithNode, RequestPlaces, Deleting
  <2> HIDE DEF next
  <2> QED BY <1>1, <1>7, <1>8, <2>1, <2>2, RequestMoves
<1>14. CountIsKept'
  <2>1. UNCHANGED <<conf, victim, leaked>>
    BY DEF Lookup
  <2>2. \A m : DeletersOf(m)' = DeletersOf(m)
    BY <2>1 DEF DeletersOf
  <2>3. \A m \in Slots \ {n} : Users(m)' = Users(m)
    BY <1>2, <1>8, <1>9, UsersChange, Zone, <1>1
  <2>4. Cardinality(Users(n)') = IF c[r].node = None THEN Cardinality(Users(n)) + 1
                                                     ELSE Cardinality(Users(n))
    BY <1>2, <1>8, <1>9, UsersChange
  <2>5. ASSUME NEW m \in Slots
        PROVE  node'[m].count = Cardinality(Users(m)') + Cardinality(DeletersOf(m)') + leaked'[m]
    <3>1. node[m].count = Cardinality(Users(m)) + Cardinality(DeletersOf(m)) + leaked[m]
      BY <1>1 DEF CountIsKept
    <3>2. leaked[m] \in Nat /\ leaked'[m] = leaked[m]
      BY <1>1, <2>1 DEF BasePart
    <3>3. CASE m = n
      <4> DEFINE x == Cardinality(Users(n))
                 y == Cardinality(DeletersOf(n))
      <4>1. x \in Nat /\ y \in Nat
        BY Finite
      <4>2. node'[n].count = IF c[r].node = None THEN x + y + leaked[n] + 1 ELSE x + y + leaked[n]
        BY <1>3, <1>5, <1>10, <3>1, <3>3
      <4>3. Cardinality(Users(n)') = (IF c[r].node = None THEN x + 1 ELSE x)
            /\ Cardinality(DeletersOf(n)') = y
        BY <2>2, <2>4
      <4> HIDE DEF x, y
      <4> QED BY <3>2, <3>3, <4>1, <4>2, <4>3
    <3>4. CASE m # n
      BY <1>10, <2>2, <2>3, <3>1, <3>2, <3>4
    <3> QED BY <3>3, <3>4
  <2>6. ASSUME NEW q \in Requests, c'[q].node # None PROVE node'[c'[q].node].key = c'[q].key
    <3>1. c[q].node \in Slots \cup {None}
      BY <1>1 DEF RequestPart, CacheData
    <3>2. \A m \in Slots : node'[m].key = node[m].key
      BY <1>5, <1>10
    <3> QED BY <1>1, <1>2, <1>8, <1>9, <2>6, <3>1, <3>2 DEF CountIsKept
  <2>7. Nodes' = Nodes
    BY <1>1, <1>5, <1>10, <2>1, NodesStay
  <2> QED BY <1>1, <2>1, <2>5, <2>6, <2>7 DEF CountIsKept
<1>15. BasePart'
  <2>1. drifted' \in BOOLEAN
    <3>1. drifted \in BOOLEAN
      BY <1>1 DEF BasePart
    <3> QED BY <3>1 DEF Lookup
  <2> QED BY <1>1, <2>1 DEF BasePart, Lookup, loader
<1> QED BY <1>11, <1>12, <1>13, <1>14, <1>15 DEF IInv

(* Nobody refers to a free place.                                            *)
LEMMA FreePlace ==
    ASSUME IInv, NEW n \in conf.zone \ Nodes
    PROVE  /\ n \in Slots /\ node[n].key = None /\ node[n].count = 0
           /\ Users(n) = {} /\ DeletersOf(n) = {} /\ leaked[n] = 0
<1>1. n \in Slots /\ node[n].key = None /\ node[n].count = 0
  BY Zone DEF IInv, BasePart, NodePart, Nodes
<1>2. node[n].count = Cardinality(Users(n)) + Cardinality(DeletersOf(n)) + leaked[n]
  BY <1>1 DEF IInv, CountIsKept
<1>3. leaked[n] \in Nat
  BY <1>1 DEF IInv, BasePart
<1> DEFINE x == Cardinality(Users(n))
           y == Cardinality(DeletersOf(n))
           z == leaked[n]
<1>4. x \in Nat /\ y \in Nat /\ z \in Nat
  BY <1>3, Finite
<1>5. x = 0 /\ y = 0 /\ z = 0
  <2>1. node[n].count = x + y + z /\ node[n].count = 0
    BY <1>1, <1>2
  <2> HIDE DEF x, y, z
  <2> QED BY <1>4, <2>1
<1>6. Users(n) = {} /\ DeletersOf(n) = {}
  BY <1>5, Finite, FS_EmptySet DEF x, y
<1> QED BY <1>1, <1>5, <1>6 DEF z

(* A node appears, with the references that the new caches of requests have. *)
LEMMA NodeAppears ==
    ASSUME IInv, NEW n \in conf.zone \ Nodes, NEW f \in NodeData, f.key \in Keys,
           node' = [node EXCEPT ![n] = f], ToHead(n), UNCHANGED <<conf, victim, leaked>>,
           RequestPart', f.count = Cardinality(Users(n)'),
           \A m \in Slots \ {n} : Users(m)' = Users(m),
           \A q \in Requests : c'[q].node = n => c'[q].key = f.key,
           \A q \in Requests : c'[q].node # n => UNCHANGED c[q]
    PROVE  NodePart' /\ QueuePart' /\ CountIsKept'
<1>1. /\ BasePart /\ NodePart /\ QueuePart /\ RequestPart /\ CountIsKept
      /\ n \in Slots /\ conf \in Confs /\ f.key # None
  BY FreePlace, Zone DEF IInv, BasePart
<1>2. /\ node' \in [Slots -> NodeData] /\ node'[n] = f
      /\ \A m \in Slots \ {n} : node'[m] = node[m]
  BY <1>1 DEF NodePart
<1>3. NodePart'
  BY <1>1, <1>2 DEF NodePart
<1>4. Nodes' = Nodes \cup {n}
  BY <1>1, <1>2, Zone DEF Nodes
<1>5. QueuePart'
  BY <1>1, <1>4, QueueToHead
<1>6. \A m : DeletersOf(m)' = DeletersOf(m)
  BY DEF DeletersOf
<1>7. ASSUME NEW m \in Slots
      PROVE  node'[m].count = Cardinality(Users(m)') + Cardinality(DeletersOf(m)') + leaked'[m]
  <2>1. CASE m = n
    <3>1. DeletersOf(n)' = {} /\ leaked'[n] = 0
      BY <1>6, FreePlace
    <3>2. f.count \in Nat /\ Cardinality(DeletersOf(n)') = 0
      BY <3>1, NodeHas, FS_EmptySet
    <3> QED BY <1>2, <2>1, <3>1, <3>2
  <2>2. CASE m # n
    BY <1>1, <1>2, <1>6, <2>2 DEF CountIsKept
  <2> QED BY <2>1, <2>2
<1>8. ASSUME NEW q \in Requests, c'[q].node # None PROVE node'[c'[q].node].key = c'[q].key
  <2>1. CASE c'[q].node = n
    BY <1>2, <2>1
  <2>2. CASE c'[q].node # n
    <3>1. c'[q] = c[q] /\ c[q].node \in Slots
      BY <1>8, <2>2, <1>1 DEF RequestPart, CacheData
    <3> QED BY <1>1, <1>2, <1>8, <2>2, <3>1 DEF CountIsKept
  <2> QED BY <2>1, <2>2
<1>9. CountIsKept'
  BY <1>1, <1>4, <1>7, <1>8 DEF CountIsKept
<1> QED BY <1>3, <1>5, <1>9

LEMMA InsertStep ==
    ASSUME IInv, NEW r \in Requests, Create(r) \/ Retry(r)
    PROVE  IInv'
<1>1. /\ BasePart /\ NodePart /\ RequestPart
      /\ c[r] \in CacheData /\ Fits(c[r], pc[r]) /\ conf \in Confs
      /\ pc[r] \in {"exists", "retry"} /\ c[r].node = None
  BY DEF IInv, RequestPart, Create, Retry, At, BasePart, Fits, WithNode
<1>2. PICK n \in conf.zone \ Nodes : Insert(r, n)
  BY DEF Create, Retry
<1>3. n \in Slots /\ Users(n) = {} /\ n # None /\ c[r].key \in Keys /\ (c[r].updating => c[r].moved)
  BY <1>1, <1>2, FreePlace, Zone DEF Fits, CacheData
<1> DEFINE f == [FreeNode EXCEPT !.key = c[r].key, !.uses = 1, !.count = 1]
           b1 == conf.min_uses > 1
           b2 == c[r].moved \/ ~(conf.min_uses > 1 /\ ~cold)
           d == [c[r] EXCEPT !.node = n, !.scarce = b1, !.cacheable = b2]
           s == AfterExists(r, AfterDeclined)
<1>4. f \in NodeData /\ f.key = c[r].key /\ f.count = 1
  BY <1>3 DEF FreeNode, NodeData
<1>5. node' = [node EXCEPT ![n] = f] /\ ToHead(n) /\ c' = [c EXCEPT ![r] = d] /\ Goto(r, s)
  BY <1>2 DEF Insert
<1>6. b1 \in BOOLEAN /\ b2 \in BOOLEAN /\ s \in {"open", "fetch", "lock"} /\ (c[r].moved => s = "fetch")
  BY <1>1, Zone DEF AfterDeclined, AfterExists
<1> HIDE DEF b1, b2, f, s
<1>7. /\ d \in CacheData /\ d.node = n /\ d.key = c[r].key /\ d.updating = c[r].updating
      /\ d.moved = c[r].moved
  <2>0. c[r] \in CacheData /\ n \in Slots /\ b1 \in BOOLEAN /\ b2 \in BOOLEAN
    BY <1>1, <1>3, <1>6
  <2>1. d \in CacheData
    BY <2>0 DEF CacheData
  <2>2. d.node = n /\ d.key = c[r].key
    BY <1>1 DEF CacheData
  <2>3. d.updating = c[r].updating /\ d.moved = c[r].moved
    BY <1>1 DEF CacheData
  <2> QED BY <2>1, <2>2, <2>3
<1> HIDE DEF d
<1>8. c'[r] = d /\ \A q \in Requests \ {r} : c'[q] = c[q]
  BY <1>1, <1>5 DEF RequestPart
<1>9. RequestPart'
  <2>1. victim' = [victim EXCEPT ![r] = None] /\ None \in Slots \cup {None}
    BY <1>1, <1>2 DEF RequestPart, Deleters, Deleting, Insert
  <2>2. Fits(d, s) /\ s \in RequestPlaces /\ s \notin Deleting
    BY <1>3, <1>6, <1>7 DEF Fits, MovedPlaces, WithNode, RequestPlaces, Deleting
  <2> QED BY <1>1, <1>5, <1>7, <2>1, <2>2, RequestMoves
<1>10. /\ f.count = Cardinality(Users(n)')
       /\ \A m \in Slots \ {n} : Users(m)' = Users(m)
       /\ \A q \in Requests : c'[q].node = n => c'[q].key = f.key
       /\ \A q \in Requests : c'[q].node # n => UNCHANGED c[q]
  <2>1. \A m \in Slots \ {n} : Users(m)' = Users(m)
    BY <1>1, <1>7, <1>8, UsersChange, Zone
  <2>2. Users(n)' = {r}
    BY <1>3, <1>7, <1>8 DEF Users
  <2>3. f.count = Cardinality(Users(n)')
    BY <1>4, <2>2, FS_Singleton
  <2>4. \A q \in Requests : c'[q].node = n => q = r
    BY <1>3, <1>8 DEF Users
  <2> QED BY <1>4, <1>7, <1>8, <2>1, <2>3, <2>4
<1>11. UNCHANGED <<conf, victim, leaked>>
  BY <1>2 DEF Insert
<1>12. NodePart' /\ QueuePart' /\ CountIsKept'
  BY <1>2, <1>3, <1>4, <1>5, <1>9, <1>10, <1>11, NodeAppears
<1>13. BasePart'
  BY <1>1, <1>2 DEF BasePart, Insert, loader
<1> QED BY <1>9, <1>12, <1>13 DEF IInv

-----------------------------------------------------------------------------
(* A request or a deleter gives its reference back.                          *)

FreedOrLess(n, f) ==
    \/ /\ node' = [node EXCEPT ![n] = FreeNode] /\ queue' = Without(queue, n)
       /\ inactive' = inactive \ {n} /\ node[n].count = 1
    \/ /\ node' = [node EXCEPT ![n] = f] /\ f \in NodeData
       /\ f.count = node[n].count - 1 /\ f.key = node[n].key
       /\ UNCHANGED <<queue, inactive>>

LEMMA FreeNodeIs == FreeNode \in NodeData /\ FreeNode.key = None /\ FreeNode.count = 0
  BY DEF FreeNode, NodeData

LEMMA ReferenceGoes ==
    ASSUME IInv, NEW n \in Slots, NEW f, FreedOrLess(n, f), RequestPart', UNCHANGED <<conf, leaked>>,
           \/ Cardinality(Users(n)') = Cardinality(Users(n)) - 1 /\ DeletersOf(n)' = DeletersOf(n)
           \/ Cardinality(DeletersOf(n)') = Cardinality(DeletersOf(n)) - 1 /\ Users(n)' = Users(n),
           \A m \in Slots \ {n} : Users(m)' = Users(m) /\ DeletersOf(m)' = DeletersOf(m),
           \A q \in Requests : c'[q].node # None => UNCHANGED c[q],
           \A a \in Deleters : victim'[a] # None => UNCHANGED victim[a]
    PROVE  NodePart' /\ QueuePart' /\ CountIsKept'
<1>1. /\ BasePart /\ NodePart /\ QueuePart /\ RequestPart /\ CountIsKept
      /\ conf \in Confs /\ conf.zone \subseteq Slots /\ None \notin Slots
  BY Zone DEF IInv, BasePart
<1> DEFINE x == Cardinality(Users(n)')
           y == Cardinality(DeletersOf(n)')
           z == leaked[n]
<1>2. /\ Users(n)' \in SUBSET Users(n) /\ DeletersOf(n)' \in SUBSET DeletersOf(n)
      /\ IsFiniteSet(Users(n)') /\ IsFiniteSet(DeletersOf(n)')
  <2>1. Users(n)' \in SUBSET Users(n) /\ DeletersOf(n)' \in SUBSET DeletersOf(n)
    BY <1>1 DEF Users, DeletersOf
  <2> QED BY <2>1, Finite, FS_Subset
<1>3. x \in Nat /\ y \in Nat /\ z \in Nat
  <2>1. z \in Nat
    BY <1>1 DEF BasePart
  <2> QED BY <1>2, <2>1, FS_CardinalityType
<1>4. node[n].count - 1 = x + y + z
  <2> DEFINE u == Cardinality(Users(n))
             w == Cardinality(DeletersOf(n))
  <2>1. u \in Nat /\ w \in Nat /\ node[n].count = u + w + z
    BY <1>1, Finite DEF CountIsKept
  <2>2. (x = u - 1 /\ y = w) \/ (x = u /\ y = w - 1)
    OBVIOUS
  <2> HIDE DEF x, y, z, u, w
  <2> QED BY <1>3, <2>1, <2>2
<1>5. \A m \in Slots : /\ node[m].count = Cardinality(Users(m)) + Cardinality(DeletersOf(m)) + leaked[m]
                       /\ node[m] \in NodeData
  BY <1>1 DEF CountIsKept, NodePart
<1>6. CASE /\ node' = [node EXCEPT ![n] = FreeNode] /\ queue' = Without(queue, n)
           /\ inactive' = inactive \ {n} /\ node[n].count = 1
  <2>1. /\ node' \in [Slots -> NodeData] /\ node'[n] = FreeNode
        /\ \A m \in Slots \ {n} : node'[m] = node[m]
    BY <1>1, <1>6, FreeNodeIs DEF NodePart
  <2>2. x = 0 /\ y = 0 /\ z = 0
    <3>1. node[n].count = 1
      BY <1>6
    <3> HIDE DEF x, y, z
    <3> QED BY <1>3, <1>4, <3>1
  <2>3. Users(n)' = {} /\ DeletersOf(n)' = {}
    BY <1>2, <2>2, FS_EmptySet
  <2>4. NodePart'
    BY <1>1, <2>1, FreeNodeIs DEF NodePart
  <2>5. Nodes' = Nodes \ {n}
    BY <1>1, <2>1, FreeNodeIs DEF Nodes
  <2>6. QueuePart'
    BY <1>1, <1>6, <2>5, QueueFrees
  <2>7. ASSUME NEW m \in Slots
        PROVE  node'[m].count = Cardinality(Users(m)') + Cardinality(DeletersOf(m)') + leaked'[m]
    <3>1. CASE m = n
      <4>1. node'[n].count = 0 /\ leaked'[n] = z
        BY <2>1, FreeNodeIs
      <4>2. 0 = x + y + z
        <5> HIDE DEF x, y, z
        <5> QED BY <2>2
      <4> QED BY <3>1, <4>1, <4>2
    <3>2. CASE m # n
      BY <1>5, <2>1, <3>2
    <3> QED BY <3>1, <3>2
  <2>8. ASSUME NEW q \in Requests, c'[q].node # None PROVE node'[c'[q].node].key = c'[q].key
    <3>1. c'[q] = c[q] /\ c[q].node \in Slots /\ c[q].node # n
      BY <2>8, <1>1, <2>3 DEF RequestPart, CacheData, Users
    <3> QED BY <1>1, <2>1, <2>8, <3>1 DEF CountIsKept
  <2>9. ASSUME NEW a \in Deleters, victim'[a] # None PROVE victim'[a] \in Nodes'
    <3>1. victim'[a] = victim[a] /\ victim[a] # n
      BY <2>9, <2>3 DEF DeletersOf
    <3> QED BY <1>1, <2>5, <2>9, <3>1 DEF CountIsKept
  <2>10. CountIsKept'
    BY <2>7, <2>8, <2>9 DEF CountIsKept
  <2> QED BY <2>4, <2>6, <2>10
<1>7. CASE /\ node' = [node EXCEPT ![n] = f] /\ f \in NodeData
           /\ f.count = node[n].count - 1 /\ f.key = node[n].key
           /\ UNCHANGED <<queue, inactive>>
  <2>1. /\ node' \in [Slots -> NodeData] /\ node'[n] = f
        /\ \A m \in Slots \ {n} : node'[m] = node[m]
        /\ \A m \in Slots : node'[m].key = node[m].key
    BY <1>1, <1>7 DEF NodePart
  <2>2. node[n].key # None
    <3>1. node[n].count = x + y + z + 1 /\ node[n].count \in Nat
      <4>1. node[n].count \in Nat
        BY <1>5, NodeHas
      <4> HIDE DEF x, y, z
      <4> QED BY <1>3, <1>4, <4>1
    <3>2. node[n].count # 0
      <4> HIDE DEF x, y, z
      <4> QED BY <1>3, <3>1
    <3> QED BY <1>1, <3>2 DEF NodePart
  <2>3. NodePart'
    BY <1>1, <1>7, <2>1, <2>2 DEF NodePart
  <2>4. Nodes' = Nodes
    BY <1>1, <2>1, NodesStay
  <2>5. QueuePart'
    BY <1>1, <1>7, <2>4, QueueStays DEF QueuePart
  <2>6. ASSUME NEW m \in Slots
        PROVE  node'[m].count = Cardinality(Users(m)') + Cardinality(DeletersOf(m)') + leaked'[m]
    <3>1. CASE m = n
      BY <1>4, <1>7, <2>1, <3>1
    <3>2. CASE m # n
      BY <1>5, <2>1, <3>2
    <3> QED BY <3>1, <3>2
  <2>7. ASSUME NEW q \in Requests, c'[q].node # None PROVE node'[c'[q].node].key = c'[q].key
    <3>1. c'[q] = c[q] /\ c[q].node \in Slots
      BY <2>7, <1>1 DEF RequestPart, CacheData
    <3> QED BY <1>1, <2>1, <2>7, <3>1 DEF CountIsKept
  <2>8. ASSUME NEW a \in Deleters, victim'[a] # None PROVE victim'[a] \in Nodes'
    BY <1>1, <2>4, <2>8 DEF CountIsKept
  <2>9. CountIsKept'
    BY <2>6, <2>7, <2>8 DEF CountIsKept
  <2> QED BY <2>3, <2>5, <2>9
<1> QED BY <1>6, <1>7 DEF FreedOrLess

(* A request leaves its node: it is done, or it goes to another key.         *)
LEMMA RequestLeaves ==
    ASSUME IInv, NEW r \in Requests, NEW n \in Slots, c[r].node = n, NEW f, FreedOrLess(n, f),
           NEW d \in CacheData, d.node = None, d.updating => d.moved, NEW s,
           \/ s = "done" /\ ~d.moved
           \/ s = "exists" /\ d.key \in Keys,
           c' = [c EXCEPT ![r] = d], Goto(r, s), UNCHANGED <<conf, leaked, victim>>
    PROVE  NodePart' /\ QueuePart' /\ CountIsKept' /\ RequestPart'
<1>1. /\ RequestPart /\ n # None /\ c'[r] = d
      /\ \A q \in Requests \ {r} : c'[q] = c[q]
  BY CacheAssumption DEF CacheAssumption, IInv, RequestPart
<1>2. victim[r] = None /\ victim' = [victim EXCEPT ![r] = None]
  <2>1. pc[r] \notin Deleting
    BY <1>1 DEF RequestPart, Fits, WithNode, Deleting
  <2> QED BY <1>1, <2>1 DEF RequestPart, Deleters
<1>3. RequestPart'
  <2>1. None \in Slots \cup {None} /\ s \notin Deleting /\ s \in RequestPlaces /\ Fits(d, s)
    <3>1. s \notin Deleting /\ s \in RequestPlaces
      BY DEF Deleting, RequestPlaces
    <3>2. s \notin WithNode /\ s # "update" /\ (d.moved => s \in MovedPlaces)
      BY DEF WithNode, MovedPlaces
    <3>3. s \notin {"new", "done"} => d.key \in Keys
      OBVIOUS
    <3>4. Fits(d, s)
      BY <3>2, <3>3 DEF Fits
    <3> QED BY <3>1, <3>4
  <2>2. None # None <=> s \in Deleting
    BY <2>1
  <2>3. RequestPart /\ victim' = [victim EXCEPT ![r] = None]
    BY <1>1, <1>2
  <2> QED BY <2>1, <2>2, <2>3, RequestMoves
<1>4. \A m : DeletersOf(m)' = DeletersOf(m)
  BY DEF DeletersOf
<1>5. \A m \in Slots \ {n} : Users(m)' = Users(m)
  <2>1. None \notin Slots
    BY CacheAssumption DEF CacheAssumption
  <2> QED BY <1>1, <2>1, UsersChange
<1>6. Cardinality(Users(n)') = Cardinality(Users(n)) - 1
  BY <1>1, UsersChange
<1> QED BY <1>1, <1>3, <1>4, <1>5, <1>6, ReferenceGoes

LEMMA UsedNode ==
    ASSUME IInv, NEW n \in Slots, Users(n) # {} \/ DeletersOf(n) # {}
    PROVE  node[n] \in NodeData /\ node[n].count - 1 \in Nat /\ node[n].key # None
<1> DEFINE x == Cardinality(Users(n))
           y == Cardinality(DeletersOf(n))
           z == leaked[n]
<1>1. /\ node[n] \in NodeData /\ node[n].count = x + y + z
      /\ x \in Nat /\ y \in Nat /\ z \in Nat
  BY Finite DEF IInv, NodePart, CountIsKept, BasePart
<1>2. x # 0 \/ y # 0
  BY Finite, FS_EmptySet
<1> HIDE DEF x, y, z
<1>3. node[n].count - 1 \in Nat /\ node[n].count # 0
  BY <1>1, <1>2
<1> QED BY <1>1, <1>3 DEF IInv, NodePart

LEMMA Referring ==
    /\ \A r \in Requests : \A n : c[r].node = n => Users(n) # {}
    /\ \A a \in Deleters : \A n : victim[a] = n => DeletersOf(n) # {}
  BY DEF Users, DeletersOf

LEMMA ReopenStep ==
    ASSUME IInv, NEW r \in Requests, Reopen(r)
    PROVE  IInv'
<1>1. /\ BasePart /\ NodePart /\ RequestPart /\ conf \in Confs
      /\ c[r] \in CacheData /\ Fits(c[r], pc[r]) /\ pc[r] = "read"
  BY DEF IInv, RequestPart, Reopen, At, BasePart
<1>2. PICK n \in Slots : c[r].node = n
  BY <1>1 DEF Fits, WithNode, CacheData
<1>3. PICK k \in conf.variants : c' = [c EXCEPT ![r] = [NewCache EXCEPT !.key = k, !.main = c[r].key,
                                                              !.late = c[r].late]]
  BY DEF Reopen
<1> DEFINE d == [NewCache EXCEPT !.key = k, !.main = c[r].key, !.late = c[r].late]
           f == [node[n] EXCEPT !.count = @ - 1]
<1>4. d \in CacheData /\ d.node = None /\ ~d.updating /\ d.key \in Keys
  <2>1. c[r].late \in BOOLEAN /\ c[r].key \in Keys \cup {None} /\ k \in Keys
    BY <1>1, Zone DEF CacheData
  <2> QED BY <2>1 DEF NewCache, CacheData
<1>5. FreedOrLess(n, f)
  <2>1. node[n] \in NodeData /\ node[n].count - 1 \in Nat
    BY <1>1, <1>2, Referring, UsedNode
  <2>2. f \in NodeData /\ f.count = node[n].count - 1 /\ f.key = node[n].key
    BY <2>1 DEF NodeData
  <2>3. node' = [node EXCEPT ![n] = f] /\ UNCHANGED <<queue, inactive>>
    BY <1>2 DEF Reopen
  <2> QED BY <2>2, <2>3 DEF FreedOrLess
<1>6. UNCHANGED <<conf, leaked, victim>> /\ c' = [c EXCEPT ![r] = d] /\ Goto(r, "exists")
  BY <1>3 DEF Reopen
<1> HIDE DEF d, f
<1>7. NodePart' /\ QueuePart' /\ CountIsKept' /\ RequestPart'
  BY <1>2, <1>4, <1>5, <1>6, RequestLeaves
<1>8. BasePart'
  BY <1>1, BaseStays DEF Reopen, BasePart
<1> QED BY <1>7, <1>8 DEF IInv

LEMMA UpdateVariantStep ==
    ASSUME IInv, NEW r \in Requests, UpdateVariant(r)
    PROVE  IInv'
<1>1. /\ BasePart /\ NodePart /\ RequestPart
      /\ c[r] \in CacheData /\ Fits(c[r], pc[r]) /\ pc[r] = "fetch"
  BY DEF IInv, RequestPart, UpdateVariant, At
<1>2. PICK n \in Slots : c[r].node = n
  BY <1>1 DEF Fits, WithNode, CacheData
<1> DEFINE d == [NewCache EXCEPT !.key = c[r].main, !.moved = TRUE, !.updating = c[r].updating,
                                 !.lock_time = c[r].lock_time]
           f == [node[n] EXCEPT !.count = @ - 1, !.updating = FALSE]
<1>3. d \in CacheData /\ d.node = None /\ d.moved /\ d.key \in Keys
  <2>1. c[r].main \in Keys /\ c[r].updating \in BOOLEAN /\ c[r].lock_time \in Nat
    BY <1>1 DEF CacheData, UpdateVariant
  <2> QED BY <2>1 DEF NewCache, CacheData
<1>4. FreedOrLess(n, f)
  <2>1. node[n] \in NodeData /\ node[n].count - 1 \in Nat
    BY <1>1, <1>2, Referring, UsedNode
  <2>2. f \in NodeData /\ f.count = node[n].count - 1 /\ f.key = node[n].key
    BY <2>1 DEF NodeData
  <2>3. node' = [node EXCEPT ![n] = f] /\ UNCHANGED <<queue, inactive>>
    BY <1>2 DEF UpdateVariant
  <2> QED BY <2>2, <2>3 DEF FreedOrLess
<1>5. UNCHANGED <<conf, leaked, victim>> /\ c' = [c EXCEPT ![r] = d] /\ Goto(r, "exists")
  BY DEF UpdateVariant
<1> HIDE DEF d, f
<1>6. NodePart' /\ QueuePart' /\ CountIsKept' /\ RequestPart'
  BY <1>2, <1>3, <1>4, <1>5, RequestLeaves
<1>7. BasePart'
  BY <1>1, <1>2 DEF UpdateVariant, BasePart, loader
<1> QED BY <1>6, <1>7 DEF IInv

LEMMA NewCacheIs == /\ NewCache \in CacheData /\ NewCache.node = None
                    /\ ~NewCache.updating /\ ~NewCache.moved
  BY CacheAssumption DEF NewCache, CacheData, CacheAssumption

LEMMA UpdateStep ==
    ASSUME IInv, NEW r \in Requests, Update(r)
    PROVE  IInv'
<1>1. /\ BasePart /\ NodePart /\ RequestPart
      /\ c[r] \in CacheData /\ Fits(c[r], pc[r]) /\ pc[r] = "update"
  BY DEF IInv, RequestPart, Update, At, BasePart
<1>2. PICK n \in Slots : c[r].node = n
  BY <1>1 DEF Fits, WithNode, CacheData
<1> DEFINE b == node[n].exists \/ c[r].ok
           f == [node[n] EXCEPT !.count = @ - 1, !.fs_size = c[r].fs_size,
                                !.exists = b, !.updating = FALSE]
<1>3. FreedOrLess(n, f)
  <2>1. node[n] \in NodeData /\ node[n].count - 1 \in Nat
    BY <1>1, <1>2, Referring, UsedNode
  <2>2. b \in BOOLEAN /\ c[r].fs_size \in {0} \cup Sizes
    BY <1>1 DEF CacheData
  <2>3. node' = [node EXCEPT ![n] = f] /\ UNCHANGED <<queue, inactive>>
    BY <1>2 DEF Update
  <2> HIDE DEF b
  <2>4. f \in NodeData /\ f.count = node[n].count - 1 /\ f.key = node[n].key
    BY <2>1, <2>2 DEF NodeData
  <2> QED BY <2>3, <2>4 DEF FreedOrLess
<1>4. UNCHANGED <<conf, leaked, victim>> /\ c' = [c EXCEPT ![r] = NewCache] /\ Goto(r, "done")
  BY DEF Update, Done
<1> HIDE DEF f
<1>5. NodePart' /\ QueuePart' /\ CountIsKept' /\ RequestPart'
  BY <1>2, <1>3, <1>4, NewCacheIs, RequestLeaves
<1>6. BasePart'
  <2>1. size' = size + (c[r].fs_size - node[n].fs_size) /\ size \in Int
    BY <1>1, <1>2 DEF Update, Growth, BasePart
  <2>2. c[r].fs_size \in Nat /\ node[n].fs_size \in Nat
    BY <1>1, <1>2, Referring, UsedNode, NodeHas, SizesAre DEF CacheData
  <2>3. size' \in Int
    BY <2>1, <2>2
  <2> QED BY <1>1, <1>2, <2>3 DEF BasePart, Update, loader
<1> QED BY <1>5, <1>6 DEF IInv

LEMMA FreeStep ==
    ASSUME IInv, NEW r \in Requests, Free(r)
    PROVE  IInv'
<1>1. /\ BasePart /\ NodePart /\ RequestPart
      /\ c[r] \in CacheData /\ Fits(c[r], pc[r]) /\ pc[r] = "answer"
  BY DEF IInv, RequestPart, Free, At, BasePart
<1>2. PICK n \in Slots : c[r].node = n
  BY <1>1 DEF Fits, WithNode, CacheData
<1> DEFINE b1 == node[n].updating /\ ~StillMine(r, node[n])
           b2 == node[n].error \/ c[r].error # "no"
           b3 == node[n].live \/ TimesError(r)
           f == [node[n] EXCEPT !.count = @ - 1, !.updating = b1, !.error = b2, !.live = b3]
<1>3. /\ node[n] \in NodeData /\ node[n].count - 1 \in Nat
      /\ f \in NodeData /\ f.count = node[n].count - 1 /\ f.key = node[n].key
  <2>1. node[n] \in NodeData /\ node[n].count - 1 \in Nat
    BY <1>1, <1>2, Referring, UsedNode
  <2>2. b1 \in BOOLEAN /\ b2 \in BOOLEAN /\ b3 \in BOOLEAN
    OBVIOUS
  <2> HIDE DEF b1, b2, b3
  <2> QED BY <2>1, <2>2 DEF NodeData
<1>4. FreedOrLess(n, f)
  <2>1. \/ FreesNode(n) /\ f.count = 0
        \/ node' = [node EXCEPT ![n] = f] /\ UNCHANGED <<queue, inactive>>
    BY <1>2 DEF Free
  <2>2. CASE FreesNode(n) /\ f.count = 0
    <3>1. node[n].count = 1
      BY <1>3, <2>2, NodeHas
    <3> QED BY <2>2, <3>1 DEF FreesNode, FreedOrLess
  <2> HIDE DEF f
  <2> QED BY <1>3, <2>1, <2>2 DEF FreedOrLess
<1>5. UNCHANGED <<conf, leaked, victim>> /\ c' = [c EXCEPT ![r] = NewCache] /\ Goto(r, "done")
  BY DEF Free, Done
<1>6. BasePart'
  <2>1. \/ FreesNode(n)
        \/ owners' = [owners EXCEPT ![n] = LocksLeft(r, n)] /\ UNCHANGED over
    BY <1>2 DEF Free
  <2>2. owners' \in [Slots -> SUBSET Requests] /\ over' \subseteq Slots
    BY <1>1, <1>2, <2>1 DEF FreesNode, LocksLeft, BasePart
  <2> QED BY <1>1, <2>2 DEF BasePart, Free, loader
<1> HIDE DEF f
<1>7. NodePart' /\ QueuePart' /\ CountIsKept' /\ RequestPart'
  BY <1>2, <1>4, <1>5, NewCacheIs, RequestLeaves
<1> QED BY <1>6, <1>7 DEF IInv

LEMMA EndDeleteStep ==
    ASSUME IInv, NEW a \in Deleters, NEW next,
           pc[a] \in Deleting, EndDelete(a, next),
           \/ a \in Requests /\ next = "retry" /\ pc[a] = "relock"
           \/ a = Manager /\ next \in {"expire", "check"}
    PROVE  IInv'
<1>1. /\ BasePart /\ NodePart /\ RequestPart /\ CountIsKept
      /\ None \notin Slots
  BY CacheAssumption DEF CacheAssumption, IInv
<1>2. PICK n \in Slots : victim[a] = n
  BY <1>1 DEF RequestPart
<1> DEFINE f == [node[n] EXCEPT !.count = @ - 1, !.deleting = FALSE]
<1>3. /\ node[n] \in NodeData /\ node[n].count - 1 \in Nat
      /\ f \in NodeData /\ f.count = node[n].count - 1 /\ f.key = node[n].key
  <2>1. node[n] \in NodeData /\ node[n].count - 1 \in Nat
    BY <1>1, <1>2, Referring, UsedNode
  <2> QED BY <2>1 DEF NodeData
<1>4. FreedOrLess(n, f)
  <2>1. \/ FreesNode(n) /\ f.count = 0
        \/ node' = [node EXCEPT ![n] = f] /\ UNCHANGED <<queue, inactive>>
    BY <1>2 DEF EndDelete
  <2>2. CASE FreesNode(n) /\ f.count = 0
    <3>1. node[n].count = 1
      BY <1>3, <2>2, NodeHas
    <3> QED BY <2>2, <3>1 DEF FreesNode, FreedOrLess
  <2> HIDE DEF f
  <2> QED BY <1>3, <2>1, <2>2 DEF FreedOrLess
<1>5. UNCHANGED <<conf, leaked, c>> /\ victim' = [victim EXCEPT ![a] = None] /\ Goto(a, next)
  BY DEF EndDelete
<1>6. BasePart'
  <2>1. FreesNode(n) \/ UNCHANGED <<owners, over>>
    BY <1>2 DEF EndDelete
  <2>2. owners' \in [Slots -> SUBSET Requests] /\ over' \subseteq Slots
    BY <1>1, <1>2, <2>1 DEF FreesNode, BasePart
  <2> QED BY <1>1, <2>2 DEF BasePart, EndDelete, loader
<1> HIDE DEF f
<1>7. RequestPart'
  <2>1. CASE a \in Requests /\ next = "retry" /\ pc[a] = "relock"
    <3>1. /\ c' = [c EXCEPT ![a] = c[a]] /\ c[a] \in CacheData /\ Fits(c[a], "retry")
          /\ "retry" \in RequestPlaces /\ "retry" \notin Deleting
      BY <1>1, <1>5, <2>1 DEF RequestPart, Fits, MovedPlaces, WithNode, RequestPlaces, Deleting
    <3> QED BY <1>1, <1>5, <2>1, <3>1, RequestMoves
  <2>2. CASE a = Manager /\ next \in {"expire", "check"}
    <3>1. next \in ManagerPlaces /\ next \notin Deleting
      BY <2>2 DEF ManagerPlaces, Deleting
    <3> QED BY <1>1, <1>5, <2>2, <3>1, ManagerMoves
  <2> QED BY <2>1, <2>2
<1>8. /\ \A m : Users(m)' = Users(m)
      /\ victim'[a] = None /\ \A b \in Deleters \ {a} : victim'[b] = victim[b]
  BY <1>1, <1>5 DEF Users, RequestPart
<1>9. /\ Cardinality(DeletersOf(n)') = Cardinality(DeletersOf(n)) - 1
      /\ \A m \in Slots \ {n} : DeletersOf(m)' = DeletersOf(m)
  BY <1>1, <1>2, <1>8, DeletersChange
<1>10. NodePart' /\ QueuePart' /\ CountIsKept'
  BY <1>4, <1>5, <1>7, <1>8, <1>9, ReferenceGoes
<1> QED BY <1>6, <1>7, <1>10 DEF IInv

-----------------------------------------------------------------------------
(* Idle nodes are freed, and a process begins to delete another.             *)

Rest(F) == [m \in Slots |-> IF m \in F THEN FreeNode ELSE node[m]]

Begins(F, a, n) ==
    /\ n \in Nodes \ F /\ a \in Deleters /\ victim[a] = None
    /\ node' = [Rest(F) EXCEPT ![n].count = Referred(node[n]), ![n].deleting = TRUE]
    /\ victim' = [victim EXCEPT ![a] = n]

LEMMA NodesGo ==
    ASSUME IInv, NEW F \in SUBSET Nodes, \A m \in F : ~InUse(m),
           UNCHANGED <<conf, c, leaked>>, NEW a, NEW n,
           Begins(F, a, n) \/ (node' = Rest(F) /\ UNCHANGED victim)
    PROVE  NodePart' /\ CountIsKept' /\ Nodes' = Nodes \ F
<1>1. /\ BasePart /\ NodePart /\ RequestPart /\ CountIsKept /\ conf \in Confs
      /\ conf.zone \subseteq Slots /\ None \notin Slots /\ Nodes \subseteq Slots
  BY Zone DEF IInv, BasePart, Nodes
<1>2. \A m : Users(m)' = Users(m)
  BY DEF Users
<1>3. /\ Rest(F) \in [Slots -> NodeData]
      /\ \A m \in Slots \ F : Rest(F)[m] = node[m]
      /\ \A m \in F : Rest(F)[m] = FreeNode
  BY <1>1, FreeNodeIs DEF Rest, NodePart
<1>4. \A m \in F : Users(m) = {} /\ DeletersOf(m) = {} /\ leaked[m] = 0
  <2> TAKE m \in F
  <2> DEFINE x == Cardinality(Users(m))
             y == Cardinality(DeletersOf(m))
             z == leaked[m]
  <2>1. x \in Nat /\ y \in Nat /\ z \in Nat
    BY <1>1, Finite DEF BasePart
  <2>2. x = 0 /\ y = 0 /\ z = 0
    <3>1. node[m].count = x + y + z /\ node[m] \in NodeData /\ ~(node[m].count > 0)
      BY <1>1 DEF CountIsKept, NodePart, InUse
    <3>2. node[m].count = 0
      BY <3>1, NodeHas
    <3> HIDE DEF x, y, z
    <3> QED BY <2>1, <3>1, <3>2
  <2> QED BY <2>2, Finite, FS_EmptySet
<1>5. CASE node' = Rest(F) /\ UNCHANGED victim
  <2>1. NodePart'
    BY <1>1, <1>3, <1>5, FreeNodeIs DEF NodePart
  <2>2. Nodes' = Nodes \ F
    BY <1>1, <1>3, <1>5, FreeNodeIs DEF Nodes
  <2>3. \A m : DeletersOf(m)' = DeletersOf(m)
    BY <1>5 DEF DeletersOf
  <2>4. ASSUME NEW m \in Slots
        PROVE  node'[m].count = Cardinality(Users(m)') + Cardinality(DeletersOf(m)') + leaked'[m]
    <3>1. CASE m \in F
      <4>1. Users(m)' = {} /\ DeletersOf(m)' = {} /\ leaked'[m] = 0 /\ node'[m].count = 0
        BY <1>2, <1>3, <1>4, <1>5, <2>3, <3>1, FreeNodeIs
      <4> QED BY <4>1, FS_EmptySet
    <3>2. CASE m \notin F
      BY <1>1, <1>2, <1>3, <1>5, <2>3, <3>2 DEF CountIsKept
    <3> QED BY <3>1, <3>2
  <2>5. ASSUME NEW q \in Requests, c'[q].node # None PROVE node'[c'[q].node].key = c'[q].key
    <3>1. c[q].node \in Slots \ F
      BY <1>1, <1>4, <2>5 DEF RequestPart, CacheData, Users
    <3> QED BY <1>1, <1>3, <1>5, <2>5, <3>1 DEF CountIsKept
  <2>6. ASSUME NEW b \in Deleters, victim'[b] # None PROVE victim'[b] \in Nodes'
    <3>1. victim[b] \notin F
      BY <1>4 DEF DeletersOf
    <3> QED BY <1>1, <1>5, <2>2, <2>6, <3>1 DEF CountIsKept
  <2> QED BY <2>1, <2>2, <2>4, <2>5, <2>6 DEF CountIsKept
<1>6. CASE Begins(F, a, n)
  <2> DEFINE f == [Rest(F)[n] EXCEPT !.count = node[n].count + 1, !.deleting = TRUE]
  <2>1. n \in Slots /\ n \in Nodes /\ n \notin F /\ n # None /\ Rest(F)[n] = node[n] /\ node[n] \in NodeData
    BY <1>1, <1>3, <1>6 DEF Begins, NodePart
  <2>2. node' = [Rest(F) EXCEPT ![n] = f]
    BY <1>6 DEF Begins, Referred
  <2>3. node[n].count \in Nat /\ node[n].count + 1 \in Nat
    BY <2>1, NodeHas
  <2>4. f \in NodeData /\ f.count = node[n].count + 1 /\ f.key = node[n].key
    BY <2>1, <2>3 DEF NodeData
  <2> HIDE DEF f
  <2>5. /\ node' \in [Slots -> NodeData] /\ node'[n] = f
        /\ \A m \in Slots \ (F \cup {n}) : node'[m] = node[m]
        /\ \A m \in F : node'[m] = FreeNode
    BY <1>1, <1>3, <2>1, <2>2, <2>4
  <2>6. NodePart'
    BY <1>1, <2>1, <2>4, <2>5, FreeNodeIs DEF NodePart, Nodes
  <2>7. Nodes' = Nodes \ F
    BY <1>1, <2>1, <2>4, <2>5, FreeNodeIs DEF Nodes
  <2>8. a \in Deleters /\ victim[a] = None /\ victim'[a] = n /\ \A b \in Deleters \ {a} : victim'[b] = victim[b]
    BY <1>1, <1>6 DEF Begins, RequestPart
  <2>9. /\ Cardinality(DeletersOf(n)') = Cardinality(DeletersOf(n)) + 1
        /\ \A m \in Slots \ {n} : DeletersOf(m)' = DeletersOf(m)
    BY <1>1, <2>1, <2>8, DeletersChange
  <2>10. ASSUME NEW m \in Slots
         PROVE  node'[m].count = Cardinality(Users(m)') + Cardinality(DeletersOf(m)') + leaked'[m]
    <3>1. CASE m \in F
      <4>1. Users(m)' = {} /\ DeletersOf(m)' = {} /\ leaked'[m] = 0 /\ node'[m].count = 0
        BY <1>2, <1>4, <2>1, <2>5, <2>9, <3>1, FreeNodeIs
      <4> QED BY <4>1, FS_EmptySet
    <3>2. CASE m = n
      <4> DEFINE x == Cardinality(Users(n))
                 y == Cardinality(DeletersOf(n))
                 z == leaked[n]
      <4>1. x \in Nat /\ y \in Nat /\ z \in Nat /\ node[n].count = x + y + z
        BY <1>1, <2>1, Finite DEF BasePart, CountIsKept
      <4>2. node'[n].count = node[n].count + 1
        BY <2>4, <2>5
      <4>3. Cardinality(Users(n)') = x /\ Cardinality(DeletersOf(n)') = y + 1 /\ leaked'[n] = z
        BY <1>2, <2>9
      <4> HIDE DEF x, y, z
      <4> QED BY <3>2, <4>1, <4>2, <4>3
    <3>3. CASE m \notin F /\ m # n
      BY <1>1, <1>2, <2>5, <2>9, <3>3 DEF CountIsKept
    <3> QED BY <3>1, <3>2, <3>3
  <2>11. ASSUME NEW q \in Requests, c'[q].node # None PROVE node'[c'[q].node].key = c'[q].key
    <3>1. c[q].node \in Slots \ F
      BY <1>1, <1>4, <2>11 DEF RequestPart, CacheData, Users
    <3> QED BY <1>1, <2>4, <2>5, <2>11, <3>1 DEF CountIsKept
  <2>12. ASSUME NEW b \in Deleters, victim'[b] # None PROVE victim'[b] \in Nodes'
    <3>1. victim[b] \notin F
      BY <1>4 DEF DeletersOf
    <3> QED BY <1>1, <2>1, <2>7, <2>8, <2>12, <3>1 DEF CountIsKept
  <2> QED BY <2>6, <2>7, <2>10, <2>11, <2>12 DEF CountIsKept
<1> QED BY <1>5, <1>6

LEMMA ForcedExpireStep ==
    ASSUME IInv, NEW a \in Deleters, NEW freed, NEW busy,
           ForcedExpire(a, freed, busy),
           \/ a \in Requests /\ {freed, busy} \subseteq {"retry"}
           \/ a = Manager /\ {freed, busy} \subseteq {"check", "rest"}
    PROVE  IInv'
<1>1. /\ BasePart /\ NodePart /\ QueuePart /\ RequestPart /\ CountIsKept /\ conf \in Confs
      /\ victim \in [Deleters -> Slots \cup {None}] /\ c \in [Requests -> CacheData]
  BY DEF IInv, BasePart, RequestPart
<1>2. pc[a] = "force" /\ victim[a] = None /\ UNCHANGED <<conf, c, leaked>>
  BY <1>1 DEF ForcedExpire, At, RequestPart, Deleting
<1>3. ASSUME NEW s, Goto(a, s), NEW v \in Slots \cup {None}, victim' = [victim EXCEPT ![a] = v],
             (s = "unlink" /\ v # None) \/ (s \in {freed, busy} /\ v = None)
      PROVE  RequestPart'
  <2>1. CASE a \in Requests
    <3>1. a # Manager
      BY <2>1, CacheAssumption DEF CacheAssumption
    <3>2. /\ c' = [c EXCEPT ![a] = c[a]] /\ c[a] \in CacheData /\ Fits(c[a], pc[a])
          /\ s \in {"unlink", "retry"}
      BY <1>1, <1>2, <1>3, <2>1, <3>1 DEF RequestPart
    <3>3. Fits(c[a], s) /\ s \in RequestPlaces /\ (v # None <=> s \in Deleting)
      BY <1>2, <1>3, <2>1, <3>1, <3>2 DEF Fits, MovedPlaces, WithNode, RequestPlaces, Deleting
    <3> QED BY <1>1, <1>3, <2>1, <3>2, <3>3, RequestMoves
  <2>2. CASE a = Manager
    <3>1. Manager \notin Requests
      BY CacheAssumption DEF CacheAssumption
    <3>2. s \in ManagerPlaces /\ (v # None <=> s \in Deleting)
      BY <1>3, <2>2, <3>1 DEF ManagerPlaces, Deleting
    <3> QED BY <1>1, <1>2, <1>3, <2>2, <3>2, ManagerMoves
  <2> QED BY <2>1, <2>2 DEF Deleters
<1>4. \/ UNCHANGED <<node, queue, size, over, inactive, victim, owners>> /\ Goto(a, busy)
      \/ \E i \in DOMAIN queue :
             /\ ~InUse(queue[i])
             /\ \/ DeletesNode(queue[i]) /\ Goto(a, freed)
                \/ BeginsDelete(a, queue[i]) /\ Goto(a, "unlink")
  BY DEF ForcedExpire
<1>5. UNCHANGED <<conf, takes, file, c, todo, seen, cold, leaked, drifted>>
  BY DEF ForcedExpire, loader
<1>6. victim = [victim EXCEPT ![a] = None]
  BY <1>1, <1>2
<1>7. CASE UNCHANGED <<node, queue, size, over, inactive, victim, owners>> /\ Goto(a, busy)
  <2>1. RequestPart'
    BY <1>3, <1>6, <1>7
  <2>2. NodePart' /\ Nodes' = Nodes
    BY <1>1, <1>5, <1>7 DEF NodePart, Nodes
  <2>3. QueuePart'
    BY <1>1, <1>5, <1>7, <2>2, QueueStays DEF QueuePart
  <2>4. CountIsKept'
    BY <1>1, <1>5, <1>7, CountStays
  <2>5. BasePart'
    BY <1>1, <1>5, <1>7 DEF BasePart
  <2> QED BY <2>1, <2>2, <2>3, <2>4, <2>5 DEF IInv
<1>8. ASSUME NEW i \in DOMAIN queue, ~InUse(queue[i]), DeletesNode(queue[i]), Goto(a, freed)
      PROVE  IInv'
  <2> DEFINE n == queue[i]
  <2>1. n \in Nodes /\ n \in Slots
    BY <1>1, Zone DEF QueuePart, Range, Nodes
  <2>2. /\ node' = [node EXCEPT ![n] = FreeNode] /\ queue' = Without(queue, n)
        /\ inactive' = inactive \ {n} /\ over' = over \cup {n}
        /\ owners' = [owners EXCEPT ![n] = {}] /\ UNCHANGED <<size, victim>>
    BY <1>8 DEF DeletesNode, FreesNode
  <2>3. ~InUse(n)
    BY <1>8
  <2> HIDE DEF n
  <2>4. node' = Rest({n})
    BY <1>1, <2>1, <2>2 DEF Rest, NodePart
  <2>5. NodePart' /\ CountIsKept' /\ Nodes' = Nodes \ {n}
    BY <1>5, <2>1, <2>2, <2>3, <2>4, NodesGo
  <2>6. QueuePart'
    BY <1>1, <1>5, <2>2, <2>5, QueueFrees
  <2>7. RequestPart'
    BY <1>3, <1>6, <1>8, <2>2
  <2>8. BasePart'
    BY <1>1, <1>5, <2>1, <2>2 DEF BasePart
  <2> QED BY <2>5, <2>6, <2>7, <2>8 DEF IInv
<1>9. ASSUME NEW i \in DOMAIN queue, BeginsDelete(a, queue[i]), Goto(a, "unlink")
      PROVE  IInv'
  <2> DEFINE n == queue[i]
  <2>1. n \in Nodes /\ n \in Slots /\ n # None
    BY <1>1, Zone DEF QueuePart, Range, Nodes
  <2>2. /\ node' = [node EXCEPT ![n].count = Referred(node[n]), ![n].deleting = TRUE]
        /\ size' = size - node[n].fs_size
        /\ victim' = [victim EXCEPT ![a] = n] /\ UNCHANGED <<queue, over, inactive, owners>>
    BY <1>9 DEF BeginsDelete
  <2> HIDE DEF n
  <2>3. Rest({}) = node
    BY <1>1 DEF Rest, NodePart
  <2>4. Begins({}, a, n)
    BY <1>2, <2>1, <2>2, <2>3 DEF Begins
  <2>5. NodePart' /\ CountIsKept' /\ Nodes' = Nodes
    <3>1. {} \in SUBSET Nodes /\ (\A m \in {} : ~InUse(m)) /\ Nodes \ {} = Nodes
      OBVIOUS
    <3>2. UNCHANGED <<conf, c, leaked>>
      BY <1>2
    <3>3. NodePart' /\ CountIsKept' /\ Nodes' = Nodes \ {}
      BY <2>4, <3>1, <3>2, NodesGo
    <3> QED BY <3>1, <3>3
  <2>6. QueuePart'
    BY <1>1, <1>5, <2>2, <2>5, QueueStays DEF QueuePart
  <2>7. RequestPart'
    BY <1>3, <1>9, <2>1, <2>2
  <2>8. size' \in Int
    <3>1. node[n] \in NodeData /\ size \in Int
      BY <1>1, <2>1 DEF NodePart, BasePart
    <3> QED BY <2>2, <3>1, NodeHas
  <2>9. BasePart'
    BY <1>1, <1>5, <2>2, <2>8 DEF BasePart
  <2> QED BY <2>5, <2>6, <2>7, <2>9 DEF IInv
<1> QED BY <1>4, <1>7, <1>8, <1>9

-----------------------------------------------------------------------------
(* The manager's expiry.                                                     *)

LEMMA Greatest ==
    ASSUME NEW N \in Nat, NEW T \in SUBSET (1..N)
    PROVE  \E i \in T \cup {0} : \A j \in T : j <= i
<1> DEFINE B == {m \in Nat : \A j \in T : j <= m}
<1>1. N \in B
  OBVIOUS
<1>2. PICK m \in B : \A k \in B : m <= k
  <2>1. B \in SUBSET Nat /\ B # {}
    BY <1>1
  <2> HIDE DEF B
  <2> QED BY <2>1, LeastNatural
<1>3. CASE m = 0
  BY <1>2, <1>3
<1>4. CASE m # 0
  <2>1. m - 1 \in Nat /\ m - 1 \notin B
    BY <1>2, <1>4
  <2>2. PICK j \in T : ~(j <= m - 1)
    BY <2>1
  <2>3. j = m
    BY <1>2, <2>1, <2>2
  <2> QED BY <1>2, <2>3
<1> QED BY <1>3, <1>4

(* What is left of the queue: the nodes in use that were passed, and those   *)
(* that the expiry did not come to.                                          *)
LEMMA QueueExpires ==
    ASSUME NEW S, NEW q \in Seq(S), Apart(q), NEW last \in 0..Len(q), NEW B \in SUBSET (last + 1..Len(q))
    PROVE  /\ AtPlaces(q, B) \o SubSeq(q, 1, last) \in Seq(S)
           /\ Apart(AtPlaces(q, B) \o SubSeq(q, 1, last))
           /\ Range(AtPlaces(q, B) \o SubSeq(q, 1, last))
                 = Range(q) \ {q[i] : i \in (last + 1..Len(q)) \ B}
<1> DEFINE p == AtPlaces(q, B)
           t == SubSeq(q, 1, last)
<1>1. Len(q) \in Nat /\ DOMAIN q = 1..Len(q) /\ B \in SUBSET DOMAIN q
  OBVIOUS
<1>2. p \in Seq(S) /\ Apart(p) /\ Range(p) = {q[i] : i \in B}
  BY <1>1, AtPlacesIs
<1>3. t \in Seq(S) /\ DOMAIN t = 1..last /\ \A i \in 1..last : t[i] = q[i]
  BY <1>1
<1> HIDE DEF p, t
<1>4. Apart(t) /\ Range(t) = {q[i] : i \in 1..last}
  BY <1>1, <1>3 DEF Apart, Range
<1>5. Range(p) \cap Range(t) = {}
  BY <1>1, <1>2, <1>4 DEF Apart
<1>6. p \o t \in Seq(S) /\ Apart(p \o t) /\ Range(p \o t) = Range(p) \cup Range(t)
  BY <1>2, <1>3, <1>4, <1>5, Joined, ZenonT(60)
<1>7. {q[i] : i \in B} \cup {q[i] : i \in 1..last} = Range(q) \ {q[i] : i \in (last + 1..Len(q)) \ B}
  <2>1. ASSUME NEW i \in B \cup 1..last
        PROVE  q[i] \in Range(q) /\ q[i] \notin {q[k] : k \in (last + 1..Len(q)) \ B}
    <3>1. i \in DOMAIN q /\ i \notin (last + 1..Len(q)) \ B
      BY <1>1
    <3>2. \A k \in (last + 1..Len(q)) \ B : k \in DOMAIN q /\ k # i
      BY <1>1, <3>1
    <3> QED BY <3>1, <3>2 DEF Apart, Range
  <2>2. ASSUME NEW i \in DOMAIN q, q[i] \notin {q[k] : k \in (last + 1..Len(q)) \ B}
        PROVE  i \in B \cup 1..last
    BY <1>1, <2>2
  <2> QED BY <2>1, <2>2 DEF Range
<1> QED BY <1>2, <1>4, <1>6, <1>7 DEF p, t

Stops == {i \in DOMAIN queue : queue[i] \notin inactive \/ StopsAt(queue[i])}
Last == CHOOSE i \in Stops \cup {0} : \A j \in Stops : j <= i
Passed == {i \in DOMAIN queue : i > Last}
Busy == {i \in Passed : InUse(queue[i])}
Freed == {queue[i] : i \in Passed \ Busy}

(* What the expiry passes.                                                   *)
LEMMA PassedAre ==
    ASSUME IInv
    PROVE  /\ Len(queue) \in Nat /\ DOMAIN queue = 1..Len(queue)
           /\ Last \in 0..Len(queue) /\ (Last # 0 => Last \in Stops)
           /\ Passed = Last + 1..Len(queue)
           /\ \A i \in Passed :
                 /\ queue[i] \in inactive
                 /\ InUse(queue[i]) => ~node[queue[i]].deleting
                 /\ ~InUse(queue[i]) => ~node[queue[i]].exists
           /\ Freed \in SUBSET Nodes /\ \A m \in Freed : ~InUse(m) /\ ~node[m].exists
           /\ Last # 0 => queue[Last] \in Nodes \ Freed
<1>1. /\ queue \in Seq(conf.zone) /\ Len(queue) \in Nat /\ DOMAIN queue = 1..Len(queue)
      /\ Range(queue) = Nodes /\ Apart(queue)
  BY DEF IInv, QueuePart
<1>2. /\ Last \in Stops \cup {0} /\ \A j \in Stops : j <= Last
  <2>1. Stops \in SUBSET (1..Len(queue))
    BY <1>1 DEF Stops
  <2>2. \E i \in Stops \cup {0} : \A j \in Stops : j <= i
    BY <1>1, <2>1, Greatest
  <2> HIDE DEF Stops
  <2> QED BY <2>2 DEF Last
<1>3. Last \in 0..Len(queue)
  BY <1>1, <1>2 DEF Stops
<1>4. Passed = Last + 1..Len(queue)
  BY <1>1, <1>3 DEF Passed
<1>5. ASSUME NEW i \in Passed
      PROVE  /\ queue[i] \in inactive /\ queue[i] \in Nodes
             /\ InUse(queue[i]) => ~node[queue[i]].deleting
             /\ ~InUse(queue[i]) => ~node[queue[i]].exists
  <2>1. i \in DOMAIN queue /\ i \notin Stops
    BY <1>1, <1>2, <1>3 DEF Passed
  <2>2. queue[i] \in inactive /\ ~StopsAt(queue[i])
    BY <2>1 DEF Stops
  <2> QED BY <1>1, <2>1, <2>2 DEF StopsAt, Range
<1>6. Freed \in SUBSET Nodes /\ \A m \in Freed : ~InUse(m) /\ ~node[m].exists
  BY <1>5 DEF Freed, Busy
<1>7. ASSUME Last # 0 PROVE queue[Last] \in Nodes \ Freed
  <2>1. Last \in DOMAIN queue
    BY <1>1, <1>3, <1>7
  <2>2. \A i \in Passed : i \in DOMAIN queue /\ i # Last
    BY <1>1, <1>3 DEF Passed
  <2>3. queue[Last] \notin Freed
    BY <1>1, <2>1, <2>2 DEF Freed, Apart
  <2> QED BY <1>1, <2>1, <2>3 DEF Range
<1> QED BY <1>1, <1>2, <1>3, <1>4, <1>5, <1>6, <1>7

Deletes == IF Last = 0 THEN FALSE ELSE queue[Last] \in inactive /\ ~InUse(queue[Last])

LEMMA ExpireIs ==
    ASSUME Expire
    PROVE  /\ queue' = AtPlaces(queue, Busy) \o SubSeq(queue, 1, Last)
           /\ inactive' = inactive \ {queue[i] : i \in Passed}
           /\ over' = over \cup Freed
           /\ owners' = [n \in Slots |-> IF n \in Freed THEN {} ELSE owners[n]]
           /\ \/ ~Deletes /\ node' = Rest(Freed) /\ Goto(Manager, "check") /\ UNCHANGED <<size, victim>>
              \/ /\ Deletes
                 /\ size' = size - node[queue[Last]].fs_size
                 /\ node' = [Rest(Freed) EXCEPT ![queue[Last]].count = Referred(node[queue[Last]]),
                                               ![queue[Last]].deleting = TRUE]
                 /\ victim' = [victim EXCEPT ![Manager] = queue[Last]]
                 /\ Goto(Manager, "unlink old")
           /\ At(Manager, "rest") \/ At(Manager, "expire")
           /\ UNCHANGED <<conf, takes, file, c, loader, crashes, leaked, drifted>>
  BY DEF Expire, ExpireFrom, Stops, Last, Passed, Busy, Freed, Rest, Deletes

LEMMA ExpireStep ==
    ASSUME IInv, Expire
    PROVE  IInv'
<1>1. /\ BasePart /\ NodePart /\ QueuePart /\ RequestPart /\ conf \in Confs
      /\ Manager \in Deleters /\ None \notin Slots /\ Nodes \subseteq Slots
      /\ UNCHANGED <<conf, c, leaked>>
  BY Zone, ExpireIs DEF IInv, BasePart, Deleters, Nodes
<1>2. victim[Manager] = None
  BY <1>1, ExpireIs DEF RequestPart, Deleting, At
<1>3. Deletes => queue[Last] \in Nodes \ Freed
  BY PassedAre DEF Deletes
<1>4. \/ ~Deletes /\ node' = Rest(Freed) /\ UNCHANGED victim
      \/ Deletes /\ Begins(Freed, Manager, queue[Last])
  BY <1>1, <1>2, <1>3, ExpireIs DEF Begins
<1>5. NodePart' /\ CountIsKept' /\ Nodes' = Nodes \ Freed
  <2> DEFINE n == queue[Last]
  <2>1. Begins(Freed, Manager, n) \/ (node' = Rest(Freed) /\ UNCHANGED victim)
    BY <1>4
  <2>2. Freed \in SUBSET Nodes /\ \A m \in Freed : ~InUse(m)
    BY PassedAre
  <2> HIDE DEF n
  <2> QED BY <1>1, <2>1, <2>2, NodesGo
<1>6. QueuePart'
  <2> DEFINE q == AtPlaces(queue, Busy) \o SubSeq(queue, 1, Last)
             zone == conf.zone
  <2>1. /\ queue \in Seq(zone) /\ Apart(queue) /\ Last \in 0..Len(queue)
        /\ Busy \in SUBSET (Last + 1..Len(queue))
    BY <1>1, PassedAre DEF QueuePart, Busy
  <2>2. Freed = {queue[i] : i \in (Last + 1..Len(queue)) \ Busy}
    BY PassedAre DEF Freed
  <2>3. q \in Seq(zone) /\ Apart(q) /\ Range(q) = Range(queue) \ {queue[i] : i \in (Last + 1..Len(queue)) \ Busy}
    <3> HIDE DEF zone
    <3> QED BY <2>1, QueueExpires
  <2>4. queue' = q /\ inactive' = inactive \ {queue[i] : i \in Passed}
    BY ExpireIs
  <2>5. Freed \subseteq {queue[i] : i \in Passed}
    BY DEF Freed
  <2> HIDE DEF q
  <2>6. queue' \in Seq(conf.zone) /\ Apart(queue)' /\ Range(queue)' = Nodes'
    BY <1>1, <1>5, <2>2, <2>3, <2>4 DEF QueuePart, Apart, Range
  <2>7. inactive' \subseteq Nodes'
    BY <1>1, <1>5, <2>4, <2>5 DEF QueuePart
  <2> QED BY <1>1, <2>6, <2>7 DEF QueuePart
<1>7. RequestPart'
  <2>1. CASE ~Deletes /\ UNCHANGED victim /\ Goto(Manager, "check")
    <3>1. victim' = [victim EXCEPT ![Manager] = None] /\ None \in Slots \cup {None}
      BY <1>1, <1>2, <2>1 DEF RequestPart
    <3>2. "check" \in ManagerPlaces /\ "check" \notin Deleting
      BY DEF ManagerPlaces, Deleting
    <3> QED BY <1>1, <2>1, <3>1, <3>2, ManagerMoves
  <2>2. CASE Deletes /\ victim' = [victim EXCEPT ![Manager] = queue[Last]] /\ Goto(Manager, "unlink old")
    <3> DEFINE n == queue[Last]
    <3>1. n \in Slots \cup {None} /\ n # None
      BY <1>1, <1>3, <2>2
    <3>2. "unlink old" \in ManagerPlaces /\ "unlink old" \in Deleting
      BY DEF ManagerPlaces, Deleting
    <3>3. victim' = [victim EXCEPT ![Manager] = n]
      BY <2>2
    <3> HIDE DEF n
    <3> QED BY <1>1, <2>2, <3>1, <3>2, <3>3, ManagerMoves
  <2> QED BY <2>1, <2>2, ExpireIs
<1>8. BasePart'
  <2>1. size' \in Int
    <3>1. CASE Deletes /\ size' = size - node[queue[Last]].fs_size
      <4>1. node[queue[Last]] \in NodeData /\ size \in Int
        BY <1>1, <1>3, <3>1 DEF NodePart, BasePart
      <4>2. node[queue[Last]].fs_size \in Nat
        BY <4>1, NodeHas
      <4> QED BY <3>1, <4>1, <4>2
    <3> QED BY <1>1, <3>1, ExpireIs DEF BasePart
  <2>2. over' \subseteq Slots /\ owners' \in [Slots -> SUBSET Requests]
    <3>1. Freed \subseteq Slots
      BY <1>1, PassedAre
    <3> QED BY <1>1, <3>1, ExpireIs DEF BasePart
  <2> QED BY <1>1, <2>1, <2>2, ExpireIs DEF BasePart, loader
<1> QED BY <1>5, <1>6, <1>7, <1>8 DEF IInv

-----------------------------------------------------------------------------
(* The rest of the manager's steps, the loader, time and death.              *)

(* Nothing changes but a field of nodes that is not a reference, or a flag.  *)
LEMMA NodesKeep ==
    ASSUME IInv, UNCHANGED <<conf, queue, c, victim, leaked>>, RequestPart', BasePart',
           node' \in [Slots -> NodeData], inactive' \subseteq Nodes,
           \A n \in Slots : node'[n].count = node[n].count /\ node'[n].key = node[n].key
    PROVE  IInv'
<1>1. /\ NodePart /\ QueuePart /\ RequestPart /\ CountIsKept /\ conf \in Confs
  BY DEF IInv, BasePart
<1>2. NodePart'
  BY <1>1 DEF NodePart
<1>3. Nodes' = Nodes
  BY <1>1, NodesStay
<1>4. QueuePart'
  BY <1>1, <1>3, QueueStays
<1>5. CountIsKept'
  BY <1>1, CountStays
<1> QED BY <1>2, <1>4, <1>5 DEF IInv

LEMMA UnlinkStep ==
    ASSUME IInv, NEW a \in Deleters, Unlink(a)
    PROVE  IInv'
<1>1. /\ BasePart /\ NodePart /\ RequestPart /\ CountIsKept /\ None \notin Slots
      /\ UNCHANGED <<conf, queue, c, victim, leaked, node, inactive>>
  BY CacheAssumption DEF CacheAssumption, IInv, Unlink, shared
<1>2. pc[a] \in Deleting /\ victim[a] \in Nodes
  BY <1>1 DEF RequestPart, Unlink, At, Deleting, CountIsKept
<1>3. file' \in [Keys -> {NoFile} \cup Files]
  BY <1>1 DEF Unlink, BasePart
<1>4. BasePart'
  BY <1>1, <1>3, BaseStays DEF Unlink, shared
<1>5. victim[a] \in Slots \cup {None} /\ victim[a] # None /\ victim' = [victim EXCEPT ![a] = victim[a]]
  BY <1>1, <1>2 DEF RequestPart, Nodes
<1>6. RequestPart'
  <2>1. CASE a \in Requests
    <3>1. pc[a] = "unlink" /\ Goto(a, "relock")
      <4>1. pc[a] \in RequestPlaces
        BY <1>1, <2>1 DEF RequestPart
      <4> QED BY <4>1 DEF Unlink, At, RequestPlaces
    <3>2. /\ c' = [c EXCEPT ![a] = c[a]] /\ c[a] \in CacheData /\ Fits(c[a], "relock")
          /\ "relock" \in RequestPlaces /\ "relock" \in Deleting
      BY <1>1, <2>1, <3>1 DEF RequestPart, Fits, MovedPlaces, WithNode, RequestPlaces, Deleting
    <3> QED BY <1>1, <1>5, <2>1, <3>1, <3>2, RequestMoves
  <2>2. CASE a = Manager
    <3>1. \E s \in {"relock", "relock old"} : Goto(Manager, s)
      BY <2>2 DEF Unlink
    <3>2. {"relock", "relock old"} \subseteq ManagerPlaces \cap Deleting
      BY DEF ManagerPlaces, Deleting
    <3> QED BY <1>1, <1>5, <2>2, <3>1, <3>2, ManagerMoves
  <2> QED BY <2>1, <2>2 DEF Deleters
<1> QED BY <1>1, <1>4, <1>6, NodesKeep DEF NodePart, IInv, QueuePart

LEMMA CheckStep ==
    ASSUME IInv, Check
    PROVE  IInv'
<1>1. /\ BasePart /\ NodePart /\ RequestPart /\ Manager \in Deleters
      /\ UNCHANGED <<conf, queue, c, victim, leaked, node, inactive>>
  BY DEF IInv, Check, shared, Deleters
<1>2. victim' = [victim EXCEPT ![Manager] = None] /\ None \in Slots \cup {None}
  BY <1>1 DEF RequestPart, Check, At, Deleting
<1>3. PICK s \in {"rest", "force"} : Goto(Manager, s)
  BY DEF Check
<1>4. s \in ManagerPlaces /\ s \notin Deleting
  BY DEF ManagerPlaces, Deleting
<1>5. RequestPart'
  BY <1>1, <1>2, <1>3, <1>4, ManagerMoves
<1>6. BasePart'
  BY <1>1, BaseStays DEF Check, shared, BasePart
<1> QED BY <1>1, <1>5, <1>6, NodesKeep DEF NodePart, IInv, QueuePart

LEMMA TimeSteps ==
    ASSUME IInv, Time \/ LoadEnd \/ \E k \in Keys : LoadRead(k)
    PROVE  IInv'
<1>1. /\ BasePart /\ NodePart /\ QueuePart /\ RequestPart /\ node \in [Slots -> NodeData]
  BY DEF IInv, NodePart
<1>2. UNCHANGED <<conf, queue, c, victim, leaked, pc>>
  BY DEF Time, LockRunsOut, ErrorExpires, Deactivate, FileExpires, Timeless, LoadEnd, LoadRead, shared
<1>3. RequestPart'
  BY <1>1, <1>2 DEF RequestPart
<1>4. ASSUME NEW n \in Slots, LockRunsOut(n) \/ Deactivate(n) PROVE IInv'
  <2>1. UNCHANGED node /\ inactive' \subseteq Nodes /\ BasePart'
    BY <1>1, <1>4 DEF LockRunsOut, Deactivate, Timeless, loader, BasePart, QueuePart
  <2> QED BY <1>1, <1>2, <1>3, <2>1, NodesKeep
<1>5. ASSUME NEW n \in Slots, ErrorExpires(n) PROVE IInv'
  <2> DEFINE f == [node[n] EXCEPT !.live = FALSE]
  <2>1. node[n] \in NodeData
    BY <1>1
  <2>2. f \in NodeData /\ f.count = node[n].count /\ f.key = node[n].key
    BY <2>1 DEF NodeData
  <2>3. node' = [node EXCEPT ![n] = f] /\ inactive' \subseteq Nodes /\ BasePart'
    BY <1>1, <1>5 DEF ErrorExpires, Timeless, loader, BasePart, QueuePart
  <2> HIDE DEF f
  <2>4. /\ node' \in [Slots -> NodeData]
        /\ \A m \in Slots : node'[m].count = node[m].count /\ node'[m].key = node[m].key
    BY <1>1, <2>2, <2>3
  <2> QED BY <1>1, <1>2, <1>3, <2>3, <2>4, NodesKeep
<1>6. ASSUME NEW k \in Keys, FileExpires(k) PROVE IInv'
  <2> DEFINE f == [file[k] EXCEPT !.valid = FALSE]
  <2>1. file \in [Keys -> {NoFile} \cup Files] /\ file[k] \in {NoFile} \cup Files
    BY <1>1 DEF BasePart
  <2>2. f \in {NoFile} \cup Files
    <3>1. file[k].valid
      BY <1>6 DEF FileExpires
    <3>2. file[k] \in Files
      BY <2>1, <3>1 DEF NoFile
    <3> QED BY <3>2 DEF Files
  <2>3. file' = [file EXCEPT ![k] = f]
    BY <1>6 DEF FileExpires
  <2> HIDE DEF f
  <2>4. file' \in [Keys -> {NoFile} \cup Files]
    BY <2>1, <2>2, <2>3
  <2>5. BasePart'
    BY <1>1, <1>6, <2>4, BaseStays DEF FileExpires, Timeless, BasePart
  <2> QED BY <1>1, <1>2, <1>3, <1>6, <2>5, NodesKeep DEF FileExpires, QueuePart
<1>7. CASE LoadEnd
  <2>1. BasePart'
    BY <1>1, <1>7 DEF LoadEnd, BasePart, shared
  <2> QED BY <1>1, <1>2, <1>3, <1>7, <2>1, NodesKeep DEF LoadEnd, QueuePart, shared
<1>8. ASSUME NEW k \in Keys, LoadRead(k) PROVE IInv'
  <2>1. file[k] \in {NoFile} \cup Files
    BY <1>1 DEF BasePart
  <2>2. file[k].size > 0 => file[k].size \in Sizes
    <3>1. file[k].size \in {0} \cup Sizes
      BY <2>1, FileHas
    <3> QED BY <3>1
  <2>3. todo' \subseteq Keys /\ (seen' = None \/ seen' \in [key : Keys, size : Sizes])
    BY <1>1, <1>8, <2>2 DEF LoadRead, BasePart
  <2>4. BasePart'
    BY <1>1, <1>8, <2>3 DEF LoadRead, BasePart, shared
  <2> QED BY <1>1, <1>2, <1>3, <1>8, <2>4, NodesKeep DEF LoadRead, QueuePart, shared
<1> QED BY <1>4, <1>5, <1>6, <1>7, <1>8 DEF Time

LEMMA LoadAddStep ==
    ASSUME IInv, LoadAdd
    PROVE  IInv'
<1>1. /\ BasePart /\ NodePart /\ QueuePart /\ RequestPart /\ CountIsKept /\ conf \in Confs
      /\ conf.zone \subseteq Slots /\ None \notin Slots
      /\ seen \in [key : Keys, size : Sizes]
  BY Zone DEF IInv, BasePart, LoadAdd
<1>2. UNCHANGED <<conf, c, pc, victim, leaked>>
  BY DEF LoadAdd
<1>3. RequestPart'
  BY <1>1, <1>2 DEF RequestPart
<1>4. seen.key \in Keys /\ seen.size \in Sizes /\ seen.size \in Nat /\ seen.key # None
  BY <1>1, SizesAre, Zone
<1>5. size' \in Int /\ file' \in [Keys -> {NoFile} \cup Files]
  BY <1>1, <1>4 DEF LoadAdd, BasePart
<1>6. BasePart'
  BY <1>1, <1>5 DEF BasePart, LoadAdd
<1>7. ASSUME NEW n \in conf.zone \ Nodes, ToHead(n),
             node' = [node EXCEPT ![n] = [FreeNode EXCEPT !.key = seen.key, !.uses = 1,
                                                     !.exists = TRUE, !.fs_size = seen.size]]
      PROVE  IInv'
  <2> DEFINE f == [FreeNode EXCEPT !.key = seen.key, !.uses = 1, !.exists = TRUE,
                                   !.fs_size = seen.size]
  <2>1. f \in NodeData /\ f.key = seen.key /\ f.count = 0
    BY <1>4 DEF FreeNode, NodeData
  <2>2. node' = [node EXCEPT ![n] = f]
    BY <1>7
  <2> HIDE DEF f
  <2>3. \A m : Users(m)' = Users(m)
    BY <1>2 DEF Users
  <2>4. /\ Users(n) = {} /\ f.count = Cardinality(Users(n)')
        /\ \A q \in Requests : c'[q].node # n
    BY <1>2, <2>1, <2>3, FreePlace, FS_EmptySet, ZenonT(60) DEF Users
  <2>5. NodePart' /\ QueuePart' /\ CountIsKept'
    BY <1>2, <1>3, <1>4, <1>7, <2>1, <2>2, <2>3, <2>4, NodeAppears
  <2> QED BY <1>3, <1>6, <2>5 DEF IInv
<1>8. CASE UNCHANGED <<node, queue, inactive>>
  BY <1>1, <1>2, <1>3, <1>6, <1>8, NodesKeep DEF NodePart, QueuePart
<1>9. ASSUME NEW n \in Found(seen.key), ToHead(n), UNCHANGED node
      PROVE  IInv'
  <2>1. n \in Nodes /\ n \in conf.zone
    BY <1>4 DEF Found, Nodes
  <2>2. NodePart' /\ Nodes' = Nodes \cup {n}
    BY <1>1, <1>2, <1>9, <2>1 DEF NodePart, Nodes
  <2>3. QueuePart'
    BY <1>1, <1>2, <1>9, <2>1, <2>2, QueueToHead
  <2>4. CountIsKept'
    BY <1>1, <1>2, <1>9, CountStays
  <2> QED BY <1>3, <1>6, <2>2, <2>3, <2>4 DEF IInv
<1> QED BY <1>7, <1>8, <1>9 DEF LoadAdd

LEMMA LostAre ==
    ASSUME NEW x, NEW y, NEW n
    PROVE  /\ Cardinality({i \in DOMAIN <<x>> : <<x>>[i] = n}) = IF x = n THEN 1 ELSE 0
           /\ Cardinality({i \in DOMAIN <<x, y>> : <<x, y>>[i] = n})
                 = (IF x = n THEN 1 ELSE 0) + (IF y = n THEN 1 ELSE 0)
<1> DEFINE A == {i \in DOMAIN <<x>> : <<x>>[i] = n}
           B == {i \in DOMAIN <<x, y>> : <<x, y>>[i] = n}
<1>1. A = IF x = n THEN {1} ELSE {}
  OBVIOUS
<1>2. B = (IF x = n THEN {1} ELSE {}) \cup (IF y = n THEN {2} ELSE {})
  OBVIOUS
<1>3. /\ Cardinality({}) = 0 /\ Cardinality({1}) = 1 /\ Cardinality({2}) = 1
      /\ Cardinality({1} \cup {2}) = 2
  <2>1. IsFiniteSet({1}) /\ Cardinality({1}) = 1 /\ Cardinality({2}) = 1
    BY FS_Singleton
  <2>2. Cardinality({1} \cup {2}) = Cardinality({1}) + 1
    BY <2>1, FS_AddElement
  <2> QED BY <2>1, <2>2, FS_EmptySet
<1> HIDE DEF A, B
<1>4. Cardinality(A) = IF x = n THEN 1 ELSE 0
  BY <1>1, <1>3
<1>5. Cardinality(B) = (IF x = n THEN 1 ELSE 0) + (IF y = n THEN 1 ELSE 0)
  <2>1. CASE x = n /\ y = n
    BY <1>2, <1>3, <2>1
  <2>2. CASE x = n /\ y # n
    <3>1. B = {1}
      BY <1>2, <2>2
    <3> QED BY <1>3, <2>2, <3>1
  <2>3. CASE x # n /\ y = n
    <3>1. B = {2}
      BY <1>2, <2>3
    <3> QED BY <1>3, <2>3, <3>1
  <2>4. CASE x # n /\ y # n
    <3>1. B = {}
      BY <1>2, <2>4
    <3> QED BY <1>3, <2>4, <3>1
  <2> QED BY <2>1, <2>2, <2>3, <2>4
<1> QED BY <1>4, <1>5 DEF A, B

(* What a process that dies with one node, or with two, adds to leaked[n].   *)
LostOf(x, n) == Cardinality({i \in DOMAIN <<x>> : <<x>>[i] = n})
LostOfBoth(x, y, n) == Cardinality({i \in DOMAIN <<x, y>> : <<x, y>>[i] = n})

LEMMA LostIs ==
    \A x, y, n : /\ LostOf(x, n) = IF x = n THEN 1 ELSE 0
                 /\ LostOfBoth(x, y, n) = (IF x = n THEN 1 ELSE 0) + (IF y = n THEN 1 ELSE 0)
  BY LostAre DEF LostOf, LostOfBoth

LEMMA CrashSteps ==
    ASSUME IInv, ManagerCrash \/ \E r \in Requests : Crash(r)
    PROVE  IInv'
<1>1. /\ BasePart /\ NodePart /\ QueuePart /\ RequestPart /\ CountIsKept /\ None \notin Slots
      /\ Manager \notin Requests /\ Manager \in Deleters
  BY CacheAssumption DEF CacheAssumption, IInv, Deleters
<1>2. UNCHANGED <<conf, node, queue, inactive, size, over, takes, file, todo, seen, cold, drifted>>
  BY DEF ManagerCrash, Crash, shared, loader
<1>3. NodePart' /\ QueuePart' /\ Nodes' = Nodes
  BY <1>1, <1>2 DEF NodePart, QueuePart, Nodes, Apart, Range
<1>4. CASE ManagerCrash
  <2> DEFINE v == victim[Manager]
  <2>1. UNCHANGED <<c, owners>> /\ victim' = [victim EXCEPT ![Manager] = None] /\ Goto(Manager, "rest")
    BY <1>4 DEF ManagerCrash
  <2>2. RequestPart'
    <3>1. "rest" \in ManagerPlaces /\ "rest" \notin Deleting /\ None \in Slots \cup {None}
      BY DEF ManagerPlaces, Deleting
    <3> QED BY <1>1, <2>1, <3>1, ManagerMoves
  <2>3. /\ leaked' \in [Slots -> Nat]
        /\ \A n \in Slots : leaked'[n] = leaked[n] + IF v = n THEN 1 ELSE 0
    <3>2. leaked' = [n \in Slots |-> leaked[n] + LostOf(v, n)]
      BY <1>4 DEF ManagerCrash, Lost, LostOf
    <3>1. \A n \in Slots : leaked'[n] = leaked[n] + IF v = n THEN 1 ELSE 0
      <4> HIDE DEF v
      <4> TAKE n \in Slots
      <4>1. leaked'[n] = leaked[n] + LostOf(v, n)
        BY <3>2
      <4>2. LostOf(v, n) = IF v = n THEN 1 ELSE 0
        BY LostIs
      <4> QED BY <4>1, <4>2, Zenon
    <3>3. \A n \in Slots : leaked'[n] \in Nat
      BY <1>1, <3>1 DEF BasePart
    <3> HIDE DEF v
    <3> QED BY <3>1, <3>2, <3>3
  <2>4. \A m : Users(m)' = Users(m)
    BY <2>1 DEF Users
  <2>5. \A b \in Deleters \ {Manager} : victim'[b] = victim[b]
    BY <1>1, <2>1 DEF RequestPart
  <2>6. victim'[Manager] = None
    BY <1>1, <2>1 DEF RequestPart
  <2>7. ASSUME NEW n \in Slots
        PROVE  node'[n].count = Cardinality(Users(n)') + Cardinality(DeletersOf(n)') + leaked'[n]
    <3> DEFINE x == Cardinality(Users(n))
               y == Cardinality(DeletersOf(n))
               z == leaked[n]
    <3>1. x \in Nat /\ y \in Nat /\ z \in Nat /\ node'[n].count = x + y + z
      BY <1>1, <1>2, Finite DEF BasePart, CountIsKept
    <3>2. Cardinality(Users(n)') = x
      BY <2>4
    <3>3. CASE v = n
      <4>1. Cardinality(DeletersOf(n)') = y - 1 /\ leaked'[n] = z + 1
        BY <1>1, <2>3, <2>5, <2>6, <3>3, DeletersChange
      <4> HIDE DEF x, y, z
      <4> QED BY <3>1, <3>2, <4>1
    <3>4. CASE v # n
      <4>1. Cardinality(DeletersOf(n)') = y /\ leaked'[n] = z
        BY <1>1, <2>3, <2>5, <2>6, <3>1, <3>4, DeletersChange
      <4> HIDE DEF x, y, z
      <4> QED BY <3>1, <3>2, <4>1
    <3> QED BY <3>3, <3>4
  <2>8. CountIsKept'
    BY <1>1, <1>2, <1>3, <2>1, <2>5, <2>6, <2>7 DEF CountIsKept
  <2>9. BasePart'
    BY <1>1, <1>2, <2>1, <2>3 DEF BasePart
  <2> QED BY <1>3, <2>2, <2>8, <2>9 DEF IInv
<1>5. ASSUME NEW r \in Requests, Crash(r) PROVE IInv'
  <2> DEFINE u == c[r].node
             v == victim[r]
  <2>1. /\ c' = [c EXCEPT ![r] = NewCache] /\ victim' = [victim EXCEPT ![r] = None] /\ Goto(r, "done")
        /\ owners' = [n \in Slots |-> owners[n] \ {r}] /\ r \in Deleters
    BY <1>5 DEF Crash, Done, Deleters
  <2>2. RequestPart'
    <3>1. /\ "done" \in RequestPlaces /\ "done" \notin Deleting /\ None \in Slots \cup {None}
          /\ Fits(NewCache, "done")
      BY NewCacheIs DEF RequestPlaces, Deleting, Fits, MovedPlaces, WithNode
    <3> QED BY <1>1, <2>1, <3>1, NewCacheIs, RequestMoves
  <2>3. /\ leaked' \in [Slots -> Nat]
        /\ \A n \in Slots : leaked'[n] = leaked[n] + ((IF u = n THEN 1 ELSE 0) + (IF v = n THEN 1 ELSE 0))
    <3>2. leaked' = [n \in Slots |-> leaked[n] + LostOfBoth(u, v, n)]
      BY <1>5 DEF Crash, Lost, LostOfBoth
    <3>1. \A n \in Slots : leaked'[n] = leaked[n] + ((IF u = n THEN 1 ELSE 0) + (IF v = n THEN 1 ELSE 0))
      <4> HIDE DEF u, v
      <4> TAKE n \in Slots
      <4>1. leaked'[n] = leaked[n] + LostOfBoth(u, v, n)
        BY <3>2
      <4>2. LostOfBoth(u, v, n) = (IF u = n THEN 1 ELSE 0) + (IF v = n THEN 1 ELSE 0)
        BY LostIs
      <4> QED BY <4>1, <4>2, Zenon
    <3>3. \A n \in Slots : leaked'[n] \in Nat
      BY <1>1, <3>1 DEF BasePart
    <3> HIDE DEF u, v
    <3> QED BY <3>1, <3>2, <3>3
  <2>4. /\ c'[r] = NewCache /\ \A q \in Requests \ {r} : c'[q] = c[q]
        /\ victim'[r] = None /\ \A b \in Deleters \ {r} : victim'[b] = victim[b]
    BY <1>1, <2>1 DEF RequestPart
  <2>5. ASSUME NEW n \in Slots
        PROVE  node'[n].count = Cardinality(Users(n)') + Cardinality(DeletersOf(n)') + leaked'[n]
    <3> DEFINE x == Cardinality(Users(n))
               y == Cardinality(DeletersOf(n))
               z == leaked[n]
               x2 == Cardinality(Users(n)')
               y2 == Cardinality(DeletersOf(n)')
    <3>1. x \in Nat /\ y \in Nat /\ z \in Nat /\ node'[n].count = x + y + z
      BY <1>1, <1>2, Finite DEF BasePart, CountIsKept
    <3>2. x2 = IF u = n THEN x - 1 ELSE x
      BY <1>1, <2>4, NewCacheIs, UsersChange
    <3>3. y2 = IF v = n THEN y - 1 ELSE y
      BY <1>1, <2>1, <2>4, DeletersChange
    <3>4. leaked'[n] = z + ((IF u = n THEN 1 ELSE 0) + (IF v = n THEN 1 ELSE 0))
      BY <2>3
    <3> HIDE DEF x, y, z, x2, y2, u, v
    <3>5. node'[n].count = x2 + y2 + leaked'[n]
      BY <3>1, <3>2, <3>3, <3>4
    <3> QED BY <3>5 DEF x2, y2
  <2>6. ASSUME NEW q \in Requests, c'[q].node # None PROVE node'[c'[q].node].key = c'[q].key
    <3>1. c'[q] = c[q]
      BY <2>4, <2>6, NewCacheIs
    <3> QED BY <1>1, <1>2, <2>6, <3>1 DEF CountIsKept
  <2>7. CountIsKept'
    BY <1>1, <1>3, <2>4, <2>5, <2>6 DEF CountIsKept
  <2>8. BasePart'
    BY <1>1, <1>2, <2>1, <2>3 DEF BasePart
  <2> QED BY <1>3, <2>2, <2>7, <2>8 DEF IInv
<1> QED BY <1>4, <1>5

-----------------------------------------------------------------------------
(* The invariant *)

LEMMA IInvInit == Init => IInv
<1> SUFFICES ASSUME Init PROVE IInv
  OBVIOUS
<1>1. conf \in Confs /\ conf.zone \subseteq Slots /\ conf.keys \subseteq Keys /\ None \notin Slots
  BY Zone DEF Init
<1>2. BasePart
  <2>1. conf.old \in SUBSET Keys
    BY <1>1, CacheAssumption DEF CacheAssumption
  <2>2. cold \in BOOLEAN /\ drifted \in BOOLEAN /\ size \in Int /\ takes \in Nat /\ over \subseteq Slots
    <3>1. size = 0 /\ takes = 0 /\ over = Slots
      BY DEF Init
    <3>3. drifted \in BOOLEAN
      <4>1. drifted = FALSE
        BY DEF Init
      <4> QED BY <4>1, Zenon
    <3>2. cold \in BOOLEAN
      <4>1. cold = (conf.old # {})
        BY DEF Init
      <4> QED BY <4>1, Zenon
    <3> QED BY <3>1, <3>2, <3>3
  <2>3. file \in [Keys -> {NoFile} \cup Files] /\ todo \subseteq Keys /\ seen = None
    BY <2>1 DEF Init
  <2>4. owners \in [Slots -> SUBSET Requests] /\ leaked \in [Slots -> Nat]
    BY DEF Init
  <2> QED BY <1>1, <2>2, <2>3, <2>4 DEF BasePart
<1>3. NodePart
  BY FreeNodeIs DEF Init, NodePart
<1>4. Nodes = {} /\ queue = <<>> /\ inactive = {}
  BY <1>1, FreeNodeIs DEF Init, Nodes
<1>5. QueuePart
  <2>1. <<>> \in Seq(conf.zone) /\ Range(<<>>) = {} /\ Apart(<<>>)
    BY DEF Range, Apart
  <2> QED BY <1>4, <2>1 DEF QueuePart
<1>6. RequestPart
  <2>1. Manager \notin Requests /\ Deleters = Requests \cup {Manager}
    BY CacheAssumption DEF CacheAssumption, Deleters
  <2>2. c = [r \in Requests |-> NewCache] /\ c \in [Requests -> CacheData]
    BY NewCacheIs DEF Init
  <2>3. pc = [a \in Deleters |-> IF a = Manager THEN "rest" ELSE "new"]
    BY DEF Init
  <2>4. victim = [a \in Deleters |-> None]
    BY DEF Init
  <2>5. {"rest", "new"} \subseteq RequestPlaces \cup ManagerPlaces /\ "new" \in RequestPlaces
        /\ "rest" \in ManagerPlaces /\ {"rest", "new"} \cap Deleting = {} /\ Fits(NewCache, "new")
    BY NewCacheIs DEF RequestPlaces, ManagerPlaces, Deleting, Fits, MovedPlaces, WithNode
  <2> QED BY <2>1, <2>2, <2>3, <2>4, <2>5 DEF RequestPart
<1>7. CountIsKept
  <2>1. \A n \in Slots : Users(n) = {} /\ DeletersOf(n) = {}
    BY <1>1, NewCacheIs DEF Init, Users, DeletersOf
  <2>2. \A n \in Slots : node[n].count = Cardinality(Users(n)) + Cardinality(DeletersOf(n)) + leaked[n]
    <3> TAKE n \in Slots
    <3>1. node[n].count = 0 /\ leaked[n] = 0
      BY FreeNodeIs DEF Init
    <3>2. Cardinality(Users(n)) = 0 /\ Cardinality(DeletersOf(n)) = 0
      BY <2>1, FS_EmptySet
    <3> QED BY <3>1, <3>2
  <2> QED BY <2>2, NewCacheIs DEF CountIsKept, Init
<1> QED BY <1>2, <1>3, <1>5, <1>6, <1>7 DEF IInv

LEMMA IInvStep == IInv /\ [Next]_vars => IInv'
<1> SUFFICES ASSUME IInv, [Next]_vars PROVE IInv'
  OBVIOUS
<1>1. ASSUME NEW r \in Requests, Arrive(r) \/ Step(r) \/ WaitTooLong(r) PROVE IInv'
  <2>1. r \in Deleters /\ r # Manager /\ pc[r] \in RequestPlaces
    BY CacheAssumption DEF CacheAssumption, Deleters, IInv, RequestPart
  <2>2. CASE Opens(r)
    <3>1. CASE RequestForce(r)
      BY <2>1, <3>1, ForcedExpireStep DEF RequestForce
    <3>2. CASE RequestEndDelete(r)
      <4>1. pc[r] = "relock" /\ pc[r] \in Deleting /\ EndDelete(r, "retry")
        BY <3>2 DEF RequestEndDelete, At, Deleting
      <4> QED BY <2>1, <4>1, EndDeleteStep, Zenon
    <3> QED BY <2>1, <2>2, <3>1, <3>2, LookupStep, InsertStep, QuietSteps, OpeningSteps, LockSteps,
               ReadFileStep, ReopenStep, UnlinkStep DEF Opens
  <2>3. CASE Locks(r) \/ Answers(r) \/ Arrive(r) \/ WaitTooLong(r)
    BY <2>3, QuietSteps, OpeningSteps, LockSteps, UpdateVariantStep, UpdateStep, FreeStep
       DEF Locks, Answers
  <2> QED BY <1>1, <2>2, <2>3 DEF Step
<1>2. CASE ManagerStep
  <2>1. Manager \in Deleters
    BY DEF Deleters
  <2>2. CASE ExpireGoesOn \/ ManagerEndDelete
    <3>1. pc[Manager] \in Deleting /\ \E next \in {"expire", "check"} : EndDelete(Manager, next)
      BY <2>2 DEF ExpireGoesOn, ManagerEndDelete, At, Deleting
    <3> QED BY <2>1, <3>1, EndDeleteStep, Zenon
  <2>3. CASE ManagerForce
    BY <2>1, <2>3, ForcedExpireStep DEF ManagerForce
  <2> QED BY <1>2, <2>1, <2>2, <2>3, ExpireStep, CheckStep, UnlinkStep DEF ManagerStep
<1>3. CASE UNCHANGED vars
  <2>1. UNCHANGED <<conf, queue, c, victim, leaked, node, inactive>> /\ RequestPart' /\ BasePart'
    BY <1>3 DEF vars, shared, loader, IInv, RequestPart, BasePart
  <2> QED BY <2>1, NodesKeep DEF IInv, NodePart, QueuePart
<1> QED BY <1>1, <1>2, <1>3, CrashSteps, LoadAddStep, TimeSteps DEF Next, LoaderStep

LEMMA IInvHolds == Spec => []IInv
  BY IInvInit, IInvStep, PTL DEF Spec

LEMMA IInvIsTyped == IInv => TypeOK
<1> SUFFICES ASSUME IInv PROVE TypeOK
  OBVIOUS
<1>1. queue \in Seq(conf.zone) /\ Apart(queue) /\ Range(queue) = Nodes
  BY DEF IInv, QueuePart
<1>2. Len(queue) = Cardinality(Nodes)
  <2> DEFINE zone == conf.zone
  <2>1. queue \in Seq(zone)
    BY <1>1
  <2> HIDE DEF zone
  <2> QED BY <1>1, <2>1, LenIsCardinality
<1> QED BY <1>1, <1>2 DEF TypeOK, IInv, BasePart, NodePart, QueuePart, RequestPart

(* All variables keep their types; the queue has each node of the tree, once. *)
THEOREM TypeCorrect == Spec => []TypeOK
  BY IInvHolds, IInvIsTyped, PTL

(* The count of a node is the number of those who have it, alive or dead, and *)
(* a node that somebody has is neither freed nor given to another key; also    *)
(* when Vary leads a request from one node to another, and back.               *)
THEOREM ReferencesAreKept == Spec => []CountIsKept
<1>1. IInv => CountIsKept
  BY DEF IInv
<1> QED BY <1>1, IInvHolds, PTL

-----------------------------------------------------------------------------
(* The lock of a node *)

LockKeeps(n) ==
    /\ owners'[n] \subseteq owners[n] /\ node'[n].lock_time <= takes
    /\ node'[n].key = None => ~node'[n].updating
    /\ node'[n].lock_time = node[n].lock_time \/ None \in {node[n].key, node'[n].key}
    /\ \/ owners'[n] = {} \/ n \in over'
       \/ /\ owners'[n] = owners[n] /\ n \notin over
          /\ node[n].updating => node'[n].updating
          /\ node'[n].lock_time = node[n].lock_time

CacheKeeps(r) ==
    /\ c'[r].lock_time <= takes
    /\ Holds(r)' => /\ c'[r].node = c[r].node /\ Holds(r)
                    /\ c'[r].lock_time = c[r].lock_time

HoldersHaveNodes ==
    \A r \in Requests : Holds(r) => c[r].node \in Slots /\ node[c[r].node].key # None

LEMMA UsersHaveNodes == IInv => HoldersHaveNodes
<1> SUFFICES ASSUME IInv, NEW r \in Requests, c[r].updating, ~c[r].moved
             PROVE  c[r].node \in Slots /\ node[c[r].node].key # None
  BY DEF HoldersHaveNodes, Holds
<1>1. c[r].node \in Slots
  BY RequestHas DEF Fits, WithNode, CacheData
<1> QED BY <1>1, Referring, UsedNode

LEMMA UsersHaveNodesNext == IInv' => HoldersHaveNodes'
  BY UsersHaveNodes, PTL

LEMMA LockFrame ==
    ASSUME IInv, IInv', LockInv, UNCHANGED takes, \A n \in Slots : LockKeeps(n),
           \A r \in Requests : CacheKeeps(r)
    PROVE  LockInv'
<1>1. \A n \in Slots : node'[n].lock_time <= takes' /\ (node'[n].key = None => ~node'[n].updating)
  BY DEF LockKeeps
<1>2. ASSUME NEW r \in Requests
      PROVE  /\ c'[r].lock_time <= takes'
             /\ Holds(r)' => c'[r].lock_time <= node'[c'[r].node].lock_time
  <2>1. CASE Holds(r)'
    <3> DEFINE n == c[r].node
    <3>1. c'[r].node = n /\ Holds(r) /\ c'[r].lock_time = c[r].lock_time
      BY <2>1 DEF CacheKeeps
    <3>2. n \in Slots /\ node[n].key # None /\ node'[n].key # None
      BY <2>1, <3>1, UsersHaveNodes, UsersHaveNodesNext DEF HoldersHaveNodes
    <3> HIDE DEF n
    <3>3. node'[n].lock_time = node[n].lock_time
      BY <3>2 DEF LockKeeps
    <3>4. c[r].lock_time <= node[n].lock_time
      BY <3>1 DEF LockInv, n
    <3> QED BY <3>1, <3>3, <3>4 DEF CacheKeeps
  <2> QED BY <2>1 DEF CacheKeeps
<1>3. \A n \in Slots : \A r, q \in owners'[n] : r = q
  BY DEF LockKeeps, LockInv
<1>4. ASSUME NEW n \in Slots, owners'[n] # {}, n \notin over'
      PROVE  /\ node'[n].updating
             /\ \A r \in Requests :
                   (Holds(r)' /\ c'[r].node = n /\ c'[r].lock_time = node'[n].lock_time)
                   => r \in owners'[n]
  <2>1. /\ owners'[n] = owners[n] /\ n \notin over
        /\ node[n].updating => node'[n].updating
        /\ node'[n].lock_time = node[n].lock_time
    BY <1>4 DEF LockKeeps
  <2>2. /\ node[n].updating
        /\ \A r \in Requests :
              (Holds(r) /\ c[r].node = n /\ c[r].lock_time = node[n].lock_time)
              => r \in owners[n]
    BY <1>4, <2>1 DEF LockInv
  <2> QED BY <1>4, <2>1, <2>2 DEF CacheKeeps, LockKeeps
<1> QED BY <1>1, <1>2, <1>3, <1>4 DEF LockInv

(* The nodes of F are freed, and no lock of another node changes.            *)
LEMMA LockOfRest ==
    ASSUME IInv, LockInv, NEW F \in SUBSET Slots, over' = over \cup F,
           \A n \in Slots : owners'[n] = IF n \in F THEN {} ELSE owners[n],
           \A n \in F : node'[n] = FreeNode,
           \A n \in Slots \ F : /\ node'[n].lock_time = node[n].lock_time
                                /\ node'[n].updating = node[n].updating
                                /\ node'[n].key = node[n].key
    PROVE  \A n \in Slots : LockKeeps(n)
<1>1. takes \in Nat
  BY DEF IInv, BasePart
<1>2. ASSUME NEW n \in F PROVE LockKeeps(n)
  <2>1. node'[n].lock_time = 0 /\ ~node'[n].updating /\ node'[n].key = None
    BY DEF FreeNode
  <2>2. owners'[n] = {} /\ n \in over'
    BY <1>2
  <2> QED BY <1>1, <2>1, <2>2 DEF LockKeeps
<1>3. ASSUME NEW n \in Slots \ F PROVE LockKeeps(n)
  BY DEF LockKeeps, LockInv
<1> QED BY <1>2, <1>3

LEMMA LockUntouched ==
    ASSUME IInv, LockInv, UNCHANGED owners, over \subseteq over',
           \A n \in Slots : /\ node'[n].lock_time = node[n].lock_time
                            /\ node'[n].updating = node[n].updating
                            /\ node'[n].key = node[n].key
    PROVE  \A n \in Slots : LockKeeps(n)
  BY DEF LockKeeps, LockInv

LEMMA CachesStay ==
    ASSUME LockInv, UNCHANGED c
    PROVE  \A r \in Requests : CacheKeeps(r)
  BY DEF CacheKeeps, Holds, LockInv

SameHold(d, e) == d.updating = e.updating /\ d.moved = e.moved /\ d.node = e.node

(* The cache of one request changes, and does not come to hold a lock.       *)
LEMMA CacheMoves ==
    ASSUME IInv, LockInv, NEW r \in Requests, NEW d, c' = [c EXCEPT ![r] = d],
           \/ d.lock_time = c[r].lock_time /\ SameHold(d, c[r])
           \/ d.lock_time = c[r].lock_time /\ (~d.updating \/ d.moved)
           \/ d.lock_time = 0 /\ ~d.updating
    PROVE  \A q \in Requests : CacheKeeps(q)
<1>1. c \in [Requests -> CacheData] /\ takes \in Nat
  BY DEF IInv, RequestPart, BasePart
<1>2. c'[r] = d /\ \A q \in Requests \ {r} : c'[q] = c[q]
  BY <1>1
<1>3. ASSUME NEW q \in Requests \ {r} PROVE CacheKeeps(q)
  BY <1>2 DEF CacheKeeps, Holds, LockInv
<1>4. CacheKeeps(r)
  BY <1>1, <1>2 DEF CacheKeeps, Holds, SameHold, LockInv
<1> QED BY <1>3, <1>4

(* Steps of a request that change no node.                                   *)
LEMMA QuietCaches ==
    ASSUME IInv, NEW r \in Requests,
           \/ Full(r) \/ NoRoom(r) \/ OpenFails(r) \/ BadHeader(r) \/ Updating(r) \/ NoLock(r)
           \/ Arrive(r) \/ OpenFile(r) \/ Revalidate(r) \/ GiveUp(r) \/ Rename(r)
           \/ Wait(r) \/ LockWait(r) \/ WaitTooLong(r)
    PROVE  /\ UNCHANGED <<takes, owners, node, over, victim, size, drifted>>
           /\ \/ UNCHANGED c
              \/ \E d : /\ c' = [c EXCEPT ![r] = d] /\ d.node \in {c[r].node, None}
                        /\ \/ d.lock_time = c[r].lock_time /\ SameHold(d, c[r])
                           \/ d.lock_time = c[r].lock_time /\ ~d.updating
                           \/ d.lock_time = 0 /\ ~d.updating
<1> USE DEF local, shared
<1>1. UNCHANGED <<takes, owners, node, over, victim, size, drifted>>
  BY DEF Full, NoRoom, OpenFails, BadHeader, Updating, NoLock, Arrive, OpenFile, Revalidate, GiveUp,
         Rename, Wait, LockWait, WaitTooLong
<1>2. c[r] \in CacheData
  BY RequestHas
<1>3. CASE NoRoom(r)
  <2>1. NewCache.lock_time = 0 /\ ~NewCache.updating /\ NewCache.node = None
    BY DEF NewCache
  <2>2. c' = [c EXCEPT ![r] = NewCache]
    BY <1>3 DEF NoRoom, Done
  <2> QED BY <1>1, <2>1, <2>2
<1>4. CASE Arrive(r)
  <2>1. PICK k \in conf.keys : c' = [c EXCEPT ![r].key = k]
    BY <1>4 DEF Arrive
  <2> DEFINE d == [c[r] EXCEPT !.key = k]
  <2>2. c' = [c EXCEPT ![r] = d] /\ d.lock_time = c[r].lock_time /\ SameHold(d, c[r]) /\ d.node = c[r].node
    BY <1>2, <2>1 DEF CacheData, SameHold
  <2> HIDE DEF d
  <2> QED BY <1>1, <2>2
<1>5. CASE OpenFile(r)
  <2> DEFINE d1 == [c[r] EXCEPT !.cacheable = FALSE]
             d2 == [c[r] EXCEPT !.fs_size = file[c[r].key].size, !.stale = ~file[c[r].key].valid]
  <2>1. c' = [c EXCEPT ![r] = d1] \/ UNCHANGED c \/ c' = [c EXCEPT ![r] = d2]
    BY <1>5 DEF OpenFile
  <2>2. d1.lock_time = c[r].lock_time /\ SameHold(d1, c[r]) /\ d1.node = c[r].node
    BY <1>2 DEF CacheData, SameHold
  <2>3. d2.lock_time = c[r].lock_time /\ SameHold(d2, c[r]) /\ d2.node = c[r].node
    BY <1>2 DEF CacheData, SameHold
  <2> HIDE DEF d1, d2
  <2> QED BY <1>1, <2>1, <2>2, <2>3
<1>6. CASE GiveUp(r)
  <2>1. PICK e : c' = [c EXCEPT ![r].error = e]
    BY <1>6 DEF GiveUp
  <2> DEFINE d == [c[r] EXCEPT !.error = e]
  <2>2. c' = [c EXCEPT ![r] = d] /\ d.lock_time = c[r].lock_time /\ SameHold(d, c[r]) /\ d.node = c[r].node
    BY <1>2, <2>1 DEF CacheData, SameHold
  <2> HIDE DEF d
  <2> QED BY <1>1, <2>2
<1>7. CASE Rename(r)
  <2>1. PICK s, ok : c' = [c EXCEPT ![r].updating = FALSE, ![r].ok = ok, ![r].fs_size = IF ok THEN s ELSE 0]
    BY <1>7 DEF Rename
  <2> DEFINE d == [c[r] EXCEPT !.updating = FALSE, !.ok = ok, !.fs_size = IF ok THEN s ELSE 0]
  <2>2. c' = [c EXCEPT ![r] = d] /\ d.lock_time = c[r].lock_time /\ ~d.updating /\ d.node = c[r].node
    BY <1>2, <2>1 DEF CacheData, SameHold
  <2> HIDE DEF d
  <2> QED BY <1>1, <2>2
<1>8. CASE Wait(r)
  <2> DEFINE d1 == [c[r] EXCEPT !.cacheable = FALSE]
             d2 == [c[r] EXCEPT !.timer = TRUE]
  <2>1. c' = [c EXCEPT ![r] = d1] \/ c' = [c EXCEPT ![r] = d2]
    BY <1>8 DEF Wait
  <2>2. d1.lock_time = c[r].lock_time /\ SameHold(d1, c[r]) /\ d1.node = c[r].node
    BY <1>2 DEF CacheData, SameHold
  <2>3. d2.lock_time = c[r].lock_time /\ SameHold(d2, c[r]) /\ d2.node = c[r].node
    BY <1>2 DEF CacheData, SameHold
  <2> HIDE DEF d1, d2
  <2> QED BY <1>1, <2>1, <2>2, <2>3
<1>9. CASE LockWait(r) \/ WaitTooLong(r)
  <2>1. PICK late : c' = [c EXCEPT ![r].timer = Rearmed] \/ c' = [c EXCEPT ![r].timer = FALSE, ![r].late = late]
    BY <1>9 DEF LockWait, WaitTooLong, WakeUp
  <2> DEFINE d1 == [c[r] EXCEPT !.timer = Rearmed]
             d2 == [c[r] EXCEPT !.timer = FALSE, !.late = late]
  <2>2. d1.lock_time = c[r].lock_time /\ SameHold(d1, c[r]) /\ d1.node = c[r].node
    BY <1>2 DEF CacheData, SameHold
  <2>3. d2.lock_time = c[r].lock_time /\ SameHold(d2, c[r]) /\ d2.node = c[r].node
    BY <1>2 DEF CacheData, SameHold
  <2>4. c' = [c EXCEPT ![r] = d1] \/ c' = [c EXCEPT ![r] = d2]
    BY <2>1
  <2> HIDE DEF d1, d2
  <2> QED BY <1>1, <2>2, <2>3, <2>4
<1>10. CASE Full(r) \/ OpenFails(r) \/ BadHeader(r) \/ Updating(r) \/ NoLock(r) \/ Revalidate(r)
  BY <1>10 DEF Full, OpenFails, BadHeader, Updating, NoLock, Revalidate
<1> QED BY <1>3, <1>4, <1>5, <1>6, <1>7, <1>8, <1>9, <1>10

LEMMA LockQuietSteps ==
    ASSUME IInv, IInv', LockInv, NEW r \in Requests,
           \/ Full(r) \/ NoRoom(r) \/ OpenFails(r) \/ BadHeader(r) \/ Updating(r) \/ NoLock(r)
           \/ Arrive(r) \/ OpenFile(r) \/ Revalidate(r) \/ GiveUp(r) \/ Rename(r)
           \/ Wait(r) \/ LockWait(r) \/ WaitTooLong(r)
    PROVE  LockInv'
<1>1. UNCHANGED <<takes, owners, node, over>>
  BY QuietCaches
<1>2. \A n \in Slots : LockKeeps(n)
  BY <1>1, LockUntouched
<1>3. \A q \in Requests : CacheKeeps(q)
  BY QuietCaches, CachesStay, CacheMoves
<1> QED BY <1>1, <1>2, <1>3, LockFrame

LEMMA LockTakenStep ==
    ASSUME IInv, LockInv, NEW r \in Requests, TakeLock(r)
    PROVE  LockInv'
<1> DEFINE n == c[r].node
<1>0. PICK t \in {takes, takes + 1} : t = takes' /\ t # node[n].lock_time
  BY DEF TakeLock
<1>1. /\ n \in Slots /\ c[r] \in CacheData /\ takes \in Nat /\ node \in [Slots -> NodeData]
      /\ owners \in [Slots -> SUBSET Requests] /\ c \in [Requests -> CacheData]
      /\ node[n].key # None
  <2>1. c[r] \in CacheData /\ Fits(c[r], pc[r])
    BY RequestHas
  <2>2. n \in Slots /\ n # None
    BY <2>1 DEF TakeLock, At, Fits, WithNode, CacheData
  <2>3. node[n].key # None
    BY <2>2, UsedNode, Referring
  <2> QED BY <2>1, <2>2, <2>3 DEF IInv, BasePart, NodePart, RequestPart
<1>2. /\ node' = [node EXCEPT ![n].updating = TRUE, ![n].lock_time = t]
      /\ c' = [c EXCEPT ![r].updating = TRUE, ![r].lock_time = t]
      /\ owners' = [owners EXCEPT ![n] = (IF n \in over THEN {} ELSE @) \cup {r}]
      /\ over' = over \ {n} /\ takes' = t /\ (~node[n].updating \/ n \in over)
  BY <1>0 DEF TakeLock, LockIsFree
<1>3. t \in Nat /\ takes <= t
  BY <1>0, <1>1
<1> HIDE DEF n
<1>4. /\ node'[n].updating /\ node'[n].lock_time = t /\ node'[n].key = node[n].key
      /\ \A m \in Slots \ {n} : node'[m] = node[m]
  <2> DEFINE f == [node[n] EXCEPT !.updating = TRUE, !.lock_time = t]
  <2>1. node' = [node EXCEPT ![n] = f] /\ node[n] \in NodeData
    BY <1>1, <1>2
  <2>2. f.updating /\ f.lock_time = t /\ f.key = node[n].key
    BY <2>1 DEF NodeData
  <2> HIDE DEF f
  <2> QED BY <1>1, <2>1, <2>2
<1>5. /\ c'[r].node = n /\ c'[r].lock_time = t
      /\ \A q \in Requests \ {r} : c'[q] = c[q]
  <2> DEFINE d == [c[r] EXCEPT !.updating = TRUE, !.lock_time = t]
  <2>1. c' = [c EXCEPT ![r] = d]
    BY <1>2
  <2>2. d.lock_time = t /\ d.node = n
    BY <1>1 DEF CacheData, n
  <2> HIDE DEF d
  <2> QED BY <1>1, <2>1, <2>2
<1>6. owners'[n] = {r} /\ \A m \in Slots \ {n} : owners'[m] = owners[m]
  <2>1. n \in over \/ owners[n] = {}
    BY <1>1, <1>2 DEF LockInv
  <2> QED BY <1>1, <1>2, <2>1
<1>7. /\ \A m \in Slots : node[m].lock_time \in Nat /\ node[m].lock_time <= takes
      /\ \A q \in Requests : c[q].lock_time \in Nat /\ c[q].lock_time <= takes
  <2>1. \A m \in Slots : node[m].lock_time \in Nat
    BY <1>1, NodeHas
  <2>2. \A q \in Requests : c[q].lock_time \in Nat
    BY <1>1 DEF CacheData
  <2> QED BY <2>1, <2>2 DEF LockInv
<1>8. node[n].lock_time < t
  BY <1>0, <1>1, <1>3, <1>7
<1>9. ASSUME NEW q \in Requests, Holds(q)', c'[q].node = n, c'[q].lock_time = t PROVE q = r
  <2> SUFFICES ASSUME q # r PROVE FALSE
    OBVIOUS
  <2>1. c'[q] = c[q]
    BY <1>5
  <2>2. c[q].lock_time <= node[n].lock_time
    BY <1>9, <2>1 DEF Holds, LockInv
  <2> QED BY <1>1, <1>3, <1>7, <1>8, <1>9, <2>1, <2>2
<1>10. ASSUME NEW m \in Slots
      PROVE  /\ node'[m].lock_time <= takes' /\ (node'[m].key = None => ~node'[m].updating)
             /\ \A p, q \in owners'[m] : p = q
             /\ (owners'[m] # {} /\ m \notin over') =>
                   /\ node'[m].updating
                   /\ \A q \in Requests :
                         (Holds(q)' /\ c'[q].node = m /\ c'[q].lock_time = node'[m].lock_time)
                         => q \in owners'[m]
  <2>1. CASE m = n
    <3>1. \A q \in Requests : Holds(q)' /\ c'[q].node = n /\ c'[q].lock_time = t => q = r
      BY <1>9
    <3>2. t <= takes'
      BY <1>2, <1>3
    <3> QED BY <1>1, <1>4, <1>6, <2>1, <3>1, <3>2
  <2>2. CASE m # n
    <3>1. node'[m] = node[m] /\ owners'[m] = owners[m] /\ (m \in over <=> m \in over')
      BY <1>2, <1>4, <1>6, <2>2
    <3>2. node[m].lock_time <= takes'
      BY <1>1, <1>2, <1>3, <1>7
    <3>3. \A q \in Requests : c'[q].node = m => c'[q] = c[q]
      BY <1>5, <2>2
    <3> QED BY <3>1, <3>2, <3>3 DEF Holds, LockInv
  <2> QED BY <2>1, <2>2
<1>11. ASSUME NEW q \in Requests
      PROVE  /\ c'[q].lock_time <= takes'
             /\ Holds(q)' => c'[q].lock_time <= node'[c'[q].node].lock_time
  <2>1. CASE q = r
    <3>1. t <= takes' /\ t <= t
      BY <1>2, <1>3
    <3>2. c'[q].node = n /\ c'[q].lock_time = t /\ node'[n].lock_time = t
      BY <1>4, <1>5, <2>1
    <3> QED BY <3>1, <3>2
  <2>2. CASE q # r
    <3>1. c'[q] = c[q] /\ c'[q].lock_time <= takes'
      BY <1>1, <1>2, <1>3, <1>5, <1>7, <2>2
    <3>2. ASSUME Holds(q)' PROVE c'[q].lock_time <= node'[c'[q].node].lock_time
      <4>1. Holds(q) /\ c[q].node \in Slots /\ c[q].lock_time <= node[c[q].node].lock_time
        BY <3>1, <3>2, UsersHaveNodes DEF HoldersHaveNodes, Holds, LockInv
      <4>2. CASE c[q].node = n
        BY <1>1, <1>3, <1>4, <1>7, <3>1, <4>1, <4>2
      <4>3. CASE c[q].node # n
        BY <1>4, <3>1, <4>1, <4>3
      <4> QED BY <4>2, <4>3
    <3> QED BY <3>1, <3>2
  <2> QED BY <2>1, <2>2
<1> QED BY <1>10, <1>11 DEF LockInv

LEMMA LockOfUsers ==
    ASSUME IInv, IInv', LockInv, NEW r \in Requests,
           \/ ReadFile(r) \/ Reopen(r) \/ Create(r) \/ Retry(r) \/ \E n \in Slots : Lookup(r, n)
    PROVE  LockInv'
<1>1. /\ c[r] \in CacheData /\ Fits(c[r], pc[r]) /\ node \in [Slots -> NodeData]
      /\ UNCHANGED <<takes, owners, over>> /\ conf \in Confs /\ takes \in Nat
  BY RequestHas DEF ReadFile, Reopen, Create, Retry, Insert, Lookup, shared, BasePart
<1>2. CASE ReadFile(r) \/ Reopen(r)
  <2>1. PICK n \in Slots : c[r].node = n
    BY <1>1, <1>2 DEF ReadFile, Reopen, At, Fits, WithNode, CacheData
  <2>2. \E f : /\ f.lock_time = node[n].lock_time /\ f.updating = node[n].updating /\ f.key = node[n].key
               /\ node' = [node EXCEPT ![n] = f]
    <3> DEFINE f1 == [node[n] EXCEPT !.uses = 1, !.exists = TRUE, !.fs_size = c[r].fs_size]
               f2 == [node[n] EXCEPT !.count = @ - 1]
    <3>1. node[n] \in NodeData
      BY <1>1
    <3>2. /\ f1.lock_time = node[n].lock_time /\ f1.updating = node[n].updating /\ f1.key = node[n].key
          /\ f2.lock_time = node[n].lock_time /\ f2.updating = node[n].updating /\ f2.key = node[n].key
      BY <3>1 DEF NodeData
    <3>3. \/ node' = [node EXCEPT ![n] = node[n]]
          \/ node' = [node EXCEPT ![n] = f1] \/ node' = [node EXCEPT ![n] = f2]
      BY <1>1, <1>2, <2>1 DEF ReadFile, Reopen
    <3> HIDE DEF f1, f2
    <3> QED BY <3>2, <3>3
  <2>3. \A m \in Slots : /\ node'[m].lock_time = node[m].lock_time
                         /\ node'[m].updating = node[m].updating /\ node'[m].key = node[m].key
    BY <1>1, <2>2
  <2>4. \A m \in Slots : LockKeeps(m)
    BY <1>1, <2>3, LockUntouched
  <2>5. CASE ReadFile(r)
    BY <1>1, <2>4, <2>5, CachesStay, LockFrame DEF ReadFile
  <2>6. CASE Reopen(r)
    <3>1. PICK k : c' = [c EXCEPT ![r] = [NewCache EXCEPT !.key = k, !.main = c[r].key, !.late = c[r].late]]
      BY <2>6 DEF Reopen
    <3> DEFINE d == [NewCache EXCEPT !.key = k, !.main = c[r].key, !.late = c[r].late]
    <3>2. d.lock_time = 0 /\ ~d.updating /\ c' = [c EXCEPT ![r] = d]
      BY <3>1 DEF NewCache
    <3> HIDE DEF d
    <3> QED BY <1>1, <2>4, <3>2, CacheMoves, LockFrame
  <2> QED BY <1>2, <2>5, <2>6
<1>3. ASSUME NEW n \in Slots, Lookup(r, n) PROVE LockInv'
  <2> DEFINE f == Counted(r, node[n])
  <2>1. node[n] \in NodeData /\ (~c[r].updating \/ c[r].moved)
    BY <1>1, <1>3 DEF Lookup, At, Fits, CacheData
  <2>2. f.lock_time = node[n].lock_time /\ f.updating = node[n].updating /\ f.key = node[n].key /\ f \in NodeData
    <3>1. Used(node[n]) \in Nat /\ node[n].count + 1 \in Nat
      BY <2>1, NodeHas DEF Used
    <3> QED BY <2>1, <3>1 DEF Counted, NodeData
  <2> HIDE DEF f
  <2>3. PICK f2 \in {f, Renewed(f)}, s \in {"open", "fetch", "lock", "answer"}, scarce \in BOOLEAN :
           LookupGoes(r, n, f2, s, scarce)
    BY <1>3, LookupIs DEF f
  <2>4. f2.lock_time = node[n].lock_time /\ f2.updating = node[n].updating /\ f2.key = node[n].key
    BY <2>2, <2>3 DEF Renewed, NodeData
  <2> DEFINE b == c[r].moved \/ ~(scarce /\ s = "fetch")
             e == IF f2.error THEN "cached" ELSE "no"
             d == [c[r] EXCEPT !.node = n, !.scarce = scarce, !.error = e, !.cacheable = b]
  <2>5. c' = [c EXCEPT ![r] = d] /\ node' = [node EXCEPT ![n] = f2]
    BY <2>3 DEF LookupGoes
  <2> HIDE DEF b, e
  <2>6. d.lock_time = c[r].lock_time /\ d.updating = c[r].updating /\ d.moved = c[r].moved
    BY <1>1 DEF CacheData
  <2> HIDE DEF d
  <2>7. \A m \in Slots : /\ node'[m].lock_time = node[m].lock_time
                         /\ node'[m].updating = node[m].updating /\ node'[m].key = node[m].key
    BY <1>1, <2>4, <2>5
  <2>8. \A m \in Slots : LockKeeps(m)
    BY <1>1, <2>7, LockUntouched
  <2> QED BY <1>1, <2>1, <2>5, <2>6, <2>8, CacheMoves, LockFrame
<1>4. CASE Create(r) \/ Retry(r)
  <2>1. PICK n \in conf.zone \ Nodes : Insert(r, n)
    BY <1>4 DEF Create, Retry
  <2>2. n \in Slots /\ node[n].key = None /\ c[r].key # None /\ (~c[r].updating \/ c[r].moved)
    BY <1>1, <1>4, <2>1, FreePlace, Zone DEF Create, Retry, At, Fits, CacheData
  <2> DEFINE f == [FreeNode EXCEPT !.key = c[r].key, !.uses = 1, !.count = 1]
             b1 == conf.min_uses > 1
             b2 == c[r].moved \/ ~(conf.min_uses > 1 /\ ~cold)
             d == [c[r] EXCEPT !.node = n, !.scarce = b1, !.cacheable = b2]
  <2>3. node' = [node EXCEPT ![n] = f] /\ c' = [c EXCEPT ![r] = d]
    BY <2>1 DEF Insert
  <2>4. f.lock_time = 0 /\ ~f.updating /\ f.key # None
    BY <2>2 DEF FreeNode
  <2> HIDE DEF b1, b2, f
  <2>5. d.lock_time = c[r].lock_time /\ d.updating = c[r].updating /\ d.moved = c[r].moved
    BY <1>1 DEF CacheData
  <2> HIDE DEF d
  <2>6. owners[n] = {} \/ n \in over
    BY <2>2 DEF LockInv
  <2>7. ASSUME NEW m \in Slots PROVE LockKeeps(m)
    <3>1. CASE m = n
      <4>1. node'[m] = f
        BY <1>1, <2>3, <3>1
      <4> QED BY <1>1, <2>2, <2>4, <2>6, <3>1, <4>1 DEF LockKeeps
    <3>2. CASE m # n
      <4>1. node'[m] = node[m]
        BY <1>1, <2>3, <3>2
      <4> QED BY <1>1, <4>1 DEF LockKeeps, LockInv
    <3> QED BY <3>1, <3>2
  <2>8. \A q \in Requests : CacheKeeps(q)
    BY <2>2, <2>3, <2>5, CacheMoves
  <2> QED BY <1>1, <2>7, <2>8, LockFrame
<1> QED BY <1>2, <1>3, <1>4

LEMMA LockLeft ==
    ASSUME IInv, IInv', LockInv, NEW r \in Requests, TakeStale(r) \/ UpdateVariant(r) \/ Update(r) \/ Free(r)
    PROVE  LockInv'
<1>1. /\ c[r] \in CacheData /\ Fits(c[r], pc[r]) /\ node \in [Slots -> NodeData]
      /\ owners \in [Slots -> SUBSET Requests] /\ c \in [Requests -> CacheData] /\ takes \in Nat
  BY RequestHas DEF IInv, BasePart, RequestPart
<1>2. PICK n \in Slots : c[r].node = n
  BY <1>1 DEF TakeStale, UpdateVariant, Update, Free, At, Fits, WithNode, CacheData
<1>3. node[n] \in NodeData /\ node[n].key # None /\ UNCHANGED takes
  BY <1>1, <1>2, UsedNode, Referring DEF TakeStale, UpdateVariant, Update, Free
<1>4. CASE TakeStale(r)
  <2> DEFINE f == [node[n] EXCEPT !.updating = TRUE]
             d == [c[r] EXCEPT !.updating = TRUE, !.lock_time = node[n].lock_time]
  <2>1. /\ node' = [node EXCEPT ![n] = f] /\ c' = [c EXCEPT ![r] = d] /\ ~node[n].updating
        /\ UNCHANGED <<owners, over>>
    BY <1>2, <1>4 DEF TakeStale
  <2>2. f.updating /\ f.lock_time = node[n].lock_time /\ f.key = node[n].key
    BY <1>3 DEF NodeData
  <2>3. d.updating /\ d.lock_time = node[n].lock_time /\ d.node = n
    BY <1>1, <1>2 DEF CacheData
  <2> HIDE DEF f, d
  <2>4. /\ node'[n] = f /\ \A m \in Slots \ {n} : node'[m] = node[m]
        /\ c'[r] = d /\ \A q \in Requests \ {r} : c'[q] = c[q]
    BY <1>1, <2>1
  <2>5. n \in over \/ owners[n] = {}
    BY <2>1 DEF LockInv
  <2>6. \A m \in Slots : node'[m].lock_time <= takes' /\ (node'[m].key = None => ~node'[m].updating)
    BY <1>3, <2>2, <2>4 DEF LockInv
  <2>7. ASSUME NEW q \in Requests
        PROVE  /\ c'[q].lock_time <= takes'
               /\ Holds(q)' => c'[q].lock_time <= node'[c'[q].node].lock_time
    <3>1. node[n].lock_time <= takes /\ node[n].lock_time \in Nat
      BY <1>3, NodeHas DEF LockInv
    <3>2. CASE q = r
      BY <1>3, <2>2, <2>3, <2>4, <3>1, <3>2
    <3>3. CASE q # r
      <4>1. c'[q] = c[q] /\ \A m \in Slots : node'[m].lock_time = node[m].lock_time
        BY <2>2, <2>4, <3>3
      <4>2. Holds(q) => c[q].node \in Slots
        BY UsersHaveNodes DEF HoldersHaveNodes
      <4> QED BY <1>3, <4>1, <4>2 DEF Holds, LockInv
    <3> QED BY <3>2, <3>3
  <2>8. ASSUME NEW m \in Slots, owners'[m] # {}, m \notin over'
        PROVE  /\ node'[m].updating
               /\ \A q \in Requests :
                     (Holds(q)' /\ c'[q].node = m /\ c'[q].lock_time = node'[m].lock_time)
                     => q \in owners'[m]
    <3>1. m # n
      BY <2>1, <2>5, <2>8
    <3>2. node'[m] = node[m] /\ \A q \in Requests : c'[q].node = m => c'[q] = c[q]
      BY <2>3, <2>4, <3>1
    <3> QED BY <2>1, <2>8, <3>2 DEF Holds, LockInv
  <2>9. \A m \in Slots : \A p, q \in owners'[m] : p = q
    BY <2>1 DEF LockInv
  <2> QED BY <2>6, <2>7, <2>8, <2>9 DEF LockInv
<1>5. ASSUME c' = [c EXCEPT ![r] = NewCache] PROVE \A q \in Requests : CacheKeeps(q)
  <2>1. NewCache.lock_time = 0 /\ ~NewCache.updating
    BY DEF NewCache
  <2> QED BY <1>5, <2>1, CacheMoves
<1>6. ASSUME NEW f, node' = [node EXCEPT ![n] = f], owners' = [owners EXCEPT ![n] = {}],
             UNCHANGED over, f.lock_time = node[n].lock_time, ~f.updating, f.key = node[n].key
      PROVE  \A m \in Slots : LockKeeps(m)
  <2> SUFFICES ASSUME NEW m \in Slots PROVE LockKeeps(m)
    OBVIOUS
  <2>1. CASE m = n
    <3>1. node'[m] = f /\ owners'[m] = {}
      BY <1>1, <1>6, <2>1
    <3> QED BY <1>6, <2>1, <3>1 DEF LockKeeps, LockInv
  <2>2. CASE m # n
    <3>1. node'[m] = node[m] /\ owners'[m] = owners[m]
      BY <1>1, <1>6, <2>2
    <3> QED BY <1>6, <3>1 DEF LockKeeps, LockInv
  <2> QED BY <2>1, <2>2
<1>7. CASE Update(r)
  <2> DEFINE b == node[n].exists \/ c[r].ok
             f == [node[n] EXCEPT !.count = @ - 1, !.fs_size = c[r].fs_size,
                                  !.exists = b, !.updating = FALSE]
  <2>1. node' = [node EXCEPT ![n] = f] /\ owners' = [owners EXCEPT ![n] = {}] /\ UNCHANGED over
    BY <1>2, <1>7 DEF Update
  <2> HIDE DEF b
  <2>2. f.lock_time = node[n].lock_time /\ ~f.updating /\ f.key = node[n].key
    BY <1>3 DEF NodeData
  <2> HIDE DEF f
  <2>3. \A m \in Slots : LockKeeps(m)
    BY <1>6, <2>1, <2>2
  <2>4. c' = [c EXCEPT ![r] = NewCache]
    BY <1>7 DEF Update, Done
  <2> QED BY <1>3, <1>5, <2>3, <2>4, LockFrame
<1>8. CASE UpdateVariant(r)
  <2> DEFINE f == [node[n] EXCEPT !.count = @ - 1, !.updating = FALSE]
             d == [NewCache EXCEPT !.key = c[r].main, !.moved = TRUE, !.updating = c[r].updating,
                                   !.lock_time = c[r].lock_time]
  <2>1. /\ node' = [node EXCEPT ![n] = f] /\ owners' = [owners EXCEPT ![n] = {}] /\ UNCHANGED over
        /\ c' = [c EXCEPT ![r] = d]
    BY <1>2, <1>8 DEF UpdateVariant
  <2>2. f.lock_time = node[n].lock_time /\ ~f.updating /\ f.key = node[n].key
    BY <1>3 DEF NodeData
  <2>3. d.lock_time = c[r].lock_time /\ d.moved
    BY DEF NewCache
  <2> HIDE DEF d, f
  <2>4. \A m \in Slots : LockKeeps(m)
    BY <1>6, <2>1, <2>2
  <2> QED BY <1>3, <2>1, <2>3, <2>4, CacheMoves, LockFrame
<1>9. CASE Free(r)
  <2> DEFINE b1 == node[n].updating /\ ~StillMine(r, node[n])
             b2 == node[n].error \/ c[r].error # "no"
             b3 == node[n].live \/ TimesError(r)
             f == [node[n] EXCEPT !.count = @ - 1, !.updating = b1, !.error = b2, !.live = b3]
  <2>1. \/ FreesNode(n)
        \/ /\ node' = [node EXCEPT ![n] = f] /\ owners' = [owners EXCEPT ![n] = LocksLeft(r, n)]
           /\ UNCHANGED over
    BY <1>2, <1>9 DEF Free
  <2>2. b1 \in BOOLEAN /\ b2 \in BOOLEAN /\ b3 \in BOOLEAN
    OBVIOUS
  <2>3. b1 <=> (node[n].updating /\ ~(c[r].updating /\ node[n].lock_time = c[r].lock_time))
    BY DEF StillMine
  <2> HIDE DEF b1, b2, b3
  <2>4. f.lock_time = node[n].lock_time /\ (f.updating <=> b1) /\ f.key = node[n].key
    BY <1>3, <2>2 DEF NodeData
  <2> HIDE DEF f
  <2>5. CASE FreesNode(n)
    <3>1. /\ node'[n] = FreeNode /\ owners'[n] = {} /\ over' = over \cup {n}
          /\ \A m \in Slots \ {n} : node'[m] = node[m] /\ owners'[m] = owners[m]
      BY <1>1, <2>5 DEF FreesNode
    <3>2. \A m \in Slots : LockKeeps(m)
      <4>1. {n} \in SUBSET Slots
        OBVIOUS
      <4> QED BY <3>1, <4>1, LockOfRest
    <3>3. c' = [c EXCEPT ![r] = NewCache]
      BY <1>9 DEF Free, Done
    <3> QED BY <1>3, <1>5, <3>2, <3>3, LockFrame
  <2>6. CASE /\ node' = [node EXCEPT ![n] = f] /\ owners' = [owners EXCEPT ![n] = LocksLeft(r, n)]
             /\ UNCHANGED over
    <3>1. ASSUME NEW m \in Slots PROVE LockKeeps(m)
      <4>1. CASE m = n
        <5>1. /\ node'[m] = f /\ owners'[m] \in {{}, owners[n] \ {r}}
              /\ c[r].moved /\ StillMine(r, node[n]) => owners'[m] = {}
          BY <1>1, <2>6, <4>1 DEF LocksLeft
        <5>2. ASSUME owners'[m] # {}, n \notin over
              PROVE  owners'[m] = owners[n] /\ (node[n].updating => f.updating)
          <6>1. owners'[m] = owners[n] \ {r} /\ r \notin owners[n] /\ owners[n] # {}
            BY <5>1, <5>2 DEF LockInv
          <6>2. ~(Holds(r) /\ c[r].lock_time = node[n].lock_time)
            BY <1>2, <5>2, <6>1 DEF LockInv
          <6>3. ~(c[r].updating /\ c[r].lock_time = node[n].lock_time)
            BY <5>1, <5>2, <6>2 DEF Holds, StillMine
          <6> QED BY <2>3, <2>4, <6>1, <6>3
        <5>3. f.lock_time <= takes /\ f.key # None
          BY <1>3, <2>4 DEF LockInv
        <5> QED BY <2>4, <2>6, <4>1, <5>1, <5>2, <5>3 DEF LockKeeps
      <4>2. CASE m # n
        <5>1. node'[m] = node[m] /\ owners'[m] = owners[m]
          BY <1>1, <2>6, <4>2
        <5> QED BY <2>6, <5>1 DEF LockKeeps, LockInv
      <4> QED BY <4>1, <4>2
    <3>2. c' = [c EXCEPT ![r] = NewCache]
      BY <1>9 DEF Free, Done
    <3> QED BY <1>3, <1>5, <3>1, <3>2, LockFrame
  <2> QED BY <2>1, <2>5, <2>6
<1> QED BY <1>4, <1>7, <1>8, <1>9

LEMMA LockOfDeleters ==
    ASSUME IInv, IInv', LockInv,
           \/ \E a \in Deleters, next \in {"retry", "expire", "check"} :
                 pc[a] \in Deleting /\ EndDelete(a, next)
           \/ \E a \in Deleters, freed, busy \in {"retry", "check", "rest"} :
                 ForcedExpire(a, freed, busy)
           \/ Expire
    PROVE  LockInv'
<1>1. /\ UNCHANGED <<takes, c>> /\ node \in [Slots -> NodeData] /\ None \notin Slots
      /\ owners \in [Slots -> SUBSET Requests] /\ victim \in [Deleters -> Slots \cup {None}]
      /\ conf \in Confs /\ Nodes \subseteq Slots
  BY ExpireIs, Zone DEF EndDelete, ForcedExpire, IInv, NodePart, BasePart, RequestPart, Nodes
<1>2. ASSUME NEW n \in Slots, FreesNode(n) PROVE \A m \in Slots : LockKeeps(m)
  <2>1. /\ node'[n] = FreeNode /\ owners'[n] = {} /\ over' = over \cup {n}
        /\ \A m \in Slots \ {n} : node'[m] = node[m] /\ owners'[m] = owners[m]
    BY <1>1, <1>2 DEF FreesNode
  <2>2. {n} \in SUBSET Slots
    OBVIOUS
  <2> QED BY <2>1, <2>2, LockOfRest
<1>3. ASSUME NEW n \in Slots, NEW f, node' = [node EXCEPT ![n] = f], UNCHANGED <<owners, over>>,
             f.lock_time = node[n].lock_time, f.updating = node[n].updating, f.key = node[n].key
      PROVE  \A m \in Slots : LockKeeps(m)
  <2>1. \A m \in Slots : /\ node'[m].lock_time = node[m].lock_time
                         /\ node'[m].updating = node[m].updating /\ node'[m].key = node[m].key
    BY <1>1, <1>3
  <2> QED BY <1>3, <2>1, LockUntouched
<1>4. ASSUME NEW a \in Deleters, NEW next, pc[a] \in Deleting, EndDelete(a, next)
      PROVE  \A m \in Slots : LockKeeps(m)
  <2>1. PICK n \in Slots : victim[a] = n
    BY <1>1, <1>4 DEF IInv, RequestPart
  <2> DEFINE f == [node[n] EXCEPT !.count = @ - 1, !.deleting = FALSE]
  <2>2. node[n] \in NodeData
    BY <1>1
  <2>3. f.lock_time = node[n].lock_time /\ f.updating = node[n].updating /\ f.key = node[n].key
    BY <2>2 DEF NodeData
  <2>4. \/ FreesNode(n)
        \/ node' = [node EXCEPT ![n] = f] /\ UNCHANGED <<owners, over>>
    BY <1>4, <2>1 DEF EndDelete
  <2> HIDE DEF f
  <2> QED BY <1>2, <1>3, <2>3, <2>4
<1>5. ASSUME NEW a \in Deleters, NEW freed, NEW busy, ForcedExpire(a, freed, busy)
      PROVE  \A m \in Slots : LockKeeps(m)
  <2>1. \/ UNCHANGED <<node, over, owners>>
        \/ \E i \in DOMAIN queue : DeletesNode(queue[i]) \/ BeginsDelete(a, queue[i])
    BY <1>5 DEF ForcedExpire
  <2>2. CASE UNCHANGED <<node, over, owners>>
    BY <2>2, LockUntouched
  <2>3. ASSUME NEW i \in DOMAIN queue, DeletesNode(queue[i]) \/ BeginsDelete(a, queue[i])
        PROVE  \A m \in Slots : LockKeeps(m)
    <3> DEFINE n == queue[i]
    <3>1. n \in Slots
      BY <1>1 DEF IInv, QueuePart, Range
    <3>2. node[n] \in NodeData
      BY <1>1, <3>1
    <3> DEFINE f == [node[n] EXCEPT !.count = Referred(node[n]), !.deleting = TRUE]
    <3>3. f.lock_time = node[n].lock_time /\ f.updating = node[n].updating /\ f.key = node[n].key
      <4> HIDE DEF n
      <4> QED BY <3>2 DEF NodeData
    <3>4. \/ FreesNode(n)
          \/ node' = [node EXCEPT ![n] = f] /\ UNCHANGED <<owners, over>>
      BY <2>3 DEF DeletesNode, BeginsDelete
    <3> HIDE DEF f, n
    <3> QED BY <1>2, <1>3, <3>1, <3>3, <3>4
  <2> QED BY <2>1, <2>2, <2>3
<1>6. ASSUME Expire PROVE \A m \in Slots : LockKeeps(m)
  <2> DEFINE n == queue[Last]
             f == [Rest(Freed)[n] EXCEPT !.count = Referred(node[n]), !.deleting = TRUE]
  <2>1. /\ Freed \in SUBSET Slots /\ (Deletes => n \in Slots \ Freed)
        /\ over' = over \cup Freed
        /\ \A m \in Slots : owners'[m] = IF m \in Freed THEN {} ELSE owners[m]
    BY <1>1, <1>6, ExpireIs, PassedAre DEF Deletes
  <2>2. /\ Rest(Freed) \in [Slots -> NodeData]
        /\ \A m \in Freed : Rest(Freed)[m] = FreeNode
        /\ \A m \in Slots \ Freed : Rest(Freed)[m] = node[m]
    BY <1>1, <2>1, FreeNodeIs DEF Rest
  <2>3. \/ node' = Rest(Freed)
        \/ Deletes /\ node' = [Rest(Freed) EXCEPT ![n] = f]
    BY <1>6, ExpireIs
  <2>4. ASSUME Deletes
        PROVE  f.lock_time = node[n].lock_time /\ f.updating = node[n].updating /\ f.key = node[n].key
    <3>1. Rest(Freed)[n] = node[n] /\ node[n] \in NodeData
      BY <1>1, <2>1, <2>2, <2>4
    <3> HIDE DEF n
    <3> QED BY <3>1 DEF NodeData
  <2> HIDE DEF f, n
  <2>5. /\ \A m \in Freed : node'[m] = FreeNode
        /\ \A m \in Slots \ Freed : /\ node'[m].lock_time = node[m].lock_time
                                    /\ node'[m].updating = node[m].updating
                                    /\ node'[m].key = node[m].key
    BY <2>1, <2>2, <2>3, <2>4
  <2>6. PICK F \in SUBSET Slots : F = Freed
    BY <2>1
  <2>7. /\ over' = over \cup F
        /\ \A m \in Slots : owners'[m] = IF m \in F THEN {} ELSE owners[m]
        /\ \A m \in F : node'[m] = FreeNode
        /\ \A m \in Slots \ F : /\ node'[m].lock_time = node[m].lock_time
                                /\ node'[m].updating = node[m].updating
                                /\ node'[m].key = node[m].key
    BY <2>1, <2>5, <2>6
  <2> QED BY <2>7, LockOfRest
<1>7. ASSUME \E a \in Deleters, next \in {"retry", "expire", "check"} :
                pc[a] \in Deleting /\ EndDelete(a, next)
      PROVE  \A m \in Slots : LockKeeps(m)
  <2>1. PICK a \in Deleters, next \in {"retry", "expire", "check"} :
           pc[a] \in Deleting /\ EndDelete(a, next)
    BY <1>7
  <2> QED BY <1>4, <2>1
<1>8. ASSUME \E a \in Deleters, freed, busy \in {"retry", "check", "rest"} :
                ForcedExpire(a, freed, busy)
      PROVE  \A m \in Slots : LockKeeps(m)
  <2>1. PICK a \in Deleters, freed, busy \in {"retry", "check", "rest"} :
           ForcedExpire(a, freed, busy)
    BY <1>8
  <2> QED BY <1>5, <2>1
<1>9. \A m \in Slots : LockKeeps(m)
  BY <1>6, <1>7, <1>8
<1> QED BY <1>1, <1>9, CachesStay, LockFrame

(* Steps that touch no lock; the node of an answer of the loader's was free.  *)
LEMMA LockUnmoved ==
    ASSUME IInv, IInv', LockInv, LoadAdd \/ LoadEnd \/ Check \/ Time \/ ManagerCrash
                          \/ (\E k \in Keys : LoadRead(k)) \/ (\E a \in Deleters : Unlink(a))
    PROVE  LockInv'
<1>1. /\ UNCHANGED <<takes, owners, c>> /\ over \subseteq over' /\ node \in [Slots -> NodeData]
      /\ conf \in Confs /\ None \notin Keys
  BY CacheAssumption DEF CacheAssumption, LoadAdd, LoadEnd, Check, Time, ManagerCrash, LoadRead,
     Unlink, shared, LockRunsOut, ErrorExpires, Deactivate, FileExpires, Timeless, IInv, NodePart,
     BasePart
<1>2. CASE UNCHANGED node
  <2>1. \A m \in Slots : LockKeeps(m)
    BY <1>1, <1>2, LockUntouched
  <2> QED BY <1>1, <2>1, CachesStay, LockFrame
<1>3. ASSUME NEW n \in Slots, ErrorExpires(n) PROVE LockInv'
  <2> DEFINE f == [node[n] EXCEPT !.live = FALSE]
  <2>1. node[n] \in NodeData /\ node' = [node EXCEPT ![n] = f]
    BY <1>1, <1>3 DEF ErrorExpires
  <2>2. f.lock_time = node[n].lock_time /\ f.updating = node[n].updating /\ f.key = node[n].key
    BY <2>1 DEF NodeData
  <2> HIDE DEF f
  <2>3. \A m \in Slots : /\ node'[m].lock_time = node[m].lock_time
                         /\ node'[m].updating = node[m].updating /\ node'[m].key = node[m].key
    BY <1>1, <2>1, <2>2
  <2>4. \A m \in Slots : LockKeeps(m)
    BY <1>1, <2>3, LockUntouched
  <2> QED BY <1>1, <2>4, CachesStay, LockFrame
<1>4. ASSUME NEW n \in conf.zone \ Nodes, LoadAdd,
             node' = [node EXCEPT ![n] = [FreeNode EXCEPT !.key = seen.key, !.uses = 1,
                                                     !.exists = TRUE, !.fs_size = seen.size]]
      PROVE  LockInv'
  <2> DEFINE f == [FreeNode EXCEPT !.key = seen.key, !.uses = 1,
                                   !.exists = TRUE, !.fs_size = seen.size]
  <2>1. n \in Slots /\ node[n].key = None
    BY <1>1, <1>4, FreePlace, Zone
  <2>2. node' = [node EXCEPT ![n] = f]
    BY <1>4
  <2>3. f.lock_time = 0 /\ ~f.updating
    BY DEF FreeNode
  <2> HIDE DEF f
  <2>4. takes \in Nat /\ UNCHANGED over
    BY <1>4 DEF LoadAdd, IInv, BasePart
  <2>5. owners[n] = {} \/ n \in over
    BY <2>1 DEF LockInv
  <2>6. ASSUME NEW m \in Slots PROVE LockKeeps(m)
    <3>1. CASE m = n
      <4>1. node'[m] = f
        BY <1>1, <2>2, <3>1
      <4> QED BY <1>1, <2>1, <2>3, <2>4, <2>5, <3>1, <4>1 DEF LockKeeps
    <3>2. CASE m # n
      <4>1. node'[m] = node[m]
        BY <1>1, <2>2, <3>2
      <4> QED BY <1>1, <2>4, <4>1 DEF LockKeeps, LockInv
    <3> QED BY <3>1, <3>2
  <2> QED BY <1>1, <2>6, CachesStay, LockFrame
<1>5. \/ UNCHANGED node \/ \E n \in Slots : ErrorExpires(n)
      \/ LoadAdd /\ \E n \in conf.zone \ Nodes :
            node' = [node EXCEPT ![n] = [FreeNode EXCEPT !.key = seen.key, !.uses = 1,
                                                 !.exists = TRUE, !.fs_size = seen.size]]
  BY DEF LoadAdd, LoadEnd, Check, Time, ManagerCrash, LoadRead, Unlink, shared, LockRunsOut,
     Deactivate, FileExpires, Timeless
<1> QED BY <1>2, <1>3, <1>4, <1>5

LEMMA LockOfTheDead ==
    ASSUME IInv, IInv', LockInv, NEW r \in Requests, Crash(r)
    PROVE  LockInv'
<1>1. /\ UNCHANGED <<takes, node, over>> /\ c' = [c EXCEPT ![r] = NewCache]
      /\ \A n \in Slots : owners'[n] = owners[n] \ {r}
  BY DEF Crash, Done, shared
<1>2. \A q \in Requests : CacheKeeps(q)
  <2>1. NewCache.lock_time = 0 /\ ~NewCache.updating
    BY DEF NewCache
  <2> QED BY <1>1, <2>1, CacheMoves
<1>3. ASSUME NEW n \in Slots PROVE LockKeeps(n)
  <2>1. \A p, q \in owners[n] : p = q
    BY DEF LockInv
  <2>2. owners'[n] = {} \/ owners'[n] = owners[n]
    BY <1>1, <2>1
  <2> QED BY <1>1, <2>2 DEF LockKeeps, LockInv
<1> QED BY <1>1, <1>2, <1>3, LockFrame

LEMMA LockInvInit == Init => LockInv
<1> SUFFICES ASSUME Init PROVE LockInv
  OBVIOUS
<1>1. /\ \A n \in Slots : node[n] = FreeNode /\ owners[n] = {}
      /\ \A r \in Requests : c[r] = NewCache
      /\ takes = 0
  BY DEF Init
<1> QED BY <1>1 DEF LockInv, Holds, FreeNode, NewCache

LEMMA LockInvStep == IInv /\ LockInv /\ [Next]_vars => LockInv'
<1> SUFFICES ASSUME IInv, IInv', LockInv, [Next]_vars PROVE LockInv'
  BY IInvStep
<1>1. ASSUME NEW r \in Requests, Arrive(r) \/ Step(r) \/ WaitTooLong(r) \/ Crash(r) PROVE LockInv'
  <2>1. r \in Deleters
    BY DEF Deleters
  <2>2. CASE RequestForce(r)
    BY <2>1, <2>2, LockOfDeleters DEF RequestForce
  <2>3. CASE RequestEndDelete(r)
    <3>1. pc[r] \in Deleting /\ EndDelete(r, "retry")
      BY <2>3 DEF RequestEndDelete, At, Deleting
    <3> QED BY <2>1, <3>1, LockOfDeleters
  <2> QED BY <1>1, <2>1, <2>2, <2>3, LockQuietSteps, LockTakenStep, LockOfUsers, LockLeft,
             LockUnmoved, LockOfTheDead DEF Step, Opens, Locks, Answers
<1>2. CASE ManagerStep
  <2>1. Manager \in Deleters
    BY DEF Deleters
  <2>2. CASE ExpireGoesOn \/ ManagerEndDelete
    <3>1. pc[Manager] \in Deleting /\ \E next \in {"retry", "expire", "check"} : EndDelete(Manager, next)
      BY <2>2 DEF ExpireGoesOn, ManagerEndDelete, At, Deleting
    <3> QED BY <2>1, <3>1, LockOfDeleters
  <2>3. CASE ManagerForce
    BY <2>1, <2>3, LockOfDeleters DEF ManagerForce
  <2> QED BY <1>2, <2>1, <2>2, <2>3, LockOfDeleters, LockUnmoved DEF ManagerStep
<1>3. CASE UNCHANGED vars
  <2>1. UNCHANGED <<takes, owners, over, node, c>>
    BY <1>3 DEF vars, shared
  <2> QED BY <2>1, LockUntouched, CachesStay, LockFrame
<1> QED BY <1>1, <1>2, <1>3, LockUnmoved DEF Next, LoaderStep

LEMMA LockInvHolds == Spec => []LockInv
  BY LockInvInit, LockInvStep, IInvHolds, PTL DEF Spec

(* proxy_cache_lock: one request at most populates a node, until its lock has *)
(* run out, a new file is in place, or a request that goes back to the main   *)
(* key clears the flag: ngx_http_file_cache_update_variant() that of the node *)
(* it leaves, whoever has the lock, and _free() that of its new node when the *)
(* two locks are of one millisecond.                                          *)
THEOREM OneRequestPopulates == Spec => []OnePopulates
<1>1. LockInv => OnePopulates
  <2> SUFFICES ASSUME LockInv, NEW n \in Slots PROVE Cardinality(owners[n]) <= 1
    BY DEF OnePopulates
  <2>1. CASE owners[n] = {}
    BY <2>1, FS_EmptySet
  <2>2. CASE owners[n] # {}
    <3>1. PICK r \in owners[n] : TRUE
      BY <2>2
    <3>2. owners[n] = {r}
      BY <3>1 DEF LockInv
    <3>3. Cardinality({r}) = 1
      BY FS_Singleton
    <3> QED BY <3>2, <3>3
  <2> QED BY <2>1, <2>2
<1> QED BY <1>1, LockInvHolds, PTL

-----------------------------------------------------------------------------
(* The size of the cache *)

(* What a node counts for, and sh->size as a sum over all places.            *)
Weight(n) == IF node[n].key # None /\ ~node[n].deleting THEN node[n].fs_size ELSE 0
Weights == [n \in Slots |-> Weight(n)]
Sized == ~drifted => size = SumFunctionOnSet(Weights, Slots)

LEMMA WeightsAre ==
    ASSUME node \in [Slots -> NodeData]
    PROVE  /\ Ints(Weights, Slots)
           /\ \A n \in Slots : Weights[n] = Weight(n) /\ Weight(n) \in Int
<1>1. ASSUME NEW n \in Slots PROVE Weights[n] = Weight(n) /\ Weight(n) \in Int
  <2>1. node[n].fs_size \in Nat
    BY NodeHas
  <2> QED BY <2>1 DEF Weights, Weight
<1> QED BY <1>1 DEF Ints

LEMMA SizedIs ==
    ASSUME IInv
    PROVE  SizeIsKept <=> Sized
<1> DEFINE kept == {n \in Nodes : ~node[n].deleting}
           f == [n \in kept |-> node[n].fs_size]
<1>1. node \in [Slots -> NodeData] /\ conf \in Confs
  BY DEF IInv, NodePart, BasePart
<1>2. kept \in SUBSET Slots /\ IsFiniteSet(kept)
  <2>1. kept \subseteq Slots
    BY <1>1, Zone DEF Nodes
  <2> QED BY <2>1, Finite, FS_Subset
<1>3. \A n \in kept : f[n] = Weights[n] /\ Weights[n] \in Int
  BY <1>1, <1>2, WeightsAre DEF Nodes, Weight
<1>4. \A n \in Slots \ kept : Weights[n] = 0
  <2> TAKE n \in Slots \ kept
  <2>1. node[n].key = None \/ node[n].deleting
    BY DEF IInv, NodePart, Nodes
  <2> HIDE DEF kept
  <2> QED BY <1>1, <2>1, WeightsAre DEF Weight
<1>5. SumFunctionOnSet(f, kept) = SumFunctionOnSet(Weights, kept)
  <2>1. Ints(f, kept) /\ Ints(Weights, kept) /\ \A n \in kept : f[n] = Weights[n]
    BY <1>3 DEF Ints
  <2> HIDE DEF f, kept
  <2> QED BY <1>2, <2>1, SumSame
<1>6. SumFunctionOnSet(Weights, Slots) = SumFunctionOnSet(Weights, kept)
  <2> HIDE DEF kept
  <2> QED BY <1>1, <1>2, <1>4, WeightsAre, Finite, SumZeros
<1>7. SizeIsKept <=> (~drifted => size = SumFunctionOnSet(f, kept))
  BY DEF SizeIsKept
<1> HIDE DEF f, kept
<1> QED BY <1>5, <1>6, <1>7 DEF Sized

(* An idle node has neither a user nor a deleter; a node whose one reference *)
(* is a deleter's has no user and no other deleter.                          *)
LEMMA FewReferences ==
    ASSUME IInv, NEW n \in Slots
    PROVE  /\ node[n].count = 0 => Users(n) = {} /\ DeletersOf(n) = {}
           /\ node[n].count = 1 => \A a \in DeletersOf(n) : Users(n) = {} /\ DeletersOf(n) = {a}
<1> DEFINE x == Cardinality(Users(n))
           y == Cardinality(DeletersOf(n))
           z == leaked[n]
<1>1. x \in Nat /\ y \in Nat /\ z \in Nat /\ node[n].count = x + y + z
  BY Finite DEF IInv, CountIsKept, BasePart
<1>2. (x = 0 <=> Users(n) = {}) /\ (y = 0 <=> DeletersOf(n) = {})
  BY Finite, FS_EmptySet
<1>3. ASSUME NEW a \in DeletersOf(n)
      PROVE  /\ Cardinality(DeletersOf(n) \ {a}) = y - 1 /\ Cardinality(DeletersOf(n) \ {a}) \in Nat
             /\ Cardinality(DeletersOf(n) \ {a}) = 0 => DeletersOf(n) = {a}
  <2>1. IsFiniteSet(DeletersOf(n) \ {a}) /\ Cardinality(DeletersOf(n) \ {a}) = y - 1
    BY Finite, FS_RemoveElement
  <2>2. Cardinality(DeletersOf(n) \ {a}) \in Nat
    BY <2>1, FS_CardinalityType
  <2>3. Cardinality(DeletersOf(n) \ {a}) = 0 => DeletersOf(n) \ {a} = {}
    BY <2>1, FS_EmptySet
  <2> HIDE DEF x, y, z
  <2> QED BY <2>1, <2>2, <2>3
<1> HIDE DEF x, y, z
<1>4. node[n].count = 0 => x = 0 /\ y = 0
  BY <1>1
<1>5. ASSUME node[n].count = 1, NEW a \in DeletersOf(n)
      PROVE  Users(n) = {} /\ DeletersOf(n) = {a}
  <2> DEFINE w == Cardinality(DeletersOf(n) \ {a})
  <2>1. w = y - 1 /\ w \in Nat
    BY <1>3
  <2> HIDE DEF w
  <2>2. w = 0 /\ x = 0
    BY <1>1, <1>5, <2>1
  <2> QED BY <1>2, <1>3, <2>2 DEF w
<1> QED BY <1>2, <1>4, <1>5

(* What a step must do for sh->size to keep up: it changes one node n, frees *)
(* idle nodes without a file, and adds to the size what n comes to count     *)
(* for.                                                                      *)
LEMMA SizeFrame ==
    ASSUME IInv, IInv', SizeInv, Sized, drifted => drifted', NEW n \in Slots,
           \A m \in Slots \ {n} : \/ node'[m] = node[m]
                                  \/ node[m].count = 0 /\ ~node[m].exists /\ node'[m] = FreeNode,
           \A m \in Slots \ {n} : Users(m)' \subseteq Users(m),
           \A a \in Deleters : victim'[a] \in {victim[a], None, n},
           ~node'[n].exists => node'[n].fs_size = 0,
           ~drifted' => /\ node'[n].deleting => node'[n].count = 1 /\ Users(n)' = {}
                        /\ \A a \in Deleters : victim'[a] = n => node'[n].deleting
                        /\ size' = size - Weight(n) + Weight(n)'
    PROVE  SizeInv' /\ Sized'
<1>1. node \in [Slots -> NodeData] /\ node' \in [Slots -> NodeData] /\ size \in Int
      /\ victim \in [Deleters -> Slots \cup {None}] /\ None \notin Slots
  BY Zone DEF IInv, NodePart, BasePart, RequestPart
<1>2. ASSUME NEW m \in Slots \ {n}
      PROVE  /\ ~node'[m].exists => node'[m].fs_size = 0
             /\ ~drifted => /\ Weight(m)' = Weight(m)
                            /\ node'[m].deleting => node'[m].count = 1 /\ Users(m)' = {}
                            /\ \A a \in Deleters : victim[a] = m => node'[m].deleting
  <2>1. CASE node'[m] = node[m]
    <3>1. ~drifted => \A a \in Deleters : victim[a] = m => node[m].deleting
      BY <1>1 DEF SizeInv
    <3>2. Weight(m)' = Weight(m)
      BY <2>1 DEF Weight
    <3> QED BY <2>1, <3>1, <3>2 DEF SizeInv
  <2>2. CASE node[m].count = 0 /\ ~node[m].exists /\ node'[m] = FreeNode
    <3>1. node[m].fs_size = 0
      BY <2>2 DEF SizeInv
    <3>2. ~node'[m].deleting /\ node'[m].fs_size = 0 /\ node'[m].key = None
      BY <2>2 DEF FreeNode
    <3>3. Weight(m) = 0
      BY <3>1 DEF Weight
    <3>4. Weight(m)' = 0
      BY <3>2 DEF Weight
    <3>5. \A a \in Deleters : victim[a] # m
      BY <2>2, FewReferences, Referring
    <3> QED BY <3>2, <3>3, <3>4, <3>5
  <2> QED BY <2>1, <2>2
<1>3. SizeInv'
  <2>1. \A m \in Slots : ~node'[m].exists => node'[m].fs_size = 0
    BY <1>2
  <2>2. ASSUME ~drifted'
        PROVE  \A m \in Slots : node'[m].deleting => node'[m].count = 1 /\ Users(m)' = {}
    BY <1>2, <2>2
  <2>3. ASSUME ~drifted', NEW a \in Deleters, victim'[a] # None
        PROVE  node'[victim'[a]].deleting
    <3>1. CASE victim'[a] = n
      BY <2>3, <3>1
    <3>2. CASE victim'[a] # n
      <4>1. PICK m \in Slots \ {n} : victim[a] = m /\ victim'[a] = m
        BY <1>1, <2>3, <3>2
      <4> QED BY <1>2, <2>3, <4>1
    <3> QED BY <3>1, <3>2
  <2> QED BY <2>1, <2>2, <2>3 DEF SizeInv
<1>4. Sized'
  <2> SUFFICES ASSUME ~drifted' PROVE size' = SumFunctionOnSet(Weights', Slots)
    BY DEF Sized
  <2>1. Ints(Weights, Slots) /\ \A m \in Slots : Weights[m] = Weight(m) /\ Weight(m) \in Int
    BY <1>1, WeightsAre
  <2>2. \A m \in Slots : Weights'[m] = Weight(m)' /\ Weight(m)' \in Int
    <3>1. \A m \in Slots : node'[m].fs_size \in Nat
      BY <1>1, NodeHas
    <3> QED BY <3>1 DEF Weights, Weight
  <2>3. \A m \in Slots \ {n} : Weights'[m] = Weights[m]
    BY <1>2, <2>1, <2>2
  <2> DEFINE e == Weights'
             f == Weights
  <2>4. e[n] \in Int /\ f[n] \in Int /\ e[n] = Weight(n)' /\ f[n] = Weight(n)
    BY <2>1, <2>2
  <2>5. SumFunctionOnSet(e, Slots) = SumFunctionOnSet(f, Slots) - f[n] + e[n]
    <3>1. Ints(f, Slots) /\ e[n] \in Int /\ \A m \in Slots \ {n} : e[m] = f[m]
      BY <2>1, <2>3, <2>4
    <3> HIDE DEF e, f
    <3> QED BY <3>1, Finite, SumChange
  <2>6. size = SumFunctionOnSet(f, Slots)
    BY DEF Sized
  <2>7. size' = size - f[n] + e[n]
    BY <2>4
  <2> QED BY <2>5, <2>6, <2>7
<1> QED BY <1>3, <1>4

(* A step that changes no node and no size.                                  *)
LEMMA SizeStays ==
    ASSUME SizeInv, Sized, UNCHANGED <<node, size, drifted>>,
           \A m \in Slots : Users(m)' \subseteq Users(m),
           \A a \in Deleters : victim'[a] \in {victim[a], None}
    PROVE  SizeInv' /\ Sized'
<1>1. Weights' = Weights
  BY DEF Weights, Weight
<1>2. Sized'
  BY <1>1 DEF Sized
<1>3. SizeInv'
  <2>1. \A a \in Deleters : victim'[a] # None => victim'[a] = victim[a]
    OBVIOUS
  <2> QED BY <2>1 DEF SizeInv
<1> QED BY <1>2, <1>3

(* The cache of one request changes, and refers to no other node than n.     *)
LEMMA UsersShrink ==
    ASSUME IInv, NEW r \in Requests, NEW d, c' = [c EXCEPT ![r] = d], NEW n,
           d.node \in {c[r].node, None, n}
    PROVE  \A m : m # n /\ m # None => Users(m)' \subseteq Users(m)
<1>1. c'[r] = d /\ \A q \in Requests \ {r} : c'[q] = c[q]
  BY DEF IInv, RequestPart
<1> QED BY <1>1 DEF Users
LEMMA SizeQuietSteps ==
    ASSUME IInv, SizeInv, Sized, NEW r \in Requests,
           \/ Full(r) \/ NoRoom(r) \/ OpenFails(r) \/ BadHeader(r) \/ Updating(r) \/ NoLock(r)
           \/ Arrive(r) \/ OpenFile(r) \/ Revalidate(r) \/ GiveUp(r) \/ Rename(r)
           \/ Wait(r) \/ LockWait(r) \/ WaitTooLong(r) \/ Crash(r)
    PROVE  SizeInv' /\ Sized'
<1>1. None \notin Slots /\ victim \in [Deleters -> Slots \cup {None}]
  BY Zone DEF IInv, BasePart, RequestPart
<1>2. CASE Crash(r)
  <2>1. /\ UNCHANGED <<node, size, drifted>> /\ c' = [c EXCEPT ![r] = NewCache]
        /\ victim' = [victim EXCEPT ![r] = None] /\ NewCache.node = None
    BY <1>2 DEF Crash, Done, shared, NewCache
  <2>2. \A m \in Slots : Users(m)' \subseteq Users(m)
    BY <1>1, <2>1, UsersShrink
  <2>3. \A a \in Deleters : victim'[a] \in {victim[a], None}
    BY <1>1, <2>1
  <2> QED BY <2>1, <2>2, <2>3, SizeStays
<1>3. CASE ~Crash(r)
  <2>1. /\ UNCHANGED <<node, size, drifted, victim>>
        /\ \/ UNCHANGED c
           \/ \E d : c' = [c EXCEPT ![r] = d] /\ d.node \in {c[r].node, None}
    BY <1>3, QuietCaches
  <2>2. \A m \in Slots : Users(m)' \subseteq Users(m)
    <3>1. CASE UNCHANGED c
      BY <3>1 DEF Users
    <3>2. CASE \E d : c' = [c EXCEPT ![r] = d] /\ d.node \in {c[r].node, None}
      BY <1>1, <3>2, UsersShrink
    <3> QED BY <2>1, <3>1, <3>2
  <2> QED BY <2>1, <2>2, SizeStays
<1> QED BY <1>2, <1>3

(* A request and its node: nobody deletes the node, if the sizes are right.  *)
LEMMA UsedIsKept ==
    ASSUME IInv, SizeInv, ~drifted, NEW r \in Requests, NEW n \in Slots, c[r].node = n
    PROVE  ~node[n].deleting /\ \A a \in Deleters : victim[a] # n
<1>1. Users(n) # {}
  BY DEF Users
<1>2. ~node[n].deleting
  BY <1>1 DEF SizeInv
<1>3. \A a \in Deleters : victim[a] # n
  BY <1>2, Zone DEF SizeInv, IInv, BasePart
<1> QED BY <1>2, <1>3

(* A request changes the node it has, and keeps or leaves it.                *)
LEMMA SizeOfUser ==
    ASSUME IInv, IInv', SizeInv, Sized, NEW r \in Requests, NEW n \in Slots, c[r].node = n,
           UNCHANGED <<victim, drifted>>, NEW f, node' = [node EXCEPT ![n] = f],
           NEW d, c' = [c EXCEPT ![r] = d], d.node \in {n, None},
           ~f.exists => f.fs_size = 0, ~drifted => ~f.deleting,
           ~drifted => size' = size - Weight(n) + IF f.key = None THEN 0 ELSE f.fs_size
    PROVE  SizeInv' /\ Sized'
<1>1. node'[n] = f /\ \A m \in Slots \ {n} : node'[m] = node[m]
  BY DEF IInv, NodePart
<1>2. \A m \in Slots \ {n} : Users(m)' \subseteq Users(m)
  BY UsersShrink, Zone DEF IInv, BasePart
<1>3. ~drifted => Weight(n)' = IF f.key = None THEN 0 ELSE f.fs_size
  BY <1>1 DEF Weight
<1>4. ~drifted => \A a \in Deleters : victim'[a] # n
  BY UsedIsKept
<1> QED BY <1>1, <1>2, <1>3, <1>4, SizeFrame

LEMMA SizeUserSteps ==
    ASSUME IInv, IInv', SizeInv, Sized, NEW r \in Requests,
           \/ ReadFile(r) \/ TakeStale(r) \/ TakeLock(r)
           \/ Reopen(r) \/ UpdateVariant(r) \/ Update(r) \/ Free(r)
    PROVE  SizeInv' /\ Sized'
<1>1. /\ c[r] \in CacheData /\ Fits(c[r], pc[r]) /\ node \in [Slots -> NodeData]
      /\ c \in [Requests -> CacheData] /\ size \in Int
      /\ UNCHANGED <<victim, drifted>>
  BY RequestHas DEF ReadFile, TakeStale, TakeLock, Reopen, UpdateVariant, Update, Free, IInv,
                    BasePart, RequestPart
<1>2. PICK n \in Slots : c[r].node = n
  BY <1>1 DEF ReadFile, TakeStale, TakeLock, Reopen, UpdateVariant, Update, Free, At, Fits,
              WithNode, CacheData
<1>3. /\ node[n] \in NodeData /\ node[n].key # None /\ node[n].fs_size \in Nat
      /\ c[r].fs_size \in Nat
  BY <1>1, <1>2, UsedNode, Referring, NodeHas, SizesAre DEF CacheData
<1>4. /\ ~node[n].exists => node[n].fs_size = 0
      /\ ~drifted => ~node[n].deleting /\ Weight(n) = node[n].fs_size
  BY <1>2, <1>3, UsedIsKept DEF SizeInv, Weight
<1> DEFINE Leaves(d) == c' = [c EXCEPT ![r] = d] /\ d.node \in {n, None}
<1>5. ASSUME NEW f, node' = [node EXCEPT ![n] = f], NEW d, Leaves(d), f.key = node[n].key,
             f.exists = node[n].exists, f.fs_size = node[n].fs_size, f.deleting = node[n].deleting,
             UNCHANGED size
      PROVE  SizeInv' /\ Sized'
  <2>1. ~f.exists => f.fs_size = 0
    BY <1>4, <1>5
  <2>2. ~drifted => ~f.deleting
    BY <1>4, <1>5
  <2>3. ~drifted => size' = size - Weight(n) + IF f.key = None THEN 0 ELSE f.fs_size
    BY <1>1, <1>3, <1>4, <1>5
  <2> QED BY <1>1, <1>2, <1>5, <2>1, <2>2, <2>3, SizeOfUser
<1>6. CASE ReadFile(r)
  <2> DEFINE f == [node[n] EXCEPT !.uses = 1, !.exists = TRUE, !.fs_size = c[r].fs_size]
  <2>1. \/ UNCHANGED <<node, size>>
        \/ /\ ~node[n].exists /\ node' = [node EXCEPT ![n] = f] /\ size' = size + c[r].fs_size
    BY <1>2, <1>6 DEF ReadFile, NotCounted
  <2>2. UNCHANGED c /\ c' = [c EXCEPT ![r] = c[r]]
    BY <1>1, <1>6 DEF ReadFile
  <2>3. f.exists /\ f.fs_size = c[r].fs_size /\ f.deleting = node[n].deleting /\ f.key = node[n].key
    BY <1>3 DEF NodeData
  <2> HIDE DEF f
  <2>4. CASE UNCHANGED <<node, size>>
    BY <1>1, <2>2, <2>4, SizeStays DEF Users
  <2>5. CASE ~node[n].exists /\ node' = [node EXCEPT ![n] = f] /\ size' = size + c[r].fs_size
    <3>1. ~drifted => ~f.deleting
      BY <1>4, <2>3
    <3>2. ~drifted => size' = size - Weight(n) + IF f.key = None THEN 0 ELSE f.fs_size
      BY <1>1, <1>3, <1>4, <2>3, <2>5
    <3> DEFINE d == c[r]
    <3>3. c' = [c EXCEPT ![r] = d] /\ d.node \in {n, None}
      BY <1>2, <2>2
    <3>4. ~f.exists => f.fs_size = 0
      BY <2>3
    <3> HIDE DEF d
    <3> QED BY <1>1, <1>2, <2>5, <3>1, <3>2, <3>3, <3>4, SizeOfUser
  <2> QED BY <2>1, <2>4, <2>5
<1>7. CASE TakeStale(r)
  <2> DEFINE f == [node[n] EXCEPT !.updating = TRUE]
             d == [c[r] EXCEPT !.updating = TRUE, !.lock_time = node[n].lock_time]
  <2>1. node' = [node EXCEPT ![n] = f] /\ c' = [c EXCEPT ![r] = d] /\ UNCHANGED size
    BY <1>2, <1>7 DEF TakeStale
  <2>2. /\ f.key = node[n].key /\ f.exists = node[n].exists /\ f.fs_size = node[n].fs_size
        /\ f.deleting = node[n].deleting
    BY <1>3 DEF NodeData
  <2>3. d.node = n
    BY <1>1, <1>2 DEF CacheData
  <2> HIDE DEF f, d
  <2> QED BY <1>5, <2>1, <2>2, <2>3
<1>8. CASE TakeLock(r)
  <2> DEFINE t == takes'
             f == [node[n] EXCEPT !.updating = TRUE, !.lock_time = t]
             d == [c[r] EXCEPT !.updating = TRUE, !.lock_time = t]
  <2>1. node' = [node EXCEPT ![n] = f] /\ c' = [c EXCEPT ![r] = d] /\ UNCHANGED size
    BY <1>2, <1>8 DEF TakeLock
  <2> HIDE DEF t
  <2>2. /\ f.key = node[n].key /\ f.exists = node[n].exists /\ f.fs_size = node[n].fs_size
        /\ f.deleting = node[n].deleting
    BY <1>3 DEF NodeData
  <2>3. d.node = n
    BY <1>1, <1>2 DEF CacheData
  <2> HIDE DEF f, d
  <2> QED BY <1>5, <2>1, <2>2, <2>3
<1>9. CASE Reopen(r)
  <2>1. PICK k : c' = [c EXCEPT ![r] = [NewCache EXCEPT !.key = k, !.main = c[r].key, !.late = c[r].late]]
    BY <1>9 DEF Reopen
  <2> DEFINE f == [node[n] EXCEPT !.count = @ - 1]
             d == [NewCache EXCEPT !.key = k, !.main = c[r].key, !.late = c[r].late]
  <2>2. node' = [node EXCEPT ![n] = f] /\ c' = [c EXCEPT ![r] = d] /\ UNCHANGED size
    BY <1>2, <1>9, <2>1 DEF Reopen
  <2>3. /\ f.key = node[n].key /\ f.exists = node[n].exists /\ f.fs_size = node[n].fs_size
        /\ f.deleting = node[n].deleting
    BY <1>3 DEF NodeData
  <2>4. d.node = None
    BY DEF NewCache
  <2> HIDE DEF f, d
  <2> QED BY <1>5, <2>2, <2>3, <2>4
<1>10. CASE UpdateVariant(r)
  <2> DEFINE f == [node[n] EXCEPT !.count = @ - 1, !.updating = FALSE]
             d == [NewCache EXCEPT !.key = c[r].main, !.moved = TRUE, !.updating = c[r].updating,
                                   !.lock_time = c[r].lock_time]
  <2>1. node' = [node EXCEPT ![n] = f] /\ c' = [c EXCEPT ![r] = d] /\ UNCHANGED size
    BY <1>2, <1>10 DEF UpdateVariant
  <2>2. /\ f.key = node[n].key /\ f.exists = node[n].exists /\ f.fs_size = node[n].fs_size
        /\ f.deleting = node[n].deleting
    BY <1>3 DEF NodeData
  <2>3. d.node = None
    BY DEF NewCache
  <2> HIDE DEF f, d
  <2> QED BY <1>5, <2>1, <2>2, <2>3
<1>11. CASE Update(r)
  <2> DEFINE b == node[n].exists \/ c[r].ok
             f == [node[n] EXCEPT !.count = @ - 1, !.fs_size = c[r].fs_size,
                                  !.exists = b, !.updating = FALSE]
  <2>1. /\ node' = [node EXCEPT ![n] = f] /\ c' = [c EXCEPT ![r] = NewCache]
        /\ size' = size + (c[r].fs_size - node[n].fs_size) /\ NewCache.node = None
    BY <1>2, <1>11 DEF Update, Done, Growth, NewCache
  <2>2. ~b => c[r].fs_size = 0
    BY <1>1, <1>11 DEF Update, At, Fits
  <2> HIDE DEF b
  <2>3. f.fs_size = c[r].fs_size /\ f.exists = b /\ f.deleting = node[n].deleting /\ f.key = node[n].key
    BY <1>3 DEF NodeData
  <2> HIDE DEF f
  <2>4. ~f.exists => f.fs_size = 0
    BY <2>2, <2>3
  <2>5. ~drifted => ~f.deleting
    BY <1>4, <2>3
  <2>6. ~drifted => size' = size - Weight(n) + IF f.key = None THEN 0 ELSE f.fs_size
    BY <1>1, <1>3, <1>4, <2>1, <2>3
  <2> QED BY <1>1, <1>2, <2>1, <2>4, <2>5, <2>6, SizeOfUser
<1>12. CASE Free(r)
  <2> DEFINE b1 == node[n].updating /\ ~StillMine(r, node[n])
             b2 == node[n].error \/ c[r].error # "no"
             b3 == node[n].live \/ TimesError(r)
             f == [node[n] EXCEPT !.count = @ - 1, !.updating = b1, !.error = b2, !.live = b3]
  <2>1. /\ \/ FreesNode(n) /\ ~f.exists
           \/ node' = [node EXCEPT ![n] = f]
        /\ c' = [c EXCEPT ![r] = NewCache] /\ NewCache.node = None /\ UNCHANGED size
    BY <1>2, <1>12 DEF Free, Done, NewCache
  <2> HIDE DEF b1, b2, b3
  <2>2. /\ f.key = node[n].key /\ f.exists = node[n].exists /\ f.fs_size = node[n].fs_size
        /\ f.deleting = node[n].deleting
    BY <1>3 DEF NodeData
  <2> HIDE DEF f
  <2>3. CASE FreesNode(n) /\ ~f.exists
    <3> DEFINE g == FreeNode
    <3>1. node' = [node EXCEPT ![n] = g] /\ ~g.deleting /\ g.fs_size = 0 /\ g.key = None
      BY <2>3 DEF FreesNode, FreeNode
    <3>2. ~drifted => size' = size - Weight(n) + IF g.key = None THEN 0 ELSE g.fs_size
      BY <1>1, <1>4, <2>1, <2>2, <2>3, <3>1
    <3> HIDE DEF g
    <3> QED BY <1>1, <1>2, <2>1, <3>1, <3>2, SizeOfUser
  <2>4. CASE node' = [node EXCEPT ![n] = f]
    BY <1>5, <2>1, <2>2, <2>4
  <2> QED BY <2>1, <2>3, <2>4
<1> QED BY <1>6, <1>7, <1>8, <1>9, <1>10, <1>11, <1>12

(* A request finds a node, or makes one.                                     *)
LEMMA SizeOfOpener ==
    ASSUME IInv, IInv', SizeInv, Sized, NEW r \in Requests,
           Create(r) \/ Retry(r) \/ \E n \in Slots : Lookup(r, n)
    PROVE  SizeInv' /\ Sized'
<1>1. /\ c[r] \in CacheData /\ node \in [Slots -> NodeData] /\ size \in Int /\ conf \in Confs
      /\ UNCHANGED <<victim, size>> /\ None \notin Slots /\ Fits(c[r], pc[r])
      /\ victim \in [Deleters -> Slots \cup {None}] /\ c \in [Requests -> CacheData]
  BY RequestHas, Zone DEF Create, Retry, Insert, Lookup, IInv, BasePart, RequestPart
<1>2. ASSUME NEW n \in Slots, Lookup(r, n) PROVE SizeInv' /\ Sized'
  <2> DEFINE f == Counted(r, node[n])
  <2>1. node[n] \in NodeData /\ node[n].key # None /\ n # None
    <3>1. n = c[r].node \/ n \in Nodes
      BY <1>2 DEF Lookup, Found
    <3> QED BY <1>1, <3>1, UsedNode, Referring DEF Nodes
  <2>2. /\ f.deleting = node[n].deleting /\ f.fs_size = node[n].fs_size /\ f.key = node[n].key
        /\ f.exists = node[n].exists /\ f \in NodeData
    <3>1. Used(node[n]) \in Nat /\ node[n].count + 1 \in Nat
      BY <2>1, NodeHas DEF Used
    <3> QED BY <2>1, <3>1 DEF Counted, NodeData
  <2>3. PICK s \in {"open", "fetch", "lock", "answer"}, scarce \in BOOLEAN :
           \E f2 \in {f, Renewed(f)} : LookupGoes(r, n, f2, s, scarce)
    BY <1>2, LookupIs
  <2>4. /\ \/ node' = [node EXCEPT ![n] = f]
           \/ f.error /\ ~f.live /\ node' = [node EXCEPT ![n] = Renewed(f)]
        /\ drifted' = (drifted \/ f.deleting \/ (f.error /\ ~f.live /\ f.fs_size > 0))
    <3> HIDE DEF f
    <3> QED BY <1>2 DEF Lookup, f
  <2> HIDE DEF f
  <2>5. \E d : c' = [c EXCEPT ![r] = d] /\ d.node = n
    <3>1. PICK f2 \in {f, Renewed(f)} : LookupGoes(r, n, f2, s, scarce)
      BY <2>3
    <3> DEFINE b == c[r].moved \/ ~(scarce /\ s = "fetch")
               e == IF f2.error THEN "cached" ELSE "no"
               d == [c[r] EXCEPT !.node = n, !.scarce = scarce, !.error = e, !.cacheable = b]
    <3>2. c' = [c EXCEPT ![r] = d]
      BY <3>1 DEF LookupGoes
    <3>3. d.node = n
      BY <1>1 DEF CacheData
    <3> HIDE DEF d
    <3> QED BY <3>2, <3>3
  <2>6. \A m \in Slots \ {n} : Users(m)' \subseteq Users(m)
    <3>1. PICK d : c' = [c EXCEPT ![r] = d] /\ d.node \in {c[r].node, None, n}
      BY <2>5
    <3>2. c'[r] = d /\ \A q \in Requests \ {r} : c'[q] = c[q]
      BY <1>1, <3>1
    <3>3. \A m : m # n /\ m # None => Users(m)' \subseteq Users(m)
      BY <3>1, <3>2 DEF Users
    <3> QED BY <1>1, <3>3
  <2>7. PICK g : /\ node' = [node EXCEPT ![n] = g] /\ g.deleting = f.deleting /\ g.key = f.key
                 /\ ~g.exists => g.fs_size = 0
                 /\ ~drifted' => g.fs_size = f.fs_size
    <3>1. CASE node' = [node EXCEPT ![n] = f]
      <4>1. ~f.exists => f.fs_size = 0
        BY <2>2 DEF SizeInv
      <4> QED BY <3>1, <4>1
    <3>2. CASE f.error /\ ~f.live /\ node' = [node EXCEPT ![n] = Renewed(f)]
      <4> DEFINE g == Renewed(f)
      <4>1. g.deleting = f.deleting /\ g.key = f.key /\ g.fs_size = 0
        BY <2>2 DEF Renewed, NodeData
      <4>2. f.fs_size \in Nat
        BY <2>2, NodeHas
      <4>3. ~drifted' => f.fs_size = 0
        <5> DEFINE p == f.fs_size > 0
        <5>1. p => drifted'
          <6> HIDE DEF p
          <6> QED BY <2>4, <3>2, Zenon DEF p
        <5> QED BY <4>2, <5>1
      <4> HIDE DEF g
      <4> QED BY <3>2, <4>1, <4>3 DEF g
    <3> QED BY <2>4, <3>1, <3>2
  <2>8. node'[n] = g /\ \A m \in Slots \ {n} : node'[m] = node[m]
    BY <1>1, <2>7
  <2>9. (drifted => drifted') /\ (~drifted' => ~drifted /\ ~node[n].deleting)
    BY <2>2, <2>4
  <2>10. ASSUME ~drifted'
         PROVE  /\ node'[n].deleting => node'[n].count = 1 /\ Users(n)' = {}
                /\ \A a \in Deleters : victim'[a] = n => node'[n].deleting
                /\ size' = size - Weight(n) + Weight(n)'
    <3>1. ~node'[n].deleting /\ node'[n].key # None /\ node'[n].fs_size = node[n].fs_size
      BY <2>1, <2>2, <2>7, <2>8, <2>9, <2>10
    <3>2. Weight(n) = node[n].fs_size /\ Weight(n)' = node[n].fs_size /\ node[n].fs_size \in Nat
      BY <2>1, <2>9, <2>10, <3>1, NodeHas DEF Weight
    <3>3. \A a \in Deleters : victim[a] # n
      BY <2>1, <2>9, <2>10 DEF SizeInv
    <3> QED BY <1>1, <3>1, <3>2, <3>3
  <2>11. /\ ~node'[n].exists => node'[n].fs_size = 0
         /\ \A a \in Deleters : victim'[a] \in {victim[a], None, n}
    BY <1>1, <2>7, <2>8
  <2> QED BY <2>6, <2>8, <2>9, <2>10, <2>11, SizeFrame
<1>3. CASE Create(r) \/ Retry(r)
  <2>1. PICK n \in conf.zone \ Nodes : Insert(r, n)
    BY <1>3 DEF Create, Retry
  <2>2. n \in Slots /\ node[n].key = None /\ n # None
    BY <1>1, <2>1, FreePlace
  <2> DEFINE f == [FreeNode EXCEPT !.key = c[r].key, !.uses = 1, !.count = 1]
             b1 == conf.min_uses > 1
             b2 == c[r].moved \/ ~(conf.min_uses > 1 /\ ~cold)
             d == [c[r] EXCEPT !.node = n, !.scarce = b1, !.cacheable = b2]
  <2>3. node' = [node EXCEPT ![n] = f] /\ c' = [c EXCEPT ![r] = d] /\ UNCHANGED drifted
    BY <2>1 DEF Insert
  <2>4. f.fs_size = 0 /\ ~f.deleting
    BY DEF FreeNode
  <2> HIDE DEF b1, b2, f
  <2>5. d.node = n
    BY <1>1 DEF CacheData
  <2> HIDE DEF d
  <2>6. \A m \in Slots \ {n} : Users(m)' \subseteq Users(m)
    <3>1. d.node \in {c[r].node, None, n}
      BY <2>5
    <3>2. c'[r] = d /\ \A q \in Requests \ {r} : c'[q] = c[q]
      BY <1>1, <2>3
    <3>3. \A m : m # n /\ m # None => Users(m)' \subseteq Users(m)
      BY <3>1, <3>2 DEF Users
    <3> QED BY <1>1, <3>3
  <2>7. node'[n] = f /\ \A m \in Slots \ {n} : node'[m] = node[m]
    BY <1>1, <2>2, <2>3
  <2>8. Weight(n) = 0 /\ Weight(n)' = 0
    BY <2>2, <2>4, <2>7 DEF Weight
  <2>9. \A a \in Deleters : victim[a] # n
    BY <2>1, FreePlace, Referring
  <2>10. size' = size - Weight(n) + Weight(n)'
    BY <1>1, <2>8
  <2> QED BY <1>1, <2>2, <2>3, <2>4, <2>6, <2>7, <2>9, <2>10, SizeFrame
<1> QED BY <1>2, <1>3

(* A process begins to delete an idle node, or ends it.                      *)
LEMMA SizeOfDeleters ==
    ASSUME IInv, IInv', SizeInv, Sized,
           \/ \E a \in Deleters, next \in {"retry", "expire", "check"} :
                 pc[a] \in Deleting /\ EndDelete(a, next)
           \/ \E a \in Deleters, freed, busy \in {"retry", "check", "rest"} :
                 ForcedExpire(a, freed, busy)
           \/ Expire
    PROVE  SizeInv' /\ Sized'
<1>1. /\ UNCHANGED <<c, drifted>> /\ node \in [Slots -> NodeData] /\ None \notin Slots
      /\ victim \in [Deleters -> Slots \cup {None}] /\ size \in Int
      /\ conf \in Confs /\ Nodes \subseteq Slots /\ \A m : Users(m)' = Users(m)
  <2>1. UNCHANGED <<c, drifted>>
    BY ExpireIs DEF EndDelete, ForcedExpire
  <2>2. \A m : Users(m)' = Users(m)
    BY <2>1 DEF Users
  <2>3. conf \in Confs /\ Nodes \subseteq Slots /\ None \notin Slots
    BY Zone DEF IInv, BasePart, Nodes
  <2> QED BY <2>1, <2>2, <2>3 DEF IInv, NodePart, BasePart, RequestPart
<1>2. ASSUME NEW n \in Slots, ~node[n].exists, node[n].count = 0, node'[n] = FreeNode,
             \A m \in Slots \ {n} : node'[m] = node[m], UNCHANGED <<size, victim>>
      PROVE  SizeInv' /\ Sized'
  <2>1. ~node'[n].deleting /\ node'[n].fs_size = 0 /\ Weight(n)' = 0
    BY <1>2 DEF FreeNode, Weight
  <2>2. Weight(n) = 0
    BY <1>2 DEF Weight, SizeInv
  <2>3. \A a \in Deleters : victim[a] # n
    BY <1>2, FewReferences, Referring
  <2>4. size' = size - Weight(n) + Weight(n)'
    BY <1>1, <1>2, <2>1, <2>2
  <2> QED BY <1>1, <1>2, <2>1, <2>3, <2>4, SizeFrame
<1>3. ASSUME NEW n \in Slots, NEW f, node'[n] = f, node[n].key # None,
             f.deleting, f.count = node[n].count + 1,
             f.exists = node[n].exists, f.fs_size = node[n].fs_size,
             ~InUse(n), size' = size - node[n].fs_size,
             NEW a \in Deleters, victim' = [victim EXCEPT ![a] = n],
             \A m \in Slots \ {n} : \/ node'[m] = node[m]
                                    \/ node[m].count = 0 /\ ~node[m].exists /\ node'[m] = FreeNode
      PROVE  SizeInv' /\ Sized'
  <2>1. node[n].count = 0 /\ node[n].fs_size \in Nat
    BY <1>1, <1>3, NodeHas DEF InUse
  <2>2. Users(n)' = {} /\ f.count = 1
    BY <1>1, <1>3, <2>1, FewReferences
  <2>3. ~drifted => Weight(n) = node[n].fs_size
    BY <1>3, <2>1 DEF Weight, SizeInv
  <2>4. Weight(n)' = 0
    BY <1>3 DEF Weight
  <2>5. ~drifted => size' = size - Weight(n) + Weight(n)'
    BY <1>1, <1>3, <2>1, <2>3, <2>4
  <2>6. ~f.exists => f.fs_size = 0
    BY <1>3 DEF SizeInv
  <2>7. \A b \in Deleters : victim'[b] \in {victim[b], None, n}
    BY <1>1, <1>3
  <2> QED BY <1>1, <1>3, <2>2, <2>5, <2>6, <2>7, SizeFrame
<1>4. ASSUME NEW a \in Deleters, NEW next, pc[a] \in Deleting, EndDelete(a, next)
      PROVE  SizeInv' /\ Sized'
  <2>1. PICK n \in Slots : victim[a] = n
    BY <1>1, <1>4 DEF IInv, RequestPart
  <2> DEFINE f == [node[n] EXCEPT !.count = @ - 1, !.deleting = FALSE]
  <2>2. node[n] \in NodeData /\ node[n].count \in Nat
    BY <1>1, NodeHas
  <2>3. /\ f.count = node[n].count - 1 /\ ~f.deleting /\ f.exists = node[n].exists
        /\ f.fs_size = node[n].fs_size
    BY <2>2 DEF NodeData
  <2>4. /\ IF f.count = 0 THEN node' = [node EXCEPT ![n] = FreeNode] ELSE node' = [node EXCEPT ![n] = f]
        /\ victim' = [victim EXCEPT ![a] = None] /\ UNCHANGED size
    BY <1>4, <2>1 DEF EndDelete, FreesNode
  <2> HIDE DEF f
  <2>5. \A m \in Slots \ {n} : node'[m] = node[m]
    BY <1>1, <2>4
  <2>6. node'[n] = IF f.count = 0 THEN FreeNode ELSE f
    BY <1>1, <2>4
  <2>7. ~node'[n].exists => node'[n].fs_size = 0
    BY <2>3, <2>6 DEF SizeInv, FreeNode
  <2>8. \A b \in Deleters : victim'[b] \in {victim[b], None, n}
    BY <1>1, <2>4
  <2>9. ASSUME ~drifted'
        PROVE  /\ node'[n].deleting => node'[n].count = 1 /\ Users(n)' = {}
               /\ \A b \in Deleters : victim'[b] = n => node'[n].deleting
               /\ size' = size - Weight(n) + Weight(n)'
    <3>1. node[n].deleting /\ node[n].count = 1
      BY <1>1, <2>1, <2>9 DEF SizeInv
    <3>2. node'[n] = FreeNode
      BY <2>3, <2>6, <3>1
    <3>3. ~node'[n].deleting /\ Weight(n) = 0 /\ Weight(n)' = 0
      BY <3>1, <3>2 DEF FreeNode, Weight
    <3>4. DeletersOf(n) = {a}
      <4>1. a \in DeletersOf(n)
        BY <2>1 DEF DeletersOf
      <4> QED BY <3>1, <4>1, FewReferences
    <3>5. \A b \in Deleters : victim'[b] # n
      BY <1>1, <2>4, <3>4 DEF DeletersOf
    <3> QED BY <1>1, <2>4, <3>3, <3>5
  <2> QED BY <1>1, <2>5, <2>7, <2>8, <2>9, SizeFrame
<1>5. ASSUME NEW a \in Deleters, NEW freed, NEW busy, ForcedExpire(a, freed, busy)
      PROVE  SizeInv' /\ Sized'
  <2>1. \/ UNCHANGED <<node, size, victim>>
        \/ \E i \in DOMAIN queue : /\ ~InUse(queue[i])
                                   /\ DeletesNode(queue[i]) \/ BeginsDelete(a, queue[i])
    BY <1>5 DEF ForcedExpire
  <2>2. CASE UNCHANGED <<node, size, victim>>
    BY <1>1, <2>2, SizeStays
  <2>3. ASSUME NEW i \in DOMAIN queue, ~InUse(queue[i]),
               DeletesNode(queue[i]) \/ BeginsDelete(a, queue[i])
        PROVE  SizeInv' /\ Sized'
    <3>1. PICK n \in Slots : n = queue[i] /\ node[n].key # None
      BY <1>1 DEF IInv, QueuePart, Range, Nodes
    <3>2. node[n] \in NodeData /\ node[n].count \in Nat /\ ~InUse(n)
      BY <1>1, <2>3, <3>1, NodeHas
    <3>3. CASE DeletesNode(n)
      <4>1. /\ ~node[n].exists /\ node'[n] = FreeNode /\ UNCHANGED <<size, victim>>
            /\ \A m \in Slots \ {n} : node'[m] = node[m]
        BY <1>1, <3>3 DEF DeletesNode, FreesNode
      <4>2. node[n].count = 0
        BY <3>2 DEF InUse
      <4> QED BY <1>2, <4>1, <4>2
    <3>4. CASE BeginsDelete(a, n)
      <4> DEFINE f == [node[n] EXCEPT !.count = Referred(node[n]), !.deleting = TRUE]
      <4>1. /\ node' = [node EXCEPT ![n] = f] /\ size' = size - node[n].fs_size
            /\ victim' = [victim EXCEPT ![a] = n]
        BY <3>4 DEF BeginsDelete
      <4>2. /\ f.deleting /\ f.count = node[n].count + 1 /\ f.exists = node[n].exists
            /\ f.fs_size = node[n].fs_size
        BY <3>2 DEF NodeData, Referred
      <4> HIDE DEF f
      <4>3. node'[n] = f /\ \A m \in Slots \ {n} : node'[m] = node[m]
        BY <1>1, <4>1
      <4> QED BY <1>3, <3>1, <3>2, <4>1, <4>2, <4>3
    <3> QED BY <2>3, <3>1, <3>3, <3>4
  <2> QED BY <2>1, <2>2, <2>3
<1>6. ASSUME Expire PROVE SizeInv' /\ Sized'
  <2>1. /\ Freed \in SUBSET Slots /\ \A m \in Freed : ~node[m].exists /\ node[m].count = 0
    <3>1. Freed \in SUBSET Slots /\ \A m \in Freed : ~node[m].exists /\ ~InUse(m)
      BY <1>1, PassedAre
    <3>2. \A m \in Slots : node[m].count \in Nat
      BY <1>1, NodeHas
    <3> QED BY <3>1, <3>2 DEF InUse
  <2>2. /\ Rest(Freed) \in [Slots -> NodeData]
        /\ \A m \in Slots : Rest(Freed)[m] = IF m \in Freed THEN FreeNode ELSE node[m]
    BY <1>1, <2>1, FreeNodeIs DEF Rest
  <2>3. CASE ~Deletes
    <3>1. node' = Rest(Freed) /\ UNCHANGED <<size, victim>>
      BY <1>6, <2>3, ExpireIs
    <3>2. CASE Slots = {}
      <4>1. UNCHANGED <<node, size, drifted, victim>>
        BY <1>1, <2>2, <3>1, <3>2
      <4> QED BY <1>1, <4>1, SizeStays
    <3>3. ASSUME NEW n \in Slots PROVE SizeInv' /\ Sized'
      <4>1. CASE n \in Freed
        <5>1. ~node'[n].deleting /\ node'[n].fs_size = 0 /\ Weight(n)' = 0
          BY <2>2, <3>1, <4>1 DEF FreeNode, Weight
        <5>2. Weight(n) = 0
          BY <2>1, <4>1 DEF Weight, SizeInv
        <5>3. \A a \in Deleters : victim[a] # n
          BY <2>1, <4>1, FewReferences, Referring
        <5>4. size' = size - Weight(n) + Weight(n)'
          BY <1>1, <3>1, <5>1, <5>2
        <5> QED BY <1>1, <2>1, <2>2, <3>1, <5>1, <5>3, <5>4, SizeFrame
      <4>2. CASE n \notin Freed
        <5>1. node'[n] = node[n]
          BY <2>2, <3>1, <4>2
        <5>2. Weight(n)' = Weight(n) /\ Weight(n) \in Int
          BY <1>1, <5>1, WeightsAre DEF Weight
        <5>3. size' = size - Weight(n) + Weight(n)'
          BY <1>1, <3>1, <5>2
        <5>4. /\ ~node'[n].exists => node'[n].fs_size = 0
              /\ ~drifted' => /\ node'[n].deleting => node'[n].count = 1 /\ Users(n)' = {}
                              /\ \A a \in Deleters : victim'[a] = n => node'[n].deleting
          BY <1>1, <3>1, <5>1 DEF SizeInv
        <5> QED BY <1>1, <2>1, <2>2, <3>1, <5>3, <5>4, SizeFrame
      <4> QED BY <4>1, <4>2
    <3> QED BY <3>2, <3>3
  <2>4. CASE Deletes
    <3>1. PICK n \in Slots : n = queue[Last] /\ n \notin Freed /\ node[n].key # None /\ ~InUse(n)
      BY <1>1, <2>4, PassedAre DEF Deletes, Nodes
    <3> DEFINE f == [node[n] EXCEPT !.count = Referred(node[n]), !.deleting = TRUE]
    <3>2. Rest(Freed)[n] = node[n] /\ node[n] \in NodeData
      BY <1>1, <2>2, <3>1
    <3>3. /\ node' = [Rest(Freed) EXCEPT ![n] = f] /\ size' = size - node[n].fs_size
          /\ victim' = [victim EXCEPT ![Manager] = n] /\ Manager \in Deleters
      BY <1>6, <2>4, <3>1, <3>2, ExpireIs DEF Deleters
    <3>4. /\ f.deleting /\ f.count = node[n].count + 1 /\ f.exists = node[n].exists
          /\ f.fs_size = node[n].fs_size
      BY <3>2 DEF NodeData, Referred
    <3> HIDE DEF f
    <3>5. node'[n] = f /\ \A m \in Slots \ {n} : node'[m] = Rest(Freed)[m]
      BY <2>2, <3>3
    <3>6. \A m \in Slots \ {n} : \/ node'[m] = node[m]
                                 \/ node[m].count = 0 /\ ~node[m].exists /\ node'[m] = FreeNode
      BY <2>1, <2>2, <3>5
    <3> QED BY <1>3, <3>1, <3>3, <3>4, <3>5, <3>6
  <2> QED BY <2>3, <2>4
<1>7. CASE \E a \in Deleters, next \in {"retry", "expire", "check"} :
              pc[a] \in Deleting /\ EndDelete(a, next)
  <2>1. PICK a \in Deleters, next \in {"retry", "expire", "check"} :
           pc[a] \in Deleting /\ EndDelete(a, next)
    BY <1>7
  <2> QED BY <1>4, <2>1
<1>8. CASE \E a \in Deleters, freed, busy \in {"retry", "check", "rest"} :
              ForcedExpire(a, freed, busy)
  <2>1. PICK a \in Deleters, freed, busy \in {"retry", "check", "rest"} :
           ForcedExpire(a, freed, busy)
    BY <1>8
  <2> QED BY <1>5, <2>1
<1> QED BY <1>6, <1>7, <1>8
(* The loader, the clock, and the steps of the manager outside its expiry.   *)
LEMMA SizeOtherSteps ==
    ASSUME IInv, IInv', SizeInv, Sized,
           \/ LoadAdd \/ LoadEnd \/ Check \/ Time \/ ManagerCrash
           \/ (\E k \in Keys : LoadRead(k)) \/ (\E a \in Deleters : Unlink(a))
    PROVE  SizeInv' /\ Sized'
<1>1. /\ UNCHANGED <<c, drifted>> /\ node \in [Slots -> NodeData] /\ size \in Int /\ None \notin Slots
      /\ victim \in [Deleters -> Slots \cup {None}]
      /\ \A a \in Deleters : victim'[a] \in {victim[a], None}
  <2>1. UNCHANGED <<c, drifted>> /\ (UNCHANGED victim \/ victim' = [victim EXCEPT ![Manager] = None])
    BY DEF LoadAdd, LoadEnd, Check, Time, ManagerCrash, LoadRead, Unlink, LockRunsOut, ErrorExpires,
           Deactivate, FileExpires, Timeless
  <2>2. node \in [Slots -> NodeData] /\ victim \in [Deleters -> Slots \cup {None}]
    BY DEF IInv, NodePart, RequestPart
  <2>3. \A a \in Deleters : victim'[a] \in {victim[a], None}
    BY <2>1, <2>2
  <2> QED BY <2>1, <2>2, <2>3, Zone DEF IInv, BasePart
<1>2. \A m : Users(m)' = Users(m)
  BY <1>1 DEF Users
<1>3. CASE UNCHANGED <<node, size>>
  BY <1>1, <1>2, <1>3, SizeStays
<1>4. ASSUME NEW n \in Slots, ErrorExpires(n) PROVE SizeInv' /\ Sized'
  <2> DEFINE f == [node[n] EXCEPT !.live = FALSE]
  <2>1. node[n] \in NodeData /\ node' = [node EXCEPT ![n] = f] /\ UNCHANGED <<size, victim>>
    BY <1>1, <1>4 DEF ErrorExpires, Timeless
  <2>2. /\ f.key = node[n].key /\ f.exists = node[n].exists /\ f.fs_size = node[n].fs_size
        /\ f.deleting = node[n].deleting /\ f.count = node[n].count
    BY <2>1 DEF NodeData
  <2> HIDE DEF f
  <2>3. node'[n] = f /\ \A m \in Slots \ {n} : node'[m] = node[m]
    BY <1>1, <2>1
  <2>4. Weight(n)' = Weight(n) /\ Weight(n) \in Int
    <3>1. Weight(n) \in Int
      BY <1>1, WeightsAre
    <3>2. Weight(n)' = Weight(n)
      BY <2>2, <2>3 DEF Weight
    <3> QED BY <3>1, <3>2
  <2>5. size' = size - Weight(n) + Weight(n)'
    BY <1>1, <2>1, <2>4
  <2>6. /\ ~node'[n].exists => node'[n].fs_size = 0
        /\ ~drifted => /\ node'[n].deleting => node'[n].count = 1 /\ Users(n)' = {}
                       /\ \A a \in Deleters : victim'[a] = n => node'[n].deleting
    BY <1>1, <1>2, <2>1, <2>2, <2>3 DEF SizeInv
  <2> QED BY <1>1, <1>2, <2>3, <2>5, <2>6, SizeFrame
<1>5. ASSUME NEW n \in conf.zone \ Nodes, LoadAdd, size' = size + seen.size,
             node' = [node EXCEPT ![n] = [FreeNode EXCEPT !.key = seen.key, !.uses = 1,
                                                     !.exists = TRUE, !.fs_size = seen.size]]
      PROVE  SizeInv' /\ Sized'
  <2> DEFINE f == [FreeNode EXCEPT !.key = seen.key, !.uses = 1,
                                   !.exists = TRUE, !.fs_size = seen.size]
  <2>1. n \in Slots /\ node[n].key = None
    BY <1>1, <1>5, FreePlace
  <2>2. node' = [node EXCEPT ![n] = f] /\ UNCHANGED victim
    BY <1>5 DEF LoadAdd
  <2>3. f.key = seen.key /\ f.exists /\ ~f.deleting /\ f.fs_size = seen.size
    BY DEF FreeNode
  <2> HIDE DEF f
  <2>4. seen.key \in Keys /\ seen.size \in Nat /\ None \notin Keys
    BY <1>5, SizesAre, Zone DEF LoadAdd, IInv, BasePart
  <2>5. node'[n] = f /\ \A m \in Slots \ {n} : node'[m] = node[m]
    BY <1>1, <2>1, <2>2
  <2>6. Weight(n) = 0
    BY <2>1 DEF Weight
  <2>7. Weight(n)' = seen.size
    BY <2>3, <2>4, <2>5 DEF Weight
  <2>8. size' = size - Weight(n) + Weight(n)'
    BY <1>1, <1>5, <2>4, <2>6, <2>7
  <2>9. \A a \in Deleters : victim[a] # n
    BY <1>5, FreePlace, Referring
  <2> QED BY <1>1, <1>2, <2>1, <2>2, <2>3, <2>5, <2>8, <2>9, SizeFrame
<1>6. \/ UNCHANGED <<node, size>> \/ \E n \in Slots : ErrorExpires(n)
      \/ LoadAdd /\ size' = size + seen.size /\ \E n \in conf.zone \ Nodes :
            node' = [node EXCEPT ![n] = [FreeNode EXCEPT !.key = seen.key, !.uses = 1,
                                                 !.exists = TRUE, !.fs_size = seen.size]]
  BY DEF LoadAdd, LoadEnd, Check, Time, ManagerCrash, LoadRead, Unlink, shared, LockRunsOut,
     Deactivate, FileExpires, Timeless
<1> QED BY <1>3, <1>4, <1>5, <1>6

LEMMA SizeInit == Init => SizeInv /\ Sized
<1> SUFFICES ASSUME Init PROVE SizeInv /\ Sized
  OBVIOUS
<1>1. /\ \A n \in Slots : node[n].fs_size = 0 /\ ~node[n].deleting /\ node[n].key = None
      /\ \A a \in Deleters : victim[a] = None
      /\ size = 0
  BY DEF Init, FreeNode
<1>2. SumFunctionOnSet(Weights, Slots) = 0
  <2>1. \A n \in Slots : Weights[n] = 0
    BY <1>1 DEF Weights, Weight
  <2>2. Ints(Weights, Slots) /\ {} \in SUBSET Slots /\ Slots \ {} = Slots
    BY <2>1 DEF Ints
  <2>3. SumFunctionOnSet(Weights, Slots) = SumFunctionOnSet(Weights, {})
    BY <2>1, <2>2, Finite, SumZeros
  <2> QED BY <2>3, SumEmpty
<1> QED BY <1>1, <1>2 DEF SizeInv, Sized

LEMMA SizeStep == IInv /\ IInv' /\ SizeInv /\ Sized /\ [Next]_vars => SizeInv' /\ Sized'
<1> SUFFICES ASSUME IInv, IInv', SizeInv, Sized, [Next]_vars PROVE SizeInv' /\ Sized'
  OBVIOUS
<1>1. ASSUME NEW r \in Requests, Arrive(r) \/ Step(r) \/ WaitTooLong(r) \/ Crash(r)
      PROVE  SizeInv' /\ Sized'
  <2>1. r \in Deleters
    BY DEF Deleters
  <2>2. CASE RequestForce(r)
    BY <2>1, <2>2, SizeOfDeleters DEF RequestForce
  <2>3. CASE RequestEndDelete(r)
    <3>1. pc[r] \in Deleting /\ EndDelete(r, "retry")
      BY <2>3 DEF RequestEndDelete, At, Deleting
    <3> QED BY <2>1, <3>1, SizeOfDeleters
  <2> QED BY <1>1, <2>1, <2>2, <2>3, SizeQuietSteps, SizeUserSteps, SizeOfOpener, SizeOtherSteps
          DEF Step, Opens, Locks, Answers
<1>2. CASE ManagerStep
  <2>1. Manager \in Deleters
    BY DEF Deleters
  <2>2. CASE ExpireGoesOn \/ ManagerEndDelete
    <3>1. pc[Manager] \in Deleting /\ \E next \in {"retry", "expire", "check"} : EndDelete(Manager, next)
      BY <2>2 DEF ExpireGoesOn, ManagerEndDelete, At, Deleting
    <3> QED BY <2>1, <3>1, SizeOfDeleters
  <2>3. CASE ManagerForce
    BY <2>1, <2>3, SizeOfDeleters DEF ManagerForce
  <2> QED BY <1>2, <2>1, <2>2, <2>3, SizeOfDeleters, SizeOtherSteps DEF ManagerStep
<1>3. CASE UNCHANGED vars
  <2>1. UNCHANGED <<node, size, drifted, victim>> /\ \A m : Users(m)' = Users(m)
    BY <1>3 DEF vars, shared, Users
  <2> QED BY <2>1, SizeStays
<1> QED BY <1>1, <1>2, <1>3, SizeOtherSteps DEF Next, LoaderStep

(* sh->size is the sum of what the nodes have that nobody is deleting, until  *)
(* one of the two known ways puts it out of step.                             *)
THEOREM SizeIsTheSum == Spec => []SizeIsKept
<1>1. Spec => [](IInv /\ SizeInv /\ Sized)
  BY IInvHolds, SizeInit, SizeStep, PTL DEF Spec
<1>2. IInv /\ Sized => SizeIsKept
  BY SizedIs
<1> QED BY <1>1, <1>2, PTL
=============================================================================
