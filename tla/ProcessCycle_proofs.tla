------------------------- MODULE ProcessCycle_proofs -------------------------
(***************************************************************************)
(* Proofs about the master process, for any roster, any size of the table  *)
(* of processes and any number of signals, crashes and failed forks.       *)
(***************************************************************************)
EXTENDS ProcessCycle, FiniteSetTheorems, SequenceTheorems, TLAPS

(* Signals are blocked: while the master starts processes it is not ending. *)
Starting == {"spawn", "handover", "restart", "binary", "noaccept"}
StartInv == stage \in Starting => ~Ending

(* Only a reload marks entries as just spawned, and its end clears them.    *)
Reloading == stage = "handover" \/ (stage = "spawn" /\ next = "handover")
JustInv == \A i \in DOMAIN table :
              table[i].just => Reloading /\ kid[i].gen = cycle

OldInv == ~Reloading => \A i \in Slots : (Mine(i) /\ kid[i].gen < cycle) => table[i].exiting

(* Without live, and with no roster unseen, there is no child.              *)
LiveInv == /\ ~live /\ ~unseen => Reloading \/ \A i \in Slots : ~Mine(i)
           /\ stage = "spawn" /\ next # "handover" => live \/ unseen

GoneInv == stage = "gone" => ~live

IInv == /\ TypeOK /\ EveryKidHasItsEntry /\ ExitingWasTold
        /\ StartInv /\ JustInv /\ OldInv /\ LiveInv

-----------------------------------------------------------------------------
(* Tables *)

LEMMA RosterType ==
    /\ Roster \in Seq(Roles) /\ Roster # <<>> /\ WorkerProcesses + CacheProcesses \in Nat
    /\ MaxProcs \in Nat /\ KillAfter \in Nat /\ Binary = "new binary"
<1>1. Roster \in Seq(Roles) /\ Roster # <<>>
  BY CycleAssumption DEF CycleAssumption, Roles
<1>2. DOMAIN Roster = 1..Len(Roster) /\ Len(Roster) \in Nat
  BY <1>1
<1>3. IsFiniteSet(DOMAIN Roster)
  BY <1>2, FS_Interval
<1>4. WorkerProcesses \in Nat
  <2>1. IsFiniteSet({n \in DOMAIN Roster : Roster[n] = "worker"})
    BY <1>3, FS_Subset
  <2> QED BY <2>1, FS_CardinalityType DEF WorkerProcesses
<1>5. MaxProcs \in Nat /\ Binary = "new binary"
  BY CycleAssumption DEF CycleAssumption
<1>6. KillAfter \in Nat
  BY CycleAssumption DEF CycleAssumption
<1>7. WorkerProcesses + CacheProcesses \in Nat
  BY <1>4 DEF CacheProcesses
<1> QED BY <1>1, <1>5, <1>6, <1>7

LEMMA TableType ==
    ASSUME NEW S, NEW t \in Seq(S)
    PROVE  /\ Len(t) \in Nat /\ DOMAIN t = 1..Len(t)
           /\ \A i \in DOMAIN t : t[i] \in S
OBVIOUS

LEMMA InSlots ==
    ASSUME NEW S, NEW t \in Seq(S), Len(t) <= MaxProcs
    PROVE  \A i \in DOMAIN t : i \in Slots
<1>1. Len(t) \in Nat /\ DOMAIN t = 1..Len(t)
  BY TableType
<1>2. MaxProcs \in Nat
  BY RosterType
<1> TAKE i \in DOMAIN t
<1>3. i \in Nat /\ 1 <= i /\ i <= Len(t)
  BY <1>1
<1>4. i <= MaxProcs
  BY <1>1, <1>2, <1>3
<1> QED BY <1>2, <1>3, <1>4 DEF Slots

(* A table rewritten entry by entry. *)
LEMMA Rewritten ==
    ASSUME NEW S, NEW t \in Seq(S), NEW u, DOMAIN u = DOMAIN t,
           u = [i \in DOMAIN t |-> u[i]], \A i \in DOMAIN t : u[i] \in S
    PROVE  u \in Seq(S) /\ Len(u) = Len(t)
<1>1. DOMAIN t = 1..Len(t) /\ Len(t) \in Nat
  OBVIOUS
<1>2. u \in [1..Len(t) -> S]
  BY <1>1
<1> QED BY <1>1, <1>2

(* What ngx_spawn_process() does to the table and to the kernel's children. *)
LEMMA SpawnEffect ==
    ASSUME TypeOK, NEW e \in Entries, e.used, Spawn(e)
    PROVE  \/ UNCHANGED <<table, kid>>
           \/ \E s \in Slots :
                /\ s <= Len(table) => ~table[s].used
                /\ table' \in Seq(Entries) /\ Len(table') <= MaxProcs
                /\ DOMAIN table' = DOMAIN table \cup {s}
                /\ \A i \in DOMAIN table' : table'[i] = IF i = s THEN e ELSE table[i]
                /\ kid' = [kid EXCEPT ![s] = NewKid]
<1>1. PICK s \in 1..Len(table) + 1 :
        /\ FirstVacant(s)
        /\ \/ /\ Room(s)
              /\ table' = IF s > Len(table) THEN Append(table, e) ELSE [table EXCEPT ![s] = e]
              /\ kid' = [kid EXCEPT ![s] = NewKid]
           \/ UNCHANGED <<table, kid>>
  BY DEF Spawn
<1>2. table \in Seq(Entries) /\ Len(table) \in Nat /\ Len(table) <= MaxProcs /\ MaxProcs \in Nat
      /\ DOMAIN table = 1..Len(table)
  <2>1. table \in Seq(Entries) /\ Len(table) <= MaxProcs
    BY DEF TypeOK
  <2>2. Len(table) \in Nat /\ DOMAIN table = 1..Len(table)
    BY <2>1
  <2> QED BY <2>1, <2>2, RosterType
<1>b. s \in Int /\ 1 <= s /\ s <= Len(table) + 1
  BY <1>1, <1>2
<1>3. CASE UNCHANGED <<table, kid>>
  BY <1>3
<1>4. CASE Room(s) /\ kid' = [kid EXCEPT ![s] = NewKid] /\ s > Len(table) /\ table' = Append(table, e)
  <2>1. s = Len(table) + 1 /\ s \in Slots
    BY <1>b, <1>2, <1>4 DEF Room, Slots
  <2>2. table' \in Seq(Entries) /\ Len(table') = Len(table) + 1 /\ DOMAIN table' = 1..Len(table) + 1
    BY <1>2, <1>4
  <2>3. \A i \in 1..Len(table) + 1 : table'[i] = IF i = Len(table) + 1 THEN e ELSE table[i]
    BY <1>2, <1>4
  <2>4. DOMAIN table' = DOMAIN table \cup {s}
    BY <1>2, <2>1, <2>2
  <2>5. Len(table') <= MaxProcs
    BY <1>4, <2>1, <2>2 DEF Room
  <2>6. \A i \in DOMAIN table' : table'[i] = IF i = s THEN e ELSE table[i]
    BY <2>1, <2>2, <2>3
  <2>7. ~(s <= Len(table))
    BY <1>2, <2>1
  <2> QED BY <1>4, <2>1, <2>2, <2>4, <2>5, <2>6, <2>7
<1>5. CASE Room(s) /\ kid' = [kid EXCEPT ![s] = NewKid] /\ ~(s > Len(table)) /\ table' = [table EXCEPT ![s] = e]
  <2>1. s \in DOMAIN table /\ s \in Slots
    BY <1>1, <1>2, <1>5 DEF Room, Slots
  <2>2. table' \in Seq(Entries) /\ Len(table') = Len(table) /\ DOMAIN table' = DOMAIN table
    BY <1>2, <1>5, <2>1
  <2>3. \A i \in DOMAIN table : table'[i] = IF i = s THEN e ELSE table[i]
    BY <1>5
  <2>4. ~table[s].used
    BY <1>1, <1>2, <1>5 DEF FirstVacant
  <2> QED BY <1>2, <1>5, <2>1, <2>2, <2>3, <2>4, ZenonT(60)
<1> QED BY <1>1, <1>3, <1>4, <1>5

(* What ngx_signal_worker_processes() does to them. *)
LEMMA TellEffect ==
    ASSUME TypeOK, NEW cmd \in {"quit", "term", "kill"}, NEW base, Tell(cmd, base)
    PROVE  /\ table' \in Seq(Entries) /\ Len(table') = Len(table) /\ DOMAIN table' = DOMAIN table
           /\ \A i \in DOMAIN table :
                /\ table'[i].used = table[i].used /\ table'[i].role = table[i].role
                /\ ~Told(table[i], cmd) => /\ table'[i].exiting = table[i].exiting
                                           /\ table'[i].exited = table[i].exited
                                           /\ table'[i].just = FALSE
                /\ Told(table[i], cmd) => /\ table'[i].just = table[i].just
                                          /\ table'[i].exiting = ~Missing(i)
                                          /\ table'[i].exited = (table[i].exited \/ Missing(i))
           /\ kid' \in [Slots -> Kids]
           /\ \A i \in Slots :
                /\ kid'[i].state = kid[i].state /\ kid'[i].gen = kid[i].gen
                /\ kid'[i].told = IF i \in DOMAIN table /\ Told(table[i], cmd) /\ kid[i].state = "up"
                                  THEN kid[i].told \cup {cmd} ELSE kid[i].told
           /\ base \subseteq flags' /\ flags' \subseteq base \cup {"reap"}
<1>1. \A i \in DOMAIN table : table[i] \in Entries
  BY TableType DEF TypeOK
<1>2. table' = [i \in DOMAIN table |->
          IF ~Told(table[i], cmd) THEN Seen(table[i])
          ELSE IF Missing(i) THEN [table[i] EXCEPT !.exited = TRUE, !.exiting = FALSE]
          ELSE [table[i] EXCEPT !.exiting = TRUE]]
  BY DEF Tell
<1>3. \A i \in DOMAIN table : table'[i] \in Entries
  <2> TAKE i \in DOMAIN table
  <2>1. table'[i] = IF ~Told(table[i], cmd) THEN Seen(table[i])
          ELSE IF Missing(i) THEN [table[i] EXCEPT !.exited = TRUE, !.exiting = FALSE]
          ELSE [table[i] EXCEPT !.exiting = TRUE]
    BY <1>2
  <2>2. Seen(table[i]) \in Entries /\ [table[i] EXCEPT !.exited = TRUE, !.exiting = FALSE] \in Entries
        /\ [table[i] EXCEPT !.exiting = TRUE] \in Entries
    BY <1>1 DEF Seen, Entries
  <2> QED BY <2>1, <2>2
<1>4. DOMAIN table' = DOMAIN table /\ table' = [i \in DOMAIN table |-> table'[i]]
  BY <1>2
<1>5. table' \in Seq(Entries) /\ Len(table') = Len(table)
  BY <1>3, <1>4, Rewritten DEF TypeOK
<1>6. \A i \in DOMAIN table :
                /\ table'[i].used = table[i].used /\ table'[i].role = table[i].role
                /\ ~Told(table[i], cmd) => /\ table'[i].exiting = table[i].exiting
                                           /\ table'[i].exited = table[i].exited
                                           /\ table'[i].just = FALSE
                /\ Told(table[i], cmd) => /\ table'[i].just = table[i].just
                                          /\ table'[i].exiting = ~Missing(i)
                                          /\ table'[i].exited = (table[i].exited \/ Missing(i))
  <2> TAKE i \in DOMAIN table
  <2>1. table[i] \in Entries
    BY <1>1
  <2>2. CASE ~Told(table[i], cmd)
    BY <1>2, <2>1, <2>2 DEF Seen, Entries
  <2>3. CASE Told(table[i], cmd) /\ Missing(i)
    BY <1>2, <2>1, <2>3 DEF Entries
  <2>4. CASE Told(table[i], cmd) /\ ~Missing(i)
    BY <1>2, <2>1, <2>4 DEF Entries
  <2> QED BY <2>2, <2>3, <2>4
<1>7. kid' = [i \in Slots |->
          IF i \in DOMAIN table /\ Told(table[i], cmd) /\ kid[i].state = "up"
          THEN [kid[i] EXCEPT !.told = @ \cup {cmd}] ELSE kid[i]]
  BY DEF Tell
<1>8. ASSUME NEW i \in Slots
      PROVE  /\ kid'[i] \in Kids
             /\ kid'[i].state = kid[i].state /\ kid'[i].gen = kid[i].gen
             /\ kid'[i].told = IF i \in DOMAIN table /\ Told(table[i], cmd) /\ kid[i].state = "up"
                               THEN kid[i].told \cup {cmd} ELSE kid[i].told
  <2>1. kid[i] \in Kids
    BY DEF TypeOK
  <2>2. CASE i \in DOMAIN table /\ Told(table[i], cmd) /\ kid[i].state = "up"
    BY <1>7, <2>1, <2>2 DEF Kids
  <2>3. CASE ~(i \in DOMAIN table /\ Told(table[i], cmd) /\ kid[i].state = "up")
    BY <1>7, <2>1, <2>3
  <2> QED BY <2>2, <2>3
<1>9. kid' \in [Slots -> Kids]
  BY <1>7, <1>8
<1>10. base \subseteq flags' /\ flags' \subseteq base \cup {"reap"}
  BY DEF Tell
<1> QED BY <1>4, <1>5, <1>6, <1>8, <1>9, <1>10

(* What the handlers of the pending signals do to them. *)
LEMMA CollectEffect ==
    ASSUME TypeOK, CollectAll
    PROVE  /\ table' \in Seq(Entries) /\ Len(table') = Len(table) /\ DOMAIN table' = DOMAIN table
           /\ \A i \in DOMAIN table :
                /\ table'[i].used = table[i].used /\ table'[i].role = table[i].role
                /\ table'[i].exiting = table[i].exiting /\ table'[i].just = table[i].just
                /\ table'[i].exited = (table[i].exited \/ Zombie(i))
           /\ kid' \in [Slots -> Kids]
           /\ \A i \in Slots : kid'[i] = IF Zombie(i) THEN NoKid ELSE kid[i]
<1>1. \A i \in DOMAIN table : table[i] \in Entries
  BY TableType DEF TypeOK
<1>2. table' = [i \in DOMAIN table |-> [table[i] EXCEPT !.exited = @ \/ Zombie(i),
                                                      !.respawn = @ /\ kid[i].state # "fatal"]]
  BY DEF CollectAll
<1>3. \A i \in DOMAIN table :
                /\ table'[i] \in Entries
                /\ table'[i].used = table[i].used /\ table'[i].role = table[i].role
                /\ table'[i].exiting = table[i].exiting /\ table'[i].just = table[i].just
                /\ table'[i].exited = (table[i].exited \/ Zombie(i))
  <2> TAKE i \in DOMAIN table
  <2>1. table'[i] = [table[i] EXCEPT !.exited = @ \/ Zombie(i),
                                     !.respawn = @ /\ kid[i].state # "fatal"]
    BY <1>2
  <2>2. table[i] \in Entries
    BY <1>1
  <2> QED BY <2>1, <2>2 DEF Entries, Zombie
<1>4. DOMAIN table' = DOMAIN table /\ table' = [i \in DOMAIN table |-> table'[i]]
  BY <1>2
<1>5. table' \in Seq(Entries) /\ Len(table') = Len(table)
  BY <1>3, <1>4, Rewritten DEF TypeOK
<1>6. kid' = [i \in Slots |-> IF Zombie(i) THEN NoKid ELSE kid[i]]
  BY DEF CollectAll
<1>7. kid' \in [Slots -> Kids]
  <2>1. NoKid \in Kids
    BY DEF NoKid, Kids, TypeOK
  <2> QED BY <1>6, <2>1 DEF TypeOK
<1> QED BY <1>3, <1>4, <1>5, <1>6, <1>7

(* What ngx_reap_children() does to them. *)
LEMMA ReapEffect ==
    ASSUME TypeOK, NEW failed, ReapChildren(failed)
    PROVE  \E gone, again \in SUBSET DOMAIN table :
           /\ \A i \in DOMAIN table : i \in gone \cup again => table[i].used /\ table[i].exited
           /\ \A i \in again : Respawns(table[i])
           /\ \A i \in DOMAIN table : Respawns(table[i]) => i \notin gone
           /\ table' \in Seq(Entries) /\ Len(table') <= Len(table)
           /\ DOMAIN table' \subseteq DOMAIN table
           /\ \A i \in DOMAIN table : i \notin gone => i \in DOMAIN table'
           /\ \A i \in DOMAIN table' :
                table'[i] = IF i \in gone THEN Vacant
                            ELSE IF i \in again THEN [table[i] EXCEPT !.exited = FALSE]
                            ELSE table[i]
           /\ kid' \in [Slots -> Kids]
           /\ \A i \in Slots : kid'[i] = IF i \in again THEN NewKid ELSE kid[i]
           /\ live' = (again # {} \/ \E i \in DOMAIN table : CountsAlive(table[i]))
           /\ \A i \in DOMAIN table : table[i].used /\ table[i].exited => i \in gone \/ Respawns(table[i])
           /\ newbin' \in {"none", newbin}
           /\ flags' \subseteq flags \cup {"restart"}
           /\ flags \cap {"terminate", "quit"} = flags' \cap {"terminate", "quit"}
<1> DEFINE exited == {i \in DOMAIN table : table[i].used /\ table[i].exited}
           all == {i \in exited : Respawns(table[i])}
           gone == exited \ all
           again == all \ failed
           t == [i \in DOMAIN table |->
                    IF i \in gone THEN Vacant
                    ELSE IF i \in again THEN [table[i] EXCEPT !.exited = FALSE]
                    ELSE table[i]]
<1>1. /\ table' = Shrink(t, gone)
      /\ kid' = [i \in Slots |-> IF i \in again THEN NewKid ELSE kid[i]]
      /\ live' = (again # {} \/ \E i \in DOMAIN table : CountsAlive(table[i]))
  BY DEF ReapChildren
<1>2. /\ newbin' \in {"none", newbin} /\ flags' \subseteq flags \cup {"restart"}
      /\ flags \cap {"terminate", "quit"} = flags' \cap {"terminate", "quit"}
  BY DEF ReapChildren
<1>3. /\ table \in Seq(Entries) /\ DOMAIN table = 1..Len(table) /\ Len(table) \in Nat
      /\ \A i \in DOMAIN table : table[i] \in Entries
  BY TableType DEF TypeOK
<1>4. /\ gone \subseteq DOMAIN table /\ again \subseteq DOMAIN table
      /\ \A i \in DOMAIN table : i \in gone \cup again => table[i].used /\ table[i].exited
      /\ \A i \in again : Respawns(table[i])
      /\ \A i \in DOMAIN table : Respawns(table[i]) => i \notin gone
      /\ \A i \in DOMAIN table : table[i].used /\ table[i].exited => i \in gone \/ Respawns(table[i])
  OBVIOUS
<1> HIDE DEF gone, again
<1>5. t \in Seq(Entries) /\ Len(t) = Len(table)
  <2>1. Vacant \in Entries
    BY RosterType DEF Vacant, Entry, Entries
  <2>2. \A i \in DOMAIN table : t[i] \in Entries
    <3> TAKE i \in DOMAIN table
    <3>1. [table[i] EXCEPT !.exited = FALSE] \in Entries
      BY <1>3 DEF Entries
    <3> QED BY <1>3, <2>1, <3>1
  <2>3. DOMAIN t = DOMAIN table /\ t = [i \in DOMAIN table |-> t[i]]
    OBVIOUS
  <2> HIDE DEF t
  <2> QED BY <1>3, <2>2, <2>3, Rewritten
<1>6. \A i \in DOMAIN table :
         t[i] = IF i \in gone THEN Vacant
                ELSE IF i \in again THEN [table[i] EXCEPT !.exited = FALSE] ELSE table[i]
  OBVIOUS
<1> HIDE DEF t
<1>7. /\ table' \in Seq(Entries) /\ Len(table') <= Len(table) /\ DOMAIN table' \subseteq DOMAIN table
      /\ \A i \in DOMAIN table : i \notin gone => i \in DOMAIN table'
      /\ \A i \in DOMAIN table' : table'[i] = t[i]
  <2>1. CASE Len(t) \in gone
    <3>1. table' = SubSeq(t, 1, Len(t) - 1) /\ Len(t) >= 1 /\ Len(t) \in Nat
      BY <1>1, <1>3, <1>4, <1>5, <2>1 DEF Shrink
    <3>2. table' \in Seq(Entries) /\ Len(table') = Len(t) - 1 /\ DOMAIN table' = 1..Len(t) - 1
          /\ \A i \in 1..Len(t) - 1 : table'[i] = t[i]
      BY <1>5, <3>1
    <3> QED BY <1>3, <1>5, <2>1, <3>1, <3>2
  <2>2. CASE Len(t) \notin gone
    <3>1. table' = t
      BY <1>1, <2>2 DEF Shrink
    <3>2. DOMAIN t = 1..Len(t)
      BY <1>5
    <3> QED BY <1>3, <1>5, <3>1, <3>2
  <2> QED BY <2>1, <2>2
<1>8. kid' \in [Slots -> Kids] /\ \A i \in Slots : kid'[i] = IF i \in again THEN NewKid ELSE kid[i]
  <2>1. NewKid \in Kids
    BY DEF NewKid, Kids, TypeOK
  <2> QED BY <1>1, <2>1 DEF TypeOK
<1>9. DOMAIN table' \subseteq DOMAIN table /\ \A i \in DOMAIN table' :
                table'[i] = IF i \in gone THEN Vacant
                            ELSE IF i \in again THEN [table[i] EXCEPT !.exited = FALSE]
                            ELSE table[i]
  BY <1>6, <1>7
<1> QED BY <1>1, <1>2, <1>4, <1>7, <1>8, <1>9

-----------------------------------------------------------------------------
(* Types *)

AllFlags == {FlagOf[s] : s \in DOMAIN FlagOf} \cup {"restart", "noaccepting"}

Control == /\ live \in BOOLEAN /\ delay \in 0..KillAfter + 1
           /\ sigio \in 0..WorkerProcesses + CacheProcesses
           /\ pend \subseteq DOMAIN FlagOf
           /\ flags \subseteq AllFlags
           /\ newbin \in {"none", "pid", "invalid"}
           /\ todo \in Seq(Roles)
           /\ stage \in {"top", "suspend", "reap", "decide", "spawn", "handover",
                         "restart", "binary", "noaccept", "gone"}
           /\ next \in {"top", "handover", "restart", "binary", "noaccept"}
           /\ unseen \in BOOLEAN

Children == /\ table \in Seq(Entries) /\ Len(table) <= MaxProcs
            /\ kid \in [Slots -> Kids] /\ cycle \in Nat

LEMMA TypeParts == TypeOK <=> Control /\ Children
BY DEF TypeOK, Control, Children, AllFlags

LEMMA FlagNames ==
    /\ DOMAIN FlagOf = {"TERM", "QUIT", "HUP", "WINCH", "USR2", "ALRM", "CHLD"}
    /\ AllFlags = {"terminate", "quit", "reconfigure", "noaccept", "change_binary", "sigalrm", "reap",
                    "restart", "noaccepting"}
    /\ \A s \in DOMAIN FlagOf : FlagOf[s] \in AllFlags
<1>1. DOMAIN FlagOf = {"TERM", "QUIT", "HUP", "WINCH", "USR2", "ALRM", "CHLD"}
  BY DEF FlagOf
<1>2. /\ FlagOf["TERM"] = "terminate" /\ FlagOf["QUIT"] = "quit" /\ FlagOf["HUP"] = "reconfigure"
      /\ FlagOf["WINCH"] = "noaccept" /\ FlagOf["USR2"] = "change_binary"
      /\ FlagOf["ALRM"] = "sigalrm" /\ FlagOf["CHLD"] = "reap"
  BY DEF FlagOf
<1> QED BY <1>1, <1>2 DEF AllFlags

(* What a step does to the table and the children.                          *)
LEMMA Effects ==
    ASSUME TypeOK, [Next]_vars
    PROVE  \/ UNCHANGED <<table, kid>>
           \/ \E e \in Entries : e.used /\ ~e.exiting /\ ~e.exited /\ Spawn(e)
           \/ CollectAll
           \/ \E failed : ReapChildren(failed)
           \/ \E cmd \in {"quit", "term", "kill"} : \E base : Tell(cmd, base)
           \/ \E i \in Slots, how \in {"zombie", "fatal"} :
                /\ kid[i].state = "up" /\ table' = table
                /\ kid' = [kid EXCEPT ![i] = [@ EXCEPT !.state = how, !.told = {}]]
<1>1. CASE StartProcess
  <2>1. Head(todo) \in Roles
    BY <1>1 DEF StartProcess, TypeOK
  <2> DEFINE e == Entry(Head(todo), Stays(Head(todo)), next = "handover")
  <2>2. e \in Entries /\ e.used /\ ~e.exiting /\ ~e.exited
    BY <2>1 DEF Entry, Entries, Stays
  <2>3. Spawn(e)
    BY <1>1 DEF StartProcess
  <2> QED BY <2>2, <2>3
<1>2. CASE ChangeBinary
  <2> DEFINE e == Entry(Binary, FALSE, FALSE)
  <2>1. e \in Entries /\ e.used /\ ~e.exiting /\ ~e.exited
    BY DEF Entry, Entries
  <2>2. Spawn(e)
    BY <1>2 DEF ChangeBinary
  <2> QED BY <2>1, <2>2
<1>3. CASE Wake
  BY <1>3 DEF Wake
<1>4. CASE Reap
  BY <1>4 DEF Reap
<1>5. CASE Quit \/ Handover \/ NoAccept
  BY <1>5 DEF Quit, Handover, NoAccept
<1>6. CASE Terminate
  <2>1. UNCHANGED <<table, kid>> \/ Tell(KillSignal, flags)
    <3>1. CASE sigio > 0
      BY <1>6, <3>1 DEF Terminate
    <3>2. CASE ~(sigio > 0)
      BY <1>6, <3>2 DEF Terminate
    <3> QED BY <3>1, <3>2
  <2>2. KillSignal \in {"quit", "term", "kill"}
    BY DEF KillSignal
  <2> QED BY <2>1, <2>2
<1>7. CASE Suspend \/ MasterExit \/ Rollback \/ Reconfigure \/ NoReload \/ Restart \/ Alarm
            \/ (\E s \in Signals : Send(s)) \/ UNCHANGED vars
  BY <1>7 DEF Suspend, MasterExit, Rollback, Reconfigure, NoReload, Restart, Alarm, Send, vars
<1>8. ASSUME NEW i \in Slots, Kid(i)
      PROVE  \E how \in {"zombie", "fatal"} :
                /\ kid[i].state = "up" /\ table' = table
                /\ kid' = [kid EXCEPT ![i] = [@ EXCEPT !.state = how, !.told = {}]]
  BY <1>8 DEF Kid, Quits, Terminates, Killed, Finishes, Crashes, Fails, Dies
<1> QED BY <1>1, <1>2, <1>3, <1>4, <1>5, <1>6, <1>7, <1>8 DEF Next, Master

LEMMA ControlStep == TypeOK /\ [Next]_vars => Control' /\ cycle' \in Nat /\ cycle' >= cycle
<1> SUFFICES ASSUME TypeOK, [Next]_vars PROVE Control' /\ cycle' \in Nat /\ cycle' >= cycle
  OBVIOUS
<1>a. Control /\ cycle \in Nat
  BY TypeParts DEF Children
<1>b. /\ KillAfter \in Nat /\ WorkerProcesses + CacheProcesses \in Nat /\ Roster \in Seq(Roles)
      /\ \A f : Onward(f) \in {"top", "restart", "binary", "noaccept"}
  BY RosterType DEF Onward
<1>c. ASSUME NEW cmd, NEW base, Tell(cmd, base), base \subseteq AllFlags
      PROVE  flags' \subseteq AllFlags
  BY <1>c, FlagNames DEF Tell
<1> HIDE DEF FlagOf
<1>1. CASE StartProcess
  <2>1. Tail(todo) \in Seq(Roles)
    BY <1>1, <1>a DEF StartProcess, Control
  <2> QED BY <1>1, <1>a, <2>1 DEF StartProcess, Control, loop
<1>2. CASE ChangeBinary
  BY <1>2, <1>a, <1>b DEF ChangeBinary, Control, loop, Clear
<1>3. CASE Wake
  <2>1. flags' \subseteq AllFlags
    BY <1>3, <1>a, FlagNames DEF Wake, Control
  <2> QED BY <1>3, <1>a, <2>1 DEF Wake, Control, loop, sys
<1>4. CASE Reap
  <2>1. PICK failed : ReapChildren(failed)
    BY <1>4 DEF Reap
  <2>2. live' \in BOOLEAN /\ newbin' \in {"none", newbin} /\ flags' \subseteq flags \cup {"restart"}
    BY <2>1, ReapEffect
  <2>3. /\ unseen' = FALSE /\ stage' = "decide"
        /\ UNCHANGED <<pend, delay, sigio, cycle, todo, next>>
    BY <1>4 DEF Reap
  <2>4. flags' \subseteq AllFlags
    BY <1>a, <2>2, FlagNames DEF Control
  <2>5. newbin' \in {"none", "pid", "invalid"}
    BY <1>a, <2>2 DEF Control
  <2>6. live' \in BOOLEAN /\ unseen' \in BOOLEAN
    BY <2>2, <2>3
  <2>7. Control'
    BY <1>a, <2>3, <2>4, <2>5, <2>6 DEF Control
  <2> QED BY <1>a, <2>3, <2>7
<1>5. CASE Quit
  <2>1. flags' \subseteq AllFlags
    BY <1>5, <1>a, <1>c DEF Quit, Control
  <2> QED BY <1>5, <1>a, <2>1 DEF Quit, Control, loop, sys
<1>6. CASE Handover
  <2>1. flags' \subseteq AllFlags
    BY <1>6, <1>a, <1>c DEF Handover, Control
  <2>2. stage' = Onward(flags') /\ live' = TRUE /\ unseen' = FALSE
        /\ UNCHANGED <<pend, newbin, delay, sigio, cycle, todo, next>>
    BY <1>6 DEF Handover
  <2>3. stage' \in {"top", "restart", "binary", "noaccept"}
    BY <1>b, <2>2
  <2>4. live' \in BOOLEAN /\ unseen' \in BOOLEAN
    BY <2>2
  <2>5. Control'
    BY <1>a, <2>1, <2>2, <2>3, <2>4 DEF Control
  <2> QED BY <1>a, <2>2, <2>5
<1>7. CASE NoAccept
  <2>1. flags' \subseteq AllFlags
    <3>1. (flags \ {"noaccept"}) \cup {"noaccepting"} \subseteq AllFlags
      BY <1>a, FlagNames DEF Control
    <3> QED BY <1>7, <1>c, <3>1 DEF NoAccept
  <2> QED BY <1>7, <1>a, <2>1 DEF NoAccept, Control, loop, sys
<1>8. CASE Terminate
  <2>1. flags' \subseteq AllFlags
    <3>1. flags' = flags \/ Tell(KillSignal, flags)
      <4>1. CASE sigio > 0
        BY <1>8, <4>1 DEF Terminate
      <4>2. CASE ~(sigio > 0)
        BY <1>8, <4>2 DEF Terminate
      <4> QED BY <4>1, <4>2
    <3> QED BY <1>a, <1>c, <3>1 DEF Control
  <2>2. delay' \in 0..KillAfter + 1 /\ sigio' \in 0..WorkerProcesses + CacheProcesses
    <3>1. delay' \in 0..KillAfter + 1
      BY <1>8, <1>a, <1>b DEF Terminate, Control
    <3>2. sigio' = WorkerProcesses + CacheProcesses \/ (sigio > 0 /\ sigio' = sigio - 1)
      BY <1>8 DEF Terminate
    <3>3. sigio \in 0..WorkerProcesses + CacheProcesses
      BY <1>a DEF Control
    <3> QED BY <1>b, <3>1, <3>2, <3>3
  <2> QED BY <1>8, <1>a, <2>1, <2>2 DEF Terminate, Control, sys
<1>9. CASE Suspend
  <2>1. delay' \in 0..KillAfter + 1 /\ sigio' \in 0..WorkerProcesses + CacheProcesses
        /\ flags' \subseteq flags
    <3>1. delay \in 0..KillAfter + 1 /\ sigio \in 0..WorkerProcesses + CacheProcesses
      BY <1>a DEF Control
    <3> QED BY <1>9, <1>b, <3>1 DEF Suspend, Clear
  <2> QED BY <1>9, <1>a, <2>1 DEF Suspend, Control, sys
<1>10. CASE MasterExit \/ NoReload
  BY <1>10, <1>a, <1>b DEF MasterExit, NoReload, Control, loop, sys
<1>11. CASE Rollback
  BY <1>11, <1>a, <1>b DEF Rollback, StartRoster, Control, loop
<1>12. CASE Reconfigure
  BY <1>12, <1>a, <1>b DEF Reconfigure, StartRoster, Control, loop, Clear, sys
<1>13. CASE Restart
  <2>1. /\ live' = TRUE /\ unseen' = FALSE /\ flags' \subseteq flags
        /\ stage' = "spawn" /\ todo' = Roster /\ next' = Onward(flags \ {"restart"})
        /\ UNCHANGED <<pend, newbin, delay, sigio, cycle>>
    BY <1>13 DEF Restart, StartRoster, Clear
  <2>2. next' \in {"top", "restart", "binary", "noaccept"}
    BY <1>b, <2>1
  <2>3. live' \in BOOLEAN /\ unseen' \in BOOLEAN
    BY <2>1
  <2>4. Control'
    BY <1>a, <1>b, <2>1, <2>2, <2>3 DEF Control
  <2> QED BY <1>a, <2>1, <2>4
<1>14. ASSUME NEW i \in Slots, Kid(i) PROVE Control' /\ cycle' \in Nat /\ cycle' >= cycle
  <2>1. pend' = pend \cup {"CHLD"} /\ UNCHANGED <<flags, newbin, loop, cycle, stage, todo, next, unseen>>
    BY <1>14 DEF Kid, Quits, Terminates, Killed, Finishes, Crashes, Fails, Dies
  <2> QED BY <1>a, <2>1, FlagNames DEF Control, loop
<1>15. CASE Alarm \/ \E s \in Signals : Send(s)
  <2>1. pend' \subseteq pend \cup {"ALRM"} \cup Signals
    BY <1>15 DEF Alarm, Send
  <2>2. Signals \subseteq DOMAIN FlagOf
    BY CycleAssumption, FlagNames DEF CycleAssumption
  <2>3. UNCHANGED <<flags, newbin, loop, cycle, stage, todo, next, unseen>>
    BY <1>15 DEF Alarm, Send, sys
  <2> QED BY <1>a, <2>1, <2>2, <2>3, FlagNames DEF Control, loop
<1>16. CASE UNCHANGED vars
  BY <1>16, <1>a DEF vars, Control, loop, sys
<1> QED BY <1>1, <1>2, <1>3, <1>4, <1>5, <1>6, <1>7, <1>8, <1>9, <1>10, <1>11, <1>12, <1>13, <1>14,
           <1>15, <1>16 DEF Next, Master

LEMMA TypeStep == TypeOK /\ [Next]_vars => TypeOK'
<1> SUFFICES ASSUME TypeOK, [Next]_vars PROVE TypeOK'
  OBVIOUS
<1>1. Control' /\ cycle' \in Nat /\ cycle' >= cycle
  BY ControlStep
<1>2. table \in Seq(Entries) /\ Len(table) <= MaxProcs /\ kid \in [Slots -> Kids] /\ cycle \in Nat
  BY DEF TypeOK
<1>3. Kids \subseteq Kids'
  BY <1>1, <1>2 DEF Kids
<1>4. table' \in Seq(Entries) /\ Len(table') <= MaxProcs /\ kid' \in [Slots -> Kids]
  <2>1. CASE UNCHANGED <<table, kid>>
    BY <1>2, <2>1
  <2>2. ASSUME NEW e \in Entries, e.used, Spawn(e)
        PROVE  table' \in Seq(Entries) /\ Len(table') <= MaxProcs /\ kid' \in [Slots -> Kids]
    <3>1. CASE UNCHANGED <<table, kid>>
      BY <1>2, <3>1
    <3>2. ASSUME NEW s \in Slots, table' \in Seq(Entries) /\ Len(table') <= MaxProcs,
                 kid' = [kid EXCEPT ![s] = NewKid]
          PROVE  table' \in Seq(Entries) /\ Len(table') <= MaxProcs /\ kid' \in [Slots -> Kids]
      <4>1. NewKid \in Kids
        BY <1>2 DEF NewKid, Kids
      <4> QED BY <1>2, <3>2, <4>1
    <3> QED BY <2>2, <3>1, <3>2, SpawnEffect
  <2>3. CASE CollectAll
    BY <1>2, <2>3, CollectEffect
  <2>4. ASSUME NEW failed, ReapChildren(failed)
        PROVE  table' \in Seq(Entries) /\ Len(table') <= MaxProcs /\ kid' \in [Slots -> Kids]
    <3>1. table' \in Seq(Entries) /\ Len(table') <= Len(table) /\ kid' \in [Slots -> Kids]
      BY <2>4, ReapEffect
    <3>2. Len(table') \in Nat /\ Len(table) \in Nat /\ MaxProcs \in Nat
      BY <1>2, <3>1, TableType, RosterType
    <3> QED BY <1>2, <3>1, <3>2
  <2>5. ASSUME NEW cmd \in {"quit", "term", "kill"}, NEW base, Tell(cmd, base)
        PROVE  table' \in Seq(Entries) /\ Len(table') <= MaxProcs /\ kid' \in [Slots -> Kids]
    BY <1>2, <2>5, TellEffect
  <2>6. ASSUME NEW i \in Slots, NEW how \in {"zombie", "fatal"}, table' = table,
               kid' = [kid EXCEPT ![i] = [@ EXCEPT !.state = how, !.told = {}]]
        PROVE  table' \in Seq(Entries) /\ Len(table') <= MaxProcs /\ kid' \in [Slots -> Kids]
    <3>1. [kid[i] EXCEPT !.state = how, !.told = {}] \in Kids
      BY <1>2 DEF Kids
    <3>2. kid' = [kid EXCEPT ![i] = [kid[i] EXCEPT !.state = how, !.told = {}]]
      BY <2>6
    <3> QED BY <1>2, <2>6, <3>1, <3>2
  <2> QED BY <2>1, <2>2, <2>3, <2>4, <2>5, <2>6, Effects
<1>5. Entries' = Entries /\ Slots' = Slots
  OBVIOUS
<1>6. kid' \in [Slots -> Kids']
  BY <1>3, <1>4
<1>7. Children'
  BY <1>1, <1>4, <1>6 DEF Children
<1> QED BY <1>1, <1>7 DEF TypeOK, Control, Children, AllFlags

-----------------------------------------------------------------------------
(* The table and the children *)

LEMMA EntryStep == TypeOK /\ EveryKidHasItsEntry /\ [Next]_vars => EveryKidHasItsEntry'
<1> SUFFICES ASSUME TypeOK, EveryKidHasItsEntry, [Next]_vars, NEW i \in Slots, kid'[i].state # "none"
             PROVE  i \in DOMAIN table' /\ table'[i].used /\ ~table'[i].exited
  BY DEF EveryKidHasItsEntry
<1>a. kid[i].state # "none" => i \in DOMAIN table /\ table[i].used /\ ~table[i].exited
  BY DEF EveryKidHasItsEntry
<1>b. kid \in [Slots -> Kids]
  BY DEF TypeOK
<1>1. CASE UNCHANGED <<table, kid>>
  BY <1>a, <1>1
<1>2. ASSUME NEW e \in Entries, e.used /\ ~e.exited, Spawn(e)
      PROVE  i \in DOMAIN table' /\ table'[i].used /\ ~table'[i].exited
  <2>1. ASSUME NEW s \in Slots, DOMAIN table' = DOMAIN table \cup {s},
               \A j \in DOMAIN table' : table'[j] = IF j = s THEN e ELSE table[j],
               kid' = [kid EXCEPT ![s] = NewKid]
        PROVE  i \in DOMAIN table' /\ table'[i].used /\ ~table'[i].exited
    BY <1>a, <1>b, <1>2, <2>1
  <2> QED BY <1>1, <1>2, <2>1, SpawnEffect
<1>3. CASE CollectAll
  <2>1. ~Zombie(i) /\ kid'[i] = kid[i]
    BY <1>3, CollectEffect DEF NoKid
  <2> QED BY <1>3, <1>a, <2>1, CollectEffect
<1>4. ASSUME NEW failed, ReapChildren(failed)
      PROVE  i \in DOMAIN table' /\ table'[i].used /\ ~table'[i].exited
  <2>1. PICK gone \in SUBSET DOMAIN table, again \in SUBSET DOMAIN table :
           /\ \A j \in DOMAIN table : j \in gone \cup again => table[j].used /\ table[j].exited
           /\ \A j \in again : Respawns(table[j])
           /\ \A j \in DOMAIN table : Respawns(table[j]) => j \notin gone
           /\ \A j \in DOMAIN table : j \notin gone => j \in DOMAIN table'
           /\ \A j \in DOMAIN table' :
                table'[j] = IF j \in gone THEN Vacant
                            ELSE IF j \in again THEN [table[j] EXCEPT !.exited = FALSE]
                            ELSE table[j]
           /\ \A j \in Slots : kid'[j] = IF j \in again THEN NewKid ELSE kid[j]
    BY <1>4, ReapEffect
  <2>2. CASE i \in again
    <3>1. i \in DOMAIN table /\ i \notin gone /\ table[i].used /\ table[i] \in Entries
      BY <2>1, <2>2, TableType DEF Respawns, TypeOK
    <3>2. table'[i] = [table[i] EXCEPT !.exited = FALSE] /\ i \in DOMAIN table'
      BY <2>1, <2>2, <3>1
    <3> QED BY <3>1, <3>2 DEF Entries
  <2>3. CASE i \notin again
    <3>1. i \in DOMAIN table /\ table[i].used /\ ~table[i].exited
      BY <1>a, <2>1, <2>3
    <3>2. i \notin gone /\ i \in DOMAIN table'
      BY <2>1, <3>1
    <3> QED BY <2>1, <2>3, <3>1, <3>2
  <2> QED BY <2>2, <2>3
<1>5. ASSUME NEW cmd \in {"quit", "term", "kill"}, NEW base, Tell(cmd, base)
      PROVE  i \in DOMAIN table' /\ table'[i].used /\ ~table'[i].exited
  <2>1. kid[i].state # "none" /\ ~Missing(i)
    BY <1>5, TellEffect DEF Missing
  <2>2. i \in DOMAIN table
    BY <1>a, <2>1
  <2>3. DOMAIN table' = DOMAIN table /\ table'[i].used = table[i].used
        /\ (~Told(table[i], cmd) => table'[i].exited = table[i].exited)
        /\ (Told(table[i], cmd) => table'[i].exited = (table[i].exited \/ Missing(i)))
    BY <1>5, <2>2, TellEffect
  <2> QED BY <1>a, <2>1, <2>2, <2>3
<1>6. ASSUME NEW j \in Slots, NEW how \in {"zombie", "fatal"}, kid[j].state = "up", table' = table,
             kid' = [kid EXCEPT ![j] = [@ EXCEPT !.state = how, !.told = {}]]
      PROVE  i \in DOMAIN table' /\ table'[i].used /\ ~table'[i].exited
  BY <1>a, <1>b, <1>6
<1> QED BY <1>1, <1>2, <1>3, <1>4, <1>5, <1>6, Effects

LEMMA ToldStep == /\ TypeOK /\ EveryKidHasItsEntry /\ ExitingWasTold /\ [Next]_vars
                  => ExitingWasTold'
<1> SUFFICES ASSUME TypeOK, EveryKidHasItsEntry, ExitingWasTold, [Next]_vars,
                    NEW i \in DOMAIN table', Mine(i)', table'[i].exiting
             PROVE  kid'[i].told # {}
  BY DEF ExitingWasTold
<1>a. /\ i \in Slots /\ kid'[i].state = "up" /\ table'[i].role # Binary
      /\ i \in DOMAIN table /\ Mine(i) /\ table[i].exiting => kid[i].told # {}
      /\ kid[i].state # "none" => i \in DOMAIN table /\ table[i].used /\ ~table[i].exited
  <2>1. TypeOK'
    BY TypeStep
  <2>2. table' \in Seq(Entries) /\ Len(table') <= MaxProcs
    BY <2>1 DEF TypeOK, Entries, Roles
  <2>3. i \in Slots
    BY <2>2, InSlots
  <2> QED BY <2>3 DEF Mine, RoleOf, ExitingWasTold, EveryKidHasItsEntry
<1>b. kid \in [Slots -> Kids]
  BY DEF TypeOK
<1>m. ASSUME i \in DOMAIN table, kid[i].state = "up", table[i].role # Binary, table[i].exiting
      PROVE  kid[i].told # {}
  BY <1>a, <1>m DEF Mine, RoleOf
<1>1. CASE UNCHANGED <<table, kid>>
  BY <1>a, <1>m, <1>1
<1>2. ASSUME NEW e \in Entries, ~e.exiting, e.used, Spawn(e) PROVE kid'[i].told # {}
  <2>1. ASSUME NEW s \in Slots, DOMAIN table' = DOMAIN table \cup {s},
               \A j \in DOMAIN table' : table'[j] = IF j = s THEN e ELSE table[j],
               kid' = [kid EXCEPT ![s] = NewKid]
        PROVE  kid'[i].told # {}
    <3>1. i # s /\ i \in DOMAIN table /\ table'[i] = table[i] /\ kid'[i] = kid[i]
      BY <1>2, <1>a, <1>b, <2>1
    <3> QED BY <1>a, <1>m, <3>1
  <2> QED BY <1>1, <1>2, <2>1, SpawnEffect
<1>3. CASE CollectAll
  <2>1. kid'[i] = kid[i]
    BY <1>3, <1>a, CollectEffect DEF NoKid
  <2> QED BY <1>3, <1>a, <1>m, <2>1, CollectEffect
<1>4. ASSUME NEW failed, ReapChildren(failed) PROVE kid'[i].told # {}
  <2>1. PICK gone \in SUBSET DOMAIN table, again \in SUBSET DOMAIN table :
           /\ \A j \in again : Respawns(table[j])
           /\ DOMAIN table' \subseteq DOMAIN table
           /\ \A j \in DOMAIN table' :
                table'[j] = IF j \in gone THEN Vacant
                            ELSE IF j \in again THEN [table[j] EXCEPT !.exited = FALSE]
                            ELSE table[j]
           /\ \A j \in Slots : kid'[j] = IF j \in again THEN NewKid ELSE kid[j]
    BY <1>4, ReapEffect, ZenonT(60)
  <2>2. i \in DOMAIN table /\ table[i] \in Entries
    BY <2>1, TableType DEF TypeOK
  <2>3. i \notin gone
    BY <2>1 DEF Vacant, Entry
  <2>4. i \notin again
    <3>1. ASSUME i \in again PROVE FALSE
      <4>1. ~table[i].exiting
        BY <2>1, <3>1 DEF Respawns
      <4>2. table'[i].exiting = table[i].exiting
        BY <2>1, <2>2, <2>3, <3>1 DEF Entries
      <4> QED BY <4>1, <4>2
    <3> QED BY <3>1
  <2> QED BY <1>a, <1>m, <2>1, <2>2, <2>3, <2>4
<1>5. ASSUME NEW cmd \in {"quit", "term", "kill"}, NEW base, Tell(cmd, base) PROVE kid'[i].told # {}
  <2>1. i \in DOMAIN table /\ table'[i].role = table[i].role /\ kid[i].state = "up"
        /\ kid'[i].told = IF i \in DOMAIN table /\ Told(table[i], cmd) /\ kid[i].state = "up"
                          THEN kid[i].told \cup {cmd} ELSE kid[i].told
    BY <1>5, <1>a, TellEffect
  <2>2. CASE Told(table[i], cmd)
    BY <2>1, <2>2
  <2>3. CASE ~Told(table[i], cmd)
    <3>1. table'[i].exiting = table[i].exiting
      BY <1>5, <2>1, <2>3, TellEffect
    <3> QED BY <1>a, <1>m, <2>1, <2>3, <3>1
  <2> QED BY <2>2, <2>3
<1>6. ASSUME NEW j \in Slots, NEW how \in {"zombie", "fatal"}, table' = table,
             kid' = [kid EXCEPT ![j] = [@ EXCEPT !.state = how, !.told = {}]]
      PROVE  kid'[i].told # {}
  <2>1. j # i
    BY <1>a, <1>b, <1>6 DEF Kids
  <2> QED BY <1>a, <1>b, <1>m, <1>6, <2>1
<1> QED BY <1>1, <1>2, <1>3, <1>4, <1>5, <1>6, Effects

-----------------------------------------------------------------------------
(* The stages of the master *)

(* A step that starts no child of the master's own.                         *)
Steady == /\ \A i \in Slots : Mine(i)' => /\ Mine(i) /\ kid'[i].gen = kid[i].gen
                                          /\ table[i].exiting => table'[i].exiting
          /\ \A i \in DOMAIN table' : table'[i].just => i \in DOMAIN table /\ table[i].just

LEMMA MineIs ==
    ASSUME EveryKidHasItsEntry
    PROVE  \A i \in Slots : Mine(i) <=> /\ kid[i].state = "up" /\ i \in DOMAIN table
                                        /\ table[i].role # Binary
BY DEF EveryKidHasItsEntry, Mine, RoleOf

LEMMA SteadySteps ==
    ASSUME TypeOK, EveryKidHasItsEntry, EveryKidHasItsEntry',
           \/ UNCHANGED <<table, kid>>
           \/ CollectAll
           \/ Spawn(Entry(Binary, FALSE, FALSE))
           \/ \E cmd \in {"quit", "term", "kill"} : \E base : Tell(cmd, base)
           \/ \E i \in Slots, how \in {"zombie", "fatal"} :
                /\ kid[i].state = "up" /\ table' = table
                /\ kid' = [kid EXCEPT ![i] = [@ EXCEPT !.state = how, !.told = {}]]
    PROVE  Steady
<1>a. kid \in [Slots -> Kids]
  BY DEF TypeOK
<1>b. \A i \in Slots : Mine(i)' => /\ kid'[i].state = "up" /\ i \in DOMAIN table'
                                   /\ table'[i].role # Binary
  BY DEF Mine, RoleOf
<1>c. \A i \in Slots : kid[i].state = "up" /\ i \in DOMAIN table /\ table[i].role # Binary => Mine(i)
  BY DEF Mine, RoleOf
<1>1. CASE UNCHANGED <<table, kid>>
  BY <1>b, <1>c, <1>1 DEF Steady
<1>2. CASE CollectAll
  <2>1. \A i \in Slots : kid'[i].state = "up" => kid'[i] = kid[i]
    BY <1>2, CollectEffect DEF NoKid
  <2> QED BY <1>2, <1>b, <1>c, <2>1, CollectEffect DEF Steady
<1>3. CASE Spawn(Entry(Binary, FALSE, FALSE))
  <2> DEFINE e == Entry(Binary, FALSE, FALSE)
  <2>1. e \in Entries /\ e.used /\ ~e.just /\ e.role = Binary
    BY DEF Entry, Entries
  <2>2. ASSUME NEW s \in Slots, DOMAIN table' = DOMAIN table \cup {s},
               \A j \in DOMAIN table' : table'[j] = IF j = s THEN e ELSE table[j],
               kid' = [kid EXCEPT ![s] = NewKid]
        PROVE  Steady
    <3> HIDE DEF e
    <3>1. \A i \in Slots : Mine(i)' => i # s
      BY <1>b, <2>1, <2>2
    <3>2. \A i \in Slots : i # s => kid'[i] = kid[i]
      BY <1>a, <2>2
    <3> QED BY <1>b, <1>c, <2>1, <2>2, <3>1, <3>2, ZenonT(60) DEF Steady
  <2>3. Spawn(e)
    BY <1>3
  <2> HIDE DEF e
  <2> QED BY <1>1, <2>1, <2>2, <2>3, SpawnEffect
<1>4. ASSUME NEW cmd \in {"quit", "term", "kill"}, NEW base, Tell(cmd, base) PROVE Steady
  <2>1. ASSUME NEW i \in Slots, Mine(i)'
        PROVE  Mine(i) /\ kid'[i].gen = kid[i].gen /\ (table[i].exiting => table'[i].exiting)
    <3>1. /\ kid[i].state = "up" /\ kid'[i].gen = kid[i].gen /\ i \in DOMAIN table
          /\ table'[i].role = table[i].role /\ table'[i].role # Binary
          /\ ~Told(table[i], cmd) => table'[i].exiting = table[i].exiting
          /\ Told(table[i], cmd) /\ ~Missing(i) => table'[i].exiting
      <4>1. kid'[i].state = "up" /\ i \in DOMAIN table' /\ table'[i].role # Binary
        BY <1>b, <2>1
      <4>2. kid'[i].state = kid[i].state /\ kid'[i].gen = kid[i].gen /\ DOMAIN table' = DOMAIN table
        BY <1>4, TellEffect
      <4>3. i \in DOMAIN table
        BY <4>1, <4>2
      <4>4. /\ table'[i].role = table[i].role
            /\ ~Told(table[i], cmd) => table'[i].exiting = table[i].exiting
            /\ Told(table[i], cmd) /\ ~Missing(i) => table'[i].exiting
        <5>1. table'[i].role = table[i].role
          BY <1>4, <4>3, TellEffect
        <5>2. ~Told(table[i], cmd) => table'[i].exiting = table[i].exiting
          BY <1>4, <4>3, TellEffect
        <5>3. Told(table[i], cmd) /\ ~Missing(i) => table'[i].exiting
          BY <1>4, <4>3, TellEffect
        <5> QED BY <5>1, <5>2, <5>3
      <4> QED BY <4>1, <4>2, <4>3, <4>4
    <3>2. ~Missing(i)
      BY <3>1 DEF Missing
    <3> QED BY <1>c, <3>1, <3>2
  <2>2. ASSUME NEW i \in DOMAIN table', table'[i].just PROVE i \in DOMAIN table /\ table[i].just
    BY <1>4, <2>2, TellEffect
  <2> QED BY <2>1, <2>2 DEF Steady
<1>5. ASSUME NEW j \in Slots, NEW how \in {"zombie", "fatal"}, kid[j].state = "up", table' = table,
             kid' = [kid EXCEPT ![j] = [@ EXCEPT !.state = how, !.told = {}]]
      PROVE  Steady
  <2>1. \A i \in Slots : kid'[i].gen = kid[i].gen /\ (kid'[i].state = "up" => kid[i].state = "up")
    <3> SUFFICES ASSUME NEW i \in Slots
                 PROVE  kid'[i].gen = kid[i].gen /\ (kid'[i].state = "up" => kid[i].state = "up")
      OBVIOUS
    <3>1. CASE i = j
      <4>1. kid'[i] = [kid[j] EXCEPT !.state = how, !.told = {}]
        BY <1>a, <1>5, <3>1
      <4>2. kid[j] \in Kids
        BY <1>a, <1>5
      <4>3. how # "up"
        BY <1>5
      <4>4. kid'[i].gen = kid[j].gen /\ kid'[i].state = how
        BY <4>1, <4>2 DEF Kids
      <4> QED BY <3>1, <4>3, <4>4
    <3>2. CASE i # j
      <4>1. kid'[i] = kid[i]
        BY <1>a, <1>5, <3>2
      <4> QED BY <4>1
    <3> QED BY <3>1, <3>2
  <2>2. ASSUME NEW i \in Slots, Mine(i)' PROVE Mine(i) /\ kid'[i].gen = kid[i].gen
    BY <1>b, <1>c, <1>5, <2>1, <2>2
  <2> QED BY <1>5, <2>2 DEF Steady
<1> QED BY <1>1, <1>2, <1>3, <1>4, <1>5

StageInv == StartInv /\ JustInv /\ OldInv /\ LiveInv

LEMMA StageStep == IInv /\ [Next]_vars => StageInv'
<1> SUFFICES ASSUME IInv, [Next]_vars PROVE StageInv'
  OBVIOUS
<1>a. TypeOK /\ EveryKidHasItsEntry /\ StartInv /\ JustInv /\ OldInv /\ LiveInv
  BY DEF IInv
<1>b. EveryKidHasItsEntry' /\ TypeOK'
  BY <1>a, EntryStep, TypeStep
<1>o. \A f : Onward(f) \in {"top", "restart", "binary", "noaccept"}
  BY DEF Onward
<1>e. ASSUME flags' \subseteq flags \cup {"reap", "restart", "noaccepting", "noaccept"}, ~Ending PROVE ~Ending'
  BY <1>e DEF Ending
(* A steady step that keeps to the commands of the loop.                    *)
<1>q. ASSUME Steady, ~Reloading, ~Reloading', UNCHANGED <<cycle, live, unseen>>,
             stage' = "spawn" => stage = "spawn" /\ next' = next
      PROVE  JustInv' /\ OldInv' /\ LiveInv'
  <2>1. JustInv'
    BY <1>a, <1>q DEF JustInv, Steady
  <2>2. OldInv'
    BY <1>a, <1>q DEF OldInv, Steady
  <2>3. LiveInv'
    <3>1. ~live' /\ ~unseen' => \A i \in Slots : ~Mine(i)'
      BY <1>a, <1>q DEF LiveInv, Steady
    <3>2. stage' = "spawn" /\ next' # "handover" => live' \/ unseen'
      BY <1>a, <1>q DEF LiveInv
    <3> QED BY <3>1, <3>2 DEF LiveInv
  <2> QED BY <2>1, <2>2, <2>3
<1>1. CASE StartProcess
  <2> DEFINE e == Entry(Head(todo), Stays(Head(todo)), next = "handover")
  <2>1. /\ stage = "spawn" /\ stage' \in {"spawn", next} /\ Spawn(e)
        /\ UNCHANGED <<flags, live, cycle, next, unseen>>
    BY <1>1 DEF StartProcess, loop
  <2>2. Head(todo) \in Roles
    BY <1>1, <1>a DEF StartProcess, TypeOK
  <2>3. e \in Entries /\ e.used /\ e.just = (next = "handover")
    BY <2>2 DEF Entry, Entries, Stays
  <2> HIDE DEF e
  <2>4. Reloading' = Reloading /\ (stage' = "spawn" => stage = "spawn" /\ next' = next)
    BY <2>1 DEF Reloading
  <2>5. StartInv'
    BY <1>a, <2>1 DEF StartInv, Starting, Ending
  <2>6. CASE UNCHANGED <<table, kid>>
    <3>1. JustInv' /\ OldInv'
      BY <1>a, <2>1, <2>4, <2>6 DEF JustInv, OldInv, Mine, RoleOf
    <3>2. LiveInv'
      BY <1>a, <2>1, <2>4, <2>6 DEF LiveInv, Mine, RoleOf
    <3> QED BY <2>5, <3>1, <3>2 DEF StageInv
  <2>7. ASSUME NEW s \in Slots, DOMAIN table' = DOMAIN table \cup {s},
               \A j \in DOMAIN table' : table'[j] = IF j = s THEN e ELSE table[j],
               kid' = [kid EXCEPT ![s] = NewKid]
        PROVE  StageInv'
    <3>1. kid'[s] = NewKid /\ NewKid.gen = cycle /\ \A j \in Slots : j # s => kid'[j] = kid[j]
      BY <1>a, <2>7 DEF NewKid, TypeOK
    <3>2. \A j \in DOMAIN table : j \in Slots
      <4>1. table \in Seq(Entries) /\ Len(table) <= MaxProcs
        BY <1>a DEF TypeOK
      <4> QED BY <4>1, InSlots
    <3>3. JustInv'
      <4>1. ASSUME NEW j \in DOMAIN table', table'[j].just PROVE Reloading' /\ kid'[j].gen = cycle'
        <5>1. CASE j = s
          BY <2>1, <2>3, <2>4, <2>7, <3>1, <4>1, <5>1 DEF Reloading
        <5>2. CASE j # s
          BY <1>a, <2>1, <2>4, <2>7, <3>1, <3>2, <4>1, <5>2 DEF JustInv
        <5> QED BY <5>1, <5>2
      <4> QED BY <4>1 DEF JustInv
    <3>4. OldInv'
      <4>1. ASSUME ~Reloading', NEW j \in Slots, Mine(j)', kid'[j].gen < cycle'
            PROVE  table'[j].exiting
        <5>1. j # s
          <6>1. cycle \in Nat
            BY <1>a DEF TypeOK
          <6> QED BY <2>1, <3>1, <4>1, <6>1
        <5>2. Mine(j) /\ kid'[j] = kid[j] /\ j \in DOMAIN table /\ table'[j] = table[j]
          BY <2>7, <3>1, <4>1, <5>1 DEF Mine, RoleOf
        <5> QED BY <1>a, <2>1, <2>4, <4>1, <5>2 DEF OldInv
      <4> QED BY <4>1 DEF OldInv
    <3>5. LiveInv'
      BY <1>a, <2>1, <2>4 DEF LiveInv, Reloading
    <3> QED BY <2>5, <3>3, <3>4, <3>5 DEF StageInv
  <2> QED BY <1>a, <2>1, <2>3, <2>6, <2>7, SpawnEffect
<1>2. CASE ChangeBinary
  <2>1. /\ stage = "binary" /\ stage' \in {"top", "restart", "binary", "noaccept"}
        /\ flags' \subseteq flags /\ UNCHANGED <<live, cycle, unseen, next>>
        /\ Spawn(Entry(Binary, FALSE, FALSE))
    BY <1>2, <1>o DEF ChangeBinary, Clear, loop
  <2>2. Steady
    BY <1>a, <1>b, <2>1, SteadySteps
  <2>3. StartInv'
    BY <1>a, <1>e, <2>1 DEF StartInv, Starting
  <2>4. ~Reloading /\ ~Reloading' /\ stage' # "spawn"
    BY <2>1 DEF Reloading
  <2> QED BY <1>q, <2>1, <2>2, <2>3, <2>4 DEF StageInv
<1>3. CASE Wake
  <2>1. /\ stage = "suspend" /\ stage' \in {"reap", "decide"} /\ UNCHANGED <<live, cycle, unseen>>
        /\ CollectAll \/ UNCHANGED <<table, kid>>
    BY <1>3 DEF Wake, loop, sys
  <2>2. Steady
    BY <1>a, <1>b, <2>1, SteadySteps
  <2>3. StartInv' /\ ~Reloading /\ ~Reloading' /\ stage' # "spawn"
    BY <2>1 DEF StartInv, Starting, Reloading
  <2> QED BY <1>q, <2>1, <2>2, <2>3 DEF StageInv
<1>4. CASE Reap
  <2>1. PICK failed : ReapChildren(failed)
    BY <1>4 DEF Reap
  <2>2. PICK gone \in SUBSET DOMAIN table, again \in SUBSET DOMAIN table :
           /\ \A i \in DOMAIN table : i \in gone \cup again => table[i].used /\ table[i].exited
           /\ DOMAIN table' \subseteq DOMAIN table
           /\ \A i \in DOMAIN table' :
                table'[i] = IF i \in gone THEN Vacant
                            ELSE IF i \in again THEN [table[i] EXCEPT !.exited = FALSE]
                            ELSE table[i]
           /\ \A i \in Slots : kid'[i] = IF i \in again THEN NewKid ELSE kid[i]
           /\ live' = (again # {} \/ \E i \in DOMAIN table : CountsAlive(table[i]))
    BY <1>a, <2>1, ReapEffect
  <2>3. stage = "reap" /\ stage' = "decide" /\ UNCHANGED cycle
    BY <1>4 DEF Reap
  <2>4. StartInv' /\ ~Reloading /\ ~Reloading' /\ stage' # "spawn"
    BY <2>3 DEF StartInv, Starting, Reloading
  <2>5. \A i \in DOMAIN table : table[i] \in Entries
    BY <1>a, TableType DEF TypeOK
  <2>6. ASSUME NEW i \in DOMAIN table', table'[i].just PROVE FALSE
    <3>1. ~table[i].just /\ i \in DOMAIN table
      BY <1>a, <2>2, <2>4, <2>6 DEF JustInv
    <3>2. CASE i \in gone
      BY <2>2, <2>6, <3>2 DEF Vacant, Entry
    <3>3. CASE i \notin gone /\ i \in again
      <4>1. table'[i] = [table[i] EXCEPT !.exited = FALSE]
        BY <2>2, <3>3
      <4> QED BY <2>5, <2>6, <3>1, <4>1 DEF Entries
    <3>4. CASE i \notin gone /\ i \notin again
      BY <2>2, <2>6, <3>1, <3>4
    <3> QED BY <3>2, <3>3, <3>4
  <2>7. ASSUME NEW i \in Slots, Mine(i)', i \notin again
        PROVE  /\ Mine(i) /\ kid'[i] = kid[i] /\ i \in DOMAIN table /\ table'[i] = table[i]
               /\ CountsAlive(table[i])
    <3>1. kid'[i] = kid[i] /\ kid[i].state = "up" /\ i \in DOMAIN table' /\ table'[i].role # Binary
      BY <2>2, <2>7 DEF Mine, RoleOf
    <3>2. i \in DOMAIN table /\ table[i].used /\ ~table[i].exited
      BY <1>a, <3>1 DEF EveryKidHasItsEntry
    <3>3. table'[i] = table[i]
      BY <2>2, <2>7, <3>1, <3>2
    <3> QED BY <3>1, <3>2, <3>3 DEF Mine, RoleOf, CountsAlive, Detached
  <2>8. OldInv'
    <3>1. ASSUME NEW i \in Slots, Mine(i)', kid'[i].gen < cycle' PROVE table'[i].exiting
      <4>1. i \notin again
        <5>1. i \in again => kid'[i].gen = cycle /\ cycle \in Nat
          BY <1>a, <2>2 DEF NewKid, TypeOK
        <5> QED BY <2>3, <3>1, <5>1
      <4> QED BY <1>a, <2>3, <2>4, <2>7, <3>1, <4>1 DEF OldInv
    <3> QED BY <3>1 DEF OldInv
  <2>9. ~live' => \A i \in Slots : ~Mine(i)'
    BY <2>2, <2>7
  <2> QED BY <2>4, <2>6, <2>8, <2>9 DEF StageInv, JustInv, LiveInv
<1>5. CASE Quit \/ Terminate
  <2>1. /\ stage = "decide" /\ stage' = "top" /\ UNCHANGED <<live, cycle, unseen>>
        /\ UNCHANGED <<table, kid>> \/ \E cmd \in {"quit", "term", "kill"} : \E base : Tell(cmd, base)
    <3>1. CASE Quit
      BY <3>1 DEF Quit, loop, sys
    <3>2. CASE Terminate
      <4>1. KillSignal \in {"quit", "term", "kill"}
        BY DEF KillSignal
      <4>2. UNCHANGED <<table, kid>> \/ Tell(KillSignal, flags)
        <5>1. CASE sigio > 0
          BY <3>2, <5>1 DEF Terminate
        <5>2. CASE ~(sigio > 0)
          BY <3>2, <5>2 DEF Terminate
        <5> QED BY <5>1, <5>2
      <4>3. stage = "decide" /\ stage' = "top" /\ UNCHANGED <<live, cycle, unseen>>
        BY <3>2 DEF Terminate, sys
      <4> QED BY <4>1, <4>2, <4>3
    <3> QED BY <1>5, <3>1, <3>2
  <2>2. Steady
    BY <1>a, <1>b, <2>1, SteadySteps
  <2>3. StartInv' /\ ~Reloading /\ ~Reloading' /\ stage' # "spawn"
    BY <2>1 DEF StartInv, Starting, Reloading
  <2> QED BY <1>q, <2>1, <2>2, <2>3 DEF StageInv
<1>6. CASE NoAccept
  <2>1. stage = "noaccept" /\ stage' = "top" /\ UNCHANGED <<live, cycle, unseen>>
        /\ \E base : Tell("quit", base)
    BY <1>6 DEF NoAccept, loop, sys
  <2>2. Steady
    BY <1>a, <1>b, <2>1, SteadySteps
  <2>3. StartInv' /\ ~Reloading /\ ~Reloading' /\ stage' # "spawn"
    BY <2>1 DEF StartInv, Starting, Reloading
  <2> QED BY <1>q, <2>1, <2>2, <2>3 DEF StageInv
<1>7. CASE Handover
  <2>1. /\ stage = "handover" /\ live' = TRUE /\ unseen' = FALSE /\ Tell("quit", flags)
        /\ stage' \in {"top", "restart", "binary", "noaccept"} /\ UNCHANGED cycle
    <3>1. stage = "handover" /\ live' = TRUE /\ unseen' = FALSE /\ Tell("quit", flags)
          /\ stage' = Onward(flags') /\ UNCHANGED cycle
      BY <1>7 DEF Handover
    <3> QED BY <1>o, <3>1
  <2>2. Reloading /\ ~Reloading' /\ stage' # "spawn" /\ ~Ending
    BY <1>a, <2>1 DEF Reloading, StartInv, Starting
  <2>3. flags' \subseteq flags \cup {"reap"}
    BY <1>a, <2>1, TellEffect
  <2>4. StartInv'
    BY <1>e, <2>2, <2>3 DEF StartInv
  <2>5. JustInv'
    <3>1. ASSUME NEW i \in DOMAIN table', table'[i].just PROVE FALSE
      <4>1. i \in DOMAIN table /\ (~Told(table[i], "quit") => table'[i].just = FALSE)
            /\ (Told(table[i], "quit") => table'[i].just = table[i].just)
        BY <1>a, <2>1, TellEffect
      <4> QED BY <3>1, <4>1 DEF Told
    <3> QED BY <3>1 DEF JustInv
  <2>6. OldInv'
    <3>1. ASSUME NEW i \in Slots, Mine(i)', kid'[i].gen < cycle' PROVE table'[i].exiting
      <4>1. kid'[i].state = "up" /\ i \in DOMAIN table' /\ table'[i].role # Binary
        BY <3>1 DEF Mine, RoleOf
      <4>2. /\ i \in DOMAIN table /\ kid[i].state = "up" /\ kid[i].gen < cycle /\ table[i].role # Binary
            /\ ~Told(table[i], "quit") => table'[i].exiting = table[i].exiting
            /\ Told(table[i], "quit") => table'[i].exiting = ~Missing(i)
        BY <1>a, <2>1, <3>1, <4>1, TellEffect
      <4>3. table[i].used /\ ~Missing(i)
        BY <1>a, <4>2 DEF EveryKidHasItsEntry, Missing
      <4>4. ~table[i].just
        <5>1. cycle \in Nat /\ (table[i].just => kid[i].gen = cycle)
          BY <1>a, <4>2 DEF JustInv, TypeOK
        <5> QED BY <4>2, <5>1
      <4> QED BY <4>2, <4>3, <4>4 DEF Told, Detached
    <3> QED BY <3>1 DEF OldInv
  <2>7. LiveInv'
    BY <2>1, <2>2 DEF LiveInv
  <2> QED BY <2>4, <2>5, <2>6, <2>7 DEF StageInv
<1>8. CASE Reconfigure
  <2>1. /\ stage = "decide" /\ ~Ending /\ flags' \subseteq flags /\ UNCHANGED <<table, kid, live, unseen>>
        /\ \/ cycle' = cycle + 1 /\ stage' = "spawn" /\ next' = "handover"
           \/ cycle' = cycle /\ stage' = "top"
    BY <1>8 DEF Reconfigure, Clear, StartRoster, loop, sys
  <2>2. StartInv' /\ ~Reloading
    BY <1>e, <2>1 DEF StartInv, Reloading
  <2>3. \A i \in DOMAIN table' : ~table'[i].just
    BY <1>a, <2>1, <2>2 DEF JustInv
  <2>4. CASE stage' = "spawn" /\ next' = "handover"
    BY <2>2, <2>3, <2>4 DEF StageInv, JustInv, OldInv, LiveInv, Reloading
  <2>5. CASE cycle' = cycle /\ stage' = "top"
    <3>1. Steady
      BY <1>a, <1>b, <2>1, SteadySteps
    <3>2. ~Reloading'
      BY <2>5 DEF Reloading
    <3> QED BY <1>q, <2>1, <2>2, <2>5, <3>1, <3>2 DEF StageInv
  <2> QED BY <2>1, <2>4, <2>5
<1>9. CASE Rollback \/ Restart
  <2>1. /\ UNCHANGED <<table, kid, cycle>> /\ flags' \subseteq flags /\ ~Ending /\ ~Reloading
        /\ stage' = "spawn" /\ next' # "handover" /\ (live' = TRUE \/ unseen' = TRUE)
    <3>1. CASE Rollback
      BY <3>1 DEF Rollback, StartRoster, Reloading
    <3>2. CASE Restart
      <4>1. /\ stage = "restart" /\ stage' = "spawn" /\ next' = Onward(flags \ {"restart"})
            /\ UNCHANGED <<table, kid, cycle>> /\ flags' \subseteq flags /\ live' = TRUE
        BY <3>2 DEF Restart, StartRoster, Clear
      <4>2. next' # "handover"
        BY <1>o, <4>1
      <4> QED BY <1>a, <4>1, <4>2 DEF StartInv, Starting, Reloading
    <3> QED BY <1>9, <3>1, <3>2
  <2>2. StartInv' /\ ~Reloading'
    BY <1>e, <2>1 DEF StartInv, Reloading
  <2>3. JustInv' /\ OldInv'
    BY <1>a, <2>1, <2>2 DEF JustInv, OldInv, Mine, RoleOf
  <2>4. LiveInv'
    BY <2>1 DEF LiveInv
  <2> QED BY <2>2, <2>3, <2>4 DEF StageInv
<1>10. CASE Suspend \/ MasterExit \/ NoReload
  <2>1. /\ stage \in {"top", "decide"} /\ stage' \in {"suspend", "gone", "top", "restart", "binary", "noaccept"}
        /\ UNCHANGED <<table, kid, live, cycle, unseen>>
        /\ stage' \in Starting => ~Ending /\ flags' = flags
    BY <1>10, <1>o DEF Suspend, MasterExit, NoReload, loop, sys, Starting
  <2>2. Steady
    BY <1>a, <1>b, <2>1, SteadySteps
  <2>3. StartInv' /\ ~Reloading /\ ~Reloading' /\ stage' # "spawn"
    BY <2>1 DEF StartInv, Reloading, Ending
  <2> QED BY <1>q, <2>1, <2>2, <2>3 DEF StageInv
<1>11. ASSUME UNCHANGED <<flags, live, cycle, stage, next, unseen, table>>,
              \/ UNCHANGED kid
              \/ \E i \in Slots, how \in {"zombie", "fatal"} :
                   /\ kid[i].state = "up"
                   /\ kid' = [kid EXCEPT ![i] = [@ EXCEPT !.state = how, !.told = {}]]
       PROVE  StageInv'
  <2>1. Steady
    BY <1>a, <1>b, <1>11, SteadySteps
  <2>2. StartInv' /\ Reloading' = Reloading
    BY <1>a, <1>11 DEF StartInv, Ending, Reloading
  <2>3. \A i \in Slots : kid'[i].gen = kid[i].gen
    <3>1. kid \in [Slots -> Kids]
      BY <1>a DEF TypeOK
    <3>2. ASSUME NEW j \in Slots, NEW how, kid' = [kid EXCEPT ![j] = [@ EXCEPT !.state = how, !.told = {}]]
          PROVE  \A i \in Slots : kid'[i].gen = kid[i].gen
      BY <3>1, <3>2 DEF Kids
    <3> QED BY <1>11, <3>2
  <2>4. \A i \in DOMAIN table : i \in Slots
    <3>1. table \in Seq(Entries) /\ Len(table) <= MaxProcs
      BY <1>a DEF TypeOK
    <3> QED BY <3>1, InSlots
  <2>5. JustInv'
    BY <1>a, <1>11, <2>2, <2>3, <2>4 DEF JustInv
  <2>6. OldInv'
    BY <1>a, <1>11, <2>1, <2>2 DEF OldInv, Steady
  <2>7. LiveInv'
    BY <1>a, <1>11, <2>1, <2>2 DEF LiveInv, Steady
  <2> QED BY <2>2, <2>5, <2>6, <2>7 DEF StageInv
<1>12. ASSUME NEW i \in Slots, Kid(i) PROVE StageInv'
  BY <1>11, <1>12 DEF Kid, Quits, Terminates, Killed, Finishes, Crashes, Fails, Dies, loop
<1>13. CASE Alarm \/ (\E s \in Signals : Send(s)) \/ UNCHANGED vars
  BY <1>11, <1>13 DEF Alarm, Send, vars, loop, sys
<1> QED BY <1>1, <1>2, <1>3, <1>4, <1>5, <1>6, <1>7, <1>8, <1>9, <1>10, <1>12, <1>13 DEF Next, Master

-----------------------------------------------------------------------------
(* The theorems *)

LEMMA InitIInv == Init => IInv
<1> SUFFICES ASSUME Init PROVE IInv
  OBVIOUS
<1>1. /\ table = <<>> /\ kid = [i \in Slots |-> NoKid] /\ pend = {} /\ flags = {} /\ newbin = "none"
      /\ live = TRUE /\ delay = 0 /\ sigio = 0 /\ cycle = 0 /\ stage = "spawn" /\ todo = Roster
      /\ next = "top" /\ unseen = FALSE
  BY DEF Init
<1>2. Control
  <2>1. unseen \in BOOLEAN /\ live \in BOOLEAN
    BY <1>1
  <2>2. delay \in 0..KillAfter + 1 /\ sigio \in 0..WorkerProcesses + CacheProcesses
    <3>1. KillAfter \in Nat /\ WorkerProcesses + CacheProcesses \in Nat
      BY RosterType
    <3> QED BY <1>1, <3>1
  <2> QED BY <1>1, <2>1, <2>2, RosterType DEF Control
<1>3. Children
  <2>1. table \in Seq(Entries) /\ Len(table) = 0
    BY <1>1
  <2>2. NoKid \in Kids
    BY <1>1 DEF NoKid, Kids
  <2>3. kid \in [Slots -> Kids] /\ cycle \in Nat
    BY <1>1, <2>2
  <2>4. MaxProcs \in Nat
    BY RosterType
  <2>5. Len(table) <= MaxProcs
    BY <2>1, <2>4
  <2> QED BY <2>1, <2>3, <2>5 DEF Children
<1>4. DOMAIN table = {} /\ \A i \in Slots : kid[i].state = "none"
  BY <1>1 DEF NoKid
<1>5. StartInv /\ JustInv /\ OldInv /\ LiveInv /\ EveryKidHasItsEntry /\ ExitingWasTold
  BY <1>1, <1>4 DEF StartInv, JustInv, OldInv, LiveInv, Ending, Mine, EveryKidHasItsEntry, ExitingWasTold
<1>6. TypeOK
  BY <1>2, <1>3, TypeParts
<1> QED BY <1>5, <1>6 DEF IInv

LEMMA Inductive == Spec => []IInv
<1>1. IInv /\ [Next]_vars => IInv'
  <2> SUFFICES ASSUME IInv, [Next]_vars PROVE IInv'
    OBVIOUS
  <2>1. TypeOK /\ EveryKidHasItsEntry /\ ExitingWasTold
    BY DEF IInv
  <2>2. TypeOK' /\ EveryKidHasItsEntry' /\ ExitingWasTold'
    BY <2>1, TypeStep, EntryStep, ToldStep
  <2>3. StageInv'
    BY StageStep
  <2> QED BY <2>2, <2>3 DEF IInv, StageInv
<1> QED BY <1>1, InitIInv, PTL DEF Spec

(* The types hold: in particular ngx_spawn_process() never writes an entry  *)
(* beyond NGX_MAX_PROCESSES.                                                *)
THEOREM TypeCorrect == Spec => []TypeOK
<1>1. IInv => TypeOK
  BY DEF IInv
<1> QED BY <1>1, Inductive, PTL

(* ngx_processes[] never loses a child that runs or waits to be collected.  *)
THEOREM TableIsComplete == Spec => []EveryKidHasItsEntry
<1>1. IInv => EveryKidHasItsEntry
  BY DEF IInv
<1> QED BY <1>1, Inductive, PTL

(* exiting is set only for a child that was told to exit.                   *)
THEOREM ExitingIsTrue == Spec => []ExitingWasTold
<1>1. IInv => ExitingWasTold
  BY DEF IInv
<1> QED BY <1>1, Inductive, PTL

(* After a reload no worker of an older configuration goes on unasked.      *)
THEOREM NoOldWorkerStays == Spec => []OldTurnedOut
<1>1. IInv => OldTurnedOut
  BY DEF IInv, OldInv, OldTurnedOut, Reloading
<1> QED BY <1>1, Inductive, PTL

(* The master leaves after its children, when no roster is unseen.          *)
THEOREM MasterLeavesLast == Spec => []ExitsLast
<1>1. Init => GoneInv
  BY DEF Init, GoneInv
<1>2. IInv /\ GoneInv /\ [Next]_vars => GoneInv'
  <2> SUFFICES ASSUME TypeOK, GoneInv, [Next]_vars, stage' = "gone" PROVE ~live'
    BY DEF GoneInv, IInv
  <2>o. \A f : Onward(f) # "gone"
    BY DEF Onward
  <2>1. CASE stage # "gone"
    <3>1. CASE MasterExit
      BY <3>1 DEF MasterExit, loop
    <3>2. CASE StartProcess
      BY <2>1, <3>2 DEF StartProcess, TypeOK
    <3>3. CASE Wake \/ Suspend \/ Reap \/ Terminate \/ Quit \/ Rollback \/ Restart \/ NoAccept
      BY <3>3 DEF Wake, Suspend, Reap, Terminate, Quit, Rollback, Restart, NoAccept, StartRoster
    <3>4. CASE Reconfigure
      BY <3>4 DEF Reconfigure, StartRoster
    <3>5. CASE Handover \/ NoReload \/ ChangeBinary
      BY <2>o, <3>5 DEF Handover, NoReload, ChangeBinary
    <3>6. ASSUME UNCHANGED stage PROVE FALSE
      BY <2>1, <3>6
    <3>7. CASE \/ \E i \in Slots : Kid(i)
               \/ Alarm \/ (\E s \in Signals : Send(s)) \/ UNCHANGED vars
      BY <3>6, <3>7 DEF Kid, Quits, Terminates, Killed, Finishes, Crashes, Fails, Dies, Alarm, Send, vars
    <3> QED BY <3>1, <3>2, <3>3, <3>4, <3>5, <3>7 DEF Next, Master
  <2>2. CASE stage = "gone"
    <3>1. ~live
      BY <2>2 DEF GoneInv
    <3>2. UNCHANGED live
      BY <2>2 DEF Next, Master, StartProcess, Wake, Suspend, Reap, MasterExit, Terminate, Quit, Rollback,
                  Reconfigure, Handover, NoReload, Restart, ChangeBinary, NoAccept, Kid, Quits, Terminates,
                  Killed, Finishes, Crashes, Fails, Dies, Alarm, Send, vars, loop
    <3> QED BY <3>1, <3>2
  <2> QED BY <2>1, <2>2
<1>3. IInv /\ GoneInv => ExitsLast
  BY DEF IInv, GoneInv, LiveInv, ExitsLast, Reloading
<1> QED BY <1>1, <1>2, <1>3, Inductive, PTL DEF Spec

(* A master that knows it is to end starts no process any more.             *)
THEOREM NothingStartsAtTheEnd == Spec => NoSpawnAtTheEnd
<1>1. IInv /\ [Next]_vars => [Ending => \A i \in Slots : kid[i].state = "none" => kid'[i].state = "none"]_vars
  <2> SUFFICES ASSUME IInv, [Next]_vars, Ending, NEW i \in Slots, kid[i].state = "none"
               PROVE  kid'[i].state = "none"
    OBVIOUS
  <2>a. TypeOK /\ StartInv /\ kid \in [Slots -> Kids]
    BY DEF IInv, TypeOK
  <2>b. stage \notin Starting
    BY <2>a DEF StartInv
  <2>1. CASE UNCHANGED <<table, kid>>
    BY <2>1
  <2>2. CASE CollectAll
    BY <2>a, <2>2, CollectEffect DEF NoKid
  <2>3. ASSUME NEW failed, ReapChildren(failed) PROVE kid'[i].state = "none"
    <3>1. PICK again \in SUBSET DOMAIN table :
             /\ \A j \in again : Respawns(table[j])
             /\ \A j \in Slots : kid'[j] = IF j \in again THEN NewKid ELSE kid[j]
      BY <2>a, <2>3, ReapEffect
    <3>2. i \notin again
      BY <3>1 DEF Respawns, Ending
    <3> QED BY <3>1, <3>2
  <2>4. ASSUME NEW cmd \in {"quit", "term", "kill"}, NEW base, Tell(cmd, base) PROVE kid'[i].state = "none"
    BY <2>a, <2>4, TellEffect
  <2>5. ASSUME NEW j \in Slots, NEW how, kid[j].state = "up",
               kid' = [kid EXCEPT ![j] = [@ EXCEPT !.state = how, !.told = {}]]
        PROVE  kid'[i].state = "none"
    BY <2>a, <2>5
  <2>6. CASE StartProcess \/ ChangeBinary
    BY <2>b, <2>6 DEF StartProcess, ChangeBinary, Starting
  <2>7. CASE ~(StartProcess \/ ChangeBinary)
    <3>1. CASE Wake
      BY <2>1, <2>2, <3>1 DEF Wake
    <3>2. CASE Reap
      BY <2>3, <3>2 DEF Reap
    <3>3. CASE Quit \/ Handover \/ NoAccept
      BY <2>4, <3>3 DEF Quit, Handover, NoAccept
    <3>4. CASE Terminate
      <4>1. KillSignal \in {"quit", "term", "kill"}
        BY DEF KillSignal
      <4>2. UNCHANGED <<table, kid>> \/ Tell(KillSignal, flags)
        <5>1. CASE sigio > 0
          BY <3>4, <5>1 DEF Terminate
        <5>2. CASE ~(sigio > 0)
          BY <3>4, <5>2 DEF Terminate
        <5> QED BY <5>1, <5>2
      <4> QED BY <2>1, <2>4, <4>1, <4>2
    <3>5. CASE Suspend \/ MasterExit \/ Rollback \/ Reconfigure \/ NoReload \/ Restart \/ Alarm
                \/ (\E s \in Signals : Send(s)) \/ UNCHANGED vars
      BY <2>1, <3>5 DEF Suspend, MasterExit, Rollback, Reconfigure, NoReload, Restart, Alarm, Send, vars
    <3>6. ASSUME NEW j \in Slots, Kid(j) PROVE kid'[i].state = "none"
      BY <2>5, <3>6 DEF Kid, Quits, Terminates, Killed, Finishes, Crashes, Fails, Dies
    <3> QED BY <2>7, <3>1, <3>2, <3>3, <3>4, <3>5, <3>6 DEF Next, Master
  <2> QED BY <2>6, <2>7
<1> QED BY <1>1, Inductive, PTL DEF Spec, NoSpawnAtTheEnd
=============================================================================
