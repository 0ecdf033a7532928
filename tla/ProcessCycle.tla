---------------------------- MODULE ProcessCycle -----------------------------
(***************************************************************************)
(* The master process of src/os/unix: the table ngx_processes[], the       *)
(* signals that set flags while the master is in sigsuspend(), and the     *)
(* loop of ngx_master_process_cycle() that reaps children, respawns them,  *)
(* reloads the configuration, upgrades the binary and shuts down.          *)
(*                                                                         *)
(* Signals are blocked outside sigsuspend(), so a stage of the loop is     *)
(* interleaved with the children only.  A command on a child's channel and *)
(* a kill() that replaces it have the same effect.                         *)
(***************************************************************************)
EXTENDS Integers, Sequences, FiniteSets

CONSTANTS
    Roster,       \* what a configuration starts: a sequence of roles
    Binary,       \* the role of the new binary, a detached process
    MaxProcs,     \* NGX_MAX_PROCESSES
    Signals,      \* the signals an administrator sends
    KillAfter,    \* doublings of delay before SIGKILL is sent
    MaxSignals,   \* bound: signals the administrator sends
    MaxCrashes,   \* bound: children that crash or exit with code 2
    MaxForkFails  \* bound: fork() calls that fail

ASSUME CycleAssumption ==
    /\ Roster \in Seq({"worker", "cache manager", "cache loader"}) /\ Roster # <<>>
    /\ Binary = "new binary"
    /\ MaxProcs \in Nat /\ MaxProcs >= Len(Roster)
    /\ Signals \subseteq {"TERM", "QUIT", "HUP", "WINCH", "USR2"}
    /\ {KillAfter, MaxSignals, MaxCrashes, MaxForkFails} \subseteq Nat

Slots == 1..MaxProcs
CacheProcesses == 2
WorkerProcesses == Cardinality({n \in DOMAIN Roster : Roster[n] = "worker"})
Stays(role) == role \in {"worker", "cache manager"}

VARIABLES
    table,    \* ngx_processes[0..ngx_last_process - 1]
    kid,      \* the child of each slot, as the kernel knows it
    pend,     \* signals pending for the master
    flags,    \* the global flags ngx_reap, ngx_quit, ... that are 1
    newbin,   \* ngx_new_binary: 0, a pid ("pid") or NGX_INVALID_PID ("invalid")
    live, delay, sigio,   \* locals of ngx_master_process_cycle()
    cycle,    \* generation of the configuration
    stage,    \* where the master is in its loop
    todo,     \* roles ngx_start_worker_processes() has still to spawn
    next,     \* the stage after spawning
    unseen,   \* history: ngx_reap_children() has not seen the last roster
    sent, crashes, fatals, forkFails

sys == <<unseen, sent, crashes, fatals, forkFails>>
loop == <<live, delay, sigio>>
vars == <<table, kid, pend, flags, newbin, loop, cycle, stage, todo, next, sys>>

Entry(role, respawn, just) ==
    [used |-> TRUE, role |-> role, exiting |-> FALSE, exited |-> FALSE,
     respawn |-> respawn, just |-> just]
Vacant == [Entry(Binary, FALSE, FALSE) EXCEPT !.used = FALSE]
Detached(e) == e.role = Binary

NoKid == [state |-> "none", gen |-> 0, told |-> {}]
NewKid == [state |-> "up", gen |-> cycle, told |-> {}]

Init == /\ table = <<>>
        /\ kid = [i \in Slots |-> NoKid]
        /\ pend = {}
        /\ flags = {}
        /\ newbin = "none"
        /\ live = TRUE /\ delay = 0 /\ sigio = 0
        /\ cycle = 0
        /\ stage = "spawn" /\ todo = Roster /\ next = "top"
        /\ unseen = FALSE
        /\ sent = 0 /\ crashes = 0 /\ fatals = 0 /\ forkFails = 0

Set(f) == flags' = flags \cup {f}
Clear(f) == flags' = flags \ {f}

-----------------------------------------------------------------------------
(* ngx_spawn_process() *)

(* The entry of a reaped child is used again, else the table grows. *)
FirstVacant(s) == /\ s <= Len(table) => ~table[s].used
                  /\ \A j \in 1..s - 1 : table[j].used

Room(s) == s <= MaxProcs

ForkFails == forkFails < MaxForkFails /\ forkFails' = forkFails + 1

Spawn(e) == \E s \in 1..Len(table) + 1 :
    /\ FirstVacant(s)
    /\ \/ /\ Room(s)
          /\ table' = IF s > Len(table) THEN Append(table, e) ELSE [table EXCEPT ![s] = e]
          /\ kid' = [kid EXCEPT ![s] = NewKid]
          /\ UNCHANGED forkFails
       \/ /\ ~Room(s)
          /\ UNCHANGED <<table, kid, forkFails>>
       \/ /\ Room(s)
          /\ ForkFails
          /\ UNCHANGED <<table, kid>>

(* One turn of the loops of ngx_start_worker_processes() and of           *)
(* ngx_start_cache_manager_processes(); a spawn that fails is not noticed. *)
StartProcess == /\ stage = "spawn"
                /\ todo # <<>>
                /\ Spawn(Entry(Head(todo), Stays(Head(todo)), next = "handover"))
                /\ todo' = Tail(todo)
                /\ stage' = IF Len(todo) > 1 THEN "spawn" ELSE next
                /\ UNCHANGED <<pend, flags, newbin, loop, cycle, next, unseen, sent, crashes, fatals>>

(* Signals are blocked: of the checks that end a turn, the first that finds *)
(* its flag is the next stage.                                              *)
Onward(f) == IF "restart" \in f THEN "restart"
             ELSE IF "change_binary" \in f THEN "binary"
             ELSE IF "noaccept" \in f THEN "noaccept" ELSE "top"

StartRoster(after) == stage' = "spawn" /\ todo' = Roster /\ next' = after

-----------------------------------------------------------------------------
(* Signals: ngx_signal_handler() and ngx_process_get_status(). *)

FlagOf == [TERM |-> "terminate", QUIT |-> "quit", HUP |-> "reconfigure",
           WINCH |-> "noaccept", USR2 |-> "change_binary",
           ALRM |-> "sigalrm", CHLD |-> "reap"]

Ignored(s) == s = "USR2" /\ newbin = "pid"

Zombie(i) == kid[i].state \in {"zombie", "fatal"}

(* Slip: waitpid() is called once per signal. *)
CollectOne == \E i \in Slots :
    /\ Zombie(i)
    /\ table' = [table EXCEPT ![i].exited = TRUE]
    /\ kid' = [kid EXCEPT ![i] = NoKid]

(* waitpid() until no child is left to wait for; exit code 2 ends respawning. *)
CollectAll ==
    /\ table' = [i \in DOMAIN table |->
                    [table[i] EXCEPT !.exited = @ \/ Zombie(i),
                                     !.respawn = @ /\ kid[i].state # "fatal"]]
    /\ kid' = [i \in Slots |-> IF Zombie(i) THEN NoKid ELSE kid[i]]

(* sigsuspend() returns: the handlers of all pending signals have run. *)
Wake == /\ stage = "suspend"
        /\ pend # {}
        /\ IF "CHLD" \in pend THEN CollectAll ELSE UNCHANGED <<table, kid>>
        /\ flags' = flags \cup {FlagOf[s] : s \in {x \in pend : ~Ignored(x)}}
        /\ pend' = {}
        /\ stage' = IF "reap" \in flags' THEN "reap" ELSE "decide"
        /\ UNCHANGED <<newbin, loop, cycle, todo, next, sys>>

-----------------------------------------------------------------------------
(* ngx_master_process_cycle() *)

Suspend == /\ stage = "top"
           /\ IF delay > 0 /\ "sigalrm" \in flags
              THEN /\ sigio' = 0
                   /\ delay' = IF delay > KillAfter THEN delay ELSE delay + 1
                   /\ Clear("sigalrm")
              ELSE UNCHANGED <<sigio, delay, flags>>
           /\ stage' = "suspend"
           /\ UNCHANGED <<table, kid, pend, newbin, live, cycle, todo, next, sys>>

(* Slip: a child that was told to quit is started again. *)
RespawnsAlways(e) == e.used /\ e.exited /\ e.respawn

Respawns(e) == /\ e.used /\ e.exited /\ e.respawn /\ ~e.exiting
               /\ flags \cap {"terminate", "quit"} = {}

(* Slip: only a child that was told to exit counts as alive. *)
CountsExiting(e) == e.used /\ ~e.exited /\ e.exiting

CountsAlive(e) == e.used /\ ~e.exited /\ (e.exiting \/ ~Detached(e))

(* Slip: any slot that is freed shortens the table. *)
ShrinkAlways(t, gone) == SubSeq(t, 1, Len(t) - (IF gone = {} THEN 0 ELSE 1))

(* Only the last slot, when it is freed in this pass, shortens the table. *)
Shrink(t, gone) == IF Len(t) \in gone THEN SubSeq(t, 1, Len(t) - 1) ELSE t

(* ngx_reap_children(): `failed' are the respawns whose fork() fails. *)
ReapChildren(failed) ==
    LET exited == {i \in DOMAIN table : table[i].used /\ table[i].exited}
        again == {i \in exited : Respawns(table[i])}
        gone == exited \ again
        binaryGone == newbin = "pid" /\ \E i \in gone : Detached(table[i])
    IN
    /\ failed \subseteq again
    /\ forkFails + Cardinality(failed) <= MaxForkFails
    /\ forkFails' = forkFails + Cardinality(failed)
    /\ table' = Shrink([i \in DOMAIN table |->
                    IF i \in gone THEN Vacant
                    ELSE IF i \in again \ failed THEN [table[i] EXCEPT !.exited = FALSE]
                    ELSE table[i]], gone)
    /\ kid' = [i \in Slots |-> IF i \in again \ failed THEN NewKid ELSE kid[i]]
    /\ live' = (again \ failed # {} \/ \E i \in DOMAIN table : CountsAlive(table[i]))
    /\ newbin' = IF binaryGone THEN "none" ELSE newbin
    /\ flags' = IF binaryGone /\ "noaccepting" \in flags
                THEN (flags \ {"reap", "noaccepting"}) \cup {"restart"}
                ELSE flags \ {"reap"}

Reap == /\ stage = "reap"
        /\ \E failed \in SUBSET DOMAIN table : ReapChildren(failed)
        /\ unseen' = FALSE
        /\ stage' = "decide"
        /\ UNCHANGED <<pend, delay, sigio, cycle, todo, next, sent, crashes, fatals>>

(* ngx_signal_worker_processes() *)
Told(e, cmd) == e.used /\ ~Detached(e) /\ ~e.just /\ ~(e.exiting /\ cmd = "quit")

(* Slip: just_spawn stays set. *)
StaysFresh(e) == e

Seen(e) == [e EXCEPT !.just = FALSE]

(* Nothing has the pid of an entry whose respawn failed: kill() says so. *)
Missing(i) == kid[i].state = "none"

Tell(cmd, base) ==
    /\ table' = [i \in DOMAIN table |->
          IF ~Told(table[i], cmd) THEN Seen(table[i])
          ELSE IF Missing(i) THEN [table[i] EXCEPT !.exited = TRUE, !.exiting = FALSE]
          ELSE [table[i] EXCEPT !.exiting = TRUE]]
    /\ kid' = [i \in Slots |->
          IF i \in DOMAIN table /\ Told(table[i], cmd) /\ kid[i].state = "up"
          THEN [kid[i] EXCEPT !.told = @ \cup {cmd}] ELSE kid[i]]
    /\ flags' = base \cup
          (IF \E i \in DOMAIN table : Told(table[i], cmd) /\ Missing(i) THEN {"reap"} ELSE {})

Ending == flags \cap {"terminate", "quit"} # {}

MasterExit == /\ stage = "decide"
              /\ ~live /\ Ending
              /\ stage' = "gone"
              /\ UNCHANGED <<table, kid, pend, flags, newbin, loop, cycle, todo, next, sys>>

(* Slip: SIGKILL is never sent. *)
AlwaysTerm == "term"

KillSignal == IF delay' > KillAfter THEN "kill" ELSE "term"

Terminate == /\ stage = "decide"
             /\ live /\ "terminate" \in flags
             /\ delay' = IF delay = 0 THEN 1 ELSE delay
             /\ IF sigio > 0
                THEN sigio' = sigio - 1 /\ UNCHANGED <<table, kid, flags>>
                ELSE sigio' = WorkerProcesses + CacheProcesses /\ Tell(KillSignal, flags)
             /\ stage' = "top"
             /\ UNCHANGED <<pend, newbin, live, cycle, todo, next, sys>>

Quit == /\ stage = "decide"
        /\ live /\ "quit" \in flags /\ "terminate" \notin flags
        /\ Tell("quit", flags)
        /\ stage' = "top"
        /\ UNCHANGED <<pend, newbin, loop, cycle, todo, next, sys>>

(* HUP while a new binary runs: start the old workers again. *)
Rollback == /\ stage = "decide"
            /\ ~Ending
            /\ "reconfigure" \in flags
            /\ newbin # "none"
            /\ flags' = flags \ {"reconfigure", "noaccepting"}
            /\ StartRoster("top")
            /\ unseen' = TRUE
            /\ UNCHANGED <<table, kid, pend, newbin, loop, cycle, sent, crashes, fatals, forkFails>>

(* HUP: ngx_init_cycle() reads the configuration, and may refuse it. *)
Reconfigure == /\ stage = "decide"
               /\ ~Ending
               /\ "reconfigure" \in flags
               /\ newbin = "none"
               /\ Clear("reconfigure")
               /\ \/ cycle' = cycle + 1 /\ StartRoster("handover")
                  \/ stage' = "top" /\ UNCHANGED <<cycle, todo, next>>
               /\ UNCHANGED <<table, kid, pend, newbin, loop, sys>>

Handover == /\ stage = "handover"
            /\ live' = TRUE
            /\ Tell("quit", flags)
            /\ stage' = Onward(flags')
            /\ unseen' = FALSE
            /\ UNCHANGED <<pend, newbin, delay, sigio, cycle, todo, next, sent, crashes, fatals, forkFails>>

NoReload == /\ stage = "decide"
            /\ ~Ending
            /\ "reconfigure" \notin flags
            /\ stage' = Onward(flags)
            /\ UNCHANGED <<table, kid, pend, flags, newbin, loop, cycle, todo, next, sys>>

(* After the new binary has died: the old workers come back. *)
Restart == /\ stage = "restart"
           /\ Clear("restart")
           /\ live' = TRUE
           /\ unseen' = FALSE
           /\ StartRoster(Onward(flags \ {"restart"}))
           /\ UNCHANGED <<table, kid, pend, newbin, delay, sigio, cycle, sent, crashes, fatals, forkFails>>

(* ngx_exec_new_binary(); a failed fork() leaves NGX_INVALID_PID. *)
ChangeBinary == /\ stage = "binary"
                /\ Clear("change_binary")
                /\ Spawn(Entry(Binary, FALSE, FALSE))
                /\ newbin' = IF kid' = kid THEN "invalid" ELSE "pid"
                /\ stage' = Onward(flags \ {"change_binary"})
                /\ UNCHANGED <<pend, loop, cycle, todo, next, unseen, sent, crashes, fatals>>

(* WINCH: the workers quit, the master stays. *)
NoAccept == /\ stage = "noaccept"
            /\ Tell("quit", (flags \ {"noaccept"}) \cup {"noaccepting"})
            /\ stage' = "top"
            /\ UNCHANGED <<pend, newbin, loop, cycle, todo, next, sys>>

-----------------------------------------------------------------------------
(* The children, the alarm clock and the administrator. *)

Dies(i, how) == /\ kid[i].state = "up"
                /\ kid' = [kid EXCEPT ![i] = [@ EXCEPT !.state = how, !.told = {}]]
                /\ pend' = pend \cup {"CHLD"}
                /\ UNCHANGED <<table, flags, newbin, loop, cycle, stage, todo, next, unseen, sent, forkFails>>

NoFault == UNCHANGED <<crashes, fatals>>

(* The graceful end: connections and timers are gone. *)
Quits(i) == "quit" \in kid[i].told /\ Dies(i, "zombie") /\ NoFault
Terminates(i) == "term" \in kid[i].told /\ Dies(i, "zombie") /\ NoFault
Killed(i) == "kill" \in kid[i].told /\ Dies(i, "zombie") /\ NoFault

RoleOf(i) == IF i \in DOMAIN table THEN table[i].role ELSE Binary

(* The cache loader has walked the cache; the new binary was stopped. *)
Finishes(i) == ~Stays(RoleOf(i)) /\ Dies(i, "zombie") /\ NoFault

Crashes(i) == /\ crashes + fatals < MaxCrashes
              /\ crashes' = crashes + 1
              /\ Dies(i, "zombie")
              /\ UNCHANGED fatals

(* Exit code 2: init_process() of a module failed. *)
Fails(i) == /\ crashes + fatals < MaxCrashes
            /\ fatals' = fatals + 1
            /\ Dies(i, "fatal")
            /\ UNCHANGED crashes

Alarm == /\ delay > 0
         /\ stage # "gone" /\ "ALRM" \notin pend
         /\ pend' = pend \cup {"ALRM"}
         /\ UNCHANGED <<table, kid, flags, newbin, loop, cycle, stage, todo, next, sys>>

Send(s) == /\ sent < MaxSignals
           /\ stage # "gone"
           /\ sent' = sent + 1
           /\ pend' = pend \cup {s}
           /\ UNCHANGED <<table, kid, flags, newbin, loop, cycle, stage, todo, next, unseen, crashes, fatals, forkFails>>

-----------------------------------------------------------------------------
Master == \/ StartProcess \/ Wake \/ Suspend \/ Reap
          \/ MasterExit \/ Terminate \/ Quit \/ Rollback \/ Reconfigure
          \/ Handover \/ NoReload \/ Restart \/ ChangeBinary \/ NoAccept

Kid(i) == Quits(i) \/ Terminates(i) \/ Killed(i) \/ Finishes(i) \/ Crashes(i) \/ Fails(i)

Next == \/ Master
        \/ \E i \in Slots : Kid(i)
        \/ Alarm
        \/ \E s \in Signals : Send(s)

Spec == Init /\ [][Next]_vars

(* The master runs, its timer fires, SIGKILL is obeyed, a graceful shutdown *)
(* and the cache loader end.  A child need not react to SIGTERM.            *)
FairSpec == /\ Spec
            /\ WF_vars(Master) /\ WF_vars(Alarm)
            /\ \A i \in Slots : /\ WF_vars(Killed(i)) /\ WF_vars(Quits(i))
                                /\ WF_vars(Finishes(i) /\ RoleOf(i) # Binary)

-----------------------------------------------------------------------------
Roles == {"worker", "cache manager", "cache loader"}
Entries == [used : BOOLEAN, role : Roles \cup {Binary},
            exiting : BOOLEAN, exited : BOOLEAN, respawn : BOOLEAN, just : BOOLEAN]
Kids == [state : {"none", "up", "zombie", "fatal"}, gen : 0..cycle,
         told : SUBSET {"quit", "term", "kill"}]

TypeOK == /\ table \in Seq(Entries)
          /\ Len(table) <= MaxProcs
          /\ kid \in [Slots -> Kids]
          /\ pend \subseteq DOMAIN FlagOf
          /\ flags \subseteq {FlagOf[s] : s \in DOMAIN FlagOf} \cup {"restart", "noaccepting"}
          /\ newbin \in {"none", "pid", "invalid"}
          /\ live \in BOOLEAN /\ delay \in 0..KillAfter + 1 /\ sigio \in 0..WorkerProcesses + CacheProcesses
          /\ cycle \in Nat
          /\ todo \in Seq(Roles)
          /\ stage \in {"top", "suspend", "reap", "decide", "spawn", "handover",
                        "restart", "binary", "noaccept", "gone"}
          /\ next \in {"top", "handover", "restart", "binary", "noaccept"}
          /\ unseen \in BOOLEAN

Mine(i) == kid[i].state = "up" /\ RoleOf(i) # Binary

(* The table never loses a child: whatever the kernel still runs, or has not *)
(* been asked about, has an entry that is in use and not yet marked exited,  *)
(* so a signal reaches it and waitpid() finds its slot.                      *)
EveryKidHasItsEntry ==
    \A i \in Slots : kid[i].state # "none" =>
        i \in DOMAIN table /\ table[i].used /\ ~table[i].exited

(* A child marked as exiting was told so: a fresh process in a reused entry  *)
(* never inherits the mark, which would keep it from being respawned.        *)
ExitingWasTold ==
    \A i \in DOMAIN table :
        (Mine(i) /\ table[i].exiting) => kid[i].told # {}

(* just_spawn: when the master sleeps after a reload, every child of an      *)
(* older configuration has been told to quit.                                *)
OldTurnedOut ==
    stage = "suspend" => \A i \in Slots :
        (Mine(i) /\ kid[i].gen < cycle) => table[i].exiting

(* The flag live: with no pass of ngx_reap_children() missing, the master    *)
(* never takes the exit while a child of its own is up.                      *)
ExitsLast == (stage = "gone" /\ ~unseen) => \A i \in Slots : ~Mine(i)

(* Once the master knows that it is to end, it starts no process.            *)
NoSpawnAtTheEnd ==
    [][Ending => \A i \in Slots : kid[i].state = "none" => kid'[i].state = "none"]_vars

(* TERM or QUIT ends the master, with SIGKILL if need be.                    *)
EndsInTheEnd == Ending ~> stage = "gone"

(* A role of the current configuration that is not served comes back, if no  *)
(* fork failed, no child gave up with code 2, and nothing was told to stop.  *)
Served(role) == \E i \in DOMAIN table :
    Mine(i) /\ table[i].role = role /\ ~table[i].exiting /\ kid[i].gen = cycle
Stopping == \/ Ending \/ stage = "gone"
            \/ flags \cap {"noaccept", "noaccepting"} # {}
            \/ forkFails > 0 \/ fatals > 0
ComesBack == \A role \in {"worker", "cache manager"} :
    (\E n \in DOMAIN Roster : Roster[n] = role) => []<>(Served(role) \/ Stopping)

(* The comment of ngx_process_cycle.c:437: the master leaves when there is   *)
(* no child left.                                                            *)
LeavesNoOrphan == stage = "gone" => \A i \in Slots : ~Mine(i)

(* The comment of ngx_process_cycle.c:575: ngx_noaccepting says that the     *)
(* children are stopping, so while it is 1 no worker is left that goes on.    *)
NoAcceptingMeansStopping ==
    (stage = "suspend" /\ "noaccepting" \in flags) =>
        \A i \in Slots : Mine(i) => table[i].exiting
=============================================================================
