-------------------------------- MODULE Daemon --------------------------------
(***************************************************************************)
(* The commands start --daemon, stop and restart of the command line       *)
(* (crates/openstack/src/main.rs): processes that look at, write and       *)
(* remove the lock, pid and metadata files of one data directory, spawn    *)
(* the server, ask it to stop over HTTP and signal it.                     *)
(*                                                                         *)
(* Nothing but the file system is shared, so every file operation, every   *)
(* probe and every signal is a step of its own, any of them may fail, and  *)
(* several commands may run at once or be interrupted.  The server is      *)
(* reduced to what they can see: it boots, answers on the port, shuts down *)
(* and is gone; Snapshots models the rest.  All servers use the same port. *)
(* Process ids are not reused.  status and logs change nothing and are     *)
(* left out.                                                               *)
(***************************************************************************)
EXTENDS Naturals, Sequences, FiniteSets

CONSTANTS
    Users,       \* terminals: each runs one command at a time
    None,
    MaxCommands, \* bound: commands in a behaviour
    MaxServers   \* bound: servers in a behaviour

ASSUME DaemonAssumption == MaxCommands \in Nat /\ MaxServers \in Nat /\ None \notin Nat

VARIABLES
    lock,      \* whether openstack.lock exists
    pidFile,   \* openstack.pid: None, Empty or a pid
    metaFile,  \* openstack.meta.json: the pid in it
    servers,   \* the state of every server spawned, by pid
    cli,       \* per user: the command, where it is, and the pid it holds
    commands,  \* number of commands so far
    \* History, read by the properties only:
    strays,    \* servers whose start ended before both files were written
    disturbed, \* two commands have overlapped, or the pid of a process could not be read
    robbed     \* files were removed under a server, or under a command that holds the lock

vars == <<lock, pidFile, metaFile, servers, cli, commands, strays, disturbed, robbed>>
stateFiles == <<lock, pidFile, metaFile>>
history == <<strays, disturbed, robbed>>

\* A file between being truncated and being filled.
Empty == 0

Idle == [op |-> None, pc |-> "idle", pid |-> None, file |-> 0, then |-> None]

Init ==
    /\ lock = FALSE
    /\ pidFile = None
    /\ metaFile = None
    /\ servers = <<>>
    /\ cli = [u \in Users |-> Idle]
    /\ commands = 0
    /\ strays = {}
    /\ disturbed = FALSE
    /\ robbed = FALSE

-----------------------------------------------------------------------------
(* The server, as the commands see it *)

Alive(p) == p \in DOMAIN servers /\ servers[p] # "dead"
Answers(p) == p \in DOMAIN servers /\ servers[p] \in {"serve", "exit"}

Becomes(p, s) ==
    /\ servers' = [servers EXCEPT ![p] = s]
    /\ UNCHANGED <<stateFiles, cli, commands, history>>

\* The port is bound, unless another server has it.
Bind(p) ==
    /\ servers[p] = "boot"
    /\ Becomes(p, IF \E q \in DOMAIN servers : Answers(q) THEN "dead" ELSE "serve")

\* A start that fails, a crash, the end of a shutdown, or of a process that was signalled.
Gone(p) == servers[p] # "dead" /\ Becomes(p, "dead")

Server(p) == Bind(p) \/ Gone(p)

-----------------------------------------------------------------------------
(* Commands *)

At(u, pc) == cli[u].pc = pc
Goto(u, pc) == cli' = [cli EXCEPT ![u].pc = pc]
Finish(u) == cli' = [cli EXCEPT ![u] = Idle]

Begin(u, op) ==
    /\ At(u, "idle")
    /\ commands < MaxCommands
    /\ commands' = commands + 1
    /\ cli' = [cli EXCEPT ![u] = [Idle EXCEPT !.op = op,
                                              !.pc = IF op = "start" THEN "recover" ELSE "stop"]]
    /\ disturbed' = (disturbed \/ \E v \in Users : ~At(v, "idle"))
    /\ UNCHANGED <<stateFiles, servers, strays, robbed>>

Writing == {"openPid", "fillPid", "openMeta", "fillMeta"}

\* The lock was made by this command, which is not done with it.
Holding == {"spawn", "waitHealth"} \cup Writing

\* A start that ends between the spawn and the last of the writes leaves its server behind.
LeavesStray(u) ==
    strays' = IF cli[u].pc \in Writing THEN strays \cup {cli[u].pid} ELSE strays

\* The user gives up.
Interrupt(u) ==
    /\ ~At(u, "idle")
    /\ Finish(u)
    /\ LeavesStray(u)
    /\ UNCHANGED <<stateFiles, servers, commands, disturbed, robbed>>

\* remove_state_files, then the rest of the command.
ThenRemove(u, then) == cli' = [cli EXCEPT ![u].pc = "remove", ![u].file = 1, ![u].then = then]

Continue(u, then) ==
    IF then = "end" THEN Finish(u)
    ELSE cli' = [cli EXCEPT ![u] = [Idle EXCEPT !.op = cli[u].op, !.pc = then]]

Running(p) == p \in DOMAIN servers /\ servers[p] \in {"boot", "serve", "exit"}
Managed(p) == Running(p) /\ p \notin strays

Present(file) ==
    CASE file = 1 -> lock
      [] file = 2 -> pidFile # None
      [] file = 3 -> metaFile # None

Robs(u) ==
    /\ Present(cli[u].file)
    /\ \/ \E p \in DOMAIN servers : Managed(p)
       \/ \E v \in Users \ {u} : cli[v].pc \in Holding

\* One file at a time: the lock, the pid, the metadata.  One that is not there is as good.
RemoveFile(u) ==
    /\ At(u, "remove")
    /\ CASE cli[u].file = 1 -> lock' = FALSE /\ UNCHANGED <<pidFile, metaFile>>
         [] cli[u].file = 2 -> pidFile' = None /\ UNCHANGED <<lock, metaFile>>
         [] cli[u].file = 3 -> metaFile' = None /\ UNCHANGED <<lock, pidFile>>
    /\ IF cli[u].file = 3 THEN Continue(u, cli[u].then)
       ELSE cli' = [cli EXCEPT ![u].file = @ + 1]
    /\ robbed' = (robbed \/ Robs(u))
    /\ UNCHANGED <<servers, commands, strays, disturbed>>

\* Any other error ends the command, a restart before its second half.
RemoveFails(u) ==
    /\ At(u, "remove")
    /\ Finish(u)
    /\ UNCHANGED <<stateFiles, servers, commands, history>>

\* SIGTERM, for which the server has no handler, and SIGKILL.
Signal(p) == servers' = IF Alive(p) THEN [servers EXCEPT ![p] = "dying"] ELSE servers

-----------------------------------------------------------------------------
(* daemon_start *)

\* A process that is there, or what cannot be read, which counts as nobody.
ReadPid(alive, nobody) ==
    \/ Alive(pidFile) /\ alive /\ UNCHANGED disturbed
    \/ nobody /\ disturbed' = (disturbed \/ Alive(pidFile))

\* create_dir_all, which may fail, and recover_stale_state.
Recover(u) ==
    /\ At(u, "recover")
    /\ \/ Finish(u) /\ UNCHANGED disturbed
       \/ ReadPid(Goto(u, "checkLock"), ThenRemove(u, "checkLock"))
    /\ UNCHANGED <<stateFiles, servers, commands, strays, robbed>>

\* A lock that cannot be looked at counts as absent.
CheckLock(u) ==
    /\ At(u, "checkLock")
    /\ (lock /\ Goto(u, "checkPid")) \/ Goto(u, "create")
    /\ UNCHANGED <<stateFiles, servers, commands, history>>

\* "already running", or a lock nobody holds.
CheckPid(u) ==
    /\ At(u, "checkPid")
    /\ ReadPid(Finish(u), ThenRemove(u, "create"))
    /\ UNCHANGED <<stateFiles, servers, commands, strays, robbed>>

\* Mutant: a lock that is there is taken over.
CreateLock_Truncates(u) ==
    /\ At(u, "create")
    /\ lock' = TRUE
    /\ Goto(u, "spawn")
    /\ UNCHANGED <<pidFile, metaFile, servers, commands, history>>

\* create_new: it fails when the lock is there.
CreateLock(u) ==
    /\ At(u, "create")
    /\ lock' = TRUE
    /\ IF lock THEN Finish(u) ELSE Goto(u, "spawn")
    /\ UNCHANGED <<pidFile, metaFile, servers, commands, history>>

Spawn(u) ==
    /\ At(u, "spawn")
    /\ Len(servers) < MaxServers
    /\ servers' = Append(servers, "boot")
    /\ cli' = [cli EXCEPT ![u].pid = Len(servers) + 1, ![u].pc = "openPid"]
    /\ UNCHANGED <<stateFiles, commands, history>>

\* The log cannot be opened or the process not made: the lock stays.
SpawnFails(u) ==
    /\ At(u, "spawn")
    /\ Finish(u)
    /\ UNCHANGED <<stateFiles, servers, commands, history>>

\* tokio::fs::write, twice: what was removed since it was opened stays removed.
WritePid(u) ==
    /\ \/ At(u, "openPid") /\ pidFile' = Empty /\ Goto(u, "fillPid")
       \/ /\ At(u, "fillPid")
          /\ pidFile' = IF pidFile = None THEN None ELSE cli[u].pid
          /\ Goto(u, "openMeta")
    /\ UNCHANGED <<lock, metaFile, servers, commands, history>>

WriteMeta(u) ==
    /\ \/ At(u, "openMeta") /\ metaFile' = Empty /\ Goto(u, "fillMeta")
       \/ /\ At(u, "fillMeta")
          /\ metaFile' = IF metaFile = None THEN None ELSE cli[u].pid
          /\ Goto(u, "waitHealth")
    /\ UNCHANGED <<lock, pidFile, servers, commands, history>>

\* Either file cannot be opened, or not be written: the command ends and the server runs on.
WriteFails(u) ==
    /\ cli[u].pc \in Writing
    /\ Finish(u)
    /\ LeavesStray(u)
    /\ UNCHANGED <<stateFiles, servers, commands, disturbed, robbed>>

\* wait_for_health: whoever has the port answers.
Healthy(u) ==
    /\ At(u, "waitHealth")
    /\ \E p \in DOMAIN servers : Answers(p)
    /\ Finish(u)
    /\ UNCHANGED <<stateFiles, servers, commands, history>>

\* 15 seconds without an answer in time, though a server may have come up since the last probe.
HealthTimeout(u) ==
    /\ At(u, "waitHealth")
    /\ Signal(cli[u].pid)
    /\ ThenRemove(u, "end")
    /\ UNCHANGED <<stateFiles, commands, history>>

-----------------------------------------------------------------------------
(* daemon_stop and daemon_restart *)

\* daemon_restart goes on with daemon_start.
AfterStop(u) == IF cli[u].op = "restart" THEN "recover" ELSE "end"

\* No metadata, or none that can be looked at: "not running".
MetaExists(u) ==
    /\ At(u, "stop")
    /\ (metaFile # None /\ Goto(u, "readMeta")) \/ Continue(u, AfterStop(u))
    /\ UNCHANGED <<stateFiles, servers, commands, history>>

\* A file that is empty, gone by now or cannot be read is an error.
ReadMeta(u) ==
    /\ At(u, "readMeta")
    /\ \/ Finish(u)
       \/ /\ metaFile \notin {None, Empty}
          /\ cli' = [cli EXCEPT ![u].pid = metaFile, ![u].pc = "post"]
    /\ UNCHANGED <<stateFiles, servers, commands, history>>

\* The action "kill" reaches whoever has the port, or nobody: errors and the time
\* limit of the client are ignored.
PostKill(u) ==
    /\ At(u, "post")
    /\ \/ \E p \in DOMAIN servers : Answers(p) /\ servers' = [servers EXCEPT ![p] = "exit"]
       \/ UNCHANGED servers
    /\ Goto(u, "waitExit")
    /\ UNCHANGED <<stateFiles, commands, history>>

\* wait_for_exit succeeds.
ExitSeen(u) ==
    /\ cli[u].pc \in {"waitExit", "waitTerm", "waitKill"}
    /\ ~Alive(cli[u].pid)
    /\ ThenRemove(u, AfterStop(u))
    /\ UNCHANGED <<stateFiles, servers, commands, history>>

\* Mutant: the last wait has no limit.
ExitTimeout_Forever(u) ==
    /\ At(u, "waitExit") /\ Alive(cli[u].pid)
    /\ Goto(u, "waitTerm")
    /\ UNCHANGED <<stateFiles, servers, commands, history>>

\* 8 seconds: SIGTERM.  4 more: SIGKILL.  2 more: the files go all the same.
ExitTimeout(u) ==
    /\ Alive(cli[u].pid)
    /\ \/ At(u, "waitExit") /\ Signal(cli[u].pid) /\ Goto(u, "waitTerm")
       \/ At(u, "waitTerm") /\ Signal(cli[u].pid) /\ Goto(u, "waitKill")
       \/ At(u, "waitKill") /\ UNCHANGED servers /\ ThenRemove(u, AfterStop(u))
    /\ UNCHANGED <<stateFiles, commands, history>>

-----------------------------------------------------------------------------

Command(u) ==
    \/ RemoveFile(u) \/ RemoveFails(u)
    \/ Recover(u) \/ CheckLock(u) \/ CheckPid(u) \/ CreateLock(u)
    \/ Spawn(u) \/ SpawnFails(u) \/ WritePid(u) \/ WriteMeta(u) \/ WriteFails(u)
    \/ Healthy(u) \/ HealthTimeout(u)
    \/ MetaExists(u) \/ ReadMeta(u) \/ PostKill(u) \/ ExitSeen(u) \/ ExitTimeout(u)

Next ==
    \/ \E u \in Users : Command(u) \/ Interrupt(u)
    \/ \E u \in Users, op \in {"start", "stop", "restart"} : Begin(u, op)
    \/ \E p \in DOMAIN servers : Server(p)

\* A command that runs is scheduled; a server need not get anywhere.
Fairness == \A u \in Users : WF_vars(Command(u))

Spec == Init /\ [][Next]_vars /\ Fairness

-----------------------------------------------------------------------------
(* Properties *)

Pids == 1..MaxServers
Pcs == {"idle", "remove", "recover", "checkLock", "checkPid", "create", "spawn", "openPid", "fillPid",
        "openMeta", "fillMeta", "waitHealth", "stop", "readMeta", "post", "waitExit", "waitTerm",
        "waitKill"}

ServerStates == {"boot", "serve", "exit", "dying", "dead"}

CliRecords ==
    [op : {None, "start", "stop", "restart"}, pc : Pcs, pid : {None} \cup Pids, file : 0..3,
     then : {None, "checkLock", "create", "recover", "end"}]

\* Every variable has its type.
TypeOK ==
    /\ lock \in BOOLEAN /\ disturbed \in BOOLEAN /\ robbed \in BOOLEAN
    /\ strays \subseteq Pids
    /\ pidFile \in {None, Empty} \cup Pids
    /\ metaFile \in {None, Empty} \cup Pids
    /\ servers \in Seq(ServerStates) /\ Len(servers) <= MaxServers
    /\ cli \in [Users -> CliRecords]
    /\ commands \in 0..MaxCommands

\* Of the servers whose start got as far as its files (a start that is cut off or cannot write
\* them leaves one behind that nothing names), at most one runs, and whenever no command holds
\* the lock all three files name it, so that stop finds it: create_new lets one start in, and
\* nothing that crashes, times out or fails loses track of it.  This lasts until files are
\* removed under a server or a lock holder, and commands that come one at a time never do so
\* (daemon_start, daemon_stop, recover_stale_state, remove_state_files).
ServerIsTracked ==
    /\ TypeOK
    /\ robbed => disturbed
    /\ ~robbed =>
        /\ \A p, q \in DOMAIN servers : Managed(p) /\ Managed(q) => p = q
        /\ (\A u \in Users : cli[u].pc \notin Holding) =>
               \A p \in DOMAIN servers : Managed(p) => lock /\ pidFile = p /\ metaFile = p

\* Every command comes back to the prompt, whatever the server and other commands do: its
\* waits have limits (wait_for_health, wait_for_exit).
CommandsEnd == \A u \in Users : ~At(u, "idle") ~> At(u, "idle")
===============================================================================
