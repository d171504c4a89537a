---------------------------- MODULE DaemonProofs ----------------------------
(***************************************************************************)
(* For any number of users, commands and servers, overlapping, interrupted *)
(* or failing anywhere: until files are removed under a server or under a  *)
(* command that holds the lock, one server at most has got as far as its   *)
(* files, and whenever nobody holds the lock all three name it.  Commands  *)
(* that come one at a time never remove files so.                          *)
(***************************************************************************)
EXTENDS Daemon, TLAPS

\* A server that was signalled no longer counts: it is on its way out.
NoneManaged == \A p \in DOMAIN servers : ~Managed(p)

Only(pid) == \A p \in DOMAIN servers : Managed(p) => p = pid

Tracked == \A p \in DOMAIN servers : Managed(p) => lock /\ pidFile = p /\ metaFile = p

Holds(u) == cli[u].pc \in Holding

\* What the command that holds the lock has established where it is.
Stage(u) ==
    /\ Holds(u) => lock
    /\ cli[u].pc = "spawn" => NoneManaged
    /\ cli[u].pc \in Writing \cup {"waitHealth"} => Only(cli[u].pid)
    /\ cli[u].pc = "fillPid" => pidFile # None
    /\ cli[u].pc \in {"openMeta", "fillMeta", "waitHealth"} => pidFile = cli[u].pid
    /\ cli[u].pc = "fillMeta" => metaFile # None
    /\ cli[u].pc = "waitHealth" => metaFile = cli[u].pid

\* The lock is held by one command at most, and what it has established stands; when nobody
\* holds it, the files name the server.
HoldInv ==
    ~robbed => /\ \A u, v \in Users : Holds(u) /\ Holds(v) => u = v
               /\ \A u \in Users : Stage(u)
               /\ (\A u \in Users : ~Holds(u)) => Tracked

\* What a command that nobody else disturbs has established, where it is about to remove files.
Alone(u) ==
    /\ cli[u].pc \in {"remove", "waitTerm", "waitKill"} => NoneManaged
    /\ cli[u].pc \in {"post", "waitExit"} => Only(cli[u].pid)

\* Commands come one at a time.
SoloInv ==
    ~disturbed => /\ ~robbed
                  /\ \A u, v \in Users : ~At(u, "idle") /\ ~At(v, "idle") => u = v
                  /\ \A u \in Users : Alone(u)

Continuations == {"checkLock", "create", "recover", "end"}

\* Where files are removed, the command knows which is next and how it goes on; where a pid
\* is written, it has one.
RemoveInv ==
    \A u \in Users :
        /\ At(u, "remove") => cli[u].file \in 1..3 /\ cli[u].then \in Continuations
        /\ cli[u].pc \in Writing => cli[u].pid \in Pids

IInv == TypeOK /\ RemoveInv /\ HoldInv /\ SoloInv

FileTypes == lock \in BOOLEAN /\ pidFile \in {None, Empty} \cup Pids /\ metaFile \in {None, Empty} \cup Pids
ServerTypes == servers \in Seq(ServerStates) /\ Len(servers) <= MaxServers

\* Nothing is there before the first command.
LEMMA InitInv == Init => IInv
<1> SUFFICES ASSUME Init PROVE IInv
  OBVIOUS
<1>1. \A u \in Users : cli[u] = Idle
  BY DEF Init
<1>2. Idle \in CliRecords /\ Idle.pc = "idle"
  BY DaemonAssumption DEF Idle, CliRecords, Pcs
<1>3. TypeOK
  <2>1. cli \in [Users -> CliRecords]
    BY <1>2 DEF Init
  <2>2. servers \in Seq(ServerStates) /\ Len(servers) = 0
    BY DEF Init
  <2>3. Len(servers) <= MaxServers /\ commands \in 0..MaxCommands
    BY <2>2, DaemonAssumption DEF Init
  <2>4. lock \in BOOLEAN /\ disturbed \in BOOLEAN /\ robbed \in BOOLEAN /\ strays \subseteq Pids
    BY DEF Init
  <2>5. pidFile \in {None, Empty} \cup Pids /\ metaFile \in {None, Empty} \cup Pids
    BY DEF Init
  <2> QED BY <2>1, <2>2, <2>3, <2>4, <2>5 DEF TypeOK
<1>4. RemoveInv
  BY <1>1, <1>2 DEF RemoveInv, At, Writing
<1>5. HoldInv
  BY <1>1, <1>2 DEF Init, HoldInv, Stage, Tracked, Holds, Holding, Writing
<1>6. SoloInv
  BY <1>1, <1>2 DEF Init, SoloInv, Alone, At
<1> QED BY <1>3, <1>4, <1>5, <1>6 DEF IInv

\* What the files and the servers are.
LEMMA Types ==
    ASSUME IInv
    PROVE  /\ FileTypes /\ ServerTypes
           /\ strays \subseteq Pids /\ disturbed \in BOOLEAN /\ robbed \in BOOLEAN
           /\ cli \in [Users -> CliRecords]
           /\ DOMAIN servers \subseteq Pids
           /\ None \notin DOMAIN servers /\ Empty \notin DOMAIN servers
  BY DaemonAssumption DEF IInv, TypeOK, Pids, FileTypes, ServerTypes, Empty

-----------------------------------------------------------------------------
(* The lock: a step of the one that holds it, and a step beside it *)

\* A command that does not hold the lock and does not take it: no server is added, and files
\* go only when that harms nobody.
LEMMA Bystander ==
    ASSUME IInv, NEW u \in Users, ~Holds(u), NEW c \in CliRecords, cli' = [cli EXCEPT ![u] = c],
           c.pc \notin Holding,
           \A p \in DOMAIN servers' : Managed(p)' => p \in DOMAIN servers /\ Managed(p),
           ~robbed' => ~robbed,
           ~robbed' => \/ UNCHANGED stateFiles
                       \/ NoneManaged /\ \A v \in Users : ~Holds(v)
    PROVE  HoldInv'
<1>1. cli'[u] = c /\ \A v \in Users : v # u => cli'[v] = cli[v]
  BY Types
<1>2. ~Holds(u)' /\ \A v \in Users : v # u => (Holds(v)' <=> Holds(v))
  BY <1>1 DEF Holds
<1>3. Stage(u)'
  BY <1>1 DEF Stage, Holds, Holding, Writing
<1>4. NoneManaged => NoneManaged' /\ Tracked'
  BY DEF NoneManaged, Tracked
<1>5. ASSUME ~robbed' PROVE HoldInv'
  <2>1. /\ \A v, w \in Users : Holds(v) /\ Holds(w) => v = w
        /\ \A v \in Users : Stage(v)
        /\ (\A v \in Users : ~Holds(v)) => Tracked
    BY <1>5 DEF IInv, HoldInv
  <2>2. CASE UNCHANGED stateFiles
    <3>1. Tracked => Tracked'
      BY <2>2 DEF Tracked, stateFiles
    <3>2. ASSUME NEW v \in Users, v # u PROVE Stage(v)'
      <4>1. cli'[v] = cli[v] /\ Stage(v)
        BY <1>1, <2>1, <3>2
      <4>2. Only(cli[v].pid) => \A p \in DOMAIN servers' : Managed(p)' => p = cli[v].pid
        BY DEF Only
      <4> QED BY <1>4, <2>2, <4>1, <4>2 DEF Stage, Only, stateFiles, Holds
    <3> QED BY <1>2, <1>3, <2>1, <3>1, <3>2 DEF HoldInv
  <2>3. CASE NoneManaged /\ \A v \in Users : ~Holds(v)
    <3>1. \A v \in Users : ~Holds(v)'
      BY <1>2, <2>3
    <3>2. \A v \in Users : Stage(v)'
      BY <3>1 DEF Stage, Holds, Holding, Writing
    <3> QED BY <1>4, <2>3, <3>1, <3>2 DEF HoldInv
  <2> QED BY <1>5, <2>2, <2>3
<1>6. CASE robbed'
  BY <1>6 DEF HoldInv
<1> QED BY <1>5, <1>6

\* The command that holds the lock, takes it or is done with it.
LEMMA Holder ==
    ASSUME IInv, NEW u \in Users, NEW c \in CliRecords, cli' = [cli EXCEPT ![u] = c],
           ~robbed' => ~robbed,
           ~robbed => \A v \in Users : v # u => ~Holds(v),
           ~robbed' => IF c.pc \in Holding THEN Stage(u)' ELSE Tracked'
    PROVE  HoldInv'
<1>1. cli'[u] = c /\ \A v \in Users : v # u => cli'[v] = cli[v]
  BY Types
<1>2. ASSUME ~robbed' PROVE HoldInv'
  <2>1. \A v \in Users : v # u => ~Holds(v)'
    BY <1>1, <1>2 DEF Holds
  <2>2. \A v \in Users : ~Holds(v)' => Stage(v)'
    BY DEF Stage, Holds, Holding, Writing
  <2>3. Holds(u)' <=> c.pc \in Holding
    BY <1>1 DEF Holds
  <2> QED BY <1>2, <2>1, <2>2, <2>3 DEF HoldInv
<1>3. CASE robbed'
  BY <1>3 DEF HoldInv
<1> QED BY <1>2, <1>3

\* While one command holds the lock, no other does.
LEMMA OneHolder ==
    ASSUME IInv, NEW u \in Users, Holds(u)
    PROVE  ~robbed => (\A v \in Users : v # u => ~Holds(v)) /\ Stage(u)
  BY DEF IInv, HoldInv

\* A step of one command: all the others are idle when commands come one at a time.
LEMMA StepKeeps ==
    ASSUME IInv, NEW u \in Users, ~At(u, "idle"), NEW c \in CliRecords, cli' = [cli EXCEPT ![u] = c],
           FileTypes', ServerTypes', strays' \subseteq Pids, commands' = commands,
           disturbed' \in BOOLEAN, robbed' \in BOOLEAN,
           c.pc = "remove" => c.file \in 1..3 /\ c.then \in Continuations,
           c.pc \in Writing => c.pid \in Pids,
           HoldInv',
           ~disturbed' => ~disturbed /\ ~robbed' /\ Alone(u)'
    PROVE  IInv'
<1>1. cli \in [Users -> CliRecords]
  BY Types
<1>2. cli' \in [Users -> CliRecords] /\ cli'[u] = c /\ \A v \in Users : v # u => cli'[v] = cli[v]
  BY <1>1
<1>3. TypeOK'
  BY <1>2 DEF IInv, TypeOK, FileTypes, ServerTypes
<1>4. RemoveInv'
  BY <1>2 DEF IInv, RemoveInv, At
<1>5. ASSUME ~disturbed' PROVE \A v \in Users : v # u => cli'[v].pc = "idle"
  BY <1>2, <1>5 DEF IInv, SoloInv, At
<1>6. SoloInv'
  BY <1>5 DEF SoloInv, At, Alone
<1> QED BY <1>3, <1>4, <1>6 DEF IInv

\* When commands come one at a time and this one does not hold the lock, the files name the server.
LEMMA SoloTracked ==
    ASSUME IInv, NEW u \in Users, ~At(u, "idle"), ~Holds(u)
    PROVE  ~disturbed => ~robbed /\ Tracked /\ Alone(u) /\ \A v \in Users : ~Holds(v)
<1> SUFFICES ASSUME ~disturbed PROVE ~robbed /\ Tracked /\ Alone(u) /\ \A v \in Users : ~Holds(v)
  OBVIOUS
<1>1. ~robbed /\ Alone(u) /\ \A v \in Users : v # u => cli[v].pc = "idle"
  BY DEF IInv, SoloInv, At
<1>2. \A v \in Users : ~Holds(v)
  BY <1>1 DEF Holds, Holding, Writing
<1> QED BY <1>1, <1>2 DEF IInv, HoldInv

\* A step beside the lock that leaves the files and the history alone.
LEMMA Beside ==
    ASSUME IInv, NEW u \in Users, ~At(u, "idle"), ~Holds(u), NEW c \in CliRecords, cli' = [cli EXCEPT ![u] = c],
           c.pc \notin Holding, UNCHANGED <<stateFiles, commands, strays, robbed>>,
           disturbed' \in BOOLEAN, ServerTypes',
           \A p \in DOMAIN servers' : Managed(p)' => p \in DOMAIN servers /\ Managed(p),
           c.pc = "remove" => c.file \in 1..3 /\ c.then \in Continuations,
           ~disturbed' => ~disturbed /\ Alone(u)'
    PROVE  IInv'
<1>1. FileTypes' /\ strays' \subseteq Pids /\ commands' = commands /\ robbed' = robbed /\ robbed' \in BOOLEAN
  BY Types DEF stateFiles, FileTypes
<1>2. HoldInv'
  <2>1. UNCHANGED stateFiles /\ (~robbed' => ~robbed)
    BY <1>1
  <2> QED BY <2>1, Bystander
<1>3. ~disturbed' => ~disturbed /\ ~robbed' /\ Alone(u)'
  BY <1>1 DEF IInv, SoloInv
<1>4. c.pc \in Writing => c.pid \in Pids
  BY DEF Holding
<1> QED BY <1>1, <1>2, <1>3, <1>4, StepKeeps

IdleRecord == Idle \in CliRecords /\ Idle.pc = "idle"

LEMMA IdleIsRecord == IdleRecord
  BY DaemonAssumption DEF IdleRecord, Idle, CliRecords, Pcs

\* A command beside the lock that is over.
LEMMA EndsBeside ==
    ASSUME IInv, NEW u \in Users, ~At(u, "idle"), ~Holds(u), Finish(u),
           UNCHANGED <<stateFiles, servers, commands, history>>
    PROVE  IInv'
<1>1. Idle \in CliRecords /\ Idle.pc = "idle" /\ Idle.pc \notin Holding
  BY IdleIsRecord DEF IdleRecord, Holding, Writing
<1>2. cli' = [cli EXCEPT ![u] = Idle] /\ cli'[u] = Idle
  BY Types DEF Finish
<1>3. UNCHANGED <<stateFiles, commands, strays, robbed>> /\ disturbed' = disturbed /\ disturbed' \in BOOLEAN
  BY Types DEF history
<1>4. ServerTypes' /\ \A p \in DOMAIN servers' : Managed(p)' => p \in DOMAIN servers /\ Managed(p)
  BY <1>3, Types DEF ServerTypes, Managed, Running
<1>5. Alone(u)'
  BY <1>1, <1>2 DEF Alone
<1> QED BY <1>1, <1>2, <1>3, <1>4, <1>5, Beside

\* A command beside the lock that goes on elsewhere, with its pid.
LEMMA GoesBeside ==
    ASSUME IInv, NEW u \in Users, ~At(u, "idle"), ~Holds(u), NEW pc \in Pcs \ Holding, pc # "remove", Goto(u, pc),
           UNCHANGED <<stateFiles, commands, history>>, ServerTypes',
           \A p \in DOMAIN servers' : Managed(p)' => p \in DOMAIN servers /\ Managed(p),
           (~disturbed /\ cli'[u].pc = pc /\ cli'[u].pid = cli[u].pid) => Alone(u)'
    PROVE  IInv'
<1> DEFINE c == [cli[u] EXCEPT !.pc = pc]
<1>1. cli[u] \in CliRecords /\ cli \in [Users -> CliRecords]
  BY Types
<1>2. c \in CliRecords /\ c.pc = pc /\ c.pid = cli[u].pid
  BY <1>1 DEF CliRecords
<1>3. cli' = [cli EXCEPT ![u] = c]
  BY <1>1 DEF Goto
<1> HIDE DEF c
<1>4. cli'[u] = c
  BY <1>1, <1>3
<1>5. ~disturbed => Alone(u)'
  BY <1>2, <1>4
<1>6. UNCHANGED <<stateFiles, commands, strays, robbed>> /\ disturbed' = disturbed /\ disturbed' \in BOOLEAN
  BY Types DEF history
<1> QED BY <1>2, <1>3, <1>5, <1>6, Beside

\* remove_state_files is begun beside the lock: by a command alone, when no server runs.
LEMMA RemovalBegins ==
    ASSUME IInv, NEW u \in Users, ~At(u, "idle"), ~Holds(u), NEW then \in Continuations, ThenRemove(u, then),
           UNCHANGED <<stateFiles, commands, strays, robbed>>, ServerTypes', disturbed' \in BOOLEAN,
           \A p \in DOMAIN servers' : Managed(p)' => p \in DOMAIN servers /\ Managed(p),
           ~disturbed' => ~disturbed /\ NoneManaged'
    PROVE  IInv'
<1> DEFINE c == [cli[u] EXCEPT !.pc = "remove", !.file = 1, !.then = then]
<1>1. c \in CliRecords /\ c.pc = "remove" /\ c.file = 1 /\ c.then = then
  <2>1. cli[u] \in CliRecords
    BY Types
  <2>2. "remove" \in Pcs /\ 1 \in 0..3
    BY DEF Pcs
  <2> QED BY <2>1, <2>2 DEF CliRecords, Continuations
<1>2. cli' = [cli EXCEPT ![u] = c]
  BY Types DEF ThenRemove
<1> HIDE DEF c
<1>3. cli'[u] = c /\ c.pc \notin Holding
  BY <1>1, <1>2, Types DEF Holding, Writing
<1>4. ~disturbed' => ~disturbed /\ Alone(u)'
  BY <1>1, <1>3 DEF Alone
<1>5. c.file \in 1..3
  BY <1>1
<1> QED BY <1>1, <1>2, <1>3, <1>4, <1>5, Beside

-----------------------------------------------------------------------------
(* remove_state_files *)

\* The rest of a command after its files are gone, or were not there.
LEMMA Continued ==
    ASSUME IInv, NEW u \in Users, NEW then \in Continuations, Continue(u, then)
    PROVE  \E c \in CliRecords : /\ cli' = [cli EXCEPT ![u] = c] /\ cli'[u] = c
                                 /\ c.pc \in {"idle", "checkLock", "create", "recover"}
<1>1. CASE then = "end"
  BY <1>1, IdleIsRecord, Types DEF Continue, Finish, IdleRecord
<1>2. CASE then # "end"
  <2> DEFINE c == [Idle EXCEPT !.op = cli[u].op, !.pc = then]
  <2>1. c \in CliRecords /\ c.pc = then
    <3>1. then \in Pcs
      BY <1>2 DEF Pcs, Continuations
    <3>2. cli[u].op \in {None, "start", "stop", "restart"}
      BY Types DEF CliRecords
    <3>3. Idle \in CliRecords
      BY IdleIsRecord DEF IdleRecord
    <3> QED BY <3>1, <3>2, <3>3 DEF CliRecords
  <2>2. cli' = [cli EXCEPT ![u] = c]
    BY <1>2 DEF Continue
  <2> HIDE DEF c
  <2>3. cli'[u] = c
    BY <2>2, Types
  <2> QED BY <1>2, <2>1, <2>2, <2>3 DEF Continuations
<1> QED BY <1>1, <1>2

\* One file is removed: by a command alone when no server runs, and by any when the history says
\* so or nobody is harmed.
LEMMA RemoveFileStep == ASSUME IInv, NEW u \in Users, RemoveFile(u) PROVE IInv'
<1>1. /\ ~At(u, "idle") /\ At(u, "remove") /\ cli[u].file \in 1..3 /\ cli[u].then \in Continuations
      /\ ~Holds(u)
  BY DEF RemoveFile, At, IInv, RemoveInv, Holds, Holding, Writing
<1>2. UNCHANGED <<servers, commands, strays, disturbed>> /\ robbed' = (robbed \/ Robs(u))
  BY DEF RemoveFile
<1>3. FileTypes' /\ (~Present(cli[u].file) => UNCHANGED stateFiles)
  <2>1. CASE cli[u].file = 1
    <3>1. lock' = FALSE /\ pidFile' = pidFile /\ metaFile' = metaFile /\ (Present(cli[u].file) <=> lock)
      BY <2>1 DEF RemoveFile, Present
    <3>2. lock \in BOOLEAN /\ FileTypes
      BY Types DEF FileTypes
    <3>3. ~lock => lock' = lock
      BY <3>1, <3>2
    <3> QED BY <3>1, <3>2, <3>3 DEF FileTypes, stateFiles
  <2>2. CASE cli[u].file = 2
    BY <2>2, Types DEF RemoveFile, FileTypes, Present, stateFiles
  <2>3. CASE cli[u].file = 3
    BY <2>3, Types DEF RemoveFile, FileTypes, Present, stateFiles
  <2> QED BY <1>1, <2>1, <2>2, <2>3
<1>4. ServerTypes' /\ \A p \in DOMAIN servers' : Managed(p)' <=> p \in DOMAIN servers /\ Managed(p)
  BY <1>2, Types DEF ServerTypes, Managed, Running
<1>5. PICK c \in CliRecords : /\ cli' = [cli EXCEPT ![u] = c] /\ cli'[u] = c
                              /\ c.pc \in {"idle", "checkLock", "create", "recover", "remove"}
                              /\ c.pc = "remove" => c.file \in 1..3 /\ c.then \in Continuations
  <2>1. CASE cli[u].file = 3
    <3>1. Continue(u, cli[u].then)
      BY <2>1 DEF RemoveFile
    <3> QED BY <1>1, <3>1, Continued
  <2>2. CASE cli[u].file # 3
    <3> DEFINE c == [cli[u] EXCEPT !.file = @ + 1]
    <3>1. cli[u] \in CliRecords /\ cli \in [Users -> CliRecords] /\ cli[u].file + 1 \in 1..3
      BY <1>1, <2>2, Types
    <3>2. c \in CliRecords /\ c.pc = "remove" /\ c.file \in 1..3 /\ c.then = cli[u].then
      BY <1>1, <3>1 DEF CliRecords, At
    <3>3. cli' = [cli EXCEPT ![u] = c]
      BY <2>2, <3>1 DEF RemoveFile
    <3> HIDE DEF c
    <3>4. cli'[u] = c
      BY <3>1, <3>3
    <3> QED BY <1>1, <3>2, <3>3, <3>4
  <2> QED BY <2>1, <2>2
<1>6. c.pc \notin Holding /\ c.pc \notin Writing
  BY <1>5 DEF Holding, Writing
<1>7. ~robbed' => \/ UNCHANGED stateFiles
                  \/ NoneManaged /\ \A v \in Users : ~Holds(v)
  BY <1>1, <1>2, <1>3 DEF Robs, NoneManaged, Holds
<1>8. HoldInv'
  BY <1>1, <1>2, <1>4, <1>5, <1>6, <1>7, Bystander
<1>9. ASSUME ~disturbed' PROVE ~disturbed /\ ~robbed' /\ Alone(u)'
  <2>1. ~robbed /\ Alone(u) /\ \A v \in Users : ~Holds(v)
    BY <1>1, <1>2, <1>9, SoloTracked
  <2>2. NoneManaged
    BY <1>1, <2>1 DEF Alone, At
  <2>3. ~Robs(u)
    BY <2>1, <2>2 DEF Robs, NoneManaged, Holds
  <2>4. NoneManaged'
    BY <1>4, <2>2 DEF NoneManaged
  <2> QED BY <1>2, <1>5, <1>9, <2>1, <2>3, <2>4 DEF Alone
<1>10. strays' \subseteq Pids /\ disturbed' \in BOOLEAN /\ robbed' \in BOOLEAN
  BY <1>2, Types
<1> QED BY <1>1, <1>2, <1>3, <1>4, <1>5, <1>6, <1>8, <1>9, <1>10, StepKeeps

LEMMA RemoveFailsStep == ASSUME IInv, NEW u \in Users, RemoveFails(u) PROVE IInv'
<1>1. ~At(u, "idle") /\ ~Holds(u)
  BY DEF RemoveFails, At, Holds, Holding, Writing
<1> QED BY <1>1, EndsBeside DEF RemoveFails

-----------------------------------------------------------------------------
(* daemon_start *)

\* The two looks at the pid: alone, what is not a process is no server.
LEMMA LookStep ==
    ASSUME IInv, NEW u \in Users, Recover(u) \/ CheckPid(u) PROVE IInv'
<1>1. /\ ~At(u, "idle") /\ ~Holds(u) /\ UNCHANGED <<stateFiles, servers, commands, strays, robbed>>
      /\ cli[u].pc \in {"recover", "checkPid"}
  BY DEF Recover, CheckPid, At, Holds, Holding, Writing
<1>2. ServerTypes' /\ \A p \in DOMAIN servers' : Managed(p)' <=> p \in DOMAIN servers /\ Managed(p)
  BY <1>1, Types DEF ServerTypes, Managed, Running
<1>3. {"checkLock", "create"} \subseteq Continuations /\ "checkLock" \in Pcs \ Holding
  BY DEF Pcs, Continuations, Holding, Writing
<1>4. CASE Finish(u) /\ UNCHANGED disturbed
  BY <1>1, <1>4, EndsBeside DEF history
<1>5. CASE Goto(u, "checkLock") /\ UNCHANGED disturbed
  <2>1. (cli'[u].pc = "checkLock") => Alone(u)'
    BY DEF Alone
  <2> QED BY <1>1, <1>2, <1>3, <1>5, <2>1, GoesBeside DEF history
<1>6. ASSUME NEW then \in Continuations, ThenRemove(u, then), disturbed' = (disturbed \/ Alive(pidFile)) PROVE IInv'
  <2>1. disturbed' \in BOOLEAN
    BY <1>6, Types
  <2>2. ~disturbed' => ~disturbed /\ NoneManaged'
    <3>1. ~disturbed' => ~disturbed /\ ~Alive(pidFile) /\ Tracked
      BY <1>1, <1>6, Types, SoloTracked
    <3>2. ~Alive(pidFile) /\ Tracked => NoneManaged
      BY DEF Tracked, NoneManaged, Managed, Running, Alive
    <3> QED BY <1>2, <3>1, <3>2 DEF NoneManaged
  <2> QED BY <1>1, <1>2, <1>6, <2>1, <2>2, RemovalBegins
<1> QED BY <1>3, <1>4, <1>5, <1>6 DEF Recover, CheckPid, ReadPid

\* A look at the lock decides nothing yet.
LEMMA CheckLockStep == ASSUME IInv, NEW u \in Users, CheckLock(u) PROVE IInv'
<1>1. ~At(u, "idle") /\ ~Holds(u) /\ UNCHANGED <<stateFiles, servers, commands, history>>
  BY DEF CheckLock, At, Holds, Holding, Writing
<1>2. ServerTypes' /\ \A p \in DOMAIN servers' : Managed(p)' => p \in DOMAIN servers /\ Managed(p)
  BY <1>1, Types DEF ServerTypes, Managed, Running, history
<1>3. {"checkPid", "create"} \subseteq Pcs \ Holding
  BY DEF Pcs, Holding, Writing
<1>4. cli'[u].pc \in {"checkPid", "create"} => Alone(u)'
  BY DEF Alone
<1>5. CASE Goto(u, "checkPid")
  BY <1>1, <1>2, <1>3, <1>4, <1>5, GoesBeside
<1>6. CASE Goto(u, "create")
  BY <1>1, <1>2, <1>3, <1>4, <1>6, GoesBeside
<1> QED BY <1>5, <1>6 DEF CheckLock

\* The lock is made by one command only, and only when there is no server.
LEMMA CreateLockStep == ASSUME IInv, NEW u \in Users, CreateLock(u) PROVE IInv'
<1>1. /\ ~At(u, "idle") /\ ~Holds(u) /\ UNCHANGED <<pidFile, metaFile, servers, commands, history>>
      /\ lock' = TRUE /\ cli[u].pc = "create"
  BY DEF CreateLock, At, Holds, Holding, Writing
<1>2. ServerTypes' /\ \A p \in DOMAIN servers' : Managed(p)' => p \in DOMAIN servers /\ Managed(p)
  BY <1>1, Types DEF ServerTypes, Managed, Running, history
<1>3. CASE lock
  <2>1. Finish(u) /\ UNCHANGED stateFiles
    BY <1>1, <1>3 DEF CreateLock, stateFiles
  <2> QED BY <1>1, <2>1, EndsBeside
<1>4. CASE ~lock
  <2> DEFINE c == [cli[u] EXCEPT !.pc = "spawn"]
  <2>1. cli[u] \in CliRecords /\ cli \in [Users -> CliRecords] /\ "spawn" \in Pcs
    BY Types DEF Pcs
  <2>2. c \in CliRecords /\ c.pc = "spawn"
    BY <2>1 DEF CliRecords
  <2>3. cli' = [cli EXCEPT ![u] = c]
    BY <1>4, <2>1 DEF CreateLock, Goto
  <2> HIDE DEF c
  <2>4. cli'[u] = c
    BY <2>1, <2>3
  <2>5. ~robbed => (\A v \in Users : ~Holds(v)) /\ Tracked
    BY <1>4 DEF IInv, HoldInv, Stage
  <2>6. ~robbed => NoneManaged'
    BY <1>2, <1>4, <2>5 DEF Tracked, NoneManaged
  <2>7. ~robbed => Stage(u)'
    BY <1>1, <2>2, <2>4, <2>6 DEF Stage, Writing
  <2>8. robbed' = robbed /\ strays' = strays /\ disturbed' = disturbed
    BY <1>1 DEF history
  <2>9. HoldInv'
    <3>1. c.pc \in Holding
      BY <2>2 DEF Holding
    <3> QED BY <2>2, <2>3, <2>5, <2>7, <2>8, <3>1, Holder
  <2>10. ~disturbed' => ~disturbed /\ ~robbed' /\ Alone(u)'
    BY <1>1, <2>2, <2>4, <2>8, SoloTracked DEF Alone
  <2>11. FileTypes' /\ strays' \subseteq Pids /\ disturbed' \in BOOLEAN /\ robbed' \in BOOLEAN /\ commands' = commands
    BY <1>1, <2>8, Types DEF FileTypes
  <2>12. c.pc # "remove" /\ c.pc \notin Writing
    BY <2>2 DEF Writing
  <2> QED BY <1>1, <1>2, <2>2, <2>3, <2>9, <2>10, <2>11, <2>12, StepKeeps
<1> QED BY <1>3, <1>4
\* A step of the command that holds the lock, before and after which it does.
LEMMA HoldsOn ==
    ASSUME IInv, NEW u \in Users, Holds(u), NEW c \in CliRecords, cli' = [cli EXCEPT ![u] = c],
           c.pc \in Holding, c.pc \in Writing => c.pid \in Pids,
           UNCHANGED <<commands, history>>, FileTypes', ServerTypes',
           ~robbed => Stage(u)'
    PROVE  IInv'
<1>1. ~At(u, "idle")
  BY DEF Holds, Holding, Writing, At
<1>2. robbed' = robbed /\ strays' = strays /\ disturbed' = disturbed /\ commands' = commands
  BY DEF history
<1>3. HoldInv'
  BY <1>2, OneHolder, Holder
<1>4. cli'[u] = c
  BY Types
<1>5. ~disturbed' => ~disturbed /\ ~robbed' /\ Alone(u)'
  <2>1. c.pc \notin {"remove", "waitTerm", "waitKill", "post", "waitExit"}
    BY DEF Holding, Writing
  <2> QED BY <1>2, <1>4, <2>1 DEF IInv, SoloInv, Alone
<1>6. c.pc # "remove"
  BY DEF Holding, Writing
<1>7. strays' \subseteq Pids /\ disturbed' \in BOOLEAN /\ robbed' \in BOOLEAN
  BY <1>2, Types
<1> QED BY <1>1, <1>2, <1>3, <1>5, <1>6, <1>7, StepKeeps

\* The command that holds the lock ends: what it leaves is tracked, or a stray.
LEMMA HolderEnds ==
    ASSUME IInv, NEW u \in Users, Holds(u), Finish(u), LeavesStray(u),
           UNCHANGED <<stateFiles, servers, commands, disturbed, robbed>>
    PROVE  IInv'
<1>1. ~At(u, "idle")
  BY DEF Holds, Holding, Writing, At
<1>2. Idle \in CliRecords /\ Idle.pc = "idle" /\ Idle.pc \notin Holding /\ Idle.pc \notin Writing
  BY IdleIsRecord DEF IdleRecord, Holding, Writing
<1>3. cli' = [cli EXCEPT ![u] = Idle] /\ cli'[u] = Idle
  BY Types DEF Finish
<1>4. strays' \subseteq Pids
  BY Types DEF LeavesStray, IInv, RemoveInv
<1>5. \A p \in DOMAIN servers' : Managed(p)' => p \in DOMAIN servers /\ Managed(p)
  BY DEF LeavesStray, Managed, Running
<1>6. ~robbed => Tracked'
  <2>1. ~robbed => Stage(u)
    BY OneHolder
  <2>2. CASE cli[u].pc = "spawn"
    BY <1>5, <2>1, <2>2 DEF Stage, NoneManaged, Tracked
  <2>3. CASE cli[u].pc \in Writing
    BY <1>5, <2>1, <2>3 DEF Stage, Only, Tracked, LeavesStray, Managed
  <2>4. CASE cli[u].pc = "waitHealth"
    BY <1>5, <2>1, <2>4 DEF Stage, Only, Tracked, stateFiles, Holds, Holding
  <2> QED BY <2>2, <2>3, <2>4 DEF Holds, Holding
<1>7. HoldInv'
  BY <1>2, <1>3, <1>6, OneHolder, Holder
<1>8. ~disturbed' => ~disturbed /\ ~robbed' /\ Alone(u)'
  BY <1>2, <1>3 DEF IInv, SoloInv, Alone
<1>9. FileTypes' /\ ServerTypes' /\ disturbed' \in BOOLEAN /\ robbed' \in BOOLEAN /\ commands' = commands
  BY Types DEF stateFiles, FileTypes, ServerTypes
<1> QED BY <1>1, <1>2, <1>3, <1>4, <1>7, <1>8, <1>9, StepKeeps

\* The one managed server from now on is the one spawned.
LEMMA SpawnStep == ASSUME IInv, NEW u \in Users, Spawn(u) PROVE IInv'
<1>1. UNCHANGED <<stateFiles, commands, history>> /\ cli[u].pc = "spawn" /\ Holds(u)
  BY DEF Spawn, At, Holds, Holding
<1>2. ~robbed => NoneManaged /\ lock
  BY <1>1, OneHolder DEF Stage
<1> DEFINE n == Len(servers) + 1
           c == [cli[u] EXCEPT !.pid = n, !.pc = "openPid"]
<1>3. n \in Pids /\ Len(servers) \in Nat
  BY Types, DaemonAssumption DEF Spawn, Pids, ServerTypes
<1>4. /\ servers' \in Seq(ServerStates) /\ Len(servers') = n
      /\ servers'[n] = "boot" /\ \A p \in DOMAIN servers : servers'[p] = servers[p]
      /\ \A p \in DOMAIN servers' : p = n \/ p \in DOMAIN servers
  BY Types DEF Spawn, ServerStates, ServerTypes
<1>5. ServerTypes'
  BY <1>3, <1>4, DaemonAssumption DEF Spawn, ServerTypes
<1>6. cli[u] \in CliRecords /\ cli \in [Users -> CliRecords]
  BY Types
<1>7. c \in CliRecords /\ c.pc = "openPid" /\ c.pid = n
  <2>1. "openPid" \in Pcs
    BY DEF Pcs
  <2> QED BY <1>3, <1>6, <2>1 DEF CliRecords
<1>8. cli' = [cli EXCEPT ![u] = c]
  BY <1>6 DEF Spawn
<1> HIDE DEF c, n
<1>9. cli'[u] = c
  BY <1>6, <1>8
<1>10. ~robbed => \A p \in DOMAIN servers' : Managed(p)' => p = n
  BY <1>1, <1>2, <1>4 DEF NoneManaged, Managed, Running, history
<1>11. ~robbed => Stage(u)'
  BY <1>1, <1>2, <1>7, <1>9, <1>10 DEF Stage, Only, stateFiles, Writing
<1>12. c.pc \in Holding /\ FileTypes'
  BY <1>1, <1>7, Types DEF Holding, Writing, FileTypes, stateFiles
<1> QED BY <1>1, <1>3, <1>5, <1>7, <1>8, <1>11, <1>12, HoldsOn

LEMMA SpawnFailsStep == ASSUME IInv, NEW u \in Users, SpawnFails(u) PROVE IInv'
<1>1. Holds(u) /\ LeavesStray(u)
  BY DEF SpawnFails, At, Holds, Holding, Writing, LeavesStray, history
<1> QED BY <1>1, HolderEnds DEF SpawnFails, history

LEMMA WriteFailsStep == ASSUME IInv, NEW u \in Users, WriteFails(u) PROVE IInv'
  BY HolderEnds DEF WriteFails, Holds, Holding

\* The pid and the metadata are written, each truncated first.
LEMMA WriteStep == ASSUME IInv, NEW u \in Users, WritePid(u) \/ WriteMeta(u) PROVE IInv'
<1>1. /\ UNCHANGED <<lock, servers, commands, history>> /\ Holds(u)
      /\ cli[u].pc \in Writing /\ cli[u].pid \in Pids /\ None \notin Pids
  BY DaemonAssumption DEF WritePid, WriteMeta, At, IInv, RemoveInv, Holds, Holding, Writing, Pids
<1>2. ~robbed => lock /\ (\A p \in DOMAIN servers' : Managed(p)' => p = cli[u].pid) /\ Stage(u)
  BY <1>1, OneHolder DEF Stage, Only, Managed, Running, history
<1>3. ServerTypes' /\ FileTypes'
  BY <1>1, Types DEF WritePid, WriteMeta, ServerTypes, FileTypes
<1>4. ASSUME NEW pc \in {"fillPid", "openMeta", "fillMeta", "waitHealth"}, Goto(u, pc),
             ~robbed => /\ pc = "fillPid" => pidFile' # None
                        /\ pc # "fillPid" => pidFile' = cli[u].pid
                        /\ pc = "fillMeta" => metaFile' # None
                        /\ pc = "waitHealth" => metaFile' = cli[u].pid
      PROVE  IInv'
  <2> DEFINE c == [cli[u] EXCEPT !.pc = pc]
  <2>1. cli[u] \in CliRecords /\ cli \in [Users -> CliRecords] /\ pc \in Pcs
    BY Types DEF Pcs
  <2>2. c \in CliRecords /\ c.pc = pc /\ c.pid = cli[u].pid
    BY <2>1 DEF CliRecords
  <2>3. cli' = [cli EXCEPT ![u] = c]
    BY <1>4, <2>1 DEF Goto
  <2> HIDE DEF c
  <2>4. cli'[u] = c
    BY <2>1, <2>3
  <2>5. ~robbed => Stage(u)'
    BY <1>1, <1>2, <1>4, <2>2, <2>4 DEF Stage, Only
  <2>6. c.pc \in Holding
    BY <2>2 DEF Holding, Writing
  <2> QED BY <1>1, <1>3, <2>2, <2>3, <2>5, <2>6, HoldsOn
<1>5. CASE At(u, "openPid")
  <2>1. Goto(u, "fillPid") /\ pidFile' = Empty /\ Empty # None
    BY <1>5, DaemonAssumption DEF WritePid, WriteMeta, At, Empty
  <2> QED BY <1>4, <2>1
<1>6. CASE At(u, "fillPid")
  <2>1. Goto(u, "openMeta") /\ (~robbed => pidFile' = cli[u].pid)
    BY <1>2, <1>6 DEF WritePid, WriteMeta, At, Stage
  <2> QED BY <1>4, <2>1
<1>7. CASE At(u, "openMeta")
  <2>1. Goto(u, "fillMeta") /\ (~robbed => pidFile' = cli[u].pid) /\ metaFile' # None
    BY <1>2, <1>7, DaemonAssumption DEF WritePid, WriteMeta, At, Stage, Empty
  <2> QED BY <1>4, <2>1
<1>8. CASE At(u, "fillMeta")
  <2>1. Goto(u, "waitHealth") /\ (~robbed => pidFile' = cli[u].pid /\ metaFile' = cli[u].pid)
    BY <1>2, <1>8 DEF WritePid, WriteMeta, At, Stage
  <2> QED BY <1>4, <2>1
<1> QED BY <1>1, <1>5, <1>6, <1>7, <1>8 DEF At, Writing

\* A server that is signalled does not run any more, and no other begins to.
LEMMA Signalled ==
    ASSUME IInv, NEW p, Signal(p), UNCHANGED strays
    PROVE  /\ ServerTypes'
           /\ \A q \in DOMAIN servers' : Managed(q)' => q \in DOMAIN servers /\ Managed(q)
           /\ Only(p) => NoneManaged'
  BY Types DEF Signal, Alive, Only, NoneManaged, Managed, Running, ServerStates, ServerTypes

\* wait_for_health: the server is up and all files name it, or it is killed.
LEMMA HealthStep == ASSUME IInv, NEW u \in Users, Healthy(u) \/ HealthTimeout(u) PROVE IInv'
<1>1. /\ ~At(u, "idle") /\ UNCHANGED <<stateFiles, commands, history>> /\ cli[u].pc = "waitHealth"
      /\ Holds(u)
  BY DEF Healthy, HealthTimeout, At, Holds, Holding
<1>2. CASE Healthy(u)
  <2>1. LeavesStray(u)
    BY <1>1 DEF LeavesStray, Writing, history
  <2> QED BY <1>1, <1>2, <2>1, HolderEnds DEF Healthy, history
<1>3. CASE HealthTimeout(u)
  <2> DEFINE c == [cli[u] EXCEPT !.pc = "remove", !.file = 1, !.then = "end"]
  <2>1. c \in CliRecords /\ c.pc = "remove" /\ c.file = 1 /\ c.then = "end"
    <3>1. cli[u] \in CliRecords
      BY Types
    <3>2. "remove" \in Pcs /\ 1 \in 0..3
      BY DEF Pcs
    <3> QED BY <3>1, <3>2 DEF CliRecords
  <2>2. cli' = [cli EXCEPT ![u] = c] /\ Signal(cli[u].pid)
    BY <1>3, Types DEF ThenRemove, HealthTimeout
  <2> HIDE DEF c
  <2>3. cli'[u] = c /\ c.pc \notin Holding /\ c.pc \notin Writing
    BY <2>1, <2>2, Types DEF Holding, Writing
  <2>4. strays' = strays /\ robbed' = robbed /\ disturbed' = disturbed /\ commands' = commands
    BY <1>1 DEF history
  <2>5. ServerTypes' /\ (Only(cli[u].pid) => NoneManaged')
    BY <2>2, <2>4, Signalled
  <2>6. ~robbed => Only(cli[u].pid) /\ \A v \in Users : v # u => ~Holds(v)
    BY <1>1, OneHolder DEF Stage
  <2>7. NoneManaged' => Tracked'
    BY DEF NoneManaged, Tracked
  <2>8. HoldInv'
    BY <2>1, <2>2, <2>3, <2>4, <2>5, <2>6, <2>7, Holder
  <2>9. ~disturbed' => ~disturbed /\ ~robbed' /\ Alone(u)'
    BY <2>1, <2>3, <2>4, <2>5, <2>6 DEF IInv, SoloInv, Alone
  <2>10. FileTypes' /\ strays' \subseteq Pids /\ disturbed' \in BOOLEAN /\ robbed' \in BOOLEAN
    BY <1>1, <2>4, Types DEF FileTypes, stateFiles
  <2>11. c.file \in 1..3 /\ c.then \in Continuations
    BY <2>1 DEF Continuations
  <2> QED BY <1>1, <2>1, <2>2, <2>3, <2>4, <2>5, <2>8, <2>9, <2>10, <2>11, StepKeeps
<1> QED BY <1>2, <1>3
-----------------------------------------------------------------------------
(* daemon_stop *)

\* The metadata file is looked for and read.
LEMMA ReadStep == ASSUME IInv, NEW u \in Users, MetaExists(u) \/ ReadMeta(u) PROVE IInv'
<1>1. /\ ~At(u, "idle") /\ ~Holds(u) /\ UNCHANGED <<stateFiles, servers, commands, history>>
  BY DEF MetaExists, ReadMeta, At, Holds, Holding, Writing
<1>2. ServerTypes' /\ \A p \in DOMAIN servers' : Managed(p)' <=> p \in DOMAIN servers /\ Managed(p)
  BY <1>1, Types DEF ServerTypes, Managed, Running, history
<1>3. /\ strays' = strays /\ robbed' = robbed /\ disturbed' = disturbed /\ disturbed' \in BOOLEAN
      /\ commands' = commands /\ UNCHANGED stateFiles
  BY <1>1, Types DEF history
<1>4. CASE Continue(u, AfterStop(u))
  <2>1. AfterStop(u) \in Continuations
    BY DEF AfterStop, Continuations
  <2>2. PICK c \in CliRecords : /\ cli' = [cli EXCEPT ![u] = c] /\ cli'[u] = c
                                /\ c.pc \in {"idle", "checkLock", "create", "recover"}
    BY <1>4, <2>1, Continued
  <2>3. c.pc \notin Holding /\ c.pc # "remove"
    BY <2>2 DEF Holding, Writing
  <2>4. Alone(u)'
    BY <2>2 DEF Alone
  <2> QED BY <1>1, <1>2, <1>3, <2>2, <2>3, <2>4, Beside
<1>5. CASE Goto(u, "readMeta")
  <2>1. "readMeta" \in Pcs \ Holding
    BY DEF Pcs, Holding, Writing
  <2>2. cli'[u].pc = "readMeta" => Alone(u)'
    BY DEF Alone
  <2> QED BY <1>1, <1>2, <1>5, <2>1, <2>2, GoesBeside
<1>6. CASE Finish(u)
  BY <1>1, <1>6, EndsBeside
<1>7. CASE metaFile \notin {None, Empty} /\ cli' = [cli EXCEPT ![u].pid = metaFile, ![u].pc = "post"]
  <2> DEFINE c == [cli[u] EXCEPT !.pid = metaFile, !.pc = "post"]
  <2>1. cli[u] \in CliRecords /\ cli \in [Users -> CliRecords] /\ metaFile \in Pids
    BY <1>7, Types DEF FileTypes
  <2>2. c \in CliRecords /\ c.pc = "post" /\ c.pid = metaFile
    <3>1. "post" \in Pcs
      BY DEF Pcs
    <3> QED BY <2>1, <3>1 DEF CliRecords
  <2>3. cli' = [cli EXCEPT ![u] = c]
    BY <1>7, <2>1
  <2> HIDE DEF c
  <2>4. cli'[u] = c /\ c.pc \notin Holding /\ c.pc # "remove"
    BY <2>1, <2>2, <2>3 DEF Holding, Writing
  <2>5. ~disturbed => \A p \in DOMAIN servers' : Managed(p)' => p = metaFile
    BY <1>1, <1>2, SoloTracked DEF Tracked
  <2>6. ~disturbed => Alone(u)'
    BY <2>2, <2>4, <2>5 DEF Alone, Only
  <2> QED BY <1>1, <1>2, <1>3, <2>2, <2>3, <2>4, <2>6, Beside
<1> QED BY <1>4, <1>5, <1>6, <1>7 DEF MetaExists, ReadMeta

\* A server that is asked to stop runs until it is gone.
LEMMA PostStep == ASSUME IInv, NEW u \in Users, PostKill(u) PROVE IInv'
<1>1. /\ ~At(u, "idle") /\ ~Holds(u) /\ UNCHANGED <<stateFiles, commands, history>> /\ cli[u].pc = "post"
      /\ Goto(u, "waitExit") /\ "waitExit" \in Pcs \ Holding
  BY DEF PostKill, At, Pcs, Holds, Holding, Writing
<1>2. ServerTypes' /\ \A p \in DOMAIN servers' : Managed(p)' => p \in DOMAIN servers /\ Managed(p)
  <2>1. CASE UNCHANGED servers
    BY <1>1, <2>1, Types DEF Managed, Running, ServerTypes, history
  <2>2. ASSUME NEW p \in DOMAIN servers, Answers(p), servers' = [servers EXCEPT ![p] = "exit"]
        PROVE  ServerTypes' /\ \A q \in DOMAIN servers' : Managed(q)' => q \in DOMAIN servers /\ Managed(q)
    BY <1>1, <2>2, Types DEF Managed, Running, Answers, ServerStates, ServerTypes, history
  <2> QED BY <2>1, <2>2 DEF PostKill
<1>3. ~disturbed => \A p \in DOMAIN servers' : Managed(p)' => p = cli[u].pid
  BY <1>1, <1>2, SoloTracked DEF Alone, Only
<1>4. (~disturbed /\ cli'[u].pc = "waitExit" /\ cli'[u].pid = cli[u].pid) => Alone(u)'
  BY <1>3 DEF Alone, Only
<1> QED BY <1>1, <1>2, <1>4, GoesBeside

\* The waits: the server is gone, or it is signalled, or given up on after it was.
LEMMA ExitStep == ASSUME IInv, NEW u \in Users, ExitSeen(u) \/ ExitTimeout(u) PROVE IInv'
<1>1. /\ ~At(u, "idle") /\ ~Holds(u) /\ UNCHANGED <<stateFiles, commands, history>>
      /\ cli[u].pc \in {"waitExit", "waitTerm", "waitKill"} /\ AfterStop(u) \in Continuations
  BY DEF ExitSeen, ExitTimeout, At, AfterStop, Continuations, Holds, Holding, Writing
<1>2. ~disturbed => Only(cli[u].pid) /\ (cli[u].pc # "waitExit" => NoneManaged)
  BY <1>1, SoloTracked DEF Alone, Only, NoneManaged
<1>3. {"waitTerm", "waitKill"} \subseteq Pcs \ Holding
  BY DEF Pcs, Holding, Writing
<1>4. /\ strays' = strays /\ robbed' = robbed /\ disturbed' = disturbed /\ disturbed' \in BOOLEAN
      /\ commands' = commands
  BY <1>1, Types DEF history
<1>5. servers' = servers =>
        ServerTypes' /\ \A p \in DOMAIN servers' : Managed(p)' <=> p \in DOMAIN servers /\ Managed(p)
  BY <1>4, Types DEF ServerTypes, Managed, Running
<1>6. CASE ExitSeen(u)
  <2>1. servers' = servers /\ ThenRemove(u, AfterStop(u)) /\ ~Alive(cli[u].pid)
    BY <1>6 DEF ExitSeen
  <2>2. ~disturbed => NoneManaged'
    BY <1>2, <1>5, <2>1 DEF Only, NoneManaged, Managed, Running, Alive
  <2> QED BY <1>1, <1>4, <1>5, <2>1, <2>2, RemovalBegins
<1>7. CASE ExitTimeout(u) /\ At(u, "waitKill")
  <2>1. servers' = servers /\ ThenRemove(u, AfterStop(u))
    BY <1>7 DEF ExitTimeout, At
  <2>2. ~disturbed => NoneManaged'
    BY <1>2, <1>5, <1>7, <2>1 DEF NoneManaged, At
  <2> QED BY <1>1, <1>4, <1>5, <2>1, <2>2, RemovalBegins
<1>8. CASE ExitTimeout(u) /\ At(u, "waitExit")
  <2>1. Signal(cli[u].pid) /\ Goto(u, "waitTerm")
    BY <1>8 DEF ExitTimeout, At
  <2>2. (~disturbed /\ cli'[u].pc = "waitTerm") => Alone(u)'
    BY <1>2, <1>4, <2>1, Signalled DEF Alone
  <2> QED BY <1>1, <1>3, <1>4, <2>1, <2>2, Signalled, GoesBeside
<1>9. CASE ExitTimeout(u) /\ At(u, "waitTerm")
  <2>1. Signal(cli[u].pid) /\ Goto(u, "waitKill")
    BY <1>9 DEF ExitTimeout, At
  <2>2. (~disturbed /\ cli'[u].pc = "waitKill") => Alone(u)'
    BY <1>2, <1>4, <2>1, Signalled DEF Alone
  <2> QED BY <1>1, <1>3, <1>4, <2>1, <2>2, Signalled, GoesBeside
<1> QED BY <1>6, <1>7, <1>8, <1>9 DEF ExitTimeout

-----------------------------------------------------------------------------
(* Commands begin and are interrupted, servers come up and go *)

\* A command begins: alone, with the files as the last one left them, or beside another.
LEMMA BeginStep == ASSUME IInv, NEW u \in Users, NEW op \in {"start", "stop", "restart"}, Begin(u, op) PROVE IInv'
<1> DEFINE c == [Idle EXCEPT !.op = op, !.pc = IF op = "start" THEN "recover" ELSE "stop"]
<1>1. c \in CliRecords /\ c.pc \in {"recover", "stop"}
  <2>1. Idle \in CliRecords
    BY IdleIsRecord DEF IdleRecord
  <2>2. {"recover", "stop"} \subseteq Pcs
    BY DEF Pcs
  <2> QED BY <2>1, <2>2 DEF CliRecords
<1>2. /\ UNCHANGED <<stateFiles, servers, strays, robbed>> /\ At(u, "idle") /\ commands' \in 0..MaxCommands
      /\ cli' = [cli EXCEPT ![u] = c]
      /\ disturbed' = (disturbed \/ \E v \in Users : ~At(v, "idle"))
  BY DaemonAssumption DEF Begin, IInv, TypeOK
<1> HIDE DEF c
<1>3. cli' \in [Users -> CliRecords] /\ cli'[u] = c /\ \A v \in Users : v # u => cli'[v] = cli[v]
  BY <1>1, <1>2, Types
<1>4. TypeOK'
  BY <1>2, <1>3 DEF IInv, TypeOK, stateFiles
<1>5. RemoveInv'
  BY <1>1, <1>3 DEF IInv, RemoveInv, At, Writing
<1>6. HoldInv'
  <2>1. ~Holds(u) /\ c.pc \notin Holding
    BY <1>1, <1>2 DEF Holds, Holding, Writing, At
  <2>2. \A p \in DOMAIN servers' : Managed(p)' => p \in DOMAIN servers /\ Managed(p)
    BY <1>2 DEF Managed, Running
  <2> QED BY <1>1, <1>2, <2>1, <2>2, Bystander
<1>7. ~disturbed' => ~disturbed /\ ~robbed /\ \A v \in Users : At(v, "idle")
  BY <1>2 DEF IInv, SoloInv
<1>8. SoloInv'
  BY <1>1, <1>2, <1>3, <1>7 DEF SoloInv, At, Alone
<1> QED BY <1>4, <1>5, <1>6, <1>8 DEF IInv

\* An interrupted command leaves its files, and its server if it had one.
LEMMA InterruptStep == ASSUME IInv, NEW u \in Users, Interrupt(u) PROVE IInv'
<1>1. CASE Holds(u)
  BY <1>1, HolderEnds DEF Interrupt
<1>2. CASE ~Holds(u)
  <2>1. strays' = strays /\ ~At(u, "idle")
    BY <1>2 DEF Interrupt, LeavesStray, Holds, Holding
  <2> QED BY <1>2, <2>1, EndsBeside DEF Interrupt, history
<1> QED BY <1>1, <1>2

\* A server never begins to run by itself.
LEMMA ServerStep == ASSUME IInv, NEW p \in DOMAIN servers, Server(p) PROVE IInv'
<1>1. UNCHANGED <<stateFiles, cli, commands, history>>
  BY DEF Server, Bind, Gone, Becomes
<1>2. ServerTypes' /\ \A q \in DOMAIN servers' : Managed(q)' => q \in DOMAIN servers /\ Managed(q)
  <2>1. CASE Bind(p)
    BY <1>1, <2>1, Types DEF Bind, Becomes, Managed, Running, ServerStates, ServerTypes, history
  <2>2. CASE Gone(p)
    BY <1>1, <2>2, Types DEF Gone, Becomes, Managed, Running, ServerStates, ServerTypes, history
  <2> QED BY <2>1, <2>2 DEF Server
<1>3. TypeOK' /\ RemoveInv'
  BY <1>1, <1>2 DEF IInv, TypeOK, RemoveInv, At, stateFiles, history, ServerTypes
<1>4. /\ Tracked => Tracked'
      /\ NoneManaged => NoneManaged'
      /\ \A u \in Users : Only(cli[u].pid) => Only(cli[u].pid)'
  BY <1>1, <1>2 DEF Only, Tracked, NoneManaged, stateFiles
<1>5. HoldInv'
  BY <1>1, <1>4 DEF IInv, HoldInv, Stage, Holds, stateFiles, history
<1>6. SoloInv'
  BY <1>1, <1>4 DEF IInv, SoloInv, Alone, At, history
<1> QED BY <1>3, <1>5, <1>6 DEF IInv

\* The inductive invariant.
LEMMA Invariance == Spec => []IInv
<1>1. IInv /\ [Next]_vars => IInv'
  <2> SUFFICES ASSUME IInv, [Next]_vars PROVE IInv'
    OBVIOUS
  <2>1. ASSUME NEW u \in Users, Command(u) PROVE IInv'
    BY <2>1, RemoveFileStep, RemoveFailsStep, LookStep, CheckLockStep, CreateLockStep, SpawnStep, SpawnFailsStep,
       WriteStep, WriteFailsStep, HealthStep, ReadStep, PostStep, ExitStep
    DEF Command
  <2>2. ASSUME NEW u \in Users, Interrupt(u) PROVE IInv'
    BY <2>2, InterruptStep
  <2>3. ASSUME NEW u \in Users, NEW op \in {"start", "stop", "restart"}, Begin(u, op) PROVE IInv'
    BY <2>3, BeginStep
  <2>4. ASSUME NEW p \in DOMAIN servers, Server(p) PROVE IInv'
    BY <2>4, ServerStep
  <2>5. CASE UNCHANGED vars
    <3>1. UNCHANGED <<stateFiles, cli, commands, history>> /\ servers' = servers
      BY <2>5 DEF vars, stateFiles, history
    <3> QED BY <3>1 DEF IInv, TypeOK, RemoveInv, HoldInv, SoloInv, Stage, Alone, Tracked, NoneManaged, Only,
                        Managed, Running, Holds, At, stateFiles, history
  <2> QED BY <2>1, <2>2, <2>3, <2>4, <2>5 DEF Next
<1> QED BY <1>1, InitInv, PTL DEF Spec

-----------------------------------------------------------------------------
(* The theorem *)

\* With any number of users, commands and servers, overlapping, interrupted or failing anywhere:
\* until files are removed under a server or a lock holder, one server at most has got as far as
\* its files and, when nobody holds the lock, lock, pid and metadata name it; commands that come
\* one at a time never remove files so (daemon_start, daemon_stop, recover_stale_state,
\* remove_state_files).
THEOREM OneTrackedServer == Spec => []ServerIsTracked
<1>1. IInv => ServerIsTracked
  <2> SUFFICES ASSUME IInv PROVE ServerIsTracked
    OBVIOUS
  <2>1. ASSUME ~robbed PROVE \A p, q \in DOMAIN servers : Managed(p) /\ Managed(q) => p = q
    <3>1. CASE \A u \in Users : ~Holds(u)
      BY <2>1, <3>1 DEF IInv, HoldInv, Tracked
    <3>2. CASE \E u \in Users : Holds(u)
      <4>1. PICK u \in Users : Holds(u)
        BY <3>2
      <4>2. NoneManaged \/ Only(cli[u].pid)
        BY <2>1, <4>1, OneHolder DEF Stage, Holds, Holding
      <4> QED BY <4>2 DEF NoneManaged, Only
    <3> QED BY <3>1, <3>2
  <2>2. robbed => disturbed
    BY DEF IInv, SoloInv
  <2>3. ~robbed /\ (\A u \in Users : cli[u].pc \notin Holding) => Tracked
    BY DEF IInv, HoldInv, Holds
  <2> QED BY <2>1, <2>2, <2>3 DEF IInv, Tracked, ServerIsTracked
<1> QED BY <1>1, Invariance, PTL
=============================================================================
