------------------------------ MODULE Startup ------------------------------
(***************************************************************************)
(* Start and end of the daemon's processes (main.cpp, daemon.cpp) and what *)
(* they share: the PID file, the name of the control socket, the devices   *)
(* they grab.  Each process runs once; its name is its PID.  It may die at *)
(* any moment, and its number may then go to a stranger.                   *)
(***************************************************************************)
EXTENDS DeviceScan

CONSTANTS
  Procs,
  Crashed,     \* those of them that died before
  NoProc,
  Paths,       \* names a control socket may have
  NoPath

ASSUME StartupAssumption ==
  /\ Crashed \subseteq Procs
  /\ NoProc \notin Procs
  /\ NoPath \notin Paths
  /\ Paths # {}

VARIABLES
  at,         \* where main is in each process
  foreground, \* those that do not run as a daemon
  seen,       \* the number is_running has read
  handle,     \* the inode write_pid has open
  entries, next, failed,  \* the scan: what was found, where it is, what did not open
  config,     \* g_config.control_socket
  bound,      \* the name the server's socket was bound to
  pidFile,    \* the inode PID_FILE names, called after who made it, and its number
  socketFile, \* whose socket has each name
  grabber,    \* who has grabbed each device
  strangers,  \* numbers that other programs have by now
  tangled     \* history: two starts overlapped, or something of the kind

scanVars == <<entries, next, failed>>
fileVars == <<pidFile, socketFile>>
vars == <<at, foreground, seen, handle, scanVars, config, bound, fileVars, grabber, strangers, tangled>>

NoFile == [ino |-> NoProc, pid |-> NoProc]

Places ==
  {"new", "guard", "probe", "unlink", "daemonize", "write", "scan", "remove", "control",
   "bind", "devices", "run", "stop", "close", "clean", "destroy", "gone", "dead"}

Alive(p) == at[p] \notin {"new", "gone", "dead"}

TypeOK ==
  /\ at \in [Procs -> Places]
  /\ foreground \subseteq {p \in Procs : Alive(p)}
  /\ seen \in [Procs -> Procs \cup {NoProc}]
  /\ handle \in [Procs -> Procs \cup {NoProc}]
  /\ \A p \in Procs :
       /\ at[p] = "probe" => seen[p] \in Procs
       /\ at[p] = "write" => handle[p] \in Procs
  /\ entries \in [Procs -> [BlockIds -> {0} \cup NodeIds]]
  /\ next \in [Procs -> 1..(Len(Nodes) + 1)]
  /\ failed \in [Procs -> SUBSET NodeIds]
  /\ config \in [Procs -> Paths \cup {NoPath}]
  /\ \A p \in Procs : Alive(p) => config[p] \in Paths
  /\ bound \in [Procs -> Paths \cup {NoPath}]
  /\ pidFile \in {NoFile} \cup [ino : Procs, pid : Procs \cup {NoProc}]
  /\ socketFile \in [Paths -> Procs \cup {NoProc}]
  /\ grabber \in [NodeIds -> Procs \cup {NoProc}]
  /\ strangers \subseteq Procs
  /\ tangled \in BOOLEAN

Init ==
  /\ at = [p \in Procs |-> IF p \in Crashed THEN "dead" ELSE "new"]
  /\ foreground = {}
  /\ seen = [p \in Procs |-> NoProc]
  /\ handle = [p \in Procs |-> NoProc]
  /\ entries = [p \in Procs |-> NoEntries]
  /\ next = [p \in Procs |-> 1]
  /\ failed = [p \in Procs |-> {}]
  /\ config = [p \in Procs |-> NoPath]
  /\ bound = [p \in Procs |-> NoPath]
  /\ pidFile \in {NoFile} \cup [ino : Crashed, pid : Crashed \cup {NoProc}]
  /\ socketFile \in [Paths -> Crashed \cup {NoProc}]
  /\ grabber = [n \in NodeIds |-> NoProc]
  /\ strangers = {}
  /\ tangled = FALSE

\* kill(pid, 0) finds the number in use.
InUse(p) == Alive(p) \/ p \in strangers

Goto(p, l) == at' = [at EXCEPT ![p] = l]

\* The process is no more, and nothing it held in memory is.
Ends(p, how) ==
  /\ Goto(p, how)
  /\ foreground' = foreground \ {p}
  /\ seen' = [seen EXCEPT ![p] = NoProc]
  /\ handle' = [handle EXCEPT ![p] = NoProc]
  /\ entries' = [entries EXCEPT ![p] = NoEntries]
  /\ next' = [next EXCEPT ![p] = 1]
  /\ failed' = [failed EXCEPT ![p] = {}]
  /\ config' = [config EXCEPT ![p] = NoPath]
  /\ bound' = [bound EXCEPT ![p] = NoPath]

-----------------------------------------------------------------------------
(* Single-instance guard and PID file                                      *)

\* The configuration is loaded; what follows is the guard.
Begin(p) ==
  /\ at[p] = "new"
  /\ \E s \in Paths : config' = [config EXCEPT ![p] = s]
  /\ foreground' \in {foreground, foreground \cup {p}}
  /\ Goto(p, "guard")
  /\ UNCHANGED <<seen, handle, scanVars, bound, fileVars, grabber, strangers>>

AfterGuard(p) == IF p \in foreground THEN "scan" ELSE "daemonize"

\* is_running: without a number in the file there is nobody to ask about.
ReadPid(p) ==
  /\ at[p] = "guard"
  /\ seen' = [seen EXCEPT ![p] = pidFile.pid]
  /\ Goto(p, IF pidFile.pid = NoProc THEN AfterGuard(p) ELSE "probe")
  /\ UNCHANGED <<foreground, handle, scanVars, config, bound, fileVars, grabber, strangers>>

\* Deviation: only the file is looked at, not the process.
NobodyFound(p) == FALSE

\* A live number is an instance that runs, whoever it is.
Found(p) == InUse(seen[p])

Refuse(p) ==
  /\ at[p] = "probe"
  /\ Found(p)
  /\ Ends(p, "gone")
  /\ UNCHANGED <<fileVars, grabber, strangers>>

FindStale(p) ==
  /\ at[p] = "probe"
  /\ ~Found(p)
  /\ seen' = [seen EXCEPT ![p] = NoProc]
  /\ Goto(p, "unlink")
  /\ UNCHANGED <<foreground, handle, scanVars, config, bound, fileVars, grabber, strangers>>

\* The stale file goes, or the one that has taken its place.
RemoveStale(p) ==
  /\ at[p] = "unlink"
  /\ pidFile' = NoFile
  /\ Goto(p, AfterGuard(p))
  /\ UNCHANGED <<foreground, seen, handle, scanVars, config, bound, socketFile, grabber, strangers>>

\* Deviation: a file that is not there is not made.
NotCreated(p) == pidFile.ino

Inode(p) == IF pidFile = NoFile THEN p ELSE pidFile.ino

\* The forked child opens the PID file, which empties it.
OpenPid(p) ==
  /\ at[p] = "daemonize"
  /\ pidFile' = [ino |-> Inode(p), pid |-> NoProc]
  /\ handle' = [handle EXCEPT ![p] = Inode(p)]
  /\ Goto(p, "write")
  /\ UNCHANGED <<foreground, seen, scanVars, config, bound, socketFile, grabber, strangers>>

\* A fork fails, or the file cannot be opened.
DaemonizeFails(p) ==
  /\ at[p] = "daemonize"
  /\ Ends(p, "gone")
  /\ UNCHANGED <<fileVars, grabber, strangers>>

\* Deviation: the file stays empty.
WritesNothing(p) == pidFile

\* The number goes to the inode, which may have lost its name.
Written(p) == IF pidFile.ino = handle[p] THEN [pidFile EXCEPT !.pid = p] ELSE pidFile

WritePid(p) ==
  /\ at[p] = "write"
  /\ pidFile' = Written(p)
  /\ handle' = [handle EXCEPT ![p] = NoProc]
  /\ Goto(p, "scan")
  /\ UNCHANGED <<foreground, seen, scanVars, config, bound, socketFile, grabber, strangers>>

-----------------------------------------------------------------------------
(* Devices                                                                 *)

\* Device::open has succeeded: the block has its node.
Opened(p, b, n) ==
  /\ entries' = [entries EXCEPT ![p][b] = n]
  /\ UNCHANGED failed

\* One candidate: the block it is for, if there is one, opens it or fails to.
ScanNode(p) ==
  LET n == next[p]
  IN /\ at[p] = "scan" /\ n \in NodeIds
     /\ next' = [next EXCEPT ![p] = n + 1]
     /\ \/ \E b \in BlockFor(entries[p], n) :
             \/ Opened(p, b, n)
             \/ failed' = [failed EXCEPT ![p] = @ \cup {n}] /\ UNCHANGED entries
        \/ /\ Candidates(entries[p], n) = {}
           /\ UNCHANGED <<entries, failed>>
     /\ UNCHANGED <<at, foreground, seen, handle, config, bound, fileVars, grabber, strangers>>

\* Without a device there is nothing to do.
ScanEnds(p) ==
  /\ at[p] = "scan" /\ next[p] \notin NodeIds
  /\ Goto(p, IF entries[p] = NoEntries THEN "remove" ELSE "control")
  /\ UNCHANGED <<foreground, seen, handle, scanVars, config, bound, fileVars, grabber, strangers>>

\* remove_pid, on a file that a foreground process never wrote.
GiveUp(p) ==
  /\ at[p] = "remove"
  /\ pidFile' = NoFile
  /\ Ends(p, "gone")
  /\ UNCHANGED <<socketFile, grabber, strangers>>

ToGrab(p) == {entries[p][b] : b \in {c \in BlockIds : entries[p][c] # 0 /\ Blocks[c].grab}}

\* DeviceManager::start.  A device another process has grabbed is only warned of.
StartDevices(p) ==
  /\ at[p] = "devices"
  /\ grabber' = [n \in NodeIds |->
       IF n \in ToGrab(p) /\ grabber[n] = NoProc THEN p ELSE grabber[n]]
  /\ Goto(p, "run")
  /\ UNCHANGED <<foreground, seen, handle, scanVars, config, bound, fileVars, strangers>>

\* Closing a device lets it go.
Released(p) == [n \in NodeIds |-> IF grabber[n] = p THEN NoProc ELSE grabber[n]]

-----------------------------------------------------------------------------
(* Control socket                                                          *)

\* ControlServer::start takes away a socket that was left there.
UnlinkSocket(p) ==
  /\ at[p] = "control"
  /\ socketFile' = [socketFile EXCEPT ![config[p]] = NoProc]
  /\ Goto(p, "bind")
  /\ UNCHANGED <<foreground, seen, handle, scanVars, config, bound, pidFile, grabber, strangers>>

BindSocket(p) ==
  /\ at[p] = "bind"
  /\ socketFile[config[p]] = NoProc
  /\ socketFile' = [socketFile EXCEPT ![config[p]] = p]
  /\ bound' = [bound EXCEPT ![p] = config[p]]
  /\ Goto(p, "devices")
  /\ UNCHANGED <<foreground, seen, handle, scanVars, config, pidFile, grabber, strangers>>

\* The name is taken, or cannot be made: main goes on without a server.
BindFails(p) ==
  /\ at[p] = "bind"
  /\ Goto(p, "devices")
  /\ UNCHANGED <<foreground, seen, handle, scanVars, config, bound, fileVars, grabber, strangers>>

\* A reload may name another socket; the server stays where it is.  SIGHUP asks for
\* one while the multiplexer runs, a client from the moment there is a server until
\* the process ends, as the threads that serve clients are detached.
Reload(p) ==
  /\ at[p] = "run" \/ bound[p] # NoPath
  /\ \E s \in Paths : config' = [config EXCEPT ![p] = s]
  /\ UNCHANGED <<at, foreground, seen, handle, scanVars, bound, fileVars, grabber, strangers>>

-----------------------------------------------------------------------------
(* Shutdown                                                                *)

\* SIGTERM or SIGINT has ended EventMultiplexer::run.
Terminate(p) ==
  /\ at[p] = "run"
  /\ Goto(p, "stop")
  /\ UNCHANGED <<foreground, seen, handle, scanVars, config, bound, fileVars, grabber, strangers>>

\* Deviation: the name stays.
KeepsName(p) == socketFile

\* ControlServer::stop unlinks whatever socket has the name in g_config now.
WithoutName(p) == [socketFile EXCEPT ![config[p]] = NoProc]

StopControl(p) ==
  /\ at[p] = "stop"
  /\ socketFile' = WithoutName(p)
  /\ Goto(p, "close")
  /\ UNCHANGED <<foreground, seen, handle, scanVars, config, bound, pidFile, grabber, strangers>>

StopDevices(p) ==
  /\ at[p] = "close"
  /\ grabber' = Released(p)
  /\ Goto(p, "clean")
  /\ UNCHANGED <<foreground, seen, handle, scanVars, config, bound, fileVars, strangers>>

RemovePid(p) ==
  /\ at[p] = "clean"
  /\ pidFile' = NoFile
  /\ Goto(p, "destroy")
  /\ UNCHANGED <<foreground, seen, handle, scanVars, config, bound, socketFile, grabber, strangers>>

\* ~ControlServer stops the server once more.
Destroy(p) ==
  /\ at[p] = "destroy"
  /\ socketFile' = WithoutName(p)
  /\ Ends(p, "gone")
  /\ UNCHANGED <<pidFile, grabber, strangers>>

\* Killed, or a signal before the handlers are there: files stay as they are.
Crash(p) ==
  /\ Alive(p)
  /\ grabber' = Released(p)
  /\ Ends(p, "dead")
  /\ UNCHANGED <<fileVars, strangers>>

\* The number of a process that is no more goes to a stranger.
ReusePid(p) ==
  /\ at[p] \in {"gone", "dead"}
  /\ p \in {pidFile.pid} \cup {seen[q] : q \in Procs}  \* otherwise nobody asks about it
  /\ p \notin strangers
  /\ strangers' = strangers \cup {p}
  /\ UNCHANGED <<at, foreground, seen, handle, scanVars, config, bound, fileVars, grabber>>

\* The stranger ends, too.
FreePid(p) ==
  /\ p \in strangers
  /\ strangers' = strangers \ {p}
  /\ UNCHANGED <<at, foreground, seen, handle, scanVars, config, bound, fileVars, grabber>>

-----------------------------------------------------------------------------

\* A process past its guard counts as one that runs.
Past(p) == at[p] \in Places \ {"new", "guard", "probe", "unlink", "gone", "dead"}

\* Between reading the PID file and having written it.
Starting(p) ==
  \/ at[p] \in {"unlink", "daemonize", "write"}
  \/ at[p] = "probe" /\ ~Alive(seen[p])

\* Two starts at once, an instance that the PID file does not show, or one that
\* starts while another still has its destructors to run.
Overlap ==
  \E p, q \in Procs :
    /\ p # q
    /\ \/ Starting(p) /\ Starting(q)
       \/ p \in foreground /\ Past(p) /\ (Past(q) \/ Starting(q))
       \/ at[p] = "destroy" /\ (Past(q) \/ Starting(q))

Chronicle == tangled' = (tangled \/ Overlap')

Step(p) ==
  \/ Begin(p) \/ ReadPid(p) \/ Refuse(p) \/ FindStale(p) \/ RemoveStale(p)
  \/ OpenPid(p) \/ DaemonizeFails(p) \/ WritePid(p)
  \/ ScanNode(p) \/ ScanEnds(p) \/ GiveUp(p)
  \/ UnlinkSocket(p) \/ BindSocket(p) \/ BindFails(p) \/ StartDevices(p)
  \/ Reload(p) \/ Terminate(p)
  \/ StopControl(p) \/ StopDevices(p) \/ RemovePid(p) \/ Destroy(p)
  \/ Crash(p) \/ ReusePid(p) \/ FreePid(p)

Next == \E p \in Procs : Step(p) /\ Chronicle

Spec == Init /\ [][Next]_vars

-----------------------------------------------------------------------------
(* Properties                                                              *)

\* Unless starts overlap, or a foreground process is about, no two instances get
\* past the guard, whatever crashes and whoever gets their numbers; and the PID
\* file shows a daemon that runs (main.cpp:109-121, daemon.cpp:88-120).
OneInstance ==
  ~tangled =>
    /\ \A p, q \in Procs : Past(p) /\ Past(q) => p = q
    /\ \A p \in Procs \ foreground :
         at[p] \in {"scan", "control", "bind", "devices", "run", "stop", "close"}
           => pidFile.pid = p

\* The server of a lone instance can be reached at the name it was bound to, and
\* its devices to be grabbed are grabbed: what earlier instances left, or take
\* away as they end, does not show (control.cpp:56-106, devicemanager.cpp:186-219).
InstanceServed ==
  ~tangled =>
    \A p \in Procs : at[p] = "run" =>
      /\ bound[p] # NoPath => socketFile[bound[p]] = p
      /\ \A n \in ToGrab(p) : grabber[n] = p

\* A process that ended by itself leaves nothing of its own behind: no PID file
\* with its number, no grab, and no socket under the last name it knew
\* (main.cpp:133-164, control.hpp:38), even when starts overlap.
CleanExit ==
  [][\A p \in Procs : Alive(p) /\ at'[p] = "gone" =>
       /\ pidFile'.pid # p
       /\ \A n \in NodeIds : grabber'[n] # p
       /\ socketFile'[config[p]] # p]_vars

\* open_all's nodes and blocks are settled at every candidate, also when some do
\* not open (devicemanager.cpp:133-174).
DevicesSettled == \A p \in Procs : Settled(entries[p], next[p], failed[p])

\* A daemon that is started again gives each device the block it had before:
\* two scans that passed the same nodes, of which the same did not open, agree
\* on every block (devicemanager.cpp:104-174).
ScansAgree ==
  \A p, q \in Procs :
    next[p] = next[q] /\ failed[p] = failed[q] => entries[p] = entries[q]
=============================================================================
