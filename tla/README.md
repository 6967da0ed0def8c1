# PointerForce in TLA+

PointerForce is a Linux daemon that reads key events from input devices and runs a shell command
for each bound key. This directory holds TLA+ modules translated from its source, the TLC runs that
check them and the TLAPS proofs about them. Paths below are relative to the repository, which is
`src/` here: `src/src/multiplexer.cpp` is the daemon's `src/multiplexer.cpp`.

## 1. Inventory of the system

| Component | Source | State | Operations | Modelled by |
|---|---|---|---|---|
| Mapper | `mapper.cpp` | `table_` (id -> key -> command), `mu_` (shared mutex) | `init`, `lookup`, `add_binding`, `remove_binding`, `all_bindings` | Mapper, Reload |
| ConfigLoader | `config.cpp` | `g_config`, global and unlocked | `load`, `validate` | Reload (the devices vector), Startup (the socket's name) |
| EventQueue | `eventqueue.cpp` | `q_`, `shutdown_` | `push`, `pop` (200 ms), `shutdown` | Pipeline |
| EventMultiplexer | `multiplexer.cpp` | its place in `run`, the observers | `run`, `notify`, `add_observer`, `remove_observer` | Pipeline (the loop), ControlServer (the observers) |
| DeviceManager | `devicemanager.cpp` | `entries_`: config, handle, `active`, thread | `open_all`, `start`, `reader_fn`, `stop`, `get_info` | DeviceScan and Startup (`open_all`, `start`, `stop`), Pipeline (`start`, `reader_fn`, `stop`) |
| Executor | `executor.cpp` | none | `run` (fork and exec) | Pipeline |
| Signals | `daemon.cpp` | `g_running`, `g_reload` | SIGTERM, SIGINT, SIGHUP | Pipeline, ControlServer (a write that is interrupted) |
| main | `main.cpp` | order of start-up and shutdown | - | Startup (whole life of a process), Pipeline (its threads, from `mapper.init()` on) |
| Daemon | `daemon.cpp` | PID file | `is_running`, `daemonize`, `write_pid`, `remove_pid` | Startup |
| ControlServer | `control.cpp` | listening socket, one detached thread per client | `start`, `stop`, `accept_loop`, `handle_client` | ControlServer, Broadcast; Reload (what bind, unbind, reload do); Startup (the socket's name) |
| Device | `device.cpp` | fd and libevdev handle | `open`, `grab`, `close` | Startup, Pipeline (open or closed) |
| pfctl | `pfctl.cpp` | none | one request, or a stream | ControlServer (its clients) |
| ConfigStore | `frontend/services/ConfigStore.cc` | config file and its `.tmp` | `read`, `validate`, `write` | ConfigStore |
| ControlClient, routes | `frontend/services/ControlClient.cc`, `frontend/main.cpp` | event streams, IO loops | request with timeout, SSE, config routes | Bridge, ConfigStore |
| Web UI | `frontend/webui/` | the page's event log and table | bind a key, show events | Bridge (in part) |
| event module | `event.cpp` | - | - | no: compiled into nothing |
| Build, service unit, scripts | `Makefile`, `scripts/` | - | - | no |

How they interact. Each open device has a **reader thread** that pushes into the **queue**. The **main
thread** runs the multiplexer: it pops an event, looks the press up in the **mapper**, calls the
observers, launches the command. Between two events it serves SIGHUP by running `load` and
`mapper.init()`. The **accept thread** gives every connection a detached **client thread**, which
changes the mapper (bind, unbind), runs `load` and `init` itself (reload), reads both, or registers an
observer that the main thread then calls. SIGTERM clears `g_running`; main leaves the loop, stops the
control server, joins the readers, closes the devices and removes the PID file. The web bridge is a
process of its own: it writes the config file and is a client of the control socket.

What is hard here, and what makes each part correct:

* *Reload by several threads* over a vector no lock protects, while lookups and binds go on. After it
  the table must be the file's; a press must see the old table or the new one.
* *Readers, queue and loop*: nothing lost, doubled or swapped per device; a command only for a press,
  once; the last event before silence must not stay in the queue.
* *Signals at any point*: a SIGHUP during a reload must cause another one; a SIGTERM must end the
  process although nobody wakes the waiting thread, promptly although events are queued, and never
  close a device under its reader.
* *Observers and clients*: callbacks run from a copy of the map on the main thread, on descriptor numbers
  that another thread closes and `accept` gives out again; a write to a slow client blocks the daemon, one
  to a vanished client raises SIGPIPE. A subscriber must get every press since it subscribed, once.
* *Processes*: two instances share a PID file, a socket path and devices to be grabbed, any of them may be
  killed at any step, and PIDs are used again. One instance must run, and be reachable.
* *Config requests* on four IO threads share one temporary file with no lock. No update may be lost and
  nobody may read half a document, also when the disk is full or the bridge dies.
* *Streams and requests of the bridge* share IO loops that their handlers block; every wait must end, a
  page that leaves must free its thread and its loop, and what the page is told of a change must be true.

`PROJECT.json` lists these hazards at their lines, with the properties that cover them.

## 2. Modules

| Module | Content |
|---|---|
| `Mapper` | The binding table as a total function with `Unbound` for "no entry"; `Lookup`, `Resolve`, `AddBinding`, `RemoveBinding`, `MergeDevice` (one iteration of `init`), and `TableOf`, the table of a config stated without a loop: the last block that binds the key decides. |
| `Reload` | `load` followed by `init`, one step per access to shared state, by any set of loader threads; bind and unbind; changes of the file. |
| `HotReload` | Abstract specification: the bindings change all at once, to those of a file that a reload read whole, or by a bind or unbind; a failed reload changes none; only reloads that overlap may leave something else. |
| `KeyDispatch` | Abstract specification: reports of a device are decided once each and in order, a press may owe one command, which is launched or given up before anything else is decided. |
| `Pipeline` | The daemon's threads: readers, queue, multiplexer, signals, shutdown, composed with `Reload` by extension (its actions use Reload's). |
| `Broadcast` | Abstract specification: from the first press it is told of, a subscriber is told of every press once and in order, until its feed ends for good. |
| `ControlServer` | Connections by descriptor number, accept thread, client threads, observers and the main thread that calls them; implements `Broadcast`. |
| `ConfigDocument` | The config as a set of device blocks: what a valid one is (`Valid`), which requests fit it (`Fits`) and what they make of it (`Edited`). |
| `ConfigRegister` | Abstract specification: the file changes by one whole edit at a time, unless requests are in each other's way, and even then no id comes in twice. |
| `ConfigStore` | Concurrent config requests on inodes, file names and a shared temporary file; extends `ConfigDocument`, implements `ConfigRegister`. |
| `DeviceScan` | Which block gets which event node (`BlockFor`, the first that matches), and `Settled`, the same stated without an order of steps: no node and block that match would both do better with one another. |
| `Startup` | Several processes from the single-instance guard to the destructors, with crashes, reused PIDs and the scan, on the files they share; extends `DeviceScan`. |
| `Bridge` | The web bridge between pages and daemon: worker, queue and IO loop of an event stream, and a user's change with its timeout. |
| `*Proofs` | Lemmas about the operators; theorems about the specifications `Reload`, `Pipeline`, `ControlServer`, `ConfigStore`, `Startup`, `Bridge` and the algorithm in `DeviceScan`. |
| `MC*` | Definitions for the small instances. |

The modules split the system where its parts share little: `Pipeline` knows of the control server that its
threads may reload, bind and unbind; `ControlServer` knows of a command that it is answered by a line, and
of the multiplexer that it calls observers press by press; `Startup` has a process's threads as one state,
`run`; `Bridge` has the daemon as somebody who answers, or does not.

Definitions marked *Deviation* belong to no specification. Each is a variant of the definition after it, as
a plausible mistake in that code would have it, and `PROJECT.json` says which property it breaks.

### Reload

State: `file` is what the config file holds, `gdevs` is `g_config.devices`, `table` is `table_`,
`holder` is the thread holding `mu_` exclusively, `lpc`, `root` and `at` are each loader's place, its
parsed file and its loop index. A loader goes *open -> clear -> push -> merge -> idle*:

| Action | Code |
|---|---|
| `StartReload` | `multiplexer.cpp:20-23`, `control.cpp:294-295` |
| `LoadRead` | open and parse (`config.cpp:16-28`); an unreadable file returns with nothing touched |
| `LoadClear` | `devices.clear()` and then the checks of the array (`config.cpp:31-48`); also the values of a wrong type, on which jsoncpp throws and the process ends |
| `LoadPush` | one `push_back` (`config.cpp:99`) |
| `InitLock`, `InitMerge`, `InitUnlock` | `mapper.cpp:102-103`, `105-108`, `119`; the loop bound is the length the vector has *now* |
| `Bind`, `Unbind` | `control.cpp:217-246`, under the exclusive lock |
| `DataRaceCrash` | two loaders about to access the vector, one to write |

The data race is undefined behaviour; the outcomes modelled are the two accesses in either order, an
append that is lost, and a crash. A read of freed memory that goes unnoticed is not modelled beyond
those. Blocks that `load` skips (no id, no match criteria) and keys it skips are not in `Blocks`.
A throw may come at any block; it is taken at the step that clears, as nothing it does in between
survives the process.

History variables: `intended` is the table the finished reloads, binds and unbinds ask for; `raced`
marks a reload that overlapped another one between clear and unlock; `suspect` says that the last
reload to finish was such a one.

### Pipeline

| Actor | State | Actions and code |
|---|---|---|
| reader of `d` | `rpc[d]`, `hand[d]`, `active[d]` | `ReaderCheck`, `ReaderGetsKey`, `ReaderGetsNothing`, `ReaderLosesDevice` (`devicemanager.cpp:246-283`), `ReaderPush` (`eventqueue.cpp:9-16`) |
| main thread | `pc`, `cur`, `cmd`, `opened` | `StartReaders`; the loop `MuxContinue`/`MuxLeave`, `MuxTakeReload`/`MuxNoReload`, `MuxReloaded`, `MuxPop`/`MuxTimeout`, `MuxLookup`, `MuxNotify`, `MuxExec` (`multiplexer.cpp:18-62`, `executor.cpp:18-49`); `FlagReaders`, `JoinReaders`, `CloseAll` (`devicemanager.cpp:203-219`) |
| loaders | Reload's variables | `Reloads`, `ClientReload`; the main thread is the loader `Mux` |
| signals | `running`, `reloadFlag` | `SigTerm`, `SigHup` |

An event carries its place `n` among its device's reports, which is what its timestamp stands for, so
that order and loss can be stated. `handled[d]` is the place of the last decided report, `reported[d]`
all reports of the device, `launches` the number of commands run; `unread` and `late` are history for
the properties of SIGHUP and SIGTERM.

Simplifications: the ids of the devices are distinct; `notify` is one step that returns (that a subscriber
can block it is in `ControlServer`); the shutdown of the control server is not shown, as client threads are
detached and go on until main returns.

### ControlServer

| Actor | State | Actions and code |
|---|---|---|
| client (pfctl, bridge) | `peer[c]`, what it has not read: `unread[c]`, what it sent: `sock[c]` | `Send`, `ClientRead`, `ClientClose` (`pfctl.cpp:79-210`) |
| accept thread | `apc` | `Accept`, `AcceptLeave` (`control.cpp:110-123`) |
| thread of `c` | `tpc[c]`, `buf[c]`, `fd[c]` | `ReadRequests`, `ReadEnds` (`control.cpp:130-149`), `Answer`, `AnswerNobody` (`151-246`, `26-35`), `Throw` (`154`, and the fields at `158`, `198`, `226-228`, `242`), `Subscribe`, `LeaveStream`, `Unsubscribe`, `CloseFd` (`251-288`, `119-122`) |
| main thread | `pc`, `todo` (the copy of the map) | `Notify`, `NotifyDone` (`multiplexer.cpp:81-92`), the observer `CallSkipped`, `CallDelivers`, `CallFails`, `CallInterrupted` (`control.cpp:257-274`), `StopServer`, `JoinAccept` (`control.cpp:95-106`) |
| signals | `running` | `SigTerm`; one that meets a waiting write is `CallInterrupted`, as the handlers are installed without SA_RESTART (`daemon.cpp:34-46`) |

A write goes to a descriptor *number*, and `Writable`, `Blocked`, `Broken` and `Invalid` say what that number
names at the moment: the line may reach a connection that was accepted later. A write that would block is a
step that is not enabled. A line is `events`, another line that gets one answer (a command, or something that is
refused), or a `misshapen` one: JSON that is no object, or a field that is an array or object, on which jsoncpp
(external) throws in a detached thread, where nobody catches. `Script` says what each request of a client may be.
`crashed` is such an exception, or SIGPIPE: nothing sets its action, so that it ends a daemon started from
a shell and is ignored under systemd; both outcomes are kept. `feed`, `since`, `late`, `replies`, `sent` are
history; `CloseFd` forgets what no property speaks of any more. Signals are taken to reach the main thread.

### ConfigStore

`file` and `tmp` are the inodes that the two names stand for, `content` is what inodes hold, `Cut` an empty or
half written text. A request goes *idle -> read -> content -> open -> write -> rename -> idle* (`PUT
/api/config` starts at *open*, a GET ends at *content*): `Begin`, `OpenFile`, `ReadEdit`, `ReadOnly`
(`frontend/main.cpp:317-530`, `ConfigStore.cc:72-204`), `OpenTmp` with its truncation, `WriteTmp`, `WriteShort`
(a full disk: seen at once, or only at the flush, when nobody looks), `Rename`, `RenameFails`, `RemoveTmp`
(`ConfigStore.cc:206-243`); `Crash` takes all requests and leaves the files. A document is the set of its
device blocks, a block an id and a version. History: `intended` is the document that the requests that went
through ask for, one after the other; `spoilt` says that two writers overlapped or that a short write went
unnoticed, until no request is left.

### DeviceScan and Startup

A process goes *guard -> probe -> unlink -> daemonize -> write -> scan -> control -> bind -> devices -> run ->
stop -> close -> clean -> destroy*, in `main.cpp`'s order; `foreground` ones skip the PID file.

| Actions | Code |
|---|---|
| `Begin`, `ReadPid`, `Refuse`, `FindStale`, `RemoveStale` | `main.cpp:94-113`, `daemon.cpp:106-120`; a probed number in use counts as an instance, whoever has it |
| `OpenPid`, `DaemonizeFails`, `WritePid` | `daemon.cpp:50-99`; the file is opened, and so emptied, before the number is written to the inode |
| `ScanNode`, `ScanEnds`, `GiveUp` | `devicemanager.cpp:104-174`, `main.cpp:133-140` |
| `UnlinkSocket`, `BindSocket`, `BindFails` | `control.cpp:56-87`, `main.cpp:144-147` |
| `StartDevices`, `StopDevices` | `devicemanager.cpp:186-219`, `device.cpp:75-106`; a device another process has grabbed is only warned of |
| `Reload`, `Terminate` | `config.cpp:41-42`, `main.cpp:154-157`; a client can reload from the moment there is a server until the process ends (`control.cpp:294-295`) |
| `StopControl`, `RemovePid`, `Destroy` | `control.cpp:95-106`, `daemon.cpp:101-104`, `control.hpp:38`: the destructor stops the server a second time |
| `Crash`, `ReusePid`, `FreePid` | at any step; the number of a process that is no more goes to a stranger and is given back |

History: `tangled` is set when two processes are between reading the PID file and having written it, when a
foreground process, which the PID file does not show, runs beside another, or when one starts while
another has its destructors still to run. The guard does not cover these, and the properties except them.

### Bridge

| Actor | State | Actions and code |
|---|---|---|
| daemon (external) | `up`, `stuck`, `emitted`, `table`, `job`, `result` | `Emit`, `Subscribe`, `Serve`, `Override` (a reload, or another client's bind or unbind), `Wedge`, `DaemonEnds`, `DaemonStarts` |
| worker of a stream | `worker[s]`, `link[s]`, `wire[s]`, `hand[s]` | `Connect`, then the loop `Check`, `Read` or `PollEnds`, and `WorkerEnds` (`ControlClient.cc:24-43`, `136-199`), `Push` (`frontend/main.cpp:117-124`) |
| stream on its loop | `stream[s]`, `queue[s]`, `running[s]`, `busy`, `loop` | `OpenStream`, `Pull`, `Deliver`, `KeepAlive`, `Drop`, `Joined` (`frontend/main.cpp:106-134`, `545-579`) |
| page | `open[s]`, `eventLog[s]` | `Leave`; `Deliver` logs (`app.js:947-948`) |
| user | `phase[u]`, `asks[u]`, `shown[u]` | `Post`, `Continue` (`app.js:296-306`, `504-523`); on the loop `Handle`, `Dial`, `Answer`, `GiveUp` (`frontend/main.cpp:56-69`, `ControlClient.cc:24-43`, `62-134`) |

A handler that waits keeps its IO loop `busy`: a stream that waits for a line up to 15 seconds, a destructor
that joins its worker, a command that waits for its answer up to 5 seconds, and a handler or a joined worker in
`connect`, whose time nothing limits: while the daemon is `stuck` (it runs, accepts nobody, and the backlog of 8 in front of it,
`control.cpp:82`, is full) `connect` neither succeeds nor fails. A request is put on a loop when it
is sent and may have to wait for it. A command that was given up may still be carried out. `table` is the set of
the users whose change the mapper's table has; a reload, another client and the end of the daemon take changes out
of it (`mapper.cpp:100-103`, `src/main.cpp:131`). History: `cut`, the queue was longer than `Cap` and lost its
oldest line; `undone`, the users whose change was gone before they read the table.

## 3. Properties and runs

| Run | Instance | Checks |
|---|---|---|
| `reload` | 2 loaders, 1 device and the wildcard, 1 key, files: three good ones (one block, the same device twice, wildcard with an empty command) and three bad ones, 2 binds | `ReloadTypeOK`, `ReloadInstallsFile`, `ImplementsHotReload` |
| `reload_race` | same | `ReloadAlwaysInstallsFile`, expected to fail |
| `reload_failure` | 1 loader | `ReloadFailureKeepsDaemon`, expected to fail |
| `pipeline_order` | 2 devices, 2 reports each, 1 loader (main) | `TypeOK`, `StopsPromptly`, `NoReaderOutlivesDevice`, `ImplementsDispatch` |
| `pipeline_live` | 1 device, 1 report, 2 loaders (main and a client), a one-block file, 1 bind and unbind, fairness | `OnlyNamedWaits`, `DecisionInForce`, `WaitsEnd`, `EveryReportDecided`, `HangupServed`, `DaemonStops` |
| `control` | 2 clients, one sends a command and `events` in one go, the other `events` or a line that throws; 2 descriptor numbers, sockets that hold 1 line, 2 presses, fairness | `TypeOK`, `ObserverOwnsDescriptor`, `AtMostOneLateCall`, `SubscriberMissesNothing`, `EveryCommandAnswered`, `ImplementsBroadcast`, `OnlyClientsAreWaitedFor`, `GoneSubscriberDropped`, `NotifyReturns`, `MainEnds` |
| `control_sigpipe` | same | `UnwriteableSubscriberIsSignalled`, expected to fail |
| `configstore` | 2 requests at a time, 3 inodes, 3 blocks on 2 ids, a disk that may fill, crashes | `TypeOK`, `FileIsIntended`, `OpenFileStable`, `NoNewDuplicates`, `ImplementsRegister` |
| `configstore_tmp` | same, the disk does not fill | `NeverHalfWritten`, expected to fail |
| `startup` | one process that crashed before and 2 that start, 2 socket names, 2 event nodes, 2 blocks | `TypeOK`, `OneInstance`, `InstanceServed`, `DevicesSettled`, `CleanExit` |
| `bridge` | 1 page, 1 user, 1 IO loop, a queue cut above 1 line, a log of 2, a socket of 1, 3 presses, fairness | `TypeOK`, `StreamIntact`, `SeesOwnChange`, `OnlyNamedWaits`, `RequestsAnswered`, `StreamsTornDown`, `LinesDelivered` |
| `bridge_stall` | same | `StreamsStallNoRequest`, expected to fail |

* `ReloadInstallsFile` - outside `init` the table is the one its history asks for, unless the last
  reload to finish overlapped another one. `reload_race` shows that the exception is needed although
  `mapper.hpp:23` and `config.hpp:15` promise a safe hot reload.
* `ImplementsHotReload` - refinement of `HotReload` with `bindings <- Visible`: while `init` holds the lock
  nobody can look at the table, so that what can be seen is still the old one, `intended`. The loops of `load`
  and `init` become one step at the unlock.
* `ReloadFailureKeepsDaemon` - a failing reload does not end the process, as `README.md:689` has it.
  It does when a value has a type `load` does not check: the exception is caught nowhere.
* `ImplementsDispatch` - refinement of `KeyDispatch` with `owed <- cmd`.
* `DecisionInForce` - a press is decided by `intended`, never by a half-built table, unless reloads overlapped.
  In its run a lookup that did not wait for `init` would find the cleared table.
* `StopsPromptly` - at most one event is decided after SIGTERM.
* `NoReaderOutlivesDevice` - a reader that may touch its device finds it open.
* `OnlyNamedWaits` - main waits for nothing but the mapper's lock, a load of its own and the readers it joins,
  a load for nothing but the lock, a reader for nothing; the holder of the lock is in `init` and can step, and
  a free lock can be taken.
  `WaitsEnd` - each of main's waits ends, with clients that take the lock and reload again and again.
* `EveryReportDecided`, `HangupServed`, `DaemonStops` - every report is decided, every SIGHUP is followed by a
  read of the file, SIGTERM ends the process; the first two except SIGTERM and a crash, as the code drops the
  queue then.
* `ObserverOwnsDescriptor` - while an observer is in the map its number names its own connection, although
  numbers are given out again: it holds because `remove_observer` comes before the close.
* `AtMostOneLateCall` - the copy that `notify` works on may hold an observer that has been removed since, and
  its line may go to somebody else; that happens at most once to each.
* `SubscriberMissesNothing` - between two events a subscriber whose writes have not failed has been told of
  every press since it subscribed. `ImplementsBroadcast` adds the order and that nothing comes twice.
* `EveryCommandAnswered` - when a connection's thread waits for input, every command sent has its answer. A
  line that throws never gets that far: it ends the daemon (`Throw`).
* `UnwriteableSubscriberIsSignalled` - a press that meets the connection of a subscriber that has left sets the
  observer's flag (`control.cpp:253`) and the daemon goes on. It does not: the flag would be set after the
  `write` that raises SIGPIPE.
* `OnlyClientsAreWaitedFor` - a thread of the daemon that has something to do can do it unless a client does
  not read what is written to it: no thread waits for another, except `stop` for the accept thread.
* `GoneSubscriberDropped`, `NotifyReturns`, `MainEnds` - a subscriber that is gone is unsubscribed and its
  connection closed, with or without further presses; `notify` returns; SIGTERM ends main although client
  threads still wait.
* `FileIsIntended` - without overlapping writers and unnoticed short writes the file holds what the requests
  that went through ask for: no lost update, no trace of a refused or failed request, no half document, also
  after a crash. `OpenFileStable` - whoever has opened the file reads the document that was in force then.
  `NoNewDuplicates` - even overlapping requests never bring an id into the file twice. `ImplementsRegister` -
  refinement of `ConfigRegister` with `document <- content[file]`: each change of what a reader would find is
  one request's whole edit of the document that was there, and one that fits it.
* `NeverHalfWritten` - `ConfigStore.h:75-77`: nobody ever sees a half-written file. Two requests share the
  name of the temporary file, and one renames what the other has just truncated.
* `OneInstance` - unless `tangled`, no two processes are past the guard, whatever crashes and whoever gets
  whose number, and the PID file names a daemon that runs. `InstanceServed` - the server of a lone instance
  can be reached at the name it was bound to, and its devices are grabbed. `CleanExit` - a process that ends
  by itself leaves no PID file with its number, no grab and no socket under the last name it knew, even when
  `tangled`. `DevicesSettled` - at every candidate the assignment of nodes to blocks is the settled one, also
  when nodes fail to open. That two scans which passed the same nodes, of which the same failed, give every
  block the same node, so that a restart does not swap devices (`ScansAgree`), is a consequence of it that is
  proved and not run.
* `StreamIntact` - a page gets the presses in their order; nothing is missing between what it shows and what
  is under way unless the queue was cut, and what is under way runs without a gap to the latest press.
  `SeesOwnChange` - a user who is told that the change and the reading of the table went well sees a table
  with that change, unless a reload, another client or the end of the daemon dropped it before the read: a bind
  is in the mapper's table and nowhere else. `OnlyNamedWaits` - nobody waits but for a loop that is busy with
  other code, for a daemon that does not accept (`stuck`), for the daemon's answer, for a line, or, in the
  destructor, for the worker, which once connected waits for nobody when it has been told to stop.
  `RequestsAnswered`, `StreamsTornDown`, `LinesDelivered` - every request gets an answer or an error; when the
  page is gone the worker ends, its connection is closed and its loop is free; a line that reached the worker's
  socket reaches the page unless that leaves or the queue is cut. All three make one exception, `WedgedForGood`:
  `connect` (`ControlClient.cc:30`) comes before the timeouts (`40-42`), so that a daemon which stops accepting
  for good, with its backlog full, keeps whoever is in it, and whoever waits for their loop.
* `StreamsStallNoRequest` - `frontend/main.cpp:141-142`: a stream does not stall the rest of the API. A request
  gets its loop in the end, whatever streams are on it. It does not when the loop is in the destructor of a
  stream whose worker is in such a `connect`.

Disagreements with the sources' own words. `reload_race` (`mapper.hpp:23`, `config.hpp:15`), `reload_failure`
(`README.md:689`), `control_sigpipe` (`control.cpp:253`), `configstore_tmp` (`ConfigStore.h:75-77`) and `bridge_stall`
(`frontend/main.cpp:141-142`) each find one; `PROJECT.json` quotes the lines and says what the behaviour found is.

Bounds. `MaxReports`, `MaxPresses`, `Script`, `MaxEvents` and the sets of requests and processes are the only
bounds in the specifications (`launches`, `late` and the feeds grow with them).

* *Pipeline and Reload.* Two devices with two reports give every order of a queue in which reports of one
  device can be overtaken, lost or doubled; two loaders give every overlap of two reloads, and a
  lookup in the middle of `init`, when the table is cleared and the block is not merged. What the table becomes of
  files with several blocks is the matter of `reload`, and of the proof. One
  report is enough for the liveness run: the report that could be stranded is the last one, with nothing
  behind it to wake the multiplexer.
* *ControlServer.* The hazards of numbers need one connection that closes and one that gets its number; two
  presses are the least that makes a gap, and a socket of one line blocks at the second. The first client's
  script makes `buf` hold two lines, the second subscribes, or ends the daemon by a line that throws, between any
  two of the first one's steps.
* *ConfigStore.* Two requests give every overlap of two windows. Each has one inode open, one more is `file`:
  with three a temporary file can be renamed under a request that still has its old inode. Two versions of
  one id make updates differ, the second id makes an addition and a removal possible.
* *Startup.* Two processes overlap in every way, and the third, which died before, leaves PID file and
  sockets in any state. The two nodes match both blocks in part, so that who comes first matters.
* *Bridge.* A queue cut above one line, a log of two and a socket of one reach every limit within three
  presses. One loop makes page and user share it, which is the case in which they can be in each other's way;
  `frontend/main.cpp:143` has four, and the proofs any number.

For larger instances the safety properties are proved (section 4). Symmetry is used where it is sound, in
runs without liveness (`configstore`, `startup`). Deadlock is checked in every run but `startup`, where the
processes all end; a daemon that has ended stutters by `Dead` or `Halted`.

Fairness.

* *Pipeline.* Weak fairness for each reader, for the main thread and for each loader: the scheduler runs every
  thread, `pop` returns after 200 ms at the latest (`MuxTimeout`), the devices are opened with `O_NONBLOCK`
  (`device.cpp:48`) and the readers sleep one millisecond between two tries. Strong fairness for the main
  thread's two waits on `mu_` (`MuxLookup`, `TakesLock(Mux)`): clients may take the lock again and again, and
  `std::shared_mutex` gives no order, so that the daemon's liveness does rest on the lock being granted in the
  end. Nothing is assumed of signals, clients, the file, fork or the devices' reports.
* *ControlServer.* Weak fairness for the main thread inside `notify` and `stop`, for the accept thread (its
  poll ends after 200 ms) and for each client's thread by itself, and for the clients' reading. The last is
  an assumption about other programs: a client that neither reads nor closes holds the main thread in `write` for good,
  which `PROJECT.json` lists as a hazard. No press, signal, request or close is assumed to come.
* *Bridge.* Weak fairness for the worker's steps (its poll ends after 200 ms), for what a handler does on the
  loop it occupies (waits end after 15 s and 5 s) and for the page's next request. Strong fairness for
  `Pull`, `Drop` and `Handle`: several connections want one loop, and an event loop that is free again and
  again turns to each that has something for it; and for `Connect` and `Dial`: a backlog that has room again and
  again takes whoever waits in `connect`. Nothing is assumed of the daemon, which may end and start for ever,
  never answer, or stop accepting for any time (`Wedge`), nor of pages and users.

## 4. Proofs

All theorems hold for every value of the constants under the named assumptions, which TLC evaluates for the
instances: `MapperAssumption`, `ReloadAssumption`, `PipelineAssumption` (distinct special values, files that
are sequences of blocks or one of the three bad ones, a main thread that is a loader), `ControlAssumption`
(`NoFd` is no number, a socket holds a line, scripts are sequences of sets of requests), `DocumentAssumption` and
`StoreAssumption` (a cut text is no document, no inode is none), `ScanAssumption` and `StartupAssumption` (finitely many nodes and blocks, those that crashed
are processes, there is a socket name), `BridgeAssumption` (loops, pages and users are told apart, sizes are
numbers). The sets of devices, keys, threads, clients, requests, processes, pages and files may be infinite.
No safety property is inductive as it stands; each module of proofs states the invariant that is, shows that
`Init` implies it and that every action preserves it, one lemma per action, and derives the properties.

**Mapper.** `BindTakesEffect` and `UnbindTakesEffect` say what a press runs after a change of any table: a bind
decides its own cell, one of the wildcard also the devices without an entry of their own, an empty command masks the
wildcard, an unbind gives the key back to it, and nothing else changes.

**Reload.** `ReloadInstallsFile` is not inductive: it says nothing of a reload under way. `ReloadInv` adds
`RootInv` (what a loader has parsed fits its place), `HolderInv` (the lock is held exactly inside `init`),
`OverlapInv` (two loaders in the window both know it) and `AloneInv`: a loader that has not been overlapped
finds in `gdevs` the first `at` blocks of its file, and inside `init` the table is `TableUpTo(gdevs, at)`.
The step of `init` uses `MapperProofs!MergeIsNext`: merging block n+1 takes `TableUpTo(blocks, n)` to
`TableUpTo(blocks, n + 1)`, that is, the loop computes what "the last block that binds the key decides"
says. `ReloadInvariance`, `ReloadTypeCorrect` and `ReloadInstalls` follow.

`HotReloadImplemented` is the refinement of `HotReload`. Every step of `load` and all of `init` but its end is a
stutter there; the end is `Install`, because `AloneInv` says that what the loop has built is `TableOf` of the file
as it was read, or `Muddle` if the reload was overlapped. `SerialReloadsInstall` and `SerialReloadsSurvive` turn
the two findings round: where at most one thread at a time is between the clear and the unlock (`OneAtATime`) the
property that `reload_race` refutes holds, and a daemon whose files have no value of a wrong type is not ended
by any reload. One lock around `load` and `init` would therefore be enough.

**Pipeline.** `ImplementsReload` shows every step of the daemon to be a step of Reload or none, so that
`ReloadInv` holds there too. `PipelineInv` adds `QueueInv`: for every device the queue holds exactly the
reports from `FirstQueued` (the first neither decided nor in the multiplexer's hand) to `LastQueued` (the
last its reader does not still hold), each once, in order. `HandInv` and `CurInv` say the same of the two
ends, `CmdInv` when a command is at hand, `ReaderInv` and `LateInv` make the shutdown properties inductive.
`HeadIsNext` is the key step: the front of the queue is the next report of its device. From it follow
`DispatchImplemented` (refinement of `KeyDispatch`), `StopsPromptlyAlways`, `ReadersStopFirst`,
`DecisionsInForce` and `PipelineTypeCorrect`. From `ImplementsReload` and the theorems about Reload follow
`DaemonHotReloads`, the refinement of `HotReload` by the whole daemon, and `HangupReloadsAreSafe`: a daemon that
only SIGHUP reloads, never a client, keeps the promise that `reload_race` refutes. `EndInv` (the loop is left only after SIGTERM; a SIGHUP that is not
answered is in the flag or in a load about to read) serves the liveness theorems below.

**ControlServer.** `ControlInv`: `Registered` (an observer is in the map exactly while its thread streams or
is about to remove it), `OwnNumber` (open connections have different numbers), `CopyInv` (the copy holds only
observers that were registered once), `LateInv` (a late call took the observer out of the copy, and it cannot
come back), `FeedInv` (a feed that may still grow ends with the press that is due, and holds as many as came
since the subscription), `AnswerInv` (what was sent is answered, in the buffer or in the socket). Theorems
`ControlTypeCorrect`, `ObserversOwnDescriptors`, `LateCallsBounded`, `SubscribersMissNothing`,
`CommandsAnswered` and the refinement `BroadcastImplemented`, which rests on `FeedInv`: the call of an observer
appends the press after the last of its feed. `AnsweredClientsAreSafe` is the complement of `control_sigpipe`:
while the daemon runs, if no line throws (`NoLineThrows`) and a client that has left, until its connection is
closed, has no answer to come and is not among those `notify` still calls (`HeardBeforeLeft`), nothing ends the
process. Subscribers may leave at any time, by Ctrl-C as well, as long as the 100 ms peek and `remove_observer`
come before the next press. So these are the only ways: in particular no press is written to a
broken connection under a number that was passed on.
Its invariant `HeardInv` says that whoever `notify` may still write to streams or has its flag set, and that
what a thread holds in `buf` and `sock` is exactly what it has not answered, also when the client has left.

**ConfigStore.** `StoreInv`: `PlaceInv` (the two names stand for different inodes, no reader has the temporary
one open), `DuplicateInv` (only valid documents are on their way to the file), `AloneInv` and `WriterInv`: a
writer that is alone has read what is in force, edits that and holds the inode that the rename publishes.
Theorems `StoreTypeCorrect`, `FileAlwaysIntended`, `OpenFilesStable`, `DuplicatesKeptOut`. `FitInv` adds that a
writer that is alone has a request that fits the document in force; with it `RegisterImplemented` shows the
refinement of `ConfigRegister`. `HalfWrittenNeedsOverlap`: on a disk with room, and if no two requests are ever
in each other's windows, nobody sees a half-written file. Overlap is the only cause of what `configstore_tmp`
finds, and a lock around read, edit and write would remove it.

**Startup.** `StartInv`: `MarksInv` (which places a process can have reached whose number is in the PID file,
whose socket has a name, or who has grabbed a device), `AloneInv` (without overlap whoever is past the guard is
alone and the PID file has its number), `ServedInv` and `ScanInv`. Theorems `StartTypeCorrect`,
`OneInstanceAlways`, `InstancesServed`, `ScansSettled` (the first-match loop gives a settled assignment
whichever nodes fail) and `CleanExits`. `DeviceScanProofs!SettledUnique` says that a settled assignment is the
only one: of the nodes on which two assignments differ there is a least one (`WFMin` of the library, an induction
that takes no operator), and there both would have to choose the same block. `ScansAlwaysAgree` follows. `SerialStartsAreAlone`: if nobody starts
the daemon while another start, a foreground instance or an end is under way (`~Overlap`), `tangled` never comes
true, and the guard alone keeps instances apart, whatever crashes and whatever files are left.

**Bridge.** `BridgeInv`: `LoopInv` (a loop runs the code of the page or user whose request it has), `UserInv`
(what a user has been told so far is true: once the change is carried out, the table has it or `undone` names the
user, and the table that was read agrees with that), `EarlyInv` (nothing is on its way before the daemon was asked) and
`FeedInv`: for each page there is a number `c` such that the first `c` presses have left the queue, the ones
after it are in queue, hand and wire without a gap, up to the latest while the link is open, and the log shows
some of the first `c`, all of the last ones if the queue was not cut. Theorems `BridgeTypeCorrect`,
`StreamsIntact`, `ChangesSeen`. `WorkerInv` (a worker that does not poll holds no line, one that has ended no
connection, and the destructor returns only after the end) gives `StatesOutliveWorkers`: a stream's state is destroyed only after its worker has
ended, so that no callback runs on a dead state.

**Liveness.** The prover knows nothing of `ENABLED`, but lets it stand in a hypothesis. The invariants
`OnlyNamedWaits` of Pipeline and of Bridge and `OnlyClientsAreWaitedFor` state in which places a thread is enabled;
TLC checks them in `pipeline_live`, `bridge` and `control`, and the theorems assume them, together with the
fairness of the threads they are about and no other. The rest - which steps lead from each place to the next, that
no step of anybody else leads back or out of the way - is proved for every instance.

Of the daemon:

* `StopsOnceWaitsEnd`: `DaemonStops`, from fairness of the main thread, `OnlyNamedWaits` and `WaitsEnd`.
* `HangupsServedOnceWaitsEnd`: `HangupServed`, from these and fairness of main's own load.
* `ReadersSeeTheFlag`: for each device, `join` does not wait for its reader for ever, from fairness of that
  reader and `OnlyNamedWaits`. It is the third part of `WaitsEnd`, reader by reader.
* `LockReached`: main's two waits for the lock end, from strong fairness of its two ways to take it, if the lock is
  free again and again. `ClientInitAdvances` and `MuxInitAdvances`: whoever holds the lock goes on to the next block
  or gives it back, also when another load changes the vector under it. These are the other parts of `WaitsEnd`.
* `PopReachedOnceWaitsEnd`: until SIGTERM the loop comes back to `pop`, whatever it finds on the way.
  `ReportsMoveUp`: the report in place n + 1 of the queue gets to place n. `ReportDecidedOnceInFront`: a report that
  was read is pushed, and is decided once it is in front. Together they are `EveryReportDecided` but for
  the counting of the places.

Of the control server:

* `GoneSubscribersDropped`: `GoneDropped(c)` for each client, from fairness of its thread and
  `OnlyClientsAreWaitedFor`.
* `NotifyGoesOn`: a round of `notify` ends with one observer fewer to tell or with the end of the call, from
  fairness of the main thread, if no client keeps it waiting: the step of `NotifyReturns`.
* `MainEndsAfterNotify`: `MainEnds`, from fairness of the main and accept threads, `OnlyClientsAreWaitedFor` and
  `NotifyReturns`.

Of the bridge, each for one page, user or line of any number:

* `TurnsEnd`: no stream keeps its loop, although its worker may queue lines meanwhile.
* `RequestsAnsweredOnceLoopsTurn`: a request is answered, whether the daemon answers, is gone or starts anew, if
  its loop is free again while it waits and the daemon does not stop accepting for good (`[]<>~stuck`). The second
  is needed for `connect` and for nothing else.
* `HandsShorten`: a worker queues each line it holds. `StreamTornDownOnceLoopTurns`: once the page has left,
  stream, worker and connection end, under the same two hypotheses, and if the worker gets through its lines. Once
  the worker is connected it needs no line of the daemon's.
* `HeadDeliveredOnceLoopTurns`: the line at the head of the queue becomes the newest that the page shows, unless
  the page leaves or the queue is cut, if the loop is free again.

Only model-checked: the three invariants about `ENABLED`. Of `WaitsEnd`, `NotifyReturns` and `EveryReportDecided`
the steps above are proved, and what is missing is the induction over the blocks of a file, the observers of a call
and the places of a queue, an induction over leads-to that the prover does not have. `GoneSubscriberDropped` and the
bridge's `RequestsAnswered`, `StreamsTornDown` and `LinesDelivered` are about all clients, pages and users, and
temporal theorems for each one cannot be put together to one for all; of the bridge's also the hypothesis that a loop
is free again and again is left to TLC, since with several connections on a loop it takes a count of their turns.
Induction whose predicate would have to be passed as an operator is out of reach as well, so that loops are proved
step by step (`MergeIsNext`, `ScanInv`) or by a least counterexample (`SettledUnique`), and nothing is defined by
recursion. Every safety property of the passing runs but the three about `ENABLED` is proved. The five properties
that fail are not theorems of their specifications; `SerialReloadsInstall`, `SerialReloadsSurvive`,
`AnsweredClientsAreSafe` and `HalfWrittenNeedsOverlap` say under which use of the program the first four hold, and
`RequestsAnsweredOnceLoopsTurn` what the fifth lacks.

## 5. Not modelled

*Left out of a module that models the rest.*

* ControlServer: what becomes of the process after `main` has returned while detached client threads run
  (they may use destroyed objects), the unsynchronised `server_fd_` that `stop` closes under the accept
  loop's poll, and signals that another thread than the main one takes. The run's clients send nothing after
  `events`; the specification lets them. What jsoncpp makes of a line is external: a line counts as one of three
  kinds.
* Startup: the error paths of `listen` and of a socket path too long for its field, and the instant at which a
  handler is installed (a signal before that is a `Crash`). The exceptions of `tangled` are real: overlapping
  starts, a foreground instance beside a daemon, and a start while another process has its destructors to run
  (the second `stop` unlinks the newcomer's socket).
* ConfigStore: the fields of a device block besides its id, and the warnings about paths. A document is a set, so
  that two blocks which are equal in all they have are one; an update that would make such a pair is refused by
  `Fits`, as `validate` refuses it in the code.
* Bridge: Drogon itself and the daemon behind its socket are external; a user acts once; routes of one kind are
  one action; a line fits the buffer Drogon offers, so that nothing is cut off it (`frontend/main.cpp:571-573`);
  the daemon does not drop a subscriber whose connection stays open (`control.cpp:272-273`, after a write that was
  interrupted). A stream whose daemon restarts never gets a line again although keep-alives go on: a hazard
  that no property states, as no document promises otherwise.
* Reload: `InitMerge` reads the length of the vector at every block, where the loop of `mapper.cpp:105` keeps the
  iterators it began with. They differ only if another load changes the vector meanwhile, which is undefined.
* Pipeline: the condition variable of the queue, whose wait `pop` ends after 200 ms in any case; what libevdev
  hands out after SYN_DROPPED (such reports count as never made), the size of the queue, which nothing limits,
  and what a launched command does.
* ConfigLoader: the options besides devices and control socket, `dump`, `validate` (it warns).
* Device: the moves of the handle and `matches`, which nothing calls.

*Left out altogether.* The web UI's rendering, mouse picture, auto-map wizard and devices dialog; the earlier
reader code in `event.cpp`, which is compiled into neither program; the Makefiles, the service unit and the
scripts; the table of key names; the text of responses and logs; backtraces of `crash_handler`.
