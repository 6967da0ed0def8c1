------------------------------- MODULE Reload -------------------------------
(***************************************************************************)
(* Hot reload: ConfigLoader::load followed by Mapper::init, run by the     *)
(* multiplexer for SIGHUP and by any client thread of the control socket   *)
(* for "reload", while other client threads bind and unbind.               *)
(*                                                                         *)
(* load works on the global g_config.devices without a lock; init holds    *)
(* the mapper's exclusive lock but iterates the same unprotected vector.   *)
(* Each access to the vector is a step of its own.  Two threads that are   *)
(* both about to access it, one of them to write, are in a data race: the  *)
(* outcomes modelled are the accesses in either order, an append that is   *)
(* lost, and a crash of the process.                                       *)
(***************************************************************************)
EXTENDS Mapper

CONSTANTS
  Loaders,     \* the threads that can run a reload
  NoThread,    \* nobody holds the mapper's exclusive lock
  Files,       \* the contents the config file takes: a sequence of the
               \* blocks the loop of load keeps (entries it skips left out),
               \* or one of the three below
  Unreadable,  \* a file that cannot be opened or parsed
  NoDevices,   \* JSON whose "devices" is missing or not an array
  IllTyped,    \* JSON with a value jsoncpp cannot convert where load uses
               \* it unchecked: a device that is no object, a command that
               \* is an array or an object
  Rebinds      \* what clients bind: <<device, key, command>>

ASSUME ReloadAssumption ==
  /\ NoThread \notin Loaders
  /\ Files \subseteq Seq(Blocks) \cup {Unreadable, NoDevices, IllTyped}
  /\ {Unreadable, NoDevices, IllTyped} \cap Seq(Blocks) = {}
  /\ Unreadable # NoDevices
  /\ IllTyped \notin {Unreadable, NoDevices}
  /\ Rebinds \subseteq Ids \X Keys \X Decisions

VARIABLES
  file,      \* what the config file holds now
  gdevs,     \* g_config.devices
  table,     \* Mapper::table_
  lpc,       \* where each loader is
  root,      \* the parsed file of each loader, a local of load
  at,        \* how many blocks its current loop has passed
  holder,    \* the thread that holds Mapper::mu_ exclusively
  crashed,   \* the process died of a data race or of an exception
  intended,  \* history: the table the reloads, binds and unbinds so far ask for
  raced,     \* history: this loader's reload overlapped another one
  suspect    \* history: the last reload to finish had overlapped another one

reloadVars == <<file, gdevs, table, lpc, root, at, holder, crashed,
                intended, raced, suspect>>

\* A loader that is not in load has parsed nothing.
NoFile == <<>>

ReloadTypeOK ==
  /\ file \in Files
  /\ gdevs \in Seq(Blocks)
  /\ table \in Tables
  /\ lpc \in [Loaders -> {"idle", "open", "clear", "push", "merge"}]
  /\ root \in [Loaders -> Files \cup {NoFile}]
  /\ at \in [Loaders -> Nat]
  /\ holder \in Loaders \cup {NoThread}
  /\ crashed \in BOOLEAN
  /\ intended \in Tables
  /\ raced \in [Loaders -> BOOLEAN]
  /\ suspect \in BOOLEAN

\* main has loaded the file, accepted it (validate wants a device) and run
\* mapper.init() before any other thread exists.
ReloadInit ==
  /\ file \in Files \ {<<>>, Unreadable, NoDevices, IllTyped}
  /\ gdevs = file
  /\ table = TableOf(file)
  /\ lpc = [t \in Loaders |-> "idle"]
  /\ root = [t \in Loaders |-> NoFile]
  /\ at = [t \in Loaders |-> 0]
  /\ holder = NoThread
  /\ crashed = FALSE
  /\ intended = table
  /\ raced = [t \in Loaders |-> FALSE]
  /\ suspect = FALSE

-----------------------------------------------------------------------------
(* The environment: an editor or the web bridge replaces the file.         *)

FileChange ==
  /\ ~crashed
  /\ file' \in Files
  /\ UNCHANGED <<gdevs, table, lpc, root, at, holder, crashed, intended,
                 raced, suspect>>

-----------------------------------------------------------------------------
(* ConfigLoader::load                                                      *)

\* From the clear of the devices to the end of init, a reload relies on the
\* global vector.
InWindow(t) == lpc[t] \in {"clear", "push", "merge"}

StartReload(t) ==
  /\ ~crashed
  /\ lpc[t] = "idle"
  /\ lpc' = [lpc EXCEPT ![t] = "open"]
  /\ UNCHANGED <<file, gdevs, table, root, at, holder, crashed, intended,
                 raced, suspect>>

\* The call returns; its locals are gone.
Return(t) ==
  /\ lpc' = [lpc EXCEPT ![t] = "idle"]
  /\ root' = [root EXCEPT ![t] = NoFile]
  /\ at' = [at EXCEPT ![t] = 0]
  /\ raced' = [raced EXCEPT ![t] = FALSE]

\* The loaders that have overlapped another one, once t enters the window.
Overlap(t) ==
  [u \in Loaders |->
     \/ raced[u]
     \/ u # t /\ InWindow(u)
     \/ u = t /\ \E v \in Loaders \ {t} : InWindow(v)]

\* Opens and parses the file; on failure load returns before it has touched
\* the configuration.
LoadRead(t) ==
  /\ ~crashed
  /\ lpc[t] = "open"
  /\ \/ /\ file = Unreadable
        /\ Return(t)
     \/ /\ file # Unreadable
        /\ root' = [root EXCEPT ![t] = file]
        /\ lpc' = [lpc EXCEPT ![t] = "clear"]
        /\ raced' = Overlap(t)
        /\ UNCHANGED at
  /\ UNCHANGED <<file, gdevs, table, holder, crashed, intended, suspect>>

\* devices.clear(), and only then the checks of what was parsed: without a
\* devices array load fails; a value of a type it does not expect makes
\* jsoncpp throw, and no thread catches.
LoadClear(t) ==
  /\ ~crashed
  /\ lpc[t] = "clear"
  /\ gdevs' = <<>>
  /\ \/ /\ root[t] = NoDevices
        /\ Return(t)
        /\ UNCHANGED crashed
     \/ /\ root[t] = IllTyped
        /\ crashed' = TRUE
        /\ UNCHANGED <<lpc, root, at, raced>>
     \/ /\ root[t] \notin {NoDevices, IllTyped}
        /\ lpc' = [lpc EXCEPT ![t] = "push"]
        /\ at' = [at EXCEPT ![t] = 0]
        /\ UNCHANGED <<root, raced, crashed>>
  /\ UNCHANGED <<file, table, holder, intended, suspect>>

AboutToWrite(t) ==
  \/ lpc[t] = "clear"
  \/ lpc[t] = "push" /\ at[t] < Len(root[t])

AboutToRead(t) == lpc[t] = "merge" /\ at[t] < Len(gdevs)

DataRace(t, u) ==
  /\ t # u
  /\ AboutToWrite(t)
  /\ AboutToWrite(u) \/ AboutToRead(u)

\* Deviation: the block is pushed before its id is assigned.
LoadPushUnnamed(t) ==
  /\ ~crashed
  /\ lpc[t] = "push"
  /\ at[t] < Len(root[t])
  /\ gdevs' = Append(gdevs, [root[t][at[t] + 1] EXCEPT !.id = Unbound])
  /\ at' = [at EXCEPT ![t] = @ + 1]
  /\ UNCHANGED <<file, table, lpc, root, holder, crashed, intended, raced,
                 suspect>>

LoadPush(t) ==
  /\ ~crashed
  /\ lpc[t] = "push"
  /\ at[t] < Len(root[t])
  /\ \/ gdevs' = Append(gdevs, root[t][at[t] + 1])
     \/ /\ \E u \in Loaders : DataRace(t, u)
        /\ UNCHANGED gdevs
  /\ at' = [at EXCEPT ![t] = @ + 1]
  /\ UNCHANGED <<file, table, lpc, root, holder, crashed, intended, raced,
                 suspect>>

-----------------------------------------------------------------------------
(* Mapper::init                                                            *)

\* Deviation: init does not clear the table.
InitLockKeepsTable(t) ==
  /\ ~crashed
  /\ lpc[t] = "push"
  /\ at[t] = Len(root[t])
  /\ holder = NoThread
  /\ holder' = t
  /\ at' = [at EXCEPT ![t] = 0]
  /\ lpc' = [lpc EXCEPT ![t] = "merge"]
  /\ UNCHANGED <<file, gdevs, table, root, crashed, intended, raced, suspect>>

\* Deviation: init works on the table without the lock.
InitTakesNoLock(t) ==
  /\ ~crashed
  /\ lpc[t] = "push"
  /\ at[t] = Len(root[t])
  /\ table' = EmptyTable
  /\ at' = [at EXCEPT ![t] = 0]
  /\ lpc' = [lpc EXCEPT ![t] = "merge"]
  /\ UNCHANGED <<file, gdevs, root, holder, crashed, intended, raced, suspect>>

InitLock(t) ==
  /\ ~crashed
  /\ lpc[t] = "push"
  /\ at[t] = Len(root[t])
  /\ holder = NoThread
  /\ holder' = t
  /\ table' = EmptyTable
  /\ at' = [at EXCEPT ![t] = 0]
  /\ lpc' = [lpc EXCEPT ![t] = "merge"]
  /\ UNCHANGED <<file, gdevs, root, crashed, intended, raced, suspect>>

InitMerge(t) ==
  /\ ~crashed
  /\ lpc[t] = "merge"
  /\ at[t] < Len(gdevs)
  /\ table' = MergeDevice(table, gdevs[at[t] + 1])
  /\ at' = [at EXCEPT ![t] = @ + 1]
  /\ UNCHANGED <<file, gdevs, lpc, root, holder, crashed, intended, raced,
                 suspect>>

\* Deviation: the lock is still held when init returns.
InitUnlockForgotten(t) ==
  /\ ~crashed
  /\ lpc[t] = "merge"
  /\ at[t] >= Len(gdevs)
  /\ intended' = TableOf(root[t])
  /\ suspect' = raced[t]
  /\ Return(t)
  /\ UNCHANGED <<file, gdevs, table, holder, crashed>>

InitUnlock(t) ==
  /\ ~crashed
  /\ lpc[t] = "merge"
  /\ at[t] >= Len(gdevs)
  /\ holder' = NoThread
  /\ intended' = TableOf(root[t])
  /\ suspect' = raced[t]
  /\ Return(t)
  /\ UNCHANGED <<file, gdevs, table, crashed>>

-----------------------------------------------------------------------------
(* bind and unbind, from any client thread                                 *)

Bind(d, k, c) ==
  /\ ~crashed
  /\ holder = NoThread
  /\ table' = AddBinding(table, d, k, c)
  /\ intended' = AddBinding(intended, d, k, c)
  /\ UNCHANGED <<file, gdevs, lpc, root, at, holder, crashed, raced, suspect>>

Unbind(d, k) ==
  /\ ~crashed
  /\ holder = NoThread
  /\ table' = RemoveBinding(table, d, k)
  /\ intended' = RemoveBinding(intended, d, k)
  /\ UNCHANGED <<file, gdevs, lpc, root, at, holder, crashed, raced, suspect>>

-----------------------------------------------------------------------------

\* Two unsynchronised accesses to the vector corrupt the heap; the SIGSEGV or
\* SIGABRT that follows ends in crash_handler and _exit.
DataRaceCrash ==
  /\ ~crashed
  /\ \E t, u \in Loaders : DataRace(t, u)
  /\ crashed' = TRUE
  /\ UNCHANGED <<file, gdevs, table, lpc, root, at, holder, intended, raced,
                 suspect>>

\* A step of a reload that has begun.
LoadStep(t) ==
  \/ LoadRead(t)
  \/ LoadClear(t)
  \/ LoadPush(t)
  \/ InitLock(t)
  \/ InitMerge(t)
  \/ InitUnlock(t)

Rebind ==
  \E b \in Rebinds : Bind(b[1], b[2], b[3]) \/ Unbind(b[1], b[2])

\* A dead process takes no step.
Dead == crashed /\ UNCHANGED reloadVars

ReloadNext ==
  \/ FileChange
  \/ \E t \in Loaders : StartReload(t) \/ LoadStep(t)
  \/ Rebind
  \/ DataRaceCrash
  \/ Dead

ReloadSpec == ReloadInit /\ [][ReloadNext]_reloadVars

-----------------------------------------------------------------------------
(* What a reload implements                                                *)

\* A thread that looks a key up while init holds the lock waits for its end, so
\* that nobody sees the table it is building.
Visible == IF holder = NoThread THEN table ELSE intended

Swap == INSTANCE HotReload WITH
  pending <- {t \in Loaders : InWindow(t)},
  read <- root,
  raced <- {t \in Loaders : raced[t]},
  bindings <- Visible,
  disturbed <- suspect

-----------------------------------------------------------------------------

\* Whenever no thread is inside init, the table is the one its history asks
\* for: the file as the last reload read it, changed by the binds and unbinds
\* since.  It may be off only while the last reload to finish is one that
\* overlapped another reload; the next one that ran alone repairs it.
\* (config.cpp load, mapper.cpp init, control.cpp bind, unbind, reload)
ReloadInstallsFile == holder = NoThread /\ ~suspect => table = intended

\* The loops of load and init, over an unprotected vector and under a lock, make
\* one step (config.cpp:13-103, mapper.cpp:100-121): a reload that runs alone
\* replaces all bindings at once by those of the file as it was read, a reload
\* that fails changes none, and between them they change by bind and unbind only.
ImplementsHotReload == Swap!Spec

\* What mapper.hpp and config.hpp promise of a hot reload, with no exception
\* for reloads that overlap.
ReloadAlwaysInstallsFile == holder = NoThread => table = intended

\* A reload that fails keeps the daemon and its config, as README.md has it:
\* nothing but a data race ends the process.
\* (config.cpp load, called without a handler by multiplexer.cpp and control.cpp)
ReloadFailureKeepsDaemon == crashed => \E t, u \in Loaders : DataRace(t, u)
=============================================================================
