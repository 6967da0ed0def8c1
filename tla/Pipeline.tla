------------------------------ MODULE Pipeline ------------------------------
(***************************************************************************)
(* From a device node to a launched command.  One reader thread per device *)
(* (DeviceManager::reader_fn) pushes key reports into EventQueue; the main *)
(* thread (EventMultiplexer::run) pops them, looks each press up in the    *)
(* mapper and launches its command; between two events it serves SIGHUP.   *)
(* Client threads reload, bind and unbind at any time.  SIGTERM ends the   *)
(* loop and main joins the readers before it closes the devices.           *)
(*                                                                         *)
(* Notifying the observers of the event stream is one step that returns.   *)
(***************************************************************************)
EXTENDS Reload

CONSTANTS
  Mux,         \* the main thread, one of the loaders
  NoEvent,     \* an empty slot
  MaxReports   \* bound: key reports each device makes

ASSUME PipelineAssumption ==
  /\ Mux \in Loaders
  /\ MaxReports \in Nat

VARIABLES
  running,     \* g_running
  reloadFlag,  \* g_reload
  opened,      \* the devices whose node and libevdev handle are open
  active,      \* Entry::active
  rpc,         \* where each reader thread is
  hand,        \* the event a reader has built and not yet pushed
  queue,       \* EventQueue::q_
  pc,          \* where the main thread is
  cur,         \* the event the multiplexer has popped
  cmd,         \* the command it has decided on
  reported,    \* history: the key reports each device made
  handled,     \* history: how many of them have been decided
  launches,    \* history: commands launched
  unread,      \* history: a SIGHUP came and the file was not read since
  late         \* history: decisions taken after SIGTERM

vars == <<reloadVars, running, reloadFlag, opened, active, rpc, hand, queue,
          pc, cur, cmd, reported, handled, launches, unread, late>>

muxVars == <<pc, cur, cmd, handled, launches, late>>
readerVars == <<opened, active, rpc, hand, queue, reported>>
signalVars == <<running, reloadFlag, unread>>

Reports == [key : Keys, press : BOOLEAN]

\* An InputEvent: its device, its place among the reports of that device
\* (the timestamp), its code and whether its value is EV_KEY_PRESS.
Events == [dev : Devices, n : Nat, key : Keys, press : BOOLEAN]

TypeOK ==
  /\ ReloadTypeOK
  /\ running \in BOOLEAN
  /\ reloadFlag \in BOOLEAN
  /\ opened \in SUBSET Devices
  /\ active \in [Devices -> BOOLEAN]
  /\ rpc \in [Devices -> {"off", "check", "read", "push", "exited"}]
  /\ hand \in [Devices -> Events \cup {NoEvent}]
  /\ queue \in Seq(Events)
  /\ pc \in {"start", "loop", "flag", "reload", "pop", "lookup", "notify",
             "exec", "stop", "join", "close", "exited"}
  /\ cur \in Events \cup {NoEvent}
  /\ cmd \in Decisions
  /\ reported \in [Devices -> Seq(Reports)]
  /\ handled \in [Devices -> Nat]
  /\ launches \in Nat
  /\ unread \in BOOLEAN
  /\ late \in Nat

\* open_all has opened at least one device, the control server is up, no
\* reader has started.
Init ==
  /\ ReloadInit
  /\ running = TRUE
  /\ reloadFlag = FALSE
  /\ opened \in SUBSET Devices \ {{}}
  /\ active = [d \in Devices |-> FALSE]
  /\ rpc = [d \in Devices |-> "off"]
  /\ hand = [d \in Devices |-> NoEvent]
  /\ queue = <<>>
  /\ pc = "start"
  /\ cur = NoEvent
  /\ cmd = EmptyCommand
  /\ reported = [d \in Devices |-> <<>>]
  /\ handled = [d \in Devices |-> 0]
  /\ launches = 0
  /\ unread = FALSE
  /\ late = 0

\* The process has neither crashed nor returned from main.
Alive == ~crashed /\ pc # "exited"

-----------------------------------------------------------------------------
(* Reader threads                                                          *)

StartReaders ==
  /\ Alive
  /\ pc = "start"
  /\ active' = [d \in Devices |-> d \in opened]
  /\ rpc' = [d \in Devices |-> IF d \in opened THEN "check" ELSE "off"]
  /\ pc' = "loop"
  /\ UNCHANGED <<reloadVars, signalVars, opened, hand, queue, cur, cmd,
                 reported, handled, launches, late>>

ReaderCheck(d) ==
  /\ Alive
  /\ rpc[d] = "check"
  /\ rpc' = [rpc EXCEPT ![d] = IF active[d] /\ running THEN "read" ELSE "exited"]
  /\ UNCHANGED <<reloadVars, signalVars, muxVars, opened, active, hand, queue,
                 reported>>

\* SUCCESS with an EV_KEY report.
ReaderGetsKey(d) ==
  /\ Alive
  /\ rpc[d] = "read"
  /\ Len(reported[d]) < MaxReports
  /\ \E r \in Reports :
       /\ reported' = [reported EXCEPT ![d] = Append(@, r)]
       /\ hand' = [hand EXCEPT ![d] =
            [dev |-> d, n |-> Len(reported[d]) + 1, key |-> r.key, press |-> r.press]]
  /\ rpc' = [rpc EXCEPT ![d] = "push"]
  /\ UNCHANGED <<reloadVars, signalVars, muxVars, opened, active, queue>>

\* -EAGAIN, a report that is not EV_KEY, or a SYNC burst, which is drained.
ReaderGetsNothing(d) ==
  /\ Alive
  /\ rpc[d] = "read"
  /\ rpc' = [rpc EXCEPT ![d] = "check"]
  /\ UNCHANGED <<reloadVars, signalVars, muxVars, opened, active, hand, queue,
                 reported>>

\* Any other error: the device is gone, its thread ends, its fd stays open.
ReaderLosesDevice(d) ==
  /\ Alive
  /\ rpc[d] = "read"
  /\ active' = [active EXCEPT ![d] = FALSE]
  /\ rpc' = [rpc EXCEPT ![d] = "exited"]
  /\ UNCHANGED <<reloadVars, signalVars, muxVars, opened, hand, queue, reported>>

ReaderPush(d) ==
  /\ Alive
  /\ rpc[d] = "push"
  /\ queue' = Append(queue, hand[d])
  /\ hand' = [hand EXCEPT ![d] = NoEvent]
  /\ rpc' = [rpc EXCEPT ![d] = "check"]
  /\ UNCHANGED <<reloadVars, signalVars, muxVars, opened, active, reported>>

ReaderStep(d) ==
  \/ ReaderCheck(d)
  \/ ReaderGetsKey(d)
  \/ ReaderGetsNothing(d)
  \/ ReaderLosesDevice(d)
  \/ ReaderPush(d)

-----------------------------------------------------------------------------
(* EventMultiplexer::run                                                   *)

\* Deviation: the loop drains the queue before it stops.
MuxContinueDrains ==
  /\ Alive
  /\ pc = "loop"
  /\ running \/ queue # <<>>
  /\ pc' = "flag"
  /\ UNCHANGED <<reloadVars, signalVars, readerVars, cur, cmd, handled,
                 launches, late>>

MuxContinue ==
  /\ Alive
  /\ pc = "loop"
  /\ running
  /\ pc' = "flag"
  /\ UNCHANGED <<reloadVars, signalVars, readerVars, cur, cmd, handled,
                 launches, late>>

MuxLeave ==
  /\ Alive
  /\ pc = "loop"
  /\ ~running
  /\ pc' = "stop"
  /\ UNCHANGED <<reloadVars, signalVars, readerVars, cur, cmd, handled,
                 launches, late>>

\* g_reload.exchange(false) found the flag set; the load begins.
MuxTakeReload ==
  /\ Alive
  /\ pc = "flag"
  /\ reloadFlag
  /\ reloadFlag' = FALSE
  /\ StartReload(Mux)
  /\ pc' = "reload"
  /\ UNCHANGED <<running, unread, readerVars, cur, cmd, handled, launches, late>>

MuxNoReload ==
  /\ Alive
  /\ pc = "flag"
  /\ ~reloadFlag
  /\ pc' = "pop"
  /\ UNCHANGED <<reloadVars, signalVars, readerVars, cur, cmd, handled,
                 launches, late>>

\* A step of a reload; a read of the file by the multiplexer answers every
\* SIGHUP before it.
Reloads(t) ==
  /\ Alive
  /\ LoadStep(t)
  /\ unread' = (unread /\ ~(t = Mux /\ lpc[t] = "open"))
  /\ UNCHANGED <<running, reloadFlag, readerVars, muxVars>>

\* The step of it that may have to wait.
TakesLock(t) ==
  /\ Alive
  /\ InitLock(t)
  /\ UNCHANGED <<signalVars, readerVars, muxVars>>

\* Deviation: the flag is cleared after the reload instead of before it.
MuxReloadedClears ==
  /\ Alive
  /\ pc = "reload"
  /\ lpc[Mux] = "idle"
  /\ pc' = "pop"
  /\ reloadFlag' = FALSE
  /\ UNCHANGED <<reloadVars, running, unread, readerVars, cur, cmd, handled,
                 launches, late>>

MuxReloaded ==
  /\ Alive
  /\ pc = "reload"
  /\ lpc[Mux] = "idle"
  /\ pc' = "pop"
  /\ UNCHANGED <<reloadVars, signalVars, readerVars, cur, cmd, handled,
                 launches, late>>

\* The decision on an event, made after SIGTERM or before.
Decided(ev) ==
  /\ handled' = [handled EXCEPT ![ev.dev] = ev.n]
  /\ late' = IF running THEN late ELSE late + 1

\* Deviation: the front of the queue is read and not removed.
MuxPopKeepsFront ==
  /\ Alive
  /\ pc = "pop"
  /\ queue # <<>>
  /\ cur' = Head(queue)
  /\ \/ /\ Head(queue).press
        /\ pc' = "lookup"
        /\ UNCHANGED <<handled, late>>
     \/ /\ ~Head(queue).press
        /\ pc' = "notify"
        /\ Decided(Head(queue))
  /\ UNCHANGED <<reloadVars, signalVars, readerVars, cmd, launches>>

\* Releases and repeats are notified without a lookup.
MuxPop ==
  /\ Alive
  /\ pc = "pop"
  /\ queue # <<>>
  /\ cur' = Head(queue)
  /\ queue' = Tail(queue)
  /\ \/ /\ Head(queue).press
        /\ pc' = "lookup"
        /\ UNCHANGED <<handled, late>>
     \/ /\ ~Head(queue).press
        /\ pc' = "notify"
        /\ Decided(Head(queue))
  /\ UNCHANGED <<reloadVars, signalVars, opened, active, rpc, hand, reported,
                 cmd, launches>>

\* Deviation: pop waits without a timeout.
MuxWaitsOn ==
  /\ Alive
  /\ pc = "pop"
  /\ queue = <<>>
  /\ UNCHANGED vars

\* 200 ms without an event.
MuxTimeout ==
  /\ Alive
  /\ pc = "pop"
  /\ queue = <<>>
  /\ pc' = "loop"
  /\ UNCHANGED <<reloadVars, signalVars, readerVars, cur, cmd, handled,
                 launches, late>>

\* Deviation: lookup does not take the lock.
MuxLookupUnlocked ==
  /\ Alive
  /\ pc = "lookup"
  /\ cmd' = Resolve(table, cur.dev, cur.key)
  /\ Decided(cur)
  /\ pc' = "notify"
  /\ UNCHANGED <<reloadVars, signalVars, readerVars, cur, launches>>

\* Deviation: the optional is read without value_or.
MuxLookupNoDefault ==
  /\ Alive
  /\ pc = "lookup"
  /\ holder = NoThread
  /\ cmd' = Lookup(table, cur.dev, cur.key)
  /\ Decided(cur)
  /\ pc' = "notify"
  /\ UNCHANGED <<reloadVars, signalVars, readerVars, cur, launches>>

\* lookup takes the mapper's lock shared.
MuxLookup ==
  /\ Alive
  /\ pc = "lookup"
  /\ holder = NoThread
  /\ cmd' = Resolve(table, cur.dev, cur.key)
  /\ Decided(cur)
  /\ pc' = "notify"
  /\ UNCHANGED <<reloadVars, signalVars, readerVars, cur, launches>>

MuxNotify ==
  /\ Alive
  /\ pc = "notify"
  /\ pc' = IF cmd = EmptyCommand THEN "loop" ELSE "exec"
  /\ cur' = NoEvent
  /\ UNCHANGED <<reloadVars, signalVars, readerVars, cmd, handled, launches, late>>

\* Executor::run: fork() succeeds, or fails and the press is lost.
MuxExec ==
  /\ Alive
  /\ pc = "exec"
  /\ launches' \in {launches, launches + 1}
  /\ cmd' = EmptyCommand
  /\ pc' = "loop"
  /\ UNCHANGED <<reloadVars, signalVars, readerVars, cur, handled, late>>

-----------------------------------------------------------------------------
(* DeviceManager::stop and the end of main                                 *)

FlagReaders ==
  /\ Alive
  /\ pc = "stop"
  /\ active' = [d \in Devices |-> FALSE]
  /\ pc' = "join"
  /\ UNCHANGED <<reloadVars, signalVars, opened, rpc, hand, queue, reported,
                 cur, cmd, handled, launches, late>>

\* Deviation: the devices are closed without joining their readers.
JoinReadersSkipped ==
  /\ Alive
  /\ pc = "join"
  /\ pc' = "close"
  /\ UNCHANGED <<reloadVars, signalVars, readerVars, cur, cmd, handled,
                 launches, late>>

JoinReaders ==
  /\ Alive
  /\ pc = "join"
  /\ \A d \in opened : rpc[d] = "exited"
  /\ pc' = "close"
  /\ UNCHANGED <<reloadVars, signalVars, readerVars, cur, cmd, handled,
                 launches, late>>

\* Every device is closed and main returns; the queue is shut down only now,
\* when nobody is left to be woken, and what it holds is dropped.
CloseAll ==
  /\ Alive
  /\ pc = "close"
  /\ opened' = {}
  /\ pc' = "exited"
  /\ UNCHANGED <<reloadVars, signalVars, active, rpc, hand, queue, reported,
                 cur, cmd, handled, launches, late>>

MuxStep ==
  \/ StartReaders
  \/ MuxContinue
  \/ MuxLeave
  \/ MuxTakeReload
  \/ MuxNoReload
  \/ MuxReloaded
  \/ MuxPop
  \/ MuxTimeout
  \/ MuxLookup
  \/ MuxNotify
  \/ MuxExec
  \/ FlagReaders
  \/ JoinReaders
  \/ CloseAll

-----------------------------------------------------------------------------
(* Signals, clients and the file                                           *)

SigTerm ==
  /\ Alive
  /\ running' = FALSE
  /\ UNCHANGED <<reloadVars, reloadFlag, unread, readerVars, muxVars>>

SigHup ==
  /\ Alive
  /\ reloadFlag' = TRUE
  /\ unread' = TRUE
  /\ UNCHANGED <<reloadVars, running, readerVars, muxVars>>

ClientReload(t) ==
  /\ Alive
  /\ t # Mux
  /\ StartReload(t)
  /\ UNCHANGED <<signalVars, readerVars, muxVars>>

ClientRebind ==
  /\ Alive
  /\ Rebind
  /\ UNCHANGED <<signalVars, readerVars, muxVars>>

Environment ==
  /\ Alive
  /\ FileChange \/ DataRaceCrash
  /\ UNCHANGED <<signalVars, readerVars, muxVars>>

\* A process that is gone takes no step.
Halted == ~Alive /\ UNCHANGED vars

Next ==
  \/ \E d \in Devices : ReaderStep(d)
  \/ MuxStep
  \/ \E t \in Loaders : Reloads(t) \/ ClientReload(t)
  \/ SigTerm
  \/ SigHup
  \/ ClientRebind
  \/ Environment
  \/ Halted

Spec == Init /\ [][Next]_vars

\* Each thread keeps running: pop waits at most 200 ms and the devices are
\* read without blocking.  The main thread, when it waits for the mapper's
\* lock, gets it in the end although clients take it again and again.
Fairness ==
  /\ \A d \in Devices : WF_vars(ReaderStep(d))
  /\ WF_vars(MuxStep) /\ SF_vars(MuxLookup)
  /\ \A t \in Loaders : WF_vars(Reloads(t))
  /\ SF_vars(TakesLock(Mux))

FairSpec == Spec /\ Fairness

-----------------------------------------------------------------------------
(* Safety                                                                  *)

\* Reports are decided per device in the order the device made them, each
\* one exactly once, and a command is launched at most once per press,
\* whatever the readers, the queue and the reloads do in between.
\* (reader_fn, EventQueue::push and pop, EventMultiplexer::run)
Dispatch == INSTANCE KeyDispatch WITH owed <- cmd
ImplementsDispatch == Dispatch!Spec

\* A press runs what the bindings in force at its lookup say, never what a
\* half-built table says: a lookup waits for a reload that is rebuilding the
\* table, and between reloads the table is the one the last reload, bind or
\* unbind left, unless that reload overlapped another.
\* (Mapper::lookup and init, value_or in EventMultiplexer::run)
DecisionInForce ==
  [][(pc = "lookup" /\ pc' = "notify" /\ ~suspect)
       => cmd' = Resolve(intended, cur.dev, cur.key)]_vars

\* SIGTERM stops the daemon at the next turn of the loop: the events still
\* queued are dropped, at most the one being taken is decided.
\* (EventMultiplexer::run, Daemon's signal handler)
StopsPromptly == late <= 1

\* A reader thread that may still touch its device finds it open.
\* (DeviceManager::stop joins before it closes)
NoReaderOutlivesDevice ==
  \A d \in Devices : rpc[d] \in {"check", "read", "push"} => d \in opened

-----------------------------------------------------------------------------
(* Waiting                                                                 *)

\* What the main thread waits for: its own load, the mapper's lock, the readers.
MainWaits ==
  \/ pc = "reload" /\ lpc[Mux] # "idle"
  \/ pc = "lookup" /\ holder # NoThread
  \/ pc = "join" /\ \E d \in opened : rpc[d] # "exited"

\* What a load waits for, once its blocks are pushed: the mapper's lock.
InitDue(t) == lpc[t] = "push" /\ at[t] = Len(root[t])
LoadWaits(t) == InitDue(t) /\ holder # NoThread

\* Nobody waits for anything else: a reader that has not ended can step, so can
\* a load but for the lock and the main thread but for the lock, its load and
\* the readers it joins; a free lock can be taken.  Whoever has the lock is in
\* init and can step, so no two threads wait for each other.
\* (reader_fn, EventQueue::pop, Mapper::init, DeviceManager::stop)
OnlyNamedWaits ==
  Alive =>
    /\ \A d \in Devices :
         rpc[d] \in {"check", "read", "push"} => ENABLED <<ReaderStep(d)>>_vars
    /\ ~MainWaits => ENABLED <<MuxStep>>_vars
    /\ pc = "lookup" /\ holder = NoThread => ENABLED <<MuxLookup>>_vars
    /\ InitDue(Mux) /\ holder = NoThread => ENABLED <<TakesLock(Mux)>>_vars
    /\ lpc[Mux] # "idle" /\ ~LoadWaits(Mux) => ENABLED <<Reloads(Mux)>>_vars
    /\ \A t \in Loaders \ {Mux} :
         lpc[t] # "idle" /\ ~LoadWaits(t) => ENABLED <<Reloads(t)>>_vars
    /\ holder # NoThread => lpc[holder] = "merge"

-----------------------------------------------------------------------------
(* Liveness                                                                *)

\* No wait of the main thread lasts for ever: its loads end, it gets the lock
\* that clients take again and again, and the readers it joins see the flag.
\* (Mapper::lookup, Mapper::init, DeviceManager::stop)
WaitsEnd ==
  /\ pc = "reload" ~> pc # "reload" \/ crashed
  /\ pc = "lookup" ~> pc # "lookup" \/ crashed
  /\ pc = "join" ~> pc # "join" \/ crashed

\* Every key report read from a device is decided, unless the daemon is told
\* to stop or dies.  (reader_fn, EventQueue, EventMultiplexer::run)
EveryReportDecided ==
  \A d \in Devices : \A i \in 1..MaxReports :
    Len(reported[d]) >= i ~> handled[d] >= i \/ ~running \/ crashed

\* The file is read again after every SIGHUP, also one that arrives while a
\* reload is running.  (g_reload.exchange in EventMultiplexer::run)
HangupServed == unread ~> ~unread \/ ~running \/ crashed

\* SIGTERM ends the process, wherever its threads are.
\* (EventMultiplexer::run, DeviceManager::stop, main)
DaemonStops == ~running ~> ~Alive
=============================================================================
