--------------------------- MODULE PipelineProofs ---------------------------
(***************************************************************************)
(* Proofs about Pipeline, for every set of devices, keys, files and        *)
(* threads: type correctness, that the daemon implements Reload and        *)
(* KeyDispatch, and its safety properties.                                 *)
(***************************************************************************)
EXTENDS Pipeline, ReloadProofs

\* The report an event stands for.
Matches(e, reps) ==
  /\ e.n \in 1..Len(reps[e.dev])
  /\ reps[e.dev][e.n] = [key |-> e.key, press |-> e.press]

\* The reports of a device that are in the queue: from the first one that is
\* neither decided nor in the multiplexer's hands ...
FirstQueued ==
  [d \in Devices |->
     IF pc = "lookup" /\ cur.dev = d THEN handled[d] + 2 ELSE handled[d] + 1]

\* ... to the last one that its reader does not still hold.
LastQueued ==
  [d \in Devices |->
     IF rpc[d] = "push" THEN Len(reported[d]) - 1 ELSE Len(reported[d])]

\* A reader that is about to push holds the last report of its device.
HandInv ==
  \A d \in Devices : rpc[d] = "push" =>
    /\ hand[d] \in Events
    /\ hand[d].dev = d
    /\ hand[d].n = Len(reported[d])
    /\ Matches(hand[d], reported)

\* The queue holds exactly those reports, each device's in their order.
QueueInv ==
  /\ \A i \in 1..Len(queue) :
       /\ Matches(queue[i], reported)
       /\ queue[i].n \in FirstQueued[queue[i].dev]..LastQueued[queue[i].dev]
  /\ \A i, j \in 1..Len(queue) :
       i < j /\ queue[i].dev = queue[j].dev => queue[i].n < queue[j].n
  /\ \A d \in Devices : FirstQueued[d] <= LastQueued[d] + 1
  /\ \A d \in Devices : \A m \in FirstQueued[d]..LastQueued[d] :
       \E i \in 1..Len(queue) : queue[i].dev = d /\ queue[i].n = m

\* An event that waits for its lookup is a press and the next to be decided.
CurInv ==
  pc = "lookup" =>
    /\ cur \in Events
    /\ cur.press
    /\ cur.n = handled[cur.dev] + 1
    /\ Matches(cur, reported)

\* A command is at hand exactly between the lookup and the launch.
CmdInv ==
  /\ pc = "exec" => cmd # EmptyCommand
  /\ pc \notin {"notify", "exec"} => cmd = EmptyCommand

DispatchInv == HandInv /\ QueueInv /\ CurInv /\ CmdInv

\* No reader runs before dm.start(), and devices are closed only when none is
\* left.
ReaderInv ==
  /\ NoReaderOutlivesDevice
  /\ pc = "start" => \A d \in Devices : rpc[d] = "off"
  /\ pc = "close" => \A d \in opened : rpc[d] = "exited"

\* Only a turn of the loop that began before SIGTERM still decides.
LateInv ==
  /\ StopsPromptly
  /\ running => late = 0
  /\ pc \in {"flag", "reload", "pop", "lookup"} => late = 0

PipelineInv == TypeOK /\ DispatchInv /\ ReaderInv /\ LateInv
-----------------------------------------------------------------------------
(* The daemon implements Reload                                            *)

LEMMA InitIsReloadInit == Init => ReloadInit
BY DEF Init

\* Whatever the daemon does is a step of Reload or leaves its state alone.
LEMMA StepIsReloadStep ==
  ASSUME [Next]_vars
  PROVE  [ReloadNext]_reloadVars
<1>1. CASE \E d \in Devices : ReaderStep(d)
  BY <1>1 DEF ReaderStep, ReaderCheck, ReaderGetsKey, ReaderGetsNothing,
              ReaderLosesDevice, ReaderPush
<1>2. CASE MuxStep
  <2>1. CASE MuxTakeReload
    BY <2>1, PipelineAssumption DEF MuxTakeReload, ReloadNext
  <2>2. CASE ~MuxTakeReload
    BY <1>2, <2>2 DEF MuxStep, StartReaders, MuxContinue, MuxLeave, MuxNoReload,
       MuxReloaded, MuxPop, MuxTimeout, MuxLookup, MuxNotify, MuxExec,
       FlagReaders, JoinReaders, CloseAll
  <2> QED BY <2>1, <2>2
<1>3. CASE \E t \in Loaders : Reloads(t) \/ ClientReload(t)
  BY <1>3 DEF Reloads, ClientReload, ReloadNext
<1>4. CASE SigTerm \/ SigHup
  BY <1>4 DEF SigTerm, SigHup
<1>5. CASE ClientRebind \/ Environment
  BY <1>5 DEF ClientRebind, Environment, ReloadNext
<1>6. CASE Halted \/ UNCHANGED vars
  BY <1>6 DEF Halted, vars
<1> QED
  BY <1>1, <1>2, <1>3, <1>4, <1>5, <1>6 DEF Next

\* The daemon as a whole keeps what Reload promises, for every number of
\* client threads.
THEOREM ImplementsReload == Spec => ReloadSpec
BY InitIsReloadInit, StepIsReloadStep, PTL DEF Spec, ReloadSpec

\* So every theorem about Reload is one about the daemon.
LEMMA ReloadInvInDaemon == Spec => []ReloadInv
BY ImplementsReload, ReloadInvariance, PTL

-----------------------------------------------------------------------------
(* Type correctness                                                        *)

LEMMA ResolveType ==
  ASSUME NEW tbl \in Tables, NEW d \in Devices, NEW k \in Keys
  PROVE  Resolve(tbl, d, k) \in Decisions
<1>1. tbl[d][k] \in Cells /\ tbl[Wildcard][k] \in Cells
  BY DEF Tables, Ids
<1> QED
  BY <1>1 DEF Resolve, Lookup, Cells, Decisions

LEMMA TypeOKInit == Init => TypeOK
<1> SUFFICES ASSUME Init PROVE TypeOK
  OBVIOUS
<1>1. ReloadTypeOK
  BY ReloadInvInit DEF Init, ReloadInv
<1>2. /\ <<>> \in Seq(Reports) /\ <<>> \in Seq(Events)
      /\ EmptyCommand \in Decisions
  BY DEF Decisions
<1>3. /\ active \in [Devices -> BOOLEAN]
      /\ rpc \in [Devices -> {"off", "check", "read", "push", "exited"}]
      /\ hand \in [Devices -> Events \cup {NoEvent}]
      /\ reported \in [Devices -> Seq(Reports)]
      /\ handled \in [Devices -> Nat]
  BY <1>2 DEF Init
<1> QED
  BY <1>1, <1>2, <1>3 DEF Init, TypeOK

\* The part of the state that an action of one actor leaves alone keeps its
\* type.
LEMMA ReaderTypes ==
  ASSUME TypeOK, ReloadTypeOK', HandInv, NEW d \in Devices, ReaderStep(d)
  PROVE  TypeOK'
<1>1. CASE ReaderCheck(d) \/ ReaderGetsNothing(d) \/ ReaderLosesDevice(d)
  BY <1>1 DEF TypeOK, ReaderCheck, ReaderGetsNothing, ReaderLosesDevice,
              signalVars, muxVars
<1>2. CASE ReaderGetsKey(d)
  <2>1. PICK r \in Reports :
          /\ reported' = [reported EXCEPT ![d] = Append(@, r)]
          /\ hand' = [hand EXCEPT ![d] =
               [dev |-> d, n |-> Len(reported[d]) + 1, key |-> r.key, press |-> r.press]]
    BY <1>2 DEF ReaderGetsKey
  <2>2. reported[d] \in Seq(Reports)
    BY DEF TypeOK
  <2>3. reported' \in [Devices -> Seq(Reports)]
    BY <2>1, <2>2 DEF TypeOK
  <2>4. r.key \in Keys /\ r.press \in BOOLEAN
    BY DEF Reports
  <2>5. [dev |-> d, n |-> Len(reported[d]) + 1, key |-> r.key, press |-> r.press] \in Events
    BY <2>2, <2>4 DEF Events
  <2>6. hand' \in [Devices -> Events \cup {NoEvent}]
    BY <2>1, <2>5 DEF TypeOK
  <2> QED BY <1>2, <2>3, <2>6 DEF TypeOK, ReaderGetsKey, signalVars, muxVars
<1>3. CASE ReaderPush(d)
  <2>1. queue' \in Seq(Events)
    BY <1>3 DEF TypeOK, ReaderPush, HandInv
  <2>2. hand' \in [Devices -> Events \cup {NoEvent}]
    BY <1>3 DEF TypeOK, ReaderPush
  <2> QED BY <1>3, <2>1, <2>2 DEF TypeOK, ReaderPush, signalVars, muxVars
<1> QED
  BY <1>1, <1>2, <1>3 DEF ReaderStep

LEMMA MuxTypes ==
  ASSUME TypeOK, ReloadTypeOK', CurInv, MuxStep
  PROVE  TypeOK'
<1>1. CASE StartReaders
  BY <1>1 DEF TypeOK, StartReaders, signalVars
<1>2. CASE \/ MuxContinue \/ MuxLeave \/ MuxTakeReload \/ MuxNoReload
           \/ MuxReloaded \/ MuxTimeout \/ JoinReaders
  BY <1>2 DEF TypeOK, MuxContinue, MuxLeave, MuxTakeReload, MuxNoReload,
     MuxReloaded, MuxTimeout, JoinReaders, signalVars, readerVars
<1>3. CASE MuxPop
  <2>1. Head(queue) \in Events /\ Tail(queue) \in Seq(Events)
    BY <1>3 DEF TypeOK, MuxPop
  <2>2. Head(queue).n \in Nat /\ Head(queue).dev \in Devices
    BY <2>1 DEF Events
  <2>3. handled' \in [Devices -> Nat] /\ late' \in Nat
    BY <1>3, <2>2 DEF TypeOK, MuxPop, Decided
  <2> QED BY <1>3, <2>1, <2>3 DEF TypeOK, MuxPop, signalVars
<1>4. CASE MuxLookup
  <2>1. cur \in Events
    BY <1>4 DEF CurInv, MuxLookup
  <2>2. cur.n \in Nat /\ cur.dev \in Devices /\ cur.key \in Keys
    BY <2>1 DEF Events
  <2>3. handled' \in [Devices -> Nat] /\ late' \in Nat
    BY <1>4, <2>2 DEF TypeOK, MuxLookup, Decided
  <2>4. cmd' \in Decisions
    BY <1>4, <2>2, ResolveType DEF TypeOK, ReloadTypeOK, MuxLookup
  <2> QED BY <1>4, <2>3, <2>4 DEF TypeOK, MuxLookup, signalVars, readerVars
<1>5. CASE MuxNotify
  BY <1>5 DEF TypeOK, MuxNotify, signalVars, readerVars
<1>6. CASE MuxExec
  BY <1>6 DEF TypeOK, MuxExec, Decisions, signalVars, readerVars
<1>7. CASE FlagReaders \/ CloseAll
  BY <1>7 DEF TypeOK, FlagReaders, CloseAll, signalVars
<1> QED
  BY <1>1, <1>2, <1>3, <1>4, <1>5, <1>6, <1>7 DEF MuxStep

LEMMA OtherTypes ==
  ASSUME TypeOK, ReloadTypeOK',
         \/ \E t \in Loaders : Reloads(t) \/ ClientReload(t)
         \/ SigTerm \/ SigHup \/ ClientRebind \/ Environment \/ Halted
         \/ UNCHANGED vars
  PROVE  TypeOK'
<1>1. /\ running' \in BOOLEAN /\ reloadFlag' \in BOOLEAN /\ unread' \in BOOLEAN
      /\ UNCHANGED <<readerVars, muxVars>>
  <2>1. CASE \E t \in Loaders : Reloads(t)
    BY <2>1 DEF TypeOK, Reloads
  <2>2. CASE \/ \E t \in Loaders : ClientReload(t)
             \/ ClientRebind \/ Environment
    BY <2>2 DEF TypeOK, ClientReload, ClientRebind, Environment, signalVars
  <2>3. CASE SigTerm \/ SigHup
    BY <2>3 DEF TypeOK, SigTerm, SigHup
  <2>4. CASE Halted \/ UNCHANGED vars
    BY <2>4 DEF TypeOK, Halted, vars, signalVars, readerVars, muxVars
  <2> QED BY <2>1, <2>2, <2>3, <2>4
<1> QED
  BY <1>1 DEF TypeOK, readerVars, muxVars

LEMMA TypeOKNext ==
  ASSUME TypeOK, ReloadTypeOK', HandInv, CurInv, [Next]_vars
  PROVE  TypeOK'
BY ReaderTypes, MuxTypes, OtherTypes DEF Next

-----------------------------------------------------------------------------
(* The order of the reports                                                *)

LEMMA DispatchInit == Init => DispatchInv
BY DEF Init, DispatchInv, HandInv, QueueInv, CurInv, CmdInv, FirstQueued, LastQueued

LEMMA QueueTypes ==
  ASSUME TypeOK
  PROVE  /\ queue \in Seq(Events)
         /\ \A i \in 1..Len(queue) :
              queue[i] \in Events /\ queue[i].dev \in Devices /\ queue[i].n \in Nat
<1>1. queue \in Seq(Events)
  BY DEF TypeOK
<1>2. \A i \in 1..Len(queue) : queue[i] \in Events
  BY <1>1
<1>3. \A e \in Events : e.dev \in Devices /\ e.n \in Nat
  BY DEF Events
<1> QED
  BY <1>1, <1>2, <1>3

\* The queue's part of the invariant depends on the queue, the reports and
\* the two ends only.
LEMMA SameQueue ==
  ASSUME TypeOK, QueueInv,
         queue' = queue, reported' = reported,
         \A d \in Devices : FirstQueued'[d] = FirstQueued[d] /\ LastQueued'[d] = LastQueued[d]
  PROVE  QueueInv'
<1>1. ASSUME NEW i \in 1..Len(queue')
      PROVE  /\ Matches(queue'[i], reported')
             /\ queue'[i].n \in FirstQueued'[queue'[i].dev]..LastQueued'[queue'[i].dev]
  <2>1. PICK e \in Events : e = queue[i] /\ e.dev \in Devices
    BY <1>1, QueueTypes
  <2>2. Matches(e, reported) /\ e.n \in FirstQueued[e.dev]..LastQueued[e.dev]
    BY <1>1, <2>1 DEF QueueInv
  <2>3. Matches(e, reported')
    BY <2>2 DEF Matches
  <2> QED BY <2>1, <2>2, <2>3
<1>2. \A i, j \in 1..Len(queue') :
        i < j /\ queue'[i].dev = queue'[j].dev => queue'[i].n < queue'[j].n
  BY DEF QueueInv
<1>3. \A d \in Devices : FirstQueued'[d] <= LastQueued'[d] + 1
  BY DEF QueueInv
<1>4. ASSUME NEW d \in Devices, NEW m \in FirstQueued'[d]..LastQueued'[d]
      PROVE  \E i \in 1..Len(queue') : queue'[i].dev = d /\ queue'[i].n = m
  <2>1. m \in FirstQueued[d]..LastQueued[d]
    BY <1>4
  <2> QED BY <2>1 DEF QueueInv
<1> QED
  BY <1>1, <1>2, <1>3, <1>4 DEF QueueInv

\* Most steps move no report.
LEMMA QuietKeeps ==
  ASSUME TypeOK, DispatchInv,
         UNCHANGED <<hand, queue, cur, cmd, reported, handled>>,
         \A d \in Devices : rpc'[d] = "push" <=> rpc[d] = "push",
         pc' = "lookup" <=> pc = "lookup",
         pc' = "exec" <=> pc = "exec",
         pc' \in {"notify", "exec"} <=> pc \in {"notify", "exec"}
  PROVE  DispatchInv'
<1> USE DEF DispatchInv
<1>1. HandInv'
  BY DEF HandInv, Matches
<1>2. \A d \in Devices : FirstQueued'[d] = FirstQueued[d] /\ LastQueued'[d] = LastQueued[d]
  BY DEF FirstQueued, LastQueued
<1>3. QueueInv'
  BY <1>2, SameQueue
<1>4. CurInv'
  BY DEF CurInv, Matches
<1>5. CmdInv'
  BY DEF CmdInv
<1> QED
  BY <1>1, <1>3, <1>4, <1>5

\* A report is read: its device has one more, and its reader holds it.
LEMMA GetsKeyKeeps ==
  ASSUME TypeOK, DispatchInv, NEW d \in Devices, ReaderGetsKey(d)
  PROVE  DispatchInv'
<1> USE DEF DispatchInv
<1>1. PICK r \in Reports :
        /\ reported' = [reported EXCEPT ![d] = Append(@, r)]
        /\ hand' = [hand EXCEPT ![d] =
             [dev |-> d, n |-> Len(reported[d]) + 1, key |-> r.key, press |-> r.press]]
  BY DEF ReaderGetsKey
<1>2. /\ reported[d] \in Seq(Reports)
      /\ reported'[d] = Append(reported[d], r)
      /\ \A e \in Devices : e # d => reported'[e] = reported[e]
  BY <1>1 DEF TypeOK
<1>3. /\ Len(reported'[d]) = Len(reported[d]) + 1
      /\ reported'[d][Len(reported[d]) + 1] = r
      /\ \A i \in 1..Len(reported[d]) : reported'[d][i] = reported[d][i]
  BY <1>2
<1>4. /\ rpc' = [rpc EXCEPT ![d] = "push"]
      /\ rpc[d] = "read"
      /\ UNCHANGED <<queue, pc, cur, cmd, handled>>
  BY DEF ReaderGetsKey, muxVars
<1>5. \A e \in Events : Matches(e, reported) => Matches(e, reported')
  <2> SUFFICES ASSUME NEW e \in Events, Matches(e, reported)
               PROVE  Matches(e, reported')
    OBVIOUS
  <2>1. e.dev \in Devices
    BY DEF Events
  <2>2. CASE e.dev = d
    BY <1>2, <1>3, <2>2 DEF Matches
  <2>3. CASE e.dev # d
    BY <1>2, <2>1, <2>3 DEF Matches
  <2> QED BY <2>2, <2>3
<1>6. HandInv'
  <2>1. ASSUME NEW e \in Devices, e # d, rpc'[e] = "push"
        PROVE  /\ hand'[e] \in Events
               /\ hand'[e].dev = e
               /\ hand'[e].n = Len(reported'[e])
               /\ Matches(hand'[e], reported')
    <3>1. rpc[e] = "push" /\ hand'[e] = hand[e]
      BY <1>1, <1>4, <2>1 DEF TypeOK
    <3> QED BY <1>2, <1>5, <2>1, <3>1 DEF HandInv
  <2>2. /\ r.key \in Keys /\ r.press \in BOOLEAN
        /\ r = [key |-> r.key, press |-> r.press]
    BY DEF Reports
  <2>3. hand'[d] = [dev |-> d, n |-> Len(reported[d]) + 1, key |-> r.key, press |-> r.press]
    BY <1>1 DEF TypeOK
  <2>4. hand'[d] \in Events
    BY <1>2, <2>2, <2>3 DEF Events
  <2>5. Matches(hand'[d], reported')
    BY <1>2, <1>3, <2>2, <2>3 DEF Matches
  <2> QED BY <1>3, <2>1, <2>3, <2>4, <2>5 DEF HandInv
<1>7. QueueInv'
  <2>1. \A e \in Devices : FirstQueued'[e] = FirstQueued[e]
    BY <1>4 DEF FirstQueued
  <2>2. \A e \in Devices : LastQueued'[e] = LastQueued[e]
    <3>1. \A e \in Devices : e # d => rpc'[e] = rpc[e]
      BY <1>4 DEF TypeOK
    <3>2. rpc'[d] = "push" /\ rpc[d] # "push"
      BY <1>4 DEF TypeOK
    <3>3. LastQueued'[d] = Len(reported'[d]) - 1 /\ LastQueued[d] = Len(reported[d])
      BY <3>2 DEF LastQueued
    <3>4. Len(reported[d]) \in Nat
      BY <1>2
    <3> QED BY <1>2, <1>3, <3>1, <3>3, <3>4 DEF LastQueued
  <2> QED BY <1>4, <1>5, <2>1, <2>2, QueueTypes DEF QueueInv
<1>8. CurInv' /\ CmdInv'
  BY <1>4, <1>5 DEF CurInv, CmdInv
<1> QED
  BY <1>6, <1>7, <1>8

\* A report is pushed: it becomes the last one of its device in the queue.
LEMMA PushKeeps ==
  ASSUME TypeOK, DispatchInv, NEW d \in Devices, ReaderPush(d)
  PROVE  DispatchInv'
<1> USE DEF DispatchInv
<1>0. PICK e \in Events : e = hand[d]
  BY DEF HandInv, ReaderPush
<1>1. /\ e \in Events /\ e.dev = d /\ e.n = Len(reported[d]) /\ Matches(e, reported)
  BY <1>0 DEF HandInv, ReaderPush
<1>2. /\ queue' = Append(queue, e)
      /\ rpc[d] = "push" /\ rpc' = [rpc EXCEPT ![d] = "check"]
      /\ hand' = [hand EXCEPT ![d] = NoEvent]
      /\ UNCHANGED <<reported, pc, cur, cmd, handled>>
  BY <1>0 DEF ReaderPush, muxVars
<1>3. /\ queue \in Seq(Events)
      /\ Len(queue') = Len(queue) + 1
      /\ queue'[Len(queue) + 1] = e
      /\ \A i \in 1..Len(queue) : queue'[i] = queue[i]
  BY <1>1, <1>2 DEF TypeOK
<1>4. /\ LastQueued'[d] = e.n
      /\ LastQueued[d] = e.n - 1
      /\ \A f \in Devices : f # d => LastQueued'[f] = LastQueued[f]
      /\ \A f \in Devices : FirstQueued'[f] = FirstQueued[f]
  BY <1>1, <1>2 DEF LastQueued, FirstQueued, TypeOK
<1>5. HandInv'
  BY <1>2 DEF HandInv, Matches, TypeOK
<1>6. \A i \in 1..Len(queue) : queue[i].dev \in Devices /\ queue[i].n \in Nat
  BY QueueTypes
<1>7. /\ \A f \in Devices : FirstQueued[f] \in Nat /\ LastQueued[f] \in Int
      /\ FirstQueued[d] <= e.n
  <2>1. \A f \in Devices : FirstQueued[f] \in Nat
    BY DEF TypeOK, FirstQueued
  <2>2. \A f \in Devices : LastQueued[f] \in Int
    BY DEF TypeOK, LastQueued
  <2>3. e.n \in Nat
    BY <1>1 DEF Events
  <2> QED BY <1>4, <2>1, <2>2, <2>3 DEF QueueInv
<1>8. QueueInv'
  <2>1. \A i \in 1..Len(queue') :
          /\ Matches(queue'[i], reported')
          /\ queue'[i].n \in FirstQueued'[queue'[i].dev]..LastQueued'[queue'[i].dev]
    <3>1. ASSUME NEW i \in 1..Len(queue)
          PROVE  /\ Matches(queue'[i], reported')
                 /\ queue'[i].n \in FirstQueued'[queue'[i].dev]..LastQueued'[queue'[i].dev]
      <4>1. queue'[i] = queue[i] /\ Matches(queue[i], reported)
            /\ queue[i].n \in FirstQueued[queue[i].dev]..LastQueued[queue[i].dev]
        BY <1>3, <3>1 DEF QueueInv
      <4>2. Matches(queue[i], reported')
        BY <1>2, <4>1 DEF Matches
      <4>3. LastQueued[queue[i].dev] <= LastQueued'[queue[i].dev]
            /\ LastQueued'[queue[i].dev] \in Int
        BY <1>1, <1>4, <1>6, <1>7, SMTT(30) DEF Events
      <4> QED BY <1>3, <1>4, <1>6, <1>7, <4>1, <4>2, <4>3
    <3>2. Matches(e, reported') /\ e.n \in FirstQueued'[d]..LastQueued'[d]
      BY <1>1, <1>2, <1>4, <1>7 DEF Matches, Events
    <3> QED BY <1>1, <1>3, <3>1, <3>2
  <2>2. \A i, j \in 1..Len(queue') :
          i < j /\ queue'[i].dev = queue'[j].dev => queue'[i].n < queue'[j].n
    <3>1. ASSUME NEW i \in 1..Len(queue), queue[i].dev = d
          PROVE  queue[i].n < e.n
      BY <1>1, <1>4, <1>6, <1>7, <3>1, SMTT(30) DEF QueueInv, Events
    <3>2. ASSUME NEW i \in 1..Len(queue'), NEW j \in 1..Len(queue'), i < j,
                 queue'[i].dev = queue'[j].dev
          PROVE  queue'[i].n < queue'[j].n
      <4>1. i \in 1..Len(queue) /\ queue'[i] = queue[i]
        BY <1>3, <3>2
      <4>2. CASE j \in 1..Len(queue)
        BY <1>3, <3>2, <4>1, <4>2 DEF QueueInv
      <4>3. CASE j = Len(queue) + 1
        BY <1>1, <1>3, <3>1, <3>2, <4>1, <4>3
      <4> QED BY <1>3, <4>2, <4>3
    <3> QED BY <3>2
  <2>3. \A f \in Devices : FirstQueued'[f] <= LastQueued'[f] + 1
    BY <1>1, <1>4, <1>7 DEF QueueInv, Events
  <2>4. ASSUME NEW f \in Devices, NEW m \in FirstQueued'[f]..LastQueued'[f]
        PROVE  \E i \in 1..Len(queue') : queue'[i].dev = f /\ queue'[i].n = m
    <3>1. CASE f = d /\ m = e.n
      BY <1>1, <1>3, <3>1
    <3>2. CASE ~ (f = d /\ m = e.n)
      <4>1. m \in FirstQueued[f]..LastQueued[f]
        BY <1>1, <1>4, <1>7, <2>4, <3>2 DEF Events
      <4>2. PICK i \in 1..Len(queue) : queue[i].dev = f /\ queue[i].n = m
        BY <4>1 DEF QueueInv
      <4> QED BY <1>3, <4>2
    <3> QED BY <3>1, <3>2
  <2> QED BY <2>1, <2>2, <2>3, <2>4 DEF QueueInv
<1>9. CurInv' /\ CmdInv'
  BY <1>2 DEF CurInv, CmdInv, Matches
<1> QED
  BY <1>5, <1>8, <1>9

\* The front of the queue is the next report of its device to be decided.
LEMMA HeadIsNext ==
  ASSUME TypeOK, DispatchInv, MuxPop
  PROVE  /\ queue[1] \in Events
         /\ Matches(queue[1], reported)
         /\ queue[1].n = handled[queue[1].dev] + 1
<1> USE DEF DispatchInv
<1>0. queue \in Seq(Events) /\ 1 \in 1..Len(queue)
  BY QueueTypes DEF MuxPop
<1>1. PICK e \in Events : e = queue[1]
  BY <1>0, QueueTypes
<1>2. e.dev \in Devices /\ e.n \in Nat
  BY DEF Events
<1>3. \A d \in Devices :
        handled[d] \in Nat /\ FirstQueued[d] = handled[d] + 1 /\ FirstQueued[d] \in Nat
  BY DEF FirstQueued, TypeOK, MuxPop
<1>4. \A d \in Devices : LastQueued[d] \in Int
  BY DEF LastQueued, TypeOK
<1>5. Matches(e, reported) /\ e.n \in FirstQueued[e.dev]..LastQueued[e.dev]
  BY <1>0, <1>1 DEF QueueInv
<1>6. FirstQueued[e.dev] \in FirstQueued[e.dev]..LastQueued[e.dev]
  BY <1>2, <1>3, <1>4, <1>5
<1>7. PICK i \in 1..Len(queue) : queue[i].dev = e.dev /\ queue[i].n = FirstQueued[e.dev]
  BY <1>2, <1>6 DEF QueueInv
<1>8. i # 1 => e.n < FirstQueued[e.dev]
  BY <1>0, <1>1, <1>7 DEF QueueInv
<1> QED
  BY <1>1, <1>2, <1>3, <1>5, <1>7, <1>8

\* Popping it moves every later report of its device one place up.
LEMMA PopKeeps ==
  ASSUME TypeOK, DispatchInv, MuxPop
  PROVE  DispatchInv'
<1> USE DEF DispatchInv
<1>0. queue \in Seq(Events) /\ queue # <<>> /\ 1 \in 1..Len(queue)
  BY QueueTypes DEF MuxPop
<1>1. PICK e \in Events : e = queue[1]
  BY <1>0, QueueTypes
<1>2. e.dev \in Devices /\ e.n \in Nat /\ e.press \in BOOLEAN
  BY DEF Events
<1>3. /\ pc = "pop" /\ pc' = IF e.press THEN "lookup" ELSE "notify"
      /\ cur' = e
      /\ handled' = IF e.press THEN handled ELSE [handled EXCEPT ![e.dev] = e.n]
      /\ UNCHANGED <<rpc, hand, reported, cmd>>
  BY <1>0, <1>1 DEF MuxPop, Decided
<1>4. /\ Len(queue') = Len(queue) - 1
      /\ \A i \in 1..Len(queue') : i + 1 \in 1..Len(queue) /\ queue'[i] = queue[i + 1]
      /\ \A i \in 1..Len(queue) : i # 1 => i - 1 \in 1..Len(queue') /\ queue'[i - 1] = queue[i]
  BY <1>0 DEF MuxPop
<1>5. \A d \in Devices :
        handled[d] \in Nat /\ FirstQueued[d] = handled[d] + 1 /\ FirstQueued[d] \in Nat
  BY <1>3 DEF FirstQueued, TypeOK
<1>6. \A d \in Devices : LastQueued'[d] = LastQueued[d] /\ LastQueued[d] \in Int
  BY <1>3 DEF LastQueued, TypeOK
<1>7. Matches(e, reported) /\ e.n \in FirstQueued[e.dev]..LastQueued[e.dev]
  BY <1>0, <1>1 DEF QueueInv
<1>8. e.n = FirstQueued[e.dev]
  BY <1>1, <1>2, <1>5, HeadIsNext
<1>9. /\ FirstQueued'[e.dev] = e.n + 1
      /\ \A d \in Devices : d # e.dev => FirstQueued'[d] = FirstQueued[d]
  <2>1. CASE e.press
    BY <1>2, <1>3, <1>5, <1>8, <2>1 DEF FirstQueued
  <2>2. CASE ~e.press
    BY <1>2, <1>3, <1>5, <1>8, <2>2 DEF FirstQueued, TypeOK
  <2> QED BY <2>1, <2>2
<1>10. HandInv'
  BY <1>3 DEF HandInv
<1>11. QueueInv'
  <2>1. ASSUME NEW i \in 1..Len(queue')
        PROVE  /\ Matches(queue'[i], reported')
               /\ queue'[i].n \in FirstQueued'[queue'[i].dev]..LastQueued'[queue'[i].dev]
    <3>1. PICK q \in Events : q = queue'[i] /\ q = queue[i + 1]
      BY <1>4, <2>1, QueueTypes
    <3>2. q.dev \in Devices /\ q.n \in Nat
      BY DEF Events
    <3>3. Matches(q, reported) /\ q.n \in FirstQueued[q.dev]..LastQueued[q.dev]
      BY <1>4, <2>1, <3>1 DEF QueueInv
    <3>4. q.dev = e.dev => e.n < q.n
      BY <1>0, <1>1, <1>4, <2>1, <3>1 DEF QueueInv
    <3> QED BY <1>2, <1>3, <1>5, <1>6, <1>9, <3>1, <3>2, <3>3, <3>4, SMTT(30)
  <2>2. \A i, j \in 1..Len(queue') :
          i < j /\ queue'[i].dev = queue'[j].dev => queue'[i].n < queue'[j].n
    BY <1>4 DEF QueueInv
  <2>3. \A d \in Devices : FirstQueued'[d] <= LastQueued'[d] + 1
    BY <1>2, <1>5, <1>6, <1>7, <1>9 DEF QueueInv
  <2>4. ASSUME NEW d \in Devices, NEW m \in FirstQueued'[d]..LastQueued'[d]
        PROVE  \E i \in 1..Len(queue') : queue'[i].dev = d /\ queue'[i].n = m
    <3>1. m \in FirstQueued[d]..LastQueued[d] /\ (d = e.dev => m # e.n)
      BY <1>2, <1>5, <1>6, <1>8, <1>9, <2>4
    <3>2. PICK i \in 1..Len(queue) : queue[i].dev = d /\ queue[i].n = m
      BY <3>1 DEF QueueInv
    <3> QED BY <1>1, <1>4, <3>1, <3>2
  <2> QED BY <2>1, <2>2, <2>3, <2>4 DEF QueueInv
<1>12. CurInv'
  BY <1>2, <1>3, <1>5, <1>7, <1>8 DEF CurInv
<1>13. CmdInv'
  BY <1>3 DEF CmdInv
<1> QED
  BY <1>10, <1>11, <1>12, <1>13

\* The event in the multiplexer's hands is decided.
LEMMA LookupKeeps ==
  ASSUME TypeOK, DispatchInv, MuxLookup
  PROVE  DispatchInv'
<1> USE DEF DispatchInv
<1>1. PICK e \in Events : e = cur
  BY DEF CurInv, MuxLookup
<1>2. e.dev \in Devices /\ e.n \in Nat
  BY DEF Events
<1>3. /\ pc = "lookup" /\ pc' = "notify"
      /\ handled' = [handled EXCEPT ![e.dev] = e.n]
      /\ e.n = handled[e.dev] + 1
      /\ UNCHANGED <<rpc, hand, queue, reported, cur>>
  BY <1>1 DEF MuxLookup, Decided, CurInv, readerVars
<1>4. \A d \in Devices : FirstQueued'[d] = FirstQueued[d] /\ LastQueued'[d] = LastQueued[d]
  BY <1>1, <1>2, <1>3 DEF FirstQueued, LastQueued, TypeOK
<1>5. HandInv'
  BY <1>3 DEF HandInv
<1>6. QueueInv'
  BY <1>3, <1>4, SameQueue
<1>7. CurInv' /\ CmdInv'
  BY <1>3 DEF CurInv, CmdInv
<1> QED
  BY <1>5, <1>6, <1>7

\* Notifying and launching move no report.
LEMMA ServeKeeps ==
  ASSUME TypeOK, DispatchInv, MuxNotify \/ MuxExec
  PROVE  DispatchInv'
<1> USE DEF DispatchInv
<1>1. /\ pc \in {"notify", "exec"} /\ pc' \in {"loop", "exec"}
      /\ UNCHANGED <<rpc, hand, queue, reported, handled>>
  BY DEF MuxNotify, MuxExec, readerVars
<1>2. \A d \in Devices : FirstQueued'[d] = FirstQueued[d] /\ LastQueued'[d] = LastQueued[d]
  BY <1>1 DEF FirstQueued, LastQueued
<1>3. HandInv'
  BY <1>1 DEF HandInv
<1>4. QueueInv'
  BY <1>1, <1>2, SameQueue
<1>5. CurInv' /\ CmdInv'
  BY <1>1 DEF CurInv, CmdInv, MuxNotify, MuxExec
<1> QED
  BY <1>3, <1>4, <1>5

LEMMA DispatchNext ==
  ASSUME TypeOK, DispatchInv, ReaderInv, [Next]_vars
  PROVE  DispatchInv'
<1>1. ASSUME NEW d \in Devices,
             ReaderCheck(d) \/ ReaderGetsNothing(d) \/ ReaderLosesDevice(d)
      PROVE  DispatchInv'
  <2>1. /\ UNCHANGED <<hand, queue, cur, cmd, reported, handled, pc>>
        /\ \A e \in Devices : rpc'[e] = "push" <=> rpc[e] = "push"
    BY <1>1 DEF ReaderCheck, ReaderGetsNothing, ReaderLosesDevice, muxVars, TypeOK
  <2> QED BY <2>1, QuietKeeps
<1>2. CASE \E d \in Devices : ReaderStep(d)
  BY <1>1, <1>2, GetsKeyKeeps, PushKeeps DEF ReaderStep
<1>3. CASE \/ StartReaders \/ MuxContinue \/ MuxLeave \/ MuxTakeReload \/ MuxNoReload
           \/ MuxReloaded \/ MuxTimeout \/ FlagReaders \/ JoinReaders \/ CloseAll
  <2>1. /\ UNCHANGED <<hand, queue, cur, cmd, reported, handled>>
        /\ pc \notin {"lookup", "notify", "exec"}
        /\ pc' \notin {"lookup", "notify", "exec"}
    BY <1>3 DEF StartReaders, MuxContinue, MuxLeave, MuxTakeReload, MuxNoReload,
       MuxReloaded, MuxTimeout, FlagReaders, JoinReaders, CloseAll, readerVars
  <2>2. \A e \in Devices : rpc'[e] = "push" <=> rpc[e] = "push"
    <3>1. CASE StartReaders
      BY <3>1 DEF StartReaders, ReaderInv
    <3>2. CASE ~StartReaders
      BY <1>3, <3>2 DEF MuxContinue, MuxLeave, MuxTakeReload, MuxNoReload,
         MuxReloaded, MuxTimeout, FlagReaders, JoinReaders, CloseAll, readerVars
    <3> QED BY <3>1, <3>2
  <2> QED BY <2>1, <2>2, QuietKeeps
<1>4. CASE MuxStep
  BY <1>3, <1>4, PopKeeps, LookupKeeps, ServeKeeps DEF MuxStep
<1>5. CASE \/ \E t \in Loaders : Reloads(t) \/ ClientReload(t)
           \/ SigTerm \/ SigHup \/ ClientRebind \/ Environment \/ Halted
           \/ UNCHANGED vars
  <2>1. UNCHANGED <<hand, queue, cur, cmd, reported, handled, pc, rpc>>
    BY <1>5 DEF Reloads, ClientReload, SigTerm, SigHup, ClientRebind, Environment,
       Halted, vars, readerVars, muxVars
  <2> QED BY <2>1, QuietKeeps
<1> QED
  BY <1>2, <1>4, <1>5 DEF Next

-----------------------------------------------------------------------------
(* Readers and devices, and the end of the loop                            *)

LEMMA ReaderInit == Init => ReaderInv
BY DEF Init, ReaderInv, NoReaderOutlivesDevice

LEMMA ReaderNext ==
  ASSUME TypeOK, ReaderInv, [Next]_vars
  PROVE  ReaderInv'
<1> USE DEF ReaderInv, NoReaderOutlivesDevice
<1>1. ASSUME NEW d \in Devices, ReaderStep(d)
      PROVE  ReaderInv'
  <2>1. /\ rpc[d] \in {"check", "read", "push"}
        /\ \A e \in Devices : e # d => rpc'[e] = rpc[e]
        /\ UNCHANGED <<opened, pc>>
    BY <1>1 DEF ReaderStep, ReaderCheck, ReaderGetsKey, ReaderGetsNothing,
       ReaderLosesDevice, ReaderPush, muxVars, TypeOK
  <2>2. d \in opened /\ pc \notin {"start", "close"}
    BY <2>1
  <2> QED BY <2>1, <2>2
<1>2. CASE StartReaders
  BY <1>2 DEF StartReaders
<1>3. CASE JoinReaders
  BY <1>3 DEF JoinReaders, readerVars
<1>4. CASE CloseAll
  BY <1>4 DEF CloseAll, TypeOK
<1>5. CASE \/ MuxContinue \/ MuxLeave \/ MuxTakeReload \/ MuxNoReload \/ MuxReloaded
           \/ MuxPop \/ MuxTimeout \/ MuxLookup \/ MuxNotify \/ MuxExec \/ FlagReaders
  <2>1. UNCHANGED <<rpc, opened>> /\ pc' \notin {"start", "close"}
    BY <1>5 DEF MuxContinue, MuxLeave, MuxTakeReload, MuxNoReload, MuxReloaded,
       MuxPop, MuxTimeout, MuxLookup, MuxNotify, MuxExec, FlagReaders, readerVars
  <2> QED BY <2>1
<1>6. CASE \/ \E t \in Loaders : Reloads(t) \/ ClientReload(t)
           \/ SigTerm \/ SigHup \/ ClientRebind \/ Environment \/ Halted
           \/ UNCHANGED vars
  <2>1. UNCHANGED <<rpc, opened, pc>>
    BY <1>6 DEF Reloads, ClientReload, SigTerm, SigHup, ClientRebind, Environment,
       Halted, vars, readerVars, muxVars
  <2> QED BY <2>1
<1> QED
  BY <1>1, <1>2, <1>3, <1>4, <1>5, <1>6 DEF Next, MuxStep

LEMMA LateInit == Init => LateInv
BY DEF Init, LateInv, StopsPromptly

LEMMA LateNext ==
  ASSUME TypeOK, LateInv, [Next]_vars
  PROVE  LateInv'
<1> USE DEF LateInv, StopsPromptly
<1>1. CASE \E d \in Devices : ReaderStep(d)
  BY <1>1 DEF ReaderStep, ReaderCheck, ReaderGetsKey, ReaderGetsNothing,
     ReaderLosesDevice, ReaderPush, muxVars, signalVars
<1>2. CASE MuxPop \/ MuxLookup
  BY <1>2 DEF MuxPop, MuxLookup, Decided, signalVars
<1>3. CASE \/ StartReaders \/ MuxContinue \/ MuxLeave \/ MuxTakeReload \/ MuxNoReload
           \/ MuxReloaded \/ MuxTimeout \/ MuxNotify \/ MuxExec \/ FlagReaders
           \/ JoinReaders \/ CloseAll
  BY <1>3 DEF StartReaders, MuxContinue, MuxLeave, MuxTakeReload, MuxNoReload,
     MuxReloaded, MuxTimeout, MuxNotify, MuxExec, FlagReaders, JoinReaders,
     CloseAll, signalVars
<1>4. CASE \/ \E t \in Loaders : Reloads(t) \/ ClientReload(t)
           \/ SigTerm \/ SigHup \/ ClientRebind \/ Environment \/ Halted
           \/ UNCHANGED vars
  BY <1>4 DEF Reloads, ClientReload, SigTerm, SigHup, ClientRebind, Environment,
     Halted, vars, muxVars, signalVars
<1> QED
  BY <1>1, <1>2, <1>3, <1>4 DEF Next, MuxStep

-----------------------------------------------------------------------------
(* The theorems                                                            *)

\* The invariant the theorems below rest on.
THEOREM PipelineInvariance == Spec => []PipelineInv
<1>1. Init => PipelineInv
  BY TypeOKInit, DispatchInit, ReaderInit, LateInit DEF PipelineInv
<1>2. PipelineInv /\ ReloadInv' /\ [Next]_vars => PipelineInv'
  <2>1. ReloadInv' => ReloadTypeOK'
    BY DEF ReloadInv
  <2> QED BY <2>1, TypeOKNext, DispatchNext, ReaderNext, LateNext
             DEF PipelineInv, DispatchInv
<1> QED
  BY <1>1, <1>2, ReloadInvInDaemon, PTL DEF Spec

\* Type correctness of the daemon's model.
THEOREM PipelineTypeCorrect == Spec => []TypeOK
<1>1. PipelineInv => TypeOK
  BY DEF PipelineInv
<1> QED
  BY <1>1, PipelineInvariance, PTL

\* At most one event is decided after SIGTERM
\* (the loop of EventMultiplexer::run).
THEOREM StopsPromptlyAlways == Spec => []StopsPromptly
<1>1. PipelineInv => StopsPromptly
  BY DEF PipelineInv, LateInv
<1> QED
  BY <1>1, PipelineInvariance, PTL

\* No reader thread touches a closed device (DeviceManager::stop).
THEOREM ReadersStopFirst == Spec => []NoReaderOutlivesDevice
<1>1. PipelineInv => NoReaderOutlivesDevice
  BY DEF PipelineInv, ReaderInv
<1> QED
  BY <1>1, PipelineInvariance, PTL

\* Every press is decided by the bindings in force (Mapper::lookup under the
\* lock that init holds while it rebuilds the table).
THEOREM DecisionsInForce == Spec => DecisionInForce
<1>1. /\ ReloadInv
      /\ [Next]_vars
      => [(pc = "lookup" /\ pc' = "notify" /\ ~suspect)
            => cmd' = Resolve(intended, cur.dev, cur.key)]_vars
  <2> SUFFICES ASSUME ReloadInv, [Next]_vars, pc = "lookup", pc' = "notify", ~suspect
               PROVE  cmd' = Resolve(intended, cur.dev, cur.key)
    OBVIOUS
  <2>1. CASE MuxLookup
    BY <2>1 DEF MuxLookup, ReloadInv, ReloadInstallsFile
  <2>2. CASE MuxStep /\ ~MuxLookup
    BY <2>2 DEF MuxStep, StartReaders, MuxContinue, MuxLeave, MuxTakeReload,
       MuxNoReload, MuxReloaded, MuxPop, MuxTimeout, MuxNotify, MuxExec,
       FlagReaders, JoinReaders, CloseAll
  <2>3. CASE \E d \in Devices : ReaderStep(d)
    BY <2>3 DEF ReaderStep, ReaderCheck, ReaderGetsKey, ReaderGetsNothing,
       ReaderLosesDevice, ReaderPush, muxVars
  <2>4. CASE \/ \E t \in Loaders : Reloads(t) \/ ClientReload(t)
             \/ SigTerm \/ SigHup \/ ClientRebind \/ Environment \/ Halted
             \/ UNCHANGED vars
    BY <2>4 DEF Reloads, ClientReload, SigTerm, SigHup, ClientRebind, Environment,
       Halted, vars, muxVars
  <2> QED BY <2>1, <2>2, <2>3, <2>4 DEF Next
<1> QED
  BY <1>1, ReloadInvInDaemon, PTL DEF Spec, DecisionInForce

\* Every step of the daemon is one of the abstract dispatcher or leaves its
\* state alone.
LEMMA StepIsDispatchStep ==
  ASSUME PipelineInv, [Next]_vars
  PROVE  [Dispatch!Next]_<<reported, handled, cmd, launches>>
<1> USE DEF PipelineInv, DispatchInv
<1>1. ASSUME NEW d \in Devices, ReaderStep(d)
      PROVE  [Dispatch!Next]_<<reported, handled, cmd, launches>>
  <2>1. CASE ReaderGetsKey(d)
    <3>1. Dispatch!Report(d)
      BY <2>1 DEF ReaderGetsKey, muxVars, Dispatch!Report, Reports, Dispatch!Reports
    <3> QED BY <3>1 DEF Dispatch!Next
  <2>2. CASE ~ReaderGetsKey(d)
    BY <1>1, <2>2 DEF ReaderStep, ReaderCheck, ReaderGetsNothing, ReaderLosesDevice,
       ReaderPush, muxVars
  <2> QED BY <2>1, <2>2
<1>2. CASE MuxPop
  <2>1. PICK e \in Events : e = queue[1] /\ e = Head(queue)
    BY <1>2, QueueTypes DEF MuxPop
  <2>2. CASE e.press
    BY <1>2, <2>1, <2>2 DEF MuxPop
  <2>3. CASE ~e.press
    <3>1. /\ e.dev \in Devices
          /\ e.n = handled[e.dev] + 1
          /\ e.n \in 1..Len(reported[e.dev])
          /\ reported[e.dev][e.n].press = e.press
      BY <1>2, <2>1, HeadIsNext DEF Matches, Events
    <3>2. handled' = [handled EXCEPT ![e.dev] = handled[e.dev] + 1]
      BY <1>2, <2>1, <2>3, <3>1 DEF MuxPop, Decided
    <3>3. cmd = EmptyCommand /\ UNCHANGED <<reported, cmd, launches>>
      BY <1>2 DEF MuxPop, CmdInv
    <3>4. handled[e.dev] < Len(reported[e.dev])
      BY <3>1 DEF TypeOK
    <3>5. Dispatch!Decide(e.dev)
      BY <2>3, <3>1, <3>2, <3>3, <3>4 DEF Dispatch!Decide
    <3> QED BY <3>1, <3>5 DEF Dispatch!Next
  <2> QED BY <2>2, <2>3
<1>3. CASE MuxLookup
  <2>1. PICK e \in Events : e = cur
    BY <1>3 DEF CurInv, MuxLookup
  <2>2. e.dev \in Devices /\ e.key \in Keys
    BY DEF Events
  <2>3. /\ e.press
        /\ e.n = handled[e.dev] + 1
        /\ e.n \in 1..Len(reported[e.dev])
        /\ reported[e.dev][e.n].press = e.press
    BY <1>3, <2>1 DEF CurInv, Matches, MuxLookup
  <2>4. cmd = EmptyCommand /\ cmd' \in Decisions
    BY <1>3, <2>1, <2>2, ResolveType DEF CmdInv, MuxLookup, TypeOK, ReloadTypeOK
  <2>5. /\ handled' = [handled EXCEPT ![e.dev] = handled[e.dev] + 1]
        /\ UNCHANGED <<reported, launches>>
    BY <1>3, <2>1, <2>3 DEF MuxLookup, Decided, readerVars
  <2>6. handled[e.dev] < Len(reported[e.dev])
    BY <2>2, <2>3 DEF TypeOK
  <2>7. Dispatch!Decide(e.dev)
    <3>1. reported[e.dev][handled[e.dev] + 1].press
      BY <2>3
    <3> QED BY <2>4, <2>5, <2>6, <3>1 DEF Dispatch!Decide, Dispatch!Decisions, Decisions
  <2> QED BY <2>2, <2>7 DEF Dispatch!Next
<1>4. CASE MuxExec
  <2>1. Dispatch!Launch \/ Dispatch!GiveUp
    BY <1>4 DEF MuxExec, CmdInv, Dispatch!Launch, Dispatch!GiveUp, readerVars
  <2> QED BY <2>1 DEF Dispatch!Next
<1>5. CASE \/ StartReaders \/ MuxContinue \/ MuxLeave \/ MuxTakeReload \/ MuxNoReload
           \/ MuxReloaded \/ MuxTimeout \/ MuxNotify \/ FlagReaders
           \/ JoinReaders \/ CloseAll
  BY <1>5 DEF StartReaders, MuxContinue, MuxLeave, MuxTakeReload, MuxNoReload,
     MuxReloaded, MuxTimeout, MuxNotify, FlagReaders, JoinReaders, CloseAll, readerVars
<1>6. CASE \/ \E t \in Loaders : Reloads(t) \/ ClientReload(t)
           \/ SigTerm \/ SigHup \/ ClientRebind \/ Environment \/ Halted
           \/ UNCHANGED vars
  BY <1>6 DEF Reloads, ClientReload, SigTerm, SigHup, ClientRebind, Environment,
     Halted, vars, muxVars, readerVars
<1> QED
  BY <1>1, <1>2, <1>3, <1>4, <1>5, <1>6 DEF Next, MuxStep

\* The daemon implements the abstract dispatcher: reports are decided once
\* each and in order, commands launched at most once per press
\* (reader_fn, EventQueue, EventMultiplexer::run).
THEOREM DispatchImplemented == Spec => ImplementsDispatch
<1>1. Init => Dispatch!Init
  BY DEF Init, Dispatch!Init
<1> QED
  BY <1>1, StepIsDispatchStep, PipelineInvariance, PTL
     DEF Spec, ImplementsDispatch, Dispatch!Spec

\* Whoever looks a key up in the daemon, the multiplexer or a client, sees bindings
\* that change all at once (load and init as EventMultiplexer::run and the
\* client threads of control.cpp run them).
THEOREM DaemonHotReloads == Spec => ImplementsHotReload
BY ImplementsReload, HotReloadImplemented, PTL

\* A daemon that is reloaded by SIGHUP only, never by a client, keeps the promise of
\* mapper.hpp:23 and config.hpp:15: the multiplexer is the one loader, whatever
\* the signals, the binds and the edits of the file do.
THEOREM HangupReloadsAreSafe ==
  ASSUME Loaders = {Mux}
  PROVE  Spec => []ReloadAlwaysInstallsFile
<1>1. OneAtATime
  BY DEF OneAtATime
<1> QED
  BY <1>1, ImplementsReload, SerialReloadsInstall, PTL

-----------------------------------------------------------------------------
(* Liveness                                                                *)

\* The loop is left only after SIGTERM; a SIGHUP that the file has not been read
\* for is in the flag or in a load that is about to read.
EndInv ==
  /\ pc \in {"stop", "join", "close", "exited"} => ~running
  /\ lpc[Mux] # "idle" => pc = "reload"
  /\ unread => reloadFlag \/ lpc[Mux] = "open"

LEMMA EndNext ==
  ASSUME TypeOK, EndInv, [Next]_vars
  PROVE  EndInv'
<1> USE PipelineAssumption DEF EndInv, TypeOK, ReloadTypeOK
<1>1. CASE \E d \in Devices : ReaderStep(d)
  BY <1>1 DEF ReaderStep, ReaderCheck, ReaderGetsKey, ReaderGetsNothing,
     ReaderLosesDevice, ReaderPush, muxVars, signalVars, reloadVars
<1>2. CASE MuxTakeReload
  BY <1>2 DEF MuxTakeReload, StartReload
<1>3. CASE MuxStep /\ ~MuxTakeReload
  BY <1>3 DEF MuxStep, StartReaders, MuxContinue, MuxLeave, MuxNoReload,
     MuxReloaded, MuxPop, MuxTimeout, MuxLookup, MuxNotify, MuxExec,
     FlagReaders, JoinReaders, CloseAll, signalVars, reloadVars
<1>4. CASE \E t \in Loaders : Reloads(t)
  <2>1. PICK t \in Loaders : Reloads(t)
    BY <1>4
  <2>2. lpc' = [lpc EXCEPT ![t] = lpc'[t]] /\ lpc'[t] # "open" /\ lpc[t] # "idle"
    BY <2>1 DEF Reloads, LoadStep, LoadRead, LoadClear, LoadPush, InitLock,
       InitMerge, InitUnlock, Return
  <2>3. UNCHANGED <<running, reloadFlag, pc>> /\ unread' = (unread /\ ~(t = Mux /\ lpc[t] = "open"))
    BY <2>1 DEF Reloads, muxVars
  <2>4. CASE t = Mux
    BY <2>2, <2>3, <2>4
  <2>5. CASE t # Mux
    BY <2>2, <2>3, <2>5
  <2> QED BY <2>4, <2>5
<1>5. CASE \E t \in Loaders : ClientReload(t)
  BY <1>5 DEF ClientReload, StartReload, signalVars, muxVars
<1>6. CASE ClientRebind \/ Environment
  BY <1>6 DEF ClientRebind, Rebind, Bind, Unbind, Environment, FileChange,
     DataRaceCrash, signalVars, muxVars
<1>7. CASE SigTerm \/ SigHup \/ Halted \/ UNCHANGED vars
  BY <1>7 DEF SigTerm, SigHup, Halted, vars, muxVars, signalVars, reloadVars
<1> QED
  BY <1>1, <1>2, <1>3, <1>4, <1>5, <1>6, <1>7 DEF Next

LEMMA EndInvariance == Spec => []EndInv
<1>1. Init => EndInv
  BY PipelineAssumption DEF Init, ReloadInit, EndInv
<1>2. TypeOK /\ EndInv /\ [Next]_vars => EndInv'
  BY EndNext
<1> QED
  BY <1>1, <1>2, PipelineTypeCorrect, PTL DEF Spec

\* Where a step of the main thread may take it.
LEMMA MainMoves ==
  ASSUME MuxStep, TypeOK
  PROVE  /\ pc = "start" => pc' = "loop"
         /\ pc = "loop" => pc' = IF running THEN "flag" ELSE "stop"
         /\ pc = "flag" => IF reloadFlag THEN pc' = "reload" /\ lpc'[Mux] = "open"
                          ELSE pc' = "pop"
         /\ pc = "reload" => pc' = "pop"
         /\ pc = "pop" => pc' \in {"loop", "lookup", "notify"}
         /\ pc = "lookup" => pc' = "notify"
         /\ pc = "notify" => pc' \in {"loop", "exec"}
         /\ pc = "exec" => pc' = "loop"
         /\ pc = "stop" => pc' = "join"
         /\ pc = "join" => pc' = "close"
         /\ pc = "close" => pc' = "exited"
         /\ UNCHANGED <<running, unread, crashed>>
<1> USE PipelineAssumption DEF TypeOK, ReloadTypeOK
<1>1. CASE StartReaders \/ MuxContinue \/ MuxLeave \/ MuxNoReload \/ MuxReloaded
  BY <1>1 DEF StartReaders, MuxContinue, MuxLeave, MuxNoReload, MuxReloaded,
     signalVars, reloadVars
<1>2. CASE MuxTakeReload
  BY <1>2 DEF MuxTakeReload, StartReload
<1>3. CASE MuxPop \/ MuxTimeout \/ MuxLookup \/ MuxNotify \/ MuxExec
  BY <1>3 DEF MuxPop, MuxTimeout, MuxLookup, MuxNotify, MuxExec, signalVars, reloadVars
<1>4. CASE FlagReaders \/ JoinReaders \/ CloseAll
  BY <1>4 DEF FlagReaders, JoinReaders, CloseAll, signalVars, reloadVars
<1> QED
  BY <1>1, <1>2, <1>3, <1>4 DEF MuxStep

\* The steps of the others leave the main thread where it is.
LEMMA OthersLeaveMain ==
  ASSUME [Next]_vars, ~MuxStep
  PROVE  pc' = pc /\ (running' => running)
<1>1. CASE \E d \in Devices : ReaderStep(d)
  BY <1>1 DEF ReaderStep, ReaderCheck, ReaderGetsKey, ReaderGetsNothing,
     ReaderLosesDevice, ReaderPush, muxVars, signalVars
<1>2. CASE \/ \E t \in Loaders : Reloads(t) \/ ClientReload(t)
           \/ SigTerm \/ SigHup \/ ClientRebind \/ Environment \/ Halted
           \/ UNCHANGED vars
  BY <1>2 DEF Reloads, ClientReload, SigTerm, SigHup, ClientRebind, Environment,
     Halted, vars, muxVars, signalVars
<1> QED
  BY <1>1, <1>2 DEF Next

\* SIGTERM ends the process whatever the readers, the clients and the queue do
\* (EventMultiplexer::run, DeviceManager::stop): only a wait of the main thread
\* that does not end could keep it.
THEOREM StopsOnceWaitsEnd ==
  Spec /\ WF_vars(MuxStep) /\ []OnlyNamedWaits /\ WaitsEnd => DaemonStops
<1> DEFINE Loop == pc = "loop" /\ ~running /\ ~crashed
           Exec == pc = "exec" /\ ~running /\ ~crashed
           Tell == pc = "notify" /\ ~running /\ ~crashed
           Look == pc = "lookup" /\ ~running /\ ~crashed
           Wait == pc = "pop" /\ ~running /\ ~crashed
           Load == pc = "reload" /\ ~running /\ ~crashed
           Flag == pc = "flag" /\ ~running /\ ~crashed
           Start == pc = "start" /\ ~running /\ ~crashed
           Stop == pc = "stop" /\ ~running /\ ~crashed
           Join == pc = "join" /\ ~running /\ ~crashed
           Close == pc = "close" /\ ~running /\ ~crashed
           Free == Loop \/ Exec \/ Tell \/ Wait \/ Flag \/ Start \/ Stop \/ Close
<1>1. OnlyNamedWaits /\ Free => ENABLED <<MuxStep>>_vars
  BY DEF OnlyNamedWaits, Alive, MainWaits
<1>2. TypeOK /\ ~running /\ Alive => Free \/ Look \/ Load \/ Join
  BY DEF TypeOK, Alive
<1>3. /\ Load => pc = "reload"
      /\ Look => pc = "lookup"
      /\ Join => pc = "join"
      /\ pc # "reload" => ~Load
      /\ pc # "lookup" => ~Look
      /\ pc # "join" => ~Join
      /\ crashed => ~Alive
  BY DEF Alive
<1>4. TypeOK /\ [Next]_vars =>
        /\ Start => Start' \/ Loop' \/ ~Alive'
        /\ Loop => Loop' \/ Stop' \/ ~Alive'
        /\ Flag => Flag' \/ Load' \/ Wait' \/ ~Alive'
        /\ Load => Load' \/ Wait' \/ ~Alive'
        /\ Wait => Wait' \/ Loop' \/ Look' \/ Tell' \/ ~Alive'
        /\ Look => Look' \/ Tell' \/ ~Alive'
        /\ Tell => Tell' \/ Loop' \/ Exec' \/ ~Alive'
        /\ Exec => Exec' \/ Loop' \/ ~Alive'
        /\ Stop => Stop' \/ Join' \/ ~Alive'
        /\ Join => Join' \/ Close' \/ ~Alive'
        /\ Close => Close' \/ ~Alive'
  <2>1. CASE MuxStep
    BY <2>1, MainMoves DEF Alive
  <2>2. CASE ~MuxStep
    BY <2>2, OthersLeaveMain DEF Alive
  <2> QED BY <2>1, <2>2
<1>5. TypeOK /\ <<MuxStep>>_vars =>
        /\ Start => ~Start'
        /\ Loop => ~Loop'
        /\ Flag => ~Flag'
        /\ Wait => ~Wait'
        /\ Tell => ~Tell'
        /\ Exec => ~Exec'
        /\ Stop => ~Stop'
        /\ Close => ~Close'
  BY MainMoves
<1> HIDE DEF Start, Loop, Flag, Load, Wait, Look, Tell, Exec, Stop, Join, Close
<1> QED
  BY <1>1, <1>2, <1>3, <1>4, <1>5, PipelineTypeCorrect, PTL
     DEF Spec, WaitsEnd, DaemonStops

\* The reads of the file by the multiplexer.
LEMMA OthersLeaveFlag ==
  ASSUME EndInv, TypeOK, [Next]_vars, ~MuxStep, unread, unread', running', ~crashed'
  PROVE  /\ running /\ ~crashed
         /\ reloadFlag => reloadFlag'
         /\ lpc[Mux] = "open" => lpc'[Mux] = "open"
<1>0. /\ {running, crashed, unread, reloadFlag} \subseteq BOOLEAN
      /\ lpc \in [Loaders -> {"idle", "open", "clear", "push", "merge"}]
  BY DEF TypeOK, ReloadTypeOK
<1>1. CASE \E d \in Devices : ReaderStep(d)
  <2>1. UNCHANGED <<running, reloadFlag, crashed, lpc>> /\ Alive
    BY <1>1 DEF ReaderStep, ReaderCheck, ReaderGetsKey, ReaderGetsNothing,
       ReaderLosesDevice, ReaderPush, signalVars, reloadVars
  <2> QED BY <2>1, Zenon DEF Alive
<1>2. CASE \E t \in Loaders : Reloads(t)
  <2>1. PICK t \in Loaders : Reloads(t)
    BY <1>2
  <2>2. lpc' = [lpc EXCEPT ![t] = lpc'[t]] /\ ~crashed
    <3>1. CASE LoadRead(t) \/ InitLock(t) \/ InitUnlock(t)
      BY <1>0, <3>1 DEF LoadRead, InitLock, InitUnlock, Return
    <3>2. CASE LoadClear(t)
      BY <1>0, <3>2 DEF LoadClear, Return
    <3>3. CASE LoadPush(t) \/ InitMerge(t)
      BY <1>0, <3>3 DEF LoadPush, InitMerge
    <3> QED BY <2>1, <3>1, <3>2, <3>3 DEF Reloads, LoadStep
  <2>3. UNCHANGED <<running, reloadFlag>> /\ unread' = (unread /\ ~(t = Mux /\ lpc[t] = "open"))
    BY <2>1 DEF Reloads
  <2>4. CASE t = Mux
    BY <1>0, <2>2, <2>3, <2>4
  <2>5. CASE t # Mux
    BY <1>0, <2>2, <2>3, <2>5, PipelineAssumption
  <2> QED BY <2>4, <2>5
<1>3. CASE \E t \in Loaders : ClientReload(t)
  BY <1>0, <1>3, PipelineAssumption DEF ClientReload, StartReload, signalVars
<1>4. CASE ClientRebind \/ Environment
  <2>1. UNCHANGED <<running, reloadFlag, lpc>> /\ Alive
    BY <1>4 DEF ClientRebind, Rebind, Bind, Unbind, Environment, FileChange,
       DataRaceCrash, signalVars
  <2> QED BY <2>1, Zenon DEF Alive
<1>5. CASE SigTerm \/ SigHup
  <2>1. UNCHANGED <<crashed, lpc>> /\ Alive
    BY <1>5 DEF SigTerm, SigHup, reloadVars
  <2>2. SigTerm => ~running' /\ reloadFlag' = reloadFlag
    BY DEF SigTerm
  <2>3. SigHup => running' = running /\ reloadFlag'
    BY DEF SigHup
  <2>4. running /\ (reloadFlag => reloadFlag')
    BY <1>5, <2>2, <2>3, Zenon
  <2> QED BY <2>1, <2>4, Zenon DEF Alive
<1>6. CASE Halted \/ UNCHANGED vars
  <2>1. UNCHANGED <<running, reloadFlag, crashed, lpc>>
    BY <1>6 DEF Halted, vars, signalVars, reloadVars
  <2> QED BY <2>1, Zenon
<1> QED
  BY <1>1, <1>2, <1>3, <1>4, <1>5, <1>6 DEF Next

\* After every SIGHUP the file is read again, also after one that arrives while
\* a load is running (g_reload.exchange in EventMultiplexer::run): only a wait
\* of the main thread that does not end could prevent it.
THEOREM HangupsServedOnceWaitsEnd ==
  Spec /\ WF_vars(MuxStep) /\ WF_vars(Reloads(Mux)) /\ []OnlyNamedWaits
    /\ WaitsEnd => HangupServed
<1> DEFINE Due == unread /\ running /\ ~crashed
           Loop == pc = "loop" /\ Due
           Exec == pc = "exec" /\ Due
           Tell == pc = "notify" /\ Due
           Look == pc = "lookup" /\ Due
           Wait == pc = "pop" /\ Due
           Load == pc = "reload" /\ Due
           Flag == pc = "flag" /\ Due
           Start == pc = "start" /\ Due
           Opens == lpc[Mux] = "open" /\ Due
           Free == Loop \/ Exec \/ Tell \/ Wait \/ Flag \/ Start
<1> USE PipelineAssumption
<1>1. OnlyNamedWaits /\ EndInv /\ Free => ENABLED <<MuxStep>>_vars
  BY DEF OnlyNamedWaits, Alive, MainWaits, EndInv
<1>0. OnlyNamedWaits /\ EndInv /\ Opens => ENABLED <<Reloads(Mux)>>_vars
  <2> SUFFICES ASSUME OnlyNamedWaits, EndInv, Opens
               PROVE  ENABLED <<Reloads(Mux)>>_vars
    OBVIOUS
  <2>1. Alive /\ lpc[Mux] # "idle" /\ ~LoadWaits(Mux)
    BY DEF Alive, EndInv, LoadWaits, InitDue
  <2> QED BY <2>1 DEF OnlyNamedWaits
<1>2. TypeOK /\ EndInv /\ Due => Free \/ Look \/ Load
  BY DEF TypeOK, EndInv
<1>3. /\ Load => pc = "reload"
      /\ Look => pc = "lookup"
      /\ pc # "reload" => ~Load
      /\ pc # "lookup" => ~Look
      /\ crashed => ~Due
      /\ ~Due => ~unread \/ ~running \/ crashed
      /\ Opens => Due
      /\ unread => Due \/ (~unread \/ ~running \/ crashed)
  OBVIOUS
<1>4. TypeOK /\ EndInv /\ [Next]_vars =>
        /\ Start => Start' \/ Loop' \/ ~Due'
        /\ Loop => Loop' \/ Flag' \/ ~Due'
        /\ Flag => Flag' \/ Opens' \/ ~Due'
        /\ Load => Load' \/ Wait' \/ ~Due'
        /\ Wait => Wait' \/ Loop' \/ Look' \/ Tell' \/ ~Due'
        /\ Look => Look' \/ Tell' \/ ~Due'
        /\ Tell => Tell' \/ Loop' \/ Exec' \/ ~Due'
        /\ Exec => Exec' \/ Loop' \/ ~Due'
        /\ Opens => Opens' \/ ~Due'
  <2>1. CASE MuxStep
    <3>1. EndInv /\ Flag => reloadFlag
      BY DEF EndInv
    <3>2. EndInv /\ Opens => pc = "reload" /\ lpc[Mux] # "idle"
      BY DEF EndInv
    <3>3. MuxStep /\ pc = "reload" => lpc[Mux] = "idle"
      BY DEF MuxStep, StartReaders, MuxContinue, MuxLeave, MuxTakeReload,
         MuxNoReload, MuxReloaded, MuxPop, MuxTimeout, MuxLookup, MuxNotify,
         MuxExec, FlagReaders, JoinReaders, CloseAll
    <3> QED BY <2>1, <3>1, <3>2, <3>3, MainMoves
  <2>2. CASE ~MuxStep
    BY <2>2, OthersLeaveMain, OthersLeaveFlag
  <2> QED BY <2>1, <2>2
<1>5. TypeOK /\ <<MuxStep>>_vars =>
        /\ Start => ~Start'
        /\ Loop => ~Loop'
        /\ Flag => ~Flag'
        /\ Wait => ~Wait'
        /\ Tell => ~Tell'
        /\ Exec => ~Exec'
  BY MainMoves
<1>6. Opens /\ <<Reloads(Mux)>>_vars => ~Due'
  BY DEF Reloads
<1> HIDE DEF Due, Start, Loop, Flag, Load, Wait, Look, Tell, Exec, Opens
<1> QED
  BY <1>0, <1>1, <1>2, <1>3, <1>4, <1>5, <1>6, PipelineTypeCorrect, EndInvariance, PTL
     DEF Spec, WaitsEnd, HangupServed

\* What a reader does with its own state.
LEMMA OneReaderMoves ==
  ASSUME NEW d \in Devices, TypeOK, ReaderStep(d)
  PROVE  /\ rpc[d] = "check" => rpc'[d] = IF active[d] /\ running THEN "read" ELSE "exited"
         /\ rpc[d] = "read" => rpc'[d] \in {"push", "check", "exited"}
         /\ rpc[d] = "push" => rpc'[d] = "check"
         /\ \A e \in Devices \ {d} : rpc'[e] = rpc[e]
         /\ pc' = pc
BY DEF TypeOK, ReaderStep, ReaderCheck, ReaderGetsKey, ReaderGetsNothing,
   ReaderLosesDevice, ReaderPush, muxVars

\* While main waits in join for a reader, only the reader moves itself.
LEMMA JoinedReader ==
  ASSUME PipelineInv, EndInv, [Next]_vars, pc = "join", ~crashed,
         NEW d \in Devices, rpc[d] \in {"check", "read", "push"}
  PROVE  /\ pc' = "join"
         /\ rpc[d] = "check" => rpc'[d] \in {"check", "exited"}
         /\ rpc[d] = "read" => rpc'[d] \in {"check", "read", "push", "exited"}
         /\ rpc[d] = "push" => rpc'[d] \in {"push", "check"}
<1>0. ~running /\ TypeOK /\ d \in opened
  BY DEF EndInv, PipelineInv, ReaderInv, NoReaderOutlivesDevice
<1>1. CASE \E e \in Devices : ReaderStep(e)
  <2>1. PICK e \in Devices : ReaderStep(e)
    BY <1>1
  <2>2. CASE e = d
    BY <1>0, <2>1, <2>2, OneReaderMoves
  <2>3. CASE e # d
    BY <1>0, <2>1, <2>3, OneReaderMoves
  <2> QED BY <2>2, <2>3
<1>2. CASE MuxStep
  BY <1>0, <1>2 DEF MuxStep, StartReaders, MuxContinue, MuxLeave, MuxTakeReload,
     MuxNoReload, MuxReloaded, MuxPop, MuxTimeout, MuxLookup, MuxNotify,
     MuxExec, FlagReaders, JoinReaders, CloseAll
<1>3. CASE \/ \E t \in Loaders : Reloads(t) \/ ClientReload(t)
           \/ SigTerm \/ SigHup \/ ClientRebind \/ Environment \/ Halted
           \/ UNCHANGED vars
  BY <1>3 DEF Reloads, ClientReload, SigTerm, SigHup, ClientRebind, Environment,
     Halted, vars, muxVars, readerVars
<1> QED
  BY <1>1, <1>2, <1>3 DEF Next

\* stop's join ends: a reader that main waits for has seen its flag, or is in a
\* read or a push that ends, and its next check of the flag is its last
\* (DeviceManager::stop and reader_fn).
THEOREM ReadersSeeTheFlag ==
  ASSUME NEW d \in Devices
  PROVE  Spec /\ WF_vars(ReaderStep(d)) /\ []OnlyNamedWaits
           => (pc = "join" ~> rpc[d] \in {"off", "exited"} \/ crashed)
<1> DEFINE Check == pc = "join" /\ ~crashed /\ rpc[d] = "check"
           Read == pc = "join" /\ ~crashed /\ rpc[d] = "read"
           Push == pc = "join" /\ ~crashed /\ rpc[d] = "push"
           Over == rpc[d] \in {"off", "exited"} \/ crashed
<1>1. OnlyNamedWaits /\ (Check \/ Read \/ Push) => ENABLED <<ReaderStep(d)>>_vars
  BY DEF OnlyNamedWaits, Alive
<1>2. TypeOK /\ pc = "join" => Check \/ Read \/ Push \/ Over
  BY DEF TypeOK
<1>3. PipelineInv /\ EndInv /\ [Next]_vars =>
        /\ Check => Check' \/ Over'
        /\ Read => Read' \/ Check' \/ Push' \/ Over'
        /\ Push => Push' \/ Check' \/ Over'
  BY JoinedReader
<1>4. PipelineInv /\ EndInv /\ <<ReaderStep(d)>>_vars =>
        /\ Check => Over'
        /\ Read => ~Read'
        /\ Push => ~Push'
  BY OneReaderMoves DEF EndInv, PipelineInv
<1>5. Over => rpc[d] \in {"off", "exited"} \/ crashed
  OBVIOUS
<1> HIDE DEF Check, Read, Push, Over
<1> QED
  BY <1>1, <1>2, <1>3, <1>4, <1>5, PipelineInvariance, EndInvariance, PTL
     DEF Spec, PipelineInv

-----------------------------------------------------------------------------
(* The mapper's lock                                                       *)

\* In the daemon whoever has the lock is in init.
LEMMA HolderInDaemon == Spec => [](ReloadTypeOK /\ HolderInv)
<1>1. ReloadInv => ReloadTypeOK /\ HolderInv
  BY DEF ReloadInv
<1> QED
  BY <1>1, ReloadInvInDaemon, PTL

\* The main thread stays where it waits for the lock until it has it.
LEMMA LockMoves ==
  ASSUME TypeOK, EndInv, [Next]_vars
  PROVE  /\ pc = "lookup" => pc' = "lookup" \/ pc' = "notify"
         /\ MuxLookup => pc' # "lookup"
         /\ InitDue(Mux) /\ ~crashed => InitDue(Mux)' \/ lpc'[Mux] = "merge" \/ crashed'
         /\ TakesLock(Mux) => lpc'[Mux] = "merge"
<1> USE PipelineAssumption DEF TypeOK, ReloadTypeOK, InitDue
<1>1. pc = "lookup" => pc' = "lookup" \/ pc' = "notify"
  BY MainMoves, OthersLeaveMain
<1>2. MuxLookup => pc' # "lookup"
  BY DEF MuxLookup
<1>3. TakesLock(Mux) => lpc'[Mux] = "merge"
  BY DEF TakesLock, InitLock
<1>4. ASSUME InitDue(Mux), ~crashed
      PROVE  InitDue(Mux)' \/ lpc'[Mux] = "merge" \/ crashed'
  <2>1. CASE UNCHANGED <<lpc, at, root>>
    BY <1>4, <2>1
  <2>2. CASE \E d \in Devices : ReaderStep(d)
    BY <2>1, <2>2 DEF ReaderStep, ReaderCheck, ReaderGetsKey, ReaderGetsNothing,
       ReaderLosesDevice, ReaderPush, reloadVars
  <2>3. CASE MuxStep
    <3>1. ~StartReload(Mux)
      BY <1>4 DEF StartReload
    <3> QED BY <2>1, <2>3, <3>1 DEF MuxStep, StartReaders, MuxContinue, MuxLeave, MuxTakeReload,
         MuxNoReload, MuxReloaded, MuxPop, MuxTimeout, MuxLookup, MuxNotify, MuxExec,
         FlagReaders, JoinReaders, CloseAll, reloadVars
  <2>4. ASSUME NEW t \in Loaders, Reloads(t)
        PROVE  InitDue(Mux)' \/ lpc'[Mux] = "merge" \/ crashed'
    <3>1. CASE t = Mux
      <4>1. ~LoadRead(Mux) /\ ~LoadClear(Mux) /\ ~LoadPush(Mux) /\ ~InitMerge(Mux) /\ ~InitUnlock(Mux)
        BY <1>4 DEF LoadRead, LoadClear, LoadPush, InitMerge, InitUnlock
      <4>2. InitLock(Mux)
        BY <2>4, <3>1, <4>1 DEF Reloads, LoadStep
      <4> QED BY <4>2 DEF InitLock
    <3>2. CASE t # Mux
      <4>1. CASE LoadRead(t) \/ InitLock(t)
        BY <1>4, <3>2, <4>1 DEF LoadRead, InitLock, Return
      <4>2. CASE LoadClear(t)
        BY <1>4, <3>2, <4>2 DEF LoadClear, Return
      <4>3. CASE LoadPush(t) \/ InitMerge(t)
        BY <1>4, <3>2, <4>3 DEF LoadPush, InitMerge
      <4>4. CASE InitUnlock(t)
        BY <1>4, <3>2, <4>4 DEF InitUnlock, Return
      <4> QED BY <2>4, <4>1, <4>2, <4>3, <4>4 DEF Reloads, LoadStep
    <3> QED BY <3>1, <3>2
  <2>5. ASSUME NEW t \in Loaders, ClientReload(t)
        PROVE  InitDue(Mux)'
    BY <1>4, <2>5 DEF ClientReload, StartReload
  <2>6. CASE ClientRebind \/ Environment
    BY <2>1, <2>6 DEF ClientRebind, Rebind, Bind, Unbind, Environment, FileChange, DataRaceCrash
  <2>7. CASE SigTerm \/ SigHup \/ Halted \/ UNCHANGED vars
    BY <2>1, <2>7 DEF SigTerm, SigHup, Halted, vars, reloadVars
  <2> QED BY <2>2, <2>3, <2>4, <2>5, <2>6, <2>7 DEF Next
<1> QED
  BY <1>1, <1>2, <1>3, <1>4

\* The two waits of the main thread for the mapper's lock end, however often clients
\* take it before, if it is free again and again while the process is alive
\* (Mapper::lookup and init).
THEOREM LockReached ==
  Spec /\ SF_vars(MuxLookup) /\ SF_vars(TakesLock(Mux)) /\ []OnlyNamedWaits
    /\ []<>(holder = NoThread \/ ~Alive)
    => /\ pc = "lookup" ~> pc # "lookup" \/ crashed
       /\ InitDue(Mux) ~> lpc[Mux] = "merge" \/ crashed
<1> DEFINE Look == pc = "lookup" /\ ~crashed
           Due == InitDue(Mux) /\ ~crashed
           Free == holder = NoThread
           Merges == lpc[Mux] = "merge"
           Past == pc # "lookup"
<1>1. EndInv /\ OnlyNamedWaits => /\ Look /\ Free => ENABLED <<MuxLookup>>_vars
                                  /\ Due /\ Free => ENABLED <<TakesLock(Mux)>>_vars
  <2>1. Look => Alive
    BY DEF Alive
  <2>2. EndInv /\ Due => Alive
    BY DEF Alive, EndInv, InitDue
  <2> QED BY <2>1, <2>2 DEF OnlyNamedWaits
<1>2. TypeOK /\ EndInv /\ [Next]_vars =>
        /\ Look => Look' \/ Past' \/ crashed'
        /\ Due => Due' \/ Merges' \/ crashed'
  BY LockMoves
<1>3. TypeOK /\ EndInv /\ [Next]_vars =>
        /\ <<MuxLookup>>_vars => Past'
        /\ <<TakesLock(Mux)>>_vars => Merges'
  BY LockMoves
<1>4. /\ pc = "lookup" => Look \/ crashed
      /\ Past => ~Look
      /\ Past <=> pc # "lookup"
      /\ InitDue(Mux) => Due \/ crashed
      /\ Merges => ~Due
      /\ Look => Alive
      /\ EndInv => (Due => Alive)
  BY DEF InitDue, Alive, EndInv
<1>5. []<>(holder = NoThread \/ ~Alive) => []<>(Free \/ ~Alive)
  BY PTL
<1> HIDE DEF Look, Due, Free, Past
<1>6. SF_vars(MuxLookup) /\ []OnlyNamedWaits /\ []TypeOK /\ []EndInv /\ [][Next]_vars
        /\ []<>(Free \/ ~Alive) => (pc = "lookup" ~> Past \/ crashed)
  BY <1>1, <1>2, <1>3, <1>4, PTL
<1>7. SF_vars(TakesLock(Mux)) /\ []OnlyNamedWaits /\ []TypeOK /\ []EndInv /\ [][Next]_vars
        /\ []<>(Free \/ ~Alive) => (InitDue(Mux) ~> Merges \/ crashed)
  BY <1>1, <1>2, <1>3, <1>4, PTL
<1> QED
  BY <1>4, <1>5, <1>6, <1>7, PipelineTypeCorrect, EndInvariance, PTL DEF Spec

-----------------------------------------------------------------------------
(* The way of a report                                                     *)

AtPop == pc = "pop" /\ running /\ ~crashed
Halting == ~running \/ crashed

\* Until SIGTERM the loop comes round to pop again and again, whatever its reloads,
\* lookups and notifications find: only a wait that does not end could keep it
\* (EventMultiplexer::run).
THEOREM PopReachedOnceWaitsEnd ==
  Spec /\ WF_vars(MuxStep) /\ []OnlyNamedWaits /\ WaitsEnd => (running ~> AtPop \/ Halting)
<1> DEFINE Due == running /\ ~crashed
           Loop == pc = "loop" /\ Due
           Exec == pc = "exec" /\ Due
           Tell == pc = "notify" /\ Due
           Look == pc = "lookup" /\ Due
           Load == pc = "reload" /\ Due
           Flag == pc = "flag" /\ Due
           Start == pc = "start" /\ Due
           Free == Loop \/ Exec \/ Tell \/ Flag \/ Start
<1>1. OnlyNamedWaits /\ Free => ENABLED <<MuxStep>>_vars
  BY DEF OnlyNamedWaits, Alive, MainWaits
<1>2. TypeOK /\ EndInv => (running => Free \/ Look \/ Load \/ AtPop \/ Halting)
  BY DEF TypeOK, EndInv, AtPop, Halting
<1>3. /\ Load => pc = "reload"
      /\ Look => pc = "lookup"
      /\ pc # "reload" => ~Load
      /\ pc # "lookup" => ~Look
      /\ crashed => Halting
  BY DEF Halting
<1>4. TypeOK /\ [Next]_vars =>
        /\ Start => Start' \/ Loop' \/ Halting'
        /\ Loop => Loop' \/ Flag' \/ Halting'
        /\ Flag => Flag' \/ Load' \/ AtPop' \/ Halting'
        /\ Load => Load' \/ AtPop' \/ Halting'
        /\ Look => Look' \/ Tell' \/ Halting'
        /\ Tell => Tell' \/ Loop' \/ Exec' \/ Halting'
        /\ Exec => Exec' \/ Loop' \/ Halting'
  <2>1. CASE MuxStep
    BY <2>1, MainMoves DEF AtPop, Halting
  <2>2. CASE ~MuxStep
    BY <2>2, OthersLeaveMain DEF AtPop, Halting
  <2> QED BY <2>1, <2>2
<1>5. TypeOK /\ <<MuxStep>>_vars =>
        /\ Start => ~Start'
        /\ Loop => ~Loop'
        /\ Flag => ~Flag'
        /\ Tell => ~Tell'
        /\ Exec => ~Exec'
  BY MainMoves
<1> HIDE DEF Due, Start, Loop, Flag, Load, Look, Tell, Exec
<1> QED
  BY <1>1, <1>2, <1>3, <1>4, <1>5, PipelineTypeCorrect, EndInvariance, PTL
     DEF Spec, WaitsEnd

\* Where report i of device d is: in its reader's hands, at a place of the queue, in
\* the multiplexer's hands, or decided.
HeldBy(d, i) == rpc[d] = "push" /\ hand[d].n = i
Placed(d, i, n) == n \in 1..Len(queue) /\ queue[n].dev = d /\ queue[n].n = i
InQueue(d, i) == \E n \in 1..Len(queue) : Placed(d, i, n)
LookedUp(d, i) == pc = "lookup" /\ cur.dev = d /\ cur.n = i
DecidedBy(d, i) == handled[d] >= i

\* A report that was read is at one of them.
LEMMA ReportSomewhere ==
  ASSUME PipelineInv, NEW d \in Devices, NEW i \in 1..MaxReports, Len(reported[d]) >= i
  PROVE  HeldBy(d, i) \/ InQueue(d, i) \/ LookedUp(d, i) \/ DecidedBy(d, i)
<1>1. /\ handled[d] \in Nat /\ reported[d] \in Seq(Reports) /\ Len(reported[d]) \in Nat
      /\ TypeOK /\ HandInv /\ QueueInv /\ CurInv
      /\ i \in Nat
  BY DEF PipelineInv, DispatchInv, TypeOK
<1>2. CASE i \in FirstQueued[d]..LastQueued[d]
  BY <1>1, <1>2 DEF QueueInv, InQueue, Placed
<1>3. CASE i < FirstQueued[d]
  <2>1. CASE pc = "lookup" /\ cur.dev = d
    <3>1. FirstQueued[d] = handled[d] + 2 /\ cur.n = handled[d] + 1
      BY <1>1, <2>1 DEF FirstQueued, CurInv
    <3> QED BY <1>1, <1>3, <2>1, <3>1 DEF LookedUp, DecidedBy
  <2>2. CASE ~(pc = "lookup" /\ cur.dev = d)
    <3>1. FirstQueued[d] = handled[d] + 1
      BY <2>2 DEF FirstQueued
    <3> QED BY <1>1, <1>3, <3>1 DEF DecidedBy
  <2> QED BY <2>1, <2>2
<1>4. CASE i > LastQueued[d]
  <2>1. CASE rpc[d] = "push"
    <3>1. LastQueued[d] = Len(reported[d]) - 1 /\ hand[d].n = Len(reported[d])
      BY <1>1, <2>1 DEF LastQueued, HandInv
    <3> QED BY <1>1, <1>4, <2>1, <3>1 DEF HeldBy
  <2>2. CASE rpc[d] # "push"
    <3>1. LastQueued[d] = Len(reported[d])
      BY <2>2 DEF LastQueued
    <3> QED BY <1>1, <1>4, <3>1
  <2> QED BY <2>1, <2>2
<1>5. FirstQueued[d] \in Int /\ LastQueued[d] \in Int
  BY <1>1 DEF FirstQueued, LastQueued
<1> QED
  BY <1>1, <1>2, <1>3, <1>4, <1>5

\* The queue changes at its ends only.
LEMMA QueueMoves ==
  ASSUME [Next]_vars
  PROVE  \/ UNCHANGED queue
         \/ MuxPop
         \/ \E e \in Devices : ReaderPush(e)
<1>1. CASE \E d \in Devices : ReaderStep(d)
  BY <1>1 DEF ReaderStep, ReaderCheck, ReaderGetsKey, ReaderGetsNothing, ReaderLosesDevice
<1>2. CASE MuxStep
  BY <1>2 DEF MuxStep, StartReaders, MuxContinue, MuxLeave, MuxTakeReload,
     MuxNoReload, MuxReloaded, MuxTimeout, MuxLookup, MuxNotify, MuxExec,
     FlagReaders, JoinReaders, CloseAll, readerVars
<1>3. CASE \/ \E t \in Loaders : Reloads(t) \/ ClientReload(t)
           \/ SigTerm \/ SigHup \/ ClientRebind \/ Environment \/ Halted
           \/ UNCHANGED vars
  BY <1>3 DEF Reloads, ClientReload, SigTerm, SigHup, ClientRebind, Environment,
     Halted, vars, readerVars
<1> QED
  BY <1>1, <1>2, <1>3 DEF Next

\* A report in the queue keeps its place until the multiplexer takes the first one.
LEMMA PlaceMoves ==
  ASSUME PipelineInv, [Next]_vars, NEW d \in Devices, NEW i \in 1..MaxReports,
         NEW n \in Nat \ {0}, Placed(d, i, n)
  PROVE  /\ ~MuxPop => Placed(d, i, n)'
         /\ MuxPop /\ n # 1 => Placed(d, i, n - 1)'
         /\ MuxPop /\ n = 1 => LookedUp(d, i)' \/ DecidedBy(d, i)'
<1>1. /\ queue \in Seq(Events) /\ TypeOK /\ DispatchInv
      /\ n \in 1..Len(queue) /\ Len(queue) \in Nat
      /\ queue[n].dev = d /\ queue[n].n = i
  BY QueueTypes DEF PipelineInv, Placed
<1>2. ASSUME NEW e \in Devices, ReaderPush(e)
      PROVE  Placed(d, i, n)'
  <2>1. queue' = Append(queue, hand[e])
    BY <1>2 DEF ReaderPush
  <2>2. hand[e] \in Events
    BY <1>1, <1>2 DEF ReaderPush, DispatchInv, HandInv
  <2>3. Len(queue') = Len(queue) + 1 /\ queue'[n] = queue[n]
    BY <1>1, <2>1, <2>2
  <2> QED BY <1>1, <2>3 DEF Placed
<1>3. CASE UNCHANGED queue
  <2>1. ~MuxPop
    <3>1. MuxPop => Len(queue') = Len(queue) - 1
      BY <1>1 DEF MuxPop
    <3> QED BY <1>1, <1>3, <3>1
  <2> QED BY <1>1, <1>3, <2>1 DEF Placed
<1>4. ASSUME MuxPop
      PROVE  /\ n # 1 => Placed(d, i, n - 1)'
             /\ n = 1 => LookedUp(d, i)' \/ DecidedBy(d, i)'
  <2>1. /\ Len(queue') = Len(queue) - 1
        /\ n # 1 => n - 1 \in 1..Len(queue') /\ queue'[n - 1] = queue[n]
    BY <1>1, <1>4 DEF MuxPop
  <2>2. n # 1 => Placed(d, i, n - 1)'
    BY <1>1, <2>1 DEF Placed
  <2>3. ASSUME n = 1
        PROVE  LookedUp(d, i)' \/ DecidedBy(d, i)'
    <3>1. Head(queue) = queue[1] /\ queue[1].dev = d /\ queue[1].n = i
      BY <1>1, <2>3
    <3>2. CASE Head(queue).press
      BY <1>4, <3>1, <3>2 DEF MuxPop, LookedUp
    <3>3. CASE ~Head(queue).press
      <4>1. handled' = [handled EXCEPT ![d] = i]
        BY <1>4, <3>1, <3>3 DEF MuxPop, Decided
      <4>2. handled'[d] = i /\ i \in Nat
        BY <1>1, <4>1 DEF TypeOK
      <4> QED BY <4>2 DEF DecidedBy
    <3> QED BY <3>2, <3>3
  <2> QED BY <2>2, <2>3
<1> QED
  BY <1>2, <1>3, <1>4, QueueMoves

\* At pop, with a queue that is not empty, the main thread takes the first event.
LEMMA PopsWhenQueued ==
  ASSUME MuxStep, pc = "pop", queue # <<>>
  PROVE  MuxPop
BY DEF MuxStep, StartReaders, MuxContinue, MuxLeave, MuxTakeReload, MuxNoReload,
   MuxReloaded, MuxTimeout, MuxLookup, MuxNotify, MuxExec, FlagReaders, JoinReaders, CloseAll

LEMMA PlacedMeansQueued ==
  ASSUME TypeOK, NEW d, NEW i, NEW n, Placed(d, i, n)
  PROVE  queue # <<>>
BY DEF TypeOK, Placed

\* A report in the queue moves up: what the readers put behind it does not keep it
\* from doing so, nor do the reloads and lookups on the way to the next pop
\* (EventQueue::push and pop, EventMultiplexer::run).
THEOREM ReportsMoveUp ==
  ASSUME NEW d \in Devices, NEW i \in 1..MaxReports, NEW n \in Nat \ {0}
  PROVE  Spec /\ WF_vars(MuxStep) /\ []OnlyNamedWaits /\ WaitsEnd
           => (Placed(d, i, n + 1) ~> Placed(d, i, n) \/ Halting)
<1> DEFINE Here == Placed(d, i, n + 1)
           Next1 == Placed(d, i, n)
<1>1. OnlyNamedWaits /\ AtPop => ENABLED <<MuxStep>>_vars
  BY DEF OnlyNamedWaits, Alive, MainWaits, AtPop
<1>2. PipelineInv /\ [Next]_vars /\ Here => Here' \/ Next1'
  BY PlaceMoves
<1>3. PipelineInv /\ [Next]_vars /\ AtPop /\ Here => AtPop' \/ Next1' \/ Halting'
  <2> SUFFICES ASSUME PipelineInv, [Next]_vars, AtPop, Here
               PROVE  AtPop' \/ Next1' \/ Halting'
    OBVIOUS
  <2>1. CASE MuxStep
    <3>1. MuxPop
      BY <2>1, PopsWhenQueued, PlacedMeansQueued DEF AtPop, PipelineInv
    <3>2. n + 1 \in Nat \ {0} /\ n + 1 # 1 /\ (n + 1) - 1 = n
      OBVIOUS
    <3> QED BY <3>1, <3>2, PlaceMoves
  <2>2. CASE ~MuxStep
    BY <2>2, OthersLeaveMain DEF AtPop, Halting
  <2> QED BY <2>1, <2>2
<1>4. PipelineInv /\ [Next]_vars /\ AtPop /\ Here /\ <<MuxStep>>_vars => Next1'
  <2> SUFFICES ASSUME PipelineInv, [Next]_vars, AtPop, Here, MuxStep
               PROVE  Next1'
    OBVIOUS
  <2>1. MuxPop
    BY PopsWhenQueued, PlacedMeansQueued DEF AtPop, PipelineInv
  <2>2. n + 1 \in Nat \ {0} /\ n + 1 # 1 /\ (n + 1) - 1 = n
    OBVIOUS
  <2> QED BY <2>1, <2>2, PlaceMoves
<1>5. running \/ Halting
  BY DEF Halting
<1> HIDE DEF Here, Next1
<1>6. [][Next]_vars /\ []PipelineInv /\ WF_vars(MuxStep) /\ []OnlyNamedWaits
        /\ (running ~> AtPop \/ Halting)
        => (Here ~> Next1 \/ Halting)
  BY <1>1, <1>2, <1>3, <1>4, <1>5, PTL
<1> QED
  BY <1>6, PopReachedOnceWaitsEnd, PipelineInvariance, PTL DEF Spec, Here, Next1

\* What happens to a report elsewhere than in the queue.
LEMMA ReportMoves ==
  ASSUME PipelineInv, [Next]_vars, NEW d \in Devices, NEW i \in 1..MaxReports
  PROVE  /\ HeldBy(d, i) => HeldBy(d, i)' \/ InQueue(d, i)'
         /\ HeldBy(d, i) /\ ReaderStep(d) => InQueue(d, i)'
         /\ LookedUp(d, i) => LookedUp(d, i)' \/ DecidedBy(d, i)'
<1>0. TypeOK /\ DispatchInv /\ ReaderInv
  BY DEF PipelineInv
<1>1. HeldBy(d, i) /\ ReaderStep(d) => InQueue(d, i)'
  <2> SUFFICES ASSUME HeldBy(d, i), ReaderStep(d)
               PROVE  InQueue(d, i)'
    OBVIOUS
  <2>1. ReaderPush(d)
    BY DEF HeldBy, ReaderStep, ReaderCheck, ReaderGetsKey, ReaderGetsNothing, ReaderLosesDevice
  <2>2. queue' = Append(queue, hand[d]) /\ queue \in Seq(Events)
    BY <1>0, <2>1 DEF ReaderPush, TypeOK
  <2>3. hand[d] \in Events /\ hand[d].dev = d /\ hand[d].n = i
    BY <1>0 DEF DispatchInv, HandInv, HeldBy
  <2>4. Len(queue') \in 1..Len(queue') /\ queue'[Len(queue')] = hand[d]
    BY <2>2, <2>3
  <2> QED BY <2>3, <2>4 DEF InQueue, Placed
<1>2. ASSUME HeldBy(d, i)
      PROVE  HeldBy(d, i)' \/ InQueue(d, i)'
  <2>1. CASE UNCHANGED <<rpc, hand>>
    BY <1>2, <2>1 DEF HeldBy
  <2>2. ASSUME NEW e \in Devices, ReaderStep(e)
        PROVE  HeldBy(d, i)' \/ InQueue(d, i)'
    <3>1. CASE e = d
      BY <1>1, <1>2, <2>2, <3>1
    <3>2. CASE e # d
      <4>1. rpc'[d] = rpc[d] /\ hand'[d] = hand[d]
        BY <1>0, <2>2, <3>2 DEF TypeOK, ReaderStep, ReaderCheck, ReaderGetsKey,
           ReaderGetsNothing, ReaderLosesDevice, ReaderPush
      <4> QED BY <1>2, <4>1 DEF HeldBy
    <3> QED BY <3>1, <3>2
  <2>3. CASE MuxStep
    <3>1. ~StartReaders
      BY <1>0, <1>2 DEF StartReaders, ReaderInv, HeldBy
    <3> QED BY <2>1, <2>3, <3>1 DEF MuxStep, MuxContinue, MuxLeave, MuxTakeReload,
         MuxNoReload, MuxReloaded, MuxPop, MuxTimeout, MuxLookup, MuxNotify, MuxExec,
         FlagReaders, JoinReaders, CloseAll, readerVars
  <2>4. CASE \/ \E t \in Loaders : Reloads(t) \/ ClientReload(t)
             \/ SigTerm \/ SigHup \/ ClientRebind \/ Environment \/ Halted
             \/ UNCHANGED vars
    BY <2>1, <2>4 DEF Reloads, ClientReload, SigTerm, SigHup, ClientRebind, Environment,
       Halted, vars, readerVars
  <2> QED BY <2>2, <2>3, <2>4 DEF Next
<1>3. ASSUME LookedUp(d, i)
      PROVE  LookedUp(d, i)' \/ DecidedBy(d, i)'
  <2>1. CASE UNCHANGED <<pc, cur>>
    BY <1>3, <2>1 DEF LookedUp
  <2>2. CASE MuxStep
    <3>1. MuxLookup
      BY <1>3, <2>2 DEF LookedUp, MuxStep, StartReaders, MuxContinue, MuxLeave, MuxTakeReload,
         MuxNoReload, MuxReloaded, MuxPop, MuxTimeout, MuxNotify, MuxExec,
         FlagReaders, JoinReaders, CloseAll
    <3>2. handled' = [handled EXCEPT ![d] = i]
      BY <1>3, <3>1 DEF MuxLookup, Decided, LookedUp
    <3>3. handled'[d] = i /\ i \in Nat
      BY <1>0, <3>2 DEF TypeOK
    <3> QED BY <3>3 DEF DecidedBy
  <2>3. CASE \E e \in Devices : ReaderStep(e)
    BY <2>1, <2>3 DEF ReaderStep, ReaderCheck, ReaderGetsKey, ReaderGetsNothing,
       ReaderLosesDevice, ReaderPush, muxVars
  <2>4. CASE \/ \E t \in Loaders : Reloads(t) \/ ClientReload(t)
             \/ SigTerm \/ SigHup \/ ClientRebind \/ Environment \/ Halted
             \/ UNCHANGED vars
    BY <2>1, <2>4 DEF Reloads, ClientReload, SigTerm, SigHup, ClientRebind, Environment,
       Halted, vars, muxVars
  <2> QED BY <2>2, <2>3, <2>4 DEF Next
<1> QED
  BY <1>1, <1>2, <1>3

\* A report that was read is decided, unless the daemon is told to stop or dies, if
\* what is queued comes to the front, as ReportsMoveUp has it place by place: its
\* reader pushes it, the main thread takes it and looks it up
\* (reader_fn, EventQueue, EventMultiplexer::run).
THEOREM ReportDecidedOnceInFront ==
  ASSUME NEW d \in Devices, NEW i \in 1..MaxReports
  PROVE  Spec /\ WF_vars(MuxStep) /\ WF_vars(ReaderStep(d)) /\ []OnlyNamedWaits /\ WaitsEnd
           /\ (InQueue(d, i) ~> Placed(d, i, 1) \/ Halting)
           => (Len(reported[d]) >= i ~> handled[d] >= i \/ ~running \/ crashed)
<1> DEFINE Held == HeldBy(d, i)
           Queued == InQueue(d, i)
           First == Placed(d, i, 1)
           Looked == LookedUp(d, i)
           Done == DecidedBy(d, i)
           Inv == PipelineInv /\ EndInv
<1>1. OnlyNamedWaits /\ EndInv =>
        /\ AtPop => ENABLED <<MuxStep>>_vars
        /\ Held => ENABLED <<ReaderStep(d)>>_vars \/ Halting
  BY DEF OnlyNamedWaits, Alive, MainWaits, AtPop, HeldBy, EndInv, Halting
<1>2. Inv => (Len(reported[d]) >= i => Held \/ Queued \/ Looked \/ Done)
  BY ReportSomewhere
<1>3. Inv /\ [Next]_vars =>
        /\ Held => Held' \/ Queued'
        /\ First => First' \/ Looked' \/ Done'
        /\ Looked => Looked' \/ Done'
  BY ReportMoves, PlaceMoves
<1>4. Inv /\ [Next]_vars /\ Held /\ <<ReaderStep(d)>>_vars => Queued'
  BY ReportMoves
<1>5. Inv /\ [Next]_vars /\ AtPop /\ First => AtPop' \/ Looked' \/ Done' \/ Halting'
  <2> SUFFICES ASSUME Inv, [Next]_vars, AtPop, First
               PROVE  AtPop' \/ Looked' \/ Done' \/ Halting'
    OBVIOUS
  <2>1. CASE MuxStep
    <3>1. MuxPop
      BY <2>1, PopsWhenQueued, PlacedMeansQueued DEF AtPop, PipelineInv
    <3> QED BY <3>1, PlaceMoves
  <2>2. CASE ~MuxStep
    BY <2>2, OthersLeaveMain DEF AtPop, Halting
  <2> QED BY <2>1, <2>2
<1>6. Inv /\ [Next]_vars /\ AtPop /\ First /\ <<MuxStep>>_vars => Looked' \/ Done'
  <2> SUFFICES ASSUME Inv, [Next]_vars, AtPop, First, MuxStep
               PROVE  Looked' \/ Done'
    OBVIOUS
  <2>1. MuxPop
    BY PopsWhenQueued, PlacedMeansQueued DEF AtPop, PipelineInv
  <2> QED BY <2>1, PlaceMoves
<1>7. /\ Looked => pc = "lookup"
      /\ pc # "lookup" => ~Looked
      /\ running \/ Halting
      /\ crashed => Halting
      /\ Done \/ Halting <=> handled[d] >= i \/ ~running \/ crashed
  BY DEF LookedUp, DecidedBy, Halting
<1>8. Spec => []Inv
  BY PipelineInvariance, EndInvariance, PTL
<1>9. Inv => EndInv
  OBVIOUS
<1> HIDE DEF Held, Queued, First, Looked, Done, Inv
<1>10. [][Next]_vars /\ []Inv /\ WF_vars(ReaderStep(d)) /\ []OnlyNamedWaits
         => (Held ~> Queued \/ Halting)
  BY <1>1, <1>3, <1>4, <1>9, PTL
<1>11. [][Next]_vars /\ []Inv /\ WF_vars(MuxStep) /\ []OnlyNamedWaits
         /\ (running ~> AtPop \/ Halting)
         => (First ~> Looked \/ Done \/ Halting)
  BY <1>1, <1>3, <1>5, <1>6, <1>7, <1>9, PTL
<1>12. [][Next]_vars /\ []Inv /\ WaitsEnd => (Looked ~> Done \/ Halting)
  BY <1>3, <1>7, PTL DEF WaitsEnd
<1> QED
  BY <1>2, <1>7, <1>8, <1>10, <1>11, <1>12, PopReachedOnceWaitsEnd, PTL
     DEF Spec, Queued, First

-----------------------------------------------------------------------------
(* Who has the lock gives it back                                          *)

\* A thread is in init and has merged n blocks.
Merging(t, n) == holder = t /\ at[t] = n

LEMMA InitMoves ==
  ASSUME ReloadTypeOK, HolderInv, [Next]_vars, NEW t \in Loaders, NEW n \in Nat, Merging(t, n)
  PROVE  /\ Merging(t, n)' \/ Merging(t, n + 1)' \/ (holder = NoThread)'
         /\ Reloads(t) => Merging(t, n + 1)' \/ (holder = NoThread)'
<1> USE DEF ReloadTypeOK, HolderInv, Merging
<1>1. lpc[t] = "merge" /\ holder = t /\ t # NoThread /\ \A u \in Loaders \ {t} : lpc[u] # "merge"
  BY ReloadAssumption
<1>2. CASE UNCHANGED <<holder, at>>
  <2>1. ~Reloads(t)
    <3>1. InitMerge(t) => at'[t] = n + 1
      BY DEF InitMerge
    <3>2. InitUnlock(t) => holder' = NoThread
      BY DEF InitUnlock
    <3>3. Reloads(t) => InitMerge(t) \/ InitUnlock(t)
      BY <1>1 DEF Reloads, LoadStep, LoadRead, LoadClear, LoadPush, InitLock
    <3> QED BY <1>1, <1>2, <3>1, <3>2, <3>3
  <2> QED BY <1>2, <2>1
<1>3. ASSUME NEW u \in Loaders, Reloads(u)
      PROVE  IF u = t THEN Merging(t, n + 1)' \/ (holder = NoThread)' ELSE Merging(t, n)'
  <2>1. CASE u = t
    <3>1. InitMerge(t) \/ InitUnlock(t)
      BY <1>1, <1>3, <2>1 DEF Reloads, LoadStep, LoadRead, LoadClear, LoadPush, InitLock
    <3> QED BY <1>1, <2>1, <3>1 DEF InitMerge, InitUnlock
  <2>2. CASE u # t
    <3>1. ~InitLock(u) /\ ~InitMerge(u) /\ ~InitUnlock(u)
      BY <1>1, <2>2 DEF InitLock, InitMerge, InitUnlock
    <3>2. CASE LoadRead(u)
      BY <2>2, <3>2 DEF LoadRead, Return
    <3>3. CASE LoadClear(u)
      BY <2>2, <3>3 DEF LoadClear, Return
    <3>4. CASE LoadPush(u)
      BY <2>2, <3>4 DEF LoadPush
    <3> QED BY <1>3, <3>1, <3>2, <3>3, <3>4 DEF Reloads, LoadStep
  <2> QED BY <2>1, <2>2
<1>4. CASE \E d \in Devices : ReaderStep(d)
  BY <1>2, <1>4 DEF ReaderStep, ReaderCheck, ReaderGetsKey, ReaderGetsNothing,
     ReaderLosesDevice, ReaderPush, reloadVars
<1>5. CASE MuxStep
  BY <1>2, <1>5 DEF MuxStep, StartReaders, MuxContinue, MuxLeave, MuxTakeReload, StartReload,
     MuxNoReload, MuxReloaded, MuxPop, MuxTimeout, MuxLookup, MuxNotify, MuxExec,
     FlagReaders, JoinReaders, CloseAll, reloadVars
<1>6. CASE \/ \E u \in Loaders : ClientReload(u)
           \/ SigTerm \/ SigHup \/ ClientRebind \/ Environment \/ Halted
           \/ UNCHANGED vars
  <2>1. UNCHANGED <<holder, at>>
    BY <1>6 DEF ClientReload, StartReload, SigTerm, SigHup, ClientRebind, Rebind, Bind, Unbind,
       Environment, FileChange, DataRaceCrash, Halted, vars, reloadVars
  <2> QED BY <1>2, <2>1
<1>7. CASE \E u \in Loaders : Reloads(u)
  <2>1. PICK u \in Loaders : Reloads(u)
    BY <1>7
  <2>2. Reloads(t) => Merging(t, n + 1)' \/ (holder = NoThread)'
    BY <1>3
  <2>3. Merging(t, n)' \/ Merging(t, n + 1)' \/ (holder = NoThread)'
    BY <1>3, <2>1
  <2> QED BY <2>2, <2>3
<1> QED
  BY <1>4, <1>5, <1>6, <1>7 DEF Next

\* A client that rebuilds the table keeps nobody waiting for ever: it merges block
\* after block and waits for nobody, whatever other loads do to the vector meanwhile
\* (Mapper::init, control.cpp's client threads).
THEOREM ClientInitAdvances ==
  ASSUME NEW t \in Loaders \ {Mux}, NEW n \in Nat
  PROVE  Spec /\ WF_vars(Reloads(t)) /\ []OnlyNamedWaits
           => (Merging(t, n) ~> Merging(t, n + 1) \/ holder = NoThread \/ ~Alive)
<1> DEFINE Inv == ReloadTypeOK /\ HolderInv
           Here == Merging(t, n)
           After == Merging(t, n + 1)
           Free == holder = NoThread
<1>1. OnlyNamedWaits /\ Inv /\ Here /\ Alive => ENABLED <<Reloads(t)>>_vars
  <2> SUFFICES ASSUME OnlyNamedWaits, Inv, Here, Alive
               PROVE  ENABLED <<Reloads(t)>>_vars
    OBVIOUS
  <2>1. lpc[t] = "merge"
    BY DEF HolderInv, Merging
  <2>2. lpc[t] # "idle" /\ ~LoadWaits(t)
    BY <2>1 DEF LoadWaits, InitDue
  <2> QED BY <2>2 DEF OnlyNamedWaits
<1>2. Inv /\ [Next]_vars /\ Here => Here' \/ After' \/ Free'
  BY InitMoves
<1>3. Inv /\ [Next]_vars /\ Here /\ <<Reloads(t)>>_vars => After' \/ Free'
  BY InitMoves
<1> HIDE DEF Inv, Here, After, Free
<1>4. [][Next]_vars /\ []Inv /\ WF_vars(Reloads(t)) /\ []OnlyNamedWaits
        => (Here ~> After \/ Free \/ ~Alive)
  BY <1>1, <1>2, <1>3, PTL
<1> QED
  BY <1>4, HolderInDaemon, PTL DEF Spec, Inv, Here, After, Free

\* Nor does the multiplexer, when it is the one that rebuilds it.
THEOREM MuxInitAdvances ==
  ASSUME NEW n \in Nat
  PROVE  Spec /\ WF_vars(Reloads(Mux)) /\ []OnlyNamedWaits
           => (Merging(Mux, n) ~> Merging(Mux, n + 1) \/ holder = NoThread \/ ~Alive)
<1> DEFINE Inv == ReloadTypeOK /\ HolderInv
           Here == Merging(Mux, n)
           After == Merging(Mux, n + 1)
           Free == holder = NoThread
<1>0. Mux \in Loaders
  BY PipelineAssumption
<1>1. OnlyNamedWaits /\ Inv /\ Here /\ Alive => ENABLED <<Reloads(Mux)>>_vars
  <2> SUFFICES ASSUME OnlyNamedWaits, Inv, Here, Alive
               PROVE  ENABLED <<Reloads(Mux)>>_vars
    OBVIOUS
  <2>1. lpc[Mux] = "merge"
    BY <1>0 DEF HolderInv, Merging
  <2>2. lpc[Mux] # "idle" /\ ~LoadWaits(Mux)
    BY <2>1 DEF LoadWaits, InitDue
  <2> QED BY <2>2 DEF OnlyNamedWaits
<1>2. Inv /\ [Next]_vars /\ Here => Here' \/ After' \/ Free'
  BY <1>0, InitMoves
<1>3. Inv /\ [Next]_vars /\ Here /\ <<Reloads(Mux)>>_vars => After' \/ Free'
  BY <1>0, InitMoves
<1> HIDE DEF Inv, Here, After, Free
<1>4. [][Next]_vars /\ []Inv /\ WF_vars(Reloads(Mux)) /\ []OnlyNamedWaits
        => (Here ~> After \/ Free \/ ~Alive)
  BY <1>1, <1>2, <1>3, PTL
<1> QED
  BY <1>4, HolderInDaemon, PTL DEF Spec, Inv, Here, After, Free
=============================================================================
