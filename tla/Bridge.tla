------------------------------- MODULE Bridge -------------------------------
(***************************************************************************)
(* The web bridge (frontend/main.cpp, ControlClient.cc) between the pages  *)
(* of web browsers and the daemon's control socket.  A page keeps an event *)
(* stream open: a worker thread of its own fills a queue, the IO loop that *)
(* has the connection empties it.  A page that changes a binding waits for *)
(* the answer and then reads the table again (webui/app.js).               *)
(*                                                                         *)
(* External: Drogon's IO loops, the daemon behind its socket, the kernel's *)
(* backlog in front of it.                                                 *)
(*                                                                         *)
(* A line is one that fits Drogon's buffer; what main.cpp cuts off a longer*)
(* one (lines 571-573) is left out.                                        *)
(***************************************************************************)
EXTENDS Naturals, Sequences

CONSTANTS
  Pages,      \* pages, each with an event stream
  Users,      \* pages that change a binding each, of its own and once
  Loops,
  NoLoop,
  Cap,        \* 500: the queue is cut when it is longer
  LogSize,    \* MAX_EVENTS of app.js
  WireRoom,   \* lines a socket takes before a write to it blocks
  MaxEvents   \* bound: presses in a behaviour

ASSUME BridgeAssumption ==
  /\ NoLoop \notin Loops
  /\ Pages \cap Users = {}
  /\ "free" \notin Pages \cup Users
  /\ {Cap, MaxEvents} \subseteq Nat /\ {LogSize, WireRoom} \subseteq Nat \ {0}

VARIABLES
  busy,     \* whose code runs on each IO loop
  loop,     \* the loop that has the connection of a page or user
  \* event streams
  up,       \* the daemon has its socket
  stuck,    \* it accepts no connection, and the backlog of 8 is full
  emitted,  \* presses so far, which are numbered
  link,     \* each worker's connection, as the daemon left it
  wire,     \* lines on their way to the worker
  worker,   \* where it is
  hand,     \* lines it has read and not yet queued
  queue, running,
  stream,   \* what Drogon has of the stream
  open,     \* the page is still there
  eventLog, \* what the page shows, newest first
  cut,      \* history: the queue was cut
  \* changes
  phase,    \* where a user's request is
  asks,     \* what it asks for
  job,      \* what the daemon has done about each
  table,    \* the users whose change is in the daemon's table
  result,   \* the table a read was answered with
  shown,    \* the table each user sees
  undone    \* history: users whose change was gone before their read

loopVars == <<busy, loop>>
daemonVars == <<up, stuck, emitted>>
feedVars == <<link, wire, worker, hand>>
pageVars == <<queue, running, stream, open, eventLog, cut>>
streamVars == <<daemonVars, feedVars, pageVars>>
tableVars == <<table, result, undone>>
userVars == <<phase, asks, job, tableVars, shown>>
vars == <<loopVars, streamVars, userVars>>

Lines == 1..MaxEvents
Kinds == {"change", "read"}

TypeOK ==
  /\ busy \in [Loops -> {"free"} \cup Pages \cup Users]
  /\ loop \in [Pages \cup Users -> Loops \cup {NoLoop}]
  /\ \A l \in Loops : busy[l] # "free" => loop[busy[l]] = l
  /\ up \in BOOLEAN
  /\ stuck \in BOOLEAN
  /\ emitted \in 0..MaxEvents
  /\ link \in [Pages -> {"none", "asked", "open", "eof"}]
  /\ worker \in [Pages -> {"none", "starting", "checking", "polling", "ended"}]
  /\ {wire, hand, queue, eventLog} \subseteq [Pages -> Seq(Lines)]
  /\ \A s \in Pages :
       /\ Len(wire[s]) <= WireRoom
       /\ Len(queue[s]) <= Cap + 1
       /\ Len(eventLog[s]) <= LogSize
  /\ running \in [Pages -> BOOLEAN]
  /\ stream \in [Pages -> {"none", "live", "joining", "gone"}]
  /\ open \in [Pages -> BOOLEAN]
  /\ cut \in [Pages -> BOOLEAN]
  /\ phase \in [Users -> {"none", "queued", "connecting", "asking", "ok", "error"}]
  /\ asks \in [Users -> Kinds]
  /\ job \in [Users -> [Kinds -> {"none", "asked", "done", "lost"}]]
  /\ {table, undone} \subseteq SUBSET Users
  /\ {result, shown} \subseteq [Users -> SUBSET Users]

Init ==
  /\ busy = [l \in Loops |-> "free"]
  /\ loop = [x \in Pages \cup Users |-> NoLoop]
  /\ up = TRUE
  /\ stuck = FALSE
  /\ emitted = 0
  /\ link = [s \in Pages |-> "none"]
  /\ wire = [s \in Pages |-> <<>>]
  /\ worker = [s \in Pages |-> "none"]
  /\ hand = [s \in Pages |-> <<>>]
  /\ queue = [s \in Pages |-> <<>>]
  /\ running = [s \in Pages |-> TRUE]
  /\ stream = [s \in Pages |-> "none"]
  /\ open = [s \in Pages |-> TRUE]
  /\ eventLog = [s \in Pages |-> <<>>]
  /\ cut = [s \in Pages |-> FALSE]
  /\ phase = [u \in Users |-> "none"]
  /\ asks = [u \in Users |-> "change"]
  /\ job = [u \in Users |-> [k \in Kinds |-> "none"]]
  /\ table = {}
  /\ result = [u \in Users |-> {}]
  /\ shown = [u \in Users |-> {}]
  /\ undone = {}

-----------------------------------------------------------------------------
(* The daemon                                                              *)

\* A press goes to every subscriber, and waits for those that do not read.
Emit ==
  /\ up /\ emitted < MaxEvents
  /\ \A s \in Pages : link[s] = "open" => Len(wire[s]) < WireRoom
  /\ emitted' = emitted + 1
  /\ wire' = [s \in Pages |->
       IF link[s] = "open" THEN Append(wire[s], emitted + 1) ELSE wire[s]]
  /\ UNCHANGED <<up, stuck, link, worker, hand, pageVars, loopVars, userVars>>

Subscribe(s) ==
  /\ link[s] = "asked"
  /\ link' = [link EXCEPT ![s] = "open"]
  /\ UNCHANGED <<daemonVars, wire, worker, hand, pageVars, loopVars, userVars>>

\* accept fails for want of a descriptor, or the process is stopped, while more
\* clients connect than the backlog takes; and is over.
Wedge ==
  /\ up
  /\ stuck' = ~stuck
  /\ UNCHANGED <<up, emitted, feedVars, pageVars, loopVars, userVars>>

\* Binds are in the mapper's table and nowhere else.
Forget(binds) ==
  /\ table' = table \ binds
  /\ undone' = undone \cup {u \in table \cap binds : job[u]["read"] # "done"}

\* A reload, by SIGHUP or by another client, goes back to the file; or another
\* client unbinds some buttons or binds them anew.
Override ==
  /\ up
  /\ \E binds \in SUBSET table : Forget(binds)
  /\ UNCHANGED <<phase, asks, job, result, shown, loopVars, streamVars>>

\* It ends: every connection does, what is under way to the bridge may still be
\* read, and a command it has not carried out is lost with it.
DaemonEnds ==
  /\ up
  /\ up' = FALSE /\ stuck' = FALSE
  /\ link' = [s \in Pages |-> IF link[s] = "none" THEN "none" ELSE "eof"]
  /\ job' = [u \in Users |-> [k \in Kinds |->
       IF job[u][k] = "asked" THEN "lost" ELSE job[u][k]]]
  /\ Forget(table)
  /\ UNCHANGED <<emitted, wire, worker, hand, phase, asks, result, shown, pageVars, loopVars>>

DaemonStarts ==
  /\ ~up
  /\ up' = TRUE
  /\ UNCHANGED <<stuck, emitted, feedVars, pageVars, loopVars, userVars>>

\* A command is carried out, whether or not anybody waits for the answer.
Serve(u, k) ==
  /\ up
  /\ job[u][k] = "asked"
  /\ job' = [job EXCEPT ![u][k] = "done"]
  /\ table' = IF k = "change" THEN table \cup {u} ELSE table
  /\ result' = IF k = "read" THEN [result EXCEPT ![u] = table] ELSE result
  /\ UNCHANGED <<phase, asks, undone, shown, loopVars, streamVars>>

\* What connect meets, whose time nothing limits: the timeouts are set after it.
\* While the daemon is stuck it does neither.
Accepts == up /\ ~stuck
Refuses == ~up

-----------------------------------------------------------------------------
(* The worker of a stream: ControlClient::streamEvents                     *)

\* It connects without a look at keepRunning, or cannot.
Connect(s) ==
  /\ worker[s] = "starting"
  /\ \/ /\ Accepts
        /\ link' = [link EXCEPT ![s] = "asked"]
        /\ worker' = [worker EXCEPT ![s] = "checking"]
     \/ /\ Refuses
        /\ worker' = [worker EXCEPT ![s] = "ended"]
        /\ UNCHANGED link
  /\ UNCHANGED <<daemonVars, wire, hand, pageVars, loopVars, userVars>>

\* Deviation: the loop runs until the connection ends.
KeepRunningIgnored(s) == TRUE
KeepRunning(s) == running[s]

\* The head of the loop, once every line of the last read is queued.
Check(s) ==
  /\ worker[s] = "checking" /\ hand[s] = <<>>
  /\ KeepRunning(s)
  /\ worker' = [worker EXCEPT ![s] = "polling"]
  /\ UNCHANGED <<daemonVars, link, wire, hand, pageVars, loopVars, userVars>>

\* One read may bring several lines.
Read(s) ==
  /\ worker[s] = "polling"
  /\ \E n \in 1..Len(wire[s]) :
       /\ hand' = [hand EXCEPT ![s] = SubSeq(wire[s], 1, n)]
       /\ wire' = [wire EXCEPT ![s] = SubSeq(@, n + 1, Len(@))]
  /\ worker' = [worker EXCEPT ![s] = "checking"]
  /\ UNCHANGED <<daemonVars, link, pageVars, loopVars, userVars>>

\* poll has waited 200 ms for nothing.
PollEnds(s) ==
  /\ worker[s] = "polling" /\ wire[s] = <<>> /\ link[s] # "eof"
  /\ worker' = [worker EXCEPT ![s] = "checking"]
  /\ UNCHANGED <<daemonVars, link, wire, hand, pageVars, loopVars, userVars>>

\* Deviations: a full queue takes no more, or is not cut.
RefuseWhenFull(q, e) == IF Len(q) > Cap THEN q ELSE Append(q, e)
NeverCut(q, e) == Append(q, e)

\* The oldest line makes room for the newest.
Pushed(q, e) == Append(IF Len(q) > Cap THEN Tail(q) ELSE q, e)

\* onEvent, under the stream's lock.
Push(s) ==
  /\ hand[s] # <<>>
  /\ queue' = [queue EXCEPT ![s] = Pushed(@, Head(hand[s]))]
  /\ cut' = [cut EXCEPT ![s] = @ \/ Len(queue[s]) > Cap]
  /\ hand' = [hand EXCEPT ![s] = Tail(@)]
  /\ UNCHANGED <<daemonVars, link, wire, worker, running, stream, open, eventLog,
                 loopVars, userVars>>

\* Deviation: POLLHUP ends the worker while there is still something to read.
AtHangup(s) == link[s] = "eof"
AtEnd(s) == link[s] = "eof" /\ wire[s] = <<>>

\* The destructor wants it to, or the daemon has closed the connection.
WorkerEnds(s) ==
  /\ \/ worker[s] = "checking" /\ hand[s] = <<>> /\ ~KeepRunning(s)
     \/ worker[s] = "polling" /\ AtEnd(s)
  /\ worker' = [worker EXCEPT ![s] = "ended"]
  /\ link' = [link EXCEPT ![s] = "none"]
  /\ wire' = [wire EXCEPT ![s] = <<>>]
  /\ UNCHANGED <<daemonVars, hand, pageVars, loopVars, userVars>>

-----------------------------------------------------------------------------
(* The stream on its IO loop                                               *)

\* GET /api/events makes an EventStreamState and starts its worker.
OpenStream(s) ==
  /\ stream[s] = "none" /\ open[s]
  /\ \E l \in Loops :
       /\ busy[l] = "free"
       /\ loop' = [loop EXCEPT ![s] = l]
  /\ stream' = [stream EXCEPT ![s] = "live"]
  /\ worker' = [worker EXCEPT ![s] = "starting"]
  /\ UNCHANGED <<busy, daemonVars, link, wire, hand, queue, running, open, eventLog, cut,
                 userVars>>

\* Drogon asks for the next chunk; the callback waits on the loop for a line.
Pull(s) ==
  /\ stream[s] = "live" /\ busy[loop[s]] = "free"
  /\ busy' = [busy EXCEPT ![loop[s]] = s]
  /\ UNCHANGED <<loop, streamVars, userVars>>

\* appendEventLine: the newest comes first, the oldest goes.
Logged(log, e) ==
  LET new == <<e>> \o log
  IN SubSeq(new, 1, IF Len(new) > LogSize THEN LogSize ELSE Len(new))

\* The line goes to the page, if that is still there.
Deliver(s) ==
  /\ stream[s] = "live" /\ busy[loop[s]] = s
  /\ queue[s] # <<>>
  /\ queue' = [queue EXCEPT ![s] = Tail(@)]
  /\ eventLog' = [eventLog EXCEPT ![s] =
       IF open[s] THEN Logged(@, Head(queue[s])) ELSE @]
  /\ busy' = [busy EXCEPT ![loop[s]] = "free"]
  /\ UNCHANGED <<loop, daemonVars, feedVars, running, stream, open, cut, userVars>>

\* After 15 seconds, or for nothing.
KeepAlive(s) ==
  /\ stream[s] = "live" /\ busy[loop[s]] = s
  /\ queue[s] = <<>>
  /\ busy' = [busy EXCEPT ![loop[s]] = "free"]
  /\ UNCHANGED <<loop, streamVars, userVars>>

\* The page is closed.
Leave(s) ==
  /\ open[s] /\ stream[s] # "none"
  /\ open' = [open EXCEPT ![s] = FALSE]
  /\ UNCHANGED <<daemonVars, feedVars, queue, running, stream, eventLog, cut, loopVars,
                 userVars>>

\* Drogon drops the callback, and ~EventStreamState runs on the loop.
Drop(s) ==
  /\ stream[s] = "live" /\ ~open[s] /\ busy[loop[s]] = "free"
  /\ stream' = [stream EXCEPT ![s] = "joining"]
  /\ running' = [running EXCEPT ![s] = FALSE]
  /\ busy' = [busy EXCEPT ![loop[s]] = s]
  /\ UNCHANGED <<loop, daemonVars, feedVars, queue, open, eventLog, cut, userVars>>

Joined(s) ==
  /\ stream[s] = "joining" /\ worker[s] = "ended"
  /\ stream' = [stream EXCEPT ![s] = "gone"]
  /\ busy' = [busy EXCEPT ![loop[s]] = "free"]
  /\ loop' = [loop EXCEPT ![s] = NoLoop]
  /\ queue' = [queue EXCEPT ![s] = <<>>]
  /\ UNCHANGED <<daemonVars, feedVars, running, open, eventLog, cut, userVars>>

-----------------------------------------------------------------------------
(* Changes: the page, runCommand and ControlClient::send                   *)

\* The form is sent.
Post(u) ==
  /\ phase[u] = "none" /\ asks[u] = "change" /\ job[u]["change"] = "none"
  /\ \E l \in Loops : loop' = [loop EXCEPT ![u] = l]
  /\ phase' = [phase EXCEPT ![u] = "queued"]
  /\ UNCHANGED <<busy, streamVars, asks, job, tableVars, shown>>

\* The handler runs on the loop, up to connect.
Handle(u) ==
  /\ phase[u] = "queued" /\ busy[loop[u]] = "free"
  /\ busy' = [busy EXCEPT ![loop[u]] = u]
  /\ phase' = [phase EXCEPT ![u] = "connecting"]
  /\ UNCHANGED <<loop, streamVars, asks, job, tableVars, shown>>

\* It sends the command, or finds no daemon.
Dial(u) ==
  /\ phase[u] = "connecting"
  /\ \/ /\ Accepts
        /\ phase' = [phase EXCEPT ![u] = "asking"]
        /\ job' = [job EXCEPT ![u][asks[u]] = "asked"]
        /\ UNCHANGED busy
     \/ /\ Refuses
        /\ phase' = [phase EXCEPT ![u] = "error"]
        /\ busy' = [busy EXCEPT ![loop[u]] = "free"]
        /\ UNCHANGED job
  /\ UNCHANGED <<loop, streamVars, asks, tableVars, shown>>

\* Deviation: a command that could be sent counts as carried out.
SentIsEnough(u) == job[u][asks[u]] # "none"

\* A response line has come.
HasAnswer(u) == job[u][asks[u]] = "done"

Answer(u) ==
  /\ phase[u] = "asking" /\ HasAnswer(u)
  /\ phase' = [phase EXCEPT ![u] = "ok"]
  /\ busy' = [busy EXCEPT ![loop[u]] = "free"]
  /\ UNCHANGED <<loop, streamVars, asks, job, tableVars, shown>>

\* Five seconds have passed, or the daemon has gone: the answer is an error
\* whatever becomes of the command.
GiveUp(u) ==
  /\ phase[u] = "asking"
  /\ phase' = [phase EXCEPT ![u] = "error"]
  /\ busy' = [busy EXCEPT ![loop[u]] = "free"]
  /\ UNCHANGED <<loop, streamVars, asks, job, tableVars, shown>>

\* After a change that went well the page asks for the table.
AfterAnswer(u) == IF asks[u] = "change" THEN "queued" ELSE "none"

Continue(u) ==
  /\ phase[u] = "ok"
  /\ phase' = [phase EXCEPT ![u] = AfterAnswer(u)]
  /\ asks' = [asks EXCEPT ![u] = "read"]
  /\ shown' = [shown EXCEPT ![u] = IF asks[u] = "read" THEN result[u] ELSE @]
  /\ \E l \in Loops : loop' = [loop EXCEPT ![u] = IF AfterAnswer(u) = "queued" THEN l ELSE NoLoop]
  /\ UNCHANGED <<busy, streamVars, job, tableVars>>

-----------------------------------------------------------------------------

StreamStep(s) ==
  \/ Subscribe(s) \/ Connect(s) \/ Check(s) \/ Read(s) \/ PollEnds(s) \/ Push(s)
  \/ WorkerEnds(s)
  \/ OpenStream(s) \/ Pull(s) \/ Deliver(s) \/ KeepAlive(s)
  \/ Leave(s) \/ Drop(s) \/ Joined(s)

UserStep(u) ==
  \/ Post(u) \/ Handle(u) \/ Dial(u) \/ Answer(u) \/ GiveUp(u) \/ Continue(u)
  \/ \E k \in Kinds : Serve(u, k)

Next ==
  \/ Emit \/ Wedge \/ Override \/ DaemonEnds \/ DaemonStarts
  \/ \E s \in Pages : StreamStep(s)
  \/ \E u \in Users : UserStep(u)

Spec == Init /\ [][Next]_vars

\* Threads run; a loop that is free again and again turns to every connection that
\* has something for it; a backlog that has room again and again takes whoever waits
\* in connect; polls and waits end after 200 ms, 5 s and 15 s.
Fairness ==
  /\ \A s \in Pages :
       /\ SF_vars(Connect(s)) /\ WF_vars(Check(s)) /\ WF_vars(Read(s)) /\ WF_vars(PollEnds(s))
       /\ WF_vars(Push(s)) /\ WF_vars(WorkerEnds(s))
       /\ SF_vars(Pull(s)) /\ WF_vars(Deliver(s)) /\ WF_vars(KeepAlive(s))
       /\ SF_vars(Drop(s)) /\ WF_vars(Joined(s))
  /\ \A u \in Users :
       /\ SF_vars(Handle(u)) /\ SF_vars(Dial(u))
       /\ WF_vars(Answer(u) \/ GiveUp(u)) /\ WF_vars(Continue(u))

FairSpec == Spec /\ Fairness

-----------------------------------------------------------------------------
(* Properties                                                              *)

Consecutive(q) == \A i \in 1..(Len(q) - 1) : q[i + 1] = q[i] + 1

Reversed(q) == [i \in 1..Len(q) |-> q[Len(q) + 1 - i]]

\* The page gets the presses in their order and none is missing between what it
\* shows and what is under way, unless the queue was cut; a cut takes the oldest
\* lines, so that what is queued runs without a gap to the latest press
\* (main.cpp:113-124, 545-580; ControlClient.cc:153-199).
StreamIntact ==
  \A s \in Pages :
    LET rest == queue[s] \o hand[s] \o wire[s]
        log == Reversed(eventLog[s])
    IN /\ Consecutive(rest)
       /\ rest # <<>> /\ link[s] = "open" => rest[Len(rest)] = emitted
       /\ ~cut[s] /\ open[s] => Consecutive(log \o rest)
       /\ \A i \in 1..Len(log) - 1 : log[i] < log[i + 1]
       /\ rest # <<>> /\ log # <<>> => log[Len(log)] < rest[1]

\* A user who is told that the change went well, and that the table was read, sees
\* a table with that change, unless a reload, another client or the end of the
\* daemon took it back before the read; an error says nothing of it
\* (main.cpp:56-73, ControlClient.cc:89-134, app.js:470-482, 500-528).
SeesOwnChange ==
  \A u \in Users :
    phase[u] = "none" /\ asks[u] = "read" =>
      job[u]["change"] = "done" /\ (u \in shown[u] <=> u \notin undone)

\* Nobody waits but for a loop that runs other code, for room in the backlog of a
\* daemon that does not accept, for the answer of the daemon, which a user does not
\* wait for for ever, for a line, or, in the destructor of a stream, for its worker;
\* and that worker, once it is connected and told to stop, waits for nobody
\* (main.cpp:56-73, 126-134, 551-575; ControlClient.cc:30-42, 156-199).
OnlyNamedWaits ==
  /\ \A s \in Pages :
       /\ worker[s] = "starting" /\ ~stuck => ENABLED <<Connect(s)>>_vars
       /\ hand[s] # <<>> => ENABLED <<Push(s)>>_vars
       /\ worker[s] = "checking" /\ hand[s] = <<>> /\ running[s] => ENABLED <<Check(s)>>_vars
       /\ worker[s] = "checking" /\ hand[s] = <<>> /\ ~running[s] =>
            ENABLED <<WorkerEnds(s)>>_vars
       /\ worker[s] = "polling" /\ wire[s] # <<>> => ENABLED <<Read(s)>>_vars
       /\ worker[s] = "polling" /\ wire[s] = <<>> /\ link[s] # "eof" =>
            ENABLED <<PollEnds(s)>>_vars
       /\ worker[s] = "polling" /\ wire[s] = <<>> /\ link[s] = "eof" =>
            ENABLED <<WorkerEnds(s)>>_vars
       /\ stream[s] = "live" /\ busy[loop[s]] = "free" => ENABLED <<Pull(s)>>_vars
       /\ stream[s] = "live" /\ busy[loop[s]] = s /\ queue[s] # <<>> =>
            ENABLED <<Deliver(s)>>_vars
       /\ stream[s] = "live" /\ busy[loop[s]] = s /\ queue[s] = <<>> =>
            ENABLED <<KeepAlive(s)>>_vars
       /\ stream[s] = "live" /\ busy[loop[s]] = "free" /\ ~open[s] =>
            ENABLED <<Drop(s)>>_vars
       /\ stream[s] = "joining" /\ worker[s] = "ended" => ENABLED <<Joined(s)>>_vars
  /\ \A u \in Users :
       /\ phase[u] = "queued" /\ busy[loop[u]] = "free" => ENABLED <<Handle(u)>>_vars
       /\ phase[u] = "connecting" /\ ~stuck => ENABLED <<Dial(u)>>_vars
       /\ phase[u] = "asking" => ENABLED <<Answer(u) \/ GiveUp(u)>>_vars

\* A daemon that stops accepting for good, with a full backlog, and stays.
WedgedForGood == <>[]stuck

\* Every request is answered, whatever streams wait on its loop and whether or not
\* the daemon runs or answers, as long as it does not stop accepting for good
\* (main.cpp:56-73, 551-575; ControlClient.cc:30-42).
RequestsAnswered ==
  \A u \in Users : WedgedForGood \/ (phase[u] = "queued" ~> phase[u] \in {"ok", "error"})

\* Once the page is gone the stream's worker ends, its connection is closed and
\* its loop is free for others, with the same exception: connect is where the
\* worker does not see that it should stop (main.cpp:126-134, ControlClient.cc:30,
\* 156-199).
StreamsTornDown ==
  \A s \in Pages :
    \/ WedgedForGood
    \/ ~open[s] ~> (stream[s] = "gone" /\ worker[s] = "ended" /\ link[s] = "none")

\* A line in the socket gets to the page, unless the page leaves or the queue is
\* cut, or a request on the stream's loop waits for ever for a daemon that does not
\* accept (main.cpp:113-124, 551-575; ControlClient.cc:30).
LinesDelivered ==
  \A s \in Pages, e \in Lines :
    \/ WedgedForGood
    \/ (wire[s] # <<>> /\ Head(wire[s]) = e)
         ~> \/ ~open[s] \/ cut[s]
            \/ eventLog[s] # <<>> /\ Head(eventLog[s]) >= e

\* main.cpp:141-142: "Multiple IO loops so a slow-polling SSE connection can't stall
\* the rest of the API."  A request gets its loop, whatever streams are on it.
StreamsStallNoRequest == \A u \in Users : phase[u] = "queued" ~> phase[u] # "queued"
=============================================================================
