--------------------------- MODULE ControlServer ----------------------------
(***************************************************************************)
(* The control socket: an accept thread, one detached thread per           *)
(* connection (handle_client) and the observers that `events` registers    *)
(* with the multiplexer, which the main thread calls from a copy of the    *)
(* map.  An observer knows its connection only by a descriptor number, and *)
(* writes to it with a blocking write.                                     *)
(*                                                                         *)
(* What a command does to table and config is in Reload; here a command is *)
(* a request that is answered by one line.                                 *)
(*                                                                         *)
(* External: jsoncpp, which throws when it is asked for the member of a    *)
(* value that is no object, or for an array or object as a string.         *)
(***************************************************************************)
EXTENDS Naturals, Sequences

CONSTANTS
  Clients,     \* each makes one connection
  Fds,         \* descriptor numbers
  NoFd,        \* no number
  Room,        \* lines a socket holds before a write blocks
  Script,      \* what each request of a client may be, which bounds them
  MaxPresses   \* bound: presses the multiplexer handles

\* A line: `events`; another command, known or not, or a line that is refused;
\* JSON of a shape on which handle_client throws (`[]`, or {"cmd": []}).
Requests == {"command", "events", "misshapen"}

ASSUME ControlAssumption ==
  /\ NoFd \notin Fds
  /\ Room \in Nat \ {0}
  /\ Script \in [Clients -> Seq(SUBSET Requests)]
  /\ MaxPresses \in Nat

VARIABLES
  peer,       \* the client's end of the connection
  sock,       \* requests in the socket the thread has not read
  buf,        \* the lines in handle_client's buf
  unread,     \* lines in the socket the client has not read
  tpc,        \* where the connection's thread is
  fd,         \* the number accept gave the connection
  observers,  \* the clients whose observer is in observers_
  disc,       \* the flag `disconnected` of each observer
  running,    \* g_running
  apc,        \* where the accept thread is
  pc,         \* where the main thread is
  todo,       \* notify's copy of the map, those not yet called
  crashed,    \* SIGPIPE, or an exception that nobody catches, has ended the process
  sent,       \* history: requests a client has sent
  replies,    \* history: answers written to it
  pressed,    \* history: presses the multiplexer has notified
  since,      \* history: how many there were when a client subscribed
  feed,       \* history: the presses a client was told of by its observer
  late        \* history: calls of its observer after remove_observer

clientVars == <<peer, sock, sent>>
threadVars == <<buf, tpc, fd, replies>>
subscriptionVars == <<observers, since>>
mainVars == <<pc, todo, pressed>>
callVars == <<disc, feed, late>>
processVars == <<running, apc, crashed>>
vars == <<clientVars, threadVars, unread, subscriptionVars, mainVars, callVars,
          processVars>>

Serving == {"read", "stream", "remove", "close"}

TypeOK ==
  /\ peer \in [Clients -> {"new", "open", "closed"}]
  /\ sock \in [Clients -> Seq(Requests)]
  /\ buf \in [Clients -> Seq(Requests)]
  /\ unread \in [Clients -> 0..Room]
  /\ tpc \in [Clients -> Serving \cup {"none", "done"}]
  /\ fd \in [Clients -> Fds \cup {NoFd}]
  /\ \A c \in Clients : tpc[c] \in Serving => fd[c] \in Fds
  /\ observers \in SUBSET Clients
  /\ disc \in [Clients -> BOOLEAN]
  /\ running \in BOOLEAN
  /\ apc \in {"poll", "exited"}
  /\ pc \in {"loop", "call", "join", "ended"}
  /\ todo \in SUBSET Clients
  /\ crashed \in BOOLEAN
  /\ sent \in [Clients -> Nat]
  /\ replies \in [Clients -> Nat]
  /\ pressed \in Nat
  /\ since \in [Clients -> Nat]
  /\ feed \in [Clients -> Seq(Nat)]
  /\ late \in [Clients -> Nat]

\* ControlServer::start has succeeded and the multiplexer runs.
Init ==
  /\ peer = [c \in Clients |-> "new"]
  /\ sock = [c \in Clients |-> <<>>]
  /\ buf = [c \in Clients |-> <<>>]
  /\ unread = [c \in Clients |-> 0]
  /\ tpc = [c \in Clients |-> "none"]
  /\ fd = [c \in Clients |-> NoFd]
  /\ observers = {}
  /\ disc = [c \in Clients |-> FALSE]
  /\ running = TRUE
  /\ apc = "poll"
  /\ pc = "loop"
  /\ todo = {}
  /\ crashed = FALSE
  /\ sent = [c \in Clients |-> 0]
  /\ replies = [c \in Clients |-> 0]
  /\ pressed = 0
  /\ since = [c \in Clients |-> 0]
  /\ feed = [c \in Clients |-> <<>>]
  /\ late = [c \in Clients |-> 0]

Alive == ~crashed /\ pc # "ended"

\* running_ is set and server_fd_ open: ControlServer::stop has not begun.
Listening == pc \in {"loop", "call"}

\* Deviation: the accept loop does not look at running_.
NeverStopping == FALSE
Stopping == ~Listening

\* The daemon's end of the connection is open.
Open(c) == tpc[c] \in Serving

\* The connection that a descriptor number names now.
Names(f, c) == Open(c) /\ fd[c] = f

\* What a write of a line to descriptor f meets.
Writable(f, c) == Names(f, c) /\ peer[c] # "closed" /\ unread[c] < Room
Blocked(f) == \E c \in Clients : Names(f, c) /\ peer[c] # "closed" /\ unread[c] = Room
Broken(f) == \E c \in Clients : Names(f, c) /\ peer[c] = "closed"
Invalid(f) == \A c \in Clients : ~Names(f, c)

-----------------------------------------------------------------------------
(* Clients: pfctl and ControlClient                                        *)

Send(c) ==
  /\ peer[c] = "open"
  /\ sent[c] < Len(Script[c])
  /\ \E r \in Script[c][sent[c] + 1] : sock' = [sock EXCEPT ![c] = Append(@, r)]
  /\ sent' = [sent EXCEPT ![c] = @ + 1]
  /\ UNCHANGED <<peer, threadVars, unread, subscriptionVars, mainVars, callVars, processVars>>

ClientRead(c) ==
  /\ peer[c] = "open"
  /\ unread[c] > 0
  /\ unread' = [unread EXCEPT ![c] = @ - 1]
  /\ UNCHANGED <<clientVars, threadVars, subscriptionVars, mainVars, callVars, processVars>>

\* The answer is there, five seconds are over, or Ctrl-C.
ClientClose(c) ==
  /\ peer[c] = "open"
  /\ peer' = [peer EXCEPT ![c] = "closed"]
  /\ unread' = [unread EXCEPT ![c] = 0]
  /\ UNCHANGED <<sock, sent, threadVars, subscriptionVars, mainVars, callVars, processVars>>

-----------------------------------------------------------------------------
(* accept_loop and handle_client                                           *)

\* Deviation: a failed accept is not noticed.
AcceptedUnchecked == {f \in Fds : Invalid(f)} \cup {NoFd}

\* Any free number: the daemon opens and closes other files too.
Accepted == {f \in Fds : Invalid(f)}

\* connect and accept are one step: what a client does while it waits in the
\* backlog it can do afterwards.
Accept(c) ==
  /\ apc = "poll" /\ Listening
  /\ peer[c] = "new"
  /\ \E f \in Accepted : fd' = [fd EXCEPT ![c] = f]
  /\ peer' = [peer EXCEPT ![c] = "open"]
  /\ tpc' = [tpc EXCEPT ![c] = "read"]
  /\ UNCHANGED <<sock, sent, buf, replies, unread, subscriptionVars, mainVars, callVars,
                 processVars>>

\* poll returns after 200 ms at the latest, and the loop looks at running_.
AcceptLeave ==
  /\ apc = "poll" /\ Stopping
  /\ apc' = "exited"
  /\ UNCHANGED <<clientVars, threadVars, unread, subscriptionVars, mainVars, callVars,
                 running, crashed>>

ReadRequests(c) ==
  /\ tpc[c] = "read" /\ buf[c] = <<>> /\ sock[c] # <<>>
  /\ buf' = [buf EXCEPT ![c] = sock[c]]
  /\ sock' = [sock EXCEPT ![c] = <<>>]
  /\ UNCHANGED <<peer, sent, tpc, fd, replies, unread, subscriptionVars, mainVars, callVars,
                 processVars>>

\* End of file, or SO_RCVTIMEO.
ReadEnds(c) ==
  /\ tpc[c] = "read" /\ buf[c] = <<>> /\ sock[c] = <<>>
  /\ tpc' = [tpc EXCEPT ![c] = "close"]
  /\ UNCHANGED <<clientVars, buf, fd, replies, unread, subscriptionVars, mainVars, callVars,
                 processVars>>

\* Deviation: what follows the first newline is thrown away.
NothingLeft(lines) == <<>>
AfterLine(lines) == Tail(lines)

NextLineIs(c, r) == tpc[c] = "read" /\ buf[c] # <<>> /\ Head(buf[c]) = r

\* A command, or a line that is refused: one answer, then the next line.
Answer(c) ==
  /\ NextLineIs(c, "command")
  /\ Writable(fd[c], c)
  /\ unread' = [unread EXCEPT ![c] = @ + 1]
  /\ replies' = [replies EXCEPT ![c] = @ + 1]
  /\ buf' = [buf EXCEPT ![c] = AfterLine(@)]
  /\ UNCHANGED <<clientVars, tpc, fd, subscriptionVars, mainVars, callVars, processVars>>

\* The same when the client is gone: what send_str returns is not looked at.
\* Nothing sets the action of SIGPIPE: started from a shell it is fatal, under
\* systemd it is ignored.
AnswerNobody(c) ==
  /\ NextLineIs(c, "command")
  /\ Broken(fd[c])
  /\ crashed' \in BOOLEAN
  /\ buf' = [buf EXCEPT ![c] = AfterLine(@)]
  /\ UNCHANGED <<clientVars, tpc, fd, replies, unread, subscriptionVars, mainVars, callVars,
                 running, apc>>

\* jsoncpp throws in a detached thread: std::terminate.
Throw(c) ==
  /\ NextLineIs(c, "misshapen")
  /\ crashed' = TRUE
  /\ UNCHANGED <<clientVars, threadVars, unread, subscriptionVars, mainVars, callVars,
                 running, apc>>

\* Deviation: the id is not new, so the observer replaces another.
InsteadOfOthers(c) == {c}
WithObserver(c) == observers \cup {c}

\* `events`: add_observer.
Subscribe(c) ==
  /\ NextLineIs(c, "events")
  /\ buf' = [buf EXCEPT ![c] = AfterLine(@)]
  /\ observers' = WithObserver(c)
  /\ since' = [since EXCEPT ![c] = pressed]
  /\ tpc' = [tpc EXCEPT ![c] = "stream"]
  /\ UNCHANGED <<clientVars, fd, replies, unread, mainVars, callVars, processVars>>

\* The peek finds the end only when nothing is left to read before it.
Gone(c) == peer[c] = "closed" /\ sock[c] = <<>>

\* Deviation: end of file is taken for "nothing to read".
PeekFindsNothing(c) == FALSE
PeekFindsEnd(c) == Gone(c)

\* The loop around the 100 ms of sleep.
LeaveStream(c) ==
  /\ tpc[c] = "stream"
  /\ disc[c] \/ ~running \/ PeekFindsEnd(c)
  /\ tpc' = [tpc EXCEPT ![c] = "remove"]
  /\ UNCHANGED <<clientVars, buf, fd, replies, unread, subscriptionVars, mainVars, callVars,
                 processVars>>

\* Deviation: the connection is closed with its observer still registered.
NobodyRemoved(c) == observers
WithoutObserver(c) == observers \ {c}

Unsubscribe(c) ==
  /\ tpc[c] = "remove"
  /\ observers' = WithoutObserver(c)
  /\ tpc' = [tpc EXCEPT ![c] = "close"]
  /\ UNCHANGED <<clientVars, buf, fd, replies, unread, since, mainVars, callVars, processVars>>

\* What is left in the sockets, and the history of the connection, concern
\* nobody any more.
CloseFd(c) ==
  /\ tpc[c] = "close"
  /\ tpc' = [tpc EXCEPT ![c] = "done"]
  /\ peer' = [peer EXCEPT ![c] = "closed"]
  /\ sock' = [sock EXCEPT ![c] = <<>>]
  /\ buf' = [buf EXCEPT ![c] = <<>>]
  /\ unread' = [unread EXCEPT ![c] = 0]
  /\ sent' = [sent EXCEPT ![c] = 0]
  /\ replies' = [replies EXCEPT ![c] = 0]
  /\ since' = [since EXCEPT ![c] = 0]
  /\ UNCHANGED <<fd, observers, mainVars, callVars, processVars>>

-----------------------------------------------------------------------------
(* The main thread: run, notify, ControlServer::stop                       *)

\* notify copies the map under obs_mu_ and calls the copies without it.  Of an
\* event that is no press every observer returns at once: nobody to call.
Notify ==
  /\ pc = "loop" /\ running
  /\ \/ /\ pressed < MaxPresses
        /\ pressed' = pressed + 1
        /\ todo' = observers
     \/ UNCHANGED <<pressed, todo>>
  /\ pc' = "call"
  /\ UNCHANGED <<clientVars, threadVars, unread, subscriptionVars, callVars, processVars>>

\* Deviation: a callback is tried again and again.
StillToCall(c) == todo
OthersToCall(c) == todo \ {c}

\* The loop over the copy; it goes by growing id, here in any order.
Called(c) == pc = "call" /\ c \in todo /\ todo' = OthersToCall(c)

\* The observer returns at once.
CallSkipped(c) ==
  /\ Called(c)
  /\ disc[c]
  /\ UNCHANGED <<clientVars, threadVars, unread, subscriptionVars, pc, pressed,
                 callVars, processVars>>

\* It writes.  History: the call may come after remove_observer.
CallWrites(c) ==
  /\ Called(c)
  /\ ~disc[c]
  /\ late' = IF c \in observers THEN late ELSE [late EXCEPT ![c] = @ + 1]
  /\ UNCHANGED <<clientVars, threadVars, subscriptionVars, pc, pressed, apc>>

\* Deviation: the press is counted before it is formatted, and the line is
\* the next one's.
ToldNext(c) == [feed EXCEPT ![c] = Append(@, pressed + 1)]

\* The line reaches the connection that has the number now.
Told(c) == [feed EXCEPT ![c] = Append(@, pressed)]

CallDelivers(c) ==
  /\ CallWrites(c)
  /\ \E o \in Clients :
       /\ Writable(fd[c], o)
       /\ unread' = [unread EXCEPT ![o] = @ + 1]
       /\ feed' = IF o = c THEN Told(c) ELSE feed
  /\ UNCHANGED <<disc, running, crashed>>

\* EPIPE, which comes with SIGPIPE, or EBADF.
CallFails(c) ==
  /\ CallWrites(c)
  /\ Broken(fd[c]) \/ Invalid(fd[c])
  /\ crashed' \in IF Broken(fd[c]) THEN BOOLEAN ELSE {FALSE}
  /\ disc' = [disc EXCEPT ![c] = TRUE]
  /\ UNCHANGED <<unread, feed, running>>

\* The handlers are installed without SA_RESTART: SIGHUP or SIGTERM makes a
\* write that waits fail with EINTR.
CallInterrupted(c) ==
  /\ CallWrites(c)
  /\ Blocked(fd[c])
  /\ running' \in {running, FALSE}
  /\ disc' = [disc EXCEPT ![c] = TRUE]
  /\ UNCHANGED <<unread, feed, crashed>>

NotifyDone ==
  /\ pc = "call" /\ todo = {}
  /\ pc' = "loop"
  /\ UNCHANGED <<clientVars, threadVars, unread, subscriptionVars, todo, pressed, callVars,
                 processVars>>

\* The loop of run ends; stop clears running_ and closes the listening socket.
StopServer ==
  /\ pc = "loop" /\ ~running
  /\ pc' = "join"
  /\ UNCHANGED <<clientVars, threadVars, unread, subscriptionVars, todo, pressed,
                 callVars, processVars>>

\* Only the accept thread is joined; main returns whatever the clients' do.
JoinAccept ==
  /\ pc = "join" /\ apc = "exited"
  /\ pc' = "ended"
  /\ UNCHANGED <<clientVars, threadVars, unread, subscriptionVars, todo, pressed,
                 callVars, processVars>>

\* handle_terminate; for a write that waits see CallInterrupted.
SigTerm ==
  /\ running
  /\ \A c \in todo : pc = "call" /\ ~disc[c] => ~Blocked(fd[c])
  /\ running' = FALSE
  /\ UNCHANGED <<clientVars, threadVars, unread, subscriptionVars, mainVars, callVars,
                 apc, crashed>>

-----------------------------------------------------------------------------
ClientStep(c) == Alive /\ (Send(c) \/ ClientRead(c) \/ ClientClose(c))

ThreadStep(c) ==
  /\ Alive
  /\ \/ ReadRequests(c)
     \/ ReadEnds(c)
     \/ Answer(c)
     \/ AnswerNobody(c)
     \/ Throw(c)
     \/ Subscribe(c)
     \/ LeaveStream(c)
     \/ Unsubscribe(c)
     \/ CloseFd(c)

AcceptStep == Alive /\ (AcceptLeave \/ \E c \in Clients : Accept(c))

\* The main thread, beyond waiting for an event.
MainStep ==
  /\ Alive
  /\ \/ \E c \in Clients : CallSkipped(c) \/ CallDelivers(c) \/ CallFails(c)
     \/ NotifyDone
     \/ StopServer
     \/ JoinAccept

Signal == Alive /\ (SigTerm \/ \E c \in Clients : CallInterrupted(c))

Halted == ~Alive /\ UNCHANGED vars

Next ==
  \/ \E c \in Clients : ClientStep(c) \/ ThreadStep(c)
  \/ AcceptStep
  \/ Alive /\ Notify
  \/ MainStep
  \/ Signal
  \/ Halted

Spec == Init /\ [][Next]_vars

-----------------------------------------------------------------------------
(* Safety                                                                  *)

\* As long as an observer is in the map its descriptor number names its own
\* connection (control.cpp:287 comes before the close at control.cpp:121).
ObserverOwnsDescriptor ==
  \A c \in observers : \A o \in Clients : Names(fd[c], o) <=> o = c

\* An observer called from the copy of the map after remove_observer returned
\* (multiplexer.cpp:81-92 against control.cpp:287), when its number may name
\* another client's connection, is called at most once so.
AtMostOneLateCall == \A c \in Clients : late[c] <= 1

\* Between two events a subscriber whose writes have not failed has been told
\* of every press since it subscribed (control.cpp:257-275, multiplexer.cpp:90).
SubscriberMissesNothing ==
  pc = "loop" =>
    \A c \in Clients :
      tpc[c] = "stream" /\ ~disc[c] => Len(feed[c]) = pressed - since[c]

\* Several commands on one connection: when handle_client waits for input and
\* there is none (control.cpp:138-147), every one of them has been answered.  A
\* line that throws (control.cpp:154) is not: it is never got past.
EveryCommandAnswered ==
  \A c \in Clients :
    tpc[c] = "read" /\ peer[c] # "closed" /\ buf[c] = <<>> /\ sock[c] = <<>>
      => replies[c] = sent[c]

\* Refinement: the feeds are those of Broadcast, gapless and in order,
\* whatever subscribes, leaves, fails or blocks in between.
BroadcastSpec == INSTANCE Broadcast WITH published <- pressed
ImplementsBroadcast == BroadcastSpec!Spec

\* control.cpp:253-254: "a shared atomic flag so the observer can signal us when
\* the client socket becomes unwriteable".  A press that meets a connection whose
\* client has left sets the flag of its observer, and the daemon goes on.
UnwriteableSubscriberIsSignalled ==
  [][\A c \in todo \ todo' : Broken(fd[c]) => disc'[c] /\ ~crashed']_vars

\* Where a thread of the daemon has something to do, unless a write of its own
\* waits for a client to read.
ClientThreadHasWork(c) ==
  \/ tpc[c] \in {"remove", "close"}
  \/ tpc[c] = "stream" /\ (disc[c] \/ ~running \/ Gone(c))
  \/ tpc[c] = "read" /\ ~Blocked(fd[c])

MainHasWork ==
  \/ pc = "call" /\ \A c \in todo : disc[c] \/ ~Blocked(fd[c])
  \/ pc = "loop" /\ ~running
  \/ pc = "join" /\ apc = "exited"

\* The threads of the daemon wait for clients and never for one another, except
\* that ControlServer::stop waits for the accept thread (control.cpp:95-147 and
\* 278-288, multiplexer.cpp:81-92): whoever has something to do can do it.
OnlyClientsAreWaitedFor ==
  Alive =>
    /\ \A c \in Clients : ClientThreadHasWork(c) => ENABLED <<ThreadStep(c)>>_vars
    /\ MainHasWork => ENABLED <<MainStep>>_vars
    /\ pc = "join" /\ apc = "poll" => ENABLED <<AcceptStep>>_vars

-----------------------------------------------------------------------------
(* Liveness                                                                *)

\* The scheduler runs every thread, and the clients read what they are sent.
Fairness ==
  /\ WF_vars(MainStep)
  /\ WF_vars(AcceptStep)
  /\ \A c \in Clients : WF_vars(ThreadStep(c))
  /\ WF_vars(Alive /\ \E c \in Clients : ClientRead(c))

FairSpec == Spec /\ Fairness

\* A subscriber that is gone, and left nothing unread, is unsubscribed and its
\* connection closed (control.cpp:278-288), with or without further events.
GoneDropped(c) == (tpc[c] = "stream" /\ Gone(c)) ~> (tpc[c] = "done" \/ ~Alive)
GoneSubscriberDropped == \A c \in Clients : GoneDropped(c)

\* notify returns (multiplexer.cpp:90) if clients read or go away: one that
\* does not read stops the main thread here.
NotifyReturns == (pc = "call") ~> (pc # "call" \/ ~Alive)

\* SIGTERM ends main although client threads still wait for input
\* (control.cpp:95-106, multiplexer.cpp:18).
MainEnds == ~running ~> ~Alive
=============================================================================
