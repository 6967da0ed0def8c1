---------------------------- MODULE BridgeProofs ----------------------------
(***************************************************************************)
(* Proofs about Bridge, for any number of pages, users and loops and any   *)
(* sizes of queue, log and socket.                                         *)
(***************************************************************************)
EXTENDS Bridge, TLAPS

\* A loop runs the code of the page or user whose request it has.
LoopInv ==
  /\ \A u \in Users :
       /\ phase[u] = "queued" => loop[u] \in Loops
       /\ phase[u] \in {"connecting", "asking"} => loop[u] \in Loops /\ busy[loop[u]] = u
       /\ \A l \in Loops : busy[l] = u => phase[u] \in {"connecting", "asking"}
  /\ \A s \in Pages :
       /\ stream[s] = "live" => loop[s] \in Loops
       /\ stream[s] = "joining" => loop[s] \in Loops /\ busy[loop[s]] = s /\ ~open[s]
       /\ \A l \in Loops : busy[l] = s => stream[s] \in {"live", "joining"}

\* What a user has been told so far is true, and a change that was carried out is
\* in the table until it is undone, or read before that.
UserInv ==
  \A u \in Users :
    /\ phase[u] \in {"queued", "connecting"} => job[u][asks[u]] = "none"
    /\ phase[u] = "ok" => job[u][asks[u]] = "done"
    /\ asks[u] = "read" => job[u]["change"] = "done"
    /\ job[u]["read"] # "none" => asks[u] = "read"
    /\ job[u]["change"] # "done" => u \notin table /\ u \notin undone
    /\ job[u]["change"] = "done" /\ job[u]["read"] # "done" => (u \in table <=> u \notin undone)
    /\ job[u]["read"] = "done" => (u \in result[u] <=> u \notin undone)
    /\ phase[u] = "none" /\ asks[u] = "read" =>
         job[u]["read"] = "done" /\ (u \in shown[u] <=> u \notin undone)

\* Nothing is on its way before the daemon has been asked for it, and the worker
\* holds lines only on its way from read back to the head of its loop.
EarlyInv ==
  \A s \in Pages :
    /\ worker[s] # "checking" => hand[s] = <<>>
    /\ stream[s] = "none" => worker[s] = "none"
    /\ worker[s] \in {"none", "starting"} => link[s] = "none"
    /\ worker[s] \in {"none", "starting"} \/ link[s] = "asked" =>
         /\ wire[s] = <<>> /\ hand[s] = <<>> /\ queue[s] = <<>> /\ eventLog[s] = <<>>

\* q holds the presses from a + 1 on.
RunFrom(q, a) == \A i \in 1..Len(q) : q[i] = a + i

\* Of the presses up to the latest the first c have left the queue; those after
\* are in the queue, the worker's hand and the wire.
Feed(s, c) ==
  LET b == c + Len(queue[s])
      a == b + Len(hand[s])
      last == a + Len(wire[s])
  IN /\ RunFrom(queue[s], c)
     /\ RunFrom(hand[s], b)
     /\ RunFrom(wire[s], a)
     /\ last <= emitted
     /\ link[s] = "open" => last = emitted

\* What the page shows of them.
ShownUpTo(s, c) ==
  /\ \A i \in 1..Len(eventLog[s]) : eventLog[s][i] <= c + 1 - i
  /\ \A i \in 1..(Len(eventLog[s]) - 1) : eventLog[s][i] > eventLog[s][i + 1]
  /\ ~cut[s] /\ open[s] =>
       \A i \in 1..Len(eventLog[s]) : eventLog[s][i] = c + 1 - i

FeedInv == \A s \in Pages : \E c \in 0..emitted : Feed(s, c) /\ ShownUpTo(s, c)

\* The inductive invariant.
BridgeInv ==
  /\ TypeOK
  /\ LoopInv
  /\ UserInv
  /\ EarlyInv
  /\ FeedInv

-----------------------------------------------------------------------------
(* Users                                                                   *)

\* What changes only the streams leaves the users alone.
LEMMA StreamsLeaveUsers ==
  ASSUME Emit \/ Wedge \/ DaemonStarts \/ \E s \in Pages : StreamStep(s)
  PROVE  UNCHANGED userVars
<1>1. CASE Emit \/ Wedge \/ DaemonStarts
  BY <1>1 DEF Emit, Wedge, DaemonStarts
<1>2. ASSUME NEW s \in Pages, StreamStep(s)
      PROVE  UNCHANGED userVars
  BY <1>2 DEF StreamStep, Subscribe, Connect, Check, Read, PollEnds, Push, WorkerEnds, OpenStream,
     Pull, Deliver, KeepAlive, Leave, Drop, Joined, streamVars
<1> QED BY <1>1, <1>2

\* What a user does, or others to the table, leaves the streams alone.
LEMMA UsersLeaveStreams ==
  ASSUME Override \/ \E u \in Users : UserStep(u)
  PROVE  UNCHANGED streamVars
BY DEF Override, UserStep, Post, Handle, Dial, Answer, GiveUp, Continue, Serve

LEMMA UserStepKeeps ==
  ASSUME TypeOK, UserInv, NEW u \in Users, UserStep(u)
  PROVE  UserInv'
<1> USE DEF TypeOK, UserInv, Kinds, tableVars
<1>1. CASE Post(u)
  BY <1>1 DEF Post
<1>2. CASE Handle(u)
  BY <1>2 DEF Handle
<1>3. CASE Dial(u)
  <2>1. CASE UNCHANGED job
    BY <1>3, <2>1 DEF Dial
  <2>2. CASE job' = [job EXCEPT ![u][asks[u]] = "asked"]
    <3>1. \A v \in Users, k \in Kinds :
            job'[v][k] = IF v = u /\ k = asks[u] THEN "asked" ELSE job[v][k]
      BY <2>2
    <3>2. \A v \in Users \ {u} : phase'[v] = phase[v]
      BY <1>3 DEF Dial
    <3>3. phase[u] = "connecting" /\ phase'[u] \in {"asking", "error"}
      BY <1>3 DEF Dial
    <3> QED BY <1>3, <3>1, <3>2, <3>3 DEF Dial
  <2> QED BY <1>3, <2>1, <2>2 DEF Dial
<1>4. CASE Answer(u)
  BY <1>4 DEF Answer, HasAnswer
<1>5. CASE GiveUp(u)
  BY <1>5 DEF GiveUp
<1>6. CASE Continue(u)
  BY <1>6 DEF Continue, AfterAnswer
<1>7. ASSUME NEW k \in Kinds, Serve(u, k)
      PROVE  UserInv'
  <2>1. \A v \in Users, i \in Kinds : job'[v][i] = IF v = u /\ i = k THEN "done" ELSE job[v][i]
    BY <1>7 DEF Serve
  <2>2. CASE k = "change"
    <3>1. table' = table \cup {u} /\ UNCHANGED <<phase, asks, result, shown, undone>>
      BY <1>7, <2>2 DEF Serve
    <3>2. job[u]["change"] = "asked"
      BY <1>7, <2>2 DEF Serve
    <3> QED BY <2>1, <2>2, <3>1, <3>2
  <2>3. CASE k = "read"
    <3>1. UNCHANGED <<table, phase, asks, shown, undone>>
      BY <1>7, <2>3 DEF Serve
    <3>2. job[u]["read"] = "asked" /\ \A v \in Users : result'[v] = IF v = u THEN table ELSE result[v]
      BY <1>7, <2>3 DEF Serve
    <3> QED BY <2>1, <2>3, <3>1, <3>2
  <2> QED BY <2>2, <2>3
<1> QED BY <1>1, <1>2, <1>3, <1>4, <1>5, <1>6, <1>7 DEF UserStep

\* What others undo, or the daemon takes with it, is accounted for.
LEMMA TableLossKeeps ==
  ASSUME TypeOK, UserInv, NEW binds, Forget(binds),
         UNCHANGED <<phase, asks, result, shown>>,
         \A u \in Users, k \in Kinds :
           job'[u][k] = job[u][k] \/ (job[u][k] = "asked" /\ job'[u][k] = "lost")
  PROVE  UserInv'
<1> SUFFICES ASSUME NEW u \in Users
             PROVE  /\ phase[u] \in {"queued", "connecting"} => job'[u][asks[u]] = "none"
                    /\ phase[u] = "ok" => job'[u][asks[u]] = "done"
                    /\ asks[u] = "read" => job'[u]["change"] = "done"
                    /\ job'[u]["read"] # "none" => asks[u] = "read"
                    /\ job'[u]["change"] # "done" => u \notin table' /\ u \notin undone'
                    /\ job'[u]["change"] = "done" /\ job'[u]["read"] # "done" =>
                         (u \in table' <=> u \notin undone')
                    /\ job'[u]["read"] = "done" => (u \in result[u] <=> u \notin undone')
                    /\ phase[u] = "none" /\ asks[u] = "read" =>
                         job'[u]["read"] = "done" /\ (u \in shown[u] <=> u \notin undone')
  BY DEF UserInv
<1>1. asks[u] \in Kinds /\ {"change", "read"} = Kinds
  BY DEF TypeOK, Kinds
<1>2. \A k \in Kinds : job'[u][k] = job[u][k] \/ (job[u][k] = "asked" /\ job'[u][k] = "lost")
  OBVIOUS
<1>3. /\ u \in table' <=> u \in table /\ u \notin binds
      /\ u \in undone' <=> u \in undone \/ (u \in table /\ u \in binds /\ job[u]["read"] # "done")
  BY DEF Forget
<1> QED BY <1>1, <1>2, <1>3 DEF UserInv

LEMMA UserInvStep ==
  ASSUME TypeOK, UserInv, [Next]_vars
  PROVE  UserInv'
<1>1. CASE UNCHANGED userVars
  BY <1>1 DEF UserInv, userVars, tableVars
<1>2. CASE Emit \/ Wedge \/ DaemonStarts \/ \E s \in Pages : StreamStep(s)
  BY <1>1, <1>2, StreamsLeaveUsers
<1>3. CASE Override
  <2>1. PICK binds \in SUBSET table : Forget(binds)
    BY <1>3 DEF Override
  <2>2. UNCHANGED <<phase, asks, job, result, shown>>
    BY <1>3 DEF Override
  <2> QED BY <2>1, <2>2, TableLossKeeps
<1>4. CASE DaemonEnds
  <2>1. Forget(table) /\ UNCHANGED <<phase, asks, result, shown>>
    BY <1>4 DEF DaemonEnds
  <2>2. \A u \in Users, k \in Kinds :
          job'[u][k] = job[u][k] \/ (job[u][k] = "asked" /\ job'[u][k] = "lost")
    BY <1>4 DEF DaemonEnds
  <2> QED BY <2>1, <2>2, TableLossKeeps
<1>5. CASE \E u \in Users : UserStep(u)
  BY <1>5, UserStepKeeps
<1>6. CASE UNCHANGED vars
  BY <1>1, <1>6 DEF vars
<1> QED BY <1>2, <1>3, <1>4, <1>5, <1>6 DEF Next

-----------------------------------------------------------------------------
(* Loops                                                                   *)

LEMMA LoopInvStep ==
  ASSUME TypeOK, LoopInv, [Next]_vars
  PROVE  LoopInv'
<1> USE BridgeAssumption DEF TypeOK, LoopInv, daemonVars, feedVars, pageVars, streamVars, userVars, loopVars
<1>1. CASE Emit
  BY <1>1 DEF Emit
<1>2. CASE DaemonEnds
  BY <1>2 DEF DaemonEnds
<1>3. CASE DaemonStarts \/ Wedge \/ Override
  BY <1>3 DEF DaemonStarts, Wedge, Override
<1>4. ASSUME NEW s \in Pages, StreamStep(s)
      PROVE  LoopInv'
  <2>1. CASE Subscribe(s)
    BY <2>1 DEF Subscribe
  <2>2. CASE Connect(s)
    BY <2>2 DEF Connect
  <2>3. CASE Check(s) \/ Read(s) \/ PollEnds(s)
    BY <2>3 DEF Check, Read, PollEnds
  <2>4. CASE Push(s)
    BY <2>4 DEF Push
  <2>5. CASE WorkerEnds(s)
    BY <2>5 DEF WorkerEnds
  <2>6. CASE OpenStream(s)
    BY <2>6, SMTT(30) DEF OpenStream
  <2>7. CASE Pull(s)
    BY <2>7 DEF Pull
  <2>8. CASE Deliver(s)
    <3>1. /\ busy' = [busy EXCEPT ![loop[s]] = "free"]
          /\ UNCHANGED <<loop, stream, open, phase>>
          /\ stream[s] = "live" /\ busy[loop[s]] = s
      BY <2>8 DEF Deliver
    <3>2. /\ loop[s] \in Loops
          /\ \A l \in Loops : busy'[l] = IF l = loop[s] THEN "free" ELSE busy[l]
      BY <3>1
    <3>3. \A x \in Pages \cup Users : x # s /\ loop[x] \in Loops /\ busy[loop[x]] = x =>
            busy'[loop[x]] = x
      BY <3>1, <3>2
    <3>4. \A x \in Pages \cup Users, l \in Loops : busy'[l] = x => busy[l] = x
      BY <3>2
    <3>a. \A u \in Users : u # s /\ u \in Pages \cup Users
      OBVIOUS
    <3>b. \A u \in Users : phase[u] \in {"connecting", "asking"} => loop[u] \in Loops /\ busy[loop[u]] = u
      OBVIOUS
    <3>c. \A u \in Users, l \in Loops : busy[l] = u => phase[u] \in {"connecting", "asking"}
      OBVIOUS
    <3>5. \A u \in Users :
            /\ phase[u] = "queued" => loop[u] \in Loops
            /\ phase[u] \in {"connecting", "asking"} => loop[u] \in Loops /\ busy'[loop[u]] = u
            /\ \A l \in Loops : busy'[l] = u => phase[u] \in {"connecting", "asking"}
      BY <3>3, <3>4, <3>a, <3>b, <3>c
    <3>6. \A r \in Pages :
            /\ stream[r] = "live" => loop[r] \in Loops
            /\ stream[r] = "joining" => loop[r] \in Loops /\ busy'[loop[r]] = r /\ ~open[r]
            /\ \A l \in Loops : busy'[l] = r => stream[r] \in {"live", "joining"}
      BY <3>1, <3>3, <3>4
    <3> QED BY <3>1, <3>5, <3>6
  <2>9. CASE KeepAlive(s)
    BY <2>9, SMTT(30) DEF KeepAlive
  <2>10. CASE Leave(s)
    BY <2>10 DEF Leave
  <2>11. CASE Drop(s)
    BY <2>11, SMTT(30) DEF Drop
  <2>12. CASE Joined(s)
    BY <2>12, SMTT(30) DEF Joined
  <2> QED BY <1>4, <2>1, <2>2, <2>3, <2>4, <2>5, <2>6, <2>7, <2>8, <2>9, <2>10, <2>11, <2>12 DEF StreamStep
<1>5. ASSUME NEW u \in Users, UserStep(u)
      PROVE  LoopInv'
  <2>1. CASE Post(u)
    BY <2>1 DEF Post
  <2>2. CASE Handle(u)
    BY <2>2, SMTT(30) DEF Handle
  <2>3. CASE Dial(u)
    <3>1. phase[u] = "connecting" /\ UNCHANGED <<loop, stream, open>>
      BY <2>3 DEF Dial
    <3>2. CASE phase' = [phase EXCEPT ![u] = "asking"] /\ UNCHANGED busy
      BY <3>1, <3>2
    <3>3. CASE phase' = [phase EXCEPT ![u] = "error"] /\ busy' = [busy EXCEPT ![loop[u]] = "free"]
      BY <3>1, <3>3, SMTT(30)
    <3> QED BY <2>3, <3>2, <3>3 DEF Dial
  <2>4. CASE Answer(u)
    BY <2>4, SMTT(30) DEF Answer
  <2>5. CASE GiveUp(u)
    BY <2>5, SMTT(30) DEF GiveUp
  <2>6. CASE Continue(u)
    BY <2>6 DEF Continue, AfterAnswer
  <2>7. ASSUME NEW k \in Kinds, Serve(u, k)
        PROVE  LoopInv'
    BY <2>7 DEF Serve
  <2> QED BY <1>5, <2>1, <2>2, <2>3, <2>4, <2>5, <2>6, <2>7 DEF UserStep
<1>6. CASE UNCHANGED vars
  BY <1>6 DEF vars
<1> QED BY <1>1, <1>2, <1>3, <1>4, <1>5, <1>6 DEF Next

-----------------------------------------------------------------------------
(* Before the daemon answers                                               *)

LEMMA EarlyInvStep ==
  ASSUME TypeOK, EarlyInv, [Next]_vars
  PROVE  EarlyInv'
<1> USE BridgeAssumption DEF TypeOK, EarlyInv, daemonVars, feedVars, pageVars, streamVars
<1>1. CASE Emit
  BY <1>1 DEF Emit
<1>2. CASE DaemonEnds
  BY <1>2 DEF DaemonEnds
<1>3. CASE DaemonStarts \/ Wedge \/ Override
  BY <1>3 DEF DaemonStarts, Wedge, Override
<1>4. ASSUME NEW s \in Pages, StreamStep(s)
      PROVE  EarlyInv'
  <2>1. CASE Subscribe(s)
    BY <2>1 DEF Subscribe
  <2>2. CASE Connect(s)
    BY <2>2, SMTT(30) DEF Connect
  <2>3. CASE Read(s)
    <3>1. /\ worker[s] = "polling" /\ wire[s] # <<>>
          /\ UNCHANGED <<link, stream, queue, eventLog>>
          /\ worker' = [worker EXCEPT ![s] = "checking"]
      BY <2>3 DEF Read
    <3>2. \A r \in Pages \ {s} : wire'[r] = wire[r] /\ hand'[r] = hand[r]
      BY <2>3 DEF Read
    <3>3. link[s] # "asked"
      BY <3>1
    <3> QED BY <3>1, <3>2, <3>3, SMTT(30)
  <2>a. CASE Check(s) \/ PollEnds(s)
    <3>1. /\ worker[s] \in {"checking", "polling"} /\ worker'[s] \in {"checking", "polling"}
          /\ hand[s] = <<>>
          /\ \A r \in Pages \ {s} : worker'[r] = worker[r]
          /\ UNCHANGED <<stream, link, wire, hand, queue, eventLog>>
      BY <2>a DEF Check, PollEnds
    <3> QED BY <3>1
  <2>4. CASE Push(s)
    BY <2>4, SMTT(30) DEF Push
  <2>5. CASE WorkerEnds(s)
    BY <2>5 DEF WorkerEnds
  <2>6. CASE OpenStream(s)
    BY <2>6 DEF OpenStream
  <2>7. CASE Pull(s)
    BY <2>7 DEF Pull
  <2>8. CASE Deliver(s)
    BY <2>8, SMTT(30) DEF Deliver
  <2>9. CASE KeepAlive(s)
    BY <2>9 DEF KeepAlive
  <2>10. CASE Leave(s)
    BY <2>10 DEF Leave
  <2>11. CASE Drop(s)
    BY <2>11 DEF Drop
  <2>12. CASE Joined(s)
    BY <2>12 DEF Joined
  <2> QED BY <1>4, <2>1, <2>2, <2>3, <2>4, <2>5, <2>6, <2>7, <2>8, <2>9, <2>10, <2>11, <2>12, <2>a DEF StreamStep
<1>5. ASSUME NEW u \in Users, UserStep(u)
      PROVE  EarlyInv'
  BY <1>5, UsersLeaveStreams
<1>6. CASE UNCHANGED vars
  BY <1>6 DEF vars
<1> QED BY <1>1, <1>2, <1>3, <1>4, <1>5, <1>6 DEF Next

-----------------------------------------------------------------------------
(* Sequences of lines                                                      *)

LEMMA LinesAreNumbers == Lines \subseteq Nat
BY BridgeAssumption DEF Lines

LEMMA AppendLine ==
  ASSUME NEW q \in Seq(Nat), NEW a \in Nat, RunFrom(q, a), NEW n \in Nat, Len(q) = n
  PROVE  RunFrom(Append(q, a + n + 1), a)
<1> DEFINE e == a + n + 1
<1>1. /\ Len(Append(q, e)) = Len(q) + 1
      /\ \A i \in 1..Len(q) : Append(q, e)[i] = q[i]
      /\ Append(q, e)[Len(q) + 1] = e
  OBVIOUS
<1>2. \A i \in 1..(Len(q) + 1) : i \in 1..Len(q) \/ i = Len(q) + 1
  OBVIOUS
<1>3. \A i \in 1..(Len(q) + 1) : Append(q, e)[i] = a + i
  <2> TAKE i \in 1..(Len(q) + 1)
  <2>1. CASE i \in 1..Len(q)
    BY <1>1, <2>1 DEF RunFrom
  <2>2. CASE i = Len(q) + 1
    <3>1. Append(q, e)[i] = e
      BY <1>1, <2>2
    <3>2. e = a + i
      BY <2>2
    <3> QED BY <3>1, <3>2
  <2> QED BY <1>2, <2>1, <2>2
<1> QED BY <1>1, <1>3 DEF RunFrom

LEMMA TakeFirst ==
  ASSUME NEW S \in SUBSET Nat, NEW q \in Seq(S), q # <<>>
  PROVE  /\ Tail(q) \in Seq(S)
         /\ Len(Tail(q)) = Len(q) - 1 /\ Len(Tail(q)) \in Nat
         /\ Head(q) \in S
         /\ \A a \in Nat : RunFrom(q, a) => Head(q) = a + 1 /\ RunFrom(Tail(q), a + 1)
BY DEF RunFrom

LEMMA SplitLines ==
  ASSUME NEW S \in SUBSET Nat, NEW q \in Seq(S), NEW n \in 1..Len(q)
  PROVE  /\ SubSeq(q, 1, n) \in Seq(S)
         /\ SubSeq(q, n + 1, Len(q)) \in Seq(S)
         /\ Len(SubSeq(q, 1, n)) = n
         /\ Len(SubSeq(q, n + 1, Len(q))) = Len(q) - n
         /\ \A a \in Nat : RunFrom(q, a) =>
              RunFrom(SubSeq(q, 1, n), a) /\ RunFrom(SubSeq(q, n + 1, Len(q)), a + n)
<1>1. /\ SubSeq(q, 1, n) \in Seq(S)
      /\ SubSeq(q, n + 1, Len(q)) \in Seq(S)
      /\ Len(SubSeq(q, 1, n)) = n
      /\ Len(SubSeq(q, n + 1, Len(q))) = Len(q) - n
      /\ \A i \in 1..n : SubSeq(q, 1, n)[i] = q[i]
      /\ \A i \in 1..(Len(q) - n) : SubSeq(q, n + 1, Len(q))[i] = q[n + i]
  OBVIOUS
<1> QED BY <1>1 DEF RunFrom

LEMMA LogTakes ==
  ASSUME NEW S \in SUBSET Nat, NEW log \in Seq(S), NEW e \in S
  PROVE  /\ Logged(log, e) \in Seq(S)
         /\ Len(Logged(log, e)) \in 1..LogSize
         /\ Len(Logged(log, e)) <= Len(log) + 1
         /\ Logged(log, e)[1] = e
         /\ \A i \in 2..Len(Logged(log, e)) : Logged(log, e)[i] = log[i - 1]
<1> DEFINE new == <<e>> \o log
           n == IF Len(new) > LogSize THEN LogSize ELSE Len(new)
<1>1. /\ new \in Seq(S)
      /\ Len(new) = Len(log) + 1
      /\ new[1] = e
      /\ \A i \in 2..Len(new) : new[i] = log[i - 1]
  OBVIOUS
<1>2. n \in 1..LogSize /\ n \in 1..Len(new)
  BY <1>1, BridgeAssumption
<1> HIDE DEF new, n
<1>3. /\ SubSeq(new, 1, n) \in Seq(S)
      /\ Len(SubSeq(new, 1, n)) = n
      /\ \A i \in 1..n : SubSeq(new, 1, n)[i] = new[i]
  BY <1>1, <1>2
<1>4. Logged(log, e) = SubSeq(new, 1, n)
  BY DEF Logged, new, n
<1> QED BY <1>1, <1>2, <1>3, <1>4

LEMMA PushedBounded ==
  ASSUME NEW S \in SUBSET Nat, NEW q \in Seq(S), Len(q) <= Cap + 1, NEW e \in S
  PROVE  Pushed(q, e) \in Seq(S) /\ Len(Pushed(q, e)) <= Cap + 1
<1>1. CASE Len(q) > Cap
  <2>1. Tail(q) \in Seq(S) /\ Len(Tail(q)) = Len(q) - 1
    BY <1>1, BridgeAssumption
  <2> QED BY <1>1, <2>1, BridgeAssumption DEF Pushed
<1>2. CASE ~(Len(q) > Cap)
  BY <1>2, BridgeAssumption DEF Pushed
<1> QED BY <1>1, <1>2

-----------------------------------------------------------------------------
(* Types                                                                   *)

\* The parts of TypeOK, by whose they are.
LoopTypes ==
  /\ busy \in [Loops -> {"free"} \cup Pages \cup Users]
  /\ loop \in [Pages \cup Users -> Loops \cup {NoLoop}]
  /\ \A l \in Loops : busy[l] # "free" => loop[busy[l]] = l

StreamTypes ==
  /\ up \in BOOLEAN
  /\ stuck \in BOOLEAN
  /\ emitted \in 0..MaxEvents
  /\ link \in [Pages -> {"none", "asked", "open", "eof"}]
  /\ worker \in [Pages -> {"none", "starting", "checking", "polling", "ended"}]
  /\ running \in [Pages -> BOOLEAN]
  /\ stream \in [Pages -> {"none", "live", "joining", "gone"}]
  /\ open \in [Pages -> BOOLEAN]
  /\ cut \in [Pages -> BOOLEAN]

LineTypes ==
  /\ {wire, hand, queue, eventLog} \subseteq [Pages -> Seq(Lines)]
  /\ \A s \in Pages :
       /\ Len(wire[s]) <= WireRoom
       /\ Len(queue[s]) <= Cap + 1
       /\ Len(eventLog[s]) <= LogSize

UserTypes ==
  /\ phase \in [Users -> {"none", "queued", "connecting", "asking", "ok", "error"}]
  /\ asks \in [Users -> Kinds]
  /\ job \in [Users -> [Kinds -> {"none", "asked", "done", "lost"}]]
  /\ {table, undone} \subseteq SUBSET Users
  /\ {result, shown} \subseteq [Users -> SUBSET Users]

LEMMA TypeParts == TypeOK <=> LoopTypes /\ StreamTypes /\ LineTypes /\ UserTypes
BY DEF TypeOK, LoopTypes, StreamTypes, LineTypes, UserTypes

LEMMA LoopTypesStep ==
  ASSUME TypeOK, LoopInv, [Next]_vars
  PROVE  LoopTypes'
<1> USE BridgeAssumption DEF TypeOK, LoopTypes, LoopInv, loopVars
<1>1. CASE UNCHANGED loopVars
  BY <1>1
<1>2. ASSUME NEW s \in Pages, StreamStep(s)
      PROVE  LoopTypes'
  <2>1. CASE Subscribe(s) \/ Connect(s) \/ Check(s) \/ Read(s) \/ PollEnds(s) \/ Push(s)
               \/ WorkerEnds(s) \/ Leave(s)
    BY <1>1, <2>1 DEF Subscribe, Connect, Check, Read, PollEnds, Push, WorkerEnds, Leave
  <2>2. CASE OpenStream(s)
    BY <2>2 DEF OpenStream
  <2>3. CASE Pull(s)
    BY <2>3 DEF Pull
  <2>4. CASE Deliver(s)
    <3>1. /\ busy' = [busy EXCEPT ![loop[s]] = "free"]
          /\ UNCHANGED loop
          /\ stream[s] = "live"
      BY <2>4 DEF Deliver
    <3> QED BY <3>1
  <2>5. CASE KeepAlive(s)
    BY <2>5 DEF KeepAlive
  <2>6. CASE Drop(s)
    BY <2>6 DEF Drop
  <2>7. CASE Joined(s)
    BY <2>7 DEF Joined
  <2> QED BY <1>2, <2>1, <2>2, <2>3, <2>4, <2>5, <2>6, <2>7 DEF StreamStep
<1>3. ASSUME NEW u \in Users, UserStep(u)
      PROVE  LoopTypes'
  <2>a. ASSUME UNCHANGED busy, \A x \in (Pages \cup Users) \ {u} : loop'[x] = loop[x],
               phase[u] \notin {"connecting", "asking"},
               loop' \in [Pages \cup Users -> Loops \cup {NoLoop}]
        PROVE  LoopTypes'
    <3>1. \A l \in Loops : busy[l] # u
      BY <2>a
    <3>2. \A l \in Loops : busy[l] # "free" => busy[l] \in (Pages \cup Users) \ {u}
      BY <3>1
    <3> QED BY <2>a, <3>2
  <2>1. CASE Post(u)
    BY <2>1, <2>a DEF Post
  <2>2. CASE Handle(u)
    <3>1. /\ busy' = [busy EXCEPT ![loop[u]] = u]
          /\ UNCHANGED loop
          /\ loop[u] \in Loops
      BY <2>2 DEF Handle
    <3>3. CASE busy' = [busy EXCEPT ![loop[u]] = u]
      <4>1. \A l \in Loops : busy'[l] = IF l = loop[u] THEN u ELSE busy[l]
        BY <3>3
      <4>a. \A l \in Loops : busy[l] # "free" => loop[busy[l]] = l
        OBVIOUS
      <4>2. ASSUME NEW l \in Loops, busy'[l] # "free"
            PROVE  loop[busy'[l]] = l
        <5>1. CASE l = loop[u]
          BY <4>1, <5>1
        <5>2. CASE l # loop[u]
          BY <4>1, <4>a, <4>2, <5>2
        <5> QED BY <5>1, <5>2
      <4>3. busy' \in [Loops -> {"free"} \cup Pages \cup Users]
        BY <3>3
      <4> QED BY <3>1, <4>2, <4>3
    <3> QED BY <3>1, <3>3
  <2>3. CASE Answer(u) \/ GiveUp(u) \/ Dial(u)
    <3>1. /\ busy' = [busy EXCEPT ![loop[u]] = "free"] \/ UNCHANGED busy
          /\ UNCHANGED loop
          /\ phase[u] \in {"connecting", "asking"}
      BY <2>3 DEF Answer, GiveUp, Dial
    <3>2. loop[u] \in Loops
      BY <3>1
    <3>3. \A l \in Loops : busy'[l] \in {"free", busy[l]}
      BY <3>1, <3>2
    <3>4. busy' \in [Loops -> {"free"} \cup Pages \cup Users]
      <4>1. busy \in [Loops -> {"free"} \cup Pages \cup Users]
        OBVIOUS
      <4>2. CASE busy' = [busy EXCEPT ![loop[u]] = "free"]
        BY <4>1, <4>2
      <4> QED BY <3>1, <4>1, <4>2
    <3> QED BY <3>1, <3>3, <3>4
  <2>4. CASE Continue(u)
    BY <2>4, <2>a DEF Continue
  <2>5. ASSUME NEW k \in Kinds, Serve(u, k)
        PROVE  LoopTypes'
    BY <1>1, <2>5 DEF Serve
  <2> QED BY <1>3, <2>1, <2>2, <2>3, <2>4, <2>5 DEF UserStep
<1>4. CASE Emit \/ Wedge \/ Override \/ DaemonEnds \/ DaemonStarts \/ UNCHANGED vars
  BY <1>1, <1>4 DEF Emit, Wedge, Override, DaemonEnds, DaemonStarts, vars
<1> QED BY <1>2, <1>3, <1>4 DEF Next

LEMMA StreamTypesStep ==
  ASSUME TypeOK, [Next]_vars
  PROVE  StreamTypes'
<1> USE BridgeAssumption DEF StreamTypes, daemonVars, feedVars, pageVars, streamVars
<1>0. StreamTypes
  BY TypeParts
<1>1. ASSUME NEW s \in Pages, StreamStep(s)
      PROVE  StreamTypes'
  <2>1. CASE Subscribe(s) \/ Connect(s) \/ Check(s) \/ Read(s) \/ PollEnds(s) \/ WorkerEnds(s)
    BY <1>0, <2>1 DEF Subscribe, Connect, Check, Read, PollEnds, WorkerEnds
  <2>2. CASE Push(s)
    <3>1. cut' \in [Pages -> BOOLEAN]
      <4>1. (cut[s] \/ Len(queue[s]) > Cap) \in BOOLEAN
        OBVIOUS
      <4>2. cut' = [cut EXCEPT ![s] = cut[s] \/ Len(queue[s]) > Cap]
        BY <2>2 DEF Push
      <4> QED BY <1>0, <4>1, <4>2, Zenon
    <3> QED BY <1>0, <2>2, <3>1 DEF Push
  <2>3. CASE OpenStream(s) \/ Pull(s) \/ KeepAlive(s)
    BY <1>0, <2>3 DEF OpenStream, Pull, KeepAlive
  <2>4. CASE Deliver(s)
    BY <1>0, <2>4 DEF Deliver
  <2>5. CASE Leave(s) \/ Drop(s) \/ Joined(s)
    BY <1>0, <2>5 DEF Leave, Drop, Joined
  <2> QED BY <1>1, <2>1, <2>2, <2>3, <2>4, <2>5 DEF StreamStep
<1>2. CASE Emit
  BY <1>0, <1>2 DEF Emit
<1>3. CASE Wedge \/ DaemonEnds \/ DaemonStarts
  BY <1>0, <1>3 DEF Wedge, DaemonEnds, DaemonStarts
<1>4. ASSUME Override \/ \E u \in Users : UserStep(u)
      PROVE  StreamTypes'
  BY <1>0, <1>4, UsersLeaveStreams
<1>5. CASE UNCHANGED vars
  BY <1>0, <1>5 DEF vars
<1> QED BY <1>1, <1>2, <1>3, <1>4, <1>5 DEF Next

LEMMA LineTypesStep ==
  ASSUME TypeOK, [Next]_vars
  PROVE  LineTypes'
<1> DEFINE linesOf == <<wire, hand, queue, eventLog>>
<1> USE BridgeAssumption DEF LineTypes
<1>0. LineTypes /\ emitted \in 0..MaxEvents /\ Lines \in SUBSET Nat
  BY TypeParts, LinesAreNumbers DEF TypeOK
<1>1. CASE UNCHANGED linesOf
  BY <1>0, <1>1
<1>2. CASE Emit
  <2>1. emitted + 1 \in Lines
    BY <1>0, <1>2 DEF Emit, Lines
  <2>2. \A s \in Pages : link[s] = "open" =>
          Append(wire[s], emitted + 1) \in Seq(Lines)
          /\ Len(Append(wire[s], emitted + 1)) <= WireRoom
    BY <1>0, <1>2, <2>1 DEF Emit
  <2> QED BY <1>0, <1>2, <2>2 DEF Emit, pageVars
<1>3. ASSUME NEW s \in Pages, StreamStep(s)
      PROVE  LineTypes'
  <2>1. CASE Subscribe(s) \/ Connect(s) \/ Check(s) \/ PollEnds(s) \/ OpenStream(s) \/ Pull(s)
               \/ KeepAlive(s) \/ Leave(s) \/ Drop(s)
    BY <1>1, <2>1 DEF Subscribe, Connect, Check, PollEnds, OpenStream, Pull, KeepAlive, Leave, Drop,
       streamVars, feedVars, pageVars
  <2>2. CASE Read(s)
    <3> PICK n \in 1..Len(wire[s]) :
          /\ hand' = [hand EXCEPT ![s] = SubSeq(wire[s], 1, n)]
          /\ wire' = [wire EXCEPT ![s] = SubSeq(wire[s], n + 1, Len(wire[s]))]
      BY <2>2 DEF Read
    <3>1. /\ SubSeq(wire[s], 1, n) \in Seq(Lines)
          /\ SubSeq(wire[s], n + 1, Len(wire[s])) \in Seq(Lines)
          /\ Len(SubSeq(wire[s], n + 1, Len(wire[s]))) <= WireRoom
      <4>1. wire[s] \in Seq(Lines) /\ Len(wire[s]) <= WireRoom /\ Len(wire[s]) \in Nat
        BY <1>0
      <4> QED BY <4>1, <1>0, SplitLines
    <3>2. UNCHANGED <<queue, eventLog>>
      BY <2>2 DEF Read, pageVars
    <3>3. /\ hand' \in [Pages -> Seq(Lines)]
          /\ wire' \in [Pages -> Seq(Lines)]
      BY <1>0, <3>1
    <3>4. \A r \in Pages : Len(wire'[r]) <= WireRoom
      BY <1>0, <3>1
    <3> QED BY <1>0, <3>2, <3>3, <3>4
  <2>3. CASE Push(s)
    <3>1. queue[s] \in Seq(Lines) /\ Len(queue[s]) <= Cap + 1 /\ hand[s] \in Seq(Lines) /\ hand[s] # <<>>
      BY <1>0, <2>3 DEF Push
    <3>2. Head(hand[s]) \in Lines /\ Tail(hand[s]) \in Seq(Lines)
      BY <1>0, <3>1, TakeFirst
    <3>3. Pushed(queue[s], Head(hand[s])) \in Seq(Lines)
          /\ Len(Pushed(queue[s], Head(hand[s]))) <= Cap + 1
      BY <1>0, <3>1, <3>2, PushedBounded
    <3> QED BY <1>0, <2>3, <3>2, <3>3, SMTT(30) DEF Push
  <2>4. CASE WorkerEnds(s)
    BY <1>0, <2>4 DEF WorkerEnds, pageVars
  <2>5. CASE Deliver(s)
    <3>1. queue[s] \in Seq(Lines) /\ queue[s] # <<>> /\ eventLog[s] \in Seq(Lines)
      BY <1>0, <2>5 DEF Deliver
    <3>2. Head(queue[s]) \in Lines /\ Tail(queue[s]) \in Seq(Lines) /\ Len(Tail(queue[s])) = Len(queue[s]) - 1
      BY <1>0, <3>1, TakeFirst
    <3>3. Logged(eventLog[s], Head(queue[s])) \in Seq(Lines)
          /\ Len(Logged(eventLog[s], Head(queue[s]))) \in 1..LogSize
      BY <1>0, <3>1, <3>2, LogTakes
    <3>4. Len(queue[s]) \in Nat /\ Len(Tail(queue[s])) <= Cap + 1
      BY <1>0, <3>1, <3>2
    <3>5. Len(Logged(eventLog[s], Head(queue[s]))) <= LogSize
      BY <3>3
    <3> QED BY <1>0, <2>5, <3>2, <3>3, <3>4, <3>5, SMTT(30) DEF Deliver, feedVars
  <2>6. CASE Joined(s)
    BY <1>0, <2>6, SMTT(30) DEF Joined, feedVars
  <2> QED BY <1>3, <2>1, <2>2, <2>3, <2>4, <2>5, <2>6 DEF StreamStep
<1>4. CASE Wedge \/ DaemonEnds \/ DaemonStarts \/ UNCHANGED vars
  BY <1>1, <1>4 DEF Wedge, DaemonEnds, DaemonStarts, vars, streamVars, feedVars, pageVars
<1>5. ASSUME Override \/ \E u \in Users : UserStep(u)
      PROVE  LineTypes'
  BY <1>1, <1>5, UsersLeaveStreams DEF streamVars, feedVars, pageVars
<1> QED BY <1>2, <1>3, <1>4, <1>5 DEF Next

LEMMA UserTypesStep ==
  ASSUME TypeOK, [Next]_vars
  PROVE  UserTypes'
<1> USE DEF UserTypes, Kinds, tableVars
<1>0. UserTypes
  BY TypeParts
<1>1. CASE UNCHANGED userVars
  BY <1>0, <1>1 DEF userVars
<1>2. ASSUME NEW u \in Users, UserStep(u)
      PROVE  UserTypes'
  <2>1. CASE Post(u) \/ Handle(u) \/ Answer(u) \/ GiveUp(u)
    BY <1>0, <2>1 DEF Post, Handle, Answer, GiveUp
  <2>2. CASE Dial(u)
    <3>1. job' \in [Users -> [Kinds -> {"none", "asked", "done", "lost"}]]
      <4>1. asks[u] \in Kinds /\ job[u] \in [Kinds -> {"none", "asked", "done", "lost"}]
        BY <1>0
      <4>2. [job[u] EXCEPT ![asks[u]] = "asked"] \in [Kinds -> {"none", "asked", "done", "lost"}]
        BY <4>1
      <4>3. job' = job \/ job' = [job EXCEPT ![u] = [job[u] EXCEPT ![asks[u]] = "asked"]]
        BY <2>2 DEF Dial
      <4> QED BY <1>0, <4>2, <4>3
    <3> QED BY <1>0, <2>2, <3>1 DEF Dial
  <2>3. CASE Continue(u)
    BY <1>0, <2>3 DEF Continue, AfterAnswer
  <2>4. ASSUME NEW k \in Kinds, Serve(u, k)
        PROVE  UserTypes'
    BY <1>0, <2>4 DEF Serve
  <2> QED BY <1>2, <2>1, <2>2, <2>3, <2>4 DEF UserStep
<1>3. CASE Emit \/ Wedge \/ DaemonStarts \/ \E s \in Pages : StreamStep(s)
  BY <1>1, <1>3, StreamsLeaveUsers
<1>4. CASE Override \/ DaemonEnds
  <2>1. /\ table' \in SUBSET Users /\ undone' \in SUBSET Users
        /\ UNCHANGED <<phase, asks, result, shown>>
    BY <1>0, <1>4 DEF Override, DaemonEnds, Forget
  <2>2. job' \in [Users -> [Kinds -> {"none", "asked", "done", "lost"}]]
    BY <1>0, <1>4 DEF Override, DaemonEnds
  <2> QED BY <1>0, <2>1, <2>2
<1>5. CASE UNCHANGED vars
  BY <1>1, <1>5 DEF vars
<1> QED BY <1>2, <1>3, <1>4, <1>5 DEF Next

-----------------------------------------------------------------------------
(* Where the presses are                                                   *)

LEMMA SeqGrows ==
  ASSUME NEW S, NEW T, S \subseteq T, NEW q \in Seq(S)
  PROVE  q \in Seq(T)
<1>1. Len(q) \in Nat /\ q \in [1..Len(q) -> S]
  OBVIOUS
<1>2. q \in [1..Len(q) -> T]
  BY <1>1
<1> QED BY <1>1, <1>2

LEMMA PagesTyped ==
  ASSUME TypeOK
  PROVE  /\ wire \in [Pages -> Seq(Lines)] /\ hand \in [Pages -> Seq(Lines)]
         /\ queue \in [Pages -> Seq(Lines)] /\ eventLog \in [Pages -> Seq(Lines)]
         /\ link \in [Pages -> {"none", "asked", "open", "eof"}]
         /\ cut \in [Pages -> BOOLEAN]
BY DEF TypeOK

LEMMA LinesTyped ==
  ASSUME TypeOK, NEW s \in Pages
  PROVE  /\ wire[s] \in Seq(Nat) /\ hand[s] \in Seq(Nat) /\ queue[s] \in Seq(Nat) /\ eventLog[s] \in Seq(Nat)
         /\ Len(wire[s]) \in Nat /\ Len(hand[s]) \in Nat /\ Len(queue[s]) \in Nat /\ Len(eventLog[s]) \in Nat
         /\ emitted \in Nat
<1>1. /\ wire[s] \in Seq(Lines) /\ hand[s] \in Seq(Lines)
      /\ queue[s] \in Seq(Lines) /\ eventLog[s] \in Seq(Lines)
  BY DEF TypeOK
<1>2. /\ wire[s] \in Seq(Nat) /\ hand[s] \in Seq(Nat)
      /\ queue[s] \in Seq(Nat) /\ eventLog[s] \in Seq(Nat)
  BY <1>1, LinesAreNumbers, SeqGrows
<1>3. emitted \in Nat
  BY BridgeAssumption DEF TypeOK
<1> QED BY <1>2, <1>3

\* Feed with names for the lengths.
Lengths(s, q, h, w) ==
  Len(queue[s]) = q /\ Len(hand[s]) = h /\ Len(wire[s]) = w

FeedOf(s, c, q, h, w) ==
  /\ RunFrom(queue[s], c)
  /\ RunFrom(hand[s], c + q)
  /\ RunFrom(wire[s], c + q + h)
  /\ c + q + h + w <= emitted
  /\ link[s] = "open" => c + q + h + w = emitted

LEMMA FeedLengths ==
  ASSUME NEW s \in Pages, NEW c \in Nat, NEW q, NEW h, NEW w, Lengths(s, q, h, w)
  PROVE  Feed(s, c) <=> FeedOf(s, c, q, h, w)
BY DEF Feed, FeedOf, Lengths

LEMMA FeedLengthsNext ==
  ASSUME NEW s \in Pages, NEW c \in Nat, NEW q, NEW h, NEW w, Lengths(s, q, h, w)'
  PROVE  Feed(s, c)' <=> FeedOf(s, c, q, h, w)'
BY DEF Feed, FeedOf, Lengths

LEMMA FeedNow ==
  ASSUME TypeOK, FeedInv, NEW s \in Pages
  PROVE  \E c \in Nat, q \in Nat, h \in Nat, w \in Nat :
           Lengths(s, q, h, w) /\ FeedOf(s, c, q, h, w) /\ ShownUpTo(s, c)
<1> PICK c \in 0..emitted : Feed(s, c) /\ ShownUpTo(s, c)
  BY DEF FeedInv
<1>1. /\ Len(queue[s]) \in Nat /\ Len(hand[s]) \in Nat /\ Len(wire[s]) \in Nat
      /\ c \in Nat
  BY LinesTyped
<1>2. Lengths(s, Len(queue[s]), Len(hand[s]), Len(wire[s]))
  BY DEF Lengths
<1>3. FeedOf(s, c, Len(queue[s]), Len(hand[s]), Len(wire[s]))
  BY <1>1, <1>2, FeedLengths
<1> QED BY <1>1, <1>2, <1>3

\* A count that fits is one that FeedInv asks for.
LEMMA FeedThen ==
  ASSUME TypeOK', NEW s \in Pages, NEW c \in Nat, NEW q \in Nat, NEW h \in Nat, NEW w \in Nat,
         Lengths(s, q, h, w)', FeedOf(s, c, q, h, w)', ShownUpTo(s, c)'
  PROVE  (\E d \in 0..emitted : Feed(s, d) /\ ShownUpTo(s, d))'
<1>1. emitted' \in Nat
  BY BridgeAssumption DEF TypeOK
<1>2. c + q + h + w <= emitted'
  BY DEF FeedOf
<1>3. c \in 0..emitted'
  BY <1>1, <1>2
<1>4. Feed(s, c)'
  BY FeedLengthsNext
<1> QED BY <1>3, <1>4

\* It is enough to look at the page of a step.
LEMMA FeedOfOthers ==
  ASSUME FeedInv, NEW s \in Pages, UNCHANGED emitted,
         \A r \in Pages \ {s} :
           UNCHANGED <<wire[r], hand[r], queue[r], eventLog[r], cut[r], open[r], link[r]>>,
         (\E c \in 0..emitted : Feed(s, c) /\ ShownUpTo(s, c))'
  PROVE  FeedInv'
<1> SUFFICES ASSUME NEW r \in Pages \ {s}
             PROVE  (\E c \in 0..emitted : Feed(r, c) /\ ShownUpTo(r, c))'
  BY DEF FeedInv
<1> PICK c \in 0..emitted : Feed(r, c) /\ ShownUpTo(r, c)
  BY DEF FeedInv
<1>1. Feed(r, c)' /\ ShownUpTo(r, c)'
  BY ZenonT(60) DEF Feed, ShownUpTo, RunFrom
<1> QED BY <1>1

LEMMA FeedEmit ==
  ASSUME TypeOK, TypeOK', FeedInv, Emit
  PROVE  FeedInv'
<1> SUFFICES ASSUME NEW s \in Pages
             PROVE  (\E c \in 0..emitted : Feed(s, c) /\ ShownUpTo(s, c))'
  BY DEF FeedInv
<1> PICK c \in Nat, q \in Nat, h \in Nat, w \in Nat :
      Lengths(s, q, h, w) /\ FeedOf(s, c, q, h, w) /\ ShownUpTo(s, c)
  BY FeedNow
<1>0. /\ emitted' = emitted + 1 /\ emitted \in Nat
      /\ UNCHANGED <<link, hand, queue, eventLog, cut, open>>
      /\ wire'[s] = IF link[s] = "open" THEN Append(wire[s], emitted + 1) ELSE wire[s]
      /\ wire[s] \in Seq(Nat)
  BY LinesTyped DEF Emit, TypeOK, pageVars
<1>1. ShownUpTo(s, c)'
  BY <1>0 DEF ShownUpTo
<1>2. CASE link[s] # "open"
  <2>1. Lengths(s, q, h, w)'
    BY <1>0, <1>2 DEF Lengths
  <2>2. FeedOf(s, c, q, h, w)'
    BY <1>0, <1>2 DEF FeedOf, RunFrom
  <2> QED BY <1>1, <2>1, <2>2, FeedThen
<1>3. CASE link[s] = "open"
  <2>1. Lengths(s, q, h, w + 1)'
    BY <1>0, <1>3 DEF Lengths
  <2>2. emitted + 1 = c + q + h + w + 1 /\ Len(wire[s]) = w
    BY <1>3 DEF FeedOf, Lengths
  <2>3. RunFrom(wire[s], c + q + h) /\ c + q + h \in Nat
    BY DEF FeedOf
  <2>4. RunFrom(wire'[s], c + q + h)
    BY <1>0, <1>3, <2>2, <2>3, AppendLine
  <2>5. c + q + h + (w + 1) = emitted'
    BY <1>0, <1>3 DEF FeedOf
  <2>6. RunFrom(queue'[s], c) /\ RunFrom(hand'[s], c + q)
    BY <1>0 DEF FeedOf
  <2>7. c + q + h + (w + 1) <= emitted'
    BY <1>0, <2>5
  <2>8. FeedOf(s, c, q, h, w + 1)'
    BY <2>4, <2>5, <2>6, <2>7 DEF FeedOf, RunFrom
  <2> QED BY <1>1, <2>1, <2>8, FeedThen
<1> QED BY <1>2, <1>3

\* A step of a page that moves no line.
LEMMA FeedStays ==
  ASSUME TypeOK, TypeOK', FeedInv, UNCHANGED <<emitted, wire, hand, queue, eventLog, cut>>,
         \A r \in Pages : open'[r] => open[r],
         \A r \in Pages : link'[r] = "open" => link[r] = "open"
  PROVE  FeedInv'
<1> SUFFICES ASSUME NEW r \in Pages
             PROVE  (\E c \in 0..emitted : Feed(r, c) /\ ShownUpTo(r, c))'
  BY DEF FeedInv
<1> PICK c \in 0..emitted : Feed(r, c) /\ ShownUpTo(r, c)
  BY DEF FeedInv
<1>1. Feed(r, c)'
  BY DEF Feed, RunFrom
<1>2. ShownUpTo(r, c)'
  BY DEF ShownUpTo
<1> QED BY <1>1, <1>2

\* The first line the daemon will send is the one after the latest press.
LEMMA FeedSubscribe ==
  ASSUME TypeOK, TypeOK', EarlyInv, FeedInv, NEW s \in Pages, Subscribe(s)
  PROVE  FeedInv'
<1>1. wire[s] = <<>> /\ hand[s] = <<>> /\ queue[s] = <<>> /\ eventLog[s] = <<>>
  BY DEF EarlyInv, Subscribe
<1>2. /\ UNCHANGED <<emitted, wire, hand, queue, eventLog, cut, open>>
      /\ \A r \in Pages \ {s} : link'[r] = link[r]
      /\ emitted \in Nat
  BY LinesTyped DEF Subscribe, daemonVars, pageVars, TypeOK
<1>3. Lengths(s, 0, 0, 0)'
  BY <1>1, <1>2 DEF Lengths
<1>4. FeedOf(s, emitted, 0, 0, 0)'
  BY <1>1, <1>2 DEF FeedOf, RunFrom
<1>5. ShownUpTo(s, emitted)'
  BY <1>1, <1>2 DEF ShownUpTo
<1>6. (\E c \in 0..emitted : Feed(s, c) /\ ShownUpTo(s, c))'
  BY <1>2, <1>3, <1>4, <1>5, FeedThen
<1> QED BY <1>2, <1>6, FeedOfOthers

LEMMA FeedRead ==
  ASSUME TypeOK, TypeOK', EarlyInv, FeedInv, NEW s \in Pages, Read(s)
  PROVE  FeedInv'
<1> PICK n \in 1..Len(wire[s]) :
      /\ hand' = [hand EXCEPT ![s] = SubSeq(wire[s], 1, n)]
      /\ wire' = [wire EXCEPT ![s] = SubSeq(wire[s], n + 1, Len(wire[s]))]
  BY DEF Read
<1> PICK c \in Nat, q \in Nat, h \in Nat, w \in Nat :
      Lengths(s, q, h, w) /\ FeedOf(s, c, q, h, w) /\ ShownUpTo(s, c)
  BY FeedNow
<1>1. /\ UNCHANGED <<emitted, link, queue, eventLog, cut, open>>
      /\ hand[s] = <<>>
      /\ \A r \in Pages \ {s} : hand'[r] = hand[r] /\ wire'[r] = wire[r]
      /\ hand'[s] = SubSeq(wire[s], 1, n)
      /\ wire'[s] = SubSeq(wire[s], n + 1, Len(wire[s]))
  <2>1. UNCHANGED <<emitted, link, queue, eventLog, cut, open>> /\ hand[s] = <<>>
    BY DEF Read, daemonVars, pageVars, EarlyInv
  <2> QED BY <2>1, PagesTyped
<1>2. h = 0 /\ w = Len(wire[s]) /\ n \in 1..w
  BY <1>1 DEF Lengths
<1>a. h = 0 /\ n \in Nat /\ (w - n) \in Nat
  BY <1>2
<1>b. c + q + n + (w - n) = c + q + h + w
  BY <1>a
<1>3. RunFrom(wire[s], c + q) /\ c + q \in Nat
  BY <1>2 DEF FeedOf
<1>c. wire[s] \in Seq(Nat) /\ n \in 1..Len(wire[s])
  BY LinesTyped
<1>d. /\ Len(SubSeq(wire[s], 1, n)) = n
      /\ Len(SubSeq(wire[s], n + 1, Len(wire[s]))) = Len(wire[s]) - n
      /\ RunFrom(SubSeq(wire[s], 1, n), c + q)
      /\ RunFrom(SubSeq(wire[s], n + 1, Len(wire[s])), c + q + n)
  BY <1>3, <1>c, SplitLines, ZenonT(60)
<1>4. /\ Len(hand'[s]) = n
      /\ Len(wire'[s]) = w - n
      /\ RunFrom(hand'[s], c + q)
      /\ RunFrom(wire'[s], c + q + n)
  BY <1>1, <1>2, <1>d
<1>5. Lengths(s, q, n, w - n)' /\ n \in Nat /\ (w - n) \in Nat
  BY <1>1, <1>2, <1>4 DEF Lengths
<1>7. FeedOf(s, c, q, n, w - n)'
  BY <1>1, <1>4, <1>b DEF FeedOf, RunFrom
<1>8. ShownUpTo(s, c)'
  BY <1>1 DEF ShownUpTo
<1>9. (\E d \in 0..emitted : Feed(s, d) /\ ShownUpTo(s, d))'
  BY <1>5, <1>7, <1>8, FeedThen
<1> QED BY <1>1, <1>9, FeedOfOthers

\* What lies below c lies below what comes later.
LEMMA ShownFurther ==
  ASSUME TypeOK, NEW s \in Pages, NEW c \in Nat, NEW n \in Nat, ShownUpTo(s, c)
  PROVE  \A i \in 1..Len(eventLog[s]) : eventLog[s][i] <= c + n + 1 - i
<1> DEFINE log == eventLog[s]
<1>1. log \in Seq(Nat)
  BY LinesTyped
<1>2. \A i \in 1..Len(log) : log[i] <= c + 1 - i
  BY DEF ShownUpTo
<1> HIDE DEF log
<1>3. \A i \in 1..Len(log) : log[i] \in Nat /\ i \in Nat
  BY <1>1
<1>4. \A i \in 1..Len(log) : log[i] <= c + n + 1 - i
  BY <1>2, <1>3
<1> QED BY <1>4 DEF log

LEMMA FeedPush ==
  ASSUME TypeOK, TypeOK', FeedInv, NEW s \in Pages, Push(s)
  PROVE  FeedInv'
<1> PICK c \in Nat, q \in Nat, h \in Nat, w \in Nat :
      Lengths(s, q, h, w) /\ FeedOf(s, c, q, h, w) /\ ShownUpTo(s, c)
  BY FeedNow
<1>1. /\ UNCHANGED <<emitted, link, wire, eventLog, open>>
      /\ hand[s] # <<>> /\ hand[s] \in Seq(Nat) /\ queue[s] \in Seq(Nat)
      /\ \A r \in Pages \ {s} : hand'[r] = hand[r] /\ queue'[r] = queue[r] /\ cut'[r] = cut[r]
      /\ hand'[s] = Tail(hand[s])
      /\ queue'[s] = Pushed(queue[s], Head(hand[s]))
      /\ cut'[s] = (cut[s] \/ Len(queue[s]) > Cap)
  <2>1. /\ UNCHANGED <<emitted, link, wire, eventLog, open>>
        /\ hand[s] # <<>>
        /\ hand' = [hand EXCEPT ![s] = Tail(hand[s])]
        /\ queue' = [queue EXCEPT ![s] = Pushed(queue[s], Head(hand[s]))]
        /\ cut' = [cut EXCEPT ![s] = cut[s] \/ Len(queue[s]) > Cap]
    BY DEF Push, daemonVars
  <2>2. hand[s] \in Seq(Nat) /\ queue[s] \in Seq(Nat)
    BY LinesTyped
  <2>3. /\ \A r \in Pages \ {s} : cut'[r] = cut[r]
        /\ cut'[s] = (cut[s] \/ Len(queue[s]) > Cap)
    BY <2>1, PagesTyped, Zenon
  <2>4. /\ \A r \in Pages \ {s} : hand'[r] = hand[r] /\ queue'[r] = queue[r]
        /\ hand'[s] = Tail(hand[s])
        /\ queue'[s] = Pushed(queue[s], Head(hand[s]))
    BY <2>1, PagesTyped, Zenon
  <2> QED BY <2>1, <2>2, <2>3, <2>4
<1>2. RunFrom(queue[s], c) /\ RunFrom(hand[s], c + q) /\ c + q \in Nat
      /\ Len(queue[s]) = q /\ Len(hand[s]) = h /\ Len(wire[s]) = w
  BY DEF FeedOf, Lengths
<1>3. /\ Head(hand[s]) = c + q + 1
      /\ RunFrom(hand'[s], c + q + 1)
      /\ Len(hand'[s]) = h - 1 /\ (h - 1) \in Nat
  BY <1>1, <1>2, TakeFirst
<1>4. CASE ~(Len(queue[s]) > Cap)
  <2>1. queue'[s] = Append(queue[s], c + q + 1)
    BY <1>1, <1>3, <1>4 DEF Pushed
  <2>2. RunFrom(queue'[s], c)
    BY <1>1, <1>2, <2>1, AppendLine
  <2>3. Len(queue'[s]) = q + 1
    BY <1>1, <1>2, <2>1
  <2>4. Lengths(s, q + 1, h - 1, w)'
    BY <1>1, <1>2, <1>3, <2>3 DEF Lengths
  <2>5. c + (q + 1) = c + q + 1 /\ c + q + 1 + (h - 1) = c + q + h
    BY <1>3
  <2>6. FeedOf(s, c, q + 1, h - 1, w)'
    BY <1>1, <1>3, <2>2, <2>5, ZenonT(60) DEF FeedOf, RunFrom
  <2>7. ShownUpTo(s, c)'
    BY <1>1, <1>4 DEF ShownUpTo
  <2>8. (\E d \in 0..emitted : Feed(s, d) /\ ShownUpTo(s, d))'
    BY <1>3, <2>4, <2>6, <2>7, FeedThen
  <2> QED BY <1>1, <2>8, FeedOfOthers
<1>5. CASE Len(queue[s]) > Cap
  <2>0. queue[s] # <<>> /\ q > 0
    BY <1>1, <1>2, <1>5, BridgeAssumption
  <2>1. /\ Tail(queue[s]) \in Seq(Nat) /\ Len(Tail(queue[s])) = q - 1 /\ (q - 1) \in Nat
        /\ RunFrom(Tail(queue[s]), c + 1)
    BY <1>1, <1>2, <2>0, TakeFirst
  <2>2. queue'[s] = Append(Tail(queue[s]), (c + 1) + (q - 1) + 1)
    <3>1. (c + 1) + (q - 1) + 1 = c + q + 1
      OBVIOUS
    <3> QED BY <1>1, <1>3, <1>5, <3>1 DEF Pushed
  <2>3. RunFrom(queue'[s], c + 1)
    <3>1. c + 1 \in Nat
      OBVIOUS
    <3>2. RunFrom(Append(Tail(queue[s]), (c + 1) + (q - 1) + 1), c + 1)
      BY <2>1, <3>1, AppendLine, Zenon
    <3> QED BY <2>2, <3>2
  <2>4. Len(queue'[s]) = q
    BY <2>1, <2>2
  <2>5. Lengths(s, q, h - 1, w)'
    BY <1>1, <1>2, <1>3, <2>4 DEF Lengths
  <2>6. c + 1 + q = c + q + 1 /\ c + 1 + q + (h - 1) = c + q + h
    BY <1>3
  <2>7. FeedOf(s, c + 1, q, h - 1, w)'
    BY <1>1, <1>3, <2>3, <2>6 DEF FeedOf, RunFrom
  <2>8. ShownUpTo(s, c + 1)'
    <3>1. \A i \in 1..Len(eventLog[s]) : eventLog[s][i] <= c + 1 + 1 - i
      BY ShownFurther, 1 \in Nat, Zenon
    <3> QED BY <1>1, <1>5, <3>1 DEF ShownUpTo
  <2>9. (\E d \in 0..emitted : Feed(s, d) /\ ShownUpTo(s, d))'
    BY <1>3, <2>5, <2>7, <2>8, FeedThen
  <2> QED BY <1>1, <2>9, FeedOfOthers
<1> QED BY <1>4, <1>5

LEMMA FeedWorkerEnds ==
  ASSUME TypeOK, TypeOK', FeedInv, NEW s \in Pages, WorkerEnds(s)
  PROVE  FeedInv'
<1> PICK c \in Nat, q \in Nat, h \in Nat, w \in Nat :
      Lengths(s, q, h, w) /\ FeedOf(s, c, q, h, w) /\ ShownUpTo(s, c)
  BY FeedNow
<1>1. /\ UNCHANGED <<emitted, hand, queue, eventLog, cut, open>>
      /\ \A r \in Pages \ {s} : wire'[r] = wire[r] /\ link'[r] = link[r]
      /\ wire'[s] = <<>> /\ link'[s] = "none"
      /\ emitted \in Nat
  BY LinesTyped DEF WorkerEnds, daemonVars, pageVars, TypeOK
<1>2. Lengths(s, q, h, 0)'
  BY <1>1 DEF Lengths
<1>3. c + q + h + 0 <= emitted
  BY <1>1 DEF FeedOf
<1>a. RunFrom(queue'[s], c) /\ RunFrom(hand'[s], c + q) /\ RunFrom(wire'[s], c + q + h)
  BY <1>1 DEF FeedOf, RunFrom
<1>4. FeedOf(s, c, q, h, 0)'
  BY <1>1, <1>3, <1>a DEF FeedOf, RunFrom
<1>5. ShownUpTo(s, c)'
  BY <1>1 DEF ShownUpTo
<1>6. (\E d \in 0..emitted : Feed(s, d) /\ ShownUpTo(s, d))'
  BY <1>2, <1>4, <1>5, FeedThen
<1> QED BY <1>1, <1>6, FeedOfOthers

LEMMA FeedDeliver ==
  ASSUME TypeOK, TypeOK', FeedInv, NEW s \in Pages, Deliver(s)
  PROVE  FeedInv'
<1> PICK c \in Nat, q \in Nat, h \in Nat, w \in Nat :
      Lengths(s, q, h, w) /\ FeedOf(s, c, q, h, w) /\ ShownUpTo(s, c)
  BY FeedNow
<1> DEFINE log == eventLog[s]
           new == Logged(log, c + 1)
<1>1. /\ UNCHANGED <<emitted, link, wire, hand, cut, open>>
      /\ \A r \in Pages \ {s} : queue'[r] = queue[r] /\ eventLog'[r] = eventLog[r]
      /\ queue[s] # <<>> /\ queue[s] \in Seq(Nat) /\ log \in Seq(Nat)
      /\ queue'[s] = Tail(queue[s])
      /\ eventLog'[s] = IF open[s] THEN Logged(log, Head(queue[s])) ELSE log
  <2>1. /\ UNCHANGED <<emitted, link, wire, hand, cut, open>>
        /\ queue[s] # <<>>
        /\ queue' = [queue EXCEPT ![s] = Tail(queue[s])]
        /\ eventLog' = [eventLog EXCEPT ![s] =
             IF open[s] THEN Logged(eventLog[s], Head(queue[s])) ELSE eventLog[s]]
    BY DEF Deliver, daemonVars, feedVars
  <2>2. queue[s] \in Seq(Nat) /\ log \in Seq(Nat)
    BY LinesTyped
  <2> QED BY <2>1, <2>2, PagesTyped
<1>2. RunFrom(queue[s], c) /\ Len(queue[s]) = q /\ Len(hand[s]) = h /\ Len(wire[s]) = w
  BY DEF FeedOf, Lengths
<1>3. /\ Head(queue[s]) = c + 1
      /\ RunFrom(queue'[s], c + 1)
      /\ Len(queue'[s]) = q - 1 /\ (q - 1) \in Nat
  BY <1>1, <1>2, TakeFirst
<1>4. Lengths(s, q - 1, h, w)'
  BY <1>1, <1>2, <1>3 DEF Lengths
<1>5. c + 1 + (q - 1) = c + q
  BY <1>3
<1>6. FeedOf(s, c + 1, q - 1, h, w)'
  BY <1>1, <1>3, <1>5 DEF FeedOf, RunFrom
<1>7. \A i \in 1..Len(log) : log[i] <= c + 1 - i /\ log[i] \in Nat
  <2>1. \A i \in 1..Len(log) : log[i] <= c + 1 - i
    BY DEF ShownUpTo
  <2>2. \A i \in 1..Len(log) : log[i] \in Nat
    BY <1>1, SMTT(30)
  <2> QED BY <2>1, <2>2
<1>a. /\ Len(new) \in 1..LogSize /\ Len(new) <= Len(log) + 1
      /\ new[1] = c + 1
      /\ \A i \in 2..Len(new) : new[i] = log[i - 1]
  <2>1. log \in Seq(Nat) /\ c + 1 \in Nat /\ Nat \in SUBSET Nat
    BY <1>1
  <2> HIDE DEF log
  <2> QED BY <2>1, LogTakes
<1>8. ShownUpTo(s, c + 1)'
  <2>1. CASE ~open[s]
    <3>1. \A i \in 1..Len(log) : log[i] <= c + 1 + 1 - i
      BY ShownFurther, 1 \in Nat, Zenon
    <3> QED BY <1>1, <2>1, <3>1 DEF ShownUpTo
  <2>2. CASE open[s]
    <3> HIDE DEF log
    <3>1. /\ Len(new) \in Nat /\ Len(new) <= Len(log) + 1 /\ Len(log) \in Nat
          /\ Len(new) >= 1 /\ new[1] = c + 1
          /\ \A i \in 2..Len(new) : new[i] = log[i - 1]
      <4> HIDE DEF new
      <4> QED BY <1>1, <1>a
    <3> HIDE DEF new
    <3>2. \A i \in 2..Len(new) : (i - 1) \in 1..Len(log)
      BY <3>1
    <3>3. \A i \in 1..Len(new) : i = 1 \/ i \in 2..Len(new)
      BY <3>1
    <3>4. \A i \in 2..Len(new) : new[i] <= c + 1 + 1 - i
      BY <1>7, <3>1, <3>2
    <3>5. \A i \in 1..Len(new) : new[i] <= c + 1 + 1 - i
      BY <3>1, <3>3, <3>4
    <3>6. \A i \in 1..(Len(new) - 1) : new[i] > new[i + 1]
      <4> TAKE i \in 1..(Len(new) - 1)
      <4>1. i + 1 \in 2..Len(new) /\ i \in 1..Len(log) /\ (i + 1) - 1 = i
        BY <3>1
      <4>2. new[i + 1] = log[i]
        BY <3>1, <4>1
      <4>3. CASE i = 1
        BY <1>7, <3>1, <4>1, <4>2, <4>3
      <4>4. CASE i # 1
        <5>1. i \in 2..Len(new) /\ (i - 1) \in 1..(Len(log) - 1) /\ (i - 1) + 1 = i
          BY <3>1, <4>1, <4>4
        <5>2. new[i] = log[i - 1]
          BY <3>1, <5>1
        <5>3. \A k \in 1..(Len(log) - 1) : log[k] > log[k + 1]
          BY DEF ShownUpTo, log
        <5>4. log[i - 1] > log[(i - 1) + 1]
          BY <5>1, <5>3
        <5> QED BY <4>2, <5>1, <5>2, <5>4
      <4> QED BY <4>3, <4>4
    <3>7. ASSUME ~cut[s]
          PROVE  \A i \in 1..Len(new) : new[i] = c + 1 + 1 - i
      <4>1. \A i \in 1..Len(log) : log[i] = c + 1 - i
        BY <2>2, <3>7 DEF ShownUpTo, log
      <4>2. \A i \in 2..Len(new) : new[i] = c + 1 + 1 - i
        BY <3>1, <3>2, <4>1
      <4> QED BY <3>1, <3>3, <4>2
    <3>8. eventLog'[s] = new
      BY <1>1, <1>3, <2>2 DEF new
    <3> QED BY <1>1, <3>5, <3>6, <3>7, <3>8 DEF ShownUpTo
  <2> QED BY <2>1, <2>2
<1>9. (\E d \in 0..emitted : Feed(s, d) /\ ShownUpTo(s, d))'
  BY <1>3, <1>4, <1>6, <1>8, FeedThen
<1> QED BY <1>1, <1>9, FeedOfOthers

\* The stream that goes takes its queue with it.
LEMMA FeedJoined ==
  ASSUME TypeOK, TypeOK', LoopInv, FeedInv, NEW s \in Pages, Joined(s)
  PROVE  FeedInv'
<1> PICK c \in Nat, q \in Nat, h \in Nat, w \in Nat :
      Lengths(s, q, h, w) /\ FeedOf(s, c, q, h, w) /\ ShownUpTo(s, c)
  BY FeedNow
<1>1. /\ UNCHANGED <<emitted, link, wire, hand, eventLog, cut, open>>
      /\ \A r \in Pages \ {s} : queue'[r] = queue[r]
      /\ queue'[s] = <<>>
      /\ ~open[s]
  <2>1. /\ UNCHANGED <<emitted, link, wire, hand, eventLog, cut, open>>
        /\ queue' = [queue EXCEPT ![s] = <<>>]
        /\ stream[s] = "joining"
    BY DEF Joined, daemonVars, feedVars
  <2>2. ~open[s]
    BY <2>1 DEF LoopInv
  <2> QED BY <2>1, <2>2, PagesTyped
<1>2. Lengths(s, 0, h, w)'
  BY <1>1 DEF Lengths
<1>3. c + q \in Nat /\ c + q + 0 = c + q
  OBVIOUS
<1>4. FeedOf(s, c + q, 0, h, w)'
  BY <1>1, <1>3 DEF FeedOf, RunFrom
<1>5. \A i \in 1..Len(eventLog[s]) : eventLog[s][i] <= c + q + 1 - i
  BY ShownFurther, Zenon
<1>6. ShownUpTo(s, c + q)'
  BY <1>1, <1>5 DEF ShownUpTo
<1>7. (\E d \in 0..emitted : Feed(s, d) /\ ShownUpTo(s, d))'
  BY <1>2, <1>3, <1>4, <1>6, FeedThen
<1> QED BY <1>1, <1>7, FeedOfOthers

LEMMA FeedInvStep ==
  ASSUME TypeOK, TypeOK', LoopInv, EarlyInv, FeedInv, [Next]_vars
  PROVE  FeedInv'
<1> USE DEF daemonVars, feedVars, pageVars, streamVars
<1>1. CASE Emit
  BY <1>1, FeedEmit
<1>2. CASE DaemonEnds
  <2>1. \A r \in Pages : link'[r] = "open" => link[r] = "open"
    BY <1>2 DEF DaemonEnds
  <2>2. UNCHANGED <<emitted, wire, hand, queue, eventLog, cut, open>>
    BY <1>2 DEF DaemonEnds
  <2> QED BY <2>1, <2>2, FeedStays
<1>3. CASE DaemonStarts \/ Wedge \/ UNCHANGED vars \/ Override \/ \E u \in Users : UserStep(u)
  <2>1. UNCHANGED <<emitted, wire, hand, queue, eventLog, cut, open, link>>
    BY <1>3, UsersLeaveStreams DEF DaemonStarts, Wedge, vars
  <2> QED BY <2>1, FeedStays
<1>4. ASSUME NEW s \in Pages, StreamStep(s)
      PROVE  FeedInv'
  <2>1. CASE Connect(s)
    <3>1. UNCHANGED <<emitted, wire, hand, queue, eventLog, cut, open>>
      BY <2>1 DEF Connect
    <3>2. \A r \in Pages : link'[r] = "open" => link[r] = "open"
      BY <2>1 DEF Connect, TypeOK
    <3> QED BY <3>1, <3>2, FeedStays
  <2>2. CASE Check(s) \/ PollEnds(s) \/ OpenStream(s) \/ Pull(s) \/ KeepAlive(s) \/ Drop(s)
    <3>1. UNCHANGED <<emitted, wire, hand, queue, eventLog, cut, open, link>>
      BY <2>2 DEF Check, PollEnds, OpenStream, Pull, KeepAlive, Drop
    <3> QED BY <3>1, FeedStays
  <2>3. CASE Leave(s)
    <3>1. UNCHANGED <<emitted, wire, hand, queue, eventLog, cut, link>>
      BY <2>3 DEF Leave
    <3>2. \A r \in Pages : open'[r] => open[r]
      BY <2>3 DEF Leave, TypeOK
    <3> QED BY <3>1, <3>2, FeedStays
  <2> QED
    BY <1>4, <2>1, <2>2, <2>3, FeedSubscribe, FeedRead, FeedPush, FeedWorkerEnds, FeedDeliver, FeedJoined
    DEF StreamStep
<1> QED BY <1>1, <1>2, <1>3, <1>4 DEF Next

-----------------------------------------------------------------------------
(* The invariant                                                           *)

LEMMA InvInit == Init => BridgeInv
<1> SUFFICES ASSUME Init PROVE BridgeInv
  OBVIOUS
<1> USE BridgeAssumption
<1>1. TypeOK
  <2>1. <<>> \in Seq(Lines) /\ Len(<<>>) = 0
    OBVIOUS
  <2>2. LineTypes
    BY <2>1 DEF Init, LineTypes
  <2>3. LoopTypes
    BY DEF Init, LoopTypes
  <2>4. StreamTypes
    <3>1. emitted \in 0..MaxEvents
      BY DEF Init
    <3> QED BY <3>1 DEF Init, StreamTypes
  <2>5. UserTypes
    BY DEF Init, UserTypes, Kinds
  <2> QED BY <2>2, <2>3, <2>4, <2>5, TypeParts
<1>2. LoopInv
  BY DEF Init, LoopInv
<1>3. UserInv
  BY DEF Init, UserInv, Kinds
<1>4. EarlyInv
  BY DEF Init, EarlyInv
<1>5. FeedInv
  <2> SUFFICES ASSUME NEW s \in Pages
               PROVE  \E c \in 0..emitted : Feed(s, c) /\ ShownUpTo(s, c)
    BY DEF FeedInv
  <2>1. Feed(s, 0)
    BY DEF Init, Feed, RunFrom
  <2>2. ShownUpTo(s, 0)
    BY DEF Init, ShownUpTo
  <2>3. 0 \in 0..emitted
    BY DEF Init
  <2> QED BY <2>1, <2>2, <2>3
<1> QED BY <1>1, <1>2, <1>3, <1>4, <1>5 DEF BridgeInv

LEMMA InvStep ==
  ASSUME BridgeInv, [Next]_vars
  PROVE  BridgeInv'
<1>1. TypeOK /\ LoopInv /\ UserInv /\ EarlyInv /\ FeedInv
  BY DEF BridgeInv
<1>2. LoopTypes' /\ StreamTypes' /\ LineTypes' /\ UserTypes'
  BY <1>1, LoopTypesStep, StreamTypesStep, LineTypesStep, UserTypesStep
<1>3. TypeOK'
  BY <1>2 DEF TypeOK, LoopTypes, StreamTypes, LineTypes, UserTypes
<1>4. LoopInv' /\ UserInv' /\ EarlyInv'
  BY <1>1, LoopInvStep, UserInvStep, EarlyInvStep
<1>5. FeedInv'
  BY <1>1, <1>3, FeedInvStep
<1> QED BY <1>3, <1>4, <1>5 DEF BridgeInv

\* Who has a loop, what users have been told and where the presses are, at all
\* times: the invariant from which the rest follows.
THEOREM BridgeInvariance == Spec => []BridgeInv
<1>1. Init => BridgeInv
  BY InvInit
<1>2. BridgeInv /\ [Next]_vars => BridgeInv'
  BY InvStep
<1> QED BY <1>1, <1>2, PTL DEF Spec

\* Every variable has its type: a loop runs the code of at most one connection and
\* that is one of its own, no queue grows past its cap and no log past MAX_EVENTS.
THEOREM BridgeTypeCorrect == Spec => []TypeOK
<1>1. BridgeInv => TypeOK
  BY DEF BridgeInv
<1> QED BY <1>1, BridgeInvariance, PTL

-----------------------------------------------------------------------------
(* What pages and users see                                                *)

\* A user who is told that all went well sees a table with the change, unless it was
\* undone before the table was read, by a reload, another client or the end of the
\* daemon; and then sees one without it (main.cpp:56-73, ControlClient.cc:89-134,
\* app.js:500-528; mapper.cpp:100-110).
THEOREM ChangesSeen == Spec => []SeesOwnChange
<1>1. BridgeInv => SeesOwnChange
  BY DEF BridgeInv, UserInv, SeesOwnChange
<1> QED BY <1>1, BridgeInvariance, PTL

LEMMA LengthsAdd ==
  ASSUME NEW p \in Seq(Nat), NEW q \in Seq(Nat),
         NEW n \in Nat, Len(p) = n, NEW m \in Nat, Len(q) = m
  PROVE  p \o q \in Seq(Nat) /\ Len(p \o q) = n + m
<1>1. p \o q \in Seq(Nat)
  OBVIOUS
<1>2. Len(p \o q) = Len(p) + Len(q)
  BY SMTT(30)
<1> QED BY <1>1, <1>2

\* Two runs of presses that meet are one.
LEMMA RunsJoin ==
  ASSUME NEW p \in Seq(Nat), NEW q \in Seq(Nat), NEW a \in Nat,
         NEW n \in Nat, Len(p) = n, RunFrom(p, a), RunFrom(q, a + n)
  PROVE  RunFrom(p \o q, a)
<1>1. Len(p \o q) = n + Len(q) /\ Len(q) \in Nat
  <2>1. Len(p \o q) = Len(p) + Len(q)
    BY SMTT(30)
  <2> QED BY <2>1
<1>2. \A i \in 1..Len(p \o q) : i \in 1..n \/ (i - n) \in 1..Len(q)
  BY <1>1
<1>3. \A i \in 1..n : (p \o q)[i] = a + i
  BY DEF RunFrom
<1>4. ASSUME NEW i \in 1..Len(p \o q), (i - n) \in 1..Len(q)
      PROVE  (p \o q)[i] = a + i
  <2>1. (p \o q)[i] = q[i - n]
    BY <1>1, <1>4
  <2>2. q[i - n] = a + n + (i - n)
    BY <1>4 DEF RunFrom
  <2>3. a + n + (i - n) = a + i
    OBVIOUS
  <2> QED BY <2>1, <2>2, <2>3
<1> QED BY <1>2, <1>3, <1>4 DEF RunFrom

LEMMA RunsAreConsecutive ==
  ASSUME NEW q \in Seq(Nat), NEW a \in Nat, RunFrom(q, a)
  PROVE  Consecutive(q)
<1>1. \A i \in 1..(Len(q) - 1) : i \in 1..Len(q) /\ i + 1 \in 1..Len(q)
  OBVIOUS
<1> QED BY <1>1 DEF RunFrom, Consecutive

LEMMA ReversedRun ==
  ASSUME NEW log \in Seq(Nat), NEW c \in Nat, NEW n \in Nat, Len(log) = n
  PROVE  /\ Reversed(log) \in Seq(Nat) /\ Len(Reversed(log)) = n
         /\ \A i \in 1..n : Reversed(log)[i] = log[n + 1 - i]
<1>1. \A i \in 1..n : (n + 1 - i) \in 1..n
  OBVIOUS
<1>2. Reversed(log) = [i \in 1..n |-> log[n + 1 - i]]
  BY DEF Reversed
<1>3. Reversed(log) \in [1..n -> Nat]
  BY <1>1, <1>2
<1> QED BY <1>2, <1>3

\* What is under way to a page.
Rest(s) == queue[s] \o hand[s] \o wire[s]

\* It runs without a gap.
LEMMA RestRuns ==
  ASSUME TypeOK, NEW s \in Pages, NEW c \in Nat, NEW q \in Nat, NEW h \in Nat, NEW w \in Nat,
         Lengths(s, q, h, w), FeedOf(s, c, q, h, w)
  PROVE  Rest(s) \in Seq(Nat) /\ Len(Rest(s)) = q + h + w /\ RunFrom(Rest(s), c)
<1> DEFINE x == queue[s]
           y == hand[s]
           z == wire[s]
           two == x \o y
           rest == two \o z
<1>1. /\ x \in Seq(Nat) /\ y \in Seq(Nat) /\ z \in Seq(Nat)
      /\ Len(x) = q /\ Len(y) = h /\ Len(z) = w
      /\ RunFrom(x, c) /\ RunFrom(y, c + q) /\ RunFrom(z, c + q + h)
  BY LinesTyped DEF Lengths, FeedOf
<1>2. Rest(s) = rest
  BY DEF Rest
<1> HIDE DEF x, y, z
<1>3. two \in Seq(Nat) /\ Len(two) = q + h
  BY <1>1, LengthsAdd
<1>4. RunFrom(two, c)
  BY <1>1, RunsJoin
<1>5. q + h \in Nat /\ c + q + h = c + (q + h)
  OBVIOUS
<1> HIDE DEF two
<1>6. rest \in Seq(Nat) /\ Len(rest) = q + h + w
  BY <1>1, <1>3, <1>5, LengthsAdd
<1>7. RunFrom(rest, c)
  BY <1>1, <1>3, <1>4, <1>5, RunsJoin
<1> HIDE DEF rest
<1> QED BY <1>2, <1>6, <1>7

\* What lies before c on the page, in the order of the presses.
LEMMA LogRuns ==
  ASSUME TypeOK, NEW s \in Pages, NEW c \in Nat, ShownUpTo(s, c)
  PROVE  LET log == Reversed(eventLog[s])
         IN /\ log \in Seq(Nat)
            /\ Len(log) \in Nat
            /\ \A i \in 1..(Len(log) - 1) : log[i] < log[i + 1]
            /\ log # <<>> => log[Len(log)] <= c
            /\ ~cut[s] /\ open[s] => (c - Len(log)) \in Nat /\ RunFrom(log, c - Len(log))
<1> DEFINE old == eventLog[s]
           n == Len(old)
           log == Reversed(old)
<1>1. old \in Seq(Nat) /\ n \in Nat /\ \A i \in 1..n : old[i] \in Nat
  BY LinesTyped
<1>2. /\ \A i \in 1..n : old[i] <= c + 1 - i
      /\ \A i \in 1..(n - 1) : old[i] > old[i + 1]
      /\ ~cut[s] /\ open[s] => \A i \in 1..n : old[i] = c + 1 - i
  BY DEF ShownUpTo
<1>a. n # 0 => old[n] >= 1
  <2>1. old \in Seq(Lines)
    BY PagesTyped
  <2> HIDE DEF old
  <2>2. n # 0 => old[n] \in Lines
    BY <2>1
  <2> QED BY <2>2, BridgeAssumption DEF Lines
<1>3. /\ log \in Seq(Nat) /\ Len(log) = n
      /\ \A i \in 1..n : log[i] = old[n + 1 - i]
  BY <1>1, ReversedRun
<1> HIDE DEF old, n, log
<1>4. \A i \in 1..(n - 1) : log[i] < log[i + 1]
  <2> TAKE i \in 1..(n - 1)
  <2>1. /\ (n - i) \in 1..(n - 1) /\ i \in 1..n /\ i + 1 \in 1..n
        /\ n + 1 - (i + 1) = n - i /\ n + 1 - i = (n - i) + 1
    BY <1>1
  <2>2. log[i] = old[(n - i) + 1] /\ log[i + 1] = old[n - i]
    BY <1>3, <2>1
  <2>3. old[n - i] > old[(n - i) + 1]
    BY <1>2, <2>1
  <2>4. old[n - i] \in Nat /\ old[(n - i) + 1] \in Nat
    <3>1. (n - i) \in 1..n /\ (n - i) + 1 \in 1..n
      BY <1>1, <2>1
    <3> QED BY <1>1, <3>1
  <2> QED BY <2>2, <2>3, <2>4
<1>5. n # 0 => log[n] <= c
  <2> SUFFICES ASSUME n # 0 PROVE log[n] <= c
    OBVIOUS
  <2>1. 1 \in 1..n /\ n \in 1..n /\ n + 1 - n = 1
    BY <1>1
  <2>2. log[n] = old[1]
    BY <1>3, <2>1
  <2>3. old[1] <= c + 1 - 1 /\ old[1] \in Nat
    BY <1>1, <1>2, <2>1
  <2> QED BY <2>2, <2>3
<1>6. ASSUME ~cut[s], open[s]
      PROVE  (c - n) \in Nat /\ RunFrom(log, c - n)
  <2>1. \A i \in 1..n : old[i] = c + 1 - i
    BY <1>2, <1>6
  <2>2. n <= c
    <3>1. CASE n = 0
      BY <3>1
    <3>2. CASE n # 0
      <4>1. n \in 1..n
        BY <1>1, <3>2
      <4>2. old[n] = c + 1 - n
        BY <2>1, <4>1
      <4> QED BY <1>1, <1>a, <3>2, <4>2
    <3> QED BY <3>1, <3>2
  <2>3. \A i \in 1..n : log[i] = (c - n) + i
    <3> TAKE i \in 1..n
    <3>1. (n + 1 - i) \in 1..n /\ c + 1 - (n + 1 - i) = (c - n) + i
      BY <1>1
    <3>2. log[i] = old[n + 1 - i]
      BY <1>3
    <3>3. old[n + 1 - i] = c + 1 - (n + 1 - i)
      BY <2>1, <3>1
    <3> QED BY <3>1, <3>2, <3>3
  <2> QED BY <1>1, <1>3, <2>2, <2>3 DEF RunFrom
<1>7. log # <<>> => n # 0
  BY <1>3
<1>8. log # <<>> => log[Len(log)] <= c
  BY <1>3, <1>5, <1>7
<1> QED BY <1>1, <1>3, <1>4, <1>6, <1>8 DEF log, old

LEMMA FeedIntact ==
  ASSUME TypeOK, FeedInv
  PROVE  StreamIntact
<1> SUFFICES ASSUME NEW s \in Pages
             PROVE  LET rest == queue[s] \o hand[s] \o wire[s]
                        log == Reversed(eventLog[s])
                    IN /\ Consecutive(rest)
                       /\ rest # <<>> /\ link[s] = "open" => rest[Len(rest)] = emitted
                       /\ ~cut[s] /\ open[s] => Consecutive(log \o rest)
                       /\ \A i \in 1..Len(log) - 1 : log[i] < log[i + 1]
                       /\ rest # <<>> /\ log # <<>> => log[Len(log)] < rest[1]
  BY DEF StreamIntact
<1> DEFINE log == Reversed(eventLog[s])
<1> PICK c \in Nat, q \in Nat, h \in Nat, w \in Nat :
      Lengths(s, q, h, w) /\ FeedOf(s, c, q, h, w) /\ ShownUpTo(s, c)
  BY FeedNow
<1> DEFINE rest == Rest(s)
<1>1. rest \in Seq(Nat) /\ Len(rest) = q + h + w /\ RunFrom(rest, c)
  BY RestRuns
<1>2. /\ log \in Seq(Nat) /\ Len(log) \in Nat
      /\ \A i \in 1..(Len(log) - 1) : log[i] < log[i + 1]
      /\ log # <<>> => log[Len(log)] <= c
      /\ ~cut[s] /\ open[s] => (c - Len(log)) \in Nat /\ RunFrom(log, c - Len(log))
  BY LogRuns
<1> HIDE DEF log, rest
<1>3. Consecutive(rest)
  BY <1>1, RunsAreConsecutive
<1>4. ASSUME rest # <<>>
      PROVE  rest[1] = c + 1 /\ rest[Len(rest)] = c + q + h + w
  <2>1. q + h + w \in Nat \ {0}
    BY <1>1, <1>4
  <2>2. 1 \in 1..(q + h + w) /\ q + h + w \in 1..(q + h + w)
    BY <2>1
  <2>3. \A i \in 1..(q + h + w) : rest[i] = c + i
    BY <1>1 DEF RunFrom
  <2>4. c + (q + h + w) = c + q + h + w
    OBVIOUS
  <2> QED BY <1>1, <2>2, <2>3, <2>4
<1>5. rest # <<>> /\ link[s] = "open" => rest[Len(rest)] = emitted
  BY <1>4 DEF FeedOf
<1>6. rest # <<>> /\ log # <<>> => log[Len(log)] < rest[1]
  <2> SUFFICES ASSUME rest # <<>>, log # <<>>
               PROVE  log[Len(log)] < rest[1]
    OBVIOUS
  <2>1. log[Len(log)] \in Nat /\ log[Len(log)] <= c
    BY <1>2
  <2> QED BY <1>4, <2>1
<1>7. ASSUME ~cut[s], open[s]
      PROVE  Consecutive(log \o rest)
  <2> DEFINE n == Len(log)
             a == c - n
  <2>1. n \in Nat /\ a \in Nat /\ RunFrom(log, a)
    BY <1>2, <1>7
  <2>2. a + n = c
    BY <2>1
  <2> HIDE DEF a
  <2>3. RunFrom(rest, a + n)
    BY <1>1, <2>2
  <2>4. RunFrom(log \o rest, a)
    BY <1>1, <1>2, <2>1, <2>3, RunsJoin
  <2>5. log \o rest \in Seq(Nat)
    BY <1>1, <1>2
  <2> QED BY <2>1, <2>4, <2>5, RunsAreConsecutive
<1> QED BY <1>2, <1>3, <1>5, <1>6, <1>7 DEF log, rest, Rest

\* For any number of presses, sizes of queue and log, and ends of the daemon, the
\* page gets the presses in order, and all of them until the queue is cut
\* (main.cpp:113-124, 545-580; ControlClient.cc:153-199).
THEOREM StreamsIntact == Spec => []StreamIntact
<1>1. BridgeInv => StreamIntact
  BY FeedIntact DEF BridgeInv
<1> QED BY <1>1, BridgeInvariance, PTL

-----------------------------------------------------------------------------
(* Streams and their workers                                               *)

\* A worker that has ended holds no connection; the destructor has told it to end,
\* and has returned only after it did.
WorkerInv ==
  \A s \in Pages :
    /\ worker[s] = "ended" => link[s] = "none" /\ wire[s] = <<>>
    /\ stream[s] \in {"joining", "gone"} => ~running[s]
    /\ stream[s] # "none" => worker[s] # "none"
    /\ stream[s] = "gone" => worker[s] = "ended"
    /\ ~open[s] => stream[s] # "none"

\* What happens elsewhere to a page's stream: it loses the daemon or gets a line.
LEMMA OthersLeavePage ==
  ASSUME TypeOK, NEW s \in Pages, [Next]_vars, ~StreamStep(s)
  PROVE  /\ worker'[s] = worker[s] /\ hand'[s] = hand[s] /\ stream'[s] = stream[s]
         /\ queue'[s] = queue[s] /\ eventLog'[s] = eventLog[s] /\ loop'[s] = loop[s]
         /\ running'[s] = running[s] /\ open'[s] = open[s] /\ cut'[s] = cut[s]
         /\ link[s] \in {"none", "eof"} => link'[s] = link[s]
         /\ link[s] # "open" => wire'[s] = wire[s]
         /\ wire[s] # <<>> => wire'[s] # <<>>
<1> USE BridgeAssumption DEF TypeOK, loopVars, daemonVars, feedVars, pageVars, streamVars
<1>1. CASE Emit
  <2>1. wire'[s] = wire[s] \/ (link[s] = "open" /\ wire'[s] = Append(wire[s], emitted + 1))
    BY <1>1 DEF Emit
  <2>2. wire[s] \in Seq(Lines) /\ emitted + 1 \in Lines
    BY <1>1 DEF Emit, Lines
  <2>3. wire[s] # <<>> => wire'[s] # <<>>
    BY <2>1, <2>2
  <2> QED BY <1>1, <2>1, <2>3 DEF Emit
<1>2. CASE DaemonEnds \/ DaemonStarts \/ Wedge \/ Override
  BY <1>2 DEF DaemonEnds, DaemonStarts, Wedge, Override
<1>3. ASSUME NEW r \in Pages, StreamStep(r)
      PROVE  /\ worker'[s] = worker[s] /\ hand'[s] = hand[s] /\ stream'[s] = stream[s]
             /\ queue'[s] = queue[s] /\ eventLog'[s] = eventLog[s] /\ loop'[s] = loop[s]
             /\ running'[s] = running[s] /\ open'[s] = open[s] /\ cut'[s] = cut[s]
             /\ link'[s] = link[s] /\ wire'[s] = wire[s]
  <2>1. r # s
    BY <1>3
  <2>2. CASE Subscribe(r) \/ Connect(r) \/ Check(r) \/ Read(r) \/ PollEnds(r) \/ WorkerEnds(r)
    BY <2>1, <2>2, SMTT(30) DEF Subscribe, Connect, Check, Read, PollEnds, WorkerEnds
  <2>3. CASE Push(r) \/ Deliver(r)
    BY <2>1, <2>3, SMTT(30) DEF Push, Deliver
  <2>4. CASE OpenStream(r) \/ Pull(r) \/ KeepAlive(r) \/ Leave(r)
    BY <2>1, <2>4 DEF OpenStream, Pull, KeepAlive, Leave
  <2>5. CASE Drop(r) \/ Joined(r)
    BY <2>1, <2>5 DEF Drop, Joined
  <2> QED BY <1>3, <2>2, <2>3, <2>4, <2>5 DEF StreamStep
<1>4. ASSUME NEW u \in Users, UserStep(u)
      PROVE  UNCHANGED streamVars /\ loop'[s] = loop[s]
  <2>1. s # u
    OBVIOUS
  <2>2. loop'[s] = loop[s]
    BY <1>4, <2>1 DEF UserStep, Post, Handle, Dial, Answer, GiveUp, Continue, Serve
  <2> QED BY <1>4, <2>2, UsersLeaveStreams
<1>5. CASE UNCHANGED vars
  BY <1>5 DEF vars
<1> QED
  BY <1>1, <1>2, <1>3, <1>4, <1>5 DEF Next

\* What a page's own step does with its worker.
LEMMA WorkerInvStep ==
  ASSUME TypeOK, EarlyInv, WorkerInv, [Next]_vars
  PROVE  WorkerInv'
<1> SUFFICES ASSUME NEW s \in Pages
             PROVE  /\ worker'[s] = "ended" => link'[s] = "none" /\ wire'[s] = <<>>
                    /\ stream'[s] \in {"joining", "gone"} => ~running'[s]
                    /\ stream'[s] # "none" => worker'[s] # "none"
                    /\ stream'[s] = "gone" => worker'[s] = "ended"
                    /\ ~open'[s] => stream'[s] # "none"
  BY DEF WorkerInv
<1>1. CASE ~StreamStep(s)
  BY <1>1, OthersLeavePage DEF WorkerInv
<1>2. CASE StreamStep(s)
  <2> USE DEF TypeOK, EarlyInv, WorkerInv, daemonVars, feedVars, pageVars, streamVars
  <2>1. CASE Subscribe(s) \/ Connect(s)
    BY <2>1 DEF Subscribe, Connect
  <2>2. CASE Check(s) \/ Read(s) \/ PollEnds(s) \/ Push(s)
    BY <2>2 DEF Check, Read, PollEnds, Push
  <2>3. CASE WorkerEnds(s)
    BY <2>3 DEF WorkerEnds
  <2>4. CASE OpenStream(s) \/ Pull(s) \/ Deliver(s) \/ KeepAlive(s)
    BY <2>4 DEF OpenStream, Pull, Deliver, KeepAlive
  <2>5. CASE Leave(s) \/ Drop(s) \/ Joined(s)
    BY <2>5 DEF Leave, Drop, Joined
  <2> QED BY <1>2, <2>1, <2>2, <2>3, <2>4, <2>5 DEF StreamStep
<1> QED
  BY <1>1, <1>2

LEMMA WorkerInvariance == Spec => []WorkerInv
<1>1. Init => WorkerInv
  <2> SUFFICES ASSUME Init, NEW s \in Pages
               PROVE  worker[s] = "none" /\ stream[s] = "none" /\ open[s]
    BY DEF WorkerInv
  <2> QED BY DEF Init
<1>2. BridgeInv => TypeOK /\ EarlyInv
  BY DEF BridgeInv
<1> QED
  BY <1>1, <1>2, WorkerInvStep, BridgeInvariance, PTL DEF Spec

\* A stream that is gone has no worker that could still touch it, no connection to
\* the daemon and no loop.
StateOutlivesWorker ==
  \A s \in Pages :
    stream[s] = "gone" =>
      /\ worker[s] = "ended" /\ hand[s] = <<>>
      /\ link[s] = "none" /\ wire[s] = <<>>
      /\ \A l \in Loops : busy[l] # s

\* ~EventStreamState returns only when its worker has read and queued its last line
\* and closed its socket: no callback runs on a state that is destroyed, whenever
\* the page leaves or the daemon ends (main.cpp:113-134, ControlClient.cc:139-199).
THEOREM StatesOutliveWorkers == Spec => []StateOutlivesWorker
<1>1. BridgeInv /\ WorkerInv => StateOutlivesWorker
  BY DEF BridgeInv, LoopInv, EarlyInv, WorkerInv, StateOutlivesWorker
<1> QED
  BY <1>1, BridgeInvariance, WorkerInvariance, PTL

-----------------------------------------------------------------------------
(* Liveness, for fair threads and loops that can step where the invariant  *)
(* OnlyNamedWaits says so                                                  *)

\* The loop of a page is in the callback of its stream, and whether with a line.
Turn(s) == stream[s] = "live" /\ busy[loop[s]] = s
IdleTurn(s) == Turn(s) /\ queue[s] = <<>>
LineTurn(s) == Turn(s) /\ queue[s] # <<>>
LoopFree(x) == busy[loop[x]] = "free"

\* Nobody else takes the loop from a stream whose turn it is.
LEMMA OthersLeaveTurn ==
  ASSUME TypeOK, LoopInv, NEW s \in Pages, Turn(s), [Next]_vars, ~StreamStep(s)
  PROVE  busy'[loop[s]] = s
<1> USE BridgeAssumption DEF TypeOK, LoopInv, Turn, loopVars, streamVars, userVars
<1>1. loop[s] \in Loops /\ busy[loop[s]] = s
  OBVIOUS
<1>2. ASSUME NEW r \in Pages, StreamStep(r)
      PROVE  busy'[loop[s]] = s
  <2>1. r # s
    BY <1>2
  <2>2. CASE UNCHANGED busy
    BY <1>1, <2>2
  <2>3. CASE Pull(r) \/ Drop(r)
    BY <1>1, <2>3, SMTT(30) DEF Pull, Drop
  <2>4. CASE Deliver(r) \/ KeepAlive(r) \/ Joined(r)
    <3>1. busy[loop[r]] = r /\ loop[r] \in Loops
      BY <2>4 DEF Deliver, KeepAlive, Joined
    <3>2. busy' = [busy EXCEPT ![loop[r]] = "free"]
      BY <2>4 DEF Deliver, KeepAlive, Joined
    <3> QED BY <1>1, <2>1, <3>1, <3>2
  <2>5. Subscribe(r) \/ Connect(r) \/ Check(r) \/ Read(r) \/ PollEnds(r) \/ Push(r) \/ WorkerEnds(r)
          \/ OpenStream(r) \/ Leave(r) => UNCHANGED busy
    BY DEF Subscribe, Connect, Check, Read, PollEnds, Push, WorkerEnds, OpenStream, Leave
  <2> QED BY <1>2, <2>2, <2>3, <2>4, <2>5 DEF StreamStep
<1>3. ASSUME NEW u \in Users, UserStep(u)
      PROVE  busy'[loop[s]] = s
  <2>1. u # s
    OBVIOUS
  <2>2. CASE Post(u) \/ Continue(u) \/ \E k \in Kinds : Serve(u, k)
    BY <1>1, <2>2 DEF Post, Continue, Serve
  <2>3. CASE Handle(u)
    BY <1>1, <2>3, SMTT(30) DEF Handle
  <2>4. CASE Dial(u) \/ Answer(u) \/ GiveUp(u)
    <3>1. busy[loop[u]] = u /\ loop[u] \in Loops
      BY <2>4 DEF Dial, Answer, GiveUp
    <3>2. busy' = [busy EXCEPT ![loop[u]] = "free"] \/ UNCHANGED busy
      BY <2>4 DEF Dial, Answer, GiveUp
    <3> QED BY <1>1, <2>1, <3>1, <3>2
  <2> QED BY <1>3, <2>2, <2>3, <2>4 DEF UserStep
<1>4. CASE Emit \/ Wedge \/ Override \/ DaemonEnds \/ DaemonStarts \/ UNCHANGED vars
  BY <1>1, <1>4 DEF Emit, Wedge, Override, DaemonEnds, DaemonStarts, vars
<1> QED
  BY <1>2, <1>3, <1>4 DEF Next

\* A turn ends with the line or the keep-alive; the queue only grows meanwhile.
LEMMA TurnMoves ==
  ASSUME TypeOK, LoopInv, NEW s \in Pages, Turn(s), [Next]_vars
  PROVE  /\ \/ Turn(s)' /\ (queue[s] # <<>> => queue'[s] # <<>>)
            \/ LoopFree(s)'
         /\ Deliver(s) \/ KeepAlive(s) => LoopFree(s)'
<1>1. CASE ~StreamStep(s)
  <2>1. ~Deliver(s) /\ ~KeepAlive(s)
    BY <1>1 DEF StreamStep
  <2> QED BY <1>1, <2>1, OthersLeaveTurn, OthersLeavePage DEF Turn
<1>2. CASE Deliver(s) \/ KeepAlive(s)
  <2>1. busy' = [busy EXCEPT ![loop[s]] = "free"] /\ UNCHANGED loop /\ loop[s] \in Loops
    BY <1>2 DEF Deliver, KeepAlive, LoopInv
  <2> QED BY <2>1 DEF LoopFree, TypeOK
<1>3. ASSUME Push(s)
      PROVE  Turn(s)' /\ (queue[s] # <<>> => queue'[s] # <<>>)
  <2>1. Pushed(queue[s], Head(hand[s])) # <<>>
    <3>1. queue[s] \in Seq(Lines) /\ hand[s] \in Seq(Lines) /\ hand[s] # <<>>
      BY <1>3 DEF Push, TypeOK
    <3> QED BY <3>1 DEF Pushed
  <2> QED BY <1>3, <2>1 DEF Push, Turn, TypeOK, loopVars
<1>4. ASSUME Subscribe(s) \/ Connect(s) \/ Check(s) \/ Read(s) \/ PollEnds(s) \/ WorkerEnds(s)
               \/ Leave(s)
      PROVE  Turn(s)' /\ (queue[s] # <<>> => queue'[s] # <<>>)
  BY <1>4 DEF Subscribe, Connect, Check, Read, PollEnds, WorkerEnds, Leave, Turn, loopVars, pageVars
<1>5. ~(OpenStream(s) \/ Pull(s) \/ Drop(s) \/ Joined(s))
  BY BridgeAssumption DEF OpenStream, Pull, Drop, Joined, Turn
<1> QED
  BY <1>1, <1>2, <1>3, <1>4, <1>5 DEF StreamStep

\* No stream keeps its loop: the callback waits for a line, but not for ever, and a
\* worker that queues lines meanwhile does not keep it waiting (main.cpp:551-575).
THEOREM TurnsEnd ==
  ASSUME NEW s \in Pages
  PROVE  Spec /\ WF_vars(Deliver(s)) /\ WF_vars(KeepAlive(s)) /\ []OnlyNamedWaits
           => (Turn(s) ~> LoopFree(s))
<1>1. OnlyNamedWaits => /\ LineTurn(s) => ENABLED <<Deliver(s)>>_vars
                        /\ IdleTurn(s) => ENABLED <<KeepAlive(s)>>_vars
  BY DEF OnlyNamedWaits, LineTurn, IdleTurn, Turn
<1>2. Turn(s) => LineTurn(s) \/ IdleTurn(s)
  BY DEF LineTurn, IdleTurn
<1>3. BridgeInv /\ LineTurn(s) /\ [Next]_vars => LineTurn(s)' \/ LoopFree(s)'
  BY TurnMoves DEF BridgeInv, LineTurn
<1>4. BridgeInv /\ IdleTurn(s) /\ [Next]_vars => LineTurn(s)' \/ IdleTurn(s)' \/ LoopFree(s)'
  BY TurnMoves DEF BridgeInv, LineTurn, IdleTurn
<1>5. BridgeInv /\ LineTurn(s) /\ [Next]_vars /\ <<Deliver(s)>>_vars => LoopFree(s)'
  BY TurnMoves DEF BridgeInv, LineTurn
<1>6. BridgeInv /\ IdleTurn(s) /\ [Next]_vars /\ <<KeepAlive(s)>>_vars => LoopFree(s)'
  BY TurnMoves DEF BridgeInv, IdleTurn
<1> QED
  BY <1>1, <1>2, <1>3, <1>4, <1>5, <1>6, BridgeInvariance, PTL DEF Spec

-----------------------------------------------------------------------------
(* Requests                                                                *)

Queued(u) == phase[u] = "queued"
Connecting(u) == phase[u] = "connecting"
Asking(u) == phase[u] = "asking"
Answered(u) == phase[u] \in {"ok", "error"}

LEMMA RequestMoves ==
  ASSUME TypeOK, NEW u \in Users, [Next]_vars
  PROVE  /\ Queued(u) => Queued(u)' \/ Connecting(u)'
         /\ Connecting(u) => Connecting(u)' \/ Asking(u)' \/ Answered(u)'
         /\ Asking(u) => Asking(u)' \/ Answered(u)'
         /\ Handle(u) => Connecting(u)'
         /\ Dial(u) => Asking(u)' \/ Answered(u)'
         /\ Answer(u) \/ GiveUp(u) => Answered(u)'
<1> USE DEF TypeOK, Queued, Connecting, Asking, Answered
<1>1. ASSUME NEW v \in Users, UserStep(v)
      PROVE  /\ Queued(u) => Queued(u)' \/ Connecting(u)'
             /\ Connecting(u) => Connecting(u)' \/ Asking(u)' \/ Answered(u)'
             /\ Asking(u) => Asking(u)' \/ Answered(u)'
  <2>1. CASE Handle(v) \/ Dial(v)
    BY <2>1, SMTT(30) DEF Handle, Dial
  <2>2. CASE Post(v) \/ Answer(v) \/ GiveUp(v) \/ Continue(v)
    BY <2>2 DEF Post, Answer, GiveUp, Continue
  <2>3. CASE \E k \in Kinds : Serve(v, k)
    BY <2>3 DEF Serve
  <2> QED BY <1>1, <2>1, <2>2, <2>3 DEF UserStep
<1>2. (\E v \in Users : UserStep(v)) \/ UNCHANGED phase
  <2>1. Emit \/ Wedge \/ DaemonStarts \/ (\E s \in Pages : StreamStep(s)) => UNCHANGED phase
    BY StreamsLeaveUsers DEF userVars
  <2>2. DaemonEnds \/ Override => UNCHANGED phase
    BY DEF DaemonEnds, Override
  <2>3. UNCHANGED vars => UNCHANGED phase
    BY DEF vars, userVars
  <2> QED BY <2>1, <2>2, <2>3 DEF Next
<1>3. UNCHANGED phase => /\ Queued(u) => Queued(u)'
                         /\ Connecting(u) => Connecting(u)'
                         /\ Asking(u) => Asking(u)'
  OBVIOUS
<1>4. /\ Handle(u) => Connecting(u)'
      /\ Dial(u) => Asking(u)' \/ Answered(u)'
      /\ Answer(u) \/ GiveUp(u) => Answered(u)'
  BY DEF Handle, Dial, Answer, GiveUp
<1> QED
  BY <1>1, <1>2, <1>3, <1>4

\* A request is answered if the loop that has it is free again and again and so is the
\* daemon's backlog, or there is no daemon: connect has no time limit, and all that
\* comes after it has, be the daemon slow, gone or started anew (main.cpp:56-73,
\* ControlClient.cc:30-42, 89-134).
THEOREM RequestsAnsweredOnceLoopsTurn ==
  ASSUME NEW u \in Users
  PROVE  Spec /\ SF_vars(Handle(u)) /\ SF_vars(Dial(u)) /\ WF_vars(Answer(u) \/ GiveUp(u))
           /\ []OnlyNamedWaits /\ []<>~stuck
           /\ (Queued(u) ~> LoopFree(u) \/ ~Queued(u))
           => (Queued(u) ~> Answered(u))
<1>1. OnlyNamedWaits => /\ Queued(u) /\ LoopFree(u) => ENABLED <<Handle(u)>>_vars
                        /\ Connecting(u) /\ ~stuck => ENABLED <<Dial(u)>>_vars
                        /\ Asking(u) => ENABLED <<Answer(u) \/ GiveUp(u)>>_vars
  BY DEF OnlyNamedWaits, Queued, LoopFree, Connecting, Asking
<1>2. BridgeInv /\ [Next]_vars =>
        /\ Queued(u) => Queued(u)' \/ Connecting(u)'
        /\ Connecting(u) => Connecting(u)' \/ Asking(u)' \/ Answered(u)'
        /\ Asking(u) => Asking(u)' \/ Answered(u)'
  BY RequestMoves DEF BridgeInv
<1>3. BridgeInv /\ [Next]_vars =>
        /\ <<Handle(u)>>_vars => Connecting(u)'
        /\ <<Dial(u)>>_vars => Asking(u)' \/ Answered(u)'
        /\ <<Answer(u) \/ GiveUp(u)>>_vars => Answered(u)'
  BY RequestMoves DEF BridgeInv
<1>4. Connecting(u) => ~Queued(u)
  BY DEF Connecting, Queued
<1>5. SF_vars(Handle(u)) /\ []OnlyNamedWaits /\ []BridgeInv /\ [][Next]_vars
        /\ (Queued(u) ~> LoopFree(u) \/ ~Queued(u))
        => (Queued(u) ~> Connecting(u))
  BY <1>1, <1>2, <1>3, <1>4, PTL
<1>6. SF_vars(Dial(u)) /\ []OnlyNamedWaits /\ []<>~stuck /\ []BridgeInv /\ [][Next]_vars
        => (Connecting(u) ~> Asking(u) \/ Answered(u))
  BY <1>1, <1>2, <1>3, PTL
<1>7. WF_vars(Answer(u) \/ GiveUp(u)) /\ []OnlyNamedWaits /\ []BridgeInv /\ [][Next]_vars
        => (Asking(u) ~> Answered(u))
  BY <1>1, <1>2, <1>3, PTL
<1> QED
  BY <1>5, <1>6, <1>7, BridgeInvariance, PTL DEF Spec

-----------------------------------------------------------------------------
(* The end of a stream                                                     *)

\* Where a stream is whose page has left, and its worker.
Left(s) == stream[s] = "live" /\ ~open[s]
Joining(s) == stream[s] = "joining"
JoinsStarting(s) == Joining(s) /\ worker[s] = "starting"
JoinsFull(s) == Joining(s) /\ worker[s] = "polling" /\ wire[s] # <<>>
JoinsQuiet(s) == Joining(s) /\ worker[s] = "polling" /\ wire[s] = <<>> /\ link[s] # "eof"
JoinsHungUp(s) == Joining(s) /\ worker[s] = "polling" /\ wire[s] = <<>> /\ link[s] = "eof"
JoinsBusy(s) == Joining(s) /\ worker[s] = "checking" /\ hand[s] # <<>>
JoinsIdle(s) == Joining(s) /\ worker[s] = "checking" /\ hand[s] = <<>>
JoinsEnded(s) == Joining(s) /\ worker[s] = "ended"
TornDown(s) == stream[s] = "gone" /\ worker[s] = "ended" /\ link[s] = "none"

LEMMA LeftOrJoining ==
  ASSUME TypeOK, WorkerInv, NEW s \in Pages
  PROVE  /\ ~open[s] => Left(s) \/ Joining(s) \/ TornDown(s)
         /\ Joining(s) => \/ JoinsStarting(s) \/ JoinsFull(s) \/ JoinsQuiet(s) \/ JoinsHungUp(s)
                          \/ JoinsBusy(s) \/ JoinsIdle(s) \/ JoinsEnded(s)
BY DEF TypeOK, WorkerInv, Left, Joining, JoinsStarting, JoinsFull, JoinsQuiet, JoinsHungUp,
   JoinsBusy, JoinsIdle, JoinsEnded, TornDown

\* The destructor waits on while the worker connects, reads at most once more,
\* queues what it has read and, back at the head of its loop, ends.
LEMMA EndMoves ==
  ASSUME TypeOK, EarlyInv, WorkerInv, NEW s \in Pages, [Next]_vars
  PROVE  /\ Left(s) => Left(s)' \/ Joining(s)'
         /\ Drop(s) => Joining(s)'
         /\ JoinsStarting(s) => JoinsStarting(s)' \/ JoinsIdle(s)' \/ JoinsEnded(s)'
         /\ JoinsStarting(s) /\ Connect(s) => JoinsIdle(s)' \/ JoinsEnded(s)'
         /\ JoinsFull(s) => JoinsFull(s)' \/ JoinsBusy(s)'
         /\ JoinsFull(s) /\ Read(s) => JoinsBusy(s)'
         /\ JoinsQuiet(s) => JoinsQuiet(s)' \/ JoinsFull(s)' \/ JoinsHungUp(s)' \/ JoinsIdle(s)'
         /\ JoinsQuiet(s) /\ PollEnds(s) => JoinsIdle(s)'
         /\ JoinsHungUp(s) => JoinsHungUp(s)' \/ JoinsEnded(s)'
         /\ JoinsHungUp(s) /\ WorkerEnds(s) => JoinsEnded(s)'
         /\ JoinsBusy(s) => JoinsBusy(s)' \/ JoinsIdle(s)'
         /\ JoinsIdle(s) => JoinsIdle(s)' \/ JoinsEnded(s)'
         /\ JoinsIdle(s) /\ WorkerEnds(s) => JoinsEnded(s)'
         /\ JoinsEnded(s) => JoinsEnded(s)' \/ TornDown(s)'
         /\ JoinsEnded(s) /\ Joined(s) => TornDown(s)'
<1> USE DEF TypeOK, EarlyInv, WorkerInv, Left, Joining, JoinsStarting, JoinsFull, JoinsQuiet,
            JoinsHungUp, JoinsBusy, JoinsIdle, JoinsEnded, TornDown, KeepRunning, AtEnd,
            loopVars, daemonVars, feedVars, pageVars, streamVars
<1>1. CASE ~StreamStep(s)
  <2>1. ~Drop(s) /\ ~Connect(s) /\ ~Read(s) /\ ~PollEnds(s) /\ ~WorkerEnds(s) /\ ~Joined(s)
    BY <1>1 DEF StreamStep
  <2>2. /\ worker'[s] = worker[s] /\ hand'[s] = hand[s] /\ stream'[s] = stream[s]
        /\ open'[s] = open[s]
        /\ link[s] \in {"none", "eof"} => link'[s] = link[s]
        /\ link[s] # "open" => wire'[s] = wire[s]
        /\ wire[s] # <<>> => wire'[s] # <<>>
    BY <1>1, OthersLeavePage
  <2> QED BY <2>1, <2>2
<1>2. CASE Subscribe(s) \/ OpenStream(s) \/ Pull(s) \/ Deliver(s) \/ KeepAlive(s) \/ Leave(s)
  <2>1. /\ stream[s] \in {"joining", "gone"} => stream'[s] = stream[s]
        /\ stream[s] = "live" => stream'[s] = "live"
        /\ stream[s] # "none" => worker'[s] = worker[s]
        /\ hand'[s] = hand[s] /\ (open[s] \/ ~open'[s]) /\ wire'[s] = wire[s]
        /\ link[s] # "asked" => link'[s] = link[s]
        /\ link[s] = "asked" => link'[s] \in {"asked", "open"}
    BY <1>2 DEF Subscribe, OpenStream, Pull, Deliver, KeepAlive, Leave
  <2>2. Drop(s) => stream'[s] = "joining"
    BY DEF Drop
  <2>3. Connect(s) => worker[s] = "starting" /\ worker'[s] \in {"checking", "ended"}
    BY DEF Connect
  <2>4. Read(s) \/ PollEnds(s) => worker[s] = "polling" /\ worker'[s] = "checking"
    BY DEF Read, PollEnds
  <2>5. WorkerEnds(s) => worker[s] # "ended" /\ worker'[s] = "ended"
    BY DEF WorkerEnds
  <2>6. Joined(s) => stream[s] = "joining" /\ stream'[s] = "gone"
    BY DEF Joined
  <2> QED BY <2>1, <2>2, <2>3, <2>4, <2>5, <2>6
<1>3. CASE Connect(s)
  <2>1. ~Drop(s) /\ ~WorkerEnds(s) /\ ~Joined(s) /\ ~Read(s) /\ ~PollEnds(s)
    BY <1>3 DEF Connect, Drop, WorkerEnds, Joined, Read, PollEnds
  <2>2. /\ worker[s] = "starting" /\ worker'[s] \in {"checking", "ended"}
        /\ UNCHANGED <<stream, open, hand>>
    BY <1>3 DEF Connect
  <2> QED BY <2>1, <2>2
<1>4. CASE Read(s)
  <2>1. ~Drop(s) /\ ~WorkerEnds(s) /\ ~Joined(s) /\ ~Connect(s) /\ ~PollEnds(s)
    <3>1. wire[s] # <<>> /\ worker[s] = "polling" /\ worker'[s] = "checking"
      BY <1>4 DEF Read
    <3>2. UNCHANGED stream
      BY <1>4 DEF Read
    <3> QED BY <3>1, <3>2 DEF Drop, WorkerEnds, Joined, Connect, PollEnds
  <2>2. /\ worker[s] = "polling" /\ worker'[s] = "checking" /\ wire[s] # <<>>
        /\ UNCHANGED <<stream, open>>
    BY <1>4 DEF Read
  <2>3. hand'[s] # <<>>
    <3> PICK n \in 1..Len(wire[s]) : hand' = [hand EXCEPT ![s] = SubSeq(wire[s], 1, n)]
      BY <1>4 DEF Read
    <3>1. wire[s] \in Seq(Lines) /\ Lines \in SUBSET Nat
      BY LinesAreNumbers
    <3>2. SubSeq(wire[s], 1, n) \in Seq(Lines) /\ Len(SubSeq(wire[s], 1, n)) = n
      BY <3>1, SplitLines
    <3>3. Len(wire[s]) \in Nat /\ hand'[s] = SubSeq(wire[s], 1, n)
      BY <3>1
    <3>4. Len(hand'[s]) # Len(<<>>)
      BY <3>2, <3>3
    <3> QED BY <3>4, Zenon
  <2> QED BY <2>1, <2>2, <2>3
<1>5. CASE Check(s) \/ PollEnds(s)
  <2>1. ~Drop(s) /\ ~WorkerEnds(s) /\ ~Joined(s) /\ ~Connect(s) /\ ~Read(s)
    BY <1>5 DEF Check, PollEnds, Drop, WorkerEnds, Joined, Connect, Read
  <2>2. UNCHANGED <<stream, open, hand>>
    BY <1>5 DEF Check, PollEnds
  <2>3. Check(s) => stream[s] \notin {"joining", "gone"} /\ ~PollEnds(s)
    BY DEF Check, PollEnds
  <2>4. PollEnds(s) => worker[s] = "polling" /\ worker'[s] = "checking" /\ wire[s] = <<>>
                       /\ link[s] # "eof"
    BY DEF PollEnds
  <2> QED BY <1>5, <2>1, <2>2, <2>3, <2>4
<1>6. CASE Push(s)
  <2>1. /\ worker[s] = "checking" /\ hand[s] # <<>>
        /\ UNCHANGED <<worker, stream, open>>
    BY <1>6 DEF Push
  <2>2. ~Drop(s) /\ ~WorkerEnds(s) /\ ~Joined(s) /\ ~Connect(s) /\ ~Read(s) /\ ~PollEnds(s)
    BY <2>1 DEF Drop, WorkerEnds, Joined, Connect, Read, PollEnds
  <2> QED BY <2>1, <2>2
<1>7. CASE WorkerEnds(s)
  <2>1. ~Drop(s) /\ ~Connect(s) /\ ~Joined(s) /\ ~Read(s) /\ ~PollEnds(s)
    BY <1>7 DEF Connect, Drop, WorkerEnds, Joined, Read, PollEnds
  <2>2. /\ worker'[s] = "ended" /\ UNCHANGED <<stream, open>>
        /\ \/ worker[s] = "checking" /\ hand[s] = <<>>
           \/ worker[s] = "polling" /\ link[s] = "eof" /\ wire[s] = <<>>
    BY <1>7 DEF WorkerEnds
  <2> QED BY <2>1, <2>2
<1>8. CASE Drop(s)
  <2>1. ~WorkerEnds(s) /\ ~Connect(s) /\ ~Joined(s) /\ ~Read(s) /\ ~PollEnds(s)
    BY <1>8 DEF Connect, Drop, WorkerEnds, Joined, Read, PollEnds
  <2> QED BY <1>8, <2>1 DEF Drop
<1>9. CASE Joined(s)
  <2>1. ~WorkerEnds(s) /\ ~Connect(s) /\ ~Drop(s) /\ ~Read(s) /\ ~PollEnds(s)
    BY <1>9 DEF Connect, Drop, WorkerEnds, Joined, Read, PollEnds
  <2> QED BY <1>9, <2>1 DEF Joined
<1> QED
  BY <1>1, <1>2, <1>3, <1>4, <1>5, <1>6, <1>7, <1>8, <1>9 DEF StreamStep

\* A page that has left: its stream ends, its worker ends and its connection is
\* closed, if its loop turns to it, its worker comes to the end of what it read
\* (HandsShorten, once for each line) and the daemon does not stop accepting for good:
\* a worker that is in connect does not see that it should end, and the destructor
\* joins it.  Once connected it needs no line of the daemon's, as it polls with a
\* time-out (main.cpp:126-134, ControlClient.cc:30, 156-199).
THEOREM StreamTornDownOnceLoopTurns ==
  ASSUME NEW s \in Pages
  PROVE  Spec /\ SF_vars(Drop(s)) /\ SF_vars(Connect(s)) /\ WF_vars(Read(s)) /\ WF_vars(PollEnds(s))
           /\ WF_vars(WorkerEnds(s)) /\ WF_vars(Joined(s)) /\ []OnlyNamedWaits /\ []<>~stuck
           /\ (Left(s) ~> LoopFree(s) \/ ~Left(s))
           /\ (JoinsBusy(s) ~> ~JoinsBusy(s))
           => (~open[s] ~> TornDown(s))
<1> DEFINE Inv == BridgeInv /\ WorkerInv
<1>1. OnlyNamedWaits /\ Inv =>
        /\ Left(s) /\ LoopFree(s) => ENABLED <<Drop(s)>>_vars
        /\ JoinsStarting(s) /\ ~stuck => ENABLED <<Connect(s)>>_vars
        /\ JoinsFull(s) => ENABLED <<Read(s)>>_vars
        /\ JoinsQuiet(s) => ENABLED <<PollEnds(s)>>_vars
        /\ JoinsHungUp(s) => ENABLED <<WorkerEnds(s)>>_vars
        /\ JoinsIdle(s) => ENABLED <<WorkerEnds(s)>>_vars
        /\ JoinsEnded(s) => ENABLED <<Joined(s)>>_vars
  BY DEF OnlyNamedWaits, WorkerInv, Left, LoopFree, Joining, JoinsStarting, JoinsFull, JoinsQuiet,
     JoinsHungUp, JoinsIdle, JoinsEnded
<1>2. /\ Inv => (~open[s] => Left(s) \/ Joining(s) \/ TornDown(s))
      /\ Inv => (Joining(s) => \/ JoinsStarting(s) \/ JoinsFull(s) \/ JoinsQuiet(s) \/ JoinsHungUp(s)
                               \/ JoinsBusy(s) \/ JoinsIdle(s) \/ JoinsEnded(s))
  BY LeftOrJoining DEF BridgeInv
<1>3. Inv /\ [Next]_vars =>
        /\ Left(s) => Left(s)' \/ Joining(s)'
        /\ JoinsStarting(s) => JoinsStarting(s)' \/ JoinsIdle(s)' \/ JoinsEnded(s)'
        /\ JoinsFull(s) => JoinsFull(s)' \/ JoinsBusy(s)'
        /\ JoinsQuiet(s) => JoinsQuiet(s)' \/ JoinsFull(s)' \/ JoinsHungUp(s)' \/ JoinsIdle(s)'
        /\ JoinsHungUp(s) => JoinsHungUp(s)' \/ JoinsEnded(s)'
        /\ JoinsBusy(s) => JoinsBusy(s)' \/ JoinsIdle(s)'
        /\ JoinsIdle(s) => JoinsIdle(s)' \/ JoinsEnded(s)'
        /\ JoinsEnded(s) => JoinsEnded(s)' \/ TornDown(s)'
  BY EndMoves DEF BridgeInv
<1>4. Inv /\ [Next]_vars =>
        /\ <<Drop(s)>>_vars => Joining(s)'
        /\ JoinsStarting(s) /\ <<Connect(s)>>_vars => JoinsIdle(s)' \/ JoinsEnded(s)'
        /\ JoinsFull(s) /\ <<Read(s)>>_vars => JoinsBusy(s)'
        /\ JoinsQuiet(s) /\ <<PollEnds(s)>>_vars => JoinsIdle(s)'
        /\ JoinsHungUp(s) /\ <<WorkerEnds(s)>>_vars => JoinsEnded(s)'
        /\ JoinsIdle(s) /\ <<WorkerEnds(s)>>_vars => JoinsEnded(s)'
        /\ JoinsEnded(s) /\ <<Joined(s)>>_vars => TornDown(s)'
  BY EndMoves DEF BridgeInv
<1>5. Left(s) => ~Joining(s)
  BY DEF Left, Joining
<1>6. Spec => []Inv
  BY BridgeInvariance, WorkerInvariance, PTL
<1> HIDE DEF Inv
<1>7. WF_vars(Joined(s)) /\ []OnlyNamedWaits /\ []Inv /\ [][Next]_vars
        => (JoinsEnded(s) ~> TornDown(s))
  BY <1>1, <1>3, <1>4, PTL
<1>8. WF_vars(WorkerEnds(s)) /\ []OnlyNamedWaits /\ []Inv /\ [][Next]_vars
        => (JoinsIdle(s) ~> JoinsEnded(s)) /\ (JoinsHungUp(s) ~> JoinsEnded(s))
  BY <1>1, <1>3, <1>4, PTL
<1>9. SF_vars(Connect(s)) /\ []OnlyNamedWaits /\ []<>~stuck /\ []Inv /\ [][Next]_vars
        => (JoinsStarting(s) ~> JoinsIdle(s) \/ JoinsEnded(s))
  BY <1>1, <1>3, <1>4, PTL
<1>10. (JoinsBusy(s) ~> ~JoinsBusy(s)) /\ []Inv /\ [][Next]_vars
        => (JoinsBusy(s) ~> JoinsIdle(s))
  BY <1>3, PTL
<1>11. WF_vars(Read(s)) /\ []OnlyNamedWaits /\ []Inv /\ [][Next]_vars
        => (JoinsFull(s) ~> JoinsBusy(s))
  BY <1>1, <1>3, <1>4, PTL
<1>12. WF_vars(PollEnds(s)) /\ []OnlyNamedWaits /\ []Inv /\ [][Next]_vars
        => (JoinsQuiet(s) ~> JoinsFull(s) \/ JoinsHungUp(s) \/ JoinsIdle(s))
  BY <1>1, <1>3, <1>4, PTL
<1>13. SF_vars(Drop(s)) /\ (Left(s) ~> LoopFree(s) \/ ~Left(s)) /\ []OnlyNamedWaits /\ []Inv
         /\ [][Next]_vars => (Left(s) ~> Joining(s))
  BY <1>1, <1>3, <1>4, <1>5, PTL
<1> QED
  BY <1>2, <1>6, <1>7, <1>8, <1>9, <1>10, <1>11, <1>12, <1>13, PTL DEF Spec

-----------------------------------------------------------------------------
(* The way of a line                                                       *)

\* A worker has n lines that it has read and not yet queued.
Holds(s, n) == Len(hand[s]) = n

LEMMA HandMoves ==
  ASSUME TypeOK, EarlyInv, NEW s \in Pages, NEW n \in Nat, Holds(s, n + 1), [Next]_vars
  PROVE  /\ Holds(s, n + 1)' \/ Holds(s, n)'
         /\ Push(s) => Holds(s, n)'
<1>1. hand \in [Pages -> Seq(Lines)] /\ hand[s] \in Seq(Lines) /\ hand[s] # <<>>
  BY DEF TypeOK, Holds
<1>2. Push(s) => Holds(s, n)'
  <2>1. Len(Tail(hand[s])) = n
    BY <1>1 DEF Holds
  <2> QED BY <1>1, <2>1 DEF Push, Holds
<1>3. CASE ~StreamStep(s)
  BY <1>2, <1>3, OthersLeavePage DEF Holds
<1>4. ~Read(s)
  BY <1>1 DEF Read, EarlyInv
<1>5. CASE Subscribe(s) \/ Connect(s) \/ Check(s) \/ PollEnds(s) \/ WorkerEnds(s) \/ OpenStream(s) \/ Pull(s)
             \/ Deliver(s) \/ KeepAlive(s) \/ Leave(s) \/ Drop(s) \/ Joined(s)
  <2>1. UNCHANGED hand
    BY <1>5 DEF Subscribe, Connect, Check, PollEnds, WorkerEnds, OpenStream, Pull, Deliver, KeepAlive, Leave,
       Drop, Joined, feedVars, streamVars
  <2> QED BY <1>2, <2>1 DEF Holds
<1> QED
  BY <1>2, <1>3, <1>4, <1>5 DEF StreamStep

\* A worker queues what it has read, line by line, whatever the page, its loop and
\* the daemon do: each line it holds is queued (main.cpp:113-124,
\* ControlClient.cc:186-196).
THEOREM HandsShorten ==
  ASSUME NEW s \in Pages, NEW n \in Nat
  PROVE  Spec /\ WF_vars(Push(s)) /\ []OnlyNamedWaits => (Holds(s, n + 1) ~> Holds(s, n))
<1>1. BridgeInv /\ OnlyNamedWaits => (Holds(s, n + 1) => ENABLED <<Push(s)>>_vars)
  <2>1. BridgeInv /\ Holds(s, n + 1) => hand[s] # <<>>
    BY DEF BridgeInv, TypeOK, Holds
  <2> QED BY <2>1 DEF OnlyNamedWaits
<1>2. BridgeInv /\ [Next]_vars /\ Holds(s, n + 1) => Holds(s, n + 1)' \/ Holds(s, n)'
  BY HandMoves DEF BridgeInv
<1>3. BridgeInv /\ [Next]_vars /\ Holds(s, n + 1) /\ <<Push(s)>>_vars => Holds(s, n)'
  BY HandMoves DEF BridgeInv
<1> QED
  BY <1>1, <1>2, <1>3, BridgeInvariance, PTL DEF Spec

\* A line at the head of a live stream's queue, before and in the turn that takes it,
\* and what becomes of it.
AtHead(s, e) ==
  /\ stream[s] = "live" /\ queue[s] # <<>> /\ Head(queue[s]) = e
  /\ open[s] /\ ~cut[s]
HeadWaits(s, e) == AtHead(s, e) /\ busy[loop[s]] # s
HeadTurns(s, e) == AtHead(s, e) /\ busy[loop[s]] = s
Shown(s, e) == eventLog[s] # <<>> /\ Head(eventLog[s]) = e
LeftOrCut(s) == ~open[s] \/ cut[s]

LEMMA HeadStays ==
  ASSUME NEW S, NEW q \in Seq(S), q # <<>>, NEW e \in S
  PROVE  Append(q, e) # <<>> /\ Head(Append(q, e)) = Head(q)
<1>1. Len(q) \in Nat /\ Len(q) # 0 /\ Len(Append(q, e)) = Len(q) + 1
  OBVIOUS
<1>2. Append(q, e)[1] = q[1]
  BY <1>1
<1> QED BY <1>1, <1>2

LEMMA HeadMoves ==
  ASSUME TypeOK, LoopInv, NEW s \in Pages, NEW e \in Lines, [Next]_vars, AtHead(s, e)
  PROVE  /\ AtHead(s, e)' \/ LeftOrCut(s)' \/ (busy[loop[s]] = s /\ Shown(s, e)')
         /\ busy[loop[s]] = s => (busy'[loop'[s]] = s \/ Shown(s, e)' \/ LeftOrCut(s)')
         /\ Pull(s) => HeadTurns(s, e)'
         /\ Deliver(s) => Shown(s, e)'
<1> USE DEF AtHead
<1>1. /\ queue[s] \in Seq(Lines) /\ hand[s] \in Seq(Lines) /\ eventLog[s] \in Seq(Lines)
      /\ queue \in [Pages -> Seq(Lines)] /\ eventLog \in [Pages -> Seq(Lines)]
      /\ open[s] /\ loop[s] \in Loops
  BY DEF TypeOK, LoopInv
<1>2. CASE ~StreamStep(s)
  <2>1. ~Pull(s) /\ ~Deliver(s)
    BY <1>2 DEF StreamStep
  <2>2. /\ stream'[s] = stream[s] /\ queue'[s] = queue[s] /\ loop'[s] = loop[s]
        /\ open'[s] = open[s] /\ cut'[s] = cut[s]
    BY <1>2, OthersLeavePage
  <2>3. busy[loop[s]] = s => busy'[loop[s]] = s
    BY <1>2, OthersLeaveTurn DEF Turn
  <2> QED BY <2>1, <2>2, <2>3
<1>3. CASE Deliver(s)
  <2>1. /\ eventLog'[s] = Logged(eventLog[s], e)
        /\ busy[loop[s]] = s
        /\ ~Pull(s)
    <3>1. busy[loop[s]] = s /\ stream[s] = "live"
      BY <1>3 DEF Deliver
    <3>2. s # "free"
      BY BridgeAssumption
    <3>3. eventLog' = [eventLog EXCEPT ![s] =
            IF open[s] THEN Logged(eventLog[s], Head(queue[s])) ELSE eventLog[s]]
      BY <1>3 DEF Deliver
    <3>4. eventLog'[s] = Logged(eventLog[s], e)
      BY <1>1, <3>3
    <3> QED BY <3>1, <3>2, <3>4 DEF Pull
  <2>2. Len(Logged(eventLog[s], e)) \in 1..LogSize /\ Logged(eventLog[s], e)[1] = e
        /\ Logged(eventLog[s], e) \in Seq(Lines)
    <3>1. Lines \in SUBSET Nat /\ eventLog[s] \in Seq(Lines)
      BY <1>1, LinesAreNumbers
    <3> QED BY <3>1, LogTakes
  <2>3. Logged(eventLog[s], e) # <<>> /\ Head(Logged(eventLog[s], e)) = e
    BY <2>2, BridgeAssumption
  <2> QED BY <2>1, <2>3 DEF Shown
<1>4. CASE Push(s)
  <2>1. ~Pull(s) /\ ~Deliver(s)
    <3>1. hand[s] # <<>> /\ hand' = [hand EXCEPT ![s] = Tail(hand[s])]
      BY <1>4 DEF Push
    <3>2. hand'[s] # hand[s]
      <4>1. Len(Tail(hand[s])) # Len(hand[s])
        BY <1>1, <3>1
      <4> QED BY <3>1, <4>1 DEF TypeOK
    <3> QED BY <3>2 DEF Pull, Deliver, streamVars, feedVars
  <2>2. UNCHANGED <<stream, open, loop, busy>>
    BY <1>4 DEF Push, loopVars
  <2>3. CASE Len(queue[s]) > Cap
    <3>1. cut' = [cut EXCEPT ![s] = cut[s] \/ Len(queue[s]) > Cap]
      BY <1>4 DEF Push
    <3>2. cut'[s]
      BY <2>3, <3>1 DEF TypeOK
    <3> QED BY <2>1, <3>2 DEF LeftOrCut
  <2>4. CASE ~(Len(queue[s]) > Cap)
    <3>1. queue' = [queue EXCEPT ![s] = Pushed(queue[s], Head(hand[s]))] /\ hand[s] # <<>>
      BY <1>4 DEF Push
    <3>2. queue'[s] = Append(queue[s], Head(hand[s]))
      BY <1>1, <2>4, <3>1 DEF Pushed
    <3>3. Head(hand[s]) \in Lines
      BY <1>1, <3>1
    <3>4. queue'[s] # <<>> /\ Head(queue'[s]) = e
      BY <1>1, <3>2, <3>3, HeadStays
    <3>5. LeftOrCut(s)' \/ (open'[s] /\ ~cut'[s])
      BY DEF LeftOrCut
    <3> QED BY <2>1, <2>2, <3>4, <3>5
  <2> QED BY <2>3, <2>4
<1>5. CASE Subscribe(s) \/ Connect(s) \/ Check(s) \/ Read(s) \/ PollEnds(s) \/ WorkerEnds(s)
  <2>1. UNCHANGED <<stream, queue, open, cut, loop, busy, eventLog>>
    BY <1>5 DEF Subscribe, Connect, Check, Read, PollEnds, WorkerEnds, pageVars, loopVars
  <2>2. ~Deliver(s)
    <3>1. Deliver(s) => busy'[loop[s]] = "free" /\ busy[loop[s]] = s
      BY <1>1 DEF Deliver, TypeOK
    <3> QED BY <2>1, <3>1, BridgeAssumption
  <2>3. ~Pull(s)
    <3>1. Pull(s) => busy'[loop[s]] = s /\ busy[loop[s]] = "free"
      BY <1>1 DEF Pull, TypeOK
    <3> QED BY <2>1, <3>1, BridgeAssumption
  <2> QED BY <2>1, <2>2, <2>3
<1>6. CASE Leave(s)
  <2>1. open' = [open EXCEPT ![s] = FALSE]
    BY <1>6 DEF Leave
  <2>2. ~open'[s]
    BY <2>1 DEF TypeOK
  <2>3. ~Pull(s) /\ ~Deliver(s)
    BY <1>1, <2>2 DEF Pull, Deliver, streamVars, pageVars
  <2> QED BY <2>2, <2>3 DEF LeftOrCut
<1>7. CASE Pull(s)
  <2>1. /\ UNCHANGED <<stream, queue, open, cut, loop>>
        /\ busy' = [busy EXCEPT ![loop[s]] = s]
        /\ busy[loop[s]] = "free"
    BY <1>7 DEF Pull, streamVars, pageVars
  <2>2. busy'[loop'[s]] = s
    BY <1>1, <2>1 DEF TypeOK
  <2>3. ~Deliver(s)
    BY <2>1, BridgeAssumption DEF Deliver
  <2> QED BY <2>1, <2>2, <2>3 DEF HeadTurns
<1>8. ~OpenStream(s) /\ ~KeepAlive(s) /\ ~Drop(s) /\ ~Joined(s)
  BY <1>1 DEF OpenStream, KeepAlive, Drop, Joined
<1> QED
  BY <1>2, <1>3, <1>4, <1>5, <1>6, <1>7, <1>8 DEF StreamStep

\* A line at the head of the queue comes to be the newest that the page shows, unless
\* the page leaves or the queue is cut, if the loop is free again and again: the
\* stream's turn comes and ends with the line, whatever is queued behind it
\* (main.cpp:113-124, 545-575).
THEOREM HeadDeliveredOnceLoopTurns ==
  ASSUME NEW s \in Pages, NEW e \in Lines
  PROVE  Spec /\ SF_vars(Pull(s)) /\ WF_vars(Deliver(s)) /\ []OnlyNamedWaits
           /\ (HeadWaits(s, e) ~> LoopFree(s) \/ ~HeadWaits(s, e))
           => (AtHead(s, e) ~> LeftOrCut(s) \/ Shown(s, e))
<1>1. OnlyNamedWaits => /\ HeadWaits(s, e) /\ LoopFree(s) => ENABLED <<Pull(s)>>_vars
                        /\ HeadTurns(s, e) => ENABLED <<Deliver(s)>>_vars
  BY DEF OnlyNamedWaits, HeadWaits, HeadTurns, AtHead, LoopFree
<1>2. AtHead(s, e) <=> HeadWaits(s, e) \/ HeadTurns(s, e)
  BY DEF HeadWaits, HeadTurns
<1>3. BridgeInv /\ [Next]_vars /\ HeadWaits(s, e) =>
        HeadWaits(s, e)' \/ HeadTurns(s, e)' \/ LeftOrCut(s)' \/ Shown(s, e)'
  BY HeadMoves DEF BridgeInv, HeadWaits, HeadTurns
<1>4. BridgeInv /\ [Next]_vars /\ HeadTurns(s, e) =>
        HeadTurns(s, e)' \/ LeftOrCut(s)' \/ Shown(s, e)'
  BY HeadMoves DEF BridgeInv, HeadTurns
<1>5. BridgeInv /\ [Next]_vars /\ HeadWaits(s, e) /\ <<Pull(s)>>_vars => HeadTurns(s, e)'
  BY HeadMoves DEF BridgeInv, HeadWaits
<1>6. BridgeInv /\ [Next]_vars /\ HeadTurns(s, e) /\ <<Deliver(s)>>_vars => Shown(s, e)'
  BY HeadMoves DEF BridgeInv, HeadTurns
<1> QED
  BY <1>1, <1>2, <1>3, <1>4, <1>5, <1>6, BridgeInvariance, PTL DEF Spec
=============================================================================
