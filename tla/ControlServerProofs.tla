------------------------- MODULE ControlServerProofs -------------------------
(***************************************************************************)
(* Proofs about ControlServer, for every set of clients and of descriptor  *)
(* numbers, every script and any number of presses: the safety properties, *)
(* the refinement of Broadcast, and the liveness that needs no induction.  *)
(***************************************************************************)
EXTENDS ControlServer, TLAPS

\* A client is new until it has a thread, and an observer is in the map while
\* its thread streams or is about to remove it.
Registered ==
  \A c \in Clients :
    /\ peer[c] = "new" <=> tpc[c] = "none"
    /\ c \in observers <=> tpc[c] \in {"stream", "remove"}

\* No two open connections have one number.
OwnNumber ==
  \A c, o \in Clients : Open(c) /\ Open(o) /\ fd[c] = fd[o] => c = o

\* The copy of the map holds observers that were registered once, and none is
\* left outside notify.
CopyInv ==
  /\ todo # {} => pc = "call" /\ pressed > 0
  /\ \A c \in todo : tpc[c] \in {"stream", "remove", "close", "done"}

\* A late call took the observer out of the copy, and it cannot come back.
LateInv ==
  \A c \in Clients :
    /\ late[c] <= 1
    /\ late[c] = 1 => c \notin todo /\ tpc[c] \in {"close", "done"}

\* The last press an observer should have been told of.
Due(c) == IF c \in todo THEN pressed - 1 ELSE pressed

\* A feed begins empty, and the feed of an observer that may still be called
\* ends with the press that is due; a registered one has every press since it
\* subscribed.
FeedInv ==
  \A c \in Clients :
    /\ tpc[c] \in {"none", "read"} => feed[c] = <<>>
    /\ ~disc[c] /\ (c \in observers \/ c \in todo) =>
         feed[c] = <<>> \/ feed[c][Len(feed[c])] = Due(c)
    /\ ~disc[c] /\ c \in observers => Len(feed[c]) + since[c] = Due(c)

\* What a client sent is answered, or in the buffer, or in the socket.
AnswerInv ==
  \A c \in Clients :
    tpc[c] \in {"none", "read"} /\ peer[c] # "closed"
      => sent[c] = replies[c] + Len(buf[c]) + Len(sock[c])

ControlInv ==
  /\ TypeOK
  /\ Registered
  /\ OwnNumber
  /\ CopyInv
  /\ LateInv
  /\ FeedInv
  /\ AnswerInv

-----------------------------------------------------------------------------

LEMMA ControlInvInit == Init => ControlInv
<1> SUFFICES ASSUME Init PROVE ControlInv
  OBVIOUS
<1>1. TypeOK
  <2>1. 0 \in 0..Room
    BY ControlAssumption
  <2>2. /\ fd \in [Clients -> Fds \cup {NoFd}]
        /\ \A c \in Clients : tpc[c] \notin Serving
        /\ tpc \in [Clients -> Serving \cup {"none", "done"}]
        /\ peer \in [Clients -> {"new", "open", "closed"}]
    BY DEF Init, Serving
  <2>3. /\ sock \in [Clients -> Seq(Requests)]
        /\ buf \in [Clients -> Seq(Requests)]
        /\ feed \in [Clients -> Seq(Nat)]
    BY DEF Init
  <2>4. /\ sent \in [Clients -> Nat]
        /\ replies \in [Clients -> Nat]
        /\ since \in [Clients -> Nat]
        /\ late \in [Clients -> Nat]
        /\ unread \in [Clients -> 0..Room]
        /\ pressed \in Nat
    BY <2>1 DEF Init
  <2>5. /\ observers \in SUBSET Clients
        /\ disc \in [Clients -> BOOLEAN]
        /\ running \in BOOLEAN
        /\ apc \in {"poll", "exited"}
        /\ pc \in {"loop", "call", "join", "ended"}
        /\ todo \in SUBSET Clients
        /\ crashed \in BOOLEAN
    BY DEF Init
  <2> QED BY <2>2, <2>3, <2>4, <2>5 DEF TypeOK
<1>2. Registered /\ OwnNumber /\ CopyInv /\ LateInv /\ FeedInv /\ AnswerInv
  BY DEF Init, Registered, OwnNumber, CopyInv, LateInv, FeedInv, AnswerInv, Open, Serving
<1> QED
  BY <1>1, <1>2 DEF ControlInv

LEMMA SendKeeps ==
  ASSUME ControlInv, NEW c \in Clients, Send(c)
  PROVE  ControlInv'
<1> USE DEF ControlInv, clientVars, threadVars, subscriptionVars, mainVars, callVars, processVars
<1>1. TypeOK'
  <2>1. Script[c] \in Seq(SUBSET Requests) /\ sent[c] \in Nat
    BY ControlAssumption DEF TypeOK
  <2>2. sent[c] + 1 \in 1..Len(Script[c])
    BY <2>1 DEF Send
  <2>3. Script[c][sent[c] + 1] \subseteq Requests
    BY <2>1, <2>2
  <2>4. sock' \in [Clients -> Seq(Requests)]
    BY <2>3 DEF Send, TypeOK
  <2>5. sent' \in [Clients -> Nat]
    BY <2>1 DEF Send, TypeOK
  <2> QED BY <2>4, <2>5 DEF Send, TypeOK
<1>2. Registered'
  BY DEF Send, Registered, TypeOK
<1>3. OwnNumber'
  BY DEF Send, OwnNumber, Open, Serving, Invalid, Names, TypeOK
<1>4. CopyInv'
  BY DEF Send, CopyInv, TypeOK
<1>5. LateInv'
  BY DEF Send, LateInv, TypeOK
<1>6. FeedInv'
  BY DEF Send, FeedInv, Due, TypeOK
<1>7. AnswerInv'
  <2>1. sent[c] \in Nat /\ sock[c] \in Seq(Requests) /\ peer[c] = "open"
    BY DEF Send, TypeOK
  <2>2. Len(sock'[c]) = Len(sock[c]) + 1 /\ sent'[c] = sent[c] + 1
    BY <2>1 DEF Send, TypeOK
  <2>3. \A o \in Clients : replies[o] \in Nat /\ Len(buf[o]) \in Nat /\ Len(sock[o]) \in Nat
    BY SMTT(30) DEF TypeOK
  <2>4. \A o \in Clients \ {c} : sock'[o] = sock[o] /\ sent'[o] = sent[o]
    BY DEF Send, TypeOK
  <2>5. tpc[c] \in {"none", "read"} =>
          sent'[c] = replies[c] + Len(buf[c]) + Len(sock'[c])
    <3>1. replies[c] \in Nat /\ Len(buf[c]) \in Nat /\ Len(sock[c]) \in Nat
      BY <2>3
    <3>2. peer[c] # "closed"
      BY <2>1
    <3>3. tpc[c] \in {"none", "read"} => sent[c] = replies[c] + Len(buf[c]) + Len(sock[c])
      BY <3>2 DEF AnswerInv
    <3>4. \A r, b, k \in Nat : (r + b + k) + 1 = r + b + (k + 1)
      OBVIOUS
    <3>5. (replies[c] + Len(buf[c]) + Len(sock[c])) + 1
            = replies[c] + Len(buf[c]) + (Len(sock[c]) + 1)
      BY <3>1, <3>4
    <3> QED BY <2>2, <3>3, <3>5
  <2> QED BY <2>4, <2>5 DEF Send, AnswerInv
<1> QED
  BY <1>1, <1>2, <1>3, <1>4, <1>5, <1>6, <1>7

LEMMA ClientReadKeeps ==
  ASSUME ControlInv, NEW c \in Clients, ClientRead(c)
  PROVE  ControlInv'
<1> USE DEF ControlInv, clientVars, threadVars, subscriptionVars, mainVars, callVars, processVars
<1>1. TypeOK'
  <2>1. unread[c] - 1 \in 0..Room
    BY ControlAssumption DEF ClientRead, TypeOK
  <2> QED BY <2>1 DEF ClientRead, TypeOK, Serving
<1>2. Registered'
  BY DEF ClientRead, Registered, TypeOK
<1>3. OwnNumber'
  BY DEF ClientRead, OwnNumber, Open, Serving, Invalid, Names, TypeOK
<1>4. CopyInv'
  BY DEF ClientRead, CopyInv, TypeOK
<1>5. LateInv'
  BY DEF ClientRead, LateInv, TypeOK
<1>6. FeedInv'
  BY DEF ClientRead, FeedInv, Due, TypeOK
<1>7. AnswerInv'
  BY DEF ClientRead, AnswerInv, TypeOK
<1> QED
  BY <1>1, <1>2, <1>3, <1>4, <1>5, <1>6, <1>7

LEMMA ClientCloseKeeps ==
  ASSUME ControlInv, NEW c \in Clients, ClientClose(c)
  PROVE  ControlInv'
<1> USE DEF ControlInv, clientVars, threadVars, subscriptionVars, mainVars, callVars, processVars
<1>1. TypeOK'
  <2>1. 0 \in 0..Room
    BY ControlAssumption
  <2> QED BY <2>1 DEF ClientClose, TypeOK, Serving
<1>2. Registered'
  BY DEF ClientClose, Registered, TypeOK
<1>3. OwnNumber'
  BY DEF ClientClose, OwnNumber, Open, Serving, Invalid, Names, TypeOK
<1>4. CopyInv'
  BY DEF ClientClose, CopyInv, TypeOK
<1>5. LateInv'
  BY DEF ClientClose, LateInv, TypeOK
<1>6. FeedInv'
  BY DEF ClientClose, FeedInv, Due, TypeOK
<1>7. AnswerInv'
  BY DEF ClientClose, AnswerInv, TypeOK
<1> QED
  BY <1>1, <1>2, <1>3, <1>4, <1>5, <1>6, <1>7

LEMMA AcceptKeeps ==
  ASSUME ControlInv, NEW c \in Clients, Accept(c)
  PROVE  ControlInv'
<1> USE DEF ControlInv, clientVars, threadVars, subscriptionVars, mainVars, callVars, processVars
<1>1. TypeOK'
  BY DEF Accept, Accepted, TypeOK, Serving
<1>2. Registered'
  BY DEF Accept, Registered, TypeOK
<1>3. OwnNumber'
  <2>1. PICK f \in Fds : Invalid(f) /\ fd' = [fd EXCEPT ![c] = f]
    BY DEF Accept, Accepted
  <2>2. \A o \in Clients : Open(o) => fd[o] # f
    BY <2>1 DEF Invalid, Names
  <2>3. \A o \in Clients \ {c} : (Open(o)' <=> Open(o)) /\ fd'[o] = fd[o]
    BY <2>1 DEF Accept, Open, TypeOK
  <2> QED BY <2>1, <2>2, <2>3 DEF OwnNumber, TypeOK
<1>4. CopyInv'
  BY DEF Accept, CopyInv, Registered, TypeOK
<1>5. LateInv'
  BY DEF Accept, LateInv, Registered, TypeOK
<1>6. FeedInv'
  BY DEF Accept, FeedInv, Due, Registered, TypeOK
<1>7. AnswerInv'
  BY DEF Accept, AnswerInv, Registered, TypeOK
<1> QED
  BY <1>1, <1>2, <1>3, <1>4, <1>5, <1>6, <1>7

LEMMA AcceptLeaveKeeps ==
  ASSUME ControlInv, AcceptLeave
  PROVE  ControlInv'
<1> USE DEF ControlInv, clientVars, threadVars, subscriptionVars, mainVars, callVars, processVars
<1>1. TypeOK'
  BY DEF AcceptLeave, TypeOK, Serving
<1>2. Registered'
  BY DEF AcceptLeave, Registered, TypeOK
<1>3. OwnNumber'
  BY DEF AcceptLeave, OwnNumber, Open, Serving, Invalid, Names, TypeOK
<1>4. CopyInv'
  BY DEF AcceptLeave, CopyInv, TypeOK
<1>5. LateInv'
  BY DEF AcceptLeave, LateInv, TypeOK
<1>6. FeedInv'
  BY DEF AcceptLeave, FeedInv, Due, TypeOK
<1>7. AnswerInv'
  BY DEF AcceptLeave, AnswerInv, TypeOK
<1> QED
  BY <1>1, <1>2, <1>3, <1>4, <1>5, <1>6, <1>7

LEMMA ReadRequestsKeeps ==
  ASSUME ControlInv, NEW c \in Clients, ReadRequests(c)
  PROVE  ControlInv'
<1> USE DEF ControlInv, clientVars, threadVars, subscriptionVars, mainVars, callVars, processVars
<1>1. TypeOK'
  BY DEF ReadRequests, TypeOK, Serving
<1>2. Registered'
  BY DEF ReadRequests, Registered, TypeOK
<1>3. OwnNumber'
  BY DEF ReadRequests, OwnNumber, Open, Serving, Invalid, Names, TypeOK
<1>4. CopyInv'
  BY DEF ReadRequests, CopyInv, TypeOK
<1>5. LateInv'
  BY DEF ReadRequests, LateInv, TypeOK
<1>6. FeedInv'
  BY DEF ReadRequests, FeedInv, Due, TypeOK
<1>7. AnswerInv'
  BY SMTT(30) DEF ReadRequests, AnswerInv, TypeOK
<1> QED
  BY <1>1, <1>2, <1>3, <1>4, <1>5, <1>6, <1>7

LEMMA ReadEndsKeeps ==
  ASSUME ControlInv, NEW c \in Clients, ReadEnds(c)
  PROVE  ControlInv'
<1> USE DEF ControlInv, clientVars, threadVars, subscriptionVars, mainVars, callVars, processVars
<1>1. TypeOK'
  BY DEF ReadEnds, TypeOK, Serving
<1>2. Registered'
  BY DEF ReadEnds, Registered, TypeOK
<1>3. OwnNumber'
  BY DEF ReadEnds, OwnNumber, Open, Serving, Invalid, Names, TypeOK
<1>4. CopyInv'
  BY DEF ReadEnds, CopyInv, TypeOK
<1>5. LateInv'
  BY DEF ReadEnds, LateInv, TypeOK
<1>6. FeedInv'
  BY DEF ReadEnds, FeedInv, Due, TypeOK
<1>7. AnswerInv'
  BY DEF ReadEnds, AnswerInv, TypeOK
<1> QED
  BY <1>1, <1>2, <1>3, <1>4, <1>5, <1>6, <1>7

LEMMA AnswerKeeps ==
  ASSUME ControlInv, NEW c \in Clients, Answer(c)
  PROVE  ControlInv'
<1> USE DEF ControlInv, clientVars, threadVars, subscriptionVars, mainVars, callVars, processVars
<1>1. TypeOK'
  <2>1. unread[c] + 1 \in 0..Room
    BY ControlAssumption DEF Answer, Writable, TypeOK
  <2>2. unread' \in [Clients -> 0..Room] /\ replies' \in [Clients -> Nat]
    BY <2>1 DEF Answer, TypeOK
  <2>3. buf' \in [Clients -> Seq(Requests)]
    BY DEF Answer, AfterLine, NextLineIs, TypeOK
  <2> QED BY <2>2, <2>3 DEF Answer, TypeOK
<1>2. Registered'
  BY DEF Answer, NextLineIs, AfterLine, Writable, Names, Open, Registered, TypeOK
<1>3. OwnNumber'
  BY DEF Answer, NextLineIs, AfterLine, Writable, Names, Open, OwnNumber, Serving, Invalid, TypeOK
<1>4. CopyInv'
  BY DEF Answer, NextLineIs, AfterLine, Writable, Names, Open, CopyInv, TypeOK
<1>5. LateInv'
  BY DEF Answer, NextLineIs, AfterLine, Writable, Names, Open, LateInv, TypeOK
<1>6. FeedInv'
  BY DEF Answer, NextLineIs, AfterLine, Writable, Names, Open, FeedInv, Due, TypeOK
<1>7. AnswerInv'
  <2>1. replies[c] \in Nat /\ buf[c] \in Seq(Requests) /\ buf[c] # <<>> /\ sock[c] \in Seq(Requests)
    BY DEF Answer, NextLineIs, TypeOK
  <2>2. replies'[c] = replies[c] + 1 /\ Len(buf'[c]) = Len(buf[c]) - 1
    BY <2>1 DEF Answer, AfterLine, TypeOK
  <2>3. \A o \in Clients \ {c} : replies'[o] = replies[o] /\ buf'[o] = buf[o]
    BY DEF Answer, TypeOK
  <2>4. Len(buf[c]) \in Nat /\ Len(sock[c]) \in Nat
    BY <2>1
  <2>5. tpc[c] \in {"none", "read"} /\ peer[c] # "closed" =>
          sent[c] = replies'[c] + Len(buf'[c]) + Len(sock[c])
    BY <2>1, <2>2, <2>4 DEF AnswerInv
  <2> QED BY <2>3, <2>5 DEF Answer, AnswerInv
<1> QED
  BY <1>1, <1>2, <1>3, <1>4, <1>5, <1>6, <1>7

LEMMA AnswerNobodyKeeps ==
  ASSUME ControlInv, NEW c \in Clients, AnswerNobody(c)
  PROVE  ControlInv'
<1> USE DEF ControlInv, clientVars, threadVars, subscriptionVars, mainVars, callVars, processVars
<1>1. TypeOK'
  BY SMTT(30) DEF AnswerNobody, NextLineIs, AfterLine, TypeOK, Serving
<1>2. Registered'
  BY DEF AnswerNobody, NextLineIs, AfterLine, Registered, TypeOK
<1>3. OwnNumber'
  BY DEF AnswerNobody, NextLineIs, AfterLine, OwnNumber, Open, Serving, Invalid, Names, TypeOK
<1>4. CopyInv'
  BY DEF AnswerNobody, NextLineIs, AfterLine, CopyInv, TypeOK
<1>5. LateInv'
  BY DEF AnswerNobody, NextLineIs, AfterLine, LateInv, TypeOK
<1>6. FeedInv'
  BY DEF AnswerNobody, NextLineIs, AfterLine, FeedInv, Due, TypeOK
<1>7. AnswerInv'
  <2>1. peer[c] = "closed"
    BY DEF AnswerNobody, Broken, Names, OwnNumber, NextLineIs, Open, Serving
  <2>2. \A o \in Clients \ {c} : buf'[o] = buf[o]
    BY DEF AnswerNobody, TypeOK
  <2> QED BY <2>1, <2>2 DEF AnswerNobody, AnswerInv
<1> QED
  BY <1>1, <1>2, <1>3, <1>4, <1>5, <1>6, <1>7

LEMMA ThrowKeeps ==
  ASSUME ControlInv, NEW c \in Clients, Throw(c)
  PROVE  ControlInv'
<1>1. UNCHANGED <<peer, sock, buf, unread, tpc, fd, observers, disc, running, apc, pc, todo,
                  sent, replies, pressed, since, feed, late>>
  BY DEF Throw, clientVars, threadVars, subscriptionVars, mainVars, callVars
<1>2. crashed' \in BOOLEAN
  BY DEF Throw
<1>3. TypeOK'
  BY <1>1, <1>2 DEF ControlInv, TypeOK
<1>4. Registered' /\ OwnNumber' /\ CopyInv' /\ LateInv' /\ FeedInv' /\ AnswerInv'
  BY <1>1 DEF ControlInv, Registered, OwnNumber, Open, CopyInv, LateInv, FeedInv, Due, AnswerInv
<1> QED
  BY <1>3, <1>4 DEF ControlInv

LEMMA SubscribeKeeps ==
  ASSUME ControlInv, NEW c \in Clients, Subscribe(c)
  PROVE  ControlInv'
<1> USE DEF ControlInv, clientVars, threadVars, subscriptionVars, mainVars, callVars, processVars
<1>1. TypeOK'
  BY SMTT(30) DEF Subscribe, NextLineIs, AfterLine, WithObserver, TypeOK, Serving
<1>2. Registered'
  BY DEF Subscribe, NextLineIs, AfterLine, WithObserver, Registered, TypeOK
<1>3. OwnNumber'
  BY DEF Subscribe, NextLineIs, AfterLine, WithObserver, OwnNumber, Open, Serving, Invalid, Names, TypeOK
<1>4. CopyInv'
  BY DEF Subscribe, NextLineIs, AfterLine, WithObserver, CopyInv, TypeOK
<1>5. LateInv'
  BY DEF Subscribe, NextLineIs, AfterLine, WithObserver, LateInv, TypeOK
<1>6. FeedInv'
  <2>1. /\ feed[c] = <<>> /\ c \notin todo
        /\ since'[c] = pressed /\ pressed \in Nat
    BY DEF Subscribe, NextLineIs, FeedInv, CopyInv, TypeOK
  <2>2. \A o \in Clients \ {c} : since'[o] = since[o] /\ (o \in observers' <=> o \in observers)
    BY DEF Subscribe, WithObserver, TypeOK
  <2>3. \A o \in Clients \ {c} : tpc'[o] = tpc[o]
    BY DEF Subscribe, TypeOK
  <2>4. tpc'[c] = "stream" /\ UNCHANGED <<feed, disc, todo, pressed>>
    BY DEF Subscribe, TypeOK
  <2> QED BY <2>1, <2>2, <2>3, <2>4 DEF FeedInv, Due
<1>7. AnswerInv'
  BY DEF Subscribe, NextLineIs, AfterLine, WithObserver, AnswerInv, TypeOK
<1> QED
  BY <1>1, <1>2, <1>3, <1>4, <1>5, <1>6, <1>7

LEMMA LeaveStreamKeeps ==
  ASSUME ControlInv, NEW c \in Clients, LeaveStream(c)
  PROVE  ControlInv'
<1> USE DEF ControlInv, clientVars, threadVars, subscriptionVars, mainVars, callVars, processVars
<1>1. TypeOK'
  BY DEF LeaveStream, TypeOK, Serving
<1>2. Registered'
  BY DEF LeaveStream, Registered, TypeOK
<1>3. OwnNumber'
  BY DEF LeaveStream, OwnNumber, Open, Serving, Invalid, Names, TypeOK
<1>4. CopyInv'
  BY DEF LeaveStream, CopyInv, TypeOK
<1>5. LateInv'
  BY DEF LeaveStream, LateInv, TypeOK
<1>6. FeedInv'
  BY DEF LeaveStream, FeedInv, Due, TypeOK
<1>7. AnswerInv'
  BY DEF LeaveStream, AnswerInv, TypeOK
<1> QED
  BY <1>1, <1>2, <1>3, <1>4, <1>5, <1>6, <1>7

LEMMA UnsubscribeKeeps ==
  ASSUME ControlInv, NEW c \in Clients, Unsubscribe(c)
  PROVE  ControlInv'
<1> USE DEF ControlInv, clientVars, threadVars, subscriptionVars, mainVars, callVars, processVars
<1>1. TypeOK'
  BY DEF Unsubscribe, WithoutObserver, TypeOK, Serving
<1>2. Registered'
  BY DEF Unsubscribe, WithoutObserver, Registered, TypeOK
<1>3. OwnNumber'
  BY DEF Unsubscribe, WithoutObserver, OwnNumber, Open, Serving, Invalid, Names, TypeOK
<1>4. CopyInv'
  BY DEF Unsubscribe, WithoutObserver, CopyInv, TypeOK
<1>5. LateInv'
  BY DEF Unsubscribe, WithoutObserver, LateInv, TypeOK
<1>6. FeedInv'
  BY DEF Unsubscribe, WithoutObserver, FeedInv, Due, TypeOK
<1>7. AnswerInv'
  BY DEF Unsubscribe, WithoutObserver, AnswerInv, TypeOK
<1> QED
  BY <1>1, <1>2, <1>3, <1>4, <1>5, <1>6, <1>7

LEMMA CloseFdKeeps ==
  ASSUME ControlInv, NEW c \in Clients, CloseFd(c)
  PROVE  ControlInv'
<1> USE DEF ControlInv, clientVars, threadVars, subscriptionVars, mainVars, callVars, processVars
<1>1. TypeOK'
  <2>1. 0 \in 0..Room
    BY ControlAssumption
  <2> QED BY <2>1, SMTT(30) DEF CloseFd, TypeOK, Serving
<1>2. Registered'
  BY DEF CloseFd, Registered, TypeOK
<1>3. OwnNumber'
  BY DEF CloseFd, OwnNumber, Open, Serving, Invalid, Names, TypeOK
<1>4. CopyInv'
  BY DEF CloseFd, CopyInv, TypeOK
<1>5. LateInv'
  BY DEF CloseFd, LateInv, TypeOK
<1>6. FeedInv'
  <2>1. c \notin observers
    BY DEF CloseFd, Registered
  <2>2. \A o \in Clients \ {c} : since'[o] = since[o] /\ tpc'[o] = tpc[o]
    BY DEF CloseFd, TypeOK
  <2>3. tpc'[c] = "done" /\ UNCHANGED <<feed, disc, todo, pressed, observers>>
    BY DEF CloseFd, TypeOK
  <2> QED BY <2>1, <2>2, <2>3 DEF FeedInv, Due
<1>7. AnswerInv'
  BY DEF CloseFd, AnswerInv, TypeOK
<1> QED
  BY <1>1, <1>2, <1>3, <1>4, <1>5, <1>6, <1>7

LEMMA NotifyKeeps ==
  ASSUME ControlInv, Notify
  PROVE  ControlInv'
<1> USE DEF ControlInv, clientVars, threadVars, subscriptionVars, mainVars, callVars, processVars
<1>1. TypeOK'
  BY DEF Notify, TypeOK, Serving
<1>2. Registered'
  BY DEF Notify, Registered, TypeOK
<1>3. OwnNumber'
  BY DEF Notify, OwnNumber, Open, Serving, Invalid, Names, TypeOK
<1>4. CopyInv'
  <2>1. todo' # {} => pressed' > 0
    BY DEF Notify, CopyInv, TypeOK
  <2>2. todo' \in {todo, observers} /\ pc' = "call" /\ UNCHANGED tpc
    BY DEF Notify
  <2> QED BY <2>1, <2>2 DEF CopyInv, Registered, TypeOK
<1>5. LateInv'
  BY DEF Notify, LateInv, CopyInv, Registered, TypeOK
<1>6. FeedInv'
  <2>1. todo = {} /\ pressed \in Nat
    BY DEF Notify, CopyInv, TypeOK
  <2>2. UNCHANGED <<tpc, feed, disc, observers, since>>
    BY DEF Notify
  <2>3. \A o \in Clients : o \in observers \/ o \in todo' => Due(o)' = Due(o)
    BY <2>1 DEF Notify, Due
  <2>4. \A o \in todo' : o \in observers
    BY <2>1 DEF Notify
  <2> QED BY <2>2, <2>3, <2>4 DEF FeedInv
<1>7. AnswerInv'
  BY DEF Notify, AnswerInv, TypeOK
<1> QED
  BY <1>1, <1>2, <1>3, <1>4, <1>5, <1>6, <1>7

LEMMA CallSkippedKeeps ==
  ASSUME ControlInv, NEW c \in Clients, CallSkipped(c)
  PROVE  ControlInv'
<1> USE DEF ControlInv, clientVars, threadVars, subscriptionVars, mainVars, callVars, processVars
<1>1. TypeOK'
  BY DEF CallSkipped, Called, OthersToCall, TypeOK, Serving
<1>2. Registered'
  BY DEF CallSkipped, Called, OthersToCall, Registered, TypeOK
<1>3. OwnNumber'
  BY DEF CallSkipped, Called, OthersToCall, OwnNumber, Open, Serving, Invalid, Names, TypeOK
<1>4. CopyInv'
  BY DEF CallSkipped, Called, OthersToCall, CopyInv, TypeOK
<1>5. LateInv'
  BY DEF CallSkipped, Called, OthersToCall, LateInv, TypeOK
<1>6. FeedInv'
  BY DEF CallSkipped, Called, OthersToCall, FeedInv, Due, TypeOK
<1>7. AnswerInv'
  BY DEF CallSkipped, Called, OthersToCall, AnswerInv, TypeOK
<1> QED
  BY <1>1, <1>2, <1>3, <1>4, <1>5, <1>6, <1>7

\* A call that writes takes the observer out of the copy, late or not.
LEMMA LateCallKeeps ==
  ASSUME ControlInv, NEW c \in Clients, CallWrites(c)
  PROVE  LateInv'
<1>1. c \in todo /\ todo' = todo \ {c} /\ UNCHANGED tpc
  BY DEF CallWrites, Called, OthersToCall, threadVars
<1>2. late[c] = 0
  <2>1. late[c] \in Nat /\ late[c] <= 1 /\ late[c] # 1
    BY <1>1 DEF ControlInv, LateInv, TypeOK
  <2> QED BY <2>1
<1>3. c \notin observers => tpc[c] \in {"close", "done"}
  BY <1>1 DEF ControlInv, CopyInv, Registered
<1>4. late' = IF c \in observers THEN late ELSE [late EXCEPT ![c] = @ + 1]
  BY DEF CallWrites
<1> QED
  BY <1>1, <1>2, <1>3, <1>4, SMTT(30) DEF ControlInv, LateInv, TypeOK

LEMMA CallDeliversKeeps ==
  ASSUME ControlInv, NEW c \in Clients, CallDelivers(c)
  PROVE  ControlInv'
<1> USE DEF ControlInv, clientVars, threadVars, subscriptionVars, mainVars, callVars, processVars
<1>1. TypeOK'
  <2>1. PICK o \in Clients : Writable(fd[c], o) /\ unread' = [unread EXCEPT ![o] = @ + 1]
    BY DEF CallDelivers
  <2>2. unread' \in [Clients -> 0..Room]
    <3>1. unread[o] + 1 \in 0..Room
      <4>1. unread[o] < Room /\ unread[o] \in 0..Room
        BY <2>1 DEF Writable, TypeOK
      <4> QED BY <4>1, ControlAssumption
    <3> QED BY <2>1, <3>1 DEF TypeOK
  <2>3. feed' \in [Clients -> Seq(Nat)]
    <3>1. Told(c) \in [Clients -> Seq(Nat)]
      BY DEF Told, TypeOK
    <3>2. feed' = Told(c) \/ feed' = feed
      BY DEF CallDelivers
    <3> QED BY <3>1, <3>2 DEF TypeOK
  <2>4. late' \in [Clients -> Nat]
    <3>1. late[c] + 1 \in Nat
      BY SMTT(30) DEF TypeOK
    <3> QED BY <3>1 DEF CallDelivers, CallWrites, TypeOK
  <2> QED BY <2>2, <2>3, <2>4 DEF CallDelivers, CallWrites, Called, OthersToCall, TypeOK
<1>2. Registered'
  BY DEF CallDelivers, CallWrites, Called, OthersToCall, Told, Writable, Names, Open, Registered, TypeOK
<1>3. OwnNumber'
  BY DEF CallDelivers, CallWrites, Called, OthersToCall, Told, Writable, Names, Open, OwnNumber, Serving, Invalid, TypeOK
<1>4. CopyInv'
  BY DEF CallDelivers, CallWrites, Called, OthersToCall, Told, Writable, Names, Open, CopyInv, TypeOK
<1>5. LateInv'
  BY LateCallKeeps DEF CallDelivers
<1>6. FeedInv'
  <2>1. \/ feed' = Told(c)
        \/ feed' = feed /\ c \notin observers
    <3>1. PICK o \in Clients : Names(fd[c], o) /\ feed' = (IF o = c THEN Told(c) ELSE feed)
      BY DEF CallDelivers, Writable
    <3>2. c \in observers => o = c
      BY <3>1 DEF Registered, OwnNumber, Names, Open, Serving
    <3> QED BY <3>1, <3>2
  <2>2. /\ c \in todo /\ c \notin todo' /\ ~disc[c] /\ todo' = todo \ {c}
        /\ UNCHANGED <<tpc, disc, observers, since, pressed>>
    BY DEF CallDelivers, CallWrites, Called, OthersToCall
  <2>3. \A o \in Clients : /\ feed[o] \in Seq(Nat) /\ since[o] \in Nat /\ pressed \in Nat
                          /\ Len(feed[o]) \in Nat
    BY DEF TypeOK
  <2>4. \A o \in Clients \ {c} : feed'[o] = feed[o] /\ Due(o)' = Due(o) /\ (o \in todo' <=> o \in todo)
    BY <2>1, <2>2 DEF Told, Due, TypeOK
  <2>5. tpc[c] \notin {"none", "read"}
    BY <2>2 DEF CopyInv
  <2>6. c \in observers' \/ c \in todo' =>
          feed'[c][Len(feed'[c])] = Due(c)' /\ Len(feed'[c]) + since'[c] = Due(c)'
    <3> SUFFICES ASSUME c \in observers
                 PROVE  feed'[c][Len(feed'[c])] = Due(c)' /\ Len(feed'[c]) + since'[c] = Due(c)'
      BY <2>2
    <3>1. feed'[c] = Append(feed[c], pressed)
      BY <2>1 DEF Told, TypeOK
    <3>2. Len(feed'[c]) = Len(feed[c]) + 1 /\ feed'[c][Len(feed'[c])] = pressed
      BY <2>3, <3>1
    <3>3. Len(feed[c]) + since[c] = pressed - 1
      BY <2>2 DEF FeedInv, Due
    <3>4. Due(c)' = pressed
      BY <2>2 DEF Due
    <3> QED BY <2>2, <2>3, <3>2, <3>3, <3>4
  <2> QED BY <2>2, <2>4, <2>5, <2>6 DEF FeedInv
<1>7. AnswerInv'
  BY DEF CallDelivers, CallWrites, Called, OthersToCall, Told, Writable, Names, Open, AnswerInv, TypeOK
<1> QED
  BY <1>1, <1>2, <1>3, <1>4, <1>5, <1>6, <1>7

LEMMA CallFailsKeeps ==
  ASSUME ControlInv, NEW c \in Clients, CallFails(c)
  PROVE  ControlInv'
<1> USE DEF ControlInv, clientVars, threadVars, subscriptionVars, mainVars, callVars, processVars
<1>1. TypeOK'
  <2>1. crashed' \in BOOLEAN
    BY Zenon DEF CallFails
  <2>2. late' \in [Clients -> Nat] /\ disc' \in [Clients -> BOOLEAN]
    BY DEF CallFails, CallWrites, TypeOK
  <2> QED BY <2>1, <2>2 DEF CallFails, CallWrites, Called, OthersToCall, TypeOK
<1>2. Registered'
  BY DEF CallFails, CallWrites, Called, OthersToCall, Registered, TypeOK
<1>3. OwnNumber'
  BY DEF CallFails, CallWrites, Called, OthersToCall, OwnNumber, Open, Serving, Invalid, Names, TypeOK
<1>4. CopyInv'
  BY DEF CallFails, CallWrites, Called, OthersToCall, CopyInv, TypeOK
<1>5. LateInv'
  BY LateCallKeeps DEF CallFails
<1>6. FeedInv'
  BY DEF CallFails, CallWrites, Called, OthersToCall, FeedInv, Due, TypeOK
<1>7. AnswerInv'
  BY DEF CallFails, CallWrites, Called, OthersToCall, AnswerInv, TypeOK
<1> QED
  BY <1>1, <1>2, <1>3, <1>4, <1>5, <1>6, <1>7

LEMMA CallInterruptedKeeps ==
  ASSUME ControlInv, NEW c \in Clients, CallInterrupted(c)
  PROVE  ControlInv'
<1> USE DEF ControlInv, clientVars, threadVars, subscriptionVars, mainVars, callVars, processVars
<1>1. TypeOK'
  <2>1. running' \in BOOLEAN
    BY Zenon DEF CallInterrupted, TypeOK
  <2>2. late' \in [Clients -> Nat] /\ disc' \in [Clients -> BOOLEAN]
    BY DEF CallInterrupted, CallWrites, TypeOK
  <2> QED BY <2>1, <2>2 DEF CallInterrupted, CallWrites, Called, OthersToCall, TypeOK
<1>2. Registered'
  BY DEF CallInterrupted, CallWrites, Called, OthersToCall, Registered, TypeOK
<1>3. OwnNumber'
  BY DEF CallInterrupted, CallWrites, Called, OthersToCall, OwnNumber, Open, Serving, Invalid, Names, TypeOK
<1>4. CopyInv'
  BY DEF CallInterrupted, CallWrites, Called, OthersToCall, CopyInv, TypeOK
<1>5. LateInv'
  BY LateCallKeeps DEF CallInterrupted
<1>6. FeedInv'
  BY DEF CallInterrupted, CallWrites, Called, OthersToCall, FeedInv, Due, TypeOK
<1>7. AnswerInv'
  BY DEF CallInterrupted, CallWrites, Called, OthersToCall, AnswerInv, TypeOK
<1> QED
  BY <1>1, <1>2, <1>3, <1>4, <1>5, <1>6, <1>7

LEMMA NotifyDoneKeeps ==
  ASSUME ControlInv, NotifyDone
  PROVE  ControlInv'
<1> USE DEF ControlInv, clientVars, threadVars, subscriptionVars, mainVars, callVars, processVars
<1>1. TypeOK'
  BY DEF NotifyDone, TypeOK, Serving
<1>2. Registered'
  BY DEF NotifyDone, Registered, TypeOK
<1>3. OwnNumber'
  BY DEF NotifyDone, OwnNumber, Open, Serving, Invalid, Names, TypeOK
<1>4. CopyInv'
  BY DEF NotifyDone, CopyInv, TypeOK
<1>5. LateInv'
  BY DEF NotifyDone, LateInv, TypeOK
<1>6. FeedInv'
  BY DEF NotifyDone, FeedInv, Due, TypeOK
<1>7. AnswerInv'
  BY DEF NotifyDone, AnswerInv, TypeOK
<1> QED
  BY <1>1, <1>2, <1>3, <1>4, <1>5, <1>6, <1>7

LEMMA StopServerKeeps ==
  ASSUME ControlInv, StopServer
  PROVE  ControlInv'
<1> USE DEF ControlInv, clientVars, threadVars, subscriptionVars, mainVars, callVars, processVars
<1>1. TypeOK'
  BY DEF StopServer, TypeOK, Serving
<1>2. Registered'
  BY DEF StopServer, Registered, TypeOK
<1>3. OwnNumber'
  BY DEF StopServer, OwnNumber, Open, Serving, Invalid, Names, TypeOK
<1>4. CopyInv'
  BY DEF StopServer, CopyInv, TypeOK
<1>5. LateInv'
  BY DEF StopServer, LateInv, TypeOK
<1>6. FeedInv'
  BY DEF StopServer, FeedInv, Due, TypeOK
<1>7. AnswerInv'
  BY DEF StopServer, AnswerInv, TypeOK
<1> QED
  BY <1>1, <1>2, <1>3, <1>4, <1>5, <1>6, <1>7

LEMMA JoinAcceptKeeps ==
  ASSUME ControlInv, JoinAccept
  PROVE  ControlInv'
<1> USE DEF ControlInv, clientVars, threadVars, subscriptionVars, mainVars, callVars, processVars
<1>1. TypeOK'
  BY DEF JoinAccept, TypeOK, Serving
<1>2. Registered'
  BY DEF JoinAccept, Registered, TypeOK
<1>3. OwnNumber'
  BY DEF JoinAccept, OwnNumber, Open, Serving, Invalid, Names, TypeOK
<1>4. CopyInv'
  BY DEF JoinAccept, CopyInv, TypeOK
<1>5. LateInv'
  BY DEF JoinAccept, LateInv, TypeOK
<1>6. FeedInv'
  BY DEF JoinAccept, FeedInv, Due, TypeOK
<1>7. AnswerInv'
  BY DEF JoinAccept, AnswerInv, TypeOK
<1> QED
  BY <1>1, <1>2, <1>3, <1>4, <1>5, <1>6, <1>7

LEMMA SigTermKeeps ==
  ASSUME ControlInv, SigTerm
  PROVE  ControlInv'
<1> USE DEF ControlInv, clientVars, threadVars, subscriptionVars, mainVars, callVars, processVars
<1>1. TypeOK'
  BY DEF SigTerm, TypeOK, Serving
<1>2. Registered'
  BY DEF SigTerm, Registered, TypeOK
<1>3. OwnNumber'
  BY DEF SigTerm, OwnNumber, Open, Serving, Invalid, Names, TypeOK
<1>4. CopyInv'
  BY DEF SigTerm, CopyInv, TypeOK
<1>5. LateInv'
  BY DEF SigTerm, LateInv, TypeOK
<1>6. FeedInv'
  BY DEF SigTerm, FeedInv, Due, TypeOK
<1>7. AnswerInv'
  BY DEF SigTerm, AnswerInv, TypeOK
<1> QED
  BY <1>1, <1>2, <1>3, <1>4, <1>5, <1>6, <1>7

LEMMA ControlInvNext == ControlInv /\ [Next]_vars => ControlInv'
<1> SUFFICES ASSUME ControlInv, [Next]_vars PROVE ControlInv'
  OBVIOUS
<1>1. CASE Halted \/ UNCHANGED vars
  BY <1>1, SMTT(30) DEF Halted, vars, clientVars, threadVars, subscriptionVars, mainVars, callVars,
     processVars, ControlInv, TypeOK, Registered, OwnNumber, CopyInv, LateInv, FeedInv,
     AnswerInv, Due, Open
<1>2. CASE \E c \in Clients : ClientStep(c)
  BY <1>2, SendKeeps, ClientReadKeeps, ClientCloseKeeps DEF ClientStep
<1>3. CASE \E c \in Clients : ThreadStep(c)
  BY <1>3, ReadRequestsKeeps, ReadEndsKeeps, AnswerKeeps, AnswerNobodyKeeps, ThrowKeeps,
     SubscribeKeeps, LeaveStreamKeeps, UnsubscribeKeeps, CloseFdKeeps DEF ThreadStep
<1>4. CASE AcceptStep
  BY <1>4, AcceptKeeps, AcceptLeaveKeeps DEF AcceptStep
<1>5. CASE Notify
  BY <1>5, NotifyKeeps
<1>6. CASE MainStep
  BY <1>6, CallSkippedKeeps, CallDeliversKeeps, CallFailsKeeps, NotifyDoneKeeps,
     StopServerKeeps, JoinAcceptKeeps DEF MainStep
<1>7. CASE Signal
  BY <1>7, SigTermKeeps, CallInterruptedKeeps DEF Signal
<1> QED
  BY <1>1, <1>2, <1>3, <1>4, <1>5, <1>6, <1>7 DEF Next

\* The strengthened invariant holds of every run of the control server.
THEOREM ControlInvariance == Spec => []ControlInv
BY ControlInvInit, ControlInvNext, PTL DEF Spec

-----------------------------------------------------------------------------
(* The properties                                                          *)

\* Every variable of the control server keeps its type, and every connection
\* with a thread has a real descriptor number (control.cpp:116-122).
THEOREM ControlTypeCorrect == Spec => []TypeOK
BY ControlInvariance, PTL DEF ControlInv

\* An observer in the map writes to its own connection, however many
\* connections come and go and reuse numbers (control.cpp:287, 121).
THEOREM ObserversOwnDescriptors == Spec => []ObserverOwnsDescriptor
<1>1. ControlInv => ObserverOwnsDescriptor
  BY DEF ControlInv, TypeOK, Registered, OwnNumber, ObserverOwnsDescriptor, Names, Open, Serving
<1> QED
  BY <1>1, ControlInvariance, PTL

\* At most one call of an observer comes after remove_observer
\* (multiplexer.cpp:81-92).
THEOREM LateCallsBounded == Spec => []AtMostOneLateCall
<1>1. ControlInv => AtMostOneLateCall
  BY DEF ControlInv, LateInv, AtMostOneLateCall
<1> QED
  BY <1>1, ControlInvariance, PTL

\* Between two events no subscriber whose writes succeeded lacks a press, for
\* any number of subscribers (control.cpp:257-275).
THEOREM SubscribersMissNothing == Spec => []SubscriberMissesNothing
<1>1. ControlInv => SubscriberMissesNothing
  <2> SUFFICES ASSUME ControlInv, pc = "loop", NEW c \in Clients,
                      tpc[c] = "stream", ~disc[c]
               PROVE  Len(feed[c]) = pressed - since[c]
    BY DEF SubscriberMissesNothing
  <2>1. c \in observers /\ c \notin todo
    BY DEF ControlInv, Registered, CopyInv
  <2>2. Len(feed[c]) + since[c] = pressed
    BY <2>1 DEF ControlInv, FeedInv, Due
  <2>3. Len(feed[c]) \in Nat /\ since[c] \in Nat /\ pressed \in Nat
    BY DEF ControlInv, TypeOK
  <2> QED BY <2>2, <2>3
<1> QED
  BY <1>1, ControlInvariance, PTL

\* A connection whose thread waits for input has had an answer to everything
\* it asked, whatever the client wrote in one go (control.cpp:138-147).  A line that
\* throws (control.cpp:154) leaves no such thread: it is never got past.
THEOREM CommandsAnswered == Spec => []EveryCommandAnswered
<1>1. ControlInv => EveryCommandAnswered
  <2> SUFFICES ASSUME ControlInv, NEW c \in Clients, tpc[c] = "read", peer[c] # "closed",
                      buf[c] = <<>>, sock[c] = <<>>
               PROVE  replies[c] = sent[c]
    BY DEF EveryCommandAnswered
  <2>1. sent[c] = replies[c] + Len(buf[c]) + Len(sock[c])
    BY DEF ControlInv, AnswerInv
  <2>2. replies[c] \in Nat /\ Len(buf[c]) = 0 /\ Len(sock[c]) = 0
    BY DEF ControlInv, TypeOK
  <2> QED BY <2>1, <2>2
<1> QED
  BY <1>1, ControlInvariance, PTL

\* The event stream implements Broadcast: from its first press on, every
\* subscriber is told of every press once and in order until its feed ends.
THEOREM BroadcastImplemented == Spec => ImplementsBroadcast
<1>1. Init => BroadcastSpec!Init
  BY DEF Init, BroadcastSpec!Init
<1>2. ControlInv /\ [Next]_vars => [BroadcastSpec!Next]_<<pressed, feed>>
  <2> SUFFICES ASSUME ControlInv, [Next]_vars
               PROVE  BroadcastSpec!Next \/ UNCHANGED <<pressed, feed>>
    OBVIOUS
  <2>1. CASE Notify
    BY <2>1 DEF Notify, callVars, BroadcastSpec!Next, BroadcastSpec!Publish
  <2>2. ASSUME NEW c \in Clients, CallDelivers(c)
        PROVE  BroadcastSpec!Next \/ UNCHANGED <<pressed, feed>>
    <3>1. UNCHANGED pressed /\ (feed' = Told(c) \/ feed' = feed)
      BY <2>2 DEF CallDelivers, CallWrites
    <3>2. c \in todo /\ ~disc[c] /\ pressed \in Nat /\ pressed > 0
      BY <2>2 DEF CallDelivers, CallWrites, Called, ControlInv, CopyInv, TypeOK
    <3>3. feed[c] = <<>> \/ feed[c][Len(feed[c])] + 1 = pressed
      BY <3>2 DEF ControlInv, FeedInv, Due
    <3>4. CASE feed' = Told(c)
      BY <3>1, <3>3, <3>4 DEF Told, BroadcastSpec!Next, BroadcastSpec!Tell
    <3> QED BY <3>1, <3>4
  <2>3. CASE MainStep
    <3>1. CASE \E c \in Clients : CallDelivers(c)
      BY <3>1, <2>2
    <3>2. CASE \/ \E c \in Clients : CallSkipped(c) \/ CallFails(c)
               \/ NotifyDone \/ StopServer \/ JoinAccept
      BY <3>2 DEF CallSkipped, CallFails, CallWrites, NotifyDone, StopServer, JoinAccept,
         mainVars, callVars
    <3> QED BY <2>3, <3>1, <3>2 DEF MainStep
  <2>4. CASE \E c \in Clients : ClientStep(c) \/ ThreadStep(c)
    BY <2>4 DEF ClientStep, ThreadStep, Send, ClientRead, ClientClose, ReadRequests, ReadEnds,
       Answer, AnswerNobody, Throw, Subscribe, LeaveStream, Unsubscribe, CloseFd, mainVars, callVars
  <2>5. CASE AcceptStep \/ Signal
    BY <2>5 DEF AcceptStep, Accept, AcceptLeave, Signal, SigTerm, CallInterrupted, CallWrites,
       mainVars, callVars
  <2>6. CASE Halted \/ UNCHANGED vars
    BY <2>6 DEF Halted, vars, mainVars, callVars
  <2> QED
    BY <2>1, <2>3, <2>4, <2>5, <2>6 DEF Next
<1> QED
  BY <1>1, <1>2, ControlInvariance, PTL DEF Spec, ImplementsBroadcast, BroadcastSpec!Spec
-----------------------------------------------------------------------------
(* When a write meets nobody                                               *)

\* A client that has left, until its connection is closed, has no answer to come
\* and is not among those notify still calls: pfctl with a command, and a
\* subscriber whose peek comes before the next press.
HeardBeforeLeft ==
  \A c \in Clients :
    Open(c) /\ peer[c] = "closed" => c \notin todo /\ (tpc[c] = "read" => replies[c] = sent[c])

\* No line makes handle_client throw.
NoLineThrows == \A c \in Clients : ~NextLineIs(c, "misshapen")

\* Whoever notify may still write to streams, a thread that removes its observer
\* was told to or has seen its client leave, and what a thread has in its buffer
\* is not answered yet, also when the client has left.
HeardInv ==
  /\ ~crashed
  /\ \A c \in todo : disc[c] \/ tpc[c] = "stream"
  /\ \A c \in Clients : tpc[c] = "remove" => disc[c] \/ peer[c] = "closed"
  /\ \A c \in Clients :
       tpc[c] = "read" => sent[c] = replies[c] + Len(buf[c]) + Len(sock[c])

\* Nobody's thread has a line to answer when the client has left.
LEMMA NoAnswerNobody ==
  ASSUME ControlInv, HeardInv, HeardBeforeLeft, NEW c \in Clients
  PROVE  ~AnswerNobody(c)
<1> SUFFICES ASSUME AnswerNobody(c) PROVE FALSE
  OBVIOUS
<1>1. tpc[c] = "read" /\ buf[c] # <<>>
  BY DEF AnswerNobody, NextLineIs
<1>2. peer[c] = "closed"
  BY <1>1 DEF AnswerNobody, Broken, Names, ControlInv, OwnNumber, Open, Serving
<1>3. replies[c] = sent[c]
  BY <1>1, <1>2 DEF HeardBeforeLeft, Open, Serving
<1>4. /\ sent[c] = replies[c] + Len(buf[c]) + Len(sock[c])
      /\ replies[c] \in Nat /\ buf[c] \in Seq(Requests) /\ sock[c] \in Seq(Requests)
  BY <1>1 DEF HeardInv, ControlInv, TypeOK
<1>5. Len(buf[c]) > 0 /\ Len(sock[c]) \in Nat
  BY <1>1, <1>4
<1> QED
  BY <1>3, <1>4, <1>5

\* A call that fails does so without SIGPIPE.
LEMMA NoBrokenCall ==
  ASSUME ControlInv, HeardInv, HeardBeforeLeft, NEW c \in Clients, CallFails(c)
  PROVE  ~crashed'
<1>1. c \in todo /\ ~disc[c]
  BY DEF CallFails, CallWrites, Called
<1>2. tpc[c] = "stream"
  BY <1>1 DEF HeardInv
<1>3. ASSUME NEW o \in Clients, Names(fd[c], o) PROVE peer[o] # "closed"
  <2>1. o = c
    BY <1>2, <1>3 DEF Names, ControlInv, OwnNumber, Open, Serving
  <2> QED BY <1>1, <1>2, <2>1 DEF HeardBeforeLeft, Open, Serving
<1>4. ~Broken(fd[c])
  BY <1>3 DEF Broken
<1>5. crashed' \in {FALSE}
  BY <1>4, Zenon DEF CallFails
<1> QED
  BY <1>5, Zenon

\* A step that leaves all this alone, and adds nobody to those still to be called.
LEMMA HeardStays ==
  ASSUME HeardInv, \A c \in todo' : c \in todo, ~crashed',
         \A c \in Clients : peer[c] = "closed" => peer'[c] = "closed",
         UNCHANGED <<disc, tpc, sent, replies, buf, sock>>
  PROVE  HeardInv'
BY DEF HeardInv

LEMMA HeardNext ==
  ASSUME ControlInv, HeardInv, HeardBeforeLeft, HeardBeforeLeft', NoLineThrows, running,
         [Next]_vars
  PROVE  HeardInv'
<1> USE DEF ControlInv, clientVars, threadVars, subscriptionVars, mainVars, callVars, processVars
<1>0. todo \subseteq Clients
  BY DEF TypeOK
<1>1. ASSUME NEW c \in Clients, ClientStep(c) PROVE HeardInv'
  <2>1. CASE Send(c)
    <3>0. PICK r : sock' = [sock EXCEPT ![c] = Append(@, r)]
      BY <2>1 DEF Send
    <3>1. /\ sock'[c] = Append(sock[c], r) /\ sent'[c] = sent[c] + 1
          /\ \A o \in Clients \ {c} : sock'[o] = sock[o] /\ sent'[o] = sent[o]
      BY <2>1, <3>0 DEF Send, TypeOK
    <3>2. /\ Len(sock'[c]) = Len(sock[c]) + 1 /\ Len(sock[c]) \in Nat
          /\ Len(buf[c]) \in Nat /\ replies[c] \in Nat
      BY <3>1 DEF TypeOK
    <3>3. UNCHANGED <<crashed, todo, peer, disc, tpc, replies, buf>>
      BY <2>1 DEF Send
    <3>4. \A o \in Clients : tpc[o] = "read" =>
            sent'[o] = replies[o] + Len(buf[o]) + Len(sock'[o])
      <4>1. sent[c] \in Nat
        BY DEF TypeOK
      <4>2. tpc[c] = "read" => sent'[c] = replies[c] + Len(buf[c]) + Len(sock'[c])
        <5>1. tpc[c] = "read" => sent[c] = replies[c] + Len(buf[c]) + Len(sock[c])
          BY DEF HeardInv
        <5>2. sent'[c] = sent[c] + 1 /\ sent'[c] \in Nat /\ Len(sock'[c]) \in Nat
          BY <3>1, <3>2, <4>1
        <5> QED BY <3>2, <4>1, <5>1, <5>2, SMTT(30)
      <4> QED BY <3>1, <4>2 DEF HeardInv
    <3> QED BY <3>3, <3>4 DEF HeardInv
  <2>2. CASE ClientRead(c) \/ ClientClose(c)
    <3>1. /\ UNCHANGED <<crashed, todo, disc, tpc, sent, replies, buf, sock>>
          /\ \A o \in Clients : peer[o] = "closed" => peer'[o] = "closed"
      BY <2>2 DEF ClientRead, ClientClose, TypeOK
    <3> QED BY <3>1, HeardStays DEF HeardInv
  <2> QED BY <1>1, <2>1, <2>2 DEF ClientStep
<1>2. ASSUME NEW c \in Clients, ThreadStep(c) PROVE HeardInv'
  <2>1. CASE ReadRequests(c)
    <3>1. /\ buf'[c] = sock[c] /\ sock'[c] = <<>> /\ buf[c] = <<>>
          /\ \A o \in Clients \ {c} : sock'[o] = sock[o] /\ buf'[o] = buf[o]
      BY <2>1 DEF ReadRequests, TypeOK
    <3>2. Len(sock[c]) \in Nat /\ replies[c] \in Nat
      BY DEF TypeOK
    <3> QED BY <2>1, <3>1, <3>2 DEF ReadRequests, HeardInv
  <2>2. CASE Answer(c)
    <3>1. replies[c] \in Nat /\ buf[c] \in Seq(Requests) /\ buf[c] # <<>>
      BY <2>2 DEF Answer, NextLineIs, TypeOK
    <3>2. replies'[c] = replies[c] + 1 /\ Len(buf'[c]) = Len(buf[c]) - 1
      BY <2>2, <3>1 DEF Answer, AfterLine, TypeOK
    <3>3. \A o \in Clients \ {c} : replies'[o] = replies[o] /\ buf'[o] = buf[o]
      BY <2>2 DEF Answer, TypeOK
    <3>4. Len(buf[c]) \in Nat /\ Len(sock[c]) \in Nat
      BY <3>1, SMTT(30) DEF TypeOK
    <3>5. UNCHANGED <<crashed, todo, peer, disc, tpc, sent, sock>>
      BY <2>2 DEF Answer
    <3>6. tpc[c] = "read" => sent[c] = replies'[c] + Len(buf'[c]) + Len(sock[c])
      BY <3>1, <3>2, <3>4 DEF HeardInv
    <3> QED BY <3>3, <3>5, <3>6 DEF HeardInv
  <2>3. CASE AnswerNobody(c)
    BY <2>3, NoAnswerNobody
  <2>4. CASE Throw(c)
    BY <2>4 DEF Throw, NoLineThrows
  <2>5. CASE Subscribe(c)
    <3>1. tpc[c] = "read" /\ c \notin todo
      BY <2>5 DEF Subscribe, NextLineIs, CopyInv
    <3>2. tpc'[c] = "stream" /\ \A o \in Clients \ {c} : tpc'[o] = tpc[o] /\ buf'[o] = buf[o]
      BY <2>5 DEF Subscribe, TypeOK
    <3>3. UNCHANGED <<crashed, todo, peer, disc, sent, replies, sock>>
      BY <2>5 DEF Subscribe
    <3> QED BY <1>0, <3>1, <3>2, <3>3 DEF HeardInv
  <2>6. CASE LeaveStream(c)
    <3>1. disc[c] \/ peer[c] = "closed"
      BY <2>6 DEF LeaveStream, PeekFindsEnd, Gone
    <3>2. c \in todo => disc[c]
      BY <2>6, <3>1 DEF LeaveStream, HeardBeforeLeft, Open, Serving
    <3>3. tpc'[c] = "remove" /\ \A o \in Clients \ {c} : tpc'[o] = tpc[o]
      BY <2>6 DEF LeaveStream, TypeOK
    <3>4. UNCHANGED <<crashed, todo, peer, disc, sent, replies, buf, sock>>
      BY <2>6 DEF LeaveStream
    <3> QED BY <1>0, <3>1, <3>2, <3>3, <3>4 DEF HeardInv
  <2>7. CASE Unsubscribe(c) \/ ReadEnds(c)
    <3>1. c \in todo => disc[c]
      BY <2>7 DEF Unsubscribe, ReadEnds, CopyInv, HeardInv
    <3>2. tpc'[c] = "close" /\ \A o \in Clients \ {c} : tpc'[o] = tpc[o]
      BY <2>7 DEF Unsubscribe, ReadEnds, TypeOK
    <3>3. UNCHANGED <<crashed, todo, peer, disc, sent, replies, buf, sock>>
      BY <2>7 DEF Unsubscribe, ReadEnds
    <3> QED BY <1>0, <3>1, <3>2, <3>3 DEF HeardInv
  <2>8. CASE CloseFd(c)
    <3>1. c \in todo => disc[c]
      BY <2>8 DEF CloseFd, HeardInv
    <3>2. /\ tpc'[c] = "done"
          /\ \A o \in Clients \ {c} : /\ tpc'[o] = tpc[o] /\ sent'[o] = sent[o]
                                       /\ replies'[o] = replies[o] /\ buf'[o] = buf[o]
                                       /\ sock'[o] = sock[o] /\ peer'[o] = peer[o]
          /\ UNCHANGED <<crashed, todo, disc>>
      BY <2>8 DEF CloseFd, TypeOK
    <3> QED BY <3>1, <3>2, ZenonT(60) DEF HeardInv, TypeOK
  <2> QED BY <1>2, <2>1, <2>2, <2>3, <2>4, <2>5, <2>6, <2>7, <2>8 DEF ThreadStep
<1>3. CASE AcceptStep
  <2>1. ASSUME NEW c \in Clients, Accept(c) PROVE HeardInv'
    <3>1. tpc[c] = "none" /\ peer[c] # "closed" /\ c \notin todo
      BY <2>1 DEF Accept, Registered, CopyInv
    <3>2. sent[c] = replies[c] + Len(buf[c]) + Len(sock[c])
      BY <3>1 DEF AnswerInv
    <3>3. tpc'[c] = "read" /\ \A o \in Clients \ {c} : tpc'[o] = tpc[o] /\ peer'[o] = peer[o]
      BY <2>1 DEF Accept, TypeOK
    <3>4. UNCHANGED <<crashed, todo, disc, sent, replies, buf, sock>>
      BY <2>1 DEF Accept
    <3> QED BY <1>0, <3>1, <3>2, <3>3, <3>4 DEF HeardInv
  <2>2. ASSUME AcceptLeave PROVE HeardInv'
    <3>1. UNCHANGED <<crashed, todo, peer, disc, tpc, sent, replies, buf, sock>>
      BY <2>2 DEF AcceptLeave
    <3> QED BY <3>1, HeardStays DEF HeardInv
  <2> QED BY <1>3, <2>1, <2>2 DEF AcceptStep
<1>4. CASE Notify
  <2>1. UNCHANGED <<crashed, peer, disc, tpc, sent, replies, buf, sock>>
    BY <1>4 DEF Notify
  <2>2. \A c \in todo' : disc[c] \/ tpc[c] = "stream"
    <3>1. todo' \in {todo, observers}
      BY <1>4 DEF Notify
    <3>2. ASSUME NEW c \in todo', c \in observers, ~disc[c] PROVE tpc[c] = "stream"
      <4>1. c \in Clients /\ tpc[c] \in {"stream", "remove"}
        BY <3>2 DEF Registered, TypeOK
      <4>2. CASE tpc[c] = "remove"
        <5>1. peer'[c] = "closed" /\ tpc'[c] = "remove"
          BY <2>1, <3>2, <4>1, <4>2 DEF HeardInv
        <5> QED BY <3>2, <4>1, <5>1 DEF HeardBeforeLeft, Open, Serving
      <4> QED BY <4>1, <4>2
    <3> QED BY <3>1, <3>2 DEF HeardInv
  <2> QED BY <2>1, <2>2 DEF HeardInv
<1>5. CASE MainStep
  <2>1. ASSUME NEW c \in Clients, CallFails(c) PROVE HeardInv'
    <3>1. /\ todo' = todo \ {c} /\ UNCHANGED <<tpc, peer, sent, replies, buf, sock>>
          /\ \A o \in Clients : disc[o] => disc'[o]
      BY <2>1 DEF CallFails, CallWrites, Called, OthersToCall, TypeOK
    <3> QED BY <2>1, <3>1, NoBrokenCall DEF HeardInv, TypeOK
  <2>2. ASSUME NEW c \in Clients, CallSkipped(c) \/ CallDelivers(c) PROVE HeardInv'
    <3>1. /\ todo' = todo \ {c}
          /\ UNCHANGED <<crashed, peer, disc, tpc, sent, replies, buf, sock>>
      BY <2>2 DEF CallSkipped, CallDelivers, CallWrites, Called, OthersToCall
    <3> QED BY <3>1, HeardStays DEF HeardInv
  <2>3. CASE NotifyDone \/ StopServer \/ JoinAccept
    <3>1. UNCHANGED <<crashed, todo, peer, disc, tpc, sent, replies, buf, sock>>
      BY <2>3 DEF NotifyDone, StopServer, JoinAccept
    <3> QED BY <3>1, HeardStays DEF HeardInv
  <2> QED BY <1>5, <2>1, <2>2, <2>3 DEF MainStep
<1>6. CASE Signal
  <2>1. ASSUME NEW c \in Clients, CallInterrupted(c) PROVE HeardInv'
    <3>1. /\ todo' = todo \ {c} /\ UNCHANGED <<tpc, peer, sent, replies, buf, sock, crashed>>
          /\ \A o \in Clients : disc[o] => disc'[o]
      BY <2>1 DEF CallInterrupted, CallWrites, Called, OthersToCall, TypeOK
    <3> QED BY <2>1, <3>1 DEF HeardInv, TypeOK
  <2>2. CASE SigTerm
    BY <2>2 DEF SigTerm, HeardInv
  <2> QED BY <1>6, <2>1, <2>2 DEF Signal
<1>7. CASE Halted \/ UNCHANGED vars
  <2>1. UNCHANGED <<crashed, todo, peer, disc, tpc, sent, replies, buf, sock>>
    BY <1>7 DEF Halted, vars
  <2> QED BY <2>1, HeardStays DEF HeardInv
<1> QED
  BY <1>1, <1>2, <1>3, <1>4, <1>5, <1>6, <1>7 DEF Next

\* What can end the daemon before it is told to stop, for every set of clients: a
\* line that throws, a client that leaves before its answer, and a subscriber that
\* leaves and is told a press before its connection is closed.  No press goes to
\* another's broken connection under a number that was passed on
\* (control.cpp:26-30, 154, 253-287).
THEOREM AnsweredClientsAreSafe ==
  Spec /\ []running /\ []HeardBeforeLeft /\ []NoLineThrows => []~crashed
<1>1. Init => HeardInv
  BY DEF Init, HeardInv
<1>2. HeardInv => ~crashed
  BY DEF HeardInv
<1> QED
  BY <1>1, <1>2, HeardNext, ControlInvariance, PTL DEF Spec

-----------------------------------------------------------------------------
(* Liveness, for fair threads that can step whenever they have work, which *)
(* is the invariant OnlyClientsAreWaitedFor                                *)

\* A thread of a client that is gone moves from here to there and nowhere else.
Leaving(c) == tpc[c] = "stream" /\ Gone(c)
Removing(c) == tpc[c] = "remove"
Closing(c) == tpc[c] = "close"
Over(c) == tpc[c] = "done" \/ ~Alive

LEMMA OtherThreadsLeave ==
  ASSUME ControlInv, NEW c \in Clients, [Next]_vars, ~ThreadStep(c)
  PROVE  /\ tpc[c] # "none" => tpc'[c] = tpc[c]
         /\ tpc[c] = "stream" /\ Gone(c) => Gone(c)'
<1>1. /\ tpc \in [Clients -> Serving \cup {"none", "done"}]
      /\ peer \in [Clients -> {"new", "open", "closed"}]
      /\ sock \in [Clients -> Seq(Requests)]
      /\ peer[c] = "new" <=> tpc[c] = "none"
  BY DEF ControlInv, TypeOK, Registered
<1>2. ASSUME NEW o \in Clients, ThreadStep(o)
      PROVE  tpc'[c] = tpc[c] /\ peer'[c] = peer[c] /\ sock'[c] = sock[c]
  <2>1. o # c
    BY <1>2
  <2> QED BY <1>1, <1>2, <2>1 DEF ThreadStep, ReadRequests, ReadEnds, Answer, AnswerNobody,
      Throw, Subscribe, LeaveStream, Unsubscribe, CloseFd, clientVars, threadVars
<1>3. ASSUME NEW o \in Clients, ClientStep(o)
      PROVE  tpc'[c] = tpc[c] /\ (Gone(c) => Gone(c)')
  BY <1>1, <1>3 DEF ClientStep, Send, ClientRead, ClientClose, Gone, threadVars, clientVars
<1>4. ASSUME AcceptStep
      PROVE  (tpc[c] # "none" => tpc'[c] = tpc[c]) /\ (Gone(c) => Gone(c)')
  BY <1>1, <1>4 DEF AcceptStep, AcceptLeave, Accept, Gone, threadVars, clientVars
<1>5. ASSUME Notify \/ MainStep \/ Signal \/ Halted \/ UNCHANGED vars
      PROVE  UNCHANGED <<tpc, peer, sock>>
  BY <1>5 DEF Notify, MainStep, CallSkipped, CallDelivers, CallFails, CallWrites, NotifyDone,
     StopServer, JoinAccept, Signal, SigTerm, CallInterrupted, Halted, vars, threadVars,
     clientVars
<1> QED
  BY <1>2, <1>3, <1>4, <1>5 DEF Next, Gone

LEMMA OwnThreadLeaves ==
  ASSUME ControlInv, NEW c \in Clients, ThreadStep(c)
  PROVE  /\ Leaving(c) => Removing(c)'
         /\ Removing(c) => Closing(c)'
         /\ Closing(c) => Over(c)'
<1>1. tpc \in [Clients -> Serving \cup {"none", "done"}]
  BY DEF ControlInv, TypeOK
<1>2. tpc[c] = "stream" => tpc'[c] = "remove"
  BY <1>1 DEF ThreadStep, ReadRequests, ReadEnds, Answer, AnswerNobody, NextLineIs,
     Throw, Subscribe, LeaveStream, Unsubscribe, CloseFd
<1>3. tpc[c] = "remove" => tpc'[c] = "close"
  BY <1>1 DEF ThreadStep, ReadRequests, ReadEnds, Answer, AnswerNobody, NextLineIs,
     Throw, Subscribe, LeaveStream, Unsubscribe, CloseFd
<1>4. tpc[c] = "close" => tpc'[c] = "done"
  BY <1>1 DEF ThreadStep, ReadRequests, ReadEnds, Answer, AnswerNobody, NextLineIs,
     Throw, Subscribe, LeaveStream, Unsubscribe, CloseFd
<1> QED
  BY <1>2, <1>3, <1>4 DEF Leaving, Removing, Closing, Over

\* A subscriber that is gone is unsubscribed and its connection closed by a fair
\* thread of its own, whatever the other clients, the main thread and the signals
\* do, and whether or not there is ever another event (control.cpp:278-288).
THEOREM GoneSubscribersDropped ==
  ASSUME NEW c \in Clients
  PROVE  Spec /\ WF_vars(ThreadStep(c)) /\ []OnlyClientsAreWaitedFor => GoneDropped(c)
<1>1. OnlyClientsAreWaitedFor /\ Alive /\ (Leaving(c) \/ Removing(c) \/ Closing(c))
        => ENABLED <<ThreadStep(c)>>_vars
  BY DEF OnlyClientsAreWaitedFor, ClientThreadHasWork, Leaving, Removing, Closing
<1>2. ControlInv /\ Leaving(c) /\ [Next]_vars => Leaving(c)' \/ Removing(c)'
  BY OtherThreadsLeave, OwnThreadLeaves DEF Leaving
<1>3. ControlInv /\ Removing(c) /\ [Next]_vars => Removing(c)' \/ Closing(c)'
  BY OtherThreadsLeave, OwnThreadLeaves DEF Removing
<1>4. ControlInv /\ Closing(c) /\ [Next]_vars => Closing(c)' \/ Over(c)'
  BY OtherThreadsLeave, OwnThreadLeaves DEF Closing
<1>5. ControlInv /\ <<ThreadStep(c)>>_vars
        => /\ Leaving(c) => Removing(c)'
           /\ Removing(c) => Closing(c)'
           /\ Closing(c) => Over(c)'
  BY OwnThreadLeaves
<1>6. ~Alive => Over(c)
  BY DEF Over
<1>7. GoneDropped(c) <=> (Leaving(c) ~> Over(c))
  BY PTL DEF GoneDropped, Leaving, Over
<1> QED
  BY <1>1, <1>2, <1>3, <1>4, <1>5, <1>6, <1>7, ControlInvariance, PTL DEF Spec
\* The way of the main thread once running_ is off: through notify, which may
\* take its time, and stop.
InLoop == ~running /\ pc = "loop"
InCall == ~running /\ pc = "call"
Waiting == ~running /\ pc = "join" /\ apc = "poll"
Joined == ~running /\ pc = "join" /\ apc = "exited"

\* Nobody else moves the main thread on, and nothing sets running_ again.
LEMMA MainMoves ==
  ASSUME ControlInv, [Next]_vars, ~running, Alive
  PROVE  /\ ~running'
         /\ pc = "loop" => pc' \in {"loop", "join"}
         /\ pc = "call" => pc' \in {"call", "loop"}
         /\ pc = "join" => pc' \in {"join", "ended"}
         /\ apc = "exited" => apc' = "exited"
         /\ apc' \in {"poll", "exited"}
<1>0. apc \in {"poll", "exited"}
  BY DEF ControlInv, TypeOK
<1>1. CASE \E c \in Clients : ClientStep(c) \/ ThreadStep(c)
  BY <1>1 DEF ClientStep, ThreadStep, Send, ClientRead, ClientClose, ReadRequests, ReadEnds,
     Answer, AnswerNobody, Throw, Subscribe, LeaveStream, Unsubscribe, CloseFd, mainVars, processVars,
     ControlInv, TypeOK
<1>2. CASE AcceptStep
  BY <1>2 DEF AcceptStep, Accept, AcceptLeave, mainVars, processVars, ControlInv, TypeOK
<1>3. CASE Notify
  BY <1>3 DEF Notify
<1>4. CASE \E c \in Clients : CallSkipped(c) \/ CallDelivers(c) \/ CallFails(c)
  <2>1. PICK c \in Clients : CallSkipped(c) \/ CallDelivers(c) \/ CallFails(c)
    BY <1>4
  <2>2. pc = "call" /\ UNCHANGED <<pc, apc, running>>
    BY <2>1 DEF CallSkipped, CallDelivers, CallFails, CallWrites, Called, processVars
  <2> QED BY <1>0, <2>2
<1>5. CASE NotifyDone \/ StopServer \/ JoinAccept
  BY <1>5 DEF NotifyDone, StopServer, JoinAccept, processVars, ControlInv, TypeOK
<1>6. CASE Signal
  <2>1. CASE \E c \in Clients : CallInterrupted(c)
    <3>1. PICK c \in Clients : CallInterrupted(c)
      BY <2>1
    <3>2. pc = "call" /\ UNCHANGED <<pc, apc>> /\ running' \in {running, FALSE}
      BY <3>1 DEF CallInterrupted, CallWrites, Called
    <3>3. ~running'
      BY <3>2
    <3> QED BY <1>0, <3>2, <3>3
  <2>2. CASE SigTerm
    BY <2>2 DEF SigTerm
  <2> QED BY <1>6, <2>1, <2>2 DEF Signal
<1>7. CASE Halted \/ UNCHANGED vars
  BY <1>7 DEF Halted, vars, mainVars, processVars, ControlInv, TypeOK
<1> QED
  BY <1>1, <1>2, <1>3, <1>4, <1>5, <1>6, <1>7 DEF Next, MainStep

\* What the main thread does when it has work, outside notify.
LEMMA MainStepMoves ==
  ASSUME ControlInv, MainStep
  PROVE  /\ InLoop => pc' = "join"
         /\ Joined => pc' = "ended"
<1>1. pc \in {"loop", "join"} => ~\E c \in Clients : CallSkipped(c) \/ CallDelivers(c) \/ CallFails(c)
  BY DEF CallSkipped, CallDelivers, CallFails, CallWrites, Called
<1> QED
  BY <1>1 DEF MainStep, InLoop, Joined, NotifyDone, StopServer, JoinAccept

\* SIGTERM ends main, whatever the client threads wait for (control.cpp:95-106,
\* multiplexer.cpp:18): only a notify that does not return can keep it.
THEOREM MainEndsAfterNotify ==
  Spec /\ WF_vars(MainStep) /\ WF_vars(AcceptStep) /\ []OnlyClientsAreWaitedFor
    /\ NotifyReturns => MainEnds
<1>1. /\ OnlyClientsAreWaitedFor /\ Alive /\ (InLoop \/ Joined) => ENABLED <<MainStep>>_vars
      /\ OnlyClientsAreWaitedFor /\ Alive /\ Waiting => ENABLED <<AcceptStep>>_vars
  BY DEF OnlyClientsAreWaitedFor, MainHasWork, InLoop, Joined, Waiting
<1>2. ControlInv /\ Alive /\ ~running => InLoop \/ InCall \/ Waiting \/ Joined
  BY DEF ControlInv, TypeOK, Alive, InLoop, InCall, Waiting, Joined
<1>3. ControlInv /\ InLoop /\ Alive /\ [Next]_vars
        => InLoop' \/ Waiting' \/ Joined'
  BY MainMoves DEF InLoop, Waiting, Joined
<1>4. ControlInv /\ InCall /\ Alive /\ [Next]_vars => InCall' \/ InLoop'
  BY MainMoves DEF InLoop, InCall
<1>5. ControlInv /\ Waiting /\ Alive /\ [Next]_vars => Waiting' \/ Joined' \/ ~Alive'
  BY MainMoves DEF Waiting, Joined, Alive
<1>6. ControlInv /\ Joined /\ Alive /\ [Next]_vars => Joined' \/ ~Alive'
  BY MainMoves DEF Joined, Alive
<1>7. ControlInv /\ InLoop /\ Alive /\ <<MainStep>>_vars => Waiting' \/ Joined'
  <2> SUFFICES ASSUME ControlInv, InLoop, Alive, MainStep PROVE Waiting' \/ Joined'
    OBVIOUS
  <2>1. [Next]_vars /\ ~running
    BY DEF Next, InLoop
  <2>2. pc' = "join"
    BY MainStepMoves
  <2> QED BY <2>1, <2>2, MainMoves DEF Waiting, Joined
<1>8. ControlInv /\ Joined /\ <<MainStep>>_vars => ~Alive'
  BY MainStepMoves DEF Alive
<1>9. ControlInv /\ Waiting /\ <<AcceptStep>>_vars => Joined'
  BY DEF Waiting, Joined, AcceptStep, AcceptLeave, Accept, Listening, mainVars
<1>10. pc # "call" => ~InCall
  BY DEF InCall
<1>11. InCall => pc = "call"
  BY DEF InCall
<1> QED
  BY <1>1, <1>2, <1>3, <1>4, <1>5, <1>6, <1>7, <1>8, <1>9, <1>10, <1>11, ControlInvariance, PTL
     DEF Spec, NotifyReturns, MainEnds

\* Nobody who is still to be called lets its socket fill up.
NobodyHoldsNotify == \A c \in todo : disc[c] \/ ~Blocked(fd[c])

\* One round of notify's loop: those of S are still to be called.
Round(S) == pc = "call" /\ todo = S
RoundOver(S) == ~Alive \/ pc # "call" \/ (todo # S /\ \A c \in todo : c \in S)

\* Nobody adds to the copy of the map, and every step of the main thread in notify
\* takes one away from it or ends notify.
LEMMA RoundMoves ==
  ASSUME ControlInv, NEW S, Round(S), [Next]_vars
  PROVE  /\ Round(S)' \/ RoundOver(S)'
         /\ MainStep => RoundOver(S)'
<1>1. ASSUME NEW c \in Clients, Called(c) PROVE RoundOver(S)'
  BY <1>1 DEF Called, OthersToCall, Round, RoundOver
<1>2. ~Notify
  BY DEF Notify, Round
<1>3. CASE MainStep
  <2>1. CASE \E c \in Clients : CallSkipped(c) \/ CallDelivers(c) \/ CallFails(c)
    BY <2>1, <1>1 DEF CallSkipped, CallDelivers, CallFails, CallWrites
  <2>2. CASE NotifyDone \/ StopServer \/ JoinAccept
    <3>1. pc' # "call"
      BY <2>2 DEF NotifyDone, StopServer, JoinAccept
    <3> QED BY <3>1 DEF RoundOver
  <2> QED BY <1>3, <2>1, <2>2 DEF MainStep
<1>4. UNCHANGED <<pc, todo>> \/ RoundOver(S)'
  <2>1. CASE UNCHANGED vars
    BY <2>1 DEF vars, mainVars
  <2>2. CASE Next
    <3>1. CASE \E c \in Clients : ClientStep(c) \/ ThreadStep(c)
      BY <3>1 DEF ClientStep, ThreadStep, Send, ClientRead, ClientClose, ReadRequests, ReadEnds,
         Answer, AnswerNobody, Throw, Subscribe, LeaveStream, Unsubscribe, CloseFd, mainVars
    <3>2. CASE AcceptStep \/ SigTerm \/ Halted
      BY <3>2 DEF AcceptStep, Accept, AcceptLeave, SigTerm, Halted, vars, mainVars
    <3>3. CASE \E c \in Clients : CallInterrupted(c)
      BY <3>3, <1>1 DEF CallInterrupted, CallWrites
    <3> QED BY <2>2, <3>1, <3>2, <3>3, <1>2, <1>3 DEF Next, Signal
  <2> QED BY <2>1, <2>2
<1> QED
  BY <1>3, <1>4 DEF Round

\* Every round of notify ends, with one observer fewer to call: what there is to
\* NotifyReturns but the counting of the rounds.  It takes a fair main thread and
\* clients that read, and nothing of the other threads (multiplexer.cpp:81-92).
THEOREM NotifyGoesOn ==
  ASSUME NEW S
  PROVE  Spec /\ WF_vars(MainStep) /\ []OnlyClientsAreWaitedFor /\ []NobodyHoldsNotify
           => (Round(S) ~> RoundOver(S))
<1>1. OnlyClientsAreWaitedFor /\ NobodyHoldsNotify /\ Round(S) /\ Alive
        => ENABLED <<MainStep>>_vars
  BY DEF OnlyClientsAreWaitedFor, NobodyHoldsNotify, MainHasWork, Round
<1>2. ~Alive => RoundOver(S)
  BY DEF RoundOver
<1>3. ControlInv /\ Round(S) /\ [Next]_vars => Round(S)' \/ RoundOver(S)'
  BY RoundMoves
<1>4. ControlInv /\ Round(S) /\ [Next]_vars /\ <<MainStep>>_vars => RoundOver(S)'
  BY RoundMoves
<1> QED
  BY <1>1, <1>2, <1>3, <1>4, ControlInvariance, PTL DEF Spec
=============================================================================
