------------------------ MODULE CdpPeerPrompt_proofs ------------------------
(***************************************************************************)
(* Further proofs about a Diameter peer, where the receivers react within  *)
(* the watchdog's period: what was begun for one attempt to connect is     *)
(* finished before the next one starts.                                    *)
(***************************************************************************)
EXTENDS CdpPeer_proofs

-----------------------------------------------------------------------------
(* The inductive invariant.                                                 *)

\* Connections are opened in the order of their numbers.
InOrder == \A c, d \in Conns : d < c /\ net[c].by # "none" => net[d].by # "none"

\* This node opened c, and no connection since.
IsNewest(c) == c \in Conns /\ Us(c) /\ \A d \in Conns : d > c => ~Us(d)
Exchanged   == \E c \in Conns : IsNewest(c) /\ net[c].phase = "open"

Acks     == ev["D"].name = "I_Rcv_Conn_Ack"
Answers  == ev["D"].name = "CEA"
AwaitsAck == p.state \in {"Wait_Conn_Ack", "Wait_Conn_Ack_Elect"}

\* What is under way is done before the timer acts again; it dials when nothing is under way.
NotDue  == xfer # <<>> \/ Acks \/ Answers \/ lock # None => ~due
Dialling == lock = "T_connects" => xfer = <<>> /\ ~Acks /\ ~Answers

\* While its acknowledgement is awaited the new connection is all the pipe holds; while an
\* answer is awaited no older one of this node's is in the pipe or read by D.
InPipe == AwaitsAck => xfer = <<>> \/ \E c \in Conns : IsNewest(c) /\ xfer = <<c>> /\ ~Acks
InWait == lock = None /\ AwaitsCEA =>
  /\ \A k \in 1..Len(xfer) : Us(xfer[k]) => IsNewest(xfer[k])
  /\ ConnOf(Own) # NoConn /\ Us(ConnOf(Own)) => IsNewest(ConnOf(Own))

\* The acknowledgement and the answer D holds are those of the newest connection.
AckIsNewest    == Acks => IsNewest(ConnOf(Own))
AnswerIsNewest == lock = None /\ AwaitsCEA /\ Answers /\ ev["D"].ok => Exchanged
OpenIsNewest   == p.state = "I_Open" => Exchanged

\* A peer that only dials has no receiver's socket.
NoReceiver == OneDials("us") => p.R = NoSock /\ (xfer # <<>> => p.state = "Wait_Conn_Ack")

PromptInv == /\ InOrder /\ NotDue /\ Dialling /\ InPipe /\ InWait
             /\ AckIsNewest /\ AnswerIsNewest /\ OpenIsNewest /\ NoReceiver

LEMMA PromptInit ==
  Init => PromptInv
<1> SUFFICES ASSUME Init PROVE PromptInv
  OBVIOUS
<1>1. /\ \A c \in Conns : net[c].by = "none" /\ xfer = <<>> /\ lock = None /\ p.state = "Closed"
      /\ p.R = NoSock /\ ev["D"] = Idle
  BY DEF Init
<1>2. ~Acks /\ ~Answers /\ lock = None
  BY <1>1, Constants DEF Init, Acks, Answers, Idle, Names
<1>3. lock # "T_connects"
  BY <1>2, Constants DEF Locks
<1>4. xfer = <<>> /\ p.state = "Closed" /\ p.R = NoSock
  BY DEF Init
<1> QED BY <1>1, <1>2, <1>3, <1>4 DEF PromptInv, InOrder, NotDue, Dialling, InPipe, InWait, AckIsNewest,
           AnswerIsNewest, OpenIsNewest, NoReceiver, AwaitsCEA, AwaitsAck

-----------------------------------------------------------------------------
(* What the steps do to the timer, the lock, the pipe and D's slot.         *)

LEMMA DueSteps ==
  ASSUME Types, Next, ~TimePasses
  PROVE  due' = due \/ due' = FALSE
<1>1. Timer \/ SendMessage => due' \in {due, FALSE}
  BY DEF Timer, SendMessage, Start, ConnectFails, Connects, StartReturns, WaitTimesOut, WatchdogAsks,
         WatchdogGivesUp
<1>2. HandsOver \/ CEASent => due' \in {due, FALSE}
  BY DEF HandsOver, CEASent, ReceiveFd, Disconnect, ConnAck, ConnAckWins, ConnAckLoses, ConnAckIgnored
<1>3. ASSUME NEW c \in Conns, Arrives(c) PROVE due' \in {due, FALSE}
  <2>1. ASSUME NEW i \in {Own, c}, Messages(i, c) PROVE due' \in {due, FALSE}
    BY <2>1, MessagesAre
  <2> QED BY <1>3, <2>1 DEF Arrives, Remote, RemoteConnects, RemoteCloses, ReceiveCER, ReadFails
<1>4. ASSUME NEW c \in Conns, Accepts(c) PROVE due' \in {due, FALSE}
  BY <1>4 DEF Accepts, Disconnect, ConnCERAnswered, ConnCERKept, ConnCERRejected
<1>5. ASSUME NEW r \in {"D", "U"}, Reacts(r) PROVE due' \in {due, FALSE}
  BY <1>5 DEF Reacts, SelectFails, CEA, NonCEA, DWA, DPR, Overtaken
<1> QED BY <1>1, <1>2, <1>3, <1>4, <1>5, NextIs

\* The timer and U's answer keep the lock after their step.
LEMMA LockSteps ==
  ASSUME Types, Next
  PROVE  lock' = lock \/ lock' = None \/ Start \/ (\E c \in Conns : Connects(c) \/ ConnCERAnswered(c))
<1>1. ASSUME NEW r \in {"D", "U"}, NEW i \in Slots, Disconnect(r, i) PROVE lock' = lock
  BY <1>1 DEF Disconnect
<1>2. Own \in Slots /\ \A c \in Conns : c \in Slots
  BY DEF Slots
<1>3. ConnectFails \/ StartReturns \/ CEASent => lock' = None
  BY DEF ConnectFails, StartReturns, CEASent
<1>4. WaitTimesOut \/ WatchdogGivesUp \/ ReceiveFd \/ ConnAck \/ ConnAckWins \/ ConnAckLoses => lock' = lock
  BY DEF WaitTimesOut, WatchdogGivesUp, ReceiveFd, ConnAck, ConnAckWins, ConnAckLoses
<1>5. \A r \in {"D", "U"} : CEA(r) \/ NonCEA(r) \/ DPR(r) => lock' = lock
  BY DEF CEA, NonCEA, DPR
<1>6. \A c \in Conns : ConnCERKept(c) => lock' = lock
  BY DEF ConnCERKept
<1> QED BY <1>1, <1>2, <1>3, <1>4, <1>5, <1>6, PeerSteps DEF PeerSame

LEMMA PipeSteps ==
  ASSUME Types, Next
  PROVE  xfer' = xfer \/ ReceiveFd \/ ConnAckWins \/ \E c \in Conns : Connects(c) \/ ConnCERAnswered(c)
<1>1. TimePasses \/ Timer \/ SendMessage => xfer' = xfer \/ \E c \in Conns : Connects(c)
  BY DEF TimePasses, Timer, SendMessage, Start, ConnectFails, StartReturns, WaitTimesOut, WatchdogAsks,
         WatchdogGivesUp
<1>2. HandsOver \/ CEASent => xfer' = xfer \/ ReceiveFd \/ ConnAckWins
  BY DEF HandsOver, CEASent, Disconnect, ConnAck, ConnAckLoses, ConnAckIgnored
<1>3. ASSUME NEW c \in Conns, Arrives(c) PROVE xfer' = xfer
  <2>1. ASSUME NEW i \in {Own, c}, Messages(i, c) PROVE xfer' = xfer
    BY <2>1, MessagesAre
  <2> QED BY <1>3, <2>1 DEF Arrives, Remote, RemoteConnects, RemoteCloses, ReceiveCER, ReadFails
<1>4. ASSUME NEW c \in Conns, Accepts(c) PROVE xfer' = xfer \/ ConnCERAnswered(c)
  BY <1>4 DEF Accepts, Disconnect, ConnCERKept, ConnCERRejected
<1>5. ASSUME NEW r \in {"D", "U"}, Reacts(r) PROVE xfer' = xfer
  BY <1>5 DEF Reacts, SelectFails, CEA, NonCEA, DWA, DPR, Overtaken
<1> QED BY <1>1, <1>2, <1>3, <1>4, <1>5, NextIs

\* The slot U drops after an answer is its own.
LEMMA FirstIs ==
  ASSUME Serviced("U") # {}
  PROVE  First("U") \in Conns
<1> DEFINE N == {MaxConn - i : i \in Serviced("U")}
<1>1. Serviced("U") \subseteq Conns /\ MaxConn \in Nat
  BY Constants DEF Serviced, Slots, Owner
<1>2. N \subseteq Nat /\ N # {}
  BY <1>1 DEF Conns
<1>3. Min(N) \in N /\ \A n \in N : Min(N) <= n
  BY <1>2, LeastExists
<1>4. PICK i \in Serviced("U") : Min(N) = MaxConn - i
  BY <1>3
<1>5. \A j \in Serviced("U") : MaxConn - i <= MaxConn - j
  BY <1>3, <1>4
<1>6. \A j \in Serviced("U") : j <= i
  BY <1>1, <1>5 DEF Conns
<1>7. First("U") \in Serviced("U")
  BY <1>4, <1>6, Zenon DEF First
<1> QED BY <1>1, <1>7

\* While D holds an acknowledgement its slot and its table stay as they are.
DKept == sp'[Own].tcp = sp[Own].tcp /\ fd'["D"] = fd["D"]

LEMMA DKeptIs ==
  ASSUME Types, Next, Acks, ev'["D"] = ev["D"]
  PROVE  DKept
<1>0. /\ Own \in Slots /\ Owner(Own) = "D" /\ {"T", "D", "U"} = Procs /\ sp \in Sps /\ fd \in Tables
      /\ ev["D"] # Idle /\ \A c \in Conns : c \in Slots /\ c # Own /\ Owner(c) = "U"
  BY Constants DEF Slots, Owner, Procs, Types, Acks, Idle, Names
<1>1. CASE TimePasses \/ Timer \/ SendMessage
  <2>1. UNCHANGED sp
    BY <1>1 DEF TimePasses, Timer, SendMessage, Start, ConnectFails, Connects, StartReturns, WaitTimesOut,
           WatchdogAsks, WatchdogGivesUp
  <2>2. ASSUME Start \/ WaitTimesOut \/ WatchdogGivesUp PROVE fd'["D"] = fd["D"]
    BY <1>0, <2>2, StartIs, WaitTimesOutIs, WatchdogGivesUpIs DEF Becomes, Closes
  <2>3. ASSUME NEW c \in Conns, Connects(c) PROVE fd'["D"] = fd["D"]
    BY <1>0, <2>3 DEF Connects, Tables
  <2>4. TimePasses \/ SendMessage \/ ConnectFails \/ StartReturns \/ WatchdogAsks => fd' = fd
    BY DEF TimePasses, SendMessage, ConnectFails, StartReturns, WatchdogAsks
  <2> QED BY <1>1, <2>1, <2>2, <2>3, <2>4 DEF Timer, DKept
<1>2. CASE HandsOver
  <2>1. ConnAck \/ ConnAckWins \/ ConnAckLoses \/ ConnAckIgnored => ev'["D"] = Idle
    BY HandledIs DEF ConnAck, ConnAckWins, ConnAckLoses, ConnAckIgnored
  <2>2. ReceiveFd => ev["D"] = Idle
    BY ReceiveFdIs
  <2>3. ~Disconnect("D", Own)
    BY <1>0, DisconnectLeaves DEF Acks
  <2> QED BY <1>0, <1>2, <2>1, <2>2, <2>3 DEF HandsOver
<1>3. ASSUME NEW c \in Conns, Arrives(c) PROVE DKept
  <2>1. ASSUME NEW i \in {Own, c}, Messages(i, c) PROVE UNCHANGED <<fd, sp>>
    BY <2>1, MessagesAre
  <2>2. ASSUME RemoteConnects(c) PROVE DKept
    BY <1>0, <2>2 DEF RemoteConnects, Tables, Sps, DKept
  <2>3. ASSUME NEW ok \in CommonApps, ReceiveCER(c, ok) PROVE DKept
    BY <1>0, <2>3 DEF ReceiveCER, Sps, DKept
  <2>4. ASSUME RemoteCloses(c) \/ \E i \in {Own, c} : ReadFails(i, c) PROVE UNCHANGED <<fd, sp>>
    BY <2>4 DEF RemoteCloses, ReadFails
  <2> QED BY <1>3, <2>1, <2>2, <2>3, <2>4 DEF Arrives, Remote, DKept
<1>4. ASSUME NEW c \in Conns, Accepts(c) PROVE DKept
  <2>1. CASE Disconnect("U", c)
    <3>1. sp'[Own] = sp[Own]
      BY <1>0, <2>1, DisconnectLeaves
    <3>2. fd'["D"] = fd["D"]
      BY <1>0, <2>1, DisconnectIs DEF Becomes, Closes
    <3> QED BY <3>1, <3>2 DEF DKept
  <2>2. CASE ConnCERAnswered(c)
    <3>1. fd'["D"] = fd["D"]
      BY <1>0, <2>2, ConnCERAnsweredIs DEF Answered, NotAnswered, Becomes, Closes
    <3>2. UNCHANGED sp \/ (Serviced("U") # {} /\ Drop(First("U")))
      BY <2>2 DEF ConnCERAnswered, SndCEA
    <3>3. sp'[Own] = sp[Own]
      BY <1>0, <3>2, FirstIs DEF Drop, Sps
    <3> QED BY <3>1, <3>3 DEF DKept
  <2>3. CASE ConnCERKept(c)
    BY <1>0, <2>3, ConnCERKeptIs DEF ConnCERKept, Becomes, Closes, DKept
  <2>4. CASE ConnCERRejected(c)
    <3>1. PICK s : fd' = Close(fd, "U", s)
      BY <2>4 DEF ConnCERRejected
    <3> QED BY <1>0, <2>4, <3>1, CloseIs DEF ConnCERRejected, Closes, DKept
  <2> QED BY <1>4, <2>1, <2>2, <2>3, <2>4 DEF Accepts
<1>5. CASE CEASent
  BY <1>0, <1>5, CEASentIs DEF CEASent, Becomes, Closes, DKept
<1>6. ASSUME NEW r \in {"D", "U"}, Reacts(r) PROVE DKept
  <2>0. UNCHANGED sp
    BY <1>6 DEF Reacts, SelectFails, CEA, NonCEA, DWA, DPR, Overtaken
  <2>1. CASE r = "U"
    <3>1. CEA("U") \/ NonCEA("U") \/ DPR("U") => fd'["D"] = fd["D"]
      BY <1>0, CEAIs, NonCEAIs, DPRIs DEF Becomes, Closes
    <3>2. SelectFails("U") \/ DWA("U") \/ Overtaken("U") => fd' = fd
      BY DEF SelectFails, DWA, Overtaken
    <3> QED BY <1>6, <2>0, <2>1, <3>1, <3>2 DEF Reacts, DKept
  <2>2. CASE r = "D"
    BY <1>0, <1>6, <2>2 DEF Reacts, SelectFails, CEA, NonCEA, DWA, DPR, Overtaken, Locked, Acks
  <2> QED BY <2>1, <2>2
<1> QED BY <1>1, <1>2, <1>3, <1>4, <1>5, <1>6, NextIs

-----------------------------------------------------------------------------
(* Which connection is the newest.                                          *)

\* The three ways to a new connection, or none was made.
LEMMA ByNone ==
  ASSUME Types, Next, NEW c \in Conns, net[c].by = "none", net'[c].by # "none"
  PROVE  /\ Fresh(c)
         /\ \/ RemoteConnects(c) /\ net'[c].by = "them"
            \/ Connects(c) /\ net'[c].by = "us"
<1>1. ASSUME NEW d \in Conns, Connects(d)
      PROVE  c = d /\ Fresh(c) /\ Connects(c) /\ net'[c].by = "us"
  BY <1>1, OpensIs DEF Connects, Opens
<1>2. ASSUME NEW d \in Conns, RemoteConnects(d)
      PROVE  c = d /\ Fresh(c) /\ RemoteConnects(c) /\ net'[c].by = "them"
  BY <1>2, OpensIs DEF RemoteConnects, Opens
<1>3. Frame \/ ReceiveFd => net'[c].by = net[c].by
  BY ReceiveFdIs DEF Frame, SameSides
<1>4. \E d \in Conns : Connects(d) \/ RemoteConnects(d)
  BY <1>3, FrameIs
<1> QED BY <1>1, <1>2, <1>4

LEMMA InOrderNext ==
  ASSUME Types, InOrder, Next
  PROVE  InOrder'
<1> SUFFICES ASSUME NEW c \in Conns, NEW d \in Conns, d < c, net'[c].by # "none"
             PROVE  net'[d].by # "none"
  BY DEF InOrder
<1>1. net[d].by # "none"
  <2>1. CASE net[c].by # "none"
    BY <2>1 DEF InOrder
  <2>2. CASE net[c].by = "none"
    <3>1. Fresh(c)
      BY <2>2, ByNone
    <3> QED BY <3>1 DEF Fresh, Conns
  <2> QED BY <2>1, <2>2
<1> QED BY <1>1, SidesKept

\* The newest stays so until the timer connects again, and then the new one is it.
LEMMA NewestKept ==
  ASSUME Types, Next, \A c \in Conns : ~Connects(c), NEW c, IsNewest(c)
  PROVE  IsNewest(c)'
BY ByNone, SidesKept DEF IsNewest, Us

LEMMA NewestDialled ==
  ASSUME Types, InOrder, Next, NEW c \in Conns, Connects(c)
  PROVE  IsNewest(c)'
<1>1. net'[c].by = "us" /\ \A d \in Conns \ {c} : net'[d] = net[d]
  BY OpensIs DEF Connects, Opens
<1>2. \A d \in Conns : d > c => net[d].by = "none"
  BY DEF InOrder, Connects, Fresh
<1> QED BY <1>1, <1>2 DEF IsNewest, Us, Conns

LEMMA ExchangedKept ==
  ASSUME Types, TablesOwn, Next, \A c \in Conns : ~Connects(c), Exchanged
  PROVE  Exchanged'
<1>1. PICK c \in Conns : IsNewest(c) /\ net[c].phase = "open"
  BY DEF Exchanged
<1>2. IsNewest(c)' /\ net'[c].by = "us"
  BY <1>1, NewestKept DEF IsNewest, Us
<1>3. net'[c].phase = "open"
  BY <1>1, <1>2, PhaseSteps DEF IsNewest, Us
<1> QED BY <1>2, <1>3 DEF Exchanged

\* It is the connection the properties name.
LEMMA NewestIs ==
  ASSUME NEW c, IsNewest(c)
  PROVE  Newest = c
<1> DEFINE P(d) == (d # 0 => net[d].by = "us") /\ \A e \in Conns : e > d => net[e].by # "us"
<1>1. c \in 0..MaxConn /\ P(c)
  BY DEF IsNewest, Us, Conns
<1>2. \A d \in 0..MaxConn : P(d) => d = c
  BY Constants DEF IsNewest, Us, Conns
<1>3. Newest = CHOOSE d \in 0..MaxConn : P(d)
  BY DEF Newest
<1> HIDE DEF P
<1> QED BY <1>1, <1>2, <1>3

-----------------------------------------------------------------------------
(* The invariant is kept.                                                   *)

LEMMA PipeIs ==
  ASSUME Types
  PROVE  /\ xfer \in Seq(Conns) /\ Len(xfer) \in Nat
         /\ xfer # <<>> => /\ Len(xfer) > 0 /\ Head(xfer) = xfer[1] /\ Len(Tail(xfer)) = Len(xfer) - 1
                          /\ \A k \in 1..(Len(xfer) - 1) : Tail(xfer)[k] = xfer[k + 1]
         /\ \A c \in Conns : xfer = <<c>> => Head(xfer) = c /\ Tail(xfer) = <<>> /\ xfer # <<>>
<1>1. xfer \in Seq(Conns) /\ Len(xfer) \in Nat
  BY DEF Types
<1>2. xfer # <<>> => Len(xfer) > 0 /\ Head(xfer) = xfer[1] /\ Len(Tail(xfer)) = Len(xfer) - 1
  BY <1>1
<1>3. ASSUME xfer # <<>>, NEW k \in 1..(Len(xfer) - 1) PROVE Tail(xfer)[k] = xfer[k + 1]
  BY <1>1, <1>3
<1>4. ASSUME NEW c \in Conns, xfer = <<c>> PROVE Head(xfer) = c /\ Tail(xfer) = <<>> /\ xfer # <<>>
  BY <1>4
<1> QED BY <1>1, <1>2, <1>3, <1>4

LEMMA NotDueNext ==
  ASSUME Prompt, Types, Types', NotDue, Dialling, Next
  PROVE  NotDue'
<1>1. CASE TimePasses
  <2>1. xfer = <<>> /\ lock = None /\ ev["D"] = Idle /\ UNCHANGED <<xfer, lock, ev>>
    BY <1>1 DEF TimePasses, Quiet
  <2> QED BY <2>1, Constants DEF NotDue, Acks, Answers, Idle, Names
<1>2. ASSUME ~TimePasses, due' PROVE xfer' = <<>> /\ ~Acks' /\ ~Answers' /\ lock' = None
  <2>1. due /\ xfer = <<>> /\ ~Acks /\ ~Answers /\ lock = None
    BY <1>2, DueSteps DEF NotDue
  <2>2. /\ \A c \in Conns : ~Connects(c) /\ ~ConnCERAnswered(c)
        /\ ~Start /\ ~ReceiveFd /\ ~ConnAckWins
    BY <1>2, <2>1, Constants DEF Connects, ConnCERAnswered, Start, ReceiveFd, ConnAckWins, Locked, Acks, Locks
  <2>3. \A c \in Conns, i \in Slots, ok \in BOOLEAN : ~ReceiveCEA(i, c, ok)
    BY <1>2 DEF ReceiveCEA, Receive
  <2>4. xfer' = <<>>
    BY <2>1, <2>2, PipeSteps
  <2>5. lock' = None
    BY <2>1, <2>2, LockSteps
  <2>6. ~ConnAck /\ ~ConnAckLoses /\ ~ConnAckIgnored
    BY <2>1 DEF ConnAck, ConnAckLoses, ConnAckIgnored, Locked, Acks
  <2>7. ~Acks' /\ ~Answers'
    BY <2>1, <2>2, <2>3, <2>6, EventSteps DEF Acks, Answers
  <2> QED BY <2>4, <2>5, <2>7
<1> QED BY <1>1, <1>2 DEF NotDue, Types

LEMMA DiallingNext ==
  ASSUME Types, LockState, NotDue, Dialling, Next
  PROVE  Dialling'
<1>l. None \notin Locks /\ {"T_connects", "T_connected", "U"} = Locks
  BY Constants DEF Locks
<1> SUFFICES ASSUME lock' = "T_connects" PROVE xfer' = <<>> /\ ~Acks' /\ ~Answers'
  BY DEF Dialling
<1>1. \A c \in Conns : ~Connects(c) /\ ~ConnCERAnswered(c)
  BY DEF Connects, ConnCERAnswered
<1>2. CASE Start
  BY <1>2 DEF Start, TimerSees, NotDue, Acks, Answers
<1>3. CASE lock = "T_connects"
  <2>1. xfer = <<>> /\ ~Acks /\ ~Answers /\ p.state = "Wait_Conn_Ack" /\ lock # None
    BY <1>3, <1>l DEF Dialling, LockState
  <2>2. ~ReceiveFd /\ ~ConnAckWins /\ ~ConnAck /\ ~ConnAckLoses /\ ~ConnAckIgnored
    BY <2>1 DEF ReceiveFd, ConnAckWins, ConnAck, ConnAckLoses, ConnAckIgnored, Locked
  <2>3. \A c \in Conns, i \in Slots, ok \in BOOLEAN : ~ReceiveCEA(i, c, ok)
    BY <2>1 DEF ReceiveCEA
  <2>4. xfer' = <<>>
    BY <1>1, <2>1, <2>2, PipeSteps
  <2>5. ~Acks' /\ ~Answers'
    BY <2>1, <2>2, <2>3, EventSteps DEF Acks, Answers
  <2> QED BY <2>4, <2>5
<1> QED BY <1>1, <1>2, <1>3, <1>l, LockSteps

LEMMA InPipeNext ==
  ASSUME Types, LockState, InOrder, Dialling, InPipe, Next, Dialling'
  PROVE  InPipe'
<1>l. None \notin Locks /\ {"T_connects", "T_connected", "U"} = Locks
  BY Constants DEF Locks
<1> SUFFICES ASSUME AwaitsAck'
             PROVE  xfer' = <<>> \/ \E c \in Conns : IsNewest(c)' /\ xfer' = <<c>> /\ ~Acks'
  BY DEF InPipe
<1>1. CASE lock' = "T_connects"
  BY <1>1 DEF Dialling
<1>2. CASE lock' # "T_connects"
  <2>1. AwaitsAck
    <3>1. p'.state = "Wait_Conn_Ack_Elect" => p.state \in {"Wait_Conn_Ack", "Wait_Conn_Ack_Elect"}
      BY StateSteps DEF ConnCERKept
    <3> QED BY <1>2, <3>1, StateSteps DEF AwaitsAck
  <2>2. CASE ReceiveFd
    BY <2>1, <2>2, ReceiveFdIs, PipeIs DEF InPipe
  <2>3. ASSUME NEW c \in Conns, Connects(c) PROVE IsNewest(c)' /\ xfer' = <<c>> /\ ~Acks'
    <3>1. xfer = <<>> /\ ~Acks /\ xfer' = Append(xfer, c) /\ ev' = ev
      BY <2>3 DEF Connects, Dialling
    <3> QED BY <2>3, <3>1, NewestDialled DEF Acks
  <2>4. CASE ~ReceiveFd /\ \A c \in Conns : ~Connects(c)
    <3>1. ~ConnAckWins
      BY ConnAckWinsIs DEF Answered, NotAnswered, Becomes, AwaitsAck
    <3>2. \A c \in Conns : ~ConnCERAnswered(c)
      BY <2>1 DEF ConnCERAnswered, AwaitsAck
    <3>3. xfer' = xfer
      BY <2>4, <3>1, <3>2, PipeSteps
    <3>4. ASSUME NEW c \in Conns, IsNewest(c), xfer = <<c>>, ~Acks PROVE IsNewest(c)' /\ ~Acks'
      <4>1. IsNewest(c)'
        BY <2>4, <3>4, NewestKept
      <4>2. ~ConnAck /\ ~ConnAckLoses /\ ~ConnAckIgnored
        BY <3>4 DEF ConnAck, ConnAckLoses, ConnAckIgnored, Locked, Acks
      <4>3. \A d \in Conns, i \in Slots, ok \in BOOLEAN : ~ReceiveCEA(i, d, ok)
        BY <2>1 DEF ReceiveCEA, AwaitsAck
      <4> QED BY <2>4, <3>1, <3>4, <4>1, <4>2, <4>3, EventSteps DEF Acks
    <3> QED BY <2>1, <3>3, <3>4 DEF InPipe
  <2> QED BY <2>2, <2>3, <2>4
<1> QED BY <1>1, <1>2
\* Where an answer is awaited nothing is dialled, and the pipe only gets shorter.
LEMMA WaitPipe ==
  ASSUME Types, LockState, Next, AwaitsCEA', lock' = None
  PROVE  /\ \A c \in Conns : ~Connects(c)
         /\ xfer' = xfer \/ ReceiveFd
         /\ \/ ConnAck \/ ConnAckLoses
            \/ AwaitsCEA /\ lock = None
<1>l. None \notin Locks /\ {"T_connects", "T_connected", "U"} = Locks
  BY Constants DEF Locks
<1>1. \A c \in Conns : ~Connects(c) /\ ~ConnCERAnswered(c)
  BY <1>l DEF Connects, ConnCERAnswered
<1>2. ~ConnAckWins
  BY ConnAckWinsIs DEF Answered, NotAnswered, Becomes, AwaitsCEA
<1>3. ReceiveFd => p'.state = p.state /\ lock' = lock
  BY ReceiveFdIs
<1>4. PeerSame => p'.state = p.state /\ lock' = lock
  BY DEF PeerSame
<1> QED BY <1>1, <1>2, <1>3, <1>4, WaitSteps, PipeSteps DEF AwaitsCEA

LEMMA InWaitNext ==
  ASSUME Types, Types', TablesOwn, LockState, InPipe, InWait, AckIsNewest, Next
  PROVE  InWait'
<1>s. Own \in Slots /\ Owner(Own) = "D"
  BY DEF Slots, Owner
<1> SUFFICES ASSUME lock' = None, AwaitsCEA'
             PROVE  \A c \in Conns :
                      net'[c].by = "us" /\ ((\E k \in 1..Len(xfer') : xfer'[k] = c) \/ ConnOf(Own)' = c)
                        => IsNewest(c)'
  <2>1. xfer' \in Seq(Conns) /\ ConnOf(Own)' \in Conns \cup {NoConn}
    BY <1>s DEF Types, ConnOf, Sps, Tables, Procs, Owner
  <2> QED BY <2>1 DEF InWait, Us, IsNewest
<1>n. \A c \in Conns : IsNewest(c) => IsNewest(c)'
  BY WaitPipe, NewestKept
<1>u. \A c \in Conns : net'[c].by = "us" => Us(c)
  BY WaitPipe, ByNone, SidesKept DEF Us
<1>1. CASE ConnAck \/ ConnAckLoses
  <2>1. xfer' = xfer /\ AwaitsAck /\ Acks
    BY <1>1 DEF ConnAck, ConnAckLoses, Locked, Acks, AwaitsAck
  <2>2. xfer' = <<>>
    BY <2>1 DEF InPipe
  <2>3. IsNewest(ConnOf(Own))
    BY <2>1 DEF AckIsNewest
  <2>4. ConnOf(Own)' # NoConn => ConnOf(Own)' = ConnOf(Own)
    <3>1. ~ReceiveFd
      BY <2>1, ReceiveFdIs, Constants DEF Acks, Idle, Names
    <3> QED BY <3>1, ReadsOwn
  <2>5. \A c \in Conns, k \in 1..Len(xfer') : xfer'[k] # c
    BY <2>2
  <2>6. ASSUME NEW c \in Conns, ConnOf(Own)' = c PROVE IsNewest(c)'
    <3>1. ConnOf(Own) = c
      BY <2>4, <2>6, Constants
    <3> QED BY <1>n, <2>3, <3>1
  <2> QED BY <2>5, <2>6
<1>2. CASE AwaitsCEA /\ lock = None
  <2>1. /\ \A k \in 1..Len(xfer) : Us(xfer[k]) => IsNewest(xfer[k])
        /\ ConnOf(Own) # NoConn /\ Us(ConnOf(Own)) => IsNewest(ConnOf(Own))
    BY <1>2 DEF InWait
  <2>2. ASSUME NEW c \in Conns, net'[c].by = "us",
               (\E k \in 1..Len(xfer) : xfer[k] = c) \/ ConnOf(Own) = c
        PROVE  IsNewest(c)'
    BY <1>n, <1>u, <2>1, <2>2, Constants
  <2>3. ASSUME NEW c \in Conns, NEW k \in 1..Len(xfer'), xfer'[k] = c
        PROVE  \E m \in 1..Len(xfer) : xfer[m] = c
    <3>1. CASE xfer' = xfer
      BY <2>3, <3>1
    <3>2. CASE ReceiveFd
      <4>1. xfer # <<>> /\ xfer' = Tail(xfer)
        BY <3>2, ReceiveFdIs
      <4>2. k + 1 \in 1..Len(xfer) /\ xfer'[k] = xfer[k + 1]
        BY <4>1, PipeIs
      <4> QED BY <2>3, <4>2
    <3> QED BY <3>1, <3>2, WaitPipe
  <2>4. ASSUME NEW c \in Conns, ConnOf(Own)' = c
        PROVE  (\E m \in 1..Len(xfer) : xfer[m] = c) \/ ConnOf(Own) = c
    <3>1. CASE ReceiveFd /\ ConnOf(Own)' = Head(xfer)
      <4>1. 1 \in 1..Len(xfer) /\ Head(xfer) = xfer[1]
        BY <3>1, ReceiveFdIs, PipeIs
      <4> QED BY <2>4, <3>1, <4>1
    <3> QED BY <2>4, <3>1, ReadsOwn, Constants
  <2> QED BY <2>2, <2>3, <2>4
<1> QED BY <1>1, <1>2, WaitPipe

\* D takes the newest connection and keeps it until it has reported the acknowledgement.
LEMMA AckIsNewestNext ==
  ASSUME Types, Types', TablesOwn, LockState, Dialling, InPipe, AckIsNewest, Next
  PROVE  AckIsNewest'
<1>s. Own \in Slots /\ Owner(Own) = "D" /\ Owner(Own)' = "D"
  BY DEF Slots, Owner
<1> SUFFICES ASSUME Acks' PROVE IsNewest(ConnOf(Own))'
  BY DEF AckIsNewest
<1>i. Idle.name # "I_Rcv_Conn_Ack"
  BY Constants DEF Idle, Names
<1>1. CASE ReceiveFd
  <2>1. xfer # <<>> /\ p.state = "Wait_Conn_Ack"
    BY <1>1, <1>i, ReceiveFdIs DEF Acks
  <2>2. PICK c \in Conns : IsNewest(c) /\ xfer = <<c>>
    BY <2>1 DEF InPipe, AwaitsAck
  <2>3. ConnOf(Own)' = c
    <3>1. /\ sp'[Own].tcp = NextSock("D") /\ NextSock("D") # NoSock
          /\ fd'["D"][NextSock("D")] = Head(xfer)
      BY <1>1, ReceiveFdIs, Constants
    <3>2. Head(xfer) = c
      BY <2>2, PipeIs
    <3> QED BY <1>s, <3>1, <3>2 DEF ConnOf
  <2>4. \A d \in Conns : ~Connects(d)
    <3>1. lock # "T_connects"
      BY <2>1 DEF Dialling
    <3> QED BY <3>1 DEF Connects
  <2>5. IsNewest(c)'
    BY <2>2, <2>4, NewestKept
  <2> QED BY <2>3, <2>5
<1>2. CASE ~ReceiveFd
  <2>1. ConnAck \/ ConnAckWins \/ ConnAckLoses \/ ConnAckIgnored => ev'["D"] = Idle
    BY HandledIs DEF ConnAck, ConnAckWins, ConnAckLoses, ConnAckIgnored
  <2>2. ev'["D"] = ev["D"]
    BY <1>2, <1>i, <2>1, EventSteps DEF Acks
  <2>3. Acks /\ IsNewest(ConnOf(Own))
    BY <2>2 DEF Acks, AckIsNewest
  <2>4. DKept
    BY <2>2, <2>3, DKeptIs
  <2>5. ConnOf(Own)' = ConnOf(Own)
    BY <1>s, <2>4 DEF DKept, ConnOf
  <2>6. \A d \in Conns : ~Connects(d)
    BY <2>3 DEF Dialling, Connects
  <2>7. \A c : IsNewest(c) => IsNewest(c)'
    BY <2>6, NewestKept
  <2> QED BY <2>3, <2>5, <2>7
<1> QED BY <1>1, <1>2

LEMMA AnswerIsNewestNext ==
  ASSUME Types, TablesOwn, LockState, InWait, AnswerIsNewest, Next
  PROVE  AnswerIsNewest'
<1> SUFFICES ASSUME lock' = None, AwaitsCEA', Answers', ev'["D"].ok PROVE Exchanged'
  BY DEF AnswerIsNewest
<1>i. Idle.name # "CEA"
  BY Constants DEF Idle, Names
<1>1. ConnAck \/ ConnAckWins \/ ConnAckLoses \/ ConnAckIgnored => ev'["D"] = Idle
  BY HandledIs DEF ConnAck, ConnAckWins, ConnAckLoses, ConnAckIgnored
<1>2. AwaitsCEA /\ lock = None /\ \A c \in Conns : ~Connects(c)
  BY <1>1, <1>i, WaitPipe DEF Answers
<1>3. CASE ev'["D"] = ev["D"]
  BY <1>2, <1>3, ExchangedKept DEF AnswerIsNewest, Answers
<1>4. ASSUME NEW c \in Conns, NEW i \in Slots, NEW ok \in BOOLEAN, ReceiveCEA(i, c, ok),
             ev'["D"].ok = ok, Owner(i) = "D"
      PROVE  Exchanged'
  <2>1. i = Own /\ Owner(Own) = "D"
    BY <1>4 DEF Owner
  <2>2. ConnOf(Own) = c /\ Us(c)
    BY <1>4, <2>1 DEF ReceiveCEA, Receive, Reads, ConnOf, Us
  <2>3. IsNewest(c)
    BY <1>2, <2>2, Constants DEF InWait
  <2>4. IsNewest(c)'
    BY <1>2, <2>3, NewestKept
  <2>5. net'[c].phase = "open"
    BY <1>4 DEF ReceiveCEA, Types, Nets
  <2> QED BY <2>4, <2>5 DEF Exchanged
<1>5. ReceiveFd => ev'["D"] = ev["D"] \/ ev'["D"].name = "I_Rcv_Conn_Ack"
  BY ReceiveFdIs
<1> QED BY <1>1, <1>3, <1>4, <1>5, <1>i, EventSteps DEF Answers

\* Only an answer opens the peer as initiator.
LEMMA OpensBy ==
  ASSUME Types, Next, p'.state = "I_Open"
  PROVE  p.state = "I_Open" \/ \E r \in {"D", "U"} : CEA(r) /\ ev[r].ok
<1> SUFFICES ASSUME p.state # "I_Open" PROVE \E r \in {"D", "U"} : CEA(r) /\ ev[r].ok
  OBVIOUS
<1>1. ~PeerSame /\ ~ReceiveFd /\ \A c \in Conns : ~Connects(c)
  BY ReceiveFdIs DEF PeerSame, Connects
<1>2. \A r \in {"D", "U"} : CEA(r) => ev[r].ok
  BY CEAIs DEF Becomes
<1>3. ASSUME NEW r \in {"D", "U"}, NEW i \in Slots, Disconnect(r, i) PROVE FALSE
  <2>1. p' = p \/ p'.state = EndState(Both, sp[i].tcp)
    BY <1>3, DisconnectIs DEF Becomes
  <2> QED BY <2>1, BothIs DEF EndState, MidState
<1>4. ~Start /\ ~ConnectFails /\ ~StartReturns /\ ~ConnAck /\ ~ConnAckLoses
  BY StartIs DEF Becomes, ConnectFails, StartReturns, ConnAck, ConnAckLoses, Types, PeerT
<1>5. ~WaitTimesOut /\ ~WatchdogGivesUp /\ ~CEASent
  BY WaitTimesOutIs, WatchdogGivesUpIs, CEASentIs DEF Becomes
<1>6. ~ConnAckWins
  BY ConnAckWinsIs DEF Answered, NotAnswered, Becomes
<1>7. \A c \in Conns : ~ConnCERKept(c)
  BY ConnCERKeptIs DEF Becomes
<1>8. \A r \in {"D", "U"} : ~NonCEA(r) /\ ~DPR(r)
  BY NonCEAIs, DPRIs DEF Becomes
<1>9. ASSUME NEW c \in Conns, ConnCERAnswered(c) PROVE FALSE
  <2>1. PICK h \in Boths : /\ h.p.state \in {p.state, "Wait_Returns"}
                           /\ \/ Answered(h, "U", sp[c].tcp, ev["U"].ok, FALSE)
                              \/ NotAnswered(h, "U", sp[c].tcp, FALSE)
    BY <1>9, ConnCERAnsweredIs
  <2>2. p'.state = h.p.state \/ p'.state = EndState(h, sp[c].tcp)
    BY <2>1 DEF Answered, NotAnswered, Becomes
  <2> QED BY <2>1, <2>2 DEF EndState, MidState
<1>s. Own \in Slots /\ \A c \in Conns : c \in Slots
  BY DEF Slots
<1> QED BY <1>1, <1>2, <1>3, <1>4, <1>5, <1>6, <1>7, <1>8, <1>9, <1>s, PeerSteps

LEMMA OpenIsNewestNext ==
  ASSUME Types, TablesOwn, EventsOwn, LockState, AnswerIsNewest, OpenIsNewest, Next
  PROVE  OpenIsNewest'
<1> SUFFICES ASSUME p'.state = "I_Open" PROVE Exchanged'
  BY DEF OpenIsNewest
<1>1. \A c \in Conns : ~Connects(c)
  BY DEF Connects, LockState
<1>2. CASE p.state = "I_Open"
  BY <1>1, <1>2, ExchangedKept DEF OpenIsNewest
<1>3. ASSUME NEW r \in {"D", "U"}, CEA(r), ev[r].ok PROVE Exchanged'
  <2>1. r = "D" /\ Answers /\ lock = None /\ AwaitsCEA
    BY <1>3 DEF CEA, Locked, EventsOwn, Answers, AwaitsCEA
  <2> QED BY <1>1, <1>3, <2>1, ExchangedKept DEF AnswerIsNewest
<1> QED BY <1>2, <1>3, OpensBy

\* While only this node dials no CER comes, and what is in the pipe is awaited.
LEMMA NoReceiverNext ==
  ASSUME Types, Types', EventsOwn, LockState, OnlyUs, NotDue, Dialling, InPipe, NoReceiver, Next
  PROVE  NoReceiver'
<1> SUFFICES ASSUME OneDials("us")'
             PROVE  p'.R = NoSock /\ (xfer' # <<>> => p'.state = "Wait_Conn_Ack")
  BY DEF NoReceiver
<1>1. OneDials("us") /\ p.R = NoSock /\ (xfer # <<>> => p.state = "Wait_Conn_Ack")
  BY OneDialsStays DEF NoReceiver
<1>l. None \notin Locks /\ {"T_connects", "T_connected", "U"} = Locks
  BY Constants DEF Locks
<1>2. \A c \in Conns : ~ConnCERAnswered(c) /\ ~ConnCERKept(c)
  BY <1>1 DEF ConnCERAnswered, ConnCERKept, Locked, EventsOwn, OneDials, Them
<1>3. p.state # "Wait_Conn_Ack_Elect"
  BY <1>1 DEF OnlyUs
<1>4. ~ConnAckWins /\ ~ConnAckLoses
  BY <1>3 DEF ConnAckWins, ConnAckLoses
<1>5. ASSUME NEW r \in {"D", "U"}, NEW i \in Slots, Disconnect(r, i)
      PROVE  p'.R = NoSock /\ (p.state = "Wait_Conn_Ack" => p'.state = p.state)
  <2>1. p' = p \/ (p'.R = EndR(Both, sp[i].tcp) /\ p'.state = EndState(Both, sp[i].tcp))
    BY <1>5, DisconnectIs DEF Becomes
  <2> QED BY <1>1, <2>1, BothIs DEF EndR, EndState, MidState
<1>s. Own \in Slots /\ \A c \in Conns : c \in Slots
  BY DEF Slots
<1>6. p'.R = NoSock
  <2>1. CASE ReceiveFd
    BY <1>1, <2>1, ReceiveFdIs
  <2>2. PeerSame \/ (\E c \in Conns : Connects(c)) => p'.R = p.R
    BY DEF PeerSame, Connects
  <2>3. ConnectFails \/ StartReturns \/ ConnAck => p'.R = p.R
    BY DEF ConnectFails, StartReturns, ConnAck, Types, PeerT
  <2>4. Start \/ WaitTimesOut \/ WatchdogGivesUp \/ CEASent => p'.R \in {p.R, NoSock}
    BY StartIs, WaitTimesOutIs, WatchdogGivesUpIs, CEASentIs DEF Becomes
  <2>5. \A r \in {"D", "U"} : CEA(r) \/ NonCEA(r) \/ DPR(r) => p'.R \in {p.R, NoSock}
    BY CEAIs, NonCEAIs, DPRIs DEF Becomes
  <2> QED BY <1>1, <1>2, <1>4, <1>5, <1>s, <2>1, <2>2, <2>3, <2>4, <2>5, PeerSteps
<1>7. ASSUME xfer' # <<>> PROVE p'.state = "Wait_Conn_Ack"
  <2>1. ASSUME NEW c \in Conns, Connects(c) PROVE p'.state = "Wait_Conn_Ack"
    BY <2>1 DEF Connects, LockState
  <2>2. CASE \A c \in Conns : ~Connects(c)
    <3>1. xfer # <<>>
      BY <1>2, <1>4, <1>7, <2>2, PipeSteps, ReceiveFdIs
    <3>2. p.state = "Wait_Conn_Ack" /\ ~due /\ ~Acks /\ lock # "T_connects"
      BY <1>1, <3>1 DEF NotDue, InPipe, AwaitsAck, Dialling
    <3>3. PeerSame \/ ReceiveFd => p'.state = p.state
      BY ReceiveFdIs DEF PeerSame
    <3>4. ~Start /\ ~WaitTimesOut /\ ~WatchdogGivesUp /\ ~ConnectFails /\ ~ConnAck
      BY <3>2 DEF Start, WaitTimesOut, WatchdogGivesUp, TimerSees, ConnectFails, ConnAck, Locked, Acks
    <3>5. StartReturns => p'.state = p.state
      BY DEF StartReturns, Types, PeerT
    <3>6. ~CEASent
      BY <3>2 DEF CEASent, LockState
    <3>7. \A r \in {"D", "U"} : ~CEA(r) /\ ~NonCEA(r) /\ ~DPR(r)
      <4>1. \A r \in {"D", "U"} : ev[r].name \in {"DWA", "DPR"} => ev[r].at \in Open
        BY EventIs
      <4> QED BY <3>2, <4>1 DEF CEA, NonCEA, DPR, Locked, Open
    <3> QED BY <1>2, <1>4, <1>5, <1>s, <2>2, <3>2, <3>3, <3>4, <3>5, <3>6, <3>7, PeerSteps
  <2> QED BY <2>1, <2>2
<1> QED BY <1>6, <1>7

LEMMA PromptHolds ==
  ASSUME Prompt
  PROVE  Spec => [](PeerInv /\ PromptInv)
<1> DEFINE Inv == PeerInv /\ PromptInv
<1>1. Init => Inv
  BY TypesInit, OwnInit, RolesInit, SidesInit, PromptInit DEF PeerInv
<1>2. ASSUME Inv, [Next]_vars PROVE Inv'
  <2>1. CASE Next
    <3>1. Types'
      BY <1>2, TypesNext DEF PeerInv
    <3>2. PeerInv'
      BY <1>2, <2>1, <3>1, TablesNext, SlotsNext, EventsNext, RolesNext, OnlyUsNext, OnlyThemNext
         DEF PeerInv
    <3>3. InOrder' /\ NotDue' /\ Dialling'
      BY <1>2, <2>1, <3>1, InOrderNext, NotDueNext, DiallingNext DEF PeerInv, PromptInv
    <3>4. InPipe' /\ InWait' /\ AckIsNewest'
      BY <1>2, <2>1, <3>1, <3>3, InPipeNext, InWaitNext, AckIsNewestNext DEF PeerInv, PromptInv
    <3>5. AnswerIsNewest' /\ OpenIsNewest'
      BY <1>2, <2>1, AnswerIsNewestNext, OpenIsNewestNext DEF PeerInv, PromptInv
    <3>6. NoReceiver'
      BY <1>2, <2>1, <3>1, NoReceiverNext DEF PeerInv, PromptInv
    <3> QED BY <3>2, <3>3, <3>4, <3>5, <3>6 DEF PromptInv
  <2>2. CASE UNCHANGED vars
    <3>1. PeerInv'
      BY <1>2, <2>2 DEF vars, PeerInv, Types, TablesOwn, SlotsOwn, EventsOwn, LockState, Roles,
           OnlyUs, OnlyThem, OneDials, Reads_R, Us, Them
    <3>2. \A c : IsNewest(c)' <=> IsNewest(c)
      BY <2>2 DEF vars, IsNewest, Us
    <3>3. PromptInv'
      BY <1>2, <2>2, <3>2 DEF vars, PromptInv, InOrder, NotDue, Dialling, InPipe, InWait, AckIsNewest,
           AnswerIsNewest, OpenIsNewest, NoReceiver, Acks, Answers, AwaitsAck, AwaitsCEA, Exchanged,
           ConnOf, OneDials, Us
    <3> QED BY <3>1, <3>3
  <2> QED BY <1>2, <2>1, <2>2
<1> HIDE DEF Inv
<1>3. Spec => []Inv
  BY <1>1, <1>2, PTL DEF Spec
<1> QED BY <1>3 DEF Inv

-----------------------------------------------------------------------------
(* The theorems.                                                            *)

\* With receivers that react in time, a peer open as initiator is so on the capabilities
\* exchanged on the connection it opened last (peerstatemachine.c:173-182).
THEOREM OpensByNewest ==
  ASSUME Prompt
  PROVE  Spec => []OpenedByNewest
<1>1. PromptInv => OpenedByNewest
  BY NewestIs, Constants DEF PromptInv, OpenIsNewest, Exchanged, IsNewest, OpenedByNewest
<1> QED BY <1>1, PromptHolds, PTL

\* The acknowledgement D reports is that of a connection this node opened
\* (receiver.c:737-742, 1056).
THEOREM AcksAreForOurs ==
  ASSUME Prompt
  PROVE  Spec => []AckIsForOurs
<1>1. PromptInv => AckIsForOurs
  BY DEF PromptInv, AckIsNewest, Acks, IsNewest, Us, AckIsForOurs
<1> QED BY <1>1, PromptHolds, PTL

\* A Closed peer that only dials has no socket when nothing is under way
\* (peerstatemachine.c:535-537, 551-557).
THEOREM ClosedHaveNoSocket ==
  ASSUME Prompt
  PROVE  Spec => []ClosedHasNoSocket
<1>1. PeerInv /\ PromptInv => ClosedHasNoSocket
  BY DEF PeerInv, Roles, PromptInv, NoReceiver, ClosedHasNoSocket
<1> QED BY <1>1, PromptHolds, PTL
=============================================================================
