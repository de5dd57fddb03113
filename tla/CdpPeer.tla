------------------------------ MODULE CdpPeer ------------------------------
(***************************************************************************)
(* One configured Diameter peer of modules/cdp and the processes that      *)
(* share it: the timer process T (peermanager.c), the peer's own receiver  *)
(* D, the receiver of unknown connections U (receiver.c) and the processes *)
(* that send.  The state machine is sm_process() of peerstatemachine.c.    *)
(*                                                                         *)
(* Sockets are numbers in the table of one process.  The peer structure is *)
(* shared and holds such numbers, so what close(p->I_sock) closes depends  *)
(* on the process that runs it; the tables are therefore part of the       *)
(* state.  A connection is handed to D by passing its descriptor through a *)
(* pipe, which gives D a number of its own.                                *)
(*                                                                         *)
(* Stop is fired by no code of the module, so Closing is never reached.    *)
(***************************************************************************)
EXTENDS Integers, Sequences, FiniteSets, FiniteSetsExt

CONSTANTS MaxConn,      \* bound: TCP connections in a behaviour
          MaxSock,      \* bound: descriptor numbers
          Numbers,      \* bound: those each process has for connections
          RemoteDials,  \* whether the remote peer opens connections to this node
          LocalDials,   \* whether this node can reach the remote peer
          CommonApps,   \* outcomes of Process_CER(): a subset of BOOLEAN
          Elects,       \* outcomes of Elect() at this node: a subset of BOOLEAN
          Prompt,       \* whether receivers react within tc, the watchdog's period
          Sending,      \* whether other processes send requests to the peer
          None,         \* no event, lock holder or pipe
          Freed         \* a send pipe's name after it was freed

Conns  == 1..MaxConn
NoConn == 0
Procs  == {"T", "D", "U"}
Sock   == 1..MaxSock
NoSock == -1
Locks  == {"T_connects", "T_connected", "U"}
Names  == {"I_Rcv_Conn_Ack", "R_Conn_CER", "CEA_Sent", "CEA", "Non_CEA", "DWA", "DPR", "Disconnect"}

ASSUME PeerAssumption ==
  /\ MaxConn \in Nat /\ MaxSock \in Nat
  /\ Numbers \in [Procs -> SUBSET Sock]
  /\ {RemoteDials, LocalDials, Prompt, Sending} \subseteq BOOLEAN
  /\ CommonApps \subseteq BOOLEAN /\ Elects \subseteq BOOLEAN
  /\ None \notin Locks \cup Names

Waiting == {"Wait_Conn_Ack", "Wait_I_CEA", "Wait_Conn_Ack_Elect", "Wait_Returns"}
Open    == {"R_Open", "I_Open"}
States  == {"Closed"} \cup Waiting \cup Open

\* A serviced peer: D has one, U has one for every connection it was given.
Own      == 0
Slots    == {Own} \cup Conns
Owner(i) == IF i = Own THEN "D" ELSE "U"

VARIABLES p,     \* the shared peer structure
          due,   \* p->activity is at least tc seconds old
          lock,  \* who keeps p->lock between two steps, and for what
          fd,    \* each process's table of descriptors
          sp,    \* the serviced peers
          ev,    \* the event a receiver has made out and not yet processed
          xfer,  \* descriptors on their way to D
          net    \* the connections, as the remote peer sees them

vars == <<p, due, lock, fd, sp, ev, xfer, net>>

Idle   == [name |-> None]
Events == {Idle}
  \cup [name : {"I_Rcv_Conn_Ack", "R_Conn_CER", "CEA_Sent"}, slot : Slots, ok : BOOLEAN]
  \cup [name : {"CEA", "Non_CEA"}, at : {"Wait_I_CEA"}, ok : BOOLEAN]
  \cup [name : {"DWA", "DPR"}, at : Open, ok : BOOLEAN]
  \cup [name : {"Disconnect"}, slots : SUBSET Slots]

TypeOK ==
  /\ p \in [state : States, I : Sock \cup {NoSock}, R : Sock \cup {NoSock}, r_cer : BOOLEAN,
            waitingDWA : BOOLEAN, pipe : Slots \cup {None, Freed}]
  /\ due \in BOOLEAN
  /\ lock \in Locks \cup {None}
  /\ fd \in [Procs -> [Sock -> Conns \cup {NoConn}]]
  /\ sp \in [Slots -> [there : BOOLEAN, known : BOOLEAN, tcp : Sock \cup {NoSock}]]
  /\ ev \in [{"D", "U"} -> Events]
  /\ xfer \in Seq(Conns)
  /\ net \in [Conns -> [by : {"none", "us", "them"}, up : BOOLEAN,
                        phase : {"new", "cer", "open"}, dwr : BOOLEAN]]

Init ==
  /\ p = [state |-> "Closed", I |-> NoSock, R |-> NoSock, r_cer |-> FALSE,
          waitingDWA |-> FALSE, pipe |-> Own]
  /\ due = TRUE
  /\ lock = None
  /\ fd = [q \in Procs |-> [s \in Sock |-> NoConn]]
  /\ sp = [i \in Slots |-> [there |-> i = Own, known |-> i = Own, tcp |-> NoSock]]
  /\ ev = [r \in {"D", "U"} |-> Idle]
  /\ xfer = <<>>
  /\ net = [c \in Conns |-> [by |-> "none", up |-> FALSE, phase |-> "new", dwr |-> FALSE]]

-----------------------------------------------------------------------------
(* Descriptors                                                              *)

Fresh(c) == net[c].by = "none" /\ \A d \in 1..(c - 1) : net[d].by # "none"

\* The number the kernel gives process q for a new descriptor: the lowest free.
FreeSocks(q) == {s \in Numbers[q] : fd[q][s] = NoConn}
NextSock(q)  == Min(FreeSocks(q))

Close(table, q, s) == IF s \in Sock THEN [table EXCEPT ![q][s] = NoConn] ELSE table

\* What the helpers of the state machine change: the peer and the caller's table.
Both == [p |-> p, fd |-> fd]
Apply(h) == p' = h.p /\ fd' = h.fd

To(h, state) == [h EXCEPT !.p.state = state]

Cleanup(h, q, s) ==
  IF s = NoSock THEN h
  ELSE [p  |-> [h.p EXCEPT !.I = IF @ = s THEN NoSock ELSE @,
                           !.R = IF @ = s THEN NoSock ELSE @],
        fd |-> Close(h.fd, q, s)]

I_Disc(h, q) == [p |-> [h.p EXCEPT !.I = NoSock], fd |-> Close(h.fd, q, h.p.I)]
R_Disc(h, q) == [p |-> [h.p EXCEPT !.R = NoSock], fd |-> Close(h.fd, q, h.p.R)]

\* The events I_Peer_Disc and R_Peer_Disc, in the states that take them.
I_Peer_Disc(h, q) ==
  CASE h.p.state \in {"Wait_I_CEA", "I_Open"} -> To(I_Disc(h, q), "Closed")
    [] h.p.state = "Wait_Returns"             -> I_Disc(h, q)
    [] OTHER                                  -> h
R_Peer_Disc(h, q) ==
  CASE h.p.state = "R_Open"              -> To(R_Disc(h, q), "Closed")
    [] h.p.state = "Wait_Conn_Ack_Elect" -> To(R_Disc(h, q), "Wait_Conn_Ack")
    [] h.p.state = "Wait_Returns"        -> To(R_Disc(h, q), "Wait_I_CEA")
    [] OTHER                             -> h

\* Both events, for whichever of the peer's sockets has the number s.
PeerDisc(h, q, s) ==
  LET one == IF h.p.I = s THEN I_Peer_Disc(h, q) ELSE h IN
  IF one.p.R = s THEN R_Peer_Disc(one, q) ELSE one

-----------------------------------------------------------------------------
(* Sending                                                                  *)

\* The connection a message pushed into the peer's send pipe leaves on.
PipeConn == IF p.pipe \in Slots /\ sp[p.pipe].tcp # NoSock
            THEN fd[Owner(p.pipe)][sp[p.pipe].tcp] ELSE NoConn

\* I_Snd_CER() and Snd_DWR() through the pipe; without one they are lost.
SendCER == net' = [c \in Conns |-> IF c = PipeConn /\ net[c].by = "us" /\ net[c].phase = "new"
                                   THEN [net[c] EXCEPT !.phase = "cer"] ELSE net[c]]
SendDWR == net' = [c \in Conns |-> IF c = PipeConn
                                   THEN [net[c] EXCEPT !.dwr = TRUE] ELSE net[c]]

\* Whether write() on socket s of process q may give the result w.
Writes(h, q, s, w) ==
  LET c == IF s = NoSock THEN NoConn ELSE h.fd[q][s] IN
  IF w THEN c # NoConn ELSE c # NoConn => ~net[c].up

\* The first serviced peer of process q for this peer: the one added last.
Serviced(q) == {i \in Slots : Owner(i) = q /\ sp[i].there /\ sp[i].known}
First(q)    == CHOOSE i \in Serviced(q) :
                 q = "D" \/ \A j \in Serviced(q) : j <= i

\* drop_serviced_peer(): its pipe's name is freed, the peer may still hold it.
Drop(i) == sp' = [sp EXCEPT ![i] = [there |-> FALSE, known |-> FALSE, tcp |-> NoSock]]
NameFreed(h, i) == IF h.p.pipe = i THEN [h EXCEPT !.p.pipe = Freed] ELSE h

\* Snd_CEA() by process q on its socket s: when the answer was written, the
\* descriptor is passed to D and q drops its serviced peer.  With opens, the peer
\* is open afterwards whether it was written or not.
Opened(h) == To([h EXCEPT !.p.r_cer = FALSE], "R_Open")
SndCEA(h, q, s, ok, w, opens) ==
  LET After(g) == IF opens THEN Opened(g) ELSE g IN
  /\ Writes(h, q, s, w)
  /\ \/ /\ w
        /\ LET c == h.fd[q][s] IN
           /\ xfer' = Append(xfer, c)
           /\ net' = [net EXCEPT ![c].phase = IF ok /\ net[c].by = "them" THEN "open" ELSE @]
        /\ \/ /\ Serviced(q) # {}
              /\ Drop(First(q))
              /\ Apply(After(NameFreed(h, First(q))))
           \/ /\ Serviced(q) = {}
              /\ Apply(After(h))
              /\ UNCHANGED sp
     \/ /\ ~w
        /\ Apply(After(IF s = NoSock THEN h ELSE PeerDisc(h, q, s)))
        /\ UNCHANGED <<sp, xfer, net>>

-----------------------------------------------------------------------------
(* The timer process: peer_timer()                                          *)

Quiet == lock = None /\ xfer = <<>> /\ ev = [r \in {"D", "U"} |-> Idle]

TimePasses ==
  /\ ~due /\ (Prompt => Quiet)
  /\ due' = TRUE
  /\ UNCHANGED <<p, lock, fd, sp, ev, xfer, net>>

TimerSees(states) == lock = None /\ due /\ p.state \in states

\* Closed: Start.  I_Snd_Conn_Req() keeps the lock while it connects; the receiver
\* of a descriptor does not ask for it.
Start ==
  /\ TimerSees({"Closed"})
  /\ due' = FALSE
  /\ Apply(To(I_Disc(Both, "T"), "Wait_Conn_Ack"))
  /\ lock' = "T_connects"
  /\ UNCHANGED <<sp, ev, xfer, net>>

\* peer_connect() returns -1 and the state machine sees I_Rcv_Conn_NAck.
ConnectFails ==
  /\ lock = "T_connects" /\ lock' = None
  /\ p' = [p EXCEPT !.state = "Closed", !.I = NoSock]
  /\ UNCHANGED <<due, fd, sp, ev, xfer, net>>

\* peer_connect() passes the descriptor to D before p->I_sock is assigned.
Connects(c) ==
  /\ lock = "T_connects" /\ LocalDials /\ Fresh(c) /\ FreeSocks("T") # {}
  /\ lock' = "T_connected"
  /\ fd' = [fd EXCEPT !["T"][NextSock("T")] = c]
  /\ xfer' = Append(xfer, c)
  /\ net' = [net EXCEPT ![c] = [by |-> "us", up |-> TRUE, phase |-> "new", dwr |-> FALSE]]
  /\ UNCHANGED <<p, due, sp, ev>>

StartReturns ==
  /\ lock = "T_connected" /\ lock' = None
  /\ \E s \in Sock : /\ fd["T"][s] # NoConn /\ \A t \in Sock : fd["T"][t] <= fd["T"][s]
                     /\ p' = [p EXCEPT !.I = s]
  /\ UNCHANGED <<due, fd, sp, ev, xfer, net>>

\* A fault: a state that waits for the remote peer only is not timed out.
WaitReturnsForever ==
  /\ TimerSees(Waiting \ {"Wait_Returns"})
  /\ due' = FALSE
  /\ Apply(To(Cleanup(Both, "T", p.I), "Closed"))
  /\ UNCHANGED <<lock, sp, ev, xfer, net>>

\* A fault: the state is set to Closing.
WaitTimesOutClosing ==
  /\ TimerSees(Waiting)
  /\ due' = FALSE
  /\ Apply(To(Cleanup(Both, "T", p.I), "Closing"))
  /\ UNCHANGED <<lock, sp, ev, xfer, net>>

\* The waiting states time out: Error() on the sockets that are set.
WaitTimesOut ==
  /\ TimerSees(Waiting)
  /\ due' = FALSE
  /\ LET one == Cleanup(Both, "T", p.I)
         two == IF p.state \in {"Wait_Conn_Ack_Elect", "Wait_Returns"}
                THEN Cleanup(one, "T", one.p.R) ELSE one
     IN Apply(To(two, "Closed"))
  /\ UNCHANGED <<lock, sp, ev, xfer, net>>

\* An open peer is inactive: ask, and give it up when it has not answered.
WatchdogAsks ==
  /\ TimerSees(Open) /\ ~p.waitingDWA
  /\ p' = [p EXCEPT !.waitingDWA = TRUE]
  /\ due' = FALSE
  /\ SendDWR
  /\ UNCHANGED <<lock, fd, sp, ev, xfer>>

\* A fault of the second: only the flag is reset.
WatchdogRetries ==
  /\ TimerSees(Open) /\ p.waitingDWA
  /\ p' = [p EXCEPT !.waitingDWA = FALSE]
  /\ UNCHANGED <<due, lock, fd, sp, ev, xfer, net>>

WatchdogGivesUp ==
  LET h == [Both EXCEPT !.p.waitingDWA = FALSE] IN
  /\ TimerSees(Open) /\ p.waitingDWA
  /\ \/ p.state = "I_Open" /\ Apply(I_Peer_Disc(h, "T"))
     \/ p.state = "R_Open" /\ Apply(R_Peer_Disc(h, "T"))
  /\ UNCHANGED <<due, lock, sp, ev, xfer, net>>

-----------------------------------------------------------------------------
(* The receivers: receive_loop()                                            *)

Bad(i)     == sp[i].there /\ sp[i].tcp # NoSock /\ fd[Owner(i)][sp[i].tcp] = NoConn
SelectsOk(r) == ev[r] = Idle /\ \A i \in Slots : Owner(i) = r => ~Bad(i)
Reads(i, c) == /\ SelectsOk(Owner(i)) /\ sp[i].there /\ sp[i].tcp # NoSock
               /\ fd[Owner(i)][sp[i].tcp] = c

\* Faults of the next: D takes every descriptor for the receiver's socket, or for
\* the initiator's.
ReceiveAsReceiver ==
  LET s == NextSock("D") IN
  /\ SelectsOk("D") /\ xfer # <<>> /\ FreeSocks("D") # {}
  /\ xfer' = Tail(xfer)
  /\ fd' = [fd EXCEPT !["D"][s] = Head(xfer)]
  /\ sp' = [sp EXCEPT ![Own] = [there |-> TRUE, known |-> TRUE, tcp |-> s]]
  /\ p' = [p EXCEPT !.pipe = Own, !.R = s]
  /\ UNCHANGED <<due, lock, ev, net>>
ReceiveAsInitiator ==
  LET s == NextSock("D") IN
  /\ SelectsOk("D") /\ xfer # <<>> /\ FreeSocks("D") # {}
  /\ xfer' = Tail(xfer)
  /\ fd' = [fd EXCEPT !["D"][s] = Head(xfer)]
  /\ sp' = [sp EXCEPT ![Own] = [there |-> TRUE, known |-> TRUE, tcp |-> s]]
  /\ p' = [p EXCEPT !.pipe = Own, !.I = s]
  /\ ev' = [ev EXCEPT !["D"] = [name |-> "I_Rcv_Conn_Ack", slot |-> Own, ok |-> TRUE]]
  /\ UNCHANGED <<due, lock, net>>

\* D takes a descriptor out of its pipe and makes a send pipe; the peer's state
\* tells it which socket this is.  All without the peer's lock.
ReceiveFd ==
  LET s == NextSock("D") IN
  /\ SelectsOk("D") /\ xfer # <<>> /\ FreeSocks("D") # {}
  /\ xfer' = Tail(xfer)
  /\ fd' = [fd EXCEPT !["D"][s] = Head(xfer)]
  /\ sp' = [sp EXCEPT ![Own] = [there |-> TRUE, known |-> TRUE, tcp |-> s]]
  /\ \/ /\ p.state = "Wait_Conn_Ack"
        /\ p' = [p EXCEPT !.pipe = Own, !.I = s]
        /\ ev' = [ev EXCEPT !["D"] = [name |-> "I_Rcv_Conn_Ack", slot |-> Own, ok |-> TRUE]]
     \/ /\ p.state # "Wait_Conn_Ack"
        /\ p' = [p EXCEPT !.pipe = Own, !.R = s]
        /\ UNCHANGED ev
  /\ UNCHANGED <<due, lock, net>>

\* The remote peer connects; the acceptor passes the connection to U.
RemoteConnects(c) ==
  /\ RemoteDials /\ Fresh(c) /\ SelectsOk("U") /\ FreeSocks("U") # {}
  /\ net' = [net EXCEPT ![c] = [by |-> "them", up |-> TRUE, phase |-> "new", dwr |-> FALSE]]
  /\ fd' = [fd EXCEPT !["U"][NextSock("U")] = c]
  /\ sp' = [sp EXCEPT ![c] = [there |-> TRUE, known |-> FALSE, tcp |-> NextSock("U")]]
  /\ UNCHANGED <<p, due, lock, ev, xfer>>

RemoteCloses(c) ==
  /\ net[c].up
  /\ net' = [net EXCEPT ![c].up = FALSE]
  /\ UNCHANGED <<p, due, lock, fd, sp, ev, xfer>>

\* A CER on a new connection: U learns the peer and gives it this send pipe.
ReceiveCER(c, ok) ==
  /\ Reads(c, c) /\ ~sp[c].known
  /\ net[c].up /\ net[c].phase = "new"
  /\ net' = [net EXCEPT ![c].phase = "cer"]
  /\ sp' = [sp EXCEPT ![c].known = TRUE]
  /\ p' = [p EXCEPT !.pipe = c]
  /\ ev' = [ev EXCEPT !["U"] = [name |-> "R_Conn_CER", slot |-> c, ok |-> ok]]
  /\ UNCHANGED <<due, lock, fd, xfer>>

\* A message on connection c of a known peer.  Which event it is depends on the
\* peer's state, read without the lock.
Receive(i, c, name, ok) ==
  /\ Reads(i, c) /\ sp[i].known /\ net[c].up
  /\ due' = FALSE
  /\ ev' = [ev EXCEPT ![Owner(i)] = [name |-> name, at |-> p.state, ok |-> ok]]
  /\ UNCHANGED <<p, lock, fd, sp, xfer>>

ReceiveCEA(i, c, ok) ==
  /\ net[c].by = "us" /\ net[c].phase = "cer" /\ p.state = "Wait_I_CEA"
  /\ Receive(i, c, "CEA", ok)
  /\ net' = [net EXCEPT ![c].phase = IF ok THEN "open" ELSE @]
ReceiveNonCEA(i, c) ==
  /\ net[c].phase # "new" /\ p.state = "Wait_I_CEA"
  /\ Receive(i, c, "Non_CEA", TRUE)
  /\ UNCHANGED net
ReceiveDWA(i, c) ==
  /\ net[c].phase = "open" /\ net[c].dwr /\ p.state \in Open
  /\ Receive(i, c, "DWA", TRUE)
  /\ net' = [net EXCEPT ![c].dwr = FALSE]
ReceiveDPR(i, c) ==
  /\ net[c].phase = "open" /\ p.state \in Open
  /\ Receive(i, c, "DPR", TRUE)
  /\ UNCHANGED net

\* A message that changes nothing of the peer but the time of its last activity.
ReceiveOther(i, c) ==
  /\ Reads(i, c) /\ sp[i].known /\ net[c].up /\ due
  /\ net[c].phase = "open" /\ p.state # "Wait_I_CEA"
  /\ due' = FALSE
  /\ UNCHANGED <<p, lock, fd, sp, ev, xfer, net>>

\* recv() finds the connection closed; select() finds a descriptor closed, which
\* disconnects every serviced peer of the process.
ReadFails(i, c) ==
  /\ Reads(i, c) /\ ~net[c].up
  /\ ev' = [ev EXCEPT ![Owner(i)] = [name |-> "Disconnect", slots |-> {i}]]
  /\ UNCHANGED <<p, due, lock, fd, sp, xfer, net>>
SelectFails(r) ==
  /\ ev[r] = Idle /\ \E i \in Slots : Owner(i) = r /\ Bad(i)
  /\ ev' = [ev EXCEPT ![r] = [name |-> "Disconnect",
                              slots |-> {i \in Slots : Owner(i) = r /\ sp[i].there}]]
  /\ UNCHANGED <<p, due, lock, fd, sp, xfer, net>>

-----------------------------------------------------------------------------
(* The receivers' events, under the peer's lock                             *)

Locked(r, name) == ev[r].name = name /\ lock = None
Handled(r)      == ev' = [ev EXCEPT ![r] = Idle]

\* disconnect_serviced_peer(), for the newest of the slots to disconnect.
Disconnect(r, i) ==
  /\ Locked(r, "Disconnect") /\ i \in ev[r].slots
  /\ i = Own \/ \A j \in ev[r].slots : j <= i
  /\ \/ /\ sp[i].known
        /\ LET h == PeerDisc(Both, r, sp[i].tcp)
           IN Apply([h EXCEPT !.p.pipe = None])
     \/ /\ ~sp[i].known
        /\ UNCHANGED <<p, fd>>
  /\ sp' = [sp EXCEPT ![i].tcp = NoSock]
  /\ ev' = [ev EXCEPT ![r] = IF @.slots = {i} THEN Idle
                             ELSE [name |-> "Disconnect", slots |-> @.slots \ {i}]]
  /\ UNCHANGED <<due, lock, xfer, net>>

\* I_Rcv_Conn_Ack while no connection of the remote's waits.
ConnAck ==
  /\ Locked("D", "I_Rcv_Conn_Ack") /\ p.state = "Wait_Conn_Ack"
  /\ p' = [p EXCEPT !.state = "Wait_I_CEA"]
  /\ SendCER /\ Handled("D")
  /\ UNCHANGED <<due, lock, fd, sp, xfer>>

\* ... while a CER of the remote's waits: the CER is sent, then the election.
\* The winner disconnects before D has read its pipe, so the CER is never written,
\* and answers on p->R_sock, a number of U's table, in D's.
ConnAckWins ==
  /\ Locked("D", "I_Rcv_Conn_Ack") /\ p.state = "Wait_Conn_Ack_Elect" /\ TRUE \in Elects
  /\ \E w \in BOOLEAN :
       SndCEA(To(I_Disc(Both, "D"), "Wait_Returns"), "D", p.R, TRUE, w, TRUE)
  /\ Handled("D")
  /\ UNCHANGED <<due, lock>>
ConnAckLoses ==
  /\ Locked("D", "I_Rcv_Conn_Ack") /\ p.state = "Wait_Conn_Ack_Elect" /\ FALSE \in Elects
  /\ p' = [p EXCEPT !.state = "Wait_Returns", !.r_cer = FALSE]
  /\ SendCER /\ Handled("D")
  /\ UNCHANGED <<due, lock, fd, sp, xfer>>
ConnAckIgnored ==
  /\ Locked("D", "I_Rcv_Conn_Ack") /\ p.state \notin {"Wait_Conn_Ack", "Wait_Conn_Ack_Elect"}
  /\ Handled("D")
  /\ UNCHANGED <<p, due, lock, fd, sp, xfer, net>>

\* Faults of the next two: a refused peer's socket is kept, any message is an answer.
CEARefusedKept(r) ==
  /\ Locked(r, "CEA") /\ p.state = "Wait_I_CEA"
  /\ p' = [p EXCEPT !.state = IF ev[r].ok THEN "I_Open" ELSE "Closed"]
  /\ Handled(r)
  /\ UNCHANGED <<due, lock, fd, sp, xfer, net>>
AnyAnswerOpens(r) ==
  /\ Locked(r, "Non_CEA") /\ p.state = "Wait_I_CEA"
  /\ p' = [p EXCEPT !.state = "I_Open"]
  /\ Handled(r)
  /\ UNCHANGED <<due, lock, fd, sp, xfer, net>>

\* I_Rcv_CEA, I_Rcv_Non_CEA: only Wait_I_CEA was seen, and only there they count.
CEA(r) ==
  /\ Locked(r, "CEA") /\ p.state = "Wait_I_CEA"
  /\ Apply(IF ev[r].ok THEN To(Both, "I_Open") ELSE To(Cleanup(Both, r, p.I), "Closed"))
  /\ Handled(r)
  /\ UNCHANGED <<due, lock, sp, xfer, net>>
NonCEA(r) ==
  /\ Locked(r, "Non_CEA") /\ p.state = "Wait_I_CEA"
  /\ Apply(To(Cleanup(Both, r, p.I), "Closed"))
  /\ Handled(r)
  /\ UNCHANGED <<due, lock, sp, xfer, net>>
DWA(r) ==
  /\ Locked(r, "DWA") /\ p.state = ev[r].at
  /\ p' = [p EXCEPT !.waitingDWA = FALSE]
  /\ Handled(r)
  /\ UNCHANGED <<due, lock, fd, sp, xfer, net>>
DPR(r) ==
  /\ Locked(r, "DPR") /\ p.state = ev[r].at
  /\ Apply(To(IF p.state = "I_Open" THEN I_Disc(Both, r) ELSE R_Disc(Both, r), "Closed"))
  /\ Handled(r)
  /\ UNCHANGED <<due, lock, sp, xfer, net>>

\* The state has changed since it was read: sm_process() returns 0.
Overtaken(r) ==
  /\ ev[r].name \in {"CEA", "Non_CEA", "DWA", "DPR"} /\ lock = None /\ p.state # ev[r].at
  /\ Handled(r)
  /\ UNCHANGED <<p, due, lock, fd, sp, xfer, net>>

\* R_Conn_CER, by U on its socket for the connection.
Accept(h, s) == [h EXCEPT !.p.R = s]

\* A fault of the next: the initiated connection is not disconnected.
ConnCERKeepsBoth(c) ==
  LET s == sp[c].tcp
      h == Accept([Both EXCEPT !.p.r_cer = p.r_cer /\ p.state = "Closed"], s)
  IN
  /\ Locked("U", "R_Conn_CER") /\ ev["U"].slot = c
  /\ p.state \in {"Closed", "Wait_I_CEA"}
  /\ \E w \in BOOLEAN :
       SndCEA(IF p.state = "Wait_I_CEA" THEN To(h, "Wait_Returns") ELSE h, "U", s,
              ev["U"].ok, w, FALSE)
  /\ due' = FALSE
  /\ lock' = "U"
  /\ ev' = [ev EXCEPT !["U"].name = "CEA_Sent"]

\* Closed and Wait_I_CEA answer at once; an election in Wait_I_CEA, won or lost,
\* first disconnects the initiated connection.
ConnCERAnswered(c) ==
  LET s == sp[c].tcp
      a == Accept([Both EXCEPT !.p.r_cer = p.r_cer /\ p.state = "Closed"], s)
      h == IF p.state = "Wait_I_CEA" /\ ev["U"].ok
           THEN To(I_Disc(a, "U"), "Wait_Returns") ELSE a
  IN
  /\ Locked("U", "R_Conn_CER") /\ ev["U"].slot = c
  /\ p.state \in {"Closed", "Wait_I_CEA"}
  /\ \E w \in BOOLEAN : SndCEA(h, "U", s, ev["U"].ok, w, FALSE)
  /\ due' = FALSE
  /\ lock' = "U"
  /\ ev' = [ev EXCEPT !["U"].name = "CEA_Sent"]

CEASent ==
  /\ ev["U"].name = "CEA_Sent" /\ lock = "U"
  /\ Apply(IF ev["U"].ok THEN To(Both, "R_Open")
           ELSE To(IF p.state = "Closed" THEN R_Disc(Both, "U")
                   ELSE I_Disc(R_Disc(Both, "U"), "U"), "Closed"))
  /\ lock' = None
  /\ Handled("U")
  /\ UNCHANGED <<due, sp, xfer, net>>

\* A fault of the next: the CER is not kept.
ConnCERForgotten(c) ==
  /\ Locked("U", "R_Conn_CER") /\ ev["U"].slot = c /\ p.state = "Wait_Conn_Ack"
  /\ Apply(To(Accept([Both EXCEPT !.p.r_cer = FALSE], sp[c].tcp), "Wait_Conn_Ack_Elect"))
  /\ due' = FALSE
  /\ Handled("U")
  /\ UNCHANGED <<lock, sp, xfer, net>>

\* Wait_Conn_Ack keeps an acceptable CER for the election.
ConnCERKept(c) ==
  LET h == Accept(Both, sp[c].tcp) IN
  /\ Locked("U", "R_Conn_CER") /\ ev["U"].slot = c /\ p.state = "Wait_Conn_Ack"
  /\ Apply(IF ev["U"].ok
           THEN To([h EXCEPT !.p.r_cer = TRUE], "Wait_Conn_Ack_Elect")
           ELSE To(I_Disc(R_Disc([h EXCEPT !.p.r_cer = FALSE], "U"), "U"), "Closed"))
  /\ due' = FALSE
  /\ Handled("U")
  /\ UNCHANGED <<lock, sp, xfer, net>>

\* R_Reject(): in Wait_Returns of the socket the peer already has.
ConnCERRejected(c) ==
  /\ Locked("U", "R_Conn_CER") /\ ev["U"].slot = c
  /\ p.state \in Open \cup {"Wait_Conn_Ack_Elect", "Wait_Returns"}
  /\ fd' = Close(fd, "U", IF p.state = "Wait_Returns" THEN p.R ELSE sp[c].tcp)
  /\ Handled("U")
  /\ UNCHANGED <<p, due, lock, sp, xfer, net>>

-----------------------------------------------------------------------------
(* Other processes: Snd_Message() marks the peer active and uses the pipe.  *)
SendMessage ==
  /\ Sending /\ lock = None /\ p.state \in Open /\ due
  /\ due' = FALSE
  /\ UNCHANGED <<p, lock, fd, sp, ev, xfer, net>>

-----------------------------------------------------------------------------
Timer == Start \/ ConnectFails \/ (\E c \in Conns : Connects(c)) \/ StartReturns \/ WaitTimesOut
           \/ WatchdogAsks \/ WatchdogGivesUp

Remote(c) == RemoteConnects(c) \/ RemoteCloses(c)

Messages(i, c) ==
  \/ ReceiveNonCEA(i, c) \/ ReceiveDWA(i, c) \/ ReceiveDPR(i, c) \/ ReceiveOther(i, c)
  \/ \E ok \in BOOLEAN : ReceiveCEA(i, c, ok)

ReceiverD ==
  \/ ReceiveFd \/ SelectFails("D") \/ \E c \in Conns : ReadFails(Own, c)
  \/ Disconnect("D", Own)
  \/ ConnAck \/ ConnAckWins \/ ConnAckLoses \/ ConnAckIgnored
  \/ CEA("D") \/ NonCEA("D") \/ DWA("D") \/ DPR("D") \/ Overtaken("D")

ReceiverU ==
  \/ SelectFails("U") \/ CEASent
  \/ CEA("U") \/ NonCEA("U") \/ DWA("U") \/ DPR("U") \/ Overtaken("U")
  \/ \E c \in Conns : \/ ReadFails(c, c) \/ Disconnect("U", c)
                      \/ ConnCERAnswered(c) \/ ConnCERKept(c) \/ ConnCERRejected(c)

Next ==
  \/ TimePasses \/ Timer \/ ReceiverD \/ ReceiverU \/ SendMessage
  \/ \E c \in Conns : \/ Remote(c)
                      \/ \E ok \in CommonApps : ReceiveCER(c, ok)
                      \/ \E i \in {Own, c} : Messages(i, c)

Spec == Init /\ [][Next]_vars

\* select() wakes the receivers and the timer runs; the remote peer owes nothing.
FairSpec == /\ Spec
            /\ WF_vars(TimePasses) /\ WF_vars(Timer) /\ WF_vars(SendMessage)
            /\ WF_vars(ReceiverD) /\ WF_vars(ReceiverU)

-----------------------------------------------------------------------------
(* What holds                                                               *)

Newest == CHOOSE c \in 0..MaxConn :
  (c # 0 => net[c].by = "us") /\ \A d \in Conns : d > c => net[d].by # "us"
ConnOf(i) == IF sp[i].tcp = NoSock THEN NoConn ELSE fd[Owner(i)][sp[i].tcp]
OneDials(side) == \A c \in Conns : net[c].by \in {"none", side}

\* The peer is open as initiator only on the capabilities exchanged on the
\* connection it initiated last, never on an answer of an earlier attempt
\* (peerstatemachine.c:173-182 against peermanager.c:286-303).
OpenedByNewest ==
  p.state = "I_Open" => Newest # NoConn /\ net[Newest].phase = "open"

\* While the connection's acknowledgement is awaited the descriptor is in the
\* pipe or D is about to report it: as long as the remote peer does not dial as
\* well nobody waits for an event that was spent (peerstatemachine.c:105-106, receiver.c:737-739).
AckComes ==
  p.state = "Wait_Conn_Ack" /\ OneDials("us") =>
    lock # None \/ xfer # <<>> \/ ev["D"].name = "I_Rcv_Conn_Ack"

\* The acknowledgement D reports is that of a connection this node initiated, not
\* of one handed over after its CER was answered (receiver.c:737-742, 1056).
AckIsForOurs ==
  ev["D"].name = "I_Rcv_Conn_Ack" => net[ConnOf(Own)].by = "us"

\* A peer that is Closed and of which no event is pending has no socket left, so
\* the next attempt starts clean, when only this node dials (peerstatemachine.c:535-537, 551-557).
ClosedHasNoSocket ==
  p.state = "Closed" /\ OneDials("us") /\ Quiet => p.I = NoSock /\ p.R = NoSock

\* The election always has the remote peer's CER to decide on
\* (peerstatemachine.c:146-152 against 229-247).
ElectionHasCER == p.state = "Wait_Conn_Ack_Elect" => p.r_cer

\* Whatever the interleaving of timer, receivers and elections, a peer open as receiver
\* has given up its initiated socket (peerstatemachine.c:189-199, 288-316).
OneRole == p.state = "R_Open" => p.I = NoSock

\* When only the remote peer dials, a receiver reads the socket the peer is open on:
\* the hand-over to D leaves no gap (receiver.c:1051-1063, 740-742).
ReceiverHasSocket ==
  p.state = "R_Open" /\ OneDials("them") /\ Quiet =>
    p.R # NoSock /\ \E i \in Slots : sp[i].there /\ sp[i].known /\ sp[i].tcp = p.R

\* When every connection is lost the peer does not stay open: what the receivers
\* fail to notice, the watchdog does (peermanager.c:304-315).
LostNoticed ==
  LET AllLost == \A c \in Conns : ~net[c].up IN
  (p.state \in Open /\ AllLost) ~> (p.state \notin Open \/ ~AllLost)

\* No waiting state is for ever, whatever event was lost (peermanager.c:294-303).
WaitsEnd == p.state \in Waiting ~> p.state \notin Waiting

-----------------------------------------------------------------------------
(* What the code or its comments say, and does not hold                     *)

\* p->I_sock is the "socket used as initiator", and p->lock the "lock for
\* operations with this peer" (peer.h:118-121).
InitiatorHasSocket == p.state = "I_Open" /\ ev["D"] = Idle => p.I = sp[Own].tcp

\* I_Open: "Connected as initiator" (peer.h:75).  A disconnection in another process takes the
\* initiated socket when the numbers coincide, for receiver.c:239 compares those of two tables.
ConnectedAsInitiator == p.state = "I_Open" => p.I # NoSock

\* An open peer has a "pipe to signal messages to be sent out" (peer.h:128).
OpenHasPipe == p.state \in Open /\ Quiet /\ (\A c \in Conns : net[c].by = "none" \/ net[c].up)
                 => p.pipe \in Slots

\* "lost the election => wait for I_Recv_CEA" (peerstatemachine.c:194): the lost
\* election does not cost the initiated connection.
LoserWaitsForCEA ==
  [][p.state = "Wait_I_CEA" /\ lock' = "U" /\ ev["U"].ok => p'.I = p.I]_vars

\* "switch the peer processing to its dedicated process" (receiver.c:1051): no
\* connection is read by two receivers.
OneReader == \A i, j \in Slots :
  i # j /\ ConnOf(i) = ConnOf(j) /\ ConnOf(i) # NoConn => ~(sp[i].there /\ sp[j].there)

\* R_Open: "Connected as receiver" (peer.h:74).
OpenHasSocket == p.state = "R_Open" => p.R # NoSock

\* I_Disc(): "Initiator - disconnect peer" (peerstatemachine.c:765): a Closed peer's
\* initiated connections are open in no process.
ClosedReleases ==
  p.state = "Closed" /\ Quiet => \A s \in Sock : fd["T"][s] = NoConn /\ fd["D"][s] = NoConn
=============================================================================
