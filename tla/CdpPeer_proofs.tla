--------------------------- MODULE CdpPeer_proofs ---------------------------
(***************************************************************************)
(* Proofs about a Diameter peer's state machine and the processes that     *)
(* share it, for any number of connections and descriptors.                *)
(***************************************************************************)
EXTENDS CdpPeer, WellFoundedInduction, TLAPS

LEMMA LeastExists ==
  ASSUME NEW N, N \subseteq Nat, N # {}
  PROVE  Min(N) \in N /\ \A n \in N : Min(N) <= n
<1> DEFINE Less == {ss \in Nat \X Nat : ss[1] < ss[2]}
<1>1. IsWellFoundedOn(Less, Nat)
  BY NatLessThanWellFounded, Zenon DEF OpToRel
<1> HIDE DEF Less
<1>2. PICK m \in N : \A n \in N : <<n, m>> \notin Less
  BY <1>1, WFMin, Zenon
<1>3. \A n \in N : ~(n < m)
  BY <1>2 DEF Less
<1>4. \A n \in N : m <= n
  BY <1>3
<1> QED BY <1>4, Zenon DEF Min

LEMMA Constants ==
  /\ Numbers \in [Procs -> SUBSET Sock] /\ Sock \subseteq Nat /\ NoSock \notin Sock
  /\ NoConn \notin Conns /\ Own \notin Conns /\ Conns \subseteq Nat /\ MaxConn \in Nat
  /\ None \notin Locks /\ None \notin Names
BY PeerAssumption DEF Sock, NoSock, NoConn, Own, Conns

-----------------------------------------------------------------------------
(* What the helpers of the state machine do.                                *)

PeerT  == [state : States, I : Sock \cup {NoSock}, R : Sock \cup {NoSock}, r_cer : BOOLEAN,
           waitingDWA : BOOLEAN, pipe : Slots \cup {None, Freed}]
Tables == [Procs -> [Sock -> Conns \cup {NoConn}]]
Boths  == [p : PeerT, fd : Tables]

\* Process q closes some of its descriptors.
Closes(f, g, q) ==
  /\ g \in Tables /\ \A r \in Procs \ {q} : g[r] = f[r]
  /\ \A s \in Sock : g[q][s] \in {f[q][s], NoConn}

\* From h the peer comes to a state, with these sockets.
Comes(h, g, q, state, I, R) ==
  /\ g \in Boths /\ g.p.state = state /\ g.p.I = I /\ g.p.R = R
  /\ g.p.r_cer = h.p.r_cer /\ Closes(h.fd, g.fd, q)

LEMMA CloseIs ==
  ASSUME NEW f \in Tables, NEW q \in Procs, NEW s
  PROVE  Closes(f, Close(f, q, s), q)
BY DEF Tables, Closes, Close

LEMMA ToIs ==
  ASSUME NEW h \in Boths, NEW x \in States, NEW q \in Procs
  PROVE  Comes(h, To(h, x), q, x, h.p.I, h.p.R) /\ To(h, x).fd = h.fd
BY DEF Boths, PeerT, Tables, Comes, Closes, To

LEMMA DiscIs ==
  ASSUME NEW h \in Boths, NEW q \in Procs
  PROVE  /\ Comes(h, I_Disc(h, q), q, h.p.state, NoSock, h.p.R)
         /\ Comes(h, R_Disc(h, q), q, h.p.state, h.p.I, NoSock)
<1>1. h.fd \in Tables /\ h.p \in PeerT
  BY DEF Boths
<1>2. \A s : Closes(h.fd, Close(h.fd, q, s), q)
  BY <1>1, CloseIs
<1>3. [h.p EXCEPT !.I = NoSock] \in PeerT /\ [h.p EXCEPT !.R = NoSock] \in PeerT
  BY <1>1 DEF PeerT
<1>4. \A s : Close(h.fd, q, s) \in Tables
  BY <1>2 DEF Closes
<1> QED BY <1>1, <1>2, <1>3, <1>4 DEF Comes, I_Disc, R_Disc, Boths, PeerT

LEMMA CleanupIs ==
  ASSUME NEW h \in Boths, NEW q \in Procs, NEW s \in Sock \cup {NoSock}
  PROVE  Comes(h, Cleanup(h, q, s), q, h.p.state, IF h.p.I = s THEN NoSock ELSE h.p.I,
                                                  IF h.p.R = s THEN NoSock ELSE h.p.R)
<1>1. h.fd \in Tables /\ h.p \in PeerT
  BY DEF Boths
<1>2. CASE s = NoSock
  BY <1>1, <1>2 DEF Comes, Cleanup, Closes, Tables
<1>3. CASE s # NoSock
  <2>1. Closes(h.fd, Close(h.fd, q, s), q) /\ Close(h.fd, q, s) \in Tables
    BY <1>1, CloseIs DEF Closes
  <2> DEFINE n == [h.p EXCEPT !.I = IF @ = s THEN NoSock ELSE @, !.R = IF @ = s THEN NoSock ELSE @]
  <2>2. n \in PeerT /\ n.state = h.p.state /\ n.r_cer = h.p.r_cer
        /\ n.I = (IF h.p.I = s THEN NoSock ELSE h.p.I) /\ n.R = (IF h.p.R = s THEN NoSock ELSE h.p.R)
    BY <1>1 DEF PeerT
  <2>3. Cleanup(h, q, s) = [p |-> n, fd |-> Close(h.fd, q, s)]
    BY <1>3 DEF Cleanup
  <2> HIDE DEF n
  <2> QED BY <2>1, <2>2, <2>3 DEF Comes, Boths
<1> QED BY <1>2, <1>3

\* One after the other.
LEMMA ComesTrans ==
  ASSUME NEW h, NEW g, NEW k, NEW q \in Procs, NEW x, NEW y, NEW I, NEW J, NEW R, NEW S,
         Comes(h, g, q, x, I, R), Comes(g, k, q, y, J, S)
  PROVE  Comes(h, k, q, y, J, S)
BY DEF Comes, Closes

\* What the two events of a disconnection do.
LEMMA I_Peer_DiscIs ==
  ASSUME NEW h \in Boths, NEW q \in Procs
  PROVE  LET st == h.p.state IN
         Comes(h, I_Peer_Disc(h, q), q,
               IF st \in {"Wait_I_CEA", "I_Open"} THEN "Closed" ELSE st,
               IF st \in {"Wait_I_CEA", "I_Open", "Wait_Returns"} THEN NoSock ELSE h.p.I,
               h.p.R)
<1> DEFINE st == h.p.state
           d  == I_Disc(h, q)
<1>1. Comes(h, d, q, st, NoSock, h.p.R) /\ d \in Boths
  BY DiscIs DEF Comes
<1>2. Comes(h, To(d, "Closed"), q, "Closed", NoSock, h.p.R)
  <2>1. Comes(d, To(d, "Closed"), q, "Closed", d.p.I, d.p.R)
    BY <1>1, ToIs DEF States
  <2>2. d.p.I = NoSock /\ d.p.R = h.p.R
    BY <1>1 DEF Comes
  <2> QED BY <1>1, <2>1, <2>2, ComesTrans
<1>3. Comes(h, h, q, st, h.p.I, h.p.R)
  BY DEF Comes, Boths, Closes, Tables
<1> HIDE DEF d
<1>4. CASE st \in {"Wait_I_CEA", "I_Open"}
  BY <1>2, <1>4 DEF I_Peer_Disc, d
<1>5. CASE st = "Wait_Returns"
  BY <1>1, <1>5 DEF I_Peer_Disc, d
<1>6. CASE st \notin {"Wait_I_CEA", "I_Open", "Wait_Returns"}
  <2>1. I_Peer_Disc(h, q) = h
    BY <1>6 DEF I_Peer_Disc
  <2> QED BY <1>3, <1>6, <2>1
<1> QED BY <1>4, <1>5, <1>6

LEMMA R_Peer_DiscIs ==
  ASSUME NEW h \in Boths, NEW q \in Procs
  PROVE  LET st == h.p.state IN
         Comes(h, R_Peer_Disc(h, q), q,
               IF st = "R_Open" THEN "Closed" ELSE
               IF st = "Wait_Conn_Ack_Elect" THEN "Wait_Conn_Ack" ELSE
               IF st = "Wait_Returns" THEN "Wait_I_CEA" ELSE st,
               h.p.I,
               IF st \in {"R_Open", "Wait_Conn_Ack_Elect", "Wait_Returns"} THEN NoSock ELSE h.p.R)
<1> DEFINE st == h.p.state
           d  == R_Disc(h, q)
<1>1. Comes(h, d, q, st, h.p.I, NoSock) /\ d \in Boths
  BY DiscIs DEF Comes
<1>2. \A x \in States : Comes(h, To(d, x), q, x, h.p.I, NoSock)
  <2> SUFFICES ASSUME NEW x \in States PROVE Comes(h, To(d, x), q, x, h.p.I, NoSock)
    OBVIOUS
  <2>1. Comes(d, To(d, x), q, x, d.p.I, d.p.R)
    BY <1>1, ToIs
  <2>2. d.p.R = NoSock /\ d.p.I = h.p.I
    BY <1>1 DEF Comes
  <2> QED BY <1>1, <2>1, <2>2, ComesTrans
<1>3. Comes(h, h, q, st, h.p.I, h.p.R)
  BY DEF Comes, Boths, Closes, Tables
<1>w. {"Closed", "Wait_Conn_Ack", "Wait_I_CEA"} \subseteq States
  BY DEF States, Waiting
<1> HIDE DEF d
<1>4. CASE st = "R_Open"
  BY <1>2, <1>4, <1>w DEF R_Peer_Disc, d
<1>5. CASE st = "Wait_Conn_Ack_Elect"
  BY <1>2, <1>5, <1>w DEF R_Peer_Disc, d
<1>6. CASE st = "Wait_Returns"
  BY <1>2, <1>6, <1>w DEF R_Peer_Disc, d
<1>7. CASE st \notin {"R_Open", "Wait_Conn_Ack_Elect", "Wait_Returns"}
  <2>1. R_Peer_Disc(h, q) = h
    BY <1>7 DEF R_Peer_Disc
  <2> QED BY <1>3, <1>7, <2>1
<1> QED BY <1>4, <1>5, <1>6, <1>7

\* Both events for the socket number s: first the initiator's, then the receiver's.
MidState(h, s) == IF h.p.I = s /\ h.p.state \in {"Wait_I_CEA", "I_Open"} THEN "Closed" ELSE h.p.state
EndI(h, s) == IF h.p.I = s /\ h.p.state \in {"Wait_I_CEA", "I_Open", "Wait_Returns"}
              THEN NoSock ELSE h.p.I
EndState(h, s) ==
  LET m == MidState(h, s) IN
  IF h.p.R # s THEN m ELSE
  IF m = "R_Open" THEN "Closed" ELSE
  IF m = "Wait_Conn_Ack_Elect" THEN "Wait_Conn_Ack" ELSE
  IF m = "Wait_Returns" THEN "Wait_I_CEA" ELSE m
EndR(h, s) ==
  IF h.p.R = s /\ MidState(h, s) \in {"R_Open", "Wait_Conn_Ack_Elect", "Wait_Returns"}
  THEN NoSock ELSE h.p.R

LEMMA PeerDiscIs ==
  ASSUME NEW h \in Boths, NEW q \in Procs, NEW s
  PROVE  Comes(h, PeerDisc(h, q, s), q, EndState(h, s), EndI(h, s), EndR(h, s))
<1> DEFINE one == IF h.p.I = s THEN I_Peer_Disc(h, q) ELSE h
<1>1. Comes(h, one, q, MidState(h, s), EndI(h, s), h.p.R)
  <2>1. CASE h.p.I = s
    BY <2>1, I_Peer_DiscIs DEF MidState, EndI
  <2>2. CASE h.p.I # s
    <3>1. one = h /\ MidState(h, s) = h.p.state /\ EndI(h, s) = h.p.I
      BY <2>2 DEF MidState, EndI
    <3>2. Comes(h, h, q, h.p.state, h.p.I, h.p.R)
      BY DEF Comes, Boths, Closes, Tables
    <3> QED BY <3>1, <3>2
  <2> QED BY <2>1, <2>2
<1>2. one \in Boths /\ one.p.R = h.p.R /\ one.p.state = MidState(h, s) /\ one.p.I = EndI(h, s)
  BY <1>1 DEF Comes
<1>3. PeerDisc(h, q, s) = IF one.p.R = s THEN R_Peer_Disc(one, q) ELSE one
  BY DEF PeerDisc
<1> HIDE DEF one
<1>4. CASE h.p.R = s
  <2>1. Comes(one, R_Peer_Disc(one, q), q, EndState(h, s), one.p.I, EndR(h, s))
    BY <1>2, <1>4, R_Peer_DiscIs DEF EndState, EndR
  <2> QED BY <1>1, <1>2, <1>3, <1>4, <2>1, ComesTrans
<1>5. CASE h.p.R # s
  BY <1>1, <1>2, <1>3, <1>5 DEF EndState, EndR
<1> QED BY <1>4, <1>5

-----------------------------------------------------------------------------
(* What the actions do to the peer and the tables.                          *)

Evs  == [{"D", "U"} -> Events]
Sps  == [Slots -> [there : BOOLEAN, known : BOOLEAN, tcp : Sock \cup {NoSock}]]
Nets == [Conns -> [by : {"none", "us", "them"}, up : BOOLEAN,
                   phase : {"new", "cer", "open"}, dwr : BOOLEAN]]

Types == /\ p \in PeerT /\ due \in BOOLEAN /\ lock \in Locks \cup {None} /\ fd \in Tables
         /\ sp \in Sps /\ ev \in Evs /\ xfer \in Seq(Conns) /\ net \in Nets

LEMMA TypesAre == TypeOK <=> Types
BY DEF TypeOK, Types, PeerT, Tables, Evs, Sps, Nets

\* Process q leaves the peer in this state with these sockets and closes descriptors.
Becomes(q, state, I, R, cer) ==
  /\ p' \in PeerT /\ fd' \in Tables /\ Closes(fd, fd', q)
  /\ p'.state = state /\ p'.I = I /\ p'.R = R /\ p'.r_cer = cer

LEMMA BothIs ==
  ASSUME Types
  PROVE  Both \in Boths /\ Both.p = p /\ Both.fd = fd
BY DEF Types, Both, Boths

LEMMA ApplyIs ==
  ASSUME NEW h, h.fd = fd, NEW g, NEW q \in Procs, NEW x, NEW I, NEW R,
         Comes(h, g, q, x, I, R), Apply(g)
  PROVE  Becomes(q, x, I, R, h.p.r_cer)
BY DEF Comes, Becomes, Apply, Boths

LEMMA StartIs ==
  ASSUME Types, Start
  PROVE  Becomes("T", "Wait_Conn_Ack", NoSock, p.R, p.r_cer)
<1> DEFINE d == I_Disc(Both, "T")
<1>1. Comes(Both, d, "T", p.state, NoSock, p.R) /\ d \in Boths
  BY BothIs, DiscIs DEF Comes, Procs
<1>2. d.p.I = NoSock /\ d.p.R = p.R
  BY <1>1 DEF Comes
<1>3. Apply(To(d, "Wait_Conn_Ack"))
  BY DEF Start
<1> HIDE DEF d
<1>4. Comes(d, To(d, "Wait_Conn_Ack"), "T", "Wait_Conn_Ack", NoSock, p.R)
  BY <1>1, <1>2, ToIs DEF Procs, States, Waiting
<1>5. Comes(Both, To(d, "Wait_Conn_Ack"), "T", "Wait_Conn_Ack", NoSock, p.R)
  BY <1>1, <1>4, ComesTrans DEF Procs
<1> QED BY <1>3, <1>5, BothIs, ApplyIs DEF Procs

\* The two ways to the state Closed by CleanupSocket() and by a disconnection.
LEMMA CleanedIs ==
  ASSUME Types, NEW q \in Procs, Apply(To(Cleanup(Both, q, p.I), "Closed"))
  PROVE  Becomes(q, "Closed", NoSock, IF p.R = p.I THEN NoSock ELSE p.R, p.r_cer)
<1> DEFINE d == Cleanup(Both, q, p.I)
           R == IF p.R = p.I THEN NoSock ELSE p.R
<1>1. p.I \in Sock \cup {NoSock}
  BY DEF Types, PeerT
<1>2. Comes(Both, d, q, p.state, NoSock, R) /\ d \in Boths
  BY <1>1, BothIs, CleanupIs DEF Comes
<1>3. d.p.I = NoSock /\ d.p.R = R
  BY <1>2 DEF Comes
<1> HIDE DEF d
<1>4. Comes(d, To(d, "Closed"), q, "Closed", NoSock, R)
  BY <1>2, <1>3, ToIs DEF States
<1>5. Comes(Both, To(d, "Closed"), q, "Closed", NoSock, R)
  BY <1>2, <1>4, ComesTrans
<1> QED BY <1>5, BothIs, ApplyIs DEF d

LEMMA DiscToIs ==
  ASSUME NEW h \in Boths, NEW q \in Procs, NEW x \in States
  PROVE  /\ Comes(h, To(I_Disc(h, q), x), q, x, NoSock, h.p.R)
         /\ Comes(h, To(R_Disc(h, q), x), q, x, h.p.I, NoSock)
         /\ Comes(h, To(I_Disc(R_Disc(h, q), q), x), q, x, NoSock, NoSock)
<1> DEFINE i == I_Disc(h, q)
           r == R_Disc(h, q)
           b == I_Disc(r, q)
<1>1. /\ Comes(h, i, q, h.p.state, NoSock, h.p.R) /\ i \in Boths /\ i.p.I = NoSock /\ i.p.R = h.p.R
      /\ Comes(h, r, q, h.p.state, h.p.I, NoSock) /\ r \in Boths /\ r.p.I = h.p.I /\ r.p.R = NoSock
  BY DiscIs DEF Comes
<1> HIDE DEF i, r
<1>2. Comes(r, b, q, r.p.state, NoSock, NoSock) /\ b \in Boths /\ b.p.I = NoSock /\ b.p.R = NoSock
  BY <1>1, DiscIs DEF Comes
<1>3. Comes(h, b, q, r.p.state, NoSock, NoSock)
  BY <1>1, <1>2, ComesTrans
<1> HIDE DEF b
<1>4. /\ Comes(i, To(i, x), q, x, NoSock, h.p.R)
      /\ Comes(r, To(r, x), q, x, h.p.I, NoSock)
      /\ Comes(b, To(b, x), q, x, NoSock, NoSock)
  BY <1>1, <1>2, ToIs
<1>5. Comes(h, To(i, x), q, x, NoSock, h.p.R)
  BY <1>1, <1>4, ComesTrans
<1>6. Comes(h, To(r, x), q, x, h.p.I, NoSock)
  BY <1>1, <1>4, ComesTrans
<1>7. Comes(h, To(b, x), q, x, NoSock, NoSock)
  BY <1>3, <1>4, ComesTrans
<1> QED BY <1>5, <1>6, <1>7 DEF i, r, b

LEMMA WaitTimesOutIs ==
  ASSUME Types, WaitTimesOut
  PROVE  \E R \in {p.R, NoSock} : Becomes("T", "Closed", NoSock, R, p.r_cer)
<1> DEFINE one == Cleanup(Both, "T", p.I)
           two == IF p.state \in {"Wait_Conn_Ack_Elect", "Wait_Returns"}
                  THEN Cleanup(one, "T", one.p.R) ELSE one
<1>1. p.I \in Sock \cup {NoSock} /\ "T" \in Procs
  BY DEF Types, PeerT, Procs
<1>2. PICK R \in {p.R, NoSock} : Comes(Both, one, "T", p.state, NoSock, R)
  <2>1. Comes(Both, one, "T", p.state, NoSock, IF p.R = p.I THEN NoSock ELSE p.R)
    BY <1>1, BothIs, CleanupIs
  <2> HIDE DEF one
  <2> QED BY <2>1
<1>3. one \in Boths /\ one.p.state = p.state /\ one.p.I = NoSock /\ one.p.R = R
  BY <1>2 DEF Comes
<1>a. Apply(To(two, "Closed"))
  BY DEF WaitTimesOut
<1> HIDE DEF one
<1>4. PICK S \in {R, NoSock} : Comes(one, two, "T", p.state, NoSock, S)
  <2>1. Comes(one, one, "T", p.state, NoSock, R)
    BY <1>3 DEF Comes, Boths, Closes, Tables
  <2>2. Comes(one, Cleanup(one, "T", R), "T", p.state, NoSock, NoSock)
    <3>1. R \in Sock \cup {NoSock}
      BY <1>3 DEF Boths, PeerT
    <3> QED BY <1>1, <1>3, <3>1, CleanupIs
  <2> QED BY <1>3, <2>1, <2>2
<1>5. two \in Boths /\ two.p.I = NoSock /\ two.p.R = S
  BY <1>4 DEF Comes
<1>6. Comes(Both, two, "T", p.state, NoSock, S)
  BY <1>1, <1>2, <1>4, ComesTrans
<1> HIDE DEF two
<1>7. Comes(two, To(two, "Closed"), "T", "Closed", NoSock, S)
  BY <1>1, <1>5, ToIs DEF States
<1>8. Comes(Both, To(two, "Closed"), "T", "Closed", NoSock, S)
  BY <1>1, <1>6, <1>7, ComesTrans
<1>9. Becomes("T", "Closed", NoSock, S, p.r_cer)
  BY <1>1, <1>8, <1>a, BothIs, ApplyIs
<1> QED BY <1>9

LEMMA WatchdogGivesUpIs ==
  ASSUME Types, WatchdogGivesUp
  PROVE  \/ p.state = "I_Open" /\ Becomes("T", "Closed", NoSock, p.R, p.r_cer)
         \/ p.state = "R_Open" /\ Becomes("T", "Closed", p.I, NoSock, p.r_cer)
<1> DEFINE h == [Both EXCEPT !.p.waitingDWA = FALSE]
<1>1. /\ h \in Boths /\ h.fd = fd /\ h.p.state = p.state /\ h.p.I = p.I /\ h.p.R = p.R
      /\ h.p.r_cer = p.r_cer
  BY BothIs DEF Boths, PeerT
<1>2. \/ p.state = "I_Open" /\ Apply(I_Peer_Disc(h, "T"))
      \/ p.state = "R_Open" /\ Apply(R_Peer_Disc(h, "T"))
  BY DEF WatchdogGivesUp
<1> HIDE DEF h
<1>3. CASE p.state = "I_Open" /\ Apply(I_Peer_Disc(h, "T"))
  <2>1. Comes(h, I_Peer_Disc(h, "T"), "T", "Closed", NoSock, p.R)
    BY <1>1, <1>3, I_Peer_DiscIs DEF Procs
  <2> QED BY <1>1, <1>3, <2>1, ApplyIs DEF Procs
<1>4. CASE p.state = "R_Open" /\ Apply(R_Peer_Disc(h, "T"))
  <2>1. Comes(h, R_Peer_Disc(h, "T"), "T", "Closed", p.I, NoSock)
    BY <1>1, <1>4, R_Peer_DiscIs DEF Procs
  <2> QED BY <1>1, <1>4, <2>1, ApplyIs DEF Procs
<1> QED BY <1>2, <1>3, <1>4

\* The pipe's name may change meanwhile.
LEMMA ApplyDiscIs ==
  ASSUME Types, NEW q \in Procs, NEW s, Apply([PeerDisc(Both, q, s) EXCEPT !.p.pipe = None])
  PROVE  Becomes(q, EndState(Both, s), EndI(Both, s), EndR(Both, s), p.r_cer)
<1> DEFINE h == PeerDisc(Both, q, s)
           g == [h EXCEPT !.p.pipe = None]
<1>1. Comes(Both, h, q, EndState(Both, s), EndI(Both, s), EndR(Both, s))
  BY BothIs, PeerDiscIs
<1>2. Apply(g)
  OBVIOUS
<1> HIDE DEF h
<1>3. h \in Boths /\ h.p \in PeerT
  BY <1>1 DEF Comes, Boths
<1>4. /\ g \in Boths /\ g.fd = h.fd /\ g.p.state = h.p.state /\ g.p.I = h.p.I /\ g.p.R = h.p.R
      /\ g.p.r_cer = h.p.r_cer
  BY <1>3 DEF Boths, PeerT
<1>5. Comes(Both, g, q, EndState(Both, s), EndI(Both, s), EndR(Both, s))
  BY <1>1, <1>4 DEF Comes
<1> QED BY <1>2, <1>5, BothIs, ApplyIs

LEMMA DisconnectIs ==
  ASSUME Types, NEW r \in {"D", "U"}, NEW i \in Slots, Disconnect(r, i)
  PROVE  LET s == sp[i].tcp IN
         IF sp[i].known THEN Becomes(r, EndState(Both, s), EndI(Both, s), EndR(Both, s), p.r_cer)
         ELSE UNCHANGED <<p, fd>>
<1>1. CASE sp[i].known
  <2>1. Apply([PeerDisc(Both, r, sp[i].tcp) EXCEPT !.p.pipe = None])
    BY <1>1 DEF Disconnect
  <2> QED BY <1>1, <2>1, ApplyDiscIs DEF Procs
<1>2. CASE ~sp[i].known
  BY <1>2 DEF Disconnect
<1> QED BY <1>1, <1>2

LEMMA CEAIs ==
  ASSUME Types, NEW r \in {"D", "U"}, CEA(r)
  PROVE  \/ ev[r].ok /\ Becomes(r, "I_Open", p.I, p.R, p.r_cer) /\ fd' = fd
         \/ Becomes(r, "Closed", NoSock, IF p.R = p.I THEN NoSock ELSE p.R, p.r_cer)
<1>1. CASE ev[r].ok
  <2>1. Apply(To(Both, "I_Open"))
    BY <1>1 DEF CEA
  <2>2. Comes(Both, To(Both, "I_Open"), r, "I_Open", p.I, p.R) /\ To(Both, "I_Open").fd = fd
    BY BothIs, ToIs DEF Procs, States, Open
  <2> QED BY <1>1, <2>1, <2>2, BothIs, ApplyIs DEF Procs, Apply
<1>2. CASE ~ev[r].ok
  BY <1>2, CleanedIs DEF CEA, Procs
<1> QED BY <1>1, <1>2

LEMMA NonCEAIs ==
  ASSUME Types, NEW r \in {"D", "U"}, NonCEA(r)
  PROVE  Becomes(r, "Closed", NoSock, IF p.R = p.I THEN NoSock ELSE p.R, p.r_cer)
BY CleanedIs DEF NonCEA, Procs

LEMMA DPRIs ==
  ASSUME Types, NEW r \in {"D", "U"}, DPR(r)
  PROVE  \/ p.state = "I_Open" /\ Becomes(r, "Closed", NoSock, p.R, p.r_cer)
         \/ p.state # "I_Open" /\ Becomes(r, "Closed", p.I, NoSock, p.r_cer)
<1>1. "Closed" \in States /\ r \in Procs
  BY DEF States, Procs
<1>2. CASE p.state = "I_Open"
  <2>1. Apply(To(I_Disc(Both, r), "Closed"))
    BY <1>2 DEF DPR
  <2>2. Comes(Both, To(I_Disc(Both, r), "Closed"), r, "Closed", NoSock, p.R)
    BY <1>1, BothIs, DiscToIs
  <2> QED BY <1>1, <1>2, <2>1, <2>2, BothIs, ApplyIs
<1>3. CASE p.state # "I_Open"
  <2>1. Apply(To(R_Disc(Both, r), "Closed"))
    BY <1>3 DEF DPR
  <2>2. Comes(Both, To(R_Disc(Both, r), "Closed"), r, "Closed", p.I, NoSock)
    BY <1>1, BothIs, DiscToIs
  <2> QED BY <1>1, <1>3, <2>1, <2>2, BothIs, ApplyIs
<1> QED BY <1>2, <1>3

LEMMA CEASentIs ==
  ASSUME Types, CEASent
  PROVE  \/ ev["U"].ok /\ Becomes("U", "R_Open", p.I, p.R, p.r_cer) /\ fd' = fd
         \/ /\ ~ev["U"].ok
            /\ Becomes("U", "Closed", IF p.state = "Closed" THEN p.I ELSE NoSock, NoSock, p.r_cer)
<1>1. "Closed" \in States /\ "R_Open" \in States /\ "U" \in Procs
  BY DEF States, Open, Procs
<1>2. CASE ev["U"].ok
  <2>1. Apply(To(Both, "R_Open"))
    BY <1>2 DEF CEASent
  <2>2. Comes(Both, To(Both, "R_Open"), "U", "R_Open", p.I, p.R) /\ To(Both, "R_Open").fd = fd
    BY <1>1, BothIs, ToIs
  <2> QED BY <1>1, <1>2, <2>1, <2>2, BothIs, ApplyIs DEF Apply
<1>3. CASE ~ev["U"].ok /\ p.state = "Closed"
  <2>1. Apply(To(R_Disc(Both, "U"), "Closed"))
    BY <1>3 DEF CEASent
  <2>2. Comes(Both, To(R_Disc(Both, "U"), "Closed"), "U", "Closed", p.I, NoSock)
    BY <1>1, BothIs, DiscToIs
  <2> QED BY <1>1, <1>3, <2>1, <2>2, BothIs, ApplyIs
<1>4. CASE ~ev["U"].ok /\ p.state # "Closed"
  <2>1. Apply(To(I_Disc(R_Disc(Both, "U"), "U"), "Closed"))
    BY <1>4 DEF CEASent
  <2>2. Comes(Both, To(I_Disc(R_Disc(Both, "U"), "U"), "Closed"), "U", "Closed", NoSock, NoSock)
    BY <1>1, BothIs, DiscToIs
  <2> QED BY <1>1, <1>4, <2>1, <2>2, BothIs, ApplyIs
<1> QED BY <1>2, <1>3, <1>4

LEMMA AcceptIs ==
  ASSUME NEW h \in Boths, NEW s \in Sock \cup {NoSock}
  PROVE  /\ Accept(h, s) \in Boths /\ Accept(h, s).fd = h.fd /\ Accept(h, s).p.R = s
         /\ Accept(h, s).p.state = h.p.state /\ Accept(h, s).p.I = h.p.I
         /\ Accept(h, s).p.r_cer = h.p.r_cer
BY DEF Accept, Boths, PeerT

LEMMA CerIs ==
  ASSUME NEW h \in Boths, NEW b \in BOOLEAN
  PROVE  LET g == [h EXCEPT !.p.r_cer = b] IN
         /\ g \in Boths /\ g.fd = h.fd /\ g.p.R = h.p.R /\ g.p.I = h.p.I
         /\ g.p.state = h.p.state /\ g.p.r_cer = b
BY DEF Boths, PeerT

LEMMA ConnCERKeptIs ==
  ASSUME Types, NEW c \in Conns, ConnCERKept(c)
  PROVE  \/ /\ ev["U"].ok /\ fd' = fd
            /\ Becomes("U", "Wait_Conn_Ack_Elect", p.I, sp[c].tcp, TRUE)
         \/ ~ev["U"].ok /\ Becomes("U", "Closed", NoSock, NoSock, FALSE)
<1> DEFINE s == sp[c].tcp
           h == Accept(Both, s)
           t == [h EXCEPT !.p.r_cer = TRUE]
           f == [h EXCEPT !.p.r_cer = FALSE]
<1>1. s \in Sock \cup {NoSock}
  BY DEF Types, Sps, Slots
<1>2. h \in Boths /\ h.fd = fd /\ h.p.R = s /\ h.p.I = p.I
  BY <1>1, BothIs, AcceptIs
<1>3. Apply(IF ev["U"].ok THEN To(t, "Wait_Conn_Ack_Elect")
            ELSE To(I_Disc(R_Disc(f, "U"), "U"), "Closed"))
  BY DEF ConnCERKept
<1> HIDE DEF h
<1>4. /\ t \in Boths /\ t.fd = fd /\ t.p.R = s /\ t.p.I = p.I /\ t.p.r_cer = TRUE
      /\ f \in Boths /\ f.fd = fd /\ f.p.r_cer = FALSE
  BY <1>2, CerIs
<1>5. "Closed" \in States /\ "Wait_Conn_Ack_Elect" \in States /\ "U" \in Procs
  BY DEF States, Waiting, Procs
<1> HIDE DEF t, f
<1>6. CASE ev["U"].ok
  <2>1. /\ Comes(t, To(t, "Wait_Conn_Ack_Elect"), "U", "Wait_Conn_Ack_Elect", p.I, s)
        /\ To(t, "Wait_Conn_Ack_Elect").fd = fd
    BY <1>4, <1>5, ToIs
  <2>2. Becomes("U", "Wait_Conn_Ack_Elect", p.I, s, t.p.r_cer)
    BY <1>3, <1>4, <1>5, <1>6, <2>1, ApplyIs
  <2> QED BY <1>3, <1>4, <1>6, <2>1, <2>2 DEF Apply
<1>7. CASE ~ev["U"].ok
  <2>1. Comes(f, To(I_Disc(R_Disc(f, "U"), "U"), "Closed"), "U", "Closed", NoSock, NoSock)
    BY <1>4, <1>5, DiscToIs
  <2>2. Becomes("U", "Closed", NoSock, NoSock, f.p.r_cer)
    BY <1>3, <1>4, <1>5, <1>7, <2>1, ApplyIs
  <2> QED BY <1>4, <1>7, <2>2
<1> QED BY <1>6, <1>7

\* Snd_CEA(): the peer afterwards, and what is passed to D when the answer was written.
Ends(h, opens) == IF opens THEN Opened(h) ELSE h

LEMMA EndsIs ==
  ASSUME NEW h \in Boths, NEW opens \in BOOLEAN
  PROVE  LET g == Ends(h, opens) IN
         /\ g \in Boths /\ g.fd = h.fd /\ g.p.I = h.p.I /\ g.p.R = h.p.R
         /\ g.p.state = (IF opens THEN "R_Open" ELSE h.p.state)
         /\ g.p.r_cer = (h.p.r_cer /\ ~opens)
<1>1. CASE opens
  <2> DEFINE k == [h EXCEPT !.p.r_cer = FALSE]
  <2>1. k \in Boths /\ k.fd = h.fd /\ k.p.I = h.p.I /\ k.p.R = h.p.R /\ k.p.r_cer = FALSE
    BY CerIs
  <2> HIDE DEF k
  <2>2. Comes(k, To(k, "R_Open"), "T", "R_Open", k.p.I, k.p.R) /\ To(k, "R_Open").fd = k.fd
    BY <2>1, ToIs DEF States, Open, Procs
  <2>3. Ends(h, opens) = To(k, "R_Open")
    BY <1>1 DEF Ends, Opened, k
  <2> QED BY <1>1, <2>1, <2>2, <2>3 DEF Comes
<1>2. CASE ~opens
  BY <1>2 DEF Ends, Boths, PeerT
<1> QED BY <1>1, <1>2

LEMMA NameFreedIs ==
  ASSUME NEW h \in Boths, NEW i
  PROVE  LET g == NameFreed(h, i) IN
         /\ g \in Boths /\ g.fd = h.fd /\ g.p.I = h.p.I /\ g.p.R = h.p.R
         /\ g.p.state = h.p.state /\ g.p.r_cer = h.p.r_cer
BY DEF NameFreed, Boths, PeerT

Gone == [there |-> FALSE, known |-> FALSE, tcp |-> NoSock]

LEMMA DropIs ==
  ASSUME Types, NEW q \in {"D", "U"}, Serviced(q) # {}, Drop(First(q))
  PROVE  /\ sp' \in Sps /\ \A i \in Slots : sp'[i] \in {sp[i], Gone}
         /\ q = "D" => \A c \in Conns : sp'[c] = sp[c]
<1>1. sp \in Sps /\ Gone \in [there : BOOLEAN, known : BOOLEAN, tcp : Sock \cup {NoSock}]
  BY DEF Types, Gone
<1>2. sp' = [sp EXCEPT ![First(q)] = Gone]
  BY DEF Drop, Gone
<1>3. sp' \in Sps /\ \A i \in Slots : sp'[i] \in {sp[i], Gone} /\ (i # First(q) => sp'[i] = sp[i])
  BY <1>1, <1>2 DEF Sps
<1>4. q = "D" => First(q) = Own
  BY Constants DEF First, Serviced, Owner
<1>5. \A c \in Conns : c \in Slots /\ c # Own
  BY Constants DEF Slots
<1> QED BY <1>3, <1>4, <1>5

\* The answer was written, or it was not.
Answered(h, q, s, ok, opens) ==
  /\ s \in Sock /\ h.fd[q][s] \in Conns
  /\ Becomes(q, IF opens THEN "R_Open" ELSE h.p.state, h.p.I, h.p.R, h.p.r_cer /\ ~opens)
  /\ xfer' = Append(xfer, h.fd[q][s])
  /\ net' = [net EXCEPT ![h.fd[q][s]].phase =
               IF ok /\ net[h.fd[q][s]].by = "them" THEN "open" ELSE @]
  /\ sp' \in Sps /\ \A i \in Slots : sp'[i] \in {sp[i], Gone}
  /\ q = "D" => \A c \in Conns : sp'[c] = sp[c]
NotAnswered(h, q, s, opens) ==
  /\ UNCHANGED <<sp, xfer, net>>
  /\ \/ /\ s = NoSock
        /\ Becomes(q, IF opens THEN "R_Open" ELSE h.p.state, h.p.I, h.p.R, h.p.r_cer /\ ~opens)
     \/ /\ s # NoSock
        /\ Becomes(q, IF opens THEN "R_Open" ELSE EndState(h, s), EndI(h, s), EndR(h, s),
                   h.p.r_cer /\ ~opens)

LEMMA SndCEAIs ==
  ASSUME Types, NEW h \in Boths, NEW q \in {"D", "U"}, NEW s \in Sock \cup {NoSock},
         NEW ok, NEW w \in BOOLEAN, NEW opens \in BOOLEAN, Closes(fd, h.fd, q),
         SndCEA(h, q, s, ok, w, opens)
  PROVE  Answered(h, q, s, ok, opens) \/ NotAnswered(h, q, s, opens)
<1> DEFINE c == h.fd[q][s]
           x == IF opens THEN "R_Open" ELSE h.p.state
<1>q. q \in Procs
  BY DEF Procs
<1>a. \A g \in Boths : /\ g.fd = h.fd /\ g.p.I = h.p.I /\ g.p.R = h.p.R
                       /\ g.p.state = h.p.state /\ g.p.r_cer = h.p.r_cer /\ Apply(Ends(g, opens))
                       => Becomes(q, x, h.p.I, h.p.R, h.p.r_cer /\ ~opens)
  BY EndsIs DEF Becomes, Apply, Boths
<1>1. CASE w
  <2>1. s \in Sock /\ c \in Conns
    BY <1>1, <1>q DEF SndCEA, Writes, Boths, Tables
  <2>2. /\ xfer' = Append(xfer, c)
        /\ net' = [net EXCEPT ![c].phase = IF ok /\ net[c].by = "them" THEN "open" ELSE @]
    BY <1>1 DEF SndCEA
  <2>3. \/ /\ Serviced(q) # {} /\ Drop(First(q)) /\ Apply(Ends(NameFreed(h, First(q)), opens))
        \/ /\ Serviced(q) = {} /\ UNCHANGED sp /\ Apply(Ends(h, opens))
    BY <1>1 DEF SndCEA, Ends
  <2>4. CASE Serviced(q) # {} /\ Drop(First(q)) /\ Apply(Ends(NameFreed(h, First(q)), opens))
    <3>1. /\ sp' \in Sps /\ \A i \in Slots : sp'[i] \in {sp[i], Gone}
          /\ q = "D" => \A d \in Conns : sp'[d] = sp[d]
      BY <2>4, DropIs
    <3>2. Becomes(q, x, h.p.I, h.p.R, h.p.r_cer /\ ~opens)
      BY <1>a, <2>4, NameFreedIs
    <3> QED BY <2>1, <2>2, <3>1, <3>2 DEF Answered
  <2>5. CASE Serviced(q) = {} /\ UNCHANGED sp /\ Apply(Ends(h, opens))
    <3>1. Becomes(q, x, h.p.I, h.p.R, h.p.r_cer /\ ~opens)
      BY <1>a, <2>5
    <3>2. sp' \in Sps
      BY <2>5 DEF Types
    <3> QED BY <2>1, <2>2, <2>5, <3>1, <3>2 DEF Answered
  <2> QED BY <2>3, <2>4, <2>5
<1>2. CASE ~w /\ s = NoSock
  <2>1. Apply(Ends(h, opens)) /\ UNCHANGED <<sp, xfer, net>>
    BY <1>2 DEF SndCEA, Ends
  <2> QED BY <1>2, <1>a, <2>1 DEF NotAnswered
<1>3. CASE ~w /\ s # NoSock
  <2> DEFINE g == PeerDisc(h, q, s)
  <2>1. Apply(Ends(g, opens)) /\ UNCHANGED <<sp, xfer, net>>
    BY <1>3 DEF SndCEA, Ends
  <2>2. Comes(h, g, q, EndState(h, s), EndI(h, s), EndR(h, s)) /\ g \in Boths
    BY <1>q, PeerDiscIs DEF Comes
  <2> HIDE DEF g
  <2>3. Closes(fd, g.fd, q)
    BY <2>2 DEF Comes, Closes
  <2>4. Becomes(q, IF opens THEN "R_Open" ELSE EndState(h, s), EndI(h, s), EndR(h, s),
                h.p.r_cer /\ ~opens)
    BY <2>1, <2>2, <2>3, EndsIs DEF Comes, Becomes, Apply, Boths
  <2> QED BY <1>3, <2>1, <2>4 DEF NotAnswered
<1> QED BY <1>1, <1>2, <1>3

LEMMA ConnAckWinsIs ==
  ASSUME Types, ConnAckWins
  PROVE  \E h \in Boths : /\ h.p.state = "Wait_Returns" /\ h.p.I = NoSock /\ h.p.R = p.R
                          /\ Closes(fd, h.fd, "D")
                          /\ Answered(h, "D", p.R, TRUE, TRUE) \/ NotAnswered(h, "D", p.R, TRUE)
<1> DEFINE h == To(I_Disc(Both, "D"), "Wait_Returns")
<1>1. Comes(Both, h, "D", "Wait_Returns", NoSock, p.R)
  BY BothIs, DiscToIs DEF Procs, States, Waiting
<1>2. PICK w \in BOOLEAN : SndCEA(h, "D", p.R, TRUE, w, TRUE)
  BY DEF ConnAckWins
<1> HIDE DEF h
<1>3. h \in Boths /\ Closes(fd, h.fd, "D") /\ p.R \in Sock \cup {NoSock}
  BY <1>1, BothIs DEF Comes, Types, PeerT
<1>4. Answered(h, "D", p.R, TRUE, TRUE) \/ NotAnswered(h, "D", p.R, TRUE)
  BY <1>2, <1>3, SndCEAIs
<1> QED BY <1>1, <1>3, <1>4 DEF Comes

LEMMA ConnCERAnsweredIs ==
  ASSUME Types, NEW c \in Conns, ConnCERAnswered(c)
  PROVE  LET s == sp[c].tcp IN
         \E h \in Boths : /\ \/ p.state = "Wait_I_CEA" /\ ev["U"].ok
                                /\ h.p.state = "Wait_Returns" /\ h.p.I = NoSock
                             \/ ~(p.state = "Wait_I_CEA" /\ ev["U"].ok)
                                /\ h.p.state = p.state /\ h.p.I = p.I
                          /\ h.p.R = s /\ h.p.r_cer = (p.r_cer /\ p.state = "Closed")
                          /\ Closes(fd, h.fd, "U")
                          /\ Answered(h, "U", s, ev["U"].ok, FALSE) \/ NotAnswered(h, "U", s, FALSE)
<1> DEFINE s == sp[c].tcp
           b == [Both EXCEPT !.p.r_cer = p.r_cer /\ p.state = "Closed"]
           a == Accept(b, s)
           j == To(I_Disc(a, "U"), "Wait_Returns")
           h == IF p.state = "Wait_I_CEA" /\ ev["U"].ok THEN j ELSE a
<1>1. s \in Sock \cup {NoSock} /\ (p.r_cer /\ p.state = "Closed") \in BOOLEAN
  BY DEF Types, Sps, Slots
<1>2. PICK w \in BOOLEAN : SndCEA(h, "U", s, ev["U"].ok, w, FALSE)
  BY DEF ConnCERAnswered
<1>3. /\ b \in Boths /\ b.fd = fd /\ b.p.I = p.I /\ b.p.state = p.state
      /\ b.p.r_cer = (p.r_cer /\ p.state = "Closed")
  BY <1>1, BothIs, CerIs
<1> HIDE DEF b
<1>4. /\ a \in Boths /\ a.fd = fd /\ a.p.I = p.I /\ a.p.state = p.state /\ a.p.R = s
      /\ a.p.r_cer = (p.r_cer /\ p.state = "Closed")
  BY <1>1, <1>3, AcceptIs
<1> HIDE DEF a
<1>5. Comes(a, j, "U", "Wait_Returns", NoSock, s)
  BY <1>4, DiscToIs DEF Procs, States, Waiting
<1>6. Closes(fd, a.fd, "U") /\ Closes(fd, j.fd, "U")
  BY <1>4, <1>5 DEF Comes, Closes, Boths, Tables
<1> HIDE DEF j
<1>7. h \in Boths /\ Closes(fd, h.fd, "U")
  BY <1>4, <1>5, <1>6 DEF Comes
<1>8. Answered(h, "U", s, ev["U"].ok, FALSE) \/ NotAnswered(h, "U", s, FALSE)
  <2> HIDE DEF h
  <2> QED BY <1>1, <1>2, <1>7, SndCEAIs
<1>9. /\ \/ p.state = "Wait_I_CEA" /\ ev["U"].ok /\ h.p.state = "Wait_Returns" /\ h.p.I = NoSock
         \/ ~(p.state = "Wait_I_CEA" /\ ev["U"].ok) /\ h.p.state = p.state /\ h.p.I = p.I
      /\ h.p.R = s /\ h.p.r_cer = (p.r_cer /\ p.state = "Closed")
  BY <1>4, <1>5 DEF Comes
<1> HIDE DEF h
<1> QED BY <1>7, <1>8, <1>9

-----------------------------------------------------------------------------
(* Type correctness.                                                        *)

LEMMA NextSockIs ==
  ASSUME Types, NEW q \in Procs, FreeSocks(q) # {}
  PROVE  NextSock(q) \in Numbers[q] /\ NextSock(q) \in Sock /\ fd[q][NextSock(q)] = NoConn
<1>1. FreeSocks(q) \subseteq Nat /\ Numbers[q] \subseteq Sock
  BY Constants DEF FreeSocks
<1>2. NextSock(q) \in FreeSocks(q)
  BY <1>1, LeastExists DEF NextSock
<1> QED BY <1>1, <1>2 DEF FreeSocks

LEMMA EntryIs ==
  ASSUME NEW f \in Tables, NEW q \in Procs, NEW s \in Sock, NEW c \in Conns
  PROVE  [f EXCEPT ![q][s] = c] \in Tables
BY DEF Tables

\* Which record an event is.
LEMMA EventIs ==
  ASSUME Types, NEW r \in {"D", "U"}
  PROVE  /\ ev[r] \in Events
         /\ ev[r].name \in {"I_Rcv_Conn_Ack", "R_Conn_CER", "CEA_Sent"} =>
              ev[r] \in [name : {"I_Rcv_Conn_Ack", "R_Conn_CER", "CEA_Sent"}, slot : Slots, ok : BOOLEAN]
         /\ ev[r].name = "Disconnect" => ev[r] \in [name : {"Disconnect"}, slots : SUBSET Slots]
         /\ ev[r].name \in {"CEA", "Non_CEA"} => ev[r].at = "Wait_I_CEA"
         /\ ev[r].name \in {"DWA", "DPR"} => ev[r].at \in Open
<1>1. ev[r] \in Events
  BY DEF Types, Evs
<1> QED BY <1>1, Constants DEF Events, Idle, Names

LEMMA HandledIs ==
  ASSUME Types, NEW r \in {"D", "U"}, Handled(r)
  PROVE  ev' \in Evs /\ ev'[r] = Idle /\ \A o \in {"D", "U"} \ {r} : ev'[o] = ev[o]
BY DEF Types, Evs, Events, Handled

LEMMA NewEventIs ==
  ASSUME Types, NEW r \in {"D", "U"}, NEW e \in Events, ev' = [ev EXCEPT ![r] = e]
  PROVE  ev' \in Evs /\ ev'[r] = e /\ \A o \in {"D", "U"} \ {r} : ev'[o] = ev[o]
BY DEF Types, Evs

\* Every connection keeps who opened it; a message on one changes its phase.
SameSides == \A c \in Conns : net'[c].by = net[c].by

LEMMA SendIs ==
  ASSUME Types, SendCER \/ SendDWR
  PROVE  net' \in Nets /\ SameSides
<1>1. CASE SendCER
  BY <1>1 DEF Types, Nets, SendCER, SameSides
<1>2. CASE SendDWR
  BY <1>2 DEF Types, Nets, SendDWR, SameSides
<1> QED BY <1>1, <1>2

LEMMA MessageIs ==
  ASSUME Types, NEW c \in Conns, NEW a \in BOOLEAN, NEW b \in BOOLEAN, NEW x \in {"new", "cer", "open"},
         net' = [net EXCEPT ![c].phase = x] \/ net' = [net EXCEPT ![c].up = a]
           \/ net' = [net EXCEPT ![c].dwr = b]
  PROVE  net' \in Nets /\ SameSides
<1>1. net \in Nets
  BY DEF Types
<1>2. CASE net' = [net EXCEPT ![c].phase = x]
  BY <1>1, <1>2 DEF Nets, SameSides
<1>3. CASE net' = [net EXCEPT ![c].up = a]
  BY <1>1, <1>3 DEF Nets, SameSides
<1>4. CASE net' = [net EXCEPT ![c].dwr = b]
  BY <1>1, <1>4 DEF Nets, SameSides
<1> QED BY <1>2, <1>3, <1>4

\* A new connection.
Opens(c, side) ==
  net' = [net EXCEPT ![c] = [by |-> side, up |-> TRUE, phase |-> "new", dwr |-> FALSE]]

LEMMA OpensIs ==
  ASSUME Types, NEW c \in Conns, NEW side \in {"us", "them"}, Opens(c, side)
  PROVE  /\ net' \in Nets /\ net'[c].by = side /\ net'[c].phase = "new"
         /\ \A d \in Conns \ {c} : net'[d] = net[d]
<1>1. net \in Nets
  BY DEF Types
<1> QED BY <1>1 DEF Opens, Nets

LEMMA AnsweredIs ==
  ASSUME Types, NEW h \in Boths, NEW q \in Procs, NEW s, NEW ok, NEW opens, Answered(h, q, s, ok, opens)
  PROVE  /\ p' \in PeerT /\ fd' \in Tables /\ sp' \in Sps /\ xfer' \in Seq(Conns)
         /\ net' \in Nets /\ SameSides
<1>1. h.fd[q][s] \in Conns /\ net \in Nets
  BY DEF Answered, Types
<1>2. net' \in Nets /\ SameSides
  <2>1. \/ net' = [net EXCEPT ![h.fd[q][s]].phase = "open"]
        \/ net' = [net EXCEPT ![h.fd[q][s]].phase = @]
    BY DEF Answered
  <2> DEFINE c == h.fd[q][s]
  <2>2. CASE net' = [net EXCEPT ![c].phase = "open"]
    <3> HIDE DEF c
    <3> QED BY <1>1, <2>2, MessageIs DEF c
  <2>3. CASE net' = [net EXCEPT ![c].phase = @]
    <3>1. c \in Conns
      BY <1>1
    <3> HIDE DEF c
    <3> QED BY <1>1, <2>3, <3>1 DEF Nets, SameSides
  <2> QED BY <2>1, <2>2, <2>3
<1> QED BY <1>1, <1>2 DEF Answered, Becomes, Types

LEMMA TypesInit ==
  Init => Types
<1> SUFFICES ASSUME Init PROVE Types
  OBVIOUS
<1>1. p \in PeerT
  BY DEF Init, PeerT, States, Slots
<1>2. due \in BOOLEAN /\ lock \in Locks \cup {None} /\ xfer \in Seq(Conns)
  BY DEF Init
<1>3. fd \in Tables /\ net \in Nets
  BY DEF Init, Tables, Nets
<1>4. sp \in Sps
  BY DEF Init, Sps
<1>5. ev \in Evs
  BY DEF Init, Evs, Events
<1> QED BY <1>1, <1>2, <1>3, <1>4, <1>5 DEF Types

LEMMA TimerTypes ==
  ASSUME Types, TimePasses \/ Timer \/ SendMessage
  PROVE  Types'
<1>0. /\ p \in PeerT /\ due \in BOOLEAN /\ lock \in Locks \cup {None} /\ fd \in Tables
      /\ sp \in Sps /\ ev \in Evs /\ xfer \in Seq(Conns) /\ net \in Nets
  BY DEF Types
<1>1. ASSUME TimePasses \/ SendMessage PROVE Types'
  BY <1>0, <1>1 DEF TimePasses, SendMessage, Types
<1>2. ASSUME Start PROVE Types'
  <2>1. p' \in PeerT /\ fd' \in Tables
    BY <1>2, StartIs DEF Becomes
  <2> QED BY <1>0, <1>2, <2>1 DEF Start, Types, Locks
<1>3. ASSUME ConnectFails PROVE Types'
  <2>1. p' \in PeerT
    BY <1>0, <1>3 DEF ConnectFails, PeerT, States
  <2> QED BY <1>0, <1>3, <2>1 DEF ConnectFails, Types
<1>4. ASSUME NEW c \in Conns, Connects(c) PROVE Types'
  <2>1. fd' \in Tables
    BY <1>0, <1>4, NextSockIs, EntryIs DEF Connects, Procs
  <2>2. net' \in Nets
    BY <1>4, OpensIs DEF Connects, Opens
  <2>3. xfer' \in Seq(Conns)
    BY <1>0, <1>4 DEF Connects
  <2> QED BY <1>0, <1>4, <2>1, <2>2, <2>3 DEF Connects, Types, Locks
<1>5. ASSUME StartReturns PROVE Types'
  <2>1. p' \in PeerT
    BY <1>0, <1>5 DEF StartReturns, PeerT
  <2> QED BY <1>0, <1>5, <2>1 DEF StartReturns, Types
<1>6. ASSUME WaitTimesOut PROVE Types'
  <2>1. p' \in PeerT /\ fd' \in Tables
    BY <1>6, WaitTimesOutIs DEF Becomes
  <2> QED BY <1>0, <1>6, <2>1 DEF WaitTimesOut, Types
<1>7. ASSUME WatchdogAsks PROVE Types'
  <2>1. p' \in PeerT
    BY <1>0, <1>7 DEF WatchdogAsks, PeerT
  <2>2. net' \in Nets
    BY <1>7, SendIs DEF WatchdogAsks
  <2> QED BY <1>0, <1>7, <2>1, <2>2 DEF WatchdogAsks, Types
<1>8. ASSUME WatchdogGivesUp PROVE Types'
  <2>1. p' \in PeerT /\ fd' \in Tables
    BY <1>8, WatchdogGivesUpIs DEF Becomes
  <2> QED BY <1>0, <1>8, <2>1 DEF WatchdogGivesUp, Types
<1> QED BY <1>1, <1>2, <1>3, <1>4, <1>5, <1>6, <1>7, <1>8 DEF Timer

\* What a receiver reads.
Arrives(c) == \/ Remote(c)
              \/ \E ok \in CommonApps : ReceiveCER(c, ok)
              \/ \E i \in {Own, c} : Messages(i, c) \/ ReadFails(i, c)

LEMMA ArrivesTypes ==
  ASSUME Types, NEW c \in Conns, Arrives(c)
  PROVE  Types'
<1>0. /\ p \in PeerT /\ due \in BOOLEAN /\ lock \in Locks \cup {None} /\ fd \in Tables
      /\ sp \in Sps /\ ev \in Evs /\ xfer \in Seq(Conns) /\ net \in Nets
  BY DEF Types
<1>o. \A i \in Slots : Owner(i) \in {"D", "U"}
  BY DEF Owner
<1>c. c \in Slots /\ Own \in Slots
  BY DEF Slots
<1>1. ASSUME RemoteConnects(c) PROVE Types'
  <2>1. NextSock("U") \in Sock /\ fd' \in Tables
    BY <1>0, <1>1, NextSockIs, EntryIs DEF RemoteConnects, Procs
  <2>2. net' \in Nets
    BY <1>1, OpensIs DEF RemoteConnects, Opens
  <2>3. sp' \in Sps
    BY <1>0, <1>1, <2>1 DEF RemoteConnects, Sps
  <2> QED BY <1>0, <1>1, <2>1, <2>2, <2>3 DEF RemoteConnects, Types
<1>2. ASSUME RemoteCloses(c) PROVE Types'
  <2>1. net' \in Nets
    BY <1>2, MessageIs DEF RemoteCloses
  <2> QED BY <1>0, <1>2, <2>1 DEF RemoteCloses, Types
<1>3. ASSUME NEW ok \in CommonApps, ReceiveCER(c, ok) PROVE Types'
  <2>1. net' \in Nets
    BY <1>3, MessageIs DEF ReceiveCER
  <2>2. sp' \in Sps /\ p' \in PeerT
    BY <1>0, <1>3, <1>c DEF ReceiveCER, Sps, PeerT
  <2>3. ev' \in Evs
    <3>1. [name |-> "R_Conn_CER", slot |-> c, ok |-> ok] \in Events
      BY <1>c, PeerAssumption DEF Events
    <3> QED BY <1>3, <3>1, NewEventIs DEF ReceiveCER
  <2> QED BY <1>0, <1>3, <2>1, <2>2, <2>3 DEF ReceiveCER, Types
<1>4. ASSUME NEW i \in {Own, c}, Messages(i, c) PROVE Types'
  <2>1. /\ UNCHANGED <<p, lock, fd, sp, xfer>> /\ due' = FALSE
        /\ \/ UNCHANGED ev
           \/ \E nm \in {"CEA", "Non_CEA", "DWA", "DPR"}, ok \in BOOLEAN :
                /\ ev' = [ev EXCEPT ![Owner(i)] = [name |-> nm, at |-> p.state, ok |-> ok]]
                /\ IF nm \in {"CEA", "Non_CEA"} THEN p.state = "Wait_I_CEA" ELSE p.state \in Open
    BY <1>4 DEF Messages, ReceiveCEA, ReceiveNonCEA, ReceiveDWA, ReceiveDPR, ReceiveOther,
                Receive, Open
  <2>2. \/ UNCHANGED net \/ net' = [net EXCEPT ![c].dwr = FALSE]
        \/ net' = [net EXCEPT ![c].phase = "open"] \/ net' = [net EXCEPT ![c].phase = @]
    BY <1>4 DEF Messages, ReceiveCEA, ReceiveNonCEA, ReceiveDWA, ReceiveDPR, ReceiveOther
  <2>3. net' \in Nets
    <3>1. CASE UNCHANGED net \/ net' = [net EXCEPT ![c].phase = @]
      BY <1>0, <3>1 DEF Nets
    <3>2. CASE net' = [net EXCEPT ![c].dwr = FALSE] \/ net' = [net EXCEPT ![c].phase = "open"]
      BY <3>2, MessageIs
    <3> QED BY <2>2, <3>1, <3>2
  <2>4. ev' \in Evs
    <3>1. CASE UNCHANGED ev
      BY <1>0, <3>1
    <3>2. ASSUME NEW nm \in {"CEA", "Non_CEA", "DWA", "DPR"}, NEW ok \in BOOLEAN,
                 ev' = [ev EXCEPT ![Owner(i)] = [name |-> nm, at |-> p.state, ok |-> ok]],
                 IF nm \in {"CEA", "Non_CEA"} THEN p.state = "Wait_I_CEA" ELSE p.state \in Open
          PROVE  ev' \in Evs
      <4>1. [name |-> nm, at |-> p.state, ok |-> ok] \in Events
        BY <3>2 DEF Events
      <4> QED BY <1>o, <1>c, <3>2, <4>1, NewEventIs
    <3> QED BY <2>1, <3>1, <3>2
  <2> QED BY <1>0, <2>1, <2>3, <2>4 DEF Types
<1>5. ASSUME NEW i \in {Own, c}, ReadFails(i, c) PROVE Types'
  <2>1. [name |-> "Disconnect", slots |-> {i}] \in Events
    BY <1>c DEF Events
  <2>2. ev' \in Evs
    BY <1>c, <1>o, <1>5, <2>1, NewEventIs DEF ReadFails
  <2> QED BY <1>0, <1>5, <2>2 DEF ReadFails, Types
<1> QED BY <1>1, <1>2, <1>3, <1>4, <1>5 DEF Arrives, Remote

\* What a receiver does on its own.
Reacts(r) == SelectFails(r) \/ CEA(r) \/ NonCEA(r) \/ DWA(r) \/ DPR(r) \/ Overtaken(r)

LEMMA ReactsTypes ==
  ASSUME Types, NEW r \in {"D", "U"}, Reacts(r)
  PROVE  Types'
<1>0. /\ p \in PeerT /\ due \in BOOLEAN /\ lock \in Locks \cup {None} /\ fd \in Tables
      /\ sp \in Sps /\ ev \in Evs /\ xfer \in Seq(Conns) /\ net \in Nets
  BY DEF Types
<1>1. ASSUME SelectFails(r) PROVE Types'
  <2> DEFINE S == {i \in Slots : Owner(i) = r /\ sp[i].there}
  <2>1. [name |-> "Disconnect", slots |-> S] \in Events
    BY DEF Events
  <2>2. ev' \in Evs
    BY <1>1, <2>1, NewEventIs DEF SelectFails
  <2> QED BY <1>0, <1>1, <2>2 DEF SelectFails, Types
<1>2. ASSUME CEA(r) PROVE Types'
  <2>1. p' \in PeerT /\ fd' \in Tables
    BY <1>2, CEAIs DEF Becomes
  <2>2. ev' \in Evs
    BY <1>2, HandledIs DEF CEA
  <2> QED BY <1>0, <1>2, <2>1, <2>2 DEF CEA, Types
<1>3. ASSUME NonCEA(r) PROVE Types'
  <2>1. p' \in PeerT /\ fd' \in Tables
    BY <1>3, NonCEAIs DEF Becomes
  <2>2. ev' \in Evs
    BY <1>3, HandledIs DEF NonCEA
  <2> QED BY <1>0, <1>3, <2>1, <2>2 DEF NonCEA, Types
<1>4. ASSUME DWA(r) PROVE Types'
  <2>1. p' \in PeerT
    BY <1>0, <1>4 DEF DWA, PeerT
  <2>2. ev' \in Evs
    BY <1>4, HandledIs DEF DWA
  <2> QED BY <1>0, <1>4, <2>1, <2>2 DEF DWA, Types
<1>5. ASSUME DPR(r) PROVE Types'
  <2>1. p' \in PeerT /\ fd' \in Tables
    BY <1>5, DPRIs DEF Becomes
  <2>2. ev' \in Evs
    BY <1>5, HandledIs DEF DPR
  <2> QED BY <1>0, <1>5, <2>1, <2>2 DEF DPR, Types
<1>6. ASSUME Overtaken(r) PROVE Types'
  <2>1. ev' \in Evs
    BY <1>6, HandledIs DEF Overtaken
  <2> QED BY <1>0, <1>6, <2>1 DEF Overtaken, Types
<1> QED BY <1>1, <1>2, <1>3, <1>4, <1>5, <1>6 DEF Reacts

\* disconnect_serviced_peer(): the slot loses its socket, the event that slot.
LEMMA DisconnectLeaves ==
  ASSUME Types, NEW r \in {"D", "U"}, NEW i \in Slots, Disconnect(r, i)
  PROVE  /\ ev[r].name = "Disconnect" /\ lock = None
         /\ ev' \in Evs
         /\ ev'[r] = Idle \/ ev'[r].name = "Disconnect"
         /\ \A o \in {"D", "U"} \ {r} : ev'[o] = ev[o]
         /\ sp' \in Sps /\ sp'[i].tcp = NoSock /\ sp'[i].there = sp[i].there
         /\ sp'[i].known = sp[i].known /\ \A j \in Slots \ {i} : sp'[j] = sp[j]
         /\ UNCHANGED <<due, lock, xfer, net>>
<1> DEFINE e == IF ev[r].slots = {i} THEN Idle ELSE [name |-> "Disconnect", slots |-> ev[r].slots \ {i}]
<1>1. ev[r].name = "Disconnect" /\ lock = None /\ UNCHANGED <<due, lock, xfer, net>>
  BY DEF Disconnect, Locked
<1>2. e \in Events /\ (e = Idle \/ e.name = "Disconnect")
  BY <1>1, EventIs DEF Events
<1>3. ev' = [ev EXCEPT ![r] = e]
  BY Zenon DEF Disconnect
<1>4. ev' \in Evs /\ ev'[r] = e /\ \A o \in {"D", "U"} \ {r} : ev'[o] = ev[o]
  <2> HIDE DEF e
  <2> QED BY <1>2, <1>3, NewEventIs
<1>5. /\ sp' \in Sps /\ sp'[i].tcp = NoSock /\ sp'[i].there = sp[i].there
      /\ sp'[i].known = sp[i].known /\ \A j \in Slots \ {i} : sp'[j] = sp[j]
  <2>1. sp' = [sp EXCEPT ![i].tcp = NoSock]
    BY DEF Disconnect
  <2> QED BY <2>1 DEF Types, Sps
<1> HIDE DEF e
<1> QED BY <1>1, <1>2, <1>4, <1>5

LEMMA DisconnectTypes ==
  ASSUME Types, NEW r \in {"D", "U"}, NEW i \in Slots, Disconnect(r, i)
  PROVE  Types'
<1>1. CASE sp[i].known
  <2>1. p' \in PeerT /\ fd' \in Tables
    BY <1>1, DisconnectIs DEF Becomes
  <2> QED BY <2>1, DisconnectLeaves DEF Types
<1>2. CASE ~sp[i].known
  <2>1. UNCHANGED <<p, fd>>
    BY <1>2, DisconnectIs
  <2> QED BY <2>1, DisconnectLeaves DEF Types
<1> QED BY <1>1, <1>2

\* What D does besides.
HandsOver == \/ ReceiveFd \/ Disconnect("D", Own)
             \/ ConnAck \/ ConnAckWins \/ ConnAckLoses \/ ConnAckIgnored

LEMMA ReceiveFdIs ==
  ASSUME Types, ReceiveFd
  PROVE  LET s == NextSock("D") IN
         /\ s \in Numbers["D"] /\ s \in Sock /\ fd["D"][s] = NoConn
         /\ xfer # <<>> /\ Head(xfer) \in Conns /\ xfer' = Tail(xfer)
         /\ fd' \in Tables /\ fd'["D"][s] = Head(xfer)
         /\ \A q \in Procs, x \in Sock : q # "D" \/ x # s => fd'[q][x] = fd[q][x]
         /\ sp' \in Sps /\ sp'[Own] = [there |-> TRUE, known |-> TRUE, tcp |-> s]
         /\ \A c \in Conns : sp'[c] = sp[c]
         /\ p' \in PeerT /\ p'.state = p.state /\ p'.r_cer = p.r_cer /\ p'.pipe = Own
         /\ ev["D"] = Idle /\ ev' \in Evs /\ ev'["U"] = ev["U"]
         /\ \/ p.state = "Wait_Conn_Ack" /\ p'.I = s /\ p'.R = p.R /\ ev'["D"].name = "I_Rcv_Conn_Ack"
            \/ p.state # "Wait_Conn_Ack" /\ p'.I = p.I /\ p'.R = s /\ ev' = ev
         /\ UNCHANGED <<due, lock, net>>
<1> DEFINE s == NextSock("D")
<1>0. p \in PeerT /\ fd \in Tables /\ sp \in Sps /\ ev \in Evs /\ xfer \in Seq(Conns)
  BY DEF Types
<1>1. s \in Numbers["D"] /\ s \in Sock /\ fd["D"][s] = NoConn
  BY NextSockIs DEF ReceiveFd, Procs
<1>2. xfer # <<>> /\ Head(xfer) \in Conns /\ xfer' = Tail(xfer)
  BY <1>0 DEF ReceiveFd
<1>3. /\ fd' \in Tables /\ fd'["D"][s] = Head(xfer)
      /\ \A q \in Procs, x \in Sock : q # "D" \/ x # s => fd'[q][x] = fd[q][x]
  <2>1. fd' = [fd EXCEPT !["D"][s] = Head(xfer)]
    BY DEF ReceiveFd
  <2> HIDE DEF s
  <2> QED BY <1>0, <1>1, <1>2, <2>1 DEF Tables, Procs
<1>4. /\ sp' \in Sps /\ sp'[Own] = [there |-> TRUE, known |-> TRUE, tcp |-> s]
      /\ \A c \in Conns : sp'[c] = sp[c]
  <2>1. sp' = [sp EXCEPT ![Own] = [there |-> TRUE, known |-> TRUE, tcp |-> s]]
    BY DEF ReceiveFd
  <2> HIDE DEF s
  <2> QED BY <1>0, <1>1, <2>1, Constants DEF Sps, Slots
<1>5. [name |-> "I_Rcv_Conn_Ack", slot |-> Own, ok |-> TRUE] \in Events
  BY DEF Events, Slots
<1>6. \/ /\ p.state = "Wait_Conn_Ack" /\ p' = [p EXCEPT !.pipe = Own, !.I = s]
         /\ ev' = [ev EXCEPT !["D"] = [name |-> "I_Rcv_Conn_Ack", slot |-> Own, ok |-> TRUE]]
      \/ p.state # "Wait_Conn_Ack" /\ p' = [p EXCEPT !.pipe = Own, !.R = s] /\ ev' = ev
  BY DEF ReceiveFd
<1>7. ev["D"] = Idle /\ UNCHANGED <<due, lock, net>>
  BY DEF ReceiveFd, SelectsOk
<1> HIDE DEF s
<1>8. CASE /\ p.state = "Wait_Conn_Ack" /\ p' = [p EXCEPT !.pipe = Own, !.I = s]
           /\ ev' = [ev EXCEPT !["D"] = [name |-> "I_Rcv_Conn_Ack", slot |-> Own, ok |-> TRUE]]
  <2>1. /\ p' \in PeerT /\ p'.state = p.state /\ p'.r_cer = p.r_cer /\ p'.pipe = Own
        /\ p'.I = s /\ p'.R = p.R
    BY <1>0, <1>1, <1>8 DEF PeerT, Slots
  <2>2. ev' \in Evs /\ ev'["U"] = ev["U"] /\ ev'["D"].name = "I_Rcv_Conn_Ack"
    <3> DEFINE e == [name |-> "I_Rcv_Conn_Ack", slot |-> Own, ok |-> TRUE]
    <3>1. e \in Events /\ e.name = "I_Rcv_Conn_Ack" /\ ev' = [ev EXCEPT !["D"] = e]
      BY <1>5, <1>8
    <3> HIDE DEF e
    <3> QED BY <1>0, <3>1, NewEventIs
  <2> QED BY <1>1, <1>2, <1>3, <1>4, <1>7, <1>8, <2>1, <2>2 DEF s
<1>9. CASE p.state # "Wait_Conn_Ack" /\ p' = [p EXCEPT !.pipe = Own, !.R = s] /\ ev' = ev
  <2>1. /\ p' \in PeerT /\ p'.state = p.state /\ p'.r_cer = p.r_cer /\ p'.pipe = Own
        /\ p'.R = s /\ p'.I = p.I
    BY <1>0, <1>1, <1>9 DEF PeerT, Slots
  <2> QED BY <1>0, <1>1, <1>2, <1>3, <1>4, <1>7, <1>9, <2>1 DEF s
<1> QED BY <1>6, <1>8, <1>9

LEMMA HandsOverTypes ==
  ASSUME Types, HandsOver
  PROVE  Types'
<1>0. /\ p \in PeerT /\ due \in BOOLEAN /\ lock \in Locks \cup {None} /\ fd \in Tables
      /\ sp \in Sps /\ ev \in Evs /\ xfer \in Seq(Conns) /\ net \in Nets
  BY DEF Types
<1>1. ASSUME ReceiveFd PROVE Types'
  <2>1. p' \in PeerT /\ fd' \in Tables /\ sp' \in Sps /\ ev' \in Evs
    BY <1>1, ReceiveFdIs
  <2>2. xfer' \in Seq(Conns)
    BY <1>0, <1>1 DEF ReceiveFd
  <2> QED BY <1>0, <1>1, <2>1, <2>2 DEF ReceiveFd, Types
<1>2. ASSUME Disconnect("D", Own) PROVE Types'
  BY <1>2, DisconnectTypes DEF Slots
<1>3. ASSUME ConnAck \/ ConnAckLoses PROVE Types'
  <2>1. p' \in PeerT
    BY <1>0, <1>3 DEF ConnAck, ConnAckLoses, PeerT, States, Waiting
  <2>2. ev' \in Evs /\ net' \in Nets
    BY <1>3, HandledIs, SendIs DEF ConnAck, ConnAckLoses
  <2> QED BY <1>0, <1>3, <2>1, <2>2 DEF ConnAck, ConnAckLoses, Types
<1>4. ASSUME ConnAckWins PROVE Types'
  <2>1. ev' \in Evs /\ UNCHANGED <<due, lock>>
    BY <1>4, HandledIs DEF ConnAckWins
  <2>2. PICK h \in Boths : Answered(h, "D", p.R, TRUE, TRUE) \/ NotAnswered(h, "D", p.R, TRUE)
    BY <1>4, ConnAckWinsIs
  <2>3. CASE Answered(h, "D", p.R, TRUE, TRUE)
    BY <1>0, <2>1, <2>3, AnsweredIs DEF Types, Procs
  <2>4. CASE NotAnswered(h, "D", p.R, TRUE)
    BY <1>0, <2>1, <2>4 DEF NotAnswered, Becomes, Types
  <2> QED BY <2>2, <2>3, <2>4
<1>5. ASSUME ConnAckIgnored PROVE Types'
  <2>1. ev' \in Evs
    BY <1>5, HandledIs DEF ConnAckIgnored
  <2> QED BY <1>0, <1>5, <2>1 DEF ConnAckIgnored, Types
<1> QED BY <1>1, <1>2, <1>3, <1>4, <1>5 DEF HandsOver

\* What U does besides.
Accepts(c) == Disconnect("U", c) \/ ConnCERAnswered(c) \/ ConnCERKept(c) \/ ConnCERRejected(c)

LEMMA AnswerSent ==
  ASSUME Types, ev["U"].name = "R_Conn_CER", ev' = [ev EXCEPT !["U"].name = "CEA_Sent"]
  PROVE  ev' \in Evs /\ ev'["D"] = ev["D"] /\ ev'["U"] = [ev["U"] EXCEPT !.name = "CEA_Sent"]
         /\ ev'["U"].name = "CEA_Sent" /\ ev'["U"].slot = ev["U"].slot /\ ev'["U"].ok = ev["U"].ok
<1> DEFINE e == [ev["U"] EXCEPT !.name = "CEA_Sent"]
<1>1. /\ e \in [name : {"I_Rcv_Conn_Ack", "R_Conn_CER", "CEA_Sent"}, slot : Slots, ok : BOOLEAN]
      /\ e.name = "CEA_Sent" /\ e.slot = ev["U"].slot /\ e.ok = ev["U"].ok
  BY EventIs
<1>2. e \in Events
  BY <1>1 DEF Events
<1>3. ev' = [ev EXCEPT !["U"] = e]
  BY DEF Types, Evs
<1> HIDE DEF e
<1>4. ev' \in Evs /\ ev'["D"] = ev["D"] /\ ev'["U"] = e
  BY <1>2, <1>3, NewEventIs
<1> QED BY <1>1, <1>4 DEF e

LEMMA AcceptsTypes ==
  ASSUME Types, (\E c \in Conns : Accepts(c)) \/ CEASent
  PROVE  Types'
<1>0. /\ p \in PeerT /\ due \in BOOLEAN /\ lock \in Locks \cup {None} /\ fd \in Tables
      /\ sp \in Sps /\ ev \in Evs /\ xfer \in Seq(Conns) /\ net \in Nets
  BY DEF Types
<1>1. ASSUME CEASent PROVE Types'
  <2>1. p' \in PeerT /\ fd' \in Tables
    BY <1>1, CEASentIs DEF Becomes
  <2>2. ev' \in Evs
    BY <1>1, HandledIs DEF CEASent
  <2> QED BY <1>0, <1>1, <2>1, <2>2 DEF CEASent, Types
<1>2. ASSUME NEW c \in Conns, Disconnect("U", c) PROVE Types'
  BY <1>2, DisconnectTypes DEF Slots
<1>3. ASSUME NEW c \in Conns, ConnCERAnswered(c) PROVE Types'
  <2>1. ev' \in Evs /\ due' \in BOOLEAN /\ lock' \in Locks
    BY <1>3, AnswerSent DEF ConnCERAnswered, Locked, Locks
  <2>2. PICK h \in Boths : \/ Answered(h, "U", sp[c].tcp, ev["U"].ok, FALSE)
                           \/ NotAnswered(h, "U", sp[c].tcp, FALSE)
    BY <1>3, ConnCERAnsweredIs
  <2>3. CASE Answered(h, "U", sp[c].tcp, ev["U"].ok, FALSE)
    BY <1>0, <2>1, <2>3, AnsweredIs DEF Types, Procs
  <2>4. CASE NotAnswered(h, "U", sp[c].tcp, FALSE)
    BY <1>0, <2>1, <2>4 DEF NotAnswered, Becomes, Types
  <2> QED BY <2>2, <2>3, <2>4
<1>4. ASSUME NEW c \in Conns, ConnCERKept(c) PROVE Types'
  <2>1. p' \in PeerT /\ fd' \in Tables
    BY <1>4, ConnCERKeptIs DEF Becomes
  <2>2. ev' \in Evs /\ due' \in BOOLEAN
    BY <1>4, HandledIs DEF ConnCERKept
  <2> QED BY <1>0, <1>4, <2>1, <2>2 DEF ConnCERKept, Types
<1>5. ASSUME NEW c \in Conns, ConnCERRejected(c) PROVE Types'
  <2>1. \E s : fd' = Close(fd, "U", s)
    BY <1>5 DEF ConnCERRejected
  <2>2. fd' \in Tables
    BY <1>0, <2>1, CloseIs DEF Closes, Procs
  <2>3. ev' \in Evs
    BY <1>5, HandledIs DEF ConnCERRejected
  <2> QED BY <1>0, <1>5, <2>2, <2>3 DEF ConnCERRejected, Types
<1> QED BY <1>1, <1>2, <1>3, <1>4, <1>5 DEF Accepts

\* Every step is one of these.
LEMMA NextIs ==
  Next => \/ TimePasses \/ Timer \/ SendMessage \/ HandsOver \/ CEASent
          \/ \E c \in Conns : Arrives(c) \/ Accepts(c)
          \/ \E r \in {"D", "U"} : Reacts(r)
BY DEF Next, ReceiverD, ReceiverU, HandsOver, Arrives, Accepts, Reacts

LEMMA TypesNext ==
  Types /\ [Next]_vars => Types'
<1>1. Types /\ Next => Types'
  BY NextIs, TimerTypes, HandsOverTypes, ArrivesTypes, AcceptsTypes, ReactsTypes
<1>2. Types /\ UNCHANGED vars => Types'
  BY DEF vars, Types
<1> QED BY <1>1, <1>2

\* The peer, the tables, the serviced peers, the events and the connections keep
\* their types: in particular every descriptor is of a connection of this node.
THEOREM TypesHold ==
  Spec => []TypeOK
<1>1. Spec => []Types
  BY TypesInit, TypesNext, PTL DEF Spec
<1>2. Types => TypeOK
  BY TypesAre
<1> QED BY <1>1, <1>2, PTL

-----------------------------------------------------------------------------
(* Whose descriptors, slots and events these are.                           *)

\* What a step does that takes no new descriptor.
SlotKept(i) ==
  \/ sp'[i] = sp[i]
  \/ sp'[i] = Gone
  \/ /\ sp'[i].tcp \in {sp[i].tcp, NoSock} /\ sp'[i].there = sp[i].there
     /\ sp[i].known => sp'[i].known
     /\ sp'[i].known => sp[i].known \/ sp[i].there
Passes(q, s) == s \in Sock /\ fd[q][s] \in Conns /\ xfer' = Append(xfer, fd[q][s])
Frame ==
  /\ \A q \in Procs, s \in Sock : fd'[q][s] \in {fd[q][s], NoConn}
  /\ SameSides
  /\ xfer' = xfer \/ (\E s \in Sock : Passes("U", s)) \/ (ConnAckWins /\ Passes("D", p.R))
  /\ \A i \in Slots : SlotKept(i)

LEMMA BecomesCloses ==
  ASSUME NEW q \in Procs, NEW x, NEW I, NEW R, NEW cer, Becomes(q, x, I, R, cer)
  PROVE  \A o \in Procs, s \in Sock : fd'[o][s] \in {fd[o][s], NoConn}
BY DEF Becomes, Closes

LEMMA FrameIf ==
  ASSUME \A q \in Procs, s \in Sock : fd'[q][s] \in {fd[q][s], NoConn},
         SameSides, UNCHANGED <<xfer, sp>>
  PROVE  Frame
BY DEF Frame, SlotKept

LEMMA Unchanged ==
  /\ UNCHANGED fd => \A q \in Procs, s \in Sock : fd'[q][s] \in {fd[q][s], NoConn}
  /\ UNCHANGED net => SameSides
BY DEF SameSides

LEMMA TimerFrame ==
  ASSUME Types, TimePasses \/ Timer \/ SendMessage
  PROVE  Frame \/ \E c \in Conns : Connects(c)
<1>t. "T" \in Procs
  BY DEF Procs
<1>1. ASSUME TimePasses \/ SendMessage \/ ConnectFails \/ StartReturns PROVE Frame
  BY <1>1, FrameIf, Unchanged DEF TimePasses, SendMessage, ConnectFails, StartReturns
<1>2. ASSUME Start PROVE Frame
  BY <1>t, <1>2, StartIs, BecomesCloses, FrameIf, Unchanged DEF Start
<1>3. ASSUME WaitTimesOut PROVE Frame
  BY <1>t, <1>3, WaitTimesOutIs, BecomesCloses, FrameIf, Unchanged DEF WaitTimesOut
<1>4. ASSUME WatchdogAsks PROVE Frame
  BY <1>4, SendIs, FrameIf, Unchanged DEF WatchdogAsks
<1>5. ASSUME WatchdogGivesUp PROVE Frame
  BY <1>t, <1>5, WatchdogGivesUpIs, BecomesCloses, FrameIf, Unchanged DEF WatchdogGivesUp
<1> QED BY <1>1, <1>2, <1>3, <1>4, <1>5 DEF Timer

LEMMA MessagesAre ==
  ASSUME Types, NEW c \in Conns, NEW i \in {Own, c}, Messages(i, c)
  PROVE  /\ UNCHANGED <<p, lock, fd, sp, xfer>> /\ due' = FALSE /\ SameSides
         /\ sp[i].tcp # NoSock /\ fd[Owner(i)][sp[i].tcp] = c /\ ev[Owner(i)] = Idle
         /\ \/ UNCHANGED ev
            \/ /\ ev' \in Evs /\ \A o \in {"D", "U"} \ {Owner(i)} : ev'[o] = ev[o]
               /\ \/ ev'[Owner(i)].name \in {"Non_CEA", "DWA", "DPR"} 
                  \/ \E ok \in BOOLEAN : ReceiveCEA(i, c, ok) /\ ev'[Owner(i)].name = "CEA"
                                           /\ ev'[Owner(i)].ok = ok
<1>o. Owner(i) \in {"D", "U"}
  BY DEF Owner
<1>1. /\ UNCHANGED <<p, lock, fd, sp, xfer>> /\ due' = FALSE /\ Reads(i, c)
  BY DEF Messages, ReceiveCEA, ReceiveNonCEA, ReceiveDWA, ReceiveDPR, ReceiveOther, Receive
<1>2. SameSides
  <2>1. \/ UNCHANGED net \/ net' = [net EXCEPT ![c].dwr = FALSE]
        \/ net' = [net EXCEPT ![c].phase = "open"] \/ net' = [net EXCEPT ![c].phase = @]
    BY DEF Messages, ReceiveCEA, ReceiveNonCEA, ReceiveDWA, ReceiveDPR, ReceiveOther
  <2>2. CASE UNCHANGED net \/ net' = [net EXCEPT ![c].phase = @]
    BY <2>2 DEF Types, Nets, SameSides
  <2>3. CASE net' = [net EXCEPT ![c].dwr = FALSE] \/ net' = [net EXCEPT ![c].phase = "open"]
    BY <2>3, MessageIs
  <2> QED BY <2>1, <2>2, <2>3
<1>3. \/ UNCHANGED ev
      \/ \E nm \in {"CEA", "Non_CEA", "DWA", "DPR"}, ok \in BOOLEAN :
           /\ ev' = [ev EXCEPT ![Owner(i)] = [name |-> nm, at |-> p.state, ok |-> ok]]
           /\ IF nm \in {"CEA", "Non_CEA"} THEN p.state = "Wait_I_CEA" ELSE p.state \in Open
           /\ nm = "CEA" => ReceiveCEA(i, c, ok)
  BY DEF Messages, ReceiveCEA, ReceiveNonCEA, ReceiveDWA, ReceiveDPR, ReceiveOther,
         Receive, Open
<1>4. \/ UNCHANGED ev
      \/ /\ ev' \in Evs /\ \A o \in {"D", "U"} \ {Owner(i)} : ev'[o] = ev[o]
         /\ \/ ev'[Owner(i)].name \in {"Non_CEA", "DWA", "DPR"} 
            \/ \E ok \in BOOLEAN : ReceiveCEA(i, c, ok) /\ ev'[Owner(i)].name = "CEA"
                                     /\ ev'[Owner(i)].ok = ok
  <2>1. CASE UNCHANGED ev
    BY <2>1
  <2>2. ASSUME NEW nm \in {"CEA", "Non_CEA", "DWA", "DPR"}, NEW ok \in BOOLEAN,
               ev' = [ev EXCEPT ![Owner(i)] = [name |-> nm, at |-> p.state, ok |-> ok]],
               IF nm \in {"CEA", "Non_CEA"} THEN p.state = "Wait_I_CEA" ELSE p.state \in Open,
               nm = "CEA" => ReceiveCEA(i, c, ok)
        PROVE  /\ ev' \in Evs /\ \A o \in {"D", "U"} \ {Owner(i)} : ev'[o] = ev[o]
               /\ \/ ev'[Owner(i)].name \in {"Non_CEA", "DWA", "DPR"} 
                  \/ ReceiveCEA(i, c, ok) /\ ev'[Owner(i)].name = "CEA" /\ ev'[Owner(i)].ok = ok
    <3> DEFINE e == [name |-> nm, at |-> p.state, ok |-> ok]
    <3>1. e \in Events /\ e.name = nm /\ e.ok = ok
      BY <2>2 DEF Events
    <3>2. ev' = [ev EXCEPT ![Owner(i)] = e]
      BY <2>2
    <3> HIDE DEF e
    <3>3. ev' \in Evs /\ ev'[Owner(i)] = e /\ \A o \in {"D", "U"} \ {Owner(i)} : ev'[o] = ev[o]
      BY <1>o, <3>1, <3>2, NewEventIs
    <3> QED BY <2>2, <3>1, <3>3
  <2> QED BY <1>3, <2>1, <2>2
<1> QED BY <1>1, <1>2, <1>4 DEF Reads, SelectsOk

LEMMA ArrivesFrame ==
  ASSUME Types, NEW c \in Conns, Arrives(c)
  PROVE  Frame \/ RemoteConnects(c)
<1>1. ASSUME RemoteCloses(c) PROVE Frame
  BY <1>1, MessageIs, FrameIf, Unchanged DEF RemoteCloses
<1>2. ASSUME NEW ok \in CommonApps, ReceiveCER(c, ok) PROVE Frame
  <2>1. SameSides
    BY <1>2, MessageIs DEF ReceiveCER
  <2>2. \A i \in Slots : SlotKept(i)
    <3>1. sp \in Sps /\ sp' = [sp EXCEPT ![c].known = TRUE] /\ sp[c].there
      BY <1>2 DEF Types, ReceiveCER, Reads
    <3> QED BY <3>1 DEF Sps, SlotKept
  <2> QED BY <1>2, <2>1, <2>2, Unchanged DEF Frame, ReceiveCER
<1>3. ASSUME NEW i \in {Own, c}, Messages(i, c) PROVE Frame
  BY <1>3, MessagesAre, FrameIf, Unchanged
<1>4. ASSUME NEW i \in {Own, c}, ReadFails(i, c) PROVE Frame
  BY <1>4, FrameIf, Unchanged DEF ReadFails
<1> QED BY <1>1, <1>2, <1>3, <1>4 DEF Arrives, Remote

LEMMA ReactsFrame ==
  ASSUME Types, NEW r \in {"D", "U"}, Reacts(r)
  PROVE  Frame
<1>r. r \in Procs
  BY DEF Procs
<1>1. ASSUME SelectFails(r) \/ DWA(r) \/ Overtaken(r) PROVE Frame
  BY <1>1, FrameIf, Unchanged DEF SelectFails, DWA, Overtaken
<1>2. ASSUME CEA(r) PROVE Frame
  BY <1>r, <1>2, CEAIs, BecomesCloses, FrameIf, Unchanged DEF CEA
<1>3. ASSUME NonCEA(r) PROVE Frame
  BY <1>r, <1>3, NonCEAIs, BecomesCloses, FrameIf, Unchanged DEF NonCEA
<1>4. ASSUME DPR(r) PROVE Frame
  BY <1>r, <1>4, DPRIs, BecomesCloses, FrameIf, Unchanged DEF DPR
<1> QED BY <1>1, <1>2, <1>3, <1>4 DEF Reacts

LEMMA DisconnectFrame ==
  ASSUME Types, NEW r \in {"D", "U"}, NEW i \in Slots, Disconnect(r, i)
  PROVE  Frame
<1>1. \A q \in Procs, s \in Sock : fd'[q][s] \in {fd[q][s], NoConn}
  <2>1. CASE sp[i].known
    BY <2>1, DisconnectIs, BecomesCloses DEF Procs
  <2>2. CASE ~sp[i].known
    <3>1. UNCHANGED <<p, fd>>
      BY <2>2, DisconnectIs
    <3> QED BY <3>1
  <2> QED BY <2>1, <2>2
<1>2. SameSides
  BY DisconnectLeaves, Unchanged
<1>3. \A j \in Slots : SlotKept(j)
  BY DisconnectLeaves DEF SlotKept
<1> QED BY <1>1, <1>2, <1>3, DisconnectLeaves DEF Frame

LEMMA AnsweredFrame ==
  ASSUME Types, NEW h \in Boths, NEW q \in {"D", "U"}, NEW s, NEW ok, NEW opens, Closes(fd, h.fd, q),
         Answered(h, q, s, ok, opens) \/ NotAnswered(h, q, s, opens),
         q = "D" => ConnAckWins /\ s = p.R
  PROVE  Frame
<1>1. CASE Answered(h, q, s, ok, opens)
  <2>1. SameSides
    BY <1>1, AnsweredIs DEF Procs
  <2>2. \A o \in Procs, x \in Sock : fd'[o][x] \in {fd[o][x], NoConn}
    BY <1>1, BecomesCloses DEF Answered, Procs
  <2>3. \A i \in Slots : SlotKept(i)
    BY <1>1 DEF Answered, SlotKept
  <2>4. Passes(q, s)
    <3>1. s \in Sock /\ h.fd[q][s] \in Conns /\ h.fd[q][s] \in {fd[q][s], NoConn}
      BY <1>1 DEF Answered, Closes
    <3> QED BY <1>1, <3>1, Constants DEF Answered, Passes
  <2>5. s \in Sock
    BY <2>4 DEF Passes
  <2> QED BY <2>1, <2>2, <2>3, <2>4, <2>5 DEF Frame
<1>2. CASE NotAnswered(h, q, s, opens)
  BY <1>2, BecomesCloses, FrameIf, Unchanged DEF NotAnswered, Procs
<1> QED BY <1>1, <1>2

LEMMA HandsOverFrame ==
  ASSUME Types, HandsOver
  PROVE  Frame \/ ReceiveFd
<1>1. ASSUME Disconnect("D", Own) PROVE Frame
  BY <1>1, DisconnectFrame DEF Slots
<1>2. ASSUME ConnAck \/ ConnAckLoses PROVE Frame
  BY <1>2, SendIs, FrameIf, Unchanged DEF ConnAck, ConnAckLoses
<1>3. ASSUME ConnAckWins PROVE Frame
  BY <1>3, ConnAckWinsIs, AnsweredFrame
<1>4. ASSUME ConnAckIgnored PROVE Frame
  BY <1>4, FrameIf, Unchanged DEF ConnAckIgnored
<1> QED BY <1>1, <1>2, <1>3, <1>4 DEF HandsOver

LEMMA AcceptsFrame ==
  ASSUME Types, (\E c \in Conns : Accepts(c)) \/ CEASent
  PROVE  Frame
<1>u. "U" \in Procs
  BY DEF Procs
<1>1. ASSUME CEASent PROVE Frame
  BY <1>u, <1>1, CEASentIs, BecomesCloses, FrameIf, Unchanged DEF CEASent
<1>2. ASSUME NEW c \in Conns, Disconnect("U", c) PROVE Frame
  BY <1>2, DisconnectFrame DEF Slots
<1>3. ASSUME NEW c \in Conns, ConnCERAnswered(c) PROVE Frame
  BY <1>3, ConnCERAnsweredIs, AnsweredFrame
<1>4. ASSUME NEW c \in Conns, ConnCERKept(c) PROVE Frame
  BY <1>u, <1>4, ConnCERKeptIs, BecomesCloses, FrameIf, Unchanged DEF ConnCERKept
<1>5. ASSUME NEW c \in Conns, ConnCERRejected(c) PROVE Frame
  <2>1. PICK s : fd' = Close(fd, "U", s)
    BY <1>5 DEF ConnCERRejected
  <2>2. \A q \in Procs, x \in Sock : fd'[q][x] \in {fd[q][x], NoConn}
    BY <1>u, <2>1, CloseIs DEF Closes, Types
  <2> QED BY <1>5, <2>2, FrameIf, Unchanged DEF ConnCERRejected
<1> QED BY <1>1, <1>2, <1>3, <1>4, <1>5 DEF Accepts

\* The three steps that take one apart, nothing is opened and no slot is filled.
LEMMA FrameIs ==
  ASSUME Types, Next
  PROVE  Frame \/ ReceiveFd \/ \E c \in Conns : Connects(c) \/ RemoteConnects(c)
BY NextIs, TimerFrame, HandsOverFrame, ArrivesFrame, AcceptsFrame, ReactsFrame

Us(c)   == net[c].by = "us"
Them(c) == net[c].by = "them"

\* Descriptors have the process's numbers and are of connections that were made; U has
\* none this node dialled, T no other.
TablesOwn ==
  /\ \A q \in Procs, s \in Sock :
       fd[q][s] # NoConn => s \in Numbers[q] /\ net[fd[q][s]].by # "none"
  /\ \A s \in Sock : fd["U"][s] # NoConn => Them(fd["U"][s])
  /\ \A s \in Sock : fd["T"][s] # NoConn => Us(fd["T"][s])
  /\ \A k \in 1..Len(xfer) : net[xfer[k]].by # "none"

\* A slot with a socket is in use; its number is one of its process's.
SlotsOwn ==
  /\ sp[Own].tcp # NoSock => sp[Own].there /\ sp[Own].known
  /\ sp[Own].tcp \in Numbers["D"] \cup {NoSock}
  /\ \A c \in Conns : /\ sp[c].there => Them(c)
                      /\ sp[c].known \/ sp[c].tcp # NoSock => sp[c].there
                      /\ sp[c].tcp \in Numbers["U"] \cup {NoSock}

\* U has the events of a receiver, D those of an initiator; a CER came on a connection of
\* the remote peer's, which U still reads.
EventsOwn ==
  /\ ev["U"].name \notin {"CEA", "I_Rcv_Conn_Ack"}
  /\ ev["D"].name \notin {"R_Conn_CER", "CEA_Sent"}
  /\ ev["U"].name \in {"R_Conn_CER", "CEA_Sent"} =>
       ev["U"].slot \in Conns /\ Them(ev["U"].slot)
  /\ ev["U"].name = "R_Conn_CER" => sp[ev["U"].slot].known /\ sp[ev["U"].slot].tcp # NoSock

LEMMA OwnInit ==
  Init => TablesOwn /\ SlotsOwn /\ EventsOwn
<1> SUFFICES ASSUME Init PROVE TablesOwn /\ SlotsOwn /\ EventsOwn
  OBVIOUS
<1>1. TablesOwn
  <2>1. \A q \in Procs, s \in Sock : fd[q][s] = NoConn
    BY DEF Init
  <2>2. 1..Len(xfer) = {}
    BY DEF Init
  <2> QED BY <2>1, <2>2 DEF TablesOwn, Procs
<1>2. SlotsOwn
  <2>1. sp[Own].tcp = NoSock /\ \A c \in Conns : ~sp[c].there /\ ~sp[c].known /\ sp[c].tcp = NoSock
    BY Constants DEF Init, Slots
  <2> QED BY <2>1 DEF SlotsOwn
<1>3. EventsOwn
  <2>1. ev["D"].name = None /\ ev["U"].name = None
    BY DEF Init, Idle
  <2> QED BY <2>1, Constants DEF EventsOwn, Names
<1> QED BY <1>1, <1>2, <1>3

LEMMA FrameOwn ==
  ASSUME Types, Types', TablesOwn, Frame
  PROVE  TablesOwn'
<1>1. \A q \in Procs, s \in Sock : fd'[q][s] # NoConn => fd'[q][s] = fd[q][s] /\ fd[q][s] \in Conns
  BY DEF Frame, Types, Tables
<1>2. \A c \in Conns : net'[c].by = net[c].by
  BY DEF Frame, SameSides
<1>3. \A k \in 1..Len(xfer) : xfer[k] \in Conns
  BY DEF Types
<1>4. \A q \in Procs, s \in Sock :
        fd'[q][s] # NoConn => s \in Numbers[q] /\ net'[fd'[q][s]].by # "none"
  BY <1>1, <1>2 DEF TablesOwn
<1>5. \A s \in Sock : /\ fd'["U"][s] # NoConn => net'[fd'["U"][s]].by = "them"
                      /\ fd'["T"][s] # NoConn => net'[fd'["T"][s]].by = "us"
  <2>1. "U" \in Procs /\ "T" \in Procs
    BY DEF Procs
  <2> QED BY <1>1, <1>2, <2>1 DEF TablesOwn, Us, Them
<1>6. \A k \in 1..Len(xfer') : net'[xfer'[k]].by # "none"
  <2>1. CASE xfer' = xfer
    BY <1>2, <1>3, <2>1 DEF TablesOwn
  <2>2. ASSUME NEW q \in {"D", "U"}, NEW s, s \in Sock, fd[q][s] \in Conns,
               xfer' = Append(xfer, fd[q][s])
        PROVE  \A k \in 1..Len(xfer') : net'[xfer'[k]].by # "none"
    <3>1. net'[fd[q][s]].by # "none"
      BY <1>2, <2>2, Constants DEF TablesOwn, Procs
    <3>2. xfer \in Seq(Conns)
      BY DEF Types
    <3>3. \A k \in 1..Len(xfer') : xfer'[k] = IF k = Len(xfer) + 1 THEN fd[q][s] ELSE xfer[k]
      BY <2>2, <3>2
    <3>4. \A k \in 1..Len(xfer') : k # Len(xfer) + 1 => k \in 1..Len(xfer)
      BY <2>2, <3>2
    <3> QED BY <1>2, <1>3, <3>1, <3>3, <3>4 DEF TablesOwn
  <2> QED BY <2>1, <2>2 DEF Frame, Passes
<1> QED BY <1>4, <1>5, <1>6 DEF TablesOwn, Us, Them

\* A new connection's descriptor.
LEMMA EntryOwn ==
  ASSUME Types, TablesOwn, NEW c \in Conns, Fresh(c), NEW q \in Procs, NEW side \in {"us", "them"},
         Opens(c, side), FreeSocks(q) # {}, fd' = [fd EXCEPT ![q][NextSock(q)] = c],
         q = "U" => side = "them", q = "T" => side = "us",
         xfer' = xfer \/ xfer' = Append(xfer, c)
  PROVE  TablesOwn'
<1> DEFINE n == NextSock(q)
<1>1. n \in Numbers[q] /\ n \in Sock /\ fd \in Tables /\ xfer \in Seq(Conns)
  BY NextSockIs DEF Types
<1>2. /\ net'[c].by = side /\ \A d \in Conns \ {c} : net'[d] = net[d]
      /\ net[c].by = "none"
  BY OpensIs DEF Fresh
<1>3. fd' = [fd EXCEPT ![q][n] = c]
  OBVIOUS
<1> HIDE DEF n
<1>4. /\ fd'[q][n] = c
      /\ \A o \in Procs, s \in Sock : o # q \/ s # n => fd'[o][s] = fd[o][s]
  BY <1>1, <1>3 DEF Tables
<1>5. \A o \in Procs, s \in Sock : fd[o][s] # NoConn => net'[fd[o][s]].by = net[fd[o][s]].by
  <2>1. \A o \in Procs, s \in Sock : fd[o][s] # NoConn => fd[o][s] \in Conns \ {c}
    BY <1>1, <1>2 DEF Tables, TablesOwn
  <2> QED BY <1>2, <2>1
<1>6. \A o \in Procs, s \in Sock :
        fd'[o][s] # NoConn => s \in Numbers[o] /\ net'[fd'[o][s]].by # "none"
  BY <1>1, <1>2, <1>4, <1>5 DEF TablesOwn
<1>7. \A s \in Sock : /\ fd'["U"][s] # NoConn => net'[fd'["U"][s]].by = "them"
                      /\ fd'["T"][s] # NoConn => net'[fd'["T"][s]].by = "us"
  <2>1. "U" \in Procs /\ "T" \in Procs
    BY DEF Procs
  <2> QED BY <1>2, <1>4, <1>5, <2>1 DEF TablesOwn, Us, Them
<1>8. \A k \in 1..Len(xfer') : net'[xfer'[k]].by # "none"
  <2>1. \A k \in 1..Len(xfer) : xfer[k] \in Conns \ {c} /\ net'[xfer[k]].by # "none"
    BY <1>1, <1>2 DEF TablesOwn
  <2>2. CASE xfer' = xfer
    BY <2>1, <2>2
  <2>3. CASE xfer' = Append(xfer, c)
    <3>3. \A k \in 1..Len(xfer') : /\ xfer'[k] = IF k = Len(xfer) + 1 THEN c ELSE xfer[k]
                                   /\ k # Len(xfer) + 1 => k \in 1..Len(xfer)
      BY <1>1, <2>3
    <3> QED BY <1>2, <2>1, <3>3
  <2> QED BY <2>2, <2>3
<1> QED BY <1>6, <1>7, <1>8 DEF TablesOwn, Us, Them

LEMMA ReceiveFdOwn ==
  ASSUME Types, TablesOwn, ReceiveFd
  PROVE  TablesOwn'
<1> DEFINE n == NextSock("D")
<1>1. /\ n \in Numbers["D"] /\ n \in Sock /\ fd'["D"][n] = Head(xfer) /\ UNCHANGED net
      /\ \A q \in Procs, x \in Sock : q # "D" \/ x # n => fd'[q][x] = fd[q][x]
      /\ xfer # <<>> /\ xfer' = Tail(xfer) /\ xfer \in Seq(Conns)
  BY ReceiveFdIs DEF Types
<1> HIDE DEF n
<1>2. /\ \A k \in 1..Len(xfer') : k + 1 \in 1..Len(xfer) /\ xfer'[k] = xfer[k + 1]
      /\ 1 \in 1..Len(xfer) /\ Head(xfer) = xfer[1]
  BY <1>1
<1>3. net[Head(xfer)].by # "none" /\ \A k \in 1..Len(xfer') : net[xfer'[k]].by # "none"
  BY <1>2 DEF TablesOwn
<1>4. "U" \in Procs /\ "T" \in Procs /\ "U" # "D" /\ "T" # "D"
  BY DEF Procs
<1>5. \A q \in Procs, s \in Sock :
        fd'[q][s] # NoConn => s \in Numbers[q] /\ net'[fd'[q][s]].by # "none"
  BY <1>1, <1>3 DEF TablesOwn
<1> QED BY <1>1, <1>3, <1>4, <1>5 DEF TablesOwn, Us, Them

LEMMA TablesNext ==
  ASSUME Types, Types', TablesOwn, Next
  PROVE  TablesOwn'
<1>1. ASSUME NEW c \in Conns, Connects(c) PROVE TablesOwn'
  BY <1>1, EntryOwn DEF Connects, Procs, Opens
<1>2. ASSUME NEW c \in Conns, RemoteConnects(c) PROVE TablesOwn'
  BY <1>2, EntryOwn DEF RemoteConnects, Procs, Opens
<1> QED BY <1>1, <1>2, FrameIs, FrameOwn, ReceiveFdOwn

LEMMA SlotsNext ==
  ASSUME Types, Types', TablesOwn, SlotsOwn, Next
  PROVE  SlotsOwn'
<1>s. Own \in Slots /\ \A c \in Conns : c \in Slots /\ c # Own
  BY Constants DEF Slots
<1>1. CASE Frame
  <2>1. /\ sp'[Own].tcp # NoSock => sp'[Own].there /\ sp'[Own].known
        /\ sp'[Own].tcp \in Numbers["D"] \cup {NoSock}
    BY <1>1, <1>s DEF Frame, SlotKept, SlotsOwn, Gone
  <2>2. ASSUME NEW c \in Conns
        PROVE  /\ sp'[c].there => net'[c].by = "them"
               /\ sp'[c].known \/ sp'[c].tcp # NoSock => sp'[c].there
               /\ sp'[c].tcp \in Numbers["U"] \cup {NoSock}
    <3>1. SlotKept(c) /\ net'[c].by = net[c].by
      BY <1>1, <1>s DEF Frame, SameSides
    <3>2. /\ sp[c].there => net[c].by = "them"
          /\ sp[c].known \/ sp[c].tcp # NoSock => sp[c].there
          /\ sp[c].tcp \in Numbers["U"] \cup {NoSock}
      BY DEF SlotsOwn, Them
    <3> QED BY <3>1, <3>2 DEF SlotKept, Gone
  <2> QED BY <2>1, <2>2 DEF SlotsOwn, Them
<1>2. ASSUME ReceiveFd PROVE SlotsOwn'
  BY <1>2, ReceiveFdIs DEF SlotsOwn, Them
<1>3. ASSUME NEW c \in Conns, Connects(c) PROVE SlotsOwn'
  <2>1. \A d \in Conns : net[d].by = "them" => net'[d].by = "them"
    BY <1>3, OpensIs DEF Connects, Opens, Fresh
  <2> QED BY <1>3, <2>1 DEF Connects, SlotsOwn, Them
<1>4. ASSUME NEW c \in Conns, RemoteConnects(c) PROVE SlotsOwn'
  <2>1. net'[c].by = "them" /\ \A d \in Conns : net[d].by = "them" => net'[d].by = "them"
    BY <1>4, OpensIs DEF RemoteConnects, Opens
  <2>2. NextSock("U") \in Numbers["U"]
    BY <1>4, NextSockIs DEF RemoteConnects, Procs
  <2>3. /\ sp'[c] = [there |-> TRUE, known |-> FALSE, tcp |-> NextSock("U")]
        /\ \A i \in Slots \ {c} : sp'[i] = sp[i]
    BY <1>4, <1>s DEF RemoteConnects, Types, Sps
  <2>4. sp'[Own] = sp[Own]
    BY <1>s, <2>3
  <2>5. ASSUME NEW d \in Conns
        PROVE  /\ sp'[d].there => net'[d].by = "them"
               /\ sp'[d].known \/ sp'[d].tcp # NoSock => sp'[d].there
               /\ sp'[d].tcp \in Numbers["U"] \cup {NoSock}
    <3>1. CASE d = c
      BY <2>1, <2>2, <2>3, <3>1
    <3>2. CASE d # c
      BY <1>s, <2>1, <2>3, <3>2 DEF SlotsOwn, Them
    <3> QED BY <3>1, <3>2
  <2> QED BY <2>4, <2>5 DEF SlotsOwn, Them
<1> QED BY <1>1, <1>2, <1>3, <1>4, FrameIs

\* A connection keeps who opened it.
LEMMA SidesKept ==
  ASSUME Types, Next, NEW c \in Conns, net[c].by # "none"
  PROVE  net'[c].by = net[c].by
<1>1. ASSUME NEW d \in Conns, Connects(d) PROVE net'[c].by = net[c].by
  BY <1>1, OpensIs DEF Connects, Opens, Fresh
<1>2. ASSUME NEW d \in Conns, RemoteConnects(d) PROVE net'[c].by = net[c].by
  BY <1>2, OpensIs DEF RemoteConnects, Opens, Fresh
<1> QED BY <1>1, <1>2, FrameIs DEF Frame, SameSides, ReceiveFd

\* The events are as they were, or one of them is another.
LEMMA EventsKept ==
  ASSUME Types, EventsOwn, Next,
         ev'["U"] = ev["U"] \/ ev'["U"].name \notin {"CEA", "I_Rcv_Conn_Ack", "R_Conn_CER", "CEA_Sent"},
         ev'["D"] = ev["D"] \/ ev'["D"].name \notin {"R_Conn_CER", "CEA_Sent"},
         \A c \in Conns : \/ sp'[c].known = sp[c].known /\ sp'[c].tcp = sp[c].tcp
                          \/ ev'["U"].name # "R_Conn_CER"
  PROVE  EventsOwn'
BY SidesKept DEF EventsOwn, Them

LEMMA EventsNext ==
  ASSUME Types, Types', TablesOwn, SlotsOwn, EventsOwn, Next
  PROVE  EventsOwn'
<1>s. Own \in Slots /\ \A c \in Conns : c \in Slots /\ c # Own
  BY Constants DEF Slots
<1>i. Idle.name \notin {"CEA", "I_Rcv_Conn_Ack", "R_Conn_CER", "CEA_Sent"}
  BY Constants DEF Idle, Names
<1>1. ASSUME TimePasses \/ Timer \/ SendMessage PROVE EventsOwn'
  <2>1. UNCHANGED <<ev, sp>>
    BY <1>1 DEF TimePasses, Timer, SendMessage, Start, ConnectFails, Connects, StartReturns,
                WaitTimesOut, WatchdogAsks, WatchdogGivesUp
  <2> QED BY <2>1, EventsKept
<1>2. ASSUME NEW c \in Conns, Remote(c) PROVE EventsOwn'
  <2>1. CASE RemoteCloses(c)
    BY <2>1, EventsKept DEF RemoteCloses
  <2>2. CASE RemoteConnects(c)
    <3>1. ev["U"] = Idle /\ UNCHANGED ev
      BY <2>2 DEF RemoteConnects, SelectsOk
    <3> QED BY <1>i, <3>1, EventsKept
  <2> QED BY <1>2, <2>1, <2>2 DEF Remote
<1>3. ASSUME NEW c \in Conns, NEW ok \in CommonApps, ReceiveCER(c, ok) PROVE EventsOwn'
  <2> DEFINE e == [name |-> "R_Conn_CER", slot |-> c, ok |-> ok]
  <2>1. e \in Events /\ e.name = "R_Conn_CER" /\ e.slot = c
    BY <1>s, PeerAssumption DEF Events
  <2>2. ev' = [ev EXCEPT !["U"] = e]
    BY <1>3 DEF ReceiveCER
  <2> HIDE DEF e
  <2>3. ev'["U"] = e /\ ev'["D"] = ev["D"]
    BY <2>1, <2>2, NewEventIs
  <2>4. sp[c].there /\ sp[c].tcp # NoSock
    BY <1>3 DEF ReceiveCER, Reads
  <2>5. sp'[c].known /\ sp'[c].tcp # NoSock
    BY <1>3, <1>s, <2>4 DEF ReceiveCER, Types, Sps
  <2>6. net[c].by = "them" /\ net'[c].by = "them"
    BY <2>4, SidesKept DEF SlotsOwn, Them
  <2> QED BY <2>1, <2>3, <2>5, <2>6 DEF EventsOwn, Them
<1>4. ASSUME NEW c \in Conns, NEW i \in {Own, c}, Messages(i, c) PROVE EventsOwn'
  <2>1. /\ UNCHANGED sp /\ fd[Owner(i)][sp[i].tcp] = c /\ sp[i].tcp # NoSock
        /\ \/ UNCHANGED ev
           \/ /\ \A o \in {"D", "U"} \ {Owner(i)} : ev'[o] = ev[o]
              /\ \/ ev'[Owner(i)].name \in {"Non_CEA", "DWA", "DPR"}
                 \/ ev'[Owner(i)].name = "CEA" /\ \E ok \in BOOLEAN : ReceiveCEA(i, c, ok)
    BY <1>4, MessagesAre
  <2>2. Owner(i) \in {"D", "U"}
    BY DEF Owner
  <2>3. ASSUME NEW ok \in BOOLEAN, ReceiveCEA(i, c, ok), ev'[Owner(i)].name = "CEA"
        PROVE  Owner(i) = "D"
    <3>1. net[c].by = "us"
      BY <2>3 DEF ReceiveCEA
    <3>2. sp[i].tcp \in Sock
      BY <2>1, <1>s DEF Types, Sps
    <3>3. Owner(i) # "U"
      BY <2>1, <3>1, <3>2, Constants DEF TablesOwn, Them
    <3> QED BY <2>2, <3>3
  <2>4. CASE UNCHANGED ev
    BY <2>1, <2>4, EventsKept
  <2>5. CASE /\ \A o \in {"D", "U"} \ {Owner(i)} : ev'[o] = ev[o]
             /\ ev'[Owner(i)].name \in {"Non_CEA", "DWA", "DPR"}
    BY <2>1, <2>2, <2>5, EventsKept
  <2>6. CASE /\ \A o \in {"D", "U"} \ {Owner(i)} : ev'[o] = ev[o]
             /\ ev'[Owner(i)].name = "CEA" /\ \E ok \in BOOLEAN : ReceiveCEA(i, c, ok)
    <3>1. Owner(i) = "D"
      BY <2>3, <2>6
    <3>2. ev'["D"].name = "CEA" /\ ev'["U"] = ev["U"]
      BY <2>6, <3>1
    <3> QED BY <2>1, <3>2, EventsKept
  <2> QED BY <2>1, <2>4, <2>5, <2>6
<1>5. ASSUME NEW c \in Conns, NEW i \in {Own, c}, ReadFails(i, c) PROVE EventsOwn'
  <2> DEFINE e == [name |-> "Disconnect", slots |-> {i}]
  <2>1. e \in Events /\ e.name = "Disconnect" /\ Owner(i) \in {"D", "U"}
    BY <1>s DEF Events, Owner
  <2>2. ev' = [ev EXCEPT ![Owner(i)] = e] /\ UNCHANGED sp
    BY <1>5 DEF ReadFails
  <2> HIDE DEF e
  <2>3. ev'[Owner(i)] = e /\ \A o \in {"D", "U"} \ {Owner(i)} : ev'[o] = ev[o]
    BY <2>1, <2>2, NewEventIs
  <2> QED BY <2>1, <2>2, <2>3, EventsKept
<1>6. ASSUME NEW r \in {"D", "U"}, Reacts(r) PROVE EventsOwn'
  <2>1. UNCHANGED sp
    BY <1>6 DEF Reacts, SelectFails, CEA, NonCEA, DWA, DPR, Overtaken
  <2>2. /\ \A o \in {"D", "U"} \ {r} : ev'[o] = ev[o]
        /\ ev'[r].name \notin {"CEA", "I_Rcv_Conn_Ack", "R_Conn_CER", "CEA_Sent"}
    <3>1. CASE SelectFails(r)
      <4> DEFINE e == [name |-> "Disconnect", slots |-> {i \in Slots : Owner(i) = r /\ sp[i].there}]
      <4>1. e \in Events /\ e.name = "Disconnect"
        BY DEF Events
      <4>2. ev' = [ev EXCEPT ![r] = e]
        BY <3>1 DEF SelectFails
      <4> HIDE DEF e
      <4> QED BY <4>1, <4>2, NewEventIs
    <3>2. CASE CEA(r) \/ NonCEA(r) \/ DWA(r) \/ DPR(r) \/ Overtaken(r)
      BY <1>i, <3>2, HandledIs DEF CEA, NonCEA, DWA, DPR, Overtaken
    <3> QED BY <1>6, <3>1, <3>2 DEF Reacts
  <2> QED BY <2>1, <2>2, EventsKept
<1>7. ASSUME NEW r \in {"D", "U"}, NEW i \in Slots, Owner(i) = r, Disconnect(r, i) PROVE EventsOwn'
  <2>1. /\ \A o \in {"D", "U"} \ {r} : ev'[o] = ev[o]
        /\ ev'[r].name \notin {"CEA", "I_Rcv_Conn_Ack", "R_Conn_CER", "CEA_Sent"}
    BY <1>i, <1>7, DisconnectLeaves
  <2>2. \A j \in Slots \ {i} : sp'[j] = sp[j]
    BY <1>7, DisconnectLeaves
  <2>3. \A c \in Conns : c # i => sp'[c] = sp[c]
    BY <1>s, <2>2
  <2>4. r # "U" => i \notin Conns
    BY <1>7, <1>s DEF Owner
  <2> QED BY <2>1, <2>3, <2>4, EventsKept
<1>8. ASSUME HandsOver, ~Disconnect("D", Own) PROVE EventsOwn'
  <2>1. CASE ReceiveFd
    BY <2>1, ReceiveFdIs, EventsKept
  <2>2. CASE ConnAck \/ ConnAckLoses \/ ConnAckIgnored
    BY <1>i, <2>2, HandledIs, EventsKept DEF ConnAck, ConnAckLoses, ConnAckIgnored
  <2>3. CASE ConnAckWins
    <3>1. ev'["D"] = Idle /\ ev'["U"] = ev["U"]
      BY <2>3, HandledIs DEF ConnAckWins
    <3>2. \A c \in Conns : sp'[c] = sp[c]
      <4>1. PICK h \in Boths : Answered(h, "D", p.R, TRUE, TRUE) \/ NotAnswered(h, "D", p.R, TRUE)
        BY <2>3, ConnAckWinsIs
      <4> QED BY <4>1 DEF Answered, NotAnswered
    <3> QED BY <1>i, <3>1, <3>2, EventsKept
  <2> QED BY <1>8, <2>1, <2>2, <2>3 DEF HandsOver
<1>9. ASSUME (\E c \in Conns : ConnCERKept(c) \/ ConnCERRejected(c)) \/ CEASent PROVE EventsOwn'
  BY <1>i, <1>9, HandledIs, EventsKept DEF ConnCERKept, ConnCERRejected, CEASent
<1>10. ASSUME NEW c \in Conns, ConnCERAnswered(c) PROVE EventsOwn'
  <2>1. ev["U"].name = "R_Conn_CER" /\ ev' = [ev EXCEPT !["U"].name = "CEA_Sent"]
    BY <1>10 DEF ConnCERAnswered, Locked
  <2>2. ev'["D"] = ev["D"] /\ ev'["U"].name = "CEA_Sent" /\ ev'["U"].slot = ev["U"].slot
    BY <2>1, AnswerSent
  <2> QED BY <2>1, <2>2, SidesKept DEF EventsOwn, Them
<1>11. \A c \in Conns : Owner(c) = "U"
  BY <1>s DEF Owner
<1>12. ASSUME NEW c \in Conns, Arrives(c) PROVE EventsOwn'
  BY <1>12, <1>2, <1>3, <1>4, <1>5 DEF Arrives
<1>13. ASSUME NEW c \in Conns, Accepts(c) PROVE EventsOwn'
  BY <1>13, <1>7, <1>9, <1>10, <1>11, <1>s DEF Accepts
<1>14. ASSUME HandsOver PROVE EventsOwn'
  BY <1>14, <1>7, <1>8, <1>s DEF Owner
<1> QED BY <1>1, <1>6, <1>9, <1>12, <1>13, <1>14, NextIs

-----------------------------------------------------------------------------
(* The steps by what they change.                                           *)

PeerSame == /\ p'.state = p.state /\ p'.I = p.I /\ p'.R = p.R /\ p'.r_cer = p.r_cer
            /\ lock' = lock

LEMMA PeerSteps ==
  ASSUME Types, Next
  PROVE  \/ PeerSame
         \/ Start \/ ConnectFails \/ (\E c \in Conns : Connects(c)) \/ StartReturns
         \/ WaitTimesOut \/ WatchdogGivesUp \/ ReceiveFd
         \/ Disconnect("D", Own) \/ ConnAck \/ ConnAckWins \/ ConnAckLoses \/ CEASent
         \/ \E c \in Conns : Disconnect("U", c) \/ ConnCERAnswered(c) \/ ConnCERKept(c)
         \/ \E r \in {"D", "U"} : CEA(r) \/ NonCEA(r) \/ DPR(r)
<1>p. p \in PeerT
  BY DEF Types
<1>1. TimePasses \/ SendMessage \/ ConnAckIgnored => PeerSame
  BY DEF TimePasses, SendMessage, ConnAckIgnored, PeerSame
<1>2. WatchdogAsks => PeerSame
  BY <1>p DEF WatchdogAsks, PeerSame, PeerT
<1>3. ASSUME NEW c \in Conns, Arrives(c) PROVE PeerSame
  <2>1. Remote(c) => PeerSame
    BY DEF Remote, RemoteConnects, RemoteCloses, PeerSame
  <2>2. ASSUME NEW ok \in CommonApps, ReceiveCER(c, ok) PROVE PeerSame
    BY <1>p, <2>2 DEF ReceiveCER, PeerSame, PeerT
  <2>3. ASSUME NEW i \in {Own, c}, Messages(i, c) PROVE PeerSame
    BY <2>3, MessagesAre DEF PeerSame
  <2>4. ASSUME NEW i \in {Own, c}, ReadFails(i, c) PROVE PeerSame
    BY <2>4 DEF ReadFails, PeerSame
  <2> QED BY <1>3, <2>1, <2>2, <2>3, <2>4 DEF Arrives
<1>4. ASSUME NEW r \in {"D", "U"}, SelectFails(r) \/ DWA(r) \/ Overtaken(r) PROVE PeerSame
  BY <1>p, <1>4 DEF SelectFails, DWA, Overtaken, PeerSame, PeerT
<1>5. ASSUME NEW c \in Conns, ConnCERRejected(c) PROVE PeerSame
  BY <1>5 DEF ConnCERRejected, PeerSame
<1> QED BY <1>1, <1>2, <1>3, <1>4, <1>5, NextIs DEF Timer, HandsOver, Accepts, Reacts

\* U's answer of a CER, and D's acknowledgement of a connection, are events only these
\* steps begin or end.
LEMMA EventsUnder ==
  ASSUME Types, NEW r \in {"D", "U"}, NEW e \in Events, ev' = [ev EXCEPT ![r] = e],
         ev[r] = Idle \/ ev[r].name \in {"CEA", "Non_CEA", "DWA", "DPR"},
         e = Idle \/ e.name \in {"Non_CEA", "DWA", "DPR", "Disconnect"}
  PROVE  /\ \/ ev'["U"] = ev["U"]
            \/ ev["U"].name \notin {"R_Conn_CER", "CEA_Sent"} /\ ev'["U"].name # "CEA_Sent"
         /\ \/ ev'["D"] = ev["D"]
            \/ ev["D"].name # "I_Rcv_Conn_Ack" /\ ev'["D"].name \notin {"I_Rcv_Conn_Ack", "CEA"}
BY NewEventIs, Constants DEF Idle, Names

LEMMA EventSteps ==
  ASSUME Types, Next
  PROVE  /\ \/ ev'["U"] = ev["U"]
            \/ ev["U"].name \notin {"R_Conn_CER", "CEA_Sent"} /\ ev'["U"].name # "CEA_Sent"
            \/ CEASent \/ \E c \in Conns : ConnCERAnswered(c) \/ ConnCERKept(c) \/ ConnCERRejected(c)
         /\ \/ ev'["D"] = ev["D"]
            \/ ev["D"].name # "I_Rcv_Conn_Ack" /\ ev'["D"].name \notin {"I_Rcv_Conn_Ack", "CEA"}
            \/ ReceiveFd \/ ConnAck \/ ConnAckWins \/ ConnAckLoses \/ ConnAckIgnored
            \/ \E c \in Conns, i \in Slots, ok \in BOOLEAN :
                 ReceiveCEA(i, c, ok) /\ ev'["D"].name = "CEA" /\ ev'["D"].ok = ok /\ Owner(i) = "D"
<1> DEFINE A == \/ ev'["U"] = ev["U"]
                \/ ev["U"].name \notin {"R_Conn_CER", "CEA_Sent"} /\ ev'["U"].name # "CEA_Sent"
           B == \/ ev'["D"] = ev["D"]
                \/ ev["D"].name # "I_Rcv_Conn_Ack" /\ ev'["D"].name \notin {"I_Rcv_Conn_Ack", "CEA"}
           C == \E c \in Conns, i \in Slots, ok \in BOOLEAN :
                  ReceiveCEA(i, c, ok) /\ ev'["D"].name = "CEA" /\ ev'["D"].ok = ok /\ Owner(i) = "D"
<1>s. Own \in Slots /\ \A c \in Conns : c \in Slots /\ c # Own
  BY Constants DEF Slots
<1>i. Idle \in Events /\ Idle.name \notin Names
  BY Constants DEF Events, Idle
<1>0. ASSUME UNCHANGED ev PROVE A /\ B
  BY <1>0
<1>1. ASSUME TimePasses \/ Timer \/ SendMessage PROVE A /\ B
  BY <1>1 DEF TimePasses, Timer, SendMessage, Start, ConnectFails, Connects, StartReturns,
              WaitTimesOut, WatchdogAsks, WatchdogGivesUp
<1>2. ASSUME NEW c \in Conns, Arrives(c) PROVE A /\ (B \/ C)
  <2>1. CASE Remote(c)
    BY <2>1 DEF Remote, RemoteConnects, RemoteCloses
  <2>2. ASSUME NEW ok \in CommonApps, ReceiveCER(c, ok) PROVE A /\ B
    <3> DEFINE e == [name |-> "R_Conn_CER", slot |-> c, ok |-> ok]
    <3>1. e \in Events /\ e.name = "R_Conn_CER"
      BY <1>s, PeerAssumption DEF Events
    <3>2. ev' = [ev EXCEPT !["U"] = e] /\ ev["U"] = Idle
      BY <2>2, <1>s DEF ReceiveCER, Reads, SelectsOk, Owner
    <3> HIDE DEF e
    <3>3. ev'["U"] = e /\ ev'["D"] = ev["D"]
      BY <3>1, <3>2, NewEventIs
    <3> QED BY <1>i, <3>1, <3>2, <3>3 DEF Names
  <2>3. ASSUME NEW i \in {Own, c}, Messages(i, c) PROVE A /\ (B \/ C)
    <3>1. /\ Owner(i) \in {"D", "U"} /\ ev[Owner(i)] = Idle /\ i \in Slots
          /\ \/ UNCHANGED ev
             \/ /\ \A o \in {"D", "U"} \ {Owner(i)} : ev'[o] = ev[o]
                /\ \/ ev'[Owner(i)].name \in {"Non_CEA", "DWA", "DPR"}
                   \/ \E ok \in BOOLEAN : ReceiveCEA(i, c, ok) /\ ev'[Owner(i)].name = "CEA"
                                           /\ ev'[Owner(i)].ok = ok
      BY <1>s, <2>3, MessagesAre DEF Owner
    <3>2. CASE Owner(i) = "U"
      BY <1>i, <3>1, <3>2 DEF Names
    <3>3. CASE Owner(i) = "D"
      BY <1>i, <3>1, <3>3 DEF Names
    <3> QED BY <3>1, <3>2, <3>3
  <2>4. ASSUME NEW i \in {Own, c}, ReadFails(i, c) PROVE A /\ B
    <3> DEFINE e == [name |-> "Disconnect", slots |-> {i}]
    <3>1. e \in Events /\ e.name = "Disconnect" /\ Owner(i) \in {"D", "U"}
      BY <1>s DEF Events, Owner
    <3>2. ev' = [ev EXCEPT ![Owner(i)] = e] /\ ev[Owner(i)] = Idle
      BY <2>4 DEF ReadFails, Reads, SelectsOk
    <3> HIDE DEF e
    <3> QED BY <3>1, <3>2, EventsUnder
  <2> QED BY <1>2, <2>1, <2>2, <2>3, <2>4 DEF Arrives
<1>3. ASSUME NEW r \in {"D", "U"}, Reacts(r) PROVE A /\ B
  <2>1. CASE SelectFails(r)
    <3> DEFINE e == [name |-> "Disconnect", slots |-> {i \in Slots : Owner(i) = r /\ sp[i].there}]
    <3>1. e \in Events /\ e.name = "Disconnect"
      BY DEF Events
    <3>2. ev' = [ev EXCEPT ![r] = e] /\ ev[r] = Idle
      BY <2>1 DEF SelectFails
    <3> HIDE DEF e
    <3> QED BY <3>1, <3>2, EventsUnder
  <2>2. CASE CEA(r) \/ NonCEA(r) \/ DWA(r) \/ DPR(r) \/ Overtaken(r)
    <3>1. ev' = [ev EXCEPT ![r] = Idle] /\ ev[r].name \in {"CEA", "Non_CEA", "DWA", "DPR"}
      BY <2>2 DEF CEA, NonCEA, DWA, DPR, Overtaken, Handled, Locked
    <3> QED BY <1>i, <3>1, EventsUnder
  <2> QED BY <1>3, <2>1, <2>2 DEF Reacts
<1>4. ASSUME NEW r \in {"D", "U"}, NEW i \in Slots, Disconnect(r, i) PROVE A /\ B
  <2>1. /\ \A o \in {"D", "U"} \ {r} : ev'[o] = ev[o]
        /\ ev[r].name = "Disconnect" /\ (ev'[r] = Idle \/ ev'[r].name = "Disconnect")
    BY <1>4, DisconnectLeaves
  <2> QED BY <1>i, <2>1 DEF Names
<1>5. ASSUME ReceiveFd \/ ConnAck \/ ConnAckWins \/ ConnAckLoses \/ ConnAckIgnored PROVE A
  BY <1>5, ReceiveFdIs, HandledIs DEF ConnAck, ConnAckWins, ConnAckLoses, ConnAckIgnored
<1>6. ASSUME NEW c \in Conns, ConnCERAnswered(c) PROVE B
  BY <1>6, AnswerSent DEF ConnCERAnswered, Locked
<1>7. ASSUME (\E c \in Conns : ConnCERKept(c) \/ ConnCERRejected(c)) \/ CEASent PROVE B
  BY <1>7, HandledIs DEF ConnCERKept, ConnCERRejected, CEASent
<1> HIDE DEF A, B, C
<1>8. \/ A /\ (B \/ C)
      \/ A /\ (ReceiveFd \/ ConnAck \/ ConnAckWins \/ ConnAckLoses \/ ConnAckIgnored)
      \/ B /\ (CEASent \/ \E c \in Conns : ConnCERAnswered(c) \/ ConnCERKept(c) \/ ConnCERRejected(c))
  <2>1. ASSUME HandsOver
        PROVE  \/ A /\ B
               \/ A /\ (ReceiveFd \/ ConnAck \/ ConnAckWins \/ ConnAckLoses \/ ConnAckIgnored)
    BY <1>4, <1>5, <1>s, <2>1 DEF HandsOver
  <2>2. ASSUME NEW c \in Conns, Accepts(c)
        PROVE  \/ A /\ B
               \/ B /\ (ConnCERAnswered(c) \/ ConnCERKept(c) \/ ConnCERRejected(c))
    BY <1>4, <1>6, <1>7, <1>s, <2>2 DEF Accepts
  <2> QED BY <1>1, <1>2, <1>3, <1>7, <2>1, <2>2, NextIs
<1> QED BY <1>8 DEF A, B, C

-----------------------------------------------------------------------------
(* The lock, and what the peer's state says of its sockets.                 *)

\* The timer connects in Wait_Conn_Ack; U answers a CER in the states that answer at once,
\* and an accepted one only when the initiated socket was given up.
LockState ==
  /\ lock \in {"T_connects", "T_connected"} => p.state = "Wait_Conn_Ack"
  /\ lock = "U" <=> ev["U"].name = "CEA_Sent"
  /\ lock = "U" => /\ p.state \in {"Closed", "Wait_I_CEA", "Wait_Returns"}
                   /\ ev["U"].ok => p.I = NoSock

\* A peer that is Closed or open as receiver has no initiated socket, one that awaits the
\* acknowledgement has one unless the timer still connects; the election has its CER.
Roles ==
  /\ p.state \in {"Closed", "R_Open"} => p.I = NoSock
  /\ lock = None /\ p.state \in {"Wait_Conn_Ack", "Wait_Conn_Ack_Elect"} => p.I # NoSock
  /\ p.state = "Wait_Conn_Ack_Elect" => p.r_cer
  /\ p.I \in Numbers["T"] \cup Numbers["D"] \cup {NoSock}

LEMMA RolesInit ==
  Init => LockState /\ Roles
BY Constants DEF Init, LockState, Roles, Idle, Names, Locks

\* The answer of a CER stays the event of U while it has the lock.
LEMMA AnswerKept ==
  ASSUME Types, Next, ~CEASent, \A c \in Conns : ~ConnCERAnswered(c)
  PROVE  /\ ev'["U"].name = "CEA_Sent" <=> ev["U"].name = "CEA_Sent"
         /\ ev["U"].name = "CEA_Sent" => ev'["U"] = ev["U"]
<1>1. ASSUME NEW c \in Conns, ConnCERKept(c) \/ ConnCERRejected(c)
      PROVE  ev["U"].name = "R_Conn_CER" /\ ev'["U"] = Idle
  BY <1>1, HandledIs DEF ConnCERKept, ConnCERRejected, Locked
<1>2. Idle.name # "CEA_Sent"
  BY Constants DEF Idle, Names
<1> QED BY <1>1, <1>2, EventSteps

LEMMA RolesNext ==
  ASSUME Types, Types', TablesOwn, LockState, Roles, Next
  PROVE  LockState' /\ Roles'
<1>n. None \notin Locks /\ NoSock \notin Sock
  BY Constants
<1>k. ~CEASent /\ (\A c \in Conns : ~ConnCERAnswered(c)) =>
        /\ ev'["U"].name = "CEA_Sent" <=> ev["U"].name = "CEA_Sent"
        /\ ev["U"].name = "CEA_Sent" => ev'["U"] = ev["U"]
  BY AnswerKept
<1>u. /\ CEASent => lock = "U"
      /\ \A c \in Conns : ConnCERAnswered(c) => lock = None /\ p.state \in {"Closed", "Wait_I_CEA"}
  BY DEF CEASent, ConnCERAnswered, Locked
<1>l. {"U", "T_connects", "T_connected"} = Locks
  BY DEF Locks
<1> DEFINE Done == LockState' /\ Roles'
<1>1. ASSUME PeerSame PROVE Done
  <2>1. ~CEASent /\ \A c \in Conns : ~ConnCERAnswered(c)
    BY <1>1, <1>n, <1>l DEF PeerSame, CEASent, ConnCERAnswered, Locked
  <2> QED BY <1>1, <1>k, <2>1 DEF PeerSame, LockState, Roles
<1>2. ASSUME Start PROVE Done
  <2>1. Becomes("T", "Wait_Conn_Ack", NoSock, p.R, p.r_cer) /\ lock = None /\ lock' = "T_connects"
    BY <1>2, StartIs DEF Start, TimerSees
  <2>2. ~CEASent /\ \A c \in Conns : ~ConnCERAnswered(c)
    BY <1>n, <1>l, <2>1 DEF CEASent, ConnCERAnswered
  <2> QED BY <1>k, <1>n, <1>l, <2>1, <2>2 DEF Becomes, LockState, Roles
<1>3. ASSUME ConnectFails PROVE Done
  <2>1. /\ p'.state = "Closed" /\ p'.I = NoSock /\ p'.r_cer = p.r_cer
        /\ lock = "T_connects" /\ lock' = None
    BY <1>3 DEF ConnectFails, Types, PeerT
  <2>2. ~CEASent /\ \A c \in Conns : ~ConnCERAnswered(c)
    BY <1>n, <1>l, <2>1 DEF CEASent, ConnCERAnswered, Locked
  <2> QED BY <1>k, <1>n, <1>l, <2>1, <2>2 DEF LockState, Roles
<1>4. ASSUME NEW c \in Conns, Connects(c) PROVE Done
  <2>1. p' = p /\ lock = "T_connects" /\ lock' = "T_connected"
    BY <1>4 DEF Connects
  <2>2. ~CEASent /\ \A d \in Conns : ~ConnCERAnswered(d)
    BY <1>n, <1>l, <2>1 DEF CEASent, ConnCERAnswered, Locked
  <2> QED BY <1>k, <1>n, <1>l, <2>1, <2>2 DEF LockState, Roles
<1>5. ASSUME StartReturns PROVE Done
  <2>1. PICK s \in Sock : fd["T"][s] # NoConn /\ p' = [p EXCEPT !.I = s]
    BY <1>5 DEF StartReturns
  <2>2. /\ p'.state = p.state /\ p'.I = s /\ p'.r_cer = p.r_cer /\ s \in Numbers["T"]
        /\ lock = "T_connected" /\ lock' = None
    BY <1>5, <2>1 DEF StartReturns, Types, PeerT, TablesOwn, Procs
  <2>3. ~CEASent /\ \A c \in Conns : ~ConnCERAnswered(c)
    BY <1>n, <1>l, <2>2 DEF CEASent, ConnCERAnswered, Locked
  <2> QED BY <1>k, <1>n, <1>l, <2>2, <2>3 DEF LockState, Roles
<1>6. ASSUME NEW I, NEW R, NEW q, NEW x, Becomes(q, x, I, R, p.r_cer), lock = None, lock' = None,
             I \in {p.I, NoSock}, x \in {"Closed", "R_Open"} => I = NoSock,
             x \in {"Wait_Conn_Ack", "Wait_Conn_Ack_Elect"} => I # NoSock,
             x = "Wait_Conn_Ack_Elect" => p.r_cer, \A c \in Conns : ~ConnCERAnswered(c)
      PROVE  Done
  <2>1. ~CEASent
    BY <1>6, <1>n, <1>l, <1>u
  <2> QED BY <1>6, <1>k, <1>n, <1>l, <2>1 DEF Becomes, LockState, Roles
<1>7. ASSUME WaitTimesOut \/ WatchdogGivesUp PROVE Done
  <2>1. lock = None /\ lock' = None /\ ev' = ev
    BY <1>7 DEF WaitTimesOut, WatchdogGivesUp, TimerSees
  <2>2. \A c \in Conns : ~ConnCERAnswered(c)
    BY <1>n, <1>l, <2>1 DEF ConnCERAnswered
  <2>3. CASE WaitTimesOut
    BY <1>6, <2>1, <2>2, <2>3, WaitTimesOutIs
  <2>4. CASE WatchdogGivesUp
    <3>1. p.state = "R_Open" => p.I = NoSock
      BY DEF Roles
    <3> QED BY <1>6, <2>1, <2>2, <2>4, <3>1, WatchdogGivesUpIs
  <2> QED BY <1>7, <2>3, <2>4
<1>8. ASSUME ReceiveFd PROVE Done
  <2> DEFINE s == NextSock("D")
  <2>1. /\ s \in Numbers["D"] /\ s \in Sock /\ lock' = lock /\ ev'["U"] = ev["U"]
        /\ p'.state = p.state /\ p'.r_cer = p.r_cer
        /\ \/ p.state = "Wait_Conn_Ack" /\ p'.I = s
           \/ p.state # "Wait_Conn_Ack" /\ p'.I = p.I
    BY <1>8, ReceiveFdIs
  <2> HIDE DEF s
  <2> QED BY <1>n, <2>1 DEF LockState, Roles
<1>9. ASSUME NEW r \in {"D", "U"}, NEW i \in Slots, Disconnect(r, i) PROVE Done
  <2>1. lock = None /\ lock' = None
    BY <1>9, DisconnectLeaves
  <2>2. \A c \in Conns : ~ConnCERAnswered(c)
    BY <1>n, <1>l, <2>1 DEF ConnCERAnswered
  <2>3. CASE ~sp[i].known
    <3>1. PeerSame
      BY <1>9, <2>1, <2>3, DisconnectIs DEF PeerSame
    <3> QED BY <1>1, <3>1
  <2>4. CASE sp[i].known
    <3> DEFINE s == sp[i].tcp
    <3>1. Becomes(r, EndState(Both, s), EndI(Both, s), EndR(Both, s), p.r_cer)
      BY <1>9, <2>4, DisconnectIs
    <3> HIDE DEF s
    <3>2. /\ EndI(Both, s) \in {p.I, NoSock}
          /\ EndState(Both, s) \in {"Closed", "R_Open"} => EndI(Both, s) = NoSock
          /\ EndState(Both, s) \in {"Wait_Conn_Ack", "Wait_Conn_Ack_Elect"} => EndI(Both, s) # NoSock
          /\ EndState(Both, s) = "Wait_Conn_Ack_Elect" => p.r_cer
      BY <2>1, BothIs DEF EndState, MidState, EndI, Roles
    <3> QED BY <1>6, <2>1, <2>2, <3>1, <3>2
  <2> QED BY <2>3, <2>4
<1>10. ASSUME ConnAck \/ ConnAckLoses PROVE Done
  <2>1. /\ lock = None /\ lock' = None /\ p'.state \in {"Wait_I_CEA", "Wait_Returns"} /\ p'.I = p.I
    BY <1>10 DEF ConnAck, ConnAckLoses, Locked, Types, PeerT
  <2>2. ~CEASent /\ \A c \in Conns : ~ConnCERAnswered(c)
    BY <1>n, <1>l, <2>1 DEF CEASent, ConnCERAnswered
  <2> QED BY <1>k, <1>n, <1>l, <2>1, <2>2 DEF LockState, Roles
<1>11. ASSUME ConnAckWins PROVE Done
  <2>1. lock = None /\ lock' = None
    BY <1>11 DEF ConnAckWins, Locked
  <2>2. p'.state = "R_Open" /\ p'.I = NoSock
    BY <1>11, ConnAckWinsIs DEF Answered, NotAnswered, Becomes, EndI
  <2>3. ~CEASent /\ \A c \in Conns : ~ConnCERAnswered(c)
    BY <1>n, <1>l, <2>1 DEF CEASent, ConnCERAnswered
  <2> QED BY <1>k, <1>n, <1>l, <2>1, <2>2, <2>3 DEF LockState, Roles
<1>12. ASSUME CEASent PROVE Done
  <2>1. lock = "U" /\ lock' = None /\ ev'["U"] = Idle
    BY <1>12, HandledIs DEF CEASent
  <2>2. p'.state \in {"Closed", "R_Open"} /\ p'.I = NoSock
    BY <1>12, <2>1, CEASentIs DEF Becomes, LockState, Roles
  <2>3. Idle.name # "CEA_Sent"
    BY Constants DEF Idle, Names
  <2> QED BY <1>n, <1>l, <2>1, <2>2, <2>3 DEF LockState, Roles
<1>13. ASSUME NEW c \in Conns, ConnCERAnswered(c) PROVE Done
  <2>1. /\ lock = None /\ lock' = "U" /\ p.state \in {"Closed", "Wait_I_CEA"}
        /\ ev["U"].name = "R_Conn_CER" /\ ev' = [ev EXCEPT !["U"].name = "CEA_Sent"]
    BY <1>13 DEF ConnCERAnswered, Locked
  <2>2. ev'["U"].name = "CEA_Sent" /\ ev'["U"].ok = ev["U"].ok
    BY <2>1, AnswerSent
  <2>3. PICK h \in Boths :
          /\ \/ p.state = "Wait_I_CEA" /\ ev["U"].ok /\ h.p.state = "Wait_Returns" /\ h.p.I = NoSock
             \/ ~(p.state = "Wait_I_CEA" /\ ev["U"].ok) /\ h.p.state = p.state /\ h.p.I = p.I
          /\ \/ Answered(h, "U", sp[c].tcp, ev["U"].ok, FALSE)
             \/ NotAnswered(h, "U", sp[c].tcp, FALSE)
    BY <1>13, ConnCERAnsweredIs
  <2>4. \/ p'.state = h.p.state /\ p'.I = h.p.I
        \/ p'.state = EndState(h, sp[c].tcp) /\ p'.I = EndI(h, sp[c].tcp)
    BY <2>3 DEF Answered, NotAnswered, Becomes
  <2>5. /\ p'.state \in {"Closed", "Wait_I_CEA", "Wait_Returns"} /\ p'.I \in {p.I, NoSock}
        /\ p'.state = "Closed" => p'.I = NoSock
        /\ ev["U"].ok => p'.I = NoSock
    BY <2>1, <2>3, <2>4 DEF EndState, MidState, EndI, Roles
  <2> QED BY <1>n, <1>l, <2>1, <2>2, <2>5 DEF LockState, Roles
<1>14. ASSUME NEW c \in Conns, ConnCERKept(c) PROVE Done
  <2>1. lock = None /\ lock' = None /\ p.state = "Wait_Conn_Ack"
    BY <1>14 DEF ConnCERKept, Locked
  <2>2. ~CEASent /\ \A d \in Conns : ~ConnCERAnswered(d)
    BY <1>n, <1>l, <2>1 DEF CEASent, ConnCERAnswered
  <2>3. \/ p'.state = "Wait_Conn_Ack_Elect" /\ p'.I = p.I /\ p'.r_cer = TRUE
        \/ p'.state = "Closed" /\ p'.I = NoSock
    BY <1>14, ConnCERKeptIs DEF Becomes
  <2> QED BY <1>k, <1>n, <1>l, <2>1, <2>2, <2>3 DEF LockState, Roles
<1>15. ASSUME NEW r \in {"D", "U"}, CEA(r) \/ NonCEA(r) \/ DPR(r) PROVE Done
  <2>1. lock = None /\ lock' = None
    BY <1>15 DEF CEA, NonCEA, DPR, Locked
  <2>2. \A c \in Conns : ~ConnCERAnswered(c)
    BY <1>n, <1>l, <2>1 DEF ConnCERAnswered
  <2>3. CASE CEA(r)
    BY <1>6, <2>1, <2>2, <2>3, CEAIs
  <2>4. CASE NonCEA(r)
    BY <1>6, <2>1, <2>2, <2>4, NonCEAIs
  <2>5. CASE DPR(r)
    <3>1. p.state \in Open
      BY <2>5, EventIs DEF DPR, Locked
    <3>2. p.state # "I_Open" => p.I = NoSock
      BY <3>1 DEF Open, Roles
    <3> QED BY <1>6, <2>1, <2>2, <2>5, <3>2, DPRIs
  <2> QED BY <1>15, <2>3, <2>4, <2>5
<1> QED
  BY <1>1, <1>2, <1>3, <1>4, <1>5, <1>7, <1>8, <1>9, <1>10, <1>11, <1>12, <1>13, <1>14, <1>15,
     PeerSteps DEF Slots

-----------------------------------------------------------------------------
(* Only one side dials.                                                     *)

\* Then this node alone never comes to an election, and the acknowledgement it awaits is
\* on its way;
OnlyUs ==
  /\ p.state = "Wait_Conn_Ack_Elect" => ~OneDials("us")
  /\ p.state = "Wait_Conn_Ack" /\ OneDials("us") /\ lock \in {None, "T_connected"} =>
       xfer # <<>> \/ ev["D"].name = "I_Rcv_Conn_Ack"

\* the remote peer alone finds this one Closed, open, or connecting in vain, and the
\* socket the peer is open on is in a slot unless its descriptor is on its way to D.
Reads_R(i) == sp[i].there /\ sp[i].known /\ sp[i].tcp = p.R
OnlyThem ==
  OneDials("them") =>
    /\ \/ p.state \in {"Closed", "R_Open"}
       \/ p.state = "Wait_Conn_Ack" /\ lock = "T_connects"
    /\ xfer = <<>> /\ (p.state = "R_Open" \/ (lock = "U" /\ ev["U"].ok)) =>
         p.R # NoSock /\ \E i \in Slots : Reads_R(i)

LEMMA SidesInit ==
  Init => OnlyUs /\ OnlyThem
BY Constants DEF Init, OnlyUs, OnlyThem, Locks

LEMMA OneDialsStays ==
  ASSUME Types, Next, NEW side \in {"us", "them"}, OneDials(side)'
  PROVE  OneDials(side)
<1>1. \A c \in Conns : net[c].by \in {"none", "us", "them"} /\ net'[c].by \in {"none", side}
  BY DEF Types, Nets, OneDials
<1> QED BY <1>1, SidesKept DEF OneDials

LEMMA StateSteps ==
  ASSUME Types, Next
  PROVE  /\ p'.state = "Wait_Conn_Ack_Elect" =>
              p.state = "Wait_Conn_Ack_Elect" \/ \E c \in Conns : ConnCERKept(c)
         /\ p'.state = "Wait_Conn_Ack" =>
              p.state \in {"Wait_Conn_Ack", "Wait_Conn_Ack_Elect"} \/ lock' = "T_connects"
<1> DEFINE Done == /\ p'.state = "Wait_Conn_Ack_Elect" => p.state = "Wait_Conn_Ack_Elect"
                   /\ p'.state = "Wait_Conn_Ack" =>
                        p.state \in {"Wait_Conn_Ack", "Wait_Conn_Ack_Elect"} \/ lock' = "T_connects"
<1>1. PeerSame \/ ReceiveFd \/ (\E c \in Conns : Connects(c)) => Done
  BY ReceiveFdIs DEF PeerSame, Connects
<1>s. Start => Done
  BY StartIs DEF Start, Becomes
<1>2. ConnectFails \/ StartReturns \/ ConnAck \/ ConnAckLoses => Done
  BY DEF ConnectFails, StartReturns, ConnAck, ConnAckLoses, Types, PeerT
<1>3. WaitTimesOut \/ WatchdogGivesUp \/ CEASent => Done
  BY WaitTimesOutIs, WatchdogGivesUpIs, CEASentIs DEF Becomes
<1>4. ASSUME NEW r \in {"D", "U"}, NEW i \in Slots, Disconnect(r, i) PROVE Done
  <2>1. p'.state = p.state \/ p'.state = EndState(Both, sp[i].tcp)
    BY <1>4, DisconnectIs DEF Becomes
  <2> QED BY <2>1, BothIs DEF EndState, MidState
<1>5. ConnAckWins => Done
  BY ConnAckWinsIs DEF Answered, NotAnswered, Becomes
<1>6. ASSUME NEW r \in {"D", "U"}, CEA(r) \/ NonCEA(r) \/ DPR(r) PROVE Done
  BY <1>6, CEAIs, NonCEAIs, DPRIs DEF Becomes
<1>7. ASSUME NEW c \in Conns, ConnCERAnswered(c) PROVE Done
  <2>1. PICK h \in Boths : /\ h.p.state \in {p.state, "Wait_Returns"}
                           /\ \/ Answered(h, "U", sp[c].tcp, ev["U"].ok, FALSE)
                              \/ NotAnswered(h, "U", sp[c].tcp, FALSE)
    BY <1>7, ConnCERAnsweredIs
  <2>2. p'.state = h.p.state \/ p'.state = EndState(h, sp[c].tcp)
    BY <2>1 DEF Answered, NotAnswered, Becomes
  <2> QED BY <2>1, <2>2 DEF EndState, MidState
<1>8. ASSUME NEW c \in Conns, ConnCERKept(c) PROVE p'.state # "Wait_Conn_Ack"
  BY <1>8, ConnCERKeptIs DEF Becomes
<1> QED BY <1>1, <1>s, <1>2, <1>3, <1>4, <1>5, <1>6, <1>7, <1>8, PeerSteps DEF Slots

\* Descriptors reach D one at a time, and none is lost.
LEMMA XferSteps ==
  ASSUME Types, Next, ~ReceiveFd
  PROVE  /\ xfer # <<>> => xfer' # <<>>
         /\ (\E c \in Conns : Connects(c)) => xfer' # <<>>
<1>1. xfer \in Seq(Conns)
  BY DEF Types
<1>2. \A c \in Conns : Append(xfer, c) # <<>>
  <2>1. \A c \in Conns : Len(Append(xfer, c)) = Len(xfer) + 1 /\ Len(xfer) \in Nat
    BY <1>1
  <2> QED BY <2>1
<1>3. ASSUME NEW c \in Conns, Connects(c) PROVE xfer' # <<>>
  BY <1>2, <1>3 DEF Connects
<1>4. ASSUME NEW c \in Conns, RemoteConnects(c) PROVE xfer' = xfer
  BY <1>4 DEF RemoteConnects
<1> QED BY <1>2, <1>3, <1>4, FrameIs DEF Frame, Passes

LEMMA OnlyUsNext ==
  ASSUME Types, EventsOwn, LockState, OnlyUs, Next
  PROVE  OnlyUs'
<1>1. ASSUME p'.state = "Wait_Conn_Ack_Elect", OneDials("us")' PROVE FALSE
  <2>1. OneDials("us")
    BY <1>1, OneDialsStays
  <2>2. ASSUME NEW c \in Conns, ConnCERKept(c) PROVE FALSE
    <3>1. Them(c)
      BY <2>2 DEF ConnCERKept, Locked, EventsOwn
    <3> QED BY <2>1, <3>1 DEF Them, OneDials
  <2> QED BY <1>1, <2>1, <2>2, StateSteps DEF OnlyUs
<1>2. ASSUME p'.state = "Wait_Conn_Ack", OneDials("us")', lock' \in {None, "T_connected"}
      PROVE  xfer' # <<>> \/ ev'["D"].name = "I_Rcv_Conn_Ack"
  <2>1. OneDials("us")
    BY <1>2, OneDialsStays
  <2>2. p.state = "Wait_Conn_Ack"
    BY <1>2, <2>1, StateSteps, Constants DEF OnlyUs, Locks
  <2>3. CASE ReceiveFd
    BY <2>2, <2>3, ReceiveFdIs
  <2>4. CASE ~ReceiveFd /\ lock \in {None, "T_connected"}
    <3>1. CASE xfer # <<>>
      BY <2>4, <3>1, XferSteps
    <3>2. CASE ev["D"].name = "I_Rcv_Conn_Ack"
      <4>1. ~ConnAck /\ ~ConnAckWins /\ ~ConnAckLoses /\ ~ConnAckIgnored
        BY <1>2, <2>2 DEF ConnAck, ConnAckWins, ConnAckLoses, ConnAckIgnored, Types, PeerT
      <4>2. \A c \in Conns, i \in Slots, ok \in BOOLEAN : ~(ReceiveCEA(i, c, ok) /\ Owner(i) = "D")
        BY <2>2 DEF ReceiveCEA
      <4> QED BY <2>4, <3>2, <4>1, <4>2, EventSteps
    <3> QED BY <2>1, <2>2, <2>4, <3>1, <3>2 DEF OnlyUs
  <2>5. CASE ~ReceiveFd /\ lock \notin {None, "T_connected"}
    <3>1. lock = "T_connects"
      BY <2>2, <2>5 DEF LockState, Types, Locks
    <3>2. lock' # lock /\ lock # None
      BY <1>2, <3>1, Constants DEF Locks
    <3>3. ConnectFails \/ \E c \in Conns : Connects(c)
      <4>1. ~PeerSame
        BY <3>2 DEF PeerSame
      <4>2. /\ ~Start /\ ~StartReturns /\ ~WaitTimesOut /\ ~WatchdogGivesUp /\ ~ReceiveFd
            /\ ~ConnAck /\ ~ConnAckWins /\ ~ConnAckLoses /\ ~CEASent
        BY <2>5, <3>1, <3>2 DEF Start, StartReturns, WaitTimesOut, WatchdogGivesUp, TimerSees,
                      ConnAck, ConnAckWins, ConnAckLoses, Locked, CEASent
      <4>3. \A r \in {"D", "U"}, i \in Slots : ~Disconnect(r, i)
        BY <3>2 DEF Disconnect, Locked
      <4>4. \A r \in {"D", "U"} : ~CEA(r) /\ ~NonCEA(r) /\ ~DPR(r)
        BY <3>2 DEF CEA, NonCEA, DPR, Locked
      <4>5. \A c \in Conns : ~ConnCERAnswered(c) /\ ~ConnCERKept(c)
        BY <3>2 DEF ConnCERAnswered, ConnCERKept, Locked
      <4> QED BY <4>1, <4>2, <4>3, <4>4, <4>5, PeerSteps DEF Slots
    <3>4. ~ConnectFails
      BY <1>2 DEF ConnectFails, Types, PeerT
    <3> QED BY <2>5, <3>3, <3>4, XferSteps
  <2> QED BY <2>3, <2>4, <2>5
<1>3. OneDials("us")' => OneDials("us")
  BY OneDialsStays
<1> QED BY <1>1, <1>2 DEF OnlyUs

\* A known slot stays what it is but in these steps.
LEMMA UsedKept ==
  ASSUME Types, SlotsOwn, Next, ~ReceiveFd, ~ConnAckWins,
         \A r \in {"D", "U"}, i \in Slots : ~Disconnect(r, i), \A c \in Conns : ~ConnCERAnswered(c)
  PROVE  \A i \in Slots : sp[i].known /\ sp[i].there => sp'[i] = sp[i]
<1>s. Own \in Slots /\ sp \in Sps
  BY DEF Slots, Types
<1>1. ASSUME TimePasses \/ Timer \/ SendMessage PROVE UNCHANGED sp
  BY <1>1 DEF TimePasses, Timer, SendMessage, Start, ConnectFails, Connects, StartReturns,
              WaitTimesOut, WatchdogAsks, WatchdogGivesUp
<1>2. ASSUME NEW r \in {"D", "U"}, Reacts(r) PROVE UNCHANGED sp
  BY <1>2 DEF Reacts, SelectFails, CEA, NonCEA, DWA, DPR, Overtaken
<1>3. ASSUME HandsOver \/ CEASent \/ \E c \in Conns : Accepts(c) PROVE UNCHANGED sp
  <2>1. \A c \in Conns : c \in Slots
    BY DEF Slots
  <2> QED BY <1>s, <1>3, <2>1 DEF HandsOver, ConnAck, ConnAckLoses, ConnAckIgnored, CEASent, Accepts,
                  ConnCERKept, ConnCERRejected
<1>4. ASSUME NEW c \in Conns, Arrives(c)
      PROVE  \A i \in Slots : sp[i].known /\ sp[i].there => sp'[i] = sp[i]
  <2>1. ASSUME RemoteConnects(c) PROVE \A i \in Slots : sp[i].known /\ sp[i].there => sp'[i] = sp[i]
    <3>1. ~sp[c].there
      BY <2>1 DEF RemoteConnects, Fresh, SlotsOwn, Them
    <3> QED BY <1>s, <2>1, <3>1 DEF RemoteConnects, Sps
  <2>2. ASSUME NEW ok \in CommonApps, ReceiveCER(c, ok)
        PROVE  \A i \in Slots : sp[i].known /\ sp[i].there => sp'[i] = sp[i]
    BY <1>s, <2>2 DEF ReceiveCER, Sps
  <2>3. ASSUME NEW i \in {Own, c}, Messages(i, c) \/ ReadFails(i, c) PROVE UNCHANGED sp
    BY <2>3, MessagesAre DEF ReadFails
  <2>4. RemoteCloses(c) => UNCHANGED sp
    BY DEF RemoteCloses
  <2> QED BY <1>4, <2>1, <2>2, <2>3, <2>4 DEF Arrives, Remote
<1> QED BY <1>1, <1>2, <1>3, <1>4, NextIs

LEMMA OnlyThemNext ==
  ASSUME Types, Types', SlotsOwn, EventsOwn, LockState, OnlyThem, Next
  PROVE  OnlyThem'
<1> SUFFICES ASSUME OneDials("them")'
             PROVE  /\ \/ p'.state \in {"Closed", "R_Open"}
                       \/ p'.state = "Wait_Conn_Ack" /\ lock' = "T_connects"
                    /\ xfer' = <<>> /\ (p'.state = "R_Open" \/ (lock' = "U" /\ ev'["U"].ok)) =>
                         p'.R # NoSock /\ \E i \in Slots : Reads_R(i)'
  BY DEF OnlyThem
<1>0. /\ \/ p.state \in {"Closed", "R_Open"}
         \/ p.state = "Wait_Conn_Ack" /\ lock = "T_connects"
      /\ xfer = <<>> /\ (p.state = "R_Open" \/ (lock = "U" /\ ev["U"].ok)) =>
           p.R # NoSock /\ \E i \in Slots : Reads_R(i)
  <2>1. OneDials("them")
    BY OneDialsStays
  <2> QED BY <2>1 DEF OnlyThem
<1>n. None \notin Locks /\ "U" \in Locks /\ "T_connects" \in Locks /\ "T_connected" \in Locks
  BY Constants DEF Locks
<1> DEFINE Stays == \/ p'.state \in {"Closed", "R_Open"}
                    \/ p'.state = "Wait_Conn_Ack" /\ lock' = "T_connects"
           Done  == Stays /\ (xfer' = <<>> /\ (p'.state = "R_Open" \/ (lock' = "U" /\ ev'["U"].ok)) =>
                                p'.R # NoSock /\ \E i \in Slots : Reads_R(i)')
<1>f. ASSUME Stays, p'.state # "R_Open", lock' # "U" PROVE Done
  BY <1>f
<1>1. ASSUME NEW r \in {"D", "U"}, NEW i \in Slots, Disconnect(r, i) PROVE Done
  <2> DEFINE s == sp[i].tcp
  <2>1. /\ lock = None /\ lock' = None /\ p.state \in {"Closed", "R_Open"} /\ xfer' = xfer
        /\ sp'[i].tcp = NoSock /\ \A j \in Slots \ {i} : sp'[j] = sp[j]
    BY <1>0, <1>1, <1>n, DisconnectLeaves
  <2>2. CASE ~sp[i].known
    <3>1. p' = p
      BY <1>1, <2>2, DisconnectIs
    <3> QED BY <1>0, <1>n, <2>1, <2>2, <3>1 DEF Reads_R
  <2>3. CASE sp[i].known
    <3>1. Becomes(r, EndState(Both, s), EndI(Both, s), EndR(Both, s), p.r_cer)
      BY <1>1, <2>3, DisconnectIs
    <3> HIDE DEF s
    <3>2. /\ p'.state \in {"Closed", "R_Open"}
          /\ p'.state = "R_Open" => p.state = "R_Open" /\ p.R # s /\ p'.R = p.R
      BY <2>1, <3>1, BothIs DEF Becomes, EndState, MidState, EndR
    <3>3. ASSUME p'.state = "R_Open", NEW j \in Slots, Reads_R(j) PROVE Reads_R(j)'
      BY <2>1, <3>2, <3>3 DEF Reads_R, s
    <3> QED BY <1>0, <1>n, <2>1, <3>2, <3>3
  <2> QED BY <2>2, <2>3
<1>2. ASSUME ReceiveFd PROVE Done
  <2>1. /\ p'.state = p.state /\ lock' = lock /\ ev'["U"] = ev["U"] /\ NextSock("D") \in Sock
        /\ sp'[Own] = [there |-> TRUE, known |-> TRUE, tcp |-> NextSock("D")]
        /\ p.state # "Wait_Conn_Ack" => p'.R = NextSock("D")
    BY <1>2, ReceiveFdIs
  <2>2. lock = "U" => p.state # "Wait_Conn_Ack"
    BY DEF LockState
  <2>3. p.state # "Wait_Conn_Ack" => p'.R # NoSock /\ Reads_R(Own)' /\ Own \in Slots
    BY <2>1, Constants DEF Reads_R, Slots
  <2> QED BY <1>0, <2>1, <2>2, <2>3
<1>3. ASSUME NEW c \in Conns, ConnCERAnswered(c) PROVE Done
  <2>1. /\ lock = None /\ lock' = "U" /\ ev["U"].name = "R_Conn_CER" /\ ev["U"].slot = c
        /\ p.state = "Closed"
    BY <1>0, <1>3, <1>n DEF ConnCERAnswered, Locked
  <2>2. PICK h \in Boths : /\ h.p.state = "Closed" /\ h.p.R = sp[c].tcp
                           /\ \/ Answered(h, "U", sp[c].tcp, ev["U"].ok, FALSE)
                              \/ NotAnswered(h, "U", sp[c].tcp, FALSE)
    BY <1>3, <2>1, ConnCERAnsweredIs
  <2>3. CASE Answered(h, "U", sp[c].tcp, ev["U"].ok, FALSE)
    <3>1. p'.state = "Closed"
      BY <2>2, <2>3 DEF Answered, Becomes
    <3>2. xfer' # <<>>
      <4>1. \E d \in Conns : xfer' = Append(xfer, d)
        BY <2>3 DEF Answered
      <4>2. \A d \in Conns : Len(Append(xfer, d)) = Len(xfer) + 1 /\ Len(xfer) \in Nat
        BY DEF Types
      <4> QED BY <4>1, <4>2
    <3> QED BY <3>1, <3>2
  <2>4. CASE NotAnswered(h, "U", sp[c].tcp, FALSE)
    <3>1. /\ p'.state = "Closed" /\ p'.R = sp[c].tcp /\ sp' = sp
      BY <2>2, <2>4 DEF NotAnswered, Becomes, EndState, MidState, EndR
    <3>2. sp[c].known /\ sp[c].there /\ sp[c].tcp # NoSock /\ c \in Slots
      BY <2>1 DEF EventsOwn, SlotsOwn, Slots
    <3>3. p'.R # NoSock /\ Reads_R(c)'
      BY <3>1, <3>2 DEF Reads_R
    <3> QED BY <3>1, <3>2, <3>3
  <2> QED BY <2>2, <2>3, <2>4
<1>4. ASSUME CEASent PROVE Done
  <2>1. lock = "U" /\ lock' = None /\ sp' = sp /\ xfer' = xfer
    BY <1>4 DEF CEASent
  <2>2. \/ ev["U"].ok /\ p'.state = "R_Open" /\ p'.R = p.R
        \/ p'.state = "Closed"
    BY <1>4, CEASentIs DEF Becomes
  <2>3. p'.R = p.R => \A i \in Slots : Reads_R(i) => Reads_R(i)'
    BY <2>1 DEF Reads_R
  <2> QED BY <1>0, <1>n, <2>1, <2>2, <2>3
<1>5. ~ConnAckWins
  BY <1>0, <1>n DEF ConnAckWins, Locked
<1>6. ASSUME PeerSame, ~ReceiveFd, \A r \in {"D", "U"}, i \in Slots : ~Disconnect(r, i),
             \A c \in Conns : ~ConnCERAnswered(c), ~CEASent
      PROVE Done
  <2>1. xfer' = <<>> => xfer = <<>>
    BY <1>6, XferSteps
  <2>2. \A i \in Slots : Reads_R(i) => Reads_R(i)'
    BY <1>5, <1>6, UsedKept DEF Reads_R, PeerSame
  <2>3. lock' = "U" => lock = "U" /\ ev'["U"] = ev["U"]
    BY <1>6, AnswerKept DEF PeerSame, LockState
  <2> QED BY <1>0, <1>6, <2>1, <2>2, <2>3 DEF PeerSame
<1>7. ASSUME Start \/ ConnectFails PROVE Done
  <2>1. lock' # "U"
    BY <1>7, <1>n DEF Start, ConnectFails
  <2>2. CASE Start
    <3>1. p'.state = "Wait_Conn_Ack" /\ lock' = "T_connects"
      BY <2>2, StartIs DEF Start, Becomes
    <3> QED BY <1>f, <2>1, <3>1
  <2>3. CASE ConnectFails
    <3>1. p'.state = "Closed"
      BY <2>3 DEF ConnectFails, Types, PeerT
    <3> QED BY <1>f, <2>1, <3>1
  <2> QED BY <1>7, <2>2, <2>3
<1>8. \A c \in Conns : ~Connects(c)
  <2>1. ASSUME NEW c \in Conns, Connects(c) PROVE FALSE
    <3>1. net'[c].by = "us"
      BY <2>1, OpensIs DEF Connects, Opens
    <3> QED BY <3>1 DEF OneDials
  <2> QED BY <2>1
<1>9. ~StartReturns /\ ~ConnAck /\ ~ConnAckLoses /\ (\A c \in Conns : ~ConnCERKept(c))
  <2>1. ~StartReturns
    BY <1>0, <1>n DEF StartReturns, LockState
  <2> QED BY <1>0, <1>n, <2>1 DEF ConnAck, ConnAckLoses, ConnCERKept, Locked
<1>10. ASSUME WaitTimesOut \/ WatchdogGivesUp PROVE Done
  <2>1. lock' = None
    BY <1>10 DEF WaitTimesOut, WatchdogGivesUp, TimerSees
  <2>2. p'.state = "Closed"
    BY <1>10, WaitTimesOutIs, WatchdogGivesUpIs DEF Becomes
  <2> QED BY <1>f, <1>n, <2>1, <2>2
<1>11. ASSUME NEW r \in {"D", "U"}, CEA(r) \/ NonCEA(r) \/ DPR(r) PROVE Done
  <2>1. lock = None /\ lock' = None
    BY <1>11 DEF CEA, NonCEA, DPR, Locked
  <2>2. ~CEA(r) /\ ~NonCEA(r)
    BY <1>0 DEF CEA, NonCEA
  <2>3. p'.state = "Closed"
    BY <1>11, <2>2, DPRIs DEF Becomes
  <2> QED BY <1>f, <1>n, <2>1, <2>3
<1> QED
  BY <1>1, <1>2, <1>3, <1>4, <1>5, <1>6, <1>7, <1>8, <1>9, <1>10, <1>11, PeerSteps DEF Slots

-----------------------------------------------------------------------------
(* What holds whatever the processes' numbers and however late they are.    *)

PeerInv == /\ Types /\ TablesOwn /\ SlotsOwn /\ EventsOwn
           /\ LockState /\ Roles /\ OnlyUs /\ OnlyThem

LEMMA PeerInvHolds ==
  Spec => []PeerInv
<1>1. Init => PeerInv
  BY TypesInit, OwnInit, RolesInit, SidesInit DEF PeerInv
<1>2. ASSUME PeerInv, [Next]_vars PROVE PeerInv'
  <2>1. CASE Next
    <3>1. Types'
      BY <1>2, TypesNext DEF PeerInv
    <3> QED BY <1>2, <2>1, <3>1, TablesNext, SlotsNext, EventsNext, RolesNext, OnlyUsNext, OnlyThemNext
            DEF PeerInv
  <2>2. CASE UNCHANGED vars
    BY <1>2, <2>2 DEF vars, PeerInv, Types, TablesOwn, SlotsOwn, EventsOwn, LockState, Roles,
         OnlyUs, OnlyThem, OneDials, Reads_R, Us, Them
  <2> QED BY <1>2, <2>1, <2>2
<1> QED BY <1>1, <1>2, PTL DEF Spec

\* A peer that waits for the acknowledgement and an election at once has the CER the
\* election decides on, whatever the interleaving.
THEOREM ElectionsHaveCER ==
  Spec => []ElectionHasCER
<1>1. PeerInv => ElectionHasCER
  BY DEF PeerInv, Roles, ElectionHasCER
<1> QED BY <1>1, PeerInvHolds, PTL

\* A peer open as receiver has given up its initiated socket, for any numbers of connections
\* and any descriptor numbers, those of different processes the same or not.
THEOREM RolesAreOne ==
  Spec => []OneRole
<1>1. PeerInv => OneRole
  BY DEF PeerInv, Roles, OneRole
<1> QED BY <1>1, PeerInvHolds, PTL

\* While this node alone dials, nobody awaits an acknowledgement that does not come:
\* it is being made, in the pipe, or with D.
THEOREM AcksCome ==
  Spec => []AckComes
<1>1. PeerInv => AckComes
  BY DEF PeerInv, OnlyUs, AckComes
<1> QED BY <1>1, PeerInvHolds, PTL

\* While the remote peer alone dials, a peer that is open has a socket and a receiver
\* that reads it, once the hand-over is done.
THEOREM ReceiversHaveSocket ==
  Spec => []ReceiverHasSocket
<1>1. PeerInv => ReceiverHasSocket
  BY DEF PeerInv, OnlyThem, ReceiverHasSocket, Quiet, Reads_R
<1> QED BY <1>1, PeerInvHolds, PTL

-----------------------------------------------------------------------------
(* The initiator's socket, when U's descriptors have numbers of their own.  *)

Apart == Numbers["U"] \cap (Numbers["T"] \cup Numbers["D"]) = {}

\* An initiated connection is passed to D once, before anything is sent on it.
HandedOver ==
  \A k \in 1..Len(xfer) : Us(xfer[k]) =>
    /\ net[xfer[k]].phase = "new"
    /\ \A s \in Sock : fd["D"][s] # xfer[k]
    /\ \A m \in 1..Len(xfer) : xfer[m] = xfer[k] => m = k

\* While D reads an initiated connection on which the CER was sent the socket is set, so an
\* answer that opens the peer finds it.
AwaitsCEA == p.state \in {"Wait_I_CEA", "Wait_Returns"}
SentCER(c) == c # NoConn /\ Us(c) /\ net[c].phase = "cer"
Initiator ==
  /\ p.state = "I_Open" => p.I # NoSock
  /\ ev["D"].name = "CEA" /\ lock = None /\ AwaitsCEA => p.I # NoSock
  /\ lock = None /\ AwaitsCEA /\ p.I = NoSock => ~SentCER(ConnOf(Own))
  /\ p.state = "Wait_Conn_Ack_Elect" /\ ev["D"].name = "I_Rcv_Conn_Ack" =>
       p.R \in Numbers["U"] \cup {NoSock}

LEMMA InitiatorInit ==
  Init => HandedOver /\ Initiator
<1> SUFFICES ASSUME Init PROVE HandedOver /\ Initiator
  OBVIOUS
<1>1. 1..Len(xfer) = {}
  BY DEF Init
<1> QED BY <1>1 DEF Init, HandedOver, Initiator, AwaitsCEA

\* A message of the state machine goes to a connection one of the receivers has.
LEMMA PipeConnIs ==
  ASSUME Types, PipeConn # NoConn
  PROVE  \E q \in {"D", "U"}, s \in Sock : fd[q][s] = PipeConn /\ PipeConn \in Conns
<1>1. /\ p.pipe \in Slots /\ sp[p.pipe].tcp # NoSock
      /\ PipeConn = fd[Owner(p.pipe)][sp[p.pipe].tcp]
  BY DEF PipeConn
<1>2. sp[p.pipe].tcp \in Sock /\ Owner(p.pipe) \in {"D", "U"} /\ fd \in Tables
  BY <1>1 DEF Types, Sps, Owner
<1> QED BY <1>1, <1>2 DEF Tables, Procs

\* How an initiated connection's phase changes.
LEMMA PhaseSteps ==
  ASSUME Types, TablesOwn, Next, NEW c \in Conns, net'[c].by = "us"
  PROVE  \/ net'[c].phase = net[c].phase
         \/ net[c].by = "none" /\ net'[c].phase = "new"
         \/ (ConnAck \/ ConnAckLoses) /\ c = PipeConn /\ net[c].by = "us" /\ net[c].phase = "new"
         \/ \E i \in Slots : ReceiveCEA(i, c, TRUE) /\ net[c].phase = "cer"
<1> DEFINE Same == net'[c].phase = net[c].phase
<1>0. net \in Nets /\ Own \in Slots /\ \A d \in Conns : d \in Slots
  BY DEF Types, Slots
<1>1. ASSUME TimePasses \/ Timer \/ SendMessage PROVE Same \/ (net[c].by = "none" /\ net'[c].phase = "new")
  <2>1. ASSUME NEW d \in Conns, Connects(d) PROVE Same \/ (net[c].by = "none" /\ net'[c].phase = "new")
    <3>1. net[d].by = "none" /\ net'[d].phase = "new" /\ \A e \in Conns \ {d} : net'[e] = net[e]
      BY <2>1, OpensIs DEF Connects, Opens, Fresh
    <3> QED BY <3>1
  <2>2. WatchdogAsks => Same
    BY <1>0 DEF WatchdogAsks, SendDWR, Nets
  <2> QED BY <1>1, <2>1, <2>2 DEF TimePasses, Timer, SendMessage, Start, ConnectFails, StartReturns,
              WaitTimesOut, WatchdogGivesUp
<1>2. ASSUME NEW r \in {"D", "U"}, Reacts(r) PROVE Same
  BY <1>2 DEF Reacts, SelectFails, CEA, NonCEA, DWA, DPR, Overtaken
<1>3. ASSUME NEW h, NEW q \in {"D", "U"}, NEW s, NEW ok, NEW opens,
             Answered(h, q, s, ok, opens) \/ NotAnswered(h, q, s, opens)
      PROVE  Same
  <2>1. CASE NotAnswered(h, q, s, opens)
    BY <2>1 DEF NotAnswered
  <2>2. CASE Answered(h, q, s, ok, opens)
    <3> DEFINE d == h.fd[q][s]
    <3>1. /\ d \in Conns
          /\ net' = [net EXCEPT ![d].phase = IF ok /\ net[d].by = "them" THEN "open" ELSE @]
      BY <2>2 DEF Answered
    <3> HIDE DEF d
    <3>2. net'[c].by = net[c].by
      BY <1>0, <3>1 DEF Nets
    <3> QED BY <1>0, <3>1, <3>2 DEF Nets
  <2> QED BY <1>3, <2>1, <2>2
<1>4. ASSUME ConnAck \/ ConnAckLoses
      PROVE  Same \/ (c = PipeConn /\ net[c].by = "us" /\ net[c].phase = "new")
  BY <1>0, <1>4 DEF ConnAck, ConnAckLoses, SendCER, Nets
<1>5. ASSUME HandsOver, ~ConnAck, ~ConnAckLoses PROVE Same
  BY <1>3, <1>5, ConnAckWinsIs DEF HandsOver, ReceiveFd, Disconnect, ConnAckIgnored
<1>6. ASSUME CEASent \/ \E d \in Conns : Accepts(d) PROVE Same
  BY <1>3, <1>6, ConnCERAnsweredIs DEF CEASent, Accepts, Disconnect, ConnCERKept, ConnCERRejected
<1>7. ASSUME NEW d \in Conns, Remote(d) PROVE Same \/ (net[c].by = "none" /\ net'[c].phase = "new")
  <2>1. CASE RemoteConnects(d)
    <3>1. net'[d].by = "them" /\ \A e \in Conns \ {d} : net'[e] = net[e]
      BY <2>1, OpensIs DEF RemoteConnects, Opens
    <3> QED BY <3>1
  <2>2. CASE RemoteCloses(d)
    BY <1>0, <2>2 DEF RemoteCloses, Nets
  <2> QED BY <1>7, <2>1, <2>2 DEF Remote
<1>8. ASSUME NEW d \in Conns, NEW ok \in CommonApps, ReceiveCER(d, ok) PROVE Same
  <2>1. /\ net' = [net EXCEPT ![d].phase = "cer"] /\ sp[d].tcp # NoSock /\ fd[Owner(d)][sp[d].tcp] = d
    BY <1>8 DEF ReceiveCER, Reads
  <2>2. sp[d].tcp \in Sock /\ Owner(d) = "U"
    BY <1>0, <2>1, Constants DEF Types, Sps, Owner
  <2>3. net[d].by = "them"
    BY <2>1, <2>2, Constants DEF TablesOwn, Them
  <2>4. net'[d].by = net[d].by
    BY <1>0, <2>1 DEF Nets
  <2>5. c # d
    BY <2>3, <2>4
  <2> QED BY <1>0, <2>1, <2>5 DEF Nets
<1>9. ASSUME NEW d \in Conns, NEW i \in {Own, d}, Messages(i, d)
      PROVE  Same \/ (\E j \in Slots : ReceiveCEA(j, c, TRUE) /\ net[c].phase = "cer")
  <2>1. \/ UNCHANGED net \/ net' = [net EXCEPT ![d].dwr = FALSE]
        \/ net' = [net EXCEPT ![d].phase = @]
        \/ ReceiveCEA(i, d, TRUE)
    BY <1>9 DEF Messages, ReceiveCEA, ReceiveNonCEA, ReceiveDWA, ReceiveDPR, ReceiveOther
  <2>2. CASE UNCHANGED net \/ net' = [net EXCEPT ![d].dwr = FALSE] \/ net' = [net EXCEPT ![d].phase = @]
    <3>1. CASE UNCHANGED net
      BY <3>1
    <3>2. CASE net' = [net EXCEPT ![d].dwr = FALSE]
      BY <1>0, <3>2 DEF Nets
    <3>3. CASE net' = [net EXCEPT ![d].phase = @]
      BY <1>0, <3>3 DEF Nets
    <3> QED BY <2>2, <3>1, <3>2, <3>3
  <2>3. CASE ReceiveCEA(i, d, TRUE)
    <3>1. net' = [net EXCEPT ![d].phase = "open"] /\ net[d].phase = "cer"
      BY <2>3 DEF ReceiveCEA
    <3>2. c # d => Same
      BY <1>0, <3>1 DEF Nets
    <3> QED BY <1>0, <2>3, <3>1, <3>2
  <2> QED BY <2>1, <2>2, <2>3
<1>10. ASSUME NEW d \in Conns, NEW i \in {Own, d}, ReadFails(i, d) PROVE Same
  BY <1>10 DEF ReadFails
<1> QED BY <1>1, <1>2, <1>4, <1>5, <1>6, <1>7, <1>8, <1>9, <1>10, NextIs DEF Arrives

LEMMA HandedOverNext ==
  ASSUME Apart, Types, Types', TablesOwn, HandedOver, Initiator, Next
  PROVE  HandedOver'
<1>0. /\ xfer \in Seq(Conns) /\ \A k \in 1..Len(xfer) : xfer[k] \in Conns
      /\ "U" \in Procs /\ "D" \in Procs
  BY DEF Types, Procs
\* What was in the pipe has not been written on.
<1>1. ASSUME NEW k \in 1..Len(xfer), net'[xfer[k]].by = "us"
      PROVE  net[xfer[k]].by = "us" /\ net'[xfer[k]].phase = "new"
  <2> DEFINE c == xfer[k]
  <2>1. c \in Conns /\ net[c].by = "us"
    <3>1. c \in Conns /\ net[c].by # "none"
      BY <1>0 DEF TablesOwn
    <3> HIDE DEF c
    <3> QED BY <1>1, <3>1, SidesKept DEF c
  <2>2. net[c].phase = "new" /\ \A s \in Sock : fd["D"][s] # c
    BY <2>1 DEF HandedOver, Us
  <2>3. c # PipeConn
    <3>1. ASSUME c = PipeConn PROVE FALSE
      <4>1. PICK q \in {"D", "U"}, s \in Sock : fd[q][s] = c
        BY <2>1, <3>1, PipeConnIs, Constants
      <4>2. q = "U"
        BY <2>2, <4>1
      <4> QED BY <2>1, <4>1, <4>2, Constants DEF TablesOwn, Them
    <3> QED BY <3>1
  <2>4. net'[c].by = "us"
    BY <1>1
  <2> HIDE DEF c
  <2>5. net'[c].phase = "new"
    BY <2>1, <2>2, <2>3, <2>4, PhaseSteps
  <2> QED BY <2>1, <2>5 DEF c
\* A descriptor appended is one of U's.
<1>2. CASE Frame
  <2>1. xfer' = xfer \/ \E s \in Sock : Passes("U", s)
    <3>1. ASSUME ConnAckWins, Passes("D", p.R) PROVE FALSE
      <4>1. p.R \in Numbers["U"] \cup {NoSock}
        BY <3>1 DEF ConnAckWins, Locked, Initiator
      <4>2. p.R \in Numbers["D"] /\ p.R # NoSock
        BY <1>0, <3>1, Constants DEF Passes, TablesOwn
      <4> QED BY <4>1, <4>2 DEF Apart
    <3> QED BY <1>2, <3>1 DEF Frame
  <2>2. \A k \in 1..Len(xfer') :
          \/ k \in 1..Len(xfer) /\ xfer'[k] = xfer[k]
          \/ net'[xfer'[k]].by = "them"
    <3>1. CASE xfer' = xfer
      BY <3>1
    <3>2. ASSUME NEW s \in Sock, Passes("U", s)
          PROVE  \A k \in 1..Len(xfer') : \/ k \in 1..Len(xfer) /\ xfer'[k] = xfer[k]
                                          \/ net'[xfer'[k]].by = "them"
      <4>1. fd["U"][s] \in Conns /\ xfer' = Append(xfer, fd["U"][s])
        BY <3>2 DEF Passes
      <4>2. net'[fd["U"][s]].by = "them"
        BY <1>2, <4>1, Constants DEF Frame, SameSides, TablesOwn, Them
      <4>3. \A k \in 1..Len(xfer') : /\ xfer'[k] = IF k = Len(xfer) + 1 THEN fd["U"][s] ELSE xfer[k]
                                     /\ k # Len(xfer) + 1 => k \in 1..Len(xfer)
        BY <1>0, <4>1
      <4> QED BY <4>2, <4>3
    <3> QED BY <2>1, <3>1, <3>2
  <2>3. ASSUME NEW k \in 1..Len(xfer'), net'[xfer'[k]].by = "us"
        PROVE  /\ net'[xfer'[k]].phase = "new"
               /\ \A s \in Sock : fd'["D"][s] # xfer'[k]
               /\ \A m \in 1..Len(xfer') : xfer'[m] = xfer'[k] => m = k
    <3>1. k \in 1..Len(xfer) /\ xfer'[k] = xfer[k]
      BY <2>2, <2>3
    <3>2. net[xfer[k]].by = "us" /\ net'[xfer[k]].phase = "new"
      BY <1>1, <2>3, <3>1
    <3>3. /\ \A s \in Sock : fd["D"][s] # xfer[k]
          /\ \A m \in 1..Len(xfer) : xfer[m] = xfer[k] => m = k
      BY <3>1, <3>2 DEF HandedOver, Us
    <3>4. \A s \in Sock : fd'["D"][s] # xfer[k]
      <4>1. xfer[k] # NoConn
        BY <1>0, <3>1, Constants
      <4> QED BY <1>0, <1>2, <3>3, <4>1 DEF Frame
    <3>5. \A m \in 1..Len(xfer') : xfer'[m] = xfer'[k] => m = k
      BY <2>2, <2>3, <3>1, <3>3
    <3> QED BY <3>1, <3>2, <3>4, <3>5
  <2> QED BY <2>3 DEF HandedOver, Us
<1>3. ASSUME ReceiveFd PROVE HandedOver'
  <2> DEFINE s == NextSock("D")
  <2>1. /\ net' = net /\ xfer # <<>> /\ xfer' = Tail(xfer) /\ s \in Sock /\ fd'["D"][s] = Head(xfer)
        /\ \A x \in Sock : x # s => fd'["D"][x] = fd["D"][x]
    BY <1>0, <1>3, ReceiveFdIs
  <2> HIDE DEF s
  <2>2. /\ \A k \in 1..Len(xfer') : k + 1 \in 1..Len(xfer) /\ xfer'[k] = xfer[k + 1] /\ k \in Nat
        /\ 1 \in 1..Len(xfer) /\ Head(xfer) = xfer[1]
    BY <1>0, <2>1
  <2>3. ASSUME NEW k \in 1..Len(xfer'), net[xfer'[k]].by = "us"
        PROVE  /\ net[xfer'[k]].phase = "new"
               /\ \A x \in Sock : fd'["D"][x] # xfer'[k]
               /\ \A m \in 1..Len(xfer') : xfer'[m] = xfer'[k] => m = k
    <3>1. /\ net[xfer'[k]].phase = "new"
          /\ \A x \in Sock : fd["D"][x] # xfer'[k]
          /\ \A m \in 1..Len(xfer) : xfer[m] = xfer'[k] => m = k + 1
      BY <2>2, <2>3 DEF HandedOver, Us
    <3>2. Head(xfer) # xfer'[k]
      <4>1. xfer[1] = xfer'[k] => 1 = k + 1
        BY <2>2, <3>1
      <4>2. 1 # k + 1
        BY <2>2, <2>3
      <4> QED BY <2>2, <4>1, <4>2
    <3>3. \A x \in Sock : fd'["D"][x] # xfer'[k]
      BY <2>1, <3>1, <3>2
    <3>4. \A m \in 1..Len(xfer') : xfer'[m] = xfer'[k] => m = k
      <4>1. ASSUME NEW m \in 1..Len(xfer'), xfer'[m] = xfer'[k] PROVE m = k
        <5>1. m + 1 = k + 1
          BY <2>2, <3>1, <4>1
        <5> QED BY <2>2, <5>1
      <4> QED BY <4>1
    <3> QED BY <3>1, <3>3, <3>4
  <2> QED BY <2>1, <2>3 DEF HandedOver, Us
<1>4. ASSUME NEW c \in Conns, Connects(c) PROVE HandedOver'
  <2>1. /\ net[c].by = "none" /\ net'[c].by = "us" /\ net'[c].phase = "new"
        /\ \A d \in Conns \ {c} : net'[d] = net[d]
    BY <1>4, OpensIs DEF Connects, Opens, Fresh
  <2>2. xfer' = Append(xfer, c) /\ fd'["D"] = fd["D"]
    BY <1>4 DEF Connects, Types, Tables, Procs
  <2>3. \A s \in Sock : fd["D"][s] # c
    BY <1>0, <2>1, Constants DEF TablesOwn
  <2>4. \A k \in 1..Len(xfer) : xfer[k] \in Conns \ {c}
    BY <1>0, <2>1 DEF TablesOwn
  <2>5. \A k \in 1..Len(xfer') : /\ xfer'[k] = IF k = Len(xfer) + 1 THEN c ELSE xfer[k]
                                 /\ k # Len(xfer) + 1 => k \in 1..Len(xfer)
    BY <1>0, <2>2
  <2>6. ASSUME NEW k \in 1..Len(xfer'), net'[xfer'[k]].by = "us"
        PROVE  /\ net'[xfer'[k]].phase = "new"
               /\ \A s \in Sock : fd'["D"][s] # xfer'[k]
               /\ \A m \in 1..Len(xfer') : xfer'[m] = xfer'[k] => m = k
    <3>1. CASE k = Len(xfer) + 1
      BY <2>1, <2>2, <2>3, <2>4, <2>5, <3>1
    <3>2. CASE k # Len(xfer) + 1
      <4>1. k \in 1..Len(xfer) /\ xfer'[k] = xfer[k] /\ xfer[k] # c /\ net[xfer[k]].by = "us"
            /\ net'[xfer[k]] = net[xfer[k]]
        BY <2>1, <2>4, <2>5, <2>6, <3>2
      <4>2. /\ net[xfer[k]].phase = "new"
            /\ \A s \in Sock : fd["D"][s] # xfer[k]
            /\ \A m \in 1..Len(xfer) : xfer[m] = xfer[k] => m = k
        BY <4>1 DEF HandedOver, Us
      <4> QED BY <2>2, <2>5, <4>1, <4>2
    <3> QED BY <3>1, <3>2
  <2> QED BY <2>6 DEF HandedOver, Us
<1>5. ASSUME NEW c \in Conns, RemoteConnects(c) PROVE HandedOver'
  <2>1. /\ net'[c].by = "them" /\ \A d \in Conns \ {c} : net'[d] = net[d]
    BY <1>5, OpensIs DEF RemoteConnects, Opens
  <2>2. xfer' = xfer /\ fd'["D"] = fd["D"]
    BY <1>5 DEF RemoteConnects, Types, Tables, Procs
  <2>3. \A k \in 1..Len(xfer) : net'[xfer[k]].by = "us" => net'[xfer[k]] = net[xfer[k]]
    BY <1>0, <2>1
  <2> QED BY <2>2, <2>3 DEF HandedOver, Us
<1> QED BY <1>2, <1>3, <1>4, <1>5, FrameIs

\* The steps after which a peer awaits a CEA and nobody has its lock.
LEMMA WaitSteps ==
  ASSUME Types, LockState, Next, AwaitsCEA', lock' = None
  PROVE  \/ PeerSame \/ ReceiveFd \/ ConnAck \/ ConnAckLoses
         \/ /\ AwaitsCEA /\ lock = None
            /\ \E i \in Slots : /\ Disconnect(Owner(i), i) /\ sp[i].known
                                /\ p'.I = EndI(Both, sp[i].tcp) /\ (p'.I = p.I \/ p.I = sp[i].tcp)
<1>n. None \notin Locks /\ "U" \in Locks /\ "T_connects" \in Locks /\ "T_connected" \in Locks
  BY Constants DEF Locks
<1>1. ASSUME NEW r \in {"D", "U"}, NEW i \in Slots, Owner(i) = r, Disconnect(r, i), ~PeerSame
      PROVE  /\ AwaitsCEA /\ lock = None
             /\ Disconnect(Owner(i), i) /\ sp[i].known
             /\ p'.I = EndI(Both, sp[i].tcp) /\ (p'.I = p.I \/ p.I = sp[i].tcp)
  <2>1. lock = None /\ lock' = None
    BY <1>1, DisconnectLeaves
  <2>2. sp[i].known
    BY <1>1, <2>1, DisconnectIs DEF PeerSame
  <2>3. p'.state = EndState(Both, sp[i].tcp) /\ p'.I = EndI(Both, sp[i].tcp)
    BY <1>1, <2>2, DisconnectIs DEF Becomes
  <2>4. AwaitsCEA /\ (p'.I = p.I \/ p.I = sp[i].tcp)
    BY <2>3, BothIs DEF AwaitsCEA, EndState, MidState, EndI
  <2> QED BY <1>1, <2>1, <2>2, <2>3, <2>4
<1>2. /\ ~Start /\ ~ConnectFails /\ (\A c \in Conns : ~Connects(c)) /\ ~StartReturns
      /\ \A c \in Conns : ~ConnCERAnswered(c)
  BY <1>n DEF AwaitsCEA, Start, ConnectFails, Connects, StartReturns, ConnCERAnswered, Types, PeerT,
              LockState
<1>3. ~WaitTimesOut /\ ~WatchdogGivesUp /\ ~CEASent
  BY WaitTimesOutIs, WatchdogGivesUpIs, CEASentIs DEF Becomes, AwaitsCEA
<1>4. ~ConnAckWins
  BY ConnAckWinsIs DEF Answered, NotAnswered, Becomes, AwaitsCEA
<1>5. \A c \in Conns : ~ConnCERKept(c)
  BY ConnCERKeptIs DEF Becomes, AwaitsCEA
<1>6. \A r \in {"D", "U"} : ~CEA(r) /\ ~NonCEA(r) /\ ~DPR(r)
  BY CEAIs, NonCEAIs, DPRIs DEF Becomes, AwaitsCEA
<1>7. Own \in Slots /\ Owner(Own) = "D" /\ \A c \in Conns : c \in Slots /\ Owner(c) = "U"
  BY Constants DEF Slots, Owner
<1> QED BY <1>1, <1>2, <1>3, <1>4, <1>5, <1>6, <1>7, PeerSteps

\* What D reads after a step it read before, or it was handed over.
LEMMA ReadsOwn ==
  ASSUME Types, TablesOwn, Next, ConnOf(Own)' # NoConn
  PROVE  \/ ReceiveFd /\ ConnOf(Own)' = Head(xfer)
         \/ sp'[Own].tcp # NoSock /\ sp'[Own].tcp = sp[Own].tcp /\ ConnOf(Own)' = ConnOf(Own)
<1>0. /\ Own \in Slots /\ Owner(Own) = "D" /\ "D" \in Procs /\ sp \in Sps /\ fd \in Tables
      /\ Owner(Own)' = "D"
  BY DEF Slots, Owner, Procs, Types
<1>1. sp'[Own].tcp # NoSock /\ ConnOf(Own)' = fd'["D"][sp'[Own].tcp]
  BY <1>0 DEF ConnOf
<1>2. CASE Frame
  <2>1. sp'[Own].tcp = sp[Own].tcp /\ sp[Own].tcp \in Sock
    BY <1>0, <1>1, <1>2 DEF Frame, SlotKept, Gone, Sps
  <2>2. fd'["D"][sp[Own].tcp] = fd["D"][sp[Own].tcp]
    BY <1>0, <1>1, <1>2, <2>1 DEF Frame
  <2> QED BY <1>0, <1>1, <2>1, <2>2 DEF ConnOf
<1>3. CASE ReceiveFd
  BY <1>1, <1>3, ReceiveFdIs
<1>4. ASSUME NEW c \in Conns, Connects(c) \/ RemoteConnects(c)
      PROVE  sp'[Own].tcp = sp[Own].tcp /\ ConnOf(Own)' = ConnOf(Own)
  <2>1. fd'["D"] = fd["D"]
    BY <1>0, <1>4 DEF Connects, RemoteConnects, Tables, Procs
  <2>2. sp'[Own] = sp[Own]
    BY <1>0, <1>4, Constants DEF Connects, RemoteConnects, Sps
  <2> QED BY <1>0, <1>1, <2>1, <2>2 DEF ConnOf
<1> QED BY <1>1, <1>2, <1>3, <1>4, FrameIs

LEMMA InitiatorNext ==
  ASSUME Apart, Types, Types', TablesOwn, SlotsOwn, EventsOwn, LockState, Roles,
         HandedOver, Initiator, Next
  PROVE  Initiator'
<1>n. None \notin Locks /\ "U" \in Locks
  BY Constants DEF Locks
<1>s. Own \in Slots /\ Owner(Own) = "D" /\ \A i \in Slots : i # Own => i \in Conns /\ Owner(i) = "U"
  BY DEF Slots, Owner
\* A disconnection that costs the socket is that of D's own slot.
<1>d. ASSUME NEW i \in Slots, p.I = sp[i].tcp, p.I # NoSock PROVE i = Own
  <2>1. i # Own => sp[i].tcp \in Numbers["U"] \cup {NoSock}
    BY <1>s DEF SlotsOwn
  <2> QED BY <1>d, <2>1 DEF Apart, Roles
<1>1. ASSUME p'.state = "I_Open" PROVE p'.I # NoSock
  <2>1. CASE PeerSame \/ ReceiveFd \/ \E c \in Conns : Connects(c)
    BY <1>1, <2>1, ReceiveFdIs DEF PeerSame, Connects, Initiator
  <2>2. ASSUME NEW r \in {"D", "U"}, CEA(r) PROVE p'.I # NoSock
    <3>1. r = "D" /\ ev["D"].name = "CEA" /\ lock = None /\ p.state = "Wait_I_CEA"
      BY <2>2 DEF CEA, Locked, EventsOwn
    <3> QED BY <1>1, <2>2, <3>1, CEAIs DEF Becomes, Initiator, AwaitsCEA
  <2>3. ASSUME NEW r \in {"D", "U"}, NEW i \in Slots, Disconnect(r, i) PROVE p'.I # NoSock
    <3>1. CASE ~sp[i].known
      BY <1>1, <2>3, <3>1, DisconnectIs DEF Initiator
    <3>2. CASE sp[i].known
      <4>1. p'.state = EndState(Both, sp[i].tcp) /\ p'.I = EndI(Both, sp[i].tcp)
        BY <2>3, <3>2, DisconnectIs DEF Becomes
      <4> QED BY <1>1, <4>1, BothIs DEF EndState, MidState, EndI, Initiator
    <3> QED BY <3>1, <3>2
  <2>4. ~Start /\ ~ConnectFails /\ ~StartReturns /\ ~ConnAck /\ ~ConnAckLoses
    BY <1>1, StartIs DEF Becomes, ConnectFails, StartReturns, ConnAck, ConnAckLoses, Types, PeerT,
                         LockState
  <2>5. ~WaitTimesOut /\ ~WatchdogGivesUp /\ ~CEASent
    BY <1>1, WaitTimesOutIs, WatchdogGivesUpIs, CEASentIs DEF Becomes
  <2>6. ~ConnAckWins
    BY <1>1, ConnAckWinsIs DEF Answered, NotAnswered, Becomes
  <2>7. \A c \in Conns : ~ConnCERKept(c)
    BY <1>1, ConnCERKeptIs DEF Becomes
  <2>8. \A r \in {"D", "U"} : ~NonCEA(r) /\ ~DPR(r)
    BY <1>1, NonCEAIs, DPRIs DEF Becomes
  <2>9. \A c \in Conns : ~ConnCERAnswered(c)
    <3>1. ASSUME NEW c \in Conns, ConnCERAnswered(c) PROVE FALSE
      <4>1. PICK h \in Boths : /\ h.p.state \in {p.state, "Wait_Returns"}
                               /\ \/ Answered(h, "U", sp[c].tcp, ev["U"].ok, FALSE)
                                  \/ NotAnswered(h, "U", sp[c].tcp, FALSE)
        BY <3>1, ConnCERAnsweredIs
      <4>2. p'.state = h.p.state \/ p'.state = EndState(h, sp[c].tcp)
        BY <4>1 DEF Answered, NotAnswered, Becomes
      <4>3. p.state \in {"Closed", "Wait_I_CEA"}
        BY <3>1 DEF ConnCERAnswered
      <4> QED BY <1>1, <4>1, <4>2, <4>3 DEF EndState, MidState
    <3> QED BY <3>1
  <2> QED BY <2>1, <2>2, <2>3, <2>4, <2>5, <2>6, <2>7, <2>8, <2>9, PeerSteps, <1>s DEF Slots
<1>2. ASSUME ev'["D"].name = "CEA", lock' = None, AwaitsCEA' PROVE p'.I # NoSock
  <2>i. Idle.name # "CEA"
    BY Constants DEF Idle, Names
  <2>1. CASE PeerSame
    <3>1. ev'["D"] = ev["D"] => p.I # NoSock
      BY <1>2, <2>1 DEF PeerSame, Initiator, AwaitsCEA
    <3>2. ASSUME NEW c \in Conns, NEW i \in Slots, NEW ok \in BOOLEAN,
                 ReceiveCEA(i, c, ok), Owner(i) = "D"
          PROVE  p.I # NoSock
      <4>1. i = Own /\ lock = None /\ AwaitsCEA
        BY <1>2, <1>s, <2>1, <3>2 DEF PeerSame, AwaitsCEA
      <4>2. ConnOf(Own) = c /\ net[c].by = "us" /\ net[c].phase = "cer"
        BY <1>s, <3>2, <4>1 DEF ReceiveCEA, Receive, Reads, ConnOf
      <4> QED BY <4>1, <4>2, Constants DEF Initiator, SentCER, Us
    <3>4. ConnAck \/ ConnAckWins \/ ConnAckLoses \/ ConnAckIgnored => ev'["D"] = Idle
      BY HandledIs DEF ConnAck, ConnAckWins, ConnAckLoses, ConnAckIgnored
    <3>3. ReceiveFd => ev'["D"] = ev["D"] \/ ev'["D"].name = "I_Rcv_Conn_Ack"
      BY ReceiveFdIs
    <3>6. p.I # NoSock
      BY <1>2, <2>i, <3>1, <3>2, <3>3, <3>4, EventSteps
    <3> QED BY <2>1, <3>6 DEF PeerSame
  <2>2. CASE ReceiveFd \/ ConnAck \/ ConnAckLoses
    BY <1>2, <2>i, <2>2, ReceiveFdIs, HandledIs DEF ConnAck, ConnAckLoses
  <2>3. ASSUME AwaitsCEA, lock = None, NEW i \in Slots, Disconnect(Owner(i), i),
               p'.I = p.I \/ p.I = sp[i].tcp
        PROVE  p'.I # NoSock
    <3>1. Owner(i) = "U" /\ ev'["D"] = ev["D"] /\ i # Own
      BY <1>2, <1>s, <2>i, <2>3, DisconnectLeaves
    <3>2. p.I # NoSock
      BY <1>2, <2>3, <3>1 DEF Initiator
    <3> QED BY <1>d, <2>3, <3>1, <3>2
  <2> QED BY <1>2, <2>1, <2>2, <2>3, WaitSteps
<1>3. ASSUME lock' = None, AwaitsCEA', p'.I = NoSock, SentCER(ConnOf(Own))' PROVE FALSE
  <2> DEFINE c == ConnOf(Own)'
  <2>1. c # NoConn /\ net'[c].by = "us" /\ net'[c].phase = "cer" /\ c \in Conns
    <3>1. c # NoConn /\ net'[c].by = "us" /\ net'[c].phase = "cer"
      BY <1>3 DEF SentCER, Us
    <3>2. c \in Conns \cup {NoConn}
      BY <1>s DEF ConnOf, Types, Sps, Tables, Procs, Owner
    <3> QED BY <3>1, <3>2
  <2>2. ~ConnAck /\ ~ConnAckLoses
    <3>1. ConnAck \/ ConnAckLoses => p'.I = p.I /\ p.I # NoSock
      BY DEF ConnAck, ConnAckLoses, Locked, Types, PeerT, Roles
    <3> QED BY <1>3, <3>1
  <2>3. ~ReceiveFd
    <3>1. ASSUME ReceiveFd PROVE FALSE
      <4>1. xfer # <<>> /\ net' = net
        BY <3>1, ReceiveFdIs
      <4>2. 1 \in 1..Len(xfer) /\ Head(xfer) = xfer[1]
        BY <4>1 DEF Types
      <4>3. c = Head(xfer)
        <5>1. sp'[Own].tcp = NextSock("D") /\ NextSock("D") # NoSock /\ fd'["D"][NextSock("D")] = Head(xfer)
          BY <3>1, ReceiveFdIs, Constants
        <5> QED BY <1>s, <5>1 DEF ConnOf, Owner
      <4> HIDE DEF c
      <4>4. net[Head(xfer)].phase = "new"
        BY <2>1, <4>1, <4>2, <4>3 DEF HandedOver, Us
      <4> QED BY <2>1, <4>1, <4>3, <4>4
    <3> QED BY <3>1
  <2>4. sp'[Own].tcp # NoSock /\ sp'[Own].tcp = sp[Own].tcp /\ c = ConnOf(Own)
    BY <2>1, <2>3, ReadsOwn
  <2>5. net[c].by = "us" /\ net[c].phase = "cer"
    <3> HIDE DEF c
    <3>1. net[c].by # "none"
      <4>1. c = fd["D"][sp[Own].tcp] /\ sp[Own].tcp \in Sock
        BY <1>s, <2>4 DEF ConnOf, Types, Sps
      <4> QED BY <2>1, <4>1 DEF TablesOwn, Procs
    <3>2. net[c].by = "us"
      BY <2>1, <3>1, SidesKept
    <3>3. net[c].phase = "cer"
      BY <2>1, <2>2, <3>1, PhaseSteps
    <3> QED BY <3>2, <3>3
  <2> HIDE DEF c
  <2>6. CASE PeerSame
    BY <1>3, <2>1, <2>4, <2>5, <2>6 DEF PeerSame, Initiator, AwaitsCEA, SentCER, Us
  <2>7. ASSUME AwaitsCEA, lock = None, NEW i \in Slots, Disconnect(Owner(i), i),
               p'.I = p.I \/ p.I = sp[i].tcp
        PROVE  FALSE
    <3>1. i # Own
      BY <1>s, <2>4, <2>7, DisconnectLeaves
    <3>2. p.I = NoSock
      BY <1>3, <1>d, <2>7, <3>1
    <3> QED BY <2>1, <2>4, <2>5, <2>7, <3>2 DEF Initiator, SentCER, Us
  <2> QED BY <1>3, <2>2, <2>3, <2>6, <2>7, WaitSteps
<1>4. ASSUME p'.state = "Wait_Conn_Ack_Elect", ev'["D"].name = "I_Rcv_Conn_Ack"
      PROVE  p'.R \in Numbers["U"] \cup {NoSock}
  <2>i. Idle.name # "I_Rcv_Conn_Ack"
    BY Constants DEF Idle, Names
  <2>1. ev["D"].name = "I_Rcv_Conn_Ack"
    <3>1. ConnAck \/ ConnAckWins \/ ConnAckLoses \/ ConnAckIgnored => ev'["D"] = Idle
      BY HandledIs DEF ConnAck, ConnAckWins, ConnAckLoses, ConnAckIgnored
    <3>2. ReceiveFd => ev["D"] = Idle /\ (p.state # "Wait_Conn_Ack" => ev' = ev) /\ p'.state = p.state
      BY ReceiveFdIs
    <3> QED BY <1>4, <2>i, <3>1, <3>2, EventSteps
  <2>2. ASSUME NEW c \in Conns, ConnCERKept(c) PROVE p'.R \in Numbers["U"] \cup {NoSock}
    <3>1. p'.R = sp[c].tcp \/ p'.R = NoSock
      BY <2>2, ConnCERKeptIs DEF Becomes
    <3> QED BY <3>1 DEF SlotsOwn
  <2>3. CASE p.state = "Wait_Conn_Ack_Elect"
    <3>1. p.R \in Numbers["U"] \cup {NoSock}
      BY <2>1, <2>3 DEF Initiator
    <3>2. CASE PeerSame
      BY <3>1, <3>2 DEF PeerSame
    <3>3. ASSUME NEW r \in {"D", "U"}, NEW i \in Slots, Disconnect(r, i) PROVE p'.R \in {p.R, NoSock}
      <4>1. p' = p \/ p'.R = EndR(Both, sp[i].tcp)
        BY <3>3, DisconnectIs DEF Becomes
      <4> QED BY <4>1, BothIs DEF EndR
    <3>4. ~Start /\ ~ConnectFails /\ ~StartReturns /\ ~ConnAck /\ ~ConnAckLoses
          /\ (\A c \in Conns : ~Connects(c)) /\ ~ReceiveFd
      <4>1. lock \notin {"T_connects", "T_connected"} /\ ev["D"] # Idle
        BY <2>1, <2>3, <2>i DEF LockState
      <4> QED BY <1>4, <2>3, <4>1, ReceiveFdIs DEF Start, TimerSees, ConnectFails, StartReturns, ConnAck,
                  ConnAckLoses, Connects, Types, PeerT
    <3>5. ~WaitTimesOut /\ ~WatchdogGivesUp /\ ~CEASent
      BY <1>4, WaitTimesOutIs, WatchdogGivesUpIs, CEASentIs DEF Becomes
    <3>6. ~ConnAckWins
      BY <1>4, ConnAckWinsIs DEF Answered, NotAnswered, Becomes
    <3>7. \A r \in {"D", "U"} : ~CEA(r) /\ ~NonCEA(r) /\ ~DPR(r)
      BY <1>4, CEAIs, NonCEAIs, DPRIs DEF Becomes
    <3>8. \A c \in Conns : ~ConnCERAnswered(c)
      BY <2>3 DEF ConnCERAnswered
    <3> QED BY <2>2, <3>1, <3>2, <3>3, <3>4, <3>5, <3>6, <3>7, <3>8, PeerSteps DEF Slots
  <2>4. CASE p.state # "Wait_Conn_Ack_Elect"
    BY <1>4, <2>2, <2>4, StateSteps
  <2> QED BY <2>3, <2>4
<1> QED BY <1>1, <1>2, <1>3, <1>4 DEF Initiator

\* A peer open as initiator has its socket, when U has descriptor numbers of its own. It is
\* not so when a number means one descriptor in U and another in T or D: a disconnection in U
\* then takes the initiated socket (receiver.c:239).
THEOREM InitiatorsAreConnected ==
  ASSUME Apart
  PROVE  Spec => []ConnectedAsInitiator
<1> DEFINE Inv == PeerInv /\ HandedOver /\ Initiator
<1>1. Init => Inv
  BY TypesInit, OwnInit, RolesInit, SidesInit, InitiatorInit DEF PeerInv
<1>2. ASSUME Inv, [Next]_vars PROVE Inv'
  <2>1. CASE Next
    <3>1. Types'
      BY <1>2, TypesNext DEF PeerInv
    <3>2. PeerInv'
      BY <1>2, <2>1, <3>1, TablesNext, SlotsNext, EventsNext, RolesNext, OnlyUsNext, OnlyThemNext
         DEF PeerInv
    <3> QED BY <1>2, <2>1, <3>1, <3>2, HandedOverNext, InitiatorNext DEF PeerInv
  <2>2. CASE UNCHANGED vars
    <3>1. PeerInv'
      BY <1>2, <2>2 DEF vars, PeerInv, Types, TablesOwn, SlotsOwn, EventsOwn, LockState, Roles,
           OnlyUs, OnlyThem, OneDials, Reads_R, Us, Them
    <3>2. HandedOver' /\ Initiator'
      BY <1>2, <2>2 DEF vars, HandedOver, Initiator, AwaitsCEA, SentCER, ConnOf, Us
    <3> QED BY <3>1, <3>2
  <2> QED BY <1>2, <2>1, <2>2
<1>3. Inv => ConnectedAsInitiator
  BY DEF Initiator, ConnectedAsInitiator
<1> HIDE DEF Inv
<1> QED BY <1>1, <1>2, <1>3, PTL DEF Spec
=============================================================================
