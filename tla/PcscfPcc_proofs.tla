--------------------------- MODULE PcscfPcc_proofs ---------------------------
(***************************************************************************)
(* Proofs about the sessions of the P-CSCF's calls, for any processes,     *)
(* dialogs, rows, number of sessions and of calls, with the session timer  *)
(* and with the requests that cannot be built.                             *)
(***************************************************************************)
EXTENDS PcscfPcc, SequenceTheorems, WellFoundedInduction, TLAPS

\* Parts of TypeOK, by what the actions change together.
SesTypes ==
  /\ state \in [Sessions -> {"unused", "IDLE", "PENDING", "OPEN", "DISCON", "freed"}]
  /\ owner \in [Sessions -> Dialogs \cup {None}]
  /\ data \in [Sessions -> BOOLEAN] /\ strSent \subseteq Sessions
  /\ due \in [Sessions -> {"no", "lifetime", "timeout"}]

Messages == [kind : {"AAA_OK", "AAA_BAD", "STA", "ASR", "RAR"},
             s : Sessions, by : Procs \cup {None}]

NetTypes ==
  /\ toPcrf \subseteq [kind : {"AAR", "STR"}, s : Sessions, by : Procs \cup {None}]
  /\ fromPcrf \in Seq(Messages)
  /\ known \subseteq Sessions /\ asked \subseteq Sessions
  /\ tasks \subseteq [kind : {"ASR", "RAR"}, s : Sessions]

\* Where a process works for a dialog, and where it works on a session.
ForDialog == {"aar", "aarRow", "build", "discard", "aarPeer", "aarSend", "await", "onreply",
              "str", "strRow", "drop", "expire", "term"}
WithSession == {"build", "discard", "aarPeer", "aarSend", "await", "strRow", "term", "strPeer",
                "strSend", "AAA_OK", "AAA_BAD", "STA", "ASR", "RAR", "cleanup", "asaData",
                "raaData", "raaPeer", "raaSend"}

\* The places of a process, and what it has there.
Places == ForDialog \cup WithSession \cup {"idle", "scan"}

LocTypes ==
  /\ pc \in [Procs -> Places]
  /\ at \in [Procs -> Sessions \cup {None}]
  /\ on \in [Procs -> Dialogs \cup Procs \cup Rows \cup {None}]
  /\ \A p \in Procs : /\ pc[p] \in ForDialog => on[p] \in Dialogs
                      /\ pc[p] \in WithSession => at[p] \in Sessions
  /\ pc[Timer] = "scan" => on[Timer] \in Rows

LockTypes == lock \in [Locks -> Procs \cup {None}]

DlgTypes == live \subseteq Dialogs /\ link \in [Dialogs -> Sessions \cup {None}]

RestTypes == calls \in 0..MaxCalls /\ crashed \in {"no", "session", "data", "dialog"}

\* P_AAR() and P_STR() hold the slot of a dialog that is there, until they have the row.
SlotHeld ==
  \A p \in Procs : pc[p] \in {"aarRow", "strRow"} => on[p] \in live /\ lock[on[p]] = p

\* A dialog that is gone names no session.
LinkedAlive == \A d \in Dialogs : link[d] # None => d \in live

\* The inductive invariant behind LinkedIsLive.
Links == LinkedAlive /\ LinkedIsLive
Inv == SesTypes /\ NetTypes /\ LocTypes /\ LockTypes /\ DlgTypes /\ RestTypes /\ SlotHeld /\ Links

-----------------------------------------------------------------------------
(* Helpers.                                                                 *)

LEMMA LeastExists ==
  ASSUME NEW S, S \subseteq Nat, S # {}
  PROVE  \E m \in S : \A n \in S : m <= n
<1> DEFINE Less == {ss \in Nat \X Nat : ss[1] < ss[2]}
<1>1. IsWellFoundedOn(Less, Nat)
  BY NatLessThanWellFounded, Zenon DEF OpToRel
<1> HIDE DEF Less
<1>2. PICK m \in S : \A n \in S : <<n, m>> \notin Less
  BY <1>1, WFMin, Zenon
<1>3. \A n \in S : ~(n < m)
  BY <1>2 DEF Less
<1> QED BY <1>3

\* The next session of a row is a session, or there is none.
LEMMA NextInType ==
  ASSUME NEW r, NEW x PROVE NextIn(r, x) \in Sessions \cup {None}
<1> DEFINE later == {s \in InTable : Row(s) = r /\ s > x}
<1>1. later \subseteq Sessions /\ later \subseteq Nat
  BY PccAssumption DEF InTable, Sessions
<1>2. CASE later = {}
  BY <1>2 DEF NextIn
<1>3. CASE later # {}
  <2>1. \E s \in later : \A t \in later : s <= t
    BY <1>1, <1>3, LeastExists
  <2>2. (CHOOSE s \in later : \A t \in later : s <= t) \in later
    BY <2>1
  <2> QED BY <1>1, <1>3, <2>2 DEF NextIn
<1> QED BY <1>2, <1>3

\* One event of the machine keeps the types, and keeps the session in the table.
LEMMA ProcessKeeps ==
  ASSUME SesTypes, NetTypes, NEW s \in InTable, NEW ev, NEW msgs,
         msgs \subseteq [kind : {"AAR", "STR"}, s : Sessions, by : Procs \cup {None}],
         Process(s, ev, msgs)
  PROVE  /\ state' \in [Sessions -> {"unused", "IDLE", "PENDING", "OPEN", "DISCON", "freed"}]
         /\ due' \in [Sessions -> {"no", "lifetime", "timeout"}]
         /\ strSent' \subseteq Sessions
         /\ toPcrf' \subseteq [kind : {"AAR", "STR"}, s : Sessions, by : Procs \cup {None}]
         /\ InTable' = InTable
<1>1. s \in Sessions /\ state[s] \in {"IDLE", "PENDING", "OPEN", "DISCON"}
  BY DEF InTable
<1>2. Target(state[s], ev) \in {"IDLE", "PENDING", "OPEN", "DISCON"}
  BY <1>1 DEF Target
<1>3. state' = [state EXCEPT ![s] = Target(state[s], ev)]
  BY DEF Process
<1>4. InTable' = InTable
  BY <1>1, <1>2, <1>3 DEF InTable, SesTypes
<1>5. due' \in [Sessions -> {"no", "lifetime", "timeout"}]
  BY <1>1 DEF Process, update_auth_session_timers, SesTypes
<1>6. STR(s) \in [kind : {"AAR", "STR"}, s : Sessions, by : Procs \cup {None}]
  BY <1>1 DEF STR
<1>7. toPcrf' \subseteq [kind : {"AAR", "STR"}, s : Sessions, by : Procs \cup {None}]
  BY <1>6 DEF Process, NetTypes
<1>8. strSent' \subseteq Sessions
  BY <1>1 DEF Process, SesTypes
<1> QED BY <1>1, <1>2, <1>3, <1>4, <1>5, <1>7, <1>8 DEF SesTypes

\* Freeing a session after the callback leaves no dialog with its name.
LEMMA CallbackUnlinks ==
  ASSUME SesTypes, DlgTypes, Links, NEW s \in Sessions, Callback(s),
         \A t \in Sessions \ {s} : t \in InTable => t \in InTable'
  PROVE  DlgTypes' /\ Links'
<1> DEFINE d == owner[s]
           hit == data[s] /\ d \in live /\ link[d] # None
<1>1. /\ link' = IF hit THEN [link EXCEPT ![d] = None] ELSE link
      /\ data' = [data EXCEPT ![s] = FALSE] /\ live' = live /\ owner' = owner
  BY DEF Callback
<1>2. DlgTypes'
  BY <1>1 DEF DlgTypes
<1>3. LinkedAlive'
  BY <1>1 DEF Links, LinkedAlive, DlgTypes
<1>4. ASSUME NEW e \in Dialogs, link'[e] # None
      PROVE  link'[e] \in InTable' /\ data'[link'[e]] /\ owner'[link'[e]] = e
  <2>1. link[e] = link'[e] /\ link[e] \in Sessions
    BY <1>1, <1>4 DEF DlgTypes
  <2>2. link[e] \in InTable /\ data[link[e]] /\ owner[link[e]] = e /\ e \in live
    BY <2>1, <1>4 DEF Links, LinkedIsLive, LinkedAlive
  <2>3. link[e] # s
    BY <1>1, <1>4, <2>1, <2>2 DEF DlgTypes
  <2> QED BY <1>1, <2>1, <2>2, <2>3 DEF SesTypes
<1> QED BY <1>2, <1>3, <1>4 DEF Links, LinkedIsLive

\* What the sessions do to no link: the table keeps them, with their owner and data.
LEMMA LinksFrame ==
  ASSUME Links, UNCHANGED <<owner, data, live, link>>, InTable \subseteq InTable'
  PROVE  Links'
BY DEF Links, LinkedAlive, LinkedIsLive

\* A dialog that is unlinked, and perhaps deleted, names nothing that others name.
LEMMA UnlinkKeeps ==
  ASSUME DlgTypes, Links, NEW d \in Dialogs, link' = [link EXCEPT ![d] = None],
         live' \in {live, live \ {d}}, UNCHANGED <<state, owner, data>>
  PROVE  DlgTypes' /\ Links'
<1>1. DlgTypes'
  BY DEF DlgTypes
<1>2. InTable' = InTable
  BY DEF InTable
<1> QED BY <1>1, <1>2 DEF Links, LinkedAlive, LinkedIsLive, DlgTypes

\* A process that moves on, with the dialog it has.
LEMMA MoveKeeps ==
  ASSUME LocTypes, NEW p \in Procs, NEW w \in Places \ {"scan"}, NEW s \in Sessions \cup {None},
         pc' = [pc EXCEPT ![p] = w], (at' = at /\ s = at[p]) \/ at' = [at EXCEPT ![p] = s],
         on' = on, w \in ForDialog => on[p] \in Dialogs, w \in WithSession => s \in Sessions
  PROVE  LocTypes'
BY DEF LocTypes

LEMMA DoneKeeps ==
  ASSUME LocTypes, NEW p \in Procs, Done(p) PROVE LocTypes'
BY DEF LocTypes, Done, Places, ForDialog, WithSession

\* A message is sent, with an event of the machine if the table has the session.
LEMMA SendKeeps ==
  ASSUME SesTypes, NetTypes, NEW p \in Procs, NEW ev,
         NEW msg \in [kind : {"AAR", "STR"}, s : Sessions, by : Procs \cup {None}],
         Snd_Message(p, ev, msg), UNCHANGED <<owner, data, fromPcrf, known, asked, tasks>>
  PROVE  SesTypes' /\ NetTypes' /\ InTable' = InTable
<1>1. CASE at[p] \in InTable
  <2>1. Process(at[p], ev, {msg})
    BY <1>1 DEF Snd_Message
  <2> QED BY <1>1, <2>1, ProcessKeeps DEF SesTypes, NetTypes
<1>2. CASE at[p] \notin InTable
  <2>1. toPcrf' = toPcrf \cup {msg} /\ UNCHANGED <<state, due, strSent>>
    BY <1>2 DEF Snd_Message
  <2> QED BY <2>1 DEF SesTypes, NetTypes, InTable
<1> QED BY <1>1, <1>2

\* The machine has an event of a session, if the table has the session.
LEMMA EventKeeps ==
  ASSUME SesTypes, NetTypes, NEW s \in Sessions, NEW ev,
         \/ s \in InTable /\ Process(s, ev, {})
         \/ UNCHANGED <<state, due, strSent, toPcrf>>,
         UNCHANGED <<owner, data>>
  PROVE  /\ SesTypes' /\ InTable' = InTable
         /\ toPcrf' \subseteq [kind : {"AAR", "STR"}, s : Sessions, by : Procs \cup {None}]
<1>1. CASE s \in InTable /\ Process(s, ev, {})
  BY <1>1, ProcessKeeps DEF SesTypes
<1>2. CASE UNCHANGED <<state, due, strSent, toPcrf>>
  BY <1>2 DEF SesTypes, NetTypes, InTable
<1> QED BY <1>1, <1>2

LEMMA DropKeeps ==
  ASSUME SesTypes, DlgTypes, Links, NEW p \in Procs, at[p] \in Sessions, DropSession(p),
         UNCHANGED <<due, strSent>>
  PROVE  SesTypes' /\ DlgTypes' /\ Links'
<1>1. /\ Callback(at[p]) /\ state' = [state EXCEPT ![at[p]] = "freed"]
      /\ UNCHANGED owner /\ data' = [data EXCEPT ![at[p]] = FALSE]
  BY DEF DropSession, Callback
<1>2. SesTypes'
  BY <1>1 DEF SesTypes
<1>3. \A t \in Sessions \ {at[p]} : t \in InTable => t \in InTable'
  BY <1>1 DEF InTable, SesTypes
<1> QED BY <1>1, <1>2, <1>3, CallbackUnlinks

-----------------------------------------------------------------------------
(* One step per action.                                                     *)

LEMMA CallStepInv ==
  ASSUME Inv, NEW p \in Callers \cup {Worker}, CallStep(p), UNCHANGED calls PROVE Inv'
<1> USE DEF Inv
<1>1. p \in Procs /\ None \notin Procs
  BY PccAssumption DEF Callers, Procs
<1>2. CASE NoDialog(p)
  <2>1. SesTypes' /\ NetTypes' /\ RestTypes'
    BY <1>1, <1>2 DEF NoDialog, Done, sesVars, netVars, SesTypes, NetTypes, RestTypes
  <2>2. LocTypes'
    BY <1>1, <1>2 DEF NoDialog, Done, LocTypes, Places, ForDialog, WithSession
  <2>3. LockTypes' /\ SlotHeld'
    BY <1>1, <1>2 DEF NoDialog, Done, dlgVars, LockTypes, SlotHeld, WithSession
  <2>4. DlgTypes' /\ Links'
    BY <1>1, <1>2, LinksFrame DEF NoDialog, Done, sesVars, dlgVars, DlgTypes, InTable
  <2> QED BY <2>1, <2>2, <2>3, <2>4
<1>3. CASE GetDialog(p)
  <2>1. SesTypes' /\ NetTypes' /\ RestTypes'
    BY <1>1, <1>3
       DEF GetDialog, GotoWith, Take, sesVars, netVars, SesTypes, NetTypes, RestTypes
  <2>2. LocTypes'
    BY <1>1, <1>3
       DEF GetDialog, GotoWith, Take, LocTypes, DlgTypes, Places, ForDialog, WithSession
  <2>3. LockTypes' /\ SlotHeld'
    BY <1>1, <1>3
       DEF GetDialog, GotoWith, Take, Free, dlgVars, LocTypes, LockTypes, SlotHeld,
           Locks, Places, WithSession
  <2>4. DlgTypes' /\ Links'
    BY <1>1, <1>3, LinksFrame
       DEF GetDialog, GotoWith, Take, sesVars, dlgVars, DlgTypes, InTable
  <2> QED BY <2>1, <2>2, <2>3, <2>4
<1>4. CASE CreateSession(p)
  <2>1. PICK s \in Unused :
          /\ state' = [state EXCEPT ![s] = "IDLE"]
          /\ owner' = [owner EXCEPT ![s] = on[p]] /\ data' = [data EXCEPT ![s] = TRUE]
          /\ link' = [link EXCEPT ![on[p]] = s]
          /\ Swap(p, Row(s), on[p]) /\ GotoWith(p, "build", s)
    BY <1>4 DEF CreateSession
  <2>2. s \in Sessions /\ state[s] = "unused"
    BY DEF Unused
  <2>3. pc[p] = "aarRow" /\ on[p] \in Dialogs /\ on[p] \in live
    BY <1>1, <1>4 DEF CreateSession, LocTypes, SlotHeld, ForDialog
  <2>4. UNCHANGED <<due, strSent, live, netVars, crashed>>
    BY <1>4 DEF CreateSession
  <2>5. SesTypes' /\ NetTypes' /\ RestTypes' /\ DlgTypes'
    BY <2>1, <2>2, <2>3, <2>4 DEF netVars, SesTypes, NetTypes, RestTypes, DlgTypes
  <2>6. LocTypes'
    BY <1>1, <2>1, <2>2, <2>3, MoveKeeps DEF GotoWith, Places, ForDialog
  <2>7. LockTypes' /\ SlotHeld'
    BY <1>1, <2>1, <2>2, <2>3, <2>4, PccAssumption
       DEF Swap, Row, GotoWith, LocTypes, LockTypes, SlotHeld, Locks, ForDialog
  <2>8. s \in InTable' /\ \A t \in InTable : t # s /\ t \in InTable'
    BY <2>1, <2>2 DEF InTable, SesTypes
  <2>9. Links'
    BY <2>1, <2>2, <2>3, <2>4, <2>8
       DEF Links, LinkedAlive, LinkedIsLive, SesTypes, DlgTypes
  <2> QED BY <2>5, <2>6, <2>7, <2>9
<1>5. CASE NoMemory(p)
  <2>1. SesTypes' /\ NetTypes' /\ RestTypes'
    BY <1>1, <1>5
       DEF NoMemory, Done, Unlock, sesVars, netVars, SesTypes, NetTypes, RestTypes
  <2>2. LocTypes'
    BY <1>1, <1>5 DEF NoMemory, Done, Unlock, LocTypes, Places, ForDialog, WithSession
  <2>3. LockTypes' /\ SlotHeld'
    BY <1>1, <1>5
       DEF NoMemory, Done, Unlock, dlgVars, LocTypes, LockTypes, SlotHeld, Locks,
           ForDialog, WithSession
  <2>4. DlgTypes' /\ Links'
    BY <1>1, <1>5, LinksFrame
       DEF NoMemory, Done, Unlock, sesVars, dlgVars, DlgTypes, InTable
  <2> QED BY <2>1, <2>2, <2>3, <2>4
<1>6. CASE FindSession(p)
  <2>1. SesTypes' /\ NetTypes' /\ RestTypes'
    BY <1>1, <1>6
       DEF FindSession, Goto, Swap, sesVars, netVars, SesTypes, NetTypes, RestTypes
  <2>2. LocTypes'
    <3>1. CASE at[p] \in InTable
      BY <1>1, <1>6, <3>1, MoveKeeps
         DEF FindSession, Goto, LocTypes, InTable, Places, WithSession
    <3>2. CASE at[p] \notin InTable
      BY <1>6, <3>2 DEF FindSession, locVars, LocTypes
    <3> QED BY <3>1, <3>2
  <2>3. LockTypes' /\ SlotHeld'
    BY <1>1, <1>6
       DEF FindSession, Goto, Swap, Free, dlgVars, locVars, LocTypes, LockTypes,
           SlotHeld, Locks, ForDialog, WithSession
  <2>4. DlgTypes' /\ Links'
    BY <1>1, <1>6, LinksFrame
       DEF FindSession, Goto, Swap, sesVars, dlgVars, DlgTypes, InTable
  <2> QED BY <2>1, <2>2, <2>3, <2>4
<1>7. CASE BuildAAR(p)
  <2>1. SesTypes' /\ NetTypes' /\ RestTypes'
    BY <1>1, <1>7
       DEF BuildAAR, Goto, Unlock, sesVars, netVars, SesTypes, NetTypes, RestTypes
  <2>2. LocTypes'
    <3>1. CASE data[at[p]]
      BY <1>1, <1>7, <3>1, MoveKeeps
         DEF BuildAAR, Goto, LocTypes, Places, ForDialog, WithSession
    <3>2. CASE ~data[at[p]]
      BY <1>7, <3>2 DEF BuildAAR, locVars, LocTypes
    <3> QED BY <3>1, <3>2
  <2>3. LockTypes' /\ SlotHeld'
    BY <1>1, <1>7, PccAssumption
       DEF BuildAAR, Goto, Unlock, Row, dlgVars, locVars, LocTypes, LockTypes, SlotHeld,
           Locks, ForDialog, WithSession
  <2>4. DlgTypes' /\ Links'
    BY <1>1, <1>7, LinksFrame
       DEF BuildAAR, Goto, Unlock, sesVars, dlgVars, DlgTypes, InTable
  <2> QED BY <2>1, <2>2, <2>3, <2>4
<1>8. CASE NotSent(p)
  <2>1. SesTypes' /\ NetTypes' /\ RestTypes'
    BY <1>1, <1>8
       DEF NotSent, Done, Unlock, Slots, sesVars, netVars, SesTypes, NetTypes, RestTypes
  <2>2. LocTypes'
    BY <1>1, <1>8
       DEF NotSent, Done, Unlock, Slots, LocTypes, Places, ForDialog, WithSession
  <2>3. LockTypes' /\ SlotHeld'
    BY <1>1, <1>8
       DEF NotSent, Done, Unlock, Slots, dlgVars, LocTypes, LockTypes, SlotHeld, Locks,
           ForDialog, WithSession
  <2>4. DlgTypes' /\ Links'
    BY <1>1, <1>8, LinksFrame
       DEF NotSent, Done, Unlock, Slots, sesVars, dlgVars, DlgTypes, InTable
  <2> QED BY <2>1, <2>2, <2>3, <2>4
<1>9. CASE GetPeer(p)
  <2>1. SesTypes' /\ NetTypes' /\ RestTypes'
    BY <1>1, <1>9
       DEF GetPeer, Goto, Take, sesVars, netVars, SesTypes, NetTypes, RestTypes
  <2>2. LocTypes'
    BY <1>1, <1>9 DEF GetPeer, Goto, Take, LocTypes, Places, ForDialog, WithSession
  <2>3. LockTypes' /\ SlotHeld'
    BY <1>1, <1>9
       DEF GetPeer, Goto, Take, Free, dlgVars, LockTypes, SlotHeld, Locks, WithSession
  <2>4. DlgTypes' /\ Links'
    BY <1>1, <1>9, LinksFrame
       DEF GetPeer, Goto, Take, sesVars, dlgVars, DlgTypes, InTable
  <2> QED BY <2>1, <2>2, <2>3, <2>4
<1>10. CASE SendAAR(p)
  <2>1. at[p] \in Sessions
    BY <1>1, <1>10 DEF SendAAR, LocTypes, WithSession
  <2>2. /\ Snd_Message(p, "SEND_AAR", [kind |-> "AAR", s |-> at[p], by |-> p])
        /\ UNCHANGED <<owner, data, live, link, fromPcrf, known, asked, tasks, crashed>>
    BY <1>10 DEF SendAAR, dlgVars
  <2>3. SesTypes' /\ NetTypes' /\ InTable' = InTable
    BY <1>1, <2>1, <2>2, SendKeeps
  <2>4. RestTypes' /\ DlgTypes' /\ Links'
    BY <2>2, <2>3, LinksFrame DEF RestTypes, DlgTypes
  <2>5. LocTypes'
    BY <1>1, <1>10, <2>1 DEF SendAAR, Goto, LocTypes, Places, ForDialog, WithSession
  <2>6. LockTypes' /\ SlotHeld'
    BY <1>1, <1>10, PccAssumption
       DEF SendAAR, Snd_Message, Goto, Done, Unlock, Slots, dlgVars, LocTypes,
           LockTypes, SlotHeld, Locks, ForDialog
  <2> QED BY <2>3, <2>4, <2>5, <2>6
<1>11. CASE SendSTR(p)
  <2>1. at[p] \in Sessions
    BY <1>1, <1>11 DEF SendSTR, LocTypes, WithSession
  <2>2. /\ Snd_Message(p, "SEND_STR", [kind |-> "STR", s |-> at[p], by |-> p])
        /\ UNCHANGED <<owner, data, live, link, fromPcrf, known, asked, tasks, crashed>>
    BY <1>11 DEF SendSTR, dlgVars
  <2>3. SesTypes' /\ NetTypes' /\ InTable' = InTable
    BY <1>1, <2>1, <2>2, SendKeeps
  <2>4. RestTypes' /\ DlgTypes' /\ Links'
    BY <2>2, <2>3, LinksFrame DEF RestTypes, DlgTypes
  <2>5. LocTypes'
    BY <1>1, <1>11, <2>1, DoneKeeps DEF SendSTR, Goto, LocTypes, WithSession
  <2>6. LockTypes' /\ SlotHeld'
    BY <1>1, <1>11, PccAssumption
       DEF SendSTR, Snd_Message, Goto, Done, Unlock, Slots, dlgVars, LocTypes,
           LockTypes, SlotHeld, Locks, ForDialog
  <2> QED BY <2>3, <2>4, <2>5, <2>6
<1>12. CASE AnswerTimesOut(p)
  <2>1. SesTypes' /\ NetTypes' /\ RestTypes'
    <3>1. \A m \in Messages : Forget(m, p) \in Messages
      BY DEF Forget, Messages
    <3>2. \A m \in [kind : {"AAR", "STR"}, s : Sessions, by : Procs \cup {None}] :
            Forget(m, p) \in [kind : {"AAR", "STR"}, s : Sessions, by : Procs \cup {None}]
      BY DEF Forget
    <3>3. /\ toPcrf' = {Forget(m, p) : m \in toPcrf}
          /\ fromPcrf' = [i \in DOMAIN fromPcrf |-> Forget(fromPcrf[i], p)]
          /\ UNCHANGED <<sesVars, known, asked, tasks, crashed>>
      BY <1>12 DEF AnswerTimesOut
    <3>4. fromPcrf' \in Seq(Messages)
      BY <3>1, <3>3, SeqDef DEF NetTypes
    <3> QED BY <3>2, <3>3, <3>4 DEF sesVars, SesTypes, NetTypes, RestTypes
  <2>2. LocTypes'
    BY <1>1, <1>12 DEF AnswerTimesOut, Done, LocTypes, Places, ForDialog, WithSession
  <2>3. LockTypes' /\ SlotHeld'
    BY <1>1, <1>12 DEF AnswerTimesOut, Done, dlgVars, LockTypes, SlotHeld, WithSession
  <2>4. DlgTypes' /\ Links'
    BY <1>1, <1>12, LinksFrame
       DEF AnswerTimesOut, Done, sesVars, dlgVars, DlgTypes, InTable
  <2> QED BY <2>1, <2>2, <2>3, <2>4
<1>13. CASE ReleaseOnReply(p)
  <2>1. SesTypes' /\ NetTypes' /\ RestTypes'
    BY <1>1, <1>13
       DEF ReleaseOnReply, Done, sesVars, netVars, SesTypes, NetTypes, RestTypes
  <2>2. LocTypes'
    BY <1>1, <1>13 DEF ReleaseOnReply, Done, LocTypes, Places, ForDialog, WithSession
  <2>3. LockTypes' /\ SlotHeld'
    BY <1>1, <1>13 DEF ReleaseOnReply, Done, LockTypes, SlotHeld, WithSession
  <2>4. DlgTypes' /\ Links'
    BY <1>1, <1>13, UnlinkKeeps DEF ReleaseOnReply, Done, sesVars, DlgTypes, InTable
  <2> QED BY <2>1, <2>2, <2>3, <2>4
<1>14. CASE PCC_STR(p)
  <2>1. SesTypes' /\ NetTypes' /\ RestTypes'
    BY <1>1, <1>14
       DEF PCC_STR, GotoWith, Done, Unlock, Slots, send_STR, sesVars, netVars, SesTypes,
           NetTypes, RestTypes
  <2>2. LocTypes'
    <3>1. at[p] \in Sessions
      BY <1>1, <1>14 DEF PCC_STR, LocTypes, WithSession
    <3>2. UNCHANGED locVars \/ GotoWith(p, "strPeer", at[p]) \/ Done(p)
      BY <1>14 DEF PCC_STR, send_STR
    <3> QED BY <1>1, <3>1, <3>2, MoveKeeps, DoneKeeps
       DEF locVars, GotoWith, LocTypes, Places, ForDialog, WithSession
  <2>3. LockTypes' /\ SlotHeld'
    BY <1>1, <1>14
       DEF PCC_STR, GotoWith, Done, Unlock, Slots, send_STR, locVars, LocTypes,
           LockTypes, SlotHeld, Locks, ForDialog, WithSession
  <2>4. DlgTypes' /\ Links'
    BY <1>1, <1>14, LinksFrame, UnlinkKeeps
       DEF PCC_STR, GotoWith, Done, Unlock, Slots, send_STR, sesVars, DlgTypes, InTable
  <2> QED BY <2>1, <2>2, <2>3, <2>4
<1>15. CASE DropDialog(p)
  <2>1. SesTypes' /\ NetTypes' /\ RestTypes'
    BY <1>1, <1>15
       DEF DropDialog, GotoWith, Done, Take, sesVars, netVars, SesTypes, NetTypes,
           RestTypes
  <2>2. LocTypes'
    <3>1. on[p] \in Dialogs /\ link[on[p]] \in Sessions \cup {None}
      BY <1>1, <1>15 DEF DropDialog, DlgTypes, ForDialog
    <3>2. CASE link[on[p]] = None
      BY <1>1, <1>15, <3>2, DoneKeeps DEF DropDialog
    <3>3. CASE link[on[p]] # None
      BY <1>1, <1>15, <3>1, <3>3, MoveKeeps DEF DropDialog, GotoWith, Places, ForDialog
    <3> QED BY <3>2, <3>3
  <2>3. LockTypes' /\ SlotHeld'
    BY <1>1, <1>15
       DEF DropDialog, GotoWith, Done, Take, Free, LocTypes, LockTypes, SlotHeld, Locks,
           ForDialog, WithSession
  <2>4. DlgTypes' /\ Links'
    BY <1>1, <1>15, UnlinkKeeps
       DEF DropDialog, GotoWith, Done, Take, sesVars, DlgTypes, InTable
  <2> QED BY <2>1, <2>2, <2>3, <2>4
<1>16. CASE terminate_pcc_session(p)
  <2>1. SesTypes' /\ NetTypes' /\ RestTypes'
    BY <1>1, <1>16
       DEF terminate_pcc_session, GotoWith, Done, Unlock, Slots, send_STR, sesVars,
           netVars, SesTypes, NetTypes, RestTypes
  <2>2. LocTypes'
    <3>1. at[p] \in Sessions
      BY <1>1, <1>16 DEF terminate_pcc_session, LocTypes, WithSession
    <3>2. UNCHANGED locVars \/ GotoWith(p, "strPeer", at[p]) \/ Done(p)
      BY <1>16 DEF terminate_pcc_session, send_STR
    <3> QED BY <1>1, <3>1, <3>2, MoveKeeps, DoneKeeps
       DEF locVars, GotoWith, LocTypes, Places, ForDialog, WithSession
  <2>3. LockTypes' /\ SlotHeld'
    BY <1>1, <1>16
       DEF terminate_pcc_session, GotoWith, Done, Unlock, Slots, send_STR, dlgVars,
           locVars, LocTypes, LockTypes, SlotHeld, Locks, ForDialog, WithSession
  <2>4. DlgTypes' /\ Links'
    BY <1>1, <1>16, LinksFrame
       DEF terminate_pcc_session, GotoWith, Done, Unlock, Slots, send_STR, sesVars,
           dlgVars, DlgTypes, InTable
  <2> QED BY <2>1, <2>2, <2>3, <2>4
<1> QED BY <1>2, <1>3, <1>4, <1>5, <1>6, <1>7, <1>8, <1>9, <1>10, <1>11, <1>12, <1>13,
   <1>14, <1>15, <1>16
   DEF CallStep

LEMMA ReceiverInv ==
  ASSUME Inv, ReceiverStep, UNCHANGED calls PROVE Inv'
<1> USE DEF Inv
<1>1. Receiver \in Procs /\ None \notin Procs
  BY PccAssumption DEF Procs, Callers
<1>2. CASE Receive
  <2> DEFINE m == Head(fromPcrf)
  <2>1. /\ pc' = [pc EXCEPT ![Receiver] = m.kind] /\ at' = [at EXCEPT ![Receiver] = m.s]
        /\ on' = [on EXCEPT ![Receiver] = m.by]
        /\ fromPcrf # <<>> /\ fromPcrf' = Tail(fromPcrf)
        /\ UNCHANGED <<toPcrf, known, asked, tasks, lock, sesVars, live, link, crashed>>
    BY <1>2 DEF Receive, dlgVars
  <2>2. m \in Messages /\ Tail(fromPcrf) \in Seq(Messages)
    BY <2>1, HeadTailProperties DEF NetTypes
  <2>3. /\ m.kind \in {"AAA_OK", "AAA_BAD", "STA", "ASR", "RAR"}
        /\ m.s \in Sessions /\ m.by \in Procs \cup {None}
    BY <2>2 DEF Messages
  <2> HIDE DEF m
  <2>4. SesTypes' /\ NetTypes' /\ RestTypes' /\ LockTypes' /\ DlgTypes' /\ Links'
    BY <2>1, <2>2, LinksFrame
       DEF m, sesVars, SesTypes, NetTypes, RestTypes, LockTypes, DlgTypes, InTable
  <2>5. LocTypes'
    BY <1>1, <2>1, <2>3 DEF LocTypes, Places, ForDialog, WithSession
  <2>6. SlotHeld'
    BY <1>1, <2>1, <2>3 DEF LocTypes, SlotHeld
  <2> QED BY <2>4, <2>5, <2>6
<1>3. CASE RcvAAA
  <2> DEFINE u == on[Receiver]
             ok == pc[Receiver] = "AAA_OK"
             heard == u \in SipProcs /\ pc[u] = "await"
             ev == IF ok THEN "RECV_ANS_SUCCESS" ELSE "RECV_ANS_UNSUCCESS"
  <2>1. /\ pc' = [p \in Procs |-> IF p = Receiver \/ (heard /\ p = u /\ ok) THEN "idle"
                                  ELSE IF heard /\ p = u THEN "onreply" ELSE pc[p]]
        /\ at' = [p \in Procs |-> IF p = Receiver \/ (heard /\ p = u) THEN None ELSE at[p]]
        /\ on' = [p \in Procs |-> IF p = Receiver \/ (heard /\ p = u /\ ok) THEN None ELSE on[p]]
        /\ UNCHANGED <<owner, data, live, link, fromPcrf, known, asked, tasks, lock, crashed>>
    BY <1>3 DEF RcvAAA, dlgVars
  <2>2. at[Receiver] \in Sessions
    BY <1>1, <1>3 DEF RcvAAA, LocTypes, WithSession
  <2>3. \/ at[Receiver] \in InTable /\ Process(at[Receiver], ev, {})
        \/ UNCHANGED <<state, due, strSent, toPcrf>>
    BY <1>3 DEF RcvAAA
  <2>4. /\ SesTypes' /\ InTable' = InTable
        /\ toPcrf' \subseteq [kind : {"AAR", "STR"}, s : Sessions, by : Procs \cup {None}]
    BY <2>1, <2>2, <2>3, EventKeeps
  <2>5. NetTypes' /\ RestTypes' /\ LockTypes' /\ DlgTypes' /\ Links'
    BY <2>1, <2>4, LinksFrame DEF NetTypes, RestTypes, LockTypes, DlgTypes
  <2>6. heard => on[u] \in Dialogs
    BY DEF LocTypes, ForDialog, Procs
  <2>7. LocTypes'
    <3>1. \A p \in Procs :
            \/ pc'[p] = "idle"
            \/ pc'[p] = "onreply" /\ on'[p] = on[p] /\ on[p] \in Dialogs
            \/ pc'[p] = pc[p] /\ at'[p] = at[p] /\ on'[p] = on[p]
      BY <1>1, <2>1, <2>6 DEF LocTypes
    <3>2. /\ pc' \in [Procs -> Places] /\ at' \in [Procs -> Sessions \cup {None}]
          /\ on' \in [Procs -> Dialogs \cup Procs \cup Rows \cup {None}]
      BY <2>1 DEF LocTypes, Places, ForDialog
    <3> QED BY <3>1, <3>2, PccAssumption DEF LocTypes, Procs, ForDialog, WithSession
  <2>8. SlotHeld'
    BY <1>1, <2>1 DEF SlotHeld
  <2> QED BY <2>4, <2>5, <2>7, <2>8
<1>4. CASE RcvSTA
  <2>1. SesTypes' /\ NetTypes' /\ RestTypes'
    BY <1>1, <1>4
       DEF RcvSTA, Goto, Done, Take, sesVars, netVars, SesTypes, NetTypes, RestTypes,
           WithSession
  <2>2. LocTypes'
    <3>1. at[Receiver] \in Sessions
      BY <1>1, <1>4 DEF RcvSTA, LocTypes, WithSession
    <3>2. Goto(Receiver, "cleanup") \/ Done(Receiver)
      BY <1>4 DEF RcvSTA
    <3> QED BY <1>1, <3>1, <3>2, MoveKeeps, DoneKeeps
       DEF Goto, Places, ForDialog, WithSession
  <2>3. LockTypes' /\ SlotHeld'
    BY <1>1, <1>4
       DEF RcvSTA, Goto, Done, Take, Free, dlgVars, LocTypes, LockTypes, SlotHeld,
           Locks, ForDialog, WithSession
  <2>4. DlgTypes' /\ Links'
    BY <1>1, <1>4, LinksFrame
       DEF RcvSTA, Goto, Done, Take, sesVars, dlgVars, DlgTypes, InTable
  <2> QED BY <2>1, <2>2, <2>3, <2>4
<1>5. CASE CleanUp
  <2>1. at[Receiver] \in Sessions
    BY <1>1, <1>5 DEF CleanUp, LocTypes, WithSession
  <2>2. SesTypes' /\ DlgTypes' /\ Links'
    BY <1>1, <1>5, <2>1, DropKeeps DEF CleanUp
  <2>3. NetTypes' /\ RestTypes' /\ LocTypes'
    BY <1>1, <1>5, DoneKeeps DEF CleanUp, netVars, NetTypes, RestTypes
  <2>4. LockTypes' /\ SlotHeld'
    BY <1>1, <1>5, <2>1, PccAssumption
       DEF CleanUp, DropSession, Callback, Unlock, Row, Done, LocTypes, LockTypes,
           SlotHeld, Locks, ForDialog
  <2> QED BY <2>2, <2>3, <2>4
<1>6. CASE RcvRequest
  <2>1. at[Receiver] \in Sessions /\ pc[Receiver] \in {"ASR", "RAR"}
    BY <1>1, <1>6 DEF RcvRequest, LocTypes, WithSession
  <2>2. /\ tasks' = tasks \cup {[kind |-> pc[Receiver], s |-> at[Receiver]]} /\ Done(Receiver)
        /\ UNCHANGED <<owner, data, live, link, fromPcrf, known, asked, lock, crashed>>
    BY <1>6 DEF RcvRequest, dlgVars
  <2>3. \/ at[Receiver] \in InTable /\ Process(at[Receiver], "RECV_ASR", {})
        \/ UNCHANGED <<state, due, strSent, toPcrf>>
    BY <1>6 DEF RcvRequest
  <2>4. /\ SesTypes' /\ InTable' = InTable
        /\ toPcrf' \subseteq [kind : {"AAR", "STR"}, s : Sessions, by : Procs \cup {None}]
    BY <2>1, <2>2, <2>3, EventKeeps
  <2>5. NetTypes' /\ RestTypes' /\ LockTypes' /\ DlgTypes' /\ Links'
    BY <2>1, <2>2, <2>4, LinksFrame DEF NetTypes, RestTypes, LockTypes, DlgTypes
  <2>6. LocTypes' /\ SlotHeld'
    BY <1>1, <2>2, DoneKeeps DEF Done, SlotHeld, LocTypes
  <2> QED BY <2>4, <2>5, <2>6
<1> QED BY <1>2, <1>3, <1>4, <1>5, <1>6 DEF ReceiverStep

LEMMA WorkerInv ==
  ASSUME Inv, WorkerStep, UNCHANGED calls PROVE Inv'
<1> USE DEF Inv
<1>1. Worker \in Procs /\ None \notin Procs
  BY PccAssumption DEF Procs, Callers
<1>2. CASE TakeTask
  <2>1. SesTypes' /\ NetTypes' /\ RestTypes'
    BY <1>1, <1>2
       DEF TakeTask, GotoWith, sesVars, SesTypes, NetTypes, RestTypes, WithSession
  <2>2. LocTypes'
    BY <1>1, <1>2
       DEF TakeTask, GotoWith, LocTypes, NetTypes, Places, ForDialog, WithSession
  <2>3. LockTypes' /\ SlotHeld'
    BY <1>1, <1>2
       DEF TakeTask, GotoWith, dlgVars, NetTypes, LockTypes, SlotHeld, WithSession
  <2>4. DlgTypes' /\ Links'
    BY <1>1, <1>2, LinksFrame
       DEF TakeTask, GotoWith, sesVars, dlgVars, DlgTypes, InTable
  <2> QED BY <2>1, <2>2, <2>3, <2>4
<1>3. CASE GetRequested
  <2>1. SesTypes' /\ NetTypes' /\ RestTypes'
    BY <1>1, <1>3
       DEF GetRequested, Goto, Done, Take, sesVars, netVars, SesTypes, NetTypes,
           RestTypes, WithSession
  <2>2. LocTypes'
    <3>1. at[Worker] \in Sessions
      BY <1>1, <1>3 DEF GetRequested, LocTypes, WithSession
    <3>2. Goto(Worker, "asaData") \/ Goto(Worker, "raaData") \/ Done(Worker)
      BY <1>3 DEF GetRequested
    <3> QED BY <1>1, <3>1, <3>2, MoveKeeps, DoneKeeps
       DEF Goto, Places, ForDialog, WithSession
  <2>3. LockTypes' /\ SlotHeld'
    BY <1>1, <1>3
       DEF GetRequested, Goto, Done, Take, Free, dlgVars, LocTypes, LockTypes, SlotHeld,
           Locks, ForDialog, WithSession
  <2>4. DlgTypes' /\ Links'
    BY <1>1, <1>3, LinksFrame
       DEF GetRequested, Goto, Done, Take, sesVars, dlgVars, DlgTypes, InTable
  <2> QED BY <2>1, <2>2, <2>3, <2>4
<1>4. CASE pcc_data_release_safe
  <2>1. SesTypes' /\ NetTypes' /\ RestTypes'
    BY <1>1, <1>4
       DEF pcc_data_release_safe, Goto, Done, Unlock, sesVars, netVars, SesTypes,
           NetTypes, RestTypes, WithSession
  <2>2. LocTypes'
    <3>1. at[Worker] \in Sessions
      BY <1>1, <1>4 DEF pcc_data_release_safe, LocTypes, WithSession
    <3>2. Goto(Worker, "raaPeer") \/ Done(Worker)
      BY <1>4 DEF pcc_data_release_safe
    <3> QED BY <1>1, <3>1, <3>2, MoveKeeps, DoneKeeps
       DEF Goto, Places, ForDialog, WithSession
  <2>3. LockTypes' /\ SlotHeld'
    BY <1>1, <1>4, PccAssumption
       DEF pcc_data_release_safe, Goto, Done, Unlock, Row, LocTypes, LockTypes,
           SlotHeld, Locks, ForDialog, WithSession
  <2>4. DlgTypes' /\ Links'
    BY <1>1, <1>4, LinksFrame, UnlinkKeeps
       DEF pcc_data_release_safe, Goto, Done, Unlock, sesVars, DlgTypes, InTable
  <2> QED BY <2>1, <2>2, <2>3, <2>4
<1>5. CASE AnswerNotSent
  <2>1. SesTypes' /\ NetTypes' /\ RestTypes'
    BY <1>1, <1>5
       DEF AnswerNotSent, Goto, Done, Unlock, sesVars, netVars, SesTypes, NetTypes,
           RestTypes, WithSession
  <2>2. LocTypes'
    <3>1. at[Worker] \in Sessions
      BY <1>1, <1>5 DEF AnswerNotSent, LocTypes, WithSession
    <3>2. Goto(Worker, "strPeer") \/ Done(Worker)
      BY <1>5 DEF AnswerNotSent
    <3> QED BY <1>1, <3>1, <3>2, MoveKeeps, DoneKeeps
       DEF Goto, Places, ForDialog, WithSession
  <2>3. LockTypes' /\ SlotHeld'
    <3>1. at[Worker] \in Sessions
      BY <1>1, <1>5 DEF AnswerNotSent, LocTypes, WithSession
    <3>2. /\ Unlock({Row(at[Worker])}) /\ UNCHANGED live
          /\ \A p \in Procs : pc'[p] \in {"aarRow", "strRow"} =>
               pc[p] = pc'[p] /\ on'[p] = on[p] /\ on[p] \in Dialogs
      BY <1>1, <1>5 DEF AnswerNotSent, Goto, Done, dlgVars, LocTypes, ForDialog
    <3> QED BY <3>1, <3>2, PccAssumption DEF Unlock, Row, LockTypes, SlotHeld, Locks
  <2>4. DlgTypes' /\ Links'
    BY <1>1, <1>5, LinksFrame
       DEF AnswerNotSent, Goto, Done, Unlock, sesVars, dlgVars, DlgTypes, InTable
  <2> QED BY <2>1, <2>2, <2>3, <2>4
<1> QED BY <1>2, <1>3, <1>4, <1>5 DEF WorkerStep

LEMMA TimeoutInv ==
  ASSUME Inv, Timeout, UNCHANGED calls PROVE Inv'
<1> USE DEF Inv
<1>1. Timer \in Procs /\ None \notin Procs
  BY PccAssumption DEF Procs, Callers
<1>2. ASSUME NEW s \in Sessions, Expire(s) PROVE Inv'
  <2>1. SesTypes' /\ NetTypes' /\ RestTypes'
    BY <1>1, <1>2 DEF Expire, netVars, SesTypes, NetTypes, RestTypes, WithSession
  <2>2. LocTypes'
    BY <1>1, <1>2 DEF Expire, locVars, LocTypes, WithSession
  <2>3. LockTypes' /\ SlotHeld'
    BY <1>1, <1>2 DEF Expire, dlgVars, locVars, LockTypes, SlotHeld, WithSession
  <2>4. DlgTypes' /\ Links'
    BY <1>1, <1>2, LinksFrame DEF Expire, dlgVars, DlgTypes, InTable
  <2> QED BY <2>1, <2>2, <2>3, <2>4
<1>3. ASSUME NEW r \in Rows, StartScan(r) PROVE Inv'
  <2>1. SesTypes' /\ NetTypes' /\ RestTypes'
    BY <1>1, <1>3
       DEF StartScan, Take, sesVars, netVars, SesTypes, NetTypes, RestTypes, WithSession
  <2>2. LocTypes'
    <3>1. NextIn(r, 0) \in Sessions \cup {None}
      BY NextInType
    <3> QED BY <1>1, <1>3, <3>1 DEF StartScan, LocTypes, Places, ForDialog, WithSession
  <2>3. LockTypes' /\ SlotHeld'
    BY <1>1, <1>3
       DEF StartScan, Take, Free, dlgVars, LockTypes, SlotHeld, Locks, WithSession
  <2>4. DlgTypes' /\ Links'
    BY <1>1, <1>3, LinksFrame DEF StartScan, Take, sesVars, dlgVars, DlgTypes, InTable
  <2> QED BY <2>1, <2>2, <2>3, <2>4
<1>4. CASE VisitFreed
  <2>1. SesTypes' /\ NetTypes' /\ RestTypes'
    BY <1>1, <1>4
       DEF VisitFreed, sesVars, netVars, SesTypes, NetTypes, RestTypes, WithSession
  <2>2. LocTypes'
    BY <1>1, <1>4 DEF VisitFreed, locVars, LocTypes, WithSession
  <2>3. LockTypes' /\ SlotHeld'
    BY <1>1, <1>4 DEF VisitFreed, dlgVars, locVars, LockTypes, SlotHeld, WithSession
  <2>4. DlgTypes' /\ Links'
    BY <1>1, <1>4, LinksFrame DEF VisitFreed, sesVars, dlgVars, DlgTypes, InTable
  <2> QED BY <2>1, <2>2, <2>3, <2>4
<1>5. CASE Visit
  <2>1. SesTypes' /\ NetTypes' /\ RestTypes'
    BY <1>1, <1>5
       DEF Visit, Unlock, Advance, sesVars, netVars, SesTypes, NetTypes, RestTypes,
           WithSession
  <2>2. LocTypes'
    <3>1. pc[Timer] = "scan" /\ at' = [at EXCEPT ![Timer] = NextIn(on[Timer], at[Timer])]
          /\ UNCHANGED <<pc, on>>
      BY <1>1, <1>5 DEF Visit, Advance, LocTypes
    <3>2. NextIn(on[Timer], at[Timer]) \in Sessions \cup {None}
      BY NextInType
    <3> QED BY <1>1, <3>1, <3>2 DEF LocTypes, ForDialog, WithSession
  <2>3. LockTypes' /\ SlotHeld'
    BY <1>1, <1>5, PccAssumption
       DEF Visit, Unlock, Advance, dlgVars, LocTypes, LockTypes, SlotHeld, Locks,
           ForDialog, WithSession
  <2>4. DlgTypes' /\ Links'
    BY <1>1, <1>5, LinksFrame
       DEF Visit, Unlock, Advance, sesVars, dlgVars, DlgTypes, InTable
  <2> QED BY <2>1, <2>2, <2>3, <2>4
<1>6. CASE VisitExpired
  <2> DEFINE s == at[Timer]
  <2>1. s \in InTable /\ s \in Sessions
    BY <1>6 DEF VisitExpired, InTable
  <2>2. Callback(s) /\ UNCHANGED <<fromPcrf, known, asked, tasks>>
    BY <1>6 DEF VisitExpired
  <2>3. UNCHANGED owner /\ data' = [data EXCEPT ![s] = FALSE]
    BY <2>2 DEF Callback
  <2>4. \/ state' = [state EXCEPT ![s] = "freed"] /\ UNCHANGED <<due, strSent, toPcrf>>
        \/ Process(s, "SESSION_TIMEOUT", {})
    BY <1>6 DEF VisitExpired
  <2>5. /\ SesTypes' /\ \A t \in Sessions \ {s} : t \in InTable => t \in InTable'
        /\ toPcrf' \subseteq [kind : {"AAR", "STR"}, s : Sessions, by : Procs \cup {None}]
    <3>1. CASE state' = [state EXCEPT ![s] = "freed"] /\ UNCHANGED <<due, strSent, toPcrf>>
      BY <2>1, <2>3, <3>1 DEF SesTypes, NetTypes, InTable
    <3>2. CASE Process(s, "SESSION_TIMEOUT", {})
      BY <2>1, <2>3, <3>2, ProcessKeeps DEF SesTypes
    <3> QED BY <2>4, <3>1, <3>2
  <2>6. NetTypes' /\ RestTypes'
    BY <1>6, <2>2, <2>5 DEF VisitExpired, NetTypes, RestTypes
  <2>7. DlgTypes' /\ Links'
    BY <2>1, <2>2, <2>5, CallbackUnlinks
  <2>8. LocTypes'
    <3>1. pc[Timer] = "scan" /\ at' = [at EXCEPT ![Timer] = NextIn(on[Timer], at[Timer])]
          /\ UNCHANGED <<pc, on>>
      BY <1>1, <1>6 DEF VisitExpired, Advance, LocTypes
    <3>2. NextIn(on[Timer], at[Timer]) \in Sessions \cup {None}
      BY NextInType
    <3> QED BY <1>1, <3>1, <3>2 DEF LocTypes, ForDialog, WithSession
  <2>9. LockTypes' /\ SlotHeld'
    BY <1>1, <1>6, PccAssumption
       DEF VisitExpired, Advance, Callback, Unlock, LocTypes, LockTypes, SlotHeld,
           Locks, ForDialog
  <2> QED BY <2>5, <2>6, <2>7, <2>8, <2>9
<1>7. CASE EndScan
  <2>1. SesTypes' /\ NetTypes' /\ RestTypes'
    BY <1>1, <1>7
       DEF EndScan, Done, Unlock, sesVars, netVars, SesTypes, NetTypes, RestTypes,
           WithSession
  <2>2. LocTypes'
    BY <1>1, <1>7 DEF EndScan, Done, Unlock, LocTypes, Places, ForDialog, WithSession
  <2>3. LockTypes' /\ SlotHeld'
    BY <1>1, <1>7, PccAssumption
       DEF EndScan, Done, Unlock, dlgVars, LocTypes, LockTypes, SlotHeld, Locks,
           ForDialog, WithSession
  <2>4. DlgTypes' /\ Links'
    BY <1>1, <1>7, LinksFrame
       DEF EndScan, Done, Unlock, sesVars, dlgVars, DlgTypes, InTable
  <2> QED BY <2>1, <2>2, <2>3, <2>4
<1> QED BY <1>2, <1>3, <1>4, <1>5, <1>6, <1>7 DEF Timeout

LEMMA PcrfInv ==
  ASSUME Inv, PcrfStep, UNCHANGED calls PROVE Inv'
<1> USE DEF Inv
<1>1. None \notin Procs
  BY PccAssumption DEF Procs, Callers
<1>2. ASSUME NEW m \in toPcrf, Answer(m) PROVE Inv'
  <2>1. SesTypes' /\ NetTypes' /\ RestTypes'
    <3>1. m \in [kind : {"AAR", "STR"}, s : Sessions, by : Procs \cup {None}]
      BY DEF NetTypes
    <3>2. \A k \in {"AAA_OK", "AAA_BAD", "STA"} : [kind |-> k, s |-> m.s, by |-> m.by] \in Messages
      BY <3>1 DEF Messages
    <3>3. \E k \in {"AAA_OK", "AAA_BAD", "STA"} :
            fromPcrf' = Append(fromPcrf, [kind |-> k, s |-> m.s, by |-> m.by])
      BY <1>2 DEF Answer, PcrfSends
    <3>4. fromPcrf' \in Seq(Messages)
      BY <3>2, <3>3, AppendProperties DEF NetTypes
    <3>5. known' \subseteq Sessions
      BY <1>2, <3>1 DEF Answer, NetTypes
    <3> QED BY <1>2, <3>4, <3>5 DEF Answer, sesVars, SesTypes, NetTypes, RestTypes
  <2>2. LocTypes'
    BY <1>1, <1>2 DEF Answer, PcrfSends, locVars, LocTypes, WithSession
  <2>3. LockTypes' /\ SlotHeld'
    BY <1>1, <1>2
       DEF Answer, PcrfSends, dlgVars, locVars, LockTypes, SlotHeld, WithSession
  <2>4. DlgTypes' /\ Links'
    BY <1>1, <1>2, LinksFrame DEF Answer, PcrfSends, sesVars, dlgVars, DlgTypes, InTable
  <2> QED BY <2>1, <2>2, <2>3, <2>4
<1>3. ASSUME NEW s \in known, NEW k \in Requests, Ask(s, k) PROVE Inv'
  <2>1. SesTypes' /\ NetTypes' /\ RestTypes'
    BY <1>1, <1>3, PccAssumption
       DEF Ask, PcrfSends, sesVars, Messages, SesTypes, NetTypes, RestTypes, WithSession
  <2>2. LocTypes'
    BY <1>1, <1>3 DEF Ask, PcrfSends, locVars, LocTypes, WithSession
  <2>3. LockTypes' /\ SlotHeld'
    BY <1>1, <1>3 DEF Ask, PcrfSends, dlgVars, locVars, LockTypes, SlotHeld, WithSession
  <2>4. DlgTypes' /\ Links'
    BY <1>1, <1>3, LinksFrame DEF Ask, PcrfSends, sesVars, dlgVars, DlgTypes, InTable
  <2> QED BY <2>1, <2>2, <2>3, <2>4
<1> QED BY <1>2, <1>3 DEF PcrfStep

LEMMA FailureInv ==
  ASSUME Inv, NEW p \in Callers, BuildFails(p) \/ Discard(p), UNCHANGED calls PROVE Inv'
<1> USE DEF Inv
<1>1. p \in Procs /\ None \notin Procs
  BY PccAssumption DEF Procs, Callers
<1>2. CASE BuildFails(p)
  <2>1. SesTypes' /\ NetTypes' /\ RestTypes'
    BY <1>1, <1>2
       DEF BuildFails, Goto, Unlock, sesVars, netVars, SesTypes, NetTypes, RestTypes,
           WithSession
  <2>2. LocTypes'
    BY <1>1, <1>2 DEF BuildFails, Goto, Unlock, LocTypes, Places, ForDialog, WithSession
  <2>3. LockTypes' /\ SlotHeld'
    BY <1>1, <1>2, PccAssumption
       DEF BuildFails, Goto, Unlock, Row, dlgVars, LocTypes, LockTypes, SlotHeld, Locks,
           ForDialog, WithSession
  <2>4. DlgTypes' /\ Links'
    BY <1>1, <1>2, LinksFrame
       DEF BuildFails, Goto, Unlock, sesVars, dlgVars, DlgTypes, InTable
  <2> QED BY <2>1, <2>2, <2>3, <2>4
<1>3. CASE Discard(p)
  <2>1. at[p] \in Sessions
    BY <1>1, <1>3 DEF Discard, LocTypes, WithSession
  <2>2. SesTypes' /\ DlgTypes' /\ Links'
    BY <1>1, <1>3, <2>1, DropKeeps DEF Discard
  <2>3. NetTypes' /\ RestTypes' /\ LocTypes'
    BY <1>1, <1>3, DoneKeeps DEF Discard, netVars, NetTypes, RestTypes
  <2>4. LockTypes' /\ SlotHeld'
    BY <1>1, <1>3, <2>1, PccAssumption
       DEF Discard, DropSession, Callback, Unlock, Row, Done, LocTypes, LockTypes,
           SlotHeld, Locks, ForDialog
  <2> QED BY <2>2, <2>3, <2>4
<1> QED BY <1>2, <1>3 DEF Failure

LEMMA BeginInv ==
  ASSUME Inv, NEW p \in Callers, NEW d \in Dialogs, Begin(p, d) PROVE Inv'
<1> USE DEF Inv
<1>1. p \in Procs /\ None \notin Procs
  BY PccAssumption DEF Procs, Callers
<1>2. CASE Begin(p, d)
  <2>1. SesTypes' /\ NetTypes' /\ RestTypes'
    BY <1>1, <1>2, PccAssumption
       DEF Begin, sesVars, netVars, SesTypes, NetTypes, RestTypes, WithSession
  <2>2. LocTypes'
    BY <1>1, <1>2 DEF Begin, LocTypes, Places, ForDialog, WithSession
  <2>3. LockTypes' /\ SlotHeld'
    BY <1>1, <1>2 DEF Begin, dlgVars, LockTypes, SlotHeld, WithSession
  <2>4. DlgTypes' /\ Links'
    BY <1>1, <1>2, LinksFrame DEF Begin, sesVars, dlgVars, DlgTypes, InTable
  <2> QED BY <2>1, <2>2, <2>3, <2>4
<1> QED BY <1>2 DEF Begin

LEMMA StutterInv ==
  ASSUME Inv, UNCHANGED vars PROVE Inv'
BY
   DEF vars, sesVars, dlgVars, netVars, locVars, Inv, SesTypes, NetTypes, LocTypes,
       LockTypes, DlgTypes, RestTypes, SlotHeld, Links, LinkedAlive, LinkedIsLive,
       InTable

LEMMA NextInv == Inv /\ [NextWithFaults]_vars => Inv'
<1> SUFFICES ASSUME Inv, [NextWithFaults]_vars PROVE Inv'
  OBVIOUS
<1>1. ASSUME NEW p \in Callers, NEW d \in Dialogs, Begin(p, d) PROVE Inv'
  BY <1>1, BeginInv
<1>2. ASSUME NEW p \in Callers \cup {Worker}, CallStep(p), UNCHANGED calls PROVE Inv'
  BY <1>2, CallStepInv
<1>3. CASE ReceiverStep /\ UNCHANGED calls
  BY <1>3, ReceiverInv
<1>4. CASE WorkerStep /\ UNCHANGED calls
  BY <1>4, WorkerInv
<1>5. CASE PcrfStep /\ UNCHANGED calls
  BY <1>5, PcrfInv
<1>6. CASE Timeout /\ UNCHANGED calls
  BY <1>6, TimeoutInv
<1>7. ASSUME NEW p \in Callers, BuildFails(p) \/ Discard(p), UNCHANGED calls PROVE Inv'
  BY <1>7, FailureInv
<1>8. CASE UNCHANGED vars
  BY <1>8, StutterInv
<1> QED BY <1>1, <1>2, <1>3, <1>4, <1>5, <1>6, <1>7, <1>8
   DEF NextWithFaults, NextWithTime, Next, Failure

LEMMA InitInv == Init => Inv
<1> SUFFICES ASSUME Init PROVE Inv
  OBVIOUS
<1>1. SesTypes /\ NetTypes /\ LockTypes /\ DlgTypes
  BY DEF Init, SesTypes, NetTypes, LockTypes, DlgTypes
<1>2. LocTypes /\ SlotHeld
  <2>1. /\ pc = [p \in Procs |-> "idle"] /\ at = [p \in Procs |-> None]
        /\ on = [p \in Procs |-> None] /\ Timer \in Procs
    BY DEF Init, Procs
  <2> QED BY <2>1 DEF LocTypes, SlotHeld, Places, ForDialog, WithSession
<1>3. RestTypes
  BY PccAssumption DEF Init, RestTypes
<1>4. Links
  BY DEF Init, Links, LinkedAlive, LinkedIsLive
<1> QED BY <1>1, <1>2, <1>3, <1>4 DEF Inv

LEMMA InvType == Inv => TypeOK
BY
   DEF Inv, SesTypes, NetTypes, LocTypes, LockTypes, DlgTypes, RestTypes, TypeOK,
       Messages, Places, ForDialog, WithSession

-----------------------------------------------------------------------------
(* Rows, in the behaviours without the session timer and its time.          *)

\* HoldsWhatItUses where nothing scans.
Held ==
  \A p \in Procs : /\ pc[p] # "scan"
                   /\ pc[p] \in OnSession => lock[Row(at[p])] = p /\ at[p] \in InTable

HeldInv == Inv /\ Held

\* One process moves and keeps the locks of the others; the table keeps its sessions.
LEMMA HeldFrame ==
  ASSUME Held, NEW p \in Procs,
         \A q \in Procs \ {p} : pc'[q] = pc[q] /\ at'[q] = at[q],
         pc'[p] # "scan",
         pc'[p] \in OnSession => lock'[Row(at'[p])] = p /\ at'[p] \in InTable',
         \A q \in Procs \ {p}, r \in Rows : lock[r] = q => lock'[r] = q,
         InTable \subseteq InTable'
  PROVE  Held'
<1>1. \A s \in InTable : Row(s) \in Rows
  BY PccAssumption DEF InTable, Row
<1> QED BY <1>1 DEF Held, Row

LEMMA CallStepHeld ==
  ASSUME HeldInv, NEW p \in Callers \cup {Worker}, CallStep(p) PROVE Held'
<1> USE DEF HeldInv, Inv
<1>1. p \in Procs /\ None \notin Procs
  BY PccAssumption DEF Procs, Callers
<1>2. CASE NoDialog(p)
  BY <1>1, <1>2
     DEF NoDialog, Done, sesVars, Held, OnSession, InTable, SesTypes, WithSession, Row
<1>3. CASE GetDialog(p)
  BY <1>1, <1>3
     DEF GetDialog, GotoWith, Take, Free, sesVars, Held, OnSession, InTable, SesTypes,
         WithSession, Row
<1>4. CASE CreateSession(p)
  <2>1. PICK s \in Unused :
          /\ state' = [state EXCEPT ![s] = "IDLE"]
          /\ Free(Row(s)) /\ Swap(p, Row(s), on[p]) /\ GotoWith(p, "build", s)
    BY <1>4 DEF CreateSession
  <2>2. s \in Sessions /\ state[s] = "unused" /\ Row(s) \in Rows /\ on[p] \in Dialogs
    BY <1>1, <1>4, PccAssumption DEF CreateSession, Unused, Row, LocTypes, ForDialog
  <2>3. InTable \subseteq InTable' /\ s \in InTable'
    BY <2>1, <2>2 DEF InTable, SesTypes
  <2>4. lock'[Row(s)] = p /\ \A q \in Procs \ {p}, r \in Rows : lock[r] = q => lock'[r] = q
    BY <1>1, <2>1, <2>2, PccAssumption DEF Free, Swap, LockTypes, Locks
  <2> QED BY <1>1, <2>1, <2>2, <2>3, <2>4, HeldFrame DEF GotoWith, LocTypes
<1>5. CASE NoMemory(p)
  BY <1>1, <1>5, PccAssumption
     DEF NoMemory, Done, Unlock, sesVars, Held, OnSession, InTable, LocTypes, SesTypes,
         Locks, ForDialog, WithSession, Row
<1>6. CASE FindSession(p)
  BY <1>1, <1>6, PccAssumption
     DEF FindSession, Goto, Swap, Free, sesVars, locVars, Held, OnSession, InTable,
         LocTypes, SesTypes, LockTypes, Locks, ForDialog, Row
<1>7. CASE BuildAAR(p)
  BY <1>1, <1>7, PccAssumption
     DEF BuildAAR, Goto, Unlock, sesVars, locVars, Held, OnSession, InTable, LocTypes,
         SesTypes, Locks, Row
<1>8. CASE NotSent(p)
  BY <1>1, <1>8, PccAssumption
     DEF NotSent, Done, Unlock, Slots, sesVars, Held, OnSession, InTable, SesTypes,
         Locks, WithSession, Row
<1>9. CASE GetPeer(p)
  BY <1>1, <1>9, PccAssumption
     DEF GetPeer, Goto, Take, sesVars, Held, OnSession, InTable, SesTypes, WithSession,
         Row
<1>10. CASE SendAAR(p)
  <2>1. at[p] \in Sessions
    BY <1>1, <1>10 DEF SendAAR, LocTypes, WithSession
  <2>2. /\ Snd_Message(p, "SEND_AAR", [kind |-> "AAR", s |-> at[p], by |-> p])
        /\ UNCHANGED <<owner, data, fromPcrf, known, asked, tasks>>
    BY <1>10 DEF SendAAR
  <2>3. InTable' = InTable
    BY <1>1, <2>1, <2>2, SendKeeps
  <2>4. \A q \in Procs \ {p}, r \in Rows : lock[r] = q => lock'[r] = q
    BY <1>10, PccAssumption DEF SendAAR, Snd_Message, Unlock, Slots, Locks
  <2>5. /\ pc'[p] \notin OnSession \cup {"scan"}
        /\ \A q \in Procs \ {p} : pc'[q] = pc[q] /\ at'[q] = at[q]
    BY <1>1, <1>10 DEF SendAAR, Goto, Done, OnSession
  <2> QED BY <1>1, <2>3, <2>4, <2>5, HeldFrame
<1>11. CASE SendSTR(p)
  <2>1. at[p] \in Sessions
    BY <1>1, <1>11 DEF SendSTR, LocTypes, WithSession
  <2>2. /\ Snd_Message(p, "SEND_STR", [kind |-> "STR", s |-> at[p], by |-> p])
        /\ UNCHANGED <<owner, data, fromPcrf, known, asked, tasks>>
    BY <1>11 DEF SendSTR
  <2>3. InTable' = InTable
    BY <1>1, <2>1, <2>2, SendKeeps
  <2>4. \A q \in Procs \ {p}, r \in Rows : lock[r] = q => lock'[r] = q
    BY <1>11, PccAssumption DEF SendSTR, Snd_Message, Unlock, Slots, Locks
  <2>5. /\ pc'[p] \notin OnSession \cup {"scan"}
        /\ \A q \in Procs \ {p} : pc'[q] = pc[q] /\ at'[q] = at[q]
    BY <1>1, <1>11 DEF SendSTR, Goto, Done, OnSession
  <2> QED BY <1>1, <2>3, <2>4, <2>5, HeldFrame
<1>12. CASE AnswerTimesOut(p)
  BY <1>1, <1>12
     DEF AnswerTimesOut, Done, sesVars, Held, OnSession, InTable, SesTypes, WithSession,
         Row
<1>13. CASE ReleaseOnReply(p)
  BY <1>1, <1>13
     DEF ReleaseOnReply, Done, sesVars, Held, OnSession, InTable, SesTypes, WithSession,
         Row
<1>14. CASE PCC_STR(p)
  BY <1>1, <1>14, PccAssumption
     DEF PCC_STR, GotoWith, Done, Unlock, Slots, send_STR, sesVars, locVars, Held,
         OnSession, InTable, LocTypes, SesTypes, Locks, ForDialog, Row
<1>15. CASE DropDialog(p)
  BY <1>1, <1>15, PccAssumption
     DEF DropDialog, GotoWith, Done, Take, Free, sesVars, Held, OnSession, InTable,
         LocTypes, SesTypes, LockTypes, Locks, WithSession, Row
<1>16. CASE terminate_pcc_session(p)
  BY <1>1, <1>16, PccAssumption
     DEF terminate_pcc_session, GotoWith, Done, Unlock, Slots, send_STR, sesVars,
         locVars, Held, OnSession, InTable, LocTypes, SesTypes, Locks, Row
<1> QED BY <1>2, <1>3, <1>4, <1>5, <1>6, <1>7, <1>8, <1>9, <1>10, <1>11, <1>12, <1>13,
   <1>14, <1>15, <1>16
   DEF CallStep

LEMMA ReceiverHeld ==
  ASSUME HeldInv, ReceiverStep PROVE Held'
<1> USE DEF HeldInv, Inv
<1>1. Receiver \in Procs /\ None \notin Procs
  BY PccAssumption DEF Procs, Callers
<1>2. CASE Receive
  <2>1. Head(fromPcrf) \in Messages
    BY <1>2, HeadTailProperties DEF Receive, NetTypes
  <2>2. /\ pc'[Receiver] \notin OnSession \cup {"scan"}
        /\ \A q \in Procs \ {Receiver} : pc'[q] = pc[q] /\ at'[q] = at[q]
        /\ UNCHANGED <<lock, state>>
    BY <1>1, <1>2, <2>1 DEF Receive, sesVars, Messages, OnSession
  <2> QED BY <1>1, <2>2, HeldFrame DEF InTable
<1>3. CASE RcvAAA
  <2> DEFINE ev == IF pc[Receiver] = "AAA_OK" THEN "RECV_ANS_SUCCESS" ELSE "RECV_ANS_UNSUCCESS"
  <2>1. at[Receiver] \in Sessions /\ UNCHANGED <<owner, data, lock>>
    BY <1>1, <1>3 DEF RcvAAA, LocTypes, WithSession
  <2>2. \/ at[Receiver] \in InTable /\ Process(at[Receiver], ev, {})
        \/ UNCHANGED <<state, due, strSent, toPcrf>>
    BY <1>3 DEF RcvAAA
  <2>3. InTable' = InTable
    BY <2>1, <2>2, EventKeeps
  <2>4. \A p \in Procs : \/ pc'[p] \in {"idle", "onreply"}
                         \/ pc'[p] = pc[p] /\ at'[p] = at[p]
    BY <1>1, <1>3 DEF RcvAAA
  <2> QED BY <2>1, <2>3, <2>4 DEF Held, Row, OnSession
<1>4. CASE RcvSTA
  BY <1>1, <1>4, PccAssumption
     DEF RcvSTA, Goto, Done, Take, Free, sesVars, Held, OnSession, InTable, LocTypes,
         SesTypes, LockTypes, Locks, Row
<1>5. CASE CleanUp
  <2>1. /\ at[Receiver] \in InTable /\ lock[Row(at[Receiver])] = Receiver
        /\ at[Receiver] \in Sessions /\ Row(at[Receiver]) \in Rows
    BY <1>1, <1>5, PccAssumption DEF CleanUp, Held, OnSession, InTable, Row
  <2>2. /\ state' = [state EXCEPT ![at[Receiver]] = "freed"]
        /\ lock' = [l \in Locks |-> IF l = Row(at[Receiver]) THEN None ELSE lock[l]]
        /\ Done(Receiver)
    BY <1>5 DEF CleanUp, DropSession, Unlock
  <2>3. ASSUME NEW q \in Procs, pc'[q] \in OnSession
        PROVE  lock'[Row(at'[q])] = q /\ at'[q] \in InTable'
    <3>1. q # Receiver /\ pc[q] \in OnSession /\ at'[q] = at[q]
      BY <1>1, <2>2, <2>3 DEF Done, LocTypes, OnSession
    <3>2. lock[Row(at[q])] = q /\ at[q] \in InTable /\ Row(at[q]) \in Locks
      BY <3>1, PccAssumption DEF Held, InTable, Row, Locks
    <3> QED BY <2>1, <2>2, <3>1, <3>2 DEF InTable, SesTypes, Row
  <2>4. \A q \in Procs : pc'[q] # "scan"
    BY <1>1, <2>2 DEF Done, Held, Row
  <2> QED BY <2>3, <2>4 DEF Held
<1>6. CASE RcvRequest
  <2>1. at[Receiver] \in Sessions /\ UNCHANGED <<owner, data, lock>> /\ Done(Receiver)
    BY <1>1, <1>6 DEF RcvRequest, LocTypes, WithSession
  <2>2. \/ at[Receiver] \in InTable /\ Process(at[Receiver], "RECV_ASR", {})
        \/ UNCHANGED <<state, due, strSent, toPcrf>>
    BY <1>6 DEF RcvRequest
  <2>3. InTable' = InTable
    BY <2>1, <2>2, EventKeeps
  <2>4. /\ pc'[Receiver] = "idle"
        /\ \A q \in Procs \ {Receiver} : pc'[q] = pc[q] /\ at'[q] = at[q]
    BY <1>1, <2>1 DEF Done, LocTypes
  <2> QED BY <1>1, <2>1, <2>3, <2>4, HeldFrame DEF OnSession
<1> QED BY <1>2, <1>3, <1>4, <1>5, <1>6 DEF ReceiverStep

LEMMA WorkerHeld ==
  ASSUME HeldInv, WorkerStep PROVE Held'
<1> USE DEF HeldInv, Inv
<1>1. Worker \in Procs /\ None \notin Procs
  BY PccAssumption DEF Procs, Callers
<1>2. CASE TakeTask
  <2>1. PICK t \in tasks : GotoWith(Worker, t.kind, t.s)
    BY <1>2 DEF TakeTask
  <2>2. t.kind \in {"ASR", "RAR"}
    BY DEF NetTypes
  <2>3. /\ pc'[Worker] \notin OnSession \cup {"scan"}
        /\ \A q \in Procs \ {Worker} : pc'[q] = pc[q] /\ at'[q] = at[q]
    BY <1>1, <2>1, <2>2 DEF GotoWith, LocTypes, OnSession
  <2>4. UNCHANGED <<lock, state>>
    BY <1>2 DEF TakeTask, sesVars
  <2> QED BY <1>1, <2>3, <2>4, HeldFrame DEF InTable
<1>3. CASE GetRequested
  BY <1>1, <1>3, PccAssumption
     DEF GetRequested, Goto, Done, Take, Free, sesVars, Held, OnSession, InTable,
         LocTypes, SesTypes, LockTypes, Locks, Row
<1>4. CASE pcc_data_release_safe
  BY <1>1, <1>4, PccAssumption
     DEF pcc_data_release_safe, Goto, Done, Unlock, sesVars, Held, OnSession, InTable,
         LocTypes, SesTypes, Locks, Row
<1>5. CASE AnswerNotSent
  BY <1>1, <1>5, PccAssumption
     DEF AnswerNotSent, Goto, Done, Unlock, sesVars, Held, OnSession, InTable, LocTypes,
         SesTypes, Locks, Row
<1> QED BY <1>2, <1>3, <1>4, <1>5 DEF WorkerStep

LEMMA PcrfHeld ==
  ASSUME HeldInv, PcrfStep PROVE Held'
<1> USE DEF HeldInv, Inv
<1>1. None \notin Procs
  BY PccAssumption DEF Procs, Callers
<1>2. ASSUME NEW m \in toPcrf, Answer(m) PROVE Held'
  BY <1>1, <1>2
     DEF Answer, PcrfSends, sesVars, locVars, Held, OnSession, InTable, SesTypes,
         WithSession, Row
<1>3. ASSUME NEW s \in known, NEW k \in Requests, Ask(s, k) PROVE Held'
  BY <1>1, <1>3
     DEF Ask, PcrfSends, sesVars, locVars, Held, OnSession, InTable, SesTypes,
         WithSession, Row
<1> QED BY <1>2, <1>3 DEF PcrfStep

LEMMA BeginHeld ==
  ASSUME HeldInv, NEW p \in Callers, NEW d \in Dialogs, Begin(p, d) PROVE Held'
<1> USE DEF HeldInv, Inv
<1>1. p \in Procs /\ None \notin Procs
  BY PccAssumption DEF Procs, Callers
<1>2. CASE Begin(p, d)
  BY <1>1, <1>2 DEF Begin, sesVars, Held, OnSession, InTable, SesTypes, WithSession, Row
<1> QED BY <1>2 DEF Begin

LEMMA HeldNext == HeldInv /\ [Next]_vars => HeldInv'
<1> SUFFICES ASSUME HeldInv, [Next]_vars PROVE HeldInv'
  OBVIOUS
<1>1. Inv'
  BY NextInv DEF HeldInv, NextWithFaults, NextWithTime
<1>2. ASSUME NEW p \in Callers, NEW d \in Dialogs, Begin(p, d) PROVE Held'
  BY <1>2, BeginHeld
<1>3. ASSUME NEW p \in Callers \cup {Worker}, CallStep(p) PROVE Held'
  BY <1>3, CallStepHeld
<1>4. ASSUME ReceiverStep PROVE Held'
  BY <1>4, ReceiverHeld
<1>5. ASSUME WorkerStep PROVE Held'
  BY <1>5, WorkerHeld
<1>6. ASSUME PcrfStep PROVE Held'
  BY <1>6, PcrfHeld
<1>7. ASSUME UNCHANGED vars PROVE Held'
  BY <1>7 DEF vars, sesVars, locVars, HeldInv, Held, InTable, Row
<1> QED BY <1>1, <1>2, <1>3, <1>4, <1>5, <1>6, <1>7 DEF Next, HeldInv

-----------------------------------------------------------------------------
(* Theorems.                                                                *)

\* The variables keep their types, whatever times out and whatever cannot be built.
THEOREM TypesAreOK == FaultySpec => []TypeOK
<1> QED BY InitInv, NextInv, InvType, PTL DEF FaultySpec

\* The session that a dialog names under its slot is in the table, is its own and has
\* its generic_data, however the calls, the answers, the requests of the PCRF, the
\* session timer and the failures to build a request interleave: the release of a
\* dialog by callback_for_pccsession() and by pcc_auth_clean_dlg_safe() always comes
\* before the session is freed.
THEOREM LinkedSessionsAreLive == FaultySpec => []LinkedIsLive
<1>1. Inv => LinkedIsLive
  BY DEF Inv, Links
<1> QED BY <1>1, InitInv, NextInv, PTL DEF FaultySpec

\* The same of the behaviours the runs look at, which have fewer steps.
THEOREM CallsKeepLinks == FairSpec => []LinkedIsLive
<1>1. [Next]_vars => [NextWithFaults]_vars
  BY DEF NextWithFaults, NextWithTime
<1>2. Spec => FaultySpec
  BY <1>1, PTL DEF Spec, FaultySpec
<1> QED BY <1>2, LinkedSessionsAreLive, PTL DEF FairSpec

\* Whoever works on a session that it found holds the session's row, and the session is
\* not freed under it: in the behaviours where the session timer has nothing to do and
\* every request can be built, the double unlocks and the unlocked walk being left out.
THEOREM WorkersHoldTheirSession == FairSpec => []HoldsWhatItUses
<1>1. Init => HeldInv
  BY InitInv DEF Init, HeldInv, Held, OnSession, Row
<1>2. HeldInv => HoldsWhatItUses
  BY DEF HeldInv, Held, HoldsWhatItUses, Row
<1> QED BY <1>1, <1>2, HeldNext, PTL DEF FairSpec, Spec
=============================================================================
