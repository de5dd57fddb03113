------------------------------ MODULE PcscfPcc ------------------------------
(***************************************************************************)
(* Policy control of calls in the P-CSCF: the Rx sessions that the SIP     *)
(* processes open, change and end for a dialog (modules/pcscf/pcc.c,       *)
(* dlg_state.c), the table of Diameter sessions and the client's state     *)
(* machine (modules/cdp/session.c, authstatemachine.c), and the processes  *)
(* that run that machine: the senders, the receiver of the PCRF's          *)
(* connection, the worker that handles the PCRF's requests, the session    *)
(* timer and the dialog timer.                                             *)
(*                                                                         *)
(* Three kinds of lock are nested: the slot of a dialog, the row of a      *)
(* session and the peer.  They are kept with the process that took them,   *)
(* which the code does not record: lock_release() frees a lock whoever     *)
(* holds it, and so does Unlock here.  A dialog has a slot of its own,     *)
(* RowOf says which sessions share a row, and the sessions are numbered in *)
(* the order in which they are added, which is that of a row's list.       *)
(***************************************************************************)
EXTENDS Integers, FiniteSets, Sequences

CONSTANTS SipProcs,     \* SIP worker processes
          Receiver, Worker, Timer, DialogTimer,  \* one process of each kind
          Dialogs,
          MaxSessions,  \* bound: sessions that are ever created
          MaxCalls,     \* bound: calls of the SIP processes and the dialog timer
          MaxInFlight,  \* bound: messages on their way from the PCRF
          Rows,         \* rows of the session table
          RowOf,        \* the row of each session
          Rejects,      \* states in which the PCRF may refuse an AAR
          Requests,     \* what the PCRF asks for: a subset of {"ASR", "RAR"}
          None

Sessions == 1..MaxSessions
Procs    == SipProcs \cup {Receiver, Worker, Timer, DialogTimer}
Locks    == Dialogs \cup Rows \cup {"peer"}

ASSUME PccAssumption ==
  /\ {MaxSessions, MaxCalls, MaxInFlight} \subseteq Nat /\ RowOf \in [Sessions -> Rows]
  /\ Cardinality({Receiver, Worker, Timer, DialogTimer}) = 4
  /\ {Receiver, Worker, Timer, DialogTimer} \cap SipProcs = {}
  /\ Dialogs \cap Rows = {} /\ "peer" \notin Dialogs \cup Rows
  /\ None \notin Procs \cup Dialogs \cup Sessions
  /\ Rejects \subseteq {"PENDING", "OPEN"} /\ Requests \subseteq {"ASR", "RAR"}

VARIABLES state,    \* of a session: "unused", the machine's states, or "freed"
          owner,    \* the dialog its generic_data names
          data,     \* whether generic_data is set
          due,      \* whether its timeout or its lifetime is over: "no", "lifetime", "timeout"
          strSent,  \* an STR was sent for it
          live,     \* the dialogs in the table
          link,     \* the session a dialog's pcc_session_id names
          lock,     \* who holds each lock
          pc, at, on,  \* where a process is, with which session, for which dialog (or user)
          toPcrf,   \* requests on their way to the PCRF
          fromPcrf, \* answers and requests on their way from it
          known,    \* sessions the PCRF has authorised
          asked,    \* sessions the PCRF has asked to end
          tasks,    \* the PCRF's requests in the task queue
          calls,    \* calls begun so far
          crashed   \* what a process did not have when it used it, or "no"

sesVars == <<state, owner, data, due, strSent>>
dlgVars == <<live, link>>
netVars == <<toPcrf, fromPcrf, known, asked, tasks>>
locVars == <<pc, at, on>>
vars == <<sesVars, dlgVars, netVars, locVars, lock, calls, crashed>>

InTable == {s \in Sessions : state[s] \in {"IDLE", "PENDING", "OPEN", "DISCON"}}
Unused  == {s \in Sessions : state[s] = "unused"}

TypeOK ==
  /\ state \in [Sessions -> {"unused", "IDLE", "PENDING", "OPEN", "DISCON", "freed"}]
  /\ owner \in [Sessions -> Dialogs \cup {None}]
  /\ data \in [Sessions -> BOOLEAN] /\ strSent \subseteq Sessions
  /\ due \in [Sessions -> {"no", "lifetime", "timeout"}]
  /\ live \subseteq Dialogs /\ link \in [Dialogs -> Sessions \cup {None}]
  /\ lock \in [Locks -> Procs \cup {None}]
  /\ pc \in [Procs -> {"idle", "aar", "aarRow", "build", "discard", "aarPeer", "aarSend", "await",
                       "onreply", "str", "strRow", "drop", "expire", "term", "strPeer", "strSend",
                       "AAA_OK", "AAA_BAD", "STA", "ASR", "RAR", "cleanup", "asaData",
                       "raaData", "raaPeer", "raaSend", "scan"}]
  /\ at \in [Procs -> Sessions \cup {None}]
  /\ on \in [Procs -> Dialogs \cup Procs \cup Rows \cup {None}]
  /\ toPcrf \subseteq [kind : {"AAR", "STR"}, s : Sessions, by : Procs \cup {None}]
  /\ fromPcrf \in Seq([kind : {"AAA_OK", "AAA_BAD", "STA", "ASR", "RAR"},
                       s : Sessions, by : Procs \cup {None}])
  /\ known \subseteq Sessions /\ asked \subseteq Sessions
  /\ tasks \subseteq [kind : {"ASR", "RAR"}, s : Sessions]
  /\ calls \in 0..MaxCalls /\ crashed \in {"no", "session", "data", "dialog"}

Init ==
  /\ state = [s \in Sessions |-> "unused"] /\ owner = [s \in Sessions |-> None]
  /\ data = [s \in Sessions |-> FALSE] /\ due = [s \in Sessions |-> "no"]
  /\ strSent = {} /\ live = Dialogs /\ link = [d \in Dialogs |-> None]
  /\ lock = [l \in Locks |-> None]
  /\ pc = [p \in Procs |-> "idle"] /\ at = [p \in Procs |-> None]
  /\ on = [p \in Procs |-> None]
  /\ toPcrf = {} /\ fromPcrf = <<>> /\ known = {} /\ asked = {} /\ tasks = {}
  /\ calls = 0 /\ crashed = "no"

-----------------------------------------------------------------------------
(* Steps of a process.                                                      *)

Free(l) == lock[l] = None
Take(p, l) == lock' = [lock EXCEPT ![l] = p]
Unlock(ls) == lock' = [l \in Locks |-> IF l \in ls THEN None ELSE lock[l]]
Swap(p, l, m) == lock' = [lock EXCEPT ![l] = p, ![m] = None]
Row(s) == RowOf[s]

Goto(p, where) == pc' = [pc EXCEPT ![p] = where] /\ UNCHANGED <<at, on>>
GotoWith(p, where, s) ==
  pc' = [pc EXCEPT ![p] = where] /\ at' = [at EXCEPT ![p] = s] /\ UNCHANGED on
Done(p) ==
  /\ pc' = [pc EXCEPT ![p] = "idle"]
  /\ at' = [at EXCEPT ![p] = None] /\ on' = [on EXCEPT ![p] = None]

\* The dialog slot that the dialog timer keeps while it ends the session.
Slots(p) == {d \in Dialogs : lock[d] = p}

-----------------------------------------------------------------------------
(* The client's state machine.                                              *)

Target(st, ev) ==
  CASE st = "IDLE" /\ ev \in {"SEND_AAR", "SEND_STR"} -> "PENDING"
    [] st = "PENDING" /\ ev = "RECV_ANS_SUCCESS" -> "OPEN"
    [] st \in {"PENDING", "OPEN"} /\ ev = "RECV_ANS_UNSUCCESS" -> "DISCON"
    [] st = "OPEN" /\ ev \in {"SEND_STR", "SESSION_TIMEOUT", "RECV_ASR"} -> "DISCON"
    [] OTHER -> st

\* Fault: No STR after a refused AAR.
EndsService_NotRefused(st, ev) == st = "OPEN" /\ ev \in {"SESSION_TIMEOUT", "RECV_ASR"}

\* The machine itself sends an STR.
EndsService(st, ev) ==
  \/ st = "PENDING" /\ ev = "RECV_ANS_UNSUCCESS"
  \/ st = "OPEN" /\ ev \in {"SESSION_TIMEOUT", "RECV_ASR"}

\* Fault: Only the timers end a session in DISCON, as in the RFC without "the addition".
CleansUp_NoSTA(st, ev) == st \in {"PENDING", "DISCON"} /\ ev = "SESSION_TIMEOUT"

\* The machine gives the session to Session_Cleanup().
CleansUp(st, ev) ==
  \/ st = "PENDING" /\ ev = "SESSION_TIMEOUT"
  \/ st = "DISCON" /\ ev \in {"SESSION_TIMEOUT", "RECV_STA"}

\* The timers are read from the message's AVPs, where it has them.
UpdatesTimers(st, ev) ==
  \/ st = "IDLE" /\ ev \in {"SEND_AAR", "SEND_STR"}
  \/ st \in {"PENDING", "OPEN"} /\ ev = "RECV_ANS_SUCCESS"

update_auth_session_timers(s, ev) ==
  \/ UNCHANGED due
  \/ UpdatesTimers(state[s], ev) /\ due[s] # "no" /\ due' = [due EXCEPT ![s] = "no"]

STR(s) == [kind |-> "STR", s |-> s, by |-> None]

\* One event of a session in the table that does not end in a clean up: what it
\* does to the session, and the requests it adds to those in msgs.
Process(s, ev, msgs) ==
  LET ends == EndsService(state[s], ev) IN
  /\ state' = [state EXCEPT ![s] = Target(@, ev)]
  /\ update_auth_session_timers(s, ev)
  /\ toPcrf' = toPcrf \cup msgs \cup IF ends THEN {STR(s)} ELSE {}
  /\ strSent' = IF ends \/ ev = "SEND_STR" THEN strSent \cup {s} ELSE strSent

\* Fault: The callback frees generic_data and leaves the dialog's name of the session.
Callback_KeepsLink(s) ==
  /\ data' = [data EXCEPT ![s] = FALSE] /\ UNCHANGED <<live, link, owner>>

\* callback_for_pccsession() on an event that ends the session: if the dialog is
\* still there and has a session, whichever, it is unlinked and terminated.
Callback(s) ==
  LET d == owner[s]
      hit == data[s] /\ d \in live /\ link[d] # None
  IN  /\ link' = IF hit THEN [link EXCEPT ![d] = None] ELSE link
      /\ data' = [data EXCEPT ![s] = FALSE]
      /\ UNCHANGED <<live, owner>>

\* Fault: The callback looks the dialog up without its slot.
CallbackMayRun_NoSlot(s) == TRUE

\* The callback takes the dialog's slot to look the dialog up.
CallbackMayRun(s) == data[s] => Free(owner[s])

-----------------------------------------------------------------------------
(* Calls of a SIP process, and of the dialog timer.                         *)

\* P_AAR(), P_STR() and P_drop_dialog(), and dialog_timer() on an expired dialog,
\* start by asking for the dialog's slot.
Begin(p, d) ==
  /\ pc[p] = "idle" /\ calls < MaxCalls /\ calls' = calls + 1
  /\ \E call \in IF p = DialogTimer THEN {"expire"} ELSE {"aar", "str", "drop"} :
       pc' = [pc EXCEPT ![p] = call]
  /\ on' = [on EXCEPT ![p] = d]
  /\ UNCHANGED <<at, lock, sesVars, dlgVars, netVars, crashed>>

\* get_p_dialog(): nothing to do for a dialog that is gone, nor to end for one that
\* has no session.
NoDialog(p) ==
  /\ pc[p] \in {"aar", "str", "drop", "expire", "onreply"} /\ Free(on[p])
  /\ \/ on[p] \notin live
     \/ pc[p] \in {"str", "expire", "onreply"} /\ link[on[p]] = None
  /\ Done(p)
  /\ UNCHANGED <<lock, sesVars, dlgVars, netVars, crashed>>

GetDialog(p) ==
  /\ pc[p] \in {"aar", "str"} /\ Free(on[p]) /\ on[p] \in live
  /\ pc[p] = "str" => link[on[p]] # None
  /\ Take(p, on[p])
  /\ GotoWith(p, IF pc[p] = "aar" THEN "aarRow" ELSE "strRow", link[on[p]])
  /\ UNCHANGED <<sesVars, dlgVars, netVars, crashed>>

\* pcc_auth_init_dlg(), a dialog without a session: create one and keep its row.
CreateSession(p) ==
  /\ pc[p] = "aarRow" /\ at[p] = None
  /\ \E s \in Unused :
       /\ \A t \in Unused : s <= t
       /\ Free(Row(s)) /\ Swap(p, Row(s), on[p])
       /\ state' = [state EXCEPT ![s] = "IDLE"]
       /\ owner' = [owner EXCEPT ![s] = on[p]] /\ data' = [data EXCEPT ![s] = TRUE]
       /\ link' = [link EXCEPT ![on[p]] = s]
       /\ GotoWith(p, "build", s)
  /\ UNCHANGED <<due, strSent, live, netVars, crashed>>

\* pcc_auth_init_dlg(), when there is no memory for a session.
NoMemory(p) ==
  /\ pc[p] = "aarRow" /\ at[p] = None /\ Unused = {}
  /\ Unlock({on[p]}) /\ Done(p)
  /\ UNCHANGED <<sesVars, dlgVars, netVars, crashed>>

\* Fault: AAAGetAuthSession() lets go of the row before it returns.
FindSession_Unlocked(p) ==
  /\ pc[p] = "aarRow" /\ at[p] # None /\ Free(Row(at[p]))
  /\ IF at[p] \in InTable
     THEN Unlock({on[p]}) /\ Goto(p, "build") /\ UNCHANGED crashed
     ELSE crashed' = "session" /\ UNCHANGED <<lock, locVars>>
  /\ UNCHANGED <<sesVars, dlgVars, netVars>>

\* pcc_auth_init_dlg(), a dialog with a session.  When the table does not have it,
\* PCC_AAR() goes on with a null session.
FindSession(p) ==
  /\ pc[p] = "aarRow" /\ at[p] # None /\ Free(Row(at[p]))
  /\ IF at[p] \in InTable
     THEN Swap(p, Row(at[p]), on[p]) /\ Goto(p, "build") /\ UNCHANGED crashed
     ELSE crashed' = "session" /\ UNCHANGED <<lock, locVars>>
  /\ UNCHANGED <<sesVars, dlgVars, netVars>>

\* Fault: PCC_AAR() waits for the answer with the row held.
BuildAAR_KeepsRow(p) ==
  /\ pc[p] = "build" /\ data[at[p]] /\ Goto(p, "aarPeer")
  /\ UNCHANGED <<sesVars, dlgVars, netVars, lock, crashed>>

\* PCC_AAR() fills the request from generic_data and lets go of the row.
BuildAAR(p) ==
  /\ pc[p] = "build"
  /\ IF data[at[p]]
     THEN Unlock({Row(at[p])}) /\ Goto(p, "aarPeer") /\ UNCHANGED crashed
     ELSE crashed' = "data" /\ UNCHANGED <<lock, locVars>>
  /\ UNCHANGED <<sesVars, dlgVars, netVars>>

\* Its error path unlocks the row, then drops the session, which unlocks it again;
\* dlg is null by then, so only the callback unlinks the dialog.
BuildFails(p) ==
  /\ pc[p] = "build"
  /\ Unlock({Row(at[p])}) /\ Goto(p, "discard")
  /\ UNCHANGED <<sesVars, dlgVars, netVars, crashed>>

\* Session_Cleanup() or AAADropAuthSession(): callback, unlink, unlock, free.
DropSession(p) ==
  /\ CallbackMayRun(at[p])
  /\ Callback(at[p])
  /\ state' = [state EXCEPT ![at[p]] = "freed"]
  /\ Unlock({Row(at[p])})

Discard(p) ==
  /\ pc[p] = "discard" /\ DropSession(p) /\ Done(p)
  /\ UNCHANGED <<due, strSent, netVars, crashed>>

\* AAASendMessage() or AAASendRecvMessage() finds no connected peer.
NotSent(p) ==
  /\ pc[p] \in {"aarPeer", "strPeer"}
  /\ Done(p) /\ Unlock(Slots(p))
  /\ UNCHANGED <<sesVars, dlgVars, netVars, crashed>>

\* sm_process() takes the peer, then Snd_Message() asks for the session's row.
GetPeer(p) ==
  /\ pc[p] \in {"aarPeer", "strPeer", "raaPeer"} /\ Free("peer")
  /\ Take(p, "peer")
  /\ Goto(p, CASE pc[p] = "aarPeer" -> "aarSend" [] pc[p] = "strPeer" -> "strSend"
               [] OTHER -> "raaSend")
  /\ UNCHANGED <<sesVars, dlgVars, netVars, crashed>>

Snd_Message(p, ev, msg) ==
  /\ Free(Row(at[p]))
  /\ IF at[p] \in InTable
     THEN Process(at[p], ev, {msg})
     ELSE toPcrf' = toPcrf \cup {msg} /\ UNCHANGED <<state, due, strSent>>
  /\ Unlock({"peer"} \cup Slots(p))

SendAAR(p) ==
  /\ pc[p] = "aarSend" /\ Snd_Message(p, "SEND_AAR", [kind |-> "AAR", s |-> at[p], by |-> p])
  /\ Goto(p, "await")
  /\ UNCHANGED <<owner, data, dlgVars, fromPcrf, known, asked, tasks, crashed>>

SendSTR(p) ==
  /\ pc[p] = "strSend" /\ Snd_Message(p, "SEND_STR", [kind |-> "STR", s |-> at[p], by |-> p])
  /\ Done(p)
  /\ UNCHANGED <<owner, data, dlgVars, fromPcrf, known, asked, tasks, crashed>>

\* AAASendRecvMessage() times out: no answer is this call's any more.
Forget(m, p) == IF m.by = p THEN [m EXCEPT !.by = None] ELSE m

AnswerTimesOut(p) ==
  /\ pc[p] = "await" /\ Done(p)
  /\ toPcrf' = {Forget(m, p) : m \in toPcrf}
  /\ fromPcrf' = [i \in DOMAIN fromPcrf |-> Forget(fromPcrf[i], p)]
  /\ UNCHANGED <<lock, sesVars, dlgVars, known, asked, tasks, crashed>>

\* P_release_call_onreply() after a refused AAR: the dialog forgets its session.
ReleaseOnReply(p) ==
  /\ pc[p] = "onreply" /\ Free(on[p]) /\ on[p] \in live
  /\ link' = [link EXCEPT ![on[p]] = None] /\ Done(p)
  /\ UNCHANGED <<lock, sesVars, live, netVars, crashed>>

\* PCC_create_STR_auth_session_safe(): no STR for a session in DISCON, and
\* generic_data is read for the others.  The row is let go before the STR is sent.
send_STR(p, s, held) ==
  /\ Free(Row(s))
  /\ \/ /\ s \in InTable /\ state[s] # "DISCON" /\ ~data[s]
        /\ crashed' = "data" /\ UNCHANGED <<lock, locVars>>
     \/ /\ s \in InTable /\ state[s] # "DISCON" /\ data[s]
        /\ GotoWith(p, "strPeer", s) /\ Unlock(held) /\ UNCHANGED crashed
     \/ /\ ~(s \in InTable /\ state[s] # "DISCON")
        /\ Done(p) /\ Unlock(held \cup Slots(p)) /\ UNCHANGED crashed

\* PCC_STR(), which holds the dialog's slot: unlink first, "so that the callback
\* doesnt call release_call".
PCC_STR(p) ==
  /\ pc[p] = "strRow" /\ send_STR(p, at[p], {on[p]})
  /\ link' = [link EXCEPT ![on[p]] = None]
  /\ UNCHANGED <<sesVars, live, netVars>>

\* P_drop_dialog() takes the session's name, deletes the dialog and frees its slot;
\* terminate_p_dialog() on an expired dialog unlinks it and keeps the slot.
DropDialog(p) ==
  /\ pc[p] \in {"drop", "expire"} /\ Free(on[p]) /\ on[p] \in live
  /\ link' = [link EXCEPT ![on[p]] = None]
  /\ IF pc[p] = "drop" THEN live' = live \ {on[p]} /\ UNCHANGED lock
                       ELSE UNCHANGED live /\ link[on[p]] # None /\ Take(p, on[p])
  /\ IF link[on[p]] = None THEN Done(p) ELSE GotoWith(p, "term", link[on[p]])
  /\ UNCHANGED <<sesVars, netVars, crashed>>

terminate_pcc_session(p) ==
  /\ pc[p] = "term" /\ send_STR(p, at[p], {})
  /\ UNCHANGED <<sesVars, dlgVars, netVars>>

-----------------------------------------------------------------------------
(* The receiver of the PCRF's connection: Rcv_Process().                    *)

\* Fault: The answer's caller is looked up by the session.
Receive_BySession ==
  /\ pc[Receiver] = "idle" /\ fromPcrf # <<>>
  /\ LET m == Head(fromPcrf) IN
       /\ pc' = [pc EXCEPT ![Receiver] = m.kind] /\ at' = [at EXCEPT ![Receiver] = m.s]
       /\ on' = [on EXCEPT ![Receiver] = m.s]
  /\ fromPcrf' = Tail(fromPcrf)
  /\ UNCHANGED <<toPcrf, known, asked, tasks, lock, sesVars, dlgVars, crashed>>

Receive ==
  /\ pc[Receiver] = "idle" /\ fromPcrf # <<>>
  /\ LET m == Head(fromPcrf) IN
       /\ pc' = [pc EXCEPT ![Receiver] = m.kind] /\ at' = [at EXCEPT ![Receiver] = m.s]
       /\ on' = [on EXCEPT ![Receiver] = m.by]
  /\ fromPcrf' = Tail(fromPcrf)
  /\ UNCHANGED <<toPcrf, known, asked, tasks, lock, sesVars, dlgVars, crashed>>

\* An AAA runs the machine, then goes through the task queue to the caller that waits.
RcvAAA ==
  LET s == at[Receiver]
      u == on[Receiver]
      ok == pc[Receiver] = "AAA_OK"
      heard == u \in SipProcs /\ pc[u] = "await"
  IN  /\ pc[Receiver] \in {"AAA_OK", "AAA_BAD"} /\ Free(Row(s))
      /\ IF s \in InTable
         THEN Process(s, IF ok THEN "RECV_ANS_SUCCESS" ELSE "RECV_ANS_UNSUCCESS", {})
         ELSE UNCHANGED <<state, due, strSent, toPcrf>>
      /\ pc' = [p \in Procs |-> IF p = Receiver \/ (heard /\ p = u /\ ok) THEN "idle"
                                ELSE IF heard /\ p = u THEN "onreply" ELSE pc[p]]
      /\ at' = [p \in Procs |-> IF p = Receiver \/ (heard /\ p = u) THEN None ELSE at[p]]
      /\ on' = [p \in Procs |-> IF p = Receiver \/ (heard /\ p = u /\ ok) THEN None ELSE on[p]]
      /\ UNCHANGED <<owner, data, dlgVars, fromPcrf, known, asked, tasks, lock, crashed>>

\* An STA ends a session in DISCON, which is cleaned up with its row held; in the
\* other states it is ignored.
RcvSTA ==
  LET s == at[Receiver] IN
  /\ pc[Receiver] = "STA" /\ Free(Row(s))
  /\ IF s \in InTable /\ CleansUp(state[s], "RECV_STA")
     THEN Take(Receiver, Row(s)) /\ Goto(Receiver, "cleanup")
     ELSE Done(Receiver) /\ UNCHANGED lock
  /\ UNCHANGED <<sesVars, dlgVars, netVars, crashed>>

CleanUp ==
  /\ pc[Receiver] = "cleanup" /\ DropSession(Receiver) /\ Done(Receiver)
  /\ UNCHANGED <<due, strSent, netVars, crashed>>

\* A request of the PCRF runs the machine and becomes a task.
RcvRequest ==
  LET s == at[Receiver] IN
  /\ pc[Receiver] \in {"ASR", "RAR"} /\ Free(Row(s))
  /\ IF s \in InTable /\ pc[Receiver] = "ASR"
     THEN Process(s, "RECV_ASR", {})
     ELSE UNCHANGED <<state, due, strSent, toPcrf>>
  /\ tasks' = tasks \cup {[kind |-> pc[Receiver], s |-> s]}
  /\ Done(Receiver)
  /\ UNCHANGED <<owner, data, dlgVars, fromPcrf, known, asked, lock, crashed>>

-----------------------------------------------------------------------------
(* The worker: PCC_ASA(), and PCC_RAA() on a request that ends the session. *)

TakeTask ==
  /\ pc[Worker] = "idle"
  /\ \E t \in tasks : /\ tasks' = tasks \ {t}
                      /\ GotoWith(Worker, t.kind, t.s)
  /\ UNCHANGED <<toPcrf, fromPcrf, known, asked, lock, sesVars, dlgVars, crashed>>

GetRequested ==
  LET s == at[Worker] IN
  /\ pc[Worker] \in {"ASR", "RAR"} /\ Free(Row(s))
  /\ IF s \in InTable
     THEN /\ Take(Worker, Row(s))
          /\ Goto(Worker, IF pc[Worker] = "ASR" THEN "asaData" ELSE "raaData")
     ELSE Done(Worker) /\ UNCHANGED lock
  /\ UNCHANGED <<sesVars, dlgVars, netVars, crashed>>

\* pcc_data_release_safe() unlinks and terminates the dialog that generic_data names,
\* and does not test that it found one.  PCC_RAA() then answers with the row held.
pcc_data_release_safe ==
  LET s == at[Worker]
      d == owner[s]
  IN  /\ pc[Worker] \in {"asaData", "raaData"}
      /\ data[s] => Free(d)
      /\ crashed' = IF data[s] /\ d \notin live THEN "dialog" ELSE "no"
      /\ link' = IF data[s] /\ d \in live THEN [link EXCEPT ![d] = None] ELSE link
      /\ IF pc[Worker] = "asaData" THEN Done(Worker) /\ Unlock({Row(s)})
                                   ELSE Goto(Worker, "raaPeer") /\ UNCHANGED lock
      /\ UNCHANGED <<sesVars, live, netVars>>

\* The answer finds no route: PCC_RAA() goes on to its STR.
AnswerNotSent ==
  LET s == at[Worker] IN
  /\ pc[Worker] = "raaPeer"
  /\ Unlock({Row(s)})
  /\ IF state[s] = "DISCON" THEN Done(Worker) ELSE Goto(Worker, "strPeer")
  /\ crashed' = IF state[s] # "DISCON" /\ ~data[s] THEN "data" ELSE "no"
  /\ UNCHANGED <<sesVars, dlgVars, netVars>>

-----------------------------------------------------------------------------
(* The session timer: cdp_sessions_timer(), one row at a time.              *)

\* The session after x in the list of row r.
NextIn(r, x) ==
  LET later == {s \in InTable : Row(s) = r /\ s > x} IN
  IF later = {} THEN None ELSE CHOOSE s \in later : \A t \in later : s <= t

StartScan(r) ==
  /\ pc[Timer] = "idle" /\ Free(r) /\ Take(Timer, r)
  /\ pc' = [pc EXCEPT ![Timer] = "scan"]
  /\ at' = [at EXCEPT ![Timer] = NextIn(r, 0)] /\ on' = [on EXCEPT ![Timer] = r]
  /\ UNCHANGED <<sesVars, dlgVars, netVars, crashed>>

\* The machine unlocks the row; the scan goes on to the session it remembered.
Advance == at' = [at EXCEPT ![Timer] = NextIn(on[Timer], @)] /\ UNCHANGED <<pc, on>>

VisitFreed ==
  /\ pc[Timer] = "scan" /\ at[Timer] # None /\ state[at[Timer]] = "freed"
  /\ crashed' = "session"
  /\ UNCHANGED <<locVars, lock, sesVars, dlgVars, netVars>>

Visit ==
  /\ pc[Timer] = "scan" /\ at[Timer] \in InTable /\ due[at[Timer]] # "timeout"
  /\ Advance
  /\ IF due[at[Timer]] = "lifetime" THEN Unlock({on[Timer]}) ELSE UNCHANGED lock
  /\ UNCHANGED <<sesVars, dlgVars, netVars, crashed>>

VisitExpired ==
  LET s == at[Timer] IN
  /\ pc[Timer] = "scan" /\ s \in InTable /\ due[s] = "timeout"
  /\ CallbackMayRun(s) /\ Callback(s)
  /\ Advance /\ Unlock({on[Timer]})
  /\ IF CleansUp(state[s], "SESSION_TIMEOUT")
     THEN state' = [state EXCEPT ![s] = "freed"] /\ UNCHANGED <<due, strSent, toPcrf>>
     ELSE Process(s, "SESSION_TIMEOUT", {})
  /\ \* In PENDING the freed session is used: fatally, or as it was left.
     crashed' \in (IF state[s] = "PENDING" THEN {"no", "session"} ELSE {"no"})
  /\ UNCHANGED <<fromPcrf, known, asked, tasks>>

EndScan ==
  /\ pc[Timer] = "scan" /\ at[Timer] = None
  /\ Unlock({on[Timer]}) /\ Done(Timer)
  /\ UNCHANGED <<sesVars, dlgVars, netVars, crashed>>

\* Time passes a session's lifetime, or its timeout.
Expire(s) ==
  /\ s \in InTable /\ due[s] # "timeout"
  /\ due' \in {[due EXCEPT ![s] = k] : k \in {"lifetime", "timeout"} \ {due[s]}}
  /\ UNCHANGED <<state, owner, data, strSent, dlgVars, netVars, locVars, lock, crashed>>

-----------------------------------------------------------------------------
(* The PCRF, at the other end of the connection.                            *)

PcrfSends(kind, s, by) ==
  /\ Len(fromPcrf) < MaxInFlight
  /\ fromPcrf' = Append(fromPcrf, [kind |-> kind, s |-> s, by |-> by])

Answer(m) ==
  /\ m \in toPcrf /\ toPcrf' = toPcrf \ {m}
  /\ \/ m.kind = "AAR" /\ PcrfSends("AAA_OK", m.s, m.by) /\ known' = known \cup {m.s}
     \/ /\ m.kind = "AAR" /\ (IF m.s \in known THEN "OPEN" ELSE "PENDING") \in Rejects
        /\ PcrfSends("AAA_BAD", m.s, m.by) /\ UNCHANGED known
     \/ m.kind = "STR" /\ PcrfSends("STA", m.s, m.by) /\ UNCHANGED known
  /\ UNCHANGED <<asked, tasks, locVars, lock, sesVars, dlgVars, crashed>>

Ask(s, kind) ==
  /\ s \in known \ asked /\ kind \in Requests
  /\ PcrfSends(kind, s, None) /\ asked' = asked \cup {s}
  /\ UNCHANGED <<toPcrf, known, tasks, locVars, lock, sesVars, dlgVars, crashed>>

-----------------------------------------------------------------------------
CallStep(p) ==
  \/ NoDialog(p) \/ GetDialog(p) \/ CreateSession(p) \/ NoMemory(p) \/ FindSession(p)
  \/ BuildAAR(p) \/ NotSent(p) \/ GetPeer(p) \/ SendAAR(p) \/ SendSTR(p)
  \/ AnswerTimesOut(p) \/ ReleaseOnReply(p)
  \/ PCC_STR(p) \/ DropDialog(p) \/ terminate_pcc_session(p)

ReceiverStep == Receive \/ RcvAAA \/ RcvSTA \/ CleanUp \/ RcvRequest
WorkerStep   == TakeTask \/ GetRequested \/ pcc_data_release_safe \/ AnswerNotSent
PcrfStep     == (\E m \in toPcrf : Answer(m)) \/ (\E s \in known, k \in Requests : Ask(s, k))

Callers == SipProcs \cup {DialogTimer}
Up      == crashed = "no"

\* Calls that can be built and sessions that end before their timeout; the session
\* timer has nothing to do.
Next ==
  \/ Up /\ \E p \in Callers, d \in Dialogs : Begin(p, d)
  \/ Up /\ (\E p \in Callers \cup {Worker} : CallStep(p)) /\ UNCHANGED calls
  \/ Up /\ ReceiverStep /\ UNCHANGED calls
  \/ Up /\ WorkerStep /\ UNCHANGED calls
  \/ Up /\ PcrfStep /\ UNCHANGED calls

\* Time passes, and the session timer runs.
Timeout == (\E s \in Sessions : Expire(s)) \/ (\E r \in Rows : StartScan(r))
           \/ VisitFreed \/ Visit \/ VisitExpired \/ EndScan

\* An AAR cannot be built.
Failure == \E p \in Callers : BuildFails(p) \/ Discard(p)

NextWithTime   == Next \/ (Up /\ Timeout /\ UNCHANGED calls)
NextWithFaults == NextWithTime \/ (Up /\ Failure /\ UNCHANGED calls)

\* Every process goes on with what it does, and the PCRF answers.
Fairness ==
  /\ \A p \in Callers \cup {Worker} : WF_vars(Up /\ CallStep(p) /\ UNCHANGED calls)
  /\ WF_vars(Up /\ ReceiverStep /\ UNCHANGED calls)
  /\ WF_vars(Up /\ WorkerStep /\ UNCHANGED calls)
  /\ WF_vars(Up /\ (\E m \in toPcrf : Answer(m)) /\ UNCHANGED calls)

Spec       == Init /\ [][Next]_vars
FairSpec   == Spec /\ Fairness
TimedSpec  == Init /\ [][NextWithTime]_vars
FaultySpec == Init /\ [][NextWithFaults]_vars
-----------------------------------------------------------------------------
(* Properties.                                                              *)

\* The session a dialog names is in the table, is the dialog's own and still has
\* its generic_data: whoever frees a session, and whoever ends a dialog, has undone
\* the link first (pcc_auth_clean_dlg_safe(), callback_for_pccsession()).
LinkedIsLive ==
  \A d \in Dialogs : link[d] # None =>
    link[d] \in InTable /\ data[link[d]] /\ owner[link[d]] = d

\* Where a process works on a session that it took from the table, and where the
\* session timer goes through a row.
OnSession == {"build", "cleanup", "asaData", "raaData", "raaPeer", "raaSend"}

\* There, it holds the row, and the session is in the table: cdp_get_session()
\* "Returns with a lock", and the state machine "should be called with a lock on
\* the session".
HoldsWhatItUses ==
  \A p \in Procs :
    /\ pc[p] \in OnSession => lock[Row(at[p])] = p /\ at[p] \in InTable
    /\ pc[p] = "scan" => lock[on[p]] = p

\* "If we are in DISCON is because an STR was already sent": P_STR() and
\* P_drop_dialog() send none for such a session, so nobody else will.
DisconMeansStrSent == \A s \in Sessions : state[s] = "DISCON" => s \in strSent

\* The calls never go on with a session they did not find, or whose generic_data
\* was freed: what a dialog names under its slot is still there under the row.
CallsFindTheirSession == crashed \notin {"session", "data"}

\* The lock that a process waits for, when it does not hold it.
Waits(p) ==
  CASE pc[p] \in {"aar", "str", "drop", "expire", "onreply"} -> on[p]
    [] pc[p] = "aarRow" /\ at[p] = None ->
         IF Unused = {} THEN None ELSE Row(CHOOSE s \in Unused : \A t \in Unused : s <= t)
    [] pc[p] \in {"strRow", "term", "aarSend", "strSend", "raaSend",
                  "AAA_OK", "AAA_BAD", "STA", "ASR", "RAR"}
       \/ (pc[p] = "aarRow" /\ at[p] # None) -> Row(at[p])
    [] pc[p] \in {"aarPeer", "strPeer", "raaPeer"} -> "peer"
    [] pc[p] \in {"cleanup", "asaData", "raaData"} /\ data[at[p]] -> owner[at[p]]
    [] OTHER -> None

\* Who waits for a lock that is taken.
Blocked == {p \in Procs : Waits(p) # None /\ ~Free(Waits(p))}

\* Some processes wait for each other in a circle, or one for itself.
Stuck ==
  \E circle \in (SUBSET Blocked) \ {{}} : \A p \in circle : lock[Waits(p)] \in circle

\* Slots are taken before the peer and the peer before a row, except where a row is
\* held and a callback or the release of a dialog asks for its slot, or the answer to
\* a RAR for the peer: without one of these no processes wait for each other.
OnlyReleasesCross ==
  Stuck => \E p \in Procs : pc[p] \in {"cleanup", "asaData", "raaData", "raaPeer", "raaSend"}

\* A session that was left to the PCRF's STA is freed, unless the processes that
\* should do so wait for each other or crashed: the STR that was sent for it is
\* answered after the session is in DISCON ("then the session stays open forever...
\* We dont accept that").
DisconEnds ==
  \A s \in Sessions : state[s] = "DISCON" ~> (state[s] = "freed" \/ Stuck \/ ~Up)

=============================================================================
