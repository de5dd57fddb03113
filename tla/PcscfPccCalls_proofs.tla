------------------------ MODULE PcscfPccCalls_proofs ------------------------
(***************************************************************************)
(* Further proofs about the sessions of the P-CSCF's calls: what the calls *)
(* find under the slot of their dialog, the order in which the locks are   *)
(* taken, and the STR of the sessions in DISCON.                           *)
(***************************************************************************)
EXTENDS PcscfPcc_proofs, FiniteSetTheorems

-----------------------------------------------------------------------------
(* The order of the locks, where the session timer has nothing to do.       *)

\* Where a process q may hold a lock l.
MayHold(q, l) ==
  \/ l \in Dialogs /\ \/ pc[q] \in {"aarRow", "strRow"} /\ on[q] = l
                      \/ pc[q] \in {"term", "strPeer", "strSend"}
  \/ l = "peer" /\ pc[q] \in {"aarSend", "strSend", "raaSend"}
  \/ l \in Rows /\ pc[q] \in OnSession /\ Row(at[q]) = l

Holding == \A l \in Locks : lock[l] # None => MayHold(lock[l], l)

\* A process that moves lets go of the locks it may not hold there.
LEMMA HoldingFrame ==
  ASSUME Inv, Holding, NEW p \in Procs,
         \A q \in Procs \ {p} : pc'[q] = pc[q] /\ at'[q] = at[q] /\ on'[q] = on[q],
         \A l \in Locks : lock'[l] \in {lock[l], p, None},
         \A l \in Locks : lock'[l] = p => MayHold(p, l)'
  PROVE  Holding'
<1> SUFFICES ASSUME NEW l \in Locks, lock'[l] # None, lock'[l] # p PROVE MayHold(lock[l], l)'
  BY DEF Holding
<1>1. lock'[l] = lock[l] /\ lock[l] \in Procs \ {p} /\ MayHold(lock[l], l)
  BY DEF Holding, Inv, LockTypes
<1> QED BY <1>1 DEF MayHold

LEMMA CallStepHolding ==
  ASSUME HeldInv, Holding, NEW p \in Callers \cup {Worker}, CallStep(p) PROVE Holding'
<1> USE DEF HeldInv, Inv
<1>1. p \in Procs /\ None \notin Procs
  BY PccAssumption DEF Procs, Callers
<1>2. \A l \in Locks : lock[l] = p => MayHold(p, l)
  BY <1>1 DEF Holding
<1>3. CASE NoDialog(p)
  <2>1. lock' = lock /\ Done(p) /\ \A l \in Locks : lock[l] # p
    BY <1>2, <1>3 DEF NoDialog, MayHold, OnSession
  <2> QED BY <1>1, <2>1, HoldingFrame DEF Done, LocTypes
<1>4. CASE GetDialog(p)
  <2>1. /\ pc'[p] \in {"aarRow", "strRow"} /\ on' = on /\ on[p] \in Dialogs
        /\ \A q \in Procs \ {p} : pc'[q] = pc[q] /\ at'[q] = at[q]
        /\ lock' = [lock EXCEPT ![on[p]] = p] /\ \A l \in Locks : lock[l] # p
    BY <1>1, <1>2, <1>4
       DEF GetDialog, GotoWith, Take, LocTypes, ForDialog, MayHold, OnSession
  <2> QED BY <1>1, <2>1, HoldingFrame DEF LockTypes, MayHold
<1>5. CASE CreateSession(p)
  <2>1. PICK s \in Unused : Swap(p, Row(s), on[p]) /\ GotoWith(p, "build", s)
    BY <1>5 DEF CreateSession
  <2>2. /\ on[p] \in Dialogs /\ Row(s) \in Rows /\ s \in Sessions
        /\ \A l \in Locks : lock[l] = p => l = on[p]
    BY <1>1, <1>2, <1>5, PccAssumption
       DEF CreateSession, LocTypes, ForDialog, MayHold, OnSession, Unused, Row
  <2>3. \A l \in Locks : /\ lock'[l] \in {lock[l], p, None}
                         /\ lock'[l] = p => l = Row(s)
    BY <1>1, <2>1, <2>2, PccAssumption DEF Swap, LockTypes, Locks
  <2>4. /\ pc'[p] = "build" /\ at'[p] = s
        /\ \A q \in Procs \ {p} : pc'[q] = pc[q] /\ at'[q] = at[q] /\ on'[q] = on[q]
    BY <1>1, <2>1 DEF GotoWith, LocTypes
  <2> QED BY <1>1, <2>2, <2>3, <2>4, HoldingFrame DEF MayHold, OnSession, Row
<1>6. CASE NoMemory(p)
  <2>1. /\ lock' = [l \in Locks |-> IF l \in {on[p]} THEN None ELSE lock[l]] /\ Done(p)
        /\ \A l \in Locks : lock[l] = p => l = on[p]
    BY <1>2, <1>6 DEF NoMemory, Unlock, MayHold, OnSession
  <2> QED BY <1>1, <2>1, HoldingFrame DEF Done, LocTypes
<1>7. CASE FindSession(p)
  <2>1. CASE at[p] \in InTable
    <3>1. /\ Swap(p, Row(at[p]), on[p]) /\ Goto(p, "build")
          /\ on[p] \in Dialogs /\ Row(at[p]) \in Rows
          /\ \A l \in Locks : lock[l] = p => l = on[p]
      BY <1>1, <1>2, <1>7, <2>1, PccAssumption
         DEF FindSession, LocTypes, ForDialog, MayHold, OnSession, InTable, Row
    <3>2. \A l \in Locks : /\ lock'[l] \in {lock[l], p, None}
                           /\ lock'[l] = p => l = Row(at[p])
      BY <1>1, <3>1, PccAssumption DEF Swap, LockTypes, Locks
    <3>3. /\ pc'[p] = "build" /\ at' = at
          /\ \A q \in Procs \ {p} : pc'[q] = pc[q] /\ at'[q] = at[q] /\ on'[q] = on[q]
      BY <1>1, <3>1 DEF Goto, LocTypes
    <3> QED BY <1>1, <3>1, <3>2, <3>3, HoldingFrame DEF MayHold, OnSession, Row
  <2>2. CASE at[p] \notin InTable
    BY <1>7, <2>2 DEF FindSession, locVars, Holding, MayHold, Row
  <2> QED BY <2>1, <2>2
<1>8. CASE BuildAAR(p)
  <2>1. CASE data[at[p]]
    <3>1. /\ lock' = [l \in Locks |-> IF l \in {Row(at[p])} THEN None ELSE lock[l]]
          /\ Goto(p, "aarPeer") /\ \A l \in Locks : lock[l] = p => l = Row(at[p])
      BY <1>2, <1>8, <2>1 DEF BuildAAR, Unlock, MayHold, OnSession
    <3> QED BY <1>1, <3>1, HoldingFrame DEF Goto, LocTypes
  <2>2. CASE ~data[at[p]]
    BY <1>8, <2>2 DEF BuildAAR, locVars, Holding, MayHold, Row
  <2> QED BY <2>1, <2>2
<1>9. CASE NotSent(p)
  <2>1. /\ lock' = [l \in Locks |-> IF l \in Slots(p) THEN None ELSE lock[l]] /\ Done(p)
        /\ \A l \in Locks : lock[l] = p => l \in Slots(p)
    BY <1>2, <1>9 DEF NotSent, Unlock, MayHold, OnSession, Slots
  <2> QED BY <1>1, <2>1, HoldingFrame DEF Done, LocTypes
<1>10. CASE GetPeer(p)
  <2>1. lock' = [lock EXCEPT !["peer"] = p] /\ at' = at /\ on' = on
    BY <1>10 DEF GetPeer, Take, Goto
  <2>2. \/ pc[p] = "aarPeer" /\ pc' = [pc EXCEPT ![p] = "aarSend"]
        \/ pc[p] = "strPeer" /\ pc' = [pc EXCEPT ![p] = "strSend"]
        \/ pc[p] = "raaPeer" /\ pc' = [pc EXCEPT ![p] = "raaSend"]
    BY <1>10 DEF GetPeer, Goto
  <2>3. \A q \in Procs \ {p} : pc'[q] = pc[q]
    BY <2>2 DEF LocTypes
  <2>4. \A l \in Locks : lock'[l] \in {lock[l], p, None}
    BY <2>1 DEF LockTypes
  <2>5. ASSUME NEW l \in Locks, lock'[l] = p PROVE MayHold(p, l)'
    <3>1. l = "peer" \/ MayHold(p, l)
      BY <1>2, <2>1, <2>5 DEF LockTypes
    <3> QED BY <1>1, <2>1, <2>2, <3>1 DEF LocTypes, MayHold, OnSession, Row
  <2> QED BY <1>1, <2>1, <2>3, <2>4, <2>5, HoldingFrame
<1>11. CASE SendAAR(p)
  <2>1. /\ lock' = [l \in Locks |-> IF l \in {"peer"} \cup Slots(p) THEN None ELSE lock[l]]
        /\ Goto(p, "await") /\ \A l \in Locks : lock[l] = p => l = "peer"
    BY <1>2, <1>11 DEF SendAAR, Snd_Message, Unlock, MayHold, OnSession
  <2> QED BY <1>1, <2>1, HoldingFrame DEF Goto, LocTypes
<1>12. CASE SendSTR(p)
  <2>1. /\ lock' = [l \in Locks |-> IF l \in {"peer"} \cup Slots(p) THEN None ELSE lock[l]]
        /\ Done(p) /\ \A l \in Locks : lock[l] = p => l \in {"peer"} \cup Slots(p)
    BY <1>2, <1>12 DEF SendSTR, Snd_Message, Unlock, MayHold, OnSession, Slots
  <2> QED BY <1>1, <2>1, HoldingFrame DEF Done, LocTypes
<1>13. CASE AnswerTimesOut(p)
  <2>1. lock' = lock /\ Done(p) /\ \A l \in Locks : lock[l] # p
    BY <1>2, <1>13 DEF AnswerTimesOut, MayHold, OnSession
  <2> QED BY <1>1, <2>1, HoldingFrame DEF Done, LocTypes
<1>14. CASE ReleaseOnReply(p)
  <2>1. lock' = lock /\ Done(p) /\ \A l \in Locks : lock[l] # p
    BY <1>2, <1>14 DEF ReleaseOnReply, MayHold, OnSession
  <2> QED BY <1>1, <2>1, HoldingFrame DEF Done, LocTypes
<1>15. CASE PCC_STR(p)
  <2>1. \A l \in Locks : lock[l] = p => l = on[p]
    BY <1>2, <1>15 DEF PCC_STR, MayHold, OnSession
  <2>2. CASE UNCHANGED <<lock, locVars>>
    BY <2>2 DEF locVars, Holding, MayHold, Row
  <2>3. CASE (GotoWith(p, "strPeer", at[p]) /\ Unlock({on[p]}))
             \/ (Done(p) /\ Unlock({on[p]} \cup Slots(p)))
    <3>1. \A q \in Procs \ {p} : pc'[q] = pc[q] /\ at'[q] = at[q] /\ on'[q] = on[q]
      BY <1>1, <2>3 DEF GotoWith, Done, LocTypes
    <3>2. \A l \in Locks : lock'[l] \in {lock[l], None} /\ lock'[l] # p
      BY <1>1, <2>1, <2>3 DEF Unlock
    <3> QED BY <1>1, <3>1, <3>2, HoldingFrame
  <2> QED BY <1>15, <2>2, <2>3 DEF PCC_STR, send_STR
<1>16. CASE DropDialog(p)
  <2>1. on[p] \in Dialogs /\ \A l \in Locks : lock[l] # p
    BY <1>1, <1>2, <1>16 DEF DropDialog, LocTypes, ForDialog, MayHold, OnSession
  <2>2. \A q \in Procs \ {p} : pc'[q] = pc[q] /\ at'[q] = at[q] /\ on'[q] = on[q]
    BY <1>1, <1>16 DEF DropDialog, GotoWith, Done, LocTypes
  <2>3. \A l \in Locks : /\ lock'[l] \in {lock[l], p}
                         /\ lock'[l] = p => l \in Dialogs /\ pc'[p] = "term"
    BY <1>1, <1>16, <2>1 DEF DropDialog, GotoWith, Done, Take, LocTypes, LockTypes
  <2> QED BY <1>1, <2>2, <2>3, HoldingFrame DEF MayHold
<1>17. CASE terminate_pcc_session(p)
  <2>1. \A l \in Locks : lock[l] = p => l \in Slots(p)
    BY <1>2, <1>17 DEF terminate_pcc_session, MayHold, OnSession, Slots
  <2>2. CASE UNCHANGED <<lock, locVars>>
    BY <2>2 DEF locVars, Holding, MayHold, Row
  <2>3. CASE (GotoWith(p, "strPeer", at[p]) /\ Unlock({}))
             \/ (Done(p) /\ Unlock({} \cup Slots(p)))
    <3>1. \A q \in Procs \ {p} : pc'[q] = pc[q] /\ at'[q] = at[q] /\ on'[q] = on[q]
      BY <1>1, <2>3 DEF GotoWith, Done, LocTypes
    <3>2. \A l \in Locks : /\ lock'[l] \in {lock[l], None}
                           /\ lock'[l] = p => l \in Dialogs /\ pc'[p] = "strPeer"
      BY <1>1, <2>1, <2>3 DEF Unlock, GotoWith, Slots, LocTypes
    <3> QED BY <1>1, <3>1, <3>2, HoldingFrame DEF MayHold
  <2> QED BY <1>17, <2>2, <2>3 DEF terminate_pcc_session, send_STR
<1> QED BY <1>3, <1>4, <1>5, <1>6, <1>7, <1>8, <1>9, <1>10, <1>11, <1>12, <1>13,
   <1>14, <1>15, <1>16, <1>17
   DEF CallStep

LEMMA ReceiverHolding ==
  ASSUME HeldInv, Holding, ReceiverStep PROVE Holding'
<1> USE DEF HeldInv, Inv
<1>1. Receiver \in Procs /\ None \notin Procs
  BY PccAssumption DEF Procs, Callers
<1>2. \A l \in Locks : lock[l] = Receiver => MayHold(Receiver, l)
  BY <1>1 DEF Holding
<1>3. CASE Receive
  <2>1. /\ lock' = lock /\ \A l \in Locks : lock[l] # Receiver
        /\ \A q \in Procs \ {Receiver} : pc'[q] = pc[q] /\ at'[q] = at[q] /\ on'[q] = on[q]
    BY <1>2, <1>3 DEF Receive, MayHold, OnSession, LocTypes
  <2> QED BY <1>1, <2>1, HoldingFrame
<1>4. CASE RcvAAA
  <2>1. /\ lock' = lock
        /\ \A q \in Procs : \/ pc[q] \in {"AAA_OK", "AAA_BAD", "await"}
                            \/ pc'[q] = pc[q] /\ at'[q] = at[q] /\ on'[q] = on[q]
    BY <1>1, <1>4 DEF RcvAAA
  <2>2. ASSUME NEW l \in Locks, lock[l] # None PROVE MayHold(lock[l], l)'
    <3>1. lock[l] \in Procs /\ MayHold(lock[l], l)
      BY <2>2 DEF Holding, LockTypes
    <3> QED BY <2>1, <3>1 DEF MayHold, OnSession, Row
  <2> QED BY <2>1, <2>2 DEF Holding
<1>5. CASE RcvSTA
  <2>1. /\ at[Receiver] \in Sessions /\ Row(at[Receiver]) \in Rows
        /\ \A l \in Locks : lock[l] # Receiver
        /\ \A q \in Procs \ {Receiver} : pc'[q] = pc[q] /\ at'[q] = at[q] /\ on'[q] = on[q]
    BY <1>1, <1>2, <1>5, PccAssumption
       DEF RcvSTA, Goto, Done, LocTypes, WithSession, Row, MayHold, OnSession
  <2>2. CASE Done(Receiver) /\ UNCHANGED lock
    BY <1>1, <2>1, <2>2, HoldingFrame
  <2>3. CASE Take(Receiver, Row(at[Receiver])) /\ Goto(Receiver, "cleanup")
    <3>1. \A l \in Locks : /\ lock'[l] \in {lock[l], Receiver}
                           /\ lock'[l] = Receiver => l = Row(at[Receiver])
      BY <2>1, <2>3 DEF Take, LockTypes
    <3>2. pc'[Receiver] = "cleanup" /\ at' = at
      BY <1>1, <2>3 DEF Goto, LocTypes
    <3> QED BY <1>1, <2>1, <3>1, <3>2, HoldingFrame DEF MayHold, OnSession, Row
  <2> QED BY <1>5, <2>2, <2>3 DEF RcvSTA
<1>6. CASE CleanUp
  <2>1. /\ lock' = [l \in Locks |-> IF l \in {Row(at[Receiver])} THEN None ELSE lock[l]]
        /\ Done(Receiver) /\ \A l \in Locks : lock[l] = Receiver => l = Row(at[Receiver])
    BY <1>2, <1>6 DEF CleanUp, DropSession, Unlock, MayHold, OnSession
  <2> QED BY <1>1, <2>1, HoldingFrame DEF Done, LocTypes
<1>7. CASE RcvRequest
  <2>1. lock' = lock /\ Done(Receiver) /\ \A l \in Locks : lock[l] # Receiver
    BY <1>2, <1>7 DEF RcvRequest, MayHold, OnSession
  <2> QED BY <1>1, <2>1, HoldingFrame DEF Done, LocTypes
<1> QED BY <1>3, <1>4, <1>5, <1>6, <1>7 DEF ReceiverStep

LEMMA WorkerHolding ==
  ASSUME HeldInv, Holding, WorkerStep PROVE Holding'
<1> USE DEF HeldInv, Inv
<1>1. Worker \in Procs /\ None \notin Procs
  BY PccAssumption DEF Procs, Callers
<1>2. \A l \in Locks : lock[l] = Worker => MayHold(Worker, l)
  BY <1>1 DEF Holding
<1>3. CASE TakeTask
  <2>1. /\ lock' = lock /\ \A l \in Locks : lock[l] # Worker
        /\ \A q \in Procs \ {Worker} : pc'[q] = pc[q] /\ at'[q] = at[q] /\ on'[q] = on[q]
    BY <1>2, <1>3 DEF TakeTask, GotoWith, MayHold, OnSession, LocTypes
  <2> QED BY <1>1, <2>1, HoldingFrame
<1>4. CASE GetRequested
  <2>1. /\ at[Worker] \in Sessions /\ Row(at[Worker]) \in Rows
        /\ \A l \in Locks : lock[l] # Worker
        /\ \A q \in Procs \ {Worker} : pc'[q] = pc[q] /\ at'[q] = at[q] /\ on'[q] = on[q]
    BY <1>1, <1>2, <1>4, PccAssumption
       DEF GetRequested, Goto, Done, LocTypes, WithSession, Row, MayHold, OnSession
  <2>2. CASE Done(Worker) /\ UNCHANGED lock
    BY <1>1, <2>1, <2>2, HoldingFrame
  <2>3. CASE /\ Take(Worker, Row(at[Worker]))
             /\ Goto(Worker, "asaData") \/ Goto(Worker, "raaData")
    <3>1. \A l \in Locks : /\ lock'[l] \in {lock[l], Worker}
                           /\ lock'[l] = Worker => l = Row(at[Worker])
      BY <2>1, <2>3 DEF Take, LockTypes
    <3>2. pc'[Worker] \in {"asaData", "raaData"} /\ at' = at
      BY <1>1, <2>3 DEF Goto, LocTypes
    <3> QED BY <1>1, <2>1, <3>1, <3>2, HoldingFrame DEF MayHold, OnSession, Row
  <2> QED BY <1>4, <2>2, <2>3 DEF GetRequested
<1>5. CASE pcc_data_release_safe
  <2>1. /\ \A l \in Locks : lock[l] = Worker => l \in Rows /\ l = Row(at[Worker])
        /\ \A q \in Procs \ {Worker} : pc'[q] = pc[q] /\ at'[q] = at[q] /\ on'[q] = on[q]
    BY <1>1, <1>2, <1>5
       DEF pcc_data_release_safe, Goto, Done, LocTypes, MayHold, OnSession
  <2>2. CASE Done(Worker) /\ Unlock({Row(at[Worker])})
    BY <1>1, <2>1, <2>2, HoldingFrame DEF Unlock
  <2>3. CASE Goto(Worker, "raaPeer") /\ UNCHANGED lock
    <3>1. pc'[Worker] = "raaPeer" /\ at' = at
      BY <1>1, <2>3 DEF Goto, LocTypes
    <3> QED BY <1>1, <2>1, <2>3, <3>1, HoldingFrame DEF MayHold, OnSession, Row
  <2> QED BY <1>5, <2>2, <2>3 DEF pcc_data_release_safe
<1>6. CASE AnswerNotSent
  <2>1. /\ lock' = [l \in Locks |-> IF l \in {Row(at[Worker])} THEN None ELSE lock[l]]
        /\ \A l \in Locks : lock[l] = Worker => l = Row(at[Worker])
        /\ \A q \in Procs \ {Worker} : pc'[q] = pc[q] /\ at'[q] = at[q] /\ on'[q] = on[q]
    BY <1>1, <1>2, <1>6
       DEF AnswerNotSent, Unlock, Goto, Done, LocTypes, MayHold, OnSession
  <2> QED BY <1>1, <2>1, HoldingFrame
<1> QED BY <1>3, <1>4, <1>5, <1>6 DEF WorkerStep

LEMMA HoldingNext == HeldInv /\ Holding /\ [Next]_vars => Holding'
<1> SUFFICES ASSUME HeldInv, Holding, [Next]_vars PROVE Holding'
  OBVIOUS
<1>1. ASSUME NEW p \in Callers, NEW d \in Dialogs, Begin(p, d) PROVE Holding'
  <2>1. p \in Procs /\ None \notin Procs
    BY PccAssumption DEF Procs, Callers
  <2>2. /\ lock' = lock /\ \A l \in Locks : lock[l] # p
        /\ \A q \in Procs \ {p} : pc'[q] = pc[q] /\ at'[q] = at[q] /\ on'[q] = on[q]
    BY <1>1, <2>1 DEF Begin, Holding, MayHold, OnSession, HeldInv, Inv, LocTypes
  <2> QED BY <2>1, <2>2, HoldingFrame DEF HeldInv
<1>2. ASSUME PcrfStep PROVE Holding'
  BY <1>2 DEF PcrfStep, Answer, Ask, locVars, Holding, MayHold, Row
<1>3. ASSUME UNCHANGED vars PROVE Holding'
  BY <1>3 DEF vars, locVars, Holding, MayHold, Row
<1> QED BY <1>1, <1>2, <1>3, CallStepHolding, ReceiverHolding, WorkerHolding DEF Next

\* What a process that no release crosses waits for comes after what it holds.
LEMMA WaitsInOrder ==
  ASSUME Inv, NEW p \in Procs, pc[p] # "scan",
         pc[p] \notin {"cleanup", "asaData", "raaData", "raaPeer", "raaSend"}
  PROVE  /\ Waits(p) \in Locks \cup {None}
         /\ pc[p] = "build" => Waits(p) = None
         /\ pc[p] \in {"aarSend", "strSend"} => Waits(p) \in Rows
         /\ pc[p] \in {"aarRow", "strRow", "term", "strPeer", "strSend"} =>
              Waits(p) \in Rows \cup {"peer", None}
<1> USE DEF Inv
<1>1. pc[p] \in Places /\ at[p] \in Sessions \cup {None} /\ None \notin Sessions
  BY PccAssumption DEF LocTypes
<1>2. \A s \in Sessions : Row(s) \in Rows
  BY PccAssumption DEF Row
<1>3. CASE pc[p] \in {"aar", "str", "drop", "expire", "onreply"}
  <2>1. on[p] \in Dialogs
    BY <1>3 DEF LocTypes, ForDialog
  <2> QED BY <1>3, <2>1 DEF Waits, Locks
<1>4. CASE pc[p] = "aarRow" /\ at[p] = None
  <2>1. Unused \subseteq Sessions /\ Unused \subseteq Nat
    BY DEF Unused, Sessions
  <2>2. Unused # {} => (CHOOSE s \in Unused : \A t \in Unused : s <= t) \in Unused
    BY <2>1, LeastExists
  <2> QED BY <1>2, <1>4, <2>1, <2>2 DEF Waits, Locks
<1>5. CASE \/ pc[p] = "aarRow" /\ at[p] # None
           \/ pc[p] \in {"strRow", "term", "aarSend", "strSend", "AAA_OK", "AAA_BAD",
                         "STA", "ASR", "RAR"}
  <2>1. at[p] \in Sessions
    BY <1>1, <1>5 DEF LocTypes, WithSession
  <2>2. Waits(p) = Row(at[p])
    BY <1>5 DEF Waits
  <2> QED BY <1>2, <1>5, <2>1, <2>2 DEF Locks
<1>6. CASE pc[p] \in {"aarPeer", "strPeer"}
  BY <1>6 DEF Waits, Locks
<1>7. CASE pc[p] \in {"idle", "build", "discard", "await"}
  BY <1>7 DEF Waits
<1> QED BY <1>1, <1>3, <1>4, <1>5, <1>6, <1>7 DEF Places, ForDialog, WithSession

LEMMA NoCircle == HeldInv /\ Holding => OnlyReleasesCross
<1> SUFFICES ASSUME HeldInv, Holding, Stuck,
                    \A p \in Procs : pc[p] \notin {"cleanup", "asaData", "raaData",
                                                   "raaPeer", "raaSend"}
             PROVE  FALSE
  BY Zenon DEF OnlyReleasesCross
<1> PICK circle \in (SUBSET Blocked) \ {{}} : \A p \in circle : lock[Waits(p)] \in circle
  BY Zenon DEF Stuck
<1> USE DEF HeldInv, Inv
<1>1. \A p \in circle : /\ p \in Procs /\ pc[p] # "scan"
                        /\ Waits(p) \in Locks /\ lock[Waits(p)] # None
  BY WaitsInOrder DEF Blocked, Free, Held
<1>2. \A p \in circle : MayHold(lock[Waits(p)], Waits(p))
  BY <1>1 DEF Holding
<1>3. \A p \in circle : Waits(p) \notin Rows
  <2> SUFFICES ASSUME NEW p \in circle, Waits(p) \in Rows PROVE FALSE
    OBVIOUS
  <2>1. pc[lock[Waits(p)]] \in OnSession
    BY <1>2, PccAssumption DEF MayHold
  <2>2. pc[lock[Waits(p)]] = "build"
    BY <1>1, <2>1 DEF OnSession
  <2> QED BY <1>1, <2>2, WaitsInOrder DEF Blocked
<1>4. \A p \in circle : Waits(p) # "peer"
  <2> SUFFICES ASSUME NEW p \in circle, Waits(p) = "peer" PROVE FALSE
    OBVIOUS
  <2>1. pc[lock[Waits(p)]] \in {"aarSend", "strSend", "raaSend"}
    BY <1>2, PccAssumption DEF MayHold
  <2> QED BY <1>1, <1>3, <2>1, WaitsInOrder
<1>5. \A p \in circle : Waits(p) \notin Dialogs
  <2> SUFFICES ASSUME NEW p \in circle, Waits(p) \in Dialogs PROVE FALSE
    OBVIOUS
  <2>1. pc[lock[Waits(p)]] \in {"aarRow", "strRow", "term", "strPeer", "strSend"}
    BY <1>2, PccAssumption DEF MayHold
  <2>2. Waits(lock[Waits(p)]) \in Rows \cup {"peer", None}
    BY <1>1, <2>1, WaitsInOrder
  <2> QED BY <1>1, <1>3, <1>4, <2>2 DEF Blocked
<1>6. circle # {}
  OBVIOUS
<1>7. PICK p \in circle : TRUE
  BY <1>6
<1> QED BY <1>1, <1>3, <1>4, <1>5, <1>7 DEF Locks

-----------------------------------------------------------------------------
(* What a call finds, where the session timer has nothing to do.            *)

\* A session in the table has its generic_data, which only the clean up takes.
HaveData == \A s \in InTable : data[s]

\* The session that P_AAR() takes from the dialog stays the dialog's own in the table.
SlotKeeps ==
  \A p \in Procs : pc[p] = "aarRow" /\ at[p] # None =>
    at[p] \in InTable /\ owner[at[p]] = on[p]

Finding == HaveData /\ SlotKeeps /\ CallsFindTheirSession

\* Nobody enters "aarRow", and nothing happens to the table.
LEMMA FindingFrame ==
  ASSUME HaveData, SlotKeeps, UNCHANGED <<owner, data>>, InTable' = InTable,
         \A p \in Procs : \/ pc'[p] # "aarRow"
                          \/ pc'[p] = pc[p] /\ at'[p] = at[p] /\ on'[p] = on[p]
  PROVE  HaveData' /\ SlotKeeps'
BY DEF HaveData, SlotKeeps

LEMMA CallStepFinding ==
  ASSUME HeldInv, Finding, NEW p \in Callers \cup {Worker}, CallStep(p) PROVE Finding'
<1> USE DEF HeldInv, Inv, Finding
<1>1. p \in Procs /\ None \notin Procs
  BY PccAssumption DEF Procs, Callers
<1>2. CASE GetDialog(p)
  <2>1. /\ GotoWith(p, IF pc[p] = "aar" THEN "aarRow" ELSE "strRow", link[on[p]])
        /\ on[p] \in Dialogs /\ UNCHANGED <<state, owner, data, crashed>>
    BY <1>1, <1>2 DEF GetDialog, sesVars, LocTypes, ForDialog
  <2>2. link[on[p]] # None => link[on[p]] \in InTable /\ owner[link[on[p]]] = on[p]
    BY <2>1 DEF Links, LinkedIsLive
  <2>3. SlotKeeps'
    BY <1>1, <2>1, <2>2 DEF GotoWith, SlotKeeps, LocTypes, InTable
  <2> QED BY <2>1, <2>3 DEF HaveData, InTable, CallsFindTheirSession
<1>3. CASE CreateSession(p)
  <2>1. PICK s \in Unused :
          /\ state' = [state EXCEPT ![s] = "IDLE"]
          /\ owner' = [owner EXCEPT ![s] = on[p]] /\ data' = [data EXCEPT ![s] = TRUE]
          /\ GotoWith(p, "build", s)
    BY <1>3 DEF CreateSession
  <2>2. s \in Sessions /\ s \notin InTable /\ InTable' = InTable \cup {s}
    BY <2>1 DEF Unused, InTable, SesTypes
  <2>3. HaveData'
    BY <2>1, <2>2 DEF HaveData, SesTypes, InTable
  <2>4. SlotKeeps'
    BY <1>1, <2>1, <2>2 DEF GotoWith, SlotKeeps, SesTypes, LocTypes, InTable
  <2> QED BY <1>3, <2>3, <2>4 DEF CreateSession, CallsFindTheirSession
<1>4. CASE FindSession(p)
  <2>1. at[p] \in InTable
    BY <1>1, <1>4 DEF FindSession, SlotKeeps
  <2>2. Goto(p, "build") /\ UNCHANGED <<state, owner, data, crashed>>
    BY <1>4, <2>1 DEF FindSession, sesVars
  <2> QED BY <1>1, <2>2, FindingFrame DEF Goto, LocTypes, InTable, CallsFindTheirSession
<1>5. CASE BuildAAR(p)
  <2>1. data[at[p]]
    BY <1>1, <1>5 DEF BuildAAR, Held, OnSession, HaveData
  <2>2. Goto(p, "aarPeer") /\ UNCHANGED <<state, owner, data, crashed>>
    BY <1>5, <2>1 DEF BuildAAR, sesVars
  <2> QED BY <1>1, <2>2, FindingFrame DEF Goto, LocTypes, InTable, CallsFindTheirSession
<1>6. CASE SendAAR(p)
  <2>1. at[p] \in Sessions
    BY <1>1, <1>6 DEF SendAAR, LocTypes, WithSession
  <2>2. /\ Snd_Message(p, "SEND_AAR", [kind |-> "AAR", s |-> at[p], by |-> p])
        /\ UNCHANGED <<owner, data, fromPcrf, known, asked, tasks, crashed>>
        /\ Goto(p, "await")
    BY <1>6 DEF SendAAR
  <2>3. InTable' = InTable
    BY <1>1, <2>1, <2>2, SendKeeps
  <2> QED BY <1>1, <2>2, <2>3, FindingFrame DEF Goto, LocTypes, CallsFindTheirSession
<1>7. CASE SendSTR(p)
  <2>1. at[p] \in Sessions
    BY <1>1, <1>7 DEF SendSTR, LocTypes, WithSession
  <2>2. /\ Snd_Message(p, "SEND_STR", [kind |-> "STR", s |-> at[p], by |-> p])
        /\ UNCHANGED <<owner, data, fromPcrf, known, asked, tasks, crashed>>
        /\ Done(p)
    BY <1>7 DEF SendSTR
  <2>3. InTable' = InTable
    BY <1>1, <2>1, <2>2, SendKeeps
  <2> QED BY <1>1, <2>2, <2>3, FindingFrame DEF Done, LocTypes, CallsFindTheirSession
<1>8. CASE PCC_STR(p) \/ terminate_pcc_session(p)
  <2>1. PICK held \in {{}, {on[p]}} : send_STR(p, at[p], held)
    BY <1>8 DEF PCC_STR, terminate_pcc_session
  <2>2. /\ GotoWith(p, "strPeer", at[p]) \/ Done(p)
        /\ UNCHANGED crashed
    BY <2>1 DEF send_STR, HaveData
  <2>3. UNCHANGED <<state, owner, data>>
    BY <1>8 DEF PCC_STR, terminate_pcc_session, sesVars
  <2> QED BY <1>1, <2>2, <2>3, FindingFrame
     DEF GotoWith, Done, LocTypes, InTable, CallsFindTheirSession
<1>9. CASE \/ NoDialog(p) \/ NoMemory(p) \/ NotSent(p) \/ GetPeer(p) \/ AnswerTimesOut(p)
           \/ ReleaseOnReply(p) \/ DropDialog(p)
  <2>1. UNCHANGED <<state, owner, data, crashed>>
    BY <1>9
       DEF NoDialog, NoMemory, NotSent, GetPeer, AnswerTimesOut, ReleaseOnReply,
           DropDialog, sesVars
  <2>2. \A q \in Procs : \/ pc'[q] # "aarRow"
                         \/ pc'[q] = pc[q] /\ at'[q] = at[q] /\ on'[q] = on[q]
    BY <1>1, <1>9
       DEF NoDialog, NoMemory, NotSent, GetPeer, AnswerTimesOut, ReleaseOnReply,
           DropDialog, Done, Goto, GotoWith, LocTypes
  <2> QED BY <2>1, <2>2, FindingFrame DEF InTable, CallsFindTheirSession
<1> QED BY <1>2, <1>3, <1>4, <1>5, <1>6, <1>7, <1>8, <1>9 DEF CallStep

LEMMA ReceiverFinding ==
  ASSUME HeldInv, Finding, ReceiverStep PROVE Finding'
<1> USE DEF HeldInv, Inv, Finding
<1>1. Receiver \in Procs /\ None \notin Procs
  BY PccAssumption DEF Procs, Callers
<1>2. CASE Receive
  <2>1. Head(fromPcrf) \in Messages
    BY <1>2, HeadTailProperties DEF Receive, NetTypes
  <2>2. /\ UNCHANGED <<state, owner, data, crashed>>
        /\ \A q \in Procs : \/ pc'[q] # "aarRow"
                            \/ pc'[q] = pc[q] /\ at'[q] = at[q] /\ on'[q] = on[q]
    BY <1>1, <1>2, <2>1 DEF Receive, sesVars, LocTypes, Messages
  <2> QED BY <2>2, FindingFrame DEF InTable, CallsFindTheirSession
<1>3. CASE RcvAAA
  <2> DEFINE ev == IF pc[Receiver] = "AAA_OK" THEN "RECV_ANS_SUCCESS" ELSE "RECV_ANS_UNSUCCESS"
  <2>1. at[Receiver] \in Sessions /\ UNCHANGED <<owner, data, crashed>>
    BY <1>1, <1>3 DEF RcvAAA, LocTypes, WithSession
  <2>2. \/ at[Receiver] \in InTable /\ Process(at[Receiver], ev, {})
        \/ UNCHANGED <<state, due, strSent, toPcrf>>
    BY <1>3 DEF RcvAAA
  <2>3. InTable' = InTable
    BY <2>1, <2>2, EventKeeps
  <2>4. \A q \in Procs : \/ pc'[q] # "aarRow"
                         \/ pc'[q] = pc[q] /\ at'[q] = at[q] /\ on'[q] = on[q]
    BY <1>1, <1>3 DEF RcvAAA
  <2> QED BY <2>1, <2>3, <2>4, FindingFrame DEF CallsFindTheirSession
<1>4. CASE RcvSTA
  <2>1. UNCHANGED <<state, owner, data, crashed>>
    BY <1>4 DEF RcvSTA, sesVars
  <2>2. \A q \in Procs : \/ pc'[q] # "aarRow"
                         \/ pc'[q] = pc[q] /\ at'[q] = at[q] /\ on'[q] = on[q]
    BY <1>1, <1>4 DEF RcvSTA, Goto, Done, LocTypes
  <2> QED BY <2>1, <2>2, FindingFrame DEF InTable, CallsFindTheirSession
<1>5. CASE CleanUp
  <2> DEFINE s == at[Receiver]
  <2>1. /\ s \in InTable /\ s \in Sessions /\ data[s] /\ CallbackMayRun(s)
        /\ state' = [state EXCEPT ![s] = "freed"]
        /\ data' = [data EXCEPT ![s] = FALSE] /\ UNCHANGED <<owner, crashed>>
        /\ Done(Receiver)
    BY <1>1, <1>5
       DEF CleanUp, DropSession, Callback, Held, OnSession, HaveData, InTable
  <2>2. InTable' = InTable \ {s}
    BY <2>1 DEF InTable, SesTypes
  <2>3. HaveData'
    BY <2>1, <2>2 DEF HaveData, SesTypes, InTable
  <2>4. ASSUME NEW q \in Procs, pc'[q] = "aarRow", at'[q] # None
        PROVE  at'[q] \in InTable' /\ owner'[at'[q]] = on'[q]
    <3>1. pc[q] = "aarRow" /\ at'[q] = at[q] /\ on'[q] = on[q]
      BY <1>1, <2>1, <2>4 DEF Done, LocTypes
    <3>2. at[q] \in InTable /\ owner[at[q]] = on[q] /\ lock[on[q]] = q
      BY <2>4, <3>1 DEF SlotKeeps, SlotHeld
    <3>3. at[q] # s
      BY <1>1, <2>1, <3>2 DEF CallbackMayRun, Free
    <3> QED BY <2>1, <2>2, <3>1, <3>2, <3>3
  <2> QED BY <2>1, <2>3, <2>4 DEF SlotKeeps, CallsFindTheirSession
<1>6. CASE RcvRequest
  <2>1. at[Receiver] \in Sessions /\ UNCHANGED <<owner, data, crashed>> /\ Done(Receiver)
    BY <1>1, <1>6 DEF RcvRequest, LocTypes, WithSession
  <2>2. \/ at[Receiver] \in InTable /\ Process(at[Receiver], "RECV_ASR", {})
        \/ UNCHANGED <<state, due, strSent, toPcrf>>
    BY <1>6 DEF RcvRequest
  <2>3. InTable' = InTable
    BY <2>1, <2>2, EventKeeps
  <2> QED BY <1>1, <2>1, <2>3, FindingFrame DEF Done, LocTypes, CallsFindTheirSession
<1> QED BY <1>2, <1>3, <1>4, <1>5, <1>6 DEF ReceiverStep

LEMMA WorkerFinding ==
  ASSUME HeldInv, Finding, WorkerStep PROVE Finding'
<1> USE DEF HeldInv, Inv, Finding
<1>1. Worker \in Procs /\ None \notin Procs
  BY PccAssumption DEF Procs, Callers
<1>2. UNCHANGED <<state, owner, data>>
  BY DEF WorkerStep, TakeTask, GetRequested, pcc_data_release_safe, AnswerNotSent, sesVars
<1>3. \A q \in Procs : \/ pc'[q] # "aarRow"
                       \/ pc'[q] = pc[q] /\ at'[q] = at[q] /\ on'[q] = on[q]
  BY <1>1
     DEF WorkerStep, TakeTask, GetRequested, pcc_data_release_safe, AnswerNotSent, Goto,
         GotoWith, Done, LocTypes, NetTypes
<1>4. pc[Worker] = "raaPeer" => data[at[Worker]]
  BY <1>1 DEF Held, OnSession, HaveData
<1>5. CallsFindTheirSession'
  BY <1>4
     DEF WorkerStep, TakeTask, GetRequested, pcc_data_release_safe, AnswerNotSent,
         CallsFindTheirSession
<1> QED BY <1>2, <1>3, <1>5, FindingFrame DEF InTable

LEMMA FindingNext == HeldInv /\ Finding /\ [Next]_vars => Finding'
<1> SUFFICES ASSUME HeldInv, Finding, [Next]_vars PROVE Finding'
  OBVIOUS
<1>1. ASSUME NEW p \in Callers, NEW d \in Dialogs, Begin(p, d) PROVE Finding'
  <2>1. p \in Procs
    BY DEF Procs, Callers
  <2>2. /\ UNCHANGED <<state, owner, data, crashed>>
        /\ \A q \in Procs : \/ pc'[q] # "aarRow"
                            \/ pc'[q] = pc[q] /\ at'[q] = at[q] /\ on'[q] = on[q]
    BY <1>1, <2>1 DEF Begin, sesVars, HeldInv, Inv, LocTypes
  <2> QED BY <2>2, FindingFrame DEF Finding, InTable, CallsFindTheirSession
<1>2. ASSUME PcrfStep PROVE Finding'
  BY <1>2, FindingFrame
     DEF PcrfStep, Answer, Ask, sesVars, locVars, Finding, InTable, CallsFindTheirSession
<1>3. ASSUME UNCHANGED vars PROVE Finding'
  BY <1>3, FindingFrame
     DEF vars, sesVars, locVars, Finding, InTable, CallsFindTheirSession
<1> QED BY <1>1, <1>2, <1>3, CallStepFinding, ReceiverFinding, WorkerFinding DEF Next

-----------------------------------------------------------------------------
(* Who is refused, in all behaviours.                                       *)

\* A session is open only once the PCRF has granted it.  A refusal was sent before any
\* grant of its session: it is read, and handled, before one.
Grants ==
  /\ \A s \in Sessions : state[s] = "OPEN" => s \in known
  /\ \A i \in DOMAIN fromPcrf : fromPcrf[i].kind = "AAA_OK" => fromPcrf[i].s \in known
  /\ pc[Receiver] = "AAA_OK" => at[Receiver] \in known

RefusedBefore ==
  /\ \A i \in DOMAIN fromPcrf : fromPcrf[i].kind = "AAA_BAD" =>
       /\ state[fromPcrf[i].s] # "OPEN"
       /\ ~(pc[Receiver] = "AAA_OK" /\ at[Receiver] = fromPcrf[i].s)
       /\ \A j \in 1..(i - 1) : ~(fromPcrf[j].kind = "AAA_OK" /\ fromPcrf[j].s = fromPcrf[i].s)
  /\ pc[Receiver] = "AAA_BAD" => state[at[Receiver]] # "OPEN"

EndInv == Inv /\ Grants /\ RefusedBefore /\ DisconMeansStrSent

LEMMA ThreeAtMost ==
  ASSUME NEW x, NEW y, NEW z PROVE Cardinality({x, y, z}) <= 3
<1>1. IsFiniteSet({x}) /\ Cardinality({x}) = 1
  BY FS_Singleton
<1>2. IsFiniteSet({x} \cup {y}) /\ Cardinality({x} \cup {y}) \in {1, 2}
  BY <1>1, FS_AddElement
<1>3. Cardinality(({x} \cup {y}) \cup {z}) \in {1, 2, 3}
  BY <1>2, FS_AddElement
<1>4. {x, y, z} = ({x} \cup {y}) \cup {z}
  OBVIOUS
<1> QED BY <1>3, <1>4

\* The receiver is not one of the other processes.
LEMMA ReceiverApart == Receiver \notin Callers \cup {Worker, Timer}
<1>1. /\ Cardinality({Worker, Timer, DialogTimer}) <= 3
      /\ Cardinality({Receiver, Worker, Timer, DialogTimer}) = 4
      /\ Receiver \notin SipProcs
  BY ThreeAtMost, PccAssumption
<1>2. ASSUME Receiver \in {Worker, Timer, DialogTimer} PROVE FALSE
  <2>1. {Receiver, Worker, Timer, DialogTimer} = {Worker, Timer, DialogTimer}
    BY <1>2
  <2> QED BY <1>1, <2>1
<1> QED BY <1>1, <1>2 DEF Callers

\* One event of a session: only an answer that grants it opens it, and it is ended by an
\* STR unless it is refused while it is open.
LEMMA ProcessEnds ==
  ASSUME SesTypes, DisconMeansStrSent, NEW s \in Sessions, NEW ev, NEW msgs,
         Process(s, ev, msgs), ~(ev = "RECV_ANS_UNSUCCESS" /\ state[s] = "OPEN")
  PROVE  /\ DisconMeansStrSent'
         /\ \A t \in Sessions : state'[t] = "OPEN" =>
              state[t] = "OPEN" \/ (t = s /\ ev = "RECV_ANS_SUCCESS")
<1>1. /\ state' = [state EXCEPT ![s] = Target(state[s], ev)]
      /\ strSent \subseteq strSent'
      /\ EndsService(state[s], ev) \/ ev = "SEND_STR" => s \in strSent'
  BY DEF Process
<1>2. Target(state[s], ev) = "DISCON" => state[s] = "DISCON" \/ s \in strSent'
  BY <1>1 DEF Target, EndsService
<1>3. Target(state[s], ev) = "OPEN" => state[s] = "OPEN" \/ ev = "RECV_ANS_SUCCESS"
  BY DEF Target
<1> QED BY <1>1, <1>2, <1>3 DEF DisconMeansStrSent, SesTypes

\* Nothing is answered: no session opens, and the receiver has no new answer.
LEMMA AnswersFrame ==
  ASSUME Grants, RefusedBefore, UNCHANGED <<known, fromPcrf>>,
         \A s \in Sessions : state'[s] = "OPEN" => state[s] = "OPEN",
         fromPcrf \in Seq(Messages), at \in [Procs -> Sessions \cup {None}],
         pc'[Receiver] \in {"AAA_OK", "AAA_BAD"} =>
           pc'[Receiver] = pc[Receiver] /\ at'[Receiver] = at[Receiver] /\ at[Receiver] \in Sessions
  PROVE  Grants' /\ RefusedBefore'
<1>1. \A i \in DOMAIN fromPcrf : fromPcrf[i] \in Messages
  OBVIOUS
<1> QED BY <1>1 DEF Messages, Grants, RefusedBefore

\* Nor does any session end.
LEMMA EndFrame ==
  ASSUME EndInv, UNCHANGED <<state, strSent, known, fromPcrf>>, Inv',
         pc'[Receiver] \in {"AAA_OK", "AAA_BAD"} =>
           pc'[Receiver] = pc[Receiver] /\ at'[Receiver] = at[Receiver]
  PROVE  EndInv'
BY DEF EndInv, Grants, RefusedBefore, DisconMeansStrSent

\* A session is freed.
LEMMA FreedFrame ==
  ASSUME EndInv, NEW s \in Sessions, state' = [state EXCEPT ![s] = "freed"], Inv',
         UNCHANGED <<strSent, known, fromPcrf>>,
         pc'[Receiver] \in {"AAA_OK", "AAA_BAD"} =>
           pc'[Receiver] = pc[Receiver] /\ at'[Receiver] = at[Receiver]
  PROVE  EndInv'
<1>1. \A t \in Sessions : state'[t] \in {state[t], "freed"}
  BY DEF EndInv, Inv, SesTypes
<1>2. pc'[Receiver] \in {"AAA_OK", "AAA_BAD"} => at[Receiver] \in Sessions
  BY DEF EndInv, Inv, LocTypes, WithSession, Procs
<1> QED BY <1>1, <1>2, AnswersFrame
   DEF EndInv, Inv, NetTypes, LocTypes, DisconMeansStrSent

LEMMA CallStepEnds ==
  ASSUME EndInv, NEW p \in Callers \cup {Worker}, CallStep(p), UNCHANGED calls PROVE EndInv'
<1> USE DEF EndInv
<1>1. p \in Procs /\ p # Receiver /\ Receiver \in Procs /\ Inv'
  BY CallStepInv, ReceiverApart, PccAssumption DEF Callers, Procs
<1>2. pc'[Receiver] = pc[Receiver] /\ at'[Receiver] = at[Receiver]
  BY <1>1
     DEF CallStep, NoDialog, GetDialog, CreateSession, NoMemory, FindSession, BuildAAR,
         NotSent, GetPeer, SendAAR, SendSTR, AnswerTimesOut, ReleaseOnReply, PCC_STR,
         DropDialog, terminate_pcc_session, send_STR, Done, Goto, GotoWith, locVars, Inv,
         LocTypes
<1>3. pc'[Receiver] \in {"AAA_OK", "AAA_BAD"} => at[Receiver] \in Sessions
  BY <1>1, <1>2 DEF Inv, LocTypes, WithSession
<1>4. CASE CreateSession(p)
  <2>1. PICK s \in Unused : state' = [state EXCEPT ![s] = "IDLE"]
    BY <1>4 DEF CreateSession
  <2>2. \A t \in Sessions : state'[t] \in {state[t], "IDLE"}
    BY <2>1 DEF Inv, SesTypes
  <2>3. UNCHANGED <<strSent, known, fromPcrf>>
    BY <1>4 DEF CreateSession, netVars
  <2> QED BY <1>1, <1>2, <1>3, <2>2, <2>3, AnswersFrame
     DEF Inv, NetTypes, LocTypes, DisconMeansStrSent
<1>5. CASE SendAAR(p) \/ SendSTR(p)
  <2>1. PICK ev \in {"SEND_AAR", "SEND_STR"}, kind \in {"AAR", "STR"} :
          Snd_Message(p, ev, [kind |-> kind, s |-> at[p], by |-> p]) /\ UNCHANGED <<fromPcrf, known>>
    BY <1>5 DEF SendAAR, SendSTR
  <2>2. CASE at[p] \in InTable
    <3>1. Process(at[p], ev, {[kind |-> kind, s |-> at[p], by |-> p]}) /\ at[p] \in Sessions
      BY <2>1, <2>2 DEF Snd_Message, InTable
    <3>2. DisconMeansStrSent' /\ \A t \in Sessions : state'[t] = "OPEN" => state[t] = "OPEN"
      BY <2>1, <3>1, ProcessEnds DEF Inv
    <3> QED BY <1>1, <1>2, <1>3, <2>1, <3>2, AnswersFrame DEF Inv, NetTypes, LocTypes
  <2>3. CASE at[p] \notin InTable
    BY <1>1, <1>2, <2>1, <2>3, EndFrame DEF Snd_Message
  <2> QED BY <2>2, <2>3
<1>6. CASE AnswerTimesOut(p)
  <2>1. /\ fromPcrf' = [i \in DOMAIN fromPcrf |-> Forget(fromPcrf[i], p)]
        /\ UNCHANGED <<state, strSent, known>>
    BY <1>6 DEF AnswerTimesOut, sesVars
  <2>2. \A m \in Messages : Forget(m, p).kind = m.kind /\ Forget(m, p).s = m.s
    BY DEF Forget, Messages
  <2>3. /\ DOMAIN fromPcrf' = DOMAIN fromPcrf
        /\ \A i \in DOMAIN fromPcrf :
             fromPcrf'[i].kind = fromPcrf[i].kind /\ fromPcrf'[i].s = fromPcrf[i].s
    BY <2>1, <2>2 DEF Inv, NetTypes
  <2>4. \A i \in DOMAIN fromPcrf : \A j \in 1..(i - 1) : j \in DOMAIN fromPcrf
    BY DEF Inv, NetTypes
  <2>5. Grants'
    BY <1>2, <2>1, <2>3 DEF Grants
  <2>6. RefusedBefore'
    BY <1>2, <2>1, <2>3, <2>4 DEF RefusedBefore
  <2> QED BY <1>1, <2>1, <2>5, <2>6 DEF DisconMeansStrSent
<1>7. CASE ~(CreateSession(p) \/ SendAAR(p) \/ SendSTR(p) \/ AnswerTimesOut(p))
  <2>1. UNCHANGED <<state, strSent, known, fromPcrf>>
    BY <1>7
       DEF CallStep, NoDialog, GetDialog, NoMemory, FindSession, BuildAAR, NotSent,
           GetPeer, ReleaseOnReply, PCC_STR, DropDialog, terminate_pcc_session, sesVars,
           netVars
  <2> QED BY <1>1, <1>2, <2>1, EndFrame
<1> QED BY <1>4, <1>5, <1>6, <1>7

LEMMA ReceiverEnds ==
  ASSUME EndInv, ReceiverStep, UNCHANGED calls PROVE EndInv'
<1> USE DEF EndInv
<1>1. Receiver \in Procs /\ Inv'
  BY ReceiverInv DEF Procs
<1>2. CASE Receive
  <2>1. /\ pc'[Receiver] = Head(fromPcrf).kind /\ at'[Receiver] = Head(fromPcrf).s
        /\ fromPcrf # <<>> /\ fromPcrf' = Tail(fromPcrf) /\ fromPcrf \in Seq(Messages)
        /\ UNCHANGED <<state, strSent, known>>
    BY <1>1, <1>2 DEF Receive, sesVars, Inv, LocTypes, NetTypes
  <2>2. /\ Head(fromPcrf) = fromPcrf[1] /\ 1 \in DOMAIN fromPcrf
        /\ \A i \in DOMAIN fromPcrf' : /\ i \in Nat /\ i + 1 \in DOMAIN fromPcrf
                                       /\ fromPcrf'[i] = fromPcrf[i + 1]
    BY <2>1, HeadTailProperties
  <2>3. Grants'
    BY <2>1, <2>2 DEF Grants
  <2>4. ASSUME NEW i \in DOMAIN fromPcrf', fromPcrf'[i].kind = "AAA_BAD"
        PROVE  /\ state[fromPcrf'[i].s] # "OPEN"
               /\ ~(fromPcrf[1].kind = "AAA_OK" /\ fromPcrf[1].s = fromPcrf'[i].s)
               /\ \A j \in 1..(i - 1) :
                    ~(fromPcrf'[j].kind = "AAA_OK" /\ fromPcrf'[j].s = fromPcrf'[i].s)
    <3>1. /\ i \in Nat /\ i + 1 \in DOMAIN fromPcrf /\ fromPcrf'[i] = fromPcrf[i + 1]
          /\ i \in 1..Len(fromPcrf')
      BY <2>1, <2>2
    <3>2. \A j \in 1..i :
            ~(fromPcrf[j].kind = "AAA_OK" /\ fromPcrf[j].s = fromPcrf[i + 1].s)
      BY <2>4, <3>1 DEF RefusedBefore
    <3>3. \A j \in 1..(i - 1) : j \in DOMAIN fromPcrf' /\ j + 1 \in 1..i
      BY <2>1, <3>1
    <3>4. state[fromPcrf[i + 1].s] # "OPEN"
      BY <2>4, <3>1 DEF RefusedBefore
    <3> QED BY <2>2, <3>1, <3>2, <3>3, <3>4
  <2>5. fromPcrf[1].kind = "AAA_BAD" => state[fromPcrf[1].s] # "OPEN"
    BY <2>2 DEF RefusedBefore
  <2>6. RefusedBefore'
    BY <2>1, <2>2, <2>4, <2>5 DEF RefusedBefore
  <2> QED BY <1>1, <2>1, <2>3, <2>6 DEF DisconMeansStrSent
<1>3. CASE RcvAAA
  <2> DEFINE s == at[Receiver]
             ok == pc[Receiver] = "AAA_OK"
             ev == IF ok THEN "RECV_ANS_SUCCESS" ELSE "RECV_ANS_UNSUCCESS"
  <2>1. /\ s \in Sessions /\ pc[Receiver] \in {"AAA_OK", "AAA_BAD"} /\ pc'[Receiver] = "idle"
        /\ UNCHANGED <<fromPcrf, known>>
    BY <1>1, <1>3 DEF RcvAAA, Inv, LocTypes, WithSession
  <2>2. CASE s \in InTable
    <3>1. Process(s, ev, {})
      BY <1>3, <2>2 DEF RcvAAA
    <3>2. ~ok => state[s] # "OPEN"
      BY <2>1 DEF RefusedBefore
    <3>3. /\ DisconMeansStrSent'
          /\ \A t \in Sessions : state'[t] = "OPEN" => state[t] = "OPEN" \/ (t = s /\ ok)
      BY <2>1, <3>1, <3>2, ProcessEnds DEF Inv
    <3>4. Grants'
      BY <2>1, <3>3 DEF Grants
    <3>5. \A i \in DOMAIN fromPcrf : fromPcrf[i] \in Messages
      BY DEF Inv, NetTypes
    <3>6. RefusedBefore'
      BY <2>1, <3>3, <3>5 DEF RefusedBefore, Messages
    <3> QED BY <1>1, <3>3, <3>4, <3>6
  <2>3. CASE s \notin InTable
    <3>1. UNCHANGED <<state, strSent>>
      BY <1>3, <2>3 DEF RcvAAA
    <3> QED BY <1>1, <2>1, <3>1, EndFrame
  <2> QED BY <2>2, <2>3
<1>4. CASE RcvSTA
  <2>1. UNCHANGED <<state, strSent, known, fromPcrf>> /\ pc'[Receiver] \in {"idle", "cleanup"}
    BY <1>1, <1>4 DEF RcvSTA, Goto, Done, sesVars, netVars, Inv, LocTypes
  <2> QED BY <1>1, <2>1, EndFrame
<1>5. CASE CleanUp
  <2>1. /\ state' = [state EXCEPT ![at[Receiver]] = "freed"] /\ at[Receiver] \in Sessions
        /\ UNCHANGED <<strSent, known, fromPcrf>> /\ pc'[Receiver] = "idle"
    BY <1>1, <1>5 DEF CleanUp, DropSession, Done, netVars, Inv, LocTypes, WithSession
  <2> QED BY <1>1, <2>1, FreedFrame
<1>6. CASE RcvRequest
  <2>1. /\ at[Receiver] \in Sessions /\ UNCHANGED <<known, fromPcrf>>
        /\ pc'[Receiver] = "idle"
    BY <1>1, <1>6 DEF RcvRequest, Done, Inv, LocTypes, WithSession
  <2>2. CASE UNCHANGED <<state, strSent>>
    BY <1>1, <2>1, <2>2, EndFrame
  <2>3. CASE Process(at[Receiver], "RECV_ASR", {})
    <3>1. DisconMeansStrSent' /\ \A t \in Sessions : state'[t] = "OPEN" => state[t] = "OPEN"
      BY <2>1, <2>3, ProcessEnds DEF Inv
    <3> QED BY <1>1, <2>1, <3>1, AnswersFrame DEF Inv, NetTypes, LocTypes
  <2> QED BY <1>6, <2>2, <2>3 DEF RcvRequest
<1> QED BY <1>2, <1>3, <1>4, <1>5, <1>6 DEF ReceiverStep

LEMMA WorkerEnds ==
  ASSUME EndInv, WorkerStep, UNCHANGED calls PROVE EndInv'
<1> USE DEF EndInv
<1>1. Worker \in Procs /\ Receiver \in Procs /\ Receiver # Worker /\ Inv'
  BY WorkerInv, ReceiverApart DEF Procs
<1>2. /\ pc'[Receiver] = pc[Receiver] /\ at'[Receiver] = at[Receiver]
      /\ UNCHANGED <<state, strSent, known, fromPcrf>>
  BY <1>1
     DEF WorkerStep, TakeTask, GetRequested, pcc_data_release_safe, AnswerNotSent, Goto,
         GotoWith, Done, sesVars, netVars, Inv, LocTypes
<1> QED BY <1>1, <1>2, EndFrame

\* Where no open session is refused, a refusal is sent before any grant.
LEMMA PcrfEnds ==
  ASSUME Rejects \subseteq {"PENDING"}, EndInv, PcrfStep, UNCHANGED calls PROVE EndInv'
<1> USE DEF EndInv
<1>1. Receiver \in Procs /\ Inv'
  BY PcrfInv DEF Procs
<1>2. /\ UNCHANGED <<state, strSent, pc, at>> /\ fromPcrf \in Seq(Messages)
      /\ pc[Receiver] \in {"AAA_OK", "AAA_BAD"} => at[Receiver] \in Sessions
  BY <1>1 DEF PcrfStep, Answer, Ask, sesVars, locVars, Inv, NetTypes, LocTypes, WithSession
<1>3. PICK m \in Messages :
        /\ fromPcrf' = Append(fromPcrf, m)
        /\ \/ m.kind = "AAA_OK" /\ known' = known \cup {m.s}
           \/ m.kind = "AAA_BAD" /\ m.s \notin known /\ known' = known
           \/ m.kind \notin {"AAA_OK", "AAA_BAD"} /\ known' = known
  <2>1. ASSUME NEW q \in toPcrf, Answer(q)
        PROVE  \E k \in {"AAA_OK", "AAA_BAD", "STA"} :
                 /\ fromPcrf' = Append(fromPcrf, [kind |-> k, s |-> q.s, by |-> q.by])
                 /\ \/ k = "AAA_OK" /\ known' = known \cup {q.s}
                    \/ k = "AAA_BAD" /\ q.s \notin known /\ known' = known
                    \/ k = "STA" /\ known' = known
    BY <2>1 DEF Answer, PcrfSends
  <2>2. \A q \in toPcrf : q.s \in Sessions /\ q.by \in Procs \cup {None}
    BY DEF Inv, NetTypes
  <2>3. ASSUME NEW s \in known, NEW k \in Requests, Ask(s, k)
        PROVE  /\ fromPcrf' = Append(fromPcrf, [kind |-> k, s |-> s, by |-> None])
               /\ known' = known /\ s \in Sessions /\ k \in {"ASR", "RAR"}
    BY <2>3, PccAssumption DEF Ask, PcrfSends, Inv, NetTypes
  <2>4. CASE \E q \in toPcrf : Answer(q)
    <3>1. PICK q \in toPcrf, k \in {"AAA_OK", "AAA_BAD", "STA"} :
            /\ fromPcrf' = Append(fromPcrf, [kind |-> k, s |-> q.s, by |-> q.by])
            /\ \/ k = "AAA_OK" /\ known' = known \cup {q.s}
               \/ k = "AAA_BAD" /\ q.s \notin known /\ known' = known
               \/ k = "STA" /\ known' = known
      BY <2>1, <2>4
    <3>2. [kind |-> k, s |-> q.s, by |-> q.by] \in Messages
      BY <2>2 DEF Messages
    <3> QED BY <3>1, <3>2
  <2>5. CASE \E s \in known, k \in Requests : Ask(s, k)
    <3>1. PICK s \in known, k \in Requests : Ask(s, k)
      BY <2>5
    <3>2. [kind |-> k, s |-> s, by |-> None] \in Messages
      BY <2>3, <3>1 DEF Messages
    <3> QED BY <2>3, <3>1, <3>2
  <2> QED BY <2>4, <2>5 DEF PcrfStep
<1>4. /\ Len(fromPcrf) \in Nat /\ DOMAIN fromPcrf = 1..Len(fromPcrf)
      /\ DOMAIN fromPcrf' = 1..(Len(fromPcrf) + 1)
      /\ \A i \in DOMAIN fromPcrf : fromPcrf'[i] = fromPcrf[i]
      /\ fromPcrf'[Len(fromPcrf) + 1] = m
  BY <1>2, <1>3
<1>5. Grants'
  BY <1>2, <1>3, <1>4 DEF Grants
<1>6. ASSUME NEW i \in DOMAIN fromPcrf', fromPcrf'[i].kind = "AAA_BAD"
      PROVE  /\ state[fromPcrf'[i].s] # "OPEN"
             /\ ~(pc[Receiver] = "AAA_OK" /\ at[Receiver] = fromPcrf'[i].s)
             /\ \A j \in 1..(i - 1) :
                  ~(fromPcrf'[j].kind = "AAA_OK" /\ fromPcrf'[j].s = fromPcrf'[i].s)
  <2>1. \A j \in 1..(i - 1) : j \in DOMAIN fromPcrf /\ fromPcrf'[j] = fromPcrf[j]
    BY <1>4
  <2>2. CASE i \in DOMAIN fromPcrf
    BY <1>4, <1>6, <2>1, <2>2 DEF RefusedBefore
  <2>3. CASE i = Len(fromPcrf) + 1
    <3>1. m.s \notin known /\ m.s \in Sessions /\ fromPcrf'[i] = m
      BY <1>3, <1>4, <1>6, <2>3 DEF Messages
    <3> QED BY <2>1, <3>1 DEF Grants
  <2> QED BY <1>4, <2>2, <2>3
<1>7. RefusedBefore'
  BY <1>2, <1>6 DEF RefusedBefore
<1> QED BY <1>1, <1>2, <1>5, <1>7 DEF DisconMeansStrSent

LEMMA TimeoutEnds ==
  ASSUME EndInv, Timeout, UNCHANGED calls PROVE EndInv'
<1> USE DEF EndInv
<1>1. /\ Receiver \in Procs /\ Timer \in Procs /\ Receiver # Timer /\ Inv'
  BY TimeoutInv, ReceiverApart DEF Procs
<1>2. pc'[Receiver] = pc[Receiver] /\ at'[Receiver] = at[Receiver]
  BY <1>1
     DEF Timeout, Expire, StartScan, VisitFreed, Visit, VisitExpired, EndScan, Advance,
         Done, locVars, Inv, LocTypes
<1>3. UNCHANGED <<known, fromPcrf>>
  BY DEF Timeout, Expire, StartScan, VisitFreed, Visit, VisitExpired, EndScan, netVars
<1>4. CASE VisitExpired
  <2>1. at[Timer] \in Sessions
    BY <1>4 DEF VisitExpired, InTable
  <2>2. CASE state' = [state EXCEPT ![at[Timer]] = "freed"] /\ UNCHANGED strSent
    BY <1>1, <1>2, <1>3, <2>1, <2>2, FreedFrame
  <2>3. CASE Process(at[Timer], "SESSION_TIMEOUT", {})
    <3>1. DisconMeansStrSent' /\ \A t \in Sessions : state'[t] = "OPEN" => state[t] = "OPEN"
      BY <2>1, <2>3, ProcessEnds DEF Inv
    <3>2. pc[Receiver] \in {"AAA_OK", "AAA_BAD"} => at[Receiver] \in Sessions
      BY <1>1 DEF Inv, LocTypes, WithSession
    <3> QED BY <1>1, <1>2, <1>3, <3>1, <3>2, AnswersFrame DEF Inv, NetTypes, LocTypes
  <2> QED BY <1>4, <2>2, <2>3 DEF VisitExpired
<1>5. CASE ~VisitExpired
  <2>1. UNCHANGED <<state, strSent>>
    BY <1>5 DEF Timeout, Expire, StartScan, VisitFreed, Visit, EndScan, sesVars
  <2> QED BY <1>1, <1>2, <1>3, <2>1, EndFrame
<1> QED BY <1>4, <1>5

LEMMA FailureEnds ==
  ASSUME EndInv, NEW p \in Callers, BuildFails(p) \/ Discard(p), UNCHANGED calls PROVE EndInv'
<1> USE DEF EndInv
<1>1. p \in Procs /\ p # Receiver /\ Receiver \in Procs /\ Inv'
  BY FailureInv, ReceiverApart DEF Callers, Procs
<1>2. /\ pc'[Receiver] = pc[Receiver] /\ at'[Receiver] = at[Receiver]
      /\ UNCHANGED <<strSent, known, fromPcrf>>
  BY <1>1 DEF BuildFails, Discard, Goto, Done, sesVars, netVars, Inv, LocTypes
<1>3. CASE BuildFails(p)
  BY <1>1, <1>2, <1>3, EndFrame DEF BuildFails, sesVars
<1>4. CASE Discard(p)
  <2>1. at[p] \in Sessions /\ state' = [state EXCEPT ![at[p]] = "freed"]
    BY <1>1, <1>4 DEF Discard, DropSession, Inv, LocTypes, WithSession
  <2> QED BY <1>1, <1>2, <2>1, FreedFrame
<1> QED BY <1>3, <1>4

LEMMA EndNext ==
  ASSUME Rejects \subseteq {"PENDING"} PROVE EndInv /\ [NextWithFaults]_vars => EndInv'
<1> SUFFICES ASSUME EndInv, [NextWithFaults]_vars PROVE EndInv'
  OBVIOUS
<1>1. ASSUME NEW p \in Callers, NEW d \in Dialogs, Begin(p, d) PROVE EndInv'
  <2>1. p \in Procs /\ p # Receiver /\ Receiver \in Procs /\ Inv'
    BY <1>1, BeginInv, ReceiverApart DEF Callers, Procs, EndInv
  <2>2. /\ pc'[Receiver] = pc[Receiver] /\ at'[Receiver] = at[Receiver]
        /\ UNCHANGED <<state, strSent, known, fromPcrf>>
    BY <1>1, <2>1 DEF Begin, sesVars, netVars, EndInv, Inv, LocTypes
  <2> QED BY <2>1, <2>2, EndFrame
<1>2. ASSUME UNCHANGED vars PROVE EndInv'
  BY <1>2, NextInv, EndFrame DEF vars, sesVars, netVars, locVars, EndInv
<1> QED BY <1>1, <1>2, CallStepEnds, ReceiverEnds, WorkerEnds, PcrfEnds, TimeoutEnds, FailureEnds
   DEF NextWithFaults, NextWithTime, Next, Failure

-----------------------------------------------------------------------------
(* Theorems.                                                                *)

\* No processes wait for each other in a circle, for any number of them, unless one is at
\* the callback of a clean up, at the release of a dialog for a request of the PCRF, or
\* at the answer to a RAR: the slot of a dialog is taken before the peer, the peer before
\* the row of a session, and PCC_AAR() lets go of the row before it sends.
THEOREM LocksAreOrdered == FairSpec => []OnlyReleasesCross
<1>1. Init => HeldInv /\ Holding
  BY InitInv DEF Init, HeldInv, Held, OnSession, Row, Holding
<1> QED BY <1>1, HeldNext, HoldingNext, NoCircle, PTL DEF FairSpec, Spec

\* A call never goes on with a session that it did not find, or without its generic_data:
\* callback_for_pccsession() asks for the slot of the dialog before the session is freed,
\* and P_AAR() and P_STR() keep it until they have the row.
THEOREM CallsFindSessions == FairSpec => []CallsFindTheirSession
<1>1. Init => HeldInv /\ Finding
  BY InitInv
     DEF Init, HeldInv, Held, OnSession, Row, Finding, HaveData, SlotKeeps, InTable,
         CallsFindTheirSession
<1>2. Finding => CallsFindTheirSession
  BY DEF Finding
<1> QED BY <1>1, <1>2, HeldNext, FindingNext, PTL DEF FairSpec, Spec

\* Whatever times out and whatever cannot be built, a session in DISCON was sent an STR,
\* if the PCRF refuses no session that is open: the machine sends no STR for one that it
\* refuses then.
THEOREM EndedSessionsWereSentSTR ==
  ASSUME Rejects \subseteq {"PENDING"} PROVE FaultySpec => []DisconMeansStrSent
<1>1. Init => EndInv
  BY InitInv DEF Init, EndInv, Grants, RefusedBefore, DisconMeansStrSent, Procs
<1>2. EndInv /\ [NextWithFaults]_vars => EndInv'
  BY EndNext
<1>3. EndInv => DisconMeansStrSent
  BY DEF EndInv
<1> QED BY <1>1, <1>2, <1>3, PTL DEF FaultySpec
=============================================================================
