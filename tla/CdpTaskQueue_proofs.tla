------------------------ MODULE CdpTaskQueue_proofs ------------------------
(***************************************************************************)
(* Proofs about the task queue of modules/cdp, for any receivers and       *)
(* workers and any length of the ring.                                     *)
(***************************************************************************)
EXTENDS CdpTaskQueue, FiniteSetTheorems, SequenceTheorems, TLAPS

\* A receiver inside put_task() has read a message.
MessageInHand == \A r \in Receivers : pc[r] \notin {"recv", "exited"} => read[r] > 0

TypeInv == TypeOK /\ MessageInHand

\* Who is between lock_get() and lock_release() is who holds the lock.
LockHeld == \A p \in Procs : pc[p] \in InPut \cup InTake <=> lock = p

\* The while conditions still hold when the ring is written or read.
RoomToPut  == \A r \in Receivers : pc[r] \in {"put_store", "put_publish"} => Succ(end) # start
SomeToTake == \A w \in Workers : pc[w] \in {"take_read", "take_advance"} => start # end

\* The queue is freed after the last process left.
DestroyedLast == main = "destroyed" => \A p \in Procs : pc[p] = "exited"

\* The inductive invariant.
QueueInv ==
  TypeInv /\ LockHeld /\ RoomToPut /\ SomeToTake /\ DestroyedLast /\ RingConsistent

LEMMA SuccType == ASSUME NEW i \in Slots PROVE Succ(i) \in Slots
BY QueueAssumption DEF Succ, Slots

\* Types are preserved by every step.
LEMMA TypeNext == TypeInv /\ [Next]_vars => TypeInv'
<1> SUFFICES ASSUME TypeInv, [Next]_vars PROVE TypeInv'
  OBVIOUS
<1> USE DEF TypeInv, MessageInHand, TypeOK, Go, Procs, ReceiverPC, WorkerPC, ring
<1>1. Cardinality(Workers) \in Nat
  BY ProcsAssumption, FS_CardinalityType
<1>2. Slots \subseteq Int /\ 0 \in Slots
  BY QueueAssumption DEF Slots
<1>3. ASSUME NEW r \in Receivers, ReceiveMessage(r) PROVE TypeInv'
  BY <1>3, ProcsAssumption, QueueAssumption DEF ReceiveMessage
<1>4. ASSUME NEW r \in Receivers, ReceiverStep(r) PROVE TypeInv'
  <2>1. CASE ReceiverExit(r)
    BY <2>1, ProcsAssumption DEF ReceiverExit
  <2>2. CASE PutLock(r)
    BY <2>2, ProcsAssumption DEF PutLock
  <2>3. CASE PutTest(r)
    BY <2>3, ProcsAssumption DEF PutTest
  <2>4. CASE PutStore(r)
    <3>1. read[r] \in 1..MaxMsgs => <<r, read[r]>> \in Tasks
      BY DEF Tasks
    <3> QED BY <2>4, <3>1, ProcsAssumption DEF PutStore
  <2>5. CASE PutPublish(r)
    BY <2>5, SuccType, ProcsAssumption DEF PutPublish
  <2>6. CASE PutRefuse(r)
    BY <2>6, ProcsAssumption DEF PutRefuse
  <2>7. CASE PutFull(r)
    BY <2>7, ProcsAssumption DEF PutFull
  <2>8. CASE PutWait(r)
    BY <2>8, ProcsAssumption DEF PutWait
  <2>9. CASE PutRetry(r)
    BY <2>9, ProcsAssumption DEF PutRetry
  <2> QED BY <1>4, <2>1, <2>2, <2>3, <2>4, <2>5, <2>6, <2>7, <2>8, <2>9 DEF ReceiverStep
<1>5. ASSUME NEW w \in Workers, WorkerStep(w) PROVE TypeInv'
  <2>1. CASE WorkerLoop(w)
    BY <2>1, ProcsAssumption DEF WorkerLoop
  <2>2. CASE WorkerExit(w)
    BY <2>2, <1>1, ProcsAssumption DEF WorkerExit
  <2>3. CASE TakeLock(w)
    BY <2>3, ProcsAssumption DEF TakeLock
  <2>4. CASE TakeTest(w)
    BY <2>4, ProcsAssumption DEF TakeTest
  <2>5. CASE TakeRead(w)
    BY <2>5, ProcsAssumption DEF TakeRead
  <2>6. CASE TakeAdvance(w)
    BY <2>6, SuccType, ProcsAssumption DEF TakeAdvance
  <2>7. CASE TakeRefuse(w)
    BY <2>7, ProcsAssumption DEF TakeRefuse
  <2>8. CASE TakeEmpty(w)
    BY <2>8, ProcsAssumption DEF TakeEmpty
  <2>9. CASE TakeWait(w)
    BY <2>9, ProcsAssumption DEF TakeWait
  <2>10. CASE TakeRetry(w)
    BY <2>10, ProcsAssumption DEF TakeRetry
  <2>11. CASE RunCallbacks(w)
    BY <2>11, ProcsAssumption DEF RunCallbacks
  <2> QED BY <1>5, <2>1, <2>2, <2>3, <2>4, <2>5, <2>6, <2>7, <2>8, <2>9, <2>10, <2>11 DEF WorkerStep
<1>6. CASE Shutdown
  BY <1>6, <1>1 DEF Shutdown
<1>7. CASE Destroy
  BY <1>7 DEF Destroy
<1>8. CASE UNCHANGED vars
  BY <1>8 DEF vars
<1> QED BY <1>3, <1>4, <1>5, <1>6, <1>7, <1>8 DEF Next

LEMMA InitInv == Init => QueueInv
<1> SUFFICES ASSUME Init PROVE QueueInv
  OBVIOUS
<1>1. 0 \in Slots
  BY QueueAssumption DEF Slots
<1>2. TypeInv
  <2>1. /\ \A r \in Receivers : pc[r] = "recv"
        /\ \A w \in Workers : pc[w] = "loop"
    BY ProcsAssumption DEF Init, Procs
  <2>2. pc \in [Procs -> ReceiverPC \cup WorkerPC]
    BY DEF Init, ReceiverPC, WorkerPC
  <2>3. read \in [Receivers -> 0..MaxMsgs]
    BY QueueAssumption DEF Init
  <2> QED
    BY <1>1, <2>1, <2>2, <2>3 DEF Init, TypeInv, TypeOK, MessageInHand, ReceiverPC, WorkerPC
<1>3. LockHeld /\ RoomToPut /\ SomeToTake /\ DestroyedLast
  BY ProcsAssumption
  DEF Init, LockHeld, RoomToPut, SomeToTake, DestroyedLast, InPut, InTake, Procs
<1>4. RingConsistent
  BY <1>1, QueueAssumption DEF Init, RingConsistent, Occupied, Slots
<1> QED BY <1>2, <1>3, <1>4 DEF QueueInv

\* Steps of a process that is outside the critical section, or that enters or
\* leaves it without touching the ring.
Outside(p) ==
  /\ p \in Procs /\ pc' = [pc EXCEPT ![p] = pc'[p]]
  /\ UNCHANGED <<start, end, queue, main>>
  /\ pc[p] # "exited"
  /\ \/ /\ pc[p] \notin InPut \cup InTake /\ pc'[p] \notin InPut \cup InTake
        /\ lock' = lock
     \/ /\ pc[p] \notin InPut \cup InTake /\ pc'[p] \in {"put_test", "take_test"}
        /\ lock = NoProc /\ lock' = p
     \/ /\ pc[p] \in {"put_test", "take_test"} /\ pc'[p] \notin InPut \cup InTake
        /\ lock' = NoProc

LEMMA OutsideInv ==
  ASSUME QueueInv, TypeInv', NEW p \in Procs, Outside(p)
  PROVE  LockHeld' /\ RoomToPut' /\ SomeToTake' /\ DestroyedLast' /\ RingConsistent'
<1> USE DEF QueueInv, TypeInv, TypeOK, Outside
<1>1. LockHeld'
  BY ProcsAssumption DEF LockHeld, InPut, InTake, Procs
<1>2. RoomToPut' /\ SomeToTake'
  <2>1. \A q \in Procs : q # p => pc'[q] = pc[q]
    OBVIOUS
  <2>2. pc'[p] \notin {"put_store", "put_publish", "take_read", "take_advance"}
    BY DEF InPut, InTake
  <2> QED BY <2>1, <2>2, ProcsAssumption DEF RoomToPut, SomeToTake, Succ, Procs
<1>3. DestroyedLast'
  BY DEF DestroyedLast
<1>4. RingConsistent'
  <2>2. (lock # NoProc /\ pc[lock] = "put_publish")
         <=> (lock' # NoProc /\ pc'[lock'] = "put_publish")
    BY ProcsAssumption DEF InPut, InTake, LockHeld
  <2>3. (lock # NoProc /\ pc[lock] = "take_advance")
         <=> (lock' # NoProc /\ pc'[lock'] = "take_advance")
    BY ProcsAssumption DEF InPut, InTake, LockHeld
  <2>4. Occupied' = Occupied
    BY DEF Occupied
  <2> QED BY <2>2, <2>3, <2>4 DEF RingConsistent
<1> QED BY <1>1, <1>2, <1>3, <1>4

\* Steps of the lock's holder p that stay in the critical section or leave it
\* from there.
LEMMA RingStepInv ==
  ASSUME QueueInv, TypeInv', NEW p \in Procs,
         \/ p \in Receivers /\ (PutTest(p) \/ PutStore(p) \/ PutPublish(p))
         \/ p \in Workers /\ (TakeTest(p) \/ TakeRead(p) \/ TakeAdvance(p))
  PROVE  LockHeld' /\ RoomToPut' /\ SomeToTake' /\ DestroyedLast' /\ RingConsistent'
<1> USE DEF QueueInv, TypeInv, TypeOK
<1>1. /\ lock = p /\ lock # NoProc /\ pc[p] # "exited"
      /\ \A q \in Procs : q # p => pc[q] \notin InPut \cup InTake
  <2>1. pc[p] \in InPut \cup InTake
    BY DEF PutTest, PutStore, PutPublish, TakeTest, TakeRead, TakeAdvance, InPut, InTake
  <2> QED BY <2>1, ProcsAssumption DEF LockHeld, InPut, InTake
<1>2. main # "destroyed"
  BY <1>1 DEF DestroyedLast
<1>3. pc' = [pc EXCEPT ![p] = pc'[p]] /\ main' = main
  BY DEF PutTest, PutStore, PutPublish, TakeTest, TakeRead, TakeAdvance, Go
<1>4. LockHeld'
  BY <1>1, <1>3, ProcsAssumption
  DEF LockHeld, InPut, InTake, Procs, Go,
      PutTest, PutStore, PutPublish, TakeTest, TakeRead, TakeAdvance
<1>5. DestroyedLast'
  BY <1>2, <1>3 DEF DestroyedLast
<1>6. RoomToPut' /\ SomeToTake'
  <2>1. \A q \in Procs : q # p =>
          pc'[q] \notin {"put_store", "put_publish", "take_read", "take_advance"}
    BY <1>1, <1>3 DEF InPut, InTake
  <2>2. p \in Receivers /\ pc'[p] \in {"put_store", "put_publish"} => Succ(end') # start'
    BY ProcsAssumption
    DEF PutTest, PutStore, PutPublish, RoomToPut, Go, Procs, ring, TakeTest, TakeRead, TakeAdvance, Succ
  <2>3. p \in Workers /\ pc'[p] \in {"take_read", "take_advance"} => start' # end'
    BY ProcsAssumption
    DEF SomeToTake, PutTest, PutStore, PutPublish, TakeTest, TakeRead, TakeAdvance, Go, Procs, ring
  <2> QED BY <2>1, <2>2, <2>3 DEF RoomToPut, SomeToTake, Procs, Succ
<1>7. RingConsistent'
  <2>0. \A i \in Slots :
          queue[i] # NoTask <=>
            IF pc[p] = "put_publish" THEN i \in Occupied \cup {end}
            ELSE IF pc[p] = "take_advance" THEN i \in Occupied \ {start}
            ELSE i \in Occupied
    BY <1>1, <1>2 DEF RingConsistent
  <2>1. CASE p \in Receivers /\ PutTest(p)
    <3>1. queue' = queue /\ Occupied' = Occupied /\ pc[p] = "put_test"
          /\ pc'[p] \in {"put_full", "put_store"} /\ lock' \in {p, NoProc}
      BY <2>1, <1>1 DEF PutTest, Go, Procs, Occupied, ring
    <3> QED BY <3>1, <2>0, <1>1 DEF RingConsistent
  <2>2. CASE p \in Workers /\ TakeTest(p)
    <3>1. queue' = queue /\ Occupied' = Occupied /\ pc[p] = "take_test"
          /\ pc'[p] \in {"take_empty", "take_read"} /\ lock' \in {p, NoProc}
      BY <2>2, <1>1 DEF TakeTest, Go, Procs, Occupied, ring
    <3> QED BY <3>1, <2>0, <1>1 DEF RingConsistent
  <2>3. CASE p \in Receivers /\ PutStore(p)
    <3>1. queue' = [queue EXCEPT ![end] = <<p, read[p]>>]
          /\ Occupied' = Occupied /\ end' = end /\ lock' = p
          /\ pc[p] = "put_store" /\ pc'[p] = "put_publish"
      BY <2>3, <1>1 DEF PutStore, Go, Occupied
    <3>2. <<p, read[p]>> # NoTask
      BY <2>3, QueueAssumption DEF PutStore, MessageInHand, Tasks
    <3> QED BY <3>1, <3>2, <2>0, <1>1 DEF RingConsistent
  <2>4. CASE p \in Workers /\ TakeRead(p)
    <3>1. queue' = [queue EXCEPT ![start] = NoTask]
          /\ Occupied' = Occupied /\ start' = start /\ lock' = p
          /\ pc[p] = "take_read" /\ pc'[p] = "take_advance"
      BY <2>4, <1>1 DEF TakeRead, Go, Occupied
    <3> QED BY <3>1, <2>0, <1>1 DEF RingConsistent
  <2>5. CASE p \in Receivers /\ PutPublish(p)
    <3>1. queue' = queue /\ lock' = NoProc /\ pc[p] = "put_publish"
          /\ start' = start /\ end' = Succ(end) /\ Succ(end) # start
      BY <2>5 DEF PutPublish, Go, RoomToPut
    <3>2. \A i \in Slots : i \in Occupied' <=> i \in Occupied \cup {end}
      BY <3>1, QueueAssumption DEF Occupied, Succ, Slots
    <3> QED BY <3>1, <3>2, <2>0 DEF RingConsistent
  <2>6. CASE p \in Workers /\ TakeAdvance(p)
    <3>1. queue' = queue /\ lock' = NoProc /\ pc[p] = "take_advance"
          /\ end' = end /\ start' = Succ(start) /\ start # end
      BY <2>6 DEF TakeAdvance, Go, SomeToTake
    <3>2. \A i \in Slots : i \in Occupied' <=> i \in Occupied \ {start}
      BY <3>1, QueueAssumption DEF Occupied, Succ, Slots
    <3> QED BY <3>1, <3>2, <2>0 DEF RingConsistent
  <2> QED BY <2>1, <2>2, <2>3, <2>4, <2>5, <2>6
<1> QED BY <1>4, <1>5, <1>6, <1>7

LEMMA NextInv == QueueInv /\ [Next]_vars => QueueInv'
<1> SUFFICES ASSUME QueueInv, [Next]_vars PROVE QueueInv'
  OBVIOUS
<1> USE DEF QueueInv
<1>1. TypeInv'
  BY TypeNext
<1>2. ASSUME NEW r \in Receivers, ReceiveMessage(r) \/ ReceiverStep(r) PROVE QueueInv'
  <2>1. r \in Procs
    BY DEF Procs
  <2>2. CASE PutTest(r) \/ PutStore(r) \/ PutPublish(r)
    BY <2>1, <2>2, <1>1, RingStepInv
  <2>3. CASE ~(PutTest(r) \/ PutStore(r) \/ PutPublish(r))
    <3>1. Outside(r)
      BY <1>2, <2>1, <2>3
      DEF Outside, ReceiverStep, ReceiveMessage, ReceiverExit, PutLock, PutRefuse, PutFull,
          PutWait, PutRetry, Go, InPut, InTake, TypeInv, TypeOK, ring
    <3> QED BY <2>1, <3>1, <1>1, OutsideInv
  <2> QED BY <2>2, <2>3
<1>3. ASSUME NEW w \in Workers, WorkerStep(w) PROVE QueueInv'
  <2>1. w \in Procs
    BY DEF Procs
  <2>2. CASE TakeTest(w) \/ TakeRead(w) \/ TakeAdvance(w)
    BY <2>1, <2>2, <1>1, RingStepInv
  <2>3. CASE ~(TakeTest(w) \/ TakeRead(w) \/ TakeAdvance(w))
    <3>1. Outside(w)
      BY <1>3, <2>1, <2>3
      DEF Outside, WorkerStep, WorkerLoop, WorkerExit, TakeLock, TakeRefuse, TakeEmpty,
          TakeWait, TakeRetry, RunCallbacks, Go, InPut, InTake, TypeInv, TypeOK, ring
    <3> QED BY <2>1, <3>1, <1>1, OutsideInv
  <2> QED BY <2>2, <2>3
<1>4. CASE Shutdown
  BY <1>1, <1>4 DEF Shutdown, LockHeld, RoomToPut, SomeToTake, DestroyedLast, RingConsistent,
                    Occupied, Succ, ring
<1>5. CASE Destroy
  BY <1>1, <1>5 DEF Destroy, LockHeld, RoomToPut, SomeToTake, DestroyedLast, RingConsistent, Succ
<1>6. CASE UNCHANGED vars
  BY <1>1, <1>6 DEF vars, LockHeld, RoomToPut, SomeToTake, DestroyedLast, RingConsistent,
                    Occupied, Succ
<1> QED BY <1>2, <1>3, <1>4, <1>5, <1>6 DEF Next

\* In every behaviour the variables of the queue keep their types.
THEOREM TypeCorrect == Spec => []TypeOK
<1>1. QueueInv => TypeOK
  BY DEF QueueInv, TypeInv
<1> QED BY InitInv, NextInv, <1>1, PTL DEF Spec

\* For any number of receivers and workers and any length of the ring,
\* put_task() never overwrites a task that no worker took and take_task() never
\* returns an empty slot.
THEOREM RingIsConsistent == Spec => []RingConsistent
<1>1. QueueInv => RingConsistent
  BY DEF QueueInv
<1> QED BY InitInv, NextInv, <1>1, PTL DEF Spec

-----------------------------------------------------------------------------
(* Wake-ups                                                                 *)

\* One element more, one element less.
LEMMA CardinalityStep ==
  ASSUME NEW S, NEW T, NEW x, IsFiniteSet(S), IsFiniteSet(T), S \subseteq T,
         T \subseteq S \cup {x}, x \in T, x \notin S
  PROVE  /\ Cardinality(S) \in Nat /\ Cardinality(T) \in Nat
         /\ Cardinality(T) = Cardinality(S) + 1
<1>1. T = S \cup {x}
  OBVIOUS
<1> QED BY <1>1, FS_AddElement, FS_CardinalityType

\* The active processes are finitely many.
LEMMA ActiveFinite ==
  /\ IsFiniteSet(ActiveWorkers) /\ Cardinality(ActiveWorkers) \in Nat
  /\ IsFiniteSet(ActiveReceivers) /\ Cardinality(ActiveReceivers) \in Nat
<1>1. ActiveWorkers \subseteq Workers /\ ActiveReceivers \subseteq Receivers
  BY DEF ActiveWorkers, ActiveReceivers
<1> QED BY <1>1, ProcsAssumption, FS_Subset, FS_CardinalityType

\* The same in the next state.
LEMMA ActiveFiniteNext ==
  /\ IsFiniteSet(ActiveWorkers') /\ Cardinality(ActiveWorkers') \in Nat
  /\ IsFiniteSet(ActiveReceivers') /\ Cardinality(ActiveReceivers') \in Nat
<1>1. ActiveWorkers' \subseteq Workers /\ ActiveReceivers' \subseteq Receivers
  BY DEF ActiveWorkers, ActiveReceivers
<1> QED BY <1>1, ProcsAssumption, FS_Subset, FS_CardinalityType

\* How the number of tasks in the ring changes.
LEMMA CountStep ==
  ASSUME QueueInv
  PROVE  /\ Count \in Nat
         /\ start = end <=> Count = 0
         /\ Succ(end) = start <=> Count = QueueLength - 1
         /\ Count <= QueueLength - 1
         /\ \A r \in Receivers : PutPublish(r) => Count' = Count + 1
         /\ \A w \in Workers : TakeAdvance(w) => Count' = Count - 1
         /\ start' = start /\ end' = end => Count' = Count
<1> USE QueueAssumption DEF QueueInv, TypeInv, TypeOK, Count, Slots, Succ
<1>1. ASSUME NEW r \in Receivers, PutPublish(r) PROVE Count' = Count + 1
  BY <1>1 DEF PutPublish, RoomToPut
<1>2. ASSUME NEW w \in Workers, TakeAdvance(w) PROVE Count' = Count - 1
  BY <1>2 DEF TakeAdvance, SomeToTake
<1> QED BY <1>1, <1>2

\* A process outside a set of active processes and its step, in four cases.
LEMMA ActiveStep ==
  ASSUME TypeOK, NEW p \in Procs, pc' = [pc EXCEPT ![p] = pc'[p]]
  PROVE  /\ (p \in ActiveWorkers <=> p \in ActiveWorkers') => ActiveWorkers' = ActiveWorkers
         /\ p \notin ActiveWorkers /\ p \in ActiveWorkers'
              => Cardinality(ActiveWorkers') = Cardinality(ActiveWorkers) + 1
         /\ p \in ActiveWorkers /\ p \notin ActiveWorkers'
              => Cardinality(ActiveWorkers) = Cardinality(ActiveWorkers') + 1
         /\ (p \in ActiveReceivers <=> p \in ActiveReceivers') => ActiveReceivers' = ActiveReceivers
         /\ p \notin ActiveReceivers /\ p \in ActiveReceivers'
              => Cardinality(ActiveReceivers') = Cardinality(ActiveReceivers) + 1
         /\ p \in ActiveReceivers /\ p \notin ActiveReceivers'
              => Cardinality(ActiveReceivers) = Cardinality(ActiveReceivers') + 1
<1>1. \A q \in Procs : q # p => pc'[q] = pc[q]
  BY DEF TypeOK
<1>2. /\ ActiveWorkers' \subseteq ActiveWorkers \cup {p}
      /\ ActiveWorkers \subseteq ActiveWorkers' \cup {p}
      /\ ActiveReceivers' \subseteq ActiveReceivers \cup {p}
      /\ ActiveReceivers \subseteq ActiveReceivers' \cup {p}
  BY <1>1 DEF ActiveWorkers, ActiveReceivers, Procs
<1>3. p \notin ActiveWorkers /\ p \in ActiveWorkers'
        => Cardinality(ActiveWorkers') = Cardinality(ActiveWorkers) + 1
  <2> SUFFICES ASSUME p \notin ActiveWorkers, p \in ActiveWorkers'
               PROVE  Cardinality(ActiveWorkers') = Cardinality(ActiveWorkers) + 1
    OBVIOUS
  <2>1. ActiveWorkers \subseteq ActiveWorkers'
    BY <1>2
  <2> QED BY <1>2, <2>1, ActiveFinite, ActiveFiniteNext, CardinalityStep
<1>4. p \in ActiveWorkers /\ p \notin ActiveWorkers'
        => Cardinality(ActiveWorkers) = Cardinality(ActiveWorkers') + 1
  <2> SUFFICES ASSUME p \in ActiveWorkers, p \notin ActiveWorkers'
               PROVE  Cardinality(ActiveWorkers) = Cardinality(ActiveWorkers') + 1
    OBVIOUS
  <2>1. ActiveWorkers' \subseteq ActiveWorkers
    BY <1>2
  <2> QED BY <1>2, <2>1, ActiveFinite, ActiveFiniteNext, CardinalityStep
<1>5. p \notin ActiveReceivers /\ p \in ActiveReceivers'
        => Cardinality(ActiveReceivers') = Cardinality(ActiveReceivers) + 1
  <2> SUFFICES ASSUME p \notin ActiveReceivers, p \in ActiveReceivers'
               PROVE  Cardinality(ActiveReceivers') = Cardinality(ActiveReceivers) + 1
    OBVIOUS
  <2>1. ActiveReceivers \subseteq ActiveReceivers'
    BY <1>2
  <2> QED BY <1>2, <2>1, ActiveFinite, ActiveFiniteNext, CardinalityStep
<1>6. p \in ActiveReceivers /\ p \notin ActiveReceivers'
        => Cardinality(ActiveReceivers) = Cardinality(ActiveReceivers') + 1
  <2> SUFFICES ASSUME p \in ActiveReceivers, p \notin ActiveReceivers'
               PROVE  Cardinality(ActiveReceivers) = Cardinality(ActiveReceivers') + 1
    OBVIOUS
  <2>1. ActiveReceivers' \subseteq ActiveReceivers
    BY <1>2
  <2> QED BY <1>2, <2>1, ActiveFinite, ActiveFiniteNext, CardinalityStep
<1> QED BY <1>2, <1>3, <1>4, <1>5, <1>6

\* A step of a receiver: no worker becomes active or stops being so.
LEMMA ReceiverStepActive ==
  ASSUME QueueInv, NEW r \in Receivers, ReceiveMessage(r) \/ ReceiverStep(r)
  PROVE  pc' = [pc EXCEPT ![r] = pc'[r]] /\ ActiveWorkers' = ActiveWorkers
<1> USE DEF QueueInv, TypeInv, TypeOK
<1>1. pc' = [pc EXCEPT ![r] = pc'[r]]
  BY DEF ReceiverStep, ReceiveMessage, ReceiverExit, PutLock, PutTest, PutStore, PutPublish,
         PutRefuse, PutFull, PutWait, PutRetry, Go
<1>2. r \in Procs /\ r \notin ActiveWorkers /\ r \notin ActiveWorkers'
  BY ProcsAssumption DEF ActiveWorkers, Procs
<1> QED BY <1>1, <1>2, ActiveStep

\* A step of a worker: no receiver becomes active or stops being so.
LEMMA WorkerStepActive ==
  ASSUME QueueInv, NEW w \in Workers, WorkerStep(w)
  PROVE  pc' = [pc EXCEPT ![w] = pc'[w]] /\ ActiveReceivers' = ActiveReceivers
<1> USE DEF QueueInv, TypeInv, TypeOK
<1>1. pc' = [pc EXCEPT ![w] = pc'[w]]
  BY DEF WorkerStep, WorkerLoop, WorkerExit, TakeLock, TakeTest, TakeRead, TakeAdvance,
         TakeRefuse, TakeEmpty, TakeWait, TakeRetry, RunCallbacks, Go
<1>2. w \in Procs /\ w \notin ActiveReceivers /\ w \notin ActiveReceivers'
  BY ProcsAssumption DEF ActiveReceivers, Procs
<1> QED BY <1>1, <1>2, ActiveStep

LEMMA TaskWakeupNext ==
  QueueInv /\ NoLostTaskWakeup /\ [Next]_vars => NoLostTaskWakeup'
<1> SUFFICES ASSUME QueueInv, NoLostTaskWakeup, [Next]_vars PROVE NoLostTaskWakeup'
  OBVIOUS
<1> DEFINE A == Cardinality(ActiveWorkers)
<1> USE DEF NoLostTaskWakeup
<1>1. /\ A \in Nat /\ A' \in Nat /\ Cardinality(Workers) \in Nat
      /\ Count \in Nat /\ empty \in Nat
  BY ActiveFinite, ActiveFiniteNext, ProcsAssumption, FS_CardinalityType, CountStep
  DEF QueueInv, TypeInv, TypeOK
<1>2. ASSUME NEW r \in Receivers, ReceiveMessage(r) \/ ReceiverStep(r) PROVE NoLostTaskWakeup'
  <2>1. A' = A
    BY <1>2, ReceiverStepActive
  <2>2. CASE PutPublish(r)
    <3>1. Count' = Count + 1 /\ empty' = empty + 1
      BY <2>2, CountStep DEF PutPublish
    <3> QED BY <1>1, <2>1, <3>1
  <2>3. CASE ~PutPublish(r)
    <3>1. start' = start /\ end' = end /\ empty' = empty
      BY <1>2, <2>3
      DEF ReceiverStep, ReceiveMessage, ReceiverExit, PutLock, PutTest, PutStore, PutRefuse,
          PutFull, PutWait, PutRetry, ring
    <3> QED BY <1>1, <2>1, <3>1, CountStep
  <2> QED BY <2>2, <2>3
<1>3. ASSUME NEW w \in Workers, WorkerStep(w) PROVE NoLostTaskWakeup'
  <2> w \in Procs
    BY DEF Procs
  <2>0. /\ pc' = [pc EXCEPT ![w] = pc'[w]] /\ TypeOK
        /\ w \in ActiveWorkers <=> pc[w] \in InTake \cup {"take_lock", "take_woken"}
        /\ w \in ActiveWorkers' <=> pc'[w] \in InTake \cup {"take_lock", "take_woken"}
    BY <1>3, WorkerStepActive DEF ActiveWorkers, QueueInv, TypeInv
  <2>1. CASE TakeTest(w)
    <3>1. start' = start /\ end' = end /\ empty' = empty
      BY <2>1 DEF TakeTest, ring
    <3>2. CASE start = end
      BY <3>1, <3>2, <1>1, CountStep
    <3>3. CASE start # end
      <4>1. A' = A
        BY <2>0, <2>1, <3>3, ActiveStep DEF TakeTest, Go, InTake, TypeOK
      <4> QED BY <4>1, <3>1, <1>1, CountStep
    <3> QED BY <3>2, <3>3
  <2>2. CASE TakeAdvance(w)
    <3>1. Count' = Count - 1 /\ empty' = empty
      BY <2>2, CountStep DEF TakeAdvance
    <3>2. A' >= A - 1
      BY <2>0, <1>1, ActiveStep
    <3> QED BY <3>1, <3>2, <1>1
  <2>3. CASE TakeRefuse(w) \/ TakeWait(w) \/ WorkerExit(w)
    <3>1. start' = start /\ end' = end
      BY <2>3 DEF TakeRefuse, TakeWait, WorkerExit, ring
    <3>2. CASE TakeRefuse(w)
      <4>1. empty' = empty + 1
        BY <3>2 DEF TakeRefuse
      <4>2. A' >= A - 1
        BY <2>0, <1>1, ActiveStep
      <4> QED BY <3>1, <4>1, <4>2, <1>1, CountStep
    <3>3. CASE TakeWait(w)
      <4>1. empty' = empty - 1
        BY <3>3 DEF TakeWait
      <4>2. pc[w] = "take_wait" /\ pc'[w] = "take_woken"
        BY <2>0, <3>3 DEF TakeWait, Go, TypeOK
      <4>3. A' = A + 1
        BY <2>0, <4>2, ActiveStep DEF InTake
      <4> QED BY <3>1, <4>1, <4>3, <1>1, CountStep
    <3>4. CASE WorkerExit(w)
      <4>1. empty' = empty + Cardinality(Workers)
        BY <3>4 DEF WorkerExit
      <4>2. pc[w] = "loop" /\ pc'[w] = "exited"
        BY <2>0, <3>4 DEF WorkerExit, Go, TypeOK
      <4>3. A' = A
        BY <2>0, <4>2, ActiveStep DEF InTake
      <4> QED BY <3>1, <4>1, <4>3, <1>1, CountStep
    <3> QED BY <2>3, <3>2, <3>3, <3>4
  <2>4. CASE \/ WorkerLoop(w) \/ TakeLock(w) \/ TakeRead(w) \/ TakeEmpty(w)
             \/ TakeRetry(w) \/ RunCallbacks(w)
    <3>1. start' = start /\ end' = end /\ empty' = empty
      BY <2>4 DEF WorkerLoop, TakeLock, TakeRead, TakeEmpty, TakeRetry, RunCallbacks, ring
    <3>2. pc[w] \in InTake \cup {"take_lock", "take_woken"}
            => pc'[w] \in InTake \cup {"take_lock", "take_woken"}
      BY <2>0, <2>4
      DEF WorkerLoop, TakeLock, TakeRead, TakeEmpty, TakeRetry, RunCallbacks, Go, InTake, TypeOK
    <3>3. A' >= A
      BY <2>0, <3>2, <1>1, ActiveStep
    <3> QED BY <3>1, <3>3, <1>1, CountStep
  <2> QED BY <1>3, <2>1, <2>2, <2>3, <2>4 DEF WorkerStep
<1>4. CASE Shutdown
  <2>1. start' = start /\ end' = end /\ empty' = empty + Cardinality(Workers) /\ pc' = pc
    BY <1>4 DEF Shutdown, ring
  <2>2. A' = A
    BY <2>1 DEF ActiveWorkers
  <2> QED BY <2>1, <2>2, <1>1, CountStep
<1>5. CASE Destroy \/ UNCHANGED vars
  <2>1. start' = start /\ end' = end /\ empty' = empty /\ pc' = pc
    BY <1>5 DEF Destroy, vars
  <2>2. A' = A
    BY <2>1 DEF ActiveWorkers
  <2> QED BY <2>1, <2>2, <1>1, CountStep
<1> QED BY <1>2, <1>3, <1>4, <1>5 DEF Next

\* However many receivers and workers there are, workers never all sleep on
\* tasks->empty while a task waits in the ring.
THEOREM NoTaskWakeupLost == Spec => []NoLostTaskWakeup
<1>1. Init => NoLostTaskWakeup
  <2> SUFFICES ASSUME Init PROVE NoLostTaskWakeup
    OBVIOUS
  <2>1. Count = 0 /\ empty = 0
    BY DEF Init, Count
  <2> QED BY <2>1, ActiveFinite DEF NoLostTaskWakeup
<1> QED BY <1>1, InitInv, NextInv, TaskWakeupNext, PTL DEF Spec

\* A receiver found the ring full and has not been woken.
Waiting == \E r \in Receivers : pc[r] \in {"put_full", "put_wait"}

LEMMA SpaceWakeupNext ==
  QueueInv /\ NoLostSpaceWakeup /\ [Next]_vars => NoLostSpaceWakeup'
<1> SUFFICES ASSUME QueueInv, NoLostSpaceWakeup, [Next]_vars, Waiting'
             PROVE  QueueLength - 1 - Count' <= full' + Cardinality(ActiveReceivers')
  BY DEF NoLostSpaceWakeup, Waiting
<1> DEFINE A == Cardinality(ActiveReceivers)
<1> DEFINE Free == QueueLength - 1 - Count
<1>0. Waiting => Free <= full + A
  BY DEF NoLostSpaceWakeup, Waiting
<1>1. /\ A \in Nat /\ A' \in Nat /\ Count \in Nat /\ full \in Nat
      /\ QueueLength \in Nat /\ Free \in Int
  BY ActiveFinite, ActiveFiniteNext, CountStep, QueueAssumption DEF QueueInv, TypeInv, TypeOK
<1>2. ASSUME NEW r \in Receivers, ReceiveMessage(r) \/ ReceiverStep(r)
      PROVE  Free' <= full' + A'
  <2> r \in Procs
    BY DEF Procs
  <2>0. /\ pc' = [pc EXCEPT ![r] = pc'[r]] /\ TypeOK
        /\ r \in ActiveReceivers <=> pc[r] \in InPut \cup {"put_lock", "put_woken"}
        /\ r \in ActiveReceivers' <=> pc'[r] \in InPut \cup {"put_lock", "put_woken"}
    BY <1>2, ReceiverStepActive DEF ActiveReceivers, QueueInv, TypeInv
  <2>1. pc'[r] \notin {"put_full", "put_wait"} => Waiting
    BY <2>0 DEF Waiting, TypeOK, Procs
  <2>2. CASE PutTest(r) /\ Succ(end) = start
    <3>1. Free = 0 /\ Count' = Count /\ full' = full
      BY <2>2, CountStep, QueueAssumption, <1>1 DEF PutTest, ring
    <3> QED BY <3>1, <1>1
  <2>3. CASE PutTest(r) /\ Succ(end) # start
    <3>1. pc[r] = "put_test" /\ pc'[r] = "put_store"
      BY <2>0, <2>3 DEF PutTest, Go, TypeOK
    <3>2. A' = A /\ Count' = Count /\ full' = full
      BY <2>0, <2>3, <3>1, ActiveStep, CountStep DEF InPut, PutTest, ring
    <3> QED BY <3>1, <3>2, <2>1, <1>0, <1>1
  <2>4. CASE PutPublish(r)
    <3>1. pc'[r] = "recv" /\ Count' = Count + 1 /\ full' = full
      BY <2>0, <2>4, CountStep DEF PutPublish, Go, TypeOK
    <3>2. A' >= A - 1
      BY <2>0, <1>1, ActiveStep
    <3> QED BY <3>1, <3>2, <2>1, <1>0, <1>1
  <2>5. CASE PutRefuse(r)
    <3>1. pc'[r] = "recv" /\ Count' = Count /\ full' = full + 1
      BY <2>0, <2>5, CountStep DEF PutRefuse, Go, TypeOK, ring
    <3>2. A' >= A - 1
      BY <2>0, <1>1, ActiveStep
    <3> QED BY <3>1, <3>2, <2>1, <1>0, <1>1
  <2>6. CASE PutWait(r)
    <3>1. /\ pc[r] = "put_wait" /\ pc'[r] = "put_woken" /\ Count' = Count
          /\ full' = full - 1
      BY <2>0, <2>6, CountStep DEF PutWait, Go, TypeOK, ring
    <3>2. A' = A + 1
      BY <2>0, <3>1, ActiveStep DEF InPut
    <3> QED BY <3>1, <3>2, <2>1, <1>0, <1>1
  <2>7. CASE PutFull(r)
    <3>1. pc[r] = "put_full" /\ pc'[r] = "put_wait" /\ Count' = Count /\ full' = full
      BY <2>0, <2>7, CountStep DEF PutFull, Go, TypeOK, ring
    <3>2. A' = A
      BY <2>0, <3>1, ActiveStep DEF InPut
    <3>3. Waiting
      BY <3>1 DEF Waiting
    <3> QED BY <3>1, <3>2, <3>3, <1>0, <1>1
  <2>8. CASE \/ ReceiveMessage(r) \/ ReceiverExit(r) \/ PutLock(r)
             \/ PutStore(r) \/ PutRetry(r)
    <3>1. Count' = Count /\ full' = full
      BY <2>8, CountStep
      DEF ReceiveMessage, ReceiverExit, PutLock, PutStore, PutRetry, ring
    <3>2. /\ pc'[r] \notin {"put_full", "put_wait"}
          /\ pc[r] \in InPut \cup {"put_lock", "put_woken"}
               => pc'[r] \in InPut \cup {"put_lock", "put_woken"}
      BY <2>0, <2>8
      DEF ReceiveMessage, ReceiverExit, PutLock, PutStore, PutRetry, Go, InPut, TypeOK
    <3>3. A' >= A
      BY <2>0, <3>2, <1>1, ActiveStep
    <3> QED BY <3>1, <3>2, <3>3, <2>1, <1>0, <1>1
  <2> QED BY <1>2, <2>2, <2>3, <2>4, <2>5, <2>6, <2>7, <2>8 DEF ReceiverStep
<1>3. ASSUME NEW w \in Workers, WorkerStep(w) PROVE Free' <= full' + A'
  <2>1. A' = A
    BY <1>3, WorkerStepActive
  <2>2. Waiting
    <3>1. pc' = [pc EXCEPT ![w] = pc'[w]] /\ TypeOK
      BY <1>3, WorkerStepActive DEF QueueInv, TypeInv
    <3> QED BY <3>1, ProcsAssumption DEF Waiting, Procs, TypeOK
  <2>3. CASE TakeAdvance(w)
    <3>1. Count' = Count - 1 /\ full' = full + 1
      BY <2>3, CountStep DEF TakeAdvance
    <3> QED BY <3>1, <2>1, <2>2, <1>0, <1>1
  <2>4. CASE ~TakeAdvance(w)
    <3>1. Count' = Count /\ full' = full
      BY <1>3, <2>4, CountStep
      DEF WorkerStep, WorkerLoop, WorkerExit, TakeLock, TakeTest, TakeRead, TakeRefuse,
          TakeEmpty, TakeWait, TakeRetry, RunCallbacks, ring
    <3> QED BY <3>1, <2>1, <2>2, <1>0, <1>1
  <2> QED BY <2>3, <2>4
<1>4. CASE Shutdown \/ Destroy \/ UNCHANGED vars
  <2>1. Count' = Count /\ full' = full /\ pc' = pc
    BY <1>4, CountStep DEF Shutdown, Destroy, vars, ring
  <2>2. A' = A /\ Waiting
    BY <2>1 DEF ActiveReceivers, Waiting
  <2> QED BY <2>1, <2>2, <1>0, <1>1
<1> QED BY <1>2, <1>3, <1>4 DEF Next

\* However many receivers there are and whatever the length of the ring, a
\* receiver never sleeps on tasks->full while a slot is free and nobody is about
\* to use it, although the semaphore is created with 1.
THEOREM NoSpaceWakeupLost == Spec => []NoLostSpaceWakeup
<1>1. Init => NoLostSpaceWakeup
  BY ProcsAssumption DEF Init, NoLostSpaceWakeup, Procs
<1> QED BY <1>1, InitInv, NextInv, SpaceWakeupNext, PTL DEF Spec


-----------------------------------------------------------------------------
(* The queue implements the bounded FIFO of CdpTaskFifo                     *)

\* What is about to be published, or was taken, is a task.
TasksInHand ==
  /\ \A r \in Receivers : pc[r] = "put_publish" => queue[end] = <<r, read[r]>>
  /\ \A w \in Workers : pc[w] \in {"take_advance", "run"} => held[w] \in Tasks

\* The inductive invariant of the refinement.
FifoInv == QueueInv /\ TasksInHand

\* The slot of the i-th pending task, and the task.
At(i)  == IF start + i - 1 < QueueLength THEN start + i - 1 ELSE start + i - 1 - QueueLength
Taking == \E w \in Workers : pc[w] = "take_advance"
Nth(i) == IF i = 1 /\ Taking THEN held[lock] ELSE queue[At(i)]

LEMMA AtIsSlot ==
  ASSUME TypeInv, NEW i \in 1..QueueLength
  PROVE  (start + i - 1) % QueueLength = At(i) /\ At(i) \in Slots
BY QueueAssumption DEF TypeInv, TypeOK, Slots, At

\* The pending tasks lie in the occupied slots, the oldest at start, and the slot after
\* the last is end.
LEMMA AtIsOccupied ==
  ASSUME QueueInv
  PROVE  /\ \A i \in 1..Count : At(i) \in Occupied /\ At(i) # end
         /\ \A i \in 2..Count : At(i) # start
         /\ At(1) = start /\ At(Count + 1) = end
BY QueueAssumption DEF QueueInv, TypeInv, TypeOK, Slots, At, Occupied, Count

\* While a worker advances start, it holds the lock, so it is the only one.
LEMMA TakerHasLock ==
  ASSUME QueueInv, NEW w \in Workers, pc[w] \in {"take_read", "take_advance"}
  PROVE  /\ lock = w /\ w \in Procs /\ \A r \in Receivers : pc[r] # "put_publish"
         /\ \A u \in Workers : pc[u] \in {"take_read", "take_advance"} => u = w
BY ProcsAssumption DEF QueueInv, LockHeld, InPut, InTake, Procs

LEMMA PutterHasLock ==
  ASSUME QueueInv, NEW r \in Receivers, pc[r] \in {"put_store", "put_publish"}
  PROVE  lock = r /\ r \in Procs /\ ~Taking
BY ProcsAssumption DEF QueueInv, LockHeld, InPut, InTake, Procs, Taking

PendingIsTasks ==
  /\ Pending \in Seq(Tasks) /\ Len(Pending) = Count
  /\ \A i \in 1..Count : Pending[i] = Nth(i)

LEMMA PendingIs == FifoInv /\ main # "destroyed" => PendingIsTasks
<1> SUFFICES ASSUME FifoInv, main # "destroyed" PROVE PendingIsTasks
  OBVIOUS
<1>1. Count \in Nat /\ Count <= QueueLength - 1
  BY CountStep DEF FifoInv
<1> DEFINE taker == {w \in Workers : pc[w] = "take_advance"}
<1>2. taker # {} => held[CHOOSE w \in taker : TRUE] = held[lock] /\ held[lock] \in Tasks
  BY TakerHasLock DEF FifoInv, TasksInHand
<1>3. taker # {} <=> Taking
  BY DEF Taking
<1>4. Pending = [i \in 1..Count |-> Nth(i)]
  <2>1. \A i \in 1..Count : (start + i - 1) % QueueLength = At(i)
    BY <1>1, AtIsSlot, QueueAssumption DEF FifoInv, QueueInv
  <2> QED BY <1>2, <1>3, <2>1 DEF Pending, Nth
<1>5. ASSUME NEW i \in 1..Count PROVE Nth(i) \in Tasks
  <2>1. CASE i = 1 /\ Taking
    BY <2>1, <1>2, <1>3 DEF Nth
  <2>2. CASE ~(i = 1 /\ Taking)
    <3>1. At(i) \in Occupied /\ At(i) \in Slots /\ (i # 1 => At(i) # start)
      BY <1>1, AtIsOccupied, AtIsSlot, QueueAssumption DEF FifoInv, QueueInv
    <3>2. lock # NoProc /\ pc[lock] = "take_advance" => Taking
      BY DEF FifoInv, QueueInv, TypeInv, TypeOK, Procs, ReceiverPC, Taking
    <3>3. queue[At(i)] # NoTask
      BY <3>1, <3>2, <2>2 DEF FifoInv, QueueInv, RingConsistent
    <3> QED BY <2>2, <3>1, <3>3 DEF Nth, FifoInv, QueueInv, TypeInv, TypeOK
  <2> QED BY <2>1, <2>2
<1>6. Pending \in [1..Count -> Tasks]
  BY <1>4, <1>5
<1> HIDE DEF taker
<1> QED BY <1>1, <1>4, <1>6 DEF PendingIsTasks

\* The same in the next state.
LEMMA PendingIsNext == (FifoInv /\ main # "destroyed" => PendingIsTasks)'
BY PendingIs, PTL

LEMMA CountIsNat == FifoInv => Count \in Nat /\ Count <= QueueLength - 1
BY CountStep DEF FifoInv
LEMMA CountIsNatNext == (FifoInv => Count \in Nat /\ Count <= QueueLength - 1)'
BY CountIsNat, PTL

\* A step that keeps the tasks keeps what is pending.
LEMMA PendingKept ==
  ASSUME FifoInv, FifoInv', main # "destroyed", main' # "destroyed",
         Count' = Count, \A i \in 1..Count : Nth(i)' = Nth(i)
  PROVE  Pending' = Pending
<1>1. PendingIsTasks /\ PendingIsTasks'
  BY PendingIs, PendingIsNext
<1> QED BY <1>1, SeqEqual DEF PendingIsTasks

\* Steps of a process outside the ring.
LEMMA OutsideKeeps ==
  ASSUME FifoInv, FifoInv', NEW p \in Procs, pc' = [pc EXCEPT ![p] = pc'[p]],
         {pc[p], pc'[p]} \cap {"take_advance", "run"} = {}, pc[p] # "exited",
         UNCHANGED <<start, end, queue, held, main>>
  PROVE  Pending' = Pending /\ Running' = Running
<1> USE DEF FifoInv, QueueInv, TypeInv, TypeOK
<1>1. main # "destroyed" /\ main' # "destroyed"
  BY DEF DestroyedLast
<1>2. \A q \in Procs : pc[q] = "take_advance" <=> pc'[q] = "take_advance"
  OBVIOUS
<1>3. Taking' = Taking
  BY <1>2 DEF Taking, Procs
<1>4. Taking => lock' = lock
  BY <1>2, ProcsAssumption DEF Taking, LockHeld, InTake, Procs
<1>5. Count' = Count /\ \A i \in 1..Count : Nth(i)' = Nth(i)
  BY <1>3, <1>4 DEF Count, Nth, At
<1>6. Running' = Running
  <2>1. \A q \in Procs : pc[q] = "run" <=> pc'[q] = "run"
    OBVIOUS
  <2> QED BY <2>1 DEF Running, Procs
<1> QED BY <1>1, <1>5, <1>6, PendingKept

LEMMA HandNext == FifoInv /\ [Next]_vars => FifoInv'
<1> SUFFICES ASSUME FifoInv, [Next]_vars PROVE TasksInHand'
  BY NextInv DEF FifoInv
<1> USE DEF FifoInv, QueueInv, TypeInv, TypeOK, TasksInHand
<1>1. ASSUME NEW r \in Receivers, ReceiveMessage(r) \/ ReceiverStep(r) PROVE TasksInHand'
  <2>1. /\ pc' = [pc EXCEPT ![r] = pc'[r]] /\ held' = held
        /\ pc'[r] \notin {"take_advance", "run"} /\ r \in Procs
        /\ PutStore(r) \/ PutPublish(r) \/ UNCHANGED <<end, queue>>
        /\ ReceiveMessage(r) \/ read' = read
        /\ \A q \in Receivers : read'[q] = read[q] \/ q = r
        /\ pc'[r] = "put_publish" => PutStore(r)
    BY <1>1
    DEF ReceiverStep, ReceiveMessage, ReceiverExit, PutLock, PutTest, PutStore, PutPublish,
        PutRefuse, PutFull, PutWait, PutRetry, Go, ring, Procs
  <2>2. \A w \in Workers : pc'[w] \in {"take_advance", "run"} => held'[w] \in Tasks
    BY <2>1, ProcsAssumption DEF Procs
  <2>3. ASSUME NEW q \in Receivers, pc'[q] = "put_publish"
        PROVE  queue'[end'] = <<q, read'[q]>>
    <3>1. CASE q = r
      BY <2>1, <2>3, <3>1 DEF PutStore
    <3>2. CASE q # r
      <4>1. pc[q] = "put_publish" /\ read'[q] = read[q]
        BY <2>1, <2>3, <3>2 DEF Procs
      <4>2. ~PutStore(r) /\ ~PutPublish(r)
        BY <4>1, <3>2, PutterHasLock DEF PutStore, PutPublish
      <4> QED BY <2>1, <4>1, <4>2
    <3> QED BY <3>1, <3>2
  <2> QED BY <2>2, <2>3
<1>2. ASSUME NEW w \in Workers, WorkerStep(w) PROVE TasksInHand'
  <2>1. /\ pc' = [pc EXCEPT ![w] = pc'[w]] /\ w \in Procs /\ w \notin Receivers
        /\ TakeRead(w) \/ queue' = queue
        /\ end' = end /\ read' = read
        /\ \A u \in Workers : u # w => held'[u] = held[u]
    BY <1>2, ProcsAssumption
    DEF WorkerStep, WorkerLoop, WorkerExit, TakeLock, TakeTest, TakeRead, TakeAdvance,
        TakeRefuse, TakeEmpty, TakeWait, TakeRetry, RunCallbacks, Go, ring, Procs
  <2>2. \A r \in Receivers : pc'[r] = "put_publish" => queue'[end'] = <<r, read'[r]>>
    <3>1. \A r \in Receivers : pc'[r] = pc[r]
      BY <2>1 DEF Procs
    <3>2. TakeRead(w) => \A r \in Receivers : pc[r] # "put_publish"
      BY TakerHasLock DEF TakeRead
    <3> QED BY <2>1, <3>1, <3>2
  <2>3. CASE TakeRead(w)
    <3>1. start \in Occupied /\ lock = w /\ pc[w] = "take_read"
      BY <2>3, TakerHasLock, QueueAssumption DEF TakeRead, Occupied, SomeToTake, Slots
    <3>2. queue[start] # NoTask
      BY <2>1, <3>1 DEF RingConsistent, DestroyedLast
    <3>3. held'[w] \in Tasks
      BY <2>3, <3>2 DEF TakeRead
    <3> QED BY <2>1, <2>2, <3>3 DEF Procs
  <2>4. CASE TakeAdvance(w)
    <3>1. held' = held
      BY <2>4 DEF TakeAdvance
    <3> QED BY <2>1, <2>2, <2>4, <3>1 DEF TakeAdvance, Procs
  <2>5. CASE ~TakeRead(w) /\ ~TakeAdvance(w)
    <3>1. pc'[w] \notin {"take_advance", "run"}
      BY <1>2, <2>5
      DEF WorkerStep, WorkerLoop, WorkerExit, TakeLock, TakeTest,
          TakeRefuse, TakeEmpty, TakeWait, TakeRetry, RunCallbacks, Go, Procs
    <3> QED BY <2>1, <2>2, <3>1 DEF Procs
  <2> QED BY <2>3, <2>4, <2>5
<1>3. CASE Shutdown
  BY <1>3 DEF Shutdown, ring
<1>4. CASE Destroy
  BY <1>4 DEF Destroy, Procs
<1>5. CASE UNCHANGED vars
  BY <1>5 DEF vars
<1> QED BY <1>1, <1>2, <1>3, <1>4, <1>5 DEF Next

\* put_task() accepts a task when it publishes it.
LEMMA PutAccepts ==
  ASSUME FifoInv, FifoInv', NEW r \in Receivers, PutPublish(r)
  PROVE  Fifo!Accept(<<r, read[r]>>) /\ <<r, read[r]>> \in Tasks
<1> USE DEF FifoInv, QueueInv, TypeInv, TypeOK
<1>1. /\ lock = r /\ r \in Procs /\ r \notin Workers /\ ~Taking /\ main # "destroyed"
      /\ pc[r] = "put_publish" /\ queue[end] = <<r, read[r]>>
      /\ pc' = [pc EXCEPT ![r] = "recv"]
      /\ UNCHANGED <<start, queue, held, main>>
    BY PutterHasLock, ProcsAssumption DEF PutPublish, TasksInHand, DestroyedLast, Go, Procs
<1>2. <<r, read[r]>> \in Tasks
  BY <1>1 DEF MessageInHand, Tasks
<1>3. Count' = Count + 1 /\ Count \in Nat /\ Count' <= QueueLength - 1
  BY CountStep, CountIsNatNext
<1>4. PendingIsTasks /\ PendingIsTasks'
  BY <1>1, PendingIs, PendingIsNext
<1>5. ~Taking'
  BY <1>1 DEF Taking, Procs
<1>6. \A i \in 1..Count : Nth(i)' = Nth(i)
  BY <1>1, <1>5 DEF Nth, At
<1>7. PICK n \in Nat : n = Count
  BY <1>3
<1>8. Nth(n + 1)' = <<r, read[r]>>
  <2>1. At(n + 1)' = end
    BY <1>1, <1>7, AtIsOccupied DEF At
  <2> QED BY <1>1, <1>3, <1>5, <1>7, <2>1 DEF Nth, At
<1>9. Pending' = Append(Pending, <<r, read[r]>>)
  <2> DEFINE a == Append(Pending, <<r, read[r]>>)
  <2>1. /\ a \in Seq(Tasks) /\ Len(a) = Count + 1
        /\ \A i \in 1..(Count + 1) : a[i] = IF i = Count + 1 THEN <<r, read[r]>> ELSE Pending[i]
    BY <1>2, <1>4, AppendProperties DEF PendingIsTasks
  <2>2. \A i \in 1..Len(a) : Pending'[i] = a[i]
    BY <1>3, <1>4, <1>6, <1>7, <1>8, <2>1 DEF PendingIsTasks
  <2> HIDE DEF a
  <2>3. Pending' = a
    BY <1>3, <1>4, <2>1, <2>2, SeqEqual DEF PendingIsTasks
  <2> QED BY <2>3 DEF a
<1>10. Running' = Running
  <2>1. \A w \in Workers : pc'[w] = pc[w]
    BY <1>1 DEF Procs
  <2> QED BY <1>1, <2>1 DEF Running
<1> QED BY <1>2, <1>3, <1>4, <1>9, <1>10, QueueAssumption DEF Fifo!Accept, PendingIsTasks

\* What a worker reads out of the ring is still the first pending task.
LEMMA ReadKeeps ==
  ASSUME FifoInv, FifoInv', NEW w \in Workers, TakeRead(w)
  PROVE  Pending' = Pending /\ Running' = Running
<1> USE DEF FifoInv, QueueInv, TypeInv, TypeOK
<1>1. /\ lock = w /\ w \in Procs /\ ~Taking /\ main # "destroyed" /\ start # end
      /\ pc[w] = "take_read" /\ pc' = [pc EXCEPT ![w] = "take_advance"]
      /\ held' = [held EXCEPT ![w] = queue[start]]
      /\ queue' = [queue EXCEPT ![start] = NoTask]
      /\ UNCHANGED <<start, end, lock, main>>
  BY TakerHasLock DEF TakeRead, SomeToTake, DestroyedLast, Go, Taking
<1>2. Taking' /\ held'[lock'] = queue[start]
  BY <1>1 DEF Taking
<1>3. Count' = Count /\ Count \in Nat /\ Count <= QueueLength - 1
  BY <1>1, CountStep
<1>4. \A i \in 1..Count : At(i) \in Slots /\ At(i)' = At(i) /\ (i # 1 => At(i) # start) /\ At(1) = start
  BY <1>1, <1>3, AtIsSlot, AtIsOccupied, QueueAssumption DEF At
<1>5. \A i \in 1..Count : Nth(i)' = Nth(i)
  BY <1>1, <1>2, <1>4 DEF Nth
<1>6. Pending' = Pending
  BY <1>1, <1>3, <1>5, PendingKept
<1>7. Running' = Running
  BY <1>1 DEF Running, Procs
<1> QED BY <1>6, <1>7

\* take_task() hands out the oldest task when it advances start.
LEMMA TakeBegins ==
  ASSUME FifoInv, FifoInv', NEW w \in Workers, TakeAdvance(w)
  PROVE  Fifo!Begin(w)
<1> USE DEF FifoInv, QueueInv, TypeInv, TypeOK
<1>1. /\ lock = w /\ w \in Procs /\ Taking /\ main # "destroyed" /\ start # end
      /\ pc[w] = "take_advance" /\ held[w] \in Tasks /\ held[w] # NoTask
      /\ pc' = [pc EXCEPT ![w] = "run"] /\ start' = Succ(start)
      /\ UNCHANGED <<end, queue, held, main>>
  BY TakerHasLock, QueueAssumption
  DEF TakeAdvance, SomeToTake, DestroyedLast, Go, Taking, TasksInHand
<1>2. Count' = Count - 1 /\ Count \in Nat /\ Count # 0 /\ Count <= QueueLength - 1
  BY <1>1, CountStep
<1>3. PendingIsTasks /\ PendingIsTasks'
  BY <1>1, PendingIs, PendingIsNext
<1>4. ~Taking'
  BY <1>1, TakerHasLock DEF Taking, Procs
<1>5. \A i \in 1..Count' : Nth(i)' = Nth(i + 1)
  <2>1. \A i \in 1..Count' : At(i)' = At(i + 1)
    BY <1>1, <1>2, QueueAssumption DEF At, Succ, Slots
  <2> QED BY <1>1, <1>2, <1>4, <2>1 DEF Nth
<1>6. Nth(1) = held[w]
  BY <1>1 DEF Nth
<1>7. Pending # <<>> /\ Head(Pending) = held[w]
  BY <1>2, <1>3, <1>6, EmptySeq DEF PendingIsTasks
<1>8. Pending' = Tail(Pending)
  <2>1. /\ Tail(Pending) \in Seq(Tasks) /\ Len(Tail(Pending)) = Count - 1
        /\ \A i \in 1..(Count - 1) : Tail(Pending)[i] = Pending[i + 1]
    BY <1>2, <1>3, <1>7, HeadTailProperties DEF PendingIsTasks
  <2>2. \A i \in 1..Count' : Pending'[i] = Tail(Pending)[i]
    BY <1>2, <1>3, <1>5, <2>1 DEF PendingIsTasks
  <2> QED BY <1>2, <1>3, <2>1, <2>2, SeqEqual DEF PendingIsTasks
<1>9. Running[w] = NoTask /\ Running' = [Running EXCEPT ![w] = held[w]]
  <2>1. \A u \in Workers : u # w => pc'[u] = pc[u]
    BY <1>1 DEF Procs
  <2> QED BY <1>1, <2>1 DEF Running
<1> QED BY <1>7, <1>8, <1>9 DEF Fifo!Begin

LEMMA RunFinishes ==
  ASSUME FifoInv, FifoInv', NEW w \in Workers, RunCallbacks(w)
  PROVE  Fifo!Finish(w)
<1> USE DEF FifoInv, QueueInv, TypeInv, TypeOK
<1>1. /\ w \in Procs /\ main # "destroyed" /\ pc[w] = "run" /\ held[w] # NoTask
      /\ pc' = [pc EXCEPT ![w] = "loop"] /\ held' = [held EXCEPT ![w] = NoTask]
      /\ UNCHANGED <<start, end, queue, lock, main>>
  BY QueueAssumption DEF RunCallbacks, DestroyedLast, Go, TasksInHand, ring, Procs
<1>2. Taking' = Taking /\ (Taking => held'[lock'] = held[lock])
  BY <1>1, TakerHasLock DEF Taking, Procs
<1>3. Count' = Count /\ \A i \in 1..Count : Nth(i)' = Nth(i)
  BY <1>1, <1>2 DEF Count, Nth, At
<1>4. Pending' = Pending
  BY <1>1, <1>3, PendingKept
<1>5. Running[w] # NoTask /\ Running' = [Running EXCEPT ![w] = NoTask]
  <2>1. \A u \in Workers : u # w => pc'[u] = pc[u]
    BY <1>1 DEF Procs
  <2> QED BY <1>1, <2>1 DEF Running
<1> QED BY <1>4, <1>5 DEF Fifo!Finish

\* Every step of the queue is a step of the FIFO or none.
LEMMA StepRefines == FifoInv /\ [Next]_vars => [Fifo!Next]_(Fifo!vars)
<1> SUFFICES ASSUME FifoInv, [Next]_vars PROVE Fifo!Next \/ (Pending' = Pending /\ Running' = Running)
  BY DEF Fifo!vars
<1>0. FifoInv'
  BY HandNext
<1>1. ASSUME NEW r \in Receivers, ReceiveMessage(r) \/ ReceiverStep(r)
      PROVE  Fifo!Next \/ (Pending' = Pending /\ Running' = Running)
  <2>1. CASE PutPublish(r)
    BY <2>1, <1>0, PutAccepts DEF Fifo!Next
  <2>2. CASE PutStore(r)
    <3>1. /\ lock = r /\ r \in Procs /\ r \notin Workers /\ ~Taking /\ main # "destroyed"
          /\ pc' = [pc EXCEPT ![r] = "put_publish"]
          /\ queue' = [queue EXCEPT ![end] = <<r, read[r]>>]
          /\ UNCHANGED <<start, end, held, main>>
      BY <2>2, PutterHasLock, ProcsAssumption
      DEF PutStore, FifoInv, QueueInv, DestroyedLast, Go, Procs
    <3>2. \A w \in Workers : pc'[w] = pc[w]
      BY <3>1 DEF Procs, FifoInv, QueueInv, TypeInv, TypeOK
    <3>3. Count' = Count /\ \A i \in 1..Count : Nth(i)' = Nth(i)
      <4>1. \A i \in 1..Count : At(i)' = At(i) /\ At(i) # end
        BY <3>1, AtIsOccupied DEF At, FifoInv
      <4> QED BY <3>1, <3>2, <4>1 DEF Count, Nth, Taking, FifoInv, QueueInv, TypeInv, TypeOK
    <3> QED BY <1>0, <3>1, <3>2, <3>3, PendingKept DEF Running
  <2>3. CASE ~PutPublish(r) /\ ~PutStore(r)
    <3>1. /\ r \in Procs /\ pc' = [pc EXCEPT ![r] = pc'[r]]
          /\ {pc[r], pc'[r]} \cap {"take_advance", "run"} = {} /\ pc[r] # "exited"
          /\ UNCHANGED <<start, end, queue, held, main>>
      BY <1>1, <2>3
      DEF ReceiverStep, ReceiveMessage, ReceiverExit, PutLock, PutTest, PutRefuse, PutFull,
          PutWait, PutRetry, Go, ring, Procs, FifoInv, QueueInv, TypeInv, TypeOK
    <3> QED BY <1>0, <3>1, OutsideKeeps
  <2> QED BY <2>1, <2>2, <2>3
<1>2. ASSUME NEW w \in Workers, WorkerStep(w)
      PROVE  Fifo!Next \/ (Pending' = Pending /\ Running' = Running)
  <2>1. CASE TakeAdvance(w)
    BY <2>1, <1>0, TakeBegins DEF Fifo!Next
  <2>2. CASE TakeRead(w)
    BY <2>2, <1>0, ReadKeeps
  <2>3. CASE RunCallbacks(w)
    BY <2>3, <1>0, RunFinishes DEF Fifo!Next
  <2>4. CASE ~TakeAdvance(w) /\ ~TakeRead(w) /\ ~RunCallbacks(w)
    <3>1. /\ w \in Procs /\ pc' = [pc EXCEPT ![w] = pc'[w]]
          /\ {pc[w], pc'[w]} \cap {"take_advance", "run"} = {} /\ pc[w] # "exited"
          /\ UNCHANGED <<start, end, queue, held, main>>
      BY <1>2, <2>4
      DEF WorkerStep, WorkerLoop, WorkerExit, TakeLock, TakeTest, TakeRefuse, TakeEmpty,
          TakeWait, TakeRetry, Go, ring, Procs, FifoInv, QueueInv, TypeInv, TypeOK
    <3> QED BY <1>0, <3>1, OutsideKeeps
  <2> QED BY <2>1, <2>2, <2>3, <2>4
<1>3. CASE Shutdown
  <2>1. /\ main # "destroyed" /\ main' # "destroyed"
        /\ UNCHANGED <<start, end, queue, held, lock, pc>>
    BY <1>3 DEF Shutdown, ring
  <2>2. Count' = Count /\ \A i \in 1..Count : Nth(i)' = Nth(i)
    BY <2>1 DEF Count, Nth, At, Taking
  <2> QED BY <1>0, <2>1, <2>2, PendingKept DEF Running
<1>4. CASE Destroy
  <2>1. \A w \in Workers : pc[w] = "exited" /\ pc'[w] = "exited"
    BY <1>4 DEF Destroy, Procs
  <2>2. Pending' = <<>>
    BY <1>4 DEF Destroy, Pending
  <2> QED BY <2>1, <2>2 DEF Running, Fifo!Next, Fifo!Discard
<1>5. CASE UNCHANGED vars
  <2>1. Pending' = Pending
    BY <1>5 DEF vars, Pending, Count
  <2> QED BY <1>5, <2>1 DEF vars, Running
<1> QED BY <1>1, <1>2, <1>3, <1>4, <1>5 DEF Next

LEMMA InitRefines == Init => Fifo!Init /\ FifoInv
<1> SUFFICES ASSUME Init PROVE Fifo!Init /\ FifoInv
  OBVIOUS
<1>1. FifoInv
  BY InitInv, ProcsAssumption DEF Init, FifoInv, TasksInHand, Procs
<1>2. main # "destroyed" /\ Count = 0
  BY DEF Init, Count
<1>3. Pending = <<>>
  BY <1>1, <1>2, PendingIs, EmptySeq DEF PendingIsTasks
<1>4. Running = [w \in Workers |-> NoTask]
  BY ProcsAssumption DEF Init, Running, Procs
<1> QED BY <1>1, <1>3, <1>4 DEF Fifo!Init

\* For any number of receivers and workers and any length of the ring, put_task() and
\* take_task() are a bounded FIFO.
THEOREM QueueIsFifo == Spec => ImplementsFifo
<1> QED BY InitRefines, HandNext, StepRefines, PTL DEF Spec, ImplementsFifo, Fifo!Spec
=============================================================================
