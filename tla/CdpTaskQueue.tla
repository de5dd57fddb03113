---------------------------- MODULE CdpTaskQueue ----------------------------
(***************************************************************************)
(* The task queue between the receivers and the workers of modules/cdp     *)
(* (worker.c): a ring buffer in shared memory guarded by one lock, with a  *)
(* semaphore on each side.  The critical sections are split at every       *)
(* access to the ring, so that only the lock keeps the processes apart.    *)
(*                                                                         *)
(* Receivers are the processes that call put_task() (from Rcv_Process());  *)
(* workers run worker_process().  Main calls diameter_peer_destroy(): it   *)
(* raises *shutdownx, poisons the queue, waits for every child to exit and *)
(* frees the queue.                                                        *)
(***************************************************************************)
EXTENDS Integers, Sequences, FiniteSets

CONSTANTS Receivers,     \* processes that put tasks
          Workers,       \* config->workers processes that take them
          QueueLength,   \* config->queue_length, the slots of the ring
          MaxMsgs,       \* bound: messages each receiver reads
          NoProc,        \* nobody holds the lock
          NoTask         \* an empty slot, msg = 0

Procs == Receivers \cup Workers
Tasks == Receivers \X (1..MaxMsgs)
Slots == 0..(QueueLength - 1)

ASSUME ProcsAssumption ==
  /\ IsFiniteSet(Receivers) /\ IsFiniteSet(Workers)
  /\ Receivers \cap Workers = {}
  /\ NoProc \notin Procs

ASSUME QueueAssumption ==
  /\ QueueLength \in Nat \ {0}
  /\ MaxMsgs \in Nat
  /\ NoTask \notin Tasks

VARIABLES shutdownx,   \* the flag every process polls
          lock,        \* tasks->lock: its holder
          start, end,  \* tasks->start, tasks->end
          queue,       \* tasks->queue
          empty,       \* semaphore the workers wait on, posted by every put
          full,        \* semaphore the receivers wait on, posted by every take
          pc,          \* where each process is
          read,        \* how many messages each receiver has read
          held,        \* the worker's local t
          main         \* where diameter_peer_destroy() is

vars == <<shutdownx, lock, start, end, queue, empty, full, pc, read, held, main>>
ring == <<start, end, queue>>

ReceiverPC == {"recv", "put_lock", "put_test", "put_store", "put_publish",
               "put_full", "put_wait", "put_woken", "exited"}
WorkerPC   == {"loop", "take_lock", "take_test", "take_read", "take_advance",
               "take_empty", "take_wait", "take_woken", "run", "exited"}

InPut  == {"put_test", "put_store", "put_publish"}       \* holding the lock
InTake == {"take_test", "take_read", "take_advance"}     \* holding the lock

TypeOK ==
  /\ shutdownx \in BOOLEAN
  /\ lock \in Procs \cup {NoProc}
  /\ start \in Slots
  /\ end \in Slots
  /\ queue \in [Slots -> Tasks \cup {NoTask}]
  /\ empty \in Nat
  /\ full \in Nat
  /\ pc \in [Procs -> ReceiverPC \cup WorkerPC]
  /\ \A r \in Receivers : pc[r] \in ReceiverPC
  /\ \A w \in Workers : pc[w] \in WorkerPC
  /\ read \in [Receivers -> 0..MaxMsgs]
  /\ held \in [Workers -> Tasks \cup {NoTask}]
  /\ main \in {"up", "waitpid", "destroyed"}

\* Fault: the ring does not wrap.
SuccNoWrap(i) == i + 1

\* (i+1) % tasks->max, for an index of the ring
Succ(i) == IF i + 1 = QueueLength THEN 0 ELSE i + 1

Go(p, at) == pc' = [pc EXCEPT ![p] = at]

Init ==
  /\ shutdownx = FALSE
  /\ lock = NoProc
  /\ start = 0 /\ end = 0
  /\ queue = [i \in Slots |-> NoTask]
  /\ empty = 0 /\ full = 1
  /\ pc = [p \in Procs |-> IF p \in Receivers THEN "recv" ELSE "loop"]
  /\ read = [r \in Receivers |-> 0]
  /\ held = [w \in Workers |-> NoTask]
  /\ main = "up"

-----------------------------------------------------------------------------
(* Receivers                                                                *)

\* A message arrives and Rcv_Process() hands it to put_task().
ReceiveMessage(r) ==
  /\ pc[r] = "recv" /\ ~shutdownx
  /\ read[r] < MaxMsgs
  /\ read' = [read EXCEPT ![r] = @ + 1]
  /\ Go(r, "put_lock")
  /\ UNCHANGED <<shutdownx, lock, ring, empty, full, held, main>>

\* The receive loop sees *shutdownx and leaves.
ReceiverExit(r) ==
  /\ pc[r] = "recv" /\ shutdownx
  /\ Go(r, "exited")
  /\ UNCHANGED <<shutdownx, lock, ring, empty, full, read, held, main>>

PutLock(r) ==
  /\ pc[r] = "put_lock" /\ lock = NoProc
  /\ lock' = r
  /\ Go(r, "put_test")
  /\ UNCHANGED <<shutdownx, ring, empty, full, read, held, main>>

\* Fault: the full ring is tested without the modulo.
PutTestNoModulo(r) ==
  /\ pc[r] = "put_test"
  /\ \/ /\ end + 1 = start
        /\ lock' = NoProc
        /\ Go(r, "put_full")
     \/ /\ end + 1 # start
        /\ Go(r, "put_store")
        /\ UNCHANGED lock
  /\ UNCHANGED <<shutdownx, ring, empty, full, read, held, main>>

\* The while condition; a full ring releases the lock.
PutTest(r) ==
  /\ pc[r] = "put_test"
  /\ \/ /\ Succ(end) = start
        /\ lock' = NoProc
        /\ Go(r, "put_full")
     \/ /\ Succ(end) # start
        /\ Go(r, "put_store")
        /\ UNCHANGED lock
  /\ UNCHANGED <<shutdownx, ring, empty, full, read, held, main>>

PutStore(r) ==
  /\ pc[r] = "put_store"
  /\ queue' = [queue EXCEPT ![end] = <<r, read[r]>>]
  /\ Go(r, "put_publish")
  /\ UNCHANGED <<shutdownx, lock, start, end, empty, full, read, held, main>>

\* Fault: the workers are only signalled when the ring was empty.
PutPublishFirstOnly(r) ==
  /\ pc[r] = "put_publish"
  /\ end' = Succ(end)
  /\ empty' = IF start = end THEN empty + 1 ELSE empty
  /\ lock' = NoProc
  /\ Go(r, "recv")
  /\ UNCHANGED <<shutdownx, start, queue, full, read, held, main>>

\* Fault: tasks->empty is not posted.
PutPublishSilent(r) ==
  /\ pc[r] = "put_publish"
  /\ end' = Succ(end)
  /\ lock' = NoProc
  /\ Go(r, "recv")
  /\ UNCHANGED <<shutdownx, start, queue, empty, full, read, held, main>>

PutPublish(r) ==
  /\ pc[r] = "put_publish"
  /\ end' = Succ(end)
  /\ empty' = empty + 1
  /\ lock' = NoProc
  /\ Go(r, "recv")
  /\ UNCHANGED <<shutdownx, start, queue, full, read, held, main>>

\* put_task() returns 0: Rcv_Process() frees the message.
PutRefuse(r) ==
  /\ pc[r] \in {"put_full", "put_woken"} /\ shutdownx
  /\ full' = full + 1
  /\ Go(r, "recv")
  /\ UNCHANGED <<shutdownx, lock, ring, empty, read, held, main>>

PutFull(r) ==
  /\ pc[r] = "put_full" /\ ~shutdownx
  /\ Go(r, "put_wait")
  /\ UNCHANGED <<shutdownx, lock, ring, empty, full, read, held, main>>

PutWait(r) ==
  /\ pc[r] = "put_wait" /\ full > 0
  /\ full' = full - 1
  /\ Go(r, "put_woken")
  /\ UNCHANGED <<shutdownx, lock, ring, empty, read, held, main>>

PutRetry(r) ==
  /\ pc[r] = "put_woken" /\ ~shutdownx
  /\ Go(r, "put_lock")
  /\ UNCHANGED <<shutdownx, lock, ring, empty, full, read, held, main>>

-----------------------------------------------------------------------------
(* Workers                                                                  *)

WorkerLoop(w) ==
  /\ pc[w] = "loop" /\ ~shutdownx
  /\ Go(w, "take_lock")
  /\ UNCHANGED <<shutdownx, lock, ring, empty, full, read, held, main>>

\* Seeing *shutdownx, a worker poisons the queue for the others and exits.
WorkerExit(w) ==
  /\ pc[w] = "loop" /\ shutdownx
  /\ empty' = empty + Cardinality(Workers)
  /\ Go(w, "exited")
  /\ UNCHANGED <<shutdownx, lock, ring, full, read, held, main>>

\* Fault: take_task() does not wait for the lock.
TakeUnlocked(w) ==
  /\ pc[w] = "take_lock"
  /\ Go(w, "take_test")
  /\ UNCHANGED <<shutdownx, lock, ring, empty, full, read, held, main>>

TakeLock(w) ==
  /\ pc[w] = "take_lock" /\ lock = NoProc
  /\ lock' = w
  /\ Go(w, "take_test")
  /\ UNCHANGED <<shutdownx, ring, empty, full, read, held, main>>

TakeTest(w) ==
  /\ pc[w] = "take_test"
  /\ \/ /\ start = end
        /\ lock' = NoProc
        /\ Go(w, "take_empty")
     \/ /\ start # end
        /\ Go(w, "take_read")
        /\ UNCHANGED lock
  /\ UNCHANGED <<shutdownx, ring, empty, full, read, held, main>>

TakeRead(w) ==
  /\ pc[w] = "take_read"
  /\ held' = [held EXCEPT ![w] = queue[start]]
  /\ queue' = [queue EXCEPT ![start] = NoTask]
  /\ Go(w, "take_advance")
  /\ UNCHANGED <<shutdownx, lock, start, end, empty, full, read, main>>

\* Fault: the receivers are only signalled when the ring was full.
TakeAdvanceFullOnly(w) ==
  /\ pc[w] = "take_advance"
  /\ start' = Succ(start)
  /\ full' = IF Succ(end) = start THEN full + 1 ELSE full
  /\ lock' = NoProc
  /\ Go(w, IF held[w] = NoTask THEN "loop" ELSE "run")
  /\ UNCHANGED <<shutdownx, end, queue, empty, read, held, main>>

\* Fault: tasks->full is not posted.
TakeAdvanceSilent(w) ==
  /\ pc[w] = "take_advance"
  /\ start' = Succ(start)
  /\ lock' = NoProc
  /\ Go(w, IF held[w] = NoTask THEN "loop" ELSE "run")
  /\ UNCHANGED <<shutdownx, end, queue, empty, full, read, held, main>>

\* worker_process() goes back to its loop when the task it got is empty.
TakeAdvance(w) ==
  /\ pc[w] = "take_advance"
  /\ start' = Succ(start)
  /\ full' = full + 1
  /\ lock' = NoProc
  /\ Go(w, IF held[w] = NoTask THEN "loop" ELSE "run")
  /\ UNCHANGED <<shutdownx, end, queue, empty, read, held, main>>

\* take_task() returns an empty task; the worker's loop will see the flag.
TakeRefuse(w) ==
  /\ pc[w] \in {"take_empty", "take_woken"} /\ shutdownx
  /\ empty' = empty + 1
  /\ Go(w, "loop")
  /\ UNCHANGED <<shutdownx, lock, ring, full, read, held, main>>

TakeEmpty(w) ==
  /\ pc[w] = "take_empty" /\ ~shutdownx
  /\ Go(w, "take_wait")
  /\ UNCHANGED <<shutdownx, lock, ring, empty, full, read, held, main>>

TakeWait(w) ==
  /\ pc[w] = "take_wait" /\ empty > 0
  /\ empty' = empty - 1
  /\ Go(w, "take_woken")
  /\ UNCHANGED <<shutdownx, lock, ring, full, read, held, main>>

TakeRetry(w) ==
  /\ pc[w] = "take_woken" /\ ~shutdownx
  /\ Go(w, "take_lock")
  /\ UNCHANGED <<shutdownx, lock, ring, empty, full, read, held, main>>

\* The callbacks run on the task, which is then done with.
RunCallbacks(w) ==
  /\ pc[w] = "run"
  /\ held' = [held EXCEPT ![w] = NoTask]
  /\ Go(w, "loop")
  /\ UNCHANGED <<shutdownx, lock, ring, empty, full, read, main>>

-----------------------------------------------------------------------------
(* diameter_peer_destroy()                                                  *)

\* Fault: the queue is not poisoned.
ShutdownNoPoison ==
  /\ main = "up"
  /\ shutdownx' = TRUE
  /\ main' = "waitpid"
  /\ UNCHANGED <<lock, ring, empty, full, pc, read, held>>

Shutdown ==
  /\ main = "up"
  /\ shutdownx' = TRUE
  /\ empty' = empty + Cardinality(Workers)
  /\ main' = "waitpid"
  /\ UNCHANGED <<lock, ring, full, pc, read, held>>

\* worker_destroy(), after every child has been waited for.
Destroy ==
  /\ main = "waitpid"
  /\ \A p \in Procs : pc[p] = "exited"
  /\ lock = NoProc
  /\ queue' = [i \in Slots |-> NoTask]
  /\ main' = "destroyed"
  /\ UNCHANGED <<shutdownx, lock, start, end, empty, full, pc, read, held>>

-----------------------------------------------------------------------------
ReceiverStep(r) ==
  \/ ReceiverExit(r)
  \/ PutLock(r) \/ PutTest(r) \/ PutStore(r) \/ PutPublish(r)
  \/ PutRefuse(r) \/ PutFull(r) \/ PutWait(r) \/ PutRetry(r)

WorkerStep(w) ==
  \/ WorkerLoop(w) \/ WorkerExit(w)
  \/ TakeLock(w) \/ TakeTest(w) \/ TakeRead(w) \/ TakeAdvance(w)
  \/ TakeRefuse(w) \/ TakeEmpty(w) \/ TakeWait(w) \/ TakeRetry(w)
  \/ RunCallbacks(w)

Next ==
  \/ \E r \in Receivers : ReceiveMessage(r) \/ ReceiverStep(r)
  \/ \E w \in Workers : WorkerStep(w)
  \/ Shutdown \/ Destroy

Spec == Init /\ [][Next]_vars

\* Every process that can take a step takes one; messages and the shutdown
\* need not come.
Fairness ==
  /\ \A r \in Receivers : WF_vars(ReceiverStep(r))
  /\ \A w \in Workers : WF_vars(WorkerStep(w))

FairSpec == Spec /\ Fairness

-----------------------------------------------------------------------------
(* Safety                                                                   *)

\* The slots between start and end, going round the ring.
Occupied == IF start <= end THEN start..(end - 1)
                            ELSE (start..(QueueLength - 1)) \cup (0..(end - 1))

\* How many tasks are in the ring.
Count == IF start <= end THEN end - start ELSE end + QueueLength - start

\* The tasks are exactly in the slots between start and end, except while
\* the lock's holder has stored a task it has not published, or has read one
\* without advancing start: put_task() never overwrites a task that no
\* worker took, and take_task() never hands out an empty slot.
RingConsistent ==
  main # "destroyed" =>
    \A i \in Slots :
      queue[i] # NoTask <=>
        IF lock # NoProc /\ pc[lock] = "put_publish" THEN i \in Occupied \cup {end}
        ELSE IF lock # NoProc /\ pc[lock] = "take_advance" THEN i \in Occupied \ {start}
        ELSE i \in Occupied

\* Workers that will look at the ring before they next wait.
ActiveWorkers ==
  {w \in Workers : pc[w] \in InTake \cup {"take_lock", "take_woken"}}

\* Receivers that will look at the ring before they next wait.
ActiveReceivers ==
  {r \in Receivers : pc[r] \in InPut \cup {"put_lock", "put_woken"}}

\* No wake-up of a worker is lost: there are at least as many posts of
\* tasks->empty outstanding, or workers about to look at the ring, as tasks in
\* it.  So workers never all sleep in sem_get() while a task waits.
NoLostTaskWakeup ==
  Count <= empty + Cardinality(ActiveWorkers)

\* No wake-up of a receiver is lost: as long as some receiver found the ring
\* full and waits, each free slot is matched by a post of tasks->full or by
\* a receiver about to look at the ring, although the semaphore starts at 1
\* whatever the length of the ring.
NoLostSpaceWakeup ==
  (\E r \in Receivers : pc[r] \in {"put_full", "put_wait"}) =>
    QueueLength - 1 - Count <= full + Cardinality(ActiveReceivers)

-----------------------------------------------------------------------------
(* Refinement of the bounded FIFO                                           *)

Pending ==
  IF main = "destroyed" THEN <<>>
  ELSE LET slot(i) == (start + i - 1) % QueueLength
           \* the head is in the worker's hands while it advances start
           taker == {w \in Workers : pc[w] = "take_advance"}
       IN  [i \in 1..Count |->
              IF i = 1 /\ taker # {} THEN held[CHOOSE w \in taker : TRUE]
              ELSE queue[slot(i)]]

Running == [w \in Workers |-> IF pc[w] = "run" THEN held[w] ELSE NoTask]

Fifo == INSTANCE CdpTaskFifo
          WITH Capacity <- QueueLength - 1, pending <- Pending, running <- Running

\* put_task() and take_task() implement a bounded FIFO: tasks are run in the
\* order they were accepted, each by one worker, none lost or run twice.
ImplementsFifo == Fifo!Spec

-----------------------------------------------------------------------------
(* Liveness, under FairSpec                                                 *)

\* A task that was accepted is run, unless the peer is shut down first.
AcceptedTasksRun ==
  \A t \in Tasks :
    (\E i \in Slots : queue[i] = t) ~> (shutdownx \/ \E w \in Workers : Running[w] = t)

\* put_task() returns: a receiver that waits for space gets its task in,
\* unless the peer is shut down.
PutReturns ==
  \A r \in Receivers : (pc[r] = "put_wait") ~> (pc[r] = "recv" \/ shutdownx)

\* One poison per worker is enough: every worker sees the flag and exits,
\* whatever it was waiting for when the flag was raised.
WorkersStop ==
  shutdownx ~> (\A w \in Workers : pc[w] = "exited")
=============================================================================
