----------------------------- MODULE CdpTaskFifo -----------------------------
(***************************************************************************)
(* What the task queue of modules/cdp promises its users: a bounded FIFO   *)
(* between the receivers, which accept Diameter messages, and the workers, *)
(* each of which runs the callbacks on one message at a time.              *)
(***************************************************************************)
EXTENDS Naturals, Sequences

CONSTANTS Tasks,      \* (peer, message) pairs
          Workers,    \* worker processes
          Capacity,   \* how many tasks may be pending
          NoTask

VARIABLES pending,    \* tasks accepted and not yet given to a worker, oldest first
          running     \* the task each worker is running the callbacks on

vars == <<pending, running>>

TypeOK ==
  /\ pending \in Seq(Tasks)
  /\ Len(pending) <= Capacity
  /\ running \in [Workers -> Tasks \cup {NoTask}]

Init ==
  /\ pending = <<>>
  /\ running = [w \in Workers |-> NoTask]

Accept(t) ==
  /\ Len(pending) < Capacity
  /\ pending' = Append(pending, t)
  /\ UNCHANGED running

Begin(w) ==
  /\ pending # <<>>
  /\ running[w] = NoTask
  /\ running' = [running EXCEPT ![w] = Head(pending)]
  /\ pending' = Tail(pending)

Finish(w) ==
  /\ running[w] # NoTask
  /\ running' = [running EXCEPT ![w] = NoTask]
  /\ UNCHANGED pending

\* Shutdown frees what is still pending, once nothing runs.
Discard ==
  /\ \A w \in Workers : running[w] = NoTask
  /\ pending' = <<>>
  /\ UNCHANGED running

Next ==
  \/ \E t \in Tasks : Accept(t)
  \/ \E w \in Workers : Begin(w) \/ Finish(w)
  \/ Discard

Spec == Init /\ [][Next]_vars
==============================================================================
