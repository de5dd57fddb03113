--------------------------- MODULE CdpTransaction ---------------------------
(***************************************************************************)
(* Diameter transactions of modules/cdp: the shared list of transaction.c, *)
(* the blocking and the asynchronous calls of diameter_comm.c, the worker  *)
(* that delivers an answer (api_process.c) and the timer process that      *)
(* times transactions out.                                                 *)
(*                                                                         *)
(* A transaction is named by the call that created it.  Shared memory is   *)
(* explicit where it is freed while others may hold a pointer: a           *)
(* transaction's memory is never given out again in the model, a           *)
(* semaphore's is, to the next call that needs one.  The order of the list *)
(* is left out: it decides only in which order transactions time out.      *)
(***************************************************************************)
EXTENDS Integers, FiniteSets

CONSTANTS Callers,       \* processes that send requests
          Workers,       \* cdp workers, which run api_callback()
          MaxCalls,      \* bound: calls each caller makes
          MaxAnswers,    \* bound: answers a request gets (0: lost, 2: duplicated)
          SemAddrs,      \* shm chunks for semaphores
          PeerMayClose,  \* whether the peer may leave the Open states
          Kinds,         \* which API is used: a subset of {"sendrecv", "async"}
          None,          \* nothing there yet
          NULL,          \* the null pointer
          Garbage,       \* what uninitialised memory holds
          Refused        \* the call returned 0: the request was not sent

ASSUME CallsAssumption ==
  IsFiniteSet(Callers) /\ Kinds \subseteq {"sendrecv", "async"} /\ PeerMayClose \in BOOLEAN

Trans   == Callers \X (1..MaxCalls)
Answers == [to : Trans, copy : 1..MaxAnswers]

ASSUME ValuesAssumption ==
  /\ MaxCalls \in Nat /\ MaxAnswers \in Nat
  /\ None \notin Trans \cup Answers \cup {"sendrecv", "async"}
  /\ {NULL, Garbage, Refused} \cap (Answers \cup {None}) = {}
  /\ NULL \notin {Garbage, Refused} /\ Garbage # Refused

VARIABLES open,      \* p->state is I_Open or R_Open
          pc,        \* where each caller is
          made,      \* calls each caller has made
          kind,      \* which API created the transaction
          mem,       \* the transaction's memory
          list,      \* the transactions in trans_list
          ans,       \* t->ans
          expired,   \* time has passed t->expires
          sem,       \* the semaphore passed as callback parameter
          semVal,    \* value of the semaphore at an address, -1 when not allocated
          returned,  \* what the call returned
          ended,     \* how often the transaction's callback ran on an event
          sent,      \* requests handed to the peer
          answers,   \* answers the peer sent for a request
          inbox,     \* answers in the task queue
          worker,    \* what each worker is doing
          scan,      \* what cdp_trans_timer(), which holds the list's lock, has before it
          fired,     \* the transaction whose timeout it has reported and not unlinked
          unclaimed, \* answers that no transaction took
          crashed    \* freed memory was used, fatally

callVars == <<pc, made, kind, returned>>
listVars == <<mem, list, ans, expired>>
semVars  == <<sem, semVal>>
netVars  == <<open, sent, answers, inbox, unclaimed>>
timerVars == <<scan, fired>>
vars == <<callVars, listVars, semVars, netVars, ended, worker, timerVars, crashed>>

Current(c) == <<c, made[c]>>
LockFree   == scan = {}
Idle       == [pc |-> "idle", msg |-> None, trans |-> None]

TypeOK ==
  /\ open \in BOOLEAN /\ crashed \in BOOLEAN
  /\ pc \in [Callers -> {"idle", "checked", "added", "waiting", "woken"}]
  /\ made \in [Callers -> 0..MaxCalls]
  /\ kind \in [Trans -> Kinds \cup {None}]
  /\ mem \in [Trans -> {"none", "live", "freed"}]
  /\ list \subseteq Trans
  /\ ans \in [Trans -> Answers \cup {Garbage, NULL}]
  /\ expired \in [Trans -> BOOLEAN]
  /\ sem \in [Trans -> SemAddrs \cup {None}]
  /\ semVal \in [SemAddrs -> -1..(Cardinality(Callers) * MaxCalls)]
  /\ returned \in [Trans -> Answers \cup {None, Refused, Garbage, NULL}]
  /\ ended \in [Trans -> Nat]
  /\ sent \subseteq Trans
  /\ answers \in [Trans -> 0..MaxAnswers]
  /\ inbox \subseteq Answers /\ unclaimed \subseteq Answers
  /\ worker \in [Workers -> [pc : {"idle", "took", "answered", "called"},
                             msg : Answers \cup {None}, trans : Trans \cup {None}]]
  /\ scan \subseteq Trans /\ fired \in Trans \cup {None}

Init ==
  /\ open = TRUE /\ crashed = FALSE
  /\ pc = [c \in Callers |-> "idle"]
  /\ made = [c \in Callers |-> 0]
  /\ kind = [t \in Trans |-> None]
  /\ mem = [t \in Trans |-> "none"]
  /\ list = {}
  /\ ans = [t \in Trans |-> Garbage]
  /\ expired = [t \in Trans |-> FALSE]
  /\ sem = [t \in Trans |-> None]
  /\ semVal = [a \in SemAddrs |-> -1]
  /\ returned = [t \in Trans |-> None]
  /\ ended = [t \in Trans |-> 0]
  /\ sent = {} /\ inbox = {} /\ unclaimed = {}
  /\ answers = [t \in Trans |-> 0]
  /\ worker = [w \in Workers |-> Idle]
  /\ scan = {} /\ fired = None

Go(c, at) == pc' = [pc EXCEPT ![c] = at]

\* sendrecv_cb() posts the semaphore it was given; any other callback just runs.
\* A post through a stale pointer wakes whoever owns the chunk now.
RunCallback(t) ==
  /\ ended' = [ended EXCEPT ![t] = @ + 1]
  /\ semVal' = IF kind[t] = "sendrecv" /\ semVal[sem[t]] >= 0
               THEN [semVal EXCEPT ![sem[t]] = @ + 1] ELSE semVal

-----------------------------------------------------------------------------
(* Callers: AAASendMessage() and AAASendRecvMessage()                       *)

\* The peer is found connected, without its lock.
Call(c, k) ==
  /\ pc[c] = "idle" /\ made[c] < MaxCalls
  /\ open
  /\ made' = [made EXCEPT ![c] = @ + 1]
  /\ kind' = [kind EXCEPT ![<<c, made[c] + 1>>] = k]
  /\ Go(c, "checked")
  /\ UNCHANGED <<returned, listVars, semVars, netVars, ended, worker, timerVars, crashed>>

\* sem_new() and cdp_add_trans(), which leaves t->ans as the allocator gave it.
AddTrans(c) ==
  LET t == Current(c) IN
  /\ pc[c] = "checked" /\ LockFree
  /\ \/ /\ kind[t] = "async"
        /\ UNCHANGED semVars
     \/ /\ kind[t] = "sendrecv"
        /\ \E a \in {b \in SemAddrs : semVal[b] = -1} :
             /\ sem' = [sem EXCEPT ![t] = a]
             /\ semVal' = [semVal EXCEPT ![a] = 0]
  /\ mem' = [mem EXCEPT ![t] = "live"]
  /\ list' = list \cup {t}
  /\ Go(c, "added")
  /\ UNCHANGED <<made, kind, returned, ans, expired, netVars, ended, worker, timerVars, crashed>>

\* sm_process(p, Send_Message): in an Open state the request is sent.
Send(c) ==
  LET t == Current(c) IN
  /\ pc[c] = "added" /\ open
  /\ sent' = sent \cup {t}
  /\ \/ /\ kind[t] = "sendrecv"
        /\ Go(c, "waiting")
     \/ /\ kind[t] = "async"
        /\ Go(c, "idle")
  /\ UNCHANGED <<made, kind, returned, listVars, semVars, open, answers, inbox, unclaimed,
                 ended, worker, timerVars, crashed>>

\* sm_process() refuses: the semaphore is freed and 0 returned; the transaction
\* stays in the list.
SendFails(c) ==
  LET t == Current(c) IN
  /\ pc[c] = "added" /\ ~open
  /\ semVal' = IF kind[t] = "sendrecv" THEN [semVal EXCEPT ![sem[t]] = -1] ELSE semVal
  /\ returned' = [returned EXCEPT ![t] = Refused]
  /\ Go(c, "idle")
  /\ UNCHANGED <<made, kind, listVars, sem, netVars, ended, worker, timerVars, crashed>>

\* Fault: the result of sem_get() is ignored, so a signal ends the wait.
WakeOnSignal(c) ==
  LET a == sem[Current(c)] IN
  /\ pc[c] = "waiting"
  /\ semVal' = [semVal EXCEPT ![a] = -1]
  /\ Go(c, "woken")
  /\ UNCHANGED <<made, kind, returned, listVars, sem, netVars, ended, worker, timerVars, crashed>>

\* sem_get() returns, the semaphore is freed.
Wake(c) ==
  LET a == sem[Current(c)] IN
  /\ pc[c] = "waiting" /\ semVal[a] > 0
  /\ semVal' = [semVal EXCEPT ![a] = -1]
  /\ Go(c, "woken")
  /\ UNCHANGED <<made, kind, returned, listVars, sem, netVars, ended, worker, timerVars, crashed>>

\* ans = t->ans; cdp_free_trans(t), without the list's lock.
Return(c) ==
  LET t == Current(c) IN
  /\ pc[c] = "woken"
  /\ returned' = [returned EXCEPT ![t] = ans[t]]
  /\ mem' = [mem EXCEPT ![t] = "freed"]
  /\ Go(c, "idle")
  /\ UNCHANGED <<made, kind, list, ans, expired, semVars, netVars, ended, worker, timerVars, crashed>>

-----------------------------------------------------------------------------
(* Workers: api_callback() on an answer                                     *)

\* Fault: the transaction is found but not unlinked.
FindTrans(w, m) ==
  /\ worker[w].pc = "idle" /\ m \in inbox /\ LockFree
  /\ inbox' = inbox \ {m}
  /\ \/ /\ m.to \in list
        /\ worker' = [worker EXCEPT ![w] = [pc |-> "took", msg |-> m, trans |-> m.to]]
        /\ UNCHANGED unclaimed
     \/ /\ m.to \notin list
        /\ unclaimed' = unclaimed \cup {m}
        /\ UNCHANGED worker
  /\ UNCHANGED <<callVars, listVars, semVars, open, sent, answers, ended, timerVars, crashed>>

\* cdp_take_trans() unlinks the transaction the answer belongs to, if it is there.
TakeTrans(w, m) ==
  /\ worker[w].pc = "idle" /\ m \in inbox /\ LockFree
  /\ inbox' = inbox \ {m}
  /\ \/ /\ m.to \in list
        /\ list' = list \ {m.to}
        /\ worker' = [worker EXCEPT ![w] = [pc |-> "took", msg |-> m, trans |-> m.to]]
        /\ UNCHANGED unclaimed
     \/ /\ m.to \notin list
        /\ unclaimed' = unclaimed \cup {m}
        /\ UNCHANGED <<list, worker>>
  /\ UNCHANGED <<callVars, mem, ans, expired, semVars, open, sent, answers, ended, timerVars, crashed>>

SetAnswer(w) ==
  /\ worker[w].pc = "took"
  /\ ans' = [ans EXCEPT ![worker[w].trans] = worker[w].msg]
  /\ worker' = [worker EXCEPT ![w].pc = "answered"]
  /\ UNCHANGED <<callVars, mem, list, expired, semVars, netVars, ended, timerVars, crashed>>

\* Fault: the answer is stored but its callback is not called.
AnswerNoCallback(w) ==
  /\ worker[w].pc = "answered"
  /\ worker' = [worker EXCEPT ![w].pc = "called"]
  /\ UNCHANGED <<callVars, listVars, semVars, netVars, ended, timerVars, crashed>>

AnswerCallback(w) ==
  /\ worker[w].pc = "answered"
  /\ RunCallback(worker[w].trans)
  /\ worker' = [worker EXCEPT ![w].pc = "called"]
  /\ UNCHANGED <<callVars, listVars, sem, netVars, timerVars, crashed>>

\* auto_drop was read before the callback ran.
AutoDrop(w) ==
  LET t == worker[w].trans IN
  /\ worker[w].pc = "called"
  /\ mem' = IF kind[t] = "async" THEN [mem EXCEPT ![t] = "freed"] ELSE mem
  /\ worker' = [worker EXCEPT ![w] = Idle]
  /\ UNCHANGED <<callVars, list, ans, expired, semVars, netVars, ended, timerVars, crashed>>

-----------------------------------------------------------------------------
(* The timer process: cdp_trans_timer(), all of it under the list's lock    *)

TimerStart ==
  /\ LockFree /\ list # {}
  /\ scan' = list
  /\ UNCHANGED <<callVars, listVars, semVars, netVars, ended, worker, fired, crashed>>

TimerSkip(t) ==
  /\ t \in scan /\ fired = None /\ ~expired[t]
  /\ scan' = scan \ {t}
  /\ UNCHANGED <<callVars, listVars, semVars, netVars, ended, worker, fired, crashed>>

\* Fault: a transaction that times out is dropped without its callback.
TimerFireSilent(t) ==
  /\ t \in scan /\ fired = None /\ expired[t]
  /\ ans' = [ans EXCEPT ![t] = NULL]
  /\ fired' = t
  /\ UNCHANGED <<callVars, mem, list, expired, semVars, netVars, ended, worker, scan, crashed>>

TimerFire(t) ==
  /\ t \in scan /\ fired = None /\ expired[t]
  /\ ans' = [ans EXCEPT ![t] = NULL]
  /\ RunCallback(t)
  /\ fired' = t
  /\ UNCHANGED <<callVars, mem, list, expired, sem, netVars, worker, scan, crashed>>

\* Fault: the transaction is freed while linked.
TimerDropLinked(t) ==
  /\ fired = t
  /\ fired' = None /\ scan' = scan \ {t}
  /\ mem' = IF kind[t] = "async" THEN [mem EXCEPT ![t] = "freed"] ELSE mem
  /\ UNCHANGED <<callVars, list, ans, expired, semVars, netVars, ended, worker, crashed>>

\* n = x->next, the unlinking and x->auto_drop read the transaction after its
\* callback ran.
TimerUnlink(t) ==
  /\ fired = t
  /\ fired' = None /\ scan' = scan \ {t}
  /\ list' = list \ {t}
  /\ mem' = IF kind[t] = "async" THEN [mem EXCEPT ![t] = "freed"] ELSE mem
  /\ UNCHANGED <<callVars, ans, expired, semVars, netVars, ended, worker, crashed>>

\* Freed memory is about to be read or written.
UseOfFreed ==
  \/ \E t \in scan : mem[t] = "freed"
  \/ \E w \in Workers : worker[w].pc \in {"took", "answered"} /\ mem[worker[w].trans] = "freed"
  \/ \E c \in Callers : pc[c] = "woken" /\ mem[Current(c)] = "freed"

\* One outcome of using freed memory; the other is that its content is still there.
Crash ==
  /\ UseOfFreed
  /\ crashed' = TRUE
  /\ UNCHANGED <<callVars, listVars, semVars, netVars, ended, worker, timerVars>>

-----------------------------------------------------------------------------
(* Time, the network and the peer                                           *)

Expire(t) ==
  /\ t \in list /\ ~expired[t]
  /\ expired' = [expired EXCEPT ![t] = TRUE]
  /\ UNCHANGED <<callVars, mem, list, ans, semVars, netVars, ended, worker, timerVars, crashed>>

\* An answer, or a copy of one, arrives and is queued for the workers.
Answer(t) ==
  /\ t \in sent /\ answers[t] < MaxAnswers
  /\ answers' = [answers EXCEPT ![t] = @ + 1]
  /\ inbox' = inbox \cup {[to |-> t, copy |-> answers[t] + 1]}
  /\ UNCHANGED <<callVars, listVars, semVars, open, sent, unclaimed, ended, worker, timerVars, crashed>>

\* The peer state machine leaves or reaches an Open state.
PeerChange ==
  /\ PeerMayClose
  /\ open' = ~open
  /\ UNCHANGED <<callVars, listVars, semVars, sent, answers, inbox, unclaimed,
                 ended, worker, timerVars, crashed>>

-----------------------------------------------------------------------------
CallerStep(c) == AddTrans(c) \/ Send(c) \/ SendFails(c) \/ Wake(c) \/ Return(c)

WorkerStep(w) ==
  \/ \E m \in inbox : TakeTrans(w, m)
  \/ SetAnswer(w) \/ AnswerCallback(w) \/ AutoDrop(w)

TimerStep ==
  TimerStart \/ \E t \in scan : TimerSkip(t) \/ TimerFire(t) \/ TimerUnlink(t)

Next ==
  /\ ~crashed
  /\ \/ \E c \in Callers : CallerStep(c) \/ \E k \in Kinds : Call(c, k)
     \/ \E w \in Workers : WorkerStep(w)
     \/ TimerStep
     \/ Crash
     \/ \E t \in Trans : Expire(t) \/ Answer(t)
     \/ PeerChange

Spec == Init /\ [][Next]_vars

\* Processes are scheduled and time passes; answers need not come.
Fairness ==
  /\ \A c \in Callers : WF_vars(~crashed /\ CallerStep(c))
  /\ \A w \in Workers : WF_vars(~crashed /\ WorkerStep(w))
  /\ WF_vars(~crashed /\ TimerStep)
  /\ \A t \in Trans : WF_vars(~crashed /\ Expire(t))

FairSpec == Spec /\ Fairness

-----------------------------------------------------------------------------
(* Safety                                                                   *)

\* An answer and the timeout race, and answers may be duplicated: still each
\* transaction sees at most one of these events.
OneEvent == \A t \in Trans : ended[t] <= 1

\* No send was refused: SendFails leaves a transaction behind that posts a semaphore
\* it does not own (BlocksUntilEvent).
NoneRefused == \A t \in Trans : returned[t] # Refused

\* Unless a send was refused, a blocking call returns the answer to its own request,
\* or NULL because the transaction timed out; never what the memory happened to hold.
ReturnsOwnAnswer ==
  NoneRefused => \A t \in Trans :
    returned[t] \notin {None, Refused} =>
      \/ returned[t] \in {a \in Answers : a.to = t}
      \/ returned[t] = NULL /\ expired[t]

\* The transaction's callback may still run on an event.
CallbackPending(t) ==
  \/ t \in list /\ t # fired
  \/ \E w \in Workers : worker[w].trans = t /\ worker[w].pc \in {"took", "answered"}

\* Whoever blocks in sem_get() will be posted: the callback is to come, or the
\* post is there already.
WaiterIsTracked ==
  \A c \in Callers :
    pc[c] = "waiting" => CallbackPending(Current(c)) \/ semVal[sem[Current(c)]] > 0

\* Unless a send was refused, a pending sendrecv_cb() posts the semaphore of the call
\* that waits for it, once: nobody has freed that semaphore, or was given its memory,
\* or has posted it before.
PostsReachTheirCall ==
  NoneRefused => \A t \in Trans :
    kind[t] = "sendrecv" /\ CallbackPending(t) =>
      /\ \E c \in Callers : t = Current(c) /\ pc[c] \in {"added", "waiting"}
      /\ semVal[sem[t]] = 0

\* Unless a send was refused, what is linked in the list is allocated, but for the
\* transaction whose timeout cdp_trans_timer() has just reported.
ListedIsLive ==
  NoneRefused => \A t \in list : mem[t] = "live" \/ t = fired

-----------------------------------------------------------------------------
(* Liveness, under FairSpec                                                 *)

\* AAASendRecvMessage() always returns: on an answer or on the timeout.
CallsReturn ==
  \A c \in Callers : (pc[c] = "waiting") ~> (pc[c] = "idle" \/ crashed)

-----------------------------------------------------------------------------
(* What the code says of itself and does not do                             *)

\* "auto_drop - whether to auto drop the transaction on event, or let the
\* application do it later": once the event is reported the application owns
\* the transaction, so cdp_trans_timer() should not use it any more.
TimerUsesLiveMemory == fired # None => mem[fired] # "freed"

\* "This blocks until a response is received or a transactional time-out
\* happens": a blocking call that returns had one of these events.
BlocksUntilEvent ==
  \A t \in Trans : returned[t] \notin {None, Refused} => ended[t] > 0

\* "will be freed by the user in upper api": an answer the worker does not free
\* reaches a user, who can.
AnswersReachUsers == unclaimed = {}
=============================================================================
