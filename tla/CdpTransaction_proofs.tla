----------------------- MODULE CdpTransaction_proofs -----------------------
(***************************************************************************)
(* Proofs about the transactions of modules/cdp, for any callers, workers, *)
(* numbers of calls and of answers, whether or not the peer may close.     *)
(***************************************************************************)
EXTENDS CdpTransaction, FiniteSetTheorems, TLAPS

\* The part of TypeOK the proofs rest on.  What bounds a semaphore's value is the
\* number of events (PostsAreCounted).
Types ==
  /\ pc \in [Callers -> {"idle", "checked", "added", "waiting", "woken"}]
  /\ made \in [Callers -> 0..MaxCalls]
  /\ kind \in [Trans -> Kinds \cup {None}]
  /\ list \subseteq Trans
  /\ sem \in [Trans -> SemAddrs \cup {None}]
  /\ semVal \in [SemAddrs -> Int]
  /\ ended \in [Trans -> Nat]
  /\ answers \in [Trans -> 0..MaxAnswers]
  /\ inbox \subseteq Answers
  /\ worker \in [Workers -> [pc : {"idle", "took", "answered", "called"},
                             msg : Answers \cup {None}, trans : Trans \cup {None}]]
  /\ scan \subseteq Trans /\ fired \in Trans \cup {None}

\* A caller that has left "idle" is at a call it has counted.
AtACall == \A c \in Callers : pc[c] # "idle" => made[c] > 0

\* The timer looks at linked transactions only: the lock keeps the list as it is.
ScanIsListed == scan \subseteq list /\ (fired # None => fired \in scan)

\* A linked transaction is still waiting for its event, or it is the one whose
\* timeout has just been reported.
ListedUnended == \A t \in list : ended[t] = 0 \/ (t = fired /\ ended[t] = 1)

\* A worker that is about to report an answer.
Holding(w) == worker[w].pc \in {"took", "answered"}

\* What a worker holds, it alone holds: the transaction was unlinked under the lock.
HeldAlone ==
  \A w \in Workers : Holding(w) =>
    /\ worker[w].trans \in Trans \ list
    /\ ended[worker[w].trans] = 0
    /\ \A v \in Workers : Holding(v) /\ v # w => worker[v].trans # worker[w].trans

\* The transaction of the n-th call of c is not made yet.
NotMade(c, n) == n > made[c] \/ (n = made[c] /\ pc[c] = "checked")

\* A transaction that is not made is nowhere.
FreshIsNowhere ==
  \A c \in Callers : \A n \in 1..MaxCalls : NotMade(c, n) =>
    /\ <<c, n>> \notin list
    /\ ended[<<c, n>>] = 0
    /\ \A w \in Workers : Holding(w) => worker[w].trans # <<c, n>>

\* The inductive invariant behind OneEvent.
EventInv ==
  Types /\ AtACall /\ ScanIsListed /\ ListedUnended /\ HeldAlone /\ FreshIsNowhere /\ OneEvent

\* A caller between sem_new() and sem_free().
OwnsSem(c) == pc[c] \in {"added", "waiting"} /\ kind[Current(c)] = "sendrecv"

\* Only AAASendRecvMessage() waits.
WaitersOwn == \A c \in Callers : pc[c] = "waiting" => kind[Current(c)] = "sendrecv"

\* The semaphore of a call is allocated, to this call only.
SemsAreOwn ==
  \A c \in Callers : OwnsSem(c) =>
    /\ sem[Current(c)] \in SemAddrs
    /\ semVal[sem[Current(c)]] >= 0
    /\ \A d \in Callers : OwnsSem(d) /\ d # c => sem[Current(d)] # sem[Current(c)]

\* WaiterIsTracked, from the moment the transaction is linked.
OwnerIsTracked ==
  \A c \in Callers :
    OwnsSem(c) => CallbackPending(Current(c)) \/ semVal[sem[Current(c)]] > 0

\* The inductive invariant behind WaiterIsTracked.
WaitInv == EventInv /\ WaitersOwn /\ SemsAreOwn /\ OwnerIsTracked

LEMMA CurrentIsTrans ==
  ASSUME Types, AtACall, NEW c \in Callers, pc[c] # "idle"
  PROVE  Current(c) \in Trans
BY ValuesAssumption DEF Types, AtACall, Current, Trans

\* Freeing a semaphore, posting one, and counting an event keep the types.
LEMMA SemFree ==
  ASSUME semVal \in [SemAddrs -> Int], NEW a
  PROVE  [semVal EXCEPT ![a] = -1] \in [SemAddrs -> Int]
<1> DEFINE freed == -1
<1>1. freed \in Int
  OBVIOUS
<1> HIDE DEF freed
<1>2. [semVal EXCEPT ![a] = freed] \in [SemAddrs -> Int]
  BY <1>1
<1> QED BY <1>2 DEF freed

LEMMA CallbackTypes ==
  ASSUME Types, NEW t, RunCallback(t)
  PROVE  semVal' \in [SemAddrs -> Int] /\ ended' \in [Trans -> Nat]
<1>1. ASSUME NEW a PROVE [semVal EXCEPT ![a] = @ + 1] \in [SemAddrs -> Int]
  <2>1. CASE a \in SemAddrs
    BY <2>1 DEF Types
  <2>2. CASE a \notin SemAddrs
    <3>1. [semVal EXCEPT ![a] = @ + 1] = semVal
      BY <2>2 DEF Types
    <3> QED BY <3>1 DEF Types
  <2> QED BY <2>1, <2>2
<1>2. [ended EXCEPT ![t] = @ + 1] \in [Trans -> Nat]
  <2>1. CASE t \in Trans
    BY <2>1 DEF Types
  <2>2. CASE t \notin Trans
    <3>1. [ended EXCEPT ![t] = @ + 1] = ended
      BY <2>2 DEF Types
    <3> QED BY <3>1 DEF Types
  <2> QED BY <2>1, <2>2
<1> QED BY <1>1, <1>2 DEF RunCallback, Types

LEMMA TypesNext ==
  ASSUME Types, AtACall, [Next]_vars PROVE Types' /\ AtACall'
<1> USE ValuesAssumption, CallsAssumption DEF Types, AtACall, Go
<1>1. ASSUME NEW c \in Callers, NEW k \in Kinds, Call(c, k) PROVE Types' /\ AtACall'
  <2>1. made[c] + 1 \in 1..MaxCalls
    BY <1>1 DEF Call
  <2>2. made' \in [Callers -> 0..MaxCalls] /\ pc' = [pc EXCEPT ![c] = "checked"]
    BY <1>1, <2>1 DEF Call
  <2>3. kind' \in [Trans -> Kinds \cup {None}]
    BY <1>1 DEF Call
  <2> QED BY <1>1, <2>1, <2>2, <2>3 DEF Call, listVars, semVars, netVars, timerVars
<1>2. ASSUME NEW c \in Callers, CallerStep(c) PROVE Types' /\ AtACall'
  <2>1. CASE AddTrans(c)
    <3>1. Current(c) \in Trans
      BY <2>1, CurrentIsTrans DEF AddTrans
    <3>2. sem' \in [Trans -> SemAddrs \cup {None}] /\ semVal' \in [SemAddrs -> Int]
      BY <2>1, <3>1 DEF AddTrans, semVars
    <3> QED BY <2>1, <3>1, <3>2 DEF AddTrans, netVars, timerVars
  <2>2. CASE Send(c)
    BY <2>2 DEF Send, listVars, semVars, timerVars
  <2>3. CASE SendFails(c)
    <3>1. semVal' \in [SemAddrs -> Int]
      BY <2>3, SemFree DEF SendFails, Types
    <3> QED BY <2>3, <3>1 DEF SendFails, listVars, netVars, timerVars
  <2>4. CASE Wake(c)
    <3>1. semVal' \in [SemAddrs -> Int]
      BY <2>4, SemFree DEF Wake, Types
    <3> QED BY <2>4, <3>1 DEF Wake, listVars, netVars, timerVars
  <2>5. CASE Return(c)
    BY <2>5 DEF Return, semVars, netVars, timerVars
  <2> QED BY <1>2, <2>1, <2>2, <2>3, <2>4, <2>5 DEF CallerStep
<1>3. ASSUME NEW w \in Workers, WorkerStep(w) PROVE Types' /\ AtACall'
  <2>1. ASSUME NEW m \in inbox, TakeTrans(w, m) PROVE Types' /\ AtACall'
    <3>1. m \in Answers /\ m.to \in Trans
      BY DEF Answers
    <3> QED BY <2>1, <3>1 DEF TakeTrans, callVars, semVars, timerVars
  <2>2. CASE SetAnswer(w)
    BY <2>2 DEF SetAnswer, callVars, semVars, netVars, timerVars
  <2>3. CASE AnswerCallback(w)
    <3>1. semVal' \in [SemAddrs -> Int] /\ ended' \in [Trans -> Nat]
      BY <2>3, CallbackTypes DEF AnswerCallback
    <3> QED BY <2>3, <3>1 DEF AnswerCallback, callVars, listVars, netVars, timerVars
  <2>4. CASE AutoDrop(w)
    BY <2>4 DEF AutoDrop, Idle, callVars, semVars, netVars, timerVars
  <2> QED BY <1>3, <2>1, <2>2, <2>3, <2>4 DEF WorkerStep
<1>4. CASE TimerStep
  <2>1. CASE TimerStart
    BY <2>1 DEF TimerStart, callVars, listVars, semVars, netVars
  <2>2. ASSUME NEW t \in scan, TimerSkip(t) PROVE Types' /\ AtACall'
    BY <2>2 DEF TimerSkip, callVars, listVars, semVars, netVars
  <2>3. ASSUME NEW t \in scan, TimerFire(t) PROVE Types' /\ AtACall'
    <3>1. semVal' \in [SemAddrs -> Int] /\ ended' \in [Trans -> Nat]
      BY <2>3, CallbackTypes DEF TimerFire
    <3> QED BY <2>3, <3>1 DEF TimerFire, callVars, netVars
  <2>4. ASSUME NEW t \in scan, TimerUnlink(t) PROVE Types' /\ AtACall'
    BY <2>4 DEF TimerUnlink, callVars, semVars, netVars
  <2> QED BY <1>4, <2>1, <2>2, <2>3, <2>4 DEF TimerStep
<1>5. CASE Crash
  BY <1>5 DEF Crash, callVars, listVars, semVars, netVars, timerVars
<1>6. ASSUME NEW t \in Trans, Expire(t) PROVE Types' /\ AtACall'
  BY <1>6 DEF Expire, callVars, semVars, netVars, timerVars
<1>7. ASSUME NEW t \in Trans, Answer(t) PROVE Types' /\ AtACall'
  <2>1. inbox' \subseteq Answers
    <3> SUFFICES [to |-> t, copy |-> answers[t] + 1] \in Answers
      BY <1>7 DEF Answer
    <3> QED BY <1>7 DEF Answer, Answers
  <2> QED BY <1>7, <2>1 DEF Answer, callVars, listVars, semVars, timerVars
<1>8. CASE PeerChange
  BY <1>8 DEF PeerChange, callVars, listVars, semVars, timerVars
<1>9. CASE UNCHANGED vars
  BY <1>9 DEF vars, callVars, listVars, semVars, netVars, timerVars
<1> QED BY <1>1, <1>2, <1>3, <1>4, <1>5, <1>6, <1>7, <1>8, <1>9 DEF Next

\* Steps that leave alone what EventInv speaks of beyond Types.
LEMMA EventFrame ==
  ASSUME EventInv, UNCHANGED <<pc, made, list, ended, worker, scan, fired>>
  PROVE  ScanIsListed' /\ ListedUnended' /\ HeldAlone' /\ FreshIsNowhere' /\ OneEvent'
BY DEF EventInv, ScanIsListed, ListedUnended, HeldAlone, FreshIsNowhere, OneEvent, Holding, NotMade

LEMMA EventNext == EventInv /\ [Next]_vars => EventInv'
<1> SUFFICES ASSUME EventInv, [Next]_vars PROVE EventInv'
  OBVIOUS
<1> DEFINE Rest == ScanIsListed' /\ ListedUnended' /\ HeldAlone' /\ FreshIsNowhere' /\ OneEvent'
<1>1. Types' /\ AtACall'
  BY TypesNext DEF EventInv
<1> SUFFICES Rest
  BY <1>1 DEF EventInv
\* A step of a caller that only moves it on, to a call it has already counted.
<1>2. ASSUME NEW c \in Callers, pc[c] # "checked", pc' = [pc EXCEPT ![c] = pc'[c]],
             pc'[c] # "checked", UNCHANGED <<made, list, ended, worker, scan, fired>>
      PROVE  Rest
  <2>1. \A d \in Callers, n \in 1..MaxCalls : NotMade(d, n)' => NotMade(d, n)
    BY <1>2 DEF NotMade, EventInv, Types
  <2> QED BY <1>2, <2>1
      DEF EventInv, ScanIsListed, ListedUnended, HeldAlone, FreshIsNowhere, OneEvent, Holding
<1>3. ASSUME NEW c \in Callers, NEW k \in Kinds, Call(c, k) PROVE Rest
  <2>1. UNCHANGED <<list, ended, worker, scan, fired>>
    BY <1>3 DEF Call, listVars, timerVars
  <2>2. \A d \in Callers, n \in 1..MaxCalls : NotMade(d, n)' => NotMade(d, n)
    BY <1>3, ValuesAssumption DEF Call, Go, NotMade, EventInv, Types
  <2> QED BY <2>1, <2>2
      DEF EventInv, ScanIsListed, ListedUnended, HeldAlone, FreshIsNowhere, OneEvent, Holding
<1>4. ASSUME NEW c \in Callers, CallerStep(c) PROVE Rest
  <2>1. CASE AddTrans(c)
    <3> DEFINE t == Current(c)
    <3>1. t \in Trans /\ made[c] \in 1..MaxCalls /\ NotMade(c, made[c])
      BY <2>1, CurrentIsTrans, ValuesAssumption
      DEF AddTrans, EventInv, Types, AtACall, NotMade, Current
    <3>2. t \notin list /\ ended[t] = 0 /\ \A w \in Workers : Holding(w) => worker[w].trans # t
      BY <3>1 DEF EventInv, FreshIsNowhere, Current
    <3>3. list' = list \cup {t} /\ UNCHANGED <<made, ended, worker, scan, fired>>
      BY <2>1 DEF AddTrans, timerVars
    <3>4. \A d \in Callers, n \in 1..MaxCalls :
            NotMade(d, n)' => NotMade(d, n) /\ <<d, n>> # t
      BY <2>1, <3>1 DEF AddTrans, Go, NotMade, Current, EventInv, Types
    <3> HIDE DEF t
    <3>5. ScanIsListed' /\ ListedUnended' /\ OneEvent'
      BY <3>2, <3>3 DEF EventInv, ScanIsListed, ListedUnended, OneEvent
    <3>6. HeldAlone'
      BY <3>2, <3>3 DEF EventInv, HeldAlone, Holding
    <3>7. FreshIsNowhere'
      BY <3>3, <3>4 DEF EventInv, FreshIsNowhere, Holding
    <3> QED BY <3>5, <3>6, <3>7
  <2>2. CASE Send(c)
    BY <1>2, <2>2 DEF Send, Go, listVars, timerVars, EventInv, Types
  <2>3. CASE SendFails(c)
    BY <1>2, <2>3 DEF SendFails, Go, listVars, timerVars, EventInv, Types
  <2>4. CASE Wake(c)
    BY <1>2, <2>4 DEF Wake, Go, listVars, timerVars, EventInv, Types
  <2>5. CASE Return(c)
    BY <1>2, <2>5 DEF Return, Go, timerVars, EventInv, Types
  <2> QED BY <1>4, <2>1, <2>2, <2>3, <2>4, <2>5 DEF CallerStep
<1>5. ASSUME NEW w \in Workers, WorkerStep(w) PROVE Rest
  <2>1. ASSUME NEW m \in inbox, TakeTrans(w, m) PROVE Rest
    <3>1. CASE m.to \in list
      <4> DEFINE t == m.to
      <4>1. /\ list' = list \ {t} /\ UNCHANGED <<pc, made, ended, scan, fired>>
            /\ worker' = [worker EXCEPT ![w] = [pc |-> "took", msg |-> m, trans |-> t]]
        BY <2>1, <3>1 DEF TakeTrans, callVars, timerVars
      <4>2. t \in Trans /\ scan = {} /\ fired = None /\ ended[t] = 0
        BY <2>1, <3>1, ValuesAssumption
        DEF TakeTrans, LockFree, EventInv, Types, ScanIsListed, ListedUnended
      <4>3. /\ Holding(w)' /\ worker'[w].trans = t /\ ~Holding(w)
            /\ \A v \in Workers \ {w} : worker'[v] = worker[v]
        BY <2>1, <4>1 DEF TakeTrans, Holding, EventInv, Types
      <4>4. \A v \in Workers : Holding(v) => worker[v].trans # t
        BY <3>1 DEF EventInv, HeldAlone
      <4> HIDE DEF t
      <4>5. ScanIsListed' /\ ListedUnended' /\ OneEvent'
        BY <4>1, <4>2 DEF EventInv, ScanIsListed, ListedUnended, OneEvent
      <4>6. HeldAlone'
        BY <4>1, <4>2, <4>3, <4>4 DEF EventInv, HeldAlone, Holding
      <4>7. FreshIsNowhere'
        BY <3>1, <4>1, <4>2, <4>3 DEF EventInv, FreshIsNowhere, Holding, NotMade, t
      <4> QED BY <4>5, <4>6, <4>7
    <3>2. CASE m.to \notin list
      BY <2>1, <3>2, EventFrame DEF TakeTrans, callVars, timerVars
    <3> QED BY <3>1, <3>2
  <2>2. CASE SetAnswer(w)
    <3>1. \A v \in Workers : Holding(v)' = Holding(v) /\ worker'[v].trans = worker[v].trans
      BY <2>2 DEF SetAnswer, Holding, EventInv, Types
    <3> QED BY <2>2, <3>1
        DEF SetAnswer, callVars, timerVars,
            EventInv, ScanIsListed, ListedUnended, HeldAlone, FreshIsNowhere, OneEvent, NotMade
  <2>3. CASE AnswerCallback(w)
    <3> DEFINE t == worker[w].trans
    <3>1. t \in Trans \ list /\ ended[t] = 0
      BY <2>3 DEF AnswerCallback, EventInv, HeldAlone, Holding
    <3>2. ended' = [ended EXCEPT ![t] = 1] /\ UNCHANGED <<pc, made, list, scan, fired>>
      BY <2>3, <3>1 DEF AnswerCallback, RunCallback, callVars, listVars, timerVars
    <3>3. \A v \in Workers : Holding(v)' =>
            Holding(v) /\ worker'[v].trans = worker[v].trans /\ worker[v].trans # t
      BY <2>3 DEF AnswerCallback, Holding, EventInv, Types, HeldAlone
    <3>4. \A d \in Callers, n \in 1..MaxCalls : NotMade(d, n) => <<d, n>> # t
      BY <2>3 DEF AnswerCallback, Holding, EventInv, FreshIsNowhere
    <3> HIDE DEF t
    <3>5. ScanIsListed' /\ ListedUnended' /\ OneEvent'
      BY <3>1, <3>2 DEF EventInv, Types, ScanIsListed, ListedUnended, OneEvent
    <3>6. HeldAlone'
      BY <3>1, <3>2, <3>3 DEF EventInv, Types, HeldAlone
    <3>7. FreshIsNowhere'
      <4> SUFFICES ASSUME NEW d \in Callers, NEW n \in 1..MaxCalls, NotMade(d, n)
                   PROVE  /\ <<d, n>> \notin list /\ ended'[<<d, n>>] = 0
                          /\ \A v \in Workers : Holding(v)' => worker'[v].trans # <<d, n>>
        BY <3>2 DEF FreshIsNowhere, NotMade
      <4>1. <<d, n>> \in Trans /\ <<d, n>> # t
        BY <3>4 DEF Trans
      <4>2. ended'[<<d, n>>] = ended[<<d, n>>]
        BY <3>2, <4>1 DEF EventInv, Types
      <4> QED BY <3>3, <4>2 DEF EventInv, FreshIsNowhere
    <3> QED BY <3>5, <3>6, <3>7
  <2>4. CASE AutoDrop(w)
    <3>1. \A v \in Workers : Holding(v)' => Holding(v) /\ worker'[v].trans = worker[v].trans
      BY <2>4 DEF AutoDrop, Idle, Holding, EventInv, Types
    <3> QED BY <2>4, <3>1
        DEF AutoDrop, callVars, timerVars,
            EventInv, ScanIsListed, ListedUnended, HeldAlone, FreshIsNowhere, OneEvent, NotMade
  <2> QED BY <1>5, <2>1, <2>2, <2>3, <2>4 DEF WorkerStep
<1>6. CASE TimerStep
  \* Looking at the next transaction, before or after one fired, leaves the rest alone.
  <2>1. CASE TimerStart
    <3>1. scan' = list /\ fired = None /\ UNCHANGED <<pc, made, list, ended, worker, fired>>
      BY <2>1 DEF TimerStart, LockFree, EventInv, Types, ScanIsListed,
                  callVars, listVars
    <3> QED BY <3>1
        DEF EventInv, ScanIsListed, ListedUnended, HeldAlone, FreshIsNowhere, OneEvent, Holding, NotMade
  <2>2. ASSUME NEW t \in scan, TimerSkip(t) PROVE Rest
    BY <2>2 DEF TimerSkip, callVars, listVars,
        EventInv, ScanIsListed, ListedUnended, HeldAlone, FreshIsNowhere, OneEvent, Holding, NotMade
  <2>3. ASSUME NEW t \in scan, TimerFire(t) PROVE Rest
    <3>1. t \in Trans /\ t \in list /\ t # None /\ fired = None /\ ended[t] = 0
      BY <2>3, ValuesAssumption DEF TimerFire, EventInv, Types, ScanIsListed, ListedUnended
    <3>2. /\ ended' = [ended EXCEPT ![t] = 1] /\ fired' = t
          /\ UNCHANGED <<pc, made, list, worker, scan>>
      BY <2>3, <3>1 DEF TimerFire, RunCallback, callVars
    <3>3. \A u \in Trans : u # t => ended'[u] = ended[u]
      BY <3>2 DEF EventInv, Types
    <3>4. ended'[t] = 1
      BY <3>1, <3>2 DEF EventInv, Types
    <3>5. ScanIsListed' /\ OneEvent'
      BY <3>1, <3>2, <3>3, <3>4 DEF EventInv, ScanIsListed, OneEvent
    <3>6. ListedUnended'
      BY <3>1, <3>2, <3>3, <3>4, ValuesAssumption DEF EventInv, Types, ListedUnended
    <3>7. HeldAlone'
      BY <3>1, <3>2, <3>3 DEF EventInv, HeldAlone, Holding
    <3>8. FreshIsNowhere'
      <4>1. \A d \in Callers, n \in 1..MaxCalls : <<d, n>> \in Trans
        BY DEF Trans
      <4> QED BY <3>1, <3>2, <3>3, <4>1 DEF EventInv, FreshIsNowhere, Holding, NotMade
    <3> QED BY <3>5, <3>6, <3>7, <3>8
  <2>4. ASSUME NEW t \in scan, TimerUnlink(t) PROVE Rest
    <3>1. /\ fired = t /\ fired' = None /\ scan' = scan \ {t} /\ list' = list \ {t}
          /\ UNCHANGED <<pc, made, ended, worker>>
      BY <2>4 DEF TimerUnlink, callVars
    <3> QED BY <3>1
        DEF EventInv, ScanIsListed, ListedUnended, HeldAlone, FreshIsNowhere, OneEvent, Holding, NotMade
  <2> QED BY <1>6, <2>1, <2>2, <2>3, <2>4 DEF TimerStep
<1>7. CASE Crash
  BY <1>7, EventFrame DEF Crash, callVars, listVars, timerVars
<1>8. ASSUME NEW t \in Trans, Expire(t) PROVE Rest
  BY <1>8, EventFrame DEF Expire, callVars, timerVars
<1>9. ASSUME NEW t \in Trans, Answer(t) PROVE Rest
  BY <1>9, EventFrame DEF Answer, callVars, listVars, timerVars
<1>10. CASE PeerChange
  BY <1>10, EventFrame DEF PeerChange, callVars, listVars, timerVars
<1>11. CASE UNCHANGED vars
  BY <1>11, EventFrame DEF vars, callVars, listVars, timerVars
<1> QED BY <1>3, <1>4, <1>5, <1>6, <1>7, <1>8, <1>9, <1>10, <1>11 DEF Next

LEMMA EventInit == Init => EventInv
<1> SUFFICES ASSUME Init PROVE EventInv
  OBVIOUS
<1>1. Types /\ AtACall
  <2>1. semVal \in [SemAddrs -> Int]
    <3> DEFINE unallocated == -1
    <3>1. unallocated \in Int
      OBVIOUS
    <3> HIDE DEF unallocated
    <3>2. [a \in SemAddrs |-> unallocated] \in [SemAddrs -> Int]
      BY <3>1
    <3> QED BY <3>2 DEF Init, unallocated
  <2> QED BY <2>1, ValuesAssumption DEF Init, Types, AtACall, Idle
<1>2. ScanIsListed /\ ListedUnended /\ HeldAlone /\ OneEvent
  BY DEF Init, ScanIsListed, ListedUnended, HeldAlone, Holding, Idle, OneEvent
<1>3. FreshIsNowhere
  BY DEF Init, FreshIsNowhere, Holding, Idle, Trans
<1> QED BY <1>1, <1>2, <1>3 DEF EventInv

\* The answer, its copies and the timeout race; a transaction sees one of them.
THEOREM EndsOnOneEvent == Spec => []OneEvent
<1>1. EventInv => OneEvent
  BY DEF EventInv
<1> QED BY <1>1, EventInit, EventNext, PTL DEF Spec

-----------------------------------------------------------------------------

\* A post takes nothing away from the other semaphores, and wakes its own.
LEMMA PostGrows ==
  ASSUME Types, NEW t \in Trans, RunCallback(t)
  PROVE  /\ \A a \in SemAddrs : semVal[a] >= 0 => semVal'[a] >= semVal[a]
         /\ kind[t] = "sendrecv" /\ sem[t] \in SemAddrs /\ semVal[sem[t]] >= 0
              => semVal'[sem[t]] > 0
BY DEF RunCallback, Types

\* Steps that leave the callers and the values of the semaphores alone, and every
\* pending callback pending.
LEMMA WaitFrame ==
  ASSUME WaitInv, UNCHANGED <<pc, made, kind, sem, semVal>>,
         \A t \in Trans : CallbackPending(t) => CallbackPending(t)'
  PROVE  WaitersOwn' /\ SemsAreOwn' /\ OwnerIsTracked'
<1>1. WaitersOwn' /\ SemsAreOwn'
  BY DEF WaitInv, WaitersOwn, SemsAreOwn, OwnsSem, Current
<1>2. OwnerIsTracked'
  <2> SUFFICES ASSUME NEW c \in Callers, OwnsSem(c)
               PROVE  CallbackPending(Current(c))' \/ (semVal[sem[Current(c)]] > 0)'
    BY DEF OwnerIsTracked, OwnsSem, Current
  <2>1. Current(c) \in Trans /\ Current(c)' = Current(c)
    BY CurrentIsTrans DEF OwnsSem, WaitInv, EventInv, Current
  <2>2. CASE CallbackPending(Current(c))
    BY <2>1, <2>2 DEF CallbackPending
  <2>3. CASE semVal[sem[Current(c)]] > 0
    BY <2>1, <2>3
  <2> QED BY <2>2, <2>3 DEF WaitInv, OwnerIsTracked
<1> QED BY <1>1, <1>2

\* A caller that is done with its semaphore, which it may have freed.
LEMMA WaitLeave ==
  ASSUME WaitInv, NEW c \in Callers, NEW at \in {"idle", "woken"}, Go(c, at),
         UNCHANGED <<made, kind, list, sem, worker, fired>>,
         \/ UNCHANGED semVal
         \/ OwnsSem(c) /\ semVal' = [semVal EXCEPT ![sem[Current(c)]] = -1]
  PROVE  WaitersOwn' /\ SemsAreOwn' /\ OwnerIsTracked'
<1>1. ~OwnsSem(c)' /\ pc'[c] # "waiting"
  BY DEF Go, OwnsSem, WaitInv, EventInv, Types
<1>2. \A d \in Callers \ {c} : pc'[d] = pc[d] /\ OwnsSem(d)' = OwnsSem(d)
  BY DEF Go, OwnsSem, Current, WaitInv, EventInv, Types
<1>3. \A d \in Callers : Current(d)' = Current(d)
  BY DEF Current
<1>4. ASSUME NEW d \in Callers \ {c}, OwnsSem(d)
      PROVE  semVal'[sem[Current(d)]] = semVal[sem[Current(d)]]
  BY <1>4 DEF WaitInv, SemsAreOwn, EventInv, Types
<1>5. \A t : CallbackPending(t)' = CallbackPending(t)
  BY DEF CallbackPending
<1>6. WaitersOwn'
  BY <1>1, <1>2, <1>3 DEF WaitInv, WaitersOwn
<1>7. SemsAreOwn'
  BY <1>1, <1>2, <1>3, <1>4 DEF WaitInv, SemsAreOwn
<1>8. OwnerIsTracked'
  BY <1>1, <1>2, <1>3, <1>4, <1>5 DEF WaitInv, OwnerIsTracked
<1> QED BY <1>6, <1>7, <1>8

\* The callback of a transaction runs: its owner is posted, nobody else loses.
LEMMA WaitCallback ==
  ASSUME WaitInv, NEW t \in Trans, RunCallback(t), UNCHANGED <<pc, made, kind, sem>>,
         \A u \in Trans \ {t} : CallbackPending(u) => CallbackPending(u)'
  PROVE  WaitersOwn' /\ SemsAreOwn' /\ OwnerIsTracked'
<1>1. \A d \in Callers : OwnsSem(d)' = OwnsSem(d) /\ Current(d)' = Current(d)
  BY DEF OwnsSem, Current
<1>2. Types /\ AtACall
  BY DEF WaitInv, EventInv
<1>3. ASSUME NEW d \in Callers, OwnsSem(d)
      PROVE  /\ semVal'[sem[Current(d)]] >= semVal[sem[Current(d)]]
             /\ Current(d) = t => semVal'[sem[Current(d)]] > 0
             /\ sem[Current(d)] \in SemAddrs
  <2>1. /\ sem[Current(d)] \in SemAddrs /\ semVal[sem[Current(d)]] >= 0
        /\ kind[Current(d)] = "sendrecv"
    BY <1>3 DEF WaitInv, SemsAreOwn, OwnsSem
  <2> QED BY <1>2, <2>1, PostGrows
<1>4. semVal \in [SemAddrs -> Int] /\ semVal' \in [SemAddrs -> Int]
  BY <1>2, CallbackTypes DEF Types
<1>5. WaitersOwn'
  BY <1>1 DEF WaitInv, WaitersOwn
<1>6. SemsAreOwn'
  BY <1>1, <1>3, <1>4 DEF WaitInv, SemsAreOwn
<1>7. OwnerIsTracked'
  <2> SUFFICES ASSUME NEW d \in Callers, OwnsSem(d)
               PROVE  CallbackPending(Current(d))' \/ semVal'[sem[Current(d)]] > 0
    BY <1>1 DEF OwnerIsTracked
  <2>1. CASE Current(d) = t
    BY <1>3, <2>1
  <2>2. CASE Current(d) # t /\ CallbackPending(Current(d))
    <3>1. Current(d) \in Trans
      BY <1>2, CurrentIsTrans DEF OwnsSem
    <3>2. CallbackPending(Current(d))'
      BY <1>1, <2>2, <3>1 DEF CallbackPending
    <3> QED BY <3>2
  <2>3. CASE semVal[sem[Current(d)]] > 0
    BY <1>3, <1>4, <2>3
  <2> QED BY <2>1, <2>2, <2>3 DEF WaitInv, OwnerIsTracked
<1> QED BY <1>5, <1>6, <1>7

LEMMA WaitNext == WaitInv /\ [Next]_vars => WaitInv'
<1> SUFFICES ASSUME WaitInv, [Next]_vars PROVE WaitInv'
  OBVIOUS
<1> DEFINE Rest == WaitersOwn' /\ SemsAreOwn' /\ OwnerIsTracked'
<1>1. EventInv'
  BY EventNext DEF WaitInv
<1>2. Types /\ AtACall /\ ScanIsListed /\ HeldAlone /\ FreshIsNowhere
  BY DEF WaitInv, EventInv
<1> SUFFICES Rest
  BY <1>1 DEF WaitInv
<1>3. ASSUME NEW c \in Callers, NEW k \in Kinds, Call(c, k) PROVE Rest
  <2>1. /\ pc[c] = "idle" /\ pc' = [pc EXCEPT ![c] = "checked"]
        /\ made' = [made EXCEPT ![c] = @ + 1]
        /\ kind' = [kind EXCEPT ![<<c, made[c] + 1>>] = k]
        /\ UNCHANGED <<list, sem, semVal, worker, fired>>
    BY <1>3 DEF Call, Go, listVars, semVars, timerVars
  <2>2. ~OwnsSem(c)' /\ pc'[c] # "waiting"
    BY <1>2, <2>1 DEF OwnsSem, Types
  <2>3. ASSUME NEW d \in Callers \ {c}
        PROVE  /\ pc'[d] = pc[d] /\ Current(d)' = Current(d)
               /\ kind'[Current(d)] = kind[Current(d)] /\ OwnsSem(d)' = OwnsSem(d)
    <3>1. pc'[d] = pc[d] /\ Current(d)' = Current(d)
      BY <1>2, <2>1 DEF Current, Types
    <3>2. kind'[Current(d)] = kind[Current(d)]
      BY <1>2, <2>1 DEF Current, Types
    <3> QED BY <3>1, <3>2 DEF OwnsSem
  <2>4. \A t : CallbackPending(t)' = CallbackPending(t)
    BY <2>1 DEF CallbackPending
  <2>5. WaitersOwn'
    BY <2>2, <2>3 DEF WaitInv, WaitersOwn
  <2>6. SemsAreOwn'
    BY <2>1, <2>2, <2>3 DEF WaitInv, SemsAreOwn
  <2>7. OwnerIsTracked'
    BY <2>1, <2>2, <2>3, <2>4 DEF WaitInv, OwnerIsTracked
  <2> QED BY <2>5, <2>6, <2>7
<1>4. ASSUME NEW c \in Callers, CallerStep(c) PROVE Rest
  <2>1. CASE AddTrans(c)
    <3> DEFINE t == Current(c)
    <3>1. /\ pc[c] = "checked" /\ pc' = [pc EXCEPT ![c] = "added"]
          /\ scan = {} /\ list' = list \cup {t}
          /\ UNCHANGED <<made, kind, worker, scan, fired>>
      BY <2>1 DEF AddTrans, Go, LockFree, timerVars
    <3>2. t \in Trans /\ t # fired
      BY <1>2, <3>1, CurrentIsTrans, ValuesAssumption DEF ScanIsListed
    <3>3. \A d \in Callers : Current(d)' = Current(d)
      BY <3>1 DEF Current
    <3>4. \A d \in Callers \ {c} : OwnsSem(d)' = OwnsSem(d) /\ pc'[d] = pc[d] /\ Current(d) # t
      BY <1>2, <3>1 DEF OwnsSem, Current, Types
    <3>5. CallbackPending(t)' /\ \A u : CallbackPending(u) => CallbackPending(u)'
      <4>1. t' = t
        BY <3>3
      <4> HIDE DEF t
      <4> QED BY <3>1, <3>2, <4>1 DEF CallbackPending
    <3>6. WaitersOwn'
      BY <1>2, <3>1, <3>3, <3>4 DEF WaitInv, WaitersOwn, Types
    <3>7. CASE kind[t] = "async"
      <4>1. UNCHANGED <<sem, semVal>>
        BY <2>1, <3>7 DEF AddTrans, semVars
      <4>2. ~OwnsSem(c)'
        BY <3>1, <3>3, <3>7 DEF OwnsSem
      <4>3. SemsAreOwn'
        BY <3>3, <3>4, <4>1, <4>2 DEF WaitInv, SemsAreOwn
      <4>4. OwnerIsTracked'
        BY <3>3, <3>4, <3>5, <4>1, <4>2 DEF WaitInv, OwnerIsTracked
      <4> QED BY <3>6, <4>3, <4>4
    <3>8. CASE kind[t] = "sendrecv"
      <4>1. PICK a \in SemAddrs : /\ semVal[a] = -1 /\ sem' = [sem EXCEPT ![t] = a]
                                  /\ semVal' = [semVal EXCEPT ![a] = 0]
        BY <2>1, <3>8 DEF AddTrans
      <4>2. sem'[t] = a /\ semVal'[a] = 0
        BY <1>2, <3>2, <4>1 DEF Types
      <4>3. ASSUME NEW d \in Callers \ {c}, OwnsSem(d)
            PROVE  /\ sem'[Current(d)] = sem[Current(d)] /\ sem[Current(d)] # a
                   /\ semVal'[sem[Current(d)]] = semVal[sem[Current(d)]]
        <5>1. sem'[Current(d)] = sem[Current(d)]
          BY <1>2, <3>4, <4>1 DEF Types
        <5>2. sem[Current(d)] \in SemAddrs /\ semVal[sem[Current(d)]] >= 0
          BY <4>3 DEF WaitInv, SemsAreOwn
        <5>3. sem[Current(d)] # a
          BY <4>1, <5>2
        <5> QED BY <1>2, <4>1, <5>1, <5>2, <5>3 DEF Types
      <4> HIDE DEF t
      <4>4. SemsAreOwn'
        BY <3>3, <3>4, <4>2, <4>3 DEF WaitInv, SemsAreOwn, t
      <4>5. OwnerIsTracked'
        BY <3>3, <3>4, <3>5, <4>3 DEF WaitInv, OwnerIsTracked, t
      <4> QED BY <3>6, <4>4, <4>5
    <3> QED BY <2>1, <3>7, <3>8 DEF AddTrans
  <2>2. CASE Send(c)
    <3>1. /\ pc[c] = "added" /\ pc' = [pc EXCEPT ![c] = pc'[c]]
          /\ \/ kind[Current(c)] = "sendrecv" /\ pc'[c] = "waiting"
             \/ kind[Current(c)] = "async" /\ pc'[c] = "idle"
          /\ UNCHANGED <<made, kind, list, sem, semVal, worker, fired>>
      BY <1>2, <2>2 DEF Send, Go, listVars, semVars, timerVars, Types
    <3>2. \A d \in Callers : OwnsSem(d)' = OwnsSem(d) /\ Current(d)' = Current(d)
      BY <1>2, <3>1 DEF OwnsSem, Current, Types
    <3>3. \A t : CallbackPending(t)' = CallbackPending(t)
      BY <3>1 DEF CallbackPending
    <3>4. WaitersOwn'
      BY <1>2, <3>1, <3>2 DEF WaitInv, WaitersOwn, Types
    <3>5. SemsAreOwn' /\ OwnerIsTracked'
      BY <3>1, <3>2, <3>3 DEF WaitInv, SemsAreOwn, OwnerIsTracked
    <3> QED BY <3>4, <3>5
  <2>3. CASE SendFails(c)
    <3>1. \/ UNCHANGED semVal
          \/ OwnsSem(c) /\ semVal' = [semVal EXCEPT ![sem[Current(c)]] = -1]
      BY <2>3 DEF SendFails, OwnsSem
    <3> QED BY <2>3, <3>1, WaitLeave DEF SendFails, listVars, timerVars
  <2>4. CASE Wake(c)
    <3>1. OwnsSem(c) /\ semVal' = [semVal EXCEPT ![sem[Current(c)]] = -1]
      BY <2>4 DEF Wake, OwnsSem, WaitInv, WaitersOwn
    <3> QED BY <2>4, <3>1, WaitLeave DEF Wake, listVars, timerVars
  <2>5. CASE Return(c)
    BY <2>5, WaitLeave DEF Return, semVars, timerVars
  <2> QED BY <1>4, <2>1, <2>2, <2>3, <2>4, <2>5 DEF CallerStep
<1>5. ASSUME NEW w \in Workers, WorkerStep(w) PROVE Rest
  <2>1. ASSUME NEW m \in inbox, TakeTrans(w, m) PROVE Rest
    <3>1. worker[w].pc = "idle" /\ UNCHANGED <<pc, made, kind, sem, semVal, fired>>
      BY <2>1 DEF TakeTrans, callVars, semVars, timerVars
    <3>2. CASE m.to \in list
      <4>1. /\ list' = list \ {m.to}
            /\ worker' = [worker EXCEPT ![w] = [pc |-> "took", msg |-> m, trans |-> m.to]]
        BY <2>1, <3>2 DEF TakeTrans
      <4>2. CallbackPending(m.to)'
        BY <1>2, <4>1 DEF CallbackPending, Types
      <4>3. \A t \in Trans \ {m.to} : CallbackPending(t) => CallbackPending(t)'
        BY <1>2, <3>1, <4>1 DEF CallbackPending, Types
      <4> QED BY <3>1, <4>2, <4>3, WaitFrame
    <3>3. CASE m.to \notin list
      <4>1. UNCHANGED <<list, worker>>
        BY <2>1, <3>3 DEF TakeTrans
      <4> QED BY <3>1, <4>1, WaitFrame DEF CallbackPending
    <3> QED BY <3>2, <3>3
  <2>2. CASE SetAnswer(w)
    <3>1. \A t \in Trans : CallbackPending(t) => CallbackPending(t)'
      BY <1>2, <2>2 DEF SetAnswer, timerVars, CallbackPending, Types
    <3> QED BY <2>2, <3>1, WaitFrame DEF SetAnswer, callVars, semVars
  <2>3. CASE AnswerCallback(w)
    <3> DEFINE t == worker[w].trans
    <3>1. t \in Trans
      BY <1>2, <2>3 DEF AnswerCallback, HeldAlone, Holding
    <3>2. \A u \in Trans \ {t} : CallbackPending(u) => CallbackPending(u)'
      BY <1>2, <2>3 DEF AnswerCallback, listVars, timerVars, CallbackPending, Types
    <3> QED BY <2>3, <3>1, <3>2, WaitCallback DEF AnswerCallback, callVars
  <2>4. CASE AutoDrop(w)
    <3>1. \A t \in Trans : CallbackPending(t) => CallbackPending(t)'
      BY <1>2, <2>4 DEF AutoDrop, timerVars, CallbackPending, Types
    <3> QED BY <2>4, <3>1, WaitFrame DEF AutoDrop, callVars, semVars
  <2> QED BY <1>5, <2>1, <2>2, <2>3, <2>4 DEF WorkerStep
<1>6. CASE TimerStep
  <2>1. CASE TimerStart
    BY <2>1, WaitFrame DEF TimerStart, callVars, listVars, semVars, CallbackPending
  <2>2. ASSUME NEW t \in scan, TimerSkip(t) PROVE Rest
    BY <2>2, WaitFrame DEF TimerSkip, callVars, listVars, semVars, CallbackPending
  <2>3. ASSUME NEW t \in scan, TimerFire(t) PROVE Rest
    <3>1. t \in Trans
      BY <1>2 DEF Types
    <3>2. \A u \in Trans \ {t} : CallbackPending(u) => CallbackPending(u)'
      BY <2>3 DEF TimerFire, CallbackPending
    <3> QED BY <2>3, <3>1, <3>2, WaitCallback DEF TimerFire, callVars
  <2>4. ASSUME NEW t \in scan, TimerUnlink(t) PROVE Rest
    <3>1. /\ fired = t /\ fired' = None /\ list' = list \ {t} /\ UNCHANGED worker
          /\ UNCHANGED <<pc, made, kind, sem, semVal>>
      BY <2>4 DEF TimerUnlink, callVars, semVars
    <3>2. \A u \in Trans : CallbackPending(u) => CallbackPending(u)'
      BY <3>1, ValuesAssumption DEF CallbackPending
    <3> QED BY <3>1, <3>2, WaitFrame
  <2> QED BY <1>6, <2>1, <2>2, <2>3, <2>4 DEF TimerStep
<1>7. CASE Crash
  BY <1>7, WaitFrame DEF Crash, callVars, listVars, semVars, timerVars, CallbackPending
<1>8. ASSUME NEW t \in Trans, Expire(t) PROVE Rest
  BY <1>8, WaitFrame DEF Expire, callVars, semVars, timerVars, CallbackPending
<1>9. ASSUME NEW t \in Trans, Answer(t) PROVE Rest
  BY <1>9, WaitFrame DEF Answer, callVars, listVars, semVars, timerVars, CallbackPending
<1>10. CASE PeerChange
  BY <1>10, WaitFrame DEF PeerChange, callVars, listVars, semVars, timerVars, CallbackPending
<1>11. CASE UNCHANGED vars
  BY <1>11, WaitFrame DEF vars, callVars, listVars, semVars, timerVars, CallbackPending
<1> QED BY <1>3, <1>4, <1>5, <1>6, <1>7, <1>8, <1>9, <1>10, <1>11 DEF Next

LEMMA WaitInit == Init => WaitInv
BY EventInit DEF Init, WaitInv, WaitersOwn, SemsAreOwn, OwnerIsTracked, OwnsSem

\* Whoever blocks in sem_get() has a post, or a callback that will post: across
\* refused sends, stale posts and lost peers.
THEOREM WaitersAreTracked == Spec => []WaiterIsTracked
<1>1. WaitInv => WaiterIsTracked
  BY DEF WaitInv, WaitersOwn, OwnerIsTracked, OwnsSem, WaiterIsTracked
<1> QED BY <1>1, WaitInit, WaitNext, PTL DEF Spec

-----------------------------------------------------------------------------

\* What Types leaves out of TypeOK, but for the bound on a semaphore's value.
MoreTypes ==
  /\ open \in BOOLEAN /\ crashed \in BOOLEAN
  /\ mem \in [Trans -> {"none", "live", "freed"}]
  /\ ans \in [Trans -> Answers \cup {Garbage, NULL}]
  /\ expired \in [Trans -> BOOLEAN]
  /\ returned \in [Trans -> Answers \cup {None, Refused, Garbage, NULL}]
  /\ sent \subseteq Trans /\ unclaimed \subseteq Answers

\* A call that is not made, or not over, has returned nothing.
NotReturned ==
  \A c \in Callers : \A n \in 1..MaxCalls :
    n > made[c] \/ (n = made[c] /\ pc[c] # "idle") => returned[<<c, n>>] = None

\* A busy worker is at the transaction its answer belongs to, which was made and is
\* linked no more; before the callback runs the answer is stored.
BusyHasOwn ==
  \A w \in Workers : worker[w].pc # "idle" =>
    /\ worker[w].msg \in Answers /\ worker[w].trans = worker[w].msg.to
    /\ worker[w].trans \notin list
    /\ \A c \in Callers : \A n \in 1..MaxCalls : NotMade(c, n) => worker[w].trans # <<c, n>>
    /\ worker[w].pc = "answered" => ans[worker[w].trans] = worker[w].msg

\* What the callback of a transaction leaves for its caller.
HasOwnAnswer(t) ==
  ans[t] \in {a \in Answers : a.to = t} \/ (ans[t] = NULL /\ expired[t])

\* A transaction that ended holds its answer, or timed out.
EndedIsAnswered == \A t \in Trans : ended[t] > 0 => HasOwnAnswer(t)

\* Unless a send was refused, a semaphore was posted for the call that owns it.
PostedIsEnded ==
  NoneRefused => \A c \in Callers :
    OwnsSem(c) /\ semVal[sem[Current(c)]] > 0 => ended[Current(c)] > 0

\* Unless a send was refused, a call wakes after its own event.
WokenIsEnded ==
  \A c \in Callers : pc[c] = "woken" =>
    /\ kind[Current(c)] = "sendrecv"
    /\ NoneRefused => ended[Current(c)] > 0

\* The inductive invariant behind PostsReachTheirCall, ListedIsLive and ReturnsOwnAnswer.
CallInv ==
  /\ WaitInv /\ MoreTypes /\ NotReturned /\ BusyHasOwn /\ EndedIsAnswered
  /\ PostsReachTheirCall /\ PostedIsEnded /\ WokenIsEnded
  /\ ListedIsLive /\ ReturnsOwnAnswer

\* Which step writes what.
LEMMA Writers ==
  ASSUME [Next]_vars
  PROVE  /\ \/ UNCHANGED <<pc, made, kind, returned>>
            \/ \E c \in Callers : CallerStep(c) \/ \E k \in Kinds : Call(c, k)
         /\ \/ UNCHANGED <<list, mem>>
            \/ \E c \in Callers : AddTrans(c) \/ Return(c)
            \/ \E w \in Workers : AutoDrop(w) \/ \E m \in inbox : TakeTrans(w, m)
            \/ \E t \in scan : TimerUnlink(t)
         /\ \/ UNCHANGED <<ans, ended>>
            \/ \E w \in Workers : SetAnswer(w) \/ AnswerCallback(w)
            \/ \E t \in scan : TimerFire(t)
         /\ \/ UNCHANGED expired
            \/ \E t \in Trans : Expire(t)
         /\ \/ UNCHANGED <<sem, semVal>>
            \/ \E c \in Callers : AddTrans(c) \/ SendFails(c) \/ Wake(c)
            \/ \E w \in Workers : AnswerCallback(w)
            \/ \E t \in scan : TimerFire(t)
         /\ \/ UNCHANGED worker
            \/ \E w \in Workers : WorkerStep(w)
         /\ \/ UNCHANGED fired
            \/ \E t \in scan : TimerFire(t) \/ TimerUnlink(t)
<1> USE DEF callVars, listVars, semVars, netVars, timerVars
<1>1. ASSUME NEW c \in Callers, CallerStep(c)
      PROVE  UNCHANGED <<ans, ended, expired, worker, fired>>
  BY <1>1 DEF CallerStep, AddTrans, Send, SendFails, Wake, Return
<1>2. ASSUME NEW c \in Callers, CallerStep(c)
      PROVE  /\ UNCHANGED <<list, mem>> \/ AddTrans(c) \/ Return(c)
             /\ UNCHANGED <<sem, semVal>> \/ AddTrans(c) \/ SendFails(c) \/ Wake(c)
  BY <1>2 DEF CallerStep, Send, SendFails, Wake, Return
<1>3. ASSUME NEW c \in Callers, NEW k \in Kinds, Call(c, k)
      PROVE  UNCHANGED <<ans, ended, expired, worker, fired, list, mem, sem, semVal>>
  BY <1>3 DEF Call
<1>4. ASSUME NEW w \in Workers, WorkerStep(w)
      PROVE  /\ UNCHANGED <<pc, made, kind, returned, expired, fired>>
             /\ UNCHANGED <<list, mem>> \/ AutoDrop(w) \/ \E m \in inbox : TakeTrans(w, m)
             /\ UNCHANGED <<ans, ended>> \/ SetAnswer(w) \/ AnswerCallback(w)
             /\ UNCHANGED <<sem, semVal>> \/ AnswerCallback(w)
  BY <1>4 DEF WorkerStep, TakeTrans, SetAnswer, AnswerCallback, AutoDrop
<1>5. CASE TimerStep
  <2>1. CASE TimerStart
    BY <2>1 DEF TimerStart
  <2>2. ASSUME NEW t \in scan, TimerSkip(t) \/ TimerFire(t) \/ TimerUnlink(t)
        PROVE  /\ UNCHANGED <<pc, made, kind, returned, expired, worker>>
               /\ UNCHANGED <<list, mem>> \/ TimerUnlink(t)
               /\ UNCHANGED <<ans, ended, sem, semVal>> \/ TimerFire(t)
               /\ UNCHANGED fired \/ TimerFire(t) \/ TimerUnlink(t)
    BY <2>2 DEF TimerSkip, TimerFire, TimerUnlink
  <2> QED BY <1>5, <2>1, <2>2 DEF TimerStep
<1>6. CASE Crash \/ PeerChange \/ UNCHANGED vars \/ \E t \in Trans : Answer(t)
  BY <1>6 DEF Crash, PeerChange, Answer, vars
<1>7. ASSUME NEW t \in Trans, Expire(t)
      PROVE  UNCHANGED <<pc, made, kind, returned, list, mem, ans, ended, sem, semVal, worker, fired>>
  BY <1>7 DEF Expire
<1> QED BY <1>1, <1>2, <1>3, <1>4, <1>5, <1>6, <1>7 DEF Next

LEMMA MoreTypesNext ==
  ASSUME Types, AtACall, MoreTypes, BusyHasOwn, [Next]_vars PROVE MoreTypes'
<1> USE ValuesAssumption, CallsAssumption DEF Types, MoreTypes, callVars, listVars, semVars, netVars, timerVars
<1>1. ASSUME NEW c \in Callers, CallerStep(c) PROVE MoreTypes'
  <2>1. Current(c) \in Trans
    BY <1>1, CurrentIsTrans DEF CallerStep, AddTrans, Send, SendFails, Wake, Return
  <2> QED BY <1>1, <2>1 DEF CallerStep, AddTrans, Send, SendFails, Wake, Return
<1>2. ASSUME NEW c \in Callers, NEW k \in Kinds, Call(c, k) PROVE MoreTypes'
  BY <1>2 DEF Call
<1>3. ASSUME NEW w \in Workers, NEW m \in inbox, TakeTrans(w, m) PROVE MoreTypes'
  BY <1>3 DEF TakeTrans
<1>4. ASSUME NEW w \in Workers, SetAnswer(w) PROVE MoreTypes'
  BY <1>4 DEF SetAnswer, BusyHasOwn
<1>5. ASSUME NEW w \in Workers, AnswerCallback(w) \/ AutoDrop(w) PROVE MoreTypes'
  BY <1>5 DEF AnswerCallback, AutoDrop
<1>6. CASE TimerStep
  BY <1>6 DEF TimerStep, TimerStart, TimerSkip, TimerFire, TimerUnlink
<1>7. CASE Crash \/ PeerChange \/ UNCHANGED vars
  BY <1>7 DEF Crash, PeerChange, vars
<1>8. ASSUME NEW t \in Trans, Answer(t) \/ Expire(t) PROVE MoreTypes'
  BY <1>8 DEF Answer, Expire
<1> QED BY <1>1, <1>2, <1>3, <1>4, <1>5, <1>6, <1>7, <1>8 DEF Next, WorkerStep

LEMMA NotReturnedNext ==
  ASSUME Types, AtACall, MoreTypes, NotReturned, [Next]_vars PROVE NotReturned'
<1> USE ValuesAssumption DEF Types, Go
<1>1. ASSUME NEW c \in Callers, NEW k \in Kinds, Call(c, k) PROVE NotReturned'
  BY <1>1 DEF NotReturned, Call
<1>2. ASSUME NEW c \in Callers, CallerStep(c) PROVE NotReturned'
  <2>1. UNCHANGED made /\ pc' = [pc EXCEPT ![c] = pc'[c]] /\ pc[c] # "idle"
    BY <1>2 DEF CallerStep, AddTrans, Send, SendFails, Wake, Return
  <2>2. \A u \in Trans : returned'[u] = returned[u] \/ (u = <<c, made[c]>> /\ pc'[c] = "idle")
    BY <1>2 DEF CallerStep, AddTrans, Send, SendFails, Wake, Return, Current, MoreTypes
  <2>3. \A d \in Callers, n \in 1..MaxCalls : <<d, n>> \in Trans
    BY DEF Trans
  <2> QED BY <2>1, <2>2, <2>3 DEF NotReturned
<1>3. CASE UNCHANGED <<pc, made, kind, returned>>
  BY <1>3 DEF NotReturned
<1> QED BY <1>1, <1>2, <1>3, Writers

\* A transaction that is made stays so; cdp_add_trans() makes the caller's own.
LEMMA NotMadeBack ==
  ASSUME Types, [Next]_vars, NEW d \in Callers, NEW n \in 1..MaxCalls, NotMade(d, n)'
  PROVE  /\ NotMade(d, n)
         /\ \A c \in Callers : AddTrans(c) => <<d, n>> # Current(c)
<1> USE ValuesAssumption DEF Types, Go, NotMade
<1>1. ASSUME NEW c \in Callers, NEW k \in Kinds, Call(c, k) PROVE NotMade(d, n)
  BY <1>1 DEF Call
<1>2. ASSUME NEW c \in Callers, CallerStep(c) PROVE NotMade(d, n)
  BY <1>2 DEF CallerStep, AddTrans, Send, SendFails, Wake, Return
<1>3. ASSUME NEW c \in Callers, AddTrans(c) PROVE <<d, n>> # Current(c)
  BY <1>3 DEF AddTrans, Current
<1> QED BY <1>1, <1>2, <1>3, Writers

LEMMA BusyNext ==
  ASSUME EventInv, AtACall, MoreTypes, BusyHasOwn, [Next]_vars PROVE BusyHasOwn'
<1>1. Types /\ AtACall /\ HeldAlone /\ ScanIsListed
  BY DEF EventInv
<1> USE ValuesAssumption DEF callVars, listVars, semVars, netVars, timerVars
<1> SUFFICES ASSUME NEW w \in Workers, worker'[w].pc # "idle"
             PROVE  /\ worker'[w].msg \in Answers /\ worker'[w].trans = worker'[w].msg.to
                    /\ worker'[w].trans \notin list'
                    /\ \A c \in Callers : \A n \in 1..MaxCalls :
                         NotMade(c, n)' => worker'[w].trans # <<c, n>>
                    /\ worker'[w].pc = "answered" => ans'[worker'[w].trans] = worker'[w].msg
  BY DEF BusyHasOwn
\* The worker comes by a linked transaction.
<1>2. ASSUME NEW m \in inbox, TakeTrans(w, m), worker' # worker
      PROVE  /\ worker'[w] = [pc |-> "took", msg |-> m, trans |-> m.to]
             /\ m \in Answers /\ m.to \in list /\ list' = list \ {m.to}
  BY <1>1, <1>2 DEF TakeTrans, Types
<1>3. ASSUME NEW m \in inbox, TakeTrans(w, m), worker' # worker,
             NEW c \in Callers, NEW n \in 1..MaxCalls, NotMade(c, n)'
      PROVE  m.to # <<c, n>>
  BY <1>1, <1>2, <1>3, NotMadeBack DEF EventInv, FreshIsNowhere
\* The worker had it before.
<1>4. ASSUME worker[w].pc # "idle", worker'[w].trans = worker[w].trans,
             worker'[w].msg = worker[w].msg
      PROVE  /\ worker'[w].msg \in Answers /\ worker'[w].trans = worker'[w].msg.to
             /\ worker'[w].trans \notin list'
             /\ \A c \in Callers : \A n \in 1..MaxCalls :
                         NotMade(c, n)' => worker'[w].trans # <<c, n>>
  <2>1. ASSUME NEW c \in Callers, AddTrans(c) PROVE worker[w].trans # Current(c)
    <3>1. made[c] \in 1..MaxCalls /\ NotMade(c, made[c])
      BY <1>1, <2>1 DEF AddTrans, AtACall, Types, NotMade
    <3> QED BY <1>4, <3>1 DEF BusyHasOwn, Current
  <2>2. list' \subseteq list \/ \E c \in Callers : AddTrans(c)
    BY Writers DEF Return, AutoDrop, TakeTrans, TimerUnlink
  <2>3. worker[w].trans \notin list'
    BY <1>4, <2>1, <2>2 DEF BusyHasOwn, AddTrans
  <2> QED BY <1>1, <1>4, <2>3, NotMadeBack DEF BusyHasOwn
<1>5. \/ \E m \in inbox : TakeTrans(w, m) /\ worker' # worker
      \/ /\ worker[w].pc # "idle" /\ worker'[w].trans = worker[w].trans
         /\ worker'[w].msg = worker[w].msg
  <2>1. ASSUME NEW v \in Workers, WorkerStep(v), v # w PROVE worker'[w] = worker[w]
    BY <1>1, <2>1 DEF WorkerStep, TakeTrans, SetAnswer, AnswerCallback, AutoDrop, Types
  <2>2. ASSUME WorkerStep(w), worker' # worker, \A m \in inbox : ~TakeTrans(w, m)
        PROVE  worker[w].pc # "idle" /\ worker'[w].trans = worker[w].trans
                 /\ worker'[w].msg = worker[w].msg
    BY <1>1, <2>2 DEF WorkerStep, SetAnswer, AnswerCallback, AutoDrop, Idle, Types
  <2> QED BY <2>1, <2>2, Writers
<1>6. ASSUME worker'[w].pc = "answered" PROVE ans'[worker'[w].trans] = worker'[w].msg
  <2>1. CASE SetAnswer(w)
    BY <1>1, <2>1 DEF SetAnswer, Types, HeldAlone, Holding, MoreTypes
  <2>2. CASE ~SetAnswer(w)
    <3>1. worker'[w] = worker[w]
      BY <1>1, <1>6, <2>2, Writers
      DEF WorkerStep, TakeTrans, SetAnswer, AnswerCallback, AutoDrop, Idle, Types
    <3>2. ans'[worker[w].trans] = ans[worker[w].trans]
      <4>1. worker[w].trans \in Trans \ list
        BY <1>1, <1>6, <3>1 DEF HeldAlone, Holding
      <4>2. ASSUME NEW v \in Workers, SetAnswer(v) PROVE worker[v].trans # worker[w].trans
        BY <1>1, <1>6, <2>2, <3>1, <4>2 DEF SetAnswer, HeldAlone, Holding
      <4> QED BY <1>1, <4>1, <4>2, Writers
          DEF SetAnswer, AnswerCallback, TimerFire, ScanIsListed, MoreTypes
    <3> QED BY <1>6, <3>1, <3>2 DEF BusyHasOwn
  <2> QED BY <2>1, <2>2
<1>7. CASE \E m \in inbox : TakeTrans(w, m) /\ worker' # worker
  <2> PICK m \in inbox : TakeTrans(w, m) /\ worker' # worker
    BY <1>7
  <2>1. /\ worker'[w] = [pc |-> "took", msg |-> m, trans |-> m.to]
        /\ m \in Answers /\ m.to \in list /\ list' = list \ {m.to}
    BY <1>2
  <2>2. worker'[w].msg = m /\ worker'[w].trans = m.to /\ worker'[w].pc = "took"
    BY <2>1
  <2> QED BY <1>3, <2>1, <2>2
<1> QED BY <1>4, <1>5, <1>6, <1>7

LEMMA EndedIsAnsweredNext ==
  ASSUME EventInv, MoreTypes, BusyHasOwn, EndedIsAnswered, [Next]_vars
  PROVE  EndedIsAnswered'
<1> USE ValuesAssumption DEF HasOwnAnswer
<1>1. Types /\ AtACall /\ HeldAlone /\ ScanIsListed /\ ListedUnended
  BY DEF EventInv
<1> SUFFICES ASSUME NEW t \in Trans, ended'[t] > 0 PROVE HasOwnAnswer(t)'
  BY DEF EndedIsAnswered
<1>2. expired[t] => expired'[t]
  BY Writers DEF Expire, MoreTypes
<1>3. ASSUME NEW w \in Workers, SetAnswer(w) PROVE HasOwnAnswer(t)'
  <2>1. ended' = ended /\ ended[worker[w].trans] = 0
    BY <1>1, <1>3 DEF SetAnswer, HeldAlone, Holding
  <2>2. ans'[t] = ans[t]
    BY <1>3, <2>1 DEF SetAnswer, MoreTypes
  <2> QED BY <1>2, <2>1, <2>2 DEF EndedIsAnswered
<1>4. ASSUME NEW w \in Workers, AnswerCallback(w) PROVE HasOwnAnswer(t)'
  <2>1. ans' = ans /\ ended' = [ended EXCEPT ![worker[w].trans] = @ + 1]
    BY <1>4 DEF AnswerCallback, RunCallback, listVars
  <2>2. ans[worker[w].trans] \in {a \in Answers : a.to = worker[w].trans}
    BY <1>4 DEF AnswerCallback, BusyHasOwn
  <2> QED BY <1>1, <1>2, <2>1, <2>2 DEF EndedIsAnswered, Types
<1>5. ASSUME NEW u \in scan, TimerFire(u) PROVE HasOwnAnswer(t)'
  <2>1. /\ ans' = [ans EXCEPT ![u] = NULL] /\ ended' = [ended EXCEPT ![u] = @ + 1]
        /\ expired[u]
    BY <1>5 DEF TimerFire, RunCallback
  <2> QED BY <1>1, <1>2, <2>1 DEF EndedIsAnswered, Types, MoreTypes
<1>6. CASE UNCHANGED <<ans, ended>>
  BY <1>2, <1>6 DEF EndedIsAnswered
<1> QED BY <1>3, <1>4, <1>5, <1>6, Writers

\* A send that was refused stays refused.
LEMMA RefusedStays ==
  ASSUME Types, AtACall, MoreTypes, NotReturned, [Next]_vars, NoneRefused'
  PROVE  NoneRefused /\ \A c \in Callers : ~SendFails(c)
<1> USE ValuesAssumption DEF NoneRefused
<1>1. ASSUME NEW c \in Callers, SendFails(c) PROVE FALSE
  BY <1>1, CurrentIsTrans DEF SendFails, MoreTypes
<1>2. ASSUME NEW c \in Callers, Return(c) PROVE NoneRefused
  <2>1. Current(c) \in Trans /\ made[c] \in 1..MaxCalls
    BY <1>2, CurrentIsTrans DEF Return, Types, AtACall
  <2>2. returned[Current(c)] = None
    BY <1>2, <2>1 DEF Return, NotReturned, Current
  <2> QED BY <1>2, <2>1, <2>2 DEF Return, MoreTypes
<1>3. UNCHANGED returned \/ \E c \in Callers : Return(c) \/ SendFails(c)
  BY Writers DEF CallerStep, Call, AddTrans, Send, Wake
<1> QED BY <1>1, <1>2, <1>3

\* A pending callback is that of a transaction that was made and has not ended.
LEMMA PendingIsUnended ==
  EventInv => \A t : CallbackPending(t) =>
    /\ t \in Trans /\ ended[t] = 0
    /\ \A c \in Callers : \A n \in 1..MaxCalls : NotMade(c, n) => t # <<c, n>>
BY DEF EventInv, Types, CallbackPending, ListedUnended, HeldAlone, Holding, FreshIsNowhere

LEMMA PendingIsUnendedNext ==
  (EventInv => \A t : CallbackPending(t) =>
     /\ t \in Trans /\ ended[t] = 0
     /\ \A c \in Callers : \A n \in 1..MaxCalls : NotMade(c, n) => t # <<c, n>>)'
BY PendingIsUnended, PTL

\* Only cdp_add_trans() brings a callback that was not pending.
LEMMA PendingBack ==
  ASSUME EventInv, [Next]_vars, NEW t, CallbackPending(t)'
  PROVE  CallbackPending(t) \/ \E c \in Callers : AddTrans(c) /\ t = Current(c)
<1> USE ValuesAssumption DEF CallbackPending, listVars, timerVars
<1>1. Types /\ AtACall /\ ScanIsListed
  BY DEF EventInv
<1>2. ASSUME NEW w \in Workers, WorkerStep(w) PROVE CallbackPending(t)
  BY <1>1, <1>2 DEF WorkerStep, TakeTrans, SetAnswer, AnswerCallback, AutoDrop, Idle, Types, LockFree, ScanIsListed
<1>3. CASE \E u \in scan : TimerFire(u) \/ TimerUnlink(u)
  BY <1>1, <1>3 DEF TimerFire, TimerUnlink, Types
<1>4. ASSUME UNCHANGED <<worker, fired>>, UNCHANGED list \/ \E c \in Callers : AddTrans(c)
      PROVE  CallbackPending(t) \/ \E c \in Callers : AddTrans(c) /\ t = Current(c)
  BY <1>1, <1>4 DEF AddTrans
<1>5. \/ UNCHANGED list
      \/ \E c \in Callers : AddTrans(c)
      \/ \E w \in Workers : WorkerStep(w)
      \/ \E u \in scan : TimerUnlink(u)
  BY Writers DEF Return, AutoDrop, WorkerStep
<1> QED BY <1>2, <1>3, <1>4, <1>5, Writers

\* A post reaches the semaphore of its own call and no other.
LEMMA PostIsOwn ==
  ASSUME Types, AtACall, SemsAreOwn, PostsReachTheirCall, NoneRefused,
         NEW u \in Trans, CallbackPending(u), RunCallback(u),
         NEW c \in Callers, OwnsSem(c), Current(c) # u
  PROVE  semVal'[sem[Current(c)]] = semVal[sem[Current(c)]]
<1>1. CASE kind[u] = "sendrecv"
  <2>1. PICK d \in Callers : u = Current(d) /\ pc[d] \in {"added", "waiting"}
    BY <1>1 DEF PostsReachTheirCall
  <2>2. OwnsSem(d) /\ d # c
    BY <1>1, <2>1 DEF OwnsSem
  <2>3. sem[u] # sem[Current(c)] /\ sem[Current(c)] \in SemAddrs
    BY <2>1, <2>2 DEF SemsAreOwn
  <2> QED BY <2>3 DEF RunCallback, Types
<1>2. CASE kind[u] # "sendrecv"
  BY <1>2 DEF RunCallback
<1> QED BY <1>1, <1>2

\* The steps that run a callback.
LEMMA PostSteps ==
  ASSUME EventInv, (\E w \in Workers : AnswerCallback(w)) \/ (\E t \in scan : TimerFire(t))
  PROVE  \E u \in Trans :
           /\ CallbackPending(u) /\ RunCallback(u)
           /\ UNCHANGED <<pc, made, kind, sem>> /\ ended'[u] > 0
<1>1. Types /\ HeldAlone /\ ScanIsListed /\ ListedUnended
  BY DEF EventInv
<1>2. ASSUME NEW u \in Trans, ended[u] = 0, RunCallback(u) PROVE ended'[u] > 0
  BY <1>1, <1>2 DEF RunCallback, Types
<1>3. ASSUME NEW w \in Workers, AnswerCallback(w)
      PROVE  LET u == worker[w].trans IN
             /\ u \in Trans /\ ended[u] = 0 /\ CallbackPending(u) /\ RunCallback(u)
             /\ UNCHANGED <<pc, made, kind, sem>>
  BY <1>1, <1>3 DEF AnswerCallback, HeldAlone, Holding, CallbackPending, callVars, listVars
<1>4. ASSUME NEW t \in scan, TimerFire(t)
      PROVE  /\ t \in Trans /\ ended[t] = 0 /\ CallbackPending(t) /\ RunCallback(t)
             /\ UNCHANGED <<pc, made, kind, sem>>
  BY <1>1, <1>4, ValuesAssumption
  DEF TimerFire, callVars, CallbackPending, Types, ScanIsListed, ListedUnended
<1> QED BY <1>2, <1>3, <1>4

LEMMA PostsNext ==
  ASSUME CallInv, [Next]_vars PROVE PostsReachTheirCall'
<1> USE ValuesAssumption DEF callVars, listVars, semVars, netVars, timerVars
<1>1. EventInv /\ Types /\ AtACall /\ SemsAreOwn /\ MoreTypes /\ NotReturned /\ PostsReachTheirCall
  BY DEF CallInv, WaitInv, EventInv
<1> SUFFICES ASSUME NoneRefused', NEW t \in Trans, kind'[t] = "sendrecv", CallbackPending(t)'
             PROVE  /\ \E c \in Callers : t = Current(c)' /\ pc'[c] \in {"added", "waiting"}
                    /\ semVal'[sem'[t]] = 0
  BY DEF PostsReachTheirCall
<1>2. NoneRefused /\ \A c \in Callers : ~SendFails(c)
  BY <1>1, RefusedStays
\* cdp_add_trans() has just made it.
<1>3. ASSUME NEW c \in Callers, AddTrans(c), t = Current(c)
      PROVE  /\ t = Current(c)' /\ pc'[c] \in {"added", "waiting"}
             /\ semVal'[sem'[t]] = 0
  <2>1. t = Current(c)' /\ pc'[c] \in {"added", "waiting"}
    BY <1>1, <1>3 DEF AddTrans, Current, Go, Types
  <2>2. semVal'[sem'[t]] = 0
    BY <1>1, <1>3 DEF AddTrans, Types
  <2> QED BY <2>1, <2>2
\* It was pending, and owned.
<1>4. ASSUME CallbackPending(t), \A c \in Callers : ~(AddTrans(c) /\ t = Current(c))
      PROVE  /\ \E c \in Callers : t = Current(c)' /\ pc'[c] \in {"added", "waiting"}
             /\ semVal'[sem'[t]] = 0
  <2>1. kind[t] = "sendrecv"
    <3>1. ASSUME NEW c \in Callers, NEW k \in Kinds, Call(c, k) PROVE kind'[t] = kind[t]
      <4>1. made[c] + 1 \in 1..MaxCalls /\ NotMade(c, made[c] + 1)
        BY <1>1, <3>1 DEF Call, Types, NotMade
      <4>2. t # <<c, made[c] + 1>>
        BY <1>1, <1>4, <4>1, PendingIsUnended
      <4> QED BY <1>1, <3>1, <4>2 DEF Call, Types
    <3>2. kind'[t] = kind[t]
      BY <3>1, Writers DEF CallerStep, AddTrans, Send, SendFails, Wake, Return
    <3> QED BY <3>2
  <2>2. PICK c \in Callers : t = Current(c) /\ pc[c] \in {"added", "waiting"}
    BY <1>1, <1>2, <1>4, <2>1 DEF PostsReachTheirCall
  <2>3. semVal[sem[t]] = 0 /\ OwnsSem(c) /\ sem[t] \in SemAddrs
    BY <1>1, <1>2, <1>4, <2>1, <2>2 DEF PostsReachTheirCall, OwnsSem, SemsAreOwn
  <2>4. ~Wake(c) /\ ~SendFails(c) /\ ~AddTrans(c) /\ ~Return(c)
    BY <1>2, <2>2, <2>3 DEF Wake, AddTrans, Return
  <2>5. t = Current(c)' /\ pc'[c] \in {"added", "waiting"}
    <3>1. ASSUME NEW d \in Callers, NEW k \in Kinds, Call(d, k)
          PROVE  t = Current(c)' /\ pc'[c] \in {"added", "waiting"}
      BY <1>1, <2>2, <3>1 DEF Call, Go, Current, Types
    <3>2. ASSUME NEW d \in Callers, CallerStep(d)
          PROVE  t = Current(c)' /\ pc'[c] \in {"added", "waiting"}
      <4>1. UNCHANGED made /\ (d # c => pc'[c] = pc[c])
        BY <1>1, <3>2 DEF CallerStep, AddTrans, Send, SendFails, Wake, Return, Go, Types
      <4>2. d = c => pc'[c] = "waiting"
        BY <1>1, <2>1, <2>2, <2>4, <3>2 DEF CallerStep, Send, Go, Types
      <4> QED BY <2>2, <4>1, <4>2 DEF Current
    <3>3. CASE UNCHANGED <<pc, made, kind, returned>>
      BY <2>2, <3>3 DEF Current
    <3> QED BY <3>1, <3>2, <3>3, Writers
  <2>6. sem'[t] = sem[t]
    BY <1>1, <1>4, Writers DEF AddTrans, SendFails, Wake, AnswerCallback, TimerFire, Types
  <2>7. semVal'[sem[t]] = semVal[sem[t]]
    <3>1. ASSUME NEW d \in Callers, AddTrans(d) PROVE semVal'[sem[t]] = semVal[sem[t]]
      BY <1>1, <2>3, <3>1 DEF AddTrans, Types
    <3>2. ASSUME NEW d \in Callers, Wake(d) PROVE semVal'[sem[t]] = semVal[sem[t]]
      <4>1. d # c /\ OwnsSem(d)
        BY <2>4, <3>2 DEF Wake, OwnsSem, CallInv, WaitInv, WaitersOwn
      <4>2. sem[Current(d)] # sem[t]
        BY <1>1, <2>2, <2>3, <4>1 DEF SemsAreOwn
      <4> QED BY <1>1, <2>3, <3>2, <4>2 DEF Wake, Types
    <3>3. CASE (\E w \in Workers : AnswerCallback(w)) \/ (\E u \in scan : TimerFire(u))
      <4>1. PICK u \in Trans : CallbackPending(u) /\ RunCallback(u) /\ ended'[u] > 0
        BY <1>1, <3>3, PostSteps
      <4>2. EventInv'
        BY <1>1, EventNext
      <4>3. u # t
        BY <4>1, <4>2, PendingIsUnendedNext
      <4> QED BY <1>1, <1>2, <2>2, <2>3, <4>1, <4>3, PostIsOwn
    <3> QED BY <1>2, <3>1, <3>2, <3>3, Writers
  <2> QED BY <2>3, <2>5, <2>6, <2>7
<1> QED BY <1>1, <1>3, <1>4, PendingBack

\* A semaphore that is posted was posted by the event of the call that owns it.
LEMMA PostedIsEndedNext ==
  ASSUME CallInv, [Next]_vars PROVE PostedIsEnded'
<1> USE ValuesAssumption DEF callVars, listVars, semVars, netVars, timerVars
<1>1. EventInv /\ Types /\ AtACall /\ SemsAreOwn /\ MoreTypes /\ NotReturned /\ PostsReachTheirCall
  BY DEF CallInv, WaitInv, EventInv
<1> SUFFICES ASSUME NoneRefused', NEW c \in Callers, OwnsSem(c)', (semVal[sem[Current(c)]] > 0)'
             PROVE  (ended[Current(c)] > 0)'
  BY DEF PostedIsEnded
<1>2. NoneRefused /\ \A d \in Callers : ~SendFails(d)
  BY <1>1, RefusedStays
<1>3. ~AddTrans(c)
  BY <1>1, CurrentIsTrans DEF AddTrans, Current, OwnsSem, Types
<1>4. OwnsSem(c) /\ Current(c)' = Current(c)
  <2>1. ASSUME NEW d \in Callers, NEW k \in Kinds, Call(d, k) PROVE OwnsSem(c) /\ Current(c)' = Current(c)
    <3>1. d # c
      BY <1>1, <2>1 DEF Call, Go, OwnsSem, Types
    <3> QED BY <1>1, <2>1, <3>1 DEF Call, Go, OwnsSem, Current, Types
  <2>2. ASSUME NEW d \in Callers, CallerStep(d) PROVE OwnsSem(c) /\ Current(c)' = Current(c)
    BY <1>1, <1>2, <1>3, <2>2 DEF CallerStep, AddTrans, Send, Wake, Return, Go, OwnsSem, Current, Types
  <2> QED BY <2>1, <2>2, Writers DEF OwnsSem, Current
<1>5. Current(c) \in Trans /\ sem[Current(c)] \in SemAddrs /\ semVal[sem[Current(c)]] >= 0
  BY <1>1, <1>4, CurrentIsTrans DEF OwnsSem, SemsAreOwn
<1>6. sem'[Current(c)] = sem[Current(c)]
  <2>1. \A d \in Callers \ {c} : Current(d) # Current(c)
    BY DEF Current
  <2>2. ASSUME NEW d \in Callers, AddTrans(d) PROVE sem'[Current(c)] = sem[Current(c)]
    <3>1. \A a : [sem EXCEPT ![Current(d)] = a][Current(c)] = sem[Current(c)]
      BY <1>1, <1>3, <1>5, <2>1, <2>2 DEF Types
    <3> QED BY <2>2, <3>1 DEF AddTrans
  <2> QED BY <2>2, Writers DEF SendFails, Wake, AnswerCallback, TimerFire
<1>7. ended[Current(c)] > 0 => ended'[Current(c)] > 0
  BY <1>1, <1>5, Writers DEF SetAnswer, AnswerCallback, TimerFire, RunCallback, Types
<1>8. semVal'[sem[Current(c)]] = semVal[sem[Current(c)]] \/ ended'[Current(c)] > 0
  <2>1. ASSUME NEW d \in Callers, AddTrans(d)
        PROVE  semVal'[sem[Current(c)]] = semVal[sem[Current(c)]]
    BY <1>1, <1>5, <2>1 DEF AddTrans, Types
  <2>2. ASSUME NEW d \in Callers, Wake(d)
        PROVE  semVal'[sem[Current(c)]] = semVal[sem[Current(c)]]
    <3>1. d # c /\ OwnsSem(d)
      BY <1>1, <1>4, <2>2, <1>6 DEF Wake, Go, OwnsSem, CallInv, WaitInv, WaitersOwn, Types
    <3>2. sem[Current(d)] # sem[Current(c)]
      BY <1>1, <1>4, <3>1 DEF SemsAreOwn
    <3> QED BY <1>1, <1>5, <2>2, <3>2 DEF Wake, Types
  <2>3. CASE (\E w \in Workers : AnswerCallback(w)) \/ (\E u \in scan : TimerFire(u))
    <3>1. PICK u \in Trans : CallbackPending(u) /\ RunCallback(u) /\ ended'[u] > 0
      BY <1>1, <2>3, PostSteps
    <3>2. CASE u = Current(c)
      BY <3>1, <3>2
    <3>3. CASE u # Current(c)
      BY <1>1, <1>2, <1>4, <3>1, <3>3, PostIsOwn
    <3> QED BY <3>2, <3>3
  <2> QED BY <1>2, <2>1, <2>2, <2>3, Writers
<1> QED BY <1>2, <1>4, <1>6, <1>7, <1>8 DEF CallInv, PostedIsEnded

LEMMA WokenIsEndedNext ==
  ASSUME CallInv, [Next]_vars PROVE WokenIsEnded'
<1> USE ValuesAssumption DEF callVars, listVars, semVars, netVars, timerVars
<1>1. EventInv /\ Types /\ AtACall /\ MoreTypes /\ NotReturned /\ PostedIsEnded /\ WaitersOwn
  BY DEF CallInv, WaitInv, EventInv
<1> SUFFICES ASSUME NEW c \in Callers, pc'[c] = "woken"
             PROVE  /\ kind'[Current(c)'] = "sendrecv"
                    /\ NoneRefused' => ended'[Current(c)'] > 0
  BY DEF WokenIsEnded
<1>2. NoneRefused' => NoneRefused
  BY <1>1, RefusedStays
<1>3. Current(c)' = Current(c) /\ kind'[Current(c)] = kind[Current(c)] /\ pc[c] # "idle"
  <2>1. ASSUME NEW d \in Callers, NEW k \in Kinds, Call(d, k)
        PROVE  Current(c)' = Current(c) /\ kind'[Current(c)] = kind[Current(c)] /\ pc[c] # "idle"
    <3>1. d # c /\ pc[c] = "woken"
      BY <1>1, <2>1 DEF Call, Go, Types
    <3> QED BY <1>1, <2>1, <3>1 DEF Call, Current, Types
  <2>2. ASSUME NEW d \in Callers, CallerStep(d)
        PROVE  Current(c)' = Current(c) /\ kind'[Current(c)] = kind[Current(c)] /\ pc[c] # "idle"
    BY <1>1, <2>2 DEF CallerStep, AddTrans, Send, SendFails, Wake, Return, Go, Current, Types
  <2> QED BY <2>1, <2>2, Writers DEF Current
<1>4. Current(c) \in Trans
  BY <1>1, <1>3, CurrentIsTrans
<1>5. ended[Current(c)] > 0 => ended'[Current(c)] > 0
  BY <1>1, <1>4, Writers DEF SetAnswer, AnswerCallback, TimerFire, RunCallback, Types
<1>6. CASE pc[c] = "woken"
  BY <1>2, <1>3, <1>5, <1>6 DEF CallInv, WokenIsEnded
<1>7. CASE Wake(c)
  BY <1>1, <1>2, <1>3, <1>5, <1>7 DEF Wake, WaitersOwn, PostedIsEnded, OwnsSem
<1>8. pc[c] = "woken" \/ Wake(c)
  <2>1. ASSUME NEW d \in Callers, CallerStep(d) PROVE pc[c] = "woken" \/ Wake(c)
    BY <1>1, <2>1 DEF CallerStep, AddTrans, Send, SendFails, Wake, Return, Go, Types
  <2>2. ASSUME NEW d \in Callers, NEW k \in Kinds, Call(d, k) PROVE pc[c] = "woken"
    BY <1>1, <2>2 DEF Call, Go, Types
  <2> QED BY <2>1, <2>2, Writers
<1> QED BY <1>6, <1>7, <1>8

LEMMA ListedIsLiveNext ==
  ASSUME CallInv, [Next]_vars PROVE ListedIsLive'
<1> USE ValuesAssumption DEF callVars, listVars, semVars, netVars, timerVars
<1>1. EventInv /\ Types /\ AtACall /\ MoreTypes /\ NotReturned /\ ScanIsListed
  BY DEF CallInv, WaitInv, EventInv
<1> SUFFICES ASSUME NoneRefused', NEW t \in list' PROVE mem'[t] = "live" \/ t = fired'
  BY DEF ListedIsLive
<1>2. NoneRefused /\ t \in Trans
  BY <1>1, RefusedStays, TypesNext DEF Types
<1>3. CASE t \notin list
  <2>1. PICK c \in Callers : AddTrans(c)
    BY <1>3, Writers DEF Return, AutoDrop, TakeTrans, TimerUnlink
  <2> QED BY <1>1, <1>2, <1>3, <2>1 DEF AddTrans, MoreTypes
<1>4. CASE t \in list
  <2>1. mem[t] = "live" \/ t = fired
    BY <1>2, <1>4 DEF CallInv, ListedIsLive
  <2>2. ASSUME t # fired PROVE mem'[t] = "live"
    <3>1. ASSUME NEW c \in Callers, Return(c) PROVE t # Current(c)
      <4>1. kind[Current(c)] = "sendrecv"
        BY <3>1 DEF Return, CallInv, WokenIsEnded
      <4>2. CallbackPending(t)
        BY <1>4, <2>2 DEF CallbackPending
      <4>3. ASSUME t = Current(c) PROVE FALSE
        <5>1. PICK d \in Callers : Current(c) = Current(d) /\ pc[d] \in {"added", "waiting"}
          BY <1>2, <4>1, <4>2, <4>3 DEF CallInv, PostsReachTheirCall
        <5>2. d = c
          BY <5>1 DEF Current
        <5> QED BY <3>1, <5>1, <5>2 DEF Return
      <4> QED BY <4>3
    <3>2. ASSUME NEW w \in Workers, AutoDrop(w) PROVE t # worker[w].trans
      BY <1>4, <3>2 DEF AutoDrop, CallInv, BusyHasOwn
    <3> QED BY <1>1, <1>2, <2>1, <2>2, <3>1, <3>2, Writers
        DEF AddTrans, Return, AutoDrop, TakeTrans, TimerUnlink, MoreTypes
  <2>3. ASSUME t = fired PROVE t = fired'
    BY <1>2, <2>3, Writers DEF TimerFire, TimerUnlink
  <2> QED BY <2>2, <2>3
<1> QED BY <1>3, <1>4

LEMMA ReturnsOwnAnswerNext ==
  ASSUME CallInv, [Next]_vars PROVE ReturnsOwnAnswer'
<1> USE ValuesAssumption DEF callVars, listVars, semVars, netVars, timerVars
<1>1. EventInv /\ Types /\ AtACall /\ MoreTypes /\ NotReturned
  BY DEF CallInv, WaitInv, EventInv
<1> SUFFICES ASSUME NoneRefused', NEW t \in Trans, returned'[t] \notin {None, Refused}
             PROVE  \/ returned'[t] \in {a \in Answers : a.to = t}
                    \/ returned'[t] = NULL /\ expired'[t]
  BY DEF ReturnsOwnAnswer
<1>2. NoneRefused /\ \A c \in Callers : ~SendFails(c)
  BY <1>1, RefusedStays
<1>3. expired[t] => expired'[t]
  BY <1>1, Writers DEF Expire, MoreTypes
<1>4. CASE returned'[t] = returned[t]
  BY <1>2, <1>3, <1>4 DEF CallInv, ReturnsOwnAnswer
<1>5. CASE returned'[t] # returned[t]
  <2>1. PICK c \in Callers : Return(c)
    BY <1>2, <1>5, Writers DEF CallerStep, Call, AddTrans, Send, Wake
  <2>2. t = Current(c) /\ returned'[t] = ans[t]
    BY <1>1, <1>5, <2>1 DEF Return, MoreTypes
  <2>3. ended[t] > 0
    BY <1>2, <2>1, <2>2 DEF Return, CallInv, WokenIsEnded
  <2> QED BY <1>3, <2>2, <2>3 DEF CallInv, EndedIsAnswered, HasOwnAnswer
<1> QED BY <1>4, <1>5

LEMMA CallNext == CallInv /\ [Next]_vars => CallInv'
<1> SUFFICES ASSUME CallInv, [Next]_vars PROVE CallInv'
  OBVIOUS
<1>1. WaitInv'
  BY WaitNext DEF CallInv
<1>2. MoreTypes' /\ NotReturned' /\ BusyHasOwn' /\ EndedIsAnswered'
  BY MoreTypesNext, NotReturnedNext, BusyNext, EndedIsAnsweredNext DEF CallInv, WaitInv, EventInv
<1> QED BY <1>1, <1>2, PostsNext, PostedIsEndedNext, WokenIsEndedNext, ListedIsLiveNext,
           ReturnsOwnAnswerNext DEF CallInv

LEMMA CallInit == Init => CallInv
<1> SUFFICES ASSUME Init PROVE CallInv
  OBVIOUS
<1> USE ValuesAssumption DEF Init
<1>1. MoreTypes /\ NotReturned
  BY DEF MoreTypes, NotReturned, Trans
<1>2. BusyHasOwn /\ EndedIsAnswered /\ PostedIsEnded /\ WokenIsEnded
  BY DEF BusyHasOwn, Idle, EndedIsAnswered, PostedIsEnded, OwnsSem, WokenIsEnded
<1>3. PostsReachTheirCall /\ ListedIsLive /\ ReturnsOwnAnswer
  BY DEF PostsReachTheirCall, CallbackPending, Idle, ListedIsLive, ReturnsOwnAnswer
<1> QED BY <1>1, <1>2, <1>3, WaitInit DEF CallInv

\* A pending callback posts the semaphore of the call that waits for it, once.
THEOREM PostsAreOwn == Spec => []PostsReachTheirCall
<1>1. CallInv => PostsReachTheirCall
  BY DEF CallInv
<1> QED BY <1>1, CallInit, CallNext, PTL DEF Spec

\* What is linked in the list is allocated, until its timeout is reported.
THEOREM ListedAreLive == Spec => []ListedIsLive
<1>1. CallInv => ListedIsLive
  BY DEF CallInv
<1> QED BY <1>1, CallInit, CallNext, PTL DEF Spec

\* AAASendRecvMessage() returns the answer to its own request, or NULL after a timeout.
THEOREM CallsReturnOwnAnswer == Spec => []ReturnsOwnAnswer
<1>1. CallInv => ReturnsOwnAnswer
  BY DEF CallInv
<1> QED BY <1>1, CallInit, CallNext, PTL DEF Spec

-----------------------------------------------------------------------------

\* Every post counts an event, and a transaction has at most one.
Ended == {t \in Trans : ended[t] > 0}

PostsAreCounted ==
  \A a \in SemAddrs : semVal[a] >= -1 /\ semVal[a] <= Cardinality(Ended)

LEMMA EndedIsFinite ==
  /\ IsFiniteSet(Ended)
  /\ Cardinality(Ended) \in Nat
  /\ Cardinality(Ended) <= Cardinality(Callers) * MaxCalls
<1>1. IsFiniteSet(1..MaxCalls) /\ Cardinality(1..MaxCalls) = MaxCalls
  BY ValuesAssumption, FS_Interval
<1>2. IsFiniteSet(Trans) /\ Cardinality(Trans) = Cardinality(Callers) * MaxCalls
  BY <1>1, CallsAssumption, FS_Product DEF Trans
<1>3. Ended \in SUBSET Trans
  BY DEF Ended
<1> QED BY <1>2, <1>3, FS_Subset, FS_CardinalityType

LEMMA PostsAreCountedNext ==
  ASSUME EventInv, PostsAreCounted, [Next]_vars PROVE PostsAreCounted'
<1>1. Types /\ Types'
  BY TypesNext DEF EventInv
<1>2. ASSUME NEW u \in Trans, CallbackPending(u), RunCallback(u)
      PROVE  PostsAreCounted'
  <2>1. ended[u] = 0
    BY <1>2, PendingIsUnended
  <2>2. Ended' = Ended \cup {u} /\ u \notin Ended
    BY <1>1, <1>2, <2>1 DEF Ended, RunCallback, Types
  <2>3. Cardinality(Ended') = Cardinality(Ended) + 1 /\ Cardinality(Ended) \in Nat
    BY <2>2, EndedIsFinite, FS_AddElement
  <2>4. ASSUME NEW a \in SemAddrs PROVE semVal'[a] >= semVal[a] /\ semVal'[a] <= semVal[a] + 1
    BY <1>1, <1>2 DEF RunCallback, Types
  <2> HIDE DEF Ended
  <2> QED BY <1>1, <2>3, <2>4 DEF PostsAreCounted, Types
<1>3. CASE (\E w \in Workers : AnswerCallback(w)) \/ (\E t \in scan : TimerFire(t))
  BY <1>2, <1>3, PostSteps
<1>4. ASSUME Ended' = Ended, \A a \in SemAddrs : semVal'[a] \in {semVal[a], -1, 0}
      PROVE  PostsAreCounted'
  <2>1. Cardinality(Ended) \in Nat /\ Cardinality(Ended') = Cardinality(Ended)
    BY <1>4, EndedIsFinite
  <2> QED BY <1>1, <1>4, <2>1 DEF PostsAreCounted, Types
<1>5. ASSUME ~(\E w \in Workers : AnswerCallback(w)), ~(\E t \in scan : TimerFire(t))
      PROVE  Ended' = Ended /\ \A a \in SemAddrs : semVal'[a] \in {semVal[a], -1, 0}
  <2>1. UNCHANGED ended
    BY <1>5, Writers DEF SetAnswer
  <2>2. ASSUME NEW a \in SemAddrs PROVE semVal'[a] \in {semVal[a], -1, 0}
    BY <1>1, <1>5, Writers DEF AddTrans, SendFails, Wake, semVars, Types
  <2> QED BY <2>1, <2>2 DEF Ended
<1> QED BY <1>3, <1>4, <1>5

\* Every variable keeps its type; a semaphore is posted at most once per call.
THEOREM TypesHold == Spec => []TypeOK
<1>1. Init => PostsAreCounted
  <2> SUFFICES ASSUME Init PROVE PostsAreCounted
    OBVIOUS
  <2>1. Cardinality(Ended) \in Nat
    BY EndedIsFinite
  <2> QED BY <2>1 DEF Init, PostsAreCounted
<1>2. CallInv /\ PostsAreCounted /\ [Next]_vars => PostsAreCounted'
  BY PostsAreCountedNext DEF CallInv, WaitInv
<1>3. CallInv /\ PostsAreCounted => TypeOK
  <2> SUFFICES ASSUME CallInv, PostsAreCounted PROVE TypeOK
    OBVIOUS
  <2>1. Types /\ MoreTypes
    BY DEF CallInv, WaitInv, EventInv
  <2>2. semVal \in [SemAddrs -> -1..(Cardinality(Callers) * MaxCalls)]
    <3>1. /\ Cardinality(Ended) \in Nat /\ Cardinality(Callers) * MaxCalls \in Int
          /\ Cardinality(Ended) <= Cardinality(Callers) * MaxCalls
      BY EndedIsFinite, CallsAssumption, ValuesAssumption, FS_CardinalityType
    <3> DEFINE bound == Cardinality(Callers) * MaxCalls
    <3> HIDE DEF bound
    <3>2. \A a \in SemAddrs : semVal[a] \in -1..bound
      BY <2>1, <3>1 DEF PostsAreCounted, Types, bound
    <3>3. semVal \in [SemAddrs -> -1..bound]
      BY <2>1, <3>2 DEF Types
    <3> QED BY <3>3 DEF bound
  <2> QED BY <2>1, <2>2 DEF Types, MoreTypes, TypeOK
<1> QED BY <1>1, <1>2, <1>3, CallInit, CallNext, PTL DEF Spec
=============================================================================
