# Verification of the Diameter peer, the policy control and the registrar of the SER IMS core

The repository is a mobile network test bed: an OpenIMSCore built from source,
Kamailio and Open5GS built elsewhere and configured here, a SIP client and an
eNodeB. The only programs whose logic lives in it are the IMS modules of SER under
`src/openimscore/ser_ims/ser_ims_modified/ser_ims/modules/`. Three of their parts keep
state that several forked processes change over shared memory and locks, which is what
a unit test reaches least and a model checker reaches best, and these are modelled:

- `cdp`, the Diameter peer through which every other module talks to the home
  subscriber server, the policy server and the charging functions: its task queue, its
  transactions, its peers;
- the Rx sessions of `pcscf`, over the session table and the state machine of `cdp`;
- the registrar of `scscf`, and the NOTIFYs of its subscribers.

Paths below are relative to `modules/` unless they start with `src/`.

## Inventory

| part | state | operations | what makes it correct |
| --- | --- | --- | --- |
| `cdp/worker.c` | ring of tasks, its lock, two semaphores | `put_task`, `take_task`, `worker_process`, `worker_poison_queue`, `worker_destroy` | bounded FIFO; nobody sleeps while there is work or room; workers stop |
| `cdp/transaction.c`, `diameter_comm.c`, `api_process.c` | list of transactions, a semaphore per blocked caller | `AAASendMessage`, `AAASendRecvMessage`, `api_callback`, `cdp_trans_timer` | one event per transaction; a blocked caller returns its answer or a timeout; memory is not used after it was freed |
| `cdp/peerstatemachine.c`, `receiver.c`, `peermanager.c`, `peer.c`, `tcp_accept.c` | `peer` (state, two sockets, kept CER, pipe), serviced peers and descriptors of each process | `sm_process`, `receive_loop`, `peer_connect`, `peer_send`, `peer_timer` | the state agrees with the connections; elections leave one; losses are noticed; no state waits for ever |
| `cdp/routing.c` | routing table (read only) | `get_routing_peer` | the first connected peer by host, realm, default, metric and application |
| `cdp/session.c`, `authstatemachine.c` | hash table of sessions with a lock per row | create, get, drop, client and server machines, `cdp_sessions_timer` | a row is unlocked once by whoever locked it; a session is not used after it was dropped |
| `cdp/timer.c` | list of timers | `add_timer`, `timer_loop` | every timer in the list is reached and fires |
| `cdp/diameter_peer.c` | children, `*shutdownx` | start, destroy | every process stops |
| `cdp/diameter_msg.c`, `diameter_avp.c`, `config*.c`, `cdp_avp` | none | encode, decode, read configuration | round trips |
| `scscf/registrar*.c` | hash table of public identities, contacts, subscribers, shared profiles | REGISTER, de-registration, SUBSCRIBE, timer | implicit sets are registered as one; no identity twice; no lock left or taken in a cycle |
| `scscf/registrar_notify.c` | list of NOTIFYs | `S_event_reg`, `notification_timer` | a subscriber sees the events in order |
| `scscf/dlg_state.c`, `release_call.c` | hash table of dialogs | save, update, drop, timer | limits on dialogs; no dialog used after it was dropped |
| `scscf/registration.c`, `cx*.c` | vectors of users, per slot | challenge, `MAR`, `SAR` | a vector is used once |
| `pcscf` | contacts, subscriptions, dialogs, the Rx session of each dialog | `P_AAR`, `P_STR`, `P_drop_dialog`, `dialog_timer`, `PCC_ASA`, `PCC_RAA`, the callback of a session | a dialog names a session that is there; a session that ends ends its dialog, and the other way round; every session is ended at the PCRF |
| `icscf` | list of S-CSCFs of a transaction | `UAR`, `LIR` | the list lives as long as its transaction |
| `isc` | none | filter criteria | criteria in order of priority |
| `ecscf`, `lrf`, `mgcf`, `Client_Rf`, `sms` | dialogs, queries, charging sessions | - | - |
| SER core, `tm`, `usrloc`, `registrar`, ... | a third party's SIP server | - | - |
| `src/kamailio_docker`, `src/open5gs`, `src/sip_client`, `src/uhd_enb`, `src/openimscore/{dns,fhoss}` | configuration, database dumps, scenarios | - | - |

How the parts interact. SIP processes of SER (children of the core) call into `scscf`,
`pcscf` or `icscf` and these into `cdp/diameter_comm.c`, which blocks them on a
semaphore. A dialog of the P-CSCF and a session of `cdp` name each other: the dialog's
`pcc_session_id` and the session's `generic_data`, each read under the lock of the one and used
under that of the other. A request goes out through `sm_process(p, Send_Message)`, which pushes a
pointer into the named pipe of the process that owns the peer's socket, its
*receiver*: one process for each configured peer, forked at start, and one more for
connections of unknown origin, which the *acceptor* passes on. A receiver turns bytes
into messages and messages into events of the peer's machine; those that are for an
application it puts into the task queue, from which one of the *workers* takes them
and calls `api_callback`, which finds the transaction and posts the caller. The
*timer* process walks peers, transactions and sessions once a second. Everything
shared is in SER's shared memory under spin locks; a descriptor is a number in one
process's table and is passed through a pipe.

What is hard in it: three or four processes act on one peer, and only part of what
they do is under its lock; its sockets are numbers which mean something in one process
only; a connection changes its reader while it is in use; both sides may connect at
the same time; answers race timeouts for memory that is freed by whoever comes second;
two semaphores must wake exactly the sleepers of a ring; shutdown must wake everyone. In
the CSCFs locks of four kinds are taken inside each other in different orders by calls,
by callbacks and by timers; what a lock protected is used after it was let go; a set of
identities is registered, refreshed and removed one slot at a time by processes that do
not know of each other; a message is sent about a dialog that others may free.
`PROJECT.json` lists these hazards at their lines with the properties that watch them,
and those no property watches yet with the reason.

## Modules

| module | models | from |
| --- | --- | --- |
| `CdpTaskFifo` | a bounded FIFO from receivers to workers: what the queue promises | the use made of `put_task()` and `take_task()` |
| `CdpTaskQueue` | the ring, its lock and semaphores, workers, shutdown | `cdp/worker.c`, `diameter_peer.c:486-505` |
| `CdpTaskQueue_proofs` | theorems of the above | |
| `CdpTransaction` | the list, callers, workers, timer | `cdp/transaction.c`, `diameter_comm.c`, `api_process.c:107-119` |
| `CdpTransaction_proofs` | theorems of the above | |
| `CdpPeer` | a peer, its two receivers, the timer, senders, the remote peer | `cdp/peerstatemachine.c`, `receiver.c`, `peermanager.c:271-331` |
| `CdpPeer_proofs` | theorems of the above: types, elections, roles, sockets | |
| `CdpPeerPrompt_proofs` | theorems of the above where receivers are prompt: which connection the peer is open on | |
| `PcscfPcc` | the Rx sessions of calls: SIP processes, dialog timer, receiver, worker, session timer, the PCRF | `pcscf/pcc.c`, `dlg_state.c`, `policy_control.c`, `cdp/session.c`, `authstatemachine.c` |
| `PcscfPcc_proofs` | theorems of the above: types, links, rows | |
| `PcscfPccCalls_proofs` | theorems of the above: the order of the locks, what calls find, who is sent an STR | |
| `ScscfRegistrar` | the table of public identities, walks over an implicit set, the registrar's timer | `scscf/registrar.c`, `registrar_storage.c` |
| `ScscfRegistrar_proofs` | theorems of the above | |
| `ScscfNotify` | subscribers, their dialogs and the list of NOTIFYs | `scscf/registrar_notify.c`, `registrar.c` |
| `ScscfNotify_proofs` | theorems of the above | |
| `MC*` | values of constants for TLC | |

Conventions. A variable has the name of the field it models where there is one. An
action is what a process does between two points where others can interfere: a
critical section that touches only what its lock guards is one step; where the code
touches shared state outside the lock that others use it under, the section is split.
An action or a helper whose comment starts with *Fault* is not part of any
specification: it is the mistake a property is there to catch, and the runs named
under `mutants` in `PROJECT.json` put it in the place of the real one.

### `CdpTaskQueue`

`lock`, `start`, `end`, `queue`, `empty` and `full` are the fields of `tasks`; `pc`
is where each process is. `put_task()` is `PutLock`, `PutTest`, `PutStore` and
`PutPublish`, with the detour `PutFull`, `PutWait`, `PutRetry` when the ring is full;
`take_task()` is the same on the other side. The sections are split at every access
to the ring although the lock covers them, so that the lock, not the grain of the
model, is what keeps the ends consistent. `Shutdown` raises `*shutdownx` and posts
`tasks->empty` once per worker. `Destroy` comes after every child was waited for.
Counts of semaphores are natural numbers. A task is the message's receiver and number.

### `CdpTransaction`

A transaction is named by the call that made it. `mem` is whether its chunk of shared
memory is allocated, `list` the transactions linked in `trans_list` (a set: their order
decides only which times out first); `sem` and `semVal` are the semaphores, by
address, since addresses are given out again. A blocking call is `Call` (the state of
the peer is read without its lock), `AddTrans`, `Send` or `SendFails`, `Wake`,
`Return`. A worker takes a transaction off the list under the list's lock and does the
rest (`SetAnswer`, `AnswerCallback`, `AutoDrop`) without it. The timer keeps the lock
through the whole list: `scan` is what it has yet to look at and `fired` the transaction
whose timeout it has reported and not unlinked; the lock is free when `scan` is empty. `Garbage` is what uninitialised memory holds. `Crash` is one
outcome of using freed memory; the other, that the content is still there, is what the
actions otherwise do.

### `CdpPeer`

`p` is the shared structure. `fd` is the table of descriptors of each process: T, the
timer; D, the peer's own receiver; U, the receiver of unknown connections. `sp` are the
serviced peers, one of D's and one of U's for each connection. `ev` is the event a
receiver has made out of what it read, before `sm_process()` has the lock: the choice of the
event is made on `p->state` read without it. `xfer` is the pipe by which
descriptors reach D. `lock` says who keeps `p->lock` between two steps: T while it
connects (`Start`, then `ConnectFails` or `Connects` and `StartReturns`), because the
receiver of a descriptor does not ask for the lock, and U between the CEA and the state
that follows it (`CEASent`), for the same reason. The helpers `Cleanup`, `I_Disc`,
`R_Disc`, `PeerDisc`, `SndCEA` take the peer and the tables and give back what the C
functions of that name leave, for the process that runs them.

The remote peer dials, closes, answers well or badly, or keeps silent, at any time.
Messages that do nothing to the peer but refresh its activity are `ReceiveOther`;
requests of other processes are `SendMessage`. Time is the flag `due`: the peer's last
activity is `tc` seconds old. It may be raised at any time, or, with `Prompt`, only
when no receiver has an event in hand: `tc` is 30 seconds in every configuration of
the repository and an event takes milliseconds.

Left out: the pipe's capacity (a receiver empties it whenever it runs, and what was
queued for a connection leaves on it); `Stop`, which no code fires, and `Closing`, which is entered
by it only; peers created while running (`accept_unknown_peers` is 0 or the peer is
configured in the files of the repository); a second CER on a connection that is open;
applications and vendors, of which `Process_CER()` only says yes or no.

### `PcscfPcc`

`state`, `owner` (the dialog that `generic_data` names), `data` (whether there is
`generic_data`) and `due` (lifetime or timeout is over) are of a session; `live` and `link` are the
table of dialogs and their `pcc_session_id`. `lock` holds all locks: slots of dialogs, rows of
sessions, the peer. `lock_release()` does not ask who holds a lock, so `Unlock` frees it whoever
does. `pc`, `at` and `on` are where a process is, with which session, for which dialog; a step is what
it does between two requests for a lock. `Target`, `EndsService`, `CleansUp` and `UpdatesTimers` are
the client's statefull machine; `Process` is one event of it and `Callback` is
`callback_for_pccsession()`.

A call of `P_AAR()` is `Begin`, `GetDialog`, then `CreateSession` or `FindSession` under the slot, `BuildAAR`
under the row, `GetPeer` and `SendAAR` under the peer and the row together, and a wait for the
answer that ends with `RcvAAA` or `AnswerTimesOut`; a refusal goes on to `ReleaseOnReply`.
`P_STR()`, `P_drop_dialog()` and the dialog timer end in `PCC_STR` or `terminate_pcc_session`.
The receiver runs the machine on what the PCRF sends (`Receive`, `RcvAAA`, `RcvSTA` and `CleanUp`,
`RcvRequest`), the worker answers ASR and RAR (`TakeTask`, `GetRequested`, `pcc_data_release_safe`,
`AnswerNotSent`), the session timer walks a row (`StartScan`, `Visit`, `VisitExpired`, `VisitFreed`,
`EndScan`). The PCRF answers in any order, and may ask to end a session it has authorised.

There are four specifications: `Spec`; `FairSpec` with fairness; `TimedSpec` with time and the
session timer; `FaultySpec` with requests that cannot be built too (`BuildFails`, `Discard`).

Left out: sessions of registrations and the choice of a peer in `PCC_AAR()`; server and
accounting sessions; the content of the AVPs; RARs that do not end a session.

### `ScscfRegistrar`

`r_public` is the content of each chunk of memory, `slot` the list of each slot, `SlotOf` what the hash of
the identities gives, any of `Hashes`: two identities may or may not share a slot. `ref_count` is of a
profile, which is freed when it falls to zero. Contacts are one per device and are absent, valid
or expired; `shead` is a subscriber, or none. A registration and a call to an unregistered user go through the
implicit set one slot at a time (`UpdateFound`, `UpdateMissing`, `AddPublic`): `add_r_public()` links
what it is given although the slot was free in between. Refresh, de-registration
and SUBSCRIBE keep the slot of the identity they were asked for (`UpdateOwn`, then the steps that
start with `Set`, `Finish`), and so does the timer (`TimerPublic`, `TimerSAR`, `TimerSet`,
`TimerLast`), which also keeps the next identity of the slot, `pn`, across all of it. `CanLockToo` is
`get_r_public_previous_lock()`. `SetDeregister` gives an identity any state: the code passes a
variable it has not set. The HSS answers, with or without a profile, or refuses.

### `ScscfNotify`

`list` is `notification_list`; a NOTIFY is its dialog, its version and its subscription's state.
What happens to an identity makes one for each subscriber, with the identity's slot held (`Event`,
`CreateNotification`, `Created`). `notification_timer()` is `Pop`, `SendNotification` and `Drained`: the list
is unlocked while a NOTIFY is sent, so several processes may have one in `hand`. An unsubscription and an
expired contact send before they free the dialog (`SendsNow`, `DropSubscriber`, `DropContact`);
a subscription that runs out by itself is dropped without one (`DropSubscribers`).

## Runs

| run | module | what it checks | size |
| --- | --- | --- | --- |
| `CdpTaskQueue_safety` | `MCCdpTaskQueue` | types, consistency of the ring, no wake-up lost, refinement of `CdpTaskFifo` | 2 receivers of 2 messages, 2 workers, 3 slots |
| `CdpTaskQueue_liveness` | `MCCdpTaskQueue` | accepted tasks run, `put_task` returns, workers stop | the same with 1 message and 2 slots |
| `CdpTransaction_calls` | `MCCdpTransaction` | own answer or timeout, posts reach their call, one event per transaction, no waiter forgotten, calls return, what is listed is allocated | 2 callers of one call each, 2 workers, both kinds of calls, duplicated answers, a peer that comes and goes |
| `CdpTransaction_early_return` | `MCCdpTransaction` | **violated**: a blocking call returns only on its answer or timeout | 2 callers of 2 calls |
| `CdpPeer_safety` | `MCCdpPeer` | the six safety properties of the peer | 3 connections, either side dials |
| `CdpPeer_hasty` | `MCCdpPeer` | election and roles, losses noticed, waiting states end | 2 connections, receivers slower than the timer |
| `CdpPeer_loaded` | `MCCdpPeer` | **violated**: a peer whose connections are lost leaves the open states | this node dials, requests are sent steadily |
| `CdpPeer_pipe` | `MCCdpPeer` | **violated**: an open peer has a send pipe | the remote peer dials twice |
| `PcscfPcc_calls` | `MCPcscfPcc` | dialogs and sessions agree, rows are held where sessions are used, every ended session has its STR, only releases wait in a circle, ended sessions are freed | 2 SIP processes, the dialog timer, 1 dialog, 2 sessions in one row, 3 calls, 2 messages in flight |
| `PcscfPcc_timeout` | `MCPcscfPcc` | **violated**: a row is held where its sessions are used | the same with the session timer |
| `ScscfRegistrar_sets` | `MCScscfRegistrar` | profiles are counted, what is held stays, registered identities have a profile, expired ones are removed | 2 SIP processes, an implicit set of 2, every layout of 2 slots, 2 requests of every kind |
| `ScscfNotify_list` | `MCScscfNotify` | every NOTIFY once and in order, none queued for what is dropped | 2 SIP processes and the timer, 2 identities, 1 device, 2 dialogs, 4 requests |

Bounds. Two receivers and two workers are the least with a contender on each side of
the ring, and the ring of three slots (two usable) with four messages is full, empty
and wrapped in turn; the ring of two (one usable) with two messages makes a receiver wait in the
run for liveness. Two callers suffice for one to get another's semaphore, and a second call
of each, in `CdpTransaction_early_return`, for the chunk to be given again; two copies of an answer are one that matches
and one that comes late. With three connections a peer has an open one, one it is
dialling or was handed over, and one more that interferes; with five descriptor numbers no
process runs out of them (`FreeSocks`: more numbers give the same number of states). Every
process may have every number (`Alike`), as processes forked from one do: two tables then hold the same
number for different connections, and what one process does with its own number looks to
the shared peer like the other's. The runs' properties hold all the same;
`ConnectedAsInitiator` does not, see below.

In `PcscfPcc_calls` two SIP processes, the receiver, the worker and the dialog timer meet on one dialog; the
second session is the one that the dialog gets after it lost the first, while processes
still have the first in hand, and it shares its row with it. Two requests in flight let an answer and
an ASR cross. The PCRF refuses only first requests there (`Rejects`), see below. In `ScscfRegistrar_sets` two identities are the least set, in one
slot or in two; four chunks let each identity be there twice; two profiles let an old one be replaced and
one be freed under a walk; two requests and the timer are three walks at once. In `ScscfNotify_list` the two subscribers may be
of one identity's event or of two, and four requests let one unsubscribe, subscribe again and be
notified of what the other does, with three processes that send from the list.

Deadlock is checked for the peer. It is not for the queue, where receivers have read
all their messages and workers wait for more, nor for the other runs, where all calls have
been made, processes may wait for each other for ever, or the use of freed memory stops
the model; those that could hide a failure behind such a stop name it in the property
(`Stuck`, `Crossed`, `crashed`).

Fairness. Each process is scheduled: weak fairness of every receiver, worker, caller
and of the timer. A semaphore wakes one of its sleepers, and none is promised a turn
if another keeps taking it; weak fairness is enough because the number of messages is
bounded. Time passes (`TimePasses`, `Expire`). Nothing is assumed of the network or of
the remote peer: messages, answers and closes need not come. In `PcscfPcc` every process that has begun
something goes on, and the PCRF answers what it was sent (weak fairness of `Answer`): `DisconEnds` is about an STR
that is answered, and when it is not the session waits for its timeout, which is the timer's. In `ScscfRegistrar` the
processes go on, and the HSS does not refuse the timer's SAR every time (strong fairness of
`TimerSAR`): a refused one is asked again on the next round.

## What the runs show

Holds, and would be hard to test: the ring implements a FIFO at the grain of single
accesses, its two semaphores lose no wake-up although each is posted on every
operation and `full` starts at 1; one poison per worker stops them all. A transaction ends
once, whatever the order of answer, duplicate and timeout, and a caller returns even
when the peer is lost while its request is on the way. An answer of an earlier attempt
opens nothing; a lost event of the peer's machine delays it by one period and no more.

The name of a session that a dialog keeps under its slot is always that of a session in the table,
although sessions are freed under the lock of their row (`LinkedIsLive`): the callback, which takes the slot with the row
held, is what makes it so, and it is also the only place where locks are taken against their order
(`OnlyReleasesCross`). A session in DISCON was sent an STR and is freed when the STA comes. Profiles shared by an implicit set
are counted right on every path of the registrar, also where identities are found twice; what a walk keeps is not
deleted under it; expired identities go, unless two walks have crossed. Of several
processes that send NOTIFYs at once each takes its own, from the front, and none queued is left about what is dropped.

Does not hold, and is listed as a finding: a refused request leaves a transaction
behind that later wakes a stranger (`BlocksUntilEvent`); a peer that is sent requests
steadily is never found dead (`LostNoticed` in `CdpPeer_loaded`; it holds in
`CdpPeer_hasty`, without such traffic); a refused connection takes the send pipe of an
open peer (`OpenHasPipe`); the session timer goes on through a row that was unlocked by the
session it visited (`HoldsWhatItUses` in `PcscfPcc_timeout`).

Stated in the modules for the reader and refuted by the same configurations with the
property exchanged, without a run of their own:

- `TimerUsesLiveMemory` (`CdpTransaction`): the timer reads `x->next` after the callback
  has let the owner free `x`.
- `AnswersReachUsers` (`CdpTransaction`): an answer that comes late is freed by nobody.
- `InitiatorHasSocket` (`CdpPeer`, `RemoteDials = FALSE`): `p->I_sock` of an open initiator is
  the timer's number for the connection, not the receiver's.
- `LoserWaitsForCEA` (`CdpPeer`): a lost election closes the initiated connection.
- `OneReader` (`CdpPeer`): after some elections two receivers read one connection.
- `OpenHasSocket` (`CdpPeer`): `R_Open` is set although the CEA could not be sent.
- `ConnectedAsInitiator` (`CdpPeer`, `Prompt = FALSE`): when the receiver of unknown connections loses one in
  `Wait_Returns` whose number is that of `p->I_sock` in another table, it disconnects the initiator too and leaves the
  peer in `Wait_I_CEA`, where the CEA then opens it without a socket (`receiver.c:239`). It holds,
  and is proved, when the numbers are apart.
- `ClosedReleases` (`CdpPeer`): descriptors of a closed peer stay open in other processes.
- `InTableOnce` (`ScscfRegistrar`): two registrations that do not find an identity both add it; the
  second is never found (`registrar_storage.c:1194`, against the comment at 1122).
- `SendsOnLiveDialog` (`ScscfNotify`): the dialog of a NOTIFY in another's hand, or in the list when a
  subscription runs out by itself, is freed before the NOTIFY is sent.

Seen in the same models, without a property of their own:

- A walk of a set that keeps one slot and a second one that keeps another wait for each other (`Crossed`).
- The identity that the timer will visit next is freed if it is of the set that the timer
  removes and in the same slot (`registrar.c:150`; `crashed = "next"`).
- The profile of a registration is freed while the registration reads it, if every identity that took it so far is removed
  (`registrar.c:854`); a refresh or de-registration that finds an identity missing, and a SUBSCRIBE that loses against a removal, use a
  profile there is none of (`crashed = "profile"`).
- A call to an unregistered user that races its registration leaves the identity UNREGISTERED with valid contacts.
- NOTIFYs of one subscription overtake each other between two processes.
- A refused AAR on an open session leaves it in DISCON with no STR sent, which is why `Rejects` is
  `{"PENDING"}` in the run (`authstatemachine.c`, `pcc.c`: the release on the reply does not end the session).
- A RAR that ends a session is answered with the row held, and the sender asks for the row again (`Stuck`).
- An ASR for a session whose dialog was deleted uses a null dialog (`pcc.c:1251`; `crashed = "dialog"`).
- An AAR that cannot be built unlocks its row twice (`pcc.c:912-927`; only in `FaultySpec`).

## What is proved

In `CdpTaskQueue_proofs`, for any finite sets of receivers and workers and any length
of the ring, from the assumptions `ProcsAssumption` and `QueueAssumption` of
`CdpTaskQueue`:

- `TypeCorrect`: `Spec => []TypeOK`.
- `RingIsConsistent`: `Spec => []RingConsistent`.
- `NoTaskWakeupLost`, `NoSpaceWakeupLost`: `Spec => []NoLostTaskWakeup`, `[]NoLostSpaceWakeup`.
- `QueueIsFifo`: `Spec => ImplementsFifo`, the refinement of `CdpTaskFifo`.

The inductive invariant is `QueueInv`. `RingConsistent` alone is not inductive: that a
store does not overwrite a task needs `RoomToPut`, that the test made under the lock is
still true when the slot is written, and this needs `LockHeld`, that whoever is between the
test and the release is who holds the lock, so nobody else moved an end. The
wake-up invariants count: `CountStep` relates the ends of the ring to the number of
tasks modulo the length, `ActiveStep` the change of one program counter to the
cardinality of the set of processes about to look, and each step of `Next` moves the two sides of
the inequality together. The refinement takes the tasks between the ends of the ring, in order, for the
abstract queue (`PendingIs`): the steps that advance an end are `Accept` and `Begin`, and every other step
leaves that sequence alone, because `QueueInv` says which slots lie between the ends and who may write them.

In `CdpTransaction_proofs`, for any finite set of callers, any workers, any numbers of calls,
answers and semaphores, and whether or not the peer may close, from `CallsAssumption` and
`ValuesAssumption` of `CdpTransaction`:

- `TypesHold`: `Spec => []TypeOK`; that a semaphore never counts more than the posts there can be takes a
  count of its own (`PostsAreCounted`).
- `EndsOnOneEvent`: `Spec => []OneEvent`.
- `WaitersAreTracked`: `Spec => []WaiterIsTracked`.
- `PostsAreOwn`, `ListedAreLive`, `CallsReturnOwnAnswer`: `Spec => []PostsReachTheirCall`, `[]ListedIsLive`,
  `[]ReturnsOwnAnswer`.

`OneEvent` follows from `EventInv`: a transaction in the list has had no event, or is the one
the timer has just reported (`ListedUnended`); what a worker holds it took off the list,
alone, before any event (`HeldAlone`); a transaction not made yet is nowhere
(`FreshIsNowhere`, without which linking it could bring back an event). `WaitInv` adds
that the semaphore of a call is allocated and its own (`SemsAreOwn`): a stale post can only
add to a semaphore, and no other call can free one that is waited on. It carries
`WaiterIsTracked` back to the moment the transaction is linked (`OwnerIsTracked`), since its
timeout may be reported before the caller gets to wait. The last three speak of executions in which
no request has been refused (the finding `BlocksUntilEvent` is what a refusal does); `CallInv` follows
one call through its life there: a post for it is made after its event (`PostedIsEnded`), which comes
after its answer or timeout was stored (`EndedIsAnswered`), it is woken by that post only
(`WokenIsEnded`), and until it is, nobody frees its chunk or its semaphore.

In `PcscfPcc_proofs`, for any processes, dialogs, rows, numbers of sessions, calls and messages, from
`PccAssumption` of `PcscfPcc`:

- `TypesAreOK`: `FaultySpec => []TypeOK`.
- `LinkedSessionsAreLive`: `FaultySpec => []LinkedIsLive`, with the session timer and the requests that cannot be built,
  which the run leaves out; `CallsKeepLinks` is the same for `FairSpec`.
- `WorkersHoldTheirSession`: `FairSpec => []HoldsWhatItUses`. With the timer it is false, as `PcscfPcc_timeout` shows.

The inductive invariant is `Inv`. `LinkedIsLive` needs to know that a dialog that is gone names nothing
(`LinkedAlive`), or the callback, which looks for a dialog in the table, would leave a name behind; and that a call
that has the slot keeps it, and the dialog in the table, until it has the row (`SlotHeld`), so that
nobody deletes the dialog a session is just created for. `LocTypes` says what a process has at each place. `CallbackUnlinks` is the
heart: a session that is freed after its callback is named by no dialog. `Held` adds the rows: whoever frees a
session has its row, so it is not the one another works on.

In `PcscfPccCalls_proofs`, from the same assumption:

- `LocksAreOrdered`: `FairSpec => []OnlyReleasesCross`.
- `CallsFindSessions`: `FairSpec => []CallsFindTheirSession`.
- `EndedSessionsWereSentSTR`: `FaultySpec => []DisconMeansStrSent` if `Rejects \subseteq {"PENDING"}`, that the PCRF refuses
  no session it has granted. The hypothesis is about the PCRF; the code does not need it for anything else, and
  without it the property is false (see above).

`Holding` says where a process may be that holds a lock, and `WaitsInOrder` what it waits for there; a slot's holder waits for the peer
or a row, the peer's for a row, and a row's for nothing unless it is at a release. `Stuck` is stated as a set
of processes each of which waits for a lock that one in the set holds, so that a circle of any length is refuted by these
three steps. `Finding` adds that the session a call took from its dialog is still that dialog's (`SlotKeeps`): its clean up
would need the slot that the call holds. `EndInv` follows the answers: a session is open only if it was granted
(`Grants`), and a refusal on its way was sent before any grant of its session, which comes behind it (`RefusedBefore`).

In `ScscfRegistrar_proofs`, for any identities, hash, processes, chunks, profiles, requests and devices, from
`RegistrarAssumption`:

- `TypesHold`: `Spec => []TypeOK`.
- `ProfilesAreCounted`: `Spec => []RefsCounted`.
- `HeldStaysLinked`: `Spec => []HeldIsLive`.
- `RegisteredRefer`: `Spec => []RegisteredHasProfile`.

`RegistrarInv` is `TableInv` and `WalkInv`. The table: an identity is in the list of the slot it hashes to
(`SlotsRight`), one just made is in none and in one process's hand (`MadeApart`), a registered identity refers to
a profile in use (`ReferIfUsed`), and the references are counted (`Counted`): each step changes the set of those who
refer to a profile by one element, and the count by one. The walks: what a process has at each stage (`SipStages`,
`TimerStages`), that it keeps the slot of what it holds (`Held`, `TimerHolds`), so nobody else removes it.

In `ScscfNotify_proofs`, for any processes, identities, devices, dialogs and numbers of requests, from `NotifyAssumption`:

- `TypesHold`: `Spec => []TypeOK`.
- `NotifiesAreSentOnce`: `Spec => []OnceAndInOrder`.
- `DropsNothingQueued`: `Spec => []NoneQueuedWhenDropped`.

`NotifyInv` says where every NOTIFY that was made is, and in one place (`AllOnce`); that a version is given once, so the
one just made is nowhere yet (`NotifiesWereMade`); that behind one of a dialog all later ones are queued (`LastOnesQueued`); and
that, once the list was drained under the identity's slot, none of the dialogs to be dropped is in it, nor can be
made (`NoneQueued`).

In `CdpPeer_proofs`, for any number of connections and any descriptor numbers of each process, from `PeerAssumption`:

- `TypesHold`: `Spec => []TypeOK`.
- `ElectionsHaveCER`, `RolesAreOne`: `Spec => []ElectionHasCER`, `[]OneRole`.
- `AcksCome`, `ReceiversHaveSocket`: `Spec => []AckComes`, `[]ReceiverHasSocket`.
- `InitiatorsAreConnected`: `Spec => []ConnectedAsInitiator` if `Apart`, that no number is both U's and
  another process's. The hypothesis is not one the code provides: the theorem says that the coincidence of numbers
  is the only thing that breaks the property.

`PeerInv` is what holds whatever the numbers and however late the receivers. A process has descriptors of its own
numbers, of connections that were made (`TablesOwn`); a serviced peer's socket is its owner's (`SlotsOwn`); each event is
one its receiver can have made (`EventsOwn`). `LockState` says in which state the peer is while T or U keeps the
lock between two steps, and `Roles` when it has an initiated socket: U answers a CER only after it gave
that up, and nothing gives it back before `CEASent`. `OnlyUs` and `OnlyThem` are what is true while one side dials
alone: without the first a peer could await an acknowledgement that was spent, without the second the
hand-over could leave the socket to nobody. `InitiatorsAreConnected` adds that an initiated connection
is passed to D once and before anything was sent on it (`HandedOver`), so a CEA comes on a connection the peer
still has (`Initiator`). Each helper that returns a peer and a table has a lemma that says what it may change,
and each action one built from these; the invariants use those lemmas only.

In `CdpPeerPrompt_proofs`, from `PeerAssumption` and `Prompt`, which is the assumption of the run `CdpPeer_safety` too (a
receiver that is later than the watchdog's period may hand over an attempt's connection in the next attempt):

- `OpensByNewest`: `Spec => []OpenedByNewest`.
- `AcksAreForOurs`: `Spec => []AckIsForOurs`.
- `ClosedHaveNoSocket`: `Spec => []ClosedHasNoSocket`.

`PromptInv` follows a connection from `Connects` to the open peer. Nothing of an attempt is left when the timer begins
the next (`NotDue`, `Dialling`), so the new connection, newest because they are opened in order (`InOrder`), is all
there is in the pipe (`InPipe`); D takes it, keeps it until it has reported the acknowledgement
(`AckIsNewest`), and has no other connection of this node's while the answer is awaited
(`InWait`). The answer that opens the peer is therefore one on that connection (`AnswerIsNewest`, `OpenIsNewest`).
`NoReceiver` says that D takes a descriptor for the receiver's socket only when the remote peer has dialled.

Model-checked only: liveness, which is out of this prover's reach together with ENABLED.

## Not modelled

The session machines that no module of the repository drives (server, stateless and accounting sessions), the routing
table and the timer list of `cdp`: sequential functions of data that nobody changes at the same time. Codec, AVPs and
configuration: no state. The dialogs of `scscf` and `pcscf` beyond their Rx session, the authentication vectors, the P-CSCF's own
registrar and subscriptions, `icscf`, `isc`, `mgcf`, `Client_Rf`, `ecscf`, `lrf` and `sms`: within reach, in the plan or less
urgent. SER's core, `tm` and the generic modules are a third party's program, and configurations, dumps and scenarios have no steps.
`PROJECT.json` has the reason for each.

## Plan

In the order of importance:

1. `ScscfAuth`: the vectors of a user, from the challenge to the answer, with `MAR`s that cross.
2. `ScscfDialogs`: the dialogs of both CSCFs and their timers, with the release of a call.
3. `CdpTimer` and `CdpRouting`: lists and tables as pure functions against reference
   definitions.

Runs are few and each is for a question of its own; a property of a new module joins a
run that has the constants it needs.

## How to run

    tlc -workers 2 -config CdpPeer_safety.cfg MCCdpPeer.tla
    tlapm CdpTaskQueue_proofs.tla
    tlapm CdpTransaction_proofs.tla
    tlapm CdpPeer_proofs.tla
    tlapm CdpPeerPrompt_proofs.tla
    tlapm PcscfPcc_proofs.tla
    tlapm PcscfPccCalls_proofs.tla
    tlapm ScscfRegistrar_proofs.tla
    tlapm ScscfNotify_proofs.tla

`PcscfPcc_calls` and `ScscfRegistrar_sets` take about two minutes on two cores, every other run less.
