---------------------------- MODULE ScscfNotify -----------------------------
(***************************************************************************)
(* Subscriptions to the reg event and the list of NOTIFYs about it         *)
(* (modules/scscf/registrar_notify.c, with the callers in registrar.c).    *)
(* Whatever happens to the contacts of an identity makes a NOTIFY for each *)
(* of its subscribers, with the identity's slot held; the list has a lock  *)
(* of its own, and whoever runs notification_timer() sends what is in it,  *)
(* with the list unlocked: a timer process, and every process that cannot  *)
(* leave a NOTIFY to it because it is about to free the dialog.            *)
(*                                                                         *)
(* Each device registers a contact for the identities and may subscribe.   *)
(* The identities are in slots of their own; walks over an implicit set    *)
(* are module ScscfRegistrar.                                              *)
(***************************************************************************)
EXTENDS Integers, Sequences

CONSTANTS SipProcs, Timer, \* the timer process runs registrar_timer() and notification_timer()
          Ids, Devices,
          MaxDialogs,      \* bound: dialogs of subscriptions
          MaxCalls,        \* bound: requests the SIP processes serve
          None

Procs   == SipProcs \cup {Timer}
Keys    == Ids \X Devices
Dialogs == 1..MaxDialogs
Requests == {"register", "deregister", "subscribe", "unsubscribe", "timer"}
Notifications == [dialog : Dialogs, version : Nat, state : {"active", "terminated"}]

ASSUME NotifyAssumption ==
  /\ MaxDialogs \in Nat /\ MaxCalls \in Nat /\ Timer \notin SipProcs
  /\ None \notin Procs \cup Keys \cup Dialogs \cup Requests \cup Notifications

VARIABLES slot,     \* who holds the slot of each identity
          there,    \* the identities in the table
          contact,  \* of each identity and device
          dialog,   \* of the subscriber, if there is one
          over,     \* the subscription has run out: s->expires <= time_now
          version,  \* s->version, by dialog
          live,     \* the dialogs that are allocated
          list,     \* notification_list
          hand,     \* the NOTIFY a process is sending
          sent,     \* the NOTIFYs that were sent
          pc, kind, at,
          todo,     \* the subscribers r_create_notifications() has before it
          calls,
          crashed   \* a freed dialog was used, fatally

subVars  == <<there, contact, dialog, over>>
listVars == <<version, list, hand, sent>>
procVars == <<pc, kind, at, todo>>
vars == <<slot, subVars, live, listVars, procVars, calls, crashed>>

TypeOK ==
  /\ slot \in [Ids -> Procs \cup {None}] /\ there \subseteq Ids
  /\ contact \in [Keys -> {"none", "valid", "expired"}]
  /\ dialog \in [Keys -> Dialogs \cup {None}] /\ over \in [Keys -> BOOLEAN]
  /\ version \in [Dialogs -> Nat] /\ live \subseteq Dialogs
  /\ list \in Seq(Notifications) /\ hand \in [Procs -> Notifications \cup {None}]
  /\ sent \subseteq Notifications
  /\ pc \in [Procs -> {"idle", "create", "drain", "send", "drop", "contacts"}]
  /\ kind \in [Procs -> Requests \cup {None}]
  /\ at \in [Procs -> Keys \cup {None}] /\ todo \in [Procs -> SUBSET Keys]
  /\ calls \in 0..MaxCalls /\ crashed \in BOOLEAN
  \* A subscription belongs to an identity that is there.
  /\ \A k \in Keys : k[1] \notin there => contact[k] = "none" /\ dialog[k] = None

\* Registered, and nobody has subscribed.
Init ==
  /\ slot = [id \in Ids |-> None] /\ there = Ids
  /\ contact = [k \in Keys |-> "valid"]
  /\ dialog = [k \in Keys |-> None] /\ over = [k \in Keys |-> FALSE]
  /\ version = [d \in Dialogs |-> 0] /\ live = {}
  /\ list = <<>> /\ hand = [q \in Procs |-> None] /\ sent = {}
  /\ pc = [q \in Procs |-> "idle"] /\ kind = [q \in Procs |-> None]
  /\ at = [q \in Procs |-> None] /\ todo = [q \in Procs |-> {}]
  /\ calls = 0 /\ crashed = FALSE

-----------------------------------------------------------------------------
Of(id) == {id} \X Devices
Subscribed(id) == {k \in Of(id) : dialog[k] # None}
Take(q, id) == slot[id] = None /\ slot' = [slot EXCEPT ![id] = q]
Goto(q, where) == pc' = [pc EXCEPT ![q] = where]
Done(q) ==
  /\ pc' = [pc EXCEPT ![q] = "idle"] /\ kind' = [kind EXCEPT ![q] = None]
  /\ at' = [at EXCEPT ![q] = None] /\ todo' = [todo EXCEPT ![q] = {}]

\* r_update_subscription_status(): without a valid contact every subscription of the
\* identity is over.  ran is what has run out already, now the contacts there are.
Status(id, now, ran) ==
  IF \E k \in Of(id) : now[k] = "valid" THEN ran
  ELSE [k \in Keys |-> IF k[1] = id THEN TRUE ELSE ran[k]]

\* S_event_reg() for these subscribers: what remains is to make a NOTIFY for each.
Event(q, k, what, subscribers) ==
  /\ kind' = [kind EXCEPT ![q] = what] /\ at' = [at EXCEPT ![q] = k]
  /\ todo' = [todo EXCEPT ![q] = subscribers] /\ Goto(q, "create")
  /\ UNCHANGED <<listVars, crashed>>

Begin(q) == pc[q] = "idle" /\ calls < MaxCalls /\ calls' = calls + 1

\* update_contacts_help(): a contact is added or renewed.
Register(q, k) ==
  /\ Begin(q) /\ Take(q, k[1])
  /\ there' = there \cup {k[1]} /\ contact' = [contact EXCEPT ![k] = "valid"]
  /\ Event(q, k, "register", Subscribed(k[1]))
  /\ UNCHANGED <<dialog, over, live>>

\* update_contacts(), de-registration.
Deregister(q, k) ==
  /\ Begin(q) /\ Take(q, k[1]) /\ contact[k] # "none"
  /\ contact' = [contact EXCEPT ![k] = "none"] /\ over' = Status(k[1], contact', over)
  /\ Event(q, k, "deregister", Subscribed(k[1]))
  /\ UNCHANGED <<there, dialog, live>>

\* S_subscribe(): a new subscriber has a new dialog.
Subscribe(q, k) ==
  /\ Begin(q) /\ Take(q, k[1]) /\ k[1] \in there
  /\ \/ dialog[k] # None /\ UNCHANGED <<dialog, live>>
     \/ /\ dialog[k] = None
        /\ \E d \in Dialogs : /\ version[d] = 0 /\ d \notin live
                              /\ \A e \in 1..(d - 1) : version[e] # 0 \/ e \in live
                              /\ dialog' = [dialog EXCEPT ![k] = d] /\ live' = live \cup {d}
  /\ over' = Status(k[1], contact, [over EXCEPT ![k] = FALSE])
  /\ Event(q, k, "subscribe", {k})
  /\ UNCHANGED <<there, contact>>

Unsubscribe(q, k) ==
  /\ Begin(q) /\ Take(q, k[1]) /\ dialog[k] # None
  /\ over' = [over EXCEPT ![k] = TRUE]
  /\ Event(q, k, "unsubscribe", {k})
  /\ UNCHANGED <<there, contact, dialog, live>>

\* The dialog may be dropped soon.
SendsNow(q) == kind[q] \in {"unsubscribe", "timer"}

\* r_create_notifications(): the next NOTIFY goes to the end of the list.
CreateNotification(q) ==
  /\ pc[q] = "create"
  /\ \E k \in todo[q] :
       LET d == dialog[k] IN
       /\ list' = Append(list, [dialog |-> d, version |-> version[d],
                                state |-> IF over[k] THEN "terminated" ELSE "active"])
       /\ version' = [version EXCEPT ![d] = @ + 1]
       /\ todo' = [todo EXCEPT ![q] = @ \ {k}]
  /\ UNCHANGED <<slot, subVars, live, hand, sent, pc, kind, at, calls, crashed>>

\* Fault: The subscribers stay when the identity goes.
Created_KeepsSubscribers(q) ==
  /\ pc[q] = "create" /\ todo[q] = {}
  /\ IF SendsNow(q) THEN Goto(q, "drain") /\ UNCHANGED <<slot, subVars, kind, at, todo>>
     ELSE /\ slot' = [slot EXCEPT ![at[q][1]] = None] /\ Done(q)
          /\ there' = IF \A k \in Of(at[q][1]) : contact[k] = "none" THEN there \ {at[q][1]} ELSE there
          /\ UNCHANGED <<contact, dialog, over>>
  /\ UNCHANGED <<live, listVars, calls, crashed>>

\* All are made: they are sent, or the request is done.  A last contact that is gone
\* takes the identity with it, and its subscribers without their dialogs.
Created(q) ==
  /\ pc[q] = "create" /\ todo[q] = {}
  /\ IF SendsNow(q) THEN Goto(q, "drain") /\ UNCHANGED <<slot, subVars, kind, at, todo>>
     ELSE /\ slot' = [slot EXCEPT ![at[q][1]] = None] /\ Done(q)
          /\ IF kind[q] = "deregister" /\ \A k \in Of(at[q][1]) : contact[k] = "none"
             THEN /\ there' = there \ {at[q][1]}
                  /\ dialog' = [k \in Keys |-> IF k[1] = at[q][1] THEN None ELSE dialog[k]]
                  /\ UNCHANGED <<contact, over>>
             ELSE UNCHANGED subVars
  /\ UNCHANGED <<live, listVars, calls, crashed>>

-----------------------------------------------------------------------------
(* notification_timer().                                                    *)

\* Fault: The head is taken off the list when it has been sent.
Pop_KeepsHead(q) ==
  /\ pc[q] = "drain" /\ list # <<>>
  /\ hand' = [hand EXCEPT ![q] = Head(list)] /\ Goto(q, "send")
  /\ list' = IF \E u \in Procs : hand[u] = Head(list) THEN Tail(list) ELSE list
  /\ UNCHANGED <<slot, subVars, live, version, sent, kind, at, todo, calls, crashed>>

Pop(q) ==
  /\ pc[q] = "drain" /\ list # <<>>
  /\ hand' = [hand EXCEPT ![q] = Head(list)] /\ list' = Tail(list) /\ Goto(q, "send")
  /\ UNCHANGED <<slot, subVars, live, version, sent, kind, at, todo, calls, crashed>>

\* t_request_within() on the dialog, freed or not.
SendNotification(q) ==
  /\ pc[q] = "send"
  /\ sent' = sent \cup {hand[q]} /\ hand' = [hand EXCEPT ![q] = None] /\ Goto(q, "drain")
  /\ UNCHANGED <<slot, subVars, live, version, list, kind, at, todo, calls, crashed>>

Crash(q) ==
  /\ pc[q] = "send" /\ hand[q].dialog \notin live /\ crashed' = TRUE
  /\ UNCHANGED <<slot, subVars, live, listVars, procVars, calls>>

\* Fault: One NOTIFY is sent, an if for a while.
Drained_AfterOne(q) ==
  /\ pc[q] = "drain"
  /\ IF kind[q] = None THEN Done(q) ELSE Goto(q, "drop") /\ UNCHANGED <<kind, at, todo>>
  /\ UNCHANGED <<slot, subVars, live, listVars, calls, crashed>>

\* The list is empty: on to what could not wait.
Drained(q) ==
  /\ pc[q] = "drain" /\ list = <<>>
  /\ IF kind[q] = None THEN Done(q) ELSE Goto(q, "drop") /\ UNCHANGED <<kind, at, todo>>
  /\ UNCHANGED <<slot, subVars, live, listVars, calls, crashed>>

\* del_r_subscriber(): an unsubscription frees the dialog.
DropSubscriber(q) ==
  /\ pc[q] = "drop" /\ kind[q] = "unsubscribe"
  /\ live' = live \ {dialog[at[q]]} /\ dialog' = [dialog EXCEPT ![at[q]] = None]
  /\ slot' = [slot EXCEPT ![at[q][1]] = None] /\ Done(q)
  /\ UNCHANGED <<there, contact, over, listVars, calls, crashed>>

NotificationTimer ==
  /\ pc[Timer] = "idle" /\ Goto(Timer, "drain")
  /\ UNCHANGED <<slot, subVars, live, listVars, kind, at, todo, calls, crashed>>

-----------------------------------------------------------------------------
(* registrar_timer(), for one identity.                                     *)

VisitPublic(k) ==
  /\ pc[Timer] = "idle" /\ k[1] \in there /\ Take(Timer, k[1])
  /\ Goto(Timer, "contacts") /\ at' = [at EXCEPT ![Timer] = k]
  /\ UNCHANGED <<subVars, live, listVars, kind, todo, calls, crashed>>

ExpiredContact(k) ==
  /\ pc[Timer] = "contacts" /\ k[1] = at[Timer][1] /\ contact[k] = "expired"
  /\ over' = Status(k[1], contact, over)
  /\ Event(Timer, k, "timer", Subscribed(k[1]))
  /\ UNCHANGED <<slot, there, contact, dialog, live, calls>>

DropContact ==
  /\ pc[Timer] = "drop"
  /\ contact' = [contact EXCEPT ![at[Timer]] = "none"] /\ Goto(Timer, "contacts")
  /\ UNCHANGED <<slot, there, dialog, over, live, listVars, kind, at, todo, calls, crashed>>

\* Subscribers that have run out are removed without a NOTIFY.  Without a contact and
\* a subscriber the identity goes too, unless the HSS refuses.
DropSubscribers ==
  LET id   == at[Timer][1]
      ends == {k \in Subscribed(id) : over[k]}
  IN  /\ pc[Timer] = "contacts" /\ \A k \in Of(id) : contact[k] # "expired"
      /\ live' = live \ {dialog[k] : k \in ends}
      /\ dialog' = [k \in Keys |-> IF k \in ends THEN None ELSE dialog[k]]
      /\ \/ UNCHANGED there
         \/ /\ \A k \in Of(id) : contact[k] = "none" /\ dialog'[k] = None
            /\ there' = there \ {id}
      /\ slot' = [slot EXCEPT ![id] = None] /\ Done(Timer)
      /\ UNCHANGED <<contact, over, listVars, calls, crashed>>

-----------------------------------------------------------------------------
\* Time passes for a contact or for a subscription.
Expire(k) ==
  /\ \/ /\ contact[k] = "valid" /\ contact' = [contact EXCEPT ![k] = "expired"] /\ UNCHANGED over
     \/ /\ dialog[k] # None /\ ~over[k] /\ over' = [over EXCEPT ![k] = TRUE] /\ UNCHANGED contact
  /\ UNCHANGED <<slot, there, dialog, live, listVars, procVars, calls, crashed>>

Next ==
  /\ ~crashed
  /\ \/ \E q \in SipProcs, k \in Keys :
          Register(q, k) \/ Deregister(q, k) \/ Subscribe(q, k) \/ Unsubscribe(q, k)
     \/ \E q \in Procs :
          \/ CreateNotification(q) \/ Created(q) \/ DropSubscriber(q)
          \/ Pop(q) \/ SendNotification(q) \/ Crash(q) \/ Drained(q)
     \/ NotificationTimer \/ DropContact \/ DropSubscribers
     \/ \E k \in Keys : VisitPublic(k) \/ ExpiredContact(k) \/ Expire(k)

Spec == Init /\ [][Next]_vars

-----------------------------------------------------------------------------
(* Properties                                                               *)

\* Where the NOTIFY of version v of a dialog's subscription is.
Places(d, v) ==
  LET Is(n) == n # None /\ n.dialog = d /\ n.version = v
  IN  ({"queued"} \X {i \in DOMAIN list : Is(list[i])})
        \cup ({"hand"} \X {q \in Procs : Is(hand[q])})
        \cup ({"sent"} \X {n \in sent : Is(n)})

\* However many processes send from the list, each NOTIFY of a subscription is in one
\* place: queued, in one hand, or sent; and the queued ones are the last that were
\* made, in the order of their versions.  They may still overtake each other in hands.
OnceAndInOrder ==
  \A d \in Dialogs :
    /\ \A v \in 0..(version[d] - 1) : \E p \in Places(d, v) : Places(d, v) = {p}
    /\ \A i \in DOMAIN list : list[i].dialog = d =>
         \A v \in (list[i].version + 1)..(version[d] - 1) :
           \E j \in (i + 1)..Len(list) : list[j].dialog = d /\ list[j].version = v

\* "send now because we might drop the dialog soon" (registrar.c:158): when the list has
\* been sent by a process that will drop contacts or a subscription, no NOTIFY about
\* that identity is queued by anyone until it has.
NoneQueuedWhenDropped ==
  \A q \in Procs : pc[q] = "drop" =>
    \A k \in Subscribed(at[q][1]), i \in DOMAIN list : list[i].dialog # dialog[k]

\* No process sends on a dialog that was freed.
SendsOnLiveDialog == \A q \in Procs : hand[q] # None => hand[q].dialog \in live
=============================================================================
