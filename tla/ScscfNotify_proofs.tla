------------------------- MODULE ScscfNotify_proofs -------------------------
(***************************************************************************)
(* Proofs about the subscriptions of modules/scscf and the list of their   *)
(* NOTIFYs, for any processes, identities and devices and any number of    *)
(* requests.                                                               *)
(***************************************************************************)
EXTENDS ScscfNotify, SequenceTheorems, TLAPS

\* Whoever is at a subscriber holds the slot of its identity.
AtItsSlot == \A q \in Procs : at[q] # None => slot[at[q][1]] = q

\* Where a process is tells what it works on.
Stages ==
  \A q \in Procs :
    /\ pc[q] \in {"create", "drop", "contacts"} => at[q] # None
    /\ kind[q] # None => at[q] # None
    /\ hand[q] # None <=> pc[q] = "send"

\* Subscribers whose NOTIFY is still to be made are at the identity whose slot is held.
TodoIsSubscribed ==
  \A q \in Procs : \A k \in todo[q] :
    pc[q] = "create" /\ k[1] = at[q][1] /\ dialog[k] # None

\* A subscription's dialog is allocated, to it only.
DialogsOwn ==
  \A k \in Keys : dialog[k] # None =>
    dialog[k] \in live /\ \A j \in Keys : j # k => dialog[j] # dialog[k]

\* What is queued was made on a dialog before its next version.
MadeBefore(n) == n.dialog \in Dialogs /\ n.version \in 0..(version[n.dialog] - 1)

NotifiesWereMade ==
  /\ \A i \in DOMAIN list : MadeBefore(list[i])
  /\ \A q \in Procs : hand[q] # None => MadeBefore(hand[q])
  /\ \A n \in sent : MadeBefore(n)

LEMMA StatusType ==
  ASSUME NEW id, NEW now, NEW ran \in [Keys -> BOOLEAN]
  PROVE  Status(id, now, ran) \in [Keys -> BOOLEAN]
BY DEF Status

\* The keys of an identity, and those that are subscribed.
LEMMA SubscribedKeys ==
  ASSUME NEW id \in Ids
  PROVE  /\ Of(id) = {k \in Keys : k[1] = id}
         /\ Subscribed(id) = {k \in Keys : k[1] = id /\ dialog[k] # None}
BY DEF Of, Keys, Subscribed

LEMMA IdOfKey == \A k \in Keys : k[1] \in Ids
BY DEF Keys

\* The types proper, and the last part of TypeOK.
Types ==
  /\ slot \in [Ids -> Procs \cup {None}] /\ there \subseteq Ids
  /\ contact \in [Keys -> {"none", "valid", "expired"}]
  /\ dialog \in [Keys -> Dialogs \cup {None}] /\ over \in [Keys -> BOOLEAN]
  /\ version \in [Dialogs -> Nat] /\ live \subseteq Dialogs
  /\ list \in Seq(Notifications) /\ hand \in [Procs -> Notifications \cup {None}]
  /\ sent \subseteq Notifications
  /\ pc \in [Procs -> {"idle", "create", "drain", "send", "drop", "contacts"}]
  /\ kind \in [Procs -> Requests \cup {None}]
  /\ at \in [Procs -> Keys \cup {None}] /\ todo \in [Procs -> SUBSET Keys]
  /\ calls \in 0..MaxCalls /\ crashed \in BOOLEAN

GoneHasNone == \A k \in Keys : k[1] \notin there => contact[k] = "none" /\ dialog[k] = None

LEMMA TypeParts == TypeOK <=> Types /\ GoneHasNone
BY DEF TypeOK, Types, GoneHasNone

LEMMA TypesNext ==
  ASSUME Types, Stages, TodoIsSubscribed, [Next]_vars PROVE Types'
<1> USE NotifyAssumption, IdOfKey
    DEF Types, Procs, Goto, Done, Take, Begin, Event, Requests, subVars, listVars, procVars
<1>1. ASSUME NEW q \in SipProcs, NEW k \in Keys, Register(q, k) PROVE Types'
  BY <1>1, SubscribedKeys DEF Register
<1>2. ASSUME NEW q \in SipProcs, NEW k \in Keys, Deregister(q, k) PROVE Types'
  <2>1. over' \in [Keys -> BOOLEAN]
    BY <1>2, StatusType DEF Deregister
  <2>2. Subscribed(k[1]) \subseteq Keys
    BY SubscribedKeys
  <2>3. /\ UNCHANGED <<there, dialog, live, version, list, hand, sent, crashed>>
        /\ slot' = [slot EXCEPT ![k[1]] = q] /\ contact' = [contact EXCEPT ![k] = "none"]
        /\ kind' = [kind EXCEPT ![q] = "deregister"] /\ at' = [at EXCEPT ![q] = k]
        /\ todo' = [todo EXCEPT ![q] = Subscribed(k[1])] /\ pc' = [pc EXCEPT ![q] = "create"]
        /\ calls < MaxCalls /\ calls' = calls + 1
    BY <1>2 DEF Deregister
  <2> QED BY <2>1, <2>2, <2>3
<1>3. ASSUME NEW q \in SipProcs, NEW k \in Keys, Subscribe(q, k) PROVE Types'
  <2>1. over' \in [Keys -> BOOLEAN]
    BY <1>3, StatusType DEF Subscribe
  <2>2. dialog' \in [Keys -> Dialogs \cup {None}] /\ live' \subseteq Dialogs
    <3>1. CASE UNCHANGED <<dialog, live>>
      BY <3>1
    <3>2. ASSUME NEW d \in Dialogs, dialog' = [dialog EXCEPT ![k] = d], live' = live \cup {d}
          PROVE  dialog' \in [Keys -> Dialogs \cup {None}] /\ live' \subseteq Dialogs
      BY <3>2
    <3> QED BY <1>3, <3>1, <3>2 DEF Subscribe
  <2>3. /\ UNCHANGED <<there, contact, version, list, hand, sent, crashed>>
        /\ slot' = [slot EXCEPT ![k[1]] = q]
        /\ kind' = [kind EXCEPT ![q] = "subscribe"] /\ at' = [at EXCEPT ![q] = k]
        /\ todo' = [todo EXCEPT ![q] = {k}] /\ pc' = [pc EXCEPT ![q] = "create"]
        /\ calls < MaxCalls /\ calls' = calls + 1
    BY <1>3 DEF Subscribe
  <2> QED BY <2>1, <2>2, <2>3
<1>4. ASSUME NEW q \in SipProcs, NEW k \in Keys, Unsubscribe(q, k) PROVE Types'
  BY <1>4 DEF Unsubscribe
<1>5. ASSUME NEW q \in Procs, CreateNotification(q) PROVE Types'
  BY <1>5 DEF CreateNotification, TodoIsSubscribed, Notifications
<1>6. ASSUME NEW q \in Procs, Created(q) PROVE Types'
  <2>1. at[q] \in Keys /\ at[q][1] \in Ids
    BY <1>6 DEF Created, Stages
  <2>2. /\ there' \subseteq there /\ UNCHANGED <<contact, over>>
        /\ dialog' \in [Keys -> Dialogs \cup {None}]
    BY <1>6 DEF Created
  <2>3. \/ Goto(q, "drain") /\ UNCHANGED <<slot, kind, at, todo>>
        \/ slot' = [slot EXCEPT ![at[q][1]] = None] /\ Done(q)
    BY <1>6 DEF Created
  <2>4. UNCHANGED <<live, version, list, hand, sent, calls, crashed>>
    BY <1>6 DEF Created
  <2>5. CASE Goto(q, "drain") /\ UNCHANGED <<slot, kind, at, todo>>
    BY <2>2, <2>4, <2>5
  <2>6. CASE slot' = [slot EXCEPT ![at[q][1]] = None] /\ Done(q)
    BY <2>1, <2>2, <2>4, <2>6
  <2> QED BY <2>3, <2>5, <2>6
<1>7. ASSUME NEW q \in Procs, DropSubscriber(q) PROVE Types'
  BY <1>7 DEF DropSubscriber, Stages
<1>8. ASSUME NEW q \in Procs, Pop(q) PROVE Types'
  BY <1>8 DEF Pop
<1>9. ASSUME NEW q \in Procs, SendNotification(q) PROVE Types'
  BY <1>9 DEF SendNotification, Stages
<1>10. ASSUME NEW q \in Procs, Crash(q) \/ Drained(q) PROVE Types'
  BY <1>10 DEF Crash, Drained
<1>11. CASE NotificationTimer
  BY <1>11 DEF NotificationTimer
<1>12. CASE DropContact
  BY <1>12 DEF DropContact
<1>13. CASE DropSubscribers
  <2>1. at[Timer] \in Keys /\ at[Timer][1] \in Ids
    BY <1>13 DEF DropSubscribers, Stages
  <2>2. /\ there' \subseteq there /\ live' \subseteq live
        /\ dialog' \in [Keys -> Dialogs \cup {None}]
    BY <1>13 DEF DropSubscribers
  <2> QED BY <1>13, <2>1, <2>2 DEF DropSubscribers
<1>14. ASSUME NEW k \in Keys, VisitPublic(k) PROVE Types'
  BY <1>14 DEF VisitPublic
<1>15. ASSUME NEW k \in Keys, ExpiredContact(k) PROVE Types'
  <2>1. over' \in [Keys -> BOOLEAN]
    BY <1>15, StatusType DEF ExpiredContact
  <2> QED BY <1>15, <2>1, SubscribedKeys DEF ExpiredContact
<1>16. ASSUME NEW k \in Keys, Expire(k) PROVE Types'
  BY <1>16 DEF Expire
<1>17. CASE UNCHANGED vars
  BY <1>17 DEF vars
<1> QED BY <1>1, <1>2, <1>3, <1>4, <1>5, <1>6, <1>7, <1>8, <1>9, <1>10, <1>11, <1>12,
           <1>13, <1>14, <1>15, <1>16, <1>17 DEF Next

\* Which step writes what.
LEMMA Writers ==
  ASSUME [Next]_vars
  PROVE  /\ \/ UNCHANGED <<there, contact>>
            \/ \E q \in SipProcs, k \in Keys : Register(q, k) \/ Deregister(q, k)
            \/ \E q \in Procs : Created(q)
            \/ DropContact \/ DropSubscribers
            \/ \E k \in Keys : Expire(k)
         /\ \/ UNCHANGED <<dialog, live>>
            \/ \E q \in SipProcs, k \in Keys : Subscribe(q, k)
            \/ \E q \in Procs : Created(q) \/ DropSubscriber(q)
            \/ DropSubscribers
         /\ \/ UNCHANGED <<version, list>>
            \/ \E q \in Procs : CreateNotification(q) \/ Pop(q)
         /\ \/ UNCHANGED <<hand, sent>>
            \/ \E q \in Procs : Pop(q) \/ SendNotification(q)
<1> USE DEF Event, subVars, listVars, procVars
<1>1. ASSUME NEW q \in SipProcs, NEW k \in Keys,
             Register(q, k) \/ Deregister(q, k) \/ Subscribe(q, k) \/ Unsubscribe(q, k)
      PROVE  /\ UNCHANGED listVars
             /\ UNCHANGED <<there, contact>> \/ Register(q, k) \/ Deregister(q, k)
             /\ UNCHANGED <<dialog, live>> \/ Subscribe(q, k)
  BY <1>1 DEF Register, Deregister, Subscribe, Unsubscribe
<1>2. ASSUME NEW q \in Procs,
             \/ CreateNotification(q) \/ Created(q) \/ DropSubscriber(q)
             \/ Pop(q) \/ SendNotification(q) \/ Crash(q) \/ Drained(q)
      PROVE  /\ UNCHANGED <<there, contact>> \/ Created(q)
             /\ UNCHANGED <<dialog, live>> \/ Created(q) \/ DropSubscriber(q)
             /\ UNCHANGED <<version, list>> \/ CreateNotification(q) \/ Pop(q)
             /\ UNCHANGED <<hand, sent>> \/ Pop(q) \/ SendNotification(q)
  BY <1>2 DEF CreateNotification, Created, DropSubscriber, Pop, SendNotification, Crash, Drained
<1>3. ASSUME NotificationTimer \/ DropContact \/ DropSubscribers
      PROVE  /\ UNCHANGED listVars
             /\ UNCHANGED <<there, contact>> \/ DropContact \/ DropSubscribers
             /\ UNCHANGED <<dialog, live>> \/ DropSubscribers
  BY <1>3 DEF NotificationTimer, DropContact, DropSubscribers
<1>4. ASSUME NEW k \in Keys, VisitPublic(k) \/ ExpiredContact(k) \/ Expire(k)
      PROVE  /\ UNCHANGED <<listVars, dialog, live>>
             /\ UNCHANGED <<there, contact>> \/ Expire(k)
  BY <1>4 DEF VisitPublic, ExpiredContact, Expire
<1>5. CASE UNCHANGED vars
  BY <1>5 DEF vars
<1> QED BY <1>1, <1>2, <1>3, <1>4, <1>5 DEF Next

LEMMA SlotNext ==
  ASSUME Types, AtItsSlot, Stages, [Next]_vars PROVE AtItsSlot'
<1> USE NotifyAssumption, IdOfKey
    DEF Types, AtItsSlot, Stages, Procs, Goto, Done, Take, Begin, Event, subVars, listVars, procVars
<1>1. ASSUME NEW q \in SipProcs, NEW k \in Keys, Register(q, k) PROVE AtItsSlot'
  BY <1>1 DEF Register
<1>2. ASSUME NEW q \in SipProcs, NEW k \in Keys, Deregister(q, k) PROVE AtItsSlot'
  BY <1>2 DEF Deregister
<1>3. ASSUME NEW q \in SipProcs, NEW k \in Keys, Subscribe(q, k) PROVE AtItsSlot'
  BY <1>3 DEF Subscribe
<1>4. ASSUME NEW q \in SipProcs, NEW k \in Keys, Unsubscribe(q, k) PROVE AtItsSlot'
  BY <1>4 DEF Unsubscribe
<1>5. ASSUME NEW q \in Procs, CreateNotification(q) PROVE AtItsSlot'
  BY <1>5 DEF CreateNotification
<1>6. ASSUME NEW q \in Procs, Created(q) PROVE AtItsSlot'
  BY <1>6 DEF Created
<1>7. ASSUME NEW q \in Procs, DropSubscriber(q) PROVE AtItsSlot'
  BY <1>7 DEF DropSubscriber
<1>8. ASSUME NEW q \in Procs, Pop(q) PROVE AtItsSlot'
  BY <1>8 DEF Pop
<1>9. ASSUME NEW q \in Procs, SendNotification(q) PROVE AtItsSlot'
  BY <1>9 DEF SendNotification
<1>10. ASSUME NEW q \in Procs, Crash(q) \/ Drained(q) PROVE AtItsSlot'
  BY <1>10 DEF Crash, Drained
<1>11. CASE NotificationTimer
  BY <1>11 DEF NotificationTimer
<1>12. CASE DropContact
  BY <1>12 DEF DropContact
<1>13. CASE DropSubscribers
  BY <1>13 DEF DropSubscribers
<1>14. ASSUME NEW k \in Keys, VisitPublic(k) PROVE AtItsSlot'
  BY <1>14 DEF VisitPublic
<1>15. ASSUME NEW k \in Keys, ExpiredContact(k) PROVE AtItsSlot'
  BY <1>15 DEF ExpiredContact
<1>16. ASSUME NEW k \in Keys, Expire(k) PROVE AtItsSlot'
  BY <1>16 DEF Expire
<1>17. CASE UNCHANGED vars
  BY <1>17 DEF vars
<1> QED BY <1>1, <1>2, <1>3, <1>4, <1>5, <1>6, <1>7, <1>8, <1>9, <1>10, <1>11, <1>12,
           <1>13, <1>14, <1>15, <1>16, <1>17 DEF Next

LEMMA StagesNext ==
  ASSUME Types, Stages, [Next]_vars PROVE Stages'
<1> USE NotifyAssumption
    DEF Types, Stages, Procs, Goto, Done, Begin, Event, Requests, SendsNow, subVars, listVars, procVars
<1>1. ASSUME NEW q \in SipProcs, NEW k \in Keys, Register(q, k) PROVE Stages'
  BY <1>1 DEF Register
<1>2. ASSUME NEW q \in SipProcs, NEW k \in Keys, Deregister(q, k) PROVE Stages'
  BY <1>2 DEF Deregister
<1>3. ASSUME NEW q \in SipProcs, NEW k \in Keys, Subscribe(q, k) PROVE Stages'
  BY <1>3 DEF Subscribe
<1>4. ASSUME NEW q \in SipProcs, NEW k \in Keys, Unsubscribe(q, k) PROVE Stages'
  BY <1>4 DEF Unsubscribe
<1>5. ASSUME NEW q \in Procs, CreateNotification(q) PROVE Stages'
  BY <1>5 DEF CreateNotification
<1>6. ASSUME NEW q \in Procs, Created(q) PROVE Stages'
  BY <1>6 DEF Created
<1>7. ASSUME NEW q \in Procs, DropSubscriber(q) PROVE Stages'
  BY <1>7 DEF DropSubscriber
<1>8. ASSUME NEW q \in Procs, Pop(q) PROVE Stages'
  BY <1>8 DEF Pop
<1>9. ASSUME NEW q \in Procs, SendNotification(q) PROVE Stages'
  BY <1>9 DEF SendNotification
<1>10. ASSUME NEW q \in Procs, Crash(q) \/ Drained(q) PROVE Stages'
  BY <1>10 DEF Crash, Drained
<1>11. CASE NotificationTimer
  BY <1>11 DEF NotificationTimer
<1>12. CASE DropContact
  BY <1>12 DEF DropContact
<1>13. CASE DropSubscribers
  BY <1>13 DEF DropSubscribers
<1>14. ASSUME NEW k \in Keys, VisitPublic(k) PROVE Stages'
  BY <1>14 DEF VisitPublic
<1>15. ASSUME NEW k \in Keys, ExpiredContact(k) PROVE Stages'
  BY <1>15 DEF ExpiredContact
<1>16. ASSUME NEW k \in Keys, Expire(k) PROVE Stages'
  BY <1>16 DEF Expire
<1>17. CASE UNCHANGED vars
  BY <1>17 DEF vars
<1> QED BY <1>1, <1>2, <1>3, <1>4, <1>5, <1>6, <1>7, <1>8, <1>9, <1>10, <1>11, <1>12,
           <1>13, <1>14, <1>15, <1>16, <1>17 DEF Next

LEMMA TodoNext ==
  ASSUME Types, AtItsSlot, Stages, TodoIsSubscribed, [Next]_vars PROVE TodoIsSubscribed'
<1> USE NotifyAssumption, IdOfKey, SubscribedKeys
    DEF Types, AtItsSlot, Stages, TodoIsSubscribed, Procs, Goto, Done, Take, Begin, Event,
        subVars, listVars, procVars
<1>1. ASSUME NEW q \in SipProcs, NEW k \in Keys, Register(q, k) PROVE TodoIsSubscribed'
  BY <1>1 DEF Register
<1>2. ASSUME NEW q \in SipProcs, NEW k \in Keys, Deregister(q, k) PROVE TodoIsSubscribed'
  BY <1>2 DEF Deregister
<1>3. ASSUME NEW q \in SipProcs, NEW k \in Keys, Subscribe(q, k) PROVE TodoIsSubscribed'
  BY <1>3 DEF Subscribe
<1>4. ASSUME NEW q \in SipProcs, NEW k \in Keys, Unsubscribe(q, k) PROVE TodoIsSubscribed'
  BY <1>4 DEF Unsubscribe
<1>5. ASSUME NEW q \in Procs, CreateNotification(q) PROVE TodoIsSubscribed'
  BY <1>5 DEF CreateNotification
<1>6. ASSUME NEW q \in Procs, Created(q) PROVE TodoIsSubscribed'
  BY <1>6 DEF Created
<1>7. ASSUME NEW q \in Procs, DropSubscriber(q) PROVE TodoIsSubscribed'
  BY <1>7 DEF DropSubscriber
<1>8. ASSUME NEW q \in Procs, Pop(q) PROVE TodoIsSubscribed'
  BY <1>8 DEF Pop
<1>9. ASSUME NEW q \in Procs, SendNotification(q) PROVE TodoIsSubscribed'
  BY <1>9 DEF SendNotification
<1>10. ASSUME NEW q \in Procs, Crash(q) \/ Drained(q) PROVE TodoIsSubscribed'
  BY <1>10 DEF Crash, Drained
<1>11. CASE NotificationTimer
  BY <1>11 DEF NotificationTimer
<1>12. CASE DropContact
  BY <1>12 DEF DropContact
<1>13. CASE DropSubscribers
  BY <1>13 DEF DropSubscribers
<1>14. ASSUME NEW k \in Keys, VisitPublic(k) PROVE TodoIsSubscribed'
  BY <1>14 DEF VisitPublic
<1>15. ASSUME NEW k \in Keys, ExpiredContact(k) PROVE TodoIsSubscribed'
  BY <1>15 DEF ExpiredContact
<1>16. ASSUME NEW k \in Keys, Expire(k) PROVE TodoIsSubscribed'
  BY <1>16 DEF Expire
<1>17. CASE UNCHANGED vars
  BY <1>17 DEF vars
<1> QED BY <1>1, <1>2, <1>3, <1>4, <1>5, <1>6, <1>7, <1>8, <1>9, <1>10, <1>11, <1>12,
           <1>13, <1>14, <1>15, <1>16, <1>17 DEF Next

LEMMA GoneHasNoneNext ==
  ASSUME Types, Stages, GoneHasNone, [Next]_vars PROVE GoneHasNone'
<1> USE NotifyAssumption, IdOfKey, SubscribedKeys
    DEF Types, Stages, GoneHasNone, Procs, Goto, Done, Take, Begin, Event,
        subVars, listVars, procVars
<1>1. ASSUME NEW q \in SipProcs, NEW k \in Keys, Register(q, k) PROVE GoneHasNone'
  BY <1>1 DEF Register
<1>2. ASSUME NEW q \in SipProcs, NEW k \in Keys, Deregister(q, k) PROVE GoneHasNone'
  BY <1>2 DEF Deregister
<1>3. ASSUME NEW q \in SipProcs, NEW k \in Keys, Subscribe(q, k) PROVE GoneHasNone'
  BY <1>3 DEF Subscribe
<1>4. ASSUME NEW q \in SipProcs, NEW k \in Keys, Unsubscribe(q, k) PROVE GoneHasNone'
  BY <1>4 DEF Unsubscribe
<1>5. ASSUME NEW q \in Procs, CreateNotification(q) PROVE GoneHasNone'
  BY <1>5 DEF CreateNotification
<1>6. ASSUME NEW q \in Procs, Created(q) PROVE GoneHasNone'
  BY <1>6 DEF Created
<1>7. ASSUME NEW q \in Procs, DropSubscriber(q) PROVE GoneHasNone'
  BY <1>7 DEF DropSubscriber
<1>8. ASSUME NEW q \in Procs, Pop(q) PROVE GoneHasNone'
  BY <1>8 DEF Pop
<1>9. ASSUME NEW q \in Procs, SendNotification(q) PROVE GoneHasNone'
  BY <1>9 DEF SendNotification
<1>10. ASSUME NEW q \in Procs, Crash(q) \/ Drained(q) PROVE GoneHasNone'
  BY <1>10 DEF Crash, Drained
<1>11. CASE NotificationTimer
  BY <1>11 DEF NotificationTimer
<1>12. CASE DropContact
  BY <1>12 DEF DropContact
<1>13. CASE DropSubscribers
  <2>1. /\ UNCHANGED contact
        /\ \A k \in Keys : dialog[k] = None => dialog'[k] = None
    BY <1>13 DEF DropSubscribers
  <2>2. \/ UNCHANGED there
        \/ /\ there' = there \ {at[Timer][1]}
           /\ \A k \in Of(at[Timer][1]) : contact[k] = "none" /\ dialog'[k] = None
    BY <1>13 DEF DropSubscribers
  <2>3. at[Timer][1] \in Ids
    BY <1>13 DEF DropSubscribers
  <2> QED BY <2>1, <2>2, <2>3
<1>14. ASSUME NEW k \in Keys, VisitPublic(k) PROVE GoneHasNone'
  BY <1>14 DEF VisitPublic
<1>15. ASSUME NEW k \in Keys, ExpiredContact(k) PROVE GoneHasNone'
  BY <1>15 DEF ExpiredContact
<1>16. ASSUME NEW k \in Keys, Expire(k) PROVE GoneHasNone'
  BY <1>16 DEF Expire
<1>17. CASE UNCHANGED vars
  BY <1>17 DEF vars
<1> QED BY <1>1, <1>2, <1>3, <1>4, <1>5, <1>6, <1>7, <1>8, <1>9, <1>10, <1>11, <1>12,
           <1>13, <1>14, <1>15, <1>16, <1>17 DEF Next

LEMMA DialogsNext ==
  ASSUME Types, Stages, DialogsOwn, [Next]_vars PROVE DialogsOwn'
<1> USE NotifyAssumption, IdOfKey, SubscribedKeys
    DEF Types, Stages, DialogsOwn, Procs, Goto, Done, Take, Begin, Event,
        subVars, listVars, procVars
<1>1. ASSUME NEW q \in SipProcs, NEW k \in Keys, Register(q, k) PROVE DialogsOwn'
  BY <1>1 DEF Register
<1>2. ASSUME NEW q \in SipProcs, NEW k \in Keys, Deregister(q, k) PROVE DialogsOwn'
  BY <1>2 DEF Deregister
<1>3. ASSUME NEW q \in SipProcs, NEW k \in Keys, Subscribe(q, k) PROVE DialogsOwn'
  BY <1>3 DEF Subscribe
<1>4. ASSUME NEW q \in SipProcs, NEW k \in Keys, Unsubscribe(q, k) PROVE DialogsOwn'
  BY <1>4 DEF Unsubscribe
<1>5. ASSUME NEW q \in Procs, CreateNotification(q) PROVE DialogsOwn'
  BY <1>5 DEF CreateNotification
<1>6. ASSUME NEW q \in Procs, Created(q) PROVE DialogsOwn'
  BY <1>6 DEF Created
<1>7. ASSUME NEW q \in Procs, DropSubscriber(q) PROVE DialogsOwn'
  BY <1>7 DEF DropSubscriber
<1>8. ASSUME NEW q \in Procs, Pop(q) PROVE DialogsOwn'
  BY <1>8 DEF Pop
<1>9. ASSUME NEW q \in Procs, SendNotification(q) PROVE DialogsOwn'
  BY <1>9 DEF SendNotification
<1>10. ASSUME NEW q \in Procs, Crash(q) \/ Drained(q) PROVE DialogsOwn'
  BY <1>10 DEF Crash, Drained
<1>11. CASE NotificationTimer
  BY <1>11 DEF NotificationTimer
<1>12. CASE DropContact
  BY <1>12 DEF DropContact
<1>13. CASE DropSubscribers
  <2> DEFINE ends == {k \in Subscribed(at[Timer][1]) : over[k]}
  <2>1. live' = live \ {dialog[k] : k \in ends}
    BY <1>13 DEF DropSubscribers
  <2>2. dialog' = [k \in Keys |-> IF k \in ends THEN None ELSE dialog[k]]
    BY <1>13 DEF DropSubscribers
  <2>3. ends \subseteq Keys
    BY <1>13 DEF DropSubscribers
  <2> HIDE DEF ends
  <2>4. ASSUME NEW k \in Keys \ ends, dialog[k] # None PROVE dialog[k] \in live'
    BY <2>1, <2>3, <2>4
  <2> QED BY <2>2, <2>4
<1>14. ASSUME NEW k \in Keys, VisitPublic(k) PROVE DialogsOwn'
  BY <1>14 DEF VisitPublic
<1>15. ASSUME NEW k \in Keys, ExpiredContact(k) PROVE DialogsOwn'
  BY <1>15 DEF ExpiredContact
<1>16. ASSUME NEW k \in Keys, Expire(k) PROVE DialogsOwn'
  BY <1>16 DEF Expire
<1>17. CASE UNCHANGED vars
  BY <1>17 DEF vars
<1> QED BY <1>1, <1>2, <1>3, <1>4, <1>5, <1>6, <1>7, <1>8, <1>9, <1>10, <1>11, <1>12,
           <1>13, <1>14, <1>15, <1>16, <1>17 DEF Next

LEMMA MadeNext ==
  ASSUME Types, Stages, TodoIsSubscribed, NotifiesWereMade, [Next]_vars
  PROVE  NotifiesWereMade'
<1> USE NotifyAssumption DEF Types
<1> DEFINE Made(n) == n.dialog \in Dialogs /\ n.version \in 0..(version'[n.dialog] - 1)
<1>1. ASSUME NEW n \in Notifications, MadeBefore(n) PROVE Made(n)
  <2>1. ASSUME NEW q \in Procs, CreateNotification(q)
        PROVE  version'[n.dialog] \in {version[n.dialog], version[n.dialog] + 1}
    BY <1>1, <2>1 DEF CreateNotification, MadeBefore
  <2>2. version'[n.dialog] \in {version[n.dialog], version[n.dialog] + 1}
    BY <2>1, Writers DEF Pop
  <2> QED BY <1>1, <2>2 DEF MadeBefore, Notifications
<1>2. /\ \A i \in DOMAIN list : list[i] \in Notifications /\ Made(list[i])
      /\ \A q \in Procs : hand[q] # None => hand[q] \in Notifications /\ Made(hand[q])
      /\ \A n \in sent : Made(n)
  BY <1>1 DEF NotifiesWereMade
<1> SUFFICES /\ \A i \in DOMAIN list' : Made(list'[i])
             /\ \A q \in Procs : hand'[q] # None => Made(hand'[q])
             /\ \A n \in sent' : Made(n)
  BY DEF NotifiesWereMade, MadeBefore
<1>3. ASSUME NEW q \in Procs, CreateNotification(q)
      PROVE  \A i \in DOMAIN list' : Made(list'[i])
  <2>1. PICK k \in todo[q] :
          LET d == dialog[k] IN
          /\ list' = Append(list, [dialog |-> d, version |-> version[d],
                                   state |-> IF over[k] THEN "terminated" ELSE "active"])
          /\ version' = [version EXCEPT ![d] = @ + 1]
    BY <1>3 DEF CreateNotification
  <2>2. dialog[k] \in Dialogs
    BY <1>3, <2>1 DEF TodoIsSubscribed
  <2>3. ASSUME NEW i \in DOMAIN list' PROVE Made(list'[i])
    <3>1. CASE i \in DOMAIN list
      <4>1. list'[i] = list[i]
        BY <2>1, <3>1
      <4> QED BY <1>2, <3>1, <4>1
    <3>2. CASE i \notin DOMAIN list
      <4>1. list'[i].dialog = dialog[k] /\ list'[i].version = version[dialog[k]]
        BY <2>1, <3>2
      <4>2. version'[dialog[k]] = version[dialog[k]] + 1 /\ version[dialog[k]] \in Nat
        BY <2>1, <2>2
      <4> QED BY <2>2, <4>1, <4>2
    <3> QED BY <3>1, <3>2
  <2> QED BY <2>3
<1>4. ASSUME NEW q \in Procs, Pop(q)
      PROVE  /\ \A i \in DOMAIN list' : i + 1 \in DOMAIN list /\ list'[i] = list[i + 1]
             /\ hand' = [hand EXCEPT ![q] = list[1]] /\ 1 \in DOMAIN list /\ sent' = sent
  BY <1>4 DEF Pop
<1>5. ASSUME NEW q \in Procs, SendNotification(q)
      PROVE  /\ sent' = sent \cup {hand[q]} /\ hand' = [hand EXCEPT ![q] = None]
             /\ hand[q] # None
  BY <1>5 DEF SendNotification, Stages
<1> HIDE DEF Made
<1>6. \A i \in DOMAIN list' : Made(list'[i])
  BY <1>2, <1>3, <1>4, Writers
<1>7. (\A q \in Procs : hand'[q] # None => Made(hand'[q])) /\ \A n \in sent' : Made(n)
  BY <1>2, <1>4, <1>5, Writers
<1> QED BY <1>6, <1>7

\* NoneQueuedWhenDropped, in terms of the keys.
NoneQueued ==
  \A q \in Procs, k \in Keys :
    pc[q] = "drop" /\ k[1] = at[q][1] /\ dialog[k] # None =>
      \A i \in DOMAIN list : list[i].dialog # dialog[k]

LEMMA NoneQueuedIs == Types /\ Stages => (NoneQueued <=> NoneQueuedWhenDropped)
<1> SUFFICES ASSUME Types, Stages PROVE NoneQueued <=> NoneQueuedWhenDropped
  OBVIOUS
<1>1. \A q \in Procs : pc[q] = "drop" => at[q][1] \in Ids
  BY IdOfKey DEF Types, Stages
<1> QED BY <1>1, SubscribedKeys DEF NoneQueued, NoneQueuedWhenDropped

LEMMA NoneQueuedNext ==
  ASSUME Types, AtItsSlot, Stages, TodoIsSubscribed, DialogsOwn, NoneQueued, [Next]_vars
  PROVE  NoneQueued'
<1> USE NotifyAssumption, IdOfKey, SubscribedKeys
    DEF Types, AtItsSlot, Stages, NoneQueued, Procs, Goto, Done, Take, Begin, Event,
        subVars, listVars, procVars
<1>1. ASSUME NEW q \in SipProcs, NEW k \in Keys, Register(q, k) PROVE NoneQueued'
  BY <1>1 DEF Register
<1>2. ASSUME NEW q \in SipProcs, NEW k \in Keys, Deregister(q, k) PROVE NoneQueued'
  BY <1>2 DEF Deregister
<1>3. ASSUME NEW q \in SipProcs, NEW k \in Keys, Subscribe(q, k) PROVE NoneQueued'
  BY <1>3 DEF Subscribe
<1>4. ASSUME NEW q \in SipProcs, NEW k \in Keys, Unsubscribe(q, k) PROVE NoneQueued'
  BY <1>4 DEF Unsubscribe
<1>5. ASSUME NEW q \in Procs, CreateNotification(q) PROVE NoneQueued'
  <2>1. PICK k \in todo[q] :
          /\ list' = Append(list, [dialog |-> dialog[k], version |-> version[dialog[k]],
                                   state |-> IF over[k] THEN "terminated" ELSE "active"])
          /\ UNCHANGED <<pc, at, dialog>>
    BY <1>5 DEF CreateNotification
  <2>2. /\ pc[q] = "create" /\ dialog[k] # None /\ k[1] = at[q][1] /\ k \in Keys
        /\ at[q] # None /\ slot[k[1]] = q
    BY <1>5, <2>1 DEF TodoIsSubscribed
  <2> SUFFICES ASSUME NEW p \in Procs, NEW j \in Keys, pc[p] = "drop", j[1] = at[p][1],
                      dialog[j] # None, NEW i \in DOMAIN list'
               PROVE  list'[i].dialog # dialog[j]
    BY <2>1
  <2>3. j # k
    BY <2>2
  <2>4. dialog[k] # dialog[j]
    BY <2>2, <2>3 DEF DialogsOwn
  <2>5. CASE i \in DOMAIN list
    BY <2>1, <2>5
  <2>6. CASE i \notin DOMAIN list
    BY <2>1, <2>4, <2>6
  <2> QED BY <2>5, <2>6
<1>6. ASSUME NEW q \in Procs, Created(q) PROVE NoneQueued'
  <2>1. UNCHANGED list /\ \A k \in Keys : dialog'[k] # None => dialog'[k] = dialog[k]
    BY <1>6 DEF Created
  <2>2. \A p \in Procs : pc'[p] = "drop" => pc[p] = "drop" /\ at'[p] = at[p]
    BY <1>6 DEF Created
  <2> QED BY <2>1, <2>2
<1>7. ASSUME NEW q \in Procs, DropSubscriber(q) PROVE NoneQueued'
  BY <1>7 DEF DropSubscriber
<1>8. ASSUME NEW q \in Procs, Pop(q) PROVE NoneQueued'
  BY <1>8 DEF Pop
<1>9. ASSUME NEW q \in Procs, SendNotification(q) PROVE NoneQueued'
  BY <1>9 DEF SendNotification
<1>10. ASSUME NEW q \in Procs, Crash(q) \/ Drained(q) PROVE NoneQueued'
  BY <1>10 DEF Crash, Drained
<1>11. CASE NotificationTimer
  BY <1>11 DEF NotificationTimer
<1>12. CASE DropContact
  BY <1>12 DEF DropContact
<1>13. CASE DropSubscribers
  BY <1>13 DEF DropSubscribers
<1>14. ASSUME NEW k \in Keys, VisitPublic(k) PROVE NoneQueued'
  BY <1>14 DEF VisitPublic
<1>15. ASSUME NEW k \in Keys, ExpiredContact(k) PROVE NoneQueued'
  BY <1>15 DEF ExpiredContact
<1>16. ASSUME NEW k \in Keys, Expire(k) PROVE NoneQueued'
  BY <1>16 DEF Expire
<1>17. CASE UNCHANGED vars
  BY <1>17 DEF vars
<1> QED BY <1>1, <1>2, <1>3, <1>4, <1>5, <1>6, <1>7, <1>8, <1>9, <1>10, <1>11, <1>12,
           <1>13, <1>14, <1>15, <1>16, <1>17 DEF Next

-----------------------------------------------------------------------------
(* Each NOTIFY is in one place.                                             *)

IsOf(n, d, v) == n.dialog = d /\ n.version = v
IsQueued(i, d, v) == i \in DOMAIN list /\ IsOf(list[i], d, v)
IsInHand(q, d, v) == q \in Procs /\ hand[q] # None /\ IsOf(hand[q], d, v)
WasSent(n, d, v) == n \in sent /\ IsOf(n, d, v)

\* It is queued, in a hand or sent; one of these, and once.
Once(d, v) ==
  /\ (\E i : IsQueued(i, d, v)) \/ (\E q : IsInHand(q, d, v)) \/ (\E n : WasSent(n, d, v))
  /\ \A i, j : IsQueued(i, d, v) /\ IsQueued(j, d, v) => i = j
  /\ \A q, p : IsInHand(q, d, v) /\ IsInHand(p, d, v) => q = p
  /\ \A n, m : WasSent(n, d, v) /\ WasSent(m, d, v) => n = m
  /\ \A i, q : ~(IsQueued(i, d, v) /\ IsInHand(q, d, v))
  /\ \A i, n : ~(IsQueued(i, d, v) /\ WasSent(n, d, v))
  /\ \A q, n : ~(IsInHand(q, d, v) /\ WasSent(n, d, v))

LEMMA OnceIsOnePlace ==
  ASSUME Types, NEW d, NEW v
  PROVE  Once(d, v) <=> \E p \in Places(d, v) : Places(d, v) = {p}
<1> DEFINE P    == Places(d, v)
           A(i) == <<"queued", i>>
           B(q) == <<"hand", q>>
           C(n) == <<"sent", n>>
<1>1. /\ \A i : A(i) \in P <=> IsQueued(i, d, v)
      /\ \A q : B(q) \in P <=> IsInHand(q, d, v)
      /\ \A n : C(n) \in P <=> WasSent(n, d, v)
  <2>1. \A i \in DOMAIN list : list[i] # None
    BY NotifyAssumption DEF Types
  <2>2. \A n \in sent : n # None
    BY NotifyAssumption DEF Types
  <2> QED BY <2>1, <2>2 DEF Places, IsQueued, IsInHand, WasSent, IsOf
<1>2. \A p \in P : \E x : p = A(x) \/ p = B(x) \/ p = C(x)
  BY DEF Places
<1>3. \A x, y : /\ A(x) # B(y) /\ A(x) # C(y) /\ B(x) # C(y)
               /\ (A(x) = A(y) => x = y) /\ (B(x) = B(y) => x = y) /\ (C(x) = C(y) => x = y)
  OBVIOUS
<1> HIDE DEF P, A, B, C
<1>4. ASSUME Once(d, v) PROVE \E p \in P : P = {p}
  <2>1. \A p, r \in P : p = r
    BY <1>1, <1>2, <1>4 DEF Once
  <2>2. P # {}
    BY <1>1, <1>4 DEF Once
  <2> QED BY <2>1, <2>2
<1>5. ASSUME NEW p \in P, P = {p} PROVE Once(d, v)
  <2>1. (\E i : IsQueued(i, d, v)) \/ (\E q : IsInHand(q, d, v)) \/ (\E n : WasSent(n, d, v))
    BY <1>1, <1>2
  <2>2. \A r, s \in P : r = s
    BY <1>5
  <2> QED BY <1>1, <1>3, <2>1, <2>2 DEF Once
<1> QED BY <1>4, <1>5 DEF P

\* The two parts of OnceAndInOrder.
AllOnce == \A d \in Dialogs : \A v \in 0..(version[d] - 1) : Once(d, v)

LastOnesQueued ==
  \A d \in Dialogs : \A i \in DOMAIN list : list[i].dialog = d =>
    \A v \in (list[i].version + 1)..(version[d] - 1) :
      \E j \in (i + 1)..Len(list) : list[j].dialog = d /\ list[j].version = v

LEMMA OnceParts == Types => (OnceAndInOrder <=> AllOnce /\ LastOnesQueued)
BY OnceIsOnePlace DEF OnceAndInOrder, AllOnce, LastOnesQueued

LEMMA LastOnesFrame ==
  ASSUME LastOnesQueued, UNCHANGED <<version, list>> PROVE LastOnesQueued'
BY DEF LastOnesQueued

LEMMA OnceNext ==
  ASSUME Types, Stages, TodoIsSubscribed, NotifiesWereMade, AllOnce, LastOnesQueued, [Next]_vars
  PROVE  AllOnce' /\ LastOnesQueued'
<1> USE NotifyAssumption DEF Types
<1>1. ASSUME NEW q \in Procs, CreateNotification(q) PROVE AllOnce' /\ LastOnesQueued'
  <2>1. PICK k \in todo[q] :
          LET d == dialog[k] IN
          /\ list' = Append(list, [dialog |-> d, version |-> version[d],
                                   state |-> IF over[k] THEN "terminated" ELSE "active"])
          /\ version' = [version EXCEPT ![d] = @ + 1]
    BY <1>1 DEF CreateNotification
  <2> DEFINE c == dialog[k]  new == Len(list) + 1
  <2>2. c \in Dialogs
    BY <1>1, <2>1 DEF TodoIsSubscribed
  <2>3. /\ Len(list') = new /\ \A i \in DOMAIN list : list'[i] = list[i]
        /\ IsOf(list'[new], c, version[c])
    BY <2>1 DEF IsOf
  <2>4. version'[c] = version[c] + 1 /\ \A d \in Dialogs : d # c => version'[d] = version[d]
    BY <2>1, <2>2
  <2>5. DOMAIN list = 1..Len(list) /\ DOMAIN list' = 1..new /\ new \in Nat
    BY <2>1
  <2>6. UNCHANGED <<hand, sent>>
    BY <1>1 DEF CreateNotification
  <2>7. \A x : /\ ~IsQueued(x, c, version[c]) /\ ~IsInHand(x, c, version[c])
               /\ ~WasSent(x, c, version[c])
    BY <2>2 DEF NotifiesWereMade, MadeBefore, IsQueued, IsInHand, WasSent, IsOf
  <2>8. \A i, d, v : IsQueued(i, d, v)' <=>
           IsQueued(i, d, v) \/ (i = new /\ d = c /\ v = version[c])
    BY <2>3, <2>5 DEF IsQueued, IsOf
  <2>9. \A x, d, v : (IsInHand(x, d, v)' <=> IsInHand(x, d, v)) /\ (WasSent(x, d, v)' <=> WasSent(x, d, v))
    BY <2>6 DEF IsInHand, WasSent, IsOf
  <2>10. ASSUME NEW d \in Dialogs, NEW v \in 0..(version'[d] - 1) PROVE Once(d, v)'
    <3>1. CASE d = c /\ v = version[c]
      BY <2>7, <2>8, <2>9, <3>1 DEF Once
    <3>2. CASE ~(d = c /\ v = version[c])
      <4>1. v \in 0..(version[d] - 1)
        BY <2>4, <3>2
      <4>2. Once(d, v)
        BY <4>1 DEF AllOnce
      <4> QED BY <2>8, <2>9, <3>2, <4>2 DEF Once
    <3> QED BY <3>1, <3>2
  <2>11. LastOnesQueued'
    <3> SUFFICES ASSUME NEW d \in Dialogs, NEW i \in DOMAIN list', list'[i].dialog = d,
                        NEW v \in (list'[i].version + 1)..(version'[d] - 1)
                 PROVE  \E j \in (i + 1)..Len(list') :
                          list'[j].dialog = d /\ list'[j].version = v
      BY DEF LastOnesQueued
    <3>1. CASE i = new
      BY <2>2, <2>3, <2>4, <3>1 DEF IsOf
    <3>2. CASE i # new /\ d = c /\ v = version[c]
      <4>1. new \in (i + 1)..Len(list')
        BY <2>3, <2>5, <3>2
      <4> QED BY <2>3, <3>2, <4>1 DEF IsOf
    <3>3. CASE i # new /\ ~(d = c /\ v = version[c])
      <4>1. i \in DOMAIN list /\ list'[i] = list[i]
        BY <2>3, <2>5, <3>3
      <4>2. v \in (list[i].version + 1)..(version[d] - 1)
        BY <2>4, <3>3, <4>1
      <4>3. PICK j \in (i + 1)..Len(list) : list[j].dialog = d /\ list[j].version = v
        BY <4>1, <4>2 DEF LastOnesQueued
      <4>4. j \in (i + 1)..Len(list') /\ list'[j] = list[j]
        <5>1. j \in DOMAIN list /\ j \in (i + 1)..Len(list')
          BY <2>3, <2>5, <4>1, <4>3
        <5> QED BY <2>3, <5>1
      <4> QED BY <4>3, <4>4
    <3> QED BY <3>1, <3>2, <3>3
  <2> QED BY <2>10, <2>11 DEF AllOnce
<1>2. ASSUME NEW q \in Procs, Pop(q) PROVE AllOnce' /\ LastOnesQueued'
  <2>1. /\ list # <<>> /\ list' = Tail(list) /\ hand' = [hand EXCEPT ![q] = list[1]]
        /\ UNCHANGED <<version, sent>> /\ hand[q] = None
    BY <1>2 DEF Pop, Stages
  <2>2. /\ Len(list) \in Nat /\ Len(list) >= 1 /\ Len(list') = Len(list) - 1
        /\ DOMAIN list = 1..Len(list) /\ DOMAIN list' = 1..(Len(list) - 1)
        /\ \A i \in DOMAIN list' : list'[i] = list[i + 1]
        /\ list[1] # None
    BY <2>1
  <2>3. \A i, d, v : IsQueued(i, d, v)' <=> i \in DOMAIN list' /\ IsQueued(i + 1, d, v)
    BY <2>2 DEF IsQueued, IsOf
  <2>4. \A p, d, v : IsInHand(p, d, v)' <=> IsInHand(p, d, v) \/ (p = q /\ IsQueued(1, d, v))
    BY <2>1, <2>2 DEF IsInHand, IsQueued, IsOf
  <2>5. \A n, d, v : WasSent(n, d, v)' <=> WasSent(n, d, v)
    BY <2>1 DEF WasSent, IsOf
  <2>6. ASSUME NEW d \in Dialogs, NEW v \in 0..(version'[d] - 1) PROVE Once(d, v)'
    <3>1. Once(d, v)
      BY <2>1 DEF AllOnce
    <3>2. \A i : IsQueued(i, d, v) => i = 1 \/ IsQueued(i - 1, d, v)'
      BY <2>2, <2>3 DEF IsQueued
    <3>3. \A i : IsQueued(i, d, v)' => i \in Nat /\ i # 0 /\ IsQueued(i + 1, d, v)
      BY <2>2, <2>3
    <3> DEFINE Somewhere == \/ \E i : IsQueued(i, d, v)
                            \/ \E p : IsInHand(p, d, v)
                            \/ \E n : WasSent(n, d, v)
    <3>4. Somewhere'
      BY <2>4, <2>5, <3>1, <3>2 DEF Once
    <3>5. \A i, j : IsQueued(i, d, v)' /\ IsQueued(j, d, v)' => i = j
      <4> SUFFICES ASSUME NEW i, NEW j, IsQueued(i, d, v)', IsQueued(j, d, v)' PROVE i = j
        OBVIOUS
      <4>1. i + 1 = j + 1 /\ i \in Nat /\ j \in Nat
        BY <3>1, <3>3 DEF Once
      <4> QED BY <4>1
    <3>6. ~(IsQueued(1, d, v) /\ \E i : IsQueued(i, d, v)')
      <4> SUFFICES ASSUME NEW i, IsQueued(1, d, v), IsQueued(i, d, v)' PROVE FALSE
        OBVIOUS
      <4>1. i \in Nat /\ i # 0 /\ i + 1 = 1
        BY <3>1, <3>3 DEF Once
      <4> QED BY <4>1
    <3>7. \A i : IsQueued(i, d, v)' => \E j : IsQueued(j, d, v)
      BY <3>3
    <3> HIDE DEF Somewhere
    <3>8. /\ \A p, r : IsInHand(p, d, v)' /\ IsInHand(r, d, v)' => p = r
          /\ \A n, m : WasSent(n, d, v)' /\ WasSent(m, d, v)' => n = m
          /\ \A i, p : ~(IsQueued(i, d, v)' /\ IsInHand(p, d, v)')
          /\ \A i, n : ~(IsQueued(i, d, v)' /\ WasSent(n, d, v)')
          /\ \A p, n : ~(IsInHand(p, d, v)' /\ WasSent(n, d, v)')
      BY <2>4, <2>5, <3>1, <3>6, <3>7 DEF Once
    <3> QED BY <3>4, <3>5, <3>8 DEF Once, Somewhere
  <2>7. LastOnesQueued'
    <3> SUFFICES ASSUME NEW d \in Dialogs, NEW i \in DOMAIN list', list'[i].dialog = d,
                        NEW v \in (list'[i].version + 1)..(version[d] - 1)
                 PROVE  \E j \in (i + 1)..Len(list') :
                          list'[j].dialog = d /\ list'[j].version = v
      BY <2>1 DEF LastOnesQueued
    <3>1. i + 1 \in DOMAIN list /\ list[i + 1] = list'[i] /\ i \in Nat
      BY <2>2
    <3>2. PICK j \in (i + 2)..Len(list) : list[j].dialog = d /\ list[j].version = v
      BY <3>1 DEF LastOnesQueued
    <3>3. j - 1 \in (i + 1)..Len(list') /\ list'[j - 1] = list[j]
      <4>1. j - 1 \in DOMAIN list' /\ j - 1 \in (i + 1)..Len(list') /\ (j - 1) + 1 = j
        BY <2>2, <3>1, <3>2
      <4> QED BY <2>2, <4>1
    <3> QED BY <3>2, <3>3
  <2> QED BY <2>6, <2>7 DEF AllOnce
<1>3. ASSUME NEW q \in Procs, SendNotification(q) PROVE AllOnce' /\ LastOnesQueued'
  <2>1. /\ sent' = sent \cup {hand[q]} /\ hand' = [hand EXCEPT ![q] = None]
        /\ UNCHANGED <<version, list>> /\ hand[q] # None
    BY <1>3 DEF SendNotification, Stages
  <2>2. \A p, d, v : IsInHand(p, d, v)' <=> IsInHand(p, d, v) /\ p # q
    BY <2>1 DEF IsInHand, IsOf
  <2>3. \A n, d, v : WasSent(n, d, v)' <=> WasSent(n, d, v) \/ (n = hand[q] /\ IsInHand(q, d, v))
    BY <2>1 DEF WasSent, IsInHand, IsOf
  <2>4. \A i, d, v : IsQueued(i, d, v)' <=> IsQueued(i, d, v)
    BY <2>1 DEF IsQueued, IsOf
  <2>5. ASSUME NEW d \in Dialogs, NEW v \in 0..(version'[d] - 1) PROVE Once(d, v)'
    <3>1. Once(d, v)
      BY <2>1 DEF AllOnce
    <3> QED BY <2>2, <2>3, <2>4, <3>1 DEF Once
  <2>6. LastOnesQueued'
    BY <2>1, LastOnesFrame
  <2> QED BY <2>5, <2>6 DEF AllOnce
<1>4. ASSUME UNCHANGED <<version, list, hand, sent>> PROVE AllOnce' /\ LastOnesQueued'
  BY <1>4 DEF AllOnce, LastOnesQueued, Once, IsQueued, IsInHand, WasSent, IsOf
<1> QED BY <1>1, <1>2, <1>3, <1>4, Writers

-----------------------------------------------------------------------------
\* The inductive invariant.
NotifyInv ==
  /\ Types /\ GoneHasNone /\ AtItsSlot /\ Stages /\ TodoIsSubscribed /\ DialogsOwn
  /\ NotifiesWereMade /\ AllOnce /\ LastOnesQueued /\ NoneQueued

LEMMA NotifyNext == NotifyInv /\ [Next]_vars => NotifyInv'
BY TypesNext, GoneHasNoneNext, SlotNext, StagesNext, TodoNext, DialogsNext, MadeNext,
   OnceNext, NoneQueuedNext DEF NotifyInv

LEMMA NotifyInit == Init => NotifyInv
<1> SUFFICES ASSUME Init PROVE NotifyInv
  OBVIOUS
<1> USE NotifyAssumption DEF Init
<1>1. Types
  <2>1. over \in [Keys -> BOOLEAN]
    OBVIOUS
  <2>5. calls \in 0..MaxCalls
    OBVIOUS
  <2>6. crashed \in BOOLEAN
    OBVIOUS
  <2>3. version \in [Dialogs -> Nat]
    OBVIOUS
  <2>4. list \in Seq(Notifications)
    BY EmptySeq
  <2>2. /\ slot \in [Ids -> Procs \cup {None}] /\ hand \in [Procs -> Notifications \cup {None}]
        /\ dialog \in [Keys -> Dialogs \cup {None}] /\ at \in [Procs -> Keys \cup {None}]
        /\ kind \in [Procs -> Requests \cup {None}] /\ todo \in [Procs -> SUBSET Keys]
    OBVIOUS
  <2> QED BY <2>1, <2>2, <2>3, <2>4, <2>5, <2>6 DEF Types
<1>2. GoneHasNone
  BY IdOfKey DEF GoneHasNone
<1>3. AtItsSlot /\ Stages /\ TodoIsSubscribed /\ DialogsOwn
  BY DEF AtItsSlot, Stages, TodoIsSubscribed, DialogsOwn
<1>4. NotifiesWereMade /\ AllOnce /\ LastOnesQueued /\ NoneQueued
  BY DEF NotifiesWereMade, AllOnce, LastOnesQueued, NoneQueued
<1> QED BY <1>1, <1>2, <1>3, <1>4 DEF NotifyInv

LEMMA NotifySuffices == NotifyInv => TypeOK /\ OnceAndInOrder /\ NoneQueuedWhenDropped
BY TypeParts, OnceParts, NoneQueuedIs DEF NotifyInv

\* Every variable keeps its type; an identity that is gone has neither contact nor
\* subscription.
THEOREM TypesHold == Spec => []TypeOK
BY NotifyInit, NotifyNext, NotifySuffices, PTL DEF Spec

\* Each NOTIFY is queued, in one hand or sent, however many processes send.
THEOREM NotifiesAreSentOnce == Spec => []OnceAndInOrder
BY NotifyInit, NotifyNext, NotifySuffices, PTL DEF Spec

\* No NOTIFY is queued for what is about to be dropped.
THEOREM DropsNothingQueued == Spec => []NoneQueuedWhenDropped
BY NotifyInit, NotifyNext, NotifySuffices, PTL DEF Spec
=============================================================================
