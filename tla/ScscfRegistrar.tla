--------------------------- MODULE ScscfRegistrar ---------------------------
(***************************************************************************)
(* The S-CSCF's registrar (modules/scscf/registrar.c, registrar_storage.c):*)
(* a hash table of public identities with a lock per slot, walked by the   *)
(* SIP processes, which register, refresh and end the identities of one    *)
(* user's implicit set, and by the registrar's timer.                      *)
(*                                                                         *)
(* A step is what a process does between two requests for a lock or a wait *)
(* for the HSS.  Registration and calls to unregistered users take one     *)
(* slot at a time; the others keep the slot of the identity they were      *)
(* asked about while they take those of the rest of the set.  The list of  *)
(* NOTIFYs these procedures fill is module ScscfNotify; what they do to    *)
(* the subscribers of an identity is here.                                 *)
(***************************************************************************)
EXTENDS Integers, FiniteSets, Sequences, SequencesExt

CONSTANTS SipProcs, Timer,
          ImplicitSet,  \* the public identities of the user, in the profile's order
          Slots,        \* number of slots
          Hashes,       \* what get_aor_hash() may give for these identities
          Devices,      \* each has one contact
          Kinds,        \* what SIP processes are asked for
          MaxPublics, MaxProfiles,  \* bounds: chunks of memory of each kind
          MaxCalls,     \* bound: requests the SIP processes serve
          None

Ids      == Range(ImplicitSet)
Procs    == SipProcs \cup {Timer}
Publics  == 1..MaxPublics
Profiles == 1..MaxProfiles
Requests == {"register", "refresh", "deregister", "call", "subscribe"}

ASSUME RegistrarAssumption ==
  /\ Slots \in Nat \ {0} /\ {MaxPublics, MaxProfiles, MaxCalls} \subseteq Nat
  /\ ImplicitSet \in Seq(Ids) /\ Len(ImplicitSet) <= MaxPublics /\ 1 \in Profiles
  /\ Hashes \subseteq [Ids -> 1..Slots] /\ IsInjective(ImplicitSet) /\ Timer \notin SipProcs
  /\ Kinds \subseteq Requests \ {"refresh"}
  /\ None \notin Procs \cup Ids \cup Publics \cup Profiles /\ None \notin Requests

VARIABLES SlotOf,    \* the slot of each identity, which does not change
          slot,      \* the list of each slot
          r_public,  \* the content of each chunk
          ref_count, \* of each profile; one with no reference is not allocated
          lock,      \* who holds each slot
          pc, kind, on, dev, \* where a process is, in what, for which identity and device
          p,         \* the r_public whose slot it keeps
          made,      \* the r_public it has made and not linked yet
          idx,       \* how far it is in the implicit set, or the timer's slot
          s,         \* the profile it got from the HSS
          pn,        \* the timer's next r_public
          calls,
          crashed    \* a null or freed profile, or a freed r_public, was used

tabVars == <<SlotOf, slot, r_public, ref_count>>
locVars == <<pc, kind, on, dev, p, made, idx, s>>
vars == <<tabVars, locVars, lock, pn, calls, crashed>>

States == {"NOT_REGISTERED", "REGISTERED", "UNREGISTERED"}
NoContacts == [x \in Devices |-> "none"]
Free == [aor |-> None, reg_state |-> "NOT_REGISTERED", head |-> NoContacts,
         shead |-> "none", s |-> None]

TypeOK ==
  /\ SlotOf \in Hashes /\ slot \in [1..Slots -> Seq(Publics)]
  /\ r_public \in [Publics -> [aor : Ids \cup {None}, reg_state : States,
                               head : [Devices -> {"none", "valid", "expired"}],
                               shead : {"none", "valid", "expired"}, s : Profiles \cup {None}]]
  /\ ref_count \in [Profiles -> 0..MaxPublics]
  /\ lock \in [1..Slots -> Procs \cup {None}]
  /\ pc \in [Procs -> {"idle", "sar", "update", "add", "set", "addset", "finish",
                       "public", "timersar", "timerset"}]
  /\ kind \in [Procs -> Requests \cup {None}]
  /\ on \in [Procs -> Ids \cup {None}] /\ dev \in [Procs -> Devices \cup {None}]
  /\ {p, made} \subseteq [Procs -> Publics \cup {None}] /\ idx \in [Procs -> Nat]
  /\ s \in [Procs -> Profiles \cup {None}] /\ pn \in Publics \cup {None}
  /\ calls \in 0..MaxCalls
  /\ crashed \in {"no", "profile", "next"}

\* Every identity of the set is registered, with one profile.  The timer reaches the
\* empty table from here.
RegisteredSet ==
  /\ r_public = [r \in Publics |-> IF r > Len(ImplicitSet) THEN Free ELSE
       [Free EXCEPT !.aor = ImplicitSet[r], !.reg_state = "REGISTERED", !.s = 1,
                    !.head = [x \in Devices |-> "valid"]]]
  /\ slot = [h \in 1..Slots |->
       SetToSeq({r \in 1..Len(ImplicitSet) : SlotOf[ImplicitSet[r]] = h})]
  /\ ref_count = [x \in Profiles |-> IF x = 1 THEN Len(ImplicitSet) ELSE 0]

Init ==
  /\ SlotOf \in Hashes /\ RegisteredSet
  /\ lock = [h \in 1..Slots |-> None]
  /\ pc = [q \in Procs |-> "idle"] /\ kind = [q \in Procs |-> None]
  /\ on = [q \in Procs |-> None] /\ dev = [q \in Procs |-> None]
  /\ p = [q \in Procs |-> None] /\ made = [q \in Procs |-> None]
  /\ idx = [q \in Procs |-> 1] /\ s = [q \in Procs |-> None]
  /\ pn = None /\ calls = 0 /\ crashed = "no"

-----------------------------------------------------------------------------
(* The table.                                                               *)

InTable == UNION {Range(slot[h]) : h \in 1..Slots}
Hash(r) == SlotOf[r_public[r].aor]

\* The first r_public of an identity, which is all that get_r_public() finds.
Get(id) ==
  LET l     == slot[SlotOf[id]]
      found == {i \in DOMAIN l : r_public[l[i]].aor = id}
  IN  IF found = {} THEN None ELSE l[Min(found)]

\* Chunks the allocator may give out.
Unallocated ==
  {r \in Publics : /\ r \notin InTable /\ r # pn /\ \A q \in Procs : r \notin {p[q], made[q]}}
FreeProfiles == {x \in Profiles : ref_count[x] = 0 /\ \A q \in Procs : s[q] # x}

\* Fault: The count is taken for one that starts at one, as for a single identity.
Refer_NotCounted(old, new) ==
  ref_count' = [x \in Profiles |-> ref_count[x] - (IF x = old THEN 1 ELSE 0)]

\* An identity refers to the profile new instead of old.
Refer(old, new) ==
  ref_count' = [x \in Profiles |->
    ref_count[x] + (IF x = new THEN 1 ELSE 0) - (IF x = old THEN 1 ELSE 0)]

\* new_r_public(): it reads the profile it is given.
new_r_public(q, id, state) ==
  /\ \E r \in Unallocated :
       /\ \A t \in Unallocated : r <= t
       /\ r_public' = [r_public EXCEPT ![r] =
                         [Free EXCEPT !.aor = id, !.reg_state = state, !.s = s[q]]]
       /\ made' = [made EXCEPT ![q] = r]
  /\ Refer(None, s[q]) /\ UNCHANGED <<SlotOf, slot>>

Change(r, new) == r_public' = [r_public EXCEPT ![r] = new] /\ UNCHANGED <<SlotOf, slot, ref_count>>

\* update_r_public(): the profile is replaced if one is given, with the rest in new.
Replace(r, new, profile) ==
  IF profile = None THEN Change(r, new)
  ELSE /\ r_public' = [r_public EXCEPT ![r] = [new EXCEPT !.s = profile]]
       /\ Refer(r_public[r].s, profile) /\ UNCHANGED <<SlotOf, slot>>

Link(r, new) ==
  /\ slot' = [slot EXCEPT ![Hash(r)] = Append(@, r)]
  /\ r_public' = [r_public EXCEPT ![r] = new] /\ UNCHANGED <<SlotOf, ref_count>>

\* Fault: The profile is left to the other identities.
del_r_public_KeepsProfile(r) ==
  /\ slot' = [slot EXCEPT ![Hash(r)] = RemoveFirst(@, r)]
  /\ r_public' = [r_public EXCEPT ![r] = Free] /\ UNCHANGED <<SlotOf, ref_count>>

del_r_public(r) ==
  /\ slot' = [slot EXCEPT ![Hash(r)] = RemoveFirst(@, r)]
  /\ r_public' = [r_public EXCEPT ![r] = Free]
  /\ Refer(r_public[r].s, None) /\ UNCHANGED SlotOf

-----------------------------------------------------------------------------
(* Contacts and subscribers of an r_public.                                 *)

HasValid(r) == \E x \in Devices : r.head[x] = "valid"
HasContact(r) == r.head # NoContacts

\* r_update_subscription_status(), in every S_event_reg(): without a valid contact the
\* subscriptions are over.
Event(r) == IF HasValid(r) \/ r.shead = "none" THEN r ELSE [r EXCEPT !.shead = "expired"]

\* update_contacts_help(), and the event it queues.
Refresh(r, x) == [r EXCEPT !.head[x] = "valid"]

\* A contact named in a de-registration goes, if there is one.
Drop(r, x) == IF r.head[x] = "none" THEN r ELSE Event([r EXCEPT !.head[x] = "none"])

\* The timer's pass over an identity: expired contacts, then expired subscribers.
DropExpired(r) ==
  LET left == [x \in Devices |-> IF r.head[x] = "expired" THEN "none" ELSE r.head[x]]
      seen == IF left = r.head THEN r ELSE Event([r EXCEPT !.head = left])
  IN  IF seen.shead = "expired" THEN [seen EXCEPT !.shead = "none"] ELSE seen

r_is_registered_id(id) ==
  Get(id) # None /\ r_public[Get(id)].reg_state = "REGISTERED" /\ HasValid(r_public[Get(id)])

-----------------------------------------------------------------------------
(* Locks and steps of a process.                                            *)

CanLock(h) == lock[h] = None
Take(q, h) == lock' = [lock EXCEPT ![h] = q]
Unlock(h)  == lock' = [lock EXCEPT ![h] = None]

\* Fault: The walks do not skip the identity they started with.
Others_All(id) == ImplicitSet

\* The identities of the set other than id, which the walks skip.
Others(id) == RemoveAt(ImplicitSet, CHOOSE i \in DOMAIN ImplicitSet : ImplicitSet[i] = id)
Walked(q) == Others(r_public[p[q]].aor)[idx[q]]

\* Fault: get_r_public() in a walk.
CanLockToo_Plain(q, id) == CanLock(SlotOf[id])

\* get_r_public_previous_lock(): the slot that is held already is not asked for.
CanLockToo(q, id) == CanLock(SlotOf[id]) \/ SlotOf[id] = Hash(p[q])

Goto(q, where) == pc' = [pc EXCEPT ![q] = where]
Keep == UNCHANGED <<calls, crashed>>
Stay(q, where) == Goto(q, where) /\ UNCHANGED <<kind, on, dev, p, made, idx, s>>

\* A profile that no identity took stays allocated when its process is done: a leak,
\* which the model gives back.
Done(q) ==
  /\ pc' = [pc EXCEPT ![q] = "idle"] /\ kind' = [kind EXCEPT ![q] = None]
  /\ on' = [on EXCEPT ![q] = None] /\ dev' = [dev EXCEPT ![q] = None]
  /\ p' = [p EXCEPT ![q] = None] /\ made' = [made EXCEPT ![q] = None]
  /\ idx' = [idx EXCEPT ![q] = 1] /\ s' = [s EXCEPT ![q] = None]

Crash(why) == crashed' = why /\ UNCHANGED <<tabVars, locVars, lock, pn, calls>>

-----------------------------------------------------------------------------
(* SIP processes: S_assign_server(), S_assign_server_unreg(), S_subscribe().*)

\* What the identity's state allows, read under its slot and used after it is let go.
Allowed(k, id) ==
  LET r == Get(id) IN
  \/ k = "register"
  \/ k = "deregister" /\ r # None
  \/ k = "call" /\ (r # None => r_public[r].reg_state = "NOT_REGISTERED")
  \/ k = "subscribe" /\ r_is_registered_id(id)

\* Contacts are left after a de-registration, so the HSS is not told.
ContactsLeft(k, id, x) ==
  k = "deregister" /\ \E y \in Devices \ {x} : r_public[Get(id)].head[y] # "none"

Begin(q, k, id, x) ==
  /\ pc[q] = "idle" /\ calls < MaxCalls /\ calls' = calls + 1
  /\ CanLock(SlotOf[id]) /\ Allowed(k, id)
  /\ Goto(q, IF k = "subscribe" \/ ContactsLeft(k, id, x) THEN "update" ELSE "sar")
  /\ kind' = [kind EXCEPT ![q] = IF k = "register" /\ r_is_registered_id(id) THEN "refresh" ELSE k]
  /\ on' = [on EXCEPT ![q] = id] /\ dev' = [dev EXCEPT ![q] = x]
  /\ UNCHANGED <<p, made, idx, s, tabVars, lock, pn, crashed>>

SARFails(q) ==
  /\ pc[q] = "sar" /\ Done(q)
  /\ UNCHANGED <<tabVars, lock, pn>> /\ Keep

\* SAR() and save_location(): the answer to a registration brings a profile, to a
\* refresh it may, to a de-registration it does not.
SAR(q) ==
  /\ pc[q] = "sar" /\ Goto(q, "update")
  /\ \/ kind[q] \in {"refresh", "deregister"} /\ UNCHANGED s
     \/ /\ kind[q] # "deregister"
        /\ \E x \in FreeProfiles : (\A y \in FreeProfiles : x <= y) /\ s' = [s EXCEPT ![q] = x]
  /\ UNCHANGED <<kind, on, dev, p, made, idx, tabVars, lock, pn>> /\ Keep

-----------------------------------------------------------------------------
(* Registration and calls to unregistered users: one slot at a time.        *)

OneByOne(q) == kind[q] \in {"register", "call"}
NewState(q) == IF kind[q] = "call" THEN "UNREGISTERED" ELSE "REGISTERED"
Content(q, r) ==
  LET new == [r EXCEPT !.reg_state = NewState(q)]
  IN  IF kind[q] = "call" THEN new ELSE Refresh(new, dev[q])

NextIdentity(q) ==
  IF idx[q] = Len(ImplicitSet) THEN Done(q)
  ELSE /\ idx' = [idx EXCEPT ![q] = @ + 1] /\ Goto(q, "update")
       /\ made' = [made EXCEPT ![q] = None] /\ UNCHANGED <<kind, on, dev, p, s>>

\* The identities that got the profile so far are gone, and it with them, while the walk
\* still reads it.
ProfileFreed(q) == idx[q] > 1 /\ ref_count[s[q]] = 0
UpdateFreed(q) == pc[q] = "update" /\ OneByOne(q) /\ ProfileFreed(q) /\ Crash("profile")

UpdateFound(q) ==
  LET id == ImplicitSet[idx[q]] IN
  /\ pc[q] = "update" /\ OneByOne(q) /\ ~ProfileFreed(q) /\ CanLock(SlotOf[id]) /\ Get(id) # None
  /\ Replace(Get(id), Content(q, r_public[Get(id)]), s[q])
  /\ NextIdentity(q)
  /\ UNCHANGED <<lock, pn>> /\ Keep

\* update_r_public() did not find it: the slot is let go and a new one made.
UpdateMissing(q) ==
  LET id == ImplicitSet[idx[q]] IN
  /\ pc[q] = "update" /\ OneByOne(q) /\ ~ProfileFreed(q) /\ CanLock(SlotOf[id]) /\ Get(id) = None
  /\ new_r_public(q, id, NewState(q)) /\ Goto(q, "add")
  /\ UNCHANGED <<kind, on, dev, p, idx, s, lock, pn>> /\ Keep

\* add_r_public() links it at the end of the slot, whatever is there by now.
AddPublic(q) ==
  /\ pc[q] = "add" /\ CanLock(Hash(made[q]))
  /\ Link(made[q], Content(q, r_public[made[q]]))
  /\ NextIdentity(q)
  /\ UNCHANGED <<lock, pn>> /\ Keep

-----------------------------------------------------------------------------
(* Refresh, de-registration and subscription keep the slot of the identity. *)

UpdateOwn(q) ==
  LET r == Get(on[q]) IN
  /\ pc[q] = "update" /\ ~OneByOne(q) /\ CanLock(SlotOf[on[q]]) /\ r # None
  /\ Take(q, SlotOf[on[q]])
  /\ Change(r, CASE kind[q] = "refresh"    -> Refresh(r_public[r], dev[q])
                 [] kind[q] = "deregister" -> Drop(r_public[r], dev[q])
                 [] kind[q] = "subscribe"  -> Event([r_public[r] EXCEPT !.shead = "valid"]))
  /\ p' = [p EXCEPT ![q] = r]
  /\ Goto(q, IF r_public[r].s = None \/ Others(on[q]) = <<>> THEN "finish" ELSE "set")
  /\ UNCHANGED <<kind, on, dev, made, idx, s, pn>> /\ Keep

\* It is gone by now: an error, and for a subscription add_r_public() without a profile.
UpdateGone(q) ==
  /\ pc[q] = "update" /\ ~OneByOne(q) /\ CanLock(SlotOf[on[q]]) /\ Get(on[q]) = None
  /\ IF kind[q] = "subscribe" THEN Crash("profile")
     ELSE Done(q) /\ UNCHANGED <<tabVars, lock, pn>> /\ Keep

NextOther(q) ==
  /\ IF idx[q] = Len(Others(r_public[p[q]].aor)) THEN Goto(q, "finish") /\ UNCHANGED idx
     ELSE idx' = [idx EXCEPT ![q] = @ + 1] /\ Goto(q, "set")
  /\ made' = [made EXCEPT ![q] = None] /\ UNCHANGED <<kind, on, dev, p, s>>

SetRefresh(q) ==
  LET r == Get(Walked(q)) IN
  /\ pc[q] = "set" /\ kind[q] = "refresh" /\ CanLockToo(q, Walked(q)) /\ r # None
  /\ Replace(r, Refresh([r_public[r] EXCEPT !.reg_state = "REGISTERED"], dev[q]), s[q])
  /\ NextOther(q)
  /\ UNCHANGED <<lock, pn>> /\ Keep

\* Fault: A missing profile is no reason to stop.
SetMissing_NoProfile(q) ==
  /\ pc[q] = "set" /\ kind[q] = "refresh" /\ CanLockToo(q, Walked(q)) /\ Get(Walked(q)) = None
  /\ new_r_public(q, Walked(q), "REGISTERED") /\ Goto(q, "addset")
  /\ UNCHANGED <<kind, on, dev, p, idx, s, lock, pn>> /\ Keep

\* Another identity of the set is missing: its slot is let go and one made from the
\* profile of the answer, which there may be none of.
SetMissing(q) ==
  /\ pc[q] = "set" /\ kind[q] = "refresh" /\ CanLockToo(q, Walked(q)) /\ Get(Walked(q)) = None
  /\ IF s[q] = None THEN Crash("profile")
     ELSE /\ new_r_public(q, Walked(q), "REGISTERED") /\ Goto(q, "addset")
          /\ UNCHANGED <<kind, on, dev, p, idx, s, lock, pn>> /\ Keep

SetAdd(q) ==
  /\ pc[q] = "addset" /\ CanLockToo(q, r_public[made[q]].aor)
  /\ Link(made[q], Refresh(r_public[made[q]], dev[q]))
  /\ NextOther(q)
  /\ UNCHANGED <<lock, pn>> /\ Keep

\* De-registration passes an uninitialised reg_state to update_r_public_previous_lock():
\* an identity that is there gets any state, and goes if its last contact does.
SetDeregister(q) ==
  LET r == Get(Walked(q)) IN
  /\ pc[q] = "set" /\ kind[q] = "deregister" /\ CanLockToo(q, Walked(q)) /\ r # None
  /\ \E state \in States :
       LET new == Drop([r_public[r] EXCEPT !.reg_state = state], dev[q])
       IN  IF HasContact(new) THEN Change(r, new) ELSE del_r_public(r)
  /\ NextOther(q)
  /\ UNCHANGED <<lock, pn>> /\ Keep

\* One that is missing is added, without a profile, unless the state is NOT_REGISTERED.
SetDeregisterMissing(q) ==
  /\ pc[q] = "set" /\ kind[q] = "deregister" /\ CanLockToo(q, Walked(q)) /\ Get(Walked(q)) = None
  /\ \/ Crash("profile")
     \/ NextOther(q) /\ UNCHANGED <<tabVars, lock, pn>> /\ Keep

\* r_get_reginfo_full() reads the other identities, each under its slot.
SetSubscribe(q) ==
  /\ pc[q] = "set" /\ kind[q] = "subscribe" /\ CanLockToo(q, Walked(q))
  /\ NextOther(q)
  /\ UNCHANGED <<tabVars, lock, pn>> /\ Keep

Finish(q) ==
  /\ pc[q] = "finish"
  /\ IF kind[q] = "deregister" /\ ~HasContact(r_public[p[q]]) THEN del_r_public(p[q])
     ELSE UNCHANGED tabVars
  /\ Unlock(Hash(p[q])) /\ Done(q)
  /\ UNCHANGED pn /\ Keep

SipStep(q) ==
  \/ SAR(q) \/ SARFails(q)
  \/ UpdateFreed(q) \/ UpdateFound(q) \/ UpdateMissing(q) \/ AddPublic(q)
  \/ UpdateOwn(q) \/ UpdateGone(q)
  \/ SetRefresh(q) \/ SetMissing(q) \/ SetAdd(q)
  \/ SetDeregister(q) \/ SetDeregisterMissing(q) \/ SetSubscribe(q) \/ Finish(q)

-----------------------------------------------------------------------------
(* registrar_timer(): slot by slot, with the slot held.                     *)

NextPublic(r) ==
  LET l == slot[Hash(r)]
      later == {i \in DOMAIN l : i > 1 /\ l[i - 1] = r}
  IN  IF later = {} THEN None ELSE l[CHOOSE i \in later : TRUE]

\* On to the r_public that was next, or to the next slot.
GoOn(h, next) ==
  /\ p' = [p EXCEPT ![Timer] = next] /\ pn' = None
  /\ IF next # None THEN Goto(Timer, "public") /\ UNCHANGED <<lock, idx>>
     ELSE Goto(Timer, "idle") /\ Unlock(h) /\ idx' = [idx EXCEPT ![Timer] = (h % Slots) + 1]
  /\ UNCHANGED <<kind, on, dev, made, s>>

TimerSlot ==
  LET h == idx[Timer] IN
  /\ pc[Timer] = "idle" /\ CanLock(h)
  /\ IF slot[h] = <<>> THEN idx' = [idx EXCEPT ![Timer] = (h % Slots) + 1] /\ UNCHANGED <<pc, p, lock>>
     ELSE /\ Take(Timer, h) /\ p' = [p EXCEPT ![Timer] = Head(slot[h])]
          /\ Goto(Timer, "public") /\ UNCHANGED idx
  /\ UNCHANGED <<kind, on, dev, made, s, tabVars, pn>> /\ Keep

TimerPublic ==
  LET r == p[Timer]
      new == DropExpired(r_public[r])
  IN  /\ pc[Timer] = "public"
      /\ IF r \notin InTable THEN Crash("next")
         ELSE /\ Keep
              /\ IF HasContact(new) \/ new.reg_state = "UNREGISTERED"
                    \/ (new.reg_state = "NOT_REGISTERED" /\ new.shead # "none")
                 THEN Change(r, new) /\ GoOn(Hash(r), NextPublic(r))
                 ELSE IF new.reg_state = "NOT_REGISTERED"
                 THEN del_r_public(r) /\ GoOn(Hash(r), NextPublic(r))
                 ELSE /\ Change(r, new) /\ pn' = NextPublic(r)
                      /\ Stay(Timer, "timersar") /\ UNCHANGED lock

TimerSARFails ==
  /\ pc[Timer] = "timersar" /\ GoOn(Hash(p[Timer]), pn)
  /\ UNCHANGED tabVars /\ Keep

\* p->s->private_identity is read for the SAR.
TimerSAR ==
  /\ pc[Timer] = "timersar"
  /\ IF r_public[p[Timer]].s = None THEN Crash("profile")
     ELSE /\ pc' = [pc EXCEPT ![Timer] = "timerset"] /\ idx' = [idx EXCEPT ![Timer] = 1]
          /\ UNCHANGED <<kind, on, dev, p, made, s, tabVars, lock, pn>> /\ Keep

\* An identity of the same set, under its slot too: de-registered if it has no contact.
TimerSet ==
  LET r == Get(Walked(Timer))
      new == DropExpired(r_public[r])
  IN  /\ pc[Timer] = "timerset" /\ idx[Timer] <= Len(Others(r_public[p[Timer]].aor))
      /\ CanLockToo(Timer, Walked(Timer))
      /\ IF r = None THEN UNCHANGED tabVars
         ELSE IF HasContact(new) THEN Change(r, new)
         ELSE IF new.shead = "none" THEN del_r_public(r)
         ELSE Change(r, [new EXCEPT !.reg_state = "NOT_REGISTERED"])
      /\ idx' = [idx EXCEPT ![Timer] = @ + 1]
      /\ UNCHANGED <<pc, kind, on, dev, p, made, s, lock, pn>> /\ Keep

TimerLast ==
  LET r == p[Timer] IN
  /\ pc[Timer] = "timerset" /\ idx[Timer] > Len(Others(r_public[r].aor))
  /\ IF r_public[r].shead = "none" THEN del_r_public(r)
     ELSE Change(r, [r_public[r] EXCEPT !.reg_state = "NOT_REGISTERED"])
  /\ GoOn(Hash(r), pn)
  /\ Keep

TimerStep ==
  TimerSlot \/ TimerPublic \/ TimerSAR \/ TimerSARFails \/ TimerSet \/ TimerLast

-----------------------------------------------------------------------------
\* Time passes, or the HSS ends a registration (r_public_expire()): the contacts of an
\* identity, or its subscriptions, are over.
Expire(r) ==
  /\ r \in InTable
  /\ \/ /\ HasValid(r_public[r])
        /\ r_public' = [r_public EXCEPT ![r].head = [x \in Devices |->
                          IF @[x] = "valid" THEN "expired" ELSE @[x]]]
     \/ /\ r_public[r].shead = "valid"
        /\ r_public' = [r_public EXCEPT ![r].shead = "expired"]
  /\ UNCHANGED <<SlotOf, slot, ref_count, locVars, lock, pn>> /\ Keep

Next ==
  /\ crashed = "no"
  /\ \/ \E q \in SipProcs : SipStep(q) \/ \E k \in Kinds, id \in Ids, x \in Devices : Begin(q, k, id, x)
     \/ TimerStep
     \/ \E r \in Publics : Expire(r)

Spec == Init /\ [][Next]_vars

\* Processes run; the HSS answers, and does not refuse the timer's SAR for ever.
FairSpec ==
  /\ Spec /\ WF_vars(crashed = "no" /\ TimerStep) /\ SF_vars(crashed = "no" /\ TimerSAR)
  /\ \A q \in SipProcs : WF_vars(crashed = "no" /\ SipStep(q))

-----------------------------------------------------------------------------
(* Properties                                                               *)

\* A profile is counted once for each identity that refers to it, the ones a process
\* has made and not linked included: it is freed with the last of them and not before
\* (ims_subscription.ref_count).
RefsCounted ==
  \A x \in Profiles :
    ref_count[x] = Cardinality({r \in InTable \cup (Range(made) \ {None}) : r_public[r].s = x})

\* The identity whose slot a process keeps while it walks the set or waits for the HSS
\* stays in the table and the slot is its own, whatever others add and delete.
HeldIsLive ==
  \A q \in Procs :
    p[q] # None /\ pc[q] # "public" => p[q] \in InTable /\ lock[Hash(p[q])] = q

\* A registered identity has a profile, which the timer reads without asking
\* (p->s->private_identity), also where a walk of the set has added it.
RegisteredHasProfile ==
  \A r \in InTable : r_public[r].reg_state = "REGISTERED" => r_public[r].s # None

\* An identity is in the table once, "to avoid unreachable duplicates".
InTableOnce ==
  \A r, t \in InTable : r_public[r].aor = r_public[t].aor => r = t

\* Two processes that each keep a slot the other asks for.
Waits(q) ==
  CASE pc[q] \in {"set", "timerset"} /\ idx[q] <= Len(Others(r_public[p[q]].aor)) -> SlotOf[Walked(q)]
    [] pc[q] = "addset" -> Hash(made[q])
    [] OTHER -> None
Crossed ==
  \E q, u \in Procs : /\ q # u /\ Waits(q) # None /\ Waits(u) # None
                      /\ lock[Waits(q)] = u /\ lock[Waits(u)] = q

\* Registered identities without a valid contact are removed or registered again in
\* the end, the duplicates that no request can find included, unless two walks of sets
\* have crossed.
RanOut == {r \in InTable : ~HasValid(r_public[r]) /\ r_public[r].reg_state = "REGISTERED"}
ExpiredIsRemoved == (RanOut # {}) ~> (RanOut = {} \/ Crossed \/ crashed # "no")
=============================================================================
