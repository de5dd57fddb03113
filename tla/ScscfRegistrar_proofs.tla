----------------------- MODULE ScscfRegistrar_proofs -----------------------
(***************************************************************************)
(* Proofs about the S-CSCF's table of public identities, for any implicit  *)
(* set, hash, devices, processes and number of requests.                   *)
(***************************************************************************)
EXTENDS ScscfRegistrar, FiniteSetTheorems, SequenceTheorems, TLAPS

-----------------------------------------------------------------------------
(* Sequences.                                                               *)

LEMMA LeastExists ==
  ASSUME NEW N, N \subseteq Nat, N # {}
  PROVE  Min(N) \in N /\ \A n \in N : Min(N) <= n
<1> DEFINE Less == {ss \in Nat \X Nat : ss[1] < ss[2]}
<1>1. IsWellFoundedOn(Less, Nat)
  BY NatLessThanWellFounded, Zenon DEF OpToRel
<1> HIDE DEF Less
<1>2. PICK m \in N : \A n \in N : <<n, m>> \notin Less
  BY <1>1, WFMin, Zenon
<1>3. \A n \in N : ~(n < m)
  BY <1>2 DEF Less
<1>4. \A n \in N : m <= n
  BY <1>3
<1> QED BY <1>4, Zenon DEF Min

LEMMA AppendRange ==
  ASSUME NEW T, NEW l \in Seq(T), NEW e \in T
  PROVE  /\ Append(l, e) \in Seq(T)
         /\ Range(Append(l, e)) = Range(l) \cup {e}
         /\ e \notin Range(l) /\ IsInjective(l) => IsInjective(Append(l, e))
<1> DEFINE a == Append(l, e)
<1>1. a \in Seq(T) /\ Len(a) = Len(l) + 1
  OBVIOUS
<1>2. a[Len(l) + 1] = e /\ \A i \in 1..Len(l) : a[i] = l[i]
  OBVIOUS
<1> HIDE DEF a
<1>3. Range(a) = Range(l) \cup {e}
  <2>1. \A i \in 1..Len(a) : a[i] \in Range(l) \cup {e}
    BY <1>1, <1>2 DEF Range
  <2>2. e \in Range(a) /\ \A i \in 1..Len(l) : l[i] \in Range(a)
    BY <1>1, <1>2 DEF Range
  <2> QED BY <1>1, <2>1, <2>2 DEF Range
<1>4. e \notin Range(l) /\ IsInjective(l) => IsInjective(a)
  BY <1>1, <1>2 DEF Range, IsInjective
<1> QED BY <1>1, <1>3, <1>4 DEF a

LEMMA RemoveAtIs ==
  ASSUME NEW T, NEW l \in Seq(T), NEW i \in 1..Len(l)
  PROVE  /\ RemoveAt(l, i) \in Seq(T) /\ Len(RemoveAt(l, i)) = Len(l) - 1
         /\ \A j \in 1..(Len(l) - 1) : RemoveAt(l, i)[j] = IF j < i THEN l[j] ELSE l[j + 1]
<1> DEFINE b == SubSeq(l, 1, i - 1)
           c == SubSeq(l, i + 1, Len(l))
<1>5. b \in Seq(T) /\ Len(b) = i - 1 /\ \A j \in 1..(i - 1) : b[j] = l[j]
  OBVIOUS
<1>6. c \in Seq(T) /\ Len(c) = Len(l) - i /\ \A j \in 1..(Len(l) - i) : c[j] = l[i + j]
  OBVIOUS
<1> HIDE DEF b, c
<1>7. b \o c \in Seq(T) /\ Len(b \o c) = Len(l) - 1
  <2>1. b \in Seq(T) /\ c \in Seq(T)
    BY <1>5, <1>6
  <2>2. b \o c \in Seq(T) /\ Len(b \o c) = Len(b) + Len(c)
    BY <2>1
  <2> QED BY <2>2, <1>5, <1>6
<1>8. ASSUME NEW j \in 1..(Len(l) - 1) PROVE (b \o c)[j] = IF j < i THEN l[j] ELSE l[j + 1]
  <2>1. CASE j < i
    BY <2>1, <1>5, <1>6
  <2>2. CASE ~(j < i)
    <3>1. j - (i - 1) \in 1..(Len(l) - i) /\ (b \o c)[j] = c[j - (i - 1)]
      BY <2>2, <1>5, <1>6
    <3>2. i + (j - (i - 1)) = j + 1
      OBVIOUS
    <3> QED BY <2>2, <3>1, <3>2, <1>6
  <2> QED BY <2>1, <2>2
<1> QED BY <1>7, <1>8 DEF b, c, RemoveAt

\* What is removed from a sequence without repetitions is gone, and nothing else.
LEMMA RemoveAtRange ==
  ASSUME NEW T, NEW l \in Seq(T), NEW i \in 1..Len(l), IsInjective(l)
  PROVE  /\ RemoveAt(l, i) \in Seq(T) /\ Len(RemoveAt(l, i)) = Len(l) - 1
         /\ Range(RemoveAt(l, i)) = Range(l) \ {l[i]}
         /\ IsInjective(RemoveAt(l, i))
<1> DEFINE t == RemoveAt(l, i)
           e == l[i]
<1>1. \A j \in 1..(Len(l) - 1) : t[j] = IF j < i THEN l[j] ELSE l[j + 1]
  BY RemoveAtIs
<1>2. t \in Seq(T) /\ Len(t) = Len(l) - 1
  BY RemoveAtIs
<1> HIDE DEF t
<1>3. \A j, k \in 1..Len(l) : l[j] = l[k] => j = k
  BY DEF IsInjective
<1>4. IsInjective(t)
  BY <1>1, <1>2, <1>3 DEF IsInjective
<1>5. \A j \in 1..Len(t) : t[j] \in Range(l) \ {e}
  BY <1>1, <1>2, <1>3 DEF Range
<1>6. ASSUME NEW j \in 1..Len(l), l[j] # e PROVE \E k \in 1..Len(t) : t[k] = l[j]
  <2>1. CASE j < i
    BY <2>1, <1>1, <1>2
  <2>2. CASE j > i
    <3>1. j - 1 \in 1..Len(t) /\ t[j - 1] = l[j]
      BY <2>2, <1>1, <1>2
    <3> QED BY <3>1
  <2> QED BY <2>1, <2>2, <1>6
<1>7. Range(t) = Range(l) \ {e}
  <2>1. Range(t) \subseteq Range(l) \ {e}
    BY <1>2, <1>5 DEF Range
  <2>2. Range(l) \ {e} \subseteq Range(t)
    BY <1>2, <1>6 DEF Range
  <2> QED BY <2>1, <2>2
<1> QED BY <1>2, <1>4, <1>7 DEF t

LEMMA RemoveFirstRange ==
  ASSUME NEW T, NEW l \in Seq(T), NEW e \in Range(l), IsInjective(l)
  PROVE  /\ RemoveFirst(l, e) \in Seq(T)
         /\ Range(RemoveFirst(l, e)) = Range(l) \ {e}
         /\ IsInjective(RemoveFirst(l, e))
<1> DEFINE I == {i \in 1..Len(l) : l[i] = e}
           i == Min(I)
<1>1. I # {} /\ I \subseteq Nat
  BY DEF Range
<1>2. i \in I
  BY <1>1, LeastExists
<1>3. RemoveFirst(l, e) = RemoveAt(l, i)
  BY <1>1 DEF RemoveFirst, SelectInSeq
<1> HIDE DEF i
<1>4. i \in 1..Len(l) /\ l[i] = e
  BY <1>2
<1> QED BY <1>3, <1>4, RemoveAtRange

LEMMA OthersAre ==
  ASSUME NEW id \in Ids
  PROVE  /\ Others(id) \in Seq(Ids) /\ Len(Others(id)) = Len(ImplicitSet) - 1
         /\ \A i \in 1..Len(Others(id)) : Others(id)[i] \in Ids \ {id}
<1> DEFINE k == CHOOSE i \in DOMAIN ImplicitSet : ImplicitSet[i] = id
<1>1. /\ ImplicitSet \in Seq(Ids) /\ IsInjective(ImplicitSet) /\ Ids = Range(ImplicitSet)
  BY RegistrarAssumption DEF Ids
<1>2. k \in 1..Len(ImplicitSet) /\ ImplicitSet[k] = id
  <2>1. \E i \in DOMAIN ImplicitSet : ImplicitSet[i] = id
    BY <1>1 DEF Range
  <2> QED BY <1>1, <2>1
<1>3. Others(id) = RemoveAt(ImplicitSet, k)
  BY DEF Others
<1> HIDE DEF k
<1>4. /\ Others(id) \in Seq(Ids) /\ Range(Others(id)) = Ids \ {id}
      /\ Len(Others(id)) = Len(ImplicitSet) - 1
  BY <1>1, <1>2, <1>3, RemoveAtRange
<1> QED BY <1>4 DEF Range

-----------------------------------------------------------------------------
(* The table.                                                               *)

Contents == [aor : Ids \cup {None}, reg_state : States,
             head : [Devices -> {"none", "valid", "expired"}],
             shead : {"none", "valid", "expired"}, s : Profiles \cup {None}]

\* The types, but for the bounds of ref_count, which RefsCounted gives.
Types ==
  /\ SlotOf \in Hashes /\ slot \in [1..Slots -> Seq(Publics)]
  /\ r_public \in [Publics -> Contents] /\ ref_count \in [Profiles -> Int]
  /\ lock \in [1..Slots -> Procs \cup {None}]
  /\ pc \in [Procs -> {"idle", "sar", "update", "add", "set", "addset", "finish",
                       "public", "timersar", "timerset"}]
  /\ kind \in [Procs -> Requests \cup {None}]
  /\ on \in [Procs -> Ids \cup {None}] /\ dev \in [Procs -> Devices \cup {None}]
  /\ p \in [Procs -> Publics \cup {None}] /\ made \in [Procs -> Publics \cup {None}]
  /\ idx \in [Procs -> Nat]
  /\ s \in [Procs -> Profiles \cup {None}] /\ pn \in Publics \cup {None}
  /\ calls \in 0..MaxCalls
  /\ crashed \in {"no", "profile", "next"}

\* What is linked in a slot is of that slot, once.
SlotsRight ==
  \A h \in 1..Slots :
    /\ IsInjective(slot[h])
    /\ \A r \in Range(slot[h]) : r_public[r].aor \in Ids /\ SlotOf[r_public[r].aor] = h

\* What a process has made is its own and not linked, for an identity of the set.
MadeApart ==
  \A q \in Procs : made[q] # None =>
    /\ made[q] \notin InTable /\ r_public[made[q]].aor \in Ids
    /\ \A u \in Procs \ {q} : made[u] # made[q]

\* Exactly what is linked or made refers to a profile.
ReferIfUsed ==
  \A r \in Publics : r_public[r].s # None <=> r \in InTable \/ \E q \in Procs : made[q] = r

\* The references are counted.
Counted ==
  \A x \in Profiles : ref_count[x] = Cardinality({r \in Publics : r_public[r].s = x})

LEMMA Constants ==
  /\ None \notin Publics /\ None \notin Profiles /\ None \notin Ids /\ None \notin Procs
  /\ None \notin Requests /\ Kinds \subseteq Requests \ {"refresh"}
  /\ \A f \in Hashes : f \in [Ids -> 1..Slots]
  /\ Publics \subseteq Nat /\ Profiles \subseteq Nat /\ Slots \in Nat \ {0}
BY RegistrarAssumption DEF Publics, Profiles

LEMMA SlotRanges ==
  ASSUME Types, NEW h \in 1..Slots
  PROVE  slot[h] \in Seq(Publics) /\ Range(slot[h]) \subseteq Publics
<1>1. slot[h] \in Seq(Publics)
  BY DEF Types
<1>2. \A i \in DOMAIN slot[h] : slot[h][i] \in Publics
  BY <1>1
<1> QED BY <1>1, <1>2 DEF Range

LEMMA Linked ==
  ASSUME Types, SlotsRight, NEW r \in InTable
  PROVE  /\ r \in Publics /\ r_public[r].aor \in Ids /\ Hash(r) \in 1..Slots
         /\ r \in Range(slot[Hash(r)])
<1>1. PICK h \in 1..Slots : r \in Range(slot[h])
  BY DEF InTable
<1>2. slot[h] \in Seq(Publics)
  BY DEF Types
<1>3. r \in Publics
  BY <1>1, <1>2 DEF Range
<1> QED BY <1>1, <1>3 DEF SlotsRight, Hash

\* get_r_public() gives an r_public of the identity, from its slot.
LEMMA GetFinds ==
  ASSUME Types, NEW id \in Ids, Get(id) # None
  PROVE  /\ Get(id) \in Range(slot[SlotOf[id]]) /\ r_public[Get(id)].aor = id
         /\ Get(id) \in InTable /\ Get(id) \in Publics /\ Hash(Get(id)) = SlotOf[id]
<1> DEFINE l == slot[SlotOf[id]]
           found == {i \in DOMAIN l : r_public[l[i]].aor = id}
<1>1. SlotOf[id] \in 1..Slots /\ l \in Seq(Publics)
  BY Constants DEF Types
<1>2. found # {} /\ found \subseteq Nat /\ Get(id) = l[Min(found)]
  BY <1>1 DEF Get
<1> HIDE DEF found
<1>3. Min(found) \in found
  BY <1>2, LeastExists
<1>4. Min(found) \in DOMAIN l /\ r_public[l[Min(found)]].aor = id
  BY <1>3 DEF found
<1>5. Get(id) \in Range(l) /\ r_public[Get(id)].aor = id
  BY <1>2, <1>4 DEF Range
<1> QED BY <1>1, <1>5 DEF InTable, Hash, Range

-----------------------------------------------------------------------------
(* What a step does to the table.                                           *)

\* An r_public of the table is changed, and may refer to another profile.
Rewrites(r, new) ==
  /\ r \in InTable /\ new \in Contents /\ new.aor = r_public[r].aor /\ new.s # None
  /\ r_public' = [r_public EXCEPT ![r] = new] /\ Refer(r_public[r].s, new.s)
  /\ UNCHANGED <<SlotOf, slot, made>>

\* One is made.
Makes(q, r, new) ==
  /\ r \in Unallocated /\ new \in Contents /\ new.aor \in Ids /\ new.s # None /\ made[q] = None
  /\ r_public' = [r_public EXCEPT ![r] = new] /\ Refer(None, new.s)
  /\ made' = [made EXCEPT ![q] = r] /\ UNCHANGED <<SlotOf, slot>>

\* One that was made is linked.
Links(q, new) ==
  /\ made[q] # None /\ new \in Contents
  /\ new.aor = r_public[made[q]].aor /\ new.s = r_public[made[q]].s
  /\ Link(made[q], new) /\ made' = [made EXCEPT ![q] = None]

TableStep ==
  \/ UNCHANGED <<tabVars, made>>
  \/ \E r \in Publics, new \in Contents : Rewrites(r, new)
  \/ \E q \in Procs, r \in Publics, new \in Contents : Makes(q, r, new)
  \/ \E q \in Procs, new \in Contents : Links(q, new)
  \/ \E r \in InTable : del_r_public(r) /\ UNCHANGED made

TableInv == SlotsRight /\ MadeApart /\ ReferIfUsed /\ Counted

\* The set of those that refer to a profile, after one of them changed.
Having(f, x) == {t \in Publics : f[t] = x}

LEMMA CountOne ==
  ASSUME NEW f, NEW g, NEW r \in Publics, NEW x,
         \A t \in Publics \ {r} : g[t] = f[t]
  PROVE  Cardinality(Having(g, x)) =
           Cardinality(Having(f, x)) + (IF g[r] = x THEN 1 ELSE 0)
                                     - (IF f[r] = x THEN 1 ELSE 0)
<1> DEFINE A == Having(f, x)
           B == Having(g, x)
<1>1. IsFiniteSet(Publics)
  BY FS_Interval, RegistrarAssumption DEF Publics
<1>2. IsFiniteSet(A) /\ IsFiniteSet(B) /\ A \subseteq Publics /\ B \subseteq Publics
  BY <1>1, FS_Subset, Zenon DEF Having
<1>3. Cardinality(A) \in Nat /\ Cardinality(B) \in Nat
  BY <1>2, FS_CardinalityType
<1>4. CASE g[r] = x /\ f[r] # x
  <2>1. B = A \cup {r} /\ r \notin A
    BY <1>4 DEF Having
  <2>2. Cardinality(B) = Cardinality(A) + 1
    BY <2>1, <1>2, FS_AddElement
  <2> QED BY <2>2, <1>3, <1>4
<1>5. CASE g[r] # x /\ f[r] = x
  <2>1. A = B \cup {r} /\ r \notin B
    BY <1>5 DEF Having
  <2>2. Cardinality(A) = Cardinality(B) + 1
    BY <2>1, <1>2, FS_AddElement
  <2> QED BY <2>2, <1>3, <1>5
<1>6. CASE g[r] = x /\ f[r] = x
  <2>1. A = B
    BY <1>6 DEF Having
  <2> QED BY <2>1, <1>3, <1>6
<1>7. CASE g[r] # x /\ f[r] # x
  <2>1. Cardinality(A) = Cardinality(B)
    BY <1>7 DEF Having
  <2> QED BY <2>1, <1>3, <1>7
<1> QED BY <1>4, <1>5, <1>6, <1>7

TableTypes ==
  /\ SlotOf \in Hashes /\ slot \in [1..Slots -> Seq(Publics)]
  /\ r_public \in [Publics -> Contents] /\ ref_count \in [Profiles -> Int]
  /\ made \in [Procs -> Publics \cup {None}]

\* One content is changed, and the profiles are counted for it.
LEMMA CountedNext ==
  ASSUME Types, Counted, NEW r \in Publics, NEW new \in Contents,
         r_public' = [r_public EXCEPT ![r] = new], Refer(r_public[r].s, new.s)
  PROVE  Counted'
<1> SUFFICES ASSUME NEW x \in Profiles
             PROVE  ref_count'[x] = Cardinality({t \in Publics : r_public'[t].s = x})
  BY DEF Counted
<1> DEFINE f == [t \in Publics |-> r_public[t].s]
           g == [t \in Publics |-> r_public'[t].s]
<1>1. \A t \in Publics \ {r} : g[t] = f[t]
  BY DEF Types
<1>2. f[r] = r_public[r].s /\ g[r] = new.s
  BY DEF Types
<1>3. /\ {t \in Publics : r_public[t].s = x} = Having(f, x)
      /\ {t \in Publics : r_public'[t].s = x} = Having(g, x)
  BY DEF Having
<1> HIDE DEF f, g
<1>4. Cardinality(Having(g, x)) =
        Cardinality(Having(f, x)) + (IF g[r] = x THEN 1 ELSE 0)
                                  - (IF f[r] = x THEN 1 ELSE 0)
  BY <1>1, CountOne
<1>5. ref_count[x] = Cardinality(Having(f, x)) /\ ref_count[x] \in Int
  BY <1>3 DEF Counted, Types
<1>6. ref_count'[x] = ref_count[x] + (IF x = new.s THEN 1 ELSE 0)
                                   - (IF x = r_public[r].s THEN 1 ELSE 0)
  BY DEF Refer
<1> QED BY <1>2, <1>3, <1>4, <1>5, <1>6

LEMMA TableNext ==
  ASSUME Types, TableInv, TableStep
  PROVE  TableInv' /\ TableTypes'
<1> USE DEF TableInv, TableTypes
<1>1. CASE UNCHANGED <<tabVars, made>>
  <2>1. InTable' = InTable
    BY <1>1 DEF InTable, tabVars
  <2> QED BY <1>1, <2>1 DEF tabVars, Types, SlotsRight, MadeApart, ReferIfUsed, Counted
<1>2. ASSUME NEW r \in Publics, NEW new \in Contents, Rewrites(r, new)
      PROVE  TableInv' /\ TableTypes'
  <2>1. InTable' = InTable
    BY <1>2 DEF InTable, Rewrites
  <2>2. TableTypes'
    BY <1>2 DEF Rewrites, Types, Refer
  <2>3. Counted'
    BY <1>2, CountedNext DEF Rewrites
  <2>4. \A t \in Publics : r_public'[t].aor = r_public[t].aor
    BY <1>2 DEF Rewrites, Types
  <2>5. SlotsRight'
    BY <1>2, <2>4, SlotRanges DEF SlotsRight, Rewrites
  <2>6. MadeApart'
    BY <1>2, <2>1, <2>4, Constants DEF MadeApart, Rewrites, Types
  <2>7. ReferIfUsed'
    BY <1>2, <2>1, Constants DEF ReferIfUsed, Rewrites, Types
  <2> QED BY <2>2, <2>3, <2>5, <2>6, <2>7
<1>3. ASSUME NEW q \in Procs, NEW r \in Publics, NEW new \in Contents, Makes(q, r, new)
      PROVE  TableInv' /\ TableTypes'
  <2>1. InTable' = InTable
    BY <1>3 DEF InTable, Makes
  <2>2. TableTypes'
    BY <1>3 DEF Makes, Types, Refer
  <2>3. r \notin InTable /\ \A u \in Procs : made[u] # r
    BY <1>3 DEF Makes, Unallocated
  <2>4. r_public[r].s = None
    BY <2>3 DEF ReferIfUsed
  <2>5. Counted'
    BY <1>3, <2>4, CountedNext DEF Makes
  <2>6. SlotsRight'
    <3>1. \A h \in 1..Slots : r \notin Range(slot[h]) /\ Range(slot[h]) \subseteq Publics
      BY <2>3, SlotRanges DEF InTable
    <3> QED BY <1>3, <3>1 DEF SlotsRight, Makes, Types
  <2>7. MadeApart'
    BY <1>3, <2>1, <2>3, Constants DEF MadeApart, Makes, Types
  <2>8. ReferIfUsed'
    BY <1>3, <2>1, <2>3, Constants DEF ReferIfUsed, Makes, Types
  <2> QED BY <2>2, <2>5, <2>6, <2>7, <2>8
<1>4. ASSUME NEW q \in Procs, NEW new \in Contents, Links(q, new)
      PROVE  TableInv' /\ TableTypes'
  <2> DEFINE r == made[q]
             k == Hash(r)
  <2>1. r \in Publics /\ r \notin InTable /\ k \in 1..Slots /\ r_public[r].aor \in Ids
    BY <1>4, Constants DEF Links, Types, MadeApart, Hash
  <2>2. \A h \in 1..Slots : r \notin Range(slot[h]) /\ Range(slot[h]) \subseteq Publics
    BY <2>1, SlotRanges DEF InTable
  <2>3. /\ slot[k] \in Seq(Publics) /\ IsInjective(slot[k])
        /\ slot' = [slot EXCEPT ![k] = Append(slot[k], r)]
    BY <1>4, <2>1 DEF Links, Link, Types, SlotsRight
  <2>4. /\ Append(slot[k], r) \in Seq(Publics) /\ IsInjective(Append(slot[k], r))
        /\ Range(Append(slot[k], r)) = Range(slot[k]) \cup {r}
    BY <2>1, <2>2, <2>3, AppendRange
  <2>5. slot' \in [1..Slots -> Seq(Publics)]
    BY <2>3, <2>4 DEF Types
  <2>6. InTable' = InTable \cup {r}
    <3>1. \A h \in 1..Slots :
            Range(slot'[h]) = IF h = k THEN Range(slot[k]) \cup {r} ELSE Range(slot[h])
      BY <2>1, <2>3, <2>4 DEF Types
    <3> QED BY <2>1, <3>1 DEF InTable
  <2>7. /\ r_public' = [r_public EXCEPT ![r] = new] /\ made' = [made EXCEPT ![q] = None]
        /\ new.aor = r_public[r].aor /\ new.s = r_public[r].s
        /\ UNCHANGED <<SlotOf, ref_count>>
    BY <1>4 DEF Links, Link
  <2> HIDE DEF r, k
  <2>8. TableTypes'
    BY <2>1, <2>5, <2>7, <1>4 DEF Types
  <2>9. \A t \in Publics : r_public'[t].aor = r_public[t].aor /\ r_public'[t].s = r_public[t].s
    BY <2>7 DEF Types
  <2>10. SlotsRight'
    <3>1. ASSUME NEW h \in 1..Slots PROVE
            /\ IsInjective(slot'[h])
            /\ \A t \in Range(slot'[h]) :
                 t \in Publics /\ r_public[t].aor \in Ids /\ SlotOf[r_public[t].aor] = h
      <4>1. CASE h = k
        BY <4>1, <2>1, <2>2, <2>3, <2>4 DEF SlotsRight, Types, Hash, k
      <4>2. CASE h # k
        BY <4>2, <2>2, <2>3 DEF SlotsRight, Types
      <4> QED BY <4>1, <4>2
    <3> QED BY <3>1, <2>7, <2>9 DEF SlotsRight
  <2>11. MadeApart'
    BY <2>1, <2>6, <2>7, <2>9 DEF MadeApart, Types, r
  <2>12. ReferIfUsed'
    BY <2>6, <2>7, <2>9, Constants DEF ReferIfUsed, Types, r
  <2>13. Counted'
    BY <2>7, <2>9 DEF Counted
  <2> QED BY <2>8, <2>10, <2>11, <2>12, <2>13
<1>5. ASSUME NEW r \in InTable, del_r_public(r), UNCHANGED made
      PROVE  TableInv' /\ TableTypes'
  <2> DEFINE k == Hash(r)
  <2>1. r \in Publics /\ k \in 1..Slots /\ r \in Range(slot[k])
    BY Linked
  <2>2. \A h \in 1..Slots : h # k => r \notin Range(slot[h])
    BY DEF SlotsRight, Hash
  <2>3. /\ slot[k] \in Seq(Publics) /\ IsInjective(slot[k])
        /\ slot' = [slot EXCEPT ![k] = RemoveFirst(slot[k], r)]
    BY <1>5, <2>1 DEF del_r_public, Types, SlotsRight
  <2>4. /\ RemoveFirst(slot[k], r) \in Seq(Publics) /\ IsInjective(RemoveFirst(slot[k], r))
        /\ Range(RemoveFirst(slot[k], r)) = Range(slot[k]) \ {r}
    BY <2>1, <2>3, RemoveFirstRange
  <2>5. slot' \in [1..Slots -> Seq(Publics)]
    BY <2>3, <2>4 DEF Types
  <2> HIDE DEF k
  <2>6. InTable' = InTable \ {r}
    <3>1. \A h \in 1..Slots :
            Range(slot'[h]) = IF h = k THEN Range(slot[k]) \ {r} ELSE Range(slot[h])
      BY <2>1, <2>3, <2>4 DEF Types
    <3> QED BY <2>1, <2>2, <3>1 DEF InTable
  <2>7. Free \in Contents
    BY DEF Free, Contents, States, NoContacts
  <2>8. r_public' = [r_public EXCEPT ![r] = Free] /\ Refer(r_public[r].s, None)
        /\ UNCHANGED <<SlotOf, made>>
    BY <1>5 DEF del_r_public
  <2>9. TableTypes'
    BY <2>1, <2>5, <2>7, <2>8 DEF Types, Refer
  <2>10. Counted'
    BY <2>1, <2>7, <2>8, CountedNext DEF Free
  <2>11. SlotsRight'
    <3>1. ASSUME NEW h \in 1..Slots PROVE
            /\ IsInjective(slot'[h])
            /\ \A t \in Range(slot'[h]) :
                 t \in Publics \ {r} /\ r_public[t].aor \in Ids /\ SlotOf[r_public[t].aor] = h
      <4>1. slot[h] \in Seq(Publics) /\ Range(slot[h]) \subseteq Publics
        BY SlotRanges
      <4>2. CASE h = k
        BY <4>1, <4>2, <2>1, <2>3, <2>4 DEF SlotsRight, Types
      <4>3. CASE h # k
        BY <4>1, <4>3, <2>2, <2>3 DEF SlotsRight, Types
      <4> QED BY <4>2, <4>3
    <3> QED BY <3>1, <2>8 DEF SlotsRight, Types
  <2>12. MadeApart'
    BY <2>1, <2>6, <2>8 DEF MadeApart, Types
  <2>13. ReferIfUsed'
    <3>1. \A q \in Procs : made[q] # r
      BY <2>1, Constants DEF MadeApart
    <3> QED BY <3>1, <2>1, <2>6, <2>8 DEF ReferIfUsed, Types, Free
  <2> QED BY <2>9, <2>10, <2>11, <2>12, <2>13
<1> QED BY <1>1, <1>2, <1>3, <1>4, <1>5 DEF TableStep

-----------------------------------------------------------------------------
(* Where the processes are.                                                 *)

SipStages ==
  \A q \in SipProcs :
    /\ pc[q] \in {"idle", "sar", "update", "add", "set", "addset", "finish"}
    /\ pc[q] # "idle" => on[q] \in Ids /\ dev[q] \in Devices /\ kind[q] # None
    /\ pc[q] \in {"idle", "sar"} => idx[q] = 1
    /\ pc[q] = "update" /\ ~OneByOne(q) => idx[q] = 1
    /\ pc[q] = "sar" => kind[q] # "subscribe"
    /\ pc[q] \in {"update", "add"} /\ OneByOne(q) =>
         s[q] # None /\ idx[q] \in 1..Len(ImplicitSet)
    /\ pc[q] = "add" => OneByOne(q)
    /\ pc[q] \in {"set", "addset"} => idx[q] \in 1..(Len(ImplicitSet) - 1)
    /\ made[q] # None <=> pc[q] \in {"add", "addset"}
    /\ p[q] # None <=> pc[q] \in {"set", "addset", "finish"}

TimerStages ==
  /\ pc[Timer] \in {"idle", "public", "timersar", "timerset"} /\ made[Timer] = None
  /\ p[Timer] # None <=> pc[Timer] # "idle"
  /\ pc[Timer] = "idle" => idx[Timer] \in 1..Slots
  /\ pc[Timer] = "timerset" => idx[Timer] > 0
  /\ pn # None => pc[Timer] \in {"timersar", "timerset"}

\* The slot of what a process keeps is locked by it and what it keeps is linked.
Held ==
  \A q \in Procs :
    p[q] # None /\ pc[q] # "public" => p[q] \in InTable /\ lock[Hash(p[q])] = q

\* What the timer comes to may have been freed; if not, it is of the slot it walks.
TimerHolds ==
  /\ pc[Timer] = "public" /\ p[Timer] \in InTable => lock[Hash(p[Timer])] = Timer
  /\ pn \in InTable => Hash(pn) = Hash(p[Timer])

\* What was freed under a process is not given out again while it keeps it.
NotMadeAgain ==
  \A q \in Procs : made[q] # None => made[q] # pn /\ \A u \in Procs : made[q] # p[u]

WalkInv == SipStages /\ TimerStages /\ Held /\ TimerHolds /\ NotMadeAgain
-----------------------------------------------------------------------------
(* Effects.                                                                 *)

\* What is linked stays, of its identity.
KeepsBut(r) ==
  /\ SlotOf' = SlotOf
  /\ \A t \in InTable \ {r} : t \in InTable' /\ r_public'[t].aor = r_public[t].aor
Keeps == KeepsBut(None)

LEMMA RewritesKeeps ==
  ASSUME Types, TableInv, NEW r \in Publics, NEW new \in Contents, Rewrites(r, new)
  PROVE  Keeps /\ InTable' = InTable
<1>1. InTable' = InTable
  BY DEF InTable, Rewrites
<1> QED BY <1>1 DEF Rewrites, Keeps, KeepsBut, Types

LEMMA MakesKeeps ==
  ASSUME Types, TableInv, NEW q \in Procs, NEW r \in Publics, NEW new \in Contents,
         Makes(q, r, new)
  PROVE  Keeps /\ InTable' = InTable
<1>1. InTable' = InTable
  BY DEF InTable, Makes
<1>2. r \notin InTable /\ InTable \subseteq Publics
  BY Linked DEF Makes, Unallocated, TableInv
<1> QED BY <1>1, <1>2 DEF Makes, Keeps, KeepsBut, Types

LEMMA LinksKeeps ==
  ASSUME Types, TableInv, NEW q \in Procs, NEW new \in Contents, Links(q, new)
  PROVE  Keeps /\ InTable' = InTable \cup {made[q]}
<1> DEFINE r == made[q]
           k == Hash(r)
<1>1. r \in Publics /\ k \in 1..Slots
  BY Constants DEF Links, Types, MadeApart, Hash, TableInv
<1>2. slot[k] \in Seq(Publics) /\ slot' = [slot EXCEPT ![k] = Append(slot[k], r)]
  BY <1>1 DEF Links, Link, Types
<1>3. Range(Append(slot[k], r)) = Range(slot[k]) \cup {r}
  BY <1>1, <1>2, AppendRange
<1> HIDE DEF k
<1>4. \A h \in 1..Slots :
        Range(slot'[h]) = IF h = k THEN Range(slot[k]) \cup {r} ELSE Range(slot[h])
  BY <1>1, <1>2, <1>3 DEF Types
<1>5. InTable' = InTable \cup {r}
  BY <1>1, <1>4 DEF InTable
<1>6. /\ r_public' = [r_public EXCEPT ![r] = new] /\ new.aor = r_public[r].aor
      /\ SlotOf' = SlotOf /\ InTable \subseteq Publics
  BY Linked DEF Links, Link, TableInv
<1> QED BY <1>5, <1>6 DEF Keeps, KeepsBut, Types

LEMMA UnlinksKeeps ==
  ASSUME Types, TableInv, NEW r \in InTable, del_r_public(r)
  PROVE  KeepsBut(r) /\ InTable' = InTable \ {r}
<1> DEFINE k == Hash(r)
<1>1. r \in Publics /\ k \in 1..Slots /\ r \in Range(slot[k])
  BY Linked DEF TableInv
<1>2. \A h \in 1..Slots : h # k => r \notin Range(slot[h])
  BY DEF SlotsRight, Hash, TableInv
<1>3. /\ slot[k] \in Seq(Publics) /\ IsInjective(slot[k])
      /\ slot' = [slot EXCEPT ![k] = RemoveFirst(slot[k], r)]
  BY <1>1 DEF del_r_public, Types, SlotsRight, TableInv
<1>4. Range(RemoveFirst(slot[k], r)) = Range(slot[k]) \ {r}
  BY <1>1, <1>3, RemoveFirstRange
<1> HIDE DEF k
<1>5. \A h \in 1..Slots :
        Range(slot'[h]) = IF h = k THEN Range(slot[k]) \ {r} ELSE Range(slot[h])
  BY <1>1, <1>3, <1>4 DEF Types
<1>6. InTable' = InTable \ {r}
  BY <1>1, <1>2, <1>5 DEF InTable
<1>7. /\ r_public' = [r_public EXCEPT ![r] = Free] /\ SlotOf' = SlotOf /\ InTable \subseteq Publics
  BY Linked DEF del_r_public, TableInv
<1> QED BY <1>6, <1>7 DEF KeepsBut, Types

LEMMA EventKept ==
  ASSUME NEW c \in Contents
  PROVE  Event(c) \in Contents /\ Event(c).aor = c.aor /\ Event(c).s = c.s
BY DEF Event, Contents

LEMMA DropExpiredKept ==
  ASSUME NEW c \in Contents
  PROVE  DropExpired(c) \in Contents /\ DropExpired(c).aor = c.aor /\ DropExpired(c).s = c.s
<1> DEFINE left == [y \in Devices |-> IF c.head[y] = "expired" THEN "none" ELSE c.head[y]]
           gone == [c EXCEPT !.head = left]
           seen == IF left = c.head THEN c ELSE Event(gone)
<1>1. left \in [Devices -> {"none", "valid", "expired"}]
  BY DEF Contents
<1> HIDE DEF left
<1>2. gone \in Contents /\ gone.aor = c.aor /\ gone.s = c.s
  BY <1>1 DEF Contents
<1> HIDE DEF gone
<1>3. seen \in Contents /\ seen.aor = c.aor /\ seen.s = c.s
  BY <1>2, EventKept
<1>4. DropExpired(c) = IF seen.shead = "expired" THEN [seen EXCEPT !.shead = "none"] ELSE seen
  BY DEF DropExpired, left, gone
<1> HIDE DEF seen
<1> QED BY <1>3, <1>4 DEF Contents

\* The contents that the steps write.
LEMMA ContentsKept ==
  ASSUME NEW c \in Contents, NEW x \in Devices, NEW state \in States
  PROVE  \A new \in {[c EXCEPT !.reg_state = state], [c EXCEPT !.shead = "valid"], Event(c),
                     Refresh(c, x), Drop(c, x), DropExpired(c)} :
           new \in Contents /\ new.aor = c.aor /\ new.s = c.s
<1>2. \A d \in Contents, v \in {"none", "valid", "expired"} :
        /\ [d EXCEPT !.shead = v] \in Contents /\ [d EXCEPT !.shead = v].aor = d.aor
        /\ [d EXCEPT !.shead = v].s = d.s
  BY DEF Contents
<1>3. \A d \in Contents : Event(d) \in Contents /\ Event(d).aor = d.aor /\ Event(d).s = d.s
  BY EventKept
<1>4. LET new == [c EXCEPT !.reg_state = state]
      IN  new \in Contents /\ new.aor = c.aor /\ new.s = c.s
  BY DEF Contents
<1>5. \A v \in {"none", "valid"} : LET new == [c EXCEPT !.head[x] = v]
      IN  new \in Contents /\ new.aor = c.aor /\ new.s = c.s
  BY DEF Contents
<1>6. Refresh(c, x) \in Contents /\ Refresh(c, x).aor = c.aor /\ Refresh(c, x).s = c.s
  BY <1>5 DEF Refresh
<1>7. Drop(c, x) \in Contents /\ Drop(c, x).aor = c.aor /\ Drop(c, x).s = c.s
  BY <1>3, <1>5 DEF Drop
<1>8. DropExpired(c) \in Contents /\ DropExpired(c).aor = c.aor /\ DropExpired(c).s = c.s
  BY DropExpiredKept
<1> QED BY <1>2, <1>3, <1>4, <1>6, <1>7, <1>8

LEMMA ChangeRewrites ==
  ASSUME Types, TableInv, NEW r \in InTable, NEW new \in Contents,
         new.aor = r_public[r].aor, new.s = r_public[r].s, Change(r, new), UNCHANGED made
  PROVE  Rewrites(r, new)
<1>1. r \in Publics /\ r_public[r].s # None
  BY Linked DEF TableInv, ReferIfUsed
<1>2. Refer(new.s, new.s)
  <2>1. \A x \in Profiles :
          ref_count[x] = ref_count[x] + (IF x = new.s THEN 1 ELSE 0) - (IF x = new.s THEN 1 ELSE 0)
    BY DEF Types
  <2>2. ref_count' = ref_count /\ ref_count = [x \in Profiles |-> ref_count[x]]
    BY DEF Change, Types
  <2> QED BY <2>1, <2>2 DEF Refer
<1> QED BY <1>1, <1>2 DEF Change, Rewrites

LEMMA ReplaceRewrites ==
  ASSUME Types, TableInv, NEW r \in InTable, NEW new \in Contents,
         new.aor = r_public[r].aor, new.s = r_public[r].s,
         NEW profile \in Profiles \cup {None}, Replace(r, new, profile), UNCHANGED made
  PROVE  \E n \in Contents : Rewrites(r, n)
<1>1. CASE profile = None
  BY <1>1, ChangeRewrites DEF Replace
<1>2. CASE profile # None
  <2> DEFINE n == [new EXCEPT !.s = profile]
  <2>1. n \in Contents /\ n.aor = r_public[r].aor /\ n.s = profile
    BY DEF Contents
  <2>2. Rewrites(r, n)
    BY <1>2, <2>1 DEF Replace, Rewrites
  <2> QED BY <2>1, <2>2
<1> QED BY <1>1, <1>2
-----------------------------------------------------------------------------
(* What a step of one process is to the others.                             *)

\* What is linked stays, but for what is in a slot nobody else holds.
TablePart(q) ==
  /\ TableStep /\ SlotOf' = SlotOf
  /\ \A r \in InTable :
       \/ r \in InTable' /\ r_public'[r].aor = r_public[r].aor
       \/ /\ r \notin InTable' /\ lock[Hash(r)] \in {None, q}
          /\ r = p[q] => pc'[q] \in {"idle", "public"}
  /\ InTable' \subseteq InTable \cup {made[q]}

\* The others stay where they are, with what they have locked.
FramePart(q) ==
  /\ \A u \in Procs \ {q} : pc'[u] = pc[u] /\ p'[u] = p[u] /\ made'[u] = made[u]
  /\ made'[q] \in {None, made[q]} \cup Unallocated
  /\ \A h \in 1..Slots : lock'[h] = lock[h] \/ lock[h] \in {None, q}

LEMMA SameTable ==
  ASSUME Types, NEW q \in Procs, UNCHANGED <<tabVars, made>>
  PROVE  TablePart(q)
<1>1. InTable' = InTable
  BY DEF InTable, tabVars
<1> QED BY <1>1 DEF TablePart, TableStep, tabVars

LEMMA RewritesPart ==
  ASSUME Types, TableInv, NEW q \in Procs, NEW r \in InTable, NEW new \in Contents, Rewrites(r, new)
  PROVE  TablePart(q)
<1>1. r \in Publics /\ None \notin InTable
  BY Linked, Constants DEF TableInv
<1>2. Keeps /\ InTable' = InTable
  BY <1>1, RewritesKeeps
<1> QED BY <1>1, <1>2 DEF TablePart, TableStep, Keeps, KeepsBut

LEMMA MakesPart ==
  ASSUME Types, TableInv, NEW q \in Procs, NEW r \in Publics, NEW new \in Contents,
         Makes(q, r, new)
  PROVE  TablePart(q)
<1>1. None \notin InTable
  BY Linked, Constants DEF TableInv
<1>2. Keeps /\ InTable' = InTable
  BY MakesKeeps
<1> QED BY <1>1, <1>2 DEF TablePart, TableStep, Keeps, KeepsBut

LEMMA LinksPart ==
  ASSUME Types, TableInv, NEW q \in Procs, NEW new \in Contents, Links(q, new)
  PROVE  TablePart(q)
<1>1. None \notin InTable
  BY Linked, Constants DEF TableInv
<1>2. Keeps /\ InTable' = InTable \cup {made[q]}
  BY LinksKeeps
<1> QED BY <1>1, <1>2 DEF TablePart, TableStep, Keeps, KeepsBut

LEMMA UnlinksPart ==
  ASSUME Types, TableInv, NEW q \in Procs, NEW r \in InTable, del_r_public(r), UNCHANGED made,
         lock[Hash(r)] \in {None, q}, r = p[q] => pc'[q] \in {"idle", "public"}
  PROVE  TablePart(q)
<1>1. KeepsBut(r) /\ InTable' = InTable \ {r}
  BY UnlinksKeeps
<1> QED BY <1>1 DEF TablePart, TableStep, KeepsBut

\* A walk asks for an identity other than the one it keeps, whose slot is free or its own.
LEMMA WalkedIs ==
  ASSUME Types, TableInv, Held, NEW q \in Procs, p[q] # None, pc[q] # "public",
         idx[q] \in 1..(Len(ImplicitSet) - 1), CanLockToo(q, Walked(q))
  PROVE  /\ Walked(q) \in Ids /\ Walked(q) # r_public[p[q]].aor
         /\ lock[SlotOf[Walked(q)]] \in {None, q}
<1>1. p[q] \in InTable /\ lock[Hash(p[q])] = q
  BY DEF Held
<1>2. r_public[p[q]].aor \in Ids
  BY <1>1, Linked DEF TableInv
<1>3. Walked(q) \in Ids \ {r_public[p[q]].aor}
  BY <1>2, OthersAre DEF Walked
<1> QED BY <1>1, <1>3 DEF CanLockToo, CanLock

LEMMA StepContents ==
  ASSUME Types, NEW q \in SipProcs, NEW r \in Publics, pc[q] # "idle", SipStages
  PROVE  /\ r_public[r] \in Contents /\ dev[q] \in Devices /\ NewState(q) \in States
         /\ \A new \in {Content(q, r_public[r]), Refresh(r_public[r], dev[q]),
                        Drop(r_public[r], dev[q]),
                        Event([r_public[r] EXCEPT !.shead = "valid"]),
                        Refresh([r_public[r] EXCEPT !.reg_state = "REGISTERED"], dev[q])} :
              new \in Contents /\ new.aor = r_public[r].aor /\ new.s = r_public[r].s
         /\ \A state \in States :
              LET new == Drop([r_public[r] EXCEPT !.reg_state = state], dev[q])
              IN  new \in Contents /\ new.aor = r_public[r].aor /\ new.s = r_public[r].s
<1>1. r_public[r] \in Contents /\ dev[q] \in Devices
  BY DEF Types, SipStages
<1>2. NewState(q) \in States /\ "REGISTERED" \in States
  BY DEF NewState, States
<1> DEFINE c == r_public[r]
           Same(new) == new \in Contents /\ new.aor = c.aor /\ new.s = c.s
           Sub == [c EXCEPT !.shead = "valid"]
           Reg(state) == [c EXCEPT !.reg_state = state]
<1> HIDE DEF c
<1>3. Same(Sub) /\ \A state \in States : Same(Reg(state))
  BY <1>1 DEF Contents, c
<1> HIDE DEF Sub, Reg
<1>4. Same(Refresh(c, dev[q])) /\ Same(Drop(c, dev[q]))
  BY <1>1, <1>2, ContentsKept DEF c
<1>5. Same(Event(Sub))
  BY <1>1, <1>2, <1>3, ContentsKept
<1>6. \A state \in States : Same(Refresh(Reg(state), dev[q])) /\ Same(Drop(Reg(state), dev[q]))
  <2> SUFFICES ASSUME NEW state \in States
               PROVE  Same(Refresh(Reg(state), dev[q])) /\ Same(Drop(Reg(state), dev[q]))
    OBVIOUS
  <2>1. Same(Reg(state)) /\ Reg(state) \in Contents
    BY <1>3
  <2> QED BY <1>1, <1>2, <2>1, ContentsKept
<1> HIDE DEF Same
<1>7. Same(Content(q, c))
  BY <1>2, <1>3, <1>6 DEF Content, Reg
<1> QED BY <1>1, <1>2, <1>4, <1>5, <1>6, <1>7 DEF c, Same, Sub, Reg

\* new_r_public() for an identity of the set, with a profile.
LEMMA NewIsMade ==
  ASSUME Types, NEW q \in Procs, NEW id \in Ids, NEW state \in States,
         s[q] # None, made[q] = None, new_r_public(q, id, state)
  PROVE  \E r \in Publics, new \in Contents : Makes(q, r, new)
<1>1. PICK r \in Unallocated :
        /\ r_public' = [r_public EXCEPT ![r] = [Free EXCEPT !.aor = id, !.reg_state = state, !.s = s[q]]]
        /\ made' = [made EXCEPT ![q] = r]
  BY DEF new_r_public
<1> DEFINE new == [Free EXCEPT !.aor = id, !.reg_state = state, !.s = s[q]]
<1>2. new \in Contents /\ new.aor = id /\ new.s = s[q]
  BY DEF Types, Free, Contents, States, NoContacts
<1>3. r \in Publics
  BY DEF Unallocated
<1> HIDE DEF new
<1>4. Makes(q, r, new)
  BY <1>1, <1>2 DEF Makes, new_r_public, new
<1> QED BY <1>2, <1>3, <1>4

LEMMA SipTable ==
  ASSUME Types, TableInv, WalkInv, NEW q \in SipProcs, SipStep(q)
  PROVE  TablePart(q)
<1> USE DEF WalkInv
<1>0. q \in Procs /\ made[q] \in Publics \cup {None} /\ s[q] \in Profiles \cup {None}
  BY DEF Types, Procs
<1>s. /\ ImplicitSet \in Seq(Ids) /\ \A i \in 1..Len(ImplicitSet) : ImplicitSet[i] \in Ids
  BY RegistrarAssumption
<1>f. made[q] = None => [made EXCEPT ![q] = None] = made
  BY DEF Types
<1>1. CASE SAR(q)
  BY <1>0, <1>1, SameTable DEF SAR
<1>2. CASE SARFails(q)
  BY <1>0, <1>f, <1>2, SameTable DEF SARFails, Done, SipStages
<1>3. CASE UpdateFreed(q)
  BY <1>0, <1>3, SameTable DEF UpdateFreed, Crash, locVars
<1>4. CASE UpdateFound(q)
  <2> DEFINE id == ImplicitSet[idx[q]]
             r == Get(id)
  <2>1. id \in Ids /\ made[q] = None
    BY <1>4, <1>s DEF UpdateFound, SipStages
  <2>2. r \in InTable /\ r \in Publics
    BY <1>4, <2>1, GetFinds DEF UpdateFound
  <2>3. Replace(r, Content(q, r_public[r]), s[q]) /\ UNCHANGED made
    BY <1>4, <1>f, <2>1 DEF UpdateFound, NextIdentity, Done
  <2> HIDE DEF r
  <2>4. \E n \in Contents : Rewrites(r, n)
    BY <1>0, <1>4, <2>2, <2>3, StepContents, ReplaceRewrites DEF UpdateFound
  <2> QED BY <1>0, <2>2, <2>4, RewritesPart
<1>5. CASE UpdateMissing(q)
  <2>1. ImplicitSet[idx[q]] \in Ids /\ made[q] = None /\ s[q] # None
    BY <1>5, <1>s DEF UpdateMissing, SipStages
  <2>2. NewState(q) \in States
    BY DEF NewState, States
  <2> QED BY <1>0, <1>5, <2>1, <2>2, NewIsMade, MakesPart DEF UpdateMissing
<1>6. CASE AddPublic(q)
  <2> DEFINE new == Content(q, r_public[made[q]])
  <2>1. made[q] # None /\ Link(made[q], new) /\ made' = [made EXCEPT ![q] = None]
    BY <1>6 DEF AddPublic, SipStages, NextIdentity, Done
  <2>2. new \in Contents /\ new.aor = r_public[made[q]].aor /\ new.s = r_public[made[q]].s
    BY <1>0, <1>6, <2>1, StepContents DEF AddPublic
  <2> HIDE DEF new
  <2>3. Links(q, new)
    BY <2>1, <2>2 DEF Links
  <2> QED BY <1>0, <2>2, <2>3, LinksPart
<1>7. CASE UpdateOwn(q)
  <2> DEFINE r == Get(on[q])
             new == CASE kind[q] = "refresh"    -> Refresh(r_public[r], dev[q])
                      [] kind[q] = "deregister" -> Drop(r_public[r], dev[q])
                      [] kind[q] = "subscribe"  -> Event([r_public[r] EXCEPT !.shead = "valid"])
  <2>1. on[q] \in Ids /\ r # None /\ Change(r, new) /\ UNCHANGED made
    BY <1>7 DEF UpdateOwn, SipStages
  <2>2. r \in InTable /\ r \in Publics
    BY <2>1, GetFinds
  <2>3. kind[q] \in {"refresh", "deregister", "subscribe"}
    BY <1>0, <1>7 DEF UpdateOwn, OneByOne, Types, SipStages, Requests
  <2> HIDE DEF r
  <2>4. new \in Contents /\ new.aor = r_public[r].aor /\ new.s = r_public[r].s
    BY <1>7, <2>2, <2>3, StepContents DEF UpdateOwn
  <2> HIDE DEF new
  <2>5. Rewrites(r, new)
    BY <2>1, <2>2, <2>4, ChangeRewrites
  <2> QED BY <1>0, <2>2, <2>4, <2>5, RewritesPart
<1>8. CASE UpdateGone(q)
  <2>1. UNCHANGED <<tabVars, made>>
    BY <1>f, <1>8 DEF UpdateGone, Crash, Done, SipStages, locVars
  <2> QED BY <1>0, <2>1, SameTable
<1>9. ASSUME pc[q] = "set", CanLockToo(q, Walked(q)), Get(Walked(q)) # None
      PROVE  /\ Get(Walked(q)) \in InTable /\ Get(Walked(q)) \in Publics
             /\ Get(Walked(q)) # p[q] /\ lock[Hash(Get(Walked(q)))] \in {None, q}
  <2>1. p[q] # None /\ idx[q] \in 1..(Len(ImplicitSet) - 1)
    BY <1>9 DEF SipStages
  <2>2. Walked(q) \in Ids /\ Walked(q) # r_public[p[q]].aor /\ lock[SlotOf[Walked(q)]] \in {None, q}
    BY <1>0, <1>9, <2>1, WalkedIs
  <2> QED BY <1>9, <2>2, GetFinds
<1>10. ASSUME pc[q] = "set", CanLockToo(q, Walked(q)) PROVE Walked(q) \in Ids /\ made[q] = None
  BY <1>0, <1>10, WalkedIs DEF SipStages
<1>11. NextOther(q) => made' = [made EXCEPT ![q] = None]
  BY DEF NextOther
<1>12. CASE SetRefresh(q)
  <2> DEFINE r == Get(Walked(q))
  <2>1. r \in InTable /\ r \in Publics
    BY <1>9, <1>12 DEF SetRefresh
  <2>2. /\ Replace(r, Refresh([r_public[r] EXCEPT !.reg_state = "REGISTERED"], dev[q]), s[q])
        /\ UNCHANGED made
    BY <1>f, <1>10, <1>11, <1>12 DEF SetRefresh
  <2> HIDE DEF r
  <2>3. \E n \in Contents : Rewrites(r, n)
    BY <1>0, <1>12, <2>1, <2>2, StepContents, ReplaceRewrites DEF SetRefresh
  <2> QED BY <1>0, <2>1, <2>3, RewritesPart
<1>13. CASE SetMissing(q)
  <2>1. CASE s[q] = None
    BY <1>0, <1>13, <2>1, SameTable DEF SetMissing, Crash, locVars
  <2>2. CASE s[q] # None
    <3>1. Walked(q) \in Ids /\ made[q] = None /\ "REGISTERED" \in States
      BY <1>10, <1>13 DEF SetMissing, States
    <3> QED BY <1>0, <1>13, <2>2, <3>1, NewIsMade, MakesPart DEF SetMissing
  <2> QED BY <2>1, <2>2
<1>14. CASE SetAdd(q)
  <2> DEFINE new == Refresh(r_public[made[q]], dev[q])
  <2>1. made[q] # None /\ Link(made[q], new) /\ made' = [made EXCEPT ![q] = None]
    BY <1>11, <1>14 DEF SetAdd, SipStages
  <2>2. new \in Contents /\ new.aor = r_public[made[q]].aor /\ new.s = r_public[made[q]].s
    BY <1>0, <1>14, <2>1, StepContents DEF SetAdd
  <2> HIDE DEF new
  <2>3. Links(q, new)
    BY <2>1, <2>2 DEF Links
  <2> QED BY <1>0, <2>2, <2>3, LinksPart
<1>15. CASE SetDeregister(q)
  <2> DEFINE r == Get(Walked(q))
             new(state) == Drop([r_public[r] EXCEPT !.reg_state = state], dev[q])
  <2>1. r \in InTable /\ r \in Publics /\ r # p[q] /\ lock[Hash(r)] \in {None, q}
    BY <1>9, <1>15 DEF SetDeregister
  <2>2. UNCHANGED made
    BY <1>f, <1>10, <1>11, <1>15 DEF SetDeregister
  <2>3. PICK state \in States :
          IF HasContact(new(state)) THEN Change(r, new(state)) ELSE del_r_public(r)
    BY <1>15 DEF SetDeregister
  <2>4. new(state) \in Contents /\ new(state).aor = r_public[r].aor /\ new(state).s = r_public[r].s
    BY <1>15, <2>1, StepContents DEF SetDeregister
  <2> HIDE DEF r, new
  <2>5. CASE Change(r, new(state))
    BY <1>0, <2>1, <2>2, <2>4, <2>5, ChangeRewrites, RewritesPart
  <2>6. CASE del_r_public(r)
    BY <1>0, <2>1, <2>2, <2>6, UnlinksPart
  <2> QED BY <2>3, <2>5, <2>6
<1>16. CASE SetDeregisterMissing(q)
  <2>1. UNCHANGED <<tabVars, made>>
    BY <1>f, <1>10, <1>11, <1>16 DEF SetDeregisterMissing, Crash, locVars
  <2> QED BY <1>0, <2>1, SameTable
<1>17. CASE SetSubscribe(q)
  <2>1. UNCHANGED <<tabVars, made>>
    BY <1>f, <1>10, <1>11, <1>17 DEF SetSubscribe
  <2> QED BY <1>0, <2>1, SameTable
<1>18. CASE Finish(q)
  <2>1. p[q] # None /\ made[q] = None
    BY <1>18 DEF Finish, SipStages
  <2>2. p[q] \in InTable /\ lock[Hash(p[q])] = q
    BY <1>0, <1>18, <2>1 DEF Finish, Held
  <2>3. UNCHANGED made /\ pc'[q] = "idle"
    BY <1>0, <1>f, <1>18, <2>1 DEF Finish, Done, Types
  <2>4. CASE del_r_public(p[q])
    BY <1>0, <2>2, <2>3, <2>4, UnlinksPart
  <2>5. CASE UNCHANGED tabVars
    BY <1>0, <2>3, <2>5, SameTable
  <2> QED BY <1>18, <2>4, <2>5 DEF Finish
<1> QED
  BY <1>1, <1>2, <1>3, <1>4, <1>5, <1>6, <1>7, <1>8, <1>12, <1>13, <1>14, <1>15, <1>16, <1>17,
     <1>18 DEF SipStep

-----------------------------------------------------------------------------
(* The timer, time and new requests.                                        *)

LEMMA NextIs ==
  ASSUME Types, TableInv, NEW r \in InTable, NextPublic(r) # None
  PROVE  /\ NextPublic(r) \in InTable /\ NextPublic(r) \in Publics /\ NextPublic(r) # r
         /\ Hash(NextPublic(r)) = Hash(r)
<1> DEFINE l == slot[Hash(r)]
           later == {i \in DOMAIN l : i > 1 /\ l[i - 1] = r}
           k == CHOOSE i \in later : TRUE
<1>1. Hash(r) \in 1..Slots /\ l \in Seq(Publics) /\ IsInjective(l)
  BY Linked, SlotRanges DEF TableInv, SlotsRight
<1>2. later # {} /\ NextPublic(r) = l[k]
  BY DEF NextPublic
<1> HIDE DEF later
<1>3. k \in later
  BY <1>2
<1> HIDE DEF k
<1>4. k \in DOMAIN l /\ k > 1 /\ l[k - 1] = r
  BY <1>3 DEF later
<1>5. l[k] # r
  BY <1>1, <1>4 DEF IsInjective
<1>6. l[k] \in Range(l)
  BY <1>4 DEF Range
<1> QED BY <1>1, <1>2, <1>5, <1>6, Linked DEF InTable, TableInv, SlotsRight, Hash

LEMMA TimerTable ==
  ASSUME Types, TableInv, WalkInv, TimerStep
  PROVE  TablePart(Timer)
<1> USE DEF WalkInv
<1>0. Timer \in Procs
  BY DEF Procs
<1>d. \A r \in Publics :
        /\ DropExpired(r_public[r]) \in Contents /\ DropExpired(r_public[r]).aor = r_public[r].aor
        /\ DropExpired(r_public[r]).s = r_public[r].s
  <2>1. \A r \in Publics : r_public[r] \in Contents
    BY DEF Types
  <2> QED BY <2>1, DropExpiredKept
<1>r. ASSUME NEW c \in Contents
      PROVE  LET new == [c EXCEPT !.reg_state = "NOT_REGISTERED"]
             IN  new \in Contents /\ new.aor = c.aor /\ new.s = c.s
  BY DEF Contents, States
<1>1. CASE TimerSlot
  BY <1>0, <1>1, SameTable DEF TimerSlot
<1>2. CASE TimerPublic
  <2> DEFINE r == p[Timer]
             new == DropExpired(r_public[r])
  <2>1. CASE r \notin InTable
    BY <1>0, <1>2, <2>1, SameTable DEF TimerPublic, Crash, locVars
  <2>2. CASE r \in InTable
    <3>1. lock[Hash(r)] = Timer /\ r \in Publics
      BY <1>2, <2>2, Linked DEF TimerPublic, TimerHolds, TableInv
    <3>2. new \in Contents /\ new.aor = r_public[r].aor /\ new.s = r_public[r].s
      BY <3>1, <1>d
    <3>3. UNCHANGED made
      BY <1>2, <2>2 DEF TimerPublic, GoOn, Stay
    <3>4. CASE Change(r, new)
      BY <1>0, <2>2, <3>2, <3>3, <3>4, ChangeRewrites, RewritesPart
    <3>5. CASE del_r_public(r) /\ GoOn(Hash(r), NextPublic(r))
      <4>1. pc'[Timer] \in {"idle", "public"}
        BY <1>0, <3>5 DEF GoOn, Goto, Types
      <4> QED BY <1>0, <2>2, <3>1, <3>3, <3>5, <4>1, UnlinksPart
    <3> QED BY <1>2, <2>2, <3>4, <3>5 DEF TimerPublic
  <2> QED BY <2>1, <2>2
<1>3. CASE TimerSARFails
  BY <1>0, <1>3, SameTable DEF TimerSARFails, GoOn
<1>4. CASE TimerSAR
  BY <1>0, <1>4, SameTable DEF TimerSAR, Crash, locVars
<1>5. CASE TimerSet
  <2> DEFINE r == Get(Walked(Timer))
             new == DropExpired(r_public[r])
  <2>1. p[Timer] # None /\ p[Timer] \in InTable
    BY <1>0, <1>5 DEF TimerSet, TimerStages, Held
  <2>2. idx[Timer] \in 1..(Len(ImplicitSet) - 1)
    <3>1. Len(Others(r_public[p[Timer]].aor)) = Len(ImplicitSet) - 1
      BY <2>1, Linked, OthersAre DEF TableInv
    <3> QED BY <1>0, <1>5, <3>1, RegistrarAssumption DEF TimerSet, TimerStages, Types
  <2>3. /\ Walked(Timer) \in Ids /\ Walked(Timer) # r_public[p[Timer]].aor
        /\ lock[SlotOf[Walked(Timer)]] \in {None, Timer}
    BY <1>0, <1>5, <2>1, <2>2, WalkedIs DEF TimerSet
  <2>4. UNCHANGED made
    BY <1>5 DEF TimerSet
  <2>5. CASE UNCHANGED tabVars
    BY <1>0, <2>4, <2>5, SameTable
  <2>6. CASE r # None
    <3>1. r \in InTable /\ r \in Publics /\ r # p[Timer] /\ lock[Hash(r)] \in {None, Timer}
      BY <2>3, <2>6, GetFinds
    <3>2. new \in Contents /\ new.aor = r_public[r].aor /\ new.s = r_public[r].s
      BY <3>1, <1>d
    <3> DEFINE off == [new EXCEPT !.reg_state = "NOT_REGISTERED"]
    <3>3. Change(r, new) \/ Change(r, off) \/ del_r_public(r)
      BY <1>5, <2>6 DEF TimerSet
    <3> HIDE DEF r, new
    <3>4. off \in Contents /\ off.aor = r_public[r].aor /\ off.s = r_public[r].s
      BY <3>2, <1>r
    <3> HIDE DEF off
    <3>5. CASE Change(r, new)
      BY <1>0, <2>4, <3>1, <3>2, <3>5, ChangeRewrites, RewritesPart
    <3>6. CASE Change(r, off)
      BY <1>0, <2>4, <3>1, <3>4, <3>6, ChangeRewrites, RewritesPart
    <3>7. CASE del_r_public(r)
      BY <1>0, <2>4, <3>1, <3>7, UnlinksPart
    <3> QED BY <3>3, <3>5, <3>6, <3>7
  <2> QED BY <1>5, <2>5, <2>6 DEF TimerSet
<1>6. CASE TimerLast
  <2> DEFINE r == p[Timer]
             off == [r_public[r] EXCEPT !.reg_state = "NOT_REGISTERED"]
  <2>1. r \in InTable /\ lock[Hash(r)] = Timer
    BY <1>0, <1>6 DEF TimerLast, TimerStages, Held
  <2>2. r \in Publics /\ r_public[r] \in Contents
    BY <2>1, Linked DEF TableInv, Types
  <2>3. off \in Contents /\ off.aor = r_public[r].aor /\ off.s = r_public[r].s
    BY <2>2, <1>r
  <2>4. UNCHANGED made /\ pc'[Timer] \in {"idle", "public"}
    BY <1>0, <1>6 DEF TimerLast, GoOn, Goto, Types
  <2>5. CASE Change(r, off)
    BY <1>0, <2>1, <2>3, <2>4, <2>5, ChangeRewrites, RewritesPart
  <2>6. CASE del_r_public(r)
    BY <1>0, <2>1, <2>4, <2>6, UnlinksPart
  <2> QED BY <1>6, <2>5, <2>6 DEF TimerLast
<1> QED BY <1>1, <1>2, <1>3, <1>4, <1>5, <1>6 DEF TimerStep

LEMMA ExpireTable ==
  ASSUME Types, TableInv, NEW r \in Publics, Expire(r)
  PROVE  TableStep /\ Keeps /\ InTable' = InTable
<1> DEFINE c == r_public[r]
           ran == [c EXCEPT !.head = [x \in Devices |-> IF @[x] = "valid" THEN "expired" ELSE @[x]]]
           over == [c EXCEPT !.shead = "expired"]
<1>1. r \in InTable /\ c \in Contents
  BY DEF Expire, Types
<1>2. \A new \in {ran, over} : new \in Contents /\ new.aor = c.aor /\ new.s = c.s
  BY <1>1 DEF Contents
<1>3. \E new \in {ran, over} : Change(r, new) /\ UNCHANGED made
  BY DEF Expire, Change, locVars
<1> HIDE DEF c, ran, over
<1>4. PICK new \in Contents : Rewrites(r, new)
  BY <1>1, <1>2, <1>3, ChangeRewrites DEF c
<1>5. Keeps /\ InTable' = InTable
  BY <1>4, RewritesKeeps
<1> QED BY <1>4, <1>5 DEF TableStep

-----------------------------------------------------------------------------
(* Frames.                                                                  *)

LEMMA SipFrame ==
  ASSUME Types, WalkInv, NEW q \in SipProcs, SipStep(q)
  PROVE  FramePart(q)
<1> USE DEF FramePart, Types, Goto, Done, Keep, Crash, Stay, NextOther, NextIdentity, locVars
<1>0. q \in Procs
  BY DEF Procs
<1>1. CASE SAR(q)
  BY <1>0, <1>1 DEF SAR
<1>2. CASE SARFails(q)
  BY <1>0, <1>2 DEF SARFails
<1>3. CASE UpdateFreed(q)
  BY <1>0, <1>3 DEF UpdateFreed
<1>4. CASE UpdateFound(q)
  BY <1>0, <1>4 DEF UpdateFound
<1>5. CASE UpdateMissing(q)
  BY <1>0, <1>5 DEF UpdateMissing, new_r_public
<1>6. CASE AddPublic(q)
  BY <1>0, <1>6 DEF AddPublic
<1>7. CASE UpdateOwn(q)
  BY <1>0, <1>7 DEF UpdateOwn, Take, CanLock
<1>8. CASE UpdateGone(q)
  BY <1>0, <1>8 DEF UpdateGone
<1>9. CASE SetRefresh(q)
  BY <1>0, <1>9 DEF SetRefresh
<1>10. CASE SetMissing(q)
  BY <1>0, <1>10 DEF SetMissing, new_r_public
<1>11. CASE SetAdd(q)
  BY <1>0, <1>11 DEF SetAdd
<1>12. CASE SetDeregister(q)
  BY <1>0, <1>12 DEF SetDeregister
<1>13. CASE SetDeregisterMissing(q)
  BY <1>0, <1>13 DEF SetDeregisterMissing
<1>14. CASE SetSubscribe(q)
  BY <1>0, <1>14 DEF SetSubscribe
<1>15. CASE Finish(q)
  <2>1. lock[Hash(p[q])] = q
    BY <1>0, <1>15 DEF Finish, WalkInv, SipStages, Held
  <2> QED BY <1>0, <1>15, <2>1 DEF Finish, Unlock
<1> QED
  BY <1>1, <1>2, <1>3, <1>4, <1>5, <1>6, <1>7, <1>8, <1>9, <1>10, <1>11, <1>12, <1>13, <1>14,
     <1>15 DEF SipStep

LEMMA TimerFrame ==
  ASSUME Types, TableInv, WalkInv, TimerStep
  PROVE  FramePart(Timer)
<1> USE DEF FramePart, Types, Goto, Keep, Crash, Stay, GoOn, Unlock, locVars
<1>0. Timer \in Procs
  BY DEF Procs
<1>1. CASE TimerSlot
  BY <1>0, <1>1 DEF TimerSlot, Take, CanLock
<1>2. CASE TimerPublic
  <2>1. p[Timer] \in InTable => lock[Hash(p[Timer])] = Timer
    BY <1>2 DEF TimerPublic, WalkInv, TimerHolds
  <2> QED BY <1>0, <1>2, <2>1 DEF TimerPublic
<1>3. ASSUME pc[Timer] \in {"timersar", "timerset"} PROVE lock[Hash(p[Timer])] = Timer
  BY <1>0, <1>3 DEF WalkInv, TimerStages, Held
<1>4. CASE TimerSARFails
  BY <1>0, <1>3, <1>4 DEF TimerSARFails
<1>5. CASE TimerSAR
  BY <1>0, <1>5 DEF TimerSAR
<1>6. CASE TimerSet
  BY <1>0, <1>6 DEF TimerSet
<1>7. CASE TimerLast
  BY <1>0, <1>3, <1>7 DEF TimerLast
<1> QED BY <1>1, <1>2, <1>4, <1>5, <1>6, <1>7 DEF TimerStep

-----------------------------------------------------------------------------
(* Places.                                                                  *)

LEMMA OthersOfHeld ==
  ASSUME Types, TableInv, Held, NEW q \in Procs, p[q] # None, pc[q] # "public"
  PROVE  Len(Others(r_public[p[q]].aor)) = Len(ImplicitSet) - 1
BY Linked, OthersAre DEF Held, TableInv

LEMMA SipStagesNext ==
  ASSUME Types, TableInv, WalkInv, NEW q \in SipProcs, SipStep(q)
  PROVE  SipStages'
<1> USE Constants DEF SipStages, Types, Requests, Goto, Done, Keep, Crash, Stay, OneByOne, locVars, WalkInv
<1>0. SipProcs \subseteq Procs
  BY DEF Procs
<1>n. Len(ImplicitSet) \in Nat
  BY RegistrarAssumption
<1>o. NextOther(q) /\ pc[q] \in {"set", "addset"} =>
        /\ made' = [made EXCEPT ![q] = None] /\ UNCHANGED <<kind, on, dev, p, s>>
        /\ \/ pc' = [pc EXCEPT ![q] = "finish"] /\ UNCHANGED idx
           \/ /\ pc' = [pc EXCEPT ![q] = "set"] /\ idx' = [idx EXCEPT ![q] = @ + 1]
              /\ idx[q] # Len(ImplicitSet) - 1
  BY <1>0, OthersOfHeld DEF NextOther
<1>u. \A r \in Unallocated : r # None
  BY DEF Unallocated
<1>1. CASE SAR(q)
  <2>1. \A x \in FreeProfiles : x \in Profiles
    BY DEF FreeProfiles
  <2>2. pc[q] = "sar" /\ kind[q] \in {"register", "call"} => 1 \in 1..Len(ImplicitSet)
    <3>1. pc[q] = "sar" => on[q] \in Range(ImplicitSet)
      BY DEF Ids
    <3> QED BY <3>1, <1>n, RegistrarAssumption DEF Range
  <2> QED BY <1>0, <1>1, <2>1, <2>2 DEF SAR
<1>2. CASE SARFails(q)
  BY <1>0, <1>2 DEF SARFails
<1>3. CASE UpdateFreed(q)
  BY <1>0, <1>3 DEF UpdateFreed
<1>4. ASSUME NextIdentity(q), pc[q] \in {"update", "add"}, OneByOne(q) PROVE SipStages'
  <2>1. CASE Done(q)
    BY <1>0, <1>4, <2>1
  <2>2. CASE /\ idx' = [idx EXCEPT ![q] = @ + 1] /\ pc' = [pc EXCEPT ![q] = "update"]
             /\ made' = [made EXCEPT ![q] = None] /\ UNCHANGED <<kind, on, dev, p, s>>
             /\ idx[q] # Len(ImplicitSet)
    BY <1>0, <1>n, <1>4, <2>2
  <2> QED BY <1>4, <2>1, <2>2 DEF NextIdentity
<1>5. CASE UpdateFound(q)
  BY <1>4, <1>5 DEF UpdateFound
<1>6. CASE UpdateMissing(q)
  BY <1>0, <1>u, <1>6 DEF UpdateMissing, new_r_public
<1>7. CASE AddPublic(q)
  BY <1>4, <1>7 DEF AddPublic
<1>8. CASE UpdateOwn(q)
  <2>1. pc[q] = "update" /\ ~OneByOne(q) => on[q] \in Ids /\ idx[q] = 1
    OBVIOUS
  <2>2. pc[q] = "update" /\ Others(on[q]) # <<>> => 1 \in 1..(Len(ImplicitSet) - 1)
    <3>1. CASE pc[q] = "update"
      <4>1. Others(on[q]) \in Seq(Ids) /\ Len(Others(on[q])) = Len(ImplicitSet) - 1
        BY <3>1, OthersAre
      <4>2. Others(on[q]) # <<>> => Len(Others(on[q])) # 0
        BY <4>1, EmptySeq
      <4> QED BY <1>n, <4>1, <4>2
    <3> QED BY <3>1
  <2> QED BY <1>0, <1>8, <2>1, <2>2 DEF UpdateOwn
<1>9. CASE UpdateGone(q)
  BY <1>0, <1>9 DEF UpdateGone
<1>10. ASSUME NextOther(q), pc[q] \in {"set", "addset"} PROVE SipStages'
  BY <1>0, <1>n, <1>o, <1>10
<1>11. CASE SetRefresh(q)
  BY <1>10, <1>11 DEF SetRefresh
<1>12. CASE SetMissing(q)
  BY <1>0, <1>u, <1>12 DEF SetMissing, new_r_public
<1>13. CASE SetAdd(q)
  BY <1>10, <1>13 DEF SetAdd
<1>14. CASE SetDeregister(q)
  BY <1>10, <1>14 DEF SetDeregister
<1>15. CASE SetDeregisterMissing(q)
  BY <1>0, <1>10, <1>15 DEF SetDeregisterMissing
<1>16. CASE SetSubscribe(q)
  BY <1>10, <1>16 DEF SetSubscribe
<1>17. CASE Finish(q)
  BY <1>0, <1>17 DEF Finish
<1> QED
  BY <1>1, <1>2, <1>3, <1>5, <1>6, <1>7, <1>8, <1>9, <1>11, <1>12, <1>13, <1>14, <1>15, <1>16,
     <1>17 DEF SipStep

LEMMA BeginStages ==
  ASSUME Types, SipStages, NEW q \in SipProcs, NEW k \in Kinds, NEW id \in Ids, NEW x \in Devices,
         Begin(q, k, id, x)
  PROVE  SipStages'
<1>1. SipProcs \subseteq Procs
  BY DEF Procs
<1>2. k \in {"register", "deregister", "call", "subscribe"}
  BY Constants DEF Requests
<1> DEFINE w == IF k = "subscribe" \/ ContactsLeft(k, id, x) THEN "update" ELSE "sar"
           kk == IF k = "register" /\ r_is_registered_id(id) THEN "refresh" ELSE k
<1>3. /\ pc[q] = "idle" /\ pc' = [pc EXCEPT ![q] = w] /\ kind' = [kind EXCEPT ![q] = kk]
      /\ on' = [on EXCEPT ![q] = id] /\ dev' = [dev EXCEPT ![q] = x]
      /\ UNCHANGED <<p, made, idx, s>>
  BY DEF Begin, Goto
<1>4. /\ w \in {"update", "sar"}
      /\ w = "update" => kk \in {"subscribe", "deregister"}
      /\ w = "sar" => kk # "subscribe"
      /\ kk \in {"register", "refresh", "deregister", "call", "subscribe"}
  BY <1>2 DEF ContactsLeft
<1> HIDE DEF w, kk
<1>5. /\ pc'[q] = w /\ kind'[q] = kk /\ on'[q] = id /\ dev'[q] = x
      /\ p' = p /\ made' = made /\ idx' = idx /\ s' = s /\ q \in Procs
      /\ \A u \in Procs \ {q} : /\ pc'[u] = pc[u] /\ kind'[u] = kind[u]
                               /\ on'[u] = on[u] /\ dev'[u] = dev[u]
  BY <1>1, <1>3 DEF Types
<1>6. kk # None
  BY <1>4, Constants DEF Requests
<1>7. \A u \in SipProcs \ {q} : u \in Procs \ {q}
  BY <1>1
<1> QED BY <1>3, <1>4, <1>5, <1>6, <1>7 DEF SipStages, OneByOne

\* The SIP processes stay where they are in a step of the timer.
LEMMA SipStagesStay ==
  ASSUME Types, SipStages, TimerStep
  PROVE  SipStages'
<1> DEFINE Stays == \A q \in SipProcs :
             /\ pc'[q] = pc[q] /\ p'[q] = p[q] /\ idx'[q] = idx[q] /\ made'[q] = made[q]
             /\ kind'[q] = kind[q] /\ s'[q] = s[q] /\ on'[q] = on[q] /\ dev'[q] = dev[q]
<1> USE DEF Types, Goto, Keep, Crash, Stay, GoOn, locVars
<1>0. Timer \in Procs /\ Timer \notin SipProcs /\ SipProcs \subseteq Procs
  BY RegistrarAssumption DEF Procs
<1>1. TimerSlot => Stays
  BY <1>0 DEF TimerSlot
<1>2. TimerPublic => Stays
  BY <1>0 DEF TimerPublic
<1>3. TimerSARFails \/ TimerSAR => Stays
  BY <1>0 DEF TimerSARFails, TimerSAR
<1>4. TimerSet \/ TimerLast => Stays
  BY <1>0 DEF TimerSet, TimerLast
<1>5. Stays
  BY <1>1, <1>2, <1>3, <1>4 DEF TimerStep
<1> QED BY <1>5 DEF SipStages, OneByOne

LEMMA TimerStagesNext ==
  ASSUME Types, TableInv, WalkInv, TimerStep
  PROVE  TimerStages'
<1> USE Constants DEF TimerStages, Types, Goto, Keep, Crash, Stay, locVars, WalkInv
<1>0. Timer \in Procs /\ Timer \notin SipProcs
  BY RegistrarAssumption DEF Procs
<1>2. \A h \in 1..Slots : (h % Slots) + 1 \in 1..Slots
  OBVIOUS
<1>3. CASE TimerSlot
  <2>1. ASSUME NEW h \in 1..Slots, slot[h] # <<>> PROVE Head(slot[h]) \in Publics
    BY <2>1
  <2> QED BY <1>0, <1>2, <1>3, <2>1 DEF TimerSlot
<1>4. ASSUME NEW h \in 1..Slots, NEW next \in Publics \cup {None}, GoOn(h, next)
      PROVE  TimerStages'
  BY <1>0, <1>2, <1>4 DEF GoOn
<1>5. CASE TimerPublic
  <2>1. CASE p[Timer] \notin InTable
    BY <1>5, <2>1 DEF TimerPublic
  <2>2. CASE p[Timer] \in InTable
    <3>1. NextPublic(p[Timer]) \in Publics \cup {None} /\ Hash(p[Timer]) \in 1..Slots
      BY <2>2, NextIs, Linked DEF TableInv
    <3>2. CASE GoOn(Hash(p[Timer]), NextPublic(p[Timer]))
      BY <1>4, <3>1, <3>2
    <3>3. CASE Stay(Timer, "timersar")
      BY <1>0, <1>5, <3>3 DEF TimerPublic
    <3> QED BY <1>5, <2>2, <3>2, <3>3 DEF TimerPublic
  <2> QED BY <2>1, <2>2
<1>6. pc[Timer] \in {"timersar", "timerset"} => Hash(p[Timer]) \in 1..Slots
  BY <1>0, Linked DEF Held, TableInv
<1>7. CASE TimerSARFails
  BY <1>4, <1>6, <1>7 DEF TimerSARFails
<1>8. CASE TimerSAR
  BY <1>0, <1>8 DEF TimerSAR
<1>9. CASE TimerSet
  BY <1>0, <1>9 DEF TimerSet
<1>10. CASE TimerLast
  BY <1>4, <1>6, <1>10 DEF TimerLast
<1> QED BY <1>3, <1>5, <1>7, <1>8, <1>9, <1>10 DEF TimerStep

\* The timer stays where it is in the steps of others.
LEMMA TimerStagesStay ==
  ASSUME Types, TimerStages, NEW q \in Procs \ {Timer}, FramePart(q), UNCHANGED pn,
         idx'[Timer] = idx[Timer]
  PROVE  TimerStages'
BY DEF TimerStages, FramePart, Procs
-----------------------------------------------------------------------------
(* Locks and what they keep.                                                *)

\* Where what a process keeps comes from.
PointerPart(q) ==
  /\ p'[q] \in {None, p[q], pn} \cup InTable /\ pn' \in {None, pn} \cup InTable
  /\ made'[q] \in Unallocated => p'[q] = p[q] /\ pn' = pn

LEMMA SipPointers ==
  ASSUME Types, TableInv, WalkInv, NEW q \in SipProcs, SipStep(q)
  PROVE  PointerPart(q) /\ pn' = pn /\ \A u \in Procs \ {q} : idx'[u] = idx[u]
<1> USE DEF PointerPart, Types, Goto, Done, Keep, Crash, Stay, NextOther, NextIdentity, locVars
<1>0. q \in Procs
  BY DEF Procs
<1>u. made[q] \notin Unallocated /\ None \notin Unallocated
  BY <1>0, Constants DEF Unallocated
<1>1. CASE SAR(q) \/ SARFails(q) \/ UpdateFreed(q) \/ UpdateGone(q)
  BY <1>0, <1>u, <1>1 DEF SAR, SARFails, UpdateFreed, UpdateGone
<1>2. CASE UpdateFound(q) \/ AddPublic(q)
  BY <1>0, <1>u, <1>2 DEF UpdateFound, AddPublic
<1>3. CASE UpdateMissing(q)
  BY <1>0, <1>3 DEF UpdateMissing, new_r_public
<1>4. CASE UpdateOwn(q)
  <2>1. Get(on[q]) \in InTable
    BY <1>4, GetFinds DEF UpdateOwn, WalkInv, SipStages
  <2> QED BY <1>0, <1>u, <1>4, <2>1 DEF UpdateOwn
<1>5. CASE SetRefresh(q) \/ SetAdd(q)
  BY <1>0, <1>u, <1>5 DEF SetRefresh, SetAdd
<1>6. CASE SetMissing(q)
  BY <1>0, <1>6 DEF SetMissing, new_r_public
<1>7. CASE SetDeregister(q) \/ SetDeregisterMissing(q) \/ SetSubscribe(q)
  BY <1>0, <1>u, <1>7 DEF SetDeregister, SetDeregisterMissing, SetSubscribe
<1>8. CASE Finish(q)
  BY <1>0, <1>u, <1>8 DEF Finish
<1> QED BY <1>1, <1>2, <1>3, <1>4, <1>5, <1>6, <1>7, <1>8 DEF SipStep

LEMMA TimerPointers ==
  ASSUME Types, TableInv, WalkInv, TimerStep
  PROVE  PointerPart(Timer)
<1> USE DEF PointerPart, Types, Goto, Keep, Crash, Stay, GoOn, locVars
<1>0. Timer \in Procs
  BY DEF Procs
<1>u. made[Timer] \notin Unallocated /\ made' [Timer] = made[Timer]
  BY <1>0 DEF Unallocated, TimerStep, TimerSlot, TimerPublic, TimerSARFails, TimerSAR, TimerSet,
              TimerLast
<1>1. CASE TimerSlot
  <2>1. idx[Timer] \in 1..Slots
    BY <1>1 DEF TimerSlot, WalkInv, TimerStages
  <2>2. slot[idx[Timer]] # <<>> => Head(slot[idx[Timer]]) \in InTable
    <3>1. slot[idx[Timer]] \in Seq(Publics)
      BY <2>1
    <3> QED BY <2>1, <3>1, EmptySeq DEF InTable, Range
  <2> QED BY <1>0, <1>u, <1>1, <2>1, <2>2 DEF TimerSlot
<1>2. CASE TimerPublic
  <2>1. p[Timer] \in InTable => NextPublic(p[Timer]) \in InTable \cup {None}
    BY NextIs
  <2> QED BY <1>0, <1>u, <1>2, <2>1 DEF TimerPublic
<1>3. CASE TimerSARFails \/ TimerSAR
  BY <1>0, <1>u, <1>3 DEF TimerSARFails, TimerSAR
<1>4. CASE TimerSet \/ TimerLast
  BY <1>0, <1>u, <1>4 DEF TimerSet, TimerLast
<1> QED BY <1>1, <1>2, <1>3, <1>4 DEF TimerStep

LEMMA NotMadeAgainNext ==
  ASSUME Types, TableInv, NotMadeAgain, NEW q \in Procs, FramePart(q), PointerPart(q)
  PROVE  NotMadeAgain'
<1>1. \A u \in Procs : made[u] # None => made[u] \notin InTable
  BY DEF TableInv, MadeApart
<1>2. \A u \in Procs : p'[u] \in {None, p[u], pn} \cup InTable
  BY DEF FramePart, PointerPart
<1>3. \A u \in Procs : made'[u] \in {None, made[u]} \/ (u = q /\ made'[u] \in Unallocated)
  BY DEF FramePart
<1>4. pn' \in {None, pn} \cup InTable
  BY DEF PointerPart
<1> SUFFICES ASSUME NEW u \in Procs, made'[u] # None
             PROVE  made'[u] # pn' /\ \A v \in Procs : made'[u] # p'[v]
  BY DEF NotMadeAgain
<1>5. CASE made'[u] = made[u]
  BY <1>1, <1>2, <1>4, <1>5 DEF NotMadeAgain
<1>6. CASE u = q /\ made'[u] \in Unallocated
  <2>1. \A v \in Procs : p'[v] = p[v]
    BY <1>6 DEF FramePart, PointerPart
  <2>2. pn' = pn
    BY <1>6 DEF PointerPart
  <2> QED BY <1>6, <2>1, <2>2 DEF Unallocated
<1> QED BY <1>3, <1>5, <1>6

\* What others keep stays theirs.
LEMMA OthersHold ==
  ASSUME Types, TableInv, Held, NEW q \in Procs, TablePart(q), FramePart(q),
         NEW u \in Procs \ {q}, p[u] # None, pc[u] # "public"
  PROVE  p[u] \in InTable' /\ lock'[Hash(p[u])'] = u
<1>1. p[u] \in InTable /\ lock[Hash(p[u])] = u /\ u # None
  BY Constants DEF Held
<1>2. Hash(p[u]) \in 1..Slots
  BY <1>1, Linked DEF TableInv
<1>3. p[u] \in InTable' /\ r_public'[p[u]].aor = r_public[p[u]].aor
  BY <1>1 DEF TablePart
<1>4. SlotOf'[r_public'[p[u]].aor] = Hash(p[u])
  BY <1>3 DEF TablePart, Hash
<1>5. lock'[Hash(p[u])] = u
  BY <1>1, <1>2 DEF FramePart
<1>6. p'[u] = p[u]
  BY DEF FramePart
<1> QED BY <1>3, <1>4, <1>5, <1>6 DEF Hash
\* A step of a process that keeps nothing, or what it kept, in the slot it has.
LEMMA HeldAfter ==
  ASSUME Types, TableInv, Held, NEW q \in Procs, TablePart(q), FramePart(q),
         \/ p'[q] = None
         \/ pc'[q] = "public"
         \/ /\ p'[q] = p[q] /\ p[q] \in InTable /\ lock'[Hash(p[q])] = q
            /\ pc'[q] \notin {"idle", "public"}
  PROVE  Held'
<1> SUFFICES ASSUME NEW u \in Procs, p'[u] # None, pc'[u] # "public"
             PROVE  p'[u] \in InTable' /\ lock'[Hash(p[u])'] = u
  BY DEF Held
<1>1. CASE u # q
  <2>1. p'[u] = p[u] /\ pc'[u] = pc[u]
    BY <1>1 DEF FramePart
  <2> QED BY <1>1, <2>1, OthersHold
<1>2. CASE u = q
  <2>1. /\ p'[q] = p[q] /\ p[q] \in InTable /\ lock'[Hash(p[q])] = q
        /\ pc'[q] \notin {"idle", "public"}
    BY <1>2
  <2>2. p[q] \in InTable' /\ r_public'[p[q]].aor = r_public[p[q]].aor /\ SlotOf' = SlotOf
    BY <2>1 DEF TablePart
  <2>3. SlotOf'[r_public'[p'[q]].aor] = Hash(p[q])
    BY <2>1, <2>2 DEF Hash
  <2> QED BY <1>2, <2>1, <2>2, <2>3 DEF Hash
<1> QED BY <1>1, <1>2

LEMMA SipHeld ==
  ASSUME Types, TableInv, WalkInv, NEW q \in SipProcs, SipStep(q), TablePart(q), FramePart(q)
  PROVE  Held'
<1> USE DEF WalkInv, Types, Goto, Done, Keep, Crash, Stay, NextOther, NextIdentity, locVars
<1>0. q \in Procs /\ Held
  BY DEF Procs
<1> DEFINE Kept == p'[q] = p[q] /\ lock' = lock /\ pc'[q] \in {"set", "addset", "finish"}
<1>k. ASSUME Kept PROVE Held'
  <2>1. CASE p[q] = None
    BY <1>0, <1>k, <2>1, HeldAfter
  <2>2. CASE p[q] # None /\ pc[q] # "public"
    <3>1. p[q] \in InTable /\ lock[Hash(p[q])] = q
      BY <1>0, <2>2 DEF Held
    <3> QED BY <1>0, <1>k, <3>1, HeldAfter
  <2>3. pc[q] # "public"
    BY DEF SipStages
  <2> QED BY <2>1, <2>2, <2>3
<1>n. ASSUME p'[q] = None PROVE Held'
  BY <1>0, <1>n, HeldAfter
<1>1. CASE SAR(q) \/ SARFails(q) \/ UpdateFreed(q) \/ UpdateGone(q)
  <2>1. p'[q] = None
    BY <1>0, <1>1 DEF SAR, SARFails, UpdateFreed, UpdateGone, SipStages
  <2> QED BY <2>1, <1>n
<1>2. CASE UpdateFound(q) \/ AddPublic(q)
  <2>1. p'[q] = None
    BY <1>0, <1>2 DEF UpdateFound, AddPublic, SipStages
  <2> QED BY <2>1, <1>n
<1>3. CASE UpdateMissing(q)
  <2>1. p'[q] = None
    BY <1>0, <1>3 DEF UpdateMissing, new_r_public, SipStages
  <2> QED BY <2>1, <1>n
<1>4. CASE UpdateOwn(q)
  <2> DEFINE r == Get(on[q])
  <2>1. r \in InTable /\ Hash(r) = SlotOf[on[q]] /\ on[q] \in Ids
    BY <1>4, GetFinds DEF UpdateOwn, SipStages
  <2>2. Hash(r) \in 1..Slots
    BY <2>1, Linked DEF TableInv
  <2>3. p' = [p EXCEPT ![q] = r] /\ lock' = [lock EXCEPT ![Hash(r)] = q] /\ slot' = slot
    BY <1>4, <2>1 DEF UpdateOwn, Take, Change
  <2> HIDE DEF r
  <2>4. InTable' = InTable
    BY <2>3 DEF InTable
  <2>5. r_public'[r].aor = r_public[r].aor /\ SlotOf' = SlotOf
    BY <2>1, <2>4 DEF TablePart
  <2>6. p'[q] = r /\ SlotOf'[r_public'[p'[q]].aor] = Hash(r) /\ lock'[Hash(r)] = q
    BY <1>0, <2>2, <2>3, <2>5 DEF Hash
  <2> SUFFICES ASSUME NEW u \in Procs, p'[u] # None, pc'[u] # "public"
               PROVE  p'[u] \in InTable' /\ lock'[Hash(p[u])'] = u
    BY DEF Held
  <2>7. CASE u = q
    BY <2>1, <2>4, <2>6, <2>7 DEF Hash
  <2>8. CASE u # q
    <3>1. p'[u] = p[u] /\ pc'[u] = pc[u]
      BY <2>8 DEF FramePart
    <3> QED BY <1>0, <2>8, <3>1, OthersHold
  <2> QED BY <2>7, <2>8
<1>5. CASE SetRefresh(q) \/ SetAdd(q)
  <2>1. Kept
    BY <1>0, <1>5 DEF SetRefresh, SetAdd
  <2> QED BY <2>1, <1>k
<1>6. CASE SetMissing(q)
  <2>1. Kept
    BY <1>0, <1>6 DEF SetMissing, new_r_public
  <2> QED BY <2>1, <1>k
<1>7. CASE SetDeregister(q) \/ SetDeregisterMissing(q) \/ SetSubscribe(q)
  <2>1. Kept
    BY <1>0, <1>7 DEF SetDeregister, SetDeregisterMissing, SetSubscribe
  <2> QED BY <2>1, <1>k
<1>8. CASE Finish(q)
  <2>1. p'[q] = None
    BY <1>0, <1>8 DEF Finish
  <2> QED BY <2>1, <1>n
<1> QED BY <1>1, <1>2, <1>3, <1>4, <1>5, <1>6, <1>7, <1>8 DEF SipStep

LEMMA TimerHeld ==
  ASSUME Types, TableInv, WalkInv, TimerStep, TablePart(Timer), FramePart(Timer)
  PROVE  Held'
<1> USE DEF WalkInv, Types, Goto, Keep, Crash, Stay, GoOn, locVars
<1>0. Timer \in Procs /\ Held
  BY DEF Procs
<1> DEFINE Ok == \/ p'[Timer] = None
                 \/ pc'[Timer] = "public"
                 \/ /\ p'[Timer] = p[Timer] /\ p[Timer] \in InTable /\ lock'[Hash(p[Timer])] = Timer
                    /\ pc'[Timer] \notin {"idle", "public"}
<1>1. CASE TimerSlot
  BY <1>0, <1>1, HeldAfter DEF TimerSlot, TimerStages
<1>2. CASE TimerPublic
  <2>1. p[Timer] \in InTable => lock[Hash(p[Timer])] = Timer
    BY <1>2 DEF TimerPublic, TimerHolds
  <2>2. Ok
    BY <1>0, <1>2, <2>1 DEF TimerPublic
  <2> QED BY <1>0, <2>2, HeldAfter
<1>3. ASSUME pc[Timer] \in {"timersar", "timerset"}
      PROVE  p[Timer] \in InTable /\ lock[Hash(p[Timer])] = Timer
  BY <1>0, <1>3 DEF Held, TimerStages
<1>4. CASE TimerSARFails
  BY <1>0, <1>4, HeldAfter DEF TimerSARFails
<1>5. CASE TimerSAR
  <2>1. Ok
    BY <1>0, <1>3, <1>5 DEF TimerSAR
  <2> QED BY <1>0, <2>1, HeldAfter
<1>6. CASE TimerSet
  <2>1. Ok
    BY <1>0, <1>3, <1>6 DEF TimerSet
  <2> QED BY <1>0, <2>1, HeldAfter
<1>7. CASE TimerLast
  BY <1>0, <1>7, HeldAfter DEF TimerLast
<1> QED BY <1>1, <1>2, <1>4, <1>5, <1>6, <1>7 DEF TimerStep

\* What is in the table after a step and was not just linked was there before, of its slot.
LEMMA StillThere ==
  ASSUME Types, TableInv, NEW q \in Procs, TablePart(q), NEW r \in InTable', r # made[q]
  PROVE  r \in InTable /\ SlotOf'[r_public'[r].aor] = Hash(r)
BY DEF TablePart, Hash

LEMMA SipTimerHolds ==
  ASSUME Types, TableInv, WalkInv, NEW q \in SipProcs, TablePart(q), FramePart(q), pn' = pn,
         None \notin InTable'
  PROVE  TimerHolds'
<1> USE DEF WalkInv
<1>0. q \in Procs /\ Timer \in Procs /\ Timer # q /\ Timer # None
  BY RegistrarAssumption DEF Procs
<1>1. p'[Timer] = p[Timer] /\ pc'[Timer] = pc[Timer]
  BY <1>0 DEF FramePart
<1>2. ASSUME pc[Timer] = "public", p[Timer] \in InTable'
      PROVE  lock'[SlotOf'[r_public'[p[Timer]].aor]] = Timer
  <2>1. p[Timer] # made[q]
    BY <1>0, <1>2 DEF NotMadeAgain
  <2>2. p[Timer] \in InTable /\ SlotOf'[r_public'[p[Timer]].aor] = Hash(p[Timer])
    BY <1>0, <1>2, <2>1, StillThere
  <2>3. lock[Hash(p[Timer])] = Timer /\ Hash(p[Timer]) \in 1..Slots
    BY <1>2, <2>2, Linked DEF TimerHolds, TableInv
  <2> QED BY <1>0, <2>2, <2>3 DEF FramePart
<1>3. ASSUME pn \in InTable'
      PROVE  SlotOf'[r_public'[pn].aor] = SlotOf'[r_public'[p[Timer]].aor]
  <2>1. pn # made[q]
    BY <1>0, <1>3 DEF NotMadeAgain
  <2>2. pn \in InTable /\ SlotOf'[r_public'[pn].aor] = Hash(pn)
    BY <1>0, <1>3, <2>1, StillThere
  <2>3. pn # None
    BY <1>3
  <2>4. pc[Timer] \in {"timersar", "timerset"} /\ p[Timer] # None
    BY <2>3 DEF TimerStages
  <2>5. p[Timer] \in InTable /\ lock[Hash(p[Timer])] = Timer
    BY <1>0, <2>4 DEF Held
  <2>6. r_public'[p[Timer]].aor = r_public[p[Timer]].aor /\ SlotOf' = SlotOf
    BY <1>0, <2>5 DEF TablePart
  <2> QED BY <2>2, <2>6 DEF TimerHolds, Hash
<1> QED BY <1>1, <1>2, <1>3 DEF TimerHolds, Hash

LEMMA TimerHoldsNext ==
  ASSUME Types, TableInv, WalkInv, TimerStep, TablePart(Timer), None \notin InTable'
  PROVE  TimerHolds'
<1> USE DEF WalkInv, Types, Goto, Keep, Crash, Stay, GoOn, locVars
<1>0. Timer \in Procs /\ made[Timer] = None
  BY DEF Procs, TimerStages
<1>1. \A r \in InTable' : r \in InTable /\ SlotOf'[r_public'[r].aor] = Hash(r)
  BY <1>0, StillThere
<1> DEFINE PublicOk == pc'[Timer] = "public" /\ p'[Timer] \in InTable' => lock'[Hash(p'[Timer])] = Timer
           NextOk == pn' \in InTable' => p'[Timer] \in InTable' /\ Hash(pn') = Hash(p'[Timer])
<1>2. ASSUME PublicOk, NextOk PROVE TimerHolds'
  BY <1>1, <1>2 DEF TimerHolds, Hash
<1>3. CASE TimerSlot
  <2>1. pn' = None
    BY <1>3 DEF TimerSlot, TimerStages
  <2>2. PublicOk
    <3> DEFINE h == idx[Timer]
    <3>1. h \in 1..Slots /\ pc[Timer] = "idle"
      BY <1>3 DEF TimerSlot, TimerStages
    <3>2. CASE slot[h] # <<>>
      <4>1. Head(slot[h]) \in Range(slot[h])
        BY <3>1, <3>2, EmptySeq DEF Range
      <4>2. Hash(Head(slot[h])) = h
        BY <3>1, <4>1 DEF TableInv, SlotsRight, Hash
      <4>3. p'[Timer] = Head(slot[h]) /\ lock'[h] = Timer /\ UNCHANGED <<SlotOf, r_public>>
        BY <1>0, <1>3, <3>1, <3>2 DEF TimerSlot, Take, tabVars
      <4>4. Hash(p'[Timer]) = h
        BY <4>2, <4>3
      <4> QED BY <4>3, <4>4
    <3>3. CASE slot[h] = <<>>
      BY <1>3, <3>1, <3>3 DEF TimerSlot
    <3> QED BY <3>2, <3>3
  <2> QED BY <1>2, <2>1, <2>2
<1>4. ASSUME NEW next, p[Timer] \in InTable, lock[Hash(p[Timer])] = Timer,
             next # None /\ next \in InTable => Hash(next) = Hash(p[Timer]),
             GoOn(Hash(p[Timer]), next)
      PROVE  TimerHolds'
  <2>1. p'[Timer] = next /\ pn' = None
    BY <1>0, <1>4
  <2>2. PublicOk
    <3> SUFFICES ASSUME pc'[Timer] = "public", next \in InTable' PROVE lock'[Hash(next)] = Timer
      BY <2>1
    <3>1. next # None /\ next \in InTable
      BY <1>1
    <3>2. lock' = lock
      BY <1>4, <3>1
    <3> QED BY <1>4, <3>1, <3>2
  <2> QED BY <1>2, <2>1, <2>2
<1>5. CASE TimerPublic
  <2> DEFINE r == p[Timer]
  <2>1. CASE r \notin InTable
    <3>1. UNCHANGED <<pc, p, lock, pn>> /\ InTable' \subseteq InTable
      BY <1>1, <1>5, <2>1 DEF TimerPublic
    <3>2. pn = None
      BY <1>5 DEF TimerPublic, TimerStages
    <3> QED BY <1>2, <2>1, <3>1, <3>2
  <2>2. CASE r \in InTable
    <3>1. lock[Hash(r)] = Timer
      BY <1>5, <2>2 DEF TimerPublic, TimerHolds
    <3>2. NextPublic(r) # None => NextPublic(r) \in InTable /\ Hash(NextPublic(r)) = Hash(r)
      BY <2>2, NextIs
    <3>3. CASE GoOn(Hash(r), NextPublic(r))
      BY <1>4, <2>2, <3>1, <3>2, <3>3
    <3>4. CASE pn' = NextPublic(r) /\ Stay(Timer, "timersar")
      <4>1. pc'[Timer] = "timersar" /\ p'[Timer] = r
        BY <1>0, <3>4
      <4>2. r \in InTable'
        BY <1>0, <2>2, <4>1 DEF TablePart
      <4>3. NextOk
        BY <3>2, <3>4, <4>1, <4>2
      <4> QED BY <1>2, <4>1, <4>3
    <3> QED BY <1>5, <2>2, <3>3, <3>4 DEF TimerPublic
  <2> QED BY <2>1, <2>2
<1>6. ASSUME pc[Timer] \in {"timersar", "timerset"}
      PROVE  /\ p[Timer] \in InTable /\ lock[Hash(p[Timer])] = Timer
             /\ pn \in InTable => Hash(pn) = Hash(p[Timer])
  BY <1>0, <1>6 DEF Held, TimerStages, TimerHolds
<1>7. CASE TimerSARFails
  BY <1>4, <1>6, <1>7 DEF TimerSARFails
<1>8. ASSUME pc[Timer] \in {"timersar", "timerset"}, pc'[Timer] \in {"timersar", "timerset"},
             UNCHANGED <<p, pn>>
      PROVE  TimerHolds'
  <2>1. p[Timer] \in InTable'
    BY <1>0, <1>6, <1>8 DEF TablePart
  <2> QED BY <1>1, <1>2, <1>6, <1>8, <2>1
<1>9. CASE TimerSAR
  <2>1. pc'[Timer] \in {"timersar", "timerset"} /\ UNCHANGED <<p, pn>>
    BY <1>0, <1>9 DEF TimerSAR
  <2> QED BY <1>8, <1>9, <2>1 DEF TimerSAR
<1>10. CASE TimerSet
  BY <1>8, <1>10 DEF TimerSet
<1>11. CASE TimerLast
  BY <1>4, <1>6, <1>11 DEF TimerLast
<1> QED BY <1>3, <1>5, <1>7, <1>9, <1>10, <1>11 DEF TimerStep
-----------------------------------------------------------------------------
(* The types of what is not in the table.                                   *)

WalkTypes ==
  /\ lock \in [1..Slots -> Procs \cup {None}]
  /\ pc \in [Procs -> {"idle", "sar", "update", "add", "set", "addset", "finish",
                       "public", "timersar", "timerset"}]
  /\ kind \in [Procs -> Requests \cup {None}]
  /\ on \in [Procs -> Ids \cup {None}] /\ dev \in [Procs -> Devices \cup {None}]
  /\ p \in [Procs -> Publics \cup {None}] /\ idx \in [Procs -> Nat]
  /\ s \in [Procs -> Profiles \cup {None}] /\ pn \in Publics \cup {None}
  /\ calls \in 0..MaxCalls
  /\ crashed \in {"no", "profile", "next"}

LEMMA SipTypes ==
  ASSUME Types, TableInv, WalkInv, NEW q \in SipProcs, SipStep(q)
  PROVE  WalkTypes'
<1> USE DEF WalkTypes, Types, Goto, Keep
<1>0. q \in Procs
  BY DEF Procs
<1>g. \A id \in Ids : Get(id) # None => Get(id) \in Publics
  BY GetFinds
<1>c. \A why \in {"profile", "next"} : Crash(why) => WalkTypes'
  BY DEF Crash, locVars
<1>d. ASSUME Done(q), UNCHANGED <<lock, pn, calls, crashed>> PROVE WalkTypes'
  <2>1. /\ pc' \in [Procs -> {"idle", "sar", "update", "add", "set", "addset", "finish",
                              "public", "timersar", "timerset"}]
        /\ kind' \in [Procs -> Requests \cup {None}]
    BY <1>0, <1>d DEF Done
  <2>2. on' \in [Procs -> Ids \cup {None}] /\ dev' \in [Procs -> Devices \cup {None}]
    BY <1>0, <1>d DEF Done
  <2>3. p' \in [Procs -> Publics \cup {None}] /\ s' \in [Procs -> Profiles \cup {None}]
    BY <1>0, <1>d DEF Done
  <2>4. idx' \in [Procs -> Nat]
    BY <1>0, <1>d DEF Done
  <2> QED BY <1>d, <2>1, <2>2, <2>3, <2>4
<1>w. ASSUME pc' \in [Procs -> {"idle", "sar", "update", "add", "set", "addset", "finish",
                                "public", "timersar", "timerset"}],
             idx' \in [Procs -> Nat], UNCHANGED <<kind, on, dev, p, s, lock, pn, calls, crashed>>
      PROVE  WalkTypes'
  BY <1>w
<1>go. \A where \in {"update", "set", "finish"} : Goto(q, where) =>
        pc' \in [Procs -> {"idle", "sar", "update", "add", "set", "addset", "finish",
                           "public", "timersar", "timerset"}]
  BY <1>0
<1>i. ASSUME NextIdentity(q), UNCHANGED <<lock, pn, calls, crashed>> PROVE WalkTypes'
  <2>1. CASE Done(q)
    BY <1>d, <1>i, <2>1
  <2>2. CASE idx' = [idx EXCEPT ![q] = @ + 1] /\ Goto(q, "update")
             /\ UNCHANGED <<kind, on, dev, p, s>>
    <3>1. idx' \in [Procs -> Nat]
      BY <1>0, <2>2
    <3> QED BY <1>w, <1>go, <1>i, <2>2, <3>1
  <2> QED BY <1>i, <2>1, <2>2 DEF NextIdentity
<1>x. ASSUME NextOther(q), UNCHANGED <<lock, pn, calls, crashed>> PROVE WalkTypes'
  <2>1. idx' \in [Procs -> Nat] /\ UNCHANGED <<kind, on, dev, p, s>>
    BY <1>0, <1>x DEF NextOther
  <2>2. Goto(q, "set") \/ Goto(q, "finish")
    BY <1>x DEF NextOther
  <2> QED BY <1>w, <1>go, <1>x, <2>1, <2>2
<1>o. pc[q] # "idle" => on[q] \in Ids
  BY DEF WalkInv, SipStages
<1>1. CASE SAR(q)
  <2>1. s' \in [Procs -> Profiles \cup {None}]
    BY <1>0, <1>1 DEF SAR, FreeProfiles
  <2> QED BY <1>1, <2>1 DEF SAR
<1>2. CASE SARFails(q)
  BY <1>2, <1>d DEF SARFails
<1>3. CASE UpdateFreed(q)
  BY <1>3, <1>c DEF UpdateFreed
<1>4. CASE UpdateFound(q)
  BY <1>4, <1>i DEF UpdateFound
<1>5. CASE UpdateMissing(q)
  BY <1>5 DEF UpdateMissing
<1>6. CASE AddPublic(q)
  BY <1>6, <1>i DEF AddPublic
<1>7. CASE UpdateOwn(q)
  BY <1>0, <1>7, <1>g, <1>o DEF UpdateOwn, Take
<1>8. CASE UpdateGone(q)
  BY <1>8, <1>c, <1>d DEF UpdateGone
<1>9. CASE SetRefresh(q)
  BY <1>9, <1>x DEF SetRefresh
<1>10. CASE SetMissing(q)
  BY <1>10, <1>c DEF SetMissing
<1>11. CASE SetAdd(q)
  BY <1>11, <1>x DEF SetAdd
<1>12. CASE SetDeregister(q)
  BY <1>12, <1>x DEF SetDeregister
<1>13. CASE SetDeregisterMissing(q)
  BY <1>13, <1>c, <1>x DEF SetDeregisterMissing
<1>14. CASE SetSubscribe(q)
  BY <1>14, <1>x DEF SetSubscribe
<1>15. CASE Finish(q)
  <2>1. UNCHANGED <<pn, calls, crashed>> /\ lock' \in [1..Slots -> Procs \cup {None}]
    BY <1>15 DEF Finish, Unlock
  <2> QED BY <1>15, <2>1 DEF Finish, Done
<1> QED BY <1>1, <1>2, <1>3, <1>4, <1>5, <1>6, <1>7, <1>8, <1>9, <1>10, <1>11, <1>12, <1>13,
           <1>14, <1>15 DEF SipStep

LEMMA BeginTypes ==
  ASSUME Types, NEW q \in SipProcs, NEW k \in Kinds, NEW id \in Ids, NEW x \in Devices,
         Begin(q, k, id, x)
  PROVE  WalkTypes'
<1>1. k \in Requests /\ "refresh" \in Requests
  BY Constants DEF Requests
<1>2. calls' \in 0..MaxCalls
  BY RegistrarAssumption DEF Begin, Types
<1> QED BY <1>1, <1>2 DEF Begin, Goto, WalkTypes, Types

LEMMA TimerTypes ==
  ASSUME Types, TableInv, WalkInv, TimerStep
  PROVE  WalkTypes'
<1> USE DEF WalkTypes, Types, Goto, Keep, Crash, Stay, locVars
<1>0. Timer \in Procs /\ \A h \in 1..Slots : (h % Slots) + 1 \in Nat
  BY Constants DEF Procs
<1>h. ASSUME NEW r \in Publics, Hash(r) \in 1..Slots, NEW next \in Publics \cup {None},
             GoOn(Hash(r), next), UNCHANGED <<calls, crashed>>
      PROVE  WalkTypes'
  BY <1>0, <1>h DEF GoOn, Unlock
<1>n. \A r \in InTable : r \in Publics /\ NextPublic(r) \in Publics \cup {None} /\ Hash(r) \in 1..Slots
  BY NextIs, Linked DEF TableInv
<1>1. CASE TimerSlot
  <2>1. idx[Timer] \in 1..Slots
    BY <1>1 DEF TimerSlot, WalkInv, TimerStages
  <2>2. slot[idx[Timer]] # <<>> => Head(slot[idx[Timer]]) \in Publics
    <3>1. slot[idx[Timer]] \in Seq(Publics)
      BY <2>1
    <3> QED BY <3>1
  <2> QED BY <1>0, <1>1, <2>1, <2>2 DEF TimerSlot, Take
<1>2. CASE TimerPublic
  <2>1. CASE p[Timer] \notin InTable
    BY <1>2, <2>1 DEF TimerPublic
  <2>2. CASE p[Timer] \in InTable
    <3>1. CASE GoOn(Hash(p[Timer]), NextPublic(p[Timer]))
      <4>1. UNCHANGED <<calls, crashed>>
        BY <1>2, <2>2 DEF TimerPublic
      <4> QED BY <1>h, <1>n, <2>2, <3>1, <4>1
    <3>2. CASE pn' = NextPublic(p[Timer]) /\ Stay(Timer, "timersar") /\ UNCHANGED lock
      BY <1>0, <1>2, <1>n, <2>2, <3>2 DEF TimerPublic
    <3> QED BY <1>2, <2>2, <3>1, <3>2 DEF TimerPublic
  <2> QED BY <2>1, <2>2
<1>l. pc[Timer] \in {"timersar", "timerset"} => p[Timer] \in InTable
  BY <1>0 DEF WalkInv, Held, TimerStages
<1>3. CASE TimerSARFails
  <2>1. UNCHANGED <<calls, crashed>> /\ p[Timer] \in InTable
    BY <1>3, <1>l DEF TimerSARFails
  <2> QED BY <1>3, <1>h, <1>n, <2>1 DEF TimerSARFails
<1>4. CASE TimerSAR
  <2>1. CASE r_public[p[Timer]].s = None
    BY <1>4, <2>1 DEF TimerSAR
  <2>2. CASE r_public[p[Timer]].s # None
    <3>1. pc' = [pc EXCEPT ![Timer] = "timerset"] /\ idx' = [idx EXCEPT ![Timer] = 1]
          /\ UNCHANGED <<kind, on, dev, p, made, s, tabVars, lock, pn, calls, crashed>>
      BY <1>4, <2>2 DEF TimerSAR
    <3>2. idx' \in [Procs -> Nat]
      BY <1>0, <3>1
    <3> QED BY <1>0, <3>1, <3>2
  <2> QED BY <2>1, <2>2
<1>5. CASE TimerSet
  BY <1>0, <1>5 DEF TimerSet
<1>6. CASE TimerLast
  <2>1. UNCHANGED <<calls, crashed>> /\ p[Timer] \in InTable
    BY <1>6, <1>l DEF TimerLast
  <2> QED BY <1>6, <1>h, <1>n, <2>1 DEF TimerLast
<1> QED BY <1>1, <1>2, <1>3, <1>4, <1>5, <1>6 DEF TimerStep

LEMMA TypesFrom ==
  ASSUME TableTypes', WalkTypes'
  PROVE  Types' /\ None \notin InTable'
<1>1. Types'
  BY DEF TableTypes, WalkTypes, Types
<1>2. \A h \in 1..Slots : slot'[h] \in Seq(Publics)
  BY DEF TableTypes
<1>3. \A h \in 1..Slots : \A i \in DOMAIN slot'[h] : slot'[h][i] \in Publics
  BY <1>2
<1> QED BY <1>1, <1>2, <1>3, Constants DEF InTable, Range

-----------------------------------------------------------------------------
(* The invariant.                                                           *)

RegistrarInv == Types /\ TableInv /\ WalkInv

LEMMA SipNext ==
  ASSUME RegistrarInv, NEW q \in SipProcs, SipStep(q)
  PROVE  RegistrarInv'
<1> USE DEF RegistrarInv
<1>0. q \in Procs \ {Timer}
  BY RegistrarAssumption DEF Procs
<1>1. TablePart(q) /\ FramePart(q) /\ SipStages'
  BY SipTable, SipFrame, SipStagesNext
<1>2. TableInv' /\ TableTypes'
  BY <1>1, TableNext DEF TablePart
<1>3. Types' /\ None \notin InTable'
  BY <1>2, SipTypes, TypesFrom
<1>4. PointerPart(q) /\ pn' = pn /\ idx'[Timer] = idx[Timer]
  BY <1>0, SipPointers DEF Procs
<1>5. TimerStages' /\ NotMadeAgain' /\ Held' /\ TimerHolds'
  BY <1>0, <1>1, <1>3, <1>4, TimerStagesStay, NotMadeAgainNext, SipHeld, SipTimerHolds DEF WalkInv
<1> QED BY <1>1, <1>2, <1>3, <1>5 DEF WalkInv

LEMMA TimerNext ==
  ASSUME RegistrarInv, TimerStep
  PROVE  RegistrarInv'
<1> USE DEF RegistrarInv
<1>1. TablePart(Timer) /\ FramePart(Timer) /\ SipStages' /\ TimerStages'
  BY TimerTable, TimerFrame, SipStagesStay, TimerStagesNext DEF WalkInv
<1>2. TableInv' /\ TableTypes'
  BY <1>1, TableNext DEF TablePart
<1>3. Types' /\ None \notin InTable'
  BY <1>2, TimerTypes, TypesFrom
<1>4. NotMadeAgain' /\ Held' /\ TimerHolds'
  BY <1>1, <1>3, TimerPointers, NotMadeAgainNext, TimerHeld, TimerHoldsNext DEF WalkInv, Procs
<1> QED BY <1>1, <1>2, <1>3, <1>4 DEF WalkInv

LEMMA BeginNext ==
  ASSUME RegistrarInv, NEW q \in SipProcs, NEW k \in Kinds, NEW id \in Ids, NEW x \in Devices,
         Begin(q, k, id, x)
  PROVE  RegistrarInv'
<1> USE DEF RegistrarInv
<1>0. q \in Procs \ {Timer} /\ pc[q] = "idle" /\ p[q] = None
  BY RegistrarAssumption DEF Procs, Begin, WalkInv, SipStages
<1>1. UNCHANGED <<tabVars, made, p, lock, pn, idx>> /\ \A u \in Procs \ {q} : pc'[u] = pc[u]
  BY DEF Begin, Goto, Types
<1>2. TableStep /\ InTable' = InTable
  BY <1>1 DEF TableStep, InTable, tabVars
<1>3. TableInv' /\ TableTypes'
  BY <1>2, TableNext
<1>4. Types' /\ SipStages'
  BY <1>3, BeginTypes, TypesFrom, BeginStages DEF WalkInv
<1>5. TimerStages' /\ NotMadeAgain' /\ Held'
  BY <1>0, <1>1, <1>2 DEF WalkInv, TimerStages, NotMadeAgain, Held, Hash, tabVars, Procs
<1>6. TimerHolds'
  BY <1>0, <1>1, <1>2 DEF WalkInv, TimerHolds, Hash, tabVars, Procs
<1> QED BY <1>3, <1>4, <1>5, <1>6 DEF WalkInv

LEMMA ExpireNext ==
  ASSUME RegistrarInv, NEW r \in Publics, Expire(r)
  PROVE  RegistrarInv'
<1> USE DEF RegistrarInv
<1>1. UNCHANGED <<locVars, lock, pn, calls, crashed>>
  BY DEF Expire, Keep
<1>2. TableStep /\ Keeps /\ InTable' = InTable /\ None \notin InTable
  BY ExpireTable, Linked, Constants DEF TableInv
<1>3. TableInv' /\ TableTypes'
  BY <1>2, TableNext
<1>4. Types'
  BY <1>1, <1>3, TypesFrom DEF WalkTypes, Types, locVars
<1>5. \A t \in InTable : r_public'[t].aor = r_public[t].aor
  BY <1>2 DEF Keeps, KeepsBut
<1>6. SlotOf' = SlotOf
  BY DEF Expire
<1>7. SipStages' /\ TimerStages' /\ NotMadeAgain'
  BY <1>1 DEF WalkInv, SipStages, OneByOne, TimerStages, NotMadeAgain, locVars
<1>8. Held'
  BY <1>1, <1>2, <1>5, <1>6 DEF WalkInv, Held, Hash, locVars
<1>9. TimerHolds'
  <2>1. pn \in InTable => p[Timer] \in InTable
    BY <1>2 DEF WalkInv, TimerStages, Held, Procs
  <2> QED BY <1>1, <1>2, <1>5, <1>6, <2>1 DEF WalkInv, TimerHolds, Hash, locVars
<1> QED BY <1>3, <1>4, <1>7, <1>8, <1>9 DEF WalkInv

LEMMA StutterNext ==
  ASSUME RegistrarInv, UNCHANGED vars
  PROVE  RegistrarInv'
<1> USE DEF vars, tabVars, locVars
<1>1. Types' /\ InTable' = InTable
  BY DEF RegistrarInv, Types, InTable
<1>2. TableInv'
  BY <1>1 DEF RegistrarInv, TableInv, SlotsRight, MadeApart, ReferIfUsed, Counted
<1>3. WalkInv'
  BY <1>1 DEF RegistrarInv, WalkInv, SipStages, OneByOne, TimerStages, Held, TimerHolds, Hash,
              NotMadeAgain
<1> QED BY <1>1, <1>2, <1>3 DEF RegistrarInv

LEMMA RegistrarNext == RegistrarInv /\ [Next]_vars => RegistrarInv'
BY SipNext, TimerNext, BeginNext, ExpireNext, StutterNext DEF Next
-----------------------------------------------------------------------------
(* The first state.                                                         *)

LEMMA SetToSeqIs ==
  ASSUME NEW S, IsFiniteSet(S)
  PROVE  SetToSeq(S) \in Seq(S) /\ Range(SetToSeq(S)) = S /\ IsInjective(SetToSeq(S))
<1> DEFINE n == Cardinality(S)
           l == SetToSeq(S)
<1>1. n \in Nat /\ ExistsBijection(1..n, S)
  BY FS_CardinalityType
<1>2. \E f \in [1..n -> S] : IsInjective(f)
  BY <1>1 DEF ExistsBijection, Bijection, Injection
<1>3. l \in [1..n -> S] /\ IsInjective(l)
  BY <1>2, Zenon DEF SetToSeq
<1>4. IsFiniteSet(1..n) /\ Cardinality(1..n) = n
  BY <1>1, FS_Interval
<1> HIDE DEF l
<1>5. l \in Injection(1..n, S)
  BY <1>3 DEF Injection
<1>6. l \in Surjection(1..n, S)
  BY <1>4, <1>5, FS_Injection
<1>7. l \in Seq(S)
  BY <1>1, <1>3
<1>8. Range(l) = S
  BY <1>3, <1>6 DEF Range, Surjection
<1> QED BY <1>3, <1>7, <1>8 DEF l

LEMMA RegistrarInit == Init => RegistrarInv
<1> SUFFICES ASSUME Init PROVE RegistrarInv
  OBVIOUS
<1> DEFINE n == Len(ImplicitSet)
           At(h) == {r \in 1..n : SlotOf[ImplicitSet[r]] = h}
<1>1. n \in Nat /\ n <= MaxPublics /\ MaxPublics \in Nat /\ MaxCalls \in Nat /\ 1 \in Profiles
      /\ 1..n \subseteq Publics
  BY RegistrarAssumption DEF Publics
<1>2. \A r \in 1..n : ImplicitSet[r] \in Ids
  BY RegistrarAssumption
<1>3. SlotOf \in [Ids -> 1..Slots]
  BY Constants DEF Init
<1>4. /\ \A r \in 1..n : r_public[r].aor = ImplicitSet[r] /\ r_public[r].s = 1
      /\ \A r \in Publics : r \notin 1..n => r_public[r].s = None
      /\ r_public \in [Publics -> Contents]
  <2>1. [x \in Devices |-> "valid"] \in [Devices -> {"none", "valid", "expired"}]
        /\ NoContacts \in [Devices -> {"none", "valid", "expired"}]
    BY DEF NoContacts
  <2>2. Free \in Contents
    BY <2>1 DEF Free, Contents, States
  <2> DEFINE Full(r) == [Free EXCEPT !.aor = ImplicitSet[r], !.reg_state = "REGISTERED", !.s = 1,
                                     !.head = [x \in Devices |-> "valid"]]
  <2>3. ASSUME NEW r \in 1..n
        PROVE  Full(r) \in Contents /\ Full(r).aor = ImplicitSet[r] /\ Full(r).s = 1
    BY <1>1, <1>2, <2>1 DEF Free, Contents, States
  <2>4. Free.s = None
    BY DEF Free
  <2>5. r_public = [r \in Publics |-> IF r > n THEN Free ELSE Full(r)]
    BY DEF Init, RegisteredSet
  <2>6. \A r \in Publics : r > n <=> r \notin 1..n
    BY <1>1 DEF Publics
  <2> HIDE DEF Full
  <2> QED BY <1>1, <2>2, <2>3, <2>4, <2>5, <2>6
<1>5. ASSUME NEW h \in 1..Slots
      PROVE  slot[h] \in Seq(Publics) /\ Range(slot[h]) = At(h) /\ IsInjective(slot[h])
  <2>1. IsFiniteSet(At(h))
    <3>1. IsFiniteSet(1..n)
      BY <1>1, FS_Interval
    <3> QED BY <3>1, FS_Subset
  <2>2. slot[h] = SetToSeq(At(h)) /\ At(h) \subseteq Publics
    BY <1>1 DEF Init, RegisteredSet
  <2> HIDE DEF At
  <2>3. slot[h] \in Seq(At(h)) /\ Range(slot[h]) = At(h) /\ IsInjective(slot[h])
    BY <2>1, <2>2, SetToSeqIs
  <2> QED BY <2>2, <2>3
<1>6. InTable = 1..n
  <2>1. \A r \in 1..n : SlotOf[ImplicitSet[r]] \in 1..Slots
    BY <1>2, <1>3
  <2> QED BY <1>5, <2>1 DEF InTable
<1>7. Types
  <2>1. slot \in [1..Slots -> Seq(Publics)]
    BY <1>5 DEF Init, RegisteredSet
  <2>2. ref_count \in [Profiles -> Int]
    <3>1. \A x \in Profiles : (IF x = 1 THEN n ELSE 0) \in Int
      BY <1>1
    <3>2. ref_count = [x \in Profiles |-> IF x = 1 THEN n ELSE 0]
      BY DEF Init, RegisteredSet
    <3> HIDE DEF n
    <3> QED BY <3>1, <3>2
  <2> QED BY <1>1, <1>4, <2>1, <2>2 DEF Init, Types
<1>8. SlotsRight
  BY <1>2, <1>4, <1>5 DEF SlotsRight
<1>9. MadeApart /\ ReferIfUsed
  <2>1. 1 # None
    BY <1>1, Constants
  <2>2. \A q \in Procs : made[q] = None
    BY DEF Init
  <2> QED BY <1>4, <1>6, <2>1, <2>2, Constants DEF MadeApart, ReferIfUsed
<1>10. Counted
  <2> SUFFICES ASSUME NEW x \in Profiles
               PROVE  ref_count[x] = Cardinality({r \in Publics : r_public[r].s = x})
    BY DEF Counted
  <2>1. ref_count[x] = IF x = 1 THEN n ELSE 0
    BY DEF Init, RegisteredSet
  <2>2. CASE x = 1
    <3>1. {r \in Publics : r_public[r].s = x} = 1..n
      BY <1>1, <1>4, <2>2, Constants
    <3>2. Cardinality(1..n) = n
      <4> HIDE DEF n
      <4>1. 1 \in Int /\ n \in Int
        BY <1>1
      <4>2. Cardinality(1..n) = IF 1 > n THEN 0 ELSE n - 1 + 1
        BY <4>1, FS_Interval
      <4> QED BY <1>1, <4>2
    <3> QED BY <2>1, <2>2, <3>1, <3>2
  <2>3. CASE x # 1
    <3>1. {r \in Publics : r_public[r].s = x} = {}
      BY <1>4, <2>3, Constants
    <3> QED BY <2>1, <2>3, <3>1, FS_EmptySet
  <2> QED BY <2>2, <2>3
<1>11. SipStages /\ TimerStages
  <2>1. Timer \in Procs /\ SipProcs \subseteq Procs /\ 1 \in 1..Slots
    BY Constants DEF Procs
  <2> QED BY <2>1 DEF Init, SipStages, TimerStages
<1>12. Held /\ TimerHolds /\ NotMadeAgain
  <2>1. None \notin InTable
    BY <1>1, <1>6, Constants
  <2>2. /\ \A q \in Procs : p[q] = None /\ made[q] = None /\ pc[q] = "idle"
        /\ pn = None /\ Timer \in Procs
    BY DEF Init, Procs
  <2> QED BY <2>1, <2>2 DEF Held, TimerHolds, NotMadeAgain
<1> QED BY <1>7, <1>8, <1>9, <1>10, <1>11, <1>12 DEF RegistrarInv, TableInv, WalkInv

-----------------------------------------------------------------------------
(* What it says.                                                            *)

LEMMA RefsBounded ==
  ASSUME RegistrarInv, NEW x \in Profiles
  PROVE  ref_count[x] \in 0..MaxPublics
<1> DEFINE A == {r \in Publics : r_public[r].s = x}
<1>1. MaxPublics \in Nat /\ IsFiniteSet(Publics) /\ Cardinality(Publics) = MaxPublics
  BY FS_Interval, RegistrarAssumption DEF Publics
<1>2. IsFiniteSet(A) /\ Cardinality(A) <= MaxPublics
  BY <1>1, FS_Subset
<1>3. Cardinality(A) \in Nat
  BY <1>2, FS_CardinalityType
<1> QED BY <1>1, <1>2, <1>3 DEF RegistrarInv, TableInv, Counted

LEMMA RegistrarTypes == RegistrarInv => TypeOK
<1> SUFFICES ASSUME RegistrarInv PROVE TypeOK
  OBVIOUS
<1>1. ref_count \in [Profiles -> 0..MaxPublics]
  BY RefsBounded DEF RegistrarInv, Types
<1> QED BY <1>1 DEF RegistrarInv, Types, TypeOK, Contents

LEMMA RegistrarRefs == RegistrarInv => RefsCounted
<1> SUFFICES ASSUME RegistrarInv, NEW x \in Profiles
             PROVE  ref_count[x] =
                      Cardinality({r \in InTable \cup (Range(made) \ {None}) : r_public[r].s = x})
  BY DEF RefsCounted
<1>1. InTable \subseteq Publics
  BY Linked DEF RegistrarInv, TableInv
<1>2. Range(made) = {made[q] : q \in Procs} /\ \A q \in Procs : made[q] \in Publics \cup {None}
  BY DEF RegistrarInv, Types, Range
<1>3. \A r \in Publics : r_public[r].s = x => r \in InTable \/ \E q \in Procs : made[q] = r
  BY Constants DEF RegistrarInv, TableInv, ReferIfUsed
<1>4. {r \in InTable \cup (Range(made) \ {None}) : r_public[r].s = x}
        = {r \in Publics : r_public[r].s = x}
  <2> DEFINE B == InTable \cup (Range(made) \ {None})
  <2>1. B \subseteq Publics
    BY <1>1, <1>2
  <2>2. \A r \in Publics : r_public[r].s = x => r \in B
    BY <1>2, <1>3, Constants
  <2> HIDE DEF B
  <2>3. {r \in B : r_public[r].s = x} = {r \in Publics : r_public[r].s = x}
    BY <2>1, <2>2
  <2> QED BY <2>3 DEF B
<1> QED BY <1>4 DEF RegistrarInv, TableInv, Counted

LEMMA RegistrarHolds == RegistrarInv => HeldIsLive /\ RegisteredHasProfile
BY Linked DEF RegistrarInv, WalkInv, Held, HeldIsLive, TableInv, ReferIfUsed, RegisteredHasProfile

\* Every variable keeps its type, and no profile has more references than there are
\* public identities (ims_subscription.ref_count).
THEOREM TypesHold == Spec => []TypeOK
BY RegistrarInit, RegistrarNext, RegistrarTypes, PTL DEF Spec

\* A profile is counted once for each identity that refers to it, linked or just made,
\* whatever requests and the timer do to the set at once.
THEOREM ProfilesAreCounted == Spec => []RefsCounted
BY RegistrarInit, RegistrarNext, RegistrarRefs, PTL DEF Spec

\* The identity whose slot a process keeps, through its walk of the set and the wait for
\* the HSS, is in the table and nobody else's: the lock is never given up or taken by another.
THEOREM HeldStaysLinked == Spec => []HeldIsLive
BY RegistrarInit, RegistrarNext, RegistrarHolds, PTL DEF Spec

\* A registered identity has a profile: the timer never reads one that is not there.
THEOREM RegisteredRefer == Spec => []RegisteredHasProfile
BY RegistrarInit, RegistrarNext, RegistrarHolds, PTL DEF Spec
=============================================================================
