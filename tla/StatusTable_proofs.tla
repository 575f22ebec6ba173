-------------------------- MODULE StatusTable_proofs --------------------------
(***************************************************************************)
(* Proofs about StatusTable: its type invariant, the agreement of its maps *)
(* and that it implements ItemStore, for every set of names, devices,      *)
(* indexes and states.                                                     *)
(*                                                                         *)
(* The inductive invariant is TypeOK together with IndexesAgree: a removal *)
(* finds the items in conflict with an identity through the three maps     *)
(* only, so it takes out all of them, and no others, because the maps      *)
(* agree with the primary map; and it leaves maps that agree.              *)
(***************************************************************************)
EXTENDS StatusTable, TLAPS

\* The maps ix agree with the items its (IndexesAgree, but for the numbering).
Agree(ix, its) ==
  /\ DOMAIN ix = Kind
  /\ DOMAIN its \subseteq Nat
  /\ \A i \in DOMAIN its : its[i] \in Item
  /\ \A k \in Kind : DOMAIN ix[k] = {its[i].id[k] : i \in DOMAIN its} \ {None}
  /\ \A i \in DOMAIN its : \A k \in Kind :
       its[i].id[k] # None => ix[k][its[i].id[k]] = i

\* u is what is left of t once the items whose numbers are in gone are out.
Shrunk(t, u, gone) ==
  /\ Agree(u.index, u.items)
  /\ DOMAIN u.items = DOMAIN t.items \ gone
  /\ \A i \in DOMAIN u.items : u.items[i] = t.items[i]
  /\ u.deleted = t.deleted \cup {t.items[i] : i \in DOMAIN t.items \cap gone}

\* A key of an identity is one of its kind's, or None.
LEMMA KeyTyped ==
  ASSUME NEW c \in Identity, NEW k \in Kind
  PROVE  c[k] \in Key(k) \cup {None}
<1>1. CASE k = "name"
  BY <1>1 DEF Identity, Key
<1>2. CASE k = "device"
  BY <1>2 DEF Identity, Key
<1>3. CASE k = "id"
  BY <1>3 DEF Identity, Key
<1> QED
  BY <1>1, <1>2, <1>3 DEF Kind

\* Two items that have a key in common are the same item.
LEMMA KeyIsUnique ==
  ASSUME NEW ix, NEW its, Agree(ix, its),
         NEW i \in DOMAIN its, NEW j \in DOMAIN its, NEW k \in Kind,
         its[i].id[k] # None, its[i].id[k] = its[j].id[k]
  PROVE  i = j
BY DEF Agree

\* Taking one item out with its keys leaves maps that agree.
LEMMA EvictShrinks ==
  ASSUME NEW t, Agree(t.index, t.items), NEW i \in DOMAIN t.items
  PROVE  Shrunk(t, Evict(t, i), {i})
<1> DEFINE u == Evict(t, i)
<1>1. /\ u.index = [k \in Kind |-> Without(t.index[k], t.items[i].id[k])]
      /\ u.items = Without(t.items, i)
      /\ u.deleted = t.deleted \cup {t.items[i]}
  BY DEF Evict
<1>2. /\ DOMAIN u.items = DOMAIN t.items \ {i}
      /\ \A j \in DOMAIN u.items : u.items[j] = t.items[j]
  BY <1>1 DEF Without, Restrict
<1>3. ASSUME NEW k \in Kind
      PROVE  /\ DOMAIN u.index[k] = DOMAIN t.index[k] \ {t.items[i].id[k]}
             /\ \A x \in DOMAIN u.index[k] : u.index[k][x] = t.index[k][x]
  BY <1>1 DEF Without, Restrict
<1>4. ASSUME NEW k \in Kind
      PROVE  DOMAIN u.index[k] = {u.items[j].id[k] : j \in DOMAIN u.items} \ {None}
  <2>1. DOMAIN t.index[k] = {t.items[j].id[k] : j \in DOMAIN t.items} \ {None}
    BY DEF Agree
  <2>2. ASSUME NEW x \in DOMAIN u.index[k]
        PROVE  x \in {u.items[j].id[k] : j \in DOMAIN u.items} \ {None}
    <3>1. x # None /\ x # t.items[i].id[k]
      BY <1>3, <2>1
    <3>2. PICK j \in DOMAIN t.items : x = t.items[j].id[k]
      BY <1>3, <2>1
    <3> QED
      BY <1>2, <3>1, <3>2
  <2>3. ASSUME NEW j \in DOMAIN u.items, u.items[j].id[k] # None
        PROVE  u.items[j].id[k] \in DOMAIN u.index[k]
    <3>1. j \in DOMAIN t.items /\ j # i /\ u.items[j] = t.items[j]
      BY <1>2
    <3>2. t.items[j].id[k] # t.items[i].id[k]
      BY <2>3, <3>1, KeyIsUnique
    <3> QED
      BY <1>3, <2>1, <2>3, <3>1, <3>2
  <2> QED
    BY <2>2, <2>3
<1>5. ASSUME NEW j \in DOMAIN u.items, NEW k \in Kind, u.items[j].id[k] # None
      PROVE  u.index[k][u.items[j].id[k]] = j
  <2>1. u.items[j].id[k] \in DOMAIN u.index[k]
    BY <1>4, <1>5
  <2> QED
    BY <1>2, <1>3, <1>5, <2>1 DEF Agree
<1>6. Agree(u.index, u.items)
  BY <1>1, <1>2, <1>4, <1>5 DEF Agree
<1> QED
  BY <1>1, <1>2, <1>6 DEF Shrunk

\* The numbers of the items whose key of kind k is that of c.
SameKey(its, k, c) == {i \in DOMAIN its : c[k] # None /\ its[i].id[k] = c[k]}

\* One lookup of a removal takes out the item with that key, if there is one.
LEMMA RemoveByShrinks ==
  ASSUME NEW t, Agree(t.index, t.items), NEW c \in Identity, NEW k \in Kind
  PROVE  Shrunk(t, RemoveBy(t, k, c), SameKey(t.items, k, c))
<1>1. CASE c[k] = None \/ c[k] \notin DOMAIN t.index[k]
  <2>1. RemoveBy(t, k, c) = t
    BY <1>1 DEF RemoveBy
  <2>2. SameKey(t.items, k, c) = {}
    BY <1>1 DEF SameKey, Agree
  <2> QED
    BY <2>1, <2>2 DEF Shrunk
<1>2. CASE c[k] # None /\ c[k] \in DOMAIN t.index[k]
  <2> DEFINE i == t.index[k][c[k]]
             u == [index   |-> [t.index EXCEPT ![k] = Without(@, c[k])],
                   items   |-> t.items,
                   deleted |-> t.deleted]
  <2>1. i \in DOMAIN t.items /\ t.items[i].id[k] = c[k]
    BY <1>2 DEF Agree
  <2>2. SameKey(t.items, k, c) = {i}
    BY <1>2, <2>1, KeyIsUnique DEF SameKey
  <2>3. RemoveBy(t, k, c) = Evict(u, i)
    BY <1>2, <2>1 DEF RemoveBy
  <2>4. Evict(u, i) = Evict(t, i)
    <3>1. ASSUME NEW m \in Kind
          PROVE  Without(u.index[m], t.items[i].id[m])
                   = Without(t.index[m], t.items[i].id[m])
      <4>1. CASE m # k
        BY <4>1 DEF Agree
      <4>2. CASE m = k
        <5>1. u.index[m] = Without(t.index[m], c[m])
          BY <4>2 DEF Agree
        <5>2. t.items[i].id[m] = c[m]
          BY <2>1, <4>2
        <5> QED
          BY <5>1, <5>2 DEF Without, Restrict
      <4> QED
        BY <4>1, <4>2
    <3>2. u.items = t.items /\ u.deleted = t.deleted
      OBVIOUS
    <3> HIDE DEF u
    <3> QED
      BY <3>1, <3>2 DEF Evict
  <2> QED
    BY <2>1, <2>2, <2>3, <2>4, EvictShrinks
<1> QED
  BY <1>1, <1>2

\* A removal takes out exactly the items in conflict with the identity.
LEMMA RemoveShrinks ==
  ASSUME NEW t, Agree(t.index, t.items), NEW c \in Identity
  PROVE  Shrunk(t, RemoveStatusItem(t, c),
                {i \in DOMAIN t.items : SharesKey(c, t.items[i].id)})
<1> DEFINE t1 == RemoveBy(t, "name", c)
           t2 == RemoveBy(t1, "device", c)
           t3 == RemoveBy(t2, "id", c)
           g1 == SameKey(t.items, "name", c)
           g2 == SameKey(t1.items, "device", c)
           g3 == SameKey(t2.items, "id", c)
           gone == {i \in DOMAIN t.items : SharesKey(c, t.items[i].id)}
<1>1. Shrunk(t, t1, g1)
  BY RemoveByShrinks DEF Kind
<1>2. Shrunk(t1, t2, g2)
  BY <1>1, RemoveByShrinks DEF Kind, Shrunk
<1>3. Shrunk(t2, t3, g3)
  BY <1>2, RemoveByShrinks DEF Kind, Shrunk
<1>4. RemoveStatusItem(t, c) = t3
  BY DEF RemoveStatusItem
<1>5. gone = g1 \cup g2 \cup g3
  <2>1. ASSUME NEW i \in DOMAIN t.items
        PROVE  i \in gone <=> \/ c["name"] # None /\ t.items[i].id["name"] = c["name"]
                              \/ c["device"] # None /\ t.items[i].id["device"] = c["device"]
                              \/ c["id"] # None /\ t.items[i].id["id"] = c["id"]
    BY DEF SharesKey, Kind
  <2> HIDE DEF t1, t2, t3
  <2> QED
    BY <1>1, <1>2, <2>1 DEF Shrunk, SameKey
<1> HIDE DEF t1, t2, t3, g1, g2, g3, gone
<1>6. /\ DOMAIN t3.items = DOMAIN t.items \ gone
      /\ \A i \in DOMAIN t3.items : t3.items[i] = t.items[i]
  BY <1>1, <1>2, <1>3, <1>5 DEF Shrunk
<1>7. t3.deleted = t.deleted \cup {t.items[i] : i \in DOMAIN t.items \cap gone}
  <2>1. t1.deleted = t.deleted \cup {t.items[i] : i \in DOMAIN t.items \cap g1}
    BY <1>1 DEF Shrunk
  <2>2. t2.deleted = t1.deleted \cup {t.items[i] : i \in DOMAIN t1.items \cap g2}
    BY <1>1, <1>2 DEF Shrunk
  <2>3. t3.deleted = t2.deleted \cup {t.items[i] : i \in DOMAIN t2.items \cap g3}
    BY <1>1, <1>2, <1>3 DEF Shrunk
  <2>4. DOMAIN t1.items = DOMAIN t.items \ g1 /\ DOMAIN t2.items = DOMAIN t1.items \ g2
    BY <1>1, <1>2 DEF Shrunk
  <2> QED
    BY <1>5, <2>1, <2>2, <2>3, <2>4
<1> QED
  BY <1>3, <1>4, <1>6, <1>7 DEF Shrunk, gone

-----------------------------------------------------------------------------
\* The inductive invariant.
IInv == TypeOK /\ IndexesAgree

\* The invariant gives agreement of the current maps with the current items.
LEMMA IInvAgrees ==
  ASSUME IInv
  PROVE  Agree(index, items)
BY DEF IInv, TypeOK, IndexesAgree, Agree

\* The maps' keys and numbers are of the right types when the maps agree.
LEMMA AgreeTyped ==
  ASSUME NEW ix, NEW its, Agree(ix, its)
  PROVE  /\ DOMAIN ix = Kind
         /\ \A k \in Kind : /\ DOMAIN ix[k] \subseteq Key(k)
                            /\ \A key \in DOMAIN ix[k] : ix[k][key] \in DOMAIN its
         /\ DOMAIN its \subseteq Nat
         /\ \A i \in DOMAIN its : its[i] \in Item
<1>1. ASSUME NEW k \in Kind, NEW key \in DOMAIN ix[k]
      PROVE  key \in Key(k) /\ ix[k][key] \in DOMAIN its
  <2>1. PICK i \in DOMAIN its : key = its[i].id[k] /\ key # None
    BY DEF Agree
  <2>2. ix[k][key] = i
    BY <2>1 DEF Agree
  <2>3. its[i].id \in Identity
    BY DEF Agree, Item
  <2> QED
    BY <2>1, <2>2, <2>3, KeyTyped
<1> QED
  BY <1>1 DEF Agree

\* What a removal from the current table leaves, in terms of the items alone.
LEMMA RemovalFromTable ==
  ASSUME IInv, NEW c \in Identity
  PROVE  LET t == RemoveStatusItem(Table, c) IN
         /\ Agree(t.index, t.items)
         /\ DOMAIN t.items = {i \in DOMAIN items : ~SharesKey(c, items[i].id)}
         /\ \A i \in DOMAIN t.items : t.items[i] = items[i]
         /\ t.deleted = Overlapping(Stored, c)
<1> DEFINE t == RemoveStatusItem(Table, c)
           gone == {i \in DOMAIN items : SharesKey(c, items[i].id)}
<1>1. Table.index = index /\ Table.items = items /\ Table.deleted = {}
  BY DEF Table
<1>2. Shrunk(Table, t, gone)
  BY <1>1, IInvAgrees, RemoveShrinks
<1>3. {items[i] : i \in DOMAIN items \cap gone} = Overlapping(Stored, c)
  BY DEF Overlapping, Stored
<1> HIDE DEF t
<1>4. t.deleted = Overlapping(Stored, c)
  BY <1>1, <1>2, <1>3 DEF Shrunk
<1>5. /\ Agree(t.index, t.items)
      /\ DOMAIN t.items = {i \in DOMAIN items : ~SharesKey(c, items[i].id)}
      /\ \A i \in DOMAIN t.items : t.items[i] = items[i]
  BY <1>1, <1>2 DEF Shrunk
<1> QED
  BY <1>4, <1>5 DEF t

\* Entering a new item, in conflict with none of those held, under a number
\* above all in use.
LEMMA InsertAgrees ==
  ASSUME NEW t, Agree(t.index, t.items), NEW x \in Item, NEW n \in Nat,
         \A i \in DOMAIN t.items : i < n /\ ~SharesKey(x.id, t.items[i].id)
  PROVE  Agree(IndexKeys(t, x, n), Insert(t.items, n, x))
<1> DEFINE ix == IndexKeys(t, x, n)
           its == Insert(t.items, n, x)
<1>1. n \notin DOMAIN t.items
  BY DEF Agree
<1>2. /\ DOMAIN its = DOMAIN t.items \cup {n}
      /\ its[n] = x
      /\ \A i \in DOMAIN t.items : its[i] = t.items[i]
  BY <1>1 DEF Insert
<1>3. ASSUME NEW k \in Kind
      PROVE  /\ x.id[k] = None => ix[k] = t.index[k]
             /\ x.id[k] # None => /\ DOMAIN ix[k] = DOMAIN t.index[k] \cup {x.id[k]}
                                  /\ ix[k][x.id[k]] = n
                                  /\ \A y \in DOMAIN t.index[k] \ {x.id[k]} :
                                       ix[k][y] = t.index[k][y]
  BY DEF IndexKeys, Insert
<1>4. DOMAIN ix = Kind
  BY DEF IndexKeys
<1> HIDE DEF ix, its
<1>5. \A i \in DOMAIN its : its[i] \in Item
  BY <1>2 DEF Agree
<1>6. ASSUME NEW k \in Kind
      PROVE  DOMAIN ix[k] = {its[i].id[k] : i \in DOMAIN its} \ {None}
  <2>1. DOMAIN t.index[k] = {t.items[i].id[k] : i \in DOMAIN t.items} \ {None}
    BY DEF Agree
  <2>2. {its[i].id[k] : i \in DOMAIN its}
          = {t.items[i].id[k] : i \in DOMAIN t.items} \cup {x.id[k]}
    BY <1>2
  <2> QED
    BY <1>3, <2>1, <2>2
<1>7. ASSUME NEW i \in DOMAIN its, NEW k \in Kind, its[i].id[k] # None
      PROVE  ix[k][its[i].id[k]] = i
  <2>1. CASE i = n
    BY <1>2, <1>3, <1>7, <2>1
  <2>2. CASE i \in DOMAIN t.items
    <3>1. its[i] = t.items[i]
      BY <1>2, <2>2
    <3>2. t.items[i].id[k] # x.id[k]
      BY <1>7, <2>2, <3>1 DEF SharesKey
    <3>3. /\ t.items[i].id[k] \in DOMAIN t.index[k]
          /\ t.index[k][t.items[i].id[k]] = i
      BY <1>7, <2>2, <3>1 DEF Agree
    <3> QED
      BY <1>3, <3>1, <3>2, <3>3
  <2> QED
    BY <1>2, <2>1, <2>2
<1>8. DOMAIN its \subseteq Nat
  BY <1>2 DEF Agree
<1> QED
  BY <1>4, <1>5, <1>6, <1>7, <1>8 DEF Agree, ix, its

-----------------------------------------------------------------------------
\* InterfaceManagerDatabase::new: empty maps satisfy the invariant.
LEMMA InitIInv == Init => IInv
BY DEF Init, IInv, TypeOK, IndexesAgree, NoKeys, NoItems, Kind

\* Agreement, numbering and the reply's type make up the invariant.
LEMMA IInvFromAgree ==
  ASSUME Agree(index', items')
  PROVE  /\ next' \in Nat
         /\ \A i \in DOMAIN items' : i < next'
         /\ reply' \subseteq Item
         => IInv'
<1>1. SUFFICES ASSUME /\ next' \in Nat
                      /\ \A i \in DOMAIN items' : i < next'
                      /\ reply' \subseteq Item
               PROVE  IInv'
  OBVIOUS
<1>2. TypeOK'
  BY <1>1, AgreeTyped DEF TypeOK
<1>3. IndexesAgree'
  BY <1>1 DEF IndexesAgree, Agree
<1> QED
  BY <1>2, <1>3 DEF IInv

\* What take_* and list_* return are items.
LEMMA StoredTyped == ASSUME IInv PROVE Stored \subseteq Item
BY DEF IInv, TypeOK, Stored

\* set_*_status_item keeps the invariant and is Set of ItemStore: its reply and
\* the items it leaves are those of the abstract call.
LEMMA SetStep ==
  ASSUME IInv, NEW x \in Item, Set(x)
  PROVE  IInv' /\ Store!Set(x)
<1> DEFINE t == RemoveStatusItem(Table, x.id)
<1>1. x.id \in Identity
  BY DEF Item
<1>2. /\ Agree(t.index, t.items)
      /\ DOMAIN t.items = {i \in DOMAIN items : ~SharesKey(x.id, items[i].id)}
      /\ \A i \in DOMAIN t.items : t.items[i] = items[i]
      /\ t.deleted = Overlapping(Stored, x.id)
  BY <1>1, RemovalFromTable
<1>3. /\ next' = next + 1
      /\ index' = IndexKeys(t, x, next)
      /\ items' = Insert(t.items, next, x)
      /\ reply' = t.deleted
  BY DEF Set
<1> HIDE DEF t
<1>4. next \in Nat /\ \A i \in DOMAIN items : i < next
  BY DEF IInv, TypeOK, IndexesAgree
<1>5. Agree(index', items')
  BY <1>2, <1>3, <1>4, InsertAgrees
<1>6. DOMAIN items' = DOMAIN t.items \cup {next}
  BY <1>3 DEF Insert
<1>7. \A i \in DOMAIN items' : i < next'
  <2>1. DOMAIN t.items \subseteq DOMAIN items /\ DOMAIN items \subseteq Nat
    BY <1>2 DEF IInv, TypeOK
  <2> QED
    BY <1>3, <1>4, <1>6, <2>1
<1>8. reply' \subseteq Item
  BY <1>2, <1>3, StoredTyped DEF Overlapping
<1>9. Stored' = PutItem(Stored, x)
  <2>1. Stored' = {t.items[i] : i \in DOMAIN t.items} \cup {x}
    <3>1. next \notin DOMAIN t.items
      BY <1>2, <1>4
    <3> QED
      BY <1>3, <3>1 DEF Stored, Insert
  <2>2. {t.items[i] : i \in DOMAIN t.items} = DropItems(Stored, x.id)
    BY <1>2 DEF Stored, DropItems, Overlapping
  <2> QED
    BY <2>1, <2>2 DEF PutItem
<1>10. Store!Set(x)
  BY <1>2, <1>3, <1>9 DEF Store!Set, Store!Overlapping, Store!PutItem, Store!DropItems,
       Store!SharesKey, Store!Kind, Overlapping, PutItem, DropItems, SharesKey, Kind
<1> QED
  BY <1>3, <1>4, <1>5, <1>7, <1>8, <1>10, IInvFromAgree

\* remove_*_status_item keeps the invariant and is Remove of ItemStore.
LEMMA RemoveStep ==
  ASSUME IInv, NEW c \in Identity, Remove(c)
  PROVE  IInv' /\ Store!Remove(c)
<1> DEFINE t == RemoveStatusItem(Table, c)
<1>1. /\ Agree(t.index, t.items)
      /\ DOMAIN t.items = {i \in DOMAIN items : ~SharesKey(c, items[i].id)}
      /\ \A i \in DOMAIN t.items : t.items[i] = items[i]
      /\ t.deleted = Overlapping(Stored, c)
  BY RemovalFromTable
<1>2. next' = next /\ index' = t.index /\ items' = t.items /\ reply' = t.deleted
  BY DEF Remove
<1> HIDE DEF t
<1>3. next' \in Nat /\ \A i \in DOMAIN items' : i < next'
  BY <1>1, <1>2 DEF IInv, TypeOK, IndexesAgree
<1>4. reply' \subseteq Item
  BY <1>1, <1>2, StoredTyped DEF Overlapping
<1>5. Stored' = DropItems(Stored, c)
  BY <1>1, <1>2 DEF Stored, DropItems, Overlapping
<1>6. Store!Remove(c)
  BY <1>1, <1>2, <1>5 DEF Store!Remove, Store!Overlapping, Store!DropItems,
       Store!SharesKey, Store!Kind, Overlapping, DropItems, SharesKey, Kind
<1> QED
  BY <1>1, <1>2, <1>3, <1>4, <1>6, IInvFromAgree

\* take_*_status_items empties every map with the items, so that numbering may
\* start again; it is Take of ItemStore.
LEMMA TakeStep ==
  ASSUME IInv, Take
  PROVE  IInv' /\ Store!Take
<1>1. next' = 0 /\ index' = NoKeys /\ items' = NoItems /\ reply' = Stored
  BY DEF Take
<1>2. Agree(index', items')
  BY <1>1 DEF Agree, NoKeys, NoItems
<1>3. next' \in Nat /\ \A i \in DOMAIN items' : i < next'
  BY <1>1 DEF NoItems
<1>4. Stored' = {}
  BY <1>1 DEF Stored, NoItems
<1> QED
  BY <1>1, <1>2, <1>3, <1>4, IInvFromAgree, StoredTyped DEF Store!Take

\* The calls that only look things up.
LEMMA ReadStep ==
  ASSUME IInv, UNCHANGED <<next, index, items>>, reply' \subseteq Stored
  PROVE  IInv' /\ UNCHANGED Stored
<1>1. UNCHANGED Stored
  BY DEF Stored
<1>2. reply' \subseteq Item
  BY StoredTyped
<1> QED
  BY <1>1, <1>2 DEF IInv, TypeOK, IndexesAgree

\* The lookup by device index finds the one item of ItemStore's answer.
LEMMA GetByDeviceIndexStep ==
  ASSUME IInv, NEW d \in DeviceIds, GetByDeviceIndex(d)
  PROVE  /\ IInv' /\ UNCHANGED Stored
         /\ reply' = {x \in Stored : x.id.id = d}
<1>1. d # None
  BY ConstantsAssumption
<1>2. reply' = {x \in Stored : x.id.id = d}
  <2>1. DOMAIN index["id"] = {items[i].id["id"] : i \in DOMAIN items} \ {None}
    BY DEF IInv, IndexesAgree, Kind
  <2>2. \A i \in DOMAIN items : items[i].id["id"] # None => index["id"][items[i].id["id"]] = i
    BY DEF IInv, IndexesAgree, Kind
  <2>3. CASE d \in DOMAIN index["id"]
    <3>1. PICK i \in DOMAIN items : items[i].id["id"] = d
      BY <2>1, <2>3
    <3>2. index["id"][d] = i
      BY <1>1, <2>2, <3>1
    <3>3. reply' = {items[i]}
      BY <2>3, <3>2 DEF GetByDeviceIndex
    <3>4. \A j \in DOMAIN items : items[j].id["id"] = d => j = i
      BY <1>1, <2>2, <3>2
    <3> QED
      BY <3>1, <3>3, <3>4 DEF Stored
  <2>4. CASE d \notin DOMAIN index["id"]
    <3>1. reply' = {}
      BY <2>4 DEF GetByDeviceIndex
    <3>2. \A j \in DOMAIN items : items[j].id["id"] # d
      BY <1>1, <2>1, <2>4
    <3> QED
      BY <3>1, <3>2 DEF Stored
  <2> QED
    BY <2>3, <2>4
<1>3. UNCHANGED <<next, index, items>>
  BY DEF GetByDeviceIndex
<1>4. reply' \subseteq Stored
  BY <1>2
<1> QED
  BY <1>2, <1>3, <1>4, ReadStep

-----------------------------------------------------------------------------
\* Every step keeps the invariant and is a step of ItemStore, or a stutter.
LEMMA NextStep ==
  ASSUME IInv, [Next]_vars
  PROVE  IInv' /\ [Store!Next]_(Store!vars)
<1>1. ASSUME NEW x \in Item, Set(x)
      PROVE  IInv' /\ [Store!Next]_(Store!vars)
  BY <1>1, SetStep DEF Store!Next, Store!Item, Item
<1>2. ASSUME NEW c \in Identity, Remove(c)
      PROVE  IInv' /\ [Store!Next]_(Store!vars)
  BY <1>2, RemoveStep DEF Store!Next
<1>3. CASE Take
  BY <1>3, TakeStep DEF Store!Next
<1>4. ASSUME NEW d \in DeviceIds, GetByDeviceIndex(d)
      PROVE  IInv' /\ [Store!Next]_(Store!vars)
  <2>1. /\ IInv' /\ UNCHANGED Stored
        /\ reply' = {x \in Stored : x.id.id = d}
    BY <1>4, GetByDeviceIndexStep
  <2>2. Store!GetByDeviceIndex(d)
    BY <2>1 DEF Store!GetByDeviceIndex
  <2> QED
    BY <2>1, <2>2 DEF Store!Next
<1>5. CASE List
  <2>1. UNCHANGED <<next, index, items>> /\ reply' = Stored
    BY <1>5 DEF List
  <2>2. IInv' /\ UNCHANGED Stored
    BY <2>1, ReadStep
  <2>3. Store!List
    BY <2>1, <2>2 DEF Store!List
  <2> QED
    BY <2>2, <2>3 DEF Store!Next
<1>6. CASE UNCHANGED vars
  BY <1>6 DEF vars, IInv, TypeOK, IndexesAgree, Store!vars, Stored
<1> QED
  BY <1>1, <1>2, <1>3, <1>4, <1>5, <1>6 DEF Next

\* The invariant holds in every reachable state of the table.
LEMMA Invariance == Spec => []IInv
<1>1. Init => IInv
  BY InitIInv
<1>2. IInv /\ [Next]_vars => IInv'
  BY NextStep
<1> QED
  BY <1>1, <1>2, PTL DEF Spec

\* Whatever calls are made, the table's numbers, keys and items are of the
\* types database.rs declares, and no call returns anything but an item.
THEOREM TypeCorrect == Spec => []TypeOK
<1>1. IInv => TypeOK
  BY DEF IInv
<1> QED
  BY <1>1, Invariance, PTL

\* The three maps and the primary map agree after every call: no removal or
\* drain leaves a dangling entry, and no insertion overwrites an item.
THEOREM IndexesAlwaysAgree == Spec => []IndexesAgree
<1>1. IInv => IndexesAgree
  BY DEF IInv
<1> QED
  BY <1>1, Invariance, PTL

\* No two stored items ever share a configured name, a device name or a
\* device index.
THEOREM KeysAlwaysUnique == Spec => []UniqueKeys
<1>1. IInv => UniqueKeys
  <2> SUFFICES ASSUME IInv, NEW x \in Stored, NEW y \in Stored, SharesKey(x.id, y.id)
               PROVE  x = y
    BY DEF UniqueKeys, Store!UniqueKeys, Store!PairwiseDistinct, Store!SharesKey,
         Store!Kind, SharesKey, Kind
  <2>1. PICK i \in DOMAIN items : x = items[i]
    BY DEF Stored
  <2>2. PICK j \in DOMAIN items : y = items[j]
    BY DEF Stored
  <2>3. PICK k \in Kind : items[i].id[k] # None /\ items[i].id[k] = items[j].id[k]
    BY <2>1, <2>2 DEF SharesKey
  <2> QED
    BY <2>1, <2>2, <2>3, IInvAgrees, KeyIsUnique
<1> QED
  BY <1>1, Invariance, PTL

\* The table implements a plain set of items without conflicts: each call
\* displaces and returns exactly the items in conflict with its argument.
THEOREM TableImplementsItemStore == Spec => ImplementsItemStore
<1>1. Init => Store!Init
  BY DEF Init, Store!Init, Stored, NoItems
<1>2. IInv /\ [Next]_vars => [Store!Next]_(Store!vars)
  BY NextStep
<1> QED
  BY <1>1, <1>2, Invariance, PTL DEF Spec, ImplementsItemStore, Store!Spec
===============================================================================
