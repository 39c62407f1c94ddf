--------------------------- MODULE AuctionProofs ----------------------------
(***************************************************************************)
(* Proofs about Auction, for any number of devices, users, items and       *)
(* amounts, any clock and any number of faults.                            *)
(***************************************************************************)
EXTENDS Auction, SequenceTheorems, TLAPS

-----------------------------------------------------------------------------
(***************************************************************************)
(* The types of the operators                                              *)
(***************************************************************************)

LEMMA NoProductType == NoProduct \in Product
  BY DEF NoProduct, Product

LEMMA NewProductType ==
  ASSUME NEW l \in Listing
  PROVE  NewProduct(l) \in Product
  BY DEF NewProduct, Product

LEMMA CutType ==
  ASSUME NEW t \in Nat
  PROVE  CutToMinute(t) \in Nat
  BY ProductsAssumption DEF CutToMinute

LEMMA OverlayType ==
  ASSUME NEW p \in Product, NEW q \in Product, NEW fs
  PROVE  Overlay(p, q, fs) \in Product
  BY DEF Overlay, Product

LEMMA ApplyType ==
  ASSUME NEW prods \in Products_, NEW w \in Write
  PROVE  Apply(prods, w) \in Products_
  BY OverlayType DEF Apply, Products_, Write

LEMMA WriteTypes ==
  ASSUME NEW i \in Items
  PROVE  /\ RemoveProduct(i) \in Write
         /\ \A l \in Listing : CreateProduct(i, l) \in Write
         /\ \A a \in Nat : SetPrice(i, a) \in Write
         /\ \A u \in Users : SetBidder(i, u) \in Write
<1>1. RemoveProduct(i) \in Write
  BY NoProductType DEF RemoveProduct, Write, Fields
<1>2. \A l \in Listing : CreateProduct(i, l) \in Write
  BY NewProductType DEF CreateProduct, Write, Fields
<1>3. \A a \in Nat : SetPrice(i, a) \in Write
  BY DEF SetPrice, NoProduct, Product, Write, Fields
<1>4. \A u \in Users : SetBidder(i, u) \in Write
  BY DEF SetBidder, NoProduct, Product, Write, Fields
<1> QED
  BY <1>1, <1>2, <1>3, <1>4

LEMMA EventTypes ==
  ASSUME NEW v \in Products_
  PROVE  /\ ProductsEvent(v) \in Event
         /\ \A S \in SUBSET Items : DetailEvent(S, v) \in Event
  BY DEF ProductsEvent, DetailEvent, Event

LEMMA EventsOfType ==
  ASSUME SyncTypeOK, NEW c \in Clients, NEW v \in Products_, NEW w \in Products_
  PROVE  EventsOf(c, v, w) \in Seq(Event)
<1> DEFINE seen == {i \in watching[c] : v[i] # w[i]}
<1>1. seen \in SUBSET Items
  BY DEF SyncTypeOK
<1>2. ProductsEvent(w) \in Event /\ DetailEvent(seen, w) \in Event
  BY <1>1, EventTypes
<1>3. /\ <<>> \in Seq(Event)
      /\ <<ProductsEvent(w)>> \in Seq(Event)
      /\ <<DetailEvent(seen, w), ProductsEvent(w)>> \in Seq(Event)
  BY <1>2
<1> QED
  BY <1>3 DEF EventsOf

LEMMA ListsOfType ==
  ASSUME NEW prods \in Products_, \A i \in Items : ~Partial(prods[i]),
         NEW user, NEW t
  PROVE  ListsOf(prods, user, t) \in Lists
<1>1. ASSUME NEW i \in Items, prods[i] # NoProduct
      PROVE  ToAuctionItem(i, prods[i]) \in AuctionItem
  <2>1. Complete(prods[i])
    BY <1>1 DEF Partial
  <2>2. prods[i].listing \in Listing /\ prods[i].highestbidprice \in Nat
    BY <2>1 DEF Complete, Products_, Product
  <2> QED
    BY <2>2 DEF ToAuctionItem, AuctionItem, Listing
<1> QED
  BY <1>1 DEF ListsOf, Lists

-----------------------------------------------------------------------------
(***************************************************************************)
(* The steps of the database keep its types                                *)
(***************************************************************************)

LEMMA InitialProductsType ==
  ASSUME NEW stored \in [Items -> Listing \cup {Null}]
  PROVE  [i \in Items |-> IF stored[i] = Null THEN NoProduct ELSE NewProduct(stored[i])]
           \in Products_
  BY NoProductType, NewProductType DEF Products_

LEMMA FirstEventType ==
  ASSUME SyncTypeOK, NEW c \in Clients, NEW i \in Items, FirstEvent(c, i)
  PROVE  inbox' \in [Clients -> Seq(Event)]
<1>1. DetailEvent({i}, view[c]) \in Event
  BY EventTypes DEF SyncTypeOK
<1> QED
  BY <1>1 DEF FirstEvent, SyncTypeOK

LEMMA ObserveType ==
  ASSUME SyncTypeOK, NEW c \in Clients, NEW i \in Items,
         Observe(c, i) \/ ObserveSingleEvent(c, i)
  PROVE  SyncTypeOK'
<1>1. FirstEvent(c, i)
  BY DEF Observe, ObserveSingleEvent
<1>2. inbox' \in [Clients -> Seq(Event)]
  BY <1>1, FirstEventType
<1>3. watching' \in [Clients -> SUBSET Items]
  <2>1. watching \in [Clients -> SUBSET Items]
    BY DEF SyncTypeOK
  <2>2. watching' = [watching EXCEPT ![c] = @ \cup {i}] \/ watching' = watching
    BY DEF Observe, ObserveSingleEvent
  <2> QED
    BY <2>1, <2>2
<1>4. UNCHANGED <<products, view, synced, writes, taken, push, connected>>
  BY DEF Observe, ObserveSingleEvent
<1> QED
  BY <1>2, <1>3, <1>4 DEF SyncTypeOK

LEMMA TakeEventType ==
  ASSUME SyncTypeOK, NEW c \in Clients, inbox[c] # <<>>, TakeEvent(c)
  PROVE  SyncTypeOK'
<1>1. inbox' \in [Clients -> Seq(Event)]
  BY DEF SyncTypeOK, TakeEvent
<1> QED
  BY <1>1 DEF SyncTypeOK, TakeEvent

LEMMA SetValueType ==
  ASSUME SyncTypeOK, NEW c \in Clients, NEW w \in Write, SetValue(c, w)
  PROVE  SyncTypeOK'
<1>1. Apply(view[c], w) \in Products_
  BY ApplyType DEF SyncTypeOK
<1>2. EventsOf(c, view[c], Apply(view[c], w)) \in Seq(Event)
  BY <1>1, EventsOfType DEF SyncTypeOK
<1>3. inbox' \in [Clients -> Seq(Event)]
  BY <1>2 DEF SyncTypeOK, SetValue
<1>4. writes' \in [Clients -> Seq(Write \cup {Null})]
  BY DEF SyncTypeOK, SetValue
<1> QED
  BY <1>1, <1>3, <1>4 DEF SyncTypeOK, SetValue

LEMMA SetTwoValuesType ==
  ASSUME SyncTypeOK, NEW c \in Clients, NEW w1 \in Write, NEW w2 \in Write,
         SetTwoValues(c, w1, w2)
  PROVE  SyncTypeOK'
<1> DEFINE v1 == Apply(view[c], w1)
           v2 == Apply(v1, w2)
<1>1. v1 \in Products_ /\ v2 \in Products_
  BY ApplyType DEF SyncTypeOK
<1>2. /\ EventsOf(c, view[c], v1) \in Seq(Event)
      /\ EventsOf(c, v1, v2) \in Seq(Event)
  BY <1>1, EventsOfType DEF SyncTypeOK
<1> HIDE DEF v1, v2
<1>3. inbox' = [inbox EXCEPT ![c] = (@ \o EventsOf(c, view[c], v1)) \o EventsOf(c, v1, v2)]
  BY DEF SetTwoValues, v1, v2
<1>4. inbox' \in [Clients -> Seq(Event)]
  BY <1>2, <1>3 DEF SyncTypeOK
<1>5. writes' \in [Clients -> Seq(Write \cup {Null})]
  BY DEF SyncTypeOK, SetTwoValues
<1>6. view' \in [Clients -> Products_]
  BY <1>1 DEF SyncTypeOK, SetTwoValues, v1, v2
<1> QED
  BY <1>4, <1>5, <1>6 DEF SyncTypeOK, SetTwoValues

LEMMA ServerApplyType ==
  ASSUME SyncTypeOK, NEW c \in Clients, ServerApply(c)
  PROVE  SyncTypeOK'
<1>1. PICK k \in DOMAIN writes[c] :
        /\ IsNext(c, k)
        /\ products' = Apply(products, writes[c][k])
        /\ push' = [d \in Clients |->
                      IF connected[d]
                      THEN Append(push[d], [kind |-> "write", from |-> c, number |-> k,
                                            write |-> writes[c][k]])
                      ELSE push[d]]
        /\ taken' = [taken EXCEPT ![c] = k]
  BY DEF ServerApply
<1> DEFINE m == [kind |-> "write", from |-> c, number |-> k, write |-> writes[c][k]]
<1>2. k \in Nat /\ writes[c][k] \in Write
  BY <1>1 DEF SyncTypeOK, IsNext, Unanswered
<1>3. products' \in Products_
  BY <1>1, <1>2, ApplyType DEF SyncTypeOK
<1>4. m \in Message
  BY <1>2 DEF Message
<1>5. push' = [d \in Clients |-> IF connected[d] THEN Append(push[d], m) ELSE push[d]]
  BY <1>1
<1> HIDE DEF m
<1>6. push' \in [Clients -> Seq(Message)]
  BY <1>4, <1>5 DEF SyncTypeOK
<1>7. taken' \in [Clients -> Nat]
  BY <1>1, <1>2 DEF SyncTypeOK
<1> QED
  BY <1>3, <1>6, <1>7 DEF SyncTypeOK, ServerApply

LEMMA ForgetType ==
  ASSUME NEW q \in Seq(Write \cup {Null}), NEW n
  PROVE  [q EXCEPT ![n] = Null] \in Seq(Write \cup {Null})
<1> DEFINE S == Write \cup {Null}
           r == [q EXCEPT ![n] = Null]
<1>1. Null \in S
  OBVIOUS
<1> HIDE DEF S
<1>2. q \in [1..Len(q) -> S] /\ Len(q) \in Nat
  BY DEF S
<1>3. r \in [1..Len(q) -> S]
  BY <1>1, <1>2
<1>4. r \in Seq(S)
  BY <1>2, <1>3
<1> QED
  BY <1>4 DEF S

(* Taking the head off one queue of a family of queues.                    *)
LEMMA HeadAndTail ==
  ASSUME NEW S, NEW q \in Seq(S), q # <<>>
  PROVE  Head(q) \in S /\ Tail(q) \in Seq(S)
  BY HeadTailProperties

LEMMA ReceiveWriteType ==
  ASSUME SyncTypeOK, NEW c \in Clients, ReceiveWrite(c)
  PROVE  SyncTypeOK'
<1> DEFINE m == Head(push[c])
           w == m.write
           v == [view[c] EXCEPT ![w.item] =
                   Overlay(@, w.to, w.sets \ Shadowed(writes[c], w.item))]
<1>0. /\ push[c] \in Seq(Message) /\ push[c] # <<>> /\ m.kind = "write"
      /\ push' = [push EXCEPT ![c] = Tail(@)]
  BY DEF SyncTypeOK, ReceiveWrite
<1>1. m \in Message /\ m.kind = "write" /\ Tail(push[c]) \in Seq(Message)
  BY <1>0, HeadAndTail
<1>2. w \in Write /\ m.number \in Nat
  BY <1>1 DEF Message
<1>3. view[c] \in Products_ /\ w.item \in Items /\ w.to \in Product
  BY <1>2 DEF SyncTypeOK, Write
<1>4. Overlay(view[c][w.item], w.to, w.sets \ Shadowed(writes[c], w.item)) \in Product
  BY <1>3, OverlayType DEF Products_
<1>5. v \in Products_
  BY <1>3, <1>4 DEF Products_
<1>6. EventsOf(c, view[c], v) \in Seq(Event)
  BY <1>3, <1>5, EventsOfType
<1>7. /\ view' = [view EXCEPT ![c] = v]
      /\ inbox' = [inbox EXCEPT ![c] = @ \o EventsOf(c, view[c], v)]
  BY DEF ReceiveWrite
<1> HIDE DEF v
<1>8. /\ view' \in [Clients -> Products_]
      /\ inbox' \in [Clients -> Seq(Event)]
  BY <1>5, <1>6, <1>7 DEF SyncTypeOK
<1>9. push' \in [Clients -> Seq(Message)]
  BY <1>0, <1>1 DEF SyncTypeOK
<1>10. writes' \in [Clients -> Seq(Write \cup {Null})]
  <2>1. [writes[c] EXCEPT ![m.number] = Null] \in Seq(Write \cup {Null})
    BY ForgetType DEF SyncTypeOK
  <2> QED
    BY <2>1 DEF SyncTypeOK, ReceiveWrite
<1> QED
  BY <1>8, <1>9, <1>10 DEF SyncTypeOK, ReceiveWrite

LEMMA ReceiveSnapshotType ==
  ASSUME SyncTypeOK, NEW c \in Clients, ReceiveSnapshot(c)
  PROVE  SyncTypeOK'
<1> DEFINE m == Head(push[c])
           v == [i \in Items |-> Overlay(view[c][i], m.products[i],
                                         Fields \ Shadowed(writes[c], i))]
           news == IF synced[c] THEN EventsOf(c, view[c], v) ELSE <<ProductsEvent(v)>>
<1>0. /\ push[c] \in Seq(Message) /\ push[c] # <<>> /\ m.kind = "snapshot"
      /\ push' = [push EXCEPT ![c] = Tail(@)]
  BY DEF SyncTypeOK, ReceiveSnapshot
<1>1. m \in Message /\ m.kind = "snapshot" /\ Tail(push[c]) \in Seq(Message)
  BY <1>0, HeadAndTail
<1>2. m.products \in Products_ /\ view[c] \in Products_
  BY <1>1 DEF SyncTypeOK, Message
<1>3. v \in Products_
  BY <1>2, OverlayType DEF Products_
<1>4. news \in Seq(Event)
  <2>1. EventsOf(c, view[c], v) \in Seq(Event)
    BY <1>2, <1>3, EventsOfType
  <2>2. <<ProductsEvent(v)>> \in Seq(Event)
    BY <1>3, EventTypes
  <2> QED
    BY <2>1, <2>2
<1>5. /\ view' = [view EXCEPT ![c] = v]
      /\ inbox' = [inbox EXCEPT ![c] = @ \o news]
  BY DEF ReceiveSnapshot
<1> HIDE DEF v, news
<1>6. /\ view' \in [Clients -> Products_]
      /\ inbox' \in [Clients -> Seq(Event)]
  BY <1>3, <1>4, <1>5 DEF SyncTypeOK
<1>7. push' \in [Clients -> Seq(Message)]
  BY <1>0, <1>1 DEF SyncTypeOK
<1> QED
  BY <1>6, <1>7 DEF SyncTypeOK, ReceiveSnapshot

LEMMA ConnectionType ==
  ASSUME SyncTypeOK, NEW c \in Clients, Connect(c) \/ Disconnect(c)
  PROVE  SyncTypeOK'
<1>1. [kind |-> "snapshot", products |-> products] \in Message
  BY DEF SyncTypeOK, Message
<1>2. RestoredListen \in Seq(Message) /\ RestoredPuts(c) \in Nat /\ <<>> \in Seq(Message)
  BY <1>1 DEF RestoredListen, RestoredPuts
<1>3. push' \in [Clients -> Seq(Message)]
  BY <1>2 DEF SyncTypeOK, Connect, Disconnect
<1>4. taken' \in [Clients -> Nat]
  <2>1. CASE Connect(c)
    BY <1>2, <2>1 DEF SyncTypeOK, Connect
  <2>2. CASE Disconnect(c)
    BY <2>2 DEF SyncTypeOK, Disconnect
  <2> QED
    BY <2>1, <2>2
<1>5. connected' \in [Clients -> BOOLEAN]
  BY DEF SyncTypeOK, Connect, Disconnect
<1>6. UNCHANGED <<products, view, synced, writes, watching, inbox>>
  BY DEF Connect, Disconnect
<1> QED
  BY <1>3, <1>4, <1>5, <1>6 DEF SyncTypeOK

LEMMA EndProcessType ==
  ASSUME SyncTypeOK, NEW c \in Clients, EndProcess(c)
  PROVE  SyncTypeOK'
<1>1. NoProducts \in Products_
  BY NoProductType DEF NoProducts, Products_
<1>2. view' \in [Clients -> Products_] /\ products' \in Products_
  BY <1>1 DEF SyncTypeOK, EndProcess
<1>3. synced' \in [Clients -> BOOLEAN] /\ connected' \in [Clients -> BOOLEAN]
  BY DEF SyncTypeOK, EndProcess
<1>4. writes' \in [Clients -> Seq(Write \cup {Null})]
  BY DEF SyncTypeOK, EndProcess
<1>5. taken' \in [Clients -> Nat] /\ watching' \in [Clients -> SUBSET Items]
  BY DEF SyncTypeOK, EndProcess
<1>6. push' \in [Clients -> Seq(Message)] /\ inbox' \in [Clients -> Seq(Event)]
  BY DEF SyncTypeOK, EndProcess
<1> QED
  BY <1>2, <1>3, <1>4, <1>5, <1>6 DEF SyncTypeOK

LEMMA UnchangedSyncType ==
  ASSUME SyncTypeOK, UNCHANGED syncVars
  PROVE  SyncTypeOK'
  BY DEF SyncTypeOK, syncVars

-----------------------------------------------------------------------------
(***************************************************************************)
(* Type correctness.  DetailCallback, Bid_Submit and Delete_Listing use    *)
(* SelectedToViewAuctionItem without looking whether there is an item in   *)
(* it, so TypeOK is not inductive alone: SelectionExists is needed too.    *)
(***************************************************************************)

(* The elements of a queue, and what the operations on it make of them. *)
Elements(q) == {q[k] : k \in DOMAIN q}

LEMMA ElementsOfConcat ==
  ASSUME NEW S, NEW q \in Seq(S), NEW r \in Seq(S)
  PROVE  Elements(q \o r) = Elements(q) \cup Elements(r)
<1>1. /\ Len(q \o r) = Len(q) + Len(r)
      /\ DOMAIN (q \o r) = 1..(Len(q) + Len(r))
      /\ DOMAIN q = 1..Len(q) /\ DOMAIN r = 1..Len(r)
      /\ Len(q) \in Nat /\ Len(r) \in Nat
  OBVIOUS
<1>2. \A k \in 1..Len(q) : (q \o r)[k] = q[k]
  OBVIOUS
<1>3. \A k \in 1..Len(r) : (q \o r)[Len(q) + k] = r[k]
  OBVIOUS
<1>4. Elements(q \o r) \subseteq Elements(q) \cup Elements(r)
  <2> SUFFICES ASSUME NEW k \in 1..(Len(q) + Len(r))
               PROVE  (q \o r)[k] \in Elements(q) \cup Elements(r)
    BY <1>1 DEF Elements
  <2>1. CASE k \in 1..Len(q)
    BY <1>1, <1>2, <2>1 DEF Elements
  <2>2. CASE k \notin 1..Len(q)
    <3>1. k - Len(q) \in 1..Len(r) /\ k = Len(q) + (k - Len(q))
      BY <1>1, <2>2
    <3>2. (q \o r)[k] = r[k - Len(q)]
      BY <1>3, <3>1
    <3> QED
      BY <1>1, <3>1, <3>2 DEF Elements
  <2> QED
    BY <2>1, <2>2
<1>5. Elements(q) \subseteq Elements(q \o r)
  <2> SUFFICES ASSUME NEW k \in 1..Len(q)
               PROVE  q[k] \in Elements(q \o r)
    BY <1>1 DEF Elements
  <2>1. k \in DOMAIN (q \o r)
    BY <1>1
  <2> QED
    BY <1>2, <2>1 DEF Elements
<1>6. Elements(r) \subseteq Elements(q \o r)
  <2> SUFFICES ASSUME NEW k \in 1..Len(r)
               PROVE  r[k] \in Elements(q \o r)
    BY <1>1 DEF Elements
  <2>1. Len(q) + k \in DOMAIN (q \o r)
    BY <1>1
  <2> QED
    BY <1>3, <2>1 DEF Elements
<1> QED
  BY <1>4, <1>5, <1>6

LEMMA ConcatIsAssociative ==
  ASSUME NEW S, NEW q \in Seq(S), NEW r \in Seq(S), NEW s \in Seq(S)
  PROVE  (q \o r) \o s = q \o (r \o s) /\ r \o s \in Seq(S)
  OBVIOUS

LEMMA ElementsOfAppend ==
  ASSUME NEW S, NEW q \in Seq(S), NEW e \in S
  PROVE  Elements(Append(q, e)) = Elements(q) \cup {e}
<1>1. <<e>> \in Seq(S) /\ Append(q, e) = q \o <<e>>
  BY AppendIsConcat, IsASeq
<1>2. Elements(<<e>>) = {e}
  BY DEF Elements
<1> DEFINE r == <<e>>
<1>3. r \in Seq(S)
  BY <1>1
<1> HIDE DEF r
<1>4. Elements(q \o r) = Elements(q) \cup Elements(r)
  BY <1>3, ElementsOfConcat
<1> QED
  BY <1>1, <1>2, <1>4 DEF r

LEMMA ElementsOfTail ==
  ASSUME NEW S, NEW q \in Seq(S), q # <<>>
  PROVE  Elements(Tail(q)) \subseteq Elements(q) /\ Head(q) \in Elements(q)
<1>1. Head(q) \in Elements(q)
  BY DEF Elements
<1>2. DOMAIN Tail(q) = 1..(Len(q) - 1) /\ DOMAIN q = 1..Len(q) /\ Len(q) \in Nat \ {0}
  OBVIOUS
<1>3. \A k \in 1..(Len(q) - 1) : Tail(q)[k] = q[k + 1] /\ k + 1 \in 1..Len(q)
  BY <1>2
<1> QED
  BY <1>1, <1>2, <1>3 DEF Elements

(* The events a change of a view raises carry the new view, and the detail *)
(* screens are told only if there are any.                                 *)
LEMMA ElementsOfEvents ==
  ASSUME NEW c \in Clients, NEW v, NEW w
  PROVE  /\ Elements(EventsOf(c, v, w)) \subseteq
              {ProductsEvent(w)} \cup {DetailEvent(S, w) : S \in SUBSET watching[c]}
         /\ watching[c] = {} => Elements(EventsOf(c, v, w)) \subseteq {ProductsEvent(w)}
<1> DEFINE seen == {i \in watching[c] : v[i] # w[i]}
<1>1. /\ Elements(<<>>) = {}
      /\ Elements(<<ProductsEvent(w)>>) = {ProductsEvent(w)}
      /\ Elements(<<DetailEvent(seen, w), ProductsEvent(w)>>)
           = {DetailEvent(seen, w), ProductsEvent(w)}
  BY DEF Elements
<1>2. seen \in SUBSET watching[c]
  OBVIOUS
<1> QED
  BY <1>1, <1>2 DEF EventsOf

(* The first state is well typed and needs no selection. *)
LEMMA InitTypes == Init => TypeOK /\ SelectionExists
<1> SUFFICES ASSUME Init PROVE TypeOK /\ SelectionExists
  OBVIOUS
<1>1. products \in Products_
  BY InitialProductsType, AuctionAssumption DEF Init, SyncInit
<1>2. NoProducts \in Products_
  BY NoProductType DEF NoProducts, Products_
<1>3. SyncTypeOK
  BY <1>1, <1>2 DEF Init, SyncInit, SyncTypeOK
<1>4. NoLists \in Lists
  BY DEF NoLists, Lists
<1>5. left \in [bids : Nat, deletes : Nat, faults : Nat]
  BY AuctionAssumption DEF Init
<1>6. TypeOK
  BY <1>3, <1>4, <1>5, AuctionAssumption DEF Init, TypeOK
<1>7. SelectionExists
  BY DEF Init, SyncInit, SelectionExists
<1> QED
  BY <1>6, <1>7

(* An observer's price changes the selected item, and no list in any other *)
(* way than by holding the item.                                           *)
LEMMA SetSelectedPriceType ==
  ASSUME TypeOK, NEW c \in Clients, selected[c] \in AuctionItem,
         NEW price \in Nat, SetSelectedPrice(c, price)
  PROVE  /\ selected'[c] = [selected[c] EXCEPT !.highestBidPrice = price]
         /\ selected'[c] \in AuctionItem
         /\ selected' = [selected EXCEPT ![c] = selected'[c]]
         /\ lists' \in [Clients -> Lists]
         /\ \A d \in Clients \ {c} : lists'[d] = lists[d]
         /\ lists'[c].home \subseteq lists[c].home \cup {selected'[c]}
         /\ lists'[c].yours \subseteq lists[c].yours \cup {selected'[c]}
         /\ lists'[c].won \subseteq lists[c].won \cup {selected'[c]}
<1> USE DEF TypeOK
<1> DEFINE a == [selected[c] EXCEPT !.highestBidPrice = price]
<1>1. a \in AuctionItem
  BY DEF AuctionItem
<1>2. selected' = [selected EXCEPT ![c] = a]
  BY DEF SetSelectedPrice
<1>3. selected'[c] = a
  BY <1>2
<1> DEFINE without(S) == (S \ {selected[c]}) \cup {a}
<1>4. /\ selectedIn[c] = "none"  => lists' = lists
      /\ selectedIn[c] = "home"  => lists' = [lists EXCEPT ![c].home = without(@)]
      /\ selectedIn[c] = "yours" => lists' = [lists EXCEPT ![c].yours = without(@)]
      /\ selectedIn[c] = "won"   => lists' = [lists EXCEPT ![c].won = without(@)]
  BY DEF SetSelectedPrice
<1>5. selectedIn[c] \in {"none", "home", "yours", "won"} /\ lists[c] \in Lists
  OBVIOUS
<1> HIDE DEF a
<1>6. lists' = lists \/ \E l \in Lists :
          /\ lists' = [lists EXCEPT ![c] = l]
          /\ l.home \subseteq lists[c].home \cup {a}
          /\ l.yours \subseteq lists[c].yours \cup {a}
          /\ l.won \subseteq lists[c].won \cup {a}
  <2>1. CASE selectedIn[c] = "home"
    <3> DEFINE l == [lists[c] EXCEPT !.home = without(@)]
    <3>1. l \in Lists
      BY <1>1, <1>5 DEF Lists
    <3>2. lists' = [lists EXCEPT ![c] = l]
      BY <1>4, <2>1
    <3>3. l.home = without(lists[c].home) /\ l.yours = lists[c].yours /\ l.won = lists[c].won
      BY <1>5 DEF Lists
    <3> QED
      BY <3>1, <3>2, <3>3
  <2>2. CASE selectedIn[c] = "yours"
    <3> DEFINE l == [lists[c] EXCEPT !.yours = without(@)]
    <3>1. l \in Lists
      BY <1>1, <1>5 DEF Lists
    <3>2. lists' = [lists EXCEPT ![c] = l]
      BY <1>4, <2>2
    <3>3. l.yours = without(lists[c].yours) /\ l.home = lists[c].home /\ l.won = lists[c].won
      BY <1>5 DEF Lists
    <3> QED
      BY <3>1, <3>2, <3>3
  <2>3. CASE selectedIn[c] = "won"
    <3> DEFINE l == [lists[c] EXCEPT !.won = without(@)]
    <3>1. l \in Lists
      BY <1>1, <1>5 DEF Lists
    <3>2. lists' = [lists EXCEPT ![c] = l]
      BY <1>4, <2>3
    <3>3. l.won = without(lists[c].won) /\ l.home = lists[c].home /\ l.yours = lists[c].yours
      BY <1>5 DEF Lists
    <3> QED
      BY <3>1, <3>2, <3>3
  <2> QED
    BY <1>4, <1>5, <2>1, <2>2, <2>3
<1>7. /\ lists' \in [Clients -> Lists]
      /\ \A d \in Clients \ {c} : lists'[d] = lists[d]
      /\ lists'[c].home \subseteq lists[c].home \cup {a}
      /\ lists'[c].yours \subseteq lists[c].yours \cup {a}
      /\ lists'[c].won \subseteq lists[c].won \cup {a}
  BY <1>6
<1> QED
  BY <1>1, <1>2, <1>3, <1>7 DEF a

(* The detail observers find a selected item, and a price to put into it.  *)
LEMMA DetailCallbackType ==
  ASSUME TypeOK, SelectionExists, NEW c \in Clients, DetailCallback(c)
  PROVE  selected[c] \in AuctionItem /\ \E price \in Nat : SetSelectedPrice(c, price)
<1> USE DEF TypeOK
<1> DEFINE e == Head(inbox[c])
<1>1. PICK i \in e.items : SetSelectedPrice(c, e.snapshot[i].highestbidprice)
  BY DEF DetailCallback
<1>2. e \in Event /\ 1 \in DOMAIN inbox[c] /\ inbox[c][1] = e
  BY DEF DetailCallback, SyncTypeOK
<1>3. selected[c] \in AuctionItem
  BY <1>2 DEF DetailCallback, SelectionExists
<1>4. i \in Items /\ e.snapshot[i] \in Product
  BY <1>1, <1>2 DEF Event, Products_
<1>5. e.snapshot[i].highestbidprice # Null
  BY <1>1 DEF DetailCallback, HasPriceAndBidder
<1>6. e.snapshot[i].highestbidprice \in Nat
  BY <1>4, <1>5 DEF Product
<1> QED
  BY <1>1, <1>3, <1>6

LEMMA TypeStep ==
  ASSUME TypeOK, SelectionExists, [Next]_vars
  PROVE  TypeOK'
<1> USE DEF TypeOK
<1>1. ASSUME NEW c \in Clients, NEW i \in Items, NEW price \in Amounts,
             NEW closing \in 0..MaxTime, Submit_Auction(c, i, price, closing)
      PROVE  TypeOK'
  <2> DEFINE l == [openby |-> SignedIn_UserName[c], opendate |-> CutToMinute(now),
                   closedate |-> CutToMinute(closing), startingprice |-> price]
  <2>1. l \in Listing
    BY CutType, AuctionAssumption DEF Listing
  <2> HIDE DEF l
  <2>2. opened' = [opened EXCEPT ![i] = l] /\ SetValue(c, CreateProduct(i, l))
    BY <1>1 DEF Submit_Auction, l
  <2>3. SyncTypeOK'
    BY <2>1, <2>2, WriteTypes, SetValueType
  <2> QED
    BY <1>1, <2>1, <2>2, <2>3 DEF Submit_Auction
<1>2. ASSUME NEW c \in Clients, NEW a \in lists[c].home, OpenBidScreen(c, a)
      PROVE  TypeOK'
  <2>1. a \in AuctionItem /\ a.uniqueKey \in Items
    BY DEF Lists, AuctionItem
  <2>2. SyncTypeOK'
    BY <1>2, <2>1, ObserveType DEF OpenBidScreen
  <2> QED
    BY <1>2, <2>1, <2>2 DEF OpenBidScreen, Select
<1>3. ASSUME NEW c \in Clients, CloseBidScreen(c)
      PROVE  TypeOK'
  BY <1>3, UnchangedSyncType DEF CloseBidScreen
<1>4. ASSUME NEW c \in Clients, NEW a \in lists[c].yours, OpenDeleteScreen(c, a)
      PROVE  TypeOK'
  <2>1. a \in AuctionItem /\ a.uniqueKey \in Items
    BY DEF Lists, AuctionItem
  <2>2. SyncTypeOK'
    BY <1>4, <2>1, ObserveType DEF OpenDeleteScreen
  <2> QED
    BY <1>4, <2>1, <2>2 DEF OpenDeleteScreen, Select
<1>5. ASSUME NEW c \in Clients, CloseDeleteScreen(c)
      PROVE  TypeOK'
  BY <1>5, UnchangedSyncType DEF CloseDeleteScreen
<1>6. ASSUME NEW c \in Clients, NEW a \in lists[c].won, SelectWon(c, a)
      PROVE  TypeOK'
  BY <1>6, UnchangedSyncType DEF SelectWon, Select, Lists
<1>7. ASSUME NEW c \in Clients, NEW amount \in Amounts, Bid_Submit(c, amount)
      PROVE  TypeOK'
  <2>1. selected[c].uniqueKey \in Items
    BY <1>7 DEF Bid_Submit, SelectionExists, AuctionItem
  <2>2. amount \in Nat /\ SignedIn_UserName[c] \in Users
    BY AuctionAssumption
  <2>3. SyncTypeOK'
    BY <1>7, <2>1, <2>2, WriteTypes, SetTwoValuesType DEF Bid_Submit
  <2>4. left' \in [bids : Nat, deletes : Nat, faults : Nat]
    BY <1>7 DEF Bid_Submit
  <2> QED
    BY <1>7, <2>3, <2>4 DEF Bid_Submit
<1>8. ASSUME NEW c \in Clients, Delete_Listing(c)
      PROVE  TypeOK'
  <2>1. selected[c].uniqueKey \in Items
    BY <1>8 DEF Delete_Listing, SelectionExists, AuctionItem
  <2>2. SyncTypeOK'
    BY <1>8, <2>1, WriteTypes, SetValueType DEF Delete_Listing
  <2>3. left' \in [bids : Nat, deletes : Nat, faults : Nat]
    BY <1>8 DEF Delete_Listing
  <2> QED
    BY <1>8, <2>2, <2>3 DEF Delete_Listing
<1>9. ASSUME NEW c \in Clients, ProductsCallback(c)
      PROVE  TypeOK'
  <2>0. Head(inbox[c]) \in Event
    BY <1>9 DEF ProductsCallback, SyncTypeOK
  <2>1. Head(inbox[c]).snapshot \in Products_
    BY <2>0 DEF Event
  <2>2. ListsOf(Head(inbox[c]).snapshot, SignedIn_UserName[c], now) \in Lists
    BY <1>9, <2>1, ListsOfType DEF ProductsCallback
  <2>3. SyncTypeOK'
    BY <1>9, TakeEventType DEF ProductsCallback
  <2> QED
    BY <1>9, <2>2, <2>3 DEF ProductsCallback, Refilled
<1>10. ASSUME NEW c \in Clients, DetailCallback(c)
       PROVE  TypeOK'
  <2>1. SyncTypeOK'
    BY <1>10, TakeEventType DEF DetailCallback
  <2>2. selected' \in [Clients -> AuctionItem \cup {Null}] /\ lists' \in [Clients -> Lists]
    <3>1. PICK price \in Nat : SetSelectedPrice(c, price)
      BY <1>10, DetailCallbackType
    <3>2. /\ selected' = [selected EXCEPT ![c] = selected'[c]]
          /\ selected'[c] \in AuctionItem
          /\ lists' \in [Clients -> Lists]
      BY <1>10, <3>1, DetailCallbackType, SetSelectedPriceType
    <3> QED
      BY <3>2
  <2> QED
    BY <1>10, <2>1, <2>2 DEF DetailCallback
<1>11. ASSUME NEW c \in Clients, NEW s \in {"ended", "crashed"}, Stop(c, s)
       PROVE  /\ SyncTypeOK'
              /\ process' \in [Clients -> {"running", "ended", "crashed"}]
              /\ selected' \in [Clients -> AuctionItem \cup {Null}]
              /\ selectedIn' \in [Clients -> {"none", "home", "yours", "won"}]
              /\ lists' \in [Clients -> Lists]
              /\ bidScreen' \in [Clients -> BOOLEAN]
              /\ deleteScreen' \in [Clients -> BOOLEAN]
  <2>1. SyncTypeOK'
    BY <1>11, EndProcessType DEF Stop
  <2>2. NoLists \in Lists
    BY DEF NoLists, Lists
  <2> QED
    BY <1>11, <2>1, <2>2 DEF Stop
<1>12. ASSUME NEW c \in Clients, CallbackCrashes(c)
       PROVE  TypeOK'
  BY <1>11, <1>12 DEF CallbackCrashes
<1>13. ASSUME NEW c \in Clients, ServerStep(c)
       PROVE  TypeOK'
  BY <1>13, ServerApplyType DEF ServerStep, appVars
<1>14. ASSUME NEW c \in Clients, ReceiveStep(c)
       PROVE  TypeOK'
  BY <1>14, ReceiveWriteType, ReceiveSnapshotType DEF ReceiveStep, appVars
<1>15. ASSUME NEW c \in Clients, ConnectStep(c)
       PROVE  TypeOK'
  BY <1>15, ConnectionType DEF ConnectStep, appVars
<1>16. ASSUME NEW c \in Clients, LoseConnection(c)
       PROVE  TypeOK'
  <2>1. SyncTypeOK'
    BY <1>16, ConnectionType DEF LoseConnection
  <2>2. left' \in [bids : Nat, deletes : Nat, faults : Nat]
    BY <1>16 DEF LoseConnection
  <2> QED
    BY <1>16, <2>1, <2>2 DEF LoseConnection
<1>17. ASSUME NEW c \in Clients, Kill(c)
       PROVE  TypeOK'
  <2>1. left' \in [bids : Nat, deletes : Nat, faults : Nat]
    BY <1>17 DEF Kill
  <2> QED
    BY <1>11, <1>17, <2>1 DEF Kill
<1>18. ASSUME NEW c \in Clients, Launch(c)
       PROVE  TypeOK'
  BY <1>18, UnchangedSyncType DEF Launch
<1>19. CASE Tick
  BY <1>19, UnchangedSyncType DEF Tick
<1>20. CASE UNCHANGED vars
  BY <1>20, UnchangedSyncType DEF vars, appVars
<1> QED
  BY <1>1, <1>2, <1>3, <1>4, <1>5, <1>6, <1>7, <1>8, <1>9, <1>10, <1>12, <1>13, <1>14,
     <1>15, <1>16, <1>17, <1>18, <1>19, <1>20
  DEF Next, UserStep, SystemStep, CallbackStep, FaultStep

-----------------------------------------------------------------------------
(***************************************************************************)
(* SelectionExists                                                         *)
(***************************************************************************)
DetailNeeded(c) ==
    \/ watching[c] # {}
    \/ \E e \in Elements(inbox[c]) : e.observer = "detail"

SelectionNeeded(c) == bidScreen[c] \/ deleteScreen[c] \/ DetailNeeded(c)

LEMMA SelectionRestated ==
  SelectionExists <=> \A c \in Clients : SelectionNeeded(c) => selected[c] \in AuctionItem
  BY DEF SelectionExists, SelectionNeeded, DetailNeeded, Elements

(* A change of the view asks for no selection that was not needed before. *)
LEMMA EventsNeedNoSelection ==
  ASSUME NEW c \in Clients, NEW v, NEW w, NEW e \in Elements(EventsOf(c, v, w)),
         e.observer = "detail"
  PROVE  watching[c] # {}
<1>1. ProductsEvent(w).observer = "products"
  BY DEF ProductsEvent
<1> QED
  BY <1>1, ElementsOfEvents

(* Of the database's steps only the observers of the two detail screens    *)
(* make a selection needed.                                                *)
LEMMA SyncNeedsNoSelection ==
  ASSUME SyncTypeOK, SyncTypeOK', NEW c \in Clients,
         \/ \E w \in Write : SetValue(c, w)
         \/ \E w1, w2 \in Write : SetTwoValues(c, w1, w2)
         \/ ServerApply(c) \/ ReceiveWrite(c) \/ ReceiveSnapshot(c)
         \/ Connect(c) \/ Disconnect(c) \/ UNCHANGED syncVars
         \/ inbox[c] # <<>> /\ TakeEvent(c),
         NEW d \in Clients, DetailNeeded(d)'
  PROVE  DetailNeeded(d)
<1> DEFINE Adds(q) == /\ q \in Seq(Event)
                      /\ inbox' = [inbox EXCEPT ![c] = @ \o q]
                      /\ \A e \in Elements(q) :
                            e.observer = "detail" => watching[c] # {}
<1>1. ASSUME NEW q, Adds(q), watching' = watching
      PROVE  DetailNeeded(d)
  <2>1. CASE d # c
    BY <1>1, <2>1 DEF SyncTypeOK, DetailNeeded
  <2>2. CASE d = c
    <3>1. inbox[c] \in Seq(Event) /\ inbox'[c] = inbox[c] \o q /\ q \in Seq(Event)
      BY <1>1 DEF SyncTypeOK
    <3> HIDE DEF Adds
    <3>2. Elements(inbox'[c]) = Elements(inbox[c]) \cup Elements(q)
      BY <1>1, <3>1, ElementsOfConcat
    <3> QED
      BY <1>1, <2>2, <3>2 DEF Adds, DetailNeeded
  <2> QED
    BY <2>1, <2>2
<1>2. ASSUME NEW w \in Write, SetValue(c, w)
      PROVE  DetailNeeded(d)
  <2> DEFINE q == EventsOf(c, view[c], Apply(view[c], w))
  <2>1. q \in Seq(Event)
    BY ApplyType, EventsOfType DEF SyncTypeOK
  <2>2. \A e \in Elements(q) : e.observer = "detail" => watching[c] # {}
    BY EventsNeedNoSelection
  <2>3. inbox' = [inbox EXCEPT ![c] = @ \o q] /\ watching' = watching
    BY <1>2 DEF SetValue
  <2> QED
    BY <1>1, <2>1, <2>2, <2>3
<1>3. ASSUME NEW w1 \in Write, NEW w2 \in Write, SetTwoValues(c, w1, w2)
      PROVE  DetailNeeded(d)
  <2> DEFINE v1 == Apply(view[c], w1)
             q1 == EventsOf(c, view[c], v1)
             q2 == EventsOf(c, v1, Apply(v1, w2))
  <2>1. v1 \in Products_ /\ Apply(v1, w2) \in Products_
    BY ApplyType DEF SyncTypeOK
  <2>2. q1 \in Seq(Event) /\ q2 \in Seq(Event)
    BY <2>1, EventsOfType DEF SyncTypeOK
  <2>3. \A e \in Elements(q1) \cup Elements(q2) :
           e.observer = "detail" => watching[c] # {}
    BY EventsNeedNoSelection
  <2>4. inbox' = [inbox EXCEPT ![c] = (@ \o q1) \o q2] /\ watching' = watching
    BY <1>3 DEF SetTwoValues
  <2> HIDE DEF q1, q2
  <2>5. (inbox[c] \o q1) \o q2 = inbox[c] \o (q1 \o q2) /\ q1 \o q2 \in Seq(Event)
    <3>1. inbox[c] \in Seq(Event)
      BY DEF SyncTypeOK
    <3>2. \A p, r, s \in Seq(Event) :
             (p \o r) \o s = p \o (r \o s) /\ r \o s \in Seq(Event)
      BY ConcatIsAssociative
    <3> QED
      BY <2>2, <3>1, <3>2
  <2>6. inbox' = [inbox EXCEPT ![c] = @ \o (q1 \o q2)]
    BY <2>4, <2>5
  <2>7. Elements(q1 \o q2) = Elements(q1) \cup Elements(q2)
    BY <2>2, ElementsOfConcat
  <2> QED
    BY <1>1, <2>3, <2>4, <2>5, <2>6, <2>7
<1>4. ASSUME ReceiveWrite(c)
      PROVE  DetailNeeded(d)
  <2> DEFINE q == EventsOf(c, view[c], view'[c])
  <2>1. q \in Seq(Event)
    BY EventsOfType DEF SyncTypeOK
  <2>2. \A e \in Elements(q) : e.observer = "detail" => watching[c] # {}
    BY EventsNeedNoSelection
  <2>3. inbox' = [inbox EXCEPT ![c] = @ \o q] /\ watching' = watching
    BY <1>4 DEF ReceiveWrite, SyncTypeOK
  <2> QED
    BY <1>1, <2>1, <2>2, <2>3
<1>5. ASSUME ReceiveSnapshot(c)
      PROVE  DetailNeeded(d)
  <2> DEFINE q == IF synced[c] THEN EventsOf(c, view[c], view'[c])
                               ELSE <<ProductsEvent(view'[c])>>
  <2>1. q \in Seq(Event)
    <3>1. EventsOf(c, view[c], view'[c]) \in Seq(Event)
      BY EventsOfType DEF SyncTypeOK
    <3>2. <<ProductsEvent(view'[c])>> \in Seq(Event)
      BY EventTypes DEF SyncTypeOK
    <3> QED
      BY <3>1, <3>2
  <2>2. \A e \in Elements(q) : e.observer = "detail" => watching[c] # {}
    <3>1. Elements(<<ProductsEvent(view'[c])>>) = {ProductsEvent(view'[c])}
      BY DEF Elements
    <3>2. ProductsEvent(view'[c]).observer = "products"
      BY DEF ProductsEvent
    <3> QED
      BY <3>1, <3>2, EventsNeedNoSelection
  <2>3. inbox' = [inbox EXCEPT ![c] = @ \o q] /\ watching' = watching
    BY <1>5 DEF ReceiveSnapshot, SyncTypeOK
  <2> QED
    BY <1>1, <2>1, <2>2, <2>3
<1>6. CASE \/ ServerApply(c) \/ Connect(c) \/ Disconnect(c) \/ UNCHANGED syncVars
  BY <1>6 DEF ServerApply, Connect, Disconnect, syncVars, DetailNeeded
<1>7. CASE inbox[c] # <<>> /\ TakeEvent(c)
  <2>1. Elements(Tail(inbox[c])) \subseteq Elements(inbox[c])
    BY <1>7, ElementsOfTail DEF SyncTypeOK
  <2>2. Elements(inbox'[d]) \subseteq Elements(inbox[d]) /\ watching' = watching
    BY <1>7, <2>1 DEF TakeEvent, SyncTypeOK
  <2> QED
    BY <2>2 DEF DetailNeeded
<1> QED
  BY <1>2, <1>3, <1>4, <1>5, <1>6, <1>7

LEMMA SelectionStep ==
  ASSUME TypeOK, TypeOK', SelectionExists, [Next]_vars
  PROVE  SelectionExists'
<1>1. \A c \in Clients : SelectionNeeded(c) => selected[c] \in AuctionItem
  BY SelectionRestated
<1>2. SUFFICES ASSUME NEW d \in Clients, SelectionNeeded(d)'
               PROVE  selected'[d] \in AuctionItem
  BY DEF SelectionExists, SelectionNeeded, DetailNeeded, Elements
<1> USE DEF TypeOK
<1>3. ASSUME NEW c \in Clients, DetailNeeded(d)' => DetailNeeded(d),
             bidScreen'[d] => bidScreen[d], deleteScreen'[d] => deleteScreen[d],
             selected' = selected
      PROVE  selected'[d] \in AuctionItem
  BY <1>1, <1>2, <1>3 DEF SelectionNeeded
<1>4. ASSUME NEW c \in Clients, NEW i \in Items, NEW price \in Amounts,
             NEW closing \in 0..MaxTime, Submit_Auction(c, i, price, closing)
      PROVE  selected'[d] \in AuctionItem
  <2>1. \E w \in Write : SetValue(c, w)
    <3> DEFINE l == [openby |-> SignedIn_UserName[c], opendate |-> CutToMinute(now),
                     closedate |-> CutToMinute(closing), startingprice |-> price]
    <3>1. l \in Listing
      BY CutType, AuctionAssumption DEF Listing
    <3> HIDE DEF l
    <3>2. SetValue(c, CreateProduct(i, l))
      BY <1>4 DEF Submit_Auction, l
    <3> QED
      BY <3>1, <3>2, WriteTypes
  <2> QED
    BY <1>3, <1>4, <2>1, SyncNeedsNoSelection DEF Submit_Auction
<1>5. ASSUME NEW c \in Clients, NEW a,
             \/ a \in lists[c].home /\ OpenBidScreen(c, a)
             \/ a \in lists[c].yours /\ OpenDeleteScreen(c, a)
             \/ a \in lists[c].won /\ SelectWon(c, a)
      PROVE  selected'[d] \in AuctionItem
  <2>1. a \in AuctionItem
    BY <1>5 DEF Lists
  <2>2. selected' = [selected EXCEPT ![c] = a]
    BY <1>5 DEF OpenBidScreen, OpenDeleteScreen, SelectWon, Select
  <2>3. CASE d = c
    BY <2>1, <2>2, <2>3
  <2>4. CASE d # c
    <3>1. /\ watching'[d] = watching[d] /\ inbox'[d] = inbox[d]
          /\ bidScreen'[d] = bidScreen[d] /\ deleteScreen'[d] = deleteScreen[d]
      <4>1. CASE OpenBidScreen(c, a)
        BY <2>4, <4>1 DEF OpenBidScreen, Observe, FirstEvent, SyncTypeOK
      <4>2. CASE OpenDeleteScreen(c, a)
        BY <2>4, <4>2 DEF OpenDeleteScreen, ObserveSingleEvent, FirstEvent, SyncTypeOK
      <4>3. CASE SelectWon(c, a)
        BY <4>3 DEF SelectWon, syncVars
      <4> QED
        BY <1>5, <4>1, <4>2, <4>3
    <3> QED
      BY <1>1, <1>2, <2>2, <2>4, <3>1 DEF SelectionNeeded, DetailNeeded
  <2> QED
    BY <2>3, <2>4
<1>6. ASSUME NEW c \in Clients, CloseBidScreen(c) \/ CloseDeleteScreen(c)
      PROVE  selected'[d] \in AuctionItem
  <2>1. UNCHANGED syncVars
    BY <1>6 DEF CloseBidScreen, CloseDeleteScreen
  <2>2. DetailNeeded(d)' => DetailNeeded(d)
    BY <2>1, SyncNeedsNoSelection
  <2> QED
    BY <1>3, <1>6, <2>2 DEF CloseBidScreen, CloseDeleteScreen
<1>7. ASSUME NEW c \in Clients, NEW amount \in Amounts, Bid_Submit(c, amount)
      PROVE  selected'[d] \in AuctionItem
  <2>1. selected[c].uniqueKey \in Items
    BY <1>1, <1>7 DEF Bid_Submit, SelectionNeeded, AuctionItem
  <2>2. amount \in Nat /\ SignedIn_UserName[c] \in Users
    BY AuctionAssumption
  <2>3. \E w1, w2 \in Write : SetTwoValues(c, w1, w2)
    BY <1>7, <2>1, <2>2, WriteTypes DEF Bid_Submit
  <2> QED
    BY <1>3, <1>7, <2>3, SyncNeedsNoSelection DEF Bid_Submit
<1>8. ASSUME NEW c \in Clients, Delete_Listing(c)
      PROVE  selected'[d] \in AuctionItem
  <2>1. selected[c].uniqueKey \in Items
    BY <1>1, <1>8 DEF Delete_Listing, SelectionNeeded, AuctionItem
  <2>2. \E w \in Write : SetValue(c, w)
    BY <1>8, <2>1, WriteTypes DEF Delete_Listing
  <2> QED
    BY <1>3, <1>8, <2>2, SyncNeedsNoSelection DEF Delete_Listing
<1>9. ASSUME NEW c \in Clients, ProductsCallback(c)
      PROVE  selected'[d] \in AuctionItem
  BY <1>3, <1>9, SyncNeedsNoSelection DEF ProductsCallback
<1>10. ASSUME NEW c \in Clients, DetailCallback(c)
       PROVE  selected'[d] \in AuctionItem
  <2>1. selected[d] \in AuctionItem
    BY <1>1, <1>2, <1>10, SyncNeedsNoSelection DEF DetailCallback, SelectionNeeded
  <2>2. PICK price \in Nat : SetSelectedPrice(c, price)
    BY <1>10, DetailCallbackType
  <2>3. /\ selected' = [selected EXCEPT ![c] = selected'[c]]
        /\ selected'[c] \in AuctionItem
    BY <1>10, <2>2, DetailCallbackType, SetSelectedPriceType
  <2> QED
    BY <2>1, <2>3
<1>11. ASSUME NEW c \in Clients, NEW s, Stop(c, s)
       PROVE  selected'[d] \in AuctionItem
  <2>1. d # c
    BY <1>2, <1>11 DEF Stop, EndProcess, SelectionNeeded, DetailNeeded, Elements, SyncTypeOK
  <2>2. /\ watching'[d] = watching[d] /\ inbox'[d] = inbox[d]
        /\ bidScreen'[d] = bidScreen[d] /\ deleteScreen'[d] = deleteScreen[d]
        /\ selected'[d] = selected[d]
    BY <1>11, <2>1 DEF Stop, EndProcess, SyncTypeOK
  <2> QED
    BY <1>1, <1>2, <2>2 DEF SelectionNeeded, DetailNeeded
<1>12. ASSUME NEW c \in Clients, CallbackCrashes(c) \/ Kill(c)
       PROVE  selected'[d] \in AuctionItem
  BY <1>11, <1>12 DEF CallbackCrashes, Kill
<1>13. ASSUME NEW c \in Clients,
              ServerStep(c) \/ ReceiveStep(c) \/ ConnectStep(c) \/ LoseConnection(c)
       PROVE  selected'[d] \in AuctionItem
  <2>1. ServerApply(c) \/ ReceiveWrite(c) \/ ReceiveSnapshot(c) \/ Connect(c) \/ Disconnect(c)
    BY <1>13 DEF ServerStep, ReceiveStep, ConnectStep, LoseConnection
  <2>2. DetailNeeded(d)' => DetailNeeded(d)
    BY <2>1, SyncNeedsNoSelection
  <2> QED
    BY <1>3, <1>13, <2>2 DEF ServerStep, ReceiveStep, ConnectStep, LoseConnection, appVars
<1>14. ASSUME NEW c \in Clients, Launch(c) \/ Tick \/ UNCHANGED vars
       PROVE  selected'[d] \in AuctionItem
  <2>1. UNCHANGED <<syncVars, selected, bidScreen, deleteScreen>>
    BY <1>14 DEF Launch, Tick, vars, appVars
  <2>2. DetailNeeded(d)' => DetailNeeded(d)
    BY <2>1, SyncNeedsNoSelection
  <2> QED
    BY <1>3, <2>1, <2>2
<1> QED
  BY <1>4, <1>5, <1>6, <1>7, <1>8, <1>9, <1>10, <1>12, <1>13, <1>14
  DEF Next, UserStep, SystemStep, CallbackStep, FaultStep

(* The values of all the variables stay in their types, and whenever a     *)
(* screen or an observer uses SelectedToViewAuctionItem, there is an item  *)
(* in it.  (AppDelegate, HomeFeedDetails, YourListingsDetails)             *)
THEOREM TypeCorrect == Spec => [](TypeOK /\ SelectionExists)
<1>1. TypeOK /\ SelectionExists /\ [Next]_vars => (TypeOK /\ SelectionExists)'
  BY TypeStep, SelectionStep
<1> QED
  BY InitTypes, <1>1, PTL DEF Spec
=============================================================================
