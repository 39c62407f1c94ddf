------------------------- MODULE AuctionHouseProofs --------------------------
(***************************************************************************)
(* Proofs that the app keeps what AuctionHouse promises and lists what its *)
(* devices know, for any number of devices, users, items and amounts, any  *)
(* clock and any number of faults.                                         *)
(*                                                                         *)
(* The argument: a bid is checked against the item selected on the device, *)
(* whose price may be wrong but whose opener and starting price are those  *)
(* its key was opened with (AuctionInv).  So every write on its way is one *)
(* the auction house allows, and so is every change the server makes.      *)
(*                                                                         *)
(* Then, what the users see: a device's lists are those of its view when   *)
(* no event waits, because every change of the view ends the queue of      *)
(* events with one that fills the lists from it, and detail screens write  *)
(* into an item of a list only its price (MirrorInv).                      *)
(***************************************************************************)
EXTENDS AuctionProofs

-----------------------------------------------------------------------------
(***************************************************************************)
(* Listings are opened once and for all                                    *)
(***************************************************************************)
Listings == [Items -> Listing \cup {Null}]

Extends(new, old) == \A i \in Items : old[i] # Null => new[i] = old[i]

LEMMA LegalWriteExtends ==
  ASSUME NEW old \in Listings, NEW new \in Listings, Extends(new, old),
         NEW w \in Write, LegalWrite(old, w)
  PROVE  LegalWrite(new, w)
<1>1. w.item \in Items
  BY DEF Write
<1>2. new[w.item] = old[w.item]
  BY <1>1 DEF LegalWrite, Extends
<1> QED
  BY <1>2 DEF LegalWrite

LEMMA GenuineProductsExtends ==
  ASSUME NEW old \in Listings, NEW new \in Listings, Extends(new, old),
         NEW prods, GenuineProducts(old, prods)
  PROVE  GenuineProducts(new, prods)
  BY DEF GenuineProducts, Extends

LEMMA GenuineItemExtends ==
  ASSUME NEW old \in Listings, NEW new \in Listings, Extends(new, old),
         NEW a \in AuctionItem, GenuineItem(old, a)
  PROVE  GenuineItem(new, a)
<1>1. a.uniqueKey \in Items
  BY DEF AuctionItem
<1> QED
  BY <1>1 DEF GenuineItem, Extends

LEMMA GenuineMessageExtends ==
  ASSUME NEW old \in Listings, NEW new \in Listings, Extends(new, old),
         NEW m \in Message, GenuineMessage(old, m)
  PROVE  GenuineMessage(new, m)
<1>1. m.kind = "write" => m.write \in Write
  BY DEF Message
<1> QED
  BY <1>1, LegalWriteExtends, GenuineProductsExtends DEF GenuineMessage

-----------------------------------------------------------------------------
(***************************************************************************)
(* What a legal write does to a copy of Products/                          *)
(***************************************************************************)
LEMMA LegalListing ==
  ASSUME NEW listings \in Listings, NEW w \in Write, LegalWrite(listings, w),
         "listing" \in w.sets
  PROVE  w.to.listing \in {Null, listings[w.item]}
<1>1. w = CreateProduct(w.item, listings[w.item]) \/ w = RemoveProduct(w.item)
  BY DEF LegalWrite
<1> QED
  BY <1>1 DEF CreateProduct, RemoveProduct, NewProduct, NoProduct

LEMMA OverlayGenuine ==
  ASSUME NEW listings \in Listings, NEW w \in Write, LegalWrite(listings, w),
         NEW prods \in Products_, GenuineProducts(listings, prods), NEW fs \in SUBSET w.sets
  PROVE  GenuineProducts(listings, [prods EXCEPT ![w.item] = Overlay(@, w.to, fs)])
<1> DEFINE r == [prods EXCEPT ![w.item] = Overlay(@, w.to, fs)]
<1> SUFFICES ASSUME NEW i \in Items
             PROVE  r[i].listing \in {Null, listings[i]}
  BY DEF GenuineProducts
<1>1. CASE i # w.item
  BY <1>1 DEF GenuineProducts, Products_
<1>2. CASE i = w.item
  <2>1. r[i].listing = IF "listing" \in fs THEN w.to.listing ELSE prods[i].listing
    BY <1>2 DEF Overlay, Products_
  <2> QED
    BY <1>2, <2>1, LegalListing DEF GenuineProducts
<1> QED
  BY <1>1, <1>2

LEMMA ApplyGenuine ==
  ASSUME NEW listings \in Listings, NEW w \in Write, LegalWrite(listings, w),
         NEW prods \in Products_, GenuineProducts(listings, prods)
  PROVE  GenuineProducts(listings, Apply(prods, w))
<1>1. w.sets \in SUBSET w.sets
  OBVIOUS
<1> QED
  BY <1>1, OverlayGenuine DEF Apply

-----------------------------------------------------------------------------
(***************************************************************************)
(* WritesAreLegal and CopiesAreGenuine under the steps of the database     *)
(***************************************************************************)
CopiesOK(listings, prods, views, queues, pushes, inboxes) ==
    /\ GenuineProducts(listings, prods)
    /\ \A c \in Clients : GenuineProducts(listings, views[c])
    /\ \A c \in Clients : \A w \in Elements(queues[c]) : w # Null => LegalWrite(listings, w)
    /\ \A c \in Clients : \A m \in Elements(pushes[c]) : GenuineMessage(listings, m)
    /\ \A c \in Clients : \A e \in Elements(inboxes[c]) : GenuineProducts(listings, e.snapshot)

LEMMA CopiesRestated ==
  /\ WritesAreLegal /\ CopiesAreGenuine
       <=> CopiesOK(opened, products, view, writes, push, inbox)
  /\ (WritesAreLegal /\ CopiesAreGenuine)'
       <=> CopiesOK(opened', products', view', writes', push', inbox')
  BY DEF WritesAreLegal, CopiesAreGenuine, CopiesOK, Elements, Unanswered

LEMMA CopiesExtends ==
  ASSUME SyncTypeOK, NEW old \in Listings, NEW new \in Listings, Extends(new, old),
         CopiesOK(old, products, view, writes, push, inbox)
  PROVE  CopiesOK(new, products, view, writes, push, inbox)
<1>1. GenuineProducts(new, products)
  BY GenuineProductsExtends DEF CopiesOK
<1>2. ASSUME NEW c \in Clients PROVE GenuineProducts(new, view[c])
  BY GenuineProductsExtends DEF CopiesOK
<1>3. ASSUME NEW c \in Clients, NEW w \in Elements(writes[c]), w # Null
      PROVE  LegalWrite(new, w)
  <2>1. w \in Write
    BY <1>3 DEF SyncTypeOK, Elements
  <2> QED
    BY <1>3, <2>1, LegalWriteExtends DEF CopiesOK
<1>4. ASSUME NEW c \in Clients, NEW m \in Elements(push[c])
      PROVE  GenuineMessage(new, m)
  <2>1. m \in Message
    BY <1>4 DEF SyncTypeOK, Elements
  <2> QED
    BY <1>4, <2>1, GenuineMessageExtends DEF CopiesOK
<1>5. ASSUME NEW c \in Clients, NEW e \in Elements(inbox[c])
      PROVE  GenuineProducts(new, e.snapshot)
  BY <1>5, GenuineProductsExtends DEF CopiesOK
<1> QED
  BY <1>1, <1>2, <1>3, <1>4, <1>5 DEF CopiesOK

(* The events of a change carry the new view. *)
LEMMA EventsGenuine ==
  ASSUME NEW c \in Clients, NEW v, NEW w, NEW e \in Elements(EventsOf(c, v, w))
  PROVE  e.snapshot = w
<1>1. ProductsEvent(w).snapshot = w /\ \A S : DetailEvent(S, w).snapshot = w
  BY DEF ProductsEvent, DetailEvent
<1> QED
  BY <1>1, ElementsOfEvents

LEMMA ElementsOfQueue ==
  ASSUME NEW q \in Seq(Write \cup {Null}), NEW w \in Write
  PROVE  Elements(Append(q, w)) = Elements(q) \cup {w}
<1> DEFINE S == Write \cup {Null}
<1>1. q \in Seq(S) /\ w \in S
  OBVIOUS
<1> HIDE DEF S
<1> QED
  BY <1>1, ElementsOfAppend

LEMMA ElementsOfEventConcat ==
  ASSUME NEW q \in Seq(Event), NEW r \in Seq(Event)
  PROVE  Elements(q \o r) = Elements(q) \cup Elements(r)
<1> DEFINE S == Event
<1>1. q \in Seq(S) /\ r \in Seq(S)
  OBVIOUS
<1> HIDE DEF S
<1> QED
  BY <1>1, ElementsOfConcat

LEMMA SetValueGenuine ==
  ASSUME SyncTypeOK, NEW listings \in Listings,
         CopiesOK(listings, products, view, writes, push, inbox),
         NEW c \in Clients, NEW w \in Write, LegalWrite(listings, w), SetValue(c, w)
  PROVE  CopiesOK(listings, products', view', writes', push', inbox')
<1> DEFINE v == Apply(view[c], w)
           q == EventsOf(c, view[c], v)
<1>1. view[c] \in Products_ /\ v \in Products_
  BY ApplyType DEF SyncTypeOK
<1>2. GenuineProducts(listings, v)
  BY <1>1, ApplyGenuine DEF CopiesOK
<1>3. q \in Seq(Event)
  BY <1>1, EventsOfType
<1>4. /\ view' = [view EXCEPT ![c] = v]
      /\ writes' = [writes EXCEPT ![c] = Append(@, w)]
      /\ inbox' = [inbox EXCEPT ![c] = @ \o q]
      /\ UNCHANGED <<products, push>>
  BY DEF SetValue
<1>5. \A e \in Elements(q) : e.snapshot = v
  BY EventsGenuine
<1> HIDE DEF v, q
<1>6. Elements(inbox[c] \o q) = Elements(inbox[c]) \cup Elements(q)
  BY <1>3, ElementsOfConcat DEF SyncTypeOK
<1>7. Elements(Append(writes[c], w)) = Elements(writes[c]) \cup {w}
  BY ElementsOfQueue DEF SyncTypeOK
<1>8. \A d \in Clients : GenuineProducts(listings, view'[d])
  BY <1>2, <1>4 DEF CopiesOK, SyncTypeOK
<1>9. \A d \in Clients : \A x \in Elements(writes'[d]) : x # Null => LegalWrite(listings, x)
  BY <1>4, <1>7 DEF CopiesOK, SyncTypeOK
<1>10. \A d \in Clients : \A e \in Elements(inbox'[d]) : GenuineProducts(listings, e.snapshot)
  BY <1>2, <1>4, <1>5, <1>6 DEF CopiesOK, SyncTypeOK
<1> QED
  BY <1>4, <1>8, <1>9, <1>10 DEF CopiesOK

LEMMA SetTwoValuesGenuine ==
  ASSUME SyncTypeOK, NEW listings \in Listings,
         CopiesOK(listings, products, view, writes, push, inbox),
         NEW c \in Clients, NEW w1 \in Write, LegalWrite(listings, w1),
         NEW w2 \in Write, LegalWrite(listings, w2), SetTwoValues(c, w1, w2)
  PROVE  CopiesOK(listings, products', view', writes', push', inbox')
<1> DEFINE v1 == Apply(view[c], w1)
           v2 == Apply(v1, w2)
           q1 == EventsOf(c, view[c], v1)
           q2 == EventsOf(c, v1, v2)
<1>1. view[c] \in Products_ /\ v1 \in Products_ /\ v2 \in Products_
  BY ApplyType DEF SyncTypeOK
<1>2. GenuineProducts(listings, v1) /\ GenuineProducts(listings, v2)
  <2>1. GenuineProducts(listings, v1)
    BY <1>1, ApplyGenuine DEF CopiesOK
  <2> QED
    BY <1>1, <2>1, ApplyGenuine
<1>3. q1 \in Seq(Event) /\ q2 \in Seq(Event)
  BY <1>1, EventsOfType
<1>4. /\ view' = [view EXCEPT ![c] = v2]
      /\ writes' = [writes EXCEPT ![c] = Append(Append(@, w1), w2)]
      /\ inbox' = [inbox EXCEPT ![c] = (@ \o q1) \o q2]
      /\ UNCHANGED <<products, push>>
  BY DEF SetTwoValues
<1>5. /\ \A e \in Elements(q1) : e.snapshot = v1
      /\ \A e \in Elements(q2) : e.snapshot = v2
  BY EventsGenuine
<1> HIDE DEF v1, v2, q1, q2
<1>6. inbox[c] \in Seq(Event) /\ inbox[c] \o q1 \in Seq(Event)
  BY <1>3 DEF SyncTypeOK
<1>7. Elements((inbox[c] \o q1) \o q2) = (Elements(inbox[c]) \cup Elements(q1)) \cup Elements(q2)
  <2>1. Elements(inbox[c] \o q1) = Elements(inbox[c]) \cup Elements(q1)
    BY <1>3, <1>6, ElementsOfEventConcat
  <2>2. Elements((inbox[c] \o q1) \o q2) = Elements(inbox[c] \o q1) \cup Elements(q2)
    BY <1>3, <1>6, ElementsOfEventConcat
  <2> QED
    BY <2>1, <2>2
<1>8. Elements(Append(Append(writes[c], w1), w2)) = Elements(writes[c]) \cup {w1} \cup {w2}
  <2>1. writes[c] \in Seq(Write \cup {Null}) /\ Append(writes[c], w1) \in Seq(Write \cup {Null})
    BY DEF SyncTypeOK
  <2> QED
    BY <2>1, ElementsOfQueue
<1>9. \A d \in Clients : GenuineProducts(listings, view'[d])
  BY <1>2, <1>4 DEF CopiesOK, SyncTypeOK
<1>10. \A d \in Clients : \A x \in Elements(writes'[d]) : x # Null => LegalWrite(listings, x)
  BY <1>4, <1>8 DEF CopiesOK, SyncTypeOK
<1>11. \A d \in Clients : \A e \in Elements(inbox'[d]) : GenuineProducts(listings, e.snapshot)
  BY <1>2, <1>4, <1>5, <1>7 DEF CopiesOK, SyncTypeOK
<1> QED
  BY <1>4, <1>9, <1>10, <1>11 DEF CopiesOK

LEMMA ServerApplyGenuine ==
  ASSUME SyncTypeOK, NEW listings \in Listings,
         CopiesOK(listings, products, view, writes, push, inbox),
         NEW c \in Clients, ServerApply(c)
  PROVE  CopiesOK(listings, products', view', writes', push', inbox')
<1>1. PICK k \in DOMAIN writes[c] :
        /\ IsNext(c, k)
        /\ products' = Apply(products, writes[c][k])
        /\ push' = [d \in Clients |->
                      IF connected[d]
                      THEN Append(push[d], [kind |-> "write", from |-> c, number |-> k,
                                            write |-> writes[c][k]])
                      ELSE push[d]]
  BY DEF ServerApply
<1> DEFINE w == writes[c][k]
           m == [kind |-> "write", from |-> c, number |-> k, write |-> w]
<1>2. k \in Nat /\ w \in Write /\ w # Null /\ w \in Elements(writes[c])
  BY <1>1 DEF SyncTypeOK, IsNext, Unanswered, Elements
<1>3. LegalWrite(listings, w)
  BY <1>2 DEF CopiesOK
<1>4. GenuineProducts(listings, products')
  BY <1>1, <1>2, <1>3, ApplyGenuine DEF CopiesOK, SyncTypeOK
<1>5. m \in Message
  BY <1>2 DEF Message
<1>6. GenuineMessage(listings, m)
  BY <1>3 DEF GenuineMessage
<1>7. push' = [d \in Clients |-> IF connected[d] THEN Append(push[d], m) ELSE push[d]]
  BY <1>1
<1> HIDE DEF m
<1>8. \A d \in Clients : Elements(Append(push[d], m)) = Elements(push[d]) \cup {m}
  BY <1>5, ElementsOfAppend DEF SyncTypeOK
<1>9. \A d \in Clients : \A x \in Elements(push'[d]) : GenuineMessage(listings, x)
  BY <1>6, <1>7, <1>8 DEF CopiesOK
<1> QED
  BY <1>4, <1>9 DEF CopiesOK, ServerApply

LEMMA ReceiveWriteGenuine ==
  ASSUME SyncTypeOK, NEW listings \in Listings,
         CopiesOK(listings, products, view, writes, push, inbox),
         NEW c \in Clients, ReceiveWrite(c)
  PROVE  CopiesOK(listings, products', view', writes', push', inbox')
<1> DEFINE m == Head(push[c])
           w == m.write
           fs == w.sets \ Shadowed(writes[c], w.item)
           v == [view[c] EXCEPT ![w.item] = Overlay(@, w.to, fs)]
           q == EventsOf(c, view[c], v)
<1>1. push[c] \in Seq(Message) /\ push[c] # <<>> /\ m.kind = "write"
  BY DEF SyncTypeOK, ReceiveWrite
<1>2. m \in Elements(push[c]) /\ Elements(Tail(push[c])) \subseteq Elements(push[c])
  BY <1>1, ElementsOfTail
<1>3. m \in Message
  BY <1>1
<1>4. w \in Write
  BY <1>1, <1>3 DEF Message
<1>5. LegalWrite(listings, w)
  BY <1>1, <1>2 DEF CopiesOK, GenuineMessage
<1>6. view[c] \in Products_ /\ GenuineProducts(listings, view[c])
  BY DEF SyncTypeOK, CopiesOK
<1>7. GenuineProducts(listings, v)
  BY <1>4, <1>5, <1>6, OverlayGenuine
<1>8. v \in Products_
  <2>1. Overlay(view[c][w.item], w.to, fs) \in Product
    BY <1>4, <1>6, OverlayType DEF Write, Products_
  <2> QED
    BY <1>6, <2>1 DEF Products_
<1>9. q \in Seq(Event)
  BY <1>6, <1>8, EventsOfType
<1>10. /\ view' = [view EXCEPT ![c] = v]
       /\ inbox' = [inbox EXCEPT ![c] = @ \o q]
       /\ push' = [push EXCEPT ![c] = Tail(@)]
       /\ products' = products
  BY DEF ReceiveWrite
<1>11. \A e \in Elements(q) : e.snapshot = v
  BY EventsGenuine
<1>12. ASSUME NEW d \in Clients, NEW x \in Elements(writes'[d]), x # Null
       PROVE  LegalWrite(listings, x)
  <2>1. x \in Elements(writes[d])
    BY <1>12 DEF ReceiveWrite, SyncTypeOK, Elements
  <2> QED
    BY <1>12, <2>1 DEF CopiesOK
<1> HIDE DEF m, w, fs, v, q
<1>13. Elements(inbox[c] \o q) = Elements(inbox[c]) \cup Elements(q)
  BY <1>9, ElementsOfConcat DEF SyncTypeOK
<1>14. \A d \in Clients : GenuineProducts(listings, view'[d])
  BY <1>7, <1>10 DEF CopiesOK, SyncTypeOK
<1>15. \A d \in Clients : \A x \in Elements(push'[d]) : GenuineMessage(listings, x)
  BY <1>2, <1>10 DEF CopiesOK, SyncTypeOK
<1>16. \A d \in Clients : \A e \in Elements(inbox'[d]) : GenuineProducts(listings, e.snapshot)
  BY <1>7, <1>10, <1>11, <1>13 DEF CopiesOK, SyncTypeOK
<1> QED
  BY <1>10, <1>12, <1>14, <1>15, <1>16 DEF CopiesOK

LEMMA ReceiveSnapshotGenuine ==
  ASSUME SyncTypeOK, NEW listings \in Listings,
         CopiesOK(listings, products, view, writes, push, inbox),
         NEW c \in Clients, ReceiveSnapshot(c)
  PROVE  CopiesOK(listings, products', view', writes', push', inbox')
<1> DEFINE m == Head(push[c])
           v == [i \in Items |-> Overlay(view[c][i], m.products[i],
                                         Fields \ Shadowed(writes[c], i))]
           q == IF synced[c] THEN EventsOf(c, view[c], v) ELSE <<ProductsEvent(v)>>
<1>1. push[c] \in Seq(Message) /\ push[c] # <<>> /\ m.kind = "snapshot"
  BY DEF SyncTypeOK, ReceiveSnapshot
<1>2. m \in Elements(push[c]) /\ Elements(Tail(push[c])) \subseteq Elements(push[c])
  BY <1>1, ElementsOfTail
<1>3. m.products \in Products_ /\ view[c] \in Products_
  <2>1. m \in Message
    BY <1>1
  <2> QED
    BY <1>1, <2>1 DEF Message, SyncTypeOK
<1>4. GenuineProducts(listings, m.products) /\ GenuineProducts(listings, view[c])
  BY <1>1, <1>2 DEF CopiesOK, GenuineMessage
<1>5. GenuineProducts(listings, v)
  BY <1>4 DEF GenuineProducts, Overlay
<1>6. v \in Products_
  BY <1>3, OverlayType DEF Products_
<1>7. q \in Seq(Event) /\ \A e \in Elements(q) : e.snapshot = v
  <2>1. EventsOf(c, view[c], v) \in Seq(Event)
    BY <1>3, <1>6, EventsOfType
  <2>2. /\ <<ProductsEvent(v)>> \in Seq(Event)
        /\ Elements(<<ProductsEvent(v)>>) = {ProductsEvent(v)}
        /\ ProductsEvent(v).snapshot = v
    <3> HIDE DEF v
    <3>1. ProductsEvent(v) \in Event
      BY <1>6, EventTypes
    <3>2. Elements(<<ProductsEvent(v)>>) = {ProductsEvent(v)}
      BY DEF Elements
    <3>3. ProductsEvent(v).snapshot = v
      BY DEF ProductsEvent
    <3> QED
      BY <3>1, <3>2, <3>3
  <2> QED
    BY <2>1, <2>2, EventsGenuine
<1>8. /\ view' = [view EXCEPT ![c] = v]
      /\ inbox' = [inbox EXCEPT ![c] = @ \o q]
      /\ push' = [push EXCEPT ![c] = Tail(@)]
      /\ UNCHANGED <<products, writes>>
  BY DEF ReceiveSnapshot
<1> HIDE DEF m, v, q
<1>9. Elements(inbox[c] \o q) = Elements(inbox[c]) \cup Elements(q)
  BY <1>7, ElementsOfConcat DEF SyncTypeOK
<1>10. \A d \in Clients : GenuineProducts(listings, view'[d])
  BY <1>5, <1>8 DEF CopiesOK, SyncTypeOK
<1>11. \A d \in Clients : \A x \in Elements(push'[d]) : GenuineMessage(listings, x)
  BY <1>2, <1>8 DEF CopiesOK, SyncTypeOK
<1>12. \A d \in Clients : \A e \in Elements(inbox'[d]) : GenuineProducts(listings, e.snapshot)
  BY <1>5, <1>7, <1>8, <1>9 DEF CopiesOK, SyncTypeOK
<1> QED
  BY <1>8, <1>10, <1>11, <1>12 DEF CopiesOK

LEMMA ConnectionGenuine ==
  ASSUME SyncTypeOK, NEW listings \in Listings,
         CopiesOK(listings, products, view, writes, push, inbox),
         NEW c \in Clients, Connect(c) \/ Disconnect(c)
  PROVE  CopiesOK(listings, products', view', writes', push', inbox')
<1>1. /\ Elements(<<>>) = {}
      /\ Elements(RestoredListen) = {[kind |-> "snapshot", products |-> products]}
  BY DEF Elements, RestoredListen
<1>2. GenuineMessage(listings, [kind |-> "snapshot", products |-> products])
  BY DEF CopiesOK, GenuineMessage
<1>3. \A d \in Clients : \A x \in Elements(push'[d]) : GenuineMessage(listings, x)
  BY <1>1, <1>2 DEF Connect, Disconnect, CopiesOK, SyncTypeOK
<1> QED
  BY <1>3 DEF Connect, Disconnect, CopiesOK

LEMMA EndProcessGenuine ==
  ASSUME SyncTypeOK, NEW listings \in Listings,
         CopiesOK(listings, products, view, writes, push, inbox),
         NEW c \in Clients, EndProcess(c)
  PROVE  CopiesOK(listings, products', view', writes', push', inbox')
<1>1. Elements(<<>>) = {}
  BY DEF Elements
<1>2. GenuineProducts(listings, NoProducts)
  BY DEF GenuineProducts, NoProducts, NoProduct
<1>3. \A d \in Clients : GenuineProducts(listings, view'[d])
  BY <1>2 DEF EndProcess, CopiesOK, SyncTypeOK
<1>4. \A d \in Clients : /\ Elements(writes'[d]) \subseteq Elements(writes[d])
                         /\ Elements(push'[d]) \subseteq Elements(push[d])
                         /\ Elements(inbox'[d]) \subseteq Elements(inbox[d])
  BY <1>1 DEF EndProcess, SyncTypeOK
<1> QED
  BY <1>3, <1>4 DEF EndProcess, CopiesOK

LEMMA EventQueueGenuine ==
  ASSUME SyncTypeOK, NEW listings \in Listings,
         CopiesOK(listings, products, view, writes, push, inbox),
         NEW c \in Clients,
         \/ \E i \in Items : Observe(c, i) \/ ObserveSingleEvent(c, i)
         \/ inbox[c] # <<>> /\ TakeEvent(c)
         \/ UNCHANGED syncVars
  PROVE  CopiesOK(listings, products', view', writes', push', inbox')
<1>1. UNCHANGED <<products, view, writes, push>>
  BY DEF Observe, ObserveSingleEvent, TakeEvent, syncVars
<1>2. ASSUME NEW i \in Items, FirstEvent(c, i), NEW d \in Clients, NEW e \in Elements(inbox'[d])
      PROVE  GenuineProducts(listings, e.snapshot)
  <2>1. DetailEvent({i}, view[c]) \in Event /\ DetailEvent({i}, view[c]).snapshot = view[c]
    BY EventTypes DEF SyncTypeOK, DetailEvent
  <2>2. inbox' = [inbox EXCEPT ![c] = Append(@, DetailEvent({i}, view[c]))]
    BY <1>2 DEF FirstEvent
  <2>3. Elements(Append(inbox[c], DetailEvent({i}, view[c])))
          = Elements(inbox[c]) \cup {DetailEvent({i}, view[c])}
    BY <2>1, ElementsOfAppend DEF SyncTypeOK
  <2> QED
    BY <1>2, <2>1, <2>2, <2>3 DEF CopiesOK, SyncTypeOK
<1>3. ASSUME inbox[c] # <<>>, TakeEvent(c), NEW d \in Clients
      PROVE  Elements(inbox'[d]) \subseteq Elements(inbox[d])
  BY <1>3, ElementsOfTail DEF TakeEvent, SyncTypeOK
<1>4. \A d \in Clients : \A e \in Elements(inbox'[d]) : GenuineProducts(listings, e.snapshot)
  BY <1>2, <1>3 DEF CopiesOK, Observe, ObserveSingleEvent, syncVars
<1> QED
  BY <1>1, <1>4 DEF CopiesOK

-----------------------------------------------------------------------------
(***************************************************************************)
(* AuctionInv is inductive, given the types                                *)
(***************************************************************************)
LEMMA OpenedExtends ==
  ASSUME TypeOK, [Next]_vars
  PROVE  Extends(opened', opened)
<1>1. ASSUME NEW c \in Clients, NEW i \in Items, NEW price, NEW closing,
             Submit_Auction(c, i, price, closing)
      PROVE  Extends(opened', opened)
  BY <1>1 DEF Submit_Auction, Extends, TypeOK
<1>2. CASE opened' = opened
  BY <1>2 DEF Extends
<1> QED
  BY <1>1, <1>2
  DEF Next, vars, UserStep, SystemStep, CallbackStep, FaultStep, OpenBidScreen, CloseBidScreen,
      OpenDeleteScreen, CloseDeleteScreen, SelectWon, Bid_Submit, Delete_Listing,
      ProductsCallback, DetailCallback, CallbackCrashes, ServerStep, ReceiveStep, ConnectStep,
      LoseConnection, Kill, Launch, Tick, appVars

(* The bids that pass the checks of Bid_Submit are legal ones: they are    *)
(* checked against the opener and the starting price of the right listing. *)
LEMMA BidsAreLegal ==
  ASSUME TypeOK, AuctionInv, NEW c \in Clients, NEW amount \in Amounts, Bid_Submit(c, amount)
  PROVE  LET w1 == SetPrice(selected[c].uniqueKey, amount)
             w2 == SetBidder(selected[c].uniqueKey, SignedIn_UserName[c])
         IN  /\ w1 \in Write /\ LegalWrite(opened, w1)
             /\ w2 \in Write /\ LegalWrite(opened, w2)
             /\ SetTwoValues(c, w1, w2)
<1> DEFINE a == selected[c]
           l == opened[a.uniqueKey]
<1>1. a \in AuctionItem
  BY DEF AuctionInv, SelectionExists, Bid_Submit
<1>2. BidAccepted(c, a, amount)
  BY DEF Bid_Submit
<1>3. a.uniqueKey \in Items /\ a.highestBidPrice \in Nat /\ a.startingPrice \in Nat
  BY <1>1 DEF AuctionItem
<1>4. amount \in Nat /\ SignedIn_UserName[c] \in Users
  BY AuctionAssumption
<1>5. GenuineItem(opened, a)
  BY <1>1 DEF AuctionInv, ItemsAreGenuine
<1>6. l \in Listing /\ a.openedBy = l.openby /\ a.startingPrice = l.startingprice
  BY <1>3, <1>5 DEF GenuineItem, TypeOK
<1>7. House!LegalPrice(l, amount)
  BY <1>2, <1>3, <1>4, <1>6 DEF BidAccepted, House!LegalPrice
<1>8. House!LegalBidder(l, SignedIn_UserName[c])
  BY <1>2, <1>4, <1>6 DEF BidAccepted, House!LegalBidder
<1>9. LegalWrite(opened, SetPrice(a.uniqueKey, amount))
  BY <1>5, <1>7 DEF LegalWrite, SetPrice, GenuineItem, NoProduct
<1>10. LegalWrite(opened, SetBidder(a.uniqueKey, SignedIn_UserName[c]))
  BY <1>5, <1>8 DEF LegalWrite, SetBidder, GenuineItem, NoProduct
<1> QED
  BY <1>3, <1>4, <1>9, <1>10, WriteTypes DEF Bid_Submit

(* A listing is only deleted under the key of a genuine item. *)
LEMMA DeletesAreLegal ==
  ASSUME TypeOK, AuctionInv, NEW c \in Clients, Delete_Listing(c)
  PROVE  LET w == RemoveProduct(selected[c].uniqueKey)
         IN  w \in Write /\ LegalWrite(opened, w) /\ SetValue(c, w)
<1>1. selected[c] \in AuctionItem
  BY DEF AuctionInv, SelectionExists, Delete_Listing
<1>2. selected[c].uniqueKey \in Items
  BY <1>1 DEF AuctionItem
<1>3. opened[selected[c].uniqueKey] # Null
  BY <1>1 DEF AuctionInv, ItemsAreGenuine, GenuineItem
<1>4. LegalWrite(opened, RemoveProduct(selected[c].uniqueKey))
  BY <1>3 DEF LegalWrite, RemoveProduct
<1> QED
  BY <1>2, <1>4, WriteTypes DEF Delete_Listing

(* Opening an auction publishes what was opened. *)
LEMMA SubmissionsAreLegal ==
  ASSUME TypeOK, NEW c \in Clients, NEW i \in Items, NEW price \in Amounts,
         NEW closing \in 0..MaxTime, Submit_Auction(c, i, price, closing)
  PROVE  \E w \in Write : LegalWrite(opened', w) /\ SetValue(c, w)
<1> DEFINE l == [openby |-> SignedIn_UserName[c], opendate |-> CutToMinute(now),
                 closedate |-> CutToMinute(closing), startingprice |-> price]
<1>1. l \in Listing
  BY CutType, AuctionAssumption DEF Listing, TypeOK
<1> HIDE DEF l
<1>2. opened' = [opened EXCEPT ![i] = l] /\ SetValue(c, CreateProduct(i, l))
  BY DEF Submit_Auction, l
<1>3. opened'[i] = l
  BY <1>2 DEF TypeOK
<1>4. l # Null
  BY <1>1, ProductsAssumption
<1>5. LegalWrite(opened', CreateProduct(i, l))
  BY <1>3, <1>4 DEF LegalWrite, CreateProduct
<1> QED
  BY <1>1, <1>2, <1>5, WriteTypes

LEMMA CopiesStep ==
  ASSUME TypeOK, TypeOK', AuctionInv, [Next]_vars
  PROVE  (WritesAreLegal /\ CopiesAreGenuine)'
<1> DEFINE Goal == CopiesOK(opened', products', view', writes', push', inbox')
<1>1. opened \in Listings /\ opened' \in Listings /\ Extends(opened', opened)
  BY OpenedExtends DEF TypeOK, Listings
<1>2. SyncTypeOK
  BY DEF TypeOK
<1>3. CopiesOK(opened, products, view, writes, push, inbox)
  BY CopiesRestated DEF AuctionInv
<1>4. CopiesOK(opened', products, view, writes, push, inbox)
  BY <1>1, <1>2, <1>3, CopiesExtends
<1>5. SUFFICES Goal
  BY CopiesRestated
<1>6. ASSUME NEW c \in Clients, NEW i \in Items, NEW price \in Amounts,
             NEW closing \in 0..MaxTime, Submit_Auction(c, i, price, closing)
      PROVE  Goal
  BY <1>1, <1>2, <1>4, <1>6, SubmissionsAreLegal, SetValueGenuine
<1>7. ASSUME NEW c \in Clients, NEW a, OpenBidScreen(c, a), a \in lists[c].home
      PROVE  Goal
  <2>1. a.uniqueKey \in Items
    BY <1>7 DEF TypeOK, Lists, AuctionItem
  <2> QED
    BY <1>1, <1>2, <1>4, <1>7, <2>1, EventQueueGenuine DEF OpenBidScreen
<1>8. ASSUME NEW c \in Clients, NEW a, OpenDeleteScreen(c, a), a \in lists[c].yours
      PROVE  Goal
  <2>1. a.uniqueKey \in Items
    BY <1>8 DEF TypeOK, Lists, AuctionItem
  <2> QED
    BY <1>1, <1>2, <1>4, <1>8, <2>1, EventQueueGenuine DEF OpenDeleteScreen
<1>9. ASSUME UNCHANGED syncVars
      PROVE  Goal
  BY <1>4, <1>9 DEF syncVars
<1>10. ASSUME NEW c \in Clients, NEW amount \in Amounts, Bid_Submit(c, amount)
       PROVE  Goal
  <2>1. opened' = opened
    BY <1>10 DEF Bid_Submit
  <2> QED
    BY <1>1, <1>2, <1>3, <1>10, <2>1, BidsAreLegal, SetTwoValuesGenuine
<1>11. ASSUME NEW c \in Clients, Delete_Listing(c)
       PROVE  Goal
  <2>1. opened' = opened
    BY <1>11 DEF Delete_Listing
  <2> QED
    BY <1>1, <1>2, <1>3, <1>11, <2>1, DeletesAreLegal, SetValueGenuine
<1>12. ASSUME NEW c \in Clients, ProductsCallback(c) \/ DetailCallback(c)
       PROVE  Goal
  BY <1>1, <1>2, <1>4, <1>12, EventQueueGenuine DEF ProductsCallback, DetailCallback
<1>13. ASSUME NEW c \in Clients, CallbackCrashes(c) \/ Kill(c)
       PROVE  Goal
  BY <1>1, <1>2, <1>4, <1>13, EndProcessGenuine DEF CallbackCrashes, Kill, Stop
<1>14. ASSUME NEW c \in Clients, ServerStep(c)
       PROVE  Goal
  BY <1>1, <1>2, <1>4, <1>14, ServerApplyGenuine DEF ServerStep
<1>15. ASSUME NEW c \in Clients, ReceiveStep(c)
       PROVE  Goal
  BY <1>1, <1>2, <1>4, <1>15, ReceiveWriteGenuine, ReceiveSnapshotGenuine DEF ReceiveStep
<1>16. ASSUME NEW c \in Clients, ConnectStep(c) \/ LoseConnection(c)
       PROVE  Goal
  BY <1>1, <1>2, <1>4, <1>16, ConnectionGenuine DEF ConnectStep, LoseConnection
<1>17. ASSUME NEW c \in Clients,
              \/ CloseBidScreen(c) \/ CloseDeleteScreen(c) \/ Launch(c)
              \/ \E a \in lists[c].won : SelectWon(c, a)
       PROVE  Goal
  BY <1>9, <1>17 DEF CloseBidScreen, CloseDeleteScreen, Launch, SelectWon
<1>18. CASE Tick \/ UNCHANGED vars
  BY <1>9, <1>18 DEF Tick, vars
<1> QED
  BY <1>6, <1>7, <1>8, <1>10, <1>11, <1>12, <1>13, <1>14, <1>15, <1>16, <1>17, <1>18
  DEF Next, UserStep, SystemStep, CallbackStep, FaultStep

(* retrieveData builds its items from the listings of the snapshot. *)
LEMMA ListsAreGenuine ==
  ASSUME NEW listings \in Listings, NEW prods \in Products_, GenuineProducts(listings, prods),
         \A i \in Items : ~Partial(prods[i]), NEW user, NEW t,
         NEW r, r = ListsOf(prods, user, t)
  PROVE  \A a \in r.home \cup r.yours \cup r.won : GenuineItem(listings, a)
<1>1. ASSUME NEW i \in Items, prods[i] # NoProduct
      PROVE  GenuineItem(listings, ToAuctionItem(i, prods[i]))
  <2>1. prods[i].listing # Null
    BY <1>1 DEF Partial, Complete
  <2>2. prods[i].listing = listings[i]
    BY <2>1 DEF GenuineProducts
  <2> QED
    BY <2>1, <2>2 DEF GenuineItem, ToAuctionItem
<1> QED
  BY <1>1 DEF ListsOf

LEMMA ItemsStep ==
  ASSUME TypeOK, TypeOK', AuctionInv, [Next]_vars
  PROVE  ItemsAreGenuine'
<1> DEFINE All(l) == l.home \cup l.yours \cup l.won
<1>1. opened \in Listings /\ opened' \in Listings /\ Extends(opened', opened)
  BY OpenedExtends DEF TypeOK, Listings
<1>2. \A d \in Clients : \A a \in All(lists[d]) : a \in AuctionItem /\ GenuineItem(opened', a)
  <2>1. \A d \in Clients : \A a \in All(lists[d]) : a \in AuctionItem /\ GenuineItem(opened, a)
    BY DEF AuctionInv, ItemsAreGenuine, TypeOK, Lists
  <2> QED
    BY <1>1, <2>1, GenuineItemExtends
<1>3. \A d \in Clients : selected[d] \in AuctionItem => GenuineItem(opened', selected[d])
  BY <1>1, GenuineItemExtends DEF AuctionInv, ItemsAreGenuine
<1>4. SUFFICES ASSUME NEW d \in Clients
               PROVE  /\ \A a \in All(lists'[d]) : GenuineItem(opened', a)
                      /\ selected'[d] \in AuctionItem => GenuineItem(opened', selected'[d])
  BY DEF ItemsAreGenuine
<1> DEFINE Goal == /\ \A a \in All(lists'[d]) : GenuineItem(opened', a)
                   /\ selected'[d] \in AuctionItem => GenuineItem(opened', selected'[d])
<1>5. ASSUME UNCHANGED <<lists, selected>>
      PROVE  Goal
  BY <1>2, <1>3, <1>5
<1>6. ASSUME NEW c \in Clients, NEW a,
             \/ a \in lists[c].home /\ OpenBidScreen(c, a)
             \/ a \in lists[c].yours /\ OpenDeleteScreen(c, a)
             \/ a \in lists[c].won /\ SelectWon(c, a)
      PROVE  Goal
  <2>1. selected' = [selected EXCEPT ![c] = a] /\ lists' = lists
    BY <1>6 DEF OpenBidScreen, OpenDeleteScreen, SelectWon, Select
  <2>2. GenuineItem(opened', a)
    BY <1>2, <1>6
  <2> QED
    BY <1>2, <1>3, <2>1, <2>2 DEF TypeOK
<1>7. ASSUME NEW c \in Clients, ProductsCallback(c)
      PROVE  Goal
  <2> DEFINE e == Head(inbox[c])
             r == ListsOf(e.snapshot, SignedIn_UserName[c], now)
  <2>1. inbox[c] # <<>> /\ inbox[c] \in Seq(Event)
    BY <1>7 DEF ProductsCallback, TypeOK, SyncTypeOK
  <2>2. 1 \in DOMAIN inbox[c] /\ e = inbox[c][1] /\ e \in Event
    BY <2>1
  <2>3. GenuineProducts(opened, e.snapshot)
    BY <2>2 DEF AuctionInv, CopiesAreGenuine
  <2>4. e.snapshot \in Products_
    BY <2>2 DEF Event
  <2>5. GenuineProducts(opened', e.snapshot)
    BY <1>1, <2>3, GenuineProductsExtends
  <2>6. \A i \in Items : ~Partial(e.snapshot[i])
    BY <1>7 DEF ProductsCallback
  <2>7. lists' = [lists EXCEPT ![c] = r] /\ selected' = selected
    BY <1>7 DEF ProductsCallback, Refilled
  <2> HIDE DEF e
  <2>8. \A a \in All(r) : GenuineItem(opened', a)
    BY <1>1, <2>4, <2>5, <2>6, ListsAreGenuine
  <2> HIDE DEF r
  <2> QED
    BY <1>2, <1>3, <2>7, <2>8 DEF TypeOK
<1>8. ASSUME NEW c \in Clients, DetailCallback(c)
      PROVE  Goal
  <2>1. PICK price \in Nat : SetSelectedPrice(c, price)
    BY <1>8, DetailCallbackType DEF AuctionInv
  <2>2. selected[c] \in AuctionItem /\ GenuineItem(opened', selected[c])
    BY <1>3, <1>8, DetailCallbackType DEF AuctionInv
  <2>3. /\ selected'[c] = [selected[c] EXCEPT !.highestBidPrice = price]
        /\ selected'[c] \in AuctionItem
        /\ selected' = [selected EXCEPT ![c] = selected'[c]]
        /\ \A b \in Clients \ {c} : lists'[b] = lists[b]
        /\ All(lists'[c]) \subseteq All(lists[c]) \cup {selected'[c]}
    <3> HIDE DEF Goal
    <3>1. /\ lists'[c].home \subseteq lists[c].home \cup {selected'[c]}
          /\ lists'[c].yours \subseteq lists[c].yours \cup {selected'[c]}
          /\ lists'[c].won \subseteq lists[c].won \cup {selected'[c]}
      BY <2>1, <2>2, SetSelectedPriceType
    <3>2. /\ selected'[c] = [selected[c] EXCEPT !.highestBidPrice = price]
          /\ selected'[c] \in AuctionItem
          /\ selected' = [selected EXCEPT ![c] = selected'[c]]
          /\ \A b \in Clients \ {c} : lists'[b] = lists[b]
      BY <2>1, <2>2, SetSelectedPriceType
    <3> QED
      BY <3>1, <3>2
  <2>4. CASE d # c
    <3>1. lists'[d] = lists[d] /\ selected'[d] = selected[d]
      BY <2>3, <2>4 DEF TypeOK
    <3> QED
      BY <1>2, <1>3, <3>1
  <2>5. CASE d = c
    <3>1. /\ selected'[d].uniqueKey = selected[c].uniqueKey
          /\ selected'[d].openedBy = selected[c].openedBy
          /\ selected'[d].startingPrice = selected[c].startingPrice
      BY <2>2, <2>3, <2>5 DEF AuctionItem
    <3>2. GenuineItem(opened', selected'[d])
      BY <2>2, <3>1 DEF GenuineItem
    <3> QED
      BY <1>2, <2>3, <2>5, <3>2
  <2> QED
    BY <2>4, <2>5
<1>9. ASSUME NEW c \in Clients, CallbackCrashes(c) \/ Kill(c)
      PROVE  Goal
  <2>1. /\ lists' = [lists EXCEPT ![c] = NoLists]
        /\ selected' = [selected EXCEPT ![c] = Null]
    BY <1>9 DEF CallbackCrashes, Kill, Stop
  <2>2. CASE d # c
    BY <1>2, <1>3, <2>1, <2>2
  <2>3. CASE d = c
    <3>1. lists'[d] = NoLists /\ selected'[d] = Null
      BY <2>1, <2>3 DEF TypeOK
    <3>2. All(NoLists) = {}
      BY DEF NoLists
    <3> QED
      BY <3>1, <3>2, AuctionAssumption
  <2> QED
    BY <2>2, <2>3
<1>10. ASSUME NEW c \in Clients, UserStep(c)
       PROVE  Goal
  <2>1. \/ \E a : \/ a \in lists[c].home /\ OpenBidScreen(c, a)
                  \/ a \in lists[c].yours /\ OpenDeleteScreen(c, a)
                  \/ a \in lists[c].won /\ SelectWon(c, a)
        \/ UNCHANGED <<lists, selected>>
    BY <1>10
    DEF UserStep, Submit_Auction, CloseBidScreen, CloseDeleteScreen, Bid_Submit, Delete_Listing
  <2> HIDE DEF Goal
  <2> QED
    BY <1>5, <1>6, <2>1
<1>11. ASSUME NEW c \in Clients, SystemStep(c) \/ FaultStep(c)
       PROVE  Goal
  <2>1. \/ ProductsCallback(c) \/ DetailCallback(c) \/ CallbackCrashes(c) \/ Kill(c)
        \/ UNCHANGED <<lists, selected>>
    BY <1>11
    DEF SystemStep, CallbackStep, FaultStep, ServerStep, ReceiveStep, ConnectStep,
        LoseConnection, Launch, appVars
  <2> HIDE DEF Goal
  <2> QED
    BY <1>5, <1>7, <1>8, <1>9, <2>1
<1>12. ASSUME Tick \/ UNCHANGED vars
       PROVE  Goal
  BY <1>5, <1>12 DEF Tick, vars, appVars
<1> HIDE DEF Goal
<1>13. ASSUME NEW c \in Clients, UserStep(c) \/ SystemStep(c) \/ FaultStep(c)
       PROVE  Goal
  BY <1>10, <1>11, <1>13
<1>14. Goal
  <2>1. Tick \/ UNCHANGED vars \/ \E c \in Clients : UserStep(c) \/ SystemStep(c) \/ FaultStep(c)
    BY DEF Next
  <2> QED
    BY <1>12, <1>13, <2>1
<1> QED
  BY <1>14 DEF Goal

LEMMA InitAuctionInv == Init => AuctionInv
<1> SUFFICES ASSUME Init PROVE AuctionInv
  OBVIOUS
<1>1. SelectionExists
  BY InitTypes
<1>2. WritesAreLegal
  BY DEF Init, SyncInit, WritesAreLegal, Unanswered
<1>3. CopiesAreGenuine
  BY AuctionAssumption
  DEF Init, SyncInit, CopiesAreGenuine, GenuineProducts, NoProducts, NoProduct, NewProduct
<1>4. ItemsAreGenuine
  BY AuctionAssumption DEF Init, ItemsAreGenuine, NoLists
<1> QED
  BY <1>1, <1>2, <1>3, <1>4 DEF AuctionInv

(* Every write on its way is one the auction house allows, and every copy  *)
(* and every AuctionItem of a device carries the opener and the starting   *)
(* price its key was opened with.  (Bid_Submit, retrieveData, FSyncTree)   *)
THEOREM AuctionInvariant == Spec => []AuctionInv
<1>1. TypeOK /\ AuctionInv /\ [Next]_vars => (TypeOK /\ AuctionInv)'
  <2> SUFFICES ASSUME TypeOK, AuctionInv, [Next]_vars
               PROVE  (TypeOK /\ AuctionInv)'
    OBVIOUS
  <2>1. TypeOK'
    BY TypeStep DEF AuctionInv
  <2>2. SelectionExists'
    BY <2>1, SelectionStep DEF AuctionInv
  <2>3. (WritesAreLegal /\ CopiesAreGenuine)'
    BY <2>1, CopiesStep
  <2>4. ItemsAreGenuine'
    BY <2>1, ItemsStep
  <2> QED
    BY <2>1, <2>2, <2>3, <2>4 DEF AuctionInv
<1>2. Init => TypeOK /\ AuctionInv
  BY InitTypes, InitAuctionInv
<1> QED
  BY <1>1, <1>2, PTL DEF Spec

-----------------------------------------------------------------------------
(***************************************************************************)
(* The app implements the auction house                                    *)
(***************************************************************************)

(* A legal write, taken by the server, is a step of the auction house. *)
LEMMA LegalWriteIsAStep ==
  ASSUME TypeOK, NEW w \in Write, LegalWrite(opened, w),
         products' = Apply(products, w), opened' = opened
  PROVE  House!Next
<1> DEFINE i == w.item
           p == products[i]
<1>1. i \in Items /\ opened[i] # Null
  BY DEF Write, LegalWrite
<1>2. products' = [products EXCEPT ![i] = Overlay(p, w.to, w.sets)]
  BY DEF Apply
<1>3. p \in Product /\ products \in [Items -> Product]
  BY <1>1 DEF TypeOK, SyncTypeOK, Products_
<1>4. CASE w = CreateProduct(i, opened[i])
  <2>1. Overlay(p, w.to, w.sets) = NewProduct(opened[i])
    BY <1>4 DEF CreateProduct, NewProduct, Overlay, Fields
  <2>2. House!Publish(i)
    BY <1>1, <1>2, <2>1 DEF House!Publish, House!NewProduct, NewProduct
  <2> QED
    BY <1>1, <2>2 DEF House!Next
<1>5. CASE w = RemoveProduct(i)
  <2>1. Overlay(p, w.to, w.sets) = NoProduct
    BY <1>5 DEF RemoveProduct, NoProduct, Overlay, Fields
  <2>2. House!Withdraw(i)
    BY <1>1, <1>2, <2>1 DEF House!Withdraw, House!NoProduct, NoProduct
  <2> QED
    BY <1>1, <2>2 DEF House!Next
<1>6. CASE /\ w.sets = {"highestbidprice"}
           /\ House!LegalPrice(opened[i], w.to.highestbidprice)
  <2>1. Overlay(p, w.to, w.sets) = [p EXCEPT !.highestbidprice = w.to.highestbidprice]
    BY <1>3, <1>6 DEF Overlay, Product
  <2>2. products'[i].highestbidprice = w.to.highestbidprice
    BY <1>1, <1>2, <1>3, <1>6 DEF Overlay
  <2>3. House!PutPrice(i)
    BY <1>1, <1>2, <1>3, <1>6, <2>1, <2>2 DEF House!PutPrice
  <2> QED
    BY <1>1, <2>3 DEF House!Next
<1>7. CASE /\ w.sets = {"highestbidder"}
           /\ House!LegalBidder(opened[i], w.to.highestbidder)
  <2>1. Overlay(p, w.to, w.sets) = [p EXCEPT !.highestbidder = w.to.highestbidder]
    BY <1>3, <1>7 DEF Overlay, Product
  <2>2. products'[i].highestbidder = w.to.highestbidder
    BY <1>1, <1>2, <1>3, <1>7 DEF Overlay
  <2>3. House!PutBidder(i)
    BY <1>1, <1>2, <1>3, <1>7, <2>1, <2>2 DEF House!PutBidder
  <2> QED
    BY <1>1, <2>3 DEF House!Next
<1> QED
  BY <1>4, <1>5, <1>6, <1>7 DEF LegalWrite

LEMMA HouseStep ==
  ASSUME TypeOK, TypeOK', AuctionInv, [Next]_vars
  PROVE  [House!Next]_(House!houseVars)
<1>1. ASSUME NEW c \in Clients, NEW i \in Items, NEW price \in Amounts,
             NEW closing \in 0..MaxTime, Submit_Auction(c, i, price, closing)
      PROVE  House!Next
  <2> DEFINE l == [openby |-> SignedIn_UserName[c], opendate |-> CutToMinute(now),
                   closedate |-> CutToMinute(closing), startingprice |-> price]
  <2>1. l \in Listing
    BY CutType, AuctionAssumption DEF Listing, TypeOK
  <2>2. opened' = [opened EXCEPT ![i] = l] /\ opened[i] = Null /\ products' = products
    BY <1>1 DEF Submit_Auction, SetValue
  <2> HIDE DEF l
  <2>3. opened'[i] = l
    BY <2>2 DEF TypeOK
  <2>4. House!Announce(i)
    BY <2>1, <2>2, <2>3 DEF House!Announce, House!Listing, Listing
  <2> QED
    BY <2>4 DEF House!Next
<1>2. ASSUME NEW c \in Clients, ServerStep(c)
      PROVE  House!Next
  <2>1. PICK k \in DOMAIN writes[c] :
          IsNext(c, k) /\ products' = Apply(products, writes[c][k])
    BY <1>2 DEF ServerStep, ServerApply
  <2>2. k \in Unanswered(writes[c])
    BY <2>1 DEF IsNext
  <2>3. LegalWrite(opened, writes[c][k])
    BY <2>2 DEF AuctionInv, WritesAreLegal
  <2>4. writes[c][k] \in Write
    <3>1. writes[c] \in Seq(Write \cup {Null}) /\ writes[c][k] # Null
      BY <2>2 DEF TypeOK, SyncTypeOK, Unanswered
    <3>2. k \in 1..Len(writes[c])
      BY <3>1, LenProperties
    <3>3. writes[c][k] \in Write \cup {Null}
      BY <3>1, <3>2, ElementOfSeq
    <3> QED
      BY <3>1, <3>3
  <2>5. opened' = opened
    BY <1>2 DEF ServerStep, appVars
  <2> QED
    BY <2>1, <2>3, <2>4, <2>5, LegalWriteIsAStep
<1>3. ASSUME UNCHANGED <<products, opened>>
      PROVE  UNCHANGED House!houseVars
  BY <1>3 DEF House!houseVars
<1>4. ASSUME NEW c \in Clients,
             \/ \E a : OpenBidScreen(c, a) \/ OpenDeleteScreen(c, a) \/ SelectWon(c, a)
             \/ CloseBidScreen(c) \/ CloseDeleteScreen(c)
             \/ \E amount : Bid_Submit(c, amount)
             \/ Delete_Listing(c)
      PROVE  UNCHANGED House!houseVars
  BY <1>3, <1>4
  DEF OpenBidScreen, OpenDeleteScreen, SelectWon, CloseBidScreen, CloseDeleteScreen, Bid_Submit,
      Delete_Listing, Observe, ObserveSingleEvent, SetValue, SetTwoValues, syncVars
<1>5. ASSUME NEW c \in Clients, ReceiveStep(c) \/ ConnectStep(c) \/ CallbackStep(c)
      PROVE  UNCHANGED House!houseVars
  BY <1>3, <1>5
  DEF ReceiveStep, ConnectStep, CallbackStep, ProductsCallback, DetailCallback, CallbackCrashes,
      ReceiveWrite, ReceiveSnapshot, Connect, TakeEvent, Stop, EndProcess, appVars
<1>6. ASSUME NEW c \in Clients, FaultStep(c)
      PROVE  UNCHANGED House!houseVars
  BY <1>3, <1>6
  DEF FaultStep, LoseConnection, Kill, Launch, Disconnect, Stop, EndProcess, syncVars
<1>7. CASE Tick \/ UNCHANGED vars
  BY <1>3, <1>7 DEF Tick, vars, syncVars, appVars
<1> QED
  BY <1>1, <1>2, <1>4, <1>5, <1>6, <1>7 DEF Next, UserStep, SystemStep

(* Every change of the server's data, whatever device it comes from and    *)
(* whatever that device's copies are worth, is one the auction house       *)
(* allows.  (Submit_Auction, Bid_Submit, Delete_Listing)                   *)
THEOREM AuctionImplementsHouse == Spec => ImplementsAuctionHouse
<1>1. Init => House!Init
  BY AuctionAssumption
  DEF Init, SyncInit, House!Init, House!Listing, Listing, House!NoProduct, NoProduct,
      House!NewProduct, NewProduct
<1>2. TypeOK /\ TypeOK' /\ AuctionInv /\ [Next]_vars => [House!Next]_(House!houseVars)
  BY HouseStep
<1> QED
  BY <1>1, <1>2, TypeCorrect, AuctionInvariant, PTL DEF Spec, ImplementsAuctionHouse, House!Spec

-----------------------------------------------------------------------------
(***************************************************************************)
(* What follows for the bids the server holds                              *)
(***************************************************************************)

(* The price and the bidder the server holds are the initial ones or legal. *)
StandingIsLegal ==
    \A i \in Items :
        products[i].listing # Null =>
            /\ products[i].listing = opened[i]
            /\ \/ products[i].highestbidprice \in {0, Null}
               \/ House!LegalPrice(opened[i], products[i].highestbidprice)
            /\ \/ products[i].highestbidder \in {NoBidder, Null}
               \/ House!LegalBidder(opened[i], products[i].highestbidder)

LEMMA InitStanding == House!Init => StandingIsLegal
  BY DEF House!Init, House!NewProduct, House!NoProduct, StandingIsLegal

LEMMA StandingStep ==
  ASSUME TypeOK, TypeOK', StandingIsLegal, [House!Next]_(House!houseVars)
  PROVE  StandingIsLegal'
<1> DEFINE Legal(i, ps, os) ==
             ps[i].listing # Null =>
               /\ ps[i].listing = os[i]
               /\ \/ ps[i].highestbidprice \in {0, Null}
                  \/ House!LegalPrice(os[i], ps[i].highestbidprice)
               /\ \/ ps[i].highestbidder \in {NoBidder, Null}
                  \/ House!LegalBidder(os[i], ps[i].highestbidder)
<1>1. products \in [Items -> Product] /\ opened \in [Items -> Listing \cup {Null}]
  BY DEF TypeOK, SyncTypeOK, Products_
<1>2. \A j \in Items : Legal(j, products, opened)
  BY DEF StandingIsLegal
<1>3. SUFFICES ASSUME NEW j \in Items
               PROVE  Legal(j, products', opened')
  BY DEF StandingIsLegal
<1>4. ASSUME NEW i \in Items, House!Announce(i)
      PROVE  Legal(j, products', opened')
  <2>1. opened[i] = Null /\ products' = products /\ \A k \in Items \ {i} : opened'[k] = opened[k]
    BY <1>1, <1>4 DEF House!Announce
  <2>2. products[i].listing = Null
    BY <1>2, <2>1
  <2> QED
    BY <1>2, <2>1, <2>2
<1>5. ASSUME NEW i \in Items, House!Publish(i)
      PROVE  Legal(j, products', opened')
  <2>1. opened' = opened /\ products' = [products EXCEPT ![i] = House!NewProduct(opened[i])]
    BY <1>5 DEF House!Publish
  <2>2. CASE j = i
    BY <1>1, <2>1, <2>2 DEF House!NewProduct
  <2>3. CASE j # i
    BY <1>1, <1>2, <2>1, <2>3
  <2> QED
    BY <2>2, <2>3
<1>6. ASSUME NEW i \in Items, House!PutPrice(i)
      PROVE  Legal(j, products', opened')
  <2>1. PICK x : /\ opened' = opened
                 /\ products' = [products EXCEPT ![i].highestbidprice = x]
                 /\ House!LegalPrice(opened[i], products'[i].highestbidprice)
    BY <1>6 DEF House!PutPrice
  <2>2. CASE j = i
    <3>1. /\ products'[j].listing = products[j].listing
          /\ products'[j].highestbidder = products[j].highestbidder
      BY <1>1, <2>1, <2>2 DEF Product
    <3> QED
      BY <1>2, <2>1, <2>2, <3>1
  <2>3. CASE j # i
    BY <1>1, <1>2, <2>1, <2>3
  <2> QED
    BY <2>2, <2>3
<1>7. ASSUME NEW i \in Items, House!PutBidder(i)
      PROVE  Legal(j, products', opened')
  <2>1. PICK x : /\ opened' = opened
                 /\ products' = [products EXCEPT ![i].highestbidder = x]
                 /\ House!LegalBidder(opened[i], products'[i].highestbidder)
    BY <1>7 DEF House!PutBidder
  <2>2. CASE j = i
    <3>1. /\ products'[j].listing = products[j].listing
          /\ products'[j].highestbidprice = products[j].highestbidprice
      BY <1>1, <2>1, <2>2 DEF Product
    <3> QED
      BY <1>2, <2>1, <2>2, <3>1
  <2>3. CASE j # i
    BY <1>1, <1>2, <2>1, <2>3
  <2> QED
    BY <2>2, <2>3
<1>8. ASSUME NEW i \in Items, House!Withdraw(i)
      PROVE  Legal(j, products', opened')
  <2>1. opened' = opened /\ products' = [products EXCEPT ![i] = House!NoProduct]
    BY <1>8 DEF House!Withdraw
  <2>2. CASE j = i
    BY <1>1, <2>1, <2>2 DEF House!NoProduct
  <2>3. CASE j # i
    BY <1>1, <1>2, <2>1, <2>3
  <2> QED
    BY <2>2, <2>3
<1>9. CASE UNCHANGED House!houseVars
  BY <1>2, <1>9 DEF House!houseVars
<1> QED
  BY <1>4, <1>5, <1>6, <1>7, <1>8, <1>9 DEF House!Next

LEMMA Standing == Spec => [](TypeOK /\ StandingIsLegal)
<1>1. TypeOK /\ TypeOK' /\ StandingIsLegal /\ [House!Next]_(House!houseVars) => StandingIsLegal'
  BY StandingStep
<1> QED
  BY <1>1, InitStanding, TypeCorrect, AuctionImplementsHouse, PTL
  DEF ImplementsAuctionHouse, House!Spec

(* The highest bid the server holds for a listing is at least its starting *)
(* price, although it was checked against prices that may have been old or *)
(* of another product.  (Bid_Submit lines 112-113 and 125)                 *)
THEOREM BidsRespectStartingPrices == Spec => []BidsRespectStartingPrice
<1>1. TypeOK /\ StandingIsLegal => BidsRespectStartingPrice
  BY DEF TypeOK, SyncTypeOK, Products_, Product, Listing, StandingIsLegal,
         BidsRespectStartingPrice, House!LegalPrice
<1> QED
  BY <1>1, Standing, PTL

(* Nobody becomes the highest bidder of an auction of his own.             *)
(* (Bid_Submit line 96)                                                    *)
THEOREM OpenersNeverLead == Spec => []OpenerNeverLeads
<1>1. TypeOK /\ StandingIsLegal => OpenerNeverLeads
  <2> SUFFICES ASSUME TypeOK, StandingIsLegal, NEW i \in Items, products[i].listing # Null
               PROVE  products[i].highestbidder # products[i].listing.openby
    BY DEF OpenerNeverLeads
  <2>1. products[i].listing \in Listing
    BY DEF TypeOK, SyncTypeOK, Products_, Product
  <2>2. products[i].listing.openby \in Users
    BY <2>1 DEF Listing
  <2>3. NoBidder \notin Users /\ Null \notin Users
    BY ProductsAssumption
  <2> QED
    BY <2>2, <2>3 DEF StandingIsLegal, House!LegalBidder
<1> QED
  BY <1>1, Standing, PTL

-----------------------------------------------------------------------------
(***************************************************************************)
(* The events that wait                                                    *)
(***************************************************************************)

(* An event of Products/ at the end of a queue is the newest. *)
LEMMA LastOfConcat ==
  ASSUME NEW q \in Seq(Event), NEW r \in Seq(Event), NEW v, LastHas(r, v)
  PROVE  LastHas(q \o r, v)
<1>1. PICK k \in DOMAIN r : /\ r[k].observer = "products" /\ r[k].snapshot = v
                            /\ \A m \in DOMAIN r : m > k => r[m].observer # "products"
  BY DEF LastHas
<1>2. /\ DOMAIN (q \o r) = 1..(Len(q) + Len(r))
      /\ DOMAIN q = 1..Len(q) /\ DOMAIN r = 1..Len(r)
      /\ Len(q) \in Nat /\ Len(r) \in Nat
  OBVIOUS
<1>3. \A n \in 1..Len(r) : (q \o r)[Len(q) + n] = r[n]
  OBVIOUS
<1> DEFINE n == Len(q) + k
<1>4. n \in DOMAIN (q \o r) /\ (q \o r)[n] = r[k]
  BY <1>1, <1>2, <1>3
<1>5. ASSUME NEW m \in DOMAIN (q \o r), m > n
      PROVE  (q \o r)[m].observer # "products"
  <2>1. m - Len(q) \in DOMAIN r /\ m - Len(q) > k /\ m = Len(q) + (m - Len(q))
    BY <1>1, <1>2, <1>5
  <2>2. (q \o r)[m] = r[m - Len(q)]
    BY <1>2, <1>3, <2>1
  <2> QED
    BY <1>1, <2>1, <2>2
<1> QED
  BY <1>1, <1>4, <1>5 DEF LastHas

(* Whatever waits, a change of the view is told last. *)
LEMMA ChangeIsTold ==
  ASSUME SyncTypeOK, NEW c \in Clients, NEW q \in Seq(Event),
         NEW v \in Products_, NEW w \in Products_, synced[c],
         NEW l, NEW user, NEW t, WillMirror(q, l, v, user, t)
  PROVE  WillMirror(q \o EventsOf(c, v, w), l, w, user, t)
<1> DEFINE r == EventsOf(c, v, w)
<1>1. r \in Seq(Event)
  BY EventsOfType
<1>2. CASE v = w
  <2>1. r = <<>>
    BY <1>2 DEF EventsOf
  <2>2. q \o r = q
    BY <2>1
  <2> QED
    BY <1>2, <2>2
<1>3. CASE v # w
  <2> DEFINE seen == {i \in watching[c] : v[i] # w[i]}
  <2>1. r = <<ProductsEvent(w)>> \/ r = <<DetailEvent(seen, w), ProductsEvent(w)>>
    BY <1>3 DEF EventsOf
  <2>2. LastHas(<<ProductsEvent(w)>>, w)
    BY DEF LastHas, ProductsEvent
  <2>3. LastHas(<<DetailEvent(seen, w), ProductsEvent(w)>>, w)
    <3> DEFINE s == <<DetailEvent(seen, w), ProductsEvent(w)>>
    <3>1. DOMAIN s = {1, 2} /\ s[2] = ProductsEvent(w)
      OBVIOUS
    <3>2. s[2].observer = "products" /\ s[2].snapshot = w
      BY DEF ProductsEvent
    <3> HIDE DEF s
    <3>3. 2 \in DOMAIN s /\ \A m \in DOMAIN s : ~(m > 2)
      BY <3>1
    <3>4. LastHas(s, w)
      BY <3>2, <3>3 DEF LastHas
    <3> QED
      BY <3>4 DEF s
  <2>4. LastHas(r, w)
    BY <2>1, <2>2, <2>3
  <2> HIDE DEF r
  <2>5. LastHas(q \o r, w)
    BY <1>1, <2>4, LastOfConcat
  <2> QED
    BY <2>5 DEF WillMirror, r
<1> QED
  BY <1>2, <1>3

(* The first event of a detail screen changes nothing. *)
LEMMA DetailIsAppended ==
  ASSUME NEW q \in Seq(Event), NEW e \in Event, e.observer = "detail",
         NEW l, NEW v, NEW user, NEW t, WillMirror(q, l, v, user, t)
  PROVE  WillMirror(Append(q, e), l, v, user, t)
<1> DEFINE r == Append(q, e)
<1>1. /\ DOMAIN r = 1..(Len(q) + 1) /\ DOMAIN q = 1..Len(q) /\ Len(q) \in Nat
      /\ r[Len(q) + 1] = e
      /\ \A n \in 1..Len(q) : r[n] = q[n]
  OBVIOUS
<1> HIDE DEF r
<1>2. \A n \in DOMAIN r : r[n].observer = "products" => n \in DOMAIN q /\ r[n] = q[n]
  BY <1>1
<1>3. CASE LastHas(q, v)
  <2>1. PICK k \in DOMAIN q : /\ q[k].observer = "products" /\ q[k].snapshot = v
                              /\ \A m \in DOMAIN q : m > k => q[m].observer # "products"
    BY <1>3 DEF LastHas
  <2>2. k \in DOMAIN r /\ r[k] = q[k]
    BY <1>1
  <2>3. LastHas(r, v)
    BY <1>2, <2>1, <2>2 DEF LastHas
  <2> QED
    BY <2>3 DEF WillMirror, r
<1>4. CASE NoneWaits(q) /\ Mirrors(l, v, user, t)
  <2>1. NoneWaits(r)
    BY <1>2, <1>4 DEF NoneWaits
  <2> QED
    BY <1>4, <2>1 DEF WillMirror, r
<1> QED
  BY <1>3, <1>4 DEF WillMirror

(* The first event of the queue is gone.  If it was the newest, it had v. *)
LEMMA EventIsTaken ==
  ASSUME NEW q \in Seq(Event), q # <<>>, NEW v
  PROVE  /\ LastHas(q, v) => \/ LastHas(Tail(q), v)
                             \/ /\ Head(q).observer = "products" /\ Head(q).snapshot = v
                                /\ NoneWaits(Tail(q))
         /\ NoneWaits(q) => NoneWaits(Tail(q)) /\ Head(q).observer # "products"
<1> DEFINE r == Tail(q)
<1>1. /\ DOMAIN r = 1..(Len(q) - 1) /\ DOMAIN q = 1..Len(q) /\ Len(q) \in Nat \ {0}
      /\ Head(q) = q[1]
      /\ \A n \in 1..(Len(q) - 1) : r[n] = q[n + 1]
  OBVIOUS
<1> HIDE DEF r
<1>2. ASSUME LastHas(q, v)
      PROVE  \/ LastHas(r, v)
             \/ /\ Head(q).observer = "products" /\ Head(q).snapshot = v
                /\ NoneWaits(r)
  <2>1. PICK k \in DOMAIN q : /\ q[k].observer = "products" /\ q[k].snapshot = v
                              /\ \A m \in DOMAIN q : m > k => q[m].observer # "products"
    BY <1>2 DEF LastHas
  <2>2. \A m \in DOMAIN r : m + 1 > k => r[m].observer # "products"
    <3> SUFFICES ASSUME NEW m \in DOMAIN r, m + 1 > k
                 PROVE  r[m].observer # "products"
      OBVIOUS
    <3>1. m + 1 \in DOMAIN q /\ r[m] = q[m + 1]
      BY <1>1
    <3> QED
      BY <2>1, <3>1
  <2>3. CASE k = 1
    <3>1. NoneWaits(r)
      BY <1>1, <2>2, <2>3 DEF NoneWaits
    <3> QED
      BY <1>1, <2>1, <2>3, <3>1
  <2>4. CASE k # 1
    <3>1. k - 1 \in DOMAIN r /\ r[k - 1] = q[k]
      BY <1>1, <2>4
    <3>2. \A m \in DOMAIN r : m > k - 1 => r[m].observer # "products"
      BY <1>1, <2>2
    <3> QED
      BY <2>1, <3>1, <3>2 DEF LastHas
  <2> QED
    BY <2>3, <2>4
<1>3. ASSUME NoneWaits(q)
      PROVE  NoneWaits(r) /\ Head(q).observer # "products"
  BY <1>1, <1>3 DEF NoneWaits
<1> QED
  BY <1>2, <1>3 DEF r

-----------------------------------------------------------------------------
(***************************************************************************)
(* Lists and the products they are made of                                 *)
(***************************************************************************)

(* All opening times are past. *)
OpenedBy(v, t) ==
    \A i \in Items : v[i].listing # Null =>
        v[i].listing \in Listing /\ v[i].listing.opendate <= t

(* Lists that were just filled mirror the products. *)
LEMMA FilledListsMirror ==
  ASSUME NEW v, \A i \in Items : ~Partial(v[i]), NEW user, NEW t
  PROVE  Mirrors(ListsOf(v, user, t), v, user, t)
<1> DEFINE l == ListsOf(v, user, t)
           all == {ToAuctionItem(i, v[i]) : i \in {j \in Items : v[j] # NoProduct}}
<1>1. l.home \subseteq all /\ l.yours \subseteq all /\ l.won \subseteq all
  BY DEF ListsOf
<1>2. \A a, b \in all : a.uniqueKey = b.uniqueKey => a = b
  BY DEF ToAuctionItem
<1>3. OncePerProduct(l.home) /\ OncePerProduct(l.yours) /\ OncePerProduct(l.won)
  <2> HIDE DEF all, l
  <2> QED
    BY <1>1, <1>2 DEF OncePerProduct
<1>4. Unpriced_(l.home) \subseteq Unpriced_(all)
  <2> HIDE DEF all, l
  <2> QED
    BY <1>1 DEF Unpriced_
<1> QED
  BY <1>3, <1>4 DEF Mirrors

(* What has closed stays closed. *)
LEMMA ClosedStaysClosed ==
  ASSUME NEW product, product.listing \in Listing, NEW t \in Nat,
         product.listing.opendate <= t, IsNotClosed(product, t + 1)
  PROVE  IsNotClosed(product, t)
  BY DEF IsNotClosed, IsBetween, Listing

(* So lists that mirror products go on to do so while the clock runs. *)
LEMMA MirrorsLater ==
  ASSUME NEW v, NEW user, NEW t \in Nat, OpenedBy(v, t), NEW l, Mirrors(l, v, user, t)
  PROVE  Mirrors(l, v, user, t + 1)
<1> DEFINE m == ListsOf(v, user, t)
           n == ListsOf(v, user, t + 1)
<1>1. \A i \in Items : v[i] # NoProduct /\ IsNotClosed(v[i], t + 1) => IsNotClosed(v[i], t)
  <2> SUFFICES ASSUME NEW i \in Items, v[i] # NoProduct, IsNotClosed(v[i], t + 1)
               PROVE  IsNotClosed(v[i], t)
    OBVIOUS
  <2>1. v[i].listing # Null
    BY DEF Mirrors, Partial, Complete
  <2>2. v[i].listing \in Listing /\ v[i].listing.opendate <= t
    BY <2>1 DEF OpenedBy
  <2> QED
    BY <2>2, ClosedStaysClosed
<1>2. n.home \subseteq m.home /\ n.yours = m.yours /\ m.won \subseteq n.won
  BY <1>1 DEF ListsOf
<1> HIDE DEF m, n
<1>3. /\ Unpriced_(n.home) \subseteq Unpriced_(m.home)
      /\ Unpriced_(m.won) \subseteq Unpriced_(n.won)
  BY <1>2 DEF Unpriced_
<1>4. /\ Unpriced_(l.yours) = Unpriced_(m.yours)
      /\ Unpriced_(m.home) \subseteq Unpriced_(l.home)
      /\ Unpriced_(l.won) \subseteq Unpriced_(m.won)
  BY DEF Mirrors, m
<1>5. /\ Unpriced_(l.yours) = Unpriced_(n.yours)
      /\ Unpriced_(n.home) \subseteq Unpriced_(l.home)
      /\ Unpriced_(l.won) \subseteq Unpriced_(n.won)
  BY <1>2, <1>3, <1>4
<1> QED
  BY <1>5 DEF Mirrors, n

(* l and r have the same products, whatever their prices. *)
SameButPrices(l, r) ==
    /\ Unpriced_(r.home) = Unpriced_(l.home)
    /\ Unpriced_(r.yours) = Unpriced_(l.yours)
    /\ Unpriced_(r.won) = Unpriced_(l.won)
    /\ OncePerProduct(l.home) => OncePerProduct(r.home)
    /\ OncePerProduct(l.yours) => OncePerProduct(r.yours)
    /\ OncePerProduct(l.won) => OncePerProduct(r.won)

LEMMA MirrorsAtAnyPrice ==
  ASSUME NEW l, NEW r, SameButPrices(l, r), NEW v, NEW user, NEW t, Mirrors(l, v, user, t)
  PROVE  Mirrors(r, v, user, t)
  BY DEF Mirrors, SameButPrices

(* One element of a list gets another price. *)
LEMMA OnePriceChanges ==
  ASSUME NEW S \in SUBSET AuctionItem, NEW s \in S, NEW price \in Nat,
         NEW a, a = [s EXCEPT !.highestBidPrice = price],
         NEW R, R = (S \ {s}) \cup {a}
  PROVE  /\ a \in R
         /\ Unpriced_(R) = Unpriced_(S)
         /\ OncePerProduct(S) => OncePerProduct(R)
<1>1. a.uniqueKey = s.uniqueKey /\ Unpriced(a) = Unpriced(s)
  BY DEF Unpriced, AuctionItem
<1>2. Unpriced_(R) = Unpriced_(S)
  BY <1>1 DEF Unpriced_
<1>3. ASSUME OncePerProduct(S), NEW x \in R, NEW y \in R, x.uniqueKey = y.uniqueKey
      PROVE  x = y
  <2>1. x = a \/ (x \in S /\ x # s)
    OBVIOUS
  <2>2. y = a \/ (y \in S /\ y # s)
    OBVIOUS
  <2>3. \A z \in S : z.uniqueKey = a.uniqueKey => z = s
    BY <1>1, <1>3 DEF OncePerProduct
  <2> QED
    BY <1>3, <2>1, <2>2, <2>3 DEF OncePerProduct
<1> QED
  BY <1>2, <1>3 DEF OncePerProduct

(* A price goes into the selected item, and into the list it is listed in. *)
LEMMA PriceIsSet ==
  ASSUME TypeOK, NEW c \in Clients, selected[c] \in AuctionItem, SelectedIsListed(c),
         NEW price \in Nat, SetSelectedPrice(c, price), UNCHANGED selectedIn
  PROVE  /\ SameButPrices(lists[c], lists'[c])
         /\ SelectedIsListed(c)'
         /\ \A d \in Clients \ {c} : UNCHANGED <<lists[d], selected[d]>>
<1> DEFINE a == [selected[c] EXCEPT !.highestBidPrice = price]
           with(S) == (S \ {selected[c]}) \cup {a}
<1>1. selected' = [selected EXCEPT ![c] = a]
  BY DEF SetSelectedPrice
<1>2. selected'[c] = a /\ \A d \in Clients \ {c} : selected'[d] = selected[d]
  BY <1>1 DEF TypeOK
<1>3. /\ selectedIn[c] = "none"  => lists' = lists
      /\ selectedIn[c] = "home"  => lists' = [lists EXCEPT ![c].home = with(@)]
      /\ selectedIn[c] = "yours" => lists' = [lists EXCEPT ![c].yours = with(@)]
      /\ selectedIn[c] = "won"   => lists' = [lists EXCEPT ![c].won = with(@)]
  BY DEF SetSelectedPrice
<1>4. /\ selectedIn[c] \in {"none", "home", "yours", "won"}
      /\ selectedIn'[c] = selectedIn[c]
      /\ lists \in [Clients -> Lists] /\ lists[c] \in Lists
  BY DEF TypeOK
<1>5. /\ lists[c].home \in SUBSET AuctionItem
      /\ lists[c].yours \in SUBSET AuctionItem
      /\ lists[c].won \in SUBSET AuctionItem
  BY <1>4 DEF Lists
<1>6. ASSUME NEW S \in SUBSET AuctionItem, selected[c] \in S
      PROVE  /\ a \in with(S)
             /\ Unpriced_(with(S)) = Unpriced_(S)
             /\ OncePerProduct(S) => OncePerProduct(with(S))
  <2>1. with(S) = (S \ {selected[c]}) \cup {a}
    OBVIOUS
  <2> HIDE DEF with, a
  <2>2. a = [selected[c] EXCEPT !.highestBidPrice = price]
    BY DEF a
  <2> QED
    BY <1>6, <2>1, <2>2, OnePriceChanges
<1>7. /\ selectedIn[c] = "home" => selected[c] \in lists[c].home
      /\ selectedIn[c] = "yours" => selected[c] \in lists[c].yours
      /\ selectedIn[c] = "won" => selected[c] \in lists[c].won
  BY DEF SelectedIsListed
<1> HIDE DEF a, with
<1>8. CASE selectedIn[c] = "none"
  <2>1. lists' = lists
    BY <1>3, <1>8
  <2> QED
    BY <1>2, <1>4, <1>8, <2>1 DEF SameButPrices, SelectedIsListed
<1>9. CASE selectedIn[c] = "home"
  <2>1. /\ lists'[c].home = with(lists[c].home)
        /\ lists'[c].yours = lists[c].yours /\ lists'[c].won = lists[c].won
        /\ \A d \in Clients \ {c} : lists'[d] = lists[d]
    BY <1>3, <1>4, <1>9 DEF Lists
  <2>2. /\ a \in with(lists[c].home)
        /\ Unpriced_(with(lists[c].home)) = Unpriced_(lists[c].home)
        /\ OncePerProduct(lists[c].home) => OncePerProduct(with(lists[c].home))
    BY <1>5, <1>6, <1>7, <1>9
  <2> QED
    BY <1>2, <1>4, <1>9, <2>1, <2>2 DEF SameButPrices, SelectedIsListed
<1>10. CASE selectedIn[c] = "yours"
  <2>1. /\ lists'[c].yours = with(lists[c].yours)
        /\ lists'[c].home = lists[c].home /\ lists'[c].won = lists[c].won
        /\ \A d \in Clients \ {c} : lists'[d] = lists[d]
    BY <1>3, <1>4, <1>10 DEF Lists
  <2>2. /\ a \in with(lists[c].yours)
        /\ Unpriced_(with(lists[c].yours)) = Unpriced_(lists[c].yours)
        /\ OncePerProduct(lists[c].yours) => OncePerProduct(with(lists[c].yours))
    BY <1>5, <1>6, <1>7, <1>10
  <2> QED
    BY <1>2, <1>4, <1>10, <2>1, <2>2 DEF SameButPrices, SelectedIsListed
<1>11. CASE selectedIn[c] = "won"
  <2>1. /\ lists'[c].won = with(lists[c].won)
        /\ lists'[c].home = lists[c].home /\ lists'[c].yours = lists[c].yours
        /\ \A d \in Clients \ {c} : lists'[d] = lists[d]
    BY <1>3, <1>4, <1>11 DEF Lists
  <2>2. /\ a \in with(lists[c].won)
        /\ Unpriced_(with(lists[c].won)) = Unpriced_(lists[c].won)
        /\ OncePerProduct(lists[c].won) => OncePerProduct(with(lists[c].won))
    BY <1>5, <1>6, <1>7, <1>11
  <2> QED
    BY <1>2, <1>4, <1>11, <2>1, <2>2 DEF SameButPrices, SelectedIsListed
<1> QED
  BY <1>4, <1>8, <1>9, <1>10, <1>11

-----------------------------------------------------------------------------
(***************************************************************************)
(* The steps of the database                                               *)
(***************************************************************************)
DeviceMirrors(c) ==
    synced[c] => WillMirror(inbox[c], lists[c], view[c], SignedIn_UserName[c], now)

(* A step that concerns the device c. *)
LEMMA OthersMirror ==
  ASSUME NEW c \in Clients, \A d \in Clients : DeviceMirrors(d), UNCHANGED now,
         \A d \in Clients \ {c} : UNCHANGED <<view[d], synced[d], inbox[d], lists[d]>>,
         DeviceMirrors(c)'
  PROVE  \A d \in Clients : DeviceMirrors(d)'
  BY DEF DeviceMirrors

LEMMA SetValueMirrors ==
  ASSUME SyncTypeOK, \A d \in Clients : DeviceMirrors(d), UNCHANGED <<lists, now>>,
         NEW c \in Clients, NEW w \in Write, SetValue(c, w)
  PROVE  \A d \in Clients : DeviceMirrors(d)'
<1> DEFINE v == Apply(view[c], w)
<1>1. /\ view' = [view EXCEPT ![c] = v]
      /\ inbox' = [inbox EXCEPT ![c] = @ \o EventsOf(c, view[c], v)]
      /\ synced' = synced
  BY DEF SetValue
<1>2. view[c] \in Products_ /\ inbox[c] \in Seq(Event)
  BY DEF SyncTypeOK
<1>3. v \in Products_
  BY <1>2, ApplyType
<1> HIDE DEF v
<1>4. /\ view'[c] = v /\ inbox'[c] = inbox[c] \o EventsOf(c, view[c], v)
      /\ \A d \in Clients \ {c} : UNCHANGED <<view[d], synced[d], inbox[d], lists[d]>>
  BY <1>1 DEF SyncTypeOK
<1>5. DeviceMirrors(c)'
  <2>1. synced[c] => WillMirror(inbox'[c], lists[c], view'[c], SignedIn_UserName[c], now)
    BY <1>2, <1>3, <1>4, ChangeIsTold DEF DeviceMirrors
  <2> QED
    BY <1>1, <2>1 DEF DeviceMirrors
<1> QED
  BY <1>4, <1>5, OthersMirror

LEMMA SetTwoValuesMirrors ==
  ASSUME SyncTypeOK, \A d \in Clients : DeviceMirrors(d), UNCHANGED <<lists, now>>,
         NEW c \in Clients, NEW w1 \in Write, NEW w2 \in Write, SetTwoValues(c, w1, w2)
  PROVE  \A d \in Clients : DeviceMirrors(d)'
<1> DEFINE v1 == Apply(view[c], w1)
           v2 == Apply(v1, w2)
           q1 == inbox[c] \o EventsOf(c, view[c], v1)
<1>1. /\ view' = [view EXCEPT ![c] = v2]
      /\ inbox' = [inbox EXCEPT ![c] = (@ \o EventsOf(c, view[c], v1)) \o EventsOf(c, v1, v2)]
      /\ synced' = synced
  BY DEF SetTwoValues
<1>2. view[c] \in Products_ /\ inbox[c] \in Seq(Event)
  BY DEF SyncTypeOK
<1>3. v1 \in Products_
  BY <1>2, ApplyType
<1>4. v2 \in Products_
  <2> HIDE DEF v1
  <2> QED
    BY <1>3, ApplyType
<1> HIDE DEF v1, v2
<1>5. EventsOf(c, view[c], v1) \in Seq(Event)
  BY <1>2, <1>3, EventsOfType
<1>6. q1 \in Seq(Event)
  BY <1>2, <1>5
<1>7. /\ view'[c] = v2 /\ inbox'[c] = q1 \o EventsOf(c, v1, v2)
      /\ \A d \in Clients \ {c} : UNCHANGED <<view[d], synced[d], inbox[d], lists[d]>>
  BY <1>1 DEF SyncTypeOK
<1>8. synced[c] => WillMirror(q1, lists[c], v1, SignedIn_UserName[c], now)
  BY <1>2, <1>3, ChangeIsTold DEF DeviceMirrors
<1> HIDE DEF q1
<1>9. DeviceMirrors(c)'
  <2>1. synced[c] => WillMirror(inbox'[c], lists[c], view'[c], SignedIn_UserName[c], now)
    BY <1>3, <1>4, <1>6, <1>7, <1>8, ChangeIsTold DEF DeviceMirrors
  <2> QED
    BY <1>1, <2>1 DEF DeviceMirrors
<1> QED
  BY <1>7, <1>9, OthersMirror

LEMMA ReceiveWriteMirrors ==
  ASSUME SyncTypeOK, SyncTypeOK', \A d \in Clients : DeviceMirrors(d), UNCHANGED <<lists, now>>,
         NEW c \in Clients, ReceiveWrite(c)
  PROVE  \A d \in Clients : DeviceMirrors(d)'
<1>1. PICK v : /\ view' = [view EXCEPT ![c] = v]
               /\ inbox' = [inbox EXCEPT ![c] = @ \o EventsOf(c, view[c], v)]
               /\ synced' = synced
  BY DEF ReceiveWrite
<1>2. /\ view[c] \in Products_ /\ view'[c] \in Products_ /\ inbox[c] \in Seq(Event)
      /\ view'[c] = v /\ inbox'[c] = inbox[c] \o EventsOf(c, view[c], v)
      /\ \A d \in Clients \ {c} : UNCHANGED <<view[d], synced[d], inbox[d], lists[d]>>
  BY <1>1 DEF SyncTypeOK
<1>3. DeviceMirrors(c)'
  <2>1. synced[c] => WillMirror(inbox'[c], lists[c], view'[c], SignedIn_UserName[c], now)
    BY <1>2, ChangeIsTold DEF DeviceMirrors
  <2> QED
    BY <1>1, <2>1 DEF DeviceMirrors
<1> QED
  BY <1>2, <1>3, OthersMirror

LEMMA ReceiveSnapshotMirrors ==
  ASSUME SyncTypeOK, SyncTypeOK', \A d \in Clients : DeviceMirrors(d), UNCHANGED <<lists, now>>,
         NEW c \in Clients, ReceiveSnapshot(c)
  PROVE  \A d \in Clients : DeviceMirrors(d)'
<1>1. PICK v : /\ view' = [view EXCEPT ![c] = v]
               /\ inbox' = [inbox EXCEPT ![c] = @ \o (IF synced[c] THEN EventsOf(c, view[c], v)
                                                      ELSE <<ProductsEvent(v)>>)]
               /\ synced' = [synced EXCEPT ![c] = TRUE]
  BY DEF ReceiveSnapshot
<1>2. /\ view[c] \in Products_ /\ view'[c] \in Products_ /\ inbox[c] \in Seq(Event)
      /\ view'[c] = v
      /\ synced[c] => inbox'[c] = inbox[c] \o EventsOf(c, view[c], v)
      /\ ~synced[c] => inbox'[c] = inbox[c] \o <<ProductsEvent(v)>>
      /\ \A d \in Clients \ {c} : UNCHANGED <<view[d], synced[d], inbox[d], lists[d]>>
  BY <1>1 DEF SyncTypeOK
<1>3. CASE synced[c]
  <2>1. WillMirror(inbox'[c], lists[c], v, SignedIn_UserName[c], now)
    BY <1>2, <1>3, ChangeIsTold DEF DeviceMirrors
  <2>2. DeviceMirrors(c)'
    BY <1>2, <2>1 DEF DeviceMirrors
  <2> QED
    BY <1>2, <2>2, OthersMirror
<1>4. CASE ~synced[c]
  <2> DEFINE r == <<ProductsEvent(v)>>
  <2>1. r \in Seq(Event)
    BY <1>2, EventTypes
  <2>2. LastHas(r, v)
    BY DEF LastHas, ProductsEvent
  <2> HIDE DEF r
  <2>3. LastHas(inbox[c] \o r, v)
    BY <1>2, <2>1, <2>2, LastOfConcat
  <2>4. DeviceMirrors(c)'
    BY <1>2, <1>4, <2>3 DEF DeviceMirrors, WillMirror, r
  <2> QED
    BY <1>2, <2>4, OthersMirror
<1> QED
  BY <1>3, <1>4

LEMMA FirstEventMirrors ==
  ASSUME SyncTypeOK, \A d \in Clients : DeviceMirrors(d), UNCHANGED <<lists, now>>,
         NEW c \in Clients, NEW i \in Items, Observe(c, i) \/ ObserveSingleEvent(c, i)
  PROVE  \A d \in Clients : DeviceMirrors(d)'
<1> DEFINE e == DetailEvent({i}, view[c])
<1>1. inbox' = [inbox EXCEPT ![c] = Append(@, e)] /\ view' = view /\ synced' = synced
  BY DEF Observe, ObserveSingleEvent, FirstEvent
<1>2. e \in Event /\ e.observer = "detail"
  <2>1. view[c] \in Products_ /\ {i} \in SUBSET Items
    BY DEF SyncTypeOK
  <2>2. e \in Event
    BY <2>1, EventTypes
  <2> QED
    BY <2>2 DEF DetailEvent
<1> HIDE DEF e
<1>3. inbox[c] \in Seq(Event) /\ inbox'[c] = Append(inbox[c], e)
  BY <1>1 DEF SyncTypeOK
<1>4. \A d \in Clients \ {c} : UNCHANGED <<view[d], synced[d], inbox[d], lists[d]>>
  BY <1>1 DEF SyncTypeOK
<1>5. DeviceMirrors(c)'
  BY <1>1, <1>2, <1>3, DetailIsAppended DEF DeviceMirrors
<1> QED
  BY <1>4, <1>5, OthersMirror

-----------------------------------------------------------------------------
(***************************************************************************)
(* The callbacks                                                           *)
(***************************************************************************)
LEMMA ProductsCallbackMirrors ==
  ASSUME TypeOK, \A d \in Clients : DeviceMirrors(d), NEW c \in Clients, ProductsCallback(c)
  PROVE  \A d \in Clients : DeviceMirrors(d)'
<1> DEFINE e == Head(inbox[c])
           user == SignedIn_UserName[c]
           filled == ListsOf(e.snapshot, user, now)
<1>1. /\ inbox[c] # <<>> /\ inbox[c] \in Seq(Event) /\ inbox'[c] = Tail(inbox[c])
      /\ lists'[c] = filled /\ UNCHANGED <<now, view, synced>>
      /\ e.observer = "products"
      /\ \A i \in Items : ~Partial(e.snapshot[i])
      /\ \A d \in Clients \ {c} : UNCHANGED <<view[d], synced[d], inbox[d], lists[d]>>
  BY DEF ProductsCallback, TakeEvent, Refilled, TypeOK, SyncTypeOK
<1> HIDE DEF e
<1>2. Mirrors(filled, e.snapshot, user, now)
  BY <1>1, FilledListsMirror
<1> HIDE DEF filled
<1>3. ASSUME synced[c]
      PROVE  WillMirror(inbox'[c], lists'[c], view[c], user, now)
  <2>1. LastHas(inbox[c], view[c])
    BY <1>1, <1>3, EventIsTaken DEF DeviceMirrors, WillMirror, e
  <2>2. \/ LastHas(inbox'[c], view[c])
        \/ e.snapshot = view[c] /\ NoneWaits(inbox'[c])
    BY <1>1, <2>1, EventIsTaken DEF e
  <2> QED
    BY <1>1, <1>2, <2>2 DEF WillMirror
<1>4. DeviceMirrors(c)'
  BY <1>1, <1>3 DEF DeviceMirrors
<1> QED
  BY <1>1, <1>4, OthersMirror

LEMMA DetailCallbackMirrors ==
  ASSUME TypeOK, SelectionExists, \A d \in Clients : SelectedIsListed(d) /\ DeviceMirrors(d),
         NEW c \in Clients, DetailCallback(c)
  PROVE  \A d \in Clients : SelectedIsListed(d)' /\ DeviceMirrors(d)'
<1> DEFINE user == SignedIn_UserName[c]
<1>1. PICK price \in Nat : SetSelectedPrice(c, price)
  BY DetailCallbackType
<1>2. selected[c] \in AuctionItem
  BY DetailCallbackType
<1>3. /\ inbox[c] # <<>> /\ inbox[c] \in Seq(Event) /\ inbox'[c] = Tail(inbox[c])
      /\ Head(inbox[c]).observer # "products"
      /\ UNCHANGED <<now, view, synced, selectedIn>>
      /\ \A d \in Clients \ {c} : inbox'[d] = inbox[d]
  BY DEF DetailCallback, TakeEvent, TypeOK, SyncTypeOK
<1>4. /\ SameButPrices(lists[c], lists'[c])
      /\ SelectedIsListed(c)'
      /\ \A d \in Clients \ {c} : UNCHANGED <<lists[d], selected[d]>>
  BY <1>1, <1>2, <1>3, PriceIsSet
<1>5. ASSUME synced[c]
      PROVE  WillMirror(inbox'[c], lists'[c], view[c], user, now)
  <2>1. CASE LastHas(inbox[c], view[c])
    <3>1. LastHas(inbox'[c], view[c])
      BY <1>3, <2>1, EventIsTaken
    <3> QED
      BY <3>1 DEF WillMirror
  <2>2. CASE NoneWaits(inbox[c]) /\ Mirrors(lists[c], view[c], user, now)
    <3>1. NoneWaits(inbox'[c])
      BY <1>3, <2>2, EventIsTaken
    <3>2. Mirrors(lists'[c], view[c], user, now)
      BY <1>4, <2>2, MirrorsAtAnyPrice
    <3> QED
      BY <3>1, <3>2 DEF WillMirror
  <2> QED
    BY <1>5, <2>1, <2>2 DEF DeviceMirrors, WillMirror
<1>6. DeviceMirrors(c)'
  BY <1>3, <1>5 DEF DeviceMirrors
<1>7. \A d \in Clients \ {c} : UNCHANGED <<view[d], synced[d], inbox[d], lists[d]>>
  BY <1>3, <1>4
<1>8. \A d \in Clients : DeviceMirrors(d)'
  BY <1>3, <1>6, <1>7, OthersMirror
<1>9. \A d \in Clients \ {c} : SelectedIsListed(d)'
  BY <1>3, <1>4 DEF SelectedIsListed
<1> QED
  BY <1>4, <1>8, <1>9

LEMMA StopMirrors ==
  ASSUME TypeOK, \A d \in Clients : SelectedIsListed(d) /\ DeviceMirrors(d),
         UNCHANGED now, NEW c \in Clients, NEW s, Stop(c, s)
  PROVE  \A d \in Clients : SelectedIsListed(d)' /\ DeviceMirrors(d)'
<1>1. /\ ~synced'[c] /\ selectedIn'[c] = "none"
      /\ \A d \in Clients \ {c} :
           UNCHANGED <<view[d], synced[d], inbox[d], lists[d], selected[d], selectedIn[d]>>
  BY DEF Stop, EndProcess, TypeOK, SyncTypeOK
<1>2. DeviceMirrors(c)'
  BY <1>1 DEF DeviceMirrors
<1>3. \A d \in Clients : DeviceMirrors(d)'
  BY <1>1, <1>2, OthersMirror
<1>4. \A d \in Clients : SelectedIsListed(d)'
  BY <1>1 DEF SelectedIsListed
<1> QED
  BY <1>3, <1>4

LEMMA TickMirrors ==
  ASSUME TypeOK, AuctionInv, MirrorInv, Tick
  PROVE  \A d \in Clients : DeviceMirrors(d)'
<1> SUFFICES ASSUME NEW d \in Clients, synced[d]
             PROVE  WillMirror(inbox[d], lists[d], view[d], SignedIn_UserName[d], now + 1)
  BY DEF Tick, syncVars, DeviceMirrors
<1>1. WillMirror(inbox[d], lists[d], view[d], SignedIn_UserName[d], now)
  BY DEF MirrorInv
<1>2. OpenedBy(view[d], now)
  <2> SUFFICES ASSUME NEW i \in Items, view[d][i].listing # Null
               PROVE  view[d][i].listing \in Listing /\ view[d][i].listing.opendate <= now
    BY DEF OpenedBy
  <2>1. view[d][i].listing = opened[i]
    BY DEF AuctionInv, CopiesAreGenuine, GenuineProducts
  <2>2. opened[i] \in Listing
    BY <2>1 DEF TypeOK
  <2> QED
    BY <2>1, <2>2 DEF MirrorInv
<1>3. now \in Nat
  BY DEF TypeOK
<1>4. Mirrors(lists[d], view[d], SignedIn_UserName[d], now)
        => Mirrors(lists[d], view[d], SignedIn_UserName[d], now + 1)
  BY <1>2, <1>3, MirrorsLater
<1> QED
  BY <1>1, <1>4 DEF WillMirror

-----------------------------------------------------------------------------
(***************************************************************************)
(* All steps                                                               *)
(***************************************************************************)
LEMMA SelectMirrors ==
  ASSUME TypeOK, \A d \in Clients : SelectedIsListed(d), UNCHANGED lists,
         NEW c \in Clients, NEW t \in {"home", "yours", "won"},
         NEW a \in lists[c][t], Select(c, a, t)
  PROVE  \A d \in Clients : SelectedIsListed(d)'
<1>1. /\ selected'[c] = a /\ selectedIn'[c] = t
      /\ \A d \in Clients \ {c} : UNCHANGED <<selected[d], selectedIn[d]>>
  BY DEF Select, TypeOK
<1> QED
  BY <1>1 DEF SelectedIsListed

(* The lists follow the views in every step that opens no auction. *)
LEMMA DevicesStep ==
  ASSUME TypeOK, TypeOK', AuctionInv, MirrorInv, [Next]_vars
  PROVE  \A d \in Clients : SelectedIsListed(d)' /\ DeviceMirrors(d)'
<1> DEFINE Goal == \A d \in Clients : SelectedIsListed(d)' /\ DeviceMirrors(d)'
<1>1. /\ \A d \in Clients : SelectedIsListed(d)
      /\ \A d \in Clients : DeviceMirrors(d)
  BY DEF MirrorInv, DeviceMirrors
<1>2. SyncTypeOK /\ SyncTypeOK' /\ SelectionExists
  BY DEF TypeOK, AuctionInv
<1>3. ASSUME UNCHANGED <<lists, selected, selectedIn>>
      PROVE  \A d \in Clients : SelectedIsListed(d)'
  BY <1>1, <1>3 DEF SelectedIsListed
<1>4. ASSUME UNCHANGED <<lists, now, view, synced, inbox>>
      PROVE  \A d \in Clients : DeviceMirrors(d)'
  BY <1>1, <1>4 DEF DeviceMirrors
<1>5. ASSUME NEW c \in Clients, NEW i \in Items, NEW price \in Amounts,
             NEW closing \in 0..MaxTime, Submit_Auction(c, i, price, closing)
      PROVE  Goal
  <2> DEFINE l == [openby |-> SignedIn_UserName[c], opendate |-> CutToMinute(now),
                   closedate |-> CutToMinute(closing), startingprice |-> price]
  <2>1. l \in Listing
    BY CutType, AuctionAssumption DEF Listing, TypeOK
  <2>2. /\ SetValue(c, CreateProduct(i, l))
        /\ UNCHANGED <<lists, now, selected, selectedIn>>
    BY <1>5 DEF Submit_Auction
  <2> HIDE DEF l
  <2>3. \A d \in Clients : DeviceMirrors(d)'
    BY <1>1, <1>2, <2>1, <2>2, WriteTypes, SetValueMirrors
  <2> QED
    BY <1>3, <2>2, <2>3
<1>6. ASSUME NEW c \in Clients, NEW amount \in Amounts, Bid_Submit(c, amount)
      PROVE  Goal
  <2> DEFINE i == selected[c].uniqueKey
             user == SignedIn_UserName[c]
  <2>1. i \in Items
    BY <1>6 DEF Bid_Submit, AuctionInv, SelectionExists, AuctionItem
  <2>2. amount \in Nat /\ user \in Users
    BY AuctionAssumption
  <2>3. /\ SetTwoValues(c, SetPrice(i, amount), SetBidder(i, user))
        /\ UNCHANGED <<lists, now, selected, selectedIn>>
    BY <1>6 DEF Bid_Submit
  <2> HIDE DEF i, user
  <2>4. \A d \in Clients : DeviceMirrors(d)'
    BY <1>1, <1>2, <2>1, <2>2, <2>3, WriteTypes, SetTwoValuesMirrors
  <2> QED
    BY <1>3, <2>3, <2>4
<1>7. ASSUME NEW c \in Clients, Delete_Listing(c)
      PROVE  Goal
  <2>1. selected[c].uniqueKey \in Items
    BY <1>7 DEF Delete_Listing, AuctionInv, SelectionExists, AuctionItem
  <2>2. /\ SetValue(c, RemoveProduct(selected[c].uniqueKey))
        /\ UNCHANGED <<lists, now, selected, selectedIn>>
    BY <1>7 DEF Delete_Listing
  <2>3. \A d \in Clients : DeviceMirrors(d)'
    BY <1>1, <1>2, <2>1, <2>2, WriteTypes, SetValueMirrors
  <2> QED
    BY <1>3, <2>2, <2>3
<1>8. ASSUME NEW c \in Clients, NEW a \in lists[c].home, OpenBidScreen(c, a)
      PROVE  Goal
  <2>1. a.uniqueKey \in Items
    BY DEF TypeOK, Lists, AuctionItem
  <2>2. Observe(c, a.uniqueKey) /\ Select(c, a, "home") /\ UNCHANGED <<lists, now>>
    BY <1>8 DEF OpenBidScreen
  <2>3. \A d \in Clients : DeviceMirrors(d)'
    BY <1>1, <1>2, <2>1, <2>2, FirstEventMirrors
  <2>4. \A d \in Clients : SelectedIsListed(d)'
    BY <1>1, <2>2, SelectMirrors
  <2> QED
    BY <2>3, <2>4
<1>9. ASSUME NEW c \in Clients, NEW a \in lists[c].yours, OpenDeleteScreen(c, a)
      PROVE  Goal
  <2>1. a.uniqueKey \in Items
    BY DEF TypeOK, Lists, AuctionItem
  <2>2. ObserveSingleEvent(c, a.uniqueKey) /\ Select(c, a, "yours") /\ UNCHANGED <<lists, now>>
    BY <1>9 DEF OpenDeleteScreen
  <2>3. \A d \in Clients : DeviceMirrors(d)'
    BY <1>1, <1>2, <2>1, <2>2, FirstEventMirrors
  <2>4. \A d \in Clients : SelectedIsListed(d)'
    BY <1>1, <2>2, SelectMirrors
  <2> QED
    BY <2>3, <2>4
<1>10. ASSUME NEW c \in Clients, NEW a \in lists[c].won, SelectWon(c, a)
       PROVE  Goal
  <2>1. Select(c, a, "won") /\ UNCHANGED <<lists, now, view, synced, inbox>>
    BY <1>10 DEF SelectWon, syncVars
  <2>2. \A d \in Clients : SelectedIsListed(d)'
    BY <1>1, <2>1, SelectMirrors
  <2> QED
    BY <1>4, <2>1, <2>2
<1>11. ASSUME NEW c \in Clients,
              CloseBidScreen(c) \/ CloseDeleteScreen(c) \/ Launch(c) \/ UNCHANGED vars
       PROVE  Goal
  <2>1. UNCHANGED <<lists, now, view, synced, inbox, selected, selectedIn>>
    BY <1>11 DEF CloseBidScreen, CloseDeleteScreen, Launch, vars, syncVars, appVars
  <2> QED
    BY <1>3, <1>4, <2>1
<1>12. ASSUME NEW c \in Clients, ServerStep(c) \/ ConnectStep(c) \/ LoseConnection(c)
       PROVE  Goal
  <2>1. UNCHANGED <<lists, now, view, synced, inbox, selected, selectedIn>>
    BY <1>12
    DEF ServerStep, ConnectStep, LoseConnection, ServerApply, Connect, Disconnect, appVars
  <2> QED
    BY <1>3, <1>4, <2>1
<1>13. ASSUME NEW c \in Clients, ReceiveStep(c)
       PROVE  Goal
  <2>1. /\ ReceiveWrite(c) \/ ReceiveSnapshot(c)
        /\ UNCHANGED <<lists, now, selected, selectedIn>>
    BY <1>13 DEF ReceiveStep, appVars
  <2>2. \A d \in Clients : DeviceMirrors(d)'
    BY <1>1, <1>2, <2>1, ReceiveWriteMirrors, ReceiveSnapshotMirrors
  <2> QED
    BY <1>3, <2>1, <2>2
<1>14. ASSUME NEW c \in Clients, ProductsCallback(c)
       PROVE  Goal
  <2>1. \A d \in Clients : DeviceMirrors(d)'
    BY <1>1, <1>14, ProductsCallbackMirrors
  <2>2. /\ selectedIn'[c] = "none"
        /\ \A d \in Clients \ {c} : UNCHANGED <<lists[d], selected[d], selectedIn[d]>>
    BY <1>14 DEF ProductsCallback, TypeOK
  <2> QED
    BY <1>1, <2>1, <2>2 DEF SelectedIsListed
<1>15. ASSUME NEW c \in Clients, DetailCallback(c)
       PROVE  Goal
  BY <1>1, <1>2, <1>15, DetailCallbackMirrors
<1>16. ASSUME NEW c \in Clients, CallbackCrashes(c) \/ Kill(c)
       PROVE  Goal
  <2>1. now' = now /\ \E s : Stop(c, s)
    BY <1>16 DEF CallbackCrashes, Kill
  <2> QED
    BY <1>1, <2>1, StopMirrors
<1>17. ASSUME Tick
       PROVE  Goal
  <2>1. UNCHANGED <<lists, selected, selectedIn>>
    BY <1>17 DEF Tick
  <2> QED
    BY <1>3, <1>17, <2>1, TickMirrors
<1> HIDE DEF Goal
<1>18. ASSUME NEW c \in Clients, UserStep(c) \/ SystemStep(c) \/ FaultStep(c)
       PROVE  Goal
  BY <1>5, <1>6, <1>7, <1>8, <1>9, <1>10, <1>11, <1>12, <1>13, <1>14, <1>15, <1>16, <1>18
  DEF UserStep, SystemStep, CallbackStep, FaultStep
<1>19. ASSUME UNCHANGED vars
       PROVE  Goal
  <2>1. UNCHANGED <<lists, now, view, synced, inbox, selected, selectedIn>>
    BY <1>19 DEF vars, syncVars, appVars
  <2> QED
    BY <1>3, <1>4, <2>1 DEF Goal
<1>20. Goal
  BY <1>17, <1>18, <1>19 DEF Next
<1> QED
  BY <1>20 DEF Goal

LEMMA CutIsNotLater ==
  ASSUME NEW t \in Nat
  PROVE  CutToMinute(t) <= t
<1>1. t % TicksPerMinute \in Nat
  BY ProductsAssumption
<1> QED
  BY <1>1 DEF CutToMinute

(* An auction is opened at the time it is, cut to the minute. *)
LEMMA OpeningStep ==
  ASSUME TypeOK, [Next]_vars, \A i \in Items : opened[i] # Null => opened[i].opendate <= now
  PROVE  \A i \in Items : opened'[i] # Null => opened'[i].opendate <= now'
<1> DEFINE Goal == \A i \in Items : opened'[i] # Null => opened'[i].opendate <= now'
<1>1. ASSUME UNCHANGED <<opened, now>>
      PROVE  Goal
  BY <1>1
<1>2. ASSUME NEW c \in Clients, NEW i \in Items, NEW price \in Amounts,
             NEW closing \in 0..MaxTime, Submit_Auction(c, i, price, closing)
      PROVE  Goal
  <2> DEFINE l == [openby |-> SignedIn_UserName[c], opendate |-> CutToMinute(now),
                   closedate |-> CutToMinute(closing), startingprice |-> price]
  <2>1. opened' = [opened EXCEPT ![i] = l] /\ l.opendate = CutToMinute(now)
    BY <1>2 DEF Submit_Auction
  <2> HIDE DEF l
  <2>2. now \in Nat /\ now' = now
    BY <1>2 DEF Submit_Auction, TypeOK
  <2>3. CutToMinute(now) <= now
    BY <2>2, CutIsNotLater
  <2> QED
    BY <2>1, <2>2, <2>3 DEF TypeOK
<1>3. ASSUME Tick
      PROVE  Goal
  <2> SUFFICES ASSUME NEW i \in Items, opened[i] # Null
               PROVE  opened[i].opendate <= now + 1
    BY <1>3 DEF Tick
  <2>1. opened[i].opendate \in Nat /\ now \in Nat
    BY DEF TypeOK, Listing
  <2> QED
    BY <2>1
<1>4. ASSUME NEW c \in Clients, UserStep(c) \/ SystemStep(c) \/ FaultStep(c)
      PROVE  Goal
  <2>1. \/ UNCHANGED <<opened, now>>
        \/ \E i \in Items, price \in Amounts, closing \in 0..MaxTime :
               Submit_Auction(c, i, price, closing)
    BY <1>4
    DEF UserStep, SystemStep, FaultStep, CallbackStep, OpenBidScreen, CloseBidScreen,
        OpenDeleteScreen, CloseDeleteScreen, SelectWon, Bid_Submit, Delete_Listing,
        ProductsCallback, DetailCallback, CallbackCrashes, ServerStep, ReceiveStep,
        ConnectStep, LoseConnection, Kill, Launch, appVars
  <2> HIDE DEF Goal
  <2> QED
    BY <1>1, <1>2, <2>1
<1>5. ASSUME UNCHANGED vars
      PROVE  Goal
  BY <1>1, <1>5 DEF vars, appVars
<1> HIDE DEF Goal
<1>6. Goal
  BY <1>3, <1>4, <1>5 DEF Next
<1> QED
  BY <1>6 DEF Goal

LEMMA MirrorInit == Init => MirrorInv
<1> SUFFICES ASSUME Init PROVE MirrorInv
  OBVIOUS
<1>1. \A c \in Clients : ~synced[c] /\ selectedIn[c] = "none"
  BY DEF Init, SyncInit
<1>2. \A i \in Items : opened[i] # Null => opened[i].opendate <= now
  BY OpenedBeforeAssumption DEF Init
<1> QED
  BY <1>1, <1>2 DEF MirrorInv, SelectedIsListed

(* A device's lists are those of its view or will be when its last event   *)
(* of Products/ runs; no auction was opened later than now, so one that    *)
(* has closed stays closed.  (retrieveData of the tabs)                    *)
THEOREM MirrorInvariant == Spec => []MirrorInv
<1>1. TypeOK /\ TypeOK' /\ AuctionInv /\ MirrorInv /\ [Next]_vars => MirrorInv'
  BY DevicesStep, OpeningStep DEF MirrorInv, DeviceMirrors
<1> QED
  BY <1>1, MirrorInit, TypeCorrect, AuctionInvariant, PTL DEF Spec

(* When its main queue is empty, the lists of a running device are those   *)
(* of its view, whatever was selected and written meanwhile.               *)
(* (retrieveData of the tabs)                                              *)
THEOREM ListsMirrorTheViews == Spec => []ListsMirrorView
<1>1. MirrorInv => ListsMirrorView
  <2>1. \A v : ~LastHas(<<>>, v)
    BY DEF LastHas
  <2> QED
    BY <2>1 DEF MirrorInv, ListsMirrorView, WillMirror
<1> QED
  BY <1>1, MirrorInvariant, PTL
=============================================================================
