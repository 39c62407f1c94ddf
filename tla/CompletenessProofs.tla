------------------------- MODULE CompletenessProofs --------------------------
(***************************************************************************)
(* Two proofs, for any number of devices, users, items and amounts and any *)
(* clock: that nothing is partial before a delete, over any number of      *)
(* faults, and that a leader has paid, until the first fault.              *)
(*                                                                         *)
(* Nothing is partial: a product is written whole when it is opened, and a *)
(* bid sets a part of a product its device shows. The device shows it      *)
(* because the server has it, or because the device has just opened it;    *)
(* but nobody bids on an auction of one's own, so the server has it        *)
(* (AuctionInv). The server tells every device of a product before it      *)
(* tells of a bid on it, and an own write that is pending hides only parts *)
(* of a product that is shown already, so no view is ever left with a part *)
(* alone.                                                                  *)
(*                                                                         *)
(* A leader has paid: the two writes of a bid are taken in their order,    *)
(* the price first.  Only the creation of the listing could take the price *)
(* away between them, or after them; but as long as the creation waits for *)
(* the server nobody but the opener has heard of the listing, and he       *)
(* cannot bid on it.                                                       *)
(***************************************************************************)
EXTENDS AuctionHouseProofs, DatabaseSyncProofs

-----------------------------------------------------------------------------
(***************************************************************************)
(* Complete products                                                       *)
(***************************************************************************)
LEMMA CompleteByField ==
  ASSUME NEW product
  PROVE  Complete(product) <=> \A f \in Fields : product[f] # Null
  BY DEF Complete, Fields

LEMMA ThereIsComplete ==
  ASSUME NEW product
  PROVE  IsThere(product) /\ ~Partial(product) <=> Complete(product)
  BY DEF IsThere, Partial, Complete, NoProduct

LEMMA OverlayComplete ==
  ASSUME NEW old, NEW new, NEW fs,
         \A f \in Fields : IF f \in fs THEN new[f] # Null ELSE old[f] # Null
  PROVE  Complete(Overlay(old, new, fs))
  BY OverlayField, CompleteByField

NonePartial(p) == \A i \in Items : ~Partial(p[i])

Grows(v, u) == \A i \in Items : IsThere(v[i]) => IsThere(u[i])

(* Some fields of a write go into a product that is there, or all of them. *)
LEMMA PartOfAWrite ==
  ASSUME NEW v \in Products_, NonePartial(v), NEW w \in Write, SetsValues(w),
         NEW fs \in SUBSET w.sets, fs = Fields \/ IsThere(v[w.item]),
         NEW u, u[w.item] = Overlay(v[w.item], w.to, fs),
         \A i \in Items : i # w.item => u[i] = v[i]
  PROVE  /\ IsThere(u[w.item])
         /\ Grows(v, u)
         /\ NonePartial(u)
<1>1. w.item \in Items
  BY DEF Write
<1>3. \A f \in Fields : IF f \in fs THEN w.to[f] # Null ELSE v[w.item][f] # Null
  <2>1. \A f \in fs : w.to[f] # Null
    BY DEF SetsValues
  <2>2. fs = Fields \/ Complete(v[w.item])
    BY <1>1, ThereIsComplete DEF NonePartial
  <2> QED
    BY <2>1, <2>2, CompleteByField
<1>4. IsThere(u[w.item]) /\ ~Partial(u[w.item])
  BY <1>3, OverlayComplete, ThereIsComplete
<1> QED
  BY <1>4 DEF Grows, NonePartial

LEMMA WholeWrite ==
  ASSUME NEW v \in Products_, NonePartial(v), NEW w \in Write, SetsValues(w),
         w.sets = Fields \/ IsThere(v[w.item])
  PROVE  /\ IsThere(Apply(v, w)[w.item])
         /\ \A i \in Items : i # w.item => Apply(v, w)[i] = v[i]
         /\ Grows(v, Apply(v, w))
         /\ NonePartial(Apply(v, w))
<1> DEFINE u == Apply(v, w)
<1>1. /\ u[w.item] = Overlay(v[w.item], w.to, w.sets)
      /\ \A i \in Items : i # w.item => u[i] = v[i]
      /\ w.sets \in SUBSET w.sets
  BY DEF Apply, Write, Products_
<1> HIDE DEF u
<1>2. /\ IsThere(u[w.item])
      /\ Grows(v, u)
      /\ NonePartial(u)
  BY <1>1, PartOfAWrite
<1> QED
  BY <1>1, <1>2 DEF u

-----------------------------------------------------------------------------
(***************************************************************************)
(* A device writes                                                         *)
(***************************************************************************)
LEMMA CreatesAppend ==
  ASSUME NEW q \in Queue, NEW w \in Write, NEW i
  PROVE  /\ Creates(q, i) => Creates(Append(q, w), i)
         /\ w.item = i /\ w.sets = Fields => Creates(Append(q, w), i)
<1> DEFINE r == Append(q, w)
           l == Len(q) + 1
<1>1. /\ Unanswered(r) = Unanswered(q) \cup {l}
      /\ \A k \in Unanswered(q) : r[k] = q[k]
      /\ r[l] = w
  BY QueueAppend
<1> HIDE DEF r, l
<1>2. /\ Creates(q, i) => Creates(r, i)
      /\ w.item = i /\ w.sets = Fields => Creates(r, i)
  BY <1>1 DEF Creates
<1> QED
  BY <1>2 DEF r

LEMMA MessageTypes ==
  ASSUME NEW s \in Seq(Message), NEW n \in DOMAIN s
  PROVE  /\ s[n].kind = "snapshot" => s[n].products \in Products_
         /\ s[n].kind # "snapshot" => /\ s[n].kind = "write"
                                      /\ s[n].write \in Write
                                      /\ s[n].write.item \in Items
<1>1. s[n] \in Message
  OBVIOUS
<1> QED
  BY <1>1 DEF Message, Write

(* What a device may write: a product of its user, whole, or a part of one *)
(* that the server has and the device shows.                               *)
MayWrite(w, v, p, user) ==
    /\ SetsValues(w)
    /\ IF w.sets = Fields THEN w.to.listing.openby = user
                          ELSE IsThere(p[w.item]) /\ IsThere(v[w.item])

LEMMA OwnWriteComplete ==
  ASSUME NEW q \in Queue, NEW v \in Products_, NEW s \in Seq(Message), NEW p, NEW user,
         NEW w \in Write, MayWrite(w, v, p, user),
         ViewComplete(q, v, p), WritesComplete(q, v, p, user), MessagesComplete(q, v, s, p)
  PROVE  /\ Grows(v, Apply(v, w))
         /\ NonePartial(Apply(v, w))
         /\ ViewComplete(Append(q, w), Apply(v, w), p)
         /\ WritesComplete(Append(q, w), Apply(v, w), p, user)
         /\ MessagesComplete(Append(q, w), Apply(v, w), s, p)
<1> DEFINE u == Apply(v, w)
           r == Append(q, w)
<1>1. NonePartial(v)
  BY DEF ViewComplete, NonePartial
<1>2. /\ IsThere(u[w.item])
      /\ \A i \in Items : i # w.item => u[i] = v[i]
      /\ Grows(v, u)
      /\ NonePartial(u)
  BY <1>1, WholeWrite DEF MayWrite
<1>3. \A i \in Items : Creates(q, i) => Creates(r, i)
  BY CreatesAppend
<1>4. \A i \in Items : IsThere(u[i]) => IsThere(v[i]) \/ Creates(r, i)
  <2> SUFFICES ASSUME NEW i \in Items, IsThere(u[i]), ~IsThere(v[i])
               PROVE  Creates(r, i)
    OBVIOUS
  <2>1. i = w.item
    BY <1>2
  <2>2. w.sets = Fields
    BY <2>1 DEF MayWrite
  <2> QED
    BY <2>1, <2>2, CreatesAppend
<1>5. /\ Unanswered(r) = Unanswered(q) \cup {Len(q) + 1}
      /\ \A k \in Unanswered(q) : r[k] = q[k] /\ q[k] \in Write
      /\ r[Len(q) + 1] = w
  <2>1. \A k \in Unanswered(q) : q[k] \in Write
    BY DEF Unanswered, Queue
  <2> QED
    BY <2>1, QueueAppend
<1> HIDE DEF u, r
<1>6. ViewComplete(r, u, p)
  BY <1>2, <1>3, <1>4 DEF ViewComplete, NonePartial
<1>7. WritesComplete(r, u, p, user)
  <2> SUFFICES ASSUME NEW k \in Unanswered(r)
               PROVE  /\ SetsValues(r[k])
                      /\ IsThere(u[r[k].item])
                      /\ IF r[k].sets = Fields THEN r[k].to.listing.openby = user
                                               ELSE IsThere(p[r[k].item])
    BY DEF WritesComplete
  <2>1. CASE k \in Unanswered(q)
    <3>1. r[k] = q[k] /\ q[k].item \in Items
      BY <1>5, <2>1 DEF Write
    <3> QED
      BY <1>2, <2>1, <3>1 DEF WritesComplete, Grows
  <2>2. CASE k = Len(q) + 1
    BY <1>2, <1>5, <2>2 DEF MayWrite
  <2> QED
    BY <1>5, <2>1, <2>2
<1>8. MessagesComplete(r, u, s, p)
  <2> SUFFICES ASSUME NEW n \in DOMAIN s
               PROVE  IF s[n].kind = "snapshot"
                      THEN n = 1 /\ SnapshotComplete(r, u, s[n].products, p)
                      ELSE /\ SetsValues(s[n].write) /\ IsThere(p[s[n].write.item])
                           /\ Arrives(u, s, n, s[n].write.item)
    BY DEF MessagesComplete
  <2>1. CASE s[n].kind = "snapshot"
    <3>1. n = 1 /\ SnapshotComplete(q, v, s[n].products, p)
      BY <2>1 DEF MessagesComplete
    <3> QED
      BY <1>3, <1>4, <2>1, <3>1 DEF SnapshotComplete
  <2>2. CASE s[n].kind # "snapshot"
    <3>1. /\ SetsValues(s[n].write) /\ IsThere(p[s[n].write.item])
          /\ Arrives(v, s, n, s[n].write.item)
      BY <2>2 DEF MessagesComplete
    <3>2. IsThere(v[s[n].write.item]) => IsThere(u[s[n].write.item])
      BY <1>2, <2>2, MessageTypes DEF Grows
    <3> QED
      BY <2>2, <3>1, <3>2 DEF Arrives
  <2> QED
    BY <2>1, <2>2
<1> QED
  BY <1>2, <1>6, <1>7, <1>8 DEF u, r

-----------------------------------------------------------------------------
(***************************************************************************)
(* The server takes a write and sends it                                   *)
(***************************************************************************)
LEMMA ServerGrows ==
  ASSUME NEW p, NEW o, Grows(p, o), NEW q \in Queue, NEW v \in Products_,
         NEW s \in Seq(Message), NEW user,
         ViewComplete(q, v, p), WritesComplete(q, v, p, user), MessagesComplete(q, v, s, p)
  PROVE  ViewComplete(q, v, o) /\ WritesComplete(q, v, o, user) /\ MessagesComplete(q, v, s, o)
<1>1. ViewComplete(q, v, o)
  BY DEF ViewComplete, Grows
<1>2. WritesComplete(q, v, o, user)
  <2>1. \A k \in Unanswered(q) : q[k].item \in Items
    BY DEF Unanswered, Queue, Write
  <2> QED
    BY <2>1 DEF WritesComplete, Grows
<1>3. MessagesComplete(q, v, s, o)
  <2> SUFFICES ASSUME NEW n \in DOMAIN s
               PROVE  IF s[n].kind = "snapshot"
                      THEN n = 1 /\ SnapshotComplete(q, v, s[n].products, o)
                      ELSE /\ SetsValues(s[n].write) /\ IsThere(o[s[n].write.item])
                           /\ Arrives(v, s, n, s[n].write.item)
    BY DEF MessagesComplete
  <2>1. CASE s[n].kind = "snapshot"
    BY <2>1 DEF MessagesComplete, SnapshotComplete, Grows
  <2>2. CASE s[n].kind # "snapshot"
    BY <2>2, MessageTypes DEF MessagesComplete, Grows
  <2> QED
    BY <2>1, <2>2
<1> QED
  BY <1>1, <1>2, <1>3

LEMMA ArrivesAppend ==
  ASSUME NEW s \in Seq(Message), NEW m \in Message, NEW v, NEW i, NEW n \in Nat, NEW k \in Nat,
         n <= k
  PROVE  /\ Arrives(v, s, n, i) => Arrives(v, Append(s, m), k, i)
         /\ Brings(m, i) => Arrives(v, Append(s, m), Len(s) + 1, i)
<1>1. /\ DOMAIN Append(s, m) = DOMAIN s \cup {Len(s) + 1}
      /\ Append(s, m)[Len(s) + 1] = m
      /\ \A j \in DOMAIN s : j \in Nat /\ Append(s, m)[j] = s[j]
      /\ Len(s) \in Nat
  BY AppendOf
<1> DEFINE r == Append(s, m)
<1> HIDE DEF r
<1>2. /\ Arrives(v, s, n, i) => Arrives(v, r, k, i)
      /\ Brings(m, i) => Arrives(v, r, Len(s) + 1, i)
  BY <1>1 DEF Arrives, r
<1> QED
  BY <1>2 DEF r

(* The server's products go from p to o by w. *)
Taken(p, o, w) == IsThere(o[w.item]) /\ \A i \in Items : i # w.item => o[i] = p[i]

LEMMA SentComplete ==
  ASSUME NEW q, NEW v, NEW s \in Seq(Message), NEW p, NEW o, Grows(p, o),
         NEW m \in Message, m.kind = "write", SetsValues(m.write),
         m.write.sets = Fields \/ IsThere(p[m.write.item]), Taken(p, o, m.write),
         MessagesComplete(q, v, s, o), AllArrive(v, s, p)
  PROVE  MessagesComplete(q, v, Append(s, m), o) /\ AllArrive(v, Append(s, m), o)
<1> DEFINE r == Append(s, m)
           l == Len(s) + 1
<1>1. /\ DOMAIN r = DOMAIN s \cup {l} /\ r[l] = m /\ Len(r) = l
      /\ \A n \in DOMAIN s : n \in Nat /\ r[n] = s[n]
      /\ Len(s) \in Nat /\ l \in Nat /\ Len(s) <= l
  BY AppendOf
<1>2. m.write.item \in Items
  BY DEF Message, Write
<1>3. \A i \in Items : IsThere(o[i]) => Arrives(v, r, l, i)
  <2> SUFFICES ASSUME NEW i \in Items, IsThere(o[i])
               PROVE  Arrives(v, r, l, i)
    OBVIOUS
  <2>1. CASE IsThere(p[i])
    BY <1>1, <2>1, ArrivesAppend DEF AllArrive
  <2>2. CASE ~IsThere(p[i])
    <3>1. m.write.item = i /\ m.write.sets = Fields
      BY <2>2 DEF Taken
    <3>2. Brings(m, i)
      BY <3>1 DEF Brings
    <3> QED
      BY <1>1, <3>2, ArrivesAppend
  <2> QED
    BY <2>1, <2>2
<1>4. \A n \in DOMAIN s, i \in Items : Arrives(v, s, n, i) => Arrives(v, r, n, i)
  BY <1>1, ArrivesAppend
<1> HIDE DEF r, l
<1>5. MessagesComplete(q, v, r, o)
  <2> SUFFICES ASSUME NEW n \in DOMAIN r
               PROVE  IF r[n].kind = "snapshot"
                      THEN n = 1 /\ SnapshotComplete(q, v, r[n].products, o)
                      ELSE /\ SetsValues(r[n].write) /\ IsThere(o[r[n].write.item])
                           /\ Arrives(v, r, n, r[n].write.item)
    BY DEF MessagesComplete
  <2>1. CASE n \in DOMAIN s /\ s[n].kind = "snapshot"
    BY <1>1, <2>1 DEF MessagesComplete
  <2>2. CASE n \in DOMAIN s /\ s[n].kind # "snapshot"
    BY <1>1, <1>4, <2>2, MessageTypes DEF MessagesComplete
  <2>3. CASE n = l
    BY <1>1, <1>2, <1>3, <2>3 DEF Taken
  <2> QED
    BY <1>1, <2>1, <2>2, <2>3
<1>6. AllArrive(v, r, o)
  BY <1>1, <1>3 DEF AllArrive
<1> QED
  BY <1>5, <1>6 DEF r

-----------------------------------------------------------------------------
(***************************************************************************)
(* A message arrives                                                       *)
(***************************************************************************)
(* r is the queue q without its answered writes, all of them w. *)
Answered(q, r, w) ==
    /\ Unanswered(r) \subseteq Unanswered(q)
    /\ \A k \in Unanswered(r) : r[k] = q[k]
    /\ \A k \in Unanswered(q) \ Unanswered(r) : q[k] = w

(* The view goes from v to u, by what q does not hide of w. *)
Changed(q, v, u, w) ==
    /\ u[w.item] = Overlay(v[w.item], w.to, w.sets \ Shadowed(q, w.item))
    /\ \A i \in Items : i # w.item => u[i] = v[i]

Brought(m, u) == \A i \in Items : Brings(m, i) => IsThere(u[i])

LEMMA NothingHidden ==
  ASSUME NEW q, NEW v, NEW p, NEW user, WritesComplete(q, v, p, user),
         NEW i, ~IsThere(v[i])
  PROVE  Shadowed(q, i) = {}
  BY DEF WritesComplete, Shadowed

LEMMA ArrivesTail ==
  ASSUME NEW s \in Seq(Message), s # <<>>, NEW v, NEW u, Grows(v, u), NEW i \in Items,
         Brings(Head(s), i) => IsThere(u[i]), NEW n \in Nat, Arrives(v, s, n + 1, i)
  PROVE  Arrives(u, Tail(s), n, i)
<1>1. CASE IsThere(v[i])
  BY <1>1 DEF Arrives, Grows
<1>2. CASE ~IsThere(v[i])
  <2>1. PICK j \in DOMAIN s : j <= n + 1 /\ Brings(s[j], i)
    BY <1>2 DEF Arrives
  <2>2. CASE j = 1
    BY <2>1, <2>2, TailOf DEF Arrives
  <2>3. CASE j # 1
    <3>1. j \in Nat /\ j - 1 \in DOMAIN Tail(s) /\ Tail(s)[j - 1] = s[j]
      BY <2>3, TailOf
    <3>2. j - 1 <= n
      BY <2>1, <3>1
    <3> QED
      BY <2>1, <3>1, <3>2 DEF Arrives
  <2> QED
    BY <2>2, <2>3
<1> QED
  BY <1>1, <1>2

LEMMA TailComplete ==
  ASSUME NEW q, NEW v, NEW s \in Seq(Message), s # <<>>, NEW p, MessagesComplete(q, v, s, p),
         NEW u, Grows(v, u), Brought(Head(s), u), NEW r
  PROVE  /\ MessagesComplete(r, u, Tail(s), p)
         /\ AllArrive(v, s, p) => AllArrive(u, Tail(s), p)
<1> DEFINE t == Tail(s)
<1>1. \A n \in DOMAIN t : n \in Nat /\ n + 1 \in DOMAIN s /\ n + 1 > 1 /\ t[n] = s[n + 1]
  BY TailOf
<1>2. Len(t) \in Nat /\ Len(s) = Len(t) + 1
  BY HeadTailProperties
<1>3. \A i \in Items : Arrives(v, s, Len(s), i) => Arrives(u, t, Len(t), i)
  BY <1>2, ArrivesTail DEF Brought
<1>4. \A n \in DOMAIN t, i \in Items : Arrives(v, s, n + 1, i) => Arrives(u, t, n, i)
  BY <1>1, ArrivesTail DEF Brought
<1> HIDE DEF t
<1>5. ASSUME NEW n \in DOMAIN t
      PROVE  /\ t[n].kind # "snapshot"
             /\ SetsValues(t[n].write) /\ IsThere(p[t[n].write.item])
             /\ Arrives(u, t, n, t[n].write.item)
  <2>1. n + 1 \in DOMAIN s /\ n + 1 # 1 /\ t[n] = s[n + 1]
    BY <1>1
  <2>2. /\ s[n + 1].kind # "snapshot"
        /\ SetsValues(s[n + 1].write) /\ IsThere(p[s[n + 1].write.item])
        /\ Arrives(v, s, n + 1, s[n + 1].write.item)
    BY <2>1 DEF MessagesComplete
  <2>3. s[n + 1].write.item \in Items
    BY <2>1, <2>2, MessageTypes
  <2> QED
    BY <1>4, <2>1, <2>2, <2>3
<1>6. MessagesComplete(r, u, t, p)
  BY <1>5 DEF MessagesComplete
<1> QED
  BY <1>3, <1>6 DEF AllArrive, t

(* A change arrives; r is the queue without the write it answers.          *)
LEMMA ChangeComplete ==
  ASSUME NEW q \in Queue, NEW v \in Products_, NEW s \in Seq(Message), s # <<>>, NEW p,
         NEW user, NEW r, NEW u, NEW m \in Message, m = Head(s), m.kind = "write",
         Answered(q, r, m.write), Changed(q, v, u, m.write),
         ViewComplete(q, v, p), WritesComplete(q, v, p, user), MessagesComplete(q, v, s, p)
  PROVE  /\ Grows(v, u)
         /\ NonePartial(u)
         /\ ViewComplete(r, u, p)
         /\ WritesComplete(r, u, p, user)
         /\ Brought(m, u)
<1> DEFINE w == m.write
           fs == w.sets \ Shadowed(q, w.item)
<1>1. w \in Write /\ w.item \in Items
  BY DEF Message, Write
<1>2. 1 \in DOMAIN s /\ s[1] = m
  BY TailOf
<1>3. SetsValues(w) /\ IsThere(p[w.item]) /\ Arrives(v, s, 1, w.item)
  BY <1>2 DEF MessagesComplete
<1>4. IsThere(v[w.item]) \/ w.sets = Fields
  <2> SUFFICES ASSUME ~IsThere(v[w.item])
               PROVE  w.sets = Fields
    OBVIOUS
  <2>1. PICK j \in DOMAIN s : j <= 1 /\ Brings(s[j], w.item)
    BY <1>3 DEF Arrives
  <2>2. j = 1
    BY <2>1, TailOf
  <2> QED
    BY <1>2, <2>1, <2>2 DEF Brings
<1>5. fs = Fields \/ IsThere(v[w.item])
  BY <1>4, NothingHidden
<1>6. NonePartial(v)
  BY DEF ViewComplete, NonePartial
<1> HIDE DEF w
<1>7. IsThere(u[w.item]) /\ Grows(v, u) /\ NonePartial(u)
  <2>1. /\ u[w.item] = Overlay(v[w.item], w.to, fs)
        /\ \A i \in Items : i # w.item => u[i] = v[i]
        /\ fs \in SUBSET w.sets
    BY DEF w, Changed
  <2> HIDE DEF fs
  <2> QED
    BY <1>1, <1>3, <1>5, <1>6, <2>1, PartOfAWrite
<1>8. ViewComplete(r, u, p)
  <2> SUFFICES ASSUME NEW i \in Items, IsThere(u[i]), ~IsThere(p[i])
               PROVE  Creates(r, i)
    BY <1>7 DEF ViewComplete, NonePartial
  <2>1. i # w.item
    BY <1>3
  <2>2. Creates(q, i)
    BY <2>1 DEF ViewComplete, Changed, w
  <2>3. PICK k \in Unanswered(q) : q[k].item = i /\ q[k].sets = Fields
    BY <2>2 DEF Creates
  <2>4. k \in Unanswered(r)
    BY <2>1, <2>3 DEF Answered, w
  <2> QED
    BY <2>3, <2>4 DEF Answered, Creates
<1>9. WritesComplete(r, u, p, user)
  <2>1. \A k \in Unanswered(q) : q[k].item \in Items
    BY DEF Unanswered, Queue, Write
  <2> QED
    BY <1>7, <2>1 DEF Answered, WritesComplete, Grows
<1>10. Brought(m, u)
  BY <1>7 DEF Brought, Brings, w
<1> QED
  BY <1>7, <1>8, <1>9, <1>10

(* The view goes from v to u, by what q does not hide of prods. *)
Replaced(q, v, u, prods) ==
    \A i \in Items : u[i] = Overlay(v[i], prods[i], Fields \ Shadowed(q, i))

(* All of Products/ arrives.                                               *)
LEMMA ListenComplete ==
  ASSUME NEW q, NEW v \in Products_, NEW s \in Seq(Message), s # <<>>, NEW p,
         NEW user, NEW u, NEW m \in Message, m = Head(s), m.kind = "snapshot",
         Replaced(q, v, u, m.products),
         ViewComplete(q, v, p), WritesComplete(q, v, p, user), MessagesComplete(q, v, s, p)
  PROVE  /\ Grows(v, u)
         /\ NonePartial(u)
         /\ ViewComplete(q, u, p)
         /\ Brought(m, u)
<1> DEFINE x == m.products
<1>1. 1 \in DOMAIN s /\ s[1] = m /\ x \in Products_
  BY TailOf DEF Message
<1>2. SnapshotComplete(q, v, x, p)
  BY <1>1 DEF MessagesComplete
<1> HIDE DEF x
<1>3. ASSUME NEW i \in Items
      PROVE  /\ ~Partial(u[i])
             /\ IsThere(u[i]) <=> IsThere(v[i]) \/ IsThere(x[i])
  <2>1. /\ IsThere(v[i]) => Complete(v[i])
        /\ IsThere(x[i]) => Complete(x[i])
    BY <1>2, ThereIsComplete DEF ViewComplete, SnapshotComplete
  <2>2. u[i] = Overlay(v[i], x[i], Fields \ Shadowed(q, i))
    BY DEF x, Replaced
  <2>3. CASE IsThere(v[i]) /\ IsThere(x[i])
    <3>1. \A f \in Fields : v[i][f] # Null /\ x[i][f] # Null
      BY <2>1, <2>3, CompleteByField
    <3>2. Complete(u[i])
      BY <2>2, <3>1, OverlayComplete
    <3> QED
      BY <2>3, <3>2, ThereIsComplete
  <2>4. CASE IsThere(v[i]) /\ ~IsThere(x[i])
    <3>1. Creates(q, i)
      BY <1>2, <2>4 DEF SnapshotComplete
    <3>2. \A f \in Fields : f \in Shadowed(q, i)
      BY <3>1 DEF Creates, Shadowed
    <3>3. \A f \in Fields : v[i][f] # Null
      BY <2>1, <2>4, CompleteByField
    <3>4. Complete(u[i])
      BY <2>2, <3>2, <3>3, OverlayComplete
    <3> QED
      BY <2>4, <3>4, ThereIsComplete
  <2>5. CASE ~IsThere(v[i]) /\ IsThere(x[i])
    <3>1. Fields \ Shadowed(q, i) = Fields
      BY <2>5, NothingHidden
    <3>2. \A f \in Fields : x[i][f] # Null
      BY <2>1, <2>5, CompleteByField
    <3>3. Complete(u[i])
      BY <2>2, <3>1, <3>2, OverlayComplete
    <3> QED
      BY <2>5, <3>3, ThereIsComplete
  <2>6. CASE ~IsThere(v[i]) /\ ~IsThere(x[i])
    <3>1. v[i] = NoProduct /\ x[i] = NoProduct
      BY <2>6 DEF IsThere
    <3>2. u[i] = NoProduct
      BY <2>2, <3>1 DEF Overlay, NoProduct
    <3> QED
      BY <2>6, <3>2 DEF Partial, IsThere
  <2> QED
    BY <2>3, <2>4, <2>5, <2>6
<1>4. ViewComplete(q, u, p)
  BY <1>2, <1>3 DEF ViewComplete, SnapshotComplete
<1>5. Brought(m, u)
  BY <1>3 DEF Brought, Brings, x
<1> QED
  BY <1>3, <1>4, <1>5 DEF Grows, NonePartial


LEMMA WritesGrow ==
  ASSUME NEW q \in Queue, NEW v, NEW u, Grows(v, u), NEW p, NEW user,
         WritesComplete(q, v, p, user)
  PROVE  WritesComplete(q, u, p, user)
<1>1. \A k \in Unanswered(q) : q[k].item \in Items
  BY DEF Unanswered, Queue, Write
<1> QED
  BY <1>1 DEF WritesComplete, Grows

-----------------------------------------------------------------------------
(***************************************************************************)
(* The events of a change                                                  *)
(***************************************************************************)
EventComplete(y, v) ==
    /\ \A i \in Items : ~Partial(y.snapshot[i]) /\ (IsThere(y.snapshot[i]) => IsThere(v[i]))
    /\ y.observer = "detail" => \A i \in y.items : IsThere(y.snapshot[i])

LEMMA EventsRestated ==
  ASSUME NEW v, NEW e, NEW seen
  PROVE  EventsComplete(v, e, seen) <=> /\ \A i \in seen : IsThere(v[i])
                                        /\ \A y \in Elements(e) : EventComplete(y, v)
  BY DEF EventsComplete, EventComplete, Elements

(* The events in x are those of observers in seen, of the view u. *)
News(x, u, seen) ==
    \A y \in Elements(x) : /\ y.snapshot = u
                           /\ y.observer = "detail" => y.items \subseteq seen

LEMMA EventsGrow ==
  ASSUME NEW v, NEW u, Grows(v, u), NonePartial(u), NEW seen \in SUBSET Items,
         NEW e \in Seq(Event), EventsComplete(v, e, seen), NEW x \in Seq(Event),
         News(x, u, seen)
  PROVE  EventsComplete(u, e \o x, seen)
<1>1. \A i \in seen : IsThere(u[i])
  BY EventsRestated DEF Grows
<1>2. \A y \in Elements(e) : EventComplete(y, u)
  BY EventsRestated DEF EventComplete, Grows
<1>3. \A y \in Elements(x) : EventComplete(y, u)
  BY <1>1 DEF News, EventComplete, NonePartial
<1>4. Elements(e \o x) = Elements(e) \cup Elements(x)
  BY ElementsOfEventConcat
<1> QED
  BY <1>1, <1>2, <1>3, <1>4, EventsRestated

LEMMA EventsOfChange ==
  ASSUME NEW c \in Clients, NEW v, NEW u
  PROVE  News(EventsOf(c, v, u), u, watching[c])
<1> SUFFICES ASSUME NEW y \in Elements(EventsOf(c, v, u))
             PROVE  y.snapshot = u /\ (y.observer = "detail" => y.items \subseteq watching[c])
  BY DEF News
<1>1. /\ ProductsEvent(u).snapshot = u /\ ProductsEvent(u).observer = "products"
      /\ \A S : DetailEvent(S, u).snapshot = u /\ DetailEvent(S, u).items = S
  BY DEF ProductsEvent, DetailEvent
<1>2. y = ProductsEvent(u) \/ \E S \in SUBSET watching[c] : y = DetailEvent(S, u)
  BY ElementsOfEvents
<1>3. CASE y = ProductsEvent(u)
  BY <1>1, <1>3
<1>4. CASE \E S \in SUBSET watching[c] : y = DetailEvent(S, u)
  BY <1>1, <1>4
<1> QED
  BY <1>2, <1>3, <1>4

-----------------------------------------------------------------------------
(***************************************************************************)
(* The devices a step does not touch                                       *)
(***************************************************************************)
AllComplete == NonePartial(products) /\ \A c \in Clients : DeviceComplete(c)

DeviceVars(d) == <<view[d], writes[d], push[d], connected[d], watching[d], inbox[d],
                   lists[d], selected[d]>>

LEMMA OtherDevice ==
  ASSUME NEW d \in Clients, DeviceComplete(d), UNCHANGED <<products, DeviceVars(d)>>,
         process'[d] \in {process[d], "running"}
  PROVE  DeviceComplete(d)'
  BY DEF DeviceComplete, DeviceVars, ItemsAreThere

LEMMA KeysAreItems ==
  ASSUME TypeOK, NEW c \in Clients
  PROVE  /\ \A a \in lists[c].home \cup lists[c].yours \cup lists[c].won :
                a \in AuctionItem /\ a.uniqueKey \in Items
         /\ selected[c] \in AuctionItem => selected[c].uniqueKey \in Items
<1>1. lists[c] \in Lists
  BY DEF TypeOK
<1> QED
  BY <1>1 DEF Lists, AuctionItem

LEMMA ItemsGrow ==
  ASSUME TypeOK, NEW c \in Clients, ItemsAreThere(c), Grows(view[c], view'[c]),
         UNCHANGED <<lists, selected>>
  PROVE  ItemsAreThere(c)'
  BY KeysAreItems DEF ItemsAreThere, Grows

(* A device's part of the state, with its types. *)
LEMMA DeviceTypes ==
  ASSUME TypeOK, NEW c \in Clients
  PROVE  /\ SyncTypeOK
         /\ writes[c] \in Queue /\ view[c] \in Products_ /\ products \in Products_
         /\ push[c] \in Seq(Message) /\ inbox[c] \in Seq(Event)
         /\ watching[c] \in SUBSET Items
  BY DEF TypeOK, SyncTypeOK, Queue

-----------------------------------------------------------------------------
(***************************************************************************)
(* Every step of the database keeps AllComplete                            *)
(***************************************************************************)
LEMMA SetValueComplete ==
  ASSUME TypeOK, AllComplete, NEW c \in Clients, NEW w \in Write, SetValue(c, w),
         MayWrite(w, view[c], products, SignedIn_UserName[c]),
         UNCHANGED <<lists, selected, process>>
  PROVE  AllComplete'
<1> DEFINE v == view[c]
           u == Apply(view[c], w)
           x == EventsOf(c, v, u)
<1>1. /\ view' = [view EXCEPT ![c] = u]
      /\ writes' = [writes EXCEPT ![c] = Append(@, w)]
      /\ inbox' = [inbox EXCEPT ![c] = @ \o x]
      /\ UNCHANGED <<products, synced, taken, push, connected, watching>>
  BY DEF SetValue
<1>2. ASSUME NEW d \in Clients, d # c
      PROVE  DeviceComplete(d)'
  <2>1. UNCHANGED <<products, DeviceVars(d)>>
    BY <1>1, <1>2 DEF TypeOK, SyncTypeOK, DeviceVars
  <2> QED
    BY <2>1, OtherDevice DEF AllComplete
<1>3. DeviceComplete(c)
  BY DEF AllComplete
<1>4. u \in Products_ /\ x \in Seq(Event)
  BY DeviceTypes, ApplyType, EventsOfType
<1>5. /\ Grows(v, u) /\ NonePartial(u)
      /\ ViewComplete(Append(writes[c], w), u, products)
      /\ WritesComplete(Append(writes[c], w), u, products, SignedIn_UserName[c])
      /\ MessagesComplete(Append(writes[c], w), u, push[c], products)
  BY <1>3, DeviceTypes, OwnWriteComplete DEF DeviceComplete
<1>6. EventsComplete(u, inbox[c] \o x, watching[c])
  <2>1. News(x, u, watching[c])
    BY EventsOfChange
  <2>2. EventsComplete(v, inbox[c], watching[c])
    BY <1>3 DEF DeviceComplete
  <2> HIDE DEF x, u
  <2> QED
    BY <1>4, <1>5, <2>1, <2>2, DeviceTypes, EventsGrow
<1> HIDE DEF u, x
<1>7. view'[c] = u /\ writes'[c] = Append(writes[c], w) /\ inbox'[c] = inbox[c] \o x
  BY <1>1 DEF TypeOK, SyncTypeOK
<1>8. ItemsAreThere(c)'
  BY <1>3, <1>5, <1>7, ItemsGrow DEF DeviceComplete
<1>9. AllArrive(v, push[c], products) => AllArrive(u, push[c], products)
  BY <1>5 DEF AllArrive, Arrives, Grows
<1>10. DeviceComplete(c)'
  BY <1>1, <1>3, <1>5, <1>6, <1>7, <1>8, <1>9 DEF DeviceComplete
<1> QED
  BY <1>1, <1>2, <1>10 DEF AllComplete

LEMMA SetTwoValuesComplete ==
  ASSUME TypeOK, AllComplete, NEW c \in Clients, NEW w1 \in Write, NEW w2 \in Write,
         SetTwoValues(c, w1, w2),
         MayWrite(w1, view[c], products, SignedIn_UserName[c]),
         MayWrite(w2, view[c], products, SignedIn_UserName[c]),
         UNCHANGED <<lists, selected, process>>
  PROVE  AllComplete'
<1> DEFINE v == view[c]
           v1 == Apply(v, w1)
           v2 == Apply(v1, w2)
           x1 == EventsOf(c, v, v1)
           x2 == EventsOf(c, v1, v2)
           q1 == Append(writes[c], w1)
           q2 == Append(q1, w2)
<1>1. /\ view' = [view EXCEPT ![c] = v2]
      /\ writes' = [writes EXCEPT ![c] = Append(Append(@, w1), w2)]
      /\ inbox' = [inbox EXCEPT ![c] = (@ \o x1) \o x2]
      /\ UNCHANGED <<products, synced, taken, push, connected, watching>>
  BY DEF SetTwoValues
<1>2. ASSUME NEW d \in Clients, d # c
      PROVE  DeviceComplete(d)'
  <2>1. UNCHANGED <<products, DeviceVars(d)>>
    BY <1>1, <1>2 DEF TypeOK, SyncTypeOK, DeviceVars
  <2> QED
    BY <2>1, OtherDevice DEF AllComplete
<1>3. DeviceComplete(c)
  BY DEF AllComplete
<1>4. /\ v1 \in Products_ /\ v2 \in Products_ /\ q1 \in Queue
      /\ x1 \in Seq(Event) /\ x2 \in Seq(Event) /\ inbox[c] \o x1 \in Seq(Event)
  <2>1. v1 \in Products_ /\ q1 \in Queue
    BY DeviceTypes, ApplyType, QueueAppend
  <2>2. v2 \in Products_
    BY <2>1, ApplyType
  <2>3. x1 \in Seq(Event) /\ x2 \in Seq(Event)
    BY <2>1, <2>2, DeviceTypes, EventsOfType
  <2> HIDE DEF x1, x2, v1, v2, q1
  <2> QED
    BY <2>1, <2>2, <2>3, DeviceTypes
<1>5. /\ Grows(v, v1) /\ NonePartial(v1)
      /\ ViewComplete(q1, v1, products)
      /\ WritesComplete(q1, v1, products, SignedIn_UserName[c])
      /\ MessagesComplete(q1, v1, push[c], products)
  BY <1>3, DeviceTypes, OwnWriteComplete DEF DeviceComplete
<1>6. MayWrite(w2, v1, products, SignedIn_UserName[c])
  <2>1. w2.item \in Items
    BY DEF Write
  <2> HIDE DEF v1
  <2> QED
    BY <1>5, <2>1 DEF MayWrite, Grows
<1>7. /\ Grows(v1, v2) /\ NonePartial(v2)
      /\ ViewComplete(q2, v2, products)
      /\ WritesComplete(q2, v2, products, SignedIn_UserName[c])
      /\ MessagesComplete(q2, v2, push[c], products)
  <2> HIDE DEF v1, q1
  <2> QED
    BY <1>4, <1>5, <1>6, DeviceTypes, OwnWriteComplete
<1>8. EventsComplete(v2, (inbox[c] \o x1) \o x2, watching[c])
  <2>1. News(x1, v1, watching[c]) /\ News(x2, v2, watching[c])
    BY EventsOfChange
  <2>2. EventsComplete(v, inbox[c], watching[c])
    BY <1>3 DEF DeviceComplete
  <2> HIDE DEF x1, x2, v1, v2
  <2>3. EventsComplete(v1, inbox[c] \o x1, watching[c])
    BY <1>4, <1>5, <2>1, <2>2, DeviceTypes, EventsGrow
  <2> QED
    BY <1>4, <1>7, <2>1, <2>3, DeviceTypes, EventsGrow
<1> HIDE DEF v1, v2, x1, x2
<1>9. view'[c] = v2 /\ writes'[c] = q2 /\ inbox'[c] = (inbox[c] \o x1) \o x2
  BY <1>1 DEF TypeOK, SyncTypeOK
<1> HIDE DEF q1, q2
<1>10. Grows(v, v2)
  BY <1>5, <1>7 DEF Grows
<1>11. ItemsAreThere(c)'
  BY <1>3, <1>9, <1>10, ItemsGrow DEF DeviceComplete
<1>12. AllArrive(v, push[c], products) => AllArrive(v2, push[c], products)
  BY <1>10 DEF AllArrive, Arrives, Grows
<1>13. DeviceComplete(c)'
  BY <1>1, <1>3, <1>7, <1>8, <1>9, <1>11, <1>12 DEF DeviceComplete
<1> QED
  BY <1>1, <1>2, <1>13 DEF AllComplete

LEMMA ServerApplyComplete ==
  ASSUME TypeOK, AllComplete, NEW c \in Clients, ServerApply(c),
         UNCHANGED <<lists, selected, process>>
  PROVE  AllComplete'
<1>1. PICK k \in DOMAIN writes[c] :
        /\ IsNext(c, k)
        /\ products' = Apply(products, writes[c][k])
        /\ push' = [d \in Clients |->
                      IF connected[d]
                      THEN Append(push[d], [kind |-> "write", from |-> c, number |-> k,
                                            write |-> writes[c][k]])
                      ELSE push[d]]
  BY DEF ServerApply
<1> DEFINE w == writes[c][k]
           m == [kind |-> "write", from |-> c, number |-> k, write |-> w]
           o == Apply(products, w)
<1>2. k \in Unanswered(writes[c]) /\ k \in Nat /\ w \in Write
  BY <1>1 DEF IsNext, Unanswered, TypeOK, SyncTypeOK
<1>3. SetsValues(w) /\ (w.sets = Fields \/ IsThere(products[w.item]))
  BY <1>2 DEF AllComplete, DeviceComplete, WritesComplete
<1>4. m \in Message /\ m.kind = "write" /\ m.write = w
  BY <1>2 DEF Message
<1>5. /\ products' = o
      /\ push' = [d \in Clients |-> IF connected[d] THEN Append(push[d], m) ELSE push[d]]
      /\ UNCHANGED <<view, writes, connected, watching, inbox>>
  BY <1>1 DEF ServerApply
<1> HIDE DEF w, m
<1>6. /\ IsThere(o[w.item])
      /\ \A i \in Items : i # w.item => o[i] = products[i]
      /\ Grows(products, o)
      /\ NonePartial(o)
  BY <1>2, <1>3, DeviceTypes, WholeWrite DEF AllComplete
<1> HIDE DEF o
<1>7. ASSUME NEW d \in Clients
      PROVE  DeviceComplete(d)'
  <2>1. DeviceComplete(d)
    BY DEF AllComplete
  <2>2. /\ ViewComplete(writes[d], view[d], o)
        /\ WritesComplete(writes[d], view[d], o, SignedIn_UserName[d])
        /\ MessagesComplete(writes[d], view[d], push[d], o)
    BY <1>6, <2>1, DeviceTypes, ServerGrows DEF DeviceComplete
  <2>3. EventsComplete(view[d], inbox[d], watching[d])' /\ ItemsAreThere(d)'
    BY <1>5, <2>1 DEF DeviceComplete, ItemsAreThere
  <2>4. CASE connected[d]
    <3>1. /\ AllArrive(view[d], push[d], products)
          /\ push[d] \in Seq(Message)
      BY <2>1, <2>4, DeviceTypes DEF DeviceComplete
    <3>2. Taken(products, o, w)
      BY <1>6 DEF Taken
    <3>3. /\ MessagesComplete(writes[d], view[d], Append(push[d], m), o)
          /\ AllArrive(view[d], Append(push[d], m), o)
      BY <1>3, <1>4, <1>6, <2>2, <3>1, <3>2, SentComplete
    <3>4. push'[d] = Append(push[d], m)
      BY <1>5, <2>4
    <3> QED
      BY <1>5, <2>1, <2>2, <2>3, <3>3, <3>4 DEF DeviceComplete
  <2>5. CASE ~connected[d]
    BY <1>5, <2>1, <2>2, <2>3, <2>5 DEF DeviceComplete
  <2> QED
    BY <2>4, <2>5
<1> QED
  BY <1>5, <1>6, <1>7 DEF AllComplete

LEMMA ReceiveWriteComplete ==
  ASSUME TypeOK, SyncInv, AllComplete, NEW c \in Clients, ReceiveWrite(c),
         UNCHANGED <<lists, selected, process>>
  PROVE  AllComplete'
<1> DEFINE m == Head(push[c])
           w == m.write
           v == view[c]
           u == [v EXCEPT ![w.item] = Overlay(@, w.to, w.sets \ Shadowed(writes[c], w.item))]
           x == EventsOf(c, v, u)
           r == writes'[c]
           user == SignedIn_UserName[c]
<1>1. /\ push[c] # <<>> /\ m.kind = "write"
      /\ view' = [view EXCEPT ![c] = u]
      /\ inbox' = [inbox EXCEPT ![c] = @ \o x]
      /\ push' = [push EXCEPT ![c] = Tail(@)]
      /\ writes' = IF m.from = c THEN [writes EXCEPT ![c][m.number] = Null] ELSE writes
      /\ UNCHANGED <<products, connected, watching>>
  BY DEF ReceiveWrite
<1>2. ASSUME NEW d \in Clients, d # c
      PROVE  DeviceComplete(d)'
  <2>1. UNCHANGED <<products, DeviceVars(d)>>
    BY <1>1, <1>2 DEF TypeOK, SyncTypeOK, DeviceVars
  <2> QED
    BY <2>1, OtherDevice DEF AllComplete
<1>3. DeviceComplete(c)
  BY DEF AllComplete
<1>4. m \in Message /\ w \in Write
  <2>1. m \in Message
    BY <1>1, DeviceTypes, TailOf
  <2> QED
    BY <1>1, <2>1 DEF Message
<1>5. Answered(writes[c], r, w)
  <2>1. CASE m.from # c
    BY <1>1, <2>1 DEF Answered
  <2>2. CASE m.from = c
    <3> DEFINE q == [writes[c] EXCEPT ![m.number] = Null]
    <3>1. InOrder(c, writes[c], taken[c], push[c]) /\ OwnAnswer(c, m)
      BY <1>1, <2>2 DEF SyncInv, ClientInv, OwnAnswer
    <3>2. m.number \in Unanswered(writes[c]) /\ w = writes[c][m.number]
      <4> DEFINE Q == writes[c]
                 S == push[c]
                 T == taken[c]
      <4>1. T \in Nat /\ Q \in Queue /\ S \in Seq(Message) /\ S # <<>>
        BY <1>1, DeviceTypes, ClientTypes
      <4>2. InOrder(c, Q, T, S) /\ OwnAnswer(c, Head(S))
        BY <3>1
      <4> HIDE DEF Q, S, T
      <4>3. Head(S).number \in Unanswered(Q) /\ Head(S).write = Q[Head(S).number]
        BY <4>1, <4>2, AnswersOldest
      <4> QED
        BY <4>3 DEF Q, S
    <3>3. r = q
      BY <1>1, <2>2 DEF TypeOK, SyncTypeOK
    <3>4. /\ Unanswered(q) = Unanswered(writes[c]) \ {m.number}
          /\ \A n \in Unanswered(q) : q[n] = writes[c][n]
      <4> DEFINE j == m.number
      <4>1. j \in Unanswered(writes[c])
        BY <3>2
      <4> HIDE DEF j, m
      <4> QED
        BY <4>1, DeviceTypes, QueueAnswer DEF j
    <3> HIDE DEF q, r, w, m
    <3> QED
      BY <3>2, <3>3, <3>4 DEF Answered
  <2> QED
    BY <2>1, <2>2
<1> HIDE DEF r
<1>6. Changed(writes[c], v, u, w) /\ u \in Products_
  <2>1. v \in [Items -> Product] /\ w.item \in Items /\ w.to \in Product
    BY <1>4, DeviceTypes DEF Write, Products_
  <2>2. Overlay(v[w.item], w.to, w.sets \ Shadowed(writes[c], w.item)) \in Product
    BY <2>1, OverlayType
  <2> HIDE DEF w
  <2> QED
    BY <2>1, <2>2 DEF Changed, Products_
<1>7. x \in Seq(Event)
  BY <1>6, DeviceTypes, EventsOfType
<1> HIDE DEF m, u, x
<1>8. /\ Grows(v, u) /\ NonePartial(u)
      /\ ViewComplete(r, u, products)
      /\ WritesComplete(r, u, products, user)
      /\ Brought(m, u)
  <2>1. m = Head(push[c])
    BY DEF m
  <2>2. /\ ViewComplete(writes[c], v, products)
        /\ WritesComplete(writes[c], v, products, user)
        /\ MessagesComplete(writes[c], v, push[c], products)
    BY <1>3 DEF DeviceComplete
  <2>3. writes[c] \in Queue /\ v \in Products_ /\ push[c] \in Seq(Message) /\ push[c] # <<>>
    BY <1>1, DeviceTypes
  <2> HIDE DEF v, user
  <2> QED
    BY <1>1, <1>4, <1>5, <1>6, <2>1, <2>2, <2>3, ChangeComplete
<1>9. /\ MessagesComplete(r, u, Tail(push[c]), products)
      /\ AllArrive(v, push[c], products) => AllArrive(u, Tail(push[c]), products)
  <2>1. MessagesComplete(writes[c], v, push[c], products)
    BY <1>3 DEF DeviceComplete
  <2>2. Brought(Head(push[c]), u)
    BY <1>8 DEF m
  <2> QED
    BY <1>1, <1>8, <2>1, <2>2, DeviceTypes, TailComplete
<1>10. EventsComplete(u, inbox[c] \o x, watching[c])
  <2>1. News(x, u, watching[c])
    BY EventsOfChange DEF x
  <2>2. EventsComplete(v, inbox[c], watching[c])
    BY <1>3 DEF DeviceComplete
  <2> QED
    BY <1>7, <1>8, <2>1, <2>2, DeviceTypes, EventsGrow
<1>11. view'[c] = u /\ inbox'[c] = inbox[c] \o x /\ push'[c] = Tail(push[c]) /\ writes'[c] = r
  BY <1>1 DEF TypeOK, SyncTypeOK, r
<1>12. ItemsAreThere(c)'
  BY <1>3, <1>8, <1>11, ItemsGrow DEF DeviceComplete
<1>13. DeviceComplete(c)'
  BY <1>1, <1>3, <1>8, <1>9, <1>10, <1>11, <1>12 DEF DeviceComplete
<1> QED
  BY <1>1, <1>2, <1>13 DEF AllComplete

LEMMA ReceiveSnapshotComplete ==
  ASSUME TypeOK, AllComplete, NEW c \in Clients, ReceiveSnapshot(c),
         UNCHANGED <<lists, selected, process>>
  PROVE  AllComplete'
<1> DEFINE m == Head(push[c])
           v == view[c]
           u == [i \in Items |-> Overlay(v[i], m.products[i], Fields \ Shadowed(writes[c], i))]
           x == IF synced[c] THEN EventsOf(c, v, u) ELSE <<ProductsEvent(u)>>
           user == SignedIn_UserName[c]
<1>1. /\ push[c] # <<>> /\ m.kind = "snapshot"
      /\ view' = [view EXCEPT ![c] = u]
      /\ inbox' = [inbox EXCEPT ![c] = @ \o x]
      /\ push' = [push EXCEPT ![c] = Tail(@)]
      /\ UNCHANGED <<products, writes, connected, watching>>
  BY DEF ReceiveSnapshot
<1>2. ASSUME NEW d \in Clients, d # c
      PROVE  DeviceComplete(d)'
  <2>1. UNCHANGED <<products, DeviceVars(d)>>
    BY <1>1, <1>2 DEF TypeOK, SyncTypeOK, DeviceVars
  <2> QED
    BY <2>1, OtherDevice DEF AllComplete
<1>3. DeviceComplete(c)
  BY DEF AllComplete
<1>4. m \in Message /\ m.products \in Products_
  <2>1. m \in Message
    BY <1>1, DeviceTypes, TailOf
  <2> QED
    BY <1>1, <2>1 DEF Message
<1>5. Replaced(writes[c], v, u, m.products) /\ u \in Products_
  BY <1>4, DeviceTypes, OverlayType DEF Replaced, Products_
<1>6. x \in Seq(Event) /\ News(x, u, watching[c])
  <2>1. EventsOf(c, v, u) \in Seq(Event)
    BY <1>5, DeviceTypes, EventsOfType
  <2> HIDE DEF u
  <2>2. /\ ProductsEvent(u) \in Event
        /\ ProductsEvent(u).snapshot = u /\ ProductsEvent(u).observer = "products"
    BY <1>5, EventTypes DEF ProductsEvent
  <2>3. /\ <<ProductsEvent(u)>> \in Seq(Event)
        /\ Elements(<<ProductsEvent(u)>>) = {ProductsEvent(u)}
    BY <2>2 DEF Elements
  <2>4. CASE synced[c]
    BY <2>1, <2>4, EventsOfChange
  <2>5. CASE ~synced[c]
    BY <2>2, <2>3, <2>5 DEF News
  <2> QED
    BY <2>4, <2>5
<1> HIDE DEF m, u, x
<1>7. /\ Grows(v, u) /\ NonePartial(u)
      /\ ViewComplete(writes[c], u, products)
      /\ Brought(m, u)
  <2>1. m = Head(push[c])
    BY DEF m
  <2>2. /\ ViewComplete(writes[c], v, products)
        /\ WritesComplete(writes[c], v, products, user)
        /\ MessagesComplete(writes[c], v, push[c], products)
    BY <1>3 DEF DeviceComplete
  <2>3. v \in Products_ /\ push[c] \in Seq(Message) /\ push[c] # <<>> /\ m.kind = "snapshot"
    BY <1>1, DeviceTypes
  <2> HIDE DEF v, user
  <2> QED
    BY <1>4, <1>5, <2>1, <2>2, <2>3, ListenComplete
<1>8. WritesComplete(writes[c], u, products, user)
  BY <1>3, <1>7, DeviceTypes, WritesGrow DEF DeviceComplete
<1>9. /\ MessagesComplete(writes[c], u, Tail(push[c]), products)
      /\ AllArrive(v, push[c], products) => AllArrive(u, Tail(push[c]), products)
  <2>1. MessagesComplete(writes[c], v, push[c], products)
    BY <1>3 DEF DeviceComplete
  <2>2. Brought(Head(push[c]), u)
    BY <1>7 DEF m
  <2> QED
    BY <1>1, <1>7, <2>1, <2>2, DeviceTypes, TailComplete
<1>10. EventsComplete(u, inbox[c] \o x, watching[c])
  <2>1. EventsComplete(v, inbox[c], watching[c])
    BY <1>3 DEF DeviceComplete
  <2>2. inbox[c] \in Seq(Event) /\ watching[c] \in SUBSET Items
    BY DeviceTypes
  <2> HIDE DEF v
  <2> QED
    BY <1>6, <1>7, <2>1, <2>2, EventsGrow
<1>11. view'[c] = u /\ inbox'[c] = inbox[c] \o x /\ push'[c] = Tail(push[c])
  BY <1>1 DEF TypeOK, SyncTypeOK
<1>12. ItemsAreThere(c)'
  BY <1>3, <1>7, <1>11, ItemsGrow DEF DeviceComplete
<1>13. DeviceComplete(c)'
  BY <1>1, <1>3, <1>7, <1>8, <1>9, <1>10, <1>11, <1>12 DEF DeviceComplete
<1> QED
  BY <1>1, <1>2, <1>13 DEF AllComplete

LEMMA ConnectComplete ==
  ASSUME TypeOK, AllComplete, NEW c \in Clients, Connect(c) \/ Disconnect(c),
         UNCHANGED <<lists, selected, process>>
  PROVE  AllComplete'
<1>1. /\ UNCHANGED <<products, view, writes, watching, inbox>>
      /\ \A d \in Clients : d # c => UNCHANGED <<push[d], connected[d]>>
  BY DEF Connect, Disconnect, TypeOK, SyncTypeOK
<1>2. ASSUME NEW d \in Clients, d # c
      PROVE  DeviceComplete(d)'
  <2>1. UNCHANGED <<products, DeviceVars(d)>>
    BY <1>1, <1>2 DEF DeviceVars
  <2> QED
    BY <2>1, OtherDevice DEF AllComplete
<1>3. DeviceComplete(c) /\ NonePartial(products)
  BY DEF AllComplete
<1>4. ItemsAreThere(c)'
  BY <1>1, <1>3 DEF DeviceComplete, ItemsAreThere
<1>5. CASE Connect(c)
  <2> DEFINE m == [kind |-> "snapshot", products |-> products]
             s == <<m>>
  <2>1. push'[c] = s /\ connected'[c]
    BY <1>5 DEF Connect, RestoredListen, TypeOK, SyncTypeOK
  <2>2. DOMAIN s = {1} /\ s[1] = m /\ Len(s) = 1 /\ m.kind = "snapshot" /\ m.products = products
    OBVIOUS
  <2> HIDE DEF m, s
  <2>3. SnapshotComplete(writes[c], view[c], products, products)
    BY <1>3 DEF SnapshotComplete, NonePartial, DeviceComplete, ViewComplete
  <2>4. MessagesComplete(writes[c], view[c], s, products)
    BY <2>2, <2>3 DEF MessagesComplete
  <2>5. AllArrive(view[c], s, products)
    BY <2>2 DEF AllArrive, Arrives, Brings
  <2>6. DeviceComplete(c)'
    BY <1>1, <1>3, <1>4, <2>1, <2>4, <2>5 DEF DeviceComplete
  <2> QED
    BY <1>1, <1>2, <1>3, <2>6 DEF AllComplete
<1>6. CASE Disconnect(c)
  <2>1. push'[c] = <<>> /\ ~connected'[c]
    BY <1>6 DEF Disconnect, TypeOK, SyncTypeOK
  <2>2. MessagesComplete(writes[c], view[c], <<>>, products)
    BY DEF MessagesComplete
  <2>3. DeviceComplete(c)'
    BY <1>1, <1>3, <1>4, <2>1, <2>2 DEF DeviceComplete
  <2> QED
    BY <1>1, <1>2, <1>3, <2>3 DEF AllComplete
<1> QED
  BY <1>5, <1>6

(* What a device starts with, and is left with when its process ends.      *)
LEMMA NothingComplete ==
  ASSUME NEW p, NEW user
  PROVE  /\ ViewComplete(<<>>, NoProducts, p)
         /\ WritesComplete(<<>>, NoProducts, p, user)
         /\ MessagesComplete(<<>>, NoProducts, <<>>, p)
         /\ EventsComplete(NoProducts, <<>>, {})
<1>1. \A i \in Items : ~IsThere(NoProducts[i]) /\ ~Partial(NoProducts[i])
  BY DEF NoProducts, IsThere, Partial
<1>2. Unanswered(<<>>) = {}
  BY DEF Unanswered
<1> QED
  BY <1>1, <1>2 DEF ViewComplete, WritesComplete, MessagesComplete, EventsComplete

LEMMA StopComplete ==
  ASSUME TypeOK, AllComplete, NEW c \in Clients, Stop(c, "ended")
  PROVE  AllComplete'
<1>1. /\ view'[c] = NoProducts /\ writes'[c] = <<>> /\ push'[c] = <<>>
      /\ ~connected'[c] /\ watching'[c] = {} /\ inbox'[c] = <<>>
      /\ process'[c] = "ended" /\ lists'[c] = NoLists /\ selected'[c] = Null
      /\ products' = products
  BY DEF Stop, EndProcess, TypeOK, SyncTypeOK
<1>2. ASSUME NEW d \in Clients, d # c
      PROVE  DeviceComplete(d)'
  <2>1. UNCHANGED <<products, DeviceVars(d)>> /\ process'[d] = process[d]
    BY <1>2 DEF Stop, EndProcess, TypeOK, SyncTypeOK, DeviceVars
  <2> QED
    BY <2>1, OtherDevice DEF AllComplete
<1>3. ItemsAreThere(c)'
  BY <1>1, AuctionAssumption DEF ItemsAreThere, NoLists
<1>4. DeviceComplete(c)'
  BY <1>1, <1>3, NothingComplete DEF DeviceComplete
<1> QED
  BY <1>1, <1>2, <1>4 DEF AllComplete

-----------------------------------------------------------------------------
(***************************************************************************)
(* The steps of the app                                                    *)
(***************************************************************************)

(* A step of c's app that leaves the database's data alone. *)
LEMMA AppStepComplete ==
  ASSUME TypeOK, AllComplete, NEW c \in Clients,
         UNCHANGED <<products, view, writes, push, connected, process>>,
         \A d \in Clients \ {c} : UNCHANGED <<watching[d], inbox[d], lists[d], selected[d]>>,
         EventsComplete(view[c], inbox'[c], watching'[c]), ItemsAreThere(c)'
  PROVE  AllComplete'
<1>1. ASSUME NEW d \in Clients \ {c}
      PROVE  DeviceComplete(d)'
  BY OtherDevice DEF AllComplete, DeviceVars
<1>2. DeviceComplete(c)'
  BY DEF AllComplete, DeviceComplete
<1> QED
  BY <1>1, <1>2 DEF AllComplete

LEMMA FirstEventComplete ==
  ASSUME TypeOK, NEW c \in Clients, DeviceComplete(c), NEW i \in Items, IsThere(view[c][i]),
         Observe(c, i) \/ ObserveSingleEvent(c, i)
  PROVE  EventsComplete(view[c], inbox'[c], watching'[c])
<1> DEFINE y == DetailEvent({i}, view[c])
<1>1. /\ inbox'[c] = Append(inbox[c], y)
      /\ watching'[c] = watching[c] \cup {i} \/ watching'[c] = watching[c]
  BY DEF Observe, ObserveSingleEvent, FirstEvent, TypeOK, SyncTypeOK
<1>2. y \in Event /\ y.snapshot = view[c] /\ y.items = {i}
  BY DeviceTypes, EventTypes DEF DetailEvent
<1>3. EventComplete(y, view[c])
  BY <1>2 DEF EventComplete, DeviceComplete, ViewComplete
<1> HIDE DEF y
<1>4. Elements(Append(inbox[c], y)) = Elements(inbox[c]) \cup {y}
  <2> DEFINE S == Event
  <2>1. inbox[c] \in Seq(S) /\ y \in S
    BY <1>2, DeviceTypes
  <2> HIDE DEF S
  <2> QED
    BY <2>1, ElementsOfAppend
<1>5. EventsComplete(view[c], inbox[c], watching[c])
  BY DEF DeviceComplete
<1> QED
  BY <1>1, <1>3, <1>4, <1>5, EventsRestated

LEMMA TakenEventComplete ==
  ASSUME TypeOK, NEW c \in Clients, DeviceComplete(c), inbox[c] # <<>>
  PROVE  /\ EventComplete(Head(inbox[c]), view[c])
         /\ EventsComplete(view[c], Tail(inbox[c]), watching[c])
<1>1. Head(inbox[c]) \in Elements(inbox[c]) /\ Elements(Tail(inbox[c])) \subseteq Elements(inbox[c])
  <2> DEFINE S == Event
  <2>1. inbox[c] \in Seq(S)
    BY DeviceTypes
  <2> HIDE DEF S
  <2> QED
    BY <2>1, ElementsOfTail
<1>2. EventsComplete(view[c], inbox[c], watching[c])
  BY DEF DeviceComplete
<1> QED
  BY <1>1, <1>2, EventsRestated

LEMMA SelectComplete ==
  ASSUME TypeOK, AllComplete, NEW c \in Clients, NEW a,
         \/ a \in lists[c].home /\ OpenBidScreen(c, a)
         \/ a \in lists[c].yours /\ OpenDeleteScreen(c, a)
         \/ a \in lists[c].won /\ SelectWon(c, a)
  PROVE  AllComplete'
<1>1. DeviceComplete(c)
  BY DEF AllComplete
<1>2. a.uniqueKey \in Items /\ IsThere(view[c][a.uniqueKey])
  BY <1>1, KeysAreItems DEF DeviceComplete, ItemsAreThere
<1>3. /\ UNCHANGED <<products, view, writes, push, connected, process, lists>>
      /\ selected' = [selected EXCEPT ![c] = a]
  BY DEF OpenBidScreen, OpenDeleteScreen, SelectWon, Select, Observe, ObserveSingleEvent, syncVars
<1>4. /\ \A d \in Clients \ {c} : UNCHANGED <<watching[d], inbox[d]>>
      /\ EventsComplete(view[c], inbox'[c], watching'[c])
  <2>1. CASE SelectWon(c, a)
    BY <1>1, <2>1 DEF SelectWon, syncVars, DeviceComplete
  <2>2. CASE Observe(c, a.uniqueKey) \/ ObserveSingleEvent(c, a.uniqueKey)
    <3>1. \A d \in Clients \ {c} : UNCHANGED <<watching[d], inbox[d]>>
      BY <2>2 DEF Observe, ObserveSingleEvent, FirstEvent, TypeOK, SyncTypeOK
    <3> QED
      BY <1>1, <1>2, <2>2, <3>1, FirstEventComplete
  <2> QED
    BY <2>1, <2>2 DEF OpenBidScreen, OpenDeleteScreen
<1>5. ItemsAreThere(c)'
  BY <1>1, <1>2, <1>3 DEF DeviceComplete, ItemsAreThere, TypeOK
<1>6. \A d \in Clients \ {c} : UNCHANGED <<lists[d], selected[d]>>
  BY <1>3 DEF TypeOK
<1> QED
  BY <1>3, <1>4, <1>5, <1>6, AppStepComplete

(* Whatever a list of AuctionItems is made from, its keys are of products  *)
(* that are there.                                                         *)
LEMMA ListsOfKeys ==
  ASSUME NEW prods, NEW user, NEW t,
         NEW a \in ListsOf(prods, user, t).home \cup ListsOf(prods, user, t).yours
                     \cup ListsOf(prods, user, t).won
  PROVE  \E i \in Items : a.uniqueKey = i /\ IsThere(prods[i])
<1> DEFINE there == {i \in Items : prods[i] # NoProduct}
           list(S) == {ToAuctionItem(i, prods[i]) : i \in S}
<1>1. ASSUME NEW S \in SUBSET there, a \in list(S)
      PROVE  \E i \in Items : a.uniqueKey = i /\ IsThere(prods[i])
  <2>1. PICK i \in S : a = ToAuctionItem(i, prods[i])
    BY <1>1
  <2>2. a.uniqueKey = i
    BY <2>1 DEF ToAuctionItem
  <2>3. i \in Items /\ IsThere(prods[i])
    BY <1>1, <2>1 DEF IsThere
  <2> QED
    BY <2>2, <2>3
<1>2. CASE a \in ListsOf(prods, user, t).home
  <2>1. a \in list({i \in there : IsNotClosed(prods[i], t)})
    BY <1>2 DEF ListsOf
  <2> HIDE DEF there, list
  <2> QED
    BY <1>1, <2>1
<1>3. CASE a \in ListsOf(prods, user, t).yours
  <2>1. a \in list({i \in there : prods[i].listing.openby = user})
    BY <1>3 DEF ListsOf
  <2> HIDE DEF there, list
  <2> QED
    BY <1>1, <2>1
<1>4. CASE a \in ListsOf(prods, user, t).won
  <2>1. a \in list({i \in there : /\ prods[i].highestbidder = user
                                  /\ ~IsNotClosed(prods[i], t)})
    BY <1>4 DEF ListsOf
  <2> HIDE DEF there, list
  <2> QED
    BY <1>1, <2>1
<1> QED
  BY <1>2, <1>3, <1>4

LEMMA ProductsCallbackComplete ==
  ASSUME TypeOK, AllComplete, NEW c \in Clients, ProductsCallback(c)
  PROVE  AllComplete'
<1> DEFINE e == Head(inbox[c])
           new == ListsOf(e.snapshot, SignedIn_UserName[c], now)
<1>1. DeviceComplete(c)
  BY DEF AllComplete
<1>2. /\ inbox[c] # <<>> /\ inbox' = [inbox EXCEPT ![c] = Tail(@)]
      /\ lists' = [lists EXCEPT ![c] = new]
      /\ UNCHANGED <<products, view, writes, push, connected, process, watching, selected>>
  BY DEF ProductsCallback, TakeEvent, Refilled
<1>3. /\ EventComplete(e, view[c])
      /\ EventsComplete(view[c], Tail(inbox[c]), watching[c])
  BY <1>1, <1>2, TakenEventComplete
<1>4. \A a \in new.home \cup new.yours \cup new.won :
         \E i \in Items : a.uniqueKey = i /\ IsThere(e.snapshot[i])
  BY ListsOfKeys
<1> HIDE DEF e, new
<1>5. lists'[c] = new /\ inbox'[c] = Tail(inbox[c])
  BY <1>2 DEF TypeOK, SyncTypeOK
<1>6. ItemsAreThere(c)'
  BY <1>1, <1>2, <1>3, <1>4, <1>5 DEF EventComplete, DeviceComplete, ItemsAreThere
<1>7. \A d \in Clients \ {c} : UNCHANGED <<watching[d], inbox[d], lists[d], selected[d]>>
  BY <1>2 DEF TypeOK, SyncTypeOK
<1> QED
  BY <1>2, <1>3, <1>5, <1>6, <1>7, AppStepComplete

LEMMA DetailCallbackComplete ==
  ASSUME TypeOK, SelectionExists, AllComplete, NEW c \in Clients, DetailCallback(c)
  PROVE  AllComplete'
<1>1. DeviceComplete(c)
  BY DEF AllComplete
<1>2. /\ inbox[c] # <<>> /\ inbox' = [inbox EXCEPT ![c] = Tail(@)]
      /\ UNCHANGED <<products, view, writes, push, connected, process, watching>>
  BY DEF DetailCallback, TakeEvent
<1>3. EventsComplete(view[c], Tail(inbox[c]), watching[c])
  BY <1>1, <1>2, TakenEventComplete
<1>4. PICK price \in Nat : SetSelectedPrice(c, price)
  BY DetailCallbackType
<1>5. selected[c] \in AuctionItem
  BY DetailCallbackType
<1>6. /\ selected'[c] = [selected[c] EXCEPT !.highestBidPrice = price]
      /\ selected' = [selected EXCEPT ![c] = selected'[c]]
      /\ \A d \in Clients \ {c} : lists'[d] = lists[d]
      /\ lists'[c].home \subseteq lists[c].home \cup {selected'[c]}
      /\ lists'[c].yours \subseteq lists[c].yours \cup {selected'[c]}
      /\ lists'[c].won \subseteq lists[c].won \cup {selected'[c]}
  BY <1>4, <1>5, SetSelectedPriceType
<1>7. selected'[c].uniqueKey = selected[c].uniqueKey
  BY <1>5, <1>6 DEF AuctionItem
<1>8. ItemsAreThere(c)'
  BY <1>1, <1>2, <1>5, <1>6, <1>7 DEF DeviceComplete, ItemsAreThere
<1>9. /\ inbox'[c] = Tail(inbox[c])
      /\ \A d \in Clients \ {c} : UNCHANGED <<watching[d], inbox[d], lists[d], selected[d]>>
  BY <1>2, <1>6 DEF TypeOK, SyncTypeOK
<1> QED
  BY <1>2, <1>3, <1>8, <1>9, AppStepComplete

(* No callback meets an absent child. *)
LEMMA NothingCrashes ==
  ASSUME TypeOK, AllComplete, NEW c \in Clients
  PROVE  ~CallbackCrashes(c)
<1> SUFFICES ASSUME CallbackCrashes(c)
             PROVE  FALSE
  OBVIOUS
<1> DEFINE e == Head(inbox[c])
<1>1. inbox[c] # <<>>
  BY DEF CallbackCrashes
<1>2. EventComplete(e, view[c]) /\ e \in Event
  BY <1>1, DeviceTypes, TakenEventComplete DEF AllComplete
<1>3. \/ e.observer = "products" /\ \E i \in Items : Partial(e.snapshot[i])
      \/ e.observer = "detail" /\ \E i \in e.items : ~HasPriceAndBidder(e.snapshot[i])
  BY DEF CallbackCrashes
<1> HIDE DEF e
<1>4. CASE e.observer = "products" /\ \E i \in Items : Partial(e.snapshot[i])
  BY <1>2, <1>4 DEF EventComplete
<1>5. CASE e.observer = "detail" /\ \E i \in e.items : ~HasPriceAndBidder(e.snapshot[i])
  <2>1. PICK i \in e.items : ~HasPriceAndBidder(e.snapshot[i])
    BY <1>5
  <2>2. i \in Items
    BY <1>2 DEF Event
  <2>3. Complete(e.snapshot[i])
    BY <1>2, <1>5, <2>1, <2>2, ThereIsComplete DEF EventComplete
  <2> QED
    BY <2>1, <2>3 DEF Complete, HasPriceAndBidder
<1> QED
  BY <1>3, <1>4, <1>5

(* A listing is opened with all its parts, under the name of its user. *)
LEMMA SubmissionComplete ==
  ASSUME TypeOK, AllComplete, NEW c \in Clients, NEW i \in Items, NEW price \in Amounts,
         NEW closing \in 0..MaxTime, Submit_Auction(c, i, price, closing)
  PROVE  AllComplete'
<1> DEFINE l == [openby |-> SignedIn_UserName[c], opendate |-> CutToMinute(now),
                 closedate |-> CutToMinute(closing), startingprice |-> price]
           w == CreateProduct(i, l)
<1>1. l \in Listing /\ l.openby = SignedIn_UserName[c]
  BY CutType, AuctionAssumption DEF Listing, TypeOK
<1>2. SetValue(c, w) /\ UNCHANGED <<lists, selected, process>>
  BY DEF Submit_Auction
<1> HIDE DEF l
<1>3. w \in Write /\ w.sets = Fields /\ w.to.listing = l
  BY <1>1, WriteTypes DEF CreateProduct, NewProduct
<1>4. SetsValues(w)
  <2>1. l # Null /\ 0 # Null /\ NoBidder # Null
    BY <1>1, ProductsAssumption, NullIsNoValue
  <2> QED
    BY <2>1 DEF SetsValues, CreateProduct, NewProduct, Fields
<1>5. MayWrite(w, view[c], products, SignedIn_UserName[c])
  BY <1>1, <1>3, <1>4 DEF MayWrite
<1> HIDE DEF w
<1> QED
  BY <1>2, <1>3, <1>5, SetValueComplete

(* A device that shows a product bids on it only if the server has it: the *)
(* only products a device shows before are those its own user opened.      *)
LEMMA BidsAreOnTheServer ==
  ASSUME TypeOK, AuctionInv, AllComplete, NEW c \in Clients, NEW amount \in Amounts,
         Bid_Submit(c, amount)
  PROVE  LET i == selected[c].uniqueKey
         IN  i \in Items /\ IsThere(view[c][i]) /\ IsThere(products[i])
<1> DEFINE a == selected[c]
           i == a.uniqueKey
<1>1. a \in AuctionItem
  BY DEF AuctionInv, SelectionExists, Bid_Submit
<1>2. i \in Items /\ IsThere(view[c][i])
  BY <1>1, KeysAreItems DEF AllComplete, DeviceComplete, ItemsAreThere
<1>3. a.openedBy # SignedIn_UserName[c]
  BY DEF Bid_Submit, BidAccepted
<1>4. a.openedBy = opened[i].openby
  BY <1>1 DEF AuctionInv, ItemsAreGenuine, GenuineItem
<1>5. ASSUME Creates(writes[c], i)
      PROVE  FALSE
  <2>1. PICK k \in Unanswered(writes[c]) : writes[c][k].item = i /\ writes[c][k].sets = Fields
    BY <1>5 DEF Creates
  <2> DEFINE w == writes[c][k]
  <2>2. SetsValues(w) /\ w.to.listing.openby = SignedIn_UserName[c]
    BY <2>1 DEF AllComplete, DeviceComplete, WritesComplete
  <2>3. w.to.listing # Null
    BY <2>1, <2>2 DEF SetsValues, Fields
  <2>4. LegalWrite(opened, w)
    BY DEF AuctionInv, WritesAreLegal
  <2>5. "listing" \in w.sets
    BY <2>1 DEF Fields
  <2>6. w \in Write /\ opened \in Listings
    BY DEF TypeOK, SyncTypeOK, Unanswered, Listings
  <2>7. w.to.listing = opened[i]
    BY <2>1, <2>3, <2>4, <2>5, <2>6, LegalListing
  <2> QED
    BY <1>3, <1>4, <2>2, <2>7
<1> QED
  BY <1>2, <1>5 DEF AllComplete, DeviceComplete, ViewComplete

LEMMA BidComplete ==
  ASSUME TypeOK, AuctionInv, AllComplete, NEW c \in Clients, NEW amount \in Amounts,
         Bid_Submit(c, amount)
  PROVE  AllComplete'
<1> DEFINE i == selected[c].uniqueKey
           w1 == SetPrice(i, amount)
           w2 == SetBidder(i, SignedIn_UserName[c])
<1>1. w1 \in Write /\ w2 \in Write /\ SetTwoValues(c, w1, w2)
  BY BidsAreLegal
<1>2. i \in Items /\ IsThere(view[c][i]) /\ IsThere(products[i])
  BY BidsAreOnTheServer
<1>3. /\ w1.sets = {"highestbidprice"} /\ w1.item = i /\ w1.to.highestbidprice = amount
      /\ w2.sets = {"highestbidder"} /\ w2.item = i
      /\ w2.to.highestbidder = SignedIn_UserName[c]
  BY DEF SetPrice, SetBidder, NoProduct
<1>4. amount # Null /\ SignedIn_UserName[c] # Null
  <2>1. amount \in Nat /\ SignedIn_UserName[c] \in Users
    BY AuctionAssumption
  <2> QED
    BY <2>1, ProductsAssumption, NullIsNoValue
<1> HIDE DEF w1, w2, i
<1>5. SetsValues(w1) /\ SetsValues(w2)
  BY <1>3, <1>4 DEF SetsValues
<1>6. w1.sets # Fields /\ w2.sets # Fields
  BY <1>3 DEF Fields
<1>7. /\ MayWrite(w1, view[c], products, SignedIn_UserName[c])
      /\ MayWrite(w2, view[c], products, SignedIn_UserName[c])
  BY <1>2, <1>3, <1>5, <1>6 DEF MayWrite
<1>8. UNCHANGED <<lists, selected, process>>
  BY DEF Bid_Submit
<1> QED
  BY <1>1, <1>7, <1>8, SetTwoValuesComplete

-----------------------------------------------------------------------------
(***************************************************************************)
(* The invariant                                                           *)
(***************************************************************************)
LEMMA CompleteRestated ==
  CompleteInv <=> /\ left.deletes \in 0..MaxDeletes
                  /\ left.deletes = MaxDeletes => AllComplete
  BY DEF CompleteInv, AllComplete, NonePartial

LEMMA CompleteInit == Init => CompleteInv
<1> SUFFICES ASSUME Init
             PROVE  CompleteInv
  OBVIOUS
<1>1. left.deletes \in 0..MaxDeletes
  BY AuctionAssumption DEF Init
<1>2. NonePartial(products)
  <2> SUFFICES ASSUME NEW i \in Items
               PROVE  ~Partial(products[i])
    BY DEF NonePartial
  <2>1. products[i] = IF OpenedBefore[i] = Null THEN NoProduct ELSE NewProduct(OpenedBefore[i])
    BY DEF Init, SyncInit
  <2>2. CASE OpenedBefore[i] = Null
    BY <2>1, <2>2 DEF Partial
  <2>3. CASE OpenedBefore[i] # Null
    <3>1. 0 # Null /\ NoBidder # Null
      BY NullIsNoValue
    <3> QED
      BY <2>1, <2>3, <3>1 DEF Partial, Complete, NewProduct
  <2> QED
    BY <2>2, <2>3
<1>3. ASSUME NEW c \in Clients
      PROVE  DeviceComplete(c)
  <2>1. /\ view[c] = NoProducts /\ writes[c] = <<>> /\ push[c] = <<>> /\ ~connected[c]
        /\ watching[c] = {} /\ inbox[c] = <<>>
        /\ process[c] = "running" /\ lists[c] = NoLists /\ selected[c] = Null
    BY DEF Init, SyncInit
  <2>2. ItemsAreThere(c)
    BY <2>1, AuctionAssumption DEF ItemsAreThere, NoLists
  <2> QED
    BY <2>1, <2>2, NothingComplete DEF DeviceComplete
<1> QED
  BY <1>1, <1>2, <1>3, CompleteRestated DEF AllComplete

LEMMA AllCompleteStep ==
  ASSUME TypeOK, AuctionInv, SyncInv, AllComplete, [Next]_vars,
         \A c \in Clients : ~Delete_Listing(c)
  PROVE  AllComplete'
<1>1. ASSUME NEW c \in Clients, NEW i \in Items, NEW price \in Amounts,
             NEW closing \in 0..MaxTime, Submit_Auction(c, i, price, closing)
      PROVE  AllComplete'
  BY <1>1, SubmissionComplete
<1>2. ASSUME NEW c \in Clients, NEW amount \in Amounts, Bid_Submit(c, amount)
      PROVE  AllComplete'
  BY <1>2, BidComplete
<1>3. ASSUME NEW c \in Clients,
             \/ \E a \in lists[c].home : OpenBidScreen(c, a)
             \/ \E a \in lists[c].yours : OpenDeleteScreen(c, a)
             \/ \E a \in lists[c].won : SelectWon(c, a)
      PROVE  AllComplete'
  BY <1>3, SelectComplete
<1>4. ASSUME NEW c \in Clients, CallbackStep(c)
      PROVE  AllComplete'
  BY <1>4, ProductsCallbackComplete, DetailCallbackComplete, NothingCrashes
  DEF CallbackStep, AuctionInv
<1>5. ASSUME NEW c \in Clients, ServerStep(c) \/ ReceiveStep(c)
      PROVE  AllComplete'
  BY <1>5, ServerApplyComplete, ReceiveWriteComplete, ReceiveSnapshotComplete
  DEF ServerStep, ReceiveStep, appVars
<1>6. ASSUME NEW c \in Clients, ConnectStep(c) \/ LoseConnection(c)
      PROVE  AllComplete'
  BY <1>6, ConnectComplete DEF ConnectStep, LoseConnection, appVars
<1>7. ASSUME NEW c \in Clients, Kill(c)
      PROVE  AllComplete'
  BY <1>7, StopComplete DEF Kill
<1>8. ASSUME UNCHANGED <<syncVars, lists, selected>>,
             \A d \in Clients : process'[d] \in {process[d], "running"}
      PROVE  AllComplete'
  <2>1. ASSUME NEW d \in Clients
        PROVE  DeviceComplete(d)'
    BY <1>8, OtherDevice DEF AllComplete, DeviceVars, syncVars
  <2> QED
    BY <1>8, <2>1 DEF AllComplete, syncVars
<1>9. ASSUME NEW c \in Clients, CloseBidScreen(c) \/ CloseDeleteScreen(c) \/ Launch(c)
      PROVE  AllComplete'
  BY <1>8, <1>9 DEF CloseBidScreen, CloseDeleteScreen, Launch, TypeOK
<1>10. CASE Tick \/ UNCHANGED vars
  BY <1>8, <1>10 DEF Tick, vars, appVars
<1> QED
  BY <1>1, <1>2, <1>3, <1>4, <1>5, <1>6, <1>7, <1>9, <1>10
  DEF Next, UserStep, SystemStep, FaultStep

(* Only Delete_Listing uses up a deletion. *)
LEMMA DeletesStep ==
  ASSUME TypeOK, left.deletes \in 0..MaxDeletes, [Next]_vars
  PROVE  \/ left'.deletes = left.deletes /\ \A c \in Clients : ~Delete_Listing(c)
         \/ left'.deletes \in 0..MaxDeletes /\ left'.deletes # MaxDeletes
<1>1. MaxDeletes \in Nat /\ left \in [bids : Nat, deletes : Nat, faults : Nat]
  BY AuctionAssumption DEF TypeOK
<1>2. ASSUME NEW c \in Clients, Delete_Listing(c)
      PROVE  left'.deletes \in 0..MaxDeletes /\ left'.deletes # MaxDeletes
  <2>1. left.deletes > 0 /\ left'.deletes = left.deletes - 1
    BY <1>1, <1>2 DEF Delete_Listing
  <2> QED
    BY <1>1, <2>1
<1>3. CASE \A c \in Clients : ~Delete_Listing(c)
  <2>1. ASSUME NEW c \in Clients, UserStep(c)
        PROVE  left'.deletes = left.deletes
    <3>1. ASSUME NEW amount \in Amounts, Bid_Submit(c, amount)
          PROVE  left'.deletes = left.deletes
      BY <1>1, <3>1 DEF Bid_Submit
    <3>2. \/ \E amount \in Amounts : Bid_Submit(c, amount)
          \/ left' = left
      BY <1>3, <2>1
      DEF UserStep, Submit_Auction, OpenBidScreen, CloseBidScreen, OpenDeleteScreen,
          CloseDeleteScreen, SelectWon
    <3> QED
      BY <3>1, <3>2
  <2>2. ASSUME NEW c \in Clients, SystemStep(c)
        PROVE  left' = left
    BY <2>2
    DEF SystemStep, CallbackStep, ProductsCallback, DetailCallback, CallbackCrashes, ServerStep,
        ReceiveStep, ConnectStep, appVars
  <2>3. ASSUME NEW c \in Clients, FaultStep(c)
        PROVE  left'.deletes = left.deletes
    BY <1>1, <2>3 DEF FaultStep, LoseConnection, Kill, Launch
  <2>4. ASSUME Tick \/ UNCHANGED vars
        PROVE  left' = left
    BY <2>4 DEF Tick, vars, appVars
  <2>5. left'.deletes = left.deletes
    <3>1. CASE \E c \in Clients : UserStep(c) \/ SystemStep(c) \/ FaultStep(c)
      <4>1. PICK c \in Clients : UserStep(c) \/ SystemStep(c) \/ FaultStep(c)
        BY <3>1
      <4>2. CASE UserStep(c)
        BY <2>1, <4>2
      <4>3. CASE SystemStep(c)
        BY <2>2, <4>3
      <4>4. CASE FaultStep(c)
        BY <2>3, <4>4
      <4> QED
        BY <4>1, <4>2, <4>3, <4>4
    <3>2. CASE Tick \/ UNCHANGED vars
      BY <2>4, <3>2
    <3> QED
      BY <3>1, <3>2 DEF Next
  <2> QED
    BY <1>3, <2>5
<1> QED
  BY <1>2, <1>3

LEMMA CompleteStep ==
  ASSUME TypeOK, AuctionInv, SyncInv, CompleteInv, [Next]_vars
  PROVE  CompleteInv'
<1>1. left.deletes \in 0..MaxDeletes /\ (left.deletes = MaxDeletes => AllComplete)
  BY CompleteRestated
<1>2. /\ left'.deletes \in 0..MaxDeletes
      /\ left'.deletes = MaxDeletes => AllComplete'
  BY <1>1, DeletesStep, AllCompleteStep
<1> QED
  BY <1>2 DEF CompleteInv, AllComplete, NonePartial

(* Until a listing is deleted, every bid that waits or travels is one on a *)
(* product the server has, and reaches a device after that product.        *)
(* (Bid_Submit lines 96 and 115-128, Submit_Auction, FSyncTree)            *)
THEOREM CompleteInvariant == Spec => []CompleteInv
<1>1. TypeOK /\ AuctionInv /\ SyncInv /\ CompleteInv /\ [Next]_vars => CompleteInv'
  BY CompleteStep
<1> QED
  BY <1>1, CompleteInit, TypeCorrect, AuctionInvariant, SyncInvariant, PTL DEF Spec

(* Until somebody deletes a listing no product ever lacks a child and no   *)
(* device crashes, over any number of lost connections and ended           *)
(* processes.  (the force casts of retrieveData and of the detail screens) *)
THEOREM NothingIsPartial == Spec => []NothingPartialBeforeADelete
<1>1. CompleteInv => NothingPartialBeforeADelete
  BY DEF CompleteInv, DeviceComplete, NothingPartialBeforeADelete
<1> QED
  BY <1>1, CompleteInvariant, PTL


-----------------------------------------------------------------------------
(***************************************************************************)
(* A device that has not heard of a listing                                *)
(***************************************************************************)
Shown(l) == l.home \cup l.yours \cup l.won

LEMMA KnowsRestated ==
  ASSUME NEW d, NEW i
  PROVE  /\ KnowsNothing(d, i) <=>
              /\ view[d][i].listing = Null
              /\ \A e \in Elements(inbox[d]) : e.snapshot[i].listing = Null
              /\ \A a \in Shown(lists[d]) : a.uniqueKey # i
              /\ selected[d] \in AuctionItem => selected[d].uniqueKey # i
         /\ KnowsNothing(d, i)' <=>
              /\ view'[d][i].listing = Null
              /\ \A e \in Elements(inbox'[d]) : e.snapshot[i].listing = Null
              /\ \A a \in Shown(lists'[d]) : a.uniqueKey # i
              /\ selected'[d] \in AuctionItem => selected'[d].uniqueKey # i
  BY DEF KnowsNothing, Elements, Shown

(* Events of views without the listing join the queue. *)
LEMMA UntoldEvents ==
  ASSUME NEW q \in Seq(Event), NEW r \in Seq(Event), NEW i,
         \A e \in Elements(q) : e.snapshot[i].listing = Null,
         \A e \in Elements(r) : e.snapshot[i].listing = Null
  PROVE  \A e \in Elements(q \o r) : e.snapshot[i].listing = Null
  BY ElementsOfEventConcat

(* The view of c becomes v, which has no listing i either, by way of views *)
(* without it.                                                             *)
LEMMA UntoldView ==
  ASSUME TypeOK, NEW c \in Clients, NEW i \in Items, KnowsNothing(c, i),
         NEW v \in Products_, v[i].listing = Null, NEW q \in Seq(Event),
         \A e \in Elements(q) : e.snapshot[i].listing = Null,
         view' = [view EXCEPT ![c] = v], inbox' = [inbox EXCEPT ![c] = @ \o q],
         UNCHANGED <<lists, selected>>
  PROVE  KnowsNothing(c, i)'
<1>1. inbox[c] \in Seq(Event)
  BY DEF TypeOK, SyncTypeOK
<1>2. view'[c] = v /\ inbox'[c] = inbox[c] \o q
  BY DEF TypeOK, SyncTypeOK
<1>3. \A e \in Elements(inbox[c]) : e.snapshot[i].listing = Null
  BY KnowsRestated
<1>4. \A e \in Elements(inbox[c] \o q) : e.snapshot[i].listing = Null
  BY <1>1, <1>3, UntoldEvents
<1> QED
  BY <1>2, <1>4, KnowsRestated

LEMMA ChangeElsewhere ==
  ASSUME NEW v \in Products_, NEW j \in Items, NEW i \in Items, i # j, NEW p
  PROVE  [v EXCEPT ![j] = p][i] = v[i]
  BY DEF Products_

LEMMA SetValueElsewhere ==
  ASSUME TypeOK, NEW c \in Clients, NEW i \in Items, KnowsNothing(c, i),
         NEW w \in Write, w.item # i, SetValue(c, w), UNCHANGED <<lists, selected>>
  PROVE  KnowsNothing(c, i)'
<1> DEFINE v == Apply(view[c], w)
           q == EventsOf(c, view[c], v)
<1>1. view[c] \in Products_ /\ v \in Products_ /\ w.item \in Items
  BY ApplyType DEF TypeOK, SyncTypeOK, Write
<1>2. v[i].listing = Null
  BY <1>1, ChangeElsewhere, KnowsRestated DEF Apply
<1>3. q \in Seq(Event) /\ \A e \in Elements(q) : e.snapshot = v
  BY <1>1, EventsOfType, EventsGenuine DEF TypeOK
<1>4. view' = [view EXCEPT ![c] = v] /\ inbox' = [inbox EXCEPT ![c] = @ \o q]
  BY DEF SetValue
<1> HIDE DEF v, q
<1> QED
  BY <1>1, <1>2, <1>3, <1>4, UntoldView

LEMMA SetTwoValuesElsewhere ==
  ASSUME TypeOK, NEW c \in Clients, NEW i \in Items, KnowsNothing(c, i),
         NEW w1 \in Write, w1.item # i, NEW w2 \in Write, w2.item # i,
         SetTwoValues(c, w1, w2), UNCHANGED <<lists, selected>>
  PROVE  KnowsNothing(c, i)'
<1> DEFINE v1 == Apply(view[c], w1)
           v2 == Apply(v1, w2)
           q1 == EventsOf(c, view[c], v1)
           q2 == EventsOf(c, v1, v2)
           q == q1 \o q2
<1>1. /\ view[c] \in Products_ /\ v1 \in Products_ /\ v2 \in Products_
      /\ w1.item \in Items /\ w2.item \in Items
  BY ApplyType DEF TypeOK, SyncTypeOK, Write
<1>2. v1[i] = view[c][i]
  BY <1>1, ChangeElsewhere DEF Apply
<1>3. v2[i] = v1[i]
  <2> HIDE DEF v1
  <2> QED
    BY <1>1, ChangeElsewhere DEF Apply
<1>4. v1[i].listing = Null /\ v2[i].listing = Null
  BY <1>2, <1>3, KnowsRestated
<1>5. /\ q1 \in Seq(Event) /\ \A e \in Elements(q1) : e.snapshot = v1
      /\ q2 \in Seq(Event) /\ \A e \in Elements(q2) : e.snapshot = v2
  BY <1>1, EventsOfType, EventsGenuine DEF TypeOK
<1>6. /\ view' = [view EXCEPT ![c] = v2]
      /\ inbox' = [inbox EXCEPT ![c] = (@ \o q1) \o q2]
  BY DEF SetTwoValues
<1> HIDE DEF v1, v2, q1, q2
<1>7. q \in Seq(Event) /\ \A e \in Elements(q) : e.snapshot[i].listing = Null
  BY <1>4, <1>5, UntoldEvents
<1>8. inbox' = [inbox EXCEPT ![c] = @ \o q]
  <2>1. inbox[c] \in Seq(Event)
    BY DEF TypeOK, SyncTypeOK
  <2>2. (inbox[c] \o q1) \o q2 = inbox[c] \o q
    <3>1. \A p, r, s \in Seq(Event) :
             (p \o r) \o s = p \o (r \o s) /\ r \o s \in Seq(Event)
      BY ConcatIsAssociative
    <3> QED
      BY <1>5, <2>1, <3>1
  <2> QED
    BY <1>6, <2>2
<1> HIDE DEF q
<1> QED
  BY <1>1, <1>4, <1>6, <1>7, <1>8, UntoldView

LEMMA ReceiveWriteElsewhere ==
  ASSUME TypeOK, NEW c \in Clients, NEW i \in Items, KnowsNothing(c, i), HearsNothing(c, i),
         ReceiveWrite(c), UNCHANGED <<lists, selected>>
  PROVE  KnowsNothing(c, i)'
<1> DEFINE m == Head(push[c])
           w == m.write
           fs == w.sets \ Shadowed(writes[c], w.item)
           v == [view[c] EXCEPT ![w.item] = Overlay(@, w.to, fs)]
           q == EventsOf(c, view[c], v)
<1>1. push[c] \in Seq(Message) /\ push[c] # <<>> /\ m.kind = "write"
  BY DEF TypeOK, SyncTypeOK, ReceiveWrite
<1>2. 1 \in DOMAIN push[c] /\ push[c][1] = m /\ m \in Message
  BY <1>1, TailOf
<1>3. w \in Write
  BY <1>1, <1>2 DEF Message
<1>4. w.item # i
  BY <1>1, <1>2 DEF HearsNothing
<1>5. view[c] \in Products_ /\ w.item \in Items /\ w.to \in Product
  BY <1>3 DEF TypeOK, SyncTypeOK, Write
<1>6. v \in Products_
  <2>1. Overlay(view[c][w.item], w.to, fs) \in Product
    BY <1>5, OverlayType DEF Products_
  <2> QED
    BY <1>5, <2>1 DEF Products_
<1>7. v[i].listing = Null
  BY <1>4, <1>5, ChangeElsewhere, KnowsRestated
<1>8. q \in Seq(Event) /\ \A e \in Elements(q) : e.snapshot = v
  BY <1>5, <1>6, EventsOfType, EventsGenuine DEF TypeOK
<1>9. view' = [view EXCEPT ![c] = v] /\ inbox' = [inbox EXCEPT ![c] = @ \o q]
  BY DEF ReceiveWrite
<1> HIDE DEF v, q
<1> QED
  BY <1>6, <1>7, <1>8, <1>9, UntoldView

LEMMA ReceiveSnapshotElsewhere ==
  ASSUME TypeOK, NEW c \in Clients, NEW i \in Items, KnowsNothing(c, i), HearsNothing(c, i),
         ReceiveSnapshot(c), UNCHANGED <<lists, selected>>
  PROVE  KnowsNothing(c, i)'
<1> DEFINE m == Head(push[c])
           v == [j \in Items |-> Overlay(view[c][j], m.products[j],
                                         Fields \ Shadowed(writes[c], j))]
           q == IF synced[c] THEN EventsOf(c, view[c], v) ELSE <<ProductsEvent(v)>>
<1>1. push[c] \in Seq(Message) /\ push[c] # <<>> /\ m.kind = "snapshot"
  BY DEF TypeOK, SyncTypeOK, ReceiveSnapshot
<1>2. 1 \in DOMAIN push[c] /\ push[c][1] = m /\ m \in Message
  BY <1>1, TailOf
<1>3. m.products \in Products_ /\ view[c] \in Products_
  BY <1>1, <1>2 DEF Message, TypeOK, SyncTypeOK
<1>4. m.products[i].listing = Null /\ view[c][i].listing = Null
  BY <1>1, <1>2, KnowsRestated DEF HearsNothing
<1>5. v \in Products_
  BY <1>3, OverlayType DEF Products_
<1>6. v[i].listing = Null
  BY <1>4 DEF Overlay
<1>7. q \in Seq(Event) /\ \A e \in Elements(q) : e.snapshot = v
  <2>1. EventsOf(c, view[c], v) \in Seq(Event)
    BY <1>3, <1>5, EventsOfType DEF TypeOK
  <2>2. /\ <<ProductsEvent(v)>> \in Seq(Event)
        /\ Elements(<<ProductsEvent(v)>>) = {ProductsEvent(v)}
        /\ ProductsEvent(v).snapshot = v
    <3> HIDE DEF v
    <3>1. ProductsEvent(v) \in Event
      BY <1>5, EventTypes
    <3>2. Elements(<<ProductsEvent(v)>>) = {ProductsEvent(v)}
      BY DEF Elements
    <3>3. ProductsEvent(v).snapshot = v
      BY DEF ProductsEvent
    <3> QED
      BY <3>1, <3>2, <3>3
  <2> QED
    BY <2>1, <2>2, EventsGenuine
<1>8. view' = [view EXCEPT ![c] = v] /\ inbox' = [inbox EXCEPT ![c] = @ \o q]
  BY DEF ReceiveSnapshot
<1> HIDE DEF v, q
<1> QED
  BY <1>5, <1>6, <1>7, <1>8, UntoldView

LEMMA FirstEventElsewhere ==
  ASSUME TypeOK, NEW c \in Clients, NEW i \in Items, KnowsNothing(c, i),
         NEW j \in Items, FirstEvent(c, j), NEW e \in Elements(inbox'[c])
  PROVE  e.snapshot[i].listing = Null
<1> DEFINE f == DetailEvent({j}, view[c])
<1>1. f \in Event /\ f.snapshot = view[c]
  BY EventTypes DEF TypeOK, SyncTypeOK, DetailEvent
<1>2. inbox'[c] = Append(inbox[c], f) /\ inbox[c] \in Seq(Event)
  BY DEF FirstEvent, TypeOK, SyncTypeOK
<1> HIDE DEF f
<1>3. Elements(inbox'[c]) = Elements(inbox[c]) \cup {f}
  BY <1>1, <1>2, ElementsOfAppend
<1> QED
  BY <1>1, <1>3, KnowsRestated

LEMMA OtherKnowsNothing ==
  ASSUME NEW d, NEW i, KnowsNothing(d, i),
         UNCHANGED <<view[d], inbox[d], lists[d], selected[d]>>
  PROVE  KnowsNothing(d, i)'
  BY DEF KnowsNothing

LEMMA SubmissionElsewhere ==
  ASSUME TypeOK, NEW c \in Clients, NEW i \in Items, KnowsNothing(c, i), opened[i] # Null,
         NEW j \in Items, NEW price \in Amounts, NEW closing \in 0..MaxTime,
         Submit_Auction(c, j, price, closing)
  PROVE  KnowsNothing(c, i)'
<1> DEFINE l == [openby |-> SignedIn_UserName[c], opendate |-> CutToMinute(now),
                 closedate |-> CutToMinute(closing), startingprice |-> price]
           w == CreateProduct(j, l)
<1>1. l \in Listing
  BY CutType, AuctionAssumption DEF Listing, TypeOK
<1>2. SetValue(c, w) /\ UNCHANGED <<lists, selected>> /\ opened[j] = Null
  BY DEF Submit_Auction
<1> HIDE DEF l
<1>3. w \in Write /\ w.item = j
  BY <1>1, WriteTypes DEF CreateProduct
<1> HIDE DEF w
<1> QED
  BY <1>2, <1>3, SetValueElsewhere

(* What is selected on the device is another item. *)
LEMMA BidElsewhere ==
  ASSUME TypeOK, AuctionInv, NEW c \in Clients, NEW i \in Items, KnowsNothing(c, i),
         NEW amount \in Amounts, Bid_Submit(c, amount)
  PROVE  KnowsNothing(c, i)'
<1> DEFINE w1 == SetPrice(selected[c].uniqueKey, amount)
           w2 == SetBidder(selected[c].uniqueKey, SignedIn_UserName[c])
<1>1. w1 \in Write /\ w2 \in Write /\ SetTwoValues(c, w1, w2)
  BY BidsAreLegal
<1>2. w1.item = selected[c].uniqueKey /\ w2.item = selected[c].uniqueKey
  BY DEF SetPrice, SetBidder
<1>3. selected[c].uniqueKey # i
  BY DEF AuctionInv, SelectionExists, Bid_Submit, KnowsNothing
<1>4. UNCHANGED <<lists, selected>>
  BY DEF Bid_Submit
<1> HIDE DEF w1, w2
<1> QED
  BY <1>1, <1>2, <1>3, <1>4, SetTwoValuesElsewhere

LEMMA DeleteElsewhere ==
  ASSUME TypeOK, AuctionInv, NEW c \in Clients, NEW i \in Items, KnowsNothing(c, i),
         Delete_Listing(c)
  PROVE  KnowsNothing(c, i)'
<1> DEFINE w == RemoveProduct(selected[c].uniqueKey)
<1>1. w \in Write /\ SetValue(c, w)
  BY DeletesAreLegal
<1>2. w.item = selected[c].uniqueKey
  BY DEF RemoveProduct
<1>3. selected[c].uniqueKey # i
  BY DEF AuctionInv, SelectionExists, Delete_Listing, KnowsNothing
<1>4. UNCHANGED <<lists, selected>>
  BY DEF Delete_Listing
<1> HIDE DEF w
<1> QED
  BY <1>1, <1>2, <1>3, <1>4, SetValueElsewhere

LEMMA SelectElsewhere ==
  ASSUME TypeOK, NEW c \in Clients, NEW i \in Items, KnowsNothing(c, i), NEW a,
         \/ a \in lists[c].home /\ OpenBidScreen(c, a)
         \/ a \in lists[c].yours /\ OpenDeleteScreen(c, a)
         \/ a \in lists[c].won /\ SelectWon(c, a)
  PROVE  KnowsNothing(c, i)'
<1>1. a \in Shown(lists[c])
  BY DEF Shown
<1>2. a.uniqueKey \in Items /\ a.uniqueKey # i
  BY <1>1, KnowsRestated, KeysAreItems DEF Shown
<1>3. UNCHANGED <<view, lists>> /\ selected'[c] = a
  BY DEF OpenBidScreen, OpenDeleteScreen, SelectWon, Select, Observe, ObserveSingleEvent, syncVars,
         TypeOK
<1>4. \A e \in Elements(inbox'[c]) : e.snapshot[i].listing = Null
  <2>1. CASE SelectWon(c, a)
    BY <2>1, KnowsRestated DEF SelectWon, syncVars
  <2>2. CASE FirstEvent(c, a.uniqueKey)
    BY <1>2, <2>2, FirstEventElsewhere
  <2> QED
    BY <2>1, <2>2 DEF OpenBidScreen, OpenDeleteScreen, Observe, ObserveSingleEvent
<1> QED
  BY <1>2, <1>3, <1>4, KnowsRestated

LEMMA TakeEventElsewhere ==
  ASSUME TypeOK, NEW c \in Clients, NEW i \in Items, KnowsNothing(c, i),
         inbox[c] # <<>>, TakeEvent(c)
  PROVE  /\ Head(inbox[c]).snapshot[i].listing = Null
         /\ \A e \in Elements(inbox'[c]) : e.snapshot[i].listing = Null
         /\ UNCHANGED view
<1>1. Head(inbox[c]) \in Elements(inbox[c]) /\ Elements(Tail(inbox[c])) \subseteq Elements(inbox[c])
  <2> DEFINE S == Event
  <2>1. inbox[c] \in Seq(S)
    BY DeviceTypes
  <2> HIDE DEF S
  <2> QED
    BY <2>1, ElementsOfTail
<1>2. inbox'[c] = Tail(inbox[c]) /\ UNCHANGED view
  BY DEF TakeEvent, TypeOK, SyncTypeOK
<1> QED
  BY <1>1, <1>2, KnowsRestated

LEMMA ProductsCallbackElsewhere ==
  ASSUME TypeOK, NEW c \in Clients, NEW i \in Items, KnowsNothing(c, i), ProductsCallback(c)
  PROVE  KnowsNothing(c, i)'
<1> DEFINE e == Head(inbox[c])
           new == ListsOf(e.snapshot, SignedIn_UserName[c], now)
<1>1. /\ inbox[c] # <<>> /\ TakeEvent(c)
      /\ lists' = [lists EXCEPT ![c] = new]
      /\ UNCHANGED selected
      /\ \A j \in Items : ~Partial(e.snapshot[j])
  BY DEF ProductsCallback, Refilled
<1>2. \A a \in Shown(new) : \E j \in Items : a.uniqueKey = j /\ IsThere(e.snapshot[j])
  BY ListsOfKeys DEF Shown
<1>3. e.snapshot[i].listing = Null
  BY <1>1, TakeEventElsewhere
<1>4. ~IsThere(e.snapshot[i])
  BY <1>1, <1>3 DEF IsThere, Partial, Complete
<1> HIDE DEF e, new
<1>5. lists'[c] = new
  BY <1>1 DEF TypeOK
<1> QED
  BY <1>1, <1>2, <1>4, <1>5, TakeEventElsewhere, KnowsRestated

LEMMA DetailCallbackElsewhere ==
  ASSUME TypeOK, SelectionExists, NEW c \in Clients, NEW i \in Items, KnowsNothing(c, i),
         DetailCallback(c)
  PROVE  KnowsNothing(c, i)'
<1>1. inbox[c] # <<>> /\ TakeEvent(c)
  BY DEF DetailCallback
<1>2. PICK price \in Nat : SetSelectedPrice(c, price)
  BY DetailCallbackType
<1>3. selected[c] \in AuctionItem
  BY DetailCallbackType
<1>4. /\ selected'[c] = [selected[c] EXCEPT !.highestBidPrice = price]
      /\ lists'[c].home \subseteq lists[c].home \cup {selected'[c]}
      /\ lists'[c].yours \subseteq lists[c].yours \cup {selected'[c]}
      /\ lists'[c].won \subseteq lists[c].won \cup {selected'[c]}
  BY <1>2, <1>3, SetSelectedPriceType
<1>5. selected'[c].uniqueKey = selected[c].uniqueKey
  BY <1>3, <1>4 DEF AuctionItem
<1>6. selected'[c].uniqueKey # i
  BY <1>3, <1>5, KnowsRestated
<1>7. \A a \in Shown(lists'[c]) : a.uniqueKey # i
  <2>1. Shown(lists'[c]) \subseteq Shown(lists[c]) \cup {selected'[c]}
    BY <1>4 DEF Shown
  <2> QED
    BY <1>6, <2>1, KnowsRestated
<1> QED
  BY <1>1, <1>6, <1>7, TakeEventElsewhere, KnowsRestated

LEMMA StopElsewhere ==
  ASSUME TypeOK, NEW c \in Clients, NEW i \in Items, NEW s, Stop(c, s)
  PROVE  KnowsNothing(c, i)' /\ HearsNothing(c, i)'
<1>1. /\ view'[c] = NoProducts /\ push'[c] = <<>> /\ inbox'[c] = <<>>
      /\ lists'[c] = NoLists /\ selected'[c] = Null
  BY DEF Stop, EndProcess, TypeOK, SyncTypeOK
<1>2. NoProducts[i].listing = Null
  BY DEF NoProducts, NoProduct
<1> QED
  BY <1>1, <1>2, AuctionAssumption DEF KnowsNothing, HearsNothing, NoLists

(* A step of one device leaves the others as they are, but for what the    *)
(* server sends them.                                                      *)
LEMMA OthersKept ==
  ASSUME TypeOK, SelectionExists, NEW c \in Clients, NEW d \in Clients, d # c,
         UserStep(c) \/ SystemStep(c) \/ FaultStep(c)
  PROVE  UNCHANGED <<view[d], inbox[d], lists[d], selected[d], writes[d], taken[d]>>
<1>1. CASE \E i \in Items, price \in Amounts, closing \in 0..MaxTime :
               Submit_Auction(c, i, price, closing)
  BY <1>1 DEF Submit_Auction, SetValue, TypeOK, SyncTypeOK
<1>2. CASE \/ \E a \in lists[c].home : OpenBidScreen(c, a)
           \/ \E a \in lists[c].yours : OpenDeleteScreen(c, a)
           \/ \E a \in lists[c].won : SelectWon(c, a)
  <2>1. /\ UNCHANGED <<view, lists, writes, taken>>
        /\ \E a : Select(c, a, "home") \/ Select(c, a, "yours") \/ Select(c, a, "won")
        /\ inbox' = inbox \/ \E i : FirstEvent(c, i)
    BY <1>2 DEF OpenBidScreen, OpenDeleteScreen, SelectWon, Observe, ObserveSingleEvent, syncVars
  <2>2. selected'[d] = selected[d]
    BY <2>1 DEF Select, TypeOK
  <2>3. inbox'[d] = inbox[d]
    BY <2>1 DEF FirstEvent, TypeOK, SyncTypeOK
  <2> QED
    BY <2>1, <2>2, <2>3
<1>3. CASE CloseBidScreen(c) \/ CloseDeleteScreen(c) \/ Launch(c)
  BY <1>3 DEF CloseBidScreen, CloseDeleteScreen, Launch, syncVars
<1>4. CASE \E amount \in Amounts : Bid_Submit(c, amount)
  BY <1>4 DEF Bid_Submit, SetTwoValues, TypeOK, SyncTypeOK
<1>5. CASE Delete_Listing(c)
  BY <1>5 DEF Delete_Listing, SetValue, TypeOK, SyncTypeOK
<1>6. CASE ProductsCallback(c)
  BY <1>6 DEF ProductsCallback, TakeEvent, TypeOK, SyncTypeOK
<1>7. CASE DetailCallback(c)
  <2>1. PICK price \in Nat : SetSelectedPrice(c, price)
    BY <1>7, DetailCallbackType
  <2>2. selected[c] \in AuctionItem
    BY <1>7, DetailCallbackType
  <2>3. UNCHANGED <<lists[d], selected[d]>>
    <3>1. /\ selected' = [selected EXCEPT ![c] = selected'[c]]
          /\ \A e \in Clients \ {c} : lists'[e] = lists[e]
      BY <2>1, <2>2, SetSelectedPriceType
    <3> QED
      BY <3>1 DEF TypeOK
  <2> QED
    BY <1>7, <2>3 DEF DetailCallback, TakeEvent, TypeOK, SyncTypeOK
<1>8. CASE CallbackCrashes(c) \/ Kill(c)
  BY <1>8 DEF CallbackCrashes, Kill, Stop, EndProcess, TypeOK, SyncTypeOK
<1>9. CASE ServerStep(c)
  BY <1>9 DEF ServerStep, ServerApply, appVars, TypeOK, SyncTypeOK
<1>10. CASE ReceiveStep(c)
  BY <1>10 DEF ReceiveStep, ReceiveWrite, ReceiveSnapshot, appVars, TypeOK, SyncTypeOK
<1>11. CASE ConnectStep(c) \/ LoseConnection(c)
  BY <1>11 DEF ConnectStep, LoseConnection, Connect, Disconnect, appVars, TypeOK, SyncTypeOK
<1> QED
  BY <1>1, <1>2, <1>3, <1>4, <1>5, <1>6, <1>7, <1>8, <1>9, <1>10, <1>11
  DEF UserStep, SystemStep, CallbackStep, FaultStep

(* A device that has not heard of a listing learns of it from the server   *)
(* only.                                                                   *)
LEMMA KnowsStep ==
  ASSUME TypeOK, AuctionInv, [Next]_vars, NEW d \in Clients, NEW i \in Items,
         opened[i] # Null, KnowsNothing(d, i), HearsNothing(d, i)
  PROVE  KnowsNothing(d, i)'
<1> USE DEF AuctionInv
<1>1. ASSUME NEW c \in Clients, c # d, UserStep(c) \/ SystemStep(c) \/ FaultStep(c)
      PROVE  KnowsNothing(d, i)'
  BY <1>1, OthersKept, OtherKnowsNothing
<1>2. CASE UserStep(d)
  <2>1. CASE CloseBidScreen(d) \/ CloseDeleteScreen(d)
    BY <2>1 DEF CloseBidScreen, CloseDeleteScreen, syncVars, KnowsNothing
  <2> QED
    BY <1>2, <2>1, SubmissionElsewhere, SelectElsewhere, BidElsewhere, DeleteElsewhere DEF UserStep
<1>3. CASE CallbackStep(d)
  BY <1>3, ProductsCallbackElsewhere, DetailCallbackElsewhere, StopElsewhere
  DEF CallbackStep, CallbackCrashes
<1>4. CASE ReceiveStep(d)
  BY <1>4, ReceiveWriteElsewhere, ReceiveSnapshotElsewhere DEF ReceiveStep, appVars
<1>5. CASE ServerStep(d) \/ ConnectStep(d)
  BY <1>5 DEF ServerStep, ServerApply, ConnectStep, Connect, appVars, KnowsNothing
<1>6. CASE LoseConnection(d) \/ Launch(d)
  BY <1>6 DEF LoseConnection, Disconnect, Launch, syncVars, KnowsNothing
<1>7. CASE Kill(d)
  BY <1>7, StopElsewhere DEF Kill
<1>8. CASE Tick \/ UNCHANGED vars
  BY <1>8 DEF Tick, vars, syncVars, appVars, KnowsNothing
<1> QED
  BY <1>1, <1>2, <1>3, <1>4, <1>5, <1>6, <1>7, <1>8 DEF Next, SystemStep, FaultStep

-----------------------------------------------------------------------------
(***************************************************************************)
(* The writes that wait                                                    *)
(***************************************************************************)
LeaderCore ==
    /\ \A i \in Items : products[i].highestbidder \in Users => HasBid(i)
    /\ \A c \in Clients : BiddersFollow(c) /\ ListingsAreNew(c)

LEMMA PendingWrites ==
  ASSUME TypeOK, AuctionInv, NEW c \in Clients, NEW k \in Unanswered(writes[c])
  PROVE  /\ k \in Nat /\ writes[c][k] \in Write /\ writes[c][k].item \in Items
         /\ LegalWrite(opened, writes[c][k])
         /\ opened[writes[c][k].item] # Null
         /\ opened[writes[c][k].item] \in Listing
<1>1. k \in Nat /\ writes[c][k] \in Write
  BY DEF TypeOK, SyncTypeOK, Unanswered
<1>2. LegalWrite(opened, writes[c][k])
  BY DEF AuctionInv, WritesAreLegal
<1>3. writes[c][k].item \in Items
  BY <1>1 DEF Write
<1> QED
  BY <1>1, <1>2, <1>3 DEF LegalWrite, TypeOK

LEMMA PendingCreations ==
  ASSUME TypeOK, AuctionInv, NEW c \in Clients, NEW k \in Unanswered(writes[c]), NEW i \in Items
  PROVE  CreatesAt(c, k, i) <=> writes[c][k] = CreateProduct(i, opened[i])
<1> DEFINE w == writes[c][k]
<1>1. w \in Write /\ LegalWrite(opened, w) /\ opened[w.item] # Null
  BY PendingWrites
<1>2. /\ CreatesAt(c, k, i) <=> w.item = i /\ w.sets = Fields /\ w.to # NoProduct
      /\ Fields # {"highestbidprice"} /\ Fields # {"highestbidder"}
      /\ RemoveProduct(w.item).to = NoProduct
  BY DEF CreatesAt, Fields, RemoveProduct
<1> HIDE DEF w
<1>3. ASSUME w.item = i, w.sets = Fields, w.to # NoProduct
      PROVE  w = CreateProduct(i, opened[i])
  BY <1>1, <1>2, <1>3 DEF LegalWrite
<1>4. ASSUME w = CreateProduct(i, opened[i])
      PROVE  w.item = i /\ w.sets = Fields /\ w.to # NoProduct
  <2>1. w.item = i /\ w.sets = Fields /\ w.to.listing = opened[i]
    BY <1>4 DEF CreateProduct, NewProduct
  <2> QED
    BY <1>1, <2>1 DEF NoProduct
<1> QED
  BY <1>2, <1>3, <1>4 DEF w

-----------------------------------------------------------------------------
(***************************************************************************)
(* Steps that add no write and of which the server learns nothing          *)
(***************************************************************************)

(* The writes of d are the same, but for some that are done with; those    *)
(* the server has yet to take are the same, or all lost.                   *)
Quiet(d) ==
    /\ ToTake(d)' = ToTake(d) \/ ToTake(d)' = {}
    /\ Unanswered(writes'[d]) \subseteq Unanswered(writes[d])
    /\ \A k \in Unanswered(writes'[d]) : writes'[d][k] = writes[d][k]

(* What is sent to d is the same, less its first message, or starts anew.  *)
SentNothing(d) ==
    \/ push'[d] \in {push[d], <<>>, RestoredListen}
    \/ push[d] # <<>> /\ push'[d] = Tail(push[d])

Silent ==
    /\ products' = products /\ opened' = opened
    /\ \A d \in Clients : Quiet(d) /\ SentNothing(d)

LEMMA HearsStep ==
  ASSUME TypeOK, NEW d \in Clients, NEW i \in Items, HearsNothing(d, i),
         products[i].listing = Null, SentNothing(d)
  PROVE  HearsNothing(d, i)'
<1>1. CASE push'[d] = push[d] \/ push'[d] = <<>>
  BY <1>1 DEF HearsNothing
<1>2. CASE push'[d] = RestoredListen
  BY <1>2 DEF RestoredListen, HearsNothing
<1>3. CASE push[d] # <<>> /\ push'[d] = Tail(push[d])
  <2>1. \A n \in DOMAIN Tail(push[d]) : n + 1 \in DOMAIN push[d] /\ Tail(push[d])[n] = push[d][n + 1]
    BY <1>3, DeviceTypes, TailOf
  <2> QED
    BY <1>3, <2>1 DEF HearsNothing
<1> QED
  BY <1>1, <1>2, <1>3 DEF SentNothing

LEMMA SilentStep ==
  ASSUME TypeOK, AuctionInv, LeaderCore, [Next]_vars, Silent
  PROVE  LeaderCore'
<1>1. \A i : HasBid(i)' <=> HasBid(i)
  BY DEF Silent, HasBid
<1>2. ASSUME NEW c \in Clients, NEW k \in ToTake(c)'
      PROVE  /\ ToTake(c)' = ToTake(c) /\ k \in ToTake(c) /\ k \in Unanswered(writes[c])
             /\ \A j \in ToTake(c) : writes'[c][j] = writes[c][j]
  BY <1>2 DEF Silent, Quiet, ToTake
<1>3. ASSUME NEW c \in Clients
      PROVE  BiddersFollow(c)'
  BY <1>1, <1>2 DEF LeaderCore, BiddersFollow
<1>4. ASSUME NEW c \in Clients, NEW i \in Items, NEW k \in ToTake(c)', CreatesAt(c, k, i)'
      PROVE  IsNew(c, k, i)'
  <2>1. CreatesAt(c, k, i) /\ k \in ToTake(c) /\ k \in Unanswered(writes[c])
    BY <1>2, <1>4 DEF CreatesAt
  <2>2. IsNew(c, k, i)
    BY <2>1 DEF LeaderCore, ListingsAreNew
  <2>3. opened[i] # Null
    BY <2>1, PendingWrites DEF CreatesAt
  <2>4. \A d \in Clients : HearsNothing(d, i)' /\ (d # c => KnowsNothing(d, i)')
    BY <2>2, <2>3, HearsStep, KnowsStep DEF IsNew, Silent
  <2>5. \A d \in Clients : \A j \in Unanswered(writes'[d]) :
            j \in Unanswered(writes[d]) /\ writes'[d][j] = writes[d][j]
    BY DEF Silent, Quiet
  <2>6. opened' = opened /\ products' = products
    BY DEF Silent
  <2> QED
    BY <2>2, <2>4, <2>5, <2>6 DEF IsNew
<1>5. \A i \in Items : products'[i].highestbidder \in Users => HasBid(i)'
  BY <1>1 DEF LeaderCore, Silent
<1> QED
  BY <1>3, <1>4, <1>5 DEF LeaderCore, ListingsAreNew

LEMMA SameWritesAreQuiet ==
  ASSUME NEW d, UNCHANGED <<writes[d], taken[d]>>
  PROVE  Quiet(d)
  BY DEF Quiet, ToTake

LEMMA SilentForOne ==
  ASSUME TypeOK, SelectionExists, NEW c \in Clients,
         UserStep(c) \/ SystemStep(c) \/ FaultStep(c),
         UNCHANGED <<products, opened>>, Quiet(c), SentNothing(c),
         \A d \in Clients \ {c} : push'[d] = push[d]
  PROVE  Silent
<1>1. ASSUME NEW d \in Clients, d # c
      PROVE  Quiet(d) /\ SentNothing(d)
  BY <1>1, OthersKept, SameWritesAreQuiet DEF SentNothing
<1> QED
  BY <1>1 DEF Silent

LEMMA ReceiveIsSilent ==
  ASSUME TypeOK, AuctionInv, SyncInv, NEW c \in Clients, ReceiveStep(c)
  PROVE  Silent
<1> DEFINE m == Head(push[c])
           q == writes[c]
<1>1. /\ push[c] # <<>> /\ push' = [push EXCEPT ![c] = Tail(@)]
      /\ UNCHANGED <<products, taken, opened>>
      /\ \/ UNCHANGED writes
         \/ /\ m.kind = "write" /\ m.from = c
            /\ writes' = [writes EXCEPT ![c][m.number] = Null]
  BY DEF ReceiveStep, ReceiveWrite, ReceiveSnapshot, appVars
<1>2. SentNothing(c) /\ \A d \in Clients \ {c} : push'[d] = push[d]
  BY <1>1 DEF SentNothing, TypeOK, SyncTypeOK
<1>3. Quiet(c)
  <2>1. CASE UNCHANGED writes
    BY <1>1, <2>1, SameWritesAreQuiet
  <2>2. CASE m.kind = "write" /\ m.from = c /\ writes' = [writes EXCEPT ![c][m.number] = Null]
    <3> DEFINE n == m.number
               s == push[c]
               t == taken[c]
    <3>1. t \in Nat /\ q \in Queue /\ s \in Seq(Message) /\ s # <<>>
      BY <1>1, DeviceTypes, ClientTypes
    <3>2. InOrder(c, q, t, s) /\ OwnAnswer(c, Head(s))
      BY <2>2 DEF SyncInv, ClientInv, OwnAnswer
    <3>3. writes'[c] = [q EXCEPT ![n] = Null] /\ taken'[c] = t
      BY <1>1, <2>2 DEF TypeOK, SyncTypeOK
    <3>4. n \in Unanswered(q) /\ n <= t /\ n \in Nat
      <4> HIDE DEF s, q, t
      <4>1. n = Head(s).number
        BY DEF s
      <4>2. n \in Unanswered(q) /\ n <= t
        BY <3>1, <3>2, <4>1, AnswersOldest
      <4> HIDE DEF n
      <4> QED
        BY <3>1, <4>2 DEF Unanswered, Queue
    <3> HIDE DEF n, q, t, m
    <3>5. LET r == [q EXCEPT ![n] = Null]
          IN  /\ Unanswered(r) = Unanswered(q) \ {n}
              /\ \A k \in Unanswered(r) : r[k] = q[k]
      BY <3>1, <3>4, QueueAnswer
    <3>6. {k \in Unanswered(q) : k > t} = {k \in Unanswered(q) \ {n} : k > t}
      BY <3>1, <3>4
    <3> QED
      BY <3>3, <3>5, <3>6 DEF Quiet, ToTake, q, t
  <2> QED
    BY <1>1, <2>1, <2>2
<1> QED
  BY <1>1, <1>2, <1>3, SilentForOne DEF AuctionInv, SystemStep

LEMMA StopIsSilent ==
  ASSUME TypeOK, AuctionInv, NEW c \in Clients, CallbackCrashes(c) \/ Kill(c)
  PROVE  Silent
<1>1. /\ writes'[c] = <<>> /\ push'[c] = <<>>
      /\ \A d \in Clients \ {c} : push'[d] = push[d]
      /\ UNCHANGED <<products, opened>>
  BY DEF CallbackCrashes, Kill, Stop, EndProcess, TypeOK, SyncTypeOK
<1>2. Quiet(c) /\ SentNothing(c)
  BY <1>1 DEF Quiet, SentNothing, ToTake, Unanswered
<1> QED
  BY <1>1, <1>2, SilentForOne DEF AuctionInv, SystemStep, CallbackStep, FaultStep

LEMMA ConnectIsSilent ==
  ASSUME TypeOK, AuctionInv, SyncInv, NEW c \in Clients, ConnectStep(c)
  PROVE  Silent
<1>1. taken[c] = 0
  BY DEF SyncInv, ClientInv, ConnectStep, Connect
<1>2. /\ UNCHANGED <<products, opened, writes>>
      /\ taken'[c] = 0 /\ push'[c] = RestoredListen
      /\ \A d \in Clients \ {c} : push'[d] = push[d]
  BY DEF ConnectStep, Connect, RestoredPuts, appVars, TypeOK, SyncTypeOK
<1>3. Quiet(c) /\ SentNothing(c)
  BY <1>1, <1>2, SameWritesAreQuiet DEF SentNothing
<1> QED
  BY <1>2, <1>3, SilentForOne DEF AuctionInv, SystemStep

(* What is left when a step changes neither the server nor a queue. *)
LEMMA SameQueuesAreSilent ==
  ASSUME UNCHANGED <<products, opened, writes, taken, push>>
  PROVE  Silent
  BY SameWritesAreQuiet DEF Silent, SentNothing

Adds(c) ==
    \/ \E i \in Items, price \in Amounts, closing \in 0..MaxTime :
           Submit_Auction(c, i, price, closing)
    \/ \E amount \in Amounts : Bid_Submit(c, amount)
    \/ Delete_Listing(c)

LEMMA StepsSorted ==
  ASSUME TypeOK, AuctionInv, SyncInv, [Next]_vars, \A c \in Clients : ~LoseConnection(c)
  PROVE  Silent \/ \E c \in Clients : Adds(c) \/ ServerStep(c)
<1>1. ASSUME NEW c \in Clients,
             \/ \E a \in lists[c].home : OpenBidScreen(c, a)
             \/ \E a \in lists[c].yours : OpenDeleteScreen(c, a)
             \/ \E a \in lists[c].won : SelectWon(c, a)
      PROVE  Silent
  BY <1>1, SameQueuesAreSilent
  DEF OpenBidScreen, OpenDeleteScreen, SelectWon, Observe, ObserveSingleEvent, syncVars
<1>2. ASSUME NEW c \in Clients, CloseBidScreen(c) \/ CloseDeleteScreen(c) \/ Launch(c)
      PROVE  Silent
  BY <1>2, SameQueuesAreSilent DEF CloseBidScreen, CloseDeleteScreen, Launch, syncVars
<1>3. ASSUME NEW c \in Clients, ProductsCallback(c) \/ DetailCallback(c)
      PROVE  Silent
  BY <1>3, SameQueuesAreSilent DEF ProductsCallback, DetailCallback, TakeEvent
<1>4. CASE Tick \/ UNCHANGED vars
  BY <1>4, SameQueuesAreSilent DEF Tick, vars, syncVars, appVars
<1>5. ASSUME NEW c \in Clients, UserStep(c)
      PROVE  Silent \/ Adds(c)
  BY <1>1, <1>2, <1>5 DEF UserStep, Adds
<1>6. ASSUME NEW c \in Clients, SystemStep(c) \/ FaultStep(c)
      PROVE  Silent \/ ServerStep(c)
  BY <1>2, <1>3, <1>6, ReceiveIsSilent, StopIsSilent, ConnectIsSilent
  DEF SystemStep, CallbackStep, FaultStep
<1> QED
  BY <1>4, <1>5, <1>6 DEF Next

-----------------------------------------------------------------------------
(***************************************************************************)
(* Steps that add writes                                                   *)
(***************************************************************************)

(* The queue of c, and no other, has the writes N at its end. *)
Grown(c, N) ==
    /\ N \subseteq Nat
    /\ UNCHANGED <<products, push, taken>>
    /\ \A d \in Clients \ {c} : writes'[d] = writes[d]
    /\ Unanswered(writes'[c]) = Unanswered(writes[c]) \cup N
    /\ \A k \in Unanswered(writes[c]) : writes'[c][k] = writes[c][k]
    /\ \A n \in N : n > taken[c] /\ \A k \in Unanswered(writes[c]) : k < n
    /\ \A i \in Items : opened[i] # Null => opened'[i] = opened[i]

LEMMA GrownQueues ==
  ASSUME TypeOK, NEW c \in Clients, NEW N, Grown(c, N), NEW d \in Clients
  PROVE  /\ ToTake(d) \subseteq ToTake(d)'
         /\ \A k \in ToTake(d)' :
                \/ k \in ToTake(d) /\ writes'[d][k] = writes[d][k]
                \/ d = c /\ k \in N
         /\ d = c => N \subseteq ToTake(d)'
         /\ \A k \in Unanswered(writes'[d]) :
                \/ k \in Unanswered(writes[d]) /\ writes'[d][k] = writes[d][k]
                \/ d = c /\ k \in N
         /\ \A k \in Unanswered(writes[d]) : writes'[d][k] = writes[d][k]
<1>1. CASE d = c
  BY <1>1 DEF Grown, ToTake
<1>2. CASE d # c
  BY <1>2 DEF Grown, ToTake
<1> QED
  BY <1>1, <1>2

LEMMA GrowStep ==
  ASSUME TypeOK, AuctionInv, LeaderCore, [Next]_vars, NEW c \in Clients, NEW N, Grown(c, N),
         \A n \in N : writes'[c][n].sets = {"highestbidder"} =>
             /\ n - 1 \in N
             /\ writes'[c][n - 1].item = writes'[c][n].item
             /\ writes'[c][n - 1].sets = {"highestbidprice"},
         \A n \in N, i \in Items : CreatesAt(c, n, i)' => IsNew(c, n, i)',
         \A d \in Clients, i \in Items : \A k \in ToTake(d), n \in N :
             CreatesAt(d, k, i) /\ writes'[c][n].item = i
                 => d = c /\ writes'[c][n] = RemoveProduct(i)
  PROVE  LeaderCore'
<1>1. \A i : HasBid(i)' <=> HasBid(i)
  BY DEF Grown, HasBid
<1>2. ASSUME NEW d \in Clients
      PROVE  BiddersFollow(d)'
  <2> SUFFICES ASSUME NEW k \in ToTake(d)', writes'[d][k].sets = {"highestbidder"}
               PROVE  (\/ HasBid(writes[d][k].item)
                       \/ /\ k - 1 \in ToTake(d)
                          /\ writes[d][k - 1].item = writes[d][k].item
                          /\ writes[d][k - 1].sets = {"highestbidprice"})'
    BY DEF BiddersFollow
  <2>1. CASE k \in ToTake(d) /\ writes'[d][k] = writes[d][k]
    <3>1. \/ HasBid(writes[d][k].item)
          \/ /\ k - 1 \in ToTake(d)
             /\ writes[d][k - 1].item = writes[d][k].item
             /\ writes[d][k - 1].sets = {"highestbidprice"}
      BY <2>1 DEF LeaderCore, BiddersFollow
    <3>2. k - 1 \in ToTake(d) => k - 1 \in ToTake(d)' /\ writes'[d][k - 1] = writes[d][k - 1]
      BY GrownQueues DEF ToTake
    <3>3. HasBid(writes[d][k].item)' <=> HasBid(writes[d][k].item)
      BY <2>1 DEF HasBid, Grown
    <3> QED
      BY <2>1, <3>1, <3>2, <3>3
  <2>2. CASE d = c /\ k \in N
    BY <2>2, GrownQueues
  <2> QED
    BY <2>1, <2>2, GrownQueues
<1>3. ASSUME NEW d \in Clients, NEW i \in Items, NEW k \in ToTake(d)', CreatesAt(d, k, i)'
      PROVE  IsNew(d, k, i)'
  <2>1. CASE d = c /\ k \in N
    BY <1>3, <2>1
  <2>2. CASE k \in ToTake(d) /\ writes'[d][k] = writes[d][k]
    <3>1. CreatesAt(d, k, i) /\ k \in Unanswered(writes[d])
      BY <1>3, <2>2 DEF CreatesAt, ToTake
    <3>2. IsNew(d, k, i)
      BY <2>2, <3>1 DEF LeaderCore, ListingsAreNew
    <3>3. opened[i] # Null /\ opened'[i] = opened[i]
      BY <3>1, PendingWrites DEF CreatesAt, Grown
    <3>4. \A e \in Clients : HearsNothing(e, i)' /\ (e # d => KnowsNothing(e, i)')
      <4>1. ASSUME NEW e \in Clients
            PROVE  HearsNothing(e, i)' <=> HearsNothing(e, i)
        BY DEF Grown, HearsNothing
      <4> QED
        BY <3>2, <3>3, <4>1, KnowsStep DEF IsNew
    <3>5. ASSUME NEW e \in Clients, NEW j \in Unanswered(writes'[e]), writes'[e][j].item = i
          PROVE  e = d /\ (j = k \/ (j > k /\ writes'[e][j] = RemoveProduct(i)))
      <4>1. CASE j \in Unanswered(writes[e]) /\ writes'[e][j] = writes[e][j]
        BY <3>2, <3>5, <4>1 DEF IsNew
      <4>2. CASE e = c /\ j \in N
        <5>1. d = c /\ writes'[c][j] = RemoveProduct(i)
          BY <2>2, <3>1, <3>5, <4>2
        <5>2. j > k
          BY <3>1, <4>2, <5>1 DEF Grown
        <5> QED
          BY <4>2, <5>1, <5>2
      <4> QED
        BY <4>1, <4>2, GrownQueues
    <3> QED
      BY <3>2, <3>3, <3>4, <3>5 DEF IsNew, Grown
  <2> QED
    BY <2>1, <2>2, GrownQueues
<1>4. \A i \in Items : products'[i].highestbidder \in Users => HasBid(i)'
  BY <1>1 DEF LeaderCore, Grown
<1> QED
  BY <1>2, <1>3, <1>4 DEF LeaderCore, ListingsAreNew

(* An item that is selected is none that another device has just opened,   *)
(* and an item one bids on is not one's own.                               *)
LEMMA SelectedIsKnown ==
  ASSUME TypeOK, AuctionInv, LeaderCore, NEW c \in Clients, selected[c] \in AuctionItem,
         NEW d \in Clients, NEW k \in ToTake(d), NEW i \in Items, CreatesAt(d, k, i),
         selected[c].uniqueKey = i
  PROVE  d = c /\ selected[c].openedBy = SignedIn_UserName[c]
<1>1. IsNew(d, k, i)
  BY DEF LeaderCore, ListingsAreNew
<1>2. d = c
  BY <1>1 DEF IsNew, KnowsNothing
<1>3. selected[c].openedBy = opened[i].openby
  BY DEF AuctionInv, ItemsAreGenuine, GenuineItem
<1> QED
  BY <1>1, <1>2, <1>3 DEF IsNew

LEMMA QueueTypes ==
  ASSUME TypeOK, SyncInv, NEW c \in Clients
  PROVE  /\ writes[c] \in Queue /\ taken[c] \in Nat
         /\ taken[c] <= Len(writes[c]) /\ Len(writes[c]) \in Nat
<1>1. writes[c] \in Queue /\ taken[c] \in Nat
  BY ClientTypes DEF TypeOK
<1>2. taken[c] <= Len(writes[c])
  BY DEF SyncInv, ClientInv, InOrder
<1> QED
  BY <1>1, <1>2 DEF Queue

LEMMA SetValueGrows ==
  ASSUME TypeOK, SyncInv, NEW c \in Clients, NEW w \in Write, SetValue(c, w),
         \A i \in Items : opened[i] # Null => opened'[i] = opened[i]
  PROVE  LET n == Len(writes[c]) + 1
         IN  Grown(c, {n}) /\ writes'[c][n] = w
<1> DEFINE q == writes[c]
           r == Append(q, w)
           n == Len(q) + 1
<1>1. writes'[c] = r /\ \A d \in Clients \ {c} : writes'[d] = writes[d]
  BY DEF SetValue, TypeOK, SyncTypeOK
<1>2. UNCHANGED <<products, push, taken>>
  BY DEF SetValue
<1>3. q \in Queue /\ taken[c] \in Nat /\ taken[c] <= Len(q) /\ Len(q) \in Nat
  BY QueueTypes
<1> HIDE DEF q
<1>4. /\ Unanswered(r) = Unanswered(q) \cup {n}
      /\ \A k \in Unanswered(q) : k \in 1..Len(q) /\ r[k] = q[k]
      /\ r[n] = w
  BY <1>3, QueueAppend
<1> HIDE DEF r
<1>5. \A k \in Unanswered(q) : k < n
  BY <1>3, <1>4
<1> QED
  BY <1>1, <1>2, <1>3, <1>4, <1>5 DEF Grown, q

LEMMA SetTwoValuesGrows ==
  ASSUME TypeOK, SyncInv, NEW c \in Clients, NEW w1 \in Write, NEW w2 \in Write,
         SetTwoValues(c, w1, w2), opened' = opened
  PROVE  LET n == Len(writes[c]) + 1
         IN  /\ Grown(c, {n, n + 1}) /\ n \in Nat
             /\ writes'[c][n] = w1 /\ writes'[c][n + 1] = w2
<1> DEFINE q == writes[c]
           r == Append(q, w1)
           s == Append(r, w2)
           n == Len(q) + 1
<1>1. writes'[c] = s /\ \A d \in Clients \ {c} : writes'[d] = writes[d]
  BY DEF SetTwoValues, TypeOK, SyncTypeOK
<1>2. UNCHANGED <<products, push, taken>>
  BY DEF SetTwoValues
<1>3. q \in Queue /\ taken[c] \in Nat /\ taken[c] <= Len(q) /\ Len(q) \in Nat
  BY QueueTypes
<1> HIDE DEF q
<1>4. /\ r \in Queue /\ Len(r) = n
      /\ Unanswered(r) = Unanswered(q) \cup {n}
      /\ \A k \in Unanswered(q) : k \in 1..Len(q) /\ r[k] = q[k]
      /\ r[n] = w1
  BY <1>3, QueueAppend
<1> HIDE DEF r
<1>5. /\ Unanswered(s) = Unanswered(r) \cup {n + 1}
      /\ \A k \in Unanswered(r) : s[k] = r[k]
      /\ s[n + 1] = w2
  <2>1. /\ Unanswered(s) = Unanswered(r) \cup {Len(r) + 1}
        /\ \A k \in Unanswered(r) : s[k] = r[k]
        /\ s[Len(r) + 1] = w2
    BY <1>4, QueueAppend
  <2> HIDE DEF s
  <2> QED
    BY <1>4, <2>1
<1> HIDE DEF s
<1>6. /\ Unanswered(s) = Unanswered(q) \cup {n, n + 1}
      /\ \A k \in Unanswered(q) : s[k] = q[k]
      /\ s[n] = w1
  BY <1>4, <1>5
<1>7. \A k \in Unanswered(q) : k < n /\ k < n + 1
  BY <1>3, <1>4
<1> QED
  BY <1>1, <1>2, <1>3, <1>5, <1>6, <1>7 DEF Grown, q

LEMMA DeleteStep ==
  ASSUME TypeOK, AuctionInv, SyncInv, LeaderCore, [Next]_vars, NEW c \in Clients,
         Delete_Listing(c)
  PROVE  LeaderCore'
<1> DEFINE i == selected[c].uniqueKey
           w == RemoveProduct(i)
<1>1. w \in Write /\ SetValue(c, w) /\ opened' = opened
  BY DeletesAreLegal DEF Delete_Listing
<1>2. selected[c] \in AuctionItem
  BY DEF AuctionInv, SelectionExists, Delete_Listing
<1>3. /\ w.item = i /\ w.sets = Fields /\ w.to = NoProduct
      /\ Fields # {"highestbidder"}
  BY DEF RemoveProduct, Fields
<1>4. PICK n : Grown(c, {n}) /\ writes'[c][n] = w
  <2> HIDE DEF w
  <2> QED
    BY <1>1, SetValueGrows
<1>5. ASSUME NEW d \in Clients, NEW j \in Items, NEW k \in ToTake(d), CreatesAt(d, k, j), i = j
      PROVE  d = c /\ w = RemoveProduct(j)
  BY <1>2, <1>5, SelectedIsKnown
<1> HIDE DEF w, i
<1> QED
  BY <1>3, <1>4, <1>5, GrowStep DEF CreatesAt

LEMMA BidStep ==
  ASSUME TypeOK, AuctionInv, SyncInv, LeaderCore, [Next]_vars, NEW c \in Clients,
         NEW amount \in Amounts, Bid_Submit(c, amount)
  PROVE  LeaderCore'
<1> DEFINE i == selected[c].uniqueKey
           w1 == SetPrice(i, amount)
           w2 == SetBidder(i, SignedIn_UserName[c])
<1>1. w1 \in Write /\ w2 \in Write /\ SetTwoValues(c, w1, w2) /\ opened' = opened
  BY BidsAreLegal DEF Bid_Submit
<1>2. selected[c] \in AuctionItem /\ selected[c].openedBy # SignedIn_UserName[c]
  BY DEF AuctionInv, SelectionExists, Bid_Submit, BidAccepted
<1>3. /\ w1.item = i /\ w1.sets = {"highestbidprice"}
      /\ w2.item = i /\ w2.sets = {"highestbidder"}
      /\ Fields # {"highestbidprice"} /\ Fields # {"highestbidder"}
      /\ {"highestbidprice"} # {"highestbidder"}
  BY DEF SetPrice, SetBidder, Fields
<1>4. PICK n \in Nat : /\ Grown(c, {n, n + 1})
                       /\ writes'[c][n] = w1 /\ writes'[c][n + 1] = w2
  <2> HIDE DEF w1, w2
  <2> QED
    BY <1>1, SetTwoValuesGrows
<1>5. \A d \in Clients, j \in Items : \A k \in ToTake(d) : CreatesAt(d, k, j) => i # j
  BY <1>2, SelectedIsKnown
<1> HIDE DEF w1, w2, i
<1> DEFINE N == {n, n + 1}
<1>6. \A m \in N : /\ writes'[c][m].item = i
                   /\ writes'[c][m].sets # Fields
                   /\ writes'[c][m].sets = {"highestbidder"} => m - 1 = n /\ m - 1 \in N
  BY <1>3, <1>4
<1>7. Grown(c, N) /\ writes'[c][n].item = i /\ writes'[c][n].sets = {"highestbidprice"}
  BY <1>3, <1>4
<1>8. \A m \in N, j \in Items : ~CreatesAt(c, m, j)'
  BY <1>6 DEF CreatesAt
<1> HIDE DEF N
<1> QED
  BY <1>5, <1>6, <1>7, <1>8, GrowStep

(* Nobody has heard of a listing that is not opened yet. *)
LEMMA UnopenedIsUnknown ==
  ASSUME TypeOK, AuctionInv, NEW i \in Items, opened[i] = Null
  PROVE  /\ products[i].listing = Null
         /\ \A d \in Clients : HearsNothing(d, i) /\ KnowsNothing(d, i)
<1>1. products[i].listing = Null
  BY DEF AuctionInv, CopiesAreGenuine, GenuineProducts
<1>2. ASSUME NEW d \in Clients
      PROVE  HearsNothing(d, i)
  BY DEF AuctionInv, CopiesAreGenuine, GenuineMessage, GenuineProducts, LegalWrite, HearsNothing
<1>3. ASSUME NEW d \in Clients
      PROVE  KnowsNothing(d, i)
  BY DEF AuctionInv, CopiesAreGenuine, ItemsAreGenuine, GenuineProducts, GenuineItem, KnowsNothing
<1> QED
  BY <1>1, <1>2, <1>3

LEMMA SubmitStep ==
  ASSUME TypeOK, AuctionInv, SyncInv, LeaderCore, [Next]_vars, NEW c \in Clients,
         NEW i \in Items, NEW price \in Amounts, NEW closing \in 0..MaxTime,
         Submit_Auction(c, i, price, closing)
  PROVE  LeaderCore'
<1> DEFINE l == [openby |-> SignedIn_UserName[c], opendate |-> CutToMinute(now),
                 closedate |-> CutToMinute(closing), startingprice |-> price]
           w == CreateProduct(i, l)
<1>1. l \in Listing /\ l.openby = SignedIn_UserName[c]
  BY CutType, AuctionAssumption DEF Listing, TypeOK
<1>2. SetValue(c, w) /\ opened[i] = Null /\ opened' = [opened EXCEPT ![i] = l]
  BY DEF Submit_Auction
<1>3. /\ opened'[i] = l
      /\ \A j \in Items : opened[j] # Null => opened'[j] = opened[j]
  BY <1>2 DEF TypeOK
<1> HIDE DEF l
<1>4. w \in Write /\ w.item = i /\ w.sets = Fields /\ Fields # {"highestbidder"}
  BY <1>1, WriteTypes DEF CreateProduct, Fields
<1> HIDE DEF w
<1>5. PICK n : Grown(c, {n}) /\ writes'[c][n] = w
  BY <1>2, <1>3, <1>4, SetValueGrows
<1>6. \A d \in Clients : \A k \in Unanswered(writes[d]) : writes[d][k].item # i
  BY <1>2, PendingWrites
<1>7. IsNew(c, n, i)'
  <2>1. products'[i].listing = Null
    BY <1>2, <1>5, UnopenedIsUnknown DEF Grown
  <2>2. \A d \in Clients : HearsNothing(d, i)'
    <3>1. push' = push
      BY <1>5 DEF Grown
    <3> QED
      BY <1>2, <3>1, UnopenedIsUnknown DEF HearsNothing
  <2>3. ASSUME NEW d \in Clients, d # c
        PROVE  KnowsNothing(d, i)'
    <3>1. UserStep(c)
      BY DEF UserStep
    <3>2. KnowsNothing(d, i)
      BY <1>2, UnopenedIsUnknown
    <3> QED
      BY <2>3, <3>1, <3>2, OthersKept, OtherKnowsNothing DEF AuctionInv
  <2>4. \A d \in Clients : \A j \in Unanswered(writes'[d]) : writes'[d][j].item = i =>
            d = c /\ j = n
    BY <1>5, <1>6, GrownQueues
  <2> QED
    BY <1>1, <1>3, <2>1, <2>2, <2>3, <2>4 DEF IsNew
<1>8. \A d \in Clients, j \in Items : \A k \in ToTake(d) : CreatesAt(d, k, j) => j # i
  BY <1>6 DEF CreatesAt, ToTake
<1>9. \A j \in Items : CreatesAt(c, n, j)' => j = i
  BY <1>4, <1>5 DEF CreatesAt
<1> QED
  BY <1>4, <1>5, <1>7, <1>8, <1>9, GrowStep

-----------------------------------------------------------------------------
(***************************************************************************)
(* The server takes a write                                                *)
(***************************************************************************)
Priced(p) == p.listing = Null \/ p.highestbidprice \notin {0, Null}

(* Only a creation can leave a product without a bid that had one, and it  *)
(* leaves it without a bidder.                                             *)
LEMMA TakenWrite ==
  ASSUME NEW w \in Write, LegalWrite(opened, w), NEW old, NEW new,
         new = Overlay(old, w.to, w.sets)
  PROVE  \/ w = CreateProduct(w.item, opened[w.item]) /\ new.highestbidder = NoBidder
         \/ w.sets # {"highestbidder"} /\ Priced(new)
         \/ w.sets = {"highestbidder"} /\ (Priced(new) <=> Priced(old))
<1>1. CASE w = CreateProduct(w.item, opened[w.item])
  <2>1. w.sets = Fields /\ w.to.highestbidder = NoBidder
    BY <1>1 DEF CreateProduct, NewProduct
  <2> QED
    BY <1>1, <2>1 DEF Overlay, Fields
<1>2. CASE w = RemoveProduct(w.item)
  <2>1. w.sets = Fields /\ w.to.listing = Null
    BY <1>2 DEF RemoveProduct, NoProduct
  <2> QED
    BY <2>1 DEF Overlay, Fields, Priced
<1>3. CASE w.sets = {"highestbidprice"} /\ House!LegalPrice(opened[w.item], w.to.highestbidprice)
  <2>1. w.to.highestbidprice \notin {0, Null}
    BY <1>3, NullIsNoValue DEF House!LegalPrice
  <2> QED
    BY <1>3, <2>1 DEF Overlay, Priced
<1>4. CASE w.sets = {"highestbidder"}
  BY <1>4 DEF Overlay, Priced
<1> QED
  BY <1>1, <1>2, <1>3, <1>4 DEF LegalWrite

LEMMA TakeStep ==
  ASSUME TypeOK, AuctionInv, LeaderCore, [Next]_vars, NEW c \in Clients, ServerStep(c)
  PROVE  LeaderCore'
<1>1. PICK k \in DOMAIN writes[c] :
        /\ IsNext(c, k)
        /\ products' = Apply(products, writes[c][k])
        /\ push' = [d \in Clients |->
                      IF connected[d]
                      THEN Append(push[d], [kind |-> "write", from |-> c, number |-> k,
                                            write |-> writes[c][k]])
                      ELSE push[d]]
        /\ taken' = [taken EXCEPT ![c] = k]
  BY DEF ServerStep, ServerApply
<1> DEFINE w == writes[c][k]
           m == [kind |-> "write", from |-> c, number |-> k, write |-> w]
<1>2. /\ k \in ToTake(c) /\ \A j \in ToTake(c) : k <= j
      /\ k \in Unanswered(writes[c])
  BY <1>1 DEF IsNext, ToTake
<1>3. /\ w \in Write /\ w.item \in Items /\ LegalWrite(opened, w) /\ k \in Nat
      /\ m \in Message /\ m.kind = "write" /\ m.write = w
  <2>1. w \in Write /\ w.item \in Items /\ LegalWrite(opened, w) /\ k \in Nat
    BY <1>2, PendingWrites
  <2> HIDE DEF w
  <2> QED
    BY <2>1 DEF Message
<1>4. UNCHANGED <<writes, opened>>
  BY DEF ServerStep, ServerApply, appVars
<1>5. /\ ToTake(c)' = ToTake(c) \ {k}
      /\ \A d \in Clients \ {c} : ToTake(d)' = ToTake(d)
  <2>1. taken'[c] = k /\ k > taken[c] /\ taken[c] \in Nat
    BY <1>1, <1>2 DEF ToTake, TypeOK, SyncTypeOK
  <2>2. {j \in Unanswered(writes[c]) : j > k} = {j \in Unanswered(writes[c]) : j > taken[c]} \ {k}
    <3>1. \A j \in Unanswered(writes[c]) : j \in Nat /\ (j > taken[c] => k <= j)
      BY <1>2, PendingWrites DEF ToTake
    <3> QED
      BY <1>3, <2>1, <3>1
  <2>3. \A d \in Clients \ {c} : taken'[d] = taken[d]
    BY <1>1 DEF TypeOK, SyncTypeOK
  <2> QED
    BY <1>4, <2>1, <2>2, <2>3 DEF ToTake
<1>6. /\ products'[w.item] = Overlay(products[w.item], w.to, w.sets)
      /\ \A j \in Items : j # w.item => products'[j] = products[j]
  BY <1>1, <1>3 DEF Apply, TypeOK, SyncTypeOK, Products_
<1>7. \/ w = CreateProduct(w.item, opened[w.item]) /\ products'[w.item].highestbidder = NoBidder
      \/ w.sets # {"highestbidder"} /\ Priced(products'[w.item])
      \/ /\ w.sets = {"highestbidder"}
         /\ Priced(products'[w.item]) <=> Priced(products[w.item])
  <2> HIDE DEF w
  <2> QED
    BY <1>3, <1>6, TakenWrite
<1>8. \A j : /\ HasBid(j) <=> Priced(products[j])
             /\ HasBid(j)' <=> Priced(products'[j])
  BY DEF HasBid, Priced
<1>9. w = CreateProduct(w.item, opened[w.item]) <=> CreatesAt(c, k, w.item)
  BY <1>2, <1>3, PendingCreations
<1>10. w = CreateProduct(w.item, opened[w.item]) =>
           \A d \in Clients : \A j \in ToTake(d)' :
               writes[d][j].item = w.item => writes[d][j].sets = Fields
  <2>1. CASE CreatesAt(c, k, w.item)
    <3>1. IsNew(c, k, w.item)
      BY <1>2, <1>3, <2>1 DEF LeaderCore, ListingsAreNew
    <3>2. ASSUME NEW d \in Clients, NEW j \in ToTake(d)', writes[d][j].item = w.item
          PROVE  writes[d][j].sets = Fields
      <4>1. j \in Unanswered(writes[d])
        BY <1>4, <3>2 DEF ToTake
      <4>2. (d = c /\ j = k) \/ writes[d][j] = RemoveProduct(w.item)
        BY <3>1, <3>2, <4>1 DEF IsNew
      <4> QED
        BY <2>1, <4>2 DEF RemoveProduct, CreatesAt
    <3> QED
      BY <3>2
  <2> QED
    BY <1>9, <2>1
<1>11. Fields # {"highestbidder"} /\ Fields # {"highestbidprice"}
       /\ {"highestbidprice"} # {"highestbidder"}
       /\ CreateProduct(w.item, opened[w.item]).sets = Fields
  BY DEF Fields, CreateProduct
<1>12. ASSUME NEW i \in Items, products'[i].highestbidder \in Users
       PROVE  HasBid(i)'
  <2>1. CASE i # w.item
    BY <1>6, <1>8, <1>12, <2>1 DEF LeaderCore
  <2>2. CASE i = w.item /\ w.sets = {"highestbidder"}
    <3>1. \/ HasBid(i)
          \/ k - 1 \in ToTake(c)
      BY <1>2, <2>2 DEF LeaderCore, BiddersFollow
    <3>2. k - 1 \notin ToTake(c)
      BY <1>2, <1>3
    <3> QED
      BY <1>7, <1>8, <1>11, <2>2, <3>1, <3>2
  <2>3. CASE i = w.item /\ w.sets # {"highestbidder"}
    BY <1>7, <1>8, <1>12, <2>3, ProductsAssumption
  <2> QED
    BY <2>1, <2>2, <2>3
<1>13. ASSUME NEW d \in Clients
       PROVE  BiddersFollow(d)'
  <2> SUFFICES ASSUME NEW j \in ToTake(d)', writes[d][j].sets = {"highestbidder"}
               PROVE  \/ HasBid(writes[d][j].item)'
                      \/ /\ j - 1 \in ToTake(d)'
                         /\ writes[d][j - 1].item = writes[d][j].item
                         /\ writes[d][j - 1].sets = {"highestbidprice"}
    BY <1>4 DEF BiddersFollow
  <2> DEFINE i == writes[d][j].item
  <2>1. j \in ToTake(d) /\ i \in Items
    <3>1. j \in ToTake(d)
      BY <1>5
    <3> QED
      BY <3>1, PendingWrites DEF ToTake
  <2>2. ~(w.item = i /\ w = CreateProduct(w.item, opened[w.item]))
    BY <1>10, <1>11
  <2>3. HasBid(i) => Priced(products'[i])
    BY <1>6, <1>7, <1>8, <2>1, <2>2
  <2>4. \/ HasBid(i)
        \/ /\ j - 1 \in ToTake(d)
           /\ writes[d][j - 1].item = i
           /\ writes[d][j - 1].sets = {"highestbidprice"}
    BY <2>1 DEF LeaderCore, BiddersFollow
  <2>5. ASSUME j - 1 \in ToTake(d), j - 1 \notin ToTake(d)', writes[d][j - 1].item = i,
               writes[d][j - 1].sets = {"highestbidprice"}
        PROVE  Priced(products'[i])
    <3>1. d = c /\ j - 1 = k
      BY <1>5, <2>5
    <3>2. w.item = i /\ w.sets = {"highestbidprice"}
      BY <2>5, <3>1
    <3> QED
      BY <1>7, <1>11, <3>2
  <2>6. HasBid(writes[d][j].item)' <=> Priced(products'[i])
    BY <1>4 DEF HasBid, Priced
  <2> QED
    BY <2>3, <2>4, <2>5, <2>6
<1>14. ASSUME NEW d \in Clients, NEW i \in Items, NEW j \in ToTake(d)', CreatesAt(d, j, i)'
       PROVE  IsNew(d, j, i)'
  <2>1. j \in ToTake(d) /\ CreatesAt(d, j, i) /\ j \in Unanswered(writes[d])
    BY <1>4, <1>5, <1>14 DEF CreatesAt, ToTake
  <2>2. IsNew(d, j, i)
    BY <2>1 DEF LeaderCore, ListingsAreNew
  <2>3. w.item # i
    <3> SUFFICES ASSUME w.item = i
                 PROVE  FALSE
      OBVIOUS
    <3>1. c = d /\ (k = j \/ k > j)
      BY <1>2, <2>2 DEF IsNew
    <3>2. k <= j /\ k # j /\ j \in Nat
      BY <1>2, <1>5, <1>14, <2>1, <3>1, PendingWrites
    <3> QED
      BY <1>3, <3>1, <3>2
  <2>4. products'[i] = products[i] /\ opened[i] # Null
    BY <1>6, <2>1, <2>3, PendingWrites DEF CreatesAt
  <2>5. ASSUME NEW e \in Clients
        PROVE  HearsNothing(e, i)'
    <3>1. HearsNothing(e, i)
      BY <2>2 DEF IsNew
    <3>2. CASE push'[e] = push[e]
      BY <3>1, <3>2 DEF HearsNothing
    <3>3. CASE push'[e] = Append(push[e], m)
      <4>1. /\ DOMAIN Append(push[e], m) = DOMAIN push[e] \cup {Len(push[e]) + 1}
            /\ Append(push[e], m)[Len(push[e]) + 1] = m
            /\ \A n \in DOMAIN push[e] : Append(push[e], m)[n] = push[e][n]
        BY <1>3, DeviceTypes, AppendOf
      <4> HIDE DEF m, w
      <4> QED
        BY <1>3, <2>3, <3>1, <3>3, <4>1 DEF HearsNothing
    <3> QED
      BY <1>1, <3>2, <3>3
  <2>6. \A e \in Clients : e # d => KnowsNothing(e, i)'
    BY <2>2, <2>4, KnowsStep DEF IsNew
  <2> QED
    BY <1>4, <2>2, <2>4, <2>5, <2>6 DEF IsNew
<1> QED
  BY <1>12, <1>13, <1>14 DEF LeaderCore, ListingsAreNew

-----------------------------------------------------------------------------
(***************************************************************************)
(* The leader's invariant                                                  *)
(***************************************************************************)
LEMMA LeaderInit == Init => LeaderInv
<1> SUFFICES ASSUME Init
             PROVE  LeaderInv
  OBVIOUS
<1>1. left.faults \in 0..MaxFaults
  BY AuctionAssumption DEF Init
<1>2. ASSUME NEW i \in Items
      PROVE  products[i].highestbidder \notin Users
  <2>1. products[i] = IF OpenedBefore[i] = Null THEN NoProduct ELSE NewProduct(OpenedBefore[i])
    BY DEF Init, SyncInit
  <2>2. products[i].highestbidder \in {Null, NoBidder}
    BY <2>1 DEF NoProduct, NewProduct
  <2> QED
    BY <2>2, ProductsAssumption
<1>3. ASSUME NEW c \in Clients
      PROVE  ToTake(c) = {}
  <2>1. writes[c] = <<>>
    BY DEF Init, SyncInit
  <2> QED
    BY <2>1 DEF ToTake, Unanswered
<1>4. \A c \in Clients : BiddersFollow(c) /\ ListingsAreNew(c)
  BY <1>3 DEF BiddersFollow, ListingsAreNew
<1> QED
  BY <1>1, <1>2, <1>4 DEF LeaderInv

LEMMA LeaderCoreStep ==
  ASSUME TypeOK, AuctionInv, SyncInv, LeaderCore, [Next]_vars,
         \A c \in Clients : ~LoseConnection(c)
  PROVE  LeaderCore'
<1>1. CASE Silent
  BY <1>1, SilentStep
<1>2. ASSUME NEW c \in Clients, Adds(c)
      PROVE  LeaderCore'
  BY <1>2, SubmitStep, BidStep, DeleteStep DEF Adds
<1>3. ASSUME NEW c \in Clients, ServerStep(c)
      PROVE  LeaderCore'
  BY <1>3, TakeStep
<1> QED
  BY <1>1, <1>2, <1>3, StepsSorted

(* Only LoseConnection and Kill use up a fault. *)
LEMMA FaultsStep ==
  ASSUME TypeOK, left.faults \in 0..MaxFaults, [Next]_vars
  PROVE  \/ left'.faults = left.faults /\ \A c \in Clients : ~LoseConnection(c)
         \/ left'.faults \in 0..MaxFaults /\ left'.faults # MaxFaults
<1>1. MaxFaults \in Nat /\ left \in [bids : Nat, deletes : Nat, faults : Nat]
  BY AuctionAssumption DEF TypeOK
<1>2. ASSUME NEW c \in Clients, LoseConnection(c) \/ Kill(c)
      PROVE  left'.faults \in 0..MaxFaults /\ left'.faults # MaxFaults
  <2>1. left.faults > 0 /\ left'.faults = left.faults - 1
    BY <1>1, <1>2 DEF LoseConnection, Kill
  <2> QED
    BY <1>1, <2>1
<1>3. CASE \A c \in Clients : ~LoseConnection(c) /\ ~Kill(c)
  <2>1. ASSUME NEW c \in Clients, UserStep(c)
        PROVE  left'.faults = left.faults
    <3>1. ASSUME \/ \E amount \in Amounts : Bid_Submit(c, amount)
                 \/ Delete_Listing(c)
          PROVE  left'.faults = left.faults
      BY <1>1, <3>1 DEF Bid_Submit, Delete_Listing
    <3>2. \/ \E amount \in Amounts : Bid_Submit(c, amount)
          \/ Delete_Listing(c)
          \/ left' = left
      BY <2>1
      DEF UserStep, Submit_Auction, OpenBidScreen, CloseBidScreen, OpenDeleteScreen,
          CloseDeleteScreen, SelectWon
    <3> QED
      BY <3>1, <3>2
  <2>2. ASSUME NEW c \in Clients, SystemStep(c)
        PROVE  left' = left
    BY <2>2
    DEF SystemStep, CallbackStep, ProductsCallback, DetailCallback, CallbackCrashes, ServerStep,
        ReceiveStep, ConnectStep, appVars
  <2>3. ASSUME NEW c \in Clients, FaultStep(c)
        PROVE  left' = left
    BY <1>3, <2>3 DEF FaultStep, Launch
  <2>4. ASSUME Tick \/ UNCHANGED vars
        PROVE  left' = left
    BY <2>4 DEF Tick, vars, appVars
  <2>5. left'.faults = left.faults
    BY <2>1, <2>2, <2>3, <2>4 DEF Next
  <2> QED
    BY <1>3, <2>5
<1> QED
  BY <1>2, <1>3

LEMMA LeaderStep ==
  ASSUME TypeOK, AuctionInv, SyncInv, LeaderInv, [Next]_vars
  PROVE  LeaderInv'
<1>1. left.faults \in 0..MaxFaults /\ (left.faults = MaxFaults => LeaderCore)
  BY DEF LeaderInv, LeaderCore
<1>2. /\ left'.faults \in 0..MaxFaults
      /\ left'.faults = MaxFaults => LeaderCore'
  BY <1>1, FaultsStep, LeaderCoreStep
<1> QED
  BY <1>2 DEF LeaderInv, LeaderCore

(* Until a connection is lost, every bidder that waits for the server will *)
(* be taken right behind his price, or finds a bid; and a listing that     *)
(* waits is known to its opener only, so that its creation takes nobody's  *)
(* bid away.  (Bid_Submit lines 115-116 and 127-128, Submit_Auction)       *)
THEOREM LeadersInvariant == Spec => []LeaderInv
<1>1. TypeOK /\ AuctionInv /\ SyncInv /\ LeaderInv /\ [Next]_vars => LeaderInv'
  BY LeaderStep
<1> QED
  BY <1>1, LeaderInit, TypeCorrect, AuctionInvariant, SyncInvariant, PTL DEF Spec

(* Until a connection is lost or the app is ended, a listing that names a  *)
(* highest bidder has a bid, of at least its starting price.               *)
(* (Bid_Submit lines 112-116 and 125-128)                                  *)
THEOREM LeadersHavePaid == Spec => []LeaderPaid
<1>1. TypeOK /\ BidsRespectStartingPrice /\ LeaderInv => LeaderPaid
  <2> SUFFICES ASSUME TypeOK, BidsRespectStartingPrice, LeaderInv, left.faults = MaxFaults,
                      NEW i \in Items, products[i].listing # Null,
                      products[i].highestbidder \in Users
               PROVE  /\ products[i].highestbidprice > 0
                      /\ products[i].highestbidprice >= products[i].listing.startingprice
    BY DEF LeaderPaid
  <2>1. HasBid(i)
    BY DEF LeaderInv
  <2>2. products[i].highestbidprice \in Nat \cup {Null}
    BY DEF TypeOK, SyncTypeOK, Products_, Product
  <2> QED
    BY <2>1, <2>2 DEF HasBid, BidsRespectStartingPrice
<1> QED
  BY <1>1, LeadersInvariant, BidsRespectStartingPrices, TypeCorrect, PTL
=============================================================================
