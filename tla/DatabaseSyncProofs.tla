------------------------- MODULE DatabaseSyncProofs -------------------------
(***************************************************************************)
(* What DatabaseSync promises, proved for any number of clients, writes,   *)
(* lost connections and ended processes, and for any app that writes       *)
(* products; Auction is one.                                               *)
(***************************************************************************)
EXTENDS AuctionProofs

-----------------------------------------------------------------------------
(***************************************************************************)
(* Fields and queues                                                       *)
(***************************************************************************)
LEMMA OverlayField ==
  ASSUME NEW p, NEW q, NEW fs, NEW f \in Fields
  PROVE  Overlay(p, q, fs)[f] = IF f \in fs THEN q[f] ELSE p[f]
<1>1. CASE f = "listing"
  BY <1>1 DEF Overlay
<1>2. CASE f = "highestbidprice"
  BY <1>2 DEF Overlay
<1>3. CASE f = "highestbidder"
  BY <1>3 DEF Overlay
<1> QED
  BY <1>1, <1>2, <1>3 DEF Fields

LEMMA ApplyField ==
  ASSUME NEW p \in Products_, NEW w \in Write, NEW i \in Items, NEW f \in Fields
  PROVE  Apply(p, w)[i][f] = IF w.item = i /\ f \in w.sets THEN w.to[f] ELSE p[i][f]
<1>1. Overlay(p[i], w.to, w.sets)[f] = IF f \in w.sets THEN w.to[f] ELSE p[i][f]
  BY OverlayField
<1>2. Apply(p, w)[i] = IF w.item = i THEN Overlay(p[i], w.to, w.sets) ELSE p[i]
  BY DEF Apply, Products_
<1> QED
  BY <1>1, <1>2

LEMMA ProductsByField ==
  ASSUME NEW p \in Products_, NEW q \in Products_,
         \A i \in Items, f \in Fields : p[i][f] = q[i][f]
  PROVE  p = q
<1>1. ASSUME NEW i \in Items
      PROVE  p[i] = q[i]
  <2>1. p[i] \in Product /\ q[i] \in Product
    BY DEF Products_
  <2>2. /\ p[i].listing = q[i].listing
        /\ p[i].highestbidprice = q[i].highestbidprice
        /\ p[i].highestbidder = q[i].highestbidder
    BY DEF Fields
  <2> QED
    BY <2>1, <2>2 DEF Product
<1> QED
  BY <1>1 DEF Products_

LEMMA QueueAppend ==
  ASSUME NEW q \in Queue, NEW w \in Write
  PROVE  /\ Append(q, w) \in Queue
         /\ Len(Append(q, w)) = Len(q) + 1
         /\ Len(q) \in Nat
         /\ Unanswered(Append(q, w)) = Unanswered(q) \cup {Len(q) + 1}
         /\ \A k \in Unanswered(q) : k \in 1..Len(q) /\ Append(q, w)[k] = q[k]
         /\ Append(q, w)[Len(q) + 1] = w
<1> DEFINE S == Write \cup {Null}
           r == Append(q, w)
<1>1. q \in Seq(S) /\ w \in S /\ w # Null
  BY NullIsNoWrite DEF Queue
<1> HIDE DEF S
<1>2. /\ r \in Seq(S) /\ Len(r) = Len(q) + 1 /\ Len(q) \in Nat
      /\ DOMAIN q = 1..Len(q) /\ DOMAIN r = 1..(Len(q) + 1)
      /\ \A k \in 1..Len(q) : r[k] = q[k]
      /\ r[Len(q) + 1] = w
  BY <1>1
<1> HIDE DEF r
<1>3. Unanswered(r) = Unanswered(q) \cup {Len(q) + 1}
  BY <1>1, <1>2 DEF Unanswered
<1> QED
  BY <1>2, <1>3 DEF S, r, Queue, Unanswered

LEMMA SettingAppend ==
  ASSUME NEW q \in Queue, NEW w \in Write, NEW i \in Items, NEW f \in Fields
  PROVE  Setting(Append(q, w), i, f) =
           Setting(q, i, f) \cup (IF w.item = i /\ f \in w.sets THEN {Len(q) + 1} ELSE {})
  BY QueueAppend DEF Setting

LEMMA QueueAnswer ==
  ASSUME NEW q \in Queue, NEW k \in Unanswered(q)
  PROVE  LET r == [q EXCEPT ![k] = Null]
         IN  /\ Len(r) = Len(q)
             /\ Unanswered(r) = Unanswered(q) \ {k}
             /\ \A n \in Unanswered(r) : r[n] = q[n]
<1> DEFINE r == [q EXCEPT ![k] = Null]
<1>1. q \in [1..Len(q) -> Write \cup {Null}] /\ Len(q) \in Nat /\ DOMAIN q = 1..Len(q)
  BY DEF Queue
<1>2. DOMAIN r = 1..Len(q) /\ \A n \in 1..Len(q) : r[n] = IF n = k THEN Null ELSE q[n]
  BY <1>1
<1>3. r \in Seq(Write \cup {Null})
  BY ForgetType DEF Queue
<1>4. Len(r) = Len(q)
  BY <1>1, <1>2, <1>3
<1> HIDE DEF r
<1>5. Unanswered(r) = Unanswered(q) \ {k}
  BY <1>1, <1>2 DEF Unanswered
<1>6. \A n \in Unanswered(r) : r[n] = q[n]
  BY <1>2 DEF Unanswered
<1> QED
  BY <1>4, <1>5, <1>6 DEF r

LEMMA SettingAnswer ==
  ASSUME NEW q \in Queue, NEW k \in Unanswered(q), NEW i \in Items, NEW f \in Fields
  PROVE  Setting([q EXCEPT ![k] = Null], i, f) = Setting(q, i, f) \ {k}
  BY QueueAnswer DEF Setting

LEMMA ShadowedIsSetting ==
  ASSUME NEW q, NEW i, NEW f
  PROVE  f \in Shadowed(q, i) <=> Setting(q, i, f) # {}
  BY DEF Shadowed, Setting

LEMMA TailOf ==
  ASSUME NEW s \in Seq(Message), s # <<>>
  PROVE  /\ 1 \in DOMAIN s /\ s[1] = Head(s) /\ Head(s) \in Message
         /\ \A n \in DOMAIN Tail(s) : /\ n \in Nat /\ n + 1 \in DOMAIN s /\ n + 1 > 1
                                      /\ Tail(s)[n] = s[n + 1]
         /\ \A n \in DOMAIN s : n \in Nat /\ (n # 1 => n > 1 /\ n - 1 \in DOMAIN Tail(s)
                                                        /\ Tail(s)[n - 1] = s[n])
<1>1. /\ DOMAIN Tail(s) = 1..(Len(s) - 1) /\ DOMAIN s = 1..Len(s) /\ Len(s) \in Nat \ {0}
      /\ Head(s) = s[1]
  OBVIOUS
<1>2. \A n \in 1..(Len(s) - 1) : Tail(s)[n] = s[n + 1]
  BY <1>1
<1>3. Head(s) \in Message
  BY HeadAndTail
<1>4. \A n \in 1..Len(s) : n # 1 => n - 1 \in 1..(Len(s) - 1) /\ (n - 1) + 1 = n
  BY <1>1
<1> QED
  BY <1>1, <1>2, <1>3, <1>4

LEMMA AppendOf ==
  ASSUME NEW s \in Seq(Message), NEW m \in Message
  PROVE  /\ DOMAIN Append(s, m) = DOMAIN s \cup {Len(s) + 1}
         /\ Append(s, m)[Len(s) + 1] = m
         /\ \A n \in DOMAIN s : n \in Nat /\ n < Len(s) + 1 /\ Append(s, m)[n] = s[n]
         /\ Len(s) \in Nat
<1>1. /\ DOMAIN Append(s, m) = 1..(Len(s) + 1) /\ DOMAIN s = 1..Len(s) /\ Len(s) \in Nat
      /\ Append(s, m)[Len(s) + 1] = m
      /\ \A n \in 1..Len(s) : Append(s, m)[n] = s[n]
  OBVIOUS
<1> QED
  BY <1>1

-----------------------------------------------------------------------------
(***************************************************************************)
(* A write of the client joins its queue                                   *)
(***************************************************************************)
LEMMA WriteShows ==
  ASSUME NEW q \in Queue, NEW v \in Products_, NEW w \in Write, Shows(q, v)
  PROVE  Shows(Append(q, w), Apply(v, w))
<1> DEFINE r == Append(q, w)
<1> SUFFICES ASSUME NEW i \in Items, NEW f \in Fields, NEW k \in Setting(r, i, f),
                    \A n \in Setting(r, i, f) : n <= k
             PROVE  Apply(v, w)[i][f] = r[k].to[f]
  BY DEF Shows
<1>1. /\ Setting(r, i, f) =
           Setting(q, i, f) \cup (IF w.item = i /\ f \in w.sets THEN {Len(q) + 1} ELSE {})
      /\ \A n \in Setting(q, i, f) : n \in 1..Len(q) /\ r[n] = q[n]
      /\ r[Len(q) + 1] = w /\ Len(q) \in Nat
  BY SettingAppend, QueueAppend DEF Setting
<1>2. Apply(v, w)[i][f] = IF w.item = i /\ f \in w.sets THEN w.to[f] ELSE v[i][f]
  BY ApplyField
<1> HIDE DEF r
<1>3. CASE w.item = i /\ f \in w.sets
  <2>1. Len(q) + 1 <= k
    BY <1>1, <1>3
  <2>2. k \notin Setting(q, i, f)
    BY <1>1, <2>1
  <2>3. k = Len(q) + 1
    BY <1>1, <1>3, <2>2
  <2> QED
    BY <1>1, <1>2, <1>3, <2>3
<1>4. CASE ~(w.item = i /\ f \in w.sets)
  <2>1. Setting(r, i, f) = Setting(q, i, f)
    BY <1>1, <1>4
  <2>2. v[i][f] = q[k].to[f]
    BY <2>1 DEF Shows
  <2> QED
    BY <1>1, <1>2, <1>4, <2>1, <2>2
<1> QED
  BY <1>3, <1>4

LEMMA WriteInOrder ==
  ASSUME NEW c, NEW q \in Queue, NEW w \in Write, NEW t \in Nat, NEW s,
         InOrder(c, q, t, s)
  PROVE  InOrder(c, Append(q, w), t, s)
<1> DEFINE r == Append(q, w)
<1>1. /\ Len(r) = Len(q) + 1 /\ Len(q) \in Nat
      /\ Unanswered(r) = Unanswered(q) \cup {Len(q) + 1}
      /\ \A k \in Unanswered(q) : r[k] = q[k]
  BY QueueAppend
<1> HIDE DEF r
<1>2. t <= Len(q) /\ t <= Len(r) /\ ~(Len(q) + 1 <= t)
  BY <1>1 DEF InOrder
<1>3. InOrder(c, r, t, s)
  BY <1>1, <1>2 DEF InOrder
<1> QED
  BY <1>3 DEF r

LEMMA WriteFollows ==
  ASSUME NEW q \in Queue, NEW v \in Products_, NEW w \in Write, NEW s, NEW p,
         Follows(q, v, s, p)
  PROVE  Follows(Append(q, w), Apply(v, w), s, p)
<1>1. ASSUME NEW i \in Items, NEW f \in Fields, Setting(Append(q, w), i, f) = {}
      PROVE  Setting(q, i, f) = {} /\ Apply(v, w)[i][f] = v[i][f]
  BY <1>1, SettingAppend, ApplyField
<1> QED
  BY <1>1 DEF Follows

-----------------------------------------------------------------------------
(***************************************************************************)
(* The server takes a write and sends it                                   *)
(***************************************************************************)
LEMMA OwnSent ==
  ASSUME NEW c, NEW q \in Queue, NEW t \in Nat, NEW s \in Seq(Message), InOrder(c, q, t, s),
         NEW k \in Unanswered(q), t < k, \A j \in Unanswered(q) : t < j => k <= j,
         NEW m \in Message, OwnAnswer(c, m), m.number = k, m.write = q[k]
  PROVE  InOrder(c, q, k, Append(s, m))
<1> DEFINE r == Append(s, m)
           l == Len(s) + 1
<1>1. /\ DOMAIN r = DOMAIN s \cup {l} /\ r[l] = m /\ l \in Nat
      /\ \A n \in DOMAIN s : n \in Nat /\ n < l /\ r[n] = s[n]
  BY AppendOf
<1>2. \A j \in Unanswered(q) : j \in 1..Len(q)
  BY DEF Unanswered, Queue
<1>3. Len(q) \in Nat
  BY DEF Queue
<1> HIDE DEF r, l
<1>4. ASSUME NEW n \in DOMAIN r, OwnAnswer(c, r[n])
      PROVE  /\ r[n].number \in Unanswered(q) /\ r[n].number <= k
             /\ r[n].write = q[r[n].number]
             /\ n # l => r[n].number < k
  <2>1. CASE n = l
    BY <1>1, <1>2, <2>1
  <2>2. CASE n \in DOMAIN s
    <3>1. /\ s[n].number \in Unanswered(q) /\ s[n].number <= t /\ s[n].write = q[s[n].number]
          /\ r[n] = s[n]
      BY <1>1, <1>4, <2>2 DEF InOrder
    <3>2. s[n].number \in Nat /\ k \in Nat
      BY <1>2, <3>1
    <3> QED
      BY <3>1, <3>2
  <2> QED
    BY <1>1, <2>1, <2>2
<1>5. ASSUME NEW a \in DOMAIN r, NEW b \in DOMAIN r, a < b,
             OwnAnswer(c, r[a]), OwnAnswer(c, r[b])
      PROVE  r[a].number < r[b].number
  <2>1. a \in DOMAIN s /\ a # l
    BY <1>1, <1>5
  <2>2. CASE b = l
    BY <1>1, <1>4, <1>5, <2>1, <2>2
  <2>3. CASE b \in DOMAIN s
    BY <1>1, <1>5, <2>1, <2>3 DEF InOrder
  <2> QED
    BY <1>1, <2>2, <2>3
<1>6. ASSUME NEW j \in Unanswered(q), j <= k
      PROVE  \E n \in DOMAIN r : OwnAnswer(c, r[n]) /\ r[n].number = j
  <2>1. CASE j <= t
    BY <1>1, <2>1 DEF InOrder
  <2>2. CASE t < j
    <3>1. j = k
      BY <1>2, <1>6, <2>2
    <3> QED
      BY <1>1, <3>1
  <2> QED
    BY <1>2, <2>1, <2>2
<1>7. k <= Len(q)
  BY <1>2, <1>3
<1>8. InOrder(c, q, k, r)
  BY <1>4, <1>5, <1>6, <1>7 DEF InOrder
<1> QED
  BY <1>8 DEF r

LEMMA ForeignSent ==
  ASSUME NEW c, NEW q, NEW t, NEW s \in Seq(Message), InOrder(c, q, t, s),
         NEW m \in Message, ~OwnAnswer(c, m)
  PROVE  InOrder(c, q, t, Append(s, m))
<1> DEFINE r == Append(s, m)
<1>1. /\ DOMAIN r = DOMAIN s \cup {Len(s) + 1} /\ r[Len(s) + 1] = m
      /\ \A n \in DOMAIN s : r[n] = s[n]
  BY AppendOf
<1> HIDE DEF r
<1>2. /\ \A n \in DOMAIN r : OwnAnswer(c, r[n]) => n \in DOMAIN s /\ r[n] = s[n]
      /\ \A n \in DOMAIN s : n \in DOMAIN r /\ r[n] = s[n]
  BY <1>1
<1>3. InOrder(c, q, t, r)
  BY <1>2 DEF InOrder
<1> QED
  BY <1>3 DEF r

LEMMA SentFollows ==
  ASSUME NEW q, NEW v, NEW s \in Seq(Message), NEW p \in Products_, Follows(q, v, s, p),
         NEW m \in Message, m.kind = "write"
  PROVE  Follows(q, v, Append(s, m), Apply(p, m.write))
<1> DEFINE r == Append(s, m)
           l == Len(s) + 1
           o == Apply(p, m.write)
<1>1. /\ DOMAIN r = DOMAIN s \cup {l} /\ r[l] = m /\ l \in Nat
      /\ \A n \in DOMAIN s : n \in Nat /\ n < l /\ r[n] = s[n]
  BY AppendOf
<1>2. m.write \in Write
  BY DEF Message
<1>3. ASSUME NEW i \in Items, NEW f \in Fields
      PROVE  o[i][f] = IF Tells(m, i, f) THEN Told(m, i, f) ELSE p[i][f]
  BY <1>2, ApplyField DEF Tells, Told
<1> HIDE DEF r, l, o
<1>4. ASSUME NEW i \in Items, NEW f \in Fields, NEW n \in DOMAIN r,
             Tells(r[n], i, f), \A a \in DOMAIN r : a > n => ~Tells(r[a], i, f)
      PROVE  Told(r[n], i, f) = o[i][f]
  <2>1. CASE n = l
    BY <1>1, <1>3, <1>4, <2>1
  <2>2. CASE n \in DOMAIN s
    <3>1. ~Tells(m, i, f)
      BY <1>1, <1>4, <2>2
    <3>2. Tells(s[n], i, f) /\ \A a \in DOMAIN s : a > n => ~Tells(s[a], i, f)
      BY <1>1, <1>4, <2>2
    <3>3. Told(s[n], i, f) = p[i][f]
      BY <2>2, <3>2 DEF Follows
    <3> QED
      BY <1>1, <1>3, <2>2, <3>1, <3>3
  <2> QED
    BY <1>1, <2>1, <2>2
<1>5. ASSUME NEW i \in Items, NEW f \in Fields, Setting(q, i, f) = {},
             \A n \in DOMAIN r : ~Tells(r[n], i, f)
      PROVE  v[i][f] = o[i][f]
  <2>1. ~Tells(m, i, f) /\ \A n \in DOMAIN s : ~Tells(s[n], i, f)
    BY <1>1, <1>5
  <2>2. v[i][f] = p[i][f]
    BY <1>5, <2>1 DEF Follows
  <2> QED
    BY <1>3, <2>1, <2>2
<1>6. Follows(q, v, r, o)
  BY <1>4, <1>5 DEF Follows
<1> QED
  BY <1>6 DEF r, o

-----------------------------------------------------------------------------
(***************************************************************************)
(* A message arrives: the view goes from v to u                            *)
(***************************************************************************)
Receives(q, v, m, u) ==
    \A i \in Items, f \in Fields :
        u[i][f] = IF Tells(m, i, f) /\ Setting(q, i, f) = {} THEN Told(m, i, f) ELSE v[i][f]

LEMMA ReceiveShows ==
  ASSUME NEW q, NEW v, NEW m, NEW u, Shows(q, v), Receives(q, v, m, u)
  PROVE  Shows(q, u)
BY DEF Shows, Receives

LEMMA ReceiveFollows ==
  ASSUME NEW q, NEW v, NEW s \in Seq(Message), NEW p, NEW u, s # <<>>,
         Follows(q, v, s, p), Receives(q, v, Head(s), u)
  PROVE  Follows(q, u, Tail(s), p)
<1> DEFINE r == Tail(s)
           m == Head(s)
<1>1. /\ 1 \in DOMAIN s /\ s[1] = m
      /\ \A n \in DOMAIN r : n \in Nat /\ n + 1 \in DOMAIN s /\ n + 1 > 1 /\ r[n] = s[n + 1]
      /\ \A n \in DOMAIN s : n \in Nat /\ (n # 1 => n > 1 /\ n - 1 \in DOMAIN r
                                                      /\ r[n - 1] = s[n])
  BY TailOf
<1> HIDE DEF r, m
<1>2. ASSUME NEW i \in Items, NEW f \in Fields, NEW n \in DOMAIN r,
             Tells(r[n], i, f), \A a \in DOMAIN r : a > n => ~Tells(r[a], i, f)
      PROVE  Told(r[n], i, f) = p[i][f]
  <2>1. ASSUME NEW a \in DOMAIN s, a > n + 1
        PROVE  ~Tells(s[a], i, f)
    <3>1. n \in Nat /\ a \in Nat /\ a # 1
      BY <1>1, <2>1
    <3>2. a - 1 \in DOMAIN r /\ a - 1 > n /\ r[a - 1] = s[a]
      BY <1>1, <2>1, <3>1
    <3> QED
      BY <1>2, <3>2
  <2>2. n + 1 \in DOMAIN s /\ r[n] = s[n + 1]
    BY <1>1
  <2> QED
    BY <1>2, <2>1, <2>2 DEF Follows
<1>3. ASSUME NEW i \in Items, NEW f \in Fields, Setting(q, i, f) = {},
             \A n \in DOMAIN r : ~Tells(r[n], i, f)
      PROVE  u[i][f] = p[i][f]
  <2>1. \A n \in DOMAIN s : n > 1 => ~Tells(s[n], i, f)
    <3>1. ASSUME NEW n \in DOMAIN s, n > 1
          PROVE  n - 1 \in DOMAIN r /\ r[n - 1] = s[n]
      BY <1>1, <3>1
    <3> QED
      BY <1>3, <3>1
  <2>2. u[i][f] = IF Tells(m, i, f) THEN Told(m, i, f) ELSE v[i][f]
    BY <1>3 DEF Receives, m
  <2>3. CASE Tells(m, i, f)
    <3>1. Told(s[1], i, f) = p[i][f]
      BY <1>1, <2>1, <2>3 DEF Follows
    <3> QED
      BY <1>1, <2>2, <2>3, <3>1
  <2>4. CASE ~Tells(m, i, f)
    <3>1. \A n \in DOMAIN s : ~Tells(s[n], i, f)
      <4>1. \A n \in DOMAIN s : n = 1 \/ n > 1
        BY <1>1
      <4> QED
        BY <1>1, <2>1, <2>4, <4>1
    <3>2. v[i][f] = p[i][f]
      BY <1>3, <3>1 DEF Follows
    <3> QED
      BY <2>2, <2>4, <3>2
  <2> QED
    BY <2>3, <2>4
<1>4. Follows(q, u, r, p)
  BY <1>2, <1>3 DEF Follows
<1> QED
  BY <1>4 DEF r

LEMMA ForeignReceived ==
  ASSUME NEW c, NEW q, NEW t, NEW s \in Seq(Message), s # <<>>,
         InOrder(c, q, t, s), ~OwnAnswer(c, Head(s))
  PROVE  InOrder(c, q, t, Tail(s))
<1> DEFINE r == Tail(s)
<1>1. /\ 1 \in DOMAIN s /\ s[1] = Head(s)
      /\ \A n \in DOMAIN r : n \in Nat /\ n + 1 \in DOMAIN s /\ r[n] = s[n + 1]
      /\ \A n \in DOMAIN s : n # 1 => n - 1 \in DOMAIN r /\ r[n - 1] = s[n]
  BY TailOf
<1> HIDE DEF r
<1>2. ASSUME NEW n \in DOMAIN r, OwnAnswer(c, r[n])
      PROVE  /\ r[n].number \in Unanswered(q) /\ r[n].number <= t
             /\ r[n].write = q[r[n].number]
  BY <1>1, <1>2 DEF InOrder
<1>3. ASSUME NEW a \in DOMAIN r, NEW b \in DOMAIN r, a < b,
             OwnAnswer(c, r[a]), OwnAnswer(c, r[b])
      PROVE  r[a].number < r[b].number
  <2>1. a + 1 < b + 1
    BY <1>1, <1>3
  <2> QED
    BY <1>1, <1>3, <2>1 DEF InOrder
<1>4. ASSUME NEW k \in Unanswered(q), k <= t
      PROVE  \E n \in DOMAIN r : OwnAnswer(c, r[n]) /\ r[n].number = k
  <2>1. PICK n \in DOMAIN s : OwnAnswer(c, s[n]) /\ s[n].number = k
    BY <1>4 DEF InOrder
  <2>2. n # 1
    BY <1>1, <2>1
  <2> QED
    BY <1>1, <2>1, <2>2
<1>5. t <= Len(q)
  BY DEF InOrder
<1>6. InOrder(c, q, t, r)
  BY <1>2, <1>3, <1>4, <1>5 DEF InOrder
<1> QED
  BY <1>6 DEF r

(* The first own answer on its way is that of the oldest unanswered write. *)
LEMMA AnswersOldest ==
  ASSUME NEW c, NEW q \in Queue, NEW t \in Nat, NEW s \in Seq(Message), s # <<>>,
         InOrder(c, q, t, s), OwnAnswer(c, Head(s))
  PROVE  /\ Head(s).number \in Unanswered(q)
         /\ Head(s).number <= t
         /\ Head(s).write = q[Head(s).number]
         /\ \A j \in Unanswered(q) : Head(s).number <= j
<1> DEFINE k == Head(s).number
<1>1. /\ 1 \in DOMAIN s /\ s[1] = Head(s)
      /\ \A n \in DOMAIN s : n \in Nat /\ (n # 1 => n > 1)
  BY TailOf
<1>2. k \in Unanswered(q) /\ k <= t /\ Head(s).write = q[k]
  BY <1>1 DEF InOrder
<1>3. \A j \in Unanswered(q) : j \in Nat
  BY DEF Unanswered, Queue
<1>4. ASSUME NEW j \in Unanswered(q), j < k
      PROVE  FALSE
  <2>1. j <= t
    BY <1>2, <1>3, <1>4
  <2>2. PICK n \in DOMAIN s : OwnAnswer(c, s[n]) /\ s[n].number = j
    BY <2>1 DEF InOrder
  <2>3. n # 1
    BY <1>1, <1>3, <1>4, <2>2
  <2>4. 1 < n
    BY <1>1, <2>3
  <2>5. k < j
    BY <1>1, <2>2, <2>4 DEF InOrder
  <2> QED
    BY <1>2, <1>3, <1>4, <2>5
<1> QED
  BY <1>2, <1>3, <1>4

LEMMA OwnReceived ==
  ASSUME NEW c, NEW q \in Queue, NEW t \in Nat, NEW s \in Seq(Message), s # <<>>,
         InOrder(c, q, t, s), OwnAnswer(c, Head(s)),
         NEW v, NEW u, NEW p, Shows(q, v), Receives(q, v, Head(s), u)
  PROVE  LET r == [q EXCEPT ![Head(s).number] = Null]
         IN  /\ Shows(r, u)
             /\ InOrder(c, r, t, Tail(s))
             /\ Follows(q, v, s, p) => Follows(r, u, Tail(s), p)
<1> DEFINE m == Head(s)
           k == m.number
           r == [q EXCEPT ![k] = Null]
           o == Tail(s)
<1>1. /\ k \in Unanswered(q) /\ k <= t /\ m.write = q[k]
      /\ \A j \in Unanswered(q) : k <= j
  BY AnswersOldest
<1>2. /\ Len(r) = Len(q)
      /\ Unanswered(r) = Unanswered(q) \ {k}
      /\ \A n \in Unanswered(r) : r[n] = q[n]
  BY <1>1, QueueAnswer
<1>3. \A i \in Items, f \in Fields : Setting(r, i, f) = Setting(q, i, f) \ {k}
  BY <1>1, SettingAnswer
<1>4. \A j \in Unanswered(q) : j \in Nat
  BY DEF Unanswered, Queue
<1>5. /\ 1 \in DOMAIN s /\ s[1] = m
      /\ \A n \in DOMAIN o : n \in Nat /\ n + 1 \in DOMAIN s /\ n + 1 > 1 /\ o[n] = s[n + 1]
      /\ \A n \in DOMAIN s : n \in Nat /\ (n # 1 => n > 1 /\ n - 1 \in DOMAIN o
                                                      /\ o[n - 1] = s[n])
  BY TailOf
<1>6. m.kind = "write" /\ Receives(q, v, m, u)
  BY DEF OwnAnswer
<1>7. OwnAnswer(c, m)
  OBVIOUS
<1>8. Follows(q, v, s, p) => Follows(q, u, o, p)
  BY ReceiveFollows
<1> HIDE DEF r, o, m, k
<1>9. Shows(r, u)
  <2> SUFFICES ASSUME NEW i \in Items, NEW f \in Fields, NEW n \in Setting(r, i, f),
                      \A j \in Setting(r, i, f) : j <= n
               PROVE  u[i][f] = r[n].to[f]
    BY DEF Shows
  <2>1. n \in Setting(q, i, f) /\ r[n] = q[n] /\ k <= n
    BY <1>1, <1>2, <1>3 DEF Setting
  <2>2. \A j \in Setting(q, i, f) : j <= n
    BY <1>3, <2>1
  <2>3. v[i][f] = q[n].to[f]
    BY <2>1, <2>2 DEF Shows
  <2>4. u[i][f] = v[i][f]
    BY <1>6, <2>1 DEF Receives
  <2> QED
    BY <2>1, <2>3, <2>4
<1>10. InOrder(c, r, t, o)
  <2>1. t <= Len(r)
    BY <1>2 DEF InOrder
  <2>2. ASSUME NEW n \in DOMAIN o, OwnAnswer(c, o[n])
        PROVE  /\ o[n].number \in Unanswered(r) /\ o[n].number <= t
               /\ o[n].write = r[o[n].number]
    <3>1. /\ n + 1 \in DOMAIN s /\ 1 < n + 1 /\ o[n] = s[n + 1]
      BY <1>5
    <3>2. s[n + 1].number \in Unanswered(q) /\ s[n + 1].number <= t
          /\ s[n + 1].write = q[s[n + 1].number]
      BY <2>2, <3>1 DEF InOrder
    <3>3. s[1].number < s[n + 1].number
      BY <1>5, <1>7, <2>2, <3>1 DEF InOrder
    <3>4. o[n].number # k
      BY <1>1, <1>4, <1>5, <3>1, <3>2, <3>3 DEF k
    <3> QED
      BY <1>2, <3>1, <3>2, <3>4
  <2>3. ASSUME NEW a \in DOMAIN o, NEW b \in DOMAIN o, a < b,
               OwnAnswer(c, o[a]), OwnAnswer(c, o[b])
        PROVE  o[a].number < o[b].number
    <3>1. a + 1 < b + 1
      BY <1>5, <2>3
    <3> QED
      BY <1>5, <2>3, <3>1 DEF InOrder
  <2>4. ASSUME NEW j \in Unanswered(r), j <= t
        PROVE  \E n \in DOMAIN o : OwnAnswer(c, o[n]) /\ o[n].number = j
    <3>1. j \in Unanswered(q) /\ j # k
      BY <1>2
    <3>2. PICK n \in DOMAIN s : OwnAnswer(c, s[n]) /\ s[n].number = j
      BY <2>4, <3>1 DEF InOrder
    <3>3. n # 1
      BY <1>5, <3>1, <3>2 DEF k
    <3> QED
      BY <1>5, <3>2, <3>3
  <2> QED
    BY <2>1, <2>2, <2>3, <2>4 DEF InOrder
<1>11. ASSUME Follows(q, v, s, p)
       PROVE  Follows(r, u, o, p)
  <2>0. Follows(q, u, o, p)
    BY <1>8, <1>11
  <2> SUFFICES ASSUME NEW i \in Items, NEW f \in Fields, Setting(r, i, f) = {},
                      \A n \in DOMAIN o : ~Tells(o[n], i, f)
               PROVE  u[i][f] = p[i][f]
    BY <2>0 DEF Follows
  <2>1. CASE k \notin Setting(q, i, f)
    <3>1. Setting(q, i, f) = {}
      BY <1>3, <2>1
    <3> QED
      BY <2>0, <3>1 DEF Follows
  <2>2. CASE k \in Setting(q, i, f)
    <3>1. Tells(m, i, f) /\ Told(m, i, f) = q[k].to[f]
      BY <1>1, <1>6, <2>2 DEF Setting, Tells, Told
    <3>2. \A n \in DOMAIN s : n > 1 => ~Tells(s[n], i, f)
      <4>1. ASSUME NEW n \in DOMAIN s, n > 1
            PROVE  n - 1 \in DOMAIN o /\ o[n - 1] = s[n]
        BY <1>5, <4>1
      <4> QED
        BY <4>1
    <3>3. Told(m, i, f) = p[i][f]
      BY <1>5, <1>11, <3>1, <3>2 DEF Follows
    <3>4. \A n \in Setting(q, i, f) : n <= k
      BY <1>1, <1>3, <1>4
    <3>5. v[i][f] = q[k].to[f]
      BY <2>2, <3>4 DEF Shows
    <3>6. u[i][f] = v[i][f]
      BY <1>6, <2>2 DEF Receives
    <3> QED
      BY <3>1, <3>3, <3>5, <3>6
  <2> QED
    BY <2>1, <2>2
<1> QED
  BY <1>9, <1>10, <1>11 DEF r, o, m, k

-----------------------------------------------------------------------------
(***************************************************************************)
(* Every step of the database keeps the invariant                          *)
(***************************************************************************)
ClientVars(c) ==
    <<view[c], synced[c], writes[c], taken[c], push[c], connected[c]>>

LEMMA OtherClient ==
  ASSUME NEW d \in Clients, ClientInv(d), UNCHANGED <<products, ClientVars(d)>>
  PROVE  ClientInv(d)'
  BY DEF ClientInv, ClientVars

(* The types of a client's part of the state. *)
LEMMA ClientTypes ==
  ASSUME SyncTypeOK, NEW c \in Clients
  PROVE  /\ writes[c] \in Queue /\ view[c] \in Products_ /\ taken[c] \in Nat
         /\ push[c] \in Seq(Message) /\ products \in Products_
  BY DEF SyncTypeOK, Queue

LEMMA SetValueInv ==
  ASSUME SyncTypeOK, SyncInv, NEW c \in Clients, NEW w \in Write, SetValue(c, w)
  PROVE  SyncInv'
<1>1. ASSUME NEW d \in Clients, d # c
      PROVE  ClientInv(d)'
  <2>1. UNCHANGED <<products, ClientVars(d)>>
    BY <1>1 DEF SetValue, SyncTypeOK, ClientVars
  <2> QED
    BY <2>1, OtherClient DEF SyncInv
<1>2. /\ view'[c] = Apply(view[c], w)
      /\ writes'[c] = Append(writes[c], w)
      /\ UNCHANGED <<products, synced, taken, push, connected>>
  BY DEF SetValue, SyncTypeOK
<1>3. ClientInv(c)
  BY DEF SyncInv
<1>4. Shows(writes'[c], view'[c])
  BY <1>2, <1>3, ClientTypes, WriteShows DEF ClientInv
<1>5. InOrder(c, writes'[c], taken[c], push[c])
  BY <1>2, <1>3, ClientTypes, WriteInOrder DEF ClientInv
<1>6. connected[c] => Follows(writes'[c], view'[c], push[c], products)
  BY <1>2, <1>3, ClientTypes, WriteFollows DEF ClientInv
<1>7. ClientInv(c)'
  BY <1>2, <1>3, <1>4, <1>5, <1>6 DEF ClientInv
<1> QED
  BY <1>1, <1>7 DEF SyncInv

LEMMA SetTwoValuesInv ==
  ASSUME SyncTypeOK, SyncInv, NEW c \in Clients, NEW w1 \in Write, NEW w2 \in Write,
         SetTwoValues(c, w1, w2)
  PROVE  SyncInv'
<1> DEFINE v1 == Apply(view[c], w1)
           q1 == Append(writes[c], w1)
<1>1. ASSUME NEW d \in Clients, d # c
      PROVE  ClientInv(d)'
  <2>1. UNCHANGED <<products, ClientVars(d)>>
    BY <1>1 DEF SetTwoValues, SyncTypeOK, ClientVars
  <2> QED
    BY <2>1, OtherClient DEF SyncInv
<1>2. /\ view'[c] = Apply(v1, w2)
      /\ writes'[c] = Append(q1, w2)
      /\ UNCHANGED <<products, synced, taken, push, connected>>
  BY DEF SetTwoValues, SyncTypeOK
<1>3. ClientInv(c)
  BY DEF SyncInv
<1>4. /\ v1 \in Products_ /\ q1 \in Queue
      /\ taken[c] \in Nat
  BY ClientTypes, ApplyType, QueueAppend
<1>5. /\ Shows(q1, v1)
      /\ InOrder(c, q1, taken[c], push[c])
      /\ connected[c] => Follows(q1, v1, push[c], products)
  BY <1>3, ClientTypes, WriteShows, WriteInOrder, WriteFollows DEF ClientInv
<1> HIDE DEF v1, q1
<1>6. Shows(writes'[c], view'[c])
  BY <1>2, <1>4, <1>5, WriteShows
<1>7. InOrder(c, writes'[c], taken[c], push[c])
  BY <1>2, <1>4, <1>5, WriteInOrder
<1>8. connected[c] => Follows(writes'[c], view'[c], push[c], products)
  BY <1>2, <1>4, <1>5, WriteFollows
<1>9. ClientInv(c)'
  BY <1>2, <1>3, <1>6, <1>7, <1>8 DEF ClientInv
<1> QED
  BY <1>1, <1>9 DEF SyncInv

LEMMA ServerApplyInv ==
  ASSUME SyncTypeOK, SyncInv, NEW c \in Clients, ServerApply(c)
  PROVE  SyncInv'
<1>1. PICK k \in DOMAIN writes[c] :
        /\ IsNext(c, k)
        /\ products' = Apply(products, writes[c][k])
        /\ push' = [d \in Clients |->
                      IF connected[d]
                      THEN Append(push[d], [kind |-> "write", from |-> c, number |-> k,
                                            write |-> writes[c][k]])
                      ELSE push[d]]
        /\ taken' = [taken EXCEPT ![c] = k]
  BY DEF ServerApply
<1> DEFINE m == [kind |-> "write", from |-> c, number |-> k, write |-> writes[c][k]]
<1>2. /\ k \in Unanswered(writes[c]) /\ k \in Nat /\ taken[c] < k
      /\ \A j \in Unanswered(writes[c]) : taken[c] < j => k <= j
  <2>1. \A j \in Unanswered(writes[c]) : j \in Nat
    BY DEF Unanswered, SyncTypeOK
  <2>2. taken[c] \in Nat
    BY DEF SyncTypeOK
  <2> QED
    BY <1>1, <2>1, <2>2 DEF IsNext
<1>3. m \in Message
  BY <1>2 DEF Message, SyncTypeOK, Unanswered
<1>4. /\ m.kind = "write" /\ m.from = c /\ m.number = k /\ m.write = writes[c][k]
      /\ products' = Apply(products, m.write)
      /\ push' = [d \in Clients |-> IF connected[d] THEN Append(push[d], m) ELSE push[d]]
  BY <1>1
<1> HIDE DEF m
<1>5. connected[c] /\ UNCHANGED <<view, synced, writes, connected>>
  BY DEF ServerApply
<1>6. ASSUME NEW d \in Clients
      PROVE  ClientInv(d)'
  <2>1. ClientInv(d) /\ taken'[d] = IF d = c THEN k ELSE taken[d]
    BY <1>1 DEF SyncInv, SyncTypeOK
  <2>2. CASE ~connected[d]
    <3>1. push'[d] = push[d] /\ d # c /\ ~connected'[d]
      BY <1>4, <1>5, <2>2
    <3> QED
      BY <1>5, <2>1, <2>2, <3>1 DEF ClientInv
  <2>3. CASE connected[d]
    <3>1. push'[d] = Append(push[d], m)
      BY <1>4, <2>3
    <3>2. Follows(writes[d], view[d], push'[d], products')
      BY <1>3, <1>4, <2>1, <2>3, <3>1, ClientTypes, SentFollows DEF ClientInv
    <3>3. InOrder(d, writes[d], taken'[d], push'[d])
      <4>1. CASE d = c
        <5>1. InOrder(c, writes[c], k, Append(push[c], m))
          <6>1. OwnAnswer(c, m)
            BY <1>4 DEF OwnAnswer
          <6>2. InOrder(c, writes[c], taken[c], push[c])
            BY <2>1, <4>1 DEF ClientInv
          <6> QED
            BY <1>2, <1>3, <1>4, <6>1, <6>2, ClientTypes, OwnSent
        <5> QED
          BY <2>1, <3>1, <4>1, <5>1
      <4>2. CASE d # c
        <5>1. ~OwnAnswer(d, m)
          BY <1>4, <4>2 DEF OwnAnswer
        <5> QED
          BY <1>3, <2>1, <3>1, <4>2, <5>1, ClientTypes, ForeignSent DEF ClientInv
      <4> QED
        BY <4>1, <4>2
    <3>4. synced[d] \/ \E n \in DOMAIN push'[d] : push'[d][n].kind = "snapshot"
      <4>1. \A n \in DOMAIN push[d] : n \in DOMAIN push'[d] /\ push'[d][n] = push[d][n]
        BY <1>3, <3>1, ClientTypes, AppendOf
      <4> QED
        BY <2>1, <2>3, <4>1 DEF ClientInv
    <3>5. Shows(writes[d], view[d])
      BY <2>1 DEF ClientInv
    <3> QED
      BY <1>5, <2>3, <3>2, <3>3, <3>4, <3>5 DEF ClientInv
  <2> QED
    BY <2>2, <2>3
<1> QED
  BY <1>6 DEF SyncInv

LEMMA ReceiveWriteInv ==
  ASSUME SyncTypeOK, SyncInv, NEW c \in Clients, ReceiveWrite(c)
  PROVE  SyncInv'
<1> DEFINE m == Head(push[c])
           w == m.write
           shown == [view[c] EXCEPT ![w.item] =
                        Overlay(@, w.to, w.sets \ Shadowed(writes[c], w.item))]
<1>1. ASSUME NEW d \in Clients, d # c
      PROVE  ClientInv(d)'
  <2>1. UNCHANGED <<products, ClientVars(d)>>
    BY <1>1 DEF ReceiveWrite, SyncTypeOK, ClientVars
  <2> QED
    BY <2>1, OtherClient DEF SyncInv
<1>2. /\ push[c] # <<>> /\ m.kind = "write" /\ push'[c] = Tail(push[c])
      /\ view'[c] = shown
      /\ UNCHANGED <<products, synced, taken, connected>>
      /\ writes' = IF m.from = c THEN [writes EXCEPT ![c][m.number] = Null] ELSE writes
  BY DEF ReceiveWrite, SyncTypeOK
<1>3. m \in Message /\ w \in Write
  <2>1. m \in Message
    BY <1>2, ClientTypes, TailOf
  <2> QED
    BY <1>2, <2>1 DEF Message
<1>4. ASSUME NEW i \in Items, NEW f \in Fields
      PROVE  shown[i][f] = IF Tells(m, i, f) /\ Setting(writes[c], i, f) = {}
                           THEN Told(m, i, f) ELSE view[c][i][f]
  <2>1. w.item \in Items /\ view[c] \in [Items -> Product]
    BY <1>3 DEF Write, SyncTypeOK, Products_
  <2>2. shown[i] = IF i = w.item
                   THEN Overlay(view[c][i], w.to, w.sets \ Shadowed(writes[c], i))
                   ELSE view[c][i]
    BY <2>1
  <2>3. Overlay(view[c][i], w.to, w.sets \ Shadowed(writes[c], i))[f] =
           IF f \in w.sets /\ Setting(writes[c], i, f) = {} THEN w.to[f] ELSE view[c][i][f]
    BY OverlayField, ShadowedIsSetting
  <2>4. /\ Tells(m, i, f) <=> w.item = i /\ f \in w.sets
        /\ Told(m, i, f) = w.to[f]
    BY <1>2 DEF Tells, Told
  <2> HIDE DEF shown, m, w
  <2> QED
    BY <2>2, <2>3, <2>4
<1> HIDE DEF m, shown
<1>5. ClientInv(c) /\ m = Head(push[c])
  BY DEF SyncInv, m
<1>6. Receives(writes[c], view[c], m, view'[c])
  BY <1>2, <1>4 DEF Receives
<1>7. synced[c] \/ ~connected[c] \/ \E n \in DOMAIN push'[c] : push'[c][n].kind = "snapshot"
  <2> SUFFICES ASSUME ~synced[c], connected[c]
               PROVE  \E n \in DOMAIN push'[c] : push'[c][n].kind = "snapshot"
    OBVIOUS
  <2>1. PICK n \in DOMAIN push[c] : push[c][n].kind = "snapshot"
    BY <1>5 DEF ClientInv
  <2>2. n # 1
    BY <1>2, <1>5, <2>1, ClientTypes, TailOf
  <2>3. n - 1 \in DOMAIN Tail(push[c]) /\ Tail(push[c])[n - 1] = push[c][n]
    BY <1>2, <2>1, <2>2, ClientTypes, TailOf
  <2> QED
    BY <1>2, <2>1, <2>3
<1>8. ~connected[c] => FALSE
  BY <1>2, <1>5 DEF ClientInv
<1>9. CASE m.from # c
  <2>1. writes' = writes /\ ~OwnAnswer(c, m)
    BY <1>2, <1>9 DEF OwnAnswer
  <2>2. Shows(writes[c], view'[c])
    BY <1>6, <1>5, ReceiveShows DEF ClientInv
  <2>3. InOrder(c, writes[c], taken[c], push'[c])
    BY <1>2, <1>5, <2>1, ClientTypes, ForeignReceived DEF ClientInv
  <2>4. Follows(writes[c], view'[c], push'[c], products)
    BY <1>2, <1>6, <1>5, <1>8, ClientTypes, ReceiveFollows DEF ClientInv
  <2>5. ClientInv(c)'
    BY <1>2, <1>7, <1>8, <2>1, <2>2, <2>3, <2>4 DEF ClientInv
  <2> QED
    BY <1>1, <2>5 DEF SyncInv
<1>10. CASE m.from = c
  <2>1. OwnAnswer(c, m)
    BY <1>2, <1>10 DEF OwnAnswer
  <2> DEFINE q == [writes[c] EXCEPT ![Head(push[c]).number] = Null]
  <2>2. writes'[c] = q
    BY <1>2, <1>5, <1>10 DEF SyncTypeOK
  <2>3. /\ Shows(q, view'[c])
        /\ InOrder(c, q, taken[c], Tail(push[c]))
        /\ Follows(writes[c], view[c], push[c], products)
              => Follows(q, view'[c], Tail(push[c]), products)
    <3>1. /\ Shows(writes[c], view[c]) /\ InOrder(c, writes[c], taken[c], push[c])
          /\ OwnAnswer(c, Head(push[c])) /\ push[c] # <<>>
          /\ Receives(writes[c], view[c], Head(push[c]), view'[c])
      BY <1>2, <1>6, <1>5, <2>1 DEF ClientInv
    <3> HIDE DEF q
    <3> QED
      BY <3>1, ClientTypes, OwnReceived DEF q
  <2> HIDE DEF q
  <2>4. Follows(q, view'[c], push'[c], products)
    BY <1>2, <1>5, <1>8, <2>3 DEF ClientInv
  <2>5. ClientInv(c)'
    BY <1>2, <1>7, <1>8, <2>2, <2>3, <2>4 DEF ClientInv
  <2> QED
    BY <1>1, <2>5 DEF SyncInv
<1> QED
  BY <1>9, <1>10

LEMMA ReceiveSnapshotInv ==
  ASSUME SyncTypeOK, SyncInv, NEW c \in Clients, ReceiveSnapshot(c)
  PROVE  SyncInv'
<1> DEFINE m == Head(push[c])
           shown == [i \in Items |-> Overlay(view[c][i], m.products[i],
                                             Fields \ Shadowed(writes[c], i))]
<1>1. ASSUME NEW d \in Clients, d # c
      PROVE  ClientInv(d)'
  <2>1. UNCHANGED <<products, ClientVars(d)>>
    BY <1>1 DEF ReceiveSnapshot, SyncTypeOK, ClientVars
  <2> QED
    BY <2>1, OtherClient DEF SyncInv
<1>2. /\ push[c] # <<>> /\ m.kind = "snapshot" /\ push'[c] = Tail(push[c])
      /\ view'[c] = shown /\ synced'[c] = TRUE
      /\ UNCHANGED <<products, writes, taken, connected>>
  BY DEF ReceiveSnapshot, SyncTypeOK
<1>3. ASSUME NEW i \in Items, NEW f \in Fields
      PROVE  shown[i][f] = IF Tells(m, i, f) /\ Setting(writes[c], i, f) = {}
                           THEN Told(m, i, f) ELSE view[c][i][f]
  <2>1. shown[i][f] = IF f \in Fields \ Shadowed(writes[c], i)
                      THEN m.products[i][f] ELSE view[c][i][f]
    BY OverlayField
  <2>2. Tells(m, i, f) /\ Told(m, i, f) = m.products[i][f]
    BY <1>2 DEF Tells, Told
  <2> HIDE DEF shown, m
  <2> QED
    BY <2>1, <2>2, ShadowedIsSetting
<1> HIDE DEF m, shown
<1>4. Receives(writes[c], view[c], m, view'[c])
  BY <1>2, <1>3 DEF Receives
<1>5. ClientInv(c) /\ m = Head(push[c]) /\ ~OwnAnswer(c, m)
  BY <1>2 DEF SyncInv, m, OwnAnswer
<1>6. connected[c]
  BY <1>2, <1>5 DEF ClientInv
<1>7. Shows(writes[c], view'[c])
  BY <1>4, <1>5, ReceiveShows DEF ClientInv
<1>8. InOrder(c, writes[c], taken[c], push'[c])
  BY <1>2, <1>5, ClientTypes, ForeignReceived DEF ClientInv
<1>9. Follows(writes[c], view'[c], push'[c], products)
  BY <1>2, <1>4, <1>5, <1>6, ClientTypes, ReceiveFollows DEF ClientInv
<1>10. ClientInv(c)'
  BY <1>2, <1>6, <1>7, <1>8, <1>9 DEF ClientInv
<1> QED
  BY <1>1, <1>10 DEF SyncInv

(* With nothing on the way, and no write counted as taken. *)
LEMMA NothingInOrder ==
  ASSUME NEW c, NEW q \in Queue, NEW s, \A n \in DOMAIN s : ~OwnAnswer(c, s[n])
  PROVE  InOrder(c, q, 0, s)
<1>1. Len(q) \in Nat /\ \A k \in Unanswered(q) : k \in 1..Len(q)
  BY DEF Queue, Unanswered
<1> QED
  BY <1>1 DEF InOrder

LEMMA ConnectInv ==
  ASSUME SyncTypeOK, SyncInv, NEW c \in Clients, Connect(c)
  PROVE  SyncInv'
<1> DEFINE m == [kind |-> "snapshot", products |-> products]
           s == <<m>>
<1>1. ASSUME NEW d \in Clients, d # c
      PROVE  ClientInv(d)'
  <2>1. UNCHANGED <<products, ClientVars(d)>>
    BY <1>1 DEF Connect, SyncTypeOK, ClientVars
  <2> QED
    BY <2>1, OtherClient DEF SyncInv
<1>2. /\ push'[c] = s /\ taken'[c] = 0 /\ connected'[c] = TRUE
      /\ UNCHANGED <<products, view, synced, writes>>
  BY DEF Connect, SyncTypeOK, RestoredListen, RestoredPuts
<1>3. m.kind = "snapshot" /\ m.products = products
  OBVIOUS
<1> HIDE DEF m
<1>4. DOMAIN s = {1} /\ s[1] = m
  OBVIOUS
<1> HIDE DEF s
<1>5. InOrder(c, writes[c], 0, s)
  BY <1>3, <1>4, ClientTypes, NothingInOrder DEF OwnAnswer
<1>6. Follows(writes[c], view[c], s, products)
  BY <1>3, <1>4 DEF Follows, Tells, Told
<1>7. Shows(writes[c], view[c])
  BY DEF SyncInv, ClientInv
<1>8. ClientInv(c)'
  BY <1>2, <1>3, <1>4, <1>5, <1>6, <1>7 DEF ClientInv
<1> QED
  BY <1>1, <1>8 DEF SyncInv

LEMMA DisconnectInv ==
  ASSUME SyncTypeOK, SyncInv, NEW c \in Clients, Disconnect(c)
  PROVE  SyncInv'
<1>1. ASSUME NEW d \in Clients, d # c
      PROVE  ClientInv(d)'
  <2>1. UNCHANGED <<products, ClientVars(d)>>
    BY <1>1 DEF Disconnect, SyncTypeOK, ClientVars
  <2> QED
    BY <2>1, OtherClient DEF SyncInv
<1>2. /\ push'[c] = <<>> /\ taken'[c] = 0 /\ connected'[c] = FALSE
      /\ UNCHANGED <<view, writes>>
  BY DEF Disconnect, SyncTypeOK
<1>3. InOrder(c, writes[c], 0, <<>>)
  BY ClientTypes, NothingInOrder
<1>4. ClientInv(c)'
  BY <1>2, <1>3 DEF SyncInv, ClientInv
<1> QED
  BY <1>1, <1>4 DEF SyncInv

LEMMA EndProcessInv ==
  ASSUME SyncTypeOK, SyncInv, NEW c \in Clients, EndProcess(c)
  PROVE  SyncInv'
<1>1. ASSUME NEW d \in Clients, d # c
      PROVE  ClientInv(d)'
  <2>1. UNCHANGED <<products, ClientVars(d)>>
    BY <1>1 DEF EndProcess, SyncTypeOK, ClientVars
  <2> QED
    BY <2>1, OtherClient DEF SyncInv
<1>2. /\ push'[c] = <<>> /\ taken'[c] = 0 /\ connected'[c] = FALSE /\ writes'[c] = <<>>
  BY DEF EndProcess, SyncTypeOK
<1>3. <<>> \in Queue /\ Unanswered(<<>>) = {}
  BY DEF Queue, Unanswered
<1>4. InOrder(c, <<>>, 0, <<>>)
  BY <1>3, NothingInOrder
<1>5. Shows(<<>>, view'[c])
  BY <1>3 DEF Shows, Setting
<1>6. ClientInv(c)'
  BY <1>2, <1>4, <1>5 DEF ClientInv
<1> QED
  BY <1>1, <1>6 DEF SyncInv

LEMMA SyncInvStep ==
  ASSUME SyncTypeOK, SyncInv, [SyncNext(Write)]_syncVars
  PROVE  SyncInv'
<1>1. ASSUME UNCHANGED <<products, view, synced, writes, taken, push, connected>>
      PROVE  SyncInv'
  BY <1>1 DEF SyncInv, ClientInv
<1>2. ASSUME NEW c \in Clients,
             \/ \E i \in Items : Observe(c, i) \/ ObserveSingleEvent(c, i)
             \/ TakeEvent(c)
      PROVE  SyncInv'
  BY <1>1, <1>2 DEF Observe, ObserveSingleEvent, TakeEvent
<1>3. CASE UNCHANGED syncVars
  BY <1>1, <1>3 DEF syncVars
<1>4. CASE SyncNext(Write)
  <2>1. PICK c \in Clients :
          \/ \E w \in Write : SetValue(c, w)
          \/ \E w1, w2 \in Write : SetTwoValues(c, w1, w2)
          \/ \E i \in Items : Observe(c, i) \/ ObserveSingleEvent(c, i)
          \/ inbox[c] # <<>> /\ TakeEvent(c)
          \/ ServerApply(c)
          \/ ReceiveWrite(c)
          \/ ReceiveSnapshot(c)
          \/ Disconnect(c)
          \/ Connect(c)
          \/ EndProcess(c)
    BY <1>4 DEF SyncNext
  <2> QED
    BY <1>2, <2>1, SetValueInv, SetTwoValuesInv, ServerApplyInv, ReceiveWriteInv,
       ReceiveSnapshotInv, DisconnectInv, ConnectInv, EndProcessInv
<1> QED
  BY <1>3, <1>4

-----------------------------------------------------------------------------
(***************************************************************************)
(* Auction is an app that writes products: its steps are the database's    *)
(***************************************************************************)
LEMMA AuctionSteps ==
  ASSUME TypeOK, SelectionExists, [Next]_vars
  PROVE  [SyncNext(Write)]_syncVars
<1> USE DEF TypeOK
<1>1. ASSUME NEW c \in Clients, NEW i \in Items, NEW price \in Amounts,
             NEW closing \in 0..MaxTime, Submit_Auction(c, i, price, closing)
      PROVE  SyncNext(Write)
  <2> DEFINE l == [openby |-> SignedIn_UserName[c], opendate |-> CutToMinute(now),
                   closedate |-> CutToMinute(closing), startingprice |-> price]
  <2>1. l \in Listing
    BY CutType, AuctionAssumption DEF Listing
  <2> HIDE DEF l
  <2>2. SetValue(c, CreateProduct(i, l))
    BY <1>1 DEF Submit_Auction, l
  <2>3. \E w \in Write : SetValue(c, w)
    BY <2>1, <2>2, WriteTypes
  <2> QED
    BY <2>3 DEF SyncNext
<1>2. ASSUME NEW c \in Clients, NEW amount \in Amounts, Bid_Submit(c, amount)
      PROVE  SyncNext(Write)
  <2>1. selected[c].uniqueKey \in Items
    BY <1>2 DEF Bid_Submit, SelectionExists, AuctionItem
  <2>2. amount \in Nat /\ SignedIn_UserName[c] \in Users
    BY AuctionAssumption
  <2>3. \E w1, w2 \in Write : SetTwoValues(c, w1, w2)
    BY <1>2, <2>1, <2>2, WriteTypes DEF Bid_Submit
  <2> QED
    BY <2>3 DEF SyncNext
<1>3. ASSUME NEW c \in Clients, Delete_Listing(c)
      PROVE  SyncNext(Write)
  <2>1. selected[c].uniqueKey \in Items
    BY <1>3 DEF Delete_Listing, SelectionExists, AuctionItem
  <2>2. \E w \in Write : SetValue(c, w)
    BY <1>3, <2>1, WriteTypes DEF Delete_Listing
  <2> QED
    BY <2>2 DEF SyncNext
<1>4. ASSUME NEW c \in Clients, NEW a,
             \/ a \in lists[c].home /\ OpenBidScreen(c, a)
             \/ a \in lists[c].yours /\ OpenDeleteScreen(c, a)
      PROVE  SyncNext(Write)
  <2>1. a.uniqueKey \in Items
    BY <1>4 DEF Lists, AuctionItem
  <2>2. \E i \in Items : Observe(c, i) \/ ObserveSingleEvent(c, i)
    BY <1>4, <2>1 DEF OpenBidScreen, OpenDeleteScreen
  <2> QED
    BY <2>2 DEF SyncNext
<1>5. ASSUME NEW c \in Clients, ProductsCallback(c) \/ DetailCallback(c)
      PROVE  SyncNext(Write)
  <2>1. inbox[c] # <<>> /\ TakeEvent(c)
    BY <1>5 DEF ProductsCallback, DetailCallback
  <2> QED
    BY <2>1 DEF SyncNext
<1>6. ASSUME NEW c \in Clients, CallbackCrashes(c) \/ Kill(c)
      PROVE  SyncNext(Write)
  <2>1. EndProcess(c)
    BY <1>6 DEF CallbackCrashes, Kill, Stop
  <2> QED
    BY <2>1 DEF SyncNext
<1>7. ASSUME NEW c \in Clients,
             ServerStep(c) \/ ReceiveStep(c) \/ ConnectStep(c) \/ LoseConnection(c)
      PROVE  SyncNext(Write)
  <2>1. ServerApply(c) \/ ReceiveWrite(c) \/ ReceiveSnapshot(c) \/ Connect(c) \/ Disconnect(c)
    BY <1>7 DEF ServerStep, ReceiveStep, ConnectStep, LoseConnection
  <2> QED
    BY <2>1 DEF SyncNext
<1>8. ASSUME NEW c \in Clients, NEW a,
             SelectWon(c, a) \/ CloseBidScreen(c) \/ CloseDeleteScreen(c) \/ Launch(c)
      PROVE  UNCHANGED syncVars
  BY <1>8 DEF SelectWon, CloseBidScreen, CloseDeleteScreen, Launch
<1>9. CASE Tick \/ UNCHANGED vars
  BY <1>9 DEF Tick, vars
<1> QED
  BY <1>1, <1>2, <1>3, <1>4, <1>5, <1>6, <1>7, <1>8, <1>9
  DEF Next, UserStep, SystemStep, CallbackStep, FaultStep

LEMMA SyncInvInit == Init => SyncInv
<1> SUFFICES ASSUME Init, NEW c \in Clients
             PROVE  ClientInv(c)
  BY DEF SyncInv
<1>1. writes[c] = <<>> /\ push[c] = <<>> /\ taken[c] = 0 /\ connected[c] = FALSE
  BY DEF Init, SyncInit
<1>2. <<>> \in Queue /\ Unanswered(<<>>) = {}
  BY DEF Queue, Unanswered
<1>3. InOrder(c, <<>>, 0, <<>>)
  BY <1>2, NothingInOrder
<1>4. Shows(<<>>, view[c])
  BY <1>2 DEF Shows, Setting
<1> QED
  BY <1>1, <1>3, <1>4 DEF ClientInv

(* The answers come in the order of the writes, and what is neither hidden *)
(* by an own write nor on its way is what the server holds, over any       *)
(* number of lost connections and ended processes.  (FPersistentConnection *)
(* restoreState, FSyncTree applyUserOverwriteAtPath:)                      *)
THEOREM SyncInvariant == Spec => []SyncInv
<1>1. TypeOK /\ SelectionExists /\ SyncInv /\ [Next]_vars => SyncInv'
  BY AuctionSteps, SyncInvStep DEF TypeOK
<1> QED
  BY <1>1, SyncInvInit, TypeCorrect, PTL DEF Spec

(* A device reads its own writes until they are answered, whatever the     *)
(* server sends meanwhile.  (FSyncTree applyUserOverwriteAtPath:,          *)
(* applyServerOverwriteAtPath:)                                            *)
THEOREM OwnWritesAreRead == Spec => []ReadYourWrites
<1>1. SyncTypeOK /\ SyncInv => ReadYourWrites
  <2> SUFFICES ASSUME SyncTypeOK, SyncInv, NEW c \in Clients,
                      NEW k \in Unanswered(writes[c]), NEW f \in writes[c][k].sets,
                      \A n \in Unanswered(writes[c]) :
                         n > k /\ writes[c][n].item = writes[c][k].item
                            => f \notin writes[c][n].sets
               PROVE  view[c][writes[c][k].item][f] = writes[c][k].to[f]
    BY DEF ReadYourWrites
  <2> DEFINE i == writes[c][k].item
  <2>1. \A n \in Unanswered(writes[c]) : n \in Nat /\ writes[c][n] \in Write
    BY DEF SyncTypeOK, Unanswered
  <2>2. i \in Items /\ f \in Fields
    BY <2>1 DEF Write
  <2>3. k \in Setting(writes[c], i, f)
    BY DEF Setting
  <2>4. \A n \in Setting(writes[c], i, f) : n <= k
    BY <2>1 DEF Setting
  <2>5. Shows(writes[c], view[c])
    BY DEF SyncInv, ClientInv
  <2> QED
    BY <2>2, <2>3, <2>4, <2>5 DEF Shows
<1> QED
  BY <1>1, SyncInvariant, TypeCorrect, PTL DEF TypeOK

(* A connected device with nothing in flight shows what the server holds.  *)
(* (FPersistentConnection restoreState, FSyncTree)                         *)
THEOREM SettledViewsAreTheServers == Spec => []SettledViewsAgree
<1>1. SyncTypeOK /\ SyncInv => SettledViewsAgree
  <2> SUFFICES ASSUME SyncTypeOK, SyncInv, NEW c \in Clients, connected[c],
                      Unanswered(writes[c]) = {}, push[c] = <<>>
               PROVE  synced[c] /\ view[c] = products
    BY DEF SettledViewsAgree
  <2>1. /\ Follows(writes[c], view[c], <<>>, products)
        /\ synced[c] \/ \E n \in DOMAIN <<>> : push[c][n].kind = "snapshot"
    BY DEF SyncInv, ClientInv
  <2>2. DOMAIN <<>> = {}
    OBVIOUS
  <2>3. \A i \in Items, f \in Fields : Setting(writes[c], i, f) = {}
    BY DEF Setting
  <2>4. \A i \in Items, f \in Fields : view[c][i][f] = products[i][f]
    BY <2>1, <2>2, <2>3 DEF Follows
  <2>5. view[c] \in Products_ /\ products \in Products_
    BY ClientTypes
  <2> QED
    BY <2>1, <2>2, <2>4, <2>5, ProductsByField
<1> QED
  BY <1>1, SyncInvariant, TypeCorrect, PTL DEF TypeOK
=============================================================================
