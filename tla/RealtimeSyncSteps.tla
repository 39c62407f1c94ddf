------------------------- MODULE RealtimeSyncSteps --------------------------
(***************************************************************************)
(* Facts about the channels and the data of the pipeline inside the SDK;   *)
(* what each of its steps does to its state, and that it keeps the types,  *)
(* the count of the listens and the order of the puts.                     *)
(***************************************************************************)
EXTENDS RealtimeSync, FiniteSetTheorems, SequenceTheorems, TLAPS

-----------------------------------------------------------------------------
(***************************************************************************)
(* Data                                                                    *)
(***************************************************************************)
Products_ == [Items -> Product]

LEMMA WriteType == AppWrites \subseteq Write /\ Null \notin AppWrites
  BY RealtimeAssumption, NullIsNoWrite DEF Write

LEMMA OverlayType ==
  ASSUME NEW p \in Product, NEW q \in Product, NEW fs
  PROVE  Overlay(p, q, fs) \in Product
  BY DEF Overlay, Product

LEMMA ApplyType ==
  ASSUME NEW prods \in Products_, NEW w \in AppWrites
  PROVE  Apply(prods, w) \in Products_
  BY OverlayType, WriteType DEF Apply, Products_, Write

LEMMA OverlayField ==
  ASSUME NEW p, NEW q, NEW fs, NEW f \in Fields
  PROVE  Overlay(p, q, fs)[f] = IF f \in fs THEN q[f] ELSE p[f]
<1>1. CASE f = "listing"
  BY <1>1 DEF Overlay
<1>2. CASE f = "highestbidprice"
  BY <1>2 DEF Overlay
<1>3. CASE f = "highestbidder"
  BY <1>3 DEF Overlay
<1> QED
  BY <1>1, <1>2, <1>3 DEF Fields

LEMMA ApplyField ==
  ASSUME NEW p \in Products_, NEW w \in AppWrites, NEW i \in Items, NEW f \in Fields
  PROVE  Apply(p, w)[i][f] = IF w.item = i /\ f \in w.sets THEN w.to[f] ELSE p[i][f]
<1>1. Overlay(p[i], w.to, w.sets)[f] = IF f \in w.sets THEN w.to[f] ELSE p[i][f]
  BY OverlayField
<1>2. Apply(p, w)[i] = IF w.item = i THEN Overlay(p[i], w.to, w.sets) ELSE p[i]
  BY DEF Apply, Products_
<1> QED
  BY <1>1, <1>2

LEMMA ProductsByField ==
  ASSUME NEW p \in Products_, NEW q \in Products_,
         \A i \in Items, f \in Fields : p[i][f] = q[i][f]
  PROVE  p = q
<1>1. ASSUME NEW i \in Items
      PROVE  p[i] = q[i]
  <2>1. p[i] \in Product /\ q[i] \in Product
    BY DEF Products_
  <2>2. /\ p[i].listing = q[i].listing
        /\ p[i].highestbidprice = q[i].highestbidprice
        /\ p[i].highestbidder = q[i].highestbidder
    BY DEF Fields
  <2> QED
    BY <2>1, <2>2 DEF Product
<1> QED
  BY <1>1 DEF Products_

-----------------------------------------------------------------------------
(***************************************************************************)
(* Channels                                                                *)
(***************************************************************************)
LEMMA Element ==
  ASSUME NEW S, NEW s \in Seq(S), NEW n \in DOMAIN s
  PROVE  s[n] \in S /\ n \in Nat \ {0} /\ n <= Len(s)
  OBVIOUS

LEMMA Appended ==
  ASSUME NEW S, NEW s \in Seq(S), NEW m \in S
  PROVE  /\ Append(s, m) \in Seq(S)
         /\ DOMAIN Append(s, m) = DOMAIN s \cup {Len(s) + 1}
         /\ Append(s, m)[Len(s) + 1] = m
         /\ \A n \in DOMAIN s : n \in Nat /\ n < Len(s) + 1 /\ Append(s, m)[n] = s[n]
         /\ Len(s) \in Nat
         /\ Len(Append(s, m)) = Len(s) + 1
<1> DEFINE r == Append(s, m)
<1>1. /\ r \in Seq(S) /\ Len(r) = Len(s) + 1 /\ Len(s) \in Nat
      /\ DOMAIN s = 1..Len(s) /\ DOMAIN r = 1..(Len(s) + 1)
      /\ \A k \in 1..Len(s) : r[k] = s[k]
      /\ r[Len(s) + 1] = m
  OBVIOUS
<1> HIDE DEF r
<1>2. DOMAIN r = DOMAIN s \cup {Len(s) + 1}
  BY <1>1
<1>3. \A n \in DOMAIN s : n \in Nat /\ n < Len(s) + 1 /\ r[n] = s[n]
  BY <1>1
<1> QED
  BY <1>1, <1>2, <1>3 DEF r

(* r is s without its element at n. *)
Removed(s, n, r) ==
    /\ n \in DOMAIN s
    /\ DOMAIN s = 1..Len(s) /\ DOMAIN r = 1..(Len(s) - 1) /\ Len(s) \in Nat
    /\ \A k \in DOMAIN r : r[k] = IF k < n THEN s[k] ELSE s[k + 1]

(* Where an element of r was, and where one of s goes. *)
Old(n, k) == IF k < n THEN k ELSE k + 1
New(n, k) == IF k < n THEN k ELSE k - 1

LEMMA RemovedOldNew ==
  ASSUME NEW s, NEW n, NEW r, Removed(s, n, r)
  PROVE  /\ \A k \in DOMAIN r : Old(n, k) \in DOMAIN s /\ Old(n, k) # n /\ r[k] = s[Old(n, k)]
         /\ \A k \in DOMAIN s : k # n => /\ New(n, k) \in DOMAIN r
                                        /\ r[New(n, k)] = s[k] /\ Old(n, New(n, k)) = k
         /\ \A j, k \in DOMAIN r : j < k <=> Old(n, j) < Old(n, k)
         /\ \A j, k \in DOMAIN s : j # n /\ k # n => (j < k <=> New(n, j) < New(n, k))
         /\ \A j, k \in DOMAIN r : Old(n, j) = Old(n, k) => j = k
<1>1. /\ n \in 1..Len(s) /\ DOMAIN s = 1..Len(s) /\ DOMAIN r = 1..(Len(s) - 1)
      /\ Len(s) \in Nat
  BY DEF Removed
<1>2. \A k \in DOMAIN r : Old(n, k) \in DOMAIN s /\ Old(n, k) # n /\ r[k] = s[Old(n, k)]
  BY <1>1 DEF Removed, Old
<1>3. ASSUME NEW k \in DOMAIN s, k # n
      PROVE  New(n, k) \in DOMAIN r /\ r[New(n, k)] = s[k] /\ Old(n, New(n, k)) = k
  <2>1. New(n, k) \in DOMAIN r /\ Old(n, New(n, k)) = k
    BY <1>1, <1>3 DEF Old, New
  <2> QED
    BY <1>2, <2>1
<1>4. \A j, k \in DOMAIN r : j < k <=> Old(n, j) < Old(n, k)
  BY <1>1 DEF Old
<1>5. \A j, k \in DOMAIN s : j # n /\ k # n => (j < k <=> New(n, j) < New(n, k))
  BY <1>1 DEF New
<1>6. \A j, k \in DOMAIN r : Old(n, j) = Old(n, k) => j = k
  BY <1>1 DEF Old
<1> QED
  BY <1>2, <1>3, <1>4, <1>5, <1>6

LEMMA RemoveAtRemoves ==
  ASSUME NEW S, NEW s \in Seq(S), NEW n \in DOMAIN s
  PROVE  RemoveAt(s, n) \in Seq(S) /\ Removed(s, n, RemoveAt(s, n))
<1> DEFINE a == SubSeq(s, 1, n - 1)
           b == SubSeq(s, n + 1, Len(s))
<1>1. n \in 1..Len(s) /\ Len(s) \in Nat /\ DOMAIN s = 1..Len(s)
  OBVIOUS
<1>2. a \in Seq(S) /\ Len(a) = n - 1 /\ \A k \in 1..(n - 1) : a[k] = s[k]
  <2>1. \A k \in 1..(n - 1) : s[k] \in S
    BY <1>1
  <2> QED
    BY <1>1, <2>1
<1>3. b \in Seq(S) /\ Len(b) = Len(s) - n /\ \A k \in 1..(Len(s) - n) : b[k] = s[k + n]
  <2>1. \A k \in (n + 1)..Len(s) : s[k] \in S
    BY <1>1
  <2>2. b \in Seq(S)
    BY <1>1, <2>1
  <2>3. Len(b) = Len(s) - n
    BY <1>1
  <2>4. ASSUME NEW k \in 1..(Len(s) - n)
        PROVE  b[k] = s[k + n]
    BY <1>1, <2>4
  <2> QED
    BY <2>2, <2>3, <2>4
<1> HIDE DEF a, b
<1>4. /\ a \o b \in Seq(S) /\ Len(a \o b) = Len(a) + Len(b)
      /\ \A k \in 1..(Len(a) + Len(b)) :
             (a \o b)[k] = IF k <= Len(a) THEN a[k] ELSE b[k - Len(a)]
  BY <1>2, <1>3, ConcatProperties
<1>5. Len(a) + Len(b) = Len(s) - 1
  BY <1>1, <1>2, <1>3
<1>7. ASSUME NEW k \in 1..(Len(s) - 1)
      PROVE  (a \o b)[k] = IF k < n THEN s[k] ELSE s[k + 1]
  <2>1. CASE k < n
    BY <1>1, <1>2, <1>4, <1>5, <2>1
  <2>2. CASE ~(k < n)
    <3>1. ~(k <= Len(a)) /\ k - Len(a) \in 1..(Len(s) - n) /\ (k - Len(a)) + n = k + 1
      BY <1>1, <1>2, <2>2
    <3> QED
      BY <1>3, <1>4, <1>5, <2>2, <3>1
  <2> QED
    BY <2>1, <2>2
<1>8. DOMAIN (a \o b) = 1..(Len(s) - 1)
  BY <1>4, <1>5
<1>6. RemoveAt(s, n) = a \o b
  BY DEF RemoveAt, a, b
<1> QED
  BY <1>1, <1>4, <1>6, <1>7, <1>8 DEF Removed

LEMMA TailRemoves ==
  ASSUME NEW S, NEW s \in Seq(S), s # <<>>
  PROVE  Tail(s) \in Seq(S) /\ Removed(s, 1, Tail(s)) /\ s[1] = Head(s) /\ 1 \in DOMAIN s
<1>1. /\ DOMAIN Tail(s) = 1..(Len(s) - 1) /\ DOMAIN s = 1..Len(s) /\ Len(s) \in Nat \ {0}
      /\ Head(s) = s[1] /\ Tail(s) \in Seq(S)
  OBVIOUS
<1>2. \A k \in 1..(Len(s) - 1) : Tail(s)[k] = s[k + 1]
  BY <1>1
<1> QED
  BY <1>1, <1>2 DEF Removed

-----------------------------------------------------------------------------
(***************************************************************************)
(* Listens and puts in a channel                                           *)
(***************************************************************************)
LEMMA ListensAppended ==
  ASSUME NEW S, NEW s \in Seq(S), NEW m \in S, NEW node
  PROVE  /\ IsListen(m, node) =>
              ListensIn(Append(s, m), node) = ListensIn(s, node) \cup {Len(s) + 1}
         /\ ~IsListen(m, node) => ListensIn(Append(s, m), node) = ListensIn(s, node)
<1> HIDE DEF IsListen
<1> QED
  BY Appended DEF ListensIn

Once(s, node) == \A j, k \in ListensIn(s, node) : j = k

LEMMA ListensRemoved ==
  ASSUME NEW s, NEW n, NEW r, Removed(s, n, r), NEW node
  PROVE  /\ ListensIn(r, node) = {} <=> ListensIn(s, node) \subseteq {n}
         /\ Once(s, node) => Once(r, node)
<1>1. \A k \in ListensIn(r, node) : Old(n, k) \in ListensIn(s, node) \ {n}
  BY RemovedOldNew DEF ListensIn
<1>2. \A k \in ListensIn(s, node) : k # n => New(n, k) \in ListensIn(r, node)
  BY RemovedOldNew DEF ListensIn
<1>3. \A j, k \in ListensIn(r, node) : Old(n, j) = Old(n, k) => j = k
  BY RemovedOldNew DEF ListensIn
<1> QED
  BY <1>1, <1>2, <1>3 DEF Once

PutsAt(s) == {m \in DOMAIN s : s[m].kind = "put"}

LEMMA PutsOf ==
  ASSUME NEW s
  PROVE  \A k : k \in Puts(s) <=> \E n \in PutsAt(s) : s[n].number = k
  BY DEF Puts, PutsAt

LEMMA PutsAppended ==
  ASSUME NEW S, NEW s \in Seq(S), NEW m \in S
  PROVE  /\ m.kind = "put" => Puts(Append(s, m)) = Puts(s) \cup {m.number}
         /\ m.kind # "put" => Puts(Append(s, m)) = Puts(s)
<1> DEFINE r == Append(s, m)
           new == IF m.kind = "put" THEN {m.number} ELSE {}
<1>1. /\ DOMAIN r = DOMAIN s \cup {Len(s) + 1} /\ r[Len(s) + 1] = m
      /\ \A n \in DOMAIN s : r[n] = s[n]
  BY Appended
<1> HIDE DEF r
<1>2. PutsAt(r) = PutsAt(s) \cup (IF m.kind = "put" THEN {Len(s) + 1} ELSE {})
  BY <1>1 DEF PutsAt
<1>3. \A n \in PutsAt(s) : r[n] = s[n]
  BY <1>1 DEF PutsAt
<1>4. ASSUME NEW k
      PROVE  k \in Puts(r) <=> k \in Puts(s) \/ k \in new
  <2>1. k \in Puts(r) <=> \E n \in PutsAt(r) : r[n].number = k
    BY PutsOf
  <2>2. k \in Puts(s) <=> \E n \in PutsAt(s) : s[n].number = k
    BY PutsOf
  <2> QED
    BY <1>1, <1>2, <1>3, <2>1, <2>2
<1> HIDE DEF new
<1>5. Puts(r) = Puts(s) \cup new
  BY <1>4
<1> QED
  BY <1>5 DEF r, new

LEMMA PutsRemoved ==
  ASSUME NEW s, NEW n, NEW r, Removed(s, n, r), Ascending(s), Puts(s) \subseteq Nat
  PROVE  /\ s[n].kind = "put" => Puts(r) = Puts(s) \ {s[n].number}
         /\ s[n].kind # "put" => Puts(r) = Puts(s)
         /\ Ascending(r)
<1>1. \A k \in PutsAt(r) : Old(n, k) \in PutsAt(s) \ {n} /\ r[k] = s[Old(n, k)]
  BY RemovedOldNew DEF PutsAt
<1>2. \A k \in PutsAt(s) : k # n => New(n, k) \in PutsAt(r) /\ r[New(n, k)] = s[k]
  BY RemovedOldNew DEF PutsAt
<1>3. ASSUME NEW j \in PutsAt(s), NEW k \in PutsAt(s), j # k
      PROVE  s[j].number # s[k].number
  <2>1. j \in Nat /\ k \in Nat
    BY DEF Removed, PutsAt
  <2>2. s[j].number \in Nat /\ s[k].number \in Nat
    BY PutsOf
  <2>3. j < k => s[j].number < s[k].number
    BY DEF Ascending, PutsAt
  <2>4. k < j => s[k].number < s[j].number
    BY DEF Ascending, PutsAt
  <2> QED
    BY <1>3, <2>1, <2>2, <2>3, <2>4
<1>4. ASSUME s[n].kind = "put"
      PROVE  Puts(r) = Puts(s) \ {s[n].number}
  <2>1. n \in PutsAt(s)
    BY <1>4 DEF Removed, PutsAt
  <2> QED
    BY <1>1, <1>2, <1>3, <2>1, PutsOf
<1>6. ASSUME s[n].kind # "put"
      PROVE  Puts(r) = Puts(s)
  <2>1. n \notin PutsAt(s)
    BY <1>6 DEF PutsAt
  <2>2. \A k : k \in Puts(r) <=> k \in Puts(s)
    BY <1>1, <1>2, <2>1, PutsOf
  <2> QED
    BY <2>2
<1>5. Ascending(r)
  BY RemovedOldNew DEF Ascending
<1> QED
  BY <1>4, <1>5, <1>6

LEMMA AscendingAppended ==
  ASSUME NEW S, NEW s \in Seq(S), NEW m \in S, Ascending(s),
         m.kind = "put" => \A k \in Puts(s) : k < m.number
  PROVE  Ascending(Append(s, m))
<1> DEFINE r == Append(s, m)
<1> SUFFICES ASSUME NEW j \in DOMAIN r, NEW k \in DOMAIN r, j < k,
                    r[j].kind = "put", r[k].kind = "put"
             PROVE  r[j].number < r[k].number
  BY DEF Ascending
<1>1. /\ DOMAIN r = DOMAIN s \cup {Len(s) + 1} /\ r[Len(s) + 1] = m
      /\ \A n \in DOMAIN s : n \in Nat /\ n < Len(s) + 1 /\ r[n] = s[n]
      /\ Len(s) \in Nat
  BY Appended
<1> HIDE DEF r
<1>2. j \in DOMAIN s
  BY <1>1
<1>3. CASE k \in DOMAIN s
  BY <1>1, <1>2, <1>3 DEF Ascending
<1>4. CASE k = Len(s) + 1
  <2>1. s[j].number \in Puts(s)
    BY <1>1, <1>2 DEF Puts
  <2> QED
    BY <1>1, <1>2, <1>4, <2>1
<1> QED
  BY <1>1, <1>3, <1>4

LEMMA NoPutAppended ==
  ASSUME NEW S, NEW s \in Seq(S), NEW m \in S, m.kind # "put"
  PROVE  /\ Puts(Append(s, m)) = Puts(s)
         /\ Ascending(s) => Ascending(Append(s, m))
<1>1. Puts(Append(s, m)) = Puts(s)
  BY PutsAppended
<1>2. Ascending(s) => Ascending(Append(s, m))
  BY AscendingAppended
<1> QED
  BY <1>1, <1>2

(* s is t with more at its end. *)
Extends_(s, t) ==
    /\ DOMAIN t \subseteq DOMAIN s /\ DOMAIN s \subseteq Nat \ {0}
    /\ \A n \in DOMAIN t : s[n] = t[n]
    /\ \A n \in DOMAIN s \ DOMAIN t, m \in DOMAIN t : m < n

LEMMA AppendedExtends ==
  ASSUME NEW S, NEW s \in Seq(S), NEW m \in S
  PROVE  /\ Extends_(Append(s, m), s)
         /\ \A n \in DOMAIN Append(s, m) \ DOMAIN s : n = Len(s) + 1 /\ Append(s, m)[n] = m
         /\ Len(s) + 1 \in DOMAIN Append(s, m) \ DOMAIN s
<1> DEFINE r == Append(s, m)
<1>1. /\ DOMAIN r = DOMAIN s \cup {Len(s) + 1} /\ r[Len(s) + 1] = m
      /\ \A n \in DOMAIN s : n \in Nat /\ n < Len(s) + 1 /\ r[n] = s[n]
      /\ Len(s) \in Nat
  BY Appended
<1>2. DOMAIN s \subseteq Nat \ {0}
  BY Element
<1> HIDE DEF r
<1>3. Extends_(r, s)
  BY <1>1, <1>2 DEF Extends_
<1> QED
  BY <1>1, <1>3 DEF r

LEMMA ExtendsTwice ==
  ASSUME NEW r, NEW s, NEW t, Extends_(r, s), Extends_(s, t)
  PROVE  Extends_(r, t)
  BY DEF Extends_

(* The answer to a listen on node ends s, behind t and, if there is any,   *)
(* the data d.                                                             *)
Answers(s, t, d, a, node) ==
    /\ Extends_(s, t)
    /\ Len(s) \in DOMAIN s \ DOMAIN t /\ s[Len(s)] = a
    /\ \A n \in DOMAIN s \ DOMAIN t : s[n] \in {d, a}
    /\ ListensIn(s, node) = ListensIn(t, node) \cup {Len(s)}
    /\ \A other : other # node => ListensIn(s, other) = ListensIn(t, other)
    /\ Puts(s) = Puts(t) /\ (Ascending(t) => Ascending(s))

LEMMA AnswerAppended ==
  ASSUME NEW S, NEW t \in Seq(S), NEW a \in S, NEW d, a.kind = "listen"
  PROVE  /\ Append(t, a) \in Seq(S)
         /\ Answers(Append(t, a), t, d, a, a.node)
<1> DEFINE s == Append(t, a)
<1>1. s \in Seq(S) /\ Len(s) = Len(t) + 1
  BY Appended
<1>2. /\ Extends_(s, t)
      /\ \A n \in DOMAIN s \ DOMAIN t : n = Len(t) + 1 /\ s[n] = a
      /\ Len(t) + 1 \in DOMAIN s \ DOMAIN t
  BY AppendedExtends
<1>3. Puts(s) = Puts(t) /\ (Ascending(t) => Ascending(s))
  BY NoPutAppended
<1>4. \A node : IsListen(a, node) <=> node = a.node
  BY DEF IsListen
<1>5. ListensIn(s, a.node) = ListensIn(t, a.node) \cup {Len(t) + 1}
  BY <1>4, ListensAppended
<1>6. \A other : other # a.node => ListensIn(s, other) = ListensIn(t, other)
  BY <1>4, ListensAppended
<1> HIDE DEF s
<1> QED
  BY <1>1, <1>2, <1>3, <1>5, <1>6 DEF Answers, s

LEMMA DataAppended ==
  ASSUME NEW S, NEW t \in Seq(S), NEW d \in S, NEW a \in S, d.kind = "data", a.kind = "listen"
  PROVE  LET s == Append(Append(t, d), a)
         IN  /\ s \in Seq(S)
             /\ Answers(s, t, d, a, a.node)
             /\ Len(s) - 1 \in DOMAIN s \ DOMAIN t /\ s[Len(s) - 1] = d
<1> DEFINE u == Append(t, d)
           s == Append(u, a)
<1>1. /\ u \in Seq(S) /\ Len(u) = Len(t) + 1 /\ Len(t) \in Nat
      /\ Extends_(u, t) /\ Len(t) + 1 \in DOMAIN u \ DOMAIN t
      /\ \A n \in DOMAIN u \ DOMAIN t : n = Len(t) + 1 /\ u[n] = d
  BY Appended, AppendedExtends
<1>2. Puts(u) = Puts(t) /\ (Ascending(t) => Ascending(u))
  BY NoPutAppended
<1>3. \A node : ListensIn(u, node) = ListensIn(t, node)
  <2>1. \A node : ~IsListen(d, node)
    BY DEF IsListen
  <2> QED
    BY <2>1, ListensAppended
<1> HIDE DEF u
<1>4. s \in Seq(S) /\ Answers(s, u, d, a, a.node)
  BY <1>1, AnswerAppended
<1>5. Len(s) = Len(u) + 1
  BY <1>1, Appended
<1> HIDE DEF s
<1>6. Extends_(s, t)
  BY <1>1, <1>4, ExtendsTwice DEF Answers
<1>7. Len(u) \in DOMAIN s \ DOMAIN t /\ s[Len(u)] = d /\ Len(s) - 1 = Len(u)
  BY <1>1, <1>4, <1>5 DEF Answers, Extends_
<1>8. Len(s) \in DOMAIN s \ DOMAIN t /\ s[Len(s)] = a
  BY <1>1, <1>4 DEF Answers, Extends_
<1>9. \A n \in DOMAIN s \ DOMAIN t : s[n] \in {d, a}
  BY <1>1, <1>4 DEF Answers, Extends_
<1>10. Answers(s, t, d, a, a.node)
  BY <1>2, <1>3, <1>4, <1>6, <1>8, <1>9 DEF Answers
<1> QED
  BY <1>4, <1>7, <1>10 DEF s, u

-----------------------------------------------------------------------------
(***************************************************************************)
(* Data in a channel                                                       *)
(***************************************************************************)
LEMMA FollowsIgnored ==
  ASSUME NEW S, NEW s \in Seq(S), NEW m \in S, m.kind \notin {"data", "update"},
         NEW cache, NEW p, Follows(cache, s, p)
  PROVE  Follows(cache, Append(s, m), p)
<1> DEFINE r == Append(s, m)
<1>1. /\ DOMAIN r = DOMAIN s \cup {Len(s) + 1} /\ r[Len(s) + 1] = m
      /\ \A n \in DOMAIN s : r[n] = s[n]
  BY Appended
<1>2. \A i, f : ~Tells(m, i, f)
  BY DEF Tells
<1> HIDE DEF r
<1> QED
  BY <1>1, <1>2 DEF Follows, r

LEMMA FollowsUpdate ==
  ASSUME NEW S, NEW s \in Seq(S), NEW m \in S, m.kind = "update", m.write \in AppWrites,
         NEW cache, NEW p \in Products_, Follows(cache, s, p)
  PROVE  Follows(cache, Append(s, m), Apply(p, m.write))
<1> DEFINE r == Append(s, m)
           q == Apply(p, m.write)
           sets(i, f) == m.write.item = i /\ f \in m.write.sets
<1>1. /\ DOMAIN r = DOMAIN s \cup {Len(s) + 1} /\ r[Len(s) + 1] = m
      /\ \A n \in DOMAIN s : n \in Nat /\ n < Len(s) + 1 /\ r[n] = s[n]
      /\ Len(s) \in Nat
  BY Appended
<1>2. \A i \in Items, f \in Fields : q[i][f] = IF sets(i, f) THEN m.write.to[f] ELSE p[i][f]
  BY ApplyField
<1>3. \A i \in Items, f \in Fields : Tells(m, i, f) <=> sets(i, f)
  BY DEF Tells
<1>4. \A i, f : Told(m, i, f) = m.write.to[f]
  BY DEF Told
<1> HIDE DEF r, q, sets
<1> SUFFICES ASSUME NEW i \in Items, NEW f \in Fields
             PROVE  /\ \A n \in DOMAIN r :
                          Tells(r[n], i, f) /\ (\A k \in DOMAIN r : k > n => ~Tells(r[k], i, f))
                              => Told(r[n], i, f) = q[i][f]
                    /\ (\A n \in DOMAIN r : ~Tells(r[n], i, f)) => cache[i][f] = q[i][f]
  BY DEF Follows, r, q
<1>5. CASE sets(i, f)
  <2>1. Tells(r[Len(s) + 1], i, f) /\ Len(s) + 1 \in DOMAIN r
    BY <1>1, <1>3, <1>5
  <2>2. ASSUME NEW n \in DOMAIN r, \A k \in DOMAIN r : k > n => ~Tells(r[k], i, f)
        PROVE  n = Len(s) + 1
    BY <1>1, <2>1, <2>2
  <2> QED
    BY <1>1, <1>2, <1>4, <1>5, <2>1, <2>2
<1>6. CASE ~sets(i, f)
  <2>1. ~Tells(r[Len(s) + 1], i, f) /\ q[i][f] = p[i][f]
    BY <1>1, <1>2, <1>3, <1>6
  <2>2. \A n \in DOMAIN s : Tells(s[n], i, f) /\ (\A k \in DOMAIN s : k > n => ~Tells(s[k], i, f))
                              => Told(s[n], i, f) = p[i][f]
    BY DEF Follows
  <2>3. (\A n \in DOMAIN s : ~Tells(s[n], i, f)) => cache[i][f] = p[i][f]
    BY DEF Follows
  <2> QED
    BY <1>1, <2>1, <2>2, <2>3
<1> QED
  BY <1>5, <1>6

LEMMA FollowsData ==
  ASSUME NEW S, NEW s \in Seq(S), NEW m \in S, m.kind = "data", NEW cache
  PROVE  Follows(cache, Append(s, m), m.products)
<1> DEFINE r == Append(s, m)
<1>1. /\ DOMAIN r = DOMAIN s \cup {Len(s) + 1} /\ r[Len(s) + 1] = m
      /\ \A n \in DOMAIN s : n \in Nat /\ n < Len(s) + 1 /\ r[n] = s[n]
      /\ Len(s) \in Nat
  BY Appended
<1>2. \A i, f : Tells(m, i, f) /\ Told(m, i, f) = m.products[i][f]
  BY DEF Tells, Told
<1> HIDE DEF r
<1> QED
  BY <1>1, <1>2 DEF Follows, r

(* The first message is received into the cache, or tells nothing. *)
LEMMA FollowsReceived ==
  ASSUME NEW s, NEW r, Removed(s, 1, r), NEW cache, NEW new, NEW p,
         \A i \in Items, f \in Fields :
             new[i][f] = IF Tells(s[1], i, f) THEN Told(s[1], i, f) ELSE cache[i][f],
         Follows(cache, s, p)
  PROVE  Follows(new, r, p)
<1>1. /\ DOMAIN s = 1..Len(s) /\ DOMAIN r = 1..(Len(s) - 1) /\ Len(s) \in Nat \ {0}
      /\ 1 \in DOMAIN s
      /\ \A k \in DOMAIN r : k + 1 \in DOMAIN s /\ r[k] = s[k + 1] /\ k \in Nat \ {0}
      /\ \A k \in DOMAIN s : k # 1 => k - 1 \in DOMAIN r /\ r[k - 1] = s[k] /\ k \in Nat \ {0}
  BY DEF Removed
<1> SUFFICES ASSUME NEW i \in Items, NEW f \in Fields
             PROVE  /\ \A n \in DOMAIN r :
                          Tells(r[n], i, f) /\ (\A k \in DOMAIN r : k > n => ~Tells(r[k], i, f))
                              => Told(r[n], i, f) = p[i][f]
                    /\ (\A n \in DOMAIN r : ~Tells(r[n], i, f)) => new[i][f] = p[i][f]
  BY DEF Follows
<1>2. \A n \in DOMAIN s : Tells(s[n], i, f) /\ (\A k \in DOMAIN s : k > n => ~Tells(s[k], i, f))
                            => Told(s[n], i, f) = p[i][f]
  BY DEF Follows
<1>3. (\A n \in DOMAIN s : ~Tells(s[n], i, f)) => cache[i][f] = p[i][f]
  BY DEF Follows
<1>4. ASSUME NEW n \in DOMAIN r, Tells(r[n], i, f),
             \A k \in DOMAIN r : k > n => ~Tells(r[k], i, f)
      PROVE  Told(r[n], i, f) = p[i][f]
  <2>1. n + 1 \in DOMAIN s /\ r[n] = s[n + 1]
    BY <1>1
  <2>2. \A k \in DOMAIN s : k > n + 1 => ~Tells(s[k], i, f)
    <3> SUFFICES ASSUME NEW k \in DOMAIN s, k > n + 1
                 PROVE  ~Tells(s[k], i, f)
      OBVIOUS
    <3>1. k # 1 /\ k - 1 \in DOMAIN r /\ k - 1 > n /\ r[k - 1] = s[k]
      BY <1>1
    <3> QED
      BY <1>4, <3>1
  <2> QED
    BY <1>2, <1>4, <2>1, <2>2
<1>5. ASSUME \A n \in DOMAIN r : ~Tells(r[n], i, f)
      PROVE  new[i][f] = p[i][f]
  <2>1. \A n \in DOMAIN s : n # 1 => ~Tells(s[n], i, f)
    BY <1>1, <1>5
  <2>2. CASE Tells(s[1], i, f)
    <3>1. \A k \in DOMAIN s : k > 1 => ~Tells(s[k], i, f)
      BY <1>1, <2>1
    <3> QED
      BY <1>1, <1>2, <2>2, <3>1
  <2>3. CASE ~Tells(s[1], i, f)
    BY <1>1, <1>3, <2>1, <2>3
  <2> QED
    BY <2>2, <2>3
<1> QED
  BY <1>4, <1>5

-----------------------------------------------------------------------------
(***************************************************************************)
(* What is sent                                                            *)
(***************************************************************************)
LEMMA OneSent ==
  ASSUME NEW S, NEW s \in Seq(S), NEW m \in S
  PROVE  s \o <<m>> = Append(s, m)
  BY AppendIsConcat

LEMMA TwoSent ==
  ASSUME NEW S, NEW s \in Seq(S), NEW m \in S, NEW n \in S
  PROVE  s \o <<m, n>> = Append(Append(s, m), n)
<1> DEFINE t == s \o <<m, n>>
           r == Append(Append(s, m), n)
<1>1. <<m, n>> \in Seq(S) /\ Len(<<m, n>>) = 2
  OBVIOUS
<1>2. t \in Seq(S) /\ Len(t) = Len(s) + 2 /\ Len(s) \in Nat
  BY <1>1, ConcatProperties
<1>3. r \in Seq(S) /\ Len(r) = Len(s) + 2
  BY Appended
<1>4. ASSUME NEW k \in 1..(Len(s) + 2)
      PROVE  t[k] = r[k]
  <2>1. t[k] = IF k <= Len(s) THEN s[k] ELSE <<m, n>>[k - Len(s)]
    BY <1>1, ConcatProperties
  <2>2. CASE k <= Len(s)
    BY <1>2, <2>1, <2>2, Appended
  <2>3. CASE k = Len(s) + 1
    <3>1. t[k] = m
      BY <1>2, <2>1, <2>3
    <3> QED
      BY <1>2, <2>3, <3>1, Appended
  <2>4. CASE k = Len(s) + 2
    <3>1. t[k] = n
      BY <1>2, <2>1, <2>4
    <3> QED
      BY <1>2, <2>4, <3>1, Appended
  <2> QED
    BY <1>2, <2>2, <2>3, <2>4
<1> HIDE DEF t, r
<1> QED
  BY <1>2, <1>3, <1>4, SeqEqual DEF t, r

(* The messages of the server to one client when it takes a put. *)
LEMMA PutSent ==
  ASSUME NEW S, NEW s \in Seq(S), NEW u \in S, NEW a \in S
  PROVE  /\ s \o (<<u>> \o <<a>>) = Append(Append(s, u), a)
         /\ s \o (<<u>> \o <<>>) = Append(s, u)
         /\ s \o (<<>> \o <<a>>) = Append(s, a)
         /\ s \o (<<>> \o <<>>) = s
<1>1. /\ <<u>> \in Seq(S) /\ <<a>> \in Seq(S) /\ <<>> \in Seq(S)
      /\ <<u>> \o <<>> = <<u>> /\ <<>> \o <<a>> = <<a>> /\ <<>> \o <<>> = <<>>
      /\ s \o <<>> = s
  BY ConcatEmptySeq, EmptySeq
<1>2. s \o (<<u>> \o <<a>>) = Append(Append(s, u), a)
  <2>1. s \o (<<u>> \o <<a>>) = (s \o <<u>>) \o <<a>>
    BY <1>1, ConcatAssociative
  <2>2. s \o <<u>> = Append(s, u) /\ Append(s, u) \in Seq(S)
    BY OneSent, Appended
  <2>3. Append(s, u) \o <<a>> = Append(Append(s, u), a)
    BY <2>2, OneSent
  <2> QED
    BY <2>1, <2>2, <2>3
<1>3. s \o <<u>> = Append(s, u) /\ s \o <<a>> = Append(s, a)
  BY OneSent
<1> QED
  BY <1>1, <1>2, <1>3

(* The listens are enumerated, each once. *)
LEMMA ListensSeq ==
  ASSUME NEW L, L = {"Products"} \/ L = {"Products", "Users"}
  PROVE  LET s == SetToSeq(L)
         IN  /\ s \in Seq(L)
             /\ Len(s) = IF "Users" \in L THEN 2 ELSE 1
             /\ \A node \in L : \E n \in DOMAIN s : s[n] = node
             /\ \A m, n \in DOMAIN s : s[m] = s[n] => m = n
<1>1. Cardinality({"Products"}) = 1 /\ IsFiniteSet({"Products"})
  BY FS_Singleton
<1>2. Cardinality({"Products", "Users"}) = 2
  <2>1. {"Products", "Users"} = {"Products"} \cup {"Users"}
    OBVIOUS
  <2> QED
    BY <1>1, <2>1, FS_AddElement
<1> DEFINE N == Cardinality(L)
           s == SetToSeq(L)
<1>3. N = IF "Users" \in L THEN 2 ELSE 1
  BY <1>1, <1>2
<1>4. \E f \in [1..N -> L] : IsInjective(f)
  <2>1. CASE L = {"Products"}
    <3> DEFINE f == [n \in 1..N |-> "Products"]
    <3>1. f \in [1..N -> L] /\ \A a, b \in DOMAIN f : a = b
      BY <1>3, <2>1
    <3> QED
      BY <3>1 DEF IsInjective
  <2>2. CASE L = {"Products", "Users"}
    <3> DEFINE f == [n \in 1..N |-> IF n = 1 THEN "Products" ELSE "Users"]
    <3>1. f \in [1..N -> L] /\ \A a, b \in DOMAIN f : f[a] = f[b] => a = b
      BY <1>3, <2>2
    <3> QED
      BY <3>1 DEF IsInjective
  <2> QED
    BY <2>1, <2>2
<1>5. s \in [1..N -> L] /\ IsInjective(s)
  BY <1>4 DEF SetToSeq
<1> HIDE DEF s, N
<1>6. /\ s \in Seq(L) /\ Len(s) = N /\ DOMAIN s = 1..N
      /\ \A m, n \in DOMAIN s : s[m] = s[n] => m = n
  BY <1>3, <1>5 DEF IsInjective
<1>7. ASSUME NEW node \in L
      PROVE  \E n \in DOMAIN s : s[n] = node
  <2>1. CASE L = {"Products"}
    BY <1>3, <1>5, <1>6, <2>1
  <2>2. CASE L = {"Products", "Users"}
    <3>1. DOMAIN s = 1..2 /\ s[1] \in L /\ s[2] \in L /\ s[1] # s[2]
      BY <1>3, <1>5, <1>6, <2>2
    <3> QED
      BY <2>2, <3>1
  <2> QED
    BY <2>1, <2>2
<1> QED
  BY <1>3, <1>6, <1>7 DEF s, N

-----------------------------------------------------------------------------
(***************************************************************************)
(* The invariant, client by client                                         *)
(***************************************************************************)
ClientInv(c) == ListensInv(c) /\ PutsInv(c) /\ KnownInv(c) /\ CacheInv(c)

(* The inductive invariant. *)
IInv == TypeOK /\ RealtimeInv

LEMMA OneClient == RealtimeInv <=> \A c \in Clients : ClientInv(c)
  BY DEF RealtimeInv, ClientInv

LEMMA OneClientNext == RealtimeInv' <=> \A c \in Clients : ClientInv(c)'
  BY DEF RealtimeInv, ClientInv

-----------------------------------------------------------------------------
(***************************************************************************)
(* Requests and answers                                                    *)
(***************************************************************************)
LEMMA RequestCases ==
  ASSUME NEW r \in Request
  PROVE  \/ r.kind = "listen" /\ r.node \in {"Products", "Users"} /\ r.hash \in Products_
         \/ r.kind = "put" /\ r.number \in Nat /\ r.write \in AppWrites
  BY DEF Request, Products_

LEMMA AnswerCases ==
  ASSUME NEW m \in Answer
  PROVE  \/ m.kind = "data" /\ m.products \in Products_ /\ m.at \in Nat
         \/ /\ m.kind = "update" /\ m.from \in Clients /\ m.number \in Nat
            /\ m.write \in AppWrites /\ m.at \in Nat
         \/ /\ m.kind = "listen" /\ m.node \in {"Products", "Users"}
            /\ m.same \in BOOLEAN /\ m.at \in Nat
         \/ m.kind = "put" /\ m.number \in Nat
  BY DEF Answer, Products_

LEMMA ListenRequestType ==
  ASSUME TypeOK, NEW c \in Clients, NEW node \in {"Products", "Users"}
  PROVE  /\ ListenRequest(c, node) \in Request
         /\ ListenRequest(c, node).kind = "listen" /\ ListenRequest(c, node).node = node
         /\ ListenRequest(c, node).hash = serverCache[c]
<1>1. serverCache[c] \in [Items -> Product]
  BY DEF TypeOK
<1> QED
  BY <1>1 DEF ListenRequest, Request

LEMMA PutRequestType ==
  ASSUME NEW q, NEW k \in Nat, q[k] \in AppWrites
  PROVE  /\ PutRequest(q, k) \in Request
         /\ PutRequest(q, k).kind = "put" /\ PutRequest(q, k).number = k
         /\ PutRequest(q, k).write = q[k]
  BY DEF PutRequest, Request

(* What TypeOK says of one client. *)
LEMMA ClientTypes ==
  ASSUME TypeOK, NEW c \in Clients
  PROVE  /\ up[c] \in Seq(Request) /\ down[c] \in Seq(Answer)
         /\ connected[c] \in BOOLEAN /\ complete[c] \in BOOLEAN
         /\ listens[c] = {"Products"} \/ listens[c] = {"Products", "Users"}
         /\ unacked[c] \in Nat /\ outstanding[c] \subseteq Nat
         /\ putsToAck[c] \in Seq(Nat) /\ writes[c] \in Seq(AppWrites \cup {Null})
         /\ outstanding[c] \subseteq DOMAIN writes[c] /\ Held(c) \subseteq DOMAIN writes[c]
         /\ serverCache[c] \in Products_
         /\ known[c] \in Nat /\ known[c] <= Len(log) /\ Len(log) \in Nat
<1>1. outstanding[c] \cup ToSet(putsToAck[c]) \subseteq DOMAIN writes[c]
  BY DEF TypeOK
<1>2. /\ up[c] \in Seq(Request) /\ down[c] \in Seq(Answer)
      /\ connected[c] \in BOOLEAN /\ complete[c] \in BOOLEAN
      /\ listens[c] = {"Products"} \/ listens[c] = {"Products", "Users"}
  BY DEF TypeOK
<1>3. /\ unacked[c] \in Nat /\ outstanding[c] \subseteq Nat
      /\ putsToAck[c] \in Seq(Nat) /\ writes[c] \in Seq(AppWrites \cup {Null})
      /\ serverCache[c] \in Products_
  BY DEF TypeOK, Products_
<1>4. known[c] \in Nat /\ known[c] <= Len(log) /\ Len(log) \in Nat
  BY DEF TypeOK
<1> QED
  BY <1>1, <1>2, <1>3, <1>4 DEF Held

(* What is outstanding is in the write tree. *)
LEMMA OutstandingWrites ==
  ASSUME TypeOK, NEW c \in Clients, PutsInv(c), NEW k \in outstanding[c]
  PROVE  k \in DOMAIN writes[c] /\ writes[c][k] \in AppWrites /\ k \in Nat
<1>1. k \in DOMAIN writes[c] /\ writes[c] \in Seq(AppWrites \cup {Null}) /\ k \in Nat
  BY ClientTypes
<1>2. writes[c][k] # Null
  BY <1>1 DEF PutsInv
<1> QED
  BY <1>1, <1>2

(* The outstanding puts are restored one by one, in order, all of them.    *)
LEMMA Restored ==
  ASSUME TypeOK, NEW c \in Clients, PutsInv(c)
  PROVE  LET s == RestoredPuts(c)
         IN  /\ s \in Seq(outstanding[c])
             /\ \A m, n \in DOMAIN s : m < n => s[m] < s[n]
             /\ \A k \in outstanding[c] : \E n \in DOMAIN s : s[n] = k
<1> DEFINE out == outstanding[c]
           N == Cardinality(out)
           L == Len(writes[c])
           s == RestoredPuts(c)
<1>1. L \in Nat /\ DOMAIN writes[c] = 1..L /\ out \subseteq 1..L /\ out \subseteq Nat
  BY ClientTypes
<1>2. \A j \in out, k \in 1..L : j <= k => k \in out
  BY <1>1 DEF PutsInv
<1> HIDE DEF L
<1>3. IsFiniteSet(out) /\ N \in Nat /\ N <= L
  <2>1. IsFiniteSet(1..L) /\ Cardinality(1..L) = L
    BY <1>1, FS_Interval
  <2> QED
    BY <1>1, <2>1, FS_Subset, FS_CardinalityType
<1> DEFINE f == [n \in 1..N |-> L - N + n]
<1> HIDE DEF N
<1>4. ASSUME NEW n \in 1..N
      PROVE  L - N + n \in out
  <2> SUFFICES ASSUME L - N + n \notin out
               PROVE  FALSE
    OBVIOUS
  <2>1. L - N + n \in 1..L
    BY <1>1, <1>3
  <2>2. out \subseteq (L - N + n + 1)..L
    BY <1>1, <1>2, <2>1
  <2> DEFINE a == L - N + n + 1
  <2>3. a \in Int /\ L \in Int /\ (IF a > L THEN 0 ELSE L - a + 1) = N - n
    BY <1>1, <1>3
  <2> HIDE DEF a
  <2>4. IsFiniteSet(a..L) /\ Cardinality(a..L) = N - n
    BY <2>3, FS_Interval
  <2>5. Cardinality(out) <= Cardinality(a..L)
    BY <2>2, <2>4, FS_Subset DEF a
  <2>6. N <= N - n
    BY <2>4, <2>5 DEF N
  <2> QED
    BY <1>3, <2>6
<1>5. f \in [1..N -> out] /\ \A m, n \in DOMAIN f : m < n => f[m] < f[n]
  <2>1. f \in [1..N -> out]
    BY <1>4
  <2>2. \A m, n \in 1..N : m < n => L - N + m < L - N + n
    BY <1>1, <1>3
  <2> QED
    BY <2>1, <2>2
<1>6. s \in [1..N -> out] /\ \A m, n \in DOMAIN s : m < n => s[m] < s[n]
  BY <1>5 DEF RestoredPuts, OutstandingSeqs, N
<1> HIDE DEF s, f, out
<1>7. ASSUME NEW k \in out
      PROVE  \E n \in DOMAIN s : s[n] = k
  <2> SUFFICES ASSUME \A n \in DOMAIN s : s[n] # k
               PROVE  FALSE
    OBVIOUS
  <2>1. s \in [1..N -> out \ {k}]
    BY <1>6
  <2>2. IsFiniteSet(out \ {k}) /\ Cardinality(out \ {k}) = N - 1
    BY <1>3, FS_RemoveElement DEF N
  <2>3. IsFiniteSet(1..N) /\ Cardinality(1..N) = N
    BY <1>3, FS_Interval
  <2>4. Cardinality(out \ {k}) < Cardinality(1..N)
    BY <1>3, <2>2, <2>3
  <2> DEFINE S == 1..N
             T == out \ {k}
  <2>8. \E x, y \in S : x # y /\ s[x] = s[y]
    <3>1. /\ IsFiniteSet(S) /\ IsFiniteSet(T) /\ Cardinality(T) < Cardinality(S)
          /\ s \in [S -> T]
      BY <2>1, <2>2, <2>3, <2>4
    <3> HIDE DEF S, T
    <3> QED
      BY <3>1, FS_PigeonHole
  <2>5. PICK x \in 1..N, y \in 1..N : x # y /\ s[x] = s[y]
    BY <2>8
  <2>6. s[x] \in Nat /\ s[y] \in Nat /\ DOMAIN s = 1..N
    BY <1>1, <1>6
  <2>7. ~(x < y) /\ ~(y < x)
    BY <1>6, <2>5, <2>6
  <2> QED
    BY <1>3, <2>5, <2>7
<1>8. s \in Seq(out)
  BY <1>3, <1>6
<1> QED
  BY <1>6, <1>7, <1>8 DEF s, out

-----------------------------------------------------------------------------
(***************************************************************************)
(* Types                                                                   *)
(***************************************************************************)
LEMMA Raised ==
  ASSUME NEW c, NEW events, Raise(c, events), DOMAIN inbox = Clients
  PROVE  DOMAIN inbox' = Clients
  BY DEF Raise

(* Where c's new values are of the right types, and nothing of another     *)
(* client changes, TypeOK is kept.                                         *)
Same(d) ==
    /\ up'[d] = up[d] /\ down'[d] = down[d] /\ connected'[d] = connected[d]
    /\ listens'[d] = listens[d] /\ unacked'[d] = unacked[d]
    /\ outstanding'[d] = outstanding[d] /\ putsToAck'[d] = putsToAck[d]
    /\ writes'[d] = writes[d] /\ serverCache'[d] = serverCache[d]
    /\ complete'[d] = complete[d] /\ known'[d] = known[d]
    /\ d \in listening' <=> d \in listening

NumbersIn(d) == outstanding[d] \cup ToSet(putsToAck[d]) \subseteq DOMAIN writes[d]

LEMMA NumbersKept ==
  ASSUME TypeOK, NEW c \in Clients, NumbersIn(c)',
         \A d \in Clients \ {c} : /\ outstanding'[d] = outstanding[d]
                                  /\ putsToAck'[d] = putsToAck[d] /\ writes'[d] = writes[d]
  PROVE  \A d \in Clients : NumbersIn(d)'
<1>1. \A d \in Clients : NumbersIn(d)
  BY DEF TypeOK, NumbersIn
<1>2. ASSUME NEW d \in Clients \ {c}
      PROVE  NumbersIn(d)'
  <2>1. NumbersIn(d)
    BY <1>1
  <2> QED
    BY <2>1 DEF NumbersIn
<1> QED
  BY <1>2

LEMMA TypeInit == Init => TypeOK
<1> SUFFICES ASSUME Init
             PROVE  TypeOK
  OBVIOUS
<1>1. products \in [Items -> Product]
  BY RealtimeAssumption DEF Init
<1>2. NoProducts_ \in [Items -> Product]
  BY DEF NoProducts_, NoProduct, Product
<1>3. left \in [writes : Nat, losses : Nat, listens : Nat]
  BY RealtimeAssumption DEF Init
<1>4. log \in Seq(Clients \X Nat) /\ Len(log) = 0
  BY DEF Init
<1>5. ASSUME NEW c \in Clients
      PROVE  /\ outstanding[c] \cup ToSet(putsToAck[c]) \subseteq DOMAIN writes[c]
             /\ known[c] <= Len(log)
  <2>1. outstanding[c] = {} /\ putsToAck[c] = <<>> /\ writes[c] = <<>> /\ known[c] = 0
    BY DEF Init
  <2> QED
    BY <1>4, <2>1 DEF ToSet
<1>6. /\ orderly \in BOOLEAN
      /\ listening \subseteq Clients
      /\ takenPut \in [Clients -> Nat]
      /\ up \in [Clients -> Seq(Request)]
      /\ down \in [Clients -> Seq(Answer)]
      /\ connected \in [Clients -> BOOLEAN]
      /\ listens \in [Clients -> {{"Products"}, {"Products", "Users"}}]
      /\ unacked \in [Clients -> Nat]
      /\ outstanding \in [Clients -> SUBSET Nat]
  BY DEF Init
<1>7. /\ putsToAck \in [Clients -> Seq(Nat)]
      /\ writes \in [Clients -> Seq(AppWrites \cup {Null})]
      /\ serverCache \in [Clients -> [Items -> Product]]
      /\ complete \in [Clients -> BOOLEAN]
      /\ DOMAIN inbox = Clients
      /\ known \in [Clients -> Nat]
  BY <1>2 DEF Init
<1> QED
  BY <1>1, <1>3, <1>4, <1>5, <1>6, <1>7 DEF TypeOK

LEMMA SetValueType ==
  ASSUME TypeOK, NEW c \in Clients, NEW w \in AppWrites, SetValue(c, w)
  PROVE  TypeOK'
<1> DEFINE q == Append(writes[c], w)
<1>1. /\ q \in Seq(AppWrites \cup {Null}) /\ Len(q) = Len(writes[c]) + 1 /\ Len(q) \in Nat
      /\ DOMAIN q = DOMAIN writes[c] \cup {Len(q)} /\ q[Len(q)] = w
  BY ClientTypes, Appended
<1> HIDE DEF q
<1>2. /\ left' = [left EXCEPT !.writes = @ - 1] /\ left.writes > 0
      /\ writes' = [writes EXCEPT ![c] = q]
      /\ outstanding' = [outstanding EXCEPT ![c] = @ \cup {Len(q)}]
      /\ up' = IF connected[c] THEN [up EXCEPT ![c] = Append(@, PutRequest(q, Len(q)))]
               ELSE up
      /\ UNCHANGED <<orderly, products, listening, takenPut, down, connected, listens,
                     unacked, putsToAck, serverCache, complete, log, known>>
  BY DEF SetValue, q
<1>3. DOMAIN inbox' = Clients
  <2>1. Raise(c, Sync!EventsOf(c, View(c), EventCache(serverCache[c], q)))
    BY DEF SetValue, q
  <2>2. DOMAIN inbox = Clients
    BY DEF TypeOK
  <2> QED
    BY <2>1, <2>2, Raised
<1>4. left' \in [writes : Nat, losses : Nat, listens : Nat]
  <2>1. left \in [writes : Nat, losses : Nat, listens : Nat]
    BY DEF TypeOK
  <2> QED
    BY <1>2, <2>1
<1>5. writes' \in [Clients -> Seq(AppWrites \cup {Null})]
  BY <1>1, <1>2 DEF TypeOK
<1>6. outstanding' \in [Clients -> SUBSET Nat]
  BY <1>1, <1>2 DEF TypeOK
<1>7. up' \in [Clients -> Seq(Request)]
  <2>1. PutRequest(q, Len(q)) \in Request
    BY <1>1, PutRequestType
  <2>2. Append(up[c], PutRequest(q, Len(q))) \in Seq(Request)
    BY <2>1, ClientTypes, Appended
  <2> QED
    BY <1>2, <2>2 DEF TypeOK
<1>8. \A d \in Clients : NumbersIn(d)'
  <2>1. /\ outstanding'[c] = outstanding[c] \cup {Len(q)} /\ putsToAck'[c] = putsToAck[c]
        /\ writes'[c] = q
    BY <1>2 DEF TypeOK
  <2>2. NumbersIn(c)'
    BY <1>1, <2>1 DEF NumbersIn, TypeOK
  <2>3. \A d \in Clients \ {c} : /\ outstanding'[d] = outstanding[d]
                                 /\ putsToAck'[d] = putsToAck[d] /\ writes'[d] = writes[d]
    BY <1>2 DEF TypeOK
  <2> QED
    BY <2>2, <2>3, NumbersKept
<1> QED
  BY <1>2, <1>3, <1>4, <1>5, <1>6, <1>7, <1>8 DEF TypeOK, NumbersIn

LEMMA ListenToUsersType ==
  ASSUME TypeOK, NEW c \in Clients, ListenToUsers(c)
  PROVE  TypeOK'
<1>1. /\ left' = [left EXCEPT !.listens = @ - 1] /\ left.listens > 0
      /\ listens' = [listens EXCEPT ![c] = @ \cup {"Users"}]
      /\ up' = IF connected[c] THEN [up EXCEPT ![c] = Append(@, ListenRequest(c, "Users"))]
               ELSE up
      /\ unacked' = IF connected[c] THEN [unacked EXCEPT ![c] = @ + 1] ELSE unacked
      /\ UNCHANGED <<orderly, products, listening, takenPut, down, connected, outstanding,
                     putsToAck, writes, serverCache, complete, inbox, log, known>>
  BY DEF ListenToUsers
<1>2. left' \in [writes : Nat, losses : Nat, listens : Nat]
  <2>1. left \in [writes : Nat, losses : Nat, listens : Nat]
    BY DEF TypeOK
  <2> QED
    BY <1>1, <2>1
<1>3. listens' \in [Clients -> {{"Products"}, {"Products", "Users"}}]
  <2>1. listens[c] \cup {"Users"} = {"Products", "Users"}
    BY ClientTypes
  <2> QED
    BY <1>1, <2>1 DEF TypeOK
<1>4. up' \in [Clients -> Seq(Request)]
  <2>1. ListenRequest(c, "Users") \in Request
    BY ListenRequestType
  <2>2. Append(up[c], ListenRequest(c, "Users")) \in Seq(Request)
    BY <2>1, ClientTypes, Appended
  <2> QED
    BY <1>1, <2>2 DEF TypeOK
<1>5. unacked' \in [Clients -> Nat]
  <2>1. unacked \in [Clients -> Nat]
    BY DEF TypeOK
  <2> QED
    BY <1>1, <2>1
<1> QED
  BY <1>1, <1>2, <1>3, <1>4, <1>5 DEF TypeOK

LEMMA TakeEventType ==
  ASSUME TypeOK, NEW c \in Clients, TakeEvent(c)
  PROVE  TypeOK'
<1>1. DOMAIN inbox' = Clients
  BY DEF TakeEvent, TypeOK
<1>2. UNCHANGED <<orderly, products, listening, takenPut, up, down, connected, listens,
                  unacked, outstanding, putsToAck, writes, serverCache, complete,
                  log, known, left>>
  BY DEF TakeEvent
<1> QED
  BY <1>1, <1>2 DEF TypeOK

(* What is sent again when the connection is back.                         *)
Again(c) == [n \in DOMAIN SetToSeq(listens[c]) |-> ListenRequest(c, SetToSeq(listens[c])[n])]
PutsAgain(c) == [n \in DOMAIN RestoredPuts(c) |-> PutRequest(writes[c], RestoredPuts(c)[n])]

LEMMA AgainType ==
  ASSUME TypeOK, NEW c \in Clients, PutsInv(c)
  PROVE  /\ Again(c) \in Seq(Request) /\ PutsAgain(c) \in Seq(Request)
         /\ Len(Again(c)) = Len(SetToSeq(listens[c]))
<1> DEFINE l == SetToSeq(listens[c])
           p == RestoredPuts(c)
<1>1. l \in Seq(listens[c]) /\ listens[c] \subseteq {"Products", "Users"}
  <2>1. listens[c] = {"Products"} \/ listens[c] = {"Products", "Users"}
    BY ClientTypes
  <2>2. l \in Seq(listens[c])
    BY <2>1, ListensSeq
  <2> QED
    BY <2>1, <2>2
<1>2. p \in Seq(outstanding[c])
  BY Restored
<1> HIDE DEF l, p
<1>3. \A n \in DOMAIN l : ListenRequest(c, l[n]) \in Request
  BY <1>1, ListenRequestType
<1>4. \A n \in DOMAIN p : PutRequest(writes[c], p[n]) \in Request
  BY <1>2, OutstandingWrites, PutRequestType
<1>5. Again(c) \in Seq(Request) /\ Len(Again(c)) = Len(l)
  BY <1>1, <1>3 DEF Again, l
<1>6. PutsAgain(c) \in Seq(Request)
  BY <1>2, <1>4 DEF PutsAgain, p
<1> QED
  BY <1>5, <1>6 DEF l

LEMMA Connected ==
  ASSUME TypeOK, NEW c \in Clients, PutsInv(c), Connect(c)
  PROVE  /\ ~connected[c]
         /\ connected' = [connected EXCEPT ![c] = TRUE]
         /\ unacked' = [unacked EXCEPT ![c] = @ + (IF "Users" \in listens[c] THEN 2 ELSE 1)]
         /\ up' = [up EXCEPT ![c] = Again(c) \o PutsAgain(c)]
         /\ UNCHANGED <<orderly, products, listening, takenPut, down, listens, outstanding,
                        putsToAck, writes, serverCache, complete, inbox, log, known, left>>
<1>1. Len(SetToSeq(listens[c])) = IF "Users" \in listens[c] THEN 2 ELSE 1
  BY ClientTypes, ListensSeq
<1> QED
  BY <1>1 DEF Connect, Again, PutsAgain

LEMMA ConnectType ==
  ASSUME TypeOK, NEW c \in Clients, PutsInv(c), Connect(c)
  PROVE  TypeOK'
<1>1. Again(c) \o PutsAgain(c) \in Seq(Request)
  <2>1. Again(c) \in Seq(Request) /\ PutsAgain(c) \in Seq(Request)
    BY AgainType
  <2> QED
    BY <2>1, ConcatProperties
<1>5. /\ connected' = [connected EXCEPT ![c] = TRUE]
      /\ unacked' = [unacked EXCEPT ![c] = @ + (IF "Users" \in listens[c] THEN 2 ELSE 1)]
      /\ up' = [up EXCEPT ![c] = Again(c) \o PutsAgain(c)]
  BY Connected
<1>2. up' \in [Clients -> Seq(Request)]
  BY <1>1, <1>5 DEF TypeOK
<1>3. connected' \in [Clients -> BOOLEAN] /\ unacked' \in [Clients -> Nat]
  <2>1. connected' \in [Clients -> BOOLEAN]
    BY <1>5 DEF TypeOK
  <2>2. unacked \in [Clients -> Nat] /\ unacked[c] \in Nat
    BY DEF TypeOK
  <2>3. unacked[c] + (IF "Users" \in listens[c] THEN 2 ELSE 1) \in Nat
    BY <2>2
  <2>4. unacked' \in [Clients -> Nat]
    BY <1>5, <2>2, <2>3
  <2> QED
    BY <2>1, <2>4
<1>4. UNCHANGED <<orderly, products, listening, takenPut, down, listens, outstanding,
                  putsToAck, writes, serverCache, complete, inbox, log, known, left>>
  BY Connected
<1> QED
  BY <1>2, <1>3, <1>4 DEF TypeOK

LEMMA DisconnectType ==
  ASSUME TypeOK, NEW c \in Clients, Disconnect(c)
  PROVE  TypeOK'
<1>1. left' \in [writes : Nat, losses : Nat, listens : Nat]
  <2>1. left' = [left EXCEPT !.losses = @ - 1] /\ left.losses > 0
    BY DEF Disconnect
  <2>2. left \in [writes : Nat, losses : Nat, listens : Nat]
    BY DEF TypeOK
  <2> QED
    BY <2>1, <2>2
<1>2. up' \in [Clients -> Seq(Request)] /\ down' \in [Clients -> Seq(Answer)]
  BY DEF Disconnect, DownAfterLoss, TypeOK
<1>3. /\ connected' \in [Clients -> BOOLEAN] /\ unacked' \in [Clients -> Nat]
      /\ listening' \subseteq Clients /\ takenPut' \in [Clients -> Nat]
  BY DEF Disconnect, UnackedAfterLoss, TypeOK
<1>4. outstanding' = outstanding
  BY DEF Disconnect, OutstandingAfterLoss, TypeOK
<1>5. UNCHANGED <<orderly, products, listens, putsToAck, writes, serverCache, complete,
                  inbox, log, known>>
  BY DEF Disconnect
<1> QED
  BY <1>1, <1>2, <1>3, <1>4, <1>5 DEF TypeOK

(* The server takes the request at n: a put is the first of those that wait. *)
Update(c, r) == [kind |-> "update", from |-> c, number |-> r.number, write |-> r.write,
                 at |-> Len(log) + 1]
PutAnswer(r) == [kind |-> "put", number |-> r.number]
Data == [kind |-> "data", products |-> products, at |-> Len(log)]
ListenAnswer(r) == [kind |-> "listen", node |-> r.node, same |-> r.hash = products,
                    at |-> Len(log)]

PutTaken(c, n) ==
    /\ n \in DOMAIN up[c] /\ up[c][n].kind = "put"
    /\ \A m \in 1..n-1 : up[c][m].kind # "put"
    /\ up' = [up EXCEPT ![c] = RemoveAt(@, n)]
    /\ products' = Apply(products, up[c][n].write)
    /\ \A d \in Clients :
          LET told == IF d \in listening THEN Append(down[d], Update(c, up[c][n])) ELSE down[d]
          IN  down'[d] = IF d = c THEN Append(told, PutAnswer(up[c][n])) ELSE told
    /\ down' = [d \in Clients |-> down'[d]]
    /\ takenPut' = [takenPut EXCEPT ![c] = up[c][n].number]
    /\ log' = Append(log, <<c, up[c][n].number>>)
    /\ UNCHANGED <<orderly, listening, connected, listens, unacked, outstanding,
                   putsToAck, writes, serverCache, complete, inbox, known, left>>

ListenTaken(c, n) ==
    LET r == up[c][n]
    IN  /\ n \in DOMAIN up[c] /\ r.kind = "listen"
        /\ up' = [up EXCEPT ![c] = RemoveAt(@, n)]
        /\ down' = [down EXCEPT ![c] =
                       IF r.node = "Users" \/ r.hash = products THEN Append(@, ListenAnswer(r))
                       ELSE Append(Append(@, Data), ListenAnswer(r))]
        /\ listening' = IF r.node = "Products" THEN listening \cup {c} ELSE listening
        /\ UNCHANGED <<orderly, products, takenPut, connected, listens, unacked,
                       outstanding, putsToAck, writes, serverCache, complete,
                       inbox, log, known, left>>

LEMMA UpdateType ==
  ASSUME TypeOK, NEW c \in Clients, NEW r \in Request, r.kind = "put"
  PROVE  /\ Update(c, r) \in Answer /\ PutAnswer(r) \in Answer
         /\ Update(c, r).kind = "update" /\ Update(c, r).write = r.write
         /\ Update(c, r).at = Len(log) + 1
         /\ PutAnswer(r).kind = "put" /\ PutAnswer(r).number = r.number
         /\ r.number \in Nat /\ r.write \in AppWrites
<1>1. r.number \in Nat /\ r.write \in AppWrites
  BY RequestCases
<1>2. Len(log) + 1 \in Nat
  BY ClientTypes
<1> QED
  BY <1>1, <1>2 DEF Update, PutAnswer, Answer

LEMMA ListenAnswerType ==
  ASSUME TypeOK, NEW c \in Clients, NEW r \in Request, r.kind = "listen"
  PROVE  /\ Data \in Answer /\ ListenAnswer(r) \in Answer
         /\ Data.kind = "data" /\ Data.products = products /\ Data.at = Len(log)
         /\ ListenAnswer(r).kind = "listen" /\ ListenAnswer(r).node = r.node
         /\ ListenAnswer(r).same = (r.hash = products) /\ ListenAnswer(r).at = Len(log)
         /\ r.node \in {"Products", "Users"}
<1>1. r.node \in {"Products", "Users"}
  BY RequestCases
<1>2. Len(log) \in Nat
  BY ClientTypes
<1>3. products \in [Items -> Product]
  BY DEF TypeOK
<1>4. Data \in Answer
  BY <1>2, <1>3 DEF Data, Answer
<1>5. ListenAnswer(r) \in Answer
  <2>1. (r.hash = products) \in BOOLEAN
    OBVIOUS
  <2> DEFINE same == r.hash = products
  <2> HIDE DEF same
  <2>2. [kind |-> "listen", node |-> r.node, same |-> same, at |-> Len(log)] \in Answer
    BY <1>1, <1>2, <2>1 DEF Answer, same
  <2> QED
    BY <2>2 DEF ListenAnswer, same
<1> QED
  BY <1>1, <1>4, <1>5 DEF Data, ListenAnswer

LEMMA ServerPutTakes ==
  ASSUME TypeOK, NEW c \in Clients, ServerPut(c)
  PROVE  \E n \in DOMAIN up[c] : PutTaken(c, n)
<1>1. PICK n \in Takeable(c) :
         LET r == up[c][n]
             to(d) == (IF d \in listening THEN <<Update(c, r)>> ELSE <<>>)
                        \o (IF d = c THEN <<PutAnswer(r)>> ELSE <<>>)
         IN  /\ r.kind = "put"
             /\ up' = [up EXCEPT ![c] = RemoveAt(@, n)]
             /\ products' = Apply(products, r.write)
             /\ down' = [d \in Clients |-> down[d] \o to(d)]
             /\ takenPut' = [takenPut EXCEPT ![c] = r.number]
             /\ log' = Append(log, <<c, r.number>>)
             /\ UNCHANGED <<orderly, listening, connected, listens, unacked, outstanding,
                            putsToAck, writes, serverCache, complete, inbox, known, left>>
  BY DEF ServerPut, Update, PutAnswer
<1> DEFINE r == up[c][n]
<1>2. n \in DOMAIN up[c] /\ \A m \in 1..n-1 : up[c][m].kind # "put"
  BY <1>1 DEF Takeable
<1>3. up[c] \in Seq(Request) /\ r \in Request /\ r.kind = "put"
  BY <1>1, <1>2, ClientTypes
<1>4. Update(c, r) \in Answer /\ PutAnswer(r) \in Answer
  BY <1>3, UpdateType
<1>5. ASSUME NEW d \in Clients
      PROVE  LET told == IF d \in listening THEN Append(down[d], Update(c, r)) ELSE down[d]
             IN  down'[d] = IF d = c THEN Append(told, PutAnswer(r)) ELSE told
  <2>1. down[d] \in Seq(Answer)
    BY ClientTypes
  <2>2. down'[d] = down[d] \o ((IF d \in listening THEN <<Update(c, r)>> ELSE <<>>)
                                 \o (IF d = c THEN <<PutAnswer(r)>> ELSE <<>>))
    BY <1>1
  <2> DEFINE u == Update(c, r)
             a == PutAnswer(r)
  <2>3. u \in Answer /\ a \in Answer
    BY <1>4
  <2>8. down'[d] = down[d] \o ((IF d \in listening THEN <<u>> ELSE <<>>)
                                 \o (IF d = c THEN <<a>> ELSE <<>>))
    BY <2>2
  <2> HIDE DEF u, a
  <2>9. /\ down[d] \o (<<u>> \o <<a>>) = Append(Append(down[d], u), a)
        /\ down[d] \o (<<u>> \o <<>>) = Append(down[d], u)
        /\ down[d] \o (<<>> \o <<a>>) = Append(down[d], a)
        /\ down[d] \o (<<>> \o <<>>) = down[d]
    BY <2>1, <2>3, PutSent
  <2>4. CASE d \in listening /\ d = c
    BY <2>4, <2>8, <2>9 DEF u, a
  <2>5. CASE d \in listening /\ d # c
    BY <2>5, <2>8, <2>9 DEF u, a
  <2>6. CASE d \notin listening /\ d = c
    BY <2>6, <2>8, <2>9 DEF u, a
  <2>7. CASE d \notin listening /\ d # c
    BY <2>7, <2>8, <2>9 DEF u, a
  <2> QED
    BY <2>4, <2>5, <2>6, <2>7
<1> HIDE DEF r
<1>6. down' = [d \in Clients |-> down'[d]]
  BY <1>1
<1>7. PutTaken(c, n)
  BY <1>1, <1>2, <1>5, <1>6 DEF PutTaken, r
<1> QED
  BY <1>2, <1>7

LEMMA ServerListenTakes ==
  ASSUME TypeOK, NEW c \in Clients, ServerListen(c)
  PROVE  \E n \in DOMAIN up[c] : ListenTaken(c, n)
<1>1. PICK n \in Takeable(c) :
         LET r == up[c][n]
         IN  /\ r.kind = "listen"
             /\ up' = [up EXCEPT ![c] = RemoveAt(@, n)]
             /\ down' = [down EXCEPT ![c] =
                           IF r.node = "Users" \/ r.hash = products
                           THEN Append(@, ListenAnswer(r))
                           ELSE @ \o <<Data, ListenAnswer(r)>>]
             /\ listening' = IF r.node = "Products" THEN listening \cup {c} ELSE listening
             /\ UNCHANGED <<orderly, products, takenPut, connected, listens, unacked,
                            outstanding, putsToAck, writes, serverCache, complete,
                            inbox, log, known, left>>
  BY DEF ServerListen, Data, ListenAnswer
<1>2. n \in DOMAIN up[c]
  BY DEF Takeable
<1>3. up[c][n] \in Request /\ up[c][n].kind = "listen"
  BY <1>1, <1>2, ClientTypes, Element
<1>4. down[c] \o <<Data, ListenAnswer(up[c][n])>>
        = Append(Append(down[c], Data), ListenAnswer(up[c][n]))
  BY <1>3, ClientTypes, ListenAnswerType, TwoSent
<1>5. ListenTaken(c, n)
  BY <1>1, <1>2, <1>4 DEF ListenTaken
<1> QED
  BY <1>2, <1>5

LEMMA PutTakenType ==
  ASSUME TypeOK, NEW c \in Clients, NEW n \in DOMAIN up[c], PutTaken(c, n)
  PROVE  TypeOK'
<1> DEFINE r == up[c][n]
<1>1. /\ r.kind = "put"
      /\ up' = [up EXCEPT ![c] = RemoveAt(@, n)]
      /\ products' = Apply(products, r.write)
      /\ \A d \in Clients :
            LET told == IF d \in listening THEN Append(down[d], Update(c, r)) ELSE down[d]
            IN  down'[d] = IF d = c THEN Append(told, PutAnswer(r)) ELSE told
      /\ takenPut' = [takenPut EXCEPT ![c] = r.number]
      /\ log' = Append(log, <<c, r.number>>)
      /\ UNCHANGED <<orderly, listening, connected, listens, unacked, outstanding,
                     putsToAck, writes, serverCache, complete, inbox, known, left>>
  BY DEF PutTaken
<1>2. r \in Request /\ up[c] \in Seq(Request)
  BY ClientTypes, Element
<1> HIDE DEF r
<1>3. /\ Update(c, r) \in Answer /\ PutAnswer(r) \in Answer
      /\ r.number \in Nat /\ r.write \in AppWrites
  BY <1>1, <1>2, UpdateType
<1>4. up' \in [Clients -> Seq(Request)]
  <2>1. RemoveAt(up[c], n) \in Seq(Request)
    BY <1>2, RemoveAtRemoves
  <2> QED
    BY <1>1, <2>1 DEF TypeOK
<1>5. products' \in [Items -> Product]
  <2>1. products \in Products_
    BY DEF TypeOK, Products_
  <2> QED
    BY <1>1, <1>3, <2>1, ApplyType DEF Products_
<1>6. down' \in [Clients -> Seq(Answer)]
  <2>1. ASSUME NEW d \in Clients
        PROVE  down'[d] \in Seq(Answer)
    <3>1. down[d] \in Seq(Answer)
      BY ClientTypes
    <3>2. Append(down[d], Update(c, r)) \in Seq(Answer)
      BY <1>3, <3>1, Appended
    <3>3. \A s \in Seq(Answer) : Append(s, PutAnswer(r)) \in Seq(Answer)
      BY <1>3, Appended
    <3> QED
      BY <1>1, <3>1, <3>2, <3>3
  <2>2. down' = [d \in Clients |-> down'[d]]
    BY DEF PutTaken
  <2> QED
    BY <2>1, <2>2
<1>7. takenPut' \in [Clients -> Nat]
  BY <1>1, <1>3 DEF TypeOK
<1>8. /\ log' \in Seq(Clients \X Nat) /\ Len(log') = Len(log) + 1 /\ Len(log) \in Nat
  <2>1. log \in Seq(Clients \X Nat) /\ <<c, r.number>> \in Clients \X Nat
    BY <1>3 DEF TypeOK
  <2> QED
    BY <1>1, <2>1, Appended
<1>9. \A d \in Clients : known'[d] <= Len(log')
  BY <1>1, <1>8, ClientTypes
<1> QED
  BY <1>1, <1>4, <1>5, <1>6, <1>7, <1>8, <1>9 DEF TypeOK

LEMMA ListenTakenType ==
  ASSUME TypeOK, NEW c \in Clients, NEW n \in DOMAIN up[c], ListenTaken(c, n)
  PROVE  TypeOK'
<1> DEFINE r == up[c][n]
           s == IF r.node = "Users" \/ r.hash = products
                THEN Append(down[c], ListenAnswer(r))
                ELSE Append(Append(down[c], Data), ListenAnswer(r))
<1>1. /\ r.kind = "listen"
      /\ up' = [up EXCEPT ![c] = RemoveAt(@, n)]
      /\ down' = [down EXCEPT ![c] = s]
      /\ listening' = IF r.node = "Products" THEN listening \cup {c} ELSE listening
      /\ UNCHANGED <<orderly, products, takenPut, connected, listens, unacked,
                     outstanding, putsToAck, writes, serverCache, complete,
                     inbox, log, known, left>>
  BY DEF ListenTaken
<1>2. r \in Request /\ up[c] \in Seq(Request)
  BY ClientTypes, Element
<1> HIDE DEF r
<1>3. s \in Seq(Answer)
  <2>1. Data \in Answer /\ ListenAnswer(r) \in Answer
    BY <1>1, <1>2, ListenAnswerType
  <2>2. \A t \in Seq(Answer) : /\ Append(t, Data) \in Seq(Answer)
                               /\ Append(t, ListenAnswer(r)) \in Seq(Answer)
    BY <2>1, Appended
  <2> QED
    BY <2>2, ClientTypes
<1> HIDE DEF s
<1>4. up' \in [Clients -> Seq(Request)]
  <2>1. RemoveAt(up[c], n) \in Seq(Request)
    BY <1>2, RemoveAtRemoves
  <2> QED
    BY <1>1, <2>1 DEF TypeOK
<1>5. down' \in [Clients -> Seq(Answer)] /\ listening' \subseteq Clients
  BY <1>1, <1>3 DEF TypeOK
<1> QED
  BY <1>1, <1>4, <1>5 DEF TypeOK

LEMMA Arrived ==
  ASSUME TypeOK, NEW c \in Clients, NEW kind, Arrives(c, kind)
  PROVE  /\ 1 \in DOMAIN down[c] /\ Head(down[c]) = down[c][1]
         /\ down[c][1] \in Answer /\ down[c][1].kind = kind
         /\ down' = [down EXCEPT ![c] = Tail(@)]
         /\ down' \in [Clients -> Seq(Answer)]
         /\ Removed(down[c], 1, down'[c])
<1>1. /\ down[c] # <<>> /\ Head(down[c]).kind = kind
      /\ down' = [down EXCEPT ![c] = Tail(@)]
  BY DEF Arrives
<1>2. down[c] \in Seq(Answer)
  BY ClientTypes
<1>3. /\ Tail(down[c]) \in Seq(Answer) /\ Removed(down[c], 1, Tail(down[c]))
      /\ down[c][1] = Head(down[c]) /\ 1 \in DOMAIN down[c]
  BY <1>1, <1>2, TailRemoves
<1>4. down'[c] = Tail(down[c])
  BY <1>1 DEF TypeOK
<1>5. down' \in [Clients -> Seq(Answer)]
  BY <1>1, <1>3 DEF TypeOK
<1>6. down[c][1] \in Answer
  BY <1>2, <1>3, Element
<1> QED
  BY <1>1, <1>3, <1>4, <1>5, <1>6

(* Data, or the data of a put, comes into the cache.                       *)
Learned(c) ==
    LET m == down[c][1]
    IN  /\ m.kind \in {"data", "update"}
        /\ serverCache' = [serverCache EXCEPT ![c] = serverCache'[c]]
        /\ serverCache'[c] \in Products_
        /\ \A i \in Items, f \in Fields :
               serverCache'[c][i][f] = IF Tells(m, i, f) THEN Told(m, i, f)
                                       ELSE serverCache[c][i][f]
        /\ complete' = [complete EXCEPT ![c] = TRUE]
        /\ known' = [known EXCEPT ![c] = m.at]
        /\ UNCHANGED <<orderly, products, listening, takenPut, up, connected, listens,
                       unacked, outstanding, putsToAck, writes, log, left>>

LEMMA LearnedCache ==
  ASSUME TypeOK, NEW c \in Clients, NEW cache \in Products_, NEW at, NewCache(c, cache, at)
  PROVE  /\ serverCache'[c] = cache
         /\ serverCache' = [serverCache EXCEPT ![c] = serverCache'[c]]
         /\ complete' = [complete EXCEPT ![c] = TRUE]
         /\ known' = [known EXCEPT ![c] = at]
         /\ DOMAIN inbox' = Clients
         /\ UNCHANGED <<orderly, products, listening, takenPut, up, connected, listens,
                        unacked, outstanding, putsToAck, writes, log, left>>
<1>1. /\ serverCache' = [serverCache EXCEPT ![c] = cache]
      /\ complete' = [complete EXCEPT ![c] = TRUE]
      /\ known' = [known EXCEPT ![c] = at]
      /\ UNCHANGED <<orderly, products, listening, takenPut, up, connected, listens,
                     unacked, outstanding, putsToAck, writes, log, left>>
  BY DEF NewCache
<1>2. DOMAIN inbox' = Clients
  BY Raised DEF NewCache, TypeOK
<1>3. serverCache'[c] = cache
  BY <1>1 DEF TypeOK
<1> QED
  BY <1>1, <1>2, <1>3

LEMMA DataLearned ==
  ASSUME TypeOK, NEW c \in Clients, ReceiveData(c)
  PROVE  Arrives(c, "data") /\ Learned(c) /\ DOMAIN inbox' = Clients
<1> DEFINE m == down[c][1]
<1>1. Arrives(c, "data") /\ NewCache(c, Head(down[c]).products, Head(down[c]).at)
  BY DEF ReceiveData
<1>2. m = Head(down[c]) /\ m \in Answer /\ m.kind = "data"
  BY <1>1, Arrived
<1>3. m.products \in Products_
  BY <1>2, AnswerCases
<1>4. /\ serverCache'[c] = m.products
      /\ serverCache' = [serverCache EXCEPT ![c] = serverCache'[c]]
      /\ complete' = [complete EXCEPT ![c] = TRUE]
      /\ known' = [known EXCEPT ![c] = m.at]
      /\ DOMAIN inbox' = Clients
      /\ UNCHANGED <<orderly, products, listening, takenPut, up, connected, listens,
                     unacked, outstanding, putsToAck, writes, log, left>>
  BY <1>1, <1>2, <1>3, LearnedCache
<1>5. \A i \in Items, f \in Fields : Tells(m, i, f) /\ Told(m, i, f) = serverCache'[c][i][f]
  BY <1>2, <1>4 DEF Tells, Told
<1> QED
  BY <1>1, <1>2, <1>3, <1>4, <1>5 DEF Learned

LEMMA UpdateLearned ==
  ASSUME TypeOK, NEW c \in Clients, ReceiveUpdate(c)
  PROVE  Arrives(c, "update") /\ Learned(c) /\ DOMAIN inbox' = Clients
<1> DEFINE m == down[c][1]
           cache == Apply(serverCache[c], m.write)
<1>1. /\ Arrives(c, "update")
      /\ NewCache(c, Apply(serverCache[c], Head(down[c]).write), Head(down[c]).at)
  BY DEF ReceiveUpdate
<1>2. m = Head(down[c]) /\ m \in Answer /\ m.kind = "update"
  BY <1>1, Arrived
<1>3. m.write \in AppWrites /\ serverCache[c] \in Products_
  BY <1>2, AnswerCases, ClientTypes
<1>4. cache \in Products_
  BY <1>3, ApplyType
<1>5. /\ serverCache'[c] = cache
      /\ serverCache' = [serverCache EXCEPT ![c] = serverCache'[c]]
      /\ complete' = [complete EXCEPT ![c] = TRUE]
      /\ known' = [known EXCEPT ![c] = m.at]
      /\ DOMAIN inbox' = Clients
      /\ UNCHANGED <<orderly, products, listening, takenPut, up, connected, listens,
                     unacked, outstanding, putsToAck, writes, log, left>>
  BY <1>1, <1>2, <1>4, LearnedCache
<1>6. \A i \in Items, f \in Fields :
          cache[i][f] = IF Tells(m, i, f) THEN Told(m, i, f) ELSE serverCache[c][i][f]
  BY <1>2, <1>3, ApplyField DEF Tells, Told
<1> QED
  BY <1>1, <1>2, <1>4, <1>5, <1>6 DEF Learned

LEMMA LearnedType ==
  ASSUME TypeOK, NEW c \in Clients, KnownInv(c), NEW kind, Arrives(c, kind), Learned(c),
         DOMAIN inbox' = Clients
  PROVE  TypeOK'
<1> DEFINE m == down[c][1]
<1>1. m \in Answer /\ down' \in [Clients -> Seq(Answer)] /\ 1 \in DOMAIN down[c]
  BY Arrived
<1>2. /\ m.kind \in {"data", "update"}
      /\ serverCache' = [serverCache EXCEPT ![c] = serverCache'[c]]
      /\ serverCache'[c] \in Products_
      /\ complete' = [complete EXCEPT ![c] = TRUE]
      /\ known' = [known EXCEPT ![c] = m.at]
      /\ UNCHANGED <<orderly, products, listening, takenPut, up, connected, listens,
                     unacked, outstanding, putsToAck, writes, log, left>>
  BY DEF Learned
<1>3. m.at \in Nat
  BY <1>1, <1>2, AnswerCases
<1>4. m.at <= Len(log)
  BY <1>1, <1>2 DEF KnownInv, AscendingAts
<1> HIDE DEF m
<1>5. known' \in [Clients -> Nat] /\ \A d \in Clients : known'[d] <= Len(log')
  BY <1>2, <1>3, <1>4 DEF TypeOK
<1>6. serverCache' \in [Clients -> [Items -> Product]]
  BY <1>2 DEF TypeOK, Products_
<1>7. complete' \in [Clients -> BOOLEAN]
  BY <1>2 DEF TypeOK
<1> QED
  BY <1>1, <1>2, <1>5, <1>6, <1>7 DEF TypeOK

LEMMA WithoutType ==
  ASSUME NEW q \in Seq(AppWrites \cup {Null}), NEW S
  PROVE  /\ Without(q, S) \in Seq(AppWrites \cup {Null})
         /\ DOMAIN Without(q, S) = DOMAIN q
         /\ Len(Without(q, S)) = Len(q)
         /\ \A k \in DOMAIN q : Without(q, S)[k] = IF k \in S THEN Null ELSE q[k]
  BY DEF Without

(* The answer to a put takes effect or is held.                            *)
PutAnswered(c) ==
    LET k == down[c][1].number
    IN  /\ outstanding' = [outstanding EXCEPT ![c] = @ \ {k}]
        /\ IF unacked[c] = 0
           THEN /\ writes' = [writes EXCEPT ![c] = Without(@, {k})]
                /\ putsToAck' = putsToAck
           ELSE /\ putsToAck' = [putsToAck EXCEPT ![c] = Append(@, k)]
                /\ writes' = writes
        /\ UNCHANGED <<orderly, products, listening, takenPut, up, connected, listens,
                       unacked, serverCache, complete, log, known, left>>

LEMMA PutAnswerTaken ==
  ASSUME TypeOK, NEW c \in Clients, ReceivePutAnswer(c)
  PROVE  Arrives(c, "put") /\ PutAnswered(c) /\ DOMAIN inbox' = Clients
<1>1. Arrives(c, "put")
  BY DEF ReceivePutAnswer
<1>2. Head(down[c]) = down[c][1]
  BY <1>1, Arrived
<1>3. writes' = IF unacked[c] = 0
                THEN [writes EXCEPT ![c] = Without(writes[c], {Head(down[c]).number})]
                ELSE writes
  BY DEF ReceivePutAnswer, AckedAtOnce
<1>4. PutAnswered(c)
  <2>1. /\ outstanding' = [outstanding EXCEPT ![c] = @ \ {Head(down[c]).number}]
        /\ IF unacked[c] = 0 THEN putsToAck' = putsToAck
           ELSE putsToAck' = [putsToAck EXCEPT ![c] = Append(@, Head(down[c]).number)]
        /\ UNCHANGED <<orderly, products, listening, takenPut, up, connected, listens,
                       unacked, serverCache, complete, log, known, left>>
    BY DEF ReceivePutAnswer, AckedAtOnce
  <2> QED
    BY <1>2, <1>3, <2>1 DEF PutAnswered
<1>5. DOMAIN inbox' = Clients
  <2>1. DOMAIN inbox = Clients
    BY DEF TypeOK
  <2>2. CASE unacked[c] = 0
    BY <2>1, <2>2, Raised DEF ReceivePutAnswer, AckedAtOnce
  <2>3. CASE unacked[c] # 0
    BY <2>1, <2>3 DEF ReceivePutAnswer, AckedAtOnce
  <2> QED
    BY <2>2, <2>3
<1> QED
  BY <1>1, <1>4, <1>5

LEMMA PutAnsweredType ==
  ASSUME TypeOK, NEW c \in Clients, PutsInv(c), Arrives(c, "put"), PutAnswered(c),
         DOMAIN inbox' = Clients
  PROVE  TypeOK'
<1> DEFINE k == down[c][1].number
<1>1. /\ 1 \in DOMAIN down[c] /\ down[c][1].kind = "put"
      /\ down' \in [Clients -> Seq(Answer)]
  BY Arrived
<1>2. k \in Puts(down[c])
  BY <1>1 DEF Puts
<1>3. k \in outstanding[c]
  BY <1>2 DEF PutsInv
<1>4. k \in Nat /\ k \in DOMAIN writes[c]
  BY <1>3, OutstandingWrites
<1>5. /\ outstanding' = [outstanding EXCEPT ![c] = @ \ {k}]
      /\ IF unacked[c] = 0
         THEN /\ writes' = [writes EXCEPT ![c] = Without(@, {k})]
              /\ putsToAck' = putsToAck
         ELSE /\ putsToAck' = [putsToAck EXCEPT ![c] = Append(@, k)]
              /\ writes' = writes
      /\ UNCHANGED <<orderly, products, listening, takenPut, up, connected, listens,
                     unacked, serverCache, complete, log, known, left>>
  BY DEF PutAnswered
<1> HIDE DEF k
<1>6. outstanding' \in [Clients -> SUBSET Nat]
  BY <1>5 DEF TypeOK
<1>7. /\ Without(writes[c], {k}) \in Seq(AppWrites \cup {Null})
      /\ DOMAIN Without(writes[c], {k}) = DOMAIN writes[c]
  <2>1. writes[c] \in Seq(AppWrites \cup {Null})
    BY ClientTypes
  <2> QED
    BY <2>1, WithoutType
<1>8. writes' \in [Clients -> Seq(AppWrites \cup {Null})]
  BY <1>5, <1>7 DEF TypeOK
<1>9. /\ Append(putsToAck[c], k) \in Seq(Nat)
      /\ ToSet(Append(putsToAck[c], k)) \subseteq ToSet(putsToAck[c]) \cup {k}
  <2>1. putsToAck[c] \in Seq(Nat)
    BY ClientTypes
  <2>2. /\ Append(putsToAck[c], k) \in Seq(Nat)
        /\ DOMAIN Append(putsToAck[c], k) = DOMAIN putsToAck[c] \cup {Len(putsToAck[c]) + 1}
        /\ Append(putsToAck[c], k)[Len(putsToAck[c]) + 1] = k
        /\ \A n \in DOMAIN putsToAck[c] : Append(putsToAck[c], k)[n] = putsToAck[c][n]
    BY <1>4, <2>1, Appended
  <2> QED
    BY <2>2 DEF ToSet
<1>10. putsToAck' \in [Clients -> Seq(Nat)]
  BY <1>5, <1>9 DEF TypeOK
<1>11. \A d \in Clients : NumbersIn(d)'
  <2>1. /\ outstanding'[c] = outstanding[c] \ {k}
        /\ DOMAIN writes'[c] = DOMAIN writes[c]
    BY <1>5, <1>7 DEF TypeOK
  <2>2. ToSet(putsToAck'[c]) \subseteq ToSet(putsToAck[c]) \cup {k}
    <3>1. CASE unacked[c] = 0
      BY <1>5, <3>1
    <3>2. CASE unacked[c] # 0
      <4>1. putsToAck'[c] = Append(putsToAck[c], k)
        BY <1>5, <3>2 DEF TypeOK
      <4> QED
        BY <1>9, <4>1
    <3> QED
      BY <3>1, <3>2
  <2>3. NumbersIn(c)
    BY DEF TypeOK, NumbersIn
  <2>4. NumbersIn(c)'
    BY <1>4, <2>1, <2>2, <2>3 DEF NumbersIn
  <2>5. \A d \in Clients \ {c} : /\ outstanding'[d] = outstanding[d]
                                 /\ putsToAck'[d] = putsToAck[d] /\ writes'[d] = writes[d]
    BY <1>5 DEF TypeOK
  <2> QED
    BY <2>4, <2>5, NumbersKept
<1> QED
  BY <1>1, <1>5, <1>6, <1>8, <1>10, <1>11 DEF TypeOK, NumbersIn

(* The answer to a listen: the last of them releases the held answers.     *)
Released(c) == IF unacked[c] = 1 THEN Held(c) ELSE {}

ListenAnswered(c) ==
    LET m == down[c][1]
    IN  /\ unacked' = [unacked EXCEPT ![c] = @ - 1]
        /\ putsToAck' = [putsToAck EXCEPT ![c] = IF unacked[c] = 1 THEN <<>> ELSE @]
        /\ writes' = [writes EXCEPT ![c] = Without(@, Released(c))]
        /\ listens' = IF m.node = "Users" THEN [listens EXCEPT ![c] = @ \ {"Users"}] ELSE listens
        /\ complete' = IF m.node = "Users" THEN complete ELSE [complete EXCEPT ![c] = TRUE]
        /\ known' = IF m.node # "Users" /\ m.same THEN [known EXCEPT ![c] = m.at] ELSE known
        /\ UNCHANGED <<orderly, products, listening, takenPut, up, connected, outstanding,
                       serverCache, log, left>>

LEMMA ListenAnswerTaken ==
  ASSUME TypeOK, NEW c \in Clients, ReceiveListenAnswer(c)
  PROVE  Arrives(c, "listen") /\ ListenAnswered(c) /\ DOMAIN inbox' = Clients
<1> DEFINE m == Head(down[c])
<1>1. Arrives(c, "listen")
  BY DEF ReceiveListenAnswer
<1>2. m = down[c][1]
  BY <1>1, Arrived
<1>3. DOMAIN inbox = Clients
  BY DEF TypeOK
<1>4. /\ unacked' = [unacked EXCEPT ![c] = @ - 1]
      /\ putsToAck' = [putsToAck EXCEPT ![c] = IF unacked[c] = 1 THEN <<>> ELSE @]
      /\ UNCHANGED <<orderly, products, listening, takenPut, up, connected, outstanding,
                     serverCache, log, left>>
  BY DEF ReceiveListenAnswer
<1>5. writes' = [writes EXCEPT ![c] = Without(writes[c], Released(c))]
  BY DEF ReceiveListenAnswer, Released, Held
<1>6. CASE m.node = "Users"
  <2>1. listens' = [listens EXCEPT ![c] = @ \ {"Users"}] /\ complete' = complete /\ known' = known
    BY <1>6 DEF ReceiveListenAnswer
  <2>2. DOMAIN inbox' = Clients
    BY <1>3, <1>6, Raised DEF ReceiveListenAnswer
  <2> QED
    BY <1>1, <1>2, <1>4, <1>5, <1>6, <2>1, <2>2 DEF ListenAnswered
<1>7. CASE m.node # "Users"
  <2>1. /\ complete' = [complete EXCEPT ![c] = TRUE] /\ listens' = listens
        /\ known' = [known EXCEPT ![c] = IF m.same THEN m.at ELSE @]
    BY <1>7 DEF ReceiveListenAnswer
  <2>2. known' = IF m.same THEN [known EXCEPT ![c] = m.at] ELSE known
    BY <2>1 DEF TypeOK
  <2>3. DOMAIN inbox' = Clients
    BY <1>3, <1>7, Raised DEF ReceiveListenAnswer
  <2> QED
    BY <1>1, <1>2, <1>4, <1>5, <1>7, <2>1, <2>2, <2>3 DEF ListenAnswered
<1> QED
  BY <1>6, <1>7

(* A listen whose answer arrives is counted.                               *)
LEMMA ListenCounted ==
  ASSUME TypeOK, NEW c \in Clients, ListensInv(c), Arrives(c, "listen")
  PROVE  /\ unacked[c] > 0
         /\ IsListen(down[c][1], down[c][1].node) /\ 1 \in Answered(c, down[c][1].node)
         /\ down[c][1].node \in {"Products", "Users"}
<1>1. 1 \in DOMAIN down[c] /\ down[c][1].kind = "listen" /\ down[c][1] \in Answer
  BY Arrived
<1>2. down[c][1].node \in {"Products", "Users"}
  BY <1>1, AnswerCases
<1>3. 1 \in Answered(c, down[c][1].node) /\ IsListen(down[c][1], down[c][1].node)
  BY <1>1 DEF Answered, ListensIn, IsListen
<1>4. InFlight(c, "Products") \/ InFlight(c, "Users")
  BY <1>2, <1>3 DEF InFlight
<1>5. unacked[c] = (IF InFlight(c, "Products") THEN 1 ELSE 0)
                     + (IF InFlight(c, "Users") THEN 1 ELSE 0)
  BY DEF ListensInv
<1> QED
  BY <1>2, <1>3, <1>4, <1>5

LEMMA ListenAnsweredType ==
  ASSUME TypeOK, NEW c \in Clients, ListensInv(c), KnownInv(c), Arrives(c, "listen"),
         ListenAnswered(c), DOMAIN inbox' = Clients
  PROVE  TypeOK'
<1> DEFINE m == down[c][1]
<1>1. /\ 1 \in DOMAIN down[c] /\ m.kind = "listen" /\ m \in Answer
      /\ down' \in [Clients -> Seq(Answer)]
  BY Arrived
<1>2. m.at \in Nat /\ m.node \in {"Products", "Users"}
  BY <1>1, AnswerCases
<1>3. m.at <= Len(log)
  BY <1>1 DEF KnownInv, AscendingAts
<1>4. /\ unacked' = [unacked EXCEPT ![c] = @ - 1]
      /\ putsToAck' = [putsToAck EXCEPT ![c] = IF unacked[c] = 1 THEN <<>> ELSE @]
      /\ writes' = [writes EXCEPT ![c] = Without(@, Released(c))]
      /\ listens' = IF m.node = "Users" THEN [listens EXCEPT ![c] = @ \ {"Users"}] ELSE listens
      /\ complete' = IF m.node = "Users" THEN complete ELSE [complete EXCEPT ![c] = TRUE]
      /\ known' = IF m.node # "Users" /\ m.same THEN [known EXCEPT ![c] = m.at] ELSE known
      /\ UNCHANGED <<orderly, products, listening, takenPut, up, connected, outstanding,
                     serverCache, log, left>>
  BY DEF ListenAnswered
<1> HIDE DEF m
<1>5. unacked' \in [Clients -> Nat]
  <2>1. unacked[c] > 0
    BY ListenCounted
  <2>2. unacked \in [Clients -> Nat]
    BY DEF TypeOK
  <2> QED
    BY <1>4, <2>1, <2>2
<1>6. putsToAck' \in [Clients -> Seq(Nat)]
  BY <1>4 DEF TypeOK
<1>7. listens' \in [Clients -> {{"Products"}, {"Products", "Users"}}]
  <2>1. listens[c] \ {"Users"} = {"Products"}
    BY ClientTypes
  <2> QED
    BY <1>4, <2>1 DEF TypeOK
<1>8. complete' \in [Clients -> BOOLEAN]
  BY <1>4 DEF TypeOK
<1>9. known' \in [Clients -> Nat] /\ \A d \in Clients : known'[d] <= Len(log')
  <2>1. known' = known \/ known' = [known EXCEPT ![c] = m.at]
    BY <1>4
  <2>2. log' = log
    BY <1>4
  <2> QED
    BY <1>2, <1>3, <2>1, <2>2 DEF TypeOK
<1>10. /\ Without(writes[c], Released(c)) \in Seq(AppWrites \cup {Null})
       /\ DOMAIN Without(writes[c], Released(c)) = DOMAIN writes[c]
  <2>1. writes[c] \in Seq(AppWrites \cup {Null})
    BY ClientTypes
  <2> QED
    BY <2>1, WithoutType
<1>11. writes' \in [Clients -> Seq(AppWrites \cup {Null})]
  BY <1>4, <1>10 DEF TypeOK
<1>12. \A d \in Clients : NumbersIn(d)'
  <2>1. /\ outstanding'[c] = outstanding[c]
        /\ DOMAIN writes'[c] = DOMAIN writes[c]
        /\ putsToAck'[c] = IF unacked[c] = 1 THEN <<>> ELSE putsToAck[c]
    BY <1>4, <1>10 DEF TypeOK
  <2>2. ToSet(putsToAck'[c]) \subseteq ToSet(putsToAck[c])
    BY <2>1 DEF ToSet
  <2>3. NumbersIn(c)
    BY DEF TypeOK, NumbersIn
  <2>4. NumbersIn(c)'
    BY <2>1, <2>2, <2>3 DEF NumbersIn
  <2>5. \A d \in Clients \ {c} : /\ outstanding'[d] = outstanding[d]
                                 /\ putsToAck'[d] = putsToAck[d] /\ writes'[d] = writes[d]
    BY <1>4 DEF TypeOK
  <2> QED
    BY <2>4, <2>5, NumbersKept
<1> QED
  BY <1>1, <1>4, <1>5, <1>6, <1>7, <1>8, <1>9, <1>11, <1>12 DEF TypeOK, NumbersIn

(* One lemma for each action; a stuttering step changes nothing.           *)
LEMMA TypeNext == IInv /\ [Next]_vars => TypeOK'
<1> SUFFICES ASSUME IInv, [Next]_vars
             PROVE  TypeOK'
  OBVIOUS
<1>1. TypeOK /\ \A c \in Clients : ListensInv(c) /\ PutsInv(c) /\ KnownInv(c)
  BY DEF IInv, RealtimeInv
<1>2. ASSUME NEW c \in Clients, NEW w \in AppWrites, SetValue(c, w)
      PROVE  TypeOK'
  BY <1>1, <1>2, SetValueType
<1>3. ASSUME NEW c \in Clients, ListenToUsers(c)
      PROVE  TypeOK'
  BY <1>1, <1>3, ListenToUsersType
<1>4. ASSUME NEW c \in Clients, TakeEvent(c)
      PROVE  TypeOK'
  BY <1>1, <1>4, TakeEventType
<1>5. ASSUME NEW c \in Clients, Connect(c)
      PROVE  TypeOK'
  BY <1>1, <1>5, ConnectType
<1>6. ASSUME NEW c \in Clients, Disconnect(c)
      PROVE  TypeOK'
  BY <1>1, <1>6, DisconnectType
<1>7. ASSUME NEW c \in Clients, ServerListen(c)
      PROVE  TypeOK'
  BY <1>1, <1>7, ServerListenTakes, ListenTakenType
<1>8. ASSUME NEW c \in Clients, ServerPut(c)
      PROVE  TypeOK'
  BY <1>1, <1>8, ServerPutTakes, PutTakenType
<1>9. ASSUME NEW c \in Clients, ReceiveData(c)
      PROVE  TypeOK'
  BY <1>1, <1>9, DataLearned, LearnedType
<1>10. ASSUME NEW c \in Clients, ReceiveUpdate(c)
       PROVE  TypeOK'
  BY <1>1, <1>10, UpdateLearned, LearnedType
<1>11. ASSUME NEW c \in Clients, ReceiveListenAnswer(c)
       PROVE  TypeOK'
  BY <1>1, <1>11, ListenAnswerTaken, ListenAnsweredType
<1>12. ASSUME NEW c \in Clients, ReceivePutAnswer(c)
       PROVE  TypeOK'
  BY <1>1, <1>12, PutAnswerTaken, PutAnsweredType
<1>13. ASSUME UNCHANGED vars
       PROVE  TypeOK'
  BY <1>1, <1>13 DEF vars, TypeOK
<1> QED
  BY <1>2, <1>3, <1>4, <1>5, <1>6, <1>7, <1>8, <1>9, <1>10, <1>11, <1>12, <1>13 DEF Next

-----------------------------------------------------------------------------
(***************************************************************************)
(* What each action does to its client, and that it leaves the others      *)
(* alone                                                                   *)
(***************************************************************************)
OthersSame(c) == \A d \in Clients : d # c => Same(d)

LEMMA SetValueAt ==
  ASSUME TypeOK, NEW c \in Clients, NEW w \in AppWrites, SetValue(c, w)
  PROVE  LET q == Append(writes[c], w)
         IN  /\ writes'[c] = q /\ outstanding'[c] = outstanding[c] \cup {Len(q)}
             /\ up'[c] = IF connected[c] THEN Append(up[c], PutRequest(q, Len(q))) ELSE up[c]
             /\ down'[c] = down[c] /\ connected'[c] = connected[c]
             /\ listens'[c] = listens[c] /\ unacked'[c] = unacked[c]
             /\ putsToAck'[c] = putsToAck[c] /\ serverCache'[c] = serverCache[c]
             /\ complete'[c] = complete[c] /\ known'[c] = known[c]
             /\ listening' = listening /\ log' = log /\ products' = products
             /\ OthersSame(c)
<1> DEFINE q == Append(writes[c], w)
<1>1. /\ writes' = [writes EXCEPT ![c] = q]
      /\ outstanding' = [outstanding EXCEPT ![c] = @ \cup {Len(q)}]
      /\ up' = IF connected[c] THEN [up EXCEPT ![c] = Append(@, PutRequest(q, Len(q)))]
               ELSE up
      /\ UNCHANGED <<orderly, products, listening, takenPut, down, connected, listens,
                     unacked, putsToAck, serverCache, complete, log, known>>
  BY DEF SetValue
<1> HIDE DEF q
<1>2. /\ writes'[c] = q /\ outstanding'[c] = outstanding[c] \cup {Len(q)}
      /\ up'[c] = IF connected[c] THEN Append(up[c], PutRequest(q, Len(q))) ELSE up[c]
  BY <1>1 DEF TypeOK
<1>3. OthersSame(c)
  BY <1>1 DEF TypeOK, OthersSame, Same
<1> QED
  BY <1>1, <1>2, <1>3 DEF q

LEMMA ListenToUsersAt ==
  ASSUME TypeOK, NEW c \in Clients, ListenToUsers(c)
  PROVE  /\ "Users" \notin listens[c]
         /\ listens'[c] = listens[c] \cup {"Users"}
         /\ up'[c] = IF connected[c] THEN Append(up[c], ListenRequest(c, "Users")) ELSE up[c]
         /\ unacked'[c] = IF connected[c] THEN unacked[c] + 1 ELSE unacked[c]
         /\ down'[c] = down[c] /\ connected'[c] = connected[c]
         /\ outstanding'[c] = outstanding[c] /\ putsToAck'[c] = putsToAck[c]
         /\ writes'[c] = writes[c] /\ serverCache'[c] = serverCache[c]
         /\ complete'[c] = complete[c] /\ known'[c] = known[c]
         /\ listening' = listening /\ log' = log /\ products' = products
         /\ OthersSame(c)
<1>1. /\ "Users" \notin listens[c]
      /\ listens' = [listens EXCEPT ![c] = @ \cup {"Users"}]
      /\ IF connected[c]
         THEN /\ up' = [up EXCEPT ![c] = Append(@, ListenRequest(c, "Users"))]
              /\ unacked' = [unacked EXCEPT ![c] = @ + 1]
         ELSE UNCHANGED <<up, unacked>>
      /\ UNCHANGED <<orderly, products, listening, takenPut, down, connected, outstanding,
                     putsToAck, writes, serverCache, complete, inbox, log, known>>
  BY DEF ListenToUsers
<1>2. OthersSame(c)
  BY <1>1 DEF TypeOK, OthersSame, Same
<1> QED
  BY <1>1, <1>2 DEF TypeOK

LEMMA ConnectAt ==
  ASSUME TypeOK, NEW c \in Clients, PutsInv(c), Connect(c)
  PROVE  /\ ~connected[c] /\ connected'[c] = TRUE
         /\ unacked'[c] = unacked[c] + (IF "Users" \in listens[c] THEN 2 ELSE 1)
         /\ up'[c] = Again(c) \o PutsAgain(c)
         /\ down'[c] = down[c] /\ listens'[c] = listens[c]
         /\ outstanding'[c] = outstanding[c] /\ putsToAck'[c] = putsToAck[c]
         /\ writes'[c] = writes[c] /\ serverCache'[c] = serverCache[c]
         /\ complete'[c] = complete[c] /\ known'[c] = known[c]
         /\ listening' = listening /\ log' = log /\ products' = products
         /\ OthersSame(c)
<1>1. /\ ~connected[c]
      /\ connected' = [connected EXCEPT ![c] = TRUE]
      /\ unacked' = [unacked EXCEPT ![c] = @ + (IF "Users" \in listens[c] THEN 2 ELSE 1)]
      /\ up' = [up EXCEPT ![c] = Again(c) \o PutsAgain(c)]
      /\ UNCHANGED <<orderly, products, listening, takenPut, down, listens, outstanding,
                     putsToAck, writes, serverCache, complete, inbox, log, known, left>>
  BY Connected
<1>2. OthersSame(c)
  BY <1>1 DEF TypeOK, OthersSame, Same
<1> QED
  BY <1>1, <1>2 DEF TypeOK

LEMMA DisconnectAt ==
  ASSUME TypeOK, NEW c \in Clients, Disconnect(c)
  PROVE  /\ connected'[c] = FALSE /\ unacked'[c] = 0 /\ up'[c] = <<>> /\ down'[c] = <<>>
         /\ c \notin listening' /\ listens'[c] = listens[c]
         /\ outstanding'[c] = outstanding[c] /\ putsToAck'[c] = putsToAck[c]
         /\ writes'[c] = writes[c] /\ serverCache'[c] = serverCache[c]
         /\ complete'[c] = complete[c] /\ known'[c] = known[c]
         /\ log' = log /\ products' = products
         /\ OthersSame(c)
<1>1. /\ connected' = [connected EXCEPT ![c] = FALSE]
      /\ outstanding' = [outstanding EXCEPT ![c] = outstanding[c]]
      /\ unacked' = [unacked EXCEPT ![c] = 0]
      /\ up' = [up EXCEPT ![c] = <<>>]
      /\ down' = [down EXCEPT ![c] = <<>>]
      /\ listening' = listening \ {c}
      /\ UNCHANGED <<orderly, products, listens, putsToAck, writes, serverCache, complete,
                     inbox, log, known>>
  BY DEF Disconnect, OutstandingAfterLoss, UnackedAfterLoss, DownAfterLoss
<1>2. OthersSame(c)
  BY <1>1 DEF TypeOK, OthersSame, Same
<1> QED
  BY <1>1, <1>2 DEF TypeOK

LEMMA ListenTakenAt ==
  ASSUME TypeOK, NEW c \in Clients, NEW n \in DOMAIN up[c], ListenTaken(c, n)
  PROVE  LET r == up[c][n]
         IN  /\ r \in Request /\ r.kind = "listen" /\ r.node \in {"Products", "Users"}
             /\ Removed(up[c], n, up'[c])
             /\ down'[c] = IF r.node = "Users" \/ r.hash = products
                           THEN Append(down[c], ListenAnswer(r))
                           ELSE Append(Append(down[c], Data), ListenAnswer(r))
             /\ c \in listening' <=> r.node = "Products" \/ c \in listening
             /\ connected'[c] = connected[c] /\ listens'[c] = listens[c]
             /\ unacked'[c] = unacked[c]
             /\ outstanding'[c] = outstanding[c] /\ putsToAck'[c] = putsToAck[c]
             /\ writes'[c] = writes[c] /\ serverCache'[c] = serverCache[c]
             /\ complete'[c] = complete[c] /\ known'[c] = known[c]
             /\ log' = log /\ products' = products
             /\ OthersSame(c)
<1> DEFINE r == up[c][n]
           s == IF r.node = "Users" \/ r.hash = products
                THEN Append(down[c], ListenAnswer(r))
                ELSE Append(Append(down[c], Data), ListenAnswer(r))
<1>1. /\ r.kind = "listen"
      /\ up' = [up EXCEPT ![c] = RemoveAt(@, n)]
      /\ down' = [down EXCEPT ![c] = s]
      /\ listening' = IF r.node = "Products" THEN listening \cup {c} ELSE listening
      /\ UNCHANGED <<orderly, products, takenPut, connected, listens, unacked,
                     outstanding, putsToAck, writes, serverCache, complete,
                     inbox, log, known, left>>
  BY DEF ListenTaken
<1>2. r \in Request /\ up[c] \in Seq(Request)
  BY ClientTypes, Element
<1>3. r.node \in {"Products", "Users"}
  BY <1>1, <1>2, RequestCases
<1> HIDE DEF s, r
<1>4. up'[c] = RemoveAt(up[c], n) /\ down'[c] = s
  BY <1>1 DEF TypeOK
<1>5. Removed(up[c], n, up'[c])
  BY <1>2, <1>4, RemoveAtRemoves
<1>6. OthersSame(c)
  BY <1>1 DEF TypeOK, OthersSame, Same
<1> QED
  BY <1>1, <1>2, <1>3, <1>4, <1>5, <1>6 DEF r, s

LEMMA PutTakenAt ==
  ASSUME TypeOK, NEW c \in Clients, NEW n \in DOMAIN up[c], PutTaken(c, n)
  PROVE  LET r == up[c][n]
         IN  /\ r \in Request /\ r.kind = "put" /\ r.number \in Nat /\ r.write \in AppWrites
             /\ \A m \in 1..n-1 : up[c][m].kind # "put"
             /\ Removed(up[c], n, up'[c])
             /\ \A d \in Clients : d # c => up'[d] = up[d]
             /\ \A d \in Clients :
                  LET told == IF d \in listening THEN Append(down[d], Update(c, r)) ELSE down[d]
                  IN  down'[d] = IF d = c THEN Append(told, PutAnswer(r)) ELSE told
             /\ log' = Append(log, <<c, r.number>>)
             /\ products' = Apply(products, r.write)
             /\ UNCHANGED <<listening, connected, listens, unacked, outstanding, putsToAck,
                            writes, serverCache, complete, known>>
<1> DEFINE r == up[c][n]
<1>1. /\ r.kind = "put"
      /\ \A m \in 1..n-1 : up[c][m].kind # "put"
      /\ up' = [up EXCEPT ![c] = RemoveAt(@, n)]
      /\ \A d \in Clients :
            LET told == IF d \in listening THEN Append(down[d], Update(c, r)) ELSE down[d]
            IN  down'[d] = IF d = c THEN Append(told, PutAnswer(r)) ELSE told
      /\ log' = Append(log, <<c, r.number>>)
      /\ products' = Apply(products, r.write)
      /\ UNCHANGED <<listening, connected, listens, unacked, outstanding, putsToAck,
                     writes, serverCache, complete, known>>
  BY DEF PutTaken
<1>2. r \in Request /\ up[c] \in Seq(Request)
  BY ClientTypes, Element
<1>3. r.number \in Nat /\ r.write \in AppWrites
  BY <1>1, <1>2, RequestCases
<1> HIDE DEF r
<1>4. up'[c] = RemoveAt(up[c], n) /\ \A d \in Clients : d # c => up'[d] = up[d]
  BY <1>1 DEF TypeOK
<1>5. Removed(up[c], n, up'[c])
  BY <1>2, <1>4, RemoveAtRemoves
<1> QED
  BY <1>1, <1>2, <1>3, <1>4, <1>5 DEF r

LEMMA LearnedAt ==
  ASSUME TypeOK, NEW c \in Clients, NEW kind, Arrives(c, kind), Learned(c)
  PROVE  LET m == down[c][1]
         IN  /\ m \in Answer /\ m.kind \in {"data", "update"} /\ 1 \in DOMAIN down[c]
             /\ Removed(down[c], 1, down'[c])
             /\ \A i \in Items, f \in Fields :
                    serverCache'[c][i][f] = IF Tells(m, i, f) THEN Told(m, i, f)
                                            ELSE serverCache[c][i][f]
             /\ complete'[c] = TRUE /\ known'[c] = m.at
             /\ up'[c] = up[c] /\ connected'[c] = connected[c] /\ listens'[c] = listens[c]
             /\ unacked'[c] = unacked[c] /\ outstanding'[c] = outstanding[c]
             /\ putsToAck'[c] = putsToAck[c] /\ writes'[c] = writes[c]
             /\ listening' = listening /\ log' = log /\ products' = products
             /\ OthersSame(c)
<1> DEFINE m == down[c][1]
<1>1. /\ m \in Answer /\ 1 \in DOMAIN down[c] /\ down' = [down EXCEPT ![c] = Tail(@)]
      /\ Removed(down[c], 1, down'[c])
  BY Arrived
<1>2. /\ m.kind \in {"data", "update"}
      /\ serverCache' = [serverCache EXCEPT ![c] = serverCache'[c]]
      /\ \A i \in Items, f \in Fields :
             serverCache'[c][i][f] = IF Tells(m, i, f) THEN Told(m, i, f)
                                     ELSE serverCache[c][i][f]
      /\ complete' = [complete EXCEPT ![c] = TRUE]
      /\ known' = [known EXCEPT ![c] = m.at]
      /\ UNCHANGED <<orderly, products, listening, takenPut, up, connected, listens,
                     unacked, outstanding, putsToAck, writes, log, left>>
  BY DEF Learned
<1> HIDE DEF m
<1>3. OthersSame(c)
  BY <1>1, <1>2 DEF TypeOK, OthersSame, Same
<1>4. complete'[c] = TRUE /\ known'[c] = m.at
  BY <1>2 DEF TypeOK
<1> QED
  BY <1>1, <1>2, <1>3, <1>4 DEF m

LEMMA ListenAnsweredAt ==
  ASSUME TypeOK, NEW c \in Clients, Arrives(c, "listen"), ListenAnswered(c)
  PROVE  LET m == down[c][1]
         IN  /\ m \in Answer /\ m.kind = "listen" /\ m.node \in {"Products", "Users"}
             /\ 1 \in DOMAIN down[c] /\ Removed(down[c], 1, down'[c])
             /\ unacked'[c] = unacked[c] - 1
             /\ putsToAck'[c] = IF unacked[c] = 1 THEN <<>> ELSE putsToAck[c]
             /\ writes'[c] = Without(writes[c], Released(c))
             /\ listens'[c] = IF m.node = "Users" THEN listens[c] \ {"Users"} ELSE listens[c]
             /\ complete'[c] = IF m.node = "Users" THEN complete[c] ELSE TRUE
             /\ known'[c] = IF m.node # "Users" /\ m.same THEN m.at ELSE known[c]
             /\ up'[c] = up[c] /\ connected'[c] = connected[c]
             /\ outstanding'[c] = outstanding[c] /\ serverCache'[c] = serverCache[c]
             /\ listening' = listening /\ log' = log /\ products' = products
             /\ OthersSame(c)
<1> DEFINE m == down[c][1]
<1>1. /\ m \in Answer /\ m.kind = "listen" /\ 1 \in DOMAIN down[c]
      /\ down' = [down EXCEPT ![c] = Tail(@)]
      /\ Removed(down[c], 1, down'[c])
  BY Arrived
<1>2. /\ unacked' = [unacked EXCEPT ![c] = @ - 1]
      /\ putsToAck' = [putsToAck EXCEPT ![c] = IF unacked[c] = 1 THEN <<>> ELSE @]
      /\ writes' = [writes EXCEPT ![c] = Without(@, Released(c))]
      /\ listens' = IF m.node = "Users" THEN [listens EXCEPT ![c] = @ \ {"Users"}] ELSE listens
      /\ complete' = IF m.node = "Users" THEN complete ELSE [complete EXCEPT ![c] = TRUE]
      /\ known' = IF m.node # "Users" /\ m.same THEN [known EXCEPT ![c] = m.at] ELSE known
      /\ UNCHANGED <<orderly, products, listening, takenPut, up, connected, outstanding,
                     serverCache, log, left>>
  BY DEF ListenAnswered
<1>3. m.node \in {"Products", "Users"}
  BY <1>1, AnswerCases
<1> HIDE DEF m
<1>4. OthersSame(c)
  BY <1>1, <1>2 DEF TypeOK, OthersSame, Same
<1>5. /\ unacked'[c] = unacked[c] - 1
      /\ putsToAck'[c] = IF unacked[c] = 1 THEN <<>> ELSE putsToAck[c]
      /\ writes'[c] = Without(writes[c], Released(c))
  BY <1>2 DEF TypeOK
<1>6. /\ listens'[c] = IF m.node = "Users" THEN listens[c] \ {"Users"} ELSE listens[c]
      /\ complete'[c] = IF m.node = "Users" THEN complete[c] ELSE TRUE
      /\ known'[c] = IF m.node # "Users" /\ m.same THEN m.at ELSE known[c]
  BY <1>2 DEF TypeOK
<1> QED
  BY <1>1, <1>2, <1>3, <1>4, <1>5, <1>6 DEF m

LEMMA PutAnsweredAt ==
  ASSUME TypeOK, NEW c \in Clients, Arrives(c, "put"), PutAnswered(c)
  PROVE  LET m == down[c][1]
         IN  /\ m \in Answer /\ m.kind = "put" /\ m.number \in Nat
             /\ 1 \in DOMAIN down[c] /\ Removed(down[c], 1, down'[c])
             /\ outstanding'[c] = outstanding[c] \ {m.number}
             /\ putsToAck'[c] = IF unacked[c] = 0 THEN putsToAck[c]
                                ELSE Append(putsToAck[c], m.number)
             /\ writes'[c] = IF unacked[c] = 0 THEN Without(writes[c], {m.number})
                             ELSE writes[c]
             /\ up'[c] = up[c] /\ connected'[c] = connected[c] /\ listens'[c] = listens[c]
             /\ unacked'[c] = unacked[c] /\ serverCache'[c] = serverCache[c]
             /\ complete'[c] = complete[c] /\ known'[c] = known[c]
             /\ listening' = listening /\ log' = log /\ products' = products
             /\ OthersSame(c)
<1> DEFINE m == down[c][1]
           k == m.number
<1>1. /\ m \in Answer /\ m.kind = "put" /\ 1 \in DOMAIN down[c]
      /\ down' = [down EXCEPT ![c] = Tail(@)]
      /\ Removed(down[c], 1, down'[c])
  BY Arrived
<1>2. k \in Nat
  BY <1>1, AnswerCases
<1>3. /\ outstanding' = [outstanding EXCEPT ![c] = @ \ {k}]
      /\ IF unacked[c] = 0
         THEN /\ writes' = [writes EXCEPT ![c] = Without(@, {k})]
              /\ putsToAck' = putsToAck
         ELSE /\ putsToAck' = [putsToAck EXCEPT ![c] = Append(@, k)]
              /\ writes' = writes
      /\ UNCHANGED <<orderly, products, listening, takenPut, up, connected, listens,
                     unacked, serverCache, complete, log, known, left>>
  BY DEF PutAnswered
<1> HIDE DEF k
<1>4. OthersSame(c)
  BY <1>1, <1>3 DEF TypeOK, OthersSame, Same
<1>5. /\ outstanding'[c] = outstanding[c] \ {k}
      /\ putsToAck'[c] = IF unacked[c] = 0 THEN putsToAck[c] ELSE Append(putsToAck[c], k)
      /\ writes'[c] = IF unacked[c] = 0 THEN Without(writes[c], {k}) ELSE writes[c]
  BY <1>3 DEF TypeOK
<1> QED
  BY <1>1, <1>2, <1>3, <1>4, <1>5 DEF k

-----------------------------------------------------------------------------
(***************************************************************************)
(* The count of the listens                                                *)
(***************************************************************************)

(* No listen comes or goes.                                                *)
LEMMA ListensUnchanged ==
  ASSUME NEW c, ListensInv(c),
         \A node \in {"Products", "Users"} :
             /\ Sent(c, node)' = {} <=> Sent(c, node) = {}
             /\ Answered(c, node)' = {} <=> Answered(c, node) = {}
             /\ Once(up[c], node) => Once(up'[c], node)
             /\ Once(down[c], node) => Once(down'[c], node),
         connected'[c] = connected[c], listens'[c] = listens[c], unacked'[c] = unacked[c],
         c \in listening' <=> c \in listening,
         ~connected[c] => up'[c] = up[c] /\ down'[c] = down[c]
  PROVE  ListensInv(c)'
<1>1. \A node \in {"Products", "Users"} : AtMostOnce(c, node) => AtMostOnce(c, node)'
  BY DEF AtMostOnce, Once, Sent, Answered
<1>2. \A node \in {"Products", "Users"} : InFlight(c, node)' <=> InFlight(c, node)
  BY DEF InFlight
<1> QED
  BY <1>1, <1>2 DEF ListensInv

LEMMA ListensFrame ==
  ASSUME NEW d, Same(d), ListensInv(d)
  PROVE  ListensInv(d)'
<1>1. /\ connected'[d] = connected[d] /\ listens'[d] = listens[d]
      /\ unacked'[d] = unacked[d] /\ up'[d] = up[d] /\ down'[d] = down[d]
      /\ d \in listening' <=> d \in listening
  BY DEF Same
<1>2. \A node \in {"Products", "Users"} :
          /\ Sent(d, node)' = {} <=> Sent(d, node) = {}
          /\ Answered(d, node)' = {} <=> Answered(d, node) = {}
          /\ Once(up[d], node) => Once(up'[d], node)
          /\ Once(down[d], node) => Once(down'[d], node)
  BY <1>1 DEF Sent, Answered
<1> QED
  BY <1>1, <1>2, ListensUnchanged

LEMMA SetValueListens ==
  ASSUME TypeOK, NEW c \in Clients, NEW w \in AppWrites, SetValue(c, w), ListensInv(c)
  PROVE  ListensInv(c)'
<1> DEFINE q == Append(writes[c], w)
           r == PutRequest(q, Len(q))
<1>1. q[Len(q)] = w /\ Len(q) \in Nat
  BY ClientTypes, Appended
<1>2. r \in Request /\ r.kind = "put"
  BY <1>1, PutRequestType
<1>3. /\ up'[c] = IF connected[c] THEN Append(up[c], r) ELSE up[c]
      /\ down'[c] = down[c] /\ connected'[c] = connected[c]
      /\ listens'[c] = listens[c] /\ unacked'[c] = unacked[c] /\ listening' = listening
  BY SetValueAt
<1> HIDE DEF r, q
<1>4. ASSUME NEW node \in {"Products", "Users"}
      PROVE  ListensIn(up'[c], node) = ListensIn(up[c], node)
  <2>1. ~IsListen(r, node) /\ up[c] \in Seq(Request)
    BY <1>2, ClientTypes DEF IsListen
  <2>2. ListensIn(Append(up[c], r), node) = ListensIn(up[c], node)
    BY <1>2, <2>1, ListensAppended
  <2> QED
    BY <1>3, <2>2
<1>5. \A node \in {"Products", "Users"} :
          /\ Sent(c, node)' = Sent(c, node) /\ Answered(c, node)' = Answered(c, node)
          /\ Once(up[c], node) => Once(up'[c], node)
          /\ Once(down[c], node) => Once(down'[c], node)
  BY <1>3, <1>4 DEF Sent, Answered, Once
<1> QED
  BY <1>3, <1>5, ListensUnchanged

LEMMA ListenToUsersListens ==
  ASSUME TypeOK, NEW c \in Clients, ListenToUsers(c), ListensInv(c)
  PROVE  ListensInv(c)'
<1> DEFINE r == ListenRequest(c, "Users")
<1>1. r \in Request /\ r.kind = "listen" /\ r.node = "Users"
  BY ListenRequestType
<1>2. /\ "Users" \notin listens[c]
      /\ listens'[c] = listens[c] \cup {"Users"}
      /\ up'[c] = IF connected[c] THEN Append(up[c], r) ELSE up[c]
      /\ unacked'[c] = IF connected[c] THEN unacked[c] + 1 ELSE unacked[c]
      /\ down'[c] = down[c] /\ connected'[c] = connected[c] /\ listening' = listening
  BY ListenToUsersAt
<1> HIDE DEF r
<1>3. CASE connected[c]
  <2>0. /\ IsListen(r, "Users") /\ ~IsListen(r, "Products") /\ up[c] \in Seq(Request)
        /\ up'[c] = Append(up[c], r)
    BY <1>1, <1>2, <1>3, ClientTypes DEF IsListen
  <2>1. /\ ListensIn(up'[c], "Users") = ListensIn(up[c], "Users") \cup {Len(up[c]) + 1}
        /\ ListensIn(up'[c], "Products") = ListensIn(up[c], "Products")
    BY <1>1, <2>0, ListensAppended
  <2>2. ~InFlight(c, "Users")
    BY <1>2, <1>3 DEF ListensInv
  <2>3. AtMostOnce(c, "Users")' /\ InFlight(c, "Users")'
    BY <1>2, <2>1, <2>2 DEF AtMostOnce, InFlight, Sent, Answered
  <2>4. AtMostOnce(c, "Products")'
    BY <1>2, <2>1 DEF ListensInv, AtMostOnce, Sent, Answered
  <2>5. InFlight(c, "Products")' <=> InFlight(c, "Products")
    BY <1>2, <2>1 DEF InFlight, Sent, Answered
  <2>6. unacked'[c] = (IF InFlight(c, "Products")' THEN 1 ELSE 0)
                        + (IF InFlight(c, "Users")' THEN 1 ELSE 0)
    BY <1>2, <1>3, <2>2, <2>3, <2>5 DEF ListensInv
  <2>7. c \in listening' <=> Sent(c, "Products")' = {}
    BY <1>2, <1>3, <2>1 DEF ListensInv, Sent
  <2> QED
    BY <1>2, <1>3, <2>3, <2>4, <2>6, <2>7 DEF ListensInv
<1>4. CASE ~connected[c]
  <2>1. /\ \A node : Sent(c, node)' = Sent(c, node) /\ Answered(c, node)' = Answered(c, node)
        /\ \A node : AtMostOnce(c, node)' <=> AtMostOnce(c, node)
        /\ \A node : InFlight(c, node)' <=> InFlight(c, node)
    BY <1>2, <1>4 DEF Sent, Answered, AtMostOnce, InFlight
  <2> QED
    BY <1>2, <1>4, <2>1 DEF ListensInv
<1> QED
  BY <1>3, <1>4

(* The listens are sent again, each once, before the puts.                 *)
LEMMA AgainListens ==
  ASSUME TypeOK, NEW c \in Clients, PutsInv(c), NEW node \in {"Products", "Users"}
  PROVE  LET s == Again(c) \o PutsAgain(c)
         IN  /\ node \in listens[c] => ListensIn(s, node) # {}
             /\ node \notin listens[c] => ListensIn(s, node) = {}
             /\ Once(s, node)
             /\ \A n \in ListensIn(s, node) : s[n].hash = serverCache[c]
<1> DEFINE l == SetToSeq(listens[c])
           p == RestoredPuts(c)
           a == Again(c)
           b == PutsAgain(c)
           s == a \o b
<1>1. /\ l \in Seq(listens[c]) /\ listens[c] \subseteq {"Products", "Users"}
      /\ \A x \in listens[c] : \E n \in DOMAIN l : l[n] = x
      /\ \A m, n \in DOMAIN l : l[m] = l[n] => m = n
  <2>1. listens[c] = {"Products"} \/ listens[c] = {"Products", "Users"}
    BY ClientTypes
  <2>2. /\ l \in Seq(listens[c])
        /\ \A x \in listens[c] : \E n \in DOMAIN l : l[n] = x
        /\ \A m, n \in DOMAIN l : l[m] = l[n] => m = n
    BY <2>1, ListensSeq
  <2> QED
    BY <2>1, <2>2
<1>2. p \in Seq(outstanding[c])
  BY Restored
<1>3. a \in Seq(Request) /\ b \in Seq(Request) /\ Len(a) = Len(l)
  BY AgainType
<1>4. a = [n \in DOMAIN l |-> ListenRequest(c, l[n])]
  BY DEF Again
<1>5. b = [n \in DOMAIN p |-> PutRequest(writes[c], p[n])]
  BY DEF PutsAgain
<1> HIDE DEF l, p, a, b
<1>6. ASSUME NEW n \in DOMAIN a
      PROVE  a[n].kind = "listen" /\ a[n].node = l[n] /\ a[n].hash = serverCache[c]
  <2>1. n \in DOMAIN l /\ l[n] \in {"Products", "Users"}
    BY <1>1, <1>4, Element
  <2> QED
    BY <1>4, <2>1, ListenRequestType
<1>7. \A n \in DOMAIN b : b[n].kind = "put"
  BY <1>5 DEF PutRequest
<1>8. /\ s \in Seq(Request) /\ Len(s) = Len(a) + Len(b)
      /\ \A n \in 1..Len(a) + Len(b) : s[n] = IF n <= Len(a) THEN a[n] ELSE b[n - Len(a)]
  BY <1>3, ConcatProperties
<1>9. /\ DOMAIN s = 1..Len(a) + Len(b) /\ Len(a) \in Nat /\ Len(b) \in Nat
      /\ DOMAIN a = 1..Len(a) /\ DOMAIN b = 1..Len(b) /\ DOMAIN l = 1..Len(a)
  BY <1>1, <1>3, <1>8
<1> HIDE DEF s
<1>10. ASSUME NEW n \in DOMAIN s
       PROVE  IF n <= Len(a) THEN s[n] = a[n] /\ n \in DOMAIN a
              ELSE s[n].kind = "put"
  <2>1. CASE n <= Len(a)
    BY <1>8, <1>9, <2>1
  <2>2. CASE ~(n <= Len(a))
    <3>1. n - Len(a) \in DOMAIN b
      BY <1>9, <2>2
    <3> QED
      BY <1>7, <1>8, <1>9, <2>2, <3>1
  <2> QED
    BY <2>1, <2>2
<1>11. ASSUME NEW n
       PROVE  n \in ListensIn(s, node) <=> n \in DOMAIN a /\ l[n] = node
  <2>1. n \in DOMAIN a => n \in DOMAIN s /\ n <= Len(a)
    BY <1>9
  <2> QED
    BY <1>6, <1>10, <2>1 DEF ListensIn, IsListen
<1>12. \A n \in ListensIn(s, node) : s[n].hash = serverCache[c]
  <2> SUFFICES ASSUME NEW n \in ListensIn(s, node)
               PROVE  s[n].hash = serverCache[c]
    OBVIOUS
  <2>1. n \in DOMAIN a /\ n \in DOMAIN s /\ n <= Len(a)
    BY <1>9, <1>11
  <2> QED
    BY <1>6, <1>10, <2>1
<1>13. DOMAIN a = DOMAIN l
  BY <1>4
<1>14. node \in listens[c] => ListensIn(s, node) # {}
  BY <1>1, <1>11, <1>13
<1>15. node \notin listens[c] => ListensIn(s, node) = {}
  BY <1>1, <1>11, <1>13, Element
<1>16. Once(s, node)
  BY <1>1, <1>11, <1>13 DEF Once
<1> QED
  BY <1>12, <1>14, <1>15, <1>16 DEF s, a, b

LEMMA EmptyListens ==
  ASSUME NEW node
  PROVE  ListensIn(<<>>, node) = {} /\ Once(<<>>, node)
  BY DEF ListensIn, Once

LEMMA ConnectListens ==
  ASSUME TypeOK, NEW c \in Clients, Connect(c), ListensInv(c), PutsInv(c)
  PROVE  ListensInv(c)'
<1> DEFINE s == Again(c) \o PutsAgain(c)
<1>1. /\ ~connected[c] /\ connected'[c] = TRUE
      /\ unacked'[c] = unacked[c] + (IF "Users" \in listens[c] THEN 2 ELSE 1)
      /\ up'[c] = s /\ down'[c] = down[c] /\ listens'[c] = listens[c] /\ listening' = listening
  BY ConnectAt
<1>2. up[c] = <<>> /\ down[c] = <<>> /\ c \notin listening
  BY <1>1 DEF ListensInv
<1>3. "Products" \in listens[c]
  BY ClientTypes
<1>4. /\ ListensIn(s, "Products") # {} /\ Once(s, "Products") /\ Once(s, "Users")
      /\ "Users" \in listens[c] <=> ListensIn(s, "Users") # {}
  BY <1>3, AgainListens
<1> HIDE DEF s
<1>5. unacked[c] = 0
  BY <1>2, EmptyListens DEF ListensInv, InFlight, Sent, Answered
<1>6. /\ \A node : Answered(c, node)' = {} /\ Sent(c, node)' = ListensIn(s, node)
      /\ \A node : InFlight(c, node)' <=> ListensIn(s, node) # {}
  BY <1>1, <1>2, EmptyListens DEF Answered, Sent, InFlight
<1>7. AtMostOnce(c, "Products")' /\ AtMostOnce(c, "Users")'
  BY <1>4, <1>6 DEF AtMostOnce, Once
<1> QED
  BY <1>1, <1>2, <1>4, <1>5, <1>6, <1>7 DEF ListensInv

LEMMA DisconnectListens ==
  ASSUME TypeOK, NEW c \in Clients, Disconnect(c)
  PROVE  ListensInv(c)'
<1>1. /\ connected'[c] = FALSE /\ unacked'[c] = 0 /\ up'[c] = <<>> /\ down'[c] = <<>>
      /\ c \notin listening'
  BY DisconnectAt
<1>2. /\ \A node : Answered(c, node)' = {} /\ Sent(c, node)' = {}
      /\ \A node : ~InFlight(c, node)' /\ AtMostOnce(c, node)'
  BY <1>1, EmptyListens DEF Answered, Sent, InFlight, AtMostOnce
<1> QED
  BY <1>1, <1>2 DEF ListensInv

LEMMA OtherRemoved ==
  ASSUME NEW s, NEW n, NEW r, Removed(s, n, r), NEW node, ~IsListen(s[n], node)
  PROVE  /\ ListensIn(r, node) = {} <=> ListensIn(s, node) = {}
         /\ Once(s, node) => Once(r, node)
<1>1. n \notin ListensIn(s, node)
  BY DEF ListensIn
<1> QED
  BY <1>1, ListensRemoved

LEMMA ListenRemoved ==
  ASSUME NEW s, NEW n, NEW r, Removed(s, n, r), NEW node, IsListen(s[n], node), Once(s, node)
  PROVE  ListensIn(r, node) = {} /\ Once(r, node) /\ ListensIn(s, node) = {n}
<1>1. n \in ListensIn(s, node)
  BY DEF ListensIn, Removed
<1>2. ListensIn(s, node) = {n}
  BY <1>1 DEF Once
<1> QED
  BY <1>2, ListensRemoved

(* What the server sends when it takes a listen.                           *)
LEMMA AnswersSent ==
  ASSUME TypeOK, NEW c \in Clients, NEW n \in DOMAIN up[c], ListenTaken(c, n)
  PROVE  LET r == up[c][n]
             s == down'[c]
         IN  /\ Answers(s, down[c], Data, ListenAnswer(r), r.node)
             /\ s \in Seq(Answer) /\ Len(s) \in Nat
             /\ r.node # "Users" /\ r.hash # products =>
                    Len(s) - 1 \in DOMAIN s \ DOMAIN down[c] /\ s[Len(s) - 1] = Data
<1> DEFINE r == up[c][n]
<1>1. /\ r \in Request /\ r.kind = "listen"
      /\ down'[c] = IF r.node = "Users" \/ r.hash = products
                    THEN Append(down[c], ListenAnswer(r))
                    ELSE Append(Append(down[c], Data), ListenAnswer(r))
  BY ListenTakenAt
<1>2. /\ Data \in Answer /\ ListenAnswer(r) \in Answer
      /\ Data.kind = "data" /\ ListenAnswer(r).kind = "listen" /\ ListenAnswer(r).node = r.node
  BY <1>1, ListenAnswerType
<1>3. down[c] \in Seq(Answer)
  BY ClientTypes
<1> DEFINE a == ListenAnswer(r)
           d == Data
           t == down[c]
           s == down'[c]
<1> HIDE DEF a, d, t, s
<1>4. CASE r.node = "Users" \/ r.hash = products
  <2>1. s = Append(t, a)
    BY <1>1, <1>4 DEF a, d, t, s
  <2>2. t \in Seq(Answer) /\ a \in Answer /\ a.kind = "listen" /\ a.node = r.node
    BY <1>2, <1>3 DEF a, t
  <2>3. s \in Seq(Answer) /\ Answers(s, t, d, a, r.node)
    BY <2>1, <2>2, AnswerAppended
  <2>4. Len(s) \in Nat
    BY <2>3
  <2> QED
    BY <1>4, <2>3, <2>4 DEF a, d, t, s
<1>5. CASE ~(r.node = "Users" \/ r.hash = products)
  <2>1. s = Append(Append(t, d), a)
    BY <1>1, <1>5 DEF a, d, t, s
  <2>2. /\ t \in Seq(Answer) /\ d \in Answer /\ a \in Answer /\ d.kind = "data"
        /\ a.kind = "listen" /\ a.node = r.node
    BY <1>2, <1>3 DEF a, d, t
  <2>3. /\ s \in Seq(Answer) /\ Answers(s, t, d, a, r.node)
        /\ Len(s) - 1 \in DOMAIN s \ DOMAIN t /\ s[Len(s) - 1] = d
    BY <2>1, <2>2, DataAppended
  <2>4. Len(s) \in Nat
    BY <2>3
  <2> QED
    BY <1>5, <2>3, <2>4 DEF a, d, t, s
<1> QED
  BY <1>4, <1>5

LEMMA ListenTakenListens ==
  ASSUME TypeOK, NEW c \in Clients, NEW n \in DOMAIN up[c], ListenTaken(c, n), ListensInv(c)
  PROVE  ListensInv(c)'
<1> DEFINE r == up[c][n]
<1>1. /\ r \in Request /\ r.kind = "listen" /\ r.node \in {"Products", "Users"}
      /\ Removed(up[c], n, up'[c])
      /\ down'[c] = IF r.node = "Users" \/ r.hash = products
                    THEN Append(down[c], ListenAnswer(r))
                    ELSE Append(Append(down[c], Data), ListenAnswer(r))
      /\ c \in listening' <=> r.node = "Products" \/ c \in listening
      /\ connected'[c] = connected[c] /\ listens'[c] = listens[c] /\ unacked'[c] = unacked[c]
  BY ListenTakenAt
<1>2. /\ ListensIn(down'[c], r.node) = ListensIn(down[c], r.node) \cup {Len(down'[c])}
      /\ \A node : node # r.node => ListensIn(down'[c], node) = ListensIn(down[c], node)
  BY AnswersSent DEF Answers
<1>3. \A node : IsListen(r, node) <=> node = r.node
  BY <1>1 DEF IsListen
<1>4. connected[c]
  BY DEF ListensInv
<1>5. AtMostOnce(c, "Products") /\ AtMostOnce(c, "Users")
  BY DEF ListensInv
<1>6. Once(up[c], r.node) /\ r.node \in {"Products", "Users"}
  BY <1>1, <1>5 DEF AtMostOnce, Once, Sent
<1>7. /\ ListensIn(up'[c], r.node) = {} /\ Once(up'[c], r.node)
      /\ ListensIn(up[c], r.node) = {n}
  BY <1>1, <1>3, <1>6, ListenRemoved
<1>8. ListensIn(down[c], r.node) = {}
  BY <1>1, <1>5, <1>7 DEF AtMostOnce, Sent, Answered
<1>9. \A node : node # r.node =>
          /\ ListensIn(up'[c], node) = {} <=> ListensIn(up[c], node) = {}
          /\ Once(up[c], node) => Once(up'[c], node)
  BY <1>1, <1>3, OtherRemoved
<1> HIDE DEF r
<1>10. ASSUME NEW node \in {"Products", "Users"}
       PROVE  /\ AtMostOnce(c, node)'
              /\ InFlight(c, node)' <=> InFlight(c, node)
  <2>1. AtMostOnce(c, node)
    BY <1>5
  <2>2. CASE node = r.node
    BY <1>2, <1>7, <1>8, <2>2 DEF AtMostOnce, InFlight, Sent, Answered, Once
  <2>3. CASE node # r.node
    BY <1>2, <1>9, <2>1, <2>3 DEF AtMostOnce, InFlight, Sent, Answered, Once
  <2> QED
    BY <2>2, <2>3
<1>11. c \in listening' <=> Sent(c, "Products")' = {}
  <2>1. CASE r.node = "Products"
    BY <1>1, <1>7, <2>1 DEF Sent
  <2>2. CASE r.node # "Products"
    BY <1>1, <1>4, <1>9, <2>2 DEF Sent, ListensInv
  <2> QED
    BY <2>1, <2>2
<1> QED
  BY <1>1, <1>4, <1>10, <1>11 DEF ListensInv

LEMMA PutTakenListens ==
  ASSUME TypeOK, NEW c \in Clients, NEW n \in DOMAIN up[c], PutTaken(c, n),
         NEW d \in Clients, ListensInv(d), ListensInv(c)
  PROVE  ListensInv(d)'
<1> DEFINE r == up[c][n]
           u == Update(c, r)
           a == PutAnswer(r)
           told == IF d \in listening THEN Append(down[d], u) ELSE down[d]
<1>1. /\ r \in Request /\ r.kind = "put"
      /\ Removed(up[c], n, up'[c])
      /\ d # c => up'[d] = up[d]
      /\ down'[d] = IF d = c THEN Append(told, a) ELSE told
      /\ UNCHANGED <<listening, connected, listens, unacked>>
  BY PutTakenAt
<1>2. /\ u \in Answer /\ a \in Answer /\ u.kind = "update" /\ a.kind = "put"
      /\ down[d] \in Seq(Answer)
  BY <1>1, UpdateType, ClientTypes
<1> HIDE DEF r, u, a
<1>3. \A node : ~IsListen(u, node) /\ ~IsListen(a, node)
  BY <1>2 DEF IsListen
<1>4. told \in Seq(Answer) /\ \A node : ListensIn(told, node) = ListensIn(down[d], node)
  BY <1>2, <1>3, Appended, ListensAppended
<1> HIDE DEF told
<1>5. \A node : ListensIn(down'[d], node) = ListensIn(down[d], node)
  <2>1. \A node : ListensIn(Append(told, a), node) = ListensIn(told, node)
    BY <1>2, <1>3, <1>4, ListensAppended
  <2> QED
    BY <1>1, <1>4, <2>1
<1>6. ASSUME NEW node
      PROVE  /\ ListensIn(up'[d], node) = {} <=> ListensIn(up[d], node) = {}
             /\ Once(up[d], node) => Once(up'[d], node)
  <2>1. CASE d = c
    <3>1. ~IsListen(up[c][n], node)
      BY <1>1 DEF IsListen, r
    <3> QED
      BY <1>1, <2>1, <3>1, OtherRemoved
  <2>2. CASE d # c
    BY <1>1, <2>2
  <2> QED
    BY <2>1, <2>2
<1>7. connected[c]
  BY DEF ListensInv
<1>8. ~connected[d] => up'[d] = up[d] /\ down'[d] = down[d]
  BY <1>1, <1>7 DEF ListensInv, told
<1>9. \A node \in {"Products", "Users"} :
          /\ Sent(d, node)' = {} <=> Sent(d, node) = {}
          /\ Answered(d, node)' = {} <=> Answered(d, node) = {}
          /\ Once(up[d], node) => Once(up'[d], node)
          /\ Once(down[d], node) => Once(down'[d], node)
  BY <1>5, <1>6 DEF Sent, Answered, Once
<1> QED
  BY <1>1, <1>8, <1>9, ListensUnchanged

(* A message that is no answer to a listen arrives.                        *)
LEMMA ArrivedListens ==
  ASSUME TypeOK, NEW c \in Clients, ListensInv(c), 1 \in DOMAIN down[c],
         Removed(down[c], 1, down'[c]), down[c][1].kind # "listen",
         up'[c] = up[c], connected'[c] = connected[c], listens'[c] = listens[c],
         unacked'[c] = unacked[c], listening' = listening
  PROVE  ListensInv(c)'
<1>1. connected[c]
  BY DEF ListensInv
<1>2. ASSUME NEW node
      PROVE  /\ ListensIn(down'[c], node) = {} <=> ListensIn(down[c], node) = {}
             /\ Once(down[c], node) => Once(down'[c], node)
  <2>1. ~IsListen(down[c][1], node)
    BY DEF IsListen
  <2> QED
    BY <2>1, OtherRemoved
<1>3. \A node \in {"Products", "Users"} :
          /\ Sent(c, node)' = {} <=> Sent(c, node) = {}
          /\ Answered(c, node)' = {} <=> Answered(c, node) = {}
          /\ Once(up[c], node) => Once(up'[c], node)
          /\ Once(down[c], node) => Once(down'[c], node)
  BY <1>2 DEF Sent, Answered
<1> QED
  BY <1>1, <1>3, ListensUnchanged

LEMMA ListenAnsweredListens ==
  ASSUME TypeOK, NEW c \in Clients, Arrives(c, "listen"), ListenAnswered(c), ListensInv(c)
  PROVE  ListensInv(c)'
<1> DEFINE m == down[c][1]
<1>1. /\ m.kind = "listen" /\ m.node \in {"Products", "Users"} /\ 1 \in DOMAIN down[c]
      /\ Removed(down[c], 1, down'[c])
      /\ unacked'[c] = unacked[c] - 1
      /\ listens'[c] = IF m.node = "Users" THEN listens[c] \ {"Users"} ELSE listens[c]
      /\ up'[c] = up[c] /\ connected'[c] = connected[c] /\ listening' = listening
  BY ListenAnsweredAt
<1>2. connected[c]
  BY <1>1 DEF ListensInv
<1>3. \A node : IsListen(m, node) <=> node = m.node
  BY <1>1 DEF IsListen
<1>4. AtMostOnce(c, "Products") /\ AtMostOnce(c, "Users")
  BY DEF ListensInv
<1>5. Once(down[c], m.node)
  BY <1>1, <1>4 DEF AtMostOnce, Once, Answered
<1>6. /\ ListensIn(down'[c], m.node) = {} /\ Once(down'[c], m.node)
      /\ ListensIn(down[c], m.node) = {1}
  BY <1>1, <1>3, <1>5, ListenRemoved
<1>7. ListensIn(up[c], m.node) = {}
  BY <1>1, <1>4, <1>6 DEF AtMostOnce, Sent, Answered
<1>8. \A node : node # m.node =>
          /\ ListensIn(down'[c], node) = {} <=> ListensIn(down[c], node) = {}
          /\ Once(down[c], node) => Once(down'[c], node)
  BY <1>1, <1>3, OtherRemoved
<1> HIDE DEF m
<1>9. /\ \A node : node = m.node => InFlight(c, node) /\ ~(InFlight(c, node)')
      /\ \A node : node # m.node => (InFlight(c, node)' <=> InFlight(c, node))
  <2>1. \A node : /\ InFlight(c, node) <=> ListensIn(up[c], node) # {} \/ ListensIn(down[c], node) # {}
                  /\ InFlight(c, node)' <=> ListensIn(up'[c], node) # {} \/ ListensIn(down'[c], node) # {}
    BY DEF InFlight, Sent, Answered
  <2> QED
    BY <1>1, <1>6, <1>7, <1>8, <2>1
<1>10. ASSUME NEW node \in {"Products", "Users"}
       PROVE  AtMostOnce(c, node)'
  <2>1. AtMostOnce(c, node)
    BY <1>4
  <2>2. CASE node = m.node
    BY <1>1, <1>6, <1>7, <2>2 DEF AtMostOnce, Sent, Answered, Once
  <2>3. CASE node # m.node
    BY <1>1, <1>8, <2>1, <2>3 DEF AtMostOnce, Sent, Answered, Once
  <2> QED
    BY <2>2, <2>3
<1>11. unacked'[c] = (IF InFlight(c, "Products")' THEN 1 ELSE 0)
                       + (IF InFlight(c, "Users")' THEN 1 ELSE 0)
  <2>1. unacked[c] = (IF InFlight(c, "Products") THEN 1 ELSE 0)
                       + (IF InFlight(c, "Users") THEN 1 ELSE 0)
    BY DEF ListensInv
  <2>2. CASE m.node = "Products"
    BY <1>1, <1>9, <2>1, <2>2
  <2>3. CASE m.node = "Users"
    BY <1>1, <1>9, <2>1, <2>3
  <2> QED
    BY <1>1, <2>2, <2>3
<1>12. "Users" \in listens'[c] <=> InFlight(c, "Users")'
  <2>1. "Users" \in listens[c] <=> InFlight(c, "Users")
    BY <1>2 DEF ListensInv
  <2> QED
    BY <1>1, <1>9, <2>1
<1>13. c \in listening' <=> Sent(c, "Products")' = {}
  BY <1>1, <1>2 DEF ListensInv, Sent
<1> QED
  BY <1>1, <1>2, <1>10, <1>11, <1>12, <1>13 DEF ListensInv

-----------------------------------------------------------------------------
(***************************************************************************)
(* The puts, in their order                                                *)
(***************************************************************************)
LEMMA LogType ==
  ASSUME TypeOK, NEW c \in Clients, NEW k \in Nat, log' = Append(log, <<c, k>>)
  PROVE  /\ DOMAIN log' = DOMAIN log \cup {Len(log) + 1} /\ log'[Len(log) + 1] = <<c, k>>
         /\ \A n \in DOMAIN log : n \in Nat /\ n < Len(log) + 1 /\ log'[n] = log[n]
         /\ \A n \in DOMAIN log : log[n][2] \in Nat
         /\ Len(log) \in Nat
<1>1. log \in Seq(Clients \X Nat) /\ <<c, k>> \in Clients \X Nat
  BY DEF TypeOK
<1>2. \A n \in DOMAIN log : log[n][2] \in Nat
  BY <1>1, Element
<1> QED
  BY <1>1, <1>2, Appended

LEMMA TakenOther ==
  ASSUME TypeOK, NEW c \in Clients, NEW d \in Clients, c # d, NEW k \in Nat,
         log' = Append(log, <<c, k>>), NEW j, TakenTo(d, j)
  PROVE  TakenTo(d, j)'
<1>1. PICK n \in DOMAIN log : /\ log[n][1] = d /\ log[n][2] >= j
                              /\ \A m \in DOMAIN log : log[m][1] = d => m <= n
  BY DEF TakenTo
<1>2. /\ DOMAIN log' = DOMAIN log \cup {Len(log) + 1} /\ log'[Len(log) + 1] = <<c, k>>
      /\ \A m \in DOMAIN log : log'[m] = log[m]
  BY LogType
<1>3. n \in DOMAIN log' /\ log'[n][1] = d /\ log'[n][2] >= j
  BY <1>1, <1>2
<1>4. \A m \in DOMAIN log' : log'[m][1] = d => m <= n
  BY <1>1, <1>2
<1> QED
  BY <1>3, <1>4 DEF TakenTo

LEMMA TakenNext ==
  ASSUME TypeOK, NEW c \in Clients, NEW k \in Nat, log' = Append(log, <<c, k>>),
         NEW j \in Nat, j <= k
  PROVE  TakenTo(c, j)'
<1>1. /\ DOMAIN log' = DOMAIN log \cup {Len(log) + 1} /\ log'[Len(log) + 1] = <<c, k>>
      /\ \A n \in DOMAIN log : n \in Nat /\ n < Len(log) + 1
      /\ Len(log) \in Nat
  BY LogType
<1>2. \A m \in DOMAIN log' : m <= Len(log) + 1
  BY <1>1
<1>3. Len(log) + 1 \in DOMAIN log' /\ log'[Len(log) + 1][1] = c /\ log'[Len(log) + 1][2] >= j
  BY <1>1
<1> QED
  BY <1>2, <1>3 DEF TakenTo

(* What a channel up carries are the writes.                               *)
Carries(s, q) == \A n \in DOMAIN s : s[n].kind = "put" => s[n].write = q[s[n].number]

(* No put comes or goes.                                                   *)
LEMMA PutsUnchanged ==
  ASSUME NEW c, PutsInv(c),
         outstanding'[c] = outstanding[c], putsToAck'[c] = putsToAck[c],
         writes'[c] = writes[c],
         Puts(up'[c]) = Puts(up[c]), Puts(down'[c]) = Puts(down[c]),
         Carries(up'[c], writes[c]),
         Ascending(up'[c]), Ascending(down'[c]),
         connected'[c] = connected[c],
         connected[c] /\ putsToAck[c] # <<>> /\ unacked[c] > 0 => unacked'[c] > 0,
         \A n \in DOMAIN log' : log'[n][1] = c => log'[n][2] \in DOMAIN writes[c],
         \A k : TakenTo(c, k) => TakenTo(c, k)'
  PROVE  PutsInv(c)'
<1>1. Held(c)' = Held(c)
  BY DEF Held
<1> QED
  BY <1>1 DEF PutsInv, Carries

LEMMA PutsFrame ==
  ASSUME NEW d, Same(d), log' = log, PutsInv(d)
  PROVE  PutsInv(d)'
<1>1. /\ outstanding'[d] = outstanding[d] /\ putsToAck'[d] = putsToAck[d]
      /\ writes'[d] = writes[d] /\ connected'[d] = connected[d]
      /\ unacked'[d] = unacked[d] /\ up'[d] = up[d] /\ down'[d] = down[d]
  BY DEF Same
<1>2. Carries(up[d], writes[d]) /\ Ascending(up[d]) /\ Ascending(down[d])
  BY DEF PutsInv, Carries
<1>3. \A k : TakenTo(d, k) => TakenTo(d, k)'
  BY DEF TakenTo
<1>4. \A n \in DOMAIN log' : log'[n][1] = d => log'[n][2] \in DOMAIN writes[d]
  BY DEF PutsInv
<1> QED
  BY <1>1, <1>2, <1>3, <1>4, PutsUnchanged

LEMMA SetValuePuts ==
  ASSUME TypeOK, NEW c \in Clients, NEW w \in AppWrites, SetValue(c, w),
         PutsInv(c), ListensInv(c)
  PROVE  PutsInv(c)'
<1> DEFINE q == Append(writes[c], w)
           L == Len(q)
           r == PutRequest(q, L)
<1>1. /\ q \in Seq(AppWrites \cup {Null}) /\ L \in Nat /\ q[L] = w
      /\ DOMAIN q = DOMAIN writes[c] \cup {L}
      /\ \A n \in DOMAIN writes[c] : n \in Nat /\ n < L /\ q[n] = writes[c][n]
  BY ClientTypes, Appended
<1>2. r \in Request /\ r.kind = "put" /\ r.number = L /\ r.write = w
  <2> HIDE DEF q, L
  <2> QED
    BY <1>1, PutRequestType
<1>3. /\ writes'[c] = q /\ outstanding'[c] = outstanding[c] \cup {L}
      /\ up'[c] = IF connected[c] THEN Append(up[c], r) ELSE up[c]
      /\ down'[c] = down[c] /\ connected'[c] = connected[c] /\ unacked'[c] = unacked[c]
      /\ putsToAck'[c] = putsToAck[c] /\ log' = log
  BY SetValueAt
<1>4. /\ up[c] \in Seq(Request)
      /\ outstanding[c] \subseteq DOMAIN writes[c] /\ Held(c) \subseteq DOMAIN writes[c]
  BY ClientTypes
<1> HIDE DEF r, L, q
<1>5. L \notin DOMAIN writes[c]
  BY <1>1
<1>6. Held(c)' = Held(c) /\ \A k : TakenTo(c, k)' <=> TakenTo(c, k)
  BY <1>3 DEF Held, TakenTo
<1>7. Puts(up[c]) \subseteq outstanding[c] /\ Puts(down[c]) \subseteq outstanding[c]
  BY DEF PutsInv
<1>8. \A k \in Puts(up[c]) \cup Puts(down[c]) : k < L
  BY <1>1, <1>4, <1>7
<1>9. /\ Puts(up'[c]) = Puts(up[c]) \cup (IF connected[c] THEN {L} ELSE {})
      /\ Ascending(up'[c])
  <2>1. Ascending(up[c])
    BY DEF PutsInv
  <2>2. CASE connected[c]
    <3>1. up'[c] = Append(up[c], r)
      BY <1>3, <2>2
    <3>2. Puts(up'[c]) = Puts(up[c]) \cup {L}
      BY <1>2, <1>4, <3>1, PutsAppended
    <3>3. Ascending(up'[c])
      BY <1>2, <1>4, <1>8, <2>1, <3>1, AscendingAppended
    <3> QED
      BY <2>2, <3>2, <3>3
  <2>3. CASE ~connected[c]
    BY <1>3, <2>1, <2>3
  <2> QED
    BY <2>2, <2>3
<1>10. Carries(up'[c], q)
  <2>1. Carries(up[c], writes[c])
    BY DEF PutsInv, Carries
  <2>2. \A n \in DOMAIN up[c] : up[c][n].kind = "put" => up[c][n].number \in DOMAIN writes[c]
    BY <1>4, <1>7 DEF Puts
  <2>3. Carries(up[c], q)
    BY <1>1, <2>1, <2>2 DEF Carries
  <2>4. CASE connected[c]
    <3>1. /\ DOMAIN up'[c] = DOMAIN up[c] \cup {Len(up[c]) + 1} /\ up'[c][Len(up[c]) + 1] = r
          /\ \A n \in DOMAIN up[c] : up'[c][n] = up[c][n]
      BY <1>2, <1>3, <1>4, <2>4, Appended
    <3> QED
      BY <1>1, <1>2, <2>3, <3>1 DEF Carries
  <2>5. CASE ~connected[c]
    BY <1>3, <2>3, <2>5
  <2> QED
    BY <2>4, <2>5
<1>11. /\ outstanding'[c] \cap Held(c)' = {}
       /\ \A k \in DOMAIN writes'[c] : writes'[c][k] # Null <=> k \in outstanding'[c] \cup Held(c)'
  <2>1. outstanding[c] \cap Held(c) = {}
    BY DEF PutsInv
  <2>2. \A k \in DOMAIN writes[c] : writes[c][k] # Null <=> k \in outstanding[c] \cup Held(c)
    BY DEF PutsInv
  <2>3. w # Null
    BY WriteType
  <2> QED
    BY <1>1, <1>3, <1>4, <1>5, <1>6, <2>1, <2>2, <2>3
<1>12. \A j \in outstanding'[c], k \in DOMAIN writes'[c] : j <= k => k \in outstanding'[c]
  BY <1>1, <1>3, <1>4 DEF PutsInv
<1>13. /\ Puts(up'[c]) \cup Puts(down'[c]) \subseteq outstanding'[c]
       /\ connected'[c] => outstanding'[c] \subseteq Puts(up'[c]) \cup Puts(down'[c])
  BY <1>3, <1>9 DEF PutsInv
<1>14. \A j \in Puts(down'[c]), k \in Puts(up'[c]) : j < k
  <2>1. \A j \in Puts(down[c]), k \in Puts(up[c]) : j < k
    BY DEF PutsInv
  <2> QED
    BY <1>3, <1>8, <1>9, <2>1
<1>15. Ascending(down'[c])
  BY <1>3 DEF PutsInv
<1>16. connected'[c] /\ putsToAck'[c] # <<>> => unacked'[c] > 0
  BY <1>3 DEF PutsInv
<1>17. \A n \in DOMAIN log' : log'[n][1] = c => log'[n][2] \in DOMAIN writes'[c]
  BY <1>1, <1>3 DEF PutsInv
<1>18. /\ \A k \in DOMAIN writes'[c] : k \notin outstanding'[c] => TakenTo(c, k)'
       /\ \A k \in Puts(down'[c]) : TakenTo(c, k)'
  BY <1>1, <1>3, <1>6 DEF PutsInv
<1> QED
  BY <1>3, <1>9, <1>10, <1>11, <1>12, <1>13, <1>14, <1>15, <1>16, <1>17, <1>18
     DEF PutsInv, Carries

LEMMA ListenToUsersPuts ==
  ASSUME TypeOK, NEW c \in Clients, ListenToUsers(c), PutsInv(c)
  PROVE  PutsInv(c)'
<1> DEFINE r == ListenRequest(c, "Users")
<1>1. r \in Request /\ r.kind = "listen"
  BY ListenRequestType
<1>2. /\ up'[c] = IF connected[c] THEN Append(up[c], r) ELSE up[c]
      /\ unacked'[c] = IF connected[c] THEN unacked[c] + 1 ELSE unacked[c]
      /\ down'[c] = down[c] /\ connected'[c] = connected[c]
      /\ outstanding'[c] = outstanding[c] /\ putsToAck'[c] = putsToAck[c]
      /\ writes'[c] = writes[c] /\ log' = log
  BY ListenToUsersAt
<1>3. up[c] \in Seq(Request) /\ unacked[c] \in Nat
  BY ClientTypes
<1> HIDE DEF r
<1>4. Carries(up[c], writes[c]) /\ Ascending(up[c]) /\ Ascending(down[c])
  BY DEF PutsInv, Carries
<1>5. Puts(up'[c]) = Puts(up[c]) /\ Ascending(up'[c]) /\ Carries(up'[c], writes[c])
  <2>1. CASE connected[c]
    <3>1. up'[c] = Append(up[c], r)
      BY <1>2, <2>1
    <3>2. Puts(up'[c]) = Puts(up[c]) /\ Ascending(up'[c])
      BY <1>1, <1>3, <1>4, <3>1, NoPutAppended
    <3>3. /\ DOMAIN up'[c] = DOMAIN up[c] \cup {Len(up[c]) + 1} /\ up'[c][Len(up[c]) + 1] = r
          /\ \A n \in DOMAIN up[c] : up'[c][n] = up[c][n]
      BY <1>1, <1>3, <3>1, Appended
    <3>4. Carries(up'[c], writes[c])
      BY <1>1, <1>4, <3>3 DEF Carries
    <3> QED
      BY <3>2, <3>4
  <2>2. CASE ~connected[c]
    BY <1>2, <1>4, <2>2
  <2> QED
    BY <2>1, <2>2
<1>6. \A k : TakenTo(c, k) => TakenTo(c, k)'
  BY <1>2 DEF TakenTo
<1>7. \A n \in DOMAIN log' : log'[n][1] = c => log'[n][2] \in DOMAIN writes[c]
  BY <1>2 DEF PutsInv
<1>8. connected[c] /\ putsToAck[c] # <<>> /\ unacked[c] > 0 => unacked'[c] > 0
  BY <1>2, <1>3
<1> QED
  BY <1>2, <1>4, <1>5, <1>6, <1>7, <1>8, PutsUnchanged

(* All outstanding puts are sent again, in their order.                    *)
LEMMA AgainPuts ==
  ASSUME TypeOK, NEW c \in Clients, PutsInv(c)
  PROVE  LET s == Again(c) \o PutsAgain(c)
         IN  Puts(s) = outstanding[c] /\ Ascending(s) /\ Carries(s, writes[c])
<1> DEFINE p == RestoredPuts(c)
           a == Again(c)
           b == PutsAgain(c)
           s == a \o b
<1>1. /\ p \in Seq(outstanding[c])
      /\ \A m, n \in DOMAIN p : m < n => p[m] < p[n]
      /\ \A k \in outstanding[c] : \E n \in DOMAIN p : p[n] = k
  BY Restored
<1>2. a \in Seq(Request) /\ b \in Seq(Request)
  BY AgainType
<1>3. a = [n \in DOMAIN SetToSeq(listens[c]) |-> ListenRequest(c, SetToSeq(listens[c])[n])]
  BY DEF Again
<1>4. b = [n \in DOMAIN p |-> PutRequest(writes[c], p[n])]
  BY DEF PutsAgain
<1> HIDE DEF p, a, b
<1>5. \A n \in DOMAIN a : a[n].kind = "listen"
  BY <1>3 DEF ListenRequest
<1>6. ASSUME NEW n \in DOMAIN b
      PROVE  /\ n \in DOMAIN p /\ p[n] \in outstanding[c] /\ b[n].kind = "put"
             /\ b[n].number = p[n] /\ b[n].write = writes[c][p[n]]
  <2>1. n \in DOMAIN p /\ p[n] \in outstanding[c]
    BY <1>1, <1>4, Element
  <2>2. p[n] \in Nat /\ writes[c][p[n]] \in AppWrites
    BY <2>1, OutstandingWrites
  <2> QED
    BY <1>4, <2>1, <2>2, PutRequestType
<1>7. /\ s \in Seq(Request) /\ Len(s) = Len(a) + Len(b)
      /\ \A n \in 1..Len(a) + Len(b) : s[n] = IF n <= Len(a) THEN a[n] ELSE b[n - Len(a)]
  BY <1>2, ConcatProperties
<1>8. /\ DOMAIN s = 1..Len(a) + Len(b) /\ Len(a) \in Nat /\ Len(b) \in Nat
      /\ DOMAIN a = 1..Len(a) /\ DOMAIN b = 1..Len(b)
  BY <1>2, <1>7
<1> HIDE DEF s
<1>9. ASSUME NEW n \in DOMAIN s, s[n].kind = "put"
      PROVE  n - Len(a) \in DOMAIN b /\ s[n] = b[n - Len(a)] /\ n \in Nat
  <2>1. ~(n <= Len(a))
    BY <1>5, <1>7, <1>8, <1>9
  <2> QED
    BY <1>7, <1>8, <2>1
<1>10. ASSUME NEW n \in DOMAIN b
       PROVE  n + Len(a) \in DOMAIN s /\ s[n + Len(a)] = b[n]
  BY <1>7, <1>8
<1>11. ASSUME NEW k
       PROVE  k \in Puts(s) <=> k \in outstanding[c]
  <2>1. ASSUME k \in Puts(s)
        PROVE  k \in outstanding[c]
    <3>1. PICK n \in PutsAt(s) : s[n].number = k
      BY <2>1, PutsOf
    <3>2. n \in DOMAIN s /\ s[n].kind = "put"
      BY DEF PutsAt
    <3> QED
      BY <1>6, <1>9, <3>1, <3>2
  <2>2. ASSUME k \in outstanding[c]
        PROVE  k \in Puts(s)
    <3>1. PICK n \in DOMAIN p : p[n] = k
      BY <1>1, <2>2
    <3>2. n \in DOMAIN b
      BY <1>4
    <3>3. n + Len(a) \in PutsAt(s) /\ s[n + Len(a)].number = k
      BY <1>6, <1>10, <3>1, <3>2 DEF PutsAt
    <3> QED
      BY <3>3, PutsOf
  <2> QED
    BY <2>1, <2>2
<1>12. Puts(s) = outstanding[c]
  BY <1>11
<1>13. Ascending(s)
  <2> SUFFICES ASSUME NEW m \in DOMAIN s, NEW n \in DOMAIN s, m < n,
                      s[m].kind = "put", s[n].kind = "put"
               PROVE  s[m].number < s[n].number
    BY DEF Ascending
  <2>1. /\ m - Len(a) \in DOMAIN b /\ s[m] = b[m - Len(a)]
        /\ n - Len(a) \in DOMAIN b /\ s[n] = b[n - Len(a)]
        /\ m - Len(a) < n - Len(a)
    BY <1>8, <1>9
  <2> QED
    BY <1>1, <1>6, <2>1
<1>14. Carries(s, writes[c])
  BY <1>6, <1>9 DEF Carries
<1> QED
  BY <1>12, <1>13, <1>14 DEF s, a, b

LEMMA EmptyPuts ==
  Puts(<<>>) = {} /\ Ascending(<<>>) /\ \A q : Carries(<<>>, q)
  BY DEF Puts, Ascending, Carries

LEMMA ConnectPuts ==
  ASSUME TypeOK, NEW c \in Clients, Connect(c), PutsInv(c), ListensInv(c)
  PROVE  PutsInv(c)'
<1> DEFINE s == Again(c) \o PutsAgain(c)
<1>1. /\ ~connected[c] /\ connected'[c] = TRUE
      /\ unacked'[c] = unacked[c] + (IF "Users" \in listens[c] THEN 2 ELSE 1)
      /\ up'[c] = s /\ down'[c] = down[c]
      /\ outstanding'[c] = outstanding[c] /\ putsToAck'[c] = putsToAck[c]
      /\ writes'[c] = writes[c] /\ log' = log
  BY ConnectAt
<1>2. Puts(s) = outstanding[c] /\ Ascending(s) /\ Carries(s, writes[c])
  BY AgainPuts
<1>3. down[c] = <<>>
  BY <1>1 DEF ListensInv
<1>4. unacked'[c] > 0
  BY <1>1, ClientTypes
<1>5. Held(c)' = Held(c) /\ \A k : TakenTo(c, k)' <=> TakenTo(c, k)
  BY <1>1 DEF Held, TakenTo
<1>6. Puts(down'[c]) = {} /\ Ascending(down'[c])
  BY <1>1, <1>3, EmptyPuts
<1> HIDE DEF s
<1> QED
  BY <1>1, <1>2, <1>4, <1>5, <1>6 DEF PutsInv, Carries

LEMMA DisconnectPuts ==
  ASSUME TypeOK, NEW c \in Clients, Disconnect(c), PutsInv(c)
  PROVE  PutsInv(c)'
<1>1. /\ connected'[c] = FALSE /\ up'[c] = <<>> /\ down'[c] = <<>>
      /\ outstanding'[c] = outstanding[c] /\ putsToAck'[c] = putsToAck[c]
      /\ writes'[c] = writes[c] /\ log' = log
  BY DisconnectAt
<1>2. Held(c)' = Held(c) /\ \A k : TakenTo(c, k)' <=> TakenTo(c, k)
  BY <1>1 DEF Held, TakenTo
<1>3. /\ Puts(up'[c]) = {} /\ Ascending(up'[c]) /\ Puts(down'[c]) = {} /\ Ascending(down'[c])
      /\ Carries(up'[c], writes[c])
  BY <1>1, EmptyPuts
<1> QED
  BY <1>1, <1>2, <1>3 DEF PutsInv, Carries

(* A request that is no put leaves a channel up.                           *)
LEMMA CarriesRemoved ==
  ASSUME NEW s, NEW n, NEW r, Removed(s, n, r), NEW q, Carries(s, q)
  PROVE  Carries(r, q)
  BY RemovedOldNew DEF Carries

LEMMA PutNumbers ==
  ASSUME TypeOK, NEW c \in Clients, PutsInv(c)
  PROVE  /\ Puts(up[c]) \subseteq Nat /\ Puts(down[c]) \subseteq Nat
         /\ Puts(up[c]) \subseteq outstanding[c] /\ Puts(down[c]) \subseteq outstanding[c]
<1>1. outstanding[c] \subseteq Nat
  BY ClientTypes
<1> QED
  BY <1>1 DEF PutsInv

LEMMA ListenTakenPuts ==
  ASSUME TypeOK, NEW c \in Clients, NEW n \in DOMAIN up[c], ListenTaken(c, n), PutsInv(c)
  PROVE  PutsInv(c)'
<1> DEFINE r == up[c][n]
<1>1. /\ r.kind = "listen" /\ Removed(up[c], n, up'[c])
      /\ connected'[c] = connected[c] /\ unacked'[c] = unacked[c]
      /\ outstanding'[c] = outstanding[c] /\ putsToAck'[c] = putsToAck[c]
      /\ writes'[c] = writes[c] /\ log' = log
  BY ListenTakenAt
<1>2. Carries(up[c], writes[c]) /\ Ascending(up[c]) /\ Ascending(down[c])
  BY DEF PutsInv, Carries
<1>3. Puts(down'[c]) = Puts(down[c]) /\ Ascending(down'[c])
  BY <1>2, AnswersSent DEF Answers
<1>4. Puts(up[c]) \subseteq Nat
  BY PutNumbers
<1>5. Puts(up'[c]) = Puts(up[c]) /\ Ascending(up'[c])
  BY <1>1, <1>2, <1>4, PutsRemoved
<1>6. Carries(up'[c], writes[c])
  BY <1>1, <1>2, CarriesRemoved
<1>7. \A k : TakenTo(c, k) => TakenTo(c, k)'
  BY <1>1 DEF TakenTo
<1>8. \A m \in DOMAIN log' : log'[m][1] = c => log'[m][2] \in DOMAIN writes[c]
  BY <1>1 DEF PutsInv
<1> QED
  BY <1>1, <1>3, <1>5, <1>6, <1>7, <1>8, PutsUnchanged

(* The server takes the oldest put that waits.                             *)
LEMMA FirstPut ==
  ASSUME TypeOK, NEW c \in Clients, PutsInv(c), NEW n \in DOMAIN up[c], PutTaken(c, n)
  PROVE  LET k == up[c][n].number
         IN  /\ k \in Puts(up[c]) /\ k \in outstanding[c] /\ k \in Nat
             /\ \A j \in Puts(up[c]) : j # k => k < j
             /\ \A j \in Puts(down[c]) : j < k
             /\ Puts(up'[c]) = Puts(up[c]) \ {k} /\ Ascending(up'[c])
<1> DEFINE k == up[c][n].number
<1>1. /\ up[c][n].kind = "put" /\ k \in Nat
      /\ \A m \in 1..n-1 : up[c][m].kind # "put"
      /\ Removed(up[c], n, up'[c])
  BY PutTakenAt
<1>2. up[c] \in Seq(Request)
  BY ClientTypes
<1>3. n \in PutsAt(up[c])
  BY <1>1 DEF PutsAt
<1>4. k \in Puts(up[c])
  BY <1>3, PutsOf
<1>5. ASSUME NEW j \in Puts(up[c]), j # k
      PROVE  k < j
  <2>1. PICK m \in PutsAt(up[c]) : up[c][m].number = j
    BY PutsOf
  <2>2. /\ m \in DOMAIN up[c] /\ up[c][m].kind = "put"
        /\ m \in Nat \ {0} /\ n \in Nat \ {0} /\ n \in DOMAIN up[c]
    BY <1>2, Element DEF PutsAt
  <2>3. n < m
    BY <1>1, <1>5, <2>1, <2>2
  <2>4. Ascending(up[c])
    BY DEF PutsInv
  <2> QED
    BY <1>1, <2>1, <2>2, <2>3, <2>4 DEF Ascending
<1>6. \A j \in Puts(down[c]) : j < k
  BY <1>4 DEF PutsInv
<1>7. k \in outstanding[c] /\ Puts(up[c]) \subseteq Nat
  BY <1>4, PutNumbers
<1>8. Ascending(up[c])
  BY DEF PutsInv
<1>9. Puts(up'[c]) = Puts(up[c]) \ {k} /\ Ascending(up'[c])
  BY <1>1, <1>7, <1>8, PutsRemoved
<1> QED
  BY <1>1, <1>4, <1>5, <1>6, <1>7, <1>9

LEMMA PutTakenPuts ==
  ASSUME TypeOK, NEW c \in Clients, NEW n \in DOMAIN up[c], PutTaken(c, n), PutsInv(c)
  PROVE  PutsInv(c)'
<1> DEFINE r == up[c][n]
           k == r.number
           u == Update(c, r)
           a == PutAnswer(r)
           told == IF c \in listening THEN Append(down[c], u) ELSE down[c]
<1>1. /\ r \in Request /\ r.kind = "put" /\ k \in Nat
      /\ Removed(up[c], n, up'[c])
      /\ down'[c] = Append(told, a)
      /\ log' = Append(log, <<c, k>>)
      /\ UNCHANGED <<connected, unacked, outstanding, putsToAck, writes>>
  BY PutTakenAt
<1>2. /\ u \in Answer /\ a \in Answer /\ u.kind = "update" /\ a.kind = "put" /\ a.number = k
      /\ down[c] \in Seq(Answer)
  BY <1>1, UpdateType, ClientTypes
<1>3. /\ k \in Puts(up[c]) /\ k \in outstanding[c]
      /\ \A j \in Puts(up[c]) : j # k => k < j
      /\ \A j \in Puts(down[c]) : j < k
      /\ Puts(up'[c]) = Puts(up[c]) \ {k} /\ Ascending(up'[c])
  BY FirstPut
<1> HIDE DEF k, a, u, r
<1>4. /\ Puts(up[c]) \subseteq Nat /\ Puts(down[c]) \subseteq Nat
      /\ outstanding[c] \subseteq DOMAIN writes[c] /\ outstanding[c] \subseteq Nat
      /\ DOMAIN writes[c] \subseteq Nat
  BY PutNumbers, ClientTypes
<1>5. Carries(up[c], writes[c]) /\ Ascending(down[c])
  BY DEF PutsInv, Carries
<1>6. told \in Seq(Answer) /\ Puts(told) = Puts(down[c]) /\ Ascending(told)
  <2>1. CASE c \in listening
    <3>1. told = Append(down[c], u)
      BY <2>1
    <3> HIDE DEF told
    <3>2. told \in Seq(Answer)
      BY <1>2, <3>1, Appended
    <3> QED
      BY <1>2, <1>5, <3>1, <3>2, NoPutAppended
  <2>2. CASE c \notin listening
    BY <1>2, <1>5, <2>2
  <2> QED
    BY <2>1, <2>2
<1> HIDE DEF told
<1>7. Puts(down'[c]) = Puts(down[c]) \cup {k}
  BY <1>1, <1>2, <1>6, PutsAppended
<1>8. Ascending(down'[c])
  BY <1>1, <1>2, <1>3, <1>6, AscendingAppended
<1>9. Carries(up'[c], writes[c])
  BY <1>1, <1>5, CarriesRemoved
<1>10. Held(c)' = Held(c)
  BY <1>1 DEF Held
<1>11. /\ Puts(up'[c]) \cup Puts(down'[c]) \subseteq outstanding'[c]
       /\ connected'[c] => outstanding'[c] \subseteq Puts(up'[c]) \cup Puts(down'[c])
  BY <1>1, <1>3, <1>7 DEF PutsInv
<1>12. \A j \in Puts(down'[c]), i \in Puts(up'[c]) : j < i
  <2>1. \A j \in Puts(down[c]), i \in Puts(up[c]) : j < i
    BY DEF PutsInv
  <2> QED
    BY <1>3, <1>7, <2>1
<1>13. \A m \in DOMAIN log' : log'[m][1] = c => log'[m][2] \in DOMAIN writes'[c]
  <2>1. \A m \in DOMAIN log : log[m][1] = c => log[m][2] \in DOMAIN writes[c]
    BY DEF PutsInv
  <2>2. /\ DOMAIN log' = DOMAIN log \cup {Len(log) + 1} /\ log'[Len(log) + 1] = <<c, k>>
        /\ \A m \in DOMAIN log : log'[m] = log[m]
    BY <1>1, LogType
  <2> QED
    BY <1>1, <1>3, <1>4, <2>1, <2>2
<1>14. \A j \in DOMAIN writes'[c] : j \notin outstanding'[c] => TakenTo(c, j)'
  <2> SUFFICES ASSUME NEW j \in DOMAIN writes[c], j \notin outstanding[c]
               PROVE  TakenTo(c, j)'
    BY <1>1
  <2>1. ~(k <= j)
    BY <1>3 DEF PutsInv
  <2>2. j \in Nat /\ j <= k
    BY <1>1, <1>4, <2>1
  <2> QED
    BY <1>1, <2>2, TakenNext
<1>15. \A j \in Puts(down'[c]) : TakenTo(c, j)'
  <2> SUFFICES ASSUME NEW j \in Puts(down'[c])
               PROVE  TakenTo(c, j)'
    OBVIOUS
  <2>1. j \in Nat /\ j <= k
    BY <1>1, <1>3, <1>4, <1>7
  <2> QED
    BY <1>1, <2>1, TakenNext
<1> QED
  BY <1>1, <1>3, <1>8, <1>9, <1>10, <1>11, <1>12, <1>13, <1>14, <1>15 DEF PutsInv, Carries

(* Another client's put is taken.                                          *)
LEMMA OtherPutTakenPuts ==
  ASSUME TypeOK, NEW c \in Clients, NEW n \in DOMAIN up[c], PutTaken(c, n),
         NEW d \in Clients, d # c, PutsInv(d)
  PROVE  PutsInv(d)'
<1> DEFINE r == up[c][n]
           k == r.number
           u == Update(c, r)
<1>1. /\ r \in Request /\ r.kind = "put" /\ k \in Nat
      /\ up'[d] = up[d]
      /\ down'[d] = IF d \in listening THEN Append(down[d], u) ELSE down[d]
      /\ log' = Append(log, <<c, k>>)
      /\ UNCHANGED <<connected, unacked, outstanding, putsToAck, writes>>
  BY PutTakenAt
<1>2. u \in Answer /\ u.kind = "update" /\ down[d] \in Seq(Answer)
  BY <1>1, UpdateType, ClientTypes
<1> HIDE DEF k, u, r
<1>3. Carries(up[d], writes[d]) /\ Ascending(up[d]) /\ Ascending(down[d])
  BY DEF PutsInv, Carries
<1>4. Puts(down'[d]) = Puts(down[d]) /\ Ascending(down'[d])
  <2>1. CASE d \in listening
    BY <1>1, <1>2, <1>3, <2>1, NoPutAppended
  <2>2. CASE d \notin listening
    BY <1>1, <1>3, <2>2
  <2> QED
    BY <2>1, <2>2
<1>5. \A j : TakenTo(d, j) => TakenTo(d, j)'
  BY <1>1, TakenOther
<1>6. \A m \in DOMAIN log' : log'[m][1] = d => log'[m][2] \in DOMAIN writes[d]
  <2>1. \A m \in DOMAIN log : log[m][1] = d => log[m][2] \in DOMAIN writes[d]
    BY DEF PutsInv
  <2>2. /\ DOMAIN log' = DOMAIN log \cup {Len(log) + 1} /\ log'[Len(log) + 1] = <<c, k>>
        /\ \A m \in DOMAIN log : log'[m] = log[m]
    BY <1>1, LogType
  <2> QED
    BY <2>1, <2>2
<1> QED
  BY <1>1, <1>3, <1>4, <1>5, <1>6, PutsUnchanged

(* A message that is no answer to a put arrives.                           *)
LEMMA ArrivedPuts ==
  ASSUME TypeOK, NEW c \in Clients, PutsInv(c),
         Removed(down[c], 1, down'[c]), down[c][1].kind # "put",
         up'[c] = up[c], connected'[c] = connected[c], unacked'[c] = unacked[c],
         outstanding'[c] = outstanding[c], putsToAck'[c] = putsToAck[c],
         writes'[c] = writes[c], log' = log
  PROVE  PutsInv(c)'
<1>1. Carries(up[c], writes[c]) /\ Ascending(up[c]) /\ Ascending(down[c])
  BY DEF PutsInv, Carries
<1>2. Puts(down[c]) \subseteq Nat
  BY PutNumbers
<1>3. Puts(down'[c]) = Puts(down[c]) /\ Ascending(down'[c])
  BY <1>1, <1>2, PutsRemoved
<1>4. \A k : TakenTo(c, k) => TakenTo(c, k)'
  BY DEF TakenTo
<1>5. \A m \in DOMAIN log' : log'[m][1] = c => log'[m][2] \in DOMAIN writes[c]
  BY DEF PutsInv
<1> QED
  BY <1>1, <1>3, <1>4, <1>5, PutsUnchanged

LEMMA ListenAnsweredPuts ==
  ASSUME TypeOK, NEW c \in Clients, Arrives(c, "listen"), ListenAnswered(c),
         PutsInv(c), ListensInv(c)
  PROVE  PutsInv(c)'
<1>1. /\ down[c][1].kind = "listen" /\ Removed(down[c], 1, down'[c])
      /\ unacked'[c] = unacked[c] - 1
      /\ putsToAck'[c] = IF unacked[c] = 1 THEN <<>> ELSE putsToAck[c]
      /\ writes'[c] = Without(writes[c], Released(c))
      /\ up'[c] = up[c] /\ connected'[c] = connected[c]
      /\ outstanding'[c] = outstanding[c] /\ log' = log
  BY ListenAnsweredAt
<1>2. /\ DOMAIN writes'[c] = DOMAIN writes[c]
      /\ \A k \in DOMAIN writes[c] : writes'[c][k] = IF k \in Released(c) THEN Null ELSE writes[c][k]
  <2>1. writes[c] \in Seq(AppWrites \cup {Null})
    BY ClientTypes
  <2> QED
    BY <1>1, <2>1, WithoutType
<1>3. Held(c)' = IF unacked[c] = 1 THEN {} ELSE Held(c)
  <2>1. ToSet(<<>>) = {}
    BY DEF ToSet
  <2> QED
    BY <1>1, <2>1 DEF Held
<1>4. /\ Puts(down'[c]) = Puts(down[c]) /\ Ascending(down'[c])
  <2>1. Puts(down[c]) \subseteq Nat /\ Ascending(down[c])
    BY PutNumbers DEF PutsInv
  <2> QED
    BY <1>1, <2>1, PutsRemoved
<1>5. \A k : TakenTo(c, k)' <=> TakenTo(c, k)
  BY <1>1 DEF TakenTo
<1>6. /\ outstanding'[c] \cap Held(c)' = {}
      /\ \A k \in DOMAIN writes'[c] : writes'[c][k] # Null <=> k \in outstanding'[c] \cup Held(c)'
  <2>1. outstanding[c] \cap Held(c) = {}
    BY DEF PutsInv
  <2>2. \A k \in DOMAIN writes[c] : writes[c][k] # Null <=> k \in outstanding[c] \cup Held(c)
    BY DEF PutsInv
  <2>3. CASE unacked[c] = 1
    BY <1>1, <1>2, <1>3, <2>1, <2>2, <2>3 DEF Released
  <2>4. CASE unacked[c] # 1
    BY <1>1, <1>2, <1>3, <2>1, <2>2, <2>4 DEF Released
  <2> QED
    BY <2>3, <2>4
<1>7. Carries(up'[c], writes'[c])
  <2>1. Carries(up[c], writes[c])
    BY DEF PutsInv, Carries
  <2>2. \A n \in DOMAIN up[c] : up[c][n].kind = "put" => up[c][n].number \in outstanding[c]
    BY PutNumbers DEF Puts
  <2>3. \A k \in outstanding[c] : k \in DOMAIN writes[c] /\ k \notin Released(c)
    BY ClientTypes DEF PutsInv, Released
  <2> QED
    BY <1>1, <1>2, <2>1, <2>2, <2>3 DEF Carries
<1>8. connected'[c] /\ putsToAck'[c] # <<>> => unacked'[c] > 0
  <2>1. unacked[c] > 0 /\ unacked[c] \in Nat
    BY ListenCounted, ClientTypes
  <2> QED
    BY <1>1, <2>1
<1>9. /\ Ascending(up[c])
      /\ \A j \in outstanding[c], k \in DOMAIN writes[c] : j <= k => k \in outstanding[c]
      /\ Puts(up[c]) \cup Puts(down[c]) \subseteq outstanding[c]
      /\ connected[c] => outstanding[c] \subseteq Puts(up[c]) \cup Puts(down[c])
      /\ \A j \in Puts(down[c]), k \in Puts(up[c]) : j < k
      /\ \A n \in DOMAIN log : log[n][1] = c => log[n][2] \in DOMAIN writes[c]
      /\ \A k \in DOMAIN writes[c] : k \notin outstanding[c] => TakenTo(c, k)
      /\ \A k \in Puts(down[c]) : TakenTo(c, k)
  BY DEF PutsInv
<1> QED
  BY <1>1, <1>2, <1>4, <1>5, <1>6, <1>7, <1>8, <1>9 DEF PutsInv, Carries

LEMMA PutAnsweredPuts ==
  ASSUME TypeOK, NEW c \in Clients, Arrives(c, "put"), PutAnswered(c),
         PutsInv(c), ListensInv(c)
  PROVE  PutsInv(c)'
<1> DEFINE m == down[c][1]
           k == m.number
<1>1. /\ m.kind = "put" /\ k \in Nat /\ 1 \in DOMAIN down[c]
      /\ Removed(down[c], 1, down'[c])
      /\ outstanding'[c] = outstanding[c] \ {k}
      /\ putsToAck'[c] = IF unacked[c] = 0 THEN putsToAck[c] ELSE Append(putsToAck[c], k)
      /\ writes'[c] = IF unacked[c] = 0 THEN Without(writes[c], {k}) ELSE writes[c]
      /\ up'[c] = up[c] /\ connected'[c] = connected[c] /\ unacked'[c] = unacked[c]
      /\ log' = log
  BY PutAnsweredAt
<1>2. k \in Puts(down[c]) /\ k \in outstanding[c]
  <2>1. 1 \in PutsAt(down[c])
    BY <1>1 DEF PutsAt
  <2> QED
    BY <2>1, PutsOf, PutNumbers
<1>3. /\ Puts(down[c]) \subseteq Nat /\ Puts(up[c]) \subseteq Nat
      /\ outstanding[c] \subseteq Nat /\ outstanding[c] \subseteq DOMAIN writes[c]
      /\ Held(c) \subseteq DOMAIN writes[c] /\ unacked[c] \in Nat
      /\ DOMAIN writes[c] \subseteq Nat
  BY PutNumbers, ClientTypes
<1>4. connected[c]
  BY <1>1 DEF ListensInv
<1>5. \A j \in Puts(down[c]) : j # k => k < j
  <2> SUFFICES ASSUME NEW j \in Puts(down[c]), j # k
               PROVE  k < j
    OBVIOUS
  <2>1. PICK n \in PutsAt(down[c]) : down[c][n].number = j
    BY PutsOf
  <2>2. n \in DOMAIN down[c] /\ down[c][n].kind = "put" /\ n \in Nat \ {0}
    BY ClientTypes, Element DEF PutsAt
  <2>3. 1 < n
    BY <2>1, <2>2
  <2>4. Ascending(down[c])
    BY DEF PutsInv
  <2> QED
    BY <1>1, <2>1, <2>2, <2>3, <2>4 DEF Ascending
<1>6. Puts(down'[c]) = Puts(down[c]) \ {k} /\ Ascending(down'[c])
  <2>1. Ascending(down[c])
    BY DEF PutsInv
  <2> QED
    BY <1>1, <1>3, <2>1, PutsRemoved
<1> HIDE DEF k, m
<1>7. \A j \in outstanding[c] : j # k => k < j
  <2>1. \A j \in Puts(up[c]) : k < j
    BY <1>2 DEF PutsInv
  <2>2. outstanding[c] \subseteq Puts(up[c]) \cup Puts(down[c])
    BY <1>4 DEF PutsInv
  <2> QED
    BY <1>5, <2>1, <2>2
<1>8. DOMAIN Without(writes[c], {k}) = DOMAIN writes[c]
      /\ \A j \in DOMAIN writes[c] : Without(writes[c], {k})[j] = IF j = k THEN Null ELSE writes[c][j]
  BY DEF Without
<1>9. Held(c)' = IF unacked[c] = 0 THEN Held(c) ELSE Held(c) \cup {k}
  <2>1. CASE unacked[c] = 0
    BY <1>1, <2>1 DEF Held
  <2>2. CASE unacked[c] # 0
    <3>1. putsToAck[c] \in Seq(Nat)
      BY ClientTypes
    <3>2. /\ DOMAIN Append(putsToAck[c], k) = DOMAIN putsToAck[c] \cup {Len(putsToAck[c]) + 1}
          /\ Append(putsToAck[c], k)[Len(putsToAck[c]) + 1] = k
          /\ \A n \in DOMAIN putsToAck[c] : Append(putsToAck[c], k)[n] = putsToAck[c][n]
      BY <1>1, <3>1, Appended
    <3>3. ToSet(Append(putsToAck[c], k)) = ToSet(putsToAck[c]) \cup {k}
      BY <3>2 DEF ToSet
    <3> QED
      BY <1>1, <2>2, <3>3 DEF Held
  <2> QED
    BY <2>1, <2>2
<1>10. \A j : TakenTo(c, j)' <=> TakenTo(c, j)
  BY <1>1 DEF TakenTo
<1>11. outstanding[c] \cap Held(c) = {}
  BY DEF PutsInv
<1>12. DOMAIN writes'[c] = DOMAIN writes[c]
  BY <1>1, <1>8
<1>13. /\ outstanding'[c] \cap Held(c)' = {}
       /\ \A j \in DOMAIN writes'[c] : writes'[c][j] # Null <=> j \in outstanding'[c] \cup Held(c)'
  <2>1. \A j \in DOMAIN writes[c] : writes[c][j] # Null <=> j \in outstanding[c] \cup Held(c)
    BY DEF PutsInv
  <2>2. CASE unacked[c] = 0
    BY <1>1, <1>2, <1>8, <1>9, <1>11, <2>1, <2>2
  <2>3. CASE unacked[c] # 0
    BY <1>1, <1>2, <1>9, <1>11, <2>1, <2>3
  <2> QED
    BY <2>2, <2>3
<1>14. \A i \in outstanding'[c], j \in DOMAIN writes'[c] : i <= j => j \in outstanding'[c]
  <2> SUFFICES ASSUME NEW i \in outstanding[c], i # k, NEW j \in DOMAIN writes[c], i <= j
               PROVE  j \in outstanding[c] \ {k}
    BY <1>1, <1>12
  <2>1. j \in outstanding[c]
    BY DEF PutsInv
  <2>2. k < i
    BY <1>7
  <2> QED
    BY <1>1, <1>3, <2>1, <2>2
<1>15. Carries(up'[c], writes'[c])
  <2>1. Carries(up[c], writes[c])
    BY DEF PutsInv, Carries
  <2>2. \A n \in DOMAIN up[c] : up[c][n].kind = "put" =>
            /\ up[c][n].number \in DOMAIN writes[c] /\ up[c][n].number # k
    <3>1. \A j \in Puts(up[c]) : k < j
      BY <1>2 DEF PutsInv
    <3>2. \A j \in Puts(up[c]) : j # k /\ j \in outstanding[c]
      BY <1>1, <1>3, <3>1, PutNumbers
    <3> QED
      BY <1>3, <3>2 DEF Puts
  <2>3. CASE unacked[c] = 0
    <3>1. \A j \in DOMAIN writes[c] : j # k => writes'[c][j] = writes[c][j]
      BY <1>1, <1>8, <2>3
    <3>2. up'[c] = up[c]
      BY <1>1
    <3>3. SUFFICES ASSUME NEW n \in DOMAIN up[c], up[c][n].kind = "put"
                   PROVE  up[c][n].write = writes'[c][up[c][n].number]
      BY <3>2 DEF Carries
    <3>4. up[c][n].write = writes[c][up[c][n].number]
      BY <2>1, <3>3 DEF Carries
    <3> QED
      BY <2>2, <3>1, <3>3, <3>4
  <2>4. CASE unacked[c] # 0
    BY <1>1, <2>1, <2>4
  <2> QED
    BY <2>3, <2>4
<1>16. /\ Puts(up'[c]) \cup Puts(down'[c]) \subseteq outstanding'[c]
       /\ connected'[c] => outstanding'[c] \subseteq Puts(up'[c]) \cup Puts(down'[c])
  <2>1. k \notin Puts(up[c])
    <3>1. \A j \in Puts(up[c]) : k < j
      BY <1>2 DEF PutsInv
    <3> QED
      BY <1>1, <3>1
  <2> QED
    BY <1>1, <1>6, <2>1 DEF PutsInv
<1>17. connected'[c] /\ putsToAck'[c] # <<>> => unacked'[c] > 0
  BY <1>1, <1>3 DEF PutsInv
<1>18. Ascending(up'[c]) /\ \A j \in Puts(down'[c]), i \in Puts(up'[c]) : j < i
  BY <1>1, <1>6 DEF PutsInv
<1>19. \A n \in DOMAIN log' : log'[n][1] = c => log'[n][2] \in DOMAIN writes'[c]
  BY <1>1, <1>12 DEF PutsInv
<1>20. /\ \A j \in DOMAIN writes'[c] : j \notin outstanding'[c] => TakenTo(c, j)'
       /\ \A j \in Puts(down'[c]) : TakenTo(c, j)'
  BY <1>1, <1>2, <1>6, <1>10, <1>12 DEF PutsInv
<1> QED
  BY <1>6, <1>13, <1>14, <1>15, <1>16, <1>17, <1>18, <1>19, <1>20 DEF PutsInv, Carries
=============================================================================
