--------------------------- MODULE AccountsProofs ---------------------------
(***************************************************************************)
(* Proofs about the accounts: the counts, the single sign-up, the          *)
(* inductive invariant, and what follows from it for counts and names.     *)
(***************************************************************************)
EXTENDS AccountsSteps

-----------------------------------------------------------------------------
(***************************************************************************)
(* No copy counts more than were counted                                   *)
(***************************************************************************)
Tally == [n \in Names |-> Counted(n)]

FitsIn(t, a) == a.ItemsAuctioned <= t[a.Username]

(* CountsInv of a copy x, writes p, events q and messages m. *)
DataFits(t, x, p, q, m) ==
    /\ x # Null => \A k \in KeysOf(x) : FitsIn(t, x[k])
    /\ \A i \in DOMAIN p : FitsIn(t, p[i].to)
    /\ \A i \in DOMAIN q : \A k \in KeysOf(q[i].users) : FitsIn(t, q[i].users[k])
    /\ \A i \in DOMAIN m : /\ m[i].kind = "users" =>
                                \A k \in KeysOf(m[i].users) : FitsIn(t, m[i].users[k])
                           /\ m[i].kind # "users" => FitsIn(t, m[i].write.to)

LoginsFirst(c) ==
    /\ signedIn[c] => WaitsAt(c, "login") = {}
    /\ \A i, j \in WaitsAt(c, "login") : i = j
    /\ \A i \in WaitsAt(c, "login"), j \in WaitsAt(c, "count") : j < i

LEMMA FitsNow ==
  ASSUME NEW a \in Account
  PROVE  Fits(a) <=> FitsIn(Tally, a)
  BY AccountFields DEF Fits, FitsIn, Tally

LEMMA FitsNext ==
  ASSUME NEW a \in Account
  PROVE  Fits(a)' <=> FitsIn(Tally', a)
<1>1. a.Username \in Names
  BY AccountFields
<1>2. Tally'[a.Username] = Counted(a.Username)'
  BY <1>1 DEF Tally
<1> QED
  BY <1>2 DEF Fits, FitsIn

LEMMA CopyAccounts ==
  ASSUME NEW us \in Users_, NEW k \in KeysOf(us)
  PROVE  k \in Keys /\ us[k] \in Account
  BY AccountOf DEF KeysOf

LEMMA CountsNow ==
  ASSUME TypeOK, NEW c \in Clients
  PROVE  CountsInv(c) <=> /\ DataFits(Tally, cache[c], pending[c], inbox[c], push[c])
                          /\ LoginsFirst(c)
<1>1. cache[c] # Null =>
        \A k \in KeysOf(cache[c]) : Fits(cache[c][k]) <=> FitsIn(Tally, cache[c][k])
  BY ClientTypes, CopyAccounts, FitsNow
<1>2. \A i \in DOMAIN pending[c] : Fits(pending[c][i].to) <=> FitsIn(Tally, pending[c][i].to)
  BY WriteAt, FitsNow
<1>3. \A i \in DOMAIN inbox[c] : \A k \in KeysOf(inbox[c][i].users) :
        Fits(inbox[c][i].users[k]) <=> FitsIn(Tally, inbox[c][i].users[k])
  BY SnapshotAt, CopyAccounts, FitsNow
<1>4. \A p \in DOMAIN push[c] :
        /\ push[c][p].kind = "users" => \A k \in KeysOf(push[c][p].users) :
             Fits(push[c][p].users[k]) <=> FitsIn(Tally, push[c][p].users[k])
        /\ push[c][p].kind # "users" =>
             (Fits(push[c][p].write.to) <=> FitsIn(Tally, push[c][p].write.to))
  BY MessageAt, CopyAccounts, FitsNow, WriteFields
<1> QED
  BY <1>1, <1>2, <1>3, <1>4 DEF CountsInv, DataFits, LoginsFirst

LEMMA CountsNext ==
  ASSUME TypeOK', NEW c \in Clients,
         DataFits(Tally', cache'[c], pending'[c], inbox'[c], push'[c]), LoginsFirst(c)'
  PROVE  CountsInv(c)'
<1>0. /\ cache'[c] \in Users_ \cup {Null} /\ pending'[c] \in Seq(Write)
      /\ inbox'[c] \in Seq(Snapshots) /\ push'[c] \in Seq(Message)
  BY DEF TypeOK, Snapshots
<1>1. cache'[c] # Null => \A k \in KeysOf(cache'[c]) : Fits(cache[c][k])'
  <2>1. cache'[c] # Null => \A k \in KeysOf(cache'[c]) :
          cache'[c][k] \in Account /\ FitsIn(Tally', cache'[c][k])
    BY <1>0, CopyAccounts DEF DataFits
  <2> QED
    BY <2>1, FitsNext
<1>2. \A i \in DOMAIN pending'[c] : Fits(pending[c][i].to)'
  <2>1. \A i \in DOMAIN pending'[c] :
          pending'[c][i].to \in Account /\ FitsIn(Tally', pending'[c][i].to)
    BY <1>0, Element, WriteFields DEF DataFits
  <2> QED
    BY <2>1, FitsNext
<1>3. \A i \in DOMAIN inbox'[c] : \A k \in KeysOf(inbox'[c][i].users) : Fits(inbox[c][i].users[k])'
  <2>1. \A i \in DOMAIN inbox'[c] : inbox'[c][i].users \in Users_
    <3>1. \A i \in DOMAIN inbox'[c] : inbox'[c][i] \in Snapshots
      BY <1>0, Element
    <3> QED
      BY <3>1 DEF Snapshots
  <2>2. \A i \in DOMAIN inbox'[c] : \A k \in KeysOf(inbox'[c][i].users) :
          inbox'[c][i].users[k] \in Account /\ FitsIn(Tally', inbox'[c][i].users[k])
    BY <2>1, CopyAccounts DEF DataFits
  <2> QED
    BY <2>2, FitsNext
<1>4. \A p \in DOMAIN push'[c] :
        /\ push'[c][p].kind = "users" => \A k \in KeysOf(push'[c][p].users) : Fits(push[c][p].users[k])'
        /\ push'[c][p].kind # "users" => Fits(push[c][p].write.to)'
  <2>1. ASSUME NEW p \in DOMAIN push'[c]
        PROVE  \/ push'[c][p].kind = "users" /\ push'[c][p].users \in Users_
               \/ push'[c][p].kind = "write" /\ push'[c][p].write.to \in Account
    <3>1. push'[c][p] \in Message
      BY <1>0, Element
    <3> QED
      BY <3>1, MessageCases, WriteFields
  <2>2. \A p \in DOMAIN push'[c] : push'[c][p].kind = "users" => \A k \in KeysOf(push'[c][p].users) :
          push'[c][p].users[k] \in Account /\ FitsIn(Tally', push'[c][p].users[k])
    BY <2>1, CopyAccounts DEF DataFits
  <2>3. \A p \in DOMAIN push'[c] : push'[c][p].kind # "users" =>
          push'[c][p].write.to \in Account /\ FitsIn(Tally', push'[c][p].write.to)
    BY <2>1 DEF DataFits
  <2> QED
    BY <2>2, <2>3, FitsNext
<1> QED
  BY <1>1, <1>2, <1>3, <1>4 DEF CountsInv, LoginsFirst, KeysOf

(* More were counted. *)
LEMMA FitsMore ==
  ASSUME NEW t \in [Names -> Nat], NEW u \in [Names -> Nat], \A n \in Names : t[n] <= u[n]
  PROVE  \A a \in Account : FitsIn(t, a) => FitsIn(u, a)
<1> SUFFICES ASSUME NEW a \in Account, FitsIn(t, a)
             PROVE  FitsIn(u, a)
  OBVIOUS
<1>1. a.Username \in Names /\ a.ItemsAuctioned \in Nat
  BY AccountFields
<1>2. \A x, y, z \in Nat : x <= y /\ y <= z => x <= z
  OBVIOUS
<1>3. t[a.Username] \in Nat /\ u[a.Username] \in Nat /\ t[a.Username] <= u[a.Username]
  BY <1>1
<1>4. a.ItemsAuctioned <= t[a.Username]
  BY DEF FitsIn
<1>5. a.ItemsAuctioned <= u[a.Username]
  BY ONLY <1>1, <1>2, <1>3, <1>4
<1> QED
  BY <1>5 DEF FitsIn

LEMMA TallyType ==
  ASSUME TypeOK, CountersInv
  PROVE  Tally \in [Names -> Nat] /\ \A n \in Names : Tally[n] = Counted(n)
  BY CountedType DEF Tally

LEMMA TallyNext ==
  ASSUME TypeOK', CountersInv'
  PROVE  Tally' \in [Names -> Nat] /\ \A n \in Names : Tally'[n] = Counted(n)'
<1>1. \A n \in Names : Counted(n)' \in Nat
  <2>1. \A n \in Names : IsFiniteSet(Uncounted(n)') /\ Counted(n)' >= 0
    BY DEF CountersInv
  <2>2. \A n \in Names : Cardinality(Uncounted(n)') \in Nat
    BY <2>1, FS_CardinalityType
  <2>3. \A n \in Names : submitted'[n] \in Nat
    BY DEF TypeOK
  <2>4. \A a, b \in Nat : a - b >= 0 => a - b \in Nat
    OBVIOUS
  <2>5. \A n \in Names : Counted(n)' = submitted'[n] - Cardinality(Uncounted(n)')
    BY DEF Counted
  <2> QED
    BY <2>1, <2>2, <2>3, <2>4, <2>5
<1> QED
  BY <1>1 DEF Tally

LEMMA DataFitsMore ==
  ASSUME NEW t \in [Names -> Nat], NEW u \in [Names -> Nat], \A n \in Names : t[n] <= u[n],
         NEW x \in Users_ \cup {Null}, NEW p \in Seq(Write), NEW q \in Seq(Snapshots),
         NEW m \in Seq(Message), DataFits(t, x, p, q, m)
  PROVE  DataFits(u, x, p, q, m)
<1>1. \A a \in Account : FitsIn(t, a) => FitsIn(u, a)
  BY FitsMore
<1>2. x # Null => \A k \in KeysOf(x) : FitsIn(u, x[k])
  BY <1>1, CopyAccounts DEF DataFits
<1>3. \A i \in DOMAIN p : FitsIn(u, p[i].to)
  BY <1>1, Element, WriteFields DEF DataFits
<1>4. \A i \in DOMAIN q : \A k \in KeysOf(q[i].users) : FitsIn(u, q[i].users[k])
  <2>1. \A i \in DOMAIN q : q[i] \in Snapshots
    BY Element
  <2>2. \A i \in DOMAIN q : q[i].users \in Users_
    BY <2>1 DEF Snapshots
  <2> QED
    BY <1>1, <2>2, CopyAccounts DEF DataFits
<1>5. \A i \in DOMAIN m : /\ m[i].kind = "users" =>
                                \A k \in KeysOf(m[i].users) : FitsIn(u, m[i].users[k])
                          /\ m[i].kind # "users" => FitsIn(u, m[i].write.to)
  <2>1. \A i \in DOMAIN m : m[i] \in Message
    BY Element
  <2>2. \A i \in DOMAIN m : /\ m[i].kind = "users" => m[i].users \in Users_
                            /\ m[i].kind # "users" => m[i].write.to \in Account
    BY <2>1, MessageCases, WriteFields
  <2> QED
    BY <1>1, <2>2, CopyAccounts DEF DataFits
<1> QED
  BY <1>2, <1>3, <1>4, <1>5 DEF DataFits

(* What c is shown fits, because the copy and the writes above it do. *)
LEMMA SnapshotFits ==
  ASSUME TypeOK, OneName, NEW c \in Clients, NamesInv(c), NEW b \in Users_,
         Grounded(b, pending[c]),
         \A k \in KeysOf(b) : users[k] # Null /\ b[k].Username = users[k].Username,
         NEW t \in [Names -> Nat], \A k \in KeysOf(b) : FitsIn(t, b[k]),
         \A i \in DOMAIN pending[c] : FitsIn(t, pending[c][i].to)
  PROVE  \A k \in KeysOf(Seen(b, pending[c])) : FitsIn(t, Seen(b, pending[c])[k])
<1> DEFINE s == Seen(b, pending[c])
<1>1. pending[c] \in Seq(Write)
  BY ClientTypes
<1>2. /\ s \in Users_ /\ \A k \in Keys : s[k] # Null <=> b[k] # Null \/ Created(c, k)
      /\ \A k \in KeysOf(s) : NameAt(c, k, s[k].Username)
  BY SnapshotNames
<1> SUFFICES ASSUME NEW k \in KeysOf(s)
             PROVE  FitsIn(t, s[k])
  OBVIOUS
<1>3. k \in Keys /\ (b[k] # Null \/ Created(c, k))
  BY <1>2 DEF KeysOf
<1>4. b[k] # Null \/ Written(pending[c], k)
  BY <1>3 DEF Created, Written
<1>5. "ItemsAuctioned" \in Children
  BY DEF Children
<1>6. \/ /\ Setting(pending[c], k, "ItemsAuctioned") = {}
         /\ s[k]["ItemsAuctioned"] = b[k]["ItemsAuctioned"]
      \/ \E i \in DOMAIN pending[c] : /\ pending[c][i].key = k
                                      /\ s[k]["ItemsAuctioned"] = pending[c][i].to["ItemsAuctioned"]
  BY <1>1, <1>3, <1>4, <1>5, SeenChild
<1>7. CASE /\ Setting(pending[c], k, "ItemsAuctioned") = {}
           /\ s[k].ItemsAuctioned = b[k].ItemsAuctioned
  <2>1. ~Created(c, k)
    BY <1>5, <1>7 DEF Created, Setting, Creation
  <2>2. k \in KeysOf(b)
    BY <1>3, <2>1 DEF KeysOf
  <2>3. users[k] # Null /\ users[k].Username = b[k].Username /\ FitsIn(t, b[k])
    BY <2>2
  <2>4. NameAt(c, k, b[k].Username)
    BY <2>3 DEF NameAt
  <2>5. s[k].Username = b[k].Username
    BY <1>2, <1>3, <2>4, NameUnique
  <2> QED
    BY <1>7, <2>3, <2>5 DEF FitsIn
<1>8. CASE \E i \in DOMAIN pending[c] : /\ pending[c][i].key = k
                                        /\ s[k].ItemsAuctioned = pending[c][i].to.ItemsAuctioned
  <2>1. PICK i \in DOMAIN pending[c] : /\ pending[c][i].key = k
                                       /\ s[k].ItemsAuctioned = pending[c][i].to.ItemsAuctioned
    BY <1>8
  <2>2. NameAt(c, pending[c][i].key, pending[c][i].to.Username) /\ FitsIn(t, pending[c][i].to)
    BY DEF NamesInv
  <2>3. s[k].Username = pending[c][i].to.Username
    BY <1>2, <1>3, <2>1, <2>2, NameUnique
  <2> QED
    BY <2>1, <2>2, <2>3 DEF FitsIn
<1> QED
  BY <1>6, <1>7, <1>8

(* Nothing of d's data changes. *)
LEMMA CountsSame ==
  ASSUME TypeOK, TypeOK', CountersInv, CountersInv', NEW d \in Clients, CountsInv(d),
         \A n \in Names : Counted(n) <= Counted(n)',
         cache'[d] \in {cache[d], Null}, pending'[d] = pending[d], inbox'[d] = inbox[d],
         push'[d] = push[d], LoginsFirst(d)'
  PROVE  CountsInv(d)'
<1>1. /\ Tally \in [Names -> Nat] /\ Tally' \in [Names -> Nat]
      /\ \A n \in Names : Tally[n] <= Tally'[n]
  BY TallyType, TallyNext
<1>2. /\ cache'[d] \in Users_ \cup {Null} /\ pending[d] \in Seq(Write)
      /\ inbox[d] \in Seq(Snapshots) /\ push[d] \in Seq(Message)
  BY ClientTypes
<1>3. DataFits(Tally, cache[d], pending[d], inbox[d], push[d])
  BY CountsNow
<1>4. DataFits(Tally, cache'[d], pending[d], inbox[d], push[d])
  BY <1>3 DEF DataFits
<1>5. DataFits(Tally', cache'[d], pending[d], inbox[d], push[d])
  BY <1>1, <1>2, <1>4, DataFitsMore
<1> QED
  BY <1>5, CountsNext

(* A message is sent to d. *)
LEMMA CountsSent ==
  ASSUME TypeOK, TypeOK', CountersInv, CountersInv', NEW d \in Clients, CountsInv(d),
         \A n \in Names : Counted(n) <= Counted(n)', NEW m \in Message,
         m.kind = "users" => \A k \in KeysOf(m.users) : FitsIn(Tally, m.users[k]),
         m.kind # "users" => FitsIn(Tally, m.write.to),
         cache'[d] = cache[d], pending'[d] = pending[d], inbox'[d] = inbox[d],
         push'[d] = Append(push[d], m), LoginsFirst(d)'
  PROVE  CountsInv(d)'
<1>1. /\ Tally \in [Names -> Nat] /\ Tally' \in [Names -> Nat]
      /\ \A n \in Names : Tally[n] <= Tally'[n]
  BY TallyType, TallyNext
<1>2. /\ cache[d] \in Users_ \cup {Null} /\ pending[d] \in Seq(Write)
      /\ inbox[d] \in Seq(Snapshots) /\ push[d] \in Seq(Message)
  BY ClientTypes
<1>3. DataFits(Tally, cache[d], pending[d], inbox[d], push[d])
  BY CountsNow
<1>4. /\ push'[d] \in Seq(Message) /\ \A i \in DOMAIN push'[d] : i \in DOMAIN push[d] \/ push'[d][i] = m
      /\ \A i \in DOMAIN push[d] : push'[d][i] = push[d][i]
  <2>1. /\ push'[d] \in Seq(Message) /\ push'[d][Len(push[d]) + 1] = m
        /\ DOMAIN push'[d] = DOMAIN push[d] \cup {Len(push[d]) + 1}
        /\ \A i \in DOMAIN push[d] : push'[d][i] = push[d][i]
    BY <1>2, Appended DEF Extends
  <2> QED
    BY <2>1
<1>5. DataFits(Tally, cache'[d], pending'[d], inbox'[d], push'[d])
  BY <1>3, <1>4 DEF DataFits
<1>6. DataFits(Tally', cache'[d], pending'[d], inbox'[d], push'[d])
  BY <1>1, <1>2, <1>4, <1>5, DataFitsMore
<1> QED
  BY <1>6, CountsNext

(* Who is signed in has no login that waits, and logins come last. *)
LEMMA LoginsKept ==
  ASSUME NEW d \in Clients, LoginsFirst(d), signedIn'[d] => signedIn[d],
         \A op : WaitsAt(d, op)' = WaitsAt(d, op)
  PROVE  LoginsFirst(d)'
  BY DEF LoginsFirst

LEMMA LoginsAsk ==
  ASSUME TypeOK, NEW c \in Clients, Local(c), LoginsFirst(c), NEW op \in Op, AskStep(c, op),
         op = "login" => ~signedIn[c] /\ ~Waits(c, "login"),
         op = "count" => signedIn[c]
  PROVE  LoginsFirst(c)'
<1>1. /\ \A o : \A i : i \in WaitsAt(c, o)' <=> i \in WaitsAt(c, o) \/ (i = Waiting(c) + 1 /\ o = op)
      /\ Waiting(c) + 1 \in Nat
  BY QueueAsk
<1>2. signedIn' = signedIn
  BY DEF AskStep
<1>3. CASE op = "login"
  <2>1. WaitsAt(c, "login") = {} /\ ~signedIn[c]
    BY <1>3, WaitsMeans DEF Local
  <2>2. \A i : i \in WaitsAt(c, "login")' <=> i = Waiting(c) + 1
    BY <1>1, <1>3, <2>1
  <2>3. \A j \in WaitsAt(c, "count")' : j \in WaitsAt(c, "count")
    BY <1>1, <1>3
  <2>4. \A j \in WaitsAt(c, "count") : j < Waiting(c) + 1
    <3>1. \A j \in WaitsAt(c, "count") : j \in Nat /\ j <= Waiting(c)
      BY WaitsPlaces
    <3>2. Waiting(c) \in Nat
      BY WaitingType
    <3>3. \A j, v \in Nat : j <= v => j < v + 1
      OBVIOUS
    <3> QED
      BY <3>1, <3>2, <3>3
  <2> QED
    BY <1>2, <2>1, <2>2, <2>3, <2>4 DEF LoginsFirst
<1>4. CASE op # "login"
  <2>1. \A i : i \in WaitsAt(c, "login")' <=> i \in WaitsAt(c, "login")
    BY <1>1, <1>4
  <2>2. \A j \in WaitsAt(c, "count")' : \/ j \in WaitsAt(c, "count")
                                        \/ WaitsAt(c, "login") = {}
    BY <1>1 DEF LoginsFirst
  <2> QED
    BY <1>2, <2>1, <2>2 DEF LoginsFirst
<1> QED
  BY <1>3, <1>4

LEMMA LoginsRun ==
  ASSUME TypeOK, NEW c \in Clients, Local(c), LoginsFirst(c), NEW op, RunStep(c, op)
  PROVE  LoginsFirst(c)'
<1>1. /\ \A o : \A i : i \in WaitsAt(c, o)' <=> i \in Nat \ {0} /\ i + 1 \in WaitsAt(c, o)
      /\ \A o : 1 \in WaitsAt(c, o) <=> o = op
  BY QueueRun
<1>2. signedIn'[c] => signedIn[c] \/ op = "login"
  BY DEF RunStep
<1>3. ASSUME signedIn'[c], NEW i \in WaitsAt(c, "login")'
      PROVE  FALSE
  <2>1. i \in Nat \ {0} /\ i + 1 \in WaitsAt(c, "login")
    BY <1>1, <1>3
  <2>2. op = "login"
    BY <1>2, <1>3, <2>1 DEF LoginsFirst
  <2>3. 1 \in WaitsAt(c, "login")
    BY <1>1, <2>2
  <2>4. i + 1 = 1
    BY <2>1, <2>3 DEF LoginsFirst
  <2> QED
    BY <2>1, <2>4
<1>4. ASSUME NEW i \in WaitsAt(c, "login")', NEW j \in WaitsAt(c, "login")'
      PROVE  i = j
  <2>1. /\ i \in Nat /\ i + 1 \in WaitsAt(c, "login")
        /\ j \in Nat /\ j + 1 \in WaitsAt(c, "login")
    BY <1>1, <1>4
  <2>2. i + 1 = j + 1
    BY <2>1 DEF LoginsFirst
  <2> QED
    BY <2>1, <2>2
<1>5. ASSUME NEW i \in WaitsAt(c, "login")', NEW j \in WaitsAt(c, "count")'
      PROVE  j < i
  <2>1. /\ i \in Nat /\ i + 1 \in WaitsAt(c, "login")
        /\ j \in Nat /\ j + 1 \in WaitsAt(c, "count")
    BY <1>1, <1>5
  <2>2. j + 1 < i + 1
    BY <2>1 DEF LoginsFirst
  <2> QED
    BY <2>1, <2>2
<1> QED
  BY <1>3, <1>4, <1>5 DEF LoginsFirst

(* c asks: what it is shown at once is a copy under its own writes. *)
LEMMA CountsAsk ==
  ASSUME TypeOK, TypeOK', CountersInv, CountersInv', OneName,
         NEW c \in Clients, Local(c), CountsInv(c), NEW op \in Op, AskStep(c, op),
         \A n \in Names : Counted(n) <= Counted(n)', LoginsFirst(c)'
  PROVE  CountsInv(c)'
<1> USE DEF Local
<1>1. /\ Tally \in [Names -> Nat] /\ Tally' \in [Names -> Nat]
      /\ \A n \in Names : Tally[n] <= Tally'[n]
  BY TallyType, TallyNext
<1>2. /\ cache[c] \in Users_ \cup {Null} /\ pending[c] \in Seq(Write)
      /\ inbox'[c] \in Seq(Snapshots) /\ push[c] \in Seq(Message)
  BY ClientTypes DEF TypeOK, Snapshots
<1>3. DataFits(Tally, cache[c], pending[c], inbox[c], push[c])
  BY CountsNow
<1>4. cache' = cache /\ pending' = pending /\ push' = push
  BY DEF AskStep, sdkVars
<1>5. \A i \in DOMAIN inbox'[c] : \A k \in KeysOf(inbox'[c][i].users) : FitsIn(Tally, inbox'[c][i].users[k])
  <2>1. CASE inbox'[c] = <<>>
    BY <2>1
  <2>2. CASE /\ cache[c] # Null /\ inbox'[c] = <<Event(op, Seen(cache[c], pending[c]))>>
             /\ Grounded(cache[c], pending[c])
    <3>1. \A k \in KeysOf(Seen(cache[c], pending[c])) : FitsIn(Tally, Seen(cache[c], pending[c])[k])
      <4>1. cache[c] \in Users_
        BY <1>2, <2>2
      <4>2. \A k \in KeysOf(cache[c]) : users[k] # Null /\ cache[c][k].Username = users[k].Username
        BY <2>2, CopyNames
      <4>3. /\ \A k \in KeysOf(cache[c]) : FitsIn(Tally, cache[c][k])
            /\ \A i \in DOMAIN pending[c] : FitsIn(Tally, pending[c][i].to)
        BY <1>3, <2>2 DEF DataFits
      <4> QED
        BY <1>1, <2>2, <4>1, <4>2, <4>3, SnapshotFits
    <3>2. \A i \in DOMAIN inbox'[c] : inbox'[c][i] = Event(op, Seen(cache[c], pending[c]))
      BY <2>2
    <3> QED
      BY <3>1, <3>2 DEF Event
  <2> QED
    BY <2>1, <2>2, Asked
<1>6. DataFits(Tally, cache'[c], pending'[c], inbox'[c], push'[c])
  BY <1>3, <1>4, <1>5 DEF DataFits
<1>7. DataFits(Tally', cache'[c], pending'[c], inbox'[c], push'[c])
  BY <1>1, <1>2, <1>4, <1>6, DataFitsMore
<1> QED
  BY <1>7, CountsNext

(* A handler of c runs: what it counts was counted. *)
LEMMA CountsRun ==
  ASSUME TypeOK, TypeOK', CountersInv, NEW c \in Clients, Local(c), CountsInv(c),
         NEW op, RunStep(c, op)
  PROVE  CountsInv(c)'
<1>0. /\ CountersInv'
      /\ \A n \in Names : n = name[c] /\ op = "count" => Counted(n)' = Counted(n) + 1
      /\ \A n \in Names : ~(n = name[c] /\ op = "count") => Counted(n)' = Counted(n)
  BY CountersRun
<1>1. /\ Tally \in [Names -> Nat] /\ Tally' \in [Names -> Nat]
      /\ \A n \in Names : n = name[c] /\ op = "count" => Tally'[n] = Tally[n] + 1
      /\ \A n \in Names : ~(n = name[c] /\ op = "count") => Tally'[n] = Tally[n]
  BY <1>0, TallyType, TallyNext
<1>2. \A n \in Names : Tally[n] <= Tally'[n]
  <2>1. \A x \in Nat : x <= x /\ x <= x + 1
    OBVIOUS
  <2> QED
    BY <1>1, <2>1
<1>3. DataFits(Tally, cache[c], pending[c], inbox[c], push[c])
  BY CountsNow
<1>4. /\ cache[c] \in Users_ \cup {Null} /\ pending[c] \in Seq(Write)
      /\ inbox[c] \in Seq(Snapshots) /\ push[c] \in Seq(Message)
  BY ClientTypes
<1>5. DataFits(Tally', cache[c], pending[c], inbox[c], push[c])
  BY <1>1, <1>2, <1>3, <1>4, DataFitsMore
<1>6. /\ cache'[c] \in {cache[c], Null} /\ push' = push
      /\ Behind(inbox[c], inbox'[c]) /\ 1 \in DOMAIN inbox[c]
      /\ Snapshot(c) = inbox[c][1].users /\ Snapshot(c) \in Users_
  BY RunFacts DEF RunStep, RunEvent
<1>7. ASSUME NEW i \in Added(c)
      PROVE  FitsIn(Tally', pending'[c][i].to)
  <2> DEFINE w == pending'[c][i]
  <2>1. NewWrite(c, op, w)
    BY AddedWrite
  <2>2. w \in Write /\ w.to \in Account
    BY <2>1, WriteFields DEF NewWrite
  <2>3. w.to.Username \in Names
    BY <2>2, AccountFields
  <2>4. CASE Creation(w)
    <3>1. w.to.ItemsAuctioned = 0
      BY <2>1, <2>4 DEF NewWrite
    <3>2. \A x \in Nat : 0 <= x
      OBVIOUS
    <3> QED
      BY <1>1, <2>3, <3>1, <3>2 DEF FitsIn
  <2>5. CASE ~Creation(w)
    <3> DEFINE a == Snapshot(c)[w.key]
    <3>1. /\ w.key \in KeysOf(Snapshot(c)) /\ w.to.Username = a.Username /\ w.to.Username = name[c]
          /\ op = "count" => w.to.ItemsAuctioned = a.ItemsAuctioned + 1
          /\ op # "count" => w.to.ItemsAuctioned = a.ItemsAuctioned
      BY <2>1, <2>5 DEF NewWrite
    <3>2. FitsIn(Tally, a) /\ a \in Account
      BY <1>3, <1>6, <3>1, CopyAccounts DEF DataFits
    <3>3. a.ItemsAuctioned \in Nat /\ Tally[a.Username] \in Nat /\ a.ItemsAuctioned <= Tally[a.Username]
      BY <1>1, <3>2, AccountFields DEF FitsIn
    <3>4. CASE op = "count"
      <4>1. Tally'[w.to.Username] = Tally[a.Username] + 1
        BY <1>1, <2>3, <3>1, <3>4
      <4>2. \A x, y \in Nat : x <= y => x + 1 <= y + 1
        OBVIOUS
      <4> QED
        BY <3>1, <3>3, <3>4, <4>1, <4>2 DEF FitsIn
    <3>5. CASE op # "count"
      <4>1. Tally'[w.to.Username] = Tally[a.Username]
        BY <1>1, <2>3, <3>1, <3>5
      <4> QED
        BY <3>1, <3>3, <3>5, <4>1 DEF FitsIn
    <3> QED
      BY <3>4, <3>5
  <2> QED
    BY <2>4, <2>5
<1>8. \A i \in DOMAIN pending'[c] : FitsIn(Tally', pending'[c][i].to)
  BY <1>5, <1>7, KeptWrite DEF DataFits
<1>9. \A i \in DOMAIN inbox'[c] : \A k \in KeysOf(inbox'[c][i].users) : FitsIn(Tally', inbox'[c][i].users[k])
  <2>1. \A i \in DOMAIN inbox'[c] : i + 1 \in DOMAIN inbox[c] /\ inbox'[c][i] = inbox[c][i + 1]
    BY <1>6 DEF Behind
  <2> QED
    BY <1>5, <2>1 DEF DataFits
<1>10. DataFits(Tally', cache'[c], pending'[c], inbox'[c], push'[c])
  BY <1>5, <1>6, <1>8, <1>9 DEF DataFits
<1>11. LoginsFirst(c)'
  BY CountsNow, LoginsRun
<1> QED
  BY <1>10, <1>11, CountsNext

UsersFit == \A k \in KeysOf(users) : Fits(users[k])

LEMMA UsersFitNow ==
  ASSUME TypeOK
  PROVE  UsersFit <=> \A k \in KeysOf(users) : FitsIn(Tally, users[k])
<1>1. \A k \in KeysOf(users) : Fits(users[k]) <=> FitsIn(Tally, users[k])
  BY CopyAccounts, FitsNow DEF TypeOK
<1> QED
  BY <1>1 DEF UsersFit

LEMMA UsersFitNext ==
  ASSUME TypeOK', \A k \in KeysOf(users') : FitsIn(Tally', users'[k])
  PROVE  UsersFit'
<1>1. users' \in Users_
  BY DEF TypeOK
<1>2. \A k \in KeysOf(users') : users'[k] \in Account
  BY <1>1, CopyAccounts
<1>3. \A k \in KeysOf(users') : Fits(users[k])'
  BY <1>2, FitsNext
<1> QED
  BY <1>3 DEF UsersFit, KeysOf

LEMMA UsersFitKept ==
  ASSUME TypeOK, TypeOK', CountersInv, CountersInv', UsersFit, users' = users,
         \A n \in Names : Counted(n) <= Counted(n)'
  PROVE  UsersFit'
<1>1. /\ Tally \in [Names -> Nat] /\ Tally' \in [Names -> Nat]
      /\ \A n \in Names : Tally[n] <= Tally'[n]
  BY TallyType, TallyNext
<1>2. \A k \in KeysOf(users) : users[k] \in Account /\ FitsIn(Tally, users[k])
  BY UsersFitNow, CopyAccounts DEF TypeOK
<1>3. \A k \in KeysOf(users) : FitsIn(Tally', users[k])
  BY <1>1, <1>2, FitsMore
<1> QED
  BY <1>3, UsersFitNext

(* The server takes a write of c; d may be told. *)
LEMMA CountsTake ==
  ASSUME TypeOK, TypeOK', CountersInv, CountersInv', OneName, UsersFit,
         NEW c \in Clients, Local(c), CountsInv(c), NEW w, TakeStep(c, w),
         \A n \in Names : Counted(n)' = Counted(n)
  PROVE  /\ UsersFit'
         /\ \A d \in Clients : CountsInv(d) => CountsInv(d)'
<1> USE DEF Local
<1>1. /\ Tally \in [Names -> Nat] /\ Tally' \in [Names -> Nat]
      /\ \A n \in Names : Tally[n] = Tally'[n]
  BY TallyType, TallyNext
<1>2. /\ w \in Write /\ taken[c] + 1 \in DOMAIN pending[c] /\ w = pending[c][taken[c] + 1]
      /\ users'[w.key] # Null /\ KeysOf(users') = KeysOf(users) \cup {w.key}
      /\ \A k \in Keys : k # w.key => users'[k] = users[k]
      /\ \A ch \in Children : /\ ch \in w.sets => users'[w.key][ch] = w.to[ch]
                              /\ ch \notin w.sets => users'[w.key][ch] = users[w.key][ch]
      /\ Creation(w) \/ users[w.key] # Null
      /\ UNCHANGED <<cache, pending, connected, listening, asked, inbox, appVars, left>>
  BY DEF TakeStep, KeysOf
<1>3. FitsIn(Tally, w.to)
  BY <1>2, CountsNow DEF DataFits
<1>4. \A k \in KeysOf(users) : FitsIn(Tally, users[k])
  BY UsersFitNow
<1>5. \A k \in KeysOf(users') : FitsIn(Tally, users'[k])
  <2>1. CASE "ItemsAuctioned" \in w.sets
    <3>1. users'[w.key]["ItemsAuctioned"] = w.to["ItemsAuctioned"]
      BY <1>2, <2>1 DEF Children
    <3>2. users'[w.key].Username = w.to.Username
      BY TakeUsers
    <3>3. FitsIn(Tally, users'[w.key])
      BY <1>3, <3>1, <3>2 DEF FitsIn
    <3> QED
      BY <1>2, <1>4, <3>3 DEF KeysOf
  <2>2. CASE "ItemsAuctioned" \notin w.sets
    <3>1. users'[w.key]["ItemsAuctioned"] = users[w.key]["ItemsAuctioned"]
      BY <1>2, <2>2 DEF Children
    <3>2. users[w.key] # Null
      BY <1>2, <2>2 DEF Creation, Children
    <3>3. users'[w.key].Username = users[w.key].Username
      BY <3>2, TakeUsers
    <3>4. FitsIn(Tally, users'[w.key])
      <4>1. w.key \in KeysOf(users)
        BY <3>2, TakeUsers DEF KeysOf
      <4> QED
        BY <1>4, <3>1, <3>3, <4>1 DEF FitsIn
    <3> QED
      BY <1>2, <1>4, <3>4 DEF KeysOf
  <2> QED
    BY <2>1, <2>2
<1>6. UsersFit'
  <2>1. \A k \in KeysOf(users') : users'[k] \in Account
    BY CopyAccounts DEF TypeOK
  <2>2. \A n \in Names : Tally[n] <= Tally'[n]
    <3>1. \A x \in Nat : x <= x
      OBVIOUS
    <3> QED
      BY <1>1, <3>1
  <2> QED
    BY <1>1, <1>5, <2>1, <2>2, FitsMore, UsersFitNext
<1>7. ASSUME NEW d \in Clients, CountsInv(d)
      PROVE  CountsInv(d)'
  <2>1. LoginsFirst(d)'
    <3>1. \A op : WaitsAt(d, op)' = WaitsAt(d, op)
      BY <1>2, QueueSame
    <3> QED
      BY <1>2, <1>7, <3>1, CountsNow, LoginsKept DEF appVars
  <2>2. \A n \in Names : Counted(n) <= Counted(n)'
    BY CountedType
  <2>3. PICK m \in Message : /\ m.kind = "write" /\ m.write = w
                             /\ \/ push'[d] = Append(push[d], m)
                                \/ push'[d] = push[d]
    <3>1. PICK m \in Message :
            /\ m.kind = "write" /\ m.write = w /\ push'[c] = Append(push[c], m)
            /\ \A e \in Clients \ {c} : push'[e] = Append(push[e], m) \/ push'[e] = push[e]
      BY DEF TakeStep
    <3> QED
      BY <3>1
  <2>4. CASE push'[d] = push[d]
    BY <1>2, <1>7, <2>1, <2>2, <2>4, CountsSame
  <2>5. CASE push'[d] = Append(push[d], m)
    BY <1>2, <1>3, <1>7, <2>1, <2>2, <2>3, <2>5, CountsSent
  <2> QED
    BY <2>3, <2>4, <2>5
<1> QED
  BY <1>6, <1>7

LEMMA CountsListen ==
  ASSUME TypeOK, TypeOK', CountersInv, CountersInv', UsersFit,
         NEW c \in Clients, CountsInv(c), ServerListen(c),
         \A n \in Names : Counted(n)' = Counted(n)
  PROVE  CountsInv(c)'
<1>1. UNCHANGED <<users, cache, pending, taken, connected, asked, inbox, appVars, left>>
  BY DEF ServerListen
<1>2. PICK m \in Message : m.kind = "users" /\ m.users = users /\ push'[c] = Append(push[c], m)
  BY DEF ServerListen, TypeOK, Message
<1>3. LoginsFirst(c)'
  <2>1. \A op : WaitsAt(c, op)' = WaitsAt(c, op)
    BY <1>1, QueueSame
  <2> QED
    BY <1>1, <2>1, CountsNow, LoginsKept DEF appVars
<1>4. \A n \in Names : Counted(n) <= Counted(n)'
  BY CountedType
<1>5. \A k \in KeysOf(m.users) : FitsIn(Tally, m.users[k])
  BY <1>2, UsersFitNow
<1> QED
  BY <1>1, <1>2, <1>3, <1>4, <1>5, CountsSent

LEMMA CountsDisconnect ==
  ASSUME TypeOK, TypeOK', CountersInv, CountersInv', NEW c \in Clients, CountsInv(c), Disconnect(c),
         \A n \in Names : Counted(n)' = Counted(n)
  PROVE  CountsInv(c)'
<1>1. /\ pending' = pending /\ push'[c] = <<>>
      /\ UNCHANGED <<users, cache, asked, inbox, appVars>>
  BY DEF Disconnect, PendingAfterLoss, TypeOK
<1>2. LoginsFirst(c)'
  <2>1. \A op : WaitsAt(c, op)' = WaitsAt(c, op)
    BY <1>1, QueueSame
  <2> QED
    BY <1>1, <2>1, CountsNow, LoginsKept DEF appVars
<1>3. DataFits(Tally, cache'[c], pending'[c], inbox'[c], push'[c])
  BY <1>1, CountsNow DEF DataFits
<1>4. /\ Tally \in [Names -> Nat] /\ Tally' \in [Names -> Nat]
      /\ \A n \in Names : Tally[n] <= Tally'[n]
  <2>1. \A n \in Names : Counted(n) <= Counted(n)'
    BY CountedType
  <2> QED
    BY <2>1, TallyType, TallyNext
<1>5. /\ cache'[c] \in Users_ \cup {Null} /\ pending'[c] \in Seq(Write)
      /\ inbox'[c] \in Seq(Snapshots) /\ push'[c] \in Seq(Message)
  BY DEF TypeOK, Snapshots
<1>6. DataFits(Tally', cache'[c], pending'[c], inbox'[c], push'[c])
  BY <1>3, <1>4, <1>5, DataFitsMore
<1> QED
  BY <1>2, <1>6, CountsNext

LEMMA CountsUsers ==
  ASSUME TypeOK, TypeOK', CountersInv, CountersInv', OneName,
         NEW c \in Clients, Local(c), CountsInv(c), NEW us, UsersStep(c, us),
         \A n \in Names : Counted(n)' = Counted(n)
  PROVE  CountsInv(c)'
<1> USE DEF Local
<1>1. /\ Tally \in [Names -> Nat] /\ Tally' \in [Names -> Nat]
      /\ \A n \in Names : Tally[n] <= Tally'[n]
  <2>1. \A n \in Names : Counted(n) <= Counted(n)'
    BY CountedType
  <2> QED
    BY <2>1, TallyType, TallyNext
<1>2. DataFits(Tally, cache[c], pending[c], inbox[c], push[c])
  BY CountsNow
<1>3. /\ 1 \in DOMAIN push[c] /\ push[c][1].kind = "users" /\ us = push[c][1].users /\ us \in Users_
      /\ Behind(push[c], push'[c])
      /\ UNCHANGED <<users, pending, taken, connected, listening, appVars, left>>
  BY DEF UsersStep
<1>4. \A k \in KeysOf(us) : FitsIn(Tally, us[k])
  BY <1>2, <1>3 DEF DataFits
<1>5. cache'[c] # Null => \A k \in KeysOf(cache'[c]) : FitsIn(Tally, cache'[c][k])
  BY <1>4 DEF UsersStep
<1>6. \A i \in DOMAIN inbox'[c] : \A k \in KeysOf(inbox'[c][i].users) : FitsIn(Tally, inbox'[c][i].users[k])
  <2>1. CASE inbox'[c] = inbox[c]
    BY <1>2, <2>1 DEF DataFits
  <2>2. CASE /\ Grounded(us, pending[c])
             /\ \A i \in DOMAIN inbox'[c] :
                  i \in DOMAIN asked[c] /\ inbox'[c][i] = Event(asked[c][i], Seen(us, pending[c]))
    <3>1. \A k \in KeysOf(us) : users[k] # Null /\ us[k].Username = users[k].Username
      <4>1. \A k \in KeysOf(us) : k \in KeysOf(users)
        BY <1>3 DEF PresenceInv, Has
      <4>2. \A k \in KeysOf(us) : us[k].Username = users[k].Username
        BY <1>3 DEF NamesInv
      <4> QED
        BY <4>1, <4>2 DEF KeysOf
    <3>2. \A i \in DOMAIN pending[c] : FitsIn(Tally, pending[c][i].to)
      BY <1>2 DEF DataFits
    <3>3. \A k \in KeysOf(Seen(us, pending[c])) : FitsIn(Tally, Seen(us, pending[c])[k])
      BY <1>1, <1>3, <1>4, <2>2, <3>1, <3>2, SnapshotFits
    <3>5. \A o, u : Event(o, u).users = u
      BY DEF Event
    <3>4. \A i \in DOMAIN inbox'[c] : inbox'[c][i].users = Seen(us, pending[c])
      BY ONLY <2>2, <3>5
    <3> QED
      BY <3>3, <3>4
  <2> QED
    BY <2>1, <2>2 DEF UsersStep
<1>7. DataFits(Tally, cache'[c], pending'[c], inbox'[c], push'[c])
  <2>1. \A i \in DOMAIN push'[c] : i + 1 \in DOMAIN push[c] /\ push'[c][i] = push[c][i + 1]
    BY <1>3 DEF Behind
  <2> QED
    BY <1>2, <1>3, <1>5, <1>6, <2>1 DEF DataFits
<1>8. /\ cache'[c] \in Users_ \cup {Null} /\ pending'[c] \in Seq(Write)
      /\ inbox'[c] \in Seq(Snapshots) /\ push'[c] \in Seq(Message)
  BY DEF TypeOK, Snapshots
<1>9. DataFits(Tally', cache'[c], pending'[c], inbox'[c], push'[c])
  BY <1>1, <1>7, <1>8, DataFitsMore
<1>10. LoginsFirst(c)'
  BY <1>3, CountsNow, LoginsKept, QueueUsers DEF appVars
<1> QED
  BY <1>9, <1>10, CountsNext

LEMMA CountsWrite ==
  ASSUME TypeOK, TypeOK', CountersInv, CountersInv', OneName,
         NEW c \in Clients, Local(c), Local(c)', CountsInv(c), NEW w, WriteStep(c, w),
         \A n \in Names : Counted(n)' = Counted(n)
  PROVE  CountsInv(c)'
<1> USE DEF Local
<1>1. /\ Tally \in [Names -> Nat] /\ Tally' \in [Names -> Nat]
      /\ \A n \in Names : Tally[n] <= Tally'[n]
  <2>1. \A n \in Names : Counted(n) <= Counted(n)'
    BY CountedType
  <2> QED
    BY <2>1, TallyType, TallyNext
<1>2. DataFits(Tally, cache[c], pending[c], inbox[c], push[c])
  BY CountsNow
<1>3. /\ 1 \in DOMAIN push[c] /\ push[c][1].kind = "write" /\ w = push[c][1].write /\ w \in Write
      /\ Behind(push[c], push'[c])
      /\ UNCHANGED <<users, connected, listening, asked, inbox, appVars, left>>
      /\ cache[c] = Null <=> cache'[c] = Null
      /\ cache[c] # Null =>
           /\ KeysOf(cache'[c]) = KeysOf(cache[c]) \cup {w.key}
           /\ \A k \in Keys : k # w.key => cache'[c][k] = cache[c][k]
           /\ \A ch \in Children : /\ ch \in w.sets => cache'[c][w.key][ch] = w.to[ch]
                                   /\ ch \notin w.sets => cache'[c][w.key][ch] = cache[c][w.key][ch]
           /\ Creation(w) \/ Cached(c, w.key)
  BY DEF WriteStep
<1>4. FitsIn(Tally, w.to)
  <2>1. push[c][1].kind # "users"
    BY <1>3
  <2> QED
    BY <1>2, <1>3, <2>1 DEF DataFits
<1>5. ASSUME cache'[c] # Null, NEW k \in KeysOf(cache'[c])
      PROVE  FitsIn(Tally, cache'[c][k])
  <2>1. cache[c] # Null
    BY <1>3, <1>5
  <2>2. \A j \in KeysOf(cache[c]) : FitsIn(Tally, cache[c][j])
    BY <1>2, <2>1 DEF DataFits
  <2>3. CASE k # w.key
    BY <1>3, <1>5, <2>1, <2>2, <2>3 DEF KeysOf
  <2>4. CASE k = w.key
    <3>1. cache'[c][k].Username = users[k].Username
      <4>1. \A j \in KeysOf(cache'[c]) : cache'[c][j].Username = users'[j].Username
        BY <1>5 DEF NamesInv, KeysOf
      <4> QED
        BY <1>3, <1>5, <4>1
    <3>2. w.to.Username = users[w.key].Username
      BY <1>3 DEF NamesInv
    <3>3. CASE "ItemsAuctioned" \in w.sets
      <4>1. cache'[c][w.key]["ItemsAuctioned"] = w.to["ItemsAuctioned"]
        BY <1>3, <2>1, <3>3 DEF Children
      <4> QED
        BY <1>4, <2>4, <3>1, <3>2, <4>1 DEF FitsIn
    <3>4. CASE "ItemsAuctioned" \notin w.sets
      <4>1. cache'[c][w.key]["ItemsAuctioned"] = cache[c][w.key]["ItemsAuctioned"]
        BY <1>3, <2>1, <3>4 DEF Children
      <4>2. ~Creation(w)
        BY <3>4 DEF Creation, Children
      <4>3. w.key \in KeysOf(cache[c])
        BY <1>3, <2>1, <4>2, WriteFields DEF Cached, KeysOf
      <4>4. cache[c][w.key].Username = users[w.key].Username
        BY <2>1, <4>3 DEF NamesInv
      <4> QED
        BY <2>2, <2>4, <3>1, <4>1, <4>3, <4>4 DEF FitsIn
    <3> QED
      BY <3>3, <3>4
  <2> QED
    BY <2>3, <2>4
<1>6. \A i \in DOMAIN pending'[c] : FitsIn(Tally, pending'[c][i].to)
  <2>1. CASE pending'[c] = pending[c]
    BY <1>2, <2>1 DEF DataFits
  <2>2. CASE Behind(pending[c], pending'[c])
    <3>1. \A i \in DOMAIN pending'[c] : i + 1 \in DOMAIN pending[c] /\ pending'[c][i] = pending[c][i + 1]
      BY <2>2 DEF Behind
    <3> QED
      BY <1>2, <3>1 DEF DataFits
  <2> QED
    BY <2>1, <2>2 DEF WriteStep
<1>7. DataFits(Tally, cache'[c], pending'[c], inbox'[c], push'[c])
  <2>1. \A i \in DOMAIN push'[c] : i + 1 \in DOMAIN push[c] /\ push'[c][i] = push[c][i + 1]
    BY <1>3 DEF Behind
  <2> QED
    BY <1>2, <1>3, <1>5, <1>6, <2>1 DEF DataFits
<1>8. /\ cache'[c] \in Users_ \cup {Null} /\ pending'[c] \in Seq(Write)
      /\ inbox'[c] \in Seq(Snapshots) /\ push'[c] \in Seq(Message)
  BY DEF TypeOK, Snapshots
<1>9. DataFits(Tally', cache'[c], pending'[c], inbox'[c], push'[c])
  BY <1>1, <1>7, <1>8, DataFitsMore
<1>10. LoginsFirst(c)'
  <2>1. \A op : WaitsAt(c, op)' = WaitsAt(c, op)
    BY <1>3, QueueSame
  <2> QED
    BY <1>3, <2>1, CountsNow, LoginsKept DEF appVars
<1> QED
  BY <1>9, <1>10, CountsNext

-----------------------------------------------------------------------------
(***************************************************************************)
(* One sign-up at a time                                                   *)
(***************************************************************************)
LEMMA CreatesMeans ==
  ASSUME NEW d \in Clients
  PROVE  /\ Creates(d) <=> \E i \in DOMAIN pending[d] : Creation(pending[d][i])
         /\ Creates(d)' <=> \E i \in DOMAIN pending'[d] : Creation(pending'[d][i])
  BY DEF Creates, Creation, ToSet

LEMMA CreatedNext ==
  ASSUME NEW d \in Clients, NEW k
  PROVE  Created(d, k)' <=> \E i \in DOMAIN pending'[d] : Creation(pending'[d][i]) /\ pending'[d][i].key = k
  BY DEF Created, Creation

LEMMA NameNext ==
  ASSUME NEW d \in Clients, NEW k, NEW n
  PROVE  NameAt(d, k, n)' <=>
           \/ users'[k] # Null /\ users'[k].Username = n
           \/ \E i \in DOMAIN pending'[d] :
                Creation(pending'[d][i]) /\ pending'[d][i].key = k /\ pending'[d][i].to.Username = n
  BY DEF NameAt, Creation

LEMMA MetNow ==
  ASSUME MetInv, ~met
  PROVE  /\ \A c, d \in Clients : \A i \in WaitsAt(c, "signUp"), j \in WaitsAt(d, "signUp") :
              c = d /\ i = j
         /\ \A c, d \in Clients : WaitsAt(c, "signUp") # {} /\ c # d => ~Creates(d)
         /\ \A c, d \in Clients : \A j, k \in Keys, n \in Names :
              NameAt(c, j, n) /\ NameAt(d, k, n) => j = k
         /\ \A c \in Clients : Fresh(c)
  BY DEF MetInv

LEMMA MetNext ==
  ASSUME MetInv,
         ~met' =>
           /\ ~met
           /\ \A c, d \in Clients : \A i \in WaitsAt(c, "signUp")', j \in WaitsAt(d, "signUp")' :
                c = d /\ i = j
           /\ \A c, d \in Clients : WaitsAt(c, "signUp")' # {} /\ c # d => ~Creates(d)'
           /\ \A d \in Clients, k \in Keys, n \in Names :
                NameAt(d, k, n)' => \E e \in Clients : NameAt(e, k, n)
           /\ \A c \in Clients : Fresh(c)'
  PROVE  MetInv'
<1> SUFFICES ASSUME ~met', NEW c \in Clients, NEW d \in Clients
             PROVE  /\ \A i \in WaitsAt(c, "signUp")', j \in WaitsAt(d, "signUp")' : c = d /\ i = j
                    /\ WaitsAt(c, "signUp")' # {} /\ c # d => ~Creates(d)'
                    /\ \A j, k \in Keys, n \in Names : NameAt(c, j, n)' /\ NameAt(d, k, n)' => j = k
                    /\ Fresh(c)'
  BY DEF MetInv
<1>1. \A e, f \in Clients : \A j, k \in Keys, n \in Names :
        NameAt(e, j, n) /\ NameAt(f, k, n) => j = k
  BY MetNow
<1>2. \A j, k \in Keys, n \in Names : NameAt(c, j, n)' /\ NameAt(d, k, n)' => j = k
  BY <1>1
<1> QED
  BY <1>2

LEMMA FreshSame ==
  ASSUME NEW d \in Clients, Fresh(d), users' = users, pending'[d] = pending[d],
         inbox'[d] = inbox[d], asked'[d] = asked[d], push'[d] = push[d] \/ push'[d] = <<>>
  PROVE  Fresh(d)'
<1>1. \A k : Created(d, k)' <=> Created(d, k)
  BY CreatedNext DEF Created
<1>2. \A i \in DOMAIN inbox'[d] : inbox'[d][i].op = "signUp" =>
        \A k \in Keys : users'[k] # Null \/ Created(d, k)' => inbox'[d][i].users[k] # Null
  BY <1>1 DEF Fresh
<1>3. "signUp" \in ToSet(asked'[d]) =>
        \A p \in DOMAIN push'[d] : push'[d][p].kind = "users" =>
          \A k \in KeysOf(users') : push'[d][p].users[k] # Null \/ Created(d, k)'
  <2>1. CASE push'[d] = <<>>
    BY <2>1
  <2>2. CASE push'[d] = push[d]
    BY <1>1, <2>2 DEF Fresh
  <2> QED
    BY <2>1, <2>2
<1> QED
  BY <1>2, <1>3 DEF Fresh, KeysOf

LEMMA NameFewer ==
  ASSUME NEW d \in Clients, users' = users,
         \A i \in DOMAIN pending'[d] : \E j \in DOMAIN pending[d] : pending'[d][i] = pending[d][j]
  PROVE  /\ \A k, n : NameAt(d, k, n)' => NameAt(d, k, n)
         /\ Creates(d)' => Creates(d)
         /\ \A k : Created(d, k)' => Created(d, k)
<1>1. \A k, n : NameAt(d, k, n)' => NameAt(d, k, n)
  BY NameNext DEF NameAt
<1>2. Creates(d)' => Creates(d)
  BY CreatesMeans
<1>3. \A k : Created(d, k)' => Created(d, k)
  BY CreatedNext DEF Created
<1> QED
  BY <1>1, <1>2, <1>3

(* Steps that neither sign up nor write. *)
LEMMA MetSame ==
  ASSUME MetInv, met' = met, users' = users, pending' = pending,
         \A d \in Clients : WaitsAt(d, "signUp")' = WaitsAt(d, "signUp"),
         ~met => \A d \in Clients : Fresh(d) => Fresh(d)'
  PROVE  MetInv'
<1>1. \A d \in Clients : /\ \A k, n : NameAt(d, k, n)' => NameAt(d, k, n)
                         /\ Creates(d)' => Creates(d)
  BY NameFewer
<1>2. ASSUME ~met'
      PROVE  /\ ~met
             /\ \A c, d \in Clients : \A i \in WaitsAt(c, "signUp")', j \in WaitsAt(d, "signUp")' :
                  c = d /\ i = j
             /\ \A c, d \in Clients : WaitsAt(c, "signUp")' # {} /\ c # d => ~Creates(d)'
             /\ \A d \in Clients, k \in Keys, n \in Names :
                  NameAt(d, k, n)' => \E e \in Clients : NameAt(e, k, n)
             /\ \A c \in Clients : Fresh(c)'
  BY <1>1, <1>2, MetNow
<1> QED
  BY <1>2, MetNext

LEMMA MetAsk ==
  ASSUME TypeOK, MetInv, NEW c \in Clients, Local(c), NEW op \in Op, AskStep(c, op),
         op # "signUp", met' = met
  PROVE  MetInv'
<1>1. /\ users' = users /\ pending' = pending /\ push' = push
  BY DEF AskStep, sdkVars
<1>2. /\ \A d \in Clients \ {c} : inbox'[d] = inbox[d] /\ asked'[d] = asked[d]
      /\ \/ /\ inbox'[c] = <<>> /\ asked'[c] = Append(asked[c], op)
         \/ /\ asked[c] = <<>> /\ asked'[c] = <<>>
            /\ inbox'[c] = <<Event(op, Seen(cache[c], pending[c]))>>
      /\ inbox[c] = <<>>
  BY Asked DEF Local
<1>3. \A d \in Clients : WaitsAt(d, "signUp")' = WaitsAt(d, "signUp")
  <2>1. \A i : i \in WaitsAt(c, "signUp")' <=> i \in WaitsAt(c, "signUp")
    BY QueueAsk
  <2>2. WaitsAt(c, "signUp")' = WaitsAt(c, "signUp")
    BY <2>1 DEF WaitsAt
  <2> QED
    BY <1>2, <2>2, QueueSame
<1>4. ASSUME Fresh(c)
      PROVE  Fresh(c)'
  <2>1. \A k : Created(c, k)' <=> Created(c, k)
    BY <1>1, CreatedNext DEF Created
  <2>2. \A i \in DOMAIN inbox'[c] : inbox'[c][i].op # "signUp"
    <3>1. \A o, u : Event(o, u).op = o
      BY DEF Event
    <3>2. CASE inbox'[c] = <<>>
      BY <3>2
    <3>3. CASE inbox'[c] = <<Event(op, Seen(cache[c], pending[c]))>>
      BY <3>1, <3>3
    <3> QED
      BY <1>2, <3>2, <3>3
  <2>3. "signUp" \in ToSet(asked'[c]) => "signUp" \in ToSet(asked[c])
    <3>1. CASE asked'[c] = <<>>
      BY <3>1 DEF ToSet
    <3>2. CASE asked'[c] = Append(asked[c], op)
      <4>1. asked[c] \in Seq(Op)
        BY ClientTypes
      <4>2. /\ asked'[c][Len(asked[c]) + 1] = op
            /\ DOMAIN asked'[c] = DOMAIN asked[c] \cup {Len(asked[c]) + 1}
            /\ \A i \in DOMAIN asked[c] : asked'[c][i] = asked[c][i]
        BY <3>2, <4>1, Appended DEF Extends
      <4> QED
        BY <4>2 DEF ToSet
    <3> QED
      BY <1>2, <3>1, <3>2
  <2> QED
    BY <1>1, <1>4, <2>1, <2>2, <2>3 DEF Fresh, KeysOf
<1>5. \A d \in Clients : Fresh(d) => Fresh(d)'
  BY <1>1, <1>2, <1>4, FreshSame
<1> QED
  BY <1>1, <1>3, <1>5, MetSame

(* A sign-up that meets nothing asks the server, and is the only one. *)
LEMMA MetSignUp ==
  ASSUME TypeOK, MetInv, NEW c \in Clients, Local(c), SignUp(c),
         \A d \in Clients : AnswersInv(d)
  PROVE  MetInv'
<1>1. AskStep(c, "signUp") /\ "signUp" \in Op
  BY DEF SignUp, AskStep, Op
<1>2. users' = users /\ pending' = pending /\ push' = push
  BY <1>1 DEF AskStep, sdkVars
<1> SUFFICES ASSUME ~met'
             PROVE  /\ ~met
                    /\ \A d, e \in Clients : \A i \in WaitsAt(d, "signUp")', j \in WaitsAt(e, "signUp")' :
                         d = e /\ i = j
                    /\ \A d, e \in Clients : WaitsAt(d, "signUp")' # {} /\ d # e => ~Creates(e)'
                    /\ \A d \in Clients, k \in Keys, n \in Names :
                         NameAt(d, k, n)' => \E e \in Clients : NameAt(e, k, n)
                    /\ \A d \in Clients : Fresh(d)'
  BY MetNext
<1>3. /\ ~met /\ ~Observed(c) /\ \A m \in ToSet(push[c]) : m.kind # "users"
      /\ \A d \in Clients : ~Waits(d, "signUp") /\ (d # c => ~Creates(d))
  BY DEF SignUp
<1>4. \A d \in Clients : WaitsAt(d, "signUp") = {}
  BY <1>3, WaitsMeans
<1>5. /\ \A d \in Clients \ {c} : inbox'[d] = inbox[d] /\ asked'[d] = asked[d]
      /\ inbox'[c] = <<>>
  <2>1. cache[c] = Null
    BY <1>3, ClientTypes
  <2> QED
    BY <1>1, <2>1, Asked DEF Local
<1>6. \A d \in Clients \ {c} : WaitsAt(d, "signUp")' = {}
  BY <1>4, <1>5, QueueSame
<1>7. \A i : i \in WaitsAt(c, "signUp")' => i = Waiting(c) + 1
  BY <1>1, <1>4, QueueAsk
<1>8. \A d \in Clients : /\ \A k, n : NameAt(d, k, n)' => NameAt(d, k, n)
                         /\ Creates(d)' => Creates(d)
  BY <1>2, NameFewer
<1>9. \A d \in Clients \ {c} : Fresh(d)'
  BY <1>2, <1>3, <1>5, MetNow, FreshSame
<1>10. Fresh(c)'
  <2>1. \A p \in DOMAIN push'[c] : push'[c][p].kind # "users"
    BY <1>2, <1>3 DEF ToSet
  <2> QED
    BY <1>5, <2>1 DEF Fresh
<1> QED
  BY <1>3, <1>6, <1>7, <1>8, <1>9, <1>10

(* What the writes a handler adds make of names. *)
LEMMA NameRun ==
  ASSUME TypeOK, NEW c \in Clients, NEW op, RunStep(c, op), NEW d \in Clients, NEW k, NEW n,
         NameAt(d, k, n)'
  PROVE  \/ NameAt(d, k, n)
         \/ /\ d = c /\ op = "signUp"
            /\ \E i \in Added(c) : /\ Creation(pending'[c][i]) /\ pending'[c][i].key = k
                                   /\ pending'[c][i].to.Username = n
<1>1. users' = users /\ \A e \in Clients \ {c} : pending'[e] = pending[e]
  BY DEF RunStep, RunEvent
<1>2. CASE users'[k] # Null /\ users'[k].Username = n
  BY <1>1, <1>2 DEF NameAt
<1>3. CASE \E i \in DOMAIN pending'[d] : /\ Creation(pending'[d][i]) /\ pending'[d][i].key = k
                                         /\ pending'[d][i].to.Username = n
  <2>1. PICK i \in DOMAIN pending'[d] : /\ Creation(pending'[d][i]) /\ pending'[d][i].key = k
                                        /\ pending'[d][i].to.Username = n
    BY <1>3
  <2>2. CASE d # c
    BY <1>1, <2>1, <2>2 DEF NameAt
  <2>3. CASE d = c /\ i \in DOMAIN pending[c]
    BY <2>1, <2>3, KeptWrite DEF NameAt
  <2>4. CASE d = c /\ i \in Added(c)
    <3>1. op = "signUp"
      BY <2>1, <2>4, AddedWrite DEF NewWrite
    <3> QED
      BY <2>1, <2>4, <3>1
  <2> QED
    BY <2>1, <2>2, <2>3, <2>4, KeptWrite
<1> QED
  BY <1>2, <1>3, NameNext

LEMMA MetRunOther ==
  ASSUME TypeOK, MetInv, NEW c \in Clients, Local(c), NEW op, RunStep(c, op), op # "signUp"
  PROVE  MetInv'
<1>1. /\ users' = users /\ met' = met /\ push' = push /\ asked' = asked
      /\ \A d \in Clients \ {c} : pending'[d] = pending[d] /\ inbox'[d] = inbox[d]
      /\ Behind(inbox[c], inbox'[c])
  BY RunFacts DEF RunStep, RunEvent
<1>2. \A i : i \in WaitsAt(c, "signUp")' => i \in Nat /\ i + 1 \in WaitsAt(c, "signUp")
  BY QueueRun
<1>3. \A d \in Clients \ {c} : WaitsAt(d, "signUp")' = WaitsAt(d, "signUp")
  BY <1>1, QueueSame
<1>4. \A d \in Clients : \A k, n : NameAt(d, k, n)' => NameAt(d, k, n)
  BY NameRun
<1>5. ASSUME NEW i \in DOMAIN pending'[c], Creation(pending'[c][i])
      PROVE  i \in DOMAIN pending[c] /\ pending'[c][i] = pending[c][i]
  BY <1>5, AddedWrite, KeptWrite DEF NewWrite
<1>6. Creates(c)' => Creates(c)
  BY <1>5, CreatesMeans
<1>7. \A d \in Clients \ {c} : Creates(d)' => Creates(d)
  BY <1>1, CreatesMeans
<1>8. ASSUME Fresh(c)
      PROVE  Fresh(c)'
  <2>1. \A k : Created(c, k)' => Created(c, k)
    BY <1>5, CreatedNext DEF Created
  <2>2. \A k : Created(c, k) => Created(c, k)'
    BY CreatedNext, KeptWrite DEF Created
  <2>3. \A i \in DOMAIN inbox'[c] : i + 1 \in DOMAIN inbox[c] /\ inbox'[c][i] = inbox[c][i + 1]
    BY <1>1 DEF Behind
  <2>4. \A i \in DOMAIN inbox'[c] : inbox'[c][i].op = "signUp" =>
          \A k \in Keys : users'[k] # Null \/ Created(c, k)' => inbox'[c][i].users[k] # Null
    BY <1>1, <1>8, <2>1, <2>3 DEF Fresh
  <2>5. "signUp" \in ToSet(asked'[c]) =>
          \A p \in DOMAIN push'[c] : push'[c][p].kind = "users" =>
            \A k \in KeysOf(users') : push'[c][p].users[k] # Null \/ Created(c, k)'
    BY <1>1, <1>8, <2>2 DEF Fresh
  <2> QED
    BY <2>4, <2>5 DEF Fresh, KeysOf
<1>9. \A d \in Clients : Fresh(d) => Fresh(d)'
  BY <1>1, <1>8, FreshSame
<1> SUFFICES ASSUME ~met'
             PROVE  /\ ~met
                    /\ \A d, e \in Clients : \A i \in WaitsAt(d, "signUp")', j \in WaitsAt(e, "signUp")' :
                         d = e /\ i = j
                    /\ \A d, e \in Clients : WaitsAt(d, "signUp")' # {} /\ d # e => ~Creates(e)'
                    /\ \A d \in Clients, k \in Keys, n \in Names :
                         NameAt(d, k, n)' => \E e \in Clients : NameAt(e, k, n)
                    /\ \A d \in Clients : Fresh(d)'
  BY MetNext
<1>10. ~met
  BY <1>1
<1>11. \A d, e \in Clients : \A i \in WaitsAt(d, "signUp"), j \in WaitsAt(e, "signUp") : d = e /\ i = j
  BY <1>10, MetNow
<1>12. ASSUME NEW d \in Clients, NEW e \in Clients,
              NEW i \in WaitsAt(d, "signUp")', NEW j \in WaitsAt(e, "signUp")'
       PROVE  d = e /\ i = j
  <2>1. \E a \in WaitsAt(d, "signUp") : (d = c /\ i \in Nat /\ a = i + 1) \/ (d # c /\ a = i)
    BY <1>2, <1>3, <1>12
  <2>2. \E b \in WaitsAt(e, "signUp") : (e = c /\ j \in Nat /\ b = j + 1) \/ (e # c /\ b = j)
    BY <1>2, <1>3, <1>12
  <2>3. d = e
    BY <1>11, <2>1, <2>2
  <2>4. CASE d = c
    <3>1. i \in Nat /\ j \in Nat /\ i + 1 = j + 1
      BY <1>11, <2>1, <2>2, <2>3, <2>4
    <3> QED
      BY <2>3, <3>1
  <2>5. CASE d # c
    BY <1>11, <2>1, <2>2, <2>3, <2>5
  <2> QED
    BY <2>4, <2>5
<1>13. \A d \in Clients : WaitsAt(d, "signUp")' # {} => WaitsAt(d, "signUp") # {}
  <2>1. WaitsAt(c, "signUp")' # {} => WaitsAt(c, "signUp") # {}
    BY <1>2
  <2> QED
    BY <1>3, <2>1
<1>14. \A d, e \in Clients : WaitsAt(d, "signUp")' # {} /\ d # e => ~Creates(e)'
  BY <1>6, <1>7, <1>10, <1>13, MetNow
<1>15. \A d \in Clients : Fresh(d)'
  BY <1>9, <1>10, MetNow
<1> QED
  BY <1>4, <1>10, <1>12, <1>14, <1>15

LEMMA MetRunSignUp ==
  ASSUME TypeOK, OneName, MetInv, NEW c \in Clients, Local(c), RunStep(c, "signUp"),
         \A d \in Clients : AnswersInv(d)
  PROVE  MetInv'
<1> USE DEF Local
<1>1. /\ users' = users /\ met' = met /\ push' = push /\ asked' = asked
      /\ \A d \in Clients \ {c} : pending'[d] = pending[d] /\ inbox'[d] = inbox[d]
      /\ 1 \in DOMAIN inbox[c] /\ inbox[c][1].op = "signUp" /\ Snapshot(c) = inbox[c][1].users
      /\ \A i, j \in Added(c) : i = j
  <2>1. RunEvent(c, "signUp") /\ \A i, j \in Added(c) : i = j
    BY DEF RunStep
  <2>2. /\ \A d \in Clients \ {c} : inbox'[d] = inbox[d]
        /\ asked' = asked
        /\ 1 \in DOMAIN inbox[c] /\ inbox[c][1].op = "signUp" /\ Snapshot(c) = inbox[c][1].users
    BY <2>1, RunFacts
  <2> QED
    BY <2>1, <2>2 DEF RunStep, RunEvent
<1>2. 1 \in WaitsAt(c, "signUp")
  BY QueueRun
<1> SUFFICES ASSUME ~met
             PROVE  MetInv'
  BY <1>1 DEF MetInv
<1>3. /\ \A d \in Clients : \A i \in WaitsAt(d, "signUp") : d = c /\ i = 1
      /\ \A d \in Clients : d # c => ~Creates(d)
      /\ \A d, e \in Clients : \A j, k \in Keys, n \in Names : NameAt(d, j, n) /\ NameAt(e, k, n) => j = k
      /\ Fresh(c)
  BY <1>2, MetNow
<1>4. \A d \in Clients : WaitsAt(d, "signUp")' = {}
  <2>1. \A i : i \notin WaitsAt(c, "signUp")'
    <3>1. \A i : i \in WaitsAt(c, "signUp")' => i \in Nat \ {0} /\ i + 1 = 1
      BY <1>3, QueueRun
    <3> QED
      BY <3>1
  <2>2. \A d \in Clients \ {c} : WaitsAt(d, "signUp")' = {}
    BY <1>1, <1>3, QueueSame
  <2> QED
    BY <2>1, <2>2
<1>5. ASSUME NEW d \in Clients
      PROVE  Fresh(d)'
  <2>1. \A i \in DOMAIN inbox'[d] : inbox'[d][i].op # "signUp"
    <3>1. ASSUME d = c, NEW i \in DOMAIN inbox'[c], inbox'[c][i].op = "signUp"
          PROVE  FALSE
      <4>1. WaitsAt(c, "signUp")' = {j \in DOMAIN inbox'[c] : inbox'[c][j].op = "signUp"}
        BY QueueRun
      <4> QED
        BY <1>4, <3>1, <4>1
    <3>2. ASSUME d # c, NEW i \in DOMAIN inbox[d], inbox[d][i].op = "signUp"
          PROVE  FALSE
      <4>1. Waits(d, "signUp")
        BY <3>2 DEF Waits, ToSet
      <4> QED
        BY <1>3, <3>2, <4>1, WaitsMeans
    <3> QED
      BY <1>1, <3>1, <3>2
  <2>2. "signUp" \notin ToSet(asked'[d])
    <3>1. ASSUME "signUp" \in ToSet(asked[d])
          PROVE  FALSE
      <4>1. Waits(d, "signUp")
        BY <3>1 DEF Waits
      <4>2. d = c
        BY <1>3, <4>1, WaitsMeans
      <4>3. asked[c] = <<>>
        BY QueueRun
      <4> QED
        BY <3>1, <4>2, <4>3 DEF ToSet
    <3> QED
      BY <1>1, <3>1
  <2> QED
    BY <2>1, <2>2 DEF Fresh
<1>6. ASSUME NEW d \in Clients, NEW j \in Keys, NEW n \in Names, NameAt(d, j, n)
      PROVE  j \in Named(Snapshot(c), n)
  <2>1. users[j] # Null \/ Created(c, j)
    BY <1>3, <1>6, CreatesMeans DEF NameAt, Created
  <2>2. Snapshot(c)[j] # Null
    BY <1>1, <1>3, <2>1 DEF Fresh
  <2>3. NameAt(c, j, Snapshot(c)[j].Username)
    BY <1>1, <2>2 DEF NamesInv, KeysOf
  <2>4. Snapshot(c)[j].Username = n
    BY <1>6, <2>3, NameUnique
  <2> QED
    BY <2>2, <2>4 DEF Named
<1>7. ASSUME NEW i \in Added(c), Creation(pending'[c][i])
      PROVE  Named(Snapshot(c), pending'[c][i].to.Username) = {}
  BY <1>7, AddedWrite DEF NewWrite
<1>8. ASSUME NEW d \in Clients, NEW e \in Clients, NEW j \in Keys, NEW k \in Keys, NEW n \in Names,
             NameAt(d, j, n)', NameAt(e, k, n)'
      PROVE  j = k
  <2>1. \/ NameAt(d, j, n)
        \/ \E i \in Added(c) : /\ Creation(pending'[c][i]) /\ pending'[c][i].key = j
                               /\ pending'[c][i].to.Username = n
    BY <1>8, NameRun
  <2>2. \/ NameAt(e, k, n)
        \/ \E i \in Added(c) : /\ Creation(pending'[c][i]) /\ pending'[c][i].key = k
                               /\ pending'[c][i].to.Username = n
    BY <1>8, NameRun
  <2>3. CASE NameAt(d, j, n) /\ NameAt(e, k, n)
    BY <1>3, <2>3
  <2>4. ASSUME NEW i \in Added(c), Creation(pending'[c][i]), pending'[c][i].to.Username = n
        PROVE  ~NameAt(d, j, n) /\ ~NameAt(e, k, n)
    BY <1>6, <1>7, <2>4
  <2> QED
    BY <1>1, <2>1, <2>2, <2>3, <2>4
<1> QED
  BY <1>4, <1>5, <1>8 DEF MetInv

LEMMA MetRun ==
  ASSUME TypeOK, OneName, MetInv, NEW c \in Clients, Local(c), NEW op, RunStep(c, op),
         \A d \in Clients : AnswersInv(d)
  PROVE  MetInv'
  BY MetRunOther, MetRunSignUp

LEMMA MetTake ==
  ASSUME TypeOK, OneName, MetInv, NEW c \in Clients, Local(c), NEW w, TakeStep(c, w),
         \A d \in Clients : AnswersInv(d)
  PROVE  MetInv'
<1> USE DEF Local
<1>1. /\ taken[c] + 1 \in DOMAIN pending[c] /\ w = pending[c][taken[c] + 1]
      /\ \A k \in Keys : k # w.key => users'[k] = users[k]
      /\ UNCHANGED <<cache, pending, connected, listening, asked, inbox, met>>
  BY DEF TakeStep, appVars
<1>2. /\ w.key \in Keys /\ NameAt(c, w.key, w.to.Username) /\ users'[w.key].Username = w.to.Username
      /\ \A k \in Keys : users'[k] # Null => users[k] # Null \/ (k = w.key /\ Creation(w))
  BY TakeUsers
<1> SUFFICES ASSUME ~met
             PROVE  MetInv'
  BY <1>1 DEF MetInv
<1>3. \A d \in Clients : WaitsAt(d, "signUp")' = WaitsAt(d, "signUp")
  BY <1>1, QueueSame
<1>4. \A d \in Clients : Creates(d)' <=> Creates(d)
  BY <1>1, CreatesMeans
<1>5. ASSUME NEW d \in Clients, NEW k \in Keys, NEW n \in Names, NameAt(d, k, n)'
      PROVE  \E e \in Clients : NameAt(e, k, n)
  <2>1. \/ users'[k] # Null /\ users'[k].Username = n
        \/ NameAt(d, k, n)
    BY <1>1, <1>5, NameNext DEF NameAt
  <2>2. CASE users'[k] # Null /\ users'[k].Username = n /\ k # w.key
    BY <1>1, <2>2 DEF NameAt
  <2>3. CASE users'[k] # Null /\ users'[k].Username = n /\ k = w.key
    BY <1>2, <2>3
  <2> QED
    BY <2>1, <2>2, <2>3
<1>6. ASSUME NEW d \in Clients
      PROVE  Fresh(d)'
  <2>1. Fresh(d)
    BY MetNow
  <2>2. \A k : Created(d, k)' <=> Created(d, k)
    BY <1>1, CreatedNext DEF Created
  <2>3. WaitsAt(d, "signUp") # {} =>
          \A k \in Keys : users'[k] # Null => users[k] # Null \/ Created(d, k)
    <3>1. Creation(w) => Creates(c) /\ Created(c, w.key)
      BY <1>1, CreatesMeans DEF Created
    <3>2. CASE d = c
      BY <1>2, <3>1, <3>2
    <3>3. CASE d # c
      BY <1>2, <3>1, <3>3, MetNow
    <3> QED
      BY <3>2, <3>3
  <2>4. ASSUME NEW i \in DOMAIN inbox[d], inbox[d][i].op = "signUp"
        PROVE  \A k \in Keys : users'[k] # Null \/ Created(d, k)' => inbox[d][i].users[k] # Null
    <3>1. Waits(d, "signUp")
      BY <2>4 DEF Waits, ToSet
    <3>2. WaitsAt(d, "signUp") # {}
      BY <3>1, WaitsMeans
    <3> QED
      BY <2>1, <2>2, <2>3, <2>4, <3>2 DEF Fresh
  <2>5. ASSUME "signUp" \in ToSet(asked[d]), NEW p \in DOMAIN push'[d], push'[d][p].kind = "users"
        PROVE  \A k \in KeysOf(users') : push'[d][p].users[k] # Null \/ Created(d, k)'
    <3>1. Waits(d, "signUp")
      BY <2>5 DEF Waits
    <3>2. WaitsAt(d, "signUp") # {}
      BY <3>1, WaitsMeans
    <3>3. p \in DOMAIN push[d] /\ push'[d][p] = push[d][p]
      <4>1. PICK m \in Message : m.kind = "write" /\ (push'[d] = Append(push[d], m) \/ push'[d] = push[d])
        <5>1. PICK m \in Message :
                /\ m.kind = "write" /\ push'[c] = Append(push[c], m)
                /\ \A e \in Clients \ {c} : push'[e] = Append(push[e], m) \/ push'[e] = push[e]
          BY DEF TakeStep
        <5> QED
          BY <5>1
      <4>2. CASE push'[d] = Append(push[d], m)
        <5>1. push[d] \in Seq(Message)
          BY ClientTypes
        <5>2. /\ push'[d][Len(push[d]) + 1] = m
              /\ DOMAIN push'[d] = DOMAIN push[d] \cup {Len(push[d]) + 1}
              /\ \A i \in DOMAIN push[d] : push'[d][i] = push[d][i]
          BY <4>2, <5>1, Appended DEF Extends
        <5> QED
          BY <2>5, <4>1, <5>2
      <4> QED
        BY <2>5, <4>1, <4>2
    <3>4. \A k \in KeysOf(users') : users[k] # Null \/ Created(d, k)
      BY <2>3, <3>2 DEF KeysOf
    <3>5. \A k \in KeysOf(users) : push[d][p].users[k] # Null \/ Created(d, k)
      BY <2>1, <2>5, <3>3 DEF Fresh
    <3> QED
      BY <2>2, <3>3, <3>4, <3>5 DEF KeysOf
  <2> QED
    BY <1>1, <2>4, <2>5 DEF Fresh, KeysOf
<1>7. \A d, e \in Clients : \A i \in WaitsAt(d, "signUp")', j \in WaitsAt(e, "signUp")' : d = e /\ i = j
  BY <1>3, MetNow
<1>8. \A d, e \in Clients : WaitsAt(d, "signUp")' # {} /\ d # e => ~Creates(e)'
  BY <1>3, <1>4, MetNow
<1> QED
  BY <1>5, <1>6, <1>7, <1>8, MetNext

LEMMA MetUsers ==
  ASSUME TypeOK, MetInv, NEW c \in Clients, NEW us, UsersStep(c, us)
  PROVE  MetInv'
<1>1. /\ UNCHANGED <<users, pending, taken, connected, listening, met>>
      /\ Behind(push[c], push'[c]) /\ 1 \in DOMAIN push[c] /\ push[c][1].kind = "users"
      /\ us = push[c][1].users /\ us \in Users_
      /\ \A d \in Clients \ {c} : /\ inbox'[d] = inbox[d] /\ asked'[d] = asked[d]
                                  /\ push'[d] = push[d]
  BY DEF UsersStep, appVars
<1>2. \A d \in Clients : WaitsAt(d, "signUp")' = WaitsAt(d, "signUp")
  <2>1. WaitsAt(c, "signUp")' = WaitsAt(c, "signUp")
    BY QueueUsers
  <2> QED
    BY <1>1, <2>1, QueueSame
<1>3. ASSUME Fresh(c)
      PROVE  Fresh(c)'
  <2>1. \A k : Created(c, k)' <=> Created(c, k)
    BY <1>1, CreatedNext DEF Created
  <2>2. \A i \in DOMAIN inbox'[c] : inbox'[c][i].op = "signUp" =>
          \A k \in Keys : users'[k] # Null \/ Created(c, k)' => inbox'[c][i].users[k] # Null
    <3>1. CASE inbox'[c] = inbox[c]
      BY <1>1, <1>3, <2>1, <3>1 DEF Fresh
    <3>2. CASE /\ Grounded(us, pending[c])
               /\ \A i \in DOMAIN inbox'[c] :
                    i \in DOMAIN asked[c] /\ inbox'[c][i] = Event(asked[c][i], Seen(us, pending[c]))
      <4>1. \A o, u : Event(o, u).op = o /\ Event(o, u).users = u
        BY DEF Event
      <4>2. \A i \in DOMAIN inbox'[c] : /\ inbox'[c][i].op = asked[c][i] /\ i \in DOMAIN asked[c]
                                        /\ inbox'[c][i].users = Seen(us, pending[c])
        BY ONLY <3>2, <4>1
      <4>3. \A k \in Keys : Seen(us, pending[c])[k] # Null <=> us[k] # Null \/ Created(c, k)
        BY <1>1, <3>2, SeenType, ClientTypes, CreatedDef
      <4>4. ASSUME NEW i \in DOMAIN inbox'[c], inbox'[c][i].op = "signUp"
            PROVE  \A k \in KeysOf(users) : us[k] # Null \/ Created(c, k)
        <5>1. "signUp" \in ToSet(asked[c])
          BY <4>2, <4>4 DEF ToSet
        <5> QED
          BY <1>1, <1>3, <5>1 DEF Fresh
      <4> QED
        BY <1>1, <2>1, <4>2, <4>3, <4>4 DEF KeysOf
    <3> QED
      BY <3>1, <3>2 DEF UsersStep
  <2>3. "signUp" \in ToSet(asked'[c]) =>
          \A p \in DOMAIN push'[c] : push'[c][p].kind = "users" =>
            \A k \in KeysOf(users') : push'[c][p].users[k] # Null \/ Created(c, k)'
    <3>1. CASE asked'[c] = <<>>
      BY <3>1 DEF ToSet
    <3>2. CASE asked'[c] = asked[c]
      <4>1. \A p \in DOMAIN push'[c] : p + 1 \in DOMAIN push[c] /\ push'[c][p] = push[c][p + 1]
        BY <1>1 DEF Behind
      <4> QED
        BY <1>1, <1>3, <2>1, <3>2, <4>1 DEF Fresh
    <3> QED
      BY <3>1, <3>2 DEF UsersStep
  <2> QED
    BY <2>2, <2>3 DEF Fresh, KeysOf
<1>4. \A d \in Clients : Fresh(d) => Fresh(d)'
  BY <1>1, <1>3, FreshSame
<1> QED
  BY <1>1, <1>2, <1>4, MetSame

LEMMA MetWrite ==
  ASSUME TypeOK, MetInv, NEW c \in Clients, Local(c), NEW w, WriteStep(c, w)
  PROVE  MetInv'
<1> USE DEF Local
<1>1. /\ UNCHANGED <<users, asked, inbox, met>>
      /\ \A d \in Clients \ {c} : pending'[d] = pending[d] /\ push'[d] = push[d]
      /\ Behind(push[c], push'[c]) /\ 1 \in DOMAIN push[c] /\ push[c][1].kind = "write"
      /\ w = push[c][1].write
      /\ \/ 1 \in DOMAIN pending[c] /\ w = pending[c][1] /\ Behind(pending[c], pending'[c])
         \/ pending'[c] = pending[c]
  BY DEF WriteStep, appVars
<1>2. \A d \in Clients : WaitsAt(d, "signUp")' = WaitsAt(d, "signUp")
  BY <1>1, QueueSame
<1>3. \A d \in Clients : \A i \in DOMAIN pending'[d] : \E j \in DOMAIN pending[d] : pending'[d][i] = pending[d][j]
  <2>1. \A i \in DOMAIN pending'[c] : \E j \in DOMAIN pending[c] : pending'[c][i] = pending[c][j]
    BY <1>1 DEF Behind
  <2> QED
    BY <1>1, <2>1
<1>4. \A d \in Clients : /\ \A k, n : NameAt(d, k, n)' => NameAt(d, k, n)
                         /\ Creates(d)' => Creates(d)
                         /\ \A k : Created(d, k)' => Created(d, k)
  BY <1>1, <1>3, NameFewer
<1>5. ASSUME Fresh(c)
      PROVE  Fresh(c)'
  <2>1. \A i \in DOMAIN inbox'[c] : inbox'[c][i].op = "signUp" =>
          \A k \in Keys : users'[k] # Null \/ Created(c, k)' => inbox'[c][i].users[k] # Null
    BY <1>1, <1>4, <1>5 DEF Fresh
  <2>2. ASSUME NEW k, Created(c, k)
        PROVE  Created(c, k)' \/ k = w.key
    <3>1. CASE pending'[c] = pending[c]
      BY <2>2, <3>1, CreatedNext DEF Created
    <3>2. CASE 1 \in DOMAIN pending[c] /\ w = pending[c][1] /\ Behind(pending[c], pending'[c])
      <4>1. PICK i \in DOMAIN pending[c] : Creation(pending[c][i]) /\ pending[c][i].key = k
        BY <2>2 DEF Created
      <4>2. CASE i = 1
        BY <3>2, <4>1, <4>2
      <4>3. CASE i # 1
        <5>1. \E j \in DOMAIN pending'[c] : pending'[c][j] = pending[c][i]
          BY <3>2, <4>3, Shifted
        <5> QED
          BY <4>1, <5>1, CreatedNext
      <4> QED
        BY <4>2, <4>3
    <3> QED
      BY <1>1, <3>1, <3>2
  <2>3. ASSUME "signUp" \in ToSet(asked[c]), NEW p \in DOMAIN push'[c], push'[c][p].kind = "users",
               NEW k \in KeysOf(users)
        PROVE  push'[c][p].users[k] # Null \/ Created(c, k)'
    <3>1. p + 1 \in DOMAIN push[c] /\ push'[c][p] = push[c][p + 1] /\ p \in Nat \ {0}
      <4>1. push'[c] \in Seq(Message)
        BY DEF WriteStep
      <4> QED
        BY <1>1, <4>1, Element DEF Behind
    <3>2. push[c][p + 1].users[k] # Null \/ Created(c, k)
      BY <1>5, <2>3, <3>1 DEF Fresh
    <3>3. CASE k = w.key
      <4>1. 1 < p + 1
        BY <3>1
      <4>2. Has(push[c][1]) \subseteq Has(push[c][p + 1])
        BY <1>1, <2>3, <3>1, <4>1 DEF PresenceInv
      <4>3. w.key \in KeysOf(push[c][p + 1].users)
        BY <1>1, <2>3, <3>1, <4>2 DEF Has
      <4> QED
        BY <3>1, <3>3, <4>3 DEF KeysOf
    <3> QED
      BY <2>2, <3>1, <3>2, <3>3
  <2> QED
    BY <1>1, <2>1, <2>3 DEF Fresh, KeysOf
<1>6. \A d \in Clients : Fresh(d) => Fresh(d)'
  BY <1>1, <1>5, FreshSame
<1> SUFFICES ASSUME ~met
             PROVE  MetInv'
  BY <1>1 DEF MetInv
<1>7. \A d, e \in Clients : \A i \in WaitsAt(d, "signUp")', j \in WaitsAt(e, "signUp")' : d = e /\ i = j
  BY <1>2, MetNow
<1>8. \A d, e \in Clients : WaitsAt(d, "signUp")' # {} /\ d # e => ~Creates(e)'
  BY <1>2, <1>4, MetNow
<1>9. \A d \in Clients, k \in Keys, n \in Names : NameAt(d, k, n)' => \E e \in Clients : NameAt(e, k, n)
  BY <1>4
<1>10. \A d \in Clients : Fresh(d)'
  BY <1>6, MetNow
<1> QED
  BY <1>7, <1>8, <1>9, <1>10, MetNext

LEMMA MetListen ==
  ASSUME TypeOK, MetInv, NEW c \in Clients, ServerListen(c)
  PROVE  MetInv'
<1>1. PICK m \in Message :
        /\ m.kind = "users" /\ m.users = users /\ push'[c] = Append(push[c], m)
        /\ \A d \in Clients \ {c} : push'[d] = push[d]
        /\ UNCHANGED <<users, pending, asked, inbox, met>>
  BY ServerListenStep DEF appVars
<1>2. \A d \in Clients : WaitsAt(d, "signUp")' = WaitsAt(d, "signUp")
  BY <1>1, QueueSame
<1>3. ASSUME Fresh(c)
      PROVE  Fresh(c)'
  <2>1. \A k : Created(c, k)' <=> Created(c, k)
    BY <1>1, CreatedNext DEF Created
  <2>2. push[c] \in Seq(Message)
    BY ClientTypes
  <2>3. \A p \in DOMAIN push'[c] : \/ p \in DOMAIN push[c] /\ push'[c][p] = push[c][p]
                                   \/ push'[c][p] = m
    BY <1>1, <2>2, Appended DEF Extends
  <2>4. "signUp" \in ToSet(asked'[c]) =>
          \A p \in DOMAIN push'[c] : push'[c][p].kind = "users" =>
            \A k \in KeysOf(users') : push'[c][p].users[k] # Null \/ Created(c, k)'
    BY <1>1, <1>3, <2>1, <2>3 DEF Fresh, KeysOf
  <2>5. \A i \in DOMAIN inbox'[c] : inbox'[c][i].op = "signUp" =>
          \A k \in Keys : users'[k] # Null \/ Created(c, k)' => inbox'[c][i].users[k] # Null
    BY <1>1, <1>3, <2>1 DEF Fresh
  <2> QED
    BY <2>4, <2>5 DEF Fresh, KeysOf
<1>4. \A d \in Clients : Fresh(d) => Fresh(d)'
  BY <1>1, <1>3, FreshSame
<1> QED
  BY <1>1, <1>2, <1>4, MetSame

(* Steps that leave the data alone, or drop what is on its way. *)
LEMMA MetQuiet ==
  ASSUME TypeOK, MetInv, UNCHANGED <<users, pending, asked, inbox, met>>,
         \A d \in Clients : push'[d] = push[d] \/ push'[d] = <<>>
  PROVE  MetInv'
<1>1. \A d \in Clients : WaitsAt(d, "signUp")' = WaitsAt(d, "signUp")
  BY QueueSame
<1>2. \A d \in Clients : Fresh(d) => Fresh(d)'
  BY FreshSame
<1> QED
  BY <1>1, <1>2, MetSame

-----------------------------------------------------------------------------
(***************************************************************************)
(* The count of an undisturbed name                                        *)
(***************************************************************************)

(* The parts of Exact, where v were counted. *)
Held(c, k, n) ==
    /\ Created(c, k) \/ Base(c, k)
    /\ NameAt(c, k, n)
    /\ \A d \in Clients \ {c} : ~Created(d, k)

LastRight(c, k, v) ==
    \A i \in DOMAIN pending[c] :
        /\ Counts(pending[c][i], k)
        /\ \A j \in DOMAIN pending[c] : j > i => ~Counts(pending[c][j], k)
        => pending[c][i].to.ItemsAuctioned = v

ServerRight(c, k, v) ==
    \/ users[k] # Null /\ users[k].ItemsAuctioned = v
    \/ ToCount(c, k)

CopyRight(c, k, v) ==
    \/ cache[c] = Null
    \/ cache[c][k] # Null /\ cache[c][k].ItemsAuctioned = v
    \/ \E i \in DOMAIN pending[c] : Counts(pending[c][i], k)

RightIn(m, k, v) ==
    /\ m.kind = "users" => m.users[k] # Null /\ m.users[k].ItemsAuctioned = v
    /\ m.kind # "users" /\ Counts(m.write, k) => m.write.to.ItemsAuctioned = v

SentRight(c, k, v) ==
    \A p \in DOMAIN push[c] :
        \/ RightIn(push[c][p], k, v)
        \/ \E q \in Own(c) : q > p /\ Counts(push[c][q].write, k)
        \/ ToCount(c, k)

ShownRight(c, k, n, v) ==
    \A i \in DOMAIN inbox[c] : inbox[c][i].op = "count" /\ name[c] = n =>
        /\ inbox[c][i].users[k] # Null
        /\ inbox[c][i].users[k].ItemsAuctioned = v

Parts(c, k, n, v) ==
    /\ Held(c, k, n) /\ LastRight(c, k, v) /\ ServerRight(c, k, v)
    /\ CopyRight(c, k, v) /\ SentRight(c, k, v) /\ ShownRight(c, k, n, v)

LEMMA ExactNow ==
  ASSUME NEW c \in Clients, NEW k \in Keys, NEW n, NEW v, v = Counted(n)
  PROVE  Exact(c, k, n) <=> Parts(c, k, n, v)
<1>1. \A m : CountsRight(m, k, n) <=> RightIn(m, k, v)
  BY DEF CountsRight, RightIn
<1> QED
  BY <1>1 DEF Exact, Parts, Held, LastRight, ServerRight, CopyRight, SentRight, ShownRight

LEMMA ExactNext ==
  ASSUME NEW c \in Clients, NEW k \in Keys, NEW n, NEW v, v = Counted(n)', Parts(c, k, n, v)'
  PROVE  Exact(c, k, n)'
<1>1. Held(c, k, n)' /\ LastRight(c, k, v)' /\ ServerRight(c, k, v)'
      /\ CopyRight(c, k, v)' /\ SentRight(c, k, v)' /\ ShownRight(c, k, n, v)'
  BY DEF Parts
<1>2. \A p \in DOMAIN push'[c] : CountsRight(push[c][p], k, n)' <=> RightIn(push'[c][p], k, v)
  BY DEF CountsRight, RightIn, Counts
<1>3. \A p \in DOMAIN push'[c] :
        \/ CountsRight(push[c][p], k, n)'
        \/ (\E q \in Own(c) : q > p /\ Counts(push[c][q].write, k))'
        \/ ToCount(c, k)'
  BY <1>1, <1>2 DEF SentRight, Counts, RightIn
<1>4. /\ (Created(c, k) \/ Base(c, k))' /\ NameAt(c, k, n)'
      /\ \A d \in Clients \ {c} : ~Created(d, k)'
  BY <1>1 DEF Held
<1> QED
  BY <1>1, <1>3, <1>4 DEF Exact, LastRight, ServerRight, CopyRight, ShownRight, Counts, ToCount, Own

(* Who counts, and for whom. *)
Counter(c) ==
    /\ WaitsAt(c, "count") # {} => name[c] \in Names /\ c \in submitters[name[c]]
    /\ \A i \in DOMAIN pending[c] :
         ~Creation(pending[c][i]) /\ "ItemsAuctioned" \in pending[c][i].sets
             => c \in submitters[pending[c][i].to.Username]

Unhurried(c, n) ==
    submitters[n] = {c} =>
        /\ name[c] = n => \A i, j \in WaitsAt(c, "count") : i = j
        /\ \E k \in Keys : Exact(c, k, n)

LEMMA UnhurriedNow ==
  UnhurriedInv <=> /\ \A c \in Clients : Counter(c)
                   /\ \A n \in Names \ disturbed, c \in Clients : Unhurried(c, n)
  BY DEF UnhurriedInv, Counter, Unhurried

LEMMA UnhurriedNext ==
  ASSUME \A c \in Clients : Counter(c)',
         \A n \in Names \ disturbed', c \in Clients : Unhurried(c, n)'
  PROVE  UnhurriedInv'
  BY DEF UnhurriedInv, Counter, Unhurried, Creation

LEMMA CounterKept ==
  ASSUME NEW d \in Clients, Counter(d), TypeOK,
         WaitsAt(d, "count")' = {} \/ (WaitsAt(d, "count") # {} /\ name'[d] = name[d]),
         \A n \in Names : submitters[n] \subseteq submitters'[n],
         \A i \in DOMAIN pending'[d] : \E j \in DOMAIN pending[d] : pending'[d][i] = pending[d][j]
  PROVE  Counter(d)'
<1>1. ASSUME WaitsAt(d, "count")' # {}
      PROVE  name'[d] \in Names /\ d \in submitters'[name'[d]]
  BY <1>1 DEF Counter
<1>2. ASSUME NEW i \in DOMAIN pending'[d], ~Creation(pending'[d][i]),
             "ItemsAuctioned" \in pending'[d][i].sets
      PROVE  d \in submitters'[pending'[d][i].to.Username]
  <2>1. PICK j \in DOMAIN pending[d] : pending'[d][i] = pending[d][j]
    OBVIOUS
  <2>2. pending[d][j].to.Username \in Names
    BY WriteAt, AccountFields
  <2> QED
    BY <1>2, <2>1, <2>2 DEF Counter
<1> QED
  BY <1>1, <1>2 DEF Counter, Creation

(* Nothing happens to c. *)
LEMMA PartsSame ==
  ASSUME NEW c \in Clients, NEW k \in Keys, NEW n, NEW v, Parts(c, k, n, v),
         users' = users, cache'[c] = cache[c], pending'[c] = pending[c], taken'[c] = taken[c],
         push'[c] = push[c], name'[c] = name[c],
         inbox'[c] = inbox[c],
         \A d \in Clients \ {c} : Created(d, k)' => Created(d, k)
  PROVE  Parts(c, k, n, v)'
<1>1. Held(c, k, n)'
  <2>1. Created(c, k)' <=> Created(c, k)
    BY CreatedNext DEF Created
  <2>2. Base(c, k)' <=> Base(c, k)
    BY DEF Base
  <2>3. NameAt(c, k, n)' <=> NameAt(c, k, n)
    BY NameNext DEF NameAt
  <2> QED
    BY <2>1, <2>2, <2>3 DEF Held, Parts
<1>2. ToCount(c, k)' <=> ToCount(c, k)
  BY DEF ToCount, Counts
<1>3. LastRight(c, k, v)' /\ CopyRight(c, k, v)' /\ ShownRight(c, k, n, v)'
  BY DEF Parts, LastRight, CopyRight, ShownRight, Counts
<1>4. ServerRight(c, k, v)'
  BY <1>2 DEF Parts, ServerRight
<1>5. SentRight(c, k, v)'
  BY <1>2 DEF Parts, SentRight, RightIn, Counts, Own
<1> QED
  BY <1>1, <1>3, <1>4, <1>5 DEF Parts

LEMMA UnhurriedKept ==
  ASSUME NEW n \in Names, NEW c \in Clients, Unhurried(c, n), submitters'[n] = submitters[n],
         name'[c] = n => \/ name[c] = n /\ WaitsAt(c, "count")' = WaitsAt(c, "count")
                         \/ WaitsAt(c, "count")' = {},
         \A k \in Keys : \A v : v = Counted(n) /\ Parts(c, k, n, v) => Parts(c, k, n, v)',
         submitters[n] = {c} => Counted(n)' = Counted(n)
  PROVE  Unhurried(c, n)'
<1> SUFFICES ASSUME submitters'[n] = {c}
             PROVE  /\ name'[c] = n => \A i, j \in WaitsAt(c, "count")' : i = j
                    /\ \E k \in Keys : Exact(c, k, n)'
  BY DEF Unhurried
<1>1. /\ name[c] = n => \A i, j \in WaitsAt(c, "count") : i = j
      /\ \E k \in Keys : Exact(c, k, n)
  BY DEF Unhurried
<1>2. PICK k \in Keys : Exact(c, k, n)
  BY <1>1
<1>3. PICK v : v = Counted(n)
  OBVIOUS
<1>4. Parts(c, k, n, v)'
  BY <1>2, <1>3, ExactNow
<1>5. Exact(c, k, n)'
  BY <1>3, <1>4, ExactNext
<1> QED
  BY <1>1, <1>5

LEMMA CreatedFewer ==
  ASSUME NEW c \in Clients,
         \A i \in DOMAIN pending'[c] : \E j \in DOMAIN pending[c] : pending'[c][i] = pending[c][j]
  PROVE  \A k : Created(c, k)' => Created(c, k)
  BY CreatedNext DEF Created

(* The step of another client that writes nothing. *)
LEMMA UnhurriedOther ==
  ASSUME NEW n \in Names, NEW c \in Clients, Unhurried(c, n), submitters'[n] = submitters[n],
         users' = users, cache'[c] = cache[c], pending'[c] = pending[c], taken'[c] = taken[c],
         push'[c] = push[c], name'[c] = name[c], inbox'[c] = inbox[c], asked'[c] = asked[c],
         submitters[n] = {c} => Counted(n)' = Counted(n),
         submitters[n] = {c} =>
           \A k \in Keys : \A d \in Clients \ {c} : Created(c, k) \/ Base(c, k) =>
             (Created(d, k)' => Created(d, k))
  PROVE  Unhurried(c, n)'
<1>1. WaitsAt(c, "count")' = WaitsAt(c, "count")
  BY QueueSame
<1> SUFFICES ASSUME submitters'[n] = {c}
             PROVE  Unhurried(c, n)'
  BY DEF Unhurried
<1>2. ASSUME NEW k \in Keys, NEW v, v = Counted(n), Parts(c, k, n, v)
      PROVE  Parts(c, k, n, v)'
  <2>1. Created(c, k) \/ Base(c, k)
    BY <1>2 DEF Parts, Held
  <2>2. \A d \in Clients \ {c} : Created(d, k)' => Created(d, k)
    BY <2>1
  <2> QED
    BY <1>2, <2>2, PartsSame
<1> QED
  BY <1>1, <1>2, UnhurriedKept

(* c is shown the right count. *)
LEMMA SeenCount ==
  ASSUME TypeOK, NEW c \in Clients, NEW k \in Keys, NEW v, LastRight(c, k, v),
         NEW b \in Users_, Grounded(b, pending[c]), b[k] # Null \/ Created(c, k),
         \/ b[k] # Null /\ b[k].ItemsAuctioned = v
         \/ \E i \in DOMAIN pending[c] : Counts(pending[c][i], k)
  PROVE  /\ Seen(b, pending[c])[k] # Null
         /\ Seen(b, pending[c])[k].ItemsAuctioned = v
<1> DEFINE s == Seen(b, pending[c])
<1>1. pending[c] \in Seq(Write)
  BY ClientTypes
<1>2. s[k] # Null
  BY <1>1, SeenType, CreatedDef
<1>3. b[k] # Null \/ Written(pending[c], k)
  BY DEF Created, Written
<1>4. "ItemsAuctioned" \in Children
  BY DEF Children
<1>5. \A i : i \in Setting(pending[c], k, "ItemsAuctioned") <=>
               i \in DOMAIN pending[c] /\ Counts(pending[c][i], k)
  BY DEF Setting, Counts
<1>6. \/ /\ Setting(pending[c], k, "ItemsAuctioned") = {}
         /\ s[k]["ItemsAuctioned"] = b[k]["ItemsAuctioned"]
      \/ \E i \in DOMAIN pending[c] :
           /\ pending[c][i].key = k /\ "ItemsAuctioned" \in pending[c][i].sets
           /\ \A j \in Setting(pending[c], k, "ItemsAuctioned") : j <= i
           /\ s[k]["ItemsAuctioned"] = pending[c][i].to["ItemsAuctioned"]
  BY <1>1, <1>3, <1>4, SeenChild
<1>7. CASE /\ Setting(pending[c], k, "ItemsAuctioned") = {}
           /\ s[k].ItemsAuctioned = b[k].ItemsAuctioned
  BY <1>2, <1>5, <1>7
<1>8. CASE \E i \in DOMAIN pending[c] :
             /\ pending[c][i].key = k /\ "ItemsAuctioned" \in pending[c][i].sets
             /\ \A j \in Setting(pending[c], k, "ItemsAuctioned") : j <= i
             /\ s[k].ItemsAuctioned = pending[c][i].to.ItemsAuctioned
  <2>1. PICK i \in DOMAIN pending[c] :
             /\ pending[c][i].key = k /\ "ItemsAuctioned" \in pending[c][i].sets
             /\ \A j \in Setting(pending[c], k, "ItemsAuctioned") : j <= i
             /\ s[k].ItemsAuctioned = pending[c][i].to.ItemsAuctioned
    BY <1>8
  <2>2. Counts(pending[c][i], k)
    BY <2>1 DEF Counts
  <2>3. ASSUME NEW j \in DOMAIN pending[c], j > i, Counts(pending[c][j], k)
        PROVE  FALSE
    <3>1. j <= i
      BY <1>5, <2>1, <2>3
    <3>2. i \in Nat /\ j \in Nat
      BY WriteAt
    <3> QED
      BY <2>3, <3>1, <3>2
  <2>4. pending[c][i].to.ItemsAuctioned = v
    BY <2>2, <2>3 DEF LastRight
  <2> QED
    BY <1>2, <2>1, <2>4
<1> QED
  BY <1>6, <1>7, <1>8

(* What is shown to c at once has the right count. *)
LEMMA ShownNow ==
  ASSUME TypeOK, NEW c \in Clients, NEW k \in Keys, NEW n, NEW v,
         Held(c, k, n), LastRight(c, k, v), CopyRight(c, k, v),
         cache[c] # Null, Grounded(cache[c], pending[c])
  PROVE  /\ Seen(cache[c], pending[c])[k] # Null
         /\ Seen(cache[c], pending[c])[k].ItemsAuctioned = v
<1>1. cache[c] \in Users_
  BY ClientTypes
<1>2. cache[c][k] # Null \/ Created(c, k)
  BY DEF Held, Base
<1>3. \/ cache[c][k] # Null /\ cache[c][k].ItemsAuctioned = v
      \/ \E i \in DOMAIN pending[c] : Counts(pending[c][i], k)
  BY DEF CopyRight
<1> QED
  BY <1>1, <1>2, <1>3, SeenCount

(* c taps: only what it is shown at once may be new. *)
LEMMA PartsAsk ==
  ASSUME TypeOK, NEW c \in Clients, Local(c), NEW op \in Op, AskStep(c, op),
         NEW k \in Keys, NEW n, NEW v,
         Held(c, k, n), LastRight(c, k, v), ServerRight(c, k, v), CopyRight(c, k, v), SentRight(c, k, v)
  PROVE  Parts(c, k, n, v)'
<1>1. UNCHANGED <<users, cache, pending, taken, connected, listening, push, profile, name, signedIn>>
  BY DEF AskStep, sdkVars
<1>2. Held(c, k, n)'
  <2>1. \A d \in Clients : Created(d, k)' <=> Created(d, k)
    BY <1>1, CreatedNext DEF Created
  <2>2. Base(c, k)' <=> Base(c, k)
    BY <1>1 DEF Base
  <2>3. NameAt(c, k, n)' <=> NameAt(c, k, n)
    BY <1>1, NameNext DEF NameAt
  <2> QED
    BY <2>1, <2>2, <2>3 DEF Held
<1>3. ToCount(c, k)' <=> ToCount(c, k)
  BY <1>1 DEF ToCount, Counts
<1>4. LastRight(c, k, v)' /\ CopyRight(c, k, v)' /\ ServerRight(c, k, v)'
  BY <1>1, <1>3 DEF LastRight, CopyRight, ServerRight, Counts
<1>5. SentRight(c, k, v)'
  BY <1>1, <1>3 DEF SentRight, RightIn, Counts, Own
<1>6. ShownRight(c, k, n, v)'
  <2>1. CASE inbox'[c] = <<>>
    BY <2>1 DEF ShownRight
  <2>2. CASE /\ cache[c] # Null /\ inbox'[c] = <<Event(op, Seen(cache[c], pending[c]))>>
             /\ Grounded(cache[c], pending[c])
    <3>1. \A i \in DOMAIN inbox'[c] : inbox'[c][i].users = Seen(cache[c], pending[c])
      BY <2>2 DEF Event
    <3>2. /\ Seen(cache[c], pending[c])[k] # Null
          /\ Seen(cache[c], pending[c])[k].ItemsAuctioned = v
      BY <2>2, ShownNow
    <3> QED
      BY <3>1, <3>2 DEF ShownRight
  <2> QED
    BY <2>1, <2>2, Asked DEF Local
<1> QED
  BY <1>2, <1>4, <1>5, <1>6 DEF Parts

(* A tap that submits nothing. *)
LEMMA UnhurriedAsk ==
  ASSUME TypeOK, NEW c \in Clients, Local(c), NEW op \in Op, AskStep(c, op), op # "count",
         UNCHANGED <<submitted, submitters, disturbed>>,
         \A n \in Names : Counted(n)' = Counted(n), UnhurriedInv
  PROVE  UnhurriedInv'
<1>1. UNCHANGED <<users, cache, pending, taken, connected, listening, push, profile, name, signedIn>>
  BY DEF AskStep, sdkVars
<1>2. \A d \in Clients \ {c} : inbox'[d] = inbox[d] /\ asked'[d] = asked[d]
  BY Asked DEF Local
<1>3. \A d \in Clients : WaitsAt(d, "count")' = WaitsAt(d, "count")
  <2>1. \A i : i \in WaitsAt(c, "count")' <=> i \in WaitsAt(c, "count")
    BY QueueAsk
  <2>2. WaitsAt(c, "count")' = WaitsAt(c, "count")
    BY <2>1 DEF WaitsAt
  <2> QED
    BY <1>2, <2>2, QueueSame
<1>4. \A d \in Clients : Counter(d)'
  <2>1. \A d \in Clients : Counter(d)
    BY UnhurriedNow
  <2>2. \A n \in Names : submitters[n] \subseteq submitters'[n]
    OBVIOUS
  <2> QED
    BY <1>1, <1>3, <2>1, <2>2, CounterKept
<1>5. ASSUME NEW n \in Names \ disturbed', NEW d \in Clients
      PROVE  Unhurried(d, n)'
  <2>1. Unhurried(d, n)
    BY <1>5, UnhurriedNow
  <2>2. CASE d # c
    <3>1. \A k \in Keys : \A e \in Clients \ {d} : Created(e, k)' => Created(e, k)
      BY <1>1, CreatedFewer
    <3> QED
      BY <1>1, <1>2, <2>1, <2>2, <3>1, UnhurriedOther
  <2>3. CASE d = c
    <3>1. \A k \in Keys : \A v : v = Counted(n) /\ Parts(c, k, n, v) => Parts(c, k, n, v)'
      BY PartsAsk DEF Parts
    <3> QED
      BY <1>1, <1>3, <2>1, <2>3, <3>1, UnhurriedKept
  <2> QED
    BY <2>2, <2>3
<1> QED
  BY <1>4, <1>5, UnhurriedNext

(* A name for which nothing was submitted has no auctions counted. *)
LEMMA NothingCounted ==
  ASSUME TypeOK, CountersInv, NEW n \in Names, submitters[n] = {}
  PROVE  Counted(n) = 0
<1>1. submitted[n] = 0 /\ Counted(n) >= 0
  BY DEF CountersInv
<1>2. Cardinality(Uncounted(n)) \in Nat
  BY CountedType
<1>3. \A x \in Nat : 0 - x >= 0 => 0 - x = 0
  OBVIOUS
<1> QED
  BY <1>1, <1>2, <1>3 DEF Counted

LEMMA ZeroFits ==
  ASSUME TypeOK, CountersInv, NEW n \in Names, submitters[n] = {}, NEW a \in Account,
         FitsIn(Tally, a), a.Username = n
  PROVE  a.ItemsAuctioned = 0
<1>1. a.ItemsAuctioned \in Nat
  BY AccountFields
<1>2. Tally[n] = 0
  BY NothingCounted, TallyType
<1>3. \A x \in Nat : x <= 0 => x = 0
  OBVIOUS
<1> QED
  BY <1>1, <1>2, <1>3 DEF FitsIn

LEMMA CreationCounts ==
  ASSUME NEW w, Creation(w)
  PROVE  Counts(w, w.key)
  BY DEF Creation, Counts, Children

(* The answer to a write of c is on its way once the server took it. *)
LEMMA AnswerOnItsWay ==
  ASSUME TypeOK, NEW c \in Clients, InOrder(c), NEW i \in DOMAIN pending[c], ~(i > taken[c])
  PROVE  \E p \in Own(c) : push[c][p].write = pending[c][i]
<1>1. i \in 1..taken[c]
  BY ClientTypes, WriteAt
<1> QED
  BY <1>1 DEF InOrder

LEMMA OwnPending ==
  ASSUME TypeOK, NEW c \in Clients, InOrder(c), NEW p \in Own(c)
  PROVE  \E i \in DOMAIN pending[c] : push[c][p].write = pending[c][i]
<1>1. PICK at \in [1..taken[c] -> DOMAIN push[c]] :
        /\ \A i \in 1..taken[c] : at[i] \in Own(c) /\ push[c][at[i]].write = pending[c][i]
        /\ \A q \in Own(c) : \E i \in 1..taken[c] : at[i] = q
  BY DEF InOrder
<1>2. PICK i \in 1..taken[c] : at[i] = p
  BY <1>1
<1>3. i \in DOMAIN pending[c]
  <2>1. /\ taken[c] \in Nat /\ taken[c] <= Len(pending[c]) /\ Len(pending[c]) \in Nat
        /\ DOMAIN pending[c] = 1..Len(pending[c])
    BY ClientTypes, Places
  <2> QED
    BY <1>2, <2>1
<1> QED
  BY <1>1, <1>2, <1>3

(* Before the first submission every count of the name is 0. *)
LEMMA FirstParts ==
  ASSUME TypeOK, OneName, CountersInv, UsersFit, NEW c \in Clients, Local(c), CountsInv(c),
         signedIn[c], name[c] \in Names, submitters[name[c]] = {},
         \A d \in Clients \ {c} : ~Creates(d)
  PROVE  \E k \in Keys : /\ Held(c, k, name[c]) /\ LastRight(c, k, 0) /\ ServerRight(c, k, 0)
                         /\ CopyRight(c, k, 0) /\ SentRight(c, k, 0)
<1> USE DEF Local
<1>0. PICK n \in Names : n = name[c] /\ submitters[n] = {}
  OBVIOUS
<1>1. PICK k \in Keys : (Created(c, k) \/ Base(c, k)) /\ NameAt(c, k, n)
  BY <1>0 DEF KnownInv
<1>2. /\ DataFits(Tally, cache[c], pending[c], inbox[c], push[c])
      /\ \A j \in KeysOf(users) : FitsIn(Tally, users[j])
  BY CountsNow, UsersFitNow
<1>3. \A a \in Account : FitsIn(Tally, a) /\ a.Username = n => a.ItemsAuctioned = 0
  BY <1>0, ZeroFits
<1>4. \A m : NameAt(c, k, m) => m = n
  BY <1>1, NameUnique
<1>5. users[k] # Null => users[k].Username = n /\ users[k].ItemsAuctioned = 0
  <2>1. ASSUME users[k] # Null
        PROVE  users[k].Username = n /\ users[k].ItemsAuctioned = 0
    <3>1. users[k].Username = n
      BY <1>4, <2>1 DEF NameAt
    <3>2. k \in KeysOf(users) /\ users[k] \in Account
      BY <2>1, AccountOf DEF KeysOf, TypeOK
    <3> QED
      BY <1>2, <1>3, <3>1, <3>2
  <2> QED
    BY <2>1
<1>6. Held(c, k, n)
  <2>1. \A d \in Clients \ {c} : ~Created(d, k)
    BY CreatesMeans DEF Created
  <2> QED
    BY <1>1, <2>1 DEF Held
<1>7. LastRight(c, k, 0)
  <2> SUFFICES ASSUME NEW i \in DOMAIN pending[c], Counts(pending[c][i], k)
               PROVE  pending[c][i].to.ItemsAuctioned = 0
    BY DEF LastRight
  <2>1. pending[c][i].key = k /\ pending[c][i].to \in Account
    BY WriteAt DEF Counts
  <2>2. NameAt(c, pending[c][i].key, pending[c][i].to.Username)
    BY DEF NamesInv
  <2>3. pending[c][i].to.Username = n
    BY <1>4, <2>1, <2>2
  <2> QED
    BY <1>2, <1>3, <2>1, <2>3 DEF DataFits
<1>8. users[k] = Null => ToCount(c, k)
  <2>1. ASSUME users[k] = Null
        PROVE  ToCount(c, k)
    <3>1. PICK i \in DOMAIN pending[c] : Creation(pending[c][i]) /\ pending[c][i].key = k
      BY <1>1, <2>1 DEF Base, Created
    <3>2. i > taken[c]
      <4>1. i \notin 1..taken[c]
        BY <2>1, <3>1 DEF PresenceInv, KeysOf
      <4>2. taken[c] \in Nat /\ i \in Nat \ {0}
        BY ClientTypes, WriteAt
      <4> QED
        BY <4>1, <4>2
    <3>3. Counts(pending[c][i], k)
      BY <3>1, CreationCounts
    <3> QED
      BY <3>2, <3>3 DEF ToCount
  <2> QED
    BY <2>1
<1>9. ServerRight(c, k, 0)
  BY <1>5, <1>8 DEF ServerRight
<1>10. CopyRight(c, k, 0)
  <2>1. CASE cache[c] # Null /\ cache[c][k] # Null
    <3>1. k \in KeysOf(cache[c]) /\ cache[c][k] \in Account
      BY <2>1, ClientTypes, AccountOf DEF KeysOf
    <3>2. users[k] # Null /\ cache[c][k].Username = users[k].Username
      BY <2>1, <3>1, CopyNames
    <3>3. cache[c][k].ItemsAuctioned = 0
      BY <1>2, <1>3, <1>5, <2>1, <3>1, <3>2 DEF DataFits
    <3> QED
      BY <2>1, <3>3 DEF CopyRight
  <2>2. CASE cache[c] # Null /\ cache[c][k] = Null
    <3>1. PICK i \in DOMAIN pending[c] : Creation(pending[c][i]) /\ pending[c][i].key = k
      BY <1>1, <2>2 DEF Base, Created
    <3>2. Counts(pending[c][i], k)
      BY <3>1, CreationCounts
    <3> QED
      BY <3>2 DEF CopyRight
  <2> QED
    BY <2>1, <2>2 DEF CopyRight
<1>11. SentRight(c, k, 0)
  <2> SUFFICES ASSUME NEW p \in DOMAIN push[c]
               PROVE  \/ RightIn(push[c][p], k, 0)
                      \/ \E q \in Own(c) : q > p /\ Counts(push[c][q].write, k)
                      \/ ToCount(c, k)
    BY DEF SentRight
  <2>1. CASE push[c][p].kind = "users" /\ push[c][p].users[k] # Null
    <3>1. push[c][p].users \in Users_ /\ k \in KeysOf(push[c][p].users)
      BY <2>1, MessageAt DEF KeysOf
    <3>2. push[c][p].users[k] \in Account /\ FitsIn(Tally, push[c][p].users[k])
      BY <1>2, <2>1, <3>1, CopyAccounts DEF DataFits
    <3>3. push[c][p].users[k].Username = users[k].Username /\ users[k] # Null
      <4>1. k \in KeysOf(users)
        BY <2>1, <3>1 DEF PresenceInv, Has
      <4> QED
        BY <2>1, <3>1, <4>1 DEF NamesInv, KeysOf
    <3>4. push[c][p].users[k].ItemsAuctioned = 0
      BY <1>3, <1>5, <3>2, <3>3
    <3> QED
      BY <2>1, <3>4 DEF RightIn
  <2>2. CASE push[c][p].kind = "users" /\ push[c][p].users[k] = Null
    <3>1. PICK i \in DOMAIN pending[c] : Creation(pending[c][i]) /\ pending[c][i].key = k
      BY <1>1, <2>2 DEF Base, Created
    <3>2. Counts(pending[c][i], k)
      BY <3>1, CreationCounts
    <3>3. CASE i > taken[c]
      BY <3>2, <3>3 DEF ToCount
    <3>4. CASE ~(i > taken[c])
      <4>1. PICK q \in Own(c) : push[c][q].write = pending[c][i]
        BY <3>4, AnswerOnItsWay DEF AnswersInv
      <4>2. q \in DOMAIN push[c] /\ push[c][q].kind = "write"
        BY <4>1 DEF Own
      <4>3. Has(push[c][q]) = {k}
        BY <3>1, <4>1, <4>2 DEF Has
      <4>4. k \notin Has(push[c][p])
        BY <2>2 DEF Has, KeysOf
      <4>5. ~(q < p)
        BY <2>2, <4>2, <4>3, <4>4 DEF PresenceInv
      <4>6. q # p
        BY <2>2, <4>2
      <4>7. q \in Nat /\ p \in Nat
        BY <4>2, MessageAt
      <4>8. q > p
        BY <4>5, <4>6, <4>7
      <4> QED
        BY <3>2, <4>1, <4>8
    <3> QED
      BY <3>3, <3>4
  <2>3. CASE push[c][p].kind # "users" /\ Counts(push[c][p].write, k)
    <3>1. push[c][p].write.key = k /\ push[c][p].write.to \in Account
      BY <2>3, MessageAt, WriteFields DEF Counts
    <3>2. FitsIn(Tally, push[c][p].write.to)
      BY <1>2, <2>3 DEF DataFits
    <3>3. users[k] # Null /\ push[c][p].write.to.Username = users[k].Username
      <4>1. k \in KeysOf(users)
        BY <2>3, <3>1 DEF PresenceInv, Has
      <4> QED
        BY <2>3, <3>1, <4>1 DEF NamesInv, KeysOf
    <3>4. push[c][p].write.to.ItemsAuctioned = 0
      BY <1>3, <1>5, <3>1, <3>2, <3>3
    <3> QED
      BY <2>3, <3>4 DEF RightIn
  <2>4. CASE push[c][p].kind # "users" /\ ~Counts(push[c][p].write, k)
    BY <2>4 DEF RightIn
  <2> QED
    BY <2>1, <2>2, <2>3, <2>4
<1> QED
  BY <1>0, <1>6, <1>7, <1>9, <1>10, <1>11

LEMMA UnhurriedSubmit ==
  ASSUME TypeOK, OneName, CountersInv, UsersFit, NEW c \in Clients, Local(c), CountsInv(c),
         Submit_Auction(c), UnhurriedInv
  PROVE  UnhurriedInv'
<1>0. PICK m \in Names : m = name[c]
  BY CountersSubmit
<1>1. /\ AskStep(c, "count") /\ "count" \in Op /\ signedIn[c]
      /\ submitters' = [submitters EXCEPT ![m] = @ \cup {c}]
      /\ disturbed' = IF Waits(c, "count") \/ \E d \in Clients \ {c} : Creates(d)
                      THEN disturbed \cup {m} ELSE disturbed
  BY <1>0 DEF Submit_Auction, AskStep, Op
<1>2. UNCHANGED <<users, cache, pending, taken, connected, listening, push, profile, name, signedIn>>
  BY <1>1 DEF AskStep, sdkVars
<1>3. \A d \in Clients \ {c} : inbox'[d] = inbox[d] /\ asked'[d] = asked[d]
  BY <1>1, Asked DEF Local
<1>4. \A i : i \in WaitsAt(c, "count")' <=> i \in WaitsAt(c, "count") \/ i = Waiting(c) + 1
  BY <1>1, QueueAsk
<1>5. \A n \in Names : Counted(n)' = Counted(n)
  BY CountersSubmit
<1>6. submitters \in [Names -> SUBSET Clients]
  BY DEF TypeOK
<1>7. /\ submitters'[m] = submitters[m] \cup {c}
      /\ \A n \in Names : n # m => submitters'[n] = submitters[n]
      /\ \A n \in Names : submitters[n] \subseteq submitters'[n]
  BY <1>1, <1>6
<1>8. \A d \in Clients : Counter(d)'
  <2>1. ASSUME NEW d \in Clients, d # c
        PROVE  Counter(d)'
    <3>1. WaitsAt(d, "count")' = WaitsAt(d, "count")
      BY <1>3, <2>1, QueueSame
    <3>2. Counter(d)
      BY UnhurriedNow
    <3> QED
      BY <1>2, <1>7, <3>1, <3>2, CounterKept
  <2>2. Counter(c)'
    <3>1. name'[c] \in Names /\ c \in submitters'[name'[c]]
      BY <1>0, <1>2, <1>7
    <3>2. ASSUME NEW i \in DOMAIN pending'[c], ~Creation(pending'[c][i]),
                 "ItemsAuctioned" \in pending'[c][i].sets
          PROVE  c \in submitters'[pending'[c][i].to.Username]
      <4>1. i \in DOMAIN pending[c] /\ pending'[c][i] = pending[c][i]
        BY <1>2, <3>2
      <4>2. pending[c][i].to.Username \in Names
        BY <4>1, WriteAt, AccountFields
      <4>3. c \in submitters[pending[c][i].to.Username]
        BY <3>2, <4>1, UnhurriedNow DEF Counter
      <4> QED
        BY <1>7, <4>1, <4>2, <4>3
    <3> QED
      BY <3>1, <3>2 DEF Counter, Creation
  <2> QED
    BY <2>1, <2>2
<1>9. ASSUME NEW n \in Names \ disturbed', NEW d \in Clients
      PROVE  Unhurried(d, n)'
  <2>1. n \notin disturbed
    BY <1>1, <1>9
  <2>2. Unhurried(d, n)
    BY <1>9, <2>1, UnhurriedNow
  <2>3. CASE n # m /\ d # c
    <3>1. \A k \in Keys : \A e \in Clients \ {d} : Created(e, k)' => Created(e, k)
      BY <1>2, CreatedFewer
    <3> QED
      BY <1>2, <1>3, <1>5, <1>7, <2>2, <2>3, <3>1, UnhurriedOther
  <2>4. CASE n # m /\ d = c
    <3>1. \A k \in Keys : \A v : v = Counted(n) /\ Parts(c, k, n, v) => Parts(c, k, n, v)'
      BY <1>1, PartsAsk DEF Parts
    <3>2. name'[c] # n
      BY <1>0, <1>2, <2>4
    <3> QED
      BY <1>5, <1>7, <2>2, <2>4, <3>1, <3>2, UnhurriedKept
  <2>5. CASE n = m
    <3> SUFFICES ASSUME submitters'[n] = {d}
                 PROVE  Unhurried(d, n)'
      BY DEF Unhurried
    <3>1. d = c /\ (submitters[m] = {} \/ submitters[m] = {c})
      BY <1>7, <2>5
    <3>2. ~Waits(c, "count") /\ \A e \in Clients \ {c} : ~Creates(e)
      BY <1>1, <1>9, <2>5
    <3>3. WaitsAt(c, "count") = {}
      BY <3>2, WaitsMeans DEF Local
    <3>4. \A i, j \in WaitsAt(c, "count")' : i = j
      BY <1>4, <3>3
    <3>5. PICK v : v = Counted(m)
      OBVIOUS
    <3>6. \E k \in Keys : /\ Held(c, k, m) /\ LastRight(c, k, v) /\ ServerRight(c, k, v)
                          /\ CopyRight(c, k, v) /\ SentRight(c, k, v)
      <4>1. CASE submitters[m] = {}
        <5>1. v = 0
          BY <3>5, <4>1, NothingCounted
        <5> QED
          BY <1>0, <1>1, <3>2, <4>1, <5>1, FirstParts
      <4>2. CASE submitters[m] = {c}
        <5>1. PICK k \in Keys : Exact(c, k, m)
          BY <2>2, <2>5, <3>1, <4>2 DEF Unhurried
        <5>2. Parts(c, k, m, v)
          BY <3>5, <5>1, ExactNow
        <5> QED
          BY <5>2 DEF Parts
      <4> QED
        BY <3>1, <4>1, <4>2
    <3>7. PICK k \in Keys : Parts(c, k, m, v)'
      BY <1>1, <3>6, PartsAsk
    <3>8. v = Counted(m)'
      BY <1>5, <3>5
    <3>9. Exact(c, k, m)'
      BY <3>7, <3>8, ExactNext
    <3> QED
      BY <2>5, <3>1, <3>4, <3>9 DEF Unhurried
  <2> QED
    BY <2>3, <2>4, <2>5
<1> QED
  BY <1>8, <1>9, UnhurriedNext

LEMMA RunNotCounts ==
  ASSUME TypeOK, OneName, NEW c \in Clients, Local(c), NEW op, RunStep(c, op),
         NEW k \in Keys, NEW n, Held(c, k, n), ~(op = "count" /\ name[c] = n), NEW i \in Added(c)
  PROVE  ~Counts(pending'[c][i], k)
<1> SUFFICES ASSUME Counts(pending'[c][i], k)
             PROVE  FALSE
  OBVIOUS
<1> DEFINE w == pending'[c][i]
<1>1. NewWrite(c, op, w) /\ w.key = k /\ "ItemsAuctioned" \in w.sets
  BY AddedWrite DEF Counts
<1>2. CASE Creation(w)
  <2>1. k \in Keys \ Used
    BY <1>1, <1>2 DEF NewWrite
  <2> QED
    BY <2>1, FreshKey DEF Held, Created, Base
<1>3. CASE ~Creation(w)
  <2>1. /\ op = "count" /\ k \in KeysOf(Snapshot(c)) /\ Snapshot(c)[k].Username = name[c]
    BY <1>1, <1>3 DEF NewWrite
  <2>2. Snapshot(c) = inbox[c][1].users /\ 1 \in DOMAIN inbox[c]
    BY RunFacts DEF RunStep
  <2>3. NameAt(c, k, name[c])
    BY <2>1, <2>2 DEF Local, NamesInv
  <2>4. name[c] = n
    BY <2>3, NameUnique DEF Held
  <2> QED
    BY <2>1, <2>4
<1> QED
  BY <1>2, <1>3

LEMMA HeldRun ==
  ASSUME TypeOK, NEW c \in Clients, NEW op, RunStep(c, op), NEW k \in Keys, NEW n, Held(c, k, n)
  PROVE  Held(c, k, n)'
<1>1. /\ users' = users /\ push' = push /\ cache'[c] \in {cache[c], Null}
      /\ \A d \in Clients \ {c} : pending'[d] = pending[d]
  BY RunFacts DEF RunStep, RunEvent
<1>2. /\ Created(c, k) => Created(c, k)'
      /\ NameAt(c, k, n) => NameAt(c, k, n)'
  BY <1>1, KeptWrite, CreatedNext, NameNext DEF Created, NameAt
<1>3. Base(c, k) => Base(c, k)'
  BY <1>1 DEF Base
<1>4. \A d \in Clients \ {c} : Created(d, k)' => Created(d, k)
  BY <1>1, CreatedFewer
<1> QED
  BY <1>2, <1>3, <1>4 DEF Held

(* A handler that does not count for k. *)
LEMMA PartsRunQuiet ==
  ASSUME TypeOK, OneName, NEW c \in Clients, Local(c), NEW op, RunStep(c, op),
         NEW k \in Keys, NEW n, NEW v, Parts(c, k, n, v), ~(op = "count" /\ name[c] = n),
         name'[c] = n => name[c] = n \/ \A i \in DOMAIN inbox'[c] : inbox'[c][i].op # "count"
  PROVE  Parts(c, k, n, v)'
<1>1. /\ users' = users /\ push' = push /\ cache'[c] \in {cache[c], Null} /\ taken' = taken
      /\ Behind(inbox[c], inbox'[c])
  BY RunFacts DEF RunStep, RunEvent
<1>2. \A i \in DOMAIN pending[c] : i \in DOMAIN pending'[c] /\ pending'[c][i] = pending[c][i]
  BY KeptWrite
<1>3. \A i \in DOMAIN pending'[c] : Counts(pending'[c][i], k) =>
        i \in DOMAIN pending[c] /\ pending'[c][i] = pending[c][i]
  BY KeptWrite, RunNotCounts DEF Parts
<1>4. Held(c, k, n)'
  BY HeldRun DEF Parts
<1>5. LastRight(c, k, v)'
  <2> SUFFICES ASSUME NEW i \in DOMAIN pending'[c], Counts(pending'[c][i], k),
                      \A j \in DOMAIN pending'[c] : j > i => ~Counts(pending'[c][j], k)
               PROVE  pending'[c][i].to.ItemsAuctioned = v
    BY DEF LastRight, Counts
  <2>1. i \in DOMAIN pending[c] /\ pending'[c][i] = pending[c][i]
    BY <1>3
  <2>2. \A j \in DOMAIN pending[c] : j > i => ~Counts(pending[c][j], k)
    BY <1>2
  <2> QED
    BY <2>1, <2>2 DEF Parts, LastRight
<1>6. ToCount(c, k) => ToCount(c, k)'
  BY <1>1, <1>2 DEF ToCount, Counts
<1>7. ServerRight(c, k, v)'
  BY <1>1, <1>6 DEF Parts, ServerRight
<1>8. CopyRight(c, k, v)'
  BY <1>1, <1>2 DEF Parts, CopyRight, Counts
<1>9. SentRight(c, k, v)'
  BY <1>1, <1>6 DEF Parts, SentRight, RightIn, Counts, Own
<1>10. ShownRight(c, k, n, v)'
  <2>1. \A i \in DOMAIN inbox'[c] : i + 1 \in DOMAIN inbox[c] /\ inbox'[c][i] = inbox[c][i + 1]
    BY <1>1 DEF Behind
  <2> QED
    BY <2>1 DEF Parts, ShownRight
<1> QED
  BY <1>4, <1>5, <1>7, <1>8, <1>9, <1>10 DEF Parts

(* The handler that counts for k writes one more. *)
LEMMA PartsRunCount ==
  ASSUME TypeOK, OneName, NEW c \in Clients, Local(c), RunStep(c, "count"),
         NEW k \in Keys, NEW n, NEW v \in Nat, Parts(c, k, n, v), name[c] = n,
         \A i, j \in WaitsAt(c, "count") : i = j
  PROVE  \A u : u = v + 1 => Parts(c, k, n, u)'
<1> SUFFICES ASSUME NEW u, u = v + 1
             PROVE  Parts(c, k, n, u)'
  OBVIOUS
<1>1. /\ users' = users /\ push' = push /\ taken' = taken
      /\ Behind(inbox[c], inbox'[c]) /\ 1 \in DOMAIN inbox[c] /\ inbox[c][1].op = "count"
      /\ Snapshot(c) = inbox[c][1].users
  <2>1. RunEvent(c, "count")
    BY DEF RunStep
  <2>2. /\ Behind(inbox[c], inbox'[c]) /\ 1 \in DOMAIN inbox[c] /\ inbox[c][1].op = "count"
        /\ Snapshot(c) = inbox[c][1].users
    BY <2>1, RunFacts
  <2> QED
    BY <2>1, <2>2 DEF RunEvent
<1>2. Held(c, k, n)'
  BY HeldRun DEF Parts
<1>3. Snapshot(c)[k] # Null /\ Snapshot(c)[k].ItemsAuctioned = v
  BY <1>1 DEF Parts, ShownRight
<1>4. Snapshot(c)[k].Username = n
  <2>1. NameAt(c, k, Snapshot(c)[k].Username)
    BY <1>1, <1>3 DEF Local, NamesInv, KeysOf
  <2> QED
    BY <2>1, NameUnique DEF Parts, Held
<1>5. k \in AccountsOf(Snapshot(c), name[c])
  BY <1>3, <1>4 DEF AccountsOf, Named
<1>6. PICK x \in Added(c) : pending'[c][x].key = k
  BY <1>5 DEF RunStep
<1>7. ASSUME NEW i \in Added(c), pending'[c][i].key = k
      PROVE  Counts(pending'[c][i], k) /\ pending'[c][i].to.ItemsAuctioned = u
  <2> DEFINE w == pending'[c][i]
  <2>1. NewWrite(c, "count", w)
    BY AddedWrite
  <2>2. ~Creation(w)
    BY <2>1 DEF NewWrite
  <2>3. "ItemsAuctioned" \in w.sets /\ w.to.ItemsAuctioned = Snapshot(c)[w.key].ItemsAuctioned + 1
    BY <2>1, <2>2 DEF NewWrite
  <2> QED
    BY <1>3, <1>7, <2>3 DEF Counts
<1>8. Counts(pending'[c][x], k) /\ x > taken[c] /\ x \in DOMAIN pending'[c]
      /\ \A i \in DOMAIN pending[c] : i < x
  BY <1>6, <1>7, AddedWrite
<1>9. ToCount(c, k)'
  BY <1>1, <1>8 DEF ToCount, Counts
<1>10. LastRight(c, k, u)'
  <2> SUFFICES ASSUME NEW i \in DOMAIN pending'[c], Counts(pending'[c][i], k),
                      \A j \in DOMAIN pending'[c] : j > i => ~Counts(pending'[c][j], k)
               PROVE  pending'[c][i].to.ItemsAuctioned = u
    BY DEF LastRight, Counts
  <2>1. i \notin DOMAIN pending[c]
    <3>1. ASSUME i \in DOMAIN pending[c]
          PROVE  FALSE
      <4>1. i < x /\ i \in Nat /\ x \in Nat
        BY <1>6, <1>8, <3>1, WriteAt, AddedWrite
      <4>2. x > i
        BY <4>1
      <4> QED
        BY <1>8, <4>2
    <3> QED
      BY <3>1
  <2>2. i \in Added(c)
    BY <2>1, KeptWrite
  <2>3. pending'[c][i].key = k
    BY DEF Counts
  <2> QED
    BY <1>7, <2>2, <2>3
<1>11. ServerRight(c, k, u)' /\ CopyRight(c, k, u)' /\ SentRight(c, k, u)'
  BY <1>8, <1>9 DEF ServerRight, CopyRight, SentRight, RightIn, Counts, Own
<1>12. ShownRight(c, k, n, u)'
  <2> SUFFICES ASSUME NEW i \in DOMAIN inbox'[c], inbox'[c][i].op = "count"
               PROVE  FALSE
    BY DEF ShownRight
  <2>1. i + 1 \in DOMAIN inbox[c] /\ inbox[c][i + 1].op = "count" /\ i \in Nat /\ i + 1 # 1
    BY <1>1, Shifted
  <2>2. WaitsAt(c, "count") = {j \in DOMAIN inbox[c] : inbox[c][j].op = "count"}
    BY QueueRun
  <2>3. i + 1 = 1
    BY <1>1, <2>1, <2>2
  <2> QED
    BY <2>1, <2>3
<1> QED
  BY <1>2, <1>10, <1>11, <1>12 DEF Parts

(* A login goes first: when it runs, nothing waits to be counted. *)
LEMMA LoginCountsNothing ==
  ASSUME TypeOK, NEW c \in Clients, Local(c), CountsInv(c), NEW op, RunStep(c, op),
         name'[c] # name[c]
  PROVE  WaitsAt(c, "count")' = {}
<1>1. op = "login"
  BY DEF RunStep
<1>2. 1 \in WaitsAt(c, "login")
  BY <1>1, QueueRun
<1>3. ASSUME NEW i \in WaitsAt(c, "count")'
      PROVE  FALSE
  <2>1. i \in Nat \ {0} /\ i + 1 \in WaitsAt(c, "count")
    BY <1>3, QueueRun
  <2>2. i + 1 < 1
    BY <1>2, <2>1 DEF CountsInv
  <2> QED
    BY <2>1, <2>2
<1> QED
  BY <1>3

(* A handler keeps the counts of undisturbed names. *)
LEMMA UnhurriedRun ==
  ASSUME TypeOK, OneName, CountersInv, NEW c \in Clients, Local(c), CountsInv(c),
         NEW op, RunStep(c, op), UnhurriedInv
  PROVE  UnhurriedInv'
<1>1. RunEvent(c, op) /\ UNCHANGED disturbed
      /\ \A d \in Clients \ {c} : pending'[d] = pending[d] /\ name'[d] = name[d]
  BY DEF RunStep
<1>2. UNCHANGED <<users, taken, push, submitters>>
  BY <1>1 DEF RunEvent
<1>3. /\ asked' = asked
      /\ \A d \in Clients \ {c} : inbox'[d] = inbox[d] /\ cache'[d] = cache[d]
  BY <1>1, RunFacts
<1>4. /\ \A n \in Names : n = name[c] /\ op = "count" => Counted(n)' = Counted(n) + 1
      /\ \A n \in Names : ~(n = name[c] /\ op = "count") => Counted(n)' = Counted(n)
  BY CountersRun
<1>5. op = "count" => name[c] \in Names /\ c \in submitters[name[c]]
  <2>1. 1 \in WaitsAt(c, "count") <=> op = "count"
    BY QueueRun
  <2> QED
    BY <2>1, UnhurriedNow DEF Counter
<1>6. ASSUME NEW d \in Clients, d # c
      PROVE  Counter(d)'
  <2>1. WaitsAt(d, "count")' = WaitsAt(d, "count")
    BY <1>3, <1>6, QueueSame
  <2>2. Counter(d)
    BY UnhurriedNow
  <2> QED
    BY <1>1, <1>2, <1>6, <2>1, <2>2, CounterKept
<1>7. Counter(c)'
  <2>1. ASSUME WaitsAt(c, "count")' # {}
        PROVE  name'[c] \in Names /\ c \in submitters'[name'[c]]
    <3>1. name'[c] = name[c]
      BY <2>1, LoginCountsNothing
    <3>2. WaitsAt(c, "count") # {}
      BY <2>1, QueueRun
    <3> QED
      BY <1>2, <3>1, <3>2, UnhurriedNow DEF Counter
  <2>2. ASSUME NEW i \in DOMAIN pending'[c], ~Creation(pending'[c][i]),
               "ItemsAuctioned" \in pending'[c][i].sets
        PROVE  c \in submitters'[pending'[c][i].to.Username]
    <3>1. CASE i \in DOMAIN pending[c]
      <4>1. pending'[c][i] = pending[c][i]
        BY <3>1, KeptWrite
      <4> QED
        BY <1>2, <2>2, <3>1, <4>1, UnhurriedNow DEF Counter
    <3>2. CASE i \in Added(c)
      <4>1. NewWrite(c, op, pending'[c][i])
        BY <3>2, AddedWrite
      <4>2. op = "count" /\ pending'[c][i].to.Username = name[c]
        BY <2>2, <4>1 DEF NewWrite
      <4> QED
        BY <1>2, <1>5, <4>2
    <3> QED
      BY <3>1, <3>2, KeptWrite
  <2> QED
    BY <2>1, <2>2 DEF Counter, Creation
<1>8. ASSUME NEW n \in Names \ disturbed', NEW d \in Clients, d # c
      PROVE  Unhurried(d, n)'
  <2>1. Unhurried(d, n)
    BY <1>1, <1>8, UnhurriedNow
  <2>2. submitters[n] = {d} => Counted(n)' = Counted(n)
    BY <1>4, <1>5, <1>8
  <2>3. ASSUME NEW k \in Keys, NEW e \in Clients \ {d}, Created(d, k) \/ Base(d, k), Created(e, k)'
        PROVE  Created(e, k)
    <3>1. CASE e # c
      BY <1>1, <2>3, <3>1, CreatedFewer
    <3>2. CASE e = c
      <4>1. PICK i \in DOMAIN pending'[c] : Creation(pending'[c][i]) /\ pending'[c][i].key = k
        BY <2>3, <3>2, CreatedNext
      <4>2. CASE i \in DOMAIN pending[c]
        BY <3>2, <4>1, <4>2, KeptWrite DEF Created
      <4>3. CASE i \in Added(c)
        <5>1. NewWrite(c, op, pending'[c][i])
          BY <4>3, AddedWrite
        <5>2. k \in Keys \ Used
          BY <4>1, <5>1 DEF NewWrite
        <5> QED
          BY <2>3, <5>2, FreshKey DEF Created, Base
      <4> QED
        BY <4>2, <4>3, KeptWrite
    <3> QED
      BY <3>1, <3>2
  <2> QED
    BY <1>1, <1>2, <1>3, <1>8, <2>1, <2>2, <2>3, UnhurriedOther
<1>9. ASSUME NEW n \in Names \ disturbed'
      PROVE  Unhurried(c, n)'
  <2> SUFFICES ASSUME submitters'[n] = {c}
               PROVE  /\ name'[c] = n => \A i, j \in WaitsAt(c, "count")' : i = j
                      /\ \E k \in Keys : Exact(c, k, n)'
    BY DEF Unhurried
  <2>1. Unhurried(c, n) /\ submitters[n] = {c}
    BY <1>1, <1>2, UnhurriedNow
  <2>2. ASSUME name'[c] = n, NEW i \in WaitsAt(c, "count")', NEW j \in WaitsAt(c, "count")'
        PROVE  i = j
    <3>1. name[c] = n
      BY <2>2, LoginCountsNothing
    <3>2. i \in Nat /\ j \in Nat /\ i + 1 \in WaitsAt(c, "count") /\ j + 1 \in WaitsAt(c, "count")
      BY <2>2, QueueRun
    <3>3. i + 1 = j + 1
      BY <2>1, <3>1, <3>2 DEF Unhurried
    <3> QED
      BY <3>2, <3>3
  <2>3. PICK k \in Keys : Exact(c, k, n)
    BY <2>1 DEF Unhurried
  <2>4. PICK v \in Nat : v = Counted(n)
    BY CountedType
  <2>5. Parts(c, k, n, v)
    BY <2>3, <2>4, ExactNow
  <2>6. CASE op = "count" /\ name[c] = n
    <3>1. \A i, j \in WaitsAt(c, "count") : i = j
      BY <2>1, <2>6 DEF Unhurried
    <3>2. RunStep(c, "count")
      BY <2>6
    <3>3. PICK u : u = v + 1
      OBVIOUS
    <3>4. Parts(c, k, n, u)'
      BY <2>5, <2>6, <3>1, <3>2, <3>3, PartsRunCount
    <3>5. u = Counted(n)'
      BY <1>4, <2>4, <2>6, <3>3
    <3> QED
      BY <2>2, <3>4, <3>5, ExactNext
  <2>7. CASE ~(op = "count" /\ name[c] = n)
    <3>1. name'[c] = n => name[c] = n \/ \A i \in DOMAIN inbox'[c] : inbox'[c][i].op # "count"
      <4> SUFFICES ASSUME name'[c] # name[c], NEW i \in DOMAIN inbox'[c], inbox'[c][i].op = "count"
                   PROVE  FALSE
        OBVIOUS
      <4>1. i \in WaitsAt(c, "count")'
        BY QueueRun
      <4> QED
        BY <4>1, LoginCountsNothing
    <3>2. Parts(c, k, n, v)'
      BY <2>5, <2>7, <3>1, PartsRunQuiet
    <3>3. v = Counted(n)'
      BY <1>4, <2>4, <2>7
    <3> QED
      BY <2>2, <3>2, <3>3, ExactNext
  <2> QED
    BY <2>6, <2>7
<1>10. \A d \in Clients : Counter(d)'
  BY <1>6, <1>7
<1>11. \A n \in Names \ disturbed', d \in Clients : Unhurried(d, n)'
  BY <1>8, <1>9
<1> QED
  BY <1>10, <1>11, UnhurriedNext

(* A step of c that counts nothing and writes nothing. *)
LEMMA UnhurriedStep ==
  ASSUME TypeOK, UnhurriedInv, NEW c \in Clients,
         UNCHANGED <<users, submitters, disturbed>>,
         \A n \in Names : Counted(n)' = Counted(n),
         \A d \in Clients \ {c} :
            /\ cache'[d] = cache[d] /\ pending'[d] = pending[d] /\ taken'[d] = taken[d]
            /\ push'[d] = push[d] /\ name'[d] = name[d]
            /\ inbox'[d] = inbox[d] /\ asked'[d] = asked[d],
         \A i \in DOMAIN pending'[c] : \E j \in DOMAIN pending[c] : pending'[c][i] = pending[c][j],
         WaitsAt(c, "count")' = WaitsAt(c, "count"), name'[c] = name[c],
         \A k \in Keys : \A n, v : Parts(c, k, n, v) => Parts(c, k, n, v)'
  PROVE  UnhurriedInv'
<1>1. ASSUME NEW d \in Clients
      PROVE  Counter(d)'
  <2>1. Counter(d)
    BY UnhurriedNow
  <2>2. WaitsAt(d, "count")' = WaitsAt(d, "count")
    BY QueueSame
  <2>3. \A i \in DOMAIN pending'[d] : \E j \in DOMAIN pending[d] : pending'[d][i] = pending[d][j]
    OBVIOUS
  <2>4. name'[d] = name[d]
    OBVIOUS
  <2> QED
    BY <2>1, <2>2, <2>3, <2>4, CounterKept
<1>2. ASSUME NEW n \in Names \ disturbed', NEW d \in Clients
      PROVE  Unhurried(d, n)'
  <2>1. Unhurried(d, n)
    BY <1>2, UnhurriedNow
  <2>2. CASE d = c
    BY <2>1, <2>2, UnhurriedKept
  <2>3. CASE d # c
    <3>1. \A k \in Keys : \A e \in Clients \ {d} : Created(e, k)' => Created(e, k)
      BY CreatedFewer
    <3> QED
      BY <2>1, <2>3, <3>1, UnhurriedOther
  <2> QED
    BY <2>2, <2>3
<1> QED
  BY <1>1, <1>2, UnhurriedNext

(* The steps that touch no data. *)
LEMMA UnhurriedQuiet ==
  ASSUME TypeOK, UnhurriedInv, NEW c \in Clients,
         \A n \in Names : Counted(n)' = Counted(n),
         UNCHANGED <<users, cache, pending, taken, push, name, inbox, asked, submitters, disturbed>>
  PROVE  UnhurriedInv'
<1>1. WaitsAt(c, "count")' = WaitsAt(c, "count")
  BY QueueSame
<1>2. ASSUME NEW k \in Keys, NEW n, NEW v, Parts(c, k, n, v)
      PROVE  Parts(c, k, n, v)'
  <2>1. \A d \in Clients \ {c} : Created(d, k)' => Created(d, k)
    BY CreatedFewer
  <2> QED
    BY <1>2, <2>1, PartsSame
<1> QED
  BY <1>1, <1>2, UnhurriedStep

(* Without a connection all writes are to be taken again. *)
LEMMA UnhurriedDisconnect ==
  ASSUME TypeOK, UnhurriedInv, NEW c \in Clients, Disconnect(c),
         \A n \in Names : Counted(n)' = Counted(n)
  PROVE  UnhurriedInv'
<1>1. /\ UNCHANGED <<users, cache, pending, asked, inbox, appVars>>
      /\ DOMAIN push'[c] = {} /\ taken'[c] = 0
      /\ \A d \in Clients \ {c} : push'[d] = push[d] /\ taken'[d] = taken[d]
  BY DisconnectStep
<1>2. UNCHANGED <<name, submitters, disturbed>>
  BY <1>1 DEF appVars
<1>3. WaitsAt(c, "count")' = WaitsAt(c, "count")
  BY <1>1, QueueSame
<1>4. ASSUME NEW k \in Keys, NEW n, NEW v, Parts(c, k, n, v)
      PROVE  Parts(c, k, n, v)'
  <2>1. Held(c, k, n)'
    <3>1. /\ Created(c, k) => Created(c, k)'
          /\ NameAt(c, k, n) => NameAt(c, k, n)'
      BY <1>1, CreatedNext, NameNext DEF Created, NameAt
    <3>2. Base(c, k) => Base(c, k)'
      BY <1>1 DEF Base
    <3>3. \A d \in Clients \ {c} : Created(d, k)' => Created(d, k)
      BY <1>1, CreatedFewer
    <3> QED
      BY <1>4, <3>1, <3>2, <3>3 DEF Held, Parts
  <2>2. ToCount(c, k) => ToCount(c, k)'
    <3>1. \A i \in DOMAIN pending[c] : i > 0
      BY WriteAt
    <3> QED
      BY <1>1, <3>1 DEF ToCount, Counts
  <2>3. LastRight(c, k, v)' /\ CopyRight(c, k, v)' /\ ShownRight(c, k, n, v)'
    BY <1>1, <1>2, <1>4 DEF Parts, LastRight, CopyRight, ShownRight, Counts
  <2>4. ServerRight(c, k, v)'
    BY <1>1, <1>4, <2>2 DEF Parts, ServerRight
  <2>5. SentRight(c, k, v)'
    BY <1>1 DEF SentRight
  <2> QED
    BY <2>1, <2>3, <2>4, <2>5 DEF Parts
<1>5. \A i \in DOMAIN pending'[c] : \E j \in DOMAIN pending[c] : pending'[c][i] = pending[c][j]
  BY <1>1
<1> QED
  BY <1>1, <1>2, <1>3, <1>4, <1>5, UnhurriedStep

(* The server sends its count, or takes another of c's afterwards. *)
LEMMA UnhurriedListen ==
  ASSUME TypeOK, UnhurriedInv, NEW c \in Clients, Local(c), ServerListen(c),
         \A n \in Names : Counted(n)' = Counted(n)
  PROVE  UnhurriedInv'
<1>1. PICK m \in Message :
        /\ m.kind = "users" /\ m.users = users
        /\ push'[c] = Append(push[c], m)
        /\ \A d \in Clients \ {c} : push'[d] = push[d]
        /\ UNCHANGED <<users, cache, pending, taken, connected, asked, inbox, appVars, left>>
  BY ServerListenStep
<1>2. UNCHANGED <<name, submitters, disturbed>>
  BY <1>1 DEF appVars
<1>3. WaitsAt(c, "count")' = WaitsAt(c, "count")
  BY <1>1, QueueSame
<1>4. PICK p : p = Len(push[c]) + 1
  OBVIOUS
<1>5. /\ DOMAIN push'[c] = DOMAIN push[c] \cup {p} /\ push'[c][p] = m
      /\ \A q \in DOMAIN push[c] : push'[c][q] = push[c][q]
  BY <1>1, <1>4, Sent
<1>6. ASSUME NEW k \in Keys, NEW n, NEW v, Parts(c, k, n, v)
      PROVE  Parts(c, k, n, v)'
  <2>1. Held(c, k, n)'
    <3>1. /\ Created(c, k) => Created(c, k)'
          /\ NameAt(c, k, n) => NameAt(c, k, n)'
      BY <1>1, CreatedNext, NameNext DEF Created, NameAt
    <3>2. Base(c, k) => Base(c, k)'
      BY <1>1, <1>5 DEF Base
    <3>3. \A d \in Clients \ {c} : Created(d, k)' => Created(d, k)
      BY <1>1, CreatedFewer
    <3> QED
      BY <1>6, <3>1, <3>2, <3>3 DEF Held, Parts
  <2>2. ToCount(c, k) => ToCount(c, k)'
    BY <1>1 DEF ToCount, Counts
  <2>3. LastRight(c, k, v)' /\ CopyRight(c, k, v)' /\ ShownRight(c, k, n, v)'
    BY <1>1, <1>2, <1>6 DEF Parts, LastRight, CopyRight, ShownRight, Counts
  <2>4. ServerRight(c, k, v)'
    BY <1>1, <1>6, <2>2 DEF Parts, ServerRight
  <2>5. SentRight(c, k, v)'
    <3> SUFFICES ASSUME NEW q \in DOMAIN push'[c]
                 PROVE  \/ RightIn(push'[c][q], k, v)
                        \/ \E r \in Own(c)' : r > q /\ Counts(push'[c][r].write, k)
                        \/ ToCount(c, k)'
      BY DEF SentRight, RightIn, Counts
    <3>1. CASE q = p
      <4>1. ServerRight(c, k, v)
        BY <1>6 DEF Parts
      <4>2. CASE ToCount(c, k)
        BY <2>2, <4>2
      <4>3. CASE users[k] # Null /\ users[k].ItemsAuctioned = v
        BY <1>1, <1>5, <3>1, <4>3 DEF RightIn
      <4> QED
        BY <4>1, <4>2, <4>3 DEF ServerRight
    <3>2. CASE q \in DOMAIN push[c]
      <4>1. \/ RightIn(push[c][q], k, v)
            \/ \E r \in Own(c) : r > q /\ Counts(push[c][r].write, k)
            \/ ToCount(c, k)
        BY <1>6, <3>2 DEF Parts, SentRight
      <4>2. \A r \in Own(c) : r \in Own(c)' /\ push'[c][r] = push[c][r]
        BY <1>5 DEF Own
      <4> QED
        BY <1>5, <2>2, <3>2, <4>1, <4>2
    <3> QED
      BY <1>5, <3>1, <3>2
  <2> QED
    BY <2>1, <2>3, <2>4, <2>5 DEF Parts
<1>7. \A i \in DOMAIN pending'[c] : \E j \in DOMAIN pending[c] : pending'[c][i] = pending[c][j]
  BY <1>1
<1> QED
  BY <1>1, <1>2, <1>3, <1>6, <1>7, UnhurriedStep

(* What follows the first message moves up. *)
LEMMA SentShift ==
  ASSUME TypeOK, NEW c \in Clients, NEW k \in Keys, NEW v, SentRight(c, k, v),
         Behind(push[c], push'[c]), ToCount(c, k) => ToCount(c, k)'
  PROVE  SentRight(c, k, v)'
<1> SUFFICES ASSUME NEW p \in DOMAIN push'[c]
             PROVE  \/ RightIn(push'[c][p], k, v)
                    \/ \E r \in Own(c)' : r > p /\ Counts(push'[c][r].write, k)
                    \/ ToCount(c, k)'
  BY DEF SentRight, RightIn, Counts
<1>1. p \in Nat /\ p + 1 \in DOMAIN push[c] /\ push'[c][p] = push[c][p + 1] /\ p + 1 # 1
  BY Shifted
<1>2. \/ RightIn(push[c][p + 1], k, v)
      \/ \E q \in Own(c) : q > p + 1 /\ Counts(push[c][q].write, k)
      \/ ToCount(c, k)
  BY <1>1 DEF SentRight
<1>3. ASSUME NEW q \in Own(c), q > p + 1, Counts(push[c][q].write, k)
      PROVE  \E r \in Own(c)' : r > p /\ Counts(push'[c][r].write, k)
  <2>1. q \in DOMAIN push[c] /\ q \in Nat /\ push[c][q].kind = "write" /\ push[c][q].from = c
    BY MessageAt DEF Own
  <2>2. q # 1
    BY <1>1, <1>3, <2>1
  <2>3. PICK r \in DOMAIN push'[c] : q = r + 1 /\ push'[c][r] = push[c][q]
    BY <2>1, <2>2, Shifted
  <2>4. r \in Own(c)'
    BY <2>1, <2>3 DEF Own
  <2>5. r \in Nat
    BY <2>3, Shifted
  <2>6. r > p
    BY <1>1, <1>3, <2>3, <2>5
  <2> QED
    BY <1>3, <2>3, <2>4, <2>6
<1> QED
  BY <1>1, <1>2, <1>3

(* The copy that arrives, or a write of c's that is on its way, is right. *)
LEMMA UnhurriedUsers ==
  ASSUME TypeOK, UnhurriedInv, NEW c \in Clients, Local(c), NEW us, UsersStep(c, us),
         \A n \in Names : Counted(n)' = Counted(n)
  PROVE  UnhurriedInv'
<1>1. /\ UNCHANGED <<users, pending, taken, submitters, disturbed, name>>
      /\ Behind(push[c], push'[c]) /\ 1 \in DOMAIN push[c]
      /\ push[c][1].kind = "users" /\ us = push[c][1].users /\ us \in Users_
      /\ \A d \in Clients \ {c} : /\ inbox'[d] = inbox[d] /\ asked'[d] = asked[d]
                                  /\ cache'[d] = cache[d] /\ push'[d] = push[d]
  BY DEF UsersStep, appVars
<1>2. WaitsAt(c, "count")' = WaitsAt(c, "count")
  BY QueueUsers
<1>3. \/ Observed(c) /\ cache'[c] = us /\ Grounded(us, pending[c])
      \/ cache'[c] = Null
  BY DEF UsersStep
<1>4. \/ inbox'[c] = inbox[c]
      \/ /\ Grounded(us, pending[c])
         /\ \A i \in DOMAIN inbox'[c] :
              i \in DOMAIN asked[c] /\ inbox'[c][i] = Event(asked[c][i], Seen(us, pending[c]))
  BY DEF UsersStep
<1>5. ASSUME NEW k \in Keys, NEW n, NEW v, Parts(c, k, n, v)
      PROVE  Parts(c, k, n, v)'
  <2>1. \/ us[k] # Null /\ us[k].ItemsAuctioned = v
        \/ \E i \in DOMAIN pending[c] : Counts(pending[c][i], k)
    <3>1. \/ RightIn(push[c][1], k, v)
          \/ \E q \in Own(c) : Counts(push[c][q].write, k)
          \/ ToCount(c, k)
      BY <1>1, <1>5 DEF Parts, SentRight
    <3>2. ASSUME NEW q \in Own(c), Counts(push[c][q].write, k)
          PROVE  \E i \in DOMAIN pending[c] : Counts(pending[c][i], k)
      BY <3>2, OwnPending DEF Local, AnswersInv
    <3> QED
      BY <1>1, <3>1, <3>2 DEF RightIn, ToCount
  <2>2. Base(c, k) => us[k] # Null
    BY <1>1 DEF Base
  <2>3. Base(c, k) => Base(c, k)'
    <3> SUFFICES ASSUME Base(c, k)
                 PROVE  Base(c, k)'
      OBVIOUS
    <3>1. cache'[c] # Null => cache'[c][k] # Null
      BY <1>3, <2>2
    <3>2. \A p \in DOMAIN push'[c] : push'[c][p].kind = "users" => push'[c][p].users[k] # Null
      BY <1>1, Shifted DEF Base
    <3> QED
      BY <1>1, <3>1, <3>2 DEF Base
  <2>4. Held(c, k, n)'
    <3>1. /\ Created(c, k) => Created(c, k)'
          /\ NameAt(c, k, n) => NameAt(c, k, n)'
      BY <1>1, CreatedNext, NameNext DEF Created, NameAt
    <3>2. \A d \in Clients \ {c} : Created(d, k)' => Created(d, k)
      BY <1>1, CreatedFewer
    <3> QED
      BY <1>5, <2>3, <3>1, <3>2 DEF Held, Parts
  <2>5. ToCount(c, k) => ToCount(c, k)'
    BY <1>1 DEF ToCount, Counts
  <2>6. LastRight(c, k, v)'
    BY <1>1, <1>5 DEF Parts, LastRight, Counts
  <2>7. ServerRight(c, k, v)'
    BY <1>1, <1>5, <2>5 DEF Parts, ServerRight
  <2>8. CopyRight(c, k, v)'
    BY <1>1, <1>3, <2>1 DEF CopyRight, Counts
  <2>9. SentRight(c, k, v)'
    BY <1>1, <1>5, <2>5, SentShift DEF Parts
  <2>10. ShownRight(c, k, n, v)'
    <3>1. CASE inbox'[c] = inbox[c]
      BY <1>1, <1>5, <3>1 DEF Parts, ShownRight
    <3>2. CASE /\ Grounded(us, pending[c])
               /\ \A i \in DOMAIN inbox'[c] :
                    i \in DOMAIN asked[c] /\ inbox'[c][i] = Event(asked[c][i], Seen(us, pending[c]))
      <4>1. LastRight(c, k, v) /\ (Created(c, k) \/ Base(c, k))
        BY <1>5 DEF Parts, Held
      <4>2. us[k] # Null \/ Created(c, k)
        BY <2>2, <4>1
      <4>3. /\ Seen(us, pending[c])[k] # Null
            /\ Seen(us, pending[c])[k].ItemsAuctioned = v
        BY <1>1, <2>1, <3>2, <4>1, <4>2, SeenCount
      <4>4. \A o, u : Event(o, u).users = u
        BY DEF Event
      <4>5. \A i \in DOMAIN inbox'[c] : inbox'[c][i].users = Seen(us, pending[c])
        BY <3>2, <4>4
      <4> QED
        BY <4>3, <4>5 DEF ShownRight
    <3> QED
      BY <1>4, <3>1, <3>2
  <2> QED
    BY <2>4, <2>6, <2>7, <2>8, <2>9, <2>10 DEF Parts
<1>6. \A i \in DOMAIN pending'[c] : \E j \in DOMAIN pending[c] : pending'[c][i] = pending[c][j]
  BY <1>1
<1>7. \A d \in Clients \ {c} :
        /\ cache'[d] = cache[d] /\ pending'[d] = pending[d] /\ taken'[d] = taken[d]
        /\ push'[d] = push[d] /\ name'[d] = name[d]
        /\ inbox'[d] = inbox[d] /\ asked'[d] = asked[d]
  BY <1>1
<1> QED
  BY <1>1, <1>2, <1>5, <1>6, <1>7, UnhurriedStep

(* Later answers are those of later writes. *)
LEMMA OwnLater ==
  ASSUME TypeOK, NEW c \in Clients, InOrder(c), 1 \in Own(c), NEW q \in Own(c), q # 1
  PROVE  \E i \in DOMAIN pending[c] : i # 1 /\ push[c][q].write = pending[c][i]
<1>1. taken[c] \in Nat /\ taken[c] <= Len(pending[c]) /\ pending[c] \in Seq(Write)
      /\ Len(pending[c]) \in Nat /\ DOMAIN pending[c] = 1..Len(pending[c])
  BY ClientTypes, Places
<1>2. PICK at \in [1..taken[c] -> DOMAIN push[c]] :
        /\ \A i, j \in 1..taken[c] : i < j => at[i] < at[j]
        /\ \A i \in 1..taken[c] : at[i] \in Own(c) /\ push[c][at[i]].write = pending[c][i]
        /\ \A p \in Own(c) : \E i \in 1..taken[c] : at[i] = p
  BY DEF InOrder
<1>3. PICK i \in 1..taken[c] : at[i] = q
  BY <1>2
<1>4. PICK j \in 1..taken[c] : at[j] = 1
  BY <1>2
<1>5. i # 1
  <2>1. SUFFICES ASSUME i = 1
                 PROVE  FALSE
    OBVIOUS
  <2>2. j # i /\ i < j
    BY <1>1, <1>3, <1>4, <2>1
  <2>3. q < 1
    BY <1>2, <1>3, <1>4, <2>2
  <2>4. q \in Nat \ {0}
    BY MessageAt DEF Own
  <2> QED
    BY <2>3, <2>4
<1>6. i \in DOMAIN pending[c]
  BY <1>1, <1>3
<1> QED
  BY <1>2, <1>3, <1>5, <1>6

(* A change that arrives leaves the copy right, if no write covers it. *)
LEMMA CopyWrite ==
  ASSUME TypeOK, NEW c \in Clients, Local(c), NEW w, WriteStep(c, w), NEW k \in Keys, NEW v,
         CopyRight(c, k, v), SentRight(c, k, v)
  PROVE  CopyRight(c, k, v)'
<1>1. /\ Behind(push[c], push'[c]) /\ 1 \in DOMAIN push[c]
      /\ push[c][1].kind = "write" /\ w = push[c][1].write /\ w \in Write
      /\ cache[c] = Null <=> cache'[c] = Null
  BY DEF WriteStep
<1>2. \/ /\ 1 \in Own(c) /\ taken[c] = taken'[c] + 1
         /\ 1 \in DOMAIN pending[c] /\ w = pending[c][1] /\ Behind(pending[c], pending'[c])
      \/ 1 \notin Own(c) /\ pending'[c] = pending[c]
  BY DEF WriteStep
<1> SUFFICES ASSUME cache[c] # Null, \A i \in DOMAIN pending'[c] : ~Counts(pending'[c][i], k)
             PROVE  cache'[c][k] # Null /\ cache'[c][k].ItemsAuctioned = v
  BY <1>1 DEF CopyRight, Counts
<1>3. ASSUME NEW i \in DOMAIN pending[c], Counts(pending[c][i], k)
      PROVE  1 \in Own(c) /\ i = 1 /\ w = pending[c][1]
  <2>1. CASE 1 \notin Own(c) /\ pending'[c] = pending[c]
    BY <1>3, <2>1
  <2>2. CASE /\ 1 \in Own(c) /\ w = pending[c][1] /\ Behind(pending[c], pending'[c])
    <3>1. i = 1 \/ \E r \in DOMAIN pending'[c] : pending'[c][r] = pending[c][i]
      BY <2>2, Shifted
    <3> QED
      BY <1>3, <2>2, <3>1
  <2> QED
    BY <1>2, <2>1, <2>2
<1>4. ~ToCount(c, k)
  <2> SUFFICES ASSUME NEW i \in DOMAIN pending[c], i > taken[c], Counts(pending[c][i], k)
               PROVE  FALSE
    BY DEF ToCount
  <2>1. 1 \in Own(c) /\ i = 1
    BY <1>3
  <2>2. taken[c] \in Nat /\ taken[c] >= 1
    BY <2>1, ClientTypes, Answered DEF Local, AnswersInv
  <2> QED
    BY <2>1, <2>2
<1>5. ASSUME NEW q \in Own(c), q > 1, Counts(push[c][q].write, k)
      PROVE  FALSE
  <2>1. q # 1
    BY <1>5
  <2>2. PICK i \in DOMAIN pending[c] : push[c][q].write = pending[c][i]
    BY OwnPending DEF Local, AnswersInv
  <2>3. 1 \in Own(c)
    BY <1>3, <1>5, <2>2
  <2>4. PICK j \in DOMAIN pending[c] : j # 1 /\ push[c][q].write = pending[c][j]
    BY <2>1, <2>3, OwnLater DEF Local, AnswersInv
  <2> QED
    BY <1>3, <1>5, <2>4
<1>6. RightIn(push[c][1], k, v)
  BY <1>1, <1>4, <1>5 DEF SentRight
<1>7. /\ KeysOf(cache'[c]) = KeysOf(cache[c]) \cup {w.key}
      /\ \A j \in Keys : j # w.key => cache'[c][j] = cache[c][j]
      /\ \A ch \in Children : /\ ch \in w.sets => cache'[c][w.key][ch] = w.to[ch]
                              /\ ch \notin w.sets => cache'[c][w.key][ch] = cache[c][w.key][ch]
  BY DEF WriteStep
<1>8. "ItemsAuctioned" \in Children
  BY DEF Children
<1>9. CASE Counts(w, k)
  <2>1. w.key = k /\ "ItemsAuctioned" \in w.sets
    BY <1>9 DEF Counts
  <2>2. w.to.ItemsAuctioned = v
    BY <1>1, <1>6, <1>9 DEF RightIn
  <2>3. cache'[c][k] # Null
    BY <1>7, <2>1 DEF KeysOf
  <2>4. cache'[c][k]["ItemsAuctioned"] = w.to["ItemsAuctioned"]
    BY <1>7, <1>8, <2>1
  <2> QED
    BY <2>2, <2>3, <2>4
<1>10. CASE ~Counts(w, k)
  <2>1. cache[c][k] # Null /\ cache[c][k].ItemsAuctioned = v
    BY <1>3, <1>10 DEF CopyRight
  <2>2. cache'[c][k] # Null
    BY <1>7, <2>1 DEF KeysOf
  <2>3. cache'[c][k]["ItemsAuctioned"] = cache[c][k]["ItemsAuctioned"]
    BY <1>7, <1>8, <1>10 DEF Counts
  <2> QED
    BY <2>1, <2>2, <2>3
<1> QED
  BY <1>9, <1>10

(* An answer uncovers what the server sent before it. *)
LEMMA UnhurriedWrite ==
  ASSUME TypeOK, UnhurriedInv, NEW c \in Clients, Local(c), NEW w, WriteStep(c, w),
         \A n \in Names : Counted(n)' = Counted(n)
  PROVE  UnhurriedInv'
<1>1. /\ UNCHANGED <<users, inbox, asked, submitters, disturbed, name>>
      /\ Behind(push[c], push'[c])
      /\ \A d \in Clients \ {c} : /\ cache'[d] = cache[d] /\ push'[d] = push[d]
                                  /\ pending'[d] = pending[d] /\ taken'[d] = taken[d]
  BY DEF WriteStep, appVars
<1>2. \/ /\ 1 \in Own(c) /\ taken[c] = taken'[c] + 1 /\ taken'[c] \in Nat
         /\ Behind(pending[c], pending'[c])
      \/ pending'[c] = pending[c] /\ taken'[c] = taken[c]
  BY DEF WriteStep
<1>3. \A i \in DOMAIN pending'[c] : \E j \in DOMAIN pending[c] : pending'[c][i] = pending[c][j]
  BY <1>2, Shifted
<1>4. ASSUME NEW k \in Keys, NEW n, NEW v, Parts(c, k, n, v)
      PROVE  Parts(c, k, n, v)'
  <2>1. Held(c, k, n)'
    <3>1. /\ Base(c, k) => Base(c, k)'
          /\ Created(c, k) => Created(c, k)' \/ Base(c, k)'
          /\ NameAt(c, k, n) => NameAt(c, k, n)'
      BY WriteKeeps
    <3>2. \A d \in Clients \ {c} : Created(d, k)' => Created(d, k)
      BY <1>1, CreatedFewer
    <3> QED
      BY <1>4, <3>1, <3>2 DEF Held, Parts
  <2>2. ToCount(c, k) => ToCount(c, k)'
    <3> SUFFICES ASSUME NEW i \in DOMAIN pending[c], i > taken[c], Counts(pending[c][i], k)
                 PROVE  ToCount(c, k)'
      BY DEF ToCount
    <3>1. CASE pending'[c] = pending[c] /\ taken'[c] = taken[c]
      BY <3>1 DEF ToCount, Counts
    <3>2. CASE /\ taken[c] = taken'[c] + 1 /\ taken'[c] \in Nat
               /\ Behind(pending[c], pending'[c])
      <4>1. i # 1
        BY <3>2
      <4>2. PICK j \in DOMAIN pending'[c] : i = j + 1 /\ pending'[c][j] = pending[c][i]
        BY <3>2, <4>1, Shifted
      <4>3. j \in Nat
        BY <3>2, <4>2, Shifted
      <4>4. j > taken'[c]
        BY <3>2, <4>2, <4>3
      <4> QED
        BY <4>2, <4>4 DEF ToCount, Counts
    <3> QED
      BY <1>2, <3>1, <3>2
  <2>3. LastRight(c, k, v)'
    <3>1. CASE pending'[c] = pending[c]
      BY <1>4, <3>1 DEF Parts, LastRight, Counts
    <3>2. CASE Behind(pending[c], pending'[c])
      <4> SUFFICES ASSUME NEW i \in DOMAIN pending'[c], Counts(pending'[c][i], k),
                          \A j \in DOMAIN pending'[c] : j > i => ~Counts(pending'[c][j], k)
                   PROVE  pending'[c][i].to.ItemsAuctioned = v
        BY DEF LastRight, Counts
      <4>1. i + 1 \in DOMAIN pending[c] /\ pending'[c][i] = pending[c][i + 1] /\ i \in Nat
        BY <3>2, Shifted
      <4>2. ASSUME NEW j \in DOMAIN pending[c], j > i + 1
            PROVE  ~Counts(pending[c][j], k)
        <5>1. j # 1
          BY <4>1, <4>2
        <5>2. PICK r \in DOMAIN pending'[c] : j = r + 1 /\ pending'[c][r] = pending[c][j]
          BY <3>2, <5>1, Shifted
        <5>3. r \in Nat
          BY <3>2, <5>2, Shifted
        <5>4. r > i
          BY <4>1, <4>2, <5>2, <5>3
        <5> QED
          BY <5>2, <5>4
      <4> QED
        BY <1>4, <4>1, <4>2 DEF Parts, LastRight
    <3> QED
      BY <1>2, <3>1, <3>2
  <2>4. ServerRight(c, k, v)'
    BY <1>1, <1>4, <2>2 DEF Parts, ServerRight
  <2>5. CopyRight(c, k, v)'
    BY <1>4, CopyWrite DEF Parts
  <2>6. SentRight(c, k, v)'
    BY <1>1, <1>4, <2>2, SentShift DEF Parts
  <2>7. ShownRight(c, k, n, v)'
    BY <1>1, <1>4 DEF Parts, ShownRight
  <2> QED
    BY <2>1, <2>3, <2>4, <2>5, <2>6, <2>7 DEF Parts
<1>5. WaitsAt(c, "count")' = WaitsAt(c, "count")
  BY <1>1, QueueSame
<1>6. \A d \in Clients \ {c} :
        /\ cache'[d] = cache[d] /\ pending'[d] = pending[d] /\ taken'[d] = taken[d]
        /\ push'[d] = push[d] /\ name'[d] = name[d]
        /\ inbox'[d] = inbox[d] /\ asked'[d] = asked[d]
  BY <1>1
<1> QED
  BY <1>1, <1>3, <1>4, <1>5, <1>6, UnhurriedStep

(* The server takes a write that sets the count of k only from c, or only  *)
(* where that does not matter.                                             *)
LEMMA PartsTake ==
  ASSUME TypeOK, OneName, NEW c \in Clients, Local(c), NEW w, TakeStep(c, w),
         NEW d \in Clients, NEW k \in Keys, NEW n, NEW v, Parts(d, k, n, v),
         Counts(w, k) => d = c
  PROVE  Parts(d, k, n, v)'
<1>1. /\ UNCHANGED <<cache, pending, inbox, asked, name>>
      /\ taken[c] + 1 \in DOMAIN pending[c] /\ w = pending[c][taken[c] + 1] /\ w \in Write
      /\ taken'[c] = taken[c] + 1
      /\ d # c => taken'[d] = taken[d]
      /\ KeysOf(users)' = KeysOf(users) \cup {w.key}
      /\ users'[w.key] # Null
      /\ \A j \in Keys : j # w.key => users'[j] = users[j]
      /\ \A ch \in Children : /\ ch \in w.sets => users'[w.key][ch] = w.to[ch]
                              /\ ch \notin w.sets => users'[w.key][ch] = users[w.key][ch]
  BY DEF TakeStep, appVars
<1>2. PICK m \in Message :
        /\ m.kind = "write" /\ m.from = c /\ m.write = w
        /\ push'[c] = Append(push[c], m)
        /\ d # c => \/ push'[d] = Append(push[d], m)
                    \/ push'[d] = push[d]
  BY DEF TakeStep
<1>3. PICK p : p = Len(push[d]) + 1
  OBVIOUS
<1>4. push'[d] = Append(push[d], m) =>
        /\ DOMAIN push'[d] = DOMAIN push[d] \cup {p} /\ push'[d][p] = m
        /\ \A q \in DOMAIN push[d] : push'[d][q] = push[d][q] /\ p > q
  <2>1. push'[d] = Append(push[d], m) =>
          /\ p \in Nat
          /\ DOMAIN push'[d] = DOMAIN push[d] \cup {p} /\ push'[d][p] = m
          /\ \A q \in DOMAIN push[d] : push'[d][q] = push[d][q] /\ q \in Nat /\ q < p
    BY <1>3, Sent
  <2>2. \A x, y \in Nat : x < y => y > x
    OBVIOUS
  <2> QED
    BY <2>1, <2>2
<1>5. /\ \A q \in DOMAIN push[d] : q \in DOMAIN push'[d] /\ push'[d][q] = push[d][q]
      /\ \A q \in DOMAIN push'[d] : q \in DOMAIN push[d] \/ push'[d][q] = m
  BY <1>2, <1>4
<1>6. taken[c] \in Nat /\ \A i \in DOMAIN pending[c] : i \in Nat
  BY ClientTypes, WriteAt
<1>7. ToCount(d, k) => ToCount(d, k)' \/ Counts(w, k)
  <2> SUFFICES ASSUME NEW i \in DOMAIN pending[d], i > taken[d], Counts(pending[d][i], k)
               PROVE  ToCount(d, k)' \/ Counts(w, k)
    BY DEF ToCount
  <2>1. CASE d = c
    <3>1. i = taken[c] + 1 \/ i > taken[c] + 1
      BY <1>6, <2>1
    <3> QED
      BY <1>1, <2>1, <3>1 DEF ToCount, Counts
  <2>2. CASE d # c
    BY <1>1, <2>2 DEF ToCount, Counts
  <2> QED
    BY <2>1, <2>2
<1>8. Counts(w, k) => ToCount(d, k)' \/ w.to.ItemsAuctioned = v
  <2> SUFFICES ASSUME Counts(w, k), ~ToCount(d, k)'
               PROVE  w.to.ItemsAuctioned = v
    OBVIOUS
  <2>1. \A j \in DOMAIN pending[c] : j > taken[c] + 1 => ~Counts(pending[c][j], k)
    BY <1>1 DEF ToCount, Counts
  <2> QED
    BY <1>1, <2>1 DEF Parts, LastRight
<1>9. Held(d, k, n)'
  <2>1. Created(d, k) => Created(d, k)'
    BY <1>1, CreatedNext DEF Created
  <2>2. NameAt(d, k, n)'
    BY TakeUsers DEF Local, Parts, Held
  <2>3. \A e \in Clients \ {d} : Created(e, k)' => Created(e, k)
    BY <1>1, CreatedFewer
  <2>4. Base(d, k) => Base(d, k)'
    <3>1. users[k] # Null => users'[k] # Null
      BY <1>1
    <3>2. m.kind # "users"
      BY <1>2
    <3> QED
      BY <1>1, <1>5, <3>1, <3>2 DEF Base
  <2> QED
    BY <2>1, <2>2, <2>3, <2>4 DEF Held, Parts
<1>10. LastRight(d, k, v)' /\ CopyRight(d, k, v)' /\ ShownRight(d, k, n, v)'
  BY <1>1 DEF Parts, LastRight, CopyRight, ShownRight, Counts
<1>11. ServerRight(d, k, v)'
  <2>1. "ItemsAuctioned" \in Children
    BY DEF Children
  <2>2. CASE Counts(w, k)
    <3>1. w.key = k /\ "ItemsAuctioned" \in w.sets
      BY <2>2 DEF Counts
    <3>2. users'[k]["ItemsAuctioned"] = w.to["ItemsAuctioned"] /\ users'[k] # Null
      BY <1>1, <2>1, <3>1
    <3> QED
      BY <1>8, <2>2, <3>2 DEF ServerRight
  <2>3. CASE ~Counts(w, k)
    <3>1. users[k] # Null => users'[k] # Null
      BY <1>1
    <3>2. users'[k]["ItemsAuctioned"] = users[k]["ItemsAuctioned"]
      BY <1>1, <2>1, <2>3 DEF Counts
    <3> QED
      BY <1>7, <2>3, <3>1, <3>2 DEF ServerRight, Parts
  <2> QED
    BY <2>2, <2>3
<1>12. SentRight(d, k, v)'
  <2> SUFFICES ASSUME NEW q \in DOMAIN push'[d], ~ToCount(d, k)'
               PROVE  \/ RightIn(push'[d][q], k, v)
                      \/ \E r \in Own(d)' : r > q /\ Counts(push'[d][r].write, k)
    BY DEF SentRight, RightIn, Counts
  <2>1. RightIn(m, k, v)
    BY <1>2, <1>8 DEF RightIn
  <2>2. CASE q \in DOMAIN push[d]
    <3>1. \/ RightIn(push[d][q], k, v)
          \/ \E r \in Own(d) : r > q /\ Counts(push[d][r].write, k)
          \/ ToCount(d, k)
      BY <2>2 DEF Parts, SentRight
    <3>2. \A r \in Own(d) : r \in Own(d)' /\ push'[d][r] = push[d][r]
      BY <1>5 DEF Own
    <3>3. ASSUME ToCount(d, k)
          PROVE  \E r \in Own(d)' : r > q /\ Counts(push'[d][r].write, k)
      <4>1. Counts(w, k) /\ d = c
        BY <1>7, <3>3
      <4>2. p \in DOMAIN push'[d] /\ push'[d][p] = m /\ p > q
        BY <1>2, <1>4, <2>2, <4>1
      <4>3. p \in Own(d)'
        BY <1>2, <4>1, <4>2 DEF Own
      <4> QED
        BY <1>2, <4>1, <4>2, <4>3
    <3> QED
      BY <1>5, <2>2, <3>1, <3>2, <3>3
  <2> QED
    BY <1>5, <2>1, <2>2
<1> QED
  BY <1>9, <1>10, <1>11, <1>12 DEF Parts

(* Nobody else counts for the name, so no other's write sets its count. *)
LEMMA UnhurriedTake ==
  ASSUME TypeOK, OneName, UnhurriedInv, NEW c \in Clients, Local(c), NEW w, TakeStep(c, w),
         \A n \in Names : Counted(n)' = Counted(n)
  PROVE  UnhurriedInv'
<1>1. /\ UNCHANGED <<pending, inbox, asked, name, submitters, disturbed>>
      /\ taken[c] + 1 \in DOMAIN pending[c] /\ w = pending[c][taken[c] + 1]
  BY DEF TakeStep, appVars
<1>2. \A d \in Clients : WaitsAt(d, "count")' = WaitsAt(d, "count")
  BY <1>1, QueueSame
<1>3. ASSUME NEW d \in Clients
      PROVE  Counter(d)'
  <2>1. Counter(d)
    BY UnhurriedNow
  <2> QED
    BY <1>1, <1>2, <2>1, CounterKept
<1>4. ASSUME NEW n \in Names \ disturbed', NEW d \in Clients
      PROVE  Unhurried(d, n)'
  <2> SUFFICES ASSUME submitters'[n] = {d}
               PROVE  Unhurried(d, n)'
    BY DEF Unhurried
  <2>1. Unhurried(d, n) /\ submitters[n] = {d}
    BY <1>1, UnhurriedNow
  <2>2. ASSUME NEW k \in Keys, NEW v, Parts(d, k, n, v), Counts(w, k), d # c
        PROVE  FALSE
    <3>1. NameAt(d, k, n) /\ ~Created(c, k)
      BY <2>2 DEF Parts, Held
    <3>2. ~Creation(w)
      BY <1>1, <2>2, <3>1 DEF Created, Counts
    <3>3. NameAt(c, k, w.to.Username)
      BY <2>2, TakeUsers DEF Local, Counts
    <3>4. w.to.Username = n
      BY <3>1, <3>3, NameUnique
    <3>5. Counter(c)
      BY UnhurriedNow
    <3>6. c \in submitters[n]
      BY <1>1, <2>2, <3>2, <3>4, <3>5 DEF Counter, Counts
    <3> QED
      BY <2>1, <2>2, <3>6
  <2>3. \A k \in Keys : \A v : v = Counted(n) /\ Parts(d, k, n, v) => Parts(d, k, n, v)'
    BY <2>2, PartsTake
  <2> QED
    BY <1>1, <1>2, <2>1, <2>3, UnhurriedKept
<1> QED
  BY <1>3, <1>4, UnhurriedNext

-----------------------------------------------------------------------------
(***************************************************************************)
(* The invariant                                                           *)
(***************************************************************************)
Core ==
    /\ TypeOK /\ OneName /\ CountersInv /\ UsersFit /\ MetInv /\ UnhurriedInv
    /\ \A c \in Clients : Local(c) /\ CountsInv(c)

LEMMA CoreMeans ==
  Core <=> TypeOK /\ AccountsInv
  BY DEF Core, AccountsInv, Local, CountersInv, UsersFit

LEMMA LoginsOf ==
  ASSUME NEW c \in Clients, CountsInv(c)
  PROVE  LoginsFirst(c)
  BY DEF CountsInv, LoginsFirst

(* A client to which nothing happens. *)
LEMMA OthersKeep ==
  ASSUME Core, TypeOK', CountersInv', \A n \in Names : Counted(n) <= Counted(n)',
         users' = users, NEW d \in Clients, Same(d)
  PROVE  Local(d)' /\ CountsInv(d)'
<1>1. Local(d)'
  BY LocalSame DEF Core
<1>2. LoginsFirst(d)'
  <2>1. \A op : WaitsAt(d, op)' = WaitsAt(d, op)
    BY QueueSame DEF Same
  <2>2. LoginsFirst(d)
    BY LoginsOf DEF Core
  <2>3. signedIn'[d] => signedIn[d]
    BY DEF Same
  <2> QED
    BY <2>1, <2>2, <2>3, LoginsKept
<1>3. /\ cache'[d] \in {cache[d], Null} /\ pending'[d] = pending[d]
      /\ inbox'[d] = inbox[d] /\ push'[d] = push[d]
  BY DEF Same
<1>4. TypeOK /\ CountersInv /\ CountsInv(d)
  BY DEF Core
<1> QED
  BY <1>1, <1>2, <1>3, <1>4, CountsSame

(* Equal numbers are ordered ones. *)
LEMMA CountedEqual ==
  ASSUME TypeOK, CountersInv, \A n \in Names : Counted(n)' = Counted(n)
  PROVE  \A n \in Names : Counted(n) <= Counted(n)'
<1>1. \A n \in Names : Counted(n) \in Nat
  BY CountedType
<1>2. \A x \in Nat : \A y : y = x => x <= y
  OBVIOUS
<1> QED
  BY ONLY <1>1, <1>2, \A n \in Names : Counted(n)' = Counted(n)

(* The parts of the invariant that no tap endangers. *)
LEMMA TapKeeps ==
  ASSUME Core, NEW c \in Clients, NEW op \in Op, AskStep(c, op), TypeOK', CountersInv',
         op = "login" => ~signedIn[c] /\ ~Waits(c, "login"),
         op = "count" => signedIn[c],
         \A n \in Names : Counted(n)' = Counted(n)
  PROVE  OneName' /\ UsersFit' /\ \A d \in Clients : Local(d)' /\ CountsInv(d)'
<1>1. /\ TypeOK /\ OneName /\ CountersInv /\ UsersFit /\ Local(c) /\ CountsInv(c)
  BY DEF Core
<1>2. /\ UNCHANGED <<users, cache, pending, taken, connected, listening, push, profile, name, signedIn>>
      /\ \A d \in Clients \ {c} : inbox'[d] = inbox[d] /\ asked'[d] = asked[d]
  <2>1. \A d \in Clients \ {c} : inbox'[d] = inbox[d] /\ asked'[d] = asked[d]
    BY <1>1, Asked DEF Local
  <2> QED
    BY <2>1 DEF AskStep, sdkVars
<1>3. \A n \in Names : Counted(n) <= Counted(n)'
  BY <1>1, CountedEqual
<1>4. OneName'
  BY <1>1, <1>2, OneNameFewer
<1>5. UsersFit'
  BY <1>1, <1>2, <1>3, UsersFitKept
<1>6. ASSUME NEW d \in Clients, d # c
      PROVE  Local(d)' /\ CountsInv(d)'
  <2>1. Same(d)
    BY <1>2, <1>6 DEF Same
  <2> QED
    BY <1>2, <1>3, <2>1, OthersKeep
<1>7. Local(c)'
  BY <1>1, LocalAsk
<1>8. LoginsFirst(c)'
  BY <1>1, LoginsOf, LoginsAsk
<1>9. CountsInv(c)'
  BY <1>1, <1>3, <1>8, CountsAsk
<1> QED
  BY <1>4, <1>5, <1>6, <1>7, <1>9

(* Taps that submit no auction count nothing. *)
LEMMA TapCounters ==
  ASSUME Core, NEW c \in Clients, NEW op \in Op, AskStep(c, op), op # "count",
         UNCHANGED <<submitted, submitters>>
  PROVE  CountersInv' /\ \A n \in Names : Counted(n)' = Counted(n)
<1>1. ASSUME NEW d \in Clients
      PROVE  name'[d] = name[d] /\ WaitsAt(d, "count")' = WaitsAt(d, "count")
  <2>1. name' = name
    BY DEF AskStep
  <2>2. CASE d = c
    <3>1. \A i : i \in WaitsAt(c, "count")' <=> i \in WaitsAt(c, "count")
      BY QueueAsk DEF Core
    <3> QED
      BY <2>1, <2>2, <3>1 DEF WaitsAt
  <2>3. CASE d # c
    <3>1. inbox'[d] = inbox[d] /\ asked'[d] = asked[d]
      BY <2>3, Asked DEF Core, Local
    <3> QED
      BY <2>1, <3>1, QueueSame
  <2> QED
    BY <2>2, <2>3
<1> QED
  BY <1>1, CountersSame DEF Core

LEMMA CoreSignUp ==
  ASSUME Core, NEW c \in Clients, SignUp(c)
  PROVE  Core'
<1>1. /\ "signUp" \in Op /\ AskStep(c, "signUp") /\ "signUp" # "count" /\ "signUp" # "login"
      /\ UNCHANGED <<submitted, submitters, disturbed>>
  BY DEF SignUp, AskStep, Op
<1>2. TypeOK' /\ CountersInv' /\ \A n \in Names : Counted(n)' = Counted(n)
  BY <1>1, TypeTaps, TapCounters DEF Core
<1>3. OneName' /\ UsersFit' /\ \A d \in Clients : Local(d)' /\ CountsInv(d)'
  BY <1>1, <1>2, TapKeeps
<1>4. MetInv'
  BY MetSignUp DEF Core, Local
<1>5. UnhurriedInv'
  BY <1>1, <1>2, UnhurriedAsk DEF Core
<1> QED
  BY <1>2, <1>3, <1>4, <1>5 DEF Core

LEMMA CoreLogin ==
  ASSUME Core, NEW c \in Clients, Login(c)
  PROVE  Core'
<1>1. /\ "login" \in Op /\ AskStep(c, "login") /\ "login" # "count" /\ "login" # "signUp"
      /\ UNCHANGED <<submitted, submitters, disturbed, met>>
      /\ ~signedIn[c] /\ ~Waits(c, "login")
  BY DEF Login, AskStep, Op, historyVars
<1>2. TypeOK' /\ CountersInv' /\ \A n \in Names : Counted(n)' = Counted(n)
  BY <1>1, TypeTaps, TapCounters DEF Core
<1>3. OneName' /\ UsersFit' /\ \A d \in Clients : Local(d)' /\ CountsInv(d)'
  BY <1>1, <1>2, TapKeeps
<1>4. MetInv'
  BY <1>1, MetAsk DEF Core
<1>5. UnhurriedInv'
  BY <1>1, <1>2, UnhurriedAsk DEF Core
<1> QED
  BY <1>2, <1>3, <1>4, <1>5 DEF Core

LEMMA CoreUpdateOther ==
  ASSUME Core, NEW c \in Clients, NEW child \in Others, UpdateOther(c, child)
  PROVE  Core'
<1>1. /\ child \in Op /\ child # "count" /\ child # "signUp" /\ child # "login"
      /\ AskStep(c, child) /\ UNCHANGED <<submitted, submitters, disturbed, met>>
  BY AccountsAssumption DEF UpdateOther, AskStep, Op, historyVars
<1>2. TypeOK' /\ CountersInv' /\ \A n \in Names : Counted(n)' = Counted(n)
  BY <1>1, TypeTaps, TapCounters DEF Core
<1>3. OneName' /\ UsersFit' /\ \A d \in Clients : Local(d)' /\ CountsInv(d)'
  BY <1>1, <1>2, TapKeeps
<1>4. MetInv'
  BY <1>1, MetAsk DEF Core
<1>5. UnhurriedInv'
  BY <1>1, <1>2, UnhurriedAsk DEF Core
<1> QED
  BY <1>2, <1>3, <1>4, <1>5 DEF Core

LEMMA CoreSubmit ==
  ASSUME Core, NEW c \in Clients, Submit_Auction(c)
  PROVE  Core'
<1>1. /\ "count" \in Op /\ AskStep(c, "count") /\ "count" # "login" /\ "count" # "signUp"
      /\ met' = met /\ signedIn[c]
  BY DEF Submit_Auction, AskStep, Op
<1>2. TypeOK' /\ CountersInv' /\ \A n \in Names : Counted(n)' = Counted(n)
  BY TypeTaps, CountersSubmit DEF Core
<1>3. OneName' /\ UsersFit' /\ \A d \in Clients : Local(d)' /\ CountsInv(d)'
  BY <1>1, <1>2, TapKeeps
<1>4. MetInv'
  BY <1>1, MetAsk DEF Core
<1>5. UnhurriedInv'
  BY UnhurriedSubmit DEF Core
<1> QED
  BY <1>2, <1>3, <1>4, <1>5 DEF Core

(* A handler. *)
LEMMA CoreRun ==
  ASSUME Core, NEW c \in Clients, NEW op, RunStep(c, op)
  PROVE  Core'
<1>1. /\ TypeOK /\ OneName /\ CountersInv /\ UsersFit /\ MetInv /\ UnhurriedInv
      /\ Local(c) /\ CountsInv(c) /\ \A d \in Clients : AnswersInv(d)
  BY DEF Core, Local
<1>2. TypeOK'
  BY <1>1, TypeRun
<1>3. /\ CountersInv'
      /\ \A n \in Names : n = name[c] /\ op = "count" => Counted(n)' = Counted(n) + 1
      /\ \A n \in Names : ~(n = name[c] /\ op = "count") => Counted(n)' = Counted(n)
  BY <1>1, CountersRun
<1>4. \A n \in Names : Counted(n) <= Counted(n)'
  <2> TAKE n \in Names
  <2>1. Counted(n) \in Nat
    BY <1>1, CountedType
  <2>2. Counted(n)' = Counted(n) + 1 \/ Counted(n)' = Counted(n)
    BY <1>3
  <2>3. \A x \in Nat : \A y : y = x + 1 \/ y = x => x <= y
    OBVIOUS
  <2> QED
    BY ONLY <2>1, <2>2, <2>3
<1>5. users' = users
  BY DEF RunStep, RunEvent
<1>6. OneName' /\ UsersFit' /\ MetInv' /\ UnhurriedInv'
  BY <1>1, <1>2, <1>3, <1>4, <1>5, OneNameRun, UsersFitKept, MetRun, UnhurriedRun
<1>7. ASSUME NEW d \in Clients, d # c
      PROVE  Local(d)' /\ CountsInv(d)'
  <2>1. RunEvent(c, op) /\ pending'[d] = pending[d] /\ name'[d] = name[d] /\ signedIn'[d] = signedIn[d]
    BY <1>7 DEF RunStep
  <2>2. /\ asked' = asked /\ profile' = profile /\ inbox'[d] = inbox[d] /\ cache'[d] = cache[d]
        /\ listening'[d] = listening[d]
    BY <1>1, <1>7, <2>1, RunFacts
  <2>3. UNCHANGED <<taken, connected, push>>
    BY <2>1 DEF RunEvent
  <2>4. Same(d)
    BY <2>1, <2>2, <2>3 DEF Same
  <2> QED
    BY <1>2, <1>3, <1>4, <1>5, <2>4, OthersKeep
<1>8. Local(c)' /\ CountsInv(c)'
  BY <1>1, <1>2, LocalRun, CountsRun
<1> QED
  BY <1>2, <1>3, <1>6, <1>7, <1>8 DEF Core

LEMMA CoreHandler ==
  ASSUME Core, NEW c \in Clients,
         \/ RunSignUp(c) \/ RunLogin(c) \/ RunCount(c)
         \/ \E child \in Others : RunUpdate(c, child)
  PROVE  Core'
<1>1. \E op : RunStep(c, op)
  BY RunSignUpStep, RunLoginStep, RunCountStep, RunUpdateStep DEF Core
<1> QED
  BY <1>1, CoreRun

(* Steps that leave names, queues and history alone count nothing. *)
LEMMA StillCounted ==
  ASSUME Core, UNCHANGED <<name, submitted, submitters>>,
         \A d \in Clients : WaitsAt(d, "count")' = WaitsAt(d, "count")
  PROVE  /\ CountersInv' /\ \A n \in Names : Counted(n)' = Counted(n)
         /\ \A n \in Names : Counted(n) <= Counted(n)'
<1>1. CountersInv' /\ \A n \in Names : Counted(n)' = Counted(n)
  BY CountersSame DEF Core
<1>2. \A n \in Names : Counted(n) <= Counted(n)'
  BY <1>1, CountedEqual DEF Core
<1> QED
  BY <1>1, <1>2

LEMMA CoreTake ==
  ASSUME Core, NEW c \in Clients, ServerTake(c)
  PROVE  Core'
<1>1. /\ TypeOK /\ OneName /\ CountersInv /\ UsersFit /\ MetInv /\ UnhurriedInv
      /\ Local(c) /\ CountsInv(c) /\ \A d \in Clients : AnswersInv(d) /\ Local(d) /\ CountsInv(d)
  BY DEF Core, Local
<1>2. PICK w : TakeStep(c, w)
  BY <1>1, ServerTakeStep DEF Local
<1>3. UNCHANGED <<inbox, asked, name, submitted, submitters>>
  BY <1>2 DEF TakeStep, appVars
<1>4. \A d \in Clients : WaitsAt(d, "count")' = WaitsAt(d, "count")
  BY <1>3, QueueSame
<1>5. CountersInv' /\ \A n \in Names : Counted(n)' = Counted(n)
  BY <1>3, <1>4, StillCounted
<1>6. TypeOK'
  BY <1>1, <1>2, TypeTake
<1>7. UsersFit' /\ \A d \in Clients : CountsInv(d)'
  BY <1>1, <1>2, <1>5, <1>6, CountsTake
<1>8. \A d \in Clients : Local(d)'
  BY <1>1, <1>2, LocalTake
<1>9. OneName'
  BY <1>1, <1>2, OneNameTake DEF Local
<1>10. MetInv'
  BY <1>1, <1>2, MetTake
<1>11. UnhurriedInv'
  BY <1>1, <1>2, <1>5, UnhurriedTake
<1> QED
  BY <1>5, <1>6, <1>7, <1>8, <1>9, <1>10, <1>11 DEF Core

LEMMA CoreUsers ==
  ASSUME Core, NEW c \in Clients, ReceiveUsers(c)
  PROVE  Core'
<1>1. /\ TypeOK /\ OneName /\ CountersInv /\ UsersFit /\ MetInv /\ UnhurriedInv
      /\ Local(c) /\ CountsInv(c)
  BY DEF Core
<1>2. PICK us : UsersStep(c, us)
  BY <1>1, ReceiveUsersStep DEF Local
<1>3. /\ UNCHANGED <<users, pending, taken, connected, listening, profile, name, signedIn,
                     submitted, submitters>>
      /\ \A d \in Clients \ {c} : /\ inbox'[d] = inbox[d] /\ asked'[d] = asked[d]
                                  /\ cache'[d] = cache[d] /\ push'[d] = push[d]
  BY <1>2 DEF UsersStep, appVars
<1>4. \A d \in Clients : WaitsAt(d, "count")' = WaitsAt(d, "count")
  BY <1>1, <1>2, <1>3, QueueSame, QueueUsers
<1>5. /\ CountersInv' /\ \A n \in Names : Counted(n)' = Counted(n)
      /\ \A n \in Names : Counted(n) <= Counted(n)'
  BY <1>3, <1>4, StillCounted
<1>6. TypeOK'
  BY <1>1, <1>2, TypeUsers
<1>7. UsersFit'
  BY <1>1, <1>3, <1>5, <1>6, UsersFitKept
<1>8. ASSUME NEW d \in Clients, d # c
      PROVE  Local(d)' /\ CountsInv(d)'
  <2>1. Same(d)
    BY <1>3, <1>8 DEF Same
  <2> QED
    BY <1>3, <1>5, <1>6, <2>1, OthersKeep
<1>9. Local(c)' /\ CountsInv(c)'
  BY <1>1, <1>2, <1>5, <1>6, LocalUsers, CountsUsers
<1>10. OneName'
  BY <1>1, <1>3, OneNameFewer
<1>11. MetInv' /\ UnhurriedInv'
  BY <1>1, <1>2, <1>5, MetUsers, UnhurriedUsers
<1> QED
  BY <1>5, <1>6, <1>7, <1>8, <1>9, <1>10, <1>11 DEF Core

LEMMA CoreWrite ==
  ASSUME Core, NEW c \in Clients, ReceiveWrite(c)
  PROVE  Core'
<1>1. /\ TypeOK /\ OneName /\ CountersInv /\ UsersFit /\ MetInv /\ UnhurriedInv
      /\ Local(c) /\ CountsInv(c)
  BY DEF Core
<1>2. PICK w : WriteStep(c, w)
  BY <1>1, ReceiveWriteStep DEF Local
<1>3. /\ UNCHANGED <<users, connected, listening, asked, inbox, profile, name, signedIn,
                     submitted, submitters>>
      /\ \A d \in Clients \ {c} : /\ pending'[d] = pending[d] /\ taken'[d] = taken[d]
                                  /\ cache'[d] = cache[d] /\ push'[d] = push[d]
      /\ Behind(pending[c], pending'[c]) \/ pending'[c] = pending[c]
  BY <1>2 DEF WriteStep, appVars
<1>4. \A d \in Clients : WaitsAt(d, "count")' = WaitsAt(d, "count")
  BY <1>3, QueueSame
<1>5. /\ CountersInv' /\ \A n \in Names : Counted(n)' = Counted(n)
      /\ \A n \in Names : Counted(n) <= Counted(n)'
  BY <1>3, <1>4, StillCounted
<1>6. TypeOK'
  BY <1>1, <1>2, TypeWrite
<1>7. UsersFit'
  BY <1>1, <1>3, <1>5, <1>6, UsersFitKept
<1>8. ASSUME NEW d \in Clients, d # c
      PROVE  Local(d)' /\ CountsInv(d)'
  <2>1. Same(d)
    BY <1>3, <1>8 DEF Same
  <2> QED
    BY <1>3, <1>5, <1>6, <2>1, OthersKeep
<1>9. Local(c)'
  BY <1>1, <1>2, LocalWrite
<1>10. CountsInv(c)'
  BY <1>1, <1>2, <1>5, <1>6, <1>9, CountsWrite
<1>11. OneName'
  <2>1. \A i \in DOMAIN pending'[c] : \E j \in DOMAIN pending[c] : pending'[c][i] = pending[c][j]
    BY <1>3, Shifted
  <2>2. \A d \in Clients : \A i \in DOMAIN pending'[d] :
          \E j \in DOMAIN pending[d] : pending'[d][i] = pending[d][j]
    BY <1>3, <2>1
  <2> QED
    BY <1>1, <1>3, <2>2, OneNameFewer
<1>12. MetInv' /\ UnhurriedInv'
  BY <1>1, <1>2, <1>5, MetWrite, UnhurriedWrite
<1> QED
  BY <1>5, <1>6, <1>7, <1>8, <1>9, <1>10, <1>11, <1>12 DEF Core

LEMMA CoreListen ==
  ASSUME Core, NEW c \in Clients, ServerListen(c)
  PROVE  Core'
<1>1. /\ TypeOK /\ OneName /\ CountersInv /\ UsersFit /\ MetInv /\ UnhurriedInv
      /\ Local(c) /\ CountsInv(c)
  BY DEF Core
<1>2. /\ \A d \in Clients \ {c} : push'[d] = push[d] /\ listening'[d] = listening[d]
      /\ UNCHANGED <<users, cache, pending, taken, connected, asked, inbox, appVars>>
  BY <1>1, ServerListenStep
<1>3. UNCHANGED <<profile, name, signedIn, submitted, submitters>>
  BY <1>2 DEF appVars
<1>4. \A d \in Clients : WaitsAt(d, "count")' = WaitsAt(d, "count")
  BY <1>2, QueueSame
<1>5. /\ CountersInv' /\ \A n \in Names : Counted(n)' = Counted(n)
      /\ \A n \in Names : Counted(n) <= Counted(n)'
  BY <1>3, <1>4, StillCounted
<1>6. TypeOK'
  BY <1>1, TypeListen
<1>7. UsersFit'
  BY <1>1, <1>2, <1>5, <1>6, UsersFitKept
<1>8. ASSUME NEW d \in Clients, d # c
      PROVE  Local(d)' /\ CountsInv(d)'
  <2>1. Same(d)
    BY <1>2, <1>3, <1>8 DEF Same
  <2> QED
    BY <1>2, <1>5, <1>6, <2>1, OthersKeep
<1>9. Local(c)' /\ CountsInv(c)'
  BY <1>1, <1>5, <1>6, LocalListen, CountsListen
<1>10. OneName'
  BY <1>1, <1>2, OneNameFewer
<1>11. MetInv' /\ UnhurriedInv'
  BY <1>1, <1>5, MetListen, UnhurriedListen
<1> QED
  BY <1>5, <1>6, <1>7, <1>8, <1>9, <1>10, <1>11 DEF Core

LEMMA CoreDisconnect ==
  ASSUME Core, NEW c \in Clients, Disconnect(c)
  PROVE  Core'
<1>1. /\ TypeOK /\ OneName /\ CountersInv /\ UsersFit /\ MetInv /\ UnhurriedInv
      /\ Local(c) /\ CountsInv(c)
  BY DEF Core
<1>2. /\ UNCHANGED <<users, cache, pending, asked, inbox, appVars>>
      /\ push'[c] = <<>>
      /\ \A d \in Clients \ {c} : /\ push'[d] = push[d] /\ taken'[d] = taken[d]
                                  /\ listening'[d] = listening[d] /\ connected'[d] = connected[d]
  BY <1>1, DisconnectStep
<1>3. UNCHANGED <<profile, name, signedIn, submitted, submitters, met>>
  BY <1>2 DEF appVars
<1>4. \A d \in Clients : WaitsAt(d, "count")' = WaitsAt(d, "count")
  BY <1>2, QueueSame
<1>5. /\ CountersInv' /\ \A n \in Names : Counted(n)' = Counted(n)
      /\ \A n \in Names : Counted(n) <= Counted(n)'
  BY <1>3, <1>4, StillCounted
<1>6. TypeOK'
  BY <1>1, TypeDisconnect
<1>7. UsersFit'
  BY <1>1, <1>2, <1>5, <1>6, UsersFitKept
<1>8. ASSUME NEW d \in Clients, d # c
      PROVE  Local(d)' /\ CountsInv(d)'
  <2>1. Same(d)
    BY <1>2, <1>3, <1>8 DEF Same
  <2> QED
    BY <1>2, <1>5, <1>6, <2>1, OthersKeep
<1>9. Local(c)' /\ CountsInv(c)'
  BY <1>1, <1>5, <1>6, LocalDisconnect, CountsDisconnect
<1>10. OneName'
  BY <1>1, <1>2, OneNameFewer
<1>11. MetInv'
  BY <1>1, <1>2, <1>3, MetQuiet
<1>12. UnhurriedInv'
  BY <1>1, <1>5, UnhurriedDisconnect
<1> QED
  BY <1>5, <1>6, <1>7, <1>8, <1>9, <1>10, <1>11, <1>12 DEF Core

(* Steps that touch neither data nor queues. *)
LEMMA CoreQuiet ==
  ASSUME Core, NEW c \in Clients, TypeOK', Local(c)', signedIn'[c] => signedIn[c],
         UNCHANGED <<users, cache, pending, taken, push, name, inbox, asked,
                     submitted, submitters, disturbed, met>>,
         \A d \in Clients \ {c} : Same(d)
  PROVE  Core'
<1>1. /\ TypeOK /\ OneName /\ CountersInv /\ UsersFit /\ MetInv /\ UnhurriedInv
      /\ Local(c) /\ CountsInv(c)
  BY DEF Core
<1>2. \A d \in Clients : \A op : WaitsAt(d, op)' = WaitsAt(d, op)
  BY QueueSame
<1>3. /\ CountersInv' /\ \A n \in Names : Counted(n)' = Counted(n)
      /\ \A n \in Names : Counted(n) <= Counted(n)'
  BY <1>2, StillCounted
<1>4. UsersFit'
  BY <1>1, <1>3, UsersFitKept
<1>5. LoginsFirst(c)'
  BY <1>1, <1>2, LoginsOf, LoginsKept
<1>6. CountsInv(c)'
  BY <1>1, <1>3, <1>5, CountsSame
<1>7. \A d \in Clients \ {c} : Local(d)' /\ CountsInv(d)'
  BY <1>3, OthersKeep
<1>8. OneName'
  BY <1>1, OneNameFewer
<1>9. MetInv'
  BY <1>1, MetQuiet
<1>10. UnhurriedInv'
  BY <1>1, <1>3, UnhurriedQuiet
<1> QED
  BY <1>3, <1>4, <1>6, <1>7, <1>8, <1>9, <1>10 DEF Core

LEMMA CoreSignOut ==
  ASSUME Core, NEW c \in Clients, SignOut(c)
  PROVE  Core'
<1>1. TypeOK' /\ Local(c)'
  BY TypeSignOut, LocalSignOut DEF Core
<1>2. /\ UNCHANGED <<users, cache, pending, taken, connected, listening, push, profile, name,
                     inbox, asked, submitted, submitters, disturbed, met>>
      /\ signedIn[c] /\ signedIn' = [signedIn EXCEPT ![c] = FALSE]
  BY DEF SignOut, sdkVars, historyVars
<1>3. \A d \in Clients \ {c} : Same(d)
  BY <1>2 DEF Same
<1> QED
  BY <1>1, <1>2, <1>3, CoreQuiet

LEMMA CoreOpenProfile ==
  ASSUME Core, NEW c \in Clients, OpenProfile(c)
  PROVE  Core'
<1>1. TypeOK' /\ Local(c)'
  BY TypeOpenProfile, LocalOpenProfile DEF Core
<1>2. /\ UNCHANGED <<users, cache, pending, taken, connected, listening, push, signedIn, name,
                     inbox, asked, submitted, submitters, disturbed, met>>
      /\ profile' = [profile EXCEPT ![c] = TRUE]
  BY DEF OpenProfile, sdkVars, historyVars
<1>3. \A d \in Clients \ {c} : Same(d)
  BY <1>2 DEF Same
<1> QED
  BY <1>1, <1>2, <1>3, CoreQuiet

LEMMA CoreConnect ==
  ASSUME Core, NEW c \in Clients, Connect(c)
  PROVE  Core'
<1>1. TypeOK' /\ Local(c)'
  BY TypeConnect, LocalConnect DEF Core
<1>2. /\ UNCHANGED <<users, cache, pending, taken, listening, push, profile, signedIn, name,
                     inbox, asked, submitted, submitters, disturbed, met>>
      /\ connected' = [connected EXCEPT ![c] = TRUE]
  BY DEF Connect, appVars
<1>3. \A d \in Clients \ {c} : Same(d)
  BY <1>2 DEF Same
<1> QED
  BY <1>1, <1>2, <1>3, CoreQuiet

(* Every step keeps the invariant. *)
LEMMA CoreNext ==
  ASSUME Core, [Next]_vars
  PROVE  Core'
<1>1. CASE UNCHANGED vars
  <2>1. UNCHANGED <<users, cache, pending, taken, connected, listening, push, asked, inbox, profile,
                    name, signedIn, submitted, submitters, disturbed, met, left>>
    BY <1>1 DEF vars
  <2>2. TypeOK'
    BY <2>1 DEF Core, TypeOK, Observed, Waiting
  <2>3. CountersInv' /\ \A n \in Names : Counted(n) <= Counted(n)'
    BY <2>1, QueueSame, StillCounted
  <2>4. \A d \in Clients : Local(d)' /\ CountsInv(d)'
    <3>1. \A d \in Clients : Same(d)
      BY <2>1 DEF Same
    <3> QED
      BY <2>1, <2>2, <2>3, <3>1, OthersKeep
  <2>5. OneName'
    BY <2>1, OneNameFewer DEF Core
  <2>6. UsersFit'
    BY <2>1, <2>2, <2>3, UsersFitKept DEF Core
  <2>7. MetInv'
    BY <2>1, MetQuiet DEF Core
  <2>8. UnhurriedInv'
    <3>1. ASSUME NEW c \in Clients
          PROVE  UnhurriedInv'
      BY <2>1, <2>3, QueueSame, StillCounted, UnhurriedQuiet DEF Core
    <3>2. ASSUME Clients = {}
          PROVE  UnhurriedInv'
      BY <3>2 DEF UnhurriedInv
    <3> QED
      BY <3>1, <3>2
  <2> QED
    BY <2>2, <2>3, <2>4, <2>5, <2>6, <2>7, <2>8 DEF Core
<1>2. ASSUME NEW c \in Clients, SignUp(c) \/ Login(c) \/ Submit_Auction(c)
      PROVE  Core'
  BY <1>2, CoreSignUp, CoreLogin, CoreSubmit
<1>3. ASSUME NEW c \in Clients, NEW child \in Others, UpdateOther(c, child)
      PROVE  Core'
  BY <1>3, CoreUpdateOther
<1>4. ASSUME NEW c \in Clients,
             \/ RunSignUp(c) \/ RunLogin(c) \/ RunCount(c)
             \/ \E child \in Others : RunUpdate(c, child)
      PROVE  Core'
  BY <1>4, CoreHandler
<1>5. ASSUME NEW c \in Clients, SignOut(c) \/ OpenProfile(c) \/ Connect(c) \/ Disconnect(c)
      PROVE  Core'
  BY <1>5, CoreSignOut, CoreOpenProfile, CoreConnect, CoreDisconnect
<1>6. ASSUME NEW c \in Clients,
             ServerListen(c) \/ ServerTake(c) \/ ReceiveUsers(c) \/ ReceiveWrite(c)
      PROVE  Core'
  BY <1>6, CoreListen, CoreTake, CoreUsers, CoreWrite
<1> QED
  BY <1>1, <1>2, <1>3, <1>4, <1>5, <1>6 DEF Next

(* At the start there are at most one account and nothing on its way. *)
LEMMA CoreInit ==
  ASSUME Init
  PROVE  Core
<1>1. /\ cache = [c \in Clients |-> Null]
      /\ pending = [c \in Clients |-> <<>>]
      /\ taken = [c \in Clients |-> 0]
      /\ connected = [c \in Clients |-> FALSE]
      /\ listening = [c \in Clients |-> FALSE]
      /\ push = [c \in Clients |-> <<>>]
      /\ asked = [c \in Clients |-> <<>>]
      /\ inbox = [c \in Clients |-> <<>>]
      /\ profile = [c \in Clients |-> FALSE]
      /\ name = [c \in Clients |-> Null]
      /\ signedIn = [c \in Clients |-> FALSE]
      /\ submitted = [n \in Names |-> 0]
      /\ submitters = [n \in Names |-> {}]
      /\ disturbed = {}
      /\ met = FALSE
      /\ left = [uses |-> MaxUses, logins |-> MaxLogins, losses |-> MaxLosses]
  BY DEF Init
<1>2. PICK j \in Keys : \E n \in StoredNames :
        users = [k \in Keys |-> IF n # Null /\ k = j THEN NewAccount(n) ELSE Null]
  BY DEF Init
<1>3. PICK n \in StoredNames :
        users = [k \in Keys |-> IF n # Null /\ k = j THEN NewAccount(n) ELSE Null]
  BY <1>2
<1>4. users \in Users_ /\ \A k \in KeysOf(users) : k = j /\ users[k].ItemsAuctioned = 0
  <2>1. n # Null => NewAccount(n) \in Account
    BY AccountsAssumption DEF NewAccount, Account
  <2>2. NewAccount(n).ItemsAuctioned = 0
    BY DEF NewAccount
  <2> QED
    BY <1>3, <2>1, <2>2 DEF Users_, KeysOf
<1>5. \A c \in Clients : /\ DOMAIN pending[c] = {} /\ DOMAIN push[c] = {} /\ DOMAIN inbox[c] = {}
                         /\ Len(inbox[c]) = 0 /\ Len(asked[c]) = 0 /\ Waiting(c) = 0
                         /\ Len(pending[c]) = 0
                         /\ taken[c] = 0 /\ cache[c] = Null /\ ~listening[c] /\ ~signedIn[c]
                         /\ push[c] = <<>> /\ inbox[c] = <<>> /\ asked[c] = <<>>
                         /\ ~connected[c]
  BY <1>1 DEF Waiting
<1>6. TypeOK
  <2>1. \A S : <<>> \in Seq(S)
    OBVIOUS
  <2>2. /\ cache \in [Clients -> Users_ \cup {Null}]
        /\ pending \in [Clients -> Seq(Write)] /\ taken \in [Clients -> Nat]
        /\ push \in [Clients -> Seq(Message)] /\ asked \in [Clients -> Seq(Op)]
        /\ inbox \in [Clients -> Seq([op : Op, users : Users_])]
        /\ name \in [Clients -> Names \cup {Null}]
    BY <1>1, <2>1
  <2>3. {connected, listening, profile, signedIn} \subseteq [Clients -> BOOLEAN]
    BY <1>1
  <2>4. submitted \in [Names -> Nat] /\ submitters \in [Names -> SUBSET Clients]
        /\ disturbed \subseteq Names /\ met \in BOOLEAN
    BY <1>1
  <2>5. left \in [uses : Nat, logins : Nat, losses : Nat]
    BY <1>1, AccountsAssumption
  <2>6. \A c \in Clients : taken[c] <= Len(pending[c]) /\ ~signedIn[c] /\ cache[c] = Null
    BY <1>5
  <2> QED
    BY <1>4, <2>2, <2>3, <2>4, <2>5, <2>6 DEF TypeOK
<1>7. \A c \in Clients : \A op : WaitsAt(c, op) = {}
  <2>1. 1..0 = {}
    OBVIOUS
  <2> QED
    BY <1>5, <2>1 DEF WaitsAt
<1>8. ASSUME NEW c \in Clients
      PROVE  Local(c) /\ CountsInv(c)
  <2>1. 1..taken[c] = {}
    BY <1>5
  <2>2. InOrder(c)
    BY <1>5, OrderNone, OrderNow
  <2>3. AnswersInv(c)
    BY <1>5, <2>2 DEF AnswersInv
  <2>4. PresenceInv(c)
    BY <1>5, <2>1 DEF PresenceInv
  <2>5. WholeInv(c)
    BY <1>5 DEF WholeInv
  <2>6. KnownInv(c)
    BY <1>5 DEF KnownInv
  <2>7. NamesInv(c)
    BY <1>5 DEF NamesInv
  <2>8. CountsInv(c)
    BY <1>5, <1>7 DEF CountsInv
  <2> QED
    BY <2>3, <2>4, <2>5, <2>6, <2>7, <2>8 DEF Local
<1>9. \A m \in Names : Uncounted(m) = {}
  BY <1>7, UncountedNow
<1>10. \A m \in Names : Counted(m) = 0
  <2>1. Cardinality({}) = 0
    BY FS_EmptySet
  <2>2. \A m \in Names : submitted[m] = 0
    BY <1>1
  <2>3. 0 - 0 = 0
    OBVIOUS
  <2> QED
    BY <1>9, <2>1, <2>2, <2>3 DEF Counted
<1>11. CountersInv
  <2>1. IsFiniteSet({})
    BY FS_EmptySet
  <2> QED
    <3> SUFFICES ASSUME NEW m \in Names
                 PROVE  /\ IsFiniteSet(Uncounted(m)) /\ Counted(m) >= 0
                        /\ submitters[m] = {} => submitted[m] = 0
      BY DEF CountersInv
    <3>1. IsFiniteSet(Uncounted(m))
      BY <1>9, <2>1
    <3>2. Counted(m) >= 0
      BY <1>10
    <3>3. submitted[m] = 0
      BY <1>1
    <3> QED
      BY <3>1, <3>2, <3>3
<1>12. UsersFit
  <2>1. ASSUME NEW k \in KeysOf(users)
        PROVE  Fits(users[k])
    <3>1. users[k].Username \in Names
      BY <1>4, AccountOf, AccountFields
    <3>2. users[k].ItemsAuctioned = 0 /\ Counted(users[k].Username) = 0
      BY <1>4, <1>10, <3>1
    <3> QED
      BY <3>2 DEF Fits
  <2> QED
    BY <2>1 DEF UsersFit
<1>13. OneName
  BY <1>5 DEF OneName
<1>14. MetInv
  <2>1. \A c \in Clients : \A k \in Keys, m \in Names : NameAt(c, k, m) => k = j
    BY <1>4, <1>5 DEF NameAt, KeysOf
  <2>2. \A c \in Clients : Fresh(c)
    BY <1>5 DEF Fresh, ToSet
  <2> QED
    BY <1>7, <2>1, <2>2 DEF MetInv
<1>15. UnhurriedInv
  <2>1. \A c \in Clients : Counter(c)
    BY <1>5, <1>7 DEF Counter
  <2>2. \A m \in Names, c \in Clients : Unhurried(c, m)
    BY <1>1 DEF Unhurried
  <2> QED
    BY <2>1, <2>2, UnhurriedNow
<1> QED
  BY <1>6, <1>8, <1>11, <1>12, <1>13, <1>14, <1>15 DEF Core

LEMMA CoreAlways ==
  Spec => []Core
<1>1. Init => Core
  BY CoreInit
<1>2. Core /\ [Next]_vars => Core'
  BY CoreNext
<1> QED
  BY <1>1, <1>2, PTL DEF Spec

-----------------------------------------------------------------------------
(***************************************************************************)
(* What follows from it                                                    *)
(***************************************************************************)
LEMMA CountedAtMost ==
  ASSUME Core
  PROVE  NothingCountedTwice
<1> SUFFICES ASSUME NEW k \in Keys, users[k] # Null
             PROVE  users[k].ItemsAuctioned <= submitted[users[k].Username]
  BY DEF NothingCountedTwice
<1>1. k \in KeysOf(users) /\ users \in Users_
  BY DEF Core, TypeOK, KeysOf
<1>2. PICK n \in Names : n = users[k].Username
  BY <1>1, AccountOf, AccountFields
<1>3. PICK x \in Nat : x = users[k].ItemsAuctioned
  BY <1>1, AccountOf, AccountFields
<1>4. x <= Counted(n)
  BY <1>1, <1>2, <1>3 DEF Core, UsersFit, Fits
<1>5. Cardinality(Uncounted(n)) \in Nat /\ submitted[n] \in Nat
  BY CountedType DEF Core
<1>6. \A a, b, z \in Nat : a <= b - z => a <= b
  OBVIOUS
<1>7. x <= submitted[n] - Cardinality(Uncounted(n))
  BY <1>4 DEF Counted
<1>8. x <= submitted[n]
  BY ONLY x \in Nat, <1>5, <1>6, <1>7
<1> QED
  BY <1>2, <1>3, <1>8

LEMMA AccountsOfUsers ==
  ASSUME Core
  PROVE  SignedInHaveAccounts
<1> SUFFICES ASSUME NEW c \in Clients, signedIn[c]
             PROVE  \/ Named(users, name[c]) # {}
                    \/ \E w \in ToSet(pending[c]) : w.sets = Children /\ w.to.Username = name[c]
  BY DEF SignedInHaveAccounts
<1>1. PICK k \in Keys : NameAt(c, k, name[c])
  BY DEF Core, Local, KnownInv
<1>2. CASE users[k] # Null /\ users[k].Username = name[c]
  BY <1>2 DEF Named
<1>3. ASSUME NEW i \in DOMAIN pending[c], Creation(pending[c][i]),
             pending[c][i].to.Username = name[c]
      PROVE  \E w \in ToSet(pending[c]) : w.sets = Children /\ w.to.Username = name[c]
  <2>1. pending[c][i] \in ToSet(pending[c])
    BY DEF ToSet
  <2> QED
    BY <1>3, <2>1 DEF Creation
<1> QED
  BY <1>1, <1>2, <1>3 DEF NameAt

(* Without devices there is what there was at the start. *)
Deserted == Clients = {} => \A j, k \in KeysOf(users) : j = k

LEMMA DesertedAlways ==
  Spec => []Deserted
<1>1. Init => Deserted
  <2> SUFFICES ASSUME Init
               PROVE  Deserted
    OBVIOUS
  <2>1. PICK j \in Keys : \E n \in StoredNames :
          users = [k \in Keys |-> IF n # Null /\ k = j THEN NewAccount(n) ELSE Null]
    BY DEF Init
  <2>2. \A k \in KeysOf(users) : k = j
    BY <2>1 DEF KeysOf
  <2> QED
    BY <2>2 DEF Deserted
<1>2. Deserted /\ [Next]_vars => Deserted'
  BY DEF Deserted, Next, vars, KeysOf
<1> QED
  BY <1>1, <1>2, PTL DEF Spec

LEMMA OneAccount ==
  ASSUME Core, Deserted
  PROVE  NamesUniqueUnlessMet
<1> SUFFICES ASSUME ~met, NEW n \in Names
             PROVE  Cardinality(Named(users, n)) <= 1
  BY DEF NamesUniqueUnlessMet
<1>1. ASSUME NEW j \in Named(users, n), NEW k \in Named(users, n)
      PROVE  j = k
  <2>1. /\ j \in Keys /\ users[j] # Null /\ users[j].Username = n
        /\ k \in Keys /\ users[k] # Null /\ users[k].Username = n
    BY DEF Named
  <2>2. ASSUME NEW c \in Clients
        PROVE  j = k
    <3>1. NameAt(c, j, n) /\ NameAt(c, k, n)
      BY <2>1 DEF NameAt
    <3>2. \A a, b \in Keys : NameAt(c, a, n) /\ NameAt(c, b, n) => a = b
      BY MetNow DEF Core
    <3> QED
      BY <2>1, <3>1, <3>2
  <2> QED
    BY <2>1, <2>2 DEF Deserted, KeysOf
<1>2. CASE Named(users, n) = {}
  BY <1>2, FS_EmptySet
<1>3. CASE Named(users, n) # {}
  <2>1. PICK k : Named(users, n) = {k}
    BY <1>1, <1>3
  <2>2. Cardinality({k}) = 1
    BY FS_Singleton
  <2> QED
    BY <2>1, <2>2
<1> QED
  BY <1>2, <1>3

LEMMA AllCounted ==
  ASSUME Core
  PROVE  UnhurriedCountsAreRight
<1> SUFFICES ASSUME NEW n \in Names \ disturbed, NEW c \in Clients, submitters[n] = {c},
                    ~Waits(c, "count"), pending[c] = <<>>
             PROVE  \E k \in Named(users, n) : users[k].ItemsAuctioned = submitted[n]
  BY DEF UnhurriedCountsAreRight
<1>1. PICK k \in Keys : Exact(c, k, n)
  BY UnhurriedNow DEF Core, Unhurried
<1>2. PICK v : v = Counted(n)
  OBVIOUS
<1>3. Parts(c, k, n, v)
  BY <1>1, <1>2, ExactNow
<1>4. DOMAIN pending[c] = {}
  OBVIOUS
<1>5. users[k] # Null /\ users[k].ItemsAuctioned = v
  BY <1>3, <1>4 DEF Parts, ServerRight, ToCount
<1>6. k \in Named(users, n)
  BY <1>3, <1>4, <1>5 DEF Parts, Held, NameAt, Named
<1>7. ASSUME NEW d \in Clients, name[d] = n, NEW i \in WaitsAt(d, "count")
      PROVE  FALSE
  <2>1. Counter(d)
    BY UnhurriedNow DEF Core
  <2>2. d = c
    BY <1>7, <2>1 DEF Counter
  <2>3. WaitsAt(c, "count") = {}
    BY WaitsMeans DEF Core, Local
  <2> QED
    BY <1>7, <2>2, <2>3
<1>8. Uncounted(n) = {}
  BY <1>7, UncountedNow
<1>9. v = submitted[n]
  <2>1. Cardinality({}) = 0
    BY FS_EmptySet
  <2>2. submitted[n] \in Nat
    BY DEF Core, TypeOK
  <2>3. \A x \in Nat : x - 0 = x
    OBVIOUS
  <2> QED
    BY <1>2, <1>8, <2>1, <2>2, <2>3 DEF Counted
<1> QED
  BY <1>5, <1>6, <1>9

(* The variables have their types. *)
THEOREM AccountsTypeCorrect == Spec => []TypeOK
<1>1. Core => TypeOK
  BY DEF Core
<1> QED
  BY <1>1, CoreAlways, PTL

(* What the devices hold and what is on its way agrees with the server:    *)
(* answers come in the order of the writes, no copy loses an account or    *)
(* knows another name for it, none counts more than was counted, and the   *)
(* account of an undisturbed name is exact wherever it can be read.        *)
THEOREM AccountsInvariant == Spec => []AccountsInv
<1>1. Core => AccountsInv
  BY CoreMeans
<1> QED
  BY <1>1, CoreAlways, PTL

(* No submitted auction is counted twice, or for somebody else, although   *)
(* writes are sent again after a lost connection and whoever is signed in  *)
(* changes.  (OpenNewAuctionViewController Submit_Auction)                 *)
THEOREM NothingIsCountedTwice == Spec => []NothingCountedTwice
<1>1. Core => NothingCountedTwice
  BY CountedAtMost
<1> QED
  BY <1>1, CoreAlways, PTL

(* Whoever is signed in has an account, on the server or on its way there. *)
(* (LoginViewController Submit_Login)                                      *)
THEOREM UsersHaveAccounts == Spec => []SignedInHaveAccounts
<1>1. Core => SignedInHaveAccounts
  BY AccountsOfUsers
<1> QED
  BY <1>1, CoreAlways, PTL

(* Names stay unique as long as no sign-up meets another one or a copy of  *)
(* Users/ from before it.  (SignUpViewController signUpButton)             *)
THEOREM NamesStayUnique == Spec => []NamesUniqueUnlessMet
<1>1. Core /\ Deserted => NamesUniqueUnlessMet
  BY OneAccount
<1> QED
  BY <1>1, CoreAlways, DesertedAlways, PTL

(* The auctions of a name are all counted when one device submits them,    *)
(* each after the last was counted, and no sign-up is under way elsewhere. *)
(* (OpenNewAuctionViewController Submit_Auction)                           *)
THEOREM UnhurriedCountsEndRight == Spec => []UnhurriedCountsAreRight
<1>1. Core => UnhurriedCountsAreRight
  BY AllCounted
<1> QED
  BY <1>1, CoreAlways, PTL
=============================================================================
