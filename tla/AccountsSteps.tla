--------------------------- MODULE AccountsSteps ----------------------------
(***************************************************************************)
(* Facts about the accounts, the copies of them and the writes to them;    *)
(* what each step does to them, and that it keeps the types, the order of  *)
(* the answers, every account in every copy, and its name.                 *)
(***************************************************************************)
EXTENDS Accounts, FiniteSetTheorems, SequenceTheorems, WellFoundedInduction, TLAPS

-----------------------------------------------------------------------------
(***************************************************************************)
(* Sequences                                                               *)
(***************************************************************************)
LEMMA Element ==
  ASSUME NEW S, NEW s \in Seq(S), NEW n \in DOMAIN s
  PROVE  s[n] \in S /\ n \in Nat \ {0} /\ n <= Len(s)
  OBVIOUS

LEMMA Places ==
  ASSUME NEW S, NEW s \in Seq(S)
  PROVE  DOMAIN s = 1..Len(s) /\ Len(s) \in Nat
  OBVIOUS

(* r is s with more behind it. *)
Extends(s, r) ==
    /\ DOMAIN s = 1..Len(s) /\ DOMAIN r = 1..Len(r)
    /\ Len(s) \in Nat /\ Len(r) \in Nat /\ Len(s) <= Len(r)
    /\ \A n \in DOMAIN s : n \in DOMAIN r /\ r[n] = s[n]

LEMMA Appended ==
  ASSUME NEW S, NEW s \in Seq(S), NEW m \in S
  PROVE  /\ Append(s, m) \in Seq(S)
         /\ Len(Append(s, m)) = Len(s) + 1
         /\ Append(s, m)[Len(s) + 1] = m
         /\ DOMAIN Append(s, m) = DOMAIN s \cup {Len(s) + 1}
         /\ Extends(s, Append(s, m))
<1> DEFINE r == Append(s, m)
<1>1. /\ r \in Seq(S) /\ Len(r) = Len(s) + 1 /\ Len(s) \in Nat
      /\ DOMAIN s = 1..Len(s) /\ DOMAIN r = 1..(Len(s) + 1)
      /\ \A k \in 1..Len(s) : r[k] = s[k]
      /\ r[Len(s) + 1] = m
  OBVIOUS
<1> HIDE DEF r
<1>2. DOMAIN r = DOMAIN s \cup {Len(s) + 1}
  BY <1>1
<1>3. Extends(s, r)
  BY <1>1 DEF Extends
<1> QED
  BY <1>1, <1>2, <1>3 DEF r

LEMMA Joined ==
  ASSUME NEW S, NEW s \in Seq(S), NEW t \in Seq(S)
  PROVE  /\ s \o t \in Seq(S)
         /\ Len(s \o t) = Len(s) + Len(t)
         /\ Extends(s, s \o t)
         /\ \A n \in DOMAIN t : Len(s) + n \in DOMAIN (s \o t) /\ (s \o t)[Len(s) + n] = t[n]
         /\ \A n \in DOMAIN (s \o t) : n \notin DOMAIN s =>
              n - Len(s) \in DOMAIN t /\ (s \o t)[n] = t[n - Len(s)]
<1> DEFINE r == s \o t
<1>1. /\ r \in Seq(S) /\ Len(r) = Len(s) + Len(t) /\ Len(s) \in Nat /\ Len(t) \in Nat
      /\ DOMAIN s = 1..Len(s) /\ DOMAIN t = 1..Len(t) /\ DOMAIN r = 1..(Len(s) + Len(t))
  BY ConcatProperties
<1>2. \A k \in 1..(Len(s) + Len(t)) : r[k] = IF k <= Len(s) THEN s[k] ELSE t[k - Len(s)]
  BY ConcatProperties
<1> HIDE DEF r
<1>3. Extends(s, r)
  BY <1>1, <1>2 DEF Extends
<1>4. ASSUME NEW n \in DOMAIN t
      PROVE  Len(s) + n \in DOMAIN r /\ r[Len(s) + n] = t[n]
  <2>1. Len(s) + n \in 1..(Len(s) + Len(t)) /\ ~(Len(s) + n <= Len(s)) /\ (Len(s) + n) - Len(s) = n
    BY <1>1
  <2> QED
    BY <1>1, <1>2, <2>1
<1>5. ASSUME NEW n \in DOMAIN r, n \notin DOMAIN s
      PROVE  n - Len(s) \in DOMAIN t /\ r[n] = t[n - Len(s)]
  BY <1>1, <1>2, <1>5
<1> QED
  BY <1>1, <1>3, <1>4, <1>5 DEF r

(* r is s without its first element. *)
Behind(s, r) ==
    /\ DOMAIN s = 1..Len(s) /\ DOMAIN r = 1..Len(r)
    /\ Len(s) \in Nat /\ Len(r) \in Nat /\ Len(s) = Len(r) + 1
    /\ \A n \in DOMAIN r : n + 1 \in DOMAIN s /\ r[n] = s[n + 1]
    /\ \A n \in DOMAIN s : n # 1 => n - 1 \in DOMAIN r /\ r[n - 1] = s[n]

LEMMA TailBehind ==
  ASSUME NEW S, NEW s \in Seq(S), s # <<>>
  PROVE  Tail(s) \in Seq(S) /\ Behind(s, Tail(s)) /\ s[1] = Head(s) /\ 1 \in DOMAIN s
<1> DEFINE r == Tail(s)
<1>1. /\ Len(s) \in Nat /\ Len(s) # 0 /\ Len(r) = Len(s) - 1 /\ r \in Seq(S)
      /\ DOMAIN s = 1..Len(s) /\ DOMAIN r = 1..(Len(s) - 1) /\ Head(s) = s[1]
  OBVIOUS
<1>2. \A n \in 1..(Len(s) - 1) : r[n] = s[n + 1]
  BY <1>1
<1> HIDE DEF r
<1>3. Behind(s, r)
  BY <1>1, <1>2 DEF Behind
<1> QED
  BY <1>1, <1>3 DEF r

LEMMA EmptyDomain ==
  ASSUME NEW S, NEW s \in Seq(S)
  PROVE  s = <<>> <=> DOMAIN s = {}
  OBVIOUS

(* A set of places has a last one. *)
LEMMA LastPlace ==
  ASSUME NEW L \in Nat, NEW S \in SUBSET (1..L), S # {}
  PROVE  Newest(S) \in S /\ \A j \in S : j <= Newest(S)
<1> DEFINE T == {L - n : n \in S}
<1>1. T \subseteq Nat /\ T # {}
  <2>1. \A n \in S : L - n \in Nat
    OBVIOUS
  <2>2. PICK n \in S : TRUE
    OBVIOUS
  <2>3. L - n \in T
    OBVIOUS
  <2> QED
    BY <2>1, <2>3
<1>2. PICK x \in T : \A y \in T : ~(<<y, x>> \in OpToRel(<, Nat))
  BY <1>1, NatLessThanWellFounded, WFMin
<1>3. PICK n \in S : x = L - n
  BY <1>2
<1>4. ASSUME NEW j \in S
      PROVE  j <= n
  <2>1. L - j \in T /\ L - j \in Nat /\ x \in Nat
    BY <1>1, <1>2
  <2>2. ~(L - j < x)
    BY <1>2, <2>1 DEF OpToRel
  <2> QED
    BY <1>3, <2>1, <2>2
<1> QED
  BY <1>4 DEF Newest

-----------------------------------------------------------------------------
(***************************************************************************)
(* Accounts and writes                                                     *)
(***************************************************************************)
LEMMA AccountFields ==
  ASSUME NEW a \in Account
  PROVE  /\ a.Username \in Names /\ a.ItemsAuctioned \in Nat
         /\ a.AuctionsWon \in {0, 1} /\ a.ProfileImage \in {0, 1}
         /\ a # Null
  BY NullIsNoAccount DEF Account

LEMMA AccountOf ==
  ASSUME NEW us \in Users_, NEW k \in KeysOf(us)
  PROVE  us[k] \in Account /\ k \in Keys /\ us[k] # Null
  BY DEF Users_, KeysOf

LEMMA WriteFields ==
  ASSUME NEW w \in Write
  PROVE  w.key \in Keys /\ w.sets \subseteq Children /\ w.to \in Account
  BY DEF Write

(* An account put together child by child. *)
LEMMA ByChild ==
  ASSUME NEW a, a = [ch \in Children |-> a[ch]],
         a.Username \in Names, a.ItemsAuctioned \in Nat,
         a.AuctionsWon \in {0, 1}, a.ProfileImage \in {0, 1}
  PROVE  a \in Account
<1>1. DOMAIN a = Children
  OBVIOUS
<1> QED
  BY <1>1 DEF Account, Children

LEMMA UpdateType ==
  ASSUME NEW us \in Users_, NEW k \in KeysOf(us), NEW child, NEW value,
         \/ child = "ItemsAuctioned" /\ value \in Nat
         \/ child \in {"AuctionsWon", "ProfileImage"} /\ value = 1
  PROVE  LET w == Update(us, k, child, value)
         IN  /\ w \in Write /\ w.key = k /\ w.sets = {child} /\ w.to[child] = value
             /\ \A ch \in Children \ {child} : w.to[ch] = us[k][ch]
             /\ Legal(w) /\ ~Creation(w)
<1> DEFINE a == [us[k] EXCEPT ![child] = value]
           w == Update(us, k, child, value)
<1>1. us[k] \in Account /\ k \in Keys
  BY AccountOf
<1>2. a \in Account
  BY <1>1 DEF Account
<1>3. a[child] = value /\ \A ch \in Children \ {child} : a[ch] = us[k][ch]
  BY <1>1 DEF Account, Children
<1>4. w.key = k /\ w.sets = {child} /\ w.to = a
  BY DEF Update
<1>5. w \in Write
  BY <1>1, <1>2 DEF Update, Write, Children
<1>6. Legal(w) /\ ~Creation(w)
  <2>1. "Username" \in Children /\ "Username" # child /\ child \in Children
    BY DEF Children
  <2> QED
    BY <1>4, <2>1 DEF Legal, Creation
<1> QED
  BY <1>3, <1>4, <1>5, <1>6

LEMMA CreateType ==
  ASSUME NEW k \in Keys, NEW n \in Names
  PROVE  LET w == CreateAccount(k, n)
         IN  /\ w \in Write /\ w.key = k /\ w.sets = Children
             /\ w.to.Username = n /\ w.to.ItemsAuctioned = 0
             /\ Legal(w) /\ Creation(w)
  BY DEF CreateAccount, NewAccount, Write, Account, Legal, Creation

LEMMA CreationSets ==
  ASSUME NEW w \in Write, Legal(w)
  PROVE  /\ Creation(w) <=> "Username" \in w.sets
         /\ Creation(w) => "ItemsAuctioned" \in w.sets
<1>1. "Username" \in Children /\ "ItemsAuctioned" \in Children
  BY DEF Children
<1> QED
  BY <1>1 DEF Legal, Creation

(* The server's data, or a copy, with a write. *)
LEMMA Applied ==
  ASSUME NEW us \in Users_, NEW w \in Write, Creation(w) \/ us[w.key] # Null
  PROVE  LET r == Apply(us, w)
         IN  /\ r \in Users_
             /\ r[w.key] # Null
             /\ \A k \in Keys : k # w.key => r[k] = us[k]
             /\ \A ch \in Children : r[w.key][ch] = IF ch \in w.sets THEN w.to[ch]
                                                    ELSE us[w.key][ch]
             /\ KeysOf(r) = KeysOf(us) \cup {w.key}
<1> DEFINE k == w.key
           r == Apply(us, w)
           b == [ch \in Children |-> IF ch \in w.sets THEN w.to[ch] ELSE us[k][ch]]
           a == IF w.sets = Children THEN w.to ELSE b
<1>1. k \in Keys /\ w.sets \subseteq Children /\ w.to \in Account
  BY WriteFields
<1>2. us \in [Keys -> Account \cup {Null}]
  BY DEF Users_
<1>3. r = [us EXCEPT ![k] = a]
  BY <1>1, <1>2 DEF Apply
<1>4. a \in Account /\ \A ch \in Children : a[ch] = IF ch \in w.sets THEN w.to[ch] ELSE us[k][ch]
  <2>1. CASE w.sets = Children
    BY <1>1, <2>1
  <2>2. CASE w.sets # Children
    <3>1. us[k] \in Account
      BY <1>1, <1>2, <2>2 DEF Creation
    <3>2. b = [ch \in Children |-> b[ch]] /\ \A ch \in Children : b[ch] \in {w.to[ch], us[k][ch]}
      OBVIOUS
    <3>3. /\ b.Username \in Names /\ b.ItemsAuctioned \in Nat
          /\ b.AuctionsWon \in {0, 1} /\ b.ProfileImage \in {0, 1}
      <4> HIDE DEF b
      <4> QED
        BY <1>1, <3>1, <3>2, AccountFields DEF Children
    <3>4. b \in Account
      <4> HIDE DEF b
      <4> QED
        BY <3>2, <3>3, ByChild
    <3> QED
      BY <2>2, <3>4
  <2> QED
    BY <2>1, <2>2
<1>5. a # Null
  BY <1>4, AccountFields
<1> HIDE DEF a, r
<1>6. /\ r \in Users_ /\ r[k] = a /\ \A j \in Keys : j # k => r[j] = us[j]
  BY <1>1, <1>2, <1>3, <1>4 DEF Users_
<1>7. KeysOf(r) = KeysOf(us) \cup {k}
  BY <1>1, <1>5, <1>6 DEF KeysOf
<1> QED
  BY <1>4, <1>5, <1>6, <1>7 DEF r

(* What a write of q that is not a creation changes is there or created    *)
(* before.                                                                 *)
Grounded(us, q) ==
    \A i \in DOMAIN q : ~Creation(q[i]) =>
        \/ us[q[i].key] # Null
        \/ \E j \in DOMAIN q : j < i /\ Creation(q[j]) /\ q[j].key = q[i].key

CreatedIn(q, k) == \E i \in DOMAIN q : Creation(q[i]) /\ q[i].key = k

(* A copy under pending writes: every child is that of the newest write    *)
(* that sets it, or as it was.                                             *)
LEMMA SeenChild ==
  ASSUME NEW us \in Users_, NEW q \in Seq(Write), NEW k \in Keys,
         us[k] # Null \/ Written(q, k), NEW ch \in Children
  PROVE  \/ /\ Setting(q, k, ch) = {}
            /\ Seen(us, q)[k][ch] = us[k][ch]
         \/ \E i \in DOMAIN q : /\ q[i].key = k /\ ch \in q[i].sets
                                /\ \A j \in Setting(q, k, ch) : j <= i
                                /\ Seen(us, q)[k][ch] = q[i].to[ch]
<1> DEFINE S == Setting(q, k, ch)
<1>1. DOMAIN q = 1..Len(q) /\ Len(q) \in Nat
  BY Places
<1>2. S \in SUBSET (1..Len(q))
  BY <1>1 DEF Setting
<1>3. Seen(us, q)[k][ch] = IF S = {} THEN us[k][ch] ELSE q[Newest(S)].to[ch]
  BY DEF Seen
<1>4. CASE S = {}
  BY <1>3, <1>4
<1>5. CASE S # {}
  <2>1. Newest(S) \in S /\ \A j \in S : j <= Newest(S)
    BY <1>1, <1>2, <1>5, LastPlace
  <2>2. Newest(S) \in DOMAIN q /\ q[Newest(S)].key = k /\ ch \in q[Newest(S)].sets
    BY <2>1 DEF Setting
  <2>3. Seen(us, q)[k][ch] = q[Newest(S)].to[ch]
    BY <1>3, <1>5
  <2> QED
    BY <2>1, <2>2, <2>3
<1> QED
  BY <1>4, <1>5

LEMMA SeenType ==
  ASSUME NEW us \in Users_, NEW q \in Seq(Write), Grounded(us, q)
  PROVE  /\ Seen(us, q) \in Users_
         /\ \A k \in Keys : Seen(us, q)[k] # Null <=> us[k] # Null \/ CreatedIn(q, k)
<1> DEFINE r == Seen(us, q)
<1>1. ASSUME NEW k \in Keys
      PROVE  Written(q, k) => us[k] # Null \/ CreatedIn(q, k)
  BY DEF Written, Grounded, CreatedIn
<1>2. ASSUME NEW k \in Keys, ~(us[k] = Null /\ ~Written(q, k))
      PROVE  r[k] \in Account
  <2>1. us[k] \in Account \/ CreatedIn(q, k)
    BY <1>1, <1>2 DEF Users_
  <2>2. \A i \in DOMAIN q : q[i] \in Write /\ q[i].to \in Account
    BY Element, WriteFields
  <2>3. ASSUME NEW ch \in Children
        PROVE  (r[k][ch] = us[k][ch] /\ us[k] \in Account) \/ \E i \in DOMAIN q : r[k][ch] = q[i].to[ch]
    <3>1. CASE Setting(q, k, ch) = {} /\ r[k][ch] = us[k][ch]
      <4>1. ~CreatedIn(q, k)
        BY <3>1 DEF Setting, CreatedIn, Creation
      <4> QED
        BY <2>1, <3>1, <4>1
    <3>2. CASE \E i \in DOMAIN q : r[k][ch] = q[i].to[ch]
      BY <3>2
    <3> QED
      BY <1>2, <3>1, <3>2, SeenChild
  <2>4. \E a \in Account : r[k].Username = a.Username
    BY <2>2, <2>3 DEF Children
  <2>5. \E a \in Account : r[k].ItemsAuctioned = a.ItemsAuctioned
    BY <2>2, <2>3 DEF Children
  <2>6. \E a \in Account : r[k].AuctionsWon = a.AuctionsWon
    BY <2>2, <2>3 DEF Children
  <2>7. \E a \in Account : r[k].ProfileImage = a.ProfileImage
    BY <2>2, <2>3 DEF Children
  <2>8. r[k] = [ch \in Children |-> r[k][ch]]
    BY <1>2 DEF Seen
  <2> HIDE DEF r
  <2>9. /\ r[k].Username \in Names /\ r[k].ItemsAuctioned \in Nat
        /\ r[k].AuctionsWon \in {0, 1} /\ r[k].ProfileImage \in {0, 1}
    BY <2>4, <2>5, <2>6, <2>7, AccountFields
  <2> QED
    BY <2>8, <2>9, ByChild
<1>3. ASSUME NEW k \in Keys, us[k] = Null /\ ~Written(q, k)
      PROVE  r[k] = Null
  BY <1>3 DEF Seen
<1>4. r \in Users_
  <2>1. DOMAIN r = Keys /\ r = [k \in Keys |-> r[k]]
    BY DEF Seen
  <2> HIDE DEF r
  <2> QED
    BY <1>2, <1>3, <2>1 DEF Users_
<1>5. ASSUME NEW k \in Keys
      PROVE  r[k] # Null <=> us[k] # Null \/ CreatedIn(q, k)
  <2>1. CASE us[k] = Null /\ ~Written(q, k)
    <3>1. ~CreatedIn(q, k)
      BY <2>1 DEF Written, CreatedIn
    <3> QED
      BY <1>3, <2>1, <3>1
  <2>2. CASE ~(us[k] = Null /\ ~Written(q, k))
    <3>1. r[k] # Null
      BY <1>2, <2>2, AccountFields
    <3>2. us[k] # Null \/ CreatedIn(q, k)
      BY <1>1, <2>2
    <3> QED
      BY <3>1, <3>2
  <2> QED
    BY <2>1, <2>2
<1> QED
  BY <1>4, <1>5

-----------------------------------------------------------------------------
(***************************************************************************)
(* The state of one client                                                 *)
(***************************************************************************)
LEMMA CreatedDef ==
  ASSUME NEW c \in Clients
  PROVE  \A k : Created(c, k) <=> CreatedIn(pending[c], k)
  BY DEF Created, CreatedIn

Snapshots == [op : Op, users : Users_]

LEMMA ClientTypes ==
  ASSUME TypeOK, NEW c \in Clients
  PROVE  /\ cache[c] \in Users_ \cup {Null} /\ pending[c] \in Seq(Write)
         /\ taken[c] \in Nat /\ taken[c] <= Len(pending[c])
         /\ push[c] \in Seq(Message) /\ asked[c] \in Seq(Op) /\ inbox[c] \in Seq(Snapshots)
         /\ name[c] \in Names \cup {Null} /\ (signedIn[c] => name[c] \in Names)
         /\ (cache[c] # Null => Observed(c))
         /\ connected[c] \in BOOLEAN /\ listening[c] \in BOOLEAN
         /\ profile[c] \in BOOLEAN /\ signedIn[c] \in BOOLEAN
  BY DEF TypeOK, Snapshots

LEMMA MessageCases ==
  ASSUME NEW m \in Message
  PROVE  \/ m.kind = "users" /\ m.users \in Users_
         \/ m.kind = "write" /\ m.from \in Clients /\ m.write \in Write
  BY DEF Message

LEMMA MessageAt ==
  ASSUME TypeOK, NEW c \in Clients, NEW p \in DOMAIN push[c]
  PROVE  /\ p \in Nat \ {0} /\ p <= Len(push[c])
         /\ \/ push[c][p].kind = "users" /\ push[c][p].users \in Users_
            \/ /\ push[c][p].kind = "write" /\ push[c][p].from \in Clients
               /\ push[c][p].write \in Write
<1>1. push[c] \in Seq(Message)
  BY ClientTypes
<1> QED
  BY <1>1, Element, MessageCases

LEMMA WriteAt ==
  ASSUME TypeOK, NEW c \in Clients, NEW i \in DOMAIN pending[c]
  PROVE  /\ i \in Nat \ {0} /\ i <= Len(pending[c]) /\ pending[c][i] \in Write
         /\ pending[c][i].key \in Keys /\ pending[c][i].sets \subseteq Children
         /\ pending[c][i].to \in Account
<1>1. pending[c] \in Seq(Write)
  BY ClientTypes
<1> QED
  BY <1>1, Element, WriteFields

LEMMA SnapshotAt ==
  ASSUME TypeOK, NEW c \in Clients, NEW i \in DOMAIN inbox[c]
  PROVE  /\ i \in Nat \ {0} /\ i <= Len(inbox[c])
         /\ inbox[c][i].op \in Op /\ inbox[c][i].users \in Users_
<1>1. inbox[c] \in Seq(Snapshots)
  BY ClientTypes
<1>2. inbox[c][i] \in Snapshots /\ i \in Nat \ {0} /\ i <= Len(inbox[c])
  BY <1>1, Element
<1> QED
  BY <1>2 DEF Snapshots

(* What is in c's copy. *)
LEMMA CachedKeys ==
  ASSUME TypeOK, NEW c \in Clients, cache[c] # Null
  PROVE  /\ cache[c] \in Users_
         /\ \A k \in Keys : k \in KeysOf(cache[c]) <=> Cached(c, k)
  BY ClientTypes DEF Cached, KeysOf

LEMMA WaitingType ==
  ASSUME TypeOK, NEW c \in Clients
  PROVE  /\ Len(inbox[c]) \in Nat /\ Len(asked[c]) \in Nat /\ Waiting(c) \in Nat
         /\ DOMAIN inbox[c] = 1..Len(inbox[c]) /\ DOMAIN asked[c] = 1..Len(asked[c])
         /\ Waiting(c) = Len(asked[c]) + Len(inbox[c])
<1>1. inbox[c] \in Seq(Snapshots) /\ asked[c] \in Seq(Op)
  BY ClientTypes
<1>2. Len(inbox[c]) \in Nat /\ DOMAIN inbox[c] = 1..Len(inbox[c])
  BY <1>1
<1>3. Len(asked[c]) \in Nat /\ DOMAIN asked[c] = 1..Len(asked[c])
  BY <1>1
<1>4. Waiting(c) = Len(asked[c]) + Len(inbox[c])
  BY DEF Waiting
<1>5. \A a, b \in Nat : a + b \in Nat
  OBVIOUS
<1>6. Waiting(c) \in Nat
  BY <1>2, <1>3, <1>4, <1>5
<1> QED
  BY <1>2, <1>3, <1>4, <1>6

(* A write of c changes an account that any copy shown to c has, or one    *)
(* that an earlier write creates.                                          *)
LEMMA WritesGrounded ==
  ASSUME TypeOK, NEW c \in Clients, KnownInv(c), NEW us,
         \A k \in Keys : Base(c, k) => us[k] # Null
  PROVE  Grounded(us, pending[c])
<1> SUFFICES ASSUME NEW i \in DOMAIN pending[c], ~Creation(pending[c][i])
             PROVE  \/ us[pending[c][i].key] # Null
                    \/ \E j \in DOMAIN pending[c] :
                          /\ j < i /\ Creation(pending[c][j])
                          /\ pending[c][j].key = pending[c][i].key
  BY DEF Grounded
<1>1. pending[c][i].key \in Keys
  BY WriteAt
<1> QED
  BY <1>1 DEF KnownInv

(* What the server takes next changes an account that it has.              *)
LEMMA TakenWrite ==
  ASSUME TypeOK, NEW c \in Clients, KnownInv(c), PresenceInv(c), taken[c] < Len(pending[c])
  PROVE  LET w == pending[c][taken[c] + 1]
         IN  /\ w \in Write /\ taken[c] + 1 \in DOMAIN pending[c]
             /\ Creation(w) \/ users[w.key] # Null
<1> DEFINE i == taken[c] + 1
           w == pending[c][i]
<1>1. /\ taken[c] \in Nat /\ pending[c] \in Seq(Write)
      /\ DOMAIN pending[c] = 1..Len(pending[c]) /\ Len(pending[c]) \in Nat
  BY ClientTypes, Places
<1>2. i \in DOMAIN pending[c] /\ w \in Write
  BY <1>1, Element
<1>3. ASSUME ~Creation(w)
      PROVE  users[w.key] # Null
  <2>1. CASE Base(c, w.key)
    BY <2>1 DEF Base
  <2>2. CASE \E j \in DOMAIN pending[c] : j < i /\ pending[c][j].key = w.key
    <3>1. PICK j \in DOMAIN pending[c] : j < i /\ pending[c][j].key = w.key
      BY <2>2
    <3>2. j \in 1..taken[c]
      BY <1>1, <3>1
    <3> QED
      BY <3>1, <3>2 DEF PresenceInv, KeysOf
  <2> QED
    BY <1>2, <1>3, <2>1, <2>2 DEF KnownInv
<1> QED
  BY <1>2, <1>3

-----------------------------------------------------------------------------
(***************************************************************************)
(* What the steps do                                                       *)
(***************************************************************************)

(* A tap that looks at Users/. *)
AskStep(c, op) ==
    /\ ObserveSingleEvent(c, op)
    /\ UNCHANGED <<users, sdkVars, profile, name, signedIn>>

LEMMA Asked ==
  ASSUME TypeOK, NEW c \in Clients, AnswersInv(c), KnownInv(c), NEW op \in Op, AskStep(c, op)
  PROVE  /\ inbox[c] = <<>>
         /\ inbox' \in [Clients -> Seq(Snapshots)] /\ asked' \in [Clients -> Seq(Op)]
         /\ \A d \in Clients \ {c} : inbox'[d] = inbox[d] /\ asked'[d] = asked[d]
         /\ Waiting(c)' = Waiting(c) + 1
         /\ \/ /\ cache[c] = Null
               /\ inbox'[c] = <<>> /\ asked'[c] = Append(asked[c], op)
            \/ /\ cache[c] # Null /\ asked[c] = <<>> /\ asked'[c] = <<>>
               /\ inbox'[c] = <<Event(op, Seen(cache[c], pending[c]))>>
               /\ Seen(cache[c], pending[c]) \in Users_
               /\ Grounded(cache[c], pending[c])
<1> DEFINE us == Seen(cache[c], pending[c])
<1>1. inbox \in [Clients -> Seq(Snapshots)] /\ asked \in [Clients -> Seq(Op)]
  BY DEF TypeOK, Snapshots
<1>2. inbox[c] = <<>>
  BY DEF AskStep, ObserveSingleEvent
<1>3. Waiting(c) = Len(asked[c]) + 0 /\ Len(asked[c]) \in Nat
  BY <1>1, <1>2 DEF Waiting
<1>4. CASE cache[c] = Null
  <2>1. asked' = [asked EXCEPT ![c] = Append(@, op)] /\ inbox' = inbox
    BY <1>4 DEF AskStep, ObserveSingleEvent
  <2>2. asked'[c] = Append(asked[c], op) /\ asked' \in [Clients -> Seq(Op)]
    BY <1>1, <2>1
  <2>3. Len(asked'[c]) = Len(asked[c]) + 1
    BY <1>1, <2>2
  <2>4. Waiting(c)' = Len(asked'[c]) + Len(inbox'[c])
    BY DEF Waiting
  <2>5. Len(inbox'[c]) = 0
    BY <1>2, <2>1
  <2> QED
    BY <1>1, <1>2, <1>3, <1>4, <2>1, <2>2, <2>3, <2>4, <2>5
<1>5. CASE cache[c] # Null
  <2>1. asked' = asked /\ inbox' = [inbox EXCEPT ![c] = Append(@, Event(op, us))]
    BY <1>5 DEF AskStep, ObserveSingleEvent
  <2>2. Grounded(cache[c], pending[c])
    <3>1. \A k \in Keys : Base(c, k) => cache[c][k] # Null
      BY <1>5 DEF Base
    <3> QED
      BY <3>1, WritesGrounded
  <2>3. us \in Users_
    <3>1. cache[c] \in Users_ /\ pending[c] \in Seq(Write)
      BY <1>5, ClientTypes
    <3> QED
      BY <2>2, <3>1, SeenType
  <2>4. asked[c] = <<>>
    BY <1>5 DEF AnswersInv
  <2> HIDE DEF us
  <2>5. Event(op, us) \in Snapshots
    BY <2>3 DEF Event, Snapshots
  <2>6. inbox' \in [Clients -> Seq(Snapshots)] /\ inbox'[c] = <<Event(op, us)>>
    BY <1>1, <1>2, <2>1, <2>5
  <2>7. Waiting(c)' = Len(asked'[c]) + Len(inbox'[c])
    BY DEF Waiting
  <2>8. Len(asked'[c]) = 0 /\ Len(asked[c]) = 0 /\ Len(inbox'[c]) = 1
    BY <2>1, <2>4, <2>6
  <2>9. Waiting(c)' = Waiting(c) + 1
    BY <1>3, <2>7, <2>8
  <2>10. \A d \in Clients \ {c} : inbox'[d] = inbox[d] /\ asked'[d] = asked[d]
    BY <1>1, <2>1
  <2> QED
    BY <1>1, <1>2, <1>5, <2>1, <2>2, <2>3, <2>4, <2>6, <2>9, <2>10 DEF us
<1> QED
  BY <1>4, <1>5

(* The places of the writes that a handler adds. *)
Added(c) == DOMAIN pending'[c] \ DOMAIN pending[c]

(* w is a write of the handler op that runs now. *)
Adds(c, op, w) ==
    \/ /\ op = "signUp"
       /\ \E n \in Names, k \in Keys \ Used :
            w = CreateAccount(k, n) /\ ~NameTaken(Snapshot(c), n)
    \/ /\ op = "count"
       /\ \E k \in AccountsOf(Snapshot(c), name[c]) :
            w = Update(Snapshot(c), k, "ItemsAuctioned", Snapshot(c)[k].ItemsAuctioned + 1)
    \/ /\ op \in {"AuctionsWon", "ProfileImage"}
       /\ \E k \in AccountsOf(Snapshot(c), name[c]) : w = Update(Snapshot(c), k, op, 1)

(* A handler runs. *)
RunStep(c, op) ==
    /\ RunEvent(c, op)
    /\ pending' \in [Clients -> Seq(Write)]
    /\ \A d \in Clients \ {c} : pending'[d] = pending[d]
    /\ Extends(pending[c], pending'[c])
    /\ \A n \in Added(c) : Adds(c, op, pending'[c][n])
    /\ op = "signUp" => \A m, n \in Added(c) : m = n
    /\ op = "count" => \A k \in AccountsOf(Snapshot(c), name[c]) :
                         \E n \in Added(c) : pending'[c][n].key = k
    /\ name' \in [Clients -> Names \cup {Null}] /\ signedIn' \in [Clients -> BOOLEAN]
    /\ \A d \in Clients \ {c} : name'[d] = name[d] /\ signedIn'[d] = signedIn[d]
    /\ \/ name'[c] = name[c] /\ signedIn'[c] = signedIn[c]
       \/ /\ op = "login" /\ signedIn'[c]
          /\ \E k \in KeysOf(Snapshot(c)) : name'[c] = Snapshot(c)[k].Username
    /\ UNCHANGED <<disturbed, met, left>>

LEMMA RunFacts ==
  ASSUME TypeOK, NEW c \in Clients, NEW op, RunEvent(c, op)
  PROVE  /\ inbox' \in [Clients -> Seq(Snapshots)]
         /\ 1 \in DOMAIN inbox[c] /\ Behind(inbox[c], inbox'[c])
         /\ inbox[c][1].op = op /\ op \in Op
         /\ Snapshot(c) = inbox[c][1].users /\ Snapshot(c) \in Users_
         /\ asked' = asked /\ profile' = profile /\ Waiting(c) = Waiting(c)' + 1
         /\ \A d \in Clients \ {c} : /\ inbox'[d] = inbox[d] /\ cache'[d] = cache[d]
                                     /\ listening'[d] = listening[d]
         /\ cache' \in [Clients -> Users_ \cup {Null}] /\ listening' \in [Clients -> BOOLEAN]
         /\ IsLastObserver(c) => cache'[c] = Null /\ ~listening'[c] /\ ~Observed(c)'
         /\ ~IsLastObserver(c) =>
              cache'[c] = cache[c] /\ listening'[c] = listening[c] /\ Observed(c)'
<1>1. /\ inbox \in [Clients -> Seq(Snapshots)] /\ cache \in [Clients -> Users_ \cup {Null}]
      /\ listening \in [Clients -> BOOLEAN] /\ profile \in [Clients -> BOOLEAN]
  BY DEF TypeOK, Snapshots
<1>2. /\ inbox[c] # <<>> /\ inbox' = [inbox EXCEPT ![c] = Tail(@)]
      /\ asked' = asked /\ profile' = profile
      /\ cache' = [cache EXCEPT ![c] = IF IsLastObserver(c) THEN Null ELSE @]
      /\ listening' = [listening EXCEPT ![c] = @ /\ ~IsLastObserver(c)]
      /\ Head(inbox[c]).op = op
  BY DEF RunEvent
<1>3. /\ Tail(inbox[c]) \in Seq(Snapshots) /\ Behind(inbox[c], Tail(inbox[c]))
      /\ inbox[c][1] = Head(inbox[c]) /\ 1 \in DOMAIN inbox[c]
  BY <1>1, <1>2, TailBehind
<1>4. inbox' \in [Clients -> Seq(Snapshots)] /\ inbox'[c] = Tail(inbox[c])
  BY <1>1, <1>2, <1>3
<1>5. Snapshot(c) = inbox[c][1].users /\ Snapshot(c) \in Users_ /\ op \in Op
  BY <1>2, <1>3, SnapshotAt DEF Snapshot
<1>6. Waiting(c) = Waiting(c)' + 1 /\ Waiting(c)' \in Nat
  <2>1. Len(inbox[c]) = Len(inbox'[c]) + 1 /\ Len(inbox'[c]) \in Nat
    BY <1>3, <1>4 DEF Behind
  <2>2. Waiting(c)' = Len(asked[c]) + Len(inbox'[c]) /\ Waiting(c) = Len(asked[c]) + Len(inbox[c])
    BY <1>2 DEF Waiting
  <2>3. Len(asked[c]) \in Nat
    BY WaitingType
  <2>4. \A w, v : \A x, y, z \in Nat :
          x = y + 1 /\ v = z + y /\ w = z + x => w = v + 1 /\ v \in Nat
    OBVIOUS
  <2>5. Len(inbox[c]) \in Nat
    BY WaitingType
  <2> QED
    BY ONLY <2>1, <2>2, <2>3, <2>4, <2>5
<1>7. Observed(c)' <=> ~IsLastObserver(c)
  BY <1>1, <1>2, <1>6 DEF Observed, IsLastObserver
<1>8. \A d \in Clients \ {c} : /\ inbox'[d] = inbox[d] /\ cache'[d] = cache[d]
                               /\ listening'[d] = listening[d]
  BY <1>1, <1>2
<1>9. cache' \in [Clients -> Users_ \cup {Null}] /\ listening' \in [Clients -> BOOLEAN]
  BY <1>1, <1>2 DEF IsLastObserver
<1>10. ASSUME IsLastObserver(c)
       PROVE  cache'[c] = Null /\ ~listening'[c]
  BY <1>1, <1>2, <1>10
<1>11. ASSUME ~IsLastObserver(c)
       PROVE  cache'[c] = cache[c] /\ listening'[c] = listening[c]
  BY <1>1, <1>2, <1>11
<1> QED
  BY <1>2, <1>3, <1>4, <1>5, <1>6, <1>7, <1>8, <1>9, <1>10, <1>11

LEMMA AllUpdated ==
  ASSUME NEW S, IsFiniteSet(S), NEW keys \in SetToSeqs(S)
  PROVE  /\ keys \in Seq(S)
         /\ DOMAIN keys = 1..Len(keys) /\ Len(keys) \in Nat
         /\ \A n \in DOMAIN keys : keys[n] \in S
         /\ \A k \in S : \E n \in DOMAIN keys : keys[n] = k
<1> DEFINE N == Cardinality(S)
<1>1. N \in Nat
  BY FS_CardinalityType
<1>2. keys \in [1..N -> S] /\ \A i, j \in 1..N : i # j => keys[i] # keys[j]
  BY DEF SetToSeqs
<1>3. IsFiniteSet(1..N) /\ Cardinality(1..N) = N
  BY <1>1, FS_Interval
<1>4. keys \in Injection(1..N, S)
  BY <1>2 DEF Injection, IsInjective
<1> HIDE DEF N
<1>5. keys \in Surjection(1..N, S)
  BY <1>3, <1>4, FS_Injection DEF N
<1>6. \A k \in S : \E n \in 1..N : keys[n] = k
  BY <1>5 DEF Surjection
<1>7. keys \in Seq(S) /\ Len(keys) = N
  BY <1>1, <1>2
<1> QED
  BY <1>1, <1>2, <1>6, <1>7

LEMMA Updated ==
  ASSUME TypeOK, NEW c \in Clients, NEW op \in {"count", "AuctionsWon", "ProfileImage"},
         RunEvent(c, op), NEW child, NEW values,
         DOMAIN values = AccountsOf(Snapshot(c), name[c]),
         UpdateAccounts(c, child, values),
         \A k \in DOMAIN values :
            \/ child = "ItemsAuctioned" /\ values[k] \in Nat
            \/ child \in {"AuctionsWon", "ProfileImage"} /\ values[k] = 1,
         \A k \in DOMAIN values : Adds(c, op, Update(Snapshot(c), k, child, values[k])),
         UNCHANGED <<name, signedIn, disturbed, met, left>>
  PROVE  RunStep(c, op)
<1> DEFINE us == Snapshot(c)
           S == DOMAIN values
<1>1. us \in Users_
  BY RunFacts
<1>2. S \subseteq KeysOf(us) /\ S \subseteq Keys
  BY DEF AccountsOf, Named, KeysOf
<1>3. IsFiniteSet(S)
  BY <1>2, AccountsAssumption, FS_Subset
<1>4. PICK keys \in SetToSeqs(S) :
        pending' = [pending EXCEPT ![c] =
                      @ \o [n \in DOMAIN keys |-> Update(us, keys[n], child, values[keys[n]])]]
  BY DEF UpdateAccounts
<1>5. /\ DOMAIN keys = 1..Len(keys) /\ Len(keys) \in Nat
      /\ \A n \in DOMAIN keys : keys[n] \in S
      /\ \A k \in S : \E n \in DOMAIN keys : keys[n] = k
  BY <1>3, AllUpdated
<1> DEFINE new == [n \in DOMAIN keys |-> Update(us, keys[n], child, values[keys[n]])]
<1>6. \A k \in S : /\ Update(us, k, child, values[k]) \in Write
                   /\ Update(us, k, child, values[k]).key = k
  <2>1. SUFFICES ASSUME NEW k \in S
                 PROVE  /\ Update(us, k, child, values[k]) \in Write
                        /\ Update(us, k, child, values[k]).key = k
    OBVIOUS
  <2>2. \/ child = "ItemsAuctioned" /\ values[k] \in Nat
        \/ child \in {"AuctionsWon", "ProfileImage"} /\ values[k] = 1
    OBVIOUS
  <2>3. k \in KeysOf(us)
    BY <1>2
  <2> HIDE DEF us, S
  <2> QED
    BY <1>1, <2>2, <2>3, UpdateType
<1>7. new \in Seq(Write) /\ DOMAIN new = DOMAIN keys
  BY <1>5, <1>6
<1>8. pending \in [Clients -> Seq(Write)] /\ pending' = [pending EXCEPT ![c] = @ \o new]
  BY <1>4 DEF TypeOK
<1>9. \A n \in DOMAIN new : \E k \in S : new[n] = Update(us, k, child, values[k])
  BY <1>5
<1>10. \A k \in S : \E n \in DOMAIN new : new[n].key = k
  BY <1>5, <1>6
<1> HIDE DEF new
<1>11. pending' \in [Clients -> Seq(Write)] /\ pending'[c] = pending[c] \o new
       /\ \A d \in Clients \ {c} : pending'[d] = pending[d]
  BY <1>7, <1>8
<1>12. /\ Extends(pending[c], pending'[c])
       /\ \A n \in DOMAIN new : Len(pending[c]) + n \in DOMAIN pending'[c]
                                /\ pending'[c][Len(pending[c]) + n] = new[n]
       /\ \A n \in DOMAIN pending'[c] : n \notin DOMAIN pending[c] =>
            n - Len(pending[c]) \in DOMAIN new /\ pending'[c][n] = new[n - Len(pending[c])]
  BY <1>7, <1>8, <1>11, Joined
<1>13. \A n \in Added(c) : Adds(c, op, pending'[c][n])
  BY <1>9, <1>12 DEF Added
<1>14. ASSUME NEW k \in S
       PROVE  \E n \in Added(c) : pending'[c][n].key = k
  <2>1. PICK n \in DOMAIN new : new[n].key = k
    BY <1>10
  <2>2. n \in Nat \ {0} /\ Len(pending[c]) \in Nat /\ DOMAIN pending[c] = 1..Len(pending[c])
    BY <1>5, <1>7, <1>12 DEF Extends
  <2>3. Len(pending[c]) + n \notin DOMAIN pending[c]
    BY <2>2
  <2> QED
    BY <1>12, <2>1, <2>3 DEF Added
<1>15. op # "signUp" /\ op # "login"
  OBVIOUS
<1>16. name' \in [Clients -> Names \cup {Null}] /\ signedIn' \in [Clients -> BOOLEAN]
       /\ \A d \in Clients : name'[d] = name[d] /\ signedIn'[d] = signedIn[d]
  BY DEF TypeOK
<1> QED
  BY <1>11, <1>12, <1>13, <1>14, <1>15, <1>16 DEF RunStep

LEMMA RunCountStep ==
  ASSUME TypeOK, NEW c \in Clients, RunCount(c)
  PROVE  RunStep(c, "count")
<1> DEFINE us == Snapshot(c)
           values == [k \in AccountsOf(us, name[c]) |-> us[k].ItemsAuctioned + 1]
<1>1. RunEvent(c, "count") /\ UpdateAccounts(c, "ItemsAuctioned", values)
      /\ UNCHANGED <<name, signedIn, disturbed, met, left>>
  BY DEF RunCount
<1>2. us \in Users_
  BY <1>1, RunFacts
<1>3. DOMAIN values = AccountsOf(us, name[c])
      /\ \A k \in DOMAIN values : values[k] = us[k].ItemsAuctioned + 1
  OBVIOUS
<1>4. ASSUME NEW k \in DOMAIN values
      PROVE  values[k] \in Nat /\ Adds(c, "count", Update(us, k, "ItemsAuctioned", values[k]))
  <2>1. k \in KeysOf(us) /\ k \in AccountsOf(us, name[c])
    BY DEF AccountsOf, Named, KeysOf
  <2>2. us[k].ItemsAuctioned \in Nat
    BY <1>2, <2>1, AccountOf, AccountFields
  <2> QED
    BY <2>1, <2>2 DEF Adds
<1> HIDE DEF values
<1> QED
  BY <1>1, <1>3, <1>4, Updated

LEMMA RunUpdateStep ==
  ASSUME TypeOK, NEW c \in Clients, NEW op \in Others, RunUpdate(c, op)
  PROVE  RunStep(c, op)
<1> DEFINE us == Snapshot(c)
           values == [k \in AccountsOf(us, name[c]) |-> 1]
<1>1. RunEvent(c, op) /\ UpdateAccounts(c, op, values)
      /\ UNCHANGED <<name, signedIn, disturbed, met, left>>
  BY DEF RunUpdate
<1>2. op \in {"AuctionsWon", "ProfileImage"}
  BY AccountsAssumption
<1>3. DOMAIN values = AccountsOf(us, name[c]) /\ \A k \in DOMAIN values : values[k] = 1
  OBVIOUS
<1>4. \A k \in DOMAIN values : Adds(c, op, Update(us, k, op, values[k]))
  BY <1>2 DEF Adds
<1> HIDE DEF values
<1> QED
  BY <1>1, <1>2, <1>3, <1>4, Updated

LEMMA RunSignUpStep ==
  ASSUME TypeOK, NEW c \in Clients, RunSignUp(c)
  PROVE  RunStep(c, "signUp")
<1>1. RunEvent(c, "signUp") /\ UNCHANGED <<name, signedIn, disturbed, met, left>>
  BY DEF RunSignUp
<1>2. name' \in [Clients -> Names \cup {Null}] /\ signedIn' \in [Clients -> BOOLEAN]
      /\ \A d \in Clients : name'[d] = name[d] /\ signedIn'[d] = signedIn[d]
  BY <1>1 DEF TypeOK
<1>3. pending \in [Clients -> Seq(Write)] /\ pending[c] \in Seq(Write)
  BY DEF TypeOK
<1>4. PICK n \in Names :
        IF NameTaken(Snapshot(c), n) THEN UNCHANGED pending
        ELSE \E k \in Keys \ Used : pending' = [pending EXCEPT ![c] = Append(@, CreateAccount(k, n))]
  BY DEF RunSignUp
<1>5. CASE UNCHANGED pending
  <2>1. Added(c) = {}
    BY <1>5 DEF Added
  <2>2. Extends(pending[c], pending'[c])
    BY <1>3, <1>5, Places DEF Extends
  <2> QED
    BY <1>1, <1>2, <1>3, <1>5, <2>1, <2>2 DEF RunStep
<1>6. CASE ~NameTaken(Snapshot(c), n)
  <2>1. PICK k \in Keys \ Used : pending' = [pending EXCEPT ![c] = Append(@, CreateAccount(k, n))]
    BY <1>4, <1>6
  <2> DEFINE w == CreateAccount(k, n)
  <2>2. w \in Write
    BY CreateType
  <2>3. Adds(c, "signUp", w)
    BY <1>6 DEF Adds
  <2> HIDE DEF w
  <2>4. /\ pending' \in [Clients -> Seq(Write)] /\ pending'[c] = Append(pending[c], w)
        /\ \A d \in Clients \ {c} : pending'[d] = pending[d]
    BY <1>3, <2>1, <2>2 DEF w
  <2>5. /\ Extends(pending[c], pending'[c])
        /\ DOMAIN pending'[c] = DOMAIN pending[c] \cup {Len(pending[c]) + 1}
        /\ pending'[c][Len(pending[c]) + 1] = w
    BY <1>3, <2>2, <2>4, Appended
  <2>6. \A m \in Added(c) : m = Len(pending[c]) + 1
    BY <2>5 DEF Added
  <2> QED
    BY <1>1, <1>2, <2>3, <2>4, <2>5, <2>6 DEF RunStep
<1> QED
  BY <1>4, <1>5, <1>6

LEMMA RunLoginStep ==
  ASSUME TypeOK, NEW c \in Clients, RunLogin(c)
  PROVE  RunStep(c, "login")
<1>1. RunEvent(c, "login") /\ UNCHANGED <<pending, disturbed, met, left>>
  BY DEF RunLogin
<1>2. name \in [Clients -> Names \cup {Null}] /\ signedIn \in [Clients -> BOOLEAN]
      /\ pending \in [Clients -> Seq(Write)] /\ pending[c] \in Seq(Write)
  BY DEF TypeOK
<1>3. Added(c) = {} /\ pending' \in [Clients -> Seq(Write)]
      /\ \A d \in Clients : pending'[d] = pending[d]
  BY <1>1, <1>2 DEF Added
<1>4. Extends(pending[c], pending'[c])
  BY <1>1, <1>2, Places DEF Extends
<1>5. Snapshot(c) \in Users_
  BY <1>1, RunFacts
<1>6. CASE UNCHANGED <<name, signedIn>>
  BY <1>1, <1>2, <1>3, <1>4, <1>6 DEF RunStep
<1>7. CASE \E k \in Keys : /\ Snapshot(c)[k] # Null
                           /\ name' = [name EXCEPT ![c] = Snapshot(c)[k].Username]
                           /\ signedIn' = [signedIn EXCEPT ![c] = TRUE]
  <2>1. PICK k \in Keys : /\ Snapshot(c)[k] # Null
                          /\ name' = [name EXCEPT ![c] = Snapshot(c)[k].Username]
                          /\ signedIn' = [signedIn EXCEPT ![c] = TRUE]
    BY <1>7
  <2>2. k \in KeysOf(Snapshot(c))
    BY <2>1 DEF KeysOf
  <2>3. Snapshot(c)[k].Username \in Names
    BY <1>5, <2>2, AccountOf, AccountFields
  <2>4. /\ name' \in [Clients -> Names \cup {Null}] /\ signedIn' \in [Clients -> BOOLEAN]
        /\ \A d \in Clients \ {c} : name'[d] = name[d] /\ signedIn'[d] = signedIn[d]
        /\ signedIn'[c] /\ name'[c] = Snapshot(c)[k].Username
    BY <1>2, <2>1, <2>3
  <2> QED
    BY <1>1, <1>2, <1>3, <1>4, <2>2, <2>4 DEF RunStep
<1> QED
  BY <1>6, <1>7 DEF RunLogin

(* What the other steps change of the messages of c. *)
LEMMA Sent ==
  ASSUME TypeOK, NEW c \in Clients, NEW m \in Message, push'[c] = Append(push[c], m)
  PROVE  LET p == Len(push[c]) + 1
         IN  /\ push'[c] \in Seq(Message)
             /\ p \in Nat /\ p \notin DOMAIN push[c]
             /\ DOMAIN push'[c] = DOMAIN push[c] \cup {p} /\ push'[c][p] = m
             /\ \A q \in DOMAIN push[c] : push'[c][q] = push[c][q] /\ q \in Nat /\ q < p
<1>1. push[c] \in Seq(Message) /\ DOMAIN push[c] = 1..Len(push[c]) /\ Len(push[c]) \in Nat
  BY ClientTypes, Places
<1> DEFINE p == Len(push[c]) + 1
<1>2. /\ push'[c] \in Seq(Message)
      /\ DOMAIN push'[c] = DOMAIN push[c] \cup {p} /\ push'[c][p] = m
      /\ \A q \in DOMAIN push[c] : push'[c][q] = push[c][q]
  BY <1>1, Appended DEF Extends
<1>3. p \in Nat /\ p \notin DOMAIN push[c] /\ \A q \in DOMAIN push[c] : q \in Nat /\ q < p
  BY <1>1
<1> QED
  BY <1>2, <1>3

LEMMA Arrived ==
  ASSUME TypeOK, NEW c \in Clients, NEW kind, Arrives(c, kind)
  PROVE  /\ push' \in [Clients -> Seq(Message)] /\ Behind(push[c], push'[c])
         /\ \A d \in Clients \ {c} : push'[d] = push[d]
         /\ 1 \in DOMAIN push[c] /\ Head(push[c]) = push[c][1]
         /\ push[c][1].kind = kind
<1>1. push \in [Clients -> Seq(Message)] /\ push[c] \in Seq(Message)
  BY DEF TypeOK
<1>2. push[c] # <<>> /\ Head(push[c]).kind = kind /\ push' = [push EXCEPT ![c] = Tail(@)]
  BY DEF Arrives
<1>3. /\ Tail(push[c]) \in Seq(Message) /\ Behind(push[c], Tail(push[c]))
      /\ push[c][1] = Head(push[c]) /\ 1 \in DOMAIN push[c]
  BY <1>1, <1>2, TailBehind
<1> QED
  BY <1>1, <1>2, <1>3

(* The first answer on its way is that of the oldest write. *)
LEMMA Answered ==
  ASSUME TypeOK, NEW c \in Clients, InOrder(c), 1 \in Own(c)
  PROVE  /\ taken[c] >= 1 /\ 1 \in DOMAIN pending[c] /\ pending[c] # <<>>
         /\ pending[c][1] = push[c][1].write
<1>1. taken[c] \in Nat /\ taken[c] <= Len(pending[c]) /\ pending[c] \in Seq(Write)
      /\ Len(pending[c]) \in Nat /\ DOMAIN pending[c] = 1..Len(pending[c])
  BY ClientTypes, Places
<1>2. PICK at \in [1..taken[c] -> DOMAIN push[c]] :
        /\ \A i, j \in 1..taken[c] : i < j => at[i] < at[j]
        /\ \A i \in 1..taken[c] : at[i] \in Own(c) /\ push[c][at[i]].write = pending[c][i]
        /\ \A p \in Own(c) : \E i \in 1..taken[c] : at[i] = p
  BY DEF InOrder
<1>3. PICK i \in 1..taken[c] : at[i] = 1
  BY <1>2
<1>4. 1 \in 1..taken[c] /\ i \in Nat /\ taken[c] >= 1 /\ 1 \in DOMAIN pending[c]
  BY <1>1, <1>3
<1>5. i = 1
  <2>1. at[1] \in DOMAIN push[c] /\ at[1] \in Nat \ {0}
    BY <1>2, <1>4, MessageAt
  <2>2. ~(at[1] < 1)
    BY <2>1
  <2>3. ~(1 < i)
    BY <1>2, <1>3, <1>4, <2>2
  <2> QED
    BY <1>3, <1>4, <2>3
<1>6. pending[c] # <<>>
  BY <1>1, <1>4
<1> QED
  BY <1>2, <1>3, <1>4, <1>5, <1>6

(* The server takes write w of c. *)
TakeStep(c, w) ==
    /\ connected[c]
    /\ taken[c] + 1 \in DOMAIN pending[c] /\ w = pending[c][taken[c] + 1] /\ w \in Write
    /\ Creation(w) \/ users[w.key] # Null
    /\ users' \in Users_ /\ KeysOf(users)' = KeysOf(users) \cup {w.key}
    /\ users'[w.key] # Null
    /\ \A k \in Keys : k # w.key => users'[k] = users[k]
    /\ \A ch \in Children : /\ ch \in w.sets => users'[w.key][ch] = w.to[ch]
                            /\ ch \notin w.sets => users'[w.key][ch] = users[w.key][ch]
    /\ \E m \in Message :
         /\ m.kind = "write" /\ m.from = c /\ m.write = w
         /\ push' \in [Clients -> Seq(Message)]
         /\ push'[c] = Append(push[c], m)
         /\ \A d \in Clients \ {c} : \/ listening[d] /\ push'[d] = Append(push[d], m)
                                     \/ ~listening[d] /\ push'[d] = push[d]
    /\ taken' \in [Clients -> Nat] /\ taken'[c] = taken[c] + 1
    /\ \A d \in Clients \ {c} : taken'[d] = taken[d]
    /\ UNCHANGED <<cache, pending, connected, listening, asked, inbox, appVars, left>>

LEMMA ServerTakeStep ==
  ASSUME TypeOK, NEW c \in Clients, KnownInv(c), PresenceInv(c), ServerTake(c)
  PROVE  \E w : TakeStep(c, w)
<1> DEFINE w == pending[c][taken[c] + 1]
           m == [kind |-> "write", from |-> c, write |-> w]
<1>1. /\ connected[c] /\ taken[c] < Len(pending[c])
      /\ users' = Apply(users, w)
      /\ push' = [d \in Clients |-> IF d = c \/ listening[d] THEN Append(push[d], m) ELSE push[d]]
      /\ taken' = [taken EXCEPT ![c] = @ + 1]
      /\ UNCHANGED <<cache, pending, connected, listening, asked, inbox, appVars, left>>
  BY DEF ServerTake
<1>2. w \in Write /\ taken[c] + 1 \in DOMAIN pending[c] /\ (Creation(w) \/ users[w.key] # Null)
  BY <1>1, TakenWrite
<1>3. users \in Users_ /\ push \in [Clients -> Seq(Message)] /\ taken \in [Clients -> Nat]
  BY DEF TypeOK
<1>4. m \in Message /\ m.kind = "write" /\ m.from = c /\ m.write = w
  BY <1>2 DEF Message
<1> HIDE DEF w, m
<1>5. /\ users' \in Users_ /\ KeysOf(users') = KeysOf(users) \cup {w.key}
      /\ users'[w.key] # Null
      /\ \A k \in Keys : k # w.key => users'[k] = users[k]
      /\ \A ch \in Children : users'[w.key][ch] = IF ch \in w.sets THEN w.to[ch]
                                                  ELSE users[w.key][ch]
  BY <1>1, <1>2, <1>3, Applied
<1>6. KeysOf(users)' = KeysOf(users')
  BY DEF KeysOf
<1>7. \A d \in Clients : Append(push[d], m) \in Seq(Message)
  BY <1>3, <1>4
<1>8. push' \in [Clients -> Seq(Message)]
  BY <1>1, <1>3, <1>7
<1>9. push'[c] = Append(push[c], m)
      /\ \A d \in Clients \ {c} : \/ listening[d] /\ push'[d] = Append(push[d], m)
                                  \/ ~listening[d] /\ push'[d] = push[d]
  BY <1>1
<1>10. taken' \in [Clients -> Nat] /\ taken'[c] = taken[c] + 1
       /\ \A d \in Clients \ {c} : taken'[d] = taken[d]
  BY <1>1, <1>3
<1>11. w = pending[c][taken[c] + 1]
  BY DEF w
<1>12. \A ch \in Children : /\ ch \in w.sets => users'[w.key][ch] = w.to[ch]
                            /\ ch \notin w.sets => users'[w.key][ch] = users[w.key][ch]
  BY <1>5
<1>13. \E msg \in Message :
         /\ msg.kind = "write" /\ msg.from = c /\ msg.write = w
         /\ push' \in [Clients -> Seq(Message)]
         /\ push'[c] = Append(push[c], msg)
         /\ \A d \in Clients \ {c} : \/ listening[d] /\ push'[d] = Append(push[d], msg)
                                     \/ ~listening[d] /\ push'[d] = push[d]
  BY <1>4, <1>8, <1>9
<1>14. TakeStep(c, w)
  BY ONLY <1>1, <1>2, <1>5, <1>6, <1>10, <1>11, <1>12, <1>13 DEF TakeStep
<1> QED
  BY <1>14

(* The data of the server arrives at c. *)
UsersStep(c, us) ==
    /\ push' \in [Clients -> Seq(Message)] /\ Behind(push[c], push'[c])
    /\ \A d \in Clients \ {c} : push'[d] = push[d]
    /\ 1 \in DOMAIN push[c] /\ push[c][1].kind = "users" /\ us = push[c][1].users
    /\ us \in Users_
    /\ inbox' \in [Clients -> Seq(Snapshots)] /\ asked' \in [Clients -> Seq(Op)]
    /\ cache' \in [Clients -> Users_ \cup {Null}]
    /\ \A d \in Clients \ {c} : /\ inbox'[d] = inbox[d] /\ asked'[d] = asked[d]
                                /\ cache'[d] = cache[d]
    /\ \/ /\ Observed(c) /\ cache'[c] = us
          /\ Grounded(us, pending[c]) /\ Seen(us, pending[c]) \in Users_
          /\ asked'[c] = <<>>
          /\ \/ asked[c] = <<>> /\ inbox'[c] = inbox[c]
             \/ /\ inbox[c] = <<>> /\ Len(inbox'[c]) = Len(asked[c])
                /\ \A i \in DOMAIN inbox'[c] :
                     i \in DOMAIN asked[c] /\ inbox'[c][i] = Event(asked[c][i], Seen(us, pending[c]))
       \/ /\ ~Observed(c) /\ cache[c] = Null /\ cache'[c] = Null
          /\ inbox'[c] = inbox[c] /\ asked'[c] = asked[c]
    /\ UNCHANGED <<users, pending, taken, connected, listening, appVars, left>>

LEMMA ReceiveUsersStep ==
  ASSUME TypeOK, NEW c \in Clients, KnownInv(c), AnswersInv(c), ReceiveUsers(c)
  PROVE  UsersStep(c, Head(push[c]).users)
<1> DEFINE us == Head(push[c]).users
           e(op) == Event(op, Seen(us, pending[c]))
           evs == [n \in DOMAIN asked[c] |-> e(asked[c][n])]
<1>1. /\ Arrives(c, "users")
      /\ UNCHANGED <<users, pending, taken, connected, listening, appVars, left>>
  BY DEF ReceiveUsers
<1>2. /\ push' \in [Clients -> Seq(Message)] /\ Behind(push[c], push'[c])
      /\ \A d \in Clients \ {c} : push'[d] = push[d]
      /\ 1 \in DOMAIN push[c] /\ push[c][1].kind = "users" /\ us = push[c][1].users
  BY <1>1, Arrived
<1>3. us \in Users_
  BY <1>2, MessageAt
<1>4. /\ inbox \in [Clients -> Seq(Snapshots)] /\ asked \in [Clients -> Seq(Op)]
      /\ cache \in [Clients -> Users_ \cup {Null}]
  BY DEF TypeOK, Snapshots
<1>5. pending[c] \in Seq(Write) /\ asked[c] \in Seq(Op) /\ inbox[c] \in Seq(Snapshots)
  BY ClientTypes
<1>6. Grounded(us, pending[c])
  <2>1. \A k \in Keys : Base(c, k) => us[k] # Null
    BY <1>2 DEF Base
  <2> HIDE DEF us
  <2> QED
    BY <2>1, WritesGrounded
<1>7. Seen(us, pending[c]) \in Users_
  BY <1>3, <1>5, <1>6, SeenType
<1>8. CASE Observed(c)
  <2>1. /\ cache' = [cache EXCEPT ![c] = us]
        /\ inbox' = [inbox EXCEPT ![c] = @ \o evs]
        /\ asked' = [asked EXCEPT ![c] = <<>>]
    BY <1>8 DEF ReceiveUsers
  <2>2. DOMAIN asked[c] = 1..Len(asked[c]) /\ Len(asked[c]) \in Nat
        /\ \A n \in DOMAIN asked[c] : asked[c][n] \in Op
    BY <1>5, Element, Places
  <2>3. \A op \in Op : e(op) \in Snapshots
    BY <1>7 DEF Event, Snapshots
  <2> HIDE DEF us, e
  <2>4. evs \in Seq(Snapshots) /\ Len(evs) = Len(asked[c]) /\ DOMAIN evs = DOMAIN asked[c]
    BY <2>2, <2>3
  <2>5. \A n \in DOMAIN asked[c] : evs[n] = e(asked[c][n])
    OBVIOUS
  <2> HIDE DEF evs
  <2>6. inbox[c] \o evs \in Seq(Snapshots) /\ inbox'[c] = inbox[c] \o evs
        /\ \A d \in Clients \ {c} : inbox'[d] = inbox[d]
    BY <1>4, <1>5, <2>1, <2>4
  <2>7. inbox' \in [Clients -> Seq(Snapshots)]
    BY <1>4, <2>1, <2>6
  <2>8. CASE asked[c] = <<>>
    <3>1. evs = <<>>
      BY <2>2, <2>4, <2>8
    <3>2. inbox[c] \o evs = inbox[c]
      BY <1>5, <3>1
    <3> QED
      BY <1>1, <1>2, <1>3, <1>4, <1>6, <1>7, <1>8, <2>1, <2>6, <2>7, <2>8, <3>2 DEF UsersStep, us
  <2>9. CASE asked[c] # <<>>
    <3>1. inbox[c] = <<>>
      BY <2>9 DEF AnswersInv
    <3>2. inbox'[c] = evs
      BY <2>4, <2>6, <3>1
    <3>3. \A i \in DOMAIN inbox'[c] : i \in DOMAIN asked[c]
             /\ inbox'[c][i] = Event(asked[c][i], Seen(us, pending[c]))
      BY <2>4, <2>5, <3>2 DEF e
    <3>4. Len(inbox'[c]) = Len(asked[c])
      BY <2>4, <3>2
    <3> QED
      BY <1>1, <1>2, <1>3, <1>4, <1>6, <1>7, <1>8, <2>1, <2>6, <2>7, <3>1, <3>3, <3>4
      DEF UsersStep, us
  <2> QED
    BY <2>8, <2>9
<1>9. CASE ~Observed(c)
  <2>1. UNCHANGED <<cache, inbox, asked>>
    BY <1>9 DEF ReceiveUsers
  <2>2. cache[c] = Null
    BY <1>9 DEF TypeOK
  <2> QED
    BY <1>1, <1>2, <1>3, <1>4, <1>9, <2>1, <2>2 DEF UsersStep
<1> QED
  BY <1>8, <1>9

(* A change w arrives at c: somebody else's, or the answer to its own. *)
WriteStep(c, w) ==
    /\ push' \in [Clients -> Seq(Message)] /\ Behind(push[c], push'[c])
    /\ \A d \in Clients \ {c} : push'[d] = push[d]
    /\ 1 \in DOMAIN push[c] /\ push[c][1].kind = "write" /\ w = push[c][1].write
    /\ w \in Write
    /\ cache' \in [Clients -> Users_ \cup {Null}]
    /\ \A d \in Clients \ {c} : cache'[d] = cache[d]
    /\ cache[c] = Null <=> cache'[c] = Null
    /\ cache[c] # Null =>
         /\ KeysOf(cache'[c]) = KeysOf(cache[c]) \cup {w.key}
         /\ \A k \in Keys : k # w.key => cache'[c][k] = cache[c][k]
         /\ \A ch \in Children : /\ ch \in w.sets => cache'[c][w.key][ch] = w.to[ch]
                                 /\ ch \notin w.sets => cache'[c][w.key][ch] = cache[c][w.key][ch]
         /\ Creation(w) \/ Cached(c, w.key)
    /\ pending' \in [Clients -> Seq(Write)] /\ taken' \in [Clients -> Nat]
    /\ \A d \in Clients \ {c} : pending'[d] = pending[d] /\ taken'[d] = taken[d]
    /\ \/ /\ 1 \in Own(c) /\ taken[c] = taken'[c] + 1
          /\ 1 \in DOMAIN pending[c] /\ w = pending[c][1] /\ Behind(pending[c], pending'[c])
       \/ /\ 1 \notin Own(c) /\ push[c][1].from # c
          /\ taken'[c] = taken[c] /\ pending'[c] = pending[c]
    /\ UNCHANGED <<users, connected, listening, asked, inbox, appVars, left>>

LEMMA ReceiveWriteStep ==
  ASSUME TypeOK, NEW c \in Clients, AnswersInv(c), WholeInv(c), ReceiveWrite(c)
  PROVE  WriteStep(c, Head(push[c]).write)
<1> DEFINE w == Head(push[c]).write
<1>1. /\ Arrives(c, "write")
      /\ cache' = [cache EXCEPT ![c] = IF @ = Null THEN Null ELSE Apply(@, w)]
      /\ UNCHANGED <<users, connected, listening, asked, inbox, appVars, left>>
  BY DEF ReceiveWrite
<1>2. /\ push' \in [Clients -> Seq(Message)] /\ Behind(push[c], push'[c])
      /\ \A d \in Clients \ {c} : push'[d] = push[d]
      /\ 1 \in DOMAIN push[c] /\ push[c][1].kind = "write" /\ Head(push[c]) = push[c][1]
  BY <1>1, Arrived
<1>3. w = push[c][1].write /\ w \in Write /\ w.key \in Keys
  BY <1>2, MessageAt, WriteFields
<1>4. /\ cache \in [Clients -> Users_ \cup {Null}] /\ pending \in [Clients -> Seq(Write)]
      /\ taken \in [Clients -> Nat]
  BY DEF TypeOK
<1>5. ASSUME cache[c] # Null
      PROVE  Creation(w) \/ (Cached(c, w.key) /\ cache[c][w.key] # Null)
  <2>1. ASSUME NEW q \in DOMAIN push[c]
        PROVE  ~(q < 1)
    BY MessageAt
  <2> HIDE DEF w
  <2>2. ~Creation(w) => Cached(c, w.key)
    BY <1>2, <1>3, <1>5, <2>1 DEF WholeInv
  <2> QED
    BY <2>2 DEF Cached
<1>6. ASSUME cache[c] = Null
      PROVE  cache' \in [Clients -> Users_ \cup {Null}] /\ cache'[c] = Null
  BY <1>1, <1>4, <1>6
<1> HIDE DEF w
<1>7. ASSUME cache[c] # Null
      PROVE  /\ cache' \in [Clients -> Users_ \cup {Null}] /\ cache'[c] # Null
             /\ KeysOf(cache'[c]) = KeysOf(cache[c]) \cup {w.key}
             /\ \A k \in Keys : k # w.key => cache'[c][k] = cache[c][k]
             /\ \A ch \in Children : /\ ch \in w.sets => cache'[c][w.key][ch] = w.to[ch]
                                     /\ ch \notin w.sets => cache'[c][w.key][ch] = cache[c][w.key][ch]
  <2>1. cache'[c] = Apply(cache[c], w) /\ cache[c] \in Users_
    BY <1>1, <1>4, <1>7
  <2>2. Creation(w) \/ cache[c][w.key] # Null
    BY <1>5, <1>7
  <2>3. /\ Apply(cache[c], w) \in Users_
        /\ \A k \in Keys : k # w.key => Apply(cache[c], w)[k] = cache[c][k]
        /\ \A ch \in Children : Apply(cache[c], w)[w.key][ch] = IF ch \in w.sets THEN w.to[ch]
                                                                ELSE cache[c][w.key][ch]
        /\ KeysOf(Apply(cache[c], w)) = KeysOf(cache[c]) \cup {w.key}
    BY <1>3, <2>1, <2>2, Applied
  <2>4. cache'[c] \in Users_ /\ cache'[c] # Null
    BY <2>1, <2>3, NullIsNoAccount
  <2>5. cache' \in [Clients -> Users_ \cup {Null}]
    BY <1>1, <1>4, <2>1, <2>4
  <2> QED
    BY <2>1, <2>3, <2>4, <2>5
<1>8. \A d \in Clients \ {c} : cache'[d] = cache[d]
  BY <1>1, <1>4
<1>9. CASE push[c][1].from = c
  <2>1. 1 \in Own(c)
    BY <1>2, <1>9 DEF Own
  <2>2. taken[c] >= 1 /\ 1 \in DOMAIN pending[c] /\ pending[c] # <<>> /\ pending[c][1] = w
    BY <1>3, <2>1, Answered DEF AnswersInv
  <2>3. pending' = [pending EXCEPT ![c] = Tail(@)] /\ taken' = [taken EXCEPT ![c] = @ - 1]
    BY <1>2, <1>9 DEF ReceiveWrite
  <2>4. Tail(pending[c]) \in Seq(Write) /\ Behind(pending[c], Tail(pending[c]))
    BY <1>4, <2>2, TailBehind
  <2>5. pending' \in [Clients -> Seq(Write)] /\ Behind(pending[c], pending'[c])
    BY <1>4, <2>3, <2>4
  <2>6. taken[c] - 1 \in Nat
    BY <1>4, <2>2
  <2>7. taken' \in [Clients -> Nat] /\ taken[c] = taken'[c] + 1
    BY <1>4, <2>3, <2>6
  <2>8. \A d \in Clients \ {c} : pending'[d] = pending[d] /\ taken'[d] = taken[d]
    BY <1>4, <2>3
  <2> QED
    BY <1>1, <1>2, <1>3, <1>5, <1>6, <1>7, <1>8, <2>1, <2>2, <2>5, <2>7, <2>8 DEF WriteStep, w
<1>10. CASE push[c][1].from # c
  <2>1. 1 \notin Own(c)
    BY <1>10 DEF Own
  <2>2. pending' = pending /\ taken' = taken
    BY <1>2, <1>10 DEF ReceiveWrite
  <2> QED
    BY <1>1, <1>2, <1>3, <1>4, <1>5, <1>6, <1>7, <1>8, <1>10, <2>1, <2>2 DEF WriteStep, w
<1> QED
  BY <1>9, <1>10

-----------------------------------------------------------------------------
(***************************************************************************)
(* Types                                                                   *)
(***************************************************************************)
LEMMA AskActions ==
  ASSUME NEW c \in Clients,
         \/ SignUp(c) \/ Login(c) \/ Submit_Auction(c)
         \/ \E child \in Others : UpdateOther(c, child)
  PROVE  \E op \in Op : AskStep(c, op)
<1>1. CASE SignUp(c)
  <2>1. AskStep(c, "signUp")
    BY <1>1 DEF SignUp, AskStep
  <2> QED
    BY <2>1 DEF Op
<1>2. CASE Login(c)
  <2>1. AskStep(c, "login")
    BY <1>2 DEF Login, AskStep
  <2> QED
    BY <2>1 DEF Op
<1>3. CASE Submit_Auction(c)
  <2>1. AskStep(c, "count")
    BY <1>3 DEF Submit_Auction, AskStep
  <2> QED
    BY <2>1 DEF Op
<1>4. CASE \E child \in Others : UpdateOther(c, child)
  <2>1. PICK child \in Others : AskStep(c, child)
    BY <1>4 DEF UpdateOther, AskStep
  <2> QED
    BY <2>1, AccountsAssumption DEF Op
<1> QED
  BY <1>1, <1>2, <1>3, <1>4

(* The steps of the app that look at nothing. *)
LEMMA TypeAsk ==
  ASSUME TypeOK, NEW c \in Clients, AnswersInv(c), KnownInv(c), NEW op \in Op, AskStep(c, op),
         submitted' \in [Names -> Nat], submitters' \in [Names -> SUBSET Clients],
         disturbed' \subseteq Names, met' \in BOOLEAN,
         left' \in [uses : Nat, logins : Nat, losses : Nat]
  PROVE  TypeOK'
<1>1. /\ inbox' \in [Clients -> Seq(Snapshots)] /\ asked' \in [Clients -> Seq(Op)]
      /\ \A d \in Clients \ {c} : inbox'[d] = inbox[d] /\ asked'[d] = asked[d]
      /\ Waiting(c)' = Waiting(c) + 1
  BY Asked
<1>2. UNCHANGED <<users, cache, pending, taken, connected, listening, push, profile, name, signedIn>>
  BY DEF AskStep, sdkVars
<1>3. \A d \in Clients : Observed(d) => Observed(d)'
  <2>1. Observed(c)'
    <3>1. Waiting(c) \in Nat
      BY WaitingType
    <3>2. \A m \in Nat : \A n : n = m + 1 => n > 0
      OBVIOUS
    <3>3. Waiting(c)' > 0
      BY ONLY <1>1, <3>1, <3>2
    <3> QED
      BY <3>3 DEF Observed
  <2>2. \A d \in Clients \ {c} : Observed(d) => Observed(d)'
    BY <1>1, <1>2 DEF Observed, Waiting
  <2> QED
    BY <2>1, <2>2
<1> QED
  BY <1>1, <1>2, <1>3 DEF TypeOK, Snapshots

LEMMA TypeRun ==
  ASSUME TypeOK, NEW c \in Clients, NEW op, RunStep(c, op)
  PROVE  TypeOK'
<1>1. /\ inbox' \in [Clients -> Seq(Snapshots)] /\ asked' = asked /\ profile' = profile
      /\ \A d \in Clients \ {c} : inbox'[d] = inbox[d] /\ cache'[d] = cache[d]
      /\ cache' \in [Clients -> Users_ \cup {Null}] /\ listening' \in [Clients -> BOOLEAN]
      /\ IsLastObserver(c) => cache'[c] = Null
      /\ ~IsLastObserver(c) => Observed(c)'
  BY RunFacts DEF RunStep
<1>2. /\ UNCHANGED <<users, taken, connected, push, asked, profile, submitted, submitters>>
      /\ UNCHANGED <<disturbed, met, left>>
      /\ pending' \in [Clients -> Seq(Write)]
      /\ name' \in [Clients -> Names \cup {Null}] /\ signedIn' \in [Clients -> BOOLEAN]
  BY DEF RunStep, RunEvent
<1>3. \A d \in Clients : cache'[d] # Null => Observed(d)'
  <2>1. \A d \in Clients \ {c} : Observed(d) => Observed(d)'
    BY <1>1 DEF Observed, Waiting
  <2> QED
    BY <1>1, <2>1 DEF TypeOK
<1>4. \A d \in Clients : taken'[d] <= Len(pending'[d])
  <2>1. \A d \in Clients : taken[d] <= Len(pending[d]) /\ taken[d] \in Nat
    BY DEF TypeOK
  <2>2. Len(pending[c]) <= Len(pending'[c]) /\ Len(pending[c]) \in Nat /\ Len(pending'[c]) \in Nat
    BY DEF RunStep, Extends
  <2>3. taken[c] <= Len(pending'[c])
    BY <2>1, <2>2
  <2>4. \A d \in Clients \ {c} : pending'[d] = pending[d]
    BY DEF RunStep
  <2> QED
    BY <1>2, <2>1, <2>3, <2>4
<1>5. \A d \in Clients : signedIn'[d] => name'[d] # Null
  <2>1. \A d \in Clients : signedIn[d] => name[d] # Null
    BY DEF TypeOK
  <2>2. ASSUME NEW k \in KeysOf(Snapshot(c)), name'[c] = Snapshot(c)[k].Username
        PROVE  name'[c] # Null
    <3>1. Snapshot(c) \in Users_
      BY RunFacts DEF RunStep
    <3>2. Snapshot(c)[k].Username \in Names
      BY <3>1, AccountOf, AccountFields
    <3> QED
      BY <2>2, <3>2, AccountsAssumption
  <2> QED
    BY <2>1, <2>2 DEF RunStep
<1> QED
  BY <1>1, <1>2, <1>3, <1>4, <1>5 DEF TypeOK, Snapshots

LEMMA TypeTake ==
  ASSUME TypeOK, NEW c \in Clients, NEW w, TakeStep(c, w)
  PROVE  TypeOK'
<1>1. /\ users' \in Users_ /\ push' \in [Clients -> Seq(Message)] /\ taken' \in [Clients -> Nat]
      /\ UNCHANGED <<cache, pending, connected, listening, asked, inbox, appVars, left>>
  BY DEF TakeStep
<1>2. \A d \in Clients : taken'[d] <= Len(pending'[d])
  <2>1. taken[c] + 1 \in DOMAIN pending[c] /\ taken'[c] = taken[c] + 1
        /\ \A d \in Clients \ {c} : taken'[d] = taken[d]
    BY DEF TakeStep
  <2>2. taken[c] + 1 <= Len(pending[c])
    BY <2>1, WriteAt
  <2>3. \A d \in Clients : taken[d] <= Len(pending[d])
    BY DEF TypeOK
  <2> QED
    BY <1>1, <2>1, <2>2, <2>3
<1>3. \A d \in Clients : Observed(d) => Observed(d)'
  BY <1>1 DEF Observed, Waiting, appVars
<1> QED
  BY <1>1, <1>2, <1>3 DEF TypeOK, appVars

LEMMA TypeUsers ==
  ASSUME TypeOK, NEW c \in Clients, NEW us, UsersStep(c, us)
  PROVE  TypeOK' /\ Waiting(c)' = Waiting(c)
<1>1. /\ push' \in [Clients -> Seq(Message)] /\ inbox' \in [Clients -> Seq(Snapshots)]
      /\ asked' \in [Clients -> Seq(Op)] /\ cache' \in [Clients -> Users_ \cup {Null}]
      /\ \A d \in Clients \ {c} : /\ inbox'[d] = inbox[d] /\ asked'[d] = asked[d]
                                  /\ cache'[d] = cache[d]
      /\ UNCHANGED <<users, pending, taken, connected, listening, appVars, left>>
  BY DEF UsersStep
<1>2. Waiting(c)' = Waiting(c)
  <2>1. \/ asked'[c] = asked[c] /\ inbox'[c] = inbox[c]
        \/ inbox[c] = <<>> /\ asked'[c] = <<>> /\ Len(inbox'[c]) = Len(asked[c])
    BY DEF UsersStep
  <2>2. Waiting(c) = Len(asked[c]) + Len(inbox[c]) /\ Len(asked[c]) \in Nat
    BY WaitingType
  <2>3. Waiting(c)' = Len(asked'[c]) + Len(inbox'[c])
    BY DEF Waiting
  <2>4. CASE asked'[c] = asked[c] /\ inbox'[c] = inbox[c]
    BY <2>2, <2>3, <2>4
  <2>5. CASE inbox[c] = <<>> /\ asked'[c] = <<>> /\ Len(inbox'[c]) = Len(asked[c])
    <3>1. Len(inbox[c]) = 0 /\ Len(asked'[c]) = 0
      BY <2>5
    <3> QED
      BY <2>2, <2>3, <2>5, <3>1
  <2> QED
    BY <2>1, <2>4, <2>5
<1>3. \A d \in Clients : cache'[d] # Null => Observed(d)'
  <2>1. cache'[c] # Null => Observed(c)
    BY DEF UsersStep
  <2>2. \A d \in Clients : cache[d] # Null => Observed(d)
    BY DEF TypeOK
  <2>3. \A d \in Clients \ {c} : Observed(d)' = Observed(d)
    BY <1>1 DEF Observed, Waiting, appVars
  <2>4. Observed(c)' = Observed(c)
    BY <1>1, <1>2 DEF Observed, appVars
  <2> QED
    BY <1>1, <2>1, <2>2, <2>3, <2>4
<1> QED
  BY <1>1, <1>2, <1>3 DEF TypeOK, appVars, Snapshots

LEMMA TypeWrite ==
  ASSUME TypeOK, NEW c \in Clients, NEW w, WriteStep(c, w)
  PROVE  TypeOK'
<1>1. /\ push' \in [Clients -> Seq(Message)] /\ cache' \in [Clients -> Users_ \cup {Null}]
      /\ pending' \in [Clients -> Seq(Write)] /\ taken' \in [Clients -> Nat]
      /\ UNCHANGED <<users, connected, listening, asked, inbox, appVars, left>>
  BY DEF WriteStep
<1>2. \A d \in Clients : taken'[d] <= Len(pending'[d])
  <2>1. \A d \in Clients : taken[d] <= Len(pending[d])
    BY DEF TypeOK
  <2>2. \/ taken[c] = taken'[c] + 1 /\ Behind(pending[c], pending'[c])
        \/ taken'[c] = taken[c] /\ pending'[c] = pending[c]
    BY DEF WriteStep
  <2>3. taken'[c] <= Len(pending'[c])
    BY <1>1, <2>1, <2>2 DEF Behind
  <2>4. \A d \in Clients \ {c} : pending'[d] = pending[d] /\ taken'[d] = taken[d]
    BY DEF WriteStep
  <2> QED
    BY <2>1, <2>3, <2>4
<1>3. \A d \in Clients : Observed(d)' = Observed(d)
  BY <1>1 DEF Observed, Waiting, appVars
<1>4. \A d \in Clients : cache'[d] # Null => cache[d] # Null
  BY DEF WriteStep
<1> QED
  BY <1>1, <1>2, <1>3, <1>4 DEF TypeOK, appVars

-----------------------------------------------------------------------------
(***************************************************************************)
(* What holds of one client                                                *)
(***************************************************************************)
LEMMA NameUnique ==
  ASSUME OneName, NEW c \in Clients, NEW d \in Clients, NEW k \in Keys, NEW m, NEW n,
         NameAt(c, k, m), NameAt(d, k, n)
  PROVE  m = n
<1>1. \A e \in Clients : \A i \in DOMAIN pending[e] :
        Creation(pending[e][i]) /\ pending[e][i].key = k =>
            /\ users[k] # Null => users[k].Username = pending[e][i].to.Username
            /\ \A f \in Clients : \A j \in DOMAIN pending[f] :
                 Creation(pending[f][j]) /\ pending[f][j].key = k
                     => pending[f][j].to.Username = pending[e][i].to.Username
  BY DEF OneName
<1> QED
  BY <1>1 DEF NameAt

(* What a copy of Users/ shows under the writes of c. *)
LEMMA SnapshotNames ==
  ASSUME TypeOK, NEW c \in Clients, NamesInv(c), NEW b \in Users_, Grounded(b, pending[c]),
         \A k \in KeysOf(b) : users[k] # Null /\ b[k].Username = users[k].Username
  PROVE  LET s == Seen(b, pending[c])
         IN  /\ s \in Users_
             /\ \A k \in Keys : s[k] # Null <=> b[k] # Null \/ Created(c, k)
             /\ \A k \in KeysOf(s) : NameAt(c, k, s[k].Username)
<1> DEFINE s == Seen(b, pending[c])
<1>1. pending[c] \in Seq(Write)
  BY ClientTypes
<1>2. s \in Users_ /\ \A k \in Keys : s[k] # Null <=> b[k] # Null \/ Created(c, k)
  BY <1>1, SeenType, CreatedDef
<1>3. ASSUME NEW k \in KeysOf(s)
      PROVE  NameAt(c, k, s[k].Username)
  <2>1. k \in Keys /\ (b[k] # Null \/ Created(c, k))
    BY <1>2 DEF KeysOf
  <2>2. b[k] # Null \/ Written(pending[c], k)
    BY <2>1 DEF Created, Written
  <2>3. "Username" \in Children
    BY DEF Children
  <2>4. \/ /\ Setting(pending[c], k, "Username") = {}
           /\ s[k]["Username"] = b[k]["Username"]
        \/ \E i \in DOMAIN pending[c] : /\ pending[c][i].key = k
                                        /\ s[k]["Username"] = pending[c][i].to["Username"]
    BY <1>1, <2>1, <2>2, <2>3, SeenChild
  <2>5. CASE Setting(pending[c], k, "Username") = {} /\ s[k].Username = b[k].Username
    <3>1. ~Created(c, k)
      BY <2>3, <2>5 DEF Created, Setting, Creation
    <3>2. k \in KeysOf(b)
      BY <2>1, <3>1 DEF KeysOf
    <3>3. users[k] # Null /\ users[k].Username = s[k].Username
      BY <2>5, <3>2
    <3> QED
      BY <3>3 DEF NameAt
  <2>6. CASE \E i \in DOMAIN pending[c] : /\ pending[c][i].key = k
                                          /\ s[k].Username = pending[c][i].to.Username
    <3>1. PICK i \in DOMAIN pending[c] : /\ pending[c][i].key = k
                                         /\ s[k].Username = pending[c][i].to.Username
      BY <2>6
    <3>2. NameAt(c, pending[c][i].key, pending[c][i].to.Username)
      BY DEF NamesInv
    <3> HIDE DEF s
    <3> QED
      BY <3>1, <3>2
  <2> QED
    BY <2>4, <2>5, <2>6
<1> QED
  BY <1>2, <1>3

(* The copy of c has what the server has, under the same names, and what   *)
(* comes later has it too.                                                 *)
LEMMA CopyNames ==
  ASSUME TypeOK, NEW c \in Clients, PresenceInv(c), NamesInv(c), cache[c] # Null
  PROVE  \A k \in KeysOf(cache[c]) :
            users[k] # Null /\ cache[c][k].Username = users[k].Username /\ Base(c, k)
<1> SUFFICES ASSUME NEW k \in KeysOf(cache[c])
             PROVE  users[k] # Null /\ cache[c][k].Username = users[k].Username /\ Base(c, k)
  OBVIOUS
<1>1. users[k] # Null /\ cache[c][k].Username = users[k].Username /\ cache[c][k] # Null
  BY DEF PresenceInv, NamesInv, KeysOf
<1>2. ASSUME NEW p \in DOMAIN push[c], push[c][p].kind = "users"
      PROVE  push[c][p].users[k] # Null
  BY <1>2 DEF PresenceInv, Has, KeysOf
<1> QED
  BY <1>1, <1>2 DEF Base

(* InOrder, of the writes q of which the server took t and the messages r. *)
Ordered(c, t, q, r) ==
    \E at \in [1..t -> DOMAIN r] :
        /\ \A i, j \in 1..t : i < j => at[i] < at[j]
        /\ \A i \in 1..t : /\ r[at[i]].kind = "write" /\ r[at[i]].from = c
                           /\ r[at[i]].write = q[i]
        /\ \A p \in DOMAIN r : r[p].kind = "write" /\ r[p].from = c =>
             \E i \in 1..t : at[i] = p

LEMMA OrderNow ==
  ASSUME NEW c \in Clients
  PROVE  InOrder(c) <=> Ordered(c, taken[c], pending[c], push[c])
  BY DEF InOrder, Ordered, Own

LEMMA OrderNext ==
  ASSUME NEW c \in Clients
  PROVE  InOrder(c)' <=> Ordered(c, taken'[c], pending'[c], push'[c])
  BY DEF InOrder, Ordered, Own

Same(d) ==
    /\ cache'[d] = cache[d] /\ pending'[d] = pending[d] /\ taken'[d] = taken[d]
    /\ connected'[d] = connected[d] /\ listening'[d] = listening[d] /\ push'[d] = push[d]
    /\ asked'[d] = asked[d] /\ inbox'[d] = inbox[d] /\ profile'[d] = profile[d]
    /\ name'[d] = name[d] /\ signedIn'[d] = signedIn[d]

Local(c) == AnswersInv(c) /\ PresenceInv(c) /\ WholeInv(c) /\ KnownInv(c) /\ NamesInv(c)

(* The other clients keep what they have. *)
LEMMA LocalSame ==
  ASSUME NEW d \in Clients, Local(d), Same(d), users' = users
  PROVE  Local(d)'
<1>1. AnswersInv(d)'
  <2>1. InOrder(d)'
    BY OrderNow, OrderNext DEF Local, Same, AnswersInv
  <2> QED
    BY <2>1 DEF Local, Same, AnswersInv, Observed, Waiting
<1>2. PresenceInv(d)'
  BY DEF Local, Same, PresenceInv, KeysOf, Has
<1>3. WholeInv(d)'
  BY DEF Local, Same, WholeInv, Cached, Brings, KeysOf, Creation
<1>4. KnownInv(d)'
  BY DEF Local, Same, KnownInv, Base, Created, NameAt, KeysOf, Creation
<1>5. NamesInv(d)'
  BY DEF Local, Same, NamesInv, NameAt, KeysOf, Legal, Creation
<1> QED
  BY <1>1, <1>2, <1>3, <1>4, <1>5 DEF Local

LEMMA LocalAsk ==
  ASSUME TypeOK, NEW c \in Clients, Local(c), NEW op \in Op, AskStep(c, op)
  PROVE  Local(c)'
<1> USE DEF Local
<1> DEFINE s == Seen(cache[c], pending[c])
<1>1. UNCHANGED <<users, cache, pending, taken, connected, listening, push, profile, name, signedIn>>
  BY DEF AskStep, sdkVars
<1>2. \/ /\ cache[c] = Null
         /\ inbox'[c] = <<>> /\ asked'[c] = Append(asked[c], op)
      \/ /\ cache[c] # Null /\ asked'[c] = <<>>
         /\ inbox'[c] = <<Event(op, s)>>
         /\ Grounded(cache[c], pending[c])
  BY Asked
<1>3. Observed(c)'
  <2>1. Waiting(c) \in Nat /\ Waiting(c)' = Waiting(c) + 1
    BY WaitingType, Asked
  <2>2. \A m \in Nat : \A n : n = m + 1 => n > 0
    OBVIOUS
  <2>3. Waiting(c)' > 0
    BY ONLY <2>1, <2>2
  <2> QED
    BY <2>3 DEF Observed
<1>4. InOrder(c)'
  BY <1>1, OrderNow, OrderNext DEF AnswersInv
<1>5. AnswersInv(c)'
  BY <1>1, <1>2, <1>3, <1>4 DEF AnswersInv
<1>6. PresenceInv(c)'
  BY <1>1 DEF PresenceInv, KeysOf, Has
<1>7. WholeInv(c)'
  BY <1>1 DEF WholeInv, Cached, Brings, KeysOf, Creation
<1>8. /\ \A k : Base(c, k) => Base(c, k)'
      /\ \A k : Created(c, k) => Created(c, k)'
      /\ \A k, n : NameAt(c, k, n) => NameAt(c, k, n)'
  BY <1>1 DEF Base, Created, NameAt, Creation
<1>9. \A i \in DOMAIN inbox'[c] : \A k \in KeysOf(inbox'[c][i].users) :
        (Created(c, k) \/ Base(c, k)) /\ NameAt(c, k, inbox'[c][i].users[k].Username)
  <2>1. CASE inbox'[c] = <<>>
    BY <2>1
  <2>2. CASE cache[c] # Null /\ inbox'[c] = <<Event(op, s)>> /\ Grounded(cache[c], pending[c])
    <3>1. cache[c] \in Users_
      BY <2>2, ClientTypes
    <3>2. \A k \in KeysOf(cache[c]) :
             users[k] # Null /\ cache[c][k].Username = users[k].Username /\ Base(c, k)
      BY <2>2, CopyNames
    <3>3. /\ \A k \in Keys : s[k] # Null <=> cache[c][k] # Null \/ Created(c, k)
          /\ \A k \in KeysOf(s) : NameAt(c, k, s[k].Username)
      BY <2>2, <3>1, <3>2, SnapshotNames
    <3> HIDE DEF s
    <3>4. \A k \in KeysOf(s) : Created(c, k) \/ Base(c, k)
      BY <3>2, <3>3 DEF KeysOf
    <3>5. \A i \in DOMAIN inbox'[c] : inbox'[c][i].users = s
      BY <2>2 DEF Event
    <3> QED
      BY <3>3, <3>4, <3>5
  <2> QED
    BY <1>2, <2>1, <2>2
<1>10. KnownInv(c)'
  <2>1. \A i \in DOMAIN inbox'[c] : \A k \in KeysOf(inbox'[c][i].users) :
           Created(c, k)' \/ Base(c, k)'
    BY <1>8, <1>9
  <2> QED
    BY <1>1, <1>8, <2>1 DEF KnownInv, KeysOf
<1>11. NamesInv(c)'
  <2>1. \A i \in DOMAIN inbox'[c] : \A k \in KeysOf(inbox'[c][i].users) :
           \A n : n = inbox'[c][i].users[k].Username => NameAt(c, k, n)'
    BY <1>8, <1>9
  <2> QED
    BY <1>1, <1>8, <2>1 DEF NamesInv, KeysOf, Legal, Creation
<1> QED
  BY <1>5, <1>6, <1>7, <1>10, <1>11

(* The writes a handler adds: a new account, or changes of the accounts of *)
(* the name signed in.                                                     *)
NewWrite(c, op, w) ==
    /\ Legal(w) /\ w \in Write
    /\ Creation(w) => /\ op = "signUp" /\ w.key \in Keys \ Used /\ w.to.ItemsAuctioned = 0
                      /\ Named(Snapshot(c), w.to.Username) = {}
    /\ ~Creation(w) => /\ op # "signUp" /\ op # "login"
                       /\ w.key \in AccountsOf(Snapshot(c), name[c])
                       /\ w.key \in KeysOf(Snapshot(c))
                       /\ w.to.Username = Snapshot(c)[w.key].Username
                       /\ w.to.Username = name[c]
                       /\ op = "count" =>
                            w.to.ItemsAuctioned = Snapshot(c)[w.key].ItemsAuctioned + 1
                       /\ op # "count" => /\ "ItemsAuctioned" \notin w.sets
                                          /\ w.to.ItemsAuctioned = Snapshot(c)[w.key].ItemsAuctioned
                       /\ op = "count" => "ItemsAuctioned" \in w.sets

LEMMA AddsWrite ==
  ASSUME TypeOK, NEW c \in Clients, NEW op, RunEvent(c, op), NEW w, Adds(c, op, w)
  PROVE  NewWrite(c, op, w)
<1> DEFINE us == Snapshot(c)
<1>1. us \in Users_
  BY RunFacts
<1>2. \A k \in AccountsOf(us, name[c]) : k \in KeysOf(us) /\ us[k].Username = name[c]
  BY DEF AccountsOf, Named, KeysOf
<1>3. \A ch : ch \in {"ItemsAuctioned", "AuctionsWon", "ProfileImage"} =>
        ch \in Children /\ ch # "Username"
  BY DEF Children
<1>4. CASE op = "signUp"
  <2>1. PICK n \in Names, k \in Keys \ Used : w = CreateAccount(k, n) /\ ~NameTaken(us, n)
    BY <1>4 DEF Adds
  <2>2. w \in Write /\ w.key = k /\ w.to.Username = n /\ w.to.ItemsAuctioned = 0
        /\ Legal(w) /\ Creation(w)
    BY <2>1, CreateType
  <2> QED
    BY <1>4, <2>1, <2>2 DEF NewWrite, NameTaken
<1>5. CASE op = "count"
  <2>1. PICK k \in AccountsOf(us, name[c]) :
          w = Update(us, k, "ItemsAuctioned", us[k].ItemsAuctioned + 1)
    BY <1>5 DEF Adds
  <2> DEFINE v == us[k].ItemsAuctioned + 1
  <2>2. k \in KeysOf(us) /\ v \in Nat
    BY <1>1, <1>2, AccountOf, AccountFields
  <2> HIDE DEF us, v
  <2>3. /\ w \in Write /\ w.key = k /\ w.sets = {"ItemsAuctioned"} /\ w.to["ItemsAuctioned"] = v
        /\ \A ch \in Children \ {"ItemsAuctioned"} : w.to[ch] = us[k][ch]
        /\ Legal(w) /\ ~Creation(w)
    BY <1>1, <2>1, <2>2, UpdateType DEF v
  <2>4. w.to["Username"] = us[k]["Username"]
    BY <2>3 DEF Children
  <2> QED
    BY <1>2, <1>5, <2>2, <2>3, <2>4 DEF NewWrite, us, v
<1>6. CASE op \in {"AuctionsWon", "ProfileImage"}
  <2>1. PICK k \in AccountsOf(us, name[c]) : w = Update(us, k, op, 1)
    BY <1>6 DEF Adds
  <2>2. k \in KeysOf(us)
    BY <1>2
  <2> HIDE DEF us
  <2>3. /\ w \in Write /\ w.key = k /\ w.sets = {op}
        /\ \A ch \in Children \ {op} : w.to[ch] = us[k][ch]
        /\ Legal(w) /\ ~Creation(w)
    BY <1>1, <1>6, <2>1, <2>2, UpdateType
  <2>4. w.to["Username"] = us[k]["Username"] /\ w.to["ItemsAuctioned"] = us[k]["ItemsAuctioned"]
    BY <1>6, <2>3 DEF Children
  <2>5. op # "signUp" /\ op # "login" /\ op # "count" /\ "ItemsAuctioned" \notin w.sets
    BY <1>6, <2>3
  <2> QED
    BY <1>2, <2>2, <2>3, <2>4, <2>5 DEF NewWrite, us
<1> QED
  BY <1>4, <1>5, <1>6 DEF Adds

LEMMA AddedWrite ==
  ASSUME TypeOK, NEW c \in Clients, NEW op, RunStep(c, op), NEW n \in Added(c)
  PROVE  /\ NewWrite(c, op, pending'[c][n])
         /\ n \in Nat /\ n \in DOMAIN pending'[c] /\ n > taken[c] /\ n > Len(pending[c])
         /\ \A i \in DOMAIN pending[c] : i < n
<1>1. NewWrite(c, op, pending'[c][n])
  BY AddsWrite DEF RunStep
<1>2. /\ DOMAIN pending[c] = 1..Len(pending[c]) /\ DOMAIN pending'[c] = 1..Len(pending'[c])
      /\ Len(pending[c]) \in Nat /\ Len(pending'[c]) \in Nat
  BY DEF RunStep, Extends
<1>3. n \in 1..Len(pending'[c]) /\ n \notin 1..Len(pending[c])
  BY <1>2 DEF Added
<1>4. taken[c] \in Nat /\ taken[c] <= Len(pending[c])
  BY ClientTypes
<1>5. n \in Nat /\ n > Len(pending[c])
  BY <1>2, <1>3
<1> QED
  BY <1>1, <1>2, <1>3, <1>4, <1>5

LEMMA KeptWrite ==
  ASSUME NEW c \in Clients, NEW op, RunStep(c, op)
  PROVE  /\ \A i \in DOMAIN pending[c] : i \in DOMAIN pending'[c] /\ pending'[c][i] = pending[c][i]
         /\ \A i \in DOMAIN pending'[c] : i \in DOMAIN pending[c] \/ i \in Added(c)
  BY DEF RunStep, Extends, Added

LEMMA OrderKept ==
  ASSUME NEW c, NEW t, NEW q, NEW q2, NEW r, Ordered(c, t, q, r), \A i \in 1..t : q2[i] = q[i]
  PROVE  Ordered(c, t, q2, r)
<1>1. PICK at \in [1..t -> DOMAIN r] :
        /\ \A i, j \in 1..t : i < j => at[i] < at[j]
        /\ \A i \in 1..t : /\ r[at[i]].kind = "write" /\ r[at[i]].from = c
                           /\ r[at[i]].write = q[i]
        /\ \A p \in DOMAIN r : r[p].kind = "write" /\ r[p].from = c =>
             \E i \in 1..t : at[i] = p
  BY DEF Ordered
<1>2. \A i \in 1..t : r[at[i]].kind = "write" /\ r[at[i]].from = c /\ r[at[i]].write = q2[i]
  BY <1>1
<1> SUFFICES \E f \in [1..t -> DOMAIN r] :
        /\ \A i, j \in 1..t : i < j => f[i] < f[j]
        /\ \A i \in 1..t : /\ r[f[i]].kind = "write" /\ r[f[i]].from = c
                           /\ r[f[i]].write = q2[i]
        /\ \A p \in DOMAIN r : r[p].kind = "write" /\ r[p].from = c =>
             \E i \in 1..t : f[i] = p
  BY DEF Ordered
<1> WITNESS at \in [1..t -> DOMAIN r]
<1> QED
  BY <1>1, <1>2

(* Without a copy, what is on its way still meets what it changes. *)
LEMMA WholeWithoutCopy ==
  ASSUME TypeOK, NEW c \in Clients, PresenceInv(c), WholeInv(c),
         cache'[c] = cache[c] \/ cache'[c] = Null, push'[c] = push[c], users' = users,
         listening'[c] => listening[c] /\ cache'[c] = cache[c]
  PROVE  WholeInv(c)'
<1>1. ASSUME NEW p \in DOMAIN push[c], push[c][p].kind = "write", ~Creation(push[c][p].write),
             cache'[c] = Null
      PROVE  \/ \E q \in DOMAIN push[c] : q < p /\ Brings(push[c][q], push[c][p].write.key)
             \/ \A q \in DOMAIN push[c] : q < p => push[c][q].kind # "users"
  <2> DEFINE k == push[c][p].write.key
  <2>1. CASE Cached(c, k)
    <3>1. k \in Keys
      BY <1>1, MessageAt, WriteFields
    <3>2. k \in KeysOf(cache[c]) /\ cache[c] # Null
      BY <2>1, <3>1 DEF Cached, KeysOf
    <3>3. \A q \in DOMAIN push[c] : push[c][q].kind = "users" => k \in KeysOf(push[c][q].users)
      BY <3>2 DEF PresenceInv, Has
    <3> QED
      BY <3>3 DEF Brings
  <2> QED
    BY <1>1, <2>1 DEF WholeInv
<1>2. CASE cache'[c] = cache[c]
  BY <1>2 DEF WholeInv, Cached, Brings, KeysOf, Creation
<1>3. CASE cache'[c] = Null
  <2>1. ASSUME listening'[c]
        PROVE  cache'[c] = cache[c]
    BY <2>1
  <2>2. ~listening'[c] \/ cache'[c] = cache[c]
    BY <2>1
  <2>3. CASE ~listening'[c]
    BY <1>1, <1>3, <2>3 DEF WholeInv, Cached, Brings, KeysOf, Creation
  <2> QED
    BY <1>2, <2>2, <2>3
<1> QED
  BY <1>2, <1>3

LEMMA LocalRun ==
  ASSUME TypeOK, NEW c \in Clients, Local(c), NEW op, RunStep(c, op)
  PROVE  Local(c)'
<1> USE DEF Local
<1>1. /\ UNCHANGED <<users, taken, connected, push, asked, profile>>
      /\ inbox[c] # <<>>
  BY DEF RunStep, RunEvent
<1>2. /\ 1 \in DOMAIN inbox[c] /\ Behind(inbox[c], inbox'[c])
      /\ Snapshot(c) = inbox[c][1].users /\ Snapshot(c) \in Users_
      /\ IsLastObserver(c) => cache'[c] = Null /\ ~listening'[c] /\ ~Observed(c)'
      /\ ~IsLastObserver(c) => cache'[c] = cache[c] /\ listening'[c] = listening[c] /\ Observed(c)'
  BY RunFacts DEF RunStep
<1>3. /\ \A i \in DOMAIN pending[c] : i \in DOMAIN pending'[c] /\ pending'[c][i] = pending[c][i]
      /\ \A i \in DOMAIN pending'[c] : i \in DOMAIN pending[c] \/ i \in Added(c)
  BY KeptWrite
<1>4. \A i \in 1..taken[c] : i \in DOMAIN pending[c]
  BY ClientTypes, Places
<1>5. InOrder(c)'
  <2>1. Ordered(c, taken[c], pending[c], push[c])
    BY OrderNow DEF AnswersInv
  <2>2. Ordered(c, taken[c], pending'[c], push[c])
    BY <1>3, <1>4, <2>1, OrderKept
  <2> QED
    BY <1>1, <2>2, OrderNext
<1>6. AnswersInv(c)'
  BY <1>1, <1>2, <1>5 DEF AnswersInv
<1>7. PresenceInv(c)'
  BY <1>1, <1>2, <1>3, <1>4 DEF PresenceInv, KeysOf, Has
<1>8. WholeInv(c)'
  <2>1. cache'[c] = cache[c] \/ cache'[c] = Null
    BY <1>2
  <2>2. listening'[c] => listening[c] /\ cache'[c] = cache[c]
    BY <1>2
  <2> QED
    BY <1>1, <2>1, <2>2, WholeWithoutCopy
<1>9. /\ \A k : Base(c, k) => Base(c, k)'
      /\ \A k : Created(c, k) => Created(c, k)'
      /\ \A k, n : NameAt(c, k, n) => NameAt(c, k, n)'
  BY <1>1, <1>2, <1>3 DEF Base, Created, NameAt, Creation
<1>10. \A k \in KeysOf(Snapshot(c)) :
         (Created(c, k) \/ Base(c, k)) /\ NameAt(c, k, Snapshot(c)[k].Username)
  BY <1>2 DEF KnownInv, NamesInv
<1>11. \A i \in DOMAIN inbox'[c] : \A k \in KeysOf(inbox'[c][i].users) :
         (Created(c, k) \/ Base(c, k)) /\ NameAt(c, k, inbox'[c][i].users[k].Username)
  BY <1>2 DEF KnownInv, NamesInv, Behind
<1>12. KnownInv(c)'
  <2>1. ASSUME NEW i \in DOMAIN pending'[c], ~Creation(pending'[c][i])
        PROVE  \/ \A k : k = pending'[c][i].key => Base(c, k)'
               \/ \E j \in DOMAIN pending'[c] : /\ j < i /\ Creation(pending'[c][j])
                                                /\ pending'[c][j].key = pending'[c][i].key
    <3>1. CASE i \in DOMAIN pending[c]
      BY <1>3, <1>9, <2>1, <3>1 DEF KnownInv
    <3>2. CASE i \in Added(c)
      <4>1. pending'[c][i].key \in KeysOf(Snapshot(c))
        BY <2>1, <3>2, AddedWrite DEF NewWrite
      <4>2. \A j \in DOMAIN pending[c] : j < i
        BY <3>2, AddedWrite
      <4>3. Created(c, pending'[c][i].key) \/ Base(c, pending'[c][i].key)
        BY <1>10, <4>1
      <4> QED
        BY <1>3, <1>9, <4>2, <4>3 DEF Created
    <3> QED
      BY <1>3, <3>1, <3>2
  <2>2. \A i \in DOMAIN inbox'[c] : \A k \in KeysOf(inbox'[c][i].users) :
           Created(c, k)' \/ Base(c, k)'
    BY <1>9, <1>11
  <2>3. ASSUME signedIn'[c]
        PROVE  \E k \in Keys : (Created(c, k) \/ Base(c, k)) /\ \A n : n = name'[c] => NameAt(c, k, n)
    <3>1. CASE name'[c] = name[c] /\ signedIn'[c] = signedIn[c]
      BY <2>3, <3>1 DEF KnownInv
    <3>2. CASE \E k \in KeysOf(Snapshot(c)) : name'[c] = Snapshot(c)[k].Username
      BY <1>10, <3>2 DEF KeysOf
    <3> QED
      BY <3>1, <3>2 DEF RunStep
  <2>4. signedIn'[c] => \E k \in Keys : (Created(c, k)' \/ Base(c, k)')
                                          /\ \A n : n = name'[c] => NameAt(c, k, n)'
    BY <1>9, <2>3
  <2> QED
    BY <2>1, <2>2, <2>4 DEF KnownInv, KeysOf, Creation
<1>13. NamesInv(c)'
  <2>1. ASSUME NEW i \in DOMAIN pending'[c]
        PROVE  /\ Legal(pending'[c][i])
               /\ \A k, n : k = pending'[c][i].key /\ n = pending'[c][i].to.Username => NameAt(c, k, n)'
    <3>1. CASE i \in DOMAIN pending[c]
      BY <1>3, <1>9, <3>1 DEF NamesInv
    <3>2. CASE i \in Added(c)
      <4>1. NewWrite(c, op, pending'[c][i])
        BY <3>2, AddedWrite
      <4>2. CASE Creation(pending'[c][i])
        BY <4>1, <4>2 DEF NameAt, NewWrite, Creation
      <4>3. CASE ~Creation(pending'[c][i])
        BY <1>9, <1>10, <4>1, <4>3 DEF NewWrite
      <4> QED
        BY <4>2, <4>3
    <3> QED
      BY <1>3, <3>1, <3>2
  <2>2. \A i \in DOMAIN inbox'[c] : \A k \in KeysOf(inbox'[c][i].users) :
           \A n : n = inbox'[c][i].users[k].Username => NameAt(c, k, n)'
    BY <1>9, <1>11
  <2>3. cache'[c] # Null => cache'[c] = cache[c]
    BY <1>2
  <2> QED
    BY <1>1, <2>1, <2>2, <2>3 DEF NamesInv, KeysOf, Legal, Creation
<1> QED
  BY <1>6, <1>7, <1>8, <1>12, <1>13

-----------------------------------------------------------------------------
(***************************************************************************)
(* The order of the answers                                                *)
(***************************************************************************)
(* at gives the place of the answer to each of the first t writes of q.    *)
OrderedAt(c, t, q, r, at) ==
    /\ at \in [1..t -> DOMAIN r]
    /\ \A i, j \in 1..t : i < j => at[i] < at[j]
    /\ \A i \in 1..t : /\ r[at[i]].kind = "write" /\ r[at[i]].from = c
                       /\ r[at[i]].write = q[i]
    /\ \A p \in DOMAIN r : r[p].kind = "write" /\ r[p].from = c => \E i \in 1..t : at[i] = p

LEMMA OrderAt ==
  ASSUME NEW c, NEW t, NEW q, NEW r
  PROVE  Ordered(c, t, q, r) <=> \E at : OrderedAt(c, t, q, r, at)
<1>1. ASSUME Ordered(c, t, q, r)
      PROVE  \E at : OrderedAt(c, t, q, r, at)
  <2>1. PICK at \in [1..t -> DOMAIN r] :
          /\ \A i, j \in 1..t : i < j => at[i] < at[j]
          /\ \A i \in 1..t : /\ r[at[i]].kind = "write" /\ r[at[i]].from = c
                             /\ r[at[i]].write = q[i]
          /\ \A p \in DOMAIN r : r[p].kind = "write" /\ r[p].from = c => \E i \in 1..t : at[i] = p
    BY <1>1 DEF Ordered
  <2>2. OrderedAt(c, t, q, r, at)
    BY <2>1 DEF OrderedAt
  <2> QED
    BY <2>2
<1>2. ASSUME NEW at, OrderedAt(c, t, q, r, at)
      PROVE  Ordered(c, t, q, r)
  BY <1>2, Zenon DEF OrderedAt, Ordered
<1> QED
  BY <1>1, <1>2

LEMMA OrderNone ==
  ASSUME NEW c, NEW q, NEW r, DOMAIN r = {}
  PROVE  Ordered(c, 0, q, r)
<1> DEFINE at == [i \in 1..0 |-> i]
<1>1. 1..0 = {}
  OBVIOUS
<1>2. at \in [1..0 -> DOMAIN r]
  BY <1>1
<1> HIDE DEF at
<1>3. OrderedAt(c, 0, q, r, at)
  BY <1>1, <1>2 DEF OrderedAt
<1> QED
  BY <1>3, OrderAt

(* A message that is no answer to c is sent. *)
LEMMA OrderSent ==
  ASSUME NEW c, NEW t, NEW q, NEW r, NEW r2, NEW p, Ordered(c, t, q, r),
         DOMAIN r2 = DOMAIN r \cup {p}, \A n \in DOMAIN r : r2[n] = r[n],
         ~(r2[p].kind = "write" /\ r2[p].from = c)
  PROVE  Ordered(c, t, q, r2)
<1>1. PICK at : OrderedAt(c, t, q, r, at)
  BY OrderAt
<1>2. at \in [1..t -> DOMAIN r2]
  BY <1>1 DEF OrderedAt
<1>3. \A i \in 1..t : r2[at[i]] = r[at[i]]
  BY <1>1 DEF OrderedAt
<1>4. OrderedAt(c, t, q, r2, at)
  BY <1>1, <1>2, <1>3 DEF OrderedAt
<1> QED
  BY <1>4, OrderAt

(* The answer to the next write is sent. *)
LEMMA OrderTaken ==
  ASSUME NEW c, NEW t \in Nat, NEW q, NEW r, NEW r2, NEW p \in Nat, Ordered(c, t, q, r),
         DOMAIN r2 = DOMAIN r \cup {p}, \A n \in DOMAIN r : r2[n] = r[n] /\ n \in Nat /\ n < p,
         r2[p].kind = "write", r2[p].from = c, r2[p].write = q[t + 1]
  PROVE  Ordered(c, t + 1, q, r2)
<1>1. PICK at : OrderedAt(c, t, q, r, at)
  BY OrderAt
<1> DEFINE at2 == [i \in 1..(t + 1) |-> IF i = t + 1 THEN p ELSE at[i]]
<1>2. \A i \in 1..(t + 1) : i = t + 1 \/ i \in 1..t
  OBVIOUS
<1>3. \A i \in 1..t : at[i] \in DOMAIN r /\ at[i] \in Nat /\ at[i] < p
  BY <1>1 DEF OrderedAt
<1>4. at2[t + 1] = p /\ \A i \in 1..t : at2[i] = at[i] /\ i # t + 1 /\ i \in 1..(t + 1)
  OBVIOUS
<1>5. at2 \in [1..(t + 1) -> DOMAIN r2]
  BY <1>2, <1>3
<1> HIDE DEF at2
<1>6. \A i, j \in 1..(t + 1) : i < j => at2[i] < at2[j]
  <2>1. SUFFICES ASSUME NEW i \in 1..(t + 1), NEW j \in 1..(t + 1), i < j
                 PROVE  at2[i] < at2[j]
    OBVIOUS
  <2>2. i \in 1..t
    BY <2>1
  <2>3. CASE j = t + 1
    BY <1>3, <1>4, <2>2, <2>3
  <2>4. CASE j \in 1..t
    BY <1>1, <1>4, <2>1, <2>2, <2>4 DEF OrderedAt
  <2> QED
    BY <1>2, <2>3, <2>4
<1>7. \A i \in 1..(t + 1) : /\ r2[at2[i]].kind = "write" /\ r2[at2[i]].from = c
                            /\ r2[at2[i]].write = q[i]
  BY <1>1, <1>2, <1>3, <1>4 DEF OrderedAt
<1>8. t + 1 \in 1..(t + 1)
  OBVIOUS
<1>9. \A n \in DOMAIN r2 : r2[n].kind = "write" /\ r2[n].from = c => \E i \in 1..(t + 1) : at2[i] = n
  <2>1. SUFFICES ASSUME NEW n \in DOMAIN r2, r2[n].kind = "write" /\ r2[n].from = c
                 PROVE  \E i \in 1..(t + 1) : at2[i] = n
    OBVIOUS
  <2>2. CASE n = p
    BY <1>4, <1>8, <2>2
  <2>3. CASE n \in DOMAIN r
    <3>1. PICK i \in 1..t : at[i] = n
      BY <1>1, <2>1, <2>3 DEF OrderedAt
    <3> QED
      BY <1>4, <3>1
  <2> QED
    BY <2>2, <2>3
<1>10. OrderedAt(c, t + 1, q, r2, at2)
  BY <1>5, <1>6, <1>7, <1>9 DEF OrderedAt
<1> QED
  BY <1>10, OrderAt

(* A message that is no answer to c has arrived. *)
LEMMA OrderArrived ==
  ASSUME NEW c, NEW t \in Nat, NEW q, NEW r, NEW r2, Ordered(c, t, q, r), Behind(r, r2),
         ~(r[1].kind = "write" /\ r[1].from = c)
  PROVE  Ordered(c, t, q, r2)
<1>1. PICK at : OrderedAt(c, t, q, r, at)
  BY OrderAt
<1> DEFINE at2 == [i \in 1..t |-> at[i] - 1]
<1>2. \A i \in 1..t : at[i] \in DOMAIN r /\ at[i] # 1 /\ at[i] \in Nat
  BY <1>1 DEF OrderedAt, Behind
<1>3. \A i \in 1..t : at[i] - 1 \in DOMAIN r2 /\ r2[at[i] - 1] = r[at[i]]
  BY <1>2 DEF Behind
<1>4. at2 \in [1..t -> DOMAIN r2] /\ \A i \in 1..t : at2[i] = at[i] - 1
  BY <1>3
<1> HIDE DEF at2
<1>5. \A i, j \in 1..t : i < j => at2[i] < at2[j]
  <2>1. \A i, j \in 1..t : i < j => at[i] < at[j]
    BY <1>1 DEF OrderedAt
  <2>2. \A m, n \in Nat : m < n => m - 1 < n - 1
    OBVIOUS
  <2> QED
    BY <1>2, <1>4, <2>1, <2>2
<1>6. \A i \in 1..t : /\ r2[at2[i]].kind = "write" /\ r2[at2[i]].from = c
                      /\ r2[at2[i]].write = q[i]
  BY <1>1, <1>3, <1>4 DEF OrderedAt
<1>7. ASSUME NEW n \in DOMAIN r2, r2[n].kind = "write" /\ r2[n].from = c
      PROVE  \E i \in 1..t : at2[i] = n
  <2>1. n + 1 \in DOMAIN r /\ r2[n] = r[n + 1] /\ n \in Nat
    BY DEF Behind
  <2>2. PICK i \in 1..t : at[i] = n + 1
    BY <1>1, <1>7, <2>1 DEF OrderedAt
  <2>3. (n + 1) - 1 = n
    BY <2>1
  <2> QED
    BY <1>4, <2>2, <2>3
<1>8. OrderedAt(c, t, q, r2, at2)
  BY <1>4, <1>5, <1>6, <1>7 DEF OrderedAt
<1> QED
  BY <1>8, OrderAt

(* The answer to the oldest write has arrived. *)
LEMMA OrderAnswered ==
  ASSUME NEW c, NEW t \in Nat, NEW q, NEW q2, NEW r, NEW r2, Ordered(c, t + 1, q, r),
         Behind(r, r2), Behind(q, q2), t + 1 <= Len(q), 1 \in DOMAIN r,
         r[1].kind = "write", r[1].from = c
  PROVE  Ordered(c, t, q2, r2)
<1>1. PICK at : OrderedAt(c, t + 1, q, r, at)
  BY OrderAt
<1> DEFINE at2 == [i \in 1..t |-> at[i + 1] - 1]
<1>2. \A i \in 1..(t + 1) : at[i] \in DOMAIN r /\ at[i] \in Nat /\ at[i] >= 1
  BY <1>1 DEF OrderedAt, Behind
<1>3. at[1] = 1 /\ \A i \in 1..t : at[i + 1] # 1
  <2>1. PICK i \in 1..(t + 1) : at[i] = 1
    BY <1>1 DEF OrderedAt
  <2>2. \A j, k \in 1..(t + 1) : j < k => at[j] < at[k]
    BY <1>1 DEF OrderedAt
  <2>3. \A j \in 1..(t + 1) : at[j] = 1 => \A k \in 1..(t + 1) : ~(k < j)
    <3>1. \A k \in 1..(t + 1) : ~(at[k] < 1)
      BY <1>2
    <3> QED
      BY <2>2, <3>1
  <2>4. 1 \in 1..(t + 1) /\ i = 1
    <3>1. 1 \in 1..(t + 1) /\ (i = 1 \/ 1 < i)
      BY <2>1
    <3> QED
      BY <2>1, <2>3, <3>1
  <2>5. \A k \in 1..t : k + 1 \in 1..(t + 1) /\ 1 < k + 1
    OBVIOUS
  <2> QED
    BY <2>1, <2>3, <2>4, <2>5
<1>4. \A i \in 1..t : /\ i + 1 \in 1..(t + 1)
                      /\ at[i + 1] - 1 \in DOMAIN r2 /\ r2[at[i + 1] - 1] = r[at[i + 1]]
                      /\ q2[i] = q[i + 1]
  <2>1. \A i \in 1..t : i + 1 \in 1..(t + 1)
    OBVIOUS
  <2>2. \A i \in 1..t : i \in DOMAIN q2
    BY DEF Behind
  <2> QED
    BY <1>2, <1>3, <2>1, <2>2 DEF Behind
<1>5. at2 \in [1..t -> DOMAIN r2] /\ \A i \in 1..t : at2[i] = at[i + 1] - 1
  BY <1>4
<1> HIDE DEF at2
<1>6. \A i, j \in 1..t : i < j => at2[i] < at2[j]
  <2>1. \A i, j \in 1..t : i < j => i + 1 < j + 1
    OBVIOUS
  <2>2. \A i, j \in 1..t : i < j => at[i + 1] < at[j + 1]
    BY <1>1, <1>4, <2>1 DEF OrderedAt
  <2>3. \A m, n \in Nat : m < n => m - 1 < n - 1
    OBVIOUS
  <2> QED
    BY <1>2, <1>4, <1>5, <2>2, <2>3
<1>7. \A i \in 1..t : /\ r2[at2[i]].kind = "write" /\ r2[at2[i]].from = c
                      /\ r2[at2[i]].write = q2[i]
  BY <1>1, <1>4, <1>5 DEF OrderedAt
<1>8. ASSUME NEW n \in DOMAIN r2, r2[n].kind = "write" /\ r2[n].from = c
      PROVE  \E i \in 1..t : at2[i] = n
  <2>1. n + 1 \in DOMAIN r /\ r2[n] = r[n + 1] /\ n \in Nat \ {0}
    BY DEF Behind
  <2>2. PICK i \in 1..(t + 1) : at[i] = n + 1
    BY <1>1, <1>8, <2>1 DEF OrderedAt
  <2>3. i # 1
    BY <1>3, <2>1, <2>2
  <2>4. i - 1 \in 1..t /\ (i - 1) + 1 = i /\ (n + 1) - 1 = n
    BY <2>1, <2>3
  <2> QED
    BY <1>5, <2>2, <2>4
<1>9. OrderedAt(c, t, q2, r2, at2)
  BY <1>5, <1>6, <1>7, <1>8 DEF OrderedAt
<1> QED
  BY <1>9, OrderAt

-----------------------------------------------------------------------------
(***************************************************************************)
(* What holds of one client, continued                                     *)
(***************************************************************************)
LEMMA LocalSignOut ==
  ASSUME TypeOK, NEW c \in Clients, Local(c), SignOut(c)
  PROVE  Local(c)'
<1>1. /\ UNCHANGED <<users, cache, pending, taken, connected, listening, push>>
      /\ UNCHANGED <<asked, inbox, profile, name>> /\ ~signedIn'[c]
  BY DEF SignOut, sdkVars, TypeOK
<1>2. AnswersInv(c)'
  <2>1. InOrder(c)'
    BY <1>1, OrderNow, OrderNext DEF Local, AnswersInv
  <2> QED
    BY <1>1, <2>1 DEF Local, AnswersInv, Observed, Waiting
<1>3. PresenceInv(c)' /\ WholeInv(c)'
  BY <1>1 DEF Local, PresenceInv, WholeInv, Has, Cached, Brings, KeysOf, Creation
<1>4. KnownInv(c)'
  BY <1>1 DEF Local, KnownInv, Base, Created, NameAt, KeysOf, Creation
<1>5. NamesInv(c)'
  BY <1>1 DEF Local, NamesInv, NameAt, KeysOf, Legal, Creation
<1> QED
  BY <1>2, <1>3, <1>4, <1>5 DEF Local

LEMMA LocalOpenProfile ==
  ASSUME TypeOK, NEW c \in Clients, Local(c), OpenProfile(c)
  PROVE  Local(c)'
<1>1. /\ UNCHANGED <<users, cache, pending, taken, connected, listening, push>>
      /\ UNCHANGED <<asked, inbox, name, signedIn>> /\ profile'[c]
  BY DEF OpenProfile, sdkVars, TypeOK
<1>2. AnswersInv(c)'
  <2>1. InOrder(c)'
    BY <1>1, OrderNow, OrderNext DEF Local, AnswersInv
  <2> QED
    BY <1>1, <2>1 DEF Local, AnswersInv, Observed, Waiting
<1>3. PresenceInv(c)' /\ WholeInv(c)'
  BY <1>1 DEF Local, PresenceInv, WholeInv, Has, Cached, Brings, KeysOf, Creation
<1>4. KnownInv(c)'
  BY <1>1 DEF Local, KnownInv, Base, Created, NameAt, KeysOf, Creation
<1>5. NamesInv(c)'
  BY <1>1 DEF Local, NamesInv, NameAt, KeysOf, Legal, Creation
<1> QED
  BY <1>2, <1>3, <1>4, <1>5 DEF Local

LEMMA LocalConnect ==
  ASSUME TypeOK, NEW c \in Clients, Local(c), Connect(c)
  PROVE  Local(c)'
<1>1. /\ UNCHANGED <<users, cache, pending, taken, listening, push>>
      /\ UNCHANGED <<asked, inbox, name, signedIn, profile>> /\ connected'[c]
  BY DEF Connect, appVars, TypeOK
<1>2. AnswersInv(c)'
  <2>1. InOrder(c)'
    BY <1>1, OrderNow, OrderNext DEF Local, AnswersInv
  <2> QED
    BY <1>1, <2>1 DEF Local, AnswersInv, Observed, Waiting
<1>3. PresenceInv(c)' /\ WholeInv(c)'
  BY <1>1 DEF Local, PresenceInv, WholeInv, Has, Cached, Brings, KeysOf, Creation
<1>4. KnownInv(c)'
  BY <1>1 DEF Local, KnownInv, Base, Created, NameAt, KeysOf, Creation
<1>5. NamesInv(c)'
  BY <1>1 DEF Local, NamesInv, NameAt, KeysOf, Legal, Creation
<1> QED
  BY <1>2, <1>3, <1>4, <1>5 DEF Local

LEMMA DisconnectStep ==
  ASSUME TypeOK, NEW c \in Clients, Disconnect(c)
  PROVE  /\ UNCHANGED <<users, cache, pending, asked, inbox, appVars>>
         /\ push' = [push EXCEPT ![c] = <<>>] /\ push'[c] = <<>> /\ DOMAIN push'[c] = {}
         /\ taken' = [taken EXCEPT ![c] = 0] /\ taken'[c] = 0
         /\ listening' = [listening EXCEPT ![c] = FALSE] /\ ~listening'[c]
         /\ connected' = [connected EXCEPT ![c] = FALSE]
         /\ \A d \in Clients \ {c} : /\ push'[d] = push[d] /\ taken'[d] = taken[d]
                                     /\ listening'[d] = listening[d] /\ connected'[d] = connected[d]
         /\ left' = [left EXCEPT !.losses = left.losses - 1] /\ left.losses > 0
<1>1. /\ UNCHANGED <<users, cache, asked, inbox, appVars>>
      /\ push' = [push EXCEPT ![c] = <<>>] /\ taken' = [taken EXCEPT ![c] = 0]
      /\ listening' = [listening EXCEPT ![c] = FALSE] /\ left.losses > 0
      /\ connected' = [connected EXCEPT ![c] = FALSE]
      /\ pending' = [pending EXCEPT ![c] = pending[c]]
      /\ left' = [left EXCEPT !.losses = left.losses - 1]
  BY DEF Disconnect, PendingAfterLoss
<1>2. /\ push \in [Clients -> Seq(Message)] /\ taken \in [Clients -> Nat]
      /\ listening \in [Clients -> BOOLEAN] /\ connected \in [Clients -> BOOLEAN]
      /\ pending \in [Clients -> Seq(Write)]
  BY DEF TypeOK
<1>3. pending' = pending
  BY <1>1, <1>2
<1> QED
  BY <1>1, <1>2, <1>3

LEMMA LocalDisconnect ==
  ASSUME TypeOK, NEW c \in Clients, Local(c), Disconnect(c)
  PROVE  Local(c)'
<1>1. /\ UNCHANGED <<users, cache, pending, asked, inbox, appVars>>
      /\ push'[c] = <<>> /\ DOMAIN push'[c] = {} /\ taken'[c] = 0 /\ ~listening'[c]
  BY DisconnectStep
<1>2. 1..0 = {}
  OBVIOUS
<1>3. AnswersInv(c)'
  <2>1. InOrder(c)'
    BY <1>1, OrderNone, OrderNext
  <2> QED
    BY <1>1, <2>1 DEF Local, AnswersInv, Observed, Waiting
<1>4. PresenceInv(c)' /\ WholeInv(c)'
  BY <1>1, <1>2 DEF Local, PresenceInv, WholeInv, Has, Cached, Brings, KeysOf, Creation
<1>5. KnownInv(c)'
  BY <1>1 DEF Local, KnownInv, Base, Created, NameAt, KeysOf, Creation, appVars
<1>6. NamesInv(c)'
  BY <1>1 DEF Local, NamesInv, NameAt, KeysOf, Legal, Creation
<1> QED
  BY <1>3, <1>4, <1>5, <1>6 DEF Local

LEMMA ServerListenStep ==
  ASSUME TypeOK, NEW c \in Clients, ServerListen(c)
  PROVE  \E m \in Message :
           /\ m.kind = "users" /\ m.users = users
           /\ push'[c] = Append(push[c], m) /\ push' \in [Clients -> Seq(Message)]
           /\ connected[c] /\ Observed(c)
           /\ listening' = [listening EXCEPT ![c] = TRUE]
           /\ \A d \in Clients \ {c} : push'[d] = push[d] /\ listening'[d] = listening[d]
           /\ UNCHANGED <<users, cache, pending, taken, connected, asked, inbox, appVars, left>>
<1> DEFINE m == [kind |-> "users", users |-> users]
<1>1. /\ connected[c] /\ Observed(c)
      /\ listening' = [listening EXCEPT ![c] = TRUE]
      /\ push' = [push EXCEPT ![c] = Append(@, m)]
      /\ UNCHANGED <<users, cache, pending, taken, connected, asked, inbox, appVars, left>>
  BY DEF ServerListen
<1>2. push \in [Clients -> Seq(Message)] /\ listening \in [Clients -> BOOLEAN] /\ users \in Users_
  BY DEF TypeOK
<1>3. m \in Message /\ m.kind = "users" /\ m.users = users
  BY <1>2 DEF Message
<1> HIDE DEF m
<1>4. Append(push[c], m) \in Seq(Message)
  BY <1>2, <1>3
<1> QED
  BY <1>1, <1>2, <1>3, <1>4

LEMMA LocalListen ==
  ASSUME TypeOK, NEW c \in Clients, Local(c), ServerListen(c)
  PROVE  Local(c)'
<1> USE DEF Local
<1>1. PICK m \in Message :
        /\ m.kind = "users" /\ m.users = users
        /\ push'[c] = Append(push[c], m)
        /\ connected[c] /\ Observed(c)
        /\ UNCHANGED <<users, cache, pending, taken, connected, asked, inbox, appVars, left>>
  BY ServerListenStep
<1> DEFINE L == Len(push[c]) + 1
<1>2. /\ L \in Nat /\ DOMAIN push'[c] = DOMAIN push[c] \cup {L} /\ push'[c][L] = m
      /\ \A q \in DOMAIN push[c] : push'[c][q] = push[c][q] /\ q \in Nat /\ q < L
  BY <1>1, Sent
<1> HIDE DEF L
<1>3. \A q \in DOMAIN push'[c] : ~(L < q)
  BY <1>2
<1>4. AnswersInv(c)'
  <2>1. Ordered(c, taken[c], pending[c], push[c])
    BY OrderNow DEF AnswersInv
  <2>2. ~(push'[c][L].kind = "write" /\ push'[c][L].from = c)
    BY <1>1, <1>2
  <2>3. Ordered(c, taken[c], pending[c], push'[c])
    BY <1>2, <2>1, <2>2, OrderSent
  <2>4. InOrder(c)'
    BY <1>1, <2>3, OrderNext
  <2> QED
    BY <1>1, <2>4 DEF AnswersInv, Observed, Waiting, appVars
<1>5. PresenceInv(c)'
  <2>1. \A p \in DOMAIN push'[c] : Has(push'[c][p]) \subseteq KeysOf(users)
    BY <1>1, <1>2 DEF PresenceInv, Has
  <2>2. Has(push'[c][L]) = KeysOf(users)
    BY <1>1, <1>2 DEF Has
  <2>3. \A p, q \in DOMAIN push'[c] : push'[c][q].kind = "users" /\ p < q =>
           Has(push'[c][p]) \subseteq Has(push'[c][q])
    BY <1>2, <1>3, <2>1, <2>2 DEF PresenceInv
  <2>4. \A q \in DOMAIN push'[c] : push'[c][q].kind = "users" /\ cache[c] # Null =>
           KeysOf(cache[c]) \subseteq Has(push'[c][q])
    BY <1>2, <2>2 DEF PresenceInv
  <2> QED
    BY <1>1, <2>1, <2>3, <2>4 DEF PresenceInv, KeysOf, Has
<1>6. WholeInv(c)'
  <2>1. ASSUME NEW p \in DOMAIN push'[c], push'[c][p].kind = "write", ~Creation(push'[c][p].write)
        PROVE  \/ Cached(c, push'[c][p].write.key)
               \/ \E q \in DOMAIN push'[c] : q < p /\ Brings(push'[c][q], push'[c][p].write.key)
               \/ cache[c] = Null /\ \A q \in DOMAIN push'[c] : q < p => push'[c][q].kind # "users"
    <3>1. p \in DOMAIN push[c] /\ push'[c][p] = push[c][p]
      BY <1>1, <1>2, <2>1
    <3>2. \A q \in DOMAIN push'[c] : q < p => q \in DOMAIN push[c]
      BY <1>2, <1>3, <3>1
    <3> QED
      BY <1>2, <2>1, <3>1, <3>2 DEF WholeInv
  <2>2. \E q \in DOMAIN push'[c] : /\ push'[c][q].kind = "users"
                                   /\ \A k \in KeysOf(users) : Brings(push'[c][q], k)
    BY <1>1, <1>2 DEF Brings
  <2> QED
    BY <1>1, <2>1, <2>2 DEF WholeInv, Cached, Brings, KeysOf, Creation
<1>7. /\ \A k : Base(c, k) => Base(c, k)'
      /\ \A k : Created(c, k) => Created(c, k)'
      /\ \A k, n : NameAt(c, k, n) => NameAt(c, k, n)'
  BY <1>1, <1>2 DEF Base, Created, NameAt, Creation
<1>8. KnownInv(c)'
  BY <1>1, <1>7 DEF KnownInv, KeysOf, Creation, appVars
<1>9. NamesInv(c)'
  <2>1. \A p \in DOMAIN push'[c] :
          /\ push'[c][p].kind = "users" =>
               \A k \in KeysOf(push'[c][p].users) : push'[c][p].users[k].Username = users[k].Username
          /\ push'[c][p].kind # "users" =>
               /\ Legal(push'[c][p].write)
               /\ push'[c][p].write.to.Username = users[push'[c][p].write.key].Username
    BY <1>1, <1>2 DEF NamesInv
  <2> QED
    BY <1>1, <1>7, <2>1 DEF NamesInv, KeysOf, Legal, Creation
<1> QED
  BY <1>4, <1>5, <1>6, <1>8, <1>9

(* What the server makes of a write: the names stay, and what is new has   *)
(* the name of its creation.                                               *)
LEMMA TakeUsers ==
  ASSUME TypeOK, OneName, NEW c \in Clients, NamesInv(c), NEW w, TakeStep(c, w)
  PROVE  /\ w \in Write /\ w.key \in Keys /\ Legal(w) /\ NameAt(c, w.key, w.to.Username)
         /\ users'[w.key].Username = w.to.Username
         /\ users[w.key] # Null => users[w.key].Username = w.to.Username
         /\ \A k \in Keys : users[k] # Null =>
              users'[k] # Null /\ users'[k].Username = users[k].Username
         /\ \A k \in Keys : users'[k] # Null =>
              users[k] # Null \/ (k = w.key /\ Creation(w))
         /\ \A e \in Clients, k \in Keys : \A n : NameAt(e, k, n) => NameAt(e, k, n)'
<1>1. /\ w \in Write /\ taken[c] + 1 \in DOMAIN pending[c] /\ w = pending[c][taken[c] + 1]
      /\ Creation(w) \/ users[w.key] # Null
      /\ users'[w.key] # Null /\ \A k \in Keys : k # w.key => users'[k] = users[k]
      /\ \A ch \in Children : /\ ch \in w.sets => users'[w.key][ch] = w.to[ch]
                              /\ ch \notin w.sets => users'[w.key][ch] = users[w.key][ch]
      /\ pending' = pending
  BY DEF TakeStep
<1>2. w.key \in Keys /\ Legal(w) /\ NameAt(c, w.key, w.to.Username)
  BY <1>1, WriteFields DEF NamesInv
<1>3. ASSUME users[w.key] # Null
      PROVE  users[w.key].Username = w.to.Username
  <2>1. NameAt(c, w.key, users[w.key].Username)
    BY <1>3 DEF NameAt
  <2> QED
    BY <1>2, <2>1, NameUnique
<1>4. users'[w.key].Username = w.to.Username
  <2>1. "Username" \in Children
    BY DEF Children
  <2>2. /\ "Username" \in w.sets => users'[w.key]["Username"] = w.to["Username"]
        /\ "Username" \notin w.sets => users'[w.key]["Username"] = users[w.key]["Username"]
    BY <1>1, <2>1
  <2>3. Creation(w) <=> "Username" \in w.sets
    BY <1>1, <1>2, CreationSets
  <2> QED
    BY <1>1, <1>3, <2>2, <2>3
<1>5. \A k \in Keys : users[k] # Null => users'[k] # Null /\ users'[k].Username = users[k].Username
  BY <1>1, <1>3, <1>4
<1>6. \A k \in Keys : users'[k] # Null => users[k] # Null \/ (k = w.key /\ Creation(w))
  BY <1>1
<1>7. \A e \in Clients, k \in Keys : \A n : NameAt(e, k, n) => NameAt(e, k, n)'
  BY <1>1, <1>5 DEF NameAt, Creation
<1> QED
  BY <1>1, <1>2, <1>3, <1>4, <1>5, <1>6, <1>7

LEMMA LocalTake ==
  ASSUME TypeOK, OneName, NEW c \in Clients, Local(c), NEW w, TakeStep(c, w),
         NEW d \in Clients, Local(d)
  PROVE  Local(d)'
<1> USE DEF Local
<1>1. /\ w \in Write /\ w.key \in Keys /\ Legal(w)
      /\ users'[w.key].Username = w.to.Username
      /\ \A k \in Keys : users[k] # Null =>
           users'[k] # Null /\ users'[k].Username = users[k].Username
      /\ \A k \in Keys : users'[k] # Null => users[k] # Null \/ (k = w.key /\ Creation(w))
      /\ \A k \in Keys : \A n : NameAt(d, k, n) => NameAt(d, k, n)'
  BY TakeUsers
<1>2. /\ connected[c] /\ w = pending[c][taken[c] + 1] /\ taken[c] + 1 \in DOMAIN pending[c]
      /\ users' \in Users_ /\ users'[w.key] # Null
      /\ Creation(w) \/ users[w.key] # Null
      /\ taken'[c] = taken[c] + 1 /\ (d # c => taken'[d] = taken[d])
      /\ UNCHANGED <<cache, pending, connected, listening, asked, inbox, appVars, left>>
  BY DEF TakeStep
<1>3. PICK m \in Message :
         /\ m.kind = "write" /\ m.from = c /\ m.write = w
         /\ push'[c] = Append(push[c], m)
         /\ d # c => \/ listening[d] /\ push'[d] = Append(push[d], m)
                     \/ ~listening[d] /\ push'[d] = push[d]
  BY DEF TakeStep
<1> DEFINE L == Len(push[d]) + 1
           Told == d = c \/ listening[d]
<1>4. ASSUME Told
      PROVE  /\ L \in Nat /\ DOMAIN push'[d] = DOMAIN push[d] \cup {L} /\ push'[d][L] = m
             /\ \A q \in DOMAIN push[d] : push'[d][q] = push[d][q] /\ q \in Nat /\ q < L
             /\ L \notin DOMAIN push[d]
  <2>1. push'[d] = Append(push[d], m)
    BY <1>3, <1>4
  <2> QED
    BY <2>1, Sent
<1>5. ~Told => push'[d] = push[d]
  BY <1>3
<1>6. KeysOf(users)' = KeysOf(users) \cup {w.key}
  BY DEF TakeStep
<1> HIDE DEF L, Told
<1>7. /\ \A q \in DOMAIN push[d] : q \in DOMAIN push'[d] /\ push'[d][q] = push[d][q]
      /\ \A q \in DOMAIN push'[d] : \/ q \in DOMAIN push[d] /\ push'[d][q] = push[d][q]
                                    \/ /\ Told /\ push'[d][q] = m /\ q = L
                                       /\ \A p \in DOMAIN push[d] : p < q /\ ~(q < p)
      /\ \A q \in DOMAIN push'[d] : \A p \in DOMAIN push[d] : q < p => q \in DOMAIN push[d]
  <2>1. CASE Told
    BY <1>4, <2>1
  <2>2. CASE ~Told
    BY <1>5, <2>2
  <2> QED
    BY <2>1, <2>2
<1>8. InOrder(d)'
  <2>1. Ordered(d, taken[d], pending[d], push[d])
    BY OrderNow DEF AnswersInv
  <2>2. CASE d = c
    <3>1. taken[c] \in Nat
      BY ClientTypes
    <3>2. Told
      BY <2>2 DEF Told
    <3>3. push'[d][L].kind = "write" /\ push'[d][L].from = d
          /\ push'[d][L].write = pending[d][taken[d] + 1]
      BY <1>2, <1>3, <1>4, <2>2, <3>2
    <3>4. Ordered(d, taken[d] + 1, pending[d], push'[d])
      BY <1>4, <2>1, <2>2, <3>1, <3>2, <3>3, OrderTaken
    <3> QED
      BY <1>2, <2>2, <3>4, OrderNext
  <2>3. CASE d # c /\ Told
    <3>1. ~(push'[d][L].kind = "write" /\ push'[d][L].from = d)
      BY <1>3, <1>4, <2>3
    <3>2. Ordered(d, taken[d], pending[d], push'[d])
      BY <1>4, <2>1, <2>3, <3>1, OrderSent
    <3> QED
      BY <1>2, <2>3, <3>2, OrderNext
  <2>4. CASE d # c /\ ~Told
    BY <1>2, <1>5, <2>1, <2>4, OrderNext
  <2> QED
    BY <2>2, <2>3, <2>4
<1>9. AnswersInv(d)'
  <2>1. ASSUME ~connected[d]
        PROVE  d # c /\ ~Told /\ push'[d] = <<>> /\ taken'[d] = 0 /\ ~listening[d]
    BY <1>2, <1>5, <2>1 DEF AnswersInv, Told
  <2> QED
    BY <1>2, <1>8, <2>1 DEF AnswersInv, Observed, Waiting, appVars
<1>10. PresenceInv(d)'
  <2>1. \A i \in 1..taken'[d] : pending[d][i].key \in KeysOf(users) \cup {w.key}
    <3>1. taken[d] \in Nat
      BY ClientTypes
    <3>2. \A i \in 1..taken'[d] : i \in 1..taken[d] \/ (d = c /\ i = taken[c] + 1)
      BY <1>2, <3>1
    <3> QED
      BY <1>2, <3>2 DEF PresenceInv
  <2>2. \A p \in DOMAIN push'[d] : Has(push'[d][p]) \subseteq KeysOf(users) \cup {w.key}
    <3>1. Has(m) = {w.key}
      BY <1>3 DEF Has
    <3> QED
      BY <1>7, <3>1 DEF PresenceInv
  <2>3. \A q \in DOMAIN push'[d] : push'[d][q].kind = "users" =>
          /\ q \in DOMAIN push[d] /\ push'[d][q] = push[d][q]
          /\ \A p \in DOMAIN push'[d] : p < q => p \in DOMAIN push[d] /\ push'[d][p] = push[d][p]
    BY <1>3, <1>7
  <2>4. \A q \in DOMAIN push'[d] : push'[d][q].kind = "users" =>
          /\ cache[d] # Null => KeysOf(cache[d]) \subseteq Has(push'[d][q])
          /\ \A p \in DOMAIN push'[d] : p < q => Has(push'[d][p]) \subseteq Has(push'[d][q])
    BY <2>3 DEF PresenceInv
  <2>5. cache[d] # Null => KeysOf(cache[d]) \subseteq KeysOf(users) \cup {w.key}
    BY DEF PresenceInv
  <2> QED
    BY <1>2, <1>6, <2>1, <2>2, <2>4, <2>5 DEF PresenceInv
<1>11. WholeInv(d)'
  <2>1. ASSUME Told, ~Creation(w)
        PROVE  \/ Cached(d, w.key)
               \/ \E q \in DOMAIN push[d] : Brings(push[d][q], w.key)
               \/ cache[d] = Null /\ \A q \in DOMAIN push[d] : push[d][q].kind # "users"
    <3>1. w.key \in KeysOf(users)
      BY <1>1, <1>2, <2>1 DEF KeysOf
    <3>2. CASE listening[d]
      BY <3>1, <3>2 DEF WholeInv
    <3>3. CASE d = c
      <4> DEFINE i == taken[c] + 1
      <4>1. \/ Base(c, w.key)
            \/ \E j \in DOMAIN pending[c] :
                 j < i /\ Creation(pending[c][j]) /\ pending[c][j].key = w.key
        BY <1>2, <2>1 DEF KnownInv
      <4>2. CASE Base(c, w.key)
        BY <1>1, <3>3, <4>2 DEF Base, Cached, Brings, KeysOf
      <4>3. CASE \E j \in DOMAIN pending[c] :
                   j < i /\ Creation(pending[c][j]) /\ pending[c][j].key = w.key
        <5>1. PICK j \in DOMAIN pending[c] :
                   j < i /\ Creation(pending[c][j]) /\ pending[c][j].key = w.key
          BY <4>3
        <5>2. j \in 1..taken[c]
          BY <5>1, ClientTypes, WriteAt
        <5>3. PICK at \in [1..taken[c] -> DOMAIN push[c]] :
                \A n \in 1..taken[c] : at[n] \in Own(c) /\ push[c][at[n]].write = pending[c][n]
          BY DEF AnswersInv, InOrder
        <5>4. at[j] \in DOMAIN push[c] /\ push[c][at[j]].kind = "write"
              /\ push[c][at[j]].write = pending[c][j]
          BY <5>2, <5>3 DEF Own
        <5> QED
          BY <3>3, <5>1, <5>4 DEF Brings
      <4> QED
        BY <4>1, <4>2, <4>3
    <3> QED
      BY <2>1, <3>2, <3>3 DEF Told
  <2>2. ASSUME NEW p \in DOMAIN push'[d], push'[d][p].kind = "write", ~Creation(push'[d][p].write)
        PROVE  \/ Cached(d, push'[d][p].write.key)
               \/ \E q \in DOMAIN push'[d] : q < p /\ Brings(push'[d][q], push'[d][p].write.key)
               \/ cache[d] = Null /\ \A q \in DOMAIN push'[d] : q < p => push'[d][q].kind # "users"
    <3>1. CASE p \in DOMAIN push[d]
      <4>1. push'[d][p] = push[d][p]
        BY <1>7, <3>1
      <4>2. \A q \in DOMAIN push'[d] : q < p => q \in DOMAIN push[d] /\ push'[d][q] = push[d][q]
        BY <1>7, <3>1
      <4> QED
        BY <1>7, <2>2, <3>1, <4>1, <4>2 DEF WholeInv
    <3>2. CASE p \notin DOMAIN push[d]
      <4>1. Told /\ push'[d][p] = m /\ \A q \in DOMAIN push[d] : q < p /\ ~(p < q)
        BY <1>7, <3>2
      <4>2. push'[d][p].write = w /\ \A q \in DOMAIN push'[d] : q < p => q \in DOMAIN push[d]
        BY <1>3, <1>4, <1>7, <4>1
      <4> QED
        BY <1>7, <2>1, <2>2, <4>1, <4>2
    <3> QED
      BY <3>1, <3>2
  <2>3. ASSUME listening[d]
        PROVE  /\ cache[d] # Null \/ \E q \in DOMAIN push'[d] : push'[d][q].kind = "users"
               /\ \A k \in KeysOf(users) \cup {w.key} :
                    Cached(d, k) \/ \E q \in DOMAIN push'[d] : Brings(push'[d][q], k)
    <3>1. Told
      BY <2>3 DEF Told
    <3>2. CASE Creation(w)
      <4>1. L \in DOMAIN push'[d] /\ Brings(push'[d][L], w.key)
        BY <1>3, <1>4, <3>1, <3>2 DEF Brings
      <4> QED
        BY <1>7, <2>3, <4>1 DEF WholeInv
    <3>3. CASE ~Creation(w)
      <4>1. w.key \in KeysOf(users)
        BY <1>1, <1>2, <3>3 DEF KeysOf
      <4> QED
        BY <1>7, <2>3, <4>1 DEF WholeInv
    <3> QED
      BY <3>2, <3>3
  <2> QED
    BY <1>2, <1>6, <2>2, <2>3 DEF WholeInv, Cached, Brings, KeysOf, Creation
<1>12. /\ \A k \in Keys : Base(d, k) => Base(d, k)'
       /\ \A k : Created(d, k) => Created(d, k)'
  <2>1. \A k \in Keys : Base(d, k) => Base(d, k)'
    BY <1>1, <1>2, <1>3, <1>7 DEF Base
  <2> QED
    BY <1>2, <2>1 DEF Created, Creation
<1>13. KnownInv(d)'
  <2>1. \A i \in DOMAIN pending[d] : pending[d][i].key \in Keys
    BY WriteAt
  <2> QED
    BY <1>1, <1>2, <1>12, <2>1 DEF KnownInv, KeysOf, Creation, appVars
<1>14. NamesInv(d)'
  <2>1. \A i \in DOMAIN pending[d] : pending[d][i].key \in Keys
    BY WriteAt
  <2>2. \A p \in DOMAIN push'[d] :
          /\ push'[d][p].kind = "users" =>
               \A k \in KeysOf(push'[d][p].users) : push'[d][p].users[k].Username = users'[k].Username
          /\ push'[d][p].kind # "users" =>
               /\ Legal(push'[d][p].write)
               /\ push'[d][p].write.to.Username = users'[push'[d][p].write.key].Username
    <3>1. ASSUME NEW p \in DOMAIN push[d], push[d][p].kind = "users"
          PROVE  \A k \in KeysOf(push[d][p].users) : push[d][p].users[k].Username = users'[k].Username
      <4>1. \A k \in KeysOf(push[d][p].users) : k \in KeysOf(users)
        BY <3>1 DEF PresenceInv, Has
      <4> QED
        BY <1>1, <3>1, <4>1 DEF NamesInv, KeysOf
    <3>2. ASSUME NEW p \in DOMAIN push[d], push[d][p].kind # "users"
          PROVE  push[d][p].write.to.Username = users'[push[d][p].write.key].Username
      <4>1. push[d][p].write.key \in KeysOf(users)
        BY <3>2 DEF PresenceInv, Has
      <4> QED
        BY <1>1, <3>2, <4>1 DEF NamesInv, KeysOf
    <3> QED
      BY <1>1, <1>3, <1>7, <3>1, <3>2 DEF NamesInv
  <2>3. cache[d] # Null => \A k \in KeysOf(cache[d]) : cache[d][k].Username = users'[k].Username
    BY <1>1 DEF NamesInv, PresenceInv, KeysOf
  <2> QED
    BY <1>1, <1>2, <2>1, <2>2, <2>3 DEF NamesInv, KeysOf, Legal, Creation
<1> QED
  BY <1>9, <1>10, <1>11, <1>13, <1>14

(* Places in a sequence without its first element. *)
LEMMA Shifted ==
  ASSUME NEW s, NEW r, Behind(s, r)
  PROVE  /\ \A p \in DOMAIN r : /\ p \in Nat /\ p + 1 \in DOMAIN s /\ r[p] = s[p + 1]
                                /\ 1 < p + 1 /\ p + 1 # 1 /\ p + 1 \in Nat
         /\ \A p, q \in DOMAIN r : p < q <=> p + 1 < q + 1
         /\ \A q \in DOMAIN s : q = 1 \/ \E n \in DOMAIN r : q = n + 1 /\ r[n] = s[q]
  BY DEF Behind

LEMMA LocalUsers ==
  ASSUME TypeOK, NEW c \in Clients, Local(c), NEW us, UsersStep(c, us)
  PROVE  Local(c)'
<1> USE DEF Local
<1>1. /\ Behind(push[c], push'[c])
      /\ 1 \in DOMAIN push[c] /\ push[c][1].kind = "users" /\ us = push[c][1].users
      /\ us \in Users_
      /\ UNCHANGED <<users, pending, taken, connected, listening, appVars, left>>
  BY DEF UsersStep
<1>2. /\ \A p \in DOMAIN push'[c] : /\ p \in Nat /\ p + 1 \in DOMAIN push[c]
                                    /\ push'[c][p] = push[c][p + 1]
                                    /\ 1 < p + 1 /\ p + 1 # 1
      /\ \A p, q \in DOMAIN push'[c] : p < q <=> p + 1 < q + 1
      /\ \A q \in DOMAIN push[c] : q = 1 \/ \E n \in DOMAIN push'[c] : q = n + 1 /\ push'[c][n] = push[c][q]
  BY <1>1, Shifted
<1>3. \/ cache'[c] = us /\ Observed(c)
      \/ ~Observed(c) /\ cache[c] = Null /\ cache'[c] = Null
  BY DEF UsersStep
<1>4. KeysOf(us) \subseteq KeysOf(users)
      /\ (cache[c] # Null => KeysOf(cache[c]) \subseteq KeysOf(us))
      /\ \A q \in DOMAIN push'[c] : push'[c][q].kind = "users" => KeysOf(us) \subseteq Has(push'[c][q])
  <2>1. Has(push[c][1]) = KeysOf(us)
    BY <1>1 DEF Has
  <2> QED
    BY <1>1, <1>2, <2>1 DEF PresenceInv
<1>5. InOrder(c)'
  <2>1. Ordered(c, taken[c], pending[c], push[c])
    BY OrderNow DEF AnswersInv
  <2>2. taken[c] \in Nat /\ ~(push[c][1].kind = "write" /\ push[c][1].from = c)
    BY <1>1, ClientTypes
  <2>3. Ordered(c, taken[c], pending[c], push'[c])
    BY <1>1, <2>1, <2>2, OrderArrived
  <2> QED
    BY <1>1, <2>3, OrderNext
<1>6. AnswersInv(c)'
  <2>1. Observed(c)' = Observed(c)
    BY <1>1, TypeUsers DEF Observed, appVars
  <2>2. connected[c]
    BY <1>1 DEF AnswersInv
  <2>3. asked'[c] # <<>> => cache'[c] = Null /\ inbox'[c] = <<>>
    BY DEF UsersStep, AnswersInv
  <2> QED
    BY <1>1, <1>5, <2>1, <2>2, <2>3 DEF AnswersInv
<1>7. PresenceInv(c)'
  <2>1. \A p \in DOMAIN push'[c] : Has(push'[c][p]) \subseteq KeysOf(users)
    BY <1>2 DEF PresenceInv
  <2>2. ASSUME NEW p \in DOMAIN push'[c], NEW q \in DOMAIN push'[c],
               push'[c][q].kind = "users", p < q
        PROVE  Has(push'[c][p]) \subseteq Has(push'[c][q])
    <3>1. /\ p + 1 \in DOMAIN push[c] /\ push'[c][p] = push[c][p + 1]
          /\ q + 1 \in DOMAIN push[c] /\ push'[c][q] = push[c][q + 1] /\ p + 1 < q + 1
      BY <1>2, <2>2
    <3> QED
      BY <2>2, <3>1 DEF PresenceInv
  <2>3. cache'[c] # Null => cache'[c] = us
    BY <1>3
  <2> QED
    BY <1>1, <1>4, <2>1, <2>2, <2>3 DEF PresenceInv
<1>8. WholeInv(c)'
  <2>1. ASSUME NEW p \in DOMAIN push'[c], push'[c][p].kind = "write", ~Creation(push'[c][p].write)
        PROVE  LET k == push'[c][p].write.key
               IN  \/ cache'[c] # Null /\ cache'[c][k] # Null
                   \/ \E q \in DOMAIN push'[c] : q < p /\ Brings(push'[c][q], k)
                   \/ cache'[c] = Null /\ \A q \in DOMAIN push'[c] : q < p => push'[c][q].kind # "users"
    <3> DEFINE k == push'[c][p].write.key
    <3>1. push[c][p + 1].kind = "write" /\ ~Creation(push[c][p + 1].write)
          /\ k = push[c][p + 1].write.key /\ p + 1 \in DOMAIN push[c] /\ 1 < p + 1
      BY <1>2, <2>1
    <3>2. k \in Keys
      BY <3>1, MessageAt, WriteFields
    <3> HIDE DEF k
    <3>3. k \in KeysOf(us) \/ \E q \in DOMAIN push'[c] : q < p /\ Brings(push'[c][q], k)
      <4>1. CASE Cached(c, k)
        BY <1>4, <3>2, <4>1 DEF Cached, KeysOf
      <4>2. CASE \E q \in DOMAIN push[c] : q < p + 1 /\ Brings(push[c][q], k)
        <5>1. PICK q \in DOMAIN push[c] : q < p + 1 /\ Brings(push[c][q], k)
          BY <4>2
        <5>2. CASE q = 1
          BY <1>1, <5>1, <5>2 DEF Brings
        <5>3. CASE q # 1
          <6>1. PICK n \in DOMAIN push'[c] : q = n + 1 /\ push'[c][n] = push[c][q]
            BY <1>2, <5>3
          <6>2. n < p
            BY <1>2, <5>1, <6>1
          <6> QED
            BY <5>1, <6>1, <6>2
        <5> QED
          BY <5>2, <5>3
      <4>3. ~(\A q \in DOMAIN push[c] : q < p + 1 => push[c][q].kind # "users")
        BY <1>1, <3>1
      <4> QED
        BY <3>1, <4>1, <4>2, <4>3 DEF WholeInv
    <3>4. CASE k \in KeysOf(us)
      <4>1. us[k] # Null /\ us # Null
        BY <1>1, <3>4, NullIsNoAccount DEF KeysOf
      <4>2. \A q \in DOMAIN push'[c] : push'[c][q].kind = "users" => Brings(push'[c][q], k)
        BY <1>4, <3>4 DEF Brings, Has
      <4> QED
        BY <1>3, <4>1, <4>2 DEF k
    <3> QED
      BY <3>3, <3>4 DEF k
  <2>2. ASSUME listening[c]
        PROVE  /\ cache'[c] # Null
               /\ \A k \in KeysOf(users) : \/ cache'[c][k] # Null
                                           \/ \E q \in DOMAIN push'[c] : Brings(push'[c][q], k)
    <3>1. cache'[c] = us /\ us # Null
      BY <1>1, <1>3, <2>2, NullIsNoAccount DEF AnswersInv
    <3>2. ASSUME NEW k \in KeysOf(users)
          PROVE  us[k] # Null \/ \E q \in DOMAIN push'[c] : Brings(push'[c][q], k)
      <4>1. CASE Cached(c, k)
        BY <1>4, <4>1 DEF Cached, KeysOf
      <4>2. CASE \E q \in DOMAIN push[c] : Brings(push[c][q], k)
        <5>1. PICK q \in DOMAIN push[c] : Brings(push[c][q], k)
          BY <4>2
        <5>2. CASE q = 1
          BY <1>1, <5>1, <5>2 DEF Brings, KeysOf
        <5>3. CASE q # 1
          BY <1>2, <5>1, <5>3
        <5> QED
          BY <5>2, <5>3
      <4> QED
        BY <2>2, <4>1, <4>2 DEF WholeInv
    <3> QED
      BY <3>1, <3>2
  <2> QED
    BY <1>1, <2>1, <2>2 DEF WholeInv, Cached
<1>9. /\ \A k : Base(c, k) => Base(c, k)'
      /\ \A k : Created(c, k) => Created(c, k)'
      /\ \A k, n : NameAt(c, k, n) => NameAt(c, k, n)'
  <2>1. \A k : Base(c, k) => Base(c, k)'
    BY <1>1, <1>2, <1>3 DEF Base
  <2> QED
    BY <1>1, <2>1 DEF Created, NameAt, Creation
<1>10. \A k \in KeysOf(us) : users[k] # Null /\ us[k].Username = users[k].Username
  BY <1>1, <1>4 DEF NamesInv, KeysOf
<1>11. \A i \in DOMAIN inbox'[c] : \A k \in KeysOf(inbox'[c][i].users) :
         /\ Created(c, k)' \/ Base(c, k)'
         /\ \A n : n = inbox'[c][i].users[k].Username => NameAt(c, k, n)'
  <2>1. CASE inbox'[c] = inbox[c]
    BY <1>9, <2>1 DEF KnownInv, NamesInv
  <2>2. CASE /\ cache'[c] = us /\ Grounded(us, pending[c])
             /\ \A i \in DOMAIN inbox'[c] : inbox'[c][i] = Event(asked[c][i], Seen(us, pending[c]))
    <3> DEFINE s == Seen(us, pending[c])
    <3>1. /\ \A k \in Keys : s[k] # Null <=> us[k] # Null \/ Created(c, k)
          /\ \A k \in KeysOf(s) : NameAt(c, k, s[k].Username)
      BY <1>1, <1>10, <2>2, SnapshotNames
    <3> HIDE DEF s
    <3>2. ASSUME NEW k \in Keys, us[k] # Null
          PROVE  Base(c, k)'
      <4>1. k \in KeysOf(us) /\ users[k] # Null
        BY <1>10, <3>2 DEF KeysOf
      <4>2. \A p \in DOMAIN push'[c] : push'[c][p].kind = "users" => push'[c][p].users[k] # Null
        BY <1>4, <4>1 DEF Has, KeysOf
      <4> QED
        BY <1>1, <2>2, <3>2, <4>1, <4>2 DEF Base
    <3>3. \A i \in DOMAIN inbox'[c] : inbox'[c][i].users = s
      <4>1. \A op : Event(op, Seen(us, pending[c])).users = Seen(us, pending[c])
        BY DEF Event
      <4> QED
        BY <2>2, <4>1 DEF s
    <3>4. \A k \in KeysOf(s) : Created(c, k)' \/ Base(c, k)'
      BY <1>9, <3>1, <3>2 DEF KeysOf
    <3> QED
      BY <1>9, <3>1, <3>3, <3>4
  <2> QED
    BY <2>1, <2>2 DEF UsersStep
<1>12. KnownInv(c)'
  <2>1. signedIn'[c] = signedIn[c] /\ name'[c] = name[c]
    BY <1>1 DEF appVars
  <2> QED
    BY <1>1, <1>9, <1>11, <2>1 DEF KnownInv, KeysOf, Creation
<1>13. NamesInv(c)'
  <2>1. cache'[c] # Null => cache'[c] = us
    BY <1>3
  <2> QED
    BY <1>1, <1>2, <1>9, <1>10, <1>11, <2>1 DEF NamesInv, KeysOf, Legal, Creation
<1> QED
  BY <1>6, <1>7, <1>8, <1>12, <1>13

(* What an answer or a change leaves: the accounts known before. *)
LEMMA WriteKeeps ==
  ASSUME TypeOK, NEW c \in Clients, Local(c), NEW w, WriteStep(c, w)
  PROVE  /\ w.key \in Keys /\ w.key \in KeysOf(users) /\ Legal(w)
         /\ w.to.Username = users[w.key].Username
         /\ \A q \in DOMAIN push[c] : push[c][q].kind = "users" => w.key \in KeysOf(push[c][q].users)
         /\ \A k \in Keys : Base(c, k) => Base(c, k)'
         /\ pending'[c] # pending[c] => \A k : k = w.key => Base(c, k)'
         /\ \A k : Created(c, k) => Created(c, k)' \/ (k = w.key /\ Base(c, k)')
         /\ \A k \in Keys : \A n : NameAt(c, k, n) => NameAt(c, k, n)'
<1> USE DEF Local
<1>1. /\ Behind(push[c], push'[c])
      /\ 1 \in DOMAIN push[c] /\ push[c][1].kind = "write" /\ w = push[c][1].write
      /\ w \in Write /\ users' = users
      /\ cache[c] = Null <=> cache'[c] = Null
      /\ cache[c] # Null =>
           /\ KeysOf(cache'[c]) = KeysOf(cache[c]) \cup {w.key}
           /\ \A k \in Keys : k # w.key => cache'[c][k] = cache[c][k]
      /\ \/ /\ 1 \in Own(c) /\ taken[c] = taken'[c] + 1
            /\ 1 \in DOMAIN pending[c] /\ w = pending[c][1] /\ Behind(pending[c], pending'[c])
         \/ taken'[c] = taken[c] /\ pending'[c] = pending[c]
  BY DEF WriteStep
<1>2. w.key \in Keys
  BY <1>1, WriteFields
<1>3. Has(push[c][1]) = {w.key}
  BY <1>1 DEF Has
<1>4. w.key \in KeysOf(users) /\ users[w.key] # Null
  BY <1>1, <1>3 DEF PresenceInv, KeysOf
<1>5. Legal(w) /\ w.to.Username = users[w.key].Username
  BY <1>1 DEF NamesInv
<1>6. ASSUME NEW q \in DOMAIN push[c], push[c][q].kind = "users"
      PROVE  w.key \in KeysOf(push[c][q].users)
  <2>1. q \in Nat /\ 1 < q
    BY <1>1, <1>6, MessageAt
  <2>2. Has(push[c][1]) \subseteq Has(push[c][q])
    BY <1>1, <1>6, <2>1 DEF PresenceInv
  <2> QED
    BY <1>3, <1>6, <2>2 DEF Has
<1>7. \A p \in DOMAIN push'[c] : p + 1 \in DOMAIN push[c] /\ push'[c][p] = push[c][p + 1]
  BY <1>1, Shifted
<1>8. \A p \in DOMAIN push'[c] : push'[c][p].kind = "users" => push'[c][p].users[w.key] # Null
  BY <1>6, <1>7 DEF KeysOf
<1>9. ASSUME NEW k, k = w.key
      PROVE  Base(c, k)'
  <2>1. cache'[c] # Null => cache'[c][k] # Null
    BY <1>1, <1>9 DEF KeysOf
  <2> QED
    BY <1>1, <1>4, <1>8, <1>9, <2>1 DEF Base
<1>10. ASSUME NEW k \in Keys, Base(c, k)
       PROVE  Base(c, k)'
  <2>1. CASE k = w.key
    BY <1>9, <2>1
  <2>2. CASE k # w.key
    <3>1. cache'[c] # Null => cache'[c][k] # Null
      BY <1>1, <1>10, <2>2 DEF Base
    <3>2. \A p \in DOMAIN push'[c] : push'[c][p].kind = "users" => push'[c][p].users[k] # Null
      BY <1>7, <1>10 DEF Base
    <3> QED
      BY <1>1, <1>10, <3>1, <3>2 DEF Base
  <2> QED
    BY <2>1, <2>2
<1>11. \A i \in DOMAIN pending[c] : \/ i - 1 \in DOMAIN pending'[c] /\ pending'[c][i - 1] = pending[c][i]
                                    \/ i \in DOMAIN pending'[c] /\ pending'[c][i] = pending[c][i]
                                    \/ i = 1 /\ pending[c][i] = w
  BY <1>1 DEF Behind
<1>12. ASSUME NEW k, Created(c, k)
       PROVE  Created(c, k)' \/ (k = w.key /\ Base(c, k)')
  <2>1. PICK i \in DOMAIN pending[c] : Creation(pending[c][i]) /\ pending[c][i].key = k
    BY <1>12 DEF Created
  <2>2. CASE pending[c][i] = w
    BY <1>9, <2>1, <2>2
  <2>3. CASE \E j \in DOMAIN pending'[c] : pending'[c][j] = pending[c][i]
    BY <2>1, <2>3 DEF Created, Creation
  <2> QED
    BY <1>11, <2>2, <2>3
<1>13. ASSUME NEW k \in Keys, NEW n, NameAt(c, k, n)
       PROVE  NameAt(c, k, n)'
  <2>1. CASE users[k] # Null /\ users[k].Username = n
    BY <1>1, <2>1 DEF NameAt
  <2>2. CASE \E i \in DOMAIN pending[c] :
               Creation(pending[c][i]) /\ pending[c][i].key = k /\ pending[c][i].to.Username = n
    <3>1. PICK i \in DOMAIN pending[c] :
               Creation(pending[c][i]) /\ pending[c][i].key = k /\ pending[c][i].to.Username = n
      BY <2>2
    <3>2. CASE pending[c][i] = w
      BY <1>1, <1>4, <1>5, <3>1, <3>2 DEF NameAt
    <3>3. CASE \E j \in DOMAIN pending'[c] : pending'[c][j] = pending[c][i]
      BY <3>1, <3>3 DEF NameAt, Creation
    <3> QED
      BY <1>11, <3>2, <3>3
  <2> QED
    BY <1>13, <2>1, <2>2 DEF NameAt
<1> QED
  BY <1>2, <1>4, <1>5, <1>6, <1>9, <1>10, <1>12, <1>13

LEMMA LocalWrite ==
  ASSUME TypeOK, NEW c \in Clients, Local(c), NEW w, WriteStep(c, w)
  PROVE  Local(c)'
<1> USE DEF Local
<1>1. /\ Behind(push[c], push'[c])
      /\ 1 \in DOMAIN push[c] /\ push[c][1].kind = "write" /\ w = push[c][1].write
      /\ cache[c] = Null <=> cache'[c] = Null
      /\ cache[c] # Null =>
           /\ KeysOf(cache'[c]) = KeysOf(cache[c]) \cup {w.key}
           /\ \A k \in Keys : k # w.key => cache'[c][k] = cache[c][k]
           /\ \A ch \in Children : /\ ch \in w.sets => cache'[c][w.key][ch] = w.to[ch]
                                   /\ ch \notin w.sets => cache'[c][w.key][ch] = cache[c][w.key][ch]
           /\ Creation(w) \/ Cached(c, w.key)
      /\ w \in Write
      /\ UNCHANGED <<users, connected, listening, asked, inbox, appVars, left>>
  BY DEF WriteStep
<1>2. \/ /\ 1 \in Own(c) /\ taken[c] = taken'[c] + 1 /\ taken'[c] \in Nat
         /\ 1 \in DOMAIN pending[c] /\ w = pending[c][1] /\ Behind(pending[c], pending'[c])
      \/ /\ 1 \notin Own(c) /\ push[c][1].from # c
         /\ taken'[c] = taken[c] /\ pending'[c] = pending[c]
  BY DEF WriteStep
<1>3. /\ w.key \in Keys /\ w.key \in KeysOf(users) /\ Legal(w)
      /\ w.to.Username = users[w.key].Username
      /\ \A q \in DOMAIN push[c] : push[c][q].kind = "users" => w.key \in KeysOf(push[c][q].users)
      /\ \A k \in Keys : Base(c, k) => Base(c, k)'
      /\ pending'[c] # pending[c] => \A k : k = w.key => Base(c, k)'
      /\ \A k : Created(c, k) => Created(c, k)' \/ (k = w.key /\ Base(c, k)')
      /\ \A k \in Keys : \A n : NameAt(c, k, n) => NameAt(c, k, n)'
  BY WriteKeeps
<1>4. /\ \A p \in DOMAIN push'[c] : /\ p \in Nat /\ p + 1 \in DOMAIN push[c]
                                    /\ push'[c][p] = push[c][p + 1]
                                    /\ 1 < p + 1 /\ p + 1 # 1
      /\ \A p, q \in DOMAIN push'[c] : p < q <=> p + 1 < q + 1
      /\ \A q \in DOMAIN push[c] : q = 1 \/ \E n \in DOMAIN push'[c] : q = n + 1 /\ push'[c][n] = push[c][q]
  BY <1>1, Shifted
<1>5. InOrder(c)'
  <2>1. Ordered(c, taken[c], pending[c], push[c]) /\ taken[c] \in Nat
    BY OrderNow, ClientTypes DEF AnswersInv
  <2>2. CASE /\ 1 \in Own(c) /\ taken[c] = taken'[c] + 1 /\ taken'[c] \in Nat
             /\ Behind(pending[c], pending'[c])
    <3>1. push[c][1].kind = "write" /\ push[c][1].from = c
      BY <2>2 DEF Own
    <3>2. taken'[c] + 1 <= Len(pending[c])
      BY <2>2, ClientTypes
    <3>3. Ordered(c, taken'[c], pending'[c], push'[c])
      BY <1>1, <2>1, <2>2, <3>1, <3>2, OrderAnswered
    <3> QED
      BY <3>3, OrderNext
  <2>3. CASE push[c][1].from # c /\ taken'[c] = taken[c] /\ pending'[c] = pending[c]
    <3>1. Ordered(c, taken[c], pending[c], push'[c])
      BY <1>1, <2>1, <2>3, OrderArrived
    <3> QED
      BY <2>3, <3>1, OrderNext
  <2> QED
    BY <1>2, <2>2, <2>3
<1>6. AnswersInv(c)'
  <2>1. Observed(c)' = Observed(c)
    BY <1>1 DEF Observed, Waiting, appVars
  <2>2. connected[c]
    BY <1>1 DEF AnswersInv
  <2> QED
    BY <1>1, <1>5, <2>1, <2>2 DEF AnswersInv
<1>7. PresenceInv(c)'
  <2>1. \A p \in DOMAIN push'[c] : Has(push'[c][p]) \subseteq KeysOf(users)
    BY <1>4 DEF PresenceInv
  <2>2. ASSUME NEW p \in DOMAIN push'[c], NEW q \in DOMAIN push'[c],
               push'[c][q].kind = "users", p < q
        PROVE  Has(push'[c][p]) \subseteq Has(push'[c][q])
    <3>1. /\ p + 1 \in DOMAIN push[c] /\ push'[c][p] = push[c][p + 1]
          /\ q + 1 \in DOMAIN push[c] /\ push'[c][q] = push[c][q + 1] /\ p + 1 < q + 1
      BY <1>4, <2>2
    <3> QED
      BY <2>2, <3>1 DEF PresenceInv
  <2>3. ASSUME NEW q \in DOMAIN push'[c], push'[c][q].kind = "users", cache[c] # Null
        PROVE  KeysOf(cache'[c]) \subseteq Has(push'[c][q])
    <3>1. /\ q + 1 \in DOMAIN push[c] /\ push'[c][q] = push[c][q + 1]
      BY <1>4
    <3>2. w.key \in Has(push'[c][q])
      BY <1>3, <2>3, <3>1 DEF Has
    <3> QED
      BY <1>1, <2>3, <3>1, <3>2 DEF PresenceInv
  <2>4. cache[c] # Null => KeysOf(cache'[c]) \subseteq KeysOf(users)
    <3>1. cache[c] # Null => KeysOf(cache[c]) \subseteq KeysOf(users)
      BY DEF PresenceInv
    <3>2. cache[c] # Null => KeysOf(cache'[c]) = KeysOf(cache[c]) \cup {w.key}
      BY <1>1
    <3> QED
      BY <1>3, <3>1, <3>2
  <2>5. \A i \in 1..taken'[c] : pending'[c][i].key \in KeysOf(users)
    <3>1. CASE taken[c] = taken'[c] + 1 /\ taken'[c] \in Nat /\ Behind(pending[c], pending'[c])
      <4>1. \A i \in 1..taken'[c] : i + 1 \in 1..taken[c]
        BY <3>1
      <4>2. \A i \in 1..taken'[c] : i \in DOMAIN pending'[c]
        <5>1. taken[c] <= Len(pending[c])
          BY ClientTypes
        <5> QED
          BY <3>1, <5>1 DEF Behind
      <4>3. \A i \in 1..taken'[c] : pending'[c][i] = pending[c][i + 1]
        BY <3>1, <4>2 DEF Behind
      <4> QED
        BY <4>1, <4>3 DEF PresenceInv
    <3>2. CASE taken'[c] = taken[c] /\ pending'[c] = pending[c]
      BY <3>2 DEF PresenceInv
    <3> QED
      BY <1>2, <3>1, <3>2
  <2> QED
    BY <1>1, <2>1, <2>2, <2>3, <2>4, <2>5 DEF PresenceInv
<1>8. \A k \in Keys : Cached(c, k) => cache'[c] # Null /\ cache'[c][k] # Null
  BY <1>1 DEF Cached, KeysOf
<1>9. WholeInv(c)'
  <2>1. ASSUME NEW k \in Keys, NEW q \in DOMAIN push[c], Brings(push[c][q], k)
        PROVE  \/ cache'[c] # Null /\ cache'[c][k] # Null
               \/ \E n \in DOMAIN push'[c] : q = n + 1 /\ Brings(push'[c][n], k)
               \/ /\ cache'[c] = Null
                  /\ \A n \in DOMAIN push'[c] : push'[c][n].kind = "users" => Brings(push'[c][n], k)
    <3>1. CASE q = 1
      <4>1. k = w.key
        BY <1>1, <2>1, <3>1 DEF Brings
      <4>2. cache'[c] # Null => cache'[c][k] # Null
        BY <1>1, <4>1 DEF KeysOf
      <4>3. \A n \in DOMAIN push'[c] : push'[c][n].kind = "users" => Brings(push'[c][n], k)
        BY <1>3, <1>4, <4>1 DEF Brings
      <4> QED
        BY <4>2, <4>3
    <3>2. CASE q # 1
      BY <1>4, <2>1, <3>2
    <3> QED
      BY <3>1, <3>2
  <2>2. ASSUME NEW p \in DOMAIN push'[c], push'[c][p].kind = "write", ~Creation(push'[c][p].write)
        PROVE  LET k == push'[c][p].write.key
               IN  \/ cache'[c] # Null /\ cache'[c][k] # Null
                   \/ \E q \in DOMAIN push'[c] : q < p /\ Brings(push'[c][q], k)
                   \/ cache'[c] = Null /\ \A q \in DOMAIN push'[c] : q < p => push'[c][q].kind # "users"
    <3> DEFINE k == push'[c][p].write.key
    <3>1. push[c][p + 1].kind = "write" /\ ~Creation(push[c][p + 1].write)
          /\ k = push[c][p + 1].write.key /\ p + 1 \in DOMAIN push[c] /\ 1 < p + 1
      BY <1>4, <2>2
    <3>2. k \in Keys
      BY <3>1, MessageAt, WriteFields
    <3> HIDE DEF k
    <3>3. CASE Cached(c, k)
      BY <1>8, <3>2, <3>3 DEF k
    <3>4. CASE \E q \in DOMAIN push[c] : q < p + 1 /\ Brings(push[c][q], k)
      <4>1. PICK q \in DOMAIN push[c] : q < p + 1 /\ Brings(push[c][q], k)
        BY <3>4
      <4>2. CASE \E n \in DOMAIN push'[c] : q = n + 1 /\ Brings(push'[c][n], k)
        BY <1>4, <4>1, <4>2 DEF k
      <4>3. CASE cache'[c] # Null /\ cache'[c][k] # Null
        BY <4>3 DEF k
      <4>4. CASE cache'[c] = Null
                 /\ \A n \in DOMAIN push'[c] : push'[c][n].kind = "users" => Brings(push'[c][n], k)
        BY <4>4 DEF k
      <4> QED
        BY <2>1, <3>2, <4>1, <4>2, <4>3, <4>4
    <3>5. CASE cache[c] = Null /\ \A q \in DOMAIN push[c] : q < p + 1 => push[c][q].kind # "users"
      <4>1. \A q \in DOMAIN push'[c] : q < p => push'[c][q].kind # "users"
        BY <1>4, <3>5
      <4> QED
        BY <1>1, <3>5, <4>1
    <3> QED
      BY <3>1, <3>3, <3>4, <3>5 DEF WholeInv
  <2>3. ASSUME listening[c]
        PROVE  /\ cache'[c] # Null \/ \E q \in DOMAIN push'[c] : push'[c][q].kind = "users"
               /\ \A k \in KeysOf(users) : \/ cache'[c] # Null /\ cache'[c][k] # Null
                                           \/ \E q \in DOMAIN push'[c] : Brings(push'[c][q], k)
    <3>1. cache'[c] # Null \/ \E q \in DOMAIN push'[c] : push'[c][q].kind = "users"
      <4>1. cache[c] # Null \/ \E q \in DOMAIN push[c] : push[c][q].kind = "users"
        BY <2>3 DEF WholeInv
      <4> QED
        BY <1>1, <1>4, <4>1
    <3>2. ASSUME NEW k \in KeysOf(users)
          PROVE  \/ cache'[c] # Null /\ cache'[c][k] # Null
                 \/ \E q \in DOMAIN push'[c] : Brings(push'[c][q], k)
      <4>1. k \in Keys
        BY DEF KeysOf
      <4>2. CASE Cached(c, k)
        BY <1>8, <4>1, <4>2
      <4>3. CASE \E q \in DOMAIN push[c] : Brings(push[c][q], k)
        BY <2>1, <3>1, <4>1, <4>3
      <4> QED
        BY <2>3, <4>2, <4>3 DEF WholeInv
    <3> QED
      BY <3>1, <3>2
  <2> QED
    BY <1>1, <2>2, <2>3 DEF WholeInv, Cached
<1>10. KnownInv(c)'
  <2>1. ASSUME NEW i \in DOMAIN pending'[c], ~Creation(pending'[c][i])
        PROVE  \/ \A k : k = pending'[c][i].key => Base(c, k)'
               \/ \E j \in DOMAIN pending'[c] : /\ j < i /\ Creation(pending'[c][j])
                                                /\ pending'[c][j].key = pending'[c][i].key
    <3>1. CASE pending'[c] = pending[c]
      <4>1. pending[c][i].key \in Keys
        BY <3>1, WriteAt
      <4> QED
        BY <1>3, <2>1, <3>1, <4>1 DEF KnownInv
    <3>2. CASE w = pending[c][1] /\ Behind(pending[c], pending'[c])
      <4>1. /\ i \in Nat /\ i + 1 \in DOMAIN pending[c] /\ pending'[c][i] = pending[c][i + 1]
            /\ \A q \in DOMAIN pending[c] :
                 q = 1 \/ \E n \in DOMAIN pending'[c] : q = n + 1 /\ pending'[c][n] = pending[c][q]
            /\ \A n \in DOMAIN pending'[c] : n < i <=> n + 1 < i + 1
        BY <3>2, Shifted
      <4>2. pending[c][i + 1].key \in Keys /\ ~Creation(pending[c][i + 1])
        BY <2>1, <4>1, WriteAt
      <4>3. CASE Base(c, pending[c][i + 1].key)
        BY <1>3, <4>1, <4>2, <4>3
      <4>4. CASE \E j \in DOMAIN pending[c] : /\ j < i + 1 /\ Creation(pending[c][j])
                                              /\ pending[c][j].key = pending[c][i + 1].key
        <5>1. PICK j \in DOMAIN pending[c] : /\ j < i + 1 /\ Creation(pending[c][j])
                                             /\ pending[c][j].key = pending[c][i + 1].key
          BY <4>4
        <5>2. CASE j = 1
          <6>1. pending'[c] # pending[c]
            BY <3>2 DEF Behind
          <6> QED
            BY <1>3, <3>2, <4>1, <5>1, <5>2, <6>1
        <5>3. CASE j # 1
          BY <4>1, <5>1, <5>3
        <5> QED
          BY <5>2, <5>3
      <4> QED
        BY <4>1, <4>2, <4>3, <4>4 DEF KnownInv
    <3> QED
      BY <1>2, <3>1, <3>2
  <2>2. \A i \in DOMAIN inbox[c] : \A k \in KeysOf(inbox[c][i].users) : Created(c, k)' \/ Base(c, k)'
    BY <1>3 DEF KnownInv, KeysOf
  <2>3. signedIn[c] => \E k \in Keys : (Created(c, k)' \/ Base(c, k)')
                                        /\ \A n : n = name[c] => NameAt(c, k, n)'
    BY <1>3 DEF KnownInv
  <2> QED
    BY <1>1, <2>1, <2>2, <2>3 DEF KnownInv, KeysOf, Creation, appVars
<1>11. NamesInv(c)'
  <2>1. ASSUME cache[c] # Null, NEW k \in KeysOf(cache'[c])
        PROVE  cache'[c][k].Username = users[k].Username
    <3>1. CASE k # w.key
      BY <1>1, <2>1, <3>1 DEF NamesInv, KeysOf
    <3>2. CASE k = w.key
      <4>1. "Username" \in Children
        BY DEF Children
      <4>2. /\ "Username" \in w.sets => cache'[c][w.key]["Username"] = w.to["Username"]
            /\ "Username" \notin w.sets => cache'[c][w.key]["Username"] = cache[c][w.key]["Username"]
        BY <1>1, <2>1, <4>1
      <4>3. Creation(w) <=> "Username" \in w.sets
        BY <1>1, <1>3, CreationSets
      <4>4. ~Creation(w) => w.key \in KeysOf(cache[c])
        BY <1>1, <1>3, <2>1 DEF Cached, KeysOf
      <4> QED
        BY <1>3, <2>1, <3>2, <4>2, <4>3, <4>4 DEF NamesInv
    <3> QED
      BY <3>1, <3>2
  <2>2. ASSUME NEW i \in DOMAIN pending'[c]
        PROVE  /\ Legal(pending'[c][i])
               /\ \A k, n : k = pending'[c][i].key /\ n = pending'[c][i].to.Username => NameAt(c, k, n)'
    <3>1. \E j \in DOMAIN pending[c] : pending'[c][i] = pending[c][j]
      BY <1>2 DEF Behind
    <3> QED
      BY <1>3, <3>1, WriteAt DEF NamesInv
  <2>3. \A i \in DOMAIN inbox[c] : \A k \in KeysOf(inbox[c][i].users) :
          \A n : n = inbox[c][i].users[k].Username => NameAt(c, k, n)'
    BY <1>3 DEF NamesInv, KeysOf
  <2> QED
    BY <1>1, <1>4, <2>1, <2>2, <2>3 DEF NamesInv, KeysOf, Legal, Creation
<1> QED
  BY <1>6, <1>7, <1>9, <1>10, <1>11

-----------------------------------------------------------------------------
(***************************************************************************)
(* One name for an account                                                 *)
(***************************************************************************)
LEMMA FreshKey ==
  ASSUME NEW k \in Keys \ Used
  PROVE  users[k] = Null /\ \A d \in Clients : \A i \in DOMAIN pending[d] : pending[d][i].key # k
<1>1. \A d \in Clients : \A i \in DOMAIN pending[d] : pending[d][i] \in ToSet(pending[d])
  BY DEF ToSet
<1> QED
  BY <1>1 DEF Used

LEMMA OneNameFewer ==
  ASSUME OneName, users' = users,
         \A d \in Clients : \A i \in DOMAIN pending'[d] :
            \E j \in DOMAIN pending[d] : pending'[d][i] = pending[d][j]
  PROVE  OneName'
<1> SUFFICES ASSUME NEW k \in Keys, NEW c \in Clients, NEW d \in Clients,
                    NEW i \in DOMAIN pending'[c],
                    Creation(pending'[c][i]), pending'[c][i].key = k
             PROVE  /\ users[k] # Null => users[k].Username = pending'[c][i].to.Username
                    /\ \A j \in DOMAIN pending'[d] :
                         Creation(pending'[d][j]) /\ pending'[d][j].key = k
                             => pending'[d][j].to.Username = pending'[c][i].to.Username
  BY DEF OneName, Creation
<1>1. PICK m \in DOMAIN pending[c] : pending'[c][i] = pending[c][m]
  OBVIOUS
<1>2. /\ users[k] # Null => users[k].Username = pending[c][m].to.Username
      /\ \A j \in DOMAIN pending[d] :
           Creation(pending[d][j]) /\ pending[d][j].key = k
               => pending[d][j].to.Username = pending[c][m].to.Username
  BY <1>1 DEF OneName
<1> QED
  BY <1>1, <1>2

LEMMA OneNameRun ==
  ASSUME TypeOK, OneName, NEW c \in Clients, NEW op, RunStep(c, op)
  PROVE  OneName'
<1>1. /\ \A d \in Clients \ {c} : pending'[d] = pending[d]
      /\ \A i \in DOMAIN pending'[c] : i \notin Added(c) => i \in DOMAIN pending[c] /\ pending'[c][i] = pending[c][i]
      /\ users' = users
      /\ op = "signUp" => \A m, n \in Added(c) : m = n
  BY DEF RunStep, RunEvent, Added, Extends
<1>2. ASSUME NEW n \in Added(c), Creation(pending'[c][n])
      PROVE  /\ users[pending'[c][n].key] = Null /\ op = "signUp"
             /\ \A d \in Clients : \A i \in DOMAIN pending[d] : pending[d][i].key # pending'[c][n].key
  BY <1>2, AddedWrite, FreshKey DEF NewWrite
<1> SUFFICES ASSUME NEW k \in Keys, NEW d \in Clients, NEW e \in Clients,
                    NEW i \in DOMAIN pending'[d],
                    Creation(pending'[d][i]), pending'[d][i].key = k
             PROVE  /\ users[k] # Null => users[k].Username = pending'[d][i].to.Username
                    /\ \A j \in DOMAIN pending'[e] :
                         Creation(pending'[e][j]) /\ pending'[e][j].key = k
                             => pending'[e][j].to.Username = pending'[d][i].to.Username
  BY <1>1 DEF OneName, Creation
<1>3. \A f \in Clients : \A j \in DOMAIN pending'[f] :
        \/ f = c /\ j \in Added(c)
        \/ j \in DOMAIN pending[f] /\ pending'[f][j] = pending[f][j]
  BY <1>1
<1>4. CASE i \in DOMAIN pending[d] /\ pending'[d][i] = pending[d][i]
  <2>1. /\ users[k] # Null => users[k].Username = pending[d][i].to.Username
        /\ \A j \in DOMAIN pending[e] :
             Creation(pending[e][j]) /\ pending[e][j].key = k
                 => pending[e][j].to.Username = pending[d][i].to.Username
    BY <1>4 DEF OneName
  <2>2. ASSUME NEW j \in DOMAIN pending'[e], Creation(pending'[e][j]), pending'[e][j].key = k
        PROVE  ~(e = c /\ j \in Added(c))
    BY <1>2, <1>4, <2>2
  <2> QED
    BY <1>3, <1>4, <2>1, <2>2
<1>5. CASE d = c /\ i \in Added(c)
  <2>1. /\ users[k] = Null /\ op = "signUp"
        /\ \A f \in Clients : \A j \in DOMAIN pending[f] : pending[f][j].key # k
    BY <1>2, <1>5
  <2>2. \A j \in DOMAIN pending'[e] : pending'[e][j].key = k => e = d /\ j = i
    BY <1>1, <1>3, <1>5, <2>1
  <2> QED
    BY <2>1, <2>2
<1> QED
  BY <1>3, <1>4, <1>5

LEMMA OneNameTake ==
  ASSUME TypeOK, OneName, NEW c \in Clients, NamesInv(c), NEW w, TakeStep(c, w)
  PROVE  OneName'
<1>1. /\ w.key \in Keys /\ NameAt(c, w.key, w.to.Username)
      /\ users'[w.key].Username = w.to.Username
  BY TakeUsers
<1>2. pending' = pending /\ \A k \in Keys : k # w.key => users'[k] = users[k]
  BY DEF TakeStep
<1>3. ASSUME NEW k \in Keys, NEW d \in Clients, NEW i \in DOMAIN pending[d],
             Creation(pending[d][i]), pending[d][i].key = k, users'[k] # Null
      PROVE  users'[k].Username = pending[d][i].to.Username
  <2>1. CASE k = w.key
    <3>1. NameAt(d, w.key, pending[d][i].to.Username)
      BY <1>3, <2>1 DEF NameAt
    <3> QED
      BY <1>1, <2>1, <3>1, NameUnique
  <2>2. CASE k # w.key
    BY <1>2, <1>3, <2>2 DEF OneName
  <2> QED
    BY <2>1, <2>2
<1> QED
  BY <1>2, <1>3 DEF OneName, Creation

-----------------------------------------------------------------------------
(***************************************************************************)
(* The single events that have not run                                     *)
(***************************************************************************)
WaitOf(q, a, op) ==
    {i \in 1..(Len(a) + Len(q)) : (IF i <= Len(q) THEN q[i].op ELSE a[i - Len(q)]) = op}

LEMMA WaitsNow ==
  ASSUME NEW c \in Clients, NEW op
  PROVE  WaitsAt(c, op) = WaitOf(inbox[c], asked[c], op)
  BY DEF WaitsAt, WaitOp, Waiting, WaitOf

LEMMA WaitsNext ==
  ASSUME NEW c \in Clients, NEW op
  PROVE  WaitsAt(c, op)' = WaitOf(inbox'[c], asked'[c], op)
  BY DEF WaitsAt, WaitOp, Waiting, WaitOf

LEMMA WaitOfInbox ==
  ASSUME NEW q \in Seq(Snapshots), NEW op
  PROVE  WaitOf(q, <<>>, op) = {i \in DOMAIN q : q[i].op = op}
<1>1. DOMAIN q = 1..Len(q) /\ Len(q) \in Nat /\ Len(<<>>) = 0
  BY Places
<1>2. \A i \in 1..Len(q) : i <= Len(q)
  OBVIOUS
<1>3. 0 + Len(q) = Len(q)
  BY <1>1
<1> QED
  BY <1>1, <1>2, <1>3 DEF WaitOf

LEMMA WaitOfAsked ==
  ASSUME NEW a \in Seq(Op), NEW op
  PROVE  WaitOf(<<>>, a, op) = {i \in DOMAIN a : a[i] = op}
<1>1. DOMAIN a = 1..Len(a) /\ Len(a) \in Nat /\ Len(<<>>) = 0
  BY Places
<1>2. \A i \in 1..Len(a) : ~(i <= 0) /\ i - 0 = i
  OBVIOUS
<1>3. Len(a) + 0 = Len(a)
  BY <1>1
<1> QED
  BY <1>1, <1>2, <1>3 DEF WaitOf

(* Either nothing is asked or nothing is on the main queue. *)
LEMMA QueueCases ==
  ASSUME TypeOK, NEW c \in Clients, AnswersInv(c)
  PROVE  \/ /\ asked[c] = <<>> /\ Waiting(c) = Len(inbox[c])
            /\ \A op : WaitsAt(c, op) = {i \in DOMAIN inbox[c] : inbox[c][i].op = op}
         \/ /\ inbox[c] = <<>> /\ Waiting(c) = Len(asked[c])
            /\ \A op : WaitsAt(c, op) = {i \in DOMAIN asked[c] : asked[c][i] = op}
<1>1. inbox[c] \in Seq(Snapshots) /\ asked[c] \in Seq(Op)
  BY ClientTypes
<1>2. CASE asked[c] = <<>>
  <2>1. Waiting(c) = Len(inbox[c])
    <3>1. Len(asked[c]) = 0 /\ Len(inbox[c]) \in Nat /\ Waiting(c) = Len(asked[c]) + Len(inbox[c])
      BY <1>2, WaitingType
    <3> QED
      BY <3>1
  <2> QED
    BY <1>1, <1>2, <2>1, WaitsNow, WaitOfInbox
<1>3. CASE asked[c] # <<>>
  <2>1. inbox[c] = <<>>
    BY <1>3 DEF AnswersInv
  <2>2. Waiting(c) = Len(asked[c])
    <3>1. Len(inbox[c]) = 0 /\ Len(asked[c]) \in Nat /\ Waiting(c) = Len(asked[c]) + Len(inbox[c])
      BY <2>1, WaitingType
    <3> QED
      BY <3>1
  <2> QED
    BY <1>1, <2>1, <2>2, WaitsNow, WaitOfAsked
<1> QED
  BY <1>2, <1>3

LEMMA WaitsPlaces ==
  ASSUME TypeOK, NEW c \in Clients, NEW op, NEW i \in WaitsAt(c, op)
  PROVE  i \in Nat /\ 1 <= i /\ i <= Waiting(c)
<1>1. Waiting(c) \in Nat
  BY WaitingType
<1>2. i \in 1..Waiting(c)
  BY DEF WaitsAt
<1> QED
  BY <1>1, <1>2

LEMMA WaitsMeans ==
  ASSUME TypeOK, NEW c \in Clients, AnswersInv(c), NEW op
  PROVE  Waits(c, op) <=> WaitsAt(c, op) # {}
<1>1. \A o : /\ o \in ToSet(asked[c]) <=> \E i \in DOMAIN asked[c] : asked[c][i] = o
             /\ o \in ToSet(inbox[c]) <=> \E i \in DOMAIN inbox[c] : inbox[c][i] = o
  BY DEF ToSet
<1>2. Waits(c, op) <=> \/ \E i \in DOMAIN asked[c] : asked[c][i] = op
                       \/ \E i \in DOMAIN inbox[c] : inbox[c][i].op = op
  BY <1>1 DEF Waits
<1>3. (asked[c] = <<>> => DOMAIN asked[c] = {}) /\ (inbox[c] = <<>> => DOMAIN inbox[c] = {})
  OBVIOUS
<1>4. CASE /\ asked[c] = <<>>
           /\ WaitsAt(c, op) = {i \in DOMAIN inbox[c] : inbox[c][i].op = op}
  BY <1>2, <1>3, <1>4
<1>5. CASE /\ inbox[c] = <<>>
           /\ WaitsAt(c, op) = {i \in DOMAIN asked[c] : asked[c][i] = op}
  BY <1>2, <1>3, <1>5
<1> QED
  BY <1>4, <1>5, QueueCases

LEMMA QueueSame ==
  ASSUME NEW d \in Clients, inbox'[d] = inbox[d], asked'[d] = asked[d]
  PROVE  \A op : WaitsAt(d, op)' = WaitsAt(d, op)
  BY WaitsNow, WaitsNext

LEMMA QueueAsk ==
  ASSUME TypeOK, NEW c \in Clients, Local(c), NEW op \in Op, AskStep(c, op)
  PROVE  /\ \A o : \A i : i \in WaitsAt(c, o)' <=> i \in WaitsAt(c, o) \/ (i = Waiting(c) + 1 /\ o = op)
         /\ \A o : Waiting(c) + 1 \notin WaitsAt(c, o)
         /\ Waiting(c) + 1 \in Nat
<1> USE DEF Local
<1>1. inbox[c] = <<>> /\ Waiting(c) \in Nat /\ asked[c] \in Seq(Op)
  BY Asked, WaitingType, ClientTypes
<1>2. \A o : Waiting(c) + 1 \notin WaitsAt(c, o)
  BY <1>1, WaitsPlaces
<1>3. Waiting(c) = Len(asked[c])
  <2>1. Len(inbox[c]) = 0 /\ Len(asked[c]) \in Nat /\ Waiting(c) = Len(asked[c]) + Len(inbox[c])
    BY <1>1, WaitingType
  <2> QED
    BY <2>1
<1>4. \A o : WaitsAt(c, o) = {i \in DOMAIN asked[c] : asked[c][i] = o}
  BY <1>1, WaitsNow, WaitOfAsked
<1>5. CASE inbox'[c] = <<>> /\ asked'[c] = Append(asked[c], op)
  <2>1. /\ asked'[c] \in Seq(Op)
        /\ asked'[c][Waiting(c) + 1] = op /\ DOMAIN asked'[c] = DOMAIN asked[c] \cup {Waiting(c) + 1}
        /\ \A i \in DOMAIN asked[c] : asked'[c][i] = asked[c][i]
    BY <1>1, <1>3, <1>5, Appended DEF Extends
  <2>2. ASSUME NEW o
        PROVE  WaitsAt(c, o)' = {i \in DOMAIN asked'[c] : asked'[c][i] = o}
    <3>1. WaitsAt(c, o)' = WaitOf(inbox'[c], asked'[c], o)
      BY WaitsNext
    <3> QED
      BY <1>5, <2>1, <3>1, WaitOfAsked
  <2>3. Waiting(c) + 1 \notin DOMAIN asked[c]
    BY <1>1, <1>3, Places
  <2> QED
    BY <1>1, <1>2, <1>4, <2>1, <2>2, <2>3
<1>6. CASE /\ asked[c] = <<>> /\ asked'[c] = <<>>
           /\ inbox'[c] = <<Event(op, Seen(cache[c], pending[c]))>>
           /\ Seen(cache[c], pending[c]) \in Users_
  <2> DEFINE e == Event(op, Seen(cache[c], pending[c]))
  <2>1. e \in Snapshots /\ e.op = op
    BY <1>6 DEF Event, Snapshots
  <2> HIDE DEF e
  <2>2. inbox'[c] = <<e>> /\ inbox'[c] \in Seq(Snapshots) /\ DOMAIN inbox'[c] = {1} /\ inbox'[c][1] = e
    BY <1>6, <2>1 DEF e
  <2>3. ASSUME NEW o
        PROVE  WaitsAt(c, o)' = {i \in DOMAIN inbox'[c] : inbox'[c][i].op = o}
    <3>1. WaitsAt(c, o)' = WaitOf(inbox'[c], asked'[c], o)
      BY WaitsNext
    <3> QED
      BY <1>6, <2>2, <3>1, WaitOfInbox
  <2>4. DOMAIN asked[c] = {} /\ Waiting(c) = 0
    BY <1>3, <1>6
  <2> QED
    BY <1>1, <1>2, <1>4, <2>1, <2>2, <2>3, <2>4
<1> QED
  BY <1>5, <1>6, Asked

LEMMA QueueRun ==
  ASSUME TypeOK, NEW c \in Clients, Local(c), NEW op, RunStep(c, op)
  PROVE  /\ asked[c] = <<>>
         /\ \A o : WaitsAt(c, o) = {i \in DOMAIN inbox[c] : inbox[c][i].op = o}
         /\ \A o : WaitsAt(c, o)' = {i \in DOMAIN inbox'[c] : inbox'[c][i].op = o}
         /\ \A o : \A i : i \in WaitsAt(c, o)' <=> i \in Nat \ {0} /\ i + 1 \in WaitsAt(c, o)
         /\ \A o : 1 \in WaitsAt(c, o) <=> o = op
<1> USE DEF Local
<1>1. /\ 1 \in DOMAIN inbox[c] /\ Behind(inbox[c], inbox'[c]) /\ inbox[c][1].op = op
      /\ inbox' \in [Clients -> Seq(Snapshots)] /\ asked' = asked
  BY RunFacts DEF RunStep
<1>2. inbox[c] \in Seq(Snapshots) /\ inbox[c] # <<>> /\ inbox'[c] \in Seq(Snapshots)
  BY <1>1, ClientTypes
<1>3. asked[c] = <<>>
  BY <1>2 DEF AnswersInv
<1>4. \A o : WaitsAt(c, o) = {i \in DOMAIN inbox[c] : inbox[c][i].op = o}
  BY <1>2, <1>3, WaitsNow, WaitOfInbox
<1>5. \A o : WaitsAt(c, o)' = {i \in DOMAIN inbox'[c] : inbox'[c][i].op = o}
  BY <1>1, <1>2, <1>3, WaitsNext, WaitOfInbox
<1>6. \A i : i \in DOMAIN inbox'[c] <=> i \in Nat \ {0} /\ i + 1 \in DOMAIN inbox[c]
  BY <1>1 DEF Behind
<1>7. \A i \in DOMAIN inbox'[c] : inbox'[c][i] = inbox[c][i + 1]
  BY <1>1 DEF Behind
<1>8. ASSUME NEW o, NEW i
      PROVE  i \in WaitsAt(c, o)' <=> i \in Nat \ {0} /\ i + 1 \in WaitsAt(c, o)
  BY <1>4, <1>5, <1>6, <1>7
<1>9. \A o : 1 \in WaitsAt(c, o) <=> o = op
  BY <1>1, <1>4
<1> QED
  BY <1>3, <1>4, <1>5, <1>8, <1>9

LEMMA QueueUsers ==
  ASSUME TypeOK, NEW c \in Clients, NEW us, UsersStep(c, us)
  PROVE  \A o : WaitsAt(c, o)' = WaitsAt(c, o)
<1>1. CASE inbox'[c] = inbox[c] /\ asked'[c] = asked[c]
  BY <1>1, QueueSame
<1>2. CASE /\ inbox[c] = <<>> /\ asked'[c] = <<>> /\ Len(inbox'[c]) = Len(asked[c])
           /\ \A i \in DOMAIN inbox'[c] :
                i \in DOMAIN asked[c] /\ inbox'[c][i] = Event(asked[c][i], Seen(us, pending[c]))
  <2>1. inbox'[c] \in Seq(Snapshots) /\ asked[c] \in Seq(Op)
    BY ClientTypes DEF UsersStep
  <2>2. DOMAIN inbox'[c] = 1..Len(inbox'[c]) /\ DOMAIN asked[c] = 1..Len(asked[c])
    BY <2>1, Places
  <2>3. \A o, us2 : Event(o, us2).op = o
    BY DEF Event
  <2>4. \A o : WaitsAt(c, o) = {i \in DOMAIN asked[c] : asked[c][i] = o}
    BY <1>2, <2>1, WaitsNow, WaitOfAsked
  <2>5. \A o : WaitsAt(c, o)' = {i \in DOMAIN inbox'[c] : inbox'[c][i].op = o}
    BY <1>2, <2>1, WaitsNext, WaitOfInbox
  <2>6. \A i \in DOMAIN inbox'[c] : inbox'[c][i].op = asked[c][i]
    BY <1>2, <2>3
  <2>7. DOMAIN inbox'[c] = DOMAIN asked[c]
    BY <1>2, <2>2
  <2>8. ASSUME NEW o
        PROVE  WaitsAt(c, o)' = WaitsAt(c, o)
    <3>1. WaitsAt(c, o) = {i \in DOMAIN asked[c] : asked[c][i] = o}
      BY <2>4
    <3>2. WaitsAt(c, o)' = {i \in DOMAIN inbox'[c] : inbox'[c][i].op = o}
      BY <2>5
    <3> QED
      BY <2>6, <2>7, <3>1, <3>2
  <2> QED
    BY <2>8
<1>3. CASE asked[c] = <<>> /\ asked'[c] = <<>> /\ inbox'[c] = inbox[c]
  BY <1>1, <1>3
<1> QED
  BY <1>1, <1>2, <1>3 DEF UsersStep

-----------------------------------------------------------------------------
(***************************************************************************)
(* Counting                                                                *)
(***************************************************************************)
LEMMA UncountedNow ==
  ASSUME NEW n
  PROVE  \A e : e \in Uncounted(n) <=>
           \E d \in Clients : name[d] = n /\ \E i \in WaitsAt(d, "count") : e = <<d, i>>
  BY DEF Uncounted

LEMMA UncountedNext ==
  ASSUME NEW n
  PROVE  \A e : e \in Uncounted(n)' <=>
           \E d \in Clients : name'[d] = n /\ \E i \in WaitsAt(d, "count")' : e = <<d, i>>
  BY DEF Uncounted

LEMMA UncountedSame ==
  ASSUME NEW n,
         \A d \in Clients : \/ name'[d] = name[d] /\ WaitsAt(d, "count")' = WaitsAt(d, "count")
                            \/ WaitsAt(d, "count")' = {} /\ WaitsAt(d, "count") = {}
  PROVE  Uncounted(n)' = Uncounted(n)
<1>1. \A e : e \in Uncounted(n)' <=> e \in Uncounted(n)
  BY UncountedNow, UncountedNext
<1> QED
  BY <1>1

CountersInv ==
    \A n \in Names : /\ IsFiniteSet(Uncounted(n)) /\ Counted(n) >= 0
                     /\ submitters[n] = {} => submitted[n] = 0

LEMMA CountedType ==
  ASSUME TypeOK, CountersInv, NEW n \in Names
  PROVE  Counted(n) \in Nat /\ Cardinality(Uncounted(n)) \in Nat /\ submitted[n] \in Nat
<1>1. Cardinality(Uncounted(n)) \in Nat
  BY FS_CardinalityType DEF CountersInv
<1>2. submitted[n] \in Nat
  BY DEF TypeOK
<1>3. \A a, b \in Nat : a - b >= 0 => a - b \in Nat
  OBVIOUS
<1> QED
  BY <1>1, <1>2, <1>3 DEF Counted, CountersInv

(* Nothing happens to what waits to be counted. *)
LEMMA CountersSame ==
  ASSUME CountersInv, submitted' = submitted, submitters' = submitters,
         \A d \in Clients : \/ name'[d] = name[d] /\ WaitsAt(d, "count")' = WaitsAt(d, "count")
                            \/ WaitsAt(d, "count")' = {} /\ WaitsAt(d, "count") = {}
  PROVE  CountersInv' /\ \A n \in Names : Counted(n)' = Counted(n)
<1>1. \A n \in Names : Uncounted(n)' = Uncounted(n)
  BY UncountedSame
<1>2. \A n \in Names : Counted(n)' = Counted(n)
  BY <1>1 DEF Counted
<1> QED
  BY <1>1, <1>2 DEF CountersInv

(* Submit_Auction: one more is submitted and waits. *)
LEMMA CountersSubmit ==
  ASSUME TypeOK, CountersInv, NEW c \in Clients, Local(c), Submit_Auction(c)
  PROVE  /\ CountersInv' /\ \A n \in Names : Counted(n)' = Counted(n)
         /\ name[c] \in Names
<1>0. PICK m, x : m = name[c] /\ x = <<c, Waiting(c) + 1>>
  OBVIOUS
<1>1. /\ AskStep(c, "count") /\ "count" \in Op
      /\ submitted' = [submitted EXCEPT ![m] = @ + 1]
      /\ submitters' = [submitters EXCEPT ![m] = @ \cup {c}]
      /\ signedIn[c] /\ name' = name
  BY <1>0 DEF Submit_Auction, AskStep, Op
<1>2. m \in Names
  BY <1>0, <1>1, ClientTypes
<1>3. /\ \A o : \A i : i \in WaitsAt(c, o)' <=> i \in WaitsAt(c, o) \/ (i = Waiting(c) + 1 /\ o = "count")
      /\ \A o : Waiting(c) + 1 \notin WaitsAt(c, o)
  BY <1>1, QueueAsk
<1>4. \A d \in Clients \ {c} : \A o : WaitsAt(d, o)' = WaitsAt(d, o)
  <2>1. \A d \in Clients \ {c} : inbox'[d] = inbox[d] /\ asked'[d] = asked[d]
    BY <1>1, Asked DEF Local
  <2> QED
    BY <2>1, QueueSame
<1>5. submitted \in [Names -> Nat] /\ submitters \in [Names -> SUBSET Clients]
  BY DEF TypeOK
<1>6. ASSUME NEW n \in Names, n # m
      PROVE  Uncounted(n)' = Uncounted(n) /\ submitted'[n] = submitted[n] /\ submitters'[n] = submitters[n]
  <2>1. \A e : e \in Uncounted(n)' <=> e \in Uncounted(n)
    BY <1>0, <1>1, <1>4, <1>6, UncountedNow, UncountedNext
  <2>2. submitted'[n] = submitted[n] /\ submitters'[n] = submitters[n]
    BY <1>1, <1>2, <1>5, <1>6
  <2> QED
    BY <2>1, <2>2
<1>7. /\ Uncounted(m)' = Uncounted(m) \cup {x} /\ x \notin Uncounted(m)
      /\ submitted'[m] = submitted[m] + 1 /\ submitters'[m] # {}
  <2>1. \A e : e \in Uncounted(m)' <=> \E d \in Clients : name[d] = m /\ \E i \in WaitsAt(d, "count")' : e = <<d, i>>
    BY <1>1, UncountedNext
  <2>2. \A e : e \in Uncounted(m) <=> \E d \in Clients : name[d] = m /\ \E i \in WaitsAt(d, "count") : e = <<d, i>>
    BY UncountedNow
  <2>3. \A i : i \in WaitsAt(c, "count")' <=> i \in WaitsAt(c, "count") \/ i = Waiting(c) + 1
    BY <1>3
  <2>4. x \notin Uncounted(m)
    <3>1. SUFFICES ASSUME x \in Uncounted(m)
                   PROVE  FALSE
      OBVIOUS
    <3>2. PICK d \in Clients : \E i \in WaitsAt(d, "count") : x = <<d, i>>
      BY <2>2, <3>1
    <3>4. PICK i \in WaitsAt(d, "count") : x = <<d, i>>
      BY <3>2
    <3>3. d = c /\ i = Waiting(c) + 1
      BY <1>0, <3>4
    <3> QED
      BY <1>3, <3>4, <3>3
  <2>5. x \in Uncounted(m)'
    BY <1>0, <2>1, <2>3
  <2>6. \A e : e \in Uncounted(m) => e \in Uncounted(m)'
    BY <1>0, <1>4, <2>1, <2>2, <2>3
  <2>7. \A e : e \in Uncounted(m)' => e \in Uncounted(m) \/ e = x
    BY <1>0, <1>4, <2>1, <2>2, <2>3
  <2>8. submitted'[m] = submitted[m] + 1 /\ submitters'[m] # {}
    BY <1>1, <1>2, <1>5
  <2> QED
    BY <2>4, <2>5, <2>6, <2>7, <2>8
<1>8. /\ IsFiniteSet(Uncounted(m)')
      /\ Cardinality(Uncounted(m)') = Cardinality(Uncounted(m)) + 1
  BY <1>2, <1>7, FS_AddElement DEF CountersInv
<1>9. Counted(m)' = Counted(m)
  <2>1. Cardinality(Uncounted(m)) \in Nat /\ submitted[m] \in Nat
    BY <1>2, CountedType
  <2>2. Counted(m)' = submitted'[m] - Cardinality(Uncounted(m)')
    BY <1>1 DEF Counted
  <2>3. \A a, b \in Nat : (a + 1) - (b + 1) = a - b
    OBVIOUS
  <2> QED
    BY <1>7, <1>8, <2>1, <2>2, <2>3 DEF Counted
<1>10. \A n \in Names \ {m} : Counted(n)' = Counted(n)
  BY <1>6 DEF Counted
<1>11. \A n \in Names : IsFiniteSet(Uncounted(n)')
  BY <1>6, <1>8 DEF CountersInv
<1>12. \A n \in Names : submitters'[n] = {} => submitted'[n] = 0
  BY <1>6, <1>7 DEF CountersInv
<1>13. \A n \in Names : Counted(n)' = Counted(n)
  BY <1>9, <1>10
<1>14. \A n \in Names : Counted(n)' >= 0
  <2>1. \A n \in Names : Counted(n) >= 0
    BY DEF CountersInv
  <2> QED
    BY <1>13, <2>1
<1>15. CountersInv'
  <2> QED
    BY <1>11, <1>12, <1>14 DEF CountersInv
<1> QED
  BY <1>0, <1>2, <1>13, <1>15

(* The places of c move up by one when a handler runs. *)
LEMMA UncountedShift ==
  ASSUME TypeOK, NEW c \in Clients, Local(c), NEW op, RunStep(c, op), name' = name,
         NEW n, IsFiniteSet(Uncounted(n))
  PROVE  /\ IsFiniteSet(Uncounted(n)')
         /\ Cardinality(Uncounted(n)') = Cardinality(Uncounted(n) \ {<<c, 1>>})
<1> DEFINE S == Uncounted(n) \ {<<c, 1>>}
           T == Uncounted(n)'
           f == [e \in S |-> IF e[1] = c THEN <<c, e[2] - 1>> ELSE e]
<1>1. \A i : i \in WaitsAt(c, "count")' <=> i \in Nat \ {0} /\ i + 1 \in WaitsAt(c, "count")
  BY QueueRun
<1>2. \A d \in Clients \ {c} : WaitsAt(d, "count")' = WaitsAt(d, "count")
  <2>1. \A d \in Clients \ {c} : inbox'[d] = inbox[d] /\ asked'[d] = asked[d]
    BY RunFacts DEF RunStep
  <2> QED
    BY <2>1, QueueSame
<1>3. \A i \in WaitsAt(c, "count") : i \in Nat \ {0}
  BY WaitsPlaces
<1>4. /\ \A e : e \in Uncounted(n) <=> \E d \in Clients : name[d] = n /\ \E i \in WaitsAt(d, "count") : e = <<d, i>>
      /\ \A e : e \in T <=> \E d \in Clients : name[d] = n /\ \E i \in WaitsAt(d, "count")' : e = <<d, i>>
  BY UncountedNow, UncountedNext
<1>5. \A e \in S : \/ e[1] # c /\ e \in T /\ f[e] = e
                   \/ /\ e[1] = c /\ e = <<c, e[2]>> /\ e[2] \in Nat /\ e[2] - 1 \in Nat
                      /\ e[2] - 1 \in WaitsAt(c, "count")' /\ name[c] = n /\ f[e] = <<c, e[2] - 1>>
  <2>1. SUFFICES ASSUME NEW e \in S
                 PROVE  \/ e[1] # c /\ e \in T /\ f[e] = e
                        \/ /\ e[1] = c /\ e = <<c, e[2]>> /\ e[2] \in Nat /\ e[2] - 1 \in Nat
                           /\ e[2] - 1 \in WaitsAt(c, "count")' /\ name[c] = n
                           /\ f[e] = <<c, e[2] - 1>>
    OBVIOUS
  <2>5. PICK d \in Clients : name[d] = n /\ \E i \in WaitsAt(d, "count") : e = <<d, i>>
    BY <1>4
  <2>2. PICK i \in WaitsAt(d, "count") : name[d] = n /\ e = <<d, i>>
    BY <2>5
  <2>3. CASE d = c
    <3>1. i # 1 /\ i \in Nat \ {0}
      BY <1>3, <2>2, <2>3
    <3>2. i - 1 \in Nat \ {0} /\ (i - 1) + 1 = i
      BY <3>1
    <3> QED
      BY <1>1, <2>2, <2>3, <3>1, <3>2
  <2>4. CASE d # c
    <3>1. e \in T
      BY <1>2, <1>4, <2>2, <2>4
    <3> QED
      BY <2>2, <2>4, <3>1
  <2> QED
    BY <2>3, <2>4
<1>6. f \in [S -> T]
  <2>1. \A e \in S : f[e] \in T
    BY <1>4, <1>5
  <2> QED
    BY <2>1
<1> HIDE DEF f
<1>7. ASSUME NEW a \in S, NEW b \in S, f[a] = f[b]
      PROVE  a = b
  <2>1. CASE a[1] # c /\ f[a] = a
    <3>1. ~(f[b] = <<c, b[2] - 1>>)
      BY <1>7, <2>1
    <3> QED
      BY <1>5, <1>7, <2>1, <3>1
  <2>2. CASE a[1] = c
    <3>1. f[a] = <<c, a[2] - 1>> /\ a = <<c, a[2]>> /\ a[2] \in Nat
      BY <1>5, <2>2
    <3>2. CASE b[1] # c
      <4>1. \A y : <<c, y>>[1] = c
        OBVIOUS
      <4>2. f[b] = b
        BY <1>5, <3>2
      <4> QED
        BY <1>7, <3>1, <3>2, <4>1, <4>2
    <3>3. CASE b[1] = c
      <4>1. f[b] = <<c, b[2] - 1>> /\ b = <<c, b[2]>> /\ b[2] \in Nat
        BY <1>5, <3>3
      <4>4. \A y, z : <<c, y>> = <<c, z>> => y = z
        OBVIOUS
      <4>2. a[2] - 1 = b[2] - 1
        BY <1>7, <3>1, <4>1, <4>4
      <4>3. a[2] = b[2]
        BY <3>1, <4>1, <4>2
      <4> QED
        BY <3>1, <4>1, <4>3
    <3> QED
      BY <3>2, <3>3
  <2> QED
    BY <1>5, <2>1, <2>2
<1>8. ASSUME NEW e \in T
      PROVE  \E a \in S : f[a] = e
  <2>4. PICK d \in Clients : name[d] = n /\ \E i \in WaitsAt(d, "count")' : e = <<d, i>>
    BY <1>4
  <2>1. PICK i \in WaitsAt(d, "count")' : name[d] = n /\ e = <<d, i>>
    BY <2>4
  <2>2. CASE d = c
    <3>1. i \in Nat \ {0} /\ i + 1 \in WaitsAt(c, "count")
      BY <1>1, <2>1, <2>2
    <3> DEFINE a == <<c, i + 1>>
    <3>2. a \in Uncounted(n)
      BY <1>4, <2>1, <2>2, <3>1
    <3>3. i + 1 # 1 /\ (i + 1) - 1 = i /\ a[1] = c /\ a[2] = i + 1
      BY <3>1
    <3>4. a # <<c, 1>>
      BY <3>3
    <3>5. a \in S /\ f[a] = <<c, i>>
      BY <1>5, <3>2, <3>3, <3>4
    <3> QED
      BY <2>1, <2>2, <3>5
  <2>3. CASE d # c
    <3>1. e \in Uncounted(n) /\ e[1] = d
      BY <1>2, <1>4, <2>1, <2>3
    <3>2. e \in S
      BY <2>1, <2>3, <3>1
    <3> QED
      BY <1>5, <2>3, <3>1, <3>2
  <2> QED
    BY <2>2, <2>3
<1>9. IsFiniteSet(S)
  BY FS_RemoveElement
<1> HIDE DEF S, T
<1>10. f \in Bijection(S, T)
  BY <1>6, <1>7, <1>8 DEF Bijection, Injection, Surjection, IsInjective
<1>11. ExistsBijection(S, T)
  BY <1>10 DEF ExistsBijection
<1>12. IsFiniteSet(T) /\ Cardinality(T) = Cardinality(S)
  BY <1>9, <1>11, FS_Bijection
<1> QED
  BY <1>12 DEF S, T

(* What a handler does to the numbers that were counted. *)
LEMMA CountersRun ==
  ASSUME TypeOK, CountersInv, NEW c \in Clients, Local(c), CountsInv(c), NEW op, RunStep(c, op)
  PROVE  /\ CountersInv'
         /\ \A n \in Names : n = name[c] /\ op = "count" => Counted(n)' = Counted(n) + 1
         /\ \A n \in Names : ~(n = name[c] /\ op = "count") => Counted(n)' = Counted(n)
<1>1. /\ submitted' = submitted /\ submitters' = submitters
      /\ op # "login" => name' = name
      /\ \A d \in Clients \ {c} : name'[d] = name[d] /\ inbox'[d] = inbox[d] /\ asked'[d] = asked[d]
  <2>1. name \in [Clients -> Names \cup {Null}] /\ name' \in [Clients -> Names \cup {Null}]
        /\ (op # "login" => \A d \in Clients : name'[d] = name[d])
    BY DEF RunStep, TypeOK
  <2>2. op # "login" => name' = name
    BY <2>1
  <2>3. \A d \in Clients \ {c} : inbox'[d] = inbox[d] /\ asked'[d] = asked[d]
    BY RunFacts DEF RunStep
  <2> QED
    BY <2>2, <2>3 DEF RunStep, RunEvent
<1>2. CASE op = "login"
  <2>1. 1 \in WaitsAt(c, "login")
    BY <1>2, QueueRun
  <2>2. WaitsAt(c, "count") = {}
    <3>1. \A j \in WaitsAt(c, "count") : j < 1
      BY <2>1 DEF CountsInv
    <3>2. \A j \in WaitsAt(c, "count") : j \in Nat /\ 1 <= j
      BY WaitsPlaces
    <3> QED
      BY <3>1, <3>2
  <2>3. WaitsAt(c, "count")' = {}
    BY <2>2, QueueRun
  <2>4. \A d \in Clients \ {c} : WaitsAt(d, "count")' = WaitsAt(d, "count")
    BY <1>1, QueueSame
  <2>5. CountersInv' /\ \A n \in Names : Counted(n)' = Counted(n)
    BY <1>1, <2>2, <2>3, <2>4, CountersSame
  <2> QED
    BY <1>2, <2>5
<1>3. CASE op # "login"
  <2>1. \A n \in Names : /\ IsFiniteSet(Uncounted(n)')
                         /\ Cardinality(Uncounted(n)') = Cardinality(Uncounted(n) \ {<<c, 1>>})
    BY <1>1, <1>3, UncountedShift DEF CountersInv
  <2>2. \A n \in Names : <<c, 1>> \in Uncounted(n) <=> n = name[c] /\ op = "count"
    <3>1. 1 \in WaitsAt(c, "count") <=> op = "count"
      BY QueueRun
    <3>2. ASSUME NEW n \in Names
          PROVE  <<c, 1>> \in Uncounted(n) <=> name[c] = n /\ 1 \in WaitsAt(c, "count")
      <4>1. <<c, 1>> \in Uncounted(n) <=>
              \E d \in Clients : name[d] = n /\ \E i \in WaitsAt(d, "count") : <<c, 1>> = <<d, i>>
        BY UncountedNow
      <4>2. \A d, i : <<c, 1>> = <<d, i>> <=> c = d /\ 1 = i
        OBVIOUS
      <4> QED
        BY <4>1, <4>2
    <3> QED
      BY <3>1, <3>2
  <2>3. ASSUME NEW n \in Names, n = name[c], op = "count"
        PROVE  Counted(n)' = Counted(n) + 1
    <3>1. <<c, 1>> \in Uncounted(n) /\ IsFiniteSet(Uncounted(n))
      BY <2>2, <2>3 DEF CountersInv
    <3>2. Cardinality(Uncounted(n)') = Cardinality(Uncounted(n)) - 1
      BY <2>1, <3>1, FS_RemoveElement
    <3>3. Cardinality(Uncounted(n)) \in Nat /\ submitted[n] \in Nat
      BY CountedType
    <3>4. \A a, b \in Nat : a - (b - 1) = (a - b) + 1
      OBVIOUS
    <3> QED
      BY <1>1, <3>2, <3>3, <3>4 DEF Counted
  <2>4. ASSUME NEW n \in Names, ~(n = name[c] /\ op = "count")
        PROVE  Counted(n)' = Counted(n)
    <3>1. <<c, 1>> \notin Uncounted(n)
      BY <2>2, <2>4
    <3>2. Uncounted(n) \ {<<c, 1>>} = Uncounted(n)
      BY <3>1
    <3> QED
      BY <1>1, <2>1, <3>2 DEF Counted
  <2>5. \A n \in Names : Counted(n)' >= 0
    <3>1. \A n \in Names : Counted(n) \in Nat
      BY CountedType
    <3>2. \A x \in Nat : x + 1 >= 0 /\ x >= 0
      OBVIOUS
    <3> QED
      BY <2>3, <2>4, <3>1, <3>2
  <2>6. CountersInv'
    BY <1>1, <2>1, <2>5 DEF CountersInv
  <2> QED
    BY <2>3, <2>4, <2>6
<1> QED
  BY <1>2, <1>3

-----------------------------------------------------------------------------
(***************************************************************************)
(* The types after the steps of the user and of the connection             *)
(***************************************************************************)
LEMMA LeftType ==
  ASSUME TypeOK
  PROVE  /\ left.uses > 0 => [left EXCEPT !.uses = @ - 1] \in [uses : Nat, logins : Nat, losses : Nat]
         /\ left.logins > 0 => [left EXCEPT !.logins = @ - 1] \in [uses : Nat, logins : Nat, losses : Nat]
         /\ left.losses > 0 => [left EXCEPT !.losses = @ - 1] \in [uses : Nat, logins : Nat, losses : Nat]
<1>1. left \in [uses : Nat, logins : Nat, losses : Nat]
  BY DEF TypeOK
<1>2. \A m \in Nat : m > 0 => m - 1 \in Nat
  OBVIOUS
<1>3. left.uses > 0 => [left EXCEPT !.uses = @ - 1] \in [uses : Nat, logins : Nat, losses : Nat]
  BY <1>1, <1>2
<1>4. left.logins > 0 => [left EXCEPT !.logins = @ - 1] \in [uses : Nat, logins : Nat, losses : Nat]
  BY <1>1, <1>2
<1>5. left.losses > 0 => [left EXCEPT !.losses = @ - 1] \in [uses : Nat, logins : Nat, losses : Nat]
  BY <1>1, <1>2
<1> QED
  BY <1>3, <1>4, <1>5

(* A tap, and which one it is. *)
LEMMA TypeTaps ==
  ASSUME TypeOK, NEW c \in Clients, Local(c),
         \/ SignUp(c) \/ Login(c) \/ Submit_Auction(c)
         \/ \E child \in Others : UpdateOther(c, child)
  PROVE  TypeOK'
<1>1. PICK op \in Op : AskStep(c, op)
  BY AskActions
<1>2. /\ submitted \in [Names -> Nat] /\ submitters \in [Names -> SUBSET Clients]
      /\ disturbed \subseteq Names /\ met \in BOOLEAN
  BY DEF TypeOK
<1>3. CASE SignUp(c)
  <2>1. left' \in [uses : Nat, logins : Nat, losses : Nat]
    BY <1>3, LeftType DEF SignUp
  <2>2. met' \in BOOLEAN /\ UNCHANGED <<submitted, submitters, disturbed>>
    BY <1>3 DEF SignUp
  <2> QED
    BY <1>1, <1>2, <2>1, <2>2, TypeAsk DEF Local
<1>4. CASE Login(c)
  <2>1. left' \in [uses : Nat, logins : Nat, losses : Nat]
    BY <1>4, LeftType DEF Login
  <2> QED
    BY <1>1, <1>2, <1>4, <2>1, TypeAsk DEF Local, Login, historyVars
<1>5. CASE Submit_Auction(c)
  <2>1. left' \in [uses : Nat, logins : Nat, losses : Nat]
    BY <1>5, LeftType DEF Submit_Auction
  <2>2. name[c] \in Names
    BY <1>5, ClientTypes DEF Submit_Auction
  <2>3. submitted' \in [Names -> Nat]
    BY <1>2, <1>5, <2>2 DEF Submit_Auction
  <2>4. submitters' \in [Names -> SUBSET Clients]
    BY <1>2, <1>5, <2>2 DEF Submit_Auction
  <2>5. disturbed' \subseteq Names /\ met' = met
    BY <1>2, <1>5, <2>2 DEF Submit_Auction
  <2> QED
    BY <1>1, <1>2, <2>1, <2>3, <2>4, <2>5, TypeAsk DEF Local
<1>6. CASE \E child \in Others : UpdateOther(c, child)
  <2>1. left' \in [uses : Nat, logins : Nat, losses : Nat]
    BY <1>6, LeftType DEF UpdateOther
  <2> QED
    BY <1>1, <1>2, <1>6, <2>1, TypeAsk DEF Local, UpdateOther, historyVars
<1> QED
  BY <1>3, <1>4, <1>5, <1>6

LEMMA TypeSignOut ==
  ASSUME TypeOK, NEW c \in Clients, SignOut(c)
  PROVE  TypeOK'
<1>1. /\ signedIn' = [signedIn EXCEPT ![c] = FALSE]
      /\ UNCHANGED <<users, cache, pending, taken, connected, listening, push, asked, inbox, profile, name, left>>
      /\ UNCHANGED historyVars
  BY DEF SignOut, sdkVars
<1>2. \A d \in Clients : Observed(d)' = Observed(d)
  BY <1>1 DEF Observed, Waiting
<1> QED
  BY <1>1, <1>2 DEF TypeOK, historyVars

LEMMA TypeOpenProfile ==
  ASSUME TypeOK, NEW c \in Clients, OpenProfile(c)
  PROVE  TypeOK'
<1>1. /\ profile' = [profile EXCEPT ![c] = TRUE]
      /\ UNCHANGED <<users, cache, pending, taken, connected, listening, push, asked, inbox, signedIn, name, left>>
      /\ UNCHANGED historyVars
  BY DEF OpenProfile, sdkVars
<1>2. \A d \in Clients : Observed(d) => Observed(d)'
  BY <1>1 DEF Observed, Waiting, TypeOK
<1> QED
  BY <1>1, <1>2 DEF TypeOK, historyVars

LEMMA TypeConnect ==
  ASSUME TypeOK, NEW c \in Clients, Connect(c)
  PROVE  TypeOK'
<1>1. /\ connected' = [connected EXCEPT ![c] = TRUE]
      /\ UNCHANGED <<users, cache, pending, taken, listening, push, asked, inbox, appVars, left>>
  BY DEF Connect
<1>2. \A d \in Clients : Observed(d)' = Observed(d)
  BY <1>1 DEF Observed, Waiting, appVars
<1>3. {connected', listening', profile', signedIn'} \subseteq [Clients -> BOOLEAN]
  BY <1>1 DEF TypeOK, appVars
<1> QED
  BY <1>1, <1>2, <1>3 DEF TypeOK, appVars

LEMMA TypeDisconnect ==
  ASSUME TypeOK, NEW c \in Clients, Disconnect(c)
  PROVE  TypeOK'
<1>1. /\ connected' = [connected EXCEPT ![c] = FALSE] /\ listening' = [listening EXCEPT ![c] = FALSE]
      /\ push' = [push EXCEPT ![c] = <<>>] /\ taken' = [taken EXCEPT ![c] = 0]
      /\ pending' = pending
      /\ left' \in [uses : Nat, logins : Nat, losses : Nat]
      /\ UNCHANGED <<users, cache, asked, inbox, appVars>>
  <2>1. pending' = pending
    BY DEF Disconnect, PendingAfterLoss, TypeOK
  <2> QED
    BY <2>1, LeftType DEF Disconnect
<1>2. \A d \in Clients : Observed(d)' = Observed(d)
  BY <1>1 DEF Observed, Waiting, appVars
<1>3. <<>> \in Seq(Message) /\ 0 \in Nat
  OBVIOUS
<1>4. \A d \in Clients : taken'[d] <= Len(pending'[d])
  <2>1. \A d \in Clients : taken[d] <= Len(pending[d]) /\ Len(pending[d]) \in Nat
    BY DEF TypeOK
  <2>2. \A m \in Nat : 0 <= m
    OBVIOUS
  <2> QED
    BY <1>1, <2>1, <2>2 DEF TypeOK
<1>5. push' \in [Clients -> Seq(Message)] /\ taken' \in [Clients -> Nat]
  BY <1>1, <1>3 DEF TypeOK
<1>6. {connected', listening', profile', signedIn'} \subseteq [Clients -> BOOLEAN]
  BY <1>1 DEF TypeOK, appVars
<1> QED
  BY <1>1, <1>2, <1>4, <1>5, <1>6 DEF TypeOK, appVars

LEMMA TypeListen ==
  ASSUME TypeOK, NEW c \in Clients, ServerListen(c)
  PROVE  TypeOK'
<1>1. /\ listening' = [listening EXCEPT ![c] = TRUE]
      /\ push' = [push EXCEPT ![c] = Append(@, [kind |-> "users", users |-> users])]
      /\ UNCHANGED <<users, cache, pending, taken, connected, asked, inbox, appVars, left>>
  BY DEF ServerListen
<1>2. \A d \in Clients : Observed(d)' = Observed(d)
  BY <1>1 DEF Observed, Waiting, appVars
<1>3. [kind |-> "users", users |-> users] \in Message
  BY DEF Message, TypeOK
<1>4. push' \in [Clients -> Seq(Message)]
  BY <1>1, <1>3 DEF TypeOK
<1> QED
  BY <1>1, <1>2, <1>4 DEF TypeOK, appVars
=============================================================================
