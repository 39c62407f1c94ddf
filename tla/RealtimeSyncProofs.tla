------------------------- MODULE RealtimeSyncProofs -------------------------
(***************************************************************************)
(* What the pipeline inside the SDK promises, proved for any number of     *)
(* clients, writes, lost connections and listens, and for a server that    *)
(* may take longer for a listen than for the puts behind it.               *)
(***************************************************************************)
EXTENDS RealtimeSyncSteps

-----------------------------------------------------------------------------
(***************************************************************************)
(* What is known when an answer takes effect                               *)
(***************************************************************************)
LEMMA EntryNumbers ==
  ASSUME TypeOK
  PROVE  \A e \in DOMAIN log : e \in Nat
<1>1. log \in Seq(Clients \X Nat)
  BY DEF TypeOK
<1> QED
  BY <1>1, Element

LEMMA KnownUnchanged ==
  ASSUME NEW c, KnownInv(c), down'[c] = down[c], log' = log, known'[c] = known[c],
         outstanding[c] \subseteq outstanding'[c], putsToAck'[c] = putsToAck[c],
         c \in listening' <=> c \in listening
  PROVE  KnownInv(c)'
<1>1. AscendingAts(c)'
  BY DEF KnownInv, AscendingAts
<1>2. EntriesKnown(c)'
  BY DEF KnownInv, EntriesKnown, Held
<1>3. PutsKnown(c)'
  BY DEF KnownInv, PutsKnown
<1>4. ListenKnown(c)'
  BY DEF KnownInv, ListenKnown, Answered
<1> QED
  BY <1>1, <1>2, <1>3, <1>4 DEF KnownInv

LEMMA DisconnectKnown ==
  ASSUME TypeOK, NEW c \in Clients, Disconnect(c), KnownInv(c)
  PROVE  KnownInv(c)'
<1>1. /\ down'[c] = <<>> /\ c \notin listening' /\ log' = log /\ known'[c] = known[c]
      /\ outstanding'[c] = outstanding[c] /\ putsToAck'[c] = putsToAck[c]
  BY DisconnectAt
<1>2. DOMAIN down'[c] = {}
  BY <1>1
<1>3. AscendingAts(c)' /\ PutsKnown(c)' /\ ListenKnown(c)'
  BY <1>2 DEF AscendingAts, PutsKnown, ListenKnown, Answered, ListensIn
<1>4. EntriesKnown(c)'
  BY <1>1 DEF KnownInv, EntriesKnown, Held
<1> QED
  BY <1>3, <1>4 DEF KnownInv

(* What stands in a channel still stands there when more is sent.          *)
LEMMA KnownExtended ==
  ASSUME NEW s, NEW t, Extends_(s, t)
  PROVE  /\ \A k, n : Confirms(t, k, n) => Confirms(s, k, n)
         /\ \A m, n : (\E j \in DOMAIN t : j < m /\ Brings(t[j], n))
                          => \E j \in DOMAIN s : j < m /\ Brings(s[j], n)
<1>1. DOMAIN t \subseteq DOMAIN s /\ \A j \in DOMAIN t : s[j] = t[j]
  BY DEF Extends_
<1>2. \A j \in ListensIn(t, "Products") : j \in ListensIn(s, "Products") /\ s[j] = t[j]
  BY <1>1 DEF ListensIn
<1> QED
  BY <1>1, <1>2 DEF Confirms

(* What stands behind the first message of a channel still stands there    *)
(* when that is received.                                                  *)
LEMMA KnownShifted ==
  ASSUME NEW s, NEW r, Removed(s, 1, r)
  PROVE  /\ \A m \in DOMAIN r : /\ m \in Nat \ {0} /\ m + 1 \in DOMAIN s
                                /\ r[m] = s[m + 1]
         /\ \A j \in DOMAIN s : j # 1 => /\ j \in Nat \ {0} /\ j - 1 \in DOMAIN r
                                        /\ r[j - 1] = s[j]
         /\ \A m \in DOMAIN r : \A n :
                (\E j \in DOMAIN s : j < m + 1 /\ Brings(s[j], n))
                    => Brings(s[1], n) \/ \E j \in DOMAIN r : j < m /\ Brings(r[j], n)
         /\ \A m \in Nat : \A n : Confirms(s, m + 1, n) => Confirms(r, m, n)
         /\ \A n : Confirms(s, 0, n) =>
                \/ IsListen(s[1], "Products") /\ n <= s[1].at
                \/ Confirms(r, 0, n)
<1>1. /\ DOMAIN s = 1..Len(s) /\ DOMAIN r = 1..(Len(s) - 1) /\ Len(s) \in Nat
      /\ \A k \in DOMAIN r : r[k] = s[k + 1]
  BY DEF Removed
<1>2. \A m \in DOMAIN r : m \in Nat \ {0} /\ m + 1 \in DOMAIN s /\ r[m] = s[m + 1]
  BY <1>1
<1>3. \A j \in DOMAIN s : j # 1 => j \in Nat \ {0} /\ j - 1 \in DOMAIN r /\ r[j - 1] = s[j]
  BY <1>1
<1>4. ASSUME NEW m \in DOMAIN r, NEW n, NEW j \in DOMAIN s, j < m + 1, Brings(s[j], n)
      PROVE  Brings(s[1], n) \/ \E i \in DOMAIN r : i < m /\ Brings(r[i], n)
  <2>1. CASE j = 1
    BY <1>4, <2>1
  <2>2. CASE j # 1
    <3>1. j - 1 \in DOMAIN r /\ r[j - 1] = s[j] /\ j - 1 < m
      BY <1>2, <1>3, <1>4, <2>2
    <3> QED
      BY <1>4, <3>1
  <2> QED
    BY <2>1, <2>2
<1>5. \A j \in ListensIn(s, "Products") :
          j # 1 => /\ j \in Nat \ {0} /\ j - 1 \in ListensIn(r, "Products")
                   /\ r[j - 1] = s[j]
  BY <1>3 DEF ListensIn
<1>6. ASSUME NEW m \in Nat, NEW n, Confirms(s, m + 1, n)
      PROVE  Confirms(r, m, n)
  <2>1. PICK j \in ListensIn(s, "Products") : j > m + 1 /\ n <= s[j].at
    BY <1>6 DEF Confirms
  <2>2. j # 1 /\ j - 1 > m
    BY <1>1, <2>1 DEF ListensIn
  <2> QED
    BY <1>5, <2>1, <2>2 DEF Confirms
<1>7. ASSUME NEW n, Confirms(s, 0, n)
      PROVE  (IsListen(s[1], "Products") /\ n <= s[1].at) \/ Confirms(r, 0, n)
  <2>1. PICK j \in ListensIn(s, "Products") : n <= s[j].at
    BY <1>7 DEF Confirms
  <2>2. CASE j = 1
    BY <2>1, <2>2 DEF ListensIn
  <2>3. CASE j # 1
    <3>1. j - 1 \in ListensIn(r, "Products") /\ r[j - 1] = s[j] /\ j - 1 > 0
      BY <1>5, <2>3, <1>1 DEF ListensIn
    <3> QED
      BY <2>1, <3>1 DEF Confirms
  <2> QED
    BY <2>2, <2>3
<1> QED
  BY <1>2, <1>3, <1>4, <1>6, <1>7

LEMMA ListenTakenKnown ==
  ASSUME TypeOK, NEW c \in Clients, NEW n \in DOMAIN up[c], ListenTaken(c, n), KnownInv(c)
  PROVE  KnownInv(c)'
<1> DEFINE r == up[c][n]
           a == ListenAnswer(r)
           s == down'[c]
           t == down[c]
<1>1. /\ r \in Request /\ r.kind = "listen" /\ r.node \in {"Products", "Users"}
      /\ c \in listening' <=> r.node = "Products" \/ c \in listening
      /\ outstanding'[c] = outstanding[c] /\ putsToAck'[c] = putsToAck[c]
      /\ known'[c] = known[c] /\ log' = log
  BY ListenTakenAt
<1>2. /\ Data.kind = "data" /\ Data.at = Len(log)
      /\ a.kind = "listen" /\ a.node = r.node /\ a.same = (r.hash = products) /\ a.at = Len(log)
  BY <1>1, ListenAnswerType
<1>3. /\ Answers(s, t, Data, a, r.node) /\ Len(s) \in Nat
      /\ r.node # "Users" /\ r.hash # products =>
             Len(s) - 1 \in DOMAIN s \ DOMAIN t /\ s[Len(s) - 1] = Data
  BY AnswersSent
<1>4. /\ Extends_(s, t) /\ Len(s) \in DOMAIN s \ DOMAIN t /\ s[Len(s)] = a
      /\ \A m \in DOMAIN s \ DOMAIN t : s[m] \in {Data, a}
      /\ ListensIn(s, r.node) = ListensIn(t, r.node) \cup {Len(s)}
      /\ \A other : other # r.node => ListensIn(s, other) = ListensIn(t, other)
  BY <1>3 DEF Answers
<1>5. /\ DOMAIN t \subseteq DOMAIN s /\ DOMAIN s \subseteq Nat \ {0}
      /\ \A m \in DOMAIN t : s[m] = t[m]
      /\ \A m \in DOMAIN s \ DOMAIN t, j \in DOMAIN t : j < m
  BY <1>4 DEF Extends_
<1>6. known[c] \in Nat /\ known[c] <= Len(log) /\ Len(log) \in Nat /\ DOMAIN log = 1..Len(log)
  BY ClientTypes DEF TypeOK
<1>7. /\ \A k, e : Confirms(t, k, e) => Confirms(s, k, e)
      /\ \A m, e : (\E j \in DOMAIN t : j < m /\ Brings(t[j], e))
                          => \E j \in DOMAIN s : j < m /\ Brings(s[j], e)
  BY <1>4, KnownExtended
<1>8. /\ AscendingAts(c) /\ EntriesKnown(c) /\ PutsKnown(c) /\ ListenKnown(c)
  BY DEF KnownInv
<1> HIDE DEF r, a, s
<1>9. AscendingAts(c)'
  <2>1. \A m \in DOMAIN s \ DOMAIN t : s[m].at = Len(log)
    BY <1>2, <1>4
  <2>2. \A m \in DOMAIN t : t[m].kind # "put" => known[c] <= t[m].at /\ t[m].at <= Len(log)
    BY <1>8 DEF AscendingAts
  <2>3. \A m \in DOMAIN s : s[m].kind # "put" => known[c] <= s[m].at /\ s[m].at <= Len(log)
    BY <1>5, <1>6, <2>1, <2>2
  <2>4. ASSUME NEW m \in DOMAIN s, NEW j \in DOMAIN s, s[m].kind # "put", s[j].kind # "put", j < m
        PROVE  s[j].at <= s[m].at
    <3>1. CASE m \in DOMAIN t
      <4>1. j \in DOMAIN t
        BY <1>5, <2>4, <3>1
      <4> QED
        BY <1>5, <1>8, <2>4, <3>1, <4>1 DEF AscendingAts
    <3>2. CASE m \notin DOMAIN t
      BY <2>1, <2>3, <2>4, <3>2
    <3> QED
      BY <3>1, <3>2
  <2> QED
    BY <1>1, <2>3, <2>4 DEF AscendingAts, s
<1>10. EntriesKnown(c)'
  <2> SUFFICES ASSUME NEW e \in DOMAIN log, log[e][1] = c, ~(e <= known[c]),
                      log[e][2] \notin outstanding[c]
               PROVE  log[e][2] \in Held(c) /\ (c \in listening' => Confirms(s, 0, e))
    BY <1>1 DEF EntriesKnown, Held, s
  <2>1. log[e][2] \in Held(c) /\ (c \in listening => Confirms(t, 0, e))
    BY <1>8 DEF EntriesKnown
  <2>2. ASSUME r.node = "Products"
        PROVE  Confirms(s, 0, e)
    BY <1>2, <1>4, <1>5, <1>6, <2>2 DEF Confirms
  <2> QED
    BY <1>1, <1>7, <2>1, <2>2
<1>11. PutsKnown(c)'
  <2> SUFFICES ASSUME NEW e \in DOMAIN log, NEW m \in DOMAIN s, log[e][1] = c,
                      s[m].kind = "put", s[m].number = log[e][2]
               PROVE  \/ e <= known[c]
                      \/ c \notin listening'
                      \/ \E j \in DOMAIN s : j < m /\ Brings(s[j], e)
                      \/ Confirms(s, m, e)
    BY <1>1 DEF PutsKnown, s
  <2>1. m \in DOMAIN t /\ t[m] = s[m]
    BY <1>2, <1>4, <1>5
  <2>2. \/ e <= known[c]
        \/ c \notin listening
        \/ \E j \in DOMAIN t : j < m /\ Brings(t[j], e)
        \/ Confirms(t, m, e)
    BY <1>8, <2>1 DEF PutsKnown
  <2>3. ASSUME r.node = "Products"
        PROVE  Confirms(s, m, e)
    BY <1>2, <1>4, <1>5, <1>6, <2>1, <2>3 DEF Confirms
  <2> QED
    BY <1>1, <1>7, <2>2, <2>3
<1>12. ListenKnown(c)'
  <2> SUFFICES ASSUME NEW m \in ListensIn(s, "Products")
               PROVE  \/ s[m].same
                      \/ s[m].at <= known[c]
                      \/ \E j \in DOMAIN s : j < m /\ Brings(s[j], s[m].at)
    BY <1>1 DEF ListenKnown, Answered, s
  <2>1. CASE m \in ListensIn(t, "Products")
    <3>1. t[m] = s[m]
      BY <1>5, <2>1 DEF ListensIn
    <3>2. \/ t[m].same
          \/ t[m].at <= known[c]
          \/ \E j \in DOMAIN t : j < m /\ Brings(t[j], t[m].at)
      BY <1>8, <2>1 DEF ListenKnown, Answered
    <3> QED
      BY <1>7, <3>1, <3>2
  <2>2. CASE m \notin ListensIn(t, "Products")
    <3>1. r.node = "Products" /\ m = Len(s)
      BY <1>4, <2>2
    <3>2. CASE r.hash = products
      BY <1>2, <1>4, <3>1, <3>2
    <3>3. CASE r.hash # products
      <4>1. Len(s) - 1 \in DOMAIN s /\ s[Len(s) - 1] = Data
        BY <1>3, <3>1, <3>3 DEF s
      <4>2. Brings(Data, s[m].at)
        BY <1>2, <1>4, <1>6, <3>1 DEF Brings
      <4> QED
        BY <1>3, <3>1, <4>1, <4>2 DEF s
    <3> QED
      BY <3>2, <3>3
  <2> QED
    BY <2>1, <2>2
<1> QED
  BY <1>9, <1>10, <1>11, <1>12 DEF KnownInv

(* What the server sends to a client d when it takes a put of c.           *)
LEMMA PutsSent ==
  ASSUME TypeOK, NEW c \in Clients, NEW n \in DOMAIN up[c], PutTaken(c, n), NEW d \in Clients
  PROVE  LET u == Update(c, up[c][n])
             a == PutAnswer(up[c][n])
             s == down'[d]
             t == down[d]
         IN  /\ Extends_(s, t)
             /\ \A m \in DOMAIN s \ DOMAIN t : s[m] = u \/ (d = c /\ s[m] = a)
             /\ d \in listening => \E j \in DOMAIN s \ DOMAIN t :
                    /\ s[j] = u
                    /\ \A m \in DOMAIN s \ DOMAIN t : m # j => j < m
             /\ \A node : ListensIn(s, node) = ListensIn(t, node)
<1> DEFINE r == up[c][n]
           u == Update(c, r)
           a == PutAnswer(r)
           t == down[d]
           told == IF d \in listening THEN Append(t, u) ELSE t
           s == down'[d]
<1>1. /\ r \in Request /\ r.kind = "put"
      /\ s = IF d = c THEN Append(told, a) ELSE told
  BY PutTakenAt
<1>2. /\ u \in Answer /\ a \in Answer /\ u.kind = "update" /\ a.kind = "put"
      /\ t \in Seq(Answer)
  BY <1>1, UpdateType, ClientTypes
<1> HIDE DEF u, a, t, s
<1>3. \A node : ~IsListen(u, node) /\ ~IsListen(a, node)
  BY <1>2 DEF IsListen
<1>4. /\ told \in Seq(Answer) /\ Extends_(told, t)
      /\ \A m \in DOMAIN told \ DOMAIN t : told[m] = u
      /\ d \in listening => \E j \in DOMAIN told \ DOMAIN t :
             told[j] = u /\ \A m \in DOMAIN told \ DOMAIN t : m = j
      /\ \A node : ListensIn(told, node) = ListensIn(t, node)
  <2>1. CASE d \in listening
    <3>1. told = Append(t, u)
      BY <2>1
    <3> HIDE DEF told
    <3>2. /\ Extends_(told, t)
          /\ \A m \in DOMAIN told \ DOMAIN t : m = Len(t) + 1 /\ told[m] = u
          /\ Len(t) + 1 \in DOMAIN told \ DOMAIN t
      BY <1>2, <3>1, AppendedExtends
    <3>3. told \in Seq(Answer) /\ \A node : ListensIn(told, node) = ListensIn(t, node)
      BY <1>2, <1>3, <3>1, Appended, ListensAppended
    <3> QED
      BY <3>2, <3>3
  <2>2. CASE d \notin listening
    <3>1. told = t
      BY <2>2
    <3>2. Extends_(t, t)
      BY <1>2, Element DEF Extends_
    <3> QED
      BY <1>2, <2>2, <3>1, <3>2
  <2> QED
    BY <2>1, <2>2
<1> HIDE DEF told
<1>5. CASE d = c
  <2>1. s = Append(told, a)
    BY <1>1, <1>5
  <2>2. /\ Extends_(s, told)
        /\ \A m \in DOMAIN s \ DOMAIN told : m = Len(told) + 1 /\ s[m] = a
    BY <1>2, <1>4, <2>1, AppendedExtends
  <2>3. \A node : ListensIn(s, node) = ListensIn(told, node)
    BY <1>2, <1>3, <1>4, <2>1, ListensAppended
  <2>4. Extends_(s, t)
    BY <1>4, <2>2, ExtendsTwice
  <2>5. \A m \in DOMAIN s \ DOMAIN t : s[m] = u \/ s[m] = a
    BY <1>4, <2>2 DEF Extends_
  <2>6. ASSUME d \in listening
        PROVE  \E j \in DOMAIN s \ DOMAIN t :
                   s[j] = u /\ \A m \in DOMAIN s \ DOMAIN t : m # j => j < m
    <3>1. PICK j \in DOMAIN told \ DOMAIN t :
             told[j] = u /\ \A m \in DOMAIN told \ DOMAIN t : m = j
      BY <1>4, <2>6
    <3>2. j \in DOMAIN s \ DOMAIN t /\ s[j] = u
      BY <2>2, <3>1 DEF Extends_
    <3>3. \A m \in DOMAIN s \ DOMAIN t : m # j => j < m
      BY <2>2, <3>1 DEF Extends_
    <3> QED
      BY <3>2, <3>3
  <2> QED
    BY <1>4, <1>5, <2>3, <2>4, <2>5, <2>6 DEF s, t, u, a, r
<1>6. CASE d # c
  <2>1. s = told
    BY <1>1, <1>6
  <2> QED
    BY <1>4, <1>6, <2>1 DEF s, t, u, a, r
<1> QED
  BY <1>5, <1>6

LEMMA PutTakenKnown ==
  ASSUME TypeOK, NEW c \in Clients, NEW n \in DOMAIN up[c], PutTaken(c, n), PutsInv(c),
         NEW d \in Clients, KnownInv(d)
  PROVE  KnownInv(d)'
<1> DEFINE r == up[c][n]
           k == r.number
           u == Update(c, r)
           a == PutAnswer(r)
           s == down'[d]
           t == down[d]
           L == Len(log)
<1>1. /\ r \in Request /\ r.kind = "put" /\ k \in Nat
      /\ log' = Append(log, <<c, k>>)
      /\ UNCHANGED <<listening, outstanding, putsToAck, known>>
  BY PutTakenAt
<1>2. u.kind = "update" /\ u.at = L + 1 /\ a.kind = "put" /\ a.number = k
  BY <1>1, UpdateType
<1>3. /\ Extends_(s, t)
      /\ \A m \in DOMAIN s \ DOMAIN t : s[m] = u \/ (d = c /\ s[m] = a)
      /\ d \in listening => \E j \in DOMAIN s \ DOMAIN t :
             /\ s[j] = u
             /\ \A m \in DOMAIN s \ DOMAIN t : m # j => j < m
      /\ ListensIn(s, "Products") = ListensIn(t, "Products")
  BY PutsSent
<1>4. /\ DOMAIN t \subseteq DOMAIN s /\ DOMAIN s \subseteq Nat \ {0}
      /\ \A m \in DOMAIN t : s[m] = t[m]
      /\ \A m \in DOMAIN s \ DOMAIN t, j \in DOMAIN t : j < m
  BY <1>3 DEF Extends_
<1>5. known[d] \in Nat /\ known[d] <= L /\ L \in Nat
  BY ClientTypes
<1>6. /\ DOMAIN log' = DOMAIN log \cup {L + 1} /\ log'[L + 1] = <<c, k>> /\ Len(log') = L + 1
      /\ \A m \in DOMAIN log : m \in Nat /\ m < L + 1 /\ log'[m] = log[m]
  <2>1. log \in Seq(Clients \X Nat) /\ <<c, k>> \in Clients \X Nat
    BY <1>1 DEF TypeOK
  <2> QED
    BY <1>1, <2>1, Appended
<1>7. k \in outstanding[c] /\ \A j \in Puts(down[c]) : j < k
  BY FirstPut
<1>8. /\ \A j, e : Confirms(t, j, e) => Confirms(s, j, e)
      /\ \A m, e : (\E j \in DOMAIN t : j < m /\ Brings(t[j], e))
                          => \E j \in DOMAIN s : j < m /\ Brings(s[j], e)
  BY <1>3, KnownExtended
<1>9. AscendingAts(d) /\ EntriesKnown(d) /\ PutsKnown(d) /\ ListenKnown(d)
  BY DEF KnownInv
<1> HIDE DEF r, u, a, s, k, L
<1>10. AscendingAts(d)'
  <2>1. \A m \in DOMAIN s \ DOMAIN t : s[m].kind # "put" => s[m].at = L + 1
    BY <1>2, <1>3
  <2>2. \A m \in DOMAIN t : t[m].kind # "put" => known[d] <= t[m].at /\ t[m].at <= L
    BY <1>9 DEF AscendingAts, L
  <2>6. \A m \in DOMAIN down[d] : down[d][m].kind # "put" => down[d][m].at \in Nat
    BY ClientTypes, Element, AnswerCases
  <2>3. \A m \in DOMAIN s : s[m].kind # "put" => known[d] <= s[m].at /\ s[m].at <= L + 1
    BY <1>4, <1>5, <2>1, <2>2, <2>6
  <2>4. ASSUME NEW m \in DOMAIN s, NEW j \in DOMAIN s, s[m].kind # "put", s[j].kind # "put", j < m
        PROVE  s[j].at <= s[m].at
    <3>1. CASE m \in DOMAIN t
      <4>1. j \in DOMAIN t
        BY <1>4, <2>4, <3>1
      <4> QED
        BY <1>4, <1>9, <2>4, <3>1, <4>1 DEF AscendingAts
    <3>2. CASE m \notin DOMAIN t
      BY <2>1, <2>3, <2>4, <3>2
    <3> QED
      BY <3>1, <3>2
  <2> QED
    BY <1>1, <1>6, <2>3, <2>4 DEF AscendingAts, s
<1>11. EntriesKnown(d)'
  <2> SUFFICES ASSUME NEW e \in DOMAIN log', log'[e][1] = d, ~(e <= known[d]),
                      log'[e][2] \notin outstanding[d]
               PROVE  log'[e][2] \in Held(d) /\ (d \in listening => Confirms(s, 0, e))
    BY <1>1 DEF EntriesKnown, Held, s
  <2>1. e # L + 1
    BY <1>6, <1>7
  <2>2. e \in DOMAIN log /\ log'[e] = log[e]
    BY <1>6, <2>1
  <2>3. log[e][2] \in Held(d) /\ (d \in listening => Confirms(t, 0, e))
    BY <1>9, <2>2 DEF EntriesKnown
  <2> QED
    BY <1>8, <2>2, <2>3
<1>12. PutsKnown(d)'
  <2> SUFFICES ASSUME NEW e \in DOMAIN log', NEW m \in DOMAIN s, log'[e][1] = d,
                      s[m].kind = "put", s[m].number = log'[e][2], d \in listening
               PROVE  \/ e <= known[d]
                      \/ \E j \in DOMAIN s : j < m /\ Brings(s[j], e)
                      \/ Confirms(s, m, e)
    BY <1>1 DEF PutsKnown, s
  <2>1. CASE m \in DOMAIN t
    <3>1. t[m] = s[m]
      BY <1>4, <2>1
    <3>2. e # L + 1
      <4> SUFFICES ASSUME e = L + 1
                   PROVE  FALSE
        OBVIOUS
      <4>1. d = c /\ s[m].number = k
        BY <1>6
      <4>2. m \in PutsAt(down[c]) /\ down[c][m].number = k
        BY <2>1, <3>1, <4>1 DEF PutsAt
      <4>3. k \in Puts(down[c])
        BY <4>2, PutsOf
      <4> QED
        BY <1>1, <1>7, <4>3
    <3>3. e \in DOMAIN log /\ log'[e] = log[e]
      BY <1>6, <3>2
    <3>4. \/ e <= known[d]
          \/ \E j \in DOMAIN t : j < m /\ Brings(t[j], e)
          \/ Confirms(t, m, e)
      BY <1>9, <2>1, <3>1, <3>3 DEF PutsKnown
    <3> QED
      BY <1>8, <3>4
  <2>2. CASE m \notin DOMAIN t
    <3>1. PICK j \in DOMAIN s \ DOMAIN t :
             s[j] = u /\ \A i \in DOMAIN s \ DOMAIN t : i # j => j < i
      BY <1>3
    <3>2. j < m
      BY <1>2, <2>2, <3>1
    <3>3. e <= L + 1
      BY <1>5, <1>6
    <3>4. Brings(s[j], e)
      BY <1>2, <3>1, <3>3 DEF Brings
    <3> QED
      BY <3>2, <3>4
  <2> QED
    BY <2>1, <2>2
<1>13. ListenKnown(d)'
  <2> SUFFICES ASSUME NEW m \in ListensIn(t, "Products")
               PROVE  \/ s[m].same
                      \/ s[m].at <= known[d]
                      \/ \E j \in DOMAIN s : j < m /\ Brings(s[j], s[m].at)
    BY <1>1, <1>3 DEF ListenKnown, Answered, s
  <2>1. t[m] = s[m]
    BY <1>4 DEF ListensIn
  <2>2. \/ t[m].same
        \/ t[m].at <= known[d]
        \/ \E j \in DOMAIN t : j < m /\ Brings(t[j], t[m].at)
    BY <1>9 DEF ListenKnown, Answered
  <2> QED
    BY <1>8, <2>1, <2>2
<1> QED
  BY <1>10, <1>11, <1>12, <1>13 DEF KnownInv

(* The first message arrives: what it brings is known.                     *)
LEMMA ArrivedKnown ==
  ASSUME TypeOK, NEW c \in Clients, KnownInv(c), 1 \in DOMAIN down[c],
         Removed(down[c], 1, down'[c]), log' = log, listening' = listening,
         known'[c] \in Nat, known[c] <= known'[c],
         IF down[c][1].kind = "put" THEN known'[c] = known[c] ELSE known'[c] <= down[c][1].at,
         \A e : Brings(down[c][1], e) => e <= known'[c],
         EntriesKnown(c)'
  PROVE  KnownInv(c)'
<1> DEFINE s == down[c]
           r == down'[c]
           old == known[c]
           new == known'[c]
<1>1. /\ \A m \in DOMAIN r : m \in Nat \ {0} /\ m + 1 \in DOMAIN s /\ r[m] = s[m + 1]
      /\ \A m \in DOMAIN r : \A e :
             (\E j \in DOMAIN s : j < m + 1 /\ Brings(s[j], e))
                 => Brings(s[1], e) \/ \E j \in DOMAIN r : j < m /\ Brings(r[j], e)
      /\ \A m \in Nat : \A e : Confirms(s, m + 1, e) => Confirms(r, m, e)
  BY KnownShifted
<1>2. AscendingAts(c) /\ PutsKnown(c) /\ ListenKnown(c)
  BY DEF KnownInv
<1>3. old \in Nat /\ new \in Nat /\ old <= new
  BY ClientTypes
<1>4. \A m \in DOMAIN s : s[m].kind # "put" => s[m].at \in Nat
  BY ClientTypes, Element, AnswerCases
<1>5. \A e : Brings(s[1], e) => e <= new
  OBVIOUS
<1>6. \A e \in DOMAIN log : e \in Nat
  BY EntryNumbers
<1>7. s[1].kind # "put" => new <= s[1].at
  OBVIOUS
<1>8. s[1].kind = "put" => new = old
  OBVIOUS
<1> HIDE DEF s, r, old, new
<1>9. AscendingAts(c)'
  <2>1. ASSUME NEW m \in DOMAIN r, r[m].kind # "put"
        PROVE  new <= r[m].at /\ r[m].at <= Len(log)
    <3>1. m + 1 \in DOMAIN s /\ r[m] = s[m + 1] /\ 1 < m + 1 /\ 1 \in DOMAIN s
      BY <1>1 DEF s
    <3>2. /\ old <= s[m + 1].at /\ s[m + 1].at <= Len(log)
          /\ s[1].kind # "put" => s[1].at <= s[m + 1].at
      BY <1>2, <2>1, <3>1 DEF AscendingAts, s, old
    <3>3. CASE s[1].kind = "put"
      BY <1>8, <3>1, <3>2, <3>3
    <3>4. CASE s[1].kind # "put"
      <4>1. s[1].at \in Nat /\ s[m + 1].at \in Nat
        BY <1>4, <2>1, <3>1, <3>4
      <4> QED
        BY <1>3, <1>7, <3>1, <3>2, <3>4, <4>1
    <3> QED
      BY <3>3, <3>4
  <2>2. ASSUME NEW m \in DOMAIN r, NEW j \in DOMAIN r, r[m].kind # "put", r[j].kind # "put", j < m
        PROVE  r[j].at <= r[m].at
    <3>1. /\ m + 1 \in DOMAIN s /\ j + 1 \in DOMAIN s /\ j + 1 < m + 1
          /\ r[m] = s[m + 1] /\ r[j] = s[j + 1]
      BY <1>1, <2>2
    <3> QED
      BY <1>2, <2>2, <3>1 DEF AscendingAts, s
  <2> QED
    BY <2>1, <2>2 DEF AscendingAts, r, new
<1>10. PutsKnown(c)'
  <2> SUFFICES ASSUME NEW e \in DOMAIN log, NEW m \in DOMAIN r, log[e][1] = c,
                      r[m].kind = "put", r[m].number = log[e][2]
               PROVE  \/ e <= new
                      \/ c \notin listening
                      \/ \E j \in DOMAIN r : j < m /\ Brings(r[j], e)
                      \/ Confirms(r, m, e)
    BY DEF PutsKnown, r, new
  <2>1. m + 1 \in DOMAIN s /\ r[m] = s[m + 1] /\ m \in Nat
    BY <1>1
  <2>2. \/ e <= old
        \/ c \notin listening
        \/ \E j \in DOMAIN s : j < m + 1 /\ Brings(s[j], e)
        \/ Confirms(s, m + 1, e)
    BY <1>2, <2>1 DEF PutsKnown, s, old
  <2>3. e <= old => e <= new
    BY <1>3, <1>6
  <2> QED
    BY <1>1, <1>5, <2>1, <2>2, <2>3
<1>11. ListenKnown(c)'
  <2> SUFFICES ASSUME NEW m \in ListensIn(r, "Products")
               PROVE  \/ r[m].same
                      \/ r[m].at <= new
                      \/ \E j \in DOMAIN r : j < m /\ Brings(r[j], r[m].at)
    BY DEF ListenKnown, Answered, r, new
  <2>1. m \in DOMAIN r /\ m + 1 \in ListensIn(s, "Products") /\ r[m] = s[m + 1]
    BY <1>1 DEF ListensIn
  <2>2. \/ s[m + 1].same
        \/ s[m + 1].at <= old
        \/ \E j \in DOMAIN s : j < m + 1 /\ Brings(s[j], s[m + 1].at)
    BY <1>2, <2>1 DEF ListenKnown, Answered, s, old
  <2>3. s[m + 1].at <= old => s[m + 1].at <= new
    <3>1. s[m + 1].at \in Nat
      BY <1>4, <2>1 DEF ListensIn, IsListen
    <3> QED
      BY <1>3, <3>1
  <2> QED
    BY <1>1, <1>5, <2>1, <2>2, <2>3
<1> QED
  BY <1>9, <1>10, <1>11 DEF KnownInv

LEMMA LearnedKnown ==
  ASSUME TypeOK, NEW c \in Clients, NEW kind, Arrives(c, kind), Learned(c), KnownInv(c)
  PROVE  KnownInv(c)'
<1> DEFINE m == down[c][1]
<1>1. /\ m \in Answer /\ m.kind \in {"data", "update"} /\ 1 \in DOMAIN down[c]
      /\ Removed(down[c], 1, down'[c])
      /\ known'[c] = m.at
      /\ outstanding'[c] = outstanding[c] /\ putsToAck'[c] = putsToAck[c]
      /\ listening' = listening /\ log' = log
  BY LearnedAt
<1>2. m.at \in Nat
  BY <1>1, AnswerCases
<1>3. known[c] <= m.at /\ known[c] \in Nat
  BY <1>1, ClientTypes DEF KnownInv, AscendingAts
<1>4. EntriesKnown(c)'
  <2> SUFFICES ASSUME NEW e \in DOMAIN log, log[e][1] = c, ~(e <= m.at),
                      log[e][2] \notin outstanding[c]
               PROVE  log[e][2] \in Held(c) /\ (c \in listening => Confirms(down'[c], 0, e))
    BY <1>1 DEF EntriesKnown, Held
  <2>1. e \in Nat
    BY EntryNumbers
  <2>2. ~(e <= known[c])
    BY <1>2, <1>3, <2>1
  <2>3. log[e][2] \in Held(c) /\ (c \in listening => Confirms(down[c], 0, e))
    BY <2>2 DEF KnownInv, EntriesKnown
  <2>4. ~IsListen(m, "Products")
    BY <1>1 DEF IsListen
  <2> QED
    BY <1>1, <2>3, <2>4, KnownShifted
<1>5. \A e : Brings(m, e) => e <= known'[c]
  BY <1>1 DEF Brings
<1>6. IF m.kind = "put" THEN known'[c] = known[c] ELSE known'[c] <= m.at
  BY <1>1, <1>2
<1> QED
  BY <1>1, <1>2, <1>3, <1>4, <1>5, <1>6, ArrivedKnown

LEMMA ListenAnsweredKnown ==
  ASSUME TypeOK, NEW c \in Clients, Arrives(c, "listen"), ListenAnswered(c),
         KnownInv(c), ListensInv(c)
  PROVE  KnownInv(c)'
<1> DEFINE m == down[c][1]
           new == known'[c]
<1>1. /\ m \in Answer /\ m.kind = "listen" /\ m.node \in {"Products", "Users"}
      /\ 1 \in DOMAIN down[c] /\ Removed(down[c], 1, down'[c])
      /\ putsToAck'[c] = IF unacked[c] = 1 THEN <<>> ELSE putsToAck[c]
      /\ known'[c] = IF m.node # "Users" /\ m.same THEN m.at ELSE known[c]
      /\ outstanding'[c] = outstanding[c]
      /\ listening' = listening /\ log' = log
  BY ListenAnsweredAt
<1>2. m.at \in Nat /\ known[c] \in Nat /\ known[c] <= m.at
  BY <1>1, AnswerCases, ClientTypes DEF KnownInv, AscendingAts
<1>3. new \in Nat /\ known[c] <= new /\ new <= m.at
  BY <1>1, <1>2
<1>4. connected[c]
  BY <1>1 DEF ListensInv
<1>5. AtMostOnce(c, "Products")
  BY DEF ListensInv
<1>6. \A e \in DOMAIN log : e \in Nat
  BY EntryNumbers
<1>7. \A e \in DOMAIN log : m.node = "Products" /\ e <= m.at => e <= new
  <2> SUFFICES ASSUME NEW e \in DOMAIN log, m.node = "Products", e <= m.at
               PROVE  e <= new
    OBVIOUS
  <2>1. CASE m.same
    BY <1>1, <2>1
  <2>2. CASE ~m.same
    <3>1. 1 \in Answered(c, "Products")
      BY <1>1 DEF Answered, ListensIn, IsListen
    <3>2. \A j \in DOMAIN down[c] : ~(j < 1)
      BY ClientTypes, Element
    <3>3. m.at <= known[c]
      BY <2>2, <3>1, <3>2 DEF KnownInv, ListenKnown
    <3> QED
      BY <1>2, <1>3, <1>6, <3>3
  <2> QED
    BY <2>1, <2>2
<1>8. IsListen(m, "Products") <=> m.node = "Products"
  BY <1>1 DEF IsListen
<1>9. EntriesKnown(c)'
  <2> SUFFICES ASSUME NEW e \in DOMAIN log, log[e][1] = c, ~(e <= new),
                      log[e][2] \notin outstanding[c]
               PROVE  log[e][2] \in Held(c)' /\ (c \in listening => Confirms(down'[c], 0, e))
    BY <1>1 DEF EntriesKnown
  <2>1. ~(e <= known[c])
    BY <1>2, <1>3, <1>6
  <2>2. log[e][2] \in Held(c) /\ (c \in listening => Confirms(down[c], 0, e))
    BY <2>1 DEF KnownInv, EntriesKnown
  <2>3. Confirms(down[c], 0, e) => Confirms(down'[c], 0, e)
    BY <1>1, <1>7, <1>8, KnownShifted
  <2>4. unacked[c] # 1
    <3> SUFFICES ASSUME unacked[c] = 1
                 PROVE  FALSE
      OBVIOUS
    <3>1. Sent(c, "Products") = {} /\ \A j \in Answered(c, "Products") : j = 1 /\ m.node = "Products"
      <4>1. CASE m.node = "Products"
        <5>1. 1 \in Answered(c, "Products")
          BY <1>1, <1>8, <4>1 DEF Answered, ListensIn
        <5> QED
          BY <1>5, <4>1, <5>1 DEF AtMostOnce
      <4>2. CASE m.node = "Users"
        <5>1. InFlight(c, "Users")
          BY <1>1, <4>2 DEF InFlight, Answered, ListensIn, IsListen
        <5>2. ~InFlight(c, "Products")
          BY <5>1 DEF ListensInv
        <5> QED
          BY <5>2 DEF InFlight
      <4> QED
        BY <1>1, <4>1, <4>2
    <3>2. c \in listening
      BY <1>4, <3>1 DEF ListensInv
    <3>3. PICK j \in Answered(c, "Products") : e <= down[c][j].at
      BY <2>2, <3>2 DEF Confirms, Answered
    <3> QED
      BY <1>7, <3>1, <3>3
  <2> QED
    BY <1>1, <2>2, <2>3, <2>4 DEF Held
<1>10. \A e : Brings(m, e) => e <= new
  BY <1>1, <1>8 DEF Brings
<1>11. IF m.kind = "put" THEN known'[c] = known[c] ELSE known'[c] <= m.at
  BY <1>1, <1>3
<1> QED
  BY <1>1, <1>3, <1>9, <1>10, <1>11, ArrivedKnown

LEMMA HeldAppended ==
  ASSUME TypeOK, NEW c \in Clients, Arrives(c, "put"), PutAnswered(c)
  PROVE  /\ Held(c) \subseteq Held(c)'
         /\ unacked[c] # 0 => down[c][1].number \in Held(c)'
<1> DEFINE k == down[c][1].number
           q == Append(putsToAck[c], k)
<1>1. /\ k \in Nat
      /\ putsToAck'[c] = IF unacked[c] = 0 THEN putsToAck[c] ELSE q
  BY PutAnsweredAt
<1>2. putsToAck[c] \in Seq(Nat)
  BY ClientTypes
<1> HIDE DEF k
<1>3. /\ DOMAIN q = DOMAIN putsToAck[c] \cup {Len(putsToAck[c]) + 1}
      /\ q[Len(putsToAck[c]) + 1] = k
      /\ \A n \in DOMAIN putsToAck[c] : q[n] = putsToAck[c][n]
  BY <1>1, <1>2, Appended
<1> HIDE DEF q
<1>4. ToSet(q) = ToSet(putsToAck[c]) \cup {k}
  BY <1>3 DEF ToSet
<1>5. CASE unacked[c] = 0
  BY <1>1, <1>5 DEF Held
<1>6. CASE unacked[c] # 0
  BY <1>1, <1>4, <1>6 DEF Held, k
<1> QED
  BY <1>5, <1>6

LEMMA PutAnsweredKnown ==
  ASSUME TypeOK, NEW c \in Clients, Arrives(c, "put"), PutAnswered(c),
         KnownInv(c), ListensInv(c)
  PROVE  KnownInv(c)'
<1> DEFINE m == down[c][1]
           k == m.number
<1>1. /\ m \in Answer /\ m.kind = "put" /\ k \in Nat
      /\ 1 \in DOMAIN down[c] /\ Removed(down[c], 1, down'[c])
      /\ outstanding'[c] = outstanding[c] \ {k}
      /\ known'[c] = known[c] /\ listening' = listening /\ log' = log
  BY PutAnsweredAt
<1>2. Held(c) \subseteq Held(c)' /\ (unacked[c] # 0 => k \in Held(c)')
  BY HeldAppended
<1>3. connected[c]
  BY <1>1 DEF ListensInv
<1>4. InFlight(c, "Products") => unacked[c] # 0
  <2>1. unacked[c] = (IF InFlight(c, "Products") THEN 1 ELSE 0)
                       + (IF InFlight(c, "Users") THEN 1 ELSE 0)
    BY DEF ListensInv
  <2> QED
    BY <2>1
<1>5. ~IsListen(m, "Products")
  BY <1>1 DEF IsListen
<1>6. /\ \A e : Confirms(down[c], 0, e) => Confirms(down'[c], 0, e)
      /\ \A e : Confirms(down[c], 0 + 1, e) => Confirms(down'[c], 0, e)
  BY <1>1, <1>5, KnownShifted
<1>7. EntriesKnown(c)'
  <2> SUFFICES ASSUME NEW e \in DOMAIN log, log[e][1] = c, ~(e <= known[c]),
                      log[e][2] \notin outstanding[c] \ {k}
               PROVE  log[e][2] \in Held(c)' /\ (c \in listening => Confirms(down'[c], 0, e))
    BY <1>1 DEF EntriesKnown
  <2>1. CASE log[e][2] \in outstanding[c]
    <3>1. log[e][2] = k
      BY <2>1
    <3>2. \A j \in DOMAIN down[c] : ~(j < 1)
      BY ClientTypes, Element
    <3>3. c \notin listening \/ Confirms(down[c], 1, e)
      BY <1>1, <3>1, <3>2 DEF KnownInv, PutsKnown
    <3>4. InFlight(c, "Products")
      <4>1. CASE c \notin listening
        BY <1>3, <4>1 DEF ListensInv, InFlight
      <4>2. CASE Confirms(down[c], 1, e)
        BY <4>2 DEF Confirms, InFlight, Answered
      <4> QED
        BY <3>3, <4>1, <4>2
    <3> QED
      BY <1>2, <1>4, <1>6, <3>1, <3>3, <3>4
  <2>2. CASE log[e][2] \notin outstanding[c]
    <3>1. log[e][2] \in Held(c) /\ (c \in listening => Confirms(down[c], 0, e))
      BY <2>2 DEF KnownInv, EntriesKnown
    <3> QED
      BY <1>2, <1>6, <3>1
  <2> QED
    BY <2>1, <2>2
<1>8. \A e : ~Brings(m, e)
  BY <1>1, <1>5 DEF Brings
<1>9. known[c] \in Nat
  BY ClientTypes
<1> QED
  BY <1>1, <1>7, <1>8, <1>9, ArrivedKnown

-----------------------------------------------------------------------------
(***************************************************************************)
(* What is in the cache, or on its way to it                               *)
(***************************************************************************)
LEMMA CacheUnchanged ==
  ASSUME NEW c, CacheInv(c), down'[c] = down[c], connected'[c] = connected[c],
         serverCache'[c] = serverCache[c], complete'[c] = complete[c],
         products' = products, c \in listening' <=> c \in listening,
         Sent(c, "Products")' = Sent(c, "Products"),
         \A n \in Sent(c, "Products") : up'[c][n] = up[c][n]
  PROVE  CacheInv(c)'
<1>1. InFlight(c, "Products")' <=> InFlight(c, "Products")
  BY DEF InFlight, Answered
<1>2. CASE c \in listening
  BY <1>1, <1>2 DEF CacheInv
<1>3. CASE c \notin listening
  BY <1>1, <1>3 DEF CacheInv
<1> QED
  BY <1>2, <1>3

LEMMA CacheFrame ==
  ASSUME NEW d, Same(d), products' = products, CacheInv(d)
  PROVE  CacheInv(d)'
<1>1. /\ up'[d] = up[d] /\ down'[d] = down[d] /\ connected'[d] = connected[d]
      /\ serverCache'[d] = serverCache[d] /\ complete'[d] = complete[d]
      /\ d \in listening' <=> d \in listening
  BY DEF Same
<1>2. Sent(d, "Products")' = Sent(d, "Products")
  BY <1>1 DEF Sent
<1> QED
  BY <1>1, <1>2, CacheUnchanged

(* A request that is no listen on Products/ is sent.                       *)
LEMMA RequestedCache ==
  ASSUME TypeOK, NEW c \in Clients, CacheInv(c), NEW r \in Request, ~IsListen(r, "Products"),
         up'[c] = (IF connected[c] THEN Append(up[c], r) ELSE up[c]),
         down'[c] = down[c], connected'[c] = connected[c],
         serverCache'[c] = serverCache[c], complete'[c] = complete[c],
         products' = products, listening' = listening
  PROVE  CacheInv(c)'
<1>1. up[c] \in Seq(Request)
  BY ClientTypes
<1> DEFINE s == Append(up[c], r)
<1>2. ListensIn(s, "Products") = ListensIn(up[c], "Products")
  BY <1>1, ListensAppended
<1>3. \A n \in DOMAIN up[c] : s[n] = up[c][n]
  BY <1>1, Appended
<1> HIDE DEF s
<1>4. /\ Sent(c, "Products")' = Sent(c, "Products")
      /\ \A n \in Sent(c, "Products") : up'[c][n] = up[c][n]
  <2>1. CASE connected[c]
    BY <1>2, <1>3, <2>1 DEF s, Sent, ListensIn
  <2>2. CASE ~connected[c]
    BY <2>2 DEF Sent
  <2> QED
    BY <2>1, <2>2
<1> QED
  BY <1>4, CacheUnchanged

LEMMA SetValueCache ==
  ASSUME TypeOK, NEW c \in Clients, NEW w \in AppWrites, SetValue(c, w), CacheInv(c)
  PROVE  CacheInv(c)'
<1> DEFINE q == Append(writes[c], w)
           r == PutRequest(q, Len(q))
<1>1. q[Len(q)] = w /\ Len(q) \in Nat
  BY ClientTypes, Appended
<1>2. r \in Request /\ r.kind = "put"
  BY <1>1, PutRequestType
<1>3. /\ up'[c] = IF connected[c] THEN Append(up[c], r) ELSE up[c]
      /\ down'[c] = down[c] /\ connected'[c] = connected[c]
      /\ serverCache'[c] = serverCache[c] /\ complete'[c] = complete[c]
      /\ listening' = listening /\ products' = products
  BY SetValueAt
<1>4. ~IsListen(r, "Products")
  BY <1>2 DEF IsListen
<1> HIDE DEF r
<1> QED
  BY <1>2, <1>3, <1>4, RequestedCache

LEMMA ListenToUsersCache ==
  ASSUME TypeOK, NEW c \in Clients, ListenToUsers(c), CacheInv(c)
  PROVE  CacheInv(c)'
<1> DEFINE r == ListenRequest(c, "Users")
<1>1. r \in Request /\ r.kind = "listen" /\ r.node = "Users"
  BY ListenRequestType
<1>2. /\ up'[c] = IF connected[c] THEN Append(up[c], r) ELSE up[c]
      /\ down'[c] = down[c] /\ connected'[c] = connected[c]
      /\ serverCache'[c] = serverCache[c] /\ complete'[c] = complete[c]
      /\ listening' = listening /\ products' = products
  BY ListenToUsersAt
<1>3. ~IsListen(r, "Products")
  BY <1>1 DEF IsListen
<1> HIDE DEF r
<1> QED
  BY <1>1, <1>2, <1>3, RequestedCache

LEMMA ConnectCache ==
  ASSUME TypeOK, NEW c \in Clients, Connect(c), ListensInv(c), PutsInv(c)
  PROVE  CacheInv(c)'
<1> DEFINE s == Again(c) \o PutsAgain(c)
<1>1. /\ ~connected[c] /\ connected'[c] = TRUE
      /\ up'[c] = s /\ down'[c] = down[c] /\ listening' = listening
      /\ serverCache'[c] = serverCache[c]
  BY ConnectAt
<1>2. down[c] = <<>> /\ c \notin listening
  BY <1>1 DEF ListensInv
<1>3. "Products" \in listens[c]
  BY ClientTypes
<1>4. /\ ListensIn(s, "Products") # {}
      /\ \A n \in ListensIn(s, "Products") : s[n].hash = serverCache[c]
  BY <1>3, AgainListens
<1> HIDE DEF s
<1>5. InFlight(c, "Products")'
  BY <1>1, <1>4 DEF InFlight, Sent
<1>6. \A n \in DOMAIN down'[c] : down'[c][n].kind \notin {"data", "update"}
  BY <1>1, <1>2
<1>7. \A n \in Sent(c, "Products")' : up'[c][n].hash = serverCache'[c]
  BY <1>1, <1>4 DEF Sent
<1> QED
  BY <1>1, <1>2, <1>5, <1>6, <1>7 DEF CacheInv

LEMMA DisconnectCache ==
  ASSUME TypeOK, NEW c \in Clients, Disconnect(c)
  PROVE  CacheInv(c)'
<1>1. connected'[c] = FALSE
  BY DisconnectAt
<1> QED
  BY <1>1 DEF CacheInv

(* What of the listens is left when a message of the channel is gone.      *)
LEMMA ListensLeft ==
  ASSUME NEW s, NEW n, NEW r, Removed(s, n, r), NEW node
  PROVE  /\ \A k \in DOMAIN r : \E j \in DOMAIN s : r[k] = s[j]
         /\ \A k \in ListensIn(r, node) : \E j \in ListensIn(s, node) : r[k] = s[j]
         /\ ~IsListen(s[n], node) /\ ListensIn(s, node) # {} => ListensIn(r, node) # {}
<1>1. \A k \in DOMAIN r : Old(n, k) \in DOMAIN s /\ r[k] = s[Old(n, k)]
  BY RemovedOldNew
<1>2. \A k \in ListensIn(r, node) : Old(n, k) \in ListensIn(s, node) /\ r[k] = s[Old(n, k)]
  BY <1>1 DEF ListensIn
<1> QED
  BY <1>1, <1>2, OtherRemoved

LEMMA ListenTakenCache ==
  ASSUME TypeOK, NEW c \in Clients, NEW n \in DOMAIN up[c], ListenTaken(c, n),
         CacheInv(c), ListensInv(c)
  PROVE  CacheInv(c)'
<1> DEFINE r == up[c][n]
           a == ListenAnswer(r)
           d == Data
           s == down'[c]
           t == down[c]
<1>1. /\ r \in Request /\ r.kind = "listen" /\ r.node \in {"Products", "Users"}
      /\ Removed(up[c], n, up'[c])
      /\ s = IF r.node = "Users" \/ r.hash = products THEN Append(t, a)
             ELSE Append(Append(t, d), a)
      /\ c \in listening' <=> r.node = "Products" \/ c \in listening
      /\ connected'[c] = connected[c] /\ serverCache'[c] = serverCache[c]
      /\ complete'[c] = complete[c] /\ products' = products
  BY ListenTakenAt
<1>2. /\ d \in Answer /\ a \in Answer
      /\ d.kind = "data" /\ d.products = products
      /\ a.kind = "listen" /\ a.node = r.node
  BY <1>1, ListenAnswerType
<1>3. t \in Seq(Answer)
  BY ClientTypes
<1>4. /\ Extends_(s, t) /\ Len(s) \in DOMAIN s \ DOMAIN t /\ s[Len(s)] = a
      /\ ListensIn(s, r.node) = ListensIn(t, r.node) \cup {Len(s)}
      /\ \A other : other # r.node => ListensIn(s, other) = ListensIn(t, other)
  BY AnswersSent DEF Answers
<1>5. connected[c]
  BY DEF ListensInv
<1>6. /\ complete[c] \/ InFlight(c, "Products")
      /\ c \in listening => Follows(serverCache[c], t, products)
      /\ c \notin listening => /\ \A m \in DOMAIN t : t[m].kind \notin {"data", "update"}
                               /\ \A m \in Sent(c, "Products") : up[c][m].hash = serverCache[c]
  BY <1>5 DEF CacheInv
<1>7. c \in listening <=> Sent(c, "Products") = {}
  BY <1>5 DEF ListensInv
<1>8. r.node = "Products" => n \in Sent(c, "Products")
  BY <1>1 DEF Sent, ListensIn, IsListen
<1>9. r.node # "Products" => ~IsListen(r, "Products")
  BY DEF IsListen
<1>10. /\ \A k \in ListensIn(up'[c], "Products") :
              \E j \in ListensIn(up[c], "Products") : up'[c][k] = up[c][j]
       /\ r.node # "Products" /\ ListensIn(up[c], "Products") # {}
              => ListensIn(up'[c], "Products") # {}
  BY <1>1, <1>9, ListensLeft
<1> HIDE DEF r, a, d, s, t
<1>11. complete'[c] \/ InFlight(c, "Products")'
  <2>1. CASE r.node = "Products"
    BY <1>4, <2>1 DEF InFlight, Answered, s
  <2>2. CASE r.node # "Products"
    <3>1. ListensIn(s, "Products") = ListensIn(t, "Products")
      BY <1>4, <2>2
    <3> QED
      BY <1>1, <1>6, <1>10, <2>2, <3>1 DEF InFlight, Answered, Sent, s, t
  <2> QED
    BY <2>1, <2>2
<1>12. ASSUME c \in listening'
       PROVE  Follows(serverCache[c], s, products)
  <2>1. CASE r.node = "Users"
    <3>1. s = Append(t, a)
      BY <1>1, <2>1
    <3>2. c \in listening
      BY <1>1, <1>12, <2>1
    <3> QED
      BY <1>2, <1>3, <1>6, <3>1, <3>2, FollowsIgnored
  <2>2. CASE r.node = "Products" /\ r.hash = products
    <3>1. s = Append(t, a)
      BY <1>1, <2>2
    <3>2. c \notin listening
      BY <1>7, <1>8, <2>2
    <3>3. serverCache[c] = products
      <4>1. up[c][n].hash = serverCache[c]
        BY <1>6, <1>8, <2>2, <3>2
      <4> QED
        BY <2>2, <4>1 DEF r
    <3>4. \A m \in DOMAIN t : \A i, f : ~Tells(t[m], i, f)
      BY <1>6, <3>2 DEF Tells
    <3>5. Follows(serverCache[c], t, products)
      BY <3>3, <3>4 DEF Follows
    <3> QED
      BY <1>2, <1>3, <3>1, <3>5, FollowsIgnored
  <2>3. CASE r.node = "Products" /\ r.hash # products
    <3>1. s = Append(Append(t, d), a)
      BY <1>1, <2>3
    <3>2. Follows(serverCache[c], Append(t, d), products)
      BY <1>2, <1>3, FollowsData
    <3>3. Append(t, d) \in Seq(Answer)
      BY <1>2, <1>3, Appended
    <3> QED
      BY <1>2, <3>1, <3>2, <3>3, FollowsIgnored
  <2> QED
    BY <1>1, <2>1, <2>2, <2>3
<1>13. ASSUME c \notin listening'
       PROVE  /\ \A m \in DOMAIN s : s[m].kind \notin {"data", "update"}
              /\ \A m \in Sent(c, "Products")' : up'[c][m].hash = serverCache[c]
  <2>1. c \notin listening /\ r.node = "Users"
    BY <1>1, <1>13
  <2>2. s = Append(t, a)
    BY <1>1, <2>1
  <2>3. \A m \in DOMAIN s : s[m].kind \notin {"data", "update"}
    BY <1>2, <1>3, <1>6, <2>1, <2>2, Appended
  <2>4. ASSUME NEW m \in ListensIn(up'[c], "Products")
        PROVE  up'[c][m].hash = serverCache[c]
    <3>1. PICK j \in ListensIn(up[c], "Products") : up'[c][m] = up[c][j]
      BY <1>10
    <3>2. up[c][j].hash = serverCache[c]
      BY <1>6, <2>1 DEF Sent
    <3> QED
      BY <3>1, <3>2
  <2> QED
    BY <2>3, <2>4 DEF Sent
<1>14. CASE c \in listening'
  BY <1>1, <1>11, <1>12, <1>14 DEF CacheInv, s
<1>15. CASE c \notin listening'
  BY <1>1, <1>11, <1>13, <1>15 DEF CacheInv, s
<1> QED
  BY <1>14, <1>15

LEMMA PutTakenCache ==
  ASSUME TypeOK, NEW c \in Clients, NEW n \in DOMAIN up[c], PutTaken(c, n),
         NEW d \in Clients, CacheInv(d)
  PROVE  CacheInv(d)'
<1> DEFINE r == up[c][n]
           u == Update(c, r)
           a == PutAnswer(r)
           s == down'[d]
           t == down[d]
           told == IF d \in listening THEN Append(t, u) ELSE t
           p == Apply(products, r.write)
<1>1. /\ r \in Request /\ r.kind = "put" /\ r.write \in AppWrites
      /\ Removed(up[c], n, up'[c])
      /\ d # c => up'[d] = up[d]
      /\ s = IF d = c THEN Append(told, a) ELSE told
      /\ products' = p
      /\ UNCHANGED <<listening, connected, serverCache, complete>>
  BY PutTakenAt
<1>2. /\ u \in Answer /\ a \in Answer /\ u.kind = "update" /\ a.kind = "put"
      /\ u.write = r.write /\ t \in Seq(Answer)
  BY <1>1, UpdateType, ClientTypes
<1>3. products \in Products_
  BY DEF TypeOK, Products_
<1>4. ~IsListen(r, "Products")
  BY <1>1 DEF IsListen
<1>5. /\ \A k \in ListensIn(up'[d], "Products") :
             \E j \in ListensIn(up[d], "Products") : up'[d][k] = up[d][j]
      /\ ListensIn(up[d], "Products") # {} => ListensIn(up'[d], "Products") # {}
  <2>1. CASE d = c
    BY <1>1, <1>4, <2>1, ListensLeft
  <2>2. CASE d # c
    BY <1>1, <2>2
  <2> QED
    BY <2>1, <2>2
<1>6. ListensIn(s, "Products") = ListensIn(t, "Products")
  BY PutsSent
<1> HIDE DEF r, u, a, s, t, p
<1> SUFFICES ASSUME connected[d]
             PROVE  CacheInv(d)'
  BY <1>1 DEF CacheInv
<1>7. complete[d] \/ InFlight(d, "Products")
  BY DEF CacheInv
<1>8. complete'[d] \/ InFlight(d, "Products")'
  BY <1>1, <1>5, <1>6, <1>7 DEF InFlight, Sent, Answered, s, t
<1>9. CASE d \in listening
  <2>1. Follows(serverCache[d], t, products)
    BY <1>9 DEF CacheInv, t
  <2>2. told = Append(t, u)
    BY <1>9
  <2>3. told \in Seq(Answer)
    BY <1>2, <2>2, Appended
  <2>4. Follows(serverCache[d], told, p)
    BY <1>1, <1>2, <1>3, <2>1, <2>2, FollowsUpdate DEF p
  <2> HIDE DEF told
  <2>5. Follows(serverCache[d], s, p)
    <3>1. CASE d = c
      BY <1>1, <1>2, <2>3, <2>4, <3>1, FollowsIgnored
    <3>2. CASE d # c
      BY <1>1, <2>4, <3>2
    <3> QED
      BY <3>1, <3>2
  <2> QED
    BY <1>1, <1>8, <1>9, <2>5 DEF CacheInv, s
<1>10. CASE d \notin listening
  <2>1. /\ \A m \in DOMAIN t : t[m].kind \notin {"data", "update"}
        /\ \A m \in Sent(d, "Products") : up[d][m].hash = serverCache[d]
    BY <1>10 DEF CacheInv, t
  <2>2. told = t
    BY <1>10
  <2>3. \A m \in DOMAIN s : s[m].kind \notin {"data", "update"}
    <3>1. CASE d = c
      <4>1. s = Append(t, a)
        BY <1>1, <2>2, <3>1
      <4> QED
        BY <1>2, <2>1, <4>1, Appended
    <3>2. CASE d # c
      BY <1>1, <2>1, <2>2, <3>2
    <3> QED
      BY <3>1, <3>2
  <2>4. \A m \in Sent(d, "Products")' : up'[d][m].hash = serverCache[d]
    BY <1>5, <2>1 DEF Sent
  <2> QED
    BY <1>1, <1>8, <1>10, <2>3, <2>4 DEF CacheInv, s
<1> QED
  BY <1>9, <1>10

LEMMA LearnedCacheInv ==
  ASSUME TypeOK, NEW c \in Clients, NEW kind, Arrives(c, kind), Learned(c), CacheInv(c),
         ListensInv(c)
  PROVE  CacheInv(c)'
<1> DEFINE m == down[c][1]
<1>1. /\ m.kind \in {"data", "update"} /\ 1 \in DOMAIN down[c]
      /\ Removed(down[c], 1, down'[c])
      /\ \A i \in Items, f \in Fields :
             serverCache'[c][i][f] = IF Tells(m, i, f) THEN Told(m, i, f)
                                     ELSE serverCache[c][i][f]
      /\ complete'[c] = TRUE /\ connected'[c] = connected[c]
      /\ listening' = listening /\ products' = products
  BY LearnedAt
<1>2. connected[c]
  BY <1>1 DEF ListensInv
<1>3. c \in listening
  BY <1>1, <1>2 DEF CacheInv
<1>4. Follows(serverCache[c], down[c], products)
  BY <1>2, <1>3 DEF CacheInv
<1>5. Follows(serverCache'[c], down'[c], products)
  BY <1>1, <1>4, FollowsReceived
<1> QED
  BY <1>1, <1>3, <1>5 DEF CacheInv

(* A message that tells nothing of Products/ arrives.                      *)
LEMMA ArrivedCache ==
  ASSUME TypeOK, NEW c \in Clients, CacheInv(c), Removed(down[c], 1, down'[c]),
         down[c][1].kind \notin {"data", "update"},
         up'[c] = up[c], connected'[c] = connected[c], serverCache'[c] = serverCache[c],
         complete[c] => complete'[c], complete'[c] \/ ~IsListen(down[c][1], "Products"),
         products' = products, listening' = listening
  PROVE  CacheInv(c)'
<1> SUFFICES ASSUME connected[c]
             PROVE  CacheInv(c)'
  BY DEF CacheInv
<1>1. complete[c] \/ InFlight(c, "Products")
  BY DEF CacheInv
<1>2. /\ \A k \in DOMAIN down'[c] : \E j \in DOMAIN down[c] : down'[c][k] = down[c][j]
      /\ ~IsListen(down[c][1], "Products") /\ ListensIn(down[c], "Products") # {}
             => ListensIn(down'[c], "Products") # {}
  BY ListensLeft
<1>3. complete'[c] \/ InFlight(c, "Products")'
  BY <1>1, <1>2 DEF InFlight, Sent, Answered
<1>4. CASE c \in listening
  <2>1. Follows(serverCache[c], down[c], products)
    BY <1>4 DEF CacheInv
  <2>2. \A i, f : ~Tells(down[c][1], i, f)
    BY DEF Tells
  <2>3. Follows(serverCache[c], down'[c], products)
    BY <2>1, <2>2, FollowsReceived
  <2> QED
    BY <1>3, <1>4, <2>3 DEF CacheInv
<1>5. CASE c \notin listening
  <2>1. /\ \A m \in DOMAIN down[c] : down[c][m].kind \notin {"data", "update"}
        /\ \A m \in Sent(c, "Products") : up[c][m].hash = serverCache[c]
    BY <1>5 DEF CacheInv
  <2>2. \A m \in DOMAIN down'[c] : down'[c][m].kind \notin {"data", "update"}
    BY <1>2, <2>1
  <2>3. \A m \in Sent(c, "Products")' : up'[c][m].hash = serverCache'[c]
    BY <2>1 DEF Sent
  <2> QED
    BY <1>3, <1>5, <2>2, <2>3 DEF CacheInv
<1> QED
  BY <1>4, <1>5

LEMMA ListenAnsweredCache ==
  ASSUME TypeOK, NEW c \in Clients, Arrives(c, "listen"), ListenAnswered(c), CacheInv(c)
  PROVE  CacheInv(c)'
<1> DEFINE m == down[c][1]
<1>1. /\ m.kind = "listen" /\ m.node \in {"Products", "Users"}
      /\ Removed(down[c], 1, down'[c])
      /\ complete'[c] = IF m.node = "Users" THEN complete[c] ELSE TRUE
      /\ up'[c] = up[c] /\ connected'[c] = connected[c] /\ serverCache'[c] = serverCache[c]
      /\ listening' = listening /\ products' = products
  BY ListenAnsweredAt
<1>2. complete[c] => complete'[c]
  BY <1>1
<1>3. complete'[c] \/ ~IsListen(m, "Products")
  BY <1>1 DEF IsListen
<1> QED
  BY <1>1, <1>2, <1>3, ArrivedCache

LEMMA PutAnsweredCache ==
  ASSUME TypeOK, NEW c \in Clients, Arrives(c, "put"), PutAnswered(c), CacheInv(c)
  PROVE  CacheInv(c)'
<1> DEFINE m == down[c][1]
<1>1. /\ m.kind = "put" /\ Removed(down[c], 1, down'[c])
      /\ up'[c] = up[c] /\ connected'[c] = connected[c] /\ serverCache'[c] = serverCache[c]
      /\ complete'[c] = complete[c] /\ listening' = listening /\ products' = products
  BY PutAnsweredAt
<1>2. ~IsListen(m, "Products")
  BY <1>1 DEF IsListen
<1> QED
  BY <1>1, <1>2, ArrivedCache

-----------------------------------------------------------------------------
(***************************************************************************)
(* The invariant                                                           *)
(***************************************************************************)
LEMMA InvInit == Init => RealtimeInv
<1> SUFFICES ASSUME Init, NEW c \in Clients
             PROVE  ClientInv(c)
  BY OneClient
<1>1. /\ up[c] = <<>> /\ down[c] = <<>> /\ c \notin listening /\ connected[c] = FALSE
      /\ unacked[c] = 0 /\ outstanding[c] = {} /\ putsToAck[c] = <<>> /\ writes[c] = <<>>
      /\ log = <<>>
  BY DEF Init
<1>2. \A node : Sent(c, node) = {} /\ Answered(c, node) = {} /\ ~InFlight(c, node)
                  /\ AtMostOnce(c, node)
  BY <1>1, EmptyListens DEF Sent, Answered, InFlight, AtMostOnce
<1>3. ListensInv(c)
  BY <1>1, <1>2 DEF ListensInv
<1>4. Held(c) = {} /\ Puts(up[c]) = {} /\ Puts(down[c]) = {}
  BY <1>1, EmptyPuts DEF Held, ToSet
<1>5. Ascending(up[c]) /\ Ascending(down[c])
  BY <1>1 DEF Ascending
<1>6. PutsInv(c)
  BY <1>1, <1>4, <1>5 DEF PutsInv
<1>7. KnownInv(c)
  BY <1>1, <1>2 DEF KnownInv, AscendingAts, EntriesKnown, PutsKnown, ListenKnown
<1>8. CacheInv(c)
  BY <1>1 DEF CacheInv
<1> QED
  BY <1>3, <1>6, <1>7, <1>8 DEF ClientInv

LEMMA ClientFrame ==
  ASSUME NEW d, Same(d), products' = products, log' = log, ClientInv(d)
  PROVE  ClientInv(d)'
<1>1. ListensInv(d)'
  BY ListensFrame DEF ClientInv
<1>2. PutsInv(d)'
  BY PutsFrame DEF ClientInv
<1>3. KnownInv(d)'
  BY KnownUnchanged DEF ClientInv, Same
<1>4. CacheInv(d)'
  BY CacheFrame DEF ClientInv
<1> QED
  BY <1>1, <1>2, <1>3, <1>4 DEF ClientInv

(* Where the others are left alone, the step is the client's own.          *)
LEMMA OwnStep ==
  ASSUME RealtimeInv, NEW c \in Clients, OthersSame(c), products' = products, log' = log,
         ClientInv(c)'
  PROVE  RealtimeInv'
<1>1. ASSUME NEW d \in Clients
      PROVE  ClientInv(d)'
  <2>1. CASE d = c
    BY <2>1
  <2>2. CASE d # c
    BY <2>2, OneClient, ClientFrame DEF OthersSame
  <2> QED
    BY <2>1, <2>2
<1> QED
  BY <1>1, OneClientNext

LEMMA SetValueInv ==
  ASSUME IInv, NEW c \in Clients, NEW w \in AppWrites, SetValue(c, w)
  PROVE  RealtimeInv'
<1>1. TypeOK /\ RealtimeInv /\ ListensInv(c) /\ PutsInv(c) /\ KnownInv(c) /\ CacheInv(c)
  BY DEF IInv, RealtimeInv
<1>2. /\ OthersSame(c) /\ products' = products /\ log' = log
      /\ down'[c] = down[c] /\ known'[c] = known[c] /\ outstanding[c] \subseteq outstanding'[c]
      /\ putsToAck'[c] = putsToAck[c] /\ listening' = listening
  BY <1>1, SetValueAt
<1>3. ListensInv(c)' /\ PutsInv(c)' /\ CacheInv(c)'
  BY <1>1, SetValueListens, SetValuePuts, SetValueCache
<1>4. KnownInv(c)'
  BY <1>1, <1>2, KnownUnchanged
<1> QED
  BY <1>1, <1>2, <1>3, <1>4, OwnStep DEF ClientInv

LEMMA ListenToUsersInv ==
  ASSUME IInv, NEW c \in Clients, ListenToUsers(c)
  PROVE  RealtimeInv'
<1>1. TypeOK /\ RealtimeInv /\ ListensInv(c) /\ PutsInv(c) /\ KnownInv(c) /\ CacheInv(c)
  BY DEF IInv, RealtimeInv
<1>2. /\ OthersSame(c) /\ products' = products /\ log' = log
      /\ down'[c] = down[c] /\ known'[c] = known[c] /\ outstanding'[c] = outstanding[c]
      /\ putsToAck'[c] = putsToAck[c] /\ listening' = listening
  BY <1>1, ListenToUsersAt
<1>3. ListensInv(c)' /\ PutsInv(c)' /\ CacheInv(c)'
  BY <1>1, ListenToUsersListens, ListenToUsersPuts, ListenToUsersCache
<1>4. KnownInv(c)'
  BY <1>1, <1>2, KnownUnchanged
<1> QED
  BY <1>1, <1>2, <1>3, <1>4, OwnStep DEF ClientInv

LEMMA TakeEventInv ==
  ASSUME IInv, NEW c \in Clients, TakeEvent(c)
  PROVE  RealtimeInv'
<1>1. products' = products /\ log' = log /\ \A d : Same(d)
  BY DEF TakeEvent, Same
<1>2. \A d \in Clients : ClientInv(d)'
  BY <1>1, OneClient, ClientFrame DEF IInv
<1> QED
  BY <1>2, OneClientNext

LEMMA ConnectInv ==
  ASSUME IInv, NEW c \in Clients, Connect(c)
  PROVE  RealtimeInv'
<1>1. TypeOK /\ RealtimeInv /\ ListensInv(c) /\ PutsInv(c) /\ KnownInv(c)
  BY DEF IInv, RealtimeInv
<1>2. /\ OthersSame(c) /\ products' = products /\ log' = log
      /\ down'[c] = down[c] /\ known'[c] = known[c] /\ outstanding'[c] = outstanding[c]
      /\ putsToAck'[c] = putsToAck[c] /\ listening' = listening
  BY <1>1, ConnectAt
<1>3. ListensInv(c)' /\ PutsInv(c)' /\ CacheInv(c)'
  BY <1>1, ConnectListens, ConnectPuts, ConnectCache
<1>4. KnownInv(c)'
  BY <1>1, <1>2, KnownUnchanged
<1> QED
  BY <1>1, <1>2, <1>3, <1>4, OwnStep DEF ClientInv

LEMMA DisconnectInv ==
  ASSUME IInv, NEW c \in Clients, Disconnect(c)
  PROVE  RealtimeInv'
<1>1. TypeOK /\ RealtimeInv /\ PutsInv(c) /\ KnownInv(c)
  BY DEF IInv, RealtimeInv
<1>2. OthersSame(c) /\ products' = products /\ log' = log
  BY <1>1, DisconnectAt
<1>3. ListensInv(c)' /\ PutsInv(c)' /\ KnownInv(c)' /\ CacheInv(c)'
  BY <1>1, DisconnectListens, DisconnectPuts, DisconnectKnown, DisconnectCache
<1> QED
  BY <1>1, <1>2, <1>3, OwnStep DEF ClientInv

LEMMA ServerListenInv ==
  ASSUME IInv, NEW c \in Clients, ServerListen(c)
  PROVE  RealtimeInv'
<1>1. TypeOK /\ RealtimeInv /\ ListensInv(c) /\ PutsInv(c) /\ KnownInv(c) /\ CacheInv(c)
  BY DEF IInv, RealtimeInv
<1>2. PICK n \in DOMAIN up[c] : ListenTaken(c, n)
  BY <1>1, ServerListenTakes
<1>3. OthersSame(c) /\ products' = products /\ log' = log
  BY <1>1, <1>2, ListenTakenAt
<1>4. ListensInv(c)' /\ PutsInv(c)' /\ KnownInv(c)' /\ CacheInv(c)'
  BY <1>1, <1>2, ListenTakenListens, ListenTakenPuts, ListenTakenKnown, ListenTakenCache
<1> QED
  BY <1>1, <1>3, <1>4, OwnStep DEF ClientInv

LEMMA ServerPutInv ==
  ASSUME IInv, NEW c \in Clients, ServerPut(c)
  PROVE  RealtimeInv'
<1>1. TypeOK /\ \A d \in Clients : ListensInv(d) /\ PutsInv(d) /\ KnownInv(d) /\ CacheInv(d)
  BY DEF IInv, RealtimeInv
<1>2. PICK n \in DOMAIN up[c] : PutTaken(c, n)
  BY <1>1, ServerPutTakes
<1>3. ASSUME NEW d \in Clients
      PROVE  ClientInv(d)'
  <2>1. ListensInv(d)'
    BY <1>1, <1>2, PutTakenListens
  <2>2. PutsInv(d)'
    <3>1. CASE d = c
      BY <1>1, <1>2, <3>1, PutTakenPuts
    <3>2. CASE d # c
      BY <1>1, <1>2, <3>2, OtherPutTakenPuts
    <3> QED
      BY <3>1, <3>2
  <2>3. KnownInv(d)'
    BY <1>1, <1>2, PutTakenKnown
  <2>4. CacheInv(d)'
    BY <1>1, <1>2, PutTakenCache
  <2> QED
    BY <2>1, <2>2, <2>3, <2>4 DEF ClientInv
<1> QED
  BY <1>3, OneClientNext

LEMMA LearnedInv ==
  ASSUME IInv, NEW c \in Clients, NEW kind, Arrives(c, kind), Learned(c)
  PROVE  RealtimeInv'
<1>1. TypeOK /\ RealtimeInv /\ ListensInv(c) /\ PutsInv(c) /\ KnownInv(c) /\ CacheInv(c)
  BY DEF IInv, RealtimeInv
<1>2. /\ OthersSame(c) /\ products' = products /\ log' = log /\ listening' = listening
      /\ 1 \in DOMAIN down[c] /\ Removed(down[c], 1, down'[c])
      /\ down[c][1].kind \in {"data", "update"}
      /\ up'[c] = up[c] /\ connected'[c] = connected[c] /\ listens'[c] = listens[c]
      /\ unacked'[c] = unacked[c] /\ outstanding'[c] = outstanding[c]
      /\ putsToAck'[c] = putsToAck[c] /\ writes'[c] = writes[c]
  BY <1>1, LearnedAt
<1>3. down[c][1].kind # "listen" /\ down[c][1].kind # "put"
  BY <1>2
<1>4. ListensInv(c)'
  BY <1>1, <1>2, <1>3, ArrivedListens
<1>5. PutsInv(c)'
  BY <1>1, <1>2, <1>3, ArrivedPuts
<1>6. KnownInv(c)' /\ CacheInv(c)'
  BY <1>1, LearnedKnown, LearnedCacheInv
<1> QED
  BY <1>1, <1>2, <1>4, <1>5, <1>6, OwnStep DEF ClientInv

LEMMA ReceiveListenAnswerInv ==
  ASSUME IInv, NEW c \in Clients, ReceiveListenAnswer(c)
  PROVE  RealtimeInv'
<1>1. TypeOK /\ RealtimeInv /\ ListensInv(c) /\ PutsInv(c) /\ KnownInv(c) /\ CacheInv(c)
  BY DEF IInv, RealtimeInv
<1>2. Arrives(c, "listen") /\ ListenAnswered(c)
  BY <1>1, ListenAnswerTaken
<1>3. OthersSame(c) /\ products' = products /\ log' = log
  BY <1>1, <1>2, ListenAnsweredAt
<1>4. ListensInv(c)' /\ PutsInv(c)' /\ KnownInv(c)' /\ CacheInv(c)'
  BY <1>1, <1>2, ListenAnsweredListens, ListenAnsweredPuts, ListenAnsweredKnown,
     ListenAnsweredCache
<1> QED
  BY <1>1, <1>3, <1>4, OwnStep DEF ClientInv

LEMMA ReceivePutAnswerInv ==
  ASSUME IInv, NEW c \in Clients, ReceivePutAnswer(c)
  PROVE  RealtimeInv'
<1>1. TypeOK /\ RealtimeInv /\ ListensInv(c) /\ PutsInv(c) /\ KnownInv(c) /\ CacheInv(c)
  BY DEF IInv, RealtimeInv
<1>2. Arrives(c, "put") /\ PutAnswered(c)
  BY <1>1, PutAnswerTaken
<1>3. /\ OthersSame(c) /\ products' = products /\ log' = log /\ listening' = listening
      /\ down[c][1].kind = "put" /\ 1 \in DOMAIN down[c] /\ Removed(down[c], 1, down'[c])
      /\ up'[c] = up[c] /\ connected'[c] = connected[c] /\ listens'[c] = listens[c]
      /\ unacked'[c] = unacked[c]
  BY <1>1, <1>2, PutAnsweredAt
<1>4. down[c][1].kind # "listen"
  BY <1>3
<1>5. ListensInv(c)'
  BY <1>1, <1>3, <1>4, ArrivedListens
<1>6. PutsInv(c)' /\ KnownInv(c)' /\ CacheInv(c)'
  BY <1>1, <1>2, PutAnsweredPuts, PutAnsweredKnown, PutAnsweredCache
<1> QED
  BY <1>1, <1>3, <1>5, <1>6, OwnStep DEF ClientInv

LEMMA InvNext == IInv /\ [Next]_vars => RealtimeInv'
<1> SUFFICES ASSUME IInv, [Next]_vars
             PROVE  RealtimeInv'
  OBVIOUS
<1>1. ASSUME NEW c \in Clients, NEW w \in AppWrites, SetValue(c, w)
      PROVE  RealtimeInv'
  BY <1>1, SetValueInv
<1>2. ASSUME NEW c \in Clients, ListenToUsers(c)
      PROVE  RealtimeInv'
  BY <1>2, ListenToUsersInv
<1>3. ASSUME NEW c \in Clients, TakeEvent(c)
      PROVE  RealtimeInv'
  BY <1>3, TakeEventInv
<1>4. ASSUME NEW c \in Clients, Connect(c)
      PROVE  RealtimeInv'
  BY <1>4, ConnectInv
<1>5. ASSUME NEW c \in Clients, Disconnect(c)
      PROVE  RealtimeInv'
  BY <1>5, DisconnectInv
<1>6. ASSUME NEW c \in Clients, ServerListen(c)
      PROVE  RealtimeInv'
  BY <1>6, ServerListenInv
<1>7. ASSUME NEW c \in Clients, ServerPut(c)
      PROVE  RealtimeInv'
  BY <1>7, ServerPutInv
<1>8. ASSUME NEW c \in Clients, ReceiveData(c)
      PROVE  RealtimeInv'
  BY <1>8, DataLearned, LearnedInv DEF IInv
<1>9. ASSUME NEW c \in Clients, ReceiveUpdate(c)
      PROVE  RealtimeInv'
  BY <1>9, UpdateLearned, LearnedInv DEF IInv
<1>10. ASSUME NEW c \in Clients, ReceiveListenAnswer(c)
       PROVE  RealtimeInv'
  BY <1>10, ReceiveListenAnswerInv
<1>11. ASSUME NEW c \in Clients, ReceivePutAnswer(c)
       PROVE  RealtimeInv'
  BY <1>11, ReceivePutAnswerInv
<1>12. ASSUME UNCHANGED vars
       PROVE  RealtimeInv'
  <2>1. products' = products /\ log' = log /\ \A d : Same(d)
    BY <1>12 DEF vars, Same
  <2>2. \A d \in Clients : ClientInv(d)'
    BY <2>1, OneClient, ClientFrame DEF IInv
  <2> QED
    BY <2>2, OneClientNext
<1> QED
  BY <1>1, <1>2, <1>3, <1>4, <1>5, <1>6, <1>7, <1>8, <1>9, <1>10, <1>11, <1>12 DEF Next

LEMMA InvariantHolds == Spec => []IInv
<1>1. Init => IInv
  BY TypeInit, InvInit DEF IInv
<1>2. IInv /\ [Next]_vars => IInv'
  BY TypeNext, InvNext DEF IInv
<1> QED
  BY <1>1, <1>2, PTL DEF Spec

-----------------------------------------------------------------------------
(***************************************************************************)
(* The theorems                                                            *)
(***************************************************************************)

(* The state keeps its types; the count of the listens without an answer   *)
(* (unackedListensCount) never drops below 0 and no number outlives its    *)
(* write.                                                                  *)
THEOREM RealtimeTypeCorrect == Spec => []TypeOK
<1>1. IInv => TypeOK
  BY DEF IInv
<1> QED
  BY <1>1, InvariantHolds, PTL

(* Whatever connections are lost and whatever listens are late, the count  *)
(* of the listens is that of the listens on their way, the puts are on     *)
(* their way in their order, and an answer takes effect after its data.    *)
THEOREM RealtimeInvariant == Spec => []RealtimeInv
<1>1. IInv => RealtimeInv
  BY DEF IInv
<1> QED
  BY <1>1, InvariantHolds, PTL

(* A write leaves the write tree only when the server cache has what the   *)
(* server made of it (FPersistentConnection sendPut:, ackPuts).            *)
THEOREM AnswersTakeEffectLate == Spec => []AnsweredIsKnown
<1>1. IInv => AnsweredIsKnown
  <2> SUFFICES ASSUME IInv, NEW c \in Clients, NEW n \in DOMAIN log,
                      log[n][1] = c, writes[c][log[n][2]] = Null
               PROVE  n <= known[c]
    BY DEF AnsweredIsKnown
  <2> DEFINE k == log[n][2]
  <2>1. PutsInv(c) /\ EntriesKnown(c)
    BY DEF IInv, RealtimeInv, KnownInv
  <2>2. k \in DOMAIN writes[c]
    BY <2>1 DEF PutsInv
  <2>3. k \notin outstanding[c] /\ k \notin Held(c)
    BY <2>1, <2>2 DEF PutsInv
  <2> QED
    BY <2>1, <2>3 DEF EntriesKnown
<1> QED
  BY <1>1, InvariantHolds, PTL

(* When no put of a client is outstanding, the last of them the server     *)
(* took is the newest one (FPersistentConnection restoreState).            *)
THEOREM NewestPutWins == Spec => []NewestPutIsLast
<1>1. IInv => NewestPutIsLast
  <2> SUFFICES ASSUME IInv, NEW c \in Clients, outstanding[c] = {}, writes[c] # <<>>
               PROVE  \E n \in {m \in DOMAIN log : log[m][1] = c} :
                          /\ \A m \in {j \in DOMAIN log : log[j][1] = c} : m <= n
                          /\ log[n][2] = Len(writes[c])
    BY DEF NewestPutIsLast
  <2> DEFINE k == Len(writes[c])
  <2>1. TypeOK /\ PutsInv(c)
    BY DEF IInv, RealtimeInv
  <2>2. writes[c] \in Seq(AppWrites \cup {Null})
    BY <2>1, ClientTypes
  <2>3. k \in Nat /\ k \in DOMAIN writes[c] /\ DOMAIN writes[c] = 1..k
    BY <2>2
  <2> HIDE DEF k
  <2>4. TakenTo(c, k)
    BY <2>1, <2>3 DEF PutsInv
  <2>5. PICK n \in DOMAIN log : /\ log[n][1] = c /\ log[n][2] >= k
                                /\ \A m \in DOMAIN log : log[m][1] = c => m <= n
    BY <2>4 DEF TakenTo
  <2>6. log[n][2] \in 1..k
    BY <2>1, <2>3, <2>5 DEF PutsInv
  <2>7. log[n][2] = k
    BY <2>3, <2>5, <2>6
  <2> QED
    BY <2>5, <2>7 DEF k
<1> QED
  BY <1>1, InvariantHolds, PTL

(* A client to whom and from whom nothing is on its way has every write    *)
(* answered, no answer held, and shows what the server holds, whatever was *)
(* lost before (FPersistentConnection onDisconnect:, restoreState).        *)
THEOREM QuietClientsAgree == Spec => []QuietClientAgrees
<1>1. IInv => QuietClientAgrees
  <2> SUFFICES ASSUME IInv, NEW c \in Clients, connected[c], up[c] = <<>>, down[c] = <<>>
               PROVE  /\ unacked[c] = 0
                      /\ outstanding[c] = {} /\ putsToAck[c] = <<>>
                      /\ Sync!Unanswered(writes[c]) = {}
                      /\ complete[c] /\ View(c) = products
    BY DEF QuietClientAgrees
  <2>1. TypeOK /\ ListensInv(c) /\ PutsInv(c) /\ CacheInv(c)
    BY DEF IInv, RealtimeInv
  <2>2. \A node : Sent(c, node) = {} /\ ~InFlight(c, node)
    BY EmptyListens DEF Sent, Answered, InFlight
  <2>3. unacked[c] = 0 /\ c \in listening
    BY <2>1, <2>2 DEF ListensInv
  <2>4. outstanding[c] = {}
    BY <2>1, EmptyPuts DEF PutsInv
  <2>5. putsToAck[c] = <<>> /\ Held(c) = {}
    <3>1. putsToAck[c] = <<>>
      BY <2>1, <2>3 DEF PutsInv
    <3> QED
      BY <3>1 DEF Held, ToSet
  <2>6. \A k \in DOMAIN writes[c] : writes[c][k] = Null
    BY <2>1, <2>4, <2>5 DEF PutsInv
  <2>7. Sync!Unanswered(writes[c]) = {}
    BY <2>6 DEF Sync!Unanswered
  <2>8. complete[c] /\ Follows(serverCache[c], <<>>, products)
    BY <2>1, <2>2, <2>3 DEF CacheInv
  <2>9. \A i \in Items, f \in Fields : serverCache[c][i][f] = products[i][f]
    BY <2>8 DEF Follows
  <2>10. View(c) = [i \in Items |-> [f \in Fields |-> serverCache[c][i][f]]]
    BY <2>6 DEF View, EventCache
  <2>11. products \in [Items -> Product]
    BY <2>1 DEF TypeOK
  <2>12. \A p \in Product : [f \in Fields |-> p[f]] = p
    BY DEF Product, Fields
  <2>13. View(c) = products
    BY <2>9, <2>10, <2>11, <2>12
  <2> QED
    BY <2>3, <2>4, <2>5, <2>7, <2>8, <2>13
<1> QED
  BY <1>1, InvariantHolds, PTL
=============================================================================
