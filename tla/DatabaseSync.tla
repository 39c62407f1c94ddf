---------------------------- MODULE DatabaseSync ----------------------------
(***************************************************************************)
(* Products/ as the Firebase Realtime Database keeps it: one copy on the   *)
(* server, and in every client's SDK a view of it with the client's own    *)
(* unacknowledged writes already applied.                                  *)
(*                                                                         *)
(*   - setValue and removeValue change the view at once, raise the events  *)
(*     of the change, and queue the write for the server (FRepo set:).     *)
(*   - The server takes each client's writes in the order of the queue and *)
(*     sends every change to every listening client, the writer included;  *)
(*     the writer drops a write when its answer is in.                     *)
(*   - What the server sends is hidden wherever an own write is pending.   *)
(*   - After a lost connection the client asks for the data again, then    *)
(*     sends ALL the writes still in the queue again, also those the       *)
(*     server has applied and whose answers were lost.                     *)
(*   - Events reach the app later, one by one, on the main queue.          *)
(*                                                                         *)
(* Nothing is kept on disk (the app does not ask for persistence), so a    *)
(* process that ends loses its queue.  The server accepts every write.     *)
(***************************************************************************)
EXTENDS Products, Sequences

CONSTANTS Clients

VARIABLES
    products,   \* the server's copy
    view,       \* view[c]: what c's observers of Products/ would be shown now
    synced,     \* synced[c]: c has had the data of its listen at least once
    writes,     \* writes[c][k]: c's write number k, Null once it is answered
    taken,      \* taken[c]: the last of them the server took on this connection
    push,       \* push[c]: what the server has sent to c on this connection
    connected,  \* connected[c]: the connection is up, its listens restored
    watching,   \* watching[c]: the products a detail screen of c observes
    inbox       \* inbox[c]: the events dispatched to c's main queue

syncVars == <<products, view, synced, writes, taken, push, connected, watching, inbox>>

Products_ == [Items -> Product]
NoProducts == [i \in Items |-> NoProduct]

Event == [observer : {"products", "detail"}, items : SUBSET Items, snapshot : Products_]

Message == [kind : {"write"}, from : Clients, number : Nat, write : Write]
             \cup [kind : {"snapshot"}, products : Products_]

SyncTypeOK ==
    /\ products \in Products_
    /\ view \in [Clients -> Products_]
    /\ synced \in [Clients -> BOOLEAN]
    /\ writes \in [Clients -> Seq(Write \cup {Null})]
    /\ taken \in [Clients -> Nat]
    /\ push \in [Clients -> Seq(Message)]
    /\ connected \in [Clients -> BOOLEAN]
    /\ watching \in [Clients -> SUBSET Items]
    /\ inbox \in [Clients -> Seq(Event)]

SyncInit(stored) ==
    /\ products = stored
    /\ view = [c \in Clients |-> NoProducts]
    /\ synced = [c \in Clients |-> FALSE]
    /\ writes = [c \in Clients |-> <<>>]
    /\ taken = [c \in Clients |-> 0]
    /\ push = [c \in Clients |-> <<>>]
    /\ connected = [c \in Clients |-> FALSE]
    /\ watching = [c \in Clients |-> {}]
    /\ inbox = [c \in Clients |-> <<>>]

-----------------------------------------------------------------------------
(***************************************************************************)
(* Events                                                                  *)
(***************************************************************************)
DetailEvent(items, v) == [observer |-> "detail", items |-> items, snapshot |-> v]
ProductsEvent(v) == [observer |-> "products", items |-> {}, snapshot |-> v]

\* Wrong on purpose: only the deepest observers are told.
EventsOf_DetailOnly(c, v, w) ==
    LET seen == {i \in watching[c] : v[i] # w[i]}
    IN  IF ~synced[c] \/ v = w THEN <<>>
        ELSE IF seen = {} THEN <<ProductsEvent(w)>>
        ELSE <<DetailEvent(seen, w)>>

(* The events of c when its view goes from v to w: the observers of the    *)
(* products that changed, then those of Products/.  A view that has never  *)
(* been complete has no events.                                            *)
EventsOf(c, v, w) ==
    LET seen == {i \in watching[c] : v[i] # w[i]}
    IN  IF ~synced[c] \/ v = w THEN <<>>
        ELSE IF seen = {} THEN <<ProductsEvent(w)>>
        ELSE <<DetailEvent(seen, w), ProductsEvent(w)>>

(* observe and observeSingleEvent on a product: the parent's listen has    *)
(* its data already, so the first event comes from the view.               *)
FirstEvent(c, i) ==
    inbox' = [inbox EXCEPT ![c] = Append(@, DetailEvent({i}, view[c]))]

Observe(c, i) ==
    /\ watching' = [watching EXCEPT ![c] = @ \cup {i}]
    /\ FirstEvent(c, i)
    /\ UNCHANGED <<products, view, synced, writes, taken, push, connected>>

ObserveSingleEvent(c, i) ==
    /\ FirstEvent(c, i)
    /\ UNCHANGED <<products, view, synced, writes, taken, push, connected, watching>>

(* The main queue runs the first event it holds. *)
TakeEvent(c) ==
    /\ inbox' = [inbox EXCEPT ![c] = Tail(@)]
    /\ UNCHANGED <<products, view, synced, writes, taken, push, connected, watching>>

-----------------------------------------------------------------------------
(***************************************************************************)
(* Writes of a client                                                      *)
(***************************************************************************)
SetValue(c, w) ==
    LET v == Apply(view[c], w)
    IN  /\ view' = [view EXCEPT ![c] = v]
        /\ writes' = [writes EXCEPT ![c] = Append(@, w)]
        /\ inbox' = [inbox EXCEPT ![c] = @ \o EventsOf(c, view[c], v)]
        /\ UNCHANGED <<products, synced, taken, push, connected, watching>>

(* Two calls of setValue in one handler. *)
SetTwoValues(c, w1, w2) ==
    LET v1 == Apply(view[c], w1)
        v2 == Apply(v1, w2)
    IN  /\ view' = [view EXCEPT ![c] = v2]
        /\ writes' = [writes EXCEPT ![c] = Append(Append(@, w1), w2)]
        /\ inbox' = [inbox EXCEPT ![c] = (@ \o EventsOf(c, view[c], v1))
                                            \o EventsOf(c, v1, v2)]
        /\ UNCHANGED <<products, synced, taken, push, connected, watching>>

(* The numbers of the writes of q that have no answer yet. *)
Unanswered(q) == {k \in DOMAIN q : q[k] # Null}

\* Wrong on purpose: pending writes hide nothing.
Shadowed_Nothing(q, i) == {}

\* Wrong on purpose: a pending write hides its whole product.
Shadowed_WholeProduct(q, i) ==
    IF \E k \in Unanswered(q) : q[k].item = i THEN Fields ELSE {}

(* The fields of product i some write of q sets. *)
Shadowed(q, i) == UNION {q[k].sets : k \in {n \in Unanswered(q) : q[n].item = i}}

-----------------------------------------------------------------------------
(***************************************************************************)
(* The server and the connection                                           *)
(***************************************************************************)

\* Wrong on purpose: the newest write goes first.
IsNext_Newest(c, k) ==
    /\ k \in Unanswered(writes[c])
    /\ \A j \in Unanswered(writes[c]) : j <= k

(* The writes of c go to the server oldest first. *)
IsNext(c, k) ==
    LET todo == {j \in Unanswered(writes[c]) : j > taken[c]}
    IN  k \in todo /\ \A j \in todo : k <= j

(* The server takes the next write of c and tells every listening client.  *)
ServerApply(c) ==
    /\ connected[c]
    /\ \E k \in DOMAIN writes[c] :
         LET w == writes[c][k]
             m == [kind |-> "write", from |-> c, number |-> k, write |-> w]
         IN  /\ IsNext(c, k)
             /\ products' = Apply(products, w)
             /\ push' = [d \in Clients |-> IF connected[d] THEN Append(push[d], m)
                                                           ELSE push[d]]
             /\ taken' = [taken EXCEPT ![c] = k]
    /\ UNCHANGED <<view, synced, writes, connected, watching, inbox>>

(* A change arrives.  If it is c's own, its answer arrives with it.        *)
ReceiveWrite(c) ==
    LET m == Head(push[c])
        w == m.write
        v == [view[c] EXCEPT ![w.item] =
                Overlay(@, w.to, w.sets \ Shadowed(writes[c], w.item))]
    IN  /\ push[c] # <<>>
        /\ m.kind = "write"
        /\ view' = [view EXCEPT ![c] = v]
        /\ inbox' = [inbox EXCEPT ![c] = @ \o EventsOf(c, view[c], v)]
        /\ push' = [push EXCEPT ![c] = Tail(@)]
        /\ writes' = IF m.from = c THEN [writes EXCEPT ![c][m.number] = Null] ELSE writes
        /\ UNCHANGED <<products, synced, taken, connected, watching>>

(* The answer to the listen arrives: all of Products/.                     *)
ReceiveSnapshot(c) ==
    LET m == Head(push[c])
        v == [i \in Items |-> Overlay(view[c][i], m.products[i],
                                      Fields \ Shadowed(writes[c], i))]
    IN  /\ push[c] # <<>>
        /\ m.kind = "snapshot"
        /\ view' = [view EXCEPT ![c] = v]
        /\ synced' = [synced EXCEPT ![c] = TRUE]
        /\ inbox' = [inbox EXCEPT ![c] =
                       @ \o (IF synced[c] THEN EventsOf(c, view[c], v)
                                          ELSE <<ProductsEvent(v)>>)]
        /\ push' = [push EXCEPT ![c] = Tail(@)]
        /\ UNCHANGED <<products, writes, taken, connected, watching>>

(* The connection is lost, with everything in it.                          *)
Disconnect(c) ==
    /\ connected[c]
    /\ connected' = [connected EXCEPT ![c] = FALSE]
    /\ push' = [push EXCEPT ![c] = <<>>]
    /\ taken' = [taken EXCEPT ![c] = 0]
    /\ UNCHANGED <<products, view, synced, writes, watching, inbox>>

\* Wrong on purpose: the listen is not sent again.
RestoredListen_None == <<>>

(* Of the listens sent again, the answer to the one on Products/. *)
RestoredListen == <<[kind |-> "snapshot", products |-> products]>>

\* Wrong on purpose: what was queued before is not sent again.
RestoredPuts_None(c) == Len(writes[c])

(* Every unanswered write is to be sent again: none counts as taken. *)
RestoredPuts(c) == 0

(* The connection is made and the state restored.                          *)
Connect(c) ==
    /\ ~connected[c]
    /\ connected' = [connected EXCEPT ![c] = TRUE]
    /\ push' = [push EXCEPT ![c] = RestoredListen]
    /\ taken' = [taken EXCEPT ![c] = RestoredPuts(c)]
    /\ UNCHANGED <<products, view, synced, writes, watching, inbox>>

(* The process of c ends.                                                  *)
EndProcess(c) ==
    /\ view' = [view EXCEPT ![c] = NoProducts]
    /\ synced' = [synced EXCEPT ![c] = FALSE]
    /\ writes' = [writes EXCEPT ![c] = <<>>]
    /\ taken' = [taken EXCEPT ![c] = 0]
    /\ push' = [push EXCEPT ![c] = <<>>]
    /\ connected' = [connected EXCEPT ![c] = FALSE]
    /\ watching' = [watching EXCEPT ![c] = {}]
    /\ inbox' = [inbox EXCEPT ![c] = <<>>]
    /\ UNCHANGED products

-----------------------------------------------------------------------------
(***************************************************************************)
(* The synchronisation on its own, for an app that writes values of W.     *)
(***************************************************************************)
SyncNext(W) ==
    \E c \in Clients :
        \/ \E w \in W : SetValue(c, w)
        \/ \E w1, w2 \in W : SetTwoValues(c, w1, w2)
        \/ \E i \in Items : Observe(c, i) \/ ObserveSingleEvent(c, i)
        \/ inbox[c] # <<>> /\ TakeEvent(c)
        \/ ServerApply(c)
        \/ ReceiveWrite(c)
        \/ ReceiveSnapshot(c)
        \/ Disconnect(c)
        \/ Connect(c)
        \/ EndProcess(c)

-----------------------------------------------------------------------------
(***************************************************************************)
(* What the synchronisation promises.                                      *)
(***************************************************************************)

(* A client reads its own writes: as long as a write has no answer, and no *)
(* later write of the same client sets the field again, the view holds the *)
(* value written, whatever the server sends meanwhile.                     *)
(* (FSyncTree applyUserOverwriteAtPath:, applyServerOverwriteAtPath:)      *)
ReadYourWrites ==
    \A c \in Clients : \A k \in Unanswered(writes[c]) :
        LET w == writes[c][k]
            later == {n \in Unanswered(writes[c]) : n > k /\ writes[c][n].item = w.item}
        IN  \A f \in w.sets \ UNION {writes[c][n].sets : n \in later} :
                view[c][w.item][f] = w.to[f]

(* A connected client with nothing in flight shows what the server holds:  *)
(* no change is lost between server data hidden by pending writes, the     *)
(* answers that uncover it and the snapshots after a reconnect.            *)
SettledViewsAgree ==
    \A c \in Clients :
        connected[c] /\ Unanswered(writes[c]) = {} /\ push[c] = <<>>
            => synced[c] /\ view[c] = products

-----------------------------------------------------------------------------
(***************************************************************************)
(* The inductive invariant, of one client's queue of writes q, its view v, *)
(* what is on its way to it, s, and the server's products p                *)
(***************************************************************************)
Queue == Seq(Write \cup {Null})

(* The unanswered writes that set field f of product i. *)
Setting(q, i, f) == {k \in Unanswered(q) : q[k].item = i /\ f \in q[k].sets}

(* The view has what the newest of them sets. *)
Shows(q, v) ==
    \A i \in Items, f \in Fields : \A k \in Setting(q, i, f) :
        (\A n \in Setting(q, i, f) : n <= k) => v[i][f] = q[k].to[f]

OwnAnswer(c, m) == m.kind = "write" /\ m.from = c

(* The answers on their way are those of the unanswered writes up to t,    *)
(* each of them once and in their order.                                   *)
InOrder(c, q, t, s) ==
    /\ t <= Len(q)
    /\ \A n \in DOMAIN s : OwnAnswer(c, s[n]) =>
           /\ s[n].number \in Unanswered(q)
           /\ s[n].number <= t
           /\ s[n].write = q[s[n].number]
    /\ \A m, n \in DOMAIN s :
           m < n /\ OwnAnswer(c, s[m]) /\ OwnAnswer(c, s[n]) => s[m].number < s[n].number
    /\ \A k \in Unanswered(q) :
           k <= t => \E n \in DOMAIN s : OwnAnswer(c, s[n]) /\ s[n].number = k

(* A message has a value for field f of product i, and which. *)
Tells(m, i, f) == m.kind = "write" => m.write.item = i /\ f \in m.write.sets
Told(m, i, f) == IF m.kind = "write" THEN m.write.to[f] ELSE m.products[i][f]

(* The last message that tells a field has the server's value; a field     *)
(* that none tells, and no unanswered write hides, has it in the view.     *)
Follows(q, v, s, p) ==
    \A i \in Items, f \in Fields :
        /\ \A n \in DOMAIN s :
               Tells(s[n], i, f) /\ (\A m \in DOMAIN s : m > n => ~Tells(s[m], i, f))
                   => Told(s[n], i, f) = p[i][f]
        /\ (\A n \in DOMAIN s : ~Tells(s[n], i, f)) /\ Setting(q, i, f) = {}
               => v[i][f] = p[i][f]

ClientInv(c) ==
    /\ Shows(writes[c], view[c])
    /\ InOrder(c, writes[c], taken[c], push[c])
    /\ connected[c] =>
           /\ Follows(writes[c], view[c], push[c], products)
           /\ synced[c] \/ \E n \in DOMAIN push[c] : push[c][n].kind = "snapshot"
    /\ ~connected[c] => push[c] = <<>> /\ taken[c] = 0

(* The answers come back in the order of the writes, each once; what an    *)
(* unanswered write hides is the write's own value, and what is neither    *)
(* hidden nor on its way is what the server holds.                         *)
(* (FPersistentConnection restoreState, FSyncTree)                         *)
SyncInv == \A c \in Clients : ClientInv(c)
=============================================================================
