---------------------------- MODULE RealtimeSync ----------------------------
(***************************************************************************)
(* Inside the SDK: the requests and answers by which DatabaseSync comes    *)
(* about.                                                                  *)
(*                                                                         *)
(*   - A write goes into the write tree, into the outstanding puts, and,   *)
(*     while the connection is up, to the server (FRepo set:, putInternal).*)
(*   - The server sends the data of a put to every client that listens,    *)
(*     and then the answer of the put to its writer.                       *)
(*   - A put that is answered is no longer outstanding, but it stays in    *)
(*     the write tree as long as a listen waits for its answer (putsToAck).*)
(*   - onDisconnect forgets what waited for answers, not the outstanding   *)
(*     puts and not the held answers; restoreState sends the listens and   *)
(*     then the outstanding puts in the order of their numbers.            *)
(*   - A listen carries the hash of what the client has: if the server has *)
(*     the same, it answers without data.                                  *)
(*                                                                         *)
(* The server takes the puts of a connection in their order.  It may need  *)
(* longer for a listen than for the puts behind it, and the app may listen *)
(* to Users/ as well; "orderly" tells the behaviours without either.  A    *)
(* process that ends takes all of this with it and is not modelled here.   *)
(***************************************************************************)
EXTENDS Products, Sequences, SequencesExt

CONSTANTS
    Clients,
    AppWrites,    \* the writes the app may make
    Stored,       \* the products on the server at the start
    MaxWrites,    \* bound: writes in all
    MaxLosses,    \* bound: lost connections
    MaxListens,   \* bound: times the app listens to Users/
    MaxInAll,     \* bound: all of these together
    MaxInbox      \* bound: events waiting when more are raised

ASSUME RealtimeAssumption ==
    /\ Stored \in [Items -> Product]
    /\ AppWrites \subseteq [item : Items, sets : SUBSET Fields, to : Product]
    /\ {MaxWrites, MaxLosses, MaxListens, MaxInAll, MaxInbox} \subseteq Nat

VARIABLES
    orderly,      \* the server answers in order, the app listens to Products/ only
    products,     \* the server's copy
    listening,    \* the clients whose listen on Products/ the server holds
    takenPut,     \* takenPut[c]: the last put of c the server took on this connection
    up,           \* up[c]: the requests on their way to the server
    down,         \* down[c]: the messages on their way to c
    connected,    \* connected[c]: connectionState is Connected
    listens,      \* listens[c]: the nodes c listens to
    unacked,      \* unacked[c]: unackedListensCount
    outstanding,  \* outstanding[c]: the numbers in outstandingPuts
    putsToAck,    \* putsToAck[c]: the puts answered while listens were not
    writes,       \* writes[c]: the write tree, Null where a write was removed
    serverCache,  \* serverCache[c]: Products/ as c knows it from the server
    complete,     \* complete[c]: the server cache has all of it
    inbox,        \* inbox[c]: the events dispatched to the main queue
    log,          \* history: what the server took, <<client, number>> in order
    known,        \* history: known[c] entries of the log are in serverCache[c]
    left          \* what the bounds leave to do

vars == <<orderly, products, listening, takenPut, up, down, connected, listens, unacked,
          outstanding, putsToAck, writes, serverCache, complete, inbox,
          log, known, left>>

Request == [kind : {"listen"}, node : {"Products", "Users"}, hash : [Items -> Product]]
             \cup [kind : {"put"}, number : Nat, write : AppWrites]

Answer == [kind : {"data"}, products : [Items -> Product], at : Nat]
            \cup [kind : {"update"}, from : Clients, number : Nat, write : AppWrites, at : Nat]
            \cup [kind : {"listen"}, node : {"Products", "Users"}, same : BOOLEAN, at : Nat]
            \cup [kind : {"put"}, number : Nat]

(* Among the types: the count of unanswered listens never drops below 0.   *)
(* (FPersistentConnection sendListen:, the NSAssert on unackedListensCount)*)
TypeOK ==
    /\ orderly \in BOOLEAN
    /\ products \in [Items -> Product]
    /\ listening \subseteq Clients
    /\ takenPut \in [Clients -> Nat]
    /\ up \in [Clients -> Seq(Request)]
    /\ down \in [Clients -> Seq(Answer)]
    /\ connected \in [Clients -> BOOLEAN]
    /\ listens \in [Clients -> {{"Products"}, {"Products", "Users"}}]
    /\ unacked \in [Clients -> Nat]
    /\ outstanding \in [Clients -> SUBSET Nat]
    /\ putsToAck \in [Clients -> Seq(Nat)]
    /\ writes \in [Clients -> Seq(AppWrites \cup {Null})]
    /\ \A c \in Clients : outstanding[c] \cup ToSet(putsToAck[c]) \subseteq DOMAIN writes[c]
    /\ serverCache \in [Clients -> [Items -> Product]]
    /\ complete \in [Clients -> BOOLEAN]
    /\ DOMAIN inbox = Clients
    /\ log \in Seq(Clients \X Nat)
    /\ known \in [Clients -> Nat]
    /\ \A c \in Clients : known[c] <= Len(log)
    /\ left \in [writes : Nat, losses : Nat, listens : Nat]

NoProducts_ == [i \in Items |-> NoProduct]

Init ==
    /\ orderly \in BOOLEAN
    /\ products = Stored
    /\ listening = {}
    /\ takenPut = [c \in Clients |-> 0]
    /\ up = [c \in Clients |-> <<>>]
    /\ down = [c \in Clients |-> <<>>]
    /\ connected = [c \in Clients |-> FALSE]
    /\ listens = [c \in Clients |-> {"Products"}]
    /\ unacked = [c \in Clients |-> 0]
    /\ outstanding = [c \in Clients |-> {}]
    /\ putsToAck = [c \in Clients |-> <<>>]
    /\ writes = [c \in Clients |-> <<>>]
    /\ serverCache = [c \in Clients |-> NoProducts_]
    /\ complete = [c \in Clients |-> FALSE]
    /\ inbox = [c \in Clients |-> <<>>]
    /\ log = <<>>
    /\ known = [c \in Clients |-> 0]
    /\ left = [writes |-> MaxWrites, losses |-> MaxLosses, listens |-> MaxListens]

-----------------------------------------------------------------------------
(***************************************************************************)
(* Views                                                                   *)
(***************************************************************************)

(* What the observers see: the newest write of q that sets a field, or     *)
(* else the server cache.                                                  *)
EventCache(cache, q) ==
    LET setting(i, f) == {k \in DOMAIN q : q[k] # Null /\ q[k].item = i /\ f \in q[k].sets}
        newest(i, f) == CHOOSE k \in setting(i, f) : \A j \in setting(i, f) : j <= k
    IN  [i \in Items |-> [f \in Fields |-> IF setting(i, f) = {} THEN cache[i][f]
                                           ELSE q[newest(i, f)].to[f]]]

View(c) == EventCache(serverCache[c], writes[c])

(***************************************************************************)
(* How the pipeline implements DatabaseSync: a client is connected there   *)
(* when the server has its listen; data of an own put is nothing until the *)
(* answer of the put arrives; an answer without data is the snapshot the   *)
(* client already has.  The one observer here is that of Products/.        *)
(***************************************************************************)
Arriving(c, m) ==
    CASE m.kind = "data"   -> [kind |-> "snapshot", products |-> m.products]
      [] m.kind = "update" -> [kind |-> "write", from |-> m.from, number |-> m.number,
                               write |-> m.write]
      [] m.kind = "put"    -> [kind |-> "write", from |-> c, number |-> m.number,
                               write |-> writes[c][m.number]]
      [] m.kind = "listen" -> [kind |-> "snapshot", products |-> serverCache[c]]

Push(c) ==
    LET matters(m) == ~ \/ m.kind = "update" /\ m.from = c
                        \/ m.kind = "listen" /\ ~m.same
        arriving == SelectSeq(down[c], matters)
    IN  [n \in DOMAIN arriving |-> Arriving(c, arriving[n])]

Sync == INSTANCE DatabaseSync WITH
            view      <- [c \in Clients |-> View(c)],
            synced    <- complete,
            watching  <- [c \in Clients |-> {}],
            taken     <- takenPut,
            push      <- [c \in Clients |-> Push(c)],
            connected <- [c \in Clients |-> c \in listening]

Raise(c, events) ==
    /\ events # <<>> => Len(inbox[c]) <= MaxInbox
    /\ inbox' = [inbox EXCEPT ![c] = @ \o events]

-----------------------------------------------------------------------------
(***************************************************************************)
(* The app                                                                 *)
(***************************************************************************)

(* What the app and the network have done so far, for the bounds. *)
SoFar == (MaxWrites - left.writes) + (MaxLosses - left.losses) + (MaxListens - left.listens)

ListenRequest(c, node) ==
    [kind |-> "listen", node |-> node, hash |-> serverCache[c]]

PutRequest(q, k) == [kind |-> "put", number |-> k, write |-> q[k]]

SetValue(c, w) ==
    LET q == Append(writes[c], w)
    IN  /\ left.writes > 0 /\ SoFar < MaxInAll
        /\ left' = [left EXCEPT !.writes = @ - 1]
        /\ writes' = [writes EXCEPT ![c] = q]
        /\ Raise(c, Sync!EventsOf(c, View(c), EventCache(serverCache[c], q)))
        /\ outstanding' = [outstanding EXCEPT ![c] = @ \cup {Len(q)}]
        /\ up' = IF connected[c] THEN [up EXCEPT ![c] = Append(@, PutRequest(q, Len(q)))]
                 ELSE up
        /\ UNCHANGED <<orderly, products, listening, takenPut, down, connected, listens,
                       unacked, putsToAck, serverCache, complete, log, known>>

(* observeSingleEvent on Users/, which no other observer listens to. *)
ListenToUsers(c) ==
    /\ ~orderly
    /\ "Users" \notin listens[c]
    /\ left.listens > 0 /\ SoFar < MaxInAll
    /\ left' = [left EXCEPT !.listens = @ - 1]
    /\ listens' = [listens EXCEPT ![c] = @ \cup {"Users"}]
    /\ IF connected[c]
       THEN /\ up' = [up EXCEPT ![c] = Append(@, ListenRequest(c, "Users"))]
            /\ unacked' = [unacked EXCEPT ![c] = @ + 1]
       ELSE UNCHANGED <<up, unacked>>
    /\ UNCHANGED <<orderly, products, listening, takenPut, down, connected, outstanding,
                   putsToAck, writes, serverCache, complete, inbox, log, known>>

TakeEvent(c) ==
    /\ inbox[c] # <<>>
    /\ inbox' = [inbox EXCEPT ![c] = Tail(@)]
    /\ UNCHANGED <<orderly, products, listening, takenPut, up, down, connected, listens,
                   unacked, outstanding, putsToAck, writes, serverCache, complete,
                   log, known, left>>

-----------------------------------------------------------------------------
(***************************************************************************)
(* The connection                                                          *)
(***************************************************************************)

OutstandingSeqs(c) == [1..Cardinality(outstanding[c]) -> outstanding[c]]

\* Wrong on purpose: the puts are restored newest first.
RestoredPuts_NewestFirst(c) ==
    CHOOSE s \in OutstandingSeqs(c) : \A m, n \in DOMAIN s : m < n => s[m] > s[n]

(* The outstanding puts in the order of their numbers. *)
RestoredPuts(c) ==
    CHOOSE s \in OutstandingSeqs(c) : \A m, n \in DOMAIN s : m < n => s[m] < s[n]

(* onReady: the state is restored. *)
Connect(c) ==
    LET again == SetToSeq(listens[c])
    IN  /\ ~connected[c]
        /\ connected' = [connected EXCEPT ![c] = TRUE]
        /\ unacked' = [unacked EXCEPT ![c] = @ + Len(again)]
        /\ up' = [up EXCEPT ![c] =
                    [n \in DOMAIN again |-> ListenRequest(c, again[n])]
                      \o [n \in DOMAIN RestoredPuts(c) |->
                            PutRequest(writes[c], RestoredPuts(c)[n])]]
        /\ UNCHANGED <<orderly, products, listening, takenPut, down, listens, outstanding,
                       putsToAck, writes, serverCache, complete, inbox, log,
                       known, left>>

\* Wrong on purpose: the puts that were sent are forgotten.
OutstandingAfterLoss_None(c) == {}

(* Of the outstanding puts only those of transactions are cancelled. *)
OutstandingAfterLoss(c) == outstanding[c]

\* Wrong on purpose: answers on their way still find their callbacks.
DownAfterLoss_Kept(c) == down[c]

(* requestCBHash is emptied: what was on its way reaches nobody. *)
DownAfterLoss(c) == <<>>

\* Wrong on purpose: the listens that had no answer stay counted.
UnackedAfterLoss_Kept(c) == unacked[c]

UnackedAfterLoss(c) == 0

(* onDisconnect *)
Disconnect(c) ==
    /\ connected[c]
    /\ left.losses > 0 /\ SoFar < MaxInAll
    /\ left' = [left EXCEPT !.losses = @ - 1]
    /\ connected' = [connected EXCEPT ![c] = FALSE]
    /\ outstanding' = [outstanding EXCEPT ![c] = OutstandingAfterLoss(c)]
    /\ unacked' = [unacked EXCEPT ![c] = UnackedAfterLoss(c)]
    /\ up' = [up EXCEPT ![c] = <<>>]
    /\ down' = [down EXCEPT ![c] = DownAfterLoss(c)]
    /\ listening' = listening \ {c}
    /\ takenPut' = [takenPut EXCEPT ![c] = 0]
    /\ UNCHANGED <<orderly, products, listens, putsToAck, writes, serverCache, complete,
                   inbox, log, known>>

-----------------------------------------------------------------------------
(***************************************************************************)
(* The server                                                              *)
(***************************************************************************)

(* The requests of c the server may take now. *)
Takeable(c) ==
    {n \in DOMAIN up[c] :
        IF orderly THEN n = 1
        ELSE up[c][n].kind = "put" => \A m \in 1..n-1 : up[c][m].kind # "put"}

ServerListen(c) ==
    \E n \in Takeable(c) :
      LET r == up[c][n]
          same == r.hash = products
          answer == [kind |-> "listen", node |-> r.node, same |-> same, at |-> Len(log)]
          data == [kind |-> "data", products |-> products, at |-> Len(log)]
      IN  /\ r.kind = "listen"
          /\ up' = [up EXCEPT ![c] = RemoveAt(@, n)]
          /\ down' = [down EXCEPT ![c] =
                        IF r.node = "Users" \/ same THEN Append(@, answer)
                        ELSE @ \o <<data, answer>>]
          /\ listening' = IF r.node = "Products" THEN listening \cup {c} ELSE listening
          /\ UNCHANGED <<orderly, products, takenPut, connected, listens, unacked,
                         outstanding, putsToAck, writes, serverCache, complete,
                         inbox, log, known, left>>

ServerPut(c) ==
    \E n \in Takeable(c) :
      LET r == up[c][n]
          update == [kind |-> "update", from |-> c, number |-> r.number, write |-> r.write,
                     at |-> Len(log) + 1]
          answer == [kind |-> "put", number |-> r.number]
          to(d) == (IF d \in listening THEN <<update>> ELSE <<>>)
                     \o (IF d = c THEN <<answer>> ELSE <<>>)
      IN  /\ r.kind = "put"
          /\ up' = [up EXCEPT ![c] = RemoveAt(@, n)]
          /\ products' = Apply(products, r.write)
          /\ down' = [d \in Clients |-> down[d] \o to(d)]
          /\ takenPut' = [takenPut EXCEPT ![c] = r.number]
          /\ log' = Append(log, <<c, r.number>>)
          /\ UNCHANGED <<orderly, listening, connected, listens, unacked, outstanding,
                         putsToAck, writes, serverCache, complete, inbox, known,
                         left>>

-----------------------------------------------------------------------------
(***************************************************************************)
(* What arrives                                                            *)
(***************************************************************************)
Arrives(c, kind) ==
    /\ down[c] # <<>>
    /\ Head(down[c]).kind = kind
    /\ down' = [down EXCEPT ![c] = Tail(@)]

(* The server's data comes into the server cache. *)
NewCache(c, cache, at) ==
    LET v == EventCache(cache, writes[c])
    IN  /\ serverCache' = [serverCache EXCEPT ![c] = cache]
        /\ complete' = [complete EXCEPT ![c] = TRUE]
        /\ known' = [known EXCEPT ![c] = at]
        /\ Raise(c, IF complete[c] THEN Sync!EventsOf(c, View(c), v)
                                   ELSE <<Sync!ProductsEvent(v)>>)
        /\ UNCHANGED <<orderly, products, listening, takenPut, up, connected, listens,
                       unacked, outstanding, putsToAck, writes, log, left>>

ReceiveData(c) ==
    LET m == Head(down[c])
    IN  /\ Arrives(c, "data")
        /\ NewCache(c, m.products, m.at)

ReceiveUpdate(c) ==
    LET m == Head(down[c])
    IN  /\ Arrives(c, "update")
        /\ NewCache(c, Apply(serverCache[c], m.write), m.at)

(* q without the writes of S. *)
Without(q, S) == [k \in DOMAIN q |-> IF k \in S THEN Null ELSE q[k]]

(* The answer to a listen: once none is missing the held answers to puts   *)
(* take effect.                                                            *)
ReceiveListenAnswer(c) ==
    LET m == Head(down[c])
        released == IF unacked[c] = 1 THEN ToSet(putsToAck[c]) ELSE {}
        q == Without(writes[c], released)
        v == EventCache(serverCache[c], q)
    IN  /\ Arrives(c, "listen")
        /\ unacked' = [unacked EXCEPT ![c] = @ - 1]
        /\ putsToAck' = [putsToAck EXCEPT ![c] = IF unacked[c] = 1 THEN <<>> ELSE @]
        /\ writes' = [writes EXCEPT ![c] = q]
        /\ IF m.node = "Users"
           THEN /\ listens' = [listens EXCEPT ![c] = @ \ {"Users"}]
                /\ Raise(c, Sync!EventsOf(c, View(c), v))
                /\ UNCHANGED <<complete, known>>
           ELSE /\ complete' = [complete EXCEPT ![c] = TRUE]
                /\ known' = [known EXCEPT ![c] = IF m.same THEN m.at ELSE @]
                /\ Raise(c, IF complete[c] THEN Sync!EventsOf(c, View(c), v)
                                           ELSE <<Sync!ProductsEvent(v)>>)
                /\ UNCHANGED listens
        /\ UNCHANGED <<orderly, products, listening, takenPut, up, connected, outstanding,
                       serverCache, log, left>>

\* Wrong on purpose: no answer is held.
AckedAtOnce_Always(c) == TRUE

(* The answer to a put takes effect at once unless a listen has none. *)
AckedAtOnce(c) == unacked[c] = 0

ReceivePutAnswer(c) ==
    LET k == Head(down[c]).number
        q == Without(writes[c], {k})
    IN  /\ Arrives(c, "put")
        /\ outstanding' = [outstanding EXCEPT ![c] = @ \ {k}]
        /\ IF AckedAtOnce(c)
           THEN /\ writes' = [writes EXCEPT ![c] = q]
                /\ Raise(c, Sync!EventsOf(c, View(c), EventCache(serverCache[c], q)))
                /\ UNCHANGED putsToAck
           ELSE /\ putsToAck' = [putsToAck EXCEPT ![c] = Append(@, k)]
                /\ UNCHANGED <<writes, inbox>>
        /\ UNCHANGED <<orderly, products, listening, takenPut, up, connected, listens,
                       unacked, serverCache, complete, log, known, left>>

-----------------------------------------------------------------------------
Next == \E c \in Clients :
    \/ \E w \in AppWrites : SetValue(c, w)
    \/ ListenToUsers(c)
    \/ TakeEvent(c)
    \/ Connect(c)
    \/ Disconnect(c)
    \/ ServerListen(c)
    \/ ServerPut(c)
    \/ ReceiveData(c)
    \/ ReceiveUpdate(c)
    \/ ReceiveListenAnswer(c)
    \/ ReceivePutAnswer(c)

Spec == Init /\ [][Next]_vars

-----------------------------------------------------------------------------
(***************************************************************************)
(* What the pipeline promises.                                             *)
(***************************************************************************)

(* A write leaves the write tree only when the server cache has what the   *)
(* server made of it: the app is never shown a state from before its own   *)
(* write again.  (FPersistentConnection sendPut:, ackPuts)                 *)
AnsweredIsKnown ==
    \A c \in Clients : \A n \in DOMAIN log :
        log[n][1] = c /\ writes[c][log[n][2]] = Null => n <= known[c]

(* A client to whom and from whom nothing is on its way has every write    *)
(* answered, no answer held, and shows what the server holds, whatever was *)
(* lost before.  (FPersistentConnection onDisconnect:, restoreState)       *)
QuietClientAgrees ==
    \A c \in Clients :
        connected[c] /\ up[c] = <<>> /\ down[c] = <<>>
            => /\ unacked[c] = 0
               /\ outstanding[c] = {} /\ putsToAck[c] = <<>>
               /\ Sync!Unanswered(writes[c]) = {}
               /\ complete[c] /\ View(c) = products

(* When no put of a client is outstanding, the last of them the server     *)
(* took is the newest one: sending puts again never leaves an older value  *)
(* on top of a newer one of the same client.                               *)
(* (FPersistentConnection restoreState: the puts are sorted)               *)
NewestPutIsLast ==
    \A c \in Clients :
        LET own == {n \in DOMAIN log : log[n][1] = c}
        IN  outstanding[c] = {} /\ writes[c] # <<>>
                => \E n \in own : (\A m \in own : m <= n) /\ log[n][2] = Len(writes[c])

(* With one listen and a server that answers in order, the pipeline is     *)
(* DatabaseSync: every step of it is a step there or changes nothing.      *)
ImplementsSync ==
    /\ Sync!SyncInit(Stored)
    /\ [][orderly => Sync!SyncNext(AppWrites) \/ UNCHANGED Sync!syncVars]_vars

-----------------------------------------------------------------------------
(***************************************************************************)
(* The inductive invariant, of one client                                  *)
(***************************************************************************)
IsListen(m, node) == m.kind = "listen" /\ m.node = node

ListensIn(s, node) == {n \in DOMAIN s : IsListen(s[n], node)}

(* Where a listen of c waits for the server, and where its answer is. *)
Sent(c, node) == ListensIn(up[c], node)
Answered(c, node) == ListensIn(down[c], node)
InFlight(c, node) == Sent(c, node) # {} \/ Answered(c, node) # {}

AtMostOnce(c, node) ==
    /\ Sent(c, node) = {} \/ Answered(c, node) = {}
    /\ \A m, n \in Sent(c, node) : m = n
    /\ \A m, n \in Answered(c, node) : m = n

(* A listen is on its way once or not at all, and those that are make up   *)
(* the count.                                                              *)
ListensInv(c) ==
    LET count(node) == IF InFlight(c, node) THEN 1 ELSE 0
    IN  /\ AtMostOnce(c, "Products") /\ AtMostOnce(c, "Users")
        /\ unacked[c] = count("Products") + count("Users")
        /\ IF connected[c]
           THEN /\ "Users" \in listens[c] <=> InFlight(c, "Users")
                /\ c \in listening <=> Sent(c, "Products") = {}
           ELSE up[c] = <<>> /\ down[c] = <<>> /\ c \notin listening

Held(c) == ToSet(putsToAck[c])

(* The numbers of the puts in a channel. *)
Puts(s) == {s[n].number : n \in {m \in DOMAIN s : s[m].kind = "put"}}

Ascending(s) ==
    \A m, n \in DOMAIN s :
        m < n /\ s[m].kind = "put" /\ s[n].kind = "put" => s[m].number < s[n].number

(* c's last entry in the log is of its write k or of a later one. *)
TakenTo(c, k) ==
    \E n \in DOMAIN log :
        /\ log[n][1] = c /\ log[n][2] >= k
        /\ \A m \in DOMAIN log : log[m][1] = c => m <= n

(* The outstanding puts are the newest; on a connection each is on its way *)
(* up, or its answer down, in their order.  What is neither outstanding    *)
(* nor held is answered.                                                   *)
PutsInv(c) ==
    /\ outstanding[c] \cap Held(c) = {}
    /\ \A k \in DOMAIN writes[c] : writes[c][k] # Null <=> k \in outstanding[c] \cup Held(c)
    /\ \A j \in outstanding[c], k \in DOMAIN writes[c] : j <= k => k \in outstanding[c]
    /\ \A n \in DOMAIN up[c] :
           up[c][n].kind = "put" => up[c][n].write = writes[c][up[c][n].number]
    /\ Puts(up[c]) \cup Puts(down[c]) \subseteq outstanding[c]
    /\ connected[c] => outstanding[c] \subseteq Puts(up[c]) \cup Puts(down[c])
    /\ Ascending(up[c]) /\ Ascending(down[c])
    /\ \A j \in Puts(down[c]), k \in Puts(up[c]) : j < k
    /\ connected[c] /\ putsToAck[c] # <<>> => unacked[c] > 0
    /\ \A n \in DOMAIN log : log[n][1] = c => log[n][2] \in DOMAIN writes[c]
    /\ \A k \in DOMAIN writes[c] : k \notin outstanding[c] => TakenTo(c, k)
    /\ \A k \in Puts(down[c]) : TakenTo(c, k)

(* Message m makes entry n of the log known. *)
Brings(m, n) ==
    /\ \/ m.kind \in {"data", "update"}
       \/ IsListen(m, "Products") /\ m.same
    /\ n <= m.at

(* The answer to the listen on Products/ is in channel s behind place k,   *)
(* and stands for entry n of the log.                                      *)
Confirms(s, k, n) == \E j \in ListensIn(s, "Products") : j > k /\ n <= s[j].at

(* The server's messages bring ever later entries.                         *)
AscendingAts(c) ==
    \A n \in DOMAIN down[c] : down[c][n].kind # "put" =>
        /\ known[c] <= down[c][n].at /\ down[c][n].at <= Len(log)
        /\ \A m \in DOMAIN down[c] :
               m < n /\ down[c][m].kind # "put" => down[c][m].at <= down[c][n].at

(* An entry of c is known, or its put has no answer, or that is held until *)
(* the answer to the listen, which makes the entry known.                  *)
EntriesKnown(c) ==
    \A n \in DOMAIN log : log[n][1] = c =>
        \/ n <= known[c]
        \/ log[n][2] \in outstanding[c]
        \/ log[n][2] \in Held(c) /\ (c \in listening => Confirms(down[c], 0, n))

(* The entry of a put comes before the answer of the put, or with a listen *)
(* that has no answer yet and so holds that of the put.                    *)
PutsKnown(c) ==
    \A n \in DOMAIN log, m \in DOMAIN down[c] :
        log[n][1] = c /\ down[c][m].kind = "put" /\ down[c][m].number = log[n][2]
            => \/ n <= known[c]
               \/ c \notin listening
               \/ \E j \in DOMAIN down[c] : j < m /\ Brings(down[c][j], n)
               \/ Confirms(down[c], m, n)

(* What a listen stands for comes before its answer, or is there already.  *)
ListenKnown(c) ==
    \A n \in Answered(c, "Products") :
        \/ down[c][n].same
        \/ down[c][n].at <= known[c]
        \/ \E j \in DOMAIN down[c] : j < n /\ Brings(down[c][j], down[c][n].at)

(* What the server took of c is known to c when the answer takes effect.   *)
KnownInv(c) == AscendingAts(c) /\ EntriesKnown(c) /\ PutsKnown(c) /\ ListenKnown(c)

(* A message has a value for field f of product i, and which. *)
Tells(m, i, f) ==
    \/ m.kind = "data"
    \/ m.kind = "update" /\ m.write.item = i /\ f \in m.write.sets

Told(m, i, f) == IF m.kind = "data" THEN m.products[i][f] ELSE m.write.to[f]

(* The last message that tells a field has the server's value; what none   *)
(* tells is so in the cache.                                               *)
Follows(cache, s, p) ==
    \A i \in Items, f \in Fields :
        /\ \A n \in DOMAIN s :
               Tells(s[n], i, f) /\ (\A m \in DOMAIN s : m > n => ~Tells(s[m], i, f))
                   => Told(s[n], i, f) = p[i][f]
        /\ (\A n \in DOMAIN s : ~Tells(s[n], i, f)) => cache[i][f] = p[i][f]

(* Until the server has the listen, nothing of Products/ comes, and the    *)
(* hash that was sent is that of the cache.                                *)
CacheInv(c) ==
    connected[c] =>
        /\ complete[c] \/ InFlight(c, "Products")
        /\ IF c \in listening THEN Follows(serverCache[c], down[c], products)
           ELSE /\ \A n \in DOMAIN down[c] : down[c][n].kind \notin {"data", "update"}
                /\ \A n \in Sent(c, "Products") : up[c][n].hash = serverCache[c]

(* The listens that wait are counted rightly, the puts are answered in     *)
(* their order, an answer takes effect after the data it stands for, and   *)
(* what is not on its way to a cache is in it.                             *)
(* (FPersistentConnection sendListen:, sendPut:, ackPuts, restoreState)    *)
RealtimeInv ==
    \A c \in Clients : ListensInv(c) /\ PutsInv(c) /\ KnownInv(c) /\ CacheInv(c)
=============================================================================
