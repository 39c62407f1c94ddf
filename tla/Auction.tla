------------------------------ MODULE Auction -------------------------------
(***************************************************************************)
(* The auction app: several devices on which signed-in users open          *)
(* auctions, look at them, bid on them and delete them, over the shared    *)
(* Products/ node of the database (DatabaseSync).                          *)
(*                                                                         *)
(* All the tabs of the app share ONE variable, SelectedToViewAuctionItem   *)
(* of the AppDelegate: selecting a row of any list sets it, the bid screen *)
(* and the delete screen act on whatever it holds when their button is     *)
(* tapped, and every observer a detail screen has ever added writes the    *)
(* price of the product it observes into it.  Each tab keeps its own       *)
(* navigation stack, so a detail screen stays open in one tab while rows   *)
(* are selected in another.                                                *)
(***************************************************************************)
EXTENDS DatabaseSync

CONSTANTS
    SignedIn_UserName,  \* the user signed in on each device
    Amounts,            \* the amounts users type
    OpenedBefore,       \* the auctions opened before the devices start
    MaxTime,            \* bound: the clock stops there
    MaxBids,            \* bound: bids that pass the checks
    MaxDeletes,         \* bound: deletions
    MaxFaults,          \* bound: lost connections and ended processes
    MaxInbox            \* bound: events waiting when a detail screen is opened

ASSUME AuctionAssumption ==
    /\ SignedIn_UserName \in [Clients -> Users]
    /\ Amounts \subseteq Nat
    /\ OpenedBefore \in [Items -> Listing \cup {Null}]
    /\ Null \notin AuctionItem
    /\ {MaxTime, MaxBids, MaxDeletes, MaxFaults, MaxInbox} \subseteq Nat

(* The clock starts at 0: what was opened before was not opened later. *)
ASSUME OpenedBeforeAssumption ==
    \A i \in Items : OpenedBefore[i] # Null => OpenedBefore[i].opendate <= 0

VARIABLES
    process,       \* process[c]: "running", "ended" or "crashed"
    selected,      \* selected[c]: SelectedToViewAuctionItem
    selectedIn,    \* selectedIn[c]: the list it still is an element of, or "none"
    lists,         \* lists[c]: the AuctionItemList of the Feed, Listings and Won tabs
    bidScreen,     \* bidScreen[c]: HomeFeedDetails is open in the Feed tab
    deleteScreen,  \* deleteScreen[c]: YourListingsDetails is open in the Listings tab
    opened,        \* opened[i]: the listing written under key i, Null if none was yet
    now,           \* the clock
    left           \* what the bounds leave to do

appVars == <<process, selected, selectedIn, lists, bidScreen, deleteScreen, opened, now, left>>
vars == <<syncVars, appVars>>

Lists == [home : SUBSET AuctionItem, yours : SUBSET AuctionItem, won : SUBSET AuctionItem]

TypeOK ==
    /\ SyncTypeOK
    /\ process \in [Clients -> {"running", "ended", "crashed"}]
    /\ selected \in [Clients -> AuctionItem \cup {Null}]
    /\ selectedIn \in [Clients -> {"none", "home", "yours", "won"}]
    /\ lists \in [Clients -> Lists]
    /\ bidScreen \in [Clients -> BOOLEAN]
    /\ deleteScreen \in [Clients -> BOOLEAN]
    /\ opened \in [Items -> Listing \cup {Null}]
    /\ now \in Nat
    /\ left \in [bids : Nat, deletes : Nat, faults : Nat]

Init ==
    /\ SyncInit([i \in Items |-> IF OpenedBefore[i] = Null THEN NoProduct
                                ELSE NewProduct(OpenedBefore[i])])
    /\ process = [c \in Clients |-> "running"]
    /\ selected = [c \in Clients |-> Null]
    /\ selectedIn = [c \in Clients |-> "none"]
    /\ lists = [c \in Clients |-> NoLists]
    /\ bidScreen = [c \in Clients |-> FALSE]
    /\ deleteScreen = [c \in Clients |-> FALSE]
    /\ opened = OpenedBefore
    /\ now = 0
    /\ left = [bids |-> MaxBids, deletes |-> MaxDeletes, faults |-> MaxFaults]

-----------------------------------------------------------------------------
(***************************************************************************)
(* The users                                                               *)
(***************************************************************************)

(* Open auction: Submit_Auction, once its form is filled in.               *)
Submit_Auction(c, i, price, closing) ==
    LET l == [openby |-> SignedIn_UserName[c], opendate |-> CutToMinute(now),
              closedate |-> CutToMinute(closing), startingprice |-> price]
    IN  /\ process[c] = "running"
        /\ opened[i] = Null
        /\ closing >= now
        /\ opened' = [opened EXCEPT ![i] = l]
        /\ SetValue(c, CreateProduct(i, l))
        /\ UNCHANGED <<process, selected, selectedIn, lists, bidScreen, deleteScreen,
                      now, left>>

(* A row of a list is selected. *)
Select(c, a, list) ==
    /\ selected' = [selected EXCEPT ![c] = a]
    /\ selectedIn' = [selectedIn EXCEPT ![c] = list]

(* Feed: a row is selected and HomeFeedDetails is pushed.  The observer its *)
(* viewDidLoad adds is never removed.                                      *)
OpenBidScreen(c, a) ==
    /\ process[c] = "running"
    /\ ~bidScreen[c]
    /\ a \in lists[c].home
    /\ Len(inbox[c]) < MaxInbox
    /\ Select(c, a, "home")
    /\ bidScreen' = [bidScreen EXCEPT ![c] = TRUE]
    /\ Observe(c, a.uniqueKey)
    /\ UNCHANGED <<process, lists, deleteScreen, opened, now, left>>

CloseBidScreen(c) ==
    /\ process[c] = "running"
    /\ bidScreen[c]
    /\ bidScreen' = [bidScreen EXCEPT ![c] = FALSE]
    /\ UNCHANGED <<syncVars, process, selected, selectedIn, lists, deleteScreen, opened, now, left>>

(* Listings: a row is selected and YourListingsDetails is pushed.          *)
OpenDeleteScreen(c, a) ==
    /\ process[c] = "running"
    /\ ~deleteScreen[c]
    /\ a \in lists[c].yours
    /\ Len(inbox[c]) < MaxInbox
    /\ Select(c, a, "yours")
    /\ deleteScreen' = [deleteScreen EXCEPT ![c] = TRUE]
    /\ ObserveSingleEvent(c, a.uniqueKey)
    /\ UNCHANGED <<process, lists, bidScreen, opened, now, left>>

CloseDeleteScreen(c) ==
    /\ process[c] = "running"
    /\ deleteScreen[c]
    /\ deleteScreen' = [deleteScreen EXCEPT ![c] = FALSE]
    /\ UNCHANGED <<syncVars, process, selected, selectedIn, lists, bidScreen, opened, now, left>>

(* Won: a row is selected; its details screen only shows it.               *)
SelectWon(c, a) ==
    /\ process[c] = "running"
    /\ a \in lists[c].won
    /\ Select(c, a, "won")
    /\ UNCHANGED <<syncVars, process, lists, bidScreen, deleteScreen, opened, now, left>>

\* Wrong on purpose: the first bid need not reach the starting price.
BidAccepted_AboveHighest(c, a, amount) ==
    /\ a.openedBy # SignedIn_UserName[c]
    /\ IsBetween(now, a.openDate, a.closeDate)
    /\ amount > a.highestBidPrice

\* Wrong on purpose: the opener may bid.
BidAccepted_AnyUser(c, a, amount) ==
    /\ IsBetween(now, a.openDate, a.closeDate)
    /\ IF a.highestBidPrice < a.startingPrice
       THEN amount >= a.startingPrice
       ELSE amount > a.highestBidPrice

(* The checks of Bid_Submit, in terms of the item selected now.            *)
BidAccepted(c, a, amount) ==
    /\ a.openedBy # SignedIn_UserName[c]
    /\ IsBetween(now, a.openDate, a.closeDate)
    /\ IF a.highestBidPrice < a.startingPrice
       THEN amount >= a.startingPrice
       ELSE amount > a.highestBidPrice

(* A rejected bid shows an alert and changes nothing.                      *)
Bid_Submit(c, amount) ==
    LET a == selected[c]
    IN  /\ process[c] = "running"
        /\ bidScreen[c]
        /\ left.bids > 0
        /\ BidAccepted(c, a, amount)
        /\ SetTwoValues(c, SetPrice(a.uniqueKey, amount),
                           SetBidder(a.uniqueKey, SignedIn_UserName[c]))
        /\ left' = [left EXCEPT !.bids = @ - 1]
        /\ UNCHANGED <<process, selected, selectedIn, lists, bidScreen, deleteScreen, opened,
                      now>>

Delete_Listing(c) ==
    /\ process[c] = "running"
    /\ deleteScreen[c]
    /\ left.deletes > 0
    /\ SetValue(c, RemoveProduct(selected[c].uniqueKey))
    /\ deleteScreen' = [deleteScreen EXCEPT ![c] = FALSE]
    /\ left' = [left EXCEPT !.deletes = @ - 1]
    /\ UNCHANGED <<process, selected, selectedIn, lists, bidScreen, opened, now>>

-----------------------------------------------------------------------------
(***************************************************************************)
(* The callbacks of the observers                                          *)
(***************************************************************************)

(* The process of c ends in state s; all the app holds is gone.            *)
Stop(c, s) ==
    /\ process' = [process EXCEPT ![c] = s]
    /\ selected' = [selected EXCEPT ![c] = Null]
    /\ selectedIn' = [selectedIn EXCEPT ![c] = "none"]
    /\ lists' = [lists EXCEPT ![c] = NoLists]
    /\ bidScreen' = [bidScreen EXCEPT ![c] = FALSE]
    /\ deleteScreen' = [deleteScreen EXCEPT ![c] = FALSE]
    /\ EndProcess(c)

\* Wrong on purpose: the lists are not emptied before they are filled.
Refilled_NotEmptied(c, prods) ==
    LET old == lists[c]
        new == ListsOf(prods, SignedIn_UserName[c], now)
    IN  [home |-> old.home \cup new.home, yours |-> old.yours \cup new.yours,
         won |-> old.won \cup new.won]

Refilled(c, prods) == ListsOf(prods, SignedIn_UserName[c], now)

(* retrieveData: the lists are emptied and filled again with new objects;  *)
(* a product that lacks a child fails a force cast.                        *)
ProductsCallback(c) ==
    LET e == Head(inbox[c])
    IN  /\ inbox[c] # <<>>
        /\ e.observer = "products"
        /\ \A i \in Items : ~Partial(e.snapshot[i])
        /\ lists' = [lists EXCEPT ![c] = Refilled(c, e.snapshot)]
        /\ selectedIn' = [selectedIn EXCEPT ![c] = "none"]
        /\ TakeEvent(c)
        /\ UNCHANGED <<process, selected, bidScreen, deleteScreen, opened, now, left>>

(* AuctionItem is a class: the selected item and the element of the list   *)
(* it was selected in are one object, until the list is filled again.      *)
SetSelectedPrice(c, price) ==
    LET a == [selected[c] EXCEPT !.highestBidPrice = price]
        t == selectedIn[c]
    IN  /\ selected' = [selected EXCEPT ![c] = a]
        /\ lists' = IF t = "none" THEN lists
                    ELSE [lists EXCEPT ![c][t] = (@ \ {selected[c]}) \cup {a}]

\* Wrong on purpose: the casts are conditional.
HasPriceAndBidder_Any(p) == TRUE

(* What the two force casts of a detail screen's observer ask for.         *)
HasPriceAndBidder(p) == p.highestbidprice # Null /\ p.highestbidder # Null

(* The price goes into the item selected NOW, and so into the list it is   *)
(* an element of.  When several products of a snapshot changed, the last   *)
(* observer to run decides.                                                *)
DetailCallback(c) ==
    LET e == Head(inbox[c])
    IN  /\ inbox[c] # <<>>
        /\ e.observer = "detail"
        /\ \A i \in e.items : HasPriceAndBidder(e.snapshot[i])
        /\ \E i \in e.items :
               SetSelectedPrice(c, e.snapshot[i].highestbidprice)
        /\ TakeEvent(c)
        /\ UNCHANGED <<process, selectedIn, bidScreen, deleteScreen, opened, now, left>>

(* A callback that meets an absent child ends the process.                 *)
CallbackCrashes(c) ==
    LET e == Head(inbox[c])
    IN  /\ inbox[c] # <<>>
        /\ \/ e.observer = "products" /\ \E i \in Items : Partial(e.snapshot[i])
           \/ e.observer = "detail" /\ \E i \in e.items : ~HasPriceAndBidder(e.snapshot[i])
        /\ Stop(c, "crashed")
        /\ UNCHANGED <<opened, now, left>>

-----------------------------------------------------------------------------
(***************************************************************************)
(* The database's steps and the environment                                *)
(***************************************************************************)
ServerStep(c) == ServerApply(c) /\ UNCHANGED appVars

ReceiveStep(c) == (ReceiveWrite(c) \/ ReceiveSnapshot(c)) /\ UNCHANGED appVars

ConnectStep(c) ==
    /\ process[c] = "running"
    /\ Connect(c)
    /\ UNCHANGED appVars

LoseConnection(c) ==
    /\ left.faults > 0
    /\ Disconnect(c)
    /\ left' = [left EXCEPT !.faults = @ - 1]
    /\ UNCHANGED <<process, selected, selectedIn, lists, bidScreen, deleteScreen, opened,
                      now>>

(* The user or the system ends the app.                                    *)
Kill(c) ==
    /\ process[c] = "running"
    /\ left.faults > 0
    /\ Stop(c, "ended")
    /\ left' = [left EXCEPT !.faults = @ - 1]
    /\ UNCHANGED <<opened, now>>

(* The app is started again and the same user signs in.                    *)
Launch(c) ==
    /\ process[c] # "running"
    /\ process' = [process EXCEPT ![c] = "running"]
    /\ UNCHANGED <<syncVars, selected, selectedIn, lists, bidScreen, deleteScreen, opened,
                  now, left>>

Tick ==
    /\ now < MaxTime
    /\ now' = now + 1
    /\ UNCHANGED <<syncVars, process, selected, selectedIn, lists, bidScreen, deleteScreen,
                  opened, left>>

-----------------------------------------------------------------------------
UserStep(c) ==
    \/ \E i \in Items, price \in Amounts, closing \in 0..MaxTime :
           Submit_Auction(c, i, price, closing)
    \/ \E a \in lists[c].home : OpenBidScreen(c, a)
    \/ CloseBidScreen(c)
    \/ \E a \in lists[c].yours : OpenDeleteScreen(c, a)
    \/ CloseDeleteScreen(c)
    \/ \E a \in lists[c].won : SelectWon(c, a)
    \/ \E amount \in Amounts : Bid_Submit(c, amount)
    \/ Delete_Listing(c)

CallbackStep(c) == ProductsCallback(c) \/ DetailCallback(c) \/ CallbackCrashes(c)

SystemStep(c) == ServerStep(c) \/ ReceiveStep(c) \/ ConnectStep(c) \/ CallbackStep(c)

FaultStep(c) == LoseConnection(c) \/ Kill(c) \/ Launch(c)

Next == (\E c \in Clients : UserStep(c) \/ SystemStep(c) \/ FaultStep(c)) \/ Tick

Spec == Init /\ [][Next]_vars

(* The SDK reconnects for ever, the server answers, the main queue runs.   *)
(* The users, the faults and a restart owe nothing.                        *)
Fairness ==
    \A c \in Clients : /\ WF_vars(ServerStep(c))
                       /\ WF_vars(ReceiveStep(c))
                       /\ WF_vars(ConnectStep(c))
                       /\ WF_vars(CallbackStep(c))

FairSpec == Spec /\ Fairness

-----------------------------------------------------------------------------
(***************************************************************************)
(* Invariants                                                              *)
(***************************************************************************)

(* The highest bid the server holds for a listing is at least its starting *)
(* price, although Bid_Submit compares the amount with a price that may be *)
(* old, or another product's.  (Bid_Submit lines 112-113 and 125)          *)
BidsRespectStartingPrice ==
    \A i \in Items :
        products[i].listing # Null /\ products[i].highestbidprice \notin {0, Null}
            => products[i].highestbidprice >= products[i].listing.startingprice

(* The user who opened an auction never becomes its highest bidder, on     *)
(* whatever device and however the item was selected.  (Bid_Submit line 96)*)
OpenerNeverLeads ==
    \A i \in Items :
        products[i].listing # Null
            => products[i].highestbidder # products[i].listing.openby

(* Until a connection is lost or an app is ended, a listing that names a   *)
(* highest bidder has a bid: the price is written before the bidder and    *)
(* the server keeps the order.  (Bid_Submit lines 115-116 and 127-128)     *)
LeaderPaid ==
    left.faults = MaxFaults =>
        \A i \in Items :
            products[i].listing # Null /\ products[i].highestbidder \in Users
                => /\ products[i].highestbidprice > 0
                   /\ products[i].highestbidprice >= products[i].listing.startingprice

Unpriced(a) == [a EXCEPT !.highestBidPrice = 0]

Unpriced_(S) == {Unpriced(a) : a \in S}

(* No two elements of a list are of one product. *)
OncePerProduct(S) == \A a, b \in S : a.uniqueKey = b.uniqueKey => a = b

(* The lists l are what the tabs of a user make of the products v at time  *)
(* t or made of them before: every product once, where it belongs, with    *)
(* what it was opened with.  Only the prices may be other products',       *)
(* because detail screens write what they observe into whatever item is    *)
(* selected by then.  The clock may have moved on: the Feed may still list *)
(* an auction that has closed, and Won may still miss it.                  *)
Mirrors(l, v, user, t) ==
    LET current == ListsOf(v, user, t)
        all == {ToAuctionItem(i, v[i]) : i \in {j \in Items : v[j] # NoProduct}}
    IN  /\ \A i \in Items : ~Partial(v[i])
        /\ Unpriced_(l.yours) = Unpriced_(current.yours)
        /\ Unpriced_(current.home) \subseteq Unpriced_(l.home)
        /\ Unpriced_(l.home) \subseteq Unpriced_(all)
        /\ Unpriced_(l.won) \subseteq Unpriced_(current.won)
        /\ OncePerProduct(l.home) /\ OncePerProduct(l.yours) /\ OncePerProduct(l.won)

(* When its main queue is empty, the lists of a running device are those   *)
(* of its view, whatever was selected and written meanwhile.               *)
(* (retrieveData of the tabs)                                              *)
ListsMirrorView ==
    \A c \in Clients :
        process[c] = "running" /\ synced[c] /\ inbox[c] = <<>> =>
            Mirrors(lists[c], view[c], SignedIn_UserName[c], now)

(* Until somebody deletes a listing no product ever lacks a child and no   *)
(* device crashes, although products are written in parts and written      *)
(* again after a lost connection.  (the force casts of retrieveData and of *)
(* the detail screens)                                                     *)
NothingPartialBeforeADelete ==
    left.deletes = MaxDeletes =>
        /\ \A i \in Items : ~Partial(products[i])
        /\ \A c \in Clients : process[c] # "crashed"

-----------------------------------------------------------------------------
(***************************************************************************)
(* The inductive invariant.  What is on its way, shown or selected is      *)
(* genuine: it agrees with the listing that was opened under its key.      *)
(***************************************************************************)
House == INSTANCE AuctionHouse WITH products <- products, opened <- opened

LegalWrite(listings, w) ==
    /\ listings[w.item] # Null
    /\ \/ w = CreateProduct(w.item, listings[w.item])
       \/ w = RemoveProduct(w.item)
       \/ /\ w.sets = {"highestbidprice"}
          /\ House!LegalPrice(listings[w.item], w.to.highestbidprice)
       \/ /\ w.sets = {"highestbidder"}
          /\ House!LegalBidder(listings[w.item], w.to.highestbidder)

GenuineProducts(listings, prods) ==
    \A i \in Items : prods[i].listing \in {Null, listings[i]}

GenuineItem(listings, a) ==
    /\ listings[a.uniqueKey] # Null
    /\ a.openedBy = listings[a.uniqueKey].openby
    /\ a.startingPrice = listings[a.uniqueKey].startingprice

GenuineMessage(listings, m) ==
    IF m.kind = "write" THEN LegalWrite(listings, m.write)
                        ELSE GenuineProducts(listings, m.products)

WritesAreLegal ==
    \A c \in Clients : \A k \in Unanswered(writes[c]) : LegalWrite(opened, writes[c][k])

CopiesAreGenuine ==
    /\ GenuineProducts(opened, products)
    /\ \A c \in Clients :
         /\ GenuineProducts(opened, view[c])
         /\ \A k \in DOMAIN push[c] : GenuineMessage(opened, push[c][k])
         /\ \A k \in DOMAIN inbox[c] : GenuineProducts(opened, inbox[c][k].snapshot)

ItemsAreGenuine ==
    \A c \in Clients :
        /\ \A a \in lists[c].home \cup lists[c].yours \cup lists[c].won :
               GenuineItem(opened, a)
        /\ selected[c] \in AuctionItem => GenuineItem(opened, selected[c])

(* Whatever uses SelectedToViewAuctionItem finds an item in it. *)
SelectionExists ==
    \A c \in Clients :
        (\/ bidScreen[c] \/ deleteScreen[c] \/ watching[c] # {}
         \/ \E k \in DOMAIN inbox[c] : inbox[c][k].observer = "detail")
            => selected[c] \in AuctionItem

(* Every write on its way is one the auction house allows, and every copy  *)
(* and every AuctionItem of a device carries the opener and the starting   *)
(* price its key was opened with; only its price may be wrong.             *)
AuctionInv == SelectionExists /\ WritesAreLegal /\ CopiesAreGenuine /\ ItemsAreGenuine

(* Every change of the server's data is one the auction house allows.      *)
ImplementsAuctionHouse == House!Spec

-----------------------------------------------------------------------------
(***************************************************************************)
(* Why nothing is partial before a delete: what a device bids on is on the *)
(* server, and what is on its way to a device meets a product the device   *)
(* has, or gets before it.  Of one device: its queue of writes q, its view *)
(* v, its events e, what is on its way to it, s, the products a detail     *)
(* screen of it observes, seen; and the server's products p.               *)
(***************************************************************************)
IsThere(product) == product # NoProduct

(* An unanswered write of q creates product i. *)
Creates(q, i) == \E k \in Unanswered(q) : q[k].item = i /\ q[k].sets = Fields

SetsValues(w) == \A f \in w.sets : w.to[f] # Null

(* Message m has all of product i. *)
Brings(m, i) ==
    IF m.kind = "write" THEN m.write.item = i /\ m.write.sets = Fields
                        ELSE IsThere(m.products[i])

(* Product i is shown, or will be by the first n messages. *)
Arrives(v, s, n, i) == IsThere(v[i]) \/ \E j \in DOMAIN s : j <= n /\ Brings(s[j], i)

AllArrive(v, s, p) == \A i \in Items : IsThere(p[i]) => Arrives(v, s, Len(s), i)

ViewComplete(q, v, p) ==
    \A i \in Items : /\ ~Partial(v[i])
                     /\ IsThere(v[i]) => IsThere(p[i]) \/ Creates(q, i)

WritesComplete(q, v, p, user) ==
    \A k \in Unanswered(q) :
        LET w == q[k]
        IN  /\ SetsValues(w)
            /\ IsThere(v[w.item])
            /\ IF w.sets = Fields THEN w.to.listing.openby = user ELSE IsThere(p[w.item])

SnapshotComplete(q, v, prods, p) ==
    \A i \in Items : /\ ~Partial(prods[i])
                     /\ IsThere(prods[i]) => IsThere(p[i])
                     /\ IsThere(v[i]) => IsThere(prods[i]) \/ Creates(q, i)

MessagesComplete(q, v, s, p) ==
    \A n \in DOMAIN s :
        IF s[n].kind = "snapshot"
        THEN n = 1 /\ SnapshotComplete(q, v, s[n].products, p)
        ELSE LET w == s[n].write
             IN  SetsValues(w) /\ IsThere(p[w.item]) /\ Arrives(v, s, n, w.item)

EventsComplete(v, e, seen) ==
    /\ \A i \in seen : IsThere(v[i])
    /\ \A n \in DOMAIN e :
           /\ \A i \in Items : /\ ~Partial(e[n].snapshot[i])
                               /\ IsThere(e[n].snapshot[i]) => IsThere(v[i])
           /\ e[n].observer = "detail" => \A i \in e[n].items : IsThere(e[n].snapshot[i])

(* What the lists show, and what is selected, is in the view. *)
ItemsAreThere(c) ==
    /\ \A a \in lists[c].home \cup lists[c].yours \cup lists[c].won :
           IsThere(view[c][a.uniqueKey])
    /\ selected[c] \in AuctionItem => IsThere(view[c][selected[c].uniqueKey])

DeviceComplete(c) ==
    /\ process[c] # "crashed"
    /\ ViewComplete(writes[c], view[c], products)
    /\ WritesComplete(writes[c], view[c], products, SignedIn_UserName[c])
    /\ MessagesComplete(writes[c], view[c], push[c], products)
    /\ connected[c] => AllArrive(view[c], push[c], products)
    /\ EventsComplete(view[c], inbox[c], watching[c])
    /\ ItemsAreThere(c)

(* Until a listing is deleted, every bid that waits or travels is one on a *)
(* product the server has, and reaches a device after that product: no     *)
(* copy of a product is ever without a part of it.  (the force casts of    *)
(* retrieveData and of the detail screens)                                 *)
CompleteInv ==
    /\ left.deletes \in 0..MaxDeletes
    /\ left.deletes = MaxDeletes =>
           /\ \A i \in Items : ~Partial(products[i])
           /\ \A c \in Clients : DeviceComplete(c)

-----------------------------------------------------------------------------
(***************************************************************************)
(* Why a leader has paid: a bid is two writes, and until both are taken    *)
(* nothing takes the price away that the first one left.  Only the         *)
(* creation of the listing could, and that is taken before anybody but its *)
(* opener has heard of it.                                                 *)
(***************************************************************************)

(* The writes of c the server has yet to take. *)
ToTake(c) == {k \in Unanswered(writes[c]) : k > taken[c]}

HasBid(i) == products[i].listing = Null \/ products[i].highestbidprice \notin {0, Null}

(* A bidder is taken right behind his price, or on a product with a bid. *)
BiddersFollow(c) ==
    \A k \in ToTake(c) : writes[c][k].sets = {"highestbidder"} =>
        \/ HasBid(writes[c][k].item)
        \/ /\ k - 1 \in ToTake(c)
           /\ writes[c][k - 1].item = writes[c][k].item
           /\ writes[c][k - 1].sets = {"highestbidprice"}

(* Device d has not heard of listing i, and will not. *)
KnowsNothing(d, i) ==
    /\ view[d][i].listing = Null
    /\ \A n \in DOMAIN inbox[d] : inbox[d][n].snapshot[i].listing = Null
    /\ \A a \in lists[d].home \cup lists[d].yours \cup lists[d].won : a.uniqueKey # i
    /\ selected[d] \in AuctionItem => selected[d].uniqueKey # i

HearsNothing(d, i) ==
    \A n \in DOMAIN push[d] :
        IF push[d][n].kind = "write" THEN push[d][n].write.item # i
                                     ELSE push[d][n].products[i].listing = Null

(* Write k of c is the creation of product i. *)
CreatesAt(c, k, i) ==
    writes[c][k].item = i /\ writes[c][k].sets = Fields /\ writes[c][k].to # NoProduct

(* Product i, which write k of c creates, is known to its opener only, who *)
(* may have deleted it already but cannot bid on it.                       *)
IsNew(c, k, i) ==
    /\ opened[i].openby = SignedIn_UserName[c]
    /\ products[i].listing = Null
    /\ \A d \in Clients : HearsNothing(d, i) /\ (d # c => KnowsNothing(d, i))
    /\ \A d \in Clients : \A j \in Unanswered(writes[d]) : writes[d][j].item = i =>
           d = c /\ (j = k \/ (j > k /\ writes[d][j] = RemoveProduct(i)))

ListingsAreNew(c) ==
    \A i \in Items : \A k \in ToTake(c) : CreatesAt(c, k, i) => IsNew(c, k, i)

(* Every bidder that is yet to be taken finds a bid, and every product     *)
(* with a bidder has one.  (Bid_Submit lines 115-116 and 127-128)          *)
LeaderInv ==
    /\ left.faults \in 0..MaxFaults
    /\ left.faults = MaxFaults =>
           /\ \A i \in Items : products[i].highestbidder \in Users => HasBid(i)
           /\ \A c \in Clients : BiddersFollow(c) /\ ListingsAreNew(c)

-----------------------------------------------------------------------------
(***************************************************************************)
(* Why the lists mirror the view: no change of the view is without its     *)
(* event, and a list is filled from one of them as a whole.                *)
(***************************************************************************)

(* The newest event of Products/ in queue q has v. *)
LastHas(q, v) ==
    \E n \in DOMAIN q :
        /\ q[n].observer = "products" /\ q[n].snapshot = v
        /\ \A m \in DOMAIN q : m > n => q[m].observer # "products"

NoneWaits(q) == \A n \in DOMAIN q : q[n].observer # "products"

(* The lists l of a user are those of view v, or will be by the events q. *)
WillMirror(q, l, v, user, t) ==
    \/ LastHas(q, v)
    \/ NoneWaits(q) /\ Mirrors(l, v, user, t)

(* The selected item is an element of the list it was selected in, until   *)
(* that is filled again.                                                   *)
SelectedIsListed(c) ==
    selectedIn[c] # "none" => selected[c] \in lists[c][selectedIn[c]]

(* A device's lists are those of its view or will be when its last event   *)
(* of Products/ runs; no auction was opened later than now, so one that    *)
(* has closed stays closed.  (retrieveData of the tabs)                    *)
MirrorInv ==
    /\ \A i \in Items : opened[i] # Null => opened[i].opendate <= now
    /\ \A c \in Clients :
         /\ SelectedIsListed(c)
         /\ synced[c] =>
              WillMirror(inbox[c], lists[c], view[c], SignedIn_UserName[c], now)

-----------------------------------------------------------------------------
(***************************************************************************)
(* Liveness                                                                *)
(***************************************************************************)

(* Once the faults are over, every write of a running device has been      *)
(* answered, over whatever connections were lost, and every device shows   *)
(* what the server has.  (FPersistentConnection restoreState)              *)
ViewsConverge ==
    <>[](\A c \in Clients :
            process[c] = "running"
                => Unanswered(writes[c]) = {} /\ view[c] = products)

-----------------------------------------------------------------------------
(***************************************************************************)
(* What the screens say, and the program does not do                       *)
(***************************************************************************)

(* "your bid has to be above $..." (HomeFeedDetailsViewController line     *)
(* 131): an accepted bid never lowers the highest price of a listing.      *)
BidsAreAboveTheHighest ==
    [][\A i \in Items :
         products[i].listing # Null /\ products'[i].listing # Null
             => products'[i].highestbidprice >= products[i].highestbidprice]_vars

(* "This item has been closed" (HomeFeedDetailsViewController line 107): a *)
(* listing that is past its closing time takes no further bid.             *)
ClosedAuctionsTakeNoBid ==
    [][\A i \in Items :
         products[i].listing # Null /\ now > products[i].listing.closedate
             => products'[i] \in {products[i], NoProduct}]_vars

(* "Live Price Update" (HomeFeedDetailsViewController line 49): when all   *)
(* events have been delivered, an open bid screen does not compare the     *)
(* bids of its user with the price of another product (lines 54 and 125).  *)
(* Only an item the user may bid on counts: it was selected in the Feed,   *)
(* where it gets an observer of its own, so a price that differs from its  *)
(* product's is not just old.                                              *)
LivePriceUpdate ==
    \A c \in Clients :
        LET a == selected[c]
            price(i) == view[c][i].highestbidprice
        IN  /\ bidScreen[c]
            /\ inbox[c] = <<>>
            /\ view[c][a.uniqueKey] # NoProduct
            /\ a.openedBy # SignedIn_UserName[c]
            /\ IsBetween(now, a.openDate, a.closeDate)
            /\ a.highestBidPrice # price(a.uniqueKey)
            => \A j \in Items \ {a.uniqueKey} : a.highestBidPrice # price(j)

(* The Delete button of "Your Listings" (YourListingsDetailsViewController *)
(* line 51) deletes a listing of the user who taps it.                     *)
UsersDeleteTheirOwn ==
    \A c \in Clients : \A k \in Unanswered(writes[c]) :
        LET w == writes[c][k]
        IN  w = RemoveProduct(w.item)
                => opened[w.item].openby = SignedIn_UserName[c]
=============================================================================
