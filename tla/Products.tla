------------------------------ MODULE Products ------------------------------
(***************************************************************************)
(* The data of the auction: the children of the database node Products/,   *)
(* the writes the app makes to them, and the AuctionItem objects the app   *)
(* builds out of a snapshot of them.                                       *)
(*                                                                         *)
(* A product has eight children.  Six of them (productname, imageurl,      *)
(* openby, opendate, closedate, startingprice) are only ever written       *)
(* together, when the listing is opened; they are the one field "listing"  *)
(* here, of which the values the program decides on are kept.  The other   *)
(* two, highestbidprice and highestbidder, are written one at a time by    *)
(* every bid.  A child that is not there is Null.                          *)
(***************************************************************************)
EXTENDS Integers

CONSTANTS
    Items,            \* the keys childByAutoId can return
    Users,            \* user names
    Null,             \* an absent node
    NoBidder,         \* the string "-" a new listing has for its bidder
    TicksPerMinute    \* clock ticks in the minute a stored date is cut to

-----------------------------------------------------------------------------
Fields == {"listing", "highestbidprice", "highestbidder"}

Listing == [openby : Users, opendate : Nat, closedate : Nat, startingprice : Nat]

ASSUME ProductsAssumption ==
    /\ TicksPerMinute \in Nat \ {0}
    /\ NoBidder \notin Users
    /\ Null \notin Users \cup Listing

ASSUME NullIsNoValue == Null \notin Nat \cup {NoBidder}

Product == [listing         : Listing \cup {Null},
            highestbidprice : Nat \cup {Null},
            highestbidder   : Users \cup {NoBidder, Null}]

NoProduct == [listing |-> Null, highestbidprice |-> Null, highestbidder |-> Null]

(* What the force casts of retrieveData ask of every product they meet. *)
Complete(p) == /\ p.listing # Null
               /\ p.highestbidprice # Null
               /\ p.highestbidder # Null

Partial(p) == ~Complete(p) /\ p # NoProduct

-----------------------------------------------------------------------------
(***************************************************************************)
(* A write names a product, the fields it sets and their new values.       *)
(***************************************************************************)
Write == [item : Items, sets : SUBSET Fields, to : Product]

ASSUME NullIsNoWrite == Null \notin Write

NewProduct(l) == [listing |-> l, highestbidprice |-> 0, highestbidder |-> NoBidder]

\* Wrong on purpose: the listing is written without its bidder.
CreateProduct_NoBidder(i, l) ==
    [item |-> i, sets |-> Fields, to |-> [NewProduct(l) EXCEPT !.highestbidder = Null]]

CreateProduct(i, l) == [item |-> i, sets |-> Fields, to |-> NewProduct(l)]

RemoveProduct(i) == [item |-> i, sets |-> Fields, to |-> NoProduct]

SetPrice(i, amount) ==
    [item |-> i, sets |-> {"highestbidprice"},
     to |-> [NoProduct EXCEPT !.highestbidprice = amount]]

SetBidder(i, user) ==
    [item |-> i, sets |-> {"highestbidder"},
     to |-> [NoProduct EXCEPT !.highestbidder = user]]

(* p with the fields in fs taken from q. *)
Overlay(p, q, fs) ==
    [listing         |-> IF "listing" \in fs THEN q.listing ELSE p.listing,
     highestbidprice |-> IF "highestbidprice" \in fs THEN q.highestbidprice
                                                     ELSE p.highestbidprice,
     highestbidder   |-> IF "highestbidder" \in fs THEN q.highestbidder
                                                   ELSE p.highestbidder]

Apply(prods, w) == [prods EXCEPT ![w.item] = Overlay(@, w.to, w.sets)]

-----------------------------------------------------------------------------
(***************************************************************************)
(* Dates.  A date is stored as "d MMM y, h:mm a": its seconds are lost.    *)
(***************************************************************************)
\* Wrong on purpose: the date is rounded up.
CutToMinute_Up(t) == t + ((TicksPerMinute - (t % TicksPerMinute)) % TicksPerMinute)

CutToMinute(t) == t - (t % TicksPerMinute)

IsBetween(t, d1, d2) == \/ d1 <= t /\ t <= d2
                        \/ d2 <= t /\ t <= d1

-----------------------------------------------------------------------------
(* The fields of the class AuctionItem the program decides on. *)
AuctionItem == [uniqueKey : Items, openedBy : Users, openDate : Nat, closeDate : Nat,
                startingPrice : Nat, highestBidPrice : Nat]

\* Wrong on purpose: the starting price is read from the wrong child.
ToAuctionItem_WrongPrice(i, p) ==
    [uniqueKey |-> i, openedBy |-> p.listing.openby, openDate |-> p.listing.opendate,
     closeDate |-> p.listing.closedate, startingPrice |-> p.highestbidprice,
     highestBidPrice |-> p.highestbidprice]

ToAuctionItem(i, p) ==
    [uniqueKey |-> i, openedBy |-> p.listing.openby, openDate |-> p.listing.opendate,
     closeDate |-> p.listing.closedate, startingPrice |-> p.listing.startingprice,
     highestBidPrice |-> p.highestbidprice]

IsNotClosed(p, t) == IsBetween(t, p.listing.opendate, p.listing.closedate)

(* What the observers of Products/ of the three tabs that list items make  *)
(* of a snapshot taken by a user at time t.                                *)
ListsOf(prods, user, t) ==
    LET there == {i \in Items : prods[i] # NoProduct}
        list(S) == {ToAuctionItem(i, prods[i]) : i \in S}
    IN  [home  |-> list({i \in there : IsNotClosed(prods[i], t)}),
         yours |-> list({i \in there : prods[i].listing.openby = user}),
         won   |-> list({i \in there : /\ prods[i].highestbidder = user
                                       /\ ~IsNotClosed(prods[i], t)})]

NoLists == [home |-> {}, yours |-> {}, won |-> {}]
=============================================================================
