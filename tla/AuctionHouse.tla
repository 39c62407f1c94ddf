---------------------------- MODULE AuctionHouse ----------------------------
(***************************************************************************)
(* What the shared auction data promises its users, whatever the devices   *)
(* and the network do: every change of Products/ publishes a listing its   *)
(* opener wrote, puts a bid of at least the starting price on one, names   *)
(* a bidder who is not its opener, or takes one away.                      *)
(*                                                                         *)
(* It promises no more.  A price may fall, a price and a bidder may come   *)
(* from different bids, a listing may be published twice and a bid may be  *)
(* put on a listing that is gone: the program allows all of these.         *)
(***************************************************************************)
EXTENDS Products

VARIABLES
    products,   \* the node Products/
    opened      \* opened[i]: the listing submitted under key i

houseVars == <<products, opened>>

Init ==
    /\ opened \in [Items -> Listing \cup {Null}]
    /\ products = [i \in Items |-> IF opened[i] = Null THEN NoProduct
                                                        ELSE NewProduct(opened[i])]

(* A user submits a listing under a new key. *)
Announce(i) ==
    /\ opened[i] = Null
    /\ opened'[i] \in Listing
    /\ opened' = [opened EXCEPT ![i] = opened'[i]]
    /\ UNCHANGED products

(* The listing is published, free of bids; not only the first time. *)
Publish(i) ==
    /\ opened[i] # Null
    /\ products' = [products EXCEPT ![i] = NewProduct(opened[i])]
    /\ UNCHANGED opened

LegalPrice(l, amount) == amount \in Nat /\ amount > 0 /\ amount >= l.startingprice

PutPrice(i) ==
    /\ opened[i] # Null
    /\ LegalPrice(opened[i], products'[i].highestbidprice)
    /\ products' = [products EXCEPT ![i].highestbidprice = products'[i].highestbidprice]
    /\ UNCHANGED opened

LegalBidder(l, user) == user \in Users /\ user # l.openby

PutBidder(i) ==
    /\ opened[i] # Null
    /\ LegalBidder(opened[i], products'[i].highestbidder)
    /\ products' = [products EXCEPT ![i].highestbidder = products'[i].highestbidder]
    /\ UNCHANGED opened

Withdraw(i) ==
    /\ opened[i] # Null
    /\ products' = [products EXCEPT ![i] = NoProduct]
    /\ UNCHANGED opened

Next == \E i \in Items :
           Announce(i) \/ Publish(i) \/ PutPrice(i) \/ PutBidder(i) \/ Withdraw(i)

Spec == Init /\ [][Next]_houseVars
=============================================================================
