----------------------------- MODULE MCAuction ------------------------------
(***************************************************************************)
(* Small instances of Auction: two devices c1 and c2 with the users u1 and *)
(* u2; u3 has opened auctions and is not there any more.                   *)
(***************************************************************************)
EXTENDS Auction, TLC

CONSTANTS c1, c2, u1, u2, u3, i1, i2

MCUserName == (c1 :> u1) @@ (c2 :> u2)
MCOneUserName == c1 :> u1

Auctioned(user, price) ==
    [openby |-> user, opendate |-> 0, closedate |-> 0, startingprice |-> price]

(* One auction of somebody else. *)
OneAuction == i1 :> Auctioned(u3, 1)

(* One of somebody else and one of u1. *)
TwoAuctions == (i1 :> Auctioned(u3, 2)) @@ (i2 :> Auctioned(u1, 1))

(* Two of somebody else. *)
TwoAuctionsOfOthers == (i1 :> Auctioned(u3, 2)) @@ (i2 :> Auctioned(u3, 1))

(* None yet. *)
NoAuction == i1 :> Null

(* With at most the auction of u3 opened before, the two devices are alike: *)
(* they may change places if their users do.                               *)
Alike == { f \in Permutations({c1, c2, u1, u2}) :
             \A c \in {c1, c2} : f[c] \in {c1, c2} /\ f[MCUserName[c]] = MCUserName[f[c]] }
=============================================================================
