--------------------------- MODULE MCRealtimeSync ---------------------------
(***************************************************************************)
(* A small instance of RealtimeSync: two clients write the price of one    *)
(* product, or delete it.                                                  *)
(***************************************************************************)
EXTENDS RealtimeSync, TLC

CONSTANTS c1, c2, u1, i1

MCStored ==
    i1 :> NewProduct([openby |-> u1, opendate |-> 0, closedate |-> 0, startingprice |-> 1])

MCAppWrites == {SetPrice(i1, 1), RemoveProduct(i1)}

Alike == Permutations({c1, c2})
=============================================================================
