--------------------------- MODULE MCListingForm ---------------------------
(* ListingForm with two picks, which are enough for one too many. *)
EXTENDS ListingForm
=============================================================================
