---------------------------- MODULE ListingForm ----------------------------
(***************************************************************************)
(* The picture of the form that opens an auction.                          *)
(*                                                                         *)
(* Choosing a picture shows it at once and starts to upload it.  Its       *)
(* address comes two callbacks later, whatever the form shows by then, and *)
(* stays in returnedImageUrl until another one comes: viewDidAppear clears *)
(* the form, but neither returnedImageUrl nor didUploadImage.              *)
(*                                                                         *)
(* The picker is a sheet: the form does not appear anew behind it.         *)
(***************************************************************************)
CONSTANTS
    Pictures,    \* what is picked; every pick is a file of its own
    Null

VARIABLES
    visible,            \* the form is on the screen
    UploadDisplay,      \* the picture it shows
    filled,             \* the fields with a value that Submit_Auction accepts
    uploads,            \* uploads[p]: where the upload of p is
    didUploadImage,
    returnedImageUrl,   \* the picture whose address it is; Null: empty
    listings            \* what was opened: its picture and the one the form showed

vars == <<visible, UploadDisplay, filled, uploads, didUploadImage, returnedImageUrl, listings>>

Field == {"ItemName", "StartingPrice", "ClosingDate"}

Init ==
    /\ visible = FALSE
    /\ UploadDisplay = Null
    /\ filled = {}
    /\ uploads = [p \in Pictures |-> "not picked"]
    /\ didUploadImage = FALSE
    /\ returnedImageUrl = Null
    /\ listings = {}

(* The date it sets is that of now: Submit_Auction finds it in the past. *)
viewDidAppear ==
    /\ ~visible
    /\ visible' = TRUE
    /\ UploadDisplay' = Null
    /\ filled' = {}
    /\ UNCHANGED <<uploads, didUploadImage, returnedImageUrl, listings>>

(* Another tab is selected. *)
Leave ==
    /\ visible
    /\ visible' = FALSE
    /\ UNCHANGED <<UploadDisplay, filled, uploads, didUploadImage, returnedImageUrl, listings>>

Fill(f) ==
    /\ visible
    /\ filled' = filled \cup {f}
    /\ UNCHANGED <<visible, UploadDisplay, uploads, didUploadImage, returnedImageUrl, listings>>

ClosingDatePasses ==
    /\ "ClosingDate" \in filled
    /\ filled' = filled \ {"ClosingDate"}
    /\ UNCHANGED <<visible, UploadDisplay, uploads, didUploadImage, returnedImageUrl, listings>>

(* didFinishPickingMediaWithInfo. *)
Pick(p) ==
    /\ visible
    /\ uploads[p] = "not picked"
    /\ UploadDisplay' = p
    /\ uploads' = [uploads EXCEPT ![p] = "putFile"]
    /\ UNCHANGED <<visible, filled, didUploadImage, returnedImageUrl, listings>>

(* The completion of putFile: without metadata nothing more is done. *)
PutFileDone(p) ==
    /\ uploads[p] = "putFile"
    /\ \E next \in {"downloadURL", "over"} : uploads' = [uploads EXCEPT ![p] = next]
    /\ UNCHANGED <<visible, UploadDisplay, filled, didUploadImage, returnedImageUrl, listings>>

(* The completion of downloadURL: the address, or an error. *)
DownloadURLDone(p) ==
    /\ uploads[p] = "downloadURL"
    /\ uploads' = [uploads EXCEPT ![p] = "over"]
    /\ \/ didUploadImage' = TRUE /\ returnedImageUrl' = p
       \/ UNCHANGED <<didUploadImage, returnedImageUrl>>
    /\ UNCHANGED <<visible, UploadDisplay, filled, listings>>

(* Its four alerts change nothing; then the first tab is selected. *)
Submit_Auction ==
    /\ visible
    /\ didUploadImage
    /\ filled = Field
    /\ listings' = listings \cup {[imageurl |-> returnedImageUrl, selected |-> UploadDisplay]}
    /\ visible' = FALSE
    /\ UNCHANGED <<UploadDisplay, filled, uploads, didUploadImage, returnedImageUrl>>

Next ==
    \/ viewDidAppear \/ Leave
    \/ \E f \in Field : Fill(f)
    \/ ClosingDatePasses
    \/ \E p \in Pictures : Pick(p) \/ PutFileDone(p) \/ DownloadURLDone(p)
    \/ Submit_Auction

Spec == Init /\ [][Next]_vars

-----------------------------------------------------------------------------
(* A listing has the picture that was selected for it: what Submit_Auction *)
(* asks for when it refuses a form, "Please select an image for the item   *)
(* you are auctioning".  (OpenNewAuctionViewController Submit_Auction)     *)
ListingHasItsPicture ==
    \A l \in listings : l.selected # Null /\ l.imageurl = l.selected
=============================================================================
