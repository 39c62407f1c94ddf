------------------------------ MODULE Accounts ------------------------------
(***************************************************************************)
(* The accounts under Users/: signing up, signing in, and the children the *)
(* app keeps up to date there.                                             *)
(*                                                                         *)
(* Everything goes through observeSingleEvent on the whole of Users/: the  *)
(* handler that runs later, on the main queue, looks through the snapshot  *)
(* and writes what follows from it.  Nothing makes the look and the write  *)
(* one step: "the name is free" and "ItemsAuctioned is old + 1" are said   *)
(* of a snapshot that may be old when they are acted upon.                 *)
(*                                                                         *)
(* Users/ is listened to only as long as somebody waits for it, unless the *)
(* Profile tab was opened, whose observer is never removed.  The SDK is    *)
(* that of DatabaseSync, here for a node that is not always listened to:   *)
(* own writes cover what the server sends until they are answered, and are *)
(* sent again after a lost connection.                                     *)
(***************************************************************************)
EXTENDS Integers, FiniteSets, Sequences, SequencesExt

CONSTANTS
    Clients,
    Keys,         \* the keys childByAutoId can return
    Names,        \* what users type for a name; the empty one is not refused
    Null,
    StoredNames,  \* the names of which one has an account at the start; Null: none
    Others,       \* the children other handlers update: AuctionsWon, ProfileImage
    MaxUses,      \* bound: sign-ups, submitted auctions and other updates in all
    MaxLogins,    \* bound: taps on Login
    MaxLosses,    \* bound: lost connections
    MaxInAll,     \* bound: all of these, and Profile tabs opened, together
    MaxWaiting    \* bound: single events of a device that have not run

ASSUME AccountsAssumption ==
    /\ IsFiniteSet(Keys)
    /\ Null \notin Names
    /\ StoredNames \subseteq Names \cup {Null}
    /\ Others \subseteq {"AuctionsWon", "ProfileImage"}
    /\ {MaxUses, MaxLogins, MaxLosses, MaxInAll, MaxWaiting} \subseteq Nat

VARIABLES
    users,       \* the server's copy of Users/
    cache,       \* cache[c]: c's copy of the server's, Null if c has no observer
    pending,     \* pending[c]: c's writes that have no answer
    taken,       \* taken[c]: how many of them the server took on this connection
    connected,   \* connected[c]: the connection is up
    listening,   \* listening[c]: the server has c's listen on Users/
    push,        \* push[c]: what the server has sent to c on this connection
    asked,       \* asked[c]: the single events that wait for data
    inbox,       \* inbox[c]: the single events on the main queue
    profile,     \* profile[c]: the Profile tab has been opened
    name,        \* name[c]: SignedIn_UserName
    signedIn,    \* signedIn[c]: the tabs are shown, not the login pages
    submitted,   \* history: submitted[n], the auctions submitted under n
    submitters,  \* history: submitters[n], the devices that submitted them
    disturbed,   \* history: names submitted for before the last count was written, or
                 \* while the answer to a sign-up of another device was missing
    met,         \* history: a name was looked up while another sign-up was under way
                 \* or in a copy of Users/ asked for before
    left         \* what the bounds leave to do

vars == <<users, cache, pending, taken, connected, listening, push, asked, inbox, profile,
          name, signedIn, submitted, submitters, disturbed, met, left>>

sdkVars == <<cache, pending, taken, connected, listening, push>>
historyVars == <<submitted, submitters, disturbed, met>>

-----------------------------------------------------------------------------
(***************************************************************************)
(* Data                                                                    *)
(***************************************************************************)
Children == {"Username", "ItemsAuctioned", "AuctionsWon", "ProfileImage"}

(* The last two only matter for being there: 1 once they were updated. *)
Account == [Username : Names, ItemsAuctioned : Nat, AuctionsWon : {0, 1},
            ProfileImage : {0, 1}]

NewAccount(n) ==
    [Username |-> n, ItemsAuctioned |-> 0, AuctionsWon |-> 0, ProfileImage |-> 0]

Users_ == [Keys -> Account \cup {Null}]

Write == [key : Keys, sets : SUBSET Children, to : Account]

(* No account and no snapshot is the absent one. *)
ASSUME NullIsNoAccount == Null \notin Account /\ Null \notin Users_

Apply(us, w) ==
    [us EXCEPT ![w.key] = IF w.sets = Children THEN w.to
                          ELSE [ch \in Children |-> IF ch \in w.sets THEN w.to[ch] ELSE @[ch]]]

CreateAccount(k, n) == [key |-> k, sets |-> Children, to |-> NewAccount(n)]

\* Wrong on purpose: setValue of the whole account instead of updateChildValues.
Update_Whole(us, k, child, value) ==
    [key |-> k, sets |-> Children, to |-> [us[k] EXCEPT ![child] = value]]

(* updateChildValues: one child of the account, the others stay. *)
Update(us, k, child, value) ==
    [key |-> k, sets |-> {child}, to |-> [us[k] EXCEPT ![child] = value]]

Named(us, n) == {k \in Keys : us[k] # Null /\ us[k].Username = n}

-----------------------------------------------------------------------------
(***************************************************************************)
(* Single events                                                           *)
(***************************************************************************)

\* Wrong on purpose: what the server sent, without the own writes.
Seen_ServerOnly(us, q) == us

(* The writes of q that set child ch of account k, and those that set any. *)
Setting(q, k, ch) == {n \in DOMAIN q : q[n].key = k /\ ch \in q[n].sets}
Written(q, k) == \E n \in DOMAIN q : q[n].key = k

(* The newest of the writes n. *)
Newest(S) == CHOOSE n \in S : \A j \in S : j <= n

(* The server's data under the own writes: of every child what the newest  *)
(* of them makes of it.                                                    *)
Seen(us, q) ==
    [k \in Keys |->
        IF us[k] = Null /\ ~Written(q, k) THEN Null
        ELSE [ch \in Children |->
                LET S == Setting(q, k, ch)
                IN  IF S = {} THEN us[k][ch] ELSE q[Newest(S)].to[ch]]]

Waiting(c) == Len(asked[c]) + Len(inbox[c])

(* Users/ has an observer on c. *)
Observed(c) == profile[c] \/ Waiting(c) > 0

Event(op, us) == [op |-> op, users |-> us]

(* observeSingleEvent on Users/: from the cache if there is one.  A tap is  *)
(* served by the main queue too, after what it holds.                      *)
ObserveSingleEvent(c, op) ==
    /\ inbox[c] = <<>>
    /\ Waiting(c) < MaxWaiting
    /\ IF cache[c] = Null
       THEN /\ asked' = [asked EXCEPT ![c] = Append(@, op)]
            /\ UNCHANGED inbox
       ELSE /\ inbox' = [inbox EXCEPT ![c] = Append(@, Event(op, Seen(cache[c], pending[c])))]
            /\ UNCHANGED asked

\* Wrong on purpose: the observers of single events stay.
IsLastObserver_Never(c) == FALSE

(* Without the observer of its first event, nobody on c observes Users/.   *)
IsLastObserver(c) == Waiting(c) = 1 /\ ~profile[c]

(* The main queue runs the handler of an event.  Its observer is removed   *)
(* first; without observers there is no listen and no cache.               *)
RunEvent(c, op) ==
    /\ inbox[c] # <<>>
    /\ Head(inbox[c]).op = op
    /\ inbox' = [inbox EXCEPT ![c] = Tail(@)]
    /\ cache' = [cache EXCEPT ![c] = IF IsLastObserver(c) THEN Null ELSE @]
    /\ listening' = [listening EXCEPT ![c] = @ /\ ~IsLastObserver(c)]
    /\ UNCHANGED <<users, taken, connected, push, asked, profile, submitted, submitters>>

Snapshot(c) == Head(inbox[c]).users

-----------------------------------------------------------------------------
(***************************************************************************)
(* The app                                                                 *)
(***************************************************************************)
Init ==
    /\ \E j \in Keys, n \in StoredNames :
         users = [k \in Keys |-> IF n # Null /\ k = j THEN NewAccount(n) ELSE Null]
    /\ cache = [c \in Clients |-> Null]
    /\ pending = [c \in Clients |-> <<>>]
    /\ taken = [c \in Clients |-> 0]
    /\ connected = [c \in Clients |-> FALSE]
    /\ listening = [c \in Clients |-> FALSE]
    /\ push = [c \in Clients |-> <<>>]
    /\ asked = [c \in Clients |-> <<>>]
    /\ inbox = [c \in Clients |-> <<>>]
    /\ profile = [c \in Clients |-> FALSE]
    /\ name = [c \in Clients |-> Null]
    /\ signedIn = [c \in Clients |-> FALSE]
    /\ submitted = [n \in Names |-> 0]
    /\ submitters = [n \in Names |-> {}]
    /\ disturbed = {}
    /\ met = FALSE
    /\ left = [uses |-> MaxUses, logins |-> MaxLogins, losses |-> MaxLosses]

(* What the users and the network have done so far, for the bounds. *)
SoFar == (MaxUses - left.uses) + (MaxLogins - left.logins) + (MaxLosses - left.losses)
             + Cardinality({c \in Clients : profile[c]})

Waits(c, op) ==
    \/ op \in ToSet(asked[c])
    \/ \E e \in ToSet(inbox[c]) : e.op = op

Creates(c) == \E w \in ToSet(pending[c]) : w.sets = Children

(* signUpButton.  The alerts about empty fields do not stop it. *)
SignUp(c) ==
    /\ ~signedIn[c]
    /\ left.uses > 0 /\ SoFar < MaxInAll
    /\ left' = [left EXCEPT !.uses = @ - 1]
    /\ ObserveSingleEvent(c, "signUp")
    /\ met' = \/ met \/ Observed(c) \/ \E m \in ToSet(push[c]) : m.kind = "users"
              \/ \E d \in Clients : Waits(d, "signUp") \/ (d # c /\ Creates(d))
    /\ UNCHANGED <<users, sdkVars, profile, name, signedIn, submitted, submitters, disturbed>>

NameTaken(us, n) == Named(us, n) # {}

(* childByAutoId returns a key nobody has used. *)
Used == {k \in Keys : \/ users[k] # Null
                      \/ \E c \in Clients : \E w \in ToSet(pending[c]) : w.key = k}

(* The handler of signUpButton; it reads the name field only now. *)
RunSignUp(c) ==
    /\ RunEvent(c, "signUp")
    /\ \E n \in Names :
         IF NameTaken(Snapshot(c), n) THEN UNCHANGED pending
         ELSE \E k \in Keys \ Used :
                pending' = [pending EXCEPT ![c] = Append(@, CreateAccount(k, n))]
    /\ UNCHANGED <<name, signedIn, disturbed, met, left>>

(* Submit_Login, tapped once. *)
Login(c) ==
    /\ ~signedIn[c] /\ ~Waits(c, "login")
    /\ left.logins > 0 /\ SoFar < MaxInAll
    /\ left' = [left EXCEPT !.logins = @ - 1]
    /\ ObserveSingleEvent(c, "login")
    /\ UNCHANGED <<users, sdkVars, profile, name, signedIn, historyVars>>

(* The handler of Submit_Login: the fields hold the name and password of   *)
(* an account or not.                                                      *)
RunLogin(c) ==
    /\ RunEvent(c, "login")
    /\ \/ UNCHANGED <<name, signedIn>>
       \/ \E k \in Keys :
            /\ Snapshot(c)[k] # Null
            /\ name' = [name EXCEPT ![c] = Snapshot(c)[k].Username]
            /\ signedIn' = [signedIn EXCEPT ![c] = TRUE]
    /\ UNCHANGED <<pending, disturbed, met, left>>

(* SignOut_Button dismisses the tabs; nothing else is undone. *)
SignOut(c) ==
    /\ signedIn[c] /\ inbox[c] = <<>>
    /\ signedIn' = [signedIn EXCEPT ![c] = FALSE]
    /\ UNCHANGED <<users, sdkVars, asked, inbox, profile, name, historyVars, left>>

(* Submit_Auction, after it has written the listing. *)
Submit_Auction(c) ==
    /\ signedIn[c]
    /\ left.uses > 0 /\ SoFar < MaxInAll
    /\ left' = [left EXCEPT !.uses = @ - 1]
    /\ ObserveSingleEvent(c, "count")
    /\ submitted' = [submitted EXCEPT ![name[c]] = @ + 1]
    /\ submitters' = [submitters EXCEPT ![name[c]] = @ \cup {c}]
    /\ disturbed' = IF Waits(c, "count") \/ \E d \in Clients \ {c} : Creates(d)
                    THEN disturbed \cup {name[c]} ELSE disturbed
    /\ UNCHANGED <<users, sdkVars, profile, name, signedIn, met>>

\* Wrong on purpose: every account is the user's.
AccountsOf_Any(us, n) == {k \in Keys : us[k] # Null}

(* The accounts the handlers below update. *)
AccountsOf(us, n) == Named(us, n)

(* The child of each account k that values is given for becomes values[k], *)
(* one account after the other, as the dictionary has them.                *)
UpdateAccounts(c, child, values) ==
    \E keys \in SetToSeqs(DOMAIN values) :
        pending' = [pending EXCEPT ![c] =
                      @ \o [n \in DOMAIN keys |->
                              Update(Snapshot(c), keys[n], child, values[keys[n]])]]

(* The handler of Submit_Auction: ItemsAuctioned is one more than it was.  *)
RunCount(c) ==
    /\ RunEvent(c, "count")
    /\ LET us == Snapshot(c)
       IN  UpdateAccounts(c, "ItemsAuctioned",
                          [k \in AccountsOf(us, name[c]) |-> us[k].ItemsAuctioned + 1])
    /\ UNCHANGED <<name, signedIn, disturbed, met, left>>

(* viewDidLoad of the Won tab, and a profile picture whose upload is done. *)
UpdateOther(c, child) ==
    /\ signedIn[c]
    /\ left.uses > 0 /\ SoFar < MaxInAll
    /\ left' = [left EXCEPT !.uses = @ - 1]
    /\ ObserveSingleEvent(c, child)
    /\ UNCHANGED <<users, sdkVars, profile, name, signedIn, historyVars>>

RunUpdate(c, child) ==
    /\ RunEvent(c, child)
    /\ UpdateAccounts(c, child, [k \in AccountsOf(Snapshot(c), name[c]) |-> 1])
    /\ UNCHANGED <<name, signedIn, disturbed, met, left>>

(* viewDidLoad of the Profile tab adds an observer that stays. *)
OpenProfile(c) ==
    /\ signedIn[c]
    /\ ~profile[c]
    /\ SoFar < MaxInAll
    /\ profile' = [profile EXCEPT ![c] = TRUE]
    /\ UNCHANGED <<users, sdkVars, asked, inbox, name, signedIn, historyVars, left>>

-----------------------------------------------------------------------------
(***************************************************************************)
(* The connection and the server                                           *)
(***************************************************************************)
appVars == <<profile, name, signedIn, submitted, submitters, disturbed, met>>

(* The listen reaches the server, which sends its data. *)
ServerListen(c) ==
    /\ connected[c]
    /\ Observed(c)
    /\ ~listening[c]
    /\ listening' = [listening EXCEPT ![c] = TRUE]
    /\ push' = [push EXCEPT ![c] = Append(@, [kind |-> "users", users |-> users])]
    /\ UNCHANGED <<users, cache, pending, taken, connected, asked, inbox, appVars, left>>

(* The server takes the next write of c and tells who listens.  A listen   *)
(* that is sent again goes before the writes.                              *)
ServerTake(c) ==
    /\ connected[c]
    /\ taken[c] < Len(pending[c])
    /\ cache[c] # Null => listening[c]
    /\ LET w == pending[c][taken[c] + 1]
           m == [kind |-> "write", from |-> c, write |-> w]
       IN  /\ users' = Apply(users, w)
           /\ push' = [d \in Clients |-> IF d = c \/ listening[d] THEN Append(push[d], m)
                                                                  ELSE push[d]]
    /\ taken' = [taken EXCEPT ![c] = @ + 1]
    /\ UNCHANGED <<cache, pending, connected, listening, asked, inbox, appVars, left>>

Arrives(c, kind) ==
    /\ push[c] # <<>>
    /\ Head(push[c]).kind = kind
    /\ push' = [push EXCEPT ![c] = Tail(@)]

(* All of Users/ arrives: the single events that waited for it are on the  *)
(* main queue now.  Without an observer nobody is interested any more.     *)
ReceiveUsers(c) ==
    LET us == Head(push[c]).users
        e(op) == Event(op, Seen(us, pending[c]))
    IN  /\ Arrives(c, "users")
        /\ IF Observed(c)
           THEN /\ cache' = [cache EXCEPT ![c] = us]
                /\ inbox' = [inbox EXCEPT ![c] =
                               @ \o [n \in DOMAIN asked[c] |-> e(asked[c][n])]]
                /\ asked' = [asked EXCEPT ![c] = <<>>]
           ELSE UNCHANGED <<cache, inbox, asked>>
        /\ UNCHANGED <<users, pending, taken, connected, listening, appVars, left>>

(* A change arrives; if it is c's own, its answer arrives with it. *)
ReceiveWrite(c) ==
    LET m == Head(push[c])
    IN  /\ Arrives(c, "write")
        /\ cache' = [cache EXCEPT ![c] = IF @ = Null THEN Null ELSE Apply(@, m.write)]
        /\ IF m.from = c
           THEN /\ pending' = [pending EXCEPT ![c] = Tail(@)]
                /\ taken' = [taken EXCEPT ![c] = @ - 1]
           ELSE UNCHANGED <<pending, taken>>
        /\ UNCHANGED <<users, connected, listening, asked, inbox, appVars, left>>

Connect(c) ==
    /\ ~connected[c]
    /\ connected' = [connected EXCEPT ![c] = TRUE]
    /\ UNCHANGED <<users, cache, pending, taken, listening, push, asked, inbox, appVars, left>>

\* Wrong on purpose: no write outlives the connection.
PendingAfterLoss_None(c) == <<>>

(* All the writes without an answer are sent again. *)
PendingAfterLoss(c) == pending[c]

(* An idle connection need not be lost in the model: it does what none     *)
(* does, as long as the server takes its time.                             *)
Disconnect(c) ==
    /\ connected[c]
    /\ listening[c] \/ push[c] # <<>>
    /\ left.losses > 0 /\ SoFar < MaxInAll
    /\ left' = [left EXCEPT !.losses = @ - 1]
    /\ connected' = [connected EXCEPT ![c] = FALSE]
    /\ listening' = [listening EXCEPT ![c] = FALSE]
    /\ push' = [push EXCEPT ![c] = <<>>]
    /\ taken' = [taken EXCEPT ![c] = 0]
    /\ pending' = [pending EXCEPT ![c] = PendingAfterLoss(c)]
    /\ UNCHANGED <<users, cache, asked, inbox, appVars>>

-----------------------------------------------------------------------------
Next == \E c \in Clients :
    \/ SignUp(c) \/ RunSignUp(c)
    \/ Login(c) \/ RunLogin(c)
    \/ SignOut(c)
    \/ Submit_Auction(c) \/ RunCount(c)
    \/ \E child \in Others : UpdateOther(c, child) \/ RunUpdate(c, child)
    \/ OpenProfile(c)
    \/ Connect(c) \/ Disconnect(c)
    \/ ServerListen(c) \/ ServerTake(c)
    \/ ReceiveUsers(c) \/ ReceiveWrite(c)

Spec == Init /\ [][Next]_vars

-----------------------------------------------------------------------------
(***************************************************************************)
(* What holds of the accounts.                                             *)
(***************************************************************************)
Op == {"signUp", "login", "count", "AuctionsWon", "ProfileImage"}

Message == [kind : {"users"}, users : Users_]
               \cup [kind : {"write"}, from : Clients, write : Write]

(* A device without an observer has no cache, and the answers on their way *)
(* are those of its oldest writes.  (FSyncTree removeEventRegistration:)   *)
TypeOK ==
    /\ users \in Users_
    /\ cache \in [Clients -> Users_ \cup {Null}]
    /\ pending \in [Clients -> Seq(Write)]
    /\ taken \in [Clients -> Nat] /\ \A c \in Clients : taken[c] <= Len(pending[c])
    /\ push \in [Clients -> Seq(Message)]
    /\ asked \in [Clients -> Seq(Op)]
    /\ inbox \in [Clients -> Seq([op : Op, users : Users_])]
    /\ name \in [Clients -> Names \cup {Null}]
    /\ \A c \in Clients : signedIn[c] => name[c] # Null
    /\ \A c \in Clients : cache[c] # Null => Observed(c)
    /\ {connected, listening, profile, signedIn} \subseteq [Clients -> BOOLEAN]
    /\ submitted \in [Names -> Nat]
    /\ submitters \in [Names -> SUBSET Clients]
    /\ disturbed \subseteq Names /\ met \in BOOLEAN
    /\ left \in [uses : Nat, logins : Nat, losses : Nat]

(* An account never counts more auctions than were submitted under its     *)
(* name: no submission counts twice or for somebody else, whatever is sent *)
(* again and whoever signs in meanwhile.                                   *)
(* (OpenNewAuctionViewController Submit_Auction)                           *)
NothingCountedTwice ==
    \A k \in Keys : users[k] # Null =>
        users[k].ItemsAuctioned <= submitted[users[k].Username]

(* Increments are lost only where two of them overlap, or where an account *)
(* is created once more after a lost connection: a name of which one       *)
(* device submits all auctions, each after the last one was counted and    *)
(* when no sign-up of another device waits for its answer, has them all    *)
(* counted when nothing is on its way.                                     *)
(* (OpenNewAuctionViewController Submit_Auction)                           *)
UnhurriedCountsAreRight ==
    \A n \in Names \ disturbed : \A c \in Clients :
        submitters[n] = {c} /\ ~Waits(c, "count") /\ pending[c] = <<>>
            => \E k \in Named(users, n) : users[k].ItemsAuctioned = submitted[n]

(* Two accounts have one name only if two sign-ups were under way at once, *)
(* or a device looked the name up in a copy of Users/ it had, or had asked *)
(* for, when the sign-up began.                                            *)
(* (SignUpViewController signUpButton)                                     *)
NamesUniqueUnlessMet ==
    ~met => \A n \in Names : Cardinality(Named(users, n)) <= 1

(* Whoever is signed in has an account: on the server, or still among the  *)
(* writes of his own device.  (LoginViewController Submit_Login)           *)
SignedInHaveAccounts ==
    \A c \in Clients : signedIn[c] =>
        \/ Named(users, name[c]) # {}
        \/ \E w \in ToSet(pending[c]) : w.sets = Children /\ w.to.Username = name[c]
-----------------------------------------------------------------------------
(***************************************************************************)
(* The inductive invariant                                                 *)
(***************************************************************************)
Creation(w) == w.sets = Children

KeysOf(us) == {k \in Keys : us[k] # Null}

Created(c, k) == \E i \in DOMAIN pending[c] : Creation(pending[c][i]) /\ pending[c][i].key = k

(* Account k has name n on the server, or c's pending writes create it so. *)
NameAt(c, k, n) ==
    \/ users[k] # Null /\ users[k].Username = n
    \/ \E i \in DOMAIN pending[c] :
         Creation(pending[c][i]) /\ pending[c][i].key = k /\ pending[c][i].to.Username = n

(* c's own writes among what is on its way to it. *)
Own(c) == {p \in DOMAIN push[c] : push[c][p].kind = "write" /\ push[c][p].from = c}

(* The answers on their way are those of the writes the server took, each  *)
(* once and in their order.                                                *)
InOrder(c) ==
    \E at \in [1..taken[c] -> DOMAIN push[c]] :
        /\ \A i, j \in 1..taken[c] : i < j => at[i] < at[j]
        /\ \A i \in 1..taken[c] : at[i] \in Own(c) /\ push[c][at[i]].write = pending[c][i]
        /\ \A p \in Own(c) : \E i \in 1..taken[c] : at[i] = p

(* Without a connection nothing is on its way; what waits for data waits   *)
(* because there is no cache.                                              *)
AnswersInv(c) ==
    /\ ~connected[c] => push[c] = <<>> /\ taken[c] = 0 /\ ~listening[c]
    /\ listening[c] => Observed(c)
    /\ asked[c] # <<>> => cache[c] = Null /\ inbox[c] = <<>>
    /\ InOrder(c)

(* The accounts a message is about. *)
Has(m) == IF m.kind = "users" THEN KeysOf(m.users) ELSE {m.write.key}

(* No account disappears: copies have only what the server has, later ones *)
(* what earlier ones had.                                                  *)
PresenceInv(c) ==
    /\ cache[c] # Null => KeysOf(cache[c]) \subseteq KeysOf(users)
    /\ \A i \in 1..taken[c] : pending[c][i].key \in KeysOf(users)
    /\ \A p \in DOMAIN push[c] : Has(push[c][p]) \subseteq KeysOf(users)
    /\ \A q \in DOMAIN push[c] : push[c][q].kind = "users" =>
         /\ cache[c] # Null => KeysOf(cache[c]) \subseteq Has(push[c][q])
         /\ \A p \in DOMAIN push[c] : p < q => Has(push[c][p]) \subseteq Has(push[c][q])

(* c's copy has account k. *)
Cached(c, k) == cache[c] # Null /\ cache[c][k] # Null

(* Whatever came before it, a message with account k leaves it in a copy.  *)
Brings(m, k) ==
    \/ m.kind = "users" /\ k \in KeysOf(m.users)
    \/ m.kind = "write" /\ m.write.key = k /\ Creation(m.write)

(* A change of an account meets a copy that has the account, or none, and  *)
(* whoever listens is told of every account.                               *)
WholeInv(c) ==
    /\ \A p \in DOMAIN push[c] : push[c][p].kind = "write" /\ ~Creation(push[c][p].write) =>
         \/ Cached(c, push[c][p].write.key)
         \/ \E q \in DOMAIN push[c] : q < p /\ Brings(push[c][q], push[c][p].write.key)
         \/ cache[c] = Null /\ \A q \in DOMAIN push[c] : q < p => push[c][q].kind # "users"
    /\ listening[c] =>
         /\ cache[c] # Null \/ \E q \in DOMAIN push[c] : push[c][q].kind = "users"
         /\ \A k \in KeysOf(users) :
              Cached(c, k) \/ \E q \in DOMAIN push[c] : Brings(push[c][q], k)

(* Whatever c will be shown has account k. *)
Base(c, k) ==
    /\ users[k] # Null
    /\ cache[c] # Null => cache[c][k] # Null
    /\ \A p \in DOMAIN push[c] : push[c][p].kind = "users" => push[c][p].users[k] # Null

(* What c has seen, updates or is signed in with stays there for c.        *)
KnownInv(c) ==
    /\ \A i \in DOMAIN pending[c] : ~Creation(pending[c][i]) =>
         \/ Base(c, pending[c][i].key)
         \/ \E j \in DOMAIN pending[c] :
              j < i /\ Creation(pending[c][j]) /\ pending[c][j].key = pending[c][i].key
    /\ \A i \in DOMAIN inbox[c] : \A k \in KeysOf(inbox[c][i].users) : Created(c, k) \/ Base(c, k)
    /\ signedIn[c] => \E k \in Keys : (Created(c, k) \/ Base(c, k)) /\ NameAt(c, k, name[c])

(* Accounts are created whole; an update never sets a name. *)
Legal(w) == Creation(w) \/ \E ch \in Children \ {"Username"} : w.sets = {ch}

(* No two devices have two names for an account. *)
OneName ==
    \A k \in Keys, c, d \in Clients : \A i \in DOMAIN pending[c] :
        Creation(pending[c][i]) /\ pending[c][i].key = k =>
            /\ users[k] # Null => users[k].Username = pending[c][i].to.Username
            /\ \A j \in DOMAIN pending[d] :
                 Creation(pending[d][j]) /\ pending[d][j].key = k
                     => pending[d][j].to.Username = pending[c][i].to.Username

(* That name is the one every copy of it has. *)
NamesInv(c) ==
    /\ cache[c] # Null =>
         \A k \in KeysOf(cache[c]) : cache[c][k].Username = users[k].Username
    /\ \A i \in DOMAIN pending[c] :
         Legal(pending[c][i]) /\ NameAt(c, pending[c][i].key, pending[c][i].to.Username)
    /\ \A i \in DOMAIN inbox[c] : \A k \in KeysOf(inbox[c][i].users) :
         NameAt(c, k, inbox[c][i].users[k].Username)
    /\ \A p \in DOMAIN push[c] :
         IF push[c][p].kind = "users"
         THEN \A k \in KeysOf(push[c][p].users) :
                push[c][p].users[k].Username = users[k].Username
         ELSE /\ Legal(push[c][p].write)
              /\ push[c][p].write.to.Username = users[push[c][p].write.key].Username

(* The i-th single event of c that has not run, and those with handler op. *)
WaitOp(c, i) ==
    IF i <= Len(inbox[c]) THEN inbox[c][i].op ELSE asked[c][i - Len(inbox[c])]

WaitsAt(c, op) == {i \in 1..Waiting(c) : WaitOp(c, i) = op}

(* The submissions under n that were not counted yet, and the number of    *)
(* those that were.                                                        *)
Uncounted(n) == UNION {{c} \X WaitsAt(c, "count") : c \in {d \in Clients : name[d] = n}}

Counted(n) == submitted[n] - Cardinality(Uncounted(n))

Fits(a) == a.ItemsAuctioned <= Counted(a.Username)

(* No copy of an account counts more than were counted; and what waits to  *)
(* be counted is for the name still signed in.                             *)
CountsInv(c) ==
    /\ cache[c] # Null => \A k \in KeysOf(cache[c]) : Fits(cache[c][k])
    /\ \A i \in DOMAIN pending[c] : Fits(pending[c][i].to)
    /\ \A i \in DOMAIN inbox[c] : \A k \in KeysOf(inbox[c][i].users) : Fits(inbox[c][i].users[k])
    /\ \A p \in DOMAIN push[c] :
         IF push[c][p].kind = "users"
         THEN \A k \in KeysOf(push[c][p].users) : Fits(push[c][p].users[k])
         ELSE Fits(push[c][p].write.to)
    /\ signedIn[c] => WaitsAt(c, "login") = {}
    /\ \A i, j \in WaitsAt(c, "login") : i = j
    /\ \A i \in WaitsAt(c, "login"), j \in WaitsAt(c, "count") : j < i

(* What c was shown or will be shown to sign up with has every account.    *)
Fresh(c) ==
    /\ \A i \in DOMAIN inbox[c] : inbox[c][i].op = "signUp" =>
         \A k \in Keys : users[k] # Null \/ Created(c, k) => inbox[c][i].users[k] # Null
    /\ "signUp" \in ToSet(asked[c]) =>
         \A p \in DOMAIN push[c] : push[c][p].kind = "users" =>
           \A k \in KeysOf(users) : push[c][p].users[k] # Null \/ Created(c, k)

(* One sign-up at a time looks at every account there is. *)
MetInv ==
    ~met => \A c, d \in Clients :
        /\ \A i \in WaitsAt(c, "signUp"), j \in WaitsAt(d, "signUp") : c = d /\ i = j
        /\ WaitsAt(c, "signUp") # {} /\ c # d => ~Creates(d)
        /\ \A j, k \in Keys, n \in Names : NameAt(c, j, n) /\ NameAt(d, k, n) => j = k
        /\ Fresh(c)

Counts(w, k) == w.key = k /\ "ItemsAuctioned" \in w.sets

(* A write of c that the server has yet to take sets the count of k. *)
ToCount(c, k) == \E i \in DOMAIN pending[c] : i > taken[c] /\ Counts(pending[c][i], k)

(* A message leaves the count of k as it is, or right. *)
CountsRight(m, k, n) ==
    IF m.kind = "users" THEN m.users[k] # Null /\ m.users[k].ItemsAuctioned = Counted(n)
    ELSE Counts(m.write, k) => m.write.to.ItemsAuctioned = Counted(n)

(* Only c counts for account k of name n, and the count is right wherever  *)
(* no write of c sets it later.                                            *)
Exact(c, k, n) ==
    /\ Created(c, k) \/ Base(c, k)
    /\ NameAt(c, k, n)
    /\ \A d \in Clients \ {c} : ~Created(d, k)
    /\ \A i \in DOMAIN pending[c] :
         /\ Counts(pending[c][i], k)
         /\ \A j \in DOMAIN pending[c] : j > i => ~Counts(pending[c][j], k)
         => pending[c][i].to.ItemsAuctioned = Counted(n)
    /\ \/ users[k] # Null /\ users[k].ItemsAuctioned = Counted(n)
       \/ ToCount(c, k)
    /\ \/ cache[c] = Null
       \/ cache[c][k] # Null /\ cache[c][k].ItemsAuctioned = Counted(n)
       \/ \E i \in DOMAIN pending[c] : Counts(pending[c][i], k)
    /\ \A p \in DOMAIN push[c] :
         \/ CountsRight(push[c][p], k, n)
         \/ \E q \in Own(c) : q > p /\ Counts(push[c][q].write, k)
         \/ ToCount(c, k)
    /\ \A i \in DOMAIN inbox[c] : inbox[c][i].op = "count" /\ name[c] = n =>
         /\ inbox[c][i].users[k] # Null
         /\ inbox[c][i].users[k].ItemsAuctioned = Counted(n)

(* An undisturbed name has an account whose count is exact. *)
UnhurriedInv ==
    /\ \A c \in Clients :
         /\ WaitsAt(c, "count") # {} => name[c] \in Names /\ c \in submitters[name[c]]
         /\ \A i \in DOMAIN pending[c] :
              ~Creation(pending[c][i]) /\ "ItemsAuctioned" \in pending[c][i].sets
                  => c \in submitters[pending[c][i].to.Username]
    /\ \A n \in Names \ disturbed : \A c \in Clients : submitters[n] = {c} =>
         /\ name[c] = n => \A i, j \in WaitsAt(c, "count") : i = j
         /\ \E k \in Keys : Exact(c, k, n)

AccountsInv ==
    /\ \A c \in Clients : /\ AnswersInv(c) /\ PresenceInv(c) /\ WholeInv(c) /\ KnownInv(c)
                          /\ NamesInv(c) /\ CountsInv(c)
    /\ \A n \in Names : /\ IsFiniteSet(Uncounted(n)) /\ Counted(n) >= 0
                        /\ submitters[n] = {} => submitted[n] = 0
    /\ \A k \in KeysOf(users) : Fits(users[k])
    /\ OneName
    /\ MetInv
    /\ UnhurriedInv
=============================================================================
