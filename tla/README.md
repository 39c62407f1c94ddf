# A verification of Auctioneer

Auctioneer (`src/`) is an iOS app in which signed-in users open auctions, bid on
the auctions of others, delete their own listings and see what they won. There
is no server code of its own: the devices share the nodes `Products/` and
`Users/` of a Firebase Realtime Database, and the client half of that database
(the SDK) is in the repository under `Pods/FirebaseDatabase`. What can go wrong
is therefore mostly between things: two devices, two tabs of one device, a
device and the database, a write and its answer.

Paths below are short: `C/` is `src/Auctioneer/Auctioneer/Controllers/`, `DB/`
is `src/Auctioneer/Pods/FirebaseDatabase/FirebaseDatabase/Sources/`.

## 1. Inventory

| component | state | operations | hard part |
|---|---|---|---|
| Products data (`Models/AuctionItem.swift` and the `retrieveData` of every tab) | the children of `Products/<key>`; `AuctionItem` objects | create, remove, set price, set bidder; snapshot to lists | products written in parts; force casts of every child; dates without seconds |
| Database synchronisation (`DB/Core`) | server copy, view, pending writes, connection, listens, events; inside, the outstanding puts, unanswered listens and held answers | `setValue`, `removeValue`, `observe`, receive, disconnect, reconnect, restore | order of writes, hidden server data, writes sent twice, answers before data, events that arrive late |
| Feed and bidding (`C/HomeFeed*`) | its list, the bid screen and its observer | select, open, close, `Bid_Submit` | compares with an old price; an observer that is never removed |
| Listings tab (`C/YourListings*`) | its list, the delete screen | select, open, close, `Delete_Listing` | acts on the item selected last, in any tab |
| Won tab (`C/AuctionWon*`) | its list | select; writes `AuctionsWon` once | that number is the length of a list another observer fills |
| Open auction form (`C/OpenNewAuction*`) | the fields, the picture, the address of the last upload | pick, upload, appear, `Submit_Auction` | uploads finish in any order, also after the form was cleared; `ItemsAuctioned` is read, then written |
| Shared app state (`AppDelegate.swift`) | `SelectedToViewAuctionItem`, the signed-in name | set by every tab | one variable, four writers |
| Accounts (`C/SignUp*`, `C/Login*`) | `Users/`, every device's copy of it and its pending writes | sign up, sign in, count, update | a look and a write are two steps, and the look may be at an old copy |
| Profile (`C/Profile*`) | totals, picture | observe, sign out, change picture | its observer keeps the copy of `Users/` alive; totals kept outside the observer that adds to them |
| Image cells (`CustomImageView.swift`) | a cell's picture and load | load | a cell used again while its old load runs |
| Auction house (no code of its own) | the server's products | what the three above may do to them | the abstract specification |

Unused code (`DAL`, `MainDAL`, `UserDAL`, some models), layout, and the vendored
libraries other than the database client are not modelled.

**How they interact.** A tap handler runs on the main queue, calls `setValue`
and returns. The SDK changes its view at once, raises events (which wait on the
main queue and run between later taps), and queues the write for the server.
The server takes each client's writes in order and pushes every change to every
client. Each tab and each detail screen is an observer. All tabs communicate
through `SelectedToViewAuctionItem`; since `AuctionItem` is a class, writing to
that item also writes to the element of the list it was selected in, until that
list is filled with new objects.

**What makes each part correct.**
- *Synchronisation*: a client reads its own writes; nothing is lost when server
  data, pending writes, answers and reconnections interleave; it converges.
- *Bidding*: no accepted bid is below the starting price; nobody leads his own
  auction; a leader has a bid.
- *Tabs*: a list shows the view; what is shown or selected is genuine.
- *Data*: no product that lacks a child, on which every device would crash.
- *Accounts*: no auction counts twice; counts and names are right where nothing
  overlaps; whoever is signed in has an account.
- *Form*: a listing has the picture it was opened with.

The hazards behind this list are in `PROJECT.json` under `hazards`, each at its
line, with the properties that watch it or the reason none does.

## 2. Modules

| module | what it is | extends |
|---|---|---|
| `Products` | the data: products, writes, `AuctionItem`, the lists of a snapshot (operators only) | |
| `DatabaseSync` | server, SDK and connection: one action per operation | `Products` |
| `Auction` | the app on several devices, composed with `DatabaseSync`; invariants, properties | `DatabaseSync` |
| `AuctionHouse` | abstract specification of what `Products/` goes through | `Products` |
| `RealtimeSync` | inside the SDK: requests, answers, outstanding puts, held answers; implements `DatabaseSync` | `Products`, instance of `DatabaseSync` |
| `Accounts` | `Users/`: signing up and in, counting, updating, over single events and old copies | |
| `ListingForm` | the picture of the form that opens an auction | |
| `MCAuction`, `MCRealtimeSync`, `MCAccounts`, `MCListingForm` | the instances for TLC | the module of that name |
| `AuctionProofs` | type correctness | `Auction`, TLAPS |
| `AuctionHouseProofs` | the inductive invariant of the app, the refinement and its consequences; the lists and the views | `AuctionProofs` |
| `DatabaseSyncProofs` | the inductive invariant of the synchronisation and its consequences | `AuctionProofs` |
| `CompletenessProofs` | two inductive invariants of what waits and travels: nothing is partial before a delete, and a leader has paid before the first fault | `AuctionHouseProofs`, `DatabaseSyncProofs` |
| `RealtimeSyncSteps` | lemmas about channels, sorted puts, caches and the log; types, what each step does to a channel, `ListensInv` and `PutsInv` | `RealtimeSync`, TLAPS |
| `RealtimeSyncProofs` | `KnownInv` and `CacheInv`, the inductive invariant and its consequences | `RealtimeSyncSteps` |
| `AccountsSteps` | lemmas about accounts, writes and copies; types, what each step does, `AnswersInv` to `NamesInv` | `Accounts`, TLAPS |
| `AccountsProofs` | counts, the single sign-up, the inductive invariant of the accounts and its consequences | `AccountsSteps` |

`Auction` is composed with `DatabaseSync`: its handlers conjoin the database's
actions. `RealtimeSync` stands below it, as the machinery `DatabaseSync`
abstracts from, and `AuctionHouse` above, as what all of it does to `Products/`.
`Accounts` and `ListingForm` share nothing with the auction but the moment of
`Submit_Auction` and stand by themselves.

No module declares a RECURSIVE operator.

### State and code

| variable | in the code |
|---|---|
| `products` | the server's copy of `Products/` |
| `view[c]` | the event cache of the view of `Products/` (`DB/Core/View`) |
| `synced[c]` | that view has had the answer to its listen |
| `writes[c]` | the write tree and the outstanding puts, by write number; an answered write is `Null` |
| `taken[c]`, `push[c]` | the connection: what went up, what is coming down |
| `connected[c]` | the connection is established and its listens and puts restored |
| `watching[c]` | products that a bid screen has ever observed |
| `inbox[c]` | events dispatched to the main queue and not run |
| `selected[c]`, `selectedIn[c]` | `SelectedToViewAuctionItem`, and the list it is an element of |
| `lists[c]` | `AuctionItemList` of the Feed, Listings and Won tabs |
| `bidScreen[c]`, `deleteScreen[c]` | a detail screen is on the tab's navigation stack |
| `process[c]` | running, ended, or crashed by a force cast |
| `opened` | history: the listing submitted under each key |
| `now`, `left` | the clock; what the bounds leave to do |

| action | in the code |
|---|---|
| `Submit_Auction` | `C/OpenNewAuctionViewController.swift` 175-213 |
| `OpenBidScreen`, `OpenDeleteScreen`, `SelectWon` | `didSelectRowAt` of the tab and `viewDidLoad` of the detail screen |
| `CloseBidScreen`, `CloseDeleteScreen` | the back button; the observer stays |
| `Bid_Submit` | `C/HomeFeedDetailsViewController.swift` 90-138; one step, two `setValue` |
| `Delete_Listing` | `C/YourListingsDetailsViewController.swift` 52-57 |
| `ProductsCallback` | the observer in `retrieveData` |
| `DetailCallback` | the observer of the detail screens |
| `CallbackCrashes` | either of them meeting an absent child |
| `ServerStep` | the server takes a put (external) |
| `ReceiveStep` | data or a change arrives and is merged under the pending writes |
| `ConnectStep`, `LoseConnection` | `FPersistentConnection` `restoreState`, `onDisconnect` |
| `Kill`, `Launch` | the app ends, is started, the same user signs in (external) |
| `Tick` | the clock (external) |

`RealtimeSync`:

| variable | in the code |
|---|---|
| `outstanding[c]`, `putsToAck[c]` | `outstandingPuts`, `putsToAck` |
| `listens[c]`, `unacked[c]` | `listens`, `unackedListensCount` |
| `writes[c]`, `serverCache[c]`, `complete[c]` | the write tree, the server cache of the view and whether it is complete |
| `up[c]`, `down[c]`, `connected[c]` | the connection and `connectionState` |
| `listening`, `takenPut[c]` | what the server knows of the connection (external) |
| `log`, `known` | history: what the server took, and how much of it a cache has seen |
| `orderly` | chosen at the start: the server answers in order and the app listens to `Products/` only |

| action | in the code |
|---|---|
| `SetValue`, `ListenToUsers` | `FRepo set:`, `putInternal`, `listenInternal` |
| `Connect` | `onReady`, `restoreState`: the listens, then the sorted outstanding puts |
| `Disconnect` | `onDisconnect:`: the request callbacks and the listen count are forgotten, the outstanding puts are not |
| `ServerListen`, `ServerPut` | the server (external); an equal hash is answered without data |
| `ReceiveData`, `ReceiveUpdate` | `onDataPushWithAction:`, `FSyncTree applyServerOverwriteAtPath:` |
| `ReceiveListenAnswer` | `sendListen:`'s callback: the count falls, at 0 `ackPuts` |
| `ReceivePutAnswer` | `sendPut:`'s callback: held while a listen has no answer |

`Accounts`:

| variable | in the code |
|---|---|
| `users`, `cache[c]`, `pending[c]` | the server's `Users/`, a device's copy while it has an observer, its unanswered writes |
| `asked[c]`, `inbox[c]` | `observeSingleEvent` handlers that wait for data, and those on the main queue |
| `profile[c]` | the Profile tab has been opened: its observer stays |
| `name[c]`, `signedIn[c]` | `SignedIn_UserName`; the tabs are presented |
| `submitted`, `submitters`, `disturbed`, `met` | history the properties need |

| action | in the code |
|---|---|
| `SignUp`, `RunSignUp` | `C/SignUpViewController.swift` `signUpButton` and its handler |
| `Login`, `RunLogin` | `C/LoginViewController.swift` `Submit_Login` and its handler |
| `Submit_Auction`, `RunCount` | the half of `Submit_Auction` that counts `ItemsAuctioned` |
| `UpdateOther`, `RunUpdate` | `AuctionsWon` of the Won tab, `ProfileImage` of the Profile |
| `OpenProfile`, `SignOut` | `C/ProfileViewController.swift` |
| `ServerListen`, `ServerTake`, `Receive*`, `Connect`, `Disconnect` | the SDK as in `DatabaseSync`, for a node that is not always listened to |

`ListingForm`: `viewDidAppear`, `Pick` (`didFinishPickingMediaWithInfo`),
`PutFileDone` and `DownloadURLDone` (the two completions of the upload),
`Submit_Auction`, all of `C/OpenNewAuctionViewController.swift`; its variables
have the names they have there.

`PROJECT.json` under `map` gives the lines of each definition.

### Abstractions

- The six children of a product that are only ever written together are one
  field, `listing`, of which the values the program decides on are kept.
- A rejected bid shows an alert and is a stutter. `minimumBid` only words that
  alert and is left out (that an empty bid before the first event ends the
  process is listed as a hazard).
- Each event is delivered by itself; a batch is delivered in its order.
  Several observers of the same path do the same with the same snapshot and are
  one observer. The three tabs are loaded from the start and their observers
  run as one callback.
- Observers of different products that see one snapshot run in an unspecified
  order: the price of any of them may be the one that stays.
- In `DatabaseSync` a write of one's own comes back as one message, its data and
  its answer. The server really sends two; `RealtimeSync` has both, and shows
  that with one listen and an orderly server they amount to the one.
- The server accepts every write: the repository has no rules file, so no write
  is revoked. Persistence is off in the app: a process that ends loses its
  queue. All devices have the same clock.
- The halves of `Submit_Auction` and of the Won tab that write to `Users/` are in
  `Accounts`, the checks of the form that decide whether there is a picture, a
  name and a date in `ListingForm`. A listing and the count of it are written
  in one handler; nothing relates the two afterwards, so each module has its
  own half.
- In `Accounts` a password is right or wrong, the value of `AuctionsWon` is
  whether it was updated, and no process ends: a process that ends loses its
  pending writes and with them an increment, which the counts would have to
  except.
- In `RealtimeSync` the observer is the one of `Products/`, and no process ends.
- In `ListingForm` the picker is a sheet over the form: the form does not
  appear anew behind it. Every pick is a file of its own.

## 3. Runs

The constants of an instance are in its `.cfg`; the MC modules name the users
and what exists at the start. Deadlock is not checked where the bounds count
what users do: they owe the system nothing, and it may come to rest.

| run | question | instance |
|---|---|---|
| `bidding` | do crossing bids of two devices leave a price followed by its bidder, and do the views stay right? | 2 devices, 1 auction of a third user, 2 bids of 1 or 2, no faults; symmetric |
| `selling` | is every change of the server's data one the auction house allows, do the lists show the views, and does nobody but its opener know a listing whose creation waits? | 2 devices open, bid, delete and win 1 auction; 2 clock ticks, so that the cut date is earlier than the real one |
| `one_device` | do the inductive invariant and what follows from it hold when tabs and waiting events fight over the selection? | 1 device, its own auction and another's, 3 bids of 1 to 3, 1 deletion, 2 waiting events |
| `faults` | do views, own writes and complete products survive lost connections and ended processes? | 2 devices, 1 new auction, 1 bid, 1 fault; symmetric |
| `convergence` | is every write answered and every view right in the end? | 2 devices, 1 auction, 1 bid, 1 fault, fair |
| `realtime` | are answers, data and puts sent again merged rightly, and does the pipeline implement `DatabaseSync`? | 2 clients, 1 product, up to 3 writes, 2 losses and 1 listen to `Users/`, 3 of these in all; an event must run before the next is raised; symmetric |
| `accounts` | which counts and names are right, and when? | 2 devices, 2 names, 2 keys, 2 sign-ups, submissions or updates, 2 sign-ins, 1 loss, Profile tabs, 5 of all these together, 2 waiting events; symmetric |
| `v_picture` | can a listing get another picture than the one shown? | 2 picks |
| `v_price` | can an accepted bid lower the price? | 2 devices, 2 bids |
| `v_closed` | can a bid be stored after closing? | 2 devices, 1 bid, 1 tick |
| `v_live_price` | can the item an open bid screen bids on hold another product's price? | 2 auctions of a third user, 1 bid |
| `v_delete` | can the delete screen delete somebody else's auction? | 2 auctions, 1 deletion |

**What the properties say.**
- `ReadYourWrites`, `SettledViewsAgree`, `ViewsConverge`: the synchronisation,
  with its overlay of pending writes and its resending.
- `LeaderPaid`: two writes of a bid, with others' between them, never leave a
  bidder without a sufficient price, until the first fault: over a lost
  connection a listing that is sent again resets the price under a bidder that
  follows.
- `BidsRespectStartingPrice`, `OpenerNeverLeads`: the checks of `Bid_Submit`
  suffice although they are made on an item that may be stale and even hold
  another product's price.
- `ImplementsAuctionHouse`: the abstract specification, below.
- `ListsMirrorView`: with no event waiting, each list holds each product once,
  where it belongs; only prices may be wrong and only the clock may have moved.
- `NothingPartialBeforeADelete`: no product lacks a child, and so no device
  crashes, until somebody deletes a listing.
- `TypeOK`, `AuctionInv`: the inductive invariant of the app. `SyncInv`: that of
  the synchronisation. `CompleteInv`: that of complete products, about what
  waits and travels as much as about what is there; `LeaderInv`: that of the bids
  that wait; `MirrorInv`: that of lists and waiting events. Each is checked and
  proved.
- `RealtimeInv`, `AccountsInv`: the inductive invariants of the machinery inside
  the SDK and of the accounts, checked and proved.
- `AnsweredIsKnown`: a write leaves the write tree only when the server's data
  with it is in the cache. This is what `putsToAck` is for: the answer of a put
  sent again may overtake the data of the listen sent with it, and the app
  would be shown a state from before its own write.
- `QuietClientAgrees`: when nothing is on its way, no answer is held, no put is
  outstanding, and the view is the server's. A listen counted once too often
  would hold answers for ever.
- `NewestPutIsLast`: resending in the order of the numbers never leaves an older
  value of a client on top of a newer one.
- `ImplementsSync`: the refinement. The mapping takes a client for connected
  when the server has its listen; `push` is what is on its way without the data
  of own puts (that becomes visible with the answer) and with the answer
  without data read as the snapshot the client has. It is claimed of the
  behaviours in which `orderly` was chosen: a server that takes longer for a
  listen than for the puts behind it, or a second listen, holds answers in a
  way `DatabaseSync` does not have. The invariants are checked of all.
- `NothingCountedTwice`: `ItemsAuctioned` never exceeds the auctions submitted
  under the name, whoever signs in between the look and the write and whatever
  is sent again.
- `UnhurriedCountsAreRight`: and it is exact for a name of which one device
  submits all auctions, each after the last was counted and with no sign-up of
  another device unanswered. `disturbed` collects the names for which that
  fails; it says exactly when increments are lost.
- `NamesUniqueUnlessMet`: two accounts have one name only if two sign-ups were
  under way together or the name was looked up in a copy asked for earlier;
  `met` records that.
- `SignedInHaveAccounts`: whoever signed in with an account that only pending
  writes have is not left without one when the connection is lost.

**The bounds.** `MaxBids`, `MaxDeletes` and `MaxFaults` count what may still
happen and never disable a reaction; `MaxTime` stops the clock; `MaxInbox`
limits how many events wait when a detail screen is OPENED (the queue itself is
not bounded). In `realtime`, `MaxInbox = 0` lets the main queue run an event
before another is raised: the app reads only the view there. Two devices are
what the overlay, the order and the answers distinguish: own and foreign. Two bids are what crosses, and two amounts what is
ordered. One product is enough where nothing relates two; the selection does,
hence two in `one_device`. One fault is a connection lost at any point of the
traffic and restored, with every unanswered write sent again, or a process that
ends and is started again; it may strike in the middle of a listing, of a bid,
or of both devices' writes. Faults, a second product, and the clock are kept to
different runs, because together they are beyond what TLC does in minutes; the
theorems cover them together. `realtime` needs two writes for an order, a loss
for a second sending, and the listen to `Users/` for an answer that is held with
nothing lost; three in all leaves out two writes with a loss and that listen,
which the theorems cover. `accounts` needs two uses, the pair that overlaps (two sign-ups,
two submissions, a sign-up and a submission), a sign-in on each device, and two
waiting events so that a device overlaps with itself; two keys are as many as
two sign-ups take. Five in all leaves room for each of these with a Profile tab,
which keeps a copy of `Users/` alive, or a loss beside it, but not for both: the
theorems cover that.

**Fairness.** `FairSpec` asks weak fairness of `ServerStep`, `ReceiveStep`,
`ConnectStep` and `CallbackStep` of every device: the server answers a put it
received, TCP delivers, `tryScheduleReconnect` retries for ever
(`DB/Core/FPersistentConnection.m` 475), and the main queue runs what was
dispatched to it. Nothing is asked of users, faults, restarts or the clock. As
faults are finite, each of these steps stays enabled until taken; weak fairness
is enough.

## 4. Findings

1. **A lower bid replaces a higher one** (`v_price`). `Bid_Submit` compares the
   amount with the device's copy and writes unconditionally, so of two crossing
   bids the one stored last wins. A transaction on the product would not.
2. **A bid is stored after closing** (`v_closed`). Only the device's clock at the
   tap is compared, and the write waits for the connection.
3. **A bid screen compares with the price of another auction** (`v_live_price`).
   An observer outlives its screen and writes into the item selected now. Close
   the bid screen of one auction and open another's: the next bid on the first
   puts its price into the second, and `Bid_Submit` compares with that, so that a
   bid of the starting price is refused. An item the user may bid on always has
   an observer of its own, so its price is never just old: with a test of the key
   in the observer the property holds in this instance.
4. **The delete screen deletes somebody else's auction** (`v_delete`). Open an
   own listing in Listings, select a row in the Feed, go back and tap Delete.

5. **A listing gets the picture of an earlier pick** (`v_picture`). The form
   asks whether any upload ever finished, and stores the address that came
   last; `viewDidAppear` clears the picture it shows but not the address.

Some more are explained by the models and have no run of their own. After a
deletion the observers of closed bid screens still run and end the process, and
a bid stored after the deletion leaves a partial product at which every device
crashes (why `NothingPartialBeforeADelete` stops at the first deletion); and a
listing whose answer is lost is sent again and erases the bids on it (why
`AuctionHouse` has `Publish` as an action that can be repeated); and an auction
that closes stays in the Feed until the next snapshot (why `ListsMirrorView`
allows it). These properties permit what they name here; they do not catch it.
Of the accounts:
two submissions of one device made offline get the same snapshot and lose an
increment; a second tap on Sign Up before the first is answered creates a second
account of the name; the creation of an account sent again after a lost
connection sets `ItemsAuctioned` back to 0; and a name looked up in a copy that
another observer asked for earlier may have been taken since. These are what
`disturbed` and `met` leave out of the properties.

## 5. Proofs

All theorems hold for any number of devices, users, products, amounts, faults
and ticks. The assumptions are `ProductsAssumption`, `AuctionAssumption` and
`RealtimeAssumption` (`Stored` is data and the app's writes are writes):
`TicksPerMinute` is positive, `"-"` is not a user's name, `Null` is none of the
things it stands beside (`NullIsNoValue` and `NullIsNoWrite` among them: an
absent child is not a price, an answered write not a write), no auction was
opened before the clock started at a later time (`OpenedBeforeAssumption`), the
bounds are natural numbers. Of the accounts they are `AccountsAssumption` (`Keys` is
finite, `Null` no name, the bounds are natural numbers) and `NullIsNoAccount`.

| theorem | says |
|---|---|
| `TypeCorrect` (`AuctionProofs`) | `Spec => [](TypeOK /\ SelectionExists)` |
| `AuctionInvariant` (`AuctionHouseProofs`) | `Spec => []AuctionInv` |
| `AuctionImplementsHouse` | `Spec => ImplementsAuctionHouse` |
| `BidsRespectStartingPrices` | `Spec => []BidsRespectStartingPrice` |
| `OpenersNeverLead` | `Spec => []OpenerNeverLeads` |
| `MirrorInvariant` | `Spec => []MirrorInv` |
| `ListsMirrorTheViews` | `Spec => []ListsMirrorView` |
| `SyncInvariant` (`DatabaseSyncProofs`) | `Spec => []SyncInv` |
| `OwnWritesAreRead` | `Spec => []ReadYourWrites` |
| `SettledViewsAreTheServers` | `Spec => []SettledViewsAgree` |
| `CompleteInvariant` (`CompletenessProofs`) | `Spec => []CompleteInv` |
| `NothingIsPartial` | `Spec => []NothingPartialBeforeADelete` |
| `LeadersInvariant` | `Spec => []LeaderInv` |
| `LeadersHavePaid` | `Spec => []LeaderPaid` |
| `RealtimeTypeCorrect` (`RealtimeSyncProofs`) | `Spec => []TypeOK` |
| `RealtimeInvariant` | `Spec => []RealtimeInv` |
| `AnswersTakeEffectLate` | `Spec => []AnsweredIsKnown` |
| `NewestPutWins` | `Spec => []NewestPutIsLast` |
| `QuietClientsAgree` | `Spec => []QuietClientAgrees` |
| `AccountsTypeCorrect` (`AccountsProofs`) | `Spec => []TypeOK` |
| `AccountsInvariant` | `Spec => []AccountsInv` |
| `NothingIsCountedTwice` | `Spec => []NothingCountedTwice` |
| `UnhurriedCountsEndRight` | `Spec => []UnhurriedCountsAreRight` |
| `NamesStayUnique` | `Spec => []NamesUniqueUnlessMet` |
| `UsersHaveAccounts` | `Spec => []SignedInHaveAccounts` |

**The argument.** `TypeOK` is not inductive: the observer of a detail screen
writes into `SelectedToViewAuctionItem`, which is empty at first. It is so
together with `SelectionExists`: whenever a detail screen is open, a product is
watched or a detail event waits, something has been selected. That needs the
first fact about queues that the rest rests on as well: the elements of a
concatenation are those of its parts.

What the server stores is decided on a device, from an item that may be stale,
and travels through a queue, possibly twice. So the server's data cannot be
argued about alone. `AuctionInv` says that everything that travels is genuine:
every unanswered write is legal for the listing submitted under its key
(`WritesAreLegal`), every copy of a listing, in a view, a message or an event,
is the one submitted (`CopiesAreGenuine`), and so are the opener and the starting
price of every `AuctionItem` (`ItemsAreGenuine`). Prices are left out, as they
may be wrong. A bid is legal because opener and starting price of the selected
item are genuine and the amount is at least the starting price in both branches
of the check: the second branch compares with a price that is at least it. Each
operation of the synchronisation preserves the three parts (`SetValueGenuine`
... `EventQueueGenuine`), each handler adds legal writes (`BidsAreLegal`,
`DeletesAreLegal`, `SubmissionsAreLegal`).

The refinement then follows step by step: only `ServerApply` changes `products`,
and a legal write is a step of the auction house (`LegalWriteIsAStep`); only
`Submit_Auction` changes `opened`, an `Announce`; all else stutters. The mapping
is the identity on `products` and `opened`. The two theorems behind it are proved
of the auction house (`StandingStep`) and carried over.

**Lists and views.** `ListsMirrorView` speaks of an empty main queue; while
events wait, lists are behind the view and detail screens write prices into
them. `MirrorInv` says what holds then: if an event of `Products/` waits, the
newest of them has the view (`LastHas`), and if none does, the lists mirror it
already (`WillMirror`). A change of the view adds a detail event or none and then
one of `Products/` (`ChangeIsTold`); the first event of a detail screen adds none
and changes no view (`DetailIsAppended`). The event that is taken fills the lists,
and if it was the newest they mirror the view (`EventIsTaken`,
`FilledListsMirror`). A detail event replaces one element by itself at another
price (`OnePriceChanges`), provided that the selected item is in the list it
counts as an element of, `SelectedIsListed`. While the clock runs, what has closed
stays closed (`ClosedStaysClosed`): that needs opening times that are past, which
`CutToMinute` gives new auctions and `OpenedBeforeAssumption` the old ones.

**The synchronisation.** `ReadYourWrites` and `SettledViewsAgree` are not
inductive: an answer removes a write from the queue, and the view must then be
right without it. `SyncInv` says, for each client, four things.
- `Shows`: the view has what the newest unanswered write of a field set.
- `InOrder`: the own answers on their way are those of the unanswered writes up
  to `taken`, each once, in growing order; so the next answer is that of the
  OLDEST unanswered write (`AnswersOldest`), and all that remain are newer.
- `Follows`, on a connection: the last message on its way that has a value for a
  field has the server's value, and a field that no message tells and no
  unanswered write hides has the server's value in the view.
- without a connection nothing is on its way and no write counts as taken, and
  with one the listen was or will be answered.

Each is kept by an append to the queue (`WriteShows`, `WriteInOrder`,
`WriteFollows`), by a message sent (`OwnSent`, `ForeignSent`, `SentFollows`) and
by a message received (`ReceiveShows`, `ReceiveFollows`, `ForeignReceived`). The
hard case is the own answer (`OwnReceived`): the field it uncovers is one the
client no longer asks about, and if nothing later tells it, `Follows` makes the
write's value the server's while `Shows` makes it the view's. These lemmas are
about queues and views alone; `SyncInvStep` puts them together for every step of
`DatabaseSync`, whatever app is above it, and `AuctionSteps` says that `Auction`
takes no others.

**Complete products.** `NothingPartialBeforeADelete` says that the force casts of
`retrieveData` meet every child, and no step by itself makes that so: a bid is
two writes of one child each, and neither the device, the SDK nor the server
looks whether the rest is there. It holds by a chain that `CompleteInv` spells
out for everything that waits or travels:
- a listing is written whole, and every write sets values (`SetsValues`);
- a bid is made on the selected item, and what is listed or selected is in the
  view (`ItemsAreThere`);
- a product in the view is on the server, unless a pending write of the device
  creates it (`ViewComplete`). Then the device opened it; but nobody bids on an
  auction of his own, and by `AuctionInv` the item tells who opened it, so the
  product is on the server when the bid is written (`WritesComplete`);
- the server tells each device of a product before it tells of a bid on it: the
  snapshot of a connection is its first message, and later ones are in the
  server's order (`MessagesComplete`, `AllArrive`);
- a pending write of one's own hides only parts of a product that is shown
  already, and an answer is that of the oldest of them (`InOrder` of `SyncInv`),
  so no message leaves a part alone;
- an event carries a complete snapshot that is no older than the lists and the
  selection it changes (`EventsComplete`).

The proof has one part for each of these and one for each operation of
`DatabaseSync`; `AllCompleteStep` puts them together, and it uses `TypeOK`,
`AuctionInv` and `SyncInv`, which are proved before. A deletion breaks the chain
at its first link, as the findings say; the invariant ends there.

**Leaders.** The server takes the two writes of a bid in their order, but others'
writes come between them, and the price that is there when the bidder is taken
need not be his. `LeaderPaid` holds because nothing takes a price away and leaves
a bidder: `LeaderInv` says of each bidder that waits that his price is the write
right before it, or that the product has a bid already (`BiddersFollow`). A
deletion takes the price and the listing at once (`TakenWrite`). The creation of
the listing is the one write that could set the price back to 0 with a bidder yet
to come, so the invariant follows a listing from the moment it is submitted to the
moment the server takes it (`ListingsAreNew`): the only other write of the product
that waits anywhere is its deletion by its opener, behind the creation; the other
devices do not have it in their view, their events, their lists or their selection
(`KnowsNothing`, kept by every step: `KnowsStep`), and nothing on its way brings it
(`HearsNothing`). Its opener selects it at once, but by `AuctionInv` the selected
item tells that he opened it, and his bid is refused. `SilentStep`, `GrowStep` and
`TakeStep` are the three kinds of steps: those that change no queue, those that add
writes to one, and the server's; `StepsSorted` says that there are no others, as
long as no connection is lost. A process that ends only loses writes.

**Inside the SDK.** The properties of `RealtimeSync` are about the moment at which
an answer takes effect; the reasons they hold are on their way then. Each
invariant part is about one client, and none assumes that the server answers in
order:
- `ListensInv`: every listen is on its way once or not at all, and the count is
  of those that are. It is what `onDisconnect` resets and `restoreState` builds
  anew, so an answer of an old connection cannot lower it.
- `PutsInv`: the outstanding puts are the newest writes, on a connection each is
  on its way up or its answer down, in the order of the numbers, and whatever
  is answered or held has an entry in the log that no older put of the client
  follows (`TakenTo`). The order of the restored puts is that of the sorted keys
  (`RestoredPutsFacts`), which `NewestPutIsLast` rests on.
- `KnownInv`: an entry of the log reaches the cache before the answer of its put
  takes effect. Either the data comes first (`EntriesKnown`, `PutsKnown`), or
  the put overtook the listen, which then has no answer yet, counts, and so
  holds the answer of the put; the answer to the listen brings the entry
  (`ListenKnown`), and no earlier message has a later place in the server's
  order (`AscendingAts`).
- `CacheInv`: `Follows`, as in `SyncInv`, for the server cache in place of the
  view, and as long as the server has no listen the hash that was sent is the
  one of the cache: only then may an answer without data stand for data.

`AnsweredIsKnown` is `EntriesKnown` with `PutsInv`: an answered write is neither
outstanding nor held. For `QuietClientAgrees` an empty channel leaves `ListensInv`
no listen, hence no count, hence `PutsInv` no held answer and no outstanding put,
so that the view is the server cache, which `CacheInv` says is the server's.

That the restored puts are sorted is a fact about finite sets of numbers, proved
without induction: the outstanding puts are the newest writes, their numbers an
interval, and the place of a put is the size of the interval below it.

**Accounts.** The properties of `Accounts` are about the server's `Users/`, or
about a moment at which nothing waits; what makes them so travels before. Each
part of `AccountsInv` needs those above it.
- `AnswersInv`: the answers on their way are those of the first `taken` pending
  writes, each once, in order (`InOrder`).
- `PresenceInv`: accounts are never removed, so a copy has only accounts the
  server has, and a later message has what an earlier one had.
- `WholeInv`: an update sets one child. It meets a copy that has the rest: whoever
  listens has been told of every account before.
- `KnownInv`: an account once seen, updated or signed in with stays there for the
  device, in every copy it can be shown (`Base`), or because its own pending
  writes create it (`Created`). `UsersHaveAccounts` is its last conjunct; and it
  is where the types come from: no handler updates an account that is absent.
- `NamesInv`, `OneName`: an account has one name, in every copy, on every device.
- `CountsInv`: `Counted(n)` is what was submitted under `n` less the single events
  that still wait to count it. No copy of an account, wherever it is, counts more
  (`Fits`): a handler that runs takes one event from those that wait, and so may
  write one more than it was shown. This needs the name that waiting submissions
  are counted for to stay: signing in waits behind them on the main queue, and
  signing out does not clear it. `NothingIsCountedTwice` follows, as `Counted(n)`
  is at most `submitted[n]`.
- `MetInv`: while `met` is false, one sign-up is under way, and what it is or will
  be shown has every account (`Fresh`), so that the name it finds free is free.
  `NamesStayUnique` follows; without any device nothing is created at all
  (`DesertedAlways`).
- `UnhurriedInv`: of a name submitted for by `c` alone and undisturbed, one account
  `k` is `Exact`. No other device writes its count, and that count is right
  wherever no later write of `c` sets it: the newest write of `c`, the server
  unless `c` has a write to come, the copy of `c` unless its writes cover it,
  every message to `c` unless an answer behind it sets the count again, and the
  snapshot a waiting handler will be given. A lost connection keeps this, as the writes are
  sent again in order and the last of them is the newest. With nothing pending
  and nothing waiting the server is right and `Counted(n)` is `submitted[n]`:
  `UnhurriedCountsEndRight`.

`TypeOK` is not inductive without `AccountsInv`, nor the reverse; `Core` is the
two of them, one lemma per action keeps each part, and `CoreNext` puts them
together. What own writes make of a copy (`Seen`) is decided by the newest write
that sets a child; that there is one is taken from the order of the numbers
(`NatLessThanWellFounded`).

**Only model-checked.** `ImplementsSync`: it relates the messages of two channels
through a mapping that leaves some out. `ViewsConverge`: it is liveness under
fairness, which the prover does not do, as it does not do ENABLED, induction
theorems that take an operator as parameter, and RECURSIVE operators (none is
used).

## 6. Not modelled

- **Another user on the same device**: `Auction` has one user per device, who
  comes back after a restart. Signing out and in as somebody else is in
  `Accounts`. There one tap on Login at a time waits for its answer, and taps
  that ask for `Users/` wait for an empty main queue: stricter than the code,
  and than `Auction`.
- **Image cells** (`CustomImageView.swift`): a cell used again cannot cancel its
  old load and may show the other row's picture for a while. It is one
  assignment behind a URL session and no data of the program.
- **Profile totals** (`C/ProfileViewController.swift` 53): every further snapshot
  is added to totals that are never reset. Only two labels show them.
- **The value of `AuctionsWon`** (`C/AuctionWonViewController.swift` 39): the
  length of a list that another observer fills, 0 if that one is later. That the
  child is updated is in `Accounts`; which of two listens is answered first, and
  so the number, is not.
- **`minimumBid`** only words an alert; that an empty bid before the first event
  ends the process is listed as a hazard.
- **Refreshing**: every pull adds an observer of `Products/` that does the same
  with the same snapshot as the first; the model has one.
- **Parts of the SDK the app does not use**: queries, transactions,
  `onDisconnect` writes, `get`, persistence; and revoked writes, which nothing
  here makes happen.
- **Unused code, layout, other vendored libraries**: no state of the program.

What a continuation would take up first is the proof of `ImplementsSync`: of each
step of the pipeline with one listen and an orderly server, which messages of the
channel it maps to, and that the rest of the state maps to itself.
