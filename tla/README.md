# A verification of Grocr and its Firestore client

`src/Grocr/Grocr` is an iOS app that keeps a shared list of products and their
prices in a Firestore collection, "Market Price". Several phones read and write
the collection through the vendored Firestore client
(`src/Grocr/Pods/FirebaseFirestore/Firestore/core`). This directory models the
app, the parts of the client its behaviour depends on, and the backend as both
use it; TLC checks the models on small instances, and TLAPS proves the main
safety properties for all of them.

Paths below are relative to `src/Grocr/Grocr/` (the app) and
`src/Grocr/Pods/FirebaseFirestore/Firestore/core/src/` (the client, written
`core/...`, `remote/...`, and so on).

## 1. Inventory

### The app

| Part | State | Operations | What makes it correct |
|---|---|---|---|
| `GroceryItem.swift` | one document: two parallel arrays, `price` and `Current Date` | decode, with a default for a missing array | both arrays non-empty, one date per price after padding |
| Product list, `GroceryListTableViewController.swift` | `items`, `returnItem`, the loading view | `queryforServer` and its completion, `refresh` on newDataNoti, row selection, swipe delete and its completion | rows aligned; the list agrees with the backend once everything is answered; the loading view goes away; a completion acts on the row it was made for |
| Detail screen, `DetailVC.swift` | the row and the dictionary it was opened with | `modifyPressed` (a query, then two `updateData`), `cancelPressed` | the document changed is the one shown; no entry of another phone is lost; the chart never subscripts out of range |
| Add popup, `PopUpController.swift` | the image upload, then the download URL, then `setData` | `updateBtnPressed` and its three nested completions, `cancelBtnPressed` | one document per upload, under a fresh name; the popup closes |
| Loading view, `UserInterface.swift` | hidden or not | `loadView`, `hideLoadView` | see the list |
| Login, `LoginViewController.swift` | the text fields and the Auth listener | `loginDidTouch`, `signUpDidTouch` | sign-up handles a failed creation |
| User list, `OnlineUsersTableViewController.swift` | none of its own | unreachable: the storyboard has no segue to it | - |

Handlers run on the main thread, each to its end. They talk to the Firestore
client by calls that return at once; answers and completions are closures posted
to the main queue, run in the order they were posted. Two screens also talk
through `NotificationCenter` (newDataNoti). Every screen presented by a modal
presentation disappears with the one that presented it, but a list screen
stays in memory while a closure or the notification center's callback path
still holds it.

### The Firestore client

| Part | State | Operations | What makes it correct |
|---|---|---|---|
| Write path: `core/sync_engine.cc`, `local/local_store.cc`, `local/leveldb_mutation_queue.cc` | the queue of mutations on disk, the completions kept per batch id | write, acknowledge, reject, restart | writes take effect in order; each completion runs at most once; a write that is queued is eventually resolved |
| Write stream and pipeline: `remote/remote_store.cc`, `remote/stream.cc`, `remote/write_stream.cc`, `remote/grpc_stream.cc` | the pipeline of at most `kMaxPendingWrites` batches, the stream's state, close count and timers, the unread replies | fill, start, token, handshake, reply, error, backoff, idleness, restart | the pipeline is the front of the queue; a reply belongs to the batch at its front; no restart and no refill is forgotten; no late token opens a later stream |
| Mutations: `model/*_mutation.cc`, `model/precondition.cc`, `model/transform_operation.cc`, `model/mutation_batch.cc` | - | what a set, an update (patch and transform) and a delete do to a document, remotely and locally | an update never creates a document; an array union never loses an element |
| Read path: `api/query_core.cc`, `core/event_manager.cc`, `core/query_listener.cc`, `local/local_store.cc`, `local/local_documents_view.cc` | the cache on disk, the listeners, the views | `getDocuments` from the backend, from a view that is still live, from the cache when offline, or an error | an answer shows the phone's own pending writes |
| Watch stream and targets: `remote/remote_store.cc`, `remote/remote_event.cc`, `remote/watch_stream.cc`, `remote/online_state_tracker.cc` | the targets, what has been gathered for each since the last snapshot, the answers each still waits for, the online state | listen, stop listening, document change, existence filter, target change, snapshot, target error, open, close, idleness, timeout | the tables of targets of engine and remote store agree; every pending answer is still to come; a quiet client has answered |
| Views and limbo: `core/view.cc`, `core/sync_engine.cc` | the view's current flag and limbo documents; the queue of lookups and the lookups under way | a view's snapshot, lookup started, lookup answered or denied, view closed | a view in sync shows a collection the backend has had; every limbo document that is shown is looked up |

### What is hard here

- **Two updates per entry.** `modifyPressed` writes a price and a date as two
  separate `updateData` calls: between them, or when only one is accepted, every
  reader sees arrays of different lengths.
- **Interleaving phones.** Updates, deletes and creations of several phones meet
  at the backend in any order that keeps each phone's own.
- **Lost replies.** A write whose reply is lost has been applied and is sent
  again; the new stream's handshake carries no token.
- **Stale rows.** Closures capture a row index, and `items` is replaced under
  them; `modifyPressed` queries again and takes the same row of the new answer.
- **Several queries at once.** Load, refresh and the query after a delete
  overlap, and an answer may come from a view that is about to be removed.
- **Death between steps.** A force unwrap, a `try!` or a subscript ends the
  process with writes in the queue; the next one sends them without completions.
- **One error, two meanings.** The end of a write stream is either about the
  oldest batch, which is then rejected, or about the connection, and everything
  is sent again; the end can be reported ahead of a reply that has been read
  from the wire already.
- **Late tokens, idle streams.** A stream asks for a token and may be stopped
  and started again before the token comes; the idleness timer may elapse when
  a write has just been issued.
- **Pending answers.** Target ids are used again: answers to an earlier listen
  come in while a later one waits for its own, and are told apart by counting.
- **What the backend does not spell out.** A deletion may be reported by an
  existence filter alone; the client then takes back all it knew and asks anew,
  at the next snapshot.
- **Limbo.** Documents the cache has and the backend did not confirm are looked
  up one by one, a few at a time, while views open and close.
- **Liveness.** The loading view, the popup and the queue each wait for a chain
  of callbacks.

`PROJECT.json` lists 37 hazards with the line where each bites and the
properties that watch over it; eleven of them have no property, and say why:
in five the app strands or ends itself and nothing in the repository promises
otherwise (the models fire these actions, and the properties that remain are
checked with them), three are defects of the client that a property is
stated around, one is sign-up, which touches nothing else, one is a comparison of
versions the models have no versions for, and one is an end of the stream that the
backend is taken not to make (section 5).

## 2. Modules

| Module | Models | Uses |
|---|---|---|
| `PriceArrays` | pure operators: `ArrayUnion`, `Decode`, `PadTo`, `Align`, `Chart` | - |
| `PriceHistory` | one document and the updates of several phones to it | `PriceArrays` |
| `MarketClient` | backend, cache, queue of writes, getDocuments and callbacks of every phone | `PriceArrays` |
| `Grocr` | the screens of the app, one action per handler | `MarketClient` |
| `WriteQueue` | abstract: what the client promises about its writes, without streams | - |
| `WritePipeline` | one phone's batches, pipeline and write stream, and the backend at the other end | `WriteQueue` |
| `Listening` | one phone's getDocuments calls, view, limbo documents, targets, watch stream and online state, and the backend at the other end | - |
| `MCPriceHistory`, `MCMarketClient`, `MCGrocr`, `MCWritePipeline`, `MCListening` | symmetry and the constants that are functions of other constants | the five models |
| `PriceArraysProofs`, `PriceHistoryProofs`, `MarketClientProofs`, `GrocrProofs`, `WritePipelineProofs`, `ListeningFacts`, `ListeningProofs`, `SyncedProofs` | theorems | the models |

`MarketClient` is both a model of the client and the abstract specification the
app is held to. `Ask(d, pop, ws, qs)` is what the client does for one handler
of the main thread: the callback at the head of the main queue is consumed if
`pop`, the writes `ws` are queued, the collection is asked for once for each
owner in `qs`. Each handler of `Grocr` is an `Ask` with exact arguments, in
conjunction with what it does to the screens. `AppStep` is the contract: an `Ask`
whose writes are none, a `setData` under an unused name, the two updates of an
entry, or a delete (`HandlerWrites`). `MarketContract` says that every step of
`Grocr` is an `AppStep` with exactly the writes and queries it added to the
queues, a step of the client, or the end of a process; TLC checks it and
`ContractKept` proves it.

`MarketClient` knows of the network a queue of writes, replies to its oldest
ones, and queries that are answered in one of four ways. `WritePipeline` and
`Listening` open these two up, for one phone: the first is the machinery that
sends the queue, with what is written left out; the second is the machinery that
answers a query, with the phone's own writes left out. `WriteQueue` is
the promise between `WritePipeline` and the rest: a queue whose writes are taken
in order (`Apply` repeats what was applied before, as `Land` in `MarketClient`
may), are answered from the front, with success only when applied, and whose
completions run at most once. `ImplementsQueue` is the refinement, with the
queue of writes mapped to the writes of the batches on disk; TLC checks it and
`QueueImplemented` proves it.

### State and actions against the code

`PriceHistory`

- `doc` is the stored document, `updates[w]` what phone `w` has not delivered,
  `entered` a history of the entries made. `ModifyPressed` is the two
  `updateData` calls (`DetailVC.swift:205-212`), `UpdateLands` one of them
  arriving. `Item` is what the list makes of the document at any moment.

`MarketClient`

- `server`: the collection. `cache`, `pending`: on disk, per phone. `replies`:
  the backend's answers to the oldest writes, not read yet; its length is the
  number of writes sent and taken. `queries`: getDocuments calls not answered.
  `main`: closures posted to the main queue. `up`: the client was started by its
  first use (`Firestore.firestore()` is lazy, and so is the network).
- `landed` and `used` are history: how many of the oldest writes have been
  accepted before, and which names `document()` has drawn.
- `Land` and `Refuse` are the backend taking a sent write. `MaySend` holds the
  pipeline's limit and order; after an error the stream is closed, so nothing
  after the failed write is taken until it has been resolved.
- `Resolve` is a reply being read: queue, cache and completion change together,
  as `LocalStore::AcknowledgeBatch` or `RejectBatch` do in one transaction. A
  reply does not touch a cached document that a query has since brought to the
  same or a newer version (`local_store.cc:211`); such replies are `"known"`.
- `LoseReply`, `GoOffline`: the stream ends, its unread replies are lost.
- `Answer`: the four ways a getDocuments call ends.
- `ProcessEnds`: what is on disk stays, completions and closures go.

`Grocr`

- `screen`, `view`, `items`, `loadHidden`, `detail`, `popups`, `uploads`,
  `dismissals`: the state of the view controllers, with every list screen of a
  process kept apart (`items[d][v]`), because older ones still answer
  newDataNoti. `stale` is history, used by `ReadsItsWrites` only.
- A trap (a failing force unwrap, `try!` or subscript) sets `screen` to
  `"trapped"`; nothing but `Relaunch` happens on that phone then, except that the
  network side may already have taken a write.
- `dismiss` in `modifyPressed` and `cancelPressed` takes down the whole stack to
  the login screen, because the presenting controller is the login screen.

`WritePipeline` (each action is one operation of the worker queue)

- `queue`: the batches on disk. `nextId`, `callbacks`: `next_batch_id_` and
  `mutation_callbacks_`. `pipeline`: `write_pipeline_`. `state`, `closeCount`,
  `idle`: those of `Stream`. `handshake`: where the greeting is; `"complete"` is
  `handshake_complete_`. `requests`: the close counts a token was asked for with
  and has not come for.
- `in`, `out`, `final`, `overtaken`: the wire. `out` is what is written and not
  taken by the backend, `in` its unread replies, `final` how the stream was ended
  by the other side.
- `FillWritePipeline` is the shared tail of `WriteMutations`, `ReadReply`, of a
  rejection and of a start: it copies batches with ids above the last one
  retrieved (`Filled`), sends what it added when the stream has been greeted,
  starts or stops the idleness timer, and starts the stream when it is needed.
- `FinishStream`, `FinishUnread`: `OnWriteStreamClose` with an error
  (`CloseWithError`). After the greeting a permanent error rejects the batch at
  the front. `FinishUnread` is the case of a failed `Write` that is handled
  ahead of the reply: `grpc_stream.cc` drops queued completions then.
- `ReceiveToken` compares the close count it was asked for with that of now, and
  changes nothing when they differ.

`Listening` (likewise)

- `remote`: `listen_targets_` (`targets`), the `TargetState` of each (`states`),
  the aggregator's documents (`updated`, `gone`) and resets, requests the backend
  has not taken (`sent`), and the online state tracker (`online`, `timer`,
  `failed`). `limbos`: `enqueued_limbo_resolutions_`, `active_limbo_resolutions_by_target_`
  (`active`) and `..._by_key_` (`byKey`). `live`, `current`, `limbo`: the view.
  `cache`, `synced`, `token`: documents, the target's known keys and its resume
  token, on disk. `calls[c]` is what a call was answered from.
- `FirstCall`, `LaterCall`, `RemoveQueryListener`: `QueryListener` registration
  and removal in the event manager, with the target's allocation and release.
- `GatherWatchChange`: one document change, existence filter or target change.
  `RaiseWatchSnapshot`: a message with a snapshot version; it makes the remote
  event (with a deletion for each lookup that is current without its document),
  applies it to the disk, lets the view compute its limbo documents, starts and
  ends lookups, and carries out resets. `ProcessTargetError`: the error of the
  query ends it; that of a lookup takes its document out of the cache.
- `OnWatchStreamClose`, `IdleTimeout`, `OnlineStateTimeout`, `RestartNetwork`,
  `Die`: the ways a stream or the process ends and the tracker moves.
- `served`, `responses`: what the backend has sent for each target, and its
  messages on their way.

## 3. Runs

| Run | Question | Result |
|---|---|---|
| `PriceHistory` | Do half-landed entries keep list and chart in bounds, and is anything lost when two phones add entries? | holds |
| `LastPrice` | Is "LastPrice" the price entered last? | violated: `arrayUnion` drops a price the product had before |
| `MarketClient` | What does the collection promise any app? | holds |
| `Repeats` | Is a write that was applied never applied again? | violated: a deleted document comes back |
| `Grocr` | Do all handlers together keep rows aligned, lists up to date, and the client's contract, under one fault of any kind? | holds |
| `GrocrTwo` | The same with another client of the collection, a lost reply and a price that is no number | holds |
| `GrocrLive` | Do loading view, popup and queue end under fairness? | holds |
| `WritePipeline` | Do pipeline, stream and disk agree through every fault, do they keep `WriteQueue`'s promise, and is every write answered? | holds |
| `Listening` | Does a view in sync show what the backend had, is limbo pursued, do the tables agree, does a quiet client have answers? | holds |
| `UpToDate` | Is an answer that is not from the cache up to date, with no fault at all? | violated: the reset of an earlier listen swallows a deletion |
| `DeletedRow` | Is the row a delete captured still there at its completion? | violated: out of range, a trap |
| `ModifiedRow` | Does Modify change the document shown? | violated: it changes the one at its row |

### Properties

- `DrawingInBounds`: the padded arrays of any intermediate document have equal
  and positive lengths. `EntriesKept`: when all has landed, all that was entered
  is there. `ChartIsTheEntries`: one phone that never repeats a price or a date
  sees its entries in the chart, in order.
- `DocsHaveHistory`: what `price.last!!` relies on, at the backend and in every
  cache. `AnswersHaveHistory`: the same of what the app is shown, the phone's own
  queued writes on top. `CreationsAreFresh`: a `setData` is queued once and cannot replace a
  document. `HistoriesOnlyGrow`, `UpdatesDoNotResurrect`: what a step may do to a
  document.
- `RowsAligned`, `ReadsItsWrites`, `MarketContract`: the list, the list against
  the backend, the app against the client. `ReadsItsWrites` is claimed under
  `NoLossWithRefusal`: until there are two faults, or when replies and connections
  are never lost, or when the backend never refuses a write. Without it TLC has a
  counterexample of two faults: the reply to a write is lost, its repetition is refused, and
  the phone gives up a write the backend has, while the view of an earlier query is
  still live and answers without it.
- `LoadingEnds`, `PopupCloses`, `QueuesDrain`: liveness.
- `PipelineIsTheFront`, `StreamCarriesThePipeline`: a reply or an error finds the
  batch it removes, which the code asserts. `NothingIsForgotten`: the pipeline is
  as full as it can be and has a stream on its way. `IdleIsUnneeded`,
  `OpensFromStarting`: the stream's own assertions. `ClosuresAreKept`: a waiting
  completion is kept under the id of a queued batch, across new processes that
  count their ids anew. `ImplementsQueue`: the refinement. `QueueDrains`: every
  write is answered if the process stays alive.
- `SyncedIsTheBackend`: a view that is current with nothing in limbo shows a
  collection the backend has had since the view began. `LimboIsPursued`: a limbo
  document that is shown waits for a lookup or has one. `TargetsAreThose`:
  engine and remote store have the same targets, and no more lookups run than
  may. `OutstandingAreToCome`: the count of pending answers is that of the
  answers to come. `TrackerIsSound`: what the tracker asserts of itself.
  `QuietMeansAnswered`: with nothing on its way in either direction, a waiting
  call waits for limbo documents alone. `FromServerIsUpToDate` is
  `SyncedIsTheBackend` without its condition on the token; it fails.

Each of them has a mutant of the code that breaks it (the definitions headed
"A wrong form" in the modules), so none of them holds by construction.

### Bounds

- `PriceHistory`: two phones, three prices, three dates, three entries beyond
  the first. Two phones and two updates each give every interleaving of two
  entries; three values allow a distinct and a repeated one.
- `MarketClient`: two phones, one name, two writing handlers, two faults. A
  creation or an initial document, an update or delete of the other phone, and
  a lost reply or a refusal between them are all within the bound; a name
  interacts with no other name, so that one is enough. Process death is a fault
  here only in `Repeats` and in the `Grocr` runs; a `Kill` that is no fault (a
  trap) happens in this run at any time.
- `Repeats`: three writing handlers, one fault of any kind.
- `Grocr`: one phone, two documents, two list screens, one popup with two taps on
  Update, two writing handlers, one fault of any kind and one failed upload.
  Two documents are what a row needs to shift; two list screens are what a
  stale screen needs.
- `GrocrTwo`: one phone and an unconstrained second client, a lost reply, and a
  price that does not parse.
- `GrocrLive`: one document, two writes, two faults of the four kinds of
  `GrocrLive.cfg`; no symmetry, because of liveness.
- `WritePipeline`: six writes, a pipeline of five, three faults of any kind
  (refusal, broken connection, lost token, restart of the network, death). Six
  writes are the fewest that leave one outside a full pipeline of five; in a
  smaller one a failed `Write` would never drop two unread replies at once, as
  that takes one that has been read, two that have not, the refused batch and
  the one whose `Write` fails. `kMaxPendingWrites` is 10 in the code; the theorems hold
  for every value.
- `Listening`: two interchangeable calls, two documents, one lookup at a time (so
  that one has to wait), three changes by others, two faults. `MaxUnread` is 1:
  the backend adds to its messages while at most one is unread, so that messages
  of two listens meet. `MaxConcurrentLimboResolutions` is 100 in the code.
- `UpToDate`: the same without faults and with `MaxUnread` 0.
- `MaxChanges` and `MaxUnread` bound what the backend does.
- `MaxWrites`, `MaxQueries`, `MaxFaults`, `MaxViews`, `MaxPopups`, `MaxUploads`,
  `MaxUploadFaults`, `MaxEntries` are the bounds. They appear in guards of what a
  user, the backend or the environment may start, never in the guard of a
  callback: `MayWrite` reserves the writes that queries and uploads under way
  will issue, and `NameLeft` the names, so that no callback is ever held up.
- `CHECK_DEADLOCK FALSE`: with the bounds used up and nothing queued the system
  rests.

### Fairness

`FairSpec` assumes weak fairness of each callback (the main queue runs what is
posted), of an upload's end (Storage calls its completion), and of each network
step: the backend takes a sent write, a reply is read, a query is answered, the
connection returns. The last is what the client's own backoff and connectivity
monitor work for. There is no fairness of taps, of relaunching, or of faults,
and faults are finite in number (`MaxFaults`). Two exclusions are not
assumptions about the code but what the code really does:

- `LoadingEnds` is checked without query errors. After one the code prints
  it and leaves the loading view up (`GroceryListTableViewController.swift:127`).
- `PopupCloses` is checked without failed uploads. After one the closure does
  nothing and the popup stays (`PopUpController.swift:126`).

Both are listed as hazards.

`WritePipeline` assumes weak fairness of the client's own steps taken together
(the worker queue runs what is posted, gRPC reports what it has, a delay
elapses) and of the backend's (it answers a greeting and takes a write); nothing
is assumed of the idleness timer, of the app or of faults, which are finite in
number. `QueueDrains` is then claimed of a process that stays alive.

`Listening` claims no liveness: after a mismatch or a denial the code may leave
documents in limbo whose lookup has been answered, or a query deaf until its
stream ends, and no timer ends such a wait. `QuietMeansAnswered` states what is
left of it as an invariant.

## 4. What is proved

All theorems hold for every value of the constants that satisfies the named
assumptions (`DefaultsAreNotArrays`, `MarketAssumption`, `GrocrAssumption`,
`PipelineAssumption`, `ListeningAssumption`), in particular for any number of
phones, names, prices, writes and faults, any size of the pipeline from 1, any
finite set of documents, any number of calls and any limit of lookups from 1.

**`PriceHistoryProofs`.** `TypeCorrect` is inductive by itself.
`DrawingAlwaysInBounds` needs that no stored array is ever empty
(`NoEmptyArray`: creation stores one element, an array union never shrinks) and
the lemma `AlignLengths` on padding. `NoEntryLost` (`EntriesKept`) is not
inductive, because it speaks of quiet states only; the strengthening
`EntriesOnTheirWay` says that every price and date entered is in the document or
in some phone's queue, which `ModifyPressed` establishes and `UpdateLands` moves
from the second to the first.
`ChartAlwaysTheEntries` (`ChartIsTheEntries`) rests on `EntriesInOrder`: as long
as one phone makes all entries and repeats no value, the arrays hold the first
prices and the first dates in order, at most one price ahead of the dates, and
the phone's queue is the rest by turns (`Follows`). A landing appends because the
value is not among those before it (`NewValueIsAppended`); with the queue empty
both arrays have all entries, so that the padding adds nothing.

**`MarketClientProofs`.** The inductive invariant is `StoreInv`, over the six
variables `server`, `cache`, `pending`, `replies`, `landed`, `used`:

- `StoreTypeOK`;
- `RepliesMatch`: there are never more replies than queued writes;
- `NamesAreUsed`: a document exists only under a used name;
- `QueuedSets`: a queued `setData` carries one price and one date;
- `DocsHaveHistory` and `CreationsAreFresh`, the properties themselves.

They need one another. That an update cannot land on nothing keeps arrays
non-empty only because a `setData` brings both; a creation is fresh only because
a name is drawn unused and every existing document's name counts as used; a
repeated creation is told from a first one by `landed`, whose bookkeeping rests
on `RepliesMatch`. `HistoriesAlwaysGrow` and `UpdatesNeverResurrect` are step
properties that follow from `StoreInv` in the state before the step.

The preservation lemmas are stated for `MarketStep`, any step of any app, client
or process death, without the bound `MaxQueries` of `MarketNext`.

An answer shows the cached documents with the phone's queued writes on top
(`LocalView`, a recursive function over the queue). That the result still has no
empty array (`LocalViewFacts`) needs induction over the length of the queue. The
library's induction theorems take an operator as a parameter, so the module derives the induction it needs for sets
(`SetInduction`: a set that has 0 and every successor contains `Nat`) from the
existence of least elements, shows that the function exists (`ViewsExist`) and
that any two agree (`ViewsAreUnique`). `CallbacksInv` (the types of queries and
callbacks, and `AnswersHaveHistory`) is then inductive together with `StoreInv`;
`MarketTypeCorrect` and `AnswersNeverEmpty` follow.

The second half of the module is what `ReadsItsWrites` rests on: what the backend
and the cache of the only phone have to do with each other while a view is live. After a lost reply the phone sends its writes
again, so that the backend may be ahead of the cache by writes it will be told of
twice, once, or not at all. `ViewAt(here, ws, q)` is the cache after the first q
queued writes, and `CacheInv` the inductive invariant:

- `Fits`: every reply that is no refusal is to a write the backend has had.
- `Repeatable`, as long as no write has been refused: to send a write again that
  already has a reply would add nothing at the backend.
- While a view is live, and no write has been refused, `Skippable`: a write the
  cache will not be told of adds nothing there either.
- While a view is live, and before any fault or if nothing can be lost, `Agree` at
  the replies: the backend has of each document what the cache will have when the
  replies have been read.
- While a view is live, under `NoLossWithRefusal`, `Meet`: on each document the two
  agree after some number q of the queued writes (`Agree`), those among them without
  a reply being updates that add nothing; or they need not agree yet (`Renewed`),
  because a `setData` or a delete of the document that was accepted will be
  accepted again.

`HeardOf` mutes the writes the cache will never learn of: refused ones, and those
it had from the view. How much holds depends on the faults still to reckon with,
because one more fault turns the stronger part into the weaker; this is also where
`NoLossWithRefusal` is needed, as a refused repetition of a write that was
accepted leaves nothing for the two to meet at.
`MarketStepCacheInv` is the step, one lemma for each way a queue, its replies and
the backend change; `LiveViewAgrees` is what the app needs: a document with no
queued write is in the cache of a live view as it is at the backend.

**`GrocrProofs`.** The inductive invariant is `AppInv`: `StoreInv`,
`CallbacksInv`, `ScreensTypeOK`, `ScreensMatch` and `RowsAligned`. `ScreensMatch`
says that a screen that is shown has been made (a list has a number, a detail
screen a row and a document); without it a detail screen could issue a
modification of nothing. `RowsAligned` needs `AnswersHaveHistory`: a row is
aligned because `Align` pads two non-empty arrays (`ListItemsAligned`), and stays
so when a row is removed (`RemoveAtAligned`). The proof has two lemmas for each
group of handlers: what it asks of the client (`TapRequests`, `UploadRequests`,
`CallbackRequests`: an `AppStep` with typed arguments) and what it does to the
screens (`TapScreens`, `UploadScreens`, `CallbackScreens`, `RelaunchScreens`).
From `AppInv` follow `AppTypeCorrect`, `RowsAlwaysAligned` and `ContractKept`, and
through the contract the four theorems on documents of `MarketClientProofs` for
the app.

`ReadsItsOwnWrites` (`ReadsItsWrites`) speaks of a list at rest, so it is not inductive.
`PhoneInv` adds to `AppInv`, for a phone that is alone, `CacheInv` and
`RowsInv`: every document with a queued write counts as `stale`, and for each
other document (`UpToDate`) the collection has been asked for by the list, or the
last answer on its way to the list has the backend's document, or no answer is on its
way and the rows have it. An answer posted by a live view is right by
`LiveViewAgrees`; one the backend sends is right by itself (`AnswerIsRight`). A
later answer for the same list overwrites the rows, so only the last one counts
(`LastFor`), and what is posted to the main queue for others does not disturb it
(`OtherPosted`). Each handler either leaves the rows of the list as they are and
writes only what becomes stale (`HandlerKeepsRows`) or asks anew, which makes
nothing stale but what is queued (`AskingRenewsRows`); the two cover taps,
uploads, the loading of an answer, the completions of modify, delete and save, and
newDataNoti.

**`WritePipelineProofs`.** The inductive invariant is `IInv`, in six parts:

- `TypeOK`;
- `QueueInv`: ids ascend on disk and are below `nextId`, no write is queued
  twice. Without it a reply to the batch at the front of the pipeline could
  remove another one, and a refill could skip or repeat a batch.
- `PipelineInv`: the pipeline is the front of the queue, full while the client
  runs (`Full`), and has a stream. That a refill keeps this is `FilledIsFull`:
  the batches after the last id retrieved are those after the last position.
- `StreamInv`: what each state of the stream allows: only an open one has been
  greeted, carries anything or is idle; a token is awaited for the present close
  count exactly in `"Starting"`, and every other awaited token is of the past. This
  is why a late token opens nothing (`OpensOnlyFromStarting`).
- `CarryInv`: the unread replies are a front of the pipeline, what is written and
  unanswered continues it, and the backend has what it answered.
- `ClosureInv`: a completion is kept for exactly the waiting writes, under one
  queued batch each.

`ReadReply` shows why they go together: the reply's batch is the front of the
pipeline (`CarryInv`), hence of the queue (`PipelineInv`), so that removing its id
removes the first batch only (`QueueInv`, `WithoutFirst`), whose completion is
the one called (`ClosureInv`), and what remains fits again after the refill
(`ShiftedCarries`, `FilledIsFull`).

`QueueImplemented` is the refinement, by `MapsInit` and `MapsNext`: `WriteMutations`
maps to `Issue`, `TakeWrite` to `Apply`, `ReadReply` and a rejection to `Answer`,
`Die` to `Die`, every other step to a stutter. `Apply` asks that all older writes
have been taken: `CarryInv` gives it, as they are on the stream with a reply.
`Answer("ok")` asks that the front has been applied: `CarryInv` again.

**`ListeningProofs`**, on the facts of `ListeningFacts`. What an operation of the
worker queue does to the remote store and the lookups is a composition of folds:
over the documents of a view, over the queue of lookups, over targets. A fold is
unfolded to the recursive function the library defines it by, and induction over
its positions is done with a set of numbers (`SetInduction`,
`PositionsInduction`, from the least-element theorem `WFMin`). So
`ListeningFacts` has, for any sequence, that a fold keeps a set its step keeps
and that what a step adds is in the result; that `Ascending` lists a finite set;
that there is a target id in use nowhere; and how a count of messages changes when
one is added, read or taken. Its second half shows of each operator that it keeps
`Sound` (below), and of those that work on lookups that they leave the query as it
is (`QueryKept`).

`Invariant` is the theorem the others follow from. `IInv` is the conjunction of

- `Types`: what `TypeOK` says, with the messages and requests under way, which
  must be right before they are read.
- `Sound`, of the remote store and the lookups together: `Counted` (every target
  waits for as many answers as there are requests not taken and answers not
  read; one without a state waits for none), `Agree` (the targets of the remote
  store are those of the view and of the lookups; each key's lookup is a target
  about that key; the limit), and `Tracker`. Each operator keeps `Sound` by
  itself, whatever is under way, so that the loops keep it: a lookup that ends
  lets the queue move, which starts lookups, whose requests must find a
  new id. `Counted` is not `OutstandingAreToCome`: it also counts the targets
  that have been forgotten, since a listen under the same id would inherit the
  answers of the one before.
- `StreamInv`: without an open stream nothing is under way, and with none at all
  there is no target and the tracker rests. This is why dropping the aggregator
  with its stream loses no count.
- `CallsInv`: a call that has not ended has a view. The last listener can then
  stop the query's target, which the code asserts to be watched.
- `OrderInv`: an error is followed by no document and no snapshot, and each
  document message by a snapshot.
- `PursuitInv`: every limbo document is queued or looked up. This is not
  inductive as `LimboIsPursued` has it, of documents that are shown: one that
  is hidden could be shown again by a later message. And of all limbo documents
  it is false once a lookup has been denied: the document is taken out of the
  cache and nothing looks it up any more, although it may stay in `limbo_documents_`.
  `Mute` is what saves it: after a denial no document is under way (`OrderInv`)
  or gathered, so the cache only shrinks.

One lemma per action (`...Keeps`) shows that it keeps `IInv`; `NextKeeps` joins
them. The theorems `TypeCorrect`, `TargetsAgree`, `TrackerSound`, `AnswersToCome`
and `LimboPursued` are the run's invariants `TypeOK`, `TargetsAreThose`,
`TrackerIsSound`, `OutstandingAreToCome` and `LimboIsPursued`.

`CallsAnswered` is `QuietMeansAnswered`. `IInv` says where the answers are that the
remote store counts, not that one of them confirms the query to the view;
`AnswerInv` adds that, on top of `IInv`, and follows the answer:

- `FollowedInv`: a view with an open stream is being asked for by a request no later
  request takes back (`Asking`); or its end has been sent (`Ended`); or the backend
  serves it and it is `Promised`. That is one of three: after the last answer to a
  request for it, "current" and a snapshot are to come (`WillConfirm`); the remote
  store has it as current, and the view knows or a snapshot is to come
  (`Confirmed`); or a mismatch has reset it and a snapshot is to come, which has it
  watched again (`WillReset`). Between the states the messages move one way only:
  "current" counts because by then nothing is pending (`Counted` of `IInv`, with no
  request and no answer left, gives 0), and the snapshot tells the view because a
  target that is current and waits for nothing is an active one.
- `Confirmed` asks that the tracker's timer be off where the view has only its own
  word for being current: the timer makes the view give that up, and no later
  message would restore it. Reading any message stops the timer.
- `FiltersInv`: an existence filter is followed by a snapshot, as long as nothing is
  denied; without one, a query that was reset would stay so.
- `WaitingInv`: a call that waits has a view that is not in sync.

One lemma per action (`...Answers`) shows that it keeps `AnswerInv`.

**`SyncedProofs`.** `SyncedBackend` is `SyncedIsTheBackend`: a view that is
current, with nothing in limbo, shows one of the collections the backend has had
since the view began. The cache is assembled from messages of several
targets, from a token of an earlier stream and from lookups, so the invariant has to
say what the client is told between any two moments. It speaks of the `Points` of the
messages under way: what the client holds now (0), each unread snapshot, and the
backend at the end. `BackedInv` is added to `IInv`:

- `KnownInv`: what the backend takes a target to know lies in the target's scope.
- `WatchingInv`: on an open stream, a target that a request is under way for is asked
  for with the token the remote store has (`LastAsked`). Any other is `Standing`: what
  is in scope at a point and was not there at an earlier one is said in a message
  between the two, and counts (`Told`, from what is `Held` for the target to what the
  backend takes it to know).
- `FittingInv`: a document message says what the next snapshot has, and no more
  (`Fit`); the same of what is gathered already (`Gathering`). Between the reset of
  the query and its snapshot nothing is said of the collection (`Undisturbed`), and
  the reset takes back every key (`TakenBack`).
- `HistoryInv`: the collections at the points are a history, in which a document
  that is gone does not come back (`Convex`).
- `TokenInv`, `DiskInv`: the query's token is the one on disk or none; what it stands
  for and is not in the cache never comes again.
- `SeenInv`: every snapshot that can make the view current is of a collection it has
  seen.
- `LimboInv`, `PromptInv`, `ViewInv`: a current view has in limbo what it shows
  without the query having it; its snapshots come after the last answer; its token is
  one collection it has seen, and the cache is that collection when nothing is in
  limbo and the keys are all there. The last is the theorem, once the view is in sync.

One lemma per action (`...Backed`) shows that it keeps `BackedInv`; `NextBacked` joins
them. Most of the work is in `RaiseWatchSnapshot`, where what is gathered becomes the
cache: `HeldAtSnapshot` has the snapshot's documents held by then, `CacheKept` finds them
in the cache with nothing besides, and `SyncedKept` finds the keys of the query to be
theirs. Everything is stated as long as the rules have not denied the collection.

TLC has checked `IInv /\ BackedInv` as an invariant before it was proved: with the
constants of `Listening.cfg`, and with three unread messages, three faults and one lookup
(2,642,986 states). The proof attempt also corrected the model. `AnswerWatch` took a
resumed lookup to know all documents of its token; it knows the part of the token
within its scope (`Scoped`), without which `KnownInv` fails.

**Only model-checked.** `QueueDrains`, `LoadingEnds`, `PopupCloses` and `QueuesDrain`, as liveness and ENABLED are out of the prover's reach; the
properties that fail; and that an ascending listing of the documents of
`MarketClient` exists (`Documents` is a set of listings there; an action that
draws from an empty one could never be taken, which the runs would report as an
action that never fires).

## 5. Abstractions

- Prices and dates are opaque; `Numeric` and `LongDates` say which of them the
  number formatter and the ten-character cut accept. Initial documents were
  entered with both; prices typed later may be any.
- The name of a product, its image and the storage path are left out; a
  document is identified by its name in the collection.
- An answer from the backend holds the backend's state at the moment the answer
  is posted to the main queue. Older and slower views differ in what they
  contain, which the second way of `Answer` (a live view) stands for.
- The two updates of one `updateData` call, a patch and a transform, are one
  write, as they are in the code (one batch, one commit).
- A fault of the network on one phone is `GoOffline`; `DisableNetwork` and
  a lost connection have the same effect on the streams.
- The backend is external: it applies a write atomically or rejects it, keeps no
  memory of a write by which a repetition could be recognised, and lists
  documents in the order of their names.
- `ReadsItsWrites` is stated for a phone that is alone with the collection: a
  `getDocuments` call is answered once, so another phone's later write is
  not on the list until the list asks again. It is stated under `NoLossWithRefusal`,
  as a write that is refused after it was applied leaves a live view behind the
  backend (section 3).
- UIKit: whether `dismiss` calls its completion for a popup that is no longer
  presented is left open (both are allowed). The observers of newDataNoti are
  called in any order. A row is drawn when its list is on
  top or under the popup. Whether an image is in the system's cache is left open.

- `WritePipeline`: what is written, users, and stream tokens (stored, never sent)
  are left out. A delay of the backoff is of any length, and an idleness timer may
  elapse whenever it runs. `Disconnect` may take any of the unread replies with
  it. An error at the greeting is retried, as in the code. Because a failed
  `Write` may drop an unread reply, a write that has been applied may be told
  that it failed; `WriteQueue` promises of a failure no more than that.
- The backend ends a stream with an error. One it ended with the status OK while
  batches or targets are waiting would end the process: the client asserts that
  it has closed such a stream itself (`remote_store.cc:456`, and `:236` for the
  watch stream). With nothing waiting it would do what the idleness timer does.
- `Listening`: the phone's own writes are left out (`MarketClient` has them), and
  the order of changes within a snapshot. A document is its key and a version.
  Late tokens are `WritePipeline`'s; a starting stream opens or fails here.
- `Listening`'s backend is external. It takes requests in order, answers each,
  sends a message with a snapshot version only when all targets it serves are
  consistent with it, says `current` after what a listen was missing, and names
  what is gone as deleted, as removed from the target, or in an existence filter
  alone. A resume token stands for the collection at its snapshot. It does not
  send the target changes Reset and NoChange (`remote_event.cc:148`, `:182`): a
  full listing comes after an unwatch and a watch without a token, and a token only
  with "current" or a snapshot.
- `RaiseWatchSnapshot` stores each token on disk. The code leaves an older one there
  when the snapshot changed nothing of the target and the stored one is not yet old
  (`ShouldPersistTargetData`, `local_store.cc:369-399`). The two stand for the same
  documents of the target.
- `CacheAfter` takes what a snapshot says of a document without comparing versions
  (`local_store.cc:332`): the phone of `Listening` does not write, so that nothing but
  snapshots brings versions into the cache. In `MarketClient` the comparison of the
  version of a reply (`local_store.cc:212`) is whether the cache has learnt from the
  backend since (`Known`).
- The id of a limbo target is any that is in use nowhere, where the code counts
  up by two: no two listens that could be confused share one in either. The
  query's target keeps its id, as it does on disk in the code.
- `SyncedIsTheBackend` is stated as long as the token on disk stands for the keys
  beside it. After a mismatch the code stores the snapshot's token with the
  emptied keys (`local_store.cc:287`), and a client that stops before the new
  answer resumes from that token.
- `OutstandingAreToCome` is stated without denials: the target a backend ends
  with an error is forgotten with its pending answers (`remote_store.cc:354`).

## 6. Findings

1. `LastPrice`: a price the product had before is dropped by `arrayUnion`
   (`DetailVC.swift:205`), while list and detail take the last element for the
   current price.
2. `DeletedRow`: two swipe deletes before the first reply; the second completion
   removes a row that does not exist (`GroceryListTableViewController.swift:278`).
3. `ModifiedRow`: Modify changes whatever document is now at the row
   (`DetailVC.swift:202`).
4. `Repeats`: `write_stream.h:75-86` promises a stream token in the handshake of a
   new stream, `write_stream.cc:63-75` sends none; a creation applied and deleted
   since is applied again.
5. `UpToDate`: `snapshot_metadata.h:43-44` calls a snapshot that is not from the
   cache "guaranteed up-to-date server data". `RaiseWatchSnapshot`
   (`remote_store.cc:321-348`) carries out a reset after an existence filter on
   whatever listen has the target's id by then. If the query was dropped and
   listened to again in between, the deletion the filter stood for is lost.

Met while modelling, and listed as hazards rather than findings: the queue of
limbo lookups keeps keys that have left limbo (`sync_engine.cc:541`, against
`sync_engine.h:301`); the token stored with emptied keys (`local_store.cc:287`);
a count of pending answers that becomes negative after a target's error
(`remote_store.cc:354`); and the tracker's timer, which a restart of the stream
after a failure does not start again (`online_state_tracker.cc:48-55`).

## 7. Not modelled

- Sign-up and the nested sign-in of the login screen: an alert, two text fields
  and two calls of Auth, which share no state with the rest and end in
  the segue of `loginDidTouch` or in a trap.
- Garbage collection of the cache, transactions, changes of user, limit queries and
  further listeners of the client: the app does not use them, and its cache does
  not grow to where collection begins. The asynchronous queue itself: the models
  take its operations one at a time, as it runs them.
- The chart's drawing, the popup's image picker, the cells' layout.
- The Realtime Database user list (unreachable), the app delegate, the cell.
- `src/firebaseSt`, an older copy of the same app, and the other pods (gRPC,
  leveldb, abseil, BoringSSL, Charts, Auth, Storage), which are most of the
  repository: libraries behind the interfaces the models name.

## 8. Plan

1. Done: `PriceArrays`, `PriceHistory`, `MarketClient`, `Grocr`, their runs and
   theorems.
2. Done: `WriteQueue` and `WritePipeline`, with the refinement proved.
3. Done: `Listening`: listeners, targets, online state, views and limbo lookups.
4. Left: the phone's own writes in `Listening`, and a refinement from it to
   `Answer` of `MarketClient`.
5. Done: the inductive invariant of `Listening`.
6. Done: `ReadsItsWrites` proved for one phone, from `CacheInv` and `RowsInv`.
7. Done: `QuietMeansAnswered` proved, from `AnswerInv` on top of `IInv`.
8. Done: `SyncedIsTheBackend` proved, from `BackedInv` on top of `IInv`.
