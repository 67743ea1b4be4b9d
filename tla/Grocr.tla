--------------------------------- MODULE Grocr ---------------------------------
(***************************************************************************)
(* The app: login screen, product list, add popup and detail screen, on    *)
(* top of the Firestore client of MarketClient. Every action is one        *)
(* handler that runs to its end on the main thread: a tap, or the callback *)
(* at the head of the main queue.                                          *)
(*                                                                         *)
(* A force unwrap or a subscript that fails ends the process. The screen   *)
(* is then "trapped" until the user launches the app again.                *)
(***************************************************************************)
EXTENDS MarketClient

CONSTANTS
    Phones,      \* the devices whose app is modelled; the others' is any app
    Numeric,     \* the prices that parse as a number
    LongDates,   \* the dates of at least ten characters
    MaxViews,    \* bound: list screens made by one process
    MaxPopups,   \* bound: popups opened by one process
    MaxUploads,  \* bound: image uploads in flight on one phone
    MaxUploadFaults, \* bound: uploads that fail
    NoDetail     \* no detail screen is open

VARIABLES
    screen,      \* screen[d]: what is on top
    view,        \* view[d]: how many list screens this process has made
    items,       \* items[d][v]: `items` of its v-th list screen
    loadHidden,  \* loadHidden[d]: the current list's loading view was hidden
    detail,      \* detail[d]: row and document behind the detail screen
    popups,      \* popups[d]: how many popups this process has opened
    uploads,     \* uploads[d]: image uploads in flight
    uploadFaults,\* uploads that failed so far (bound)
    dismissals,  \* dismissals[d]: popups closing, newDataNoti to be posted
    stale        \* stale[d]: documents this phone wrote after its current list
                 \* last asked for the collection, or had in its queue when it
                 \* asked (history)

uiVars ==
    <<screen, view, items, loadHidden, detail, popups, uploads, uploadFaults, dismissals, stale>>
vars == <<marketVars, uiVars>>

Views == 1 .. MaxViews
Rows == 1 .. Cardinality(Keys)
Item == [key : Keys, price : Seq(Prices), date : Seq(Dates)]
Upload == [popup : 1 .. MaxPopups, stage : {"put", "url"}, price : Prices]

(* What the closures capture. `key` of a modification is history: the code *)
(* passes only the row on.                                                 *)
ListQuery(v) == [kind |-> "list", view |-> v]
ModifyQuery(dt, p, t) ==
    [kind |-> "modify", row |-> dt.row, key |-> dt.key, price |-> p, date |-> t]
DeleteDone(v, r) == [kind |-> "deleted", view |-> v, row |-> r]
SaveDone(n) == [kind |-> "saved", popup |-> n]

AllOwners ==
    {ListQuery(v) : v \in Views}
    \cup {ModifyQuery(dt, p, t) : dt \in [row : Rows, key : Keys], p \in Prices, t \in Dates}
AllCompletions ==
    {DeleteDone(v, r) : v \in Views, r \in Rows} \cup {SaveDone(n) : n \in 1 .. MaxPopups}

ASSUME GrocrAssumption ==
    /\ Phones \subseteq Devices
    /\ Numeric \subseteq Prices /\ LongDates \subseteq Dates
    /\ Owners = AllOwners /\ Completions = AllCompletions
    /\ IsFiniteSet(Keys)
    /\ MaxViews \in Nat /\ MaxPopups \in Nat /\ MaxUploads \in Nat /\ MaxUploadFaults \in Nat

ScreensTypeOK ==
    /\ screen \in [Phones -> {"login", "list", "detail", "popup", "trapped"}]
    /\ view \in [Phones -> 0 .. MaxViews]
    /\ items \in [Phones -> [Views -> Seq(Item)]]
    /\ loadHidden \in [Phones -> BOOLEAN]
    /\ detail \in [Phones -> [row : Rows, key : Keys] \cup {NoDetail}]
    /\ popups \in [Phones -> 0 .. MaxPopups]
    /\ uploads \in [Phones -> Seq(Upload)]
    /\ uploadFaults \in 0 .. MaxUploadFaults
    /\ dismissals \in [Phones -> Nat]
    /\ stale \in [Phones -> SUBSET Keys]

TypeOK == MarketTypeOK /\ ScreensTypeOK

--------------------------------------------------------------------------------
(* What the list shows *)

(* snapshot.documents: the names in ascending order, the one listing there *)
(* is.                                                                     *)
Documents(docs) ==
    {ks \in SetToSeqs({k \in Keys : Exists(docs, k)}) :
        \A i, j \in DOMAIN ks : i < j => ks[i] < ks[j]}

ListItem(docs, k) ==
    LET item == Align(Decode(docs[k]))
    IN [key |-> k, price |-> item.price, date |-> item.date]

ListItems(docs, ks) == [i \in 1 .. Len(ks) |-> ListItem(docs, ks[i])]

OnTop(d, v) == screen[d] # "login" /\ view[d] = v

(* cellForRowAt unwraps the formatted number and loads the image with a    *)
(* synchronous try!: the first traps on a price that is no number, the     *)
(* second, without a connection, unless the system has the image cached.   *)
Drawable(its) == \A i \in 1 .. Len(its) : LastPrice(its[i]) \in Numeric

Drawing(d, its) ==
    (IF Drawable(its) THEN {screen[d]} ELSE {"trapped"})
    \cup (IF ~online[d] /\ its # <<>> THEN {"trapped"} ELSE {})

(* The rows of list v change; the table redraws them if it is in a window. *)
SetItems(d, v, its) ==
    /\ items' = [items EXCEPT ![d][v] = its]
    /\ IF OnTop(d, v) /\ screen[d] \in {"list", "popup"}
       THEN \E s \in Drawing(d, its) : screen' = [screen EXCEPT ![d] = s]
       ELSE UNCHANGED screen

(* A list screen lives while it is shown or a closure holds it.            *)
Alive(d, v) ==
    \/ OnTop(d, v)
    \/ \E i \in 1 .. Len(queries[d]) : queries[d][i] = ListQuery(v)
    \/ \E i \in 1 .. Len(main[d]) :
         \/ main[d][i].kind = "answer" /\ main[d][i].owner = ListQuery(v)
         \/ main[d][i].kind = "done" /\ main[d][i].cb.kind = "deleted" /\ main[d][i].cb.view = v
    \/ \E i \in 1 .. Len(pending[d]) :
         /\ pending[d][i].cb # NoCompletion
         /\ pending[d][i].cb.kind = "deleted" /\ pending[d][i].cb.view = v

(* Write handlers already under way; taps keep within the bound MaxWrites  *)
(* so that it never holds up a callback.                                   *)
IsModify(o) == o.kind = "modify"
UnderWay(d) ==
    Len(uploads[d])
    + Len(SelectSeq(queries[d], IsModify))
    + Len(SelectSeq(main[d], LAMBDA e : e.kind = "answer" /\ IsModify(e.owner)))
MayWrite == writes + MapThenSumSet(UnderWay, Phones) < MaxWrites

(* The names are a bound too: document() always finds a fresh one.         *)
NameLeft ==
    MapThenSumSet(LAMBDA d : Len(uploads[d]), Phones) < Cardinality(Keys \ used)

NoRequest == UNCHANGED marketVars

Unresolved(d) == {pending[d][i].key : i \in 1 .. Len(pending[d])}

--------------------------------------------------------------------------------
(* Documents that are there from the start were entered with care.         *)
Init ==
    /\ MarketInit
    /\ \A k \in Keys : Exists(server, k) =>
         LastPrice(server[k]) \in Numeric /\ LastOf(server[k].date) \in LongDates
    /\ screen = [d \in Phones |-> "login"]
    /\ view = [d \in Phones |-> 0]
    /\ items = [d \in Phones |-> [v \in Views |-> <<>>]]
    /\ loadHidden = [d \in Phones |-> FALSE]
    /\ detail = [d \in Phones |-> NoDetail]
    /\ popups = [d \in Phones |-> 0]
    /\ uploads = [d \in Phones |-> <<>>]
    /\ uploadFaults = 0
    /\ dismissals = [d \in Phones |-> 0]
    /\ stale = [d \in Phones |-> {}]

(* Taps *)

(* loginDidTouch, and viewDidLoad of the list screen it presents.          *)
LoginDidTouch(d) ==
    /\ screen[d] = "login"
    /\ view[d] < MaxViews
    /\ view' = [view EXCEPT ![d] = @ + 1]
    /\ screen' = [screen EXCEPT ![d] = "list"]
    /\ loadHidden' = [loadHidden EXCEPT ![d] = FALSE]
    /\ stale' = [stale EXCEPT ![d] = Unresolved(d)]
    /\ Ask(d, FALSE, <<>>, <<ListQuery(view[d] + 1)>>)
    /\ UNCHANGED <<items, detail, popups, uploads, dismissals, uploadFaults>>

(* didSelectRowAt, prepare(for:) and viewDidLoad of the detail screen: the *)
(* days are cut out of every date, the bars need a number for every price  *)
(* and a day for every bar.                                                *)
DidSelectRow(d, r) ==
    /\ screen[d] = "list"
    /\ r \in 1 .. Len(items[d][view[d]])
    /\ LET it == items[d][view[d]][r]
       IN IF /\ \A i \in 1 .. Len(it.date) : it.date[i] \in LongDates
             /\ \A i \in 1 .. Len(it.price) : it.price[i] \in Numeric
             /\ CreateItemInRange(it.price, it.date)
          THEN /\ screen' = [screen EXCEPT ![d] = "detail"]
               /\ detail' = [detail EXCEPT ![d] = [row |-> r, key |-> it.key]]
          ELSE /\ screen' = [screen EXCEPT ![d] = "trapped"]
               /\ UNCHANGED detail
    /\ NoRequest
    /\ UNCHANGED <<view, items, loadHidden, popups, uploads, dismissals, stale, uploadFaults>>

(* modifyPressed: the collection is asked for again, and the dismissal     *)
(* closes the whole list, down to the login screen that presents it.       *)
ModifyPressed(d, p, t) ==
    /\ screen[d] = "detail"
    /\ MayWrite
    /\ Ask(d, FALSE, <<>>, <<ModifyQuery(detail[d], p, t)>>)
    /\ screen' = [screen EXCEPT ![d] = "login"]
    /\ detail' = [detail EXCEPT ![d] = NoDetail]
    /\ UNCHANGED <<view, items, loadHidden, popups, uploads, dismissals, stale, uploadFaults>>

(* cancelPressed: the same dismissal.                                      *)
CancelPressed(d) ==
    /\ screen[d] = "detail"
    /\ screen' = [screen EXCEPT ![d] = "login"]
    /\ detail' = [detail EXCEPT ![d] = NoDetail]
    /\ NoRequest
    /\ UNCHANGED <<view, items, loadHidden, popups, uploads, dismissals, stale, uploadFaults>>

(* The back button of the navigation bar; the list is drawn again.         *)
BackPressed(d) ==
    /\ screen[d] = "detail"
    /\ \E s \in Drawing(d, items[d][view[d]]) :
         screen' = [screen EXCEPT ![d] = IF s = "trapped" THEN s ELSE "list"]
    /\ detail' = [detail EXCEPT ![d] = NoDetail]
    /\ NoRequest
    /\ UNCHANGED <<view, items, loadHidden, popups, uploads, dismissals, stale, uploadFaults>>

AddButtonDidTouch(d) ==
    /\ screen[d] = "list"
    /\ popups[d] < MaxPopups
    /\ popups' = [popups EXCEPT ![d] = @ + 1]
    /\ screen' = [screen EXCEPT ![d] = "popup"]
    /\ NoRequest
    /\ UNCHANGED <<view, items, loadHidden, detail, uploads, dismissals, stale, uploadFaults>>

(* cancelBtnPressed of the popup: an upload in flight goes on.             *)
CancelBtnPressed(d) ==
    /\ screen[d] = "popup"
    /\ screen' = [screen EXCEPT ![d] = "list"]
    /\ NoRequest
    /\ UNCHANGED <<view, items, loadHidden, detail, popups, uploads, dismissals, stale, uploadFaults>>

(* updateBtnPressed starts the upload; the button stays enabled.           *)
UpdateBtnPressed(d, p) ==
    /\ screen[d] = "popup"
    /\ Len(uploads[d]) < MaxUploads
    /\ MayWrite /\ NameLeft
    /\ uploads' = [uploads EXCEPT ![d] =
                     Append(@, [popup |-> popups[d], stage |-> "put", price |-> p])]
    /\ NoRequest
    /\ UNCHANGED <<screen, view, items, loadHidden, detail, popups, dismissals, stale, uploadFaults>>

(* The swipe action: the document is the row's at the time of the tap, the *)
(* closure keeps the row.                                                  *)
SwipeDelete(d, r) ==
    /\ screen[d] = "list"
    /\ r \in 1 .. Len(items[d][view[d]])
    /\ MayWrite
    /\ LET deletItem == items[d][view[d]][r]
       IN /\ Ask(d, FALSE, <<Delete(deletItem.key, DeleteDone(view[d], r))>>, <<>>)
          /\ stale' = [stale EXCEPT ![d] = @ \cup {deletItem.key}]
    /\ UNCHANGED <<screen, view, items, loadHidden, detail, popups, uploads, dismissals, uploadFaults>>

(* The upload of the popup's image, then of its document *)

Uploading(d, i, stage) ==
    screen[d] # "trapped" /\ i \in 1 .. Len(uploads[d]) /\ uploads[d][i].stage = stage

UploadFault ==
    uploadFaults < MaxUploadFaults /\ uploadFaults' = uploadFaults + 1

PutDataSucceeds(d, i) ==
    /\ Uploading(d, i, "put") /\ online[d]
    /\ uploads' = [uploads EXCEPT ![d][i].stage = "url"]
    /\ NoRequest
    /\ UNCHANGED <<screen, view, items, loadHidden, detail, popups, dismissals, stale, uploadFaults>>

(* Without metadata the closure does nothing: the popup goes on waiting.   *)
PutDataFails(d, i) ==
    /\ Uploading(d, i, "put")
    /\ UploadFault
    /\ uploads' = [uploads EXCEPT ![d] = RemoveAt(@, i)]
    /\ NoRequest
    /\ UNCHANGED <<screen, view, items, loadHidden, detail, popups, dismissals, stale>>

(* document() draws a name nobody has used.                                *)
DownloadURLSucceeds(d, i, k, t) ==
    /\ Uploading(d, i, "url") /\ online[d]
    /\ k \notin used
    /\ Ask(d, FALSE,
               <<SetData(k, uploads[d][i].price, t, SaveDone(uploads[d][i].popup))>>, <<>>)
    /\ uploads' = [uploads EXCEPT ![d] = RemoveAt(@, i)]
    /\ stale' = [stale EXCEPT ![d] = @ \cup {k}]
    /\ UNCHANGED <<screen, view, items, loadHidden, detail, popups, dismissals, uploadFaults>>

(* The error is printed and the missing URL unwrapped all the same.        *)
DownloadURLFails(d, i) ==
    /\ Uploading(d, i, "url")
    /\ UploadFault
    /\ screen' = [screen EXCEPT ![d] = "trapped"]
    /\ NoRequest
    /\ UNCHANGED <<view, items, loadHidden, detail, popups, uploads, dismissals, stale>>

(* Callbacks at the head of the main queue *)

Called(d, kind) == screen[d] # "trapped" /\ main[d] # <<>> /\ Head(main[d]).kind = kind

(* A wrong form: the loading view is hidden only when there are rows.      *)
ListAnswered_HidesForRows(d) ==
    /\ Called(d, "answer")
    /\ LET answer == Head(main[d])
           v == answer.owner.view
       IN /\ answer.owner.kind = "list"
          /\ \E ks \in Documents(answer.docs) :
               /\ SetItems(d, v, ListItems(answer.docs, ks))
               /\ loadHidden' = [loadHidden EXCEPT ![d] = @ \/ (OnTop(d, v) /\ ks # <<>>)]
    /\ Ask(d, TRUE, <<>>, <<>>)
    /\ UNCHANGED <<view, detail, popups, uploads, dismissals, stale, uploadFaults>>

(* The completion of queryforServer. An error is printed and the rest      *)
(* skipped; otherwise the rows are replaced and the loading view hidden.   *)
ListAnswered(d) ==
    /\ Called(d, "answer")
    /\ LET answer == Head(main[d])
           v == answer.owner.view
       IN /\ answer.owner.kind = "list"
          /\ IF answer.from = "error"
             THEN UNCHANGED <<screen, items, loadHidden>>
             ELSE /\ \E ks \in Documents(answer.docs) : SetItems(d, v, ListItems(answer.docs, ks))
                  /\ loadHidden' = [loadHidden EXCEPT ![d] = @ \/ OnTop(d, v)]
          /\ stale' = [stale EXCEPT ![d] =
                         IF answer.from # "server" /\ OnTop(d, v) THEN Keys ELSE @]
    /\ Ask(d, TRUE, <<>>, <<>>)
    /\ UNCHANGED <<view, detail, popups, uploads, dismissals, uploadFaults>>

(* A wrong form: only the price is updated.                                *)
EntryWrites_PriceOnly(k, p, t) == <<UpdatePrice(k, p)>>

EntryWrites(k, p, t) == <<UpdatePrice(k, p), UpdateDate(k, t)>>

(* The completion of modifyPressed's query: the document is the one that   *)
(* is at the row now.                                                      *)
ModifyAnswered(d) ==
    /\ Called(d, "answer")
    /\ LET answer == Head(main[d])
           o == answer.owner
       IN /\ o.kind = "modify"
          /\ \/ /\ answer.from = "error"
                /\ Ask(d, TRUE, <<>>, <<>>)
                /\ UNCHANGED <<screen, stale>>
             \/ \E returnItem \in Documents(answer.docs) :
                  /\ answer.from # "error"
                  /\ o.row > Len(returnItem)
                  /\ Ask(d, TRUE, <<>>, <<>>)
                  /\ screen' = [screen EXCEPT ![d] = "trapped"]
                  /\ UNCHANGED stale
             \/ \E returnItem \in Documents(answer.docs) :
                  /\ answer.from # "error"
                  /\ o.row <= Len(returnItem)
                  /\ Ask(d, TRUE, EntryWrites(returnItem[o.row], o.price, o.date), <<>>)
                  /\ stale' = [stale EXCEPT ![d] = @ \cup {returnItem[o.row]}]
                  /\ UNCHANGED screen
    /\ UNCHANGED <<view, items, loadHidden, detail, popups, uploads, dismissals, uploadFaults>>

(* The completion of delete, with or without an error: the row the closure *)
(* kept is removed, out of range a trap, and the collection asked for.     *)
DeleteCompleted(d) ==
    /\ Called(d, "done")
    /\ LET cb == Head(main[d]).cb
           its == items[d][cb.view]
       IN /\ cb.kind = "deleted"
          /\ IF cb.row > Len(its)
             THEN /\ Ask(d, TRUE, <<>>, <<>>)
                  /\ screen' = [screen EXCEPT ![d] = "trapped"]
                  /\ UNCHANGED <<items, stale>>
             ELSE /\ SetItems(d, cb.view, RemoveAt(its, cb.row))
                  /\ Ask(d, TRUE, <<>>, <<ListQuery(cb.view)>>)
                  /\ stale' = [stale EXCEPT ![d] = IF OnTop(d, cb.view) THEN Unresolved(d) ELSE @]
    /\ UNCHANGED <<view, loadHidden, detail, popups, uploads, dismissals, uploadFaults>>

(* A wrong form: the popup is dismissed only when there is no error.       *)
SaveCompleted_IfOk(d) ==
    /\ Called(d, "done")
    /\ Head(main[d]).cb.kind = "saved"
    /\ IF Head(main[d]).ok /\ screen[d] = "popup" /\ popups[d] = Head(main[d]).cb.popup
       THEN /\ screen' = [screen EXCEPT ![d] = "list"]
            /\ dismissals' = [dismissals EXCEPT ![d] = @ + 1]
       ELSE UNCHANGED <<screen, dismissals>>
    /\ Ask(d, TRUE, <<>>, <<>>)
    /\ UNCHANGED <<view, items, loadHidden, detail, popups, uploads, stale, uploadFaults>>

(* The completion of setData, with or without an error: the popup is       *)
(* dismissed. Whether UIKit calls the completion of dismiss when the popup *)
(* is not presented any more is left open.                                 *)
SaveCompleted(d) ==
    /\ Called(d, "done")
    /\ Head(main[d]).cb.kind = "saved"
    /\ IF screen[d] = "popup" /\ popups[d] = Head(main[d]).cb.popup
       THEN /\ screen' = [screen EXCEPT ![d] = "list"]
            /\ dismissals' = [dismissals EXCEPT ![d] = @ + 1]
       ELSE /\ \E posted \in {0, 1} : dismissals' = [dismissals EXCEPT ![d] = @ + posted]
            /\ UNCHANGED screen
    /\ Ask(d, TRUE, <<>>, <<>>)
    /\ UNCHANGED <<view, items, loadHidden, detail, popups, uploads, stale, uploadFaults>>

(* The popup is gone and posts newDataNoti: every list screen that lives   *)
(* empties its rows and asks for the collection (refresh), in whatever     *)
(* order the observers are called.                                         *)
NewDataNoti(d) ==
    /\ screen[d] # "trapped"
    /\ dismissals[d] > 0
    /\ dismissals' = [dismissals EXCEPT ![d] = @ - 1]
    /\ LET living == {v \in Views : Alive(d, v)}
       IN /\ items' = [items EXCEPT ![d] = [v \in Views |-> IF v \in living THEN <<>> ELSE @[v]]]
          /\ \E vs \in SetToSeqs(living) :
               Ask(d, FALSE, <<>>, [i \in 1 .. Len(vs) |-> ListQuery(vs[i])])
          /\ stale' = [stale EXCEPT ![d] = IF view[d] \in living THEN Unresolved(d) ELSE @]
    /\ UNCHANGED <<screen, view, loadHidden, detail, popups, uploads, uploadFaults>>

(* The process died, by a trap or from outside, and the app is launched.   *)
Relaunch(d) ==
    /\ screen[d] # "trapped" => view[d] > 0 /\ faults < MaxFaults
    /\ Kill(d)
    /\ screen[d] # "trapped" <=> faults' # faults
    /\ screen' = [screen EXCEPT ![d] = "login"]
    /\ view' = [view EXCEPT ![d] = 0]
    /\ items' = [items EXCEPT ![d] = [v \in Views |-> <<>>]]
    /\ loadHidden' = [loadHidden EXCEPT ![d] = FALSE]
    /\ detail' = [detail EXCEPT ![d] = NoDetail]
    /\ popups' = [popups EXCEPT ![d] = 0]
    /\ uploads' = [uploads EXCEPT ![d] = <<>>]
    /\ dismissals' = [dismissals EXCEPT ![d] = 0]
    /\ stale' = [stale EXCEPT ![d] = {}]
    /\ UNCHANGED uploadFaults

(* Any other client of the collection.                                     *)
OtherApp(d) ==
    /\ MayWrite
    /\ \/ \E ws \in HandlerWrites : AppStep(d, FALSE, ws, <<>>)
       \/ AppStep(d, TRUE, <<>>, <<>>)
    /\ UNCHANGED uiVars

Tap(d) ==
    \/ LoginDidTouch(d)
    \/ \E r \in Rows : DidSelectRow(d, r) \/ SwipeDelete(d, r)
    \/ \E p \in Prices, t \in Dates : ModifyPressed(d, p, t)
    \/ CancelPressed(d) \/ BackPressed(d)
    \/ AddButtonDidTouch(d) \/ CancelBtnPressed(d)
    \/ \E p \in Prices : UpdateBtnPressed(d, p)

UploadStep(d) ==
    \E i \in 1 .. MaxUploads :
        \/ PutDataSucceeds(d, i) \/ PutDataFails(d, i) \/ DownloadURLFails(d, i)
        \/ \E k \in Keys, t \in Dates : DownloadURLSucceeds(d, i, k, t)

Callbacks(d) ==
    \/ ListAnswered(d) \/ ModifyAnswered(d) \/ DeleteCompleted(d) \/ SaveCompleted(d)
    \/ NewDataNoti(d)

Next ==
    \/ \E d \in Phones : Tap(d) \/ UploadStep(d) \/ Callbacks(d) \/ Relaunch(d)
    \/ \E d \in Devices \ Phones : OtherApp(d)
    \/ \E d \in Devices : ClientStep(d) /\ UNCHANGED uiVars

Spec == Init /\ [][Next]_vars

(* A step of the main thread that is due is taken; an upload ends; nobody  *)
(* promises a tap.                                                         *)
PhoneFairness(d) ==
    /\ WF_vars(ListAnswered(d)) /\ WF_vars(ModifyAnswered(d))
    /\ WF_vars(DeleteCompleted(d)) /\ WF_vars(SaveCompleted(d)) /\ WF_vars(NewDataNoti(d))
    /\ WF_vars(UploadStep(d))

NetworkFairness(d) ==
    /\ WF_vars(Land(d) /\ UNCHANGED uiVars) /\ WF_vars(Resolve(d) /\ UNCHANGED uiVars)
    /\ WF_vars(Answer(d) /\ UNCHANGED uiVars) /\ WF_vars(GoOnline(d) /\ UNCHANGED uiVars)

FairSpec ==
    /\ Spec
    /\ \A d \in Phones : PhoneFairness(d)
    /\ \A d \in Devices : NetworkFairness(d)

--------------------------------------------------------------------------------
(* Properties *)

Aligned(its) ==
    \A i \in 1 .. Len(its) :
        /\ Len(its[i].price) = Len(its[i].date) /\ Len(its[i].price) > 0
        /\ \A j \in 1 .. i - 1 : its[j].key < its[i].key

(* Every list screen, shown or only kept by a closure, has as many dates   *)
(* as prices in each row, at least one, and each document in one row, in   *)
(* the order of the names: selecting a row cannot run createItem out of    *)
(* range, whatever deletes, edits and answers interleave.                  *)
RowsAligned == \A d \in Phones, v \in Views : Aligned(items[d][v])

ListQuiet(d) ==
    /\ screen[d] = "list"
    /\ queries[d] = <<>> /\ main[d] = <<>> /\ pending[d] = <<>>
    /\ uploads[d] = <<>> /\ dismissals[d] = 0

(* What the list says of document k: one row with its padded arrays, or    *)
(* none when there is no such document.                                    *)
RowsTellOf(its, k) ==
    LET rows == {i \in 1 .. Len(its) : its[i].key = k}
    IN IF Exists(server, k)
       THEN \E i \in rows : its[i].price = Align(server[k]).price
                           /\ its[i].date = Align(server[k]).date
       ELSE rows = {}

(* On the only phone that writes, once everything has been answered the    *)
(* list agrees with the backend on every document, except those the phone  *)
(* wrote after the list last asked for the collection, or had still in its *)
(* queue then: the queries after a delete and after newDataNoti see the    *)
(* phone's own writes, and no older answer overwrites a newer one. With a  *)
(* write refused on its repetition this is not so: an answer from the view *)
(* of an earlier one may still show what the phone has given up.           *)
ReadsItsWrites ==
    NoLossWithRefusal =>
        \A d \in Phones :
            (ListQuiet(d) /\ Devices = {d}) =>
                \A k \in Keys \ stale[d] : RowsTellOf(items[d][view[d]], k)

(* Every step of the app and of its phone is a step of MarketClient: the   *)
(* handlers issue only the writes MarketClient knows, a document is only   *)
(* created under a name nobody has used, and a callback runs once. What    *)
(* MarketClient promises of the collection therefore holds for this app.   *)
Issued(before, after) == SubSeq(after, Len(before) + 1, Len(after))

MarketContract ==
    /\ MarketInit
    /\ [][\E d \in Devices :
            \/ \E pop \in BOOLEAN :
                 AppStep(d, pop, Issued(pending[d], pending'[d]), Issued(queries[d], queries'[d]))
            \/ ClientStep(d)
            \/ Kill(d)]_marketVars

(* A list that was just presented ends up loaded, the app launched anew,   *)
(* or left by the user: no interleaving of connection losses and answers   *)
(* strands its query.                                                      *)
LoadingEnds ==
    \A d \in Phones : (screen[d] = "list" /\ ~loadHidden[d])
                      ~> (screen[d] # "list" \/ loadHidden[d])

Saving(d, n) ==
    \/ \E i \in 1 .. Len(uploads[d]) : uploads[d][i].popup = n
    \/ \E i \in 1 .. Len(pending[d]) : pending[d][i].cb = SaveDone(n)
    \/ \E i \in 1 .. Len(main[d]) :
         main[d][i].kind = "done" /\ main[d][i].cb = SaveDone(n)

(* A popup that is saving closes, whether the write was accepted, refused, *)
(* repeated or held up by a lost connection.                               *)
PopupCloses ==
    \A d \in Phones : (screen[d] = "popup" /\ Saving(d, popups[d])) ~> screen[d] # "popup"

(* The array precondition of `items.remove(at: indexPath.row)`: the row    *)
(* the delete closure kept is still a row when the backend has answered.   *)
DeletedRowExists ==
    \A d \in Phones :
        (/\ screen[d] # "trapped" /\ main[d] # <<>>
         /\ Head(main[d]).kind = "done" /\ Head(main[d]).cb.kind = "deleted")
        => Head(main[d]).cb.row <= Len(items[d][Head(main[d]).cb.view])

(* "Modify" changes the document whose name and price the detail screen    *)
(* shows, not the one that has taken its row since.                        *)
ModifiesTheShownDocument ==
    [][\A d \in Phones :
         (/\ main[d] # <<>> /\ Head(main[d]).kind = "answer"
          /\ Head(main[d]).owner.kind = "modify"
          /\ Len(pending'[d]) = Len(pending[d]) + 2)
         => pending'[d][Len(pending[d]) + 1].key = Head(main[d]).owner.key]_vars

================================================================================
