------------------------------- MODULE GrocrProofs -------------------------------
(***************************************************************************)
(* Theorems of Grocr: the app keeps to what MarketClient lets an app do,   *)
(* so that what is proved of the collection there holds for this app; its  *)
(* rows stay aligned, for any number of phones, screens, popups, uploads   *)
(* and faults; and the only phone's list reads the phone's own writes.     *)
(***************************************************************************)
EXTENDS Grocr, MarketClientProofs, FiniteSetTheorems

--------------------------------------------------------------------------------
(* The inductive invariant *)

(* A screen that is shown has been made, with what it shows.               *)
ScreensMatch ==
    \A d \in Phones :
        /\ screen[d] \in {"list", "popup", "detail"} => view[d] \in Views
        /\ screen[d] = "popup" => popups[d] \in 1 .. MaxPopups
        /\ screen[d] = "detail" => detail[d] \in [row : Rows, key : Keys]

AppInv == StoreInv /\ CallbacksInv /\ ScreensTypeOK /\ ScreensMatch /\ RowsAligned

LEMMA ConstantFacts ==
    /\ Phones \subseteq Devices
    /\ Owners = AllOwners /\ Completions = AllCompletions
    /\ IsFiniteSet(Keys) /\ Keys \subseteq Nat
    /\ MaxViews \in Nat /\ MaxPopups \in Nat /\ MaxUploadFaults \in Nat
  BY GrocrAssumption, MarketAssumption DEF GrocrAssumption, MarketAssumption

LEMMA InitAppInv == Init => AppInv
<1> SUFFICES ASSUME Init PROVE AppInv
  OBVIOUS
<1>1. StoreInv /\ CallbacksInv
  BY InitStoreInv, InitCallbacksInv DEF Init
<1>2. /\ screen = [d \in Phones |-> "login"]
      /\ view = [d \in Phones |-> 0]
      /\ items = [d \in Phones |-> [v \in Views |-> <<>>]]
      /\ loadHidden = [d \in Phones |-> FALSE]
      /\ detail = [d \in Phones |-> NoDetail]
      /\ popups = [d \in Phones |-> 0]
      /\ uploads = [d \in Phones |-> <<>>]
      /\ uploadFaults = 0
      /\ dismissals = [d \in Phones |-> 0]
      /\ stale = [d \in Phones |-> {}]
  BY DEF Init
<1>3. ScreensTypeOK
  BY <1>2, ConstantFacts DEF ScreensTypeOK
<1>4. ScreensMatch
  BY <1>2 DEF ScreensMatch
<1>5. RowsAligned
  BY <1>2 DEF RowsAligned, Aligned
<1> QED  BY <1>1, <1>3, <1>4, <1>5 DEF AppInv

--------------------------------------------------------------------------------
(* What the closures capture *)

LEMMA ListQueryOwner == \A v \in Views : ListQuery(v) \in Owners
  BY ConstantFacts DEF AllOwners

LEMMA ModifyQueryOwner ==
    \A dt \in [row : Rows, key : Keys], p \in Prices, t \in Dates : ModifyQuery(dt, p, t) \in Owners
  BY ConstantFacts DEF AllOwners

LEMMA DeleteDoneCompletion == \A v \in Views, r \in Rows : DeleteDone(v, r) \in Completions
  BY ConstantFacts DEF AllCompletions

LEMMA SaveDoneCompletion == \A n \in 1 .. MaxPopups : SaveDone(n) \in Completions
  BY ConstantFacts DEF AllCompletions

LEMMA ListOwner ==
    ASSUME NEW o \in Owners, o.kind = "list"
    PROVE  o.view \in Views /\ o = ListQuery(o.view)
<1>1. o \in AllOwners
  BY ConstantFacts
<1>2. CASE \E v \in Views : o = ListQuery(v)
  BY <1>2 DEF ListQuery
<1>3. CASE \E dt \in [row : Rows, key : Keys], p \in Prices, t \in Dates : o = ModifyQuery(dt, p, t)
  BY <1>3 DEF ModifyQuery
<1> QED  BY <1>1, <1>2, <1>3 DEF AllOwners

LEMMA ModifyOwner ==
    ASSUME NEW o \in Owners, o.kind = "modify"
    PROVE  o.row \in Rows /\ o.price \in Prices /\ o.date \in Dates
<1>1. o \in AllOwners
  BY ConstantFacts
<1>2. CASE \E v \in Views : o = ListQuery(v)
  BY <1>2 DEF ListQuery
<1>3. CASE \E dt \in [row : Rows, key : Keys], p \in Prices, t \in Dates : o = ModifyQuery(dt, p, t)
  BY <1>3 DEF ModifyQuery
<1> QED  BY <1>1, <1>2, <1>3 DEF AllOwners

LEMMA DeletedCompletion ==
    ASSUME NEW cb \in Completions, cb.kind = "deleted"
    PROVE  cb.view \in Views /\ cb.row \in Rows
<1>1. cb \in AllCompletions
  BY ConstantFacts
<1>2. CASE \E v \in Views, r \in Rows : cb = DeleteDone(v, r)
  BY <1>2 DEF DeleteDone
<1>3. CASE \E n \in 1 .. MaxPopups : cb = SaveDone(n)
  BY <1>3 DEF SaveDone
<1> QED  BY <1>1, <1>2, <1>3 DEF AllCompletions

(* The callback at the head of the main queue.                             *)
LEMMA AnswerCalled ==
    ASSUME AppInv, NEW d \in Phones, Called(d, "answer")
    PROVE  /\ Head(main[d]).owner \in Owners
           /\ Head(main[d]).docs \in Contents
           /\ \A k \in Keys : HasHistory(Head(main[d]).docs[k])
<1>1. main[d] \in Seq(Callback) /\ main[d] # <<>> /\ Head(main[d]).kind = "answer"
  BY ConstantFacts DEF AppInv, CallbacksInv, CallbacksTypeOK, Called
<1>2. Head(main[d]) \in Callback /\ 1 \in 1 .. Len(main[d]) /\ Head(main[d]) = main[d][1]
  BY <1>1
<1>3. Head(main[d]).owner \in Owners /\ Head(main[d]).docs \in Contents
  BY <1>1, <1>2 DEF Callback
<1>4. \A k \in Keys : HasHistory(Head(main[d]).docs[k])
  BY <1>1, <1>2, ConstantFacts DEF AppInv, CallbacksInv, AnswersHaveHistory
<1> QED  BY <1>3, <1>4

LEMMA DoneCalled ==
    ASSUME AppInv, NEW d \in Phones, Called(d, "done")
    PROVE  Head(main[d]).cb \in Completions
<1>1. main[d] \in Seq(Callback) /\ main[d] # <<>> /\ Head(main[d]).kind = "done"
  BY ConstantFacts DEF AppInv, CallbacksInv, CallbacksTypeOK, Called
<1>2. Head(main[d]) \in Callback
  BY <1>1
<1> QED  BY <1>1, <1>2 DEF Callback

--------------------------------------------------------------------------------
(* The rows *)

LEMMA DocumentsFacts ==
    ASSUME NEW docs, NEW ks \in Documents(docs)
    PROVE  /\ ks \in Seq(Keys)
           /\ \A i \in 1 .. Len(ks) : Exists(docs, ks[i])
           /\ \A i, j \in 1 .. Len(ks) : i < j => ks[i] < ks[j]
<1> DEFINE S == {k \in Keys : Exists(docs, k)}
<1>1. IsFiniteSet(S)
  BY ConstantFacts, FS_Subset
<1>2. Cardinality(S) \in Nat
  BY <1>1, FS_CardinalityType
<1>3. /\ ks \in [1 .. Cardinality(S) -> S]
      /\ \A i, j \in DOMAIN ks : i < j => ks[i] < ks[j]
  BY DEF Documents, SetToSeqs
<1>4. ks \in Seq(S) /\ DOMAIN ks = 1 .. Len(ks)
  BY <1>2, <1>3
<1>5. \A i \in 1 .. Len(ks) : ks[i] \in S
  BY <1>4
<1> QED  BY <1>3, <1>4, <1>5

(* The rows of an answer have the right form, and are aligned.             *)
LEMMA ListItemsAligned ==
    ASSUME NEW docs \in Contents, \A k \in Keys : HasHistory(docs[k]), NEW ks \in Documents(docs)
    PROVE  ListItems(docs, ks) \in Seq(Item) /\ Aligned(ListItems(docs, ks))
<1>1. /\ ks \in Seq(Keys)
      /\ \A i \in 1 .. Len(ks) : Exists(docs, ks[i])
      /\ \A i, j \in 1 .. Len(ks) : i < j => ks[i] < ks[j]
  BY DocumentsFacts
<1>2. ASSUME NEW k \in Keys, Exists(docs, k)
      PROVE  /\ ListItem(docs, k) \in Item /\ ListItem(docs, k).key = k
             /\ Len(ListItem(docs, k).price) = Len(ListItem(docs, k).date)
             /\ Len(ListItem(docs, k).price) > 0
  <2>1. /\ docs[k].price \in Seq(Prices) /\ docs[k].price # <<>>
        /\ docs[k].date \in Seq(Dates) /\ docs[k].date # <<>>
    BY <1>2 DEF Contents, Doc, Exists, HasHistory
  <2>2. Decode(docs[k]) = [price |-> docs[k].price, date |-> docs[k].date]
    <3>1. docs[k].price # NoField /\ docs[k].date # NoField
      BY <2>1, MarketAssumption DEF MarketAssumption
    <3> QED  BY <3>1 DEF Decode
  <2>3. /\ Align(Decode(docs[k])).price \in Seq(Prices)
        /\ Align(Decode(docs[k])).date \in Seq(Dates)
        /\ Len(Align(Decode(docs[k])).price) = Len(Align(Decode(docs[k])).date)
        /\ Len(Align(Decode(docs[k])).price) > 0
    <3>1. Decode(docs[k]).price = docs[k].price /\ Decode(docs[k]).date = docs[k].date
      BY <2>2
    <3> QED  BY <2>1, <3>1, AlignLengths
  <2>4. ListItem(docs, k) = [key |-> k, price |-> Align(Decode(docs[k])).price,
                             date |-> Align(Decode(docs[k])).date]
    BY DEF ListItem
  <2> QED  BY <2>3, <2>4 DEF Item
<1>3. \A i \in 1 .. Len(ks) : ks[i] \in Keys /\ ListItem(docs, ks[i]) \in Item
  BY <1>1, <1>2
<1>4. /\ ListItems(docs, ks) \in Seq(Item)
      /\ Len(ListItems(docs, ks)) = Len(ks)
      /\ \A i \in 1 .. Len(ks) : ListItems(docs, ks)[i] = ListItem(docs, ks[i])
  <2> DEFINE its == [i \in 1 .. Len(ks) |-> ListItem(docs, ks[i])]
  <2>1. its \in [1 .. Len(ks) -> Item] /\ Len(ks) \in Nat
    BY <1>1, <1>3
  <2>2. its \in Seq(Item) /\ Len(its) = Len(ks)
    BY <2>1
  <2> QED  BY <2>2 DEF ListItems
<1>5. Aligned(ListItems(docs, ks))
  <2> SUFFICES ASSUME NEW i \in 1 .. Len(ks)
               PROVE  /\ Len(ListItem(docs, ks[i]).price) = Len(ListItem(docs, ks[i]).date)
                      /\ Len(ListItem(docs, ks[i]).price) > 0
                      /\ \A j \in 1 .. i - 1 :
                           ListItem(docs, ks[j]).key < ListItem(docs, ks[i]).key
    <3>1. \A i \in 1 .. Len(ks) : 1 .. i - 1 \subseteq 1 .. Len(ks)
      BY <1>1
    <3> QED  BY <1>4, <3>1 DEF Aligned
  <2>1. \A j \in 1 .. i - 1 : j \in 1 .. Len(ks) /\ j < i
    BY <1>1
  <2> QED  BY <1>1, <1>2, <1>3, <2>1
<1> QED  BY <1>4, <1>5

(* Removing a row keeps the others, in order.                              *)
LEMMA RemoveAtFacts ==
    ASSUME NEW S, NEW s \in Seq(S), NEW r \in 1 .. Len(s)
    PROVE  /\ RemoveAt(s, r) \in Seq(S)
           /\ Len(RemoveAt(s, r)) = Len(s) - 1
           /\ \A i \in 1 .. Len(s) - 1 : RemoveAt(s, r)[i] = s[IF i < r THEN i ELSE i + 1]
<1> DEFINE a == SubSeq(s, 1, r - 1)
           b == SubSeq(s, r + 1, Len(s))
<1>1. Len(s) \in Nat /\ r \in Nat /\ r >= 1 /\ r <= Len(s)
  OBVIOUS
<1>2. a \in Seq(S) /\ Len(a) = r - 1 /\ \A i \in 1 .. r - 1 : a[i] = s[i]
  BY <1>1
<1>3. b \in Seq(S) /\ Len(b) = Len(s) - r /\ \A i \in 1 .. Len(s) - r : b[i] = s[r + i]
  BY <1>1
<1> HIDE DEF a, b
<1>4. /\ a \o b \in Seq(S)
      /\ Len(a \o b) = Len(a) + Len(b)
      /\ \A i \in 1 .. Len(a) + Len(b) : (a \o b)[i] = IF i <= Len(a) THEN a[i] ELSE b[i - Len(a)]
  BY <1>2, <1>3, ConcatProperties
<1>5. RemoveAt(s, r) = a \o b
  BY DEF RemoveAt, a, b
<1>6. ASSUME NEW i \in 1 .. Len(s) - 1
      PROVE  (a \o b)[i] = s[IF i < r THEN i ELSE i + 1]
  <2>1. CASE i < r
    BY <1>1, <1>2, <1>3, <1>4, <2>1
  <2>2. CASE ~(i < r)
    <3>1. i - (r - 1) \in 1 .. Len(s) - r /\ r + (i - (r - 1)) = i + 1
      BY <1>1, <2>2
    <3>2. b[i - (r - 1)] = s[i + 1]
      BY <1>3, <3>1
    <3> QED  BY <1>1, <1>2, <1>3, <1>4, <2>2, <3>2
  <2> QED  BY <2>1, <2>2
<1> QED  BY <1>1, <1>2, <1>3, <1>4, <1>5, <1>6

LEMMA RemoveAtAligned ==
    ASSUME NEW its \in Seq(Item), Aligned(its), NEW r \in 1 .. Len(its)
    PROVE  RemoveAt(its, r) \in Seq(Item) /\ Aligned(RemoveAt(its, r))
<1> DEFINE kept == RemoveAt(its, r)
           at(i) == IF i < r THEN i ELSE i + 1
<1>1. /\ kept \in Seq(Item) /\ Len(kept) = Len(its) - 1
      /\ \A i \in 1 .. Len(its) - 1 : kept[i] = its[at(i)]
  BY RemoveAtFacts
<1>2. Len(its) \in Nat
  OBVIOUS
<1>3. ASSUME NEW i \in 1 .. Len(kept)
      PROVE  /\ Len(kept[i].price) = Len(kept[i].date) /\ Len(kept[i].price) > 0
             /\ \A j \in 1 .. i - 1 : kept[j].key < kept[i].key
  <2>1. at(i) \in 1 .. Len(its) /\ kept[i] = its[at(i)]
    BY <1>1, <1>2
  <2>2. ASSUME NEW j \in 1 .. i - 1
        PROVE  at(j) \in 1 .. at(i) - 1 /\ kept[j] = its[at(j)]
    <3>1. i \in 1 .. Len(its) - 1 /\ j \in 1 .. Len(its) - 1 /\ j < i
      BY <1>1, <1>2
    <3>2. kept[j] = its[at(j)]
      BY <1>1, <3>1
    <3> HIDE DEF kept
    <3>3. at(j) \in 1 .. at(i) - 1
      BY <1>2, <3>1
    <3> QED  BY <3>2, <3>3
  <2> HIDE DEF kept, at
  <2> QED  BY <2>1, <2>2 DEF Aligned
<1> QED  BY <1>1, <1>3 DEF Aligned

(* New rows of one list leave the others and every open screen alone,      *)
(* unless drawing them traps.                                              *)
LEMMA SetItemsFacts ==
    ASSUME AppInv, NEW d \in Phones, NEW v \in Views, NEW its \in Seq(Item), Aligned(its),
           SetItems(d, v, its)
    PROVE  /\ items' \in [Phones -> [Views -> Seq(Item)]]
           /\ RowsAligned'
           /\ screen' \in [Phones -> {"login", "list", "detail", "popup", "trapped"}]
           /\ \A x \in Phones : screen'[x] = screen[x] \/ screen'[x] = "trapped"
<1>1. /\ items \in [Phones -> [Views -> Seq(Item)]]
      /\ screen \in [Phones -> {"login", "list", "detail", "popup", "trapped"}]
      /\ \A x \in Phones, u \in Views : Aligned(items[x][u])
  BY DEF AppInv, ScreensTypeOK, RowsAligned
<1>2. items' = [items EXCEPT ![d] = [items[d] EXCEPT ![v] = its]]
  BY <1>1 DEF SetItems
<1>3. /\ items' \in [Phones -> [Views -> Seq(Item)]]
      /\ \A x \in Phones, u \in Views : items'[x][u] = its \/ items'[x][u] = items[x][u]
  BY <1>1, <1>2
<1>4. RowsAligned'
  <2> SUFFICES ASSUME NEW x \in Phones, NEW u \in Views PROVE Aligned(items'[x][u])
    BY DEF RowsAligned
  <2> QED  BY <1>1, <1>3
<1>5. UNCHANGED screen \/ \E s \in {screen[d], "trapped"} : screen' = [screen EXCEPT ![d] = s]
  BY DEF SetItems, Drawing
<1> QED  BY <1>1, <1>3, <1>4, <1>5

--------------------------------------------------------------------------------
(* What each handler asks of the client *)

(* A handler asks for what MarketClient lets an app ask for.               *)
Request(d) ==
    \E pop \in BOOLEAN, ws \in HandlerWrites \cup {<<>>}, qs \in Seq(Owners) :
        AppStep(d, pop, ws, qs)

LEMMA NoWrites ==
    ASSUME NEW d, NEW pop \in BOOLEAN, NEW qs \in Seq(Owners), Ask(d, pop, <<>>, qs)
    PROVE  Request(d)
<1>1. AppStep(d, pop, <<>>, qs)
  BY DEF AppStep
<1> QED  BY <1>1 DEF Request

LEMMA SomeWrites ==
    ASSUME NEW d, NEW pop \in BOOLEAN, NEW ws \in HandlerWrites, Ask(d, pop, ws, <<>>)
    PROVE  Request(d)
<1>1. AppStep(d, pop, ws, <<>>)
  BY DEF AppStep
<1>2. <<>> \in Seq(Owners)
  OBVIOUS
<1> QED  BY <1>1, <1>2 DEF Request

LEMMA TapRequests ==
    ASSUME AppInv, NEW d \in Phones, Tap(d)
    PROVE  Request(d) \/ UNCHANGED marketVars
<1>1. CASE LoginDidTouch(d)
  <2>1. view[d] + 1 \in Views
    BY <1>1, ConstantFacts DEF LoginDidTouch, AppInv, ScreensTypeOK, Views
  <2>2. <<ListQuery(view[d] + 1)>> \in Seq(Owners)
    BY <2>1, ListQueryOwner
  <2> QED  BY <1>1, <2>2, NoWrites DEF LoginDidTouch
<1>2. ASSUME NEW p \in Prices, NEW t \in Dates, ModifyPressed(d, p, t)
      PROVE  Request(d)
  <2>1. detail[d] \in [row : Rows, key : Keys]
    BY <1>2 DEF ModifyPressed, AppInv, ScreensMatch
  <2>2. <<ModifyQuery(detail[d], p, t)>> \in Seq(Owners)
    BY <2>1, ModifyQueryOwner
  <2> QED  BY <1>2, <2>2, NoWrites DEF ModifyPressed
<1>3. ASSUME NEW r \in Rows, SwipeDelete(d, r)
      PROVE  Request(d)
  <2>1. view[d] \in Views /\ r \in 1 .. Len(items[d][view[d]])
    BY <1>3 DEF SwipeDelete, AppInv, ScreensMatch
  <2>2. items[d][view[d]] \in Seq(Item)
    BY <2>1 DEF AppInv, ScreensTypeOK
  <2>3. items[d][view[d]][r].key \in Keys
    <3>1. items[d][view[d]][r] \in Item
      BY <2>1, <2>2
    <3> QED  BY <3>1 DEF Item
  <2>4. DeleteDone(view[d], r) \in Completions
    BY <2>1, DeleteDoneCompletion
  <2>5. <<Delete(items[d][view[d]][r].key, DeleteDone(view[d], r))>> \in HandlerWrites
    <3>1. PICK k \in Keys, cb \in Completions :
            k = items[d][view[d]][r].key /\ cb = DeleteDone(view[d], r)
      BY <2>3, <2>4
    <3>2. <<Delete(k, cb)>> \in HandlerWrites
      BY DEF HandlerWrites
    <3> QED  BY <3>1, <3>2
  <2> QED  BY <1>3, <2>5, SomeWrites DEF SwipeDelete
<1>4. CASE \/ \E r \in Rows : DidSelectRow(d, r)
           \/ CancelPressed(d) \/ BackPressed(d)
           \/ AddButtonDidTouch(d) \/ CancelBtnPressed(d)
           \/ \E p \in Prices : UpdateBtnPressed(d, p)
  BY <1>4 DEF DidSelectRow, CancelPressed, BackPressed, AddButtonDidTouch, CancelBtnPressed,
              UpdateBtnPressed, NoRequest
<1> QED  BY <1>1, <1>2, <1>3, <1>4 DEF Tap

LEMMA UploadRequests ==
    ASSUME AppInv, NEW d \in Phones, UploadStep(d)
    PROVE  Request(d) \/ UNCHANGED marketVars
<1>1. ASSUME NEW i \in 1 .. MaxUploads, NEW k \in Keys, NEW t \in Dates,
             DownloadURLSucceeds(d, i, k, t)
      PROVE  Request(d)
  <2>1. uploads[d] \in Seq(Upload) /\ i \in 1 .. Len(uploads[d])
    BY <1>1 DEF DownloadURLSucceeds, Uploading, AppInv, ScreensTypeOK
  <2>2. uploads[d][i].price \in Prices /\ uploads[d][i].popup \in 1 .. MaxPopups
    <3>1. uploads[d][i] \in Upload
      BY <2>1
    <3> QED  BY <3>1 DEF Upload
  <2>3. SaveDone(uploads[d][i].popup) \in Completions /\ k \in Keys \ used
    BY <1>1, <2>2, SaveDoneCompletion DEF DownloadURLSucceeds
  <2>4. <<SetData(k, uploads[d][i].price, t, SaveDone(uploads[d][i].popup))>> \in HandlerWrites
    <3>1. PICK p \in Prices, cb \in Completions :
            p = uploads[d][i].price /\ cb = SaveDone(uploads[d][i].popup)
      BY <2>2, <2>3
    <3>2. <<SetData(k, p, t, cb)>> \in HandlerWrites
      BY <2>3 DEF HandlerWrites
    <3> QED  BY <3>1, <3>2
  <2> QED  BY <1>1, <2>4, SomeWrites DEF DownloadURLSucceeds
<1>2. CASE \E i \in 1 .. MaxUploads :
             PutDataSucceeds(d, i) \/ PutDataFails(d, i) \/ DownloadURLFails(d, i)
  BY <1>2 DEF PutDataSucceeds, PutDataFails, DownloadURLFails, NoRequest
<1> QED  BY <1>1, <1>2 DEF UploadStep

LEMMA CallbackRequests ==
    ASSUME AppInv, NEW d \in Phones, Callbacks(d)
    PROVE  Request(d)
<1>1. CASE ListAnswered(d) \/ SaveCompleted(d)
  <2>1. Ask(d, TRUE, <<>>, <<>>)
    BY <1>1 DEF ListAnswered, SaveCompleted
  <2>2. <<>> \in Seq(Owners)
    OBVIOUS
  <2> QED  BY <2>1, <2>2, NoWrites
<1>2. CASE ModifyAnswered(d)
  <2> DEFINE answer == Head(main[d])
             o == answer.owner
  <2>1. o \in Owners /\ o.kind = "modify"
    BY <1>2, AnswerCalled DEF ModifyAnswered
  <2>2. o.row \in Rows /\ o.price \in Prices /\ o.date \in Dates
    BY <2>1, ModifyOwner
  <2>3. CASE Ask(d, TRUE, <<>>, <<>>)
    <3>1. <<>> \in Seq(Owners)
      OBVIOUS
    <3> QED  BY <2>3, <3>1, NoWrites
  <2>4. CASE ~Ask(d, TRUE, <<>>, <<>>)
    <3>1. PICK returnItem \in Documents(answer.docs) :
            /\ o.row <= Len(returnItem)
            /\ Ask(d, TRUE, EntryWrites(returnItem[o.row], o.price, o.date), <<>>)
      BY <1>2, <2>4 DEF ModifyAnswered
    <3>2. returnItem \in Seq(Keys) /\ o.row \in Nat /\ o.row >= 1
      BY <2>2, <3>1, DocumentsFacts, ConstantFacts, FS_CardinalityType DEF Rows
    <3>3. returnItem[o.row] \in Keys
      BY <3>1, <3>2
    <3>4. EntryWrites(returnItem[o.row], o.price, o.date) \in HandlerWrites
      BY <2>2, <3>3 DEF EntryWrites, HandlerWrites
    <3> QED  BY <3>1, <3>4, SomeWrites
  <2> QED  BY <2>3, <2>4
<1>3. CASE DeleteCompleted(d)
  <2>1. Head(main[d]).cb.view \in Views
    BY <1>3, DoneCalled, DeletedCompletion DEF DeleteCompleted
  <2>2. <<>> \in Seq(Owners) /\ <<ListQuery(Head(main[d]).cb.view)>> \in Seq(Owners)
    BY <2>1, ListQueryOwner
  <2>3. \/ Ask(d, TRUE, <<>>, <<>>)
        \/ Ask(d, TRUE, <<>>, <<ListQuery(Head(main[d]).cb.view)>>)
    BY <1>3 DEF DeleteCompleted
  <2> QED  BY <2>2, <2>3, NoWrites
<1>4. CASE NewDataNoti(d)
  <2> DEFINE living == {v \in Views : Alive(d, v)}
  <2>1. PICK vs \in SetToSeqs(living) :
          Ask(d, FALSE, <<>>, [i \in 1 .. Len(vs) |-> ListQuery(vs[i])])
    BY <1>4 DEF NewDataNoti
  <2>2. IsFiniteSet(Views)
    BY ConstantFacts, FS_Interval DEF Views
  <2>3. IsFiniteSet(living) /\ living \subseteq Views
    BY <2>2, FS_Subset
  <2> HIDE DEF living
  <2>4. Cardinality(living) \in Nat
    BY <2>3, FS_CardinalityType
  <2>5. vs \in Seq(Views)
    <3>1. vs \in [1 .. Cardinality(living) -> living]
      BY <2>1 DEF SetToSeqs
    <3> QED  BY <2>3, <2>4, <3>1
  <2>6. [i \in 1 .. Len(vs) |-> ListQuery(vs[i])] \in Seq(Owners)
    <3>1. \A i \in 1 .. Len(vs) : ListQuery(vs[i]) \in Owners
      BY <2>5, ListQueryOwner
    <3>2. [i \in 1 .. Len(vs) |-> ListQuery(vs[i])] \in [1 .. Len(vs) -> Owners]
      BY <3>1
    <3> QED  BY <2>5, <3>2
  <2> QED  BY <2>1, <2>6, NoWrites
<1> QED  BY <1>1, <1>2, <1>3, <1>4 DEF Callbacks

--------------------------------------------------------------------------------
(* What each handler does to the screens *)

ScreensInv == ScreensTypeOK /\ ScreensMatch /\ RowsAligned

LEMMA UnresolvedKeys ==
    ASSUME AppInv, NEW d \in Phones
    PROVE  Unresolved(d) \subseteq Keys
<1>1. pending[d] \in Seq(Write)
  BY ConstantFacts DEF AppInv, StoreInv, StoreTypeOK
<1>2. \A i \in 1 .. Len(pending[d]) : pending[d][i] \in Write
  BY <1>1
<1>3. \A w \in Write : w.key \in Keys
  BY DEF Write
<1> QED  BY <1>2, <1>3 DEF Unresolved

LEMMA LoginScreens ==
    ASSUME AppInv, NEW d \in Phones, LoginDidTouch(d)
    PROVE  ScreensInv'
<1>1. /\ view[d] \in 0 .. MaxViews /\ view[d] < MaxViews /\ MaxViews \in Nat
      /\ ScreensTypeOK /\ ScreensMatch /\ RowsAligned
  BY ConstantFacts DEF LoginDidTouch, AppInv, ScreensTypeOK
<1>2. /\ view' = [view EXCEPT ![d] = view[d] + 1]
      /\ screen' = [screen EXCEPT ![d] = "list"]
      /\ loadHidden' = [loadHidden EXCEPT ![d] = FALSE]
      /\ stale' = [stale EXCEPT ![d] = Unresolved(d)]
      /\ UNCHANGED <<items, detail, popups, uploads, dismissals, uploadFaults>>
  BY DEF LoginDidTouch
<1>3. ScreensTypeOK'
  BY <1>1, <1>2, UnresolvedKeys DEF ScreensTypeOK
<1>4. ScreensMatch'
  BY <1>1, <1>2 DEF ScreensMatch, ScreensTypeOK, Views
<1>5. RowsAligned'
  BY <1>1, <1>2 DEF RowsAligned
<1> QED  BY <1>3, <1>4, <1>5 DEF ScreensInv

LEMMA SelectScreens ==
    ASSUME AppInv, NEW d \in Phones, NEW r \in Rows, DidSelectRow(d, r)
    PROVE  ScreensInv'
<1>1. ScreensTypeOK /\ ScreensMatch /\ RowsAligned
  BY DEF AppInv
<1>2. screen[d] = "list" /\ view[d] \in Views /\ r \in 1 .. Len(items[d][view[d]])
  BY <1>1 DEF DidSelectRow, ScreensMatch
<1>3. items[d][view[d]] \in Seq(Item)
  BY <1>1, <1>2 DEF ScreensTypeOK
<1>4. items[d][view[d]][r] \in Item
  BY <1>2, <1>3
<1>5. PICK k \in Keys : k = items[d][view[d]][r].key
  BY <1>4 DEF Item
<1>6. PICK dt \in [row : Rows, key : Keys] : dt = [row |-> r, key |-> k]
  OBVIOUS
<1>7. /\ \/ /\ screen' = [screen EXCEPT ![d] = "detail"]
            /\ detail' = [detail EXCEPT ![d] = dt]
         \/ /\ screen' = [screen EXCEPT ![d] = "trapped"]
            /\ UNCHANGED detail
      /\ UNCHANGED <<view, items, loadHidden, popups, uploads, dismissals, stale, uploadFaults>>
  BY <1>5, <1>6 DEF DidSelectRow
<1>8. ScreensTypeOK'
  <2>1. screen' \in [Phones -> {"login", "list", "detail", "popup", "trapped"}]
    BY <1>1, <1>7 DEF ScreensTypeOK
  <2>2. detail' \in [Phones -> [row : Rows, key : Keys] \cup {NoDetail}]
    <3>1. detail \in [Phones -> [row : Rows, key : Keys] \cup {NoDetail}]
      BY <1>1 DEF ScreensTypeOK
    <3>2. detail' = detail \/ detail' = [detail EXCEPT ![d] = dt]
      BY <1>7
    <3> QED  BY <1>6, <3>1, <3>2
  <2> QED  BY <1>1, <1>7, <2>1, <2>2 DEF ScreensTypeOK
<1>9. ScreensMatch'
  BY <1>1, <1>2, <1>7 DEF ScreensMatch, ScreensTypeOK
<1>10. RowsAligned'
  BY <1>1, <1>7 DEF RowsAligned
<1> QED  BY <1>8, <1>9, <1>10 DEF ScreensInv

LEMMA DismissScreens ==
    ASSUME AppInv, NEW d \in Phones,
           CancelPressed(d) \/ BackPressed(d) \/ \E p \in Prices, t \in Dates : ModifyPressed(d, p, t)
    PROVE  ScreensInv'
<1>1. ScreensTypeOK /\ ScreensMatch /\ RowsAligned
  BY DEF AppInv
<1>2. screen[d] = "detail" /\ view[d] \in Views
  BY <1>1 DEF CancelPressed, BackPressed, ModifyPressed, ScreensMatch
<1>3. /\ \E s \in {"login", "list", "trapped"} : screen' = [screen EXCEPT ![d] = s]
      /\ detail' = [detail EXCEPT ![d] = NoDetail]
      /\ UNCHANGED <<view, items, loadHidden, popups, uploads, dismissals, stale, uploadFaults>>
  BY DEF CancelPressed, BackPressed, ModifyPressed
<1>4. ScreensTypeOK'
  BY <1>1, <1>3 DEF ScreensTypeOK
<1>5. ScreensMatch'
  BY <1>1, <1>2, <1>3 DEF ScreensMatch, ScreensTypeOK
<1>6. RowsAligned'
  BY <1>1, <1>3 DEF RowsAligned
<1> QED  BY <1>4, <1>5, <1>6 DEF ScreensInv

LEMMA PopupScreens ==
    ASSUME AppInv, NEW d \in Phones, AddButtonDidTouch(d) \/ CancelBtnPressed(d)
    PROVE  ScreensInv'
<1>1. /\ ScreensTypeOK /\ ScreensMatch /\ RowsAligned
      /\ popups \in [Phones -> 0 .. MaxPopups] /\ MaxPopups \in Nat
  BY ConstantFacts DEF AppInv, ScreensTypeOK
<1>2. screen[d] \in {"list", "popup"} /\ view[d] \in Views
  BY <1>1 DEF AddButtonDidTouch, CancelBtnPressed, ScreensMatch
<1>3. /\ \/ /\ popups[d] < MaxPopups
            /\ popups' = [popups EXCEPT ![d] = popups[d] + 1]
            /\ screen' = [screen EXCEPT ![d] = "popup"]
         \/ /\ UNCHANGED popups
            /\ screen' = [screen EXCEPT ![d] = "list"]
      /\ UNCHANGED <<view, items, loadHidden, detail, uploads, dismissals, stale, uploadFaults>>
  BY DEF AddButtonDidTouch, CancelBtnPressed
<1>4. popups' \in [Phones -> 0 .. MaxPopups]
  BY <1>1, <1>3
<1>5. ScreensTypeOK'
  BY <1>1, <1>3, <1>4 DEF ScreensTypeOK
<1>6. ScreensMatch'
  BY <1>1, <1>2, <1>3 DEF ScreensMatch, ScreensTypeOK
<1>7. RowsAligned'
  BY <1>1, <1>3 DEF RowsAligned
<1> QED  BY <1>5, <1>6, <1>7 DEF ScreensInv

LEMMA UpdateBtnScreens ==
    ASSUME AppInv, NEW d \in Phones, NEW p \in Prices, UpdateBtnPressed(d, p)
    PROVE  ScreensInv'
<1>1. ScreensTypeOK /\ ScreensMatch /\ RowsAligned /\ uploads \in [Phones -> Seq(Upload)]
  BY DEF AppInv, ScreensTypeOK
<1>2. popups[d] \in 1 .. MaxPopups
  BY <1>1 DEF UpdateBtnPressed, ScreensMatch
<1>3. [popup |-> popups[d], stage |-> "put", price |-> p] \in Upload
  BY <1>2 DEF Upload
<1>4. /\ uploads' = [uploads EXCEPT ![d] =
                       Append(uploads[d], [popup |-> popups[d], stage |-> "put", price |-> p])]
      /\ UNCHANGED <<screen, view, items, loadHidden, detail, popups, dismissals, stale, uploadFaults>>
  BY DEF UpdateBtnPressed
<1>5. uploads' \in [Phones -> Seq(Upload)]
  BY <1>1, <1>3, <1>4
<1>6. ScreensTypeOK'
  BY <1>1, <1>4, <1>5 DEF ScreensTypeOK
<1>7. ScreensMatch' /\ RowsAligned'
  BY <1>1, <1>4 DEF ScreensMatch, RowsAligned
<1> QED  BY <1>6, <1>7 DEF ScreensInv

LEMMA SwipeScreens ==
    ASSUME AppInv, NEW d \in Phones, NEW r \in Rows, SwipeDelete(d, r)
    PROVE  ScreensInv'
<1>1. ScreensTypeOK /\ ScreensMatch /\ RowsAligned
  BY DEF AppInv
<1>2. view[d] \in Views /\ r \in 1 .. Len(items[d][view[d]])
  BY <1>1 DEF SwipeDelete, ScreensMatch
<1>3. items[d][view[d]] \in Seq(Item)
  BY <1>1, <1>2 DEF ScreensTypeOK
<1>4. items[d][view[d]][r] \in Item
  BY <1>2, <1>3
<1>5. PICK k \in Keys : k = items[d][view[d]][r].key
  BY <1>4 DEF Item
<1>6. /\ stale' = [stale EXCEPT ![d] = stale[d] \cup {k}]
      /\ UNCHANGED <<screen, view, items, loadHidden, detail, popups, uploads, dismissals, uploadFaults>>
  BY <1>5 DEF SwipeDelete
<1>7. ScreensTypeOK'
  BY <1>1, <1>6 DEF ScreensTypeOK
<1>8. ScreensMatch' /\ RowsAligned'
  BY <1>1, <1>6 DEF ScreensMatch, RowsAligned
<1> QED  BY <1>7, <1>8 DEF ScreensInv

LEMMA TapScreens ==
    ASSUME AppInv, NEW d \in Phones, Tap(d)
    PROVE  ScreensInv'
  BY LoginScreens, SelectScreens, DismissScreens, PopupScreens, UpdateBtnScreens, SwipeScreens
  DEF Tap

(* Uploads start, move on and end; nothing else of the screens changes but *)
(* for a trap.                                                             *)
LEMMA UploadsChange ==
    ASSUME ScreensInv, uploads' \in [Phones -> Seq(Upload)],
           uploadFaults' \in 0 .. MaxUploadFaults,
           stale' \in [Phones -> SUBSET Keys],
           screen' \in [Phones -> {"login", "list", "detail", "popup", "trapped"}],
           \A x \in Phones : screen'[x] = screen[x] \/ screen'[x] = "trapped",
           UNCHANGED <<view, items, loadHidden, detail, popups, dismissals>>
    PROVE  ScreensInv'
<1>1. ScreensTypeOK /\ ScreensMatch /\ RowsAligned
  BY DEF ScreensInv
<1>2. ScreensTypeOK'
  BY <1>1 DEF ScreensTypeOK
<1>3. ScreensMatch'
  BY <1>1 DEF ScreensMatch
<1>4. RowsAligned'
  BY <1>1 DEF RowsAligned
<1> QED  BY <1>2, <1>3, <1>4 DEF ScreensInv

LEMMA UploadScreens ==
    ASSUME AppInv, NEW d \in Phones, UploadStep(d)
    PROVE  ScreensInv'
<1>1. /\ ScreensInv
      /\ uploads \in [Phones -> Seq(Upload)]
      /\ uploadFaults \in 0 .. MaxUploadFaults /\ MaxUploadFaults \in Nat
      /\ stale \in [Phones -> SUBSET Keys]
      /\ screen \in [Phones -> {"login", "list", "detail", "popup", "trapped"}]
  BY ConstantFacts DEF AppInv, ScreensInv, ScreensTypeOK
<1>2. UploadFault => uploadFaults' \in 0 .. MaxUploadFaults
  BY <1>1 DEF UploadFault
<1>3. ASSUME NEW i \in 1 .. Len(uploads[d]), uploads' = [uploads EXCEPT ![d] = RemoveAt(uploads[d], i)]
      PROVE  uploads' \in [Phones -> Seq(Upload)]
  <2>1. RemoveAt(uploads[d], i) \in Seq(Upload)
    BY <1>1, RemoveAtFacts
  <2> QED  BY <1>1, <1>3, <2>1
<1>4. ASSUME NEW i \in 1 .. MaxUploads, PutDataSucceeds(d, i)
      PROVE  ScreensInv'
  <2>1. i \in 1 .. Len(uploads[d]) /\ uploads[d] \in Seq(Upload)
    BY <1>1, <1>4 DEF PutDataSucceeds, Uploading
  <2>2. uploads' = [uploads EXCEPT ![d] = [uploads[d] EXCEPT ![i] = [uploads[d][i] EXCEPT !.stage = "url"]]]
    BY <1>4, <1>1, <2>1 DEF PutDataSucceeds
  <2>3. PICK up1 \in Upload : up1 = [uploads[d][i] EXCEPT !.stage = "url"]
    <3>1. uploads[d][i] \in Upload
      BY <2>1
    <3> QED  BY <3>1 DEF Upload
  <2>4. PICK ups \in Seq(Upload) : ups = [uploads[d] EXCEPT ![i] = up1]
    <3>1. [uploads[d] EXCEPT ![i] = up1] \in Seq(Upload)
      BY <2>1
    <3> QED  BY <3>1
  <2>5. uploads' \in [Phones -> Seq(Upload)]
    BY <1>1, <2>2, <2>3, <2>4
  <2>6. UNCHANGED <<screen, view, items, loadHidden, detail, popups, dismissals, stale, uploadFaults>>
    BY <1>4 DEF PutDataSucceeds
  <2> QED  BY <1>1, <2>5, <2>6, UploadsChange
<1>5. ASSUME NEW i \in 1 .. MaxUploads, PutDataFails(d, i)
      PROVE  ScreensInv'
  <2>1. uploads' \in [Phones -> Seq(Upload)] /\ uploadFaults' \in 0 .. MaxUploadFaults
    BY <1>2, <1>3, <1>5 DEF PutDataFails, Uploading
  <2>2. UNCHANGED <<screen, view, items, loadHidden, detail, popups, dismissals, stale>>
    BY <1>5 DEF PutDataFails
  <2> QED  BY <1>1, <2>1, <2>2, UploadsChange
<1>6. ASSUME NEW i \in 1 .. MaxUploads, DownloadURLFails(d, i)
      PROVE  ScreensInv'
  <2>1. /\ screen' = [screen EXCEPT ![d] = "trapped"]
        /\ uploadFaults' \in 0 .. MaxUploadFaults
        /\ UNCHANGED <<view, items, loadHidden, detail, popups, uploads, dismissals, stale>>
    BY <1>2, <1>6 DEF DownloadURLFails
  <2> QED  BY <1>1, <2>1, UploadsChange
<1>7. ASSUME NEW i \in 1 .. MaxUploads, NEW k \in Keys, NEW t \in Dates,
             DownloadURLSucceeds(d, i, k, t)
      PROVE  ScreensInv'
  <2>1. uploads' \in [Phones -> Seq(Upload)]
    BY <1>3, <1>7 DEF DownloadURLSucceeds, Uploading
  <2>2. stale' = [stale EXCEPT ![d] = stale[d] \cup {k}]
    BY <1>7 DEF DownloadURLSucceeds
  <2>3. stale' \in [Phones -> SUBSET Keys]
    BY <1>1, <2>2
  <2>4. UNCHANGED <<screen, view, items, loadHidden, detail, popups, dismissals, uploadFaults>>
    BY <1>7 DEF DownloadURLSucceeds
  <2> QED  BY <1>1, <2>1, <2>3, <2>4, UploadsChange
<1> QED  BY <1>4, <1>5, <1>6, <1>7 DEF UploadStep

(* What a callback changes: rows, a loading view hidden, the documents     *)
(* written since, a popup dismissed, a trap.                               *)
LEMMA CallbackChange ==
    ASSUME ScreensInv,
           items' \in [Phones -> [Views -> Seq(Item)]], RowsAligned',
           screen' \in [Phones -> {"login", "list", "detail", "popup", "trapped"}],
           \A x \in Phones : \/ screen'[x] = screen[x] \/ screen'[x] = "trapped"
                             \/ screen[x] = "popup" /\ screen'[x] = "list",
           loadHidden' \in [Phones -> BOOLEAN],
           stale' \in [Phones -> SUBSET Keys],
           dismissals' \in [Phones -> Nat],
           UNCHANGED <<view, detail, popups, uploads, uploadFaults>>
    PROVE  ScreensInv'
<1>1. ScreensTypeOK /\ ScreensMatch
  BY DEF ScreensInv
<1>2. ScreensTypeOK'
  BY <1>1 DEF ScreensTypeOK
<1>3. ScreensMatch'
  BY <1>1 DEF ScreensMatch
<1> QED  BY <1>2, <1>3 DEF ScreensInv

LEMMA ListAnsweredScreens ==
    ASSUME AppInv, NEW d \in Phones, ListAnswered(d)
    PROVE  ScreensInv'
<1> DEFINE answer == Head(main[d])
           v == answer.owner.view
<1>1. /\ ScreensInv /\ RowsAligned
      /\ items \in [Phones -> [Views -> Seq(Item)]]
      /\ loadHidden \in [Phones -> BOOLEAN]
      /\ stale \in [Phones -> SUBSET Keys]
      /\ dismissals \in [Phones -> Nat]
      /\ screen \in [Phones -> {"login", "list", "detail", "popup", "trapped"}]
  BY DEF AppInv, ScreensInv, ScreensTypeOK
<1>2. /\ answer.owner \in Owners /\ answer.owner.kind = "list"
      /\ answer.docs \in Contents /\ \A k \in Keys : HasHistory(answer.docs[k])
  BY AnswerCalled DEF ListAnswered
<1>3. v \in Views
  BY <1>2, ListOwner
<1>4. UNCHANGED <<view, detail, popups, uploads, dismissals, uploadFaults>>
  BY DEF ListAnswered
<1>5. stale' \in [Phones -> SUBSET Keys]
  <2>1. \E ks \in SUBSET Keys : stale' = [stale EXCEPT ![d] = ks]
    BY <1>1 DEF ListAnswered
  <2> QED  BY <1>1, <2>1
<1>6. CASE answer.from = "error"
  <2>1. UNCHANGED <<screen, items, loadHidden>>
    BY <1>6 DEF ListAnswered
  <2>2. RowsAligned'
    BY <1>1, <2>1 DEF RowsAligned
  <2> QED  BY <1>1, <1>4, <1>5, <2>1, <2>2, CallbackChange
<1>7. CASE answer.from # "error"
  <2>1. /\ \E ks \in Documents(answer.docs) : SetItems(d, v, ListItems(answer.docs, ks))
        /\ loadHidden' = [loadHidden EXCEPT ![d] = @ \/ OnTop(d, v)]
    BY <1>7 DEF ListAnswered
  <2>2. PICK ks \in Documents(answer.docs) : SetItems(d, v, ListItems(answer.docs, ks))
    BY <2>1
  <2>3. ListItems(answer.docs, ks) \in Seq(Item) /\ Aligned(ListItems(answer.docs, ks))
    BY <1>2, ListItemsAligned
  <2>4. PICK its \in Seq(Item) : Aligned(its) /\ SetItems(d, v, its)
    BY <2>2, <2>3
  <2>5. /\ items' \in [Phones -> [Views -> Seq(Item)]]
        /\ RowsAligned'
        /\ screen' \in [Phones -> {"login", "list", "detail", "popup", "trapped"}]
        /\ \A x \in Phones : screen'[x] = screen[x] \/ screen'[x] = "trapped"
    BY <1>3, <2>4, SetItemsFacts
  <2>6. loadHidden' \in [Phones -> BOOLEAN]
    <3>1. OnTop(d, v) \in BOOLEAN /\ loadHidden[d] \in BOOLEAN
      BY <1>1 DEF OnTop
    <3>2. PICK hidden \in BOOLEAN : hidden = (loadHidden[d] \/ OnTop(d, v))
      BY <3>1
    <3>3. loadHidden' = [loadHidden EXCEPT ![d] = hidden]
      BY <1>1, <2>1, <3>2
    <3> QED  BY <1>1, <3>3
  <2>7. dismissals' \in [Phones -> Nat]
    BY <1>1, <1>4
  <2> QED  BY <1>1, <1>4, <1>5, <2>5, <2>6, <2>7, CallbackChange
<1> QED  BY <1>6, <1>7

LEMMA ModifyAnsweredScreens ==
    ASSUME AppInv, NEW d \in Phones, ModifyAnswered(d)
    PROVE  ScreensInv'
<1> DEFINE answer == Head(main[d])
           o == answer.owner
<1>1. /\ ScreensInv /\ RowsAligned
      /\ items \in [Phones -> [Views -> Seq(Item)]]
      /\ loadHidden \in [Phones -> BOOLEAN]
      /\ stale \in [Phones -> SUBSET Keys]
      /\ dismissals \in [Phones -> Nat]
      /\ screen \in [Phones -> {"login", "list", "detail", "popup", "trapped"}]
  BY DEF AppInv, ScreensInv, ScreensTypeOK
<1>2. o \in Owners /\ o.kind = "modify"
  BY AnswerCalled DEF ModifyAnswered
<1>3. o.row \in Nat /\ o.row >= 1
  BY <1>2, ModifyOwner DEF Rows
<1>4. UNCHANGED <<view, items, loadHidden, detail, popups, uploads, dismissals, uploadFaults>>
  BY DEF ModifyAnswered
<1>5. \/ screen' = [screen EXCEPT ![d] = "trapped"] /\ UNCHANGED stale
      \/ UNCHANGED <<screen, stale>>
      \/ \E k \in Keys : UNCHANGED screen /\ stale' = [stale EXCEPT ![d] = stale[d] \cup {k}]
  <2>1. CASE \E returnItem \in Documents(answer.docs) :
               /\ o.row <= Len(returnItem)
               /\ stale' = [stale EXCEPT ![d] = stale[d] \cup {returnItem[o.row]}]
               /\ UNCHANGED screen
    <3>1. PICK returnItem \in Documents(answer.docs) :
               /\ o.row <= Len(returnItem)
               /\ stale' = [stale EXCEPT ![d] = stale[d] \cup {returnItem[o.row]}]
               /\ UNCHANGED screen
      BY <2>1
    <3>2. returnItem \in Seq(Keys)
      BY DocumentsFacts
    <3>3. returnItem[o.row] \in Keys
      BY <1>3, <3>1, <3>2
    <3> QED  BY <3>1, <3>3
  <2>2. CASE screen' = [screen EXCEPT ![d] = "trapped"] /\ UNCHANGED stale
    BY <2>2
  <2>3. CASE UNCHANGED <<screen, stale>>
    BY <2>3
  <2> QED  BY <2>1, <2>2, <2>3 DEF ModifyAnswered
<1>6. stale' \in [Phones -> SUBSET Keys]
  BY <1>1, <1>5
<1>7. /\ screen' \in [Phones -> {"login", "list", "detail", "popup", "trapped"}]
      /\ \A x \in Phones : screen'[x] = screen[x] \/ screen'[x] = "trapped"
  BY <1>1, <1>5
<1>8. RowsAligned'
  BY <1>1, <1>4 DEF RowsAligned
<1> QED  BY <1>1, <1>4, <1>6, <1>7, <1>8, CallbackChange

LEMMA DeleteCompletedScreens ==
    ASSUME AppInv, NEW d \in Phones, DeleteCompleted(d)
    PROVE  ScreensInv'
<1> DEFINE cb == Head(main[d]).cb
           its == items[d][cb.view]
<1>1. /\ ScreensInv /\ RowsAligned
      /\ items \in [Phones -> [Views -> Seq(Item)]]
      /\ loadHidden \in [Phones -> BOOLEAN]
      /\ stale \in [Phones -> SUBSET Keys]
      /\ dismissals \in [Phones -> Nat]
      /\ screen \in [Phones -> {"login", "list", "detail", "popup", "trapped"}]
  BY DEF AppInv, ScreensInv, ScreensTypeOK
<1>2. cb.view \in Views /\ cb.row \in Nat /\ cb.row >= 1
  <2>1. cb \in Completions /\ cb.kind = "deleted"
    BY DoneCalled DEF DeleteCompleted
  <2> QED  BY <2>1, DeletedCompletion DEF Rows
<1>3. UNCHANGED <<view, loadHidden, detail, popups, uploads, dismissals, uploadFaults>>
  BY DEF DeleteCompleted
<1>4. its \in Seq(Item) /\ Aligned(its)
  BY <1>1, <1>2 DEF RowsAligned
<1>5. CASE cb.row > Len(its)
  <2>1. screen' = [screen EXCEPT ![d] = "trapped"] /\ UNCHANGED <<items, stale>>
    BY <1>5 DEF DeleteCompleted
  <2>2. RowsAligned'
    BY <1>1, <2>1 DEF RowsAligned
  <2> QED  BY <1>1, <1>3, <2>1, <2>2, CallbackChange
<1>6. CASE ~(cb.row > Len(its))
  <2>1. /\ SetItems(d, cb.view, RemoveAt(its, cb.row))
        /\ stale' = [stale EXCEPT ![d] = IF OnTop(d, cb.view) THEN Unresolved(d) ELSE stale[d]]
    BY <1>6 DEF DeleteCompleted
  <2>2. cb.row \in 1 .. Len(its)
    BY <1>2, <1>4, <1>6
  <2>3. PICK kept \in Seq(Item) : Aligned(kept) /\ SetItems(d, cb.view, kept)
    BY <1>4, <2>1, <2>2, RemoveAtAligned
  <2>4. /\ items' \in [Phones -> [Views -> Seq(Item)]]
        /\ RowsAligned'
        /\ screen' \in [Phones -> {"login", "list", "detail", "popup", "trapped"}]
        /\ \A x \in Phones : screen'[x] = screen[x] \/ screen'[x] = "trapped"
    BY <1>2, <2>3, SetItemsFacts
  <2>5. stale' \in [Phones -> SUBSET Keys]
    BY <1>1, <2>1, UnresolvedKeys
  <2>6. loadHidden' \in [Phones -> BOOLEAN] /\ dismissals' \in [Phones -> Nat]
    BY <1>1, <1>3
  <2> QED  BY <1>1, <1>3, <2>4, <2>5, <2>6, CallbackChange
<1> QED  BY <1>5, <1>6

LEMMA SaveCompletedScreens ==
    ASSUME AppInv, NEW d \in Phones, SaveCompleted(d)
    PROVE  ScreensInv'
<1>1. /\ ScreensInv /\ RowsAligned
      /\ items \in [Phones -> [Views -> Seq(Item)]]
      /\ loadHidden \in [Phones -> BOOLEAN]
      /\ stale \in [Phones -> SUBSET Keys]
      /\ dismissals \in [Phones -> Nat]
      /\ screen \in [Phones -> {"login", "list", "detail", "popup", "trapped"}]
  BY DEF AppInv, ScreensInv, ScreensTypeOK
<1>2. UNCHANGED <<view, items, loadHidden, detail, popups, uploads, stale, uploadFaults>>
  BY DEF SaveCompleted
<1>3. /\ \/ screen[d] = "popup" /\ screen' = [screen EXCEPT ![d] = "list"]
         \/ UNCHANGED screen
      /\ \E posted \in {0, 1} : dismissals' = [dismissals EXCEPT ![d] = dismissals[d] + posted]
  BY DEF SaveCompleted
<1>4. dismissals' \in [Phones -> Nat]
  BY <1>1, <1>3
<1>5. /\ screen' \in [Phones -> {"login", "list", "detail", "popup", "trapped"}]
      /\ \A x \in Phones : \/ screen'[x] = screen[x]
                           \/ screen[x] = "popup" /\ screen'[x] = "list"
  BY <1>1, <1>3
<1>6. RowsAligned'
  BY <1>1, <1>2 DEF RowsAligned
<1> QED  BY <1>1, <1>2, <1>4, <1>5, <1>6, CallbackChange

LEMMA NewDataNotiScreens ==
    ASSUME AppInv, NEW d \in Phones, NewDataNoti(d)
    PROVE  ScreensInv'
<1> DEFINE living == {v \in Views : Alive(d, v)}
<1>1. /\ ScreensInv /\ RowsAligned
      /\ items \in [Phones -> [Views -> Seq(Item)]]
      /\ loadHidden \in [Phones -> BOOLEAN]
      /\ stale \in [Phones -> SUBSET Keys]
      /\ dismissals \in [Phones -> Nat]
      /\ screen \in [Phones -> {"login", "list", "detail", "popup", "trapped"}]
  BY DEF AppInv, ScreensInv, ScreensTypeOK
<1>2. /\ dismissals[d] > 0
      /\ dismissals' = [dismissals EXCEPT ![d] = dismissals[d] - 1]
      /\ items' = [items EXCEPT ![d] = [v \in Views |-> IF v \in living THEN <<>> ELSE items[d][v]]]
      /\ stale' = [stale EXCEPT ![d] = IF view[d] \in living THEN Unresolved(d) ELSE stale[d]]
      /\ UNCHANGED <<screen, view, loadHidden, detail, popups, uploads, uploadFaults>>
  BY DEF NewDataNoti
<1> HIDE DEF living
<1>3. dismissals' \in [Phones -> Nat]
  BY <1>1, <1>2
<1>4. stale' \in [Phones -> SUBSET Keys]
  BY <1>1, <1>2, UnresolvedKeys
<1>5. PICK rows \in [Views -> Seq(Item)] :
        /\ items' = [items EXCEPT ![d] = rows]
        /\ \A v \in Views : rows[v] = <<>> \/ rows[v] = items[d][v]
  <2> DEFINE rows == [v \in Views |-> IF v \in living THEN <<>> ELSE items[d][v]]
  <2>1. rows \in [Views -> Seq(Item)]
    BY <1>1
  <2>2. \A v \in Views : rows[v] = <<>> \/ rows[v] = items[d][v]
    OBVIOUS
  <2> QED  BY <1>2, <2>1, <2>2
<1>6. /\ items' \in [Phones -> [Views -> Seq(Item)]]
      /\ \A x \in Phones, v \in Views : items'[x][v] = <<>> \/ items'[x][v] = items[x][v]
  BY <1>1, <1>5
<1>7. RowsAligned'
  <2> SUFFICES ASSUME NEW x \in Phones, NEW v \in Views PROVE Aligned(items'[x][v])
    BY DEF RowsAligned
  <2>1. CASE items'[x][v] = <<>>
    BY <2>1 DEF Aligned
  <2>2. CASE items'[x][v] = items[x][v]
    BY <1>1, <2>2 DEF RowsAligned
  <2> QED  BY <1>6, <2>1, <2>2
<1> QED  BY <1>1, <1>2, <1>3, <1>4, <1>6, <1>7, CallbackChange

LEMMA CallbackScreens ==
    ASSUME AppInv, NEW d \in Phones, Callbacks(d)
    PROVE  ScreensInv'
  BY ListAnsweredScreens, ModifyAnsweredScreens, DeleteCompletedScreens, SaveCompletedScreens,
     NewDataNotiScreens DEF Callbacks

LEMMA RelaunchScreens ==
    ASSUME AppInv, NEW d \in Phones, Relaunch(d)
    PROVE  ScreensInv'
<1>1. ScreensTypeOK /\ ScreensMatch /\ RowsAligned
  BY DEF AppInv
<1>2. /\ screen' = [screen EXCEPT ![d] = "login"]
      /\ view' = [view EXCEPT ![d] = 0]
      /\ items' = [items EXCEPT ![d] = [v \in Views |-> <<>>]]
      /\ loadHidden' = [loadHidden EXCEPT ![d] = FALSE]
      /\ detail' = [detail EXCEPT ![d] = NoDetail]
      /\ popups' = [popups EXCEPT ![d] = 0]
      /\ uploads' = [uploads EXCEPT ![d] = <<>>]
      /\ dismissals' = [dismissals EXCEPT ![d] = 0]
      /\ stale' = [stale EXCEPT ![d] = {}]
      /\ UNCHANGED uploadFaults
  BY DEF Relaunch
<1>3. items' \in [Phones -> [Views -> Seq(Item)]]
  <2>1. [v \in Views |-> <<>>] \in [Views -> Seq(Item)]
    OBVIOUS
  <2> QED  BY <1>1, <1>2, <2>1 DEF ScreensTypeOK
<1>4. ScreensTypeOK'
  BY <1>1, <1>2, <1>3, ConstantFacts DEF ScreensTypeOK
<1>5. ScreensMatch'
  BY <1>1, <1>2 DEF ScreensMatch, ScreensTypeOK
<1>6. RowsAligned'
  <2> SUFFICES ASSUME NEW x \in Phones, NEW v \in Views PROVE Aligned(items'[x][v])
    BY DEF RowsAligned
  <2>1. items'[x][v] = <<>> \/ items'[x][v] = items[x][v]
    BY <1>1, <1>2 DEF ScreensTypeOK
  <2>2. CASE items'[x][v] = <<>>
    BY <2>2 DEF Aligned
  <2>3. CASE items'[x][v] = items[x][v]
    BY <1>1, <2>3 DEF RowsAligned
  <2> QED  BY <2>1, <2>2, <2>3
<1> QED  BY <1>4, <1>5, <1>6 DEF ScreensInv

--------------------------------------------------------------------------------
(* The steps of the app keep the invariant *)

ContractStep ==
    \E d \in Devices :
        \/ \E pop \in BOOLEAN :
             AppStep(d, pop, Issued(pending[d], pending'[d]), Issued(queries[d], queries'[d]))
        \/ ClientStep(d)
        \/ Kill(d)

LEMMA IssuedAfter ==
    ASSUME NEW S, NEW before \in Seq(S), NEW more \in Seq(S)
    PROVE  Issued(before, before \o more) = more
<1> DEFINE both == before \o more
           new == SubSeq(both, Len(before) + 1, Len(both))
<1>1. /\ both \in Seq(S) /\ Len(both) = Len(before) + Len(more)
      /\ \A i \in 1 .. Len(before) + Len(more) :
           both[i] = IF i <= Len(before) THEN before[i] ELSE more[i - Len(before)]
  BY ConcatProperties
<1>2. Len(before) \in Nat /\ Len(more) \in Nat
  OBVIOUS
<1> HIDE DEF both
<1>3. /\ new \in Seq(S) /\ Len(new) = Len(more)
      /\ \A i \in 1 .. Len(more) : new[i] = both[Len(before) + i]
  BY <1>1, <1>2
<1>4. \A i \in 1 .. Len(more) : new[i] = more[i]
  BY <1>1, <1>2, <1>3, SMTT(30)
<1> HIDE DEF new
<1>5. new = more
  BY <1>3, <1>4
<1> QED  BY <1>5 DEF Issued, both, new

LEMMA RequestStep ==
    ASSUME AppInv, NEW d \in Devices, Request(d)
    PROVE  StoreInv' /\ CallbacksInv' /\ ContractStep
<1>1. PICK pop \in BOOLEAN, ws \in HandlerWrites \cup {<<>>}, qs \in Seq(Owners) :
        AppStep(d, pop, ws, qs)
  BY DEF Request
<1>2. /\ StoreInv /\ CallbacksInv
      /\ pending \in [Devices -> Seq(Write)] /\ queries \in [Devices -> Seq(Owners)]
  BY DEF AppInv, StoreInv, StoreTypeOK, CallbacksInv, CallbacksTypeOK
<1>3. StoreInv'
  BY <1>1, <1>2, AppStepStoreInv
<1>4. CallbacksInv'
  BY <1>1, <1>2, AskCallbacksInv DEF AppStep
<1>5. ws \in Seq(Write)
  <2>1. <<>> \in Seq(Write)
    OBVIOUS
  <2>2. ws \in HandlerWrites => ws \in Seq(Write)
    BY HandlerWritesFacts
  <2> QED  BY <2>1, <2>2
<1>6. pending'[d] = pending[d] \o ws
  <2>1. CASE ws = <<>>
    BY <1>1, <1>2, <2>1, ConcatEmptySeq DEF AppStep, Ask
  <2>2. CASE ws # <<>>
    BY <1>1, <1>2, <2>2 DEF AppStep, Ask
  <2> QED  BY <2>1, <2>2
<1>7. queries'[d] = queries[d] \o qs
  BY <1>1, <1>2 DEF AppStep, Ask
<1>8. Issued(pending[d], pending'[d]) = ws /\ Issued(queries[d], queries'[d]) = qs
  BY <1>2, <1>5, <1>6, <1>7, IssuedAfter
<1>9. ContractStep
  BY <1>1, <1>8 DEF ContractStep
<1> QED  BY <1>3, <1>4, <1>9

LEMMA ScreensUnchanged ==
    ASSUME ScreensInv, UNCHANGED uiVars
    PROVE  ScreensInv'
<1>1. ScreensTypeOK'
  BY DEF ScreensInv, ScreensTypeOK, uiVars
<1>2. ScreensMatch' /\ RowsAligned'
  BY DEF ScreensInv, ScreensMatch, RowsAligned, uiVars
<1> QED  BY <1>1, <1>2 DEF ScreensInv

LEMMA NextAppInv ==
    ASSUME AppInv, [Next]_vars
    PROVE  AppInv' /\ [ContractStep]_marketVars
<1>1. StoreInv /\ CallbacksInv /\ ScreensInv
  BY DEF AppInv, ScreensInv
<1>2. ASSUME StoreInv', CallbacksInv', ScreensInv' PROVE AppInv'
  BY <1>2 DEF AppInv, ScreensInv
<1>3. ASSUME UNCHANGED marketVars
      PROVE  StoreInv' /\ CallbacksInv' /\ [ContractStep]_marketVars
  BY <1>1, <1>3, StutterStoreInv, StutterCallbacksInv
<1>4. ASSUME NEW d \in Phones, Tap(d)
      PROVE  AppInv' /\ [ContractStep]_marketVars
  <2>1. ScreensInv'
    BY <1>4, TapScreens
  <2>2. d \in Devices /\ (Request(d) \/ UNCHANGED marketVars)
    BY <1>4, ConstantFacts, TapRequests
  <2> QED  BY <1>2, <1>3, <2>1, <2>2, RequestStep
<1>5. ASSUME NEW d \in Phones, UploadStep(d)
      PROVE  AppInv' /\ [ContractStep]_marketVars
  <2>1. ScreensInv'
    BY <1>5, UploadScreens
  <2>2. d \in Devices /\ (Request(d) \/ UNCHANGED marketVars)
    BY <1>5, ConstantFacts, UploadRequests
  <2> QED  BY <1>2, <1>3, <2>1, <2>2, RequestStep
<1>6. ASSUME NEW d \in Phones, Callbacks(d)
      PROVE  AppInv' /\ [ContractStep]_marketVars
  <2>1. ScreensInv'
    BY <1>6, CallbackScreens
  <2>2. d \in Devices /\ Request(d)
    BY <1>6, ConstantFacts, CallbackRequests
  <2> QED  BY <1>2, <2>1, <2>2, RequestStep
<1>7. ASSUME NEW d \in Phones, Relaunch(d)
      PROVE  AppInv' /\ [ContractStep]_marketVars
  <2>1. ScreensInv'
    BY <1>7, RelaunchScreens
  <2>2. d \in Devices /\ Kill(d)
    BY <1>7, ConstantFacts DEF Relaunch
  <2>3. StoreInv'
    BY <1>1, <2>2, MarketStepStoreInv DEF MarketStep
  <2>4. CallbacksInv'
    BY <1>1, <2>2, KillCallbacksInv
  <2> QED  BY <1>2, <2>1, <2>2, <2>3, <2>4 DEF ContractStep
<1>8. ASSUME NEW d \in Devices \ Phones, OtherApp(d)
      PROVE  AppInv' /\ [ContractStep]_marketVars
  <2>1. ScreensInv'
    BY <1>1, <1>8, ScreensUnchanged DEF OtherApp
  <2>2. Request(d)
    <3>1. <<>> \in Seq(Owners)
      OBVIOUS
    <3> QED  BY <1>8, <3>1 DEF OtherApp, Request
  <2> QED  BY <1>2, <2>1, <2>2, RequestStep
<1>9. ASSUME NEW d \in Devices, ClientStep(d), UNCHANGED uiVars
      PROVE  AppInv' /\ [ContractStep]_marketVars
  <2>1. ScreensInv'
    BY <1>1, <1>9, ScreensUnchanged
  <2>2. StoreInv' /\ CallbacksInv'
    BY <1>1, <1>9, ClientStepStoreInv, ClientStepCallbacksInv
  <2> QED  BY <1>2, <1>9, <2>1, <2>2 DEF ContractStep
<1>10. CASE UNCHANGED vars
  <2>1. UNCHANGED marketVars /\ UNCHANGED uiVars
    BY <1>10 DEF vars
  <2>2. ScreensInv'
    BY <1>1, <2>1, ScreensUnchanged
  <2> QED  BY <1>2, <1>3, <2>1, <2>2
<1> QED  BY <1>4, <1>5, <1>6, <1>7, <1>8, <1>9, <1>10 DEF Next

LEMMA AppInvariant == Spec => []AppInv
<1>1. AppInv /\ [Next]_vars => AppInv'
  BY NextAppInv
<1> QED  BY <1>1, InitAppInv, PTL DEF Spec

LEMMA ContractIsMarketStep == [ContractStep]_marketVars => [MarketStep]_marketVars
  BY DEF ContractStep, MarketStep

--------------------------------------------------------------------------------
(* What follows *)

(* Screens, rows, closures, uploads, queues and documents keep their       *)
(* types: no detail or popup is open that was never made, no closure keeps *)
(* a list that never was.                                                  *)
THEOREM AppTypeCorrect == Spec => []TypeOK
<1>1. AppInv => TypeOK
  BY DEF AppInv, TypeOK, MarketTypeOK, StoreInv, CallbacksInv
<1> QED  BY <1>1, AppInvariant, PTL

(* Each row of every list has as many dates as prices, at least one, and   *)
(* each document has one row, in the order of the names: selecting a row   *)
(* finds an entry, and createItem stays in range, for any number of        *)
(* phones, documents, edits and faults.                                    *)
THEOREM RowsAlwaysAligned == Spec => []RowsAligned
<1>1. AppInv => RowsAligned
  BY DEF AppInv
<1> QED  BY <1>1, AppInvariant, PTL

(* Every step of the app and of its phone is one that MarketClient lets an *)
(* app and its client make.                                                *)
THEOREM ContractKept == Spec => MarketContract
<1>1. Init => MarketInit
  BY DEF Init
<1>2. AppInv /\ [Next]_vars => [ContractStep]_marketVars
  BY NextAppInv
<1> QED  BY <1>1, <1>2, AppInvariant, PTL DEF Spec, MarketContract, ContractStep

LEMMA NextIsMarketStep == AppInv /\ [Next]_vars => [MarketStep]_marketVars
  BY NextAppInv, ContractIsMarketStep

(* Whatever the app's screens, popups and callbacks do, and whenever its   *)
(* process dies, no document it can be given has an empty array: the       *)
(* `price.last!!` of the list and the detail screen finds an element.      *)
THEOREM AppHistoriesNeverEmpty == Spec => []DocsHaveHistory
<1>1. AppInv => DocsHaveHistory
  BY DEF AppInv, StoreInv
<1> QED  BY <1>1, AppInvariant, PTL

(* However often Update is tapped while an upload runs, each setData is    *)
(* queued once, under a name of its own.                                   *)
THEOREM AppCreationsAlwaysFresh == Spec => []CreationsAreFresh
<1>1. AppInv => CreationsAreFresh
  BY DEF AppInv, StoreInv
<1> QED  BY <1>1, AppInvariant, PTL

(* No modification of the detail screen, on the right document or on the   *)
(* wrong one, costs the backend a price or a date it had.                  *)
THEOREM AppHistoriesAlwaysGrow == Spec => HistoriesOnlyGrow
<1>1. AppInv => StoreInv
  BY DEF AppInv
<1> QED  BY <1>1, NextIsMarketStep, StepHistoriesGrow, AppInvariant, PTL
         DEF Spec, HistoriesOnlyGrow, HistoriesGrow

(* A detail screen left open over a deleted product cannot bring it back.  *)
THEOREM AppUpdatesNeverResurrect == Spec => UpdatesDoNotResurrect
<1>1. AppInv => StoreInv
  BY DEF AppInv
<1> QED  BY <1>1, NextIsMarketStep, StepNoResurrection, AppInvariant, PTL
         DEF Spec, UpdatesDoNotResurrect, NoResurrection

--------------------------------------------------------------------------------
(* The rows and the backend *)

(* SetToSeqs lists every element of the set.                               *)
LEMMA SequenceOfSet ==
    ASSUME NEW S, IsFiniteSet(S), NEW xs \in SetToSeqs(S)
    PROVE  xs \in Seq(S) /\ \A x \in S : \E i \in 1 .. Len(xs) : xs[i] = x
<1> DEFINE D == 1 .. Cardinality(S)
<1>1. Cardinality(S) \in Nat
  BY FS_CardinalityType
<1>2. /\ xs \in [D -> S]
      /\ \A i, j \in D : i # j => xs[i] # xs[j]
  BY DEF SetToSeqs
<1>3. xs \in Seq(S) /\ Len(xs) = Cardinality(S)
  BY <1>1, <1>2
<1>4. IsFiniteSet(D) /\ Cardinality(D) = Cardinality(S)
  BY <1>1, FS_Interval
<1> HIDE DEF D
<1>5. xs \in Injection(D, S)
  BY <1>2 DEF Injection, IsInjective
<1>6. xs \in Surjection(D, S)
  BY <1>4, <1>5, FS_Injection
<1>7. \A x \in S : \E i \in D : xs[i] = x
  BY <1>6 DEF Surjection
<1> QED  BY <1>3, <1>7 DEF D

(* RowsTellOf for any document.                                            *)
Tells(doc, its, k) ==
    LET rows == {i \in 1 .. Len(its) : its[i].key = k}
    IN IF doc # NoDoc
       THEN \E i \in rows : its[i].price = Align(doc).price /\ its[i].date = Align(doc).date
       ELSE rows = {}

LEMMA TellsIs ==
    ASSUME NEW its, NEW k
    PROVE  RowsTellOf(its, k) <=> Tells(server[k], its, k)
  BY DEF RowsTellOf, Tells, Exists

(* The rows made of an answer tell of every document of it.                *)
LEMMA ListItemsTell ==
    ASSUME NEW docs \in Contents, \A k \in Keys : HasHistory(docs[k]), NEW ks \in Documents(docs),
           NEW k \in Keys
    PROVE  Tells(docs[k], ListItems(docs, ks), k)
<1> DEFINE S == {x \in Keys : Exists(docs, x)}
<1>1. IsFiniteSet(S)
  BY ConstantFacts, FS_Subset
<1>2. ks \in SetToSeqs(S)
  BY DEF Documents
<1>3. ks \in Seq(S) /\ \A x \in S : \E i \in 1 .. Len(ks) : ks[i] = x
  BY <1>1, <1>2, SequenceOfSet
<1>4. \A i \in 1 .. Len(ks) : ks[i] \in S
  BY <1>3
<1>5. /\ Len(ListItems(docs, ks)) = Len(ks)
      /\ \A i \in 1 .. Len(ks) : ListItems(docs, ks)[i] = ListItem(docs, ks[i])
  BY <1>3 DEF ListItems
<1>6. \A x : ListItem(docs, x).key = x
  BY DEF ListItem
<1>7. CASE docs[k] # NoDoc
  <2>1. PICK i \in 1 .. Len(ks) : ks[i] = k
    BY <1>3, <1>7 DEF Exists
  <2>2. /\ docs[k].price \in Seq(Prices) /\ docs[k].date \in Seq(Dates)
        /\ docs[k] = [price |-> docs[k].price, date |-> docs[k].date]
    BY <1>7 DEF Contents, Doc
  <2>3. docs[k].price # NoField /\ docs[k].date # NoField
    BY <2>2, MarketAssumption DEF MarketAssumption
  <2>4. Decode(docs[k]) = docs[k]
    BY <2>2, <2>3 DEF Decode
  <2>5. /\ ListItem(docs, k).price = Align(docs[k]).price
        /\ ListItem(docs, k).date = Align(docs[k]).date
    BY <2>4 DEF ListItem
  <2> QED  BY <1>5, <1>6, <1>7, <2>1, <2>5 DEF Tells
<1>8. CASE docs[k] = NoDoc
  <2>1. \A i \in 1 .. Len(ks) : ks[i] # k
    BY <1>4, <1>8 DEF Exists
  <2> QED  BY <1>5, <1>6, <1>8, <2>1 DEF Tells
<1> QED  BY <1>7, <1>8

--------------------------------------------------------------------------------
(* What comes before the rows *)

(* A list is up to date about document k when its query is still to be     *)
(* answered, or the last answer on its way agrees with the backend, or     *)
(* none is on its way and the rows agree.                                  *)
IsFor(e, o) == e.kind = "answer" /\ e.owner = o
LastFor(m, o, i) == IsFor(m[i], o) /\ \A j \in i + 1 .. Len(m) : ~IsFor(m[j], o)

Asked(q, o) == \E i \in 1 .. Len(q) : q[i] = o
Coming(doc, m, o, k) ==
    /\ \E i \in 1 .. Len(m) : IsFor(m[i], o)
    /\ \A i \in 1 .. Len(m) : LastFor(m, o, i) /\ m[i].from = "server" => m[i].docs[k] = doc
Shows(doc, m, its, o, k) ==
    /\ \A i \in 1 .. Len(m) : ~IsFor(m[i], o)
    /\ Tells(doc, its, k)

UpToDate(doc, q, m, its, o, k) == Asked(q, o) \/ Coming(doc, m, o, k) \/ Shows(doc, m, its, o, k)

(* A query that has been asked stays so when more are.                     *)
LEMMA AskedMore ==
    ASSUME NEW S, NEW q \in Seq(S), NEW more \in Seq(S), NEW o
    PROVE  Asked(q, o) \/ Asked(more, o) => Asked(q \o more, o)
<1>1. /\ Len(q \o more) = Len(q) + Len(more)
      /\ \A i \in 1 .. Len(q) + Len(more) :
           (q \o more)[i] = IF i <= Len(q) THEN q[i] ELSE more[i - Len(q)]
  BY ConcatProperties
<1>2. Len(q) \in Nat /\ Len(more) \in Nat
  OBVIOUS
<1>3. ASSUME NEW i \in 1 .. Len(q), q[i] = o
      PROVE  Asked(q \o more, o)
  <2>1. i \in 1 .. Len(q \o more) /\ (q \o more)[i] = q[i]
    BY <1>1, <1>2
  <2> QED  BY <1>3, <2>1 DEF Asked
<1>4. ASSUME NEW i \in 1 .. Len(more), more[i] = o
      PROVE  Asked(q \o more, o)
  <2>1. Len(q) + i \in 1 .. Len(q \o more) /\ (q \o more)[Len(q) + i] = more[i]
    BY <1>1, <1>2
  <2> QED  BY <1>4, <2>1 DEF Asked
<1> QED  BY <1>3, <1>4 DEF Asked

(* A callback that is none of its answers is posted.                       *)
LEMMA OtherPosted ==
    ASSUME NEW S, NEW m \in Seq(S), NEW e \in S, NEW o, ~IsFor(e, o),
           NEW doc, NEW q, NEW its, NEW k, UpToDate(doc, q, m, its, o, k)
    PROVE  UpToDate(doc, q, Append(m, e), its, o, k)
<1> DEFINE m2 == Append(m, e)
<1>1. /\ Len(m) \in Nat /\ Len(m2) = Len(m) + 1
      /\ \A i \in 1 .. Len(m) : m2[i] = m[i]
      /\ m2[Len(m) + 1] = e
  OBVIOUS
<1> HIDE DEF m2
<1>2. ASSUME NEW i \in 1 .. Len(m2), IsFor(m2[i], o)
      PROVE  i \in 1 .. Len(m) /\ m2[i] = m[i]
  BY <1>1, <1>2
<1>3. \A i \in 1 .. Len(m) : i \in 1 .. Len(m2) /\ m2[i] = m[i]
  BY <1>1
<1>4. ASSUME NEW i \in 1 .. Len(m2), LastFor(m2, o, i)
      PROVE  i \in 1 .. Len(m) /\ m2[i] = m[i] /\ LastFor(m, o, i)
  <2>1. i \in 1 .. Len(m) /\ m2[i] = m[i] /\ IsFor(m[i], o)
    BY <1>2, <1>4 DEF LastFor
  <2>2. \A j \in i + 1 .. Len(m) : j \in i + 1 .. Len(m2) /\ m2[j] = m[j]
    BY <1>1, <2>1
  <2> QED  BY <1>4, <2>1, <2>2 DEF LastFor
<1>5. CASE Coming(doc, m, o, k)
  BY <1>3, <1>4, <1>5 DEF Coming, UpToDate, m2
<1>6. CASE Shows(doc, m, its, o, k)
  BY <1>2, <1>6 DEF Shows, UpToDate, m2
<1> QED  BY <1>5, <1>6 DEF UpToDate

(* An answer is posted; from the server, it agrees with the backend.       *)
LEMMA AnswerPosted ==
    ASSUME NEW S, NEW m \in Seq(S), NEW e \in S, NEW o, IsFor(e, o),
           NEW doc, NEW k, e.from = "server" => e.docs[k] = doc
    PROVE  Coming(doc, Append(m, e), o, k)
<1> DEFINE m2 == Append(m, e)
<1>1. /\ Len(m) \in Nat /\ Len(m2) = Len(m) + 1
      /\ m2[Len(m) + 1] = e
  OBVIOUS
<1> HIDE DEF m2
<1>2. ASSUME NEW i \in 1 .. Len(m2), LastFor(m2, o, i)
      PROVE  m2[i] = e
  BY <1>1, <1>2 DEF LastFor
<1> QED  BY <1>1, <1>2 DEF Coming, m2

(* The callback at the head is called, and none of its answers.            *)
LEMMA OtherCalled ==
    ASSUME NEW S, NEW m \in Seq(S), m # <<>>, NEW o, ~IsFor(Head(m), o),
           NEW doc, NEW q, NEW its, NEW k, UpToDate(doc, q, m, its, o, k)
    PROVE  UpToDate(doc, q, Tail(m), its, o, k)
<1> DEFINE t == Tail(m)
<1>1. /\ Len(m) \in Nat /\ Len(t) = Len(m) - 1
      /\ \A i \in 1 .. Len(t) : t[i] = m[i + 1]
      /\ Head(m) = m[1]
  BY HeadTailProperties
<1> HIDE DEF t
<1>2. \A i \in 1 .. Len(t) : i + 1 \in 1 .. Len(m) /\ t[i] = m[i + 1]
  BY <1>1
<1>3. ASSUME NEW i \in 1 .. Len(m), IsFor(m[i], o)
      PROVE  i - 1 \in 1 .. Len(t) /\ t[i - 1] = m[i]
  BY <1>1, <1>3
<1>4. ASSUME NEW i \in 1 .. Len(t), LastFor(t, o, i)
      PROVE  LastFor(m, o, i + 1)
  <2>1. \A j \in i + 2 .. Len(m) : j - 1 \in i + 1 .. Len(t) /\ t[j - 1] = m[j]
    BY <1>1
  <2>2. \A j \in (i + 1) + 1 .. Len(m) : j \in i + 2 .. Len(m)
    BY <1>1
  <2> QED  BY <1>2, <1>4, <2>1, <2>2 DEF LastFor
<1>5. CASE Coming(doc, m, o, k)
  BY <1>2, <1>3, <1>4, <1>5 DEF Coming, UpToDate, t
<1>6. CASE Shows(doc, m, its, o, k)
  BY <1>2, <1>6 DEF Shows, UpToDate, t
<1> QED  BY <1>5, <1>6 DEF UpToDate

(* One of its answers is called: the rows tell what it says.               *)
LEMMA AnswerRead ==
    ASSUME NEW S, NEW m \in Seq(S), m # <<>>, NEW o, IsFor(Head(m), o), Head(m).from = "server",
           NEW doc, NEW q, NEW its, NEW k, UpToDate(doc, q, m, its, o, k),
           NEW its2, Tells(Head(m).docs[k], its2, k)
    PROVE  UpToDate(doc, q, Tail(m), its2, o, k)
<1> DEFINE t == Tail(m)
<1>1. /\ Len(m) \in Nat /\ Len(t) = Len(m) - 1 /\ Len(m) > 0
      /\ \A i \in 1 .. Len(t) : t[i] = m[i + 1]
      /\ Head(m) = m[1]
  BY HeadTailProperties
<1> HIDE DEF t
<1>2. \A i \in 1 .. Len(t) : i + 1 \in 1 .. Len(m) /\ t[i] = m[i + 1]
  BY <1>1
<1>3. ASSUME NEW i \in 1 .. Len(t), LastFor(t, o, i)
      PROVE  LastFor(m, o, i + 1)
  <2>1. \A j \in i + 2 .. Len(m) : j - 1 \in i + 1 .. Len(t) /\ t[j - 1] = m[j]
    BY <1>1
  <2>2. \A j \in (i + 1) + 1 .. Len(m) : j \in i + 2 .. Len(m)
    BY <1>1
  <2> QED  BY <1>2, <1>3, <2>1, <2>2 DEF LastFor
<1>4. ~Shows(doc, m, its, o, k)
  BY <1>1 DEF Shows
<1>5. CASE Coming(doc, m, o, k)
  <2>1. CASE \E i \in 1 .. Len(t) : IsFor(t[i], o)
    <3>1. \A i \in 1 .. Len(t) : LastFor(t, o, i) /\ t[i].from = "server" => t[i].docs[k] = doc
      BY <1>2, <1>3, <1>5 DEF Coming
    <3> QED  BY <2>1, <3>1 DEF Coming, UpToDate, t
  <2>2. CASE \A i \in 1 .. Len(t) : ~IsFor(t[i], o)
    <3>1. \A j \in 1 + 1 .. Len(m) : j - 1 \in 1 .. Len(t) /\ t[j - 1] = m[j]
      BY <1>1
    <3>2. 1 \in 1 .. Len(m) /\ LastFor(m, o, 1)
      BY <1>1, <2>2, <3>1 DEF LastFor
    <3>3. Head(m).docs[k] = doc
      BY <1>1, <1>5, <3>2 DEF Coming
    <3> QED  BY <2>2, <3>3 DEF Shows, UpToDate, t
  <2> QED  BY <2>1, <2>2
<1> QED  BY <1>4, <1>5 DEF UpToDate

--------------------------------------------------------------------------------
(* The list that is shown *)

(* What the list that is shown promises about the documents the phone has  *)
(* not written.                                                            *)
Shown(d) == screen[d] \in {"list", "popup", "detail"}

Current(d, k) ==
    UpToDate(server[k], queries[d], main[d], items[d][view[d]], ListQuery(view[d]), k)

RowsInv(d) ==
    Shown(d) => /\ Unresolved(d) \subseteq stale[d]
                /\ \A k \in Keys \ stale[d] : Current(d, k)

(* What a handler's requests change.                                       *)
LEMMA AskFacts ==
    ASSUME AppInv, NEW d \in Phones, NEW pop \in BOOLEAN, NEW ws \in HandlerWrites \cup {<<>>},
           NEW qs \in Seq(Owners), Ask(d, pop, ws, qs)
    PROVE  /\ server' = server
           /\ main[d] \in Seq(Callback) /\ queries[d] \in Seq(Owners)
           /\ pop => main[d] # <<>>
           /\ main'[d] = IF pop THEN Tail(main[d]) ELSE main[d]
           /\ queries'[d] = queries[d] \o qs
           /\ Unresolved(d)' = Unresolved(d) \cup {ws[i].key : i \in 1 .. Len(ws)}
<1>1. /\ d \in Devices
      /\ pending \in [Devices -> Seq(Write)] /\ main \in [Devices -> Seq(Callback)]
      /\ queries \in [Devices -> Seq(Owners)]
  BY ConstantFacts DEF AppInv, StoreInv, StoreTypeOK, CallbacksInv, CallbacksTypeOK
<1>2. /\ server' = server
      /\ pop => main[d] # <<>>
      /\ main'[d] = IF pop THEN Tail(main[d]) ELSE main[d]
      /\ queries'[d] = queries[d] \o qs
  BY <1>1 DEF Ask
<1>3. Unresolved(d)' = Unresolved(d) \cup {ws[i].key : i \in 1 .. Len(ws)}
  <2>1. CASE ws = <<>>
    <3>1. pending' = pending /\ 1 .. Len(ws) = {}
      BY <2>1 DEF Ask
    <3> QED  BY <3>1 DEF Unresolved
  <2>2. CASE ws # <<>>
    <3> DEFINE old == pending[d]
               new == old \o ws
    <3>1. ws \in Seq(Write) /\ old \in Seq(Write)
      BY <1>1, <2>2, HandlerWritesFacts
    <3>2. pending'[d] = new
      BY <1>1, <2>2 DEF Ask
    <3>3. /\ Len(new) = Len(old) + Len(ws)
          /\ \A i \in 1 .. Len(old) + Len(ws) :
               new[i] = IF i <= Len(old) THEN old[i] ELSE ws[i - Len(old)]
      BY <3>1, ConcatProperties
    <3>4. Len(old) \in Nat /\ Len(ws) \in Nat
      BY <3>1
    <3> HIDE DEF old, new
    <3> DEFINE U == {new[i].key : i \in 1 .. Len(new)}
               V == {old[i].key : i \in 1 .. Len(old)}
               W == {ws[i].key : i \in 1 .. Len(ws)}
    <3>5. ASSUME NEW x \in U PROVE x \in V \cup W
      <4>1. PICK i \in 1 .. Len(new) : x = new[i].key
        OBVIOUS
      <4>2. CASE i <= Len(old)
        BY <3>3, <3>4, <4>1, <4>2
      <4>3. CASE ~(i <= Len(old))
        <5>1. i - Len(old) \in 1 .. Len(ws) /\ new[i] = ws[i - Len(old)]
          BY <3>3, <3>4, <4>3
        <5> QED  BY <4>1, <5>1
      <4> QED  BY <4>2, <4>3
    <3>6. ASSUME NEW x \in V PROVE x \in U
      <4>1. PICK i \in 1 .. Len(old) : x = old[i].key
        OBVIOUS
      <4>2. i \in 1 .. Len(new) /\ new[i] = old[i]
        BY <3>3, <3>4
      <4> QED  BY <4>1, <4>2
    <3>7. ASSUME NEW x \in W PROVE x \in U
      <4>1. PICK i \in 1 .. Len(ws) : x = ws[i].key
        OBVIOUS
      <4>2. Len(old) + i \in 1 .. Len(new) /\ new[Len(old) + i] = ws[i]
        BY <3>3, <3>4
      <4> QED  BY <4>1, <4>2
    <3> HIDE DEF U, V, W
    <3>8. U = V \cup W
      BY <3>5, <3>6, <3>7
    <3> QED  BY <3>2, <3>8 DEF Unresolved, old, U, V, W
  <2> QED  BY <2>1, <2>2
<1> QED  BY <1>1, <1>2, <1>3

(* A handler that leaves the rows of the list alone, notes what it writes, *)
(* and was not called with an answer for the list.                         *)
LEMMA HandlerKeepsRows ==
    ASSUME AppInv, NEW d \in Phones, RowsInv(d), NEW pop \in BOOLEAN,
           NEW ws \in HandlerWrites \cup {<<>>}, NEW qs \in Seq(Owners), Ask(d, pop, ws, qs),
           Shown(d)' => Shown(d), view'[d] = view[d],
           items'[d][view[d]] = items[d][view[d]],
           stale[d] \subseteq stale'[d], \A i \in 1 .. Len(ws) : ws[i].key \in stale'[d],
           pop => ~IsFor(Head(main[d]), ListQuery(view[d]))
    PROVE  RowsInv(d)'
<1> SUFFICES ASSUME Shown(d)' PROVE (Unresolved(d) \subseteq stale[d])'
                                    /\ (\A k \in Keys \ stale[d] : Current(d, k))'
  BY DEF RowsInv
<1>1. Unresolved(d) \subseteq stale[d] /\ \A k \in Keys \ stale[d] : Current(d, k)
  BY DEF RowsInv
<1>2. /\ server' = server
      /\ main[d] \in Seq(Callback) /\ queries[d] \in Seq(Owners)
      /\ pop => main[d] # <<>>
      /\ main'[d] = IF pop THEN Tail(main[d]) ELSE main[d]
      /\ queries'[d] = queries[d] \o qs
      /\ Unresolved(d)' = Unresolved(d) \cup {ws[i].key : i \in 1 .. Len(ws)}
  BY AskFacts
<1>3. (Unresolved(d) \subseteq stale[d])'
  BY <1>1, <1>2
<1>4. ASSUME NEW k \in Keys \ stale'[d]
      PROVE  Current(d, k)'
  <2> DEFINE o == ListQuery(view[d])
             its == items[d][view[d]]
  <2>1. UpToDate(server[k], queries[d], main[d], its, o, k)
    BY <1>1 DEF Current
  <2> HIDE DEF o, its
  <2>2. UpToDate(server[k], queries[d], main'[d], its, o, k)
    <3>1. CASE pop
      <4>1. ~IsFor(Head(main[d]), o) /\ main[d] # <<>> /\ main'[d] = Tail(main[d])
        BY <1>2, <3>1 DEF o
      <4> QED  BY <1>2, <2>1, <4>1, OtherCalled
    <3>2. CASE ~pop
      BY <1>2, <2>1, <3>2
    <3> QED  BY <3>1, <3>2
  <2>3. UpToDate(server[k], queries'[d], main'[d], its, o, k)
    BY <1>2, <2>2, AskedMore DEF UpToDate
  <2> QED  BY <1>2, <2>3 DEF Current, o, its
<1> QED  BY <1>3, <1>4

(* A handler that asks for the collection for the list that is shown.      *)
LEMMA AskingRenewsRows ==
    ASSUME AppInv, NEW d \in Phones, NEW pop \in BOOLEAN, NEW qs \in Seq(Owners),
           Ask(d, pop, <<>>, qs),
           Asked(qs, ListQuery(view'[d])), stale'[d] = Unresolved(d)
    PROVE  RowsInv(d)'
<1>1. /\ queries[d] \in Seq(Owners) /\ queries'[d] = queries[d] \o qs
      /\ Unresolved(d)' = Unresolved(d) \cup {<<>>[i].key : i \in 1 .. Len(<<>>)}
  BY AskFacts
<1>2. 1 .. Len(<<>>) = {}
  OBVIOUS
<1>3. Unresolved(d)' = stale'[d]
  BY <1>1, <1>2
<1>4. Asked(queries'[d], ListQuery(view'[d]))
  BY <1>1, AskedMore
<1> QED  BY <1>3, <1>4 DEF RowsInv, Current, UpToDate

--------------------------------------------------------------------------------

(* What each handler does to the rows *)

LEMMA TypesOf ==
    ASSUME AppInv, NEW d \in Phones
    PROVE  /\ d \in Devices
           /\ view \in [Phones -> 0 .. MaxViews]
           /\ screen \in [Phones -> {"login", "list", "detail", "popup", "trapped"}]
           /\ items \in [Phones -> [Views -> Seq(Item)]]
           /\ stale \in [Phones -> SUBSET Keys]
           /\ Shown(d) => view[d] \in Views
  BY ConstantFacts DEF AppInv, ScreensTypeOK, ScreensMatch, Shown

(* Nothing asked of the client, and no rows changed.                       *)
LEMMA UneventfulRows ==
    ASSUME NEW d, RowsInv(d), Shown(d)' => Shown(d),
           UNCHANGED <<server, pending, queries, main, view, items, stale>>
    PROVE  RowsInv(d)'
  BY DEF RowsInv, Current, Unresolved

LEMMA TapRows ==
    ASSUME AppInv, NEW d \in Phones, RowsInv(d), Tap(d)
    PROVE  RowsInv(d)'
<1>1. /\ view \in [Phones -> 0 .. MaxViews]
      /\ screen \in [Phones -> {"login", "list", "detail", "popup", "trapped"}]
      /\ items \in [Phones -> [Views -> Seq(Item)]]
      /\ stale \in [Phones -> SUBSET Keys]
  BY TypesOf
<1>2. CASE LoginDidTouch(d)
  <2>1. view[d] + 1 \in Views
    BY <1>1, <1>2, ConstantFacts DEF LoginDidTouch, Views
  <2>2. /\ view' = [view EXCEPT ![d] = view[d] + 1]
        /\ stale' = [stale EXCEPT ![d] = Unresolved(d)]
        /\ Ask(d, FALSE, <<>>, <<ListQuery(view[d] + 1)>>)
    BY <1>2 DEF LoginDidTouch
  <2>4. <<ListQuery(view[d] + 1)>> \in Seq(Owners)
    BY <2>1, ListQueryOwner
  <2>5. view'[d] = view[d] + 1 /\ stale'[d] = Unresolved(d)
    BY <1>1, <2>2
  <2>3. Asked(<<ListQuery(view'[d])>>, ListQuery(view'[d]))
    <3>1. \A x : 1 \in 1 .. Len(<<x>>) /\ <<x>>[1] = x
      OBVIOUS
    <3> QED  BY <3>1 DEF Asked
  <2> QED  BY <2>2, <2>3, <2>4, <2>5, AskingRenewsRows
<1>3. ASSUME NEW p \in Prices, NEW t \in Dates, ModifyPressed(d, p, t)
      PROVE  RowsInv(d)'
  <2>1. screen'[d] = "login"
    BY <1>1, <1>3 DEF ModifyPressed
  <2> QED  BY <2>1 DEF RowsInv, Shown
<1>4. ASSUME NEW r \in Rows, SwipeDelete(d, r)
      PROVE  RowsInv(d)'
  <2>1. view[d] \in Views /\ r \in 1 .. Len(items[d][view[d]])
    BY <1>4 DEF SwipeDelete, AppInv, ScreensMatch
  <2>2. items[d][view[d]][r] \in Item
    BY <1>1, <2>1
  <2>3. PICK k \in Keys, cb \in Completions :
          k = items[d][view[d]][r].key /\ cb = DeleteDone(view[d], r)
    BY <2>1, <2>2, DeleteDoneCompletion DEF Item
  <2>4. /\ Ask(d, FALSE, <<Delete(k, cb)>>, <<>>)
        /\ stale' = [stale EXCEPT ![d] = stale[d] \cup {k}]
        /\ UNCHANGED <<screen, view, items>>
    BY <1>4, <2>3 DEF SwipeDelete
  <2>5. <<Delete(k, cb)>> \in HandlerWrites /\ <<>> \in Seq(Owners)
    BY DEF HandlerWrites
  <2>6. \A i \in 1 .. Len(<<Delete(k, cb)>>) : <<Delete(k, cb)>>[i].key = k
    BY DEF Delete
  <2>7. stale'[d] = stale[d] \cup {k} /\ (Shown(d)' => Shown(d))
    BY <1>1, <2>4 DEF Shown
  <2> QED  BY <2>4, <2>5, <2>6, <2>7, HandlerKeepsRows
<1>5. CASE \/ \E r \in Rows : DidSelectRow(d, r)
           \/ CancelPressed(d) \/ BackPressed(d)
           \/ AddButtonDidTouch(d) \/ CancelBtnPressed(d)
           \/ \E p \in Prices : UpdateBtnPressed(d, p)
  <2>1. UNCHANGED <<marketVars, view, items, stale>>
    BY <1>5 DEF DidSelectRow, CancelPressed, BackPressed, AddButtonDidTouch, CancelBtnPressed,
                UpdateBtnPressed, NoRequest
  <2>2. Shown(d)' => Shown(d)
    BY <1>1, <1>5 DEF DidSelectRow, CancelPressed, BackPressed, AddButtonDidTouch, CancelBtnPressed,
                UpdateBtnPressed, Shown
  <2> QED  BY <2>1, <2>2, UneventfulRows DEF marketVars, storeVars
<1> QED  BY <1>2, <1>3, <1>4, <1>5 DEF Tap

LEMMA UploadRows ==
    ASSUME AppInv, NEW d \in Phones, RowsInv(d), UploadStep(d)
    PROVE  RowsInv(d)'
<1>1. /\ screen \in [Phones -> {"login", "list", "detail", "popup", "trapped"}]
      /\ stale \in [Phones -> SUBSET Keys]
  BY TypesOf
<1>2. ASSUME NEW i \in 1 .. MaxUploads, NEW k \in Keys, NEW t \in Dates,
             DownloadURLSucceeds(d, i, k, t)
      PROVE  RowsInv(d)'
  <2>1. uploads[d] \in Seq(Upload) /\ i \in 1 .. Len(uploads[d])
    BY <1>2 DEF DownloadURLSucceeds, Uploading, AppInv, ScreensTypeOK
  <2>2. uploads[d][i] \in Upload
    BY <2>1
  <2>3. PICK p \in Prices, cb \in Completions :
          p = uploads[d][i].price /\ cb = SaveDone(uploads[d][i].popup)
    BY <2>2, SaveDoneCompletion DEF Upload
  <2>4. /\ Ask(d, FALSE, <<SetData(k, p, t, cb)>>, <<>>)
        /\ k \in Keys \ used
        /\ stale' = [stale EXCEPT ![d] = stale[d] \cup {k}]
        /\ UNCHANGED <<screen, view, items>>
    BY <1>2, <2>3 DEF DownloadURLSucceeds
  <2>5. <<SetData(k, p, t, cb)>> \in HandlerWrites /\ <<>> \in Seq(Owners)
    BY <2>4 DEF HandlerWrites
  <2>6. \A j \in 1 .. Len(<<SetData(k, p, t, cb)>>) : <<SetData(k, p, t, cb)>>[j].key = k
    BY DEF SetData
  <2>7. stale'[d] = stale[d] \cup {k} /\ (Shown(d)' => Shown(d))
    BY <1>1, <2>4 DEF Shown
  <2> QED  BY <2>4, <2>5, <2>6, <2>7, HandlerKeepsRows
<1>3. CASE \E i \in 1 .. MaxUploads :
             PutDataSucceeds(d, i) \/ PutDataFails(d, i) \/ DownloadURLFails(d, i)
  <2>1. UNCHANGED <<marketVars, view, items, stale>>
    BY <1>3 DEF PutDataSucceeds, PutDataFails, DownloadURLFails, NoRequest
  <2>2. Shown(d)' => Shown(d)
    BY <1>1, <1>3 DEF PutDataSucceeds, PutDataFails, DownloadURLFails, Shown
  <2> QED  BY <2>1, <2>2, UneventfulRows DEF marketVars, storeVars
<1> QED  BY <1>2, <1>3 DEF UploadStep

(* New rows of one list.                                                   *)
LEMMA SetItemsRows ==
    ASSUME AppInv, NEW d \in Phones, NEW v \in Views, NEW its, SetItems(d, v, its)
    PROVE  /\ Shown(d)' => Shown(d)
           /\ items'[d][v] = its
           /\ \A u \in Views \ {v} : items'[d][u] = items[d][u]
<1>1. /\ screen \in [Phones -> {"login", "list", "detail", "popup", "trapped"}]
      /\ items \in [Phones -> [Views -> Seq(Item)]]
  BY TypesOf
<1>2. items' = [items EXCEPT ![d] = [items[d] EXCEPT ![v] = its]]
  BY <1>1 DEF SetItems
<1>3. UNCHANGED screen \/ \E s \in {screen[d], "trapped"} : screen' = [screen EXCEPT ![d] = s]
  BY DEF SetItems, Drawing
<1> QED  BY <1>1, <1>2, <1>3 DEF Shown

LEMMA ListAnsweredRows ==
    ASSUME AppInv, NEW d \in Phones, RowsInv(d), ListAnswered(d)
    PROVE  RowsInv(d)'
<1> DEFINE answer == Head(main[d])
           v == answer.owner.view
<1>1. /\ view \in [Phones -> 0 .. MaxViews]
      /\ screen \in [Phones -> {"login", "list", "detail", "popup", "trapped"}]
      /\ items \in [Phones -> [Views -> Seq(Item)]]
      /\ stale \in [Phones -> SUBSET Keys]
      /\ Shown(d) => view[d] \in Views
  BY TypesOf
<1>2. /\ answer.owner \in Owners /\ answer.owner.kind = "list" /\ answer.kind = "answer"
      /\ answer.docs \in Contents /\ \A k \in Keys : HasHistory(answer.docs[k])
  BY AnswerCalled DEF ListAnswered, Called
<1>3. v \in Views /\ answer.owner = ListQuery(v)
  BY <1>2, ListOwner
<1>4. /\ Ask(d, TRUE, <<>>, <<>>) /\ UNCHANGED view
      /\ stale' = [stale EXCEPT ![d] =
                     IF answer.from # "server" /\ OnTop(d, v) THEN Keys ELSE stale[d]]
  BY DEF ListAnswered
<1>5. answer.from = "error" => UNCHANGED <<screen, items>>
  BY DEF ListAnswered
<1>6. ASSUME answer.from # "error"
      PROVE  \E ks \in Documents(answer.docs) : SetItems(d, v, ListItems(answer.docs, ks))
  BY <1>6 DEF ListAnswered
<1>7. <<>> \in Seq(Owners) /\ 1 .. Len(<<>>) = {}
  OBVIOUS
<1>8. /\ server' = server
      /\ main[d] \in Seq(Callback) /\ main[d] # <<>> /\ main'[d] = Tail(main[d])
      /\ queries[d] \in Seq(Owners) /\ queries'[d] = queries[d] \o <<>>
      /\ Unresolved(d)' = Unresolved(d)
  <2>1. {<<>>[i].key : i \in 1 .. Len(<<>>)} = {}
    BY <1>7
  <2>2. /\ server' = server
        /\ main[d] \in Seq(Callback) /\ queries[d] \in Seq(Owners)
        /\ TRUE => main[d] # <<>>
        /\ main'[d] = IF TRUE THEN Tail(main[d]) ELSE main[d]
        /\ queries'[d] = queries[d] \o <<>>
        /\ Unresolved(d)' = Unresolved(d) \cup {<<>>[i].key : i \in 1 .. Len(<<>>)}
    BY <1>4, <1>7, AskFacts
  <2>3. Unresolved(d)' = Unresolved(d)
    BY <2>1, <2>2
  <2> QED  BY <2>2, <2>3
<1>9. queries'[d] = queries[d]
  BY <1>8, ConcatEmptySeq
<1>10. /\ Shown(d)' => Shown(d)
       /\ \A u \in Views \ {v} : items'[d][u] = items[d][u]
  <2>1. CASE answer.from = "error"
    BY <1>5, <2>1 DEF Shown
  <2>2. CASE answer.from # "error"
    BY <1>3, <1>6, <2>2, SetItemsRows
  <2> QED  BY <2>1, <2>2
<1> SUFFICES ASSUME Shown(d)' PROVE RowsInv(d)'
  BY DEF RowsInv
<1>11. Shown(d) /\ view[d] \in Views /\ view'[d] = view[d]
  BY <1>1, <1>4, <1>10
<1>12. OnTop(d, v) <=> view[d] = v
  BY <1>11 DEF OnTop, Shown
<1> HIDE DEF answer, v
<1>13. CASE view[d] # v
  <2>1. ~IsFor(Head(main[d]), ListQuery(view[d]))
    BY <1>3, <1>13 DEF IsFor, ListQuery, answer
  <2>2. items'[d][view[d]] = items[d][view[d]] /\ stale'[d] = stale[d]
    BY <1>1, <1>4, <1>10, <1>11, <1>12, <1>13
  <2> QED  BY <1>4, <1>7, <1>10, <1>11, <2>1, <2>2, HandlerKeepsRows
<1>14. CASE view[d] = v /\ answer.from # "server"
  <2>1. stale'[d] = Keys
    BY <1>1, <1>4, <1>12, <1>14
  <2>2. Unresolved(d)' \subseteq stale'[d]
    BY <1>8, <2>1, UnresolvedKeys
  <2> QED  BY <2>1, <2>2 DEF RowsInv
<1>15. CASE view[d] = v /\ answer.from = "server"
  <2>1. stale'[d] = stale[d]
    BY <1>1, <1>4, <1>15
  <2>2. PICK ks \in Documents(answer.docs) : SetItems(d, v, ListItems(answer.docs, ks))
    BY <1>6, <1>15
  <2>3. items'[d][view'[d]] = ListItems(answer.docs, ks)
    BY <1>3, <1>11, <1>15, <2>2, SetItemsRows
  <2>4. Unresolved(d)' \subseteq stale'[d]
    BY <1>8, <1>11, <2>1 DEF RowsInv
  <2>5. ASSUME NEW k \in Keys \ stale'[d]
        PROVE  Current(d, k)'
    <3> DEFINE o == ListQuery(view[d])
    <3>1. UpToDate(server[k], queries[d], main[d], items[d][view[d]], o, k)
      BY <1>11, <2>1, <2>5 DEF RowsInv, Current
    <3>2. Tells(answer.docs[k], ListItems(answer.docs, ks), k)
      BY <1>2, <2>5, ListItemsTell
    <3>3. IsFor(answer, o)
      BY <1>2, <1>3, <1>15 DEF IsFor
    <3> HIDE DEF o
    <3>4. UpToDate(server[k], queries[d], Tail(main[d]), ListItems(answer.docs, ks), o, k)
      BY <1>8, <1>15, <3>1, <3>2, <3>3, AnswerRead DEF answer
    <3> QED  BY <1>8, <1>9, <1>11, <2>3, <3>4 DEF Current, o
  <2> QED  BY <2>4, <2>5 DEF RowsInv
<1> QED  BY <1>13, <1>14, <1>15

LEMMA ModifyAnsweredRows ==
    ASSUME AppInv, NEW d \in Phones, RowsInv(d), ModifyAnswered(d)
    PROVE  RowsInv(d)'
<1> DEFINE answer == Head(main[d])
           o == answer.owner
<1>1. /\ screen \in [Phones -> {"login", "list", "detail", "popup", "trapped"}]
      /\ stale \in [Phones -> SUBSET Keys]
  BY TypesOf
<1>2. /\ o \in Owners /\ o.kind = "modify"
      /\ UNCHANGED <<view, items>>
  BY AnswerCalled DEF ModifyAnswered
<1>3. o.row \in Nat /\ o.row >= 1 /\ o.price \in Prices /\ o.date \in Dates
  BY <1>2, ModifyOwner DEF Rows
<1>4. ~IsFor(Head(main[d]), ListQuery(view[d]))
  BY <1>2 DEF IsFor, ListQuery
<1>5. <<>> \in Seq(Owners) /\ 1 .. Len(<<>>) = {}
  OBVIOUS
<1>6. CASE /\ Ask(d, TRUE, <<>>, <<>>) /\ UNCHANGED stale
           /\ UNCHANGED screen \/ screen' = [screen EXCEPT ![d] = "trapped"]
  <2>1. Shown(d)' => Shown(d)
    BY <1>1, <1>6 DEF Shown
  <2> QED  BY <1>2, <1>4, <1>5, <1>6, <2>1, HandlerKeepsRows
<1>7. ASSUME NEW returnItem \in Documents(answer.docs),
             o.row <= Len(returnItem),
             Ask(d, TRUE, EntryWrites(returnItem[o.row], o.price, o.date), <<>>),
             stale' = [stale EXCEPT ![d] = stale[d] \cup {returnItem[o.row]}],
             UNCHANGED screen
      PROVE  RowsInv(d)'
  <2>1. returnItem \in Seq(Keys)
    BY DocumentsFacts
  <2>2. returnItem[o.row] \in Keys
    BY <1>3, <1>7, <2>1
  <2>3. PICK k \in Keys, p \in Prices, t \in Dates :
          k = returnItem[o.row] /\ p = o.price /\ t = o.date
    BY <1>3, <2>2
  <2>4. EntryWrites(k, p, t) \in HandlerWrites
    BY DEF EntryWrites, HandlerWrites
  <2>5. \A i \in 1 .. Len(EntryWrites(k, p, t)) : EntryWrites(k, p, t)[i].key = k
    <3>1. \A x, y : Len(<<x, y>>) = 2 /\ <<x, y>>[1] = x /\ <<x, y>>[2] = y
      OBVIOUS
    <3>2. \A i \in 1 .. 2 : i = 1 \/ i = 2
      OBVIOUS
    <3>3. UpdatePrice(k, p).key = k /\ UpdateDate(k, t).key = k
      BY DEF UpdatePrice, UpdateDate
    <3> QED  BY <3>1, <3>2, <3>3 DEF EntryWrites
  <2>6. stale'[d] = stale[d] \cup {k}
    BY <1>1, <1>7, <2>3
  <2>7. Shown(d)' => Shown(d)
    BY <1>7 DEF Shown
  <2>8. Ask(d, TRUE, EntryWrites(k, p, t), <<>>)
    BY <1>7, <2>3
  <2> QED  BY <1>2, <1>4, <1>5, <2>4, <2>5, <2>6, <2>7, <2>8, HandlerKeepsRows
<1> QED  BY <1>6, <1>7 DEF ModifyAnswered

LEMMA DeleteCompletedRows ==
    ASSUME AppInv, NEW d \in Phones, RowsInv(d), DeleteCompleted(d)
    PROVE  RowsInv(d)'
<1> DEFINE cb == Head(main[d]).cb
           its == items[d][cb.view]
<1>1. /\ view \in [Phones -> 0 .. MaxViews]
      /\ screen \in [Phones -> {"login", "list", "detail", "popup", "trapped"}]
      /\ stale \in [Phones -> SUBSET Keys]
      /\ Shown(d) => view[d] \in Views
  BY TypesOf
<1>2. cb.view \in Views /\ Head(main[d]).kind = "done" /\ UNCHANGED view
  BY DoneCalled, DeletedCompletion DEF DeleteCompleted, Called
<1>3. ~IsFor(Head(main[d]), ListQuery(view[d]))
  BY <1>2 DEF IsFor
<1>4. 1 .. Len(<<>>) = {}
  OBVIOUS
<1>5. CASE cb.row > Len(its)
  <2>1. screen'[d] = "trapped"
    BY <1>1, <1>5 DEF DeleteCompleted
  <2> QED  BY <2>1 DEF RowsInv, Shown
<1>6. CASE ~(cb.row > Len(its))
  <2> DEFINE qs == <<ListQuery(cb.view)>>
  <2>1. /\ SetItems(d, cb.view, RemoveAt(its, cb.row))
        /\ Ask(d, TRUE, <<>>, qs)
        /\ stale' = [stale EXCEPT ![d] = IF OnTop(d, cb.view) THEN Unresolved(d) ELSE stale[d]]
    BY <1>6 DEF DeleteCompleted
  <2>2. qs \in Seq(Owners) /\ 1 \in 1 .. Len(qs) /\ qs[1] = ListQuery(cb.view)
    BY <1>2, ListQueryOwner
  <2>3. CASE OnTop(d, cb.view)
    <3>1. view'[d] = cb.view /\ stale'[d] = Unresolved(d)
      BY <1>1, <1>2, <2>1, <2>3 DEF OnTop
    <3>2. Asked(qs, ListQuery(view'[d]))
      BY <2>2, <3>1 DEF Asked
    <3> QED  BY <2>1, <2>2, <3>1, <3>2, AskingRenewsRows
  <2>4. CASE ~OnTop(d, cb.view)
    <3>1. /\ Shown(d)' => Shown(d)
          /\ \A u \in Views \ {cb.view} : items'[d][u] = items[d][u]
      BY <1>2, <2>1, SetItemsRows
    <3>2. stale'[d] = stale[d] /\ view'[d] = view[d]
      BY <1>1, <1>2, <2>1, <2>4
    <3>3. Shown(d) => items'[d][view[d]] = items[d][view[d]]
      BY <1>1, <2>4, <3>1 DEF OnTop, Shown
    <3>4. CASE Shown(d)
      BY <1>3, <1>4, <2>1, <2>2, <3>1, <3>2, <3>3, <3>4, HandlerKeepsRows
    <3>5. CASE ~Shown(d)
      BY <3>1, <3>5 DEF RowsInv
    <3> QED  BY <3>4, <3>5
  <2> QED  BY <2>3, <2>4
<1> QED  BY <1>5, <1>6

LEMMA SaveCompletedRows ==
    ASSUME AppInv, NEW d \in Phones, RowsInv(d), SaveCompleted(d)
    PROVE  RowsInv(d)'
<1>1. screen \in [Phones -> {"login", "list", "detail", "popup", "trapped"}]
  BY TypesOf
<1>2. /\ UNCHANGED <<view, items, stale>>
      /\ Ask(d, TRUE, <<>>, <<>>)
      /\ Head(main[d]).kind = "done"
  BY DEF SaveCompleted, Called
<1>3. ~IsFor(Head(main[d]), ListQuery(view[d]))
  BY <1>2 DEF IsFor
<1>4. Shown(d)' => Shown(d)
  BY <1>1 DEF SaveCompleted, Shown
<1>5. <<>> \in Seq(Owners) /\ 1 .. Len(<<>>) = {}
  OBVIOUS
<1> QED  BY <1>2, <1>3, <1>4, <1>5, HandlerKeepsRows

LEMMA NewDataNotiRows ==
    ASSUME AppInv, NEW d \in Phones, RowsInv(d), NewDataNoti(d)
    PROVE  RowsInv(d)'
<1> DEFINE living == {v \in Views : Alive(d, v)}
<1>1. /\ stale \in [Phones -> SUBSET Keys]
      /\ Shown(d) => view[d] \in Views
  BY TypesOf
<1>2. /\ \E vs \in SetToSeqs(living) :
           Ask(d, FALSE, <<>>, [i \in 1 .. Len(vs) |-> ListQuery(vs[i])])
      /\ stale' = [stale EXCEPT ![d] = IF view[d] \in living THEN Unresolved(d) ELSE stale[d]]
      /\ UNCHANGED <<screen, view>>
  BY DEF NewDataNoti
<1> SUFFICES ASSUME Shown(d)' PROVE RowsInv(d)'
  BY DEF RowsInv
<1>3. Shown(d) /\ view[d] \in living
  <2>1. Shown(d) /\ view[d] \in Views
    BY <1>1, <1>2 DEF Shown
  <2>2. OnTop(d, view[d])
    BY <2>1 DEF OnTop, Shown
  <2> QED  BY <2>1, <2>2 DEF Alive
<1>4. IsFiniteSet(living) /\ living \subseteq Views
  <2>1. IsFiniteSet(Views)
    BY ConstantFacts, FS_Interval DEF Views
  <2> QED  BY <2>1, FS_Subset
<1> HIDE DEF living
<1>5. PICK vs \in SetToSeqs(living) : Ask(d, FALSE, <<>>, [i \in 1 .. Len(vs) |-> ListQuery(vs[i])])
  BY <1>2
<1>6. vs \in Seq(living) /\ \E i \in 1 .. Len(vs) : vs[i] = view[d]
  BY <1>3, <1>4, SequenceOfSet
<1> DEFINE qs == [i \in 1 .. Len(vs) |-> ListQuery(vs[i])]
<1>7. qs \in Seq(Owners) /\ Len(qs) = Len(vs)
  <2>1. \A i \in 1 .. Len(vs) : ListQuery(vs[i]) \in Owners
    BY <1>4, <1>6, ListQueryOwner
  <2>2. qs \in [1 .. Len(vs) -> Owners] /\ Len(vs) \in Nat
    BY <1>6, <2>1
  <2> QED  BY <2>2
<1>8. Asked(qs, ListQuery(view[d]))
  BY <1>6, <1>7 DEF Asked
<1> HIDE DEF qs
<1>9. Ask(d, FALSE, <<>>, qs)
  BY <1>5 DEF qs
<1>10. view'[d] = view[d] /\ stale'[d] = Unresolved(d)
  BY <1>1, <1>2, <1>3
<1> QED  BY <1>7, <1>8, <1>9, <1>10, AskingRenewsRows

LEMMA RelaunchRows ==
    ASSUME AppInv, NEW d \in Phones, Relaunch(d)
    PROVE  RowsInv(d)'
<1>1. screen'[d] = "login"
  BY TypesOf DEF Relaunch
<1> QED  BY <1>1 DEF RowsInv, Shown

--------------------------------------------------------------------------------
(* What the client does meanwhile *)

(* The answer to a query, if it comes from the server, is right about the  *)
(* documents the phone has not written.                                    *)
LEMMA AnswerIsRight ==
    ASSUME StoreInv, CallbacksInv, NEW d \in Devices, CacheInv(d), NoLossWithRefusal, Answer(d)
    PROVE  /\ queries[d] # <<>> /\ queries'[d] = Tail(queries[d])
           /\ \E e \in Callback :
                /\ main'[d] = Append(main[d], e)
                /\ e.kind = "answer" /\ e.owner = Head(queries[d])
                /\ \A k \in Keys \ Unresolved(d) : e.from = "server" => e.docs[k] = server[k]
<1>1. /\ server \in Contents /\ cache[d] \in Contents /\ pending[d] \in Seq(Write)
      /\ queries \in [Devices -> Seq(Owners)] /\ main \in [Devices -> Seq(Callback)]
  BY DEF StoreInv, StoreTypeOK, CallbacksInv, CallbacksTypeOK
<1>2. queries[d] # <<>> /\ queries'[d] = Tail(queries[d])
  BY <1>1 DEF Answer
<1>3. PICK from \in {"server", "cache", "error"}, learnt \in {server, cache[d]} :
        /\ AnswerWith(d, from, learnt)
        /\ from = "server" => learnt = server \/ ViewIsLive(d)
  BY DEF Answer
<1>4. \A k \in Keys \ Unresolved(d) : \A i \in 1 .. Len(pending[d]) : pending[d][i].key # k
  BY DEF Unresolved
<1>5. ASSUME NEW k \in Keys \ Unresolved(d), from = "server"
      PROVE  LocalView(learnt, pending[d])[k] = server[k]
  <2>1. LocalView(learnt, pending[d])[k] = learnt[k]
    BY <1>1, <1>4, LocalViewElsewhere
  <2>2. learnt[k] = server[k]
    BY <1>3, <1>4, <1>5, LiveViewAgrees
  <2> QED  BY <2>1, <2>2
<1>6. \A k \in Keys : HasHistory(server[k]) /\ HasHistory(cache[d][k])
  BY DEF StoreInv, DocsHaveHistory
<1>7. LocalView(learnt, pending[d]) \in Contents
  <2>1. \A i \in 1 .. Len(pending[d]) : SetCarriesHistory(pending[d][i])
    BY DEF StoreInv, QueuedSets
  <2> QED  BY <1>1, <1>6, <2>1, LocalViewFacts
<1> DEFINE e == [kind |-> "answer", owner |-> Head(queries[d]), from |-> from,
                 docs |-> LocalView(learnt, pending[d])]
<1>8. e \in Callback
  <2>1. Head(queries[d]) \in Owners
    BY <1>1, <1>2
  <2> QED  BY <1>7, <2>1 DEF Callback
<1>9. main'[d] = Append(main[d], e)
  BY <1>1, <1>3 DEF AnswerWith
<1> QED  BY <1>2, <1>5, <1>8, <1>9

LEMMA ClientStepRows ==
    ASSUME AppInv, NEW d \in Phones, RowsInv(d), CacheInv(d), NoLossWithRefusal,
           ClientStep(d), UNCHANGED uiVars
    PROVE  RowsInv(d)'
<1>1. /\ StoreInv /\ CallbacksInv /\ d \in Devices
      /\ pending \in [Devices -> Seq(Write)] /\ main \in [Devices -> Seq(Callback)]
      /\ queries \in [Devices -> Seq(Owners)] /\ server \in Contents
      /\ replies[d] \in Seq({"ok", "known", "error"})
  BY ConstantFacts DEF AppInv, StoreInv, StoreTypeOK, CallbacksInv, CallbacksTypeOK
<1>2. UNCHANGED <<screen, view, items, stale>>
  BY DEF uiVars
<1> SUFFICES ASSUME Shown(d)' PROVE RowsInv(d)'
  BY DEF RowsInv
<1>3. /\ Unresolved(d) \subseteq stale[d]
      /\ \A k \in Keys \ stale[d] : Current(d, k)
  BY <1>2 DEF RowsInv, Shown
<1>4. ASSUME Unresolved(d)' \subseteq Unresolved(d), \A k \in Keys \ stale[d] : Current(d, k)'
      PROVE  RowsInv(d)'
  BY <1>2, <1>3, <1>4 DEF RowsInv
<1>5. CASE Land(d)
  <2>1. UNCHANGED <<pending, queries, main>>
    BY <1>5 DEF Land
  <2>2. ASSUME NEW k \in Keys \ stale[d]
        PROVE  server'[k] = server[k]
    <3> DEFINE n == Position(d)
               w == pending[d][n]
    <3>1. n \in 1 .. Len(pending[d])
      BY <1>1, <1>5 DEF Land, MaySend, Position
    <3>2. w.key \in Unresolved(d)
      BY <3>1 DEF Unresolved
    <3>3. w.key # k /\ (server' = server \/ server' = ApplyTo(server, w))
      BY <1>3, <1>5, <3>2 DEF Land
    <3> QED  BY <1>1, <3>3 DEF ApplyTo, Contents
  <2> QED  BY <1>2, <1>3, <1>4, <2>1, <2>2 DEF Unresolved, Current
<1>6. CASE Refuse(d) \/ LoseReply(d) \/ GoOffline(d) \/ GoOnline(d)
  <2>1. UNCHANGED <<server, pending, queries, main>>
    BY <1>6 DEF Refuse, LoseReply, GoOffline, GoOnline, storeVars
  <2> QED  BY <1>2, <1>3, <1>4, <2>1 DEF Unresolved, Current
<1>7. CASE Resolve(d)
  <2>1. UNCHANGED <<server, queries>> /\ pending'[d] = Tail(pending[d])
    BY <1>1, <1>7 DEF Resolve
  <2>2. pending[d] # <<>>
    <3>1. Len(replies[d]) <= Len(pending[d]) /\ replies[d] # <<>>
      BY <1>1, <1>7, StoreOf DEF Resolve
    <3> QED  BY <1>1, <3>1
  <2>3. Unresolved(d)' \subseteq Unresolved(d)
    <3>1. /\ Len(Tail(pending[d])) = Len(pending[d]) - 1 /\ Len(pending[d]) \in Nat
          /\ \A i \in 1 .. Len(Tail(pending[d])) : Tail(pending[d])[i] = pending[d][i + 1]
      BY <1>1, <2>2, HeadTailProperties
    <3>2. \A i \in 1 .. Len(pending'[d]) :
            i + 1 \in 1 .. Len(pending[d]) /\ pending'[d][i] = pending[d][i + 1]
      BY <2>1, <3>1
    <3> QED  BY <3>2 DEF Unresolved
  <2>4. \/ main'[d] = main[d]
        \/ \E e \in Callback : e.kind = "done" /\ main'[d] = Append(main[d], e)
    <3> DEFINE done == [kind |-> "done", cb |-> Head(pending[d]).cb,
                        ok |-> Head(replies[d]) # "error"]
    <3>1. main' = main \/ (/\ Head(pending[d]).cb # NoCompletion
                           /\ main' = [main EXCEPT ![d] = Append(main[d], done)])
      BY <1>7 DEF Resolve
    <3>2. Head(pending[d]).cb # NoCompletion => done \in Callback
      <4>1. Head(pending[d]) \in Write
        BY <1>1, <2>2
      <4> QED  BY <4>1 DEF Write, Callback
    <3>3. done.kind = "done"
      OBVIOUS
    <3> HIDE DEF done
    <3> QED  BY <1>1, <3>1, <3>2, <3>3
  <2>5. ASSUME NEW k \in Keys \ stale[d]
        PROVE  Current(d, k)'
    <3>1. Current(d, k)
      BY <1>3
    <3>2. CASE main'[d] = main[d]
      BY <1>2, <2>1, <3>1, <3>2 DEF Current
    <3>3. ASSUME NEW e \in Callback, e.kind = "done", main'[d] = Append(main[d], e)
          PROVE  Current(d, k)'
      <4> DEFINE o == ListQuery(view[d])
                 its == items[d][view[d]]
      <4>1. UpToDate(server[k], queries[d], main[d], its, o, k) /\ ~IsFor(e, o)
        BY <3>1, <3>3 DEF Current, IsFor
      <4> HIDE DEF o, its
      <4>2. UpToDate(server[k], queries[d], Append(main[d], e), its, o, k)
        BY <1>1, <4>1, OtherPosted
      <4> QED  BY <1>2, <2>1, <3>3, <4>2 DEF Current, o, its
    <3> QED  BY <2>4, <3>2, <3>3
  <2> QED  BY <1>4, <2>3, <2>5
<1>8. CASE Answer(d)
  <2>1. UNCHANGED <<server, pending>>
    BY <1>8 DEF Answer
  <2>2. /\ queries[d] # <<>> /\ queries'[d] = Tail(queries[d])
        /\ \E e \in Callback :
             /\ main'[d] = Append(main[d], e)
             /\ e.kind = "answer" /\ e.owner = Head(queries[d])
             /\ \A k \in Keys \ Unresolved(d) : e.from = "server" => e.docs[k] = server[k]
    BY <1>1, <1>8, AnswerIsRight
  <2>3. PICK e \in Callback :
          /\ main'[d] = Append(main[d], e)
          /\ e.kind = "answer" /\ e.owner = Head(queries[d])
          /\ \A k \in Keys \ Unresolved(d) : e.from = "server" => e.docs[k] = server[k]
    BY <2>2
  <2>4. ASSUME NEW k \in Keys \ stale[d]
        PROVE  Current(d, k)'
    <3> DEFINE o == ListQuery(view[d])
               its == items[d][view[d]]
               q == queries[d]
    <3>1. UpToDate(server[k], q, main[d], its, o, k)
      BY <1>3 DEF Current
    <3>2. e.from = "server" => e.docs[k] = server[k]
      BY <1>3, <2>3
    <3>3. q \in Seq(Owners) /\ q # <<>> /\ queries'[d] = Tail(q) /\ e.owner = Head(q)
      BY <1>1, <2>2, <2>3
    <3> HIDE DEF o, its, q
    <3>4. UpToDate(server[k], Tail(q), Append(main[d], e), its, o, k)
      <4>1. CASE IsFor(e, o)
        <5>1. Coming(server[k], Append(main[d], e), o, k)
          BY <1>1, <3>2, <4>1, AnswerPosted
        <5> QED  BY <5>1 DEF UpToDate
      <4>2. CASE ~IsFor(e, o)
        <5>1. UpToDate(server[k], q, Append(main[d], e), its, o, k)
          BY <1>1, <3>1, <4>2, OtherPosted
        <5>2. Asked(q, o) => Asked(Tail(q), o)
          <6>1. Head(q) # o
            BY <2>3, <3>3, <4>2 DEF IsFor
          <6>2. /\ Len(q) \in Nat /\ Len(Tail(q)) = Len(q) - 1 /\ Head(q) = q[1]
                /\ \A i \in 1 .. Len(Tail(q)) : Tail(q)[i] = q[i + 1]
            BY <3>3, HeadTailProperties
          <6>3. ASSUME NEW i \in 1 .. Len(q), q[i] = o
                PROVE  i - 1 \in 1 .. Len(Tail(q)) /\ Tail(q)[i - 1] = o
            BY <6>1, <6>2, <6>3
          <6> QED  BY <6>3 DEF Asked
        <5> QED  BY <5>1, <5>2 DEF UpToDate
      <4> QED  BY <4>1, <4>2
    <3> QED  BY <1>2, <2>1, <2>3, <3>3, <3>4 DEF Current, o, its
  <2> QED  BY <1>4, <2>1, <2>4 DEF Unresolved
<1> QED  BY <1>5, <1>6, <1>7, <1>8 DEF ClientStep

--------------------------------------------------------------------------------
(* The only phone's rows and cache *)

(* The inductive invariant.                                                *)
PhoneInv == \A d \in Phones : Devices = {d} => CacheInv(d) /\ (NoLossWithRefusal => RowsInv(d))

LEMMA InitPhoneInv == Init => PhoneInv
<1> SUFFICES ASSUME Init, NEW d \in Phones, Devices = {d}
             PROVE  CacheInv(d) /\ (NoLossWithRefusal => RowsInv(d))
  BY DEF PhoneInv
<1>1. CacheInv(d)
  BY InitCacheInv DEF Init
<1>2. screen[d] = "login"
  BY DEF Init
<1> QED  BY <1>1, <1>2 DEF RowsInv, Shown

(* Faults are only counted up.                                             *)
LEMMA NoFewerFaults ==
    ASSUME CallbacksInv, [MarketStep]_marketVars
    PROVE  NoLossWithRefusal' => NoLossWithRefusal
<1>1. faults \in Nat
  <2>1. MaxFaults \in Nat
    BY MarketAssumption DEF MarketAssumption
  <2> QED  BY <2>1 DEF CallbacksInv, CallbacksTypeOK
<1>2. (\E kind : Fault(kind)) \/ UNCHANGED faults
  BY DEF MarketStep, AppStep, Ask, ClientStep, Land, Refuse, Resolve, LoseReply, Answer, GoOffline,
         GoOnline, Kill, ProcessEnds, marketVars
<1> QED  BY <1>1, <1>2, FaultsCounted

LEMMA NextPhoneInv ==
    ASSUME AppInv, PhoneInv, [Next]_vars
    PROVE  PhoneInv'
<1> SUFFICES ASSUME NEW d \in Phones, Devices = {d}
             PROVE  CacheInv(d)' /\ (NoLossWithRefusal' => RowsInv(d)')
  BY DEF PhoneInv
<1>1. /\ CacheInv(d) /\ (NoLossWithRefusal => RowsInv(d))
      /\ StoreInv /\ CallbacksInv /\ [MarketStep]_marketVars
  BY NextIsMarketStep DEF AppInv, PhoneInv
<1>2. CacheInv(d)'
  BY <1>1, MarketStepCacheInv
<1> SUFFICES ASSUME NoLossWithRefusal' PROVE RowsInv(d)'
  BY <1>2
<1>3. NoLossWithRefusal /\ RowsInv(d)
  BY <1>1, NoFewerFaults
<1>4. Phones \subseteq {d} /\ \A x \in Devices : x = d
  BY ConstantFacts
<1>5. CASE Tap(d)
  BY <1>3, <1>5, TapRows
<1>6. CASE UploadStep(d)
  BY <1>3, <1>6, UploadRows
<1>7. CASE Callbacks(d)
  BY <1>3, <1>7, ListAnsweredRows, ModifyAnsweredRows, DeleteCompletedRows, SaveCompletedRows,
     NewDataNotiRows DEF Callbacks
<1>8. CASE Relaunch(d)
  BY <1>8, RelaunchRows
<1>9. CASE ClientStep(d) /\ UNCHANGED uiVars
  BY <1>1, <1>3, <1>9, ClientStepRows
<1>10. CASE UNCHANGED vars
  <2>1. UNCHANGED <<server, pending, queries, main, screen, view, items, stale>>
    BY <1>10 DEF vars, marketVars, storeVars, uiVars
  <2> QED  BY <1>3, <2>1, UneventfulRows DEF Shown
<1> QED  BY <1>4, <1>5, <1>6, <1>7, <1>8, <1>9, <1>10 DEF Next

(* The only phone's list, once everything has been answered, agrees with   *)
(* the backend on every document the phone has not written since it asked: *)
(* for any number of documents, edits, popups and lists, whatever is lost, *)
(* and in whatever order answers and completions are called.               *)
THEOREM ReadsItsOwnWrites == Spec => []ReadsItsWrites
<1>1. AppInv /\ PhoneInv => ReadsItsWrites
  <2> SUFFICES ASSUME PhoneInv, NoLossWithRefusal, NEW d \in Phones,
                      ListQuiet(d), Devices = {d}, NEW k \in Keys \ stale[d]
               PROVE  RowsTellOf(items[d][view[d]], k)
    BY DEF ReadsItsWrites
  <2>1. Shown(d) /\ RowsInv(d) /\ queries[d] = <<>> /\ main[d] = <<>>
    BY DEF PhoneInv, ListQuiet, Shown
  <2>2. UpToDate(server[k], <<>>, <<>>, items[d][view[d]], ListQuery(view[d]), k)
    BY <2>1 DEF RowsInv, Current
  <2>3. 1 .. Len(<<>>) = {}
    OBVIOUS
  <2>4. Tells(server[k], items[d][view[d]], k)
    BY <2>2, <2>3 DEF UpToDate, Asked, Coming, Shows
  <2> QED  BY <2>4, TellsIs
<1>2. AppInv /\ PhoneInv /\ [Next]_vars => PhoneInv'
  BY NextPhoneInv
<1> QED  BY <1>1, <1>2, InitPhoneInv, AppInvariant, PTL DEF Spec

================================================================================
