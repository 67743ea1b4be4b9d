--------------------------- MODULE PriceHistoryProofs ---------------------------
(***************************************************************************)
(* Theorems of PriceHistory: for any number of phones, entries, prices and *)
(* dates, the arrays stay drawable and no entry is lost.                   *)
(***************************************************************************)
EXTENDS PriceHistory, PriceArraysProofs

--------------------------------------------------------------------------------
(* Types *)

LEMMA InitTypeOK == Init => TypeOK
<1> SUFFICES ASSUME Init PROVE TypeOK
  OBVIOUS
<1>1. PICK w \in Writers :
        entered = <<[by |-> w,
                     price |-> LastOf(Decode(doc).price),
                     date |-> LastOf(Decode(doc).date)]>>
  BY DEF Init
<1>2. /\ doc = [price |-> doc.price, date |-> doc.date]
      /\ doc.price = NoField \/ \E p \in Prices : doc.price = <<p>>
      /\ doc.date = NoField \/ \E t \in Dates : doc.date = <<t>>
  BY DEF Init
<1>3. /\ doc.price \in Seq(Prices) \cup {NoField}
      /\ LastOf(Decode(doc).price) \in Prices \cup {PriceError}
  <2>1. CASE doc.price = NoField
    BY <2>1 DEF Decode, LastOf
  <2>2. ASSUME doc.price # NoField, NEW p \in Prices, doc.price = <<p>>
        PROVE  /\ doc.price \in Seq(Prices)
               /\ LastOf(Decode(doc).price) \in Prices
    BY <2>2 DEF Decode, LastOf
  <2> QED  BY <1>2, <2>1, <2>2
<1>4. /\ doc.date \in Seq(Dates) \cup {NoField}
      /\ LastOf(Decode(doc).date) \in Dates \cup {EmptyDate}
  <2>1. CASE doc.date = NoField
    BY <2>1 DEF Decode, LastOf
  <2>2. ASSUME doc.date # NoField, NEW t \in Dates, doc.date = <<t>>
        PROVE  /\ doc.date \in Seq(Dates)
               /\ LastOf(Decode(doc).date) \in Dates
    BY <2>2 DEF Decode, LastOf
  <2> QED  BY <1>2, <2>1, <2>2
<1>5. updates \in [Writers -> Seq(Update)]
  BY DEF Init
<1>6. doc \in [price : Seq(Prices) \cup {NoField}, date : Seq(Dates) \cup {NoField}]
  BY <1>2, <1>3, <1>4
<1> QED  BY <1>1, <1>3, <1>4, <1>5, <1>6 DEF TypeOK

(* One update of the document at the backend keeps its type and leaves the *)
(* field it names non-empty.                                               *)
LEMMA LandedDoc ==
    ASSUME TypeOK, NEW w \in Writers, UpdateLands(w)
    PROVE  /\ doc' \in [price : Seq(Prices) \cup {NoField}, date : Seq(Dates) \cup {NoField}]
           /\ doc.price # <<>> => doc'.price # <<>>
           /\ doc.date # <<>> => doc'.date # <<>>
           /\ updates' \in [Writers -> Seq(Update)]
<1> DEFINE u == Head(updates[w])
<1>0. updates[w] \in Seq(Update) /\ updates[w] # <<>>
  BY DEF TypeOK, UpdateLands
<1>1. u \in Update /\ Tail(updates[w]) \in Seq(Update)
  BY <1>0, HeadTailProperties
<1>2. updates' \in [Writers -> Seq(Update)]
  BY <1>1 DEF UpdateLands, TypeOK
<1>3. doc \in [price : Seq(Prices) \cup {NoField}, date : Seq(Dates) \cup {NoField}]
  BY DEF TypeOK
<1>4. NoField \notin Seq(Prices) /\ NoField \notin Seq(Dates)
  BY DefaultsAreNotArrays
<1>5. CASE u.field = "price"
  <2>1. u.value \in Prices
    BY <1>1, <1>5 DEF Update
  <2>2. ArrayUnion(doc.price, u.value) \in Seq(Prices) /\ ArrayUnion(doc.price, u.value) # <<>>
    BY <1>3, <1>4, <2>1, ArrayUnionType
  <2>3. doc' = [doc EXCEPT !.price = ArrayUnion(doc.price, u.value)]
    BY <1>5 DEF UpdateLands
  <2> QED  BY <1>2, <1>3, <2>2, <2>3
<1>6. CASE u.field # "price"
  <2>1. u.value \in Dates
    BY <1>1, <1>6 DEF Update
  <2>2. ArrayUnion(doc.date, u.value) \in Seq(Dates) /\ ArrayUnion(doc.date, u.value) # <<>>
    BY <1>3, <1>4, <2>1, ArrayUnionType
  <2>3. doc' = [doc EXCEPT !.date = ArrayUnion(doc.date, u.value)]
    BY <1>6 DEF UpdateLands
  <2> QED  BY <1>2, <1>3, <2>2, <2>3
<1> QED  BY <1>5, <1>6

(* The two updates of an entry behind those already queued.                *)
LEMMA QueuedEntry ==
    ASSUME TypeOK, NEW w \in Writers, NEW p \in Prices, NEW t \in Dates, ModifyPressed(w, p, t)
    PROVE  /\ updates' \in [Writers -> Seq(Update)]
           /\ updates' = [updates EXCEPT ![w] = updates[w] \o EntryUpdates(p, t)]
           /\ EntryUpdates(p, t) \in Seq(Update)
<1>1. EntryUpdates(p, t) \in Seq(Update)
  BY DEF EntryUpdates, Update
<1>2. updates[w] \o EntryUpdates(p, t) \in Seq(Update)
  BY <1>1, ConcatProperties DEF TypeOK
<1> QED  BY <1>1, <1>2 DEF ModifyPressed, TypeOK

LEMMA NextTypeOK == TypeOK /\ [Next]_vars => TypeOK'
<1> SUFFICES ASSUME TypeOK, [Next]_vars PROVE TypeOK'
  OBVIOUS
<1>1. ASSUME NEW w \in Writers, NEW p \in Prices, NEW t \in Dates, ModifyPressed(w, p, t)
      PROVE  TypeOK'
  <2>1. updates' \in [Writers -> Seq(Update)]
    BY <1>1, QueuedEntry
  <2>2. [by |-> w, price |-> p, date |-> t]
          \in [by : Writers, price : Prices \cup {PriceError}, date : Dates \cup {EmptyDate}]
    OBVIOUS
  <2>3. entered' \in Seq([by : Writers, price : Prices \cup {PriceError},
                          date : Dates \cup {EmptyDate}])
    BY <1>1, <2>2 DEF ModifyPressed, TypeOK
  <2> QED  BY <1>1, <2>1, <2>3 DEF ModifyPressed, TypeOK
<1>2. ASSUME NEW w \in Writers, UpdateLands(w)
      PROVE  TypeOK'
  BY <1>2, LandedDoc DEF UpdateLands, TypeOK
<1>3. CASE UNCHANGED vars
  BY <1>3 DEF vars, TypeOK
<1> QED  BY <1>1, <1>2, <1>3 DEF Next

(* Type correctness of the document, the queued updates and the entries.   *)
THEOREM TypeCorrect == Spec => []TypeOK
<1> QED  BY InitTypeOK, NextTypeOK, PTL DEF Spec

--------------------------------------------------------------------------------
(* Drawing *)

(* Neither array of the document is ever empty.                            *)
NoEmptyArray == doc.price # <<>> /\ doc.date # <<>>

LEMMA NextNoEmptyArray == TypeOK /\ NoEmptyArray /\ [Next]_vars => NoEmptyArray'
<1> SUFFICES ASSUME TypeOK, NoEmptyArray, [Next]_vars PROVE NoEmptyArray'
  OBVIOUS
<1>1. ASSUME NEW w \in Writers, NEW p \in Prices, NEW t \in Dates, ModifyPressed(w, p, t)
      PROVE  NoEmptyArray'
  BY <1>1 DEF ModifyPressed, NoEmptyArray
<1>2. ASSUME NEW w \in Writers, UpdateLands(w)
      PROVE  NoEmptyArray'
  BY <1>2, LandedDoc DEF NoEmptyArray
<1>3. CASE UNCHANGED vars
  BY <1>3 DEF vars, NoEmptyArray
<1> QED  BY <1>1, <1>2, <1>3 DEF Next

(* The row and the chart of a document without an empty array are drawn in *)
(* bounds, whatever the lengths of the two arrays.                         *)
LEMMA NoEmptyArrayDraws == TypeOK /\ NoEmptyArray => DrawingInBounds
<1> SUFFICES ASSUME TypeOK, NoEmptyArray PROVE DrawingInBounds
  OBVIOUS
<1> DEFINE S == Prices \cup {PriceError}
           T == Dates \cup {EmptyDate}
<1>1. Decode(doc).price \in Seq(S) /\ Decode(doc).price # <<>>
  <2>1. CASE doc.price = NoField
    BY <2>1 DEF Decode
  <2>2. CASE doc.price # NoField
    <3>1. doc.price \in Seq(Prices)
      BY <2>2 DEF TypeOK
    <3>2. doc.price \in Seq(S)
      BY <3>1, SeqMonotonic
    <3> QED  BY <2>2, <3>2 DEF Decode, NoEmptyArray
  <2> QED  BY <2>1, <2>2
<1>2. Decode(doc).date \in Seq(T) /\ Decode(doc).date # <<>>
  <2>1. CASE doc.date = NoField
    BY <2>1 DEF Decode
  <2>2. CASE doc.date # NoField
    <3>1. doc.date \in Seq(Dates)
      BY <2>2 DEF TypeOK
    <3>2. doc.date \in Seq(T)
      BY <3>1, SeqMonotonic
    <3> QED  BY <2>2, <3>2 DEF Decode, NoEmptyArray
  <2> QED  BY <2>1, <2>2
<1> HIDE DEF S, T
<1>3. /\ Item.price \in Seq(S) /\ Item.date \in Seq(T)
      /\ Len(Item.price) = Len(Item.date) /\ Len(Item.price) > 0
  BY <1>1, <1>2, AlignLengths DEF Item
<1> QED  BY <1>3 DEF DrawingInBounds, CreateItemInRange

(* Whatever part of whichever phone's entry has landed, the list row and   *)
(* the chart of the document are drawn in bounds: `price.last!!` finds a   *)
(* last price and createItem a date for every price.                       *)
THEOREM DrawingAlwaysInBounds == Spec => []DrawingInBounds
<1>1. Init => TypeOK /\ NoEmptyArray
  <2> SUFFICES ASSUME Init PROVE NoEmptyArray
    BY InitTypeOK
  <2>1. doc.price \in {<<p>> : p \in Prices} \cup {NoField}
        /\ doc.date \in {<<t>> : t \in Dates} \cup {NoField}
    BY DEF Init
  <2>2. NoField # <<>>
    <3>1. <<>> \in Seq(Prices)
      OBVIOUS
    <3> QED  BY <3>1, DefaultsAreNotArrays DEF DefaultsAreNotArrays
  <2> QED  BY <2>1, <2>2 DEF NoEmptyArray
<1>2. TypeOK /\ NoEmptyArray /\ [Next]_vars => (TypeOK /\ NoEmptyArray)'
  BY NextTypeOK, NextNoEmptyArray
<1> QED  BY <1>1, <1>2, NoEmptyArrayDraws, PTL DEF Spec

--------------------------------------------------------------------------------
(* No entry is lost *)

(* The value is in the stored array, or on its way in a phone's queue.     *)
Stored(arr, v) == arr # NoField /\ \E n \in 1 .. Len(arr) : arr[n] = v

Queued(queues, f, v) ==
    \E w \in Writers : \E n \in 1 .. Len(queues[w]) :
        queues[w][n] = [field |-> f, value |-> v]

(* Every entry's price and date is stored or queued.                       *)
EntriesOnTheirWay ==
    \A i \in 1 .. Len(entered) :
        /\ entered[i].price # PriceError =>
             Stored(doc.price, entered[i].price) \/ Queued(updates, "price", entered[i].price)
        /\ entered[i].date # EmptyDate =>
             Stored(doc.date, entered[i].date) \/ Queued(updates, "date", entered[i].date)

(* Queueing another entry leaves the queued updates where they are.        *)
LEMMA ModifyQueues ==
    ASSUME TypeOK, NEW w \in Writers, NEW p \in Prices, NEW t \in Dates, ModifyPressed(w, p, t)
    PROVE  /\ \A f, v : Queued(updates, f, v) => Queued(updates', f, v)
           /\ Queued(updates', "price", p) /\ Queued(updates', "date", t)
<1>1. /\ updates \in [Writers -> Seq(Update)]
      /\ updates' = [updates EXCEPT ![w] = updates[w] \o EntryUpdates(p, t)]
      /\ EntryUpdates(p, t) \in Seq(Update)
  BY QueuedEntry DEF TypeOK
<1>2. /\ updates'[w] = updates[w] \o EntryUpdates(p, t)
      /\ \A x \in Writers \ {w} : updates'[x] = updates[x]
      /\ updates[w] \in Seq(Update)
  BY <1>1
<1>3. /\ Len(updates'[w]) = Len(updates[w]) + 2
      /\ \A n \in 1 .. Len(updates[w]) : updates'[w][n] = updates[w][n]
      /\ updates'[w][Len(updates[w]) + 1] = [field |-> "price", value |-> p]
      /\ updates'[w][Len(updates[w]) + 2] = [field |-> "date", value |-> t]
  <2>1. /\ Len(EntryUpdates(p, t)) = 2
        /\ EntryUpdates(p, t)[1] = [field |-> "price", value |-> p]
        /\ EntryUpdates(p, t)[2] = [field |-> "date", value |-> t]
    BY DEF EntryUpdates
  <2>2. Len(updates[w]) \in Nat
    BY <1>2
  <2>3. /\ Len(updates[w] \o EntryUpdates(p, t)) = Len(updates[w]) + 2
        /\ \A n \in 1 .. Len(updates[w]) + 2 :
             (updates[w] \o EntryUpdates(p, t))[n]
               = IF n <= Len(updates[w]) THEN updates[w][n]
                 ELSE EntryUpdates(p, t)[n - Len(updates[w])]
    <3>1. /\ Len(updates[w] \o EntryUpdates(p, t)) = Len(updates[w]) + Len(EntryUpdates(p, t))
          /\ \A n \in 1 .. Len(updates[w]) + Len(EntryUpdates(p, t)) :
               (updates[w] \o EntryUpdates(p, t))[n]
                 = IF n <= Len(updates[w]) THEN updates[w][n]
                   ELSE EntryUpdates(p, t)[n - Len(updates[w])]
      BY <1>1, <1>2, ConcatProperties
    <3> QED  BY <2>1, <3>1
  <2> QED  BY <1>2, <2>1, <2>2, <2>3
<1>4. Len(updates[w]) \in Nat
  BY <1>2
<1>5. Queued(updates', "price", p) /\ Queued(updates', "date", t)
  <2>1. Len(updates[w]) + 1 \in 1 .. Len(updates'[w]) /\ Len(updates[w]) + 2 \in 1 .. Len(updates'[w])
    BY <1>3, <1>4
  <2> QED  BY <1>3, <2>1 DEF Queued
<1>6. ASSUME NEW f, NEW v, Queued(updates, f, v)
      PROVE  Queued(updates', f, v)
  <2>0. PICK x \in Writers : \E n \in 1 .. Len(updates[x]) :
          updates[x][n] = [field |-> f, value |-> v]
    BY <1>6 DEF Queued
  <2>1. PICK n \in 1 .. Len(updates[x]) : updates[x][n] = [field |-> f, value |-> v]
    BY <2>0
  <2>2. n \in 1 .. Len(updates'[x]) /\ updates'[x][n] = updates[x][n]
    BY <1>2, <1>3, <1>4
  <2> QED  BY <2>1, <2>2 DEF Queued
<1> QED  BY <1>5, <1>6

(* When the oldest update of a phone lands, its value is stored; all other *)
(* values stay stored or queued.                                           *)
LEMMA LandingStores ==
    ASSUME TypeOK, NEW w \in Writers, UpdateLands(w)
    PROVE  /\ \A v : Stored(doc.price, v) \/ Queued(updates, "price", v)
                       => Stored(doc'.price, v) \/ Queued(updates', "price", v)
           /\ \A v : Stored(doc.date, v) \/ Queued(updates, "date", v)
                       => Stored(doc'.date, v) \/ Queued(updates', "date", v)
<1> DEFINE u == Head(updates[w])
<1>1. /\ updates[w] \in Seq(Update) /\ updates[w] # <<>>
      /\ updates' = [updates EXCEPT ![w] = Tail(updates[w])]
      /\ updates \in [Writers -> Seq(Update)]
      /\ doc \in [price : Seq(Prices) \cup {NoField}, date : Seq(Dates) \cup {NoField}]
  BY DEF TypeOK, UpdateLands
<1>2. /\ u \in Update /\ u = updates[w][1]
      /\ Len(Tail(updates[w])) = Len(updates[w]) - 1
      /\ \A n \in 1 .. Len(Tail(updates[w])) : Tail(updates[w])[n] = updates[w][n + 1]
      /\ Len(updates[w]) \in Nat
  BY <1>1, HeadTailProperties
<1>3. ASSUME NEW f, NEW v, Queued(updates, f, v), u.field # f \/ u.value # v
      PROVE  Queued(updates', f, v)
  <2>0. PICK x \in Writers : \E n \in 1 .. Len(updates[x]) :
          updates[x][n] = [field |-> f, value |-> v]
    BY <1>3 DEF Queued
  <2>1. PICK n \in 1 .. Len(updates[x]) : updates[x][n] = [field |-> f, value |-> v]
    BY <2>0
  <2>2. CASE x # w
    BY <1>1, <2>1, <2>2 DEF Queued
  <2>3. CASE x = w
    <3>1. n # 1
      <4>1. [field |-> f, value |-> v].field = f /\ [field |-> f, value |-> v].value = v
        OBVIOUS
      <4> QED  BY <1>2, <1>3, <2>1, <2>3, <4>1
    <3>2. n - 1 \in 1 .. Len(updates'[w]) /\ updates'[w][n - 1] = [field |-> f, value |-> v]
      BY <1>1, <1>2, <2>1, <2>3, <3>1
    <3> QED  BY <3>2 DEF Queued
  <2> QED  BY <2>2, <2>3
<1>4. NoField \notin Seq(Prices) /\ NoField \notin Seq(Dates)
  BY DefaultsAreNotArrays
<1>5. ASSUME NEW S, NEW arr \in Seq(S) \cup {NoField}, NoField \notin Seq(S), NEW x \in S
      PROVE  /\ Stored(ArrayUnion(arr, x), x)
             /\ \A v : Stored(arr, v) => Stored(ArrayUnion(arr, x), v)
  <2>1. ArrayUnion(arr, x) \in Seq(S) /\ ArrayUnion(arr, x) # NoField
    BY <1>5, ArrayUnionType
  <2>2. CASE arr = NoField
    <3>1. ArrayUnion(arr, x) = <<x>>
      BY <2>2 DEF ArrayUnion
    <3> QED  BY <2>1, <2>2, <3>1 DEF Stored
  <2>3. CASE arr # NoField
    <3>1. /\ Len(arr) <= Len(ArrayUnion(arr, x))
          /\ \A i \in 1 .. Len(arr) : ArrayUnion(arr, x)[i] = arr[i]
          /\ \E i \in 1 .. Len(ArrayUnion(arr, x)) : ArrayUnion(arr, x)[i] = x
      BY <1>5, <2>3, ArrayUnionKeeps, ArrayUnionHolds
    <3>2. Len(arr) \in Nat /\ Len(ArrayUnion(arr, x)) \in Nat
      BY <2>1, <2>3
    <3> QED  BY <2>1, <2>3, <3>1, <3>2 DEF Stored
  <2> QED  BY <2>2, <2>3
<1>6. CASE u.field = "price"
  <2>1. u.value \in Prices /\ u = [field |-> "price", value |-> u.value]
    BY <1>2, <1>6 DEF Update
  <2>2. doc'.price = ArrayUnion(doc.price, u.value) /\ doc'.date = doc.date
    BY <1>1, <1>6 DEF UpdateLands
  <2>3. /\ Stored(doc'.price, u.value)
        /\ \A v : Stored(doc.price, v) => Stored(doc'.price, v)
    BY <1>1, <1>4, <1>5, <2>1, <2>2
  <2>4. \A v : Queued(updates, "date", v) => Queued(updates', "date", v)
    BY <1>3, <1>6
  <2>5. \A v : Queued(updates, "price", v) => v = u.value \/ Queued(updates', "price", v)
    BY <1>3, <2>1
  <2> QED  BY <2>2, <2>3, <2>4, <2>5 DEF Stored
<1>7. CASE u.field # "price"
  <2>1. u.value \in Dates /\ u = [field |-> "date", value |-> u.value]
    BY <1>2, <1>7 DEF Update
  <2>2. doc'.date = ArrayUnion(doc.date, u.value) /\ doc'.price = doc.price
    BY <1>1, <1>7 DEF UpdateLands
  <2>3. /\ Stored(doc'.date, u.value)
        /\ \A v : Stored(doc.date, v) => Stored(doc'.date, v)
    BY <1>1, <1>4, <1>5, <2>1, <2>2
  <2>4. \A v : Queued(updates, "price", v) => Queued(updates', "price", v)
    BY <1>3, <1>7
  <2>5. \A v : Queued(updates, "date", v) => v = u.value \/ Queued(updates', "date", v)
    BY <1>3, <2>1
  <2> QED  BY <2>2, <2>3, <2>4, <2>5 DEF Stored
<1> QED  BY <1>6, <1>7

LEMMA NextOnTheirWay == TypeOK /\ EntriesOnTheirWay /\ [Next]_vars => EntriesOnTheirWay'
<1> SUFFICES ASSUME TypeOK, EntriesOnTheirWay, [Next]_vars PROVE EntriesOnTheirWay'
  OBVIOUS
<1>1. ASSUME NEW w \in Writers, NEW p \in Prices, NEW t \in Dates, ModifyPressed(w, p, t)
      PROVE  EntriesOnTheirWay'
  <2> DEFINE e == [by |-> w, price |-> p, date |-> t]
             Entries == [by : Writers, price : Prices \cup {PriceError},
                         date : Dates \cup {EmptyDate}]
  <2>1. entered' = Append(entered, e) /\ doc' = doc /\ entered \in Seq(Entries)
    BY <1>1 DEF ModifyPressed, TypeOK
  <2>2. /\ Len(entered) \in Nat
        /\ Len(entered') = Len(entered) + 1
        /\ \A i \in 1 .. Len(entered) : entered'[i] = entered[i]
        /\ entered'[Len(entered) + 1] = e
    BY <2>1
  <2>3. /\ \A f, v : Queued(updates, f, v) => Queued(updates', f, v)
        /\ Queued(updates', "price", p) /\ Queued(updates', "date", t)
    BY <1>1, ModifyQueues
  <2> SUFFICES ASSUME NEW i \in 1 .. Len(entered')
               PROVE  /\ entered'[i].price # PriceError =>
                           Stored(doc.price, entered'[i].price) \/ Queued(updates', "price", entered'[i].price)
                      /\ entered'[i].date # EmptyDate =>
                           Stored(doc.date, entered'[i].date) \/ Queued(updates', "date", entered'[i].date)
    BY <2>1 DEF EntriesOnTheirWay
  <2>4. CASE i \in 1 .. Len(entered)
    <3>1. entered'[i] = entered[i]
      BY <2>2, <2>4
    <3>2. /\ entered[i].price # PriceError =>
               Stored(doc.price, entered[i].price) \/ Queued(updates, "price", entered[i].price)
          /\ entered[i].date # EmptyDate =>
               Stored(doc.date, entered[i].date) \/ Queued(updates, "date", entered[i].date)
      BY <2>4 DEF EntriesOnTheirWay
    <3> QED  BY <2>3, <3>1, <3>2
  <2>5. CASE i = Len(entered) + 1
    <3>1. entered'[i].price = p /\ entered'[i].date = t
      BY <2>2, <2>5
    <3> QED  BY <2>3, <3>1
  <2> QED  BY <2>2, <2>4, <2>5
<1>2. ASSUME NEW w \in Writers, UpdateLands(w)
      PROVE  EntriesOnTheirWay'
  <2>1. entered' = entered
    BY <1>2 DEF UpdateLands
  <2>2. /\ \A v : Stored(doc.price, v) \/ Queued(updates, "price", v)
                    => Stored(doc'.price, v) \/ Queued(updates', "price", v)
        /\ \A v : Stored(doc.date, v) \/ Queued(updates, "date", v)
                    => Stored(doc'.date, v) \/ Queued(updates', "date", v)
    BY <1>2, LandingStores
  <2> QED  BY <2>1, <2>2 DEF EntriesOnTheirWay
<1>3. CASE UNCHANGED vars
  BY <1>3 DEF vars, EntriesOnTheirWay
<1> QED  BY <1>1, <1>2, <1>3 DEF Next

LEMMA InitOnTheirWay == Init => EntriesOnTheirWay
<1> SUFFICES ASSUME Init PROVE EntriesOnTheirWay
  OBVIOUS
<1>1. /\ doc.price = NoField \/ \E p \in Prices : doc.price = <<p>>
      /\ doc.date = NoField \/ \E t \in Dates : doc.date = <<t>>
  BY DEF Init
<1>2. /\ Len(entered) = 1
      /\ entered[1].price = LastOf(Decode(doc).price)
      /\ entered[1].date = LastOf(Decode(doc).date)
  BY DEF Init
<1>3. entered[1].price # PriceError => Stored(doc.price, entered[1].price)
  <2>1. CASE doc.price = NoField
    BY <1>2, <2>1 DEF Decode, LastOf
  <2>2. ASSUME doc.price # NoField, NEW p \in Prices, doc.price = <<p>>
        PROVE  Stored(doc.price, entered[1].price)
    BY <1>2, <2>2 DEF Decode, LastOf, Stored
  <2> QED  BY <1>1, <2>1, <2>2
<1>4. entered[1].date # EmptyDate => Stored(doc.date, entered[1].date)
  <2>1. CASE doc.date = NoField
    BY <1>2, <2>1 DEF Decode, LastOf
  <2>2. ASSUME doc.date # NoField, NEW t \in Dates, doc.date = <<t>>
        PROVE  Stored(doc.date, entered[1].date)
    BY <1>2, <2>2 DEF Decode, LastOf, Stored
  <2> QED  BY <1>1, <2>1, <2>2
<1> QED  BY <1>2, <1>3, <1>4 DEF EntriesOnTheirWay

(* No entry of any phone is lost to another phone's: once every update has *)
(* landed, each price and each date ever entered is in the document.       *)
THEOREM NoEntryLost == Spec => []EntriesKept
<1>1. TypeOK /\ EntriesOnTheirWay => EntriesKept
  <2> SUFFICES ASSUME TypeOK, EntriesOnTheirWay, Quiet, NEW i \in 1 .. Len(entered)
               PROVE  /\ entered[i].price # PriceError
                           => entered[i].price \in Elements(Decode(doc).price)
                      /\ entered[i].date # EmptyDate
                           => entered[i].date \in Elements(Decode(doc).date)
    BY DEF EntriesKept
  <2>1. \A f, v : ~Queued(updates, f, v)
    BY DEF Quiet, Queued
  <2>2. /\ entered[i].price # PriceError => Stored(doc.price, entered[i].price)
        /\ entered[i].date # EmptyDate => Stored(doc.date, entered[i].date)
    BY <2>1 DEF EntriesOnTheirWay
  <2>3. /\ doc.price # NoField => doc.price \in Seq(Prices)
        /\ doc.date # NoField => doc.date \in Seq(Dates)
    BY DEF TypeOK
  <2>4. \A v : Stored(doc.price, v) => v \in Elements(Decode(doc).price)
    BY <2>3 DEF Stored, Elements, Decode
  <2>5. \A v : Stored(doc.date, v) => v \in Elements(Decode(doc).date)
    BY <2>3 DEF Stored, Elements, Decode
  <2> QED  BY <2>2, <2>4, <2>5
<1>2. Init => TypeOK /\ EntriesOnTheirWay
  BY InitTypeOK, InitOnTheirWay
<1>3. TypeOK /\ EntriesOnTheirWay /\ [Next]_vars => (TypeOK /\ EntriesOnTheirWay)'
  BY NextTypeOK, NextOnTheirWay
<1> QED  BY <1>1, <1>2, <1>3, PTL DEF Spec

--------------------------------------------------------------------------------
(* The chart of one phone's entries *)

Entry == [by : Writers, price : Prices \cup {PriceError}, date : Dates \cup {EmptyDate}]

PriceUpdate(e) == [field |-> "price", value |-> e.price]
DateUpdate(e) == [field |-> "date", value |-> e.date]

(* The premise of ChartIsTheEntries but for Quiet: one phone, no value     *)
(* repeated, no default.                                                   *)
Careful ==
    /\ OneWriter
    /\ Distinct(EnteredPrices) /\ Distinct(EnteredDates)
    /\ entered[1].price # PriceError /\ entered[1].date # EmptyDate

(* Of the entries es, a prices and b dates have landed, by turns; u is the *)
(* rest, in order.                                                         *)
Follows(u, a, b, es) ==
    /\ 1 <= b /\ b <= a /\ a <= b + 1 /\ a <= Len(es)
    /\ Len(u) = 2 * Len(es) - a - b
    /\ \A i \in a + 1 .. Len(es) : u[2 * i - a - b - 1] = PriceUpdate(es[i])
    /\ \A i \in b + 1 .. Len(es) : u[2 * i - a - b] = DateUpdate(es[i])

(* The arrays hold the first entries in order, and the phone's queue the   *)
(* rest.                                                                   *)
EntriesInOrder ==
    Careful =>
        /\ doc.price \in Seq(Prices) /\ doc.date \in Seq(Dates)
        /\ \A i \in 1 .. Len(doc.price) : doc.price[i] = entered[i].price
        /\ \A i \in 1 .. Len(doc.date) : doc.date[i] = entered[i].date
        /\ Follows(updates[entered[1].by], Len(doc.price), Len(doc.date), entered)
        /\ \A w \in Writers \ {entered[1].by} : updates[w] = <<>>

(* Somebody has made a first entry.                                        *)
BegunInv == TypeOK /\ Len(entered) >= 1

LEMMA BegunFacts ==
    ASSUME BegunInv
    PROVE  /\ entered \in Seq(Entry) /\ Len(entered) \in Nat /\ Len(entered) >= 1
           /\ \A i \in 1 .. Len(entered) : entered[i] \in Entry
           /\ entered[1].by \in Writers
<1>1. entered \in Seq(Entry) /\ Len(entered) >= 1
  BY DEF BegunInv, TypeOK, Entry
<1>2. Len(entered) \in Nat /\ \A i \in 1 .. Len(entered) : entered[i] \in Entry
  BY <1>1
<1>3. entered[1] \in Entry
  BY <1>1, <1>2
<1> QED  BY <1>1, <1>2, <1>3 DEF Entry

(* Another entry's two updates go on where the queue ends.                 *)
LEMMA EntryFollows ==
    ASSUME NEW u \in Seq(Update), NEW es \in Seq(Entry), NEW a \in Nat, NEW b \in Nat,
           NEW p \in Prices, NEW t \in Dates, NEW w \in Writers,
           Follows(u, a, b, es)
    PROVE  Follows(u \o EntryUpdates(p, t), a, b,
                   Append(es, [by |-> w, price |-> p, date |-> t]))
<1> DEFINE e == [by |-> w, price |-> p, date |-> t]
           v == u \o EntryUpdates(p, t)
           fs == Append(es, e)
<1>1. /\ EntryUpdates(p, t) \in Seq(Update) /\ Len(EntryUpdates(p, t)) = 2
      /\ EntryUpdates(p, t)[1] = PriceUpdate(e) /\ EntryUpdates(p, t)[2] = DateUpdate(e)
  BY DEF EntryUpdates, Update, PriceUpdate, DateUpdate
<1>2. Len(u) \in Nat /\ Len(es) \in Nat
  OBVIOUS
<1>3. /\ Len(v) = Len(u) + 2
      /\ \A i \in 1 .. Len(u) : v[i] = u[i]
      /\ v[Len(u) + 1] = PriceUpdate(e) /\ v[Len(u) + 2] = DateUpdate(e)
  <2>1. /\ Len(v) = Len(u) + Len(EntryUpdates(p, t))
        /\ \A i \in 1 .. Len(u) + Len(EntryUpdates(p, t)) :
             v[i] = IF i <= Len(u) THEN u[i] ELSE EntryUpdates(p, t)[i - Len(u)]
    BY <1>1, ConcatProperties
  <2>2. Len(u) + 1 - Len(u) = 1 /\ Len(u) + 2 - Len(u) = 2
    BY <1>2
  <2>3. Len(u) + 1 \in 1 .. Len(u) + 2 /\ Len(u) + 2 \in 1 .. Len(u) + 2
        /\ ~(Len(u) + 1 <= Len(u)) /\ ~(Len(u) + 2 <= Len(u))
    BY <1>2
  <2> HIDE DEF v, e
  <2>4. v[Len(u) + 1] = EntryUpdates(p, t)[Len(u) + 1 - Len(u)]
    BY <1>1, <2>1, <2>3
  <2>5. v[Len(u) + 2] = EntryUpdates(p, t)[Len(u) + 2 - Len(u)]
    BY <1>1, <2>1, <2>3
  <2>6. Len(v) = Len(u) + 2 /\ \A i \in 1 .. Len(u) : v[i] = u[i]
    BY <1>1, <1>2, <2>1
  <2> QED  BY <1>1, <2>2, <2>4, <2>5, <2>6
<1>4. /\ Len(fs) = Len(es) + 1 /\ fs[Len(es) + 1] = e
      /\ \A i \in 1 .. Len(es) : fs[i] = es[i]
  BY <1>2
<1> HIDE DEF v, fs, e
<1>5. /\ 1 <= b /\ b <= a /\ a <= b + 1 /\ a <= Len(es) /\ Len(u) = 2 * Len(es) - a - b
      /\ \A i \in a + 1 .. Len(es) : u[2 * i - a - b - 1] = PriceUpdate(es[i])
      /\ \A i \in b + 1 .. Len(es) : u[2 * i - a - b] = DateUpdate(es[i])
  BY DEF Follows
<1>6. ASSUME NEW i \in a + 1 .. Len(fs)
      PROVE  v[2 * i - a - b - 1] = PriceUpdate(fs[i])
  <2>1. CASE i = Len(es) + 1
    <3>1. 2 * i - a - b - 1 = Len(u) + 1
      BY <1>2, <1>5, <2>1
    <3> QED  BY <1>3, <1>4, <2>1, <3>1
  <2>2. CASE i # Len(es) + 1
    <3>1. i \in a + 1 .. Len(es) /\ i \in 1 .. Len(es)
      BY <1>2, <1>4, <2>2
    <3>2. 2 * i - a - b - 1 \in 1 .. Len(u)
      BY <1>2, <1>5, <3>1
    <3>3. v[2 * i - a - b - 1] = u[2 * i - a - b - 1]
      BY <1>3, <3>2
    <3> QED  BY <1>4, <1>5, <3>1, <3>3
  <2> QED  BY <2>1, <2>2
<1>7. ASSUME NEW i \in b + 1 .. Len(fs)
      PROVE  v[2 * i - a - b] = DateUpdate(fs[i])
  <2>1. CASE i = Len(es) + 1
    <3>1. 2 * i - a - b = Len(u) + 2
      BY <1>2, <1>5, <2>1
    <3> QED  BY <1>3, <1>4, <2>1, <3>1
  <2>2. CASE i # Len(es) + 1
    <3>1. i \in b + 1 .. Len(es) /\ i \in 1 .. Len(es)
      BY <1>2, <1>4, <2>2
    <3>2. 2 * i - a - b \in 1 .. Len(u)
      BY <1>2, <1>5, <3>1
    <3>3. v[2 * i - a - b] = u[2 * i - a - b]
      BY <1>3, <3>2
    <3> QED  BY <1>4, <1>5, <3>1, <3>3
  <2> QED  BY <2>1, <2>2
<1>8. Len(v) = 2 * Len(fs) - a - b /\ a <= Len(fs)
  BY <1>2, <1>3, <1>4, <1>5
<1>9. Follows(v, a, b, fs)
  BY <1>5, <1>6, <1>7, <1>8 DEF Follows
<1> QED  BY <1>9 DEF v, fs, e

(* Prices and dates land by turns, each the next one.                      *)
LEMMA LandedFollows ==
    ASSUME NEW u \in Seq(Update), NEW es \in Seq(Entry), NEW a \in Nat, NEW b \in Nat,
           Follows(u, a, b, es), u # <<>>
    PROVE  \/ /\ a + 1 <= Len(es)
              /\ Head(u) = PriceUpdate(es[a + 1])
              /\ Follows(Tail(u), a + 1, b, es)
           \/ /\ b + 1 <= Len(es)
              /\ Head(u) = DateUpdate(es[b + 1])
              /\ Follows(Tail(u), a, b + 1, es)
<1>1. Len(u) \in Nat /\ Len(es) \in Nat /\ Len(u) >= 1
  BY EmptySeq
<1>2. /\ Head(u) = u[1] /\ Len(Tail(u)) = Len(u) - 1
      /\ \A i \in 1 .. Len(u) - 1 : Tail(u)[i] = u[i + 1]
  BY <1>1, HeadTailProperties
<1>3. /\ 1 <= b /\ b <= a /\ a <= b + 1 /\ a <= Len(es) /\ Len(u) = 2 * Len(es) - a - b
      /\ \A i \in a + 1 .. Len(es) : u[2 * i - a - b - 1] = PriceUpdate(es[i])
      /\ \A i \in b + 1 .. Len(es) : u[2 * i - a - b] = DateUpdate(es[i])
  BY DEF Follows
<1>4. CASE a = b
  <2>1. a + 1 <= Len(es) /\ a + 1 \in a + 1 .. Len(es) /\ 2 * (a + 1) - a - b - 1 = 1
    BY <1>1, <1>3, <1>4
  <2>2. Head(u) = PriceUpdate(es[a + 1])
    BY <1>2, <1>3, <2>1
  <2>3. ASSUME NEW i \in (a + 1) + 1 .. Len(es)
        PROVE  Tail(u)[2 * i - (a + 1) - b - 1] = PriceUpdate(es[i])
    <3>1. /\ 2 * i - (a + 1) - b - 1 \in 1 .. Len(u) - 1 /\ i \in a + 1 .. Len(es)
          /\ (2 * i - (a + 1) - b - 1) + 1 = 2 * i - a - b - 1
      BY <1>1, <1>3, <1>4
    <3>2. Tail(u)[2 * i - (a + 1) - b - 1] = u[2 * i - a - b - 1]
      BY <1>2, <3>1
    <3> QED  BY <1>3, <3>1, <3>2
  <2>4. ASSUME NEW i \in b + 1 .. Len(es)
        PROVE  Tail(u)[2 * i - (a + 1) - b] = DateUpdate(es[i])
    <3>1. 2 * i - (a + 1) - b \in 1 .. Len(u) - 1 /\ (2 * i - (a + 1) - b) + 1 = 2 * i - a - b
      BY <1>1, <1>3, <1>4
    <3>2. Tail(u)[2 * i - (a + 1) - b] = u[2 * i - a - b]
      BY <1>2, <3>1
    <3> QED  BY <1>3, <3>2
  <2>5. b <= a + 1 /\ a + 1 <= b + 1 /\ Len(Tail(u)) = 2 * Len(es) - (a + 1) - b
    BY <1>1, <1>2, <1>3, <1>4
  <2>6. Follows(Tail(u), a + 1, b, es)
    BY <1>3, <2>1, <2>3, <2>4, <2>5 DEF Follows
  <2> QED  BY <2>1, <2>2, <2>6
<1>5. CASE a # b
  <2>0. a = b + 1
    BY <1>3, <1>5
  <2>1. b + 1 <= Len(es) /\ b + 1 \in b + 1 .. Len(es) /\ 2 * (b + 1) - a - b = 1
    BY <1>1, <1>3, <2>0
  <2>2. Head(u) = DateUpdate(es[b + 1])
    BY <1>2, <1>3, <2>1
  <2>3. ASSUME NEW i \in a + 1 .. Len(es)
        PROVE  Tail(u)[2 * i - a - (b + 1) - 1] = PriceUpdate(es[i])
    <3>1. /\ 2 * i - a - (b + 1) - 1 \in 1 .. Len(u) - 1
          /\ (2 * i - a - (b + 1) - 1) + 1 = 2 * i - a - b - 1
      BY <1>1, <1>3, <2>0
    <3>2. Tail(u)[2 * i - a - (b + 1) - 1] = u[2 * i - a - b - 1]
      BY <1>2, <3>1
    <3> QED  BY <1>3, <3>2
  <2>4. ASSUME NEW i \in (b + 1) + 1 .. Len(es)
        PROVE  Tail(u)[2 * i - a - (b + 1)] = DateUpdate(es[i])
    <3>1. /\ 2 * i - a - (b + 1) \in 1 .. Len(u) - 1 /\ i \in b + 1 .. Len(es)
          /\ (2 * i - a - (b + 1)) + 1 = 2 * i - a - b
      BY <1>1, <1>3, <2>0
    <3>2. Tail(u)[2 * i - a - (b + 1)] = u[2 * i - a - b]
      BY <1>2, <3>1
    <3> QED  BY <1>3, <3>1, <3>2
  <2>5. 1 <= b + 1 /\ b + 1 <= a /\ a <= (b + 1) + 1 /\ Len(Tail(u)) = 2 * Len(es) - a - (b + 1)
    BY <1>1, <1>2, <1>3, <2>0
  <2>6. Follows(Tail(u), a, b + 1, es)
    BY <1>3, <2>3, <2>4, <2>5 DEF Follows
  <2> QED  BY <2>1, <2>2, <2>6
<1> QED  BY <1>4, <1>5

(* A new entry is careful only after careful ones, of the same phone.      *)
LEMMA CarefulBefore ==
    ASSUME BegunInv, NEW w \in Writers, NEW p \in Prices, NEW t \in Dates,
           ModifyPressed(w, p, t), Careful'
    PROVE  Careful /\ w = entered[1].by
<1> DEFINE e == [by |-> w, price |-> p, date |-> t]
<1>1. Len(entered) \in Nat /\ Len(entered) >= 1 /\ entered \in Seq(Entry)
  BY BegunFacts
<1>2. /\ Len(entered') = Len(entered) + 1 /\ entered'[Len(entered) + 1] = e
      /\ \A i \in 1 .. Len(entered) : entered'[i] = entered[i]
  BY <1>1 DEF ModifyPressed
<1>3. /\ DOMAIN entered = 1 .. Len(entered) /\ DOMAIN entered' = 1 .. Len(entered) + 1
  BY <1>1 DEF ModifyPressed
<1>4. entered'[1] = entered[1] /\ entered[1].by = w
  <2>1. entered'[Len(entered) + 1].by = entered'[1].by
    BY <1>1, <1>3 DEF Careful, OneWriter
  <2>2. e.by = w
    OBVIOUS
  <2> QED  BY <1>1, <1>2, <2>1, <2>2
<1>5. OneWriter
  <2>1. \A i \in 1 .. Len(entered) : entered'[i].by = entered'[1].by
    BY <1>1, <1>3 DEF Careful, OneWriter
  <2> QED  BY <1>2, <1>3, <1>4, <2>1 DEF OneWriter
<1>6. Distinct(EnteredPrices)
  <2>1. \A i, j \in 1 .. Len(entered) + 1 : entered'[i].price = entered'[j].price => i = j
    BY <1>3 DEF Careful, Distinct, EnteredPrices
  <2>2. \A i, j \in 1 .. Len(entered) : entered[i].price = entered[j].price => i = j
    BY <1>1, <1>2, <2>1
  <2> QED  BY <1>3, <2>2 DEF Distinct, EnteredPrices
<1>7. Distinct(EnteredDates)
  <2>1. \A i, j \in 1 .. Len(entered) + 1 : entered'[i].date = entered'[j].date => i = j
    BY <1>3 DEF Careful, Distinct, EnteredDates
  <2>2. \A i, j \in 1 .. Len(entered) : entered[i].date = entered[j].date => i = j
    BY <1>1, <1>2, <2>1
  <2> QED  BY <1>3, <2>2 DEF Distinct, EnteredDates
<1> QED  BY <1>4, <1>5, <1>6, <1>7 DEF Careful

(* A value the array does not hold goes to its end.                        *)
LEMMA NewValueIsAppended ==
    ASSUME NEW S, NEW arr \in Seq(S), NoField \notin Seq(S), NEW v \in S,
           \A i \in 1 .. Len(arr) : arr[i] # v
    PROVE  /\ ArrayUnion(arr, v) \in Seq(S)
           /\ Len(ArrayUnion(arr, v)) = Len(arr) + 1
           /\ \A i \in 1 .. Len(arr) : ArrayUnion(arr, v)[i] = arr[i]
           /\ ArrayUnion(arr, v)[Len(arr) + 1] = v
<1>1. ArrayUnion(arr, v) = Append(arr, v)
  BY DEF ArrayUnion
<1> QED  BY <1>1

LEMMA ModifyInOrder ==
    ASSUME BegunInv, EntriesInOrder, NEW w \in Writers, NEW p \in Prices, NEW t \in Dates,
           ModifyPressed(w, p, t)
    PROVE  EntriesInOrder'
<1> SUFFICES ASSUME Careful' PROVE EntriesInOrder'
  BY DEF EntriesInOrder
<1>1. Careful /\ w = entered[1].by
  BY CarefulBefore
<1>2. /\ doc.price \in Seq(Prices) /\ doc.date \in Seq(Dates)
      /\ \A i \in 1 .. Len(doc.price) : doc.price[i] = entered[i].price
      /\ \A i \in 1 .. Len(doc.date) : doc.date[i] = entered[i].date
      /\ Follows(updates[w], Len(doc.price), Len(doc.date), entered)
      /\ \A x \in Writers \ {w} : updates[x] = <<>>
  BY <1>1 DEF EntriesInOrder
<1>3. Len(entered) \in Nat /\ Len(entered) >= 1 /\ entered \in Seq(Entry)
  BY BegunFacts
<1>4. Len(doc.price) \in Nat /\ Len(doc.date) \in Nat
  BY <1>2
<1>5. Len(doc.price) <= Len(entered) /\ Len(doc.date) <= Len(entered)
  BY <1>2, <1>3, <1>4 DEF Follows
<1>6. /\ entered' = Append(entered, [by |-> w, price |-> p, date |-> t]) /\ doc' = doc
      /\ \A i \in 1 .. Len(entered) : entered'[i] = entered[i]
  BY <1>3 DEF ModifyPressed
<1>7. /\ updates'[w] = updates[w] \o EntryUpdates(p, t)
      /\ \A x \in Writers \ {w} : updates'[x] = updates[x]
      /\ updates[w] \in Seq(Update)
  BY DEF ModifyPressed, BegunInv, TypeOK
<1>8. Follows(updates'[w], Len(doc.price), Len(doc.date), entered')
  BY <1>2, <1>3, <1>4, <1>6, <1>7, EntryFollows
<1>9. entered'[1].by = w
  BY <1>1, <1>3, <1>6
<1>10. /\ \A i \in 1 .. Len(doc'.price) : doc'.price[i] = entered'[i].price
       /\ \A i \in 1 .. Len(doc'.date) : doc'.date[i] = entered'[i].date
  <2>1. /\ \A i \in 1 .. Len(doc.price) : i \in 1 .. Len(entered)
        /\ \A i \in 1 .. Len(doc.date) : i \in 1 .. Len(entered)
    BY <1>3, <1>4, <1>5
  <2> QED  BY <1>2, <1>6, <2>1
<1>11. doc'.price \in Seq(Prices) /\ doc'.date \in Seq(Dates)
  BY <1>2, <1>6
<1>12. Follows(updates'[entered'[1].by], Len(doc'.price), Len(doc'.date), entered')
  BY <1>6, <1>8, <1>9
<1>13. \A x \in Writers \ {entered'[1].by} : updates'[x] = <<>>
  BY <1>2, <1>7, <1>9
<1> QED  BY <1>10, <1>11, <1>12, <1>13 DEF EntriesInOrder

LEMMA LandingInOrder ==
    ASSUME BegunInv, EntriesInOrder, NEW w \in Writers, UpdateLands(w)
    PROVE  EntriesInOrder'
<1>0. entered' = entered
  BY DEF UpdateLands
<1>1. Careful' <=> Careful
  BY <1>0 DEF Careful, OneWriter, Distinct, EnteredPrices, EnteredDates
<1> SUFFICES ASSUME Careful PROVE EntriesInOrder'
  BY <1>1 DEF EntriesInOrder
<1> DEFINE a == Len(doc.price)
           b == Len(doc.date)
           u == updates[w]
<1>2. w = entered[1].by
  BY DEF EntriesInOrder, UpdateLands
<1>3. /\ doc.price \in Seq(Prices) /\ doc.date \in Seq(Dates)
      /\ \A i \in 1 .. a : doc.price[i] = entered[i].price
      /\ \A i \in 1 .. b : doc.date[i] = entered[i].date
      /\ Follows(u, a, b, entered)
      /\ \A x \in Writers \ {w} : updates[x] = <<>>
  BY <1>2 DEF EntriesInOrder
<1>4. Len(entered) \in Nat /\ Len(entered) >= 1 /\ entered \in Seq(Entry)
  BY BegunFacts
<1>5. a \in Nat /\ b \in Nat /\ a <= Len(entered) /\ b <= Len(entered)
  BY <1>3, <1>4 DEF Follows
<1>6. /\ u \in Seq(Update) /\ u # <<>>
      /\ updates'[w] = Tail(u)
      /\ \A x \in Writers \ {w} : updates'[x] = updates[x]
      /\ doc \in [price : Seq(Prices) \cup {NoField}, date : Seq(Dates) \cup {NoField}]
  BY DEF UpdateLands, BegunInv, TypeOK
<1>7. Head(u) \in Update
  BY <1>6, HeadTailProperties
<1>8. /\ \A i, j \in 1 .. Len(entered) : entered[i].price = entered[j].price => i = j
      /\ \A i, j \in 1 .. Len(entered) : entered[i].date = entered[j].date => i = j
  <2>1. DOMAIN entered = 1 .. Len(entered)
    BY <1>4
  <2> QED  BY <2>1 DEF Careful, Distinct, EnteredPrices, EnteredDates
<1>9. NoField \notin Seq(Prices) /\ NoField \notin Seq(Dates)
  BY DefaultsAreNotArrays
<1>10. \/ /\ a + 1 <= Len(entered)
          /\ Head(u) = PriceUpdate(entered[a + 1])
          /\ Follows(Tail(u), a + 1, b, entered)
       \/ /\ b + 1 <= Len(entered)
          /\ Head(u) = DateUpdate(entered[b + 1])
          /\ Follows(Tail(u), a, b + 1, entered)
  BY <1>3, <1>4, <1>5, <1>6, LandedFollows
<1>11. ASSUME a + 1 <= Len(entered), Head(u) = PriceUpdate(entered[a + 1]),
              Follows(Tail(u), a + 1, b, entered)
       PROVE  EntriesInOrder'
  <2> DEFINE v == entered[a + 1].price
  <2>1. Head(u).field = "price" /\ Head(u).value = v
    BY <1>11 DEF PriceUpdate
  <2>2. v \in Prices
    BY <1>7, <2>1 DEF Update
  <2>3. doc'.price = ArrayUnion(doc.price, v) /\ doc'.date = doc.date
    BY <1>6, <2>1 DEF UpdateLands
  <2>4. \A i \in 1 .. a : doc.price[i] # v
    <3>1. \A i \in 1 .. a : i \in 1 .. Len(entered) /\ i # a + 1
      BY <1>4, <1>5
    <3>2. a + 1 \in 1 .. Len(entered)
      BY <1>4, <1>5, <1>11
    <3> QED  BY <1>3, <1>8, <3>1, <3>2
  <2>5. /\ doc'.price \in Seq(Prices) /\ Len(doc'.price) = a + 1
        /\ \A i \in 1 .. a : doc'.price[i] = doc.price[i]
        /\ doc'.price[a + 1] = v
    BY <1>3, <1>9, <2>2, <2>3, <2>4, NewValueIsAppended
  <2>6. \A i \in 1 .. Len(doc'.price) : doc'.price[i] = entered'[i].price
    <3> SUFFICES ASSUME NEW i \in 1 .. a + 1 PROVE doc'.price[i] = entered[i].price
      BY <1>0, <2>5
    <3>1. i \in 1 .. a \/ i = a + 1
      BY <1>5
    <3> QED  BY <1>3, <2>5, <3>1
  <2>7. \A i \in 1 .. Len(doc'.date) : doc'.date[i] = entered'[i].date
    BY <1>0, <1>3, <2>3
  <2>8. Follows(updates'[entered'[1].by], Len(doc'.price), Len(doc'.date), entered')
    BY <1>0, <1>2, <1>6, <1>11, <2>3, <2>5
  <2>9. \A x \in Writers \ {entered'[1].by} : updates'[x] = <<>>
    BY <1>0, <1>2, <1>3, <1>6
  <2>10. doc'.price \in Seq(Prices) /\ doc'.date \in Seq(Dates)
    BY <1>3, <2>3, <2>5
  <2> QED  BY <2>6, <2>7, <2>8, <2>9, <2>10 DEF EntriesInOrder
<1>12. ASSUME b + 1 <= Len(entered), Head(u) = DateUpdate(entered[b + 1]),
              Follows(Tail(u), a, b + 1, entered)
       PROVE  EntriesInOrder'
  <2> DEFINE v == entered[b + 1].date
  <2>1. Head(u).field = "date" /\ Head(u).value = v
    BY <1>12 DEF DateUpdate
  <2>2. v \in Dates
    BY <1>7, <2>1 DEF Update
  <2>3. doc'.date = ArrayUnion(doc.date, v) /\ doc'.price = doc.price
    BY <1>6, <2>1 DEF UpdateLands
  <2>4. \A i \in 1 .. b : doc.date[i] # v
    <3>1. \A i \in 1 .. b : i \in 1 .. Len(entered) /\ i # b + 1
      BY <1>4, <1>5
    <3>2. b + 1 \in 1 .. Len(entered)
      BY <1>4, <1>5, <1>12
    <3> QED  BY <1>3, <1>8, <3>1, <3>2
  <2>5. /\ doc'.date \in Seq(Dates) /\ Len(doc'.date) = b + 1
        /\ \A i \in 1 .. b : doc'.date[i] = doc.date[i]
        /\ doc'.date[b + 1] = v
    BY <1>3, <1>9, <2>2, <2>3, <2>4, NewValueIsAppended
  <2>6. \A i \in 1 .. Len(doc'.date) : doc'.date[i] = entered'[i].date
    <3> SUFFICES ASSUME NEW i \in 1 .. b + 1 PROVE doc'.date[i] = entered[i].date
      BY <1>0, <2>5
    <3>1. i \in 1 .. b \/ i = b + 1
      BY <1>5
    <3> QED  BY <1>3, <2>5, <3>1
  <2>7. \A i \in 1 .. Len(doc'.price) : doc'.price[i] = entered'[i].price
    BY <1>0, <1>3, <2>3
  <2>8. Follows(updates'[entered'[1].by], Len(doc'.price), Len(doc'.date), entered')
    BY <1>0, <1>2, <1>6, <1>12, <2>3, <2>5
  <2>9. \A x \in Writers \ {entered'[1].by} : updates'[x] = <<>>
    BY <1>0, <1>2, <1>3, <1>6
  <2>10. doc'.price \in Seq(Prices) /\ doc'.date \in Seq(Dates)
    BY <1>3, <2>3, <2>5
  <2> QED  BY <2>6, <2>7, <2>8, <2>9, <2>10 DEF EntriesInOrder
<1> QED  BY <1>10, <1>11, <1>12

LEMMA InitInOrder == Init => BegunInv /\ EntriesInOrder
<1> SUFFICES ASSUME Init PROVE BegunInv /\ EntriesInOrder
  OBVIOUS
<1>1. PICK w \in Writers :
        entered = <<[by |-> w,
                     price |-> LastOf(Decode(doc).price),
                     date |-> LastOf(Decode(doc).date)]>>
  BY DEF Init
<1>2. /\ doc.price = NoField \/ \E p \in Prices : doc.price = <<p>>
      /\ doc.date = NoField \/ \E t \in Dates : doc.date = <<t>>
      /\ \A x \in Writers : updates[x] = <<>>
  BY DEF Init
<1>3. /\ Len(entered) = 1 /\ entered[1].by = w
      /\ entered[1].price = LastOf(Decode(doc).price)
      /\ entered[1].date = LastOf(Decode(doc).date)
  BY <1>1
<1>4. BegunInv
  BY <1>3, InitTypeOK DEF BegunInv
<1>5. ASSUME Careful
      PROVE  /\ doc.price \in Seq(Prices) /\ Len(doc.price) = 1
             /\ doc.price[1] = entered[1].price
  <2>1. doc.price # NoField
    BY <1>3, <1>5 DEF Careful, Decode, LastOf
  <2>2. PICK p \in Prices : doc.price = <<p>>
    BY <1>2, <2>1
  <2>3. Decode(doc).price = <<p>>
    BY <2>1, <2>2 DEF Decode
  <2>4. LastOf(<<p>>) = p
    BY DEF LastOf
  <2> QED  BY <1>3, <2>2, <2>3, <2>4
<1>6. ASSUME Careful
      PROVE  /\ doc.date \in Seq(Dates) /\ Len(doc.date) = 1
             /\ doc.date[1] = entered[1].date
  <2>1. doc.date # NoField
    BY <1>3, <1>6 DEF Careful, Decode, LastOf
  <2>2. PICK t \in Dates : doc.date = <<t>>
    BY <1>2, <2>1
  <2>3. Decode(doc).date = <<t>>
    BY <2>1, <2>2 DEF Decode
  <2>4. LastOf(<<t>>) = t
    BY DEF LastOf
  <2> QED  BY <1>3, <2>2, <2>3, <2>4
<1>7. Follows(<<>>, 1, 1, entered)
  BY <1>3 DEF Follows
<1>8. ASSUME Careful
      PROVE  Follows(updates[entered[1].by], Len(doc.price), Len(doc.date), entered)
  BY <1>2, <1>3, <1>5, <1>6, <1>7, <1>8
<1> QED  BY <1>2, <1>4, <1>5, <1>6, <1>8 DEF EntriesInOrder

LEMMA NextInOrder ==
    BegunInv /\ EntriesInOrder /\ [Next]_vars => (BegunInv /\ EntriesInOrder)'
<1> SUFFICES ASSUME BegunInv, EntriesInOrder, [Next]_vars PROVE BegunInv' /\ EntriesInOrder'
  OBVIOUS
<1>1. TypeOK'
  BY NextTypeOK DEF BegunInv
<1>2. entered \in Seq(Entry) /\ Len(entered) \in Nat /\ Len(entered) >= 1
  BY BegunFacts
<1>3. ASSUME NEW w \in Writers, NEW p \in Prices, NEW t \in Dates, ModifyPressed(w, p, t)
      PROVE  BegunInv' /\ EntriesInOrder'
  <2>1. Len(entered') = Len(entered) + 1
    BY <1>2, <1>3 DEF ModifyPressed
  <2> QED  BY <1>1, <1>2, <1>3, <2>1, ModifyInOrder DEF BegunInv
<1>4. ASSUME NEW w \in Writers, UpdateLands(w)
      PROVE  BegunInv' /\ EntriesInOrder'
  <2>1. entered' = entered
    BY <1>4 DEF UpdateLands
  <2> QED  BY <1>1, <1>2, <1>4, <2>1, LandingInOrder DEF BegunInv
<1>5. CASE UNCHANGED vars
  BY <1>1, <1>2, <1>5 DEF vars, BegunInv, EntriesInOrder, Careful, OneWriter, Distinct,
                          EnteredPrices, EnteredDates
<1> QED  BY <1>3, <1>4, <1>5 DEF Next

(* What one phone entered, no price and no date twice, is what the chart   *)
(* draws once all of it has landed: each price over its own date, in the   *)
(* order of the entries.                                                   *)
THEOREM ChartAlwaysTheEntries == Spec => []ChartIsTheEntries
<1>1. BegunInv /\ EntriesInOrder => ChartIsTheEntries
  <2> SUFFICES ASSUME BegunInv, EntriesInOrder, Quiet, Careful
               PROVE  Chart(Item) = [i \in DOMAIN entered |->
                                       [price |-> entered[i].price, date |-> entered[i].date]]
    BY DEF ChartIsTheEntries, Careful
  <2> DEFINE a == Len(doc.price)
             b == Len(doc.date)
             u == updates[entered[1].by]
  <2>1. /\ doc.price \in Seq(Prices) /\ doc.date \in Seq(Dates)
        /\ \A i \in 1 .. a : doc.price[i] = entered[i].price
        /\ \A i \in 1 .. b : doc.date[i] = entered[i].date
        /\ Follows(u, a, b, entered)
    BY DEF EntriesInOrder
  <2>2. Len(entered) \in Nat /\ entered \in Seq(Entry) /\ entered[1].by \in Writers
    BY BegunFacts
  <2>3. a \in Nat /\ b \in Nat /\ Len(u) = 0
    BY <2>1, <2>2 DEF Quiet
  <2>4. a = Len(entered) /\ b = Len(entered)
    <3>1. b <= a /\ a <= Len(entered) /\ Len(u) = 2 * Len(entered) - a - b
      BY <2>1 DEF Follows
    <3> HIDE DEF a, b, u
    <3> QED  BY <2>2, <2>3, <3>1
  <2>5. Decode(doc).price = doc.price /\ Decode(doc).date = doc.date
    BY <2>1, DefaultsAreNotArrays DEF Decode
  <2>6. Item.price = doc.price /\ Item.date = doc.date
    BY <2>3, <2>4, <2>5 DEF Item, Align, PadTo
  <2>7. Chart(Item) = [i \in 1 .. a |-> [price |-> doc.price[i], date |-> doc.date[i]]]
    <3>1. /\ CreateItem(doc.price, doc.date) = [i \in 1 .. a |-> doc.date[i]]
          /\ Len(CreateItem(doc.price, doc.date)) = a
      BY <2>3 DEF CreateItem
    <3>2. Chart(Item) = [i \in 1 .. a |-> [price |-> doc.price[i],
                                           date |-> CreateItem(doc.price, doc.date)[i]]]
      BY <2>6, <3>1 DEF Chart
    <3> QED  BY <3>1, <3>2
  <2>8. DOMAIN entered = 1 .. a
    BY <2>2, <2>4
  <2> QED  BY <2>1, <2>4, <2>7, <2>8
<1> QED  BY <1>1, InitInOrder, NextInOrder, PTL DEF Spec

================================================================================
