------------------------------ MODULE PriceHistory ------------------------------
(***************************************************************************)
(* The life of one document: the popup creates it with one price and one   *)
(* date, the detail screens of one or more phones add entries to it. An    *)
(* entry is two separate updates, first the price, then the date, each an  *)
(* arrayUnion that reaches the backend on its own; one phone's updates     *)
(* arrive in the order it made them, those of two phones interleave.       *)
(*                                                                         *)
(* `entered` is a history variable: the entries in the order they were     *)
(* made. The code keeps no such list, it only has the two arrays.          *)
(***************************************************************************)
EXTENDS PriceArrays

CONSTANTS
    Writers,    \* the phones
    Prices,     \* what may be typed as a price
    Dates,      \* what may be typed, or prefilled, as a date
    MaxEntries  \* bound on Len(entered)

ASSUME DefaultsAreNotArrays ==
    NoField \notin Seq(Prices) \cup Seq(Dates)

VARIABLES
    doc,        \* the document as the backend stores it
    updates,    \* updates[w]: what phone w has queued and not yet delivered
    entered     \* every entry made so far, with the phone that made it

vars == <<doc, updates, entered>>

Update == [field : {"price"}, value : Prices] \cup [field : {"date"}, value : Dates]

TypeOK ==
    /\ doc \in [price : Seq(Prices) \cup {NoField}, date : Seq(Dates) \cup {NoField}]
    /\ updates \in [Writers -> Seq(Update)]
    /\ entered \in Seq([by : Writers,
                        price : Prices \cup {PriceError},
                        date : Dates \cup {EmptyDate}])

(* A document of this app has both arrays; one written by other means may  *)
(* lack either, which is what the defaults of Decode are for.              *)
Init ==
    /\ doc \in [price : {<<p>> : p \in Prices} \cup {NoField},
                date : {<<t>> : t \in Dates} \cup {NoField}]
    /\ updates = [w \in Writers |-> <<>>]
    /\ \E w \in Writers :
         entered = <<[by |-> w,
                      price |-> LastOf(Decode(doc).price),
                      date |-> LastOf(Decode(doc).date)]>>

(* A wrong form: the two fields exchanged.                                 *)
EntryUpdates_Swapped(p, t) ==
    <<[field |-> "date", value |-> p], [field |-> "price", value |-> t]>>

(* The two updateData calls of modifyPressed.                              *)
EntryUpdates(p, t) ==
    <<[field |-> "price", value |-> p], [field |-> "date", value |-> t]>>

ModifyPressed(w, p, t) ==
    /\ Len(entered) < MaxEntries
    /\ updates' = [updates EXCEPT ![w] = @ \o EntryUpdates(p, t)]
    /\ entered' = Append(entered, [by |-> w, price |-> p, date |-> t])
    /\ UNCHANGED doc

(* The backend applies the oldest update of one phone.                     *)
UpdateLands(w) ==
    /\ updates[w] # <<>>
    /\ LET u == Head(updates[w])
       IN doc' = IF u.field = "price"
                 THEN [doc EXCEPT !.price = ArrayUnion(@, u.value)]
                 ELSE [doc EXCEPT !.date = ArrayUnion(@, u.value)]
    /\ updates' = [updates EXCEPT ![w] = Tail(@)]
    /\ UNCHANGED entered

Next ==
    \E w \in Writers :
        \/ \E p \in Prices, t \in Dates : ModifyPressed(w, p, t)
        \/ UpdateLands(w)

Spec == Init /\ [][Next]_vars

--------------------------------------------------------------------------------
(* Properties *)

Item == Align(Decode(doc))

Quiet == \A w \in Writers : updates[w] = <<>>

(* Whatever part of an entry has landed, drawing the list row and the      *)
(* chart stays in bounds: after the padding of queryforServer there is a   *)
(* last price, and createItem finds a date for every price and no date is  *)
(* left over without a price.                                              *)
DrawingInBounds ==
    /\ Len(Item.price) > 0
    /\ CreateItemInRange(Item.price, Item.date)
    /\ CreateItemInRange(Item.date, Item.price)

Elements(arr) == {arr[i] : i \in DOMAIN arr}

(* No update overwrites another one: once everything has landed, each      *)
(* price and each date ever entered, by whatever phone, is in the arrays.  *)
EntriesKept ==
    Quiet =>
        \A i \in 1 .. Len(entered) :
            /\ entered[i].price # PriceError => entered[i].price \in Elements(Decode(doc).price)
            /\ entered[i].date # EmptyDate => entered[i].date \in Elements(Decode(doc).date)

Distinct(arr) == \A i, j \in DOMAIN arr : arr[i] = arr[j] => i = j

OneWriter == \A i \in DOMAIN entered : entered[i].by = entered[1].by

EnteredPrices == [i \in DOMAIN entered |-> entered[i].price]
EnteredDates == [i \in DOMAIN entered |-> entered[i].date]

(* When one phone made all the entries and never repeated a price or a     *)
(* date, the chart draws exactly these entries, in order, with each price  *)
(* over its own date.                                                      *)
ChartIsTheEntries ==
    (/\ Quiet
     /\ OneWriter
     /\ Distinct(EnteredPrices) /\ Distinct(EnteredDates)
     /\ entered[1].price # PriceError /\ entered[1].date # EmptyDate)
    => Chart(Item) = [i \in DOMAIN entered |-> [price |-> entered[i].price,
                                                date |-> entered[i].date]]

(* What the dictionary of didSelectRowAt calls "LastPrice", and the detail *)
(* screen shows as the price, is the price entered last. It is not: a      *)
(* price the product had before is dropped by arrayUnion.                  *)
LastPriceIsTheLatest ==
    (Quiet /\ OneWriter) => LastPrice(Item) = entered[Len(entered)].price

================================================================================
