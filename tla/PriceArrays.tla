------------------------------ MODULE PriceArrays ------------------------------
(***************************************************************************)
(* The two parallel arrays of a "Market Price" document and what the app   *)
(* computes from them: how a price or a date is added to the stored array, *)
(* how a document is decoded, how the list pads the shorter array, and     *)
(* what the detail chart draws.                                            *)
(*                                                                         *)
(* A price or a date is an opaque value: the program compares it, copies   *)
(* it and asks whether it parses, nothing more.                            *)
(***************************************************************************)
EXTENDS Integers, Sequences

CONSTANTS
    NoField,    \* the field is absent from the stored document
    PriceError, \* the text "Price Error"
    EmptyDate   \* the text "", String()

(* The last element, `arr.last!!`; the force unwrap needs a non-empty arr. *)
LastOf(arr) == arr[Len(arr)]

(* Two wrong forms: the new element first; the new element alone.          *)
ArrayUnion_Prepends(arr, v) ==
    IF arr = NoField THEN <<v>>
    ELSE IF \E i \in 1 .. Len(arr) : arr[i] = v THEN arr
    ELSE <<v>> \o arr

ArrayUnion_Overwrites(arr, v) == <<v>>

(* FieldValue.arrayUnion([v]): v is appended unless the array holds it     *)
(* already; a field that is no array counts as the empty array.            *)
ArrayUnion(arr, v) ==
    IF arr = NoField THEN <<v>>
    ELSE IF \E i \in 1 .. Len(arr) : arr[i] = v THEN arr
    ELSE Append(arr, v)

(* GroceryItem.init(document:): the two arrays with their defaults.        *)
Decode(doc) ==
    [price |-> IF doc.price = NoField THEN <<PriceError>> ELSE doc.price,
     date  |-> IF doc.date = NoField THEN <<EmptyDate>> ELSE doc.date]

(* Two wrong forms: one element too few; a blank instead of the last one.  *)
PadTo_Short(arr, n) ==
    IF n <= Len(arr) + 1 THEN arr
    ELSE [i \in 1 .. n - 1 |-> IF i <= Len(arr) THEN arr[i] ELSE LastOf(arr)]

PadTo_Blank(arr, n) ==
    IF n <= Len(arr) THEN arr
    ELSE [i \in 1 .. n |-> IF i <= Len(arr) THEN arr[i] ELSE NoField]

(* The loop of queryforServer: the last element of arr, as decoded, is     *)
(* appended until arr has n elements.                                      *)
PadTo(arr, n) ==
    IF n <= Len(arr) THEN arr
    ELSE [i \in 1 .. n |-> IF i <= Len(arr) THEN arr[i] ELSE LastOf(arr)]

(* A wrong form: only missing prices are filled in.                        *)
Align_PricesOnly(item) ==
    [price |-> PadTo(item.price, Len(item.date)), date |-> item.date]

(* One entry of `items`: the shorter of the two arrays is padded.          *)
Align(item) ==
    [price |-> PadTo(item.price, Len(item.date)),
     date  |-> PadTo(item.date, Len(item.price))]

(* The price a cell and the detail screen show.                            *)
LastPrice(item) == LastOf(item.price)

(* DetailViewController.createItem: the label of the i-th bar is time[i],  *)
(* an out-of-range trap when there are fewer labels than prices.           *)
CreateItem(objectArr, time) == [i \in 1 .. Len(objectArr) |-> time[i]]

CreateItemInRange(objectArr, time) == Len(objectArr) <= Len(time)

(* The bars of the detail chart, each with its label.                      *)
Chart(item) ==
    LET months == CreateItem(item.price, item.date)
    IN [i \in 1 .. Len(months) |-> [price |-> item.price[i], date |-> months[i]]]

================================================================================
