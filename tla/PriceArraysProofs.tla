--------------------------- MODULE PriceArraysProofs ---------------------------
(***************************************************************************)
(* What the operators on the price and date arrays return, preserve and    *)
(* bound, for arrays of any length over any set of values.                 *)
(***************************************************************************)
EXTENDS PriceArrays, SequenceTheorems, TLAPS

(* A field after arrayUnion is a non-empty array of the values it may      *)
(* hold: the transform never leaves the field empty or absent              *)
(* (ArrayTransform::Rep::Apply).                                           *)
LEMMA ArrayUnionType ==
    ASSUME NEW S, NEW arr \in Seq(S) \cup {NoField}, NoField \notin Seq(S), NEW v \in S
    PROVE  ArrayUnion(arr, v) \in Seq(S) /\ ArrayUnion(arr, v) # <<>>
<1>1. CASE arr = NoField
  BY <1>1 DEF ArrayUnion
<1>2. CASE arr # NoField
  BY <1>2 DEF ArrayUnion
<1> QED  BY <1>1, <1>2

(* arrayUnion keeps every element of the array at its place.               *)
LEMMA ArrayUnionKeeps ==
    ASSUME NEW S, NEW arr \in Seq(S), NoField \notin Seq(S), NEW v \in S
    PROVE  /\ Len(arr) <= Len(ArrayUnion(arr, v))
           /\ \A i \in 1 .. Len(arr) : ArrayUnion(arr, v)[i] = arr[i]
<1>1. ArrayUnion(arr, v) = arr \/ ArrayUnion(arr, v) = Append(arr, v)
  BY DEF ArrayUnion
<1> QED  BY <1>1

(* The value is in the array that arrayUnion returns.                      *)
LEMMA ArrayUnionHolds ==
    ASSUME NEW S, NEW arr \in Seq(S), NoField \notin Seq(S), NEW v \in S
    PROVE  \E i \in 1 .. Len(ArrayUnion(arr, v)) : ArrayUnion(arr, v)[i] = v
<1>1. CASE \E i \in 1 .. Len(arr) : arr[i] = v
  BY <1>1 DEF ArrayUnion
<1>2. CASE ~ \E i \in 1 .. Len(arr) : arr[i] = v
  <2>1. ArrayUnion(arr, v) = Append(arr, v)
    BY <1>2 DEF ArrayUnion
  <2>2. /\ Len(Append(arr, v)) = Len(arr) + 1
        /\ Append(arr, v)[Len(arr) + 1] = v
        /\ Len(arr) + 1 \in 1 .. Len(Append(arr, v))
    OBVIOUS
  <2> QED  BY <2>1, <2>2
<1> QED  BY <1>1, <1>2

(* Padding a non-empty array to n elements gives exactly n, or leaves a    *)
(* longer array alone, and keeps what was there (queryforServer).          *)
LEMMA PadToLength ==
    ASSUME NEW S, NEW arr \in Seq(S), arr # <<>>, NEW n \in Nat
    PROVE  /\ PadTo(arr, n) \in Seq(S)
           /\ Len(PadTo(arr, n)) = IF n <= Len(arr) THEN Len(arr) ELSE n
           /\ \A i \in 1 .. Len(arr) : PadTo(arr, n)[i] = arr[i]
<1>1. CASE n <= Len(arr)
  BY <1>1 DEF PadTo
<1>2. CASE ~(n <= Len(arr))
  <2> DEFINE padded == [i \in 1 .. n |-> IF i <= Len(arr) THEN arr[i] ELSE LastOf(arr)]
  <2>1. LastOf(arr) \in S
    BY DEF LastOf
  <2>2. padded \in [1 .. n -> S]
    BY <2>1
  <2>3. padded \in Seq(S) /\ Len(padded) = n
    BY <2>2
  <2>4. PadTo(arr, n) = padded
    BY <1>2 DEF PadTo
  <2>5. \A i \in 1 .. Len(arr) : padded[i] = arr[i]
    BY <1>2
  <2> QED  BY <1>2, <2>3, <2>4, <2>5
<1> QED  BY <1>1, <1>2

(* After the padding of queryforServer a row has as many dates as prices,  *)
(* at least one, and the prefixes are those of the document.               *)
LEMMA AlignLengths ==
    ASSUME NEW S, NEW T, NEW item,
           item.price \in Seq(S), item.price # <<>>,
           item.date \in Seq(T), item.date # <<>>
    PROVE  /\ Align(item).price \in Seq(S)
           /\ Align(item).date \in Seq(T)
           /\ Len(Align(item).price) = Len(Align(item).date)
           /\ Len(Align(item).price) > 0
<1>1. Len(item.price) \in Nat \ {0} /\ Len(item.date) \in Nat \ {0}
  OBVIOUS
<1>2. /\ PadTo(item.price, Len(item.date)) \in Seq(S)
      /\ Len(PadTo(item.price, Len(item.date)))
           = IF Len(item.date) <= Len(item.price) THEN Len(item.price) ELSE Len(item.date)
  BY <1>1, PadToLength
<1>3. /\ PadTo(item.date, Len(item.price)) \in Seq(T)
      /\ Len(PadTo(item.date, Len(item.price)))
           = IF Len(item.price) <= Len(item.date) THEN Len(item.date) ELSE Len(item.price)
  BY <1>1, PadToLength
<1> QED  BY <1>1, <1>2, <1>3 DEF Align

================================================================================
