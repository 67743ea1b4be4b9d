--------------------------- MODULE MarketClientProofs ---------------------------
(***************************************************************************)
(* Theorems of MarketClient: for any number of phones, documents, writes,  *)
(* queries and faults, what the collection promises to the app. First the  *)
(* documents at the backend and in the caches, then the answers and        *)
(* callbacks on their way to the app, then what the cache of the only      *)
(* phone has to do with the backend.                                       *)
(***************************************************************************)
EXTENDS MarketClient, PriceArraysProofs, WellFoundedInduction

--------------------------------------------------------------------------------
(* What one write does to a set of documents *)

LEMMA UniteType ==
    ASSUME NEW S, NEW arr \in Seq(S), NEW more \in Seq(S), NoField \notin Seq(S)
    PROVE  /\ Unite(arr, more) \in Seq(S)
           /\ arr # <<>> => Unite(arr, more) # <<>>
           /\ Len(arr) <= Len(Unite(arr, more))
           /\ \A i \in 1 .. Len(arr) : Unite(arr, more)[i] = arr[i]
<1>1. CASE more = <<>>
  BY <1>1 DEF Unite
<1>2. CASE more # <<>>
  <2>1. PICK v \in S : v = more[1]
    BY <1>2
  <2>2. ArrayUnion(arr, v) \in Seq(S) /\ ArrayUnion(arr, v) # <<>>
    BY <2>1, ArrayUnionType
  <2>3. /\ Len(arr) <= Len(ArrayUnion(arr, v))
        /\ \A i \in 1 .. Len(arr) : ArrayUnion(arr, v)[i] = arr[i]
    BY <2>1, ArrayUnionKeeps
  <2>4. Unite(arr, more) = ArrayUnion(arr, v)
    BY <1>2, <2>1 DEF Unite
  <2> QED  BY <2>2, <2>3, <2>4
<1> QED  BY <1>1, <1>2

(* A write that is accepted makes the document it names what Applied says, *)
(* any other leaves it alone; no write touches another document.           *)
LEMMA ApplyToKeys ==
    ASSUME NEW docs \in Contents, NEW w \in Write, NEW k \in Keys
    PROVE  ApplyTo(docs, w)[k] = IF k = w.key /\ Accepts(w, docs[k]) THEN Applied(w, docs[k])
                                 ELSE docs[k]
<1>1. docs \in [Keys -> Doc \cup {NoDoc}] /\ w.key \in Keys
  BY DEF Contents, Write
<1> QED  BY <1>1 DEF ApplyTo

LEMMA AppliedType ==
    ASSUME NEW w \in Write, NEW x \in Doc \cup {NoDoc}
    PROVE  /\ Applied(w, x) \in Doc \cup {NoDoc}
           /\ w.op = "set" => Applied(w, x) = [price |-> w.price, date |-> w.date]
           /\ w.op = "delete" => Applied(w, x) = NoDoc
           /\ w.op = "update" /\ x # NoDoc =>
                Applied(w, x) = [price |-> Unite(x.price, w.price), date |-> Unite(x.date, w.date)]
<1>1. /\ w.op \in {"set", "update", "delete"}
      /\ w.price \in Seq(Prices) /\ w.date \in Seq(Dates)
  BY DEF Write
<1>2. NoField \notin Seq(Prices) /\ NoField \notin Seq(Dates)
  BY MarketAssumption DEF MarketAssumption
<1>3. CASE w.op = "set"
  BY <1>1, <1>3 DEF Applied, Doc
<1>4. CASE w.op = "delete"
  BY <1>4 DEF Applied
<1>5. CASE w.op = "update"
  <2> DEFINE base == IF x = NoDoc THEN [price |-> <<>>, date |-> <<>>] ELSE x
  <2>1. base.price \in Seq(Prices) /\ base.date \in Seq(Dates)
    BY DEF Doc
  <2>2. Unite(base.price, w.price) \in Seq(Prices)
    BY <1>1, <1>2, <2>1, UniteType
  <2>3. Unite(base.date, w.date) \in Seq(Dates)
    BY <1>1, <1>2, <2>1, UniteType
  <2>4. Applied(w, x) = [price |-> Unite(base.price, w.price), date |-> Unite(base.date, w.date)]
    BY <1>5 DEF Applied
  <2>5. Applied(w, x) \in Doc
    BY <2>2, <2>3, <2>4 DEF Doc
  <2> QED  BY <1>5, <2>4, <2>5
<1> QED  BY <1>1, <1>3, <1>4, <1>5

LEMMA ApplyToType ==
    ASSUME NEW docs \in Contents, NEW w \in Write
    PROVE  ApplyTo(docs, w) \in Contents
<1>1. docs \in [Keys -> Doc \cup {NoDoc}] /\ w.key \in Keys
  BY DEF Contents, Write
<1>2. Applied(w, docs[w.key]) \in Doc \cup {NoDoc}
  BY <1>1, AppliedType
<1> QED  BY <1>1, <1>2 DEF ApplyTo, Contents

(* A setData with a price and a date, an update of what exists and a       *)
(* delete leave no document with an empty array.                           *)
LEMMA ApplyToHistory ==
    ASSUME NEW docs \in Contents, NEW w \in Write,
           w.op = "set" => w.price # <<>> /\ w.date # <<>>,
           \A k \in Keys : HasHistory(docs[k])
    PROVE  \A k \in Keys : HasHistory(ApplyTo(docs, w)[k])
<1> SUFFICES ASSUME NEW k \in Keys, k = w.key, Accepts(w, docs[k])
             PROVE  HasHistory(Applied(w, docs[k]))
  BY ApplyToKeys
<1>1. docs[k] \in Doc \cup {NoDoc} /\ HasHistory(docs[k])
  BY DEF Contents
<1>2. w.op \in {"set", "update", "delete"} /\ w.price \in Seq(Prices) /\ w.date \in Seq(Dates)
  BY DEF Write
<1>3. CASE w.op = "set"
  <2>1. Applied(w, docs[k]) = [price |-> w.price, date |-> w.date]
    BY <1>1, <1>3, AppliedType
  <2> QED  BY <1>3, <2>1 DEF HasHistory
<1>4. CASE w.op = "delete"
  BY <1>1, <1>4, AppliedType DEF HasHistory
<1>5. CASE w.op = "update"
  <2>1. docs[k] # NoDoc
    BY <1>5 DEF Accepts
  <2>2. /\ docs[k].price \in Seq(Prices) /\ docs[k].price # <<>>
        /\ docs[k].date \in Seq(Dates) /\ docs[k].date # <<>>
    BY <1>1, <2>1 DEF Doc, HasHistory
  <2>3. NoField \notin Seq(Prices) /\ NoField \notin Seq(Dates)
    BY MarketAssumption DEF MarketAssumption
  <2>4. Unite(docs[k].price, w.price) # <<>>
    BY <1>2, <2>2, <2>3, UniteType
  <2>5. Unite(docs[k].date, w.date) # <<>>
    BY <1>2, <2>2, <2>3, UniteType
  <2>6. Applied(w, docs[k]) = [price |-> Unite(docs[k].price, w.price),
                               date |-> Unite(docs[k].date, w.date)]
    BY <1>1, <1>5, <2>1, AppliedType
  <2> QED  BY <2>4, <2>5, <2>6 DEF HasHistory
<1> QED  BY <1>2, <1>3, <1>4, <1>5

(* Arrays that agree where both have elements are prefix and extension.    *)
LEMMA PrefixByElements ==
    ASSUME NEW S, NEW s \in Seq(S), NEW t \in Seq(S), Len(s) <= Len(t),
           \A i \in 1 .. Len(s) : t[i] = s[i]
    PROVE  IsPrefix(s, t)
<1>1. Len(s) \in Nat /\ Len(t) \in Nat
  OBVIOUS
<1>2. /\ SubSeq(s, 1, Len(s)) \in Seq(S) /\ SubSeq(t, 1, Len(s)) \in Seq(S)
      /\ Len(SubSeq(s, 1, Len(s))) = Len(s) /\ Len(SubSeq(t, 1, Len(s))) = Len(s)
      /\ \A i \in 1 .. Len(s) : SubSeq(s, 1, Len(s))[i] = s[i]
      /\ \A i \in 1 .. Len(s) : SubSeq(t, 1, Len(s))[i] = t[i]
  BY <1>1
<1>3. SubSeq(s, 1, Len(s)) = SubSeq(t, 1, Len(s))
  BY <1>2, SeqEqual
<1> QED  BY <1>3 DEF IsPrefix

(* An update that is accepted only lengthens the arrays of its document.   *)
LEMMA UpdateGrows ==
    ASSUME NEW x \in Doc, NEW w \in Write, w.op = "update"
    PROVE  /\ IsPrefix(x.price, Applied(w, x).price)
           /\ IsPrefix(x.date, Applied(w, x).date)
<1>1. /\ x.price \in Seq(Prices) /\ x.date \in Seq(Dates)
      /\ w.price \in Seq(Prices) /\ w.date \in Seq(Dates)
  BY DEF Doc, Write
<1>2. x # NoDoc /\ NoField \notin Seq(Prices) /\ NoField \notin Seq(Dates)
  BY MarketAssumption DEF MarketAssumption
<1>3. Applied(w, x) = [price |-> Unite(x.price, w.price), date |-> Unite(x.date, w.date)]
  BY <1>2, AppliedType
<1>4. IsPrefix(x.price, Unite(x.price, w.price))
  BY <1>1, <1>2, UniteType, PrefixByElements
<1>5. IsPrefix(x.date, Unite(x.date, w.date))
  BY <1>1, <1>2, UniteType, PrefixByElements
<1> QED  BY <1>3, <1>4, <1>5

--------------------------------------------------------------------------------
(* The inductive invariant *)

(* There are never more replies than writes to be answered.                *)
RepliesMatch == \A d \in Devices : Len(replies[d]) <= Len(pending[d])

(* document() has drawn the name of every document there is.               *)
NamesAreUsed == \A k \in Keys : Exists(server, k) => k \in used

(* A queued setData carries a price and a date.                            *)
SetCarriesHistory(w) == w.op = "set" => w.price # <<>> /\ w.date # <<>>

QueuedSets == \A d \in Devices : \A i \in 1 .. Len(pending[d]) : SetCarriesHistory(pending[d][i])

StoreInv ==
    /\ StoreTypeOK
    /\ RepliesMatch
    /\ NamesAreUsed
    /\ QueuedSets
    /\ DocsHaveHistory
    /\ CreationsAreFresh

LEMMA InitStoreInv == MarketInit => StoreInv
<1> SUFFICES ASSUME MarketInit PROVE StoreInv
  OBVIOUS
<1>1. PICK some \in SUBSET Keys : \E p \in Prices, t \in Dates :
        /\ used = some
        /\ server = [k \in Keys |-> IF k \in some THEN [price |-> <<p>>, date |-> <<t>>] ELSE NoDoc]
  BY DEF MarketInit
<1>2. PICK p \in Prices, t \in Dates :
        /\ used = some
        /\ server = [k \in Keys |-> IF k \in some THEN [price |-> <<p>>, date |-> <<t>>] ELSE NoDoc]
  BY <1>1
<1>3. [price |-> <<p>>, date |-> <<t>>] \in Doc
  BY DEF Doc
<1>4. server \in Contents
  BY <1>2, <1>3 DEF Contents
<1>5. /\ cache = [d \in Devices |-> [k \in Keys |-> NoDoc]]
      /\ pending = [d \in Devices |-> <<>>]
      /\ replies = [d \in Devices |-> <<>>]
      /\ landed = [d \in Devices |-> 0]
  BY DEF MarketInit
<1>6. StoreTypeOK
  BY <1>2, <1>4, <1>5 DEF StoreTypeOK, Contents
<1>7. RepliesMatch /\ QueuedSets /\ CreationsAreFresh
  BY <1>5 DEF RepliesMatch, QueuedSets, CreationsAreFresh
<1>8. NamesAreUsed
  BY <1>2 DEF NamesAreUsed, Exists
<1>9. DocsHaveHistory
  BY <1>2, <1>5 DEF DocsHaveHistory, HasHistory
<1> QED  BY <1>6, <1>7, <1>8, <1>9 DEF StoreInv

(* A handler issues one or two writes; only the first can be a setData,    *)
(* and then of a name nobody has used, with a price and a date.            *)
LEMMA HandlerWritesFacts ==
    ASSUME NEW ws \in HandlerWrites
    PROVE  /\ ws \in Seq(Write) /\ ws # <<>>
           /\ \A i \in 1 .. Len(ws) : ws[i].op = "set" =>
                /\ i = 1 /\ ws[i].key \in Keys \ used
                /\ ws[i].price # <<>> /\ ws[i].date # <<>>
<1>1. CASE \E k \in Keys \ used, p \in Prices, t \in Dates, cb \in Completions :
             ws = <<SetData(k, p, t, cb)>>
  <2>1. PICK k \in Keys \ used, p \in Prices, t \in Dates, cb \in Completions :
          ws = <<SetData(k, p, t, cb)>>
    BY <1>1
  <2>2. /\ SetData(k, p, t, cb) \in Write /\ SetData(k, p, t, cb).key = k
        /\ SetData(k, p, t, cb).price # <<>> /\ SetData(k, p, t, cb).date # <<>>
    BY DEF SetData, Write
  <2> QED  BY <2>1, <2>2
<1>2. CASE \E k \in Keys, p \in Prices, t \in Dates : ws = <<UpdatePrice(k, p), UpdateDate(k, t)>>
  <2>1. PICK k \in Keys, p \in Prices, t \in Dates : ws = <<UpdatePrice(k, p), UpdateDate(k, t)>>
    BY <1>2
  <2>2. UpdatePrice(k, p) \in Write /\ UpdatePrice(k, p).op = "update"
    BY DEF UpdatePrice, Write
  <2>3. UpdateDate(k, t) \in Write /\ UpdateDate(k, t).op = "update"
    BY DEF UpdateDate, Write
  <2> QED  BY <2>1, <2>2, <2>3
<1>3. CASE \E k \in Keys, cb \in Completions : ws = <<Delete(k, cb)>>
  BY <1>3 DEF Delete, Write
<1> QED  BY <1>1, <1>2, <1>3 DEF HandlerWrites

(* A handler of the app.                                                   *)
LEMMA AppStepStoreInv ==
    ASSUME StoreInv, NEW d \in Devices, NEW pop, NEW ws, NEW qs, AppStep(d, pop, ws, qs)
    PROVE  StoreInv'
<1>1. UNCHANGED <<server, cache, replies, landed>>
  BY DEF AppStep, Ask
<1>2. CASE ws = <<>>
  <2>1. UNCHANGED <<pending, used>>
    BY <1>2 DEF AppStep, Ask
  <2> QED  BY <1>1, <2>1 DEF StoreInv, StoreTypeOK, RepliesMatch, NamesAreUsed, QueuedSets,
                            DocsHaveHistory, CreationsAreFresh, Exists
<1>3. CASE ws # <<>>
  <2>1. /\ ws \in HandlerWrites
        /\ pending' = [pending EXCEPT ![d] = pending[d] \o ws]
        /\ used' = IF ws[1].op = "set" THEN used \cup {ws[1].key} ELSE used
    BY <1>3 DEF AppStep, Ask
  <2>2. /\ ws \in Seq(Write) /\ ws # <<>>
        /\ \A i \in 1 .. Len(ws) : ws[i].op = "set" =>
             /\ i = 1 /\ ws[i].key \in Keys \ used
             /\ ws[i].price # <<>> /\ ws[i].date # <<>>
    BY <2>1, HandlerWritesFacts
  <2>3. /\ pending \in [Devices -> Seq(Write)] /\ used \in SUBSET Keys
        /\ pending[d] \in Seq(Write)
        /\ replies \in [Devices -> Seq({"ok", "known", "error"})]
    BY DEF StoreInv, StoreTypeOK
  <2>4. /\ pending[d] \o ws \in Seq(Write)
        /\ Len(pending[d] \o ws) = Len(pending[d]) + Len(ws)
        /\ \A i \in 1 .. Len(pending[d]) + Len(ws) :
             (pending[d] \o ws)[i] = IF i <= Len(pending[d]) THEN pending[d][i]
                                     ELSE ws[i - Len(pending[d])]
    BY <2>2, <2>3, ConcatProperties
  <2>5. /\ pending' \in [Devices -> Seq(Write)] /\ used' \in SUBSET Keys
        /\ used \subseteq used'
    BY <2>1, <2>2, <2>3, <2>4
  <2>6. \A x \in Devices :
          /\ Len(pending[x]) \in Nat /\ Len(pending'[x]) \in Nat
          /\ Len(pending[x]) <= Len(pending'[x])
          /\ \A i \in 1 .. Len(pending[x]) : pending'[x][i] = pending[x][i]
    BY <2>1, <2>2, <2>3, <2>4
  <2>7. ASSUME NEW x \in Devices, NEW i \in 1 .. Len(pending'[x]), i > Len(pending[x]),
               pending'[x][i].op = "set"
        PROVE  /\ x = d /\ i = Len(pending[x]) + 1
               /\ pending'[x][i].key \in Keys \ used
               /\ pending'[x][i].key \in used'
               /\ pending'[x][i].price # <<>> /\ pending'[x][i].date # <<>>
    <3>1. x = d
      BY <2>1, <2>3, <2>7
    <3>2. /\ i - Len(pending[d]) \in 1 .. Len(ws)
          /\ pending'[d][i] = ws[i - Len(pending[d])]
      BY <2>1, <2>2, <2>3, <2>4, <2>6, <2>7, <3>1
    <3>3. i - Len(pending[d]) = 1
      BY <2>2, <2>7, <3>1, <3>2
    <3> QED  BY <2>1, <2>2, <2>6, <2>7, <3>1, <3>2, <3>3
  <2>8. StoreTypeOK'
    BY <1>1, <2>5 DEF StoreInv, StoreTypeOK, Contents
  <2>9. RepliesMatch'
    <3>1. \A x \in Devices : Len(replies[x]) \in Nat /\ Len(replies[x]) <= Len(pending[x])
      BY <2>3 DEF StoreInv, RepliesMatch
    <3> QED  BY <1>1, <2>6, <3>1 DEF RepliesMatch
  <2>10. NamesAreUsed' /\ DocsHaveHistory'
    BY <1>1, <2>5 DEF StoreInv, NamesAreUsed, DocsHaveHistory, Exists
  <2>11. QueuedSets'
    <3> SUFFICES ASSUME NEW x \in Devices, NEW i \in 1 .. Len(pending'[x])
                 PROVE  SetCarriesHistory(pending'[x][i])
      BY DEF QueuedSets
    <3>1. CASE i <= Len(pending[x])
      BY <2>6, <3>1 DEF StoreInv, QueuedSets
    <3>2. CASE i > Len(pending[x])
      BY <2>7, <3>2 DEF SetCarriesHistory
    <3> QED  BY <2>6, <3>1, <3>2
  <2>12. CreationsAreFresh'
    <3> SUFFICES ASSUME NEW x \in Devices, NEW k \in Keys, NEW i \in 1 .. Len(pending'[x]),
                        IsSetOf(pending'[x][i], k)
                 PROVE  /\ k \in used'
                        /\ \A e \in Devices : \A j \in 1 .. Len(pending'[e]) :
                              IsSetOf(pending'[e][j], k) => e = x /\ j = i
                        /\ i > landed'[x] => ~Exists(server', k)
      BY DEF CreationsAreFresh
    <3>1. CASE i <= Len(pending[x])
      <4>1. i \in 1 .. Len(pending[x]) /\ IsSetOf(pending[x][i], k)
        BY <2>6, <3>1
      <4>2. /\ k \in used
            /\ \A e \in Devices : \A j \in 1 .. Len(pending[e]) :
                  IsSetOf(pending[e][j], k) => e = x /\ j = i
            /\ i > landed[x] => ~Exists(server, k)
        BY <4>1 DEF StoreInv, CreationsAreFresh
      <4>3. ASSUME NEW e \in Devices, NEW j \in 1 .. Len(pending'[e]), IsSetOf(pending'[e][j], k)
            PROVE  e = x /\ j = i
        <5>1. j <= Len(pending[e])
          BY <2>6, <2>7, <4>2, <4>3 DEF IsSetOf
        <5>2. j \in 1 .. Len(pending[e]) /\ IsSetOf(pending[e][j], k)
          BY <2>6, <4>3, <5>1
        <5> QED  BY <4>2, <5>2
      <4> QED  BY <1>1, <2>5, <4>2, <4>3
    <3>2. CASE i > Len(pending[x])
      <4>1. x = d /\ i = Len(pending[d]) + 1 /\ k \in Keys \ used /\ k \in used'
        BY <2>7, <3>2 DEF IsSetOf
      <4>2. ~Exists(server', k)
        BY <1>1, <4>1 DEF StoreInv, NamesAreUsed, Exists
      <4>3. ASSUME NEW e \in Devices, NEW j \in 1 .. Len(pending'[e]), IsSetOf(pending'[e][j], k)
            PROVE  e = x /\ j = i
        <5>1. CASE j <= Len(pending[e])
          <6>1. j \in 1 .. Len(pending[e]) /\ IsSetOf(pending[e][j], k)
            BY <2>6, <4>3, <5>1
          <6>2. k \in used
            BY <6>1 DEF StoreInv, CreationsAreFresh
          <6> QED  BY <4>1, <6>2
        <5>2. CASE j > Len(pending[e])
          BY <2>7, <4>1, <4>3, <5>2 DEF IsSetOf
        <5> QED  BY <2>6, <5>1, <5>2
      <4> QED  BY <4>1, <4>2, <4>3
    <3> QED  BY <2>6, <3>1, <3>2
  <2> QED  BY <2>8, <2>9, <2>10, <2>11, <2>12 DEF StoreInv
<1> QED  BY <1>2, <1>3

(* The backend takes the next write of a phone, or rejects it.             *)
LEMMA LandFacts ==
    ASSUME StoreInv, NEW d \in Devices, Land(d)
    PROVE  LET n == Position(d)
               w == pending[d][n]
           IN /\ n \in 1 .. Len(pending[d]) /\ w \in Write /\ SetCarriesHistory(w)
              /\ server \in Contents
              /\ UNCHANGED <<cache, pending, used>>
              /\ \/ /\ Accepts(w, server[w.key])
                    /\ server' = ApplyTo(server, w)
                    /\ replies' = [replies EXCEPT ![d] = Append(replies[d], "ok")]
                    /\ landed' = [landed EXCEPT ![d] = IF landed[d] < n THEN n ELSE landed[d]]
                 \/ /\ replies' = [replies EXCEPT ![d] = Append(replies[d], "error")]
                    /\ UNCHANGED <<server, landed>>
<1>1. Len(replies[d]) \in Nat /\ Len(pending[d]) \in Nat /\ pending[d] \in Seq(Write)
  BY DEF StoreInv, StoreTypeOK
<1>2. Position(d) \in 1 .. Len(pending[d])
  BY <1>1 DEF Land, MaySend, Position
<1>3. pending[d][Position(d)] \in Write /\ SetCarriesHistory(pending[d][Position(d)])
  BY <1>1, <1>2 DEF StoreInv, QueuedSets
<1>4. server \in Contents
  BY DEF StoreInv, StoreTypeOK
<1> QED  BY <1>2, <1>3, <1>4 DEF Land

(* A reply more, to a write that has none yet.                             *)
LEMMA AnotherReply ==
    ASSUME StoreInv, NEW d \in Devices, MaySend(d), NEW r \in {"ok", "error"},
           replies' = [replies EXCEPT ![d] = Append(replies[d], r)], pending' = pending
    PROVE  /\ replies' \in [Devices -> Seq({"ok", "known", "error"})]
           /\ RepliesMatch'
<1>1. /\ replies \in [Devices -> Seq({"ok", "known", "error"})]
      /\ pending \in [Devices -> Seq(Write)]
      /\ RepliesMatch
  BY DEF StoreInv, StoreTypeOK
<1>2. /\ Append(replies[d], r) \in Seq({"ok", "known", "error"})
      /\ Len(Append(replies[d], r)) = Len(replies[d]) + 1
  BY <1>1
<1>3. \A x \in Devices : Len(replies[x]) \in Nat /\ Len(pending[x]) \in Nat
  BY <1>1
<1>4. Len(replies[d]) < Len(pending[d])
  BY DEF MaySend
<1>5. \A x \in Devices : Len(replies'[x]) <= Len(pending'[x])
  BY <1>1, <1>2, <1>3, <1>4 DEF RepliesMatch
<1> QED  BY <1>1, <1>2, <1>5 DEF RepliesMatch

LEMMA LandStoreInv ==
    ASSUME StoreInv, NEW d \in Devices, Land(d)
    PROVE  StoreInv'
<1> DEFINE n == Position(d)
           w == pending[d][n]
<1>1. /\ n \in 1 .. Len(pending[d]) /\ w \in Write /\ SetCarriesHistory(w)
      /\ server \in Contents
      /\ UNCHANGED <<cache, pending, used>>
      /\ \/ /\ Accepts(w, server[w.key])
            /\ server' = ApplyTo(server, w)
            /\ replies' = [replies EXCEPT ![d] = Append(replies[d], "ok")]
            /\ landed' = [landed EXCEPT ![d] = IF landed[d] < n THEN n ELSE landed[d]]
         \/ /\ replies' = [replies EXCEPT ![d] = Append(replies[d], "error")]
            /\ UNCHANGED <<server, landed>>
  BY LandFacts
<1>2. /\ replies' \in [Devices -> Seq({"ok", "known", "error"})]
      /\ RepliesMatch'
  BY <1>1, AnotherReply DEF Land
<1>3. QueuedSets'
  BY <1>1 DEF StoreInv, QueuedSets
<1>4. CASE UNCHANGED <<server, landed>>
  <2>1. StoreTypeOK'
    BY <1>1, <1>2, <1>4 DEF StoreInv, StoreTypeOK, Contents
  <2>2. NamesAreUsed' /\ DocsHaveHistory' /\ CreationsAreFresh'
    BY <1>1, <1>4 DEF StoreInv, NamesAreUsed, DocsHaveHistory, CreationsAreFresh, Exists
  <2> QED  BY <1>2, <1>3, <2>1, <2>2 DEF StoreInv
<1>5. CASE /\ Accepts(w, server[w.key])
           /\ server' = ApplyTo(server, w)
           /\ landed' = [landed EXCEPT ![d] = IF landed[d] < n THEN n ELSE landed[d]]
  <2> HIDE DEF n
  <2>1. landed \in [Devices -> Nat] /\ landed[d] \in Nat /\ n \in Nat
    BY <1>1 DEF StoreInv, StoreTypeOK
  <2>2. landed' \in [Devices -> Nat] /\ (\A x \in Devices : landed[x] <= landed'[x]) /\ n <= landed'[d]
    BY <1>5, <2>1
  <2>3. server' \in Contents
    BY <1>1, <1>5, ApplyToType
  <2>4. StoreTypeOK'
    BY <1>1, <1>2, <2>2, <2>3 DEF StoreInv, StoreTypeOK, Contents
  <2>5. \A k \in Keys : HasHistory(server'[k])
    <3>1. \A k \in Keys : HasHistory(server[k])
      BY DEF StoreInv, DocsHaveHistory
    <3> QED  BY <1>1, <1>5, <3>1, ApplyToHistory DEF SetCarriesHistory
  <2>6. DocsHaveHistory'
    BY <1>1, <2>5 DEF StoreInv, DocsHaveHistory
  <2>7. ASSUME NEW k \in Keys, Exists(server', k), ~Exists(server, k)
        PROVE  IsSetOf(w, k)
    <3>1. k = w.key /\ server'[k] = Applied(w, server[k])
      BY <1>1, <1>5, <2>7, ApplyToKeys DEF Exists
    <3>2. w.op \in {"set", "update", "delete"}
      BY <1>1 DEF Write
    <3>3. w.op # "delete"
      BY <1>1, <2>7, <3>1, AppliedType DEF Exists, Contents
    <3>4. w.op # "update"
      BY <1>5, <2>7, <3>1 DEF Accepts, Exists
    <3> QED  BY <3>1, <3>2, <3>3, <3>4 DEF IsSetOf
  <2>8. NamesAreUsed'
    <3> SUFFICES ASSUME NEW k \in Keys, Exists(server', k) PROVE k \in used
      BY <1>1 DEF NamesAreUsed, Exists
    <3>1. CASE Exists(server, k)
      BY <3>1 DEF StoreInv, NamesAreUsed
    <3>2. CASE ~Exists(server, k)
      <4>1. IsSetOf(pending[d][n], k)
        BY <2>7, <3>2
      <4> QED  BY <1>1, <4>1 DEF StoreInv, CreationsAreFresh
    <3> QED  BY <3>1, <3>2
  <2>9. CreationsAreFresh'
    <3> SUFFICES ASSUME NEW x \in Devices, NEW k \in Keys, NEW i \in 1 .. Len(pending[x]),
                        IsSetOf(pending[x][i], k)
                 PROVE  /\ k \in used
                        /\ \A e \in Devices : \A j \in 1 .. Len(pending[e]) :
                              IsSetOf(pending[e][j], k) => e = x /\ j = i
                        /\ i > landed'[x] => ~Exists(server', k)
      BY <1>1 DEF CreationsAreFresh, Exists
    <3>1. /\ k \in used
          /\ \A e \in Devices : \A j \in 1 .. Len(pending[e]) :
                IsSetOf(pending[e][j], k) => e = x /\ j = i
          /\ i > landed[x] => ~Exists(server, k)
      BY DEF StoreInv, CreationsAreFresh
    <3>2. ASSUME i > landed'[x] PROVE ~Exists(server', k)
      <4>1. landed[x] \in Nat /\ landed'[x] \in Nat /\ landed[x] <= landed'[x]
        BY <2>1, <2>2
      <4>2. ~Exists(server, k)
        BY <3>1, <3>2, <4>1
      <4>3. ~IsSetOf(w, k)
        <5>1. SUFFICES ASSUME IsSetOf(w, k) PROVE FALSE
          OBVIOUS
        <5>2. d = x /\ n = i
          BY <1>1, <3>1, <5>1
        <5> QED  BY <2>1, <2>2, <3>2, <4>1, <5>2
      <4> QED  BY <2>7, <4>2, <4>3
    <3> QED  BY <3>1, <3>2
  <2> QED  BY <1>2, <1>3, <2>4, <2>6, <2>8, <2>9 DEF StoreInv
<1> QED  BY <1>1, <1>4, <1>5

LEMMA RefuseStoreInv ==
    ASSUME StoreInv, NEW d \in Devices, Refuse(d)
    PROVE  StoreInv'
<1>1. /\ MaySend(d)
      /\ replies' = [replies EXCEPT ![d] = Append(replies[d], "error")]
      /\ UNCHANGED <<server, cache, pending, landed, used>>
  BY DEF Refuse
<1>2. /\ replies' \in [Devices -> Seq({"ok", "known", "error"})]
      /\ RepliesMatch'
  BY <1>1, AnotherReply
<1> QED  BY <1>1, <1>2 DEF StoreInv, StoreTypeOK, NamesAreUsed, QueuedSets, DocsHaveHistory,
                          CreationsAreFresh, Exists, Contents

(* The oldest reply is read and its write leaves the queue.                *)
LEMMA ResolveStoreInv ==
    ASSUME StoreInv, NEW d \in Devices, Resolve(d)
    PROVE  StoreInv'
<1> DEFINE w == Head(pending[d])
<1>1. /\ replies \in [Devices -> Seq({"ok", "known", "error"})] /\ replies[d] # <<>>
      /\ pending \in [Devices -> Seq(Write)] /\ pending[d] # <<>>
      /\ landed \in [Devices -> Nat]
      /\ cache \in [Devices -> Contents]
  <2>1. /\ replies \in [Devices -> Seq({"ok", "known", "error"})] /\ replies[d] # <<>>
        /\ pending \in [Devices -> Seq(Write)]
        /\ landed \in [Devices -> Nat]
        /\ cache \in [Devices -> Contents]
        /\ Len(replies[d]) <= Len(pending[d])
    BY DEF Resolve, StoreInv, StoreTypeOK, RepliesMatch
  <2>2. Len(replies[d]) \in Nat \ {0}
    BY <2>1
  <2>3. pending[d] # <<>>
    BY <2>1, <2>2
  <2> QED  BY <2>1, <2>3
<1>2. /\ pending' = [pending EXCEPT ![d] = Tail(pending[d])]
      /\ replies' = [replies EXCEPT ![d] = Tail(replies[d])]
      /\ landed' = [landed EXCEPT ![d] = IF landed[d] = 0 THEN 0 ELSE landed[d] - 1]
      /\ cache' = cache \/ cache' = [cache EXCEPT ![d] = ApplyTo(cache[d], w)]
      /\ UNCHANGED <<server, used>>
  BY DEF Resolve
<1>3. /\ w \in Write /\ w = pending[d][1] /\ Tail(pending[d]) \in Seq(Write)
      /\ Len(pending[d]) \in Nat /\ 1 \in 1 .. Len(pending[d])
      /\ Len(Tail(pending[d])) = Len(pending[d]) - 1
      /\ \A i \in 1 .. Len(Tail(pending[d])) : Tail(pending[d])[i] = pending[d][i + 1]
  BY <1>1, HeadTailProperties
<1>4. /\ Tail(replies[d]) \in Seq({"ok", "known", "error"})
      /\ Len(Tail(replies[d])) = Len(replies[d]) - 1
      /\ Len(replies[d]) \in Nat
  BY <1>1, HeadTailProperties
<1>5. SetCarriesHistory(w)
  BY <1>3 DEF StoreInv, QueuedSets
<1>6. /\ \A x \in Devices \ {d} : pending'[x] = pending[x] /\ replies'[x] = replies[x]
                                  /\ landed'[x] = landed[x]
      /\ pending'[d] = Tail(pending[d]) /\ replies'[d] = Tail(replies[d])
      /\ landed'[d] = IF landed[d] = 0 THEN 0 ELSE landed[d] - 1
  BY <1>1, <1>2
<1>7. \A x \in Devices : Len(pending[x]) \in Nat /\ Len(replies[x]) \in Nat
  BY <1>1
<1>8. cache' \in [Devices -> Contents]
  <2>1. ApplyTo(cache[d], w) \in Contents
    BY <1>1, <1>3, ApplyToType
  <2> QED  BY <1>1, <1>2, <2>1
<1>9. StoreTypeOK'
  <2>1. landed' \in [Devices -> Nat]
    BY <1>1, <1>2
  <2>2. pending' \in [Devices -> Seq(Write)] /\ replies' \in [Devices -> Seq({"ok", "known", "error"})]
    BY <1>1, <1>2, <1>3, <1>4
  <2> QED  BY <1>2, <1>8, <2>1, <2>2 DEF StoreInv, StoreTypeOK, Contents
<1>10. RepliesMatch'
  <2> SUFFICES ASSUME NEW x \in Devices PROVE Len(replies'[x]) <= Len(pending'[x])
    BY DEF RepliesMatch
  <2>1. Len(replies[x]) <= Len(pending[x])
    BY DEF StoreInv, RepliesMatch
  <2>2. CASE x = d
    <3>1. Len(pending'[d]) = Len(pending[d]) - 1
      BY <1>3, <1>6
    <3>2. Len(replies'[d]) = Len(replies[d]) - 1
      BY <1>4, <1>6
    <3> QED  BY <1>7, <2>1, <2>2, <3>1, <3>2
  <2>3. CASE x # d
    BY <1>6, <2>1, <2>3
  <2> QED  BY <2>2, <2>3
<1>11. NamesAreUsed'
  BY <1>2 DEF StoreInv, NamesAreUsed, Exists
<1>12. DocsHaveHistory'
  <2>1. \A k \in Keys : HasHistory(cache[d][k])
    BY DEF StoreInv, DocsHaveHistory
  <2>2. \A k \in Keys : HasHistory(ApplyTo(cache[d], w)[k])
    BY <1>1, <1>3, <1>5, <2>1, ApplyToHistory DEF SetCarriesHistory
  <2>3. \A x \in Devices, k \in Keys : HasHistory(cache'[x][k])
    <3>1. \A x \in Devices, k \in Keys : HasHistory(cache[x][k])
      BY DEF StoreInv, DocsHaveHistory
    <3> QED  BY <1>1, <1>2, <2>2, <3>1
  <2> QED  BY <1>2, <2>3 DEF StoreInv, DocsHaveHistory
<1>13. \A x \in Devices : \A i \in 1 .. Len(pending'[x]) : \E j \in 1 .. Len(pending[x]) :
          /\ pending'[x][i] = pending[x][j]
          /\ j = IF x = d THEN i + 1 ELSE i
  <2> TAKE x \in Devices
  <2> TAKE i \in 1 .. Len(pending'[x])
  <2>1. CASE x = d
    <3>1. pending'[d] = Tail(pending[d])
      BY <1>6
    <3>2. i + 1 \in 1 .. Len(pending[d]) /\ pending'[d][i] = pending[d][i + 1]
      BY <1>3, <2>1, <3>1
    <3> QED  BY <2>1, <3>2
  <2>2. CASE x # d
    BY <1>6, <2>2
  <2> QED  BY <2>1, <2>2
<1>14. QueuedSets'
  BY <1>13 DEF StoreInv, QueuedSets
<1>15. CreationsAreFresh'
  <2> SUFFICES ASSUME NEW x \in Devices, NEW k \in Keys, NEW i \in 1 .. Len(pending'[x]),
                      IsSetOf(pending'[x][i], k)
               PROVE  /\ k \in used
                      /\ \A e \in Devices : \A j \in 1 .. Len(pending'[e]) :
                            IsSetOf(pending'[e][j], k) => e = x /\ j = i
                      /\ i > landed'[x] => ~Exists(server, k)
    BY <1>2, ZenonT(30) DEF CreationsAreFresh, Exists
  <2>1. PICK m \in 1 .. Len(pending[x]) :
          pending'[x][i] = pending[x][m] /\ m = IF x = d THEN i + 1 ELSE i
    BY <1>13
  <2>2. /\ k \in used
        /\ \A e \in Devices : \A j \in 1 .. Len(pending[e]) :
              IsSetOf(pending[e][j], k) => e = x /\ j = m
        /\ m > landed[x] => ~Exists(server, k)
    BY <2>1 DEF StoreInv, CreationsAreFresh
  <2>3. ASSUME NEW e \in Devices, NEW j \in 1 .. Len(pending'[e]), IsSetOf(pending'[e][j], k)
        PROVE  e = x /\ j = i
    <3>1. PICK l \in 1 .. Len(pending[e]) :
            pending'[e][j] = pending[e][l] /\ l = IF e = d THEN j + 1 ELSE j
      BY <1>13
    <3>2. e = x /\ l = m
      BY <2>2, <2>3, <3>1
    <3>3. i \in Nat /\ j \in Nat
      OBVIOUS
    <3> QED  BY <2>1, <3>1, <3>2, <3>3
  <2>4. i > landed'[x] => m > landed[x]
    <3>1. i \in Nat /\ landed[x] \in Nat
      BY <1>1
    <3> QED  BY <1>6, <2>1, <3>1
  <2> QED  BY <2>2, <2>3, <2>4
<1> QED  BY <1>9, <1>10, <1>11, <1>12, <1>14, <1>15 DEF StoreInv

(* The unread replies are gone, the queue is what it was.                  *)
LEMMA LostRepliesStoreInv ==
    ASSUME StoreInv, NEW d \in Devices, replies' = [replies EXCEPT ![d] = <<>>],
           UNCHANGED <<server, cache, pending, landed, used>>
    PROVE  StoreInv'
<1>1. /\ replies \in [Devices -> Seq({"ok", "known", "error"})]
      /\ pending \in [Devices -> Seq(Write)]
  BY DEF StoreInv, StoreTypeOK
<1>2. replies' \in [Devices -> Seq({"ok", "known", "error"})]
  BY <1>1
<1>3. \A x \in Devices : Len(pending[x]) \in Nat /\ (replies'[x] = replies[x] \/ replies'[x] = <<>>)
  BY <1>1
<1>4. RepliesMatch'
  BY <1>3 DEF StoreInv, RepliesMatch
<1> QED  BY <1>2, <1>4 DEF StoreInv, StoreTypeOK, NamesAreUsed, QueuedSets, DocsHaveHistory,
                          CreationsAreFresh, Exists, Contents

(* An answer to getDocuments: the cache takes what the backend has, or     *)
(* stays as it is.                                                         *)
LEMMA AnswerStoreInv ==
    ASSUME StoreInv, NEW d \in Devices, Answer(d)
    PROVE  StoreInv'
<1>1. /\ UNCHANGED <<server, pending, landed, used>>
      /\ \/ cache' = [cache EXCEPT ![d] = server] /\ replies' = [replies EXCEPT ![d] = Known(replies[d])]
         \/ cache' = [cache EXCEPT ![d] = cache[d]] /\ replies' = replies
  BY DEF Answer, AnswerWith
<1>2. /\ replies \in [Devices -> Seq({"ok", "known", "error"})]
      /\ cache \in [Devices -> Contents] /\ server \in Contents
  BY DEF StoreInv, StoreTypeOK
<1>3. /\ Known(replies[d]) \in Seq({"ok", "known", "error"})
      /\ Len(Known(replies[d])) = Len(replies[d])
  <2>1. Len(replies[d]) \in Nat
    BY <1>2
  <2>2. Known(replies[d]) \in [1 .. Len(replies[d]) -> {"ok", "known", "error"}]
    BY DEF Known
  <2> QED  BY <2>1, <2>2
<1>4. /\ replies' \in [Devices -> Seq({"ok", "known", "error"})]
      /\ cache' \in [Devices -> Contents]
  BY <1>1, <1>2, <1>3
<1>5. \A x \in Devices : Len(replies'[x]) = Len(replies[x])
  BY <1>1, <1>2, <1>3
<1>6. RepliesMatch'
  BY <1>1, <1>5 DEF StoreInv, RepliesMatch
<1>7. \A x \in Devices, k \in Keys : cache'[x][k] = cache[x][k] \/ cache'[x][k] = server[k]
  BY <1>1, <1>2
<1>8. DocsHaveHistory'
  BY <1>1, <1>7 DEF StoreInv, DocsHaveHistory
<1> QED  BY <1>1, <1>4, <1>6, <1>8 DEF StoreInv, StoreTypeOK, NamesAreUsed, QueuedSets,
                                      CreationsAreFresh, Exists, Contents

(* The process ends: the queue loses its completions, not its writes.      *)
LEMMA ProcessEndsStoreInv ==
    ASSUME StoreInv, NEW d \in Devices, ProcessEnds(d)
    PROVE  StoreInv'
<1>1. /\ pending' = [pending EXCEPT ![d] = WithoutCompletions(pending[d])]
      /\ replies' = [replies EXCEPT ![d] = <<>>]
      /\ UNCHANGED <<server, cache, landed, used>>
  BY DEF ProcessEnds
<1>2. /\ replies \in [Devices -> Seq({"ok", "known", "error"})]
      /\ pending \in [Devices -> Seq(Write)]
  BY DEF StoreInv, StoreTypeOK
<1>3. \A i \in 1 .. Len(pending[d]) :
        /\ [pending[d][i] EXCEPT !.cb = NoCompletion] \in Write
        /\ [pending[d][i] EXCEPT !.cb = NoCompletion].op = pending[d][i].op
        /\ [pending[d][i] EXCEPT !.cb = NoCompletion].key = pending[d][i].key
        /\ [pending[d][i] EXCEPT !.cb = NoCompletion].price = pending[d][i].price
        /\ [pending[d][i] EXCEPT !.cb = NoCompletion].date = pending[d][i].date
  <2> TAKE i \in 1 .. Len(pending[d])
  <2>1. pending[d][i] \in Write
    BY <1>2
  <2> QED  BY <2>1 DEF Write
<1>4. /\ WithoutCompletions(pending[d]) \in Seq(Write)
      /\ Len(WithoutCompletions(pending[d])) = Len(pending[d])
      /\ \A i \in 1 .. Len(pending[d]) :
           WithoutCompletions(pending[d])[i] = [pending[d][i] EXCEPT !.cb = NoCompletion]
  <2>1. Len(pending[d]) \in Nat
    BY <1>2
  <2>2. WithoutCompletions(pending[d]) \in [1 .. Len(pending[d]) -> Write]
    BY <1>3 DEF WithoutCompletions
  <2> QED  BY <2>1, <2>2 DEF WithoutCompletions
<1>5. \A x \in Devices :
        /\ Len(pending'[x]) = Len(pending[x])
        /\ \A i \in 1 .. Len(pending[x]) :
             /\ pending'[x][i].op = pending[x][i].op /\ pending'[x][i].key = pending[x][i].key
             /\ pending'[x][i].price = pending[x][i].price
             /\ pending'[x][i].date = pending[x][i].date
  BY <1>1, <1>2, <1>3, <1>4
<1>6. StoreTypeOK'
  <2>1. pending' \in [Devices -> Seq(Write)] /\ replies' \in [Devices -> Seq({"ok", "known", "error"})]
    BY <1>1, <1>2, <1>4
  <2> QED  BY <1>1, <2>1 DEF StoreInv, StoreTypeOK, Contents
<1>7. RepliesMatch'
  <2>1. \A x \in Devices : Len(pending[x]) \in Nat /\ (replies'[x] = replies[x] \/ replies'[x] = <<>>)
    BY <1>1, <1>2
  <2> QED  BY <1>5, <2>1 DEF StoreInv, RepliesMatch
<1>8. QueuedSets'
  BY <1>5 DEF StoreInv, QueuedSets, SetCarriesHistory
<1>9. CreationsAreFresh'
  BY <1>1, <1>5 DEF StoreInv, CreationsAreFresh, IsSetOf, Exists
<1>10. NamesAreUsed' /\ DocsHaveHistory'
  BY <1>1 DEF StoreInv, NamesAreUsed, DocsHaveHistory, Exists
<1> QED  BY <1>6, <1>7, <1>8, <1>9, <1>10 DEF StoreInv

(* Every step of a phone's client or of an app preserves the invariant.    *)
LEMMA ClientStepStoreInv ==
    ASSUME StoreInv, NEW d \in Devices, ClientStep(d)
    PROVE  StoreInv'
<1>1. CASE Land(d)
  BY <1>1, LandStoreInv
<1>2. CASE Refuse(d)
  BY <1>2, RefuseStoreInv
<1>3. CASE Resolve(d)
  BY <1>3, ResolveStoreInv
<1>4. CASE LoseReply(d)
  BY <1>4, LostRepliesStoreInv DEF LoseReply
<1>5. CASE Answer(d)
  BY <1>5, AnswerStoreInv
<1>6. CASE GoOffline(d)
  BY <1>6, LostRepliesStoreInv DEF GoOffline
<1>7. CASE GoOnline(d)
  BY <1>7 DEF GoOnline, storeVars, StoreInv, StoreTypeOK, RepliesMatch, NamesAreUsed, QueuedSets,
              DocsHaveHistory, CreationsAreFresh, Exists, Contents
<1> QED  BY <1>1, <1>2, <1>3, <1>4, <1>5, <1>6, <1>7 DEF ClientStep

LEMMA StutterStoreInv == StoreInv /\ UNCHANGED marketVars => StoreInv'
<1> QED  BY DEF marketVars, storeVars, StoreInv, StoreTypeOK, RepliesMatch, NamesAreUsed,
                QueuedSets, DocsHaveHistory, CreationsAreFresh, Exists, Contents

(* A step of any app, of a phone's client, or the end of a process: what   *)
(* a larger specification may do with the variables of MarketClient.       *)
MarketStep ==
    \E d \in Devices :
        \/ \E pop, ws, qs : AppStep(d, pop, ws, qs)
        \/ ClientStep(d)
        \/ Kill(d)

LEMMA MarketStepStoreInv == StoreInv /\ [MarketStep]_marketVars => StoreInv'
<1> SUFFICES ASSUME StoreInv, [MarketStep]_marketVars PROVE StoreInv'
  OBVIOUS
<1>1. ASSUME NEW d \in Devices, NEW pop, NEW ws, NEW qs, AppStep(d, pop, ws, qs)
      PROVE  StoreInv'
  BY <1>1, AppStepStoreInv
<1>2. ASSUME NEW d \in Devices, ClientStep(d)
      PROVE  StoreInv'
  BY <1>2, ClientStepStoreInv
<1>3. ASSUME NEW d \in Devices, Kill(d)
      PROVE  StoreInv'
  BY <1>3, ProcessEndsStoreInv DEF Kill
<1>4. CASE UNCHANGED marketVars
  BY <1>4, StutterStoreInv
<1> QED  BY <1>1, <1>2, <1>3, <1>4 DEF MarketStep

LEMMA MarketNextSteps == [MarketNext]_marketVars => [MarketStep]_marketVars
<1> QED  BY DEF MarketNext, MarketStep

LEMMA StoreInvariant == MarketSpec => []StoreInv
<1> QED  BY InitStoreInv, MarketNextSteps, MarketStepStoreInv, PTL DEF MarketSpec

--------------------------------------------------------------------------------
(* What follows for the app *)

(* No document, at the backend or in a cache, ever has an empty array: no  *)
(* update lands on nothing, and no write but the creation makes one.       *)
THEOREM HistoriesNeverEmpty == MarketSpec => []DocsHaveHistory
<1>1. StoreInv => DocsHaveHistory
  BY DEF StoreInv
<1> QED  BY <1>1, StoreInvariant, PTL

(* The setData that creates a document is queued once, under a name nobody *)
(* else uses, and finds no document there until it lands.                  *)
THEOREM CreationsAlwaysFresh == MarketSpec => []CreationsAreFresh
<1>1. StoreInv => CreationsAreFresh
  BY DEF StoreInv
<1> QED  BY <1>1, StoreInvariant, PTL

(* Only the backend's own step, Land, changes what it stores.              *)
LEMMA OnlyLandChangesServer ==
    ASSUME MarketStep, server' # server
    PROVE  \E d \in Devices : Land(d)
<1>1. ASSUME NEW d \in Devices, NEW pop, NEW ws, NEW qs, AppStep(d, pop, ws, qs)
      PROVE  FALSE
  BY <1>1 DEF AppStep, Ask
<1>2. ASSUME NEW d \in Devices, Kill(d)
      PROVE  FALSE
  BY <1>2 DEF Kill, ProcessEnds
<1>3. ASSUME NEW d \in Devices, ClientStep(d)
      PROVE  Land(d)
  BY <1>3 DEF ClientStep, Refuse, Resolve, LoseReply, Answer, GoOffline, GoOnline, storeVars
<1> QED  BY <1>1, <1>2, <1>3 DEF MarketStep

(* What one step may do to the documents, in any state of the invariant.   *)
LEMMA LandGrows ==
    ASSUME StoreInv, NEW d \in Devices, Land(d), NEW k \in Keys,
           Exists(server, k), Exists(server', k)
    PROVE  \/ /\ IsPrefix(server[k].price, server'[k].price)
              /\ IsPrefix(server[k].date, server'[k].date)
           \/ Repeats(k)
<1> DEFINE n == Position(d)
           w == pending[d][n]
<1>1. /\ n \in 1 .. Len(pending[d]) /\ w \in Write
      /\ server \in Contents
      /\ \/ Accepts(w, server[w.key]) /\ server' = ApplyTo(server, w)
         \/ server' = server
  BY LandFacts
<1>2. server[k] \in Doc
  BY <1>1 DEF Contents, Exists
<1>3. CASE server'[k] = server[k]
  <2>1. server[k].price \in Seq(Prices) /\ server[k].date \in Seq(Dates)
    BY <1>2 DEF Doc
  <2>2. IsPrefix(server[k].price, server[k].price)
    BY <2>1, PrefixByElements
  <2>3. IsPrefix(server[k].date, server[k].date)
    BY <2>1, PrefixByElements
  <2> QED  BY <1>3, <2>2, <2>3
<1>4. CASE server'[k] # server[k]
  <2>1. k = w.key /\ server'[k] = Applied(w, server[k])
    BY <1>1, <1>4, ApplyToKeys
  <2>2. w.op \in {"set", "update", "delete"}
    BY <1>1 DEF Write
  <2>3. CASE w.op = "update"
    BY <1>1, <1>2, <2>1, <2>3, UpdateGrows
  <2>4. CASE w.op = "delete"
    BY <1>1, <1>2, <2>1, <2>4, AppliedType DEF Exists
  <2>5. CASE w.op = "set"
    <3>1. IsSetOf(w, k)
      BY <2>1, <2>5 DEF IsSetOf
    <3>2. ~(n > landed[d])
      BY <1>1, <3>1 DEF StoreInv, CreationsAreFresh
    <3>3. landed[d] \in Nat
      BY DEF StoreInv, StoreTypeOK
    <3>4. n \in 1 .. landed[d]
      BY <1>1, <3>2, <3>3
    <3> QED  BY <3>1, <3>4 DEF Repeats
  <2> QED  BY <2>2, <2>3, <2>4, <2>5
<1> QED  BY <1>3, <1>4

(* The bodies of the two action properties.                                *)
HistoriesGrow ==
    \A k \in Keys :
        (Exists(server, k) /\ Exists(server', k)) =>
            \/ /\ IsPrefix(server[k].price, server'[k].price)
               /\ IsPrefix(server[k].date, server'[k].date)
            \/ Repeats(k)

NoResurrection ==
    \A k \in Keys :
        (~Exists(server, k) /\ Exists(server', k)) =>
            \E d \in Devices : \E i \in 1 .. Len(pending[d]) :
                /\ i = Position(d)
                /\ IsSetOf(pending[d][i], k)

LEMMA StepHistoriesGrow == StoreInv /\ [MarketStep]_marketVars => [HistoriesGrow]_marketVars
<1> SUFFICES ASSUME StoreInv, MarketStep, NEW k \in Keys, Exists(server, k), Exists(server', k)
             PROVE  \/ /\ IsPrefix(server[k].price, server'[k].price)
                       /\ IsPrefix(server[k].date, server'[k].date)
                    \/ Repeats(k)
  BY DEF HistoriesGrow
<1>1. CASE server' = server
  <2>1. server[k] \in Doc
    BY DEF StoreInv, StoreTypeOK, Contents, Exists
  <2>2. server[k].price \in Seq(Prices) /\ server[k].date \in Seq(Dates)
    BY <2>1 DEF Doc
  <2>3. IsPrefix(server[k].price, server[k].price)
    BY <2>2, PrefixByElements
  <2>4. IsPrefix(server[k].date, server[k].date)
    BY <2>2, PrefixByElements
  <2> QED  BY <1>1, <2>3, <2>4
<1>2. CASE server' # server
  <2>1. PICK d \in Devices : Land(d)
    BY <1>2, OnlyLandChangesServer
  <2> QED  BY <2>1, LandGrows
<1> QED  BY <1>1, <1>2

LEMMA StepNoResurrection == StoreInv /\ [MarketStep]_marketVars => [NoResurrection]_marketVars
<1> SUFFICES ASSUME StoreInv, MarketStep, NEW k \in Keys, ~Exists(server, k), Exists(server', k)
             PROVE  \E d \in Devices : \E i \in 1 .. Len(pending[d]) :
                      i = Position(d) /\ IsSetOf(pending[d][i], k)
  BY DEF NoResurrection
<1>1. PICK d \in Devices : Land(d)
  BY OnlyLandChangesServer DEF Exists
<1> DEFINE n == Position(d)
           w == pending[d][n]
<1>2. /\ n \in 1 .. Len(pending[d]) /\ w \in Write
      /\ server \in Contents
      /\ \/ Accepts(w, server[w.key]) /\ server' = ApplyTo(server, w)
         \/ server' = server
  BY <1>1, LandFacts
<1>3. server' = ApplyTo(server, w) /\ Accepts(w, server[w.key])
  BY <1>2 DEF Exists
<1>4. k = w.key /\ server'[k] = Applied(w, server[k])
  BY <1>2, <1>3, ApplyToKeys DEF Exists
<1>5. w.op \in {"set", "update", "delete"}
  BY <1>2 DEF Write
<1>6. w.op # "delete"
  BY <1>2, <1>4, AppliedType DEF Exists, Contents
<1>7. w.op # "update"
  BY <1>3, <1>4 DEF Accepts, Exists
<1>8. IsSetOf(w, k)
  BY <1>4, <1>5, <1>6, <1>7 DEF IsSetOf
<1> QED  BY <1>2, <1>8

(* No price or date that has reached the backend is lost to a concurrent   *)
(* edit, for any number of phones and any order of their updates.          *)
THEOREM HistoriesAlwaysGrow == MarketSpec => HistoriesOnlyGrow
<1> QED  BY MarketNextSteps, StepHistoriesGrow, StoreInvariant, PTL
         DEF MarketSpec, HistoriesOnlyGrow, HistoriesGrow

(* A deleted document comes back only by a setData of its creation, never  *)
(* by an update of a phone that still shows it.                            *)
THEOREM UpdatesNeverResurrect == MarketSpec => UpdatesDoNotResurrect
<1> QED  BY MarketNextSteps, StepNoResurrection, StoreInvariant, PTL
         DEF MarketSpec, UpdatesDoNotResurrect, NoResurrection

--------------------------------------------------------------------------------
(* What a query on a phone can see: LocalView applies the phone's pending  *)
(* writes, however many, one after the other. The facts about it need      *)
(* induction over the number of writes, which is done here with sets of    *)
(* numbers and the least-element theorem WFMin.                            *)

LessThan == {ss \in Nat \X Nat : ss[1] < ss[2]}

LEMMA LessThanWellFounded == IsWellFoundedOn(LessThan, Nat)
<1>1. LessThan = OpToRel(<, Nat)
  BY DEF LessThan, OpToRel
<1> QED  BY <1>1, NatLessThanWellFounded

(* A set with 0 and with the successor of each natural number it has has   *)
(* them all.                                                               *)
LEMMA SetInduction ==
    ASSUME NEW S, 0 \in S, \A n \in Nat : n \in S => n + 1 \in S
    PROVE  Nat \subseteq S
<1> SUFFICES ASSUME Nat \ S # {} PROVE FALSE
  OBVIOUS
<1>1. Nat \ S \subseteq Nat
  OBVIOUS
<1>2. PICK x \in Nat \ S : \A y \in Nat \ S : ~ (<<y, x>> \in LessThan)
  BY ONLY <1>1, WFMin, LessThanWellFounded, Nat \ S # {}
<1>3. x # 0 /\ x - 1 \in Nat
  OBVIOUS
<1>4. x - 1 \in S
  <2>1. <<x - 1, x>> \in Nat \X Nat /\ x - 1 < x
    BY <1>3
  <2>2. <<x - 1, x>> \in LessThan
    BY <2>1 DEF LessThan
  <2> QED  BY <1>2, <1>3, <2>2
<1> QED  BY <1>3, <1>4

--------------------------------------------------------------------------------
(* f lists the documents after each of the first n writes,                 *)
IsAfter(f, docs, ws, n) ==
    f = [m \in 0 .. n |-> IF m = 0 THEN docs ELSE ApplyTo(f[m - 1], ws[m])]

(* all of them with a history.                                             *)
IsViews(f, docs, ws, n) ==
    /\ IsAfter(f, docs, ws, n)
    /\ \A m \in 0 .. n : f[m] \in Contents /\ \A k \in Keys : HasHistory(f[m][k])

LEMMA OneMoreView ==
    ASSUME NEW docs, NEW ws \in Seq(Write), NEW n \in Nat, n + 1 <= Len(ws),
           \A i \in 1 .. Len(ws) : SetCarriesHistory(ws[i]),
           NEW f, IsViews(f, docs, ws, n)
    PROVE  \E g : IsViews(g, docs, ws, n + 1)
<1> DEFINE g == [m \in 0 .. n + 1 |-> IF m = n + 1 THEN ApplyTo(f[n], ws[n + 1]) ELSE f[m]]
<1>1. /\ f[n] \in Contents /\ \A k \in Keys : HasHistory(f[n][k])
      /\ ws[n + 1] \in Write /\ SetCarriesHistory(ws[n + 1])
  BY DEF IsViews, IsAfter
<1>2. /\ ApplyTo(f[n], ws[n + 1]) \in Contents
      /\ \A k \in Keys : HasHistory(ApplyTo(f[n], ws[n + 1])[k])
  BY <1>1, ApplyToType, ApplyToHistory DEF SetCarriesHistory
<1>3. ASSUME NEW m \in 0 .. n + 1
      PROVE  g[m] = IF m = 0 THEN docs ELSE ApplyTo(g[m - 1], ws[m])
  <2>1. CASE m = n + 1
    BY <2>1
  <2>2. CASE m # n + 1
    <3>1. m \in 0 .. n /\ g[m] = f[m] /\ (m # 0 => g[m - 1] = f[m - 1])
      BY <2>2
    <3>2. f[m] = IF m = 0 THEN docs ELSE ApplyTo(f[m - 1], ws[m])
      BY <3>1 DEF IsViews, IsAfter
    <3> QED  BY <3>1, <3>2
  <2> QED  BY <2>1, <2>2
<1>4. g = [m \in 0 .. n + 1 |-> IF m = 0 THEN docs ELSE ApplyTo(g[m - 1], ws[m])]
  BY <1>3
<1>5. ASSUME NEW m \in 0 .. n + 1
      PROVE  g[m] \in Contents /\ \A k \in Keys : HasHistory(g[m][k])
  <2>1. CASE m = n + 1
    BY <1>2, <2>1
  <2>2. CASE m # n + 1
    BY <2>2 DEF IsViews, IsAfter
  <2> QED  BY <2>1, <2>2
<1>6. IsViews(g, docs, ws, n + 1)
  BY <1>4, <1>5 DEF IsViews, IsAfter
<1> QED  BY <1>6

LEMMA ViewsExist ==
    ASSUME NEW docs \in Contents, \A k \in Keys : HasHistory(docs[k]),
           NEW ws \in Seq(Write), \A i \in 1 .. Len(ws) : SetCarriesHistory(ws[i])
    PROVE  \E f : IsViews(f, docs, ws, Len(ws))
<1> DEFINE S == {n \in Nat : n <= Len(ws) => \E f : IsViews(f, docs, ws, n)}
<1>1. 0 \in S
  <2> DEFINE f == [m \in 0 .. 0 |-> docs]
  <2>1. f = [m \in 0 .. 0 |-> IF m = 0 THEN docs ELSE ApplyTo(f[m - 1], ws[m])]
    OBVIOUS
  <2>2. IsViews(f, docs, ws, 0)
    BY <2>1 DEF IsViews, IsAfter
  <2> QED  BY <2>2
<1>2. ASSUME NEW n \in Nat, n \in S
      PROVE  n + 1 \in S
  <2>1. CASE n + 1 <= Len(ws)
    <3>1. n <= Len(ws)
      BY <2>1
    <3>2. PICK f : IsViews(f, docs, ws, n)
      BY <1>2, <3>1
    <3>3. \E g : IsViews(g, docs, ws, n + 1)
      BY <2>1, <3>2, OneMoreView
    <3> QED  BY <3>3
  <2>2. CASE ~(n + 1 <= Len(ws))
    BY <2>2
  <2> QED  BY <2>1, <2>2
<1>3. Len(ws) \in S
  <2> HIDE DEF S
  <2>1. Nat \subseteq S
    BY <1>1, <1>2, SetInduction
  <2> QED  BY <2>1
<1> QED  BY <1>3

(* There is only one such list.                                            *)
LEMMA ViewsAreUnique ==
    ASSUME NEW docs, NEW ws, NEW n \in Nat,
           NEW f, IsAfter(f, docs, ws, n), NEW g, IsAfter(g, docs, ws, n)
    PROVE  f[n] = g[n]
<1> DEFINE S == {m \in Nat : m <= n => f[m] = g[m]}
<1>1. 0 \in S
  BY DEF IsAfter
<1>2. ASSUME NEW m \in Nat, m \in S
      PROVE  m + 1 \in S
  <2> SUFFICES ASSUME m + 1 <= n PROVE f[m + 1] = g[m + 1]
    OBVIOUS
  <2>1. m + 1 \in 0 .. n /\ m + 1 # 0 /\ (m + 1) - 1 = m /\ m <= n
    OBVIOUS
  <2>2. f[m] = g[m]
    BY <1>2, <2>1
  <2>3. f[m + 1] = ApplyTo(f[m], ws[m + 1])
    BY <2>1 DEF IsAfter
  <2>4. g[m + 1] = ApplyTo(g[m], ws[m + 1])
    BY <2>1 DEF IsAfter
  <2> QED  BY <2>2, <2>3, <2>4
<1>3. n \in S
  <2> HIDE DEF S
  <2>1. Nat \subseteq S
    BY <1>1, <1>2, SetInduction
  <2> QED  BY <2>1
<1> QED  BY <1>3

(* A query's documents have a type and a history, whatever is queued.      *)
LEMMA LocalViewFacts ==
    ASSUME NEW docs \in Contents, \A k \in Keys : HasHistory(docs[k]),
           NEW ws \in Seq(Write), \A i \in 1 .. Len(ws) : SetCarriesHistory(ws[i])
    PROVE  LocalView(docs, ws) \in Contents /\ \A k \in Keys : HasHistory(LocalView(docs, ws)[k])
<1> DEFINE after == CHOOSE f : IsAfter(f, docs, ws, Len(ws))
<1>1. PICK f : IsViews(f, docs, ws, Len(ws))
  BY ViewsExist
<1>2. IsAfter(f, docs, ws, Len(ws))
  BY <1>1 DEF IsViews
<1>3. IsAfter(after, docs, ws, Len(ws))
  BY <1>2
<1>4. LocalView(docs, ws) = after[Len(ws)]
  BY DEF LocalView, IsAfter
<1>5. after[Len(ws)] = f[Len(ws)]
  <2> HIDE DEF after
  <2>1. Len(ws) \in Nat
    OBVIOUS
  <2> QED  BY <1>2, <1>3, <2>1, ViewsAreUnique
<1>6. f[Len(ws)] \in Contents /\ \A k \in Keys : HasHistory(f[Len(ws)][k])
  BY <1>1 DEF IsViews, IsAfter
<1> QED  BY <1>4, <1>5, <1>6

--------------------------------------------------------------------------------
(* Callbacks and answers *)

(* What is queued between the app and the client, and what an answer says. *)
CallbacksInv == CallbacksTypeOK /\ AnswersHaveHistory

LEMMA InitCallbacksInv == MarketInit => CallbacksInv
<1> SUFFICES ASSUME MarketInit PROVE CallbacksInv
  OBVIOUS
<1>1. /\ online = [d \in Devices |-> TRUE] /\ up = [d \in Devices |-> FALSE]
      /\ queries = [d \in Devices |-> <<>>] /\ main = [d \in Devices |-> <<>>]
      /\ writes = 0 /\ faults = 0
  BY DEF MarketInit
<1>2. MaxWrites \in Nat /\ MaxFaults \in Nat
  BY MarketAssumption DEF MarketAssumption
<1>3. CallbacksTypeOK
  BY <1>1, <1>2 DEF CallbacksTypeOK
<1>4. AnswersHaveHistory
  BY <1>1 DEF AnswersHaveHistory
<1> QED  BY <1>3, <1>4 DEF CallbacksInv

(* A callback that is called leaves the queue, the others stay.            *)
LEMMA CallbackCalled ==
    ASSUME CallbacksInv, NEW d \in Devices, main[d] # <<>>,
           main' = [main EXCEPT ![d] = Tail(main[d])]
    PROVE  main' \in [Devices -> Seq(Callback)] /\ AnswersHaveHistory'
<1>1. main \in [Devices -> Seq(Callback)]
  BY DEF CallbacksInv, CallbacksTypeOK
<1>2. /\ Tail(main[d]) \in Seq(Callback)
      /\ Len(Tail(main[d])) = Len(main[d]) - 1
      /\ \A i \in 1 .. Len(Tail(main[d])) : Tail(main[d])[i] = main[d][i + 1]
  BY <1>1, HeadTailProperties
<1>3. main' \in [Devices -> Seq(Callback)]
  BY <1>1, <1>2
<1>4. ASSUME NEW x \in Devices, NEW i \in 1 .. Len(main'[x])
      PROVE  \E j \in 1 .. Len(main[x]) : main'[x][i] = main[x][j]
  <2>1. CASE x = d
    <3>1. i + 1 \in 1 .. Len(main[d]) /\ main'[x][i] = main[d][i + 1]
      BY <1>1, <1>2, <1>4, <2>1
    <3> QED  BY <2>1, <3>1
  <2>2. CASE x # d
    BY <1>1, <1>4, <2>2
  <2> QED  BY <2>1, <2>2
<1>5. AnswersHaveHistory'
  <2> SUFFICES ASSUME NEW x \in Devices, NEW i \in 1 .. Len(main'[x]), NEW k \in Keys,
                      main'[x][i].kind = "answer"
               PROVE  HasHistory(main'[x][i].docs[k])
    BY DEF AnswersHaveHistory
  <2>1. PICK j \in 1 .. Len(main[x]) : main'[x][i] = main[x][j]
    BY <1>4
  <2> QED  BY <2>1 DEF CallbacksInv, AnswersHaveHistory
<1> QED  BY <1>3, <1>5

(* A callback that is posted joins the queue at its end.                   *)
LEMMA CallbackPosted ==
    ASSUME CallbacksInv, NEW d \in Devices, NEW e \in Callback,
           e.kind = "answer" => \A k \in Keys : HasHistory(e.docs[k]),
           main' = [main EXCEPT ![d] = Append(main[d], e)]
    PROVE  main' \in [Devices -> Seq(Callback)] /\ AnswersHaveHistory'
<1>1. main \in [Devices -> Seq(Callback)]
  BY DEF CallbacksInv, CallbacksTypeOK
<1>2. /\ Append(main[d], e) \in Seq(Callback)
      /\ Len(Append(main[d], e)) = Len(main[d]) + 1
      /\ \A i \in 1 .. Len(main[d]) : Append(main[d], e)[i] = main[d][i]
      /\ Append(main[d], e)[Len(main[d]) + 1] = e
  BY <1>1, AppendProperties
<1>3. main' \in [Devices -> Seq(Callback)]
  BY <1>1, <1>2
<1>4. ASSUME NEW x \in Devices, NEW i \in 1 .. Len(main'[x])
      PROVE  main'[x][i] = e \/ \E j \in 1 .. Len(main[x]) : main'[x][i] = main[x][j]
  <2>1. CASE x = d
    <3>1. Len(main[d]) \in Nat /\ main'[x] = Append(main[d], e)
      BY <1>1, <2>1
    <3>2. CASE i = Len(main[d]) + 1
      BY <1>2, <3>1, <3>2
    <3>3. CASE i # Len(main[d]) + 1
      <4>1. i \in 1 .. Len(main[d])
        BY <1>2, <1>4, <3>1, <3>3
      <4> QED  BY <1>2, <2>1, <3>1, <4>1
    <3> QED  BY <3>2, <3>3
  <2>2. CASE x # d
    BY <1>1, <1>4, <2>2
  <2> QED  BY <2>1, <2>2
<1>5. AnswersHaveHistory'
  <2> SUFFICES ASSUME NEW x \in Devices, NEW i \in 1 .. Len(main'[x]), NEW k \in Keys,
                      main'[x][i].kind = "answer"
               PROVE  HasHistory(main'[x][i].docs[k])
    BY DEF AnswersHaveHistory
  <2>1. CASE main'[x][i] = e
    BY <2>1
  <2>2. CASE \E j \in 1 .. Len(main[x]) : main'[x][i] = main[x][j]
    BY <2>2 DEF CallbacksInv, AnswersHaveHistory
  <2> QED  BY <1>4, <2>1, <2>2
<1> QED  BY <1>3, <1>5

LEMMA AskCallbacksInv ==
    ASSUME CallbacksInv, NEW d \in Devices, NEW pop, NEW ws, NEW qs \in Seq(Owners),
           Ask(d, pop, ws, qs)
    PROVE  CallbacksInv'
<1>1. /\ online \in [Devices -> BOOLEAN] /\ up \in [Devices -> BOOLEAN]
      /\ queries \in [Devices -> Seq(Owners)] /\ main \in [Devices -> Seq(Callback)]
      /\ writes \in 0 .. MaxWrites /\ faults \in 0 .. MaxFaults
      /\ MaxWrites \in Nat
  BY MarketAssumption DEF MarketAssumption, CallbacksInv, CallbacksTypeOK
<1>2. queries' = [queries EXCEPT ![d] = queries[d] \o qs] /\ UNCHANGED <<online, faults>>
  BY DEF Ask
<1>3. queries' \in [Devices -> Seq(Owners)]
  BY <1>1, <1>2
<1>4. writes' \in 0 .. MaxWrites /\ up' \in [Devices -> BOOLEAN]
  BY <1>1 DEF Ask
<1>5. main' \in [Devices -> Seq(Callback)] /\ AnswersHaveHistory'
  <2>1. CASE main' = main
    BY <1>1, <2>1 DEF CallbacksInv, AnswersHaveHistory
  <2>2. CASE main' # main
    <3>1. main[d] # <<>> /\ main' = [main EXCEPT ![d] = Tail(main[d])]
      BY <2>2 DEF Ask
    <3> QED  BY <3>1, CallbackCalled
  <2> QED  BY <2>1, <2>2
<1> QED  BY <1>1, <1>2, <1>3, <1>4, <1>5 DEF CallbacksInv, CallbacksTypeOK

LEMMA ResolveCallbacksInv ==
    ASSUME StoreInv, CallbacksInv, NEW d \in Devices, Resolve(d)
    PROVE  main' \in [Devices -> Seq(Callback)] /\ AnswersHaveHistory'
<1> DEFINE w == Head(pending[d])
           ok == Head(replies[d]) # "error"
           done == [kind |-> "done", cb |-> w.cb, ok |-> ok]
<1>1. main' = IF w.cb = NoCompletion THEN main ELSE [main EXCEPT ![d] = Append(main[d], done)]
  BY DEF Resolve
<1>2. CASE main' = main
  BY <1>2 DEF CallbacksInv, CallbacksTypeOK, AnswersHaveHistory
<1>3. CASE main' # main
  <2>1. replies[d] # <<>> /\ replies \in [Devices -> Seq({"ok", "known", "error"})]
        /\ pending \in [Devices -> Seq(Write)] /\ Len(replies[d]) <= Len(pending[d])
    BY DEF Resolve, StoreInv, StoreTypeOK, RepliesMatch
  <2>2. Len(replies[d]) \in Nat /\ Len(replies[d]) # 0 /\ Len(pending[d]) \in Nat
    BY <2>1
  <2>3. pending[d] # <<>>
    BY <2>1, <2>2
  <2>4. w \in Write
    BY <2>1, <2>3
  <2>5. w.cb \in Completions
    BY <1>1, <1>3, <2>4 DEF Write
  <2>6. ok \in BOOLEAN
    OBVIOUS
  <2> HIDE DEF w, ok
  <2>7. done \in Callback /\ done.kind = "done"
    BY <2>5, <2>6 DEF Callback
  <2>8. main' = [main EXCEPT ![d] = Append(main[d], done)]
    BY <1>1, <1>3
  <2> QED  BY <2>7, <2>8, CallbackPosted
<1> QED  BY <1>2, <1>3

LEMMA AnswerCallbacksInv ==
    ASSUME StoreInv, CallbacksInv, NEW d \in Devices, Answer(d)
    PROVE  /\ main' \in [Devices -> Seq(Callback)] /\ AnswersHaveHistory'
           /\ queries' \in [Devices -> Seq(Owners)]
<1>1. /\ server \in Contents /\ cache[d] \in Contents
      /\ pending[d] \in Seq(Write)
      /\ queries \in [Devices -> Seq(Owners)] /\ queries[d] # <<>>
  BY DEF Answer, StoreInv, StoreTypeOK, CallbacksInv, CallbacksTypeOK
<1>2. /\ \A k \in Keys : HasHistory(server[k]) /\ HasHistory(cache[d][k])
      /\ \A i \in 1 .. Len(pending[d]) : SetCarriesHistory(pending[d][i])
  BY DEF StoreInv, DocsHaveHistory, QueuedSets
<1>3. PICK from \in {"server", "cache", "error"}, learnt \in {server, cache[d]} :
        AnswerWith(d, from, learnt)
  BY DEF Answer
<1>4. /\ LocalView(learnt, pending[d]) \in Contents
      /\ \A k \in Keys : HasHistory(LocalView(learnt, pending[d])[k])
  BY <1>1, <1>2, LocalViewFacts
<1>5. PICK e : /\ e = [kind |-> "answer", owner |-> Head(queries[d]), from |-> from,
                       docs |-> LocalView(learnt, pending[d])]
               /\ main' = [main EXCEPT ![d] = Append(main[d], e)]
  BY <1>3 DEF AnswerWith
<1>6. Head(queries[d]) \in Owners
  BY <1>1
<1>7. e \in Callback /\ \A k \in Keys : HasHistory(e.docs[k])
  BY <1>4, <1>5, <1>6 DEF Callback
<1>8. main' \in [Devices -> Seq(Callback)] /\ AnswersHaveHistory'
  BY <1>5, <1>7, CallbackPosted
<1>9. queries' = [queries EXCEPT ![d] = Tail(queries[d])]
  BY DEF Answer
<1>10. Tail(queries[d]) \in Seq(Owners)
  BY <1>1
<1> QED  BY <1>1, <1>8, <1>9, <1>10

(* A fault is counted, and there are never more than MaxFaults.            *)
LEMMA FaultCounts ==
    ASSUME CallbacksInv, NEW kind, Fault(kind) \/ UNCHANGED faults
    PROVE  faults' \in 0 .. MaxFaults
<1>1. faults \in 0 .. MaxFaults /\ MaxFaults \in Nat
  BY MarketAssumption DEF MarketAssumption, CallbacksInv, CallbacksTypeOK
<1> QED  BY <1>1 DEF Fault

LEMMA ClientStepCallbacksInv ==
    ASSUME StoreInv, CallbacksInv, NEW d \in Devices, ClientStep(d)
    PROVE  CallbacksInv'
<1>1. /\ online \in [Devices -> BOOLEAN] /\ up \in [Devices -> BOOLEAN]
      /\ queries \in [Devices -> Seq(Owners)] /\ main \in [Devices -> Seq(Callback)]
      /\ writes \in 0 .. MaxWrites /\ faults \in 0 .. MaxFaults
      /\ AnswersHaveHistory
  BY DEF CallbacksInv, CallbacksTypeOK
<1>2. CASE Land(d) \/ Refuse(d) \/ LoseReply(d) \/ GoOffline(d) \/ GoOnline(d)
  <2>1. UNCHANGED <<up, queries, main, writes>>
    BY <1>2 DEF Land, Refuse, LoseReply, GoOffline, GoOnline, storeVars
  <2>2. AnswersHaveHistory'
    BY <1>1, <2>1 DEF AnswersHaveHistory
  <2>3. online' \in [Devices -> BOOLEAN]
    BY <1>1, <1>2 DEF Land, Refuse, LoseReply, GoOffline, GoOnline, storeVars
  <2>4. (\E kind : Fault(kind)) \/ UNCHANGED faults
    BY <1>2 DEF Land, Refuse, LoseReply, GoOffline, GoOnline
  <2>5. faults' \in 0 .. MaxFaults
    BY <2>4, FaultCounts
  <2> QED  BY <1>1, <2>1, <2>2, <2>3, <2>5 DEF CallbacksInv, CallbacksTypeOK
<1>3. CASE Resolve(d)
  <2>1. UNCHANGED <<online, up, queries, writes, faults>>
    BY <1>3 DEF Resolve
  <2>2. main' \in [Devices -> Seq(Callback)] /\ AnswersHaveHistory'
    BY <1>3, ResolveCallbacksInv
  <2> QED  BY <1>1, <2>1, <2>2 DEF CallbacksInv, CallbacksTypeOK
<1>4. CASE Answer(d)
  <2>1. UNCHANGED <<online, up, writes>>
    BY <1>4 DEF Answer
  <2>2. (\E kind : Fault(kind)) \/ UNCHANGED faults
    BY <1>4 DEF Answer
  <2>3. faults' \in 0 .. MaxFaults
    BY <2>2, FaultCounts
  <2>4. /\ main' \in [Devices -> Seq(Callback)] /\ AnswersHaveHistory'
        /\ queries' \in [Devices -> Seq(Owners)]
    BY <1>4, AnswerCallbacksInv
  <2> QED  BY <1>1, <2>1, <2>3, <2>4 DEF CallbacksInv, CallbacksTypeOK
<1> QED  BY <1>2, <1>3, <1>4 DEF ClientStep

LEMMA KillCallbacksInv ==
    ASSUME CallbacksInv, NEW d \in Devices, Kill(d)
    PROVE  CallbacksInv'
<1>1. /\ online \in [Devices -> BOOLEAN] /\ up \in [Devices -> BOOLEAN]
      /\ queries \in [Devices -> Seq(Owners)] /\ main \in [Devices -> Seq(Callback)]
      /\ writes \in 0 .. MaxWrites
      /\ AnswersHaveHistory
  BY DEF CallbacksInv, CallbacksTypeOK
<1>2. /\ up' = [up EXCEPT ![d] = FALSE] /\ queries' = [queries EXCEPT ![d] = <<>>]
      /\ main' = [main EXCEPT ![d] = <<>>] /\ UNCHANGED <<online, writes>>
      /\ (\E kind : Fault(kind)) \/ UNCHANGED faults
  BY DEF Kill, ProcessEnds
<1>3. /\ up' \in [Devices -> BOOLEAN] /\ queries' \in [Devices -> Seq(Owners)]
      /\ main' \in [Devices -> Seq(Callback)]
  BY <1>1, <1>2
<1>4. \A x \in Devices : main'[x] = main[x] \/ main'[x] = <<>>
  BY <1>1, <1>2
<1>5. AnswersHaveHistory'
  BY <1>1, <1>4 DEF AnswersHaveHistory
<1>6. faults' \in 0 .. MaxFaults
  BY <1>2, FaultCounts
<1> QED  BY <1>1, <1>2, <1>3, <1>5, <1>6 DEF CallbacksInv, CallbacksTypeOK

LEMMA StutterCallbacksInv == CallbacksInv /\ UNCHANGED marketVars => CallbacksInv'
<1> QED  BY DEF marketVars, CallbacksInv, CallbacksTypeOK, AnswersHaveHistory

LEMMA MarketNextCallbacksInv == StoreInv /\ CallbacksInv /\ [MarketNext]_marketVars => CallbacksInv'
<1> SUFFICES ASSUME StoreInv, CallbacksInv, [MarketNext]_marketVars PROVE CallbacksInv'
  OBVIOUS
<1>1. ASSUME NEW d \in Devices, NEW pop, NEW ws, NEW qs \in BoundedSeq(Owners, MaxQueries),
             AppStep(d, pop, ws, qs)
      PROVE  CallbacksInv'
  <2>1. qs \in Seq(Owners)
    <3>1. PICK m \in 0 .. MaxQueries : qs \in [1 .. m -> Owners]
      BY DEF BoundedSeq, SeqOf
    <3>2. m \in Nat
      BY MarketAssumption DEF MarketAssumption
    <3> QED  BY <3>1, <3>2
  <2> QED  BY <1>1, <2>1, AskCallbacksInv DEF AppStep
<1>2. ASSUME NEW d \in Devices, ClientStep(d)
      PROVE  CallbacksInv'
  BY <1>2, ClientStepCallbacksInv
<1>3. ASSUME NEW d \in Devices, Kill(d)
      PROVE  CallbacksInv'
  BY <1>3, KillCallbacksInv
<1>4. CASE UNCHANGED marketVars
  BY <1>4, StutterCallbacksInv
<1> QED  BY <1>1, <1>2, <1>3, <1>4 DEF MarketNext

LEMMA CallbacksInvariant == MarketSpec => []CallbacksInv
<1> QED  BY InitCallbacksInv, MarketNextCallbacksInv, StoreInvariant, PTL DEF MarketSpec

(* The documents, queues, replies, queries and callbacks keep their types. *)
THEOREM MarketTypeCorrect == MarketSpec => []MarketTypeOK
<1>1. StoreInv /\ CallbacksInv => MarketTypeOK
  BY DEF StoreInv, CallbacksInv, MarketTypeOK
<1> QED  BY <1>1, StoreInvariant, CallbacksInvariant, PTL

(* No answer ever shows the app a document with an empty array, whatever   *)
(* the phone has queued on top of whatever the other phones have done.     *)
THEOREM AnswersNeverEmpty == MarketSpec => []AnswersHaveHistory
<1>1. CallbacksInv => AnswersHaveHistory
  BY DEF CallbacksInv
<1> QED  BY <1>1, CallbacksInvariant, PTL

--------------------------------------------------------------------------------
(***************************************************************************)
(* The cache of the only phone: as long as a view is live, what it has of  *)
(* a document none of the phone's queued writes names is what the backend  *)
(* has, although replies are lost and writes repeated or refused.          *)
(*                                                                         *)
(* What makes it hard is a lost reply. The writes that had replies are     *)
(* sent again, and until their new replies have been read the cache has    *)
(* learnt of each of them twice, once or not at all. The invariant         *)
(* therefore compares the backend with the cache after some number q of    *)
(* the queued writes (Agree), where a write from which nothing more will   *)
(* be learnt counts as one that adds nothing (HeardOf), or says that a     *)
(* setData or a delete to be repeated will make what was there before      *)
(* irrelevant (Renewed).                                                   *)
(*                                                                         *)
(* First the facts about queues, documents and caches as values, then the  *)
(* invariant and what each step does to it.                                *)
(***************************************************************************)

(* The documents after the first n writes of a queue *)

(* The documents after the first n of the writes ws.                       *)
ViewAt(docs, ws, n) == (CHOOSE f : IsAfter(f, docs, ws, n))[n]

(* There are such documents, for every n.                                   *)
LEMMA OneMoreAfter ==
    ASSUME NEW docs, NEW ws, NEW n \in Nat, NEW f, IsAfter(f, docs, ws, n)
    PROVE  \E g : IsAfter(g, docs, ws, n + 1)
<1> DEFINE g == [m \in 0 .. n + 1 |-> IF m = n + 1 THEN ApplyTo(f[n], ws[n + 1]) ELSE f[m]]
<1>1. ASSUME NEW m \in 0 .. n + 1
      PROVE  g[m] = IF m = 0 THEN docs ELSE ApplyTo(g[m - 1], ws[m])
  <2>1. CASE m = n + 1
    BY <2>1
  <2>2. CASE m # n + 1
    <3>1. m \in 0 .. n /\ g[m] = f[m] /\ (m # 0 => g[m - 1] = f[m - 1])
      BY <2>2
    <3>2. f[m] = IF m = 0 THEN docs ELSE ApplyTo(f[m - 1], ws[m])
      BY <3>1 DEF IsAfter
    <3> QED  BY <3>1, <3>2
  <2> QED  BY <2>1, <2>2
<1>2. g = [m \in 0 .. n + 1 |-> IF m = 0 THEN docs ELSE ApplyTo(g[m - 1], ws[m])]
  BY <1>1
<1> QED  BY <1>2 DEF IsAfter

LEMMA AfterExists ==
    ASSUME NEW docs, NEW ws, NEW n \in Nat
    PROVE  \E f : IsAfter(f, docs, ws, n)
<1> DEFINE S == {m \in Nat : \E f : IsAfter(f, docs, ws, m)}
<1>1. 0 \in S
  <2> DEFINE f == [m \in 0 .. 0 |-> docs]
  <2>1. f = [m \in 0 .. 0 |-> IF m = 0 THEN docs ELSE ApplyTo(f[m - 1], ws[m])]
    OBVIOUS
  <2>2. IsAfter(f, docs, ws, 0)
    BY <2>1 DEF IsAfter
  <2> QED  BY <2>2
<1>2. \A m \in Nat : m \in S => m + 1 \in S
  BY OneMoreAfter
<1> HIDE DEF S
<1>3. n \in S
  BY <1>1, <1>2, SetInduction
<1> QED  BY <1>3 DEF S

LEMMA ViewAtIs ==
    ASSUME NEW docs, NEW ws, NEW n \in Nat, NEW f, IsAfter(f, docs, ws, n)
    PROVE  ViewAt(docs, ws, n) = f[n]
<1> DEFINE g == CHOOSE h : IsAfter(h, docs, ws, n)
<1>1. IsAfter(g, docs, ws, n)
  OBVIOUS
<1>2. ViewAt(docs, ws, n) = g[n]
  BY DEF ViewAt
<1> HIDE DEF g
<1> QED  BY <1>1, <1>2, ViewsAreUnique

(* What a query sees is what there is after all of them.                   *)
LEMMA LocalViewIsViewAt ==
    ASSUME NEW docs, NEW ws \in Seq(Write)
    PROVE  LocalView(docs, ws) = ViewAt(docs, ws, Len(ws))
  BY DEF LocalView, ViewAt, IsAfter

(* The writes are applied one after the other.                             *)
LEMMA ViewAtSteps ==
    ASSUME NEW docs, NEW ws
    PROVE  /\ ViewAt(docs, ws, 0) = docs
           /\ \A n \in Nat : ViewAt(docs, ws, n + 1) = ApplyTo(ViewAt(docs, ws, n), ws[n + 1])
<1>1. ViewAt(docs, ws, 0) = docs
  <2>1. PICK f : IsAfter(f, docs, ws, 0)
    BY AfterExists
  <2>2. f[0] = docs
    BY <2>1 DEF IsAfter
  <2> QED  BY <2>1, <2>2, ViewAtIs
<1>2. ASSUME NEW n \in Nat
      PROVE  ViewAt(docs, ws, n + 1) = ApplyTo(ViewAt(docs, ws, n), ws[n + 1])
  <2>1. PICK f : IsAfter(f, docs, ws, n + 1)
    BY AfterExists
  <2> DEFINE g == [m \in 0 .. n |-> f[m]]
  <2>2. \A m \in 0 .. n : f[m] = IF m = 0 THEN docs ELSE ApplyTo(f[m - 1], ws[m])
    BY <2>1 DEF IsAfter
  <2>3. \A m \in 0 .. n : m # 0 => m - 1 \in 0 .. n
    OBVIOUS
  <2>4. \A m \in 0 .. n : g[m] = IF m = 0 THEN docs ELSE ApplyTo(g[m - 1], ws[m])
    BY <2>2, <2>3
  <2>5. IsAfter(g, docs, ws, n)
    BY <2>4 DEF IsAfter
  <2>6. f[n + 1] = ApplyTo(f[n], ws[n + 1])
    BY <2>1 DEF IsAfter
  <2>7. g[n] = f[n]
    OBVIOUS
  <2> HIDE DEF g
  <2>8. ViewAt(docs, ws, n + 1) = f[n + 1] /\ ViewAt(docs, ws, n) = g[n]
    BY <2>1, <2>5, ViewAtIs
  <2> QED  BY <2>6, <2>7, <2>8
<1> QED  BY <1>1, <1>2

(* Only the first n writes matter.                                         *)
LEMMA ViewAtSame ==
    ASSUME NEW docs, NEW ws, NEW vs, NEW n \in Nat, \A i \in 1 .. n : vs[i] = ws[i]
    PROVE  ViewAt(docs, vs, n) = ViewAt(docs, ws, n)
<1> DEFINE S == {m \in Nat : m <= n => ViewAt(docs, vs, m) = ViewAt(docs, ws, m)}
<1>1. 0 \in S
  BY ViewAtSteps
<1>2. ASSUME NEW m \in Nat, m \in S
      PROVE  m + 1 \in S
  <2> SUFFICES ASSUME m + 1 <= n PROVE ViewAt(docs, vs, m + 1) = ViewAt(docs, ws, m + 1)
    OBVIOUS
  <2>1. ViewAt(docs, vs, m) = ViewAt(docs, ws, m) /\ vs[m + 1] = ws[m + 1]
    BY <1>2
  <2>2. /\ ViewAt(docs, vs, m + 1) = ApplyTo(ViewAt(docs, vs, m), vs[m + 1])
        /\ ViewAt(docs, ws, m + 1) = ApplyTo(ViewAt(docs, ws, m), ws[m + 1])
    BY ViewAtSteps, ZenonT(30)
  <2> QED  BY <2>1, <2>2
<1> HIDE DEF S
<1>3. n \in S
  BY <1>1, <1>2, SetInduction
<1> QED  BY <1>3 DEF S

(* The first write may be applied beforehand.                              *)
LEMMA ViewAtShift ==
    ASSUME NEW docs, NEW ws, NEW vs, NEW n \in Nat, \A i \in 1 .. n : vs[i] = ws[i + 1]
    PROVE  ViewAt(docs, ws, n + 1) = ViewAt(ApplyTo(docs, ws[1]), vs, n)
<1> DEFINE S == {m \in Nat : m <= n =>
                   ViewAt(docs, ws, m + 1) = ViewAt(ApplyTo(docs, ws[1]), vs, m)}
<1>1. 0 \in S
  <2>1. ViewAt(docs, ws, 0 + 1) = ApplyTo(ViewAt(docs, ws, 0), ws[0 + 1])
    BY ViewAtSteps
  <2>2. ViewAt(docs, ws, 0) = docs /\ ViewAt(ApplyTo(docs, ws[1]), vs, 0) = ApplyTo(docs, ws[1])
    BY ViewAtSteps
  <2> QED  BY <2>1, <2>2
<1>2. ASSUME NEW m \in Nat, m \in S
      PROVE  m + 1 \in S
  <2> SUFFICES ASSUME m + 1 <= n
               PROVE  ViewAt(docs, ws, (m + 1) + 1) = ViewAt(ApplyTo(docs, ws[1]), vs, m + 1)
    OBVIOUS
  <2>1. ViewAt(docs, ws, m + 1) = ViewAt(ApplyTo(docs, ws[1]), vs, m)
    BY <1>2
  <2>2. vs[m + 1] = ws[(m + 1) + 1]
    OBVIOUS
  <2>3. ViewAt(docs, ws, (m + 1) + 1) = ApplyTo(ViewAt(docs, ws, m + 1), ws[(m + 1) + 1])
    <3>1. m + 1 \in Nat
      OBVIOUS
    <3> QED  BY ONLY <3>1, ViewAtSteps, ZenonT(30)
  <2>4. ViewAt(ApplyTo(docs, ws[1]), vs, m + 1)
          = ApplyTo(ViewAt(ApplyTo(docs, ws[1]), vs, m), vs[m + 1])
    BY ViewAtSteps
  <2> QED  BY <2>1, <2>2, <2>3, <2>4
<1> HIDE DEF S
<1>3. n \in S
  BY <1>1, <1>2, SetInduction
<1> QED  BY <1>3 DEF S

LEMMA ViewAtType ==
    ASSUME NEW docs \in Contents, NEW ws, NEW n \in Nat, \A i \in 1 .. n : ws[i] \in Write
    PROVE  ViewAt(docs, ws, n) \in Contents
<1> DEFINE S == {m \in Nat : m <= n => ViewAt(docs, ws, m) \in Contents}
<1>1. 0 \in S
  BY ViewAtSteps
<1>2. ASSUME NEW m \in Nat, m \in S
      PROVE  m + 1 \in S
  <2> SUFFICES ASSUME m + 1 <= n PROVE ViewAt(docs, ws, m + 1) \in Contents
    OBVIOUS
  <2>1. ViewAt(docs, ws, m) \in Contents /\ ws[m + 1] \in Write
    BY <1>2
  <2>2. ApplyTo(ViewAt(docs, ws, m), ws[m + 1]) \in Contents
    BY <2>1, ApplyToType
  <2> QED  BY <2>2, ViewAtSteps
<1> HIDE DEF S
<1>3. n \in S
  BY <1>1, <1>2, SetInduction
<1> QED  BY <1>3 DEF S

(* Writes between m and n that do not name k leave k alone; updates make   *)
(* no document and remove none.                                            *)
LEMMA ViewAtBetween ==
    ASSUME NEW docs \in Contents, NEW ws, NEW n \in Nat, \A i \in 1 .. n : ws[i] \in Write,
           NEW m \in 0 .. n, NEW k \in Keys
    PROVE  /\ (\A i \in m + 1 .. n : ws[i].key # k) =>
                ViewAt(docs, ws, n)[k] = ViewAt(docs, ws, m)[k]
           /\ (\A i \in m + 1 .. n : ws[i].key = k => ws[i].op = "update") =>
                (ViewAt(docs, ws, n)[k] = NoDoc <=> ViewAt(docs, ws, m)[k] = NoDoc)
<1> DEFINE Same(x) == (\A i \in m + 1 .. x : ws[i].key # k) =>
                         ViewAt(docs, ws, x)[k] = ViewAt(docs, ws, m)[k]
           Alike(x) == (\A i \in m + 1 .. x : ws[i].key = k => ws[i].op = "update") =>
                         (ViewAt(docs, ws, x)[k] = NoDoc <=> ViewAt(docs, ws, m)[k] = NoDoc)
           S == {x \in Nat : m <= x /\ x <= n => Same(x) /\ Alike(x)}
<1>1. 0 \in S
  OBVIOUS
<1>2. ASSUME NEW x \in Nat, x \in S
      PROVE  x + 1 \in S
  <2> SUFFICES ASSUME m <= x + 1, x + 1 <= n PROVE Same(x + 1) /\ Alike(x + 1)
    OBVIOUS
  <2>1. CASE m = x + 1
    BY <2>1
  <2>2. CASE m # x + 1
    <3> DEFINE w == ws[x + 1]
               v == ViewAt(docs, ws, x)
    <3>1. Same(x) /\ Alike(x)
      BY <1>2, <2>2
    <3>2. w \in Write /\ v \in Contents /\ x + 1 \in m + 1 .. x + 1
      BY <2>2, ViewAtType
    <3>3. ViewAt(docs, ws, x + 1) = ApplyTo(v, w)
      BY ViewAtSteps
    <3>4. \A i \in m + 1 .. x : i \in m + 1 .. x + 1
      OBVIOUS
    <3> HIDE DEF w, v
    <3>5. ApplyTo(v, w)[k] = IF k = w.key /\ Accepts(w, v[k]) THEN Applied(w, v[k]) ELSE v[k]
      BY <3>2, ApplyToKeys
    <3>6. w.op = "update" => (ApplyTo(v, w)[k] = NoDoc <=> v[k] = NoDoc)
      <4> SUFFICES ASSUME w.op = "update", k = w.key, v[k] # NoDoc PROVE Applied(w, v[k]) # NoDoc
        BY <3>5 DEF Accepts
      <4>1. v[k] \in Doc
        BY <3>2 DEF Contents
      <4>2. Applied(w, v[k]) = [price |-> Unite(v[k].price, w.price), date |-> Unite(v[k].date, w.date)]
        BY <3>2, <4>1, AppliedType
      <4>3. NoField \notin Seq(Prices) /\ NoField \notin Seq(Dates)
        BY MarketAssumption DEF MarketAssumption
      <4>4. /\ v[k].price \in Seq(Prices) /\ v[k].date \in Seq(Dates)
            /\ w.price \in Seq(Prices) /\ w.date \in Seq(Dates)
        BY <3>2, <4>1 DEF Doc, Write
      <4>5. Unite(v[k].price, w.price) \in Seq(Prices) /\ Unite(v[k].date, w.date) \in Seq(Dates)
        BY <4>3, <4>4, UniteType
      <4>6. Applied(w, v[k]) \in Doc
        BY <4>2, <4>5 DEF Doc
      <4> QED  BY <4>6, MarketAssumption DEF MarketAssumption
    <3>7. Same(x + 1)
      BY <3>1, <3>2, <3>3, <3>4, <3>5 DEF w, v
    <3>8. Alike(x + 1)
      <4> SUFFICES ASSUME \A i \in m + 1 .. x + 1 : ws[i].key = k => ws[i].op = "update"
                   PROVE  ApplyTo(v, w)[k] = NoDoc <=> ViewAt(docs, ws, m)[k] = NoDoc
        BY <3>3
      <4>1. v[k] = NoDoc <=> ViewAt(docs, ws, m)[k] = NoDoc
        BY <3>1, <3>4 DEF v
      <4>2. w.key = k => w.op = "update"
        BY <3>2 DEF w
      <4> QED  BY <3>5, <3>6, <4>1, <4>2
    <3> QED  BY <3>7, <3>8
  <2> QED  BY <2>1, <2>2
<1>3. n \in S
  <2> HIDE DEF S
  <2> QED  BY <1>1, <1>2, SetInduction
<1> QED  BY <1>3

--------------------------------------------------------------------------------
(* Writes that change nothing *)

(* The document x shows nothing of the update w that is not there already. *)
Absorbs(x, w) == w.op = "update" /\ (x = NoDoc \/ Applied(w, x) = x)

(* The update of w's document that adds nothing.                           *)
Muted(w) == [op |-> "update", key |-> w.key, price |-> <<>>, date |-> <<>>, cb |-> w.cb]

LEMMA MutedFacts ==
    ASSUME NEW docs \in Contents, NEW w \in Write
    PROVE  /\ Muted(w) \in Write /\ Muted(w).key = w.key /\ Muted(w).op = "update"
           /\ ApplyTo(docs, Muted(w)) = docs
<1>1. Muted(w) \in Write /\ Muted(w).key = w.key /\ Muted(w).op = "update"
      /\ Muted(w).price = <<>> /\ Muted(w).date = <<>>
  BY DEF Muted, Write
<1>2. docs \in [Keys -> Doc \cup {NoDoc}] /\ w.key \in Keys
  BY DEF Contents, Write
<1>3. CASE docs[w.key] = NoDoc
  BY <1>1, <1>3 DEF ApplyTo, Accepts
<1>4. CASE docs[w.key] # NoDoc
  <2>1. docs[w.key] \in Doc
    BY <1>2, <1>4
  <2>2. Applied(Muted(w), docs[w.key]) = [price |-> docs[w.key].price, date |-> docs[w.key].date]
    BY <1>1, <1>4, <2>1, AppliedType DEF Unite
  <2>3. Applied(Muted(w), docs[w.key]) = docs[w.key]
    BY <2>1, <2>2 DEF Doc
  <2> QED  BY <1>1, <1>2, <2>3 DEF ApplyTo
<1> QED  BY <1>1, <1>3, <1>4

(* Adding to an array changes nothing just when there is nothing to add or *)
(* the array has it; hence not the second time, nor after further ones.    *)
LEMMA UniteHolds ==
    ASSUME NEW S, NEW arr \in Seq(S), NEW more \in Seq(S), NoField \notin Seq(S)
    PROVE  Unite(arr, more) = arr <=> (more = <<>> \/ \E i \in 1 .. Len(arr) : arr[i] = more[1])
<1>1. CASE more = <<>>
  BY <1>1 DEF Unite
<1>2. CASE more # <<>>
  <2>1. Unite(arr, more) = ArrayUnion(arr, more[1]) /\ arr # NoField /\ more[1] \in S
    BY <1>2 DEF Unite
  <2>2. CASE \E i \in 1 .. Len(arr) : arr[i] = more[1]
    BY <2>1, <2>2 DEF ArrayUnion
  <2>3. CASE ~ \E i \in 1 .. Len(arr) : arr[i] = more[1]
    <3>1. Unite(arr, more) = Append(arr, more[1])
      BY <2>1, <2>3 DEF ArrayUnion
    <3>2. Len(Append(arr, more[1])) = Len(arr) + 1 /\ Len(arr) \in Nat
      BY <2>1
    <3>3. Unite(arr, more) # arr
      BY <3>1, <3>2
    <3> QED  BY <1>2, <2>3, <3>3
  <2> QED  BY <2>2, <2>3
<1> QED  BY <1>1, <1>2

LEMMA UniteAgain ==
    ASSUME NEW S, NEW arr \in Seq(S), NEW more \in Seq(S), NoField \notin Seq(S)
    PROVE  Unite(Unite(arr, more), more) = Unite(arr, more)
<1>1. Unite(arr, more) \in Seq(S)
  BY UniteType
<1>2. CASE more = <<>>
  BY <1>2 DEF Unite
<1>3. CASE more # <<>>
  <2>1. PICK v \in S : v = more[1]
    BY <1>3
  <2>2. Unite(arr, more) = ArrayUnion(arr, v)
    BY <1>3, <2>1 DEF Unite
  <2>3. \E i \in 1 .. Len(Unite(arr, more)) : Unite(arr, more)[i] = more[1]
    <3>1. \E i \in 1 .. Len(ArrayUnion(arr, v)) : ArrayUnion(arr, v)[i] = v
      BY ArrayUnionHolds
    <3> QED  BY <2>1, <2>2, <3>1
  <2> QED  BY <1>1, <2>3, UniteHolds
<1> QED  BY <1>2, <1>3

LEMMA UniteStays ==
    ASSUME NEW S, NEW arr \in Seq(S), NEW more \in Seq(S), NEW other \in Seq(S),
           NoField \notin Seq(S), Unite(arr, more) = arr
    PROVE  Unite(Unite(arr, other), more) = Unite(arr, other)
<1>1. /\ Unite(arr, other) \in Seq(S) /\ Len(arr) <= Len(Unite(arr, other))
      /\ \A i \in 1 .. Len(arr) : Unite(arr, other)[i] = arr[i]
  BY UniteType
<1>2. Len(arr) \in Nat /\ Len(Unite(arr, other)) \in Nat
  BY <1>1
<1>3. CASE more = <<>>
  BY <1>3 DEF Unite
<1>4. CASE \E i \in 1 .. Len(arr) : arr[i] = more[1]
  <2>1. PICK i \in 1 .. Len(arr) : arr[i] = more[1]
    BY <1>4
  <2>2. i \in 1 .. Len(Unite(arr, other)) /\ Unite(arr, other)[i] = more[1]
    BY <1>1, <1>2, <2>1
  <2> QED  BY <1>1, <2>2, UniteHolds
<1> QED  BY <1>3, <1>4, UniteHolds

(* An update absorbs itself, and once absorbed it stays so under further   *)
(* updates: arrays keep their elements.                                    *)
LEMMA AbsorbsFacts ==
    ASSUME NEW x \in Doc, NEW w \in Write, w.op = "update"
    PROVE  /\ Applied(w, x) \in Doc
           /\ Absorbs(Applied(w, x), w)
           /\ \A u \in Write : u.op = "update" /\ Absorbs(x, u) => Absorbs(Applied(w, x), u)
<1>1. x # NoDoc /\ NoField \notin Seq(Prices) /\ NoField \notin Seq(Dates)
  BY MarketAssumption DEF MarketAssumption
<1>2. /\ x.price \in Seq(Prices) /\ x.date \in Seq(Dates)
      /\ w.price \in Seq(Prices) /\ w.date \in Seq(Dates)
  BY DEF Doc, Write
<1> DEFINE y == Applied(w, x)
<1>3. y = [price |-> Unite(x.price, w.price), date |-> Unite(x.date, w.date)]
  BY <1>1, AppliedType
<1>4. Unite(x.price, w.price) \in Seq(Prices) /\ Unite(x.date, w.date) \in Seq(Dates)
  BY <1>1, <1>2, UniteType
<1>5. y \in Doc /\ y # NoDoc
  BY <1>3, <1>4, MarketAssumption DEF Doc, MarketAssumption
<1> HIDE DEF y
<1>6. Applied(w, y) = y
  <2>1. Applied(w, y) = [price |-> Unite(y.price, w.price), date |-> Unite(y.date, w.date)]
    BY <1>5, AppliedType
  <2>2. Unite(y.price, w.price) = y.price
    BY <1>1, <1>2, <1>3, UniteAgain
  <2>3. Unite(y.date, w.date) = y.date
    BY <1>1, <1>2, <1>3, UniteAgain
  <2> QED  BY <1>3, <2>1, <2>2, <2>3
<1>7. ASSUME NEW u \in Write, u.op = "update", Absorbs(x, u)
      PROVE  Applied(u, y) = y
  <2>1. u.price \in Seq(Prices) /\ u.date \in Seq(Dates)
    BY DEF Write
  <2>2. /\ Applied(u, y) = [price |-> Unite(y.price, u.price), date |-> Unite(y.date, u.date)]
        /\ Applied(u, x) = [price |-> Unite(x.price, u.price), date |-> Unite(x.date, u.date)]
    BY <1>1, <1>5, <1>7, AppliedType
  <2>3. Applied(u, x) = x
    BY <1>1, <1>7 DEF Absorbs
  <2>4. Unite(x.price, u.price) = x.price /\ Unite(x.date, u.date) = x.date
    BY <2>2, <2>3
  <2>5. Unite(y.price, u.price) = y.price
    BY <1>1, <1>2, <1>3, <2>1, <2>4, UniteStays
  <2>6. Unite(y.date, u.date) = y.date
    BY <1>1, <1>2, <1>3, <2>1, <2>4, UniteStays
  <2> QED  BY <1>3, <2>2, <2>5, <2>6
<1> QED  BY <1>5, <1>6, <1>7 DEF y, Absorbs

(* One more write, seen by the document k.                                 *)
LEMMA AbsorbsApplied ==
    ASSUME NEW docs \in Contents, NEW w \in Write, NEW k \in Keys
    PROVE  /\ \A u \in Write : /\ Absorbs(docs[k], u)
                               /\ w.key = k => w.op = "update"
                               => Absorbs(ApplyTo(docs, w)[k], u)
           /\ w.key = k /\ w.op = "update" => Absorbs(ApplyTo(docs, w)[k], w)
           /\ w.key = k /\ Absorbs(docs[k], w) => ApplyTo(docs, w)[k] = docs[k]
           /\ w.key = k /\ w.op # "update" => ApplyTo(docs, w)[k] = Applied(w, docs[k])
<1>1. ApplyTo(docs, w)[k] = IF k = w.key /\ Accepts(w, docs[k]) THEN Applied(w, docs[k]) ELSE docs[k]
  BY ApplyToKeys
<1>2. docs[k] \in Doc \cup {NoDoc}
  BY DEF Contents
<1>3. ASSUME NEW u \in Write, Absorbs(docs[k], u), w.key = k => w.op = "update"
      PROVE  Absorbs(ApplyTo(docs, w)[k], u)
  <2>1. CASE k = w.key /\ Accepts(w, docs[k])
    <3>1. docs[k] \in Doc /\ w.op = "update" /\ u.op = "update"
      BY <1>2, <1>3, <2>1 DEF Accepts, Absorbs
    <3> QED  BY <1>1, <1>3, <2>1, <3>1, AbsorbsFacts
  <2>2. CASE ~(k = w.key /\ Accepts(w, docs[k]))
    BY <1>1, <1>3, <2>2
  <2> QED  BY <2>1, <2>2
<1>4. ASSUME w.key = k, w.op = "update"
      PROVE  Absorbs(ApplyTo(docs, w)[k], w)
  <2>1. CASE docs[k] = NoDoc
    BY <1>1, <1>4, <2>1 DEF Accepts, Absorbs
  <2>2. CASE docs[k] # NoDoc
    BY <1>1, <1>2, <1>4, <2>2, AbsorbsFacts DEF Accepts
  <2> QED  BY <2>1, <2>2
<1>5. w.key = k /\ Absorbs(docs[k], w) => ApplyTo(docs, w)[k] = docs[k]
  BY <1>1 DEF Absorbs, Accepts
<1>6. w.key = k /\ w.op # "update" => ApplyTo(docs, w)[k] = Applied(w, docs[k])
  BY <1>1 DEF Accepts
<1> QED  BY <1>3, <1>4, <1>5, <1>6

(* What a setData or a delete leaves does not depend on what was there.    *)
LEMMA RenewalForgets ==
    ASSUME NEW w, w.op \in {"set", "delete"}, NEW x, NEW y
    PROVE  Applied(w, x) = Applied(w, y)
  BY DEF Applied

--------------------------------------------------------------------------------
(* The backend and the cache of the only phone there is *)

(* A backend `there` and a cache `here`, a queue ws of which m have been   *)
(* accepted before, and the replies rs to the oldest of them.              *)
Fits(there, here, ws, rs, m) ==
    /\ there \in Contents /\ here \in Contents
    /\ ws \in Seq(Write) /\ rs \in Seq({"ok", "known", "error"}) /\ Len(rs) <= Len(ws)
    /\ m \in Nat /\ m <= Len(ws)
    /\ \A i \in 1 .. Len(rs) : rs[i] # "error" => i <= m

(* The queue as the cache will learn it: nothing of what was refused or is *)
(* known already.                                                          *)
HeardOf(ws, rs) ==
    [i \in 1 .. Len(ws) |-> IF i <= Len(rs) /\ rs[i] # "ok" THEN Muted(ws[i]) ELSE ws[i]]

(* From the i-th write on, one that was accepted before sets or deletes k. *)
Renewed(ws, m, k, i) == \E j \in i .. m : ws[j].key = k /\ ws[j].op # "update"

(* The backend has of k what the cache will have after q writes, those     *)
(* without a reply being updates that would add nothing.                   *)
Agree(there, here, ws, rs, m, k, q) ==
    /\ q \in Len(rs) .. Len(ws)
    /\ q = Len(rs) \/ q <= m
    /\ \A i \in Len(rs) + 1 .. q : ws[i].key = k => Absorbs(there[k], ws[i])
    /\ there[k] = ViewAt(here, HeardOf(ws, rs), q)[k]

(* They agree after some of the writes, or do not have to.                 *)
Meet(there, here, ws, rs, m, k) ==
    \/ Renewed(ws, m, k, Len(rs) + 1)
    \/ \E q \in Nat : Agree(there, here, ws, rs, m, k, q)

(* To send again what has a reply would add nothing at the backend,        *)
Repeatable(there, ws, rs, m) ==
    \A i \in 1 .. Len(rs) : i <= m =>
        Renewed(ws, m, ws[i].key, i) \/ Absorbs(there[ws[i].key], ws[i])

(* nor in the cache what is not going to be applied there.                 *)
Skippable(here, ws, rs, m) ==
    \A i \in 1 .. Len(rs) : i <= m /\ rs[i] # "ok" =>
        \/ Renewed(ws, m, ws[i].key, i)
        \/ Absorbs(ViewAt(here, HeardOf(ws, rs), i - 1)[ws[i].key], ws[i])

--------------------------------------------------------------------------------
(* What the backend and the cache go through *)

LEMMA ApplyAtKey ==
    ASSUME NEW x \in Contents, NEW y \in Contents, NEW w \in Write, NEW k \in Keys, x[k] = y[k]
    PROVE  ApplyTo(x, w)[k] = ApplyTo(y, w)[k]
  BY ApplyToKeys

(* Two queues that do the same to k at every point give the same k.        *)
LEMMA ViewAtAgrees ==
    ASSUME NEW docs \in Contents, NEW ws, NEW vs, NEW n \in Nat, NEW k \in Keys,
           \A i \in 1 .. n : ws[i] \in Write /\ vs[i] \in Write,
           \A i \in 1 .. n :
             ApplyTo(ViewAt(docs, vs, i - 1), vs[i])[k] = ApplyTo(ViewAt(docs, vs, i - 1), ws[i])[k]
    PROVE  ViewAt(docs, vs, n)[k] = ViewAt(docs, ws, n)[k]
<1> DEFINE S == {m \in Nat : m <= n => ViewAt(docs, vs, m)[k] = ViewAt(docs, ws, m)[k]}
<1>1. 0 \in S
  BY ViewAtSteps
<1>2. ASSUME NEW m \in Nat, m \in S
      PROVE  m + 1 \in S
  <2> SUFFICES ASSUME m + 1 <= n PROVE ViewAt(docs, vs, m + 1)[k] = ViewAt(docs, ws, m + 1)[k]
    OBVIOUS
  <2>1. ViewAt(docs, vs, m)[k] = ViewAt(docs, ws, m)[k] /\ m + 1 \in 1 .. n /\ (m + 1) - 1 = m
    BY <1>2
  <2>2. ViewAt(docs, vs, m) \in Contents /\ ViewAt(docs, ws, m) \in Contents
    <3>1. (\A i \in 1 .. m : ws[i] \in Write) /\ (\A i \in 1 .. m : vs[i] \in Write)
      OBVIOUS
    <3> HIDE DEF S
    <3>2. ViewAt(docs, vs, m) \in Contents
      BY <3>1, ViewAtType
    <3>3. ViewAt(docs, ws, m) \in Contents
      BY <3>1, ViewAtType
    <3> QED  BY <3>2, <3>3
  <2>3. /\ ViewAt(docs, vs, m + 1) = ApplyTo(ViewAt(docs, vs, m), vs[m + 1])
        /\ ViewAt(docs, ws, m + 1) = ApplyTo(ViewAt(docs, ws, m), ws[m + 1])
    BY ONLY m \in Nat, ViewAtSteps, ZenonT(30)
  <2>4. ApplyTo(ViewAt(docs, vs, m), vs[m + 1])[k] = ApplyTo(ViewAt(docs, vs, m), ws[m + 1])[k]
    BY <2>1
  <2>5. ApplyTo(ViewAt(docs, vs, m), ws[m + 1])[k] = ApplyTo(ViewAt(docs, ws, m), ws[m + 1])[k]
    BY <2>1, <2>2, ApplyAtKey
  <2> QED  BY <2>3, <2>4, <2>5
<1> HIDE DEF S
<1>3. n \in S
  BY <1>1, <1>2, SetInduction
<1> QED  BY <1>3 DEF S

LEMMA HeardFacts ==
    ASSUME NEW there, NEW here, NEW ws, NEW rs, NEW m, Fits(there, here, ws, rs, m)
    PROVE  /\ Len(ws) \in Nat /\ Len(rs) \in Nat
           /\ \A i \in 1 .. Len(ws) :
                /\ ws[i] \in Write /\ HeardOf(ws, rs)[i] \in Write
                /\ HeardOf(ws, rs)[i].key = ws[i].key
                /\ HeardOf(ws, rs)[i].op \in {ws[i].op, "update"}
                /\ i <= Len(rs) /\ rs[i] # "ok" => HeardOf(ws, rs)[i] = Muted(ws[i])
                /\ i > Len(rs) \/ rs[i] = "ok" => HeardOf(ws, rs)[i] = ws[i]
           /\ \A n \in 0 .. Len(ws) : ViewAt(here, HeardOf(ws, rs), n) \in Contents
<1>1. here \in Contents /\ ws \in Seq(Write) /\ rs \in Seq({"ok", "known", "error"})
  BY DEF Fits
<1>2. Len(ws) \in Nat /\ Len(rs) \in Nat /\ \A i \in 1 .. Len(ws) : ws[i] \in Write
  BY <1>1
<1>3. ASSUME NEW i \in 1 .. Len(ws)
      PROVE  /\ HeardOf(ws, rs)[i] \in Write
             /\ HeardOf(ws, rs)[i].key = ws[i].key
             /\ HeardOf(ws, rs)[i].op \in {ws[i].op, "update"}
             /\ i <= Len(rs) /\ rs[i] # "ok" => HeardOf(ws, rs)[i] = Muted(ws[i])
             /\ i > Len(rs) \/ rs[i] = "ok" => HeardOf(ws, rs)[i] = ws[i]
  <2>1. HeardOf(ws, rs)[i] = IF i <= Len(rs) /\ rs[i] # "ok" THEN Muted(ws[i]) ELSE ws[i]
    BY DEF HeardOf
  <2>2. Muted(ws[i]) \in Write /\ Muted(ws[i]).key = ws[i].key /\ Muted(ws[i]).op = "update"
    BY <1>1, <1>2, MutedFacts
  <2> QED  BY <1>2, <2>1, <2>2
<1>4. ASSUME NEW n \in 0 .. Len(ws)
      PROVE  ViewAt(here, HeardOf(ws, rs), n) \in Contents
  <2>1. n \in Nat /\ \A i \in 1 .. n : HeardOf(ws, rs)[i] \in Write
    BY <1>2, <1>3
  <2> QED  BY <1>1, <2>1, ViewAtType
<1> QED  BY <1>2, <1>3, <1>4

(* The n-th write of ws is the next one to get a reply: it is accepted.    *)
TakesIn(there, ws, rs, m, n, there2, rs2, m2) ==
    /\ n = Len(rs) + 1 /\ n <= Len(ws) /\ \A i \in 1 .. Len(rs) : rs[i] # "error"
    /\ there2 = ApplyTo(there, ws[n])
    /\ rs2 = Append(rs, "ok")
    /\ m2 = IF m < n THEN n ELSE m

(* An accepted write, new or repeated, is one more the cache will learn.   *)
LEMMA AcceptedMeets ==
    ASSUME NEW there, NEW here, NEW ws, NEW rs, NEW m, Fits(there, here, ws, rs, m),
           NEW n, NEW there2, NEW rs2, NEW m2, TakesIn(there, ws, rs, m, n, there2, rs2, m2)
    PROVE  /\ Fits(there2, here, ws, rs2, m2)
           /\ Repeatable(there, ws, rs, m) => Repeatable(there2, ws, rs2, m2)
           /\ Skippable(here, ws, rs, m) => Skippable(here, ws, rs2, m2)
           /\ \A k \in Keys :
                /\ Agree(there, here, ws, rs, m, k, Len(rs)) =>
                     Agree(there2, here, ws, rs2, m2, k, Len(rs2))
                /\ Meet(there, here, ws, rs, m, k) => Meet(there2, here, ws, rs2, m2, k)
<1> DEFINE w == ws[n]
           H == HeardOf(ws, rs)
<1>0. /\ n = Len(rs) + 1 /\ n <= Len(ws) /\ \A i \in 1 .. Len(rs) : rs[i] # "error"
      /\ there2 = ApplyTo(there, ws[n])
      /\ rs2 = Append(rs, "ok")
      /\ m2 = IF m < n THEN n ELSE m
  BY DEF TakesIn
<1> USE <1>0
<1>1. /\ there \in Contents /\ here \in Contents
      /\ ws \in Seq(Write) /\ rs \in Seq({"ok", "known", "error"})
      /\ m \in Nat /\ m <= Len(ws)
      /\ \A i \in 1 .. Len(rs) : rs[i] # "error" => i <= m
  BY DEF Fits
<1>2. /\ Len(ws) \in Nat /\ Len(rs) \in Nat
      /\ \A i \in 1 .. Len(ws) :
           /\ ws[i] \in Write /\ H[i] \in Write /\ H[i].key = ws[i].key
           /\ i > Len(rs) => H[i] = ws[i]
      /\ \A x \in 0 .. Len(ws) : ViewAt(here, H, x) \in Contents
  BY HeardFacts
<1>3. n \in 1 .. Len(ws) /\ w \in Write /\ H[n] = w
  BY <1>2
<1>4. /\ rs2 \in Seq({"ok", "known", "error"}) /\ Len(rs2) = n
      /\ \A i \in 1 .. Len(rs) : rs2[i] = rs[i]
      /\ rs2[n] = "ok"
  BY <1>1
<1>5. there2 \in Contents
  BY <1>1, <1>3, ApplyToType
<1>6. m2 \in Nat /\ m2 <= Len(ws) /\ m <= m2 /\ n <= m2
  BY <1>1, <1>2
<1>7. Fits(there2, here, ws, rs2, m2)
  <2>1. \A i \in 1 .. Len(rs2) : rs2[i] # "error" => i <= m2
    BY <1>1, <1>2, <1>4, <1>6
  <2> QED  BY <1>1, <1>2, <1>4, <1>5, <1>6, <2>1 DEF Fits
<1>8. HeardOf(ws, rs2) = H
  BY <1>2, <1>4 DEF HeardOf
<1>9. \A k, i : Renewed(ws, m, k, i) /\ i \in Nat => Renewed(ws, m2, k, i)
  BY <1>1, <1>6 DEF Renewed
<1>10. ASSUME NEW k \in Keys
       PROVE  there2[k] = IF k = w.key /\ Accepts(w, there[k]) THEN Applied(w, there[k]) ELSE there[k]
  BY <1>1, <1>3, ApplyToKeys
<1>20. /\ ViewAt(here, H, n) = ApplyTo(ViewAt(here, H, Len(rs)), w)
       /\ ViewAt(here, H, Len(rs)) \in Contents
  <2>1. Len(rs) \in Nat
    BY <1>2
  <2>2. ViewAt(here, H, Len(rs) + 1) = ApplyTo(ViewAt(here, H, Len(rs)), H[Len(rs) + 1])
    BY ONLY <2>1, ViewAtSteps
  <2> QED  BY <1>2, <1>3, <2>2
<1> HIDE DEF w, H
<1>11. ASSUME Repeatable(there, ws, rs, m)
       PROVE  Repeatable(there2, ws, rs2, m2)
  <2> SUFFICES ASSUME NEW i \in 1 .. n, i <= m2, ~Renewed(ws, m2, ws[i].key, i)
               PROVE  Absorbs(there2[ws[i].key], ws[i])
    BY <1>4 DEF Repeatable
  <2>1. ws[i] \in Write /\ ws[i].key \in Keys /\ i \in 1 .. Len(ws)
    BY <1>2, <1>3 DEF Write
  <2>2. CASE i = n
    <3>1. w.op = "update" /\ w.key = ws[i].key /\ w = ws[i]
      BY <1>3, <1>6, <2>2 DEF Renewed, w
    <3>2. Absorbs(ApplyTo(there, w)[w.key], w)
      BY <1>1, <1>3, <2>1, <3>1, AbsorbsApplied
    <3> QED  BY <3>1, <3>2 DEF w
  <2>3. CASE i # n
    <3>1. i \in 1 .. Len(rs) /\ i <= m
      <4>1. i \in 1 .. Len(rs)
        BY <1>2, <2>3
      <4> QED  BY <1>1, <4>1
    <3>2. Absorbs(there[ws[i].key], ws[i])
      BY <1>9, <1>11, <3>1 DEF Repeatable
    <3>3. w.key = ws[i].key => w.op = "update"
      BY <1>2, <1>3, <1>6, <3>1 DEF Renewed, w
    <3>4. Absorbs(ApplyTo(there, w)[ws[i].key], ws[i])
      BY <1>1, <1>3, <2>1, <3>2, <3>3, AbsorbsApplied
    <3> QED  BY <3>4 DEF w
  <2> QED  BY <2>2, <2>3
<1>12. ASSUME Skippable(here, ws, rs, m)
       PROVE  Skippable(here, ws, rs2, m2)
  <2> SUFFICES ASSUME NEW i \in 1 .. n, i <= m2, rs2[i] # "ok", ~Renewed(ws, m2, ws[i].key, i)
               PROVE  Absorbs(ViewAt(here, HeardOf(ws, rs2), i - 1)[ws[i].key], ws[i])
    BY <1>4 DEF Skippable
  <2>1. i \in 1 .. Len(rs) /\ i <= m /\ rs[i] # "ok"
    BY <1>1, <1>2, <1>4
  <2> QED  BY <1>8, <1>9, <1>12, <2>1 DEF Skippable, H
<1>13. ASSUME NEW k \in Keys, Agree(there, here, ws, rs, m, k, Len(rs))
       PROVE  Agree(there2, here, ws, rs2, m2, k, Len(rs2))
  <2>1. there[k] = ViewAt(here, H, Len(rs))[k]
    BY <1>13 DEF Agree, H
  <2>2. ViewAt(here, H, n) = ApplyTo(ViewAt(here, H, Len(rs)), w)
    BY <1>20
  <2>3. ViewAt(here, H, Len(rs)) \in Contents
    BY <1>20
  <2>4. ApplyTo(there, w)[k] = ViewAt(here, H, n)[k]
    BY <1>1, <1>3, <2>1, <2>2, <2>3, ApplyAtKey
  <2>5. n \in Len(rs2) .. Len(ws) /\ n = Len(rs2) /\ Len(rs2) + 1 .. n = {}
    BY <1>2, <1>4
  <2> QED  BY <1>8, <2>4, <2>5 DEF Agree, w
<1>14. ASSUME NEW k \in Keys, NEW q \in Nat, Agree(there, here, ws, rs, m, k, q), q # Len(rs)
       PROVE  Agree(there2, here, ws, rs2, m2, k, q)
  <2>1. /\ q \in n .. Len(ws) /\ q <= m
        /\ \A i \in n .. q : ws[i].key = k => Absorbs(there[k], ws[i])
        /\ there[k] = ViewAt(here, H, q)[k]
    BY <1>2, <1>14 DEF Agree, H
  <2>2. there2[k] = there[k]
    <3>1. w.key = k => Absorbs(there[k], w)
      BY <1>2, <2>1 DEF w
    <3> QED  BY <1>10, <3>1 DEF Absorbs, Accepts
  <2>3. q \in Len(rs2) .. Len(ws) /\ q <= m2 /\ \A i \in Len(rs2) + 1 .. q : i \in n .. q
    BY <1>1, <1>2, <1>4, <1>6, <2>1
  <2> QED  BY <1>8, <2>1, <2>2, <2>3 DEF Agree
<1>15. ASSUME NEW k \in Keys, Renewed(ws, m, k, Len(rs) + 1)
       PROVE  Meet(there2, here, ws, rs2, m2, k)
  <2>1. PICK j \in n .. m : ws[j].key = k /\ ws[j].op # "update"
    BY <1>15 DEF Renewed
  <2>2. CASE j # n
    <3>1. j \in Len(rs2) + 1 .. m2
      BY <1>1, <1>2, <1>4, <1>6, <2>1, <2>2
    <3> QED  BY <2>1, <3>1 DEF Meet, Renewed
  <2>3. CASE j = n
    <3>1. w.key = k /\ w.op \in {"set", "delete"}
      BY <1>3, <2>1, <2>3 DEF w, Write
    <3>2. ApplyTo(there, w)[k] = Applied(w, there[k])
      BY <1>1, <1>3, <3>1, AbsorbsApplied
    <3>3. ViewAt(here, H, n) = ApplyTo(ViewAt(here, H, Len(rs)), w) /\ ViewAt(here, H, Len(rs)) \in Contents
      BY <1>20
    <3>4. ViewAt(here, H, n)[k] = Applied(w, ViewAt(here, H, Len(rs))[k])
      BY <1>3, <3>1, <3>3, AbsorbsApplied
    <3>5. there2[k] = ViewAt(here, H, n)[k]
      BY <3>1, <3>2, <3>4, RenewalForgets DEF w
    <3>6. n \in Len(rs2) .. Len(ws) /\ n = Len(rs2) /\ Len(rs2) + 1 .. n = {} /\ n \in Nat
      BY <1>2, <1>4
    <3>7. Agree(there2, here, ws, rs2, m2, k, n)
      BY <1>8, <3>5, <3>6 DEF Agree
    <3> QED  BY <3>6, <3>7 DEF Meet
  <2> QED  BY <2>2, <2>3
<1>16. ASSUME NEW k \in Keys, Meet(there, here, ws, rs, m, k)
       PROVE  Meet(there2, here, ws, rs2, m2, k)
  <2>1. CASE Renewed(ws, m, k, Len(rs) + 1)
    BY <1>15, <2>1
  <2>2. ASSUME NEW q \in Nat, Agree(there, here, ws, rs, m, k, q)
        PROVE  Meet(there2, here, ws, rs2, m2, k)
    <3>1. CASE q = Len(rs)
      BY <1>4, <1>13, <2>2, <3>1 DEF Meet
    <3>2. CASE q # Len(rs)
      BY <1>14, <2>2, <3>2 DEF Meet
    <3> QED  BY <3>1, <3>2
  <2> QED  BY <1>16, <2>1, <2>2 DEF Meet
<1> QED  BY <1>7, <1>11, <1>12, <1>13, <1>16

(* The n-th write of ws is the next one to get a reply: it is refused.     *)
TurnsDown(ws, rs, n, rs2) == n = Len(rs) + 1 /\ n <= Len(ws) /\ rs2 = Append(rs, "error")

(* A write that is turned down: the cache is told to skip it.              *)
LEMMA TurnedDown ==
    ASSUME NEW there, NEW here, NEW ws, NEW rs, NEW m, Fits(there, here, ws, rs, m),
           NEW n, NEW rs2, TurnsDown(ws, rs, n, rs2)
    PROVE  /\ Fits(there, here, ws, rs2, m)
           /\ Len(rs2) = n /\ \A i \in 1 .. Len(rs) : rs2[i] = rs[i]
           /\ n \in 1 .. Len(ws) /\ ws[n] \in Write
           /\ HeardOf(ws, rs2)[n] = Muted(ws[n])
           /\ \A i \in 1 .. Len(ws) : i # n => HeardOf(ws, rs2)[i] = HeardOf(ws, rs)[i]
           /\ \A x \in 0 .. Len(rs) :
                ViewAt(here, HeardOf(ws, rs2), x) = ViewAt(here, HeardOf(ws, rs), x)
           /\ ViewAt(here, HeardOf(ws, rs2), n) = ViewAt(here, HeardOf(ws, rs), Len(rs))
           /\ \A k \in Keys : Agree(there, here, ws, rs, m, k, Len(rs)) =>
                                Agree(there, here, ws, rs2, m, k, Len(rs2))
<1> DEFINE w == ws[n]
           H == HeardOf(ws, rs)
           G == HeardOf(ws, rs2)
<1>0. n = Len(rs) + 1 /\ n <= Len(ws) /\ rs2 = Append(rs, "error")
  BY DEF TurnsDown
<1> USE <1>0
<1>1. /\ there \in Contents /\ here \in Contents
      /\ ws \in Seq(Write) /\ rs \in Seq({"ok", "known", "error"})
      /\ m \in Nat /\ m <= Len(ws)
      /\ \A i \in 1 .. Len(rs) : rs[i] # "error" => i <= m
  BY DEF Fits
<1>2. /\ Len(ws) \in Nat /\ Len(rs) \in Nat
      /\ \A i \in 1 .. Len(ws) : ws[i] \in Write
      /\ \A x \in 0 .. Len(ws) : ViewAt(here, H, x) \in Contents
  BY HeardFacts
<1>3. n \in 1 .. Len(ws) /\ w \in Write
  BY <1>2
<1>4. /\ rs2 \in Seq({"ok", "known", "error"}) /\ Len(rs2) = n
      /\ \A i \in 1 .. Len(rs) : rs2[i] = rs[i]
      /\ rs2[n] = "error"
  BY <1>1
<1>5. Fits(there, here, ws, rs2, m)
  <2>1. \A i \in 1 .. Len(rs2) : rs2[i] # "error" => i <= m
    BY <1>1, <1>2, <1>4
  <2> QED  BY <1>1, <1>2, <1>4, <2>1 DEF Fits
<1>6. G[n] = Muted(w) /\ \A i \in 1 .. Len(ws) : i # n => G[i] = H[i]
  BY <1>2, <1>3, <1>4 DEF HeardOf
<1> HIDE DEF w, H, G
<1>7. ASSUME NEW x \in 0 .. Len(rs)
      PROVE  ViewAt(here, G, x) = ViewAt(here, H, x)
  <2>1. x \in Nat /\ \A i \in 1 .. x : G[i] = H[i]
    BY <1>2, <1>3, <1>6
  <2> QED  BY <2>1, ViewAtSame
<1>8. ViewAt(here, G, n) = ViewAt(here, H, Len(rs))
  <2>1. Len(rs) \in Nat /\ Len(rs) \in 0 .. Len(rs) /\ Len(rs) \in 0 .. Len(ws)
    BY <1>2
  <2>2. ViewAt(here, G, Len(rs) + 1) = ApplyTo(ViewAt(here, G, Len(rs)), G[Len(rs) + 1])
    BY ONLY <2>1, ViewAtSteps
  <2>3. ViewAt(here, H, Len(rs)) \in Contents /\ ViewAt(here, G, Len(rs)) = ViewAt(here, H, Len(rs))
    BY <1>2, <1>7, <2>1
  <2>4. ApplyTo(ViewAt(here, H, Len(rs)), Muted(w)) = ViewAt(here, H, Len(rs))
    BY <1>3, <2>3, MutedFacts
  <2> QED  BY <1>6, <2>2, <2>3, <2>4
<1>9. ASSUME NEW k \in Keys, Agree(there, here, ws, rs, m, k, Len(rs))
      PROVE  Agree(there, here, ws, rs2, m, k, Len(rs2))
  <2>1. there[k] = ViewAt(here, H, Len(rs))[k]
    BY <1>9 DEF Agree, H
  <2>2. n \in Len(rs2) .. Len(ws) /\ n = Len(rs2) /\ Len(rs2) + 1 .. n = {}
    BY <1>2, <1>4
  <2> QED  BY <1>8, <2>1, <2>2 DEF Agree, G
<1> QED  BY <1>3, <1>4, <1>5, <1>6, <1>7, <1>8, <1>9 DEF w, H, G

(* An update of a document that is gone is rejected.                       *)
LEMMA RejectedMeets ==
    ASSUME NEW there, NEW here, NEW ws, NEW rs, NEW m, Fits(there, here, ws, rs, m),
           NEW n, NEW rs2, TurnsDown(ws, rs, n, rs2), ~Accepts(ws[n], there[ws[n].key])
    PROVE  /\ Repeatable(there, ws, rs, m) => Repeatable(there, ws, rs2, m)
           /\ Skippable(here, ws, rs, m) /\ (\A k \in Keys : Meet(there, here, ws, rs, m, k)) =>
                Skippable(here, ws, rs2, m)
           /\ \A k \in Keys : Meet(there, here, ws, rs, m, k) => Meet(there, here, ws, rs2, m, k)
<1> DEFINE w == ws[n]
           H == HeardOf(ws, rs)
           G == HeardOf(ws, rs2)
<1> HIDE DEF w, H, G
<1>0. n = Len(rs) + 1 /\ n <= Len(ws) /\ rs2 = Append(rs, "error")
  BY DEF TurnsDown
<1> USE <1>0
<1>10. here \in Contents /\ m \in Nat /\ m <= Len(ws)
  BY DEF Fits
<1>11. /\ Len(ws) \in Nat /\ Len(rs) \in Nat
       /\ \A i \in 1 .. Len(ws) :
            /\ ws[i] \in Write /\ H[i] \in Write /\ H[i].key = ws[i].key
            /\ H[i].op \in {ws[i].op, "update"}
            /\ i > Len(rs) \/ rs[i] = "ok" => H[i] = ws[i]
       /\ \A x \in 0 .. Len(ws) : ViewAt(here, H, x) \in Contents
  BY HeardFacts DEF H
<1>1. /\ here \in Contents /\ m \in Nat /\ m <= Len(ws)
      /\ Len(ws) \in Nat /\ Len(rs) \in Nat
      /\ \A i \in 1 .. Len(ws) :
           /\ ws[i] \in Write /\ H[i] \in Write /\ H[i].key = ws[i].key
           /\ H[i].op \in {ws[i].op, "update"}
           /\ i > Len(rs) => H[i] = ws[i]
      /\ \A x \in 0 .. Len(ws) : ViewAt(here, H, x) \in Contents
  BY <1>10, <1>11
<1>2. /\ Len(rs2) = n /\ \A i \in 1 .. Len(rs) : rs2[i] = rs[i]
      /\ n \in 1 .. Len(ws) /\ w \in Write
      /\ G[n] = Muted(w) /\ \A i \in 1 .. Len(ws) : i # n => G[i] = H[i]
      /\ \A x \in 0 .. Len(rs) : ViewAt(here, G, x) = ViewAt(here, H, x)
      /\ ViewAt(here, G, n) = ViewAt(here, H, Len(rs))
      /\ \A k \in Keys : Agree(there, here, ws, rs, m, k, Len(rs)) =>
                           Agree(there, here, ws, rs2, m, k, Len(rs2))
      /\ Fits(there, here, ws, rs2, m)
  BY ONLY Fits(there, here, ws, rs, m), TurnsDown(ws, rs, n, rs2), TurnedDown DEF w, H, G
<1>3. w.op = "update" /\ there[w.key] = NoDoc /\ w.key \in Keys
  BY <1>2 DEF Accepts, Write, w
<1>4. /\ \A i \in 1 .. Len(ws) : G[i] \in Write /\ G[i].key = ws[i].key /\ G[i].op \in {ws[i].op, "update"}
      /\ \A x \in 0 .. Len(ws) : ViewAt(here, G, x) \in Contents
  BY <1>2, HeardFacts DEF G
<1>5. ASSUME NEW q \in Nat, Agree(there, here, ws, rs, m, w.key, q)
      PROVE  ViewAt(here, H, Len(rs))[w.key] = NoDoc
  <2>1. /\ q \in Len(rs) .. Len(ws)
        /\ \A i \in Len(rs) + 1 .. q : ws[i].key = w.key => ws[i].op = "update"
        /\ ViewAt(here, H, q)[w.key] = NoDoc
    BY <1>3, <1>5 DEF Agree, H, Absorbs
  <2>2. /\ \A i \in 1 .. q : H[i] \in Write
        /\ \A i \in Len(rs) + 1 .. q : H[i].key = w.key => H[i].op = "update"
        /\ Len(rs) \in 0 .. q
    BY <1>1, <2>1
  <2>3. ViewAt(here, H, q)[w.key] = NoDoc <=> ViewAt(here, H, Len(rs))[w.key] = NoDoc
    <3>1. here \in Contents /\ w.key \in Keys
      BY <1>1, <1>3
    <3> QED  BY ONLY q \in Nat, <2>2, <3>1, ViewAtBetween
  <2> QED  BY <2>1, <2>3
<1>6. ASSUME Repeatable(there, ws, rs, m)
      PROVE  Repeatable(there, ws, rs2, m)
  <2> SUFFICES ASSUME NEW i \in 1 .. n, i <= m, ~Renewed(ws, m, ws[i].key, i)
               PROVE  Absorbs(there[ws[i].key], ws[i])
    BY <1>2 DEF Repeatable
  <2>1. CASE i = n
    BY <1>3, <2>1 DEF Absorbs, w
  <2>2. CASE i # n
    <3>1. i \in 1 .. Len(rs)
      BY <1>1, <2>2
    <3> QED  BY <1>6, <3>1 DEF Repeatable
  <2> QED  BY <2>1, <2>2
<1>7. ASSUME Skippable(here, ws, rs, m), \A k \in Keys : Meet(there, here, ws, rs, m, k)
      PROVE  Skippable(here, ws, rs2, m)
  <2> SUFFICES ASSUME NEW i \in 1 .. n, i <= m, rs2[i] # "ok", ~Renewed(ws, m, ws[i].key, i)
               PROVE  Absorbs(ViewAt(here, G, i - 1)[ws[i].key], ws[i])
    BY <1>2 DEF Skippable, G
  <2>1. ViewAt(here, G, i - 1) = ViewAt(here, H, i - 1)
    <3>1. i - 1 \in 0 .. Len(rs)
      BY <1>1
    <3> QED  BY <1>2, <3>1
  <2>2. CASE i = n
    <3>1. PICK q \in Nat : Agree(there, here, ws, rs, m, w.key, q)
      BY <1>3, <1>7, <2>2 DEF Meet, w
    <3>2. i - 1 = Len(rs) /\ ws[i] = w
      BY <1>1, <2>2 DEF w
    <3> QED  BY <1>3, <1>5, <2>1, <3>1, <3>2 DEF Absorbs
  <2>3. CASE i # n
    <3>1. i \in 1 .. Len(rs) /\ rs[i] # "ok"
      BY <1>1, <1>2, <2>3
    <3> QED  BY <1>7, <2>1, <3>1 DEF Skippable, H
  <2> QED  BY <2>2, <2>3
<1>8. ASSUME NEW k \in Keys, Meet(there, here, ws, rs, m, k)
      PROVE  Meet(there, here, ws, rs2, m, k)
  <2>1. CASE Renewed(ws, m, k, Len(rs) + 1)
    <3>1. PICK j \in n .. m : ws[j].key = k /\ ws[j].op # "update"
      BY <2>1 DEF Renewed
    <3>2. j # n
      BY <1>3, <3>1 DEF w
    <3>3. j \in Len(rs2) + 1 .. m
      BY <1>1, <1>2, <3>1, <3>2
    <3> QED  BY <3>1, <3>3 DEF Meet, Renewed
  <2>2. ASSUME NEW q \in Nat, Agree(there, here, ws, rs, m, k, q)
        PROVE  Meet(there, here, ws, rs2, m, k)
    <3>1. CASE q = Len(rs)
      BY <1>1, <1>2, <2>2, <3>1 DEF Meet
    <3>2. CASE q # Len(rs)
      <4>1. /\ q \in n .. Len(ws) /\ q <= m
            /\ \A i \in n .. q : ws[i].key = k => Absorbs(there[k], ws[i])
            /\ there[k] = ViewAt(here, H, q)[k]
        BY <1>1, <2>2, <3>2 DEF Agree, H
      <4>2. there[k] = ViewAt(here, G, q)[k]
        <5>1. CASE k = w.key
          <6>1. /\ \A i \in 1 .. q : G[i] \in Write
                /\ \A i \in n + 1 .. q : G[i].key = k => G[i].op = "update"
                /\ n \in 0 .. q
            BY <1>1, <1>4, <4>1 DEF Absorbs
          <6>2. ViewAt(here, G, n)[k] = NoDoc
            BY <1>2, <1>5, <2>2, <5>1
          <6>3. ViewAt(here, G, q)[k] = NoDoc
            BY <1>1, <6>1, <6>2, ViewAtBetween
          <6> QED  BY <1>3, <5>1, <6>3
        <5>2. CASE k # w.key
          <6>1. ASSUME NEW i \in 1 .. q
                PROVE  /\ G[i] \in Write /\ H[i] \in Write
                       /\ ApplyTo(ViewAt(here, G, i - 1), G[i])[k]
                            = ApplyTo(ViewAt(here, G, i - 1), H[i])[k]
            <7>1. i \in 1 .. Len(ws) /\ i - 1 \in 0 .. Len(ws)
              BY <1>1, <4>1
            <7>2. G[i] \in Write /\ H[i] \in Write /\ ViewAt(here, G, i - 1) \in Contents
              BY <1>1, <1>4, <7>1
            <7>3. CASE i = n
              <8>1. G[i].key = w.key /\ H[i].key = w.key
                BY <1>1, <1>4, <7>1, <7>3 DEF w
              <8>2. ApplyTo(ViewAt(here, G, i - 1), G[i])[k] = ViewAt(here, G, i - 1)[k]
                BY <5>2, <7>2, <8>1, ApplyToKeys
              <8>3. ApplyTo(ViewAt(here, G, i - 1), H[i])[k] = ViewAt(here, G, i - 1)[k]
                BY <5>2, <7>2, <8>1, ApplyToKeys
              <8> QED  BY <7>2, <8>2, <8>3
            <7>4. CASE i # n
              BY <1>2, <7>1, <7>2, <7>4
            <7> QED  BY <7>3, <7>4
          <6>2. (\A i \in 1 .. q : H[i] \in Write /\ G[i] \in Write)
            BY <6>1
          <6>3. \A i \in 1 .. q : ApplyTo(ViewAt(here, G, i - 1), G[i])[k]
                                  = ApplyTo(ViewAt(here, G, i - 1), H[i])[k]
            BY <6>1
          <6>4. ViewAt(here, G, q)[k] = ViewAt(here, H, q)[k]
            <7>1. here \in Contents /\ q \in Nat /\ k \in Keys
              BY <1>1
            <7> QED  BY ONLY <6>2, <6>3, <7>1, ViewAtAgrees
          <6> QED  BY <4>1, <6>4
        <5> QED  BY <5>1, <5>2
      <4>3. q \in Len(rs2) .. Len(ws) /\ \A i \in Len(rs2) + 1 .. q : i \in n .. q
        BY <1>1, <1>2, <4>1
      <4>4. Agree(there, here, ws, rs2, m, k, q)
        BY <4>1, <4>2, <4>3 DEF Agree, G
      <4> QED  BY <4>4 DEF Meet
    <3> QED  BY <3>1, <3>2
  <2> QED  BY <1>8, <2>1, <2>2 DEF Meet
<1> QED  BY <1>6, <1>7, <1>8

(* The oldest reply is read.                                               *)
ReadsReply(here, ws, rs, m, here2, ws2, rs2, m2) ==
    /\ rs # <<>>
    /\ ws2 = Tail(ws) /\ rs2 = Tail(rs)
    /\ m2 = IF m = 0 THEN 0 ELSE m - 1
    /\ here2 = IF Head(rs) = "ok" THEN ApplyTo(here, Head(ws)) ELSE here

LEMMA ReplyRead ==
    ASSUME NEW there, NEW here, NEW ws, NEW rs, NEW m, Fits(there, here, ws, rs, m),
           NEW here2, NEW ws2, NEW rs2, NEW m2,
           ReadsReply(here, ws, rs, m, here2, ws2, rs2, m2)
    PROVE  /\ Fits(there, here2, ws2, rs2, m2)
           /\ Len(rs2) \in Nat /\ Len(rs) = Len(rs2) + 1
           /\ Len(ws2) \in Nat /\ Len(ws) = Len(ws2) + 1
           /\ m2 \in Nat /\ m2 <= Len(ws2) /\ (m = m2 + 1 \/ (m = 0 /\ m2 = 0))
           /\ \A i \in 1 .. Len(ws2) : ws2[i] = ws[i + 1]
           /\ \A i \in 1 .. Len(rs2) : rs2[i] = rs[i + 1]
           /\ \A n \in 0 .. Len(ws2) :
                ViewAt(here, HeardOf(ws, rs), n + 1) = ViewAt(here2, HeardOf(ws2, rs2), n)
<1>1. /\ there \in Contents /\ here \in Contents
      /\ ws \in Seq(Write) /\ rs \in Seq({"ok", "known", "error"}) /\ Len(rs) <= Len(ws)
      /\ m \in Nat /\ m <= Len(ws)
      /\ \A i \in 1 .. Len(rs) : rs[i] # "error" => i <= m
  BY DEF Fits
<1>2. /\ rs # <<>> /\ ws2 = Tail(ws) /\ rs2 = Tail(rs)
      /\ m2 = IF m = 0 THEN 0 ELSE m - 1
      /\ here2 = IF Head(rs) = "ok" THEN ApplyTo(here, Head(ws)) ELSE here
  BY DEF ReadsReply
<1>3. Len(rs) \in Nat \ {0} /\ Len(ws) \in Nat \ {0}
  <2>1. Len(rs) \in Nat /\ Len(ws) \in Nat /\ Len(rs) # 0
    BY <1>1, <1>2, EmptySeq
  <2> QED  BY <1>1, <2>1
<1>4. /\ ws2 \in Seq(Write) /\ Len(ws2) = Len(ws) - 1 /\ Head(ws) = ws[1] /\ ws[1] \in Write
      /\ \A i \in 1 .. Len(ws2) : ws2[i] = ws[i + 1]
  BY <1>1, <1>2, <1>3
<1>5. /\ rs2 \in Seq({"ok", "known", "error"}) /\ Len(rs2) = Len(rs) - 1 /\ Head(rs) = rs[1]
      /\ \A i \in 1 .. Len(rs2) : rs2[i] = rs[i + 1]
  <2>1. rs \in Seq({"ok", "known", "error"}) /\ rs # <<>> /\ rs2 = Tail(rs)
    BY <1>1, <1>2
  <2>2. Tail(rs) \in Seq({"ok", "known", "error"}) /\ Len(Tail(rs)) = Len(rs) - 1
    BY ONLY <2>1, HeadTailProperties
  <2>3. Head(rs) = rs[1] /\ \A i \in 1 .. Len(Tail(rs)) : Tail(rs)[i] = rs[i + 1]
    BY ONLY <2>1, HeadTailProperties
  <2> QED  BY <2>1, <2>2, <2>3
<1>6. m2 \in Nat /\ m2 <= Len(ws2) /\ (m = m2 + 1 \/ (m = 0 /\ m2 = 0))
  BY <1>1, <1>2, <1>3, <1>4
<1>7. here2 \in Contents
  BY <1>1, <1>2, <1>4, ApplyToType
<1>8. Fits(there, here2, ws2, rs2, m2)
  <2>1. \A i \in 1 .. Len(rs2) : rs2[i] # "error" => i <= m2
    <3> SUFFICES ASSUME NEW i \in 1 .. Len(rs2), rs2[i] # "error" PROVE i <= m2
      OBVIOUS
    <3>1. i + 1 \in 1 .. Len(rs) /\ rs[i + 1] # "error"
      BY <1>3, <1>5
    <3>2. i + 1 <= m
      BY <1>1, <3>1
    <3> QED  BY <1>6, <3>2
  <2> QED  BY <1>1, <1>3, <1>4, <1>5, <1>6, <1>7, <2>1 DEF Fits
<1> DEFINE H == HeardOf(ws, rs)
           H2 == HeardOf(ws2, rs2)
<1>9. \A i \in 1 .. Len(ws2) : H2[i] = H[i + 1]
  <2> SUFFICES ASSUME NEW i \in 1 .. Len(ws2) PROVE H2[i] = H[i + 1]
    OBVIOUS
  <2>1. i + 1 \in 1 .. Len(ws) /\ ws2[i] = ws[i + 1]
    BY <1>3, <1>4
  <2>2. i <= Len(rs2) <=> i + 1 <= Len(rs)
    BY <1>3, <1>5
  <2>3. i <= Len(rs2) => rs2[i] = rs[i + 1]
    BY <1>3, <1>5
  <2> QED  BY <2>1, <2>2, <2>3 DEF HeardOf
<1>10. here2 = ApplyTo(here, H[1])
  <2>1. H[1] = IF rs[1] # "ok" THEN Muted(ws[1]) ELSE ws[1]
    BY <1>3 DEF HeardOf
  <2>2. ApplyTo(here, Muted(ws[1])) = here
    BY <1>1, <1>4, MutedFacts
  <2> QED  BY <1>2, <1>4, <1>5, <2>1, <2>2
<1> HIDE DEF H, H2
<1>11. ASSUME NEW n \in 0 .. Len(ws2)
       PROVE  ViewAt(here, H, n + 1) = ViewAt(here2, H2, n)
  <2>1. n \in Nat /\ \A i \in 1 .. n : H2[i] = H[i + 1]
    BY <1>3, <1>4, <1>9
  <2>2. ViewAt(here, H, n + 1) = ViewAt(ApplyTo(here, H[1]), H2, n)
    BY ONLY <2>1, ViewAtShift
  <2> QED  BY <1>10, <2>2
<1>12. Len(rs2) \in Nat /\ Len(rs) = Len(rs2) + 1 /\ Len(ws2) \in Nat /\ Len(ws) = Len(ws2) + 1
  BY <1>3, <1>4, <1>5
<1> QED  BY <1>4, <1>5, <1>6, <1>8, <1>11, <1>12 DEF H, H2

(* What is said of the cache stays true when it learns of a reply.         *)
LEMMA ReadMeets ==
    ASSUME NEW there, NEW here, NEW ws, NEW rs, NEW m, Fits(there, here, ws, rs, m),
           NEW here2, NEW ws2, NEW rs2, NEW m2,
           ReadsReply(here, ws, rs, m, here2, ws2, rs2, m2)
    PROVE  /\ Fits(there, here2, ws2, rs2, m2)
           /\ Repeatable(there, ws, rs, m) => Repeatable(there, ws2, rs2, m2)
           /\ Skippable(here, ws, rs, m) => Skippable(here2, ws2, rs2, m2)
           /\ \A k \in Keys :
                /\ Agree(there, here, ws, rs, m, k, Len(rs)) =>
                     Agree(there, here2, ws2, rs2, m2, k, Len(rs2))
                /\ Meet(there, here, ws, rs, m, k) => Meet(there, here2, ws2, rs2, m2, k)
<1> DEFINE H == HeardOf(ws, rs)
           H2 == HeardOf(ws2, rs2)
<1> HIDE DEF H, H2
<1>1. /\ Fits(there, here2, ws2, rs2, m2)
      /\ Len(rs2) \in Nat /\ Len(rs) = Len(rs2) + 1
      /\ Len(ws2) \in Nat /\ Len(ws) = Len(ws2) + 1
      /\ m2 \in Nat /\ m2 <= Len(ws2) /\ (m = m2 + 1 \/ (m = 0 /\ m2 = 0))
      /\ \A i \in 1 .. Len(ws2) : ws2[i] = ws[i + 1]
      /\ \A i \in 1 .. Len(rs2) : rs2[i] = rs[i + 1]
      /\ \A n \in 0 .. Len(ws2) : ViewAt(here, H, n + 1) = ViewAt(here2, H2, n)
  BY ReplyRead DEF H, H2
<1>2. Len(rs2) <= Len(ws2)
  BY <1>1 DEF Fits
<1>3. ASSUME NEW k, NEW i \in Nat \ {0}, Renewed(ws, m, k, i + 1)
      PROVE  Renewed(ws2, m2, k, i)
  <2>1. PICK j \in i + 1 .. m : ws[j].key = k /\ ws[j].op # "update"
    BY <1>3 DEF Renewed
  <2>2. j - 1 \in i .. m2 /\ j - 1 \in 1 .. Len(ws2) /\ (j - 1) + 1 = j
    BY <1>1, <2>1
  <2>3. ws2[j - 1] = ws[j]
    BY <1>1, <2>2
  <2> QED  BY <2>1, <2>2, <2>3 DEF Renewed
<1>4. ASSUME NEW i \in 1 .. Len(rs2), i <= m2
      PROVE  /\ i + 1 \in 1 .. Len(rs) /\ i + 1 <= m /\ i \in Nat \ {0}
             /\ ws2[i] = ws[i + 1] /\ rs2[i] = rs[i + 1]
             /\ ViewAt(here, H, (i + 1) - 1) = ViewAt(here2, H2, i - 1)
  <2>1. i + 1 \in 1 .. Len(rs) /\ i + 1 <= m /\ i \in Nat \ {0}
    BY <1>1, <1>4
  <2>2. ws2[i] = ws[i + 1] /\ rs2[i] = rs[i + 1]
    <3>1. i \in 1 .. Len(ws2)
      BY <1>1, <1>2
    <3> QED  BY <1>1, <3>1
  <2>3. i - 1 \in 0 .. Len(ws2) /\ (i - 1) + 1 = (i + 1) - 1
    BY <1>1, <1>2
  <2>4. ViewAt(here, H, (i - 1) + 1) = ViewAt(here2, H2, i - 1)
    BY <1>1, <2>3
  <2> QED  BY <2>1, <2>2, <2>3, <2>4
<1>5. ASSUME Repeatable(there, ws, rs, m)
      PROVE  Repeatable(there, ws2, rs2, m2)
  BY <1>3, <1>4, <1>5 DEF Repeatable
<1>6. ASSUME Skippable(here, ws, rs, m)
      PROVE  Skippable(here2, ws2, rs2, m2)
  <2> SUFFICES ASSUME NEW i \in 1 .. Len(rs2), i <= m2, rs2[i] # "ok",
                      ~Renewed(ws2, m2, ws2[i].key, i)
               PROVE  Absorbs(ViewAt(here2, H2, i - 1)[ws2[i].key], ws2[i])
    BY DEF Skippable, H2
  <2>1. /\ i + 1 \in 1 .. Len(rs) /\ i + 1 <= m /\ i \in Nat \ {0}
        /\ ws2[i] = ws[i + 1] /\ rs2[i] = rs[i + 1]
        /\ ViewAt(here, H, (i + 1) - 1) = ViewAt(here2, H2, i - 1)
    BY <1>4
  <2>2. ~Renewed(ws, m, ws[i + 1].key, i + 1)
    BY <1>3, <2>1
  <2>3. Absorbs(ViewAt(here, H, (i + 1) - 1)[ws[i + 1].key], ws[i + 1])
    BY <1>6, <2>1, <2>2 DEF Skippable, H
  <2> QED  BY <2>1, <2>3
<1>7. ASSUME NEW k \in Keys, NEW q \in Nat, Agree(there, here, ws, rs, m, k, q)
      PROVE  q - 1 \in Nat /\ Agree(there, here2, ws2, rs2, m2, k, q - 1)
  <2>1. /\ q \in Len(rs) .. Len(ws)
        /\ q = Len(rs) \/ q <= m
        /\ \A i \in Len(rs) + 1 .. q : ws[i].key = k => Absorbs(there[k], ws[i])
        /\ there[k] = ViewAt(here, H, q)[k]
    BY <1>7 DEF Agree, H
  <2>2. /\ q - 1 \in Len(rs2) .. Len(ws2) /\ q - 1 \in Nat /\ q - 1 \in 0 .. Len(ws2)
        /\ q - 1 = Len(rs2) \/ q - 1 <= m2
        /\ (q - 1) + 1 = q
    BY <1>1, <2>1
  <2>3. ASSUME NEW i \in Len(rs2) + 1 .. q - 1, ws2[i].key = k
        PROVE  Absorbs(there[k], ws2[i])
    <3>1. i \in 1 .. Len(ws2) /\ i + 1 \in Len(rs) + 1 .. q
      BY <1>1, <2>1
    <3>2. ws2[i] = ws[i + 1]
      BY <1>1, <3>1
    <3> QED  BY <2>1, <2>3, <3>1, <3>2
  <2>4. ViewAt(here, H, q) = ViewAt(here2, H2, q - 1)
    <3>1. ViewAt(here, H, (q - 1) + 1) = ViewAt(here2, H2, q - 1)
      BY <1>1, <2>2
    <3> QED  BY <2>2, <3>1
  <2> QED  BY <2>1, <2>2, <2>3, <2>4 DEF Agree, H2
<1>8. ASSUME NEW k \in Keys, Agree(there, here, ws, rs, m, k, Len(rs))
      PROVE  Agree(there, here2, ws2, rs2, m2, k, Len(rs2))
  <2>1. Len(rs) \in Nat /\ Len(rs) - 1 = Len(rs2)
    BY <1>1
  <2>2. Agree(there, here2, ws2, rs2, m2, k, Len(rs) - 1)
    BY <1>7, <1>8, <2>1
  <2> QED  BY <2>1, <2>2
<1>9. ASSUME NEW k \in Keys, Meet(there, here, ws, rs, m, k)
      PROVE  Meet(there, here2, ws2, rs2, m2, k)
  <2>1. CASE Renewed(ws, m, k, Len(rs) + 1)
    <3>1. Len(rs) + 1 = (Len(rs2) + 1) + 1 /\ Len(rs2) + 1 \in Nat \ {0}
      BY <1>1
    <3>2. Renewed(ws2, m2, k, Len(rs2) + 1)
      BY <1>3, <2>1, <3>1
    <3> QED  BY <3>2 DEF Meet
  <2>2. CASE \E q \in Nat : Agree(there, here, ws, rs, m, k, q)
    BY <1>7, <2>2 DEF Meet
  <2> QED  BY <1>9, <2>1, <2>2 DEF Meet
<1> QED  BY <1>1, <1>5, <1>6, <1>8, <1>9

(* Updates that add nothing leave k as it is.                              *)
LEMMA MutedBetween ==
    ASSUME NEW docs \in Contents, NEW ws, NEW n \in Nat, \A i \in 1 .. n : ws[i] \in Write,
           NEW m \in 0 .. n, \A i \in m + 1 .. n : \E w \in Write : ws[i] = Muted(w)
    PROVE  ViewAt(docs, ws, n) = ViewAt(docs, ws, m)
<1> DEFINE S == {x \in Nat : m <= x /\ x <= n => ViewAt(docs, ws, x) = ViewAt(docs, ws, m)}
<1>1. 0 \in S
  OBVIOUS
<1>2. ASSUME NEW x \in Nat, x \in S
      PROVE  x + 1 \in S
  <2> SUFFICES ASSUME m <= x + 1, x + 1 <= n PROVE ViewAt(docs, ws, x + 1) = ViewAt(docs, ws, m)
    OBVIOUS
  <2>1. CASE m = x + 1
    BY <2>1
  <2>2. CASE m # x + 1
    <3>1. ViewAt(docs, ws, x) = ViewAt(docs, ws, m) /\ x + 1 \in m + 1 .. n
      BY <1>2, <2>2
    <3>2. PICK w \in Write : ws[x + 1] = Muted(w)
      BY <3>1
    <3>3. ViewAt(docs, ws, x) \in Contents
      BY ViewAtType
    <3>4. ViewAt(docs, ws, x + 1) = ApplyTo(ViewAt(docs, ws, x), ws[x + 1])
      BY ONLY x \in Nat, ViewAtSteps, ZenonT(30)
    <3>5. ApplyTo(ViewAt(docs, ws, x), Muted(w)) = ViewAt(docs, ws, x)
      BY <3>3, MutedFacts
    <3> QED  BY <3>1, <3>2, <3>4, <3>5
  <2> QED  BY <2>1, <2>2
<1> HIDE DEF S
<1>3. n \in S
  BY <1>1, <1>2, SetInduction
<1> QED  BY <1>3 DEF S

(* The replies are lost: the writes that had them are to be sent again.    *)
LEMMA LostMeets ==
    ASSUME NEW there, NEW here, NEW ws, NEW rs, NEW m, Fits(there, here, ws, rs, m),
           Repeatable(there, ws, rs, m), Skippable(here, ws, rs, m),
           NEW k \in Keys, Meet(there, here, ws, rs, m, k)
    PROVE  Meet(there, here, ws, <<>>, m, k)
<1> DEFINE H == HeardOf(ws, rs)
           N == HeardOf(ws, <<>>)
<1> HIDE DEF H, N
<1>1. /\ there \in Contents /\ here \in Contents /\ Len(rs) <= Len(ws)
      /\ m \in Nat /\ m <= Len(ws)
      /\ \A i \in 1 .. Len(rs) : rs[i] # "error" => i <= m
  BY DEF Fits
<1>2. /\ Len(ws) \in Nat /\ Len(rs) \in Nat
      /\ \A i \in 1 .. Len(ws) :
           /\ ws[i] \in Write /\ H[i] \in Write
           /\ i <= Len(rs) /\ rs[i] # "ok" => H[i] = Muted(ws[i])
           /\ i > Len(rs) \/ rs[i] = "ok" => H[i] = ws[i]
      /\ \A n \in 0 .. Len(ws) : ViewAt(here, H, n) \in Contents
  BY HeardFacts DEF H
<1>3. \A i \in 1 .. Len(ws) : N[i] = ws[i]
  BY <1>2 DEF N, HeardOf
<1>4. \A i \in 1 .. Len(ws) : Renewed(ws, m, k, i) => Renewed(ws, m, k, 1)
  BY <1>1 DEF Renewed
<1>5. Len(<<>>) = 0
  OBVIOUS
<1>6. CASE Renewed(ws, m, k, 1)
  BY <1>5, <1>6 DEF Meet
<1>7. CASE ~Renewed(ws, m, k, 1)
  <2>1. ~Renewed(ws, m, k, Len(rs) + 1)
    BY <1>1, <1>2, <1>7 DEF Renewed
  <2>2. PICK q \in Nat : Agree(there, here, ws, rs, m, k, q)
    BY <2>1 DEF Meet
  <2>3. /\ q \in Len(rs) .. Len(ws)
        /\ q = Len(rs) \/ q <= m
        /\ \A i \in Len(rs) + 1 .. q : ws[i].key = k => Absorbs(there[k], ws[i])
        /\ there[k] = ViewAt(here, H, q)[k]
    BY <2>2 DEF Agree, H
  <2>4. PICK p \in 0 .. Len(ws) : p <= m /\ p <= q /\ (p = q \/ (p = m /\ q = Len(rs)))
    <3>1. CASE q <= m
      BY <1>2, <2>3, <3>1
    <3>2. CASE ~(q <= m)
      BY <1>1, <1>2, <2>3, <3>2
    <3> QED  BY <3>1, <3>2
  <2>5. ASSUME NEW i \in 1 .. p, ws[i].key = k
        PROVE  Absorbs(there[k], ws[i])
    <3>1. CASE i <= Len(rs)
      <4>1. i \in 1 .. Len(rs) /\ i <= m /\ i \in 1 .. Len(ws)
        BY <1>1, <1>2, <2>4, <3>1
      <4>2. ~Renewed(ws, m, k, i)
        BY <1>4, <1>7, <4>1
      <4> QED  BY <2>5, <4>1, <4>2 DEF Repeatable
    <3>2. CASE ~(i <= Len(rs))
      <4>1. i \in Len(rs) + 1 .. q
        BY <1>2, <2>3, <2>4, <3>2
      <4> QED  BY <2>3, <2>5, <4>1
    <3> QED  BY <3>1, <3>2
  <2>6. ViewAt(here, H, q)[k] = ViewAt(here, H, p)[k]
    <3>1. CASE p = q
      BY <3>1
    <3>2. CASE p # q
      <4>1. p = m /\ q = Len(rs)
        BY <2>4, <3>2
      <4>2. ASSUME NEW i \in p + 1 .. q
            PROVE  \E w \in Write : H[i] = Muted(w)
        <5>1. i \in 1 .. Len(rs) /\ i \in 1 .. Len(ws) /\ ~(i <= m)
          BY <1>1, <1>2, <4>1
        <5>2. rs[i] # "ok"
          BY <1>1, <5>1
        <5> QED  BY <1>2, <5>1, <5>2
      <4>3. here \in Contents /\ (\A i \in 1 .. q : H[i] \in Write) /\ p \in 0 .. q
        BY <1>1, <1>2, <2>3, <2>4
      <4>4. ViewAt(here, H, q) = ViewAt(here, H, p)
        BY ONLY q \in Nat, <4>2, <4>3, MutedBetween
      <4> QED  BY <4>4
    <3> QED  BY <3>1, <3>2
  <2>7. ViewAt(here, H, p)[k] = ViewAt(here, N, p)[k]
    <3>1. ASSUME NEW i \in 1 .. p
          PROVE  /\ H[i] \in Write /\ N[i] \in Write
                 /\ ApplyTo(ViewAt(here, H, i - 1), H[i])[k] = ApplyTo(ViewAt(here, H, i - 1), N[i])[k]
      <4> DEFINE v == ViewAt(here, H, i - 1)
      <4>1. i \in 1 .. Len(ws) /\ i - 1 \in 0 .. Len(ws) /\ i <= m
        BY <1>1, <1>2, <2>4
      <4>2. H[i] \in Write /\ N[i] = ws[i] /\ ws[i] \in Write /\ v \in Contents
        BY <1>2, <1>3, <4>1
      <4> HIDE DEF v
      <4>3. CASE H[i] = ws[i]
        BY <4>2, <4>3
      <4>4. CASE H[i] # ws[i]
        <5>1. i \in 1 .. Len(rs) /\ rs[i] # "ok" /\ H[i] = Muted(ws[i])
          BY <1>2, <4>1, <4>4
        <5>2. ApplyTo(v, H[i]) = v
          BY <4>2, <5>1, MutedFacts
        <5>3. ApplyTo(v, ws[i])[k] = v[k]
          <6>1. CASE ws[i].key = k
            <7>1. ~Renewed(ws, m, k, i)
              BY <1>4, <1>7, <4>1
            <7>2. Absorbs(v[k], ws[i])
              BY <4>1, <5>1, <6>1, <7>1 DEF Skippable, H, v
            <7> QED  BY <4>2, <6>1, <7>2, AbsorbsApplied
          <6>2. CASE ws[i].key # k
            BY <4>2, <6>2, ApplyToKeys
          <6> QED  BY <6>1, <6>2
        <5> QED  BY <4>2, <5>2, <5>3 DEF v
      <4> QED  BY <4>2, <4>3, <4>4 DEF v
    <3>2. \A i \in 1 .. p : N[i] \in Write /\ H[i] \in Write
      BY <3>1
    <3>3. \A i \in 1 .. p : ApplyTo(ViewAt(here, H, i - 1), H[i])[k]
                            = ApplyTo(ViewAt(here, H, i - 1), N[i])[k]
      BY <3>1
    <3>4. here \in Contents /\ p \in Nat /\ k \in Keys
      BY <1>1, <2>4
    <3> QED  BY ONLY <3>2, <3>3, <3>4, ViewAtAgrees
  <2>8. Agree(there, here, ws, <<>>, m, k, p)
    BY <1>5, <2>3, <2>4, <2>5, <2>6, <2>7 DEF Agree, N
  <2>9. p \in Nat
    BY <2>4
  <2> QED  BY <2>8, <2>9 DEF Meet
<1> QED  BY <1>6, <1>7

(* A cache that learns what the backend has.                               *)
LEMMA LearntMeets ==
    ASSUME NEW there, NEW here, NEW ws, NEW rs, NEW m, Fits(there, here, ws, rs, m),
           NEW rs2, rs2 = Known(rs)
    PROVE  /\ Fits(there, there, ws, rs2, m)
           /\ Repeatable(there, ws, rs, m) =>
                Repeatable(there, ws, rs2, m) /\ Skippable(there, ws, rs2, m)
           /\ \A k \in Keys : Agree(there, there, ws, rs2, m, k, Len(rs2))
<1> DEFINE H == HeardOf(ws, rs2)
<1> HIDE DEF H
<1>1. /\ there \in Contents /\ ws \in Seq(Write)
      /\ rs \in Seq({"ok", "known", "error"}) /\ Len(rs) <= Len(ws)
      /\ m \in Nat /\ m <= Len(ws)
      /\ \A i \in 1 .. Len(rs) : rs[i] # "error" => i <= m
  BY DEF Fits
<1>2. Len(rs) \in Nat /\ Len(ws) \in Nat
  BY <1>1
<1>3. /\ rs2 \in Seq({"ok", "known", "error"}) /\ Len(rs2) = Len(rs)
      /\ \A i \in 1 .. Len(rs) : rs2[i] = IF rs[i] = "error" THEN "error" ELSE "known"
  <2>1. rs2 \in [1 .. Len(rs) -> {"ok", "known", "error"}]
    BY DEF Known
  <2>2. \A i \in 1 .. Len(rs) : rs2[i] = IF rs[i] = "error" THEN "error" ELSE "known"
    BY DEF Known
  <2> QED  BY <1>2, <2>1, <2>2
<1>4. Fits(there, there, ws, rs2, m)
  <2>1. \A i \in 1 .. Len(rs2) : rs2[i] # "error" => i <= m
    BY <1>1, <1>3
  <2> QED  BY <1>1, <1>3, <2>1 DEF Fits
<1>5. \A i \in 1 .. Len(ws) :
        /\ ws[i] \in Write /\ H[i] \in Write
        /\ i <= Len(rs2) /\ rs2[i] # "ok" => H[i] = Muted(ws[i])
  BY <1>4, HeardFacts DEF H
<1>6. ASSUME NEW n \in 0 .. Len(rs)
      PROVE  ViewAt(there, H, n) = there
  <2>1. \A i \in 0 + 1 .. n : \E w \in Write : H[i] = Muted(w)
    BY <1>1, <1>2, <1>3, <1>5
  <2>2. (\A i \in 1 .. n : H[i] \in Write) /\ 0 \in 0 .. n /\ n \in Nat
    BY <1>1, <1>2, <1>5
  <2>3. ViewAt(there, H, n) = ViewAt(there, H, 0)
    <3>1. there \in Contents
      BY <1>1
    <3> QED  BY ONLY <2>1, <2>2, <3>1, MutedBetween
  <2> QED  BY <2>3, ViewAtSteps
<1>7. ASSUME Repeatable(there, ws, rs, m)
      PROVE  Repeatable(there, ws, rs2, m) /\ Skippable(there, ws, rs2, m)
  <2>1. \A i \in 1 .. Len(rs2) : i <= m =>
            Renewed(ws, m, ws[i].key, i) \/ Absorbs(there[ws[i].key], ws[i])
    BY <1>3, <1>7 DEF Repeatable
  <2>2. \A i \in 1 .. Len(rs2) : ViewAt(there, H, i - 1) = there
    <3>1. \A i \in 1 .. Len(rs2) : i - 1 \in 0 .. Len(rs)
      BY <1>2, <1>3
    <3> QED  BY <1>6, <3>1
  <2>3. Repeatable(there, ws, rs2, m)
    BY <2>1 DEF Repeatable
  <2>4. Skippable(there, ws, rs2, m)
    BY <2>1, <2>2 DEF Skippable, H
  <2> QED  BY <2>3, <2>4
<1>8. ASSUME NEW k \in Keys
      PROVE  Agree(there, there, ws, rs2, m, k, Len(rs2))
  <2>1. Len(rs2) \in Len(rs2) .. Len(ws) /\ Len(rs2) + 1 .. Len(rs2) = {}
    BY <1>1, <1>2, <1>3
  <2>2. ViewAt(there, H, Len(rs2)) = there
    BY <1>2, <1>3, <1>6
  <2> QED  BY <2>1, <2>2 DEF Agree, H
<1> QED  BY <1>4, <1>7, <1>8

(* More writes are queued.                                                 *)
Longer(ws, ws2) ==
    /\ ws2 \in Seq(Write) /\ Len(ws) <= Len(ws2)
    /\ \A i \in 1 .. Len(ws) : ws2[i] = ws[i]

(* What is said of the cache does not depend on the end of the queue.      *)
LEMMA QueuedMeets ==
    ASSUME NEW there, NEW here, NEW ws, NEW rs, NEW m, Fits(there, here, ws, rs, m),
           NEW ws2, Longer(ws, ws2)
    PROVE  /\ Fits(there, here, ws2, rs, m)
           /\ Repeatable(there, ws, rs, m) => Repeatable(there, ws2, rs, m)
           /\ Skippable(here, ws, rs, m) => Skippable(here, ws2, rs, m)
           /\ \A k \in Keys :
                /\ Agree(there, here, ws, rs, m, k, Len(rs)) =>
                     Agree(there, here, ws2, rs, m, k, Len(rs))
                /\ Meet(there, here, ws, rs, m, k) => Meet(there, here, ws2, rs, m, k)
<1> DEFINE H == HeardOf(ws, rs)
           H2 == HeardOf(ws2, rs)
<1> HIDE DEF H, H2
<1>1. /\ there \in Contents /\ here \in Contents
      /\ ws \in Seq(Write) /\ rs \in Seq({"ok", "known", "error"}) /\ Len(rs) <= Len(ws)
      /\ m \in Nat /\ m <= Len(ws)
      /\ \A i \in 1 .. Len(rs) : rs[i] # "error" => i <= m
  BY DEF Fits
<1>2. /\ ws2 \in Seq(Write) /\ Len(ws) <= Len(ws2)
      /\ \A i \in 1 .. Len(ws) : ws2[i] = ws[i]
  BY DEF Longer
<1>3. Len(ws) \in Nat /\ Len(ws2) \in Nat /\ Len(rs) \in Nat
  BY <1>1, <1>2
<1>4. Fits(there, here, ws2, rs, m)
  BY <1>1, <1>2, <1>3 DEF Fits
<1>5. \A i \in 1 .. Len(ws) : H2[i] = H[i]
  <2> SUFFICES ASSUME NEW i \in 1 .. Len(ws) PROVE H2[i] = H[i]
    OBVIOUS
  <2>1. i \in 1 .. Len(ws2) /\ ws2[i] = ws[i]
    BY <1>2, <1>3
  <2> QED  BY <2>1 DEF H, H2, HeardOf
<1>6. ASSUME NEW n \in 0 .. Len(ws)
      PROVE  ViewAt(here, H2, n) = ViewAt(here, H, n)
  <2>1. n \in Nat /\ \A i \in 1 .. n : H2[i] = H[i]
    BY <1>3, <1>5
  <2> QED  BY ONLY <2>1, ViewAtSame
<1>7. ASSUME NEW k, NEW i \in Nat \ {0}
      PROVE  Renewed(ws, m, k, i) <=> Renewed(ws2, m, k, i)
  <2>1. \A j \in i .. m : j \in 1 .. Len(ws)
    BY <1>1, <1>3
  <2> QED  BY <1>2, <2>1 DEF Renewed
<1>8. \A i \in 1 .. Len(rs) : i \in 1 .. Len(ws) /\ i \in Nat \ {0} /\ i - 1 \in 0 .. Len(ws)
  BY <1>1, <1>3
<1>9. ASSUME Repeatable(there, ws, rs, m)
      PROVE  Repeatable(there, ws2, rs, m)
  <2> SUFFICES ASSUME NEW i \in 1 .. Len(rs), i <= m, ~Renewed(ws2, m, ws2[i].key, i)
               PROVE  Absorbs(there[ws2[i].key], ws2[i])
    BY DEF Repeatable
  <2>1. ws2[i] = ws[i] /\ ~Renewed(ws, m, ws[i].key, i)
    BY <1>2, <1>7, <1>8
  <2> QED  BY <1>9, <2>1 DEF Repeatable
<1>10. ASSUME Skippable(here, ws, rs, m)
       PROVE  Skippable(here, ws2, rs, m)
  <2> SUFFICES ASSUME NEW i \in 1 .. Len(rs), i <= m, rs[i] # "ok", ~Renewed(ws2, m, ws2[i].key, i)
               PROVE  Absorbs(ViewAt(here, H2, i - 1)[ws2[i].key], ws2[i])
    BY DEF Skippable, H2
  <2>1. ws2[i] = ws[i] /\ ~Renewed(ws, m, ws[i].key, i)
    BY <1>2, <1>7, <1>8
  <2>2. ViewAt(here, H2, i - 1) = ViewAt(here, H, i - 1)
    BY <1>6, <1>8
  <2>3. Absorbs(ViewAt(here, H, i - 1)[ws[i].key], ws[i])
    BY <1>10, <2>1 DEF Skippable, H
  <2> QED  BY <2>1, <2>2, <2>3
<1>11. ASSUME NEW k \in Keys, NEW q, Agree(there, here, ws, rs, m, k, q)
       PROVE  Agree(there, here, ws2, rs, m, k, q)
  <2>1. /\ q \in Len(rs) .. Len(ws)
        /\ q = Len(rs) \/ q <= m
        /\ \A i \in Len(rs) + 1 .. q : ws[i].key = k => Absorbs(there[k], ws[i])
        /\ there[k] = ViewAt(here, H, q)[k]
    BY <1>11 DEF Agree, H
  <2>2. q \in Len(rs) .. Len(ws2) /\ q \in 0 .. Len(ws)
    BY <1>2, <1>3, <2>1
  <2>3. \A i \in Len(rs) + 1 .. q : ws2[i] = ws[i]
    BY <1>2, <1>3, <2>1
  <2>4. there[k] = ViewAt(here, H2, q)[k]
    BY <1>6, <2>1, <2>2
  <2> QED  BY <2>1, <2>2, <2>3, <2>4 DEF Agree, H2
<1>12. ASSUME NEW k \in Keys, Meet(there, here, ws, rs, m, k)
       PROVE  Meet(there, here, ws2, rs, m, k)
  <2>1. Len(rs) + 1 \in Nat \ {0}
    BY <1>3
  <2> QED  BY <1>7, <1>11, <1>12, <2>1 DEF Meet
<1> QED  BY <1>4, <1>9, <1>10, <1>11, <1>12

(* With no write of k queued, backend and cache have the same k.           *)
LEMMA MeetAlike ==
    ASSUME NEW there, NEW here, NEW ws, NEW rs, NEW m, Fits(there, here, ws, rs, m),
           NEW k \in Keys, Meet(there, here, ws, rs, m, k),
           \A i \in 1 .. Len(ws) : ws[i].key # k
    PROVE  there[k] = here[k]
<1> DEFINE H == HeardOf(ws, rs)
<1> HIDE DEF H
<1>1. here \in Contents /\ Len(rs) <= Len(ws) /\ m \in Nat /\ m <= Len(ws)
  BY DEF Fits
<1>2. /\ Len(ws) \in Nat /\ Len(rs) \in Nat
      /\ \A i \in 1 .. Len(ws) : H[i] \in Write /\ H[i].key = ws[i].key
  BY HeardFacts DEF H
<1>3. ~Renewed(ws, m, k, Len(rs) + 1)
  BY <1>1, <1>2 DEF Renewed
<1>4. PICK q \in Nat : Agree(there, here, ws, rs, m, k, q)
  BY <1>3 DEF Meet
<1>5. q \in Len(rs) .. Len(ws) /\ there[k] = ViewAt(here, H, q)[k]
  BY <1>4 DEF Agree, H
<1>6. /\ \A i \in 1 .. q : H[i] \in Write
      /\ \A i \in 0 + 1 .. q : H[i].key # k
      /\ 0 \in 0 .. q
  BY <1>2, <1>5
<1>7. ViewAt(here, H, q)[k] = ViewAt(here, H, 0)[k]
  <2>1. here \in Contents
    BY <1>1
  <2> QED  BY ONLY q \in Nat, k \in Keys, <1>6, <2>1, ViewAtBetween
<1>8. ViewAt(here, H, 0) = here
  BY ViewAtSteps
<1> QED  BY <1>5, <1>7, <1>8

(* A document no queued write names is shown as it was learnt.             *)
LEMMA LocalViewElsewhere ==
    ASSUME NEW docs \in Contents, NEW ws \in Seq(Write), NEW k \in Keys,
           \A i \in 1 .. Len(ws) : ws[i].key # k
    PROVE  LocalView(docs, ws)[k] = docs[k]
<1>1. /\ Len(ws) \in Nat
      /\ \A i \in 1 .. Len(ws) : ws[i] \in Write
      /\ \A i \in 0 + 1 .. Len(ws) : ws[i].key # k
      /\ 0 \in 0 .. Len(ws)
  OBVIOUS
<1>2. ViewAt(docs, ws, Len(ws))[k] = ViewAt(docs, ws, 0)[k]
  BY ONLY docs \in Contents, k \in Keys, <1>1, ViewAtBetween
<1>3. ViewAt(docs, ws, 0) = docs
  BY ViewAtSteps
<1> QED  BY <1>2, <1>3, LocalViewIsViewAt

--------------------------------------------------------------------------------
(* The cache of the only phone *)

(* No write has been refused so far; no reply can be lost.                 *)
NeverRefused == "refusal" \notin FaultKinds \/ faults = 0
NoLosses == FaultKinds \cap {"lostReply", "offline"} = {}

(* What holds of the cache of the only phone.                              *)
CacheFits(d) == Fits(server, cache[d], pending[d], replies[d], landed[d])
CacheRepeats(d) == Repeatable(server, pending[d], replies[d], landed[d])
CacheSkips(d) == Skippable(cache[d], pending[d], replies[d], landed[d])
CacheAgrees(d) ==
    \A k \in Keys : Agree(server, cache[d], pending[d], replies[d], landed[d], k, Len(replies[d]))
CacheMeets(d) ==
    \A k \in Keys : Meet(server, cache[d], pending[d], replies[d], landed[d], k)

(* While a view is live: with fewer faults to reckon with, more holds, and *)
(* the next fault costs no more than that.                                 *)
LiveCache(d) ==
    /\ NeverRefused => CacheSkips(d)
    /\ faults = 0 \/ NoLosses => CacheAgrees(d)
    /\ NoLossWithRefusal => CacheMeets(d)

(* The inductive invariant.                                                *)
CacheInv(d) ==
    /\ CacheFits(d)
    /\ NeverRefused => CacheRepeats(d)
    /\ ViewIsLive(d) => LiveCache(d)

LEMMA StoreOf ==
    ASSUME StoreInv, CallbacksInv, NEW d \in Devices
    PROVE  /\ server \in Contents /\ cache[d] \in Contents
           /\ pending[d] \in Seq(Write) /\ replies[d] \in Seq({"ok", "known", "error"})
           /\ Len(replies[d]) <= Len(pending[d]) /\ landed[d] \in Nat
           /\ Len(replies[d]) \in Nat /\ Len(pending[d]) \in Nat
           /\ main[d] \in Seq(Callback) /\ Len(main[d]) \in Nat
           /\ faults \in Nat
<1>1. MaxFaults \in Nat
  BY MarketAssumption DEF MarketAssumption
<1> QED  BY <1>1 DEF StoreInv, StoreTypeOK, RepliesMatch, CallbacksInv, CallbacksTypeOK

(* Faults are only counted up.                                             *)
LEMMA FaultsCounted ==
    ASSUME faults \in Nat, NEW kind, Fault(kind) \/ UNCHANGED faults
    PROVE  /\ NeverRefused' => NeverRefused
           /\ faults' = 0 => faults = 0
           /\ NoLossWithRefusal' => NoLossWithRefusal
           /\ NoLosses' = NoLosses
           /\ NeverRefused => NoLossWithRefusal
  BY DEF Fault, NeverRefused, NoLosses, NoLossWithRefusal

(* No reply yet, nothing to be repeated, nothing the cache could skip.     *)
LEMMA NothingSent ==
    ASSUME NEW there, NEW here, NEW ws, NEW m
    PROVE  Repeatable(there, ws, <<>>, m) /\ Skippable(here, ws, <<>>, m)
<1>1. 1 .. Len(<<>>) = {}
  OBVIOUS
<1> QED  BY <1>1 DEF Repeatable, Skippable

LEMMA InitCacheInv ==
    ASSUME MarketInit, NEW d \in Devices
    PROVE  CacheInv(d)
<1>1. StoreInv /\ CallbacksInv
  BY InitStoreInv, InitCallbacksInv
<1>2. pending[d] = <<>> /\ replies[d] = <<>> /\ landed[d] = 0 /\ main[d] = <<>>
  BY DEF MarketInit
<1>3. 1 .. Len(<<>>) = {} /\ Len(<<>>) = 0
  OBVIOUS
<1>4. CacheFits(d)
  BY <1>1, <1>2, <1>3, StoreOf DEF CacheFits, Fits
<1>5. CacheRepeats(d)
  BY <1>2, NothingSent DEF CacheRepeats
<1>6. ~ViewIsLive(d)
  BY <1>2, <1>3 DEF ViewIsLive
<1> QED  BY <1>4, <1>5, <1>6 DEF CacheInv

(* A handler of the app: the queue may get longer, no view comes to life.  *)
LEMMA AppStepCacheInv ==
    ASSUME StoreInv, CallbacksInv, NEW d \in Devices, CacheInv(d),
           NEW pop, NEW ws, NEW qs, AppStep(d, pop, ws, qs)
    PROVE  CacheInv(d)'
<1>1. UNCHANGED <<server, cache, replies, landed, faults>>
  BY DEF AppStep, Ask
<1>2. /\ server \in Contents /\ cache[d] \in Contents
      /\ pending[d] \in Seq(Write) /\ replies[d] \in Seq({"ok", "known", "error"})
      /\ main[d] \in Seq(Callback) /\ Len(main[d]) \in Nat
      /\ Len(pending[d]) \in Nat
  BY StoreOf
<1>3. Longer(pending[d], pending'[d])
  <2>1. CASE ws = <<>>
    <3>1. pending' = pending
      BY <2>1 DEF AppStep, Ask
    <3> QED  BY <1>2, <3>1 DEF Longer
  <2>2. CASE ws # <<>>
    <3>1. ws \in Seq(Write)
      BY <2>2, HandlerWritesFacts DEF AppStep
    <3>2. pending'[d] = pending[d] \o ws
      BY <2>2 DEF AppStep, Ask, StoreInv, StoreTypeOK
    <3>3. /\ pending[d] \o ws \in Seq(Write)
          /\ Len(pending[d] \o ws) = Len(pending[d]) + Len(ws)
          /\ \A i \in 1 .. Len(pending[d]) + Len(ws) :
               (pending[d] \o ws)[i] = IF i <= Len(pending[d]) THEN pending[d][i]
                                       ELSE ws[i - Len(pending[d])]
      BY <1>2, <3>1, ConcatProperties
    <3>4. Len(ws) \in Nat
      BY <3>1
    <3>5. \A i \in 1 .. Len(pending[d]) : (pending[d] \o ws)[i] = pending[d][i]
      BY <1>2, <3>3, <3>4
    <3> QED  BY <1>2, <3>2, <3>3, <3>4, <3>5 DEF Longer
  <2> QED  BY <2>1, <2>2
<1>4. ViewIsLive(d)' => ViewIsLive(d)
  <2>1. CASE main' = main
    BY <2>1 DEF ViewIsLive
  <2>2. CASE main' # main
    <3>1. main[d] # <<>> /\ main'[d] = Tail(main[d])
      BY <2>2 DEF AppStep, Ask, CallbacksInv, CallbacksTypeOK
    <3>2. /\ Len(Tail(main[d])) = Len(main[d]) - 1
          /\ \A i \in 1 .. Len(Tail(main[d])) : Tail(main[d])[i] = main[d][i + 1]
      BY <1>2, <3>1, HeadTailProperties
    <3>3. \A i \in 1 .. Len(main'[d]) : i + 1 \in 1 .. Len(main[d]) /\ main'[d][i] = main[d][i + 1]
      BY <1>2, <3>1, <3>2
    <3> QED  BY <3>3 DEF ViewIsLive
  <2> QED  BY <2>1, <2>2
<1>5. Fits(server, cache[d], pending[d], replies[d], landed[d])
  BY DEF CacheInv, CacheFits
<1>6. /\ CacheFits(d)'
      /\ CacheRepeats(d) => CacheRepeats(d)'
      /\ CacheSkips(d) => CacheSkips(d)'
      /\ CacheAgrees(d) => CacheAgrees(d)'
      /\ CacheMeets(d) => CacheMeets(d)'
  BY <1>1, <1>3, <1>5, QueuedMeets DEF CacheFits, CacheRepeats, CacheSkips, CacheAgrees, CacheMeets
<1>7. /\ NeverRefused' = NeverRefused /\ NoLosses' = NoLosses
      /\ NoLossWithRefusal' = NoLossWithRefusal
  BY <1>1 DEF NeverRefused, NoLosses, NoLossWithRefusal
<1> QED  BY <1>1, <1>4, <1>6, <1>7 DEF CacheInv, LiveCache

(* The backend takes the next write, or rejects it.                        *)
LEMMA LandCacheInv ==
    ASSUME StoreInv, CallbacksInv, NEW d \in Devices, CacheInv(d), Land(d)
    PROVE  CacheInv(d)'
<1> DEFINE n == Len(replies[d]) + 1
           w == pending[d][n]
<1>1. /\ server \in Contents /\ pending[d] \in Seq(Write)
      /\ replies \in [Devices -> Seq({"ok", "known", "error"})]
      /\ landed \in [Devices -> Nat]
      /\ Len(replies[d]) \in Nat /\ Len(pending[d]) \in Nat
      /\ faults \in Nat
  BY StoreOf DEF StoreInv, StoreTypeOK
<1>2. /\ n <= Len(pending[d])
      /\ \A i \in 1 .. Len(replies[d]) : replies[d][i] # "error"
  BY <1>1 DEF Land, MaySend
<1>3. UNCHANGED <<cache, pending, main, faults>>
  BY DEF Land
<1>4. Fits(server, cache[d], pending[d], replies[d], landed[d])
  BY DEF CacheInv, CacheFits
<1>5. /\ NeverRefused' = NeverRefused /\ NoLosses' = NoLosses
      /\ NoLossWithRefusal' = NoLossWithRefusal
      /\ NeverRefused => NoLossWithRefusal
      /\ ViewIsLive(d)' = ViewIsLive(d)
  BY <1>1, <1>3 DEF NeverRefused, NoLosses, NoLossWithRefusal, ViewIsLive
<1>6. CASE Accepts(w, server[w.key])
  <2>1. /\ server' = ApplyTo(server, pending[d][n])
        /\ replies'[d] = Append(replies[d], "ok")
        /\ landed'[d] = IF landed[d] < n THEN n ELSE landed[d]
    BY <1>1, <1>6 DEF Land, Position
  <2>2. /\ CacheFits(d)'
        /\ CacheRepeats(d) => CacheRepeats(d)'
        /\ CacheSkips(d) => CacheSkips(d)'
        /\ CacheAgrees(d) => CacheAgrees(d)'
        /\ CacheMeets(d) => CacheMeets(d)'
    <3>1. TakesIn(server, pending[d], replies[d], landed[d], n, server', replies'[d], landed'[d])
      BY <1>2, <2>1 DEF TakesIn
    <3> QED  BY <1>3, <1>4, <3>1, AcceptedMeets
             DEF CacheFits, CacheRepeats, CacheSkips, CacheAgrees, CacheMeets
  <2> QED  BY <1>3, <1>5, <2>2 DEF CacheInv, LiveCache
<1>7. CASE ~Accepts(w, server[w.key])
  <2>1. /\ UNCHANGED <<server, landed>>
        /\ replies'[d] = Append(replies[d], "error")
    BY <1>1, <1>7 DEF Land, Position
  <2>2. TurnsDown(pending[d], replies[d], n, replies'[d])
    BY <1>2, <2>1 DEF TurnsDown
  <2>3. /\ CacheFits(d)'
        /\ CacheAgrees(d) => CacheAgrees(d)'
    BY <1>3, <1>4, <2>1, <2>2, TurnedDown DEF CacheFits, CacheAgrees
  <2>4. /\ CacheRepeats(d) => CacheRepeats(d)'
        /\ CacheSkips(d) /\ CacheMeets(d) => CacheSkips(d)'
        /\ CacheMeets(d) => CacheMeets(d)'
    BY <1>3, <1>4, <1>7, <2>1, <2>2, RejectedMeets DEF CacheRepeats, CacheSkips, CacheMeets
  <2> QED  BY <1>3, <1>5, <2>3, <2>4 DEF CacheInv, LiveCache
<1> QED  BY <1>6, <1>7

(* The backend refuses a write it had not been sent before: there has been *)
(* no loss of a reply, so that cache and backend agree and go on agreeing. *)
LEMMA RefuseCacheInv ==
    ASSUME StoreInv, CallbacksInv, NEW d \in Devices, CacheInv(d), Refuse(d)
    PROVE  CacheInv(d)'
<1> DEFINE n == Len(replies[d]) + 1
<1>1. /\ replies \in [Devices -> Seq({"ok", "known", "error"})]
      /\ Len(replies[d]) \in Nat /\ Len(pending[d]) \in Nat
      /\ faults \in Nat
  BY StoreOf DEF StoreInv, StoreTypeOK
<1>2. TurnsDown(pending[d], replies[d], n, replies'[d])
  BY <1>1 DEF Refuse, MaySend, TurnsDown
<1>3. UNCHANGED <<server, cache, pending, landed, main>>
  BY DEF Refuse
<1>4. Fits(server, cache[d], pending[d], replies[d], landed[d])
  BY DEF CacheInv, CacheFits
<1>5. /\ CacheFits(d)' /\ Len(replies'[d]) = n
      /\ CacheAgrees(d) => CacheAgrees(d)'
  BY <1>2, <1>3, <1>4, TurnedDown DEF CacheFits, CacheAgrees
<1>6. CacheAgrees(d)' => CacheMeets(d)'
  <2>1. Len(replies'[d]) \in Nat
    BY <1>1, <1>5
  <2> QED  BY <2>1 DEF CacheAgrees, CacheMeets, Meet
<1>7. /\ "refusal" \in FaultKinds /\ faults' = faults + 1 /\ faults' # 0
      /\ ViewIsLive(d)' = ViewIsLive(d)
  BY <1>1, <1>3 DEF Refuse, Fault, ViewIsLive
<1>8. ~NeverRefused' /\ (NoLossWithRefusal' => faults = 0 \/ NoLosses) /\ NoLosses' = NoLosses
  BY <1>1, <1>7 DEF NeverRefused, NoLossWithRefusal, NoLosses
<1> QED  BY <1>5, <1>6, <1>7, <1>8 DEF CacheInv, LiveCache

(* A reply is read.                                                        *)
LEMMA ResolveCacheInv ==
    ASSUME StoreInv, CallbacksInv, NEW d \in Devices, CacheInv(d), Resolve(d)
    PROVE  CacheInv(d)'
<1>1. /\ replies \in [Devices -> Seq({"ok", "known", "error"})]
      /\ pending \in [Devices -> Seq(Write)] /\ cache \in [Devices -> Contents]
      /\ landed \in [Devices -> Nat] /\ main \in [Devices -> Seq(Callback)]
  BY DEF StoreInv, StoreTypeOK, CallbacksInv, CallbacksTypeOK
<1>2. ReadsReply(cache[d], pending[d], replies[d], landed[d],
                 cache'[d], pending'[d], replies'[d], landed'[d])
  BY <1>1 DEF Resolve, ReadsReply
<1>3. Fits(server, cache[d], pending[d], replies[d], landed[d])
  BY DEF CacheInv, CacheFits
<1>4. UNCHANGED <<server, faults>>
  BY DEF Resolve
<1>5. /\ CacheFits(d)'
      /\ CacheRepeats(d) => CacheRepeats(d)'
      /\ CacheSkips(d) => CacheSkips(d)'
      /\ CacheAgrees(d) => CacheAgrees(d)'
      /\ CacheMeets(d) => CacheMeets(d)'
  BY <1>2, <1>3, <1>4, ReadMeets
     DEF CacheFits, CacheRepeats, CacheSkips, CacheAgrees, CacheMeets
<1>6. ViewIsLive(d)' => ViewIsLive(d)
  <2>1. CASE main' = main
    BY <2>1 DEF ViewIsLive
  <2>2. CASE main' # main
    <3> DEFINE done == [kind |-> "done", cb |-> Head(pending[d]).cb,
                        ok |-> Head(replies[d]) # "error"]
    <3>0. main' = [main EXCEPT ![d] = Append(main[d], done)] /\ done.kind = "done"
      BY <2>2 DEF Resolve
    <3> HIDE DEF done
    <3>1. PICK e : e.kind = "done" /\ main'[d] = Append(main[d], e)
      BY <1>1, <3>0
    <3>2. \A i \in 1 .. Len(main'[d]) : \/ main'[d][i] = e
                                        \/ i \in 1 .. Len(main[d]) /\ main'[d][i] = main[d][i]
      BY <1>1, <3>1
    <3> QED  BY <3>1, <3>2 DEF ViewIsLive
  <2> QED  BY <2>1, <2>2
<1>7. /\ NeverRefused' = NeverRefused /\ NoLosses' = NoLosses
      /\ NoLossWithRefusal' = NoLossWithRefusal
  BY <1>4 DEF NeverRefused, NoLosses, NoLossWithRefusal
<1> QED  BY <1>4, <1>5, <1>6, <1>7 DEF CacheInv, LiveCache

(* Replies are lost. The first fault, or none of those before it a         *)
(* refusal: what is going to be sent again adds nothing.                   *)
LEMMA LostCacheInv ==
    ASSUME StoreInv, CallbacksInv, NEW d \in Devices, CacheInv(d),
           NEW kind \in {"lostReply", "offline"}, Fault(kind),
           replies' = [replies EXCEPT ![d] = <<>>],
           UNCHANGED <<server, cache, pending, landed, main>>
    PROVE  CacheInv(d)'
<1>1. /\ server \in Contents /\ cache[d] \in Contents
      /\ pending[d] \in Seq(Write) /\ replies[d] \in Seq({"ok", "known", "error"})
      /\ Len(replies[d]) <= Len(pending[d]) /\ landed[d] \in Nat
      /\ Len(replies[d]) \in Nat /\ Len(pending[d]) \in Nat
      /\ faults \in Nat
  BY StoreOf
<1>2. replies'[d] = <<>>
  BY DEF StoreInv, StoreTypeOK
<1>3. Fits(server, cache[d], pending[d], replies[d], landed[d])
  BY DEF CacheInv, CacheFits
<1>4. <<>> \in Seq({"ok", "known", "error"}) /\ Len(<<>>) = 0 /\ 1 .. 0 = {}
  OBVIOUS
<1>5. CacheFits(d)'
  BY <1>1, <1>2, <1>3, <1>4 DEF CacheFits, Fits
<1>6. CacheRepeats(d)' /\ CacheSkips(d)'
  BY <1>2, NothingSent DEF CacheRepeats, CacheSkips
<1>7. CacheRepeats(d) /\ CacheSkips(d) /\ CacheMeets(d) => CacheMeets(d)'
  BY <1>2, <1>3, LostMeets DEF CacheRepeats, CacheSkips, CacheMeets
<1>8. /\ faults' = faults + 1 /\ faults' # 0 /\ ~NoLosses'
      /\ NoLossWithRefusal' => NeverRefused /\ NoLossWithRefusal
      /\ ViewIsLive(d)' = ViewIsLive(d)
  BY <1>1 DEF Fault, NoLosses, NoLossWithRefusal, NeverRefused, ViewIsLive
<1> QED  BY <1>5, <1>6, <1>7, <1>8 DEF CacheInv, LiveCache

(* A query is answered. From the backend, the cache is its copy; from a    *)
(* view that is still live, it stays what it is.                           *)
LEMMA AnswerCacheInv ==
    ASSUME StoreInv, CallbacksInv, NEW d \in Devices, CacheInv(d), Answer(d)
    PROVE  CacheInv(d)'
<1>1. /\ replies \in [Devices -> Seq({"ok", "known", "error"})]
      /\ cache \in [Devices -> Contents] /\ main \in [Devices -> Seq(Callback)]
      /\ Len(replies[d]) \in Nat /\ faults \in Nat
  BY StoreOf DEF StoreInv, StoreTypeOK, CallbacksInv, CallbacksTypeOK
<1>2. UNCHANGED <<server, pending, landed>> /\ ((\E kind : Fault(kind)) \/ UNCHANGED faults)
  BY DEF Answer
<1>3. Fits(server, cache[d], pending[d], replies[d], landed[d])
  BY DEF CacheInv, CacheFits
<1>4. /\ NeverRefused' => NeverRefused
      /\ faults' = 0 => faults = 0
      /\ NoLossWithRefusal' => NoLossWithRefusal
      /\ NoLosses' = NoLosses
  BY <1>1, <1>2, FaultsCounted
<1>5. CASE AnswerWith(d, "server", server) /\ replies' = [replies EXCEPT ![d] = Known(replies[d])]
  <2>1. cache'[d] = server /\ replies'[d] = Known(replies[d])
    BY <1>1, <1>5 DEF AnswerWith
  <2>2. /\ CacheFits(d)'
        /\ CacheRepeats(d) => CacheRepeats(d)' /\ CacheSkips(d)'
        /\ CacheAgrees(d)'
    BY <1>2, <1>3, <2>1, LearntMeets DEF CacheFits, CacheRepeats, CacheSkips, CacheAgrees
  <2>3. Len(replies'[d]) \in Nat
    BY <1>1, <2>1 DEF Known
  <2>4. CacheMeets(d)'
    BY <2>2, <2>3 DEF CacheAgrees, CacheMeets, Meet
  <2> QED  BY <1>4, <2>2, <2>4 DEF CacheInv, LiveCache
<1>6. ASSUME NEW from \in {"server", "cache", "error"}, AnswerWith(d, from, cache[d]),
             UNCHANGED replies, from = "server" => ViewIsLive(d)
      PROVE  CacheInv(d)'
  <2>1. cache' = cache
    BY <1>1, <1>6 DEF AnswerWith
  <2>2. ViewIsLive(d)' => ViewIsLive(d)
    <3>1. PICK e : e.from = from /\ main'[d] = Append(main[d], e)
      BY <1>1, <1>6 DEF AnswerWith
    <3>2. \A i \in 1 .. Len(main'[d]) : \/ main'[d][i] = e
                                        \/ i \in 1 .. Len(main[d]) /\ main'[d][i] = main[d][i]
      BY <1>1, <3>1
    <3> QED  BY <1>6, <3>1, <3>2 DEF ViewIsLive
  <2>3. /\ CacheFits(d)' = CacheFits(d) /\ CacheRepeats(d)' = CacheRepeats(d)
        /\ CacheSkips(d)' = CacheSkips(d) /\ CacheAgrees(d)' = CacheAgrees(d)
        /\ CacheMeets(d)' = CacheMeets(d)
    BY <1>2, <1>6, <2>1 DEF CacheFits, CacheRepeats, CacheSkips, CacheAgrees, CacheMeets
  <2> QED  BY <1>4, <2>2, <2>3 DEF CacheInv, LiveCache
<1>7. \/ AnswerWith(d, "server", server) /\ replies' = [replies EXCEPT ![d] = Known(replies[d])]
      \/ AnswerWith(d, "server", cache[d]) /\ ViewIsLive(d) /\ UNCHANGED replies
      \/ AnswerWith(d, "cache", cache[d]) /\ UNCHANGED replies
      \/ AnswerWith(d, "error", cache[d]) /\ UNCHANGED replies
  BY DEF Answer
<1> QED  BY <1>5, <1>6, <1>7

(* The process ends and its views with it.                                 *)
LEMMA KillCacheInv ==
    ASSUME StoreInv, CallbacksInv, NEW d \in Devices, CacheInv(d), Kill(d)
    PROVE  CacheInv(d)'
<1>1. /\ pending' = [pending EXCEPT ![d] = WithoutCompletions(pending[d])]
      /\ replies' = [replies EXCEPT ![d] = <<>>]
      /\ main' = [main EXCEPT ![d] = <<>>]
      /\ UNCHANGED <<server, cache, landed>>
  BY DEF Kill, ProcessEnds
<1>2. StoreInv'
  BY ProcessEndsStoreInv DEF Kill
<1>3. CallbacksInv'
  BY KillCallbacksInv
<1>4. /\ pending \in [Devices -> Seq(Write)] /\ replies \in [Devices -> Seq({"ok", "known", "error"})]
      /\ main \in [Devices -> Seq(Callback)]
  BY DEF StoreInv, StoreTypeOK, CallbacksInv, CallbacksTypeOK
<1>5. replies'[d] = <<>> /\ main'[d] = <<>> /\ Len(pending'[d]) = Len(pending[d])
  BY <1>1, <1>4 DEF WithoutCompletions
<1>6. (StoreInv /\ CallbacksInv)' => /\ (server \in Contents)' /\ (cache[d] \in Contents)'
                                     /\ (pending[d] \in Seq(Write))'
  BY DEF StoreInv, StoreTypeOK
<1>7. <<>> \in Seq({"ok", "known", "error"}) /\ Len(<<>>) = 0 /\ 1 .. 0 = {}
  OBVIOUS
<1>8. CacheFits(d)'
  BY <1>1, <1>2, <1>3, <1>5, <1>6, <1>7 DEF CacheInv, CacheFits, Fits
<1>9. CacheRepeats(d)'
  BY <1>5, NothingSent DEF CacheRepeats
<1>10. ~ViewIsLive(d)'
  BY <1>5, <1>7 DEF ViewIsLive
<1> QED  BY <1>8, <1>9, <1>10 DEF CacheInv

(* With no other phone, every step keeps the invariant.                    *)
LEMMA MarketStepCacheInv ==
    ASSUME StoreInv, CallbacksInv, NEW d, Devices = {d}, CacheInv(d), [MarketStep]_marketVars
    PROVE  CacheInv(d)'
<1>1. d \in Devices /\ \A x \in Devices : x = d
  OBVIOUS
<1>2. ASSUME NEW pop, NEW ws, NEW qs, AppStep(d, pop, ws, qs)
      PROVE  CacheInv(d)'
  BY <1>1, <1>2, AppStepCacheInv
<1>3. CASE Land(d)
  BY <1>1, <1>3, LandCacheInv
<1>4. CASE Refuse(d)
  BY <1>1, <1>4, RefuseCacheInv
<1>5. CASE Resolve(d)
  BY <1>1, <1>5, ResolveCacheInv
<1>6. CASE LoseReply(d)
  BY <1>1, <1>6, LostCacheInv DEF LoseReply
<1>7. CASE GoOffline(d)
  BY <1>1, <1>7, LostCacheInv DEF GoOffline
<1>8. CASE Answer(d)
  BY <1>1, <1>8, AnswerCacheInv
<1>9. CASE Kill(d)
  BY <1>1, <1>9, KillCacheInv
<1>10. CASE GoOnline(d) \/ UNCHANGED marketVars
  <2>1. UNCHANGED <<server, cache, pending, replies, landed, main, faults>>
    BY <1>10 DEF GoOnline, marketVars, storeVars
  <2> QED  BY <2>1 DEF CacheInv, LiveCache, CacheFits, CacheRepeats, CacheSkips, CacheAgrees,
                      CacheMeets, NeverRefused, NoLosses, NoLossWithRefusal, ViewIsLive
<1> QED  BY <1>1, <1>2, <1>3, <1>4, <1>5, <1>6, <1>7, <1>8, <1>9, <1>10 DEF MarketStep, ClientStep

(* A view that is still live has what the backend has of every document    *)
(* the phone has no write of in its queue.                                 *)
LEMMA LiveViewAgrees ==
    ASSUME StoreInv, CallbacksInv, NEW d \in Devices, CacheInv(d), ViewIsLive(d), NoLossWithRefusal,
           NEW k \in Keys, \A i \in 1 .. Len(pending[d]) : pending[d][i].key # k
    PROVE  server[k] = cache[d][k]
<1>1. Fits(server, cache[d], pending[d], replies[d], landed[d])
  BY DEF CacheInv, CacheFits
<1>2. Meet(server, cache[d], pending[d], replies[d], landed[d], k)
  BY DEF CacheInv, LiveCache, CacheMeets
<1> QED  BY <1>1, <1>2, MeetAlike

================================================================================
