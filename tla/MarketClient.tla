------------------------------ MODULE MarketClient ------------------------------
(***************************************************************************)
(* The "Market Price" collection as the phones share it: the backend, and  *)
(* on each phone the Firestore client between the app and the backend.     *)
(*                                                                         *)
(* The client keeps, on disk, a cache of backend documents and a queue of  *)
(* writes, and in memory the getDocuments calls it still owes an answer    *)
(* and the callbacks it has posted to the main queue. It sends its writes  *)
(* one after the other, shows them to its own queries at once, and runs a  *)
(* completion only when the backend has answered. A reply can be lost      *)
(* after the backend has applied the write: the write is then sent again.  *)
(*                                                                         *)
(* The app is represented by what its handlers ask of the client           *)
(* (AppStep); module Grocr says which handlers there are.                  *)
(***************************************************************************)
EXTENDS PriceArrays, SequencesExt

CONSTANTS
    Devices,      \* the phones
    Keys,         \* document names, in the order Firestore lists them
    Prices, Dates,
    Completions,  \* what a completion closure of a write captured
    Owners,       \* what the completion closure of a query captured
    NoDoc,        \* there is no document under this name
    NoCompletion, \* the write was issued without a completion closure
    kMaxPendingWrites, \* writes sent before the first reply
    MaxWrites,    \* bound: handlers that issue writes
    MaxQueries,   \* bound of MarketNext: an app asks no more while it has that
                  \* many getDocuments calls and callbacks to come
    MaxFaults,    \* bound: faults of the kinds in FaultKinds
    FaultKinds    \* the faults that may happen

Doc == [price : Seq(Prices), date : Seq(Dates)]

(* What can go wrong.                                                      *)
ClientFaults == {"offline", "lostReply", "refusal", "queryError", "death"}

ASSUME MarketAssumption ==
    /\ Keys \subseteq Nat
    /\ NoDoc \notin Doc
    /\ NoField \notin Seq(Prices) \cup Seq(Dates)
    /\ NoCompletion \notin Completions
    /\ FaultKinds \subseteq ClientFaults
    /\ kMaxPendingWrites \in Nat \ {0}
    /\ MaxWrites \in Nat /\ MaxQueries \in Nat /\ MaxFaults \in Nat

VARIABLES
    server,   \* server[k]: the document k at the backend, or NoDoc
    cache,    \* cache[d][k]: what d last learnt from the backend about k
    pending,  \* pending[d]: d's mutation queue, oldest first, on disk
    replies,  \* replies[d]: the backend's answers to the oldest writes of d,
              \* not yet read from the stream; "known" is an "ok" whose effect
              \* the cache has learnt from a query since
    landed,   \* landed[d]: so many of the oldest writes of d have been sent and
              \* accepted before, on this stream or an earlier one (history)
    online,   \* online[d]: d has a connection
    up,       \* up[d]: d's Firestore client has been started
    queries,  \* queries[d]: owners of the unanswered getDocuments calls
    main,     \* main[d]: callbacks posted to d's main queue, oldest first
    used,     \* the names document() has drawn so far (history)
    writes,   \* handlers that issued writes so far (bound)
    faults    \* faults so far (bound)

storeVars == <<server, cache, pending, replies, landed, used>>
marketVars == <<storeVars, online, up, queries, main, writes, faults>>

Contents == [Keys -> Doc \cup {NoDoc}]

Write == [op : {"set", "update", "delete"}, key : Keys,
          price : Seq(Prices), date : Seq(Dates),
          cb : Completions \cup {NoCompletion}]

Callback ==
    [kind : {"answer"}, owner : Owners, from : {"server", "cache", "error"}, docs : Contents]
    \cup [kind : {"done"}, cb : Completions, ok : BOOLEAN]

StoreTypeOK ==
    /\ server \in Contents
    /\ cache \in [Devices -> Contents]
    /\ pending \in [Devices -> Seq(Write)]
    /\ replies \in [Devices -> Seq({"ok", "known", "error"})]
    /\ landed \in [Devices -> Nat]
    /\ used \in SUBSET Keys

CallbacksTypeOK ==
    /\ online \in [Devices -> BOOLEAN]
    /\ up \in [Devices -> BOOLEAN]
    /\ queries \in [Devices -> Seq(Owners)]
    /\ main \in [Devices -> Seq(Callback)]
    /\ writes \in 0 .. MaxWrites
    /\ faults \in 0 .. MaxFaults

MarketTypeOK == StoreTypeOK /\ CallbacksTypeOK

--------------------------------------------------------------------------------
(* Documents and writes *)

Exists(docs, k) == docs[k] # NoDoc

(* A wrong form: updateData without its precondition.                      *)
Accepts_Upsert(w, d) == TRUE

(* setData replaces the document, delete requires nothing, updateData      *)
(* requires a document and adds to its arrays; a patch of nothing would    *)
(* have only the fields it names.                                          *)
Accepts(w, d) == w.op = "update" => d # NoDoc

(* Two wrong forms: the array given as one element; a plain assignment.    *)
Unite_Nested(arr, more) == IF more = <<>> THEN arr ELSE ArrayUnion(arr, more)
Unite_Assigns(arr, more) == IF more = <<>> THEN arr ELSE more

Unite(arr, more) == IF more = <<>> THEN arr ELSE ArrayUnion(arr, more[1])

Applied(w, d) ==
    CASE w.op = "set"    -> [price |-> w.price, date |-> w.date]
      [] w.op = "delete" -> NoDoc
      [] w.op = "update" ->
           LET base == IF d = NoDoc THEN [price |-> <<>>, date |-> <<>>] ELSE d
           IN [price |-> Unite(base.price, w.price), date |-> Unite(base.date, w.date)]

(* A wrong form: a patch is made whether or not there is a document.       *)
ApplyTo_Unchecked(docs, w) == [docs EXCEPT ![w.key] = Applied(w, @)]

ApplyTo(docs, w) ==
    IF Accepts(w, docs[w.key]) THEN [docs EXCEPT ![w.key] = Applied(w, @)] ELSE docs

(* A wrong form: the same without the precondition of the updates.         *)
LocalView_Unchecked(docs, ws) == FoldLeft(ApplyTo_Unchecked, docs, ws)

(* What a query on the phone sees: the cached documents with all the       *)
(* phone's own pending writes on top, oldest first.                        *)
LocalView(docs, ws) ==
    LET after[n \in 0 .. Len(ws)] == IF n = 0 THEN docs ELSE ApplyTo(after[n - 1], ws[n])
    IN after[Len(ws)]

(* The writes one handler issues: the setData of updateBtnPressed under a  *)
(* name that document() draws at random and nobody has used, the two       *)
(* updateData of modifyPressed, the delete of the swipe action.            *)
SetData(k, p, t, cb) ==
    [op |-> "set", key |-> k, price |-> <<p>>, date |-> <<t>>, cb |-> cb]
UpdatePrice(k, p) ==
    [op |-> "update", key |-> k, price |-> <<p>>, date |-> <<>>, cb |-> NoCompletion]
UpdateDate(k, t) ==
    [op |-> "update", key |-> k, price |-> <<>>, date |-> <<t>>, cb |-> NoCompletion]
Delete(k, cb) ==
    [op |-> "delete", key |-> k, price |-> <<>>, date |-> <<>>, cb |-> cb]

(* A wrong form: a new document under a name that may be taken.            *)
HandlerWrites_AnyName ==
    {<<SetData(k, p, t, cb)>> : k \in Keys, p \in Prices, t \in Dates, cb \in Completions}
    \cup {<<UpdatePrice(k, p), UpdateDate(k, t)>> : k \in Keys, p \in Prices, t \in Dates}
    \cup {<<Delete(k, cb)>> : k \in Keys, cb \in Completions}

HandlerWrites ==
    {<<SetData(k, p, t, cb)>> :
        k \in Keys \ used, p \in Prices, t \in Dates, cb \in Completions}
    \cup {<<UpdatePrice(k, p), UpdateDate(k, t)>> : k \in Keys, p \in Prices, t \in Dates}
    \cup {<<Delete(k, cb)>> : k \in Keys, cb \in Completions}

--------------------------------------------------------------------------------
MarketInit ==
    /\ \E some \in SUBSET Keys :
         /\ used = some
         /\ \E p \in Prices, t \in Dates :
              server = [k \in Keys |-> IF k \in some THEN [price |-> <<p>>, date |-> <<t>>]
                                       ELSE NoDoc]
    /\ cache = [d \in Devices |-> [k \in Keys |-> NoDoc]]
    /\ pending = [d \in Devices |-> <<>>]
    /\ replies = [d \in Devices |-> <<>>]
    /\ landed = [d \in Devices |-> 0]
    /\ online = [d \in Devices |-> TRUE]
    /\ up = [d \in Devices |-> FALSE]
    /\ queries = [d \in Devices |-> <<>>]
    /\ main = [d \in Devices |-> <<>>]
    /\ writes = 0
    /\ faults = 0

Fault(kind) ==
    /\ kind \in FaultKinds
    /\ faults < MaxFaults
    /\ faults' = faults + 1

(* What the client does for one handler of the app on the main thread. The *)
(* handler may be the callback at the head of the main queue (pop), it may *)
(* issue the writes ws and the queries of the owners qs. The client is     *)
(* started by its first use.                                               *)
Ask(d, pop, ws, qs) ==
    /\ pop => main[d] # <<>>
    /\ main' = IF pop THEN [main EXCEPT ![d] = Tail(@)] ELSE main
    /\ IF ws = <<>>
       THEN UNCHANGED <<pending, used, writes>>
       ELSE /\ writes < MaxWrites
            /\ pending' = [pending EXCEPT ![d] = @ \o ws]
            /\ used' = IF ws[1].op = "set" THEN used \cup {ws[1].key} ELSE used
            /\ writes' = writes + 1
    /\ queries' = [queries EXCEPT ![d] = @ \o qs]
    /\ up' = IF ws = <<>> /\ qs = <<>> THEN up ELSE [up EXCEPT ![d] = TRUE]
    /\ UNCHANGED <<server, cache, replies, landed, online, faults>>

(* One handler of an app that keeps to the three kinds of writes.          *)
AppStep(d, pop, ws, qs) ==
    /\ ws = <<>> \/ ws \in HandlerWrites
    /\ Ask(d, pop, ws, qs)

(* Writes are sent one after the other, up to kMaxPendingWrites of them    *)
(* before the first reply. The backend takes them in this order; a refusal *)
(* ends the stream, so that nothing after the refused write is taken.      *)
Position(d) == Len(replies[d]) + 1

MaySend(d) ==
    /\ up[d] /\ online[d]
    /\ Len(replies[d]) < kMaxPendingWrites
    /\ Len(replies[d]) < Len(pending[d])
    /\ \A i \in 1 .. Len(replies[d]) : replies[d][i] # "error"

(* The backend applies the next write of d, or rejects an update of a      *)
(* document that is gone.                                                  *)
Land(d) ==
    /\ MaySend(d)
    /\ LET n == Position(d)
           w == pending[d][n]
       IN IF Accepts(w, server[w.key])
          THEN /\ server' = ApplyTo(server, w)
               /\ replies' = [replies EXCEPT ![d] = Append(@, "ok")]
               /\ landed' = [landed EXCEPT ![d] = IF @ < n THEN n ELSE @]
          ELSE /\ replies' = [replies EXCEPT ![d] = Append(@, "error")]
               /\ UNCHANGED <<server, landed>>
    /\ UNCHANGED <<cache, pending, used, online, up, queries, main, writes, faults>>

(* The backend refuses the next write of d, whatever it is (rules).        *)
Refuse(d) ==
    /\ MaySend(d)
    /\ Fault("refusal")
    /\ replies' = [replies EXCEPT ![d] = Append(@, "error")]
    /\ UNCHANGED <<server, cache, pending, landed, used, online, up, queries, main, writes>>

(* The oldest reply is read: its write leaves the queue, an accepted one   *)
(* is applied to the cached document unless that is newer than the reply,  *)
(* and the completion is posted.                                           *)
Resolve(d) ==
    /\ up[d] /\ online[d] /\ replies[d] # <<>>
    /\ LET w == Head(pending[d])
           ok == Head(replies[d]) # "error"
       IN /\ cache' = IF Head(replies[d]) = "ok" THEN [cache EXCEPT ![d] = ApplyTo(@, w)]
                      ELSE cache
          /\ main' = IF w.cb = NoCompletion THEN main
                     ELSE [main EXCEPT ![d] = Append(@, [kind |-> "done", cb |-> w.cb, ok |-> ok])]
    /\ pending' = [pending EXCEPT ![d] = Tail(@)]
    /\ replies' = [replies EXCEPT ![d] = Tail(@)]
    /\ landed' = [landed EXCEPT ![d] = IF @ = 0 THEN 0 ELSE @ - 1]
    /\ UNCHANGED <<server, used, online, up, queries, writes, faults>>

(* The stream breaks before its replies are read. Their writes stay in the *)
(* queue and will be sent again: the new stream's handshake carries no     *)
(* token the backend could recognise them by.                              *)
LoseReply(d) ==
    /\ replies[d] # <<>>
    /\ Fault("lostReply")
    /\ replies' = [replies EXCEPT ![d] = <<>>]
    /\ UNCHANGED <<server, cache, pending, landed, used, online, up, queries, main, writes>>

(* First a wrong form of AnswerWith: the newest answer is called first.    *)
(* The oldest getDocuments call is answered: from the backend; from the    *)
(* view of an answer that is still in the main queue, whose listener is    *)
(* removed only when its callback runs; from the cache when offline; or    *)
(* with an error.                                                          *)
AnswerWith_NewestFirst(d, from, learnt) ==
    /\ cache' = [cache EXCEPT ![d] = learnt]
    /\ main' = [main EXCEPT ![d] =
                  <<[kind |-> "answer", owner |-> Head(queries[d]), from |-> from,
                     docs |-> LocalView(learnt, pending[d])]>> \o @]

AnswerWith(d, from, learnt) ==
    /\ cache' = [cache EXCEPT ![d] = learnt]
    /\ main' = [main EXCEPT ![d] =
                  Append(@, [kind |-> "answer", owner |-> Head(queries[d]), from |-> from,
                             docs |-> LocalView(learnt, pending[d])])]

(* A cache that has just learnt what the backend has knows what it took.   *)
Known(rs) == [i \in 1 .. Len(rs) |-> IF rs[i] = "error" THEN "error" ELSE "known"]

ViewIsLive(d) ==
    \E i \in 1 .. Len(main[d]) : main[d][i].kind = "answer" /\ main[d][i].from = "server"

Answer(d) ==
    /\ up[d] /\ queries[d] # <<>>
    /\ \/ /\ online[d]
          /\ AnswerWith(d, "server", server)
          /\ replies' = [replies EXCEPT ![d] = Known(@)]
          /\ UNCHANGED faults
       \/ /\ online[d] /\ ViewIsLive(d)
          /\ AnswerWith(d, "server", cache[d])
          /\ UNCHANGED <<replies, faults>>
       \/ /\ ~online[d]
          /\ AnswerWith(d, "cache", cache[d])
          /\ UNCHANGED <<replies, faults>>
       \/ /\ online[d]
          /\ Fault("queryError")
          /\ AnswerWith(d, "error", cache[d])
          /\ UNCHANGED replies
    /\ queries' = [queries EXCEPT ![d] = Tail(@)]
    /\ UNCHANGED <<server, pending, landed, used, online, up, writes>>

GoOffline(d) ==
    /\ online[d]
    /\ Fault("offline")
    /\ online' = [online EXCEPT ![d] = FALSE]
    /\ replies' = [replies EXCEPT ![d] = <<>>]
    /\ UNCHANGED <<server, cache, pending, landed, used, up, queries, main, writes>>

(* A wrong form: a lost connection is restored for queries alone.          *)
GoOnline_ForQueries(d) ==
    /\ ~online[d] /\ queries[d] # <<>>
    /\ online' = [online EXCEPT ![d] = TRUE]
    /\ UNCHANGED <<storeVars, up, queries, main, writes, faults>>

GoOnline(d) ==
    /\ ~online[d]
    /\ online' = [online EXCEPT ![d] = TRUE]
    /\ UNCHANGED <<storeVars, up, queries, main, writes, faults>>

(* The process ends and its closures with it; the cache and the queue of   *)
(* writes are on disk and wait for the next process to start the client.   *)
WithoutCompletions(ws) == [i \in 1 .. Len(ws) |-> [ws[i] EXCEPT !.cb = NoCompletion]]

ProcessEnds(d) ==
    /\ up' = [up EXCEPT ![d] = FALSE]
    /\ pending' = [pending EXCEPT ![d] = WithoutCompletions(@)]
    /\ replies' = [replies EXCEPT ![d] = <<>>]
    /\ queries' = [queries EXCEPT ![d] = <<>>]
    /\ main' = [main EXCEPT ![d] = <<>>]
    /\ UNCHANGED <<server, cache, landed, used, online, writes>>

(* Killed from outside, a fault, or by a trap in the app's own code.       *)
Kill(d) ==
    /\ up[d]
    /\ Fault("death") \/ UNCHANGED faults
    /\ ProcessEnds(d)

ClientStep(d) ==
    \/ Land(d) \/ Refuse(d) \/ Resolve(d) \/ LoseReply(d) \/ Answer(d)
    \/ GoOffline(d) \/ GoOnline(d)

MarketNext ==
    \E d \in Devices :
        \/ \E pop \in BOOLEAN, ws \in {<<>>} \cup HandlerWrites, qs \in BoundedSeq(Owners, MaxQueries) :
              /\ qs # <<>> => Len(queries[d]) + Len(main[d]) + Len(qs) <= MaxQueries
              /\ AppStep(d, pop, ws, qs)
        \/ ClientStep(d)
        \/ Kill(d)

MarketSpec == MarketInit /\ [][MarketNext]_marketVars

--------------------------------------------------------------------------------
(* Properties *)

(* Every document has at least one price and one date, at the backend and  *)
(* in every cache, whatever was deleted, repeated or refused meanwhile:    *)
(* this is what `price.last!!` and `currentDate.last` of the list and the  *)
(* detail screen rely on.                                                  *)
HasHistory(x) == x # NoDoc => x.price # <<>> /\ x.date # <<>>

DocsHaveHistory ==
    \A k \in Keys : HasHistory(server[k]) /\ \A d \in Devices : HasHistory(cache[d][k])

(* The same of every answer on its way to the app: the phone's pending     *)
(* writes are shown on top of what the cache has learnt meanwhile, and an  *)
(* update still queued for a document that is gone must not show one with  *)
(* half the fields.                                                        *)
AnswersHaveHistory ==
    \A d \in Devices : \A i \in 1 .. Len(main[d]) :
        main[d][i].kind = "answer" => \A k \in Keys : HasHistory(main[d][i].docs[k])

IsSetOf(w, k) == w.op = "set" /\ w.key = k

(* The setData that creates a document is in one queue once, and until it  *)
(* lands for the first time there is no document under its name: it cannot *)
(* replace what another phone has stored.                                  *)
CreationsAreFresh ==
    \A d \in Devices, k \in Keys : \A i \in 1 .. Len(pending[d]) :
        IsSetOf(pending[d][i], k) =>
            /\ k \in used
            /\ \A e \in Devices : \A j \in 1 .. Len(pending[e]) :
                  IsSetOf(pending[e][j], k) => e = d /\ j = i
            /\ i > landed[d] => ~Exists(server, k)

(* The write a phone sends next is the setData of k, applied before.       *)
Repeats(k) ==
    \E d \in Devices : \E i \in 1 .. landed[d] :
        i = Position(d) /\ IsSetOf(pending[d][i], k)

(* No price or date that has reached the backend is lost to a concurrent   *)
(* edit: the arrays of a document only grow at the end, except when the    *)
(* setData that created it is repeated.                                    *)
HistoriesOnlyGrow ==
    [][\A k \in Keys :
         (Exists(server, k) /\ Exists(server', k)) =>
            \/ /\ IsPrefix(server[k].price, server'[k].price)
               /\ IsPrefix(server[k].date, server'[k].date)
            \/ Repeats(k)]_marketVars

(* A document that is gone is not brought back by the updates of a phone   *)
(* that still shows it: only the setData of its creation makes it exist.   *)
UpdatesDoNotResurrect ==
    [][\A k \in Keys :
         (~Exists(server, k) /\ Exists(server', k)) =>
            \E d \in Devices : \E i \in 1 .. Len(pending[d]) :
                /\ i = Position(d)
                /\ IsSetOf(pending[d][i], k)]_marketVars

(* No write can be refused when it is repeated. A reply that was lost says *)
(* that the backend has the write; refused on its repetition, the write is *)
(* given up by the phone, and a view that is still live shows the document *)
(* without it.                                                             *)
NoLossWithRefusal ==
    \/ faults <= 1
    \/ "refusal" \notin FaultKinds
    \/ FaultKinds \cap {"lostReply", "offline"} = {}

(* Every write a phone has queued is eventually resolved, as long as its   *)
(* process stays alive: lost replies and disconnections only delay it.     *)
QueuesDrain ==
    \A d \in Devices : <>[]up[d] => <>[](pending[d] = <<>>)

(* What the comment on WriteStream promises of its stream token, that the  *)
(* backend will "understand which responses the client has processed":     *)
(* a write that has been applied is not applied again.                     *)
DeletedStaysDeleted ==
    [][\A k \in Keys :
         (~Exists(server, k) /\ Exists(server', k)) => ~Repeats(k)]_marketVars

================================================================================
