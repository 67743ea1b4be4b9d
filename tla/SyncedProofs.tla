------------------------------ MODULE SyncedProofs ------------------------------
(***************************************************************************)
(* The theorem that a view in sync shows a collection the backend has had, *)
(* for any set of keys and any number of changes, targets and messages.    *)
(* The invariant says, for every point in the stream of messages, what the *)
(* client is told between that point and a later one: what it holds, what  *)
(* each snapshot stands for and what the backend takes it to know are      *)
(* values at such points, and whatever is at a later point and not at an   *)
(* earlier one is said in between. All of it is about a backend that has   *)
(* not come to deny everything.                                            *)
(***************************************************************************)
EXTENDS ListeningProofs

--------------------------------------------------------------------------------
(* Points in the stream of messages *)

IsAnswer(m, t) == m.target = t /\ m.kind \in {"added", "removed"}

(* From the i-th message on, target t counts: no answer is to come.        *)
Quiet(ms, i, t) == \A j \in DOMAIN ms : j >= i => ~IsAnswer(ms[j], t)

Asked(sent, t) == \E i \in DOMAIN sent : sent[i].target = t

(* Where documents are compared: now, at each snapshot, at the end.        *)
Points(ms) == {x \in 0 .. Len(ms) + 1 : x \in DOMAIN ms => ms[x].kind = "snapshot"}

At(first, last, ms, x) ==
    IF x = 0 THEN first ELSE IF x \in DOMAIN ms THEN ms[x].docs ELSE last

(* The i-th message tells the client of document d for target t.           *)
Says(ms, i, t, d) ==
    /\ ms[i].kind = "docs" /\ ms[i].target = t /\ d \in ms[i].added
    /\ Quiet(ms, i, t)

Heard(ms, x, t) == x \in Points(ms) /\ (x = 0 \/ Quiet(ms, x, t))

(* What is there at a point and was not at an earlier one is said between  *)
(* them.                                                                   *)
Told(first, last, ms, t, scope) ==
    \A x, y \in Points(ms) : x < y /\ Heard(ms, x, t) /\ Heard(ms, y, t) =>
        \A d \in Scoped(At(first, last, ms, y), scope) :
            \/ d \in At(first, last, ms, x)
            \/ \E i \in DOMAIN ms : x < i /\ i < y /\ Says(ms, i, t, d)

(* A document that is gone does not come back.                             *)
Convex(first, last, ms) ==
    \A x, y, z \in Points(ms) : x < y /\ y < z =>
        At(first, last, ms, x) \cap At(first, last, ms, z) \subseteq At(first, last, ms, y)

(* The n-th message is the first snapshot after the i-th.                  *)
NextSnapshot(ms, i, n) ==
    /\ n \in DOMAIN ms /\ n > i /\ ms[n].kind = "snapshot"
    /\ \A j \in DOMAIN ms : i < j /\ j < n => ms[j].kind # "snapshot"

(* The first snapshot after the i-th message has what is added and nothing *)
(* of what is removed.                                                     *)
Fit(ms, i, added, removed) ==
    \E n \in DOMAIN ms :
      /\ NextSnapshot(ms, i, n)
      /\ added \subseteq ms[n].docs /\ removed \cap KeysOf(ms[n].docs) = {}

(* Until then nothing is said of the collection.                           *)
Undisturbed(ms, i) ==
    \E n \in DOMAIN ms :
      /\ NextSnapshot(ms, i, n)
      /\ \A j \in DOMAIN ms : i < j /\ j < n =>
           ~IsAnswer(ms[j], Query) /\ ~(ms[j].kind = "docs" /\ ms[j].target = Query)

--------------------------------------------------------------------------------
(* The invariant *)

About(l, t) == IF t = Query THEN Keys ELSE {l.active[t].key}

(* The documents that are held for t: those of its token and those         *)
(* gathered for it.                                                        *)
Held(p, ms, t) ==
    (UNION p.remote.targets[t])
    \cup {d \in p.remote.updated :
            /\ Quiet(ms, 1, t)
            /\ \/ t = Query
               \/ d[1] \in Ensure(p.remote, t).added \/ p.limbos.active[t].received}

(* What is gathered for t fits what comes.                                 *)
Noted(p, ms, t) ==
    Quiet(ms, 1, t) =>
        IF t = Query THEN Ensure(p.remote, t).added \subseteq KeysOf(p.remote.updated)
        ELSE Ensure(p.remote, t).removed # {} => Fit(ms, 0, {}, {p.limbos.active[t].key})

(* A lookup whose documents are counted and found to be none.              *)
NoneLeft(p, ms, t) ==
    \A i \in DOMAIN ms :
      t # Query /\ ms[i].kind = "filter" /\ ms[i].target = t /\ ms[i].count = 0 /\ Quiet(ms, i, t)
        => Fit(ms, i, {}, {p.limbos.active[t].key})

(* A target no request is under way for: the backend has taken the last.   *)
Standing(p, ms, sv, t) ==
    /\ Quiet(ms, 1, t) \/ \E i \in DOMAIN ms : ms[i] = Ack("added", t) /\ Quiet(ms, i + 1, t)
    /\ t \in DOMAIN sv /\ sv[t].scope = About(p.limbos, t)
    /\ Told(Held(p, ms, t), sv[t].known, ms, t, About(p.limbos, t))
    /\ Noted(p, ms, t)
    /\ NoneLeft(p, ms, t)

Watching(p, ms, sv, t) ==
    /\ t \in DOMAIN p.remote.states
    /\ IF Asked(p.remote.sent, t)
       THEN LastAsked(p.remote.sent, Watch(t, About(p.limbos, t), p.remote.targets[t]))
       ELSE Standing(p, ms, sv, t)

(* What is under way, and what is gathered already, fits.                  *)
Fitting(ms) ==
    \A i \in DOMAIN ms :
      /\ ms[i].kind = "docs" => Fit(ms, i, ms[i].added, ms[i].removed)
      /\ ms[i].kind = "filter" /\ ms[i].target = Query => Undisturbed(ms, i)

Gathering(r, ms) ==
    /\ r.updated # {} \/ r.gone # {} => Fit(ms, 0, r.updated, r.gone)
    /\ r.resets # {} => Undisturbed(ms, 0)

(* A reset takes back all that is known of the query.                      *)
TakenBack(r, ks) ==
    r.resets # {} => Ensure(r, Query).added = {} /\ ks \subseteq Ensure(r, Query).removed

(* A lookup that has its document in its token has been sent it.           *)
Receipts(p) ==
    \A t \in DOMAIN p.remote.targets \ {Query} :
      p.limbos.active[t].key \in KeysOf(UNION p.remote.targets[t]) => p.limbos.active[t].received

KnownInv == \A t \in DOMAIN served : KeysOf(served[t].known) \subseteq served[t].scope

WatchingInv ==
    stream = "open" => \A t \in DOMAIN remote.targets : Watching(Pair, responses, served, t)

FittingInv ==
    /\ Fitting(responses) /\ Gathering(remote, responses)
    /\ TakenBack(remote, synced) /\ Receipts(Pair)

(* The documents of the token on disk, of each snapshot and of the backend *)
(* are a history.                                                          *)
HistoryInv ==
    /\ Convex(UNION token, docs, responses)
    /\ \A x \in Points(responses) :
         \A d \in At(UNION token, docs, responses, x) : d[2] <= changes

TokenInv == live => remote.targets[Query] \in {token, NoToken}

(* A document on disk that the token stands for is in the cache, or never  *)
(* comes again.                                                            *)
DiskInv ==
    \A d \in UNION token : d[1] \in synced /\ d \notin cache =>
        \A x \in Points(responses) : x # 0 => d \notin At({}, docs, responses, x)

SeenInv ==
    live => /\ docs \in seen
            /\ \A n \in DOMAIN responses :
                 /\ responses[n].kind = "snapshot" /\ Quiet(responses, n, Query)
                 /\ ~Asked(remote.sent, Query)
                 => responses[n].docs \in seen

(* A view that is current has the documents it needs looked up in limbo,   *)
(* and no snapshot comes before the collection is watched.                 *)
LimboInv == live /\ current => limbo = KeysOf(cache) \ synced

PromptInv ==
    live /\ current /\ synced # {} =>
      /\ \A n \in DOMAIN responses : responses[n].kind = "snapshot" =>
           Quiet(responses, n, Query) /\ ~Asked(remote.sent, Query)
      /\ \A i \in DOMAIN remote.sent : remote.sent[i].target = Query =>
           i = 1 /\ DOMAIN served = {}

ViewInv ==
    live /\ current => \E ds \in seen :
      token = {ds} /\ (limbo = {} /\ KeysOf(ds) = synced => cache = ds)

BackedInv ==
    ~denied => /\ KnownInv /\ WatchingInv /\ FittingInv /\ HistoryInv /\ TokenInv /\ DiskInv
               /\ SeenInv /\ LimboInv /\ PromptInv /\ ViewInv

--------------------------------------------------------------------------------
(* What the first message and more messages do to the points *)

LEMMA MoreFacts ==
    ASSUME NEW ms \in Seq(Messages), NEW more \in Seq(Messages)
    PROVE  /\ ms \o more \in Seq(Messages)
           /\ Len(ms) \in Nat /\ Len(more) \in Nat
           /\ DOMAIN ms = 1 .. Len(ms) /\ DOMAIN more = 1 .. Len(more)
           /\ Len(ms \o more) = Len(ms) + Len(more)
           /\ DOMAIN (ms \o more) = 1 .. Len(ms) + Len(more)
           /\ \A i \in DOMAIN ms : (ms \o more)[i] = ms[i]
           /\ \A i \in DOMAIN more : (ms \o more)[i + Len(ms)] = more[i]
           /\ \A i \in DOMAIN (ms \o more) :
                i \in DOMAIN ms \/ i - Len(ms) \in DOMAIN more
OBVIOUS

LEMMA RestFacts ==
    ASSUME NEW ms \in Seq(Messages), ms # <<>>
    PROVE  /\ Tail(ms) \in Seq(Messages) /\ Head(ms) = ms[1] /\ Head(ms) \in Messages
           /\ Len(ms) \in Nat /\ Len(ms) > 0 /\ Len(Tail(ms)) = Len(ms) - 1
           /\ DOMAIN ms = 1 .. Len(ms) /\ DOMAIN Tail(ms) = 1 .. Len(ms) - 1
           /\ \A i \in DOMAIN Tail(ms) : Tail(ms)[i] = ms[i + 1]
           /\ 1 \in DOMAIN ms
OBVIOUS

LEMMA OneMoreFacts ==
    ASSUME NEW ms \in Seq(Messages), NEW m \in Messages
    PROVE  /\ Append(ms, m) \in Seq(Messages) /\ Len(ms) \in Nat
           /\ DOMAIN ms = 1 .. Len(ms) /\ DOMAIN Append(ms, m) = 1 .. Len(ms) + 1
           /\ Len(Append(ms, m)) = Len(ms) + 1
           /\ \A i \in DOMAIN ms : Append(ms, m)[i] = ms[i]
           /\ Append(ms, m)[Len(ms) + 1] = m
OBVIOUS

LEMMA AtType ==
    ASSUME NEW ms \in Seq(Messages), NEW first \in Collections, NEW last \in Collections,
           NEW x \in Points(ms)
    PROVE  At(first, last, ms, x) \in Collections
<1>1. x \in DOMAIN ms => ms[x] \in Messages /\ ms[x].kind = "snapshot"
  BY DEF Points
<1>2. x \in DOMAIN ms => ms[x].docs \in Collections
  BY <1>1, MessageKinds DEF Snapshots
<1> QED  BY <1>2 DEF At

(* A point of what is left is the point after it of the whole.             *)
LEMMA PointsTail ==
    ASSUME NEW ms \in Seq(Messages), ms # <<>>, NEW x \in Points(Tail(ms)), x # 0
    PROVE  /\ x \in Nat /\ x > 0 /\ x + 1 \in Points(ms)
           /\ \A t : Quiet(Tail(ms), x, t) => Quiet(ms, x + 1, t)
           /\ \A first, now, last : At(now, last, Tail(ms), x) = At(first, last, ms, x + 1)
<1>1. /\ Len(ms) \in Nat /\ Len(ms) > 0 /\ Len(Tail(ms)) = Len(ms) - 1
      /\ DOMAIN ms = 1 .. Len(ms) /\ DOMAIN Tail(ms) = 1 .. Len(ms) - 1
      /\ \A i \in DOMAIN Tail(ms) : Tail(ms)[i] = ms[i + 1]
  BY RestFacts
<1>2. /\ x \in Nat /\ x > 0 /\ x <= Len(ms)
      /\ x \in DOMAIN Tail(ms) => Tail(ms)[x].kind = "snapshot"
  BY <1>1 DEF Points
<1>3. x + 1 \in Points(ms)
  BY <1>1, <1>2 DEF Points
<1>4. ASSUME NEW t, Quiet(Tail(ms), x, t), NEW j \in DOMAIN ms, j >= x + 1
      PROVE  ~IsAnswer(ms[j], t)
  <2>1. j - 1 \in DOMAIN Tail(ms) /\ j - 1 >= x /\ Tail(ms)[j - 1] = ms[j]
    BY <1>1, <1>2, <1>4
  <2> QED  BY <1>4, <2>1 DEF Quiet
<1>5. \A first, now, last : At(now, last, Tail(ms), x) = At(first, last, ms, x + 1)
  BY <1>1, <1>2 DEF At
<1> QED  BY <1>2, <1>3, <1>4, <1>5 DEF Quiet

LEMMA SaysTail ==
    ASSUME NEW ms \in Seq(Messages), ms # <<>>, NEW i \in DOMAIN ms, i # 1, NEW t, NEW d,
           Says(ms, i, t, d)
    PROVE  i \in Nat /\ i - 1 \in DOMAIN Tail(ms) /\ Says(Tail(ms), i - 1, t, d)
<1>1. /\ Len(ms) \in Nat /\ Len(ms) > 0
      /\ DOMAIN ms = 1 .. Len(ms) /\ DOMAIN Tail(ms) = 1 .. Len(ms) - 1
      /\ \A j \in DOMAIN Tail(ms) : Tail(ms)[j] = ms[j + 1]
  BY RestFacts
<1>2. i \in Nat /\ i - 1 \in DOMAIN Tail(ms) /\ Tail(ms)[i - 1] = ms[i]
  BY <1>1
<1>3. Quiet(Tail(ms), i - 1, t)
  BY <1>1, <1>2 DEF Says, Quiet
<1> QED  BY <1>2, <1>3 DEF Says

(* The first message is read, and from then on now is held.                *)
LEMMA ToldTail ==
    ASSUME NEW ms \in Seq(Messages), ms # <<>>, NEW first, NEW last, NEW t, NEW scope,
           Told(first, last, ms, t, scope), NEW now,
           \/ ms[1].kind = "snapshot" /\ Quiet(ms, 1, t) /\ ms[1].docs \subseteq now
           \/ first \subseteq now /\ \A d : Says(ms, 1, t, d) => d \in now
    PROVE  Told(now, last, Tail(ms), t, scope)
<1> SUFFICES ASSUME NEW x \in Points(Tail(ms)), NEW y \in Points(Tail(ms)), x < y,
                    Heard(Tail(ms), x, t), Heard(Tail(ms), y, t),
                    NEW d \in Scoped(At(now, last, Tail(ms), y), scope)
             PROVE  \/ d \in At(now, last, Tail(ms), x)
                    \/ \E i \in DOMAIN Tail(ms) : x < i /\ i < y /\ Says(Tail(ms), i, t, d)
  BY DEF Told
<1>1. x \in Nat /\ y \in Nat /\ y # 0
  BY DEF Points
<1>2. /\ y + 1 \in Points(ms) /\ Heard(ms, y + 1, t)
      /\ At(now, last, Tail(ms), y) = At(first, last, ms, y + 1)
  BY <1>1, PointsTail DEF Heard
<1>3. d \in Scoped(At(first, last, ms, y + 1), scope)
  BY <1>2 DEF Scoped
<1>4. ASSUME NEW w \in Points(ms), w < y + 1, Heard(ms, w, t), w >= x,
             d \notin At(first, last, ms, w),
             w = 0 => ~Says(ms, 1, t, d)
      PROVE  \E i \in DOMAIN Tail(ms) : w < i + 1 /\ i < y /\ Says(Tail(ms), i, t, d)
  <2>1. PICK i \in DOMAIN ms : w < i /\ i < y + 1 /\ Says(ms, i, t, d)
    BY <1>2, <1>3, <1>4 DEF Told
  <2>2. w \in Nat /\ i \in Nat /\ i > 0
    BY RestFacts DEF Points
  <2>3. i # 1
    BY <1>1, <1>4, <2>1, <2>2
  <2>4. i - 1 \in DOMAIN Tail(ms) /\ Says(Tail(ms), i - 1, t, d)
    BY <2>1, <2>3, SaysTail
  <2>5. w < (i - 1) + 1 /\ i - 1 < y
    BY <1>1, <2>1, <2>2
  <2> QED  BY <2>4, <2>5
<1>5. CASE x # 0
  <2>1. /\ x + 1 \in Points(ms) /\ Heard(ms, x + 1, t) /\ x + 1 # 0
        /\ At(now, last, Tail(ms), x) = At(first, last, ms, x + 1)
    BY <1>1, <1>5, PointsTail DEF Heard
  <2>2. CASE d \notin At(first, last, ms, x + 1)
    <3>1. PICK i \in DOMAIN Tail(ms) : x + 1 < i + 1 /\ i < y /\ Says(Tail(ms), i, t, d)
      BY <1>1, <1>4, <2>1, <2>2
    <3>2. x < i
      BY <1>1, <3>1, RestFacts
    <3> QED  BY <3>1, <3>2
  <2> QED  BY <2>1, <2>2
<1>6. CASE x = 0 /\ d \notin now
  <2>1. At(now, last, Tail(ms), x) = now
    BY <1>6 DEF At
  <2>2. \A i \in DOMAIN Tail(ms) : 0 < i
    BY RestFacts
  <2>3. CASE ms[1].kind = "snapshot" /\ Quiet(ms, 1, t) /\ ms[1].docs \subseteq now
    <3>1. 1 \in Points(ms) /\ Heard(ms, 1, t) /\ At(first, last, ms, 1) = ms[1].docs
      BY <2>3, RestFacts DEF Points, Heard, At
    <3>2. \E i \in DOMAIN Tail(ms) : 1 < i + 1 /\ i < y /\ Says(Tail(ms), i, t, d)
      BY <1>1, <1>4, <1>6, <2>3, <3>1
    <3> QED  BY <1>6, <2>2, <3>2
  <2>4. CASE first \subseteq now /\ \A e : Says(ms, 1, t, e) => e \in now
    <3>1. 0 \in Points(ms) /\ Heard(ms, 0, t) /\ At(first, last, ms, 0) = first
      BY RestFacts DEF Points, Heard, At
    <3>2. \E i \in DOMAIN Tail(ms) : 0 < i + 1 /\ i < y /\ Says(Tail(ms), i, t, d)
      BY <1>1, <1>4, <1>6, <2>4, <3>1
    <3> QED  BY <1>6, <2>2, <3>2
  <2> QED  BY <2>3, <2>4
<1>7. CASE x = 0 /\ d \in now
  BY <1>7 DEF At
<1> QED  BY <1>5, <1>6, <1>7

(* At each point there is what was at some point before.                   *)
NothingNew(now, last, more, first, end, ms) ==
    \A x \in Points(more) :
      \E w \in Points(ms) : /\ At(now, last, more, x) = At(first, end, ms, w)
                            /\ x # 0 => w # 0

LEMMA ConvexTail ==
    ASSUME NEW ms \in Seq(Messages), ms # <<>>, NEW first, NEW last, Convex(first, last, ms),
           NEW now, \/ now = first
                    \/ ms[1].kind = "snapshot" /\ now = ms[1].docs
    PROVE  Convex(now, last, Tail(ms)) /\ NothingNew(now, last, Tail(ms), first, last, ms)
<1> DEFINE Before(x, w) ==
             /\ w \in Points(ms) /\ At(now, last, Tail(ms), x) = At(first, last, ms, w)
             /\ x # 0 => w = x + 1
             /\ x = 0 => w \in {0, 1}
<1>1. ASSUME NEW x \in Points(Tail(ms))
      PROVE  \E w : Before(x, w)
  <2>1. CASE x # 0
    <3>1. x + 1 \in Points(ms) /\ At(now, last, Tail(ms), x) = At(first, last, ms, x + 1)
      BY <2>1, PointsTail
    <3> QED  BY <2>1, <3>1
  <2>2. CASE x = 0
    <3>1. 0 \in Points(ms) /\ At(first, last, ms, 0) = first /\ At(now, last, Tail(ms), x) = now
      BY <2>2, RestFacts DEF Points, At
    <3>2. CASE ms[1].kind = "snapshot" /\ now = ms[1].docs
      <4>1. 1 \in Points(ms) /\ At(first, last, ms, 1) = ms[1].docs
        BY <3>2, RestFacts DEF Points, At
      <4> QED  BY <2>2, <3>1, <3>2, <4>1
    <3> QED  BY <2>2, <3>1, <3>2
  <2> QED  BY <2>1, <2>2
<1>2. \A x \in Points(Tail(ms)) : x \in Nat
  BY DEF Points
<1>3. ASSUME NEW x \in Points(Tail(ms)), NEW y \in Points(Tail(ms)), NEW z \in Points(Tail(ms)),
             x < y, y < z
      PROVE  At(now, last, Tail(ms), x) \cap At(now, last, Tail(ms), z)
               \subseteq At(now, last, Tail(ms), y)
  <2>1. PICK u : Before(x, u)
    BY <1>1
  <2>2. PICK v : Before(y, v)
    BY <1>1
  <2>3. PICK w : Before(z, w)
    BY <1>1
  <2>4. u < v /\ v < w
    BY <1>2, <1>3, <2>1, <2>2, <2>3
  <2> QED  BY <2>1, <2>2, <2>3, <2>4 DEF Convex
<1>4. Convex(now, last, Tail(ms))
  BY <1>3 DEF Convex
<1>5. \A x \in Points(Tail(ms)) :
         \E w \in Points(ms) : /\ At(now, last, Tail(ms), x) = At(first, last, ms, w)
                               /\ x # 0 => w # 0
  BY <1>1, <1>2
<1> QED  BY <1>4, <1>5 DEF NothingNew

LEMMA QuietLess ==
    ASSUME NEW ms, NEW all, \A i \in DOMAIN ms : i \in DOMAIN all /\ all[i] = ms[i], NEW x, NEW t,
           Quiet(all, x, t)
    PROVE  Quiet(ms, x, t)
BY DEF Quiet

LEMMA QuietMore ==
    ASSUME NEW ms \in Seq(Messages), NEW more \in Seq(Messages), NEW t,
           \A i \in DOMAIN more : ~IsAnswer(more[i], t), NEW x
    PROVE  Quiet(ms, x, t) => Quiet(ms \o more, x, t)
BY MoreFacts DEF Quiet

LEMMA SaysMore ==
    ASSUME NEW ms \in Seq(Messages), NEW more \in Seq(Messages), NEW t,
           \A i \in DOMAIN more : ~IsAnswer(more[i], t), NEW i \in DOMAIN ms, NEW d,
           Says(ms, i, t, d)
    PROVE  i \in DOMAIN (ms \o more) /\ Says(ms \o more, i, t, d)
BY MoreFacts, QuietMore DEF Says

(* More messages that bring no snapshot put off the end.                   *)
LEMMA PointsMore ==
    ASSUME NEW ms \in Seq(Messages), NEW more \in Seq(Messages),
           \A i \in DOMAIN more : more[i].kind # "snapshot",
           NEW x \in Points(ms \o more)
    PROVE  \E w \in Points(ms) :
             /\ (w = x /\ x <= Len(ms)) \/ (w = Len(ms) + 1 /\ x = Len(ms) + Len(more) + 1)
             /\ \A first, last : At(first, last, ms \o more, x) = At(first, last, ms, w)
             /\ \A t : Quiet(ms \o more, x, t) => Quiet(ms, w, t)
<1>1. /\ Len(ms) \in Nat /\ Len(more) \in Nat
      /\ DOMAIN ms = 1 .. Len(ms) /\ DOMAIN more = 1 .. Len(more)
      /\ Len(ms \o more) = Len(ms) + Len(more)
      /\ DOMAIN (ms \o more) = 1 .. Len(ms) + Len(more)
      /\ \A i \in DOMAIN ms : (ms \o more)[i] = ms[i]
      /\ \A i \in DOMAIN more : (ms \o more)[i + Len(ms)] = more[i]
  BY MoreFacts
<1>2. x \in Nat /\ x <= Len(ms) + Len(more) + 1
  BY <1>1 DEF Points
<1>3. CASE x <= Len(ms)
  <2>1. x \in Points(ms)
    BY <1>1, <1>2, <1>3 DEF Points
  <2>2. \A first, last : At(first, last, ms \o more, x) = At(first, last, ms, x)
    BY <1>1, <1>2, <1>3 DEF At
  <2>3. \A j \in DOMAIN ms : j \in DOMAIN (ms \o more) /\ (ms \o more)[j] = ms[j]
    BY <1>1
  <2>4. \A t : Quiet(ms \o more, x, t) => Quiet(ms, x, t)
    BY <2>3, QuietLess
  <2> WITNESS x \in Points(ms)
  <2> QED  BY <1>3, <2>2, <2>4
<1>4. CASE x > Len(ms)
  <2>1. x = Len(ms) + Len(more) + 1
    <3>1. SUFFICES ASSUME x <= Len(ms) + Len(more) PROVE FALSE
      BY <1>1, <1>2
    <3>2. x \in DOMAIN (ms \o more) /\ x - Len(ms) \in DOMAIN more
      BY <1>1, <1>2, <1>4, <3>1
    <3>3. (ms \o more)[x] = more[x - Len(ms)]
      BY <1>1, <1>2, <3>2
    <3> QED  BY <3>2, <3>3 DEF Points
  <2>2. Len(ms) + 1 \in Points(ms)
    BY <1>1 DEF Points
  <2>3. \A first, last : At(first, last, ms \o more, x) = At(first, last, ms, Len(ms) + 1)
    BY <1>1, <2>1 DEF At
  <2>4. \A t : Quiet(ms, Len(ms) + 1, t)
    BY <1>1 DEF Quiet
  <2> QED  BY <2>1, <2>2, <2>3, <2>4
<1> QED  BY <1>1, <1>2, <1>3, <1>4

LEMMA ToldMore ==
    ASSUME NEW ms \in Seq(Messages), NEW more \in Seq(Messages), NEW t,
           \A i \in DOMAIN more : more[i].kind # "snapshot" /\ ~IsAnswer(more[i], t),
           NEW first, NEW last, NEW scope, Told(first, last, ms, t, scope)
    PROVE  Told(first, last, ms \o more, t, scope)
<1> SUFFICES ASSUME NEW x \in Points(ms \o more), NEW y \in Points(ms \o more), x < y,
                    Heard(ms \o more, x, t), Heard(ms \o more, y, t),
                    NEW d \in Scoped(At(first, last, ms \o more, y), scope)
             PROVE  \/ d \in At(first, last, ms \o more, x)
                    \/ \E i \in DOMAIN (ms \o more) : x < i /\ i < y /\ Says(ms \o more, i, t, d)
  BY DEF Told
<1>1. /\ Len(ms) \in Nat /\ Len(more) \in Nat /\ DOMAIN ms = 1 .. Len(ms)
      /\ x \in Nat /\ y \in Nat /\ y <= Len(ms) + Len(more) + 1
  BY MoreFacts DEF Points
<1>2. PICK w \in Points(ms) :
        /\ (w = x /\ x <= Len(ms)) \/ (w = Len(ms) + 1 /\ x = Len(ms) + Len(more) + 1)
        /\ \A f, l : At(f, l, ms \o more, x) = At(f, l, ms, w)
        /\ \A u : Quiet(ms \o more, x, u) => Quiet(ms, w, u)
  BY PointsMore
<1>3. PICK v \in Points(ms) :
        /\ (v = y /\ y <= Len(ms)) \/ (v = Len(ms) + 1 /\ y = Len(ms) + Len(more) + 1)
        /\ \A f, l : At(f, l, ms \o more, y) = At(f, l, ms, v)
        /\ \A u : Quiet(ms \o more, y, u) => Quiet(ms, v, u)
  BY PointsMore
<1>4. w = x /\ w < v
  BY <1>1, <1>2, <1>3
<1>5. Heard(ms, w, t) /\ Heard(ms, v, t)
  BY <1>2, <1>3, <1>4 DEF Heard
<1>6. d \in Scoped(At(first, last, ms, v), scope)
  BY <1>3 DEF Scoped
<1>7. \/ d \in At(first, last, ms, w)
      \/ \E i \in DOMAIN ms : w < i /\ i < v /\ Says(ms, i, t, d)
  BY <1>4, <1>5, <1>6 DEF Told
<1>8. ASSUME NEW i \in DOMAIN ms, w < i, i < v, Says(ms, i, t, d)
      PROVE  \E j \in DOMAIN (ms \o more) : x < j /\ j < y /\ Says(ms \o more, j, t, d)
  <2>1. x < i /\ i < y
    BY <1>1, <1>3, <1>4, <1>8
  <2>2. i \in DOMAIN (ms \o more) /\ Says(ms \o more, i, t, d)
    BY <1>8, SaysMore
  <2> QED  BY <2>1, <2>2
<1> QED  BY <1>2, <1>7, <1>8

LEMMA ConvexMore ==
    ASSUME NEW ms \in Seq(Messages), NEW more \in Seq(Messages),
           \A i \in DOMAIN more : more[i].kind # "snapshot",
           NEW first, NEW last, Convex(first, last, ms)
    PROVE  /\ Convex(first, last, ms \o more)
           /\ \A x \in Points(ms \o more) :
                \E w \in Points(ms) : /\ At(first, last, ms \o more, x) = At(first, last, ms, w)
                                      /\ x # 0 => w # 0
<1>1. /\ Len(ms) \in Nat /\ Len(more) \in Nat
      /\ \A x \in Points(ms \o more) : x \in Nat /\ x <= Len(ms) + Len(more) + 1
  BY MoreFacts DEF Points
<1> DEFINE Before(x, w) ==
             /\ w \in Points(ms) /\ At(first, last, ms \o more, x) = At(first, last, ms, w)
             /\ (w = x /\ x <= Len(ms)) \/ (w = Len(ms) + 1 /\ x = Len(ms) + Len(more) + 1)
<1>2. \A x \in Points(ms \o more) : \E w : Before(x, w)
  BY PointsMore
<1>3. ASSUME NEW x \in Points(ms \o more), NEW y \in Points(ms \o more),
             NEW z \in Points(ms \o more), x < y, y < z
      PROVE  At(first, last, ms \o more, x) \cap At(first, last, ms \o more, z)
               \subseteq At(first, last, ms \o more, y)
  <2>1. PICK u : Before(x, u)
    BY <1>2
  <2>2. PICK v : Before(y, v)
    BY <1>2
  <2>3. PICK w : Before(z, w)
    BY <1>2
  <2>4. u < v /\ v < w
    BY <1>1, <1>3, <2>1, <2>2, <2>3
  <2> QED  BY <2>1, <2>2, <2>3, <2>4 DEF Convex
<1>4. ASSUME NEW x \in Points(ms \o more)
      PROVE  \E w \in Points(ms) : /\ At(first, last, ms \o more, x) = At(first, last, ms, w)
                                   /\ x # 0 => w # 0
  <2>1. PICK w : Before(x, w)
    BY <1>2
  <2>2. x # 0 => w # 0
    BY <1>1, <2>1
  <2> QED  BY <2>1, <2>2
<1> QED  BY <1>3, <1>4 DEF Convex

(* A snapshot is added: the points stay, and there is one more.            *)
LEMMA PointsSnapshot ==
    ASSUME NEW ms \in Seq(Messages), NEW m \in Messages, m.kind = "snapshot",
           NEW x \in Points(Append(ms, m))
    PROVE  /\ x \in Nat
           /\ \/ /\ x <= Len(ms) /\ x \in Points(ms)
                 /\ \A first, last, now : At(first, now, Append(ms, m), x) = At(first, last, ms, x)
              \/ x = Len(ms) + 1 /\ \A first, now : At(first, now, Append(ms, m), x) = m.docs
              \/ x = Len(ms) + 2 /\ \A first, now : At(first, now, Append(ms, m), x) = now
           /\ \A t : Quiet(Append(ms, m), x, t) => Quiet(ms, x, t)
<1> DEFINE all == Append(ms, m)
<1>1. /\ Len(ms) \in Nat /\ DOMAIN ms = 1 .. Len(ms) /\ DOMAIN all = 1 .. Len(ms) + 1
      /\ Len(all) = Len(ms) + 1
      /\ \A i \in DOMAIN ms : all[i] = ms[i]
      /\ all[Len(ms) + 1] = m
  BY OneMoreFacts
<1> HIDE DEF all
<1>2. x \in Nat /\ x <= Len(ms) + 2
  BY <1>1 DEF Points
<1>3. \A j \in DOMAIN ms : j \in DOMAIN all /\ all[j] = ms[j]
  BY <1>1
<1>4. \A t : Quiet(all, x, t) => Quiet(ms, x, t)
  BY <1>3, QuietLess
<1>5. CASE x <= Len(ms)
  <2>1. x \in Points(ms)
    BY <1>1, <1>2, <1>5 DEF Points
  <2>2. \A first, last, now : At(first, now, all, x) = At(first, last, ms, x)
    BY <1>1, <1>2, <1>5 DEF At
  <2> QED  BY <1>2, <1>4, <1>5, <2>1, <2>2 DEF all
<1>6. CASE x = Len(ms) + 1
  <2>1. x # 0 /\ x \in DOMAIN all /\ all[x] = m
    BY <1>1, <1>6
  <2>2. \A first, now : At(first, now, all, x) = m.docs
    BY <2>1 DEF At
  <2> QED  BY <1>2, <1>4, <1>6, <2>2 DEF all
<1>7. CASE x = Len(ms) + 2
  <2>1. x # 0 /\ x \notin DOMAIN all
    BY <1>1, <1>7
  <2>2. \A first, now : At(first, now, all, x) = now
    BY <2>1 DEF At
  <2> QED  BY <1>2, <1>4, <1>7, <2>2 DEF all
<1>8. x <= Len(ms) \/ x = Len(ms) + 1 \/ x = Len(ms) + 2
  BY <1>1, <1>2
<1> QED  BY <1>5, <1>6, <1>7, <1>8 DEF all

(* After a snapshot the client is told of all that the backend has, if it  *)
(* has been told what it was not known to know.                            *)
LEMMA ToldSnapshot ==
    ASSUME NEW ms \in Seq(Messages), NEW m \in Messages, m.kind = "snapshot",
           NEW t, NEW first, NEW last, NEW scope, Told(first, last, ms, t, scope),
           Scoped(last, scope) = last,
           \A d \in Scoped(m.docs, scope) \ last :
             \E i \in DOMAIN ms :
               Says(ms, i, t, d) /\ \A x \in Points(ms) : x < i \/ x = Len(ms) + 1
    PROVE  Told(first, Scoped(m.docs, scope), Append(ms, m), t, scope)
<1> DEFINE all == Append(ms, m)
           now == Scoped(m.docs, scope)
           n == Len(ms)
<1>1. /\ n \in Nat /\ DOMAIN ms = 1 .. n /\ DOMAIN all = 1 .. n + 1
      /\ \A i \in DOMAIN ms : i \in DOMAIN all /\ all[i] = ms[i]
      /\ all[n + 1] = m /\ n + 1 \in DOMAIN all
  <2>1. /\ n \in Nat /\ DOMAIN ms = 1 .. n /\ DOMAIN all = 1 .. n + 1
        /\ \A i \in DOMAIN ms : all[i] = ms[i]
        /\ all[n + 1] = m
    BY OneMoreFacts
  <2> QED  BY <2>1
<1>2. ASSUME NEW i \in DOMAIN ms, NEW d, Says(ms, i, t, d)
      PROVE  i \in DOMAIN all /\ Says(all, i, t, d)
  <2>1. ~IsAnswer(m, t)
    BY DEF IsAnswer
  <2>2. \A j \in DOMAIN all : j \in DOMAIN ms \/ j = n + 1
    BY <1>1
  <2>3. Quiet(all, i, t)
    BY <1>1, <1>2, <2>1, <2>2 DEF Says, Quiet
  <2> QED  BY <1>1, <1>2, <2>3 DEF Says
<1>3. \A x \in Points(all) :
        /\ x \in Nat
        /\ \/ x <= n /\ x \in Points(ms) /\ At(first, now, all, x) = At(first, last, ms, x)
           \/ x = n + 1 /\ At(first, now, all, x) = m.docs
           \/ x = n + 2 /\ At(first, now, all, x) = now
        /\ Quiet(all, x, t) => Quiet(ms, x, t)
  BY PointsSnapshot
<1>4. n + 1 \in Points(ms) /\ Heard(ms, n + 1, t) /\ At(first, last, ms, n + 1) = last
  BY <1>1 DEF Points, Heard, Quiet, At
<1> SUFFICES ASSUME NEW x \in Points(all), NEW y \in Points(all), x < y,
                    Heard(all, x, t), Heard(all, y, t),
                    NEW d \in Scoped(At(first, now, all, y), scope)
             PROVE  \/ d \in At(first, now, all, x)
                    \/ \E i \in DOMAIN all : x < i /\ i < y /\ Says(all, i, t, d)
  BY DEF Told
<1> HIDE DEF all, now, n
<1>5. CASE y <= n
  <2>1. /\ x <= n /\ x \in Points(ms) /\ At(first, now, all, x) = At(first, last, ms, x)
        /\ y \in Points(ms) /\ At(first, now, all, y) = At(first, last, ms, y)
    BY <1>1, <1>3, <1>5
  <2>2. Heard(ms, x, t) /\ Heard(ms, y, t)
    BY <1>3, <2>1 DEF Heard
  <2>3. \/ d \in At(first, last, ms, x)
        \/ \E i \in DOMAIN ms : x < i /\ i < y /\ Says(ms, i, t, d)
    BY <2>1, <2>2 DEF Told
  <2> QED  BY <1>2, <2>1, <2>3
<1>6. CASE y > n /\ x <= n
  <2>1. d \in now
    BY <1>1, <1>3, <1>6 DEF Scoped, now
  <2>2. x \in Points(ms) /\ At(first, now, all, x) = At(first, last, ms, x) /\ Heard(ms, x, t)
    BY <1>1, <1>3, <1>6 DEF Heard
  <2>3. CASE d \in last
    <3>1. d \in Scoped(last, scope)
      BY <2>3
    <3>2. x < n + 1
      BY <1>1, <1>3, <1>6
    <3>3. \/ d \in At(first, last, ms, x)
          \/ \E i \in DOMAIN ms : x < i /\ i < n + 1 /\ Says(ms, i, t, d)
      BY <1>4, <2>2, <3>1, <3>2 DEF Told
    <3>4. \A i \in DOMAIN ms : i < n + 1 => i < y
      BY <1>1, <1>3, <1>6
    <3> QED  BY <1>2, <2>2, <3>3, <3>4
  <2>4. CASE d \notin last
    <3>1. PICK i \in DOMAIN ms : Says(ms, i, t, d) /\ \A w \in Points(ms) : w < i \/ w = n + 1
      BY <2>1, <2>4 DEF now, n
    <3>2. x < i
      BY <1>1, <1>3, <1>6, <2>2, <3>1
    <3>3. i < y
      BY <1>1, <1>3, <1>6
    <3> QED  BY <1>2, <3>1, <3>2, <3>3
  <2> QED  BY <2>3, <2>4
<1>7. CASE x > n
  <2>1. y = n + 2 /\ x = n + 1
    BY <1>1, <1>3, <1>7
  <2>2. d \in now /\ At(first, now, all, x) = m.docs
    BY <1>1, <1>3, <2>1 DEF Scoped
  <2> QED  BY <2>2 DEF now, Scoped
<1> QED  BY <1>1, <1>3, <1>5, <1>6, <1>7

(* A target has been answered: it is known to have what it has asked from. *)
LEMMA ToldFresh ==
    ASSUME NEW ms \in Seq(Messages), NEW m \in Messages, NEW t, IsAnswer(m, t),
           NEW first, NEW last \in SUBSET first, NEW scope
    PROVE  Told(first, last, Append(ms, m), t, scope)
<1> DEFINE all == Append(ms, m)
           n == Len(ms)
<1>1. n \in Nat /\ DOMAIN all = 1 .. n + 1 /\ Len(all) = n + 1 /\ all[n + 1] = m
  BY OneMoreFacts
<1>2. \A x \in Points(all) : x \in Nat /\ x <= n + 2
  BY <1>1 DEF Points
<1>3. \A x \in Points(all) : Heard(all, x, t) => x = 0 \/ x = n + 2
  <2>1. ASSUME NEW x \in Points(all), Quiet(all, x, t) PROVE ~(x <= n + 1)
    <3>1. n + 1 \in DOMAIN all
      BY <1>1
    <3> QED  BY <1>1, <1>2, <2>1, <3>1 DEF Quiet
  <2> QED  BY <1>1, <1>2, <2>1 DEF Heard
<1>4. At(first, last, all, 0) = first /\ At(first, last, all, n + 2) = last
  BY <1>1 DEF At
<1> HIDE DEF all, n
<1>5. Told(first, last, all, t, scope)
  BY <1>1, <1>2, <1>3, <1>4 DEF Told, Scoped
<1> QED  BY <1>5 DEF all

LEMMA ConvexSnapshot ==
    ASSUME NEW ms \in Seq(Messages), NEW m \in Messages, m.kind = "snapshot",
           NEW first, NEW last, Convex(first, last, ms), m.docs = last
    PROVE  /\ Convex(first, last, Append(ms, m))
           /\ \A x \in Points(Append(ms, m)) :
                \E w \in Points(ms) : /\ At(first, last, Append(ms, m), x) = At(first, last, ms, w)
                                      /\ x # 0 => w # 0
<1> DEFINE all == Append(ms, m)
           n == Len(ms)
           Before(x, w) ==
             /\ w \in Points(ms) /\ At(first, last, all, x) = At(first, last, ms, w)
             /\ \/ x <= n /\ w = x
                \/ x \in {n + 1, n + 2} /\ w = n + 1
<1>1. n \in Nat /\ n + 1 \in Points(ms) /\ At(first, last, ms, n + 1) = last
  <2>1. n \in Nat /\ DOMAIN ms = 1 .. n
    BY OneMoreFacts
  <2> QED  BY <2>1 DEF Points, At
<1>2. \A x \in Points(all) :
        /\ x \in Nat
        /\ \/ x <= n /\ x \in Points(ms) /\ At(first, last, all, x) = At(first, last, ms, x)
           \/ x = n + 1 /\ At(first, last, all, x) = last
           \/ x = n + 2 /\ At(first, last, all, x) = last
  BY PointsSnapshot
<1> HIDE DEF all, n
<1>3. \A x \in Points(all) : \E w : Before(x, w)
  BY <1>1, <1>2
<1>4. ASSUME NEW x \in Points(all), NEW y \in Points(all), NEW z \in Points(all), x < y, y < z
      PROVE  At(first, last, all, x) \cap At(first, last, all, z) \subseteq At(first, last, all, y)
  <2>1. PICK u : Before(x, u)
    BY <1>3
  <2>2. PICK v : Before(y, v)
    BY <1>3
  <2>3. PICK w : Before(z, w)
    BY <1>3
  <2>4. CASE u < v /\ v < w
    BY <2>1, <2>2, <2>3, <2>4 DEF Convex
  <2>5. CASE ~(u < v /\ v < w)
    <3>1. v = w
      BY <1>1, <1>2, <1>4, <2>1, <2>2, <2>3, <2>5
    <3> QED  BY <2>2, <2>3, <3>1
  <2> QED  BY <2>4, <2>5
<1>5. Convex(first, last, all)
  BY <1>4 DEF Convex
<1>6. ASSUME NEW x \in Points(all)
      PROVE  \E w \in Points(ms) : /\ At(first, last, all, x) = At(first, last, ms, w)
                                   /\ x # 0 => w # 0
  <2>1. PICK w : Before(x, w)
    BY <1>3
  <2>2. x # 0 => w # 0
    BY <1>1, <2>1
  <2> QED  BY <2>1, <2>2
<1> QED  BY <1>5, <1>6 DEF all

--------------------------------------------------------------------------------
(* The next snapshot *)

LEMMA NextTail ==
    ASSUME NEW ms \in Seq(Messages), ms # <<>>, NEW i \in Nat, NEW n, NextSnapshot(ms, i, n),
           i # 0 \/ ms[1].kind # "snapshot"
    PROVE  /\ n - 1 \in DOMAIN Tail(ms) /\ Tail(ms)[n - 1] = ms[n] /\ n \in Nat
           /\ NextSnapshot(Tail(ms), IF i = 0 THEN 0 ELSE i - 1, n - 1)
<1> DEFINE rest == Tail(ms)
           h == IF i = 0 THEN 0 ELSE i - 1
<1>1. /\ Len(ms) \in Nat /\ Len(ms) > 0
      /\ DOMAIN ms = 1 .. Len(ms) /\ DOMAIN rest = 1 .. Len(ms) - 1
      /\ \A j \in DOMAIN rest : rest[j] = ms[j + 1]
  BY RestFacts
<1>2. n \in DOMAIN ms /\ n > i /\ ms[n].kind = "snapshot"
  BY DEF NextSnapshot
<1> HIDE DEF rest, h
<1>3. n # 1
  BY <1>1, <1>2
<1>4. n \in Nat /\ n - 1 \in DOMAIN rest /\ rest[n - 1] = ms[n]
  BY <1>1, <1>2, <1>3
<1>5. h \in Nat /\ (h = i - 1 \/ (h = 0 /\ i = 0))
  BY DEF h
<1>6. n - 1 > h
  BY <1>1, <1>2, <1>3, <1>5
<1>7. ASSUME NEW j \in DOMAIN rest, h < j, j < n - 1
      PROVE  rest[j].kind # "snapshot"
  <2>1. j + 1 \in DOMAIN ms /\ rest[j] = ms[j + 1] /\ j \in Nat
    BY <1>1
  <2>2. i < j + 1 /\ j + 1 < n
    BY <1>4, <1>5, <1>7, <2>1
  <2> QED  BY <2>1, <2>2 DEF NextSnapshot
<1>8. NextSnapshot(rest, h, n - 1)
  BY <1>2, <1>4, <1>6, <1>7 DEF NextSnapshot
<1> QED  BY <1>4, <1>8 DEF rest, h

LEMMA NextMore ==
    ASSUME NEW ms \in Seq(Messages), NEW more \in Seq(Messages), NEW i, NEW n,
           NextSnapshot(ms, i, n)
    PROVE  n \in DOMAIN (ms \o more) /\ (ms \o more)[n] = ms[n] /\ NextSnapshot(ms \o more, i, n)
<1> DEFINE all == ms \o more
<1>1. /\ Len(ms) \in Nat /\ DOMAIN ms = 1 .. Len(ms)
      /\ DOMAIN all = 1 .. Len(ms) + Len(more) /\ Len(more) \in Nat
      /\ \A j \in DOMAIN ms : all[j] = ms[j]
  BY MoreFacts
<1> HIDE DEF all
<1>2. n \in DOMAIN ms /\ n > i /\ ms[n].kind = "snapshot"
  BY DEF NextSnapshot
<1>3. n \in DOMAIN all /\ all[n] = ms[n] /\ \A j \in DOMAIN all : j < n => j \in DOMAIN ms
  BY <1>1, <1>2
<1>4. NextSnapshot(all, i, n)
  BY <1>1, <1>2, <1>3 DEF NextSnapshot
<1> QED  BY <1>3, <1>4 DEF all

LEMMA NextOnly ==
    ASSUME NEW ms \in Seq(Messages), NEW i, NEW n, NEW m, NextSnapshot(ms, i, n),
           NextSnapshot(ms, i, m)
    PROVE  n = m
<1>1. Len(ms) \in Nat /\ DOMAIN ms = 1 .. Len(ms)
  OBVIOUS
<1>2. n \in Nat /\ m \in Nat
  BY <1>1 DEF NextSnapshot
<1>3. ~(n < m) /\ ~(m < n)
  BY DEF NextSnapshot
<1> QED  BY <1>2, <1>3

LEMMA NextHead ==
    ASSUME NEW ms \in Seq(Messages), ms # <<>>, NEW n, NextSnapshot(ms, 0, n),
           ms[1].kind = "snapshot"
    PROVE  n = 1
<1>1. 1 \in DOMAIN ms /\ \A j \in DOMAIN ms : j \in Nat /\ j > 0
  BY RestFacts
<1>2. NextSnapshot(ms, 0, 1)
  BY <1>1 DEF NextSnapshot
<1> QED  BY <1>2, NextOnly

LEMMA FitTail ==
    ASSUME NEW ms \in Seq(Messages), ms # <<>>, NEW i \in Nat,
           i # 0 \/ ms[1].kind # "snapshot", NEW added, NEW removed, Fit(ms, i, added, removed)
    PROVE  Fit(Tail(ms), IF i = 0 THEN 0 ELSE i - 1, added, removed)
<1>1. PICK n \in DOMAIN ms : /\ NextSnapshot(ms, i, n)
                             /\ added \subseteq ms[n].docs
                             /\ removed \cap KeysOf(ms[n].docs) = {}
  BY DEF Fit
<1>2. /\ n - 1 \in DOMAIN Tail(ms) /\ Tail(ms)[n - 1] = ms[n]
      /\ NextSnapshot(Tail(ms), IF i = 0 THEN 0 ELSE i - 1, n - 1)
  BY <1>1, NextTail
<1> QED  BY <1>1, <1>2 DEF Fit

LEMMA FitMore ==
    ASSUME NEW ms \in Seq(Messages), NEW more \in Seq(Messages), NEW i, NEW added, NEW removed,
           Fit(ms, i, added, removed)
    PROVE  Fit(ms \o more, i, added, removed)
<1>1. PICK n \in DOMAIN ms : /\ NextSnapshot(ms, i, n)
                             /\ added \subseteq ms[n].docs
                             /\ removed \cap KeysOf(ms[n].docs) = {}
  BY DEF Fit
<1>2. n \in DOMAIN (ms \o more) /\ (ms \o more)[n] = ms[n] /\ NextSnapshot(ms \o more, i, n)
  BY <1>1, NextMore
<1> QED  BY <1>1, <1>2 DEF Fit

LEMMA FitLess ==
    ASSUME NEW ms, NEW i, NEW added, NEW removed, Fit(ms, i, added, removed),
           NEW a \in SUBSET added, NEW r \in SUBSET removed
    PROVE  Fit(ms, i, a, r)
BY DEF Fit

LEMMA FitJoin ==
    ASSUME NEW ms \in Seq(Messages), NEW i, NEW a, NEW b, NEW r, NEW s,
           Fit(ms, i, a, r), Fit(ms, i, b, s)
    PROVE  \E n \in DOMAIN ms : /\ NextSnapshot(ms, i, n) /\ ms[n].docs \in Collections
                                /\ a \cup b \subseteq ms[n].docs
                                /\ (r \cup s) \cap KeysOf(ms[n].docs) = {}
<1>1. PICK n \in DOMAIN ms : /\ NextSnapshot(ms, i, n)
                             /\ a \subseteq ms[n].docs /\ r \cap KeysOf(ms[n].docs) = {}
  BY DEF Fit
<1>2. PICK m \in DOMAIN ms : /\ NextSnapshot(ms, i, m)
                             /\ b \subseteq ms[m].docs /\ s \cap KeysOf(ms[m].docs) = {}
  BY DEF Fit
<1>3. n = m
  BY <1>1, <1>2, NextOnly
<1>4. ms[n].docs \in Collections
  <2>1. ms[n] \in Messages /\ ms[n].kind = "snapshot"
    BY <1>1 DEF NextSnapshot
  <2> QED  BY <2>1, MessageKinds DEF Snapshots
<1>5. /\ a \cup b \subseteq ms[n].docs
      /\ (r \cup s) \cap KeysOf(ms[n].docs) = {}
  BY <1>1, <1>2, <1>3
<1> QED  BY <1>1, <1>4, <1>5

LEMMA FitHead ==
    ASSUME NEW ms \in Seq(Messages), ms # <<>>, NEW added, NEW removed,
           Fit(ms, 0, added, removed), ms[1].kind = "snapshot"
    PROVE  added \subseteq ms[1].docs /\ removed \cap KeysOf(ms[1].docs) = {}
BY NextHead DEF Fit

LEMMA UndisturbedTail ==
    ASSUME NEW ms \in Seq(Messages), ms # <<>>, NEW i \in Nat,
           i # 0 \/ ms[1].kind # "snapshot", Undisturbed(ms, i)
    PROVE  /\ Undisturbed(Tail(ms), IF i = 0 THEN 0 ELSE i - 1)
           /\ i = 0 => ~IsAnswer(ms[1], Query) /\ ~(ms[1].kind = "docs" /\ ms[1].target = Query)
<1> DEFINE rest == Tail(ms)
           h == IF i = 0 THEN 0 ELSE i - 1
           Other(m) == ~IsAnswer(m, Query) /\ ~(m.kind = "docs" /\ m.target = Query)
<1>1. PICK n \in DOMAIN ms : /\ NextSnapshot(ms, i, n)
                             /\ \A j \in DOMAIN ms : i < j /\ j < n => Other(ms[j])
  BY DEF Undisturbed
<1>2. /\ n - 1 \in DOMAIN rest /\ n \in Nat /\ NextSnapshot(rest, h, n - 1)
  BY <1>1, NextTail
<1>3. /\ Len(ms) \in Nat /\ Len(ms) > 0
      /\ DOMAIN ms = 1 .. Len(ms) /\ DOMAIN rest = 1 .. Len(ms) - 1
      /\ \A j \in DOMAIN rest : rest[j] = ms[j + 1]
  BY RestFacts
<1> HIDE DEF rest, Other
<1>4. ASSUME NEW j \in DOMAIN rest, h < j, j < n - 1
      PROVE  Other(rest[j])
  <2>1. j + 1 \in DOMAIN ms /\ rest[j] = ms[j + 1] /\ j \in Nat
    BY <1>3
  <2>2. i < j + 1 /\ j + 1 < n
    BY <1>2, <1>4, <2>1
  <2> QED  BY <1>1, <2>1, <2>2
<1> HIDE DEF h
<1>5. Undisturbed(rest, h)
  BY <1>2, <1>4 DEF Undisturbed, Other
<1>6. i = 0 => Other(ms[1])
  <2>1. 1 \in DOMAIN ms /\ 1 < n
    BY <1>2, <1>3
  <2> QED  BY <1>1, <2>1
<1> QED  BY <1>5, <1>6 DEF rest, h, Other

LEMMA UndisturbedMore ==
    ASSUME NEW ms \in Seq(Messages), NEW more \in Seq(Messages), NEW i, Undisturbed(ms, i)
    PROVE  Undisturbed(ms \o more, i)
<1> DEFINE all == ms \o more
           Other(m) == ~IsAnswer(m, Query) /\ ~(m.kind = "docs" /\ m.target = Query)
<1>1. PICK n \in DOMAIN ms : /\ NextSnapshot(ms, i, n)
                             /\ \A j \in DOMAIN ms : i < j /\ j < n => Other(ms[j])
  BY DEF Undisturbed
<1>2. n \in DOMAIN all /\ NextSnapshot(all, i, n)
  BY <1>1, NextMore
<1>3. \A j \in DOMAIN all : j < n => j \in DOMAIN ms /\ all[j] = ms[j]
  BY MoreFacts
<1> HIDE DEF all, Other
<1>4. \A j \in DOMAIN all : i < j /\ j < n => Other(all[j])
  BY <1>1, <1>3
<1>5. Undisturbed(all, i)
  BY <1>2, <1>4 DEF Undisturbed, Other
<1> QED  BY <1>5 DEF all

--------------------------------------------------------------------------------
(* Targets that are left alone *)

(* A target counts when no request for it is under way and no answer.      *)
LEMMA CountsWhenQuiet ==
    ASSUME NEW r \in Remotes, NEW ms \in Seq(Messages), Counted(r, ms), NEW t \in Nat
    PROVE  Ensure(r, t).outstanding = 0 <=> ~Asked(r.sent, t) /\ Quiet(ms, 1, t)
<1> DEFINE A == Among(r.sent, RequestsFor(t))
           B == Among(ms, AcksOf(t))
<1>1. r.sent \in Seq(Requests)
  BY DEF Remotes
<1>2. /\ IsFiniteSet(A) /\ IsFiniteSet(B)
      /\ Cardinality(A) \in Nat /\ Cardinality(B) \in Nat
  BY <1>1, AmongFinite
<1>3. Ensure(r, t).outstanding = Cardinality(A) + Cardinality(B)
  BY DEF Counted, ToCome
<1>4. A = {} <=> ~Asked(r.sent, t)
  <2>1. \A i \in DOMAIN r.sent : r.sent[i] \in Requests
    BY <1>1
  <2> QED  BY <2>1 DEF Among, RequestsFor, Asked
<1>5. B = {} <=> Quiet(ms, 1, t)
  <2>1. \A i \in DOMAIN ms : ms[i] \in Messages /\ i >= 1
    BY RestFacts
  <2>2. \A i \in DOMAIN ms : ms[i] \in AcksOf(t) <=> IsAnswer(ms[i], t)
    BY <2>1 DEF AcksOf, IsAnswer
  <2> QED  BY <2>1, <2>2 DEF Among, Quiet
<1> HIDE DEF A, B
<1>6. (A = {} <=> Cardinality(A) = 0) /\ (B = {} <=> Cardinality(B) = 0)
  BY <1>2, FS_EmptySet
<1> QED  BY <1>2, <1>3, <1>4, <1>5, <1>6

LEMMA AskedKept ==
    ASSUME NEW sent, NEW more, Extends(more, sent), NEW t,
           \A i \in DOMAIN more \ DOMAIN sent : more[i].target # t
    PROVE  /\ Asked(more, t) <=> Asked(sent, t)
           /\ \A q : LastAsked(sent, q) /\ q.target = t => LastAsked(more, q)
<1>1. Asked(more, t) <=> Asked(sent, t)
  BY DEF Extends, Asked
<1> QED  BY <1>1, LastAskedOn

LEMMA WatchingKept ==
    ASSUME NEW p, NEW q, NEW ms, NEW sv, NEW t, Watching(p, ms, sv, t), TargetKept(q, p, t),
           Extends(q.remote.sent, p.remote.sent), q.remote.updated = p.remote.updated
    PROVE  Watching(q, ms, sv, t)
<1>1. /\ q.remote.targets[t] = p.remote.targets[t]
      /\ t # Query => q.limbos.active[t] = p.limbos.active[t]
      /\ Ensure(q.remote, t) = Ensure(p.remote, t)
      /\ t \in DOMAIN q.remote.states
      /\ \A i \in DOMAIN q.remote.sent \ DOMAIN p.remote.sent : q.remote.sent[i].target # t
  BY DEF TargetKept, StateKept, Watching
<1>2. About(q.limbos, t) = About(p.limbos, t)
  BY <1>1 DEF About
<1>3. Held(q, ms, t) = Held(p, ms, t)
  BY <1>1 DEF Held
<1>4. Standing(p, ms, sv, t) => Standing(q, ms, sv, t)
  BY <1>1, <1>2, <1>3 DEF Standing, Noted, NoneLeft
<1>5. /\ Asked(q.remote.sent, t) <=> Asked(p.remote.sent, t)
      /\ \A w : LastAsked(p.remote.sent, w) /\ w.target = t => LastAsked(q.remote.sent, w)
  BY <1>1, AskedKept
<1>6. \A scope, tok : Watch(t, scope, tok).target = t
  BY DEF Watch
<1> QED  BY <1>1, <1>2, <1>4, <1>5, <1>6 DEF Watching

LEMMA WatchingBegun ==
    ASSUME NEW q, NEW ms, NEW sv, NEW t, stream = "open", Begun(q, t)
    PROVE  Watching(q, ms, sv, t)
<1>1. /\ t # Query /\ q.remote.targets[t] = NoToken /\ t \in DOMAIN q.remote.states
      /\ LastAsked(q.remote.sent, Watch(t, {q.limbos.active[t].key}, NoToken))
  BY DEF Begun
<1>2. Asked(q.remote.sent, t)
  BY <1>1 DEF LastAsked, Asked, Watch
<1> QED  BY <1>1, <1>2 DEF Watching, About

LEMMA WatchingSpared ==
    ASSUME NEW p, NEW q, NEW ms, NEW sv, stream = "open",
           \A t \in DOMAIN p.remote.targets : Watching(p, ms, sv, t),
           Spared(q, p), q.remote.updated = p.remote.updated
    PROVE  \A t \in DOMAIN q.remote.targets : Watching(q, ms, sv, t)
<1> SUFFICES ASSUME NEW t \in DOMAIN q.remote.targets
             PROVE  Watching(q, ms, sv, t)
  OBVIOUS
<1>1. CASE TargetKept(q, p, t)
  <2>1. Watching(p, ms, sv, t) /\ Extends(q.remote.sent, p.remote.sent)
    BY <1>1 DEF TargetKept, Spared
  <2> QED  BY <1>1, <2>1, WatchingKept
<1>2. CASE Begun(q, t)
  BY <1>2, WatchingBegun
<1> QED  BY <1>1, <1>2 DEF Spared

LEMMA FittingSpared ==
    ASSUME NEW p, NEW q, NEW ms, NEW ks, Gathering(p.remote, ms), TakenBack(p.remote, ks),
           Receipts(p), Spared(q, p), q.remote.updated = p.remote.updated,
           QueryKept(q.remote, p.remote)
    PROVE  Gathering(q.remote, ms) /\ TakenBack(q.remote, ks) /\ Receipts(q)
<1>1. q.remote.gone = p.remote.gone /\ q.remote.resets = p.remote.resets
  BY DEF Spared, QueryKept
<1>2. Gathering(q.remote, ms)
  BY <1>1 DEF Gathering
<1>3. TakenBack(q.remote, ks)
  BY <1>1 DEF TakenBack, Spared, StateKept
<1>4. ASSUME NEW t \in DOMAIN q.remote.targets \ {Query},
             q.limbos.active[t].key \in KeysOf(UNION q.remote.targets[t])
      PROVE  q.limbos.active[t].received
  <2>1. ~Begun(q, t)
    BY <1>4 DEF Begun, NoToken, KeysOf
  <2>2. TargetKept(q, p, t)
    BY <2>1 DEF Spared
  <2> QED  BY <1>4, <2>2 DEF TargetKept, Receipts
<1> QED  BY <1>2, <1>3, <1>4 DEF Receipts

--------------------------------------------------------------------------------
(* The history *)

LEMMA HistoryOn ==
    ASSUME HistoryInv, docs' = docs, changes' = changes,
           Convex(UNION token', docs, responses'),
           NothingNew(UNION token', docs, responses', UNION token, docs, responses)
    PROVE  HistoryInv'
BY DEF HistoryInv, NothingNew

LEMMA DiskOn ==
    ASSUME DiskInv, docs' = docs, token' = token, synced' = synced, cache' = cache,
           NothingNew(UNION token', docs, responses', UNION token, docs, responses)
    PROVE  DiskInv'
<1> SUFFICES ASSUME NEW d \in UNION token', d[1] \in synced', d \notin cache',
                    NEW x \in Points(responses'), x # 0
             PROVE  d \notin At({}, docs', responses', x)
  BY DEF DiskInv
<1>1. PICK w \in Points(responses) :
        /\ At(UNION token', docs, responses', x) = At(UNION token, docs, responses, w)
        /\ w # 0
  BY DEF NothingNew
<1>2. d \notin At({}, docs, responses, w)
  BY <1>1 DEF DiskInv
<1> QED  BY <1>1, <1>2 DEF At

LEMMA NoMessages ==
    ASSUME NEW ms \in Seq(Messages), NEW first, NEW last
    PROVE  /\ Convex(first, last, <<>>)
           /\ NothingNew(first, last, <<>>, first, last, ms)
<1>1. Points(<<>>) = {0, 1}
  <2>1. Len(<<>>) = 0 /\ DOMAIN <<>> = {}
    OBVIOUS
  <2>2. Points(<<>>) = 0 .. 1
    BY <2>1 DEF Points
  <2> QED  BY <2>2
<1>2. At(first, last, <<>>, 0) = first /\ At(first, last, <<>>, 1) = last
  BY DEF At
<1>3. /\ 0 \in Points(ms) /\ Len(ms) + 1 \in Points(ms) /\ Len(ms) + 1 # 0
      /\ At(first, last, ms, 0) = first /\ At(first, last, ms, Len(ms) + 1) = last
  <2>1. Len(ms) \in Nat /\ DOMAIN ms = 1 .. Len(ms)
    OBVIOUS
  <2> QED  BY <2>1 DEF Points, At
<1>4. Convex(first, last, <<>>)
  BY <1>1 DEF Convex
<1>5. NothingNew(first, last, <<>>, first, last, ms)
  BY <1>1, <1>2, <1>3 DEF NothingNew
<1> QED  BY <1>4, <1>5

LEMMA Backing ==
    ASSUME IInv, BackedInv, ~denied
    PROVE  /\ KnownInv /\ WatchingInv /\ FittingInv /\ HistoryInv /\ TokenInv /\ DiskInv
           /\ SeenInv /\ LimboInv /\ PromptInv /\ ViewInv
           /\ Types /\ responses \in Seq(Messages) /\ remote \in Remotes /\ limbos \in Limbos
           /\ Counted(remote, responses) /\ Agree(remote, limbos, live)
           /\ RemoteSound(remote, responses, stream, denied)
           /\ Pair.remote = remote /\ Pair.limbos = limbos
BY Beginning, PairParts DEF BackedInv, Types, RemoteSound, Pair

--------------------------------------------------------------------------------
(* The client's operations keep the invariant *)

(* The stream is gone, and with it what was on its way and gathered.       *)
Bare(s) == s.gone = {} /\ s.resets = {}

LEMMA BareFacts ==
    ASSUME NEW r \in Remotes
    PROVE  /\ Bare(WithoutStream(r))
           /\ \A s \in Remotes : \A online : Bare(s) => Bare(UpdateState(s, online))
           /\ \A s \in Remotes : Bare(s) => /\ Bare(HandleWatchStreamStart(s))
                                            /\ Bare(HandleWatchStreamFailure(s))
<1>1. Bare(WithoutStream(r))
  BY DEF Bare, WithoutStream, Remotes
<1>2. ASSUME NEW s \in Remotes, NEW online, Bare(s)
      PROVE  Bare(UpdateState(s, online))
  BY <1>2 DEF Bare, UpdateState, Remotes
<1>3. ASSUME NEW s \in Remotes, Bare(s)
      PROVE  Bare(HandleWatchStreamStart(s))
  BY <1>3 DEF Bare, HandleWatchStreamStart, Remotes
<1>4. ASSUME NEW s \in Remotes, Bare(s)
      PROVE  Bare(HandleWatchStreamFailure(s))
  BY <1>4 DEF Bare, HandleWatchStreamFailure, Remotes
<1> QED  BY <1>1, <1>2, <1>3, <1>4

LEMMA StreamGoneBacked ==
    ASSUME IInv, BackedInv, NEW s, Stopped(s), Bare(s), s.targets = remote.targets, Broadcast(s),
           served' = NoTargets, responses' = <<>>,
           UNCHANGED <<docs, denied, changes, limbos, cache, synced, token, live, limbo, seen>>,
           stream' # "open"
    PROVE  BackedInv'
<1> SUFFICES ASSUME ~denied PROVE BackedInv'
  BY DEF BackedInv
<1>1. /\ KnownInv /\ WatchingInv /\ FittingInv /\ HistoryInv /\ TokenInv /\ DiskInv
      /\ SeenInv /\ LimboInv /\ PromptInv /\ ViewInv
      /\ responses \in Seq(Messages) /\ Pair.remote = remote /\ Pair.limbos = limbos
  BY Backing
<1>2. remote' = s /\ (current' => current)
  BY DEF Broadcast
<1>3. s.sent = <<>> /\ s.updated = {} /\ s.gone = {} /\ s.resets = {}
  BY DEF Stopped, Bare
<1>4. KnownInv'
  BY DEF KnownInv, NoTargets
<1>5. WatchingInv'
  BY DEF WatchingInv
<1>6. FittingInv'
  <2>1. Fitting(<<>>)
    BY DEF Fitting
  <2>2. Gathering(s, <<>>) /\ TakenBack(s, synced)
    BY <1>3 DEF Gathering, TakenBack
  <2>3. Receipts(Pair)'
    <3>1. Pair'.remote = s /\ Pair'.limbos = limbos
      BY <1>2, PairParts DEF Pair
    <3>2. Receipts(Pair)
      BY <1>1 DEF FittingInv
    <3>3. Receipts(Pair')
      BY <1>1, <3>1, <3>2 DEF Receipts
    <3> QED  BY <3>3
  <2> QED  BY <1>2, <2>1, <2>2, <2>3 DEF FittingInv
<1>7. HistoryInv' /\ DiskInv'
  <2>1. /\ Convex(UNION token, docs, <<>>)
        /\ NothingNew(UNION token, docs, <<>>, UNION token, docs, responses)
    BY <1>1, NoMessages
  <2> QED  BY <1>1, <2>1, HistoryOn, DiskOn
<1>8. TokenInv'
  BY <1>1, <1>2 DEF TokenInv
<1>9. SeenInv'
  BY <1>1 DEF SeenInv
<1>10. LimboInv' /\ ViewInv'
  BY <1>1, <1>2 DEF LimboInv, ViewInv
<1>11. PromptInv'
  BY <1>1, <1>2, <1>3 DEF PromptInv
<1> QED  BY <1>4, <1>5, <1>6, <1>7, <1>8, <1>9, <1>10, <1>11 DEF BackedInv

LEMMA OnWatchStreamCloseBacked ==
    ASSUME IInv, BackedInv, OnWatchStreamClose
    PROVE  BackedInv'
<1> DEFINE r == WithoutStream(remote)
           u == UpdateState(r, "Unknown")
           f == HandleWatchStreamFailure(r)
           s == HandleWatchStreamStart(f)
<1>1. /\ UNCHANGED <<docs, denied, changes, limbos, cache, synced, token, live, limbo, seen>>
      /\ served' = NoTargets /\ responses' = <<>>
      /\ \/ stream' = "off" /\ Broadcast(u)
         \/ stream' = "starting" /\ Broadcast(s)
  BY DEF OnWatchStreamClose, backend, disk
<1>2. /\ Stopped(r) /\ r.targets = remote.targets /\ Bare(r)
      /\ Stopped(u) /\ u.targets = remote.targets /\ Bare(u)
  <2>1. /\ Stopped(r) /\ r.targets = remote.targets
        /\ Stopped(u) /\ u.targets = remote.targets
    BY Beginning, StoppedFacts
  <2> QED  BY <2>1, Beginning, BareFacts DEF Stopped
<1> HIDE DEF r
<1>3. StoreSame(f, r) /\ Timer(f) /\ Bare(f)
  BY <1>2, HandleWatchStreamFailureFacts, BareFacts DEF Stopped
<1> HIDE DEF f
<1>4. StoreSame(s, f) /\ Timer(s) /\ Bare(s)
  BY <1>3, HandleWatchStreamStartFacts, BareFacts DEF StoreSame
<1> HIDE DEF u, s
<1>5. Stopped(s) /\ s.targets = remote.targets
  BY <1>2, <1>3, <1>4 DEF Stopped, StoreSame
<1>6. CASE stream' = "off" /\ Broadcast(u)
  BY <1>1, <1>2, <1>6, StreamGoneBacked
<1>7. CASE stream' = "starting" /\ Broadcast(s)
  BY <1>1, <1>4, <1>5, <1>7, StreamGoneBacked
<1> QED  BY <1>1, <1>6, <1>7

LEMMA IdleTimeoutBacked ==
    ASSUME IInv, BackedInv, IdleTimeout
    PROVE  BackedInv'
<1> DEFINE r == WithoutStream(remote)
           u == UpdateState(r, "Unknown")
<1>1. /\ UNCHANGED <<docs, denied, changes, limbos, cache, synced, token, live, limbo, seen>>
      /\ served' = NoTargets /\ responses' = <<>>
      /\ stream' = "off" /\ Broadcast(u)
  BY DEF IdleTimeout, backend, disk
<1>2. Stopped(u) /\ u.targets = remote.targets /\ Bare(u)
  <2>1. Stopped(r) /\ Stopped(u) /\ u.targets = remote.targets
    BY Beginning, StoppedFacts
  <2> QED  BY <2>1, Beginning, BareFacts DEF Stopped
<1> HIDE DEF u
<1> QED  BY <1>1, <1>2, StreamGoneBacked

LEMMA RestartNetworkBacked ==
    ASSUME IInv, BackedInv, RestartNetwork
    PROVE  BackedInv'
<1> DEFINE r == WithoutStream(remote)
           u == UpdateState(r, "Unknown")
           s == HandleWatchStreamStart(u)
<1>1. /\ UNCHANGED <<docs, denied, changes, limbos, cache, synced, token, live, limbo, seen>>
      /\ served' = NoTargets /\ responses' = <<>>
      /\ \/ stream' = "off" /\ Broadcast(u)
         \/ stream' = "starting" /\ Broadcast(s)
  BY DEF RestartNetwork, backend, disk
<1>2. Stopped(u) /\ u.targets = remote.targets /\ Bare(u)
  <2>1. Stopped(r) /\ Stopped(u) /\ u.targets = remote.targets
    BY Beginning, StoppedFacts
  <2> QED  BY <2>1, Beginning, BareFacts DEF Stopped
<1> HIDE DEF u
<1>3. StoreSame(s, u) /\ Timer(s) /\ Bare(s)
  BY <1>2, HandleWatchStreamStartFacts, BareFacts DEF Stopped
<1> HIDE DEF s
<1>4. Stopped(s) /\ s.targets = remote.targets
  BY <1>2, <1>3 DEF Stopped, StoreSame
<1>5. CASE stream' = "off" /\ Broadcast(u)
  BY <1>1, <1>2, <1>5, StreamGoneBacked
<1>6. CASE stream' = "starting" /\ Broadcast(s)
  BY <1>1, <1>3, <1>4, <1>6, StreamGoneBacked
<1> QED  BY <1>1, <1>5, <1>6

(* The remote store is left alone, but for its online state; the view may  *)
(* be current no more.                                                     *)
LEMMA UntouchedBacked ==
    ASSUME IInv, BackedInv, ~denied,
           UNCHANGED <<docs, denied, changes, served, responses, stream, limbos, cache, synced,
                       token, live, limbo, seen>>,
           NEW s, remote' = s, StoreSame(s, remote), s.gone = remote.gone,
           s.resets = remote.resets, current' => current
    PROVE  BackedInv'
<1>1. /\ KnownInv /\ WatchingInv /\ FittingInv /\ HistoryInv /\ TokenInv /\ DiskInv
      /\ SeenInv /\ LimboInv /\ PromptInv /\ ViewInv
      /\ Pair.remote = remote /\ Pair.limbos = limbos
  BY Backing
<1>2. /\ s.states = remote.states /\ s.sent = remote.sent /\ s.targets = remote.targets
      /\ s.updated = remote.updated /\ \A t : Ensure(s, t) = Ensure(remote, t)
  BY DEF StoreSame, Ensure
<1>3. Pair'.remote = s /\ Pair'.limbos = limbos
  BY PairParts DEF Pair
<1>4. KnownInv'
  BY <1>1 DEF KnownInv
<1>5. WatchingInv'
  <2>1. ASSUME stream = "open", NEW t \in DOMAIN s.targets
        PROVE  Watching(Pair', responses, served, t)
    <3>1. Watching(Pair, responses, served, t)
      BY <1>1, <1>2, <2>1 DEF WatchingInv
    <3>2. TargetKept(Pair', Pair, t)
      BY <1>1, <1>2, <1>3, <2>1 DEF TargetKept, StateKept
    <3>3. Extends(Pair'.remote.sent, Pair.remote.sent)
      BY <1>1, <1>2, <1>3 DEF Extends
    <3>4. Pair'.remote.updated = Pair.remote.updated
      BY <1>1, <1>2, <1>3
    <3> DEFINE p == Pair
               q == Pair'
    <3> HIDE DEF p, q
    <3>5. Watching(q, responses, served, t)
      BY <3>1, <3>2, <3>3, <3>4, WatchingKept DEF p, q
    <3> QED  BY <3>5 DEF q
  <2> QED  BY <2>1 DEF WatchingInv
<1>6. FittingInv'
  <2>1. Gathering(s, responses) /\ TakenBack(s, synced)
    BY <1>1, <1>2 DEF FittingInv, Gathering, TakenBack
  <2>2. Receipts(Pair')
    BY <1>1, <1>2, <1>3 DEF FittingInv, Receipts
  <2> QED  BY <1>1, <2>1, <2>2 DEF FittingInv
<1>7. HistoryInv' /\ DiskInv'
  BY <1>1 DEF HistoryInv, DiskInv
<1>8. TokenInv' /\ SeenInv' /\ PromptInv'
  BY <1>1, <1>2 DEF TokenInv, SeenInv, PromptInv
<1>9. LimboInv' /\ ViewInv'
  BY <1>1 DEF LimboInv, ViewInv
<1> QED  BY <1>4, <1>5, <1>6, <1>7, <1>8, <1>9 DEF BackedInv

LEMMA LaterCallBacked ==
    ASSUME IInv, BackedInv, NEW c \in Calls, LaterCall(c)
    PROVE  BackedInv'
<1> SUFFICES ASSUME ~denied PROVE BackedInv'
  BY DEF BackedInv, LaterCall, backend
<1>1. /\ UNCHANGED <<docs, denied, changes, served, responses, stream, limbos, cache, synced,
                     token, live, limbo, seen>>
      /\ remote' = remote /\ current' = current
  BY DEF LaterCall, backend, disk, view
<1>2. StoreSame(remote, remote)
  BY Beginning DEF StoreSame
<1> QED  BY <1>1, <1>2, UntouchedBacked

LEMMA StutterBacked ==
    ASSUME IInv, BackedInv, UNCHANGED vars
    PROVE  BackedInv'
<1> SUFFICES ASSUME ~denied PROVE BackedInv'
  BY DEF BackedInv, vars, backend
<1>1. /\ UNCHANGED <<docs, denied, changes, served, responses, stream, limbos, cache, synced,
                     token, live, limbo, seen>>
      /\ remote' = remote /\ current' = current
  BY DEF vars, backend, disk, view
<1>2. StoreSame(remote, remote)
  BY Beginning DEF StoreSame
<1> QED  BY <1>1, <1>2, UntouchedBacked

LEMMA OnlineStateTimeoutBacked ==
    ASSUME IInv, BackedInv, OnlineStateTimeout
    PROVE  BackedInv'
<1> SUFFICES ASSUME ~denied PROVE BackedInv'
  BY DEF BackedInv, OnlineStateTimeout, backend
<1> DEFINE s == [remote EXCEPT !.timer = FALSE, !.online = "Offline"]
<1>1. /\ UNCHANGED <<docs, denied, changes, served, responses, stream, limbos, cache, synced,
                     token, live, limbo, seen>>
      /\ remote' = s /\ (current' => current)
  BY DEF OnlineStateTimeout, Broadcast, backend, disk
<1>2. StoreSame(s, remote) /\ s.gone = remote.gone /\ s.resets = remote.resets
  BY Beginning DEF StoreSame, Remotes, Onlines
<1> HIDE DEF s
<1> QED  BY <1>1, <1>2, UntouchedBacked

LEMMA DieBacked ==
    ASSUME IInv, BackedInv, Die
    PROVE  BackedInv'
<1> SUFFICES ASSUME ~denied PROVE BackedInv'
  BY DEF BackedInv, Die, backend
<1> DEFINE none == NoTargets
           w == WithoutStream(remote)
           u == UpdateState(w, "Unknown")
           s == [u EXCEPT !.targets = none]
<1>1. /\ UNCHANGED <<docs, denied, changes, cache, synced, token>>
      /\ served' = NoTargets /\ responses' = <<>> /\ stream' = "off" /\ remote' = s
      /\ live' = FALSE
  BY DEF Die, backend, disk
<1>2. /\ HistoryInv /\ DiskInv /\ responses \in Seq(Messages)
      /\ Timer(remote) /\ remote \in Remotes
  BY Backing, Beginning
<1>3. Stopped(u) /\ Bare(u)
  <2>1. Stopped(w) /\ Stopped(u)
    BY <1>2, StoppedFacts
  <2> QED  BY <1>2, <2>1, BareFacts DEF Stopped
<1>4. none \in Tables(Tokens) /\ DOMAIN none = {}
  BY EmptyTable
<1> HIDE DEF none, u
<1>5. /\ s.targets = none /\ s.updated = {} /\ s.gone = {} /\ s.resets = {}
  BY <1>3, <1>4 DEF Stopped, Bare, Remotes
<1> HIDE DEF s
<1>6. KnownInv' /\ WatchingInv'
  BY <1>1 DEF KnownInv, NoTargets, WatchingInv
<1>7. FittingInv'
  <2>1. Fitting(<<>>)
    BY DEF Fitting
  <2>2. Gathering(s, <<>>) /\ TakenBack(s, synced)
    BY <1>5 DEF Gathering, TakenBack
  <2>3. Receipts(Pair')
    <3>1. Pair'.remote = s
      BY <1>1, PairParts DEF Pair
    <3> QED  BY <1>4, <1>5, <3>1 DEF Receipts
  <2> QED  BY <1>1, <2>1, <2>2, <2>3 DEF FittingInv
<1>8. HistoryInv' /\ DiskInv'
  <2>1. /\ Convex(UNION token, docs, <<>>)
        /\ NothingNew(UNION token, docs, <<>>, UNION token, docs, responses)
    BY <1>2, NoMessages
  <2> QED  BY <1>1, <1>2, <2>1, HistoryOn, DiskOn
<1>9. TokenInv' /\ SeenInv' /\ LimboInv' /\ PromptInv' /\ ViewInv'
  BY <1>1 DEF TokenInv, SeenInv, LimboInv, PromptInv, ViewInv
<1> QED  BY <1>6, <1>7, <1>8, <1>9 DEF BackedInv

(* A document that another phone writes is a new one.                      *)
LEMMA ChangeBacked ==
    ASSUME IInv, BackedInv, NEW k \in Keys, Change(k)
    PROVE  BackedInv'
<1> SUFFICES ASSUME ~denied PROVE BackedInv'
  BY DEF BackedInv, Change
<1>1. /\ UNCHANGED <<denied, served, responses, stream, remote, limbos, cache, synced, token,
                     live, current, limbo>>
      /\ changes' = changes + 1
      /\ \/ docs' = Without(docs, {k}) \cup {<<k, changes'>>}
         \/ docs' = Without(docs, {k})
      /\ seen' = IF live THEN seen \cup {docs'} ELSE seen
  BY DEF Change, disk
<1>2. /\ KnownInv /\ WatchingInv /\ FittingInv /\ HistoryInv /\ TokenInv /\ DiskInv
      /\ SeenInv /\ LimboInv /\ PromptInv /\ ViewInv
      /\ responses \in Seq(Messages) /\ changes \in Nat
  BY Backing DEF Types
<1>3. /\ Len(responses) \in Nat /\ DOMAIN responses = 1 .. Len(responses)
      /\ \A x \in Points(responses) : x \in Nat /\ x <= Len(responses) + 1
  <2>1. Len(responses) \in Nat /\ DOMAIN responses = 1 .. Len(responses)
    BY <1>2
  <2> QED  BY <2>1 DEF Points
<1>4. Types /\ Types'
  BY Beginning, ChangeKeeps DEF IInv
<1> DEFINE n == Len(responses) + 1
           first == UNION token
<1>5. /\ n \in Points(responses) /\ n # 0 /\ n \in Nat
      /\ \A f, l : At(f, l, responses, n) = l
      /\ \A x \in Points(responses) : x # n =>
           \A f, l, m : At(f, l, responses, x) = At(f, m, responses, x)
  BY <1>3 DEF Points, At
<1>6. \A d \in docs' : d \in docs \/ d[2] = changes + 1
  BY <1>1 DEF Without
<1>7. \A x \in Points(responses) : \A d \in At(first, docs, responses, x) :
        d[2] <= changes
  BY <1>2 DEF HistoryInv
<1>8. 0 \in Points(responses) /\ \A f, l : At(f, l, responses, 0) = f
  BY <1>3 DEF Points, At
<1>9. HistoryInv'
  <2> HIDE DEF n, first
  <2>1. ASSUME NEW x \in Points(responses), NEW y \in Points(responses),
               NEW z \in Points(responses), x < y, y < z,
               NEW d \in At(first, docs', responses, x) \cap At(first, docs', responses, z)
        PROVE  d \in At(first, docs', responses, y)
    <3>1. x # n /\ y # n
      BY <1>3, <2>1 DEF n
    <3>2. d \in At(first, docs, responses, x) /\ d[2] <= changes
      BY <1>5, <1>7, <2>1, <3>1
    <3>3. d \in At(first, docs, responses, z)
      <4>1. CASE z # n
        BY <1>5, <2>1, <4>1
      <4>2. CASE z = n
        <5>1. d \in docs'
          BY <1>5, <2>1, <4>2
        <5>2. d[2] # changes + 1
          <6>1. \A d2 \in {d[2]} : d2 <= changes /\ d2 = changes + 1 => FALSE
            BY <1>2
          <6> QED  BY <3>2, <6>1
        <5> QED  BY <1>5, <1>6, <4>2, <5>1, <5>2
      <4> QED  BY <4>1, <4>2
    <3>4. d \in At(first, docs, responses, y)
      BY <1>2, <2>1, <3>2, <3>3 DEF HistoryInv, Convex, first
    <3> QED  BY <1>5, <3>1, <3>4
  <2>2. ASSUME NEW x \in Points(responses), NEW d \in At(first, docs', responses, x)
        PROVE  d[2] <= changes + 1
    <3>1. d \in At(first, docs, responses, x) \/ d \in docs'
      BY <1>5, <2>2
    <3>2. d[2] <= changes \/ d[2] = changes + 1
      BY <1>5, <1>6, <1>7, <2>2, <3>1
    <3>3. d[2] \in Nat
      <4>1. first \in Collections /\ docs' \in Collections
        BY <1>4, TokenIsCollection DEF Types, first
      <4>2. At(first, docs', responses, x) \in Collections
        BY <1>2, <4>1, AtType
      <4> QED  BY <2>2, <4>2 DEF Collections, Documents
    <3> QED  BY <1>2, <3>2, <3>3
  <2>3. Convex(first, docs', responses)
    BY <2>1 DEF Convex
  <2> QED  BY <1>1, <2>2, <2>3 DEF HistoryInv, first
<1>10. DiskInv'
  <2> SUFFICES ASSUME NEW d \in UNION token, d[1] \in synced, d \notin cache,
                      NEW x \in Points(responses), x # 0
               PROVE  d \notin At({}, docs', responses, x)
    BY <1>1 DEF DiskInv
  <2> HIDE DEF n
  <2>1. \A w \in Points(responses) : w # 0 => d \notin At({}, docs, responses, w)
    BY <1>2 DEF DiskInv
  <2>2. CASE x # n
    BY <1>5, <2>1, <2>2
  <2>3. CASE x = n
    <3>1. d \notin docs
      BY <1>5, <2>1
    <3>2. d[2] <= changes
      BY <1>7, <1>8 DEF first
    <3>3. d[2] # changes + 1
      BY <1>2, <3>2
    <3> QED  BY <1>5, <1>6, <2>3, <3>1, <3>3
  <2> QED  BY <2>2, <2>3
<1>11. KnownInv' /\ WatchingInv' /\ FittingInv'
  <2>1. Pair' = Pair
    BY <1>1 DEF Pair
  <2> QED  BY <1>1, <1>2, <2>1 DEF KnownInv, WatchingInv, FittingInv
<1>12. TokenInv' /\ SeenInv' /\ LimboInv' /\ PromptInv' /\ ViewInv'
  <2>1. TokenInv' /\ LimboInv' /\ PromptInv'
    BY <1>1, <1>2 DEF TokenInv, LimboInv, PromptInv
  <2>2. live => seen' = seen \cup {docs'}
    BY <1>1
  <2>3. SeenInv' /\ ViewInv'
    BY <1>1, <1>2, <2>2 DEF SeenInv, ViewInv
  <2> QED  BY <2>1, <2>3
<1> QED  BY <1>9, <1>10, <1>11, <1>12 DEF BackedInv

LEMMA DenyBacked ==
    ASSUME Deny
    PROVE  BackedInv'
BY DEF Deny, BackedInv

LEMMA InitBacked == Init => BackedInv
<1> SUFFICES ASSUME Init PROVE BackedInv
  OBVIOUS
<1>1. /\ docs = {} /\ served = NoTargets /\ responses = <<>> /\ stream = "off" /\ changes = 0
      /\ cache = {} /\ synced = {} /\ token = NoToken /\ live = FALSE
      /\ remote.targets = NoTargets /\ remote.updated = {} /\ remote.gone = {}
      /\ remote.resets = {}
  BY DEF Init
<1>2. KnownInv /\ WatchingInv
  BY <1>1 DEF KnownInv, NoTargets, WatchingInv
<1>3. FittingInv
  <2>1. Pair.remote = remote
    BY PairParts DEF Pair
  <2> QED  BY <1>1, <2>1, EmptyTable DEF FittingInv, Fitting, Gathering, TakenBack, Receipts
<1>4. HistoryInv /\ DiskInv
  <2>1. Convex(UNION token, docs, responses)
    <3>1. <<>> \in Seq(Messages)
      OBVIOUS
    <3>2. Convex(UNION token, docs, <<>>)
      BY <3>1, NoMessages
    <3> QED  BY <1>1, <3>2
  <2>2. \A x : At(UNION token, docs, responses, x) = {}
    BY <1>1 DEF At, NoToken
  <2> QED  BY <1>1, <2>1, <2>2 DEF HistoryInv, DiskInv
<1>5. TokenInv /\ SeenInv /\ LimboInv /\ PromptInv /\ ViewInv
  BY <1>1 DEF TokenInv, SeenInv, LimboInv, PromptInv, ViewInv
<1> QED  BY <1>2, <1>3, <1>4, <1>5 DEF BackedInv

LEMMA RemoveQueryListenerBacked ==
    ASSUME IInv, BackedInv, NEW c \in Calls, RemoveQueryListener(c)
    PROVE  BackedInv'
<1> SUFFICES ASSUME ~denied PROVE BackedInv'
  BY DEF BackedInv, RemoveQueryListener, backend
<1>1. UNCHANGED <<docs, denied, changes, served, responses, stream, cache, synced, token>>
  BY DEF RemoveQueryListener, backend, disk
<1>2. CASE \E d \in Calls \ {c} : IsListening(d)
  <2>1. remote' = remote /\ UNCHANGED <<limbos, live, current, limbo, seen>>
    BY <1>2 DEF RemoveQueryListener, view
  <2>2. StoreSame(remote, remote)
    BY Beginning DEF StoreSame
  <2> QED  BY <1>1, <2>1, <2>2, UntouchedBacked
<1>3. CASE ~ \E d \in Calls \ {c} : IsListening(d)
  <2> DEFINE r == StopListening(remote, Query)
             q == [remote |-> r, limbos |-> limbos]
             p == Pair
             next == Pair'
  <2>1. RemoveAndCleanupTarget(r)
    BY <1>3 DEF RemoveQueryListener
  <2>2. /\ KnownInv /\ WatchingInv /\ FittingInv /\ HistoryInv /\ DiskInv
        /\ Types /\ responses \in Seq(Messages) /\ remote \in Remotes /\ limbos \in Limbos
        /\ Agree(remote, limbos, live) /\ RemoteSound(remote, responses, stream, denied)
        /\ p.remote = remote /\ p.limbos = limbos
        /\ Query \in Nat
    BY Backing DEF Query
  <2>3. /\ RemoteSound(r, responses, stream, denied)
        /\ DOMAIN r.targets = DOMAIN remote.targets \ {Query} /\ r.updated = remote.updated
    BY <2>2, StopListeningFacts, StopListeningSound
  <2>4. /\ \A t \in DOMAIN remote.targets \ {Query} : r.targets[t] = remote.targets[t]
        /\ GatheringKept(r, remote, Query)
        /\ IF stream = "open"
           THEN /\ r.sent = Append(remote.sent, Unwatch(Query))
                /\ DOMAIN r.states = DOMAIN remote.states \cup {Query}
           ELSE r.sent = remote.sent /\ r.states = remote.states
    BY <2>2, StopListeningDetails
  <2> HIDE DEF r
  <2>5. Agree(r, limbos, FALSE)
    BY <2>2, <2>3 DEF Agree
  <2>6. /\ live' = FALSE /\ current' = FALSE /\ limbo' = {}
        /\ remote'.updated = r.updated /\ QueryKept(remote', r) /\ Spared(next, q)
    BY <2>1, <2>2, <2>3, <2>5, RemoveAndCleanupTargetSound
  <2>7. next.remote = remote' /\ next.limbos = limbos' /\ q.remote = r /\ q.limbos = limbos
    BY PairParts DEF Pair
  <2>8. /\ Extends(r.sent, remote.sent)
        /\ \A i \in DOMAIN r.sent \ DOMAIN remote.sent : r.sent[i].target = Query
    <3>1. remote.sent \in Seq(Requests)
      BY <2>2 DEF Remotes
    <3>2. Unwatch(Query) \in Requests /\ Unwatch(Query).target = Query
      BY <2>2 DEF Unwatch, Requests
    <3>3. CASE stream = "open"
      <4>1. r.sent = Append(remote.sent, Unwatch(Query))
        BY <2>4, <3>3
      <4>2. /\ Extends(Append(remote.sent, Unwatch(Query)), remote.sent)
            /\ \A i \in DOMAIN Append(remote.sent, Unwatch(Query)) \ DOMAIN remote.sent :
                 Append(remote.sent, Unwatch(Query))[i] = Unwatch(Query)
        BY <3>1, <3>2, ExtendsAppend
      <4> QED  BY <3>2, <4>1, <4>2
    <3>4. CASE stream # "open"
      BY <2>4, <3>4 DEF Extends
    <3> QED  BY <3>3, <3>4
  <2> HIDE DEF p, q, next
  <2>9. \A t \in DOMAIN r.targets : t # Query /\ t \in DOMAIN p.remote.targets /\ t \in Nat
    <3>1. DOMAIN remote.targets \subseteq Nat
      BY <2>2, TableFacts DEF Remotes
    <3> QED  BY <2>2, <2>3, <3>1
  <2>10. ASSUME NEW t \in DOMAIN r.targets
         PROVE  TargetKept(q, p, t)
    <3>1. Ensure(r, t) = Ensure(remote, t)
      BY <2>4, <2>9 DEF GatheringKept
    <3>2. t \in DOMAIN remote.states => t \in DOMAIN r.states
      BY <2>4
    <3>3. StateKept(r, remote, t)
      BY <2>8, <2>9, <3>1, <3>2 DEF StateKept
    <3> QED  BY <2>2, <2>3, <2>4, <2>7, <2>9, <3>3 DEF TargetKept
  <2>11. WatchingInv'
    <3> SUFFICES ASSUME stream = "open" PROVE WatchingInv'
      BY <1>1 DEF WatchingInv
    <3>1. ASSUME NEW t \in DOMAIN q.remote.targets
          PROVE  Watching(q, responses, served, t)
      <4>1. Watching(p, responses, served, t)
        BY <2>2, <2>7, <2>9, <3>1 DEF WatchingInv, p
      <4> QED  BY <2>2, <2>3, <2>7, <2>8, <2>10, <3>1, <4>1, WatchingKept
    <3>2. next.remote.updated = q.remote.updated
      BY <2>6, <2>7
    <3>3. \A t \in DOMAIN next.remote.targets : Watching(next, responses, served, t)
      BY <2>6, <3>1, <3>2, WatchingSpared
    <3> QED  BY <1>1, <2>7, <3>3 DEF WatchingInv, next
  <2>12. FittingInv'
    <3>1. Gathering(q.remote, responses)
      BY <2>2, <2>4, <2>7 DEF GatheringKept, FittingInv, Gathering
    <3>2. TakenBack(q.remote, synced)
      BY <2>2, <2>4, <2>7 DEF GatheringKept, FittingInv, TakenBack
    <3>3. Receipts(q)
      <4>1. \A t \in DOMAIN q.remote.targets \ {Query} :
              /\ t \in DOMAIN p.remote.targets /\ q.remote.targets[t] = p.remote.targets[t]
              /\ q.limbos = p.limbos
        BY <2>2, <2>3, <2>4, <2>7, <2>9
      <4>2. Receipts(p)
        BY <2>2 DEF FittingInv, p
      <4> QED  BY <4>1, <4>2 DEF Receipts
    <3>4. next.remote.updated = q.remote.updated /\ QueryKept(next.remote, q.remote)
      BY <2>6, <2>7
    <3>5. /\ Gathering(next.remote, responses) /\ TakenBack(next.remote, synced)
          /\ Receipts(next)
      BY <2>6, <3>1, <3>2, <3>3, <3>4, FittingSpared
    <3> QED  BY <1>1, <2>2, <2>7, <3>5 DEF FittingInv, next
  <2>13. KnownInv' /\ HistoryInv' /\ DiskInv'
    BY <1>1, <2>2 DEF KnownInv, HistoryInv, DiskInv
  <2>14. TokenInv' /\ SeenInv' /\ LimboInv' /\ PromptInv' /\ ViewInv'
    BY <2>6 DEF TokenInv, SeenInv, LimboInv, PromptInv, ViewInv
  <2> QED  BY <2>11, <2>12, <2>13, <2>14 DEF BackedInv
<1> QED  BY <1>2, <1>3

LEMMA FirstCallBacked ==
    ASSUME IInv, BackedInv, NEW c \in Calls, FirstCall(c)
    PROVE  BackedInv'
<1> SUFFICES ASSUME ~denied PROVE BackedInv'
  BY DEF BackedInv, FirstCall, backend
<1> DEFINE r == Listen(remote, Query, Keys, token)
           s == HandleWatchStreamStart(r)
           p == Pair
           q == Pair'
<1>1. /\ KnownInv /\ WatchingInv /\ FittingInv /\ HistoryInv /\ DiskInv
      /\ Types /\ responses \in Seq(Messages) /\ remote \in Remotes /\ limbos \in Limbos
      /\ Agree(remote, limbos, live) /\ RemoteSound(remote, responses, stream, denied)
      /\ p.remote = remote /\ p.limbos = limbos
      /\ StreamInv /\ ~live
  BY Backing, Beginning DEF FirstCall
<1>2. /\ live' = TRUE /\ current' = FALSE /\ seen' = {docs}
      /\ UNCHANGED <<docs, denied, changes, served, responses, limbos, cache, synced, token>>
      /\ \/ stream = "off" /\ stream' = "starting" /\ remote' = s
         \/ stream # "off" /\ stream' = stream /\ remote' = r
  BY DEF FirstCall, backend, disk
<1>3. Query \in Nat /\ Keys \in SUBSET Keys /\ token \in Tokens
  BY <1>1 DEF Types, Query
<1>4. /\ RemoteSound(r, responses, stream, denied)
      /\ DOMAIN r.targets = DOMAIN remote.targets \cup {Query}
      /\ Listened(r, remote, Query, Keys, token)
  BY <1>1, <1>3, ListenFacts, ListenSound, ListenDetails
<1> HIDE DEF r
<1>5. StoreSame(s, r) /\ s.gone = r.gone /\ s.resets = r.resets
  BY <1>4, HandleWatchStreamStartFacts DEF RemoteSound, Tracker, HandleWatchStreamStart, Remotes
<1> HIDE DEF s
<1>6. /\ remote'.targets = r.targets /\ remote'.states = r.states /\ remote'.sent = r.sent
      /\ remote'.updated = r.updated /\ remote'.gone = r.gone /\ remote'.resets = r.resets
      /\ \A t : Ensure(remote', t) = Ensure(r, t)
  BY <1>2, <1>5 DEF StoreSame, Ensure
<1>7. q.remote = remote' /\ q.limbos = limbos
  BY <1>2, PairParts DEF Pair
<1>8. /\ r.targets[Query] = token
      /\ \A t \in DOMAIN remote.targets : t # Query /\ t \in Nat /\ r.targets[t] = remote.targets[t]
      /\ GatheringKept(r, remote, Query)
  <2>1. Query \notin DOMAIN remote.targets
    BY <1>1 DEF Agree
  <2>2. DOMAIN remote.targets \subseteq Nat
    BY <1>1, TableFacts DEF Remotes
  <2> QED  BY <1>4, <2>1, <2>2 DEF Listened
<1>9. ASSUME stream = "open" PROVE WatchingInv' /\ SeenInv'
  <2>1. /\ r.sent = Append(remote.sent, Watch(Query, Keys, token))
        /\ DOMAIN r.states = DOMAIN remote.states \cup {Query}
    BY <1>4, <1>9 DEF Listened
  <2>2. /\ Watch(Query, Keys, token) \in Requests /\ Watch(Query, Keys, token).target = Query
        /\ remote.sent \in Seq(Requests)
    BY <1>1, <1>3, RequestTypes DEF Remotes
  <2>3. /\ Extends(r.sent, remote.sent)
        /\ \A i \in DOMAIN r.sent \ DOMAIN remote.sent : r.sent[i].target = Query
        /\ LastAsked(r.sent, Watch(Query, Keys, token))
    <3>1. /\ Extends(Append(remote.sent, Watch(Query, Keys, token)), remote.sent)
          /\ \A i \in DOMAIN Append(remote.sent, Watch(Query, Keys, token)) \ DOMAIN remote.sent :
               Append(remote.sent, Watch(Query, Keys, token))[i] = Watch(Query, Keys, token)
          /\ LastAsked(Append(remote.sent, Watch(Query, Keys, token)), Watch(Query, Keys, token))
      BY <2>2, ExtendsAppend
    <3> QED  BY <2>1, <2>2, <3>1
  <2>4. Asked(r.sent, Query)
    BY <2>2, <2>3 DEF LastAsked, Asked
  <2> HIDE DEF p, q
  <2>5. ASSUME NEW t \in DOMAIN remote.targets
        PROVE  Watching(q, responses, served, t)
    <3>1. Ensure(r, t) = Ensure(remote, t)
      BY <1>8, <2>5 DEF GatheringKept
    <3>2. StateKept(r, remote, t)
      BY <1>8, <2>1, <2>3, <2>5, <3>1 DEF StateKept
    <3>3. StateKept(remote', remote, t)
      BY <1>6, <3>2 DEF StateKept
    <3>4. TargetKept(q, p, t)
      BY <1>1, <1>6, <1>7, <1>8, <2>5, <3>3 DEF TargetKept
    <3>5. Watching(p, responses, served, t)
      BY <1>1, <1>9, <2>5 DEF WatchingInv, p
    <3>6. q.remote.updated = p.remote.updated
      BY <1>1, <1>6, <1>7, <1>8 DEF GatheringKept
    <3> QED  BY <1>1, <1>6, <1>7, <2>3, <3>4, <3>5, <3>6, WatchingKept
  <2>6. Watching(q, responses, served, Query)
    BY <1>6, <1>7, <1>8, <2>1, <2>3, <2>4 DEF Watching, About
  <2>7. WatchingInv'
    BY <1>2, <1>4, <1>6, <2>5, <2>6 DEF WatchingInv, q
  <2>8. SeenInv'
    BY <1>2, <1>6, <2>4 DEF SeenInv
  <2> QED  BY <2>7, <2>8
<1>10. ASSUME stream # "open" PROVE WatchingInv' /\ SeenInv'
  <2>1. stream' # "open" /\ responses' = <<>>
    BY <1>1, <1>2, <1>10 DEF StreamInv
  <2>2. SeenInv'
    BY <1>2, <2>1 DEF SeenInv
  <2> QED  BY <2>1, <2>2 DEF WatchingInv
<1>11. WatchingInv' /\ SeenInv'
  BY <1>9, <1>10
<1>12. FittingInv'
  <2> HIDE DEF p, q
  <2>1. Gathering(remote', responses)
    BY <1>1, <1>6, <1>8 DEF GatheringKept, FittingInv, Gathering
  <2>2. TakenBack(remote', synced)
    BY <1>1, <1>6, <1>8 DEF GatheringKept, FittingInv, TakenBack
  <2>3. Receipts(q)
    <3>1. \A t \in DOMAIN q.remote.targets \ {Query} :
            /\ t \in DOMAIN p.remote.targets /\ q.remote.targets[t] = p.remote.targets[t]
            /\ q.limbos = p.limbos
      BY <1>1, <1>4, <1>6, <1>7, <1>8
    <3>2. Receipts(p)
      BY <1>1 DEF FittingInv, p
    <3> QED  BY <3>1, <3>2 DEF Receipts
  <2> QED  BY <1>1, <1>2, <2>1, <2>2, <2>3 DEF FittingInv, q
<1>13. KnownInv' /\ HistoryInv' /\ DiskInv'
  BY <1>1, <1>2 DEF KnownInv, HistoryInv, DiskInv
<1>14. TokenInv' /\ LimboInv' /\ PromptInv' /\ ViewInv'
  BY <1>2, <1>6, <1>8 DEF TokenInv, LimboInv, PromptInv, ViewInv
<1> QED  BY <1>11, <1>12, <1>13, <1>14 DEF BackedInv

(* All targets are watched, the collection first, and each once.           *)
Requested(q, r, t) ==
    t \in DOMAIN q.states /\ LastAsked(q.sent, Watch(t, Scope(t), r.targets[t]))

QueryFirst(sent) == \A i \in DOMAIN sent : sent[i].target = Query => i = 1

LEMMA WatchOneDetails ==
    ASSUME NEW r \in Remotes, limbos \in Limbos,
           NEW t \in DOMAIN r.targets \cap (DOMAIN limbos.active \cup {Query}),
           NEW q \in Remotes, RestSame(q, r)
    PROVE  LET w == WatchOne(q, t) IN
           /\ w \in Remotes /\ RestSame(w, r) /\ Requested(w, r, t)
           /\ \A u \in Nat \ {t} : Requested(q, r, u) => Requested(w, r, u)
           /\ QueryFirst(q.sent) /\ (t = Query => q.sent = <<>>) => QueryFirst(w.sent)
<1> DEFINE request == Watch(t, Scope(t), q.targets[t])
           w == Send(q, t, request)
<1>1. WatchOne(q, t) = w /\ q.targets = r.targets
  BY DEF WatchOne, RestSame
<1>2. t \in Nat /\ Scope(t) \in SUBSET Keys /\ q.targets[t] \in Tokens
  <2>1. t \in Nat /\ Scope(t) \in SUBSET Keys
    BY ScopeType
  <2>2. r.targets \in Tables(Tokens)
    BY DEF Remotes
  <2>3. r.targets[t] \in Tokens
    BY <2>2, TableFacts
  <2> QED  BY <1>1, <2>1, <2>3
<1>3. request \in Requests /\ request.target = t /\ request = Watch(t, Scope(t), r.targets[t])
  BY <1>1, <1>2, RequestTypes
<1> HIDE DEF request
<1>4. w \in Remotes /\ w.sent = Append(q.sent, request) /\ RestSame(w, q)
  BY <1>2, <1>3, SendFacts
<1>5. DOMAIN w.states = DOMAIN q.states \cup {t}
  BY <1>2, <1>3, SendDetails
<1>6. q.sent \in Seq(Requests)
  BY DEF Remotes
<1> DEFINE more == Append(q.sent, request)
<1>7. /\ Extends(more, q.sent) /\ LastAsked(more, request)
      /\ \A i \in DOMAIN more \ DOMAIN q.sent : more[i] = request
  BY <1>3, <1>6, ExtendsAppend
<1>8. q.sent = <<>> => DOMAIN more = {1}
  BY <1>3
<1> HIDE DEF w, more
<1>9. w.sent = more
  BY <1>4 DEF more
<1>10. RestSame(w, r)
  BY <1>4 DEF RestSame
<1>11. Requested(w, r, t)
  BY <1>3, <1>5, <1>7, <1>9 DEF Requested
<1>12. ASSUME NEW u \in Nat \ {t}, Requested(q, r, u)
       PROVE  Requested(w, r, u)
  <2> DEFINE other == Watch(u, Scope(u), r.targets[u])
  <2>1. LastAsked(q.sent, other) /\ other.target = u /\ u \in DOMAIN q.states
    BY <1>12 DEF Requested, Watch
  <2> HIDE DEF other
  <2>2. \A i \in DOMAIN more \ DOMAIN q.sent : more[i].target # other.target
    BY <1>3, <1>7, <2>1
  <2>3. LastAsked(more, other)
    BY <1>7, <2>1, <2>2, LastAskedOn
  <2> QED  BY <1>5, <1>9, <2>1, <2>3 DEF Requested, other
<1>13. ASSUME QueryFirst(q.sent), t = Query => q.sent = <<>>
       PROVE  QueryFirst(more)
  <2> SUFFICES ASSUME NEW i \in DOMAIN more, more[i].target = Query
               PROVE  i = 1
    BY DEF QueryFirst
  <2>1. CASE i \in DOMAIN q.sent
    BY <1>7, <1>13, <2>1 DEF QueryFirst, Extends
  <2>2. CASE i \notin DOMAIN q.sent
    <3>1. t = Query
      BY <1>3, <1>7, <2>2
    <3> QED  BY <1>8, <1>13, <3>1
  <2> QED  BY <2>1, <2>2
<1> QED  BY <1>1, <1>4, <1>9, <1>10, <1>11, <1>12, <1>13

LEMMA WatchAllDetails ==
    ASSUME NEW r \in Remotes, limbos \in Limbos, r.sent = <<>>,
           DOMAIN r.targets \subseteq DOMAIN limbos.active \cup {Query}
    PROVE  /\ RestSame(WatchAll(r), r)
           /\ \A t \in DOMAIN r.targets : Requested(WatchAll(r), r, t)
           /\ QueryFirst(WatchAll(r).sent)
<1> DEFINE K == DOMAIN r.targets
           ids == Ascending(K)
           size == Len(ids)
           U == {q \in Remotes : RestSame(q, r)}
           F == [x \in U \X K |-> WatchOne(x[1], x[2])]
           Is(h) == h = [s \in SUBSET DOMAIN ids |->
                           IF s = {} THEN r ELSE WatchOne(h[s \ {Max(s)}], ids[Max(s)])]
           fold == CHOOSE h : Is(h)
<1>1. WatchAll(r) = fold[DOMAIN ids]
  BY DEF WatchAll, FoldLeft, MapThenFoldSet, WatchOne
<1>2. r.targets \in Tables(Tokens) /\ IsFiniteSet(K) /\ K \subseteq Nat
  <2>1. r.targets \in Tables(Tokens)
    BY DEF Remotes
  <2> QED  BY <2>1, TableFacts
<1>3. /\ ids \in Seq(K) /\ \A k \in K : \E i \in DOMAIN ids : ids[i] = k
      /\ \A i, j \in DOMAIN ids : ids[i] = ids[j] => i = j
      /\ \A i \in DOMAIN ids : ids[i] = 0 => i = 1
  <2> HIDE DEF K
  <2> QED  BY <1>2, AscendingFacts
<1>4. r \in U
  BY DEF RestSame
<1>5. ASSUME NEW q \in U, NEW t \in K
      PROVE  /\ WatchOne(q, t) \in U /\ Requested(WatchOne(q, t), r, t)
             /\ \A u \in Nat \ {t} : Requested(q, r, u) => Requested(WatchOne(q, t), r, u)
             /\ QueryFirst(q.sent) /\ (t = Query => q.sent = <<>>)
                  => QueryFirst(WatchOne(q, t).sent)
  <2>1. /\ q \in Remotes /\ RestSame(q, r)
        /\ t \in DOMAIN r.targets \cap (DOMAIN limbos.active \cup {Query})
    OBVIOUS
  <2> QED  BY <2>1, WatchOneDetails
<1> HIDE DEF U, K
<1>6. F \in [U \X K -> U]
  BY <1>5
<1>7. \E h : Is(h)
  <2> HIDE DEF F, ids
  <2>1. PICK h \in [SUBSET DOMAIN ids -> U] : IsFoldOf(h, F, r, ids)
    BY <1>3, <1>4, <1>6, FoldExists
  <2>2. ASSUME NEW s \in SUBSET DOMAIN ids, s # {}
        PROVE  F[<<h[s \ {Max(s)}], ids[Max(s)]>>] = WatchOne(h[s \ {Max(s)}], ids[Max(s)])
    <3>1. DOMAIN ids = 1 .. Len(ids) /\ Len(ids) \in Nat
      BY <1>3
    <3>2. Max(s) \in s
      BY <2>2, <3>1, LargestOf
    <3>3. ids[Max(s)] \in K /\ h[s \ {Max(s)}] \in U
      BY <1>3, <3>1, <3>2
    <3> QED  BY <3>3 DEF F
  <2>3. Is(h)
    BY <2>1, <2>2 DEF IsFoldOf
  <2> QED  BY <2>3
<1>8. Is(fold)
  BY <1>7
<1> DEFINE Good == {s \in SUBSET (1 .. size) :
                      /\ fold[s] \in U /\ QueryFirst(fold[s].sent)
                      /\ \A i \in s : Requested(fold[s], r, ids[i])}
<1>9. DOMAIN ids = 1 .. size /\ size \in Nat
  BY <1>3
<1>10. fold[{}] = r
  <2> HIDE DEF fold, ids, size
  <2> QED  BY <1>8, <1>9
<1>11. {} \in Good
  <2> HIDE DEF fold, ids, size
  <2> QED  BY <1>4, <1>10 DEF QueryFirst
<1>12. ASSUME NEW s \in SUBSET (1 .. size), s # {}, Max(s) \in s, s \ {Max(s)} \in Good
       PROVE  s \in Good
  <2> DEFINE q == fold[s \ {Max(s)}]
             t == ids[Max(s)]
  <2> HIDE DEF fold, size, ids
  <2>1. t \in K /\ K \subseteq Nat
    <3>1. \A i \in DOMAIN ids : ids[i] \in K
      BY <1>3
    <3> QED  BY <1>2, <1>9, <1>12, <3>1
  <2>2. fold[s] = WatchOne(q, t)
    BY <1>8, <1>9, <1>12
  <2>3. /\ q \in U /\ QueryFirst(q.sent)
        /\ \A i \in s \ {Max(s)} : Requested(q, r, ids[i])
    BY <1>12
  <2>4. t = Query => q.sent = <<>>
    <3>1. ASSUME t = Query
          PROVE  s \ {Max(s)} = {}
      <4>0. Max(s) \in DOMAIN ids /\ ids[Max(s)] = 0
        BY ONLY <1>9, <1>12, <3>1 DEF Query
      <4>1. Max(s) = 1
        BY ONLY <1>3, <4>0
      <4>2. \A x \in s : x <= Max(s)
        BY <1>9, <1>12, LargestOf
      <4>3. \A x \in s : x = Max(s)
        BY <1>9, <4>1, <4>2
      <4> QED  BY <4>3
    <3> QED  BY <1>10, <3>1
  <2>5. \A i \in s \ {Max(s)} : ids[i] \in Nat \ {t}
    <3>1. \A i \in DOMAIN ids : ids[i] \in K
      BY <1>3
    <3> QED  BY <1>3, <1>9, <1>12, <2>1, <3>1
  <2> HIDE DEF q, t
  <2>6. /\ fold[s] \in U /\ Requested(fold[s], r, t) /\ QueryFirst(fold[s].sent)
        /\ \A i \in s \ {Max(s)} : Requested(fold[s], r, ids[i])
    BY <1>5, <2>1, <2>2, <2>3, <2>4, <2>5
  <2>7. \A i \in s : Requested(fold[s], r, ids[i])
    BY <2>6 DEF t
  <2> QED  BY <2>6, <2>7
<1>13. 1 .. size \in Good
  <2> HIDE DEF Good, size
  <2> QED  BY <1>9, <1>11, <1>12, PositionsInduction
<1>14. /\ fold[DOMAIN ids] \in U /\ QueryFirst(fold[DOMAIN ids].sent)
       /\ \A i \in DOMAIN ids : Requested(fold[DOMAIN ids], r, ids[i])
  <2> HIDE DEF fold, ids, size
  <2> QED  BY <1>9, <1>13
<1>15. \A t \in K : Requested(fold[DOMAIN ids], r, t)
  <2> HIDE DEF fold, ids
  <2> QED  BY <1>3, <1>14
<1> HIDE DEF fold
<1> QED  BY <1>1, <1>14, <1>15 DEF U, K

LEMMA OnWatchStreamOpenBacked ==
    ASSUME IInv, BackedInv, OnWatchStreamOpen
    PROVE  BackedInv'
<1> SUFFICES ASSUME ~denied PROVE BackedInv'
  BY DEF BackedInv, OnWatchStreamOpen, backend
<1>1. /\ UNCHANGED <<docs, denied, changes, served, responses, limbos, cache, synced,
                     token, live, current, limbo, seen, calls>>
      /\ stream = "starting" /\ stream' = "open" /\ remote' = WatchAll(remote)
  BY DEF OnWatchStreamOpen, backend, disk, view
<1>2. /\ KnownInv /\ FittingInv /\ HistoryInv /\ TokenInv /\ DiskInv
      /\ SeenInv /\ LimboInv /\ PromptInv /\ ViewInv
      /\ Types /\ remote \in Remotes /\ limbos \in Limbos
      /\ Agree(remote, limbos, live) /\ RemoteSound(remote, responses, stream, denied)
      /\ StreamInv /\ Pair.remote = remote /\ Pair.limbos = limbos
  BY Backing, Beginning
<1>3. responses = <<>> /\ DOMAIN served = {} /\ remote.sent = <<>>
  BY <1>1, <1>2 DEF StreamInv, RemoteSound
<1>4. /\ RestSame(remote', remote) /\ QueryFirst(remote'.sent)
      /\ \A t \in DOMAIN remote.targets : Requested(remote', remote, t)
  <2>1. DOMAIN remote.targets \subseteq DOMAIN limbos.active \cup {Query}
    BY <1>2 DEF Agree
  <2> QED  BY <1>1, <1>2, <1>3, <2>1, WatchAllDetails
<1>5. /\ remote'.targets = remote.targets /\ remote'.updated = remote.updated
      /\ remote'.gone = remote.gone /\ remote'.resets = remote.resets
  BY <1>4 DEF RestSame
<1>6. Pair'.remote = remote' /\ Pair'.limbos = limbos
  BY <1>1, PairParts DEF Pair
<1>7. WatchingInv'
  <2>1. ASSUME NEW t \in DOMAIN remote'.targets
        PROVE  Watching(Pair', responses', served', t)
    <3> DEFINE request == Watch(t, Scope(t), remote.targets[t])
    <3>1. t \in DOMAIN remote'.states /\ LastAsked(remote'.sent, request)
      BY <1>4, <1>5, <2>1 DEF Requested
    <3>2. Scope(t) = About(limbos, t)
      BY DEF Scope, Key, About
    <3>3. Asked(remote'.sent, t)
      BY <3>1 DEF LastAsked, Asked, Watch
    <3>4. request = Watch(t, About(Pair'.limbos, t), Pair'.remote.targets[t])
      BY <1>5, <1>6, <3>2
    <3> HIDE DEF request
    <3> QED  BY <1>6, <3>1, <3>3, <3>4 DEF Watching
  <2> QED  BY <2>1 DEF WatchingInv
<1>8. FittingInv'
  <2>1. remote.resets = {}
    BY <1>2, <1>3 DEF FittingInv, Gathering, Undisturbed
  <2>2. Gathering(remote', responses) /\ TakenBack(remote', synced)
    BY <1>2, <1>5, <2>1 DEF FittingInv, Gathering, TakenBack
  <2>3. Receipts(Pair')
    BY <1>2, <1>5, <1>6 DEF FittingInv, Receipts
  <2> QED  BY <1>1, <1>2, <2>2, <2>3 DEF FittingInv
<1>9. KnownInv' /\ HistoryInv' /\ DiskInv' /\ TokenInv' /\ LimboInv' /\ ViewInv'
  BY <1>1, <1>2, <1>5 DEF KnownInv, HistoryInv, DiskInv, TokenInv, LimboInv, ViewInv
<1>10. SeenInv' /\ PromptInv'
  BY <1>1, <1>2, <1>3, <1>4 DEF SeenInv, PromptInv, QueryFirst
<1> QED  BY <1>7, <1>8, <1>9, <1>10 DEF BackedInv

--------------------------------------------------------------------------------
(* The backend's messages keep the invariant *)

(* The first request is taken.                                             *)
LEMMA AskedTail ==
    ASSUME NEW sent \in Seq(Requests), sent # <<>>, NEW t
    PROVE  /\ Asked(sent, t) <=> Asked(Tail(sent), t) \/ Head(sent).target = t
           /\ \A q : LastAsked(sent, q) /\ q.target = t =>
                /\ Asked(Tail(sent), t) \/ q # Head(sent) => LastAsked(Tail(sent), q)
                /\ Asked(Tail(sent), t) \/ q = Head(sent)
<1>1. /\ Head(sent) = sent[1] /\ 1 \in DOMAIN sent
      /\ \A i \in DOMAIN sent :
           /\ i \in Nat
           /\ i = 1 \/ (i > 1 /\ i - 1 \in DOMAIN Tail(sent) /\ sent[i] = Tail(sent)[i - 1])
      /\ \A i \in DOMAIN Tail(sent) :
           i \in Nat /\ i > 0 /\ i + 1 \in DOMAIN sent /\ sent[i + 1] = Tail(sent)[i]
  BY TailFacts
<1>2. Asked(sent, t) <=> Asked(Tail(sent), t) \/ Head(sent).target = t
  BY <1>1 DEF Asked
<1>3. ASSUME NEW q, LastAsked(sent, q), q.target = t
      PROVE  /\ Asked(Tail(sent), t) \/ q # Head(sent) => LastAsked(Tail(sent), q)
             /\ Asked(Tail(sent), t) \/ q = Head(sent)
  <2>1. PICK i \in DOMAIN sent :
          /\ sent[i] = q
          /\ \A j \in DOMAIN sent : j > i => sent[j].target # q.target
    BY <1>3 DEF LastAsked
  <2>2. CASE i = 1
    <3>1. \A j \in DOMAIN Tail(sent) : Tail(sent)[j].target # t
      BY <1>1, <1>3, <2>1, <2>2
    <3> QED  BY <1>1, <2>1, <2>2, <3>1 DEF Asked
  <2>3. CASE i # 1
    <3>1. i - 1 \in DOMAIN Tail(sent) /\ Tail(sent)[i - 1] = q /\ i \in Nat
      BY <1>1, <2>1, <2>3
    <3>2. ASSUME NEW j \in DOMAIN Tail(sent), j > i - 1
          PROVE  Tail(sent)[j].target # q.target
      <4>1. j + 1 \in DOMAIN sent /\ sent[j + 1] = Tail(sent)[j] /\ j + 1 > i
        BY <1>1, <3>1, <3>2
      <4> QED  BY <2>1, <4>1
    <3>3. LastAsked(Tail(sent), q)
      BY <3>1, <3>2 DEF LastAsked
    <3>4. Asked(Tail(sent), t)
      BY <1>3, <3>1 DEF Asked
    <3> QED  BY <3>3, <3>4
  <2> QED  BY <2>2, <2>3
<1> QED  BY <1>2, <1>3

(* q is p, but for the requests it has still to send.                      *)
SameStore(q, p) ==
    /\ q.remote.targets = p.remote.targets /\ q.remote.states = p.remote.states
    /\ q.remote.updated = p.remote.updated /\ q.remote.gone = p.remote.gone
    /\ q.remote.resets = p.remote.resets /\ q.limbos = p.limbos

(* More messages for a target that is answered.                            *)
LEMMA StandingMore ==
    ASSUME NEW ms \in Seq(Messages), NEW more \in Seq(Messages), NEW p, NEW q, SameStore(q, p),
           NEW t, NEW sv, Standing(p, ms, sv, t), NEW now,
           \A i \in DOMAIN more : ~IsAnswer(more[i], t),
           t \in DOMAIN now, now[t].scope = sv[t].scope,
           Told(Held(p, ms, t), now[t].known, ms \o more, t, About(p.limbos, t)),
           \A i \in DOMAIN more :
             t # Query /\ more[i].kind = "filter" /\ more[i].target = t /\ more[i].count = 0
               => Fit(ms \o more, i + Len(ms), {}, {p.limbos.active[t].key})
    PROVE  Standing(q, ms \o more, now, t)
<1> DEFINE all == ms \o more
<1>1. /\ Len(ms) \in Nat /\ DOMAIN ms = 1 .. Len(ms)
      /\ \A i \in DOMAIN ms : i \in DOMAIN all /\ all[i] = ms[i]
      /\ \A i \in DOMAIN more : all[i + Len(ms)] = more[i]
      /\ \A i \in DOMAIN all : i \in Nat /\ (i \in DOMAIN ms \/ i - Len(ms) \in DOMAIN more)
      /\ \A i \in DOMAIN more : i \in Nat
  BY MoreFacts
<1> HIDE DEF all
<1>2. \A x : Quiet(ms, x, t) => Quiet(all, x, t)
  BY QuietMore DEF all
<1>3. \A x : Quiet(all, x, t) => Quiet(ms, x, t)
  BY <1>1, QuietLess
<1>4. About(q.limbos, t) = About(p.limbos, t) /\ \A u : Ensure(q.remote, u) = Ensure(p.remote, u)
  BY DEF SameStore, Ensure
<1>5. Held(q, all, t) = Held(p, ms, t)
  BY <1>2, <1>3, <1>4 DEF Held, SameStore
<1>6. Quiet(all, 1, t) \/ \E i \in DOMAIN all : all[i] = Ack("added", t) /\ Quiet(all, i + 1, t)
  BY <1>1, <1>2 DEF Standing
<1>7. Noted(q, all, t)
  <2>1. ASSUME Quiet(all, 1, t), t # Query, Ensure(p.remote, t).removed # {}
        PROVE  Fit(all, 0, {}, {p.limbos.active[t].key})
    <3>1. Fit(ms, 0, {}, {p.limbos.active[t].key})
      BY <1>3, <2>1 DEF Standing, Noted
    <3> QED  BY <3>1, FitMore DEF all
  <2> QED  BY <1>3, <1>4, <2>1 DEF Standing, Noted, SameStore
<1>8. NoneLeft(q, all, t)
  <2> SUFFICES ASSUME NEW i \in DOMAIN all, t # Query, all[i].kind = "filter",
                      all[i].target = t, all[i].count = 0, Quiet(all, i, t)
               PROVE  Fit(all, i, {}, {p.limbos.active[t].key})
    BY DEF NoneLeft, SameStore
  <2>1. CASE i \in DOMAIN ms
    <3>1. Fit(ms, i, {}, {p.limbos.active[t].key})
      BY <1>1, <1>3, <2>1 DEF Standing, NoneLeft
    <3> QED  BY <3>1, FitMore DEF all
  <2>2. CASE i - Len(ms) \in DOMAIN more
    <3>1. all[i] = more[i - Len(ms)] /\ (i - Len(ms)) + Len(ms) = i
      BY <1>1, <2>2
    <3> QED  BY <2>2, <3>1 DEF all
  <2> QED  BY <1>1, <2>1, <2>2
<1>9. Told(Held(q, all, t), now[t].known, all, t, About(q.limbos, t))
  BY <1>4, <1>5 DEF all
<1>10. now[t].scope = About(q.limbos, t)
  BY <1>4 DEF Standing
<1> QED  BY <1>6, <1>7, <1>8, <1>9, <1>10 DEF Standing, all

LEMMA FittingMore ==
    ASSUME NEW ms \in Seq(Messages), NEW more \in Seq(Messages), Fitting(ms),
           \A i \in DOMAIN more :
             /\ more[i].kind = "docs" =>
                  Fit(ms \o more, i + Len(ms), more[i].added, more[i].removed)
             /\ more[i].kind = "filter" /\ more[i].target = Query =>
                  Undisturbed(ms \o more, i + Len(ms))
    PROVE  Fitting(ms \o more)
<1> DEFINE all == ms \o more
<1>1. /\ \A i \in DOMAIN ms : all[i] = ms[i]
      /\ \A i \in DOMAIN more : all[i + Len(ms)] = more[i]
      /\ \A i \in DOMAIN all : i \in Nat /\ (i \in DOMAIN ms \/ i - Len(ms) \in DOMAIN more)
      /\ Len(ms) \in Nat
  BY MoreFacts
<1> SUFFICES ASSUME NEW i \in DOMAIN all
             PROVE  /\ all[i].kind = "docs" => Fit(all, i, all[i].added, all[i].removed)
                    /\ all[i].kind = "filter" /\ all[i].target = Query => Undisturbed(all, i)
  BY DEF Fitting
<1> HIDE DEF all
<1>2. CASE i \in DOMAIN ms
  <2>1. /\ ms[i].kind = "docs" => Fit(ms, i, ms[i].added, ms[i].removed)
        /\ ms[i].kind = "filter" /\ ms[i].target = Query => Undisturbed(ms, i)
    BY <1>2 DEF Fitting
  <2>2. /\ Fit(ms, i, ms[i].added, ms[i].removed) => Fit(all, i, ms[i].added, ms[i].removed)
        /\ Undisturbed(ms, i) => Undisturbed(all, i)
    BY FitMore, UndisturbedMore DEF all
  <2> QED  BY <1>1, <1>2, <2>1, <2>2
<1>3. CASE i - Len(ms) \in DOMAIN more
  <2>1. all[i] = more[i - Len(ms)] /\ (i - Len(ms)) + Len(ms) = i
    BY <1>1, <1>3
  <2> QED  BY <1>3, <2>1 DEF all
<1> QED  BY <1>1, <1>2, <1>3

LEMMA GatheringMore ==
    ASSUME NEW ms \in Seq(Messages), NEW more \in Seq(Messages), NEW p, NEW q, SameStore(q, p),
           NEW ks, Gathering(p.remote, ms), TakenBack(p.remote, ks), Receipts(p)
    PROVE  Gathering(q.remote, ms \o more) /\ TakenBack(q.remote, ks) /\ Receipts(q)
<1>1. Gathering(q.remote, ms \o more)
  <2>1. /\ Fit(ms, 0, p.remote.updated, p.remote.gone)
             => Fit(ms \o more, 0, p.remote.updated, p.remote.gone)
        /\ Undisturbed(ms, 0) => Undisturbed(ms \o more, 0)
    BY FitMore, UndisturbedMore
  <2> QED  BY <2>1 DEF Gathering, SameStore
<1>2. TakenBack(q.remote, ks)
  BY DEF TakenBack, SameStore, Ensure
<1>3. Receipts(q)
  BY DEF Receipts, SameStore
<1> QED  BY <1>1, <1>2, <1>3

LEMMA AnswerUnwatchBacked ==
    ASSUME IInv, BackedInv, AnswerUnwatch
    PROVE  BackedInv'
<1> SUFFICES ASSUME ~denied PROVE BackedInv'
  BY DEF BackedInv, AnswerUnwatch, backend
<1> DEFINE t == Head(remote.sent).target
           a == Ack("removed", t)
           more == <<a>>
           p == Pair
           q == Pair'
           all == responses \o more
<1>1. /\ UNCHANGED <<docs, denied, changes, stream, limbos, cache, synced, token, live, current,
                     limbo, seen, calls>>
      /\ remote.sent # <<>> /\ Head(remote.sent).kind = "unwatch"
      /\ served' = Less(served, t) /\ responses' = Append(responses, a)
      /\ remote' = [remote EXCEPT !.sent = Tail(@)]
  BY DEF AnswerUnwatch, backend, disk, view
<1>2. /\ KnownInv /\ WatchingInv /\ FittingInv /\ HistoryInv /\ TokenInv /\ DiskInv
      /\ SeenInv /\ LimboInv /\ PromptInv /\ ViewInv
      /\ Types /\ responses \in Seq(Messages) /\ remote \in Remotes
      /\ Agree(remote, limbos, live) /\ RemoteSound(remote, responses, stream, denied)
      /\ Pair.remote = remote /\ Pair.limbos = limbos
  BY Backing
<1>3. remote.sent \in Seq(Requests) /\ Head(remote.sent) = remote.sent[1] /\ t \in Nat
      /\ 1 \in DOMAIN remote.sent
  <2>1. remote.sent \in Seq(Requests)
    BY <1>2 DEF Remotes
  <2>2. Head(remote.sent) \in Requests /\ Head(remote.sent) = remote.sent[1]
        /\ 1 \in DOMAIN remote.sent
    BY <1>1, <2>1, TailFacts
  <2> QED  BY <2>1, <2>2, MessageTargets
<1>4. a \in Acks /\ a \in Messages /\ a.kind = "removed" /\ a.target = t
  BY <1>3, AckType
<1> HIDE DEF a
<1>5. /\ remote'.sent = Tail(remote.sent) /\ SameStore(q, p) /\ stream = "open"
      /\ q.remote = remote' /\ q.limbos = limbos
      /\ remote'.targets = remote.targets
  <2>1. stream = "open"
    BY <1>1, <1>2 DEF RemoteSound
  <2>2. q.remote = remote' /\ q.limbos = limbos
    BY <1>1, PairParts DEF Pair
  <2>3. /\ remote'.sent = Tail(remote.sent) /\ remote'.targets = remote.targets
        /\ remote'.states = remote.states /\ remote'.updated = remote.updated
        /\ remote'.gone = remote.gone /\ remote'.resets = remote.resets
    BY <1>1, <1>2 DEF Remotes
  <2> QED  BY <1>2, <2>1, <2>2, <2>3 DEF SameStore
<1>6. /\ more \in Seq(Messages) /\ responses' = all
      /\ \A i \in DOMAIN more : more[i] = a
  BY <1>1, <1>2, <1>4, OneMore
<1>7. \A i \in DOMAIN more : more[i].kind \notin {"snapshot", "docs", "filter"}
  BY <1>4, <1>6
<1> HIDE DEF more, p, q, all
<1>8. ASSUME NEW u \in DOMAIN remote.targets
      PROVE  Watching(q, all, served', u)
  <2>1. Watching(p, responses, served, u) /\ u \in DOMAIN remote.states
    <3>1. Watching(p, responses, served, u)
      BY <1>2, <1>5, <1>8 DEF WatchingInv, p
    <3> QED  BY <1>2, <3>1 DEF Watching, p
  <2> DEFINE request == Watch(u, About(limbos, u), remote.targets[u])
  <2>2. request.target = u /\ request.kind = "watch"
    BY DEF Watch
  <2>3. u \in DOMAIN q.remote.states /\ q.remote.sent = Tail(remote.sent)
        /\ request = Watch(u, About(q.limbos, u), q.remote.targets[u])
    BY <1>2, <1>5, <2>1 DEF SameStore, p
  <2> HIDE DEF request
  <2>4. CASE Asked(remote.sent, u)
    <3>1. LastAsked(remote.sent, request)
      BY <1>2, <2>1, <2>4 DEF Watching, p, request
    <3>2. request # Head(remote.sent)
      BY <1>1, <2>2
    <3>3. LastAsked(Tail(remote.sent), request) /\ Asked(Tail(remote.sent), u)
      BY <1>1, <1>3, <2>2, <3>1, <3>2, AskedTail
    <3> QED  BY <2>3, <3>3 DEF Watching
  <2>5. CASE ~Asked(remote.sent, u)
    <3>1. Standing(p, responses, served, u)
      BY <1>2, <2>1, <2>5 DEF Watching, p
    <3>2. ~Asked(Tail(remote.sent), u) /\ u # t
      BY <1>1, <1>3, <2>5, AskedTail
    <3>3. u \in DOMAIN served' /\ served'[u] = served[u]
      <4>1. u \in DOMAIN served \ {t}
        BY <3>1, <3>2 DEF Standing
      <4> HIDE DEF t
      <4> QED  BY <1>1, <4>1, LessValues
    <3>4. \A i \in DOMAIN more : more[i].kind # "snapshot" /\ ~IsAnswer(more[i], u)
      BY <1>4, <1>6, <1>7, <3>2 DEF IsAnswer
    <3>5. Told(Held(p, responses, u), served'[u].known, responses \o more, u, About(p.limbos, u))
      BY <1>2, <1>6, <3>1, <3>3, <3>4, ToldMore DEF Standing
    <3>6. Standing(q, responses \o more, served', u)
      BY <1>2, <1>5, <1>6, <1>7, <3>1, <3>3, <3>4, <3>5, StandingMore
    <3> QED  BY <2>3, <3>2, <3>6 DEF Watching, all
  <2> QED  BY <2>4, <2>5
<1>9. WatchingInv'
  BY <1>5, <1>6, <1>8 DEF WatchingInv, q
<1>10. FittingInv'
  <2>1. Fitting(all)
    BY <1>2, <1>6, <1>7, FittingMore DEF FittingInv, all
  <2>2. Gathering(q.remote, all) /\ TakenBack(q.remote, synced) /\ Receipts(q)
    BY <1>2, <1>5, <1>6, GatheringMore DEF FittingInv, all, p
  <2> QED  BY <1>1, <1>5, <1>6, <2>1, <2>2 DEF FittingInv, q
<1>11. HistoryInv' /\ DiskInv'
  <2>1. Convex(UNION token, docs, responses)
    BY <1>2 DEF HistoryInv
  <2>2. \A i \in DOMAIN more : more[i].kind # "snapshot"
    BY <1>7
  <2> DEFINE first == UNION token
  <2> HIDE DEF first
  <2>3. Convex(first, docs, responses)
    BY <2>1 DEF first
  <2>4. Convex(first, docs, all) /\ NothingNew(first, docs, all, first, docs, responses)
    BY <1>2, <1>6, <2>2, <2>3, ConvexMore DEF NothingNew, all
  <2> QED  BY <1>1, <1>2, <1>6, <2>4, HistoryOn, DiskOn DEF first
<1>12. KnownInv'
  <2>1. \A u \in DOMAIN served' : u \in DOMAIN served /\ served'[u] = served[u]
    BY <1>1, LessValues
  <2> QED  BY <1>2, <2>1 DEF KnownInv
<1>13. TokenInv' /\ LimboInv' /\ ViewInv'
  BY <1>1, <1>2, <1>5 DEF TokenInv, LimboInv, ViewInv
<1>14. /\ \A i \in DOMAIN responses : i \in DOMAIN all /\ all[i] = responses[i]
       /\ \A i \in DOMAIN all : i \in DOMAIN responses \/ (i = Len(responses) + 1 /\ all[i] = a)
       /\ DOMAIN responses = 1 .. Len(responses) /\ Len(responses) \in Nat
       /\ Len(responses) + 1 \in DOMAIN all
  <2>1. all = Append(responses, a)
    BY <1>1, <1>6
  <2>2. /\ DOMAIN responses = 1 .. Len(responses) /\ Len(responses) \in Nat
        /\ DOMAIN all = 1 .. Len(responses) + 1
        /\ \A i \in DOMAIN responses : all[i] = responses[i]
        /\ all[Len(responses) + 1] = a
    BY <1>2, <1>4, <2>1, OneMoreFacts
  <2> QED  BY <2>2
<1>15. \A x, u : Quiet(all, x, u) => Quiet(responses, x, u)
  BY <1>14, QuietLess
<1>16. ASSUME NEW n \in DOMAIN all, all[n].kind = "snapshot"
       PROVE  n \in DOMAIN responses /\ responses[n].kind = "snapshot" /\ all[n] = responses[n]
  BY <1>4, <1>14, <1>16
<1>17. SeenInv'
  <2> SUFFICES ASSUME live, NEW n \in DOMAIN all, all[n].kind = "snapshot", Quiet(all, n, Query),
                      ~Asked(Tail(remote.sent), Query)
               PROVE  all[n].docs \in seen
    BY <1>1, <1>2, <1>5, <1>6 DEF SeenInv
  <2>1. n \in DOMAIN responses /\ responses[n].kind = "snapshot" /\ all[n] = responses[n]
    BY <1>16
  <2>2. t # Query
    <3>1. Len(responses) + 1 >= n /\ all[Len(responses) + 1] = a
      BY <1>14, <2>1
    <3> QED  BY <1>4, <1>14, <3>1 DEF Quiet, IsAnswer
  <2>3. ~Asked(remote.sent, Query)
    BY <1>1, <1>3, <2>2, AskedTail
  <2> QED  BY <1>2, <1>15, <2>1, <2>3 DEF SeenInv
<1>18. PromptInv'
  <2> SUFFICES ASSUME live, current, synced # {}
               PROVE  /\ \A n \in DOMAIN all : all[n].kind = "snapshot" =>
                           Quiet(all, n, Query) /\ ~Asked(Tail(remote.sent), Query)
                      /\ \A i \in DOMAIN Tail(remote.sent) : Tail(remote.sent)[i].target # Query
    BY <1>1, <1>5, <1>6 DEF PromptInv
  <2>1. /\ \A n \in DOMAIN responses : responses[n].kind = "snapshot" =>
             Quiet(responses, n, Query) /\ ~Asked(remote.sent, Query)
        /\ \A i \in DOMAIN remote.sent : remote.sent[i].target = Query => i = 1
    BY <1>2 DEF PromptInv
  <2>2. \A i \in DOMAIN Tail(remote.sent) :
          i \in Nat /\ i > 0 /\ i + 1 \in DOMAIN remote.sent
          /\ remote.sent[i + 1] = Tail(remote.sent)[i]
    BY <1>1, <1>3, TailFacts
  <2>3. \A i \in DOMAIN Tail(remote.sent) : Tail(remote.sent)[i].target # Query
    BY <2>1, <2>2
  <2>4. t # Query
    <3> SUFFICES ASSUME t = Query PROVE FALSE
      OBVIOUS
    <3>1. Query \in DOMAIN remote.targets
      BY <1>2 DEF Agree
    <3>2. Asked(remote.sent, Query)
      BY <1>3 DEF Asked
    <3>3. Watching(p, responses, served, Query)
      BY <1>2, <1>5, <3>1 DEF WatchingInv, p
    <3>4. PICK i \in DOMAIN remote.sent : /\ remote.sent[i].kind = "watch"
                                          /\ remote.sent[i].target = Query
      BY <1>2, <3>2, <3>3 DEF Watching, LastAsked, Watch, p
    <3> QED  BY <1>1, <1>3, <2>1, <3>4
  <2>5. ASSUME NEW n \in DOMAIN all, all[n].kind = "snapshot"
        PROVE  Quiet(all, n, Query) /\ ~Asked(Tail(remote.sent), Query)
    <3>1. n \in DOMAIN responses /\ responses[n].kind = "snapshot"
      BY <1>16, <2>5
    <3>2. Quiet(responses, n, Query)
      BY <2>1, <3>1
    <3>3. \A i \in DOMAIN more : ~IsAnswer(more[i], Query)
      BY <1>4, <1>6, <2>4 DEF IsAnswer
    <3> QED  BY <1>2, <1>6, <2>3, <3>2, <3>3, QuietMore DEF all, Asked
  <2> QED  BY <2>3, <2>5
<1> QED  BY <1>9, <1>10, <1>11, <1>12, <1>13, <1>17, <1>18 DEF BackedInv

(* What a report says is so.                                               *)
Truly(m, ts) ==
    /\ m.target \in DOMAIN ts /\ m.kind \in {"docs", "filter"}
    /\ m.kind = "docs" => m.added \subseteq docs /\ m.removed \cap KeysOf(docs) = {}
    /\ m.kind = "filter" => m.count = Cardinality(Scoped(docs, ts[m.target].scope))

Brought(ms, t, s) ==
    \A d \in Scoped(docs, s.scope) \ s.known :
      \E i \in DOMAIN ms : ms[i].kind = "docs" /\ ms[i].target = t /\ d \in ms[i].added

(* The documents of the collection come before they are counted.           *)
DocsFirst(ms) ==
    \A i, j \in DOMAIN ms :
      i < j /\ ms[i].kind = "filter" /\ ms[i].target = Query =>
        ~(ms[j].kind = "docs" /\ ms[j].target = Query)

LEMMA ReportDetails ==
    ASSUME docs \in Collections, NEW ts \in Tables(Watched), NEW t \in DOMAIN ts, NEW how,
           KeysOf(ts[t].known) \subseteq ts[t].scope
    PROVE  LET more == Report(t, ts[t], how) IN
           /\ more \in Seq(Messages)
           /\ \A i \in DOMAIN more : Truly(more[i], ts) /\ more[i].target = t
           /\ Brought(more, t, ts[t])
           /\ DocsFirst(more)
<1> DEFINE s == ts[t]
           now == Within(s.scope)
           added == now \ s.known
           removed == KeysOf(s.known) \ KeysOf(now)
           named == [kind |-> "docs", target |-> t, added |-> added, deleted |-> how = "deleted",
                     removed |-> IF how = "counted" THEN {} ELSE removed]
           counted == [kind |-> "filter", target |-> t, count |-> Cardinality(now)]
           a == IF added = {} /\ (removed = {} \/ how = "counted") THEN <<>> ELSE <<named>>
           b == IF removed # {} /\ how = "counted" THEN <<counted>> ELSE <<>>
           more == Report(t, s, how)
<1>1. more = a \o b
  BY DEF Report
<1>2. t \in Nat /\ s \in Watched
  BY TableFacts
<1>3. more \in Seq(Messages)
  <2>1. Report(t, s, how) \in Seq(DocsMessages \cup Filters)
    BY <1>2, ReportType
  <2>2. DocsMessages \cup Filters \subseteq Messages
    BY DEF Messages
  <2> DEFINE M == DocsMessages \cup Filters
  <2> HIDE DEF more, M
  <2>3. more \in Seq(M) /\ M \subseteq Messages
    BY <2>1, <2>2 DEF M, more
  <2> QED  BY <2>3
<1>4. now = Scoped(docs, s.scope) /\ now \subseteq docs
  BY DEF Within, Scoped
<1>5. removed \cap KeysOf(docs) = {}
  <2> SUFFICES ASSUME NEW d \in docs, d[1] \in KeysOf(s.known)
               PROVE  d[1] \in KeysOf(now)
    BY DEF KeysOf
  <2>1. d \in now
    BY <1>4 DEF Scoped
  <2> HIDE DEF now
  <2> QED  BY <2>1 DEF KeysOf
<1>6. /\ named.kind = "docs" /\ named.target = t /\ named.added = added
      /\ named.removed \subseteq removed
      /\ counted.kind = "filter" /\ counted.target = t /\ counted.count = Cardinality(now)
  OBVIOUS
<1>7. added \subseteq docs
  BY <1>4
<1> HIDE DEF added, removed, now, named, counted, s
<1>8. Truly(named, ts) /\ Truly(counted, ts)
  BY <1>4, <1>5, <1>6, <1>7 DEF Truly, s
<1>9. \/ more = <<>> /\ added = {}
      \/ more = <<named>>
      \/ more = <<counted>> /\ added = {}
      \/ more = <<named, counted>>
  <2>1. /\ <<>> \o <<>> = <<>> /\ <<named>> \o <<>> = <<named>>
        /\ <<>> \o <<counted>> = <<counted>> /\ <<named>> \o <<counted>> = <<named, counted>>
    <3>1. \A M : \A x \in M : <<x>> \o <<>> = <<x>> /\ <<>> \o <<x>> = <<x>>
      OBVIOUS
    <3>2. <<>> \o <<>> = <<>>
      OBVIOUS
    <3>3. <<named, counted>> = <<named>> \o <<counted>>
      <4> DEFINE Both == {named, counted}
      <4>1. named \in Both /\ counted \in Both
        OBVIOUS
      <4> QED  BY <4>1, TwoOfThem
    <3>4. named \in {named} /\ counted \in {counted}
      OBVIOUS
    <3> QED  BY <3>1, <3>2, <3>3, <3>4
  <2> HIDE DEF more
  <2>2. /\ (a = <<>> /\ added = {}) \/ a = <<named>>
        /\ b = <<>> \/ b = <<counted>>
    OBVIOUS
  <2> HIDE DEF a, b
  <2> QED  BY <1>1, <2>1, <2>2
<1> HIDE DEF more
<1>10. \A i \in DOMAIN more : (more[i] = named \/ more[i] = counted)
  BY <1>9
<1>11. \A i \in DOMAIN more : Truly(more[i], ts) /\ more[i].target = t
  BY <1>6, <1>8, <1>10
<1>12. Brought(more, t, s)
  <2>1. added = {} \/ \E i \in DOMAIN more : more[i] = named
    <3>1. 1 \in DOMAIN <<named>> /\ <<named>>[1] = named
      OBVIOUS
    <3>2. 1 \in DOMAIN <<named, counted>> /\ <<named, counted>>[1] = named
      OBVIOUS
    <3> QED  BY <1>9, <3>1, <3>2
  <2> QED  BY <1>4, <1>6, <2>1 DEF Brought, added
<1>13. DocsFirst(more)
  <2>1. \A i, j \in DOMAIN more : i < j => more[j] = counted
    BY <1>9
  <2> QED  BY <1>6, <2>1 DEF DocsFirst
<1> QED  BY <1>3, <1>11, <1>12, <1>13 DEF more, s

LEMMA ReportOneDetails ==
    ASSUME docs \in Collections, NEW ts \in Tables(Watched), NEW t \in DOMAIN ts, NEW how,
           KeysOf(ts[t].known) \subseteq ts[t].scope,
           NEW ms \in Seq(Messages), \A i \in DOMAIN ms : Truly(ms[i], ts)
    PROVE  LET all == ReportOne(ms, t, ts, how) IN
           /\ all \in Seq(Messages)
           /\ \A i \in DOMAIN all : Truly(all[i], ts)
           /\ Brought(all, t, ts[t])
           /\ \A u : Brought(ms, u, ts[u]) => Brought(all, u, ts[u])
           /\ DocsFirst(ms) /\ (t = Query => ms = <<>>) => DocsFirst(all)
<1> DEFINE more == Report(t, ts[t], how)
           all == ms \o more
<1>1. /\ more \in Seq(Messages)
      /\ \A i \in DOMAIN more : Truly(more[i], ts) /\ more[i].target = t
      /\ Brought(more, t, ts[t])
      /\ DocsFirst(more)
  BY ReportDetails
<1>2. ReportOne(ms, t, ts, how) = all
  BY DEF ReportOne
<1> HIDE DEF more
<1>3. /\ all \in Seq(Messages) /\ Len(ms) \in Nat
      /\ \A i \in DOMAIN ms : i \in Nat /\ i <= Len(ms) /\ i \in DOMAIN all /\ all[i] = ms[i]
      /\ \A i \in DOMAIN more : i + Len(ms) \in DOMAIN all /\ all[i + Len(ms)] = more[i]
      /\ \A i \in DOMAIN all : i \in Nat /\ (i \in DOMAIN ms \/ i - Len(ms) \in DOMAIN more)
      /\ \A i \in DOMAIN more : i \in Nat /\ i > 0
  <2>1. /\ all \in Seq(Messages) /\ Len(ms) \in Nat /\ Len(more) \in Nat
        /\ DOMAIN ms = 1 .. Len(ms) /\ DOMAIN more = 1 .. Len(more)
        /\ DOMAIN all = 1 .. Len(ms) + Len(more)
        /\ \A i \in DOMAIN ms : all[i] = ms[i]
        /\ \A i \in DOMAIN more : all[i + Len(ms)] = more[i]
        /\ \A i \in DOMAIN all : i \in DOMAIN ms \/ i - Len(ms) \in DOMAIN more
    BY <1>1, MoreFacts
  <2> HIDE DEF all
  <2> QED  BY <2>1
<1> HIDE DEF all
<1>4. \A i \in DOMAIN all :
        \/ i \in DOMAIN ms /\ all[i] = ms[i]
        \/ i - Len(ms) \in DOMAIN more /\ all[i] = more[i - Len(ms)]
  <2>1. \A i \in DOMAIN all : (i - Len(ms)) + Len(ms) = i
    BY <1>3
  <2> QED  BY <1>3, <2>1
<1>5. \A i \in DOMAIN all : Truly(all[i], ts)
  BY <1>1, <1>4
<1>6. ASSUME NEW u, Brought(ms, u, ts[u]) \/ Brought(more, u, ts[u])
      PROVE  Brought(all, u, ts[u])
  <2> SUFFICES ASSUME NEW d \in Scoped(docs, ts[u].scope) \ ts[u].known
               PROVE  \E i \in DOMAIN all : all[i].kind = "docs" /\ all[i].target = u
                                           /\ d \in all[i].added
    BY DEF Brought
  <2>1. CASE Brought(ms, u, ts[u])
    <3>1. PICK i \in DOMAIN ms : ms[i].kind = "docs" /\ ms[i].target = u /\ d \in ms[i].added
      BY <2>1 DEF Brought
    <3> QED  BY <1>3, <3>1
  <2>2. CASE Brought(more, u, ts[u])
    <3>1. PICK i \in DOMAIN more :
            more[i].kind = "docs" /\ more[i].target = u /\ d \in more[i].added
      BY <2>2 DEF Brought
    <3> QED  BY <1>3, <3>1
  <2> QED  BY <1>6, <2>1, <2>2
<1>7. ASSUME DocsFirst(ms), t = Query => ms = <<>>
      PROVE  DocsFirst(all)
  <2> SUFFICES ASSUME NEW i \in DOMAIN all, NEW j \in DOMAIN all, i < j,
                      all[i].kind = "filter", all[i].target = Query,
                      all[j].kind = "docs", all[j].target = Query
               PROVE  FALSE
    BY DEF DocsFirst
  <2>1. CASE i \in DOMAIN ms /\ j \in DOMAIN ms
    BY <1>3, <1>7, <2>1 DEF DocsFirst
  <2>2. CASE i \in DOMAIN ms /\ j \notin DOMAIN ms
    <3>1. t = Query
      BY <1>1, <1>4, <2>2
    <3>2. ms = <<>>
      BY <1>7, <3>1
    <3> QED  BY <2>2, <3>2
  <2>3. CASE i \notin DOMAIN ms /\ j \in DOMAIN ms
    <3>1. i > Len(ms)
      BY <1>3, <2>3
    <3> QED  BY <1>3, <2>3, <3>1
  <2>4. CASE i \notin DOMAIN ms /\ j \notin DOMAIN ms
    <3>1. /\ i - Len(ms) \in DOMAIN more /\ all[i] = more[i - Len(ms)]
          /\ j - Len(ms) \in DOMAIN more /\ all[j] = more[j - Len(ms)]
      BY <1>4, <2>4
    <3>2. i - Len(ms) < j - Len(ms)
      BY <1>3
    <3> QED  BY <1>1, <3>1, <3>2 DEF DocsFirst
  <2> QED  BY <2>1, <2>2, <2>3, <2>4
<1> QED  BY <1>1, <1>2, <1>3, <1>5, <1>6, <1>7

LEMMA ReportsDetails ==
    ASSUME docs \in Collections, NEW ts \in Tables(Watched), NEW how,
           \A t \in DOMAIN ts : KeysOf(ts[t].known) \subseteq ts[t].scope
    PROVE  /\ Reports(ts, how) \in Seq(Messages)
           /\ \A i \in DOMAIN Reports(ts, how) : Truly(Reports(ts, how)[i], ts)
           /\ \A t \in DOMAIN ts : Brought(Reports(ts, how), t, ts[t])
           /\ DocsFirst(Reports(ts, how))
<1> DEFINE K == DOMAIN ts
           ids == Ascending(K)
           size == Len(ids)
           U == {ms \in Seq(Messages) : \A i \in DOMAIN ms : Truly(ms[i], ts)}
           F == [x \in U \X K |-> ReportOne(x[1], x[2], ts, how)]
           Is(h) == h = [s \in SUBSET DOMAIN ids |->
                           IF s = {} THEN <<>>
                           ELSE ReportOne(h[s \ {Max(s)}], ids[Max(s)], ts, how)]
           fold == CHOOSE h : Is(h)
<1>1. Reports(ts, how) = fold[DOMAIN ids]
  BY DEF Reports, FoldLeft, MapThenFoldSet, ReportOne
<1>2. IsFiniteSet(K) /\ K \subseteq Nat
  BY TableFacts
<1>3. /\ ids \in Seq(K) /\ \A k \in K : \E i \in DOMAIN ids : ids[i] = k
      /\ \A i \in DOMAIN ids : ids[i] = 0 => i = 1
  <2> HIDE DEF K
  <2> QED  BY <1>2, AscendingFacts
<1>4. <<>> \in U
  OBVIOUS
<1>5. ASSUME NEW ms \in U, NEW t \in K
      PROVE  /\ ReportOne(ms, t, ts, how) \in U
             /\ Brought(ReportOne(ms, t, ts, how), t, ts[t])
             /\ \A u : Brought(ms, u, ts[u]) => Brought(ReportOne(ms, t, ts, how), u, ts[u])
             /\ DocsFirst(ms) /\ (t = Query => ms = <<>>) =>
                  DocsFirst(ReportOne(ms, t, ts, how))
  <2>1. /\ ms \in Seq(Messages) /\ \A i \in DOMAIN ms : Truly(ms[i], ts)
        /\ KeysOf(ts[t].known) \subseteq ts[t].scope /\ t \in DOMAIN ts
    OBVIOUS
  <2> QED  BY <2>1, ReportOneDetails
<1> HIDE DEF U, K
<1>6. F \in [U \X K -> U]
  BY <1>5
<1>7. \E h : Is(h)
  <2> HIDE DEF F, ids
  <2>1. PICK h \in [SUBSET DOMAIN ids -> U] : IsFoldOf(h, F, <<>>, ids)
    BY <1>3, <1>4, <1>6, FoldExists
  <2>2. ASSUME NEW s \in SUBSET DOMAIN ids, s # {}
        PROVE  F[<<h[s \ {Max(s)}], ids[Max(s)]>>] =
                 ReportOne(h[s \ {Max(s)}], ids[Max(s)], ts, how)
    <3>1. DOMAIN ids = 1 .. Len(ids) /\ Len(ids) \in Nat
      BY <1>3
    <3>2. Max(s) \in s
      BY <2>2, <3>1, LargestOf
    <3>3. ids[Max(s)] \in K /\ h[s \ {Max(s)}] \in U
      BY <1>3, <3>1, <3>2
    <3> QED  BY <3>3 DEF F
  <2>3. Is(h)
    BY <2>1, <2>2 DEF IsFoldOf
  <2> QED  BY <2>3
<1>8. Is(fold)
  BY <1>7
<1> DEFINE Good == {s \in SUBSET (1 .. size) :
                      /\ fold[s] \in U /\ DocsFirst(fold[s])
                      /\ \A i \in s : Brought(fold[s], ids[i], ts[ids[i]])}
<1>9. DOMAIN ids = 1 .. size /\ size \in Nat
  BY <1>3
<1>10. fold[{}] = <<>>
  <2> HIDE DEF fold, ids, size
  <2> QED  BY <1>8, <1>9
<1>11. {} \in Good
  <2> HIDE DEF fold, ids, size
  <2> QED  BY <1>4, <1>10 DEF DocsFirst
<1>12. ASSUME NEW s \in SUBSET (1 .. size), s # {}, Max(s) \in s, s \ {Max(s)} \in Good
       PROVE  s \in Good
  <2> DEFINE ms == fold[s \ {Max(s)}]
             t == ids[Max(s)]
  <2> HIDE DEF fold, size, ids
  <2>1. t \in K
    <3>1. \A i \in DOMAIN ids : ids[i] \in K
      BY <1>3
    <3> QED  BY <1>9, <1>12, <3>1
  <2>2. fold[s] = ReportOne(ms, t, ts, how)
    BY <1>8, <1>9, <1>12
  <2>3. /\ ms \in U /\ DocsFirst(ms)
        /\ \A i \in s \ {Max(s)} : Brought(ms, ids[i], ts[ids[i]])
    BY <1>12
  <2>4. t = Query => ms = <<>>
    <3>1. ASSUME t = Query
          PROVE  s \ {Max(s)} = {}
      <4>1. Max(s) \in DOMAIN ids /\ ids[Max(s)] = 0
        BY ONLY <1>9, <1>12, <3>1 DEF Query
      <4>2. Max(s) = 1
        BY ONLY <1>3, <4>1
      <4>3. \A x \in s : x <= Max(s)
        BY <1>9, <1>12, LargestOf
      <4>4. \A x \in s : x = Max(s)
        BY <1>9, <4>2, <4>3
      <4> QED  BY <4>4
    <3> QED  BY <1>10, <3>1
  <2> HIDE DEF ms, t
  <2>5. /\ fold[s] \in U /\ Brought(fold[s], t, ts[t]) /\ DocsFirst(fold[s])
        /\ \A i \in s \ {Max(s)} : Brought(fold[s], ids[i], ts[ids[i]])
    BY <1>5, <2>1, <2>2, <2>3, <2>4
  <2>6. \A i \in s : Brought(fold[s], ids[i], ts[ids[i]])
    BY <2>5 DEF t
  <2> QED  BY <2>5, <2>6
<1>13. 1 .. size \in Good
  <2> HIDE DEF Good, size
  <2> QED  BY <1>9, <1>11, <1>12, PositionsInduction
<1>14. /\ fold[DOMAIN ids] \in U /\ DocsFirst(fold[DOMAIN ids])
       /\ \A i \in DOMAIN ids : Brought(fold[DOMAIN ids], ids[i], ts[ids[i]])
  <2> HIDE DEF fold, ids, size
  <2> QED  BY <1>9, <1>13
<1>15. \A t \in K : Brought(fold[DOMAIN ids], t, ts[t])
  <2> HIDE DEF fold, ids
  <2> QED  BY <1>3, <1>14
<1> HIDE DEF fold
<1> QED  BY <1>1, <1>14, <1>15 DEF U, K

(* A body of messages reports all that the backend has of the targets.     *)
Body(body, ts) ==
    /\ \A i \in DOMAIN body : body[i].kind = "current" \/ Truly(body[i], ts)
    /\ \A t \in DOMAIN ts : Brought(body, t, ts[t])
    /\ DocsFirst(body)

Reported(ms, body) == ms \o (body \o <<Snapshot>>)

LEMMA BodyFacts ==
    ASSUME docs \in Collections, NEW ms \in Seq(Messages), NEW body \in Seq(Messages), NEW ts,
           Body(body, ts)
    PROVE  /\ body \o <<Snapshot>> \in Seq(Messages) /\ ms \o body \in Seq(Messages)
           /\ Reported(ms, body) \in Seq(Messages)
           /\ Reported(ms, body) = Append(ms \o body, Snapshot)
           /\ Snapshot \in Messages /\ Snapshot.kind = "snapshot" /\ Snapshot.docs = docs
           /\ \A i \in DOMAIN body : body[i].kind \in {"current", "docs", "filter"}
           /\ \A i \in DOMAIN (body \o <<Snapshot>>) :
                /\ \A t : ~IsAnswer((body \o <<Snapshot>>)[i], t)
                /\ \/ i \in DOMAIN body /\ (body \o <<Snapshot>>)[i] = body[i]
                   \/ i = Len(body) + 1 /\ (body \o <<Snapshot>>)[i] = Snapshot
           /\ Len(ms) \in Nat /\ Len(body) \in Nat
           /\ DOMAIN Reported(ms, body) = 1 .. Len(ms) + Len(body) + 1
           /\ \A i \in DOMAIN ms : Reported(ms, body)[i] = ms[i]
           /\ \A i \in DOMAIN body : Reported(ms, body)[i + Len(ms)] = body[i]
           /\ Reported(ms, body)[Len(ms) + Len(body) + 1] = Snapshot
           /\ DOMAIN ms = 1 .. Len(ms) /\ DOMAIN body = 1 .. Len(body)
<1> DEFINE more == body \o <<Snapshot>>
           most == ms \o body
           all == ms \o more
<1>1. Snapshot \in Messages /\ Snapshot.kind = "snapshot" /\ Snapshot.docs = docs
  BY SnapshotType DEF Snapshot
<1>2. more = Append(body, Snapshot) /\ <<Snapshot>> \in Seq(Messages)
  BY <1>1, OneMore
<1>3. /\ more \in Seq(Messages) /\ Len(body) \in Nat
      /\ DOMAIN body = 1 .. Len(body) /\ DOMAIN more = 1 .. Len(body) + 1
      /\ Len(more) = Len(body) + 1
      /\ \A i \in DOMAIN body : more[i] = body[i]
      /\ more[Len(body) + 1] = Snapshot
  BY <1>1, <1>2, OneMoreFacts
<1> HIDE DEF more
<1>4. /\ all \in Seq(Messages) /\ Len(ms) \in Nat
      /\ DOMAIN ms = 1 .. Len(ms) /\ DOMAIN all = 1 .. Len(ms) + Len(more)
      /\ \A i \in DOMAIN ms : all[i] = ms[i]
      /\ \A i \in DOMAIN more : all[i + Len(ms)] = more[i]
  BY <1>3, MoreFacts
<1>5. /\ most \in Seq(Messages) /\ DOMAIN most = 1 .. Len(ms) + Len(body)
      /\ Len(most) = Len(ms) + Len(body)
      /\ \A i \in DOMAIN ms : most[i] = ms[i]
      /\ \A i \in DOMAIN body : most[i + Len(ms)] = body[i]
  BY MoreFacts
<1>6. all = Append(most, Snapshot)
  <2>1. /\ Append(most, Snapshot) \in Seq(Messages)
        /\ DOMAIN Append(most, Snapshot) = 1 .. Len(ms) + Len(body) + 1
        /\ \A i \in DOMAIN most : Append(most, Snapshot)[i] = most[i]
        /\ Append(most, Snapshot)[Len(ms) + Len(body) + 1] = Snapshot
    BY <1>1, <1>5, OneMoreFacts
  <2> DEFINE other == Append(most, Snapshot)
  <2> HIDE DEF all, most, other
  <2>2. ASSUME NEW i \in 1 .. Len(ms) + Len(body) + 1
        PROVE  all[i] = other[i]
    <3>1. CASE i \in DOMAIN ms
      BY <1>3, <1>4, <1>5, <2>1, <3>1 DEF other
    <3>2. CASE i > Len(ms) /\ i <= Len(ms) + Len(body)
      <4>0. i - Len(ms) \in DOMAIN body /\ (i - Len(ms)) + Len(ms) = i
        BY <1>3, <1>4, <3>2
      <4>1. PICK j \in DOMAIN body : j + Len(ms) = i
        BY <4>0
      <4>2. all[j + Len(ms)] = body[j]
        BY <1>3, <1>4
      <4>3. most[j + Len(ms)] = body[j] /\ i \in DOMAIN most
        BY <1>3, <1>4, <1>5, <3>2
      <4> QED  BY <2>1, <4>1, <4>2, <4>3 DEF other
    <3>3. CASE i = Len(ms) + Len(body) + 1
      <4>1. Len(body) + 1 \in DOMAIN more /\ (Len(body) + 1) + Len(ms) = i
        BY <1>3, <1>4, <3>3
      <4>2. all[i] = Snapshot
        BY <1>3, <1>4, <4>1
      <4> QED  BY <2>1, <3>3, <4>2 DEF other
    <3> QED  BY <1>3, <1>4, <3>1, <3>2, <3>3
  <2>3. DOMAIN all = 1 .. Len(ms) + Len(body) + 1
    BY <1>3, <1>4
  <2>4. DOMAIN other = 1 .. Len(ms) + Len(body) + 1
    BY <2>1 DEF other
  <2>5. all \in Seq(Messages) /\ other \in Seq(Messages)
    BY <1>4, <2>1 DEF other
  <2>6. all = [i \in DOMAIN all |-> all[i]] /\ other = [i \in DOMAIN other |-> other[i]]
    BY <2>5
  <2> QED  BY <2>2, <2>3, <2>4, <2>6 DEF other
<1>7. \A i \in DOMAIN body : body[i].kind \in {"current", "docs", "filter"}
  BY DEF Body, Truly
<1>8. \A i \in DOMAIN more : \/ i \in DOMAIN body /\ more[i] = body[i]
                             \/ i = Len(body) + 1 /\ more[i] = Snapshot
  BY <1>3
<1>9. \A i \in DOMAIN more : \A t : ~IsAnswer(more[i], t)
  BY <1>1, <1>7, <1>8 DEF IsAnswer
<1> HIDE DEF all, most
<1>10. DOMAIN all = 1 .. Len(ms) + Len(body) + 1
  BY <1>3, <1>4
<1>11. \A i \in DOMAIN body : all[i + Len(ms)] = body[i]
  BY <1>3, <1>4
<1>12. all[Len(ms) + Len(body) + 1] = Snapshot
  <2>1. Len(body) + 1 \in DOMAIN more
        /\ (Len(body) + 1) + Len(ms) = Len(ms) + Len(body) + 1
    BY <1>3, <1>4
  <2>2. all[(Len(body) + 1) + Len(ms)] = more[Len(body) + 1]
    BY <1>4, <2>1
  <2> QED  BY <1>3, <2>1, <2>2
<1>13. Reported(ms, body) = all
  BY DEF Reported, all, more
<1>14. /\ body \o <<Snapshot>> \in Seq(Messages) /\ ms \o body \in Seq(Messages)
       /\ Reported(ms, body) \in Seq(Messages)
       /\ Reported(ms, body) = Append(ms \o body, Snapshot)
  BY <1>3, <1>4, <1>5, <1>6, <1>13 DEF more, most
<1>15. \A i \in DOMAIN (body \o <<Snapshot>>) :
         /\ \A t : ~IsAnswer((body \o <<Snapshot>>)[i], t)
         /\ \/ i \in DOMAIN body /\ (body \o <<Snapshot>>)[i] = body[i]
            \/ i = Len(body) + 1 /\ (body \o <<Snapshot>>)[i] = Snapshot
  BY <1>8, <1>9 DEF more
<1>16. /\ DOMAIN Reported(ms, body) = 1 .. Len(ms) + Len(body) + 1
       /\ \A i \in DOMAIN ms : Reported(ms, body)[i] = ms[i]
       /\ \A i \in DOMAIN body : Reported(ms, body)[i + Len(ms)] = body[i]
       /\ Reported(ms, body)[Len(ms) + Len(body) + 1] = Snapshot
  BY <1>4, <1>10, <1>11, <1>12, <1>13
<1> QED  BY <1>1, <1>3, <1>4, <1>7, <1>14, <1>15, <1>16

LEMMA UpToDateAt ==
    ASSUME NEW ts \in Tables(Watched), NEW t \in DOMAIN ts
    PROVE  /\ t \in DOMAIN UpToDate(ts) /\ UpToDate(ts)[t].scope = ts[t].scope
           /\ UpToDate(ts)[t].known = Scoped(docs, ts[t].scope)
<1>1. ts[t] \in Watched
  BY TableFacts
<1> QED  BY <1>1 DEF UpToDate, Within, Watched

(* What the body says is followed by the snapshot it is so of.             *)
LEMMA BodyNext ==
    ASSUME docs \in Collections, NEW ms \in Seq(Messages), NEW body \in Seq(Messages), NEW ts,
           Body(body, ts), NEW i \in DOMAIN body
    PROVE  \E n \in DOMAIN Reported(ms, body) :
             /\ NextSnapshot(Reported(ms, body), i + Len(ms), n)
             /\ Reported(ms, body)[n].docs = docs
             /\ \A j \in DOMAIN Reported(ms, body) : i + Len(ms) < j /\ j < n =>
                  \E k \in DOMAIN body : i < k /\ Reported(ms, body)[j] = body[k]
<1> DEFINE all == Reported(ms, body)
           n == Len(ms) + Len(body) + 1
<1>1. /\ Len(ms) \in Nat /\ Len(body) \in Nat
      /\ DOMAIN all = 1 .. n /\ DOMAIN body = 1 .. Len(body)
      /\ \A k \in DOMAIN body : all[k + Len(ms)] = body[k]
      /\ all[n].kind = "snapshot" /\ all[n].docs = docs
      /\ \A k \in DOMAIN body : body[k].kind # "snapshot"
  BY BodyFacts
<1> HIDE DEF all
<1>2. ASSUME NEW j \in DOMAIN all, i + Len(ms) < j, j < n
      PROVE  \E k \in DOMAIN body : i < k /\ all[j] = body[k]
  <2>1. j - Len(ms) \in DOMAIN body /\ i < j - Len(ms) /\ (j - Len(ms)) + Len(ms) = j
    BY <1>1, <1>2
  <2>2. PICK k \in DOMAIN body : i < k /\ k + Len(ms) = j
    BY <2>1
  <2> QED  BY <1>1, <2>2
<1>3. NextSnapshot(all, i + Len(ms), n)
  <2>1. n \in DOMAIN all /\ n > i + Len(ms)
    BY <1>1
  <2>2. \A j \in DOMAIN all : i + Len(ms) < j /\ j < n => all[j].kind # "snapshot"
    BY <1>1, <1>2
  <2> QED  BY <1>1, <2>1, <2>2 DEF NextSnapshot
<1>4. n \in DOMAIN all
  BY <1>3 DEF NextSnapshot
<1> HIDE DEF n
<1> QED  BY <1>1, <1>2, <1>3, <1>4 DEF all

LEMMA FittingReported ==
    ASSUME docs \in Collections, NEW ms \in Seq(Messages), NEW body \in Seq(Messages), NEW ts,
           Body(body, ts), Fitting(ms)
    PROVE  Fitting(Reported(ms, body))
<1> DEFINE more == body \o <<Snapshot>>
           all == ms \o more
<1>1. /\ more \in Seq(Messages) /\ all = Reported(ms, body)
      /\ \A i \in DOMAIN more : \/ i \in DOMAIN body /\ more[i] = body[i]
                                \/ more[i] = Snapshot
      /\ Snapshot.kind = "snapshot"
  BY BodyFacts DEF Reported
<1> HIDE DEF more, all
<1>2. ASSUME NEW i \in DOMAIN more
      PROVE  /\ more[i].kind = "docs" => Fit(all, i + Len(ms), more[i].added, more[i].removed)
             /\ more[i].kind = "filter" /\ more[i].target = Query => Undisturbed(all, i + Len(ms))
  <2>1. CASE i \in DOMAIN body /\ more[i] = body[i]
    <3>1. PICK n \in DOMAIN all :
            /\ NextSnapshot(all, i + Len(ms), n) /\ all[n].docs = docs
            /\ \A j \in DOMAIN all : i + Len(ms) < j /\ j < n =>
                 \E k \in DOMAIN body : i < k /\ all[j] = body[k]
      BY <1>1, <2>1, BodyNext
    <3>2. body[i].kind = "docs" =>
            body[i].added \subseteq docs /\ body[i].removed \cap KeysOf(docs) = {}
      BY <2>1 DEF Body, Truly
    <3>3. \A k \in DOMAIN body : body[k].kind \in {"current", "docs", "filter"}
      BY DEF Body, Truly
    <3>4. \A k \in DOMAIN body : i < k /\ body[i].kind = "filter" /\ body[i].target = Query =>
             ~(body[k].kind = "docs" /\ body[k].target = Query)
      BY <2>1 DEF Body, DocsFirst
    <3>5. body[i].kind = "docs" => Fit(all, i + Len(ms), body[i].added, body[i].removed)
      BY <3>1, <3>2 DEF Fit
    <3>6. body[i].kind = "filter" /\ body[i].target = Query => Undisturbed(all, i + Len(ms))
      BY <3>1, <3>3, <3>4 DEF Undisturbed, IsAnswer
    <3> QED  BY <2>1, <3>5, <3>6
  <2>2. CASE more[i] = Snapshot
    BY <1>1, <2>2
  <2> QED  BY <1>1, <2>1, <2>2
<1>3. Fitting(ms \o more)
  BY <1>1, <1>2, FittingMore DEF all
<1> QED  BY <1>1, <1>3 DEF all

LEMMA HistoryReported ==
    ASSUME docs \in Collections, NEW ms \in Seq(Messages), NEW body \in Seq(Messages), NEW ts,
           Body(body, ts), NEW first, Convex(first, docs, ms)
    PROVE  /\ Convex(first, docs, Reported(ms, body))
           /\ NothingNew(first, docs, Reported(ms, body), first, docs, ms)
<1> DEFINE most == ms \o body
           all == Reported(ms, body)
<1>1. /\ most \in Seq(Messages) /\ all = Append(most, Snapshot)
      /\ Snapshot \in Messages /\ Snapshot.kind = "snapshot" /\ Snapshot.docs = docs
      /\ \A i \in DOMAIN body : body[i].kind # "snapshot"
  BY BodyFacts
<1>2. Convex(first, docs, most) /\ NothingNew(first, docs, most, first, docs, ms)
  BY <1>1, ConvexMore DEF NothingNew
<1> HIDE DEF most, all
<1>3. Convex(first, docs, all) /\ NothingNew(first, docs, all, first, docs, most)
  BY <1>1, <1>2, ConvexSnapshot DEF NothingNew
<1> QED  BY <1>2, <1>3 DEF NothingNew, all

LEMMA StandingReported ==
    ASSUME docs \in Collections, NEW ms \in Seq(Messages), NEW body \in Seq(Messages),
           NEW ts \in Tables(Watched), Body(body, ts), NEW p, NEW q, SameStore(q, p), NEW u,
           Standing(p, ms, ts, u),
           KeysOf(ts[u].known) \subseteq ts[u].scope
    PROVE  Standing(q, Reported(ms, body), UpToDate(ts), u)
<1> DEFINE more == body \o <<Snapshot>>
           most == ms \o body
           all == ms \o more
           scope == About(p.limbos, u)
           held == Held(p, ms, u)
           known == ts[u].known
<1>1. /\ more \in Seq(Messages) /\ all = Reported(ms, body) /\ most \in Seq(Messages)
      /\ all = Append(most, Snapshot)
      /\ \A i \in DOMAIN more : \/ i \in DOMAIN body /\ more[i] = body[i]
                                \/ more[i] = Snapshot
      /\ \A i \in DOMAIN more : ~IsAnswer(more[i], u)
      /\ Snapshot \in Messages /\ Snapshot.kind = "snapshot" /\ Snapshot.docs = docs
      /\ \A i \in DOMAIN body : body[i].kind \in {"current", "docs", "filter"}
  BY BodyFacts DEF Reported
<1>2. /\ Len(ms) \in Nat /\ Len(body) \in Nat /\ DOMAIN ms = 1 .. Len(ms)
      /\ DOMAIN most = 1 .. Len(ms) + Len(body) /\ Len(most) = Len(ms) + Len(body)
      /\ DOMAIN body = 1 .. Len(body)
      /\ \A i \in DOMAIN body : most[i + Len(ms)] = body[i]
  BY MoreFacts
<1>3. u \in DOMAIN ts /\ ts[u].scope = scope /\ Told(held, known, ms, u, scope)
  BY DEF Standing
<1> HIDE DEF more, most, all, scope, held, known
<1>4. \A i \in DOMAIN body : body[i].kind # "snapshot" /\ ~IsAnswer(body[i], u)
  BY <1>1 DEF IsAnswer
<1>5. Told(held, known, most, u, scope)
  BY <1>3, <1>4, ToldMore DEF most
<1>6. Scoped(known, scope) = known
  BY <1>3 DEF Scoped, KeysOf, known
<1>7. ASSUME NEW d \in Scoped(docs, scope) \ known
      PROVE  \E i \in DOMAIN most :
               Says(most, i, u, d) /\ \A x \in Points(most) : x < i \/ x = Len(most) + 1
  <2>1. PICK j \in DOMAIN body :
          body[j].kind = "docs" /\ body[j].target = u /\ d \in body[j].added
    BY <1>3, <1>7 DEF Body, Brought, known
  <2>2. PICK i \in DOMAIN most : i = j + Len(ms)
    BY <1>2
  <2>3. most[i] = body[j] /\ i > Len(ms) /\ i \in Nat
    BY <1>2, <2>2
  <2>4. ASSUME NEW k \in DOMAIN most, k > Len(ms)
        PROVE  \E l \in DOMAIN body : most[k] = body[l]
    <3>1. k - Len(ms) \in DOMAIN body /\ (k - Len(ms)) + Len(ms) = k
      BY <1>2, <2>4
    <3>2. PICK l \in DOMAIN body : l + Len(ms) = k
      BY <3>1
    <3> QED  BY <1>2, <3>2
  <2>5. Quiet(most, i, u)
    <3>1. \A k \in DOMAIN most : k >= i => k > Len(ms)
      BY <1>2, <2>3
    <3> QED  BY <1>4, <2>4, <3>1 DEF Quiet
  <2>6. ASSUME NEW x \in Points(most), ~(x < i)
        PROVE  x = Len(most) + 1
    <3>1. x \in Nat /\ x <= Len(most) + 1 /\ x > Len(ms)
      BY <1>2, <2>3, <2>6 DEF Points
    <3>2. x \notin DOMAIN most
      BY <1>1, <2>4, <3>1 DEF Points
    <3> QED  BY <1>2, <3>1, <3>2
  <2>7. Says(most, i, u, d)
    BY <2>1, <2>3, <2>5 DEF Says
  <2> QED  BY <2>6, <2>7
<1>8. Told(held, Scoped(docs, scope), all, u, scope)
  BY <1>1, <1>5, <1>6, <1>7, ToldSnapshot
<1>9. u \in DOMAIN UpToDate(ts) /\ UpToDate(ts)[u].scope = ts[u].scope
      /\ UpToDate(ts)[u].known = Scoped(docs, scope)
  BY <1>3, UpToDateAt
<1>10. ASSUME NEW i \in DOMAIN more, u # Query, more[i].kind = "filter", more[i].target = u,
              more[i].count = 0
       PROVE  Fit(all, i + Len(ms), {}, {p.limbos.active[u].key})
  <2>1. i \in DOMAIN body /\ more[i] = body[i]
    BY <1>1, <1>10
  <2>2. Cardinality(Scoped(docs, scope)) = 0
    BY <1>3, <1>10, <2>1 DEF Body, Truly
  <2>3. Scoped(docs, scope) = {}
    <3>1. IsFiniteSet(Scoped(docs, scope))
      BY ScopedType, CollectionFinite
    <3> QED  BY <2>2, <3>1, FS_EmptySet
  <2>4. {p.limbos.active[u].key} \cap KeysOf(docs) = {}
    <3>1. scope = {p.limbos.active[u].key}
      BY <1>10 DEF About, scope
    <3>2. \A d \in docs : d[1] \notin scope
      BY <2>3 DEF Scoped
    <3> QED  BY <3>1, <3>2 DEF KeysOf
  <2>5. PICK n \in DOMAIN all : NextSnapshot(all, i + Len(ms), n) /\ all[n].docs = docs
    <3>1. \E n \in DOMAIN Reported(ms, body) : /\ NextSnapshot(Reported(ms, body), i + Len(ms), n)
                                               /\ Reported(ms, body)[n].docs = docs
      BY <2>1, BodyNext
    <3> QED  BY <1>1, <3>1
  <2> QED  BY <2>4, <2>5 DEF Fit
<1>11. Standing(q, all, UpToDate(ts), u)
  BY <1>1, <1>8, <1>9, <1>10, StandingMore DEF all, held, scope
<1> QED  BY <1>1, <1>11

(* The snapshots there are when a body of messages has been reported.      *)
LEMMA SnapshotsReported ==
    ASSUME docs \in Collections, NEW ms \in Seq(Messages), NEW body \in Seq(Messages), NEW ts,
           Body(body, ts)
    PROVE  /\ \A n \in DOMAIN Reported(ms, body) : Reported(ms, body)[n].kind = "snapshot" =>
                \/ /\ n \in DOMAIN ms /\ ms[n] = Reported(ms, body)[n]
                   /\ \A t : Quiet(Reported(ms, body), n, t) <=> Quiet(ms, n, t)
                \/ /\ Reported(ms, body)[n].docs = docs
                   /\ \A t : Quiet(Reported(ms, body), n, t)
           /\ \A x, t : Quiet(Reported(ms, body), x, t) => Quiet(ms, x, t)
<1> DEFINE more == body \o <<Snapshot>>
           all == Reported(ms, body)
           n == Len(ms) + Len(body) + 1
<1>1. /\ more \in Seq(Messages) /\ all = ms \o more
      /\ Len(ms) \in Nat /\ Len(body) \in Nat
      /\ DOMAIN ms = 1 .. Len(ms) /\ DOMAIN all = 1 .. n /\ DOMAIN body = 1 .. Len(body)
      /\ \A k \in DOMAIN ms : all[k] = ms[k]
      /\ \A k \in DOMAIN body : all[k + Len(ms)] = body[k]
      /\ all[n].kind = "snapshot" /\ all[n].docs = docs
      /\ \A k \in DOMAIN body : body[k].kind # "snapshot"
      /\ \A i \in DOMAIN more : \A t : ~IsAnswer(more[i], t)
  BY BodyFacts DEF Reported
<1> HIDE DEF more, all
<1>2. \A x, t : Quiet(all, x, t) => Quiet(ms, x, t)
  <2>1. \A k \in DOMAIN ms : k \in DOMAIN all /\ all[k] = ms[k]
    BY <1>1
  <2> QED  BY <2>1, QuietLess
<1>3. \A x, t : Quiet(ms, x, t) => Quiet(all, x, t)
  BY <1>1, QuietMore
<1>4. \A t : Quiet(all, n, t)
  BY <1>1 DEF Quiet, IsAnswer
<1>5. ASSUME NEW i \in DOMAIN all, all[i].kind = "snapshot"
      PROVE  i \in DOMAIN ms \/ i = n
  <2>1. CASE i > Len(ms) /\ i < n
    <3>1. i - Len(ms) \in DOMAIN body /\ (i - Len(ms)) + Len(ms) = i
      BY <1>1, <2>1
    <3>2. PICK j \in DOMAIN body : j + Len(ms) = i
      BY <3>1
    <3> QED  BY <1>1, <1>5, <3>2
  <2> QED  BY <1>1, <2>1
<1> HIDE DEF n
<1> QED  BY <1>1, <1>2, <1>3, <1>4, <1>5 DEF all

LEMMA KnownReported ==
    ASSUME NEW ts \in Tables(Watched)
    PROVE  \A t \in DOMAIN UpToDate(ts) :
             KeysOf(UpToDate(ts)[t].known) \subseteq UpToDate(ts)[t].scope
<1> SUFFICES ASSUME NEW t \in DOMAIN UpToDate(ts)
             PROVE  KeysOf(UpToDate(ts)[t].known) \subseteq UpToDate(ts)[t].scope
  OBVIOUS
<1>1. t \in DOMAIN ts
  BY DEF UpToDate
<1>2. KeysOf(Scoped(docs, ts[t].scope)) \subseteq ts[t].scope
  BY DEF KeysOf, Scoped
<1> QED  BY <1>1, <1>2, UpToDateAt

LEMMA ReportChangesBacked ==
    ASSUME IInv, BackedInv, NEW how, ReportChanges(how)
    PROVE  BackedInv'
<1> SUFFICES ASSUME ~denied PROVE BackedInv'
  BY DEF BackedInv, ReportChanges, backend
<1> DEFINE body == Reports(served, how)
           p == Pair
           q == Pair'
           all == Reported(responses, body)
<1>1. /\ UNCHANGED <<docs, denied, changes, stream, remote, limbos, cache, synced, token, live,
                     current, limbo, seen, calls>>
      /\ body # <<>>
      /\ responses' = responses \o body \o <<Snapshot>> /\ served' = UpToDate(served)
  BY DEF ReportChanges, backend, disk, view
<1>2. /\ KnownInv /\ WatchingInv /\ FittingInv /\ HistoryInv /\ TokenInv /\ DiskInv
      /\ SeenInv /\ LimboInv /\ PromptInv /\ ViewInv
      /\ Types /\ responses \in Seq(Messages) /\ remote \in Remotes
      /\ Pair.remote = remote /\ Pair.limbos = limbos
  BY Backing
<1>3. docs \in Collections /\ served \in Tables(Watched)
  BY <1>2 DEF Types
<1>4. \A t \in DOMAIN served : KeysOf(served[t].known) \subseteq served[t].scope
  BY <1>2 DEF KnownInv
<1>5. body \in Seq(Messages) /\ Body(body, served)
  BY <1>3, <1>4, ReportsDetails DEF Body
<1>6. DOMAIN served # {}
  BY <1>1, <1>3, ReportsType
<1> HIDE DEF body
<1>7. q = p /\ SameStore(q, p)
  BY <1>1 DEF SameStore, Pair
<1>8. responses' = all
  <2>1. /\ responses \o body \in Seq(Messages) /\ Snapshot \in Messages
        /\ all = Append(responses \o body, Snapshot)
    BY <1>2, <1>3, <1>5, BodyFacts
  <2>2. Append(responses \o body, Snapshot) = (responses \o body) \o <<Snapshot>>
    BY <2>1, OneMore
  <2> QED  BY <1>1, <2>1, <2>2
<1> HIDE DEF p, q, all
<1>9. WatchingInv'
  <2>1. ASSUME stream = "open", NEW u \in DOMAIN remote.targets
        PROVE  Watching(p, all, UpToDate(served), u)
    <3>1. Watching(p, responses, served, u)
      BY <1>2, <2>1 DEF WatchingInv, p
    <3>2. ASSUME Standing(p, responses, served, u)
          PROVE  Standing(p, all, UpToDate(served), u)
      <4>1. u \in DOMAIN served
        BY <3>2 DEF Standing
      <4> QED  BY <1>2, <1>3, <1>4, <1>5, <1>7, <3>2, <4>1, StandingReported DEF all
    <3> QED  BY <3>1, <3>2 DEF Watching
  <2> QED  BY <1>1, <1>7, <1>8, <2>1 DEF WatchingInv, q
<1>10. FittingInv'
  <2>1. Fitting(all)
    BY <1>2, <1>3, <1>5, FittingReported DEF FittingInv, all
  <2>2. Gathering(p.remote, all) /\ TakenBack(p.remote, synced) /\ Receipts(p)
    <3>1. body \o <<Snapshot>> \in Seq(Messages)
      BY <1>2, <1>3, <1>5, BodyFacts
    <3>2. Gathering(p.remote, responses) /\ TakenBack(p.remote, synced) /\ Receipts(p)
      BY <1>2 DEF FittingInv, p
    <3> QED  BY <1>2, <1>7, <3>1, <3>2, GatheringMore DEF all, Reported
  <2> QED  BY <1>1, <1>2, <1>7, <1>8, <2>1, <2>2 DEF FittingInv, p, q
<1>11. HistoryInv' /\ DiskInv'
  <2> DEFINE first == UNION token
  <2>1. Convex(first, docs, responses)
    BY <1>2 DEF HistoryInv
  <2> HIDE DEF first
  <2>2. Convex(first, docs, all) /\ NothingNew(first, docs, all, first, docs, responses)
    BY <1>2, <1>3, <1>5, <2>1, HistoryReported DEF all
  <2> QED  BY <1>1, <1>2, <1>8, <2>2, HistoryOn, DiskOn DEF first
<1>12. KnownInv'
  BY <1>1, <1>3, KnownReported DEF KnownInv
<1>13. TokenInv' /\ LimboInv' /\ ViewInv'
  BY <1>1, <1>2 DEF TokenInv, LimboInv, ViewInv
<1>14. ASSUME NEW n \in DOMAIN all, all[n].kind = "snapshot"
       PROVE  \/ /\ n \in DOMAIN responses /\ responses[n] = all[n]
                 /\ \A t : Quiet(all, n, t) <=> Quiet(responses, n, t)
              \/ all[n].docs = docs /\ \A t : Quiet(all, n, t)
  BY <1>2, <1>3, <1>5, <1>14, SnapshotsReported DEF all
<1>15. SeenInv'
  <2> SUFFICES ASSUME live, NEW n \in DOMAIN all, all[n].kind = "snapshot", Quiet(all, n, Query),
                      ~Asked(remote.sent, Query)
               PROVE  all[n].docs \in seen
    BY <1>1, <1>2, <1>8 DEF SeenInv
  <2> QED  BY <1>2, <1>14 DEF SeenInv
<1>16. PromptInv'
  <2> SUFFICES ASSUME live, current, synced # {}
               PROVE  /\ \A n \in DOMAIN all : all[n].kind = "snapshot" =>
                           Quiet(all, n, Query) /\ ~Asked(remote.sent, Query)
                      /\ \A i \in DOMAIN remote.sent : remote.sent[i].target # Query
    BY <1>1, <1>8 DEF PromptInv
  <2>1. /\ \A n \in DOMAIN responses : responses[n].kind = "snapshot" =>
             Quiet(responses, n, Query)
        /\ \A i \in DOMAIN remote.sent : remote.sent[i].target # Query
    BY <1>2, <1>6 DEF PromptInv
  <2> QED  BY <1>14, <2>1 DEF Asked
<1> QED  BY <1>9, <1>10, <1>11, <1>12, <1>13, <1>15, <1>16 DEF BackedInv

(* A report to which it is added that a target is current.                 *)
LEMMA BodyCurrent ==
    ASSUME NEW ts, NEW most \in Seq(Messages), NEW m \in Messages, m.kind = "current",
           \A i \in DOMAIN most : Truly(most[i], ts),
           \A t \in DOMAIN ts : Brought(most, t, ts[t]), DocsFirst(most)
    PROVE  most \o <<m>> \in Seq(Messages) /\ Body(most \o <<m>>, ts)
<1> DEFINE body == most \o <<m>>
<1>1. /\ body \in Seq(Messages) /\ Len(most) \in Nat
      /\ DOMAIN most = 1 .. Len(most) /\ DOMAIN body = 1 .. Len(most) + 1
      /\ \A i \in DOMAIN most : body[i] = most[i]
      /\ body[Len(most) + 1] = m
  <2>1. body = Append(most, m)
    BY OneMore
  <2> HIDE DEF body
  <2> QED  BY <2>1, OneMoreFacts
<1> HIDE DEF body
<1>2. \A i \in DOMAIN body : body[i].kind = "current" \/ i \in DOMAIN most
  BY <1>1
<1>3. \A i \in DOMAIN body : body[i].kind = "current" \/ Truly(body[i], ts)
  BY <1>1, <1>2
<1>4. \A i \in DOMAIN most : i \in DOMAIN body
  BY <1>1
<1>5. \A t \in DOMAIN ts : Brought(body, t, ts[t])
  BY <1>1, <1>4 DEF Brought
<1>6. DocsFirst(body)
  <2> SUFFICES ASSUME NEW i \in DOMAIN body, NEW j \in DOMAIN body,
                      i < j, body[i].kind = "filter", body[i].target = Query,
                      body[j].kind = "docs", body[j].target = Query
               PROVE  FALSE
    BY DEF DocsFirst
  <2>1. i \in DOMAIN most /\ j \in DOMAIN most
    BY <1>2
  <2> QED  BY <1>1, <2>1 DEF DocsFirst
<1> QED  BY <1>1, <1>3, <1>5, <1>6 DEF Body, body

(* The messages of an answer are acknowledged, and then reported.          *)
LEMMA AnswerGrouped ==
    ASSUME NEW ms \in Seq(Messages), NEW most \in Seq(Messages), NEW m \in Messages,
           Snapshot \in Messages
    PROVE  (ms \o most) \o <<m, Snapshot>> = Reported(ms, most \o <<m>>)
<1>1. <<m>> \in Seq(Messages) /\ <<Snapshot>> \in Seq(Messages) /\ <<>> \in Seq(Messages)
  BY OneMore
<1>2. <<m, Snapshot>> = <<m>> \o <<Snapshot>>
  BY TwoOfThem
<1>3. ms \o <<>> = ms /\ <<>> \o most = most
  OBVIOUS
<1> DEFINE s2 == <<>>
           s4 == <<m>>
           s5 == <<Snapshot>>
<1> HIDE DEF s2, s4, s5
<1>4. ((ms \o s2) \o most) \o (s4 \o s5) = ms \o (((s2 \o most) \o s4) \o s5)
  BY <1>1, Regrouped DEF Regrouping, s2, s4, s5
<1> QED  BY <1>2, <1>3, <1>4 DEF Reported, s2, s4, s5

(* A target that has asked from its token is answered.                     *)
LEMMA StandingFresh ==
    ASSUME NEW ms \in Seq(Messages), NEW p, NEW t \in Nat, NEW ts, t \in DOMAIN ts,
           ts[t].scope = About(p.limbos, t), ts[t].known \subseteq UNION p.remote.targets[t]
    PROVE  Standing(p, Append(ms, Ack("added", t)), ts, t)
<1> DEFINE m == Ack("added", t)
           all == Append(ms, m)
<1>1. m \in Messages /\ m.kind = "added" /\ m.target = t /\ IsAnswer(m, t)
  BY AckType DEF IsAnswer
<1>2. /\ Len(ms) \in Nat /\ DOMAIN all = 1 .. Len(ms) + 1
      /\ all[Len(ms) + 1] = m
  BY <1>1, OneMoreFacts
<1> HIDE DEF m, all
<1>3. \E i \in DOMAIN all : all[i] = m /\ Quiet(all, i + 1, t)
  <2>1. Quiet(all, (Len(ms) + 1) + 1, t)
    BY <1>2 DEF Quiet
  <2>2. Len(ms) + 1 \in DOMAIN all
    BY <1>2
  <2> QED  BY <1>2, <2>1, <2>2
<1>4. \A i \in DOMAIN all : ~Quiet(all, i, t)
  <2>1. \A i \in DOMAIN all : Len(ms) + 1 >= i /\ Len(ms) + 1 \in DOMAIN all
    BY <1>2
  <2> QED  BY <1>1, <1>2, <2>1 DEF Quiet
<1>5. 1 \in DOMAIN all
  BY <1>2
<1>6. Noted(p, all, t) /\ NoneLeft(p, all, t)
  BY <1>4, <1>5 DEF Noted, NoneLeft
<1>7. Told(Held(p, all, t), ts[t].known, all, t, About(p.limbos, t))
  <2> DEFINE first == Held(p, all, t)
             last == ts[t].known
  <2>1. last \in SUBSET first
    BY DEF Held
  <2> HIDE DEF first, last
  <2>2. Told(first, last, all, t, About(p.limbos, t))
    BY <1>1, <2>1, ToldFresh DEF all
  <2> QED  BY <2>2 DEF first, last
<1> QED  BY <1>3, <1>6, <1>7 DEF Standing, all, m

LEMMA AnswerWatchBacked ==
    ASSUME IInv, BackedInv, NEW how, AnswerWatch(how)
    PROVE  BackedInv'
<1> SUFFICES ASSUME ~denied PROVE BackedInv'
  BY DEF BackedInv, AnswerWatch, backend
<1> DEFINE req == Head(remote.sent)
           t == req.target
           a == Ack("added", t)
           ts == With(served, t, [scope |-> req.scope,
                                  known |-> Scoped(UNION req.token, req.scope)])
           body == Reports(ts, how) \o <<Ack("current", t)>>
           p == Pair
           q == Pair'
           mid == Append(responses, a)
           all == Reported(mid, body)
<1>1. /\ UNCHANGED <<docs, denied, changes, stream, limbos, cache, synced, token, live, current,
                     limbo, seen, calls>>
      /\ remote.sent # <<>> /\ req.kind = "watch"
      /\ responses' = responses \o <<a>> \o Reports(ts, how) \o <<Ack("current", t), Snapshot>>
      /\ served' = UpToDate(ts)
      /\ remote' = [remote EXCEPT !.sent = Tail(@)]
  BY DEF AnswerWatch, backend, disk, view
<1>2. /\ KnownInv /\ WatchingInv /\ FittingInv /\ HistoryInv /\ TokenInv /\ DiskInv
      /\ SeenInv /\ LimboInv /\ PromptInv /\ ViewInv
      /\ Types /\ responses \in Seq(Messages) /\ remote \in Remotes
      /\ Agree(remote, limbos, live) /\ RemoteSound(remote, responses, stream, denied)
      /\ Pair.remote = remote /\ Pair.limbos = limbos
  BY Backing
<1>3. /\ remote.sent \in Seq(Requests) /\ req = remote.sent[1] /\ 1 \in DOMAIN remote.sent
      /\ req \in Requests /\ t \in Nat /\ req.scope \in SUBSET Keys /\ req.token \in Tokens
  <2>1. remote.sent \in Seq(Requests)
    BY <1>2 DEF Remotes
  <2>2. req \in Requests /\ req = remote.sent[1] /\ 1 \in DOMAIN remote.sent
    BY <1>1, <2>1, TailFacts
  <2>3. req.scope \in SUBSET Keys /\ req.token \in Tokens
    BY <1>1, <2>2 DEF Requests
  <2> QED  BY <2>1, <2>2, <2>3, MessageTargets
<1>4. /\ docs \in Collections /\ served \in Tables(Watched)
  BY <1>2 DEF Types
<1>5. /\ ts \in Tables(Watched) /\ DOMAIN ts = DOMAIN served \cup {t}
      /\ ts[t].scope = req.scope /\ ts[t].known = Scoped(UNION req.token, req.scope)
      /\ \A u \in DOMAIN served \ {t} : ts[u] = served[u]
  <2> DEFINE v == [scope |-> req.scope, known |-> Scoped(UNION req.token, req.scope)]
  <2>1. Scoped(UNION req.token, req.scope) \in Collections
    BY <1>3, TokenIsCollection, ScopedType
  <2>2. v \in Watched
    BY <1>3, <2>1 DEF Watched
  <2>3. v.scope = req.scope /\ v.known = Scoped(UNION req.token, req.scope)
    OBVIOUS
  <2>4. ts = With(served, t, v)
    OBVIOUS
  <2> HIDE DEF v, ts, t, req
  <2>5. ts \in Tables(Watched)
    BY <1>3, <1>4, <2>2, <2>4, WithTable
  <2>6. /\ DOMAIN ts = DOMAIN served \cup {t} /\ ts[t] = v
        /\ \A u \in DOMAIN served \ {t} : ts[u] = served[u]
    <3>1. /\ DOMAIN With(served, t, v) = DOMAIN served \cup {t} /\ With(served, t, v)[t] = v
          /\ \A u \in DOMAIN served \ {t} : With(served, t, v)[u] = served[u]
      BY DEF With
    <3> QED  BY <2>4, <3>1
  <2> QED  BY <2>3, <2>5, <2>6
<1>6. \A u \in DOMAIN ts : KeysOf(ts[u].known) \subseteq ts[u].scope
  <2> HIDE DEF ts
  <2>1. KeysOf(ts[t].known) \subseteq ts[t].scope
    BY <1>5 DEF KeysOf, Scoped
  <2> QED  BY <1>2, <1>5, <2>1 DEF KnownInv
<1>7. /\ a \in Messages /\ a.kind = "added" /\ a.target = t
      /\ Ack("current", t) \in Messages /\ Ack("current", t).kind = "current"
  BY <1>3, AckType
<1> HIDE DEF ts
<1>8. body \in Seq(Messages) /\ Body(body, ts) /\ Reports(ts, how) \in Seq(Messages)
  BY <1>4, <1>5, <1>6, <1>7, ReportsDetails, BodyCurrent
<1>9. /\ mid \in Seq(Messages) /\ mid = responses \o <<a>> /\ <<a>> \in Seq(Messages)
      /\ \A i \in DOMAIN <<a>> : <<a>>[i] = a
      /\ DOMAIN responses = 1 .. Len(responses) /\ Len(responses) \in Nat
      /\ DOMAIN mid = 1 .. Len(responses) + 1
      /\ \A i \in DOMAIN responses : mid[i] = responses[i]
      /\ mid[Len(responses) + 1] = a
  BY <1>2, <1>7, OneMore, OneMoreFacts
<1>10. responses' = all
  <2>1. Snapshot \in Messages
    BY <1>4, SnapshotType
  <2> HIDE DEF a, mid
  <2> QED  BY <1>1, <1>7, <1>8, <1>9, <2>1, AnswerGrouped
<1>11. /\ remote'.sent = Tail(remote.sent) /\ SameStore(q, p) /\ stream = "open"
       /\ q.remote = remote' /\ q.limbos = limbos
       /\ remote'.targets = remote.targets
  <2>1. stream = "open"
    BY <1>1, <1>2 DEF RemoteSound
  <2>2. q.remote = remote' /\ q.limbos = limbos
    BY <1>1, PairParts DEF Pair
  <2>3. /\ remote'.sent = Tail(remote.sent) /\ remote'.targets = remote.targets
        /\ remote'.states = remote.states /\ remote'.updated = remote.updated
        /\ remote'.gone = remote.gone /\ remote'.resets = remote.resets
    BY <1>1, <1>2 DEF Remotes
  <2> QED  BY <1>2, <2>1, <2>2, <2>3 DEF SameStore
<1>12. SameStore(p, p)
  BY DEF SameStore
<1> HIDE DEF body, p, q, all, mid
<1>13. ASSUME NEW u \in DOMAIN remote.targets
       PROVE  Watching(q, all, served', u)
  <2> DEFINE request == Watch(u, About(limbos, u), remote.targets[u])
  <2>1. Watching(p, responses, served, u) /\ u \in DOMAIN remote.states
    <3>1. Watching(p, responses, served, u)
      BY <1>2, <1>11, <1>13 DEF WatchingInv, p
    <3> QED  BY <1>2, <3>1 DEF Watching, p
  <2>2. /\ request.target = u /\ request.scope = About(limbos, u)
        /\ request.token = remote.targets[u]
    BY DEF Watch
  <2>3. u \in DOMAIN q.remote.states /\ q.remote.sent = Tail(remote.sent)
        /\ request = Watch(u, About(q.limbos, u), q.remote.targets[u])
    BY <1>2, <1>11, <2>1 DEF SameStore, p
  <2> HIDE DEF request
  <2>4. Asked(remote.sent, u) => LastAsked(remote.sent, request)
    BY <1>2, <2>1 DEF Watching, p, request
  <2>5. CASE Asked(Tail(remote.sent), u)
    <3>1. LastAsked(Tail(remote.sent), request)
      BY <1>1, <1>3, <2>2, <2>4, <2>5, AskedTail
    <3> QED  BY <2>3, <2>5, <3>1 DEF Watching
  <2>6. CASE ~Asked(Tail(remote.sent), u)
    <3>1. Standing(p, mid, ts, u)
      <4>1. CASE Asked(remote.sent, u)
        <5>1. request = req
          BY <1>1, <1>3, <2>2, <2>4, <2>6, <4>1, AskedTail
        <5>2. u = t /\ ts[u].scope = About(p.limbos, u)
              /\ ts[u].known \subseteq UNION p.remote.targets[u]
          BY <1>2, <1>5, <2>2, <5>1 DEF Scoped, p
        <5> HIDE DEF t
        <5> QED  BY <1>2, <1>3, <1>5, <5>2, StandingFresh DEF mid, a
      <4>2. CASE ~Asked(remote.sent, u)
        <5>1. Standing(p, responses, served, u)
          BY <1>2, <2>1, <4>2 DEF Watching, p
        <5>2. u # t
          BY <1>1, <1>3, <4>2, AskedTail
        <5>3. u \in DOMAIN ts /\ ts[u] = served[u]
          BY <1>5, <5>1, <5>2 DEF Standing
        <5> DEFINE more == <<a>>
        <5>4. more \in Seq(Messages)
              /\ \A i \in DOMAIN more : /\ more[i].kind \notin {"snapshot", "filter"}
                                        /\ ~IsAnswer(more[i], u)
          BY <1>7, <1>9, <5>2 DEF IsAnswer
        <5> HIDE DEF more
        <5>5. Told(Held(p, responses, u), ts[u].known, responses \o more, u, About(p.limbos, u))
          BY <1>2, <5>1, <5>3, <5>4, ToldMore DEF Standing
        <5>6. Standing(p, responses \o more, ts, u)
          BY <1>2, <1>12, <5>1, <5>3, <5>4, <5>5, StandingMore
        <5> QED  BY <1>9, <5>6 DEF more
      <4> QED  BY <4>1, <4>2
    <3>2. u \in DOMAIN ts
      BY <3>1 DEF Standing
    <3>3. Standing(q, all, UpToDate(ts), u)
      BY <1>4, <1>5, <1>6, <1>8, <1>9, <1>11, <3>1, <3>2, StandingReported DEF all
    <3> QED  BY <1>1, <2>3, <2>6, <3>3 DEF Watching
  <2> QED  BY <2>5, <2>6
<1>14. WatchingInv'
  BY <1>10, <1>11, <1>13 DEF WatchingInv, q
<1>15. Fitting(mid) /\ Gathering(p.remote, mid) /\ TakenBack(p.remote, synced) /\ Receipts(p)
  <2>1. \A i \in DOMAIN <<a>> : <<a>>[i].kind \notin {"docs", "filter"}
    BY <1>7, <1>9
  <2> DEFINE more == <<a>>
  <2> HIDE DEF more
  <2>2. Fitting(responses \o more)
    BY <1>2, <1>9, <2>1, FittingMore DEF FittingInv, more
  <2>3. /\ Gathering(p.remote, responses \o more) /\ TakenBack(p.remote, synced)
        /\ Receipts(p)
    BY <1>2, <1>9, <1>12, GatheringMore DEF FittingInv, more, p
  <2> QED  BY <1>9, <2>2, <2>3 DEF more
<1>16. FittingInv'
  <2>1. Fitting(all)
    BY <1>4, <1>8, <1>9, <1>15, FittingReported DEF all
  <2>2. Gathering(q.remote, all) /\ TakenBack(q.remote, synced) /\ Receipts(q)
    <3>1. body \o <<Snapshot>> \in Seq(Messages)
      BY <1>4, <1>8, <1>9, BodyFacts
    <3> QED  BY <1>9, <1>11, <1>15, <3>1, GatheringMore DEF all, Reported
  <2> QED  BY <1>1, <1>10, <1>11, <2>1, <2>2 DEF FittingInv, q
<1>17. HistoryInv' /\ DiskInv'
  <2> DEFINE first == UNION token
             more == <<a>>
  <2>1. Convex(first, docs, responses)
    BY <1>2 DEF HistoryInv
  <2>2. /\ more \in Seq(Messages) /\ mid = responses \o more
        /\ \A i \in DOMAIN more : more[i].kind # "snapshot"
    BY <1>7, <1>9
  <2> HIDE DEF first, more
  <2>3. Convex(first, docs, mid) /\ NothingNew(first, docs, mid, first, docs, responses)
    BY <1>2, <2>1, <2>2, ConvexMore DEF NothingNew
  <2>4. Convex(first, docs, all) /\ NothingNew(first, docs, all, first, docs, mid)
    BY <1>4, <1>8, <1>9, <2>3, HistoryReported DEF all
  <2>5. NothingNew(first, docs, all, first, docs, responses)
    BY <2>3, <2>4 DEF NothingNew
  <2> QED  BY <1>1, <1>2, <1>10, <2>4, <2>5, HistoryOn, DiskOn DEF first
<1>18. KnownInv'
  BY <1>1, <1>5, KnownReported DEF KnownInv
<1>19. TokenInv' /\ LimboInv' /\ ViewInv'
  BY <1>1, <1>2, <1>11 DEF TokenInv, LimboInv, ViewInv
<1>20. ASSUME NEW n \in DOMAIN all, all[n].kind = "snapshot"
       PROVE  \/ /\ n \in DOMAIN responses /\ responses[n] = all[n]
                 /\ \A u : Quiet(all, n, u) <=> Quiet(mid, n, u)
              \/ all[n].docs = docs /\ \A u : Quiet(all, n, u)
  <2>1. \/ /\ n \in DOMAIN mid /\ mid[n] = all[n]
           /\ \A u : Quiet(all, n, u) <=> Quiet(mid, n, u)
        \/ all[n].docs = docs /\ \A u : Quiet(all, n, u)
    BY <1>4, <1>8, <1>9, <1>20, SnapshotsReported DEF all
  <2>2. n \in DOMAIN mid /\ mid[n] = all[n] => n \in DOMAIN responses /\ responses[n] = all[n]
    BY <1>7, <1>9, <1>20
  <2> QED  BY <2>1, <2>2
<1>21. \A x, u : Quiet(mid, x, u) => Quiet(responses, x, u)
  <2>1. \A k \in DOMAIN responses : k \in DOMAIN mid /\ mid[k] = responses[k]
    BY <1>9
  <2> QED  BY <2>1, QuietLess
<1>22. t # Query => \A x : Quiet(responses, x, Query) => Quiet(mid, x, Query)
  <2> DEFINE more == <<a>>
  <2>1. t # Query => \A i \in DOMAIN more : ~IsAnswer(more[i], Query)
    BY <1>7, <1>9 DEF IsAnswer
  <2> HIDE DEF more
  <2> QED  BY <1>2, <1>9, <2>1, QuietMore DEF more
<1>23. ASSUME NEW n \in DOMAIN responses, Quiet(mid, n, Query)
       PROVE  t # Query
  <2>1. Len(responses) + 1 \in DOMAIN mid /\ Len(responses) + 1 >= n
    BY <1>9
  <2> QED  BY <1>7, <1>9, <1>23, <2>1 DEF Quiet, IsAnswer
<1>24. SeenInv'
  <2> SUFFICES ASSUME live, NEW n \in DOMAIN all, all[n].kind = "snapshot", Quiet(all, n, Query),
                      ~Asked(Tail(remote.sent), Query)
               PROVE  all[n].docs \in seen
    BY <1>1, <1>2, <1>10, <1>11 DEF SeenInv
  <2>1. CASE all[n].docs = docs
    BY <1>2, <2>1 DEF SeenInv
  <2>2. CASE n \in DOMAIN responses /\ responses[n] = all[n] /\ Quiet(mid, n, Query)
    <3>1. t # Query
      BY <1>23, <2>2
    <3>2. ~Asked(remote.sent, Query)
      BY <1>1, <1>3, <3>1, AskedTail
    <3> QED  BY <1>2, <1>21, <2>2, <3>2 DEF SeenInv
  <2> QED  BY <1>20, <2>1, <2>2
<1>25. PromptInv'
  <2> SUFFICES ASSUME live, current, synced # {}
               PROVE  /\ \A n \in DOMAIN all : all[n].kind = "snapshot" =>
                           Quiet(all, n, Query) /\ ~Asked(Tail(remote.sent), Query)
                      /\ \A i \in DOMAIN Tail(remote.sent) : Tail(remote.sent)[i].target # Query
    BY <1>1, <1>10, <1>11 DEF PromptInv
  <2>1. /\ \A n \in DOMAIN responses : responses[n].kind = "snapshot" =>
             Quiet(responses, n, Query) /\ ~Asked(remote.sent, Query)
        /\ \A i \in DOMAIN remote.sent : remote.sent[i].target = Query => i = 1
    BY <1>2 DEF PromptInv
  <2>2. \A i \in DOMAIN Tail(remote.sent) :
          i \in Nat /\ i > 0 /\ i + 1 \in DOMAIN remote.sent
          /\ remote.sent[i + 1] = Tail(remote.sent)[i]
    BY <1>1, <1>3, TailFacts
  <2>3. \A i \in DOMAIN Tail(remote.sent) : Tail(remote.sent)[i].target # Query
    BY <2>1, <2>2
  <2>4. ASSUME NEW n \in DOMAIN all, all[n].kind = "snapshot"
        PROVE  Quiet(all, n, Query)
    <3>1. CASE n \in DOMAIN responses /\ responses[n] = all[n]
      <4>1. Quiet(responses, n, Query) /\ ~Asked(remote.sent, Query)
        BY <2>1, <2>4, <3>1
      <4>2. t # Query
        BY <1>1, <1>3, <4>1, AskedTail
      <4> QED  BY <1>20, <1>22, <2>4, <3>1, <4>1, <4>2
    <3> QED  BY <1>20, <2>4, <3>1
  <2> QED  BY <2>3, <2>4 DEF Asked
<1> QED  BY <1>14, <1>16, <1>17, <1>18, <1>19, <1>24, <1>25 DEF BackedInv
--------------------------------------------------------------------------------
(* What is read and gathered keeps the invariant *)

LEMMA QuietTail ==
    ASSUME NEW ms \in Seq(Messages), ms # <<>>, NEW t
    PROVE  /\ \A i \in Nat : i > 0 => (Quiet(Tail(ms), i, t) <=> Quiet(ms, i + 1, t))
           /\ Quiet(ms, 1, t) <=> Quiet(Tail(ms), 1, t) /\ ~IsAnswer(ms[1], t)
<1>1. /\ Len(ms) \in Nat /\ Len(ms) > 0
      /\ DOMAIN ms = 1 .. Len(ms) /\ DOMAIN Tail(ms) = 1 .. Len(ms) - 1
      /\ \A i \in DOMAIN Tail(ms) : Tail(ms)[i] = ms[i + 1]
  BY RestFacts
<1>2. ASSUME NEW i \in Nat, i > 0, Quiet(Tail(ms), i, t)
      PROVE  Quiet(ms, i + 1, t)
  <2> SUFFICES ASSUME NEW j \in DOMAIN ms, j >= i + 1
               PROVE  ~IsAnswer(ms[j], t)
    BY DEF Quiet
  <2>1. j - 1 \in DOMAIN Tail(ms) /\ j - 1 >= i /\ (j - 1) + 1 = j
    BY <1>1, <1>2
  <2>2. PICK k \in DOMAIN Tail(ms) : k >= i /\ k + 1 = j
    BY <2>1
  <2> QED  BY <1>1, <1>2, <2>2 DEF Quiet
<1>3. ASSUME NEW i \in Nat, i > 0, Quiet(ms, i + 1, t)
      PROVE  Quiet(Tail(ms), i, t)
  <2> SUFFICES ASSUME NEW j \in DOMAIN Tail(ms), j >= i
               PROVE  ~IsAnswer(Tail(ms)[j], t)
    BY DEF Quiet
  <2>1. j + 1 \in DOMAIN ms /\ j + 1 >= i + 1
    BY <1>1
  <2> QED  BY <1>1, <1>3, <2>1 DEF Quiet
<1>4. Quiet(ms, 1, t) <=> Quiet(ms, 2, t) /\ ~IsAnswer(ms[1], t)
  BY <1>1 DEF Quiet
<1>5. Quiet(Tail(ms), 1, t) <=> Quiet(ms, 2, t)
  <2>1. 1 + 1 = 2 /\ 1 \in Nat /\ 1 > 0
    OBVIOUS
  <2> QED  BY <1>2, <1>3, <2>1
<1> QED  BY <1>2, <1>3, <1>4, <1>5

(* A target that is answered is answered in what is left to read.          *)
LEMMA AnsweredTail ==
    ASSUME NEW ms \in Seq(Messages), ms # <<>>, NEW u,
           Quiet(ms, 1, u) \/ \E i \in DOMAIN ms : ms[i] = Ack("added", u) /\ Quiet(ms, i + 1, u)
    PROVE  \/ Quiet(Tail(ms), 1, u)
           \/ \E i \in DOMAIN Tail(ms) : Tail(ms)[i] = Ack("added", u) /\ Quiet(Tail(ms), i + 1, u)
<1> DEFINE rest == Tail(ms)
<1>1. /\ Len(ms) \in Nat /\ Len(ms) > 0
      /\ DOMAIN ms = 1 .. Len(ms) /\ DOMAIN rest = 1 .. Len(ms) - 1
      /\ \A i \in DOMAIN rest : rest[i] = ms[i + 1]
  BY RestFacts
<1>2. /\ \A i \in Nat : i > 0 => (Quiet(rest, i, u) <=> Quiet(ms, i + 1, u))
      /\ Quiet(ms, 1, u) => Quiet(rest, 1, u)
  BY QuietTail
<1> HIDE DEF rest
<1>3. Quiet(rest, 1, u) \/ \E i \in DOMAIN rest : rest[i] = Ack("added", u) /\ Quiet(rest, i + 1, u)
  <2>1. CASE Quiet(ms, 1, u)
    BY <1>2, <2>1
  <2>2. ASSUME NEW i \in DOMAIN ms, ms[i] = Ack("added", u), Quiet(ms, i + 1, u)
        PROVE  Quiet(rest, 1, u) \/ \E j \in DOMAIN rest : rest[j] = Ack("added", u)
                                                            /\ Quiet(rest, j + 1, u)
    <3>1. CASE i = 1
      <4>1. 1 \in Nat /\ 1 > 0 /\ Quiet(ms, 1 + 1, u)
        BY <2>2, <3>1
      <4> QED  BY <1>2, <4>1
    <3>2. CASE i # 1
      <4>1. i - 1 \in DOMAIN rest /\ (i - 1) + 1 = i
        BY <1>1, <3>2
      <4>2. PICK j \in DOMAIN rest : j + 1 = i
        BY <4>1
      <4>3. rest[j] = ms[i] /\ j \in Nat /\ j + 1 \in Nat /\ j + 1 > 0
        BY <1>1, <4>2
      <4>4. Quiet(rest, j + 1, u)
        BY <1>2, <2>2, <4>2, <4>3
      <4> QED  BY <2>2, <4>3, <4>4
    <3> QED  BY <3>1, <3>2
  <2> QED  BY <2>1, <2>2
<1> QED  BY <1>3 DEF rest

LEMMA NoneLeftTail ==
    ASSUME NEW ms \in Seq(Messages), ms # <<>>, NEW p, NEW u, NoneLeft(p, ms, u),
           NEW q, u # Query => q.limbos.active[u].key = p.limbos.active[u].key
    PROVE  NoneLeft(q, Tail(ms), u)
<1> DEFINE rest == Tail(ms)
<1>1. /\ Len(ms) \in Nat /\ Len(ms) > 0
      /\ DOMAIN ms = 1 .. Len(ms) /\ DOMAIN rest = 1 .. Len(ms) - 1
      /\ \A i \in DOMAIN rest : rest[i] = ms[i + 1]
  BY RestFacts
<1>2. /\ \A i \in Nat : i > 0 => (Quiet(rest, i, u) <=> Quiet(ms, i + 1, u))
      /\ Quiet(ms, 1, u) => Quiet(rest, 1, u)
  BY QuietTail
<1> HIDE DEF rest
<1> SUFFICES ASSUME NEW i \in DOMAIN rest, u # Query, rest[i].kind = "filter",
                    rest[i].target = u, rest[i].count = 0, Quiet(rest, i, u)
             PROVE  Fit(rest, i, {}, {p.limbos.active[u].key})
  BY DEF NoneLeft, rest
<1>3. i \in Nat /\ i > 0 /\ i + 1 \in DOMAIN ms /\ ms[i + 1] = rest[i] /\ i + 1 # 0
      /\ i + 1 \in Nat /\ (i + 1) - 1 = i
  BY <1>1
<1>4. Quiet(ms, i + 1, u)
  BY <1>2, <1>3
<1>5. Fit(ms, i + 1, {}, {p.limbos.active[u].key})
  BY <1>3, <1>4 DEF NoneLeft
<1>6. Fit(Tail(ms), IF i + 1 = 0 THEN 0 ELSE (i + 1) - 1, {}, {p.limbos.active[u].key})
  BY <1>3, <1>5, FitTail
<1> QED  BY <1>3, <1>6 DEF rest

(* The first message has been heeded for target u: what is held for it is  *)
(* still held, what the message says of it is held, and it fits.           *)
Heeded(q, p, ms, u) ==
    /\ Quiet(ms, 1, u) =>
         /\ \A d \in p.remote.updated :
              u # Query /\ d[1] \in Ensure(p.remote, u).added => d[1] \in Ensure(q.remote, u).added
         /\ \A d : Says(ms, 1, u, d) =>
              /\ d \in q.remote.updated
              /\ u # Query => d[1] \in Ensure(q.remote, u).added \/ p.limbos.active[u].received
    /\ Noted(q, Tail(ms), u)

LEMMA StandingRead ==
    ASSUME NEW ms \in Seq(Messages), ms # <<>>, ms[1].kind # "snapshot", NEW p, NEW q,
           q.limbos = p.limbos, q.remote.targets = p.remote.targets,
           p.remote.updated \subseteq q.remote.updated,
           NEW u, NEW sv, Standing(p, ms, sv, u), Heeded(q, p, ms, u)
    PROVE  Standing(q, Tail(ms), sv, u)
<1> DEFINE rest == Tail(ms)
<1>1. Quiet(ms, 1, u) => Quiet(rest, 1, u)
  BY QuietTail
<1>2. About(q.limbos, u) = About(p.limbos, u)
  OBVIOUS
<1> HIDE DEF rest
<1>3. Quiet(rest, 1, u) \/ \E i \in DOMAIN rest : rest[i] = Ack("added", u) /\ Quiet(rest, i + 1, u)
  BY AnsweredTail DEF Standing, rest
<1>4. Told(Held(q, rest, u), sv[u].known, rest, u, About(q.limbos, u))
  <2> DEFINE first == Held(p, ms, u)
             now == Held(q, rest, u)
             last == sv[u].known
             scope == About(p.limbos, u)
  <2>1. Told(first, last, ms, u, scope)
    BY DEF Standing
  <2>2. first \subseteq now
    BY <1>1 DEF Held, Heeded
  <2>3. ASSUME NEW d, Says(ms, 1, u, d)
        PROVE  d \in now
    <3>1. Quiet(ms, 1, u) /\ Quiet(rest, 1, u)
      BY <1>1, <2>3 DEF Says
    <3>2. /\ d \in q.remote.updated
          /\ u = Query \/ d[1] \in Ensure(q.remote, u).added \/ q.limbos.active[u].received
      BY <2>3, <3>1 DEF Heeded
    <3> QED  BY <3>1, <3>2 DEF Held
  <2> HIDE DEF first, now, last, scope
  <2>4. Told(now, last, rest, u, scope)
    BY <2>1, <2>2, <2>3, ToldTail DEF rest
  <2> QED  BY <1>2, <2>4 DEF now, last, scope
<1>5. NoneLeft(q, rest, u)
  BY NoneLeftTail DEF Standing, rest
<1>6. Noted(q, rest, u)
  BY DEF Heeded, rest
<1> QED  BY <1>2, <1>3, <1>4, <1>5, <1>6 DEF Standing, rest

LEMMA ConvexRead ==
    ASSUME NEW ms \in Seq(Messages), ms # <<>>, NEW first, NEW last, Convex(first, last, ms)
    PROVE  /\ Convex(first, last, Tail(ms))
           /\ NothingNew(first, last, Tail(ms), first, last, ms)
BY ConvexTail

LEMMA FittingTail ==
    ASSUME NEW ms \in Seq(Messages), ms # <<>>, Fitting(ms)
    PROVE  Fitting(Tail(ms))
<1> DEFINE rest == Tail(ms)
<1>1. \A i \in DOMAIN rest : /\ i \in Nat /\ i > 0 /\ i + 1 \in DOMAIN ms
                             /\ rest[i] = ms[i + 1]
  BY RestFacts
<1> HIDE DEF rest
<1>2. Fitting(rest)
  <2> SUFFICES ASSUME NEW i \in DOMAIN rest
               PROVE  /\ rest[i].kind = "docs" => Fit(rest, i, rest[i].added, rest[i].removed)
                      /\ rest[i].kind = "filter" /\ rest[i].target = Query => Undisturbed(rest, i)
    BY DEF Fitting
  <2>1. /\ i + 1 \in Nat /\ i + 1 # 0 /\ (i + 1) - 1 = i /\ i + 1 \in DOMAIN ms
        /\ rest[i] = ms[i + 1]
    BY <1>1
  <2>2. /\ rest[i].kind = "docs" => Fit(ms, i + 1, rest[i].added, rest[i].removed)
        /\ rest[i].kind = "filter" /\ rest[i].target = Query => Undisturbed(ms, i + 1)
    BY <2>1 DEF Fitting
  <2>3. ASSUME rest[i].kind = "docs"
        PROVE  Fit(rest, i, rest[i].added, rest[i].removed)
    <3>1. Fit(rest, IF i + 1 = 0 THEN 0 ELSE (i + 1) - 1, rest[i].added, rest[i].removed)
      BY <2>1, <2>2, <2>3, FitTail DEF rest
    <3> QED  BY <2>1, <3>1
  <2>4. ASSUME rest[i].kind = "filter", rest[i].target = Query
        PROVE  Undisturbed(rest, i)
    <3>1. Undisturbed(rest, IF i + 1 = 0 THEN 0 ELSE (i + 1) - 1)
      BY <2>1, <2>2, <2>4, UndisturbedTail DEF rest
    <3> QED  BY <2>1, <3>1
  <2> QED  BY <2>3, <2>4
<1> QED  BY <1>2 DEF rest

(* A message is read that is no snapshot, and each target has heeded it.   *)
LEMMA GatheredBacked ==
    ASSUME IInv, BackedInv, ~denied, responses # <<>>, Head(responses).kind # "snapshot",
           responses' = Tail(responses),
           UNCHANGED <<docs, denied, changes, served, stream, limbos, cache, synced, token, live,
                       current, limbo, seen>>,
           remote'.targets = remote.targets, remote'.sent = remote.sent,
           remote.updated \subseteq remote'.updated,
           Gathering(remote', Tail(responses)), TakenBack(remote', synced),
           \A u \in DOMAIN remote.targets : u \in DOMAIN remote'.states,
           \A u \in DOMAIN remote.targets :
             ~Asked(remote.sent, u) => Heeded(Pair', Pair, responses, u)
    PROVE  BackedInv'
<1> DEFINE p == Pair
           q == Pair'
           rest == Tail(responses)
<1>1. /\ KnownInv /\ WatchingInv /\ FittingInv /\ HistoryInv /\ TokenInv /\ DiskInv
      /\ SeenInv /\ LimboInv /\ PromptInv /\ ViewInv
      /\ responses \in Seq(Messages)
      /\ Pair.remote = remote /\ Pair.limbos = limbos
  BY Backing
<1>2. q.remote = remote' /\ q.limbos = limbos /\ responses' = rest
      /\ p.remote = remote /\ p.limbos = limbos
  BY <1>1, PairParts DEF Pair
<1>3. /\ responses[1].kind # "snapshot"
      /\ \A i \in DOMAIN rest : /\ i \in Nat /\ i > 0 /\ i + 1 \in DOMAIN responses
                                /\ rest[i] = responses[i + 1]
  BY <1>1, RestFacts
<1>4. \A u : /\ \A i \in Nat : i > 0 => (Quiet(rest, i, u) <=> Quiet(responses, i + 1, u))
             /\ Quiet(responses, 1, u) => Quiet(rest, 1, u)
  BY <1>1, QuietTail
<1> HIDE DEF p, q, rest
<1>5. ASSUME stream = "open", NEW u \in DOMAIN remote.targets
      PROVE  Watching(q, rest, served, u)
  <2>1. Watching(p, responses, served, u)
    BY <1>1, <1>5 DEF WatchingInv, p
  <2>2. CASE Asked(remote.sent, u)
    BY <1>2, <1>5, <2>1, <2>2 DEF Watching
  <2>3. CASE ~Asked(remote.sent, u)
    <3>1. Heeded(q, p, responses, u)
      BY <1>5, <2>3 DEF p, q
    <3>2. Standing(p, responses, served, u)
      BY <1>2, <2>1, <2>3 DEF Watching
    <3>3. Standing(q, rest, served, u)
      BY <1>1, <1>2, <1>3, <3>1, <3>2, StandingRead DEF rest
    <3> QED  BY <1>2, <1>5, <2>3, <3>3 DEF Watching
  <2> QED  BY <2>2, <2>3
<1>6. WatchingInv'
  BY <1>2, <1>5 DEF WatchingInv, q
<1>7. Fitting(rest)
  BY <1>1, FittingTail DEF FittingInv, rest
<1>8. FittingInv'
  <2>1. Receipts(q)
    BY <1>1, <1>2 DEF FittingInv, Receipts
  <2>2. Gathering(remote', rest) /\ TakenBack(remote', synced)
    BY DEF rest
  <2> QED  BY <1>2, <1>7, <2>1, <2>2 DEF FittingInv, q
<1>9. HistoryInv' /\ DiskInv'
  <2> DEFINE first == UNION token
  <2>1. Convex(first, docs, responses)
    BY <1>1 DEF HistoryInv
  <2> HIDE DEF first
  <2>2. Convex(first, docs, rest) /\ NothingNew(first, docs, rest, first, docs, responses)
    BY <1>1, <2>1, ConvexRead DEF rest
  <2> QED  BY <1>1, <1>2, <2>2, HistoryOn, DiskOn DEF first
<1>10. KnownInv' /\ TokenInv' /\ LimboInv' /\ ViewInv'
  BY <1>1 DEF KnownInv, TokenInv, LimboInv, ViewInv
<1>11. SeenInv'
  <2> SUFFICES ASSUME live, NEW n \in DOMAIN rest, rest[n].kind = "snapshot",
                      Quiet(rest, n, Query), ~Asked(remote.sent, Query)
               PROVE  rest[n].docs \in seen
    BY <1>1, <1>2 DEF SeenInv
  <2> QED  BY <1>1, <1>3, <1>4 DEF SeenInv
<1>12. PromptInv'
  <2> SUFFICES ASSUME live, current, synced # {}
               PROVE  /\ \A n \in DOMAIN rest : rest[n].kind = "snapshot" =>
                           Quiet(rest, n, Query) /\ ~Asked(remote.sent, Query)
                      /\ \A i \in DOMAIN remote.sent : remote.sent[i].target = Query =>
                           i = 1 /\ DOMAIN served = {}
    BY <1>2 DEF PromptInv
  <2> QED  BY <1>1, <1>3, <1>4 DEF PromptInv
<1> QED  BY <1>6, <1>8, <1>9, <1>10, <1>11, <1>12 DEF BackedInv

(* What is gathered for target t when documents are added and removed.     *)
GatheredFor(s, r, t) ==
    /\ s \in Remotes /\ s.targets = r.targets /\ s.sent = r.sent /\ s.resets = r.resets
    /\ DOMAIN s.states = DOMAIN r.states \cup {t}
    /\ \A u \in Nat \ {t} : Ensure(s, u) = Ensure(r, u)
    /\ Ensure(s, t).outstanding = Ensure(r, t).outstanding

LEMMA AddDocumentsDetails ==
    ASSUME NEW r \in Remotes, NEW t \in Nat, NEW ds \in Collections, NEW q,
           q = AddDocuments(r, t, ds)
    PROVE  /\ GatheredFor(q, r, t)
           /\ Ensure(q, t).added = Ensure(r, t).added \cup (KeysOf(ds) \ RemoteKeys(t))
           /\ Ensure(q, t).removed = Ensure(r, t).removed \ KeysOf(ds)
           /\ q.updated = Without(r.updated, KeysOf(ds)) \cup ds
           /\ q.gone = r.gone \ KeysOf(ds)
<1> DEFINE ks == KeysOf(ds)
           s == [Ensure(r, t) EXCEPT !.added = @ \cup (ks \ RemoteKeys(t)), !.removed = @ \ ks]
           r1 == InState(r, t, s)
           updated == Without(r1.updated, ks) \cup ds
<1>1. q = [r1 EXCEPT !.updated = updated, !.gone = @ \ ks]
  BY DEF AddDocuments
<1>2. ks \subseteq Keys
  BY KeysOfKeys
<1>3. /\ s \in TargetStates /\ s.outstanding = Ensure(r, t).outstanding
      /\ s.added = Ensure(r, t).added \cup (ks \ RemoteKeys(t))
      /\ s.removed = Ensure(r, t).removed \ ks
  <2> HIDE DEF ks
  <2>1. Ensure(r, t) \in TargetStates
    BY EnsureType
  <2> QED  BY <1>2, <2>1 DEF TargetStates
<1>4. DOMAIN r1.states = DOMAIN r.states \cup {t}
  BY DEF InState, With, Remotes
<1> HIDE DEF s
<1>5. /\ r1 \in Remotes /\ r1.sent = r.sent /\ RestSame(r1, r)
      /\ \A u \in Nat : Ensure(r1, u) = IF u = t THEN s ELSE Ensure(r, u)
  BY <1>3, InStateFacts
<1> HIDE DEF r1
<1>6. updated \in Collections
  <2>1. r1.updated \in Collections
    BY <1>5 DEF Remotes
  <2> QED  BY <2>1, CollectionWith
<1>7. updated = Without(r.updated, ks) \cup ds
  BY <1>5 DEF RestSame
<1> HIDE DEF updated, ks
<1>8. /\ q \in Remotes /\ q.states = r1.states /\ q.sent = r1.sent
      /\ q.targets = r1.targets /\ q.resets = r1.resets
      /\ q.updated = updated /\ q.gone = r1.gone \ ks
  BY <1>1, <1>5, <1>6 DEF Remotes
<1>9. \A u : Ensure(q, u) = Ensure(r1, u)
  BY <1>8 DEF Ensure
<1> QED  BY <1>3, <1>4, <1>5, <1>7, <1>8, <1>9 DEF GatheredFor, RestSame, ks

(* What is gathered when documents are removed.                            *)
RemovedFor(q, r, t, ks) ==
    /\ GatheredFor(q, r, t)
    /\ Ensure(q, t).added = Ensure(r, t).added \ ks
    /\ Ensure(q, t).removed = Ensure(r, t).removed \cup (ks \cap RemoteKeys(t))
    /\ q.updated \in {r.updated, Without(r.updated, ks)}
    /\ q.gone \in {r.gone, r.gone \cup ks}

LEMMA RemoveDocumentsDetails ==
    ASSUME NEW r \in Remotes, NEW t \in Nat, NEW ks \in SUBSET Keys, NEW deleted \in BOOLEAN
    PROVE  RemovedFor(RemoveDocuments(r, t, ks, deleted), r, t, ks)
<1> DEFINE q == RemoveDocuments(r, t, ks, deleted)
           s == [Ensure(r, t) EXCEPT !.added = @ \ ks, !.removed = @ \cup (ks \cap RemoteKeys(t))]
           r1 == InState(r, t, s)
           updated == IF deleted THEN Without(r1.updated, ks) ELSE r1.updated
           gone == IF deleted THEN r1.gone \cup ks ELSE r1.gone
<1>1. q = [r1 EXCEPT !.updated = updated, !.gone = gone]
  BY DEF RemoveDocuments
<1>3. /\ s \in TargetStates /\ s.outstanding = Ensure(r, t).outstanding
      /\ s.added = Ensure(r, t).added \ ks
      /\ s.removed = Ensure(r, t).removed \cup (ks \cap RemoteKeys(t))
  <2>1. Ensure(r, t) \in TargetStates
    BY EnsureType
  <2> QED  BY <2>1 DEF TargetStates
<1>4. DOMAIN r1.states = DOMAIN r.states \cup {t}
  BY DEF InState, With, Remotes
<1> HIDE DEF q, s
<1>5. /\ r1 \in Remotes /\ r1.sent = r.sent /\ RestSame(r1, r)
      /\ \A u \in Nat : Ensure(r1, u) = IF u = t THEN s ELSE Ensure(r, u)
  BY <1>3, InStateFacts
<1> HIDE DEF r1
<1>6. /\ updated \in Collections /\ updated \in {r1.updated, Without(r1.updated, ks)}
      /\ gone \in SUBSET Keys /\ gone \in {r1.gone, r1.gone \cup ks}
  <2>1. r1.updated \in Collections /\ r1.gone \in SUBSET Keys
    BY <1>5 DEF Remotes
  <2> QED  BY <2>1, CollectionWithout
<1> HIDE DEF updated, gone
<1>8. /\ q \in Remotes /\ q.states = r1.states /\ q.sent = r1.sent
      /\ q.targets = r1.targets /\ q.resets = r1.resets
      /\ q.updated = updated /\ q.gone = gone
  BY <1>1, <1>5, <1>6 DEF Remotes
<1>9. \A u : Ensure(q, u) = Ensure(r1, u)
  BY <1>8 DEF Ensure
<1> QED  BY <1>3, <1>4, <1>5, <1>6, <1>8, <1>9
         DEF RemovedFor, GatheredFor, RestSame, q

LEMMA GatheringRead ==
    ASSUME NEW ms \in Seq(Messages), ms # <<>>, ms[1].kind # "snapshot", NEW r, Gathering(r, ms)
    PROVE  /\ Gathering(r, Tail(ms))
           /\ r.resets # {} => /\ ~IsAnswer(ms[1], Query)
                               /\ ~(ms[1].kind = "docs" /\ ms[1].target = Query)
<1>1. ASSUME r.updated # {} \/ r.gone # {}
      PROVE  Fit(Tail(ms), 0, r.updated, r.gone)
  <2>1. Fit(ms, 0, r.updated, r.gone) /\ 0 \in Nat
    BY <1>1 DEF Gathering
  <2>2. Fit(Tail(ms), IF 0 = 0 THEN 0 ELSE 0 - 1, r.updated, r.gone)
    BY <2>1, FitTail
  <2> QED  BY <2>2
<1>2. ASSUME r.resets # {}
      PROVE  /\ Undisturbed(Tail(ms), 0) /\ ~IsAnswer(ms[1], Query)
             /\ ~(ms[1].kind = "docs" /\ ms[1].target = Query)
  <2>1. Undisturbed(ms, 0) /\ 0 \in Nat
    BY <1>2 DEF Gathering
  <2>2. /\ Undisturbed(Tail(ms), IF 0 = 0 THEN 0 ELSE 0 - 1) /\ ~IsAnswer(ms[1], Query)
        /\ ~(ms[1].kind = "docs" /\ ms[1].target = Query)
    BY <2>1, UndisturbedTail
  <2> QED  BY <2>2
<1> QED  BY <1>1, <1>2 DEF Gathering

(* What is said and what is gathered already fit the same snapshot.        *)
LEMMA GatheringJoin ==
    ASSUME NEW ms \in Seq(Messages), NEW r, Gathering(r, ms), NEW added, NEW removed,
           Fit(ms, 0, added, removed)
    PROVE  \E n \in DOMAIN ms : /\ NextSnapshot(ms, 0, n) /\ ms[n].docs \in Collections
                                /\ r.updated \cup added \subseteq ms[n].docs
                                /\ (r.gone \cup removed) \cap KeysOf(ms[n].docs) = {}
<1>1. CASE r.updated # {} \/ r.gone # {}
  BY <1>1, FitJoin DEF Gathering
<1>2. CASE r.updated = {} /\ r.gone = {}
  <2>1. r.updated \cup added = added \cup added /\ r.gone \cup removed = removed \cup removed
    BY <1>2
  <2>2. \E n \in DOMAIN ms : /\ NextSnapshot(ms, 0, n) /\ ms[n].docs \in Collections
                             /\ added \cup added \subseteq ms[n].docs
                             /\ (removed \cup removed) \cap KeysOf(ms[n].docs) = {}
    BY FitJoin
  <2> QED  BY <2>1, <2>2
<1> QED  BY <1>1, <1>2

LEMMA NotedRead ==
    ASSUME NEW ms \in Seq(Messages), ms # <<>>, ms[1].kind # "snapshot", NEW p, NEW q, NEW u,
           Quiet(ms, 1, u) => Noted(p, ms, u), ~IsAnswer(ms[1], u), q.limbos = p.limbos,
           p.remote.updated \subseteq q.remote.updated,
           u = Query => Ensure(q.remote, u).added
                          \subseteq Ensure(p.remote, u).added \cup KeysOf(q.remote.updated),
           u # Query /\ Ensure(q.remote, u).removed # {} =>
             \/ Ensure(p.remote, u).removed # {}
             \/ Fit(Tail(ms), 0, {}, {p.limbos.active[u].key})
    PROVE  Noted(q, Tail(ms), u)
<1> SUFFICES ASSUME Quiet(Tail(ms), 1, u)
             PROVE  IF u = Query
                    THEN Ensure(q.remote, u).added \subseteq KeysOf(q.remote.updated)
                    ELSE Ensure(q.remote, u).removed # {} =>
                           Fit(Tail(ms), 0, {}, {q.limbos.active[u].key})
  BY DEF Noted
<1>1. Quiet(ms, 1, u)
  BY QuietTail
<1>2. IF u = Query THEN Ensure(p.remote, u).added \subseteq KeysOf(p.remote.updated)
      ELSE Ensure(p.remote, u).removed # {} => Fit(ms, 0, {}, {p.limbos.active[u].key})
  BY <1>1 DEF Noted
<1>3. CASE u = Query
  BY <1>2, <1>3 DEF KeysOf
<1>4. CASE u # Query
  <2> DEFINE key == p.limbos.active[u].key
  <2>1. ASSUME Fit(ms, 0, {}, {key})
        PROVE  Fit(Tail(ms), 0, {}, {key})
    <3>1. 0 \in Nat
      OBVIOUS
    <3> HIDE DEF key
    <3>2. Fit(Tail(ms), IF 0 = 0 THEN 0 ELSE 0 - 1, {}, {key})
      BY <2>1, <3>1, FitTail
    <3> QED  BY <3>2
  <2> QED  BY <1>2, <1>4, <2>1
<1> QED  BY <1>3, <1>4

(* What a message that is gathered finds.                                  *)
LEMMA GatherBegins ==
    ASSUME IInv, BackedInv, ~denied, GatherWatchChange, NEW r, r = UpdateState(remote, "Online")
    PROVE  LET m == responses[1] IN
           /\ UNCHANGED <<docs, denied, changes, served, stream, limbos, cache, synced, token, live,
                          current, limbo, seen>>
           /\ responses \in Seq(Messages) /\ responses # <<>> /\ responses' = Tail(responses)
           /\ Tail(responses) \in Seq(Messages)
           /\ Head(responses) = m /\ 1 \in DOMAIN responses /\ m \in Messages
           /\ m.kind \in {"added", "removed", "current", "docs", "filter"}
           /\ m.kind = "docs" => m \in DocsMessages /\ remote' = HandleDocumentChange(r, m)
           /\ m.kind = "filter" => m \in Filters /\ remote' = HandleExistenceFilter(r, m)
           /\ m.kind \in {"added", "removed", "current"} =>
                m \in Acks /\ remote' = HandleTargetChange(r, m)
           /\ r \in Remotes /\ r.targets = remote.targets /\ r.sent = remote.sent
           /\ r.states = remote.states /\ r.updated = remote.updated /\ r.gone = remote.gone
           /\ r.resets = remote.resets /\ \A u : Ensure(r, u) = Ensure(remote, u)
           /\ Gathering(r, responses) /\ Gathering(r, Tail(responses)) /\ TakenBack(r, synced)
           /\ Fitting(responses)
           /\ \A u \in DOMAIN r.targets :
                /\ u \in Nat /\ u \in DOMAIN r.states
                /\ ~Asked(r.sent, u) => Standing(Pair, responses, served, u)
           /\ \A u \in Nat :
                Ensure(r, u).outstanding = 0 <=> ~Asked(r.sent, u) /\ Quiet(responses, 1, u)
           /\ Pair.remote = remote /\ Pair.limbos = limbos
           /\ Pair'.remote = remote' /\ Pair'.limbos = limbos
           /\ limbos \in Limbos /\ Agree(r, limbos, live) /\ synced \in SUBSET Keys
           /\ RemoteSound(r, responses, stream, denied)
<1> DEFINE m == Head(responses)
<1>1. /\ UNCHANGED <<docs, denied, changes, served, stream, limbos, cache, synced,
                     token, live, current, limbo, seen>>
      /\ responses # <<>> /\ responses' = Tail(responses)
      /\ m.kind \in {"added", "removed", "current", "docs", "filter"}
      /\ m.kind = "docs" => remote' = HandleDocumentChange(r, m)
      /\ m.kind = "filter" => remote' = HandleExistenceFilter(r, m)
      /\ m.kind \in {"added", "removed", "current"} => remote' = HandleTargetChange(r, m)
  BY DEF GatherWatchChange, backend, disk, view
<1>2. /\ WatchingInv /\ FittingInv /\ Types /\ responses \in Seq(Messages) /\ remote \in Remotes
      /\ limbos \in Limbos /\ Agree(remote, limbos, live)
      /\ Pair.remote = remote /\ Pair.limbos = limbos
  BY Backing
<1>3. /\ stream = "open" /\ m \in Messages /\ Tail(responses) \in Seq(Messages)
      /\ RemoteSound(r, responses, stream, denied) /\ r \in Remotes
      /\ r.targets = remote.targets /\ r.updated = remote.updated /\ r.sent = remote.sent
      /\ r.resets = remote.resets /\ r.states = remote.states
  BY <1>1, Reading
<1>4. r.gone = remote.gone
  BY <1>2, UpdateStateFacts DEF Onlines
<1>5. \A u : Ensure(r, u) = Ensure(remote, u)
  BY <1>3 DEF Ensure
<1>6. Agree(r, limbos, live)
  BY <1>2, <1>3, AgreeSame
<1>7. m = responses[1] /\ 1 \in DOMAIN responses
  BY <1>1, <1>2, RestFacts
<1>8. Gathering(r, responses) /\ TakenBack(r, synced) /\ Fitting(responses)
  BY <1>2, <1>3, <1>4, <1>5 DEF FittingInv, Gathering, TakenBack
<1>9. Gathering(r, Tail(responses))
  BY <1>1, <1>2, <1>7, <1>8, GatheringRead
<1>10. /\ m.kind = "docs" => m \in DocsMessages
       /\ m.kind = "filter" => m \in Filters
       /\ m.kind \in {"added", "removed", "current"} => m \in Acks
  BY <1>3, MessageKinds
<1>11. ASSUME NEW u \in DOMAIN r.targets
       PROVE  /\ u \in Nat /\ u \in DOMAIN r.states
              /\ ~Asked(r.sent, u) => Standing(Pair, responses, served, u)
  <2>1. Watching(Pair, responses, served, u)
    BY <1>2, <1>3, <1>11 DEF WatchingInv
  <2>2. u \in Nat
    <3>1. r.targets \in Tables(Tokens)
      BY <1>3 DEF Remotes
    <3> QED  BY <1>11, <3>1, TableFacts
  <2> QED  BY <1>2, <1>3, <2>1, <2>2 DEF Watching
<1>12. \A u \in Nat : Ensure(r, u).outstanding = 0 <=> ~Asked(r.sent, u) /\ Quiet(responses, 1, u)
  <2>1. Counted(r, responses)
    BY <1>3 DEF RemoteSound
  <2> QED  BY <1>2, <1>3, <2>1, CountsWhenQuiet
<1>13. Pair'.remote = remote' /\ Pair'.limbos = limbos
  BY <1>1, PairParts DEF Pair
<1> HIDE DEF m
<1> QED  BY <1>1, <1>2, <1>3, <1>4, <1>5, <1>6, <1>7, <1>8, <1>9, <1>10, <1>11, <1>12, <1>13
         DEF Types

LEMMA GatherDocsBacked ==
    ASSUME IInv, BackedInv, ~denied, GatherWatchChange, Head(responses).kind = "docs"
    PROVE  BackedInv'
<1> DEFINE r == UpdateState(remote, "Online")
           ms == responses
           m == responses[1]
           t == m.target
           rest == Tail(responses)
           p == Pair
           q == Pair'
<1>1. /\ UNCHANGED <<docs, denied, changes, served, stream, limbos, cache, synced, token, live,
                     current, limbo, seen>>
      /\ ms \in Seq(Messages) /\ ms # <<>> /\ responses' = rest /\ rest \in Seq(Messages)
      /\ m.kind = "docs" /\ m \in DocsMessages /\ Head(ms) = m /\ 1 \in DOMAIN ms
      /\ remote' = HandleDocumentChange(r, m)
      /\ r \in Remotes /\ r.targets = remote.targets /\ r.sent = remote.sent
      /\ r.states = remote.states /\ r.updated = remote.updated /\ r.gone = remote.gone
      /\ r.resets = remote.resets /\ \A u : Ensure(r, u) = Ensure(remote, u)
  BY GatherBegins
<1>2. /\ Gathering(r, ms) /\ Gathering(r, rest) /\ TakenBack(r, synced) /\ Fitting(ms)
      /\ \A u \in DOMAIN r.targets :
           /\ u \in Nat /\ u \in DOMAIN r.states
           /\ ~Asked(r.sent, u) => Standing(p, ms, served, u)
      /\ \A u \in Nat : Ensure(r, u).outstanding = 0 <=> ~Asked(r.sent, u) /\ Quiet(ms, 1, u)
      /\ p.remote = remote /\ p.limbos = limbos /\ q.remote = remote' /\ q.limbos = limbos
      /\ limbos \in Limbos
  BY GatherBegins
<1>3. /\ t \in Nat /\ m.added \in Collections /\ m.removed \in SUBSET Keys /\ m.deleted \in BOOLEAN
  BY <1>1 DEF DocsMessages
<1> HIDE DEF r, ms, m, rest, p, q
<1>4. ms[1].kind # "snapshot" /\ \A u : ~IsAnswer(ms[1], u)
  BY <1>1 DEF IsAnswer, m, ms
<1>5. SUFFICES ASSUME \/ ~IsActiveTarget(r, t) /\ remote' = r
                      \/ IsActiveTarget(r, t)
               PROVE  BackedInv'
  BY <1>1 DEF HandleDocumentChange
<1>6. CASE ~IsActiveTarget(r, t) /\ remote' = r
  <2>1. ASSUME NEW u \in DOMAIN remote.targets, ~Asked(remote.sent, u)
        PROVE  Heeded(q, p, ms, u)
    <3>1. Noted(p, ms, u)
      BY <1>1, <1>2, <2>1 DEF Standing
    <3>2. Noted(q, rest, u)
      BY <1>1, <1>2, <1>4, <1>6, <3>1, NotedRead DEF rest, ms
    <3>3. ASSUME NEW d, Says(ms, 1, u, d), Quiet(ms, 1, u)
          PROVE  FALSE
      <4>1. u = t
        BY <3>3 DEF Says, m, ms
      <4>2. Ensure(r, u).outstanding = 0 /\ u \in DOMAIN r.targets
        BY <1>1, <1>2, <2>1, <3>3
      <4> QED  BY <1>6, <4>1, <4>2 DEF IsActiveTarget
    <3> QED  BY <1>1, <1>2, <1>6, <3>2, <3>3 DEF Heeded, rest, ms
  <2> QED  BY <1>1, <1>2, <1>4, <1>6, <2>1, GatheredBacked DEF rest, ms, p, q, TakenBack
<1>7. CASE IsActiveTarget(r, t)
  <2> DEFINE a == AddDocuments(r, t, m.added)
             h == RemoveDocuments(a, t, m.removed, m.deleted)
  <2>1. remote' = h
    BY <1>1, <1>7 DEF HandleDocumentChange
  <2>2. /\ GatheredFor(a, r, t)
        /\ Ensure(a, t).added = Ensure(r, t).added \cup (KeysOf(m.added) \ RemoteKeys(t))
        /\ Ensure(a, t).removed = Ensure(r, t).removed \ KeysOf(m.added)
        /\ a.updated = Without(r.updated, KeysOf(m.added)) \cup m.added
        /\ a.gone = r.gone \ KeysOf(m.added)
    BY <1>1, <1>3, AddDocumentsDetails
  <2> HIDE DEF a
  <2>3. /\ GatheredFor(h, a, t)
        /\ Ensure(h, t).added = Ensure(a, t).added \ m.removed
        /\ Ensure(h, t).removed = Ensure(a, t).removed \cup (m.removed \cap RemoteKeys(t))
        /\ h.updated \in {a.updated, Without(a.updated, m.removed)}
        /\ h.gone \in {a.gone, a.gone \cup m.removed}
    <3>1. a \in Remotes
      BY <2>2 DEF GatheredFor
    <3>2. RemovedFor(h, a, t, m.removed)
      BY <1>3, <3>1, RemoveDocumentsDetails
    <3> HIDE DEF h
    <3> QED  BY <3>2 DEF RemovedFor
  <2> HIDE DEF h
  <2>4. /\ h.targets = r.targets /\ h.sent = r.sent /\ h.resets = r.resets
        /\ DOMAIN r.states \subseteq DOMAIN h.states
        /\ \A u \in Nat \ {t} : Ensure(h, u) = Ensure(r, u)
    BY <2>2, <2>3 DEF GatheredFor
  <2>5. Fit(rest, 0, m.added, m.removed)
    <3>1. Fit(ms, 1, m.added, m.removed) /\ 1 \in Nat
      BY <1>1, <1>2 DEF Fitting, m, ms
    <3>2. Fit(rest, IF 1 = 0 THEN 0 ELSE 1 - 1, m.added, m.removed)
      BY <1>1, <3>1, FitTail DEF rest, ms
    <3> QED  BY <3>2
  <2>6. PICK n \in DOMAIN rest : /\ NextSnapshot(rest, 0, n) /\ rest[n].docs \in Collections
                                 /\ r.updated \cup m.added \subseteq rest[n].docs
                                 /\ (r.gone \cup m.removed) \cap KeysOf(rest[n].docs) = {}
    BY <1>1, <1>2, <2>5, GatheringJoin
  <2> DEFINE S == rest[n].docs
  <2>7. /\ \A d, e \in S : d[1] = e[1] => d = e
        /\ \A d \in S : d[1] \in KeysOf(S)
    BY <2>6 DEF Collections, IsCollection, KeysOf
  <2> HIDE DEF S
  <2>8. r.updated \subseteq S /\ m.added \subseteq S /\ (r.gone \cup m.removed) \cap KeysOf(S) = {}
    BY <2>6 DEF S
  <2>9. r.updated \subseteq h.updated /\ m.added \subseteq h.updated
    <3>1. r.updated \subseteq a.updated /\ m.added \subseteq a.updated
      BY <2>2, <2>7, <2>8 DEF Without, KeysOf
    <3>2. \A d \in S : d[1] \notin m.removed
      BY <2>7, <2>8
    <3> QED  BY <2>3, <2>8, <3>1, <3>2 DEF Without
  <2>10. Gathering(h, rest)
    <3>1. h.updated \subseteq S
      BY <2>2, <2>3, <2>8 DEF Without
    <3>2. h.gone \cap KeysOf(S) = {}
      BY <2>2, <2>3, <2>8
    <3>3. Fit(rest, 0, h.updated, h.gone)
      BY <2>6, <3>1, <3>2 DEF Fit, S
    <3> QED  BY <1>2, <2>4, <3>3 DEF Gathering
  <2>11. TakenBack(h, synced)
    <3>1. r.resets # {} => t # Query
      BY <1>1, <1>2, <1>4, GatheringRead DEF m, ms
    <3> QED  BY <1>2, <2>4, <3>1 DEF TakenBack, Query
  <2>12. ASSUME NEW u \in DOMAIN remote.targets, ~Asked(remote.sent, u)
         PROVE  Heeded(q, p, ms, u)
    <3>1. Noted(p, ms, u) /\ u \in Nat
      BY <1>1, <1>2, <2>12 DEF Standing
    <3>2. CASE u # t
      <4>1. Ensure(q.remote, u) = Ensure(p.remote, u)
        BY <1>1, <1>2, <2>1, <2>4, <3>1, <3>2
      <4>2. Noted(q, rest, u)
        BY <1>1, <1>2, <1>4, <2>1, <2>9, <3>1, <4>1, NotedRead DEF rest, ms
      <4>3. \A d : ~Says(ms, 1, u, d)
        BY <3>2 DEF Says, m, ms
      <4> QED  BY <4>1, <4>2, <4>3 DEF Heeded, rest, ms
    <3>3. CASE u = t
      <4>1. \A d \in r.updated : d[1] \in Ensure(r, t).added => d[1] \in Ensure(h, t).added
        BY <2>2, <2>3, <2>7, <2>8
      <4>2. ASSUME NEW d, Says(ms, 1, t, d)
            PROVE  /\ d \in h.updated
                   /\ t # Query => d[1] \in Ensure(h, t).added \/ limbos.active[t].received
        <5>1. d \in m.added
          BY <4>2 DEF Says, m, ms
        <5>2. d[1] \in KeysOf(m.added) /\ d[1] \notin m.removed
          BY <2>7, <2>8, <5>1 DEF KeysOf
        <5>3. d[1] \in RemoteKeys(t) /\ t # Query => limbos.active[t].received
          BY DEF RemoteKeys
        <5> QED  BY <2>2, <2>3, <2>9, <5>1, <5>2, <5>3
      <4>3. t = Query => Ensure(h, t).added \subseteq Ensure(r, t).added \cup KeysOf(h.updated)
        BY <2>2, <2>3, <2>9 DEF KeysOf
      <4>4. ASSUME t # Query, Ensure(h, t).removed # {}
            PROVE  Ensure(r, t).removed # {} \/ Fit(rest, 0, {}, {limbos.active[t].key})
        <5>1. CASE m.removed \cap RemoteKeys(t) = {}
          BY <2>2, <2>3, <4>4, <5>1
        <5>2. CASE m.removed \cap RemoteKeys(t) # {}
          <6>1. RemoteKeys(t) \subseteq {limbos.active[t].key}
            BY <4>4 DEF RemoteKeys, Key
          <6>2. limbos.active[t].key \in m.removed
            BY <5>2, <6>1
          <6>3. {} \in SUBSET m.added /\ {limbos.active[t].key} \in SUBSET m.removed
            BY <6>2
          <6> QED  BY <2>5, <6>3, FitLess
        <5> QED  BY <5>1, <5>2
      <4>5. Noted(q, rest, u)
        <5>1. /\ q.limbos = p.limbos /\ p.limbos = limbos /\ p.remote.updated = r.updated
              /\ q.remote = h /\ Ensure(p.remote, u) = Ensure(r, t)
          BY <1>1, <1>2, <2>1, <3>3
        <5> QED  BY <1>1, <1>4, <2>9, <3>1, <3>3, <4>3, <4>4, <5>1, NotedRead DEF rest, ms
      <4> QED  BY <1>1, <1>2, <2>1, <3>3, <4>1, <4>2, <4>5 DEF Heeded, rest, ms
    <3> QED  BY <3>2, <3>3
  <2> QED  BY <1>1, <1>2, <1>4, <2>1, <2>4, <2>9, <2>10, <2>11, <2>12, GatheredBacked
           DEF rest, ms, p, q
<1> QED  BY <1>5, <1>6, <1>7

(* Nothing is gathered, but for a target that has been answered what was   *)
(* gathered is forgotten.                                                  *)
LEMMA GatheredSame ==
    ASSUME IInv, BackedInv, ~denied, GatherWatchChange, Head(responses).kind # "docs",
           remote'.targets = remote.targets, remote'.sent = remote.sent,
           remote'.updated = remote.updated, remote'.gone = remote.gone,
           remote'.resets = remote.resets,
           \A u \in DOMAIN remote.targets : u \in DOMAIN remote'.states,
           \A u \in Nat : ~IsAnswer(Head(responses), u) =>
             /\ Ensure(remote', u).added = Ensure(remote, u).added
             /\ Ensure(remote', u).removed = Ensure(remote, u).removed,
           \A u \in DOMAIN remote.targets :
             /\ ~Asked(remote.sent, u) /\ IsAnswer(Head(responses), u)
             /\ Quiet(Tail(responses), 1, u)
             => Ensure(remote', u).added = {} /\ Ensure(remote', u).removed = {}
    PROVE  BackedInv'
<1> DEFINE r == UpdateState(remote, "Online")
           ms == responses
           m == responses[1]
           rest == Tail(responses)
           p == Pair
           q == Pair'
<1>1. /\ UNCHANGED <<docs, denied, changes, served, stream, limbos, cache, synced, token, live,
                     current, limbo, seen>>
      /\ ms \in Seq(Messages) /\ ms # <<>> /\ responses' = rest /\ rest \in Seq(Messages)
      /\ m.kind # "docs" /\ m.kind # "snapshot" /\ Head(ms) = m
      /\ r.targets = remote.targets /\ r.sent = remote.sent
      /\ r.updated = remote.updated /\ r.gone = remote.gone
      /\ r.resets = remote.resets /\ \A u : Ensure(r, u) = Ensure(remote, u)
  BY GatherBegins
<1>2. /\ Gathering(r, ms) /\ Gathering(r, rest) /\ TakenBack(r, synced)
      /\ \A u \in DOMAIN r.targets :
           u \in Nat /\ (~Asked(r.sent, u) => Standing(p, ms, served, u))
      /\ p.remote = remote /\ p.limbos = limbos /\ q.remote = remote' /\ q.limbos = limbos
  BY GatherBegins
<1>3. /\ ms[1].kind # "snapshot" /\ ms[1] = m
      /\ \A u \in Nat : ~IsAnswer(m, u) =>
             /\ Ensure(remote', u).added = Ensure(remote, u).added
             /\ Ensure(remote', u).removed = Ensure(remote, u).removed
      /\ \A u \in DOMAIN remote.targets :
             ~Asked(remote.sent, u) /\ IsAnswer(m, u) /\ Quiet(rest, 1, u) =>
               Ensure(remote', u).added = {} /\ Ensure(remote', u).removed = {}
  BY <1>1
<1> HIDE DEF r, ms, m, rest, p, q
<1>4. Gathering(remote', rest)
  BY <1>1, <1>2 DEF Gathering
<1>5. TakenBack(remote', synced)
  <2> SUFFICES ASSUME remote.resets # {}
               PROVE  /\ Ensure(remote', Query).added = {}
                      /\ synced \subseteq Ensure(remote', Query).removed
    BY DEF TakenBack
  <2>1. ~IsAnswer(m, Query)
    BY <1>1, <1>2, <1>3, GatheringRead
  <2>2. Query \in Nat
    BY DEF Query
  <2> QED  BY <1>1, <1>2, <1>3, <2>1, <2>2 DEF TakenBack
<1>6. ASSUME NEW u \in DOMAIN remote.targets, ~Asked(remote.sent, u)
      PROVE  Heeded(q, p, ms, u)
  <2>1. Noted(p, ms, u) /\ u \in Nat
    BY <1>1, <1>2, <1>6 DEF Standing
  <2>2. \A d : ~Says(ms, 1, u, d)
    BY <1>1, <1>3 DEF Says
  <2>3. Noted(q, rest, u)
    <3>1. CASE ~IsAnswer(m, u)
      <4>1. /\ Ensure(q.remote, u).added = Ensure(p.remote, u).added
            /\ Ensure(q.remote, u).removed = Ensure(p.remote, u).removed
            /\ q.limbos = p.limbos /\ p.remote.updated \subseteq q.remote.updated
        BY <1>2, <1>3, <2>1, <3>1
      <4> QED  BY <1>1, <1>3, <2>1, <3>1, <4>1, NotedRead DEF rest, ms
    <3>2. CASE IsAnswer(m, u)
      <4>1. Quiet(rest, 1, u) => Ensure(q.remote, u).added = {} /\ Ensure(q.remote, u).removed = {}
        BY <1>2, <1>3, <1>6, <3>2
      <4> QED  BY <4>1 DEF Noted
    <3> QED  BY <3>1, <3>2
  <2>4. Quiet(ms, 1, u) => ~IsAnswer(m, u)
    BY <1>1, <1>3, QuietTail
  <2>5. Quiet(ms, 1, u) => Ensure(q.remote, u).added = Ensure(p.remote, u).added
    BY <1>2, <1>3, <2>1, <2>4
  <2> QED  BY <2>2, <2>3, <2>5 DEF Heeded, rest, ms
<1> QED  BY <1>1, <1>2, <1>4, <1>5, <1>6, GatheredBacked DEF rest, ms, m, p, q

LEMMA GatherTargetsBacked ==
    ASSUME IInv, BackedInv, ~denied, GatherWatchChange,
           Head(responses).kind \in {"added", "removed", "current"}
    PROVE  BackedInv'
<1> DEFINE r == UpdateState(remote, "Online")
           ms == responses
           m == responses[1]
           t == m.target
           rest == Tail(responses)
           h == HandleTargetChange(r, m)
           s == Ensure(r, t)
           fewer == [s EXCEPT !.outstanding = @ - 1]
           none == [fewer EXCEPT !.added = {}, !.removed = {}]
           now == [s EXCEPT !.current = TRUE]
<1>1. /\ ms \in Seq(Messages) /\ ms # <<>> /\ rest \in Seq(Messages)
      /\ m.kind \in {"added", "removed", "current"} /\ m \in Acks /\ Head(ms) = m
      /\ remote' = h
      /\ r \in Remotes /\ r.targets = remote.targets /\ r.sent = remote.sent
      /\ r.updated = remote.updated /\ r.gone = remote.gone
      /\ r.resets = remote.resets /\ \A u : Ensure(r, u) = Ensure(remote, u)
      /\ RemoteSound(r, ms, stream, denied)
      /\ \A u \in DOMAIN r.targets :
           /\ u \in Nat /\ u \in DOMAIN r.states
           /\ ~Asked(r.sent, u) => Standing(Pair, ms, served, u)
  BY GatherBegins
<1>2. t \in Nat /\ s \in TargetStates
  BY <1>1, EnsureType DEF Acks
<1>3. /\ fewer \in TargetStates /\ none \in TargetStates /\ now \in TargetStates
      /\ fewer.added = s.added /\ fewer.removed = s.removed
      /\ now.added = s.added /\ now.removed = s.removed
      /\ none.added = {} /\ none.removed = {}
      /\ fewer.outstanding = s.outstanding - 1 /\ none.outstanding = fewer.outstanding
  <2> HIDE DEF s
  <2>1. /\ fewer \in TargetStates /\ fewer.outstanding = s.outstanding - 1
        /\ fewer.added = s.added /\ fewer.removed = s.removed
    BY <1>2 DEF TargetStates
  <2>2. now \in TargetStates /\ now.added = s.added /\ now.removed = s.removed
    BY <1>2 DEF TargetStates
  <2> HIDE DEF fewer, now
  <2>3. /\ none \in TargetStates /\ none.added = {} /\ none.removed = {}
        /\ none.outstanding = fewer.outstanding
    BY <2>1 DEF TargetStates
  <2> QED  BY <2>1, <2>2, <2>3
<1>4. /\ m.kind = "added" => h = InState(r, t, IF fewer.outstanding = 0 THEN none ELSE fewer)
      /\ m.kind = "removed" => h = IF fewer.outstanding = 0 THEN [r EXCEPT !.states = Less(@, t)]
                                   ELSE InState(r, t, fewer)
      /\ m.kind = "current" => h = InState(r, t, now) \/ h = r
  BY <1>1 DEF HandleTargetChange
<1>5. RemoteSound(h, rest, stream, denied)
  BY <1>1, HandleTargetChangeSound
<1> HIDE DEF r, ms, m, rest, h, t, s, fewer, none, now
<1>6. /\ h \in Remotes
      /\ \A u \in Nat : Ensure(h, u).outstanding = 0 <=> ~Asked(h.sent, u) /\ Quiet(rest, 1, u)
  BY <1>1, <1>5, CountsWhenQuiet DEF RemoteSound
<1>7. ASSUME NEW v \in TargetStates, h = InState(r, t, v)
      PROVE  /\ RestSame(h, r) /\ h.sent = r.sent /\ DOMAIN r.states \subseteq DOMAIN h.states
             /\ \A u \in Nat : Ensure(h, u) = IF u = t THEN v ELSE Ensure(r, u)
  <2>0. /\ RestSame(InState(r, t, v), r) /\ InState(r, t, v).sent = r.sent
        /\ \A u \in Nat : Ensure(InState(r, t, v), u) = IF u = t THEN v ELSE Ensure(r, u)
    <3>1. r \in Remotes /\ t \in Nat /\ v \in TargetStates
      BY <1>1, <1>2
    <3> QED  BY ONLY <3>1, InStateFacts
  <2>1. /\ RestSame(h, r) /\ h.sent = r.sent
        /\ \A u \in Nat : Ensure(h, u) = IF u = t THEN v ELSE Ensure(r, u)
    BY <1>7, <2>0
  <2>2. DOMAIN h.states = DOMAIN r.states \cup {t}
    BY <1>1, <1>7 DEF InState, With, Remotes
  <2> QED  BY <2>1, <2>2
<1>8. ASSUME NEW u \in DOMAIN remote.targets, ~Asked(remote.sent, u), IsAnswer(m, u),
             Quiet(rest, 1, u)
      PROVE  m.kind = "added" /\ u = t
  <2>1. Standing(Pair, ms, served, u) /\ ms[1] = m
    BY <1>1, <1>8 DEF ms, m
  <2>2. ~Quiet(ms, 1, u)
    BY <1>1, <1>8, <2>1, QuietTail
  <2>3. PICK i \in DOMAIN ms : ms[i] = Ack("added", u)
    BY <2>1, <2>2 DEF Standing
  <2>4. ms[i].kind = "added" /\ IsAnswer(ms[i], u)
    BY <2>3 DEF Ack, IsAnswer
  <2>5. i = 1
    <3>1. \A j \in DOMAIN rest : j >= 1 => ~IsAnswer(rest[j], u)
      BY <1>8 DEF Quiet
    <3>2. /\ DOMAIN ms = 1 .. Len(ms) /\ DOMAIN rest = 1 .. Len(ms) - 1 /\ Len(ms) \in Nat
          /\ \A j \in DOMAIN rest : rest[j] = ms[j + 1]
      BY <1>1, RestFacts DEF rest, ms
    <3>3. ASSUME i # 1
          PROVE  FALSE
      <4>1. i - 1 \in DOMAIN rest /\ i - 1 >= 1 /\ (i - 1) + 1 = i
        BY <3>2, <3>3
      <4>2. rest[i - 1] = ms[i]
        BY <3>2, <4>1
      <4> QED  BY <2>4, <3>1, <4>1, <4>2
    <3> QED  BY <3>3
  <2> QED  BY <1>8, <2>1, <2>4, <2>5 DEF IsAnswer, t
<1>9. /\ h.targets = r.targets /\ h.updated = r.updated /\ h.gone = r.gone
      /\ h.resets = r.resets /\ h.sent = r.sent
      /\ \A u \in DOMAIN r.targets : u \in DOMAIN h.states
      /\ \A u \in Nat : ~IsAnswer(m, u) => /\ Ensure(h, u).added = Ensure(r, u).added
                                          /\ Ensure(h, u).removed = Ensure(r, u).removed
      /\ \A u \in DOMAIN remote.targets :
           ~Asked(remote.sent, u) /\ IsAnswer(m, u) /\ Quiet(rest, 1, u) =>
             Ensure(h, u).added = {} /\ Ensure(h, u).removed = {}
  <2>1. CASE m.kind = "current"
    <3>1. \A u : ~IsAnswer(m, u)
      BY <2>1 DEF IsAnswer
    <3>2. CASE h = r
      BY <1>1, <3>1, <3>2
    <3>3. CASE h = InState(r, t, now)
      <4>1. /\ RestSame(h, r) /\ h.sent = r.sent /\ DOMAIN r.states \subseteq DOMAIN h.states
            /\ \A u \in Nat : Ensure(h, u) = IF u = t THEN now ELSE Ensure(r, u)
        BY <1>3, <1>7, <3>3
      <4> QED  BY <1>1, <1>3, <3>1, <4>1 DEF RestSame, s
    <3> QED  BY <1>4, <2>1, <3>2, <3>3
  <2>2. CASE m.kind # "current" /\ \E v \in {fewer, none} : h = InState(r, t, v)
    <3>1. PICK v \in {fewer, none} : h = InState(r, t, v)
      BY <2>2
    <3>2. v \in TargetStates /\ v.outstanding = fewer.outstanding
      BY <1>3
    <3>3. /\ RestSame(h, r) /\ h.sent = r.sent /\ DOMAIN r.states \subseteq DOMAIN h.states
          /\ \A u \in Nat : Ensure(h, u) = IF u = t THEN v ELSE Ensure(r, u)
      BY <1>7, <3>1, <3>2
    <3>4. IsAnswer(m, t)
      BY <1>1, <2>2 DEF IsAnswer, t
    <3>5. \A u \in Nat : ~IsAnswer(m, u) => /\ Ensure(h, u).added = Ensure(r, u).added
                                            /\ Ensure(h, u).removed = Ensure(r, u).removed
      BY <3>3, <3>4
    <3>6. ASSUME NEW u \in DOMAIN remote.targets, ~Asked(remote.sent, u), IsAnswer(m, u),
                 Quiet(rest, 1, u)
          PROVE  Ensure(h, u).added = {} /\ Ensure(h, u).removed = {}
      <4>1. m.kind = "added" /\ u = t
        BY <1>8, <3>6
      <4>2. Ensure(h, t).outstanding = 0 /\ Ensure(h, t) = v
        BY <1>1, <1>2, <1>6, <3>3, <3>6, <4>1
      <4>3. h = InState(r, t, none)
        BY <1>4, <3>2, <4>1, <4>2
      <4>4. Ensure(h, t) = none
        BY <1>2, <1>3, <1>7, <4>3
      <4> QED  BY <1>3, <4>1, <4>4
    <3> QED  BY <1>1, <3>3, <3>5, <3>6 DEF RestSame
  <2>3. CASE m.kind = "removed" /\ h = [r EXCEPT !.states = Less(@, t)] /\ fewer.outstanding = 0
    <3>1. /\ h.targets = r.targets /\ h.updated = r.updated /\ h.gone = r.gone
          /\ h.resets = r.resets /\ h.sent = r.sent /\ h.states = Less(r.states, t)
      BY <1>1, <2>3 DEF Remotes
    <3>2. /\ DOMAIN h.states = DOMAIN r.states \ {t}
          /\ \A u \in DOMAIN r.states \ {t} : h.states[u] = r.states[u]
      BY <3>1 DEF Less, Restrict
    <3>3. \A u \in Nat \ {t} : Ensure(h, u) = Ensure(r, u)
      BY <3>2 DEF Ensure
    <3>4. IsAnswer(m, t)
      BY <1>1, <2>3 DEF IsAnswer, t
    <3>5. \A u \in DOMAIN remote.targets : ~(~Asked(remote.sent, u) /\ IsAnswer(m, u)
                                             /\ Quiet(rest, 1, u))
      BY <1>8, <2>3
    <3>6. t \notin DOMAIN r.targets
      <4>1. Ensure(h, t).outstanding = 0
        BY <3>2 DEF Ensure, NewTarget
      <4> QED  BY <1>1, <1>2, <1>6, <3>1, <3>4, <3>5, <4>1
    <3> QED  BY <1>1, <3>1, <3>2, <3>3, <3>4, <3>5, <3>6
  <2> QED  BY <1>1, <1>4, <2>1, <2>2, <2>3
<1>10. m.kind # "docs" /\ m = Head(responses) /\ rest = Tail(responses)
  BY <1>1 DEF ms, rest
<1> QED  BY <1>1, <1>9, <1>10, GatheredSame

(* A lookup's document is counted and found to be gone.                    *)
LEMMA GatherNoneBacked ==
    ASSUME IInv, BackedInv, ~denied, GatherWatchChange, Head(responses).kind = "filter",
           NEW r, r = UpdateState(remote, "Online"), NEW t, t = Head(responses).target,
           t # Query, IsActiveTarget(r, t), Head(responses).count = 0,
           remote' = RemoveDocuments(r, t, {Key(t)}, TRUE)
    PROVE  BackedInv'
<1> DEFINE ms == responses
           m == responses[1]
           rest == Tail(responses)
           p == Pair
           q == Pair'
           h == RemoveDocuments(r, t, {Key(t)}, TRUE)
           key == Key(t)
<1>1. /\ UNCHANGED <<docs, denied, changes, served, stream, limbos, cache, synced, token, live,
                     current, limbo, seen>>
      /\ ms \in Seq(Messages) /\ ms # <<>> /\ responses' = rest /\ rest \in Seq(Messages)
      /\ Head(ms) = m /\ 1 \in DOMAIN ms
      /\ r \in Remotes /\ r.targets = remote.targets /\ r.sent = remote.sent
      /\ r.states = remote.states /\ r.updated = remote.updated /\ r.gone = remote.gone
      /\ r.resets = remote.resets /\ \A u : Ensure(r, u) = Ensure(remote, u)
  BY GatherBegins
<1>2. /\ Gathering(r, ms) /\ Gathering(r, rest) /\ TakenBack(r, synced)
      /\ \A u \in DOMAIN r.targets :
           /\ u \in Nat /\ u \in DOMAIN r.states
           /\ ~Asked(r.sent, u) => Standing(p, ms, served, u)
      /\ \A u \in Nat : Ensure(r, u).outstanding = 0 <=> ~Asked(r.sent, u) /\ Quiet(ms, 1, u)
      /\ p.remote = remote /\ p.limbos = limbos /\ q.remote = remote' /\ q.limbos = limbos
      /\ limbos \in Limbos /\ Agree(r, limbos, live)
  BY GatherBegins
<1>3. /\ t \in DOMAIN r.targets /\ t \in Nat /\ t \in DOMAIN limbos.active
      /\ ~Asked(r.sent, t) /\ Quiet(ms, 1, t) /\ key = limbos.active[t].key
  BY <1>1, <1>2 DEF IsActiveTarget, Agree, Key
<1>4. key \in Keys
  BY <1>2, <1>3 DEF Limbos, Tables, Lookups
<1>5. /\ m.kind = "filter" /\ m.target = t /\ m.count = 0 /\ ms[1] = m
      /\ ms[1].kind # "snapshot" /\ \A u : ~IsAnswer(ms[1], u) /\ \A d : ~Says(ms, 1, u, d)
  BY <1>1 DEF IsAnswer, Says
<1> HIDE DEF ms, m, rest, p, q, key
<1>6. Fit(rest, 0, {}, {key})
  <2>1. NoneLeft(p, ms, t)
    BY <1>2, <1>3 DEF Standing
  <2>2. Fit(ms, 1, {}, {p.limbos.active[t].key})
    BY <1>1, <1>3, <1>5, <2>1 DEF NoneLeft
  <2>3. 1 \in Nat /\ Fit(ms, 1, {}, {key})
    BY <1>2, <1>3, <2>2
  <2>4. Fit(rest, IF 1 = 0 THEN 0 ELSE 1 - 1, {}, {key})
    BY <1>1, <2>3, FitTail DEF rest, ms
  <2> QED  BY <2>4
<1>7. RemovedFor(h, r, t, {key})
  <2>1. {key} \in SUBSET Keys /\ TRUE \in BOOLEAN
    BY <1>4
  <2> QED  BY <1>1, <1>3, <2>1, RemoveDocumentsDetails DEF key
<1> HIDE DEF h
<1>8. /\ h \in Remotes /\ h.targets = r.targets /\ h.sent = r.sent /\ h.resets = r.resets
      /\ DOMAIN h.states = DOMAIN r.states \cup {t}
      /\ \A u \in Nat \ {t} : Ensure(h, u) = Ensure(r, u)
      /\ Ensure(h, t).added = Ensure(r, t).added \ {key}
      /\ h.updated \in {r.updated, Without(r.updated, {key})}
      /\ h.gone \in {r.gone, r.gone \cup {key}}
  BY <1>7 DEF RemovedFor, GatheredFor
<1> DEFINE none == {}
           one == {key}
<1>9. PICK n \in DOMAIN rest : /\ NextSnapshot(rest, 0, n) /\ rest[n].docs \in Collections
                               /\ r.updated \cup none \subseteq rest[n].docs
                               /\ (r.gone \cup one) \cap KeysOf(rest[n].docs) = {}
  <2>1. Fit(rest, 0, none, one)
    BY <1>6
  <2> HIDE DEF none, one
  <2> QED  BY <1>1, <1>2, <2>1, GatheringJoin
<1>10. \A d \in r.updated : d[1] # key
  BY <1>9 DEF KeysOf
<1>11. h.updated = r.updated
  BY <1>8, <1>10 DEF Without
<1>12. Gathering(h, rest)
  <2>1. Fit(rest, 0, h.updated, h.gone)
    BY <1>8, <1>9, <1>11 DEF Fit
  <2> QED  BY <1>2, <1>8, <2>1 DEF Gathering
<1>13. TakenBack(h, synced)
  BY <1>2, <1>8 DEF TakenBack, Query
<1>14. ASSUME NEW u \in DOMAIN remote.targets, ~Asked(remote.sent, u)
       PROVE  Heeded(q, p, ms, u)
  <2>1. Noted(p, ms, u) /\ u \in Nat
    BY <1>1, <1>2, <1>14 DEF Standing
  <2>2. remote' = h /\ p.remote.updated \subseteq q.remote.updated /\ q.limbos = p.limbos
    BY <1>1, <1>2, <1>11 DEF h
  <2>3. CASE u # t
    <3>1. Ensure(q.remote, u) = Ensure(p.remote, u)
      BY <1>1, <1>2, <1>8, <2>1, <2>2, <2>3
    <3>2. Noted(q, rest, u)
      BY <1>1, <1>5, <2>1, <2>2, <3>1, NotedRead DEF rest, ms
    <3> QED  BY <1>5, <3>1, <3>2 DEF Heeded, rest, ms
  <2>4. CASE u = t
    <3>1. \A d \in r.updated : d[1] \in Ensure(r, t).added => d[1] \in Ensure(h, t).added
      BY <1>8, <1>10
    <3>2. Fit(Tail(ms), 0, {}, {p.limbos.active[u].key})
      BY <1>2, <1>3, <1>6, <2>4 DEF rest, ms
    <3>3. Noted(q, rest, u)
      BY <1>1, <1>5, <2>1, <2>2, <2>4, <3>2, NotedRead DEF rest, ms
    <3> QED  BY <1>1, <1>2, <1>5, <2>2, <2>4, <3>1, <3>3 DEF Heeded, rest, ms
  <2> QED  BY <2>3, <2>4
<1> QED  BY <1>1, <1>2, <1>5, <1>8, <1>11, <1>12, <1>13, <1>14, GatheredBacked
         DEF rest, ms, p, q, h

(* The collection is counted, and what is known of it is taken back.       *)
LEMMA GatherResetBacked ==
    ASSUME IInv, BackedInv, ~denied, GatherWatchChange, Head(responses).kind = "filter",
           NEW r, r = UpdateState(remote, "Online"), Head(responses).target = Query,
           NEW s, s = InState(r, Query, [NewTarget EXCEPT !.removed = synced]),
           remote' = [s EXCEPT !.resets = @ \cup {Query}]
    PROVE  BackedInv'
<1> DEFINE ms == responses
           m == responses[1]
           rest == Tail(responses)
           p == Pair
           q == Pair'
           v == [NewTarget EXCEPT !.removed = synced]
           h == [s EXCEPT !.resets = @ \cup {Query}]
<1>1. /\ UNCHANGED <<docs, denied, changes, served, stream, limbos, cache, synced, token, live,
                     current, limbo, seen>>
      /\ ms \in Seq(Messages) /\ ms # <<>> /\ responses' = rest /\ rest \in Seq(Messages)
      /\ Head(ms) = m /\ 1 \in DOMAIN ms /\ synced \in SUBSET Keys
      /\ r \in Remotes /\ r.targets = remote.targets /\ r.sent = remote.sent
      /\ r.states = remote.states /\ r.updated = remote.updated /\ r.gone = remote.gone
      /\ r.resets = remote.resets /\ \A u : Ensure(r, u) = Ensure(remote, u)
  BY GatherBegins
<1>2. /\ Gathering(r, ms) /\ Gathering(r, rest) /\ Fitting(ms)
      /\ \A u \in DOMAIN r.targets :
           /\ u \in Nat /\ u \in DOMAIN r.states
           /\ ~Asked(r.sent, u) => Standing(p, ms, served, u)
      /\ p.remote = remote /\ p.limbos = limbos /\ q.remote = remote' /\ q.limbos = limbos
  BY GatherBegins
<1>3. /\ m.kind = "filter" /\ m.target = Query /\ ms[1] = m
      /\ ms[1].kind # "snapshot" /\ \A u : ~IsAnswer(ms[1], u) /\ \A d : ~Says(ms, 1, u, d)
  BY <1>1 DEF IsAnswer, Says
<1> HIDE DEF ms, m, rest, p, q
<1>4. v \in TargetStates /\ v.added = {} /\ v.removed = synced
  <2>1. NewTarget \in TargetStates /\ NewTarget.added = {}
    BY DEF NewTarget, TargetStates
  <2> QED  BY <1>1, <2>1 DEF TargetStates
<1> HIDE DEF v
<1>5. s = InState(r, Query, v) /\ DOMAIN s.states = DOMAIN r.states \cup {Query}
  <2>1. s = InState(r, Query, v)
    BY DEF v
  <2> QED  BY <1>1, <2>1 DEF InState, With, Remotes
<1>6. /\ s \in Remotes /\ s.sent = r.sent /\ RestSame(s, r)
      /\ \A u \in Nat : Ensure(s, u) = IF u = Query THEN v ELSE Ensure(r, u)
  <2>1. Query \in Nat
    BY DEF Query
  <2> QED  BY <1>1, <1>4, <1>5, <2>1, InStateFacts
<1>7. /\ h.targets = r.targets /\ h.updated = r.updated /\ h.gone = r.gone
      /\ h.sent = r.sent /\ h.states = s.states
  BY <1>6 DEF Remotes, RestSame
<1>8. remote' = h
  OBVIOUS
<1> HIDE DEF h
<1>9. \A u \in Nat : Ensure(h, u) = IF u = Query THEN v ELSE Ensure(r, u)
  BY <1>6, <1>7 DEF Ensure
<1>10. Gathering(h, rest)
  <2>1. Undisturbed(ms, 1) /\ 1 \in Nat
    BY <1>1, <1>2, <1>3 DEF Fitting
  <2>2. Undisturbed(rest, IF 1 = 0 THEN 0 ELSE 1 - 1)
    BY <1>1, <2>1, UndisturbedTail DEF rest, ms
  <2> QED  BY <1>2, <1>7, <2>2 DEF Gathering
<1>11. TakenBack(h, synced)
  <2>1. Query \in Nat
    BY DEF Query
  <2> QED  BY <1>4, <1>9, <2>1 DEF TakenBack
<1>12. ASSUME NEW u \in DOMAIN remote.targets, ~Asked(remote.sent, u)
       PROVE  Heeded(q, p, ms, u)
  <2>1. Noted(p, ms, u) /\ u \in Nat
    BY <1>1, <1>2, <1>12 DEF Standing
  <2>2. p.remote.updated \subseteq q.remote.updated /\ q.limbos = p.limbos
    <3>1. p.remote = remote /\ q.remote = h /\ q.limbos = p.limbos
      BY <1>2, <1>8
    <3>2. h.updated = remote.updated
      BY <1>1, <1>7
    <3> QED  BY <3>1, <3>2
  <2>3. IF u = Query THEN Ensure(q.remote, u) = v ELSE Ensure(q.remote, u) = Ensure(p.remote, u)
    <3>1. q.remote = h /\ p.remote = remote
      BY <1>2, <1>8
    <3>2. Ensure(h, u) = IF u = Query THEN v ELSE Ensure(r, u)
      BY <1>9, <2>1
    <3>3. Ensure(r, u) = Ensure(remote, u)
      BY <1>1
    <3> QED  BY <3>1, <3>2, <3>3
  <2>4. Noted(q, rest, u)
    BY <1>1, <1>3, <1>4, <2>1, <2>2, <2>3, NotedRead DEF rest, ms
  <2> QED  BY <1>3, <2>3, <2>4 DEF Heeded, rest, ms
<1> QED  BY <1>1, <1>2, <1>3, <1>5, <1>7, <1>8, <1>10, <1>11, <1>12, GatheredBacked
         DEF rest, ms, p, q

LEMMA GatherWatchChangeBacked ==
    ASSUME IInv, BackedInv, ~denied, GatherWatchChange
    PROVE  BackedInv'
<1> DEFINE r == UpdateState(remote, "Online")
           m == Head(responses)
<1>1. /\ m.kind \in {"added", "removed", "current", "docs", "filter"}
      /\ m.kind = "filter" => remote' = HandleExistenceFilter(r, m)
      /\ r.targets = remote.targets /\ r.sent = remote.sent
      /\ r.states = remote.states /\ r.updated = remote.updated /\ r.gone = remote.gone
      /\ r.resets = remote.resets /\ \A u : Ensure(r, u) = Ensure(remote, u)
      /\ \A u \in DOMAIN r.targets : u \in Nat /\ u \in DOMAIN r.states
  BY GatherBegins
<1>2. CASE m.kind = "docs"
  BY <1>2, GatherDocsBacked
<1>3. CASE m.kind \in {"added", "removed", "current"}
  BY <1>3, GatherTargetsBacked
<1>4. CASE m.kind = "filter"
  <2>1. \/ remote' = r
        \/ /\ m.target # Query /\ IsActiveTarget(r, m.target) /\ m.count = 0
           /\ remote' = RemoveDocuments(r, m.target, {Key(m.target)}, TRUE)
        \/ /\ m.target = Query
           /\ remote' = [InState(r, Query, [NewTarget EXCEPT !.removed = synced])
                           EXCEPT !.resets = @ \cup {Query}]
    <3> HIDE DEF r, m
    <3> QED  BY <1>1, <1>4 DEF HandleExistenceFilter
  <2>2. CASE remote' = r
    <3>1. \A u : ~IsAnswer(m, u)
      BY <1>4 DEF IsAnswer
    <3> HIDE DEF r
    <3> QED  BY <1>1, <1>4, <2>2, <3>1, GatheredSame
  <2>3. CASE /\ m.target # Query /\ IsActiveTarget(r, m.target) /\ m.count = 0
             /\ remote' = RemoveDocuments(r, m.target, {Key(m.target)}, TRUE)
    BY <1>4, <2>3, GatherNoneBacked
  <2>4. CASE /\ m.target = Query
             /\ remote' = [InState(r, Query, [NewTarget EXCEPT !.removed = synced])
                             EXCEPT !.resets = @ \cup {Query}]
    BY <1>4, <2>4, GatherResetBacked
  <2> QED  BY <2>1, <2>2, <2>3, <2>4
<1> QED  BY <1>1, <1>2, <1>3, <1>4

--------------------------------------------------------------------------------
(* An event keeps the invariant *)

(* A request for t has been sent: s is r, but for t.                       *)
Sent(s, r, t, q) ==
    /\ s \in Remotes /\ s.sent = Append(r.sent, q) /\ RestSame(s, r)
    /\ DOMAIN s.states = DOMAIN r.states \cup {t}
    /\ \A u \in Nat \ {t} : Ensure(s, u) = Ensure(r, u)

LEMMA SendIsSent ==
    ASSUME NEW r \in Remotes, NEW t \in Nat, NEW q \in Requests, q.target = t
    PROVE  Sent(Send(r, t, q), r, t, q)
<1> DEFINE s == Send(r, t, q)
<1>1. s \in Remotes /\ s.sent = Append(r.sent, q) /\ RestSame(s, r)
  BY SendFacts
<1>2. DOMAIN s.states = DOMAIN r.states \cup {t}
  BY SendDetails
<1>3. \A u \in Nat \ {t} : Ensure(s, u) = Ensure(r, u)
  BY SendDetails
<1> HIDE DEF s
<1>4. Sent(s, r, t, q)
  BY <1>1, <1>2, <1>3 DEF Sent
<1> QED  BY <1>4 DEF s

(* What the event S leaves of r.                                           *)
Event(e, r, S) ==
    /\ DOMAIN e.targets = DOMAIN r.targets /\ DOMAIN r.states \subseteq DOMAIN e.states
    /\ e.updated = {} /\ e.gone = {} /\ e.resets = {}
    /\ Extends(e.sent, r.sent)
    /\ \A t \in DOMAIN r.targets :
         IF t \in r.resets
         THEN e.targets[t] = NoToken /\ LastAsked(e.sent, Watch(t, Keys, NoToken))
         ELSE /\ \A i \in DOMAIN e.sent \ DOMAIN r.sent : e.sent[i].target # t
              /\ IF t \in DOMAIN r.states /\ IsActiveTarget(r, t)
                 THEN /\ e.targets[t] = {S}
                      /\ Ensure(e, t).added = {} /\ Ensure(e, t).removed = {}
                 ELSE e.targets[t] = r.targets[t]

LEMMA AfterEventDetails ==
    ASSUME NEW r \in Remotes, NEW S \in Collections
    PROVE  Event(AfterEvent(r, S), r, S)
<1> DEFINE counted == {t \in DOMAIN r.states : IsActiveTarget(r, t)}
           reset == r.resets \cap DOMAIN r.targets
           f == r.targets
           g == r.states
           targets == [t \in DOMAIN f |-> IF t \in reset THEN NoToken
                                          ELSE IF t \in counted THEN {S} ELSE f[t]]
           states == [t \in DOMAIN g |-> IF t \in counted
                                         THEN [g[t] EXCEPT !.added = {}, !.removed = {}]
                                         ELSE g[t]]
           done == [r EXCEPT !.targets = targets, !.states = states,
                             !.updated = {}, !.gone = {}, !.resets = {}]
           unwatch == Unwatch(Query)
           watch == Watch(Query, Keys, NoToken)
           s1 == Send(done, Query, unwatch)
           s2 == Send(s1, Query, watch)
           e == AfterEvent(r, S)
<1>1. e = IF reset = {} THEN done ELSE s2
  BY DEF AfterEvent
<1>2. /\ f \in Tables(Tokens) /\ g \in Tables(TargetStates) /\ r.resets \subseteq {Query}
      /\ r.sent \in Seq(Requests)
  BY DEF Remotes
<1>3. targets \in Tables(Tokens)
  <2>1. \A t \in DOMAIN f : f[t] \in Tokens
    BY <1>2, TableFacts
  <2>2. {S} \in Tokens /\ NoToken \in Tokens
    BY SnapshotToken, NoTokenType
  <2> HIDE DEF reset, counted, f
  <2>3. targets \in [DOMAIN f -> Tokens]
    BY <2>1, <2>2
  <2> QED  BY <1>2, <2>3, SameIds
<1>4. ASSUME NEW t \in DOMAIN g
      PROVE  /\ states[t] \in TargetStates
             /\ t \in counted => states[t].added = {} /\ states[t].removed = {}
  <2>1. g[t] \in TargetStates
    BY <1>2, TableFacts
  <2> HIDE DEF counted, g
  <2> QED  BY <2>1 DEF TargetStates
<1>5. states \in Tables(TargetStates) /\ DOMAIN states = DOMAIN g
  <2>1. DOMAIN states = DOMAIN g /\ states = [t \in DOMAIN states |-> states[t]]
    OBVIOUS
  <2> HIDE DEF states
  <2>2. states \in [DOMAIN g -> TargetStates]
    BY <1>4, <2>1
  <2> QED  BY <1>2, <2>1, <2>2, SameIds
<1>6. /\ DOMAIN targets = DOMAIN f
      /\ \A t \in DOMAIN f : targets[t] = IF t \in reset THEN NoToken
                                         ELSE IF t \in counted THEN {S} ELSE f[t]
  OBVIOUS
<1> HIDE DEF targets, states
<1>7. /\ done \in Remotes /\ done.targets = targets /\ done.states = states /\ done.updated = {}
      /\ done.gone = {} /\ done.resets = {} /\ done.sent = r.sent
  <2>1. {} \in Collections
    BY DEF Collections, IsCollection
  <2> QED  BY <1>3, <1>5, <2>1 DEF Remotes
<1> HIDE DEF done
<1>8. \A t \in counted : Ensure(done, t).added = {} /\ Ensure(done, t).removed = {}
  BY <1>4, <1>5, <1>7 DEF Ensure
<1>9. \A t : t \in counted <=> t \in DOMAIN r.states /\ IsActiveTarget(r, t)
  OBVIOUS
<1>10. \A t : t \in DOMAIN f => (t \in reset <=> t \in r.resets)
  OBVIOUS
<1> HIDE DEF f, g, counted, reset
<1>11. /\ DOMAIN f = DOMAIN r.targets /\ DOMAIN g = DOMAIN r.states
       /\ \A t : f[t] = r.targets[t]
       /\ reset \subseteq DOMAIN f
  BY DEF f, g, reset
<1>12. CASE reset = {}
  <2>1. e = done
    BY <1>1, <1>12
  <2>2. Extends(e.sent, r.sent) /\ \A i : i \notin DOMAIN e.sent \ DOMAIN r.sent
    BY <1>7, <2>1 DEF Extends
  <2> HIDE DEF e
  <2>3. ASSUME NEW t \in DOMAIN r.targets
        PROVE  /\ t \notin r.resets
               /\ IF t \in DOMAIN r.states /\ IsActiveTarget(r, t)
                  THEN /\ e.targets[t] = {S}
                       /\ Ensure(e, t).added = {} /\ Ensure(e, t).removed = {}
                  ELSE e.targets[t] = r.targets[t]
    BY <1>6, <1>7, <1>8, <1>9, <1>10, <1>11, <1>12, <2>1, <2>3
  <2>4. /\ DOMAIN e.targets = DOMAIN r.targets /\ DOMAIN r.states \subseteq DOMAIN e.states
        /\ e.updated = {} /\ e.gone = {} /\ e.resets = {}
    BY <1>5, <1>6, <1>7, <1>11, <2>1
  <2> QED  BY <2>2, <2>3, <2>4 DEF Event, e
<1>13. CASE reset # {}
  <2>1. e = s2
    BY <1>1, <1>13
  <2>2. /\ unwatch \in Requests /\ unwatch.target = Query
        /\ watch \in Requests /\ watch.target = Query /\ Query \in Nat
    <3>1. Query \in Nat /\ Keys \in SUBSET Keys /\ NoToken \in Tokens
      BY NoTokenType DEF Query
    <3> QED  BY <3>1, RequestTypes
  <2> HIDE DEF unwatch, watch, s1, s2
  <2>3. /\ s1 \in Remotes /\ s1.sent = Append(done.sent, unwatch) /\ RestSame(s1, done)
        /\ DOMAIN s1.states = DOMAIN done.states \cup {Query}
        /\ \A u \in Nat \ {Query} : Ensure(s1, u) = Ensure(done, u)
    <3>1. Sent(s1, done, Query, unwatch)
      BY <1>7, <2>2, SendIsSent DEF s1
    <3> QED  BY <3>1 DEF Sent
  <2>4. /\ s2 \in Remotes /\ s2.sent = Append(s1.sent, watch) /\ RestSame(s2, s1)
        /\ DOMAIN s2.states = DOMAIN s1.states \cup {Query}
        /\ \A u \in Nat \ {Query} : Ensure(s2, u) = Ensure(s1, u)
    <3>1. Sent(s2, s1, Query, watch)
      BY <2>2, <2>3, SendIsSent DEF s2
    <3> QED  BY <3>1 DEF Sent
  <2> HIDE DEF e
  <2>5. /\ e.targets = targets /\ e.updated = {} /\ e.gone = {} /\ e.resets = {}
        /\ DOMAIN g \subseteq DOMAIN e.states
        /\ \A u \in Nat \ {Query} : Ensure(e, u) = Ensure(done, u)
    BY <1>5, <1>7, <2>1, <2>3, <2>4 DEF RestSame
  <2>6. /\ Extends(e.sent, r.sent) /\ LastAsked(e.sent, watch)
        /\ \A i \in DOMAIN e.sent \ DOMAIN r.sent : e.sent[i].target = Query
    <3>1. /\ Extends(s1.sent, r.sent)
          /\ \A i \in DOMAIN s1.sent \ DOMAIN r.sent : s1.sent[i] = unwatch
      BY <1>2, <1>7, <2>2, <2>3, ExtendsAppend
    <3>2. s1.sent \in Seq(Requests)
      BY <2>3 DEF Remotes
    <3>3. /\ Extends(e.sent, s1.sent) /\ LastAsked(e.sent, watch)
          /\ \A i \in DOMAIN e.sent \ DOMAIN s1.sent : e.sent[i] = watch
      BY <2>1, <2>2, <2>4, <3>2, ExtendsAppend
    <3> QED  BY <2>2, <3>1, <3>3 DEF Extends
  <2>7. reset = {Query}
    BY <1>2, <1>13 DEF reset
  <2>8. ASSUME NEW t \in DOMAIN r.targets
        PROVE  IF t \in r.resets
               THEN e.targets[t] = NoToken /\ LastAsked(e.sent, Watch(t, Keys, NoToken))
               ELSE /\ \A i \in DOMAIN e.sent \ DOMAIN r.sent : e.sent[i].target # t
                    /\ IF t \in DOMAIN r.states /\ IsActiveTarget(r, t)
                       THEN /\ e.targets[t] = {S}
                            /\ Ensure(e, t).added = {} /\ Ensure(e, t).removed = {}
                       ELSE e.targets[t] = r.targets[t]
    <3>1. CASE t \in r.resets
      <4>1. t = Query /\ t \in reset /\ t \in DOMAIN f
        BY <1>10, <1>11, <2>7, <2>8, <3>1
      <4> QED  BY <1>6, <2>5, <2>6, <3>1, <4>1 DEF watch
    <3>2. CASE t \notin r.resets
      <4>1. t # Query /\ t \notin reset /\ t \in DOMAIN f /\ t \in Nat
        <5>1. t \in DOMAIN f
          BY <1>11, <2>8
        <5> QED  BY <1>2, <1>10, <2>7, <3>2, <5>1, TableFacts
      <4>2. t \in counted => Ensure(e, t).added = {} /\ Ensure(e, t).removed = {}
        BY <1>8, <2>5, <4>1
      <4>3. e.targets[t] = IF t \in counted THEN {S} ELSE r.targets[t]
        BY <1>6, <1>11, <2>5, <4>1
      <4> QED  BY <1>9, <2>6, <3>2, <4>1, <4>2, <4>3
    <3> QED  BY <3>1, <3>2
  <2>9. DOMAIN e.targets = DOMAIN r.targets /\ DOMAIN r.states \subseteq DOMAIN e.states
    BY <1>6, <1>11, <2>5
  <2> QED  BY <2>5, <2>6, <2>8, <2>9 DEF Event, e
<1> QED  BY <1>12, <1>13

(* What a snapshot S finds when it is read by the remote store r.          *)
Meets(r, S) ==
    /\ responses \in Seq(Messages) /\ responses # <<>> /\ 1 \in DOMAIN responses
    /\ responses[1].kind = "snapshot" /\ responses[1].docs = S /\ S \in Collections
    /\ stream = "open" /\ live \in BOOLEAN /\ limbos \in Limbos /\ Agree(r, limbos, live)
    /\ r \in Remotes /\ r.resets \subseteq {Query}
    /\ r.updated \subseteq S /\ \A k \in r.gone : k \notin KeysOf(S)
    /\ TakenBack(r, synced) /\ Fitting(responses)
    /\ \A t \in DOMAIN r.targets \ {Query} :
         limbos.active[t].key \in KeysOf(UNION r.targets[t]) => limbos.active[t].received
    /\ \A t \in DOMAIN r.targets :
         /\ t \in Nat /\ t \in DOMAIN r.states
         /\ IsActiveTarget(r, t) <=> ~Asked(r.sent, t) /\ Quiet(responses, 1, t)
         /\ IF Asked(r.sent, t)
            THEN LastAsked(r.sent, Watch(t, About(limbos, t), r.targets[t]))
            ELSE Standing([remote |-> r, limbos |-> limbos], responses, served, t)

LEMMA RaiseBegins ==
    ASSUME IInv, BackedInv, ~denied, responses # <<>>, Head(responses).kind = "snapshot",
           NEW r, r = UpdateState(remote, "Online"), NEW S, S = Head(responses).docs
    PROVE  /\ Meets(r, S) /\ r.targets = remote.targets /\ r.sent = remote.sent
           /\ Tail(responses) \in Seq(Messages) /\ Head(responses) = responses[1]
<1>1. /\ WatchingInv /\ FittingInv /\ Types /\ responses \in Seq(Messages) /\ remote \in Remotes
      /\ limbos \in Limbos /\ Agree(remote, limbos, live)
      /\ Pair.remote = remote /\ Pair.limbos = limbos
  BY Backing
<1>2. /\ stream = "open" /\ Head(responses) \in Messages /\ Tail(responses) \in Seq(Messages)
      /\ RemoteSound(r, responses, stream, denied) /\ r \in Remotes
      /\ r.targets = remote.targets /\ r.updated = remote.updated /\ r.sent = remote.sent
      /\ r.resets = remote.resets /\ r.states = remote.states
  BY Reading
<1>3. r.gone = remote.gone
  BY <1>1, UpdateStateFacts DEF Onlines
<1>4. \A u : Ensure(r, u) = Ensure(remote, u)
  BY <1>2 DEF Ensure
<1>5. Agree(r, limbos, live)
  BY <1>1, <1>2, AgreeSame
<1>6. Head(responses) = responses[1] /\ 1 \in DOMAIN responses
  BY <1>1, RestFacts
<1>7. Gathering(r, responses) /\ TakenBack(r, synced) /\ Fitting(responses) /\ Receipts(Pair)
  BY <1>1, <1>2, <1>3, <1>4 DEF FittingInv, Gathering, TakenBack
<1>8. S \in Collections
  <2>1. Head(responses) \in Snapshots
    BY <1>2, MessageKinds
  <2> QED  BY <2>1 DEF Snapshots
<1>9. r.updated \subseteq S /\ \A k \in r.gone : k \notin KeysOf(S)
  <2>1. CASE r.updated = {} /\ r.gone = {}
    BY <2>1
  <2>2. CASE r.updated # {} \/ r.gone # {}
    <3>1. Fit(responses, 0, r.updated, r.gone)
      BY <1>7, <2>2 DEF Gathering
    <3>2. r.updated \subseteq responses[1].docs /\ r.gone \cap KeysOf(responses[1].docs) = {}
      BY <1>1, <1>6, <3>1, FitHead
    <3> DEFINE ks == KeysOf(responses[1].docs)
    <3> HIDE DEF ks
    <3>3. r.gone \cap ks = {} /\ ks = KeysOf(S)
      BY <1>6, <3>2 DEF ks
    <3> QED  BY <1>6, <3>2, <3>3
  <2> QED  BY <2>1, <2>2
<1>10. ASSUME NEW t \in DOMAIN r.targets \ {Query},
              limbos.active[t].key \in KeysOf(UNION r.targets[t])
       PROVE  limbos.active[t].received
  BY <1>1, <1>2, <1>7, <1>10 DEF Receipts
<1>11. ASSUME NEW t \in DOMAIN r.targets
       PROVE  /\ t \in Nat /\ t \in DOMAIN r.states
              /\ IsActiveTarget(r, t) <=> ~Asked(r.sent, t) /\ Quiet(responses, 1, t)
              /\ IF Asked(r.sent, t)
                 THEN LastAsked(r.sent, Watch(t, About(limbos, t), r.targets[t]))
                 ELSE Standing([remote |-> r, limbos |-> limbos], responses, served, t)
  <2>1. Watching(Pair, responses, served, t)
    BY <1>1, <1>2, <1>11 DEF WatchingInv
  <2>2. t \in Nat
    <3>1. r.targets \in Tables(Tokens)
      BY <1>2 DEF Remotes
    <3> QED  BY <1>11, <3>1, TableFacts
  <2>3. IsActiveTarget(r, t) <=> ~Asked(r.sent, t) /\ Quiet(responses, 1, t)
    <3>1. Counted(r, responses)
      BY <1>2 DEF RemoteSound
    <3> QED  BY <1>1, <1>2, <1>11, <2>2, <3>1, CountsWhenQuiet DEF IsActiveTarget
  <2> DEFINE p == [remote |-> r, limbos |-> limbos]
  <2>4. p.remote = r /\ p.limbos = limbos
    OBVIOUS
  <2> HIDE DEF p
  <2>5. Standing(Pair, responses, served, t) => Standing(p, responses, served, t)
    BY <1>1, <1>2, <1>4, <2>4 DEF Standing, Held, Noted, NoneLeft
  <2> QED  BY <1>1, <1>2, <2>1, <2>2, <2>3, <2>5 DEF Watching, p
<1>12. live \in BOOLEAN /\ r.resets \subseteq {Query}
  BY <1>1, <1>2 DEF Types, Remotes
<1>13. /\ responses[1].kind = "snapshot" /\ responses[1].docs = S
  BY <1>6
<1> QED  BY <1>1, <1>2, <1>5, <1>6, <1>7, <1>8, <1>9, <1>10, <1>11, <1>12, <1>13 DEF Meets

(* All that the snapshot has of what a target that counts is about is held *)
(* for the target.                                                         *)
LEMMA HeldAtSnapshot ==
    ASSUME NEW r, NEW S, Meets(r, S), NEW t \in DOMAIN r.targets, IsActiveTarget(r, t),
           NEW d \in S, d[1] \in About(limbos, t)
    PROVE  \/ d \in UNION r.targets[t]
           \/ /\ d \in r.updated
              /\ t = Query \/ d[1] \in Ensure(r, t).added \/ limbos.active[t].received
<1> DEFINE p == [remote |-> r, limbos |-> limbos]
           ms == responses
           first == Held(p, ms, t)
           last == served[t].known
           scope == About(limbos, t)
<1>1. p.remote = r /\ p.limbos = limbos
  OBVIOUS
<1>2. Quiet(ms, 1, t) /\ Standing(p, ms, served, t) /\ 1 \in DOMAIN ms
      /\ ms[1].kind = "snapshot" /\ ms[1].docs = S /\ ms \in Seq(Messages)
  BY DEF Meets
<1>3. Told(first, last, ms, t, scope)
  BY <1>2 DEF Standing
<1> HIDE DEF first, last, p, ms
<1>4. DOMAIN ms = 1 .. Len(ms) /\ Len(ms) \in Nat
  BY <1>2
<1>5. 0 \in Points(ms) /\ 1 \in Points(ms) /\ At(first, last, ms, 0) = first
      /\ At(first, last, ms, 1) = S
  BY <1>2, <1>4 DEF Points, At
<1>6. Heard(ms, 0, t) /\ Heard(ms, 1, t) /\ 0 < 1
  BY <1>2, <1>5 DEF Heard
<1>7. d \in Scoped(At(first, last, ms, 1), scope)
  BY <1>5 DEF Scoped
<1>8. \/ d \in At(first, last, ms, 0)
      \/ \E i \in DOMAIN ms : 0 < i /\ i < 1 /\ Says(ms, i, t, d)
  BY <1>3, <1>5, <1>6, <1>7 DEF Told
<1>9. d \in first
  BY <1>4, <1>5, <1>8
<1> QED  BY <1>1, <1>9 DEF first, Held

(* What an event takes out of the cache is not in the snapshot.            *)
LEMMA CacheKept ==
    ASSUME NEW r, NEW S, Meets(r, S), NEW gone, gone = r.gone \cup {Key(t) : t \in Missing(r)},
           NEW d \in S, d \in cache \/ d \in r.updated
    PROVE  d \in CacheAfter(r.updated, gone)
<1>1. CASE d \in r.updated
  BY <1>1 DEF CacheAfter
<1>2. CASE d \in cache /\ d \notin r.updated
  <2>1. d[1] \notin KeysOf(r.updated)
    <3> SUFFICES ASSUME NEW e \in r.updated, e[1] = d[1]
                 PROVE  FALSE
      BY DEF KeysOf
    <3>1. e \in S /\ S \in Collections
      BY DEF Meets
    <3>2. e = d
      BY <3>1 DEF Collections, IsCollection
    <3> QED  BY <1>2, <3>2
  <2>2. d[1] \notin r.gone
    BY DEF Meets, KeysOf
  <2>3. ASSUME NEW t \in Missing(r), d[1] = Key(t)
        PROVE  FALSE
    <3>1. /\ t # Query /\ IsActiveTarget(r, t) /\ t \in DOMAIN r.targets
          /\ RemoteKeys(t) = {} /\ Key(t) \notin KeysOf(r.updated)
      BY DEF Missing, IsActiveTarget
    <3>2. ~limbos.active[t].received /\ About(limbos, t) = {Key(t)}
      BY <3>1 DEF RemoteKeys, About, Key
    <3>3. d \in UNION r.targets[t]
      <4>1. d[1] \in About(limbos, t)
        BY <2>3, <3>2
      <4> QED  BY <1>2, <3>1, <4>1, HeldAtSnapshot
    <3>4. limbos.active[t].key \in KeysOf(UNION r.targets[t])
      BY <2>3, <3>3 DEF Key, KeysOf
    <3> QED  BY <3>1, <3>2, <3>4 DEF Meets
  <2> QED  BY <1>2, <2>1, <2>2, <2>3 DEF CacheAfter, Without
<1> QED  BY <1>1, <1>2

(* The event leaves each target watched: one that was reset asks anew, one *)
(* that counts holds all the snapshot has of it.                           *)
LEMMA RaiseWatching ==
    ASSUME NEW r, NEW S, Meets(r, S), NEW p, Event(p.remote, r, S), p.limbos.active = Received(r),
           NEW t \in DOMAIN p.remote.targets
    PROVE  Watching(p, Tail(responses), served, t)
<1> DEFINE e == p.remote
           ms == responses
           rest == Tail(responses)
           p0 == [remote |-> r, limbos |-> limbos]
           scope == About(limbos, t)
           last == served[t].known
<1>1. p0.remote = r /\ p0.limbos = limbos
  OBVIOUS
<1>2. /\ t \in DOMAIN r.targets /\ t \in DOMAIN r.states /\ t \in DOMAIN e.states
      /\ e.updated = {}
      /\ IF t \in r.resets
         THEN e.targets[t] = NoToken /\ LastAsked(e.sent, Watch(t, Keys, NoToken))
         ELSE /\ \A i \in DOMAIN e.sent \ DOMAIN r.sent : e.sent[i].target # t
              /\ IF IsActiveTarget(r, t)
                 THEN /\ e.targets[t] = {S}
                      /\ Ensure(e, t).added = {} /\ Ensure(e, t).removed = {}
                 ELSE e.targets[t] = r.targets[t]
  BY DEF Event, Meets
<1>3. /\ ms \in Seq(Messages) /\ ms # <<>> /\ ms[1].kind = "snapshot" /\ ms[1].docs = S
      /\ r.resets \subseteq {Query}
      /\ IsActiveTarget(r, t) <=> ~Asked(r.sent, t) /\ Quiet(ms, 1, t)
      /\ IF Asked(r.sent, t) THEN LastAsked(r.sent, Watch(t, scope, r.targets[t]))
         ELSE Standing(p0, ms, served, t)
  BY <1>2 DEF Meets
<1>4. About(p.limbos, t) = scope
      /\ (t # Query => p.limbos.active[t].key = limbos.active[t].key)
  <2>1. CASE t = Query
    BY <2>1 DEF About
  <2>2. CASE t # Query
    <3>1. limbos \in Limbos /\ t \in DOMAIN limbos.active
      BY <1>2, <2>2 DEF Meets, Agree
    <3> QED  BY <2>2, <3>1, ReceivedFacts DEF About
  <2> QED  BY <2>1, <2>2
<1>5. /\ Quiet(ms, 1, t) => Quiet(rest, 1, t)
      /\ Quiet(rest, 1, t) => Quiet(ms, 1, t)
  <2>1. ~IsAnswer(ms[1], t)
    BY <1>3 DEF IsAnswer
  <2> QED  BY <1>3, <2>1, QuietTail
<1>6. Extends(e.sent, r.sent)
  BY DEF Event
<1> HIDE DEF p0, rest, ms, e, scope, last
<1>7. CASE t \in r.resets
  <2>1. t = Query /\ scope = Keys
    BY <1>3, <1>7 DEF scope, About
  <2>2. Asked(e.sent, t)
    BY <1>2, <1>7 DEF LastAsked, Asked, Watch
  <2> QED  BY <1>2, <1>4, <1>7, <2>1, <2>2 DEF Watching, e
<1>8. CASE t \notin r.resets /\ Asked(r.sent, t)
  <2>1. /\ Asked(e.sent, t)
        /\ \A w : LastAsked(r.sent, w) /\ w.target = t => LastAsked(e.sent, w)
    BY <1>2, <1>6, <1>8, AskedKept
  <2>2. Watch(t, scope, r.targets[t]).target = t
    BY DEF Watch
  <2>3. LastAsked(e.sent, Watch(t, scope, e.targets[t]))
    BY <1>2, <1>3, <1>8, <2>1, <2>2
  <2> QED  BY <1>2, <1>4, <2>1, <2>3 DEF Watching, e
<1>9. CASE t \notin r.resets /\ ~Asked(r.sent, t)
  <2>1. ~Asked(e.sent, t)
    BY <1>2, <1>6, <1>9, AskedKept
  <2>2. Standing(p0, ms, served, t)
    BY <1>3, <1>9
  <2>3. \/ Quiet(rest, 1, t)
        \/ \E i \in DOMAIN rest : rest[i] = Ack("added", t) /\ Quiet(rest, i + 1, t)
    BY <1>3, <2>2, AnsweredTail DEF Standing, rest, ms
  <2> DEFINE first == Held(p0, ms, t)
             now == Held(p, rest, t)
  <2>4. Told(first, last, ms, t, scope)
    BY <1>1, <2>2 DEF Standing, last, scope
  <2>5. CASE Quiet(ms, 1, t)
    <3>1. e.targets[t] = {S} /\ Ensure(e, t).added = {} /\ Ensure(e, t).removed = {}
      BY <1>2, <1>3, <1>9, <2>5
    <3>2. S \subseteq now
      BY <3>1 DEF Held, e
    <3> HIDE DEF first, now
    <3>3. Told(now, last, rest, t, scope)
      BY <1>3, <2>4, <2>5, <3>2, ToldTail DEF rest, ms
    <3>4. Noted(p, rest, t)
      BY <3>1 DEF Noted, e
    <3>5. NoneLeft(p, rest, t)
      BY <1>1, <1>3, <1>4, <2>2, NoneLeftTail DEF Standing, rest, ms
    <3>6. t \in DOMAIN served /\ served[t].scope = scope
      BY <1>1, <2>2 DEF Standing, scope
    <3>7. Standing(p, rest, served, t)
      BY <1>4, <2>3, <3>3, <3>4, <3>5, <3>6 DEF Standing, now, last
    <3> QED  BY <1>2, <2>1, <3>7 DEF Watching, e, rest
  <2>6. CASE ~Quiet(ms, 1, t)
    <3>1. e.targets[t] = r.targets[t]
      BY <1>2, <1>3, <1>9, <2>6
    <3>2. first \subseteq now
      BY <1>1, <2>6, <3>1 DEF Held, e
    <3>3. \A d : ~Says(ms, 1, t, d)
      BY <1>3 DEF Says
    <3> HIDE DEF first, now
    <3>4. Told(now, last, rest, t, scope)
      BY <1>3, <2>4, <3>2, <3>3, ToldTail DEF rest, ms
    <3>5. Noted(p, rest, t)
      BY <1>5, <2>6 DEF Noted
    <3>6. NoneLeft(p, rest, t)
      BY <1>1, <1>3, <1>4, <2>2, NoneLeftTail DEF Standing, rest, ms
    <3>7. t \in DOMAIN served /\ served[t].scope = scope
      BY <1>1, <2>2 DEF Standing, scope
    <3>8. Standing(p, rest, served, t)
      BY <1>4, <2>3, <3>4, <3>5, <3>6, <3>7 DEF Standing, now, last
    <3> QED  BY <1>2, <2>1, <3>8 DEF Watching, e, rest
  <2> QED  BY <2>5, <2>6
<1> QED  BY <1>7, <1>8, <1>9

(* A lookup that has its document from the event has been sent it.         *)
LEMMA RaiseReceipts ==
    ASSUME NEW r, NEW S, Meets(r, S), NEW p, Event(p.remote, r, S), p.limbos.active = Received(r)
    PROVE  Receipts(p)
<1> SUFFICES ASSUME NEW t \in DOMAIN p.remote.targets \ {Query},
                    p.limbos.active[t].key \in KeysOf(UNION p.remote.targets[t])
             PROVE  p.limbos.active[t].received
  BY DEF Receipts
<1> DEFINE e == p.remote
           ms == responses
           p0 == [remote |-> r, limbos |-> limbos]
           k == limbos.active[t].key
           was == limbos.active[t].received
           added == r.states[t].added
           removed == r.states[t].removed
<1>1. /\ t \in DOMAIN r.targets /\ t \in DOMAIN r.states /\ t \in DOMAIN limbos.active
      /\ t \notin r.resets /\ limbos \in Limbos
  BY DEF Event, Meets, Agree
<1>2. IF IsActiveTarget(r, t) THEN e.targets[t] = {S} ELSE e.targets[t] = r.targets[t]
  BY <1>1 DEF Event
<1>3. p.limbos.active[t].key = k /\ k \in KeysOf(UNION e.targets[t])
  BY <1>1, ReceivedFacts
<1>4. p.limbos.active[t] = Received(r)[t]
  OBVIOUS
<1>5. /\ ~IsActiveTarget(r, t) => Received(r)[t] = limbos.active[t]
      /\ IsActiveTarget(r, t) =>
           Received(r)[t] = [limbos.active[t] EXCEPT
               !.received = IF added # {} THEN TRUE ELSE IF removed # {} THEN FALSE ELSE @]
  BY <1>1 DEF Received
<1>6. limbos.active[t] \in Lookups
  BY <1>1, TableFacts DEF Limbos
<1>7. k \in KeysOf(UNION r.targets[t]) => was
  BY <1>1 DEF Meets
<1> HIDE DEF e, k, was, added, removed
<1>8. CASE ~IsActiveTarget(r, t)
  BY <1>2, <1>3, <1>4, <1>5, <1>7, <1>8 DEF was
<1>9. CASE IsActiveTarget(r, t)
  <2>1. k \in KeysOf(S)
    BY <1>2, <1>3, <1>9
  <2>2. PICK d \in S : d[1] = k
    BY <2>1 DEF KeysOf
  <2>3. added = {} => was
    <3> SUFFICES ASSUME added = {}
                 PROVE  was
      OBVIOUS
    <3>1. d[1] \in About(limbos, t) /\ t # Query
      BY <2>2 DEF About, k
    <3>2. Ensure(r, t).added = {}
      BY <1>1 DEF Ensure, added
    <3>3. d \in UNION r.targets[t] \/ limbos.active[t].received
      BY <1>1, <1>9, <3>1, <3>2, HeldAtSnapshot
    <3> QED  BY <1>7, <2>2, <3>3 DEF KeysOf, was
  <2>4. removed = {}
    <3>1. p0.remote = r /\ p0.limbos = limbos
      OBVIOUS
    <3>2. /\ ~Asked(r.sent, t) /\ Quiet(ms, 1, t) /\ ms \in Seq(Messages) /\ ms # <<>>
          /\ ms[1].kind = "snapshot" /\ ms[1].docs = S
          /\ Standing(p0, ms, served, t)
      BY <1>1, <1>9 DEF Meets
    <3> HIDE DEF p0, ms
    <3>3. Noted(p0, ms, t)
      BY <3>2 DEF Standing
    <3>4. Ensure(r, t).removed = removed
      BY <1>1 DEF Ensure, removed
    <3> DEFINE one == {k}
               none == {}
               ks == KeysOf(S)
    <3>5. removed # {} => Fit(ms, 0, none, one)
      BY <3>1, <3>2, <3>3, <3>4 DEF Noted, k
    <3> HIDE DEF one, none
    <3>6. Fit(ms, 0, none, one) => one \cap KeysOf(ms[1].docs) = {}
      BY <3>2, FitHead
    <3>7. one \cap ks = {} => FALSE
      <4> HIDE DEF ks
      <4>1. k \in ks
        BY <2>1 DEF ks
      <4> QED  BY <4>1 DEF one
    <3> QED  BY <3>2, <3>5, <3>6, <3>7
  <2>5. Received(r)[t].received = IF added # {} THEN TRUE ELSE was
    BY <1>5, <1>6, <1>9, <2>4 DEF Lookups, was
  <2> QED  BY <1>4, <2>3, <2>5
<1> QED  BY <1>8, <1>9

(* What the snapshot has and the query is known to match comes to be in    *)
(* the cache.                                                              *)
LEMMA SyncedKept ==
    ASSUME NEW r, NEW S, Meets(r, S), ForQuery(r), DiskInv,
           r.targets[Query] \in {token, NoToken},
           NEW gone, gone = r.gone \cup {Key(t) : t \in Missing(r)},
           NEW d \in S, NEW s, s = Ensure(r, Query), d[1] \in (synced \cup s.added) \ s.removed
    PROVE  d \in CacheAfter(r.updated, gone)
<1> DEFINE ms == responses
           p0 == [remote |-> r, limbos |-> limbos]
<1>1. p0.remote = r /\ p0.limbos = limbos
  OBVIOUS
<1>2. /\ Query \in DOMAIN r.targets /\ IsActiveTarget(r, Query)
      /\ ms \in Seq(Messages) /\ 1 \in DOMAIN ms /\ ms[1].kind = "snapshot" /\ ms[1].docs = S
      /\ S \in Collections /\ r.updated \subseteq S
  BY DEF ForQuery, IsActiveTarget, Meets
<1>3. Quiet(ms, 1, Query) /\ Standing(p0, ms, served, Query)
  BY <1>2 DEF Meets
<1> HIDE DEF p0
<1>4. s.added \subseteq KeysOf(r.updated)
  BY <1>1, <1>3 DEF Standing, Noted
<1>5. d[1] \in s.added => d \in r.updated
  <2> SUFFICES ASSUME d[1] \in s.added
               PROVE  d \in r.updated
    OBVIOUS
  <2>1. PICK e \in r.updated : e[1] = d[1]
    BY <1>4 DEF KeysOf
  <2>2. e = d
    BY <1>2, <2>1 DEF Collections, IsCollection
  <2> QED  BY <2>1, <2>2
<1>6. d \in UNION r.targets[Query] \/ d \in r.updated
  <2>1. d[1] \in About(limbos, Query)
    BY <1>2 DEF About, Collections, Documents
  <2> QED  BY <1>2, <2>1, HeldAtSnapshot
<1>7. d \in UNION r.targets[Query] /\ d[1] \in synced => d \in cache
  <2> SUFFICES ASSUME d \in UNION r.targets[Query], d[1] \in synced, d \notin cache
               PROVE  FALSE
    OBVIOUS
  <2>1. d \in UNION token
    BY DEF NoToken
  <2>2. 1 \in Points(ms) /\ At({}, docs, ms, 1) = S /\ 1 # 0
    <3> HIDE DEF ms
    <3>1. DOMAIN ms = 1 .. Len(ms) /\ Len(ms) \in Nat
      BY <1>2
    <3> QED  BY <1>2, <3>1 DEF Points, At
  <2> QED  BY <2>1, <2>2 DEF DiskInv
<1> QED  BY <1>5, <1>6, <1>7, CacheKept

(* What is on disk after the event is no more than what comes again.       *)
LEMMA RaiseDisk ==
    ASSUME NEW r, NEW S, Meets(r, S), DiskInv, Convex(UNION token, docs, responses),
           NEW gone, gone = r.gone \cup {Key(t) : t \in Missing(r)},
           NEW d \in UNION token, d[1] \in synced, d \notin CacheAfter(r.updated, gone),
           NEW x \in Points(Tail(responses)), x # 0
    PROVE  d \notin At({}, docs, Tail(responses), x)
<1> DEFINE ms == responses
           rest == Tail(responses)
           first == UNION token
<1>1. ms \in Seq(Messages) /\ ms # <<>> /\ 1 \in DOMAIN ms
      /\ ms[1].kind = "snapshot" /\ ms[1].docs = S
  BY DEF Meets
<1>2. /\ x \in Nat /\ x > 0 /\ x + 1 \in Points(ms)
      /\ \A f, now, last : At(now, last, rest, x) = At(f, last, ms, x + 1)
  BY <1>1, PointsTail
<1> HIDE DEF ms, rest, first
<1>3. /\ At({}, docs, rest, x) = At(first, docs, ms, x + 1)
      /\ At({}, docs, rest, x) = At({}, docs, ms, x + 1)
  BY <1>2
<1>4. CASE d \in cache
  <2>1. d \notin S
    BY <1>4, CacheKept
  <2>2. 0 \in Points(ms) /\ 1 \in Points(ms) /\ At(first, docs, ms, 0) = first
        /\ At(first, docs, ms, 1) = S
    <3>1. DOMAIN ms = 1 .. Len(ms) /\ Len(ms) \in Nat
      BY <1>1
    <3> QED  BY <1>1, <3>1 DEF Points, At
  <2>3. 0 < 1 /\ 1 < x + 1
    BY <1>2
  <2>4. Convex(first, docs, ms) /\ d \in first
    BY DEF first, ms
  <2>5. At(first, docs, ms, 0) \cap At(first, docs, ms, x + 1) \subseteq At(first, docs, ms, 1)
    BY <1>2, <2>2, <2>3, <2>4 DEF Convex
  <2> QED  BY <1>3, <2>1, <2>2, <2>4, <2>5 DEF rest
<1>5. CASE d \notin cache
  <2>1. x + 1 # 0
    BY <1>2
  <2>2. d \notin At({}, docs, ms, x + 1)
    BY <1>2, <1>5, <2>1 DEF DiskInv, ms
  <2> QED  BY <1>3, <2>2 DEF rest
<1> QED  BY <1>4, <1>5

LEMMA RaiseWatchSnapshotBacked ==
    ASSUME IInv, BackedInv, ~denied, RaiseWatchSnapshot
    PROVE  BackedInv'
<1> DEFINE r == UpdateState(remote, "Online")
           s == Ensure(r, Query)
           S == Head(responses).docs
           gone == r.gone \cup {Key(t) : t \in Missing(r)}
           e == AfterEvent(r, S)
           active == Received(r)
           l == [limbos EXCEPT !.active = active]
           p == [remote |-> e, limbos |-> l]
           cur == IF ForQuery(r) THEN s.current ELSE current
           rest == Tail(responses)
           here == live /\ current'
<1>1. /\ UNCHANGED <<docs, denied, changes, served, stream, live, seen>>
      /\ responses # <<>> /\ responses' = rest /\ Head(responses).kind = "snapshot"
      /\ cache' = CacheAfter(r.updated, gone)
      /\ IF ForQuery(r) THEN synced' = (synced \cup s.added) \ s.removed /\ token' = {S}
         ELSE synced' = synced /\ token' = token
      /\ EmitNewSnapshots(p, cur)
  BY DEF RaiseWatchSnapshot, backend
<1>2. /\ KnownInv /\ WatchingInv /\ FittingInv /\ HistoryInv /\ TokenInv /\ DiskInv
      /\ SeenInv /\ LimboInv /\ PromptInv /\ ViewInv /\ Types
      /\ responses \in Seq(Messages) /\ limbos \in Limbos /\ Agree(remote, limbos, live)
  BY Backing
<1>3. /\ Meets(r, S) /\ r.targets = remote.targets /\ r.sent = remote.sent
      /\ rest \in Seq(Messages) /\ Head(responses) = responses[1]
  BY <1>1, RaiseBegins
<1>4. IInv' /\ Spared(Pair', p) /\ remote'.updated = {} /\ QueryKept(remote', e)
  BY RaiseWatchSnapshotKeeps
<1>5. r \in Remotes /\ S \in Collections /\ Agree(r, limbos, live) /\ stream = "open"
  BY <1>3 DEF Meets
<1> HIDE DEF r, S, gone
<1>6. Event(e, r, S)
  BY <1>5, AfterEventDetails
<1>7. l.active = active /\ p.remote = e /\ p.limbos = l
  BY <1>2 DEF Limbos
<1>8. Pair'.remote = remote' /\ Pair'.limbos = limbos'
  BY DEF Pair
<1> HIDE DEF e, active, l, p, rest, cur, s
<1>9. e.updated = {} /\ e.gone = {} /\ e.resets = {}
      /\ DOMAIN e.targets = DOMAIN r.targets /\ Extends(e.sent, r.sent)
  BY <1>6 DEF Event
<1>10. remote'.updated = p.remote.updated /\ Extends(remote'.sent, e.sent)
  BY <1>4, <1>7, <1>8, <1>9 DEF Spared
<1>11. WatchingInv'
  <2>1. \A t \in DOMAIN p.remote.targets : Watching(p, rest, served, t)
    BY <1>3, <1>6, <1>7, RaiseWatching DEF rest, active
  <2> DEFINE q == Pair'
  <2>2. Spared(q, p) /\ q.remote.updated = p.remote.updated /\ q.remote = remote'
    BY <1>4, <1>8, <1>10
  <2> HIDE DEF q
  <2>3. \A t \in DOMAIN q.remote.targets : Watching(q, rest, served, t)
    BY <1>5, <2>1, <2>2, WatchingSpared
  <2> QED  BY <1>1, <2>2, <2>3 DEF WatchingInv, q
<1>12. FittingInv'
  <2>1. Fitting(rest)
    BY <1>1, <1>2, FittingTail DEF FittingInv, rest
  <2>2. Receipts(p)
    BY <1>3, <1>6, <1>7, RaiseReceipts DEF active
  <2>3. Gathering(p.remote, rest) /\ TakenBack(p.remote, synced')
    BY <1>7, <1>9 DEF Gathering, TakenBack
  <2> DEFINE q == Pair'
  <2>4. Spared(q, p) /\ q.remote.updated = p.remote.updated /\ q.remote = remote'
        /\ QueryKept(q.remote, p.remote)
    BY <1>4, <1>7, <1>8, <1>10
  <2> HIDE DEF q
  <2>5. Gathering(q.remote, rest) /\ TakenBack(q.remote, synced') /\ Receipts(q)
    BY <2>2, <2>3, <2>4, FittingSpared
  <2> QED  BY <1>1, <2>1, <2>4, <2>5 DEF FittingInv, q
<1>13. HistoryInv'
  <2> DEFINE first == UNION token
             now == UNION token'
  <2>1. responses[1].kind = "snapshot" /\ S = responses[1].docs
    BY <1>1, <1>3 DEF S
  <2>2. now = first \/ now = S
    BY <1>1
  <2>3. Convex(first, docs, responses)
    BY <1>2 DEF HistoryInv
  <2> HIDE DEF first, now
  <2>4. Convex(now, docs, rest) /\ NothingNew(now, docs, rest, first, docs, responses)
    BY <1>1, <1>2, <2>1, <2>2, <2>3, ConvexTail DEF rest
  <2> QED  BY <1>1, <1>2, <2>4, HistoryOn DEF first, now
<1>14. live => Query \in DOMAIN r.targets /\ r.targets[Query] \in {token, NoToken}
  BY <1>2, <1>3, <1>5 DEF Agree, TokenInv
<1>15. ForQuery(r) => live /\ r.targets[Query] \in {token, NoToken}
  <2>1. ForQuery(r) => Query \in DOMAIN r.targets
    BY DEF ForQuery, IsActiveTarget
  <2> QED  BY <1>5, <1>14, <2>1 DEF Agree
<1>16. TokenInv'
  <2> SUFFICES ASSUME live
               PROVE  remote'.targets[Query] \in {token', NoToken}
    BY <1>1 DEF TokenInv
  <2>1. Query \in DOMAIN remote'.targets
    BY <1>1, <1>4 DEF IInv, Sound, Agree, Pair
  <2>2. remote'.targets[Query] = e.targets[Query]
    BY <1>4, <1>7, <1>8, <2>1 DEF Spared, TargetKept, Begun
  <2>3. e.targets[Query] \in {NoToken, {S}, r.targets[Query]}
        /\ (e.targets[Query] = {S} =>
              ForQuery(r) \/ e.targets[Query] \in {NoToken, r.targets[Query]})
    BY <1>6, <1>14 DEF Event, ForQuery
  <2>4. ForQuery(r) => e.targets[Query] \in {NoToken, {S}}
    BY <1>6, <1>14 DEF Event, ForQuery
  <2> QED  BY <1>1, <1>14, <2>2, <2>3, <2>4
<1>17. ForQuery(r) => \A d \in S : d[1] \in synced' => d \in cache'
  <2> SUFFICES ASSUME ForQuery(r), NEW d \in S, d[1] \in synced'
               PROVE  d \in cache'
    OBVIOUS
  <2>1. d[1] \in (synced \cup s.added) \ s.removed
    BY <1>1
  <2> QED  BY <1>1, <1>2, <1>3, <1>15, <2>1, SyncedKept DEF gone, s
<1>18. DiskInv'
  <2> SUFFICES ASSUME NEW d \in UNION token', d[1] \in synced', d \notin cache',
                      NEW x \in Points(rest), x # 0
               PROVE  d \notin At({}, docs, rest, x)
    BY <1>1 DEF DiskInv
  <2>1. ~ForQuery(r)
    BY <1>1, <1>17
  <2>2. d \in UNION token /\ d[1] \in synced /\ d \notin CacheAfter(r.updated, gone)
    BY <1>1, <2>1
  <2> QED  BY <1>2, <1>3, <2>2, RaiseDisk DEF HistoryInv, gone, rest
<1>19. \A u : Quiet(rest, 1, u) <=> Quiet(responses, 1, u)
  <2>1. \A u : ~IsAnswer(responses[1], u)
    BY <1>1, <1>3 DEF IsAnswer
  <2> QED  BY <1>1, <1>2, <2>1, QuietTail DEF rest
<1>20. \A n \in DOMAIN rest : /\ n \in Nat /\ n > 0 /\ n + 1 \in DOMAIN responses
                              /\ rest[n] = responses[n + 1]
  BY <1>1, <1>2, RestFacts DEF rest
<1>21. \A i \in Nat : i > 0 => (Quiet(rest, i, Query) <=> Quiet(responses, i + 1, Query))
  BY <1>1, <1>2, QuietTail DEF rest
<1>22. ~Asked(remote'.sent, Query) => ~Asked(remote.sent, Query)
  BY <1>3, <1>9, <1>10 DEF Asked, Extends
<1>23. SeenInv'
  <2> SUFFICES ASSUME live
               PROVE  /\ docs \in seen
                      /\ \A n \in DOMAIN rest :
                           /\ rest[n].kind = "snapshot" /\ Quiet(rest, n, Query)
                           /\ ~Asked(remote'.sent, Query)
                           => rest[n].docs \in seen
    BY <1>1 DEF SeenInv
  <2> QED  BY <1>2, <1>20, <1>21, <1>22 DEF SeenInv
<1>24. /\ current' = cur
       /\ limbo' = IF live /\ cur THEN KeysOf(cache') \ synced' ELSE limbo
  BY <1>1 DEF EmitNewSnapshots
<1>25. LimboInv'
  BY <1>1, <1>24 DEF LimboInv, KeysOf
<1>26. ForQuery(r) =>
         /\ Query \in DOMAIN r.targets /\ ~Asked(remote.sent, Query) /\ Quiet(responses, 1, Query)
         /\ live => S \in seen
  <2> SUFFICES ASSUME ForQuery(r)
               PROVE  /\ Query \in DOMAIN r.targets /\ ~Asked(remote.sent, Query)
                      /\ Quiet(responses, 1, Query)
                      /\ live => S \in seen
    OBVIOUS
  <2>1. /\ Query \in DOMAIN r.targets /\ ~Asked(remote.sent, Query) /\ Quiet(responses, 1, Query)
        /\ 1 \in DOMAIN responses
    BY <1>3 DEF ForQuery, IsActiveTarget, Meets
  <2> QED  BY <1>1, <1>2, <1>3, <2>1 DEF SeenInv, S
<1>27. ~ForQuery(r) /\ live /\ current => synced = {}
  <2> SUFFICES ASSUME ~ForQuery(r), live, current, synced # {}
               PROVE  FALSE
    OBVIOUS
  <2>1. 1 \in DOMAIN responses /\ responses[1].kind = "snapshot"
    BY <1>1, <1>3 DEF Meets
  <2>2. Quiet(responses, 1, Query) /\ ~Asked(r.sent, Query)
    BY <1>2, <1>3, <2>1 DEF PromptInv
  <2> QED  BY <1>3, <1>14, <2>2 DEF Meets, ForQuery
<1>28. KnownInv'
  BY <1>1, <1>2 DEF KnownInv
<1>29. PromptInv'
  <2> SUFFICES ASSUME live, cur, synced' # {}
               PROVE  /\ \A n \in DOMAIN rest : rest[n].kind = "snapshot" =>
                           Quiet(rest, n, Query) /\ ~Asked(remote'.sent, Query)
                      /\ \A i \in DOMAIN remote'.sent : remote'.sent[i].target = Query =>
                           i = 1 /\ DOMAIN served = {}
    BY <1>1, <1>24 DEF PromptInv
  <2>1. ForQuery(r)
    BY <1>1, <1>27 DEF cur
  <2>2. Query \notin r.resets
    <3> SUFFICES ASSUME r.resets # {}
                 PROVE  FALSE
      OBVIOUS
    <3>1. s.added = {} /\ synced \subseteq s.removed
      BY <1>3 DEF Meets, TakenBack, s
    <3>2. synced' = (synced \cup s.added) \ s.removed
      BY <1>1, <2>1
    <3> QED  BY <3>1, <3>2
  <2>3. ~Asked(e.sent, Query)
    <3>1. \A i \in DOMAIN e.sent \ DOMAIN r.sent : e.sent[i].target # Query
      BY <1>6, <1>26, <2>1, <2>2 DEF Event
    <3>2. Asked(e.sent, Query) <=> Asked(r.sent, Query)
      BY <1>9, <3>1, AskedKept
    <3> QED  BY <1>3, <1>26, <2>1, <3>2
  <2>4. ~Asked(remote'.sent, Query)
    <3>1. \A i \in DOMAIN remote'.sent \ DOMAIN e.sent : remote'.sent[i].target # Query
      BY <1>4, <1>7, <1>8 DEF Spared, StateKept
    <3>2. Asked(remote'.sent, Query) <=> Asked(e.sent, Query)
      BY <1>10, <3>1, AskedKept
    <3> QED  BY <2>3, <3>2
  <2>5. \A n \in DOMAIN rest : Quiet(rest, n, Query)
    <3>1. Quiet(rest, 1, Query)
      BY <1>19, <1>26, <2>1
    <3> QED  BY <1>20, <3>1 DEF Quiet
  <2> QED  BY <2>4, <2>5 DEF Asked
<1>30. ViewInv'
  <2> SUFFICES ASSUME live, cur
               PROVE  \E ds \in seen :
                        token' = {ds} /\ (limbo' = {} /\ KeysOf(ds) = synced' => cache' = ds)
    BY <1>1, <1>24 DEF ViewInv, KeysOf
  <2>1. limbo' = KeysOf(cache') \ synced'
    BY <1>24
  <2>2. ASSUME ForQuery(r)
        PROVE  S \in seen /\ token' = {S} /\ (limbo' = {} /\ KeysOf(S) = synced' => cache' = S)
    <3>1. S \in seen /\ token' = {S}
      BY <1>1, <1>26, <2>2
    <3>2. ASSUME limbo' = {}, KeysOf(S) = synced'
          PROVE  cache' = S
      <4>1. cache' \in Collections
        BY <1>4 DEF IInv, Types
      <4>2. S \subseteq cache'
        BY <1>17, <2>2, <3>2 DEF KeysOf
      <4>3. ASSUME NEW c \in cache'
            PROVE  c \in S
        <5>1. c[1] \in KeysOf(S)
          <6> DEFINE ks == KeysOf(cache')
                     now == KeysOf(S)
          <6>1. c[1] \in ks
            BY <4>3 DEF KeysOf
          <6> HIDE DEF ks, now
          <6>2. ks \ now = {}
            BY <2>1, <3>2 DEF ks, now
          <6> QED  BY <6>1, <6>2 DEF now
        <5>2. PICK d \in S : d[1] = c[1]
          BY <5>1 DEF KeysOf
        <5>3. d = c
          BY <4>1, <4>2, <4>3, <5>2 DEF Collections, IsCollection
        <5> QED  BY <5>2, <5>3
      <4> QED  BY <4>2, <4>3
    <3> QED  BY <3>1, <3>2
  <2>3. ASSUME ~ForQuery(r)
        PROVE  \E ds \in seen :
                 token' = {ds} /\ (limbo' = {} /\ KeysOf(ds) = synced' => cache' = ds)
    <3>1. current /\ token' = token /\ synced' = {}
      BY <1>1, <1>27, <2>3 DEF cur
    <3>2. PICK ds \in seen : token = {ds}
      BY <1>2, <3>1 DEF ViewInv
    <3>3. ASSUME limbo' = {}, KeysOf(ds) = synced'
          PROVE  cache' = ds
      <4>1. ds = {}
        BY <3>1, <3>3 DEF KeysOf
      <4>2. cache' = {}
        <5> DEFINE ks == KeysOf(cache')
        <5>1. \A c \in cache' : c[1] \in ks
          BY DEF KeysOf
        <5> HIDE DEF ks
        <5>2. ks = {}
          BY <2>1, <3>1, <3>3 DEF ks
        <5> QED  BY <5>1, <5>2
      <4> QED  BY <4>1, <4>2
    <3> QED  BY <3>1, <3>2, <3>3
  <2> QED  BY <2>2, <2>3
<1> QED  BY <1>11, <1>12, <1>13, <1>16, <1>18, <1>23, <1>25, <1>28, <1>29, <1>30 DEF BackedInv

(* A target ends with an error only once all is denied.                    *)
LEMMA ProcessTargetErrorBacked ==
    ASSUME IInv, ProcessTargetError
    PROVE  BackedInv'
<1>1. /\ responses # <<>> /\ Head(responses).kind = "error" /\ denied' = denied
  BY DEF ProcessTargetError, backend
<1>2. OrderInv /\ responses \in Seq(Messages)
  BY Beginning DEF Types
<1>3. 1 \in DOMAIN responses /\ responses[1].kind = "error"
  BY <1>1, <1>2, RestFacts
<1>4. denied
  BY <1>2, <1>3 DEF OrderInv, Ordered
<1> QED  BY <1>1, <1>4 DEF BackedInv

--------------------------------------------------------------------------------
(* The theorem *)

LEMMA NextBacked == IInv /\ BackedInv /\ [Next]_vars => BackedInv'
<1> SUFFICES ASSUME IInv, BackedInv, [Next]_vars
             PROVE  BackedInv'
  OBVIOUS
<1>1. ASSUME NEW c \in Calls, FirstCall(c)
      PROVE  BackedInv'
  BY <1>1, FirstCallBacked
<1>2. ASSUME NEW c \in Calls, LaterCall(c)
      PROVE  BackedInv'
  BY <1>2, LaterCallBacked
<1>3. ASSUME NEW c \in Calls, RemoveQueryListener(c)
      PROVE  BackedInv'
  BY <1>3, RemoveQueryListenerBacked
<1>4. CASE OnWatchStreamOpen
  BY <1>4, OnWatchStreamOpenBacked
<1>5. CASE OnWatchStreamClose
  BY <1>5, OnWatchStreamCloseBacked
<1>6. CASE IdleTimeout
  BY <1>6, IdleTimeoutBacked
<1>7. CASE OnlineStateTimeout
  BY <1>7, OnlineStateTimeoutBacked
<1>8. CASE GatherWatchChange
  <2>1. denied' = denied
    BY <1>8 DEF GatherWatchChange, backend
  <2> QED  BY <1>8, <2>1, GatherWatchChangeBacked DEF BackedInv
<1>9. CASE RaiseWatchSnapshot
  <2>1. denied' = denied
    BY <1>9 DEF RaiseWatchSnapshot, backend
  <2> QED  BY <1>9, <2>1, RaiseWatchSnapshotBacked DEF BackedInv
<1>10. CASE ProcessTargetError
  BY <1>10, ProcessTargetErrorBacked
<1>11. CASE RestartNetwork
  BY <1>11, RestartNetworkBacked
<1>12. CASE Die
  BY <1>12, DieBacked
<1>13. CASE AnswerUnwatch
  BY <1>13, AnswerUnwatchBacked
<1>14. ASSUME NEW how, AnswerWatch(how)
       PROVE  BackedInv'
  BY <1>14, AnswerWatchBacked
<1>15. ASSUME NEW how, ReportChanges(how)
       PROVE  BackedInv'
  BY <1>15, ReportChangesBacked
<1>16. ASSUME NEW k \in Keys, Change(k)
       PROVE  BackedInv'
  BY <1>16, ChangeBacked
<1>17. CASE Deny
  BY <1>17, DenyBacked
<1>18. CASE UNCHANGED vars
  BY <1>18, StutterBacked
<1> QED
  BY <1>1, <1>2, <1>3, <1>4, <1>5, <1>6, <1>7, <1>8, <1>9, <1>10, <1>11, <1>12, <1>13, <1>14,
     <1>15, <1>16, <1>17, <1>18 DEF Next

LEMMA SyncedWhenBacked == IInv /\ BackedInv => SyncedIsTheBackend
<1> SUFFICES ASSUME IInv, BackedInv, InSync, {KeysOf(ds) : ds \in token} = {synced}
             PROVE  cache \in seen
  BY DEF SyncedIsTheBackend
<1>1. live /\ current /\ limbo = {} /\ ~denied
  BY DEF InSync
<1>2. PICK ds \in seen : token = {ds} /\ (limbo = {} /\ KeysOf(ds) = synced => cache = ds)
  BY <1>1 DEF BackedInv, ViewInv
<1>3. KeysOf(ds) = synced
  BY <1>2
<1> QED  BY <1>1, <1>2, <1>3

(* A view in sync shows a collection the backend has had since the view    *)
(* began, as long as the resume token on disk stands for the keys on disk: *)
(* whatever is reported removed, deleted or only counted, whichever        *)
(* answers to an earlier listen are still under way, through reconnects,   *)
(* restarts, resets and limbo lookups.                                     *)
THEOREM SyncedBackend == Spec => []SyncedIsTheBackend
<1>1. Init => IInv /\ BackedInv
  BY InitIInv, InitBacked
<1>2. IInv /\ BackedInv /\ [Next]_vars => (IInv /\ BackedInv)'
  BY NextKeeps, NextBacked
<1>3. IInv /\ BackedInv => SyncedIsTheBackend
  BY SyncedWhenBacked
<1> QED  BY <1>1, <1>2, <1>3, PTL DEF Spec

================================================================================
