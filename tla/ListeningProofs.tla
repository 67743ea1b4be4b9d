----------------------------- MODULE ListeningProofs -----------------------------
(***************************************************************************)
(* Theorems about Listening, for any set of keys, any calls and any limit  *)
(* of lookups. The invariant is a conjunction of parts: types, what the    *)
(* pair of the remote store and of the limbo lookups owes to itself and to *)
(* the messages under way (Sound), in which order messages come, and which *)
(* limbo documents are pursued; each action is shown to keep each part. A  *)
(* second invariant on top of it follows the answer a call waits for.      *)
(***************************************************************************)
EXTENDS ListeningFacts

--------------------------------------------------------------------------------
(* The invariant *)

Outcomes == [Calls -> {"new", "waiting", "server", "cache", "error", "gone"}]

Types ==
    /\ docs \in Collections /\ denied \in BOOLEAN /\ changes \in Nat
    /\ served \in Tables(Watched) /\ responses \in Seq(Messages)
    /\ stream \in {"off", "starting", "open"}
    /\ cache \in Collections /\ synced \in SUBSET Keys /\ token \in Tokens
    /\ live \in BOOLEAN /\ current \in BOOLEAN /\ limbo \in SUBSET Keys
    /\ seen \in SUBSET Collections
    /\ calls \in Outcomes

(* Without an open stream there is nothing on its way, and without one     *)
(* that starts there is no target that waits for it.                       *)
StreamInv ==
    /\ stream # "open" => responses = <<>> /\ DOMAIN served = {}
    /\ stream = "off" => ~remote.timer /\ ~remote.failed /\ DOMAIN remote.targets = {}

OrderInv ==
    /\ Ordered(responses, remote.updated, denied)
    /\ denied => DOMAIN served = {}

Pair == [remote |-> remote, limbos |-> limbos]

(* Each limbo document is pursued. A lookup that is denied ends the        *)
(* pursuit of a document and takes the document out of the cache; from     *)
(* then on no message brings a document.                                   *)
Mute == denied /\ remote.updated = {} /\ NoDocs(responses)
PursuitInv ==
    \/ limbo \subseteq Pursued(Pair)
    \/ Mute /\ limbo \cap KeysOf(cache) \subseteq Pursued(Pair)

(* There is a view as long as a call waits, or has not taken its answer.   *)
CallsInv == (\E c \in Calls : IsListening(c)) => live

IInv ==
    /\ Types
    /\ CallsInv
    /\ Sound(Pair, responses, live, stream, denied)
    /\ StreamInv
    /\ OrderInv
    /\ PursuitInv

LEMMA PairParts ==
    ASSUME NEW r, NEW l, NEW ms, NEW lv, NEW st, NEW dn
    PROVE  /\ [remote |-> r, limbos |-> l].remote = r /\ [remote |-> r, limbos |-> l].limbos = l
           /\ Sound([remote |-> r, limbos |-> l], ms, lv, st, dn) <=>
                RemoteSound(r, ms, st, dn) /\ l \in Limbos /\ Agree(r, l, lv)
BY DEF Sound, Pairs, RemoteSound

LEMMA MessageKinds ==
    ASSUME NEW m \in Messages
    PROVE  /\ m.kind \in {"docs", "filter", "added", "removed", "current", "error", "snapshot"}
           /\ m.kind = "docs" => m \in DocsMessages
           /\ m.kind = "filter" => m \in Filters
           /\ m.kind \in {"added", "removed", "current", "error"} => m \in Acks
           /\ m.kind = "snapshot" => m \in Snapshots
BY DEF Messages, DocsMessages, Filters, Acks, Snapshots

(* A new view of what was gathered.                                        *)
LEMMA EmitNewSnapshotsSound ==
    ASSUME Types, cache' \in Collections, synced' \in SUBSET Keys,
           NEW p, NEW ms \in Seq(Messages), Sound(p, ms, live, stream, denied),
           NEW cur \in BOOLEAN, EmitNewSnapshots(p, cur)
    PROVE  /\ current' \in BOOLEAN /\ limbo' \in SUBSET Keys /\ calls' \in Outcomes
           /\ Sound(Pair', ms, live, stream, denied)
           /\ remote'.updated = p.remote.updated /\ QueryKept(remote', p.remote)
           /\ (Pursued(p) \ (limbo \ limbo')) \cup (limbo' \ limbo) \subseteq Pursued(Pair')
           /\ Spared(Pair', p)
<1> DEFINE now == IF live /\ cur THEN KeysOf(cache') \ synced' ELSE limbo
           after == UpdateTrackedLimboDocuments(p, limbo, now)
<1>1. /\ current' = cur /\ limbo' = now /\ remote' = after.remote /\ limbos' = after.limbos
      /\ calls' = Answered(live /\ cur /\ now = {}, after.remote.online)
  BY DEF EmitNewSnapshots
<1>2. now \in SUBSET Keys /\ limbo \in SUBSET Keys
  BY KeysOfKeys DEF Types
<1> HIDE DEF now
<1>3. Onward(p, after, limbo \ now, now \ limbo, ms, live, denied)
  BY <1>2, UpdateOnward DEF Types
<1> HIDE DEF after
<1>4. Sound(after, ms, live, stream, denied) /\ after \in Pairs
  BY <1>3 DEF Onward, Sound
<1>5. Pair' = after
  BY <1>1, <1>4 DEF Pair, Pairs
<1>6. calls' \in Outcomes
  BY <1>1, AnsweredType DEF Types, Outcomes
<1> QED  BY <1>1, <1>2, <1>3, <1>4, <1>5, <1>6 DEF Onward

(* The view is closed.                                                     *)
LEMMA RemoveAndCleanupTargetSound ==
    ASSUME Types, NEW r, NEW ms \in Seq(Messages), RemoteSound(r, ms, stream, denied),
           limbos \in Limbos, Agree(r, limbos, FALSE), RemoveAndCleanupTarget(r)
    PROVE  /\ live' = FALSE /\ current' = FALSE /\ limbo' = {} /\ seen' = {}
           /\ Sound(Pair', ms, FALSE, stream, denied)
           /\ remote'.updated = r.updated /\ QueryKept(remote', r)
           /\ Spared(Pair', [remote |-> r, limbos |-> limbos])
<1> DEFINE p == [remote |-> r, limbos |-> limbos]
           after == RemoveLimboTargets(p, limbo)
<1>1. /\ live' = FALSE /\ current' = FALSE /\ limbo' = {} /\ seen' = {}
      /\ remote' = after.remote /\ limbos' = after.limbos
  BY DEF RemoveAndCleanupTarget
<1>2. Sound(p, ms, FALSE, stream, denied) /\ p.remote = r
  BY PairParts
<1> HIDE DEF p
<1>3. Onward(p, after, limbo, {}, ms, FALSE, denied)
  BY <1>2, RemoveAllOnward DEF Types
<1> HIDE DEF after
<1>4. Sound(after, ms, FALSE, stream, denied) /\ after \in Pairs
  BY <1>3 DEF Onward, Sound
<1>5. Pair' = after
  BY <1>1, <1>4 DEF Pair, Pairs
<1>6. remote'.updated = r.updated /\ QueryKept(remote', r) /\ Spared(Pair', p)
  BY <1>1, <1>2, <1>3, <1>5 DEF Onward
<1> QED  BY <1>1, <1>4, <1>5, <1>6 DEF p

LEMMA InitIInv == Init => IInv
<1> SUFFICES ASSUME Init
             PROVE  IInv
  OBVIOUS
<1>1. {} \in Collections
  BY DEF Collections, IsCollection
<1>2. /\ NoTargets \in Tables(Watched) /\ NoTargets \in Tables(Tokens)
      /\ NoTargets \in Tables(TargetStates) /\ NoTargets \in Tables(Lookups)
      /\ NoTargets \in Tables(Nat) /\ DOMAIN NoTargets = {}
  BY EmptyTable
<1>3. Types
  <2>1. calls \in Outcomes
    BY DEF Init, Outcomes
  <2>2. /\ docs = {} /\ denied = FALSE /\ served = NoTargets /\ responses = <<>>
        /\ stream = "off" /\ cache = {} /\ synced = {} /\ token = NoToken
        /\ live = FALSE /\ current = FALSE /\ limbo = {} /\ seen = {} /\ changes = 0
    BY DEF Init
  <2>3. <<>> \in Seq(Messages)
    OBVIOUS
  <2> QED  BY <1>1, <1>2, <2>1, <2>2, <2>3, NoTokenType DEF Types
<1> DEFINE none == NoTargets
<1>4. remote = [targets |-> none, states |-> none, updated |-> {}, gone |-> {},
                resets |-> {}, sent |-> <<>>, idle |-> FALSE,
                online |-> "Unknown", timer |-> FALSE, failed |-> FALSE]
      /\ limbos = [enqueued |-> <<>>, active |-> none, byKey |-> none]
      /\ none = NoTargets
  BY DEF Init
<1>5. /\ none \in Tables(Tokens) /\ none \in Tables(TargetStates) /\ none \in Tables(Lookups)
      /\ none \in Tables(Nat) /\ DOMAIN none = {}
  BY <1>2
<1> HIDE DEF none
<1>6. /\ remote \in Remotes /\ remote.states = none /\ remote.sent = <<>> /\ ~remote.idle
      /\ remote.targets = none /\ ~remote.timer /\ ~remote.failed /\ remote.updated = {}
  BY <1>1, <1>4, <1>5 DEF Remotes, Onlines
<1>7. limbos \in Limbos /\ limbos.active = none /\ limbos.byKey = none
  BY <1>4, <1>5 DEF Limbos
<1>8. RemoteSound(remote, <<>>, stream, denied)
  <2>1. Timer(remote)
    BY <1>6 DEF Timer
  <2> QED  BY <1>4, <1>6, <2>1, NothingToCome
<1>9. Agree(remote, limbos, FALSE)
  <2>1. Cardinality({}) = 0
    BY FS_EmptySet
  <2> QED  BY <1>5, <1>6, <1>7, <2>1, KeysFinite DEF Agree
<1>10. Sound(Pair, responses, live, stream, denied)
  BY <1>7, <1>8, <1>9, PairParts DEF Init, Pair
<1>11. StreamInv
  BY <1>2, <1>5, <1>6 DEF Init, StreamInv
<1>12. OrderInv
  BY <1>6 DEF Init, OrderInv, Ordered
<1>13. PursuitInv
  BY DEF Init, PursuitInv
<1>14. CallsInv
  BY DEF Init, CallsInv, IsListening
<1> QED  BY <1>3, <1>10, <1>11, <1>12, <1>13, <1>14 DEF IInv

--------------------------------------------------------------------------------
(* The actions *)

(* What the invariant says of the state an action begins in.               *)
LEMMA Beginning ==
    ASSUME IInv
    PROVE  /\ Types /\ CallsInv /\ StreamInv /\ OrderInv /\ PursuitInv
           /\ RemoteSound(remote, responses, stream, denied) /\ remote \in Remotes
           /\ limbos \in Limbos /\ Agree(remote, limbos, live)
           /\ Timer(remote)
<1>1. RemoteSound(remote, responses, stream, denied)
      /\ limbos \in Limbos /\ Agree(remote, limbos, live)
  BY PairParts DEF IInv, Pair
<1> QED  BY <1>1 DEF IInv, RemoteSound, Tracker

LEMMA PairNext ==
    ASSUME RemoteSound(remote', responses', stream', denied'), limbos' \in Limbos,
           Agree(remote', limbos', live')
    PROVE  Sound(Pair, responses, live, stream, denied)'
BY PairParts DEF Pair

(* Only what the online state tracker says changes.                        *)
LEMMA StoreSameSound ==
    ASSUME NEW r, NEW s, NEW ms, NEW st, NEW dn, RemoteSound(r, ms, st, dn),
           StoreSame(s, r), Timer(s)
    PROVE  RemoteSound(s, ms, st, dn)
<1>1. ~dn => Counted(s, ms)
  BY CountedSame DEF RemoteSound, StoreSame
<1> QED  BY <1>1 DEF RemoteSound, StoreSame, Tracker

LEMMA AgreeSame ==
    ASSUME NEW r, NEW s, NEW l, NEW lv, Agree(r, l, lv), DOMAIN s.targets = DOMAIN r.targets
    PROVE  Agree(s, l, lv)
BY DEF Agree

LEMMA AnsweredCalls ==
    ASSUME CallsInv, NEW insync, NEW online, calls' = Answered(insync, online), live' = live
    PROVE  CallsInv'
BY DEF CallsInv, IsListening, Answered

LEMMA FirstCallKeeps ==
    ASSUME IInv, NEW c \in Calls, FirstCall(c)
    PROVE  IInv'
<1> DEFINE r == Listen(remote, Query, Keys, token)
           s == HandleWatchStreamStart(r)
<1>1. /\ Types /\ StreamInv /\ OrderInv
      /\ RemoteSound(remote, responses, stream, denied) /\ remote \in Remotes
      /\ limbos \in Limbos /\ Agree(remote, limbos, live) /\ ~live
  BY Beginning DEF FirstCall
<1>2. RemoteSound(r, responses, stream, denied) /\ r.updated = remote.updated
      /\ DOMAIN r.targets = DOMAIN remote.targets \cup {Query}
  <2>1. Query \in Nat /\ Keys \in SUBSET Keys /\ token \in Tokens /\ responses \in Seq(Messages)
    BY <1>1 DEF Types, Query
  <2> QED  BY <1>1, <2>1, ListenFacts, ListenSound
<1>3. /\ live' = TRUE /\ current' = FALSE /\ limbo' = {} /\ seen' = {docs}
      /\ calls' = [calls EXCEPT ![c] = IF remote.online = "Offline" THEN "cache" ELSE "waiting"]
      /\ UNCHANGED <<docs, denied, changes, served, responses, limbos, cache, synced, token>>
      /\ \/ stream = "off" /\ stream' = "starting" /\ remote' = s
         \/ stream # "off" /\ stream' = stream /\ remote' = r
  BY DEF FirstCall, backend, disk
<1> HIDE DEF r
<1>4. StoreSame(s, r) /\ Timer(s)
  BY <1>2, HandleWatchStreamStartFacts DEF RemoteSound, Tracker
<1>5. RemoteSound(s, responses, stream, denied)
  BY <1>2, <1>4, StoreSameSound
<1> HIDE DEF s
<1>6. /\ RemoteSound(remote', responses', stream', denied')
      /\ DOMAIN remote'.targets = DOMAIN remote.targets \cup {Query}
      /\ remote'.updated = remote.updated
  BY <1>2, <1>3, <1>4, <1>5 DEF RemoteSound, Tracker, StoreSame
<1>7. Agree(remote', limbos', live')
  BY <1>1, <1>3, <1>6 DEF Agree
<1>8. Sound(Pair, responses, live, stream, denied)'
  BY <1>1, <1>3, <1>6, <1>7, PairNext
<1>9. Types'
  <2>1. calls' \in Outcomes
    BY <1>1, <1>3 DEF Types, Outcomes
  <2> QED  BY <1>1, <1>3, <2>1 DEF Types
<1>10. StreamInv'
  BY <1>1, <1>3 DEF StreamInv, Types
<1>11. OrderInv'
  BY <1>1, <1>3, <1>6 DEF OrderInv
<1>12. PursuitInv'
  BY <1>3 DEF PursuitInv
<1>13. CallsInv'
  BY <1>3 DEF CallsInv
<1> QED  BY <1>8, <1>9, <1>10, <1>11, <1>12, <1>13 DEF IInv

LEMMA LaterCallKeeps ==
    ASSUME IInv, NEW c \in Calls, LaterCall(c)
    PROVE  IInv'
<1>1. UNCHANGED <<docs, denied, changes, served, responses, stream, remote, limbos, cache, synced,
                  token, live, current, limbo, seen>>
  BY DEF LaterCall, backend, disk, view
<1>2. calls' \in Outcomes
  BY DEF LaterCall, IInv, Types, Outcomes
<1>3. CallsInv'
  BY <1>1 DEF LaterCall, CallsInv
<1> QED  BY <1>1, <1>2, <1>3 DEF IInv, Types, StreamInv, OrderInv, PursuitInv, Mute, Pair

LEMMA RemoveQueryListenerKeeps ==
    ASSUME IInv, NEW c \in Calls, RemoveQueryListener(c)
    PROVE  IInv'
<1>1. /\ UNCHANGED <<docs, denied, changes, served, responses, stream, cache, synced, token>>
      /\ calls' = [calls EXCEPT ![c] = "gone"]
  BY DEF RemoveQueryListener, backend, disk
<1>2. calls' \in Outcomes
  BY <1>1 DEF IInv, Types, Outcomes
<1>9. live
  BY DEF RemoveQueryListener, IInv, CallsInv, IsListening
<1>3. CASE \E d \in Calls \ {c} : IsListening(d)
  <2>1. UNCHANGED <<remote, limbos, live, current, limbo, seen>>
    BY <1>3 DEF RemoveQueryListener, view
  <2>2. CallsInv'
    BY <1>9, <2>1 DEF CallsInv
  <2> QED  BY <1>1, <1>2, <2>1, <2>2 DEF IInv, Types, StreamInv, OrderInv, PursuitInv, Mute, Pair
<1>4. CASE ~ \E d \in Calls \ {c} : IsListening(d)
  <2> DEFINE r == StopListening(remote, Query)
  <2>1. RemoveAndCleanupTarget(r)
    BY <1>4 DEF RemoveQueryListener
  <2>2. /\ Types /\ StreamInv /\ OrderInv /\ responses \in Seq(Messages) /\ Query \in Nat
        /\ RemoteSound(remote, responses, stream, denied) /\ remote \in Remotes
        /\ limbos \in Limbos /\ Agree(remote, limbos, live)
    BY Beginning DEF Types, Query
  <2>3. /\ RemoteSound(r, responses, stream, denied)
        /\ DOMAIN r.targets = DOMAIN remote.targets \ {Query} /\ r.updated = remote.updated
    BY <2>2, StopListeningFacts, StopListeningSound
  <2> HIDE DEF r
  <2>4. Agree(r, limbos, FALSE)
    BY <2>2, <2>3 DEF Agree
  <2>5. /\ live' = FALSE /\ current' = FALSE /\ limbo' = {} /\ seen' = {}
        /\ Sound(Pair', responses, FALSE, stream, denied)
        /\ remote'.updated = remote.updated
    BY <2>1, <2>2, <2>3, <2>4, RemoveAndCleanupTargetSound
  <2>6. Sound(Pair, responses, live, stream, denied)'
    BY <1>1, <2>5
  <2>7. Types'
    BY <1>1, <1>2, <2>2, <2>5 DEF Types
  <2>8. StreamInv'
    <3>1. stream # "off"
      BY <1>9, <2>2 DEF StreamInv, Agree
    <3> QED  BY <1>1, <2>2, <3>1 DEF StreamInv
  <2>9. OrderInv'
    BY <1>1, <2>2, <2>5 DEF OrderInv
  <2>10. PursuitInv'
    BY <2>5 DEF PursuitInv
  <2>11. CallsInv'
    BY <1>1, <1>4, <2>2 DEF CallsInv, IsListening, Types, Outcomes
  <2> QED  BY <2>6, <2>7, <2>8, <2>9, <2>10, <2>11 DEF IInv
<1> QED  BY <1>3, <1>4

LEMMA OnWatchStreamOpenKeeps ==
    ASSUME IInv, OnWatchStreamOpen
    PROVE  IInv'
<1>1. /\ UNCHANGED <<docs, denied, changes, served, responses, limbos, cache, synced,
                     token, live, current, limbo, seen, calls>>
      /\ stream = "starting" /\ stream' = "open" /\ remote' = WatchAll(remote)
  BY DEF OnWatchStreamOpen, backend, disk, view
<1>2. /\ Types /\ CallsInv /\ StreamInv /\ OrderInv /\ PursuitInv
      /\ RemoteSound(remote, responses, stream, denied) /\ remote \in Remotes
      /\ limbos \in Limbos /\ Agree(remote, limbos, live)
  BY Beginning
<1>3. /\ RemoteSound(remote', responses, "open", denied)
      /\ remote'.targets = remote.targets /\ remote'.updated = remote.updated
  BY <1>1, <1>2, WatchAllSound DEF Types
<1>4. Sound(Pair, responses, live, stream, denied)'
  <2>1. Agree(remote', limbos, live)
    BY <1>2, <1>3, AgreeSame
  <2> QED  BY <1>1, <1>2, <1>3, <2>1, PairNext
<1>5. Types' /\ CallsInv'
  BY <1>1, <1>2 DEF Types, CallsInv, IsListening
<1>6. StreamInv'
  BY <1>1 DEF StreamInv
<1>7. OrderInv'
  BY <1>1, <1>2, <1>3 DEF OrderInv
<1>8. PursuitInv'
  BY <1>1, <1>2, <1>3, PairParts DEF PursuitInv, Mute, Pair, Pursued
<1> QED  BY <1>4, <1>5, <1>6, <1>7, <1>8 DEF IInv

(* A message that is read from the stream.                                 *)
LEMMA Reading ==
    ASSUME IInv, responses # <<>>
    PROVE  /\ stream = "open" /\ Head(responses) \in Messages /\ Tail(responses) \in Seq(Messages)
           /\ RemoteSound(UpdateState(remote, "Online"), responses, stream, denied)
           /\ UpdateState(remote, "Online").targets = remote.targets
           /\ UpdateState(remote, "Online").updated = remote.updated
           /\ UpdateState(remote, "Online").sent = remote.sent
           /\ UpdateState(remote, "Online").resets = remote.resets
           /\ UpdateState(remote, "Online").states = remote.states
           /\ ~UpdateState(remote, "Online").timer
           /\ UpdateState(remote, "Online") \in Remotes
<1>1. /\ Types /\ StreamInv /\ RemoteSound(remote, responses, stream, denied) /\ remote \in Remotes
  BY Beginning
<1>2. responses \in Seq(Messages) /\ stream = "open"
  BY <1>1 DEF Types, StreamInv
<1>3. Head(responses) \in Messages /\ Tail(responses) \in Seq(Messages)
  BY <1>2, TailFacts
<1>4. "Online" \in Onlines
  BY DEF Onlines
<1> QED  BY <1>1, <1>2, <1>3, <1>4, UpdateStateFacts, UpdateStateSound

LEMMA GatherWatchChangeKeeps ==
    ASSUME IInv, GatherWatchChange
    PROVE  IInv'
<1> DEFINE m == Head(responses)
           r == UpdateState(remote, "Online")
<1>1. /\ UNCHANGED <<docs, denied, changes, served, stream, limbos, cache, synced,
                     token, live, current, limbo, seen, calls>>
      /\ responses # <<>> /\ responses' = Tail(responses)
      /\ m.kind \in {"added", "removed", "current", "docs", "filter"}
      /\ m.kind = "docs" => remote' = HandleDocumentChange(r, m)
      /\ m.kind = "filter" => remote' = HandleExistenceFilter(r, m)
      /\ m.kind \in {"added", "removed", "current"} => remote' = HandleTargetChange(r, m)
  BY DEF GatherWatchChange, backend, disk, view
<1>2. /\ Types /\ CallsInv /\ StreamInv /\ OrderInv /\ PursuitInv
      /\ limbos \in Limbos /\ Agree(remote, limbos, live) /\ responses \in Seq(Messages)
      /\ synced \in SUBSET Keys
  BY Beginning DEF Types
<1>3. /\ stream = "open" /\ m \in Messages /\ Tail(responses) \in Seq(Messages)
      /\ RemoteSound(r, responses, stream, denied) /\ r \in Remotes
      /\ r.targets = remote.targets /\ r.updated = remote.updated
  BY <1>1, Reading
<1>4. Agree(r, limbos, live)
  BY <1>2, <1>3, AgreeSame
<1> HIDE DEF r
<1>5. /\ RemoteSound(remote', Tail(responses), stream, denied)
      /\ remote'.targets = r.targets
      /\ m.kind # "docs" => remote'.updated \subseteq r.updated
  <2>1. CASE m.kind = "docs"
    <3>1. m \in DocsMessages
      BY <1>3, <2>1, MessageKinds
    <3>2. Gathered(remote', r)
      BY <1>1, <1>3, <2>1, <3>1, HandleDocumentChangeGathers
    <3>3. RemoteSound(remote', responses, stream, denied)
      BY <1>3, <3>2, GatheredSound
    <3> QED  BY <1>1, <1>2, <2>1, <3>2, <3>3, ReadSound DEF Gathered
  <2>2. CASE m.kind = "filter"
    <3>1. m \in Filters
      BY <1>3, <2>2, MessageKinds
    <3>2. Gathered(remote', r) /\ remote'.updated \subseteq r.updated
      BY <1>1, <1>2, <1>3, <1>4, <2>2, <3>1, HandleExistenceFilterGathers
    <3>3. RemoteSound(remote', responses, stream, denied)
      BY <1>3, <3>2, GatheredSound
    <3> QED  BY <1>1, <1>2, <2>2, <3>2, <3>3, ReadSound DEF Gathered
  <2>3. CASE m.kind \in {"added", "removed", "current"}
    <3>1. m \in Acks /\ m.kind # "error"
      BY <1>3, <2>3, MessageKinds
    <3> QED  BY <1>1, <1>2, <1>3, <2>3, <3>1, HandleTargetChangeSound
  <2> QED  BY <1>1, <2>1, <2>2, <2>3
<1>6. Sound(Pair, responses, live, stream, denied)'
  <2>1. Agree(remote', limbos, live)
    BY <1>4, <1>5, AgreeSame
  <2> QED  BY <1>1, <1>2, <1>5, <2>1, PairNext
<1>7. Types' /\ CallsInv'
  BY <1>1, <1>2, <1>3 DEF Types, CallsInv, IsListening
<1>8. StreamInv'
  BY <1>1, <1>3 DEF StreamInv
<1>9. /\ Ordered(Tail(responses), remote'.updated, denied)
      /\ NoDocs(responses) => NoDocs(Tail(responses)) /\ m.kind # "docs"
  <2>1. Ordered(responses, r.updated, denied)
    BY <1>2, <1>3 DEF OrderInv
  <2>2. NoDocs(responses) => m.kind # "docs"
    BY <1>1, <1>2, TailFacts DEF NoDocs
  <2> QED  BY <1>1, <1>2, <1>5, <2>1, <2>2, OrderedTail
<1>10. OrderInv'
  BY <1>1, <1>2, <1>9 DEF OrderInv
<1>11. PursuitInv'
  <2>1. Mute => Mute'
    BY <1>1, <1>3, <1>5, <1>9 DEF Mute
  <2> QED  BY <1>1, <1>2, <2>1, PairParts DEF PursuitInv, Pair, Pursued
<1> QED  BY <1>6, <1>7, <1>8, <1>10, <1>11 DEF IInv

LEMMA RaiseWatchSnapshotKeeps ==
    ASSUME IInv, RaiseWatchSnapshot
    PROVE  /\ IInv'
           /\ QueryKept(remote', AfterEvent(UpdateState(remote, "Online"), Head(responses).docs))
           /\ remote'.updated = {}
           /\ Spared(Pair', [remote |-> AfterEvent(UpdateState(remote, "Online"), Head(responses).docs),
                             limbos |-> [limbos EXCEPT
                                          !.active = Received(UpdateState(remote, "Online"))]])
<1> DEFINE m == Head(responses)
           r == UpdateState(remote, "Online")
           s == Ensure(r, Query)
           snapshot == m.docs
           gone == r.gone \cup {Key(t) : t \in Missing(r)}
           q == AfterEvent(r, snapshot)
           active == Received(r)
           l == [limbos EXCEPT !.active = active]
           p == [remote |-> q, limbos |-> l]
           cur == IF ForQuery(r) THEN s.current ELSE current
<1>1. /\ UNCHANGED <<docs, denied, changes, served, stream, live, seen>>
      /\ responses # <<>> /\ responses' = Tail(responses) /\ m.kind = "snapshot"
      /\ cache' = CacheAfter(r.updated, gone)
      /\ \/ synced' = (synced \cup s.added) \ s.removed /\ token' = {snapshot}
         \/ synced' = synced /\ token' = token
      /\ EmitNewSnapshots(p, cur)
  BY DEF RaiseWatchSnapshot, backend
<1>2. /\ Types /\ CallsInv /\ StreamInv /\ OrderInv /\ PursuitInv
      /\ limbos \in Limbos /\ Agree(remote, limbos, live) /\ responses \in Seq(Messages)
      /\ synced \in SUBSET Keys /\ token \in Tokens /\ cache \in Collections
      /\ current \in BOOLEAN
  BY Beginning DEF Types
<1>3. /\ stream = "open" /\ m \in Messages /\ Tail(responses) \in Seq(Messages)
      /\ RemoteSound(r, responses, stream, denied) /\ r \in Remotes
      /\ r.targets = remote.targets /\ r.updated = remote.updated
  BY <1>1, Reading
<1> HIDE DEF r
<1>4. s \in TargetStates
  BY <1>3, EnsureType
<1>5. snapshot \in Collections /\ {snapshot} \in Tokens
  <2>1. m \in Snapshots
    BY <1>1, <1>3, MessageKinds
  <2>2. snapshot \in Collections
    BY <2>1 DEF Snapshots
  <2> QED  BY <2>2, SnapshotToken
<1> HIDE DEF snapshot, s
<1>6. synced' \in SUBSET Keys /\ token' \in Tokens
  BY <1>1, <1>2, <1>4, <1>5 DEF TargetStates
<1>7. /\ cache' \in Collections
      /\ r.updated = {} => KeysOf(cache') \subseteq KeysOf(cache)
  <2>1. r.updated \in Collections
    BY <1>3 DEF Remotes
  <2> QED  BY <1>1, <1>2, <2>1, CacheAfterType
<1>8. cur \in BOOLEAN
  BY <1>2, <1>4 DEF TargetStates
<1>9. /\ RemoteSound(q, Tail(responses), stream, denied)
      /\ DOMAIN q.targets = DOMAIN remote.targets /\ q.updated = {}
  <2>1. RemoteSound(r, Tail(responses), "open", denied)
    BY <1>1, <1>2, <1>3, ReadSound
  <2>2. RemoteSound(q, Tail(responses), "open", denied)
    BY <1>3, <1>5, <2>1, AfterEventSound
  <2>3. DOMAIN q.targets = DOMAIN r.targets /\ q.updated = {}
    BY <1>3, <1>5, <2>1, AfterEventSound
  <2> QED  BY <1>3, <2>2, <2>3
<1>10. /\ active \in Tables(Lookups) /\ DOMAIN active = DOMAIN limbos.active
       /\ \A t \in DOMAIN limbos.active : active[t].key = limbos.active[t].key
  BY <1>2, ReceivedFacts
<1> HIDE DEF q, active, cur
<1>11. /\ l \in Limbos /\ l.active = active /\ l.byKey = limbos.byKey
       /\ l.enqueued = limbos.enqueued
  BY <1>2, <1>10 DEF Limbos
<1> HIDE DEF l
<1>12. Agree(q, l, live)
  BY <1>2, <1>9, <1>10, <1>11 DEF Agree
<1>13. /\ Sound(p, Tail(responses), live, stream, denied) /\ p.remote = q
       /\ Pursued(p) = Pursued(Pair)
  <2>1. Sound(p, Tail(responses), live, stream, denied) /\ p.remote = q /\ p.limbos = l
    BY <1>9, <1>11, <1>12, PairParts
  <2>2. Pair.limbos = limbos
    BY DEF Pair
  <2> QED  BY <1>11, <2>1, <2>2 DEF Pursued
<1> HIDE DEF p
<1>14. /\ current' \in BOOLEAN /\ limbo' \in SUBSET Keys /\ calls' \in Outcomes
       /\ Sound(Pair', Tail(responses), live, stream, denied)
       /\ remote'.updated = {} /\ QueryKept(remote', q) /\ Spared(Pair', p)
       /\ (Pursued(Pair) \ (limbo \ limbo')) \cup (limbo' \ limbo) \subseteq Pursued(Pair')
  BY <1>1, <1>2, <1>3, <1>6, <1>7, <1>8, <1>9, <1>13, EmitNewSnapshotsSound
<1>15. Sound(Pair, responses, live, stream, denied)'
  BY <1>1, <1>14
<1>16. Types'
  BY <1>1, <1>2, <1>3, <1>6, <1>7, <1>14 DEF Types
<1>17. CallsInv'
  BY <1>1, <1>2, AnsweredCalls DEF EmitNewSnapshots
<1>18. StreamInv'
  BY <1>1, <1>3 DEF StreamInv
<1>19. /\ Ordered(Tail(responses), {}, denied)
       /\ NoDocs(responses) => NoDocs(Tail(responses))
  BY <1>1, <1>2, OrderedTail DEF OrderInv
<1>20. OrderInv'
  BY <1>1, <1>2, <1>14, <1>19 DEF OrderInv
<1>21. PursuitInv'
  <2>1. CASE limbo \subseteq Pursued(Pair)
    BY <1>14, <2>1 DEF PursuitInv
  <2>2. CASE Mute /\ limbo \cap KeysOf(cache) \subseteq Pursued(Pair)
    <3>1. Mute'
      BY <1>1, <1>14, <1>19, <2>2 DEF Mute
    <3>2. KeysOf(cache') \subseteq KeysOf(cache)
      BY <1>3, <1>7, <2>2 DEF Mute
    <3> DEFINE pursued == Pursued(Pair')
    <3>3. limbo' \cap KeysOf(cache') \subseteq pursued
      <4> HIDE DEF pursued
      <4>1. (Pursued(Pair) \ (limbo \ limbo')) \cup (limbo' \ limbo) \subseteq pursued
        BY <1>14 DEF pursued
      <4> QED  BY <2>2, <3>2, <4>1
    <3> QED  BY <3>1, <3>3 DEF PursuitInv, KeysOf
  <2> QED  BY <1>2, <2>1, <2>2 DEF PursuitInv
<1>22. QueryKept(remote', AfterEvent(UpdateState(remote, "Online"), Head(responses).docs))
  BY <1>14 DEF q, r, snapshot
<1>23. Spared(Pair', [remote |-> AfterEvent(UpdateState(remote, "Online"), Head(responses).docs),
                      limbos |-> [limbos EXCEPT
                                   !.active = Received(UpdateState(remote, "Online"))]])
  BY <1>14 DEF p, q, l, active, r, snapshot
<1> QED  BY <1>14, <1>15, <1>16, <1>17, <1>18, <1>20, <1>21, <1>22, <1>23
         DEF IInv

(* A target that is ended with an error is forgotten with its state; all   *)
(* is denied by then, and nothing is counted any more.                     *)
LEMMA ForgottenSound ==
    ASSUME NEW r, NEW ms, NEW others, NEW dn, RemoteSound(r, ms, "open", dn), dn, NEW t
    PROVE  LET rest == [r EXCEPT !.targets = Less(@, t), !.states = Less(@, t)] IN
           /\ RemoteSound(rest, others, "open", dn)
           /\ DOMAIN rest.targets = DOMAIN r.targets \ {t} /\ rest.updated = r.updated
<1> DEFINE f == Less(r.targets, t)
           g == Less(r.states, t)
           rest == [r EXCEPT !.targets = f, !.states = g]
<1>1. r \in Remotes /\ r.targets \in Tables(Tokens) /\ r.states \in Tables(TargetStates)
  BY DEF RemoteSound, Remotes
<1>2. f \in Tables(Tokens) /\ g \in Tables(TargetStates)
  BY <1>1, LessTable
<1>3. DOMAIN f = DOMAIN r.targets \ {t}
  BY DEF Less, Restrict
<1> HIDE DEF f, g
<1>4. /\ rest \in Remotes /\ rest.targets = f /\ rest.updated = r.updated /\ rest.idle = r.idle
      /\ rest.timer = r.timer /\ rest.failed = r.failed /\ rest.online = r.online
  BY <1>1, <1>2 DEF Remotes
<1>5. rest = [r EXCEPT !.targets = Less(@, t), !.states = Less(@, t)]
  BY DEF f, g
<1> HIDE DEF rest
<1>6. RemoteSound(rest, others, "open", dn)
  BY <1>3, <1>4 DEF RemoteSound, Tracker, Timer
<1> QED  BY <1>3, <1>4, <1>5, <1>6

LEMMA ProcessTargetErrorKeeps ==
    ASSUME IInv, ProcessTargetError
    PROVE  IInv' /\ (live' /\ Asking(remote.sent) => Asking(remote'.sent))
<1> DEFINE m == Head(responses)
           t == m.target
           r == UpdateState(remote, "Online")
           rest == [r EXCEPT !.targets = Less(@, t), !.states = Less(@, t)]
           k == Key(t)
           l == WithoutLookup(limbos, t, k)
           q == [remote |-> rest, limbos |-> l]
           p == PumpEnqueuedLimboResolutions(q)
<1>1. /\ UNCHANGED <<docs, denied, changes, served, stream>>
      /\ responses # <<>> /\ responses' = Tail(responses) /\ m.kind = "error"
      /\ \/ /\ remote' = r
            /\ UNCHANGED <<limbos, cache, synced, token, live, current, limbo, seen, calls>>
         \/ /\ t = Query /\ t \in DOMAIN r.targets
            /\ RemoveAndCleanupTarget(rest)
            /\ calls' = [c \in Calls |-> IF calls[c] = "waiting" THEN "error"
                                         ELSE IF IsListening(c) THEN "gone" ELSE calls[c]]
            /\ UNCHANGED <<cache, synced, token>>
         \/ /\ t # Query /\ t \in DOMAIN r.targets
            /\ cache' = Without(cache, {k})
            /\ UNCHANGED <<synced, token, live, seen>>
            /\ EmitNewSnapshots(p, current)
  BY DEF ProcessTargetError, backend, disk, view
<1>2. /\ Types /\ CallsInv /\ StreamInv /\ OrderInv /\ PursuitInv
      /\ limbos \in Limbos /\ Agree(remote, limbos, live) /\ responses \in Seq(Messages)
      /\ cache \in Collections /\ synced \in SUBSET Keys /\ current \in BOOLEAN
      /\ live \in BOOLEAN /\ served \in Tables(Watched)
  BY Beginning DEF Types
<1>3. /\ stream = "open" /\ m \in Messages /\ Tail(responses) \in Seq(Messages)
      /\ RemoteSound(r, responses, stream, denied) /\ r \in Remotes
      /\ r.targets = remote.targets /\ r.updated = remote.updated /\ r.sent = remote.sent
  BY <1>1, Reading
<1>4. Agree(r, limbos, live)
  BY <1>2, <1>3, AgreeSame
<1> HIDE DEF r
<1>5. /\ Ordered(Tail(responses), {}, denied)
      /\ denied /\ NoDocs(Tail(responses)) /\ remote.updated = {}
  BY <1>1, <1>2, OrderedTail DEF OrderInv
<1>6. /\ RemoteSound(rest, Tail(responses), stream, denied)
      /\ DOMAIN rest.targets = DOMAIN r.targets \ {t} /\ rest.updated = r.updated
      /\ rest.sent = r.sent
  <2>1. /\ RemoteSound(rest, Tail(responses), stream, denied)
        /\ DOMAIN rest.targets = DOMAIN r.targets \ {t} /\ rest.updated = r.updated
    <3> HIDE DEF t
    <3>1. stream = "open" /\ denied /\ RemoteSound(r, responses, "open", denied)
      BY <1>3, <1>5
    <3>2. /\ RemoteSound(rest, Tail(responses), "open", denied)
          /\ DOMAIN rest.targets = DOMAIN r.targets \ {t} /\ rest.updated = r.updated
      BY <3>1, ForgottenSound
    <3> QED  BY <3>1, <3>2
  <2>2. rest.sent = r.sent
    BY <1>3 DEF Remotes
  <2> QED  BY <2>1, <2>2
<1> HIDE DEF rest
<1>7. StreamInv'
  BY <1>1, <1>3 DEF StreamInv
<1>8. CASE /\ remote' = r
           /\ UNCHANGED <<limbos, cache, synced, token, live, current, limbo, seen, calls>>
  <2>1. RemoteSound(remote', responses', stream', denied')
    BY <1>1, <1>2, <1>3, <1>8, ReadSound
  <2>2. Sound(Pair, responses, live, stream, denied)'
    BY <1>2, <1>4, <1>8, <2>1, PairNext
  <2>3. Types' /\ CallsInv'
    BY <1>1, <1>2, <1>3, <1>8 DEF Types, CallsInv, IsListening
  <2>4. OrderInv' /\ (Mute => Mute')
    BY <1>1, <1>2, <1>3, <1>5, <1>8 DEF OrderInv, Mute
  <2>5. PursuitInv'
    BY <1>2, <1>8, <2>4, PairParts DEF PursuitInv, Pair, Pursued
  <2> QED  BY <1>3, <1>7, <1>8, <2>2, <2>3, <2>4, <2>5 DEF IInv
<1>9. CASE /\ t = Query /\ t \in DOMAIN r.targets
           /\ RemoveAndCleanupTarget(rest)
           /\ calls' = [c \in Calls |-> IF calls[c] = "waiting" THEN "error"
                                        ELSE IF IsListening(c) THEN "gone" ELSE calls[c]]
           /\ UNCHANGED <<cache, synced, token>>
  <2>1. Agree(rest, limbos, FALSE)
    BY <1>4, <1>6, <1>9 DEF Agree
  <2>2. /\ live' = FALSE /\ current' = FALSE /\ limbo' = {} /\ seen' = {}
        /\ Sound(Pair', Tail(responses), FALSE, stream, denied)
        /\ remote'.updated = {}
    BY <1>2, <1>3, <1>5, <1>6, <1>9, <2>1, RemoveAndCleanupTargetSound
  <2>3. Sound(Pair, responses, live, stream, denied)'
    BY <1>1, <2>2
  <2>4. calls' \in Outcomes
    BY <1>2, <1>9 DEF Types, Outcomes
  <2>5. Types'
    BY <1>1, <1>2, <1>3, <1>9, <2>2, <2>4 DEF Types
  <2>6. CallsInv'
    BY <1>9 DEF CallsInv, IsListening
  <2>7. OrderInv' /\ PursuitInv'
    BY <1>1, <1>2, <1>5, <2>2 DEF OrderInv, PursuitInv
  <2> QED  BY <1>7, <2>2, <2>3, <2>5, <2>6, <2>7 DEF IInv
<1>10. CASE /\ t # Query /\ t \in DOMAIN r.targets
            /\ cache' = Without(cache, {k})
            /\ UNCHANGED <<synced, token, live, seen>>
            /\ EmitNewSnapshots(p, current)
  <2>1. t \in DOMAIN limbos.active /\ k = limbos.active[t].key
    BY <1>4, <1>10 DEF Agree, Key
  <2>2. Agree(rest, l, live)
    BY <1>2, <1>4, <1>6, <2>1, WithoutLookupAgrees
  <2>3. /\ l \in Limbos /\ l.enqueued = limbos.enqueued
        /\ DOMAIN l.byKey = DOMAIN limbos.byKey \ {k}
    <3>1. l \in Limbos /\ l.enqueued = limbos.enqueued /\ l.byKey = Less(limbos.byKey, k)
      BY <1>2, WithoutLookupFacts
    <3> QED  BY <3>1 DEF Less, Restrict
  <2> HIDE DEF k, t, l
  <2>4. Sound(q, Tail(responses), live, stream, denied) /\ q.remote = rest /\ q.limbos = l
    BY <1>6, <2>2, <2>3, PairParts
  <2>5. Pursued(Pair) \ {k} \subseteq Pursued(q)
    <3>1. Pair.limbos = limbos
      BY DEF Pair
    <3> QED  BY <2>3, <2>4, <3>1 DEF Pursued
  <2> HIDE DEF q
  <2>6. Onward(q, p, {}, {}, Tail(responses), live, denied)
    BY <1>2, <1>3, <2>4, PumpOnward
  <2> HIDE DEF p
  <2>7. /\ Sound(p, Tail(responses), live, stream, denied) /\ p.remote.updated = {}
        /\ QueryKept(p.remote, rest)
        /\ Pursued(Pair) \ {k} \subseteq Pursued(p)
    BY <1>3, <1>5, <1>6, <2>4, <2>5, <2>6 DEF Onward
  <2>8. cache' \in Collections /\ cache' \subseteq cache /\ k \notin KeysOf(cache')
    <3>1. cache' = Without(cache, {k})
      BY <1>10
    <3>2. cache' \in Collections /\ cache' \subseteq cache
      BY <1>2, <3>1, CollectionWithout
    <3>3. \A d \in cache' : d[1] # k
      BY <3>1 DEF Without
    <3> QED  BY <3>2, <3>3 DEF KeysOf
  <2>9. /\ current' \in BOOLEAN /\ limbo' \in SUBSET Keys /\ calls' \in Outcomes
        /\ Sound(Pair', Tail(responses), live, stream, denied)
        /\ remote'.updated = {} /\ QueryKept(remote', p.remote)
        /\ (Pursued(p) \ (limbo \ limbo')) \cup (limbo' \ limbo) \subseteq Pursued(Pair')
    BY <1>2, <1>3, <1>10, <2>7, <2>8, EmitNewSnapshotsSound
  <2>10. Sound(Pair, responses, live, stream, denied)'
    BY <1>1, <1>10, <2>9
  <2>11. Types'
    BY <1>1, <1>2, <1>3, <1>10, <2>8, <2>9 DEF Types
  <2>12. CallsInv'
    BY <1>2, <1>10, AnsweredCalls DEF EmitNewSnapshots
  <2>13. OrderInv'
    BY <1>1, <1>2, <1>5, <2>9 DEF OrderInv
  <2>14. PursuitInv'
    <3>1. Mute'
      BY <1>1, <1>5, <2>9 DEF Mute
    <3>2. limbo \cap KeysOf(cache) \subseteq Pursued(Pair)
      BY <1>2 DEF PursuitInv
    <3>3. KeysOf(cache') \subseteq KeysOf(cache) \ {k}
      BY <2>8 DEF KeysOf
    <3> DEFINE pursued == Pursued(Pair')
    <3>4. limbo' \cap KeysOf(cache') \subseteq pursued
      <4> HIDE DEF pursued
      <4>1. (Pursued(p) \ (limbo \ limbo')) \cup (limbo' \ limbo) \subseteq pursued
        BY <2>9 DEF pursued
      <4> QED  BY <2>7, <3>2, <3>3, <4>1
    <3> QED  BY <3>1, <3>4 DEF PursuitInv, KeysOf
  <2>15. Asking(remote.sent) => Asking(remote'.sent)
    BY <1>3, <1>6, <2>7, <2>9 DEF QueryKept
  <2> QED  BY <1>7, <2>10, <2>11, <2>12, <2>13, <2>14, <2>15 DEF IInv
<1> QED  BY <1>1, <1>8, <1>9, <1>10

(* What is left of the remote store when its stream is gone.               *)
Stopped(s) ==
    /\ s \in Remotes /\ s.states = NoTargets /\ s.sent = <<>> /\ ~s.idle /\ s.updated = {}
    /\ Timer(s)

LEMMA StoppedFacts ==
    ASSUME NEW r \in Remotes, Timer(r)
    PROVE  /\ Stopped(WithoutStream(r)) /\ WithoutStream(r).targets = r.targets
           /\ Stopped(UpdateState(WithoutStream(r), "Unknown"))
           /\ UpdateState(WithoutStream(r), "Unknown").targets = r.targets
           /\ ~UpdateState(WithoutStream(r), "Unknown").timer
           /\ ~UpdateState(WithoutStream(r), "Unknown").failed
<1> DEFINE s == WithoutStream(r)
           u == UpdateState(s, "Unknown")
<1>1. Stopped(s) /\ s.targets = r.targets
  BY WithoutStreamFacts DEF Stopped, Timer
<1>2. "Unknown" \in Onlines
  BY DEF Onlines
<1> HIDE DEF s
<1>3. /\ u \in Remotes /\ u.states = s.states /\ u.sent = s.sent /\ u.idle = s.idle
      /\ u.targets = s.targets /\ u.updated = s.updated /\ ~u.timer /\ ~u.failed
  BY <1>1, <1>2, UpdateStateFacts DEF Stopped
<1> HIDE DEF u
<1>4. Stopped(u)
  BY <1>1, <1>3 DEF Stopped, Timer
<1> QED  BY <1>1, <1>3, <1>4 DEF s, u

LEMMA StreamGoneKeeps ==
    ASSUME IInv, NEW s, Stopped(s), s.targets = remote.targets, Broadcast(s),
           served' = NoTargets, responses' = <<>>,
           UNCHANGED <<docs, denied, changes, limbos, cache, synced, token, live, limbo, seen>>,
           stream' \in {"off", "starting"},
           stream' = "off" => ~s.timer /\ ~s.failed /\ DOMAIN s.targets = {}
    PROVE  IInv'
<1>1. /\ Types /\ CallsInv /\ StreamInv /\ OrderInv /\ PursuitInv
      /\ limbos \in Limbos /\ Agree(remote, limbos, live)
  BY Beginning
<1>2. /\ remote' = s /\ current' \in BOOLEAN
      /\ calls' = Answered(FALSE, s.online)
  BY <1>1 DEF Broadcast, Types
<1>3. RemoteSound(s, <<>>, stream', denied)
  BY NothingToCome DEF Stopped
<1>4. Agree(s, limbos, live)
  BY <1>1, AgreeSame
<1>5. Sound(Pair, responses, live, stream, denied)'
  BY <1>1, <1>2, <1>3, <1>4, PairNext
<1>6. Types'
  <2>1. calls' \in Outcomes
    BY <1>1, <1>2, AnsweredType DEF Types, Outcomes
  <2>2. NoTargets \in Tables(Watched) /\ <<>> \in Seq(Messages)
    BY EmptyTable
  <2> QED  BY <1>1, <1>2, <2>1, <2>2 DEF Types
<1>7. CallsInv'
  BY <1>1, <1>2, AnsweredCalls
<1>8. StreamInv'
  BY <1>2, EmptyTable DEF StreamInv
<1>9. OrderInv'
  BY <1>2, EmptyTable DEF OrderInv, Ordered, Stopped
<1>10. PursuitInv'
  <2>1. Mute => Mute'
    BY <1>2 DEF Mute, NoDocs, Stopped
  <2> QED  BY <1>1, <2>1, PairParts DEF PursuitInv, Pair, Pursued
<1> QED  BY <1>5, <1>6, <1>7, <1>8, <1>9, <1>10 DEF IInv

LEMMA OnWatchStreamCloseKeeps ==
    ASSUME IInv, OnWatchStreamClose
    PROVE  IInv'
<1> DEFINE r == WithoutStream(remote)
           u == UpdateState(r, "Unknown")
           f == HandleWatchStreamFailure(r)
           s == HandleWatchStreamStart(f)
<1>1. /\ UNCHANGED <<docs, denied, changes, limbos, cache, synced, token, live, limbo, seen>>
      /\ served' = NoTargets /\ responses' = <<>>
      /\ \/ DOMAIN remote.targets = {} /\ stream' = "off" /\ Broadcast(u)
         \/ stream' = "starting" /\ Broadcast(s)
  BY DEF OnWatchStreamClose, backend, disk
<1>2. /\ Stopped(r) /\ r.targets = remote.targets
      /\ Stopped(u) /\ u.targets = remote.targets /\ ~u.timer /\ ~u.failed
  BY Beginning, StoppedFacts
<1> HIDE DEF r
<1>3. StoreSame(f, r) /\ Timer(f)
  BY <1>2, HandleWatchStreamFailureFacts DEF Stopped
<1> HIDE DEF f
<1>4. StoreSame(s, f) /\ Timer(s)
  BY <1>3, HandleWatchStreamStartFacts DEF StoreSame
<1> HIDE DEF u, s
<1>5. Stopped(s) /\ s.targets = remote.targets
  BY <1>2, <1>3, <1>4 DEF Stopped, StoreSame
<1>6. CASE DOMAIN remote.targets = {} /\ stream' = "off" /\ Broadcast(u)
  BY <1>1, <1>2, <1>6, StreamGoneKeeps
<1>7. CASE stream' = "starting" /\ Broadcast(s)
  BY <1>1, <1>5, <1>7, StreamGoneKeeps
<1> QED  BY <1>1, <1>6, <1>7

LEMMA IdleTimeoutKeeps ==
    ASSUME IInv, IdleTimeout
    PROVE  IInv'
<1> DEFINE u == UpdateState(WithoutStream(remote), "Unknown")
<1>1. /\ UNCHANGED <<docs, denied, changes, limbos, cache, synced, token, live, limbo, seen>>
      /\ served' = NoTargets /\ responses' = <<>>
      /\ remote.idle /\ stream' = "off" /\ Broadcast(u)
  BY DEF IdleTimeout, backend, disk
<1>2. Stopped(u) /\ u.targets = remote.targets /\ ~u.timer /\ ~u.failed
  BY Beginning, StoppedFacts
<1>3. DOMAIN remote.targets = {}
  BY <1>1, Beginning DEF RemoteSound, Tracker
<1> HIDE DEF u
<1> QED  BY <1>1, <1>2, <1>3, StreamGoneKeeps

LEMMA RestartNetworkKeeps ==
    ASSUME IInv, RestartNetwork
    PROVE  IInv'
<1> DEFINE u == UpdateState(WithoutStream(remote), "Unknown")
           s == HandleWatchStreamStart(u)
<1>1. /\ UNCHANGED <<docs, denied, changes, limbos, cache, synced, token, live, limbo, seen>>
      /\ served' = NoTargets /\ responses' = <<>>
      /\ \/ DOMAIN remote.targets = {} /\ stream' = "off" /\ Broadcast(u)
         \/ stream' = "starting" /\ Broadcast(s)
  BY DEF RestartNetwork, backend, disk
<1>2. Stopped(u) /\ u.targets = remote.targets /\ ~u.timer /\ ~u.failed
  BY Beginning, StoppedFacts
<1> HIDE DEF u
<1>3. StoreSame(s, u) /\ Timer(s)
  BY <1>2, HandleWatchStreamStartFacts DEF Stopped
<1> HIDE DEF s
<1>4. Stopped(s) /\ s.targets = remote.targets
  BY <1>2, <1>3 DEF Stopped, StoreSame
<1>5. CASE DOMAIN remote.targets = {} /\ stream' = "off" /\ Broadcast(u)
  BY <1>1, <1>2, <1>5, StreamGoneKeeps
<1>6. CASE stream' = "starting" /\ Broadcast(s)
  BY <1>1, <1>4, <1>6, StreamGoneKeeps
<1> QED  BY <1>1, <1>5, <1>6

LEMMA OnlineStateTimeoutKeeps ==
    ASSUME IInv, OnlineStateTimeout
    PROVE  IInv'
<1> DEFINE s == [remote EXCEPT !.timer = FALSE, !.online = "Offline"]
<1>1. /\ UNCHANGED <<docs, denied, changes, served, responses, stream, limbos, cache, synced,
                     token, live, limbo, seen>>
      /\ remote.timer /\ Broadcast(s)
  BY DEF OnlineStateTimeout, backend, disk
<1>2. /\ Types /\ CallsInv /\ StreamInv /\ OrderInv /\ PursuitInv
      /\ RemoteSound(remote, responses, stream, denied) /\ remote \in Remotes
      /\ limbos \in Limbos /\ Agree(remote, limbos, live)
  BY Beginning
<1>3. StoreSame(s, remote) /\ Timer(s) /\ ~s.timer /\ s.failed = remote.failed
  BY <1>2 DEF StoreSame, Timer, Remotes, Onlines
<1>4. /\ remote' = s /\ current' \in BOOLEAN
      /\ calls' = Answered(FALSE, s.online)
  BY <1>1, <1>2 DEF Broadcast, Types
<1> HIDE DEF s
<1>5. RemoteSound(s, responses, stream, denied)
  BY <1>2, <1>3, StoreSameSound
<1>6. Agree(s, limbos, live)
  BY <1>2, <1>3, AgreeSame DEF StoreSame
<1>7. Sound(Pair, responses, live, stream, denied)'
  BY <1>1, <1>2, <1>4, <1>5, <1>6, PairNext
<1>8. Types'
  <2>1. calls' \in Outcomes
    BY <1>2, <1>4, AnsweredType DEF Types, Outcomes
  <2> QED  BY <1>1, <1>2, <1>4, <2>1 DEF Types
<1>9. CallsInv'
  BY <1>1, <1>2, <1>4, AnsweredCalls
<1>10. StreamInv'
  BY <1>1, <1>2, <1>3, <1>4 DEF StreamInv, StoreSame
<1>11. OrderInv'
  BY <1>1, <1>2, <1>3, <1>4 DEF OrderInv, StoreSame
<1>12. PursuitInv'
  <2>1. Mute => Mute'
    BY <1>1, <1>3, <1>4 DEF Mute, StoreSame
  <2> QED  BY <1>1, <1>2, <2>1, PairParts DEF PursuitInv, Pair, Pursued
<1> QED  BY <1>7, <1>8, <1>9, <1>10, <1>11, <1>12 DEF IInv

LEMMA DieKeeps ==
    ASSUME IInv, Die
    PROVE  IInv'
<1> DEFINE none == NoTargets
           u == UpdateState(WithoutStream(remote), "Unknown")
           s == [u EXCEPT !.targets = none]
<1>1. /\ UNCHANGED <<docs, denied, changes, cache, synced, token>>
      /\ served' = NoTargets /\ responses' = <<>> /\ stream' = "off" /\ remote' = s
      /\ limbos' = [enqueued |-> <<>>, active |-> none, byKey |-> none]
      /\ live' = FALSE /\ current' = FALSE /\ limbo' = {} /\ seen' = {}
      /\ calls' = [c \in Calls |-> IF calls[c] = "new" THEN "new" ELSE "gone"]
  BY DEF Die, backend, disk
<1>2. /\ Types /\ Timer(remote) /\ remote \in Remotes
  BY Beginning
<1>3. Stopped(u) /\ ~u.timer /\ ~u.failed
  BY <1>2, StoppedFacts
<1>4. /\ none \in Tables(Tokens) /\ none \in Tables(Lookups) /\ none \in Tables(Nat)
      /\ none \in Tables(Watched) /\ DOMAIN none = {} /\ none = NoTargets
  BY EmptyTable
<1> HIDE DEF none, u
<1>5. /\ s \in Remotes /\ s.targets = none /\ s.states = u.states /\ s.sent = u.sent
      /\ s.idle = u.idle /\ s.updated = u.updated /\ s.timer = u.timer /\ s.failed = u.failed
  BY <1>3, <1>4 DEF Stopped, Remotes
<1> HIDE DEF s
<1>6. Stopped(s)
  BY <1>3, <1>5 DEF Stopped, Timer
<1>7. RemoteSound(s, <<>>, "off", denied)
  BY <1>6, NothingToCome DEF Stopped
<1>8. limbos' \in Limbos /\ limbos'.active = none /\ limbos'.byKey = none
  BY <1>1, <1>4 DEF Limbos
<1>9. Agree(s, limbos', FALSE)
  <2>1. Cardinality({}) = 0
    BY FS_EmptySet
  <2> QED  BY <1>4, <1>5, <1>8, <2>1, KeysFinite DEF Agree
<1>10. Sound(Pair, responses, live, stream, denied)'
  BY <1>1, <1>7, <1>8, <1>9, PairNext
<1>11. Types'
  <2>1. calls' \in Outcomes
    BY <1>1 DEF Outcomes
  <2>2. <<>> \in Seq(Messages) /\ {} \in SUBSET Keys /\ {} \in SUBSET Collections
    OBVIOUS
  <2> QED  BY <1>1, <1>2, <1>4, <2>1, <2>2 DEF Types
<1>12. CallsInv'
  BY <1>1 DEF CallsInv, IsListening
<1>13. StreamInv'
  BY <1>1, <1>3, <1>4, <1>5 DEF StreamInv
<1>14. OrderInv'
  BY <1>1, <1>4, <1>6 DEF OrderInv, Ordered, Stopped
<1>15. PursuitInv'
  BY <1>1 DEF PursuitInv
<1> QED  BY <1>10, <1>11, <1>12, <1>13, <1>14, <1>15 DEF IInv

LEMMA ChangeKeeps ==
    ASSUME IInv, NEW k \in Keys, Change(k)
    PROVE  IInv'
<1>1. /\ UNCHANGED <<denied, served, responses, stream, remote, limbos, cache, synced, token,
                     live, current, limbo, calls>>
      /\ changes' = changes + 1
      /\ \/ docs' = Without(docs, {k}) \cup {<<k, changes'>>}
         \/ docs' = Without(docs, {k})
      /\ seen' = IF live THEN seen \cup {docs'} ELSE seen
  BY DEF Change, disk
<1>2. docs \in Collections /\ changes' \in Nat /\ Types
  BY <1>1 DEF IInv, Types
<1>3. docs' \in Collections
  <2>1. {<<k, changes'>>} \in Collections
    BY <1>2, KeysFinite DEF Collections, IsCollection, Documents
  <2>2. KeysOf({<<k, changes'>>}) \subseteq {k}
    BY DEF KeysOf
  <2> DEFINE es == {<<k, changes'>>}
             ks == {k}
  <2> HIDE DEF es, ks
  <2>3. Without(docs, ks) \cup es \in Collections
    BY <1>2, <2>1, <2>2, CollectionWith DEF es, ks
  <2>4. Without(docs, ks) \in Collections
    BY <1>2, CollectionWithout
  <2> QED  BY <1>1, <2>3, <2>4 DEF es, ks
<1>4. seen' \in SUBSET Collections
  BY <1>1, <1>2, <1>3 DEF Types
<1>5. Types' /\ CallsInv'
  BY <1>1, <1>2, <1>3, <1>4 DEF Types, CallsInv, IsListening, IInv
<1> QED  BY <1>1, <1>5 DEF IInv, StreamInv, OrderInv, PursuitInv, Mute, Pair

(* Messages that answer nothing are put behind.                            *)
LEMMA BesideSound ==
    ASSUME NEW r, NEW ms \in Seq(Messages), NEW st, NEW dn, RemoteSound(r, ms, st, dn),
           NEW more \in Seq(Messages),
           \A i \in DOMAIN more : more[i].kind \notin {"added", "removed"}
    PROVE  RemoteSound(r, ms \o more, st, dn)
<1>1. \A t : Among(ms \o more, AcksOf(t)) = Among(ms, AcksOf(t))
  <2> SUFFICES ASSUME NEW t
               PROVE  Among(ms \o more, AcksOf(t)) = Among(ms, AcksOf(t))
    OBVIOUS
  <2>1. \A i \in DOMAIN more : more[i] \notin AcksOf(t)
    BY DEF AcksOf
  <2> QED  BY <2>1, AmongBeside
<1> QED  BY <1>1 DEF RemoteSound, Counted, ToCome

(* A request is answered: one is no longer to be taken, one is to be read. *)
LEMMA AnswerSound ==
    ASSUME NEW r, NEW ms \in Seq(Messages), NEW st, NEW dn, RemoteSound(r, ms, st, dn),
           r.sent # <<>>, NEW a \in Acks, a.kind \in {"added", "removed"},
           a.target = Head(r.sent).target
    PROVE  /\ RemoteSound([r EXCEPT !.sent = Tail(@)], Append(ms, a), st, dn)
           /\ [r EXCEPT !.sent = Tail(@)].targets = r.targets
           /\ [r EXCEPT !.sent = Tail(@)].updated = r.updated
           /\ st = "open" /\ Head(r.sent) \in Requests
<1> DEFINE s == [r EXCEPT !.sent = Tail(@)]
           q == Head(r.sent)
<1>1. r \in Remotes /\ r.sent \in Seq(Requests) /\ st = "open"
  BY DEF RemoteSound, Remotes
<1>2. Tail(r.sent) \in Seq(Requests) /\ q \in Requests
  BY <1>1, TailFacts
<1>3. /\ s \in Remotes /\ s.sent = Tail(r.sent) /\ s.states = r.states /\ s.idle = r.idle
      /\ s.targets = r.targets /\ s.updated = r.updated /\ s.online = r.online
      /\ s.timer = r.timer /\ s.failed = r.failed
  BY <1>1, <1>2 DEF Remotes
<1> HIDE DEF s
<1>4. ASSUME ~dn
      PROVE  Counted(s, Append(ms, a))
  <2> SUFFICES ASSUME NEW u \in Nat
               PROVE  Ensure(s, u).outstanding = ToCome(s, Append(ms, a), u)
    BY DEF Counted
  <2>1. Ensure(r, u).outstanding = ToCome(r, ms, u)
    BY <1>4 DEF RemoteSound, Counted
  <2>2. Ensure(s, u) = Ensure(r, u)
    BY <1>3 DEF Ensure
  <2>3. Cardinality(Among(Tail(r.sent), RequestsFor(u))) =
          Cardinality(Among(r.sent, RequestsFor(u))) - (IF q \in RequestsFor(u) THEN 1 ELSE 0)
    BY <1>1, AmongTail
  <2>4. Cardinality(Among(Append(ms, a), AcksOf(u))) =
          Cardinality(Among(ms, AcksOf(u))) + (IF a \in AcksOf(u) THEN 1 ELSE 0)
    BY AmongAppend DEF Messages
  <2>5. a \in AcksOf(u) <=> q \in RequestsFor(u)
    BY <1>2 DEF AcksOf, RequestsFor, Messages
  <2>6. /\ Cardinality(Among(r.sent, RequestsFor(u))) \in Nat
        /\ Cardinality(Among(ms, AcksOf(u))) \in Nat
    BY <1>1, AmongFinite
  <2> HIDE DEF q
  <2> QED  BY <1>3, <2>1, <2>2, <2>3, <2>4, <2>5, <2>6 DEF ToCome
<1>5. RemoteSound(s, Append(ms, a), st, dn)
  BY <1>1, <1>3, <1>4 DEF RemoteSound, Tracker, Timer
<1> QED  BY <1>1, <1>2, <1>3, <1>5 DEF s

LEMMA AckType ==
    ASSUME NEW kind \in {"added", "removed", "current", "error"}, NEW t \in Nat
    PROVE  /\ Ack(kind, t) \in Acks /\ Ack(kind, t) \in Messages
           /\ Ack(kind, t).kind = kind /\ Ack(kind, t).target = t
BY DEF Ack, Acks, Messages

LEMMA OneMore ==
    ASSUME NEW M, NEW ms \in Seq(M), NEW x \in M
    PROVE  /\ Append(ms, x) \in Seq(M) /\ <<x>> \in Seq(M) /\ Append(ms, x) = ms \o <<x>>
           /\ \A i \in DOMAIN <<x>> : <<x>>[i] = x
OBVIOUS

LEMMA AnswerUnwatchKeeps ==
    ASSUME IInv, AnswerUnwatch
    PROVE  IInv'
<1> DEFINE t == Head(remote.sent).target
           a == Ack("removed", t)
<1>1. /\ UNCHANGED <<docs, denied, changes, stream, limbos, cache, synced, token, live, current,
                     limbo, seen, calls>>
      /\ remote.sent # <<>>
      /\ served' = Less(served, t) /\ responses' = Append(responses, a)
      /\ remote' = [remote EXCEPT !.sent = Tail(@)]
  BY DEF AnswerUnwatch, backend, disk, view
<1>2. /\ Types /\ CallsInv /\ StreamInv /\ OrderInv /\ PursuitInv
      /\ RemoteSound(remote, responses, stream, denied) /\ remote \in Remotes
      /\ limbos \in Limbos /\ Agree(remote, limbos, live) /\ responses \in Seq(Messages)
      /\ served \in Tables(Watched)
  BY Beginning DEF Types
<1>3. t \in Nat
  <2>1. remote.sent \in Seq(Requests)
    BY <1>2 DEF Remotes
  <2>2. Head(remote.sent) \in Requests
    BY <1>1, <2>1, TailFacts
  <2> QED  BY <2>2, MessageTargets
<1>4. a \in Acks /\ a \in Messages /\ a.kind = "removed" /\ a.target = t
  BY <1>3, AckType
<1> HIDE DEF a
<1>5. /\ RemoteSound(remote', responses', stream, denied)
      /\ remote'.targets = remote.targets /\ remote'.updated = remote.updated
      /\ stream = "open"
  BY <1>1, <1>2, <1>4, AnswerSound
<1>6. Sound(Pair, responses, live, stream, denied)'
  <2>1. Agree(remote', limbos, live)
    BY <1>2, <1>5, AgreeSame
  <2> QED  BY <1>1, <1>2, <1>5, <2>1, PairNext
<1>7. served' \in Tables(Watched) /\ (DOMAIN served = {} => DOMAIN served' = {})
  <2>1. DOMAIN served' = DOMAIN served \ {t}
    BY <1>1 DEF Less, Restrict
  <2> QED  BY <1>1, <1>2, <2>1, LessTable
<1>8. /\ <<a>> \in Seq(Messages) /\ responses' = responses \o <<a>> /\ responses' \in Seq(Messages)
      /\ \A i \in DOMAIN <<a>> : <<a>>[i] = a
  BY <1>1, <1>2, <1>4, OneMore
<1>9. Types' /\ CallsInv'
  BY <1>1, <1>2, <1>7, <1>8 DEF Types, CallsInv, IsListening
<1>10. StreamInv'
  BY <1>1, <1>5 DEF StreamInv
<1>11. /\ Ordered(responses', remote.updated, denied)
       /\ NoDocs(responses) => NoDocs(responses')
  <2> DEFINE more == <<a>>
  <2>1. more \in Seq(Messages) /\ responses' = responses \o more
        /\ \A i \in DOMAIN more : more[i].kind = "removed"
    BY <1>4, <1>8
  <2> HIDE DEF more
  <2>2. Ordered(responses, remote.updated, denied)
    BY <1>2 DEF OrderInv
  <2>3. \A i \in DOMAIN more : /\ more[i].kind \notin {"docs", "snapshot"}
                               /\ more[i].kind = "error" => denied
    BY <2>1
  <2> QED  BY <1>2, <2>1, <2>2, <2>3, OrderedAcks
<1>12. OrderInv'
  BY <1>1, <1>2, <1>5, <1>7, <1>11 DEF OrderInv
<1>13. PursuitInv'
  <2>1. Mute => Mute'
    BY <1>1, <1>5, <1>11 DEF Mute
  <2> QED  BY <1>1, <1>2, <2>1, PairParts DEF PursuitInv, Pair, Pursued
<1> QED  BY <1>6, <1>9, <1>10, <1>12, <1>13 DEF IInv

LEMMA TwoKinds ==
    ASSUME NEW a \in Seq(Messages), NEW b \in Seq(Messages), NEW K,
           \A i \in DOMAIN a : a[i].kind \in K, \A i \in DOMAIN b : b[i].kind \in K
    PROVE  a \o b \in Seq(Messages) /\ \A i \in DOMAIN (a \o b) : (a \o b)[i].kind \in K
<1> DEFINE n == Len(a)
           all == a \o b
<1>1. /\ all \in Seq(Messages)
      /\ \A i \in DOMAIN a : i \in DOMAIN all /\ all[i] = a[i]
      /\ \A i \in DOMAIN b : i + n \in DOMAIN all /\ all[i + n] = b[i]
      /\ \A i \in DOMAIN all : i \in DOMAIN a \/ i - n \in DOMAIN b
      /\ n \in Nat
  BY AppendedFacts
<1>2. \A i \in DOMAIN all : i \in Nat
  OBVIOUS
<1> HIDE DEF all, n
<1>3. ASSUME NEW i \in DOMAIN all
      PROVE  all[i].kind \in K
  <2>1. CASE i \in DOMAIN a
    BY <1>1, <2>1
  <2>2. CASE i \notin DOMAIN a
    <3>1. i - n \in DOMAIN b /\ all[i - n + n] = b[i - n] /\ i - n + n = i
      BY <1>1, <1>2, <2>2
    <3> QED  BY <3>1
  <2> QED  BY <2>1, <2>2
<1> QED  BY <1>1, <1>3 DEF all

LEMMA ReportsKinds ==
    ASSUME docs \in Collections, NEW ts \in Tables(Watched), NEW how
    PROVE  /\ Reports(ts, how) \in Seq(Messages)
           /\ \A i \in DOMAIN Reports(ts, how) : Reports(ts, how)[i].kind \in {"docs", "filter"}
<1> DEFINE ms == Reports(ts, how)
<1>1. ms \in Seq(DocsMessages \cup Filters)
  BY ReportsType
<1> HIDE DEF ms
<1>2. \A i \in DOMAIN ms : ms[i] \in DocsMessages \cup Filters
  BY <1>1
<1>3. \A m \in DocsMessages \cup Filters : m \in Messages /\ m.kind \in {"docs", "filter"}
  BY DEF Messages, DocsMessages, Filters
<1>4. DOMAIN ms = 1 .. Len(ms) /\ Len(ms) \in Nat /\ ms = [i \in 1 .. Len(ms) |-> ms[i]]
  BY <1>1
<1>5. ms \in Seq(Messages)
  BY <1>2, <1>3, <1>4
<1> QED  BY <1>2, <1>3, <1>5 DEF ms

LEMMA SnapshotType ==
    ASSUME docs \in Collections
    PROVE  Snapshot \in Messages /\ Snapshot.kind = "snapshot"
BY DEF Snapshot, Snapshots, Messages, Query

LEMMA ReportChangesKeeps ==
    ASSUME IInv, NEW how, ReportChanges(how)
    PROVE  IInv'
<1> DEFINE more == Reports(served, how)
           x == Snapshot
           end == <<x>>
           news == more \o end
<1>1. /\ UNCHANGED <<docs, denied, changes, stream, remote, limbos, cache, synced, token, live,
                     current, limbo, seen, calls>>
      /\ more # <<>> /\ responses' = responses \o more \o end /\ served' = UpToDate(served)
  BY DEF ReportChanges, backend, disk, view
<1>2. /\ Types /\ CallsInv /\ StreamInv /\ OrderInv /\ PursuitInv
      /\ RemoteSound(remote, responses, stream, denied)
      /\ limbos \in Limbos /\ Agree(remote, limbos, live) /\ responses \in Seq(Messages)
      /\ served \in Tables(Watched) /\ docs \in Collections /\ denied \in BOOLEAN
  BY Beginning DEF Types
<1>3. /\ more \in Seq(Messages) /\ \A i \in DOMAIN more : more[i].kind \in {"docs", "filter"}
      /\ DOMAIN served # {}
  BY <1>1, <1>2, ReportsKinds, ReportsType
<1>4. denied = FALSE /\ stream = "open"
  BY <1>2, <1>3 DEF OrderInv, StreamInv
<1>5. x \in Messages /\ x.kind = "snapshot"
  BY <1>2, SnapshotType
<1> HIDE DEF more, x
<1>6. end \in Seq(Messages) /\ \A i \in DOMAIN end : end[i].kind = "snapshot"
  BY <1>5, OneMore
<1>7. /\ responses' = responses \o (more \o end) /\ responses \o (more \o end) \in Seq(Messages)
      /\ more \o end \in Seq(Messages)
  <2> HIDE DEF end
  <2>1. (responses \o more) \o end = responses \o (more \o end) /\ more \o end \in Seq(Messages)
    BY <1>2, <1>3, <1>6
  <2> HIDE DEF news
  <2>2. responses \o news \in Seq(Messages)
    BY <1>2, <2>1 DEF news
  <2> QED  BY <1>1, <2>1, <2>2 DEF news
<1>8. Ordered(responses', remote.updated, FALSE)
  <2>1. Ordered(responses, remote.updated, FALSE)
    BY <1>2, <1>4 DEF OrderInv
  <2>2. \A i \in DOMAIN more : more[i].kind # "error"
    BY <1>3
  <2> QED  BY <1>2, <1>3, <1>5, <1>7, <2>1, <2>2, OrderedReport
<1> DEFINE K == {"docs", "filter", "snapshot"}
<1>9. \A i \in DOMAIN news : news[i].kind \notin {"added", "removed"}
  <2>1. /\ \A i \in DOMAIN more : more[i].kind \in K
        /\ \A i \in DOMAIN end : end[i].kind \in K
    BY <1>3, <1>6
  <2> HIDE DEF K, end
  <2>2. \A i \in DOMAIN news : news[i].kind \in K
    BY <1>3, <1>6, <2>1, TwoKinds
  <2> HIDE DEF news
  <2> QED  BY <2>2 DEF K
<1>10. RemoteSound(remote, responses', stream, denied)
  <2> HIDE DEF news, end
  <2>1. news \in Seq(Messages) /\ responses' = responses \o news
    BY <1>7 DEF news
  <2> QED  BY <1>2, <1>9, <2>1, BesideSound
<1> HIDE DEF news, end
<1>11. Sound(Pair, responses, live, stream, denied)'
  BY <1>1, <1>2, <1>10, PairNext
<1>12. Types' /\ CallsInv'
  BY <1>1, <1>2, <1>7, UpToDateType DEF Types, CallsInv, IsListening
<1>13. StreamInv'
  BY <1>1, <1>4 DEF StreamInv
<1>14. OrderInv'
  BY <1>1, <1>4, <1>8 DEF OrderInv
<1>15. PursuitInv'
  BY <1>1, <1>2, <1>4 DEF PursuitInv, Mute, Pair
<1> QED  BY <1>11, <1>12, <1>13, <1>14, <1>15 DEF IInv

(* Targets are ended with errors, once all is denied.                      *)
LEMMA ErrorsSound ==
    ASSUME NEW r, NEW ms \in Seq(Messages), NEW st, NEW dn, RemoteSound(r, ms, st, dn),
           NEW more \in Seq(Messages), \A i \in DOMAIN more : more[i].kind = "error",
           NEW updated, Ordered(ms, updated, dn)
    PROVE  /\ RemoteSound(r, ms \o more, st, TRUE) /\ ms \o more \in Seq(Messages)
           /\ Ordered(ms \o more, updated, TRUE)
           /\ NoDocs(ms) => NoDocs(ms \o more)
<1>1. ms \o more \in Seq(Messages)
  OBVIOUS
<1>2. \A i \in DOMAIN more : /\ more[i].kind \notin {"docs", "snapshot"}
                             /\ more[i].kind = "error" => TRUE
  OBVIOUS
<1>3. /\ Ordered(ms \o more, updated, TRUE)
      /\ NoDocs(ms) => NoDocs(ms \o more)
  BY <1>2, OrderedAcks
<1> QED  BY <1>1, <1>3 DEF RemoteSound

(* The messages of an answer, in two groupings.                            *)
Regrouping(s1, s2, s3, s4, s5) ==
    /\ ((s1 \o s2) \o s3) \o (s4 \o s5) = (s1 \o s2) \o (s3 \o (s4 \o s5))
    /\ ((s1 \o s2) \o s3) \o (s4 \o s5) = s1 \o (((s2 \o s3) \o s4) \o s5)

LEMMA Regrouped ==
    ASSUME NEW s1 \in Seq(Messages), NEW s2 \in Seq(Messages), NEW s3 \in Seq(Messages),
           NEW s4 \in Seq(Messages), NEW s5 \in Seq(Messages)
    PROVE  Regrouping(s1, s2, s3, s4, s5)
<1>1. s1 \o s2 \in Seq(Messages) /\ s4 \o s5 \in Seq(Messages) /\ s2 \o s3 \in Seq(Messages)
  OBVIOUS
<1>2. ((s1 \o s2) \o s3) \o (s4 \o s5) = (s1 \o s2) \o (s3 \o (s4 \o s5))
  <2> DEFINE v == s1 \o s2
             w == s4 \o s5
  <2>1. v \in Seq(Messages) /\ w \in Seq(Messages)
    BY <1>1
  <2> HIDE DEF v, w
  <2>2. (v \o s3) \o w = v \o (s3 \o w)
    BY <2>1
  <2> QED  BY <2>2 DEF v, w
<1>3. (s1 \o s2) \o s3 = s1 \o (s2 \o s3)
  OBVIOUS
<1>4. (s1 \o (s2 \o s3)) \o (s4 \o s5) = s1 \o ((s2 \o s3) \o (s4 \o s5))
  <2> DEFINE v == s2 \o s3
             w == s4 \o s5
  <2>1. v \in Seq(Messages) /\ w \in Seq(Messages)
    BY <1>1
  <2> HIDE DEF v, w
  <2>2. (s1 \o v) \o w = s1 \o (v \o w)
    BY <2>1
  <2> QED  BY <2>2 DEF v, w
<1>5. (s2 \o s3) \o (s4 \o s5) = ((s2 \o s3) \o s4) \o s5
  <2> DEFINE v == s2 \o s3
  <2>1. v \in Seq(Messages)
    BY <1>1
  <2> HIDE DEF v
  <2>2. v \o (s4 \o s5) = (v \o s4) \o s5
    BY <2>1
  <2> QED  BY <2>2 DEF v
<1> QED  BY <1>2, <1>3, <1>4, <1>5 DEF Regrouping

LEMMA TwoOfThem ==
    ASSUME NEW U, NEW u1 \in U, NEW u2 \in U
    PROVE  <<u1, u2>> = <<u1>> \o <<u2>>
<1> DEFINE both == <<u1>> \o <<u2>>
           pair == <<u1, u2>>
<1>1. both \in Seq(U) /\ Len(both) = 2 /\ both[1] = u1 /\ both[2] = u2
  OBVIOUS
<1>2. pair \in Seq(U) /\ Len(pair) = 2 /\ pair[1] = u1 /\ pair[2] = u2
  OBVIOUS
<1> HIDE DEF both, pair
<1>3. both = pair
  BY <1>1, <1>2
<1> QED  BY <1>3 DEF both, pair

(* The messages all are ms and the answer to a request to watch t.         *)
Said(ms, t, all) ==
    \E more \in Seq(Messages), most \in Seq(Messages) :
      /\ \A i \in DOMAIN more : more[i].kind \in {"docs", "filter"}
      /\ all = Append(ms, Ack("added", t)) \o (more \o <<Ack("current", t), Snapshot>>)
      /\ all = ms \o (most \o <<Snapshot>>)

LEMMA AnswerWatchKeeps ==
    ASSUME IInv, NEW how, AnswerWatch(how)
    PROVE  IInv' /\ (~denied => Said(responses, Head(remote.sent).target, responses'))
<1> DEFINE q == Head(remote.sent)
           t == q.target
           value == [scope |-> q.scope, known |-> Scoped(UNION q.token, q.scope)]
           ts == With(served, t, value)
           rest == [remote EXCEPT !.sent = Tail(@)]
           began == Ack("added", t)
           done == Ack("current", t)
           snap == Snapshot
           failed == Ack("error", t)
           more == Reports(ts, how)
<1>1. /\ UNCHANGED <<docs, denied, changes, stream, limbos, cache, synced, token, live, current,
                     limbo, seen, calls>>
      /\ remote.sent # <<>> /\ q.kind = "watch"
      /\ remote' = rest
      /\ IF denied
         THEN responses' = Append(responses, failed) /\ served' = served
         ELSE /\ responses' = responses \o <<began>> \o more \o <<done, snap>>
              /\ served' = UpToDate(ts)
  BY DEF AnswerWatch, backend, disk, view
<1>2. /\ Types /\ CallsInv /\ StreamInv /\ OrderInv /\ PursuitInv
      /\ RemoteSound(remote, responses, stream, denied) /\ remote \in Remotes
      /\ limbos \in Limbos /\ Agree(remote, limbos, live) /\ responses \in Seq(Messages)
      /\ served \in Tables(Watched) /\ docs \in Collections /\ denied \in BOOLEAN
      /\ Ordered(responses, remote.updated, denied)
  BY Beginning DEF Types, OrderInv
<1>3. q \in Requests /\ t \in Nat
  <2>1. remote.sent \in Seq(Requests)
    BY <1>2 DEF Remotes
  <2>2. q \in Requests
    BY <1>1, <2>1, TailFacts
  <2> QED  BY <2>2, MessageTargets
<1>4. value \in Watched
  <2>1. q.scope \in SUBSET Keys /\ q.token \in Tokens
    BY <1>1, <1>3 DEF Requests
  <2>2. UNION q.token \in Collections
    BY <2>1, TokenIsCollection
  <2>3. Scoped(UNION q.token, q.scope) \in Collections
    BY <2>2, ScopedType
  <2> QED  BY <2>1, <2>3 DEF Watched
<1> HIDE DEF value
<1>5. ts \in Tables(Watched)
  BY <1>2, <1>3, <1>4, WithTable
<1> HIDE DEF ts
<1>6. /\ began \in Acks /\ began \in Messages /\ began.kind = "added" /\ began.target = t
      /\ done \in Messages /\ done.kind = "current" /\ failed \in Messages /\ failed.kind = "error"
      /\ snap \in Messages /\ snap.kind = "snapshot"
  BY <1>2, <1>3, AckType, SnapshotType
<1> HIDE DEF began, done, failed, snap
<1>7. /\ RemoteSound(rest, Append(responses, began), stream, denied)
      /\ rest.targets = remote.targets /\ rest.updated = remote.updated
      /\ stream = "open"
  <2>1. began.target = Head(remote.sent).target /\ began.kind \in {"added", "removed"}
    BY <1>6
  <2>2. remote.sent # <<>> /\ began \in Acks
    BY <1>1, <1>6
  <2>3. RemoteSound(remote, responses, stream, denied) /\ responses \in Seq(Messages)
    BY <1>2
  <2> HIDE DEF t, q, ts, more
  <2> QED  BY ONLY <2>1, <2>2, <2>3, AnswerSound
<1>8. StreamInv'
  BY <1>1, <1>7 DEF StreamInv
<1> HIDE DEF rest, q
<1>9. Agree(rest, limbos, live)
  BY <1>2, <1>7, AgreeSame
<1>10. CASE denied
  <2> DEFINE errs == <<failed>>
  <2>1. /\ errs \in Seq(Messages) /\ \A i \in DOMAIN errs : errs[i].kind = "error"
        /\ responses' = responses \o errs /\ served' = served
    BY <1>1, <1>2, <1>6, <1>10, OneMore
  <2> HIDE DEF errs
  <2>2. /\ RemoteSound(rest, responses', stream, TRUE) /\ responses' \in Seq(Messages)
        /\ Ordered(responses', remote.updated, TRUE)
        /\ NoDocs(responses) => NoDocs(responses')
    <3>1. /\ RemoteSound(remote, responses', stream, TRUE) /\ responses' \in Seq(Messages)
          /\ Ordered(responses', remote.updated, TRUE)
          /\ NoDocs(responses) => NoDocs(responses')
      BY <1>2, <2>1, ErrorsSound
    <3>2. RemoteSound(rest, responses', stream, TRUE)
      BY <1>7 DEF RemoteSound
    <3> QED  BY <3>1, <3>2
  <2>3. denied' = TRUE
    BY <1>1, <1>2, <1>10
  <2>4. Sound(Pair, responses, live, stream, denied)'
    BY <1>1, <1>2, <1>9, <2>2, <2>3, PairNext
  <2>5. Types' /\ CallsInv'
    BY <1>1, <1>2, <2>1, <2>2 DEF Types, CallsInv, IsListening
  <2>6. OrderInv'
    BY <1>1, <1>2, <1>7, <1>10, <2>1, <2>2, <2>3 DEF OrderInv
  <2>7. PursuitInv'
    <3>1. Mute => Mute'
      BY <1>1, <1>7, <2>2 DEF Mute
    <3> QED  BY <1>1, <1>2, <3>1, PairParts DEF PursuitInv, Pair, Pursued
  <2> QED  BY <1>8, <1>10, <2>4, <2>5, <2>6, <2>7 DEF IInv
<1>11. CASE ~denied
  <2> DEFINE as == <<began>>
             bs == <<done>>
             xs == <<snap>>
             ms == as \o more
             most == ms \o bs
             end == bs \o xs
             news == more \o end
             Late == {"docs", "filter", "current", "snapshot"}
             Early == {"added", "docs", "filter", "current"}
  <2>1. more \in Seq(Messages) /\ \A i \in DOMAIN more : more[i].kind \in {"docs", "filter"}
    BY <1>2, <1>5, ReportsKinds
  <2>2. /\ as \in Seq(Messages) /\ \A i \in DOMAIN as : as[i].kind = "added"
        /\ bs \in Seq(Messages) /\ \A i \in DOMAIN bs : bs[i].kind = "current"
        /\ xs \in Seq(Messages) /\ \A i \in DOMAIN xs : xs[i].kind = "snapshot"
        /\ Append(responses, began) = responses \o as
        /\ <<done, snap>> = end
    <3>1. /\ as \in Seq(Messages) /\ \A i \in DOMAIN as : as[i] = began
          /\ Append(responses, began) = responses \o as
      BY <1>2, <1>6, OneMore
    <3>2. bs \in Seq(Messages) /\ \A i \in DOMAIN bs : bs[i] = done
      BY <1>2, <1>6, OneMore
    <3>3. xs \in Seq(Messages) /\ \A i \in DOMAIN xs : xs[i] = snap
      BY <1>2, <1>6, OneMore
    <3>4. <<done, snap>> = end
      <4>1. done \in Messages /\ snap \in Messages
        BY <1>6
      <4> QED  BY ONLY <4>1, TwoOfThem
    <3> HIDE DEF as, bs, xs
    <3> QED  BY <1>6, <3>1, <3>2, <3>3, <3>4
  <2>3. responses' = responses \o as \o more \o end /\ served' = UpToDate(ts)
    BY <1>1, <1>11, <2>2
  <2>4. Append(responses, began) \in Seq(Messages)
    BY <1>2, <1>6, OneMore
  <2>20. /\ \A i \in DOMAIN as : as[i].kind \in Early
         /\ \A i \in DOMAIN more : more[i].kind \in Early /\ more[i].kind \in Late
         /\ \A i \in DOMAIN bs : bs[i].kind \in Early /\ bs[i].kind \in Late
         /\ \A i \in DOMAIN xs : xs[i].kind \in Late
    BY <2>1, <2>2
  <2> HIDE DEF more, as, bs, xs, Late, Early
  <2>5. ms \in Seq(Messages) /\ \A i \in DOMAIN ms : ms[i].kind \in Early
    BY <2>1, <2>2, <2>20, TwoKinds
  <2>6. end \in Seq(Messages) /\ \A i \in DOMAIN end : end[i].kind \in Late
    BY <2>1, <2>2, <2>20, TwoKinds
  <2> HIDE DEF ms, end
  <2>7. most \in Seq(Messages) /\ \A i \in DOMAIN most : most[i].kind \in Early
    BY <2>2, <2>5, <2>20, TwoKinds
  <2>8. news \in Seq(Messages) /\ \A i \in DOMAIN news : news[i].kind \in Late
    BY <2>1, <2>6, <2>20, TwoKinds
  <2>21. Regrouping(responses, as, more, bs, xs)
    <3>1. responses \in Seq(Messages) /\ as \in Seq(Messages) /\ more \in Seq(Messages)
      BY <1>2, <2>1, <2>2
    <3>2. bs \in Seq(Messages) /\ xs \in Seq(Messages)
      BY <2>2
    <3> QED  BY <3>1, <3>2, Regrouped
  <2>9. responses' = Append(responses, began) \o news
    BY <2>2, <2>3, <2>21 DEF Regrouping, end
  <2>10. responses' = responses \o (most \o xs)
    BY <2>3, <2>21 DEF Regrouping, end, ms
  <2> HIDE DEF most, news
  <2>11. responses' \in Seq(Messages)
    BY <2>4, <2>8, <2>9
  <2>12. RemoteSound(rest, responses', stream, denied)
    <3>1. \A i \in DOMAIN news : news[i].kind \notin {"added", "removed"}
      BY <2>8 DEF Late
    <3> QED  BY <1>7, <2>4, <2>8, <2>9, <3>1, BesideSound
  <2>13. Ordered(responses', remote.updated, FALSE)
    <3>1. \A i \in DOMAIN most : most[i].kind # "error"
      BY <2>7 DEF Early
    <3>2. Ordered(responses, remote.updated, FALSE)
      BY <1>2, <1>11
    <3> QED  BY <1>2, <1>6, <2>7, <2>10, <3>1, <3>2, OrderedReport DEF xs
  <2>14. denied' = FALSE /\ denied = FALSE
    BY <1>1, <1>2, <1>11
  <2>15. Sound(Pair, responses, live, stream, denied)'
    BY <1>1, <1>2, <1>9, <2>12, PairNext
  <2>16. Types' /\ CallsInv'
    <3>1. served' \in Tables(Watched)
      BY <1>2, <1>5, <2>3, UpToDateType
    <3> QED  BY <1>1, <1>2, <2>11, <3>1 DEF Types, CallsInv, IsListening
  <2>17. OrderInv'
    BY <1>1, <1>7, <2>13, <2>14 DEF OrderInv
  <2>18. PursuitInv'
    BY <1>1, <1>2, <2>14, PairParts DEF PursuitInv, Mute, Pair, Pursued
  <2>19. Said(responses, t, responses')
    <3>1. responses' = Append(responses, began) \o (more \o <<done, snap>>)
      BY <2>2, <2>9 DEF news
    <3>2. responses' = responses \o (most \o <<snap>>)
      BY <2>10 DEF xs
    <3> HIDE DEF t
    <3> QED  BY <2>1, <2>7, <3>1, <3>2 DEF Said, began, done, snap
  <2> QED  BY <1>8, <2>15, <2>16, <2>17, <2>18, <2>19 DEF IInv, q
<1> QED  BY <1>10, <1>11

LEMMA DenyKeeps ==
    ASSUME IInv, Deny
    PROVE  IInv'
<1> DEFINE ids == Ascending(DOMAIN served)
           ended == Reverse(ids)
           more == [i \in DOMAIN ended |-> Ack("error", ended[i])]
<1>1. /\ UNCHANGED <<docs, changes, stream, remote, limbos, cache, synced, token, live, current,
                     limbo, seen, calls>>
      /\ ~denied /\ denied' = TRUE /\ served' = NoTargets /\ responses' = responses \o more
  BY DEF Deny, disk, view
<1>2. /\ Types /\ CallsInv /\ StreamInv /\ OrderInv /\ PursuitInv
      /\ RemoteSound(remote, responses, stream, denied)
      /\ limbos \in Limbos /\ Agree(remote, limbos, live) /\ responses \in Seq(Messages)
      /\ served \in Tables(Watched) /\ Ordered(responses, remote.updated, denied)
  BY Beginning DEF Types, OrderInv
<1>3. ids \in Seq(DOMAIN served) /\ DOMAIN served \subseteq Nat
  BY <1>2, TableFacts, AscendingFacts
<1>4. ended \in Seq(DOMAIN served)
  <2> HIDE DEF ids
  <2>1. Len(ids) \in Nat /\ \A i \in 1 .. Len(ids) : ids[(Len(ids) - i) + 1] \in DOMAIN served
    BY <1>3
  <2> QED  BY <2>1 DEF Reverse
<1> HIDE DEF ended
<1>5. /\ more \in Seq(Messages) /\ \A i \in DOMAIN more : more[i].kind = "error"
      /\ DOMAIN served = {} => more = <<>>
  <2>1. /\ DOMAIN ended = 1 .. Len(ended) /\ Len(ended) \in Nat
        /\ \A i \in DOMAIN ended : ended[i] \in DOMAIN served
    BY <1>4
  <2>2. \A i \in DOMAIN ended : /\ Ack("error", ended[i]) \in Messages
                                /\ Ack("error", ended[i]).kind = "error"
    BY <1>3, <2>1, AckType
  <2>3. more \in Seq(Messages) /\ \A i \in DOMAIN more : more[i].kind = "error"
    BY <2>1, <2>2
  <2>4. DOMAIN served = {} => DOMAIN more = {}
    BY <2>1
  <2> HIDE DEF more
  <2> QED  BY <2>3, <2>4
<1> HIDE DEF more
<1>6. /\ RemoteSound(remote, responses', stream, TRUE) /\ responses' \in Seq(Messages)
      /\ Ordered(responses', remote.updated, TRUE)
  BY <1>1, <1>2, <1>5, ErrorsSound
<1>7. Sound(Pair, responses, live, stream, denied)'
  BY <1>1, <1>2, <1>6, PairNext
<1>8. Types' /\ CallsInv'
  BY <1>1, <1>2, <1>6, EmptyTable DEF Types, CallsInv, IsListening
<1>9. StreamInv'
  BY <1>1, <1>2, <1>5, EmptyTable DEF StreamInv
<1>10. OrderInv'
  BY <1>1, <1>6, EmptyTable DEF OrderInv
<1>11. PursuitInv'
  BY <1>1, <1>2 DEF PursuitInv, Mute, Pair
<1> QED  BY <1>7, <1>8, <1>9, <1>10, <1>11 DEF IInv

LEMMA StutterKeeps ==
    ASSUME IInv, UNCHANGED vars
    PROVE  IInv'
<1>1. /\ UNCHANGED <<docs, denied, served, responses, stream, remote, limbos, cache>>
      /\ UNCHANGED <<synced, token, live, current, limbo, seen, changes, calls>>
  BY DEF vars, backend, disk, view
<1>2. Types' /\ CallsInv'
  BY <1>1 DEF IInv, Types, CallsInv, IsListening
<1>3. Sound(Pair, responses, live, stream, denied)'
  BY <1>1 DEF IInv, Pair
<1>4. StreamInv' /\ OrderInv'
  BY <1>1 DEF IInv, StreamInv, OrderInv
<1>5. PursuitInv'
  BY <1>1 DEF IInv, PursuitInv, Mute, Pair
<1> QED  BY <1>2, <1>3, <1>4, <1>5 DEF IInv

LEMMA NextKeeps == IInv /\ [Next]_vars => IInv'
<1> SUFFICES ASSUME IInv, [Next]_vars
             PROVE  IInv'
  OBVIOUS
<1>1. ASSUME NEW c \in Calls, FirstCall(c)
      PROVE  IInv'
  BY <1>1, FirstCallKeeps
<1>2. ASSUME NEW c \in Calls, LaterCall(c)
      PROVE  IInv'
  BY <1>2, LaterCallKeeps
<1>3. ASSUME NEW c \in Calls, RemoveQueryListener(c)
      PROVE  IInv'
  BY <1>3, RemoveQueryListenerKeeps
<1>4. CASE OnWatchStreamOpen
  BY <1>4, OnWatchStreamOpenKeeps
<1>5. CASE OnWatchStreamClose
  BY <1>5, OnWatchStreamCloseKeeps
<1>6. CASE IdleTimeout
  BY <1>6, IdleTimeoutKeeps
<1>7. CASE OnlineStateTimeout
  BY <1>7, OnlineStateTimeoutKeeps
<1>8. CASE GatherWatchChange
  BY <1>8, GatherWatchChangeKeeps
<1>9. CASE RaiseWatchSnapshot
  BY <1>9, RaiseWatchSnapshotKeeps
<1>10. CASE ProcessTargetError
  BY <1>10, ProcessTargetErrorKeeps
<1>11. CASE RestartNetwork
  BY <1>11, RestartNetworkKeeps
<1>12. CASE Die
  BY <1>12, DieKeeps
<1>13. CASE AnswerUnwatch
  BY <1>13, AnswerUnwatchKeeps
<1>14. ASSUME NEW how, AnswerWatch(how)
       PROVE  IInv'
  BY <1>14, AnswerWatchKeeps
<1>15. ASSUME NEW how, ReportChanges(how)
       PROVE  IInv'
  BY <1>15, ReportChangesKeeps
<1>16. ASSUME NEW k \in Keys, Change(k)
       PROVE  IInv'
  BY <1>16, ChangeKeeps
<1>17. CASE Deny
  BY <1>17, DenyKeeps
<1>18. CASE UNCHANGED vars
  BY <1>18, StutterKeeps
<1> QED  BY <1>1, <1>2, <1>3, <1>4, <1>5, <1>6, <1>7, <1>8, <1>9, <1>10, <1>11, <1>12, <1>13,
            <1>14, <1>15, <1>16, <1>17, <1>18 DEF Next

--------------------------------------------------------------------------------
(* The answer a call waits for                                             *)

SnapshotAfter(ms, i) == \E j \in DOMAIN ms : j > i /\ ms[j].kind = "snapshot"

(* What the messages under way bring the query: an error; no answer to a   *)
(* request of its own; or, after the last such answer, that it is current, *)
(* and the snapshot that says so to the view.                              *)
Ended(ms) == \E i \in DOMAIN ms : ms[i].kind = "error" /\ ms[i].target = Query
NoAcks(ms) == \A i \in DOMAIN ms : ~IsAck(ms[i])
WillConfirm(ms) ==
    \E i \in DOMAIN ms :
      /\ ms[i].kind = "current" /\ ms[i].target = Query /\ SnapshotAfter(ms, i)
      /\ \A j \in DOMAIN ms : j > i => ~IsAck(ms[j])
Filtered(ms) == \A i \in DOMAIN ms : ms[i].kind = "filter" => SnapshotAfter(ms, i)

(* The query is current for the remote store, and the view knows it or     *)
(* will; or the query was reset, and will be watched again.                *)
Confirmed(r, ms, cur) ==
    Ensure(r, Query).current /\ NoAcks(ms) /\ (Snapped(ms) \/ (cur /\ ~r.timer))
WillReset(r, ms) == r.resets # {} /\ Snapped(ms)
Promised(r, ms, cur) == WillConfirm(ms) \/ Confirmed(r, ms, cur) \/ WillReset(r, ms)

FiltersInv == ~denied => Filtered(responses)

(* A view whose stream is open is being asked for, is about to be told of  *)
(* its end, or is served and is, or will be, current.                      *)
FollowedInv ==
    live /\ stream = "open" =>
      \/ Asking(remote.sent)
      \/ denied /\ Ended(responses)
      \/ /\ ~denied /\ NoRequests(remote.sent) /\ Query \in DOMAIN served
         /\ Promised(remote, responses, current)

(* A call that waits has a view that is not in sync.                       *)
WaitingInv == \A c \in Calls : calls[c] = "waiting" => live /\ ~(current /\ limbo = {})

AnswerInv == FiltersInv /\ FollowedInv /\ WaitingInv

LEMMA AnswersTail ==
    ASSUME NEW ms \in Seq(Messages), ms # <<>>
    PROVE  LET m == Head(ms) IN
           /\ Ended(ms) => Ended(Tail(ms)) \/ (m.kind = "error" /\ m.target = Query)
           /\ NoAcks(ms) => NoAcks(Tail(ms)) /\ ~IsAck(m)
           /\ Snapped(ms) => Snapped(Tail(ms)) \/ m.kind = "snapshot"
           /\ WillConfirm(ms) =>
                \/ WillConfirm(Tail(ms))
                \/ m.kind = "current" /\ m.target = Query /\ Snapped(Tail(ms)) /\ NoAcks(ms)
           /\ Filtered(ms) => Filtered(Tail(ms)) /\ (m.kind = "filter" => Snapped(Tail(ms)))
<1> DEFINE m == Head(ms)
           rest == Tail(ms)
<1>1. /\ m = ms[1] /\ 1 \in DOMAIN ms
      /\ \A i \in DOMAIN ms : /\ i \in Nat
                              /\ i = 1 \/ (i > 1 /\ i - 1 \in DOMAIN rest /\ ms[i] = rest[i - 1])
      /\ \A i \in DOMAIN rest : i \in Nat /\ i > 0 /\ i + 1 \in DOMAIN ms /\ ms[i + 1] = rest[i]
  BY TailFacts
<1> HIDE DEF m, rest
<1>2. ASSUME NEW i \in DOMAIN ms, SnapshotAfter(ms, i)
      PROVE  Snapped(rest) /\ (i # 1 => SnapshotAfter(rest, i - 1))
  <2>1. PICK j \in DOMAIN ms : j > i /\ ms[j].kind = "snapshot"
    BY <1>2 DEF SnapshotAfter
  <2>2. j - 1 \in DOMAIN rest /\ rest[j - 1].kind = "snapshot" /\ j - 1 > i - 1
    BY <1>1, <2>1
  <2> QED  BY <2>2 DEF Snapped, SnapshotAfter
<1>3. Ended(ms) => Ended(rest) \/ (m.kind = "error" /\ m.target = Query)
  BY <1>1 DEF Ended
<1>4. NoAcks(ms) => NoAcks(rest) /\ ~IsAck(m)
  BY <1>1 DEF NoAcks
<1>5. Snapped(ms) => Snapped(rest) \/ m.kind = "snapshot"
  BY <1>1 DEF Snapped
<1>6. ASSUME WillConfirm(ms)
      PROVE  \/ WillConfirm(rest)
             \/ m.kind = "current" /\ m.target = Query /\ Snapped(rest) /\ NoAcks(ms)
  <2>1. PICK i \in DOMAIN ms :
          /\ ms[i].kind = "current" /\ ms[i].target = Query /\ SnapshotAfter(ms, i)
          /\ \A j \in DOMAIN ms : j > i => ~IsAck(ms[j])
    BY <1>6 DEF WillConfirm
  <2>2. CASE i = 1
    <3>1. ~IsAck(m)
      BY <1>1, <2>1, <2>2 DEF IsAck
    <3>2. NoAcks(ms)
      BY <1>1, <2>1, <2>2, <3>1 DEF NoAcks
    <3> QED  BY <1>1, <1>2, <2>1, <2>2, <3>2
  <2>3. CASE i # 1
    <3>1. i - 1 \in DOMAIN rest /\ rest[i - 1] = ms[i] /\ SnapshotAfter(rest, i - 1)
      BY <1>1, <1>2, <2>1, <2>3
    <3>2. \A j \in DOMAIN rest : j > i - 1 => ~IsAck(rest[j])
      BY <1>1, <2>1
    <3> QED  BY <2>1, <3>1, <3>2 DEF WillConfirm
  <2> QED  BY <2>2, <2>3
<1>7. ASSUME Filtered(ms)
      PROVE  Filtered(rest) /\ (m.kind = "filter" => Snapped(rest))
  <2>1. ASSUME NEW i \in DOMAIN rest, rest[i].kind = "filter"
        PROVE  SnapshotAfter(rest, i)
    <3>1. SnapshotAfter(ms, i + 1) /\ i + 1 \in DOMAIN ms /\ i + 1 # 1 /\ (i + 1) - 1 = i
      BY <1>1, <1>7, <2>1 DEF Filtered
    <3> QED  BY <1>2, <3>1
  <2>2. m.kind = "filter" => Snapped(rest)
    BY <1>1, <1>2, <1>7 DEF Filtered
  <2> QED  BY <2>1, <2>2 DEF Filtered
<1> QED  BY <1>3, <1>4, <1>5, <1>6, <1>7 DEF m, rest

LEMMA AnswersMore ==
    ASSUME NEW ms \in Seq(Messages), NEW more \in Seq(Messages)
    PROVE  /\ Ended(ms) \/ Ended(more) => Ended(ms \o more)
           /\ Snapped(ms) \/ Snapped(more) => Snapped(ms \o more)
           /\ NoAcks(ms) /\ NoAcks(more) => NoAcks(ms \o more)
           /\ WillConfirm(ms) /\ NoAcks(more) => WillConfirm(ms \o more)
           /\ WillConfirm(more) => WillConfirm(ms \o more)
           /\ Filtered(ms) /\ Filtered(more) => Filtered(ms \o more)
<1> DEFINE all == ms \o more
           n == Len(ms)
<1>1. /\ \A i \in DOMAIN ms : i \in DOMAIN all /\ all[i] = ms[i]
      /\ \A i \in DOMAIN more : i + n \in DOMAIN all /\ all[i + n] = more[i]
      /\ \A i \in DOMAIN all : i \in DOMAIN ms \/ i - n \in DOMAIN more
      /\ \A i \in DOMAIN ms : i \in Nat /\ i <= n
      /\ \A i \in DOMAIN more : i \in Nat /\ i > 0
      /\ n \in Nat /\ \A i \in DOMAIN all : i \in Nat
  BY AppendedFacts
<1> HIDE DEF all, n
<1>2. /\ \A i \in DOMAIN ms : SnapshotAfter(ms, i) => SnapshotAfter(all, i)
      /\ \A i \in DOMAIN more : SnapshotAfter(more, i) => SnapshotAfter(all, i + n)
  BY <1>1 DEF SnapshotAfter
<1>3. Ended(ms) \/ Ended(more) => Ended(all)
  BY <1>1 DEF Ended
<1>4. Snapped(ms) \/ Snapped(more) => Snapped(all)
  BY <1>1 DEF Snapped
<1>5. \A i \in DOMAIN all : i \in DOMAIN ms \/ (i - n \in DOMAIN more /\ all[i] = more[i - n])
  <2> SUFFICES ASSUME NEW i \in DOMAIN all, i - n \in DOMAIN more
               PROVE  all[i] = more[i - n]
    BY <1>1
  <2>1. (i - n) + n = i /\ all[(i - n) + n] = more[i - n]
    BY <1>1
  <2> QED  BY <2>1
<1>6. NoAcks(ms) /\ NoAcks(more) => NoAcks(all)
  BY <1>1, <1>5 DEF NoAcks
<1>7. ASSUME WillConfirm(ms), NoAcks(more)
      PROVE  WillConfirm(all)
  <2>1. PICK i \in DOMAIN ms :
          /\ ms[i].kind = "current" /\ ms[i].target = Query /\ SnapshotAfter(ms, i)
          /\ \A j \in DOMAIN ms : j > i => ~IsAck(ms[j])
    BY <1>7 DEF WillConfirm
  <2>2. \A j \in DOMAIN all : j > i => ~IsAck(all[j])
    BY <1>1, <1>5, <1>7, <2>1 DEF NoAcks
  <2> QED  BY <1>1, <1>2, <2>1, <2>2 DEF WillConfirm
<1>8. ASSUME WillConfirm(more)
      PROVE  WillConfirm(all)
  <2>1. PICK i \in DOMAIN more :
          /\ more[i].kind = "current" /\ more[i].target = Query /\ SnapshotAfter(more, i)
          /\ \A j \in DOMAIN more : j > i => ~IsAck(more[j])
    BY <1>8 DEF WillConfirm
  <2>2. ASSUME NEW j \in DOMAIN all, j > i + n
        PROVE  ~IsAck(all[j])
    <3>1. j \notin DOMAIN ms
      BY <1>1, <2>2
    <3>2. j - n \in DOMAIN more /\ all[j] = more[j - n] /\ j - n > i
      BY <1>1, <1>5, <2>2, <3>1
    <3> QED  BY <2>1, <3>2
  <2> QED  BY <1>1, <1>2, <2>1, <2>2 DEF WillConfirm
<1>9. ASSUME Filtered(ms), Filtered(more)
      PROVE  Filtered(all)
  <2>1. ASSUME NEW i \in DOMAIN all, all[i].kind = "filter"
        PROVE  SnapshotAfter(all, i)
    <3>1. CASE i \in DOMAIN ms
      BY <1>1, <1>2, <1>9, <2>1, <3>1 DEF Filtered
    <3>2. CASE i \notin DOMAIN ms
      <4>1. i - n \in DOMAIN more /\ all[i] = more[i - n] /\ (i - n) + n = i
        BY <1>1, <1>5, <3>2
      <4> QED  BY <1>2, <1>9, <2>1, <4>1 DEF Filtered
    <3> QED  BY <3>1, <3>2
  <2> QED  BY <2>1 DEF Filtered
<1> QED  BY <1>3, <1>4, <1>6, <1>7, <1>8, <1>9 DEF all

(* A report ends with a snapshot, and with it all that it says.            *)
LEMMA AnswersReport ==
    ASSUME NEW more \in Seq(Messages), NEW x \in Messages, x.kind = "snapshot"
    PROVE  Filtered(more \o <<x>>)
<1> DEFINE one == <<x>>
           all == more \o one
           n == Len(more)
<1>1. one \in Seq(Messages) /\ 1 \in DOMAIN one /\ one[1] = x /\ DOMAIN one = {1}
  OBVIOUS
<1> HIDE DEF one
<1>2. /\ \A i \in DOMAIN all : i \in DOMAIN more \/ i - n \in DOMAIN one
      /\ \A i \in DOMAIN more : i \in Nat /\ i <= n
      /\ 1 + n \in DOMAIN all /\ all[1 + n] = x
      /\ n \in Nat /\ \A i \in DOMAIN all : i \in Nat
  BY <1>1, AppendedFacts
<1> HIDE DEF all, n
<1>3. ASSUME NEW i \in DOMAIN all, all[i].kind = "filter"
      PROVE  SnapshotAfter(all, i)
  <2>1. i # 1 + n
    BY <1>2, <1>3
  <2>2. i < 1 + n
    BY <1>1, <1>2, <2>1
  <2> QED  BY <1>2, <2>2 DEF SnapshotAfter
<1> QED  BY <1>3 DEF Filtered, all, one

(* Nothing is to come for a query nobody asks or answers for.              *)
LEMMA NothingAsked ==
    ASSUME NEW r, NEW ms \in Seq(Messages), NEW st, RemoteSound(r, ms, st, FALSE),
           NoRequests(r.sent), NoAcks(ms)
    PROVE  Ensure(r, Query).outstanding = 0
<1>1. Ensure(r, Query).outstanding = ToCome(r, ms, Query)
  BY DEF RemoteSound, Counted, Query
<1>2. Among(r.sent, RequestsFor(Query)) = {}
  BY DEF NoRequests, Among, RequestsFor
<1>3. Among(ms, AcksOf(Query)) = {}
  BY DEF NoAcks, IsAck, Among, AcksOf
<1> QED  BY <1>1, <1>2, <1>3, FS_EmptySet DEF ToCome

LEMMA StillWaiting ==
    ASSUME NEW c \in Calls, NEW insync, NEW online,
           calls' = Answered(insync, online), calls'[c] = "waiting"
    PROVE  calls[c] = "waiting" /\ ~insync /\ online # "Offline"
BY DEF Answered

LEMMA InitAnswers == Init => AnswerInv
<1> SUFFICES ASSUME Init
             PROVE  AnswerInv
  OBVIOUS
<1>1. responses = <<>> /\ ~live /\ calls = [c \in Calls |-> "new"]
  BY DEF Init
<1>2. FiltersInv
  BY <1>1 DEF FiltersInv, Filtered
<1>3. FollowedInv
  BY <1>1 DEF FollowedInv
<1>4. WaitingInv
  BY <1>1 DEF WaitingInv
<1> QED  BY <1>2, <1>3, <1>4 DEF AnswerInv

LEMMA FirstCallAnswers ==
    ASSUME IInv, AnswerInv, NEW c \in Calls, FirstCall(c)
    PROVE  AnswerInv'
<1> DEFINE q == Watch(Query, Keys, token)
           g == With(remote.targets, Query, token)
           added == [remote EXCEPT !.targets = g]
<1>1. /\ denied' = denied /\ responses' = responses /\ live' = TRUE /\ current' = FALSE
      /\ \/ stream' = "starting"
         \/ stream' = stream /\ remote' = Listen(remote, Query, Keys, token)
  BY DEF FirstCall, backend
<1>2. remote \in Remotes /\ token \in Tokens /\ Query \in Nat /\ Keys \in SUBSET Keys
  BY Beginning DEF Types, Query
<1>3. FiltersInv'
  BY <1>1 DEF AnswerInv, FiltersInv
<1>4. WaitingInv'
  BY <1>1 DEF WaitingInv
<1>5. ASSUME stream = "open", remote' = Listen(remote, Query, Keys, token)
      PROVE  Asking(remote'.sent)
  <2>1. q \in Requests /\ q.target = Query
    BY <1>2, RequestTypes
  <2>2. AskFor(q)
    BY DEF AskFor, Watch
  <2>3. remote' = Send(added, Query, q)
    BY <1>5 DEF Listen
  <2>4. g \in Tables(Tokens)
    <3>1. remote.targets \in Tables(Tokens)
      BY <1>2 DEF Remotes
    <3> QED  BY <1>2, <3>1, WithTable
  <2> HIDE DEF q, g
  <2>5. added \in Remotes
    BY <1>2, <2>4 DEF Remotes
  <2> HIDE DEF added
  <2>6. remote'.sent = Append(added.sent, q) /\ added.sent \in Seq(Requests)
    <3>1. Send(added, Query, q).sent = Append(added.sent, q)
      BY <1>2, <2>1, <2>5, SendFacts
    <3> QED  BY <2>3, <2>5, <3>1 DEF Remotes
  <2> QED  BY <2>1, <2>2, <2>6, AskingAppend
<1>6. FollowedInv'
  BY <1>1, <1>5 DEF FollowedInv
<1> QED  BY <1>3, <1>4, <1>6 DEF AnswerInv

LEMMA LaterCallAnswers ==
    ASSUME IInv, AnswerInv, NEW c \in Calls, LaterCall(c)
    PROVE  AnswerInv'
<1>1. /\ UNCHANGED <<denied, served, responses, stream, remote, live, current, limbo>>
      /\ calls' = [calls EXCEPT ![c] = IF current /\ limbo = {} THEN "server"
                                       ELSE IF remote.online = "Offline" THEN "cache"
                                       ELSE "waiting"]
      /\ live
  BY DEF LaterCall, backend, view
<1>3. calls \in Outcomes
  BY Beginning DEF Types
<1>4. WaitingInv'
  <2> SUFFICES ASSUME NEW d \in Calls, calls'[d] = "waiting"
               PROVE  live /\ ~(current /\ limbo = {})
    BY <1>1 DEF WaitingInv
  <2>1. CASE d = c
    BY <1>1, <1>3, <2>1 DEF Outcomes
  <2>2. CASE d # c
    BY <1>1, <1>3, <2>2 DEF Outcomes, AnswerInv, WaitingInv
  <2> QED  BY <2>1, <2>2
<1>5. FiltersInv' /\ FollowedInv'
  BY <1>1 DEF AnswerInv, FiltersInv, FollowedInv
<1> QED  BY <1>4, <1>5 DEF AnswerInv

LEMMA RemoveQueryListenerAnswers ==
    ASSUME IInv, AnswerInv, NEW c \in Calls, RemoveQueryListener(c)
    PROVE  AnswerInv'
<1>1. /\ UNCHANGED <<denied, served, responses, stream>>
      /\ calls' = [calls EXCEPT ![c] = "gone"]
  BY DEF RemoveQueryListener, backend
<1>2. calls \in Outcomes
  BY Beginning DEF Types
<1>3. \A d \in Calls : calls'[d] = "waiting" => d # c /\ calls[d] = "waiting"
  BY <1>1, <1>2 DEF Outcomes
<1>4. FiltersInv'
  BY <1>1 DEF AnswerInv, FiltersInv
<1>5. CASE \E d \in Calls \ {c} : IsListening(d)
  <2>1. UNCHANGED <<remote, live, current, limbo>>
    BY <1>5 DEF RemoveQueryListener, view
  <2>2. FollowedInv'
    BY <1>1, <2>1 DEF AnswerInv, FollowedInv
  <2>3. WaitingInv'
    BY <1>3, <2>1 DEF AnswerInv, WaitingInv
  <2> QED  BY <1>4, <2>2, <2>3 DEF AnswerInv
<1>6. CASE ~ \E d \in Calls \ {c} : IsListening(d)
  <2>1. live' = FALSE
    BY <1>6 DEF RemoveQueryListener, RemoveAndCleanupTarget
  <2>2. \A d \in Calls : calls'[d] # "waiting"
    BY <1>3, <1>6 DEF IsListening
  <2> QED  BY <1>4, <2>1, <2>2 DEF AnswerInv, FollowedInv, WaitingInv
<1> QED  BY <1>5, <1>6

LEMMA OnWatchStreamOpenAnswers ==
    ASSUME IInv, AnswerInv, OnWatchStreamOpen
    PROVE  AnswerInv'
<1>1. /\ UNCHANGED <<denied, responses, live, current, limbo, calls>>
      /\ stream = "starting" /\ remote' = WatchAll(remote)
  BY DEF OnWatchStreamOpen, backend, view
<1>2. /\ RemoteSound(remote, responses, stream, denied) /\ limbos \in Limbos
      /\ Agree(remote, limbos, live) /\ live \in BOOLEAN /\ responses \in Seq(Messages)
  BY Beginning DEF Types
<1>3. ASSUME live
      PROVE  Asking(remote'.sent)
  <2>1. remote.sent = <<>>
    BY <1>1, <1>2 DEF RemoteSound
  <2>2. Query \in DOMAIN remote.targets
    BY <1>2, <1>3 DEF Agree
  <2> QED  BY <1>1, <1>2, <2>1, <2>2, WatchAllSound
<1>4. FiltersInv' /\ WaitingInv'
  BY <1>1 DEF AnswerInv, FiltersInv, WaitingInv
<1>5. FollowedInv'
  BY <1>1, <1>3 DEF FollowedInv
<1> QED  BY <1>4, <1>5 DEF AnswerInv

LEMMA StreamGoneAnswers ==
    ASSUME AnswerInv, NEW s, Broadcast(s), responses' = <<>>, UNCHANGED <<live, limbo>>,
           stream' # "open"
    PROVE  AnswerInv'
<1>1. calls' = Answered(FALSE, s.online) /\ (current' => current)
  BY DEF Broadcast
<1>2. FiltersInv'
  BY DEF FiltersInv, Filtered
<1>3. FollowedInv'
  BY DEF FollowedInv
<1>4. WaitingInv'
  BY <1>1, StillWaiting DEF AnswerInv, WaitingInv
<1> QED  BY <1>2, <1>3, <1>4 DEF AnswerInv

LEMMA OnWatchStreamCloseAnswers ==
    ASSUME AnswerInv, OnWatchStreamClose
    PROVE  AnswerInv'
<1>1. /\ UNCHANGED <<live, limbo>> /\ responses' = <<>> /\ stream' # "open"
      /\ \E s : Broadcast(s)
  BY DEF OnWatchStreamClose
<1> QED  BY <1>1, StreamGoneAnswers

LEMMA IdleTimeoutAnswers ==
    ASSUME AnswerInv, IdleTimeout
    PROVE  AnswerInv'
<1>1. /\ UNCHANGED <<live, limbo>> /\ responses' = <<>> /\ stream' # "open"
      /\ \E s : Broadcast(s)
  BY DEF IdleTimeout
<1> QED  BY <1>1, StreamGoneAnswers

LEMMA RestartNetworkAnswers ==
    ASSUME AnswerInv, RestartNetwork
    PROVE  AnswerInv'
<1>1. /\ UNCHANGED <<live, limbo>> /\ responses' = <<>> /\ stream' # "open"
      /\ \E s : Broadcast(s)
  BY DEF RestartNetwork
<1> QED  BY <1>1, StreamGoneAnswers

(* Offline, no call waits; and the view has given up being current before  *)
(* anything was confirmed.                                                 *)
LEMMA OnlineStateTimeoutAnswers ==
    ASSUME IInv, AnswerInv, OnlineStateTimeout
    PROVE  AnswerInv'
<1> DEFINE s == [remote EXCEPT !.timer = FALSE, !.online = "Offline"]
<1>1. /\ UNCHANGED <<denied, served, responses, stream, live, limbo>>
      /\ remote.timer /\ remote' = s /\ calls' = Answered(FALSE, s.online)
  BY DEF OnlineStateTimeout, Broadcast, backend
<1>2. remote \in Remotes
  BY Beginning
<1>3. /\ s.states = remote.states /\ s.sent = remote.sent /\ s.resets = remote.resets
      /\ s.online = "Offline"
  BY <1>2 DEF Remotes
<1> HIDE DEF s
<1>4. Ensure(s, Query) = Ensure(remote, Query)
  BY <1>3 DEF Ensure
<1>5. Promised(remote, responses, current) => Promised(s, responses, current')
  BY <1>1, <1>3, <1>4 DEF Promised, Confirmed, WillReset
<1>6. FollowedInv'
  BY <1>1, <1>3, <1>5 DEF AnswerInv, FollowedInv
<1>7. WaitingInv'
  BY <1>1, <1>3, StillWaiting DEF WaitingInv
<1>8. FiltersInv'
  BY <1>1 DEF AnswerInv, FiltersInv
<1> QED  BY <1>6, <1>7, <1>8 DEF AnswerInv

LEMMA DieAnswers ==
    ASSUME Die
    PROVE  AnswerInv'
<1>1. /\ responses' = <<>> /\ live' = FALSE
      /\ calls' = [c \in Calls |-> IF calls[c] = "new" THEN "new" ELSE "gone"]
  BY DEF Die
<1>2. FiltersInv'
  BY <1>1 DEF FiltersInv, Filtered
<1>3. WaitingInv'
  BY <1>1 DEF WaitingInv
<1> QED  BY <1>1, <1>2, <1>3 DEF AnswerInv, FollowedInv

LEMMA ChangeAnswers ==
    ASSUME AnswerInv, NEW k \in Keys, Change(k)
    PROVE  AnswerInv'
<1>1. UNCHANGED <<denied, served, responses, stream, remote, live, current, limbo, calls>>
  BY DEF Change
<1> QED  BY <1>1 DEF AnswerInv, FiltersInv, FollowedInv, WaitingInv

LEMMA StutterAnswers ==
    ASSUME AnswerInv, UNCHANGED vars
    PROVE  AnswerInv'
<1>1. UNCHANGED <<denied, served, responses, stream, remote, live, current, limbo, calls>>
  BY DEF vars, backend, view
<1> QED  BY <1>1 DEF AnswerInv, FiltersInv, FollowedInv, WaitingInv

(* A message is gathered: what confirms the query is not undone by what    *)
(* comes before it, and a filter that resets the query is followed by the  *)
(* snapshot that has it watched again.                                     *)
LEMMA GatherWatchChangeAnswers ==
    ASSUME IInv, AnswerInv, GatherWatchChange
    PROVE  AnswerInv'
<1> DEFINE m == Head(responses)
           rest == Tail(responses)
           r == UpdateState(remote, "Online")
<1>1. /\ UNCHANGED <<denied, served, stream, live, current, limbo, calls>>
      /\ responses # <<>> /\ responses' = rest
      /\ m.kind \in {"added", "removed", "current", "docs", "filter"}
      /\ m.kind = "docs" => remote' = HandleDocumentChange(r, m)
      /\ m.kind = "filter" => remote' = HandleExistenceFilter(r, m)
      /\ m.kind \in {"added", "removed", "current"} => remote' = HandleTargetChange(r, m)
  BY DEF GatherWatchChange, backend, view
<1>2. /\ limbos \in Limbos /\ Agree(remote, limbos, live) /\ responses \in Seq(Messages)
      /\ synced \in SUBSET Keys /\ denied \in BOOLEAN
      /\ Ordered(responses, remote.updated, denied)
  BY Beginning DEF Types, OrderInv
<1>3. /\ stream = "open" /\ m \in Messages
      /\ RemoteSound(r, responses, stream, denied) /\ r \in Remotes
      /\ r.targets = remote.targets /\ r.sent = remote.sent /\ r.resets = remote.resets
      /\ r.states = remote.states /\ ~r.timer
  BY <1>1, Reading
<1>4. Agree(r, limbos, live) /\ Ensure(r, Query) = Ensure(remote, Query)
  BY <1>2, <1>3, AgreeSame DEF Ensure
<1> HIDE DEF r
<1>5. /\ remote'.sent = r.sent /\ r.resets \subseteq remote'.resets /\ ~remote'.timer
      /\ \/ ~IsAck(m) /\ Ensure(r, Query).current => Ensure(remote', Query).current
         \/ m.kind \in {"docs", "filter"} /\ remote'.resets # {}
      /\ m.kind = "current" /\ m.target = Query /\ IsActiveTarget(r, Query)
           => Ensure(remote', Query).current
  <2>1. CASE m.kind = "docs"
    <3>1. m \in DocsMessages
      BY <1>3, <2>1, MessageKinds
    <3>2. Gathered(remote', r)
      BY <1>1, <1>3, <2>1, <3>1, HandleDocumentChangeGathers
    <3> QED  BY <1>3, <2>1, <3>2 DEF Gathered
  <2>2. CASE m.kind = "filter"
    <3>1. m \in Filters
      BY <1>3, <2>2, MessageKinds
    <3>2. Gathered(remote', r)
      BY <1>1, <1>2, <1>3, <1>4, <2>2, <3>1, HandleExistenceFilterGathers
    <3> QED  BY <1>3, <2>2, <3>2 DEF Gathered
  <2>3. CASE m.kind \in {"added", "removed", "current"}
    <3>1. m \in Acks /\ m.kind # "error"
      BY <1>3, <2>3, MessageKinds
    <3> HIDE DEF m
    <3> QED  BY <1>1, <1>3, <2>3, <3>1, HandleTargetChangeQuery
  <2> QED  BY <1>1, <2>1, <2>2, <2>3
<1>6. /\ Ended(responses) => Ended(rest)
      /\ NoAcks(responses) => NoAcks(rest) /\ ~IsAck(m)
      /\ Snapped(responses) => Snapped(rest)
      /\ WillConfirm(responses) =>
           \/ WillConfirm(rest)
           \/ m.kind = "current" /\ m.target = Query /\ Snapped(rest) /\ NoAcks(responses)
      /\ Filtered(responses) => Filtered(rest) /\ (m.kind = "filter" => Snapped(rest))
  BY <1>1, <1>2, AnswersTail
<1>7. m.kind = "docs" => Snapped(rest)
  <2>1. m = responses[1] /\ 1 \in DOMAIN responses
        /\ \A i \in DOMAIN responses : i > 1 => i - 1 \in DOMAIN rest /\ responses[i] = rest[i - 1]
    BY <1>1, <1>2, TailFacts
  <2> HIDE DEF m, rest
  <2> QED  BY <1>2, <2>1 DEF Ordered, Snapped
<1> HIDE DEF m, rest
<1>8. ASSUME live, ~denied, NoRequests(remote.sent), Promised(remote, responses, current)
      PROVE  Promised(remote', rest, current)
  <2>1. Filtered(responses)
    BY <1>8 DEF AnswerInv, FiltersInv
  <2>2. CASE WillReset(remote, responses)
    BY <1>3, <1>5, <1>6, <2>2 DEF Promised, WillReset
  <2>3. CASE Confirmed(remote, responses, current)
    <3>1. /\ Ensure(r, Query).current /\ NoAcks(rest) /\ ~IsAck(m)
          /\ Snapped(rest) \/ current
      BY <1>4, <1>6, <2>3 DEF Confirmed
    <3>2. CASE Ensure(remote', Query).current
      BY <1>5, <3>1, <3>2 DEF Promised, Confirmed
    <3>3. CASE m.kind \in {"docs", "filter"} /\ remote'.resets # {}
      BY <1>6, <1>7, <2>1, <3>3 DEF Promised, WillReset
    <3> QED  BY <1>5, <3>1, <3>2, <3>3
  <2>4. CASE WillConfirm(responses)
    <3>1. CASE WillConfirm(rest)
      BY <3>1 DEF Promised
    <3>2. CASE /\ m.kind = "current" /\ m.target = Query /\ Snapped(rest)
               /\ NoAcks(responses)
      <4>1. RemoteSound(r, responses, stream, FALSE)
        BY <1>2, <1>3, <1>8
      <4>2. NoRequests(r.sent)
        BY <1>3, <1>8
      <4>3. Ensure(r, Query).outstanding = 0
        BY <1>2, <3>2, <4>1, <4>2, NothingAsked
      <4>4. IsActiveTarget(r, Query)
        BY <1>4, <1>8, <4>3 DEF IsActiveTarget, Agree
      <4>5. Ensure(remote', Query).current
        BY <1>5, <3>2, <4>4
      <4> QED  BY <1>6, <3>2, <4>5 DEF Promised, Confirmed
    <3> QED  BY <1>6, <2>4, <3>1, <3>2
  <2> QED  BY <1>8, <2>2, <2>3, <2>4 DEF Promised
<1>9. FollowedInv'
  BY <1>1, <1>3, <1>5, <1>6, <1>8 DEF AnswerInv, FollowedInv
<1>10. FiltersInv' /\ WaitingInv'
  BY <1>1, <1>6 DEF AnswerInv, FiltersInv, WaitingInv
<1> QED  BY <1>9, <1>10 DEF AnswerInv

(* The snapshot tells the view what the remote store knows of the query,   *)
(* or has the query watched again.                                         *)
LEMMA RaiseWatchSnapshotAnswers ==
    ASSUME IInv, AnswerInv, RaiseWatchSnapshot
    PROVE  AnswerInv'
<1> DEFINE m == Head(responses)
           rest == Tail(responses)
           r == UpdateState(remote, "Online")
           s == Ensure(r, Query)
           q == AfterEvent(r, m.docs)
           cur == IF ForQuery(r) THEN s.current ELSE current
           now == IF live /\ cur THEN KeysOf(cache') \ synced' ELSE limbo
<1>1. /\ UNCHANGED <<denied, served, stream, live>>
      /\ responses # <<>> /\ responses' = rest /\ m.kind = "snapshot"
      /\ current' = cur /\ limbo' = now
      /\ \E online : calls' = Answered(live /\ cur /\ now = {}, online)
  BY DEF RaiseWatchSnapshot, EmitNewSnapshots, backend
<1>2. /\ limbos \in Limbos /\ Agree(remote, limbos, live) /\ responses \in Seq(Messages)
      /\ denied \in BOOLEAN
  BY Beginning DEF Types
<1>3. /\ stream = "open" /\ m \in Messages
      /\ RemoteSound(r, responses, stream, denied) /\ r \in Remotes
      /\ r.targets = remote.targets /\ r.sent = remote.sent /\ r.resets = remote.resets
      /\ r.states = remote.states /\ ~r.timer
  BY <1>1, Reading
<1>4. Ensure(r, Query) = Ensure(remote, Query) /\ s \in TargetStates
  BY <1>3, EnsureType DEF Ensure
<1>5. QueryKept(remote', q)
  BY RaiseWatchSnapshotKeeps
<1> HIDE DEF r, now
<1>6. /\ ~q.timer
      /\ IF r.resets \cap DOMAIN r.targets # {} THEN Asking(q.sent)
         ELSE q.sent = r.sent /\ Ensure(q, Query).current = Ensure(r, Query).current
  <2>1. m.docs \in Collections
    <3>1. m \in Snapshots
      BY <1>1, <1>3, MessageKinds
    <3> QED  BY <3>1 DEF Snapshots
  <2>2. RemoteSound(r, responses, "open", denied)
    BY <1>3
  <2> DEFINE d == m.docs
  <2> HIDE DEF d
  <2>3. d \in Collections
    BY <2>1 DEF d
  <2>4. /\ AfterEvent(r, d).timer = r.timer
        /\ IF r.resets \cap DOMAIN r.targets # {} THEN Asking(AfterEvent(r, d).sent)
           ELSE /\ AfterEvent(r, d).sent = r.sent
                /\ Ensure(AfterEvent(r, d), Query).current = Ensure(r, Query).current
    BY <1>2, <2>2, <2>3, AfterEventSound
  <2> QED  BY <1>3, <2>4 DEF d
<1> HIDE DEF q
<1>7. /\ Ended(responses) => Ended(rest)
      /\ NoAcks(responses) => NoAcks(rest)
      /\ WillConfirm(responses) => WillConfirm(rest)
      /\ Filtered(responses) => Filtered(rest)
  BY <1>1, <1>2, AnswersTail
<1> HIDE DEF m, rest
<1>8. Asking(remote.sent) => Asking(remote'.sent)
  BY <1>3, <1>5, <1>6 DEF QueryKept
<1>9. ASSUME live, ~denied, NoRequests(remote.sent), Promised(remote, responses, current)
      PROVE  \/ Asking(remote'.sent)
             \/ NoRequests(remote'.sent) /\ Promised(remote', rest, current')
  <2>1. Query \in DOMAIN r.targets
    BY <1>2, <1>3, <1>9 DEF Agree
  <2>2. CASE r.resets # {}
    <3>1. r.resets \cap DOMAIN r.targets # {}
      BY <1>3, <2>1, <2>2 DEF Remotes
    <3> QED  BY <1>5, <1>6, <3>1 DEF QueryKept
  <2>3. CASE r.resets = {}
    <3>1. /\ q.sent = r.sent
          /\ Ensure(q, Query).current = Ensure(r, Query).current
      BY <1>6, <2>3
    <3>2. /\ NoRequests(remote'.sent) /\ ~remote'.timer
          /\ Ensure(remote', Query).current = Ensure(remote, Query).current
      BY <1>3, <1>4, <1>5, <1>6, <1>9, <3>1 DEF QueryKept
    <3>3. CASE WillConfirm(responses)
      BY <1>7, <3>2, <3>3 DEF Promised
    <3>4. CASE Confirmed(remote, responses, current)
      <4>1. NoAcks(responses) /\ s.current
        BY <1>4, <3>4 DEF Confirmed
      <4>2. Query \in DOMAIN r.states
        BY <4>1 DEF Ensure, NewTarget
      <4>3. RemoteSound(r, responses, stream, FALSE) /\ NoRequests(r.sent)
        BY <1>2, <1>3, <1>9
      <4>4. Ensure(r, Query).outstanding = 0
        BY <1>2, <4>1, <4>3, NothingAsked
      <4>5. ForQuery(r)
        BY <2>1, <4>2, <4>4 DEF ForQuery, IsActiveTarget
      <4>6. current' /\ Ensure(remote', Query).current
        BY <1>1, <1>4, <3>2, <4>1, <4>5
      <4> QED  BY <1>7, <3>2, <4>1, <4>6 DEF Promised, Confirmed
    <3>5. ~WillReset(remote, responses)
      BY <1>3, <2>3 DEF WillReset
    <3> QED  BY <1>9, <3>3, <3>4, <3>5 DEF Promised
  <2> QED  BY <2>2, <2>3
<1>10. FollowedInv'
  BY <1>1, <1>3, <1>7, <1>8, <1>9 DEF AnswerInv, FollowedInv
<1> HIDE DEF cur
<1>11. WaitingInv'
  BY <1>1, StillWaiting DEF AnswerInv, WaitingInv
<1>12. FiltersInv'
  BY <1>1, <1>7 DEF AnswerInv, FiltersInv
<1> QED  BY <1>10, <1>11, <1>12 DEF AnswerInv

(* The error of the query ends the calls; that of a lookup leaves them.    *)
LEMMA ProcessTargetErrorAnswers ==
    ASSUME IInv, AnswerInv, ProcessTargetError
    PROVE  AnswerInv'
<1> DEFINE m == Head(responses)
           t == m.target
           r == UpdateState(remote, "Online")
           now == IF live /\ current THEN KeysOf(cache') \ synced' ELSE limbo
<1>1. /\ UNCHANGED <<denied, served, stream>>
      /\ responses # <<>> /\ responses' = Tail(responses) /\ m.kind = "error"
      /\ \/ t \notin DOMAIN r.targets /\ UNCHANGED <<live, current, limbo, calls>>
         \/ /\ live' = FALSE
            /\ calls' = [c \in Calls |-> IF calls[c] = "waiting" THEN "error"
                                         ELSE IF IsListening(c) THEN "gone" ELSE calls[c]]
         \/ /\ t # Query /\ live' = live /\ current' = current /\ limbo' = now
            /\ \E online : calls' = Answered(live /\ current /\ now = {}, online)
  BY DEF ProcessTargetError, RemoveAndCleanupTarget, EmitNewSnapshots, backend, disk, view
<1>2. /\ Agree(remote, limbos, live) /\ responses \in Seq(Messages)
      /\ Ordered(responses, remote.updated, denied)
  BY Beginning DEF Types, OrderInv
<1>3. r.targets = remote.targets
  BY <1>1, Reading
<1>4. live' /\ Asking(remote.sent) => Asking(remote'.sent)
  BY ProcessTargetErrorKeeps
<1> HIDE DEF r, now
<1>5. denied
  <2>1. m = responses[1] /\ 1 \in DOMAIN responses
    BY <1>1, <1>2, TailFacts
  <2> QED  BY <1>1, <1>2, <2>1 DEF Ordered
<1>6. live' => live /\ (Ended(responses) => Ended(Tail(responses)))
  <2>1. live' => live /\ t # Query
    BY <1>1, <1>2, <1>3 DEF Agree
  <2>2. Ended(responses) => Ended(Tail(responses)) \/ t = Query
    BY <1>1, <1>2, AnswersTail
  <2> QED  BY <2>1, <2>2
<1>7. FollowedInv'
  BY <1>1, <1>4, <1>5, <1>6 DEF AnswerInv, FollowedInv
<1>8. FiltersInv'
  BY <1>1, <1>5 DEF FiltersInv
<1>9. WaitingInv'
  <2>1. CASE UNCHANGED <<live, current, limbo, calls>>
    BY <2>1 DEF AnswerInv, WaitingInv
  <2>2. CASE calls' = [c \in Calls |-> IF calls[c] = "waiting" THEN "error"
                                       ELSE IF IsListening(c) THEN "gone" ELSE calls[c]]
    BY <2>2 DEF WaitingInv
  <2>3. CASE /\ live' = live /\ current' = current /\ limbo' = now
             /\ \E online : calls' = Answered(live /\ current /\ now = {}, online)
    BY <2>3, StillWaiting DEF AnswerInv, WaitingInv
  <2> QED  BY <1>1, <2>1, <2>2, <2>3
<1> QED  BY <1>7, <1>8, <1>9 DEF AnswerInv

(* A request is taken: what else the remote store has is the same.         *)
LEMMA TakenFacts ==
    ASSUME NEW r \in Remotes, r.sent # <<>>
    PROVE  LET s == [r EXCEPT !.sent = Tail(@)] IN
           /\ s.sent = Tail(r.sent) /\ s.resets = r.resets /\ s.timer = r.timer
           /\ Ensure(s, Query) = Ensure(r, Query)
           /\ r.sent \in Seq(Requests) /\ Head(r.sent) \in Requests
<1> DEFINE rest == Tail(r.sent)
           s == [r EXCEPT !.sent = rest]
<1>1. s.sent = rest /\ s.resets = r.resets /\ s.timer = r.timer /\ s.states = r.states
  BY DEF Remotes
<1>2. r.sent \in Seq(Requests) /\ Head(r.sent) \in Requests
  <2>1. r.sent \in Seq(Requests)
    BY DEF Remotes
  <2> QED  BY <2>1, TailFacts
<1>3. Ensure(s, Query) = Ensure(r, Query)
  BY <1>1 DEF Ensure
<1> QED  BY <1>1, <1>2, <1>3

(* Messages that answer nothing of the query leave its promise.            *)
LEMMA PromisedBeside ==
    ASSUME NEW r, NEW s, NEW ms \in Seq(Messages), NEW more \in Seq(Messages), NEW cur,
           Promised(r, ms, cur), NoAcks(more),
           s.resets = r.resets, s.timer = r.timer, Ensure(s, Query) = Ensure(r, Query)
    PROVE  Promised(s, ms \o more, cur)
<1>1. /\ Snapped(ms) => Snapped(ms \o more)
      /\ NoAcks(ms) => NoAcks(ms \o more)
      /\ WillConfirm(ms) => WillConfirm(ms \o more)
  BY AnswersMore
<1> QED  BY <1>1 DEF Promised, Confirmed, WillReset

LEMMA AnswerUnwatchAnswers ==
    ASSUME IInv, AnswerInv, AnswerUnwatch
    PROVE  AnswerInv'
<1> DEFINE q == Head(remote.sent)
           t == q.target
           a == Ack("removed", t)
           more == <<a>>
           s == [remote EXCEPT !.sent = Tail(@)]
<1>1. /\ UNCHANGED <<denied, stream, live, current, limbo, calls>>
      /\ remote.sent # <<>> /\ q.kind = "unwatch"
      /\ served' = Less(served, t) /\ responses' = Append(responses, a) /\ remote' = s
  BY DEF AnswerUnwatch, backend, view
<1>2. remote \in Remotes /\ responses \in Seq(Messages)
  BY Beginning DEF Types
<1>3. /\ s.sent = Tail(remote.sent) /\ s.resets = remote.resets /\ s.timer = remote.timer
      /\ Ensure(s, Query) = Ensure(remote, Query)
      /\ remote.sent \in Seq(Requests) /\ q \in Requests
  BY <1>1, <1>2, TakenFacts
<1>4. t \in Nat
  BY <1>3, MessageTargets
<1>5. a \in Messages /\ a.kind = "removed" /\ a.target = t
  BY <1>4, AckType
<1> HIDE DEF s, a
<1>6. /\ more \in Seq(Messages) /\ responses' = responses \o more
      /\ \A i \in DOMAIN more : more[i] = a
  BY <1>1, <1>2, <1>5, OneMore
<1> HIDE DEF more
<1>7. Filtered(more) /\ (t # Query => NoAcks(more))
  BY <1>5, <1>6 DEF Filtered, NoAcks, IsAck
<1>8. /\ Asking(remote.sent) => Asking(s.sent)
      /\ NoRequests(remote.sent) => NoRequests(s.sent) /\ t # Query
  <2>1. ~AskFor(q)
    BY <1>1 DEF AskFor
  <2> QED  BY <1>1, <1>3, <2>1, AskingTail
<1>9. /\ Ended(responses) => Ended(responses')
      /\ Filtered(responses) => Filtered(responses')
  BY <1>2, <1>6, <1>7, AnswersMore
<1> HIDE DEF q, t
<1>10. ASSUME NoRequests(remote.sent), Query \in DOMAIN served,
              Promised(remote, responses, current)
       PROVE  Query \in DOMAIN served' /\ Promised(s, responses', current)
  <2>1. Query \in DOMAIN served'
    BY <1>1, <1>8, <1>10 DEF Less, Restrict
  <2> QED  BY <1>2, <1>3, <1>6, <1>7, <1>8, <1>10, <2>1, PromisedBeside
<1>11. FollowedInv'
  BY <1>1, <1>8, <1>9, <1>10 DEF AnswerInv, FollowedInv
<1>12. FiltersInv' /\ WaitingInv'
  BY <1>1, <1>9 DEF AnswerInv, FiltersInv, WaitingInv
<1> QED  BY <1>11, <1>12 DEF AnswerInv

(* The answer to the last request for the query confirms it.               *)
LEMMA AnswerWatchAnswers ==
    ASSUME IInv, AnswerInv, NEW how, AnswerWatch(how)
    PROVE  AnswerInv'
<1> DEFINE q == Head(remote.sent)
           t == q.target
           value == [scope |-> q.scope, known |-> Scoped(UNION q.token, q.scope)]
           s == [remote EXCEPT !.sent = Tail(@)]
           failed == Ack("error", t)
           began == Ack("added", t)
           done == Ack("current", t)
           snap == Snapshot
<1>1. /\ UNCHANGED <<denied, stream, live, current, limbo, calls>>
      /\ remote.sent # <<>> /\ q.kind = "watch" /\ remote' = s
      /\ denied => responses' = Append(responses, failed) /\ served' = served
      /\ ~denied => served' = UpToDate(With(served, t, value))
  BY DEF AnswerWatch, backend, view
<1>2. /\ remote \in Remotes /\ responses \in Seq(Messages) /\ docs \in Collections
      /\ denied \in BOOLEAN
  BY Beginning DEF Types
<1>3. /\ s.sent = Tail(remote.sent) /\ s.resets = remote.resets /\ s.timer = remote.timer
      /\ Ensure(s, Query) = Ensure(remote, Query)
      /\ remote.sent \in Seq(Requests) /\ q \in Requests
  BY <1>1, <1>2, TakenFacts
<1>4. t \in Nat
  BY <1>3, MessageTargets
<1>5. /\ failed \in Messages /\ failed.kind = "error" /\ failed.target = t
      /\ began \in Messages /\ began.kind = "added" /\ began.target = t
      /\ done \in Messages /\ done.kind = "current" /\ done.target = t
      /\ snap \in Messages /\ snap.kind = "snapshot"
  BY <1>2, <1>4, AckType, SnapshotType
<1>6. /\ Asking(remote.sent) => Asking(s.sent) \/ (t = Query /\ NoRequests(s.sent))
      /\ NoRequests(remote.sent) => NoRequests(s.sent) /\ t # Query
  <2>1. AskFor(q) => t = Query
    BY DEF AskFor
  <2> HIDE DEF s, q
  <2> QED  BY <1>1, <1>3, <2>1, AskingTail DEF q
<1>7. DOMAIN UpToDate(With(served, t, value)) = DOMAIN served \cup {t}
  BY DEF UpToDate, With
<1>8. ~denied => Said(responses, t, responses')
  BY AnswerWatchKeeps
<1> HIDE DEF s, q, t, value, failed
<1>9. WaitingInv'
  BY <1>1 DEF AnswerInv, WaitingInv
<1>10. CASE denied
  <2> DEFINE more == <<failed>>
  <2>1. /\ more \in Seq(Messages) /\ responses' = responses \o more
        /\ 1 \in DOMAIN more /\ more[1] = failed
    BY <1>1, <1>2, <1>5, <1>10, OneMore
  <2> HIDE DEF more
  <2>2. Ended(responses) \/ t = Query => Ended(responses')
    <3>1. t = Query => Ended(more)
      BY <1>5, <2>1 DEF Ended
    <3> QED  BY <1>2, <2>1, <3>1, AnswersMore
  <2>3. FollowedInv'
    BY <1>1, <1>6, <1>10, <2>2 DEF AnswerInv, FollowedInv
  <2>4. FiltersInv'
    BY <1>1, <1>10 DEF FiltersInv
  <2> QED  BY <1>9, <2>3, <2>4 DEF AnswerInv
<1>11. CASE ~denied
  <2>1. PICK more \in Seq(Messages), most \in Seq(Messages) :
          /\ \A i \in DOMAIN more : more[i].kind \in {"docs", "filter"}
          /\ responses' = Append(responses, began) \o (more \o <<done, snap>>)
          /\ responses' = responses \o (most \o <<snap>>)
    BY <1>8, <1>11 DEF Said
  <2> HIDE DEF began, done, snap
  <2> DEFINE as == <<began>>
             end == <<done, snap>>
             before == Append(responses, began)
             last == <<snap>>
  <2>2. /\ as \in Seq(Messages) /\ before \in Seq(Messages) /\ before = responses \o as
        /\ \A i \in DOMAIN as : as[i] = began
    BY <1>2, <1>5, OneMore
  <2>3. /\ end \in Seq(Messages) /\ 1 \in DOMAIN end /\ 2 \in DOMAIN end
        /\ end[1] = done /\ end[2] = snap /\ \A i \in DOMAIN end : i = 1 \/ i = 2
    BY <1>5
  <2>4. last \in Seq(Messages)
    BY <1>5, OneMore
  <2> HIDE DEF as, end, before
  <2>5. more \o end \in Seq(Messages) /\ most \o last \in Seq(Messages)
    BY <2>1, <2>3, <2>4, AppendedFacts
  <2>6. Filtered(responses')
    <3>1. Filtered(most \o last)
      BY <1>5, <2>1, AnswersReport
    <3>2. Filtered(responses)
      BY <1>11 DEF AnswerInv, FiltersInv
    <3> HIDE DEF last
    <3>3. responses' = responses \o (most \o last)
      BY <2>1 DEF last
    <3> QED  BY <1>2, <2>5, <3>1, <3>2, <3>3, AnswersMore
  <2> HIDE DEF last
  <2>7. responses' = before \o (more \o end)
    BY <2>1 DEF before, end
  <2>8. ASSUME t = Query
        PROVE  WillConfirm(responses')
    <3>1. WillConfirm(end)
      <4>1. SnapshotAfter(end, 1)
        BY <1>5, <2>3 DEF SnapshotAfter
      <4>2. \A j \in DOMAIN end : j > 1 => ~IsAck(end[j])
        BY <1>5, <2>3 DEF IsAck
      <4> QED  BY <1>5, <2>3, <2>8, <4>1, <4>2 DEF WillConfirm
    <3>2. WillConfirm(more \o end)
      BY <2>1, <2>3, <3>1, AnswersMore
    <3> QED  BY <2>2, <2>5, <2>7, <3>2, AnswersMore
  <2>9. ASSUME t # Query, Promised(remote, responses, current)
        PROVE  Promised(s, responses', current)
    <3>1. NoAcks(as) /\ NoAcks(more) /\ NoAcks(end)
      BY <1>5, <2>1, <2>2, <2>3, <2>9 DEF NoAcks, IsAck
    <3>2. NoAcks(more \o end)
      BY <2>1, <2>3, <3>1, AnswersMore
    <3>3. Promised(s, before, current)
      BY <1>2, <1>3, <2>2, <2>9, <3>1, PromisedBeside
    <3> QED  BY <2>2, <2>5, <2>7, <3>2, <3>3, PromisedBeside
  <2>10. DOMAIN served' = DOMAIN served \cup {t}
    BY <1>1, <1>7, <1>11
  <2>11. FollowedInv'
    <3> SUFFICES ASSUME live, stream = "open"
                 PROVE  \/ Asking(s.sent)
                        \/ /\ NoRequests(s.sent) /\ Query \in DOMAIN served'
                           /\ Promised(s, responses', current)
      BY <1>1, <1>11 DEF FollowedInv
    <3>1. CASE Asking(remote.sent)
      BY <1>6, <2>8, <2>10, <3>1 DEF Promised
    <3>2. CASE /\ NoRequests(remote.sent) /\ Query \in DOMAIN served
               /\ Promised(remote, responses, current)
      BY <1>6, <2>9, <2>10, <3>2
    <3> QED  BY <1>11, <3>1, <3>2 DEF AnswerInv, FollowedInv
  <2>12. FiltersInv'
    BY <2>6 DEF FiltersInv
  <2> QED  BY <1>9, <2>11, <2>12 DEF AnswerInv
<1> QED  BY <1>2, <1>10, <1>11

LEMMA ReportChangesAnswers ==
    ASSUME IInv, AnswerInv, NEW how, ReportChanges(how)
    PROVE  AnswerInv'
<1> DEFINE more == Reports(served, how)
           snap == Snapshot
           last == <<snap>>
           news == more \o last
<1>1. /\ UNCHANGED <<denied, stream, remote, live, current, limbo, calls>>
      /\ responses' = responses \o more \o last /\ served' = UpToDate(served)
  BY DEF ReportChanges, backend, view
<1>2. /\ responses \in Seq(Messages) /\ served \in Tables(Watched) /\ docs \in Collections
  BY Beginning DEF Types
<1>3. more \in Seq(Messages) /\ \A i \in DOMAIN more : more[i].kind \in {"docs", "filter"}
  BY <1>2, ReportsKinds
<1>4. snap \in Messages /\ snap.kind = "snapshot"
  BY <1>2, SnapshotType
<1> HIDE DEF more, snap
<1>5. /\ last \in Seq(Messages) /\ \A i \in DOMAIN last : last[i] = snap
      /\ Filtered(news)
  BY <1>3, <1>4, OneMore, AnswersReport
<1> HIDE DEF last
<1>6. news \in Seq(Messages) /\ responses' = responses \o news
  <2>1. news \in Seq(Messages)
    BY <1>3, <1>5, AppendedFacts
  <2>2. (responses \o more) \o last = responses \o (more \o last)
    BY <1>2, <1>3, <1>5
  <2> QED  BY <1>1, <2>1, <2>2
<1>7. NoAcks(news)
  <2>1. NoAcks(more) /\ NoAcks(last)
    BY <1>3, <1>4, <1>5 DEF NoAcks, IsAck
  <2> QED  BY <1>3, <1>5, <2>1, AnswersMore
<1> HIDE DEF news
<1>8. /\ Ended(responses) => Ended(responses')
      /\ Filtered(responses) => Filtered(responses')
  BY <1>2, <1>5, <1>6, AnswersMore
<1>9. Promised(remote, responses, current) => Promised(remote, responses', current)
  BY <1>2, <1>6, <1>7, PromisedBeside
<1>10. DOMAIN served' = DOMAIN served
  BY <1>1 DEF UpToDate
<1>11. FollowedInv'
  BY <1>1, <1>8, <1>9, <1>10 DEF AnswerInv, FollowedInv
<1>12. FiltersInv' /\ WaitingInv'
  BY <1>1, <1>8 DEF AnswerInv, FiltersInv, WaitingInv
<1> QED  BY <1>11, <1>12 DEF AnswerInv

(* What is served ends with an error, the query too.                       *)
LEMMA DenyAnswers ==
    ASSUME IInv, AnswerInv, Deny
    PROVE  AnswerInv'
<1> DEFINE ids == Ascending(DOMAIN served)
           ended == Reverse(ids)
           more == [i \in DOMAIN ended |-> Ack("error", ended[i])]
<1>1. /\ UNCHANGED <<stream, remote, live, current, limbo, calls>>
      /\ ~denied /\ denied' = TRUE /\ responses' = responses \o more
  BY DEF Deny, view
<1>2. responses \in Seq(Messages) /\ served \in Tables(Watched)
  BY Beginning DEF Types
<1>3. /\ ids \in Seq(DOMAIN served) /\ DOMAIN served \subseteq Nat
      /\ \A k \in DOMAIN served : \E i \in DOMAIN ids : ids[i] = k
  BY <1>2, TableFacts, AscendingFacts
<1>4. /\ ended \in Seq(DOMAIN served)
      /\ \A k \in DOMAIN served : \E i \in DOMAIN ended : ended[i] = k
  <2> HIDE DEF ids
  <2>1. /\ Len(ids) \in Nat /\ DOMAIN ids = 1 .. Len(ids)
        /\ \A i \in 1 .. Len(ids) : ids[(Len(ids) - i) + 1] \in DOMAIN served
    BY <1>3
  <2>2. ended = [i \in 1 .. Len(ids) |-> ids[(Len(ids) - i) + 1]]
    BY DEF Reverse
  <2>3. ended \in Seq(DOMAIN served) /\ DOMAIN ended = 1 .. Len(ids)
    BY <2>1, <2>2
  <2>4. ASSUME NEW i \in DOMAIN ids
        PROVE  (Len(ids) - i) + 1 \in DOMAIN ended /\ ended[(Len(ids) - i) + 1] = ids[i]
    <3> DEFINE n == Len(ids)
    <3> HIDE DEF n
    <3>1. n \in Nat /\ i \in 1 .. n
      BY <2>1, <2>4 DEF n
    <3>2. (n - i) + 1 \in 1 .. n /\ (n - ((n - i) + 1)) + 1 = i
      BY <3>1
    <3> QED  BY <2>2, <3>2 DEF n
  <2> QED  BY <1>3, <2>3, <2>4
<1> HIDE DEF ended
<1>5. more \in Seq(Messages) /\ (Query \in DOMAIN served => Ended(more))
  <2>1. /\ DOMAIN ended = 1 .. Len(ended) /\ Len(ended) \in Nat
        /\ \A i \in DOMAIN ended : ended[i] \in Nat
    BY <1>3, <1>4
  <2>2. \A i \in DOMAIN ended : /\ Ack("error", ended[i]) \in Messages
                                /\ Ack("error", ended[i]).kind = "error"
                                /\ Ack("error", ended[i]).target = ended[i]
    BY <2>1, AckType
  <2>3. more \in Seq(Messages) /\ DOMAIN more = DOMAIN ended
        /\ \A i \in DOMAIN more : more[i].kind = "error" /\ more[i].target = ended[i]
    BY <2>1, <2>2
  <2> HIDE DEF more
  <2> QED  BY <1>4, <2>3 DEF Ended
<1> HIDE DEF more
<1>6. Ended(more) => Ended(responses')
  BY <1>1, <1>2, <1>5, AnswersMore
<1>7. FollowedInv'
  BY <1>1, <1>5, <1>6 DEF AnswerInv, FollowedInv
<1>8. FiltersInv' /\ WaitingInv'
  BY <1>1 DEF AnswerInv, FiltersInv, WaitingInv
<1> QED  BY <1>7, <1>8 DEF AnswerInv

LEMMA NextAnswers == IInv /\ AnswerInv /\ [Next]_vars => AnswerInv'
<1> SUFFICES ASSUME IInv, AnswerInv, [Next]_vars
             PROVE  AnswerInv'
  OBVIOUS
<1>1. ASSUME NEW c \in Calls, FirstCall(c) \/ LaterCall(c) \/ RemoveQueryListener(c)
      PROVE  AnswerInv'
  BY <1>1, FirstCallAnswers, LaterCallAnswers, RemoveQueryListenerAnswers
<1>2. ASSUME NEW how, AnswerWatch(how) \/ ReportChanges(how)
      PROVE  AnswerInv'
  BY <1>2, AnswerWatchAnswers, ReportChangesAnswers
<1>3. CASE OnWatchStreamOpen \/ OnWatchStreamClose \/ IdleTimeout \/ OnlineStateTimeout
  BY <1>3, OnWatchStreamOpenAnswers, OnWatchStreamCloseAnswers, IdleTimeoutAnswers,
     OnlineStateTimeoutAnswers
<1>4. CASE GatherWatchChange \/ RaiseWatchSnapshot \/ ProcessTargetError
  BY <1>4, GatherWatchChangeAnswers, RaiseWatchSnapshotAnswers, ProcessTargetErrorAnswers
<1>5. CASE RestartNetwork \/ Die \/ AnswerUnwatch \/ Deny
  BY <1>5, RestartNetworkAnswers, DieAnswers, AnswerUnwatchAnswers, DenyAnswers
<1>6. ASSUME NEW k \in Keys, Change(k)
      PROVE  AnswerInv'
  BY <1>6, ChangeAnswers
<1>7. CASE UNCHANGED vars
  BY <1>7, StutterAnswers
<1> QED  BY <1>1, <1>2, <1>3, <1>4, <1>5, <1>6, <1>7 DEF Next

(* With nothing asked and nothing unread only a view that knows that it is *)
(* current is left, and a call that waits then waits for limbo.            *)
LEMMA AnsweredWhenQuiet == AnswerInv => QuietMeansAnswered
<1> SUFFICES ASSUME AnswerInv, NEW c \in Calls, calls[c] = "waiting", stream = "open",
                    remote.sent = <<>>, responses = <<>>
             PROVE  limbo # {}
  BY DEF QuietMeansAnswered
<1>1. live /\ ~(current /\ limbo = {})
  BY DEF AnswerInv, WaitingInv
<1>2. ~Asking(remote.sent) /\ ~Ended(responses) /\ ~WillConfirm(responses) /\ ~Snapped(responses)
  BY DEF Asking, Ended, WillConfirm, Snapped
<1>3. current
  BY <1>1, <1>2 DEF AnswerInv, FollowedInv, Promised, Confirmed, WillReset
<1> QED  BY <1>1, <1>3

--------------------------------------------------------------------------------
(* The theorems *)

(* The parts of the invariant hold together in every reachable state: the  *)
(* worker queue's operations and the messages of the backend never bring   *)
(* the two tables of targets, the requests and the answers out of step.    *)
THEOREM Invariant == Spec => []IInv
BY InitIInv, NextKeeps, PTL DEF Spec

LEMMA TypesOK == IInv => TypeOK
<1> SUFFICES ASSUME IInv
             PROVE  TypeOK
  OBVIOUS
<1>1. Types /\ remote \in Remotes /\ limbos \in Limbos
  BY Beginning
<1>2. /\ IsCollection(docs) /\ denied \in BOOLEAN /\ stream \in {"off", "starting", "open"}
      /\ \A ds \in seen : IsCollection(ds)
      /\ IsCollection(cache) /\ synced \subseteq Keys /\ IsToken(token)
      /\ live \in BOOLEAN /\ current \in BOOLEAN /\ limbo \subseteq Keys
      /\ calls \in [Calls -> {"new", "waiting", "server", "cache", "error", "gone"}]
  BY <1>1 DEF Types, Collections, Tokens, Outcomes
<1>3. /\ DOMAIN served \subseteq Nat
      /\ \A s \in Range(served) : s.scope \subseteq Keys /\ IsCollection(s.known)
  <2>1. served \in Tables(Watched)
    BY <1>1 DEF Types
  <2>2. DOMAIN served \subseteq Nat /\ \A t \in DOMAIN served : served[t] \in Watched
    BY <2>1, TableFacts
  <2> QED  BY <2>2 DEF Range, Watched, Collections
<1>4. /\ remote.targets \in Tables(Tokens) /\ remote.states \in Tables(TargetStates)
      /\ remote.updated \in Collections /\ remote.gone \subseteq Keys
      /\ remote.resets \subseteq {Query} /\ remote.online \in Onlines
      /\ remote.idle \in BOOLEAN /\ remote.timer \in BOOLEAN /\ remote.failed \in BOOLEAN
  BY <1>1 DEF Remotes
<1>5. DOMAIN remote.targets \subseteq Nat /\ \A tok \in Range(remote.targets) : IsToken(tok)
  <2>1. /\ DOMAIN remote.targets \subseteq Nat
        /\ \A t \in DOMAIN remote.targets : remote.targets[t] \in Tokens
    BY <1>4, TableFacts
  <2> QED  BY <2>1 DEF Range, Tokens
<1>6. Range(remote.states) \subseteq TargetStates
  <2>1. \A t \in DOMAIN remote.states : remote.states[t] \in TargetStates
    BY <1>4, TableFacts
  <2> QED  BY <2>1 DEF Range
<1>7. IsCollection(remote.updated) /\ remote.online \in {"Unknown", "Online", "Offline"}
  BY <1>4 DEF Collections, Onlines
<1>8. /\ limbos.enqueued \in Seq(Keys) /\ DOMAIN limbos.byKey \subseteq Keys
      /\ limbos.active \in Tables(Lookups)
  BY <1>1, Beginning DEF Limbos, Agree
<1>9. Range(limbos.active) \subseteq [key : Keys, received : BOOLEAN]
  <2>1. \A t \in DOMAIN limbos.active : limbos.active[t] \in Lookups
    BY <1>8, TableFacts
  <2> QED  BY <2>1 DEF Range, Lookups
<1> QED  BY <1>2, <1>3, <1>4, <1>5, <1>6, <1>7, <1>8, <1>9 DEF TypeOK

(* Target ids, documents, tokens, pending answers and queued lookups stay  *)
(* within their types: a collection, whatever is merged into it, never     *)
(* holds two versions of a document.                                       *)
THEOREM TypeCorrect == Spec => []TypeOK
BY Invariant, TypesOK, PTL

(* RemoteStore's targets are the view's and those of the limbo lookups,    *)
(* after every Listen, StopListening, denial, restart and close of the     *)
(* view, and no more documents are looked up than the limit allows.        *)
THEOREM TargetsAgree == Spec => []TargetsAreThose
<1>1. IInv => TargetsAreThose
  BY Beginning DEF Agree, TargetsAreThose, Key
<1> QED  BY <1>1, Invariant, PTL

(* The timer of OnlineStateTracker runs only while the state is unknown    *)
(* and no stream has failed, and there is a stream, open or about to be,   *)
(* whenever the remote store has a target: what the tracker asserts.       *)
THEOREM TrackerSound == Spec => []TrackerIsSound
<1>1. IInv => TrackerIsSound
  <2> SUFFICES ASSUME IInv
               PROVE  TrackerIsSound
    OBVIOUS
  <2>1. StreamInv /\ RemoteSound(remote, responses, stream, denied)
    BY Beginning
  <2> QED  BY <2>1 DEF StreamInv, RemoteSound, Tracker, Timer, TrackerIsSound
<1> QED  BY <1>1, Invariant, PTL

(* Until the rules deny the collection, the answers a target still waits   *)
(* for are as many as its requests not taken and its answers not read:     *)
(* RecordPendingTargetRequest and RecordTargetResponse never drift apart,  *)
(* whatever is listened to, stopped, reset and listened to again.          *)
THEOREM AnswersToCome == Spec => []OutstandingAreToCome
<1>1. IInv => OutstandingAreToCome
  <2> SUFFICES ASSUME IInv, ~denied, NEW t \in DOMAIN remote.states
               PROVE  remote.states[t].outstanding =
                        Cardinality({i \in DOMAIN remote.sent : remote.sent[i].target = t})
                        + Cardinality({i \in DOMAIN responses :
                            responses[i].target = t /\ responses[i].kind \in {"added", "removed"}})
    BY DEF OutstandingAreToCome
  <2>1. /\ RemoteSound(remote, responses, stream, denied) /\ remote \in Remotes
        /\ responses \in Seq(Messages)
    BY Beginning DEF Types
  <2>2. remote.states \in Tables(TargetStates) /\ remote.sent \in Seq(Requests)
    BY <2>1 DEF Remotes
  <2>3. t \in Nat
    BY <2>2, TableFacts
  <2>4. remote.states[t].outstanding = ToCome(remote, responses, t)
    BY <2>1, <2>3 DEF RemoteSound, Counted, Ensure
  <2>5. Among(remote.sent, RequestsFor(t)) = {i \in DOMAIN remote.sent : remote.sent[i].target = t}
    <3>1. \A i \in DOMAIN remote.sent : remote.sent[i] \in Requests
      BY <2>2
    <3> QED  BY <3>1 DEF Among, RequestsFor
  <2>6. Among(responses, AcksOf(t)) =
          {i \in DOMAIN responses :
             responses[i].target = t /\ responses[i].kind \in {"added", "removed"}}
    <3>1. \A i \in DOMAIN responses : responses[i] \in Messages
      BY <2>1
    <3> QED  BY <3>1 DEF Among, AcksOf
  <2> QED  BY <2>4, <2>5, <2>6 DEF ToCome
<1> QED  BY <1>1, Invariant, PTL

(* A document in limbo that is still shown is looked up by a target the    *)
(* remote store has, or waits in the queue: PumpEnqueuedLimboResolutions   *)
(* leaves none behind, whichever lookups end, are denied or are restarted. *)
THEOREM LimboPursued == Spec => []LimboIsPursued
<1>1. IInv => LimboIsPursued
  <2> SUFFICES ASSUME IInv, NEW k \in limbo \cap KeysOf(cache)
               PROVE  \/ k \in Range(limbos.enqueued)
                      \/ /\ k \in DOMAIN limbos.byKey
                         /\ limbos.byKey[k] \in DOMAIN limbos.active \cap DOMAIN remote.targets
    BY DEF LimboIsPursued
  <2>1. PursuitInv /\ Agree(remote, limbos, live)
    BY Beginning
  <2>2. k \in Range(limbos.enqueued) \cup DOMAIN limbos.byKey
    BY <2>1, PairParts DEF PursuitInv, Pursued, Pair
  <2> QED  BY <2>1, <2>2 DEF Agree
<1> QED  BY <1>1, Invariant, PTL

(* A call never waits with nothing to wait for: with nothing on its way    *)
(* between the client and the backend, there are documents in limbo, and   *)
(* those are pursued. The invariant follows each answer to the call: it is *)
(* asked for, under way, or known to the remote store and then to the view.*)
THEOREM CallsAnswered == Spec => []QuietMeansAnswered
<1>1. Init => IInv /\ AnswerInv
  BY InitIInv, InitAnswers
<1>2. IInv /\ AnswerInv /\ [Next]_vars => IInv' /\ AnswerInv'
  BY NextKeeps, NextAnswers
<1>3. IInv /\ AnswerInv => QuietMeansAnswered
  BY AnsweredWhenQuiet
<1> QED  BY <1>1, <1>2, <1>3, PTL DEF Spec

================================================================================
