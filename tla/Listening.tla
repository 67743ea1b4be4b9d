------------------------------- MODULE Listening -------------------------------
(***************************************************************************)
(* How one phone's Firestore client answers getDocuments of the collection *)
(* from the backend. The first call opens a view and a watch target for    *)
(* it; the backend's messages are gathered per target until a global       *)
(* snapshot makes one event of them; documents the view holds and the      *)
(* backend does not report are in limbo, and each is looked up by a target *)
(* of its own, a few at a time. A call is answered by the first view that  *)
(* is in sync, or from the cache when the client takes itself for offline. *)
(* Every action is one operation of the client's worker queue, or a step   *)
(* of the backend or of the network. The phone itself writes nothing here. *)
(***************************************************************************)
EXTENDS Integers, SequencesExt

CONSTANTS
    Keys,                          \* the names of the documents
    Calls,                         \* the calls of getDocuments
    MaxConcurrentLimboResolutions, \* limbo documents looked up at a time
    MaxChanges,                    \* bound: changes of the collection
    MaxUnread,                     \* bound: messages unread when the backend sends more
    MaxFaults                      \* bound: faults, restarts and denials

ASSUME ListeningAssumption ==
    /\ Keys \subseteq Nat /\ IsFiniteSet(Keys)
    /\ MaxConcurrentLimboResolutions \in Nat \ {0}
    /\ MaxChanges \in Nat /\ MaxUnread \in Nat /\ MaxFaults \in Nat

Query == 0 \* the target of the collection; the others are limbo targets

(* A document is its key and its version; a collection is a set of them.   *)
Documents == Keys \X Nat

KeysOf(ds) == {d[1] : d \in ds}

Without(ds, ks) == {d \in ds : d[1] \notin ks}

IsCollection(ds) == ds \subseteq Documents /\ \A d, e \in ds : d[1] = e[1] => d = e

(* A resume token is opaque: the set of the one collection it stands for.  *)
NoToken == {}

IsToken(tok) == \A ds, es \in tok : ds = es /\ IsCollection(ds)

VARIABLES
    docs,      \* the documents the backend has
    denied,    \* the security rules have come to deny everything
    served,    \* served[t]: what the backend has sent for target t
    responses, \* the backend's messages that have not been read
    stream,    \* the watch stream: "off", "starting" or "open"
    remote,    \* RemoteStore: its targets, what it has gathered, its online state
    limbos,    \* SyncEngine: limbo documents that wait or are looked up
    cache,     \* the documents in the phone's cache
    synced,    \* those the query's target is known to match, on disk
    token,     \* the query's resume token, on disk: the documents it stands for
    live,      \* there is a view of the query
    current,   \* current_ of the view
    limbo,     \* limbo_documents_ of the view
    calls,     \* what has become of each call
    seen,      \* the collections there have been since the view began (history)
    changes, faults \* bounds

backend == <<docs, denied, changes>>
disk == <<cache, synced, token>>
view == <<live, current, limbo, seen>>
vars == <<backend, served, responses, stream, remote, limbos, disk, view, calls, faults>>

TargetStates ==
    [outstanding : Int, current : BOOLEAN, added : SUBSET Keys, removed : SUBSET Keys]

TypeOK ==
    /\ IsCollection(docs) /\ denied \in BOOLEAN
    /\ \A ds \in seen : IsCollection(ds)
    /\ DOMAIN served \subseteq Nat
    /\ \A s \in Range(served) : s.scope \subseteq Keys /\ IsCollection(s.known)
    /\ stream \in {"off", "starting", "open"}
    /\ DOMAIN remote.targets \subseteq Nat
    /\ \A tok \in Range(remote.targets) : IsToken(tok)
    /\ Range(remote.states) \subseteq TargetStates
    /\ IsCollection(remote.updated) /\ remote.gone \subseteq Keys
    /\ remote.resets \subseteq {Query}
    /\ remote.online \in {"Unknown", "Online", "Offline"}
    /\ remote.idle \in BOOLEAN /\ remote.timer \in BOOLEAN /\ remote.failed \in BOOLEAN
    /\ limbos.enqueued \in Seq(Keys)
    /\ Range(limbos.active) \subseteq [key : Keys, received : BOOLEAN]
    /\ DOMAIN limbos.byKey \subseteq Keys
    /\ IsCollection(cache) /\ synced \subseteq Keys /\ IsToken(token)
    /\ live \in BOOLEAN /\ current \in BOOLEAN /\ limbo \subseteq Keys
    /\ calls \in [Calls -> {"new", "waiting", "server", "cache", "error", "gone"}]

--------------------------------------------------------------------------------
(* The remote store: targets, what is gathered for them, the online state *)

NewTarget == [outstanding |-> 0, current |-> FALSE, added |-> {}, removed |-> {}]

NoTargets == [t \in {} |-> t]

(* The table f with the value at t.                                        *)
With(f, t, value) == [x \in DOMAIN f \cup {t} |-> IF x = t THEN value ELSE f[x]]

Less(f, t) == Restrict(f, DOMAIN f \ {t})

(* What is gathered is lost with its stream.                               *)
WithoutStream(r) ==
    [r EXCEPT !.states = NoTargets, !.updated = {}, !.gone = {}, !.resets = {},
              !.sent = <<>>, !.idle = FALSE]

Ensure(r, t) == IF t \in DOMAIN r.states THEN r.states[t] ELSE NewTarget

InState(r, t, s) == [r EXCEPT !.states = With(@, t, s)]

UpdateState(r, online) ==
    [r EXCEPT !.online = online, !.timer = FALSE, !.failed = FALSE]

(* SendWatchRequest and SendUnwatchRequest: a request is to be answered.   *)
Send(r, t, request) ==
    [InState(r, t, [Ensure(r, t) EXCEPT !.outstanding = @ + 1])
       EXCEPT !.sent = Append(@, request), !.idle = FALSE]

(* The request for a target names the documents it is about.               *)
Watch(t, scope, tok) == [kind |-> "watch", target |-> t, scope |-> scope, token |-> tok]
Unwatch(t) == [kind |-> "unwatch", target |-> t]

Listen(r, t, scope, tok) ==
    LET added == [r EXCEPT !.targets = With(@, t, tok)]
    IN IF stream = "open" THEN Send(added, t, Watch(t, scope, tok)) ELSE added

(* A wrong form: what is still to be answered is forgotten with a target.  *)
StopListening_Forgets(r, t) ==
    LET rest == [r EXCEPT !.targets = Less(@, t)]
    IN IF stream # "open" THEN rest
       ELSE [Send(rest, t, Unwatch(t)) EXCEPT !.states = Less(@, t)]

StopListening(r, t) ==
    LET rest == [r EXCEPT !.targets = Less(@, t)]
        unused == DOMAIN rest.targets = {}
    IN IF stream = "open" THEN [Send(rest, t, Unwatch(t)) EXCEPT !.idle = unused]
       ELSE IF unused THEN UpdateState(rest, "Unknown")
       ELSE rest

HandleWatchStreamStart(r) ==
    IF r.failed THEN r ELSE [r EXCEPT !.online = "Unknown", !.timer = TRUE]

(* A wrong form: the timer is left running when the client is offline.     *)
HandleWatchStreamFailure_Timer(r) ==
    IF r.online = "Online" THEN [r EXCEPT !.online = "Unknown"]
    ELSE [r EXCEPT !.online = "Offline", !.failed = TRUE]

(* One failure is enough to be offline, but not the first after a success. *)
HandleWatchStreamFailure(r) ==
    IF r.online = "Online" THEN [r EXCEPT !.online = "Unknown"]
    ELSE [r EXCEPT !.online = "Offline", !.timer = FALSE, !.failed = TRUE]

Key(t) == limbos.active[t].key

Scope(t) == IF t = Query THEN Keys ELSE {Key(t)}

(* The documents the target is known to match.                             *)
RemoteKeys(t) ==
    IF t = Query THEN synced ELSE IF limbos.active[t].received THEN {Key(t)} ELSE {}

(* A wrong form: answers to an earlier listen count for the one after it.  *)
IsActiveTarget_Pending(r, t) == t \in DOMAIN r.targets

(* A target counts once every request for it has been answered.            *)
IsActiveTarget(r, t) == t \in DOMAIN r.targets /\ Ensure(r, t).outstanding = 0

AddDocuments(r, t, ds) ==
    LET ks == KeysOf(ds)
    IN [InState(r, t, [Ensure(r, t) EXCEPT !.added = @ \cup (ks \ RemoteKeys(t)),
                                           !.removed = @ \ ks])
          EXCEPT !.updated = Without(@, ks) \cup ds, !.gone = @ \ ks]

RemoveDocuments(r, t, ks, deleted) ==
    [InState(r, t, [Ensure(r, t) EXCEPT !.added = @ \ ks,
                                        !.removed = @ \cup (ks \cap RemoteKeys(t))])
       EXCEPT !.updated = IF deleted THEN Without(@, ks) ELSE @,
              !.gone = IF deleted THEN @ \cup ks ELSE @]

HandleDocumentChange(r, m) ==
    IF ~IsActiveTarget(r, m.target) THEN r
    ELSE RemoveDocuments(AddDocuments(r, m.target, m.added), m.target, m.removed, m.deleted)

(* An existence filter that does not fit what is known of the query takes  *)
(* all of it back; that of a limbo target says whether its document is.    *)
HandleExistenceFilter(r, m) ==
    LET s == Ensure(r, m.target)
        size == Cardinality(RemoteKeys(m.target)) + Cardinality(s.added) - Cardinality(s.removed)
    IN IF ~IsActiveTarget(r, m.target) THEN r
       ELSE IF m.target # Query
       THEN IF m.count = 0 THEN RemoveDocuments(r, m.target, {Key(m.target)}, TRUE) ELSE r
       ELSE IF size = m.count THEN r
       ELSE [InState(r, Query, [NewTarget EXCEPT !.removed = synced])
               EXCEPT !.resets = @ \cup {Query}]

HandleTargetChange(r, m) ==
    LET s == Ensure(r, m.target)
        fewer == [s EXCEPT !.outstanding = @ - 1]
    IN CASE m.kind = "added" ->
              InState(r, m.target, IF fewer.outstanding = 0
                                   THEN [fewer EXCEPT !.added = {}, !.removed = {}] ELSE fewer)
         [] m.kind = "removed" ->
              IF fewer.outstanding = 0
              THEN [r EXCEPT !.states = Less(@, m.target)]
              ELSE InState(r, m.target, fewer)
         [] m.kind = "current" ->
              IF IsActiveTarget(r, m.target)
              THEN InState(r, m.target, [s EXCEPT !.current = TRUE]) ELSE r

--------------------------------------------------------------------------------
(* The sync engine: limbo documents. p is the pair of remote and limbos.   *)

(* The i-th of them is the one that i of them do not exceed.               *)
Ascending(ks) ==
    [i \in 1 .. Cardinality(ks) |-> CHOOSE k \in ks : Cardinality({j \in ks : j <= k}) = i]

(* The targets a new one must not be taken for.                            *)
IdsInUse(p) ==
    {Query} \cup DOMAIN p.remote.targets \cup DOMAIN p.remote.states \cup DOMAIN p.limbos.active
    \cup DOMAIN served \cup {m.target : m \in Range(responses) \cup Range(p.remote.sent)}

(* A target that looks the document up; the document keeps the one it has. *)
Resolve(p, k) ==
    LET t == CHOOSE i \in 1 .. Cardinality(IdsInUse(p)) : i \notin IdsInUse(p)
    IN [remote |-> Listen(p.remote, t, {k}, NoToken),
        limbos |-> [p.limbos EXCEPT !.active = With(@, t, [key |-> k, received |-> FALSE]),
                                    !.byKey = IF k \in DOMAIN @ THEN @ ELSE With(@, k, t)]]

Enqueue(p, ks) == [p EXCEPT !.limbos = [@ EXCEPT !.enqueued = ks]]

(* A wrong form: what finds no place is dropped.                           *)
PumpEnqueuedLimboResolutions_Drops(p) ==
    FoldLeft(LAMBDA q, k :
               IF Cardinality(DOMAIN q.limbos.byKey) < MaxConcurrentLimboResolutions
               THEN Resolve(q, k) ELSE q,
             Enqueue(p, <<>>), p.limbos.enqueued)

PumpEnqueuedLimboResolutions(p) ==
    FoldLeft(LAMBDA q, k :
               IF Cardinality(DOMAIN q.limbos.byKey) < MaxConcurrentLimboResolutions
               THEN Resolve(q, k)
               ELSE Enqueue(q, Append(q.limbos.enqueued, k)),
             Enqueue(p, <<>>), p.limbos.enqueued)

TrackLimboChange(p, k) ==
    IF k \in DOMAIN p.limbos.byKey THEN p
    ELSE PumpEnqueuedLimboResolutions(Enqueue(p, Append(p.limbos.enqueued, k)))

(* The lookup of k by target t is over.                                    *)
WithoutLookup(l, t, k) == [l EXCEPT !.active = Less(@, t), !.byKey = Less(@, k)]

(* A wrong form: the remote store goes on listening.                       *)
RemoveLimboTarget_Listens(p, k) ==
    IF k \notin DOMAIN p.limbos.byKey THEN p
    ELSE PumpEnqueuedLimboResolutions(
           [p EXCEPT !.limbos = WithoutLookup(@, p.limbos.byKey[k], k)])

RemoveLimboTarget(p, k) ==
    IF k \notin DOMAIN p.limbos.byKey THEN p
    ELSE LET t == p.limbos.byKey[k]
         IN PumpEnqueuedLimboResolutions(
              [remote |-> StopListening(p.remote, t),
               limbos |-> WithoutLookup(p.limbos, t, k)])

RemoveLimboTargets(p, ks) == FoldLeft(RemoveLimboTarget, p, Ascending(ks))

TrackLimboChanges(p, ks) == FoldLeft(TrackLimboChange, p, Ascending(ks))

(* The view's limbo documents change from old to new.                      *)
UpdateTrackedLimboDocuments(p, old, new) ==
    TrackLimboChanges(RemoveLimboTargets(p, old \ new), new \ old)

(* Calls that wait are answered by a view in sync, or offline from the     *)
(* cache.                                                                  *)
Answered(insync, online) ==
    [c \in Calls |-> IF calls[c] # "waiting" THEN calls[c]
                     ELSE IF insync THEN "server"
                     ELSE IF online = "Offline" THEN "cache"
                     ELSE "waiting"]

(* A state of the tracker is broadcast: offline, no view is current.       *)
Broadcast(r) ==
    /\ remote' = r
    /\ current' = (current /\ r.online # "Offline")
    /\ calls' = Answered(FALSE, r.online)

(* EmitNewSnapshotsAndNotifyLocalStore, after the disk has changed and     *)
(* with what the event says of the view being current.                     *)
EmitNewSnapshots(p, cur) ==
    LET now == IF live /\ cur THEN KeysOf(cache') \ synced' ELSE limbo
        after == UpdateTrackedLimboDocuments(p, limbo, now)
    IN /\ current' = cur
       /\ limbo' = now
       /\ remote' = after.remote
       /\ limbos' = after.limbos
       /\ calls' = Answered(live /\ cur /\ now = {}, after.remote.online)

(* The view is closed, and the targets of its limbo documents with it.     *)
RemoveAndCleanupTarget(r) ==
    LET after == RemoveLimboTargets([remote |-> r, limbos |-> limbos], limbo)
    IN /\ live' = FALSE /\ current' = FALSE /\ limbo' = {} /\ seen' = {}
       /\ remote' = after.remote
       /\ limbos' = after.limbos

--------------------------------------------------------------------------------
(* The operations of the worker queue *)

Fault ==
    /\ faults < MaxFaults
    /\ faults' = faults + 1

Init ==
    /\ docs = {} /\ denied = FALSE /\ served = NoTargets /\ responses = <<>>
    /\ stream = "off"
    /\ remote = [targets |-> NoTargets, states |-> NoTargets, updated |-> {}, gone |-> {},
                 resets |-> {}, sent |-> <<>>, idle |-> FALSE,
                 online |-> "Unknown", timer |-> FALSE, failed |-> FALSE]
    /\ limbos = [enqueued |-> <<>>, active |-> NoTargets, byKey |-> NoTargets]
    /\ cache = {} /\ synced = {} /\ token = NoToken
    /\ live = FALSE /\ current = FALSE /\ limbo = {}
    /\ calls = [c \in Calls |-> "new"]
    /\ seen = {} /\ changes = 0 /\ faults = 0

(* The first listener opens the view and its target, and the watch stream  *)
(* if there is none; a later one is given the view as it is.               *)
FirstCall(c) ==
    /\ ~live
    /\ calls[c] = "new"
    /\ live' = TRUE /\ current' = FALSE /\ limbo' = {} /\ seen' = {docs}
    /\ IF stream = "off"
       THEN /\ stream' = "starting"
            /\ remote' = HandleWatchStreamStart(Listen(remote, Query, Keys, token))
       ELSE /\ remote' = Listen(remote, Query, Keys, token)
            /\ UNCHANGED stream
    /\ calls' = [calls EXCEPT ![c] = IF remote.online = "Offline" THEN "cache" ELSE "waiting"]
    /\ UNCHANGED <<backend, served, responses, limbos, disk, faults>>

LaterCall(c) ==
    /\ live
    /\ calls[c] = "new"
    /\ calls' = [calls EXCEPT ![c] = IF current /\ limbo = {} THEN "server"
                                     ELSE IF remote.online = "Offline" THEN "cache"
                                     ELSE "waiting"]
    /\ UNCHANGED <<backend, served, responses, stream, remote, limbos, disk, view, faults>>

IsListening(c) == calls[c] \in {"waiting", "server", "cache"}

(* The answer has been handed to the app; its listener goes, and with the  *)
(* last one the view.                                                      *)
RemoveQueryListener(c) ==
    /\ calls[c] \in {"server", "cache"}
    /\ calls' = [calls EXCEPT ![c] = "gone"]
    /\ IF \E d \in Calls \ {c} : IsListening(d)
       THEN UNCHANGED <<remote, limbos, view>>
       ELSE RemoveAndCleanupTarget(StopListening(remote, Query))
    /\ UNCHANGED <<backend, served, responses, stream, disk, faults>>

WatchAll(r) ==
    FoldLeft(LAMBDA s, t : Send(s, t, Watch(t, Scope(t), s.targets[t])), r,
             Ascending(DOMAIN r.targets))

(* The token has arrived and the call has begun: all targets are watched.  *)
OnWatchStreamOpen ==
    /\ stream = "starting"
    /\ stream' = "open"
    /\ remote' = WatchAll(remote)
    /\ UNCHANGED <<backend, served, responses, limbos, disk, view, calls, faults>>

(* A message that is gathered. Any message shows that there is a backend.  *)
GatherWatchChange ==
    /\ responses # <<>>
    /\ LET m == Head(responses)
           r == UpdateState(remote, "Online")
       IN /\ m.kind \in {"added", "removed", "current", "docs", "filter"}
          /\ remote' = CASE m.kind = "docs" -> HandleDocumentChange(r, m)
                         [] m.kind = "filter" -> HandleExistenceFilter(r, m)
                         [] OTHER -> HandleTargetChange(r, m)
    /\ responses' = Tail(responses)
    /\ UNCHANGED <<backend, served, stream, limbos, disk, view, calls, faults>>

(* The limbo targets that are current without their document: it is gone.  *)
Missing(r) ==
    {t \in DOMAIN r.states \ {Query} :
       /\ IsActiveTarget(r, t) /\ r.states[t].current
       /\ RemoteKeys(t) = {} /\ Key(t) \notin KeysOf(r.updated) \cup r.gone}

(* A wrong form: a query that was reset is not watched again.              *)
AfterEvent_NoWatch(r, snapshot) ==
    LET counted == {t \in DOMAIN r.states : IsActiveTarget(r, t)}
    IN [r EXCEPT
          !.targets = [t \in DOMAIN @ |-> IF t \in counted THEN {snapshot} ELSE @[t]],
          !.states = [t \in DOMAIN @ |-> IF t \in counted
                                         THEN [@[t] EXCEPT !.added = {}, !.removed = {}]
                                         ELSE @[t]],
          !.updated = {}, !.gone = {}, !.resets = {}]

(* The remote store after the event: a query that was reset is watched     *)
(* again, from the beginning.                                              *)
AfterEvent(r, snapshot) ==
    LET counted == {t \in DOMAIN r.states : IsActiveTarget(r, t)}
        reset == r.resets \cap DOMAIN r.targets
        done == [r EXCEPT
            !.targets = [t \in DOMAIN @ |-> IF t \in reset THEN NoToken
                                            ELSE IF t \in counted THEN {snapshot} ELSE @[t]],
            !.states = [t \in DOMAIN @ |-> IF t \in counted
                                           THEN [@[t] EXCEPT !.added = {}, !.removed = {}]
                                           ELSE @[t]],
            !.updated = {}, !.gone = {}, !.resets = {}]
    IN IF reset = {} THEN done
       ELSE Send(Send(done, Query, Unwatch(Query)), Query, Watch(Query, Keys, NoToken))

(* The limbo lookups that have been sent their document, or lost it.       *)
Received(r) ==
    [t \in DOMAIN limbos.active |->
       IF t \notin DOMAIN r.states \/ ~IsActiveTarget(r, t) THEN limbos.active[t]
       ELSE [limbos.active[t] EXCEPT
               !.received = IF r.states[t].added # {} THEN TRUE
                            ELSE IF r.states[t].removed # {} THEN FALSE ELSE @]]

(* A wrong form: a document is put beside the one the cache has.           *)
CacheAfter_Beside(updated, gone) == Without(cache, gone) \cup updated

CacheAfter(updated, gone) == Without(cache, KeysOf(updated) \cup gone) \cup updated

ForQuery(r) == Query \in DOMAIN r.states /\ IsActiveTarget(r, Query)

(* RaiseWatchSnapshot: all that was gathered becomes one event. The        *)
(* snapshot brings each target that counts a resume token.                 *)
RaiseWatchSnapshot ==
    /\ responses # <<>>
    /\ Head(responses).kind = "snapshot"
    /\ LET r == UpdateState(remote, "Online")
           s == Ensure(r, Query)
           snapshot == Head(responses).docs
           gone == r.gone \cup {Key(t) : t \in Missing(r)}
       IN /\ cache' = CacheAfter(r.updated, gone)
          /\ IF ForQuery(r)
             THEN synced' = (synced \cup s.added) \ s.removed /\ token' = {snapshot}
             ELSE UNCHANGED <<synced, token>>
          /\ EmitNewSnapshots([remote |-> AfterEvent(r, snapshot),
                               limbos |-> [limbos EXCEPT !.active = Received(r)]],
                              IF ForQuery(r) THEN s.current ELSE current)
    /\ responses' = Tail(responses)
    /\ UNCHANGED <<backend, served, stream, live, seen, faults>>

(* ProcessTargetError: the calls get the error of the query; a document    *)
(* that cannot be looked up is taken out of the cache.                     *)
ProcessTargetError ==
    /\ responses # <<>>
    /\ Head(responses).kind = "error"
    /\ responses' = Tail(responses)
    /\ LET t == Head(responses).target
           r == UpdateState(remote, "Online")
           rest == [r EXCEPT !.targets = Less(@, t), !.states = Less(@, t)]
           k == Key(t)
       IN \/ /\ t \notin DOMAIN r.targets
             /\ remote' = r
             /\ UNCHANGED <<limbos, disk, view, calls>>
          \/ /\ t = Query /\ t \in DOMAIN r.targets
             /\ RemoveAndCleanupTarget(rest)
             /\ calls' = [c \in Calls |-> IF calls[c] = "waiting" THEN "error"
                                          ELSE IF IsListening(c) THEN "gone" ELSE calls[c]]
             /\ UNCHANGED disk
          \/ /\ t # Query /\ t \in DOMAIN r.targets
             /\ cache' = Without(cache, {k})
             /\ UNCHANGED <<synced, token, live, seen>>
             /\ EmitNewSnapshots(PumpEnqueuedLimboResolutions(
                    [remote |-> rest, limbos |-> WithoutLookup(limbos, t, k)]), current)
    /\ UNCHANGED <<backend, served, stream, faults>>

(* The stream ends with an error, or cannot be started.                    *)
OnWatchStreamClose ==
    /\ stream # "off"
    /\ Fault
    /\ served' = NoTargets /\ responses' = <<>>
    /\ LET r == WithoutStream(remote)
       IN IF DOMAIN remote.targets = {}
          THEN /\ stream' = "off"
               /\ Broadcast(UpdateState(r, "Unknown"))
          ELSE /\ stream' = "starting"
               /\ Broadcast(HandleWatchStreamStart(HandleWatchStreamFailure(r)))
    /\ UNCHANGED <<backend, limbos, disk, live, limbo, seen>>

IdleTimeout ==
    /\ remote.idle
    /\ stream' = "off" /\ served' = NoTargets /\ responses' = <<>>
    /\ Broadcast(UpdateState(WithoutStream(remote), "Unknown"))
    /\ UNCHANGED <<backend, limbos, disk, live, limbo, seen, faults>>

OnlineStateTimeout ==
    /\ remote.timer
    /\ Broadcast([remote EXCEPT !.timer = FALSE, !.online = "Offline"])
    /\ UNCHANGED <<backend, served, responses, stream, limbos, disk, live, limbo, seen, faults>>

(* The phone's connection has changed.                                     *)
RestartNetwork ==
    /\ Fault
    /\ served' = NoTargets /\ responses' = <<>>
    /\ LET r == UpdateState(WithoutStream(remote), "Unknown")
       IN IF DOMAIN remote.targets = {}
          THEN stream' = "off" /\ Broadcast(r)
          ELSE stream' = "starting" /\ Broadcast(HandleWatchStreamStart(r))
    /\ UNCHANGED <<backend, limbos, disk, live, limbo, seen>>

(* The process ends, and with it the calls; the next one starts anew.      *)
Die ==
    /\ Fault
    /\ served' = NoTargets /\ responses' = <<>> /\ stream' = "off"
    /\ remote' = [UpdateState(WithoutStream(remote), "Unknown") EXCEPT !.targets = NoTargets]
    /\ limbos' = [enqueued |-> <<>>, active |-> NoTargets, byKey |-> NoTargets]
    /\ live' = FALSE /\ current' = FALSE /\ limbo' = {} /\ seen' = {}
    /\ calls' = [c \in Calls |-> IF calls[c] = "new" THEN "new" ELSE "gone"]
    /\ UNCHANGED <<backend, disk>>

--------------------------------------------------------------------------------
(* The backend and the network *)

(* Another phone sets a document, or deletes one.                          *)
Change(k) ==
    /\ changes < MaxChanges
    /\ changes' = changes + 1
    /\ \/ docs' = Without(docs, {k}) \cup {<<k, changes'>>}
       \/ k \in KeysOf(docs) /\ docs' = Without(docs, {k})
    /\ seen' = IF live THEN seen \cup {docs'} ELSE seen
    /\ UNCHANGED <<denied, served, responses, stream, remote, limbos, disk, live, current, limbo,
                   calls, faults>>

Ack(kind, t) == [kind |-> kind, target |-> t]
Snapshot == [kind |-> "snapshot", target |-> Query, docs |-> docs]

Scoped(ds, scope) == {d \in ds : d[1] \in scope}

Within(scope) == Scoped(docs, scope)

(* What the backend says of a target when the client knows of known: what  *)
(* is gone is named, as deleted or as no longer matching, or only counted. *)
Report(t, s, how) ==
    LET now == Within(s.scope)
        added == now \ s.known
        removed == KeysOf(s.known) \ KeysOf(now)
    IN (IF added = {} /\ (removed = {} \/ how = "counted") THEN <<>>
        ELSE <<[kind |-> "docs", target |-> t, added |-> added, deleted |-> how = "deleted",
                removed |-> IF how = "counted" THEN {} ELSE removed]>>)
       \o (IF removed # {} /\ how = "counted"
           THEN <<[kind |-> "filter", target |-> t, count |-> Cardinality(now)]>> ELSE <<>>)

(* All targets of ts are brought up to date.                               *)
Reports(ts, how) ==
    FoldLeft(LAMBDA ms, t : ms \o Report(t, ts[t], how), <<>>, Ascending(DOMAIN ts))

UpToDate(ts) == [t \in DOMAIN ts |-> [ts[t] EXCEPT !.known = Within(ts[t].scope)]]

AnswerUnwatch ==
    /\ Len(responses) <= MaxUnread
    /\ remote.sent # <<>>
    /\ Head(remote.sent).kind = "unwatch"
    /\ LET t == Head(remote.sent).target
       IN /\ served' = Less(served, t)
          /\ responses' = Append(responses, Ack("removed", t))
    /\ remote' = [remote EXCEPT !.sent = Tail(@)]
    /\ UNCHANGED <<backend, stream, limbos, disk, view, calls, faults>>

AnswerWatch(how) ==
    /\ Len(responses) <= MaxUnread
    /\ remote.sent # <<>>
    /\ Head(remote.sent).kind = "watch"
    /\ LET q == Head(remote.sent)
           ts == With(served, q.target, [scope |-> q.scope,
                                         known |-> Scoped(UNION q.token, q.scope)])
       IN IF denied
          THEN /\ responses' = Append(responses, Ack("error", q.target))
               /\ UNCHANGED served
          ELSE /\ responses' = responses \o <<Ack("added", q.target)>> \o Reports(ts, how)
                                 \o <<Ack("current", q.target), Snapshot>>
               /\ served' = UpToDate(ts)
    /\ remote' = [remote EXCEPT !.sent = Tail(@)]
    /\ UNCHANGED <<backend, stream, limbos, disk, view, calls, faults>>

ReportChanges(how) ==
    /\ Len(responses) <= MaxUnread
    /\ Reports(served, how) # <<>>
    /\ responses' = responses \o Reports(served, how) \o <<Snapshot>>
    /\ served' = UpToDate(served)
    /\ UNCHANGED <<backend, stream, remote, limbos, disk, view, calls, faults>>

(* The security rules change: what is watched ends with an error, lookups  *)
(* first.                                                                  *)
Deny ==
    /\ ~denied
    /\ Fault
    /\ denied' = TRUE
    /\ LET ended == Reverse(Ascending(DOMAIN served))
       IN responses' = responses \o [i \in DOMAIN ended |-> Ack("error", ended[i])]
    /\ served' = NoTargets
    /\ UNCHANGED <<docs, changes, stream, remote, limbos, disk, view, calls>>

Next ==
    \/ \E c \in Calls : FirstCall(c) \/ LaterCall(c) \/ RemoveQueryListener(c)
    \/ OnWatchStreamOpen \/ OnWatchStreamClose \/ IdleTimeout \/ OnlineStateTimeout
    \/ GatherWatchChange \/ RaiseWatchSnapshot \/ ProcessTargetError
    \/ RestartNetwork \/ Die
    \/ AnswerUnwatch \/ (\E how \in {"deleted", "removed", "counted"} :
                           AnswerWatch(how) \/ ReportChanges(how))
    \/ (\E k \in Keys : Change(k)) \/ Deny

Spec == Init /\ [][Next]_vars

--------------------------------------------------------------------------------
(* Properties *)

(* The documents of a view in sync are those of a collection the backend   *)
(* has had since the view began.                                           *)
InSync == live /\ current /\ limbo = {} /\ ~denied

(* That, through removals the backend does not spell out, reconnects and   *)
(* whatever it still says of an earlier listen to the same target, as long *)
(* as the resume token on disk stands for the keys on disk.                *)
SyncedIsTheBackend == InSync /\ {KeysOf(ds) : ds \in token} = {synced} => cache \in seen

(* Every document in limbo that is still shown waits to be looked up or is *)
(* looked up by a target the remote store has.                             *)
LimboIsPursued ==
    \A k \in limbo \cap KeysOf(cache) :
        \/ k \in Range(limbos.enqueued)
        \/ /\ k \in DOMAIN limbos.byKey
           /\ limbos.byKey[k] \in DOMAIN limbos.active \cap DOMAIN remote.targets

(* The two tables agree: the remote store has the target of the view and   *)
(* those of the limbo lookups and no others ("target not currently         *)
(* watched").                                                              *)
TargetsAreThose ==
    /\ DOMAIN remote.targets = DOMAIN limbos.active \cup (IF live THEN {Query} ELSE {})
    /\ \A k \in DOMAIN limbos.byKey :
          limbos.byKey[k] \in DOMAIN limbos.active /\ Key(limbos.byKey[k]) = k
    /\ Cardinality(DOMAIN limbos.byKey) <= MaxConcurrentLimboResolutions

(* The answers a target waits for are those that are still to come, in     *)
(* requests not taken and messages not read.                               *)
OutstandingAreToCome ==
    ~denied => \A t \in DOMAIN remote.states :
        remote.states[t].outstanding =
            Cardinality({i \in DOMAIN remote.sent : remote.sent[i].target = t})
            + Cardinality({i \in DOMAIN responses : /\ responses[i].target = t
                                                   /\ responses[i].kind \in {"added", "removed"}})

(* What the online state tracker asserts of its timer and its failures,    *)
(* and that a stream is on its way while there are targets.                *)
TrackerIsSound ==
    /\ remote.timer => remote.online = "Unknown" /\ ~remote.failed
    /\ remote.failed => remote.online = "Offline"
    /\ stream = "off" => ~remote.timer /\ ~remote.failed /\ DOMAIN remote.targets = {}
    /\ remote.idle => stream = "open" /\ DOMAIN remote.targets = {}

(* When nothing is on its way between the client and a backend it is       *)
(* connected to, a call waits for documents in limbo alone.                *)
QuietMeansAnswered ==
    (\E c \in Calls : calls[c] = "waiting") /\ stream = "open" /\ remote.sent = <<>>
       /\ responses = <<>> /\ Reports(served, "deleted") = <<>>
    => limbo # {}

(* What snapshot_metadata.h says of a snapshot that is not from the cache: *)
(* it is "guaranteed up-to-date server data".                              *)
FromServerIsUpToDate == InSync => cache \in seen

================================================================================
