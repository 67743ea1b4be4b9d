----------------------------- MODULE WritePipeline -----------------------------
(***************************************************************************)
(* How one phone's Firestore client sends its writes. They wait on disk as *)
(* batches with ascending ids; the remote store copies the oldest into its *)
(* write pipeline and sends them over a stream that is opened when it is   *)
(* needed, greets the backend first, is reopened after an error with a     *)
(* delay, and is closed when it has been idle. Replies belong to the       *)
(* oldest batch of the pipeline; an error that will not go away is taken   *)
(* to be about that batch. Every action is one operation of the client's   *)
(* worker queue, or a step of the backend or of the network.               *)
(*                                                                         *)
(* MarketClient knows of this a queue and the replies to its oldest        *)
(* writes; module WriteQueue is what all of it has to promise.             *)
(***************************************************************************)
EXTENDS Integers, SequencesExt

CONSTANTS
    Writes,            \* the names of the writes, in the order of their use
    kMaxPendingWrites, \* batches in the pipeline at most
    MaxFaults          \* bound: faults and restarts

ASSUME PipelineAssumption ==
    /\ Writes \subseteq Nat
    /\ kMaxPendingWrites \in Nat \ {0}
    /\ MaxFaults \in Nat

kBatchIdUnknown == -1

VARIABLES
    queue,      \* the mutation queue on disk: batches, lowest id first
    nextId,     \* next_batch_id_ of the process
    callbacks,  \* mutation_callbacks_: which write's closure is kept for an id
    pipeline,   \* write_pipeline_ of the remote store
    up,         \* the client has been started in this process
    state,      \* state_ of the write stream
    closeCount, \* close_count_ of the write stream
    requests,   \* close counts with which a token was asked for and not given
    handshake,  \* where the greeting is; "complete" is handshake_complete_
    idle,       \* the idleness timer runs
    in,         \* replies on the stream that have not been read: their batches
    out,        \* batches written to the stream and not answered
    final,      \* how the backend or the network has ended the stream
    overtaken,  \* a Write that failed is ahead of the next reply to be read
    applied,    \* the writes the backend has applied (history)
    told,       \* what each closure was told (history)
    faults      \* faults so far (bound)

memory == <<nextId, callbacks, pipeline, up, state, closeCount, requests, handshake, idle>>
wire == <<in, out, final, overtaken>>
vars == <<queue, memory, wire, applied, told, faults>>

Batch == [id : Nat, write : Writes]
States == {"Initial", "Starting", "Open", "Error", "Backoff"}
Fates == {"new", "waiting", "ok", "failed", "lost"}

TypeOK ==
    /\ queue \in Seq(Batch)
    /\ nextId \in Nat
    /\ callbacks \subseteq Batch
    /\ pipeline \in Seq(Batch)
    /\ up \in BOOLEAN
    /\ state \in States
    /\ closeCount \in Nat
    /\ requests \subseteq Nat
    /\ handshake \in {"none", "sent", "answered", "complete"}
    /\ idle \in BOOLEAN
    /\ in \in Seq(Batch)
    /\ out \in Seq(Batch)
    /\ final \in {"none", "permanent", "transient"}
    /\ overtaken \in BOOLEAN
    /\ applied \subseteq Writes
    /\ told \in [Writes -> Fates]
    /\ faults \in 0 .. MaxFaults

--------------------------------------------------------------------------------
(* Batches *)

(* A wrong form: the search goes on from the front of the pipeline.        *)
LastRetrieved_Front(p) == IF p = <<>> THEN kBatchIdUnknown ELSE Head(p).id

LastRetrieved(p) == IF p = <<>> THEN kBatchIdUnknown ELSE p[Len(p)].id

(* Where the batches after id begin in q.                                  *)
NextBatch(q, id) ==
    CHOOSE i \in 1 .. Len(q) + 1 :
        /\ \A j \in 1 .. i - 1 : q[j].id <= id
        /\ i <= Len(q) => q[i].id > id

(* The pipeline p, filled up from the queue q.                             *)
Filled(q, p) ==
    LET first == NextBatch(q, LastRetrieved(p))
        room == kMaxPendingWrites - Len(p)
        last == IF first + room - 1 < Len(q) THEN first + room - 1 ELSE Len(q)
    IN p \o SubSeq(q, first, last)

Without(q, b) == RemoveAt(q, CHOOSE i \in 1 .. Len(q) : q[i].id = b.id)

(* A wrong form: an empty queue has no highest id.                         *)
AfterHighest_Unknown(q) == IF q = <<>> THEN kBatchIdUnknown ELSE q[Len(q)].id + 1

(* The highest id in use, plus one: a new process counts on from there.    *)
AfterHighest(q) == IF q = <<>> THEN 1 ELSE q[Len(q)].id + 1

(* First a wrong form: the closure stays when it has been called.          *)
NotifyUser_Kept(b, fate) ==
    /\ told' = [w \in Writes |->
                  IF \E c \in callbacks : c.id = b.id /\ c.write = w THEN fate ELSE told[w]]
    /\ UNCHANGED callbacks

(* The closure kept under the batch's id is called and forgotten.          *)
NotifyUser(b, fate) ==
    /\ told' = [w \in Writes |->
                  IF \E c \in callbacks : c.id = b.id /\ c.write = w THEN fate ELSE told[w]]
    /\ callbacks' = {c \in callbacks : c.id # b.id}

--------------------------------------------------------------------------------
(* The stream and the pipeline *)

IsStarted(s) == s \in {"Starting", "Backoff", "Open"}

(* From the error state a start waits for the backoff delay first.         *)
Start(s) ==
    IF s = "Error"
    THEN state' = "Backoff" /\ UNCHANGED requests
    ELSE state' = "Starting" /\ requests' = requests \cup {closeCount'}

(* A wrong form: a stream that has ended is not started again.             *)
StartIfNeeded_Never(p, s) == state' = s /\ UNCHANGED requests

StartIfNeeded(p, s) ==
    IF ~IsStarted(s) /\ p # <<>> THEN Start(s) ELSE state' = s /\ UNCHANGED requests

(* A wrong form: whether the greeting has been answered is not asked.      *)
MaySend_Open(s) == s = "Open"

MaySend(s) == s = "Open" /\ handshake = "complete"

(* A wrong form: a write leaves the idleness timer running.                *)
IdleAfter_Runs(more, p, s, timer) == IF p = <<>> THEN timer \/ s = "Open" ELSE timer

(* Something sent stops the idleness timer; an open stream with nothing to *)
(* send starts it.                                                         *)
IdleAfter(more, p, s, timer) ==
    IF p = <<>> THEN timer \/ s = "Open" ELSE timer /\ ~(MaySend(s) /\ more # <<>>)

(* FillWritePipeline, in a handler that has left the pipeline p, a stream  *)
(* in state s with the batches sent on it, and the idleness timer; the     *)
(* queue and the close count are those after the handler.                  *)
FillWritePipeline(p, s, sent, timer) ==
    LET full == Filled(queue', p)
        more == SubSeq(full, Len(p) + 1, Len(full))
    IN /\ pipeline' = full
       /\ out' = IF MaySend(s) THEN sent \o more ELSE sent
       /\ idle' = IdleAfter(more, full, s, timer)
       /\ StartIfNeeded(full, s)

(* What every close of the stream does before its listener hears of it.    *)
CloseStream ==
    /\ closeCount' = closeCount + 1
    /\ handshake' = "none"
    /\ in' = <<>> /\ final' = "none" /\ overtaken' = FALSE

(* OnWriteStreamClose after an error: a permanent one after the greeting   *)
(* rejects the oldest batch of the pipeline and the stream may start again *)
(* without delay; any other is retried.                                    *)
CloseWithError(status) ==
    /\ CloseStream
    /\ IF pipeline # <<>> /\ handshake = "complete" /\ status = "permanent"
       THEN /\ queue' = Without(queue, Head(pipeline))
            /\ NotifyUser(Head(pipeline), "failed")
            /\ FillWritePipeline(Tail(pipeline), "Initial", <<>>, FALSE)
       ELSE /\ StartIfNeeded(pipeline, "Error")
            /\ out' = <<>> /\ idle' = FALSE
            /\ UNCHANGED <<queue, callbacks, told, pipeline>>

Fault ==
    /\ faults < MaxFaults
    /\ faults' = faults + 1

--------------------------------------------------------------------------------
(* The operations of the worker queue *)

Init ==
    /\ queue = <<>> /\ nextId = 1 /\ callbacks = {} /\ pipeline = <<>> /\ up = FALSE
    /\ state = "Initial" /\ closeCount = 0 /\ requests = {}
    /\ handshake = "none" /\ idle = FALSE
    /\ in = <<>> /\ out = <<>> /\ final = "none" /\ overtaken = FALSE
    /\ applied = {}
    /\ told = [w \in Writes |-> "new"]
    /\ faults = 0

(* The client starts, in a new process: ids go on from what is on disk.    *)
StartClient ==
    /\ ~up
    /\ up' = TRUE
    /\ nextId' = AfterHighest(queue)
    /\ UNCHANGED <<queue, closeCount>>
    /\ FillWritePipeline(<<>>, "Initial", <<>>, FALSE)
    /\ UNCHANGED <<callbacks, handshake, in, final, overtaken, applied, told, faults>>

(* The app issues the next write.                                          *)
WriteMutations(w) ==
    /\ up
    /\ told[w] = "new"
    /\ \A v \in Writes : v < w => told[v] # "new"
    /\ LET b == [id |-> nextId, write |-> w]
       IN /\ queue' = Append(queue, b)
          /\ callbacks' = callbacks \cup {b}
    /\ nextId' = nextId + 1
    /\ told' = [told EXCEPT ![w] = "waiting"]
    /\ UNCHANGED closeCount
    /\ FillWritePipeline(pipeline, state, out, idle)
    /\ UNCHANGED <<up, handshake, in, final, overtaken, applied, faults>>

(* A token arrives, for the stream that asked or too late: the greeting is *)
(* written as soon as the call has begun, connected or not. First a wrong  *)
(* form that does not ask for whom it is.                                  *)
OpenStream ==
    /\ state' = "Open"
    /\ handshake' = "sent"
    /\ idle' = FALSE

ReceiveToken_Late(n) ==
    /\ n \in requests
    /\ requests' = requests \ {n}
    /\ OpenStream
    /\ UNCHANGED <<queue, nextId, callbacks, pipeline, up, closeCount, wire, applied, told, faults>>

ReceiveToken(n) ==
    /\ n \in requests
    /\ requests' = requests \ {n}
    /\ IF n = closeCount THEN OpenStream ELSE UNCHANGED <<state, handshake, idle>>
    /\ UNCHANGED <<queue, nextId, callbacks, pipeline, up, closeCount, wire, applied, told, faults>>

(* No token can be had: the attempt ends with an error.                    *)
LoseToken ==
    /\ closeCount \in requests
    /\ Fault
    /\ CloseStream
    /\ requests' = requests \ {closeCount}
    /\ state' = IF pipeline = <<>> THEN "Error" ELSE "Backoff"
    /\ out' = <<>> /\ idle' = FALSE
    /\ UNCHANGED <<queue, nextId, callbacks, pipeline, up, applied, told>>

(* The greeting is answered and the whole pipeline is written. First two   *)
(* wrong forms of what is sent then.                                       *)
Resent_Reversed == Reverse(pipeline)

Resent == pipeline

ReadHandshake ==
    /\ handshake = "answered"
    /\ handshake' = "complete"
    /\ out' = Resent
    /\ idle' = (idle /\ pipeline = <<>>)
    /\ UNCHANGED <<queue, nextId, callbacks, pipeline, up, state, closeCount, requests,
                   in, final, overtaken, applied, told, faults>>

(* A wrong form: the free place in the pipeline is not filled.             *)
ReadReply_NoRefill ==
    /\ in # <<>>
    /\ in' = Tail(in)
    /\ queue' = Without(queue, Head(pipeline))
    /\ NotifyUser(Head(pipeline), "ok")
    /\ pipeline' = Tail(pipeline)
    /\ overtaken' = (final = "permanent" /\ Len(out) > 1)
    /\ UNCHANGED <<nextId, up, state, closeCount, requests, handshake, idle, out, final,
                   applied, faults>>

(* A reply is read: the oldest batch of the pipeline is done. If the       *)
(* stream has ended and a Write was still to be made, it has failed before *)
(* the next reply can be read.                                             *)
ReadReply ==
    /\ in # <<>>
    /\ in' = Tail(in)
    /\ queue' = Without(queue, Head(pipeline))
    /\ NotifyUser(Head(pipeline), "ok")
    /\ UNCHANGED closeCount
    /\ FillWritePipeline(Tail(pipeline), state, out, idle)
    /\ overtaken' = (final = "permanent" /\ Len(out) > 1)
    /\ UNCHANGED <<nextId, up, handshake, final, applied, faults>>

(* Everything has been read and the stream's end is reported.              *)
FinishStream ==
    /\ final # "none"
    /\ in = <<>>
    /\ CloseWithError(final)
    /\ UNCHANGED <<nextId, up, applied, faults>>

(* A Write has failed and the stream's end is reported at once; the reply  *)
(* that was about to be read, and those behind it, are dropped.            *)
FinishUnread ==
    /\ overtaken
    /\ in # <<>>
    /\ CloseWithError(final)
    /\ UNCHANGED <<nextId, up, applied, faults>>

BackoffElapses ==
    /\ state = "Backoff"
    /\ state' = "Starting"
    /\ requests' = requests \cup {closeCount}
    /\ UNCHANGED <<queue, nextId, callbacks, pipeline, up, closeCount, handshake, idle, wire,
                   applied, told, faults>>

(* The stream is stopped because it was idle.                              *)
IdleElapses ==
    /\ idle
    /\ CloseStream
    /\ StartIfNeeded(pipeline, "Initial")
    /\ out' = <<>> /\ idle' = FALSE
    /\ UNCHANGED <<queue, nextId, callbacks, pipeline, up, applied, told, faults>>

(* The phone's connection has changed: the stream is stopped, the pipeline *)
(* emptied, and everything started again without delay.                    *)
RestartNetwork ==
    /\ up
    /\ Fault
    /\ closeCount' = IF IsStarted(state) THEN closeCount + 1 ELSE closeCount
    /\ UNCHANGED queue
    /\ FillWritePipeline(<<>>, "Initial", <<>>, FALSE)
    /\ handshake' = "none"
    /\ in' = <<>> /\ final' = "none" /\ overtaken' = FALSE
    /\ UNCHANGED <<nextId, callbacks, up, applied, told>>

(* The process ends; what is on disk stays.                                *)
Die ==
    /\ up
    /\ Fault
    /\ up' = FALSE
    /\ callbacks' = {} /\ pipeline' = <<>>
    /\ state' = "Initial" /\ closeCount' = 0 /\ requests' = {}
    /\ handshake' = "none" /\ idle' = FALSE
    /\ in' = <<>> /\ out' = <<>> /\ final' = "none" /\ overtaken' = FALSE
    /\ told' = [w \in Writes |-> IF told[w] = "waiting" THEN "lost" ELSE told[w]]
    /\ UNCHANGED <<queue, nextId, applied>>

--------------------------------------------------------------------------------
(* The backend and the network *)

AnswerHandshake ==
    /\ handshake = "sent" /\ final = "none"
    /\ handshake' = "answered"
    /\ UNCHANGED <<queue, nextId, callbacks, pipeline, up, state, closeCount, requests, idle,
                   wire, applied, told, faults>>

TakeWrite ==
    /\ out # <<>> /\ final = "none"
    /\ applied' = applied \cup {Head(out).write}
    /\ in' = Append(in, Head(out))
    /\ out' = Tail(out)
    /\ UNCHANGED <<queue, memory, final, overtaken, told, faults>>

(* The backend ends the stream at the next batch, or at the greeting.      *)
Refuse ==
    /\ out # <<>> \/ handshake = "sent"
    /\ final = "none"
    /\ Fault
    /\ final' = "permanent"
    /\ UNCHANGED <<queue, memory, in, out, overtaken, applied, told>>

(* The connection is lost, and with it replies that were on their way.     *)
Disconnect ==
    /\ state = "Open" /\ final = "none"
    /\ Fault
    /\ final' = "transient"
    /\ \E n \in 0 .. Len(in) : in' = SubSeq(in, 1, n)
    /\ UNCHANGED <<queue, memory, out, overtaken, applied, told>>

ClientSteps ==
    \/ \E n \in requests : ReceiveToken(n)
    \/ ReadHandshake \/ ReadReply \/ FinishStream \/ FinishUnread \/ BackoffElapses

BackendSteps == AnswerHandshake \/ TakeWrite

Next ==
    \/ StartClient \/ (\E w \in Writes : WriteMutations(w))
    \/ ClientSteps \/ BackendSteps
    \/ LoseToken \/ IdleElapses \/ RestartNetwork \/ Die \/ Refuse \/ Disconnect

Fairness == WF_vars(ClientSteps) /\ WF_vars(BackendSteps)

Spec == Init /\ [][Next]_vars /\ Fairness

--------------------------------------------------------------------------------
(* Properties *)

(* The pipeline is a copy of the oldest batches on disk, in their order    *)
(* and without gaps, through refills, rejections, restarts and deaths: the *)
(* batch a reply or an error removes is there to be removed ("Attempt to   *)
(* reject nonexistent batch!").                                            *)
PipelineIsTheFront == IsPrefix(pipeline, queue)

(* A greeted stream carries the pipeline, each batch once: first those     *)
(* with an unread reply, then those without. So a reply finds its batch at *)
(* the front ("Got result for empty write pipeline"). A broken connection  *)
(* may have taken replies with it.                                         *)
StreamCarriesThePipeline ==
    /\ handshake = "complete" /\ final # "transient" => in \o out = pipeline
    /\ IsPrefix(in, pipeline)

(* While the client runs, every batch on disk is in the pipeline or the    *)
(* pipeline is full, and a pipeline with batches has a stream that is open *)
(* or on its way: no refill and no restart has been forgotten.             *)
NothingIsForgotten ==
    up => /\ Len(pipeline) = IF Len(queue) < kMaxPendingWrites THEN Len(queue)
                             ELSE kMaxPendingWrites
          /\ pipeline # <<>> => IsStarted(state)

(* The idleness timer runs on an open stream with nothing to send, so that *)
(* no stream is "stopped gracefully while still needed".                   *)
IdleIsUnneeded == idle => state = "Open" /\ pipeline = <<>>

(* A write whose closure is still to be called has one kept for it, under  *)
(* the id of a batch that is still queued, and it is the only one there.   *)
ClosuresAreKept ==
    /\ \A w \in Writes : told[w] = "waiting" <=> \E c \in callbacks : c.write = w
    /\ \A c \in callbacks : \E i \in 1 .. Len(queue) : queue[i] = c
    /\ \A c, e \in callbacks : c.id = e.id => c = e

(* A stream opens out of the starting state alone ("State should still be  *)
(* 'Starting'"), however late a token comes that an earlier attempt asked  *)
(* for.                                                                    *)
OpensFromStarting ==
    [][state # "Open" /\ state' = "Open" => state = "Starting"]_vars

(* All of this keeps the promise of WriteQueue: the queue is the one on    *)
(* disk, and what streams, retries and restarts do to it is to issue,      *)
(* apply and answer writes, or to lose closures.                           *)
Promise == INSTANCE WriteQueue WITH
    queue <- [i \in 1 .. Len(queue) |-> queue[i].write]

ImplementsQueue == Promise!QueueSpec

(* If the process stays alive, every write is answered: faults delay it.   *)
QueueDrains == <>[]up => <>[](queue = <<>>)

================================================================================
