-------------------------- MODULE WritePipelineProofs --------------------------
(***************************************************************************)
(* What holds of WritePipeline for any number of writes, any size of the   *)
(* pipeline and any number of faults: its types, its invariants, that a    *)
(* stream opens out of the starting state alone, and that it implements    *)
(* WriteQueue. The argument is one inductive invariant, IInv, in five      *)
(* parts: the queue, the pipeline, the stream, what the stream carries,    *)
(* and the closures.                                                       *)
(***************************************************************************)
EXTENDS WritePipeline, TLAPS, SequenceTheorems

(* The ids of q ascend.                                                    *)
Ascends(q) == \A i, j \in 1 .. Len(q) : i < j => q[i].id < q[j].id

(* p is a copy of the first batches of q.                                  *)
IsFront(p, q) == Len(p) <= Len(q) /\ \A i \in 1 .. Len(p) : p[i] = q[i]

(* It is all the pipeline can hold of them.                                *)
Full(p, q) ==
    /\ IsFront(p, q)
    /\ Len(p) = Len(q) \/ (Len(p) = kMaxPendingWrites /\ Len(p) <= Len(q))

(* d is b and what r has more than q, of which it goes on.                 *)
Extends(d, b, r, q) ==
    /\ Len(d) = Len(b) + Len(r) - Len(q)
    /\ \A i \in 1 .. Len(d) : d[i] = IF i <= Len(b) THEN b[i] ELSE r[Len(q) + i - Len(b)]

(* r is q without its first batch.                                         *)
Shifted(r, q) ==
    Len(q) = Len(r) + 1 /\ \A i \in 1 .. Len(r) : r[i] = q[i + 1]

--------------------------------------------------------------------------------
(* The queue and the pipeline, as sequences *)

LEMMA BatchType ==
    ASSUME NEW b \in Batch
    PROVE  b.id \in Nat /\ b.id \in Int /\ b.write \in Writes
BY DEF Batch

LEMMA BatchesType ==
    ASSUME NEW q \in Seq(Batch)
    PROVE  /\ Len(q) \in Nat
           /\ q # <<>> <=> Len(q) >= 1
           /\ \A i \in 1 .. Len(q) : q[i] \in Batch /\ q[i].id \in Nat /\ q[i].write \in Writes
<1>1. Len(q) \in Nat /\ \A i \in 1 .. Len(q) : q[i] \in Batch
  OBVIOUS
<1>2. q # <<>> <=> Len(q) >= 1
  BY EmptySeq
<1> QED  BY <1>1, <1>2, BatchType

LEMMA FrontIsPrefix ==
    ASSUME NEW p \in Seq(Batch), NEW q \in Seq(Batch), IsFront(p, q)
    PROVE  IsPrefix(p, q)
<1>1. Len(p) \in Nat /\ Len(q) \in Nat
  OBVIOUS
<1>2. /\ SubSeq(p, 1, Len(p)) \in Seq(Batch) /\ SubSeq(q, 1, Len(p)) \in Seq(Batch)
      /\ Len(SubSeq(p, 1, Len(p))) = Len(p) /\ Len(SubSeq(q, 1, Len(p))) = Len(p)
      /\ \A i \in 1 .. Len(p) : SubSeq(p, 1, Len(p))[i] = p[i]
      /\ \A i \in 1 .. Len(p) : SubSeq(q, 1, Len(p))[i] = q[i]
  BY <1>1 DEF IsFront
<1>3. SubSeq(p, 1, Len(p)) = SubSeq(q, 1, Len(p))
  BY <1>2, SeqEqual DEF IsFront
<1> QED  BY <1>1, <1>3 DEF IsPrefix, IsFront

LEMMA TailIsShifted ==
    ASSUME NEW q \in Seq(Batch), q # <<>>
    PROVE  Tail(q) \in Seq(Batch) /\ Shifted(Tail(q), q)
BY HeadTailProperties DEF Shifted

(* To take out the batch with the first one's id is to take out the first. *)
LEMMA WithoutFirst ==
    ASSUME NEW q \in Seq(Batch), Ascends(q), q # <<>>, NEW b \in Batch, b.id = q[1].id
    PROVE  Without(q, b) \in Seq(Batch) /\ Shifted(Without(q, b), q)
<1>1. Len(q) \in Nat /\ Len(q) >= 1 /\ \A i \in 1 .. Len(q) : q[i] \in Batch /\ q[i].id \in Nat
  BY BatchesType
<1>2. \A i \in 1 .. Len(q) : q[i].id = b.id <=> i = 1
  BY <1>1 DEF Ascends
<1>3. (CHOOSE i \in 1 .. Len(q) : q[i].id = b.id) = 1
  <2> DEFINE Is(i) == q[i].id = b.id
  <2>1. 1 \in 1 .. Len(q) /\ Is(1) /\ \A i \in 1 .. Len(q) : Is(i) => i = 1
    BY <1>1, <1>2
  <2> HIDE DEF Is
  <2>2. (CHOOSE i \in 1 .. Len(q) : Is(i)) = 1
    BY <2>1
  <2> QED  BY <2>2 DEF Is
<1>4. Without(q, b) = SubSeq(q, 1, 0) \o SubSeq(q, 2, Len(q))
  <2>1. Without(q, b) = RemoveAt(q, 1)
    BY <1>3, Zenon DEF Without
  <2>2. RemoveAt(q, 1) = SubSeq(q, 1, 1 - 1) \o SubSeq(q, 1 + 1, Len(q))
    BY Zenon DEF RemoveAt
  <2>3. 1 - 1 = 0 /\ 1 + 1 = 2
    OBVIOUS
  <2> QED  BY <2>1, <2>2, <2>3, Zenon
<1>5. SubSeq(q, 1, 0) \in Seq(Batch) /\ Len(SubSeq(q, 1, 0)) = 0
  BY <1>1, SubSeqProperties
<1>6. SubSeq(q, 2, Len(q)) = Tail(q)
  BY <1>1, TailIsSubSeq
<1>7. Tail(q) \in Seq(Batch) /\ Shifted(Tail(q), q)
  BY TailIsShifted
<1>8. SubSeq(q, 1, 0) \o Tail(q) = Tail(q)
  BY <1>5, <1>7, EmptySeq, ConcatEmptySeq
<1> QED  BY <1>4, <1>6, <1>7, <1>8

(* A shorter queue and a shorter pipeline fit each other as before.        *)
LEMMA ShiftedFront ==
    ASSUME NEW p \in Seq(Batch), NEW q \in Seq(Batch), NEW s \in Seq(Batch), NEW r \in Seq(Batch),
           IsFront(p, q), Shifted(s, p), Shifted(r, q)
    PROVE  IsFront(s, r)
BY DEF IsFront, Shifted

LEMMA ShiftedAscends ==
    ASSUME NEW q \in Seq(Batch), NEW r \in Seq(Batch), Ascends(q), Shifted(r, q)
    PROVE  Ascends(r)
<1>1. \A i \in 1 .. Len(r) : i + 1 \in 1 .. Len(q) /\ r[i] = q[i + 1]
  BY DEF Shifted
<1> QED  BY <1>1 DEF Ascends

(* The search goes on where the pipeline ends.                             *)
LEMMA NextIsNext ==
    ASSUME NEW q \in Seq(Batch), Ascends(q), NEW p \in Seq(Batch), IsFront(p, q)
    PROVE  NextBatch(q, LastRetrieved(p)) = Len(p) + 1
<1> DEFINE id == LastRetrieved(p)
<1>1. Len(p) \in Nat /\ Len(q) \in Nat /\ Len(p) <= Len(q)
  BY DEF IsFront
<1>2. \A i \in 1 .. Len(q) : q[i].id \in Nat
  BY BatchesType
<1>3. \A i \in 1 .. Len(q) : IF i <= Len(p) THEN q[i].id <= id ELSE q[i].id > id
  <2>1. CASE p = <<>>
    <3>1. Len(p) = 0 /\ id = -1
      BY <2>1 DEF LastRetrieved, kBatchIdUnknown
    <3> QED  BY <1>1, <1>2, <3>1
  <2>2. CASE p # <<>>
    <3>1. id = q[Len(p)].id /\ Len(p) \in 1 .. Len(q)
      BY <1>1, <2>2, BatchesType DEF LastRetrieved, IsFront
    <3>2. \A i \in 1 .. Len(q) : IF i <= Len(p) THEN q[i].id <= q[Len(p)].id
                                ELSE q[i].id > q[Len(p)].id
      BY <1>1, <1>2, <3>1 DEF Ascends
    <3> QED  BY <3>1, <3>2
  <2> QED  BY <2>1, <2>2
<1>4. id \in Int
  BY <1>1, <1>2 DEF LastRetrieved, kBatchIdUnknown, IsFront
<1> DEFINE Here(i) == (\A j \in 1 .. i - 1 : q[j].id <= id) /\ (i <= Len(q) => q[i].id > id)
<1>5. Len(p) + 1 \in 1 .. Len(q) + 1 /\ Here(Len(p) + 1)
  BY <1>1, <1>3
<1>6. \A i \in 1 .. Len(q) + 1 : Here(i) => i = Len(p) + 1
  BY <1>1, <1>2, <1>3, <1>4
<1> HIDE DEF id, Here
<1>7. (CHOOSE i \in 1 .. Len(q) + 1 : Here(i)) = Len(p) + 1
  BY <1>5, <1>6
<1> QED  BY <1>7 DEF NextBatch, Here, id

(* What FillWritePipeline makes of a pipeline that is a copy of the front. *)
LEMMA FilledIsFull ==
    ASSUME NEW q \in Seq(Batch), Ascends(q), NEW p \in Seq(Batch), IsFront(p, q),
           Len(p) <= kMaxPendingWrites
    PROVE  /\ Filled(q, p) \in Seq(Batch)
           /\ Full(Filled(q, p), q)
           /\ Len(p) <= Len(Filled(q, p)) /\ Len(Filled(q, p)) <= kMaxPendingWrites
           /\ \A i \in 1 .. Len(p) : Filled(q, p)[i] = p[i]
<1>1. Len(p) \in Nat /\ Len(q) \in Nat /\ Len(p) <= Len(q) /\ kMaxPendingWrites \in Nat
  BY PipelineAssumption DEF IsFront, PipelineAssumption
<1> DEFINE last == IF kMaxPendingWrites < Len(q) THEN kMaxPendingWrites ELSE Len(q)
           more == SubSeq(q, Len(p) + 1, last)
<1>2. NextBatch(q, LastRetrieved(p)) + (kMaxPendingWrites - Len(p)) - 1 = kMaxPendingWrites
  BY <1>1, NextIsNext
<1>3. Filled(q, p) = p \o more
  BY <1>2, NextIsNext DEF Filled
<1>4. last \in Nat /\ Len(p) <= last /\ last <= Len(q)
  BY <1>1
<1>5. /\ more \in Seq(Batch) /\ Len(more) = last - Len(p)
      /\ \A i \in 1 .. last - Len(p) : more[i] = q[Len(p) + i]
  BY <1>1, <1>4, SubSeqProperties
<1> HIDE DEF more
<1>6. /\ p \o more \in Seq(Batch) /\ Len(p \o more) = last
      /\ \A i \in 1 .. last : (p \o more)[i] = q[i]
  BY <1>1, <1>4, <1>5, ConcatProperties DEF IsFront
<1>7. \A i \in 1 .. Len(p) : (p \o more)[i] = p[i]
  BY <1>1, <1>4, <1>6 DEF IsFront
<1> QED  BY <1>1, <1>3, <1>4, <1>6, <1>7 DEF Full, IsFront

--------------------------------------------------------------------------------
(* The inductive invariant *)

(* Ids ascend, a write is queued once, and one that is queued is not new.  *)
QueueInv ==
    /\ Ascends(queue)
    /\ up => \A i \in 1 .. Len(queue) : queue[i].id < nextId
    /\ \A i, j \in 1 .. Len(queue) : queue[i].write = queue[j].write => i = j
    /\ \A i \in 1 .. Len(queue) : told[queue[i].write] # "new"

(* The pipeline is the front of the queue, all of it that there is room    *)
(* for while the client runs, and has a stream then.                       *)
PipelineInv ==
    /\ IsFront(pipeline, queue)
    /\ Len(pipeline) <= kMaxPendingWrites
    /\ up => Full(pipeline, queue)
    /\ up /\ pipeline # <<>> => IsStarted(state)

(* Every open stream has been greeted or is about to be; there is nothing  *)
(* on a stream before. A token is awaited while a stream starts, and what  *)
(* else is awaited is of the past.                                         *)
StreamInv ==
    /\ ~up => pipeline = <<>> /\ callbacks = {} /\ state = "Initial"
    /\ state # "Open" => handshake = "none" /\ ~idle /\ final = "none" /\ ~overtaken
    /\ state = "Open" => handshake # "none"
    /\ handshake # "complete" => in = <<>> /\ out = <<>>
    /\ handshake # "complete" /\ IsStarted(state) => pipeline # <<>>
    /\ \A n \in requests : n <= closeCount
    /\ closeCount \in requests <=> state = "Starting"
    /\ idle => pipeline = <<>>

(* b goes on in p where a ends.                                            *)
Carries(a, b, p) ==
    /\ Len(p) = Len(a) + Len(b)
    /\ \A i \in 1 .. Len(b) : b[i] = p[Len(a) + i]

(* The stream carries the pipeline, and the backend has what it answered.  *)
CarryInv ==
    /\ IsFront(in, pipeline)
    /\ handshake = "complete" /\ final # "transient" => Carries(in, out, pipeline)
    /\ \A i \in 1 .. Len(in) : in[i].write \in applied

(* No write has two closures.                                              *)
ClosureInv ==
    /\ ClosuresAreKept
    /\ \A c, e \in callbacks : c.write = e.write => c = e

IInv == TypeOK /\ QueueInv /\ PipelineInv /\ StreamInv /\ CarryInv /\ ClosureInv

--------------------------------------------------------------------------------
(* What the shared parts of the handlers do *)

(* The tokens that are awaited, when a stream in state s is started for    *)
(* the batches p if they need it.                                          *)
LEMMA StartFacts ==
    ASSUME NEW p, NEW s \in States, requests \subseteq Nat, closeCount' \in Nat,
           \A n \in requests : n <= closeCount', closeCount' \in requests <=> s = "Starting",
           StartIfNeeded(p, s)
    PROVE  /\ state' \in States /\ requests' \subseteq Nat
           /\ \A n \in requests' : n <= closeCount'
           /\ closeCount' \in requests' <=> state' = "Starting"
           /\ p # <<>> => IsStarted(state')
           /\ p = <<>> => state' = s
           /\ IsStarted(s) => state' = s
           /\ state' = "Open" => s = "Open"
<1>1. CASE ~IsStarted(s) /\ p # <<>>
  <2>1. Start(s)
    BY <1>1 DEF StartIfNeeded
  <2>2. CASE s = "Error"
    <3>1. state' = "Backoff" /\ requests' = requests
      BY <2>1, <2>2 DEF Start
    <3> QED  BY <1>1, <2>2, <3>1 DEF IsStarted, States
  <2>3. CASE s # "Error"
    <3>1. state' = "Starting" /\ requests' = requests \cup {closeCount'}
      BY <2>1, <2>3 DEF Start
    <3> QED  BY <1>1, <3>1 DEF IsStarted, States
  <2> QED  BY <2>2, <2>3
<1>2. CASE ~(~IsStarted(s) /\ p # <<>>)
  <2>1. state' = s /\ requests' = requests
    BY <1>2 DEF StartIfNeeded
  <2> QED  BY <1>2, <2>1 DEF IsStarted, States
<1> QED  BY <1>1, <1>2

(* The pipeline p, which is the front of the queue, is filled; what is new *)
(* goes on the stream if it may.                                           *)
LEMMA FillFacts ==
    ASSUME NEW p \in Seq(Batch), NEW s, NEW sent \in Seq(Batch), NEW timer,
           queue' \in Seq(Batch), Ascends(queue'), IsFront(p, queue'),
           Len(p) <= kMaxPendingWrites, FillWritePipeline(p, s, sent, timer)
    PROVE  /\ pipeline' \in Seq(Batch) /\ Full(pipeline', queue')
           /\ Len(pipeline') <= kMaxPendingWrites
           /\ IsFront(p, pipeline')
           /\ out' \in Seq(Batch)
           /\ ~MaySend(s) => out' = sent
           /\ MaySend(s) => Extends(out', sent, pipeline', p)
<1> DEFINE full == Filled(queue', p)
           more == SubSeq(full, Len(p) + 1, Len(full))
<1>1. /\ full \in Seq(Batch) /\ Full(full, queue') /\ Len(full) <= kMaxPendingWrites
      /\ Len(p) <= Len(full) /\ \A i \in 1 .. Len(p) : full[i] = p[i]
  BY FilledIsFull
<1>2. pipeline' = full /\ out' = IF MaySend(s) THEN sent \o more ELSE sent
  BY DEF FillWritePipeline
<1> HIDE DEF full
<1>3. Len(p) \in Nat /\ Len(full) \in Nat
  BY <1>1
<1>4. /\ more \in Seq(Batch) /\ Len(more) = Len(full) - Len(p)
      /\ \A i \in 1 .. Len(full) - Len(p) : more[i] = full[Len(p) + i]
  BY <1>1, <1>3, SubSeqProperties
<1> HIDE DEF more
<1>5. /\ sent \o more \in Seq(Batch) /\ Len(sent \o more) = Len(sent) + Len(more)
      /\ \A i \in 1 .. Len(sent) + Len(more) :
           (sent \o more)[i] = IF i <= Len(sent) THEN sent[i] ELSE more[i - Len(sent)]
  BY <1>4, ConcatProperties
<1>5a. IsFront(p, full)
  BY <1>1 DEF IsFront
<1>6. CASE ~MaySend(s)
  BY <1>1, <1>2, <1>6, <1>5a
<1>7. CASE MaySend(s)
  <2>1. out' = sent \o more
    BY <1>2, <1>7
  <2>2. Len(sent) \in Nat /\ Len(out') = Len(sent) + Len(full) - Len(p)
    BY <1>3, <1>4, <1>5, <2>1
  <2>3. \A i \in 1 .. Len(out') :
          out'[i] = IF i <= Len(sent) THEN sent[i] ELSE full[Len(p) + i - Len(sent)]
    <3> SUFFICES ASSUME NEW i \in 1 .. Len(out')
                 PROVE  out'[i] = IF i <= Len(sent) THEN sent[i] ELSE full[Len(p) + i - Len(sent)]
      OBVIOUS
    <3>1. i \in 1 .. Len(sent) + Len(more)
      BY <1>3, <1>4, <2>2
    <3>2. out'[i] = IF i <= Len(sent) THEN sent[i] ELSE more[i - Len(sent)]
      BY <1>5, <2>1, <3>1
    <3>3. CASE i <= Len(sent)
      BY <3>2, <3>3
    <3>4. CASE ~(i <= Len(sent))
      <4>1. i - Len(sent) \in 1 .. Len(full) - Len(p)
        BY <1>3, <1>4, <2>2, <3>1, <3>4
      <4>2. more[i - Len(sent)] = full[Len(p) + (i - Len(sent))]
        BY <1>4, <4>1
      <4>3. Len(p) + (i - Len(sent)) = Len(p) + i - Len(sent)
        BY <1>3, <2>2
      <4> QED  BY <3>2, <3>4, <4>2, <4>3
    <3> QED  BY <3>3, <3>4
  <2>4. Extends(out', sent, full, p)
    BY <2>2, <2>3 DEF Extends
  <2> QED  BY <1>1, <1>2, <1>5, <1>7, <1>5a, <2>1, <2>4
<1> QED  BY <1>6, <1>7

(* The idleness timer runs afterwards only if there is nothing to send.    *)
LEMMA FillIdle ==
    ASSUME NEW p \in Seq(Batch), NEW s, NEW sent \in Seq(Batch), NEW timer \in BOOLEAN,
           queue' \in Seq(Batch), Ascends(queue'), IsFront(p, queue'),
           Len(p) <= kMaxPendingWrites, FillWritePipeline(p, s, sent, timer),
           timer => s = "Open" /\ p = <<>>,
           s = "Open" /\ handshake # "complete" => p # <<>>
    PROVE  idle' \in BOOLEAN /\ (idle' => s = "Open" /\ pipeline' = <<>>)
<1> DEFINE full == Filled(queue', p)
           more == SubSeq(full, Len(p) + 1, Len(full))
<1>1. full \in Seq(Batch) /\ pipeline' = full /\ idle' = IdleAfter(more, full, s, timer)
  BY FilledIsFull DEF FillWritePipeline
<1> HIDE DEF full
<1>2. p = <<>> => more = full
  <2>1. SUFFICES ASSUME p = <<>> PROVE more = full
    OBVIOUS
  <2>2. Len(p) + 1 = 1
    BY <2>1
  <2>3. SubSeq(full, 1, Len(full)) = full
    BY <1>1, SubSeqFull
  <2> QED  BY <2>2, <2>3
<1> HIDE DEF more
<1>3. CASE full = <<>>
  BY <1>1, <1>3 DEF IdleAfter
<1>4. CASE full # <<>>
  <2>1. idle' = (timer /\ ~(MaySend(s) /\ more # <<>>))
    BY <1>1, <1>4 DEF IdleAfter
  <2>2. timer => MaySend(s) /\ more # <<>>
    BY <1>2, <1>4 DEF MaySend
  <2> QED  BY <2>1, <2>2
<1> QED  BY <1>3, <1>4

LEMMA FillStart ==
    ASSUME NEW p, NEW s, NEW sent, NEW timer, FillWritePipeline(p, s, sent, timer)
    PROVE  StartIfNeeded(pipeline', s)
BY Zenon DEF FillWritePipeline

(* The parts of the invariant after a step, spelled out.                   *)
LEMMA QueuePrime ==
    ASSUME Ascends(queue'),
           up' => \A i \in 1 .. Len(queue') : queue'[i].id < nextId',
           \A i, j \in 1 .. Len(queue') : queue'[i].write = queue'[j].write => i = j,
           \A i \in 1 .. Len(queue') : told'[queue'[i].write] # "new"
    PROVE  QueueInv'
BY DEF QueueInv, Ascends

LEMMA PipelinePrime ==
    ASSUME IsFront(pipeline', queue'), Len(pipeline') <= kMaxPendingWrites,
           up' => Full(pipeline', queue'), up' /\ pipeline' # <<>> => IsStarted(state')
    PROVE  PipelineInv'
BY DEF PipelineInv, IsFront, Full, IsStarted

LEMMA StreamPrime ==
    ASSUME ~up' => pipeline' = <<>> /\ callbacks' = {} /\ state' = "Initial",
           state' # "Open" =>
               handshake' = "none" /\ ~idle' /\ final' = "none" /\ ~overtaken',
           state' = "Open" => handshake' # "none",
           handshake' # "complete" => in' = <<>> /\ out' = <<>>,
           handshake' # "complete" /\ IsStarted(state') => pipeline' # <<>>,
           \A n \in requests' : n <= closeCount',
           closeCount' \in requests' <=> state' = "Starting",
           idle' => pipeline' = <<>>
    PROVE  StreamInv'
BY DEF StreamInv, IsStarted

LEMMA CarryPrime ==
    ASSUME IsFront(in', pipeline'),
           handshake' = "complete" /\ final' # "transient" => Carries(in', out', pipeline'),
           \A i \in 1 .. Len(in') : in'[i].write \in applied'
    PROVE  CarryInv'
BY DEF CarryInv, IsFront, Carries

(* Nothing is on a stream that has not been greeted.                       *)
LEMMA CarryNothing ==
    ASSUME in' = <<>>, handshake' # "complete", pipeline' \in Seq(Batch)
    PROVE  CarryInv'
<1>1. Len(in') = 0 /\ Len(pipeline') \in Nat
  BY EmptySeq
<1>2. IsFront(in', pipeline')
  BY <1>1 DEF IsFront
<1>3. \A i \in 1 .. Len(in') : in'[i].write \in applied'
  BY <1>1
<1> QED  BY <1>2, <1>3, CarryPrime

(* The parts a step leaves alone.                                          *)
LEMMA QueueSame ==
    ASSUME QueueInv, queue' = queue, nextId' = nextId, up' = up, told' = told
    PROVE  QueueInv'
BY DEF QueueInv, Ascends

LEMMA PipelineSame ==
    ASSUME PipelineInv, pipeline' = pipeline, queue' = queue, up' = up,
           up /\ pipeline # <<>> => IsStarted(state')
    PROVE  PipelineInv'
BY PipelinePrime DEF PipelineInv

LEMMA ClosureSame ==
    ASSUME ClosureInv, callbacks' = callbacks, told' = told, queue' = queue
    PROVE  ClosureInv'
BY DEF ClosureInv, ClosuresAreKept

(* The oldest batch leaves the queue, and its closure is called.           *)
LEMMA QueueShrinks ==
    ASSUME TypeOK, QueueInv, ClosureInv, queue # <<>>, NEW b \in Batch, b = queue[1],
           NEW fate \in {"ok", "failed"}, NotifyUser(b, fate), queue' = Without(queue, b),
           up' = up, nextId' = nextId
    PROVE  /\ queue' \in Seq(Batch) /\ Shifted(queue', queue) /\ Ascends(queue')
           /\ QueueInv'
           /\ callbacks' \subseteq Batch /\ told' \in [Writes -> Fates] /\ ClosureInv'
           /\ told' = IF told[b.write] = "waiting" THEN [told EXCEPT ![b.write] = fate] ELSE told
<1>1. /\ queue \in Seq(Batch) /\ Ascends(queue) /\ callbacks \subseteq Batch
      /\ told \in [Writes -> Fates] /\ b.write \in Writes
  BY BatchType DEF TypeOK, QueueInv
<1>2. /\ Len(queue) \in Nat /\ Len(queue) >= 1
      /\ \A i \in 1 .. Len(queue) : queue[i].id \in Nat /\ queue[i].write \in Writes
  BY <1>1, BatchesType
<1>3. queue' \in Seq(Batch) /\ Shifted(queue', queue)
  BY <1>1, WithoutFirst
<1>4. Ascends(queue')
  BY <1>1, <1>3, ShiftedAscends
<1>5. /\ Len(queue') \in Nat /\ Len(queue) = Len(queue') + 1
      /\ \A i \in 1 .. Len(queue') : i + 1 \in 1 .. Len(queue) /\ queue'[i] = queue[i + 1]
  BY <1>3 DEF Shifted
<1>6. \A c \in callbacks : \E i \in 1 .. Len(queue) : queue[i] = c
  BY DEF ClosureInv, ClosuresAreKept
<1>7. \A i \in 1 .. Len(queue) : (queue[i].id = b.id => i = 1) /\ (queue[i].write = b.write => i = 1)
  BY <1>1, <1>2 DEF QueueInv, Ascends
<1>8. \A c \in callbacks : (c.id = b.id <=> c = b) /\ (c.write = b.write <=> c = b)
  BY <1>6, <1>7
<1>9. callbacks' = callbacks \ {b}
  BY <1>8 DEF NotifyUser
<1>10. told' = [w \in Writes |-> IF b \in callbacks /\ w = b.write THEN fate ELSE told[w]]
  <2>1. \A w \in Writes : (\E c \in callbacks : c.id = b.id /\ c.write = w)
                           <=> (b \in callbacks /\ w = b.write)
    BY <1>8
  <2> QED  BY <2>1 DEF NotifyUser
<1>11. told[b.write] = "waiting" <=> b \in callbacks
  <2>1. told[b.write] = "waiting" <=> \E c \in callbacks : c.write = b.write
    BY <1>1 DEF ClosureInv, ClosuresAreKept
  <2> QED  BY <1>8, <2>1
<1>12. told' = IF told[b.write] = "waiting" THEN [told EXCEPT ![b.write] = fate] ELSE told
  BY <1>1, <1>10, <1>11
<1>13. told' \in [Writes -> Fates]
  BY <1>1, <1>10 DEF Fates
<1>14. ClosureInv'
  <2>1. \A w \in Writes : told'[w] = "waiting" <=> \E c \in callbacks' : c.write = w
    <3> SUFFICES ASSUME NEW w \in Writes
                 PROVE  told'[w] = "waiting" <=> \E c \in callbacks' : c.write = w
      OBVIOUS
    <3>1. told[w] = "waiting" <=> \E c \in callbacks : c.write = w
      BY DEF ClosureInv, ClosuresAreKept
    <3>2. CASE w = b.write
      BY <1>8, <1>9, <1>10, <1>11, <3>1, <3>2
    <3>3. CASE w # b.write
      BY <1>9, <1>10, <3>1, <3>3
    <3> QED  BY <3>2, <3>3
  <2>2. \A c \in callbacks' : \E i \in 1 .. Len(queue') : queue'[i] = c
    <3> SUFFICES ASSUME NEW c \in callbacks' PROVE \E i \in 1 .. Len(queue') : queue'[i] = c
      OBVIOUS
    <3>1. PICK i \in 1 .. Len(queue) : queue[i] = c
      BY <1>6, <1>9
    <3>2. i # 1
      BY <1>9, <3>1
    <3>3. i - 1 \in 1 .. Len(queue') /\ queue'[i - 1] = queue[(i - 1) + 1]
      BY <1>2, <1>5, <3>1, <3>2
    <3> QED  BY <3>1, <3>3
  <2>3. /\ \A c, e \in callbacks' : c.id = e.id => c = e
        /\ \A c, e \in callbacks' : c.write = e.write => c = e
    BY <1>9 DEF ClosureInv, ClosuresAreKept
  <2> QED  BY <2>1, <2>2, <2>3 DEF ClosureInv, ClosuresAreKept
<1>15. QueueInv'
  <2>1. up' => \A i \in 1 .. Len(queue') : queue'[i].id < nextId'
    BY <1>5 DEF QueueInv
  <2>2. \A i, j \in 1 .. Len(queue') : queue'[i].write = queue'[j].write => i = j
    <3> SUFFICES ASSUME NEW i \in 1 .. Len(queue'), NEW j \in 1 .. Len(queue'),
                        queue'[i].write = queue'[j].write
                 PROVE  i = j
      OBVIOUS
    <3>1. i + 1 = j + 1
      BY <1>5 DEF QueueInv
    <3> QED  BY <1>5, <3>1
  <2>3. \A i \in 1 .. Len(queue') : told'[queue'[i].write] # "new"
    BY <1>2, <1>5, <1>10 DEF QueueInv
  <2> QED  BY <1>4, <2>1, <2>2, <2>3, QueuePrime
<1> QED  BY <1>3, <1>4, <1>9, <1>1, <1>12, <1>13, <1>14, <1>15

--------------------------------------------------------------------------------
(* The handlers that fill the pipeline keep the invariant *)

(* The oldest batch of a pipeline is the oldest of the queue.              *)
LEMMA HeadsAgree ==
    ASSUME TypeOK, IsFront(pipeline, queue), pipeline # <<>>
    PROVE  /\ queue # <<>> /\ Head(pipeline) = queue[1] /\ Head(pipeline) \in Batch
           /\ Tail(pipeline) \in Seq(Batch) /\ Shifted(Tail(pipeline), pipeline)
<1>1. pipeline \in Seq(Batch) /\ queue \in Seq(Batch)
  BY DEF TypeOK
<1>2. /\ Len(pipeline) \in Nat /\ Len(pipeline) >= 1 /\ Len(queue) \in Nat /\ Len(queue) >= 1
      /\ pipeline[1] = queue[1] /\ pipeline[1] \in Batch
  BY <1>1, BatchesType DEF IsFront
<1>3. Head(pipeline) = pipeline[1]
  BY <1>1, <1>2
<1>4. Tail(pipeline) \in Seq(Batch) /\ Shifted(Tail(pipeline), pipeline)
  BY <1>1, TailIsShifted
<1>5. queue # <<>>
  BY <1>1, <1>2, EmptySeq
<1> QED  BY <1>2, <1>3, <1>4, <1>5

(* A stream that has been closed without a word on the batches.            *)
LEMMA ClosedKeeps ==
    ASSUME TypeOK, QueueInv, PipelineInv, ClosureInv, up, CloseStream,
           out' = <<>>, idle' = FALSE, queue' = queue, nextId' = nextId, callbacks' = callbacks,
           pipeline' = pipeline, up' = up, applied' = applied, told' = told,
           faults' \in 0 .. MaxFaults,
           state' \in States, state' # "Open", requests' \subseteq Nat,
           \A n \in requests' : n <= closeCount', closeCount' \in requests' <=> state' = "Starting",
           IsStarted(state') <=> pipeline # <<>>
    PROVE  IInv'
<1>1. /\ closeCount' = closeCount + 1 /\ handshake' = "none" /\ in' = <<>> /\ final' = "none"
      /\ overtaken' = FALSE
  BY DEF CloseStream
<1>2. closeCount' \in Nat /\ in' \in Seq(Batch) /\ out' \in Seq(Batch)
  BY <1>1 DEF TypeOK
<1>3. TypeOK'
  BY <1>1, <1>2 DEF TypeOK
<1>4. QueueInv' /\ ClosureInv' /\ PipelineInv'
  BY QueueSame, ClosureSame, PipelineSame
<1>5. StreamInv'
  BY <1>1, StreamPrime
<1>6. CarryInv'
  <2>1. pipeline' \in Seq(Batch)
    BY <1>3 DEF TypeOK
  <2> QED  BY <1>1, <2>1, CarryNothing
<1> QED  BY <1>3, <1>4, <1>5, <1>6 DEF IInv

LEMMA CloseKeeps ==
    ASSUME IInv, NEW status, CloseWithError(status), state = "Open",
           UNCHANGED <<nextId, up, applied, faults>>
    PROVE  IInv'
<1>1. TypeOK /\ QueueInv /\ PipelineInv /\ StreamInv /\ ClosureInv
  BY DEF IInv
<1>2. /\ closeCount' = closeCount + 1 /\ handshake' = "none" /\ in' = <<>> /\ final' = "none"
      /\ overtaken' = FALSE
  BY DEF CloseWithError, CloseStream
<1>3. up /\ nextId' = nextId /\ up' = up /\ applied' = applied /\ faults' = faults
  BY <1>1 DEF StreamInv
<1>4. /\ closeCount' \in Nat /\ requests \subseteq Nat /\ \A n \in requests : n <= closeCount'
      /\ closeCount' \notin requests
  BY <1>1, <1>2 DEF TypeOK, StreamInv
<1>5. in' \in Seq(Batch) /\ <<>> \in Seq(Batch)
  BY <1>2
<1>6. CASE pipeline # <<>> /\ handshake = "complete" /\ status = "permanent"
  <2>1. /\ queue' = Without(queue, Head(pipeline)) /\ NotifyUser(Head(pipeline), "failed")
        /\ FillWritePipeline(Tail(pipeline), "Initial", <<>>, FALSE)
    BY <1>6 DEF CloseWithError
  <2>2. /\ queue # <<>> /\ Head(pipeline) = queue[1] /\ Head(pipeline) \in Batch
        /\ Tail(pipeline) \in Seq(Batch) /\ Shifted(Tail(pipeline), pipeline)
    BY <1>1, <1>6, HeadsAgree DEF PipelineInv
  <2>3. /\ queue' \in Seq(Batch) /\ Shifted(queue', queue) /\ Ascends(queue') /\ QueueInv'
        /\ callbacks' \subseteq Batch /\ told' \in [Writes -> Fates] /\ ClosureInv'
    BY <1>1, <1>3, <2>1, <2>2, QueueShrinks
  <2>4. IsFront(Tail(pipeline), queue') /\ Len(Tail(pipeline)) <= kMaxPendingWrites
    <3>1. pipeline \in Seq(Batch) /\ queue \in Seq(Batch)
      BY <1>1 DEF TypeOK
    <3>2. IsFront(Tail(pipeline), queue')
      BY <1>1, <2>2, <2>3, <3>1, ShiftedFront DEF PipelineInv
    <3>3. Len(pipeline) \in Nat /\ Len(Tail(pipeline)) \in Nat /\ kMaxPendingWrites \in Nat
      BY <2>2, <3>1, PipelineAssumption DEF PipelineAssumption
    <3> QED  BY <1>1, <2>2, <3>2, <3>3 DEF PipelineInv, Shifted
  <2>5. ~MaySend("Initial") /\ "Initial" \in States /\ ~IsStarted("Initial")
    BY DEF MaySend, States, IsStarted
  <2>6. /\ pipeline' \in Seq(Batch) /\ Full(pipeline', queue') /\ Len(pipeline') <= kMaxPendingWrites
        /\ out' \in Seq(Batch) /\ out' = <<>>
    BY <1>5, <2>1, <2>2, <2>3, <2>4, <2>5, FillFacts
  <2>7. idle' = FALSE
    <3>1. idle' \in BOOLEAN /\ (idle' => "Initial" = "Open" /\ pipeline' = <<>>)
      BY <1>5, <2>1, <2>2, <2>3, <2>4, FillIdle, Zenon
    <3> QED  BY <3>1
  <2>8. StartIfNeeded(pipeline', "Initial")
    BY <2>1, FillStart
  <2>9. /\ state' \in States /\ requests' \subseteq Nat /\ \A n \in requests' : n <= closeCount'
        /\ closeCount' \in requests' <=> state' = "Starting"
        /\ pipeline' # <<>> => IsStarted(state')
        /\ pipeline' = <<>> => state' = "Initial"
        /\ state' # "Open"
    BY <1>4, <2>5, <2>8, StartFacts
  <2>10. TypeOK'
    BY <1>1, <1>2, <1>3, <1>4, <1>5, <2>3, <2>6, <2>7, <2>9 DEF TypeOK
  <2>11. PipelineInv'
    BY <2>6, <2>9, PipelinePrime DEF Full
  <2>12. StreamInv'
    <3>1. IsStarted(state') => pipeline' # <<>>
      BY <2>5, <2>9
    <3> QED  BY <1>2, <1>3, <2>6, <2>7, <2>9, <3>1, StreamPrime
  <2>13. CarryInv'
    BY <1>2, <2>6, CarryNothing
  <2> QED  BY <2>3, <2>10, <2>11, <2>12, <2>13 DEF IInv
<1>7. CASE ~(pipeline # <<>> /\ handshake = "complete" /\ status = "permanent")
  <2>1. /\ StartIfNeeded(pipeline, "Error") /\ out' = <<>> /\ idle' = FALSE
        /\ queue' = queue /\ callbacks' = callbacks /\ told' = told /\ pipeline' = pipeline
    BY <1>7 DEF CloseWithError
  <2>2. "Error" \in States /\ ~IsStarted("Error")
    BY DEF States, IsStarted
  <2>3. /\ state' \in States /\ requests' \subseteq Nat /\ \A n \in requests' : n <= closeCount'
        /\ closeCount' \in requests' <=> state' = "Starting"
        /\ pipeline # <<>> => IsStarted(state')
        /\ pipeline = <<>> => state' = "Error"
        /\ state' # "Open"
    BY <1>4, <2>1, <2>2, StartFacts
  <2>4. CloseStream /\ faults' \in 0 .. MaxFaults
    BY <1>1, <1>3 DEF CloseWithError, TypeOK
  <2> QED  BY <1>1, <1>3, <2>1, <2>2, <2>3, <2>4, ClosedKeeps
<1> QED  BY <1>6, <1>7

(* What is read before and after a reply lines up with the pipeline.       *)
LEMMA ShiftedCarries ==
    ASSUME NEW a \in Seq(Batch), NEW b \in Seq(Batch), NEW p \in Seq(Batch),
           NEW c \in Seq(Batch), NEW d \in Seq(Batch), NEW q \in Seq(Batch), NEW r \in Seq(Batch),
           Carries(a, b, p), Shifted(c, a), Shifted(q, p),
           IsFront(q, r), Extends(d, b, r, q)
    PROVE  Carries(c, d, r)
<1>1. /\ Len(a) \in Nat /\ Len(b) \in Nat /\ Len(c) \in Nat /\ Len(d) \in Nat /\ Len(p) \in Nat
      /\ Len(q) \in Nat /\ Len(r) \in Nat
  OBVIOUS
<1>2. /\ Len(p) = Len(a) + Len(b) /\ Len(a) = Len(c) + 1 /\ Len(p) = Len(q) + 1
      /\ \A i \in 1 .. Len(b) : b[i] = p[Len(a) + i]
      /\ \A i \in 1 .. Len(q) : q[i] = p[i + 1] /\ r[i] = q[i]
      /\ Len(d) = Len(b) + Len(r) - Len(q)
      /\ \A i \in 1 .. Len(d) : d[i] = IF i <= Len(b) THEN b[i] ELSE r[Len(q) + i - Len(b)]
  BY DEF Carries, Shifted, IsFront, Extends
<1>3. Len(q) = Len(c) + Len(b) /\ Len(r) = Len(c) + Len(d)
  <2>1. /\ Len(p) = Len(a) + Len(b) /\ Len(a) = Len(c) + 1 /\ Len(p) = Len(q) + 1
        /\ Len(d) = Len(b) + Len(r) - Len(q)
    BY <1>2
  <2>2. Len(q) = Len(c) + Len(b)
    BY <1>1, <2>1
  <2> QED  BY <1>1, <2>1, <2>2
<1>4. ASSUME NEW i \in 1 .. Len(d) PROVE d[i] = r[Len(c) + i]
  <2>1. CASE i <= Len(b)
    <3>1. i \in 1 .. Len(b) /\ Len(c) + i \in 1 .. Len(q)
      BY <1>1, <1>3, <2>1
    <3>2. /\ d[i] = p[Len(a) + i] /\ q[Len(c) + i] = p[(Len(c) + i) + 1]
          /\ r[Len(c) + i] = q[Len(c) + i]
      BY <1>2, <2>1, <3>1
    <3>3. (Len(c) + i) + 1 = Len(a) + i
      BY <1>1, <1>2
    <3> QED  BY <3>1, <3>2, <3>3
  <2>2. CASE ~(i <= Len(b))
    <3>1. Len(q) + i - Len(b) = Len(c) + i
      BY <1>1, <1>3
    <3> QED  BY <1>2, <2>2, <3>1
  <2> QED  BY <2>1, <2>2
<1> QED  BY <1>3, <1>4 DEF Carries

LEMMA ReadReplyKeeps ==
    ASSUME IInv, ReadReply
    PROVE  IInv'
<1>1. TypeOK /\ QueueInv /\ PipelineInv /\ StreamInv /\ CarryInv /\ ClosureInv
  BY DEF IInv
<1>2. /\ in # <<>> /\ in' = Tail(in) /\ queue' = Without(queue, Head(pipeline))
      /\ NotifyUser(Head(pipeline), "ok") /\ closeCount' = closeCount
      /\ FillWritePipeline(Tail(pipeline), state, out, idle)
      /\ overtaken' = (final = "permanent" /\ Len(out) > 1)
      /\ nextId' = nextId /\ up' = up /\ handshake' = handshake /\ final' = final
      /\ applied' = applied /\ faults' = faults
  BY DEF ReadReply
<1>3. /\ in \in Seq(Batch) /\ out \in Seq(Batch) /\ pipeline \in Seq(Batch) /\ queue \in Seq(Batch)
      /\ requests \subseteq Nat /\ closeCount \in Nat /\ idle \in BOOLEAN /\ state \in States
  BY <1>1 DEF TypeOK
<1>4. handshake = "complete" /\ state = "Open" /\ up
  BY <1>1, <1>2 DEF StreamInv
<1>5. pipeline # <<>>
  <2>1. Len(in) >= 1 /\ Len(in) <= Len(pipeline) /\ Len(pipeline) \in Nat /\ Len(in) \in Nat
    BY <1>1, <1>2, <1>3, BatchesType DEF CarryInv, IsFront
  <2> QED  BY <1>3, <2>1, BatchesType
<1>6. /\ queue # <<>> /\ Head(pipeline) = queue[1] /\ Head(pipeline) \in Batch
      /\ Tail(pipeline) \in Seq(Batch) /\ Shifted(Tail(pipeline), pipeline)
  BY <1>1, <1>5, HeadsAgree DEF PipelineInv
<1>7. /\ queue' \in Seq(Batch) /\ Shifted(queue', queue) /\ Ascends(queue') /\ QueueInv'
      /\ callbacks' \subseteq Batch /\ told' \in [Writes -> Fates] /\ ClosureInv'
  BY <1>1, <1>2, <1>6, QueueShrinks
<1>8. in' \in Seq(Batch) /\ Shifted(in', in)
  BY <1>2, <1>3, TailIsShifted
<1>9. IsFront(Tail(pipeline), queue') /\ IsFront(in', Tail(pipeline))
  BY <1>1, <1>3, <1>6, <1>7, <1>8, ShiftedFront DEF PipelineInv, CarryInv
<1>10. Len(Tail(pipeline)) <= kMaxPendingWrites
  <2>1. Len(pipeline) \in Nat /\ Len(Tail(pipeline)) \in Nat /\ kMaxPendingWrites \in Nat
    BY <1>3, <1>6, PipelineAssumption DEF PipelineAssumption
  <2> QED  BY <1>1, <1>6, <2>1 DEF PipelineInv, Shifted
<1>11. MaySend(state) /\ idle = FALSE /\ IsStarted(state)
  BY <1>1, <1>3, <1>4, <1>5 DEF MaySend, IsStarted, StreamInv
<1>12. /\ pipeline' \in Seq(Batch) /\ Full(pipeline', queue') /\ Len(pipeline') <= kMaxPendingWrites
       /\ IsFront(Tail(pipeline), pipeline')
       /\ out' \in Seq(Batch) /\ Extends(out', out, pipeline', Tail(pipeline))
  BY <1>2, <1>3, <1>6, <1>7, <1>9, <1>10, <1>11, FillFacts, Zenon
<1>13. idle' \in BOOLEAN /\ (idle' => pipeline' = <<>>)
  BY <1>2, <1>3, <1>4, <1>6, <1>7, <1>9, <1>10, <1>11, FillIdle
<1>14. StartIfNeeded(pipeline', state)
  BY <1>2, FillStart
<1>15. /\ state' = state /\ requests' \subseteq Nat /\ \A n \in requests' : n <= closeCount'
       /\ closeCount' \in requests' <=> state' = "Starting"
  <2>1. /\ \A n \in requests : n <= closeCount'
        /\ closeCount' \in requests <=> state = "Starting"
    BY <1>1, <1>2 DEF StreamInv
  <2>2. closeCount' \in Nat
    BY <1>2, <1>3
  <2>3. /\ state' \in States /\ requests' \subseteq Nat
        /\ \A n \in requests' : n <= closeCount'
        /\ closeCount' \in requests' <=> state' = "Starting"
        /\ pipeline' # <<>> => IsStarted(state')
        /\ pipeline' = <<>> => state' = state
        /\ IsStarted(state) => state' = state
        /\ state' = "Open" => state = "Open"
    BY <1>3, <1>14, <2>1, <2>2, StartFacts, Zenon
  <2> QED  BY <1>11, <2>3
<1>16. TypeOK'
  <2>1. overtaken' \in BOOLEAN
    BY <1>2
  <2> QED  BY <1>1, <1>2, <1>7, <1>8, <1>12, <1>13, <1>15, <2>1 DEF TypeOK
<1>17. PipelineInv'
  BY <1>11, <1>12, <1>15, PipelinePrime DEF Full
<1>18. StreamInv'
  BY <1>2, <1>4, <1>13, <1>15, StreamPrime
<1>19. CarryInv'
  <2>1. IsFront(in', pipeline')
    <3>1. Len(in') \in Nat /\ Len(pipeline') \in Nat /\ Len(Tail(pipeline)) \in Nat
      BY <1>6, <1>8, <1>12
    <3> QED  BY <1>9, <1>12, <3>1 DEF IsFront
  <2>2. handshake' = "complete" /\ final' # "transient" => Carries(in', out', pipeline')
    <3>1. SUFFICES ASSUME final # "transient" PROVE Carries(in', out', pipeline')
      BY <1>2
    <3>2. Carries(in, out, pipeline)
      BY <1>1, <1>4, <3>1 DEF CarryInv
    <3> DEFINE rest == Tail(pipeline)
    <3>3. /\ in \in Seq(Batch) /\ out \in Seq(Batch) /\ pipeline \in Seq(Batch)
          /\ in' \in Seq(Batch) /\ out' \in Seq(Batch) /\ pipeline' \in Seq(Batch)
          /\ rest \in Seq(Batch)
          /\ Shifted(in', in) /\ Shifted(rest, pipeline)
          /\ IsFront(rest, pipeline') /\ Extends(out', out, pipeline', rest)
      BY <1>3, <1>6, <1>8, <1>12
    <3> HIDE DEF rest
    <3> QED  BY <3>2, <3>3, ShiftedCarries
  <2>3. \A i \in 1 .. Len(in') : in'[i].write \in applied'
    BY <1>1, <1>2, <1>3, <1>8 DEF CarryInv, Shifted
  <2> QED  BY <2>1, <2>2, <2>3, CarryPrime
<1> QED  BY <1>7, <1>16, <1>17, <1>18, <1>19 DEF IInv

LEMMA ExtendedCarries ==
    ASSUME NEW a \in Seq(Batch), NEW b \in Seq(Batch), NEW p \in Seq(Batch),
           NEW d \in Seq(Batch), NEW r \in Seq(Batch),
           Carries(a, b, p), IsFront(p, r), Extends(d, b, r, p)
    PROVE  Carries(a, d, r)
<1>1. /\ Len(a) \in Nat /\ Len(b) \in Nat /\ Len(d) \in Nat /\ Len(p) \in Nat /\ Len(r) \in Nat
  OBVIOUS
<1>2. /\ Len(p) = Len(a) + Len(b) /\ Len(d) = Len(b) + Len(r) - Len(p)
      /\ \A i \in 1 .. Len(b) : b[i] = p[Len(a) + i]
      /\ \A i \in 1 .. Len(p) : p[i] = r[i]
      /\ \A i \in 1 .. Len(d) : d[i] = IF i <= Len(b) THEN b[i] ELSE r[Len(p) + i - Len(b)]
  BY DEF Carries, IsFront, Extends
<1>3. Len(r) = Len(a) + Len(d)
  <2>1. Len(p) = Len(a) + Len(b) /\ Len(d) = Len(b) + Len(r) - Len(p)
    BY <1>2
  <2> QED  BY <1>1, <2>1
<1>4. ASSUME NEW i \in 1 .. Len(d) PROVE d[i] = r[Len(a) + i]
  <2>1. CASE i <= Len(b)
    <3>1. i \in 1 .. Len(b) /\ Len(a) + i \in 1 .. Len(p)
      BY <1>1, <1>2, <2>1
    <3> QED  BY <1>2, <2>1, <3>1
  <2>2. CASE ~(i <= Len(b))
    <3>1. Len(p) + i - Len(b) = Len(a) + i
      BY <1>1, <1>2
    <3> QED  BY <1>2, <2>2, <3>1
  <2> QED  BY <2>1, <2>2
<1> QED  BY <1>3, <1>4 DEF Carries

(* A batch with the next id goes to the end of the queue.                  *)
LEMMA QueueGrows ==
    ASSUME TypeOK, QueueInv, ClosureInv, up, NEW w \in Writes, told[w] = "new", up' = up,
           NEW b, b = [id |-> nextId, write |-> w],
           queue' = Append(queue, b), callbacks' = callbacks \cup {b}, nextId' = nextId + 1,
           told' = [told EXCEPT ![w] = "waiting"]
    PROVE  /\ queue' \in Seq(Batch) /\ IsFront(queue, queue') /\ Ascends(queue') /\ QueueInv'
           /\ nextId' \in Nat /\ callbacks' \subseteq Batch /\ told' \in [Writes -> Fates]
           /\ ClosureInv'
<1>1. /\ queue \in Seq(Batch) /\ nextId \in Nat /\ callbacks \subseteq Batch
      /\ told \in [Writes -> Fates]
  BY DEF TypeOK
<1>2. b \in Batch /\ b.id = nextId /\ b.write = w
  BY <1>1 DEF Batch
<1>3. /\ queue' \in Seq(Batch) /\ Len(queue) \in Nat /\ Len(queue') = Len(queue) + 1
      /\ \A i \in 1 .. Len(queue) : queue'[i] = queue[i]
      /\ queue'[Len(queue) + 1] = b
  BY <1>1, <1>2, AppendProperties
<1>4. \A i \in 1 .. Len(queue) : /\ queue[i].id \in Nat /\ queue[i].id < nextId
                                 /\ queue[i].write \in Writes /\ queue[i].write # w
  BY <1>1, BatchesType DEF QueueInv
<1>5. \A i \in 1 .. Len(queue') : i = Len(queue) + 1 \/ i \in 1 .. Len(queue)
  BY <1>3
<1>6. Ascends(queue')
  BY <1>2, <1>3, <1>4, <1>5 DEF QueueInv, Ascends
<1>7. QueueInv'
  <2>1. \A i \in 1 .. Len(queue') : queue'[i].id < nextId'
    BY <1>1, <1>2, <1>3, <1>4, <1>5
  <2>2. \A i, j \in 1 .. Len(queue') : queue'[i].write = queue'[j].write => i = j
    BY <1>2, <1>3, <1>4, <1>5 DEF QueueInv
  <2>3. \A i \in 1 .. Len(queue') : told'[queue'[i].write] # "new"
    BY <1>1, <1>2, <1>3, <1>4, <1>5 DEF QueueInv
  <2> QED  BY <1>6, <2>1, <2>2, <2>3, QueuePrime
<1>8. \A c \in callbacks : (\E i \in 1 .. Len(queue) : queue[i] = c) /\ c.write # w /\ c.id # nextId
  <2>1. \A c \in callbacks : \E i \in 1 .. Len(queue) : queue[i] = c
    BY DEF ClosureInv, ClosuresAreKept
  <2> QED  BY <1>1, <1>4, <2>1
<1>9. ClosureInv'
  <2>1. \A v \in Writes : told'[v] = "waiting" <=> \E c \in callbacks' : c.write = v
    BY <1>1, <1>2 DEF ClosureInv, ClosuresAreKept
  <2>2. \A c \in callbacks' : \E i \in 1 .. Len(queue') : queue'[i] = c
    <3> SUFFICES ASSUME NEW c \in callbacks' PROVE \E i \in 1 .. Len(queue') : queue'[i] = c
      OBVIOUS
    <3>1. CASE c = b
      <4>1. Len(queue) + 1 \in 1 .. Len(queue')
        BY <1>3
      <4> QED  BY <1>3, <3>1, <4>1
    <3>2. CASE c \in callbacks
      <4>1. PICK i \in 1 .. Len(queue) : queue[i] = c
        BY <1>8, <3>2
      <4>2. i \in 1 .. Len(queue') /\ queue'[i] = c
        BY <1>3, <4>1
      <4> QED  BY <4>2
    <3> QED  BY <3>1, <3>2
  <2>3. /\ \A c, e \in callbacks' : c.id = e.id => c = e
        /\ \A c, e \in callbacks' : c.write = e.write => c = e
    BY <1>2, <1>8 DEF ClosureInv, ClosuresAreKept
  <2> QED  BY <2>1, <2>2, <2>3 DEF ClosureInv, ClosuresAreKept
<1>10. /\ callbacks' \subseteq Batch /\ told' \in [Writes -> Fates] /\ nextId' \in Nat
  BY <1>1, <1>2 DEF Fates
<1>11. IsFront(queue, queue')
  BY <1>3 DEF IsFront
<1> QED  BY <1>3, <1>6, <1>7, <1>9, <1>10, <1>11

LEMMA FrontTransitive ==
    ASSUME NEW p \in Seq(Batch), NEW q \in Seq(Batch), NEW r \in Seq(Batch),
           IsFront(p, q), IsFront(q, r)
    PROVE  IsFront(p, r)
BY DEF IsFront

LEMMA WriteMutationsKeeps ==
    ASSUME IInv, NEW w \in Writes, WriteMutations(w)
    PROVE  IInv'
<1>1. TypeOK /\ QueueInv /\ PipelineInv /\ StreamInv /\ CarryInv /\ ClosureInv
  BY DEF IInv
<1> DEFINE b == [id |-> nextId, write |-> w]
<1>2. /\ up /\ told[w] = "new" /\ queue' = Append(queue, b) /\ callbacks' = callbacks \cup {b}
      /\ nextId' = nextId + 1 /\ told' = [told EXCEPT ![w] = "waiting"]
      /\ closeCount' = closeCount /\ FillWritePipeline(pipeline, state, out, idle)
      /\ up' = up /\ handshake' = handshake /\ in' = in /\ final' = final
      /\ overtaken' = overtaken /\ applied' = applied /\ faults' = faults
  BY DEF WriteMutations
<1> HIDE DEF b
<1>3. /\ in \in Seq(Batch) /\ out \in Seq(Batch) /\ pipeline \in Seq(Batch) /\ queue \in Seq(Batch)
      /\ requests \subseteq Nat /\ closeCount \in Nat /\ idle \in BOOLEAN /\ state \in States
  BY <1>1 DEF TypeOK
<1>4. /\ queue' \in Seq(Batch) /\ IsFront(queue, queue') /\ Ascends(queue') /\ QueueInv'
      /\ nextId' \in Nat /\ callbacks' \subseteq Batch /\ told' \in [Writes -> Fates]
      /\ ClosureInv'
  BY <1>1, <1>2, QueueGrows DEF b
<1>5. IsFront(pipeline, queue') /\ Len(pipeline) <= kMaxPendingWrites
  BY <1>1, <1>3, <1>4, FrontTransitive DEF PipelineInv
<1>6. /\ pipeline' \in Seq(Batch) /\ Full(pipeline', queue') /\ Len(pipeline') <= kMaxPendingWrites
      /\ IsFront(pipeline, pipeline')
      /\ out' \in Seq(Batch)
      /\ ~MaySend(state) => out' = out
      /\ MaySend(state) => Extends(out', out, pipeline', pipeline)
  BY <1>2, <1>3, <1>4, <1>5, FillFacts, Zenon
<1>7. /\ idle => state = "Open" /\ pipeline = <<>>
      /\ state = "Open" /\ handshake # "complete" => pipeline # <<>>
  BY <1>1 DEF StreamInv, IsStarted
<1>8. idle' \in BOOLEAN /\ (idle' => state = "Open" /\ pipeline' = <<>>)
  BY <1>2, <1>3, <1>4, <1>5, <1>7, FillIdle, Zenon
<1>9. /\ \A n \in requests : n <= closeCount'
      /\ closeCount' \in requests <=> state = "Starting"
      /\ closeCount' \in Nat
  BY <1>1, <1>2, <1>3 DEF StreamInv
<1>10. StartIfNeeded(pipeline', state)
  BY <1>2, FillStart
<1>11. /\ state' \in States /\ requests' \subseteq Nat
       /\ \A n \in requests' : n <= closeCount'
       /\ closeCount' \in requests' <=> state' = "Starting"
       /\ pipeline' # <<>> => IsStarted(state')
       /\ pipeline' = <<>> => state' = state
       /\ IsStarted(state) => state' = state
       /\ state' = "Open" => state = "Open"
  BY <1>3, <1>9, <1>10, StartFacts, Zenon
<1>12. TypeOK'
  BY <1>1, <1>2, <1>3, <1>4, <1>6, <1>8, <1>9, <1>11 DEF TypeOK
<1>13. PipelineInv'
  BY <1>6, <1>11, PipelinePrime DEF Full
<1>14. pipeline # <<>> => pipeline' # <<>>
  <2>1. Len(pipeline) <= Len(pipeline') /\ Len(pipeline) \in Nat /\ Len(pipeline') \in Nat
    BY <1>3, <1>6 DEF IsFront
  <2> QED  BY <1>3, <1>6, <2>1, BatchesType
<1>15. IsStarted("Open")
  BY DEF IsStarted
<1>16. StreamInv'
  <2>1. state' # "Open" => handshake' = "none" /\ ~idle' /\ final' = "none" /\ ~overtaken'
    <3>1. state' # "Open" => state # "Open"
      BY <1>11, <1>15
    <3> QED  BY <1>1, <1>2, <1>8, <3>1 DEF StreamInv
  <2>2. state' = "Open" => handshake' # "none"
    BY <1>1, <1>2, <1>11 DEF StreamInv
  <2>3. handshake' # "complete" => in' = <<>> /\ out' = <<>>
    BY <1>1, <1>2, <1>6 DEF StreamInv, MaySend
  <2>4. handshake' # "complete" /\ IsStarted(state') => pipeline' # <<>>
    <3>1. SUFFICES ASSUME handshake # "complete", IsStarted(state'), pipeline' = <<>>
                   PROVE  FALSE
      BY <1>2
    <3>2. IsStarted(state)
      BY <1>11, <3>1
    <3> QED  BY <1>1, <1>14, <3>1, <3>2 DEF StreamInv
  <2> QED  BY <1>2, <1>8, <1>11, <2>1, <2>2, <2>3, <2>4, StreamPrime
<1>17. CarryInv'
  <2>1. IsFront(in', pipeline')
    BY <1>1, <1>2, <1>3, <1>6, FrontTransitive DEF CarryInv
  <2>2. handshake' = "complete" /\ final' # "transient" => Carries(in', out', pipeline')
    <3>1. SUFFICES ASSUME handshake = "complete", final # "transient"
                   PROVE  Carries(in, out', pipeline')
      BY <1>2
    <3>2. Carries(in, out, pipeline)
      BY <1>1, <3>1 DEF CarryInv
    <3>3. MaySend(state)
      BY <1>1, <3>1 DEF MaySend, StreamInv
    <3> QED  BY <1>3, <1>6, <3>2, <3>3, ExtendedCarries
  <2>3. \A i \in 1 .. Len(in') : in'[i].write \in applied'
    BY <1>1, <1>2 DEF CarryInv
  <2> QED  BY <2>1, <2>2, <2>3, CarryPrime
<1> QED  BY <1>4, <1>12, <1>13, <1>16, <1>17 DEF IInv

(* With an empty pipeline and no stream, everything begins anew.           *)
LEMMA RefillKeeps ==
    ASSUME TypeOK, QueueInv', ClosureInv', queue' = queue, Ascends(queue),
           FillWritePipeline(<<>>, "Initial", <<>>, FALSE), up' = TRUE,
           \A n \in requests : n <= closeCount', closeCount' \notin requests,
           closeCount' \in Nat, nextId' \in Nat,
           handshake' = "none", in' = <<>>, final' = "none", overtaken' = FALSE,
           callbacks' = callbacks, told' = told, applied' = applied,
           faults' \in 0 .. MaxFaults
    PROVE  IInv'
<1>1. /\ queue' \in Seq(Batch) /\ <<>> \in Seq(Batch) /\ requests \subseteq Nat /\ FALSE \in BOOLEAN
      /\ Len(<<>>) = 0 /\ Len(queue') \in Nat
  BY DEF TypeOK
<1> DEFINE none == <<>>
<1>2. IsFront(none, queue') /\ Len(none) <= kMaxPendingWrites /\ Ascends(queue')
  BY <1>1, PipelineAssumption DEF IsFront, PipelineAssumption
<1>3. ~MaySend("Initial") /\ "Initial" \in States /\ ~IsStarted("Initial") /\ none \in Seq(Batch)
  BY <1>1 DEF MaySend, States, IsStarted
<1>4. FillWritePipeline(none, "Initial", none, FALSE)
  OBVIOUS
<1> HIDE DEF none
<1>5. /\ pipeline' \in Seq(Batch) /\ Full(pipeline', queue') /\ Len(pipeline') <= kMaxPendingWrites
      /\ out' \in Seq(Batch) /\ out' = none
  BY <1>1, <1>2, <1>3, <1>4, FillFacts
<1>6. idle' = FALSE
  <2>1. idle' \in BOOLEAN /\ (idle' => "Initial" = "Open" /\ pipeline' = <<>>)
    <3>1. queue' \in Seq(Batch)
      BY <1>1
    <3> QED  BY <1>2, <1>3, <1>4, <3>1, FillIdle
  <2> QED  BY <2>1
<1>7. StartIfNeeded(pipeline', "Initial")
  BY <1>4, FillStart
<1>8. /\ state' \in States /\ requests' \subseteq Nat /\ \A n \in requests' : n <= closeCount'
      /\ closeCount' \in requests' <=> state' = "Starting"
      /\ pipeline' # <<>> => IsStarted(state')
      /\ pipeline' = <<>> => state' = "Initial"
      /\ state' # "Open"
  BY <1>1, <1>3, <1>7, StartFacts
<1>9. TypeOK'
  BY <1>1, <1>5, <1>6, <1>8 DEF TypeOK
<1>10. PipelineInv'
  BY <1>5, <1>8, PipelinePrime DEF Full
<1>11. StreamInv'
  <2>1. IsStarted(state') => pipeline' # <<>>
    BY <1>3, <1>8
  <2> QED  BY <1>5, <1>6, <1>8, <2>1, StreamPrime DEF none
<1>12. CarryInv'
  BY <1>5, CarryNothing
<1> QED  BY <1>9, <1>10, <1>11, <1>12 DEF IInv

LEMMA StartClientKeeps ==
    ASSUME IInv, StartClient
    PROVE  IInv'
<1>1. TypeOK /\ QueueInv /\ StreamInv /\ ClosureInv
  BY DEF IInv
<1>2. /\ ~up /\ up' = TRUE /\ nextId' = AfterHighest(queue) /\ queue' = queue
      /\ closeCount' = closeCount /\ FillWritePipeline(<<>>, "Initial", <<>>, FALSE)
      /\ callbacks' = callbacks /\ handshake' = handshake /\ in' = in /\ final' = final
      /\ overtaken' = overtaken /\ applied' = applied /\ told' = told /\ faults' = faults
  BY DEF StartClient
<1>3. queue \in Seq(Batch) /\ closeCount \in Nat /\ faults \in 0 .. MaxFaults
  BY <1>1 DEF TypeOK
<1>4. /\ Len(queue) \in Nat /\ (queue # <<>> <=> Len(queue) >= 1)
      /\ \A i \in 1 .. Len(queue) : queue[i].id \in Nat
  BY <1>3, BatchesType
<1>5. nextId' \in Nat /\ \A i \in 1 .. Len(queue) : queue[i].id < nextId'
  <2>1. CASE queue = <<>>
    <3>1. nextId' = 1 /\ Len(queue) = 0
      BY <1>2, <2>1 DEF AfterHighest
    <3> QED  BY <3>1
  <2>2. CASE queue # <<>>
    <3>1. nextId' = queue[Len(queue)].id + 1 /\ Len(queue) \in 1 .. Len(queue)
      BY <1>2, <1>4, <2>2 DEF AfterHighest
    <3>2. \A i \in 1 .. Len(queue) : i = Len(queue) \/ queue[i].id < queue[Len(queue)].id
      BY <1>1, <1>4, <3>1 DEF QueueInv, Ascends
    <3> QED  BY <1>4, <3>1, <3>2
  <2> QED  BY <2>1, <2>2
<1>6. QueueInv' /\ Ascends(queue) /\ ClosureInv'
  <2>1. ClosureInv' /\ Ascends(queue)
    BY <1>1, <1>2, ClosureSame DEF QueueInv
  <2> QED  BY <1>1, <1>2, <1>5, <2>1, QueuePrime DEF QueueInv
<1>7. handshake = "none" /\ in = <<>> /\ final = "none" /\ overtaken = FALSE /\ state = "Initial"
  <2>1. overtaken \in BOOLEAN
    BY <1>1 DEF TypeOK
  <2> QED  BY <1>1, <1>2, <2>1 DEF StreamInv
<1>8. (\A n \in requests : n <= closeCount) /\ closeCount \notin requests
  BY <1>1, <1>7 DEF StreamInv
<1> QED  BY <1>1, <1>2, <1>3, <1>5, <1>6, <1>7, <1>8, RefillKeeps

LEMMA RestartNetworkKeeps ==
    ASSUME IInv, RestartNetwork
    PROVE  IInv'
<1>1. TypeOK /\ QueueInv /\ StreamInv /\ ClosureInv
  BY DEF IInv
<1>2. /\ up /\ faults < MaxFaults /\ faults' = faults + 1 /\ queue' = queue
      /\ closeCount' = IF IsStarted(state) THEN closeCount + 1 ELSE closeCount
      /\ FillWritePipeline(<<>>, "Initial", <<>>, FALSE)
      /\ handshake' = "none" /\ in' = <<>> /\ final' = "none" /\ overtaken' = FALSE
      /\ nextId' = nextId /\ callbacks' = callbacks /\ up' = up /\ applied' = applied
      /\ told' = told
  BY DEF RestartNetwork, Fault
<1>3. closeCount \in Nat /\ requests \subseteq Nat /\ nextId \in Nat /\ up \in BOOLEAN
  BY <1>1 DEF TypeOK
<1>4. faults' \in 0 .. MaxFaults
  BY <1>1, <1>2, PipelineAssumption DEF TypeOK, PipelineAssumption
<1>5. (\A n \in requests : n <= closeCount') /\ closeCount' \notin requests /\ closeCount' \in Nat
  <2>1. \A n \in requests : n <= closeCount /\ n \in Nat
    BY <1>1, <1>3 DEF StreamInv
  <2>2. CASE IsStarted(state)
    BY <1>2, <1>3, <2>1, <2>2
  <2>3. CASE ~IsStarted(state)
    BY <1>1, <1>2, <1>3, <2>1, <2>3 DEF StreamInv, IsStarted
  <2> QED  BY <2>2, <2>3
<1>6. QueueInv' /\ ClosureInv' /\ Ascends(queue)
  BY <1>1, <1>2, QueueSame, ClosureSame DEF QueueInv
<1> QED  BY <1>1, <1>2, <1>3, <1>4, <1>5, <1>6, RefillKeeps

--------------------------------------------------------------------------------
(* The other steps keep the invariant *)

LEMMA ReceiveTokenKeeps ==
    ASSUME IInv, NEW n \in requests, ReceiveToken(n)
    PROVE  IInv'
<1>1. TypeOK /\ QueueInv /\ PipelineInv /\ StreamInv /\ CarryInv /\ ClosureInv
  BY DEF IInv
<1>2. /\ requests' = requests \ {n} /\ queue' = queue /\ nextId' = nextId /\ callbacks' = callbacks
      /\ pipeline' = pipeline /\ up' = up /\ closeCount' = closeCount /\ in' = in /\ out' = out
      /\ final' = final /\ overtaken' = overtaken /\ applied' = applied /\ told' = told
      /\ faults' = faults
  BY DEF ReceiveToken, wire
<1>3. QueueInv' /\ ClosureInv'
  BY <1>1, <1>2, QueueSame, ClosureSame
<1>4. CASE n = closeCount
  <2>1. state' = "Open" /\ handshake' = "sent" /\ idle' = FALSE
    BY <1>4 DEF ReceiveToken, OpenStream
  <2>2. state = "Starting" /\ pipeline # <<>> /\ up
    BY <1>1, <1>4 DEF StreamInv, IsStarted
  <2>3. in = <<>> /\ out = <<>>
    BY <1>1, <2>2 DEF StreamInv
  <2>4. TypeOK'
    BY <1>1, <1>2, <2>1 DEF TypeOK, States
  <2>5. IsStarted(state')
    BY <2>1 DEF IsStarted
  <2>6. PipelineInv'
    BY <1>1, <1>2, <2>5, PipelineSame
  <2>7. StreamInv'
    <3>1. closeCount' \notin requests' /\ \A m \in requests' : m <= closeCount'
      BY <1>1, <1>2, <1>4 DEF StreamInv
    <3> QED  BY <1>2, <2>1, <2>2, <2>3, <3>1, StreamPrime
  <2>8. CarryInv'
    BY <1>1, <1>2, <2>1, <2>3, CarryNothing DEF TypeOK
  <2> QED  BY <1>3, <2>4, <2>6, <2>7, <2>8 DEF IInv
<1>5. CASE n # closeCount
  <2>1. state' = state /\ handshake' = handshake /\ idle' = idle
    BY <1>5 DEF ReceiveToken
  <2>2. TypeOK'
    BY <1>1, <1>2, <2>1 DEF TypeOK
  <2>3. PipelineInv'
    BY <1>1, <1>2, <2>1, PipelineSame DEF PipelineInv
  <2>4. StreamInv'
    BY <1>1, <1>2, <1>5, <2>1, StreamPrime DEF StreamInv
  <2>5. CarryInv'
    BY <1>1, <1>2, <2>1, CarryPrime DEF CarryInv
  <2> QED  BY <1>3, <2>2, <2>3, <2>4, <2>5 DEF IInv
<1> QED  BY <1>4, <1>5

LEMMA FaultType ==
    ASSUME TypeOK, Fault
    PROVE  faults' \in 0 .. MaxFaults
BY PipelineAssumption DEF TypeOK, Fault, PipelineAssumption

LEMMA LoseTokenKeeps ==
    ASSUME IInv, LoseToken
    PROVE  IInv'
<1>1. TypeOK /\ QueueInv /\ PipelineInv /\ StreamInv /\ ClosureInv
  BY DEF IInv
<1>2. /\ closeCount \in requests /\ CloseStream /\ requests' = requests \ {closeCount}
      /\ state' = (IF pipeline = <<>> THEN "Error" ELSE "Backoff") /\ out' = <<>> /\ idle' = FALSE
      /\ queue' = queue /\ nextId' = nextId /\ callbacks' = callbacks /\ pipeline' = pipeline
      /\ up' = up /\ applied' = applied /\ told' = told
  BY DEF LoseToken
<1>3. faults' \in 0 .. MaxFaults
  BY <1>1, FaultType DEF LoseToken
<1>4. up
  BY <1>1, <1>2 DEF StreamInv
<1>5. /\ state' \in States /\ state' # "Open" /\ state' # "Starting"
      /\ IsStarted(state') <=> pipeline # <<>>
  BY <1>2 DEF States, IsStarted
<1>6. closeCount' = closeCount + 1 /\ closeCount \in Nat /\ requests \subseteq Nat
  BY <1>1, <1>2 DEF CloseStream, TypeOK
<1>7. requests' \subseteq Nat /\ closeCount' \notin requests' /\ \A n \in requests' : n <= closeCount'
  BY <1>1, <1>2, <1>6 DEF StreamInv
<1> QED  BY <1>1, <1>2, <1>3, <1>4, <1>5, <1>7, ClosedKeeps

LEMMA IdleElapsesKeeps ==
    ASSUME IInv, IdleElapses
    PROVE  IInv'
<1>1. TypeOK /\ QueueInv /\ PipelineInv /\ StreamInv /\ ClosureInv
  BY DEF IInv
<1>2. /\ idle /\ CloseStream /\ StartIfNeeded(pipeline, "Initial") /\ out' = <<>> /\ idle' = FALSE
      /\ queue' = queue /\ nextId' = nextId /\ callbacks' = callbacks /\ pipeline' = pipeline
      /\ up' = up /\ applied' = applied /\ told' = told /\ faults' = faults
  BY DEF IdleElapses
<1>3. up /\ pipeline = <<>>
  BY <1>1, <1>2 DEF StreamInv
<1>4. state' = "Initial" /\ requests' = requests
  BY <1>2, <1>3 DEF StartIfNeeded
<1>5. /\ state' \in States /\ state' # "Open" /\ state' # "Starting"
      /\ IsStarted(state') <=> pipeline # <<>>
  BY <1>3, <1>4 DEF States, IsStarted
<1>6. closeCount' = closeCount + 1 /\ closeCount \in Nat /\ requests \subseteq Nat
      /\ faults' \in 0 .. MaxFaults
  BY <1>1, <1>2 DEF CloseStream, TypeOK
<1>7. requests' \subseteq Nat /\ closeCount' \notin requests' /\ \A n \in requests' : n <= closeCount'
  BY <1>1, <1>4, <1>6 DEF StreamInv
<1> QED  BY <1>1, <1>2, <1>3, <1>5, <1>6, <1>7, ClosedKeeps

LEMMA ReadHandshakeKeeps ==
    ASSUME IInv, ReadHandshake
    PROVE  IInv'
<1>1. TypeOK /\ QueueInv /\ PipelineInv /\ StreamInv /\ CarryInv /\ ClosureInv
  BY DEF IInv
<1>2. /\ handshake = "answered" /\ handshake' = "complete" /\ out' = pipeline
      /\ idle' = (idle /\ pipeline = <<>>)
      /\ queue' = queue /\ nextId' = nextId /\ callbacks' = callbacks /\ pipeline' = pipeline
      /\ up' = up /\ state' = state /\ closeCount' = closeCount /\ requests' = requests
      /\ in' = in /\ final' = final /\ overtaken' = overtaken /\ applied' = applied
      /\ told' = told /\ faults' = faults
  BY DEF ReadHandshake, Resent
<1>3. state = "Open" /\ in = <<>>
  BY <1>1, <1>2 DEF StreamInv
<1>4. TypeOK'
  BY <1>1, <1>2 DEF TypeOK
<1>5. QueueInv' /\ ClosureInv'
  BY <1>1, <1>2, QueueSame, ClosureSame
<1>6. PipelineInv'
  BY <1>1, <1>2, PipelineSame DEF PipelineInv
<1>7. StreamInv'
  BY <1>1, <1>2, <1>3, StreamPrime DEF StreamInv
<1>8. CarryInv'
  <2>1. Len(in) = 0 /\ Len(pipeline) \in Nat
    BY <1>1, <1>3 DEF TypeOK
  <2>2. Carries(in', out', pipeline') /\ IsFront(in', pipeline')
    BY <1>2, <2>1 DEF Carries, IsFront
  <2>3. \A i \in 1 .. Len(in') : in'[i].write \in applied'
    BY <1>2, <2>1
  <2> QED  BY <2>2, <2>3, CarryPrime
<1> QED  BY <1>4, <1>5, <1>6, <1>7, <1>8 DEF IInv

LEMMA FinishKeeps ==
    ASSUME IInv, FinishStream \/ FinishUnread
    PROVE  IInv'
<1>1. state = "Open"
  BY DEF FinishStream, FinishUnread, IInv, StreamInv
<1>2. CloseWithError(final) /\ UNCHANGED <<nextId, up, applied, faults>>
  BY DEF FinishStream, FinishUnread
<1> QED  BY <1>1, <1>2, CloseKeeps

LEMMA BackoffElapsesKeeps ==
    ASSUME IInv, BackoffElapses
    PROVE  IInv'
<1>1. TypeOK /\ QueueInv /\ PipelineInv /\ StreamInv /\ CarryInv /\ ClosureInv
  BY DEF IInv
<1>2. /\ state = "Backoff" /\ state' = "Starting" /\ requests' = requests \cup {closeCount}
      /\ queue' = queue /\ nextId' = nextId /\ callbacks' = callbacks /\ pipeline' = pipeline
      /\ up' = up /\ closeCount' = closeCount /\ handshake' = handshake /\ idle' = idle
      /\ in' = in /\ out' = out /\ final' = final /\ overtaken' = overtaken
      /\ applied' = applied /\ told' = told /\ faults' = faults
  BY DEF BackoffElapses, wire
<1>3. TypeOK'
  BY <1>1, <1>2 DEF TypeOK, States
<1>4. QueueInv' /\ ClosureInv'
  BY <1>1, <1>2, QueueSame, ClosureSame
<1>5. IsStarted("Backoff") /\ IsStarted("Starting")
  BY DEF IsStarted
<1>6. PipelineInv'
  BY <1>1, <1>2, <1>5, PipelineSame
<1>7. StreamInv'
  <2>1. handshake # "complete" /\ pipeline # <<>> /\ up
    BY <1>1, <1>2, <1>5 DEF StreamInv
  <2>2. /\ \A n \in requests' : n <= closeCount'
        /\ closeCount' \in requests'
    BY <1>1, <1>2 DEF StreamInv, TypeOK
  <2> QED  BY <1>1, <1>2, <2>1, <2>2, StreamPrime DEF StreamInv
<1>8. CarryInv'
  BY <1>1, <1>2, CarryPrime DEF CarryInv
<1> QED  BY <1>3, <1>4, <1>6, <1>7, <1>8 DEF IInv

LEMMA DieKeeps ==
    ASSUME IInv, Die
    PROVE  IInv'
<1>1. TypeOK /\ QueueInv /\ ClosureInv
  BY DEF IInv
<1>2. /\ up' = FALSE /\ callbacks' = {} /\ pipeline' = <<>> /\ state' = "Initial"
      /\ closeCount' = 0 /\ requests' = {} /\ handshake' = "none" /\ idle' = FALSE
      /\ in' = <<>> /\ out' = <<>> /\ final' = "none" /\ overtaken' = FALSE
      /\ told' = [w \in Writes |-> IF told[w] = "waiting" THEN "lost" ELSE told[w]]
      /\ queue' = queue /\ nextId' = nextId /\ applied' = applied
  BY DEF Die
<1>3. faults' \in 0 .. MaxFaults
  BY <1>1, FaultType DEF Die
<1>4. queue \in Seq(Batch) /\ told \in [Writes -> Fates]
  BY <1>1 DEF TypeOK
<1>5. \A i \in 1 .. Len(queue) : queue[i].write \in Writes
  BY <1>4, BatchesType
<1>6. told' \in [Writes -> Fates] /\ \A w \in Writes : told'[w] # "waiting"
  BY <1>2, <1>4 DEF Fates
<1>7. TypeOK'
  <2>1. pipeline' \in Seq(Batch) /\ in' \in Seq(Batch) /\ out' \in Seq(Batch)
    <3>1. <<>> \in Seq(Batch)
      OBVIOUS
    <3> QED  BY <1>2, <3>1
  <2>2. callbacks' \subseteq Batch /\ requests' \subseteq Nat
    BY <1>2
  <2>3. up' \in BOOLEAN /\ idle' \in BOOLEAN /\ overtaken' \in BOOLEAN
    BY <1>2, Zenon
  <2>4. /\ closeCount' \in Nat /\ state' \in States
        /\ handshake' \in {"none", "sent", "answered", "complete"}
        /\ final' \in {"none", "permanent", "transient"}
    BY <1>2 DEF States
  <2>5. queue' \in Seq(Batch) /\ nextId' \in Nat /\ applied' \subseteq Writes
    BY <1>1, <1>2 DEF TypeOK
  <2> QED  BY <1>3, <1>6, <2>1, <2>2, <2>3, <2>4, <2>5 DEF TypeOK
<1>8. QueueInv'
  BY <1>1, <1>2, <1>4, <1>5, QueuePrime DEF QueueInv
<1>9. ClosureInv'
  BY <1>2, <1>6 DEF ClosureInv, ClosuresAreKept
<1>10. Len(pipeline') = 0 /\ Len(queue') \in Nat
  BY <1>2, <1>4
<1>11. PipelineInv'
  <2>1. IsFront(pipeline', queue') /\ Len(pipeline') <= kMaxPendingWrites
    BY <1>10, PipelineAssumption DEF IsFront, PipelineAssumption
  <2> QED  BY <1>2, <2>1, PipelinePrime
<1>12. StreamInv'
  <2>1. ~IsStarted(state')
    BY <1>2 DEF IsStarted
  <2> QED  BY <1>2, <2>1, StreamPrime
<1>13. CarryInv'
  BY <1>2, <1>7, CarryNothing DEF TypeOK
<1> QED  BY <1>7, <1>8, <1>9, <1>11, <1>12, <1>13 DEF IInv

LEMMA AnswerHandshakeKeeps ==
    ASSUME IInv, AnswerHandshake
    PROVE  IInv'
<1>1. TypeOK /\ QueueInv /\ PipelineInv /\ StreamInv /\ CarryInv /\ ClosureInv
  BY DEF IInv
<1>2. /\ handshake = "sent" /\ handshake' = "answered" /\ queue' = queue /\ nextId' = nextId
      /\ callbacks' = callbacks /\ pipeline' = pipeline /\ up' = up /\ state' = state
      /\ closeCount' = closeCount /\ requests' = requests /\ idle' = idle /\ in' = in
      /\ out' = out /\ final' = final /\ overtaken' = overtaken /\ applied' = applied
      /\ told' = told /\ faults' = faults
  BY DEF AnswerHandshake, wire
<1>3. TypeOK'
  BY <1>1, <1>2 DEF TypeOK
<1>4. QueueInv' /\ ClosureInv'
  BY <1>1, <1>2, QueueSame, ClosureSame
<1>5. PipelineInv'
  BY <1>1, <1>2, PipelineSame DEF PipelineInv
<1>6. StreamInv'
  BY <1>1, <1>2, StreamPrime DEF StreamInv
<1>7. CarryInv'
  BY <1>1, <1>2, CarryPrime DEF CarryInv
<1> QED  BY <1>3, <1>4, <1>5, <1>6, <1>7 DEF IInv

(* A stream with batches on it is greeted and open, and carries the        *)
(* pipeline: the next batch to be taken follows those with a reply.        *)
LEMMA NextToTake ==
    ASSUME IInv, out # <<>>, final = "none"
    PROVE  /\ handshake = "complete" /\ state = "Open" /\ Carries(in, out, pipeline)
           /\ Len(in) + 1 \in 1 .. Len(pipeline) /\ Head(out) \in Batch /\ Head(out) = out[1]
           /\ Head(out) = pipeline[Len(in) + 1] /\ Head(out) = queue[Len(in) + 1]
           /\ Len(in) + 1 \in 1 .. Len(queue)
<1>1. /\ in \in Seq(Batch) /\ out \in Seq(Batch) /\ pipeline \in Seq(Batch) /\ queue \in Seq(Batch)
  BY DEF IInv, TypeOK
<1>2. handshake = "complete" /\ state = "Open" /\ Carries(in, out, pipeline)
  BY DEF IInv, StreamInv, CarryInv
<1>3. /\ Len(out) >= 1 /\ Len(in) \in Nat /\ Len(out) \in Nat /\ Len(pipeline) \in Nat
      /\ Len(queue) \in Nat /\ out[1] \in Batch /\ Head(out) = out[1]
  BY <1>1, BatchesType
<1>4. Len(pipeline) = Len(in) + Len(out) /\ out[1] = pipeline[Len(in) + 1]
  BY <1>2, <1>3 DEF Carries
<1>5. Len(in) + 1 \in 1 .. Len(pipeline)
  BY <1>3, <1>4
<1>6. IsFront(pipeline, queue)
  BY DEF IInv, PipelineInv
<1> QED  BY <1>2, <1>3, <1>4, <1>5, <1>6 DEF IsFront

LEMMA TakeWriteKeeps ==
    ASSUME IInv, TakeWrite
    PROVE  IInv'
<1>1. TypeOK /\ QueueInv /\ PipelineInv /\ StreamInv /\ CarryInv /\ ClosureInv
  BY DEF IInv
<1>2. /\ out # <<>> /\ final = "none" /\ applied' = applied \cup {Head(out).write}
      /\ in' = Append(in, Head(out)) /\ out' = Tail(out)
      /\ queue' = queue /\ nextId' = nextId /\ callbacks' = callbacks /\ pipeline' = pipeline
      /\ up' = up /\ state' = state /\ closeCount' = closeCount /\ requests' = requests
      /\ handshake' = handshake /\ idle' = idle /\ final' = final /\ overtaken' = overtaken
      /\ told' = told /\ faults' = faults
  BY DEF TakeWrite, memory
<1>3. /\ handshake = "complete" /\ state = "Open" /\ Carries(in, out, pipeline)
      /\ Len(in) + 1 \in 1 .. Len(pipeline) /\ Head(out) \in Batch
      /\ Head(out) = pipeline[Len(in) + 1]
  BY <1>2, NextToTake
<1>4. in \in Seq(Batch) /\ out \in Seq(Batch) /\ pipeline \in Seq(Batch) /\ Head(out).write \in Writes
  BY <1>1, <1>3, BatchType DEF TypeOK
<1>5. /\ in' \in Seq(Batch) /\ Len(in) \in Nat /\ Len(in') = Len(in) + 1
      /\ \A i \in 1 .. Len(in) : in'[i] = in[i]
      /\ in'[Len(in) + 1] = Head(out)
  BY <1>2, <1>3, <1>4, AppendProperties
<1>6. out' \in Seq(Batch) /\ Shifted(out', out)
  BY <1>2, <1>4, TailIsShifted
<1>7. TypeOK'
  BY <1>1, <1>2, <1>4, <1>5, <1>6 DEF TypeOK
<1>8. QueueInv' /\ ClosureInv'
  BY <1>1, <1>2, QueueSame, ClosureSame
<1>9. PipelineInv'
  BY <1>1, <1>2, PipelineSame DEF PipelineInv
<1>10. StreamInv'
  BY <1>1, <1>2, <1>3, StreamPrime DEF StreamInv
<1>11. CarryInv'
  <2>1. \A i \in 1 .. Len(in') : i = Len(in) + 1 \/ i \in 1 .. Len(in)
    BY <1>5
  <2>2. IsFront(in', pipeline')
    BY <1>1, <1>2, <1>3, <1>5, <2>1 DEF CarryInv, IsFront
  <2>3. \A i \in 1 .. Len(in') : in'[i].write \in applied'
    BY <1>1, <1>2, <1>5, <2>1 DEF CarryInv
  <2>4. Carries(in', out', pipeline')
    <3>1. /\ Len(out') \in Nat /\ Len(out) \in Nat /\ Len(out) = Len(out') + 1
          /\ \A i \in 1 .. Len(out') : i + 1 \in 1 .. Len(out) /\ out'[i] = out[i + 1]
      BY <1>4, <1>6 DEF Shifted
    <3>2. Len(pipeline) = Len(in) + Len(out) /\ \A i \in 1 .. Len(out) : out[i] = pipeline[Len(in) + i]
      BY <1>3 DEF Carries
    <3>3. ASSUME NEW i \in 1 .. Len(out') PROVE out'[i] = pipeline[Len(in') + i]
      <4>1. out'[i] = pipeline[Len(in) + (i + 1)]
        BY <3>1, <3>2
      <4>2. Len(in) + (i + 1) = Len(in') + i
        BY <1>5
      <4> QED  BY <4>1, <4>2
    <3>4. Len(pipeline) = Len(in') + Len(out')
      BY <1>5, <3>1, <3>2
    <3> QED  BY <1>2, <3>3, <3>4 DEF Carries
  <2> QED  BY <2>2, <2>3, <2>4, CarryPrime
<1> QED  BY <1>7, <1>8, <1>9, <1>10, <1>11 DEF IInv

LEMMA RefuseKeeps ==
    ASSUME IInv, Refuse
    PROVE  IInv'
<1>1. TypeOK /\ QueueInv /\ PipelineInv /\ StreamInv /\ CarryInv /\ ClosureInv
  BY DEF IInv
<1>2. /\ out # <<>> \/ handshake = "sent"
      /\ final = "none" /\ final' = "permanent" /\ queue' = queue /\ nextId' = nextId
      /\ callbacks' = callbacks /\ pipeline' = pipeline /\ up' = up /\ state' = state
      /\ closeCount' = closeCount /\ requests' = requests /\ handshake' = handshake
      /\ idle' = idle /\ in' = in /\ out' = out /\ overtaken' = overtaken
      /\ applied' = applied /\ told' = told
  BY DEF Refuse, memory
<1>3. faults' \in 0 .. MaxFaults
  BY <1>1, FaultType DEF Refuse
<1>4. state = "Open"
  BY <1>1, <1>2 DEF StreamInv
<1>5. TypeOK'
  BY <1>1, <1>2, <1>3 DEF TypeOK
<1>6. QueueInv' /\ ClosureInv'
  BY <1>1, <1>2, QueueSame, ClosureSame
<1>7. PipelineInv'
  BY <1>1, <1>2, PipelineSame DEF PipelineInv
<1>8. StreamInv'
  BY <1>1, <1>2, <1>4, StreamPrime DEF StreamInv
<1>9. CarryInv'
  BY <1>1, <1>2, CarryPrime DEF CarryInv
<1> QED  BY <1>5, <1>6, <1>7, <1>8, <1>9 DEF IInv

LEMMA DisconnectKeeps ==
    ASSUME IInv, Disconnect
    PROVE  IInv'
<1>1. TypeOK /\ QueueInv /\ PipelineInv /\ StreamInv /\ CarryInv /\ ClosureInv
  BY DEF IInv
<1>2. /\ state = "Open" /\ final' = "transient" /\ queue' = queue /\ nextId' = nextId
      /\ callbacks' = callbacks /\ pipeline' = pipeline /\ up' = up /\ state' = state
      /\ closeCount' = closeCount /\ requests' = requests /\ handshake' = handshake
      /\ idle' = idle /\ out' = out /\ overtaken' = overtaken /\ applied' = applied
      /\ told' = told
  BY DEF Disconnect, memory
<1>3. PICK n \in 0 .. Len(in) : in' = SubSeq(in, 1, n)
  BY DEF Disconnect
<1>4. faults' \in 0 .. MaxFaults
  BY <1>1, FaultType DEF Disconnect
<1>5. in \in Seq(Batch) /\ pipeline \in Seq(Batch) /\ Len(in) \in Nat /\ n \in Nat /\ n <= Len(in)
  BY <1>1, <1>3 DEF TypeOK
<1>6. in' \in Seq(Batch) /\ Len(in') = n /\ \A i \in 1 .. n : in'[i] = in[i]
  BY <1>3, <1>5, SubSeqProperties
<1>7. TypeOK'
  BY <1>1, <1>2, <1>4, <1>6 DEF TypeOK
<1>8. QueueInv' /\ ClosureInv'
  BY <1>1, <1>2, QueueSame, ClosureSame
<1>9. PipelineInv'
  BY <1>1, <1>2, PipelineSame DEF PipelineInv
<1>10. StreamInv'
  <2>1. in = <<>> => in' = <<>>
    BY <1>5, <1>6, EmptySeq
  <2> QED  BY <1>1, <1>2, <2>1, StreamPrime DEF StreamInv
<1>11. CarryInv'
  <2>1. \A i \in 1 .. n : i \in 1 .. Len(in)
    BY <1>5
  <2>2. IsFront(in, pipeline) /\ \A i \in 1 .. Len(in) : in[i].write \in applied
    BY <1>1 DEF CarryInv
  <2>3. IsFront(in', pipeline')
    <3>1. Len(in) <= Len(pipeline) /\ \A i \in 1 .. n : in'[i] = pipeline[i]
      BY <1>6, <2>1, <2>2 DEF IsFront
    <3>2. n <= Len(pipeline)
      BY <1>5, <3>1
    <3> QED  BY <1>2, <1>6, <3>1, <3>2 DEF IsFront
  <2>4. \A i \in 1 .. Len(in') : in'[i].write \in applied'
    BY <1>2, <1>6, <2>1, <2>2
  <2> QED  BY <1>2, <2>3, <2>4, CarryPrime
<1> QED  BY <1>7, <1>8, <1>9, <1>10, <1>11 DEF IInv

--------------------------------------------------------------------------------
(* The invariant, and what follows from it *)

LEMMA InitInv ==
    ASSUME Init
    PROVE  IInv
<1>1. /\ queue = <<>> /\ nextId = 1 /\ callbacks = {} /\ pipeline = <<>> /\ up = FALSE
      /\ state = "Initial" /\ closeCount = 0 /\ requests = {} /\ handshake = "none"
      /\ idle = FALSE /\ in = <<>> /\ out = <<>> /\ final = "none" /\ overtaken = FALSE
      /\ applied = {} /\ told = [w \in Writes |-> "new"] /\ faults = 0
  BY DEF Init
<1>2. Len(queue) = 0 /\ Len(pipeline) = 0 /\ Len(in) = 0 /\ queue \in Seq(Batch)
  BY <1>1
<1>3. TypeOK
  <2>1. queue \in Seq(Batch) /\ pipeline \in Seq(Batch) /\ in \in Seq(Batch) /\ out \in Seq(Batch)
    BY <1>1, <1>2
  <2>2. up \in BOOLEAN /\ idle \in BOOLEAN /\ overtaken \in BOOLEAN
    BY <1>1, Zenon
  <2>3. callbacks \subseteq Batch /\ requests \subseteq Nat /\ applied \subseteq Writes
    BY <1>1
  <2>4. /\ nextId \in Nat /\ closeCount \in Nat /\ state \in States
        /\ handshake \in {"none", "sent", "answered", "complete"}
        /\ final \in {"none", "permanent", "transient"}
    BY <1>1 DEF States
  <2>5. told \in [Writes -> Fates]
    BY <1>1 DEF Fates
  <2>6. faults \in 0 .. MaxFaults
    BY <1>1, PipelineAssumption DEF PipelineAssumption
  <2> QED  BY <2>1, <2>2, <2>3, <2>4, <2>5, <2>6 DEF TypeOK
<1>4. QueueInv
  BY <1>2 DEF QueueInv, Ascends
<1>5. PipelineInv
  <2>1. IsFront(pipeline, queue) /\ Len(pipeline) <= kMaxPendingWrites
    BY <1>2, PipelineAssumption DEF IsFront, PipelineAssumption
  <2> QED  BY <1>1, <2>1 DEF PipelineInv
<1>6. StreamInv
  BY <1>1 DEF StreamInv, IsStarted
<1>7. CarryInv
  <2>1. IsFront(in, pipeline)
    BY <1>2 DEF IsFront
  <2> QED  BY <1>1, <1>2, <2>1 DEF CarryInv
<1>8. ClosureInv
  BY <1>1 DEF ClosureInv, ClosuresAreKept
<1> QED  BY <1>3, <1>4, <1>5, <1>6, <1>7, <1>8 DEF IInv

LEMMA StutterKeeps ==
    ASSUME IInv, UNCHANGED vars
    PROVE  IInv'
<1>1. TypeOK /\ QueueInv /\ PipelineInv /\ StreamInv /\ CarryInv /\ ClosureInv
  BY DEF IInv
<1>2. /\ queue' = queue /\ nextId' = nextId /\ callbacks' = callbacks /\ pipeline' = pipeline
      /\ up' = up /\ state' = state /\ closeCount' = closeCount /\ requests' = requests
      /\ handshake' = handshake /\ idle' = idle /\ in' = in /\ out' = out /\ final' = final
      /\ overtaken' = overtaken /\ applied' = applied /\ told' = told /\ faults' = faults
  BY DEF vars, memory, wire
<1>3. TypeOK'
  BY <1>1, <1>2 DEF TypeOK
<1>4. QueueInv' /\ ClosureInv'
  BY <1>1, <1>2, QueueSame, ClosureSame
<1>5. PipelineInv'
  BY <1>1, <1>2, PipelineSame DEF PipelineInv
<1>6. StreamInv'
  BY <1>1, <1>2, StreamPrime DEF StreamInv
<1>7. CarryInv'
  BY <1>1, <1>2, CarryPrime DEF CarryInv
<1> QED  BY <1>3, <1>4, <1>5, <1>6, <1>7 DEF IInv

LEMMA NextInv ==
    ASSUME IInv, [Next]_vars
    PROVE  IInv'
<1>1. CASE StartClient
  BY <1>1, StartClientKeeps
<1>2. ASSUME NEW w \in Writes, WriteMutations(w) PROVE IInv'
  BY <1>2, WriteMutationsKeeps
<1>3. CASE ClientSteps
  <2>1. ASSUME NEW n \in requests, ReceiveToken(n) PROVE IInv'
    BY <2>1, ReceiveTokenKeeps
  <2>2. CASE ReadHandshake
    BY <2>2, ReadHandshakeKeeps
  <2>3. CASE ReadReply
    BY <2>3, ReadReplyKeeps
  <2>4. CASE FinishStream \/ FinishUnread
    BY <2>4, FinishKeeps
  <2>5. CASE BackoffElapses
    BY <2>5, BackoffElapsesKeeps
  <2> QED  BY <1>3, <2>1, <2>2, <2>3, <2>4, <2>5 DEF ClientSteps
<1>4. CASE BackendSteps
  BY <1>4, AnswerHandshakeKeeps, TakeWriteKeeps DEF BackendSteps
<1>5. CASE LoseToken
  BY <1>5, LoseTokenKeeps
<1>6. CASE IdleElapses
  BY <1>6, IdleElapsesKeeps
<1>7. CASE RestartNetwork
  BY <1>7, RestartNetworkKeeps
<1>8. CASE Die
  BY <1>8, DieKeeps
<1>9. CASE Refuse
  BY <1>9, RefuseKeeps
<1>10. CASE Disconnect
  BY <1>10, DisconnectKeeps
<1>11. CASE UNCHANGED vars
  BY <1>11, StutterKeeps
<1> QED  BY <1>1, <1>2, <1>3, <1>4, <1>5, <1>6, <1>7, <1>8, <1>9, <1>10, <1>11 DEF Next

(* The inductive invariant holds in every reachable state.                 *)
THEOREM Inductive == Spec => []IInv
<1> QED  BY InitInv, NextInv, PTL DEF Spec

(* TypeOK: every variable keeps its type.                                  *)
THEOREM TypeCorrect == Spec => []TypeOK
<1>1. IInv => TypeOK
  BY DEF IInv
<1> QED  BY <1>1, Inductive, PTL

(* PipelineIsTheFront: what the remote store holds is always the oldest    *)
(* part of the queue on disk, so that a batch that a reply or an error     *)
(* removes is the first one there.                                         *)
THEOREM PipelineAlwaysTheFront == Spec => []PipelineIsTheFront
<1>1. IInv => PipelineIsTheFront
  BY FrontIsPrefix DEF IInv, TypeOK, PipelineInv, PipelineIsTheFront
<1> QED  BY <1>1, Inductive, PTL

(* StreamCarriesThePipeline: replies and batches on a greeted stream are   *)
(* the pipeline, so a reply is about the pipeline's first batch.           *)
THEOREM StreamAlwaysCarries == Spec => []StreamCarriesThePipeline
<1>1. ASSUME IInv PROVE StreamCarriesThePipeline
  <2>1. in \in Seq(Batch) /\ out \in Seq(Batch) /\ pipeline \in Seq(Batch) /\ IsFront(in, pipeline)
    BY <1>1 DEF IInv, TypeOK, CarryInv
  <2>2. IsPrefix(in, pipeline)
    BY <2>1, FrontIsPrefix
  <2>3. ASSUME handshake = "complete", final # "transient" PROVE in \o out = pipeline
    <3>1. Carries(in, out, pipeline)
      BY <1>1, <2>3 DEF IInv, CarryInv
    <3>2. /\ in \o out \in Seq(Batch) /\ Len(in \o out) = Len(in) + Len(out)
          /\ \A i \in 1 .. Len(in) + Len(out) :
               (in \o out)[i] = IF i <= Len(in) THEN in[i] ELSE out[i - Len(in)]
      BY <2>1, ConcatProperties
    <3>3. Len(in) \in Nat /\ Len(out) \in Nat /\ Len(pipeline) = Len(in) + Len(out)
      BY <2>1, <3>1 DEF Carries
    <3>4. ASSUME NEW i \in 1 .. Len(pipeline) PROVE (in \o out)[i] = pipeline[i]
      <4>1. (in \o out)[i] = IF i <= Len(in) THEN in[i] ELSE out[i - Len(in)]
        BY <3>2, <3>3
      <4>2. CASE i <= Len(in)
        <5>1. i \in 1 .. Len(in)
          BY <3>3, <4>2
        <5>2. in[i] = pipeline[i]
          BY <2>1, <5>1 DEF IsFront
        <5> QED  BY <4>1, <4>2, <5>2
      <4>3. CASE ~(i <= Len(in))
        <5>1. i - Len(in) \in 1 .. Len(out) /\ Len(in) + (i - Len(in)) = i
          BY <3>3, <4>3
        <5>2. out[i - Len(in)] = pipeline[Len(in) + (i - Len(in))]
          BY <3>1, <5>1 DEF Carries
        <5> QED  BY <4>1, <4>3, <5>1, <5>2
      <4> QED  BY <4>2, <4>3
    <3> QED  BY <2>1, <3>2, <3>3, <3>4, SeqEqual
  <2> QED  BY <2>2, <2>3 DEF StreamCarriesThePipeline
<1> QED  BY <1>1, Inductive, PTL

(* NothingIsForgotten: no refill of the pipeline and no start of the       *)
(* stream has been left out.                                               *)
THEOREM NothingEverForgotten == Spec => []NothingIsForgotten
<1>1. ASSUME IInv PROVE NothingIsForgotten
  <2>1. Len(pipeline) \in Nat /\ Len(queue) \in Nat /\ kMaxPendingWrites \in Nat
    BY <1>1, PipelineAssumption DEF IInv, TypeOK, PipelineAssumption
  <2>2. up => /\ Len(pipeline) <= Len(queue) /\ Len(pipeline) <= kMaxPendingWrites
              /\ Len(pipeline) = Len(queue) \/ Len(pipeline) = kMaxPendingWrites
              /\ pipeline # <<>> => IsStarted(state)
    BY <1>1 DEF IInv, PipelineInv, Full, IsFront
  <2>3. up => Len(pipeline) = IF Len(queue) < kMaxPendingWrites THEN Len(queue)
                              ELSE kMaxPendingWrites
    BY <2>1, <2>2
  <2> QED  BY <2>2, <2>3 DEF NothingIsForgotten
<1> QED  BY <1>1, Inductive, PTL

(* IdleIsUnneeded: the idleness timer never runs on a stream that is       *)
(* needed.                                                                 *)
THEOREM IdleAlwaysUnneeded == Spec => []IdleIsUnneeded
<1>1. IInv => IdleIsUnneeded
  BY DEF IInv, StreamInv, IdleIsUnneeded
<1> QED  BY <1>1, Inductive, PTL

(* ClosuresAreKept: a closure that is to be called can be found under the  *)
(* id of a queued batch, and is the only one there.                        *)
THEOREM ClosuresAlwaysKept == Spec => []ClosuresAreKept
<1>1. IInv => ClosuresAreKept
  BY DEF IInv, ClosureInv
<1> QED  BY <1>1, Inductive, PTL

LEMMA StartNotOpen ==
    ASSUME NEW p, NEW s, StartIfNeeded(p, s), state' = "Open"
    PROVE  s = "Open"
BY DEF StartIfNeeded, Start

LEMMA FillNotOpen ==
    ASSUME NEW p, NEW s, NEW sent, NEW timer, FillWritePipeline(p, s, sent, timer), state' = "Open"
    PROVE  s = "Open"
BY FillStart, StartNotOpen, Zenon

LEMMA CloseNotOpen ==
    ASSUME NEW status, CloseWithError(status)
    PROVE  state' # "Open"
<1>1. CASE pipeline # <<>> /\ handshake = "complete" /\ status = "permanent"
  <2>1. FillWritePipeline(Tail(pipeline), "Initial", <<>>, FALSE)
    BY <1>1 DEF CloseWithError
  <2>2. state' = "Open" => "Initial" = "Open"
    BY <2>1, FillNotOpen, Zenon
  <2> QED  BY <2>2
<1>2. CASE ~(pipeline # <<>> /\ handshake = "complete" /\ status = "permanent")
  <2>1. StartIfNeeded(pipeline, "Error")
    BY <1>2 DEF CloseWithError
  <2> QED  BY <2>1 DEF StartIfNeeded, Start
<1> QED  BY <1>1, <1>2

(* OpensFromStarting: a token that comes late opens nothing.               *)
THEOREM OpensOnlyFromStarting == Spec => OpensFromStarting
<1>1. ASSUME IInv, [Next]_vars
      PROVE  [state # "Open" /\ state' = "Open" => state = "Starting"]_vars
  <2>1. SUFFICES ASSUME state # "Open", state' = "Open", Next PROVE state = "Starting"
    BY <1>1
  <2>2. CASE StartClient
    <3>1. FillWritePipeline(<<>>, "Initial", <<>>, FALSE)
      BY <2>2 DEF StartClient
    <3>2. "Initial" = "Open"
      BY <2>1, <3>1, FillNotOpen, Zenon
    <3> QED  BY <3>2
  <2>3. ASSUME NEW w \in Writes, WriteMutations(w) PROVE state = "Starting"
    BY <2>1, <2>3, FillNotOpen DEF WriteMutations
  <2>4. CASE ClientSteps
    <3>1. ASSUME NEW n \in requests, ReceiveToken(n) PROVE state = "Starting"
      <4>1. n = closeCount
        BY <2>1, <3>1 DEF ReceiveToken
      <4> QED  BY <1>1, <4>1 DEF IInv, StreamInv
    <3>2. CASE ReadHandshake
      BY <2>1, <3>2 DEF ReadHandshake
    <3>3. CASE ReadReply
      BY <2>1, <3>3, FillNotOpen DEF ReadReply
    <3>4. CASE FinishStream \/ FinishUnread
      BY <2>1, <3>4, CloseNotOpen DEF FinishStream, FinishUnread
    <3>5. CASE BackoffElapses
      BY <2>1, <3>5 DEF BackoffElapses
    <3> QED  BY <2>4, <3>1, <3>2, <3>3, <3>4, <3>5 DEF ClientSteps
  <2>5. CASE BackendSteps
    BY <2>1, <2>5 DEF BackendSteps, AnswerHandshake, TakeWrite, memory
  <2>6. CASE LoseToken
    BY <2>1, <2>6 DEF LoseToken
  <2>7. CASE IdleElapses
    BY <2>1, <2>7 DEF IdleElapses, StartIfNeeded, Start
  <2>8. CASE RestartNetwork
    <3>1. FillWritePipeline(<<>>, "Initial", <<>>, FALSE)
      BY <2>8 DEF RestartNetwork
    <3>2. "Initial" = "Open"
      BY <2>1, <3>1, FillNotOpen, Zenon
    <3> QED  BY <3>2
  <2>9. CASE Die
    BY <2>1, <2>9 DEF Die
  <2>10. CASE Refuse \/ Disconnect
    BY <2>1, <2>10 DEF Refuse, Disconnect, memory
  <2> QED  BY <2>1, <2>2, <2>3, <2>4, <2>5, <2>6, <2>7, <2>8, <2>9, <2>10 DEF Next
<1> QED  BY <1>1, Inductive, PTL DEF Spec, OpensFromStarting

--------------------------------------------------------------------------------
(* The refinement of WriteQueue *)

(* The queue as WriteQueue sees it.                                        *)
WritesOf(q) == [i \in 1 .. Len(q) |-> q[i].write]

LEMMA WritesOfFacts ==
    ASSUME NEW q \in Seq(Batch)
    PROVE  /\ WritesOf(q) \in Seq(Writes) /\ Len(WritesOf(q)) = Len(q)
           /\ \A i \in 1 .. Len(q) : WritesOf(q)[i] = q[i].write
<1>1. Len(q) \in Nat /\ \A i \in 1 .. Len(q) : q[i].write \in Writes
  BY BatchesType
<1> QED  BY <1>1 DEF WritesOf

LEMMA MapsInit ==
    ASSUME Init
    PROVE  Promise!QueueInit
<1>1. queue = <<>> /\ applied = {} /\ told = [w \in Writes |-> "new"]
  BY DEF Init
<1>2. queue \in Seq(Batch) /\ Len(queue) = 0
  BY <1>1
<1>3. WritesOf(queue) = <<>>
  BY <1>2, WritesOfFacts, EmptySeq
<1> QED  BY <1>1, <1>3 DEF Promise!QueueInit, WritesOf

LEMMA MapsStutter ==
    ASSUME queue' = queue, applied' = applied, told' = told
    PROVE  UNCHANGED Promise!queueVars
BY DEF Promise!queueVars

(* The oldest batch is answered: the closure hears of it if it is still to *)
(* be called.                                                              *)
LEMMA MapsAnswer ==
    ASSUME TypeOK, QueueInv, ClosureInv, queue # <<>>, NEW b \in Batch, b = queue[1],
           NEW fate \in {"ok", "failed"}, NotifyUser(b, fate), queue' = Without(queue, b),
           up' = up, nextId' = nextId, applied' = applied, fate = "ok" => b.write \in applied
    PROVE  Promise!Answer(fate)
<1>1. queue \in Seq(Batch) /\ Len(queue) \in Nat /\ Len(queue) >= 1
  BY BatchesType DEF TypeOK
<1>2. /\ queue' \in Seq(Batch) /\ Shifted(queue', queue)
      /\ told' = IF told[b.write] = "waiting" THEN [told EXCEPT ![b.write] = fate] ELSE told
  BY QueueShrinks
<1> DEFINE q == WritesOf(queue)
           r == WritesOf(queue')
<1>3. /\ q \in Seq(Writes) /\ Len(q) = Len(queue) /\ \A i \in 1 .. Len(queue) : q[i] = queue[i].write
      /\ r \in Seq(Writes) /\ Len(r) = Len(queue')
      /\ \A i \in 1 .. Len(queue') : r[i] = queue'[i].write
  BY <1>1, <1>2, WritesOfFacts
<1> HIDE DEF q, r
<1>4. q # <<>> /\ Head(q) = b.write
  BY <1>1, <1>3
<1>5. /\ Tail(q) \in Seq(Writes) /\ Len(Tail(q)) = Len(q) - 1
      /\ \A i \in 1 .. Len(Tail(q)) : Tail(q)[i] = q[i + 1]
  BY <1>3, <1>4, HeadTailProperties
<1>6. /\ Len(queue') \in Nat /\ Len(queue) = Len(queue') + 1
      /\ \A i \in 1 .. Len(queue') : i + 1 \in 1 .. Len(queue) /\ queue'[i] = queue[i + 1]
  BY <1>2 DEF Shifted
<1>7. Len(r) = Len(Tail(q)) /\ Len(r) = Len(queue')
  BY <1>3, <1>5, <1>6
<1>8. \A i \in 1 .. Len(r) : r[i] = Tail(q)[i]
  BY <1>3, <1>5, <1>6, <1>7
<1>9. r = Tail(q)
  BY <1>3, <1>5, <1>7, <1>8, SeqEqual
<1>10. /\ q # <<>>
       /\ fate = "ok" => Head(q) \in applied
       /\ told' = IF told[Head(q)] = "waiting" THEN [told EXCEPT ![Head(q)] = fate] ELSE told
       /\ r = Tail(q)
       /\ UNCHANGED applied
  BY <1>2, <1>4, <1>9
<1> QED  BY <1>10, Zenon DEF Promise!Answer, WritesOf, q, r

LEMMA MapsIssue ==
    ASSUME TypeOK, NEW w \in Writes, WriteMutations(w)
    PROVE  Promise!Issue(w)
<1> DEFINE b == [id |-> nextId, write |-> w]
           q == WritesOf(queue)
           r == WritesOf(queue')
<1>1. /\ told[w] = "new" /\ queue' = Append(queue, b) /\ told' = [told EXCEPT ![w] = "waiting"]
      /\ applied' = applied
  BY DEF WriteMutations
<1>2. queue \in Seq(Batch) /\ b \in Batch /\ b.write = w
  BY DEF TypeOK, Batch
<1> HIDE DEF b
<1>3. /\ queue' \in Seq(Batch) /\ Len(queue') = Len(queue) + 1
      /\ \A i \in 1 .. Len(queue) : queue'[i] = queue[i]
      /\ queue'[Len(queue) + 1] = b
  BY <1>1, <1>2, AppendProperties
<1>4. /\ q \in Seq(Writes) /\ Len(q) = Len(queue) /\ \A i \in 1 .. Len(queue) : q[i] = queue[i].write
      /\ r \in Seq(Writes) /\ Len(r) = Len(queue')
      /\ \A i \in 1 .. Len(queue') : r[i] = queue'[i].write
  BY <1>2, <1>3, WritesOfFacts
<1> HIDE DEF q, r
<1>5. /\ Append(q, w) \in Seq(Writes) /\ Len(Append(q, w)) = Len(q) + 1
      /\ \A i \in 1 .. Len(q) : Append(q, w)[i] = q[i]
      /\ Append(q, w)[Len(q) + 1] = w
  BY <1>4, AppendProperties
<1>6. Len(queue) \in Nat /\ Len(r) = Len(Append(q, w)) /\ Len(r) = Len(queue) + 1
  BY <1>2, <1>3, <1>4, <1>5
<1>7. ASSUME NEW i \in 1 .. Len(r) PROVE r[i] = Append(q, w)[i]
  <2>1. CASE i \in 1 .. Len(queue)
    BY <1>3, <1>4, <1>5, <1>6, <2>1
  <2>2. CASE i = Len(queue) + 1
    BY <1>2, <1>3, <1>4, <1>5, <1>6, <2>2
  <2>3. Len(queue) \in Nat /\ i \in 1 .. Len(queue) + 1
    BY <1>6
  <2>4. i \in 1 .. Len(queue) \/ i = Len(queue) + 1
    BY <2>3
  <2> QED  BY <2>1, <2>2, <2>4
<1>8. r = Append(q, w)
  BY <1>4, <1>5, <1>6, <1>7, SeqEqual
<1> QED  BY <1>1, <1>8 DEF Promise!Issue, WritesOf, q, r

LEMMA MapsApply ==
    ASSUME IInv, TakeWrite
    PROVE  \E i \in 1 .. Len(WritesOf(queue)) :
             /\ \A j \in 1 .. i - 1 : WritesOf(queue)[j] \in applied
             /\ applied' = applied \cup {WritesOf(queue)[i]}
             /\ queue' = queue /\ told' = told
<1>1. /\ out # <<>> /\ final = "none" /\ applied' = applied \cup {Head(out).write}
      /\ queue' = queue /\ told' = told
  BY DEF TakeWrite
<1>2. Head(out) = queue[Len(in) + 1] /\ Len(in) + 1 \in 1 .. Len(queue)
  BY <1>1, NextToTake
<1>3. /\ queue \in Seq(Batch) /\ Len(in) \in Nat /\ IsFront(in, pipeline) /\ IsFront(pipeline, queue)
      /\ Len(pipeline) \in Nat /\ Len(queue) \in Nat
      /\ \A i \in 1 .. Len(in) : in[i].write \in applied
  BY DEF IInv, TypeOK, CarryInv, PipelineInv
<1>4. \A i \in 1 .. Len(in) : i \in 1 .. Len(queue) /\ in[i] = queue[i]
  BY <1>3 DEF IsFront
<1>5. /\ Len(WritesOf(queue)) = Len(queue)
      /\ \A i \in 1 .. Len(queue) : WritesOf(queue)[i] = queue[i].write
  BY <1>3, WritesOfFacts
<1>6. \A j \in 1 .. (Len(in) + 1) - 1 : WritesOf(queue)[j] \in applied
  BY <1>3, <1>4, <1>5
<1>7. applied' = applied \cup {WritesOf(queue)[Len(in) + 1]}
  BY <1>1, <1>2, <1>5
<1> QED  BY <1>1, <1>2, <1>5, <1>6, <1>7

LEMMA MapsClose ==
    ASSUME IInv, NEW status, CloseWithError(status), UNCHANGED <<nextId, up, applied, faults>>
    PROVE  [Promise!QueueNext]_(Promise!queueVars)
<1>1. CASE pipeline # <<>> /\ handshake = "complete" /\ status = "permanent"
  <2>1. queue' = Without(queue, Head(pipeline)) /\ NotifyUser(Head(pipeline), "failed")
    BY <1>1 DEF CloseWithError
  <2>2. queue # <<>> /\ Head(pipeline) = queue[1] /\ Head(pipeline) \in Batch
    BY <1>1, HeadsAgree DEF IInv, PipelineInv
  <2>3. TypeOK /\ QueueInv /\ ClosureInv
    BY DEF IInv
  <2>4. "failed" \in {"ok", "failed"} /\ "failed" # "ok"
    OBVIOUS
  <2>5. Promise!Answer("failed")
    BY <2>1, <2>2, <2>3, <2>4, MapsAnswer
  <2> QED  BY <2>5 DEF Promise!QueueNext
<1>2. CASE ~(pipeline # <<>> /\ handshake = "complete" /\ status = "permanent")
  <2>1. queue' = queue /\ told' = told /\ applied' = applied
    BY <1>2 DEF CloseWithError
  <2> QED  BY <2>1, MapsStutter
<1> QED  BY <1>1, <1>2

LEMMA MapsReply ==
    ASSUME IInv, ReadReply
    PROVE  Promise!Answer("ok")
<1>1. /\ in # <<>> /\ queue' = Without(queue, Head(pipeline)) /\ NotifyUser(Head(pipeline), "ok")
      /\ up' = up /\ nextId' = nextId /\ applied' = applied
  BY DEF ReadReply
<1>2. /\ in \in Seq(Batch) /\ pipeline \in Seq(Batch) /\ IsFront(in, pipeline)
      /\ \A i \in 1 .. Len(in) : in[i].write \in applied
  BY DEF IInv, TypeOK, CarryInv
<1>3. /\ Len(in) \in Nat /\ Len(in) >= 1 /\ Len(pipeline) \in Nat /\ Len(pipeline) >= 1
      /\ in[1] = pipeline[1]
  BY <1>1, <1>2, BatchesType DEF IsFront
<1>4. pipeline # <<>> /\ Head(pipeline) = pipeline[1] /\ Head(pipeline).write \in applied
  BY <1>2, <1>3
<1>5. queue # <<>> /\ Head(pipeline) = queue[1] /\ Head(pipeline) \in Batch
  BY <1>4, HeadsAgree DEF IInv, PipelineInv
<1>6. TypeOK /\ QueueInv /\ ClosureInv /\ "ok" \in {"ok", "failed"}
  BY DEF IInv
<1> QED  BY <1>1, <1>4, <1>5, <1>6, MapsAnswer

LEMMA MapsNext ==
    ASSUME IInv, [Next]_vars
    PROVE  [Promise!QueueNext]_(Promise!queueVars)
<1>1. ASSUME queue' = queue, applied' = applied, told' = told
      PROVE  [Promise!QueueNext]_(Promise!queueVars)
  BY <1>1, MapsStutter
<1>2. CASE StartClient
  BY <1>1, <1>2 DEF StartClient
<1>3. ASSUME NEW w \in Writes, WriteMutations(w)
      PROVE  [Promise!QueueNext]_(Promise!queueVars)
  <2>1. Promise!Issue(w)
    BY <1>3, MapsIssue DEF IInv
  <2> QED  BY <2>1 DEF Promise!QueueNext
<1>4. CASE ClientSteps
  <2>1. CASE ReadReply
    BY <2>1, MapsReply DEF Promise!QueueNext
  <2>2. CASE FinishStream \/ FinishUnread
    BY <2>2, MapsClose DEF FinishStream, FinishUnread
  <2>3. CASE ReadHandshake \/ BackoffElapses \/ \E n \in requests : ReceiveToken(n)
    BY <1>1, <2>3 DEF ReadHandshake, BackoffElapses, ReceiveToken
  <2> QED  BY <1>4, <2>1, <2>2, <2>3 DEF ClientSteps
<1>5. CASE AnswerHandshake
  BY <1>1, <1>5 DEF AnswerHandshake
<1>6. CASE TakeWrite
  <2>1. \E i \in 1 .. Len(WritesOf(queue)) : Promise!Apply(i)
    BY <1>6, MapsApply DEF Promise!Apply, WritesOf
  <2> QED  BY <2>1 DEF Promise!QueueNext, WritesOf
<1>7. CASE LoseToken \/ IdleElapses \/ RestartNetwork \/ Refuse \/ Disconnect
  BY <1>1, <1>7 DEF LoseToken, IdleElapses, RestartNetwork, Refuse, Disconnect
<1>8. CASE Die
  <2>1. /\ told' = [w \in Writes |-> IF told[w] = "waiting" THEN "lost" ELSE told[w]]
        /\ queue' = queue /\ applied' = applied
    BY <1>8 DEF Die
  <2>2. Promise!Die
    BY <2>1 DEF Promise!Die
  <2> QED  BY <2>2 DEF Promise!QueueNext
<1>9. CASE UNCHANGED vars
  BY <1>1, <1>9 DEF vars
<1> QED  BY <1>2, <1>3, <1>4, <1>5, <1>6, <1>7, <1>8, <1>9 DEF Next, BackendSteps

(* ImplementsQueue: with its streams, retries and restarts the client      *)
(* keeps the promise of WriteQueue.                                        *)
THEOREM QueueImplemented == Spec => ImplementsQueue
<1> QED  BY MapsInit, MapsNext, Inductive, PTL DEF Spec, ImplementsQueue, Promise!QueueSpec

================================================================================
