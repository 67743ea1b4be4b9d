------------------------------ MODULE WriteQueue ------------------------------
(***************************************************************************)
(* What the Firestore client promises an app about its writes, with no     *)
(* word of streams: they wait in one queue, the backend takes them in the  *)
(* order in which they were issued, each leaves the queue once, the oldest *)
(* first, and a completion closure runs at most once, with success only    *)
(* when the backend has the write. A failure says less: the backend may    *)
(* have taken the write before.                                            *)
(***************************************************************************)
EXTENDS Naturals, Sequences

CONSTANT Writes  \* the names of the writes

VARIABLES
    queue,   \* the writes that have not been answered, oldest first
    applied, \* the writes the backend has
    told     \* told[w]: what became of the write's completion closure

queueVars == <<queue, applied, told>>

Fates == {"new", "waiting", "ok", "failed", "lost"}

QueueTypeOK ==
    /\ queue \in Seq(Writes)
    /\ applied \subseteq Writes
    /\ told \in [Writes -> Fates]

QueueInit ==
    /\ queue = <<>>
    /\ applied = {}
    /\ told = [w \in Writes |-> "new"]

Issue(w) ==
    /\ told[w] = "new"
    /\ queue' = Append(queue, w)
    /\ told' = [told EXCEPT ![w] = "waiting"]
    /\ UNCHANGED applied

(* The backend takes a write, maybe not for the first time; all that was   *)
(* issued before it and still waits has been taken.                        *)
Apply(i) ==
    /\ i \in 1 .. Len(queue)
    /\ \A j \in 1 .. i - 1 : queue[j] \in applied
    /\ applied' = applied \cup {queue[i]}
    /\ UNCHANGED <<queue, told>>

(* A closure that a death of the process has taken away is not called.     *)
Answer(fate) ==
    /\ queue # <<>>
    /\ fate = "ok" => Head(queue) \in applied
    /\ told' = IF told[Head(queue)] = "waiting" THEN [told EXCEPT ![Head(queue)] = fate]
               ELSE told
    /\ queue' = Tail(queue)
    /\ UNCHANGED applied

Die ==
    /\ told' = [w \in Writes |-> IF told[w] = "waiting" THEN "lost" ELSE told[w]]
    /\ UNCHANGED <<queue, applied>>

QueueNext ==
    \/ \E w \in Writes : Issue(w)
    \/ \E i \in 1 .. Len(queue) : Apply(i)
    \/ Answer("ok") \/ Answer("failed")
    \/ Die

QueueSpec == QueueInit /\ [][QueueNext]_queueVars

================================================================================
