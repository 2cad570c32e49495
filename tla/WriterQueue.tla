----------------------------- MODULE WriterQueue -----------------------------
(***************************************************************************)
(* What the writer ring buffer promises its users (core.c on one side, the *)
(* writer thread on the other): a bounded first-in first-out queue that,   *)
(* once shutdown has begun, takes no more records, hands over every record *)
(* it already holds and only then closes.                                  *)
(***************************************************************************)
EXTENDS Naturals, Sequences

CONSTANTS Record,   \* what is queued: serialized datafile records
          Bound     \* the largest number of records held at once

VARIABLES queue,    \* records accepted and not yet handed over, oldest first
          phase     \* "open", "draining" or "closed"

qvars == <<queue, phase>>

QueueInit == queue = <<>> /\ phase = "open"

Enqueue(r) ==
    /\ phase = "open"
    /\ Len(queue) < Bound
    /\ queue' = Append(queue, r)
    /\ UNCHANGED phase

Dequeue ==
    /\ queue # <<>>
    /\ phase # "closed"
    /\ queue' = Tail(queue)
    /\ UNCHANGED phase

BeginDrain ==
    /\ phase = "open"
    /\ phase' = "draining"
    /\ UNCHANGED queue

Close ==
    /\ phase = "draining"
    /\ queue = <<>>
    /\ phase' = "closed"
    /\ UNCHANGED queue

QueueNext == (\E r \in Record : Enqueue(r)) \/ Dequeue \/ BeginDrain \/ Close

\* What may happen to the queue.
QueueSafety == QueueInit /\ [][QueueNext]_qvars

\* The consumer keeps consuming and a drained queue does close.
QueueFairness == WF_qvars(Dequeue) /\ WF_qvars(Close)

QueueSpec == QueueSafety /\ QueueFairness
==============================================================================
