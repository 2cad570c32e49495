---------------------------- MODULE WriterRingbuf ----------------------------
(***************************************************************************)
(* The writer ring buffer (writer_ringbuf.c) with the threads around it:   *)
(* producers inside ccask_put (core.c), the writer thread's loop           *)
(* (writer.c) and the thread that calls ccask_shutdown.                    *)
(*                                                                         *)
(* A critical section of the buffer's mutex is a step that takes the lock, *)
(* one step for each access to the buffer that another thread could fall   *)
(* between if the mutex did not keep it out, and a release on the paths on *)
(* which the code releases.  What the writer thread does with a record it  *)
(* has popped (ccask_write_record_blocking) is one opaque step here, after *)
(* which the call has returned or never will; module Store has its detail. *)
(***************************************************************************)
EXTENDS Naturals, Sequences

CONSTANTS
    Producers,     \* application threads that call ccask_put / ccask_delete
    Record,        \* serialized datafile records
    Capacity,      \* ccask_options_t.writer_ringbuf_capacity
    MaxPuts,       \* bound: calls of ccask_put that get past the shutdown check
    Faults,        \* {} or {"nomem"}: may malloc fail while a record is pushed
    AppQuiesces    \* TRUE: ccask_shutdown is called only with no put in flight

Writer   == "writer"
NoThread == "none"
Empty    == "empty"     \* contents of a slot never written (calloc)

\* CCASK_ATTEMPT(5, ...) around the push.
PutAttempts == 5

ASSUME CapacityAssumption == Capacity \in Nat \ {0}
ASSUME ThreadAssumption   == Producers \cap {Writer, NoThread} = {}
ASSUME RecordAssumption   == Empty \notin Record
ASSUME BoundAssumption    == MaxPuts \in Nat
ASSUME FaultAssumption    == Faults \subseteq {"nomem"} /\ AppQuiesces \in BOOLEAN

VARIABLES
    isShuttingDown,  \* core.c is_shutting_down
    buf, head, tail, \* the slots, the next slot to fill, the next to empty
    shutdown,        \* ringbuf->shutdown
    mutex,           \* owner of ringbuf->mutex
    ppc, prec, tries, result,  \* producers: where, record, failed pushes, outcome
    wpc, wrec,       \* writer thread: where, the record it has copied out
    cpc,             \* the thread in ccask_shutdown; "freed": ringbuf destroyed
    puts,            \* calls so far, bounded by MaxPuts
    accepted, taken  \* history: records stored in, and copied out of, the buffer

bufferVars   == <<buf, head, tail, shutdown, mutex>>
producerVars == <<ppc, prec, tries, result, puts>>
writerVars   == <<wpc, wrec>>
historyVars  == <<accepted, taken>>
vars == <<isShuttingDown, bufferVars, producerVars, writerVars, cpc, historyVars>>

Slots == 0 .. Capacity - 1

Init ==
    /\ isShuttingDown = FALSE
    /\ buf = [i \in Slots |-> Empty] /\ head = 0 /\ tail = 0
    /\ shutdown = FALSE /\ mutex = NoThread
    /\ ppc = [p \in Producers |-> "idle"]
    /\ prec = [p \in Producers |-> Empty]
    /\ tries = [p \in Producers |-> 0]
    /\ result = [p \in Producers |-> "none"]
    /\ wpc = "lock" /\ wrec = Empty /\ cpc = "run"
    /\ puts = 0 /\ accepted = <<>> /\ taken = <<>>

-----------------------------------------------------------------------------
(* Slot arithmetic *)

NextSlotNoWrap(i) == i + 1
NextSlot(i) == (i + 1) % Capacity

FullWhenLapped == head = tail /\ buf[head] # Empty
Full == NextSlot(head) = tail

\* ccask_writer_ringbuf_count
Count == IF head >= tail THEN head - tail ELSE Capacity - (tail - head)

\* The slot of the i-th oldest record, i from 1.
SlotOf(i) == IF tail + i - 1 < Capacity THEN tail + i - 1 ELSE tail + i - 1 - Capacity

\* The records in flight, oldest first.
Contents == [i \in 1 .. Count |-> buf[SlotOf(i)]]

-----------------------------------------------------------------------------
(* ccask_put and ccask_writer_ringbuf_push *)

PutRejected(p) ==
    /\ ppc[p] = "idle" /\ isShuttingDown
    /\ result' = [result EXCEPT ![p] = "fail"]
    /\ UNCHANGED <<isShuttingDown, bufferVars, ppc, prec, tries, puts, writerVars, cpc,
                   historyVars>>

PutBegin(p, r) ==
    /\ ppc[p] = "idle" /\ ~isShuttingDown
    /\ puts < MaxPuts
    /\ puts' = puts + 1
    /\ ppc' = [ppc EXCEPT ![p] = "lock"]
    /\ prec' = [prec EXCEPT ![p] = r]
    /\ result' = [result EXCEPT ![p] = "none"]
    /\ UNCHANGED <<isShuttingDown, bufferVars, tries, writerVars, cpc, historyVars>>

\* pthread_mutex_lock has returned to thread t.
AcquireAnyway(t) == mutex' = t
Acquire(t) == mutex = NoThread /\ mutex' = t
Release == mutex' = NoThread

\* Once the buffer is freed nothing more is said about a thread that touches it.
PushLock(p) ==
    /\ ppc[p] = "lock" /\ cpc # "freed"
    /\ Acquire(p)
    /\ ppc' = [ppc EXCEPT ![p] = "push"]
    /\ UNCHANGED <<isShuttingDown, buf, head, tail, shutdown, prec, tries, result,
                   puts, writerVars, cpc, historyVars>>

\* ccask_put's outcome when the push has returned for the last time.
Return(p, status) ==
    /\ ppc' = [ppc EXCEPT ![p] = "idle"]
    /\ prec' = [prec EXCEPT ![p] = Empty]
    /\ tries' = [tries EXCEPT ![p] = 0]
    /\ result' = [result EXCEPT ![p] = status]

\* CCASK_RETRY: the push is tried again at once, PutAttempts times in all.
PushFull(p) ==
    /\ ppc[p] = "push" /\ Full
    /\ Release
    /\ \/ /\ tries[p] + 1 < PutAttempts
          /\ tries' = [tries EXCEPT ![p] = @ + 1]
          /\ ppc' = [ppc EXCEPT ![p] = "lock"]
          /\ UNCHANGED <<prec, result>>
       \/ /\ tries[p] + 1 = PutAttempts
          /\ Return(p, "fail")
    /\ UNCHANGED <<isShuttingDown, buf, head, tail, shutdown, puts, writerVars, cpc,
                   historyVars>>

\* ccask_create_datafile_record fails: the push returns with the mutex held.
PushNoMemory(p) ==
    /\ "nomem" \in Faults
    /\ ppc[p] = "push" /\ ~Full
    /\ Return(p, "fail")
    /\ UNCHANGED <<isShuttingDown, bufferVars, puts, writerVars, cpc, historyVars>>

\* The record is built in the slot at head, which does not count as filled yet.
PushStore(p) ==
    /\ ppc[p] = "push" /\ ~Full
    /\ buf' = [buf EXCEPT ![head] = prec[p]]
    /\ ppc' = [ppc EXCEPT ![p] = "stored"]
    /\ UNCHANGED <<isShuttingDown, head, tail, shutdown, mutex, prec, tries, result,
                   puts, writerVars, cpc, historyVars>>

\* A thread blocked in pthread_cond_wait leaves it to take the mutex again.
WakeNobody == UNCHANGED wpc
WakeWriter == wpc' = IF wpc = "wait" THEN "lock" ELSE wpc

\* head moves on, the writer is signalled, the mutex released.
PushAdvance(p) ==
    /\ ppc[p] = "stored"
    /\ head' = NextSlot(head)
    /\ WakeWriter
    /\ Release
    /\ accepted' = Append(accepted, prec[p])
    /\ Return(p, "ok")
    /\ UNCHANGED <<isShuttingDown, buf, tail, shutdown, puts, wrec, cpc, taken>>

-----------------------------------------------------------------------------
(* writer_thread_main and ccask_writer_ringbuf_pop *)

PopLock ==
    /\ wpc = "lock"
    /\ Acquire(Writer)
    /\ wpc' = "pop"
    /\ UNCHANGED <<isShuttingDown, buf, head, tail, shutdown, producerVars, wrec, cpc,
                   historyVars>>

\* pthread_cond_wait releases the mutex and blocks in one step.
PopWaitHoldsMutex ==
    /\ wpc = "pop" /\ tail = head /\ ~shutdown
    /\ wpc' = "wait"
    /\ UNCHANGED <<isShuttingDown, bufferVars, producerVars, wrec, cpc, historyVars>>
PopWait ==
    /\ wpc = "pop" /\ tail = head /\ ~shutdown
    /\ Release
    /\ wpc' = "wait"
    /\ UNCHANGED <<isShuttingDown, buf, head, tail, shutdown, producerVars, wrec, cpc,
                   historyVars>>

\* POSIX lets pthread_cond_wait return without a signal; the while loop rechecks.
SpuriousWakeup ==
    /\ wpc = "wait"
    /\ wpc' = "lock"
    /\ UNCHANGED <<isShuttingDown, bufferVars, producerVars, wrec, cpc, historyVars>>

PopExitEarly ==
    /\ wpc = "pop" /\ shutdown
    /\ Release
    /\ wpc' = "exited"
    /\ UNCHANGED <<isShuttingDown, buf, head, tail, shutdown, producerVars, wrec, cpc,
                   historyVars>>
PopExit ==
    /\ wpc = "pop" /\ shutdown /\ tail = head
    /\ Release
    /\ wpc' = "exited"
    /\ UNCHANGED <<isShuttingDown, buf, head, tail, shutdown, producerVars, wrec, cpc,
                   historyVars>>

\* The record in the slot at tail is copied out ...
PopCopy ==
    /\ wpc = "pop" /\ tail # head
    /\ wrec' = buf[tail]
    /\ wpc' = "copied"
    /\ UNCHANGED <<isShuttingDown, bufferVars, producerVars, cpc, historyVars>>

\* ... and tail moves on.
PopAdvance ==
    /\ wpc = "copied"
    /\ tail' = NextSlot(tail)
    /\ Release
    /\ taken' = Append(taken, wrec)
    /\ wpc' = "write"
    /\ UNCHANGED <<isShuttingDown, buf, head, shutdown, producerVars, wrec, cpc, accepted>>

\* ccask_write_record_blocking need not return: it spins in safe_writev on a record
\* without a value (a delete), rotates for ever for one larger than the threshold, and
\* waits for the key directory while an iterator or a failed compaction holds its lock.
WriteHangs ==
    /\ wpc = "write"
    /\ wpc' = "stuck"
    /\ UNCHANGED <<isShuttingDown, bufferVars, producerVars, wrec, cpc, historyVars>>

\* It has returned, and free_datafile_record too.
WriteDone ==
    /\ wpc = "write"
    /\ wpc' = "lock"
    /\ wrec' = Empty
    /\ UNCHANGED <<isShuttingDown, bufferVars, producerVars, cpc, historyVars>>

-----------------------------------------------------------------------------
(* ccask_shutdown and ccask_writer_stop *)

ShutdownBegin ==
    /\ cpc = "run"
    /\ AppQuiesces => \A p \in Producers : ppc[p] = "idle"
    /\ isShuttingDown' = TRUE
    /\ cpc' = "stop"
    /\ UNCHANGED <<bufferVars, producerVars, writerVars, historyVars>>

\* ccask_writer_ringbuf_start_shutdown; its critical section is one assignment.
StartShutdown ==
    /\ cpc = "stop" /\ mutex = NoThread
    /\ shutdown' = TRUE
    /\ WakeWriter
    /\ cpc' = "join"
    /\ UNCHANGED <<isShuttingDown, buf, head, tail, mutex, producerVars, wrec, historyVars>>

\* pthread_join of the writer, then ccask_writer_ringbuf_destroy.
DestroyUnjoined ==
    /\ cpc = "join"
    /\ cpc' = "freed"
    /\ UNCHANGED <<isShuttingDown, bufferVars, producerVars, writerVars, historyVars>>
JoinAndDestroy ==
    /\ cpc = "join" /\ wpc = "exited"
    /\ cpc' = "freed"
    /\ UNCHANGED <<isShuttingDown, bufferVars, producerVars, writerVars, historyVars>>

-----------------------------------------------------------------------------
PushBody(p) == PushFull(p) \/ PushNoMemory(p) \/ PushStore(p) \/ PushAdvance(p)
PopBody     == PopWait \/ PopExit \/ PopCopy \/ PopAdvance
WriteStep   == WriteDone \/ WriteHangs
Closer      == ShutdownBegin \/ StartShutdown \/ JoinAndDestroy

ProducerStep(p) ==
    \/ PutRejected(p)
    \/ \E r \in Record : PutBegin(p, r)
    \/ PushLock(p)
    \/ PushBody(p)

Next ==
    \/ \E p \in Producers : ProducerStep(p)
    \/ PopLock \/ PopBody \/ SpuriousWakeup \/ WriteStep
    \/ Closer

SafeSpec == Init /\ [][Next]_vars

(***************************************************************************)
(* Every thread that can run eventually does, and one that waits for the   *)
(* mutex gets it if it is free again and again (strong fairness on the two *)
(* lock steps that compete for it for ever).  A write comes to its end or  *)
(* hangs.  The application neither has to call ccask_put nor               *)
(* ccask_shutdown, and wakeups need not be spurious.                       *)
(***************************************************************************)
Fairness ==
    /\ \A p \in Producers : SF_vars(PushLock(p)) /\ WF_vars(PushBody(p))
    /\ SF_vars(PopLock) /\ WF_vars(PopBody) /\ WF_vars(WriteStep)
    /\ SF_vars(StartShutdown) /\ WF_vars(JoinAndDestroy)

Spec == SafeSpec /\ Fairness

-----------------------------------------------------------------------------
(* Properties *)

\* Every variable holds a value of its type: in particular head and tail stay
\* inside the allocated slots.
TypeOK ==
    /\ isShuttingDown \in BOOLEAN /\ shutdown \in BOOLEAN
    /\ buf \in [Slots -> Record \cup {Empty}]
    /\ head \in Slots /\ tail \in Slots
    /\ mutex \in Producers \cup {Writer, NoThread}
    /\ ppc \in [Producers -> {"idle", "lock", "push", "stored"}]
    /\ prec \in [Producers -> Record \cup {Empty}]
    /\ tries \in [Producers -> 0 .. PutAttempts - 1]
    /\ result \in [Producers -> {"none", "ok", "fail"}]
    /\ wpc \in {"lock", "pop", "wait", "copied", "write", "stuck", "exited"}
    /\ wrec \in Record \cup {Empty}
    /\ cpc \in {"run", "stop", "join", "freed"}
    /\ puts \in 0 .. MaxPuts
    /\ accepted \in Seq(Record) /\ taken \in Seq(Record)

\* Records leave the buffer in the order they were accepted, none lost, none
\* twice, none overwritten while it waits: what was accepted is what was taken
\* followed by what the slots between tail and head hold (push and pop).
FifoDelivery == accepted = taken \o Contents

\* The mutex keeps everyone else out of the buffer: two threads between their lock
\* and their unlock would both be its owner (push, pop).
MutualExclusion ==
    /\ \A p \in Producers : ppc[p] \in {"push", "stored"} => mutex = p
    /\ wpc \in {"pop", "copied"} => mutex = Writer

\* What a thread saw of the buffer under the mutex still holds when it acts on it:
\* the slot it filled is free and holds its record, the slot it copied is the
\* oldest and still holds what it copied.
SlotsStable ==
    /\ \A p \in Producers : ppc[p] # "idle" => prec[p] \in Record
    /\ \A p \in Producers : ppc[p] = "stored" => ~Full /\ buf[head] = prec[p]
    /\ wpc = "copied" => tail # head /\ wrec = buf[tail]

\* FifoDelivery, slot by slot.
SlotsInOrder ==
    /\ Len(accepted) = Len(taken) + Count
    /\ \A i \in 1 .. Len(taken) : taken[i] = accepted[i]
    /\ \A i \in 1 .. Count : buf[SlotOf(i)] = accepted[Len(taken) + i]

\* The inductive invariant behind the safety properties of push and pop.
BufferInv == TypeOK /\ MutualExclusion /\ SlotsStable /\ SlotsInOrder

\* No lost wakeup: the writer thread never sleeps in ccask_writer_ringbuf_pop
\* while a record waits or shutdown has been signalled.
NoLostWakeup == wpc = "wait" => head = tail /\ ~shutdown

\* ccask_writer_ringbuf_destroy frees the buffer only when no thread is inside
\* push or pop any more.
NoUseAfterFree ==
    cpc = "freed" => wpc = "exited" /\ \A p \in Producers : ppc[p] = "idle"

\* A push that ran out of memory has returned without its unlock.
MutexLeaked == \E p \in Producers : mutex = p /\ ppc[p] = "idle"

\* The writer thread is in a write that does not return.
WriterStuck == wpc = "stuck"

\* A put that returned CCASK_OK reaches the writer thread, whatever shutdown does,
\* unless a push leaks the mutex or an earlier write never returns (pop drains
\* before it tests for shutdown).
AcceptedIsTaken ==
    [](~MutexLeaked /\ ~WriterStuck) =>
        \A n \in 1 .. MaxPuts : (Len(accepted) >= n) ~> (Len(taken) >= n)

\* ccask_shutdown, once called, comes to its end: the writer drains, exits and
\* is joined, unless a push leaks the mutex or a write never returns.
ShutdownCompletes == [](~MutexLeaked /\ ~WriterStuck) => (isShuttingDown ~> cpc = "freed")

\* ccask_put is non-blocking: a call that began returns, also when other producers
\* and the writer compete for the mutex, and when the writer is stuck and the buffer
\* stays full, unless a push leaks the mutex.
PutReturns ==
    []~MutexLeaked => \A p \in Producers : ppc[p] # "idle" ~> ppc[p] = "idle"

\* The bounded queue that drains before it closes.
Queue == INSTANCE WriterQueue WITH
    Bound <- Capacity - 1,
    queue <- Contents,
    phase <- IF wpc = "exited" THEN "closed"
             ELSE IF isShuttingDown THEN "draining" ELSE "open"

\* The ring buffer implements it: every step of the threads around the buffer is a
\* step of the queue or leaves it alone, provided ccask_shutdown finds no put in
\* flight.
RefinesQueue == Queue!QueueSafety

\* And the queue is served: what is queued is taken and a draining queue is closed,
\* unless a push leaks the mutex or a write never returns.
ServesQueue == [](~MutexLeaked /\ ~WriterStuck) => Queue!QueueFairness
==============================================================================
