------------------------ MODULE WriterRingbufProofs ------------------------
(***************************************************************************)
(* Theorems about module WriterRingbuf, for every set of producers and     *)
(* records and every capacity, number of puts and choice of faults.        *)
(***************************************************************************)
EXTENDS WriterRingbuf, SequenceTheorems, TLAPS

-----------------------------------------------------------------------------
(* Slot arithmetic *)

\* A slot's successor without the remainder operator (push and pop).
LEMMA NextSlotCases ==
    ASSUME NEW i \in Slots
    PROVE  /\ NextSlot(i) \in Slots
           /\ NextSlot(i) = IF i + 1 = Capacity THEN 0 ELSE i + 1
BY CapacityAssumption DEF Slots, NextSlot

\* ccask_writer_ringbuf_count stays below the capacity, and is 0 exactly when the
\* test of pop says empty.
LEMMA CountBounds ==
    ASSUME head \in Slots, tail \in Slots
    PROVE  /\ Count \in Nat /\ Count < Capacity
           /\ Count = 0 <=> head = tail
BY CapacityAssumption DEF Slots, Count

\* The records in flight occupy slots of the buffer, none of them the one at head.
LEMMA SlotOfBounds ==
    ASSUME head \in Slots, tail \in Slots, NEW i \in 1 .. Count
    PROVE  SlotOf(i) \in Slots /\ SlotOf(i) # head
BY CapacityAssumption DEF Slots, Count, SlotOf

\* Moving head on, when the buffer is not full, adds the slot it was at to the end.
LEMMA AdvanceHead ==
    ASSUME head \in Slots, tail \in Slots, ~Full,
           head' = NextSlot(head), tail' = tail
    PROVE  /\ Count' = Count + 1
           /\ SlotOf(Count + 1) = head
           /\ \A i \in 1 .. Count + 1 : SlotOf(i)' = SlotOf(i)
<1>1. NextSlot(head) = IF head + 1 = Capacity THEN 0 ELSE head + 1
  BY NextSlotCases
<1>2. NextSlot(head) # tail
  BY DEF Full
<1>3. Count' = Count + 1 /\ SlotOf(Count + 1) = head
  BY <1>1, <1>2, CapacityAssumption DEF Slots, Count, SlotOf
<1>4. \A i \in 1 .. Count + 1 : SlotOf(i)' = SlotOf(i)
  BY DEF SlotOf
<1> QED BY <1>3, <1>4

\* Moving tail on, when the buffer is not empty, removes the slot it was at.
LEMMA AdvanceTail ==
    ASSUME head \in Slots, tail \in Slots, tail # head,
           tail' = NextSlot(tail), head' = head
    PROVE  /\ Count \in Nat \ {0} /\ Count' = Count - 1
           /\ SlotOf(1) = tail
           /\ \A i \in 1 .. Count - 1 : SlotOf(i)' = SlotOf(i + 1)
<1>1. NextSlot(tail) = IF tail + 1 = Capacity THEN 0 ELSE tail + 1
  BY NextSlotCases
<1>2. Count \in Nat \ {0} /\ Count' = Count - 1 /\ SlotOf(1) = tail
  BY <1>1, CapacityAssumption DEF Slots, Count, SlotOf
<1>3. ASSUME NEW i \in 1 .. Count - 1
      PROVE  SlotOf(i)' = SlotOf(i + 1)
  BY <1>1, <1>2, CapacityAssumption DEF Slots, Count, SlotOf
<1> QED BY <1>2, <1>3

-----------------------------------------------------------------------------
(* The inductive invariant *)

\* The buffer starts empty, with nobody in it.
LEMMA BufferInvInit == Init => BufferInv
<1> SUFFICES ASSUME Init PROVE BufferInv
  OBVIOUS
<1>1. Slots # {} /\ 0 \in Slots
  BY CapacityAssumption DEF Slots
<1>2. TypeOK
  BY <1>1, BoundAssumption DEF Init, TypeOK, PutAttempts
<1>3. MutualExclusion /\ SlotsStable
  BY DEF Init, MutualExclusion, SlotsStable
<1>4. SlotsInOrder
  BY DEF Init, SlotsInOrder, Count
<1> QED BY <1>2, <1>3, <1>4 DEF BufferInv

\* A step that touches neither the slots nor their bounds keeps the records in order.
LEMMA OrderUntouched ==
    ASSUME SlotsInOrder, UNCHANGED <<buf, head, tail, accepted, taken>>
    PROVE  SlotsInOrder'
BY DEF SlotsInOrder, Count, SlotOf

\* Filling the slot at head keeps them in order too: no record in flight is there.
LEMMA OrderStore ==
    ASSUME BufferInv, NEW p \in Producers, PushStore(p)
    PROVE  SlotsInOrder'
<1> USE DEF BufferInv
<1>1. Count' = Count /\ \A i \in 1 .. Count : SlotOf(i)' = SlotOf(i)
  BY DEF PushStore, Count, SlotOf
<1>2. \A i \in 1 .. Count : buf'[SlotOf(i)] = buf[SlotOf(i)]
  BY SlotOfBounds DEF TypeOK, PushStore
<1> QED BY <1>1, <1>2 DEF SlotsInOrder, PushStore, historyVars

\* A completed push adds its record behind the ones in flight.
LEMMA OrderPushed ==
    ASSUME BufferInv, NEW p \in Producers, PushAdvance(p)
    PROVE  SlotsInOrder'
<1> USE DEF BufferInv
<1>1. head \in Slots /\ tail \in Slots /\ accepted \in Seq(Record) /\ taken \in Seq(Record)
  BY DEF TypeOK
<1>2. ~Full /\ buf[head] = prec[p] /\ prec[p] \in Record
  BY DEF PushAdvance, SlotsStable
<1>3. /\ Count' = Count + 1 /\ SlotOf(Count + 1) = head
      /\ \A i \in 1 .. Count + 1 : SlotOf(i)' = SlotOf(i)
  BY <1>1, <1>2, AdvanceHead DEF PushAdvance
<1>4. /\ Len(accepted') = Len(accepted) + 1
      /\ \A i \in 1 .. Len(accepted) : accepted'[i] = accepted[i]
      /\ accepted'[Len(accepted) + 1] = buf[head]
  BY <1>1, <1>2 DEF PushAdvance
<1>5. Count \in Nat /\ Len(taken) \in Nat /\ Len(accepted) = Len(taken) + Count
  BY <1>1, CountBounds DEF SlotsInOrder
<1>6. taken' = taken /\ buf' = buf
  BY DEF PushAdvance
<1>7. \A i \in 1 .. Len(taken) : taken[i] = accepted'[i]
  BY <1>4, <1>5 DEF SlotsInOrder
<1>8. ASSUME NEW i \in 1 .. Count + 1
      PROVE  buf[SlotOf(i)] = accepted'[Len(taken) + i]
  <2>1. CASE i = Count + 1
    BY <2>1, <1>3, <1>4, <1>5
  <2>2. CASE i \in 1 .. Count
    BY <2>2, <1>4, <1>5 DEF SlotsInOrder
  <2> QED BY <2>1, <2>2, <1>5
<1> QED BY <1>3, <1>4, <1>5, <1>6, <1>7, <1>8 DEF SlotsInOrder

\* A completed pop moves the oldest record in flight to the records taken.
LEMMA OrderPopped ==
    ASSUME BufferInv, PopAdvance
    PROVE  SlotsInOrder' /\ wrec \in Record
<1> USE DEF BufferInv
<1>1. head \in Slots /\ tail \in Slots /\ accepted \in Seq(Record) /\ taken \in Seq(Record)
  BY DEF TypeOK
<1>2. tail # head /\ wrec = buf[tail]
  BY DEF PopAdvance, SlotsStable
<1>3. /\ Count \in Nat \ {0} /\ Count' = Count - 1 /\ SlotOf(1) = tail
      /\ \A i \in 1 .. Count - 1 : SlotOf(i)' = SlotOf(i + 1)
  BY <1>1, <1>2, AdvanceTail DEF PopAdvance
<1>4. Len(taken) \in Nat /\ Len(accepted) = Len(taken) + Count
  BY <1>1 DEF SlotsInOrder
<1>5. wrec = accepted[Len(taken) + 1] /\ wrec \in Record
  BY <1>1, <1>2, <1>3, <1>4 DEF SlotsInOrder
<1>6. /\ Len(taken') = Len(taken) + 1
      /\ \A i \in 1 .. Len(taken) : taken'[i] = taken[i]
      /\ taken'[Len(taken) + 1] = wrec
  BY <1>1, <1>5 DEF PopAdvance
<1>7. accepted' = accepted /\ buf' = buf
  BY DEF PopAdvance
<1>8. \A i \in 1 .. Len(taken') : taken'[i] = accepted[i]
  BY <1>4, <1>5, <1>6 DEF SlotsInOrder
<1>9. ASSUME NEW i \in 1 .. Count - 1
      PROVE  buf[SlotOf(i + 1)] = accepted[Len(taken') + i]
  BY <1>3, <1>4, <1>6 DEF SlotsInOrder
<1>10. \A i \in 1 .. Count' : buf'[SlotOf(i)'] = accepted'[Len(taken') + i]
  BY <1>3, <1>7, <1>9
<1>11. Len(accepted') = Len(taken') + Count'
  BY <1>3, <1>4, <1>6, <1>7
<1> QED BY <1>5, <1>7, <1>8, <1>10, <1>11 DEF SlotsInOrder

\* Every step of every thread keeps the invariant.
LEMMA BufferInvStep == BufferInv /\ [Next]_vars => BufferInv'
<1> SUFFICES ASSUME BufferInv, [Next]_vars
             PROVE  BufferInv'
  OBVIOUS
<1> USE DEF BufferInv
<1>t. TypeOK /\ MutualExclusion /\ SlotsStable /\ SlotsInOrder
  OBVIOUS
<1>n. Writer # NoThread /\ \A p \in Producers : p # Writer /\ p # NoThread
  BY ThreadAssumption DEF Writer, NoThread
<1>1. ASSUME NEW p \in Producers, PutRejected(p)
      PROVE  BufferInv'
  <2> USE <1>1 DEF PutRejected, bufferVars, writerVars, historyVars
  <2>1. TypeOK'
    BY DEF TypeOK
  <2>2. MutualExclusion' /\ SlotsStable'
    BY DEF MutualExclusion, SlotsStable, Full, NextSlot
  <2>3. SlotsInOrder'
    BY OrderUntouched
  <2> QED BY <2>1, <2>2, <2>3
<1>2. ASSUME NEW p \in Producers, NEW r \in Record, PutBegin(p, r)
      PROVE  BufferInv'
  <2> USE <1>2 DEF PutBegin, bufferVars, writerVars, historyVars
  <2>1. TypeOK'
    BY BoundAssumption DEF TypeOK
  <2>2. MutualExclusion'
    BY DEF MutualExclusion, TypeOK
  <2>3. SlotsStable'
    BY DEF SlotsStable, Full, NextSlot, TypeOK
  <2>4. SlotsInOrder'
    BY OrderUntouched
  <2> QED BY <2>1, <2>2, <2>3, <2>4
<1>3. ASSUME NEW p \in Producers, PushLock(p)
      PROVE  BufferInv'
  <2> USE <1>3 DEF PushLock, Acquire, writerVars, historyVars
  <2>1. TypeOK'
    BY DEF TypeOK
  <2>2. MutualExclusion'
    BY <1>n DEF MutualExclusion, TypeOK
  <2>3. SlotsStable'
    BY DEF SlotsStable, Full, NextSlot, TypeOK
  <2>4. SlotsInOrder'
    BY OrderUntouched
  <2> QED BY <2>1, <2>2, <2>3, <2>4
<1>4. ASSUME NEW p \in Producers, PushFull(p)
      PROVE  BufferInv'
  <2> USE <1>4 DEF PushFull, Release, Return, writerVars, historyVars
  <2>1. TypeOK'
    <3>1. tries[p] + 1 < PutAttempts => tries[p] + 1 \in 0 .. PutAttempts - 1
      BY DEF TypeOK, PutAttempts
    <3>2. 0 \in 0 .. PutAttempts - 1
      BY DEF PutAttempts
    <3>3. tries' \in [Producers -> 0 .. PutAttempts - 1]
      BY <3>1, <3>2 DEF TypeOK
    <3> QED BY <3>3 DEF TypeOK
  <2>2. mutex = p /\ \A q \in Producers \ {p} : ppc[q] \notin {"push", "stored"}
    BY DEF MutualExclusion
  <2>3. MutualExclusion'
    BY <2>2, <1>n DEF MutualExclusion, TypeOK
  <2>4. SlotsStable'
    BY <2>2 DEF SlotsStable, Full, NextSlot, TypeOK
  <2>5. SlotsInOrder'
    BY OrderUntouched
  <2> QED BY <2>1, <2>3, <2>4, <2>5
<1>5. ASSUME NEW p \in Producers, PushNoMemory(p)
      PROVE  BufferInv'
  <2> USE <1>5 DEF PushNoMemory, Return, bufferVars, writerVars, historyVars
  <2>1. TypeOK'
    BY DEF TypeOK, PutAttempts
  <2>2. MutualExclusion'
    BY DEF MutualExclusion, TypeOK
  <2>3. SlotsStable'
    BY DEF SlotsStable, Full, NextSlot, TypeOK
  <2>4. SlotsInOrder'
    BY OrderUntouched
  <2> QED BY <2>1, <2>2, <2>3, <2>4
<1>6. ASSUME NEW p \in Producers, PushStore(p)
      PROVE  BufferInv'
  <2> USE <1>6 DEF PushStore, writerVars, historyVars
  <2>1. prec[p] \in Record
    BY DEF SlotsStable
  <2>2. TypeOK'
    BY <2>1 DEF TypeOK
  <2>3. mutex = p /\ wpc # "copied" /\ \A q \in Producers \ {p} : ppc[q] # "stored"
    BY <1>n DEF MutualExclusion
  <2>4. MutualExclusion'
    BY DEF MutualExclusion, TypeOK
  <2>5. SlotsStable'
    BY <2>1, <2>3 DEF SlotsStable, Full, NextSlot, TypeOK
  <2>6. SlotsInOrder'
    BY OrderStore
  <2> QED BY <2>2, <2>4, <2>5, <2>6
<1>7. ASSUME NEW p \in Producers, PushAdvance(p)
      PROVE  BufferInv'
  <2> USE <1>7 DEF PushAdvance, WakeWriter, Release, Return
  <2>1. prec[p] \in Record
    BY DEF SlotsStable
  <2>2. NextSlot(head) \in Slots
    BY NextSlotCases DEF TypeOK
  <2>3. TypeOK'
    BY <2>1, <2>2 DEF TypeOK, PutAttempts
  <2>4. /\ mutex = p /\ wpc \notin {"pop", "copied"}
        /\ \A q \in Producers \ {p} : ppc[q] \notin {"push", "stored"}
    BY <1>n DEF MutualExclusion
  <2>5. MutualExclusion'
    BY <2>4 DEF MutualExclusion, TypeOK
  <2>6. SlotsStable'
    BY <2>4 DEF SlotsStable, TypeOK
  <2>7. SlotsInOrder'
    BY OrderPushed
  <2> QED BY <2>3, <2>5, <2>6, <2>7
<1>8. ASSUME PopLock
      PROVE  BufferInv'
  <2> USE <1>8 DEF PopLock, Acquire, producerVars, historyVars
  <2>1. TypeOK'
    BY DEF TypeOK
  <2>2. MutualExclusion' /\ SlotsStable'
    BY <1>n DEF MutualExclusion, SlotsStable, Full, NextSlot, TypeOK
  <2>3. SlotsInOrder'
    BY OrderUntouched
  <2> QED BY <2>1, <2>2, <2>3
<1>9. ASSUME PopWait \/ PopExit
      PROVE  BufferInv'
  <2> USE <1>9 DEF PopWait, PopExit, Release, producerVars, historyVars
  <2>1. TypeOK'
    BY DEF TypeOK
  <2>2. \A q \in Producers : ppc[q] \notin {"push", "stored"}
    BY <1>n DEF MutualExclusion
  <2>3. MutualExclusion' /\ SlotsStable'
    BY <2>2 DEF MutualExclusion, SlotsStable, Full, NextSlot
  <2>4. SlotsInOrder'
    BY OrderUntouched
  <2> QED BY <2>1, <2>3, <2>4
<1>10. ASSUME SpuriousWakeup \/ WriteStep
       PROVE  BufferInv'
  <2> USE <1>10 DEF SpuriousWakeup, WriteStep, WriteDone, WriteHangs, bufferVars, producerVars, historyVars
  <2>1. TypeOK'
    BY DEF TypeOK
  <2>2. MutualExclusion' /\ SlotsStable'
    BY DEF MutualExclusion, SlotsStable, Full, NextSlot
  <2>3. SlotsInOrder'
    BY OrderUntouched
  <2> QED BY <2>1, <2>2, <2>3
<1>11. ASSUME PopCopy
       PROVE  BufferInv'
  <2> USE <1>11 DEF PopCopy, bufferVars, producerVars, historyVars
  <2>1. TypeOK'
    BY DEF TypeOK
  <2>2. MutualExclusion' /\ SlotsStable'
    BY DEF MutualExclusion, SlotsStable, Full, NextSlot
  <2>3. SlotsInOrder'
    BY OrderUntouched
  <2> QED BY <2>1, <2>2, <2>3
<1>12. ASSUME PopAdvance
       PROVE  BufferInv'
  <2> USE <1>12 DEF PopAdvance, Release, producerVars
  <2>1. SlotsInOrder' /\ wrec \in Record
    BY OrderPopped
  <2>2. NextSlot(tail) \in Slots
    BY NextSlotCases DEF TypeOK
  <2>3. TypeOK'
    BY <2>1, <2>2 DEF TypeOK
  <2>4. \A q \in Producers : ppc[q] \notin {"push", "stored"}
    BY <1>n DEF MutualExclusion
  <2>5. MutualExclusion' /\ SlotsStable'
    BY <2>4 DEF MutualExclusion, SlotsStable
  <2> QED BY <2>1, <2>3, <2>5
<1>13. ASSUME ShutdownBegin \/ JoinAndDestroy
       PROVE  BufferInv'
  <2> USE <1>13 DEF ShutdownBegin, JoinAndDestroy, bufferVars, producerVars, writerVars,
                    historyVars
  <2>1. TypeOK'
    BY DEF TypeOK
  <2>2. MutualExclusion' /\ SlotsStable'
    BY DEF MutualExclusion, SlotsStable, Full, NextSlot
  <2>3. SlotsInOrder'
    BY OrderUntouched
  <2> QED BY <2>1, <2>2, <2>3
<1>14. ASSUME StartShutdown
       PROVE  BufferInv'
  <2> USE <1>14 DEF StartShutdown, WakeWriter, producerVars, historyVars
  <2>1. TypeOK'
    BY DEF TypeOK
  <2>2. MutualExclusion' /\ SlotsStable'
    BY DEF MutualExclusion, SlotsStable, Full, NextSlot
  <2>3. SlotsInOrder'
    BY OrderUntouched
  <2> QED BY <2>1, <2>2, <2>3
<1>15. CASE UNCHANGED vars
  <2> USE <1>15 DEF vars, bufferVars, producerVars, writerVars, historyVars
  <2>1. TypeOK' /\ MutualExclusion' /\ SlotsStable'
    BY DEF TypeOK, MutualExclusion, SlotsStable, Full, NextSlot
  <2>2. SlotsInOrder'
    BY OrderUntouched
  <2> QED BY <2>1, <2>2
<1> QED
  BY <1>1, <1>2, <1>3, <1>4, <1>5, <1>6, <1>7, <1>8, <1>9, <1>10, <1>11, <1>12,
     <1>13, <1>14, <1>15
  DEF Next, ProducerStep, PushBody, PopBody, Closer

\* The slot-by-slot invariant says what FifoDelivery says of whole sequences.
LEMMA InOrderIsFifo == BufferInv => FifoDelivery
<1> SUFFICES ASSUME BufferInv PROVE accepted = taken \o Contents
  BY DEF FifoDelivery
<1> USE DEF BufferInv
<1>1. accepted \in Seq(Record) /\ taken \in Seq(Record) /\ Count \in Nat
  BY CountBounds DEF TypeOK
<1>2. \A i \in 1 .. Count : Contents[i] = accepted[Len(taken) + i]
  BY DEF Contents, SlotsInOrder
<1>3. Contents \in Seq(Record) /\ Len(Contents) = Count
  <2>1. \A i \in 1 .. Count : buf[SlotOf(i)] \in Record
    BY <1>1 DEF SlotsInOrder
  <2> QED BY <1>1, <2>1 DEF Contents
<1>4. /\ taken \o Contents \in Seq(Record)
      /\ Len(taken \o Contents) = Len(accepted)
      /\ \A i \in 1 .. Len(accepted) : (taken \o Contents)[i] = accepted[i]
  BY <1>1, <1>2, <1>3 DEF SlotsInOrder
<1> QED BY <1>1, <1>4, SeqEqual

-----------------------------------------------------------------------------
(* Theorems *)

\* Whatever the threads do, malloc failures and shutdown races included, the
\* buffer's bookkeeping stays consistent.
THEOREM BufferInvariant == SafeSpec => []BufferInv
BY BufferInvInit, BufferInvStep, PTL DEF SafeSpec

\* Every variable keeps its type; in particular push and pop index the allocated
\* slots only, for every capacity.
THEOREM TypeCorrect == SafeSpec => []TypeOK
<1>1. BufferInv => TypeOK
  BY DEF BufferInv
<1> QED BY <1>1, BufferInvariant, PTL

\* Records are delivered in order, none lost, duplicated or overwritten.
THEOREM DeliveryInOrder == SafeSpec => []FifoDelivery
BY BufferInvariant, InOrderIsFifo, PTL

\* The writer never sleeps while there is something to do.
THEOREM WakeupsNotLost == SafeSpec => []NoLostWakeup
<1>1. Init => NoLostWakeup
  BY DEF Init, NoLostWakeup
<1>2. BufferInv /\ NoLostWakeup /\ [Next]_vars => NoLostWakeup'
  <2> SUFFICES ASSUME BufferInv, NoLostWakeup, [Next]_vars PROVE NoLostWakeup'
    OBVIOUS
  <2> USE DEF NoLostWakeup
  <2>1. ASSUME NEW p \in Producers, ProducerStep(p) PROVE NoLostWakeup'
    BY <2>1 DEF ProducerStep, PutRejected, PutBegin, PushLock, PushBody, PushFull,
                PushNoMemory, PushStore, PushAdvance, WakeWriter, bufferVars, writerVars
  <2>2. CASE PopLock \/ PopBody \/ SpuriousWakeup \/ WriteStep
    BY <2>2 DEF PopLock, PopBody, PopWait, PopExit, PopCopy, PopAdvance, SpuriousWakeup,
                WriteStep, WriteDone, WriteHangs, bufferVars
  <2>3. CASE Closer
    BY <2>3 DEF Closer, ShutdownBegin, StartShutdown, JoinAndDestroy, WakeWriter,
                bufferVars, writerVars
  <2>4. CASE UNCHANGED vars
    BY <2>4 DEF vars, bufferVars, writerVars
  <2> QED BY <2>1, <2>2, <2>3, <2>4 DEF Next
<1> QED BY <1>1, <1>2, BufferInvariant, PTL DEF SafeSpec

-----------------------------------------------------------------------------
(* Shutdown by an application whose puts have returned *)

\* What ccask_shutdown relies on once it has set is_shutting_down.
DrainInv ==
    /\ isShuttingDown <=> cpc # "run"
    /\ isShuttingDown => \A p \in Producers : ppc[p] = "idle"
    /\ shutdown => isShuttingDown
    /\ wpc = "exited" => shutdown
    /\ cpc = "freed" => wpc = "exited"

\* No put begins once shutdown has, and the writer is joined before the buffer goes.
LEMMA DrainInvariant == SafeSpec /\ AppQuiesces => []DrainInv
<1> SUFFICES ASSUME AppQuiesces PROVE SafeSpec => []DrainInv
  OBVIOUS
<1>1. Init => DrainInv
  BY DEF Init, DrainInv
<1>2. BufferInv /\ DrainInv /\ [Next]_vars => DrainInv'
  <2> SUFFICES ASSUME BufferInv, DrainInv, [Next]_vars PROVE DrainInv'
    OBVIOUS
  <2> USE DEF DrainInv
  <2>1. ASSUME NEW p \in Producers, ProducerStep(p) PROVE DrainInv'
    BY <2>1 DEF ProducerStep, PutRejected, PutBegin, PushLock, PushBody, PushFull, Return,
                PushNoMemory, PushStore, PushAdvance, WakeWriter, bufferVars, writerVars
  <2>2. CASE PopLock \/ PopBody \/ SpuriousWakeup \/ WriteStep
    BY <2>2 DEF PopLock, PopBody, PopWait, PopExit, PopCopy, PopAdvance, SpuriousWakeup,
                WriteStep, WriteDone, WriteHangs, bufferVars, producerVars
  <2>3. CASE Closer
    BY <2>3 DEF Closer, ShutdownBegin, StartShutdown, JoinAndDestroy, WakeWriter,
                bufferVars, producerVars, writerVars
  <2>4. CASE UNCHANGED vars
    BY <2>4 DEF vars, bufferVars, producerVars, writerVars
  <2> QED BY <2>1, <2>2, <2>3, <2>4 DEF Next
<1> QED BY <1>1, <1>2, BufferInvariant, PTL DEF SafeSpec

\* If ccask_shutdown is called when no put is in flight, no thread is left inside
\* the buffer when it is freed.
THEOREM FreedBufferUnused == SafeSpec /\ AppQuiesces => []NoUseAfterFree
<1>1. DrainInv => NoUseAfterFree
  BY DEF DrainInv, NoUseAfterFree
<1> QED BY <1>1, DrainInvariant, PTL

-----------------------------------------------------------------------------
(* The ring buffer implements the queue *)

\* What the slots hold is a sequence of records.
ContentsTyped == Count \in Nat /\ Contents \in Seq(Record) /\ Len(Contents) = Count

\* The invariant makes it so.
LEMMA ContentsType == BufferInv => ContentsTyped
<1> SUFFICES ASSUME BufferInv PROVE ContentsTyped
  OBVIOUS
<1> USE DEF BufferInv
<1>1. accepted \in Seq(Record) /\ taken \in Seq(Record) /\ Count \in Nat
  BY CountBounds DEF TypeOK
<1>2. \A i \in 1 .. Count : buf[SlotOf(i)] \in Record
  BY <1>1 DEF SlotsInOrder
<1> QED BY <1>1, <1>2 DEF Contents, ContentsTyped

\* A completed push appends its record to the queue, which had room for it.
LEMMA PushEnqueues ==
    ASSUME BufferInv, BufferInv', NEW p \in Producers, PushAdvance(p)
    PROVE  /\ prec[p] \in Record
           /\ Len(Contents) < Capacity - 1
           /\ Contents' = Append(Contents, prec[p])
<1>1. /\ head \in Slots /\ tail \in Slots /\ ~Full
      /\ buf[head] = prec[p] /\ prec[p] \in Record
  BY DEF BufferInv, TypeOK, SlotsStable, PushAdvance
<1>2. /\ Count' = Count + 1 /\ SlotOf(Count + 1) = head
      /\ \A i \in 1 .. Count + 1 : SlotOf(i)' = SlotOf(i)
  BY <1>1, AdvanceHead DEF PushAdvance
<1>3. Count \in Nat /\ Contents \in Seq(Record) /\ Len(Contents) = Count
  BY ContentsType DEF ContentsTyped
<1>4. Contents' \in Seq(Record) /\ Len(Contents') = Count + 1
  <2>1. ContentsTyped'
    BY ContentsType, PTL
  <2> QED BY <2>1, <1>2 DEF ContentsTyped
<1>5. Count + 1 < Capacity
  <2>1. head' \in Slots /\ tail' \in Slots
    BY DEF BufferInv, TypeOK
  <2> QED BY <2>1, <1>2, CapacityAssumption DEF Slots, Count
<1>6. ASSUME NEW i \in 1 .. Count + 1
      PROVE  Contents'[i] = Append(Contents, prec[p])[i]
  <2>1. Contents'[i] = buf[SlotOf(i)]
    BY <1>2 DEF Contents, PushAdvance
  <2>2. CASE i = Count + 1
    BY <2>1, <2>2, <1>1, <1>2, <1>3
  <2>3. CASE i \in 1 .. Count
    BY <2>1, <2>3, <1>1, <1>3 DEF Contents
  <2> QED BY <2>2, <2>3, <1>3
<1>7. Append(Contents, prec[p]) \in Seq(Record) /\ Len(Append(Contents, prec[p])) = Count + 1
  BY <1>1, <1>3
<1>8. Contents' = Append(Contents, prec[p])
  BY <1>4, <1>6, <1>7, SeqEqual
<1> QED BY <1>1, <1>3, <1>5, <1>8, CapacityAssumption

\* A completed pop removes the first record of the queue.
LEMMA PopDequeues ==
    ASSUME BufferInv, BufferInv', PopAdvance
    PROVE  Contents # <<>> /\ Contents' = Tail(Contents)
<1>1. head \in Slots /\ tail \in Slots /\ tail # head
  BY DEF BufferInv, TypeOK, SlotsStable, PopAdvance
<1>2. /\ Count \in Nat \ {0} /\ Count' = Count - 1
      /\ \A i \in 1 .. Count - 1 : SlotOf(i)' = SlotOf(i + 1)
  BY <1>1, AdvanceTail DEF PopAdvance
<1>3. Contents \in Seq(Record) /\ Len(Contents) = Count
  BY ContentsType DEF ContentsTyped
<1>4. Contents' \in Seq(Record) /\ Len(Contents') = Count - 1
  <2>1. ContentsTyped'
    BY ContentsType, PTL
  <2> QED BY <2>1, <1>2 DEF ContentsTyped
<1>5. Contents # <<>>
  BY <1>2, <1>3
<1>6. /\ Tail(Contents) \in Seq(Record) /\ Len(Tail(Contents)) = Count - 1
      /\ \A i \in 1 .. Count - 1 : Tail(Contents)[i] = Contents[i + 1]
  BY <1>2, <1>3, <1>5
<1>7. ASSUME NEW i \in 1 .. Count - 1
      PROVE  Contents'[i] = Contents[i + 1]
  BY <1>2 DEF Contents, PopAdvance
<1>8. Contents' = Tail(Contents)
  BY <1>4, <1>6, <1>7, SeqEqual
<1> QED BY <1>5, <1>8

\* A step that touches neither slots nor bounds leaves the queue alone.
LEMMA QueueUntouched ==
    ASSUME UNCHANGED <<buf, head, tail>>
    PROVE  Contents' = Contents
BY DEF Contents, Count, SlotOf

\* Filling the slot at head does not change the queue yet.
LEMMA StoreStutters ==
    ASSUME BufferInv, NEW p \in Producers, PushStore(p)
    PROVE  Contents' = Contents
<1>1. head \in Slots /\ tail \in Slots /\ buf \in [Slots -> Record \cup {Empty}]
  BY DEF BufferInv, TypeOK
<1>2. Count' = Count /\ \A i \in 1 .. Count : SlotOf(i)' = SlotOf(i)
  BY DEF PushStore, Count, SlotOf
<1>3. \A i \in 1 .. Count : buf'[SlotOf(i)] = buf[SlotOf(i)]
  BY <1>1, SlotOfBounds DEF PushStore
<1> QED BY <1>2, <1>3 DEF Contents

\* The ring buffer implements the bounded queue that drains before it closes: a put
\* is an enqueue, a pop a dequeue, and the writer's exit the close of an empty queue.
THEOREM RingbufRefinesQueue == SafeSpec /\ AppQuiesces => RefinesQueue
<1>1. Init => Queue!QueueInit
  BY DEF Init, Queue!QueueInit, Contents, Count
<1>2. /\ BufferInv /\ BufferInv' /\ DrainInv /\ DrainInv' /\ [Next]_vars
      => [Queue!QueueNext]_(Queue!qvars)
  <2> SUFFICES ASSUME BufferInv, BufferInv', DrainInv, DrainInv', [Next]_vars
               PROVE  [Queue!QueueNext]_(Queue!qvars)
    OBVIOUS
  <2>1. ASSUME NEW p \in Producers, PushAdvance(p)
        PROVE  Queue!Enqueue(prec[p]) /\ prec[p] \in Record
    <3>1. ~isShuttingDown /\ isShuttingDown' = isShuttingDown
      BY <2>1 DEF DrainInv, PushAdvance
    <3>2. wpc # "exited" /\ wpc' # "exited"
      BY <2>1, <3>1 DEF DrainInv, PushAdvance, WakeWriter
    <3> QED BY <2>1, <3>1, <3>2, PushEnqueues DEF Queue!Enqueue
  <2>2. CASE PopAdvance
    <3>1. Queue!Dequeue
      BY <2>2, PopDequeues DEF PopAdvance, Queue!Dequeue
    <3> QED BY <3>1 DEF Queue!QueueNext
  <2>3. CASE ShutdownBegin
    <3>1. ~isShuttingDown /\ isShuttingDown' /\ wpc # "exited" /\ wpc' = wpc
      BY <2>3 DEF ShutdownBegin, DrainInv, writerVars
    <3>2. Contents' = Contents
      BY <2>3, QueueUntouched DEF ShutdownBegin, bufferVars
    <3>3. Queue!BeginDrain
      BY <3>1, <3>2 DEF Queue!BeginDrain
    <3> QED BY <3>3 DEF Queue!QueueNext
  <2>4. CASE PopExit
    <3>1. isShuttingDown /\ isShuttingDown' = isShuttingDown /\ wpc = "pop" /\ wpc' = "exited"
      BY <2>4 DEF PopExit, DrainInv
    <3>2. Contents = <<>> /\ Contents' = Contents
      <4>1. Count = 0
        BY <2>4, CountBounds DEF PopExit, BufferInv, TypeOK
      <4>2. Contents = <<>>
        BY <4>1 DEF Contents
      <4> QED BY <4>2, <2>4, QueueUntouched DEF PopExit
    <3>3. Queue!Close
      BY <3>1, <3>2 DEF Queue!Close
    <3> QED BY <3>3 DEF Queue!QueueNext
  <2>5. ASSUME NEW p \in Producers, PushStore(p)
        PROVE  UNCHANGED <<Contents, isShuttingDown, wpc>>
    BY <2>5, StoreStutters DEF PushStore, writerVars
  <2>6. ASSUME NEW p \in Producers,
               \/ PutRejected(p) \/ \E r \in Record : PutBegin(p, r)
               \/ PushLock(p) \/ PushFull(p) \/ PushNoMemory(p)
        PROVE  UNCHANGED <<Contents, isShuttingDown, wpc>>
    <3>1. UNCHANGED <<buf, head, tail, isShuttingDown, wpc>>
      BY <2>6 DEF PutRejected, PutBegin, PushLock, PushFull, PushNoMemory, bufferVars,
                  writerVars
    <3> QED BY <3>1, QueueUntouched
  <2>7. CASE PopLock \/ PopWait \/ SpuriousWakeup \/ PopCopy \/ WriteStep
             \/ StartShutdown \/ JoinAndDestroy \/ UNCHANGED vars
    <3>1. UNCHANGED <<buf, head, tail, isShuttingDown>> /\ (wpc = "exited" <=> wpc' = "exited")
      BY <2>7 DEF PopLock, PopWait, SpuriousWakeup, PopCopy, WriteStep, WriteDone, WriteHangs, StartShutdown,
                  JoinAndDestroy, WakeWriter, vars, bufferVars, writerVars
    <3> QED BY <3>1, QueueUntouched DEF Queue!qvars
  <2> QED
    <3>1. ASSUME NEW p \in Producers, ProducerStep(p)
          PROVE  [Queue!QueueNext]_(Queue!qvars)
      BY <3>1, <2>1, <2>5, <2>6 DEF ProducerStep, PushBody, Queue!QueueNext, Queue!qvars
    <3> QED BY <3>1, <2>2, <2>3, <2>4, <2>7 DEF Next, PopBody, Closer
<1>3. AppQuiesces => (SafeSpec => RefinesQueue)
  <2> SUFFICES ASSUME AppQuiesces PROVE SafeSpec => RefinesQueue
    OBVIOUS
  <2>1. SafeSpec => []DrainInv
    BY DrainInvariant
  <2> QED BY <1>1, <1>2, <2>1, BufferInvariant, PTL
      DEF SafeSpec, RefinesQueue, Queue!QueueSafety
<1> QED BY <1>3
==============================================================================
