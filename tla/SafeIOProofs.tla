--------------------------- MODULE SafeIOProofs ---------------------------
(***************************************************************************)
(* Proofs for the loops of utils.c: for every number and size of buffers   *)
(* and however the system calls are cut.                                   *)
(***************************************************************************)
EXTENDS SafeIO, TLAPS

\* The number of the first byte that local_iov[i] still has to move.
At(i) == IF i <= count THEN base[i] ELSE Total

\* Buffers behind the current one are untouched; the current one is never used up,
\* unless it was empty from the start.
BuffersInv ==
    /\ kind = "pread" => count = 1 /\ idx = 1
    /\ \A i \in 1 .. count : i > idx => base[i] = bound[i - 1]
    /\ idx <= count /\ kind # "pread" => base[idx] = bound[idx - 1] \/ len[idx] > 0

\* total counts the bytes in front of the current buffer's first, once n is
\* accounted for; the kernel is n bytes further.
CursorInv ==
    /\ total <= Total
    /\ pc = "loop" => At(idx) = total
    /\ pc = "inner" => At(idx) + n = total
    /\ pc = "kernel" => /\ More /\ idx <= count /\ At(idx) = total
                        /\ ki >= idx /\ At(ki) + kj = total + n /\ total + n <= Total
                        /\ ki <= count => kj <= len[ki]
    /\ pc = "ok" => total = Total

FileInv ==
    /\ ~Positional => fpos = Sent
    /\ Reads => Sent <= avail
    /\ PrefixMoved

SafeIOInv == SafeIOTypeOK /\ BuffersInv /\ CursorInv /\ FileInv /\ EofMeansShort

-----------------------------------------------------------------------------
\* What the layout of the caller's buffers says.
LEMMA LayoutFacts ==
    ASSUME SafeIOTypeOK
    PROVE  /\ count \in Nat /\ count >= 1
           /\ bound[0] = 0 /\ Total \in Nat
           /\ \A i \in 0 .. count : bound[i] \in Nat /\ bound[i] <= Total
           /\ \A i \in 0 .. count : \A j \in 0 .. count : i <= j => bound[i] <= bound[j]
<1>1. count \in Nat /\ count >= 1  BY SafeIOAssumption DEF SafeIOTypeOK
<1>2. /\ bound \in [0 .. count -> 0 .. MaxBytes] /\ bound[0] = 0
      /\ \A i \in 0 .. count : \A j \in i .. count : bound[i] <= bound[j]
    BY DEF SafeIOTypeOK, Layouts
<1>3. \A i \in 0 .. count : bound[i] \in Nat  BY <1>2, SafeIOAssumption
<1>4. \A i \in 0 .. count : \A j \in 0 .. count : i <= j => bound[i] <= bound[j]
    BY <1>1, <1>2
<1>5. QED  BY <1>1, <1>2, <1>3, <1>4 DEF Total

\* The invariant holds when a function begins.
LEMMA SafeIOInitInv == ASSUME SafeIOInit PROVE SafeIOInv
<1>1. count \in Nat /\ count >= 1  BY SafeIOAssumption DEF SafeIOInit
<1>2. /\ bound \in [0 .. count -> 0 .. MaxBytes] /\ bound[0] = 0
      /\ \A i \in 0 .. count : \A j \in i .. count : bound[i] <= bound[j]
    BY DEF SafeIOInit, Layouts
<1>3. \A i \in 0 .. count : bound[i] \in Nat  BY <1>2, SafeIOAssumption
<1>4. \A i \in 1 .. count : bound[i - 1] \in Nat /\ bound[i] \in Nat /\ bound[i - 1] <= bound[i]
    <2> TAKE i \in 1 .. count
    <2>1. i - 1 \in 0 .. count /\ i \in (i - 1) .. count  BY <1>1
    <2>2. QED  BY <2>1, <1>2, <1>3
<1>5. Total \in Nat  BY <1>1, <1>3 DEF Total
<1>6. SafeIOTypeOK
    <2>1. base \in [1 .. count -> Nat] /\ len \in [1 .. count -> Nat]
          /\ \A i \in 1 .. count : base[i] >= bound[i - 1] /\ base[i] + len[i] = bound[i]
        BY <1>4 DEF SafeIOInit
    <2>2. moved \in [0 .. Total - 1 -> {-1} \cup 0 .. Total - 1]  BY DEF SafeIOInit
    <2>3. avail \in Nat  BY SafeIOAssumption DEF SafeIOInit
    <2>4. QED  BY <1>1, <2>1, <2>2, <2>3 DEF SafeIOInit, SafeIOTypeOK
<1>7. BuffersInv  BY <1>1, <1>4 DEF SafeIOInit, BuffersInv
<1>8. base[1] = 0  BY <1>1, <1>2 DEF SafeIOInit
<1>9. CursorInv  BY <1>1, <1>5, <1>8 DEF SafeIOInit, CursorInv, At
<1>10. FileInv
    <2>1. Sent = 0  BY DEF SafeIOInit, Sent
    <2>2. avail \in Nat  BY <1>6 DEF SafeIOTypeOK
    <2>3. PrefixMoved  BY <1>5, <2>1 DEF SafeIOInit, PrefixMoved
    <2>4. QED  BY <2>1, <2>2, <2>3 DEF SafeIOInit, FileInv
<1>11. EofMeansShort  BY DEF SafeIOInit, EofMeansShort
<1>12. QED  BY <1>6, <1>7, <1>9, <1>10, <1>11 DEF SafeIOInv

\* The outer loop makes its system call from the current buffer on.
LEMMA CallInv == ASSUME SafeIOInv, Call PROVE SafeIOInv'
<1>0. USE DEF fcall
<1>1. /\ SafeIOTypeOK /\ BuffersInv /\ CursorInv /\ FileInv /\ EofMeansShort  BY DEF SafeIOInv
<1>2. /\ count \in Nat /\ count >= 1 /\ Total \in Nat
      /\ \A i \in 0 .. count : bound[i] \in Nat /\ bound[i] <= Total
    BY <1>1, LayoutFacts
<1>3. Total' = Total /\ Positional' = Positional /\ Reads' = Reads /\ LastEmpty' = LastEmpty
    BY DEF Call, Total, Positional, Reads, LastEmpty
<1>4. SafeIOTypeOK'  BY <1>1, <1>2, <1>3 DEF Call, SafeIOTypeOK
<1>5. BuffersInv'  BY <1>1, <1>2 DEF Call, BuffersInv, SafeIOTypeOK
<1>6. CursorInv'  BY <1>1, <1>2, <1>3 DEF Call, CursorInv, SafeIOTypeOK, BuffersInv, At, More
<1>7. FileInv'  BY <1>1, <1>2, <1>3 DEF Call, FileInv, CursorInv, SafeIOTypeOK, Sent, PrefixMoved
<1>8. EofMeansShort'  BY <1>1, <1>2, <1>3 DEF Call, EofMeansShort
<1>9. QED  BY <1>4, <1>5, <1>6, <1>7, <1>8 DEF SafeIOInv

\* When the outer loop ends, everything has been moved.
LEMMA FinishInv == ASSUME SafeIOInv, Finish PROVE SafeIOInv'
<1>0. USE DEF fcall
<1>1. /\ SafeIOTypeOK /\ BuffersInv /\ CursorInv /\ FileInv /\ EofMeansShort  BY DEF SafeIOInv
<1>2. /\ count \in Nat /\ count >= 1 /\ Total \in Nat
      /\ \A i \in 0 .. count : bound[i] \in Nat /\ bound[i] <= Total
    BY <1>1, LayoutFacts
<1>3. Total' = Total /\ Positional' = Positional /\ Reads' = Reads /\ LastEmpty' = LastEmpty
    BY DEF Finish, Total, Positional, Reads, LastEmpty
<1>4. SafeIOTypeOK'  BY <1>1, <1>2, <1>3 DEF Finish, SafeIOTypeOK
<1>5. BuffersInv'  BY <1>1, <1>2 DEF Finish, BuffersInv, SafeIOTypeOK
<1>6. CursorInv'
    <2>1. total = Total
        <3>1. CASE kind = "pread"
            <4>1. count = 1 /\ idx = 1 /\ base[1] = total /\ ~(len[1] > 0)
                BY <1>1, <3>1 DEF Finish, More, BuffersInv, CursorInv, At
            <4>2. base[1] \in Nat /\ len[1] \in Nat /\ base[1] + len[1] = bound[1]
                BY <1>1, <4>1 DEF SafeIOTypeOK
            <4>3. QED  BY <4>1, <4>2 DEF Total
        <3>2. CASE kind # "pread"
            BY <1>1, <1>2, <3>2 DEF Finish, More, CursorInv, At, SafeIOTypeOK
        <3>3. QED  BY <3>1, <3>2
    <2>2. QED  BY <1>2, <1>3, <2>1 DEF Finish, CursorInv
<1>7. FileInv'  BY <1>1, <1>2, <1>3 DEF Finish, FileInv, CursorInv, SafeIOTypeOK, Sent, PrefixMoved
<1>8. EofMeansShort'  BY <1>1, <1>2, <1>3 DEF Finish, EofMeansShort
<1>9. QED  BY <1>4, <1>5, <1>6, <1>7, <1>8 DEF SafeIOInv

\* The kernel moves the next byte of the record, to its own position.
LEMMA ByteInv == ASSUME SafeIOInv, Byte PROVE SafeIOInv'
<1>0. USE DEF fcall
<1>1. /\ SafeIOTypeOK /\ BuffersInv /\ CursorInv /\ FileInv /\ EofMeansShort  BY DEF SafeIOInv
<1>2. /\ count \in Nat /\ count >= 1 /\ Total \in Nat
      /\ \A i \in 0 .. count : bound[i] \in Nat /\ bound[i] <= Total
    BY <1>1, LayoutFacts
<1>3. Total' = Total /\ Positional' = Positional /\ Reads' = Reads /\ LastEmpty' = LastEmpty
    BY DEF Byte, Total, Positional, Reads, LastEmpty
<1>a. /\ ki \in 1 .. count /\ kj \in Nat /\ total \in Nat /\ n \in Nat
      /\ base[ki] \in Nat /\ len[ki] \in Nat /\ base[ki] + len[ki] = bound[ki]
      /\ kj < len[ki] /\ bound[ki] \in Nat /\ bound[ki] <= Total
    BY <1>1, <1>2 DEF Byte, SafeIOTypeOK
<1>b. base[ki] + kj = total + n /\ total + n < Total
    BY <1>1, <1>2, <1>a DEF Byte, CursorInv, At
<1>c. FilePos = total + n
    BY <1>1 DEF Byte, FilePos, FileInv, Sent
<1>d. moved' = [moved EXCEPT ![total + n] = total + n]
    BY <1>b, <1>c DEF Byte
<1>4. SafeIOTypeOK'
    <2>1. total + n \in 0 .. Total - 1  BY <1>2, <1>a, <1>b
    <2>2. moved' \in [0 .. Total - 1 -> {-1} \cup 0 .. Total - 1]
        BY <1>1, <1>d, <2>1 DEF SafeIOTypeOK
    <2>3. n' \in Nat /\ kj' \in Nat /\ fpos' \in Nat  BY <1>1, <1>a DEF Byte, SafeIOTypeOK
    <2>4. QED  BY <1>1, <1>3, <2>2, <2>3 DEF Byte, SafeIOTypeOK
<1>5. BuffersInv'  BY <1>1, <1>2 DEF Byte, BuffersInv, SafeIOTypeOK
<1>6. CursorInv'  BY <1>1, <1>2, <1>3, <1>a, <1>b DEF Byte, CursorInv, At, More
<1>7. FileInv'
    <2>1. Sent = total + n /\ Sent' = total + n + 1  BY <1>a DEF Byte, Sent
    <2>2. PrefixMoved'
        <3> SUFFICES ASSUME NEW p \in 0 .. Total - 1
                     PROVE  moved'[p] = IF p < Sent' THEN p ELSE -1
            BY <1>3 DEF PrefixMoved
        <3>1. moved[p] = IF p < total + n THEN p ELSE -1  BY <1>1, <2>1 DEF FileInv, PrefixMoved
        <3>2. moved'[p] = IF p = total + n THEN total + n ELSE moved[p]
            BY <1>1, <1>d DEF SafeIOTypeOK
        <3>3. QED  BY <1>2, <1>a, <2>1, <3>1, <3>2
    <2>3. ~Positional' => fpos' = Sent'
        BY <1>1, <1>3, <1>a, <2>1 DEF Byte, FileInv
    <2>4. Reads' => Sent' <= avail'
        BY <1>1, <1>3, <1>a, <1>c, <2>1 DEF Byte, AtEOF, SafeIOTypeOK
    <2>5. QED  BY <2>2, <2>3, <2>4 DEF FileInv
<1>8. EofMeansShort'  BY <1>1, <1>2, <1>3 DEF Byte, EofMeansShort
<1>9. QED  BY <1>4, <1>5, <1>6, <1>7, <1>8 DEF SafeIOInv

\* The kernel goes on to the next buffer, which is untouched.
LEMMA NextBufferInv == ASSUME SafeIOInv, NextBuffer PROVE SafeIOInv'
<1>0. USE DEF fcall
<1>1. /\ SafeIOTypeOK /\ BuffersInv /\ CursorInv /\ FileInv /\ EofMeansShort  BY DEF SafeIOInv
<1>2. /\ count \in Nat /\ count >= 1 /\ Total \in Nat
      /\ \A i \in 0 .. count : bound[i] \in Nat /\ bound[i] <= Total
    BY <1>1, LayoutFacts
<1>3. Total' = Total /\ Positional' = Positional /\ Reads' = Reads /\ LastEmpty' = LastEmpty
    BY DEF NextBuffer, Total, Positional, Reads, LastEmpty
<1>a. /\ ki \in 1 .. count /\ idx \in 1 .. count /\ ki >= idx
      /\ base[ki] \in Nat /\ len[ki] \in Nat /\ base[ki] + len[ki] = bound[ki] /\ kj = len[ki]
    BY <1>1, <1>2 DEF NextBuffer, SafeIOTypeOK, CursorInv
<1>b. At(ki + 1) = bound[ki]
    <2>1. CASE ki = count  BY <1>2, <2>1 DEF At, Total
    <2>2. CASE ki < count
        <3>1. ki + 1 \in 1 .. count /\ ki + 1 > idx  BY <1>2, <1>a, <2>2
        <3>2. base[ki + 1] = bound[(ki + 1) - 1]  BY <1>1, <3>1 DEF BuffersInv
        <3>3. QED  BY <1>a, <3>1, <3>2 DEF At
    <2>3. QED  BY <1>2, <1>a, <2>1, <2>2
<1>c. At(ki)' = At(ki + 1) /\ At(idx)' = At(idx)  BY <1>3 DEF NextBuffer, At
<1>d. ki' = ki + 1 /\ ki' \in 1 .. count + 1 /\ kj' = 0  BY <1>2, <1>a DEF NextBuffer
<1>4. SafeIOTypeOK'
    <2>1. /\ UNCHANGED <<kind, count, bound, avail, pc, idx, base, len, total, n, fpos, moved>>
        BY DEF NextBuffer
    <2>2. ki' \in 1 .. count' + 1 /\ kj' \in Nat  BY <1>d, <2>1
    <2>3. QED  BY <1>1, <1>3, <2>1, <2>2 DEF SafeIOTypeOK
<1>5. BuffersInv'  BY <1>1, <1>2 DEF NextBuffer, BuffersInv, SafeIOTypeOK
<1>6. CursorInv'
    <2>1. base[ki] + kj = total + n  BY <1>1, <1>a DEF NextBuffer, CursorInv, At
    <2>2. At(ki)' + kj' = total' + n'
        BY <1>a, <1>b, <1>c, <1>d, <2>1 DEF NextBuffer
    <2>3. ki' <= count' => kj' <= len'[ki']
        BY <1>1, <1>2, <1>d DEF NextBuffer, SafeIOTypeOK
    <2>4. QED  BY <1>1, <1>2, <1>3, <1>a, <1>c, <1>d, <2>2, <2>3 DEF NextBuffer, CursorInv, More
<1>7. FileInv'  BY <1>1, <1>2, <1>3 DEF NextBuffer, FileInv, CursorInv, SafeIOTypeOK, Sent, PrefixMoved
<1>8. EofMeansShort'  BY <1>1, <1>2, <1>3 DEF NextBuffer, EofMeansShort
<1>9. QED  BY <1>4, <1>5, <1>6, <1>7, <1>8 DEF SafeIOInv

\* A system call is interrupted before it has moved anything.
LEMMA InterruptedInv == ASSUME SafeIOInv, Interrupted PROVE SafeIOInv'
<1>0. USE DEF fcall
<1>1. /\ SafeIOTypeOK /\ BuffersInv /\ CursorInv /\ FileInv /\ EofMeansShort  BY DEF SafeIOInv
<1>2. /\ count \in Nat /\ count >= 1 /\ Total \in Nat
      /\ \A i \in 0 .. count : bound[i] \in Nat /\ bound[i] <= Total
    BY <1>1, LayoutFacts
<1>3. Total' = Total /\ Positional' = Positional /\ Reads' = Reads /\ LastEmpty' = LastEmpty
    BY DEF Interrupted, Total, Positional, Reads, LastEmpty
<1>4. SafeIOTypeOK'  BY <1>1, <1>2, <1>3 DEF Interrupted, SafeIOTypeOK
<1>5. BuffersInv'  BY <1>1, <1>2 DEF Interrupted, BuffersInv, SafeIOTypeOK
<1>6. CursorInv'  BY <1>1, <1>2, <1>3 DEF Interrupted, CursorInv, SafeIOTypeOK, BuffersInv, At, More
<1>7. FileInv'  BY <1>1, <1>2, <1>3 DEF Interrupted, FileInv, CursorInv, SafeIOTypeOK, Sent, PrefixMoved
<1>8. EofMeansShort'  BY <1>1, <1>2, <1>3 DEF Interrupted, EofMeansShort
<1>9. QED  BY <1>4, <1>5, <1>6, <1>7, <1>8 DEF SafeIOInv

\* A system call fails before it has moved anything.
LEMMA ErrorInv == ASSUME SafeIOInv, Error PROVE SafeIOInv'
<1>0. USE DEF fcall
<1>1. /\ SafeIOTypeOK /\ BuffersInv /\ CursorInv /\ FileInv /\ EofMeansShort  BY DEF SafeIOInv
<1>2. /\ count \in Nat /\ count >= 1 /\ Total \in Nat
      /\ \A i \in 0 .. count : bound[i] \in Nat /\ bound[i] <= Total
    BY <1>1, LayoutFacts
<1>3. Total' = Total /\ Positional' = Positional /\ Reads' = Reads /\ LastEmpty' = LastEmpty
    BY DEF Error, Total, Positional, Reads, LastEmpty
<1>4. SafeIOTypeOK'  BY <1>1, <1>2, <1>3 DEF Error, SafeIOTypeOK
<1>5. BuffersInv'  BY <1>1, <1>2 DEF Error, BuffersInv, SafeIOTypeOK
<1>6. CursorInv'  BY <1>1, <1>2, <1>3 DEF Error, CursorInv, SafeIOTypeOK, BuffersInv, At, More
<1>7. FileInv'  BY <1>1, <1>2, <1>3 DEF Error, FileInv, CursorInv, SafeIOTypeOK, Sent, PrefixMoved
<1>8. EofMeansShort'  BY <1>1, <1>2, <1>3 DEF Error, EofMeansShort
<1>9. QED  BY <1>4, <1>5, <1>6, <1>7, <1>8 DEF SafeIOInv

\* A system call moves nothing: at the end of the file, or with only empty buffers
\* left, which are then the last ones.
LEMMA ZeroInv == ASSUME SafeIOInv, Zero PROVE SafeIOInv'
<1>0. USE DEF fcall
<1>1. /\ SafeIOTypeOK /\ BuffersInv /\ CursorInv /\ FileInv /\ EofMeansShort  BY DEF SafeIOInv
<1>2. /\ count \in Nat /\ count >= 1 /\ Total \in Nat
      /\ \A i \in 0 .. count : bound[i] \in Nat /\ bound[i] <= Total
    BY <1>1, LayoutFacts
<1>3. Total' = Total /\ Positional' = Positional /\ Reads' = Reads /\ LastEmpty' = LastEmpty
    BY DEF Zero, Total, Positional, Reads, LastEmpty
<1>4. SafeIOTypeOK'  BY <1>1, <1>2, <1>3 DEF Zero, SafeIOTypeOK
<1>5. BuffersInv'  BY <1>1, <1>2 DEF Zero, BuffersInv, SafeIOTypeOK
<1>6. CursorInv'  BY <1>1, <1>2, <1>3 DEF Zero, CursorInv, SafeIOTypeOK, BuffersInv, At, More
<1>7. FileInv'  BY <1>1, <1>2, <1>3 DEF Zero, FileInv, CursorInv, SafeIOTypeOK, Sent, PrefixMoved
<1>8. EofMeansShort'
    <2> SUFFICES ASSUME Reads, avail >= Total PROVE LastEmpty
        BY <1>1, <1>2, <1>3 DEF Zero, EofMeansShort, SafeIOTypeOK
    <2>1. /\ pc = "kernel" /\ n = 0 /\ idx \in 1 .. count /\ total = base[idx] /\ total \in Nat
        BY <1>1, <1>2 DEF Zero, SafeIOTypeOK, CursorInv, At
    <2>2. total = Total
        <3>1. CASE ki > count
            BY <1>1, <1>2, <2>1, <3>1 DEF CursorInv, At, SafeIOTypeOK
        <3>2. CASE AtEOF
            <4>1. FilePos = total  BY <1>1, <2>1 DEF FilePos, FileInv, Sent
            <4>2. QED  BY <1>1, <1>2, <2>1, <3>2, <4>1, SMTT(60) DEF AtEOF, CursorInv, SafeIOTypeOK
        <3>3. QED  BY <3>1, <3>2 DEF Zero
    <2>3. len[idx] = 0
        <3>1. base[idx] \in Nat /\ len[idx] \in Nat /\ base[idx] + len[idx] = bound[idx]
            BY <1>1, <2>1 DEF SafeIOTypeOK
        <3>2. bound[idx] \in Nat /\ bound[idx] <= Total  BY <1>2, <2>1
        <3>3. QED  BY <2>1, <2>2, <3>1, <3>2
    <2>4. kind # "pread"  BY <1>1, <2>1, <2>3 DEF CursorInv, More, BuffersInv
    <2>5. base[idx] = bound[idx - 1]  BY <1>1, <2>1, <2>3, <2>4 DEF BuffersInv
    <2>6. bound[idx - 1] = Total /\ idx - 1 \in 0 .. count /\ count - 1 \in 0 .. count
          /\ idx - 1 <= count - 1
        <3>1. idx \in Nat /\ idx >= 1 /\ idx <= count  BY <1>2, <2>1
        <3>2. count \in Nat  BY <1>2
        <3>3. bound[idx - 1] = Total  BY <2>1, <2>2, <2>5
        <3>4. QED  BY <3>1, <3>2, <3>3
    <2>7. bound[idx - 1] <= bound[count - 1]  BY <1>1, <2>6, LayoutFacts
    <2>8. bound[count - 1] = Total  BY <1>2, <2>6, <2>7
    <2>9. QED  BY <2>4, <2>8 DEF LastEmpty, Total
<1>9. QED  BY <1>4, <1>5, <1>6, <1>7, <1>8 DEF SafeIOInv

\* A system call returns a count.
LEMMA SomeInv == ASSUME SafeIOInv, Some PROVE SafeIOInv'
<1>0. USE DEF fcall
<1>1. /\ SafeIOTypeOK /\ BuffersInv /\ CursorInv /\ FileInv /\ EofMeansShort  BY DEF SafeIOInv
<1>2. /\ count \in Nat /\ count >= 1 /\ Total \in Nat
      /\ \A i \in 0 .. count : bound[i] \in Nat /\ bound[i] <= Total
    BY <1>1, LayoutFacts
<1>3. Total' = Total /\ Positional' = Positional /\ Reads' = Reads /\ LastEmpty' = LastEmpty
    BY DEF Some, Total, Positional, Reads, LastEmpty
<1>4. SafeIOTypeOK'  BY <1>1, <1>2, <1>3 DEF Some, SafeIOTypeOK
<1>5. BuffersInv'  BY <1>1, <1>2 DEF Some, BuffersInv, SafeIOTypeOK
<1>6. CursorInv'  BY <1>1, <1>2, <1>3 DEF Some, CursorInv, SafeIOTypeOK, BuffersInv, At, More
<1>7. FileInv'  BY <1>1, <1>2, <1>3 DEF Some, FileInv, CursorInv, SafeIOTypeOK, Sent, PrefixMoved
<1>8. EofMeansShort'  BY <1>1, <1>2, <1>3 DEF Some, EofMeansShort
<1>9. QED  BY <1>4, <1>5, <1>6, <1>7, <1>8 DEF SafeIOInv

\* The inner loop moves within the current buffer, and does not use it up.
LEMMA AdvanceWithinInv == ASSUME SafeIOInv, AdvanceWithin PROVE SafeIOInv'
<1>0. USE DEF fcall
<1>1. /\ SafeIOTypeOK /\ BuffersInv /\ CursorInv /\ FileInv /\ EofMeansShort  BY DEF SafeIOInv
<1>2. /\ count \in Nat /\ count >= 1 /\ Total \in Nat
      /\ \A i \in 0 .. count : bound[i] \in Nat /\ bound[i] <= Total
    BY <1>1, LayoutFacts
<1>3. Total' = Total /\ Positional' = Positional /\ Reads' = Reads /\ LastEmpty' = LastEmpty
    BY DEF AdvanceWithin, Total, Positional, Reads, LastEmpty
<1>a. /\ idx \in 1 .. count /\ n \in Nat /\ n > 0 /\ total \in Nat
      /\ base[idx] \in Nat /\ len[idx] \in Nat /\ base[idx] + len[idx] = bound[idx]
      /\ base[idx] >= bound[idx - 1]
    <2>1. idx \in 1 .. count  BY <1>1, <1>2 DEF AdvanceWithin, SafeIOTypeOK, BuffersInv
    <2>2. QED  BY <1>1, <2>1 DEF AdvanceWithin, SafeIOTypeOK
<1>b. base[idx] + n = total  BY <1>1, <1>a DEF AdvanceWithin, CursorInv, At
<1>c. n <= len[idx]
    <2>1. CASE kind = "pread"
        BY <1>1, <1>2, <1>a, <1>b, <2>1 DEF BuffersInv, CursorInv, Total
    <2>2. CASE kind # "pread"  BY <1>a, <2>2 DEF AdvanceWithin, PartOf
    <2>3. QED  BY <2>1, <2>2
<1>d. bound[idx - 1] \in Nat  BY <1>2, <1>a
<1>e. /\ base' = [base EXCEPT ![idx] = base[idx] + n] /\ len' = [len EXCEPT ![idx] = len[idx] - n]
    BY DEF AdvanceWithin, LenAfter
<1>f. \A i \in 1 .. count :
        /\ base'[i] = IF i = idx THEN base[idx] + n ELSE base[i]
        /\ len'[i] = IF i = idx THEN len[idx] - n ELSE len[i]
    BY <1>1, <1>e DEF SafeIOTypeOK
<1>4. SafeIOTypeOK'
    <2>1. base' \in [1 .. count -> Nat] /\ len' \in [1 .. count -> Nat]
        <3>1. base[idx] + n \in Nat /\ len[idx] - n \in Nat  BY <1>a, <1>c
        <3>2. QED  BY <1>1, <1>e, <3>1 DEF SafeIOTypeOK
    <2>2. \A i \in 1 .. count : base'[i] >= bound[i - 1] /\ base'[i] + len'[i] = bound[i]
        <3> TAKE i \in 1 .. count
        <3>1. CASE i = idx  BY <1>a, <1>c, <1>d, <1>f, <3>1
        <3>2. CASE i # idx  BY <1>1, <1>f, <3>2 DEF SafeIOTypeOK
        <3>3. QED  BY <3>1, <3>2
    <2>3. QED  BY <1>1, <1>3, <2>1, <2>2 DEF AdvanceWithin, SafeIOTypeOK
<1>5. BuffersInv'
    <2>1. kind # "pread" => len'[idx] > 0  BY <1>a, <1>f DEF AdvanceWithin, PartOf
    <2>2. \A i \in 1 .. count : i > idx => base'[i] = bound[i - 1]
        BY <1>1, <1>2, <1>a, <1>f DEF BuffersInv
    <2>3. QED  BY <1>1, <2>1, <2>2 DEF AdvanceWithin, BuffersInv
<1>6. CursorInv'  BY <1>1, <1>2, <1>3 DEF AdvanceWithin, CursorInv, SafeIOTypeOK, BuffersInv, At, More, LenAfter, PartOf
<1>7. FileInv'  BY <1>1, <1>2, <1>3 DEF AdvanceWithin, FileInv, CursorInv, SafeIOTypeOK, Sent, PrefixMoved, LenAfter, PartOf
<1>8. EofMeansShort'  BY <1>1, <1>2, <1>3 DEF AdvanceWithin, EofMeansShort
<1>9. QED  BY <1>4, <1>5, <1>6, <1>7, <1>8 DEF SafeIOInv

\* The inner loop goes on to the next buffer.
LEMMA AdvanceBufferInv == ASSUME SafeIOInv, AdvanceBuffer PROVE SafeIOInv'
<1>0. USE DEF fcall
<1>1. /\ SafeIOTypeOK /\ BuffersInv /\ CursorInv /\ FileInv /\ EofMeansShort  BY DEF SafeIOInv
<1>2. /\ count \in Nat /\ count >= 1 /\ Total \in Nat
      /\ \A i \in 0 .. count : bound[i] \in Nat /\ bound[i] <= Total
    BY <1>1, LayoutFacts
<1>3. Total' = Total /\ Positional' = Positional /\ Reads' = Reads /\ LastEmpty' = LastEmpty
    BY DEF AdvanceBuffer, Total, Positional, Reads, LastEmpty
<1>a. /\ idx \in 1 .. count /\ n \in Nat /\ total \in Nat
      /\ base[idx] \in Nat /\ len[idx] \in Nat /\ base[idx] + len[idx] = bound[idx]
      /\ n >= len[idx]
    BY <1>1, <1>2 DEF AdvanceBuffer, SafeIOTypeOK, PartOf
<1>b. base[idx] + n = total  BY <1>1, <1>a DEF AdvanceBuffer, CursorInv, At
<1>c. idx' = idx + 1 /\ idx' \in 1 .. count + 1 /\ n' = n - len[idx] /\ n' \in Nat
    BY <1>2, <1>a DEF AdvanceBuffer
<1>d. idx + 1 <= count => base[idx + 1] = bound[idx]
    <2> SUFFICES ASSUME idx + 1 <= count PROVE base[idx + 1] = bound[idx]  OBVIOUS
    <2>1. idx + 1 \in 1 .. count /\ idx + 1 > idx  BY <1>2, <1>a
    <2>2. base[idx + 1] = bound[(idx + 1) - 1]  BY <1>1, <2>1 DEF BuffersInv
    <2>3. QED  BY <1>a, <2>2
<1>e. At(idx)' = bound[idx]
    <2>1. CASE idx + 1 <= count  BY <1>d, <1>c, <2>1 DEF AdvanceBuffer, At
    <2>2. CASE ~(idx + 1 <= count)
        <3>1. idx = count  BY <1>2, <1>a, <2>2
        <3>2. QED  BY <1>3, <1>c, <2>2, <3>1 DEF AdvanceBuffer, At, Total
    <2>3. QED  BY <2>1, <2>2
<1>4. SafeIOTypeOK'  BY <1>1, <1>3, <1>c DEF AdvanceBuffer, SafeIOTypeOK
<1>5. BuffersInv'
    <2>1. \A i \in 1 .. count : i > idx + 1 => base[i] = bound[i - 1]
        BY <1>1, <1>2, <1>a DEF BuffersInv
    <2>2. idx + 1 <= count => base[idx + 1] = bound[(idx + 1) - 1]  BY <1>a, <1>d
    <2>3. QED  BY <1>1, <1>c, <2>1, <2>2 DEF AdvanceBuffer, BuffersInv
<1>6. CursorInv'  BY <1>1, <1>3, <1>a, <1>b, <1>c, <1>e DEF AdvanceBuffer, CursorInv
<1>7. FileInv'  BY <1>1, <1>2, <1>3 DEF AdvanceBuffer, FileInv, CursorInv, SafeIOTypeOK, Sent, PrefixMoved, PartOf
<1>8. EofMeansShort'  BY <1>1, <1>2, <1>3 DEF AdvanceBuffer, EofMeansShort
<1>9. QED  BY <1>4, <1>5, <1>6, <1>7, <1>8 DEF SafeIOInv

\* The inner loop ends.
LEMMA InnerDoneInv == ASSUME SafeIOInv, InnerDone PROVE SafeIOInv'
<1>0. USE DEF fcall
<1>1. /\ SafeIOTypeOK /\ BuffersInv /\ CursorInv /\ FileInv /\ EofMeansShort  BY DEF SafeIOInv
<1>2. /\ count \in Nat /\ count >= 1 /\ Total \in Nat
      /\ \A i \in 0 .. count : bound[i] \in Nat /\ bound[i] <= Total
    BY <1>1, LayoutFacts
<1>3. Total' = Total /\ Positional' = Positional /\ Reads' = Reads /\ LastEmpty' = LastEmpty
    BY DEF InnerDone, Total, Positional, Reads, LastEmpty
<1>4. SafeIOTypeOK'  BY <1>1, <1>2, <1>3 DEF InnerDone, SafeIOTypeOK
<1>5. BuffersInv'  BY <1>1, <1>2 DEF InnerDone, BuffersInv, SafeIOTypeOK
<1>6. CursorInv'  BY <1>1, <1>2, <1>3 DEF InnerDone, CursorInv, SafeIOTypeOK, BuffersInv, At, More
<1>7. FileInv'  BY <1>1, <1>2, <1>3 DEF InnerDone, FileInv, CursorInv, SafeIOTypeOK, Sent, PrefixMoved
<1>8. EofMeansShort'  BY <1>1, <1>2, <1>3 DEF InnerDone, EofMeansShort
<1>9. QED  BY <1>4, <1>5, <1>6, <1>7, <1>8 DEF SafeIOInv

\* Nothing changes.
LEMMA SafeIOStutterInv == ASSUME SafeIOInv, UNCHANGED fio PROVE SafeIOInv'
  BY DEF SafeIOInv, SafeIOTypeOK, BuffersInv, CursorInv, FileInv, EofMeansShort, PrefixMoved,
         Sent, At, Total, Positional, Reads, LastEmpty, More, fio, fcall

-----------------------------------------------------------------------------
\* SafeIOInv is an inductive invariant of the loops.
LEMMA SafeIOInductive == SafeIOSafety => []SafeIOInv
<1>1. SafeIOInit => SafeIOInv  BY SafeIOInitInv
<1>2. SafeIOInv /\ [SafeIONext]_fio => SafeIOInv'
    BY CallInv, FinishInv, ByteInv, NextBufferInv, InterruptedInv, ErrorInv, ZeroInv, SomeInv,
       AdvanceWithinInv, AdvanceBufferInv, InnerDoneInv, SafeIOStutterInv
    DEF SafeIONext, Code, Kernel
<1>3. QED  BY <1>1, <1>2, PTL DEF SafeIOSafety

\* The local vectors of every safe_* function stay within the caller's buffers.
THEOREM SafeIOTypeCorrect == SafeIOSafety => []SafeIOTypeOK
<1>1. SafeIOInv => SafeIOTypeOK  BY DEF SafeIOInv
<1>2. QED  BY <1>1, SafeIOInductive, PTL

\* For buffers of any number and size and any cuts, interruptions and errors of the
\* system calls, safe_writev and the others have moved a prefix of the bytes, each to
\* or from its own position.
THEOREM SafeIOMovesPrefix == SafeIOSafety => []PrefixMoved
<1>1. SafeIOInv => PrefixMoved  BY DEF SafeIOInv, FileInv
<1>2. QED  BY <1>1, SafeIOInductive, PTL

\* CCASK_OK is returned only when all bytes have been moved and were in the file.
THEOREM SafeIOOkMeansAll == SafeIOSafety => []OkMeansAll
<1>1. SafeIOInv => OkMeansAll
    <2> SUFFICES ASSUME SafeIOInv, pc = "ok"
                 PROVE  /\ \A p \in 0 .. Total - 1 : moved[p] = p
                        /\ Reads => Total <= avail
        BY DEF OkMeansAll
    <2>1. Sent = Total  BY DEF SafeIOInv, CursorInv, Sent
    <2>2. SafeIOTypeOK  BY DEF SafeIOInv
    <2>3. Total \in Nat  BY <2>2, LayoutFacts
    <2>4. PrefixMoved /\ (Reads => Total <= avail)  BY <2>1 DEF SafeIOInv, FileInv
    <2>5. QED  BY <2>1, <2>3, <2>4 DEF PrefixMoved
<1>2. QED  BY <1>1, SafeIOInductive, PTL

\* The unexpected end of file is reported only for a file that is too short, or when
\* the last buffer is empty.
THEOREM SafeIOEofMeansShort == SafeIOSafety => []EofMeansShort
<1>1. SafeIOInv => EofMeansShort  BY DEF SafeIOInv
<1>2. QED  BY <1>1, SafeIOInductive, PTL
=============================================================================
