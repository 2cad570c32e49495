------------------------------- MODULE SafeIO -------------------------------
(***************************************************************************)
(* The loops of utils.c around the vectored system calls: safe_writev,     *)
(* safe_readv, safe_pwritev, safe_preadv and safe_pread.                   *)
(*                                                                         *)
(* The bytes of the caller's buffers are numbered in their order: buffer i *)
(* holds the bytes from bound[i - 1] to bound[i] - 1.  The kernel moves    *)
(* one byte after the other between the buffers it was given and the file, *)
(* and may stop at any byte.                                               *)
(***************************************************************************)
EXTENDS Integers

CONSTANTS
    MaxIov,     \* bound: buffers of a call
    MaxBytes    \* bound: bytes of a call

ASSUME SafeIOAssumption == MaxIov \in Nat \ {0} /\ MaxBytes \in Nat

VARIABLES
    \* the call
    kind,       \* which function it is
    count,      \* iovcnt; safe_pread has one buffer
    bound,      \* the caller's buffers
    avail,      \* bytes of the file from the call's offset on; only reads stop there
    \* the function
    pc,
    idx,        \* current_iov_idx, from 1
    base, len,  \* local_iov; p and to_read of safe_pread
    total,      \* total_written, total_read; pos - offset in safe_pread
    n,          \* bytes of the system call, and what of them is not yet accounted for
    \* the kernel
    ki, kj,     \* the next byte to move: the kj-th (from 0) of buffer ki
    fpos,       \* the descriptor's own position, from where the call began
    moved       \* file position -> number of the byte moved to or from it, or -1

fcall == <<kind, count, bound, avail>>
fio == <<fcall, pc, idx, base, len, total, n, ki, kj, fpos, moved>>

Kinds      == {"writev", "pwritev", "readv", "preadv", "pread"}
Positional == kind \in {"pwritev", "preadv", "pread"}
Reads      == kind \in {"readv", "preadv", "pread"}
Total      == bound[count]

\* The ways to cut at most MaxBytes bytes into c buffers, empty ones included.
Layouts(c) ==
    {b \in [0 .. c -> 0 .. MaxBytes] :
        b[0] = 0 /\ \A i \in 0 .. c : \A j \in i .. c : b[i] <= b[j]}

SafeIOInit ==
    /\ kind \in Kinds
    /\ count \in 1 .. MaxIov /\ (kind = "pread" => count = 1)
    /\ bound \in Layouts(count)
    /\ avail \in 0 .. MaxBytes
    /\ pc \in {"loop", "failed"}    \* failed: an argument is refused
    /\ idx = 1 /\ total = 0 /\ n = 0
    /\ base = [i \in 1 .. count |-> bound[i - 1]]
    /\ len = [i \in 1 .. count |-> bound[i] - bound[i - 1]]
    /\ ki = 1 /\ kj = 0 /\ fpos = 0
    /\ moved = [p \in 0 .. Total - 1 |-> -1]

-----------------------------------------------------------------------------
(* The outer loop *)

More == IF kind = "pread" THEN len[1] > 0 ELSE idx <= count

Call ==
    /\ pc = "loop" /\ More
    /\ pc' = "kernel" /\ ki' = idx /\ kj' = 0 /\ n' = 0
    /\ UNCHANGED <<fcall, idx, base, len, total, fpos, moved>>

Finish ==
    /\ pc = "loop" /\ ~More
    /\ pc' = "ok"
    /\ UNCHANGED <<fcall, idx, base, len, total, n, ki, kj, fpos, moved>>

-----------------------------------------------------------------------------
(* The system call *)

FilePosStays == IF Positional THEN n ELSE fpos
FilePos == IF Positional THEN total + n ELSE fpos

AtEOF == Reads /\ FilePos >= avail

Byte ==
    /\ pc = "kernel" /\ ki <= count /\ kj < len[ki] /\ ~AtEOF
    /\ moved' = [moved EXCEPT ![FilePos] = base[ki] + kj]
    /\ n' = n + 1 /\ kj' = kj + 1
    /\ fpos' = IF Positional THEN fpos ELSE fpos + 1
    /\ UNCHANGED <<fcall, pc, idx, base, len, total, ki>>

NextBuffer ==
    /\ pc = "kernel" /\ ki <= count /\ kj = len[ki]
    /\ ki' = ki + 1 /\ kj' = 0
    /\ UNCHANGED <<fcall, pc, idx, base, len, total, n, fpos, moved>>

\* EINTR, EAGAIN or EWOULDBLOCK, before anything is done: the call is made again.
Interrupted ==
    /\ pc = "kernel" /\ n = 0 /\ ki = idx
    /\ pc' = "loop"
    /\ UNCHANGED <<fcall, idx, base, len, total, n, ki, kj, fpos, moved>>

Error ==
    /\ pc = "kernel" /\ n = 0
    /\ pc' = "failed"
    /\ UNCHANGED <<fcall, idx, base, len, total, n, ki, kj, fpos, moved>>

\* Zero is CCASK_ERR_UNEXPECTED_EOF to a read; a write just goes on.
Zero ==
    /\ pc = "kernel" /\ n = 0 /\ (ki > count \/ AtEOF)
    /\ pc' = IF Reads THEN "eof" ELSE "loop"
    /\ UNCHANGED <<fcall, idx, base, len, total, n, ki, kj, fpos, moved>>

\* Some bytes, perhaps not all.
Some ==
    /\ pc = "kernel" /\ n > 0
    /\ pc' = "inner" /\ total' = total + n
    /\ UNCHANGED <<fcall, idx, base, len, n, ki, kj, fpos, moved>>

-----------------------------------------------------------------------------
(* The inner loop; safe_pread has only the first step *)

PartOfOrAll(bytes) == bytes <= len[idx]
PartOf(bytes) == bytes < len[idx]

LenKept == len
LenAfter == [len EXCEPT ![idx] = @ - n]

AdvanceWithin ==
    /\ pc = "inner" /\ n > 0 /\ (kind = "pread" \/ (idx <= count /\ PartOf(n)))
    /\ base' = [base EXCEPT ![idx] = @ + n] /\ len' = LenAfter
    /\ n' = 0
    /\ UNCHANGED <<fcall, pc, idx, total, ki, kj, fpos, moved>>

AdvanceBuffer ==
    /\ pc = "inner" /\ n > 0 /\ kind # "pread" /\ idx <= count /\ ~PartOf(n)
    /\ n' = n - len[idx] /\ idx' = idx + 1
    /\ UNCHANGED <<fcall, pc, base, len, total, ki, kj, fpos, moved>>

InnerDone ==
    /\ pc = "inner" /\ ~(idx <= count /\ n > 0)
    /\ pc' = "loop"
    /\ UNCHANGED <<fcall, idx, base, len, total, n, ki, kj, fpos, moved>>

-----------------------------------------------------------------------------
Code == Call \/ Finish \/ AdvanceWithin \/ AdvanceBuffer \/ InnerDone
Kernel == Byte \/ NextBuffer \/ Zero \/ Some
SafeIONext == Code \/ Kernel \/ Interrupted \/ Error

SafeIOSafety == SafeIOInit /\ [][SafeIONext]_fio

\* The function runs, and a system call made again and again is not interrupted
\* every time.
SafeIOSpec == SafeIOSafety /\ WF_fio(Code) /\ SF_fio(Kernel)

-----------------------------------------------------------------------------
(* Properties *)

Ended == pc \in {"ok", "failed", "eof"}

\* Every variable has its type; local_iov stays within the caller's buffers.
SafeIOTypeOK ==
    /\ kind \in Kinds /\ count \in 1 .. MaxIov /\ bound \in Layouts(count) /\ avail \in Nat
    /\ pc \in {"loop", "kernel", "inner", "ok", "failed", "eof"}
    /\ idx \in 1 .. count + 1
    /\ base \in [1 .. count -> Nat] /\ len \in [1 .. count -> Nat]
    /\ \A i \in 1 .. count : base[i] >= bound[i - 1] /\ base[i] + len[i] = bound[i]
    /\ total \in Nat /\ n \in Nat
    /\ ki \in 1 .. count + 1 /\ kj \in Nat /\ fpos \in Nat
    /\ moved \in [0 .. Total - 1 -> {-1} \cup 0 .. Total - 1]

\* However the system calls are cut short, interrupted or made again, what has been
\* moved is a prefix of the caller's bytes, each at its own position and none twice:
\* a function that fails has written a prefix of the record and nothing else.
Sent == IF pc = "kernel" THEN total + n ELSE total
PrefixMoved == \A p \in 0 .. Total - 1 : moved[p] = IF p < Sent THEN p ELSE -1

\* CCASK_OK means that everything has been moved, and for a read that it was there.
OkMeansAll ==
    pc = "ok" => /\ \A p \in 0 .. Total - 1 : moved[p] = p
                 /\ Reads => Total <= avail

\* CCASK_ERR_UNEXPECTED_EOF means that the file is too short, except where the last
\* of the buffers is empty (as it is for an empty value).
LastEmpty == kind # "pread" /\ bound[count] = bound[count - 1]
EofMeansShort == pc = "eof" => avail < Total \/ LastEmpty

\* Every call returns, except where the last of the buffers is empty.
Returns == ~LastEmpty => <>Ended
=============================================================================
