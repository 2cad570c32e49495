------------------------------ MODULE Rotation ------------------------------
(***************************************************************************)
(* ccask_files_rotate (files.c) statement by statement, with the numbers   *)
(* of the descriptors it opens and closes, beside the threads that write   *)
(* (writer.c), a reader that reopens rotated files and its invalidators    *)
(* (reader.c), and the hint threads (hint.c).  A system call gets a number *)
(* that was read from file->fd before; the kernel gives a closed number to *)
(* the next file that is opened.                                           *)
(*                                                                         *)
(* The caller of ccask_files_rotate holds the lock of the file it found    *)
(* full, while rotation closes the head of the list.  A writer that is     *)
(* late may hold another lock than the head's: late remembers it.          *)
(*                                                                         *)
(* Records have one size, and a write is one record; the key directory is  *)
(* the place each call has indexed.  Module Store has short writes, keys   *)
(* and recovery, module Reader the whole of a get.                         *)
(***************************************************************************)
EXTENDS Integers, SequencesExt, FiniteSetsExt

CONSTANTS
    Threads,    \* threads inside ccask_write_record_blocking
    PerFile,    \* datafile_rotate_threshold, in records
    MaxFiles,   \* bound: datafiles have the IDs 0 .. MaxFiles
    MaxWrites,  \* bound: calls of ccask_write_record_blocking
    MaxReads    \* bound: calls of ccask_read_datafile_record

ASSUME RotationAssumption ==
    /\ {PerFile, MaxFiles, MaxWrites, MaxReads} \subseteq Nat
    /\ {"none", "reader"} \cap Threads = {}

VARIABLES
    disk,    \* file -> what was appended to it: calls, or HintMark
    table,   \* descriptor number -> what is open on it, or Closed
    node,    \* the ccask_file_t's, in the order they were made
    list,    \* the nodes from files_state.head on by next
    th,      \* thread -> its state inside ccask_write_record_blocking
    hints,   \* the hint threads
    rd,      \* the reader
    index,   \* calls that returned CCASK_OK -> where they were indexed
    calls, reads,
    late     \* history: a rotation began without the lock of the head

rotationVars == <<disk, table, node, list, th, hints, rd, index, calls, reads, late>>

Data(i) == [kind |-> "data", id |-> i]
Hint(i) == [kind |-> "hint", id |-> i]
HintMark == 0
NoFd     == -1
Closed   == [file |-> Data(NoFd), mode |-> "closed"]
Numbers  == 0 .. 3 * MaxFiles + 3

Idle   == [pc |-> "idle", call |-> 0, node |-> 0, pos |-> 0, num |-> NoFd, new |-> 0]
NoRead == [pc |-> "idle", call |-> 0, node |-> 0, num |-> NoFd]
Node(i, n, a) == [id |-> i, fd |-> n, isActive |-> a, lock |-> "none"]

\* ccask_files_init on an empty directory.
RotationInit ==
    /\ disk = [f \in {Data(i) : i \in 0 .. MaxFiles} \cup {Hint(i) : i \in 0 .. MaxFiles} |-> <<>>]
    /\ table = [n \in Numbers |-> IF n = 0 THEN [file |-> Data(0), mode |-> "append"] ELSE Closed]
    /\ node = <<Node(0, 0, TRUE)>> /\ list = <<1>>
    /\ th = [t \in Threads |-> Idle] /\ hints = <<>> /\ rd = NoRead
    /\ index = <<>> /\ calls = 0 /\ reads = 0 /\ late = FALSE

-----------------------------------------------------------------------------
(* Descriptors and the list *)

\* open gives the lowest number that is free.
Lowest == Min({n \in Numbers : table[n] = Closed})
Opened(file, mode) == [table EXCEPT ![Lowest] = [file |-> file, mode |-> mode]]

\* close of a number that is not open fails, which nobody looks at.
Close(n) == IF n = NoFd THEN table ELSE [table EXCEPT ![n] = Closed]
OpenOn(n) == IF n = NoFd THEN Closed ELSE table[n]

Head1 == list[1]

\* add_file_to_linked_list, as seen from files_state.head: a node whose ID is not
\* higher than the head's is linked in front of the first one that is not higher;
\* when that is the head itself, files_state.head stays and nothing leads to it.
Linked(n) ==
    LET at == Min({i \in DOMAIN list : node[list[i]].id <= node[n].id} \cup {Len(list) + 1})
    IN  IF node[n].id > node[Head1].id THEN <<n>> \o list
        ELSE IF at = 1 THEN list ELSE InsertAt(list, at, n)

\* ccask_files_get_file: of two nodes with one ID the last added.
FileNode(i) == Max({n \in DOMAIN node : node[n].id = i})

-----------------------------------------------------------------------------
(* ccask_write_record_blocking *)

At(t, label) == th[t].pc = label
Mine(t) == th[t].node
FreeIgnored(n) == TRUE
Free(n) == node[n].lock = "none"
Goto(t, label) == th' = [th EXCEPT ![t].pc = label]
Unlocked(n) == [node EXCEPT ![n].lock = "none"]

\* The active file is found, by a call or by one that starts over after a rotation.
Begin(t) ==
    /\ At(t, "idle") /\ calls < MaxWrites
    /\ calls' = calls + 1
    /\ th' = [th EXCEPT ![t] = [Idle EXCEPT !.pc = "lock", !.call = calls + 1, !.node = Head1]]
    /\ UNCHANGED <<disk, table, node, list, hints, rd, index, reads, late>>

StartOver(t) ==
    /\ At(t, "again")
    /\ th' = [th EXCEPT ![t].node = Head1, ![t].pc = "lock"]
    /\ UNCHANGED <<disk, table, node, list, hints, rd, index, calls, reads, late>>

\* The lock is taken, and file->fd read for lseek.
Lock(t) ==
    /\ At(t, "lock") /\ Free(Mine(t))
    /\ node' = [node EXCEPT ![Mine(t)].lock = t]
    /\ th' = [th EXCEPT ![t].num = node[Mine(t)].fd, ![t].pc = "seek"]
    /\ UNCHANGED <<disk, table, list, hints, rd, index, calls, reads, late>>

SeekFails(t) ==
    /\ At(t, "seek") /\ OpenOn(th[t].num) = Closed
    /\ node' = Unlocked(Mine(t))
    /\ th' = [th EXCEPT ![t] = Idle]
    /\ UNCHANGED <<disk, table, list, hints, rd, index, calls, reads, late>>

\* lseek gives the length of whatever is open on the number; file->fd is read again.
Seek(t) ==
    LET len == Len(disk[OpenOn(th[t].num).file]) IN
    /\ At(t, "seek") /\ OpenOn(th[t].num) # Closed
    /\ IF len + 1 > PerFile
       THEN /\ Goto(t, "create")
            /\ late' = (late \/ Mine(t) # Head1)
       ELSE /\ th' = [th EXCEPT ![t].pos = len, ![t].num = node[Mine(t)].fd, ![t].pc = "write"]
            /\ UNCHANGED late
    /\ UNCHANGED <<disk, table, node, list, hints, rd, index, calls, reads>>

\* safe_writev to whatever is open on the number by now; then the unlock, and the
\* upsert of file->file_id and the offset.
Write(t) ==
    LET open == OpenOn(th[t].num) IN
    /\ At(t, "write")
    /\ \/ /\ open.mode = "append"
          /\ disk' = [disk EXCEPT ![open.file] = Append(@, th[t].call)]
          /\ index' = [c \in DOMAIN index \cup {th[t].call} |->
                          IF c \in DOMAIN index THEN index[c]
                          ELSE [id |-> node[Mine(t)].id, pos |-> th[t].pos]]
       \/ open.mode # "append" /\ UNCHANGED <<disk, index>>
    /\ node' = Unlocked(Mine(t))
    /\ th' = [th EXCEPT ![t] = Idle]
    /\ UNCHANGED <<table, list, hints, rd, calls, reads, late>>

-----------------------------------------------------------------------------
(* ccask_files_rotate *)

\* create_new_active_datafile: the ID follows the head's.  (When it fails nothing
\* has changed, and the caller starts over: RotateFails of module Store.)
Create(t) ==
    LET i == node[Head1].id + 1 IN
    /\ At(t, "create") /\ i <= MaxFiles
    /\ table' = Opened(Data(i), "append")
    /\ node' = Append(node, Node(i, Lowest, TRUE))
    /\ th' = [th EXCEPT ![t].new = Len(node) + 1, ![t].pc = "close"]
    /\ UNCHANGED <<disk, list, hints, rd, index, calls, reads, late>>

\* close(files_state.head->fd)
CloseHead(t) ==
    /\ At(t, "close")
    /\ table' = Close(node[Head1].fd)
    /\ Goto(t, "clear")
    /\ UNCHANGED <<disk, node, list, hints, rd, index, calls, reads, late>>

\* files_state.head->fd = -1, and is_active = false
ClearedNot(t) == [node EXCEPT ![Head1].isActive = FALSE]
ClearedNew(t) == [node EXCEPT ![th[t].new].fd = NoFd, ![Head1].isActive = FALSE]
Cleared(t) == [node EXCEPT ![Head1].fd = NoFd, ![Head1].isActive = FALSE]

ClearHead(t) ==
    /\ At(t, "clear")
    /\ node' = Cleared(t)
    /\ Goto(t, "add")
    /\ UNCHANGED <<disk, table, list, hints, rd, index, calls, reads, late>>

Add(t) ==
    /\ At(t, "add")
    /\ list' = Linked(th[t].new)
    /\ Goto(t, "hint")
    /\ UNCHANGED <<disk, table, node, hints, rd, index, calls, reads, late>>

\* A hint thread for files_state.head->next; the caller unlocks and starts over.
StartHint(t) ==
    /\ At(t, "hint") /\ Len(list) > 1
    /\ hints' = Append(hints, [id |-> node[list[2]].id, pc |-> "open", out |-> NoFd, in |-> NoFd])
    /\ node' = Unlocked(Mine(t))
    /\ Goto(t, "again")
    /\ UNCHANGED <<disk, table, list, rd, index, calls, reads, late>>

-----------------------------------------------------------------------------
(* hintfile_generator_thread: two descriptors, a write, and their closes *)

hintUnchanged == <<node, list, th, rd, index, calls, reads, late>>

HintOpen(h) ==
    /\ hints[h].pc = "open"
    /\ table' = Opened(Hint(hints[h].id), "append")
    /\ hints' = [hints EXCEPT ![h].out = Lowest, ![h].pc = "scan"]
    /\ UNCHANGED <<disk, hintUnchanged>>

HintScan(h) ==
    /\ hints[h].pc = "scan"
    /\ table' = Opened(Data(hints[h].id), "read")
    /\ hints' = [hints EXCEPT ![h].in = Lowest, ![h].pc = "write"]
    /\ UNCHANGED <<disk, hintUnchanged>>

HintWrite(h) ==
    LET open == OpenOn(hints[h].out) IN
    /\ hints[h].pc = "write"
    /\ disk' = IF open.mode = "append" THEN [disk EXCEPT ![open.file] = Append(@, HintMark)]
               ELSE disk
    /\ table' = [n \in Numbers |-> IF n \in {hints[h].out, hints[h].in} THEN Closed ELSE table[n]]
    /\ hints' = [hints EXCEPT ![h].pc = "done", ![h].out = NoFd, ![h].in = NoFd]
    /\ UNCHANGED hintUnchanged

-----------------------------------------------------------------------------
(* ccask_read_datafile_record, and datafile_fd_invalidator_thread *)

readUnchanged == <<disk, list, th, hints, index, calls, late>>

\* The file is found; under its lock it is reopened if it is closed.
Reopen(c) ==
    LET n == FileNode(index[c].id) IN
    /\ rd.pc = "idle" /\ reads < MaxReads /\ c \in DOMAIN index /\ Free(n)
    /\ reads' = reads + 1
    /\ rd' = [pc |-> "lock", call |-> c, node |-> n, num |-> NoFd]
    /\ IF node[n].fd = NoFd
       THEN /\ table' = Opened(Data(node[n].id), "read")
            /\ node' = [node EXCEPT ![n].fd = Lowest]
       ELSE UNCHANGED <<table, node>>
    /\ UNCHANGED readUnchanged

\* The lock is taken again, and file->fd read for safe_preadv ...
ReadLock ==
    /\ rd.pc = "lock" /\ Free(rd.node)
    /\ node' = [node EXCEPT ![rd.node].lock = "reader"]
    /\ rd' = [rd EXCEPT !.num = node[rd.node].fd, !.pc = "read"]
    /\ UNCHANGED <<readUnchanged, table, reads>>

\* ... which reads whatever is open on the number.
Read ==
    /\ rd.pc = "read"
    /\ node' = Unlocked(rd.node)
    /\ rd' = NoRead
    /\ UNCHANGED <<readUnchanged, table, reads>>

\* An invalidator finds a file that is not active left alone, and closes it.
Invalidate(n) ==
    /\ ~node[n].isActive /\ node[n].fd # NoFd /\ Free(n)
    /\ table' = Close(node[n].fd)
    /\ node' = [node EXCEPT ![n].fd = NoFd]
    /\ UNCHANGED <<readUnchanged, rd, reads>>

-----------------------------------------------------------------------------
RotateStep(t) == Create(t) \/ CloseHead(t) \/ ClearHead(t) \/ Add(t) \/ StartHint(t)
WriteStep(t)  == Begin(t) \/ StartOver(t) \/ Lock(t) \/ SeekFails(t) \/ Seek(t) \/ Write(t)
HintStep(h)   == HintOpen(h) \/ HintScan(h) \/ HintWrite(h)

RotationNext ==
    \/ \E t \in Threads : WriteStep(t) \/ RotateStep(t)
    \/ \E h \in DOMAIN hints : HintStep(h)
    \/ (\E c \in 1 .. MaxWrites : Reopen(c)) \/ ReadLock \/ Read
    \/ \E n \in DOMAIN node : Invalidate(n)

RotationSpec == RotationInit /\ [][RotationNext]_rotationVars

\* The behaviours up to the first rotation that begins without the lock of the head.
InTimeSpec == RotationInit /\ [][~late /\ RotationNext]_rotationVars

-----------------------------------------------------------------------------
(* Properties *)

\* A number that a thread is about to use is open on the file it means: writers,
\* the reader and hint threads never meet a number that has been closed and given
\* to another file, as long as no rotation began without the lock of the head
\* (the locks held from the read of file->fd to the end of the call, and the
\* file->fd = -1 that rotation and invalidators leave).
NumbersMeanFiles ==
    ~late =>
        /\ \A t \in Threads : (At(t, "seek") /\ th[t].num # NoFd) \/ At(t, "write") =>
                                 OpenOn(th[t].num).file = Data(node[Mine(t)].id)
        /\ (rd.pc = "read" /\ rd.num # NoFd) => OpenOn(rd.num).file = Data(node[rd.node].id)
        /\ \A h \in DOMAIN hints : hints[h].pc = "write" =>
                                       /\ OpenOn(hints[h].out).file = Hint(hints[h].id)
                                       /\ OpenOn(hints[h].in).file = Data(hints[h].id)

\* Every call that returned CCASK_OK has its record where it was indexed.  RotationSpec
\* does not have this: a descriptor closed under a writer is reused.
IndexLeadsHome ==
    \A c \in DOMAIN index : LET log == disk[Data(index[c].id)] IN
        index[c].pos < Len(log) /\ log[index[c].pos + 1] = c

\* That is so as long as no rotation began without the lock of the head, however
\* rotations, reopened files, invalidators and hint threads reuse descriptors.
IndexLeadsHomeInTime == ~late => IndexLeadsHome

Rotating(t) == th[t].pc \in {"create", "close", "clear", "add"}

\* When nobody is in rotation the head of the list has the highest ID, each ID one
\* node, and the head is open for append, so that the store can be written to
\* (under the same condition).
HeadWritable ==
    ~late /\ (\A t \in Threads : ~Rotating(t)) =>
        /\ \A m, n \in DOMAIN node : m # n => node[m].id # node[n].id
        /\ \A n \in DOMAIN node : node[n].id <= node[Head1].id
        /\ OpenOn(node[Head1].fd) = [file |-> Data(node[Head1].id), mode |-> "append"]

\* A closed segment gets a hint thread of its own: when nobody is in rotation, every
\* file but the head has one, and only one.  The code does not have this with two
\* writers: head->next is looked at after the new file can be rotated in its turn.
SegmentsGetHints ==
    (\A t \in Threads : ~Rotating(t) /\ ~At(t, "hint")) =>
        \A i \in 2 .. Len(list) :
            Cardinality({h \in DOMAIN hints : hints[h].id = node[list[i]].id}) = 1
=============================================================================
