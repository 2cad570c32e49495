------------------------------- MODULE Reader -------------------------------
(***************************************************************************)
(* ccask_get (core.c, reader.c) beside the write path of module Store: the *)
(* lookup in the key directory, the reads of the entry's fields after its  *)
(* lock has been released, the descriptor of a rotated file, reopened for  *)
(* reading and closed again by the file's invalidator thread, the read of  *)
(* the record, its CRC, and the copy of the value.                         *)
(*                                                                         *)
(* The store runs for the whole behaviour: no shutdown, crash or restart,  *)
(* and hint threads, which only read datafiles, are not started.  A record *)
(* is read as Store's cells: the CRC matches if the cells at the position  *)
(* are a whole record whose value fits the buffer it was read into.        *)
(*                                                                         *)
(* A writer that chose a file before it was rotated, and locks it after a  *)
(* reader has reopened it, may find it full and rotate the head of the     *)
(* list, whose lock it does not hold.  From there on nothing is said here: *)
(* a behaviour ends where HeadLocked does.  What then happens, statement   *)
(* by statement and descriptor by descriptor, is in module Rotation.  With *)
(* a sole writer it does not happen.                                       *)
(***************************************************************************)
EXTENDS Store

CONSTANTS
    Readers,       \* threads that call ccask_get
    MaxGets,       \* bound: calls of ccask_get
    AppSerialises  \* TRUE: the application lets no other call of a key overlap its write

ASSUME ReaderAssumption == MaxGets \in Nat /\ AppSerialises \in BOOLEAN

VARIABLES
    rd,        \* reader -> its state inside ccask_get
    inv,       \* datafile ID -> its invalidator thread
    running,   \* datafile ID -> is_fd_invalidator_running
    reopened,  \* datafile ID -> descriptors open(O_RDONLY) gave and nobody closed
    gets       \* calls of ccask_get so far

readerVars == <<rd, inv, running, reopened, gets>>
allVars    == <<vars, readerVars>>

NotReading ==
    [pc |-> "idle", key |-> NoKey, node |-> 0, want |-> 0, left |-> {}, file |-> 0, pos |-> 0,
     got |-> 0, room |-> 0, copied |-> 0, size |-> 0, result |-> "none"]

\* Whoever is about to rotate holds the lock of the file that rotation closes.
HeadLocked == \A t \in Threads : th[t].pc = "rotate" => th[t].file = active

ReaderInit ==
    /\ Init
    /\ rd = [r \in Readers |-> NotReading]
    /\ inv = [f \in FileId |-> "none"] /\ running = [f \in FileId |-> FALSE]
    /\ reopened = [f \in FileId |-> 0] /\ gets = 0

-----------------------------------------------------------------------------
(* ccask_get up to the call of ccask_read_datafile_record *)

In(r, label) == rd[r].pc = label
Return(r, result) == rd' = [rd EXCEPT ![r].result = result, ![r].pc = "done"]

\* A call that writes k, or reads it, is in flight.
WritingKey(k) == \E t \in Threads : th[t].pc # "idle" /\ wr[th[t].id].key = k
ReadingKey(k) == \E r \in Readers : rd[r].pc # "idle" /\ rd[r].key = k
MayGet(k) == AppSerialises => ~WritingKey(k)
MayPut(k) == AppSerialises => ~WritingKey(k) /\ ~ReadingKey(k)

\* ccask_keydir_find: the lock protects the lookup, not the entry it returns.
GetFindUnchecked(r, k) ==
    /\ In(r, "idle") /\ gets < MaxGets /\ MayGet(k)
    /\ gets' = gets + 1
    /\ rd' = [rd EXCEPT ![r] = [NotReading EXCEPT !.key = k, !.node = Len(keydir[k]),
                                                  !.pc = "want"]]
    /\ UNCHANGED <<vars, inv, running, reopened>>
GetFind(r, k) ==
    /\ In(r, "idle") /\ gets < MaxGets /\ MayGet(k)
    /\ gets' = gets + 1
    /\ rd' = [rd EXCEPT ![r] = [NotReading EXCEPT !.key = k, !.node = Len(keydir[k]),
                                    !.pc = IF keydir[k] = <<>> THEN "done" ELSE "want"]]
    /\ UNCHANGED <<vars, inv, running, reopened>>

\* The entry as it is now: each use of kd_record reads it again.
KdRecord(r) == keydir[rd[r].key][rd[r].node]

\* Buffers for a record with a value of the size the entry states.
GetAllocate(r) ==
    /\ In(r, "want")
    /\ \/ rd' = [rd EXCEPT ![r].want = KdRecord(r).vsize, ![r].left = {"file", "pos"},
                           ![r].pc = "args"]
       \/ "getmem" \in Faults /\ Return(r, "nomem")
    /\ UNCHANGED <<vars, inv, running, reopened, gets>>

\* The arguments file_id and record_pos are evaluated in either order.
GetArgument(r) ==
    /\ In(r, "args")
    /\ \E x \in rd[r].left :
          rd' = [rd EXCEPT ![r][x] = KdRecord(r)[x], ![r].left = @ \ {x},
                           ![r].pc = IF rd[r].left = {x} THEN "check" ELSE "args"]
    /\ UNCHANGED <<vars, inv, running, reopened, gets>>

-----------------------------------------------------------------------------
(* ccask_read_datafile_record *)

FileFree(f) == locked[f] = NoThread

\* The file's lock is held to read, for one look at the descriptor.
CheckFd(r) ==
    /\ In(r, "check") /\ FileFree(rd[r].file)
    /\ rd' = [rd EXCEPT ![r].pc = IF IsOpen(rd[r].file) THEN "read" ELSE "reopen"]
    /\ UNCHANGED <<vars, inv, running, reopened, gets>>

\* The file's lock is held to write: the descriptor is looked at again, opened, and
\* an invalidator started unless one is running.
StillClosedAssumed(f) == TRUE
StillClosed(f) == ~IsOpen(f)

ReopenOk(r) ==
    LET f == rd[r].file IN
    /\ In(r, "reopen") /\ FileFree(f) /\ StillClosed(f)
    /\ fd' = [fd EXCEPT ![f] = "read"]
    /\ reopened' = [reopened EXCEPT ![f] = @ + 1]
    /\ \/ inv' = [inv EXCEPT ![f] = IF running[f] THEN @ ELSE "sleep"]
          /\ running' = [running EXCEPT ![f] = TRUE]
       \/ "thread" \in Faults /\ UNCHANGED <<inv, running>>
    /\ rd' = [rd EXCEPT ![r].pc = "read"]
    /\ UNCHANGED <<diskVars, phase, locked, keydir, iterating, hintVars, th, wr, counterVars,
                   gets>>

ReopenNotNeeded(r) ==
    /\ In(r, "reopen") /\ FileFree(rd[r].file) /\ ~StillClosed(rd[r].file)
    /\ rd' = [rd EXCEPT ![r].pc = "read"]
    /\ UNCHANGED <<vars, inv, running, reopened, gets>>

ReopenFails(r) ==
    /\ "reopen" \in Faults
    /\ In(r, "reopen") /\ FileFree(rd[r].file) /\ StillClosed(rd[r].file)
    /\ Return(r, "nofd")
    /\ UNCHANGED <<vars, inv, running, reopened, gets>>

\* The offset given to safe_preadv.
ReadFromStart(r) == 0
ReadPastHeader(r) == rd[r].pos + 1
ReadFrom(r) == rd[r].pos

\* The buffers can be filled: the file is long enough (an empty value buffer, last
\* in the vector, makes safe_preadv report an unexpected end).
Enough(r) == /\ rd[r].want > 0
             /\ ReadFrom(r) + 2 + rd[r].want <= Len(data[rd[r].file])

\* The calls whose record passes the CRC test in what was read.
Passes(r) == {id \in 1 .. Len(wr) : /\ Whole(rd[r].file, ReadFrom(r), id)
                                    /\ wr[id].vsize <= rd[r].want}

\* The file's lock is held to read; the descriptor may have been closed since the
\* reader looked at it.
Read(r) ==
    LET f == rd[r].file IN
    /\ In(r, "read") /\ FileFree(f)
    /\ \/ ~IsOpen(f) /\ Return(r, "closed")
       \/ IsOpen(f) /\ ~Enough(r) /\ Return(r, "eof")
       \/ IsOpen(f) /\ "read" \in Faults /\ Return(r, "io")
       \/ IsOpen(f) /\ Enough(r) /\ Passes(r) = {} /\ Return(r, "crc")
       \/ /\ IsOpen(f) /\ Enough(r)
          /\ \E id \in Passes(r) : rd' = [rd EXCEPT ![r].got = id, ![r].pc = "room"]
    /\ UNCHANGED <<vars, inv, running, reopened, gets>>

-----------------------------------------------------------------------------
(* ccask_get: the copy for the caller, sized by the entry, read again each time *)

GetRoom(r) ==
    /\ In(r, "room")
    /\ \/ rd' = [rd EXCEPT ![r].room = KdRecord(r).vsize, ![r].pc = "copy"]
       \/ "getmem" \in Faults /\ Return(r, "nomem")
    /\ UNCHANGED <<vars, inv, running, reopened, gets>>

GetCopy(r) ==
    /\ In(r, "copy")
    /\ rd' = [rd EXCEPT ![r].copied = KdRecord(r).vsize, ![r].pc = "size"]
    /\ UNCHANGED <<vars, inv, running, reopened, gets>>

GetSize(r) ==
    /\ In(r, "size")
    /\ rd' = [rd EXCEPT ![r].size = KdRecord(r).vsize, ![r].result = "ok", ![r].pc = "done"]
    /\ UNCHANGED <<vars, inv, running, reopened, gets>>

\* The application has its answer.
GetDone(r) ==
    /\ In(r, "done")
    /\ rd' = [rd EXCEPT ![r] = NotReading]
    /\ UNCHANGED <<vars, inv, running, reopened, gets>>

-----------------------------------------------------------------------------
(* datafile_fd_invalidator_thread *)

\* After its sleep the thread looks at is_active, fd and last_accessed, without the
\* lock; it sleeps again unless all three say that the descriptor is not used.  How
\* long ago the last access was depends on the scheduling of the readers only, so it
\* may be long enough at any time.
InvalidatorTest(f) ==
    /\ inv[f] = "sleep" /\ f # active /\ IsOpen(f)
    /\ inv' = [inv EXCEPT ![f] = "close"]
    /\ UNCHANGED <<vars, rd, running, reopened, gets>>

\* It then waits for the lock, closes and ends.
FlagKept(f) == UNCHANGED running
FlagCleared(f) == running' = [running EXCEPT ![f] = FALSE]

InvalidatorClose(f) ==
    /\ inv[f] = "close" /\ FileFree(f)
    /\ fd' = [fd EXCEPT ![f] = "closed"]
    /\ reopened' = [reopened EXCEPT ![f] = IF IsOpen(f) THEN @ - 1 ELSE @]
    /\ FlagCleared(f)
    /\ inv' = [inv EXCEPT ![f] = "none"]
    /\ UNCHANGED <<diskVars, phase, locked, keydir, iterating, hintVars, th, wr, counterVars,
                   rd, gets>>

-----------------------------------------------------------------------------
GetStep(r) ==
    \/ GetAllocate(r) \/ GetArgument(r)
    \/ CheckFd(r) \/ ReopenOk(r) \/ ReopenNotNeeded(r) \/ ReopenFails(r) \/ Read(r)
    \/ GetRoom(r) \/ GetCopy(r) \/ GetSize(r) \/ GetDone(r)

ReaderStep(r)      == HeadLocked /\ GetStep(r)
BeginGet(r, k)     == HeadLocked /\ GetFind(r, k)
InvalidatorStep(f) == HeadLocked /\ (InvalidatorTest(f) \/ InvalidatorClose(f))

\* A step of the store while readers and invalidators do nothing.
BeginPut(t, k, v) == HeadLocked /\ MayPut(k) /\ Begin(t, k, v) /\ UNCHANGED readerVars
PutStep(t)        == HeadLocked /\ ThreadStep(t) /\ UNCHANGED readerVars
OpenIter(c)       == HeadLocked /\ ListKeys(c) /\ UNCHANGED readerVars
CloseIter(c)      == HeadLocked /\ IterClose(c) /\ UNCHANGED readerVars

ReaderNext ==
    \/ \E t \in Threads : PutStep(t) \/ \E k \in Keys, v \in ValueSizes : BeginPut(t, k, v)
    \/ \E c \in Callers : OpenIter(c) \/ CloseIter(c)
    \/ \E r \in Readers : ReaderStep(r) \/ \E k \in Keys : BeginGet(r, k)
    \/ \E f \in FileId : InvalidatorStep(f)

ReaderSafeSpec == ReaderInit /\ [][ReaderNext]_allVars

(***************************************************************************)
(* A thread that can take a step again and again takes one: it runs when   *)
(* it can, and gets a lock that is free again and again.  Iterators are    *)
(* closed, and readers leave a file alone for long enough now and then.    *)
(* Nobody has to call anything.                                            *)
(***************************************************************************)
ReaderSpec ==
    /\ ReaderSafeSpec
    /\ \A t \in Threads : SF_allVars(PutStep(t))
    /\ \A c \in Callers : WF_allVars(CloseIter(c))
    /\ \A r \in Readers : SF_allVars(ReaderStep(r))
    /\ \A f \in FileId : SF_allVars(InvalidatorStep(f))

-----------------------------------------------------------------------------
(* Properties *)

ReaderState ==
    [pc : {"idle", "want", "args", "check", "reopen", "read", "room", "copy", "size", "done"},
     key : Keys \cup {NoKey}, node : Nat, want : Nat, left : SUBSET {"file", "pos"},
     file : FileId, pos : Nat, got : 0 .. MaxWrites, room : Nat, copied : Nat, size : Nat,
     result : {"none", "ok", "nomem", "nofd", "closed", "eof", "io", "crc"}]

\* Every variable of the readers has its type, and a reader past the lookup holds an
\* entry of its key.
ReaderTypeOK ==
    /\ rd \in [Readers -> ReaderState]
    /\ \A r \in Readers : rd[r].pc \notin {"idle", "done"} =>
                             rd[r].node \in 1 .. Len(keydir[rd[r].key])
    /\ inv \in [FileId -> {"none", "sleep", "close"}] /\ running \in [FileId -> BOOLEAN]
    /\ reopened \in [FileId -> Nat] /\ gets \in 0 .. MaxGets

\* The last call that wrote k and returned CCASK_OK, or 0.
LastOk(k) ==
    LET ok == {id \in 1 .. Len(wr) : wr[id].key = k /\ wr[id].status = "ok"}
    IN  IF ok = {} THEN 0 ELSE Max(ok)

\* When no write of the key overlaps it, a get returns the value that the latest
\* successful write stored, whole and with its size, and no value only if there was
\* no such write; whatever other keys, rotations and other readers do meanwhile
\* (ccask_get).
GetLatest ==
    \A r \in Readers : AppSerialises /\ In(r, "done") =>
        /\ rd[r].result = "none" => LastOk(rd[r].key) = 0
        /\ rd[r].result = "ok" => /\ rd[r].got = LastOk(rd[r].key)
                                  /\ wr[rd[r].got].vsize = rd[r].size
                                  /\ rd[r].size <= rd[r].copied /\ rd[r].copied <= rd[r].room
                                  /\ rd[r].copied <= rd[r].want

\* Nor does it ever meet a record that is cut off or does not match its CRC: a get
\* fails because the system does, or because the descriptor was closed under it.
NoCorruptRead ==
    AppSerialises => \A r \in Readers : rd[r].result \notin {"eof", "crc"}

\* A value that a get returns was written under the key the caller asked for, and
\* has the size the caller is told, also when writes of the key are in flight.
GetOwnValue ==
    \A r \in Readers : In(r, "done") /\ rd[r].result = "ok" =>
        wr[rd[r].got].key = rd[r].key /\ wr[rd[r].got].vsize = rd[r].size

\* A file has one reader's descriptor at most, only after it has been rotated away;
\* and an invalidator that is about to close has that descriptor to close, although
\* it decided without the lock (the second test in ccask_read_datafile_record, the
\* test and the flag in the invalidator).
DescriptorsOwned ==
    \A f \in FileId : /\ reopened[f] = IF fd[f] = "read" THEN 1 ELSE 0
                      /\ fd[f] = "read" => f < active
                      /\ inv[f] = "close" => fd[f] = "read"
                      /\ running[f] = (inv[f] # "none")

\* A call of ccask_get returns, if every rotation begins with the lock of the head.
GetReturns == []HeadLocked => \A r \in Readers : rd[r].pc # "idle" ~> rd[r].pc = "idle"

\* A descriptor reopened for reading is closed again once readers leave the file
\* alone, if its invalidator could be started (on the same condition).
IdleClosed ==
    []HeadLocked => \A f \in FileId : fd[f] = "read" /\ running[f] ~> fd[f] = "closed"
=============================================================================
