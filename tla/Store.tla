------------------------------- MODULE Store -------------------------------
(***************************************************************************)
(* The write path of ccask and its recovery: the datafiles and hintfiles   *)
(* on disk (files.c, hint.c, iterator.c), the key directory (keydir.c),    *)
(* the threads inside ccask_write_record_blocking (writer.c: the writer    *)
(* thread and the callers of ccask_put_blocking), rotation with its hint   *)
(* threads, ccask_shutdown, a crash of the process, and ccask_init on what *)
(* is left on disk (core.c).                                               *)
(*                                                                         *)
(* A datafile is a sequence of cells.  A record with an n-cell value takes *)
(* n + 2 cells: its header (which holds the sizes), its key, its value.    *)
(* Offsets count cells.  A value of no cells is what ccask_delete writes.  *)
(* The records a thread writes are numbered in the order of the calls, so  *)
(* a cell says which call wrote it.                                        *)
(*                                                                         *)
(* The queue in front of the writer thread is left out (WriterRingbuf has  *)
(* it): the writer thread may begin a write whenever it may have popped a  *)
(* record.  Reads are in module Reader, which extends this one: it adds    *)
(* the threads that reopen a rotated file to read it.                      *)
(***************************************************************************)
EXTENDS Naturals, Sequences, FiniteSetsExt

CONSTANTS
    Keys,
    Threads,       \* threads that write: "writer" and callers of put_blocking
    ValueSizes,    \* sizes, in cells, of the values the application writes
    MaxFileSize,   \* ccask_options_t.datafile_rotate_threshold, in cells
    MaxFiles,      \* bound: datafiles have the IDs 0 .. MaxFiles
    MaxWrites,     \* bound: calls of ccask_write_record_blocking
    MaxCrashes,    \* bound: crashes of the process
    MaxShutdowns,  \* bound: calls of ccask_shutdown
    MaxIterators,  \* bound: key iterators open at once
    Faults,        \* what the system may refuse or cut short, see below
    NoHint         \* stands for a hintfile that does not exist

\* "short": writev may write less than asked     "write": writev may fail
\* "read": reading a record back may fail        "open": opening a file may fail
\* "nomem": malloc may fail                      "unlink": unlink may fail
\* "thread": pthread_create may fail
\* "reopen", "getmem": the same two for open and malloc in ccask_get (module Reader)
AllFaults == {"short", "write", "read", "open", "nomem", "unlink", "thread",
              "reopen", "getmem"}
MayFail(causes) == Faults \cap causes # {}

Writer   == "writer"
NoThread == "none"
NoKey    == "garbage"    \* a key made of bytes that are not a key

ASSUME SizeAssumption   == /\ ValueSizes \subseteq Nat
                           /\ MaxFileSize \in Nat /\ MaxFiles \in Nat /\ MaxWrites \in Nat
                           /\ MaxCrashes \in Nat /\ MaxShutdowns \in Nat /\ MaxIterators \in Nat
ASSUME NameAssumption   == NoThread \notin Threads /\ NoKey \notin Keys
ASSUME FaultAssumption  == Faults \subseteq AllFaults

VARIABLES
    \* on disk
    data,       \* datafile ID -> its cells (empty when it does not exist)
    active,     \* the highest datafile ID on disk; files_state.head while running
    hint,       \* datafile ID -> the records of its hintfile, or NoHint
    \* in memory
    phase,      \* "up", then "join", "drain", "down" in ccask_shutdown; "off"
    fd,         \* datafile ID -> its descriptor: "closed", "append", "read"
    locked,     \* datafile ID -> the thread that holds its rwlock for writing
    keydir,     \* key -> its entries, oldest first; HASH_FIND finds the last
    iterating,  \* callers with a key iterator open (hash_table_lock held to read)
    hpc,        \* datafile ID -> its hint generator thread
    joining,    \* hint threads that ccask_hintfile_generator_shutdown waits for
    th,         \* thread -> its state inside ccask_write_record_blocking
    \* history
    wr,         \* the write calls: key, value size, outcome
    crashes, shutdowns

diskVars    == <<data, active, hint>>
fileVars    == <<fd, locked>>
hintVars    == <<hpc, joining>>
counterVars == <<crashes, shutdowns>>
vars == <<diskVars, phase, fileVars, keydir, iterating, hintVars, th, wr, counterVars>>

FileId  == 0 .. MaxFiles
Callers == Threads \ {Writer}
Idle    == [pc |-> "idle", id |-> 0, file |-> 0, pos |-> 0, sent |-> 0, node |-> 0]

\* After ccask_files_init only the active datafile has a descriptor, for append.
OpenOnly(a) == [f \in FileId |-> IF f = a THEN "append" ELSE "closed"]

Init ==
    /\ data = [f \in FileId |-> <<>>] /\ active = 0
    /\ hint = [f \in FileId |-> NoHint]
    /\ phase = "up"
    /\ fd = OpenOnly(0)
    /\ locked = [f \in FileId |-> NoThread]
    /\ keydir = [k \in Keys |-> <<>>] /\ iterating = {}
    /\ hpc = [f \in FileId |-> "none"] /\ joining = {}
    /\ th = [t \in Threads |-> Idle]
    /\ wr = <<>> /\ crashes = 0 /\ shutdowns = 0

-----------------------------------------------------------------------------
(* Records, and how a datafile is read back *)

Size(id) == 2 + wr[id].vsize

Cells(id, first, last) == [i \in 1 .. last - first + 1 |-> [id |-> id, part |-> first + i - 1]]

\* The record of call id is whole at offset p of datafile f.
Whole(f, p, id) ==
    /\ p + Size(id) <= Len(data[f])
    /\ \A i \in 1 .. Size(id) : data[f][p + i] = [id |-> id, part |-> i]

\* ccask_datafile_iter_next at offset p succeeds: it finds a header, and reads as
\* many cells behind it as the header says, whatever they are; for a value of
\* no cells preadv returns 0, which safe_preadv takes for the end of the file.
CanRead(cells, p) ==
    /\ p < Len(cells)
    /\ cells[p + 1].part = 1
    /\ p + Size(cells[p + 1].id) <= Len(cells)
    /\ wr[cells[p + 1].id].vsize > 0

\* What the record read at offset p says: the sizes come from the header cell,
\* the key from the cell behind it, which need not be a key.
EntryAt(cells, p) ==
    [key   |-> IF cells[p + 2].part = 2 THEN wr[cells[p + 2].id].key ELSE NoKey,
     pos   |-> p,
     vsize |-> wr[cells[p + 1].id].vsize]

\* The records a datafile iterator yields from offset 0 to where it gives up.
Scan(cells) ==
    LET from[p \in 0 .. Len(cells)] ==
            IF CanRead(cells, p)
            THEN <<EntryAt(cells, p)>> \o from[p + Size(cells[p + 1].id)]
            ELSE <<>>
    IN  from[0]

\* keydir_recover reads the hintfile of a datafile that has one.
Source(f) == IF hint[f] # NoHint THEN hint[f] ELSE Scan(data[f])

\* The index of k after keydir_recover has upserted every record of every file,
\* oldest file first, in file order.
RecoverNewestFirst(k) ==
    LET Has(f) == {i \in DOMAIN Source(f) : Source(f)[i].key = k}
        files  == {f \in 0 .. active : Has(f) # {}}
        f      == Min(files)
        e      == Source(f)[Max(Has(f))]
    IN  IF files = {} THEN <<>> ELSE <<[file |-> f, pos |-> e.pos, vsize |-> e.vsize]>>
Recovered(k) ==
    LET Has(f) == {i \in DOMAIN Source(f) : Source(f)[i].key = k}
        files  == {f \in 0 .. active : Has(f) # {}}
        f      == Max(files)
        e      == Source(f)[Max(Has(f))]
    IN  IF files = {} THEN <<>> ELSE <<[file |-> f, pos |-> e.pos, vsize |-> e.vsize]>>

-----------------------------------------------------------------------------
(* ccask_write_record_blocking *)

At(t, label) == th[t].pc = label
Goto(t, label) == th' = [th EXCEPT ![t].pc = label]

\* The call returns; wr keeps its outcome.
Finish(t, outcome) ==
    /\ th' = [th EXCEPT ![t] = Idle]
    /\ wr' = [wr EXCEPT ![th[t].id].status = outcome]

UnlockForgotten(t) == UNCHANGED locked
Unlock(t) == locked' = [locked EXCEPT ![th[t].file] = NoThread]

\* A caller enters ccask_put_blocking before shutdown has begun; the writer thread
\* pops until the queue is drained.
Begin(t, k, v) ==
    /\ At(t, "idle") /\ t \notin iterating
    /\ phase = "up" \/ (t = Writer /\ phase \in {"join", "drain"})
    /\ Len(wr) < MaxWrites
    /\ wr' = Append(wr, [key |-> k, vsize |-> v, status |-> "pending"])
    /\ th' = [th EXCEPT ![t] = [Idle EXCEPT !.pc = "active", !.id = Len(wr) + 1]]
    /\ UNCHANGED <<diskVars, phase, fileVars, keydir, iterating, hintVars, counterVars>>

\* ccask_files_get_active_file: files_state.head is read without a lock.
GetActiveFile(t) ==
    /\ At(t, "active")
    /\ th' = [th EXCEPT ![t].file = active, ![t].pc = "lock"]
    /\ UNCHANGED <<diskVars, phase, fileVars, keydir, iterating, hintVars, wr, counterVars>>

LockIgnored(t) == TRUE
LockFree(t) == locked[th[t].file] = NoThread
IsOpen(f) == fd[f] # "closed"
Fits(t) == Len(data[th[t].file]) + Size(th[t].id) <= MaxFileSize

\* pthread_rwlock_wrlock and lseek.  The file this thread took for the active one
\* may have been rotated away and its descriptor closed: the call fails.
SeekFails(t) ==
    /\ At(t, "lock") /\ LockFree(t) /\ ~IsOpen(th[t].file)
    /\ Finish(t, "fail")
    /\ UNCHANGED <<diskVars, phase, fileVars, keydir, iterating, hintVars, counterVars>>

SeekFull(t) ==
    /\ At(t, "lock") /\ LockFree(t) /\ IsOpen(th[t].file) /\ ~Fits(t)
    /\ locked' = [locked EXCEPT ![th[t].file] = t]
    /\ Goto(t, "rotate")
    /\ UNCHANGED <<diskVars, phase, fd, keydir, iterating, hintVars, wr, counterVars>>

\* The offset lseek returns.
SeekCur(t) == 0
SeekEnd(t) == Len(data[th[t].file])

SeekUnchecked(t) ==
    /\ At(t, "lock") /\ LockFree(t) /\ Fits(t)
    /\ locked' = [locked EXCEPT ![th[t].file] = t]
    /\ th' = [th EXCEPT ![t].pos = IF IsOpen(th[t].file) THEN SeekEnd(t) ELSE 0 - 1,
                        ![t].pc = "write"]
    /\ UNCHANGED <<diskVars, phase, fd, keydir, iterating, hintVars, wr, counterVars>>
SeekOk(t) ==
    /\ At(t, "lock") /\ LockFree(t) /\ IsOpen(th[t].file) /\ Fits(t)
    /\ locked' = [locked EXCEPT ![th[t].file] = t]
    /\ th' = [th EXCEPT ![t].pos = SeekEnd(t), ![t].pc = "write"]
    /\ UNCHANGED <<diskVars, phase, fd, keydir, iterating, hintVars, wr, counterVars>>

\* ccask_files_rotate closes the old file and adds the new one.
RotateKeepsFd == fd' = [fd EXCEPT ![active + 1] = "append"]
SwitchFiles == fd' = [fd EXCEPT ![active] = "closed", ![active + 1] = "append"]

\* Rotation; then the lock is released and the call starts over.  That the hint
\* thread could not be started goes unnoticed.  One step, because this thread holds
\* the lock of the file that it closes (LogLocks): nobody else is in rotation, and
\* who reads files_state.head meanwhile waits for that lock and finds fd closed.
\* Module Rotation has the statements of a rotation, and of one without that lock.
Rotate(t) ==
    /\ At(t, "rotate") /\ active < MaxFiles
    /\ active' = active + 1
    /\ SwitchFiles
    /\ \/ hpc' = [hpc EXCEPT ![active] = "open"]
       \/ MayFail({"thread", "nomem"}) /\ UNCHANGED hpc
    /\ Unlock(t)
    /\ Goto(t, "active")
    /\ UNCHANGED <<data, hint, phase, keydir, iterating, joining, wr, counterVars>>

\* The new file cannot be created; the result is ignored and the call starts over.
RotateFails(t) ==
    /\ MayFail({"open", "nomem"}) /\ At(t, "rotate")
    /\ Unlock(t)
    /\ Goto(t, "active")
    /\ UNCHANGED <<diskVars, phase, fd, keydir, iterating, hintVars, wr, counterVars>>

\* A file that a reader has reopened is open read-only.
Writable(t) == fd[th[t].file] = "append"

\* safe_writev: n more cells reach the end of the file (O_APPEND).
AppendCells(t, n) ==
    data' = [data EXCEPT ![th[t].file] =
                 @ \o Cells(th[t].id, th[t].sent + 1, th[t].sent + n)]

Unsent(t) == Size(th[t].id) - th[t].sent

WritePart(t) ==
    /\ "short" \in Faults /\ At(t, "write") /\ Writable(t)
    /\ \E n \in 1 .. Unsent(t) - 1 :
          /\ AppendCells(t, n)
          /\ th' = [th EXCEPT ![t].sent = @ + n]
    /\ UNCHANGED <<active, hint, phase, fileVars, keydir, iterating, hintVars, wr, counterVars>>

WriteRest(t) ==
    /\ At(t, "write") /\ Writable(t) /\ wr[th[t].id].vsize > 0
    /\ AppendCells(t, Unsent(t))
    /\ Unlock(t)
    /\ Goto(t, "find")
    /\ UNCHANGED <<active, hint, phase, fd, keydir, iterating, hintVars, wr, counterVars>>

\* With an empty value the last iovec has length 0: writev returns 0 for it, the
\* index never moves on, and safe_writev calls writev for ever, lock held.
WriteSpins(t) ==
    /\ At(t, "write") /\ Writable(t) /\ wr[th[t].id].vsize = 0
    /\ AppendCells(t, Unsent(t))
    /\ Goto(t, "spin")
    /\ UNCHANGED <<active, hint, phase, fileVars, keydir, iterating, hintVars, wr, counterVars>>

\* writev fails, after whatever WritePart has written: by a fault, or because the
\* descriptor is read-only.
WriteFails(t) ==
    /\ "write" \in Faults \/ ~Writable(t)
    /\ At(t, "write")
    /\ Unlock(t)
    /\ Finish(t, "fail")
    /\ UNCHANGED <<diskVars, phase, fd, keydir, iterating, hintVars, counterVars>>

\* ccask_keydir_upsert looks the key up under a read lock it gives back ...
Find(t) ==
    /\ At(t, "find")
    /\ th' = [th EXCEPT ![t].node = Len(keydir[wr[th[t].id].key]), ![t].pc = "upsert"]
    /\ UNCHANGED <<diskVars, phase, fileVars, keydir, iterating, hintVars, wr, counterVars>>

\* ... and updates the entry it found, or adds one, under the write lock.
UpsertFirstWins(t) ==
    LET k == wr[th[t].id].key
        e == [file |-> th[t].file, pos |-> th[t].pos, vsize |-> wr[th[t].id].vsize]
    IN  keydir' = IF th[t].node = 0 THEN [keydir EXCEPT ![k] = Append(@, e)] ELSE keydir
SetEntry(t) ==
    LET k == wr[th[t].id].key
        e == [file |-> th[t].file, pos |-> th[t].pos, vsize |-> wr[th[t].id].vsize]
    IN  keydir' = IF th[t].node = 0 THEN [keydir EXCEPT ![k] = Append(@, e)]
                  ELSE [keydir EXCEPT ![k][th[t].node] = e]

Upsert(t) ==
    /\ At(t, "upsert") /\ iterating = {}
    /\ SetEntry(t)
    /\ Finish(t, "ok")
    /\ UNCHANGED <<diskVars, phase, fileVars, iterating, hintVars, counterVars>>

\* No memory for a new entry, five times: the record is on disk but not indexed.
UpsertNoMemory(t) ==
    /\ "nomem" \in Faults
    /\ At(t, "upsert") /\ iterating = {} /\ th[t].node = 0
    /\ Finish(t, "fail")
    /\ UNCHANGED <<diskVars, phase, fileVars, keydir, iterating, hintVars, counterVars>>

-----------------------------------------------------------------------------
(* ccask_list_keys and ccask_keys_iter_close *)

ListKeys(c) ==
    /\ phase = "up" /\ At(c, "idle") /\ c \notin iterating
    /\ Cardinality(iterating) < MaxIterators
    /\ iterating' = iterating \cup {c}
    /\ UNCHANGED <<diskVars, phase, fileVars, keydir, hintVars, th, wr, counterVars>>

IterClose(c) ==
    /\ c \in iterating
    /\ iterating' = iterating \ {c}
    /\ UNCHANGED <<diskVars, phase, fileVars, keydir, hintVars, th, wr, counterVars>>

-----------------------------------------------------------------------------
(* hintfile_generator_thread *)

hintUnchanged == <<data, active, phase, fileVars, keydir, iterating, joining, th, wr, counterVars>>

HintTo(f, label) == hpc' = [hpc EXCEPT ![f] = label]

HintOpen(f) ==
    /\ phase # "off" /\ hpc[f] = "open"
    /\ hint' = [hint EXCEPT ![f] = <<>>]
    /\ HintTo(f, "scan")
    /\ UNCHANGED hintUnchanged

\* Either the hintfile cannot be opened, or it has been created and the datafile
\* cannot be opened: then the empty hintfile stays.
HintOpenFails(f) ==
    /\ "open" \in Faults /\ phase # "off" /\ hpc[f] = "open"
    /\ \/ UNCHANGED hint
       \/ hint' = [hint EXCEPT ![f] = <<>>]
    /\ HintTo(f, "failed")
    /\ UNCHANGED hintUnchanged

HintWrite(f) ==
    /\ phase # "off" /\ hpc[f] = "scan"
    /\ Len(hint[f]) < Len(Scan(data[f]))
    /\ hint' = [hint EXCEPT ![f] = Append(@, Scan(data[f])[Len(@) + 1])]
    /\ UNCHANGED <<hpc, hintUnchanged>>

\* A hint record cannot be made or written: the unfinished hintfile is deleted, or
\* stays when that fails too.
HintFails(f) ==
    /\ MayFail({"write", "nomem"}) /\ phase # "off" /\ hpc[f] = "scan"
    /\ Len(hint[f]) < Len(Scan(data[f]))
    /\ \/ hint' = [hint EXCEPT ![f] = NoHint]
       \/ "unlink" \in Faults /\ UNCHANGED hint
    /\ HintTo(f, "failed")
    /\ UNCHANGED hintUnchanged

ScanEndsEarly(f) == Len(hint[f]) + 1 >= Len(Scan(data[f]))
ScanEnded(f) == Len(hint[f]) = Len(Scan(data[f]))

HintDone(f) ==
    /\ phase # "off" /\ hpc[f] = "scan" /\ ScanEnded(f)
    /\ HintTo(f, "done")
    /\ UNCHANGED <<hint, hintUnchanged>>

\* The loop does not tell a record it cannot read from the end of the datafile: the
\* hintfile counts as complete without the records from there on.
HintReadFails(f) ==
    /\ "read" \in Faults /\ phase # "off" /\ hpc[f] = "scan" /\ ~ScanEnded(f)
    /\ HintTo(f, "done")
    /\ UNCHANGED <<hint, hintUnchanged>>

-----------------------------------------------------------------------------
(* ccask_shutdown, a crash, and ccask_init *)

HintRunning(f) == hpc[f] \in {"open", "scan"}

\* The application calls ccask_shutdown when its own calls have returned.
ShutdownBegin ==
    /\ phase = "up" /\ shutdowns < MaxShutdowns
    /\ iterating = {} /\ \A c \in Callers : At(c, "idle")
    /\ phase' = "join"
    /\ joining' = {f \in FileId : HintRunning(f)}
    /\ shutdowns' = shutdowns + 1
    /\ UNCHANGED <<diskVars, fileVars, keydir, iterating, hpc, th, wr, crashes>>

\* ccask_hintfile_generator_shutdown waits for the threads it found in its list.
JoinHints ==
    /\ phase = "join" /\ \A f \in joining : ~HintRunning(f)
    /\ phase' = "drain"
    /\ UNCHANGED <<diskVars, fileVars, keydir, iterating, hintVars, th, wr, counterVars>>

Forget ==
    /\ fd' = [f \in FileId |-> "closed"]
    /\ keydir' = [k \in Keys |-> <<>>]

\* ccask_writer_stop, ccask_keydir_shutdown and ccask_files_shutdown.
StopWriter ==
    /\ phase = "drain" /\ \A t \in Threads : At(t, "idle")
    /\ phase' = "down"
    /\ Forget
    /\ UNCHANGED <<diskVars, locked, iterating, hintVars, th, wr, counterVars>>

\* The process is gone, with every thread; only the disk is left.
PowerOff ==
    /\ phase' = "off"
    /\ Forget
    /\ locked' = [f \in FileId |-> NoThread]
    /\ iterating' = {}
    /\ hpc' = [f \in FileId |-> "none"] /\ joining' = {}
    /\ th' = [t \in Threads |-> Idle]
    /\ UNCHANGED <<diskVars, wr>>

Exit  == phase = "down" /\ PowerOff /\ UNCHANGED counterVars

Crash ==
    /\ phase \in {"up", "join", "drain"} /\ crashes < MaxCrashes
    /\ crashes' = crashes + 1
    /\ PowerOff
    /\ UNCHANGED shutdowns

\* ccask_files_init: the newest datafile stays the active one unless it has a hint.
ActiveAfterInit == IF hint[active] # NoHint THEN active + 1 ELSE active

Restart ==
    /\ phase = "off" /\ ActiveAfterInit \in FileId
    /\ phase' = "up"
    /\ active' = ActiveAfterInit
    /\ fd' = OpenOnly(ActiveAfterInit)
    /\ keydir' = [k \in Keys |-> Recovered(k)]
    /\ UNCHANGED <<data, hint, locked, iterating, hintVars, th, wr, counterVars>>

-----------------------------------------------------------------------------
SeekStep(t) == SeekFails(t) \/ SeekFull(t) \/ SeekOk(t)
WriteStep(t) == WriteRest(t) \/ WriteSpins(t) \/ WriteFails(t) \/ WritePart(t)
UpsertStep(t) == Upsert(t) \/ UpsertNoMemory(t)
RotateStep(t) == Rotate(t) \/ RotateFails(t)
HintStep(f) ==
    \/ HintOpen(f) \/ HintOpenFails(f) \/ HintWrite(f) \/ HintFails(f)
    \/ HintDone(f) \/ HintReadFails(f)

ThreadStep(t) ==
    \/ GetActiveFile(t) \/ SeekStep(t) \/ RotateStep(t)
    \/ WriteStep(t) \/ Find(t) \/ UpsertStep(t)

Next ==
    \/ \E t \in Threads : ThreadStep(t) \/ \E k \in Keys, v \in ValueSizes : Begin(t, k, v)
    \/ \E c \in Callers : ListKeys(c) \/ IterClose(c)
    \/ \E f \in FileId : HintStep(f)
    \/ ShutdownBegin \/ JoinHints \/ StopWriter \/ Exit
    \/ Crash \/ Restart

SafeSpec == Init /\ [][Next]_vars

(***************************************************************************)
(* A thread that can take a step takes one; one that waits for a lock gets *)
(* it if it is free again and again; an application closes its iterators.  *)
(* Nobody has to call anything, and crashes and faults need not happen.    *)
(***************************************************************************)
Fairness ==
    /\ \A t \in Threads : /\ WF_vars(GetActiveFile(t)) /\ SF_vars(SeekStep(t))
                          /\ WF_vars(Rotate(t)) /\ WF_vars(WriteStep(t))
                          /\ WF_vars(Find(t)) /\ SF_vars(Upsert(t))
    /\ \A c \in Callers : WF_vars(IterClose(c))
    /\ \A f \in FileId : WF_vars(HintStep(f))
    /\ WF_vars(JoinHints) /\ WF_vars(StopWriter)

Spec == SafeSpec /\ Fairness

-----------------------------------------------------------------------------
(* Properties *)

Cell   == [id : 1 .. MaxWrites, part : Nat]
Entry  == [file : FileId, pos : Nat, vsize : Nat]
HintRecord == [key : Keys \cup {NoKey}, pos : Nat, vsize : Nat]
Thread == [pc : {"idle", "active", "lock", "rotate", "write", "spin", "find", "upsert"},
           id : 0 .. MaxWrites, file : FileId, pos : Nat, sent : Nat, node : Nat]
Call   == [key : Keys, vsize : ValueSizes, status : {"pending", "ok", "fail"}]

\* Every variable holds a value of its type.
TypeOK ==
    /\ data \in [FileId -> Seq(Cell)] /\ active \in FileId
    /\ \A f \in FileId : hint[f] = NoHint \/ hint[f] \in Seq(HintRecord)
    /\ phase \in {"up", "join", "drain", "down", "off"}
    /\ fd \in [FileId -> {"closed", "append", "read"}] /\ locked \in [FileId -> Threads \cup {NoThread}]
    /\ keydir \in [Keys -> Seq(Entry)] /\ iterating \subseteq Callers
    /\ hpc \in [FileId -> {"none", "open", "scan", "done", "failed"}] /\ joining \subseteq FileId
    /\ th \in [Threads -> Thread]
    /\ wr \in Seq(Call) /\ Len(wr) <= MaxWrites
    /\ crashes \in 0 .. MaxCrashes /\ shutdowns \in 0 .. MaxShutdowns

\* Between its lseek and its unlock.
InFile(t) == th[t].pc \in {"rotate", "write", "spin"}

\* Only the active file is open for append; a thread that is appending to a file
\* or rotating it holds its lock, and the file is the active one; nobody writes
\* once the store is down (writer.c, files.c rotate).
LogLocks ==
    /\ \A f \in FileId : fd[f] = "append" => f = active
    /\ \A t \in Threads : InFile(t) => locked[th[t].file] = t /\ th[t].file = active
    /\ phase \in {"down", "off"} => \A t \in Threads : th[t].pc = "idle"

\* An entry e of key k leads to a whole record of k of the size the entry states:
\* what ccask_get reads through it is a record of its own key that passes the CRC.
LeadsToRecord(k, e) ==
    \E id \in 1 .. Len(wr) : /\ wr[id].key = k /\ wr[id].vsize = e.vsize
                            /\ Whole(e.file, e.pos, id)

\* The index never dangles: every entry leads to a whole record of its key, and a
\* thread that is about to index its record has it whole where lseek said the
\* file ended (writer.c lseek and safe_writev under the file's lock, keydir_recover).
KeydirSound ==
    /\ \A k \in Keys : \A n \in DOMAIN keydir[k] : LeadsToRecord(k, keydir[k][n])
    /\ \A t \in Threads : th[t].pc \in {"find", "upsert"} =>
                             Whole(th[t].file, th[t].pos, th[t].id)

Running == phase \in {"up", "join", "drain"}

\* The entry ccask_keydir_find finds.
Found(k) == keydir[k][Len(keydir[k])]

\* No write that returned CCASK_OK is lost or superseded by an older one: while
\* the store runs, also after restarts, looking its key up leads to a whole
\* record of the key that is not before it in the log (upsert, keydir_recover).
NoLostWrite ==
    Running =>
        \A id \in 1 .. Len(wr) : wr[id].status = "ok" =>
            LET k == wr[id].key IN
            /\ keydir[k] # <<>>
            /\ LeadsToRecord(k, Found(k))
            /\ \A f \in 0 .. active : \A p \in 0 .. Len(data[f]) :
                  Whole(f, p, id) => \/ Found(k).file > f
                                     \/ Found(k).file = f /\ Found(k).pos >= p

\* Every hintfile says what its datafile says, or is still being written.
HintsComplete == \A f \in FileId : hint[f] = NoHint \/ HintRunning(f) \/ hint[f] = Scan(data[f])

\* Nothing has been written behind a torn record.
TornLast ==
    \A f \in FileId : \A i, j \in DOMAIN data[f] :
        i < j /\ data[f][i].part = 1 /\ data[f][j].part = 1 => Whole(f, i - 1, data[f][i].id)

\* Only a second restart reads what was written behind a torn record after the first.
NotReadBack == crashes + shutdowns <= 1

\* Recovery finds everything: after a crash anywhere in a write or a rotation, and
\* after an orderly shutdown, the index is sound and has every write that returned
\* CCASK_OK, unless a crash has cut a hintfile short or the log has been read
\* across a torn record (keydir_recover, ccask_files_init).
RecoverySound == HintsComplete /\ (TornLast \/ NotReadBack) => KeydirSound /\ NoLostWrite

\* A call of ccask_write_record_blocking that begins returns, also when it waits for
\* the iterators and the writes of other threads; unless iterators overlap for ever
\* (a read lock is given while a writer waits).
WriteReturns ==
    []<>(iterating = {}) => \A t \in Threads : th[t].pc # "idle" ~> th[t].pc = "idle"

\* Storage is append-only, and a datafile that has been rotated away never changes
\* again: hint threads and readers use it without taking its lock.
FilesAppendOnly ==
    [][\A f \in FileId : /\ Len(data[f]) <= Len(data'[f])
                         /\ \A i \in 1 .. Len(data[f]) : data'[f][i] = data[f][i]
                         /\ f < active => data'[f] = data[f]]_vars

\* A finished hintfile says of its datafile exactly what a scan of it would say, so
\* that recover_hintfile and recover_datafile agree.
HintMatchesData == \A f \in FileId : hpc[f] = "done" => hint[f] = Scan(data[f])

\* When nobody is writing and no hint thread is running, restarting would rebuild
\* exactly the index that is in memory (keydir_recover against upsert), with the
\* same exception.
RestartPreservesIndex ==
    /\ HintsComplete /\ TornLast
    /\ phase = "up" /\ \A t \in Threads : At(t, "idle")
    /\ \A f \in FileId : ~HintRunning(f)
    => \A k \in Keys : Recovered(k) = keydir[k]

\* Without a fault of the system no write fails: a rotation by another thread makes
\* the call continue on the new file.  With two threads the code does not have this:
\* the active file is read before its lock is taken, and lseek fails on a closed one.
NoSpuriousFailure == Faults = {} => \A id \in 1 .. Len(wr) : wr[id].status # "fail"
=============================================================================
