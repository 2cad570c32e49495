# A TLA+ verification of ccask

ccask is an embedded key/value store in C after Bitcask: an append-only log in
numbered datafiles, an in-memory index (the *keydir*), hintfiles to rebuild the
index quickly, a writer thread behind a ring buffer for asynchronous puts, and
blocking puts on the caller's own thread. This directory models the write path,
the read path, compaction, shutdown and recovery of that system, checks the models with
TLC on small instances and proves the central properties with TLAPS for all instances.

## 1. The system

| part | state | operations | talks to |
|---|---|---|---|
| core (`core.c`) | `is_shutting_down` | init, shutdown, get, put, put_blocking, delete, key iterators | everything |
| writer_ringbuf (`writer_ringbuf.c`) | slots, head, tail, shutdown flag, mutex, condition | push, pop, start_shutdown, destroy, count | core pushes, writer pops |
| writer (`writer.c`) | its thread | write_record_blocking, the thread's loop, start, stop | files, keydir, ring buffer |
| files (`files.c`) | list and hash of files, descriptors, a rwlock per file, rotation threshold | init (directory scan), rotate, open, delete, rename, shutdown | hint (on rotation) |
| keydir (`keydir.c`) | hash table and its rwlock | find, upsert, delete (never called), recovery, iteration | iterator, files |
| hint (`hint.c`) | list of generator threads | generate, join at shutdown | iterator, files |
| iterator, records, utils | (none kept) | scan a datafile or hintfile, build a record, `safe_*` I/O loops | the disk |
| reader (`reader.c`) | descriptors reopened for reading, an invalidator thread per file | read a record, close idle descriptors | files |
| compactor (`compactor.c`) | temporary files | copy the live records, delete and rename | keydir, reader, files |

What is hard here: any number of application threads call `ccask_put_blocking` while
the writer thread runs, and all of them rotate files and update the index; the
active file is read without a lock and locked afterwards; the index is updated after
the file's lock is released; a get reads an index entry after its lock is released;
descriptors are reopened by readers and closed by invalidators beside all of it, and
hint threads run; compaction replaces every file; shutdown races with puts that have
passed its check; a crash can hit between any two system calls; and
`malloc`, `open`, `writev`, `pthread_create` may fail in the middle of a step of
several. `PROJECT.json` lists these hazards at their lines.

What makes the parts correct:

* ring buffer: first in, first out, nothing lost or overwritten, the writer is woken
  whenever there is work, shutdown drains before it closes, nobody uses it once freed;
* write path: a record is appended whole where its index entry says, writers do not
  meet in a file, rotated files never change, a call returns;
* keydir: an entry leads to a whole record of its key, and to the latest one;
* hint and recovery: a hintfile says what its datafile says; after a restart the index
  is what it was; nothing acknowledged is lost;
* reader: a get returns the latest value of its key; a file has at most one descriptor
  and one invalidator, and an idle descriptor is closed;
* compactor: at every moment either the datafiles or the temporary files hold every
  value, and puts go on afterwards;
* I/O loops: each byte moves once, in order, at its own position, and OK means all.

## 2. Modules

| module | models |
|---|---|
| `WriterQueue` | abstract: a bounded FIFO queue that drains before it closes |
| `WriterRingbuf` | `writer_ringbuf.c`, `ccask_put`, the writer's loop, `ccask_shutdown` |
| `Store` | `ccask_write_record_blocking`, rotation, hint threads, keydir, shutdown, crash, `ccask_init` |
| `Reader` | extends `Store`: `ccask_get`, `reader.c`, the invalidator threads |
| `Rotation` | `ccask_files_rotate` statement by statement with descriptor numbers, beside writers, a reader, invalidators and hint threads |
| `FileList` | the linked list of datafiles, as operators |
| `Compactor` | extends `FileList`: `compactor.c`, deleting and renaming files, recovery of what is left |
| `SafeIO` | the `safe_*` loops of `utils.c`, byte by byte |
| `MCWriterRingbuf`, `MCStore`, `MCReader`, `MCRotation`, `MCCompactor`, `MCSafeIO` | instances for TLC |
| `WriterRingbufProofs`, `SafeIOProofs` | theorems about the ring buffer and the I/O loops |
| `StoreProofs` | theorems about locks and the append-only log of `Store`; what a thread inside `ccask_write_record_blocking` relies on, for `Store` and `Reader` |
| `ScanProofs` | lemmas about `Scan`, the recursive function that reads a datafile back |
| `RecoveryProofs` | extends the last two: theorems about `Store` with hints, crashes and recovery |
| `ReaderProofs` | theorems about `Reader`: types, descriptors, the index; what a get returns |
| `FileListProofs` | what `AddFile`, `ListOf` and `OldestFirst` make of any set of files in any order |
| `CompactorProofs` | extends it: theorems about `Compactor` |

### WriterRingbuf

`buf`, `head`, `tail`, `shutdown`, `mutex` are the fields of `ccask_writer_ringbuf_t`.
A producer's `ppc` says where it is in `ccask_put`: `idle`, `lock` (before
`pthread_mutex_lock`), `push` (lock held), `stored` (record built in the slot, `head`
not yet moved). The writer's `wpc` is `lock`, `pop`, `wait` (in `pthread_cond_wait`),
`copied` (record copied, `tail` not yet moved), `write` (in
`ccask_write_record_blocking`, opaque here), `stuck` (it never returns) or `exited`. A
write ends by `WriteDone`, or not at all by `WriteHangs`: a delete spins in `safe_writev`,
and a record larger than a file rotates for ever. `cpc` follows
`ccask_shutdown`. `accepted` and `taken` are history.

Push is `PushLock`, then one of `PushFull` (unlock, `CCASK_RETRY`, up to five attempts
as `CCASK_ATTEMPT` makes them), `PushNoMemory` (returns with the mutex held, as the
code does) or `PushStore` and `PushAdvance`. Pop is `PopLock`, then `PopWait`, `PopExit`
or `PopCopy` and `PopAdvance`. The critical sections are split so that the mutex
matters: with `Acquire` weakened, the invariants fail. `pthread_cond_wait` releases and
blocks in one step, may wake spuriously, and takes the mutex again by `PopLock`.

`AppQuiesces` is what the application promises: TRUE if `ccask_shutdown` is called only
when no put is in flight. The code itself does not ensure it.

### Store

A datafile is a sequence of cells; a record with an *n*-cell value is *n* + 2 cells:
header, key, value. A cell says which call wrote it and which part of the record it
is, so that torn, interleaved and misparsed records can be told apart without bytes.
An empty value is a delete. Left out of the data: bytes, CRCs, timestamps; a header
read where no header is makes the scan stop (in the code: sizes made of arbitrary
bytes, for which the read or the allocation fails).

| state | in the code |
|---|---|
| `data`, `active`, `hint` | `<id>.data`, the highest ID, `<id>.hint` |
| `fd`, `locked` | `file->fd` (closed, open for append, or open read-only by a reader), `file->rwlock` |
| `keydir`, `iterating` | `hash_table` (a key may have several nodes: `HASH_FIND` finds the last added), readers of `hash_table_lock` |
| `hpc`, `joining` | hint threads, the ones shutdown waits for |
| `th` | each thread inside `ccask_write_record_blocking` |
| `wr` | history of the calls |

The steps of a write are those between which another thread can come:
`GetActiveFile` (no lock), `SeekFails`/`SeekFull`/`SeekOk` (lock and lseek),
`Rotate`/`RotateFails`, `WritePart`/`WriteRest`/`WriteFails`/`WriteSpins` (safe_writev; the
lock is released at the end), `Find` (read lock), `Upsert`/`UpsertNoMemory` (write lock). A hint
thread is `HintOpen`, `HintWrite` per record, `HintDone`, with its failures. Shutdown is
`ShutdownBegin`, `JoinHints`, `StopWriter`, `Exit`: hint threads are joined before the
writer drains, as in the code. `Crash` can happen anywhere, and `Restart` is
`ccask_files_init` with `ccask_keydir_init`.

Taken as one step: rotation, and recovery (no other thread exists). In this module the
caller of a rotation holds the lock of the file that rotation closes (`LogLocks`, proved
in `StoreProofs`), so no other thread writes there, or rotates, before the new file is
published; and a descriptor closed by it is not used again, since `file->fd` is -1 when
the lock is released. Two things of rotation are not covered by that: a caller without
the lock, which needs a reader, and the look at `head->next` for the hint thread after
the new file is published, when another writer may rotate again. `Rotation` has both. So
`Rotate` here starts the hint thread of the file it closed, and what is said of
hintfiles is said for one writer. That a short write leaves a prefix of the record is
what `SafeIO` proves of `safe_writev`. Left out here: reads (see `Reader`), the queue in
front of the writer (it may begin a write at any time), failures of memory and disk
during recovery, a second `ccask_init` in one process, and loss of written data by the
operating system (ccask never calls fsync; a crash here is a crash of the process).

### Reader

`Reader` composes `ccask_get` with the write path of `Store`: its next-state relation
has the store's steps (`BeginPut`, `PutStep`, `OpenIter`, `CloseIter`) beside the readers'
and the invalidators'. `rd[r].pc` is where a get is: `want` (found the entry, about to
size its buffers), `args` (reading `file_id` and `record_pos`, in either order, the entry no
longer locked), `check` (the look at the descriptor under the read lock), `reopen` (the
second look, the open and the start of an invalidator under the write lock), `read` (the
record, and its CRC), `room`, `copy`, `size` (the three later uses of the entry's
`value_size`), `done`. `inv[f]` is the file's invalidator: it decides without the lock
(`InvalidatorTest`), then closes under it (`InvalidatorClose`). `reopened` counts the
descriptors opened and not closed.

A record is read as the store's cells: the CRC matches if a whole record lies there
and its value fits the buffer; the code does not compare the key, and neither does the
model. Time is left out: whether a file was left alone for `FD_INVALIDATE_DURATION`
depends on scheduling only, so the invalidator may find so at any moment.
`AppSerialises` is what the application promises: TRUE if it lets no other call of a key
overlap a write of it. Not composed: hint threads, which only read, and shutdown, crash
and restart.

In this composition a writer that comes late to a file which a reader has reopened finds
a valid read-only descriptor. It fails in `writev`, or finds the file full and is about
to rotate: the *current* head, whose lock it does not hold. There the one-step `Rotate`
of `Store` and its descriptors without numbers say nothing about the code any more, so a
behaviour of `Reader` ends in that state: every action has the guard `HeadLocked`. What
is claimed here (`KeydirSound`, `GetLatest`, `NoCorruptRead`, `DescriptorsOwned`) is
claimed up to and in that state; with a sole writer it is never reached
(`SoleWriterHoldsHead`, proved). Also left out is the moment within a rotation when the
list has the new file and the hash table does not: a get of a record that another writer
has put there already would fail with `CCASK_ERR_NO_SUCH_DATAFILE`.

### Rotation

The same threads where locks do not help. `node` holds the `ccask_file_t`s with their
lock, descriptor number and `is_active`, `list` the nodes from `files_state.head` on,
`table` what is open on each number: `open` gives the lowest free one. A writer reads
`file->fd` in one step (`Lock`, `Seek`) and uses the number in the next (`Seek`,
`Write`), so that a number closed in between means another file or none. Rotation is
`Create`, `CloseHead`, `ClearHead`, `Add`, `StartHint`; two threads in it may
interleave, give one ID to two nodes (`Linked` follows what `add_file_to_linked_list`
then does to the list as seen from its head), and close each other's files. The reader
reopens (`Reopen`, its first and second look at the descriptor in one step, which
`Reader` has in detail), reads the number under the lock (`ReadLock`) and uses it
(`Read`); `Invalidate` closes under the lock, and hint threads open, read and close
numbers of their own. A write is one record; keys, short writes and crashes are in
`Store`. `late` remembers that a rotation began without the lock of the head.
`InTimeSpec` has the behaviours up to there, `RotationSpec` all.

### FileList and Compactor

A list is a record of `head`, `tail` and the pointers `next` and `previous` by file ID;
`AddFile` follows `add_file_to_linked_list` case by case, `ListOf` adds the files of a
directory in the order read, `OldestFirst` walks from the tail. `Sorted` is the
reference.

In `Compactor` records have one size; `data`, `hint` and `temp` are the files on disk by
ID. A put is `PutAppend` (with its rotation; the write may fail, leaving nothing or a
torn record) and `PutIndex` or `PutNoMemory` (no memory for a new entry). A hint thread
is `HintOpen` (with its two ways to fail: no hintfile, or an empty one), `HintWrite` per
record, `HintFails` (the hintfile is deleted, or cannot be) and `HintDone` (the end, or
a reading error taken for it). `ccask_compactor_dump_keydir` is `Begin`, `Copy` per key
(in any order, as the hash table has it), `CopyDone` (the lock is released),
`DeleteData` and `DeleteHint` per file, `DeleteDone`, `Rename` per temporary file,
`RenameDone`; and its failures `BeginFails`, `CopyNoMemory` (returns with the lock
held), `CopyFails` with `Cancel` (lock held too), a failed unlink, a failed rename.
`kdlock` counts how often the shared lock is held, since a second compaction may begin
after one that failed with the lock held. `End` may come between any two steps; it may
leave a torn record of a put in `writev`, and the hintfiles of running threads as they
are. `Restart` is `ccask_files_init`, the directory in any order, with recovery.

History variables name the exceptions of the properties, and section 3 says what happens
in them: `overlap` (a put or a hint thread ran beside a compaction), `dirty` (a
compaction began with temporary files of an earlier one), `cut` (the replacement did not
complete) and `damaged` (a hintfile was left incomplete by a failing thread or a crash, or a
record was put behind a torn one).

### SafeIO

One state machine for the five loops. The caller's bytes are numbered; `bound` is the
layout of its buffers, `base` and `len` the local vector the loop cuts down, `idx`
`current_iov_idx`, `n` the result of the system call while the inner loop accounts for
it. The kernel (`Byte`, `NextBuffer`) moves one byte after the other from the vector it was
given, and may return after any (`Some`), be interrupted or fail before the first, or
return zero. `moved` remembers which byte went to or came from which file position.

## 3. Runs

| run | result | shows |
|---|---|---|
| `ringbuf` | pass | with malloc failures: `TypeOK`, the inductive invariant `BufferInv`, `FifoDelivery`, `NoLostWakeup`, `NoUseAfterFree`, `RefinesQueue`; and, unless a push has leaked the mutex or a write hangs, `ServesQueue` (the queue's fairness), `AcceptedIsTaken`, `ShutdownCompletes`; and, unless a push has leaked the mutex, `PutReturns` |
| `store_writers` | pass | two threads, every fault: `TypeOK`, `LogLocks`, `KeydirSound`, `FilesAppendOnly` |
| `store_restart` | pass | short writes, rotation, hints, a crash anywhere and an orderly restart: `RecoverySound`, `RestartPreservesIndex`, `HintMatchesData` |
| `reads` | pass | gets of two readers beside two writing threads, reopened files and late writers, up to a rotation without the lock of the head: `ReaderTypeOK`, `DescriptorsOwned`, `KeydirSound`, `GetLatest`, `NoCorruptRead` |
| `live` | pass | two writing threads with iterators, a reader, invalidators: `WriteReturns`, `GetReturns`, `IdleClosed` |
| `rotation` | pass | two writers, a reader, invalidators, hint threads and reused descriptor numbers, up to the same point: `NumbersMeanFiles`, `IndexLeadsHomeInTime`, `HeadWritable` |
| `compact` | pass | two compactions, puts, hint threads, all failures, the end of the process anywhere: `CompactorTypeOK`, `ListSorted`, `StoreSurvives`, `TempsHoldStore`, `PutsContinue`, `CompactionEnds` |
| `safe_io` | pass | all layouts of up to three buffers: `SafeIOTypeOK`, `PrefixMoved`, `OkMeansAll`, `EofMeansShort`, `Returns` |
| `store_delete_hangs` | violation | a delete never returns from `safe_writev` and keeps the file's lock |
| `store_stale_index` | violation | two writers of a key leave the index at the older record |
| `store_hint_crash` | violation | a crash during hint generation loses acknowledged writes |
| `read_torn` | violation | a put between the two reads of an index entry makes a get return another key's value |

The passing runs exclude what the violating ones show by their constants, or by an
antecedent that names it (`HintsComplete`, `TornLast`, `MutexLeaked`, `WriterStuck`,
`HeadLocked` and `late`, `damaged` and the other flags of `Compactor`, `LockLeaked`,
`LastEmpty`): one writer where two would leave a stale index, no value of size 0 where a
call must return, no overlapping write of the key where a get must find the latest.
`WriteReturns` excepts iterators that overlap for ever: `[]<>(iterating = {})`, because
`pthread_rwlock_rdlock` prefers readers and an upsert needs the lock alone. They say
where the code is right.

Bounds. Ring buffer: three slots and four puts by two producers fill the buffer, wrap
both indices and let a producer fail all five attempts; two kinds of records make
reordering visible. Store: a file of five to seven cells takes one or two records, so
three or four writes rotate up to twice; three files give recovery an old, a middle and
an active file; two value sizes make an offset error visible; `MaxWrites`, `MaxFiles`,
`MaxCrashes`, `MaxShutdowns` and `MaxIterators` bound calls, IDs, failures and open
iterators. `reads`: three keys and two gets let a get of one key run across the rotation
caused by the others and meet a late writer on the reopened file; two readers contend for
one descriptor, and one rotation is enough for both. `live`: two threads, so that one can
wait for the other's write, its rotation or its iterator; two gets start an invalidator
twice. `rotation`: a file takes one record, so that every write but the first finds a full
file; three files and four writes let two threads rotate one after the other, with a hint
thread for each, while the reader reopens the oldest; two threads are what an unlocked
rotation needs. `compact`: a file takes one record, so two keys give two temporary files, a
rotation and a hintfile; the second compaction finds what the first left, after a restart
or after a failure in the same process (a complete one asks for a restart first). `safe_io`:
three buffers as in a record; six bytes cut at every place. Keys, readers or threads are
symmetric in the runs that declare it, none of which checks liveness.

Deadlock is not checked: in every run the system may stop, because the application makes
no more calls or because the mutex has been leaked.

Fairness. A thread that can run does (weak fairness of its steps; in `WriterRingbuf` the
write the writer thread is in either ends or hangs for good, and which of the two is
left open); a thread that waits for a mutex or rwlock gets it if it is free again and
again (strong fairness of the lock steps; in `Reader` of all steps of a thread), which
the schedulers ccask runs on provide; an application closes its iterators, as
`core.h:133` requires; an invalidator finds its file left alone at some time if it looks
for ever; a system call made again and again is not interrupted every time. Nothing is
assumed of the application's calls, of spurious wakeups, faults or crashes, or that
anybody restarts a compaction.

Further behaviour met while modelling and described here only:

* a failed malloc inside `ccask_writer_ringbuf_push` (`writer_ringbuf.c:121`) returns
  with the mutex locked, and every later put, the writer and shutdown block, although
  `core.h:82` calls put non-blocking (`PutReturns` without its antecedent is violated);
* a put that passed its check before `ccask_shutdown` began can be accepted after the
  writer's exit test and is never written (`AcceptedIsTaken` with `AppQuiesces` FALSE);
* an append behind a torn record is misparsed by the recovery after next; a reading
  error in the generator or in recovery counts as the end of the file; a tombstone ends
  every scan of its file, because `safe_preadv` takes the empty value for the end; a
  record larger than the threshold makes a call rotate for ever; two first writes of a
  key may leave two entries;
* a rotation while the writer drains starts a hint thread nobody joins; invalidators are
  detached and never joined: both may use file nodes that shutdown has freed;
* a write that chose the active file before another thread rotated it finds the
  descriptor closed, and fails (`writer.c:33`), where the repository's README (line 267)
  says that rotation will "Signal `writer` to continue on the new file": `NoSpuriousFailure`
  of `Store` is violated with two threads and no fault;
* a rotation without the lock of the head (`files.c:408-419`): a descriptor is closed under
  a writer that holds the head's lock, its number goes to the next file that is opened, and
  a write that returned CCASK_OK has no record where it was indexed (`IndexLeadsHome` of
  `Rotation` is violated under `RotationSpec`, with three writes and one read); both threads may
  also create the same ID, after which the list and the hash table disagree;
* `files_state.head->next` is looked at after the new file has been published
  (`files.c:419`): if that one is rotated in between, one segment gets two hint threads and
  another none (`SegmentsGetHints` is violated under `RotationSpec`, with four writes);
* a hint thread that fails after it created the hintfile (`hint.c:69`, or a failed
  delete at `hint.c:106`) leaves it with `has_hint` false: a restart reads it instead of
  the datafile, and a compaction does not delete it (`compactor.c:95`), so that it hides
  the compacted datafile of its ID. An index recovered from such a file lacks keys, and
  a compaction then deletes their only records (`StoreSurvives` and `TempsHoldStore`
  without `damaged` are violated);
* a get can fail with a closed descriptor although the record is there (`reader.c:95`),
  when a rotation or the invalidator closes the file between its two looks; and an
  `HASH_FIND` for a file runs without a lock beside the `HASH_ADD` of a rotation;
* compaction: a put that overlaps it updates the index only after the copy, so its
  record is not copied and is deleted with its file; afterwards the index still holds
  the old positions, so the process has to restart; the active file's descriptor is one
  of an unlinked file; after a crash between the first deletion and the last rename the
  next start finds no datafile, or some; leftover temporary files grow and bring old
  values back; a failed rename is logged and CCASK_OK returned; both error paths keep
  the key directory's lock.

## 4. Proofs

Assumptions are the named `ASSUME`s of the modules: a capacity of at least one,
distinct names, bounds that are numbers. TLC evaluates them in every run.

`WriterRingbufProofs`. `BufferInv` is the inductive invariant: types; `MutualExclusion`
(who is between lock and unlock owns the mutex); `SlotsStable` (what a thread saw under
the mutex still holds when it acts on it); and `SlotsInOrder`, which restates
`FifoDelivery` slot by slot. `FifoDelivery` alone is not inductive: that a push does not
overwrite a record needs that the buffer is still not full when `head` moves, that is,
mutual exclusion; and even the types need the order, since a popped slot holds a record
only because it lies between `tail` and `head`. The slot arithmetic is in five lemmas
(`NextSlotCases` removes the remainder operator). From it: `TypeCorrect`,
`DeliveryInOrder`, `WakeupsNotLost`. With `AppQuiesces`, `DrainInv` follows what shutdown
has done so far and gives `FreedBufferUnused`; both invariants give
`RingbufRefinesQueue`: `PushAdvance` is an enqueue, `PopAdvance` a dequeue, `PopExit` the
close of an empty queue, everything else a stutter.

`StoreProofs`. `LogInv` joins the types of the log with `LogLocks`: only the active file
is open for append; a thread that appends or rotates holds that file's lock. It is what
saves a thread that took a file for the active one before a rotation: it finds the
descriptor closed and fails, instead of appending to a rotated file. `WritersExcluded`
and `AppendOnly` hold for every choice of faults and crashes, in the store without
readers (see `Reader` above for what readers change).

Its second part is about the write path. `WriteInv` is what a thread inside
`ccask_write_record_blocking` relies on: every cell on disk is of a call there was; a
thread between lseek and unlock holds its file's lock; while it is in `safe_writev`,
what it has sent is the beginning of its record and the end of the file, from the offset
lseek gave; from then to the upsert its record is whole there. `KeydirSound` alone is
not inductive: that the record is whole where the entry will point needs `Sending` in
the middle of a short write, and that needs the lock. The invariant follows from the
threads' steps alone, without `LogLocks`, so that it serves `Store` and `Reader`, in
which `LogLocks` fails. `IndexLeads` carries the entries.

`SafeIOProofs`. `SafeIOInv` joins the types with `BuffersInv` (buffers behind the current
one are untouched, and the current one is never used up unless it was empty from the
start), `CursorInv` (`total` is the number of the current buffer's next byte once `n` is
accounted for, and the kernel's cursor is `n` further) and `FileInv` (`PrefixMoved` and the
descriptor's own position). `PrefixMoved` alone is not inductive: that the next byte is the
right one needs the cursor, and that the next buffer continues where the last one ended
needs `BuffersInv`. `EofMeansShort` rests on the second half of `BuffersInv`: a zero count
before the end of the file can only come from buffers that were empty from the start,
which are then the last ones. `SafeIOMovesPrefix`, `SafeIOOkMeansAll`,
`SafeIOEofMeansShort` and `SafeIOTypeCorrect` follow, for any number and size of buffers.

`ReaderProofs`. `ReaderInv` adds that the active file, and no other, is open for append,
that nobody holds the ID of a file that is not there yet, and `DescriptorsOwned`. From
it `ReaderTypes`, `DescriptorsAreOwned` and `IndexSoundBesideReaders`, for every choice
of faults, of the behaviours of `Reader`: up to a rotation that begins without the lock
of the head. A thread that is alone chose the active file after every rotation there
was, so it holds the lock of the head (`InActive`): `SoleWriterHoldsHead` says that then
nothing is left out.

Its second part is about what a get returns. `Serial` is what the application's promise
`AppSerialises` gives: a call that writes a key is the latest of the key's calls and
overlaps no other (`Alone`); the index then has one entry per key, to the latest
successful write (`Indexed`); what a reader has taken from the entry in its separate
reads is what the entry still says (`TakesEntry`). From it `GetReturnsLatest` and
`NoReadIsCorrupt`. Without the promise `read_torn` shows the opposite.

`ScanProofs`. `Scan` is a recursive function on the offsets of a file. Its defining
equation (`ScanUnfolds`) and facts about all its results are proved by the least-number
principle: the set of offsets where the claim fails has a largest element, and there the
claim holds (`LeastNat`, `DownTo`). `ScanEntries` says that every entry is one that
`CanRead` accepts, with rising offsets; `ScanKept`, that a scan does not depend on later
calls; `ScanComplete`, that it finds every record it cannot skip.

`RecoveryProofs`. `BaseInv` joins `WriteInv`, `LogInv` and `HintInv` (a hintfile in the
making is a prefix of its datafile's scan, and the datafile is no longer the active one): from it
`StoreTypes` and, with a sole writer and if no read fails, `HintsMatch`. Then, in three layers:

* `ShapeInv`: the cells of a file are runs of records from their first part on, files
  above the active one are empty, a running process has its active file open;
* `TearInv`: until a restart, and unless writes may come short *and* fail, the only record
  that is not whole is the one a thread is writing. `EntryWhole` and `ScanLeads` follow: where
  nothing follows a torn record, what a scan reads is a whole record of the key it says.
  `IndexSoundWhileUp` and `IndexSoundAcrossRestarts` follow, for any number of threads.
  `Recoverable` names when recovery may be trusted; steps only ever lose it
  (`LossStays`), which lets the invariant assume it;
* `OrderInv`, for a `SoleWriter`: a key has at most one entry; a call at its upsert wrote the
  last record of the log; and looking a key up leads to the record of every call that
  succeeded, or behind it (`InOrder`). A restart keeps it because a scan misses no whole record
  (`ScanHasWhole`, `RecoveredCovers`). Where an upsert cannot fail, `InOrder` extends to every
  whole record, also of calls that a crash cut off, so that index and log agree both ways:
  hence `RecoveryIsSound` and `RestartPreserves`.

Their hypotheses are those of the run `store_restart`, whose constants satisfy them, and
each is needed: with two writers the index may be left at the older record
(`store_stale_index`); an empty value ends a scan before the records behind it; a write
that is short and then fails leaves a torn record in the middle of the log; an upsert that
finds no memory leaves a record that only a restart indexes.

`FileListProofs`. `Linked(l, S)` says what the pointers of a list of the files `S` are: `next`
leads to the next lower ID, `previous` to the next higher one, head and tail are the
highest and the lowest. `AddFileKeepsLinked` follows the four cases of
`add_file_to_linked_list`, with `SkipEnds` for the loop that looks for the place; `ListOf` and
`OldestFirst` are recursive functions, and `ListOfLinked` and `WalkAscends` go through them by
the least-number principle. `LinkedSorted` gives `Sorted` from `Linked`; `DirectoryList`, that
for every order in which a directory is read the list is linked and its walk ascends.

`CompactorProofs`. `TypeInv` joins the types with `FilesLinked` (the list links the
datafiles, until a compaction deletes them), `CursorInRange` and `SmallFiles`, and gives
`CompactorTypes` and `FilesStaySorted`. The size of files alone is not inductive: that a
copied record fits into the next temporary file needs that no file beyond `curr` exists,
which only a compaction without leftovers ensures. `IndexLocates` says what recovery
finds: from files in which only the last record may be torn (`TornEnd`), read themselves
or through complete hints, the last whole record of every key. With it `DataInv`, which
follows the phases of a compaction that is `Clean` (no overlap, no leftovers, no
damage):

* idle and copying, the datafiles and their hints lead to every value (`DiskGood`): a
  hintfile is complete, or a prefix that its thread is still extending (`Scanned`); and the
  process has the same view of them (`MemoryGood`): its index leads, for every key, to a
  record with a value that may be found (`Serves`), the record of a put under way is the
  last of the active file, and a hint thread works on a file that takes no more records.
  The index need not lead to the last record of a key: a put of a new key that was written
  and not indexed, for want of memory, has a record and no entry, and the copy drops it;
* copying, the temporary files hold the records of exactly the keys not in `todo`, each
  the one its entry leads to (`CopyGood`);
* from then on the temporary files, and in their place those already renamed, hold every
  value (`ContentsGood`); nothing is renamed while a datafile or hintfile is left
  (`DeleteGood`, which needs the links of the list: the next file comes up, none is passed
  over), and renaming goes upwards (`RenameGood`).

`ReplacedGood` closes the circle: once no temporary file is left the renamed files are a
good store without hints. `EndData` follows the end of the process, which may leave a torn
record at the end of the active file. `CallsInv` ties the phases to the calls: beside a compaction
without overlap no put and no hint thread is under way. From these
`CompactionKeepsStore` and `TempsKeepStore`, for every set of keys, threshold, number of
files and choice of faults. `StoreSurvives` or `TempsHoldStore` alone is not inductive: neither
says where the copied records come from.

Only model-checked: `Rotation`, whose properties are about a handful of threads and
descriptors in flight; liveness, and the fairness half of the refinement, because the
provers have neither fairness nor `ENABLED`.

## 5. State and plan

Done: the ring buffer with its abstract queue; the store's write path, hints, shutdown,
crash and recovery; readers and invalidators composed with it; rotation statement by
statement with descriptor numbers; compaction and the file list; the I/O loops; the proofs
above, which cover every safety property of the passing runs but those of `rotation`. What
could follow: a proof of `NumbersMeanFiles`; readers composed with compaction, whose
descriptors then belong to unlinked files.

Not modelled, and why: logging and the example program (no state of the store); uthash
(vendored; used as a map in which the latest of two equal keys is found); the byte layout,
endianness and CRC arithmetic (the properties tell whole records from others, not bytes);
`ccask_keydir_delete` (no caller); the memory freed at shutdown while detached threads run
(described above).
