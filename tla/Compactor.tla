----------------------------- MODULE Compactor -----------------------------
(***************************************************************************)
(* Compaction (compactor.c) on the files it copies, deletes and renames,   *)
(* beside an application that puts, and the recovery of what it leaves.    *)
(*                                                                         *)
(* Records are of one size: a file takes PerFile of them, and a record is  *)
(* addressed by its number in its file.  The n-th put writes the record    *)
(* [key, ver |-> n].  A torn record ends every scan of its file; what a    *)
(* scan makes of records behind a torn one is left open: it is damage.  A  *)
(* put is one append, with the rotation it may need, and one upsert        *)
(* (module Store has it in detail).                                        *)
(*                                                                         *)
(* The application may put until the copy is done; then it waits, and once *)
(* compaction has replaced the files it makes no call before a restart:    *)
(* the index still holds the positions from before, and the descriptor of  *)
(* the active file an unlinked file.                                       *)
(***************************************************************************)
EXTENDS FileList, FiniteSetsExt, TLC

CONSTANTS
    Keys,
    PerFile,         \* datafile_rotate_threshold, in records
    MaxFiles,        \* bound: files have the IDs 0 .. MaxFiles
    MaxPuts,         \* bound: calls of ccask_put_blocking
    MaxCompactions,  \* bound: calls of ccask_compactor_dump_keydir
    MaxCrashes,      \* bound: times the process ends
    Faults,          \* "nomem", "read", "open", "write", "unlink", "rename" may fail
    Absent           \* stands for a file that does not exist

ASSUME CompactorAssumption ==
    /\ PerFile \in Nat \ {0} /\ MaxFiles \in Nat /\ MaxPuts \in Nat
    /\ MaxCompactions \in Nat /\ MaxCrashes \in Nat
    /\ Faults \subseteq {"nomem", "read", "open", "write", "unlink", "rename"}
    /\ "torn" \notin Keys

ASSUME AbsentAssumption ==
    /\ Absent \notin Seq([key : Keys \cup {"torn"}, ver : Nat])
    /\ Absent \notin Seq([key : Keys, n : Nat])
    /\ Absent \notin [rec : [key : Keys, ver : Nat], pos : [file : Nat, n : Nat]]
    /\ Absent \notin [all : Seq([key : Keys, n : Nat]), n : Nat]

VARIABLES
    \* on disk, by file ID: sequences of records (hints: of keys and numbers), or Absent
    data, hint, temp,   \* <id>.data, <id>.hint, <id>.data.tmp
    \* in memory
    up,        \* the process runs
    files,     \* the linked list; files.head is the active file
    hasHint,   \* file ID -> has_hint
    hinting,   \* files whose hint thread has not opened them
    scan,      \* file ID -> the hint records its thread writes, and how many it has; or Absent
    keydir,    \* key -> file and number of its record, in its domain
    kdlock,    \* how often hash_table_lock is held to read by compactions
    put,       \* the record of a put, and where it is, until it is indexed; or Absent
    pc,        \* where ccask_compactor_dump_keydir is
    todo,      \* keys the copy has not come to
    curr,      \* curr_temp_id
    at,        \* curr_file in the delete loop, i in the rename loop
    failed,    \* delete_res
    \* history
    latest,    \* key -> the last put of it that returned
    puts, compactions, crashes,
    overlap,   \* a put or a hint thread overlapped a compaction
    dirty,     \* a compaction found a temporary file of an earlier one
    cut,       \* deleting and renaming ended before it was complete
    damaged    \* a hintfile was left incomplete, or a record put behind a torn one

disk    == <<data, hint, temp>>
memory  == <<files, hasHint, hinting, scan, keydir, put>>
comp    == <<kdlock, pc, todo, curr, at, failed>>
counts  == <<puts, compactions, crashes>>
flags   == <<overlap, dirty, cut, damaged>>
cvars   == <<disk, up, memory, comp, latest, counts, flags>>

Id == 0 .. MaxFiles
Torn == [key |-> "torn", ver |-> 0]

CompactorInit ==
    /\ data = [f \in Id |-> IF f = 0 THEN <<>> ELSE Absent]
    /\ hint = [f \in Id |-> Absent] /\ temp = [f \in Id |-> Absent]
    /\ up = TRUE /\ files = ListOf(<<0>>) /\ hasHint = [f \in Id |-> FALSE] /\ hinting = {}
    /\ scan = [f \in Id |-> Absent]
    /\ keydir = <<>> /\ kdlock = 0 /\ put = Absent
    /\ pc = "idle" /\ todo = {} /\ curr = 0 /\ at = Null /\ failed = FALSE
    /\ latest = [k \in Keys |-> 0]
    /\ puts = 0 /\ compactions = 0 /\ crashes = 0
    /\ overlap = FALSE /\ dirty = FALSE /\ cut = FALSE /\ damaged = FALSE

-----------------------------------------------------------------------------
(* Reading files back *)

\* The records an iterator yields: up to a torn one.
Records(file) == LET torn == {i \in DOMAIN file : file[i] = Torn}
                 IN  IF torn = {} THEN file ELSE SubSeq(file, 1, Min(torn) - 1)

\* The hint records of a file.
Hints(file) == [i \in DOMAIN Records(file) |-> [key |-> file[i].key, n |-> i]]

\* keydir_recover: for each key its last record in the newest file that has one,
\* taken from the hintfile where there is one.
Index(order, source) ==
    LET Has(k, i) == {n \in DOMAIN source[order[i]] : source[order[i]][n].key = k}
        In(k)     == {i \in DOMAIN order : Has(k, i) # {}}
    IN  [k \in {x \in Keys : In(x) # {}} |->
            LET f == order[Max(In(k))]
            IN  [file |-> f, n |-> source[f][Max(Has(k, Max(In(k))))].n]]

OnDisk == {f \in Id : data[f] # Absent}
Source(f) == IF hint[f] # Absent THEN hint[f] ELSE Hints(data[f])

-----------------------------------------------------------------------------
(* The application's puts *)

MayPut == up /\ put = Absent /\ pc \in {"idle", "copy"} /\ puts < MaxPuts

\* The file a record goes to: the next one when the active one is full.
Target == IF Len(data[files.head]) >= PerFile THEN files.head + 1 ELSE files.head
Before == IF data[Target] = Absent THEN <<>> ELSE data[Target]
Behind(last) == Before # <<>> /\ Before[Len(Before)] = last

\* ccask_write_record_blocking up to the upsert.  Rotation starts a hint thread, if
\* it can; when it fails the call starts over.  The write may fail, having written
\* nothing or a part of the record: the call returns CCASK_FAIL.
PutAppend(k) ==
    LET rec == [key |-> k, ver |-> puts + 1] IN
    /\ MayPut /\ Target \in Id
    /\ puts' = puts + 1
    /\ overlap' = (overlap \/ pc = "copy")
    /\ \/ /\ data' = [data EXCEPT ![Target] = Append(Before, rec)]
          /\ put' = [rec |-> rec, pos |-> [file |-> Target, n |-> Len(Before) + 1]]
          /\ damaged' = (damaged \/ Behind(Torn))
       \/ /\ "write" \in Faults /\ UNCHANGED put
          /\ \/ data' = [data EXCEPT ![Target] = Before] /\ UNCHANGED damaged
             \/ /\ data' = [data EXCEPT ![Target] = Append(Before, Torn)]
                /\ damaged' = (damaged \/ Behind(Torn))
    /\ files' = IF Target = files.head THEN files ELSE AddFile(files, Target)
    /\ \/ hinting' = IF Target = files.head THEN hinting ELSE hinting \cup {files.head}
       \/ "nomem" \in Faults /\ UNCHANGED hinting
    /\ UNCHANGED <<hint, temp, up, hasHint, scan, keydir, comp, latest, compactions, crashes, dirty, cut>>

\* ccask_keydir_upsert waits for the lock, then the call returns.
PutIndex ==
    /\ up /\ put # Absent /\ kdlock = 0
    /\ keydir' = [k \in DOMAIN keydir \cup {put.rec.key} |->
                      IF k = put.rec.key THEN put.pos ELSE keydir[k]]
    /\ latest' = [latest EXCEPT ![put.rec.key] = put.rec.ver]
    /\ put' = Absent
    /\ UNCHANGED <<disk, up, files, hasHint, hinting, scan, comp, counts, flags>>

\* There is no memory for a new entry: the record is in the log and not in the index.
PutNoMemory ==
    /\ "nomem" \in Faults
    /\ up /\ put # Absent /\ kdlock = 0 /\ put.rec.key \notin DOMAIN keydir
    /\ put' = Absent
    /\ UNCHANGED <<disk, up, files, hasHint, hinting, scan, keydir, comp, latest, counts, flags>>

-----------------------------------------------------------------------------
(* hintfile_generator_thread *)

hintUnchanged == <<data, temp, up, files, keydir, put, comp, latest, counts, overlap, dirty, cut>>

\* The hintfile is opened to append, with whatever is in it; then the datafile, and its
\* end is looked up.  (O_CREAT: the hintfile is there when the datafile cannot be opened.)
HintOpen(f) ==
    /\ up /\ f \in hinting
    /\ hinting' = hinting \ {f}
    /\ \/ "open" \in Faults /\ UNCHANGED <<hint, scan, damaged>>
       \/ /\ hint' = [hint EXCEPT ![f] = IF @ = Absent THEN <<>> ELSE @]
          /\ \/ /\ data[f] # Absent
                /\ scan' = [scan EXCEPT ![f] = [all |-> Hints(data[f]), n |-> 0]]
                /\ UNCHANGED damaged
             \/ /\ data[f] = Absent \/ "open" \in Faults
                /\ damaged' = TRUE /\ UNCHANGED scan
    /\ UNCHANGED <<hintUnchanged, hasHint>>

Unfinished(f) == scan[f] # Absent /\ scan[f].n < Len(scan[f].all)

HintWrite(f) ==
    /\ up /\ Unfinished(f)
    /\ hint' = [hint EXCEPT ![f] = Append(IF @ = Absent THEN <<>> ELSE @, scan[f].all[scan[f].n + 1])]
    /\ scan' = [scan EXCEPT ![f].n = @ + 1]
    /\ UNCHANGED <<hintUnchanged, hinting, hasHint, damaged>>

\* A record that cannot be built or written ends the thread; the hintfile is deleted,
\* if it can be.
HintFails(f) ==
    /\ {"write", "nomem"} \cap Faults # {}
    /\ up /\ Unfinished(f)
    /\ scan' = [scan EXCEPT ![f] = Absent]
    /\ \/ hint' = [hint EXCEPT ![f] = Absent] /\ UNCHANGED damaged
       \/ "unlink" \in Faults /\ UNCHANGED hint /\ damaged' = TRUE
    /\ UNCHANGED <<hintUnchanged, hinting, hasHint>>

\* Nothing is left to read, or a record cannot be read, which is taken for the end.
HintDone(f) ==
    /\ up /\ scan[f] # Absent
    /\ ~Unfinished(f) \/ {"read", "nomem"} \cap Faults # {}
    /\ hasHint' = [hasHint EXCEPT ![f] = TRUE]
    /\ scan' = [scan EXCEPT ![f] = Absent]
    /\ damaged' = (damaged \/ Unfinished(f))
    /\ UNCHANGED <<hintUnchanged, hint, hinting>>

-----------------------------------------------------------------------------
(* ccask_compactor_dump_keydir: the copy *)

compUnchanged == <<data, hint, up, memory, latest, puts, crashes, flags>>

\* O_CREAT and O_APPEND: what an earlier compaction left behind is kept.
OpenTemp(i) == temp' = [temp EXCEPT ![i] = IF @ = Absent THEN <<>> ELSE @]

\* The lock is shared: it may still be held by an earlier compaction that failed.
Begin ==
    /\ up /\ pc = "idle" /\ compactions < MaxCompactions
    /\ compactions' = compactions + 1
    /\ OpenTemp(0)
    /\ dirty' = (dirty \/ \E f \in Id : temp[f] # Absent)
    /\ overlap' = (overlap \/ put # Absent \/ hinting # {} \/ \E f \in Id : scan[f] # Absent)
    /\ pc' = "copy" /\ kdlock' = kdlock + 1 /\ todo' = DOMAIN keydir /\ curr' = 0 /\ failed' = FALSE
    /\ UNCHANGED <<data, hint, up, memory, at, latest, puts, crashes, cut, damaged>>

\* The first temporary file cannot be opened: nothing has happened.
BeginFails ==
    /\ "open" \in Faults
    /\ up /\ pc = "idle" /\ compactions < MaxCompactions
    /\ UNCHANGED cvars

\* The temporary file a record goes to: the next one when it does not fit.
TempForLate == IF Len(temp[curr]) > PerFile THEN curr + 1 ELSE curr
TempFor == IF Len(temp[curr]) >= PerFile THEN curr + 1 ELSE curr

\* ccask_read_datafile_record finds the record of k's entry.
Readable(k) == LET e == keydir[k] IN data[e.file] # Absent /\ e.n \in DOMAIN data[e.file]

Copy(k) ==
    /\ pc = "copy" /\ k \in todo /\ Readable(k) /\ TempFor \in Id
    /\ LET rec  == data[keydir[k].file][keydir[k].n]
           kept == IF temp[TempFor] = Absent THEN <<>> ELSE temp[TempFor]
       IN  temp' = [temp EXCEPT ![TempFor] = Append(kept, rec)]
    /\ curr' = TempFor
    /\ todo' = todo \ {k}
    /\ UNCHANGED <<compUnchanged, compactions, kdlock, pc, at, failed>>

\* The function's variables are gone.
ReturnIdle == pc' = "idle" /\ todo' = {} /\ curr' = 0 /\ at' = Null /\ failed' = FALSE

\* No memory for a record: the function returns, with the lock held and the
\* temporary files in place.
CopyNoMemory ==
    /\ "nomem" \in Faults /\ pc = "copy" /\ todo # {}
    /\ ReturnIdle
    /\ UNCHANGED <<compUnchanged, compactions, temp, kdlock>>

\* cancel_compaction deletes the temporary files 0 .. last; the lock stays held.
Cancel(last, temps) ==
    /\ \E left \in IF "unlink" \in Faults THEN SUBSET (0 .. last) ELSE {{}} :
          temp' = [f \in Id |-> IF f \in (0 .. last) \ left THEN Absent ELSE temps[f]]
    /\ ReturnIdle
    /\ UNCHANGED <<compUnchanged, compactions, kdlock>>

\* A record cannot be read, the next temporary file not opened, or a record not, or
\* only partly, be written.
CopyFails ==
    /\ pc = "copy" /\ todo # {} /\ TempFor \in Id
    /\ \/ ("read" \in Faults \/ \E k \in todo : ~Readable(k)) /\ Cancel(curr, temp)
       \/ "open" \in Faults /\ TempFor # curr /\ Cancel(TempFor, temp)
       \/ /\ "write" \in Faults
          /\ LET kept == IF temp[TempFor] = Absent THEN <<>> ELSE temp[TempFor]
             IN  \E rest \in {kept, Append(kept, Torn)} :
                    Cancel(TempFor, [temp EXCEPT ![TempFor] = rest])

\* The copy is complete: the lock is released and deleting begins at the oldest file.
CopyEndsEarly ==
    /\ pc = "copy" /\ Cardinality(todo) <= 1
    /\ kdlock' = kdlock - 1 /\ pc' = "delete" /\ at' = files.tail
    /\ UNCHANGED <<compUnchanged, compactions, temp, todo, curr, failed>>
CopyKeepsLock ==
    /\ pc = "copy" /\ todo = {}
    /\ pc' = "delete" /\ at' = files.tail
    /\ UNCHANGED <<compUnchanged, compactions, temp, kdlock, todo, curr, failed>>
CopyDone ==
    /\ pc = "copy" /\ todo = {}
    /\ kdlock' = kdlock - 1 /\ pc' = "delete" /\ at' = files.tail
    /\ UNCHANGED <<compUnchanged, compactions, temp, todo, curr, failed>>

-----------------------------------------------------------------------------
(* ... and the replacement of the files *)

\* What was not deleted, or not there, is logged, and remembered in delete_res.
Unlinked(file) ==
    \/ file[at] # Absent /\ file' = [file EXCEPT ![at] = Absent] /\ UNCHANGED <<failed, cut>>
    \/ (file[at] = Absent \/ "unlink" \in Faults) /\ UNCHANGED file /\ failed' = TRUE /\ cut' = TRUE

DeleteData ==
    /\ pc = "delete" /\ at # Null
    /\ Unlinked(data)
    /\ pc' = "hint"
    /\ UNCHANGED <<hint, temp, up, memory, kdlock, todo, curr, at, latest, counts, overlap, dirty, damaged>>

HintForgotten == UNCHANGED <<hint, failed, cut>>
HintDeleted ==
    \/ hasHint[at] /\ Unlinked(hint)
    \/ ~hasHint[at] /\ UNCHANGED <<hint, failed, cut>>

\* The next newer file.
NextFileStuck == at
NextFile == files.previous[at]

DeleteHint ==
    /\ pc = "hint"
    /\ HintDeleted
    /\ at' = NextFile /\ pc' = "delete"
    /\ UNCHANGED <<data, temp, up, memory, kdlock, todo, curr, latest, counts, overlap, dirty, damaged>>

DeleteDone ==
    /\ pc = "delete" /\ at = Null
    /\ pc' = IF failed THEN "done" ELSE "rename"
    /\ at' = 0
    /\ UNCHANGED <<compUnchanged, compactions, temp, kdlock, todo, curr, failed>>

RenameStopsShort == at >= curr
RenameOver == at > curr

\* A file that cannot be renamed is only logged.
Rename ==
    /\ pc = "rename" /\ ~RenameOver
    /\ at' = at + 1
    /\ \/ /\ data' = [data EXCEPT ![at] = temp[at]] /\ temp' = [temp EXCEPT ![at] = Absent]
          /\ UNCHANGED cut
       \/ "rename" \in Faults /\ cut' = TRUE /\ UNCHANGED <<data, temp>>
    /\ UNCHANGED <<hint, up, memory, kdlock, pc, todo, curr, failed, latest, counts, overlap, dirty, damaged>>

RenameDone ==
    /\ pc = "rename" /\ RenameOver
    /\ pc' = "done"
    /\ UNCHANGED <<compUnchanged, compactions, temp, kdlock, todo, curr, at, failed>>

-----------------------------------------------------------------------------
(* The process ends, by a crash or because the application does; ccask_init *)

InReplacement == pc \in {"delete", "hint", "rename"}

\* A put that is being written leaves a torn record, a hint thread a hintfile that is
\* not complete.
End ==
    /\ up /\ crashes < MaxCrashes
    /\ crashes' = crashes + 1
    /\ up' = FALSE /\ files' = EmptyList /\ hasHint' = [f \in Id |-> FALSE]
    /\ hinting' = {} /\ scan' = [f \in Id |-> Absent]
    /\ keydir' = <<>> /\ kdlock' = 0 /\ put' = Absent
    /\ cut' = (cut \/ InReplacement)
    /\ \E torn \in {FALSE, MayPut /\ Target \in Id} :
          /\ data' = IF torn THEN [data EXCEPT ![Target] = Append(Before, Torn)] ELSE data
          /\ damaged' = (damaged \/ (\E f \in Id : Unfinished(f)) \/ (torn /\ Behind(Torn)))
    /\ UNCHANGED <<hint, temp, pc, todo, curr, at, failed, latest, puts, compactions, overlap, dirty>>

\* ccask_files_init reads the directory in whatever order; names that end in .tmp
\* are not datafiles.  The newest file stays active unless it has a hintfile.
Restart ==
    \E order \in SetToSeqs(OnDisk) :
        LET found  == ListOf(order)
            newest == IF found.head # Null /\ hint[found.head] = Absent
                      THEN found.head ELSE found.head + 1
        IN
        /\ ~up /\ newest \in Id
        /\ up' = TRUE /\ ReturnIdle
        /\ files' = IF newest = found.head THEN found ELSE AddFile(found, newest)
        /\ data' = [data EXCEPT ![newest] = IF @ = Absent THEN <<>> ELSE @]
        /\ hasHint' = [f \in Id |-> f \in OnDisk /\ hint[f] # Absent]
        /\ keydir' = Index(OldestFirst(found), [f \in OnDisk |-> Source(f)])
        /\ UNCHANGED <<hint, temp, hinting, scan, kdlock, put, latest, counts, flags>>

-----------------------------------------------------------------------------
PutReturn == PutIndex \/ PutNoMemory
HintStep(f) == HintOpen(f) \/ HintWrite(f) \/ HintFails(f) \/ HintDone(f)
CopyStep == (\E k \in Keys : Copy(k)) \/ CopyNoMemory \/ CopyFails \/ CopyDone
ReplaceStep == DeleteData \/ DeleteHint \/ DeleteDone \/ Rename \/ RenameDone
CompactionStep == up /\ (CopyStep \/ ReplaceStep)

CompactorNext ==
    \/ (\E k \in Keys : PutAppend(k)) \/ PutReturn \/ (\E f \in Id : HintStep(f))
    \/ Begin \/ BeginFails \/ CompactionStep
    \/ End \/ Restart

\* Threads run: a compaction that began goes on, and a put gets a lock that is free.
CompactorSafeSpec == CompactorInit /\ [][CompactorNext]_cvars
CompactorSpec == CompactorSafeSpec /\ WF_cvars(CompactionStep) /\ WF_cvars(PutReturn)

-----------------------------------------------------------------------------
(* Properties *)

Record == [key : Keys, ver : 1 .. MaxPuts] \cup {Torn}

\* Every variable has its type, and no file is larger than the threshold, unless
\* records were added to the temporary files of an earlier compaction.
CompactorTypeOK ==
    /\ \A f \in Id : \A file \in {data[f], temp[f]} : file = Absent \/ file \in Seq(Record)
    /\ \A f \in Id : hint[f] = Absent \/ hint[f] \in Seq([key : Keys, n : Nat \ {0}])
    /\ up \in BOOLEAN /\ DOMAIN files.next \subseteq Id /\ hasHint \in [Id -> BOOLEAN]
    /\ hinting \subseteq Id /\ DOMAIN keydir \subseteq Keys
    /\ \A f \in Id : scan[f] = Absent \/ scan[f] \in [all : Seq([key : Keys, n : Nat \ {0}]), n : Nat]
    /\ \A k \in DOMAIN keydir : keydir[k] \in [file : Id, n : Nat]
    /\ kdlock \in Nat /\ pc \in {"idle", "copy", "delete", "hint", "rename", "done"}
    /\ todo \subseteq Keys /\ curr \in Id /\ at \in Id \cup {Null, MaxFiles + 1} /\ failed \in BOOLEAN
    /\ ~dirty => \A f \in Id : \A file \in {data[f], temp[f]} \ {Absent} : Len(file) <= PerFile

\* The linked list is sorted and linked both ways, whatever order the directory was
\* read in and whenever files were added; compaction and recovery walk it
\* (add_file_to_linked_list).
ListSorted == Sorted(files) /\ (up => files.head # Null)

\* The record a restart would find for k; none where its entry leads nowhere.
ValueAfter(index, content, k) ==
    IF k \notin DOMAIN index THEN [key |-> k, ver |-> 0]
    ELSE LET file == content[index[k].file]
         IN  IF index[k].n \in DOMAIN file THEN file[index[k].n] ELSE Torn

\* What is found for k is the last put of it that returned CCASK_OK, or a later one
\* that did not.
Found(k, rec) ==
    rec.key = k /\ (rec.ver = latest[k] \/ (rec.ver > latest[k] /\ rec.ver <= puts))

\* Outside the replacement of the files, a restart would find every value: while the
\* copy runs, after it was cancelled, after a crash during it, and after the
\* compaction is complete.  Excepted are compactions that overlap a put or a hint
\* thread, start with files of an earlier one, or were cut short while they replaced
\* files; and stores in which a hintfile was left incomplete (by a thread that failed
\* or a crash in it: such a file counts as complete, and a compaction leaves the one
\* of a failed thread behind) or a record was put behind a torn one.
StoreSurvives ==
    ~(InReplacement \/ overlap \/ dirty \/ cut \/ damaged) /\ (\A f \in Id : ~Unfinished(f)) =>
        LET order == OldestFirst(ListOf(SetToSeq(OnDisk)))
            index == Index(order, [f \in OnDisk |-> Source(f)])
        IN  \A k \in Keys : Found(k, ValueAfter(index, data, k))

\* From the first deletion to the last rename, and when a crash or an error cut that
\* short, the temporary and the renamed files hold every value: finishing the
\* renames by hand, as the error messages advise, recovers the store.  Excepted are
\* compactions that overlap a put or a hint thread or start with files of an earlier
\* one, and damaged stores, where the index may lack what a hintfile lacked.
TempsHoldStore ==
    (InReplacement \/ pc = "done") /\ ~(overlap \/ dirty \/ damaged) =>
        LET content == [f \in 0 .. curr |-> IF temp[f] # Absent THEN temp[f] ELSE data[f]]
            order   == OldestFirst(ListOf(SetToSeq(0 .. curr)))
            index   == Index(order, [f \in 0 .. curr |-> Hints(content[f])])
        IN  \A k \in Keys : Found(k, ValueAfter(index, content, k))

\* A put waits for a running copy at most: it returns, unless a compaction that
\* failed has left the lock of the key directory held.
LockLeaked == pc = "idle" /\ kdlock > 0
PutsContinue == []~LockLeaked => (put # Absent ~> put = Absent)

\* A compaction comes to its end.
CompactionEnds == pc \notin {"idle", "done"} ~> pc \in {"idle", "done"} \/ ~up
=============================================================================
