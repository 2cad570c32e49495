---------------------------- MODULE ReaderProofs ----------------------------
(***************************************************************************)
(* Theorems about module Reader, for every set of keys, writers and        *)
(* readers, every size and bound and every choice of faults.  A behaviour  *)
(* of Reader ends where a rotation is about to begin without the lock of   *)
(* the file it closes (HeadLocked); SoleWriterHoldsHead says when it does  *)
(* not.                                                                    *)
(***************************************************************************)
EXTENDS Reader, StoreProofs

-----------------------------------------------------------------------------
(* The inductive invariant *)

\* A reader inside ccask_get has a key.
KeyKnown == \A r \in Readers : rd[r].pc # "idle" => rd[r].key \in Keys

\* Nobody knows of a file that is not there yet, and the active file is open for append.
StoreFiles ==
    /\ \A f \in FileId : fd[f] = "append" <=> f = active
    /\ \A t \in Threads : th[t].file <= active
    /\ \A k \in Keys : \A n \in DOMAIN keydir[k] : keydir[k][n].file <= active
FilesUsed == StoreFiles /\ \A r \in Readers : rd[r].file <= active

ReaderInv ==
    /\ WriteInv /\ IndexLeads /\ ReaderTypeOK /\ KeyKnown
    /\ FilesUsed /\ DescriptorsOwned

\* It holds at the start: nothing is read and nothing was reopened.
LEMMA ReaderInvInit == ReaderInit => ReaderInv
<1> SUFFICES ASSUME ReaderInit PROVE ReaderInv
  OBVIOUS
<1> USE DEF ReaderInit
<1>1. WriteInv
  BY WriteInvInit
<1>2. IndexLeads
  BY DEF Init, IndexLeads
<1>3. 0 \in FileId
  BY SizeAssumption DEF FileId
<1>4. NotReading \in ReaderState
  BY <1>3, SizeAssumption DEF NotReading, ReaderState
<1>5. ReaderTypeOK /\ KeyKnown
  BY <1>4, ReaderAssumption DEF ReaderTypeOK, KeyKnown, NotReading
<1>6. FilesUsed
  BY <1>3 DEF FilesUsed, StoreFiles, Init, OpenOnly, NotReading, Idle
<1>7. DescriptorsOwned
  BY DEF DescriptorsOwned, Init, OpenOnly
<1> QED BY <1>1, <1>2, <1>5, <1>6, <1>7 DEF ReaderInv

-----------------------------------------------------------------------------
(* Steps of the write path *)

\* Rotation is the only step of a thread that touches descriptors.
LEMMA OnlyRotate ==
    ASSUME NEW t, ThreadStep(t) \/ \E k \in Keys, v \in ValueSizes : Begin(t, k, v)
    PROVE  Rotate(t) \/ (fd' = fd /\ active' = active)
BY DEF ThreadStep, Begin, GetActiveFile, SeekStep, SeekFails, SeekFull, SeekOk, diskVars, fileVars,
       RotateStep, RotateFails, WriteStep, WritePart, WriteRest, WriteSpins, WriteFails,
       Find, UpsertStep, Upsert, UpsertNoMemory

\* A thread works in the file it took for the active one.
LEMMA ThreadFile ==
    ASSUME WriteInv, NEW t \in Threads,
           ThreadStep(t) \/ \E k \in Keys, v \in ValueSizes : Begin(t, k, v)
    PROVE  /\ th'[t].file \in {th[t].file, 0, active}
           /\ \A u \in Threads \ {t} : th'[u] = th[u]
<1>1. th \in [Threads -> Thread] /\ th[t] \in Thread
  BY DEF WriteInv, TypeOK
<1>2. CASE \E k \in Keys, v \in ValueSizes : Begin(t, k, v)
  BY <1>1, <1>2 DEF Begin, Idle
<1>3. CASE GetActiveFile(t)
  BY <1>1, <1>3 DEF GetActiveFile, Thread
<1>4. CASE Finish(t, "ok") \/ Finish(t, "fail")
  BY <1>1, <1>4 DEF Finish, Idle
<1>5. CASE Goto(t, "rotate") \/ Goto(t, "active") \/ Goto(t, "find") \/ Goto(t, "spin")
  BY <1>5, GotoType
<1>6. CASE SeekOk(t)
  BY <1>1, <1>6 DEF SeekOk, Thread
<1>7. CASE WritePart(t)
  BY <1>1, <1>7 DEF WritePart, Thread
<1>8. CASE Find(t)
  BY <1>1, <1>8 DEF Find, Thread
<1> QED BY <1>2, <1>3, <1>4, <1>5, <1>6, <1>7, <1>8
     DEF ThreadStep, SeekStep, SeekFails, SeekFull, RotateStep, Rotate, RotateFails, WriteStep,
         WriteRest, WriteSpins, WriteFails, UpsertStep, Upsert, UpsertNoMemory

\* Files are known before they are used, and only the active one is open for append,
\* although a thread may rotate a file it does not hold.
LEMMA ThreadFiles ==
    ASSUME WriteInv, StoreFiles, NEW t \in Threads,
           ThreadStep(t) \/ \E k \in Keys, v \in ValueSizes : Begin(t, k, v)
    PROVE  StoreFiles' /\ active' \in Nat /\ active <= active'
<1>1. /\ active \in FileId /\ active \in Nat /\ fd \in [FileId -> {"closed", "append", "read"}]
      /\ keydir \in [Keys -> Seq(Entry)]
  BY DEF WriteInv, TypeOK, FileId
<1>2. active' \in Nat /\ active <= active'
  <2>1. CASE Rotate(t)
    BY <1>1, <2>1 DEF Rotate
  <2>2. CASE active' = active
    BY <1>1, <2>2
  <2> QED BY <2>1, <2>2, OnlyRotate
<1>3. \A f \in FileId : fd'[f] = "append" <=> f = active'
  <2>1. CASE Rotate(t)
    <3>1. /\ active + 1 \in FileId /\ active # active + 1 /\ active' = active + 1
          /\ fd' = [fd EXCEPT ![active] = "closed", ![active + 1] = "append"]
      BY <1>1, <2>1, SizeAssumption DEF Rotate, SwitchFiles, FileId
    <3> QED BY <1>1, <3>1 DEF StoreFiles
  <2>2. CASE fd' = fd /\ active' = active
    BY <2>2 DEF StoreFiles
  <2> QED BY <2>1, <2>2, OnlyRotate
<1>4. ASSUME NEW u \in Threads PROVE th'[u].file <= active'
  <2>1. th[u].file \in Nat /\ th[u].file <= active
    BY ThreadType DEF StoreFiles, FileId
  <2>2. th'[u].file = th[u].file \/ th'[u].file = 0 \/ th'[u].file = active
    <3>1. CASE u = t
      BY <3>1, ThreadFile
    <3>2. CASE u # t
      BY <3>2, ThreadFile
    <3> QED BY <3>1, <3>2
  <2> QED BY <2>1, <2>2, <1>1, <1>2
<1>5. ASSUME NEW k \in Keys, NEW n \in DOMAIN keydir'[k] PROVE keydir'[k][n].file <= active'
  <2>1. /\ th[t].file \in Nat /\ th[t].file <= active
    BY ThreadType DEF StoreFiles, FileId
  <2>2. \/ n \in DOMAIN keydir[k] /\ keydir'[k][n] = keydir[k][n]
        \/ keydir'[k][n] = NewEntry(t)
    BY OnlyUpsert, UpsertEntries
  <2>3. CASE n \in DOMAIN keydir[k] /\ keydir'[k][n] = keydir[k][n]
    <3>1. keydir[k][n] \in Entry /\ keydir[k][n].file <= active
      BY <1>1, <2>3 DEF StoreFiles
    <3>2. keydir[k][n].file \in Nat
      BY <3>1 DEF Entry, FileId
    <3> QED BY <1>1, <1>2, <2>3, <3>1, <3>2
  <2>4. CASE keydir'[k][n] = NewEntry(t)
    <3>1. keydir'[k][n].file = th[t].file
      BY <2>4 DEF NewEntry
    <3> QED BY <1>1, <1>2, <2>1, <3>1
  <2> QED BY <2>2, <2>3, <2>4
<1> QED BY <1>2, <1>3, <1>4, <1>5 DEF StoreFiles

\* Readers keep their entries, and rotation takes no reader's descriptor away: it closes
\* the active file, which no reader has reopened.
LEMMA PutKeeps ==
    ASSUME ReaderInv, NEW t \in Threads,
           PutStep(t) \/ \E k \in Keys, v \in ValueSizes : BeginPut(t, k, v)
    PROVE  ReaderInv'
<1>1. /\ ThreadStep(t) \/ \E k \in Keys, v \in ValueSizes : Begin(t, k, v)
      /\ rd' = rd /\ inv' = inv /\ running' = running /\ reopened' = reopened /\ gets' = gets
  BY DEF PutStep, BeginPut, readerVars
<1>2. /\ WriteInv /\ IndexLeads /\ ReaderTypeOK /\ KeyKnown /\ FilesUsed /\ StoreFiles
      /\ DescriptorsOwned
  BY DEF ReaderInv, FilesUsed
<1>3. StepKeeps /\ IndexLeads'
  BY <1>1, <1>2, ThreadKeeps, ThreadIndex
<1>4. StoreFiles' /\ active' \in Nat /\ active <= active'
  BY <1>1, <1>2, ThreadFiles
<1>5. active \in FileId /\ active \in Nat /\ fd \in [FileId -> {"closed", "append", "read"}]
      /\ keydir \in [Keys -> Seq(Entry)] /\ keydir' \in [Keys -> Seq(Entry)]
  BY <1>2, <1>3 DEF WriteInv, TypeOK, FileId, StepKeeps
<1>6. KeyKnown'
  BY <1>1, <1>2 DEF KeyKnown
<1>7. ReaderTypeOK'
  <2>1. ASSUME NEW r \in Readers, rd[r].pc \notin {"idle", "done"}
        PROVE  rd[r].node \in 1 .. Len(keydir'[rd[r].key])
    <3>1. rd[r].key \in Keys /\ rd[r].node \in 1 .. Len(keydir[rd[r].key])
      BY <2>1, <1>2 DEF KeyKnown, ReaderTypeOK
    <3>2. /\ Len(keydir[rd[r].key]) <= Len(keydir'[rd[r].key])
          /\ Len(keydir[rd[r].key]) \in Nat /\ Len(keydir'[rd[r].key]) \in Nat
      BY <3>1, <1>3, <1>5 DEF StepKeeps, IndexGrows
    <3> QED BY <3>1, <3>2
  <2> QED BY <2>1, <1>1, <1>2 DEF ReaderTypeOK
<1>8. FilesUsed'
  <2>1. ASSUME NEW r \in Readers PROVE rd'[r].file <= active'
    <3>1. rd[r].file \in Nat /\ rd[r].file <= active
      BY <1>2 DEF FilesUsed, ReaderTypeOK, ReaderState, FileId
    <3> QED BY <3>1, <1>1, <1>4, <1>5
  <2> QED BY <2>1, <1>4 DEF FilesUsed
<1>9. DescriptorsOwned'
  <2>1. CASE Rotate(t)
    <3>1. /\ active + 1 \in FileId /\ active # active + 1 /\ active' = active + 1
          /\ ~(active < active) /\ ~(active + 1 < active)
          /\ fd' = [fd EXCEPT ![active] = "closed", ![active + 1] = "append"]
      BY <1>5, <2>1, SizeAssumption DEF Rotate, SwitchFiles, FileId
    <3>2. \A f \in FileId : f < active => f < active'
      BY <3>1, <1>5 DEF FileId
    <3> QED BY <1>1, <1>2, <1>5, <3>1, <3>2 DEF DescriptorsOwned
  <2>2. CASE fd' = fd /\ active' = active
    BY <2>2, <1>1, <1>2 DEF DescriptorsOwned
  <2> QED BY <1>1, <2>1, <2>2, OnlyRotate
<1> QED BY <1>3, <1>6, <1>7, <1>8, <1>9 DEF ReaderInv, StepKeeps

-----------------------------------------------------------------------------
(* Steps of readers, invalidators and iterators *)

\* A step that leaves the store alone but for a descriptor that is not the active
\* file's.
LEMMA StoreAlone ==
    ASSUME ReaderInv, UNCHANGED <<diskVars, phase, locked, keydir, hintVars, th, wr, counterVars>>,
           iterating' \subseteq Callers, fd' \in [FileId -> {"closed", "append", "read"}],
           \A f \in FileId : fd'[f] = "append" <=> fd[f] = "append"
    PROVE  WriteInv' /\ IndexLeads' /\ StoreFiles' /\ active' = active /\ keydir' = keydir
<1>1. UNCHANGED <<data, active, hint, phase, locked, keydir, hpc, joining, th, wr, crashes, shutdowns>>
  BY DEF diskVars, hintVars, counterVars
<1>2. TypeOK'
  BY <1>1 DEF ReaderInv, WriteInv, TypeOK
<1>3. StepKeeps
  BY <1>1, <1>2, NoThreadKeeps DEF ReaderInv
<1>4. IndexLeads'
  BY <1>1, <1>3, IndexStep DEF ReaderInv
<1>5. StoreFiles'
  BY <1>1 DEF ReaderInv, FilesUsed, StoreFiles
<1> QED BY <1>1, <1>3, <1>4, <1>5 DEF StepKeeps

\* A reader steps: what has to be shown of its new state.
LEMMA ReaderFrame ==
    ASSUME ReaderInv, WriteInv', IndexLeads', StoreFiles', active' = active, keydir' = keydir,
           NEW r \in Readers, NEW x \in ReaderState, rd' = [rd EXCEPT ![r] = x],
           x.pc # "idle" => x.key \in Keys,
           x.pc \notin {"idle", "done"} => x.node \in 1 .. Len(keydir[x.key]),
           x.file <= active,
           inv' \in [FileId -> {"none", "sleep", "close"}], running' \in [FileId -> BOOLEAN],
           reopened' \in [FileId -> Nat], gets' \in 0 .. MaxGets, DescriptorsOwned'
    PROVE  ReaderInv'
<1>1. rd \in [Readers -> ReaderState]
  BY DEF ReaderInv, ReaderTypeOK
<1>2. rd'[r] = x /\ \A q \in Readers \ {r} : rd'[q] = rd[q]
  BY <1>1
<1>3. rd' \in [Readers -> ReaderState]
  BY <1>1
<1>4. \A q \in Readers : rd'[q].pc \notin {"idle", "done"} =>
                            rd'[q].node \in 1 .. Len(keydir'[rd'[q].key])
  BY <1>2 DEF ReaderInv, ReaderTypeOK
<1>5. ReaderTypeOK'
  BY <1>3, <1>4 DEF ReaderTypeOK
<1>6. KeyKnown'
  BY <1>2 DEF ReaderInv, KeyKnown
<1>7. FilesUsed'
  BY <1>2 DEF ReaderInv, FilesUsed
<1> QED BY <1>5, <1>6, <1>7 DEF ReaderInv

\* The entry a reader holds is an entry of its key.
LEMMA HeldEntry ==
    ASSUME ReaderInv, NEW r \in Readers, rd[r].pc \notin {"idle", "done"}
    PROVE  /\ rd[r] \in ReaderState /\ rd[r].key \in Keys
           /\ rd[r].node \in 1 .. Len(keydir[rd[r].key]) /\ rd[r].node \in DOMAIN keydir[rd[r].key]
           /\ KdRecord(r) \in Entry /\ KdRecord(r).vsize \in Nat /\ KdRecord(r).pos \in Nat
           /\ KdRecord(r).file \in FileId /\ KdRecord(r).file <= active /\ rd[r].file <= active
<1>1. /\ rd \in [Readers -> ReaderState] /\ rd[r].key \in Keys
      /\ rd[r].node \in 1 .. Len(keydir[rd[r].key]) /\ keydir \in [Keys -> Seq(Entry)]
  BY DEF ReaderInv, ReaderTypeOK, KeyKnown, WriteInv, TypeOK
<1>2. rd[r].node \in DOMAIN keydir[rd[r].key] /\ KdRecord(r) \in Entry
  BY <1>1 DEF KdRecord
<1>3. KdRecord(r).vsize \in Nat /\ KdRecord(r).pos \in Nat /\ KdRecord(r).file \in FileId
  BY <1>2 DEF Entry
<1>4. KdRecord(r).file <= active /\ rd[r].file <= active
  BY <1>1, <1>2 DEF ReaderInv, FilesUsed, StoreFiles, KdRecord
<1> QED BY <1>1, <1>2, <1>3, <1>4

\* A step that changes only one reader's state.
LEMMA ReaderAlone ==
    ASSUME ReaderInv, UNCHANGED <<vars, inv, running, reopened>>, gets' \in 0 .. MaxGets,
           NEW r \in Readers, NEW x \in ReaderState, rd' = [rd EXCEPT ![r] = x],
           x.pc # "idle" => x.key \in Keys,
           x.pc \notin {"idle", "done"} => x.node \in 1 .. Len(keydir[x.key]),
           x.file <= active
    PROVE  ReaderInv'
<1>1. UNCHANGED <<diskVars, phase, fd, locked, keydir, iterating, hintVars, th, wr, counterVars>>
  BY DEF vars, fileVars
<1>2. iterating \subseteq Callers /\ fd \in [FileId -> {"closed", "append", "read"}]
  BY DEF ReaderInv, WriteInv, TypeOK
<1>3. WriteInv' /\ IndexLeads' /\ StoreFiles' /\ active' = active /\ keydir' = keydir
  BY <1>1, <1>2, StoreAlone
<1>4. /\ inv' \in [FileId -> {"none", "sleep", "close"}] /\ running' \in [FileId -> BOOLEAN]
      /\ reopened' \in [FileId -> Nat]
  BY DEF ReaderInv, ReaderTypeOK
<1>5. DescriptorsOwned'
  BY <1>1, <1>3 DEF ReaderInv, DescriptorsOwned
<1> QED BY <1>3, <1>4, <1>5, ReaderFrame

\* The steps of ccask_get that touch nothing but the reader's own state.
LEMMA GetKeeps ==
    ASSUME ReaderInv, NEW r \in Readers,
           \/ \E k \in Keys : GetFind(r, k)
           \/ GetAllocate(r) \/ GetArgument(r) \/ CheckFd(r) \/ ReopenNotNeeded(r) \/ ReopenFails(r)
           \/ Read(r) \/ GetRoom(r) \/ GetCopy(r) \/ GetSize(r) \/ GetDone(r)
    PROVE  ReaderInv'
<1> USE DEF In
<1>0. /\ rd \in [Readers -> ReaderState] /\ rd[r] \in ReaderState /\ gets \in 0 .. MaxGets
      /\ rd[r].file <= active /\ MaxGets \in Nat
  BY ReaderAssumption DEF ReaderInv, ReaderTypeOK, FilesUsed
<1>1. NotReading \in ReaderState
  BY SizeAssumption DEF NotReading, ReaderState, FileId
<1>2. ASSUME NEW k \in Keys, GetFind(r, k)
      PROVE  ReaderInv'
  <2> DEFINE n == Len(keydir[k])
             l == IF keydir[k] = <<>> THEN "done" ELSE "want"
             x == [NotReading EXCEPT !.key = k, !.node = n, !.pc = l]
  <2>1. keydir[k] \in Seq(Entry) /\ n \in Nat /\ 0 <= active
    BY DEF ReaderInv, WriteInv, TypeOK, FileId
  <2>2. l \in {"done", "want"} /\ (l = "want" => n \in 1 .. n)
    BY <2>1
  <2>3. rd' = [rd EXCEPT ![r] = x]
    BY <1>2 DEF GetFind
  <2> HIDE DEF n, l
  <2>4. x \in ReaderState /\ x.key = k /\ x.node = n /\ x.pc = l /\ x.file = 0
    BY <1>1, <2>1, <2>2 DEF ReaderState, NotReading
  <2>5. gets' = gets + 1 /\ gets < MaxGets /\ UNCHANGED <<vars, inv, running, reopened>>
    BY <1>2 DEF GetFind
  <2>6. gets' \in 0 .. MaxGets
    BY <1>0, <2>5
  <2>7. x.pc \notin {"idle", "done"} => x.node \in 1 .. Len(keydir[x.key])
    BY <2>1, <2>2, <2>4 DEF n
  <2> HIDE DEF x
  <2> QED BY <2>1, <2>2, <2>3, <2>4, <2>5, <2>6, <2>7, ReaderAlone
<1>3. ASSUME UNCHANGED <<vars, inv, running, reopened, gets>>, rd[r].pc \notin {"idle", "done"},
             NEW x \in ReaderState, rd' = [rd EXCEPT ![r] = x], x.pc # "idle",
             x.key = rd[r].key, x.node = rd[r].node, x.file <= active
      PROVE  ReaderInv'
  BY <1>0, <1>3, HeldEntry, ReaderAlone
<1>4. ASSUME NEW result \in {"nomem", "nofd", "closed", "eof", "io", "crc"}, Return(r, result),
             UNCHANGED <<vars, inv, running, reopened, gets>>, rd[r].pc \notin {"idle", "done"}
      PROVE  ReaderInv'
  <2> DEFINE x == [rd[r] EXCEPT !.result = result, !.pc = "done"]
  <2>1. x \in ReaderState /\ x.pc = "done" /\ x.key = rd[r].key /\ x.node = rd[r].node
        /\ x.file = rd[r].file
    BY <1>0 DEF ReaderState
  <2>2. rd' = [rd EXCEPT ![r] = x]
    BY <1>0, <1>4 DEF Return
  <2> HIDE DEF x
  <2> QED BY <1>0, <1>3, <1>4, <2>1, <2>2
<1>5. ASSUME NEW l \in {"read", "reopen"}, rd' = [rd EXCEPT ![r].pc = l],
             UNCHANGED <<vars, inv, running, reopened, gets>>, rd[r].pc \notin {"idle", "done"}
      PROVE  ReaderInv'
  <2> DEFINE x == [rd[r] EXCEPT !.pc = l]
  <2>1. x \in ReaderState /\ x.pc = l /\ x.key = rd[r].key /\ x.node = rd[r].node
        /\ x.file = rd[r].file
    BY <1>0 DEF ReaderState
  <2>2. rd' = [rd EXCEPT ![r] = x]
    BY <1>0, <1>5
  <2> HIDE DEF x
  <2> QED BY <1>0, <1>3, <1>5, <2>1, <2>2
<1>6. CASE GetAllocate(r)
  <2>1. KdRecord(r).vsize \in Nat /\ rd[r].pc = "want"
    BY <1>6, HeldEntry DEF GetAllocate
  <2>2. CASE Return(r, "nomem")
    BY <1>4, <1>6, <2>1, <2>2 DEF GetAllocate
  <2>3. CASE rd' = [rd EXCEPT ![r].want = KdRecord(r).vsize, ![r].left = {"file", "pos"},
                              ![r].pc = "args"]
    <3> DEFINE v == KdRecord(r).vsize
               x == [rd[r] EXCEPT !.want = v, !.left = {"file", "pos"}, !.pc = "args"]
    <3>1. rd' = [rd EXCEPT ![r] = x]
      BY <1>0, <2>3
    <3> HIDE DEF v
    <3>2. x \in ReaderState /\ x.pc = "args" /\ x.key = rd[r].key /\ x.node = rd[r].node
          /\ x.file = rd[r].file
      BY <1>0, <2>1 DEF ReaderState, v
    <3> HIDE DEF x
    <3> QED BY <1>0, <1>3, <1>6, <2>1, <3>1, <3>2 DEF GetAllocate
  <2> QED BY <1>6, <2>2, <2>3 DEF GetAllocate
<1>7. CASE GetArgument(r)
  <2>1. /\ KdRecord(r).pos \in Nat /\ KdRecord(r).file \in FileId /\ KdRecord(r).file <= active
        /\ rd[r].pc = "args" /\ rd[r].left \subseteq {"file", "pos"}
    BY <1>0, <1>7, HeldEntry DEF GetArgument, ReaderState
  <2>2. PICK a \in rd[r].left :
            rd' = [rd EXCEPT ![r][a] = KdRecord(r)[a], ![r].left = @ \ {a},
                             ![r].pc = IF rd[r].left = {a} THEN "check" ELSE "args"]
    BY <1>7 DEF GetArgument
  <2> DEFINE l == IF rd[r].left = {a} THEN "check" ELSE "args"
  <2>3. l \in {"check", "args"}
    OBVIOUS
  <2>4. CASE a = "file"
    <3> DEFINE v == KdRecord(r).file
               x == [rd[r] EXCEPT !.file = v, !.left = @ \ {"file"}, !.pc = l]
    <3>1. rd' = [rd EXCEPT ![r] = x]
      BY <1>0, <2>2, <2>4
    <3> HIDE DEF v, l
    <3>2. x \in ReaderState /\ x.pc = l /\ x.key = rd[r].key /\ x.node = rd[r].node /\ x.file = v
      BY <1>0, <2>1, <2>3 DEF ReaderState, v
    <3> HIDE DEF x
    <3> QED BY <1>3, <1>7, <2>1, <2>3, <3>1, <3>2 DEF GetArgument, v
  <2>5. CASE a = "pos"
    <3> DEFINE v == KdRecord(r).pos
               x == [rd[r] EXCEPT !.pos = v, !.left = @ \ {"pos"}, !.pc = l]
    <3>1. rd' = [rd EXCEPT ![r] = x]
      BY <1>0, <2>2, <2>5
    <3> HIDE DEF v, l
    <3>2. x \in ReaderState /\ x.pc = l /\ x.key = rd[r].key /\ x.node = rd[r].node
          /\ x.file = rd[r].file
      BY <1>0, <2>1, <2>3 DEF ReaderState, v
    <3> HIDE DEF x
    <3> QED BY <1>0, <1>3, <1>7, <2>1, <2>3, <3>1, <3>2 DEF GetArgument
  <2> QED BY <2>1, <2>4, <2>5
<1>8. CASE CheckFd(r)
  BY <1>5, <1>8 DEF CheckFd
<1>9. CASE ReopenNotNeeded(r)
  BY <1>5, <1>9 DEF ReopenNotNeeded
<1>10. CASE ReopenFails(r)
  BY <1>4, <1>10 DEF ReopenFails
<1>11. CASE Read(r)
  <2>1. CASE \E result \in {"closed", "eof", "io", "crc"} : Return(r, result)
    BY <1>4, <1>11, <2>1 DEF Read
  <2>2. CASE \E id \in Passes(r) : rd' = [rd EXCEPT ![r].got = id, ![r].pc = "room"]
    <3>1. PICK id \in Passes(r) : rd' = [rd EXCEPT ![r].got = id, ![r].pc = "room"]
      BY <2>2
    <3>2. id \in 0 .. MaxWrites
      BY SizeAssumption DEF Passes, ReaderInv, WriteInv, TypeOK
    <3> DEFINE x == [rd[r] EXCEPT !.got = id, !.pc = "room"]
    <3>3. x \in ReaderState /\ x.pc = "room" /\ x.key = rd[r].key /\ x.node = rd[r].node
          /\ x.file = rd[r].file
      BY <1>0, <3>2 DEF ReaderState
    <3>4. rd' = [rd EXCEPT ![r] = x]
      BY <1>0, <3>1
    <3> HIDE DEF x
    <3> QED BY <1>0, <1>3, <1>11, <3>3, <3>4 DEF Read
  <2> QED BY <1>11, <2>1, <2>2 DEF Read
<1>12. CASE GetRoom(r)
  <2>1. KdRecord(r).vsize \in Nat /\ rd[r].pc = "room"
    BY <1>12, HeldEntry DEF GetRoom
  <2>2. CASE Return(r, "nomem")
    BY <1>4, <1>12, <2>1, <2>2 DEF GetRoom
  <2>3. CASE rd' = [rd EXCEPT ![r].room = KdRecord(r).vsize, ![r].pc = "copy"]
    <3> DEFINE v == KdRecord(r).vsize
               x == [rd[r] EXCEPT !.room = v, !.pc = "copy"]
    <3>1. rd' = [rd EXCEPT ![r] = x]
      BY <1>0, <2>3
    <3> HIDE DEF v
    <3>2. x \in ReaderState /\ x.pc = "copy" /\ x.key = rd[r].key /\ x.node = rd[r].node
          /\ x.file = rd[r].file
      BY <1>0, <2>1 DEF ReaderState, v
    <3> HIDE DEF x
    <3> QED BY <1>0, <1>3, <1>12, <2>1, <3>1, <3>2 DEF GetRoom
  <2> QED BY <1>12, <2>2, <2>3 DEF GetRoom
<1>13. CASE GetCopy(r)
  <2> DEFINE v == KdRecord(r).vsize
             x == [rd[r] EXCEPT !.copied = v, !.pc = "size"]
  <2>1. v \in Nat /\ rd[r].pc = "copy"
    BY <1>13, HeldEntry DEF GetCopy
  <2>2. rd' = [rd EXCEPT ![r] = x]
    BY <1>0, <1>13 DEF GetCopy
  <2> HIDE DEF v
  <2>3. x \in ReaderState /\ x.pc = "size" /\ x.key = rd[r].key /\ x.node = rd[r].node
        /\ x.file = rd[r].file
    BY <1>0, <2>1 DEF ReaderState
  <2> HIDE DEF x
  <2> QED BY <1>0, <1>3, <1>13, <2>1, <2>2, <2>3 DEF GetCopy
<1>14. CASE GetSize(r)
  <2> DEFINE v == KdRecord(r).vsize
             x == [rd[r] EXCEPT !.size = v, !.result = "ok", !.pc = "done"]
  <2>1. v \in Nat /\ rd[r].pc = "size"
    BY <1>14, HeldEntry DEF GetSize
  <2>2. rd' = [rd EXCEPT ![r] = x]
    BY <1>0, <1>14 DEF GetSize
  <2> HIDE DEF v
  <2>3. x \in ReaderState /\ x.pc = "done" /\ x.key = rd[r].key /\ x.node = rd[r].node
        /\ x.file = rd[r].file
    BY <1>0, <2>1 DEF ReaderState
  <2> HIDE DEF x
  <2> QED BY <1>0, <1>3, <1>14, <2>1, <2>2, <2>3 DEF GetSize
<1>15. CASE GetDone(r)
  <2>1. NotReading.pc = "idle" /\ NotReading.file <= active
    BY DEF NotReading, ReaderInv, WriteInv, TypeOK, FileId
  <2> QED BY <1>0, <1>1, <1>15, <2>1, ReaderAlone DEF GetDone
<1> QED BY <1>2, <1>6, <1>7, <1>8, <1>9, <1>10, <1>11, <1>12, <1>13, <1>14, <1>15

\* A reader reopens a file: it is closed, so it is not the active one, and nobody has a
\* descriptor of it.
LEMMA ReopenKeeps ==
    ASSUME ReaderInv, NEW r \in Readers, ReopenOk(r)
    PROVE  ReaderInv'
<1> DEFINE f == rd[r].file
           x == [rd[r] EXCEPT !.pc = "read"]
<1>1. /\ rd \in [Readers -> ReaderState] /\ rd[r] \in ReaderState /\ gets \in 0 .. MaxGets
      /\ rd[r].file <= active /\ active \in Nat /\ rd[r].pc = "reopen"
      /\ fd \in [FileId -> {"closed", "append", "read"}] /\ iterating \subseteq Callers
      /\ inv \in [FileId -> {"none", "sleep", "close"}] /\ running \in [FileId -> BOOLEAN]
      /\ reopened \in [FileId -> Nat]
  BY DEF ReaderInv, ReaderTypeOK, FilesUsed, WriteInv, TypeOK, FileId, ReopenOk, In
<1>2. f \in FileId /\ f \in Nat
  BY <1>1 DEF ReaderState, FileId
<1>3. fd[f] = "closed" /\ f # active
  BY <1>1, <1>2 DEF ReopenOk, StillClosed, IsOpen, ReaderInv, FilesUsed, StoreFiles
<1>4. f < active
  BY <1>1, <1>2, <1>3
<1>5. /\ rd' = [rd EXCEPT ![r] = x] /\ gets' = gets /\ fd' = [fd EXCEPT ![f] = "read"]
      /\ reopened' = [reopened EXCEPT ![f] = @ + 1]
      /\ UNCHANGED <<diskVars, phase, locked, keydir, iterating, hintVars, th, wr, counterVars>>
      /\ \/ inv' = [inv EXCEPT ![f] = IF running[f] THEN @ ELSE "sleep"]
            /\ running' = [running EXCEPT ![f] = TRUE]
         \/ inv' = inv /\ running' = running
  BY <1>1 DEF ReopenOk
<1>6. x \in ReaderState /\ x.pc = "read" /\ x.key = rd[r].key /\ x.node = rd[r].node /\ x.file = f
  BY <1>1 DEF ReaderState
<1>7. rd[r].key \in Keys /\ rd[r].node \in 1 .. Len(keydir[rd[r].key])
  BY <1>1, HeldEntry
<1> HIDE DEF f, x
<1>8. /\ fd' \in [FileId -> {"closed", "append", "read"}]
      /\ \A g \in FileId : fd'[g] = "append" <=> fd[g] = "append"
  BY <1>1, <1>2, <1>3, <1>5
<1>9. WriteInv' /\ IndexLeads' /\ StoreFiles' /\ active' = active /\ keydir' = keydir
  BY <1>1, <1>5, <1>8, StoreAlone
<1>10. inv' \in [FileId -> {"none", "sleep", "close"}] /\ running' \in [FileId -> BOOLEAN]
  BY <1>1, <1>2, <1>5
<1>11. reopened[f] = 0 /\ reopened' = [reopened EXCEPT ![f] = 1]
  <2>1. reopened[f] = 0
    BY <1>2, <1>3 DEF ReaderInv, DescriptorsOwned
  <2>2. reopened[f] + 1 = 1
    BY <2>1
  <2> QED BY <1>5, <2>1, <2>2
<1>12. DescriptorsOwned'
  <2> SUFFICES ASSUME NEW g \in FileId
               PROVE  /\ reopened'[g] = IF fd'[g] = "read" THEN 1 ELSE 0
                      /\ fd'[g] = "read" => g < active'
                      /\ inv'[g] = "close" => fd'[g] = "read"
                      /\ running'[g] = (inv'[g] # "none")
    BY DEF DescriptorsOwned
  <2>1. /\ reopened[g] = IF fd[g] = "read" THEN 1 ELSE 0
        /\ fd[g] = "read" => g < active
        /\ inv[g] = "close" => fd[g] = "read"
        /\ running[g] = (inv[g] # "none")
    BY DEF ReaderInv, DescriptorsOwned
  <2>2. CASE g # f
    BY <1>1, <1>5, <1>9, <2>1, <2>2
  <2>3. CASE g = f
    <3>1. fd'[g] = "read" /\ reopened'[g] = 1 /\ g < active'
      BY <1>1, <1>2, <1>4, <1>5, <1>9, <1>11, <2>3
    <3>2. CASE inv' = [inv EXCEPT ![f] = IF running[f] THEN @ ELSE "sleep"]
               /\ running' = [running EXCEPT ![f] = TRUE]
      BY <1>1, <2>1, <2>3, <3>1, <3>2
    <3>3. CASE inv' = inv /\ running' = running
      BY <2>1, <2>3, <3>1, <3>3
    <3> QED BY <1>5, <3>2, <3>3
  <2> QED BY <2>2, <2>3
<1>13. reopened' \in [FileId -> Nat]
  BY <1>1, <1>2, <1>11
<1> QED BY <1>1, <1>2, <1>4, <1>5, <1>6, <1>7, <1>9, <1>10, <1>12, <1>13, ReaderFrame DEF f

\* An invalidator decides without the lock and closes under it; in between nobody else
\* closes the descriptor it is going to close.
LEMMA InvalidatorKeeps ==
    ASSUME ReaderInv, NEW f \in FileId, InvalidatorStep(f)
    PROVE  ReaderInv'
<1>1. /\ fd \in [FileId -> {"closed", "append", "read"}] /\ iterating \subseteq Callers
      /\ inv \in [FileId -> {"none", "sleep", "close"}] /\ running \in [FileId -> BOOLEAN]
      /\ reopened \in [FileId -> Nat]
      /\ \A g \in FileId : /\ reopened[g] = IF fd[g] = "read" THEN 1 ELSE 0
                           /\ fd[g] = "read" => g < active
                           /\ inv[g] = "close" => fd[g] = "read"
                           /\ running[g] = (inv[g] # "none")
      /\ \A g \in FileId : fd[g] = "append" <=> g = active
  BY DEF ReaderInv, ReaderTypeOK, WriteInv, TypeOK, DescriptorsOwned, FilesUsed, StoreFiles
<1>2. rd' = rd /\ gets' = gets
      /\ UNCHANGED <<diskVars, phase, locked, keydir, iterating, hintVars, th, wr, counterVars>>
  BY DEF InvalidatorStep, InvalidatorTest, InvalidatorClose, vars, fileVars
<1>3. /\ fd' \in [FileId -> {"closed", "append", "read"}]
      /\ \A g \in FileId : fd'[g] = "append" <=> fd[g] = "append"
      /\ inv' \in [FileId -> {"none", "sleep", "close"}] /\ running' \in [FileId -> BOOLEAN]
      /\ reopened' \in [FileId -> Nat]
      /\ \A g \in FileId : /\ reopened'[g] = IF fd'[g] = "read" THEN 1 ELSE 0
                           /\ fd'[g] = "read" => fd[g] = "read"
                           /\ inv'[g] = "close" => fd'[g] = "read"
                           /\ running'[g] = (inv'[g] # "none")
  <2>1. CASE InvalidatorTest(f)
    <3>1. fd[f] = "read" /\ inv[f] = "sleep"
      BY <1>1, <2>1 DEF InvalidatorTest, IsOpen
    <3>2. fd' = fd /\ running' = running /\ reopened' = reopened /\ inv' = [inv EXCEPT ![f] = "close"]
      BY <2>1 DEF InvalidatorTest, vars, fileVars
    <3> QED BY <1>1, <3>1, <3>2
  <2>2. CASE InvalidatorClose(f)
    <3>1. fd[f] = "read" /\ reopened[f] = 1
      BY <1>1, <2>2 DEF InvalidatorClose
    <3>2. /\ fd' = [fd EXCEPT ![f] = "closed"] /\ running' = [running EXCEPT ![f] = FALSE]
          /\ reopened' = [reopened EXCEPT ![f] = 0] /\ inv' = [inv EXCEPT ![f] = "none"]
      BY <3>1, <2>2 DEF InvalidatorClose, FlagCleared, IsOpen
    <3> QED BY <1>1, <3>1, <3>2
  <2> QED BY <2>1, <2>2 DEF InvalidatorStep
<1>4. WriteInv' /\ IndexLeads' /\ StoreFiles' /\ active' = active /\ keydir' = keydir
  BY <1>1, <1>2, <1>3, StoreAlone
<1>5. ReaderTypeOK' /\ KeyKnown'
  BY <1>2, <1>3, <1>4 DEF ReaderInv, ReaderTypeOK, KeyKnown
<1>6. FilesUsed'
  BY <1>2, <1>4 DEF ReaderInv, FilesUsed
<1>7. DescriptorsOwned'
  BY <1>1, <1>3, <1>4 DEF DescriptorsOwned
<1> QED BY <1>4, <1>5, <1>6, <1>7 DEF ReaderInv

\* Key iterators open no file, and a step that changes nothing keeps everything.
LEMMA IteratorKeeps ==
    ASSUME ReaderInv,
           (\E c \in Callers : OpenIter(c) \/ CloseIter(c)) \/ UNCHANGED allVars
    PROVE  ReaderInv'
<1>1. fd \in [FileId -> {"closed", "append", "read"}] /\ iterating \subseteq Callers
  BY DEF ReaderInv, WriteInv, TypeOK
<1>2. /\ UNCHANGED <<diskVars, phase, fd, locked, keydir, hintVars, th, wr, counterVars>>
      /\ rd' = rd /\ inv' = inv /\ running' = running /\ reopened' = reopened /\ gets' = gets
  BY DEF OpenIter, CloseIter, ListKeys, IterClose, allVars, vars, fileVars, readerVars
<1>3. iterating' \subseteq Callers
  BY <1>1 DEF OpenIter, CloseIter, ListKeys, IterClose, allVars, vars
<1>4. WriteInv' /\ IndexLeads' /\ StoreFiles' /\ active' = active /\ keydir' = keydir
  BY <1>1, <1>2, <1>3, StoreAlone
<1>5. ReaderTypeOK' /\ KeyKnown'
  BY <1>2, <1>4 DEF ReaderInv, ReaderTypeOK, KeyKnown
<1>6. FilesUsed' /\ DescriptorsOwned'
  BY <1>2, <1>4 DEF ReaderInv, FilesUsed, DescriptorsOwned
<1> QED BY <1>4, <1>5, <1>6 DEF ReaderInv

-----------------------------------------------------------------------------
(* Theorems that need nothing of the application *)

\* Every step keeps the invariant.
LEMMA ReaderInvStep == ReaderInv /\ [ReaderNext]_allVars => ReaderInv'
<1> SUFFICES ASSUME ReaderInv, [ReaderNext]_allVars PROVE ReaderInv'
  OBVIOUS
<1>1. CASE \E t \in Threads : PutStep(t) \/ \E k \in Keys, v \in ValueSizes : BeginPut(t, k, v)
  BY <1>1, PutKeeps
<1>2. CASE (\E c \in Callers : OpenIter(c) \/ CloseIter(c)) \/ UNCHANGED allVars
  BY <1>2, IteratorKeeps
<1>3. CASE \E r \in Readers : ReaderStep(r) \/ \E k \in Keys : BeginGet(r, k)
  BY <1>3, GetKeeps, ReopenKeeps DEF ReaderStep, GetStep, BeginGet
<1>4. CASE \E f \in FileId : InvalidatorStep(f)
  BY <1>4, InvalidatorKeeps
<1> QED BY <1>1, <1>2, <1>3, <1>4 DEF ReaderNext

\* The invariant holds in every reachable state, under every fault.
THEOREM ReaderInvariant == ReaderSafeSpec => []ReaderInv
BY ReaderInvInit, ReaderInvStep, PTL DEF ReaderSafeSpec

\* Every variable of the store and of the readers has its type, and a reader past the
\* lookup holds an entry of its key for as long as it needs it.
THEOREM ReaderTypes == ReaderSafeSpec => [](TypeOK /\ ReaderTypeOK)
<1>1. ReaderInv => TypeOK /\ ReaderTypeOK
  BY DEF ReaderInv, WriteInv
<1> QED BY <1>1, ReaderInvariant, PTL

\* A file has one reader's descriptor at most, and an invalidator closes what it decided
\* to close, however readers, writers and invalidators interleave, up to a rotation that
\* begins without the lock of the head.
THEOREM DescriptorsAreOwned == ReaderSafeSpec => []DescriptorsOwned
<1>1. ReaderInv => DescriptorsOwned
  BY DEF ReaderInv
<1> QED BY <1>1, ReaderInvariant, PTL

\* The index never dangles beside readers either, although a late writer may find its file
\* reopened read-only, up to a rotation that begins without the lock of the head.
THEOREM IndexSoundBesideReaders == ReaderSafeSpec => []KeydirSound
<1>1. ReaderInv => KeydirSound
  BY IndexIsSound DEF ReaderInv
<1> QED BY <1>1, ReaderInvariant, PTL

-----------------------------------------------------------------------------
(* When no rotation begins without the lock of the head *)

\* Past ccask_files_get_active_file a thread works in the active file.
InActive == \A t \in Threads : th[t].pc \notin {"idle", "active"} => th[t].file = active

\* If nobody else rotates, the file a thread took for the active one stays the active one.
LEMMA AloneInActive ==
    ASSUME \A t, u \in Threads : t = u, WriteInv, InActive, NEW t \in Threads,
           ThreadStep(t) \/ \E k \in Keys, v \in ValueSizes : Begin(t, k, v)
    PROVE  InActive'
<1>1. th \in [Threads -> Thread] /\ th[t] \in Thread
  BY DEF WriteInv, TypeOK
<1>2. SUFFICES th'[t].pc \notin {"idle", "active"} => th'[t].file = active'
  BY DEF InActive
<1>3. th[t].pc \notin {"idle", "active"} => th[t].file = active
  BY DEF InActive
<1>4. CASE Rotate(t) \/ RotateFails(t) \/ \E k \in Keys, v \in ValueSizes : Begin(t, k, v)
  <2>1. CASE Goto(t, "active")
    BY <2>1, GotoType
  <2>2. CASE \E k \in Keys, v \in ValueSizes : Begin(t, k, v)
    BY <1>1, <2>2 DEF Begin, Idle
  <2> QED BY <1>4, <2>1, <2>2 DEF Rotate, RotateFails
<1>5. CASE /\ active' = active
           /\ ~(Rotate(t) \/ RotateFails(t) \/ \E k \in Keys, v \in ValueSizes : Begin(t, k, v))
  <2>1. CASE GetActiveFile(t)
    BY <1>1, <1>5, <2>1 DEF GetActiveFile, Thread
  <2>2. CASE Finish(t, "ok") \/ Finish(t, "fail")
    BY <1>1, <2>2 DEF Finish, Idle
  <2>3. CASE /\ th[t].pc \notin {"idle", "active"}
             /\ Goto(t, "rotate") \/ Goto(t, "find") \/ Goto(t, "spin")
    BY <1>1, <1>3, <1>5, <2>3 DEF Goto, Thread
  <2>4. CASE SeekOk(t)
    BY <1>1, <1>3, <1>5, <2>4 DEF SeekOk, At, Thread
  <2>5. CASE WritePart(t)
    BY <1>1, <1>3, <1>5, <2>5 DEF WritePart, At, Thread
  <2>6. CASE Find(t)
    BY <1>1, <1>3, <1>5, <2>6 DEF Find, At, Thread
  <2> QED BY <1>5, <2>1, <2>2, <2>3, <2>4, <2>5, <2>6
       DEF ThreadStep, SeekStep, SeekFails, SeekFull, RotateStep, WriteStep,
           WriteRest, WriteSpins, WriteFails, UpsertStep, Upsert, UpsertNoMemory, At
<1> QED BY <1>4, <1>5, OnlyRotate

\* With a sole writer every rotation begins with the lock of the head, so nothing is left
\* out of the theorems about readers: the behaviours of Reader never end early.
THEOREM SoleWriterHoldsHead ==
    ASSUME \A t, u \in Threads : t = u
    PROVE  ReaderSafeSpec => []HeadLocked
<1>1. ReaderInit => InActive
  BY DEF ReaderInit, Init, InActive, Idle
<1>2. ReaderInv /\ InActive /\ [ReaderNext]_allVars => InActive'
  <2> SUFFICES ASSUME ReaderInv, InActive, [ReaderNext]_allVars PROVE InActive'
    OBVIOUS
  <2>1. CASE \E t \in Threads : PutStep(t) \/ \E k \in Keys, v \in ValueSizes : BeginPut(t, k, v)
    BY <2>1, AloneInActive DEF ReaderInv, PutStep, BeginPut
  <2>2. CASE th' = th /\ active' = active
    BY <2>2 DEF InActive
  <2>3. CASE (\E c \in Callers : OpenIter(c) \/ CloseIter(c)) \/ UNCHANGED allVars
    BY <2>2, <2>3 DEF OpenIter, CloseIter, ListKeys, IterClose, allVars, vars, diskVars
  <2>4. CASE \E r \in Readers : ReaderStep(r) \/ \E k \in Keys : BeginGet(r, k)
    BY <2>2, <2>4 DEF ReaderStep, GetStep, BeginGet, GetFind, GetAllocate, GetArgument, CheckFd, ReopenOk,
       ReopenNotNeeded, ReopenFails, Read, GetRoom, GetCopy, GetSize, GetDone, vars, diskVars
  <2>5. CASE \E f \in FileId : InvalidatorStep(f)
    BY <2>2, <2>5 DEF InvalidatorStep, InvalidatorTest, InvalidatorClose, vars, diskVars
  <2> QED BY <2>1, <2>3, <2>4, <2>5 DEF ReaderNext
<1>3. InActive => HeadLocked
  BY DEF InActive, HeadLocked
<1> QED BY <1>1, <1>2, <1>3, ReaderInvariant, PTL DEF ReaderSafeSpec

-----------------------------------------------------------------------------
(* What ccask_get returns, when the application lets no other call of a key *)
(* overlap a write of it: the latest value whose write succeeded, whole.   *)

\* The call id is a successful write of k; it is the latest one.
Stored(k, id) == id \in 1 .. Len(wr) /\ wr[id].key = k /\ wr[id].status = "ok"
Latest(k, id) == Stored(k, id) /\ \A i \in 1 .. Len(wr) : Stored(k, i) => i <= id

\* The entry e is where the record of call id is.
Points(e, id) == wr[id].vsize = e.vsize /\ e.vsize > 0 /\ Whole(e.file, e.pos, id)

Reading(r) == rd[r].pc # "idle"

\* What the application's care gives: a call that writes a key is the only one that
\* uses it, and the last one that began to write it.
Alone(t) ==
    /\ Writing(t) =>
          /\ wr[th[t].id].status = "pending"
          /\ \A i \in 1 .. Len(wr) : wr[i].key = wr[th[t].id].key => i <= th[t].id
          /\ \A u \in Threads \ {t} : Writing(u) => wr[th[u].id].key # wr[th[t].id].key
          /\ \A r \in Readers : Reading(r) => rd[r].key # wr[th[t].id].key
    /\ th[t].pc = "upsert" => th[t].node = Len(keydir[wr[th[t].id].key])

\* The index then has one entry for a key that was written, to the latest record.
Indexed(k) ==
    \/ keydir[k] = <<>> /\ \A id : ~Stored(k, id)
    \/ Len(keydir[k]) = 1 /\ \E id \in 1 .. Len(wr) : Latest(k, id) /\ Points(keydir[k][1], id)

\* What a reader has taken from the entry so far is what the entry says.
TakesEntry(r) ==
    /\ rd[r].pc \in {"args", "check", "reopen", "read", "room", "copy", "size"} =>
          rd[r].want = KdRecord(r).vsize
    /\ rd[r].pc = "args" => /\ rd[r].left # {}
                            /\ "file" \notin rd[r].left => rd[r].file = KdRecord(r).file
                            /\ "pos" \notin rd[r].left => rd[r].pos = KdRecord(r).pos
    /\ rd[r].pc \in {"check", "reopen", "read"} =>
          rd[r].file = KdRecord(r).file /\ rd[r].pos = KdRecord(r).pos
    /\ rd[r].pc \in {"room", "copy", "size"} => Latest(rd[r].key, rd[r].got)
    /\ rd[r].pc \in {"copy", "size"} => rd[r].room = KdRecord(r).vsize
    /\ rd[r].pc = "size" => rd[r].copied = KdRecord(r).vsize

\* What it answers.
Answers(r) ==
    /\ rd[r].pc # "done" => rd[r].result = "none"
    /\ rd[r].result \notin {"eof", "crc"}
    /\ rd[r].pc = "done" /\ rd[r].result = "none" => keydir[rd[r].key] = <<>>
    /\ rd[r].pc = "done" /\ rd[r].result = "ok" =>
          /\ Latest(rd[r].key, rd[r].got) /\ wr[rd[r].got].vsize = rd[r].size
          /\ rd[r].copied = rd[r].size /\ rd[r].room = rd[r].size /\ rd[r].want = rd[r].size

Serial == /\ \A t \in Threads : Alone(t)
          /\ \A k \in Keys : Indexed(k)
          /\ \A r \in Readers : TakesEntry(r) /\ Answers(r)
SerialInv == ReaderInv /\ (AppSerialises => Serial)

\* It holds at the start: there is no call.
LEMMA SerialInit == ReaderInit => SerialInv
<1> SUFFICES ASSUME ReaderInit PROVE SerialInv
  OBVIOUS
<1>1. /\ \A t \in Threads : th[t].pc = "idle"
      /\ \A k \in Keys : keydir[k] = <<>>
      /\ wr = <<>>
      /\ \A r \in Readers : rd[r].pc = "idle" /\ rd[r].result = "none"
  BY DEF ReaderInit, Init, Idle, NotReading
<1>2. \A k, id : ~Stored(k, id)
  BY <1>1 DEF Stored
<1>3. Serial
  BY <1>1, <1>2 DEF Serial, Alone, Writing, Indexed, TakesEntry, Answers
<1> QED BY <1>3, ReaderInvInit DEF SerialInv

-----------------------------------------------------------------------------
(* What a step leaves alone *)

\* The successful writes of k are the same after the step.
SameStored(k) == \A id : Stored(k, id)' <=> Stored(k, id)

\* The latest of them stays the latest.
LEMMA LatestKept ==
    ASSUME NEW k, NEW id, SameStored(k), Latest(k, id)
    PROVE  Latest(k, id)'
<1>1. Stored(k, id)'
  BY DEF SameStored, Latest
<1>2. \A i \in 1 .. Len(wr') : Stored(k, i)' => i <= id
  <2> SUFFICES ASSUME NEW i \in 1 .. Len(wr'), Stored(k, i)' PROVE i <= id
    OBVIOUS
  <2>1. Stored(k, i)
    BY DEF SameStored
  <2>2. i \in 1 .. Len(wr)
    BY <2>1 DEF Stored
  <2> QED BY <2>1, <2>2 DEF Latest
<1> QED BY <1>1, <1>2 DEF Latest

\* A record stays where its entry points.
LEMMA PointsKept ==
    ASSUME WriteInv, StepKeeps, NEW e \in Entry, NEW id \in 1 .. Len(wr), Points(e, id)
    PROVE  Points(e, id)'
<1>1. /\ data \in [FileId -> Seq(Cell)] /\ wr \in Seq(Call)
      /\ data' \in [FileId -> Seq(Cell)] /\ wr' \in Seq(Call) /\ Grows /\ CallsKept
  BY DEF StepKeeps, WriteInv, TypeOK
<1>2. e.file \in FileId /\ e.pos \in Nat
  BY DEF Entry
<1>3. Whole(e.file, e.pos, id)'
  BY <1>1, <1>2, WholeKept DEF Points
<1>4. wr'[id].vsize = wr[id].vsize
  BY <1>1 DEF CallsKept
<1> QED BY <1>3, <1>4 DEF Points

\* So the index of a key that the step does not concern stays right.
LEMMA IndexedKept ==
    ASSUME WriteInv, StepKeeps, NEW k \in Keys, keydir'[k] = keydir[k], SameStored(k), Indexed(k)
    PROVE  Indexed(k)'
<1>1. CASE keydir[k] = <<>> /\ \A id : ~Stored(k, id)
  <2>1. \A id : ~Stored(k, id)'
    BY <1>1 DEF SameStored
  <2> QED BY <1>1, <2>1 DEF Indexed
<1>2. CASE Len(keydir[k]) = 1 /\ \E id \in 1 .. Len(wr) : Latest(k, id) /\ Points(keydir[k][1], id)
  <2>1. PICK id \in 1 .. Len(wr) : Latest(k, id) /\ Points(keydir[k][1], id)
    BY <1>2
  <2>2. keydir[k][1] \in Entry
    <3>1. keydir[k] \in Seq(Entry)
      BY DEF WriteInv, TypeOK
    <3> QED BY <1>2, <3>1
  <2>3. PICK e \in Entry : keydir[k][1] = e
    BY <2>2
  <2>4. Points(e, id)' /\ Latest(k, id)'
    <3>1. Points(e, id)
      BY <2>1, <2>3
    <3> QED BY <2>1, <3>1, PointsKept, LatestKept
  <2>5. Points(keydir[k][1], id)'
    BY <2>3, <2>4 DEF Points, Whole, Size
  <2>6. id \in 1 .. Len(wr')
    BY <2>4 DEF Latest, Stored
  <2> QED BY <1>2, <2>4, <2>5, <2>6 DEF Indexed
<1> QED BY <1>1, <1>2 DEF Indexed

\* And so does what a reader of such a key knows.
LEMMA ReaderKept ==
    ASSUME StepKeeps, NEW r \in Readers, rd'[r] = rd[r], TakesEntry(r), Answers(r),
           Reading(r) => keydir'[rd[r].key] = keydir[rd[r].key] /\ SameStored(rd[r].key)
    PROVE  TakesEntry(r)' /\ Answers(r)'
<1>1. CASE rd[r].pc = "idle"
  BY <1>1 DEF TakesEntry, Answers
<1>2. CASE rd[r].pc # "idle"
  <2>1. keydir'[rd[r].key] = keydir[rd[r].key] /\ SameStored(rd[r].key)
    BY <1>2 DEF Reading
  <2>2. PICK k, g : k = rd[r].key /\ g = rd[r].got
    OBVIOUS
  <2>3. Latest(k, g) => Latest(k, g)' /\ wr'[g].vsize = wr[g].vsize
    <3>1. SameStored(k)
      BY <2>1, <2>2 DEF SameStored, Stored
    <3> QED BY <3>1, LatestKept DEF Latest, Stored, StepKeeps, CallsKept
  <2>4. Latest(rd[r].key, rd[r].got) => Latest(rd[r].key, rd[r].got)'
    BY <2>2, <2>3 DEF Latest, Stored
  <2>5. KdRecord(r)' = KdRecord(r)
    BY <2>1 DEF KdRecord
  <2>6. TakesEntry(r)'
    BY <2>4, <2>5 DEF TakesEntry
  <2>7. Answers(r)'
    BY <2>1, <2>2, <2>3, <2>4 DEF Answers
  <2> QED BY <2>6, <2>7
<1> QED BY <1>1, <1>2

-----------------------------------------------------------------------------
(* Steps of the write path *)

\* A step of a thread goes on with the call, or ends it in failure, or indexes its
\* record.
LEMMA ThreadEffects ==
    ASSUME WriteInv, NEW t \in Threads, ThreadStep(t)
    PROVE  /\ Writing(t) /\ \A u \in Threads \ {t} : th'[u] = th[u]
           /\ \/ /\ wr' = wr /\ keydir' = keydir /\ th'[t].pc # "idle" /\ th'[t].id = th[t].id
                 /\ th'[t].pc = "upsert" => th'[t].node = Len(keydir[wr[th[t].id].key])
              \/ Finish(t, "fail") /\ keydir' = keydir
              \/ Upsert(t)
<1> USE DEF At
<1>1. th \in [Threads -> Thread] /\ th[t] \in Thread
  BY DEF WriteInv, TypeOK
<1>2. \A u \in Threads \ {t} : th'[u] = th[u]
  BY ThreadFile
<1>3. CASE GetActiveFile(t)
  <2> DEFINE new == [th[t] EXCEPT !.file = active, !.pc = "lock"]
  <2>1. new.pc = "lock" /\ new.id = th[t].id
    BY <1>1 DEF Thread
  <2>2. th'[t] = new /\ wr' = wr /\ keydir' = keydir /\ th[t].pc = "active"
    BY <1>1, <1>3 DEF GetActiveFile
  <2> HIDE DEF new
  <2> QED BY <1>2, <2>1, <2>2 DEF Writing
<1>4. CASE SeekFails(t) \/ WriteFails(t) \/ UpsertNoMemory(t)
  BY <1>2, <1>4 DEF SeekFails, WriteFails, UpsertNoMemory, Writing
<1>5. CASE SeekFull(t) \/ RotateStep(t) \/ WriteRest(t) \/ WriteSpins(t)
  <2>1. /\ Goto(t, "rotate") \/ Goto(t, "active") \/ Goto(t, "find") \/ Goto(t, "spin")
        /\ wr' = wr /\ keydir' = keydir /\ th[t].pc # "idle"
    BY <1>5 DEF SeekFull, RotateStep, Rotate, RotateFails, WriteRest, WriteSpins
  <2>2. th'[t].id = th[t].id /\ th'[t].pc \in {"rotate", "active", "find", "spin"}
    BY <2>1, GotoType
  <2> QED BY <1>2, <2>1, <2>2 DEF Writing
<1>6. CASE SeekOk(t)
  <2> DEFINE p   == SeekEnd(t)
             new == [th[t] EXCEPT !.pos = p, !.pc = "write"]
  <2>1. th'[t] = new /\ wr' = wr /\ keydir' = keydir /\ th[t].pc = "lock"
    BY <1>1, <1>6 DEF SeekOk
  <2> HIDE DEF p
  <2>2. new.pc = "write" /\ new.id = th[t].id
    BY <1>1 DEF Thread
  <2> HIDE DEF new
  <2> QED BY <1>2, <2>1, <2>2 DEF Writing
<1>7. CASE WritePart(t)
  <2>1. PICK n : th' = [th EXCEPT ![t].sent = @ + n]
    BY <1>7 DEF WritePart
  <2> DEFINE new == [th[t] EXCEPT !.sent = @ + n]
  <2>2. th'[t] = new /\ wr' = wr /\ keydir' = keydir /\ th[t].pc = "write"
    BY <1>1, <1>7, <2>1 DEF WritePart
  <2>3. new.pc = th[t].pc /\ new.id = th[t].id
    BY <1>1 DEF Thread
  <2> HIDE DEF new
  <2> QED BY <1>2, <2>2, <2>3 DEF Writing
<1>8. CASE Find(t)
  <2> DEFINE n   == Len(keydir[wr[th[t].id].key])
             new == [th[t] EXCEPT !.node = n, !.pc = "upsert"]
  <2>1. th'[t] = new /\ wr' = wr /\ keydir' = keydir /\ th[t].pc = "find"
    BY <1>1, <1>8 DEF Find
  <2> HIDE DEF n
  <2>2. new.pc = "upsert" /\ new.id = th[t].id /\ new.node = n
    BY <1>1 DEF Thread
  <2> HIDE DEF new
  <2> QED BY <1>2, <2>1, <2>2 DEF Writing, n
<1>9. CASE Upsert(t)
  BY <1>2, <1>9 DEF Upsert, Writing
<1> QED BY <1>3, <1>4, <1>5, <1>6, <1>7, <1>8, <1>9
     DEF ThreadStep, SeekStep, WriteStep, UpsertStep

\* The call goes on: nothing that others rely on changes.
LEMMA ContinueSerial ==
    ASSUME WriteInv, StepKeeps, Serial, NEW t \in Threads, Writing(t), rd' = rd,
           \A u \in Threads \ {t} : th'[u] = th[u],
           wr' = wr, keydir' = keydir, th'[t].pc # "idle", th'[t].id = th[t].id,
           th'[t].pc = "upsert" => th'[t].node = Len(keydir[wr[th[t].id].key])
    PROVE  Serial'
<1>1. \A k : SameStored(k)
  BY DEF SameStored, Stored
<1>2. \A k \in Keys : Indexed(k)'
  BY <1>1, IndexedKept DEF Serial
<1>3. \A r \in Readers : TakesEntry(r)' /\ Answers(r)'
  <2> SUFFICES ASSUME NEW r \in Readers PROVE TakesEntry(r)' /\ Answers(r)'
    OBVIOUS
  <2>1. SameStored(rd[r].key)
    BY DEF SameStored, Stored
  <2> QED BY <2>1, ReaderKept DEF Serial
<1>4. \A u \in Threads : (Writing(u)' <=> Writing(u)) /\ (Writing(u) => th'[u].id = th[u].id)
                        /\ (u # t => th'[u] = th[u])
  BY DEF Writing
<1>5. ASSUME NEW u \in Threads PROVE Alone(u)'
  <2>1. Alone(u)
    BY DEF Serial
  <2>2. th'[u].pc = "upsert" => th'[u].node = Len(keydir'[wr'[th'[u].id].key])
    BY <1>4, <2>1 DEF Alone
  <2>3. Writing(u)' => /\ wr'[th'[u].id].status = "pending"
                       /\ \A i \in 1 .. Len(wr') : wr'[i].key = wr'[th'[u].id].key => i <= th'[u].id
                       /\ \A w \in Threads \ {u} : Writing(w)' => wr'[th'[w].id].key # wr'[th'[u].id].key
                       /\ \A r \in Readers : Reading(r)' => rd'[r].key # wr'[th'[u].id].key
    BY <1>4, <2>1 DEF Alone, Reading
  <2> QED BY <2>2, <2>3 DEF Alone
<1> QED BY <1>2, <1>3, <1>5 DEF Serial

\* The others go on as before; the calls of other keys are what they were.
LEMMA EndedAlone ==
    ASSUME WriteInv, Serial, NEW t \in Threads, Writing(t), NEW outcome \in {"ok", "fail"},
           Finish(t, outcome), rd' = rd,
           \A k \in Keys : k # wr[th[t].id].key => keydir'[k] = keydir[k]
    PROVE  /\ \A u \in Threads : Alone(u)'
           /\ \A k : k # wr[th[t].id].key => SameStored(k)
<1>1. /\ th[t].id \in 1 .. Len(wr) /\ Len(wr') = Len(wr) /\ Len(wr) \in Nat
      /\ th'[t].pc = "idle" /\ \A u \in Threads \ {t} : th'[u] = th[u]
      /\ \A i \in 1 .. Len(wr) : /\ wr'[i].key = wr[i].key /\ wr'[i].vsize = wr[i].vsize
                                 /\ i # th[t].id => wr'[i].status = wr[i].status
  BY EndedCall
<1>2. ASSUME NEW k, k # wr[th[t].id].key PROVE SameStored(k)
  BY <1>1, <1>2 DEF SameStored, Stored
<1>3. ASSUME NEW u \in Threads, Writing(u)
      PROVE  th[u].id \in 1 .. Len(wr)
  BY <1>3 DEF Writing, WriteInv, ThreadOK
<1>4. ASSUME NEW u \in Threads PROVE Alone(u)'
  <2>1. CASE u = t
    BY <1>1, <2>1 DEF Alone, Writing
  <2>2. CASE u # t /\ ~Writing(u)
    BY <1>1, <2>2 DEF Alone, Writing
  <2>3. CASE u # t /\ Writing(u)
    <3>1. /\ th'[u] = th[u] /\ th[u].id \in 1 .. Len(wr)
          /\ wr'[th[u].id].key = wr[th[u].id].key
      BY <1>1, <1>3, <2>3
    <3>2. /\ wr[th[u].id].status = "pending"
          /\ \A i \in 1 .. Len(wr) : wr[i].key = wr[th[u].id].key => i <= th[u].id
          /\ \A w \in Threads \ {u} : Writing(w) => wr[th[w].id].key # wr[th[u].id].key
          /\ \A r \in Readers : Reading(r) => rd[r].key # wr[th[u].id].key
          /\ th[u].pc = "upsert" => th[u].node = Len(keydir[wr[th[u].id].key])
      BY <2>3 DEF Serial, Alone
    <3>3. wr[th[u].id].key # wr[th[t].id].key /\ wr[th[u].id].key \in Keys
      BY <2>3, <3>1, <3>2, CallSize DEF WriteInv, TypeOK
    <3>4. wr'[th[u].id].status = "pending"
      BY <1>1, <3>1, <3>2, <3>3
    <3>5. \A i \in 1 .. Len(wr') : wr'[i].key = wr'[th'[u].id].key => i <= th'[u].id
      BY <1>1, <3>1, <3>2
    <3>6. ASSUME NEW w \in Threads \ {u}, Writing(w)'
          PROVE  wr'[th'[w].id].key # wr'[th'[u].id].key
      <4>1. w # t /\ Writing(w) /\ th'[w] = th[w]
        BY <1>1, <3>6 DEF Writing
      <4>2. wr'[th[w].id].key = wr[th[w].id].key
        BY <1>1, <1>3, <4>1
      <4> QED BY <3>1, <3>2, <4>1, <4>2
    <3>7. \A r \in Readers : Reading(r)' => rd'[r].key # wr'[th'[u].id].key
      BY <3>1, <3>2 DEF Reading
    <3>8. th'[u].pc = "upsert" => th'[u].node = Len(keydir'[wr'[th'[u].id].key])
      BY <3>1, <3>2, <3>3
    <3> QED BY <3>1, <3>4, <3>5, <3>6, <3>7, <3>8 DEF Alone
  <2> QED BY <2>1, <2>2, <2>3
<1> QED BY <1>2, <1>4

\* A call fails: no successful write appears or disappears.
LEMMA FailSerial ==
    ASSUME WriteInv, StepKeeps, Serial, NEW t \in Threads, Writing(t), rd' = rd,
           Finish(t, "fail"), keydir' = keydir
    PROVE  Serial'
<1>1. /\ th[t].id \in 1 .. Len(wr) /\ Len(wr') = Len(wr) /\ wr'[th[t].id].status = "fail"
      /\ \A i \in 1 .. Len(wr) : /\ wr'[i].key = wr[i].key
                                 /\ i # th[t].id => wr'[i].status = wr[i].status
  BY EndedCall
<1>2. wr[th[t].id].status = "pending"
  BY DEF Serial, Alone
<1>3. \A k : SameStored(k)
  BY <1>1, <1>2 DEF SameStored, Stored
<1>4. \A u \in Threads : Alone(u)'
  BY EndedAlone
<1>5. \A k \in Keys : Indexed(k)'
  BY <1>3, IndexedKept DEF Serial
<1>6. \A r \in Readers : TakesEntry(r)' /\ Answers(r)'
  <2> SUFFICES ASSUME NEW r \in Readers PROVE TakesEntry(r)' /\ Answers(r)'
    OBVIOUS
  <2>1. PICK k : k = rd[r].key
    OBVIOUS
  <2>2. SameStored(rd[r].key)
    BY <1>3, <2>1 DEF SameStored, Stored
  <2> QED BY <2>2, ReaderKept DEF Serial
<1> QED BY <1>4, <1>5, <1>6 DEF Serial

\* A call indexes its record: it becomes the latest of its key, which nobody reads.
LEMMA UpsertSerial ==
    ASSUME WriteInv, StepKeeps, Serial, KeyKnown, NEW t \in Threads, Writing(t), rd' = rd,
           Upsert(t)
    PROVE  Serial'
<1>0. PICK k, n, c : k = wr[th[t].id].key /\ n = th[t].node /\ c = th[t].id
  OBVIOUS
<1>1. PICK e : e = NewEntry(t)
  OBVIOUS
<1>2. /\ c \in 1 .. Len(wr) /\ k \in Keys /\ e \in Entry
      /\ Whole(th[t].file, th[t].pos, c) /\ wr[c].vsize > 0
      /\ n = 0 => keydir' = [keydir EXCEPT ![k] = Append(@, e)]
      /\ n # 0 => /\ n \in 1 .. Len(keydir[k])
                  /\ keydir' = [keydir EXCEPT ![k] = [keydir[k] EXCEPT ![n] = e]]
  BY <1>0, <1>1, UpsertEntries
<1>3. keydir \in [Keys -> Seq(Entry)] /\ wr \in Seq(Call)
  BY DEF WriteInv, TypeOK
<1>4. Finish(t, "ok") /\ th[t].pc = "upsert"
  BY DEF Upsert, At
<1>5. /\ Len(wr') = Len(wr) /\ wr'[c].status = "ok" /\ Len(wr) \in Nat
      /\ \A i \in 1 .. Len(wr) : /\ wr'[i].key = wr[i].key
                                 /\ i # c => wr'[i].status = wr[i].status
  BY <1>0, <1>4, EndedCall
<1>6. /\ \A i \in 1 .. Len(wr) : wr[i].key = k => i <= c
      /\ n = Len(keydir[k])
      /\ \A r \in Readers : Reading(r) => rd[r].key # k
  BY <1>0, <1>4 DEF Serial, Alone
<1>7. \A j \in Keys : j # k => keydir'[j] = keydir[j]
  BY <1>2, <1>3
<1>8. /\ \A u \in Threads : Alone(u)'
      /\ \A j : j # k => SameStored(j)
  BY <1>0, <1>4, <1>7, EndedAlone
<1>9. Len(keydir'[k]) = 1 /\ keydir'[k][1] = e
  <2>1. keydir[k] = <<>> \/ Len(keydir[k]) = 1
    BY <1>2 DEF Serial, Indexed
  <2>2. CASE keydir[k] = <<>>
    <3>1. n = 0 /\ keydir'[k] = Append(keydir[k], e)
      BY <1>2, <1>3, <1>6, <2>2
    <3>2. Append(keydir[k], e) = <<e>>
      BY <2>2
    <3> QED BY <3>1, <3>2
  <2>3. CASE Len(keydir[k]) = 1
    <3>1. n = 1 /\ keydir'[k] = [keydir[k] EXCEPT ![1] = e]
      BY <1>2, <1>3, <1>6, <2>3
    <3>2. keydir[k] \in Seq(Entry) /\ 1 \in DOMAIN keydir[k]
      BY <1>2, <1>3, <2>3
    <3> QED BY <3>1, <3>2, <2>3
  <2> QED BY <2>1, <2>2, <2>3
<1>10. Latest(k, c)'
  <2>1. Stored(k, c)'
    BY <1>0, <1>2, <1>5 DEF Stored
  <2>2. \A i \in 1 .. Len(wr') : Stored(k, i)' => i <= c
    BY <1>5, <1>6 DEF Stored
  <2> QED BY <2>1, <2>2 DEF Latest
<1>11. Points(e, c)'
  <2>1. Points(e, c)
    BY <1>0, <1>1, <1>2 DEF Points, NewEntry
  <2> QED BY <1>2, <2>1, PointsKept
<1>12. ASSUME NEW j \in Keys PROVE Indexed(j)'
  <2>1. CASE j = k
    <3>1. Points(keydir[k][1], c)'
      BY <1>9, <1>11 DEF Points, Whole, Size
    <3> QED BY <1>2, <1>5, <1>9, <1>10, <2>1, <3>1 DEF Indexed
  <2>2. CASE j # k
    BY <1>7, <1>8, <2>2, IndexedKept DEF Serial
  <2> QED BY <2>1, <2>2
<1>13. ASSUME NEW r \in Readers PROVE TakesEntry(r)' /\ Answers(r)'
  <2>1. ASSUME Reading(r) PROVE keydir'[rd[r].key] = keydir[rd[r].key] /\ SameStored(rd[r].key)
    <3>1. PICK j : j = rd[r].key
      OBVIOUS
    <3>2. j # k /\ SameStored(j) /\ j \in Keys
      BY <1>6, <1>8, <2>1, <3>1 DEF KeyKnown, Reading
    <3>3. keydir'[j] = keydir[j]
      BY <1>7, <3>2
    <3> QED BY <3>1, <3>2, <3>3 DEF SameStored, Stored
  <2> QED BY <2>1, ReaderKept DEF Serial
<1> QED BY <1>8, <1>12, <1>13 DEF Serial

\* A call begins to write a key that nobody writes or reads.
LEMMA BeginSerial ==
    ASSUME WriteInv, StepKeeps, Serial, NEW t \in Threads, NEW k \in Keys, NEW v \in ValueSizes,
           Begin(t, k, v), ~WritingKey(k), ~ReadingKey(k), rd' = rd
    PROVE  Serial'
<1>1. /\ wr \in Seq(Call) /\ Len(wr) \in Nat /\ th \in [Threads -> Thread]
      /\ \A u \in Threads : Writing(u) => th[u].id \in 1 .. Len(wr)
  BY DEF WriteInv, TypeOK, ThreadOK, Writing
<1>2. PICK call : call = [key |-> k, vsize |-> v, status |-> "pending"]
  OBVIOUS
<1>3. call \in Call /\ call.key = k /\ call.status = "pending"
  BY <1>2 DEF Call
<1>4. PICK c \in Nat : c = Len(wr) + 1
  BY <1>1
<1>5. wr' = Append(wr, call) /\ keydir' = keydir
      /\ th' = [th EXCEPT ![t] = [Idle EXCEPT !.pc = "active", !.id = c]]
  BY <1>2, <1>4 DEF Begin
<1>6. /\ Len(wr') = c /\ wr'[c] = call /\ \A i \in 1 .. Len(wr) : wr'[i] = wr[i]
      /\ \A i : i \in 1 .. Len(wr') <=> i \in 1 .. Len(wr) \/ i = c
  <2>1. Len(wr') = c /\ wr'[c] = call /\ \A i \in 1 .. Len(wr) : wr'[i] = wr[i]
    BY <1>1, <1>3, <1>4, <1>5
  <2>2. \A i : i \in 1 .. c <=> i \in 1 .. Len(wr) \/ i = c
    BY <1>1, <1>4
  <2> QED BY <2>1, <2>2
<1>7. /\ th'[t].pc = "active" /\ th'[t].id = c
      /\ \A u \in Threads \ {t} : th'[u] = th[u]
  BY <1>1, <1>5 DEF Idle
<1>8. \A j : SameStored(j)
  BY <1>3, <1>6 DEF SameStored, Stored
<1>9. \A j \in Keys : Indexed(j)'
  BY <1>5, <1>8, IndexedKept DEF Serial
<1>10. \A r \in Readers : TakesEntry(r)' /\ Answers(r)'
  <2> SUFFICES ASSUME NEW r \in Readers PROVE TakesEntry(r)' /\ Answers(r)'
    OBVIOUS
  <2>1. PICK j : j = rd[r].key
    OBVIOUS
  <2>2. SameStored(rd[r].key)
    BY <1>8, <2>1 DEF SameStored, Stored
  <2> QED BY <1>5, <2>2, ReaderKept DEF Serial
<1>11. ASSUME NEW u \in Threads, u # t, Writing(u)'
       PROVE  /\ th'[u] = th[u] /\ Writing(u) /\ th[u].id \in 1 .. Len(wr)
              /\ wr'[th[u].id] = wr[th[u].id] /\ wr[th[u].id].key # k
  BY <1>1, <1>6, <1>7, <1>11 DEF Writing, WritingKey
<1>12. ASSUME NEW u \in Threads PROVE Alone(u)'
  <2>1. CASE u = t
    <3>1. th'[u].id = c /\ wr'[c].status = "pending" /\ wr'[c].key = k /\ th'[u].pc = "active"
      BY <1>3, <1>6, <1>7, <2>1
    <3>2. \A i \in 1 .. Len(wr') : i <= c
      BY <1>6
    <3>3. \A w \in Threads \ {u} : Writing(w)' => wr'[th'[w].id].key # k
      BY <1>11, <2>1
    <3>4. \A r \in Readers : Reading(r)' => rd'[r].key # k
      BY DEF Reading, ReadingKey
    <3> QED BY <3>1, <3>2, <3>3, <3>4 DEF Alone
  <2>2. CASE u # t /\ Writing(u)'
    <3>1. /\ th'[u] = th[u] /\ Writing(u) /\ th[u].id \in 1 .. Len(wr)
          /\ wr'[th[u].id] = wr[th[u].id] /\ wr[th[u].id].key # k
      BY <1>11, <2>2
    <3>2. /\ wr[th[u].id].status = "pending"
          /\ \A i \in 1 .. Len(wr) : wr[i].key = wr[th[u].id].key => i <= th[u].id
          /\ \A w \in Threads \ {u} : Writing(w) => wr[th[w].id].key # wr[th[u].id].key
          /\ \A r \in Readers : Reading(r) => rd[r].key # wr[th[u].id].key
          /\ th[u].pc = "upsert" => th[u].node = Len(keydir[wr[th[u].id].key])
      BY <3>1 DEF Serial, Alone
    <3>3. \A i \in 1 .. Len(wr') : wr'[i].key = wr[th[u].id].key => i <= th[u].id
      BY <1>3, <1>6, <3>1, <3>2
    <3>4. ASSUME NEW w \in Threads \ {u}, Writing(w)'
          PROVE  wr'[th'[w].id].key # wr[th[u].id].key
      <4>1. CASE w = t
        BY <1>3, <1>6, <1>7, <3>1, <4>1
      <4>2. CASE w # t
        BY <1>11, <3>2, <3>4, <4>2
      <4> QED BY <4>1, <4>2
    <3>5. \A r \in Readers : Reading(r)' => rd'[r].key # wr[th[u].id].key
      BY <3>2 DEF Reading
    <3> QED BY <1>5, <3>1, <3>2, <3>3, <3>4, <3>5 DEF Alone
  <2>3. CASE ~Writing(u)'
    BY <2>3 DEF Alone, Writing
  <2> QED BY <2>1, <2>2, <2>3
<1> QED BY <1>9, <1>10, <1>12 DEF Serial

\* So every step of a thread keeps the invariant.
LEMMA PutSerial ==
    ASSUME ReaderInv, AppSerialises, Serial, NEW t \in Threads,
           PutStep(t) \/ \E k \in Keys, v \in ValueSizes : BeginPut(t, k, v)
    PROVE  Serial'
<1>1. WriteInv /\ KeyKnown
  BY DEF ReaderInv
<1>2. rd' = rd /\ StepKeeps
  BY <1>1, ThreadKeeps DEF PutStep, BeginPut, readerVars
<1>3. CASE PutStep(t)
  <2>1. /\ Writing(t) /\ \A u \in Threads \ {t} : th'[u] = th[u]
        /\ \/ /\ wr' = wr /\ keydir' = keydir /\ th'[t].pc # "idle" /\ th'[t].id = th[t].id
              /\ th'[t].pc = "upsert" => th'[t].node = Len(keydir[wr[th[t].id].key])
           \/ Finish(t, "fail") /\ keydir' = keydir
           \/ Upsert(t)
    BY <1>1, <1>3, ThreadEffects DEF PutStep
  <2>2. CASE Finish(t, "fail") /\ keydir' = keydir
    BY <1>1, <1>2, <2>1, <2>2, FailSerial
  <2>3. CASE Upsert(t)
    BY <1>1, <1>2, <2>1, <2>3, UpsertSerial
  <2>4. CASE /\ wr' = wr /\ keydir' = keydir /\ th'[t].pc # "idle" /\ th'[t].id = th[t].id
             /\ th'[t].pc = "upsert" => th'[t].node = Len(keydir[wr[th[t].id].key])
    BY <1>1, <1>2, <2>1, <2>4, ContinueSerial
  <2> QED BY <2>1, <2>2, <2>3, <2>4
<1>4. CASE \E k \in Keys, v \in ValueSizes : BeginPut(t, k, v)
  BY <1>1, <1>2, <1>4, BeginSerial DEF BeginPut, MayPut
<1> QED BY <1>3, <1>4

-----------------------------------------------------------------------------
(* Steps of the readers *)

\* The entry a reader holds is the only one of its key and leads to the latest record.
LEMMA HeldLatest ==
    ASSUME ReaderInv, Serial, NEW r \in Readers, rd[r].pc \notin {"idle", "done"}
    PROVE  /\ KdRecord(r) = keydir[rd[r].key][1]
           /\ \E id \in 1 .. Len(wr) : Latest(rd[r].key, id) /\ Points(KdRecord(r), id)
<1>1. rd[r].key \in Keys /\ rd[r].node \in 1 .. Len(keydir[rd[r].key])
  BY HeldEntry
<1>2. keydir[rd[r].key] # <<>>
  BY <1>1
<1>3. /\ Len(keydir[rd[r].key]) = 1
      /\ \E id \in 1 .. Len(wr) : Latest(rd[r].key, id) /\ Points(keydir[rd[r].key][1], id)
  BY <1>1, <1>2 DEF Serial, Indexed
<1>4. rd[r].node = 1
  BY <1>1, <1>3
<1> QED BY <1>3, <1>4 DEF KdRecord

\* There is one latest call of a key.
LEMMA OneLatest ==
    ASSUME NEW k, NEW i, NEW j, Latest(k, i), Latest(k, j), wr \in Seq(Call)
    PROVE  i = j
<1>1. i \in 1 .. Len(wr) /\ j \in 1 .. Len(wr) /\ Len(wr) \in Nat /\ i <= j /\ j <= i
  BY DEF Latest, Stored
<1> QED BY <1>1

\* There is one whole record at an offset: its header says whose it is.
LEMMA OneRecord ==
    ASSUME wr \in Seq(Call), NEW f, NEW p, NEW i \in 1 .. Len(wr), NEW j \in 1 .. Len(wr),
           Whole(f, p, i), Whole(f, p, j)
    PROVE  i = j
<1>1. 1 \in 1 .. Size(i) /\ 1 \in 1 .. Size(j)
  BY CallSize
<1>2. data[f][p + 1] = [id |-> i, part |-> 1] /\ data[f][p + 1] = [id |-> j, part |-> 1]
  BY <1>1 DEF Whole
<1> QED BY <1>2

\* A step of one reader: what has to be shown of it.
LEMMA ReaderSerial ==
    ASSUME ReaderInv, Serial, UNCHANGED <<data, wr, keydir, th>>, NEW r \in Readers,
           \A q \in Readers \ {r} : rd'[q] = rd[q],
           Reading(r)' => (Reading(r) /\ rd'[r].key = rd[r].key) \/ ~WritingKey(rd'[r].key),
           TakesEntry(r)', Answers(r)'
    PROVE  Serial'
<1>1. \A k \in Keys : Indexed(k)'
  BY DEF Serial, Indexed, Latest, Stored, Points, Whole, Size
<1>2. ASSUME NEW q \in Readers, q # r PROVE TakesEntry(q)' /\ Answers(q)'
  BY <1>2 DEF Serial, TakesEntry, Answers, Latest, Stored, KdRecord
<1>3. ASSUME NEW t \in Threads PROVE Alone(t)'
  <2>1. Alone(t)
    BY DEF Serial
  <2>2. ASSUME NEW q \in Readers, Reading(q)', Writing(t)
        PROVE  rd'[q].key # wr[th[t].id].key
    <3>1. CASE q # r
      BY <2>1, <2>2, <3>1 DEF Alone, Reading
    <3>2. CASE q = r /\ Reading(r) /\ rd'[r].key = rd[r].key
      BY <2>1, <2>2, <3>2 DEF Alone, Reading
    <3>3. CASE q = r /\ ~WritingKey(rd'[r].key)
      BY <2>2, <3>3 DEF WritingKey, Writing
    <3> QED BY <2>2, <3>1, <3>2, <3>3
  <2> QED BY <2>1, <2>2 DEF Alone, Writing
<1> QED BY <1>1, <1>2, <1>3 DEF Serial

\* A lookup, of a key that nobody writes.
LEMMA FindSerial ==
    ASSUME ReaderInv, AppSerialises, Serial, NEW r \in Readers, NEW k \in Keys, GetFind(r, k)
    PROVE  Serial'
<1>1. rd \in [Readers -> ReaderState] /\ keydir[k] \in Seq(Entry)
  BY DEF ReaderInv, ReaderTypeOK, WriteInv, TypeOK
<1> DEFINE n == Len(keydir[k])
           l == IF keydir[k] = <<>> THEN "done" ELSE "want"
           x == [NotReading EXCEPT !.key = k, !.node = n, !.pc = l]
<1>2. rd' = [rd EXCEPT ![r] = x] /\ UNCHANGED <<data, wr, keydir, th>> /\ ~WritingKey(k)
  BY DEF GetFind, vars, diskVars, MayGet
<1>3. (l = "done" /\ keydir[k] = <<>>) \/ l = "want"
  OBVIOUS
<1> HIDE DEF n, l
<1>4. x.pc = l /\ x.key = k /\ x.result = "none"
  BY DEF NotReading
<1>5. rd'[r] = x /\ \A q \in Readers \ {r} : rd'[q] = rd[q]
  BY <1>1, <1>2
<1> HIDE DEF x
<1>6. TakesEntry(r)'
  BY <1>3, <1>4, <1>5 DEF TakesEntry
<1>7. Answers(r)'
  BY <1>2, <1>3, <1>4, <1>5 DEF Answers
<1>8. ~WritingKey(rd'[r].key)
  BY <1>2, <1>4, <1>5 DEF WritingKey
<1> QED BY <1>2, <1>5, <1>6, <1>7, <1>8, ReaderSerial

\* The steps of a reader between the lookup and the answer: it keeps its key and its
\* entry.
LEMMA MoveSerial ==
    ASSUME ReaderInv, Serial, UNCHANGED <<data, wr, keydir, th>>, NEW r \in Readers,
           rd[r].pc \notin {"idle", "done"}, NEW x \in ReaderState, rd' = [rd EXCEPT ![r] = x],
           x.key = rd[r].key, x.node = rd[r].node, x.pc # "idle",
           KdRecord(r)' = KdRecord(r) => TakesEntry(r)' /\ Answers(r)'
    PROVE  Serial'
<1>1. rd \in [Readers -> ReaderState]
  BY DEF ReaderInv, ReaderTypeOK
<1>2. rd'[r] = x /\ \A q \in Readers \ {r} : rd'[q] = rd[q]
  BY <1>1
<1>3. KdRecord(r)' = KdRecord(r)
  BY <1>2 DEF KdRecord
<1> QED BY <1>2, <1>3, ReaderSerial DEF Reading

\* A reader that gives up for want of memory or a descriptor answers nothing wrong.
LEMMA GiveUpSerial ==
    ASSUME ReaderInv, Serial, UNCHANGED <<data, wr, keydir, th>>, NEW r \in Readers,
           rd[r].pc \notin {"idle", "done"}, NEW result \in {"nomem", "nofd", "closed", "io"},
           Return(r, result)
    PROVE  Serial'
<1>1. rd \in [Readers -> ReaderState] /\ rd[r] \in ReaderState
  BY DEF ReaderInv, ReaderTypeOK
<1> DEFINE x == [rd[r] EXCEPT !.result = result, !.pc = "done"]
<1>2. /\ x \in ReaderState /\ x.pc = "done" /\ x.key = rd[r].key /\ x.node = rd[r].node
      /\ x.result = result
  BY <1>1 DEF ReaderState
<1>3. rd' = [rd EXCEPT ![r] = x] /\ rd'[r] = x
  BY <1>1 DEF Return
<1> HIDE DEF x
<1>4. TakesEntry(r)' /\ Answers(r)'
  BY <1>2, <1>3 DEF TakesEntry, Answers
<1> QED BY <1>2, <1>3, <1>4, MoveSerial

\* The entry's fields are read one by one.
LEMMA FieldsSerial ==
    ASSUME ReaderInv, Serial, NEW r \in Readers, GetAllocate(r) \/ GetArgument(r)
    PROVE  Serial'
<1> USE DEF In
<1>0. /\ rd \in [Readers -> ReaderState] /\ rd[r] \in ReaderState
      /\ UNCHANGED <<data, wr, keydir, th>> /\ rd[r].pc \notin {"idle", "done"}
  BY DEF ReaderInv, ReaderTypeOK, GetAllocate, GetArgument, vars, diskVars
<1>1. /\ KdRecord(r).vsize \in Nat /\ KdRecord(r).pos \in Nat /\ KdRecord(r).file \in FileId
  BY <1>0, HeldEntry
<1>2. rd[r].result = "none"
  BY <1>0 DEF Serial, Answers
<1>3. CASE GetAllocate(r)
  <2>1. CASE Return(r, "nomem")
    BY <1>0, <2>1, GiveUpSerial
  <2>2. CASE rd' = [rd EXCEPT ![r].want = KdRecord(r).vsize, ![r].left = {"file", "pos"},
                              ![r].pc = "args"]
    <3> DEFINE v == KdRecord(r).vsize
               x == [rd[r] EXCEPT !.want = v, !.left = {"file", "pos"}, !.pc = "args"]
    <3>1. rd' = [rd EXCEPT ![r] = x] /\ rd'[r] = x /\ v \in Nat
      BY <1>0, <1>1, <2>2
    <3> HIDE DEF v
    <3>2. /\ x \in ReaderState /\ x.pc = "args" /\ x.key = rd[r].key /\ x.node = rd[r].node
          /\ x.want = v /\ x.left = {"file", "pos"} /\ x.result = "none"
      BY <1>0, <1>2, <3>1 DEF ReaderState
    <3> HIDE DEF x
    <3>3. KdRecord(r)' = KdRecord(r) => TakesEntry(r)' /\ Answers(r)'
      BY <3>1, <3>2 DEF TakesEntry, Answers, v
    <3> QED BY <1>0, <3>1, <3>2, <3>3, MoveSerial
  <2> QED BY <1>3, <2>1, <2>2 DEF GetAllocate
<1>4. CASE GetArgument(r)
  <2>1. PICK a \in rd[r].left :
            rd' = [rd EXCEPT ![r][a] = KdRecord(r)[a], ![r].left = @ \ {a},
                             ![r].pc = IF rd[r].left = {a} THEN "check" ELSE "args"]
    BY <1>4 DEF GetArgument
  <2>2. /\ rd[r].want = KdRecord(r).vsize
        /\ "file" \notin rd[r].left => rd[r].file = KdRecord(r).file
        /\ "pos" \notin rd[r].left => rd[r].pos = KdRecord(r).pos
        /\ rd[r].left \subseteq {"file", "pos"}
    BY <1>0, <1>4 DEF GetArgument, Serial, TakesEntry, ReaderState
  <2> DEFINE l == IF rd[r].left = {a} THEN "check" ELSE "args"
             w == rd[r].left \ {a}
  <2>3. /\ w \subseteq {"file", "pos"}
        /\ (l = "check" /\ rd[r].left = {a}) \/ (l = "args" /\ w # {})
    BY <2>2
  <2>4. CASE a = "file"
    <3> DEFINE v == KdRecord(r).file
               x == [rd[r] EXCEPT !.file = v, !.left = w, !.pc = l]
    <3>1. rd' = [rd EXCEPT ![r] = x] /\ rd'[r] = x /\ v \in FileId
      BY <1>0, <1>1, <2>1, <2>4
    <3>2. "pos" \notin w => rd[r].pos = KdRecord(r).pos
      BY <2>2, <2>4
    <3>3. l = "check" => "pos" \notin w
      BY <2>3, <2>4
    <3> HIDE DEF v, l, w
    <3>4. /\ x \in ReaderState /\ x.pc = l /\ x.key = rd[r].key /\ x.node = rd[r].node
          /\ x.file = v /\ x.pos = rd[r].pos /\ x.want = rd[r].want /\ x.left = w
          /\ x.result = "none"
      BY <1>0, <1>2, <2>3, <3>1 DEF ReaderState
    <3> HIDE DEF x
    <3>5. KdRecord(r)' = KdRecord(r) => TakesEntry(r)' /\ Answers(r)'
      BY <2>2, <2>3, <3>1, <3>2, <3>3, <3>4 DEF TakesEntry, Answers, v
    <3> QED BY <1>0, <2>3, <3>1, <3>4, <3>5, MoveSerial
  <2>5. CASE a = "pos"
    <3> DEFINE v == KdRecord(r).pos
               x == [rd[r] EXCEPT !.pos = v, !.left = w, !.pc = l]
    <3>1. rd' = [rd EXCEPT ![r] = x] /\ rd'[r] = x /\ v \in Nat
      BY <1>0, <1>1, <2>1, <2>5
    <3>2. "file" \notin w => rd[r].file = KdRecord(r).file
      BY <2>2, <2>5
    <3>3. l = "check" => "file" \notin w
      BY <2>3, <2>5
    <3> HIDE DEF v, l, w
    <3>4. /\ x \in ReaderState /\ x.pc = l /\ x.key = rd[r].key /\ x.node = rd[r].node
          /\ x.file = rd[r].file /\ x.pos = v /\ x.want = rd[r].want /\ x.left = w
          /\ x.result = "none"
      BY <1>0, <1>2, <2>3, <3>1 DEF ReaderState
    <3> HIDE DEF x
    <3>5. KdRecord(r)' = KdRecord(r) => TakesEntry(r)' /\ Answers(r)'
      BY <2>2, <2>3, <3>1, <3>2, <3>3, <3>4 DEF TakesEntry, Answers, v
    <3> QED BY <1>0, <2>3, <3>1, <3>4, <3>5, MoveSerial
  <2> QED BY <2>2, <2>4, <2>5
<1> QED BY <1>3, <1>4

\* Looking at the descriptor, or opening it, changes nothing that was taken.
LEMMA DescriptorSerial ==
    ASSUME ReaderInv, Serial, NEW r \in Readers,
           CheckFd(r) \/ ReopenOk(r) \/ ReopenNotNeeded(r) \/ ReopenFails(r)
    PROVE  Serial'
<1> USE DEF In
<1>0. /\ rd \in [Readers -> ReaderState] /\ rd[r] \in ReaderState
      /\ UNCHANGED <<data, wr, keydir, th>> /\ rd[r].pc \in {"check", "reopen"}
  BY DEF ReaderInv, ReaderTypeOK, CheckFd, ReopenOk, ReopenNotNeeded, ReopenFails, vars, diskVars
<1>1. /\ rd[r].result = "none" /\ rd[r].want = KdRecord(r).vsize
      /\ rd[r].file = KdRecord(r).file /\ rd[r].pos = KdRecord(r).pos
  BY <1>0 DEF Serial, Answers, TakesEntry
<1>2. CASE ReopenFails(r)
  BY <1>0, <1>2, GiveUpSerial DEF ReopenFails
<1>3. CASE CheckFd(r) \/ ReopenOk(r) \/ ReopenNotNeeded(r)
  <2>1. PICK l \in {"read", "reopen"} : rd' = [rd EXCEPT ![r].pc = l]
    BY <1>3 DEF CheckFd, ReopenOk, ReopenNotNeeded
  <2> DEFINE x == [rd[r] EXCEPT !.pc = l]
  <2>2. rd' = [rd EXCEPT ![r] = x] /\ rd'[r] = x
    BY <1>0, <2>1
  <2>3. /\ x \in ReaderState /\ x.pc = l /\ x.key = rd[r].key /\ x.node = rd[r].node
        /\ x.file = rd[r].file /\ x.pos = rd[r].pos /\ x.want = rd[r].want /\ x.result = "none"
    BY <1>0, <1>1 DEF ReaderState
  <2> HIDE DEF x
  <2>4. KdRecord(r)' = KdRecord(r) => TakesEntry(r)' /\ Answers(r)'
    BY <1>1, <2>2, <2>3 DEF TakesEntry, Answers
  <2> QED BY <1>0, <2>2, <2>3, <2>4, MoveSerial
<1> QED BY <1>2, <1>3

\* What a reader reads is the record of the latest call, whole: it neither meets the end
\* of the file nor a record that fails the CRC test.
LEMMA ReadSerial ==
    ASSUME ReaderInv, Serial, NEW r \in Readers, Read(r)
    PROVE  Serial'
<1> USE DEF In
<1>0. /\ rd \in [Readers -> ReaderState] /\ rd[r] \in ReaderState /\ wr \in Seq(Call)
      /\ UNCHANGED <<data, wr, keydir, th>> /\ rd[r].pc = "read" /\ Len(wr) <= MaxWrites
      /\ data \in [FileId -> Seq(Cell)] /\ MaxWrites \in Nat /\ Len(wr) \in Nat
  BY SizeAssumption DEF ReaderInv, ReaderTypeOK, WriteInv, TypeOK, Read, vars, diskVars
<1>1. /\ rd[r].result = "none" /\ rd[r].want = KdRecord(r).vsize
      /\ rd[r].file = KdRecord(r).file /\ rd[r].pos = KdRecord(r).pos
  BY <1>0 DEF Serial, Answers, TakesEntry
<1>2. PICK id \in 1 .. Len(wr) : Latest(rd[r].key, id) /\ Points(KdRecord(r), id)
  BY <1>0, HeldLatest
<1>3. /\ wr[id].vsize = rd[r].want /\ rd[r].want > 0 /\ Whole(rd[r].file, rd[r].pos, id)
  BY <1>1, <1>2 DEF Points
<1>4. Enough(r)
  <2>1. rd[r].pos \in Nat /\ rd[r].want \in Nat /\ rd[r].file \in FileId
    BY <1>0 DEF ReaderState
  <2>2. rd[r].pos + Size(id) <= Len(data[rd[r].file]) /\ Size(id) = 2 + rd[r].want
    BY <1>3 DEF Whole, Size
  <2>3. rd[r].pos + 2 + rd[r].want = rd[r].pos + Size(id)
    BY <2>1, <2>2, SMTT(30)
  <2> QED BY <1>3, <2>2, <2>3 DEF Enough, ReadFrom
<1>5. id \in Passes(r) /\ Passes(r) \subseteq {id}
  <2>1. rd[r].want \in Nat
    BY <1>0 DEF ReaderState
  <2>2. id \in Passes(r)
    BY <1>3, <2>1 DEF Passes, ReadFrom
  <2>3. ASSUME NEW j \in Passes(r) PROVE j = id
    <3>1. j \in 1 .. Len(wr) /\ Whole(rd[r].file, rd[r].pos, j)
      BY DEF Passes, ReadFrom
    <3>2. PICK f, p : f = rd[r].file /\ p = rd[r].pos
      OBVIOUS
    <3> QED BY <1>0, <1>3, <3>1, <3>2, OneRecord
  <2> QED BY <2>2, <2>3
<1>6. \/ Return(r, "closed") \/ Return(r, "io")
      \/ rd' = [rd EXCEPT ![r].got = id, ![r].pc = "room"]
  BY <1>4, <1>5 DEF Read
<1>7. CASE Return(r, "closed") \/ Return(r, "io")
  BY <1>0, <1>7, GiveUpSerial
<1>8. CASE rd' = [rd EXCEPT ![r].got = id, ![r].pc = "room"]
  <2> DEFINE x == [rd[r] EXCEPT !.got = id, !.pc = "room"]
  <2>1. rd' = [rd EXCEPT ![r] = x] /\ rd'[r] = x
    BY <1>0, <1>8
  <2>2. id \in 0 .. MaxWrites
    BY <1>0
  <2>3. /\ x \in ReaderState /\ x.pc = "room" /\ x.key = rd[r].key /\ x.node = rd[r].node
        /\ x.want = rd[r].want /\ x.got = id /\ x.result = "none"
    BY <1>0, <1>1, <2>2 DEF ReaderState
  <2> HIDE DEF x
  <2>4. Latest(rd[r].key, rd[r].got)'
    BY <1>0, <1>2, <2>1, <2>3 DEF Latest, Stored
  <2>5. KdRecord(r)' = KdRecord(r) => TakesEntry(r)' /\ Answers(r)'
    BY <1>1, <2>1, <2>3, <2>4 DEF TakesEntry, Answers
  <2> QED BY <1>0, <2>1, <2>3, <2>5, MoveSerial
<1> QED BY <1>6, <1>7, <1>8

\* The copy is sized by the entry, which still is the one the record was read through.
LEMMA CopySerial ==
    ASSUME ReaderInv, Serial, NEW r \in Readers, GetRoom(r) \/ GetCopy(r) \/ GetSize(r)
    PROVE  Serial'
<1> USE DEF In
<1>0. /\ rd \in [Readers -> ReaderState] /\ rd[r] \in ReaderState /\ wr \in Seq(Call)
      /\ UNCHANGED <<data, wr, keydir, th>> /\ rd[r].pc \in {"room", "copy", "size"}
  BY DEF ReaderInv, ReaderTypeOK, WriteInv, TypeOK, GetRoom, GetCopy, GetSize, vars, diskVars
<1>1. /\ rd[r].result = "none" /\ rd[r].want = KdRecord(r).vsize
      /\ Latest(rd[r].key, rd[r].got)
      /\ rd[r].pc \in {"copy", "size"} => rd[r].room = KdRecord(r).vsize
      /\ rd[r].pc = "size" => rd[r].copied = KdRecord(r).vsize
  BY <1>0 DEF Serial, Answers, TakesEntry
<1>2. wr[rd[r].got].vsize = KdRecord(r).vsize
  <2>1. PICK id \in 1 .. Len(wr) : Latest(rd[r].key, id) /\ Points(KdRecord(r), id)
    BY <1>0, HeldLatest
  <2>2. PICK k, g : k = rd[r].key /\ g = rd[r].got
    OBVIOUS
  <2>3. g = id
    BY <1>0, <1>1, <2>1, <2>2, OneLatest
  <2> QED BY <2>1, <2>2, <2>3 DEF Points
<1>3. PICK v \in Nat : v = KdRecord(r).vsize
  BY <1>0, HeldEntry
<1>4. ASSUME NEW x, x.key = rd[r].key, x.got = rd[r].got, rd'[r] = x
      PROVE  Latest(rd[r].key, rd[r].got)' /\ wr'[rd'[r].got].vsize = v
  BY <1>0, <1>1, <1>2, <1>3, <1>4 DEF Latest, Stored
<1>5. CASE GetRoom(r)
  <2>1. CASE Return(r, "nomem")
    BY <1>0, <2>1, GiveUpSerial
  <2>2. CASE rd' = [rd EXCEPT ![r].room = KdRecord(r).vsize, ![r].pc = "copy"]
    <3> DEFINE x == [rd[r] EXCEPT !.room = v, !.pc = "copy"]
    <3>1. rd' = [rd EXCEPT ![r] = x] /\ rd'[r] = x
      BY <1>0, <1>3, <2>2
    <3>2. /\ x \in ReaderState /\ x.pc = "copy" /\ x.key = rd[r].key /\ x.node = rd[r].node
          /\ x.want = rd[r].want /\ x.got = rd[r].got /\ x.room = v /\ x.result = "none"
      BY <1>0, <1>1 DEF ReaderState
    <3> HIDE DEF x
    <3>3. KdRecord(r)' = KdRecord(r) => TakesEntry(r)' /\ Answers(r)'
      BY <1>1, <1>3, <1>4, <3>1, <3>2 DEF TakesEntry, Answers
    <3> QED BY <1>0, <3>1, <3>2, <3>3, MoveSerial
  <2> QED BY <1>5, <2>1, <2>2 DEF GetRoom
<1>6. CASE GetCopy(r)
  <2> DEFINE x == [rd[r] EXCEPT !.copied = v, !.pc = "size"]
  <2>1. rd' = [rd EXCEPT ![r] = x] /\ rd'[r] = x /\ rd[r].pc = "copy"
    BY <1>0, <1>3, <1>6 DEF GetCopy
  <2>2. /\ x \in ReaderState /\ x.pc = "size" /\ x.key = rd[r].key /\ x.node = rd[r].node
        /\ x.want = rd[r].want /\ x.got = rd[r].got /\ x.room = rd[r].room /\ x.copied = v
        /\ x.result = "none"
    BY <1>0, <1>1 DEF ReaderState
  <2> HIDE DEF x
  <2>3. KdRecord(r)' = KdRecord(r) => TakesEntry(r)' /\ Answers(r)'
    BY <1>1, <1>3, <1>4, <2>1, <2>2 DEF TakesEntry, Answers
  <2> QED BY <1>0, <2>1, <2>2, <2>3, MoveSerial
<1>7. CASE GetSize(r)
  <2> DEFINE x == [rd[r] EXCEPT !.size = v, !.result = "ok", !.pc = "done"]
  <2>1. rd' = [rd EXCEPT ![r] = x] /\ rd'[r] = x /\ rd[r].pc = "size"
    BY <1>0, <1>3, <1>7 DEF GetSize
  <2>2. /\ x \in ReaderState /\ x.pc = "done" /\ x.key = rd[r].key /\ x.node = rd[r].node
        /\ x.want = rd[r].want /\ x.got = rd[r].got /\ x.room = rd[r].room
        /\ x.copied = rd[r].copied /\ x.size = v /\ x.result = "ok"
    BY <1>0, <1>1 DEF ReaderState
  <2> HIDE DEF x
  <2>3. KdRecord(r)' = KdRecord(r) => TakesEntry(r)' /\ Answers(r)'
    BY <1>1, <1>3, <1>4, <2>1, <2>2 DEF TakesEntry, Answers
  <2> QED BY <1>0, <2>1, <2>2, <2>3, MoveSerial
<1> QED BY <1>5, <1>6, <1>7

\* The application has its answer; an iterator or an invalidator steps; or nothing does.
LEMMA QuietSerial ==
    ASSUME ReaderInv, Serial,
           \/ \E r \in Readers : GetDone(r)
           \/ \E c \in Callers : OpenIter(c) \/ CloseIter(c)
           \/ \E f \in FileId : InvalidatorStep(f)
           \/ UNCHANGED allVars
    PROVE  Serial'
<1>1. rd \in [Readers -> ReaderState]
  BY DEF ReaderInv, ReaderTypeOK
<1>2. CASE \E r \in Readers : GetDone(r)
  <2>1. PICK r \in Readers : GetDone(r)
    BY <1>2
  <2>2. /\ rd'[r] = NotReading /\ \A q \in Readers \ {r} : rd'[q] = rd[q]
        /\ UNCHANGED <<data, wr, keydir, th>>
    BY <1>1, <2>1 DEF GetDone, vars, diskVars
  <2>3. TakesEntry(r)' /\ Answers(r)' /\ ~Reading(r)'
    BY <2>2 DEF TakesEntry, Answers, Reading, NotReading
  <2> QED BY <2>2, <2>3, ReaderSerial
<1>3. CASE \/ \E c \in Callers : OpenIter(c) \/ CloseIter(c)
           \/ \E f \in FileId : InvalidatorStep(f)
           \/ UNCHANGED allVars
  <2>1. UNCHANGED <<data, wr, keydir, th, rd>>
    BY <1>3 DEF OpenIter, CloseIter, ListKeys, IterClose, InvalidatorStep, InvalidatorTest,
                InvalidatorClose, allVars, vars, diskVars, readerVars
  <2> QED BY <2>1, SMTT(90) DEF Serial, Alone, Writing, Reading, Indexed, TakesEntry, Answers, Latest,
                      Stored, Points, KdRecord, Whole, Size
<1> QED BY <1>2, <1>3

-----------------------------------------------------------------------------
(* Theorems *)

\* Every step keeps the invariant.
LEMMA SerialStep == SerialInv /\ [ReaderNext]_allVars => SerialInv'
<1> SUFFICES ASSUME SerialInv, [ReaderNext]_allVars PROVE SerialInv'
  OBVIOUS
<1>1. ReaderInv /\ ReaderInv'
  BY ReaderInvStep DEF SerialInv
<1>2. ASSUME AppSerialises PROVE Serial'
  <2>1. Serial
    BY <1>2 DEF SerialInv
  <2>2. CASE \E t \in Threads : PutStep(t) \/ \E k \in Keys, v \in ValueSizes : BeginPut(t, k, v)
    BY <1>1, <1>2, <2>1, <2>2, PutSerial
  <2>3. CASE \E r \in Readers : ReaderStep(r) \/ \E k \in Keys : BeginGet(r, k)
    BY <1>1, <1>2, <2>1, <2>3, FindSerial, FieldsSerial, DescriptorSerial, ReadSerial, CopySerial,
       QuietSerial DEF ReaderStep, GetStep, BeginGet
  <2>4. CASE \/ \E c \in Callers : OpenIter(c) \/ CloseIter(c)
             \/ \E f \in FileId : InvalidatorStep(f)
             \/ UNCHANGED allVars
    BY <1>1, <2>1, <2>4, QuietSerial
  <2> QED BY <2>2, <2>3, <2>4 DEF ReaderNext
<1> QED BY <1>1, <1>2 DEF SerialInv

\* It holds in every reachable state.
THEOREM SerialInvariant == ReaderSafeSpec => []SerialInv
BY SerialInit, SerialStep, PTL DEF ReaderSafeSpec

\* LastOk computes the latest successful write, if there is one.
LEMMA LastOkIs ==
    ASSUME wr \in Seq(Call), NEW k
    PROVE  /\ (\A id : ~Stored(k, id)) => LastOk(k) = 0
           /\ \A id : Latest(k, id) => LastOk(k) = id
<1> DEFINE ok == {id \in 1 .. Len(wr) : wr[id].key = k /\ wr[id].status = "ok"}
<1>1. ok = {id \in 1 .. Len(wr) : Stored(k, id)} /\ ok \subseteq Nat
  BY DEF Stored
<1>2. LastOk(k) = IF ok = {} THEN 0 ELSE Max(ok)
  BY DEF LastOk
<1> HIDE DEF ok
<1>3. ASSUME \A id : ~Stored(k, id) PROVE LastOk(k) = 0
  BY <1>1, <1>2, <1>3
<1>4. ASSUME NEW id, Latest(k, id) PROVE LastOk(k) = id
  <2>1. id \in ok /\ \A i \in ok : i <= id /\ id >= i
    BY <1>1, <1>4 DEF Latest, Stored
  <2>2. \A x \in ok : (\A y \in ok : x >= y) => x = id
    BY <1>1, <2>1
  <2>3. Max(ok) = id
    BY <2>1, <2>2 DEF Max
  <2> QED BY <1>2, <2>1, <2>3
<1> QED BY <1>3, <1>4

\* When no other call of a key overlaps a write of it, ccask_get returns the value of the
\* latest successful write, whole and with its size, and says that there is none only if
\* there is none; whatever the other keys, rotations, invalidators and readers do, up to a
\* rotation that begins without the lock of the head.
THEOREM GetReturnsLatest == ReaderSafeSpec => []GetLatest
<1>1. SerialInv => GetLatest
  <2> SUFFICES ASSUME SerialInv, NEW r \in Readers, AppSerialises, In(r, "done")
               PROVE  /\ rd[r].result = "none" => LastOk(rd[r].key) = 0
                      /\ rd[r].result = "ok" =>
                            /\ rd[r].got = LastOk(rd[r].key)
                            /\ wr[rd[r].got].vsize = rd[r].size
                            /\ rd[r].size <= rd[r].copied /\ rd[r].copied <= rd[r].room
                            /\ rd[r].copied <= rd[r].want
    BY DEF GetLatest
  <2>1. Answers(r) /\ rd[r].pc = "done" /\ wr \in Seq(Call) /\ rd[r].key \in Keys
        /\ rd[r] \in ReaderState /\ Indexed(rd[r].key)
    BY DEF SerialInv, Serial, In, ReaderInv, KeyKnown, WriteInv, TypeOK, ReaderTypeOK
  <2>2. PICK k, g : k = rd[r].key /\ g = rd[r].got
    OBVIOUS
  <2>3. CASE rd[r].result = "none"
    <3>1. keydir[rd[r].key] = <<>>
      BY <2>1, <2>3 DEF Answers
    <3>2. \A id : ~Stored(k, id)
      BY <2>1, <2>2, <3>1 DEF Indexed
    <3> QED BY <2>1, <2>2, <2>3, <3>2, LastOkIs
  <2>4. CASE rd[r].result = "ok"
    <3>1. /\ Latest(k, g) /\ wr[g].vsize = rd[r].size
          /\ rd[r].copied = rd[r].size /\ rd[r].room = rd[r].size /\ rd[r].want = rd[r].size
      BY <2>1, <2>2, <2>4 DEF Answers
    <3>2. LastOk(k) = g
      BY <2>1, <3>1, LastOkIs
    <3>3. rd[r].size \in Nat
      BY <2>1 DEF ReaderState
    <3> QED BY <2>2, <2>4, <3>1, <3>2, <3>3
  <2> QED BY <2>3, <2>4
<1> QED BY <1>1, SerialInvariant, PTL

\* Nor does ccask_get then meet a record that is cut off or fails its CRC test (up to the
\* same point).
THEOREM NoReadIsCorrupt == ReaderSafeSpec => []NoCorruptRead
<1>1. SerialInv => NoCorruptRead
  BY DEF SerialInv, Serial, Answers, NoCorruptRead
<1> QED BY <1>1, SerialInvariant, PTL
=============================================================================
