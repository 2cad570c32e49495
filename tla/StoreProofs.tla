----------------------------- MODULE StoreProofs -----------------------------
(***************************************************************************)
(* Theorems about module Store, for every set of keys and threads, every   *)
(* size and bound, and every choice of faults.  The second part, the write *)
(* path, is proved from the steps of the threads alone, so that it holds   *)
(* both of module Store (with crashes, restarts and hint threads) and of   *)
(* module Reader (with reopened files, where a late writer may rotate a    *)
(* file that it does not hold).                                            *)
(***************************************************************************)
EXTENDS Store, Integers, SequenceTheorems, TLAPS

-----------------------------------------------------------------------------
(* The inductive invariant *)

LogCell == [id : Nat, part : Nat]
ThreadFields == {"pc", "id", "file", "pos", "sent", "node"}

\* The types of what the log and its locks are made of.
LogTypes ==
    /\ data \in [FileId -> Seq(LogCell)] /\ active \in FileId
    /\ fd \in [FileId -> {"closed", "append"}] /\ locked \in [FileId -> Threads \cup {NoThread}]
    /\ wr \in Seq(Call)

ThreadTypes ==
    /\ DOMAIN th = Threads
    /\ \A t \in Threads : /\ DOMAIN th[t] = ThreadFields
                          /\ th[t].file \in FileId /\ th[t].sent \in Nat /\ th[t].id \in Nat
                          /\ th[t].pc # "idle" => th[t].id \in 1 .. Len(wr)

\* Types and locks together are inductive.
LogInv == LogTypes /\ ThreadTypes /\ LogLocks

\* What FilesAppendOnly asks of a step.
AppendOnlyStep ==
    \A f \in FileId : /\ Len(data[f]) <= Len(data'[f])
                      /\ \A i \in 1 .. Len(data[f]) : data'[f][i] = data[f][i]
                      /\ f < active => data'[f] = data[f]


\* The store starts with an empty active file and no thread in it.
LEMMA LogInvInit == Init => LogInv
<1> SUFFICES ASSUME Init PROVE LogInv
  OBVIOUS
<1> USE DEF Init, Idle, OpenOnly
<1>1. 0 \in FileId
  BY SizeAssumption DEF FileId
<1>2. LogTypes
  BY <1>1 DEF LogTypes
<1>3. ThreadTypes
  BY <1>1 DEF ThreadTypes, ThreadFields
<1>4. LogLocks
  BY DEF LogLocks, InFile
<1> QED BY <1>2, <1>3, <1>4 DEF LogInv

-----------------------------------------------------------------------------
(* Facts shared by the actions *)

\* A step that leaves the datafiles alone is append-only.
LEMMA NothingAppended ==
    ASSUME LogInv, data' = data
    PROVE  AppendOnlyStep
BY DEF LogInv, LogTypes, AppendOnlyStep

\* A thread that moves inside its call stays well-formed.
LEMMA GotoKeepsThreads ==
    ASSUME LogInv, NEW t \in Threads, th[t].pc # "idle", NEW label, Goto(t, label), wr' = wr
    PROVE  /\ ThreadTypes'
           /\ th'[t].pc = label /\ th'[t].file = th[t].file
           /\ \A u \in Threads \ {t} : th'[u] = th[u]
BY DEF LogInv, ThreadTypes, ThreadFields, Goto

\* A thread whose call returns stays well-formed, and so does the record of calls.
LEMMA FinishKeepsThreads ==
    ASSUME LogInv, NEW t \in Threads, th[t].pc # "idle", NEW outcome \in {"ok", "fail"},
           Finish(t, outcome)
    PROVE  /\ wr' \in Seq(Call) /\ ThreadTypes'
           /\ th'[t].pc = "idle"
           /\ \A u \in Threads \ {t} : th'[u] = th[u]
<1>1. wr \in Seq(Call) /\ th[t].id \in 1 .. Len(wr)
  BY DEF LogInv, LogTypes, ThreadTypes
<1>2. [wr[th[t].id] EXCEPT !.status = outcome] \in Call
  <2>1. wr[th[t].id] \in Call
    BY <1>1
  <2> QED BY <2>1 DEF Call
<1>3. wr' \in Seq(Call) /\ Len(wr') = Len(wr)
  BY <1>1, <1>2 DEF Finish
<1>4. 0 \in FileId
  BY SizeAssumption DEF FileId
<1>5. /\ th'[t].pc = "idle" /\ \A u \in Threads \ {t} : th'[u] = th[u]
      /\ DOMAIN th' = Threads
  BY DEF Finish, Idle, LogInv, ThreadTypes
<1>6. th'[t] = Idle
  BY DEF Finish, LogInv, ThreadTypes
<1>7. ThreadTypes'
  BY <1>3, <1>4, <1>5, <1>6 DEF ThreadTypes, ThreadFields, Idle, LogInv
<1> QED BY <1>3, <1>5, <1>7

\* Taking the lock of an open file: it is the active one, and nobody else is in it.
LEMMA LockKeepsLocks ==
    ASSUME LogInv, NEW t \in Threads, th[t].pc = "lock", LockFree(t), IsOpen(th[t].file),
           locked' = [locked EXCEPT ![th[t].file] = t], fd' = fd, active' = active,
           phase' = phase, th'[t].file = th[t].file,
           \A u \in Threads \ {t} : th'[u] = th[u]
    PROVE  LogLocks'
<1>1. /\ locked \in [FileId -> Threads \cup {NoThread}] /\ th[t].file \in FileId
      /\ th[t].file = active /\ phase \notin {"down", "off"}
  BY DEF LogInv, LogTypes, ThreadTypes, LogLocks, IsOpen
<1>2. locked'[th'[t].file] = t /\ th'[t].file = active'
  BY <1>1
<1>3. \A u \in Threads \ {t} : ~InFile(u)
  BY <1>1, NameAssumption DEF LogInv, LogLocks, LockFree
<1>4. \A u \in Threads \ {t} : ~InFile(u)'
  BY <1>3 DEF InFile
<1>5. \A f \in FileId : fd'[f] = "append" => f = active'
  BY DEF LogInv, LogLocks
<1> QED BY <1>1, <1>2, <1>4, <1>5 DEF LogLocks

\* Giving the lock back, to go elsewhere in the call or to return, disturbs nobody:
\* no other thread is in the file.
LEMMA UnlockKeepsLocks ==
    ASSUME LogInv, NEW t \in Threads, InFile(t), Unlock(t), fd' = fd, active' = active,
           phase' = phase, th'[t].pc \notin {"rotate", "write", "spin"},
           phase \in {"down", "off"} => th'[t].pc = "idle",
           \A u \in Threads \ {t} : th'[u] = th[u]
    PROVE  LogLocks' /\ locked' \in [FileId -> Threads \cup {NoThread}]
<1>1. /\ locked \in [FileId -> Threads \cup {NoThread}] /\ th[t].file \in FileId
      /\ locked[th[t].file] = t /\ th[t].file = active
  BY DEF LogInv, LogTypes, ThreadTypes, LogLocks
<1>2. locked' \in [FileId -> Threads \cup {NoThread}]
  BY <1>1 DEF Unlock
<1>3. \A u \in Threads \ {t} : ~InFile(u)
  BY <1>1 DEF LogInv, LogLocks
<1>4. \A u \in Threads : ~InFile(u)'
  BY <1>3 DEF InFile
<1>5. phase' \in {"down", "off"} => \A u \in Threads : th'[u].pc = "idle"
  BY DEF LogInv, LogLocks
<1>6. \A f \in FileId : fd'[f] = "append" => f = active'
  BY DEF LogInv, LogLocks
<1> QED BY <1>2, <1>4, <1>5, <1>6 DEF LogLocks

\* Appending cells to the file a thread is in touches the end of the active file only.
LEMMA AppendKeepsData ==
    ASSUME LogInv, NEW t \in Threads, InFile(t), NEW n \in Int, AppendCells(t, n)
    PROVE  data' \in [FileId -> Seq(LogCell)] /\ AppendOnlyStep
<1> DEFINE f == th[t].file
           new == Cells(th[t].id, th[t].sent + 1, th[t].sent + n)
<1>1. /\ data \in [FileId -> Seq(LogCell)] /\ f \in FileId /\ f = active
      /\ th[t].id \in Nat /\ th[t].sent \in Nat
  BY DEF LogInv, LogTypes, ThreadTypes, LogLocks
<1>2. new \in Seq(LogCell)
  <2>1. (th[t].sent + n) - (th[t].sent + 1) + 1 = n
    BY <1>1
  <2>2. new = [i \in 1 .. n |-> [id |-> th[t].id, part |-> th[t].sent + 1 + i - 1]]
    BY <2>1 DEF Cells
  <2>3. \A i \in 1 .. n : [id |-> th[t].id, part |-> th[t].sent + 1 + i - 1] \in LogCell
    BY <1>1 DEF LogCell
  <2>4. CASE n \in Nat
    BY <2>2, <2>3, <2>4
  <2>5. CASE n \notin Nat
    BY <2>2, <2>5
  <2> QED BY <2>4, <2>5
<1>3. /\ data[f] \o new \in Seq(LogCell) /\ Len(data[f]) <= Len(data[f] \o new)
      /\ \A i \in 1 .. Len(data[f]) : (data[f] \o new)[i] = data[f][i]
  BY <1>1, <1>2
<1>4. data' = [data EXCEPT ![f] = @ \o new]
  BY DEF AppendCells
<1> HIDE DEF f, new
<1>5. data' \in [FileId -> Seq(LogCell)]
  BY <1>1, <1>3, <1>4
<1>6. AppendOnlyStep
  <2> SUFFICES ASSUME NEW g \in FileId
               PROVE  /\ Len(data[g]) <= Len(data'[g])
                      /\ \A i \in 1 .. Len(data[g]) : data'[g][i] = data[g][i]
                      /\ g < active => data'[g] = data[g]
    BY DEF AppendOnlyStep
  <2>1. CASE g = f
    <3>1. ~(g < active)
      BY <2>1, <1>1 DEF FileId
    <3> QED BY <2>1, <3>1, <1>1, <1>3, <1>4
  <2>2. CASE g # f
    BY <2>2, <1>1, <1>4
  <2> QED BY <2>1, <2>2
<1> QED BY <1>5, <1>6

-----------------------------------------------------------------------------
(* One lemma per group of actions *)

StepOK == LogInv' /\ AppendOnlyStep

\* The steps of ccask_write_record_blocking up to the file's lock.
LEMMA EnterSteps ==
    ASSUME LogInv, NEW t \in Threads,
           \/ \E k \in Keys, v \in ValueSizes : Begin(t, k, v)
           \/ GetActiveFile(t) \/ SeekStep(t)
    PROVE  StepOK
<1> USE DEF LogInv
<1>0. 0 \in FileId
  BY SizeAssumption DEF FileId
<1>1. ASSUME NEW k \in Keys, NEW v \in ValueSizes, Begin(t, k, v)
      PROVE  StepOK
  <2> USE <1>1 DEF Begin, At, diskVars, fileVars
  <2>1. /\ wr' \in Seq(Call) /\ Len(wr') = Len(wr) + 1 /\ Len(wr) \in Nat
    BY DEF LogTypes, Call
  <2>2. LogTypes'
    BY <2>1 DEF LogTypes
  <2>3. th'[t] = [Idle EXCEPT !.pc = "active", !.id = Len(wr) + 1]
    BY DEF ThreadTypes
  <2>4. /\ th'[t].pc = "active" /\ th'[t].file = 0 /\ th'[t].sent = 0
        /\ th'[t].id = Len(wr) + 1 /\ DOMAIN th'[t] = ThreadFields
    BY <2>3 DEF Idle, ThreadFields
  <2>5. DOMAIN th' = Threads /\ \A u \in Threads \ {t} : th'[u] = th[u]
    BY DEF ThreadTypes
  <2>6. ThreadTypes'
    BY <2>1, <2>4, <2>5, <1>0 DEF ThreadTypes
  <2>7. LogLocks'
    BY <2>4, <2>5 DEF LogLocks, InFile
  <2> QED BY <2>2, <2>6, <2>7, NothingAppended DEF StepOK
<1>2. ASSUME GetActiveFile(t)
      PROVE  StepOK
  <2> USE <1>2 DEF GetActiveFile, At, diskVars, fileVars
  <2>1. LogTypes'
    BY DEF LogTypes
  <2>2. /\ th'[t].pc = "lock" /\ th'[t].file = active /\ th'[t].sent = th[t].sent
        /\ th'[t].id = th[t].id /\ DOMAIN th'[t] = ThreadFields
        /\ DOMAIN th' = Threads /\ \A u \in Threads \ {t} : th'[u] = th[u]
    BY DEF ThreadTypes, ThreadFields
  <2>3. ThreadTypes'
    BY <2>2 DEF ThreadTypes, LogTypes
  <2>4. LogLocks'
    BY <2>2 DEF LogLocks, InFile
  <2> QED BY <2>1, <2>3, <2>4, NothingAppended DEF StepOK
<1>3. ASSUME SeekFails(t)
      PROVE  StepOK
  <2> USE <1>3 DEF SeekFails, At, diskVars, fileVars
  <2>1. /\ wr' \in Seq(Call) /\ ThreadTypes' /\ th'[t].pc = "idle"
        /\ \A u \in Threads \ {t} : th'[u] = th[u]
    BY FinishKeepsThreads
  <2>2. LogTypes'
    BY <2>1 DEF LogTypes
  <2>3. LogLocks'
    BY <2>1 DEF LogLocks, InFile
  <2> QED BY <2>1, <2>2, <2>3, NothingAppended DEF StepOK
<1>4. ASSUME SeekFull(t)
      PROVE  StepOK
  <2> USE <1>4 DEF SeekFull, At, LockFree, diskVars
  <2>1. /\ ThreadTypes' /\ th'[t].pc = "rotate" /\ th'[t].file = th[t].file
        /\ \A u \in Threads \ {t} : th'[u] = th[u]
    BY GotoKeepsThreads
  <2>2. LogTypes' /\ th[t].file \in FileId
    BY DEF LogTypes, ThreadTypes
  <2>3. LogLocks'
    BY <2>1, LockKeepsLocks
  <2> QED BY <2>1, <2>2, <2>3, NothingAppended DEF StepOK
<1>5. ASSUME SeekOk(t)
      PROVE  StepOK
  <2> USE <1>5 DEF SeekOk, At, LockFree, diskVars
  <2>1. /\ th'[t].pc = "write" /\ th'[t].file = th[t].file /\ th'[t].sent = th[t].sent
        /\ th'[t].id = th[t].id /\ DOMAIN th'[t] = ThreadFields
        /\ DOMAIN th' = Threads /\ \A u \in Threads \ {t} : th'[u] = th[u]
    BY DEF ThreadTypes, ThreadFields
  <2>2. ThreadTypes'
    BY <2>1 DEF ThreadTypes
  <2>3. LogTypes' /\ th[t].file \in FileId
    BY DEF LogTypes, ThreadTypes
  <2>4. LogLocks'
    BY <2>1, LockKeepsLocks
  <2> QED BY <2>2, <2>3, <2>4, NothingAppended DEF StepOK
<1> QED BY <1>1, <1>2, <1>3, <1>4, <1>5 DEF SeekStep

\* Rotation: only the thread in the active file closes it.
LEMMA RotateSteps ==
    ASSUME LogInv, NEW t \in Threads, RotateStep(t)
    PROVE  StepOK
<1> USE DEF LogInv
<1>1. ASSUME Rotate(t)
      PROVE  StepOK
  <2> USE <1>1 DEF Rotate, At
  <2>1. /\ ThreadTypes' /\ th'[t].pc = "active"
        /\ \A u \in Threads \ {t} : th'[u] = th[u]
    BY GotoKeepsThreads
  <2>2. InFile(t) /\ locked[th[t].file] = t /\ th[t].file = active
    BY DEF LogLocks, InFile
  <2>3. active + 1 \in FileId /\ active \in FileId /\ active # active + 1
    BY SizeAssumption DEF LogTypes, FileId
  <2>4. LogTypes'
    BY <2>2, <2>3 DEF LogTypes, SwitchFiles, Unlock
  <2>5. \A f \in FileId : fd'[f] = "append" => f = active'
    BY <2>3 DEF LogLocks, LogTypes, SwitchFiles
  <2>6. \A u \in Threads : ~InFile(u)'
    BY <2>1, <2>2 DEF LogLocks, InFile
  <2>7. LogLocks'
    BY <2>1, <2>5, <2>6 DEF LogLocks
  <2> QED BY <2>1, <2>4, <2>7, NothingAppended DEF StepOK
<1>2. ASSUME RotateFails(t)
      PROVE  StepOK
  <2> USE <1>2 DEF RotateFails, At, diskVars
  <2>1. /\ ThreadTypes' /\ th'[t].pc = "active"
        /\ \A u \in Threads \ {t} : th'[u] = th[u]
    BY GotoKeepsThreads
  <2>2. InFile(t) /\ phase \notin {"down", "off"}
    BY DEF InFile, LogLocks
  <2>3. LogLocks' /\ locked' \in [FileId -> Threads \cup {NoThread}]
    BY <2>1, <2>2, UnlockKeepsLocks
  <2>4. LogTypes'
    BY <2>3 DEF LogTypes
  <2> QED BY <2>1, <2>3, <2>4, NothingAppended DEF StepOK
<1> QED BY <1>1, <1>2 DEF RotateStep

\* safe_writev under the file's lock.
LEMMA WriteSteps ==
    ASSUME LogInv, NEW t \in Threads, WriteStep(t)
    PROVE  StepOK
<1> USE DEF LogInv
<1>0. /\ th[t].pc = "write" /\ InFile(t) /\ phase \notin {"down", "off"}
  BY DEF WriteStep, WritePart, WriteRest, WriteSpins, WriteFails, At, InFile, LogLocks
<1>n. th[t].sent \in Nat /\ Size(th[t].id) \in Nat
  <2>1. wr \in Seq(Call) /\ th[t].id \in 1 .. Len(wr) /\ th[t].sent \in Nat
    BY <1>0 DEF LogTypes, ThreadTypes
  <2>2. wr[th[t].id] \in Call
    BY <2>1
  <2>3. wr[th[t].id].vsize \in ValueSizes
    BY <2>2 DEF Call
  <2>4. wr[th[t].id].vsize \in Nat
    BY <2>3, SizeAssumption
  <2> QED BY <2>1, <2>4 DEF Size
<1>1. ASSUME WritePart(t)
      PROVE  StepOK
  <2> USE <1>1 DEF WritePart, fileVars
  <2>1. PICK n \in 1 .. Unsent(t) - 1 : AppendCells(t, n) /\ th' = [th EXCEPT ![t].sent = @ + n]
    OBVIOUS
  <2>2. n \in Nat
    BY <1>n DEF Unsent
  <2>3. data' \in [FileId -> Seq(LogCell)] /\ AppendOnlyStep
    BY <2>1, <2>2, <1>0, AppendKeepsData
  <2>4. /\ th'[t].pc = th[t].pc /\ th'[t].file = th[t].file /\ th'[t].sent = th[t].sent + n
        /\ th'[t].id = th[t].id /\ DOMAIN th'[t] = ThreadFields
        /\ DOMAIN th' = Threads /\ \A u \in Threads \ {t} : th'[u] = th[u]
    BY <2>1 DEF ThreadTypes, ThreadFields
  <2>5. ThreadTypes'
    BY <2>2, <2>4, <1>n DEF ThreadTypes
  <2>6. LogTypes'
    BY <2>3 DEF LogTypes
  <2>7. LogLocks'
    BY <2>4 DEF LogLocks, InFile
  <2> QED BY <2>3, <2>5, <2>6, <2>7 DEF StepOK
<1>2. ASSUME WriteRest(t) \/ WriteSpins(t)
      PROVE  StepOK
  <2> USE <1>2 DEF WriteRest, WriteSpins, fileVars
  <2>1. Unsent(t) \in Int
    BY <1>n DEF Unsent
  <2>2. data' \in [FileId -> Seq(LogCell)] /\ AppendOnlyStep
    BY <2>1, <1>0, AppendKeepsData
  <2>3. CASE WriteRest(t)
    <3>1. /\ ThreadTypes' /\ th'[t].pc = "find"
          /\ \A u \in Threads \ {t} : th'[u] = th[u]
      BY <2>3, <1>0, GotoKeepsThreads
    <3>2. LogLocks' /\ locked' \in [FileId -> Threads \cup {NoThread}]
      BY <2>3, <3>1, <1>0, UnlockKeepsLocks
    <3>3. LogTypes'
      BY <2>2, <2>3, <3>2 DEF LogTypes
    <3> QED BY <2>2, <3>1, <3>2, <3>3 DEF StepOK
  <2>4. CASE WriteSpins(t)
    <3>1. /\ ThreadTypes' /\ th'[t].pc = "spin" /\ th'[t].file = th[t].file
          /\ \A u \in Threads \ {t} : th'[u] = th[u]
      BY <2>4, <1>0, GotoKeepsThreads
    <3>2. LogTypes'
      BY <2>2, <2>4 DEF LogTypes
    <3>3. LogLocks'
      BY <2>4, <3>1, <1>0 DEF LogLocks, InFile
    <3> QED BY <2>2, <3>1, <3>2, <3>3 DEF StepOK
  <2> QED BY <1>2, <2>3, <2>4
<1>3. ASSUME WriteFails(t)
      PROVE  StepOK
  <2> USE <1>3 DEF WriteFails, diskVars
  <2>1. /\ wr' \in Seq(Call) /\ ThreadTypes' /\ th'[t].pc = "idle"
        /\ \A u \in Threads \ {t} : th'[u] = th[u]
    BY <1>0, FinishKeepsThreads
  <2>2. LogLocks' /\ locked' \in [FileId -> Threads \cup {NoThread}]
    BY <2>1, <1>0, UnlockKeepsLocks
  <2>3. LogTypes'
    BY <2>1, <2>2 DEF LogTypes
  <2> QED BY <2>1, <2>2, <2>3, NothingAppended DEF StepOK
<1> QED BY <1>1, <1>2, <1>3 DEF WriteStep

\* The key directory's part of a write touches no file.
LEMMA IndexSteps ==
    ASSUME LogInv, NEW t \in Threads, Find(t) \/ UpsertStep(t)
    PROVE  StepOK
<1> USE DEF LogInv
<1>1. ASSUME Find(t)
      PROVE  StepOK
  <2> USE <1>1 DEF Find, At, diskVars, fileVars
  <2>1. /\ th'[t].pc = "upsert" /\ th'[t].file = th[t].file /\ th'[t].sent = th[t].sent
        /\ th'[t].id = th[t].id /\ DOMAIN th'[t] = ThreadFields
        /\ DOMAIN th' = Threads /\ \A u \in Threads \ {t} : th'[u] = th[u]
    BY DEF ThreadTypes, ThreadFields
  <2>2. ThreadTypes'
    BY <2>1 DEF ThreadTypes
  <2>3. LogTypes'
    BY DEF LogTypes
  <2>4. LogLocks'
    BY <2>1 DEF LogLocks, InFile
  <2> QED BY <2>2, <2>3, <2>4, NothingAppended DEF StepOK
<1>2. ASSUME NEW outcome \in {"ok", "fail"}, At(t, "upsert"), Finish(t, outcome),
             UNCHANGED <<diskVars, phase, fileVars>>
      PROVE  StepOK
  <2> USE <1>2 DEF At, diskVars, fileVars
  <2>1. /\ wr' \in Seq(Call) /\ ThreadTypes' /\ th'[t].pc = "idle"
        /\ \A u \in Threads \ {t} : th'[u] = th[u]
    BY FinishKeepsThreads
  <2>2. LogTypes'
    BY <2>1 DEF LogTypes
  <2>3. LogLocks'
    BY <2>1 DEF LogLocks, InFile
  <2> QED BY <2>1, <2>2, <2>3, NothingAppended DEF StepOK
<1> QED BY <1>1, <1>2 DEF UpsertStep, Upsert, UpsertNoMemory

\* Iterators, hint threads and the first part of ccask_shutdown leave the log alone.
LEMMA OtherSteps ==
    ASSUME LogInv,
           \/ UNCHANGED <<data, active, phase, fileVars, th, wr>>
           \/ ShutdownBegin \/ JoinHints
    PROVE  StepOK
<1> USE DEF LogInv, ShutdownBegin, JoinHints, diskVars, fileVars
<1>1. UNCHANGED <<data, active, fd, locked, th, wr>>
  OBVIOUS
<1>2. phase' \in {"down", "off"} => phase' = phase
  OBVIOUS
<1>3. LogTypes' /\ ThreadTypes'
  BY <1>1 DEF LogTypes, ThreadTypes
<1>4. LogLocks'
  BY <1>1, <1>2 DEF LogLocks, InFile
<1> QED BY <1>1, <1>3, <1>4, NothingAppended DEF StepOK

\* The end of ccask_shutdown, the end of the process, and ccask_init.
LEMMA LifecycleSteps ==
    ASSUME LogInv, StopWriter \/ Exit \/ Crash \/ Restart
    PROVE  StepOK
<1> USE DEF LogInv
<1>0. 0 \in FileId
  BY SizeAssumption DEF FileId
<1>1. ASSUME StopWriter
      PROVE  StepOK
  <2> USE <1>1 DEF StopWriter, Forget, diskVars
  <2>1. LogTypes' /\ ThreadTypes'
    BY DEF LogTypes, ThreadTypes
  <2>2. LogLocks'
    BY DEF LogLocks, InFile, At
  <2> QED BY <2>1, <2>2, NothingAppended DEF StepOK
<1>2. ASSUME PowerOff
      PROVE  StepOK
  <2> USE <1>2 DEF PowerOff, Forget, diskVars
  <2>1. LogTypes'
    BY DEF LogTypes
  <2>2. ThreadTypes'
    BY <1>0 DEF ThreadTypes, ThreadFields, Idle
  <2>3. LogLocks'
    BY DEF LogLocks, InFile, Idle
  <2> QED BY <2>1, <2>2, <2>3, NothingAppended DEF StepOK
<1>3. ASSUME Restart
      PROVE  StepOK
  <2> USE <1>3 DEF Restart, OpenOnly
  <2>1. LogTypes' /\ ThreadTypes'
    BY DEF LogTypes, ThreadTypes
  <2>2. LogLocks'
    BY DEF LogLocks, InFile
  <2> QED BY <2>1, <2>2, NothingAppended DEF StepOK
<1> QED BY <1>1, <1>2, <1>3 DEF Exit, Crash

-----------------------------------------------------------------------------
(* Theorems *)

\* Every step keeps the invariant and appends at the end of the active file or not at
\* all.
LEMMA LogInvStep == LogInv /\ [Next]_vars => StepOK
<1> SUFFICES ASSUME LogInv, [Next]_vars PROVE StepOK
  OBVIOUS
<1>1. ASSUME NEW t \in Threads,
             ThreadStep(t) \/ \E k \in Keys, v \in ValueSizes : Begin(t, k, v)
      PROVE  StepOK
  BY <1>1, EnterSteps, RotateSteps, WriteSteps, IndexSteps DEF ThreadStep
<1>2. ASSUME NEW c \in Callers, ListKeys(c) \/ IterClose(c)
      PROVE  StepOK
  BY <1>2, OtherSteps DEF ListKeys, IterClose, diskVars
<1>3. ASSUME NEW f \in FileId, HintStep(f)
      PROVE  StepOK
  BY <1>3, OtherSteps DEF HintStep, HintOpen, HintOpenFails, HintWrite, HintFails, HintDone,
                          HintReadFails, hintUnchanged
<1>4. CASE ShutdownBegin \/ JoinHints
  BY <1>4, OtherSteps
<1>5. CASE StopWriter \/ Exit \/ Crash \/ Restart
  BY <1>5, LifecycleSteps
<1>6. CASE UNCHANGED vars
  BY <1>6, OtherSteps DEF vars, diskVars
<1> QED BY <1>1, <1>2, <1>3, <1>4, <1>5, <1>6 DEF Next

\* The invariant holds in every reachable state, under every fault and every crash.
THEOREM LogInvariant == SafeSpec => []LogInv
<1>1. LogInv /\ [Next]_vars => LogInv'
  BY LogInvStep DEF StepOK
<1> QED BY <1>1, LogInvInit, PTL DEF SafeSpec

\* A thread that appends to or rotates a datafile holds the lock of the active file,
\* which is the only one open for append: writers never meet in a file.
THEOREM WritersExcluded == SafeSpec => []LogLocks
<1>1. LogInv => LogLocks
  BY DEF LogInv
<1> QED BY <1>1, LogInvariant, PTL

\* Storage is append-only and a rotated datafile never changes again, whatever
\* fails and whenever the process dies.
THEOREM AppendOnly == SafeSpec => FilesAppendOnly
<1>1. LogInv /\ [Next]_vars => [AppendOnlyStep]_vars
  BY LogInvStep DEF StepOK
<1>2. SafeSpec => [][AppendOnlyStep]_vars
  BY <1>1, LogInvariant, PTL DEF SafeSpec
<1> QED BY <1>2 DEF FilesAppendOnly, AppendOnlyStep

-----------------------------------------------------------------------------
(* The write path: the inductive invariant *)

\* Every cell was written by a call there was.
CellsOK == \A f \in FileId : \A i \in 1 .. Len(data[f]) : data[f][i].id \in 1 .. Len(wr)

\* What safe_writev has written so far is the beginning of the record, and it is at
\* the end of the file, from where lseek said the file ended.
Sending(t) ==
    /\ th[t].pos + th[t].sent = Len(data[th[t].file]) /\ th[t].sent < Size(th[t].id)
    /\ \A i \in 1 .. th[t].sent : data[th[t].file][th[t].pos + i] = [id |-> th[t].id, part |-> i]

ThreadOK(t) ==
    /\ th[t].pc # "idle" => th[t].id \in 1 .. Len(wr)
    /\ th[t].pc \in {"active", "lock", "rotate"} => th[t].sent = 0
    /\ InFile(t) => locked[th[t].file] = t
    /\ th[t].pc = "write" => Sending(t)
    /\ th[t].pc \in {"find", "upsert"} => /\ Whole(th[t].file, th[t].pos, th[t].id)
                                          /\ wr[th[t].id].vsize > 0
    /\ th[t].pc = "upsert" => th[t].node <= Len(keydir[wr[th[t].id].key])

WriteInv == TypeOK /\ CellsOK /\ \A t \in Threads : ThreadOK(t)

\* The store starts with empty files and no call.
LEMMA WriteInvInit == Init => WriteInv
<1> SUFFICES ASSUME Init PROVE WriteInv
  OBVIOUS
<1> USE DEF Init, OpenOnly
<1>1. 0 \in FileId /\ 0 \in 0 .. MaxWrites
  BY SizeAssumption DEF FileId
<1>2. Idle \in Thread
  BY <1>1 DEF Idle, Thread
<1>3. TypeOK
  BY <1>1, <1>2, SizeAssumption DEF TypeOK
<1>4. CellsOK
  BY DEF CellsOK
<1>5. \A t \in Threads : ThreadOK(t)
  BY DEF ThreadOK, InFile, Idle
<1> QED BY <1>3, <1>4, <1>5 DEF WriteInv

-----------------------------------------------------------------------------
(* What a step leaves alone *)

\* Datafiles only grow; calls keep their key and their value's size; the entries of a
\* key become no fewer.
Grows == \A f \in FileId : /\ Len(data[f]) <= Len(data'[f])
                           /\ \A i \in 1 .. Len(data[f]) : data'[f][i] = data[f][i]
CallsKept == /\ Len(wr) <= Len(wr')
             /\ \A id \in 1 .. Len(wr) : wr'[id].key = wr[id].key /\ wr'[id].vsize = wr[id].vsize
IndexGrows == \A k \in Keys : Len(keydir[k]) <= Len(keydir'[k])

\* What every thread but t sees of a step of t.
OthersKept(t) ==
    /\ Grows /\ CallsKept /\ IndexGrows
    /\ \A u \in Threads \ {t} : /\ th'[u] = th[u]
                                /\ InFile(u) => locked'[th[u].file] = u
                                /\ th[u].pc = "write" => data'[th[u].file] = data[th[u].file]

\* The sizes of a call.
LEMMA CallSize ==
    ASSUME wr \in Seq(Call), NEW id \in 1 .. Len(wr)
    PROVE  /\ wr[id] \in Call /\ wr[id].key \in Keys
           /\ wr[id].vsize \in Nat /\ Size(id) \in Nat /\ Size(id) = 2 + wr[id].vsize /\ Size(id) > 0
<1>1. wr[id] \in Call
  OBVIOUS
<1>2. wr[id].vsize \in ValueSizes /\ wr[id].key \in Keys
  BY <1>1 DEF Call
<1>3. wr[id].vsize \in Nat
  BY <1>2, SizeAssumption
<1> QED BY <1>1, <1>2, <1>3 DEF Size

\* A record that is whole stays whole.
LEMMA WholeKept ==
    ASSUME data \in [FileId -> Seq(Cell)], wr \in Seq(Call), Grows, CallsKept,
           data' \in [FileId -> Seq(Cell)], wr' \in Seq(Call),
           NEW f \in FileId, NEW p \in Nat, NEW id \in 1 .. Len(wr), Whole(f, p, id)
    PROVE  Whole(f, p, id)'
<1>1. Size(id)' = Size(id) /\ Size(id) \in Nat
  BY CallSize DEF CallsKept, Size
<1>2. Len(data[f]) \in Nat /\ Len(data'[f]) \in Nat /\ Len(data[f]) <= Len(data'[f])
  BY DEF Grows
<1>3. p + Size(id) <= Len(data[f])
  BY DEF Whole
<1>4. ASSUME NEW i \in 1 .. Size(id)
      PROVE  data'[f][p + i] = [id |-> id, part |-> i]
  <2>1. p + i \in 1 .. Len(data[f])
    BY <1>1, <1>2, <1>3
  <2>2. data'[f][p + i] = data[f][p + i]
    BY <2>1 DEF Grows
  <2> QED BY <2>2, <1>4 DEF Whole
<1>5. p + Size(id)' <= Len(data'[f])
  BY <1>1, <1>2, <1>3
<1> QED BY <1>1, <1>4, <1>5 DEF Whole

\* A thread that takes no part in a step keeps what it relies on.
LEMMA OtherThreads ==
    ASSUME WriteInv, TypeOK', NEW t, OthersKept(t), NEW u \in Threads \ {t}
    PROVE  ThreadOK(u)'
<1>1. /\ th'[u] = th[u]
      /\ InFile(u) => locked'[th[u].file] = u
      /\ th[u].pc = "write" => data'[th[u].file] = data[th[u].file]
      /\ ThreadOK(u) /\ th[u] \in Thread
  BY DEF OthersKept, WriteInv, TypeOK
<1>2. th[u].file \in FileId /\ th[u].pos \in Nat /\ th[u].sent \in Nat /\ th[u].node \in Nat
  BY <1>1 DEF Thread
<1>3. /\ data \in [FileId -> Seq(Cell)] /\ wr \in Seq(Call) /\ keydir \in [Keys -> Seq(Entry)]
      /\ data' \in [FileId -> Seq(Cell)] /\ wr' \in Seq(Call) /\ keydir' \in [Keys -> Seq(Entry)]
  BY DEF WriteInv, TypeOK
<1>4. Grows /\ CallsKept /\ IndexGrows
  BY DEF OthersKept
<1>5. CASE th[u].pc = "idle"
  BY <1>1, <1>5 DEF ThreadOK, InFile
<1>6. CASE th[u].pc # "idle"
  <2>1. th[u].id \in 1 .. Len(wr)
    BY <1>1, <1>6 DEF ThreadOK
  <2>2. th'[u].id \in 1 .. Len(wr') /\ wr'[th[u].id].key = wr[th[u].id].key
        /\ wr'[th[u].id].vsize = wr[th[u].id].vsize
    BY <2>1, <1>1, <1>3, <1>4 DEF CallsKept
  <2>3. Size(th[u].id)' = Size(th[u].id)
    BY <2>2, <1>1 DEF Size
  <2>4. th[u].pc = "write" => Sending(u)'
    BY <2>3, <1>1 DEF ThreadOK, Sending
  <2>5. th[u].pc \in {"find", "upsert"} => Whole(th[u].file, th[u].pos, th[u].id)'
    BY <2>1, <1>1, <1>2, <1>3, <1>4, WholeKept DEF ThreadOK
  <2>6. th[u].pc = "upsert" => th'[u].node <= Len(keydir'[wr'[th[u].id].key])
    <3>1. wr[th[u].id].key \in Keys
      BY <2>1, <1>3, CallSize
    <3>2. /\ Len(keydir[wr[th[u].id].key]) <= Len(keydir'[wr[th[u].id].key])
          /\ Len(keydir[wr[th[u].id].key]) \in Nat /\ Len(keydir'[wr[th[u].id].key]) \in Nat
      BY <3>1, <1>3, <1>4, SMTT(30) DEF IndexGrows
    <3>3. th[u].pc = "upsert" => th[u].node <= Len(keydir[wr[th[u].id].key])
      BY <1>1 DEF ThreadOK
    <3> DEFINE old == Len(keydir[wr[th[u].id].key])
               new == Len(keydir'[wr[th[u].id].key])
               n   == th[u].node
    <3>4. old <= new /\ old \in Nat /\ new \in Nat /\ n \in Nat
      BY <3>2, <1>2
    <3>5. n <= old => n <= new
      <4> HIDE DEF old, new, n
      <4> QED BY <3>4
    <3> QED BY <3>3, <3>5, <2>2, <1>1
  <2> QED BY <2>2, <2>4, <2>5, <2>6, <1>1 DEF ThreadOK, InFile
<1> QED BY <1>5, <1>6

\* Cells keep their owners.
LEMMA CellsKept ==
    ASSUME WriteInv, wr' \in Seq(Call), data' = data, Len(wr) <= Len(wr')
    PROVE  CellsOK' /\ Grows
<1>1. data \in [FileId -> Seq(Cell)] /\ wr \in Seq(Call)
  BY DEF WriteInv, TypeOK
<1> QED BY <1>1 DEF WriteInv, CellsOK, Grows

\* The invariant is kept when the thread that steps and the types are.
LEMMA ThreadFrame ==
    ASSUME WriteInv, TypeOK', CellsOK', NEW t \in Threads, OthersKept(t), ThreadOK(t)'
    PROVE  WriteInv'
BY OtherThreads DEF WriteInv

\* What a step has to show of what it leaves alone.
StepKeeps == WriteInv' /\ Grows /\ CallsKept /\ IndexGrows

\* The types of a thread's state and of the files, for reference in the steps below.
LEMMA ThreadType ==
    ASSUME WriteInv, NEW t \in Threads
    PROVE  /\ th[t] \in Thread /\ DOMAIN th = Threads
           /\ th[t].file \in FileId /\ th[t].pos \in Nat /\ th[t].sent \in Nat
           /\ th[t].node \in Nat /\ th[t].id \in 0 .. MaxWrites /\ ThreadOK(t)
           /\ data \in [FileId -> Seq(Cell)] /\ Len(data[th[t].file]) \in Nat
           /\ wr \in Seq(Call) /\ Len(wr) \in Nat /\ keydir \in [Keys -> Seq(Entry)]
           /\ locked \in [FileId -> Threads \cup {NoThread}]
<1>1. th \in [Threads -> Thread] /\ data \in [FileId -> Seq(Cell)] /\ wr \in Seq(Call)
      /\ keydir \in [Keys -> Seq(Entry)] /\ locked \in [FileId -> Threads \cup {NoThread}]
      /\ ThreadOK(t)
  BY DEF WriteInv, TypeOK
<1>2. th[t] \in Thread
  BY <1>1
<1>3. /\ th[t].file \in FileId /\ th[t].pos \in Nat /\ th[t].sent \in Nat
      /\ th[t].node \in Nat /\ th[t].id \in 0 .. MaxWrites
  BY <1>2 DEF Thread
<1> QED BY <1>1, <1>2, <1>3

\* Nothing but the thread's own state and the locks changes: what the other threads
\* see of it.
LEMMA QuietStep ==
    ASSUME WriteInv, NEW t \in Threads, data' = data, wr' = wr, keydir' = keydir,
           \A u \in Threads \ {t} : th'[u] = th[u],
           \A u \in Threads \ {t} : InFile(u) => locked'[th[u].file] = u,
           TypeOK', ThreadOK(t)'
    PROVE  StepKeeps
<1>1. data \in [FileId -> Seq(Cell)] /\ wr \in Seq(Call) /\ keydir \in [Keys -> Seq(Entry)]
  BY DEF WriteInv, TypeOK
<1>2. CellsOK' /\ Grows
  BY <1>1, CellsKept
<1>3. CallsKept /\ IndexGrows
  BY <1>1 DEF CallsKept, IndexGrows
<1>4. OthersKept(t)
  BY <1>2, <1>3 DEF OthersKept
<1> QED BY <1>2, <1>3, <1>4, ThreadFrame DEF StepKeeps, OthersKept

\* Taking the lock of a free file, and giving the own one back, leaves the others
\* theirs.
LEMMA LocksOfOthers ==
    ASSUME WriteInv, NEW t \in Threads,
           \/ LockFree(t) /\ locked' = [locked EXCEPT ![th[t].file] = t]
           \/ InFile(t) /\ Unlock(t)
           \/ locked' = locked
    PROVE  /\ locked' \in [FileId -> Threads \cup {NoThread}]
           /\ \A u \in Threads \ {t} : InFile(u) => locked'[th[u].file] = u
<1>1. /\ th[t].file \in FileId /\ locked \in [FileId -> Threads \cup {NoThread}]
      /\ InFile(t) => locked[th[t].file] = t
  BY ThreadType DEF ThreadOK
<1>2. \A u \in Threads : th[u].file \in FileId /\ (InFile(u) => locked[th[u].file] = u)
  BY ThreadType DEF ThreadOK
<1>3. CASE LockFree(t) /\ locked' = [locked EXCEPT ![th[t].file] = t]
  BY <1>1, <1>2, <1>3, NameAssumption DEF LockFree
<1>4. CASE InFile(t) /\ Unlock(t)
  BY <1>1, <1>2, <1>4 DEF Unlock
<1>5. CASE locked' = locked
  BY <1>1, <1>2, <1>5
<1> QED BY <1>3, <1>4, <1>5

-----------------------------------------------------------------------------
(* One lemma per step of ccask_write_record_blocking *)

\* A call begins: it gets the next number.
LEMMA BeginKeeps ==
    ASSUME WriteInv, NEW t \in Threads, NEW k \in Keys, NEW v \in ValueSizes, Begin(t, k, v)
    PROVE  StepKeeps
<1> USE DEF Begin, diskVars, fileVars, hintVars, counterVars
<1> DEFINE call == [key |-> k, vsize |-> v, status |-> "pending"]
<1>1. /\ wr \in Seq(Call) /\ Len(wr) \in Nat /\ Len(wr) < MaxWrites /\ MaxWrites \in Nat
      /\ th \in [Threads -> Thread] /\ keydir \in [Keys -> Seq(Entry)]
      /\ data \in [FileId -> Seq(Cell)]
  BY SizeAssumption DEF WriteInv, TypeOK
<1>2. call \in Call
  BY DEF Call
<1>3. /\ wr' \in Seq(Call) /\ Len(wr') = Len(wr) + 1
      /\ \A id \in 1 .. Len(wr) : wr'[id] = wr[id]
  BY <1>1, <1>2
<1>4. th'[t] = [pc |-> "active", id |-> Len(wr) + 1, file |-> 0, pos |-> 0, sent |-> 0,
                node |-> 0]
  BY <1>1 DEF Idle
<1>5. 0 \in FileId /\ Len(wr) + 1 \in 0 .. MaxWrites
  BY <1>1, SizeAssumption DEF FileId
<1>6. th'[t] \in Thread
  <2> HIDE DEF Begin
  <2>1. [pc |-> "active", id |-> Len(wr) + 1, file |-> 0, pos |-> 0, sent |-> 0, node |-> 0]
            \in Thread
    BY <1>5 DEF Thread
  <2> QED BY <2>1, <1>4
<1>7. th' \in [Threads -> Thread] /\ \A u \in Threads \ {t} : th'[u] = th[u]
  BY <1>1, <1>6
<1>8. TypeOK'
  BY <1>1, <1>3, <1>7 DEF WriteInv, TypeOK
<1>9. CellsOK' /\ Grows
  BY <1>1, <1>3, CellsKept
<1>10. CallsKept /\ IndexGrows
  BY <1>1, <1>3 DEF CallsKept, IndexGrows
<1>11. OthersKept(t)
  <2>1. \A u \in Threads : InFile(u) => locked[th[u].file] = u
    BY DEF WriteInv, ThreadOK
  <2> QED BY <1>7, <1>9, <1>10, <2>1 DEF OthersKept
<1>12. ThreadOK(t)'
  <2> HIDE DEF Begin
  <2>1. th'[t].pc = "active" /\ th'[t].sent = 0 /\ th'[t].id = Len(wr) + 1
    BY <1>4
  <2>2. th'[t].id \in 1 .. Len(wr')
    BY <2>1, <1>1, <1>3
  <2> QED BY <2>1, <2>2 DEF ThreadOK, InFile
<1> QED BY <1>8, <1>9, <1>10, <1>11, <1>12, ThreadFrame DEF StepKeeps, OthersKept

\* The active file is looked up.
LEMMA GetActiveFileKeeps ==
    ASSUME WriteInv, NEW t \in Threads, GetActiveFile(t)
    PROVE  StepKeeps
<1> USE DEF GetActiveFile, At, diskVars, fileVars, hintVars, counterVars
<1>1. th \in [Threads -> Thread] /\ active \in FileId /\ th[t] \in Thread /\ ThreadOK(t)
  BY DEF WriteInv, TypeOK
<1> DEFINE new == [th[t] EXCEPT !.file = active, !.pc = "lock"]
<1>2. new \in Thread /\ new.pc = "lock" /\ new.id = th[t].id /\ new.sent = th[t].sent
  BY <1>1 DEF Thread
<1>3. /\ th'[t] \in Thread
      /\ th'[t].pc = "lock" /\ th'[t].id = th[t].id /\ th'[t].sent = th[t].sent
  BY <1>1, <1>2
<1> HIDE DEF new
<1>4. th' \in [Threads -> Thread] /\ \A u \in Threads \ {t} : th'[u] = th[u]
  BY <1>1, <1>3
<1>5. TypeOK'
  BY <1>4 DEF WriteInv, TypeOK
<1>6. ThreadOK(t)'
  BY <1>1, <1>3 DEF ThreadOK, InFile
<1>7. \A u \in Threads \ {t} : InFile(u) => locked'[th[u].file] = u
  BY DEF WriteInv, ThreadOK
<1> QED BY <1>4, <1>5, <1>6, <1>7, QuietStep

\* A thread goes elsewhere in the call, with or without taking or releasing a lock.
LEMMA GotoType ==
    ASSUME WriteInv, NEW t \in Threads, Goto(t, "rotate") \/ Goto(t, "active") \/ Goto(t, "find")
                                        \/ Goto(t, "spin")
    PROVE  /\ th' \in [Threads -> Thread] /\ \A u \in Threads \ {t} : th'[u] = th[u]
           /\ th'[t] = [th[t] EXCEPT !.pc = th'[t].pc]
           /\ th'[t].id = th[t].id /\ th'[t].sent = th[t].sent /\ th'[t].file = th[t].file
           /\ th'[t].pos = th[t].pos /\ th'[t].node = th[t].node
           /\ \A label : Goto(t, label) => th'[t].pc = label
<1>1. th \in [Threads -> Thread] /\ th[t] \in Thread
  BY DEF WriteInv, TypeOK
<1>2. PICK label \in {"rotate", "active", "find", "spin"} : Goto(t, label)
  OBVIOUS
<1>3. th'[t] = [th[t] EXCEPT !.pc = label]
  BY <1>1, <1>2 DEF Goto
<1>4. th'[t] \in Thread /\ th'[t].pc = label
  BY <1>1, <1>3 DEF Thread
<1>5. /\ th'[t].id = th[t].id /\ th'[t].sent = th[t].sent /\ th'[t].file = th[t].file
      /\ th'[t].pos = th[t].pos /\ th'[t].node = th[t].node
  BY <1>1, <1>3 DEF Thread
<1>6. th' \in [Threads -> Thread] /\ \A u \in Threads \ {t} : th'[u] = th[u]
  BY <1>1, <1>2, <1>4 DEF Goto
<1>7. \A l : Goto(t, l) => th'[t].pc = l
  BY <1>1 DEF Goto, Thread
<1> QED BY <1>3, <1>4, <1>5, <1>6, <1>7

\* A call returns.
LEMMA FinishType ==
    ASSUME WriteInv, NEW t \in Threads, th[t].pc # "idle", NEW outcome \in {"ok", "fail"},
           Finish(t, outcome)
    PROVE  /\ th' \in [Threads -> Thread] /\ \A u \in Threads \ {t} : th'[u] = th[u]
           /\ wr' \in Seq(Call) /\ Len(wr') = Len(wr) /\ CallsKept
           /\ ThreadOK(t)'
<1>1. th \in [Threads -> Thread] /\ wr \in Seq(Call) /\ th[t].id \in 1 .. Len(wr)
  BY DEF WriteInv, TypeOK, ThreadOK
<1>2. wr[th[t].id] \in Call
  BY <1>1
<1>3. [wr[th[t].id] EXCEPT !.status = outcome] \in Call
  BY <1>2 DEF Call
<1>4. wr' \in Seq(Call) /\ Len(wr') = Len(wr)
  BY <1>1, <1>3 DEF Finish
<1>5. ASSUME NEW id \in 1 .. Len(wr)
      PROVE  wr'[id].key = wr[id].key /\ wr'[id].vsize = wr[id].vsize
  <2>1. CASE id = th[t].id
    <3>1. wr'[id] = [wr[id] EXCEPT !.status = outcome]
      BY <2>1, <1>1 DEF Finish
    <3> QED BY <3>1, <2>1, <1>2 DEF Call
  <2>2. CASE id # th[t].id
    BY <2>2, <1>1 DEF Finish
  <2> QED BY <2>1, <2>2
<1>6. CallsKept
  BY <1>1, <1>4, <1>5 DEF CallsKept
<1>7. Idle \in Thread
  BY SizeAssumption DEF Idle, Thread, FileId
<1>8. th' \in [Threads -> Thread] /\ th'[t] = Idle /\ \A u \in Threads \ {t} : th'[u] = th[u]
  BY <1>1, <1>7 DEF Finish
<1>9. ThreadOK(t)'
  BY <1>8 DEF ThreadOK, InFile, Idle
<1> QED BY <1>4, <1>6, <1>8, <1>9

\* wrlock and lseek: the file's lock is taken only when the call goes on, and the
\* record will be at the end of the file.
LEMMA SeekKeeps ==
    ASSUME WriteInv, NEW t \in Threads, SeekStep(t)
    PROVE  StepKeeps
<1> USE DEF At, diskVars, fileVars, hintVars, counterVars
<1>0. /\ th[t] \in Thread /\ th[t].file \in FileId /\ ThreadOK(t) /\ Len(data[th[t].file]) \in Nat
      /\ locked \in [FileId -> Threads \cup {NoThread}] /\ th \in [Threads -> Thread]
      /\ data \in [FileId -> Seq(Cell)] /\ wr \in Seq(Call) /\ keydir \in [Keys -> Seq(Entry)]
  BY ThreadType DEF WriteInv, TypeOK
<1>1. CASE SeekFails(t)
  <2> USE <1>1 DEF SeekFails
  <2>1. /\ th' \in [Threads -> Thread] /\ \A u \in Threads \ {t} : th'[u] = th[u]
        /\ wr' \in Seq(Call) /\ Len(wr') = Len(wr) /\ CallsKept /\ ThreadOK(t)'
    BY FinishType
  <2>2. TypeOK'
    BY <2>1 DEF WriteInv, TypeOK
  <2>3. CellsOK' /\ Grows
    BY <2>1, <1>0, CellsKept
  <2>4. IndexGrows
    BY <1>0 DEF IndexGrows
  <2>5. \A u \in Threads : InFile(u) => locked[th[u].file] = u
    BY DEF WriteInv, ThreadOK
  <2>6. OthersKept(t)
    BY <2>1, <2>3, <2>4, <2>5 DEF OthersKept
  <2> QED BY <2>1, <2>2, <2>3, <2>6, ThreadFrame DEF StepKeeps, OthersKept
<1>2. CASE SeekFull(t)
  <2> USE <1>2 DEF SeekFull
  <2>1. /\ th' \in [Threads -> Thread] /\ \A u \in Threads \ {t} : th'[u] = th[u]
        /\ th'[t].pc = "rotate" /\ th'[t].id = th[t].id /\ th'[t].sent = th[t].sent
        /\ th'[t].file = th[t].file
    BY GotoType
  <2>2. /\ locked' \in [FileId -> Threads \cup {NoThread}]
        /\ \A u \in Threads \ {t} : InFile(u) => locked'[th[u].file] = u
    BY LocksOfOthers
  <2>3. TypeOK'
    BY <2>1, <2>2 DEF WriteInv, TypeOK
  <2>4. locked'[th[t].file] = t
    BY <1>0
  <2>5. ThreadOK(t)'
    BY <2>1, <2>4, <1>0 DEF ThreadOK, InFile
  <2> QED BY <2>1, <2>2, <2>3, <2>5, QuietStep
<1>3. CASE SeekOk(t)
  <2> USE <1>3 DEF SeekOk
  <2> DEFINE new == [th[t] EXCEPT !.pos = SeekEnd(t), !.pc = "write"]
  <2>1. /\ new \in Thread /\ new.pc = "write" /\ new.id = th[t].id /\ new.sent = th[t].sent
        /\ new.file = th[t].file /\ new.pos = Len(data[th[t].file])
    BY <1>0 DEF Thread, SeekEnd
  <2>2. th'[t] = new /\ th' \in [Threads -> Thread] /\ \A u \in Threads \ {t} : th'[u] = th[u]
    BY <1>0, <2>1
  <2> HIDE DEF new
  <2>3. /\ locked' \in [FileId -> Threads \cup {NoThread}]
        /\ \A u \in Threads \ {t} : InFile(u) => locked'[th[u].file] = u
    BY LocksOfOthers
  <2>4. TypeOK'
    BY <2>2, <2>3 DEF WriteInv, TypeOK
  <2>5. locked'[th[t].file] = t
    BY <1>0
  <2>6. Size(th[t].id) \in Nat /\ Size(th[t].id) > 0 /\ th[t].sent = 0
        /\ th[t].id \in 1 .. Len(wr)
    <3>1. th[t].sent = 0 /\ th[t].id \in 1 .. Len(wr)
      BY <1>0 DEF ThreadOK
    <3> QED BY <3>1, <1>0, CallSize
  <2>7. data' = data /\ wr' = wr
    OBVIOUS
  <2>8. Sending(t)'
    <3>1. /\ th'[t].pos = Len(data[th[t].file]) /\ th'[t].sent = 0 /\ th'[t].file = th[t].file
          /\ th'[t].id = th[t].id /\ Size(th[t].id)' = Size(th[t].id)
      BY <2>1, <2>2, <2>6, <2>7 DEF Size
    <3>2. th'[t].pos + th'[t].sent = Len(data'[th'[t].file])
      BY <3>1, <2>7, <1>0
    <3>3. th'[t].sent < Size(th[t].id)'
      BY <3>1, <2>6
    <3>4. \A i \in 1 .. th'[t].sent : FALSE
      BY <3>1
    <3> QED BY <3>2, <3>3, <3>4 DEF Sending
  <2>9. ThreadOK(t)'
    BY <2>1, <2>2, <2>5, <2>6, <2>7, <2>8 DEF ThreadOK, InFile
  <2> QED BY <2>2, <2>3, <2>4, <2>9, QuietStep
<1> QED BY <1>1, <1>2, <1>3 DEF SeekStep

\* Rotation keeps the thread that does it out of the files; it may close the active
\* file under another thread, but not take its lock.
LEMMA RotateKeeps ==
    ASSUME WriteInv, NEW t \in Threads, RotateStep(t)
    PROVE  StepKeeps
<1> USE DEF At, diskVars, fileVars, hintVars, counterVars
<1>0. th[t].pc = "rotate" /\ InFile(t) /\ Unlock(t) /\ Goto(t, "active") /\ data' = data
      /\ wr' = wr /\ keydir' = keydir
  BY DEF RotateStep, Rotate, RotateFails, InFile
<1>1. /\ th' \in [Threads -> Thread] /\ \A u \in Threads \ {t} : th'[u] = th[u]
      /\ th'[t].pc = "active" /\ th'[t].id = th[t].id /\ th'[t].sent = th[t].sent
  BY <1>0, GotoType
<1>2. /\ locked' \in [FileId -> Threads \cup {NoThread}]
      /\ \A u \in Threads \ {t} : InFile(u) => locked'[th[u].file] = u
  BY <1>0, LocksOfOthers
<1>3. TypeOK'
  <2>1. CASE Rotate(t)
    <3> USE <2>1 DEF Rotate
    <3>1. active \in FileId /\ active' \in FileId
      BY SizeAssumption DEF WriteInv, TypeOK, FileId
    <3>2. fd' \in [FileId -> {"closed", "append", "read"}]
      BY <3>1 DEF SwitchFiles, WriteInv, TypeOK
    <3>3. hpc' \in [FileId -> {"none", "open", "scan", "done", "failed"}]
      BY <3>1 DEF WriteInv, TypeOK
    <3> QED BY <1>1, <1>2, <3>1, <3>2, <3>3 DEF WriteInv, TypeOK
  <2>2. CASE RotateFails(t)
    BY <2>2, <1>1, <1>2 DEF RotateFails, WriteInv, TypeOK
  <2> QED BY <2>1, <2>2 DEF RotateStep
<1>4. ThreadOK(t)
  BY DEF WriteInv
<1>5. ThreadOK(t)'
  BY <1>0, <1>1, <1>4 DEF ThreadOK, InFile
<1> QED BY <1>0, <1>1, <1>2, <1>3, <1>5, QuietStep

\* n more cells of the record of t, at the end of a file that nobody else writes.
LEMMA AppendKeeps ==
    ASSUME WriteInv, NEW t \in Threads, th[t].pc = "write",
           NEW n \in Nat, n > 0, n <= Unsent(t), AppendCells(t, n), wr' = wr
    PROVE  /\ data' \in [FileId -> Seq(Cell)] /\ Grows /\ CellsOK'
           /\ \A u \in Threads \ {t} : th[u].pc = "write" => data'[th[u].file] = data[th[u].file]
           /\ Len(data'[th[t].file]) = th[t].pos + (th[t].sent + n)
           /\ \A i \in 1 .. th[t].sent + n :
                 data'[th[t].file][th[t].pos + i] = [id |-> th[t].id, part |-> i]
<1> DEFINE f == th[t].file
           p == th[t].pos
           s == th[t].sent
           id == th[t].id
           old == data[f]
           new == Cells(id, s + 1, s + n)
<1>1. /\ data \in [FileId -> Seq(Cell)] /\ f \in FileId /\ p \in Nat /\ s \in Nat
      /\ wr \in Seq(Call) /\ ThreadOK(t) /\ Len(wr) \in Nat
  BY ThreadType
<1>2. id \in 1 .. Len(wr) /\ Len(wr) <= MaxWrites /\ MaxWrites \in Nat
  BY <1>1, SizeAssumption DEF ThreadOK, WriteInv, TypeOK
<1>3. /\ p + s = Len(old)
      /\ \A i \in 1 .. s : old[p + i] = [id |-> id, part |-> i]
  BY <1>1 DEF ThreadOK, Sending
<1>4. /\ new \in Seq(Cell) /\ Len(new) = n
      /\ \A i \in 1 .. n : new[i] = [id |-> id, part |-> s + i]
  <2>1. (s + n) - (s + 1) + 1 = n /\ \A i \in 1 .. n : s + 1 + i - 1 = s + i
    BY <1>1, SMTT(30)
  <2>2. new = [i \in 1 .. n |-> [id |-> id, part |-> s + 1 + i - 1]]
    BY <2>1 DEF Cells
  <2>3. \A i \in 1 .. n : [id |-> id, part |-> s + 1 + i - 1] \in Cell
    <3>1. id \in 1 .. MaxWrites
      BY <1>1, <1>2
    <3>2. \A i \in 1 .. n : s + 1 + i - 1 \in Nat
      BY <1>1
    <3> HIDE DEF id, s
    <3> QED BY <3>1, <3>2 DEF Cell
  <2> HIDE DEF new, id, s
  <2>4. new \in Seq(Cell) /\ Len(new) = n
    BY <2>2, <2>3
  <2> QED BY <2>1, <2>2, <2>4
<1>5. data' = [data EXCEPT ![f] = old \o new]
  BY DEF AppendCells
<1> HIDE DEF new
<1>6. /\ old \o new \in Seq(Cell) /\ Len(old \o new) = Len(old) + n
      /\ \A i \in 1 .. Len(old) : (old \o new)[i] = old[i]
      /\ \A i \in 1 .. n : (old \o new)[Len(old) + i] = [id |-> id, part |-> s + i]
  <2>1. old \in Seq(Cell) /\ Len(old) \in Nat
    BY <1>1
  <2> HIDE DEF old, id, s
  <2> QED BY <2>1, <1>4, SMTT(30)
<1>7. data'[f] = old \o new /\ \A g \in FileId \ {f} : data'[g] = data[g]
  BY <1>1, <1>5
<1>8. data' \in [FileId -> Seq(Cell)]
  BY <1>1, <1>5, <1>6
<1>9. Grows
  <2> SUFFICES ASSUME NEW g \in FileId
               PROVE  /\ Len(data[g]) <= Len(data'[g])
                      /\ \A i \in 1 .. Len(data[g]) : data'[g][i] = data[g][i]
    BY DEF Grows
  <2>1. CASE g = f
    <3>1. Len(old) \in Nat /\ Len(old) <= Len(old) + n
      BY <1>1
    <3> QED BY <2>1, <3>1, <1>6, <1>7
  <2>2. CASE g # f
    <3>1. Len(data[g]) \in Nat /\ data'[g] = data[g]
      BY <1>1, <1>7, <2>2
    <3> QED BY <3>1
  <2> QED BY <2>1, <2>2
<1>10. CellsOK'
  <2> SUFFICES ASSUME NEW g \in FileId, NEW i \in 1 .. Len(data'[g])
               PROVE  data'[g][i].id \in 1 .. Len(wr)
    BY DEF CellsOK
  <2>1. CASE g # f
    BY <2>1, <1>7 DEF WriteInv, CellsOK
  <2>2. CASE g = f /\ i <= Len(old)
    <3>1. i \in 1 .. Len(old) /\ data'[g][i] = old[i]
      BY <2>2, <1>1, <1>6, <1>7
    <3> QED BY <3>1, <1>1, <2>2 DEF WriteInv, CellsOK
  <2>3. CASE g = f /\ i > Len(old)
    <3>1. Len(old) \in Nat /\ i \in Nat /\ i <= Len(old) + n
      <4>1. Len(old) \in Nat /\ Len(data'[g]) = Len(old) + n
        BY <2>3, <1>1, <1>6, <1>7
      <4> HIDE DEF old
      <4> QED BY <4>1
    <3>2. i - Len(old) \in 1 .. n /\ i = Len(old) + (i - Len(old))
      BY <2>3, <3>1
    <3>3. data'[g][i] = [id |-> id, part |-> s + (i - Len(old))]
      BY <2>3, <3>2, <1>6, <1>7
    <3> QED BY <3>3, <1>2
  <2>4. i \in Nat /\ Len(old) \in Nat
    BY <1>1, <1>8
  <2> QED BY <2>1, <2>2, <2>3, <2>4
<1>11. ASSUME NEW u \in Threads \ {t}, th[u].pc = "write"
       PROVE  data'[th[u].file] = data[th[u].file]
  <2>1. locked[th[u].file] = u /\ locked[f] = t /\ th[u].file \in FileId
    BY <1>11, <1>1, ThreadType DEF WriteInv, ThreadOK, InFile
  <2> QED BY <2>1, <1>7
<1>12. Len(data'[f]) = p + (s + n)
  <2>1. Len(data'[f]) = Len(old) + n /\ Len(old) = p + s
    BY <1>3, <1>6, <1>7
  <2> QED BY <2>1, <1>1
<1>13. ASSUME NEW i \in 1 .. s + n
       PROVE  data'[f][p + i] = [id |-> id, part |-> i]
  <2>1. CASE i <= s
    <3>1. i \in 1 .. s /\ p + i \in 1 .. Len(old)
      BY <2>1, <1>1, <1>3
    <3> QED BY <3>1, <1>3, <1>6, <1>7
  <2>2. CASE i > s
    <3>1. i - s \in 1 .. n /\ p + i = Len(old) + (i - s) /\ s + (i - s) = i
      <4>1. p \in Nat /\ s \in Nat /\ p + s = Len(old) /\ i \in 1 .. s + n /\ i > s
        BY <2>2, <1>1, <1>3
      <4> HIDE DEF p, s, old
      <4> QED BY <4>1
    <3>2. data'[f][p + i] = [id |-> id, part |-> s + (i - s)]
      BY <3>1, <1>6, <1>7
    <3> QED BY <3>1, <3>2
  <2>3. i \in Nat
    BY <1>1
  <2> QED BY <2>1, <2>2, <2>3, <1>1
<1> QED BY <1>8, <1>9, <1>10, <1>11, <1>12, <1>13

\* safe_writev under the file's lock: a short write leaves the beginning of the
\* record, a complete one the whole record, where lseek said the file ended.
LEMMA WriteKeeps ==
    ASSUME WriteInv, NEW t \in Threads, WriteStep(t)
    PROVE  StepKeeps
<1> USE DEF At, diskVars, fileVars, hintVars, counterVars
<1>0. th[t].pc = "write" /\ InFile(t)
  BY DEF WriteStep, WritePart, WriteRest, WriteSpins, WriteFails, InFile
<1>1. /\ th[t] \in Thread /\ th[t].file \in FileId /\ th[t].pos \in Nat /\ th[t].sent \in Nat
      /\ th \in [Threads -> Thread] /\ data \in [FileId -> Seq(Cell)] /\ ThreadOK(t)
      /\ wr \in Seq(Call) /\ keydir \in [Keys -> Seq(Entry)]
      /\ locked \in [FileId -> Threads \cup {NoThread}]
  BY ThreadType DEF WriteInv, TypeOK
<1>2. /\ th[t].id \in 1 .. Len(wr) /\ Sending(t) /\ locked[th[t].file] = t
  BY <1>0, <1>1 DEF ThreadOK
<1>3. /\ Size(th[t].id) \in Nat /\ Unsent(t) \in Nat /\ Unsent(t) > 0
      /\ th[t].sent + Unsent(t) = Size(th[t].id)
  <2>1. Size(th[t].id) \in Nat /\ th[t].sent < Size(th[t].id)
    BY <1>1, <1>2, CallSize DEF Sending
  <2> QED BY <2>1, <1>1 DEF Unsent
<1>4. \A u \in Threads : InFile(u) => locked[th[u].file] = u
  BY DEF WriteInv, ThreadOK
<1>5. wr' = wr => CallsKept
  BY <1>1 DEF CallsKept
<1>6. keydir' = keydir => IndexGrows
  BY <1>1 DEF IndexGrows
<1>7. CASE WritePart(t)
  <2>1. PICK n \in 1 .. Unsent(t) - 1 : AppendCells(t, n) /\ th' = [th EXCEPT ![t].sent = @ + n]
    BY <1>7 DEF WritePart
  <2>2. n \in Nat /\ n > 0 /\ n <= Unsent(t) /\ n < Unsent(t)
    BY <1>3
  <2>3. UNCHANGED <<active, hint, phase, fd, locked, keydir, iterating, hpc, joining, wr,
                    crashes, shutdowns>>
    BY <1>7 DEF WritePart
  <2>4. /\ data' \in [FileId -> Seq(Cell)] /\ Grows /\ CellsOK'
        /\ \A u \in Threads \ {t} : th[u].pc = "write" => data'[th[u].file] = data[th[u].file]
        /\ Len(data'[th[t].file]) = th[t].pos + (th[t].sent + n)
        /\ \A i \in 1 .. th[t].sent + n :
              data'[th[t].file][th[t].pos + i] = [id |-> th[t].id, part |-> i]
    BY <1>0, <2>1, <2>2, <2>3, AppendKeeps
  <2> DEFINE new == [th[t] EXCEPT !.sent = @ + n]
  <2>5. /\ new \in Thread /\ new.pc = "write" /\ new.id = th[t].id /\ new.file = th[t].file
        /\ new.pos = th[t].pos /\ new.sent = th[t].sent + n
    <3>1. th[t].sent + n \in Nat
      BY <1>1, <2>2
    <3> QED BY <1>0, <1>1, <3>1 DEF Thread
  <2>6. th'[t] = new /\ th' \in [Threads -> Thread] /\ \A u \in Threads \ {t} : th'[u] = th[u]
    BY <1>1, <2>1, <2>5
  <2> HIDE DEF new
  <2>7. TypeOK'
    BY <2>3, <2>4, <2>6 DEF WriteInv, TypeOK
  <2>8. Sending(t)'
    <3>1. Size(th[t].id)' = Size(th[t].id)
      BY <2>3, <2>5, <2>6 DEF Size
    <3>2. th[t].sent + n < Size(th[t].id)
      BY <1>1, <1>3, <2>2
    <3> QED BY <2>4, <2>5, <2>6, <3>1, <3>2 DEF Sending
  <2>9. ThreadOK(t)'
    BY <2>3, <2>5, <2>6, <2>8, <1>2 DEF ThreadOK, InFile
  <2>10. OthersKept(t)
    BY <2>3, <2>4, <2>6, <1>4, <1>5, <1>6 DEF OthersKept
  <2> QED BY <2>3, <2>4, <2>7, <2>9, <2>10, <1>5, ThreadFrame DEF StepKeeps, OthersKept
<1>8. CASE WriteRest(t) \/ WriteSpins(t)
  <2>1. /\ AppendCells(t, Unsent(t)) /\ (Goto(t, "find") \/ Goto(t, "spin"))
        /\ UNCHANGED <<active, hint, phase, fd, keydir, iterating, hpc, joining, wr,
                       crashes, shutdowns>>
    BY <1>8 DEF WriteRest, WriteSpins
  <2>2. /\ data' \in [FileId -> Seq(Cell)] /\ Grows /\ CellsOK'
        /\ \A u \in Threads \ {t} : th[u].pc = "write" => data'[th[u].file] = data[th[u].file]
        /\ Len(data'[th[t].file]) = th[t].pos + Size(th[t].id)
        /\ \A i \in 1 .. Size(th[t].id) :
              data'[th[t].file][th[t].pos + i] = [id |-> th[t].id, part |-> i]
    <3>1. Unsent(t) <= Unsent(t)
      BY <1>3
    <3> DEFINE n == Unsent(t)
    <3>2. n \in Nat /\ n > 0 /\ n <= Unsent(t) /\ AppendCells(t, n) /\ wr' = wr
          /\ th[t].sent + n = Size(th[t].id)
      BY <1>3, <2>1, <3>1
    <3> HIDE DEF n
    <3>3. /\ data' \in [FileId -> Seq(Cell)] /\ Grows /\ CellsOK'
          /\ \A u \in Threads \ {t} : th[u].pc = "write" => data'[th[u].file] = data[th[u].file]
          /\ Len(data'[th[t].file]) = th[t].pos + (th[t].sent + n)
          /\ \A i \in 1 .. th[t].sent + n :
                data'[th[t].file][th[t].pos + i] = [id |-> th[t].id, part |-> i]
      BY <1>0, <3>2, AppendKeeps
    <3> QED BY <3>2, <3>3
  <2>3. /\ th' \in [Threads -> Thread] /\ \A u \in Threads \ {t} : th'[u] = th[u]
        /\ th'[t].id = th[t].id /\ th'[t].file = th[t].file /\ th'[t].pos = th[t].pos
        /\ Goto(t, "find") => th'[t].pc = "find"
        /\ Goto(t, "spin") => th'[t].pc = "spin"
    BY <2>1, GotoType
  <2>4. /\ locked' \in [FileId -> Threads \cup {NoThread}]
        /\ \A u \in Threads \ {t} : InFile(u) => locked'[th[u].file] = u
    BY <1>0, <1>8, LocksOfOthers DEF WriteRest, WriteSpins
  <2>5. TypeOK'
    BY <2>1, <2>2, <2>3, <2>4 DEF WriteInv, TypeOK
  <2>6. OthersKept(t)
    BY <2>1, <2>2, <2>3, <2>4, <1>5, <1>6 DEF OthersKept
  <2>7. ThreadOK(t)'
    <3>1. CASE WriteRest(t)
      <4>1. th'[t].pc = "find" /\ wr[th[t].id].vsize > 0
        BY <2>3, <3>1 DEF WriteRest
      <4>2. Size(th[t].id)' = Size(th[t].id)
        BY <2>1, <2>3 DEF Size
      <4>3. Len(data'[th[t].file]) \in Nat
        BY <1>1, <2>2
      <4>4. Whole(th[t].file, th[t].pos, th[t].id)'
        BY <2>2, <2>3, <4>2, <4>3 DEF Whole
      <4> QED BY <2>1, <2>3, <4>1, <4>4, <1>2 DEF ThreadOK, InFile
    <3>2. CASE WriteSpins(t)
      <4>1. th'[t].pc = "spin" /\ locked' = locked
        BY <2>3, <3>2 DEF WriteSpins
      <4> QED BY <2>1, <2>3, <4>1, <1>2 DEF ThreadOK, InFile
    <3> QED BY <1>8, <3>1, <3>2
  <2> QED BY <2>1, <2>2, <2>5, <2>6, <2>7, <1>5, ThreadFrame DEF StepKeeps, OthersKept
<1>9. CASE WriteFails(t)
  <2> USE <1>9 DEF WriteFails
  <2>1. /\ th' \in [Threads -> Thread] /\ \A u \in Threads \ {t} : th'[u] = th[u]
        /\ wr' \in Seq(Call) /\ Len(wr') = Len(wr) /\ CallsKept /\ ThreadOK(t)'
    BY <1>0, FinishType
  <2>2. /\ locked' \in [FileId -> Threads \cup {NoThread}]
        /\ \A u \in Threads \ {t} : InFile(u) => locked'[th[u].file] = u
    BY <1>0, LocksOfOthers
  <2>3. TypeOK'
    BY <2>1, <2>2 DEF WriteInv, TypeOK
  <2>4. CellsOK' /\ Grows
    BY <2>1, <1>1, CellsKept
  <2>5. OthersKept(t)
    BY <2>1, <2>2, <2>4, <1>6 DEF OthersKept
  <2> QED BY <2>1, <2>3, <2>4, <2>5, ThreadFrame DEF StepKeeps, OthersKept
<1> QED BY <1>7, <1>8, <1>9 DEF WriteStep

\* The key directory's part: the entry the upsert is going to change is still there.
LEMMA IndexKeeps ==
    ASSUME WriteInv, NEW t \in Threads, Find(t) \/ UpsertStep(t)
    PROVE  StepKeeps
<1> USE DEF At, diskVars, fileVars, hintVars, counterVars
<1>1. /\ th[t] \in Thread /\ th[t].file \in FileId /\ th[t].pos \in Nat /\ th[t].node \in Nat
      /\ th \in [Threads -> Thread] /\ ThreadOK(t)
      /\ wr \in Seq(Call) /\ keydir \in [Keys -> Seq(Entry)]
  BY ThreadType DEF WriteInv, TypeOK
<1>2. th[t].id \in 1 .. Len(wr)
  BY <1>1 DEF Find, UpsertStep, Upsert, UpsertNoMemory, ThreadOK
<1>3. wr[th[t].id].key \in Keys /\ wr[th[t].id].vsize \in Nat
  BY <1>1, <1>2, CallSize
<1>4. \A u \in Threads : InFile(u) => locked[th[u].file] = u
  BY DEF WriteInv, ThreadOK
<1>5. CASE Find(t)
  <2> USE <1>5 DEF Find
  <2> DEFINE found == Len(keydir[wr[th[t].id].key])
             new   == [th[t] EXCEPT !.node = found, !.pc = "upsert"]
  <2>1. found \in Nat
    BY <1>1, <1>3
  <2>2. /\ new \in Thread /\ new.pc = "upsert" /\ new.id = th[t].id /\ new.file = th[t].file
        /\ new.pos = th[t].pos /\ new.node = found
    <3> HIDE DEF found
    <3> QED BY <1>1, <2>1 DEF Thread
  <2>3. th'[t] = new /\ th' \in [Threads -> Thread] /\ \A u \in Threads \ {t} : th'[u] = th[u]
    BY <1>1, <2>2
  <2> HIDE DEF new
  <2>4. TypeOK'
    BY <2>3 DEF WriteInv, TypeOK
  <2>5. Whole(th[t].file, th[t].pos, th[t].id) /\ wr[th[t].id].vsize > 0
    BY <1>1 DEF ThreadOK
  <2>6. Whole(th[t].file, th[t].pos, th[t].id)'
    <3>1. /\ data' = data /\ wr' = wr /\ th'[t].file = th[t].file /\ th'[t].pos = th[t].pos
          /\ th'[t].id = th[t].id
      BY <2>2, <2>3
    <3> HIDE DEF Find
    <3> QED BY <3>1, <2>5 DEF Whole, Size
  <2>7. found <= found
    BY <2>1
  <2>8. ThreadOK(t)'
    BY <2>2, <2>3, <2>5, <2>6, <2>7, <1>2 DEF ThreadOK, InFile
  <2> QED BY <2>3, <2>4, <2>8, <1>4, QuietStep
<1>6. ASSUME NEW outcome \in {"ok", "fail"}, th[t].pc = "upsert", Finish(t, outcome),
             UNCHANGED <<data, active, hint, phase, fd, locked, iterating, hpc, joining,
                         crashes, shutdowns>>,
             keydir' \in [Keys -> Seq(Entry)], IndexGrows
      PROVE  StepKeeps
  <2>1. /\ th' \in [Threads -> Thread] /\ \A u \in Threads \ {t} : th'[u] = th[u]
        /\ wr' \in Seq(Call) /\ Len(wr') = Len(wr) /\ CallsKept /\ ThreadOK(t)'
    BY <1>6, FinishType
  <2>2. TypeOK'
    BY <1>6, <2>1 DEF WriteInv, TypeOK
  <2>3. CellsOK' /\ Grows
    BY <1>6, <2>1, <1>1, CellsKept
  <2>4. OthersKept(t)
    BY <1>6, <2>1, <2>3, <1>4 DEF OthersKept
  <2> QED BY <2>1, <2>2, <2>3, <2>4, ThreadFrame DEF StepKeeps, OthersKept
<1>7. CASE Upsert(t)
  <2> DEFINE k == wr[th[t].id].key
             n == th[t].node
             e == [file |-> th[t].file, pos |-> th[t].pos, vsize |-> wr[th[t].id].vsize]
  <2>1. e \in Entry /\ k \in Keys
    BY <1>1, <1>3 DEF Entry
  <2>2. n \in Nat /\ n <= Len(keydir[k]) /\ keydir[k] \in Seq(Entry)
    BY <1>1, <1>3, <1>7 DEF Upsert, ThreadOK
  <2>3. \/ n = 0 /\ keydir' = [keydir EXCEPT ![k] = Append(@, e)]
        \/ n # 0 /\ keydir' = [keydir EXCEPT ![k][n] = e]
    BY <1>7 DEF Upsert, SetEntry
  <2> HIDE DEF k, n, e
  <2>4. keydir' \in [Keys -> Seq(Entry)] /\ IndexGrows
    <3>1. CASE n = 0
      <4>1. Append(keydir[k], e) \in Seq(Entry) /\ Len(Append(keydir[k], e)) = Len(keydir[k]) + 1
        BY <2>1, <2>2
      <4>2. keydir' \in [Keys -> Seq(Entry)]
        BY <3>1, <2>1, <2>3, <4>1, <1>1
      <4>3. ASSUME NEW j \in Keys PROVE Len(keydir[j]) <= Len(keydir'[j])
        <5>1. keydir[j] \in Seq(Entry) /\ Len(keydir[j]) \in Nat
          BY <1>1
        <5>2. keydir'[j] = IF j = k THEN Append(keydir[k], e) ELSE keydir[j]
          BY <3>1, <2>1, <2>3, <1>1
        <5> QED BY <5>1, <5>2, <4>1
      <4> QED BY <4>2, <4>3 DEF IndexGrows
    <3>2. CASE n # 0
      <4>1. n \in 1 .. Len(keydir[k])
        BY <3>2, <2>2
      <4>2. [keydir[k] EXCEPT ![n] = e] \in Seq(Entry)
            /\ Len([keydir[k] EXCEPT ![n] = e]) = Len(keydir[k])
        BY <4>1, <2>1, <2>2
      <4>3. keydir' = [keydir EXCEPT ![k] = [keydir[k] EXCEPT ![n] = e]]
        BY <3>2, <2>3
      <4>4. keydir' \in [Keys -> Seq(Entry)]
        BY <4>2, <4>3, <2>1, <1>1
      <4>5. \A j \in Keys : Len(keydir[j]) <= Len(keydir'[j])
        BY <4>2, <4>3, <2>1, <1>1
      <4> QED BY <4>4, <4>5 DEF IndexGrows
    <3> QED BY <3>1, <3>2
  <2> QED BY <2>4, <1>6, <1>7 DEF Upsert
<1>8. CASE UpsertNoMemory(t)
  BY <1>1, <1>6, <1>8 DEF UpsertNoMemory, IndexGrows
<1> QED BY <1>5, <1>7, <1>8 DEF UpsertStep

\* The thread is in a call.
Writing(t) == th[t].pc # "idle"

\* A call returns: its outcome is all that changes in wr.
LEMMA EndedCall ==
    ASSUME WriteInv, NEW t \in Threads, Writing(t), NEW outcome \in {"ok", "fail"},
           Finish(t, outcome)
    PROVE  /\ th[t].id \in 1 .. Len(wr) /\ Len(wr') = Len(wr) /\ Len(wr) \in Nat
           /\ th'[t].pc = "idle" /\ \A u \in Threads \ {t} : th'[u] = th[u]
           /\ wr'[th[t].id].status = outcome
           /\ \A i \in 1 .. Len(wr) : /\ wr'[i].key = wr[i].key /\ wr'[i].vsize = wr[i].vsize
                                      /\ i # th[t].id => wr'[i].status = wr[i].status
<1>1. th \in [Threads -> Thread] /\ wr \in Seq(Call) /\ th[t].id \in 1 .. Len(wr) /\ Len(wr) \in Nat
  BY DEF WriteInv, TypeOK, ThreadOK, Writing
<1>2. wr[th[t].id] \in Call
  BY <1>1
<1>3. th'[t].pc = "idle" /\ \A u \in Threads \ {t} : th'[u] = th[u]
  BY <1>1 DEF Finish, Idle
<1>4. Len(wr') = Len(wr) /\ CallsKept
  BY FinishType DEF Writing
<1>5. wr'[th[t].id] = [wr[th[t].id] EXCEPT !.status = outcome]
  BY <1>1 DEF Finish
<1>6. wr'[th[t].id].status = outcome
  BY <1>2, <1>5 DEF Call
<1>7. \A i \in 1 .. Len(wr) : i # th[t].id => wr'[i] = wr[i]
  BY <1>1 DEF Finish
<1> QED BY <1>1, <1>3, <1>4, <1>6, <1>7 DEF CallsKept

\* A step in which no thread of the write path takes part.
LEMMA NoThreadKeeps ==
    ASSUME WriteInv, TypeOK', UNCHANGED <<data, wr, keydir, th, locked>>
    PROVE  StepKeeps
<1>1. data \in [FileId -> Seq(Cell)] /\ wr \in Seq(Call) /\ keydir \in [Keys -> Seq(Entry)]
  BY DEF WriteInv, TypeOK
<1>2. CellsOK' /\ Grows
  BY <1>1, CellsKept
<1>3. CallsKept /\ IndexGrows
  BY <1>1 DEF CallsKept, IndexGrows
<1>4. \A t \in Threads : ThreadOK(t)'
  BY DEF WriteInv, ThreadOK, InFile, Sending, Whole, Size
<1> QED BY <1>2, <1>3, <1>4 DEF StepKeeps, WriteInv

\* Every step of a thread keeps the invariant, lets files only grow and leaves the
\* calls' keys and sizes alone.
LEMMA ThreadKeeps ==
    ASSUME WriteInv, NEW t \in Threads,
           ThreadStep(t) \/ \E k \in Keys, v \in ValueSizes : Begin(t, k, v)
    PROVE  StepKeeps
BY BeginKeeps, GetActiveFileKeeps, SeekKeeps, RotateKeeps, WriteKeeps, IndexKeeps DEF ThreadStep

-----------------------------------------------------------------------------
(* The index *)

\* The part of KeydirSound about the entries.
IndexLeads == \A k \in Keys : \A n \in DOMAIN keydir[k] : LeadsToRecord(k, keydir[k][n])

\* The invariant has the other part, about the threads.
LEMMA IndexIsSound == WriteInv /\ IndexLeads => KeydirSound
BY DEF WriteInv, ThreadOK, IndexLeads, KeydirSound

\* An entry that leads to a record goes on to lead to it.
LEMMA LeadsKept ==
    ASSUME WriteInv, StepKeeps, NEW k, NEW e \in Entry, LeadsToRecord(k, e)
    PROVE  LeadsToRecord(k, e)'
<1>1. PICK id \in 1 .. Len(wr) : wr[id].key = k /\ wr[id].vsize = e.vsize /\ Whole(e.file, e.pos, id)
  BY DEF LeadsToRecord
<1>2. /\ data \in [FileId -> Seq(Cell)] /\ wr \in Seq(Call)
      /\ data' \in [FileId -> Seq(Cell)] /\ wr' \in Seq(Call) /\ Grows /\ CallsKept
  BY DEF StepKeeps, WriteInv, TypeOK
<1>3. e.file \in FileId /\ e.pos \in Nat
  BY DEF Entry
<1>4. Whole(e.file, e.pos, id)'
  BY <1>1, <1>2, <1>3, WholeKept
<1>5. id \in 1 .. Len(wr') /\ wr'[id].key = k /\ wr'[id].vsize = e.vsize
  BY <1>1, <1>2 DEF CallsKept
<1> QED BY <1>4, <1>5 DEF LeadsToRecord

\* The index is sound after a step if each of its entries was there before, or leads to
\* a record.
LEMMA IndexStep ==
    ASSUME WriteInv, StepKeeps, IndexLeads,
           \A k \in Keys : \A n \in DOMAIN keydir'[k] :
              \/ n \in DOMAIN keydir[k] /\ keydir'[k][n] = keydir[k][n]
              \/ \E e \in Entry : keydir'[k][n] = e /\ LeadsToRecord(k, e)
    PROVE  IndexLeads'
<1> SUFFICES ASSUME NEW k \in Keys, NEW n \in DOMAIN keydir'[k]
             PROVE  LeadsToRecord(k, keydir[k][n])'
  BY DEF IndexLeads
<1>1. PICK e \in Entry : keydir'[k][n] = e /\ LeadsToRecord(k, e)
  <2>1. CASE n \in DOMAIN keydir[k] /\ keydir'[k][n] = keydir[k][n]
    <3>1. keydir[k][n] \in Entry
      BY <2>1 DEF WriteInv, TypeOK
    <3> QED BY <2>1, <3>1 DEF IndexLeads
  <2> QED BY <2>1
<1>2. LeadsToRecord(k, e)'
  BY <1>1, LeadsKept
<1> QED BY <1>1, <1>2 DEF LeadsToRecord, Whole, Size

\* The entry an upsert makes.
NewEntry(t) == [file |-> th[t].file, pos |-> th[t].pos, vsize |-> wr[th[t].id].vsize]

\* What an upsert relies on and what it leaves in the index: one entry, of its key, for a
\* record that is whole; behind the others if it found none.
LEMMA UpsertEntries ==
    ASSUME WriteInv, NEW t \in Threads, Upsert(t)
    PROVE  /\ th[t].id \in 1 .. Len(wr) /\ wr[th[t].id].key \in Keys /\ NewEntry(t) \in Entry
           /\ Whole(th[t].file, th[t].pos, th[t].id) /\ wr[th[t].id].vsize > 0
           /\ th[t].node = 0 =>
                 keydir' = [keydir EXCEPT ![wr[th[t].id].key] = Append(@, NewEntry(t))]
           /\ th[t].node # 0 =>
                 /\ th[t].node \in 1 .. Len(keydir[wr[th[t].id].key])
                 /\ keydir' = [keydir EXCEPT ![wr[th[t].id].key] =
                                  [keydir[wr[th[t].id].key] EXCEPT ![th[t].node] = NewEntry(t)]]
           /\ \A k \in Keys : \A n \in DOMAIN keydir'[k] :
                 \/ n \in DOMAIN keydir[k] /\ keydir'[k][n] = keydir[k][n]
                 \/ k = wr[th[t].id].key /\ keydir'[k][n] = NewEntry(t)
<1> DEFINE k == wr[th[t].id].key
           n == th[t].node
           e == NewEntry(t)
<1>1. /\ th[t].file \in FileId /\ th[t].pos \in Nat /\ n \in Nat /\ ThreadOK(t)
      /\ wr \in Seq(Call) /\ keydir \in [Keys -> Seq(Entry)]
  BY ThreadType
<1>2. /\ th[t].id \in 1 .. Len(wr) /\ Whole(th[t].file, th[t].pos, th[t].id)
      /\ n <= Len(keydir[k]) /\ wr[th[t].id].vsize > 0
  BY <1>1 DEF Upsert, At, ThreadOK
<1>3. k \in Keys /\ wr[th[t].id].vsize \in Nat
  BY <1>1, <1>2, CallSize
<1>4. e \in Entry
  BY <1>1, <1>3 DEF Entry, NewEntry
<1>5. /\ n = 0 => keydir' = [keydir EXCEPT ![k] = Append(@, e)]
      /\ n # 0 => keydir' = [keydir EXCEPT ![k] = [keydir[k] EXCEPT ![n] = e]]
  BY DEF Upsert, SetEntry, NewEntry
<1>6. n # 0 => n \in 1 .. Len(keydir[k])
  BY <1>1, <1>2, <1>3
<1> HIDE DEF k, n, e
<1>7. ASSUME NEW j \in Keys, NEW i \in DOMAIN keydir'[j]
      PROVE  \/ i \in DOMAIN keydir[j] /\ keydir'[j][i] = keydir[j][i]
             \/ j = k /\ keydir'[j][i] = e
  <2>1. CASE j # k
    BY <2>1, <1>1, <1>3, <1>5
  <2>2. CASE j = k /\ n = 0
    <3>1. keydir'[k] = Append(keydir[k], e) /\ keydir[k] \in Seq(Entry)
      BY <2>2, <1>1, <1>3, <1>5
    <3>2. CASE i = Len(keydir[k]) + 1
      BY <3>1, <3>2, <2>2, <1>4
    <3>3. CASE i # Len(keydir[k]) + 1
      <4>1. i \in 1 .. Len(keydir[k]) + 1 /\ Len(keydir[k]) \in Nat
        BY <3>1, <2>2, <1>4
      <4>2. i \in 1 .. Len(keydir[k])
        BY <4>1, <3>3
      <4> QED BY <4>2, <3>1, <2>2, <1>4
    <3> QED BY <3>2, <3>3
  <2>3. CASE j = k /\ n # 0
    <3>1. keydir'[k] = [keydir[k] EXCEPT ![n] = e] /\ keydir[k] \in Seq(Entry)
      BY <2>3, <1>1, <1>3, <1>5
    <3>2. i \in DOMAIN keydir[k]
      BY <3>1, <2>3
    <3>3. CASE i = n
      BY <3>1, <3>2, <3>3, <2>3, <1>4
    <3>4. CASE i # n
      BY <3>1, <3>2, <3>4, <2>3
    <3> QED BY <3>3, <3>4
  <2> QED BY <2>1, <2>2, <2>3
<1> QED BY <1>2, <1>3, <1>4, <1>5, <1>6, <1>7 DEF k, n, e

\* No other step of a thread touches the index.
LEMMA OnlyUpsert ==
    ASSUME NEW t, ThreadStep(t) \/ \E k \in Keys, v \in ValueSizes : Begin(t, k, v)
    PROVE  Upsert(t) \/ keydir' = keydir
BY DEF ThreadStep, Begin, GetActiveFile, SeekStep, SeekFails, SeekFull, SeekOk,
       RotateStep, Rotate, RotateFails, WriteStep, WritePart, WriteRest, WriteSpins, WriteFails,
       Find, UpsertStep, UpsertNoMemory

\* Every step of a thread keeps the index sound: an upsert adds the position of a record
\* that is whole.
LEMMA ThreadIndex ==
    ASSUME WriteInv, IndexLeads, NEW t \in Threads,
           ThreadStep(t) \/ \E k \in Keys, v \in ValueSizes : Begin(t, k, v)
    PROVE  IndexLeads'
<1>1. StepKeeps
  BY ThreadKeeps
<1>2. CASE keydir' = keydir
  BY <1>1, <1>2, IndexStep
<1>3. CASE Upsert(t)
  <2>1. /\ th[t].id \in 1 .. Len(wr) /\ NewEntry(t) \in Entry
        /\ Whole(th[t].file, th[t].pos, th[t].id)
        /\ \A k \in Keys : \A n \in DOMAIN keydir'[k] :
              \/ n \in DOMAIN keydir[k] /\ keydir'[k][n] = keydir[k][n]
              \/ k = wr[th[t].id].key /\ keydir'[k][n] = NewEntry(t)
    BY <1>3, UpsertEntries
  <2>2. LeadsToRecord(wr[th[t].id].key, NewEntry(t))
    BY <2>1 DEF LeadsToRecord, NewEntry
  <2> QED BY <2>1, <2>2, <1>1, IndexStep
<1> QED BY <1>2, <1>3, OnlyUpsert
=============================================================================
