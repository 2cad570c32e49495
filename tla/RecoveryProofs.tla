--------------------------- MODULE RecoveryProofs ---------------------------
(***************************************************************************)
(* Theorems about module Store that need both the write path and what a    *)
(* scan of a datafile yields: types, hintfiles, and what keydir_recover    *)
(* rebuilds after a crash or a shutdown, for every set of keys and every   *)
(* size and bound.                                                         *)
(***************************************************************************)
EXTENDS ScanProofs

-----------------------------------------------------------------------------
(* Types *)

\* A hintfile that is being written, or has been, starts like a scan of its datafile.
HintPrefix(f) ==
    /\ hint[f] \in Seq(HintRecord) /\ Len(hint[f]) <= Len(Scan(data[f]))
    /\ \A i \in 1 .. Len(hint[f]) : hint[f][i] = Scan(data[f])[i]

\* Only files that have been rotated away have a hint thread or a hintfile, so that their
\* datafile does not change under the thread; a thread that is done has all of it, if no
\* read of its has failed.
HintInv ==
    /\ DOMAIN hint = FileId
    /\ \A f \in FileId : hint[f] # NoHint \/ hpc[f] # "none" => f < active
    /\ \A f \in FileId : hpc[f] \in {"scan", "done"} => HintPrefix(f)
    /\ "read" \notin Faults =>
          \A f \in FileId : hpc[f] = "done" => Len(hint[f]) = Len(Scan(data[f]))

\* The locks, the append-only log and the threads (StoreProofs) and the
\* hintfiles.
BaseInv == WriteInv /\ LogInv /\ HintInv

\* What every step keeps of the calls and the log.
Keeps == BaseInv' /\ Grows /\ CallsKept /\ AppendOnlyStep

\* The types of the variables, for reference below.
LEMMA BaseTypes ==
    ASSUME WriteInv
    PROVE  /\ data \in [FileId -> Seq(Cell)] /\ wr \in Seq(Call) /\ Len(wr) \in Nat
           /\ active \in FileId /\ active \in Nat /\ active <= MaxFiles /\ MaxFiles \in Nat
           /\ keydir \in [Keys -> Seq(Entry)] /\ th \in [Threads -> Thread]
           /\ \A f \in 0 .. active : f \in FileId
           /\ \A f \in FileId : f \in Nat /\ Len(data[f]) \in Nat /\ KnownCells(data[f])
<1>1. /\ data \in [FileId -> Seq(Cell)] /\ wr \in Seq(Call) /\ Len(wr) \in Nat
      /\ active \in FileId /\ keydir \in [Keys -> Seq(Entry)] /\ th \in [Threads -> Thread]
      /\ CellsOK
  BY DEF WriteInv, TypeOK
<1>2. MaxFiles \in Nat /\ active \in Nat /\ active <= MaxFiles
  BY <1>1, SizeAssumption DEF FileId
<1>3. \A f \in FileId : f \in Nat /\ Len(data[f]) \in Nat /\ KnownCells(data[f])
  BY <1>1 DEF FileId, KnownCells, CellsOK
<1>4. \A f \in 0 .. active : f \in FileId
  BY <1>2 DEF FileId
<1> QED BY <1>1, <1>2, <1>3, <1>4

\* What keydir_recover reads of a file is a sequence of hint records.
LEMMA SourceType ==
    ASSUME WriteInv, NEW f \in FileId
    PROVE  Source(f) \in Seq(HintRecord) /\ Len(Source(f)) \in Nat
<1>1. Scan(data[f]) \in Seq(HintRecord)
  <2>1. wr \in Seq(Call) /\ KnownCells(data[f])
    BY BaseTypes
  <2>2. Entries(data[f], Scan(data[f]), 0)
    BY <2>1, ScanEntries
  <2> QED BY <2>2 DEF Entries
<1>2. hint[f] = NoHint \/ hint[f] \in Seq(HintRecord)
  BY DEF WriteInv, TypeOK
<1> QED BY <1>1, <1>2 DEF Source

\* The record a recovered entry stands for: the last one of its key in the last file that
\* has any.
LastSource(k, f, i) ==
    /\ f \in 0 .. active /\ i \in 1 .. Len(Source(f)) /\ Source(f)[i].key = k
    /\ \A g \in 0 .. active : \A j \in 1 .. Len(Source(g)) :
          Source(g)[j].key = k => g < f \/ (g = f /\ j <= i)

\* What the index of k is after keydir_recover.
LEMMA RecoveredIs ==
    ASSUME WriteInv, NEW k
    PROVE  \/ /\ Recovered(k) = <<>>
              /\ \A f \in 0 .. active : \A i \in 1 .. Len(Source(f)) : Source(f)[i].key # k
           \/ \E f, i : /\ LastSource(k, f, i)
                        /\ Recovered(k) = <<[file |-> f, pos |-> Source(f)[i].pos,
                                             vsize |-> Source(f)[i].vsize]>>
<1> DEFINE Has(f) == {i \in DOMAIN Source(f) : Source(f)[i].key = k}
           files  == {f \in 0 .. active : Has(f) # {}}
           m      == Max(files)
           e      == Source(m)[Max(Has(m))]
<1>1. Recovered(k) = IF files = {} THEN <<>>
                     ELSE <<[file |-> m, pos |-> e.pos, vsize |-> e.vsize]>>
  BY DEF Recovered
<1>2. ASSUME NEW f \in 0 .. active
      PROVE  Len(Source(f)) \in Nat /\ DOMAIN Source(f) = 1 .. Len(Source(f))
  <2>1. f \in FileId
    BY BaseTypes
  <2> QED BY <2>1, SourceType
<1>3. CASE files = {}
  <2>1. ASSUME NEW f \in 0 .. active, NEW i \in 1 .. Len(Source(f)), Source(f)[i].key = k
        PROVE  FALSE
    <3>1. i \in Has(f)
      BY <1>2, <2>1
    <3> QED BY <1>3, <3>1
  <2> QED BY <1>1, <1>3, <2>1
<1>4. CASE files # {}
  <2>1. active \in Nat /\ files \in SUBSET Nat /\ \A x \in files : x <= active
    BY BaseTypes
  <2>2. m \in files /\ \A x \in files : x <= m
    <3> HIDE DEF files
    <3> QED BY <1>4, <2>1, MaxIs
  <2>3. m \in 0 .. active /\ Has(m) # {}
    BY <2>2
  <2>4. PICK n \in Nat : n = Len(Source(m)) /\ DOMAIN Source(m) = 1 .. n
    BY <1>2, <2>3
  <2>5. Has(m) \in SUBSET Nat /\ \A x \in Has(m) : x <= n
    BY <2>4
  <2>6. Max(Has(m)) \in Has(m) /\ \A x \in Has(m) : x <= Max(Has(m))
    <3> DEFINE S == Has(m)
    <3>1. S \in SUBSET Nat /\ S # {} /\ \A x \in S : x <= n
      BY <2>3, <2>5
    <3> HIDE DEF S
    <3>2. Max(S) \in S /\ \A x \in S : x <= Max(S)
      BY <3>1, MaxIs
    <3> QED BY <3>2 DEF S
  <2>7. PICK f, i : f = m /\ i = Max(Has(m))
    OBVIOUS
  <2>8. /\ f \in 0 .. active /\ i \in 1 .. Len(Source(f)) /\ Source(f)[i].key = k
    BY <2>3, <2>4, <2>6, <2>7
  <2>9. ASSUME NEW g \in 0 .. active, NEW j \in 1 .. Len(Source(g)), Source(g)[j].key = k
        PROVE  g < f \/ (g = f /\ j <= i)
    <3>1. j \in Has(g)
      BY <1>2, <2>9
    <3>2. g \in files
      BY <3>1
    <3>3. g <= f /\ g \in Nat /\ f \in Nat
      BY <2>1, <2>2, <2>7, <3>2
    <3>4. g = f => j <= i
      BY <2>6, <2>7, <3>1
    <3> QED BY <3>3, <3>4
  <2>10. LastSource(k, f, i)
    BY <2>8, <2>9 DEF LastSource
  <2>11. Recovered(k) = <<[file |-> f, pos |-> Source(f)[i].pos, vsize |-> Source(f)[i].vsize]>>
    BY <1>1, <1>4, <2>7
  <2> QED BY <2>10, <2>11
<1> QED BY <1>3, <1>4

\* It is a sequence of entries.
LEMMA RecoveredType ==
    ASSUME WriteInv, NEW k
    PROVE  Recovered(k) \in Seq(Entry)
<1>1. CASE Recovered(k) = <<>>
  BY <1>1
<1>2. ASSUME NEW f, NEW i, LastSource(k, f, i),
             Recovered(k) = <<[file |-> f, pos |-> Source(f)[i].pos, vsize |-> Source(f)[i].vsize]>>
      PROVE  Recovered(k) \in Seq(Entry)
  <2>1. f \in FileId /\ i \in 1 .. Len(Source(f))
    BY <1>2, BaseTypes DEF LastSource
  <2>2. Source(f)[i] \in HintRecord
    BY <2>1, SourceType
  <2>3. PICK e : e = [file |-> f, pos |-> Source(f)[i].pos, vsize |-> Source(f)[i].vsize]
    OBVIOUS
  <2>4. e \in Entry
    BY <2>1, <2>2, <2>3 DEF Entry, HintRecord
  <2> QED BY <1>2, <2>3, <2>4
<1> QED BY <1>1, <1>2, RecoveredIs

\* The records of a scan.
LEMMA ScanRecord ==
    ASSUME WriteInv, NEW f \in FileId
    PROVE  /\ Scan(data[f]) \in Seq(HintRecord) /\ Len(Scan(data[f])) \in Nat
           /\ \A i \in 1 .. Len(Scan(data[f])) : Scan(data[f])[i] \in HintRecord
<1>1. wr \in Seq(Call) /\ KnownCells(data[f])
  BY BaseTypes
<1>2. Entries(data[f], Scan(data[f]), 0)
  BY <1>1, ScanEntries
<1>3. PICK s : s = Scan(data[f])
  OBVIOUS
<1>4. s \in Seq(HintRecord)
  BY <1>2, <1>3 DEF Entries
<1>5. Len(s) \in Nat /\ \A i \in 1 .. Len(s) : s[i] \in HintRecord
  BY <1>4
<1> QED BY <1>3, <1>4, <1>5

\* A file that a step leaves alone says the same afterwards.
LEMMA SameScan ==
    ASSUME WriteInv, wr' \in Seq(Call), CallsKept, NEW f \in FileId, data'[f] = data[f]
    PROVE  Scan(data[f])' = Scan(data[f])
<1>1. PICK cells : cells = data[f]
  OBVIOUS
<1>2. wr \in Seq(Call) /\ KnownCells(cells)
  BY <1>1, BaseTypes
<1>3. Scan(cells)' = Scan(cells)
  BY <1>2, ScanKept
<1>4. data'[f] = cells
  BY <1>1
<1>5. Scan(data[f])' = Scan(cells)'
  BY <1>4 DEF Scan, CanRead, EntryAt, Size
<1> QED BY <1>1, <1>3, <1>5

\* Steps that write no hintfile keep what is known of them: rotation gives the file it
\* leaves behind a hint thread, and the end of the process ends the threads.
LEMMA HintsKept ==
    ASSUME BaseInv, wr' \in Seq(Call), CallsKept, AppendOnlyStep, hint' = hint,
           active' \in Nat, active <= active',
           \A f \in FileId : \/ hpc'[f] = hpc[f] \/ hpc'[f] = "none"
                             \/ hpc'[f] \notin {"scan", "done"} /\ f < active'
    PROVE  HintInv'
<1>1. active \in Nat /\ \A f \in FileId : f \in Nat
  BY BaseTypes DEF BaseInv
<1>2. ASSUME NEW f \in FileId, hint'[f] # NoHint \/ hpc'[f] # "none"
      PROVE  f < active'
  <2>1. f < active \/ f < active'
    BY <1>2 DEF BaseInv, HintInv
  <2>2. f \in Nat
    BY <1>1
  <2> QED BY <1>1, <2>1, <2>2
<1>3. ASSUME NEW f \in FileId, hpc'[f] \in {"scan", "done"}
      PROVE  /\ HintPrefix(f)'
             /\ "read" \notin Faults /\ hpc'[f] = "done" => Len(hint'[f]) = Len(Scan(data[f])')
  <2>1. hpc'[f] = hpc[f]
    BY <1>3
  <2>2. f < active /\ HintPrefix(f)
    BY <1>3, <2>1 DEF BaseInv, HintInv
  <2>3. data'[f] = data[f]
    BY <2>2 DEF AppendOnlyStep
  <2>4. Scan(data[f])' = Scan(data[f])
    BY <2>3, SameScan DEF BaseInv
  <2>5. PICK s : s = Scan(data[f])
    OBVIOUS
  <2>6. HintPrefix(f)'
    BY <2>2, <2>4 DEF HintPrefix
  <2>7. "read" \notin Faults /\ hpc'[f] = "done" => Len(hint'[f]) = Len(Scan(data[f])')
    BY <2>1, <2>4 DEF BaseInv, HintInv
  <2> QED BY <2>6, <2>7
<1>4. DOMAIN hint' = FileId
  BY DEF BaseInv, HintInv
<1> QED BY <1>2, <1>3, <1>4 DEF HintInv

\* The steps of a hint thread: it copies the scan of a datafile that does not change.
LEMMA HintKeeps ==
    ASSUME BaseInv, NEW f \in FileId, HintStep(f)
    PROVE  Keeps
<1>1. UNCHANGED <<data, active, phase, fd, locked, keydir, iterating, joining, th, wr,
                  crashes, shutdowns>>
  BY DEF HintStep, HintOpen, HintOpenFails, HintWrite, HintFails, HintDone, HintReadFails,
         hintUnchanged, fileVars, counterVars
<1>2. LogInv' /\ AppendOnlyStep
  BY <1>1, OtherSteps DEF BaseInv, StepOK, fileVars
<1>3. PICK s : s = Scan(data[f])
  OBVIOUS
<1>4. /\ s \in Seq(HintRecord) /\ Len(s) \in Nat /\ \A i \in 1 .. Len(s) : s[i] \in HintRecord
  BY <1>3, ScanRecord DEF BaseInv
<1>5. /\ hpc \in [FileId -> {"none", "open", "scan", "done", "failed"}]
      /\ DOMAIN hint = FileId /\ f < active /\ wr \in Seq(Call)
      /\ hint[f] = NoHint \/ hint[f] \in Seq(HintRecord)
      /\ hpc[f] = "scan" => /\ hint[f] \in Seq(HintRecord) /\ Len(hint[f]) <= Len(s)
                            /\ \A i \in 1 .. Len(hint[f]) : hint[f][i] = s[i]
  <2>1. hpc[f] # "none"
    BY DEF HintStep, HintOpen, HintOpenFails, HintWrite, HintFails, HintDone, HintReadFails
  <2>2. hpc \in [FileId -> {"none", "open", "scan", "done", "failed"}] /\ wr \in Seq(Call)
        /\ (hint[f] = NoHint \/ hint[f] \in Seq(HintRecord))
    BY DEF BaseInv, WriteInv, TypeOK
  <2> QED BY <1>3, <2>1, <2>2 DEF BaseInv, HintInv, HintPrefix
<1>6. /\ \A g \in FileId \ {f} : hint'[g] = hint[g] /\ hpc'[g] = hpc[g]
      /\ DOMAIN hint' = FileId
      /\ hpc' \in [FileId -> {"none", "open", "scan", "done", "failed"}]
      /\ \/ hint'[f] = <<>> /\ hpc'[f] \in {"scan", "failed"}
         \/ hpc'[f] = "failed" /\ hint'[f] \in {hint[f], NoHint}
         \/ /\ hpc[f] = "scan" /\ hpc'[f] = "scan" /\ Len(hint[f]) < Len(s)
            /\ hint'[f] = Append(hint[f], s[Len(hint[f]) + 1])
         \/ /\ hpc[f] = "scan" /\ hpc'[f] = "done" /\ hint'[f] = hint[f]
            /\ "read" \in Faults \/ Len(hint[f]) = Len(s)
  BY <1>3, <1>5 DEF HintStep, HintOpen, HintOpenFails, HintWrite, HintFails, HintDone, HintReadFails,
         HintTo, ScanEnded
<1>7. /\ hint'[f] = NoHint \/ hint'[f] \in Seq(HintRecord)
      /\ hpc'[f] \in {"scan", "done"} =>
            /\ hint'[f] \in Seq(HintRecord) /\ Len(hint'[f]) <= Len(s)
            /\ \A i \in 1 .. Len(hint'[f]) : hint'[f][i] = s[i]
      /\ "read" \notin Faults /\ hpc'[f] = "done" => Len(hint'[f]) = Len(s)
  <2>1. CASE hint'[f] = <<>> /\ hpc'[f] \in {"scan", "failed"}
    BY <1>4, <2>1
  <2>2. CASE hpc'[f] = "failed" /\ hint'[f] \in {hint[f], NoHint}
    BY <1>5, <2>2
  <2>3. CASE /\ hpc[f] = "scan" /\ hpc'[f] = "scan" /\ Len(hint[f]) < Len(s)
             /\ hint'[f] = Append(hint[f], s[Len(hint[f]) + 1])
    <3>1. PICK h : h = hint[f]
      OBVIOUS
    <3>2. /\ h \in Seq(HintRecord) /\ Len(h) \in Nat /\ Len(h) < Len(s)
          /\ \A i \in 1 .. Len(h) : h[i] = s[i]
      BY <1>5, <2>3, <3>1
    <3>3. Len(h) + 1 \in 1 .. Len(s)
      BY <1>4, <3>2
    <3>4. PICK x \in HintRecord : x = s[Len(h) + 1]
      BY <1>4, <3>3
    <3>5. hint'[f] = Append(h, x)
      BY <2>3, <3>1, <3>4
    <3>6. /\ Append(h, x) \in Seq(HintRecord) /\ Len(Append(h, x)) = Len(h) + 1
          /\ \A i \in 1 .. Len(h) + 1 : Append(h, x)[i] = s[i]
      <4>1. ASSUME NEW i \in 1 .. Len(h) + 1 PROVE Append(h, x)[i] = s[i]
        <5>1. CASE i = Len(h) + 1
          BY <3>2, <3>4, <5>1
        <5>2. CASE i # Len(h) + 1
          <6>1. i \in 1 .. Len(h)
            BY <3>2, <5>2
          <6> QED BY <3>2, <6>1
        <5> QED BY <5>1, <5>2
      <4> QED BY <3>2, <4>1
    <3>7. Len(h) + 1 <= Len(s)
      BY <3>3
    <3> QED BY <2>3, <3>5, <3>6, <3>7
  <2>4. CASE /\ hpc[f] = "scan" /\ hpc'[f] = "done" /\ hint'[f] = hint[f]
             /\ "read" \in Faults \/ Len(hint[f]) = Len(s)
    BY <1>5, <2>4
  <2> QED BY <1>6, <2>1, <2>2, <2>3, <2>4
<1>8. TypeOK'
  <2>1. \A g \in FileId : hint'[g] = NoHint \/ hint'[g] \in Seq(HintRecord)
    <3>1. \A g \in FileId : hint[g] = NoHint \/ hint[g] \in Seq(HintRecord)
      BY DEF BaseInv, WriteInv, TypeOK
    <3> QED BY <1>6, <1>7, <3>1
  <2> QED BY <1>1, <1>6, <2>1 DEF BaseInv, WriteInv, TypeOK
<1>9. WriteInv' /\ Grows /\ CallsKept
  BY <1>1, <1>8, NoThreadKeeps DEF BaseInv, StepKeeps
<1>10. HintInv'
  <2>1. ASSUME NEW g \in FileId PROVE Scan(data[g])' = Scan(data[g])
    BY <1>1, <1>5, <1>9, SameScan DEF BaseInv
  <2>2. ASSUME NEW g \in FileId, hint'[g] # NoHint \/ hpc'[g] # "none" PROVE g < active'
    BY <1>1, <1>5, <1>6, <2>2 DEF BaseInv, HintInv
  <2>3. ASSUME NEW g \in FileId
        PROVE  /\ hpc'[g] \in {"scan", "done"} => HintPrefix(g)'
               /\ "read" \notin Faults /\ hpc'[g] = "done" => Len(hint'[g]) = Len(Scan(data[g])')
    <3>1. CASE g = f
      BY <1>3, <1>7, <2>1, <3>1 DEF HintPrefix
    <3>2. CASE g # f
      BY <1>6, <2>1, <3>2 DEF HintPrefix, BaseInv, HintInv
    <3> QED BY <3>1, <3>2
  <2> QED BY <1>6, <2>2, <2>3 DEF HintInv
<1> QED BY <1>2, <1>9, <1>10 DEF Keeps, BaseInv

\* The steps of the threads that write.
LEMMA ThreadBase ==
    ASSUME BaseInv, NEW t \in Threads,
           ThreadStep(t) \/ \E k \in Keys, v \in ValueSizes : Begin(t, k, v)
    PROVE  Keeps
<1>1. WriteInv' /\ Grows /\ CallsKept
  BY ThreadKeeps DEF BaseInv, StepKeeps
<1>2. LogInv' /\ AppendOnlyStep
  BY EnterSteps, RotateSteps, WriteSteps, IndexSteps DEF ThreadStep, BaseInv, StepOK
<1>3. /\ wr' \in Seq(Call) /\ active' \in Nat /\ active \in Nat /\ active \in FileId
      /\ hpc \in [FileId -> {"none", "open", "scan", "done", "failed"}]
  BY <1>1 DEF BaseInv, WriteInv, TypeOK, FileId
<1>4. CASE Rotate(t)
  <2>1. hint' = hint /\ active' = active + 1
        /\ (hpc' = hpc \/ hpc' = [hpc EXCEPT ![active] = "open"])
    BY <1>4 DEF Rotate
  <2>2. active < active' /\ active <= active'
    BY <1>3, <2>1
  <2>3. \A f \in FileId : \/ hpc'[f] = hpc[f]
                          \/ hpc'[f] \notin {"scan", "done"} /\ f < active'
    BY <1>3, <2>1, <2>2
  <2>4. HintInv'
    BY <1>1, <1>2, <1>3, <2>1, <2>2, <2>3, HintsKept
  <2> QED BY <1>1, <1>2, <2>4 DEF Keeps, BaseInv
<1>5. CASE ~Rotate(t)
  <2>1. UNCHANGED <<hint, hpc, active>>
    BY <1>5 DEF ThreadStep, Begin, GetActiveFile, SeekStep, SeekFails, SeekFull, SeekOk,
       RotateStep, RotateFails, WriteStep, WritePart, WriteRest, WriteSpins, WriteFails,
       Find, UpsertStep, Upsert, UpsertNoMemory, diskVars, hintVars
  <2>2. HintInv'
    BY <1>1, <1>2, <1>3, <2>1, HintsKept
  <2> QED BY <1>1, <1>2, <2>2 DEF Keeps, BaseInv
<1> QED BY <1>4, <1>5

\* The steps that end a process, and ccask_init: no thread is left in a call.
LEMMA LifecycleKeeps ==
    ASSUME BaseInv, TypeOK', UNCHANGED <<data, hint, wr>>,
           active' = active \/ active' = active + 1,
           \A t \in Threads : th'[t].pc = "idle",
           LogInv', AppendOnlyStep, hpc' = hpc \/ hpc' = [f \in FileId |-> "none"]
    PROVE  Keeps
<1>1. WriteInv /\ wr \in Seq(Call) /\ data \in [FileId -> Seq(Cell)] /\ active \in Nat
  BY BaseTypes DEF BaseInv
<1>2. CellsOK' /\ Grows
  BY <1>1, CellsKept
<1>3. CallsKept
  BY <1>1 DEF CallsKept
<1>4. \A t \in Threads : ThreadOK(t)'
  BY DEF ThreadOK, InFile
<1>5. WriteInv'
  BY <1>2, <1>4 DEF WriteInv
<1>6. active' \in Nat /\ active <= active'
  BY <1>1
<1>7. HintInv'
  BY <1>1, <1>3, <1>6, HintsKept
<1> QED BY <1>2, <1>3, <1>5, <1>7 DEF Keeps, BaseInv

\* The end of ccask_shutdown.
LEMMA StopKeeps ==
    ASSUME BaseInv, StopWriter
    PROVE  Keeps
<1>1. LogInv' /\ AppendOnlyStep
  BY LifecycleSteps DEF BaseInv, StepOK
<1>2. TypeOK'
  BY DEF StopWriter, Forget, diskVars, hintVars, counterVars, BaseInv, WriteInv, TypeOK
<1>3. \A t \in Threads : th'[t].pc = "idle"
  BY DEF StopWriter, At
<1> QED BY <1>1, <1>2, <1>3, LifecycleKeeps DEF StopWriter, diskVars, hintVars

\* The end of the process, orderly or not.
LEMMA PowerOffKeeps ==
    ASSUME BaseInv, Exit \/ Crash
    PROVE  Keeps
<1> USE DEF PowerOff, Forget, diskVars, counterVars
<1>1. LogInv' /\ AppendOnlyStep
  BY LifecycleSteps DEF BaseInv, StepOK
<1>2. PowerOff /\ crashes' \in 0 .. MaxCrashes /\ shutdowns' = shutdowns
  BY SizeAssumption DEF Exit, Crash, BaseInv, WriteInv, TypeOK
<1>3. Idle \in Thread /\ Idle.pc = "idle"
  <2>1. 0 \in FileId /\ 0 \in 0 .. MaxWrites
    BY SizeAssumption DEF FileId
  <2> QED BY <2>1 DEF Idle, Thread
<1>4. TypeOK'
  BY <1>2, <1>3 DEF BaseInv, WriteInv, TypeOK
<1>5. \A t \in Threads : th'[t].pc = "idle"
  BY <1>2, <1>3
<1> QED BY <1>1, <1>2, <1>4, <1>5, LifecycleKeeps

\* ccask_init on what is left on disk.
LEMMA RestartKeeps ==
    ASSUME BaseInv, Restart
    PROVE  Keeps
<1> USE DEF Restart, counterVars, hintVars
<1>1. LogInv' /\ AppendOnlyStep
  BY LifecycleSteps DEF BaseInv, StepOK
<1>2. keydir' \in [Keys -> Seq(Entry)]
  BY RecoveredType DEF BaseInv
<1>3. fd' \in [FileId -> {"closed", "append", "read"}]
  BY DEF OpenOnly
<1>4. TypeOK'
  BY <1>2, <1>3 DEF BaseInv, WriteInv, TypeOK
<1>5. \A t \in Threads : th'[t].pc = "idle"
  BY DEF BaseInv, LogInv, LogLocks
<1>6. active' = active \/ active' = active + 1
  BY DEF ActiveAfterInit
<1> QED BY <1>1, <1>4, <1>5, <1>6, LifecycleKeeps

\* The remaining steps touch neither the log nor the hintfiles.
LEMMA QuietKeeps ==
    ASSUME BaseInv, TypeOK', UNCHANGED <<data, active, hint, fd, locked, keydir, hpc, th, wr>>,
           phase' = phase \/ ShutdownBegin \/ JoinHints
    PROVE  Keeps
<1>1. LogInv' /\ AppendOnlyStep
  BY OtherSteps DEF BaseInv, StepOK, fileVars
<1>2. WriteInv' /\ Grows /\ CallsKept
  BY NoThreadKeeps DEF BaseInv, StepKeeps
<1>3. active \in Nat /\ wr \in Seq(Call)
  BY BaseTypes DEF BaseInv
<1>4. HintInv'
  BY <1>1, <1>2, <1>3, HintsKept
<1> QED BY <1>1, <1>2, <1>4 DEF Keeps, BaseInv

\* The invariant holds at the start.
LEMMA BaseInvInit == Init => BaseInv
<1> SUFFICES ASSUME Init PROVE BaseInv
  OBVIOUS
<1>1. WriteInv /\ LogInv
  BY WriteInvInit, LogInvInit
<1>2. HintInv
  BY DEF Init, HintInv
<1> QED BY <1>1, <1>2 DEF BaseInv

\* Every step keeps it.
LEMMA BaseInvStep == BaseInv /\ [Next]_vars => Keeps
<1> SUFFICES ASSUME BaseInv, [Next]_vars PROVE Keeps
  OBVIOUS
<1>0. TypeOK
  BY DEF BaseInv, WriteInv
<1>1. ASSUME NEW t \in Threads,
             ThreadStep(t) \/ \E k \in Keys, v \in ValueSizes : Begin(t, k, v)
      PROVE  Keeps
  BY <1>1, ThreadBase
<1>2. ASSUME NEW c \in Callers, ListKeys(c) \/ IterClose(c)
      PROVE  Keeps
  <2> USE <1>2 DEF ListKeys, IterClose, diskVars, fileVars, hintVars, counterVars
  <2>1. TypeOK'
    BY <1>0 DEF TypeOK
  <2> QED BY <2>1, QuietKeeps
<1>3. ASSUME NEW f \in FileId, HintStep(f)
      PROVE  Keeps
  BY <1>3, HintKeeps
<1>4. CASE ShutdownBegin \/ JoinHints
  <2> USE <1>4 DEF ShutdownBegin, JoinHints, diskVars, fileVars, hintVars, counterVars
  <2>1. TypeOK'
    BY <1>0, SizeAssumption DEF TypeOK
  <2> QED BY <2>1, QuietKeeps
<1>5. CASE StopWriter \/ Exit \/ Crash \/ Restart
  BY <1>5, StopKeeps, PowerOffKeeps, RestartKeeps
<1>6. CASE UNCHANGED vars
  <2> USE <1>6 DEF vars, diskVars, fileVars, hintVars, counterVars
  <2>1. TypeOK'
    BY <1>0 DEF TypeOK
  <2> QED BY <2>1, QuietKeeps
<1> QED BY <1>1, <1>2, <1>3, <1>4, <1>5, <1>6 DEF Next

\* The invariant holds in every reachable state, across crashes and restarts.
THEOREM BaseInvariant == SafeSpec => []BaseInv
<1>1. BaseInv /\ [Next]_vars => BaseInv'
  BY BaseInvStep DEF Keeps
<1> QED BY <1>1, BaseInvInit, PTL DEF SafeSpec

\* Every variable keeps its type, whatever fails and whenever the process dies; what
\* keydir_recover reads back, torn or not, is an index of entries.
THEOREM StoreTypes == SafeSpec => []TypeOK
<1>1. BaseInv => TypeOK
  BY DEF BaseInv, WriteInv
<1> QED BY <1>1, BaseInvariant, PTL

\* With a sole writer, and if no read of a hint thread fails, the hintfile of a thread
\* that is done says what a scan of its datafile would say: recover_hintfile and
\* recover_datafile agree.  (The rotations of several writers may start two threads on
\* one hintfile: SegmentsGetHints of module Rotation.)
THEOREM HintsMatch ==
    ASSUME "read" \notin Faults, \A t, u \in Threads : t = u
    PROVE  SafeSpec => []HintMatchesData
<1>1. BaseInv => HintMatchesData
  <2> SUFFICES ASSUME BaseInv, NEW f \in FileId, hpc[f] = "done"
               PROVE  hint[f] = Scan(data[f])
    BY DEF HintMatchesData
  <2>1. PICK s : s = Scan(data[f])
    OBVIOUS
  <2>2. PICK h : h = hint[f]
    OBVIOUS
  <2>3. s \in Seq(HintRecord)
    BY <2>1, ScanRecord DEF BaseInv
  <2>4. h \in Seq(HintRecord) /\ Len(h) = Len(s) /\ \A i \in 1 .. Len(h) : h[i] = s[i]
    BY <2>1, <2>2 DEF BaseInv, HintInv, HintPrefix
  <2>5. h = s
    BY <2>3, <2>4
  <2> QED BY <2>1, <2>2, <2>5
<1> QED BY <1>1, BaseInvariant, PTL

-----------------------------------------------------------------------------
(* The shape of the log *)

\* The cells of a record are behind one another, and no more than its size: a cell that
\* does not begin a record is behind the cell before it.
Contig ==
    \A f \in FileId : \A i \in 1 .. Len(data[f]) :
        /\ data[f][i].part \in 1 .. Size(data[f][i].id)
        /\ data[f][i].part # 1 =>
              i # 1 /\ data[f][i - 1] = [id |-> data[f][i].id, part |-> data[f][i].part - 1]

Restarts == crashes + shutdowns

\* The files behind the active one are empty, and the active one is open while the store
\* runs; a dead process has no hint thread, and it took a crash or a shutdown to kill it;
\* only short writes leave a record partly written.
ShapeInv ==
    /\ Contig
    /\ \A f \in FileId : f > active => data[f] = <<>>
    /\ Running => fd[active] = "append"
    /\ phase = "off" => \A f \in FileId : hpc[f] = "none"
    /\ phase # "up" => Restarts >= 1
    /\ "short" \notin Faults => \A t \in Threads : th[t].pc = "write" => th[t].sent = 0

\* n more cells of the record of t reach the disk, and the last of them ends the write.
Appends(t, n) ==
    /\ th[t].pc = "write" /\ n \in Nat /\ n > 0 /\ n <= Unsent(t) /\ AppendCells(t, n)
    /\ UNCHANGED <<active, hint, phase, fd, keydir, hpc, wr, crashes, shutdowns>>
    /\ \A u \in Threads \ {t} : th'[u] = th[u]
    /\ th'[t].id = th[t].id /\ th'[t].file = th[t].file /\ th'[t].pos = th[t].pos
    /\ \/ /\ n < Unsent(t) /\ "short" \in Faults
          /\ th'[t].pc = "write" /\ th'[t].sent = th[t].sent + n
       \/ n = Unsent(t) /\ th'[t].pc = "find"
       \/ n = Unsent(t) /\ th'[t].pc = "spin" /\ wr[th[t].id].vsize = 0

\* What a thread in safe_writev has left to write.
LEMMA UnsentType ==
    ASSUME WriteInv, NEW t \in Threads, th[t].pc = "write"
    PROVE  /\ th[t].id \in 1 .. Len(wr) /\ Size(th[t].id) \in Nat
           /\ Unsent(t) \in Nat /\ Unsent(t) > 0 /\ th[t].sent + Unsent(t) = Size(th[t].id)
<1>1. th[t].id \in 1 .. Len(wr) /\ Sending(t) /\ wr \in Seq(Call) /\ th[t].sent \in Nat
  BY ThreadType DEF ThreadOK
<1>2. Size(th[t].id) \in Nat
  BY <1>1, CallSize
<1>3. PICK s \in Nat, z \in Nat : s = th[t].sent /\ z = Size(th[t].id)
  BY <1>1, <1>2
<1>4. s < z
  BY <1>1, <1>3 DEF Sending
<1>5. z - s \in Nat /\ z - s > 0 /\ s + (z - s) = z
  BY <1>4
<1> QED BY <1>1, <1>3, <1>5 DEF Unsent

\* That is what the steps in safe_writev do that do not fail ...
LEMMA WritesAppend ==
    ASSUME WriteInv, NEW t \in Threads, WritePart(t) \/ WriteRest(t) \/ WriteSpins(t)
    PROVE  \E n \in Nat : Appends(t, n)
<1> USE DEF diskVars, fileVars, hintVars, counterVars
<1>2. /\ th[t].pc = "write" /\ th \in [Threads -> Thread] /\ th[t] \in Thread /\ th[t].sent \in Nat
  BY ThreadType DEF WritePart, WriteRest, WriteSpins, At, WriteInv, TypeOK
<1>3. Unsent(t) \in Nat /\ Unsent(t) > 0
  BY <1>2, UnsentType
<1>4. CASE WritePart(t)
  <2>1. PICK n \in 1 .. Unsent(t) - 1 : AppendCells(t, n) /\ th' = [th EXCEPT ![t].sent = @ + n]
    BY <1>4 DEF WritePart
  <2>2. n \in Nat /\ n > 0 /\ n < Unsent(t) /\ n <= Unsent(t)
    BY <1>3
  <2> DEFINE new == [th[t] EXCEPT !.sent = @ + n]
  <2>3. /\ new.pc = "write" /\ new.id = th[t].id /\ new.file = th[t].file
        /\ new.pos = th[t].pos /\ new.sent = th[t].sent + n
    BY <1>2 DEF Thread
  <2>4. th'[t] = new /\ \A u \in Threads \ {t} : th'[u] = th[u]
    BY <1>2, <2>1
  <2> HIDE DEF new
  <2>5. UNCHANGED <<active, hint, phase, fd, keydir, hpc, wr, crashes, shutdowns>> /\ "short" \in Faults
    BY <1>4 DEF WritePart
  <2>6. Appends(t, n)
    BY <1>2, <2>1, <2>2, <2>3, <2>4, <2>5 DEF Appends
  <2> QED BY <2>2, <2>6
<1>5. CASE WriteRest(t) \/ WriteSpins(t)
  <2>1. /\ AppendCells(t, Unsent(t))
        /\ UNCHANGED <<active, hint, phase, fd, keydir, hpc, wr, crashes, shutdowns>>
        /\ Goto(t, "find") \/ (Goto(t, "spin") /\ wr[th[t].id].vsize = 0)
    BY <1>5 DEF WriteRest, WriteSpins
  <2>2. /\ \A u \in Threads \ {t} : th'[u] = th[u]
        /\ th'[t].id = th[t].id /\ th'[t].file = th[t].file /\ th'[t].pos = th[t].pos
        /\ th'[t].pc = "find" \/ (th'[t].pc = "spin" /\ wr[th[t].id].vsize = 0)
    BY <2>1, GotoType
  <2>3. Unsent(t) <= Unsent(t)
    BY <1>3
  <2>4. Appends(t, Unsent(t))
    BY <1>2, <1>3, <2>1, <2>2, <2>3 DEF Appends
  <2> QED BY <1>3, <2>4
<1> QED BY <1>4, <1>5

\* ... and no other step changes a datafile.
LEMMA OnlyAppends ==
    ASSUME WriteInv, [Next]_vars, data' # data
    PROVE  \E t \in Threads, n \in Nat : Appends(t, n)
<1> USE DEF diskVars, fileVars, hintVars, counterVars
<1>1. PICK t \in Threads : WritePart(t) \/ WriteRest(t) \/ WriteSpins(t)
  BY DEF Next, ThreadStep, Begin, GetActiveFile, SeekStep, SeekFails, SeekFull, SeekOk,
         RotateStep, Rotate, RotateFails, WriteStep, WriteFails, Find, UpsertStep, Upsert,
         UpsertNoMemory, ListKeys, IterClose, HintStep, HintOpen, HintOpenFails, HintWrite,
         HintFails, HintDone, HintReadFails, hintUnchanged, ShutdownBegin, JoinHints,
         StopWriter, Exit, Crash, PowerOff, Restart, vars
<1> QED BY <1>1, WritesAppend

\* What they leave in the files: s of the z cells of the record id were at the end of the
\* file f, from offset p, and now there are s + n.
Extended(f, p, s, id, z, n) ==
    /\ f \in FileId /\ p \in Nat /\ s \in Nat /\ id \in 1 .. Len(wr) /\ z \in Nat
    /\ s + n <= z /\ Size(id) = z /\ Size(id)' = z /\ s < z
    /\ Len(data[f]) = p + s /\ Len(data'[f]) = p + (s + n)
    /\ \A g \in FileId \ {f} : data'[g] = data[g]
    /\ \A i \in 1 .. p + s : data'[f][i] = data[f][i]
    /\ \A i \in 1 .. s : data[f][p + i] = [id |-> id, part |-> i]
    /\ \A i \in 1 .. s + n : data'[f][p + i] = [id |-> id, part |-> i]

\* So they do.
LEMMA AppendShape ==
    ASSUME WriteInv, NEW t \in Threads, NEW n \in Nat, Appends(t, n)
    PROVE  \E f, p, s, id, z :
              /\ f = th[t].file /\ p = th[t].pos /\ s = th[t].sent /\ id = th[t].id
              /\ Extended(f, p, s, id, z, n) /\ (n = Unsent(t) <=> s + n = z)
<1>0. PICK f, p, s, id, z : f = th[t].file /\ p = th[t].pos /\ s = th[t].sent /\ id = th[t].id
                            /\ z = Size(id)
  OBVIOUS
<1>1. /\ f \in FileId /\ p \in Nat /\ s \in Nat /\ id \in 1 .. Len(wr) /\ z \in Nat
      /\ th[t].pc = "write" /\ n > 0 /\ n <= Unsent(t) /\ AppendCells(t, n) /\ wr' = wr
      /\ data \in [FileId -> Seq(Cell)]
  BY <1>0, ThreadType, UnsentType DEF Appends
<1>2. PICK u \in Nat : u = Unsent(t) /\ s + u = z /\ u > 0
  BY <1>0, <1>1, UnsentType
<1>3. /\ Grows /\ Len(data'[f]) = p + (s + n)
      /\ \A i \in 1 .. s + n : data'[f][p + i] = [id |-> id, part |-> i]
  BY <1>0, <1>1, AppendKeeps
<1>4. Len(data[f]) = p + s /\ \A i \in 1 .. s : data[f][p + i] = [id |-> id, part |-> i]
  BY <1>0, <1>1, ThreadType DEF ThreadOK, Sending
<1>5. \A i \in 1 .. p + s : data'[f][i] = data[f][i]
  BY <1>1, <1>3, <1>4 DEF Grows
<1>6. \A g \in FileId \ {f} : data'[g] = data[g]
  BY <1>0, <1>1 DEF AppendCells
<1>7. s + n <= z /\ (n = u <=> s + n = z) /\ s < z
  BY <1>1, <1>2
<1>8. Size(id)' = z
  BY <1>0, <1>1 DEF Size
<1>9. Extended(f, p, s, id, z, n)
  BY <1>0, <1>1, <1>3, <1>4, <1>5, <1>6, <1>7, <1>8 DEF Extended
<1> QED BY <1>0, <1>2, <1>7, <1>9

\* A cell that is in a file.
LEMMA CellType ==
    ASSUME WriteInv, NEW f \in FileId, NEW i \in 1 .. Len(data[f])
    PROVE  /\ data[f][i] \in Cell /\ data[f][i].id \in 1 .. Len(wr) /\ data[f][i].part \in Nat
           /\ Size(data[f][i].id) \in Nat /\ Size(data[f][i].id) >= 2 /\ i \in Nat /\ i >= 1
<1>1. data \in [FileId -> Seq(Cell)] /\ wr \in Seq(Call) /\ CellsOK
  BY DEF WriteInv, TypeOK
<1>2. data[f][i] \in Cell /\ i \in Nat /\ i >= 1
  BY <1>1
<1>3. PICK id \in 1 .. Len(wr) : id = data[f][i].id
  BY <1>1 DEF CellsOK
<1>4. Size(id) \in Nat /\ Size(id) = 2 + wr[id].vsize /\ wr[id].vsize \in Nat
  BY <1>1, CallSize
<1> QED BY <1>2, <1>3, <1>4 DEF Cell

\* Sizes of calls do not change.
LEMMA SizeKept ==
    ASSUME CallsKept, NEW id \in 1 .. Len(wr)
    PROVE  Size(id)' = Size(id)
BY DEF CallsKept, Size

\* Records stay behind one another.
LEMMA ContigKept ==
    ASSUME BaseInv, Contig, [Next]_vars
    PROVE  Contig'
<1>0. WriteInv /\ Keeps
  BY BaseInvStep DEF BaseInv
<1>1. ASSUME NEW g \in FileId, NEW i \in 1 .. Len(data[g]), data'[g][i] = data[g][i],
             i # 1 => data'[g][i - 1] = data[g][i - 1]
      PROVE  /\ data'[g][i].part \in 1 .. Size(data[g][i].id)'
             /\ data'[g][i].part # 1 =>
                  i # 1 /\ data'[g][i - 1] = [id |-> data'[g][i].id, part |-> data'[g][i].part - 1]
  <2>1. PICK c : c = data[g][i]
    OBVIOUS
  <2>2. c.id \in 1 .. Len(wr)
    BY <1>0, <2>1, CellType
  <2>3. PICK id \in 1 .. Len(wr) : id = c.id
    BY <2>2
  <2>4. Size(id)' = Size(id)
    BY <1>0, SizeKept DEF Keeps
  <2>5. c.part \in 1 .. Size(id) /\ (c.part # 1 => i # 1 /\ data[g][i - 1] = [id |-> c.id, part |-> c.part - 1])
    BY <2>1, <2>3 DEF Contig
  <2>6. data'[g][i] = c
    BY <1>1, <2>1
  <2>7. Size(data[g][i].id)' = Size(id)'
    BY <2>3, <2>6 DEF Size
  <2> QED BY <1>1, <2>3, <2>4, <2>5, <2>6, <2>7
<1>2. CASE data' = data
  <2>1. ASSUME NEW g \in FileId, NEW i \in 1 .. Len(data'[g])
        PROVE  /\ data'[g][i].part \in 1 .. Size(data[g][i].id)'
               /\ data'[g][i].part # 1 =>
                    i # 1 /\ data'[g][i - 1] = [id |-> data'[g][i].id, part |-> data'[g][i].part - 1]
    BY <1>1, <1>2
  <2> QED BY <2>1 DEF Contig
<1>3. ASSUME NEW t \in Threads, NEW n \in Nat, Appends(t, n)
      PROVE  Contig'
  <2>1. PICK f, p, s, id, z : Extended(f, p, s, id, z, n)
    BY <1>0, <1>3, AppendShape
  <2>2. /\ f \in FileId /\ p \in Nat /\ s \in Nat /\ id \in 1 .. Len(wr) /\ z \in Nat
        /\ s + n <= z /\ Size(id)' = z
        /\ Len(data[f]) = p + s /\ Len(data'[f]) = p + (s + n)
        /\ \A g \in FileId \ {f} : data'[g] = data[g]
        /\ \A i \in 1 .. p + s : data'[f][i] = data[f][i]
        /\ \A i \in 1 .. s + n : data'[f][p + i] = [id |-> id, part |-> i]
    BY <2>1 DEF Extended
  <2>3. ASSUME NEW g \in FileId, NEW i \in 1 .. Len(data'[g])
        PROVE  /\ data'[g][i].part \in 1 .. Size(data[g][i].id)'
               /\ data'[g][i].part # 1 =>
                    i # 1 /\ data'[g][i - 1] = [id |-> data'[g][i].id, part |-> data'[g][i].part - 1]
    <3>1. CASE g # f
      <4>1. data'[g] = data[g]
        BY <2>2, <3>1
      <4>2. i \in 1 .. Len(data[g])
        BY <4>1
      <4> QED BY <1>1, <4>1, <4>2
    <3>2. CASE g = f /\ i <= p
      <4>1. i \in 1 .. Len(data[g]) /\ i \in 1 .. p + s /\ (i # 1 => i - 1 \in 1 .. p + s)
        BY <2>2, <3>2
      <4> QED BY <1>1, <2>2, <3>2, <4>1
    <3>3. CASE g = f /\ i > p
      <4>1. PICK j \in 1 .. s + n : i = p + j
        <5>1. i \in 1 .. p + (s + n) /\ i \in Nat
          BY <2>2, <3>3
        <5>2. i - p \in 1 .. s + n /\ i = p + (i - p)
          BY <2>2, <3>3, <5>1
        <5> QED BY <5>2
      <4>2. data'[f][i] = [id |-> id, part |-> j]
        BY <2>2, <4>1
      <4>3. Size(data[f][i].id)' = z
        BY <2>2, <4>2 DEF Size
      <4>4. j \in 1 .. z
        BY <2>2
      <4>5. j # 1 => j - 1 \in 1 .. s + n /\ p + (j - 1) = i - 1 /\ i # 1
        BY <2>2, <4>1
      <4>6. j # 1 => data'[f][i - 1] = [id |-> id, part |-> j - 1]
        BY <2>2, <4>5
      <4> QED BY <3>3, <4>2, <4>3, <4>4, <4>5, <4>6
    <3> QED BY <2>2, <3>1, <3>2, <3>3
  <2> QED BY <2>3 DEF Contig
<1> QED BY <1>0, <1>2, <1>3, OnlyAppends

\* The active file only moves on, to an empty file.
LEMMA ActiveMoves ==
    ASSUME BaseInv, [Next]_vars
    PROVE  active' = active \/ active' = active + 1
BY DEF Next, ThreadStep, Begin, GetActiveFile, SeekStep, SeekFails, SeekFull, SeekOk,
       RotateStep, Rotate, RotateFails, WriteStep, WriteFails, WritePart, WriteRest, WriteSpins,
       Find, UpsertStep, Upsert, UpsertNoMemory, ListKeys, IterClose, HintStep, HintOpen,
       HintOpenFails, HintWrite, HintFails, HintDone, HintReadFails, hintUnchanged,
       ShutdownBegin, JoinHints, StopWriter, Exit, Crash, PowerOff, Restart, ActiveAfterInit,
       vars, diskVars

\* What the steps do to the files' descriptors, to the phases of the process and to the
\* counts of its ends.
PhaseStep ==
    /\ Running' => fd'[active'] = "append"
    /\ phase' = "off" => \A f \in FileId : hpc'[f] = "none"
    /\ Restarts \in Nat /\ Restarts' \in Nat /\ Restarts <= Restarts'
    /\ phase' # "up" => Restarts' >= 1
    /\ phase = "up" /\ phase' # "up" => Restarts' >= Restarts + 1
    /\ phase' = "up" => phase = "up" \/ Restart
    /\ phase # "off" /\ phase' = "off" => Exit \/ Crash
    /\ phase = "off" /\ phase' # "off" => Restart /\ phase' = "up"

\* Every step does.
LEMMA PhaseMoves ==
    ASSUME BaseInv, ShapeInv, [Next]_vars
    PROVE  PhaseStep
<1> USE DEF diskVars, fileVars, hintVars, counterVars
<1>0. /\ crashes \in Nat /\ shutdowns \in Nat /\ active \in FileId /\ active + 1 \in Nat
      /\ active # active + 1
      /\ fd \in [FileId -> {"closed", "append", "read"}]
      /\ phase # "up" => crashes + shutdowns >= 1
      /\ phase = "off" => \A f \in FileId : hpc[f] = "none"
      /\ phase \in {"up", "join", "drain"} => fd[active] = "append"
      /\ phase \in {"up", "join", "drain", "down", "off"}
      /\ phase = "off" => \A t \in Threads : th[t].pc = "idle"
  BY SizeAssumption DEF BaseInv, WriteInv, TypeOK, ShapeInv, Running, Restarts, FileId, LogInv, LogLocks
<1>1. ASSUME UNCHANGED <<active, phase, fd, hpc, crashes, shutdowns>>
      PROVE  PhaseStep
  BY <1>0, <1>1 DEF PhaseStep, Running, Restarts
<1>2. ASSUME NEW t \in Threads, Rotate(t)
      PROVE  /\ active + 1 \in FileId /\ fd'[active + 1] = "append" /\ active' = active + 1
             /\ UNCHANGED <<phase, crashes, shutdowns>> /\ phase # "off"
  <2>1. active + 1 \in FileId
    BY <1>0, <1>2, SizeAssumption DEF Rotate, FileId
  <2> QED BY <1>0, <1>2, <2>1 DEF Rotate, SwitchFiles, At
<1>3. ASSUME NEW f \in FileId, HintStep(f)
      PROVE  UNCHANGED <<active, phase, fd, crashes, shutdowns>> /\ phase # "off"
  BY <1>3 DEF HintStep, HintOpen, HintOpenFails, HintWrite, HintFails, HintDone, HintReadFails,
              hintUnchanged
<1>4. ASSUME NEW t \in Threads, Rotate(t)
      PROVE  PhaseStep
  BY <1>0, <1>2, <1>4 DEF PhaseStep, Running, Restarts
<1>5. ASSUME NEW f \in FileId, HintStep(f)
      PROVE  PhaseStep
  BY <1>0, <1>3, <1>5 DEF PhaseStep, Running, Restarts
<1>6. CASE ShutdownBegin \/ JoinHints
  BY <1>0, <1>6 DEF ShutdownBegin, JoinHints, PhaseStep, Running, Restarts
<1>7. CASE StopWriter
  BY <1>0, <1>7 DEF StopWriter, Forget, PhaseStep, Running, Restarts
<1>8. CASE Exit \/ Crash
  BY <1>0, <1>8 DEF Exit, Crash, PowerOff, PhaseStep, Running, Restarts
<1>9. CASE Restart
  BY <1>0, <1>9 DEF Restart, OpenOnly, PhaseStep, Running, Restarts
<1>10. CASE UNCHANGED <<active, phase, fd, hpc, crashes, shutdowns>>
  BY <1>1, <1>10
<1> QED
  BY <1>4, <1>5, <1>6, <1>7, <1>8, <1>9, <1>10
  DEF Next, ThreadStep, Begin, GetActiveFile, SeekStep, SeekFails, SeekFull, SeekOk,
      RotateStep, RotateFails, WriteStep, WriteFails, WritePart, WriteRest, WriteSpins,
      Find, UpsertStep, Upsert, UpsertNoMemory, ListKeys, IterClose, vars

\* A thread other than the one that steps stays where it is.
LEMMA OwnStep ==
    ASSUME WriteInv, NEW u \in Threads,
           ThreadStep(u) \/ \E k \in Keys, v \in ValueSizes : Begin(u, k, v)
    PROVE  \A t \in Threads \ {u} : th'[t] = th[t]
<1>1. th \in [Threads -> Thread]
  BY DEF WriteInv, TypeOK
<1> QED BY <1>1 DEF ThreadStep, Begin, GetActiveFile, SeekStep, SeekFails, SeekFull, SeekOk,
         RotateStep, Rotate, RotateFails, WriteStep, WriteFails, WritePart, WriteRest, WriteSpins,
         Find, UpsertStep, Upsert, UpsertNoMemory, Goto, Finish

\* Without short writes a thread is in safe_writev either because it was there, or since
\* its lseek.
LEMMA LandsInWrite ==
    ASSUME BaseInv, "short" \notin Faults, [Next]_vars, NEW t \in Threads, th'[t].pc = "write"
    PROVE  th'[t] = th[t] \/ (th[t].pc = "lock" /\ th'[t].sent = th[t].sent)
<1> USE DEF diskVars, fileVars, hintVars, counterVars
<1>0. WriteInv /\ th \in [Threads -> Thread] /\ th[t] \in Thread
  BY DEF BaseInv, WriteInv, TypeOK
<1>1. CASE th' = th
  BY <1>1
<1>2. CASE PowerOff
  BY <1>2 DEF PowerOff, Idle
<1>3. ASSUME NEW u \in Threads,
             ThreadStep(u) \/ \E k \in Keys, v \in ValueSizes : Begin(u, k, v)
      PROVE  th'[t] = th[t] \/ (th[t].pc = "lock" /\ th'[t].sent = th[t].sent)
  <2>1. CASE u # t
    BY <1>0, <1>3, <2>1, OwnStep
  <2>2. CASE u = t
    <3>1. ASSUME NEW k, NEW v, Begin(t, k, v) PROVE FALSE
      <4>1. th'[t] = [Idle EXCEPT !.pc = "active", !.id = Len(wr) + 1]
        BY <1>0, <3>1 DEF Begin
      <4>2. th'[t].pc = "active"
        BY <4>1 DEF Idle
      <4> QED BY <4>2
    <3>2. ASSUME NEW label, label # "write", Goto(t, label) PROVE FALSE
      BY <1>0, <3>2 DEF Goto, Thread
    <3>3. ASSUME NEW outcome, Finish(t, outcome) PROVE FALSE
      BY <1>0, <3>3 DEF Finish, Idle
    <3>4. CASE SeekOk(t)
      <4>1. PICK q : q = SeekEnd(t)
        OBVIOUS
      <4>2. th'[t] = [th[t] EXCEPT !.pos = q, !.pc = "write"] /\ th[t].pc = "lock"
        BY <1>0, <3>4, <4>1 DEF SeekOk, At
      <4>3. th'[t].sent = th[t].sent
        <5>1. [th[t] EXCEPT !.pos = q, !.pc = "write"].sent = th[t].sent
          BY <1>0 DEF Thread
        <5> QED BY <4>2, <5>1
      <4> QED BY <4>2, <4>3
    <3>5. CASE GetActiveFile(t)
      BY <1>0, <3>5 DEF GetActiveFile, Thread
    <3>6. CASE Find(t)
      <4>1. PICK q : q = Len(keydir[wr[th[t].id].key])
        OBVIOUS
      <4>2. th'[t] = [th[t] EXCEPT !.node = q, !.pc = "upsert"]
        BY <1>0, <3>6, <4>1 DEF Find
      <4>3. [th[t] EXCEPT !.node = q, !.pc = "upsert"].pc = "upsert"
        BY <1>0 DEF Thread
      <4> QED BY <4>2, <4>3
    <3> QED BY <1>3, <2>2, <3>1, <3>2, <3>3, <3>4, <3>5, <3>6
        DEF ThreadStep, SeekStep, SeekFails, SeekFull, RotateStep, Rotate, RotateFails,
            WriteStep, WriteFails, WritePart, WriteRest, WriteSpins,
            UpsertStep, Upsert, UpsertNoMemory
  <2> QED BY <2>1, <2>2
<1> QED BY <1>1, <1>2, <1>3
    DEF Next, ListKeys, IterClose, HintStep, HintOpen, HintOpenFails, HintWrite,
        HintFails, HintDone, HintReadFails, hintUnchanged, ShutdownBegin, JoinHints,
        StopWriter, Exit, Crash, Restart, vars

\* The log has that shape at the start ...
LEMMA ShapeInit == Init => ShapeInv
<1> SUFFICES ASSUME Init PROVE ShapeInv
  OBVIOUS
<1>1. 0 \in FileId
  BY SizeAssumption DEF FileId
<1>2. Contig
  BY DEF Init, Contig
<1> QED BY <1>1, <1>2 DEF Init, ShapeInv, OpenOnly, Running, Idle

\* ... and every step keeps it.
LEMMA ShapeStep ==
    ASSUME BaseInv, ShapeInv, [Next]_vars
    PROVE  ShapeInv'
<1>0. /\ WriteInv /\ LogInv /\ Keeps /\ active \in Nat /\ th \in [Threads -> Thread]
      /\ \A f \in FileId : f \in Nat
  BY BaseInvStep, BaseTypes DEF BaseInv
<1>1. Contig'
  BY ContigKept DEF ShapeInv
<1>2. PhaseStep
  BY PhaseMoves
<1>3. ASSUME NEW f \in FileId, f > active'
      PROVE  data'[f] = <<>>
  <2>1. f \in Nat /\ (active' = active \/ active' = active + 1)
    BY <1>0, ActiveMoves
  <2>2. f > active /\ f # active
    BY <1>0, <1>3, <2>1
  <2>3. data[f] = <<>>
    BY <2>2 DEF ShapeInv
  <2>4. ASSUME NEW t \in Threads, NEW n \in Nat, Appends(t, n)
        PROVE  data'[f] = data[f]
    <3>1. th[t].file = active
      BY <1>0, <2>4 DEF Appends, LogInv, LogLocks, InFile
    <3>2. PICK g, p, s, id, z : g = th[t].file /\ Extended(g, p, s, id, z, n)
      BY <1>0, <2>4, AppendShape
    <3> QED BY <2>2, <3>1, <3>2 DEF Extended
  <2> QED BY <1>0, <2>3, <2>4, OnlyAppends
<1>4. ASSUME "short" \notin Faults, NEW t \in Threads, th'[t].pc = "write"
      PROVE  th'[t].sent = 0
  <2>1. th[t].pc = "write" => th[t].sent = 0
    BY <1>4 DEF ShapeInv
  <2>2. th[t].pc = "lock" => th[t].sent = 0
    BY <1>0, ThreadType DEF ThreadOK
  <2>3. CASE th'[t] = th[t]
    BY <1>4, <2>1, <2>3
  <2>4. CASE th'[t] # th[t]
    <3>1. th[t].pc = "lock" /\ th'[t].sent = th[t].sent
      BY <1>0, <1>4, <2>4, LandsInWrite
    <3> QED BY <2>2, <3>1
  <2> QED BY <2>3, <2>4
<1> QED BY <1>1, <1>2, <1>3, <1>4 DEF ShapeInv, PhaseStep

-----------------------------------------------------------------------------
(* Torn records *)

\* A cell of a file is in it after the step.
LEMMA CellKept ==
    ASSUME WriteInv, WriteInv', Grows, NEW f \in FileId, NEW i \in 1 .. Len(data[f])
    PROVE  i \in 1 .. Len(data'[f]) /\ data'[f][i] = data[f][i]
<1>1. Len(data[f]) \in Nat /\ Len(data'[f]) \in Nat /\ Len(data[f]) <= Len(data'[f])
  BY DEF WriteInv, TypeOK, Grows
<1> QED BY <1>1 DEF Grows

\* What has been written behind a torn record stays there.
LEMMA TornStays ==
    ASSUME WriteInv, Keeps, TornLast'
    PROVE  TornLast
<1> SUFFICES ASSUME NEW f \in FileId, NEW i \in DOMAIN data[f], NEW j \in DOMAIN data[f],
                    i < j, data[f][i].part = 1, data[f][j].part = 1
             PROVE  Whole(f, i - 1, data[f][i].id)
  BY DEF TornLast
<1>1. /\ WriteInv' /\ Grows /\ CallsKept /\ Len(data[f]) \in Nat
      /\ i \in 1 .. Len(data[f]) /\ j \in 1 .. Len(data[f])
      /\ data' \in [FileId -> Seq(Cell)] /\ data \in [FileId -> Seq(Cell)]
  BY DEF Keeps, BaseInv, WriteInv, TypeOK
<1>2. /\ i \in 1 .. Len(data'[f]) /\ j \in 1 .. Len(data'[f])
      /\ data'[f][i] = data[f][i] /\ data'[f][j] = data[f][j]
  BY <1>1, CellKept
<1>3. PICK id \in 1 .. Len(wr) : id = data[f][i].id
  BY <1>1, CellType
<1>4. PICK z \in Nat : z = Size(id) /\ Size(id)' = z
  BY <1>1, <1>3, CellType, SizeKept
<1>5. PICK p \in Nat : p = i - 1 /\ i = p + 1
  BY <1>1
<1>6. Whole(f, p, id)'
  <2>1. (Whole(f, i - 1, data[f][i].id))'
    <3>1. i \in DOMAIN data'[f] /\ j \in DOMAIN data'[f]
      BY <1>1, <1>2
    <3> QED BY <1>2, <3>1 DEF TornLast
  <2> QED BY <1>2, <1>3, <1>5, <2>1 DEF Whole, Size
<1>7. \A k \in 1 .. z : data'[f][p + k] = [id |-> id, part |-> k]
  BY <1>4, <1>6 DEF Whole
<1>8. p + z <= Len(data[f])
  <2> SUFFICES ASSUME p + z > Len(data[f]) PROVE FALSE
    BY <1>1
  <2>1. PICK k : k = j - p
    OBVIOUS
  <2>2. k \in 1 .. z /\ p + k = j /\ k # 1
    BY <1>1, <1>5, <2>1
  <2>3. data'[f][j] = [id |-> id, part |-> k]
    BY <1>7, <2>2
  <2> QED BY <1>2, <2>2, <2>3
<1>9. ASSUME NEW k \in 1 .. z PROVE data[f][p + k] = [id |-> id, part |-> k]
  <2>1. p + k \in 1 .. Len(data[f])
    BY <1>1, <1>8
  <2> QED BY <1>1, <1>7, <2>1, CellKept
<1> QED BY <1>3, <1>4, <1>5, <1>8, <1>9 DEF Whole

\* A hint thread that has ended leaves its hintfile alone.
LEMMA HintStays ==
    ASSUME BaseInv, [Next]_vars, NEW f \in FileId, hint[f] # NoHint, ~HintRunning(f)
    PROVE  hint'[f] = hint[f] /\ ~HintRunning(f)'
<1> USE DEF diskVars, fileVars, hintVars, counterVars
<1>0. /\ DOMAIN hint = FileId /\ f < active /\ f \in Nat /\ active \in Nat /\ f # active
      /\ hpc \in [FileId -> {"none", "open", "scan", "done", "failed"}]
  <2>1. DOMAIN hint = FileId /\ f < active
    BY DEF BaseInv, HintInv
  <2>2. f \in Nat /\ active \in Nat
    BY BaseTypes DEF BaseInv
  <2> QED BY <2>1, <2>2 DEF BaseInv, WriteInv, TypeOK
<1>1. CASE UNCHANGED <<hint, hpc>>
  BY <1>1 DEF HintRunning
<1>2. CASE PowerOff
  BY <1>2 DEF PowerOff, HintRunning
<1>3. ASSUME NEW t \in Threads, Rotate(t)
      PROVE  hint'[f] = hint[f] /\ ~HintRunning(f)'
  BY <1>0, <1>3 DEF Rotate, HintRunning
<1>4. ASSUME NEW g \in FileId, HintStep(g)
      PROVE  hint'[f] = hint[f] /\ ~HintRunning(f)'
  <2>1. g # f
    BY <1>4 DEF HintStep, HintOpen, HintOpenFails, HintWrite, HintFails, HintDone, HintReadFails,
                HintRunning
  <2> QED BY <1>0, <1>4, <2>1
      DEF HintStep, HintOpen, HintOpenFails, HintWrite, HintFails, HintDone, HintReadFails,
          HintRunning, HintTo
<1> QED BY <1>1, <1>2, <1>3, <1>4
    DEF Next, ThreadStep, Begin, GetActiveFile, SeekStep, SeekFails, SeekFull, SeekOk,
        RotateStep, RotateFails, WriteStep, WriteFails, WritePart, WriteRest, WriteSpins,
        Find, UpsertStep, Upsert, UpsertNoMemory, ListKeys, IterClose,
        ShutdownBegin, JoinHints, StopWriter, Exit, Crash, Restart, vars

\* So a hintfile that has been cut short stays so.
LEMMA HintsStay ==
    ASSUME BaseInv, [Next]_vars, HintsComplete'
    PROVE  HintsComplete
<1> SUFFICES ASSUME NEW f \in FileId, hint[f] # NoHint, ~HintRunning(f)
             PROVE  hint[f] = Scan(data[f])
  BY DEF HintsComplete
<1>1. hint'[f] = hint[f] /\ ~HintRunning(f)'
  BY HintStays
<1>2. hint'[f] = Scan(data[f])'
  BY <1>1 DEF HintsComplete
<1>3. WriteInv /\ WriteInv' /\ CallsKept /\ AppendOnlyStep /\ wr' \in Seq(Call)
  BY BaseInvStep DEF BaseInv, Keeps, WriteInv, TypeOK
<1>4. f < active
  BY DEF BaseInv, HintInv
<1>5. data'[f] = data[f]
  BY <1>3, <1>4 DEF AppendOnlyStep
<1>6. Scan(data[f])' = Scan(data[f])
  BY <1>3, <1>5, SameScan
<1> QED BY <1>1, <1>2, <1>6

\* Writes can be cut short and then fail.
CanTear == {"short", "write"} \subseteq Faults

\* The process has not been started again yet.
NotRestarted == Restarts = 0 \/ (Restarts = 1 /\ phase # "up")

\* A restart finds all it should.
Recoverable == HintsComplete /\ (TornLast \/ (NotReadBack /\ ~CanTear))

\* None of these comes back once it is lost.
LEMMA LossStays ==
    ASSUME BaseInv, ShapeInv, [Next]_vars
    PROVE  /\ NotRestarted' => NotRestarted
           /\ Recoverable' => Recoverable
<1>1. PhaseStep /\ Keeps /\ WriteInv
  BY PhaseMoves, BaseInvStep DEF BaseInv
<1>2. NotRestarted' => NotRestarted
  BY <1>1 DEF PhaseStep, NotRestarted
<1>3. NotReadBack' => NotReadBack
  BY <1>1 DEF PhaseStep, NotReadBack, Restarts
<1>4. TornLast' => TornLast
  BY <1>1, TornStays
<1>5. HintsComplete' => HintsComplete
  BY HintsStay
<1> QED BY <1>2, <1>3, <1>4, <1>5 DEF Recoverable

\* Some thread has begun to write the record whose header is cell i of file f.
Owned(f, i) == \E t \in Threads : /\ th[t].pc = "write" /\ th[t].file = f
                                  /\ th[t].pos = i - 1 /\ th[t].sent > 0

\* Every record is whole, or is being written.
TornOnlySent ==
    \A f \in FileId : \A i \in 1 .. Len(data[f]) :
        data[f][i].part = 1 => Whole(f, i - 1, data[f][i].id) \/ Owned(f, i)

\* Unless writes can be torn, only the end of the first process tears a record, and it is
\* the last one in its file.
TearInv == ~CanTear /\ NotRestarted => TornLast /\ (phase # "off" => TornOnlySent)

\* The record that is being written is the last one.
LEMMA SentIsLast == WriteInv /\ TornOnlySent => TornLast
<1> SUFFICES ASSUME WriteInv, TornOnlySent,
                    NEW f \in FileId, NEW i \in DOMAIN data[f], NEW j \in DOMAIN data[f],
                    i < j, data[f][i].part = 1, data[f][j].part = 1, Owned(f, i)
             PROVE  FALSE
  <2>1. \A f \in FileId : DOMAIN data[f] = 1 .. Len(data[f])
    BY DEF WriteInv, TypeOK
  <2> QED BY <2>1 DEF TornLast, TornOnlySent
<1>1. PICK t \in Threads : th[t].pc = "write" /\ th[t].file = f /\ th[t].pos = i - 1
  BY DEF Owned
<1>2. PICK s \in Nat : s = th[t].sent /\ Sending(t)
  BY <1>1, ThreadType DEF ThreadOK
<1>3. PICK L \in Nat : L = Len(data[f]) /\ i \in 1 .. L /\ j \in 1 .. L
  <2>1. data[f] \in Seq(Cell)
    BY DEF WriteInv, TypeOK
  <2>2. Len(data[f]) \in Nat /\ DOMAIN data[f] = 1 .. Len(data[f])
    BY <2>1
  <2> QED BY <2>2
<1>4. PICK p \in Nat : p = i - 1
  BY <1>3
<1>5. p + s = L /\ \A k \in 1 .. s : data[f][p + k] = [id |-> th[t].id, part |-> k]
  BY <1>1, <1>2, <1>3, <1>4 DEF Sending
<1>6. PICK k : k = j - p
  OBVIOUS
<1>7. k \in 1 .. s /\ p + k = j /\ k # 1
  BY <1>3, <1>4, <1>5, <1>6
<1>8. data[f][j] = [id |-> th[t].id, part |-> k]
  BY <1>5, <1>7
<1> QED BY <1>7, <1>8

\* That also holds of the next state.
LEMMA SentIsLastNext == (WriteInv /\ TornOnlySent => TornLast)'
BY SentIsLast, PTL

\* A record that is whole stays whole (in terms of Keeps).
LEMMA WholeStays ==
    ASSUME WriteInv, Keeps, NEW f \in FileId, NEW i \in 1 .. Len(data[f]),
           NEW id, id = data[f][i].id, Whole(f, i - 1, id)
    PROVE  Whole(f, i - 1, id)'
<1>1. /\ data \in [FileId -> Seq(Cell)] /\ wr \in Seq(Call) /\ Grows /\ CallsKept
      /\ data' \in [FileId -> Seq(Cell)] /\ wr' \in Seq(Call)
  BY DEF Keeps, BaseInv, WriteInv, TypeOK
<1>2. PICK p \in Nat : p = i - 1
  BY <1>1
<1>3. id \in 1 .. Len(wr)
  BY CellType
<1>4. Whole(f, p, id)'
  BY <1>1, <1>2, <1>3, WholeKept
<1> QED BY <1>2, <1>4

\* A thread that has begun to write goes on, unless the process dies.
LEMMA WriterGoesOn ==
    ASSUME BaseInv, ShapeInv, ~CanTear, [Next]_vars, phase' # "off",
           NEW t \in Threads, th[t].pc = "write", th[t].sent > 0
    PROVE  th'[t] = th[t] \/ \E n \in Nat : Appends(t, n)
<1>0. WriteInv /\ LogInv /\ Keeps /\ th \in [Threads -> Thread]
  BY BaseInvStep, BaseTypes DEF BaseInv
<1>1. ASSUME NEW u \in Threads,
             ThreadStep(u) \/ \E k \in Keys, v \in ValueSizes : Begin(u, k, v)
      PROVE  th'[t] = th[t] \/ \E n \in Nat : Appends(t, n)
  <2>1. CASE u # t
    BY <1>0, <1>1, <2>1, OwnStep
  <2>2. CASE u = t
    <3>1. WriteStep(t)
      BY <1>1, <2>2 DEF ThreadStep, Begin, GetActiveFile, SeekStep, SeekFails, SeekFull, SeekOk,
         RotateStep, Rotate, RotateFails, Find, UpsertStep, Upsert, UpsertNoMemory, At
    <3>2. ~WriteFails(t)
      <4>1. th[t].file = active /\ phase \notin {"down", "off"}
        BY <1>0 DEF LogInv, LogLocks, InFile
      <4>2. fd[active] = "append"
        BY <1>0, <4>1 DEF ShapeInv, Running, WriteInv, TypeOK
      <4>3. "short" \in Faults
        <5>1. th[t].sent # 0
          BY <1>0, ThreadType
        <5> QED BY <5>1 DEF ShapeInv
      <4> QED BY <4>1, <4>2, <4>3 DEF WriteFails, Writable, CanTear
    <3> QED BY <1>0, <3>1, <3>2, WritesAppend DEF WriteStep
  <2> QED BY <2>1, <2>2
<1>2. CASE PowerOff
  BY <1>2 DEF PowerOff
<1>3. CASE th' = th
  BY <1>3
<1> QED BY <1>1, <1>2, <1>3
    DEF Next, ListKeys, IterClose, HintStep, HintOpen, HintOpenFails, HintWrite,
        HintFails, HintDone, HintReadFails, hintUnchanged, ShutdownBegin, JoinHints,
        StopWriter, Exit, Crash, Restart, vars

\* The step keeps every record whole or being written.
LEMMA SentStep ==
    ASSUME BaseInv, ShapeInv, ~CanTear, [Next]_vars, phase' # "off", TornOnlySent
    PROVE  TornOnlySent'
<1>0. WriteInv /\ LogInv /\ Keeps /\ data \in [FileId -> Seq(Cell)]
  BY BaseInvStep, BaseTypes DEF BaseInv
<1>1. ASSUME NEW g \in FileId, NEW i \in 1 .. Len(data[g]), data'[g][i] = data[g][i],
             data[g][i].part = 1,
             \A u \in Threads : th[u].pc = "write" /\ th[u].file = g /\ th[u].pos = i - 1
                                   /\ th[u].sent > 0 => th'[u] = th[u]
      PROVE  (Whole(g, i - 1, data[g][i].id))' \/ Owned(g, i)'
  <2>1. PICK id : id = data[g][i].id
    OBVIOUS
  <2>2. Whole(g, i - 1, id) => Whole(g, i - 1, id)'
    BY <1>0, <2>1, WholeStays
  <2>3. data'[g][i].id = id
    BY <1>1, <2>1
  <2>4. Whole(g, i - 1, id)' => (Whole(g, i - 1, data[g][i].id))'
    BY <2>3 DEF Whole, Size
  <2>5. Owned(g, i) => Owned(g, i)'
    BY <1>1 DEF Owned
  <2> QED BY <1>1, <2>1, <2>2, <2>4, <2>5 DEF TornOnlySent
<1>2. ASSUME NEW t \in Threads, NEW n \in Nat, Appends(t, n)
      PROVE  TornOnlySent'
  <2>1. PICK f, p, s, id, z : /\ f = th[t].file /\ p = th[t].pos /\ s = th[t].sent /\ id = th[t].id
                              /\ Extended(f, p, s, id, z, n) /\ (n = Unsent(t) <=> s + n = z)
    BY <1>0, <1>2, AppendShape
  <2>2. /\ f \in FileId /\ p \in Nat /\ s \in Nat /\ id \in 1 .. Len(wr) /\ z \in Nat
        /\ s + n <= z /\ Size(id)' = z /\ n > 0
        /\ Len(data[f]) = p + s /\ Len(data'[f]) = p + (s + n)
        /\ \A g \in FileId \ {f} : data'[g] = data[g]
        /\ \A i \in 1 .. p + s : data'[f][i] = data[f][i]
        /\ \A i \in 1 .. s + n : data'[f][p + i] = [id |-> id, part |-> i]
    BY <1>2, <2>1 DEF Extended, Appends
  <2>3. \A u \in Threads \ {t} : th'[u] = th[u]
    BY <1>2 DEF Appends
  <2> SUFFICES ASSUME NEW g \in FileId, NEW i \in 1 .. Len(data'[g]), data'[g][i].part = 1
               PROVE  (Whole(g, i - 1, data[g][i].id))' \/ Owned(g, i)'
    BY DEF TornOnlySent
  <2>4. CASE g # f
    <3>1. data'[g] = data[g]
      BY <2>2, <2>4
    <3>2. \A u \in Threads : th[u].file = g => th'[u] = th[u]
      BY <2>1, <2>3, <2>4
    <3> QED BY <1>1, <3>1, <3>2
  <2>5. CASE g = f /\ i <= p
    <3>1. i \in 1 .. p + s /\ i \in 1 .. Len(data[g]) /\ i - 1 # p
      BY <2>2, <2>5
    <3>2. \A u \in Threads : th[u].pos = i - 1 => th'[u] = th[u]
      BY <2>1, <2>3, <3>1
    <3>3. data'[g][i] = data[g][i] /\ data[g][i].part = 1
      BY <2>2, <2>5, <3>1
    <3> QED BY <1>1, <3>1, <3>2, <3>3
  <2>6. CASE g = f /\ i > p
    <3>1. i \in 1 .. p + (s + n) /\ i \in Nat
      BY <2>2, <2>6
    <3>2. PICK j : j = i - p
      OBVIOUS
    <3>3. j \in 1 .. s + n /\ i = p + j
      BY <2>2, <2>6, <3>1, <3>2
    <3>4. data'[f][i] = [id |-> id, part |-> j]
      BY <2>2, <3>3
    <3>5. j = 1 /\ i = p + 1 /\ i - 1 = p /\ data'[f][i].id = id
      BY <2>2, <2>6, <3>3, <3>4
    <3>6. CASE s + n = z
      <4>1. Whole(f, p, id)'
        <5>1. PICK e \in Nat : e = p + z
          BY <2>2
        <5>2. Len(data'[f]) = e
          BY <2>2, <3>6, <5>1
        <5>3. p + Size(id)' <= Len(data'[f])
          BY <2>2, <5>1, <5>2
        <5>4. \A k \in 1 .. Size(id)' : data'[f][p + k] = [id |-> id, part |-> k]
          BY <2>2, <3>6
        <5> QED BY <5>3, <5>4 DEF Whole
      <4>2. (Whole(g, i - 1, data[g][i].id))'
        BY <2>6, <3>5, <4>1 DEF Whole, Size
      <4> QED BY <4>2
    <3>7. CASE s + n # z
      <4>1. n # Unsent(t)
        BY <2>1, <3>7
      <4>2. /\ th'[t].file = f /\ th'[t].pos = p /\ th'[t].pc = "write" /\ th'[t].sent = s + n
        BY <1>2, <2>1, <4>1 DEF Appends
      <4>3. s + n > 0
        BY <2>2
      <4> QED BY <2>6, <3>5, <4>2, <4>3 DEF Owned
    <3> QED BY <3>6, <3>7
  <2> QED BY <2>2, <2>4, <2>5, <2>6
<1>3. CASE ~ \E t \in Threads, n \in Nat : Appends(t, n)
  <2>1. data' = data
    BY <1>0, <1>3, OnlyAppends
  <2>2. \A u \in Threads : th[u].pc = "write" /\ th[u].sent > 0 => th'[u] = th[u]
    BY <1>3, WriterGoesOn
  <2> SUFFICES ASSUME NEW g \in FileId, NEW i \in 1 .. Len(data'[g]), data'[g][i].part = 1
               PROVE  (Whole(g, i - 1, data[g][i].id))' \/ Owned(g, i)'
    BY DEF TornOnlySent
  <2> QED BY <1>1, <2>1, <2>2
<1> QED BY <1>2, <1>3

\* Nothing is torn at the start ...
LEMMA TearInit == Init => TearInv
BY DEF Init, TearInv, TornLast, TornOnlySent

\* ... nor by a step.
LEMMA TearStep ==
    ASSUME BaseInv, ShapeInv, TearInv, [Next]_vars
    PROVE  TearInv'
<1> SUFFICES ASSUME ~CanTear, NotRestarted'
             PROVE  TornLast' /\ (phase' # "off" => TornOnlySent')
  BY DEF TearInv, CanTear
<1>0. WriteInv /\ LogInv /\ Keeps /\ PhaseStep /\ data \in [FileId -> Seq(Cell)] /\ WriteInv'
  BY BaseInvStep, BaseTypes, PhaseMoves DEF BaseInv, Keeps
<1>1. TornLast /\ (phase # "off" => TornOnlySent)
  BY LossStays DEF TearInv
<1>2. CASE phase' = "off"
  <2>1. data' = data
    <3>1. CASE phase = "off"
      <4>1. \A t \in Threads : th[t].pc # "write"
        BY <1>0, <3>1 DEF LogInv, LogLocks
      <4> QED BY <1>0, <4>1, OnlyAppends DEF Appends
    <3>2. CASE phase # "off"
      BY <1>0, <1>2, <3>2 DEF PhaseStep, Exit, Crash, PowerOff, diskVars
    <3> QED BY <3>1, <3>2
  <2> SUFFICES ASSUME NEW f \in FileId, NEW i \in DOMAIN data[f], NEW j \in DOMAIN data[f],
                      i < j, data[f][i].part = 1, data[f][j].part = 1
               PROVE  (Whole(f, i - 1, data[f][i].id))'
    BY <1>2, <2>1 DEF TornLast
  <2>2. PICK id : id = data[f][i].id
    OBVIOUS
  <2>3. i \in 1 .. Len(data[f]) /\ Whole(f, i - 1, id)
    BY <1>0, <1>1, <2>2 DEF TornLast
  <2>4. Whole(f, i - 1, id)'
    BY <1>0, <2>2, <2>3, WholeStays
  <2>5. data'[f][i].id = id
    BY <2>1, <2>2
  <2> QED BY <2>4, <2>5 DEF Whole, Size
<1>3. CASE phase' # "off"
  <2>1. phase # "off"
    <3> SUFFICES ASSUME phase = "off" PROVE FALSE
      OBVIOUS
    <3>1. phase' = "up" /\ Restarts' >= Restarts /\ Restarts >= 1 /\ Restarts' \in Nat /\ Restarts \in Nat
      BY <1>0, <1>3 DEF PhaseStep, ShapeInv
    <3> QED BY <3>1 DEF NotRestarted
  <2>2. TornOnlySent'
    BY <1>1, <1>3, <2>1, SentStep
  <2>3. TornLast'
    BY <1>0, <2>2, SentIsLastNext
  <2> QED BY <2>2, <2>3
<1> QED BY <1>2, <1>3

-----------------------------------------------------------------------------
(* What a restart finds *)

\* Where nothing is written behind a torn record, a record that can be read is whole, and
\* what is read of it is what was written.
LEMMA EntryWhole ==
    ASSUME WriteInv, Contig, TornLast, NEW f \in FileId, NEW p \in 0 .. Len(data[f]),
           CanRead(data[f], p)
    PROVE  \E id \in 1 .. Len(wr) :
              /\ id = data[f][p + 1].id /\ Whole(f, p, id) /\ After(data[f], p) = p + Size(id)
              /\ EntryAt(data[f], p).key = wr[id].key /\ EntryAt(data[f], p).vsize = wr[id].vsize
<1>1. PICK L \in Nat : L = Len(data[f]) /\ DOMAIN data[f] = 1 .. L
  BY DEF WriteInv, TypeOK
<1>2. PICK i : i = p + 1
  OBVIOUS
<1>3. /\ i \in 1 .. L /\ p \in Nat /\ data[f][i].part = 1 /\ i - 1 = p
  BY <1>1, <1>2 DEF CanRead
<1>4. PICK id \in 1 .. Len(wr) : id = data[f][i].id /\ data[f][i] \in Cell
  BY <1>1, <1>3, CellType
<1>5. PICK z \in Nat : z = Size(id) /\ z >= 2
  BY <1>1, <1>3, <1>4, CellType
<1>6. p + z <= L
  BY <1>1, <1>2, <1>4, <1>5 DEF CanRead
<1>7. Whole(f, p, id)
  <2>1. CASE \E j \in 1 .. L : i < j /\ data[f][j].part = 1
    <3>1. PICK j \in DOMAIN data[f] : i < j /\ data[f][j].part = 1
      BY <1>1, <2>1
    <3>2. Whole(f, i - 1, data[f][i].id)
      BY <1>1, <1>3, <3>1 DEF TornLast
    <3> QED BY <1>3, <1>4, <3>2
  <2>2. CASE \A j \in 1 .. L : i < j => data[f][j].part # 1
    <3>1. PICK Bad : Bad = {k \in Nat : k \in 1 .. z /\ data[f][p + k] # [id |-> id, part |-> k]}
      OBVIOUS
    <3>2. Bad = {}
      <4> SUFFICES ASSUME Bad # {} PROVE FALSE
        OBVIOUS
      <4>1. PICK k \in Bad : \A n \in Bad : k <= n
        <5>1. Bad \in SUBSET Nat
          BY <3>1
        <5> QED BY <5>1, LeastNat
      <4>2. k \in 1 .. z /\ data[f][p + k] # [id |-> id, part |-> k] /\ k \in Nat
        BY <3>1, <4>1
      <4>3. PICK m : m = p + k
        OBVIOUS
      <4>4. m \in 1 .. L
        BY <1>3, <1>6, <4>2, <4>3
      <4>5. PICK c \in Cell : c = data[f][m]
        BY <1>1, <4>4, CellType
      <4>6. k # 1
        <5> SUFFICES ASSUME k = 1 PROVE FALSE
          OBVIOUS
        <5>1. m = i
          BY <1>2, <4>3
        <5>2. c.id = id /\ c.part = 1
          BY <1>3, <1>4, <4>5, <5>1
        <5>3. c = [id |-> id, part |-> 1]
          BY <5>2 DEF Cell
        <5> QED BY <4>2, <4>3, <4>5, <5>3
      <4>7. k - 1 \in 1 .. z /\ k - 1 \in Nat /\ ~(k <= k - 1) /\ p + (k - 1) = m - 1 /\ i < m
        BY <1>3, <4>2, <4>3, <4>6
      <4>8. k - 1 \notin Bad
        BY <4>1, <4>7
      <4>9. data[f][m - 1] = [id |-> id, part |-> k - 1]
        BY <3>1, <4>7, <4>8
      <4>10. c.part # 1
        BY <2>2, <4>4, <4>5, <4>7
      <4>11. data[f][m - 1] = [id |-> c.id, part |-> c.part - 1]
        BY <1>1, <4>4, <4>5, <4>10 DEF Contig
      <4>12. c.part \in Nat
        BY DEF Cell
      <4>13. c.id = id /\ c.part - 1 = k - 1
        BY <4>9, <4>11
      <4>14. c.part = k
        BY <4>2, <4>12, <4>13
      <4>15. c = [id |-> id, part |-> k]
        BY <4>13, <4>14 DEF Cell
      <4> QED BY <4>2, <4>3, <4>5, <4>15
    <3>3. \A k \in 1 .. z : data[f][p + k] = [id |-> id, part |-> k]
      BY <1>5, <3>1, <3>2
    <3> QED BY <1>1, <1>5, <1>6, <3>3 DEF Whole
  <2> QED BY <2>1, <2>2
<1>8. data[f][p + 2] = [id |-> id, part |-> 2] /\ data[f][p + 1].id = id
  <2>1. 2 \in 1 .. z
    BY <1>5
  <2> QED BY <1>2, <1>4, <1>5, <1>7, <2>1 DEF Whole
<1>9. EntryAt(data[f], p).key = wr[id].key /\ EntryAt(data[f], p).vsize = wr[id].vsize
  BY <1>8 DEF EntryAt
<1>10. After(data[f], p) = p + Size(id)
  BY <1>8 DEF After
<1> QED BY <1>7, <1>8, <1>9, <1>10

\* With complete hintfiles it does not matter whether a file has one.
LEMMA SourceIsScan ==
    ASSUME HintsComplete, NEW f \in FileId, ~HintRunning(f)
    PROVE  Source(f) = Scan(data[f])
BY DEF HintsComplete, Source

\* An entry of what is read back of a file leads to a record.
LEMMA ScanLeads ==
    ASSUME WriteInv, Contig, TornLast, NEW f \in FileId, NEW i \in 1 .. Len(Scan(data[f]))
    PROVE  /\ Scan(data[f])[i].pos \in Nat
           /\ \E id \in 1 .. Len(wr) :
                 /\ Whole(f, Scan(data[f])[i].pos, id) /\ id = data[f][Scan(data[f])[i].pos + 1].id
                 /\ Scan(data[f])[i].key = wr[id].key /\ Scan(data[f])[i].vsize = wr[id].vsize
<1>1. wr \in Seq(Call) /\ KnownCells(data[f]) /\ Len(data[f]) \in Nat
  BY BaseTypes
<1>2. PICK s : s = Scan(data[f])
  OBVIOUS
<1>3. Entries(data[f], s, 0)
  BY <1>1, <1>2, ScanEntries
<1>4. PICK p : p = s[i].pos
  OBVIOUS
<1>5. p \in 0 .. Len(data[f]) /\ CanRead(data[f], p) /\ s[i] = EntryAt(data[f], p)
  BY <1>2, <1>3, <1>4 DEF Entries
<1>6. PICK id \in 1 .. Len(wr) :
              /\ id = data[f][p + 1].id /\ Whole(f, p, id)
              /\ EntryAt(data[f], p).key = wr[id].key /\ EntryAt(data[f], p).vsize = wr[id].vsize
  BY <1>5, EntryWhole
<1>7. p \in Nat
  BY <1>1, <1>5
<1> QED BY <1>2, <1>4, <1>5, <1>6, <1>7

\* What keydir_recover puts into the index leads to a record.
LEMMA RecoveredLeads ==
    ASSUME WriteInv, Contig, TornLast, \A f \in FileId : Source(f) = Scan(data[f]), NEW k \in Keys
    PROVE  \A n \in DOMAIN Recovered(k) : LeadsToRecord(k, Recovered(k)[n])
<1>1. CASE Recovered(k) = <<>>
  BY <1>1
<1>2. ASSUME NEW f, NEW i, LastSource(k, f, i),
             Recovered(k) = <<[file |-> f, pos |-> Source(f)[i].pos, vsize |-> Source(f)[i].vsize]>>
      PROVE  \A n \in DOMAIN Recovered(k) : LeadsToRecord(k, Recovered(k)[n])
  <2>1. f \in FileId /\ i \in 1 .. Len(Source(f)) /\ Source(f)[i].key = k
    BY <1>2, BaseTypes DEF LastSource
  <2>2. Source(f) = Scan(data[f])
    BY <2>1
  <2>3. PICK e : e = [file |-> f, pos |-> Source(f)[i].pos, vsize |-> Source(f)[i].vsize]
    OBVIOUS
  <2>4. PICK id \in 1 .. Len(wr) :
                 /\ Whole(f, Scan(data[f])[i].pos, id)
                 /\ Scan(data[f])[i].key = wr[id].key /\ Scan(data[f])[i].vsize = wr[id].vsize
    BY <2>1, <2>2, ScanLeads, SMTT(30)
  <2>5. /\ e.file = f /\ e.pos = Scan(data[f])[i].pos /\ e.vsize = Scan(data[f])[i].vsize
    BY <2>2, <2>3
  <2>6. LeadsToRecord(k, e)
    BY <2>1, <2>2, <2>4, <2>5 DEF LeadsToRecord
  <2>7. Recovered(k) = <<e>>
    BY <1>2, <2>3
  <2>8. \A n \in DOMAIN <<e>> : <<e>>[n] = e
    OBVIOUS
  <2> QED BY <2>6, <2>7, <2>8
<1> QED BY <1>1, <1>2, RecoveredIs

-----------------------------------------------------------------------------
(* The index is sound, also after a restart *)

IndexInv == NotRestarted \/ Recoverable => IndexLeads

FullInv == BaseInv /\ ShapeInv /\ TearInv

\* Restarts are counted.
LEMMA RestartCounted ==
    ASSUME FullInv, [Next]_vars, Restart
    PROVE  /\ ~NotRestarted' /\ (NotReadBack => NotRestarted)
           /\ Recoverable => TornLast /\ \A f \in FileId : Source(f) = Scan(data[f])
<1>0. PhaseStep /\ phase = "off" /\ phase' = "up" /\ ShapeInv /\ TearInv
  BY PhaseMoves DEF FullInv, Restart
<1>1. Restarts \in Nat /\ Restarts' \in Nat /\ Restarts <= Restarts' /\ Restarts >= 1
  BY <1>0 DEF PhaseStep, ShapeInv
<1>2. ~NotRestarted'
  BY <1>0, <1>1 DEF NotRestarted
<1>3. NotReadBack => NotRestarted
  BY <1>0, <1>1 DEF NotReadBack, NotRestarted, Restarts
<1>4. Recoverable => TornLast
  BY <1>0, <1>3 DEF Recoverable, TearInv
<1>5. \A f \in FileId : ~HintRunning(f)
  BY <1>0 DEF ShapeInv, HintRunning
<1>6. Recoverable => \A f \in FileId : Source(f) = Scan(data[f])
  BY <1>5, SourceIsScan DEF Recoverable
<1> QED BY <1>2, <1>3, <1>4, <1>6

\* Besides the threads, only the end of a process and ccask_init touch the index.
LEMMA OnlyIndexed ==
    ASSUME [Next]_vars
    PROVE  \/ keydir' = keydir \/ Restart \/ keydir' = [k \in Keys |-> <<>>]
           \/ \E t \in Threads : ThreadStep(t)
BY DEF Next, Begin, ListKeys, IterClose, HintStep, HintOpen, HintOpenFails, HintWrite,
        HintFails, HintDone, HintReadFails, hintUnchanged, ShutdownBegin, JoinHints,
        StopWriter, Exit, Crash, PowerOff, Forget, vars

\* Every step keeps the index sound.
LEMMA IndexInvStep ==
    ASSUME FullInv, IndexInv, [Next]_vars
    PROVE  IndexInv'
<1> SUFFICES ASSUME NotRestarted' \/ Recoverable' PROVE IndexLeads'
  BY DEF IndexInv
<1>0. WriteInv /\ Keeps /\ WriteInv' /\ keydir \in [Keys -> Seq(Entry)] /\ ShapeInv /\ BaseInv
  BY BaseInvStep, BaseTypes DEF FullInv, BaseInv, Keeps
<1>1. (NotRestarted' => NotRestarted) /\ (Recoverable' => Recoverable) /\ IndexLeads
  BY LossStays DEF FullInv, IndexInv
<1>2. CASE keydir' = keydir
  <2>1. IndexGrows
    BY <1>0, <1>2 DEF IndexGrows
  <2>2. StepKeeps
    BY <1>0, <2>1 DEF StepKeeps, Keeps
  <2> QED BY <1>0, <1>1, <1>2, <2>2, IndexStep
<1>3. CASE keydir' = [k \in Keys |-> <<>>]
  BY <1>3 DEF IndexLeads
<1>4. ASSUME NEW t \in Threads, ThreadStep(t)
      PROVE  IndexLeads'
  BY <1>0, <1>1, <1>4, ThreadIndex
<1>5. CASE Restart
  <2>1. TornLast /\ \A f \in FileId : Source(f) = Scan(data[f])
    BY <1>1, <1>5, RestartCounted
  <2>2. /\ data' = data /\ wr' = wr /\ \A k \in Keys : keydir'[k] = Recovered(k)
    BY <1>5 DEF Restart
  <2> SUFFICES ASSUME NEW k \in Keys, NEW n \in DOMAIN keydir'[k]
               PROVE  (LeadsToRecord(k, keydir[k][n]))'
    BY DEF IndexLeads
  <2>3. PICK e : e = Recovered(k)[n] /\ LeadsToRecord(k, e)
    BY <1>0, <2>1, <2>2, RecoveredLeads DEF ShapeInv
  <2>4. keydir'[k][n] = e
    BY <2>2, <2>3
  <2>5. (LeadsToRecord(k, keydir[k][n]))' <=> LeadsToRecord(k, e)
    BY <2>2, <2>4 DEF LeadsToRecord, Whole, Size
  <2> QED BY <2>3, <2>5
<1> QED BY <1>2, <1>3, <1>4, <1>5, OnlyIndexed

\* The invariant of the log across crashes and restarts, with the index.
LEMMA FullStep == FullInv /\ IndexInv /\ [Next]_vars => FullInv' /\ IndexInv'
<1> SUFFICES ASSUME FullInv, IndexInv, [Next]_vars PROVE FullInv' /\ IndexInv'
  OBVIOUS
<1>1. BaseInv'
  BY BaseInvStep DEF FullInv, Keeps
<1>2. ShapeInv'
  BY ShapeStep DEF FullInv
<1>3. TearInv'
  BY TearStep DEF FullInv
<1>4. IndexInv'
  BY IndexInvStep
<1> QED BY <1>1, <1>2, <1>3, <1>4 DEF FullInv

\* It holds in every reachable state.
THEOREM FullInvariant == SafeSpec => [](FullInv /\ IndexInv)
<1>1. Init => FullInv /\ IndexInv
  <2> SUFFICES ASSUME Init PROVE FullInv /\ IndexInv
    OBVIOUS
  <2>1. FullInv
    BY BaseInvInit, ShapeInit, TearInit DEF FullInv
  <2>2. IndexInv
    BY DEF Init, IndexInv, IndexLeads
  <2> QED BY <2>1, <2>2
<1> QED BY <1>1, FullStep, PTL DEF SafeSpec

\* The index never dangles: until the process is started again, whatever fails, and after
\* restarts as long as no hintfile has been cut short and no record has been written
\* behind a torn one, or, when a failed write tears none, not read back.
THEOREM IndexSoundAcrossRestarts == SafeSpec => [](NotRestarted \/ Recoverable => KeydirSound)
<1>1. FullInv /\ IndexInv => (NotRestarted \/ Recoverable => KeydirSound)
  BY IndexIsSound DEF FullInv, BaseInv, IndexInv
<1> QED BY <1>1, FullInvariant, PTL

\* In a process that is never stopped or killed the index never dangles, whatever fails.
THEOREM IndexSoundWhileUp ==
    ASSUME MaxCrashes = 0, MaxShutdowns = 0
    PROVE  SafeSpec => []KeydirSound
<1>1. FullInv /\ IndexInv => KeydirSound
  <2> SUFFICES ASSUME FullInv, IndexInv PROVE KeydirSound
    OBVIOUS
  <2>1. Restarts = 0
    BY DEF FullInv, BaseInv, WriteInv, TypeOK, Restarts
  <2> QED BY <2>1, IndexIsSound DEF FullInv, BaseInv, IndexInv, NotRestarted
<1> QED BY <1>1, FullInvariant, PTL

-----------------------------------------------------------------------------
(* No write is lost *)

\* The header of a whole record.
LEMMA WholeHeader ==
    ASSUME WriteInv, NEW f \in FileId, NEW p \in Nat, NEW id \in 1 .. Len(wr), Whole(f, p, id)
    PROVE  /\ p + 1 \in 1 .. Len(data[f]) /\ data[f][p + 1] = [id |-> id, part |-> 1]
           /\ p \in 0 .. Len(data[f]) /\ p < Len(data[f])
<1>1. wr \in Seq(Call) /\ Len(data[f]) \in Nat
  BY BaseTypes
<1>2. PICK z \in Nat : z = Size(id) /\ z > 0
  BY <1>1, CallSize
<1>3. 1 \in 1 .. z /\ p + z <= Len(data[f])
  BY <1>2 DEF Whole
<1>4. data[f][p + 1] = [id |-> id, part |-> 1]
  BY <1>2, <1>3 DEF Whole
<1> QED BY <1>1, <1>2, <1>3, <1>4

\* Where nothing is written behind a torn record, and no value is empty, a scan finds every
\* record that is whole.
LEMMA ScanHasWhole ==
    ASSUME WriteInv, Contig, TornLast, 0 \notin ValueSizes,
           NEW f \in FileId, NEW p \in Nat, NEW id \in 1 .. Len(wr), Whole(f, p, id)
    PROVE  \E i \in 1 .. Len(Scan(data[f])) : /\ Scan(data[f])[i].pos = p
                                              /\ Scan(data[f])[i].key = wr[id].key
                                              /\ Scan(data[f])[i].vsize = wr[id].vsize
<1>1. wr \in Seq(Call) /\ KnownCells(data[f])
  BY BaseTypes
<1>2. PICK cells, L : cells = data[f] /\ L = Len(cells) /\ L \in Nat /\ DOMAIN cells = 1 .. L
  <2>1. data[f] \in Seq(Cell)
    BY BaseTypes
  <2>2. Len(data[f]) \in Nat /\ DOMAIN data[f] = 1 .. Len(data[f])
    BY <2>1, LenProperties
  <2> QED BY <2>2
<1>3. PICK W, B : /\ W = {q \in Nat : \E x \in 1 .. Len(wr) : Whole(f, q, x)}
                  /\ B = {q \in 0 .. L : q = L \/ cells[q + 1].part = 1}
  OBVIOUS
<1>4. \A q \in W : q \in Nat /\ q < L /\ q + 1 \in 1 .. L /\ cells[q + 1].part = 1
  <2> SUFFICES ASSUME NEW q \in W PROVE q \in Nat /\ q < L /\ q + 1 \in 1 .. L /\ cells[q + 1].part = 1
    OBVIOUS
  <2>1. PICK x \in 1 .. Len(wr) : q \in Nat /\ Whole(f, q, x)
    BY <1>3
  <2>2. q + 1 \in 1 .. Len(data[f]) /\ data[f][q + 1] = [id |-> x, part |-> 1] /\ q < Len(data[f])
    BY <2>1, WholeHeader
  <2> QED BY <1>2, <2>1, <2>2
<1>5. 0 \in B
  <2>1. CASE L = 0
    BY <1>2, <1>3, <2>1
  <2>2. CASE L # 0
    <3>1. 1 \in 1 .. L
      BY <1>2, <2>2
    <3>2. cells[1].part = 1
      BY <1>2, <3>1 DEF Contig
    <3>3. 0 \in 0 .. L /\ 0 + 1 = 1
      BY <1>2
    <3> QED BY <1>3, <3>2, <3>3
  <2> QED BY <2>1, <2>2
<1>6. ASSUME NEW q \in B, q \in 0 .. Len(cells), CanRead(cells, q)
      PROVE  After(cells, q) \in B /\ \A r \in W : r > q => r >= After(cells, q)
  <2>1. PICK x \in 1 .. Len(wr) : Whole(f, q, x) /\ After(cells, q) = q + Size(x)
    BY <1>2, <1>6, EntryWhole
  <2>2. PICK z \in Nat : z = Size(x) /\ z > 0
    BY <1>1, CallSize
  <2>3. PICK e : e = q + z
    OBVIOUS
  <2>4. /\ e <= L /\ q \in Nat /\ e \in 0 .. L /\ After(cells, q) = e
        /\ \A i \in 1 .. z : cells[q + i] = [id |-> x, part |-> i]
    BY <1>2, <1>6, <2>1, <2>2, <2>3 DEF Whole
  <2>5. ASSUME NEW r \in W, r > q PROVE r >= e
    <3> SUFFICES ASSUME r < e PROVE FALSE
      BY <1>4, <2>3, <2>4
    <3>1. PICK i : i = r + 1 - q
      OBVIOUS
    <3>2. i \in 1 .. z /\ q + i = r + 1 /\ i # 1
      BY <1>4, <2>3, <2>4, <2>5, <3>1
    <3>3. cells[r + 1] = [id |-> x, part |-> i]
      BY <2>4, <3>2
    <3> QED BY <1>4, <3>2, <3>3
  <2>6. e \in B
    <3>1. CASE e = L
      BY <1>3, <2>4, <3>1
    <3>2. CASE e # L
      <4>1. e + 1 \in 1 .. L /\ (e + 1) - 1 = e /\ z \in 1 .. z
        BY <1>2, <2>2, <2>4, <3>2
      <4>2. PICK c \in Cell : c = cells[e + 1]
        BY <1>2, <4>1, CellType
      <4>3. cells[e] = [id |-> x, part |-> z]
        BY <2>3, <2>4, <4>1
      <4>4. /\ c.part \in 1 .. Size(c.id)
            /\ c.part # 1 => cells[e] = [id |-> c.id, part |-> c.part - 1]
        <5>1. /\ data[f][e + 1].part \in 1 .. Size(data[f][e + 1].id)
              /\ data[f][e + 1].part # 1 =>
                    data[f][(e + 1) - 1] = [id |-> data[f][e + 1].id,
                                            part |-> data[f][e + 1].part - 1]
          BY <1>2, <4>1 DEF Contig
        <5> QED BY <1>2, <4>1, <4>2, <5>1
      <4>5. c.part = 1
        <5> SUFFICES ASSUME c.part # 1 PROVE FALSE
          OBVIOUS
        <5>1. c.id = x /\ c.part - 1 = z
          BY <4>3, <4>4
        <5>2. c.part \in 1 .. z
          BY <2>2, <4>4, <5>1
        <5> QED BY <2>2, <5>1, <5>2
      <4> QED BY <1>3, <2>4, <4>2, <4>5
    <3> QED BY <3>1, <3>2
  <2> QED BY <2>4, <2>5, <2>6
<1>7. ASSUME NEW q \in B, q \in 0 .. Len(cells), ~CanRead(cells, q)
      PROVE  \A r \in W : r < q
  <2> SUFFICES ASSUME NEW r \in W PROVE r < q
    OBVIOUS
  <2>1. CASE q = L
    BY <1>4, <2>1
  <2>2. CASE q # L
    <3>1. q \in Nat /\ q < L /\ q + 1 \in 1 .. L /\ cells[q + 1].part = 1 /\ (q + 1) - 1 = q
      BY <1>2, <1>3, <1>7, <2>2
    <3>2. PICK x \in 1 .. Len(wr) : x = cells[q + 1].id
      BY <1>2, <3>1, CellType
    <3>3. PICK z \in Nat : z = Size(x) /\ z > 0
      BY <1>1, CallSize
    <3>4. wr[x].vsize > 0
      <4>1. wr[x] \in Call /\ wr[x].vsize \in Nat
        BY <1>1, CallSize
      <4>2. wr[x].vsize \in ValueSizes
        BY <4>1 DEF Call
      <4>3. wr[x].vsize # 0
        BY <4>2
      <4> QED BY <4>1, <4>3
    <3>5. ~(q + z <= L)
      BY <1>2, <1>7, <3>1, <3>2, <3>3, <3>4 DEF CanRead
    <3>6. ~Whole(f, q, x)
      BY <1>2, <3>3, <3>5 DEF Whole
    <3>7. ~(q + 1 < r + 1)
      <4> SUFFICES ASSUME q + 1 < r + 1 PROVE FALSE
        OBVIOUS
      <4>1. q + 1 \in DOMAIN data[f] /\ r + 1 \in DOMAIN data[f]
        BY <1>2, <1>4, <3>1
      <4>2. Whole(f, (q + 1) - 1, data[f][q + 1].id)
        BY <1>2, <1>4, <3>1, <4>1 DEF TornLast
      <4> QED BY <1>2, <3>1, <3>2, <3>6, <4>2
    <3>8. r # q
      <4> SUFFICES ASSUME r = q PROVE FALSE
        OBVIOUS
      <4>1. PICK y \in 1 .. Len(wr) : Whole(f, q, y)
        BY <1>3
      <4>2. data[f][q + 1] = [id |-> y, part |-> 1]
        BY <3>1, <4>1, WholeHeader
      <4>3. y = x
        BY <1>2, <3>2, <4>2
      <4> QED BY <3>6, <4>1, <4>3
    <3> QED BY <1>4, <3>1, <3>7, <3>8
  <2> QED BY <2>1, <2>2
<1>8. p \in W
  BY <1>3
<1>9. W \in SUBSET Nat /\ KnownCells(cells)
  BY <1>1, <1>2, <1>3
<1>10. PICK i \in 1 .. Len(Scan(cells)) : Scan(cells)[i].pos = p
  BY <1>1, <1>5, <1>6, <1>7, <1>8, <1>9, ScanComplete
<1>11. PICK x \in 1 .. Len(wr) : /\ x = data[f][Scan(data[f])[i].pos + 1].id
                                 /\ Scan(data[f])[i].key = wr[x].key
                                 /\ Scan(data[f])[i].vsize = wr[x].vsize
  BY <1>2, <1>10, ScanLeads
<1>12. x = id
  <2>1. data[f][p + 1] = [id |-> id, part |-> 1]
    BY WholeHeader
  <2>2. x = data[f][p + 1].id
    BY <1>2, <1>10, <1>11
  <2> QED BY <2>1, <2>2
<1> QED BY <1>2, <1>10, <1>11, <1>12

\* The position (f, p) of the log is not behind (g, q).
NotAfter(f, p, g, q) == f < g \/ (f = g /\ p <= q)

\* What keydir_recover finds of a key is not before any whole record of it.
LEMMA RecoveredCovers ==
    ASSUME WriteInv, ShapeInv, TornLast, 0 \notin ValueSizes,
           \A f \in FileId : Source(f) = Scan(data[f]),
           NEW f \in FileId, NEW p \in Nat, NEW id \in 1 .. Len(wr), Whole(f, p, id)
    PROVE  \E r \in Entry : Recovered(wr[id].key) = <<r>> /\ NotAfter(f, p, r.file, r.pos)
<1>1. Contig /\ active \in Nat /\ f \in Nat
  BY BaseTypes DEF ShapeInv
<1>2. PICK i \in 1 .. Len(Scan(data[f])) : Scan(data[f])[i].pos = p /\ Scan(data[f])[i].key = wr[id].key
  BY <1>1, ScanHasWhole
<1>3. f \in 0 .. active
  <2>1. data[f] # <<>>
    <3>1. p < Len(data[f]) /\ Len(data[f]) \in Nat
      BY WholeHeader, BaseTypes
    <3>2. Len(data[f]) # 0
      BY <3>1
    <3> QED BY <3>2
  <2>2. ~(f > active)
    BY <2>1 DEF ShapeInv
  <2> QED BY <1>1, <2>2
<1>4. i \in 1 .. Len(Source(f)) /\ Source(f)[i].key = wr[id].key /\ Source(f)[i].pos = p
  BY <1>2
<1>5. PICK g, j : /\ LastSource(wr[id].key, g, j)
                  /\ Recovered(wr[id].key) = <<[file |-> g, pos |-> Source(g)[j].pos,
                                                vsize |-> Source(g)[j].vsize]>>
  BY <1>3, <1>4, RecoveredIs
<1>6. g \in FileId /\ j \in 1 .. Len(Source(g)) /\ (f < g \/ (f = g /\ i <= j))
  BY <1>3, <1>4, <1>5, BaseTypes DEF LastSource
<1>7. Source(g)[j] \in HintRecord
  BY <1>6, SourceType
<1>8. PICK r : r = [file |-> g, pos |-> Source(g)[j].pos, vsize |-> Source(g)[j].vsize]
  OBVIOUS
<1>9. r \in Entry /\ r.file = g /\ r.pos = Source(g)[j].pos /\ r.pos \in Nat
  BY <1>6, <1>7, <1>8 DEF Entry, HintRecord
<1>10. f = g => p <= r.pos
  <2> SUFFICES ASSUME f = g PROVE p <= r.pos
    OBVIOUS
  <2>1. PICK s : s = Scan(data[f])
    OBVIOUS
  <2>2. Entries(data[f], s, 0)
    BY <2>1, BaseTypes, ScanEntries
  <2>3. i \in 1 .. Len(s) /\ j \in 1 .. Len(s) /\ i <= j /\ s[i].pos = p /\ s[j].pos = r.pos
    BY <1>1, <1>2, <1>6, <1>9, <2>1
  <2>4. i < j => s[i].pos < s[j].pos
    BY <2>2, <2>3 DEF Entries
  <2>5. i = j \/ i < j
    BY <2>3
  <2> QED BY <1>9, <2>3, <2>4, <2>5
<1>11. NotAfter(f, p, r.file, r.pos)
  BY <1>6, <1>9, <1>10 DEF NotAfter
<1> QED BY <1>5, <1>8, <1>9, <1>11

-----------------------------------------------------------------------------
(* A sole writer keeps the index in the order of the log *)

\* The application only uses ccask_put, so that the writer thread is the only one that
\* writes; it stores no empty value; and a failed write leaves no part of a record.
SoleWriter == (\A t, u \in Threads : t = u) /\ 0 \notin ValueSizes /\ ~CanTear

\* Nothing of call id is on disk.
NoCells(id) == \A f \in FileId : \A i \in 1 .. Len(data[f]) : data[f][i].id # id

\* The calls whose records the index has to have: the ones that returned CCASK_OK and, when
\* an upsert cannot fail, all that no thread is working on.
Tracked(id) ==
    \/ wr[id].status = "ok"
    \/ "nomem" \notin Faults /\ \A t \in Threads : th[t].pc # "idle" => th[t].id # id

\* Looking k up leads to (f, p) or to what is behind it in the log.
Covered(k, f, p) == keydir[k] # <<>> /\ NotAfter(f, p, Found(k).file, Found(k).pos)

InOrder ==
    \A id \in 1 .. Len(wr), f \in FileId, p \in Nat :
        Tracked(id) /\ Whole(f, p, id) => Covered(wr[id].key, f, p)

\* A call has nothing on disk before its first writev; its record is the last one of the
\* log from writev to the upsert; and the entry it found is still the last of its key.
CallOK(t) ==
    /\ th[t].pc # "idle" => wr[th[t].id].status = "pending"
    /\ th[t].pc \in {"active", "lock", "rotate", "write"} /\ th[t].sent = 0 => NoCells(th[t].id)
    /\ th[t].pc \in {"find", "upsert"} =>
          th[t].file = active /\ th[t].pos + Size(th[t].id) = Len(data[th[t].file])
    /\ th[t].pc = "upsert" => th[t].node = Len(keydir[wr[th[t].id].key])

\* A write that returned CCASK_OK is on disk, and a key has at most one entry.
StoredOnce ==
    /\ \A id \in 1 .. Len(wr) : wr[id].status = "ok" => \E f \in FileId, p \in Nat : Whole(f, p, id)
    /\ \A k \in Keys : Len(keydir[k]) <= 1

OrderInv ==
    /\ \A t \in Threads : CallOK(t)
    /\ StoredOnce
    /\ Running /\ Recoverable => InOrder

\* What is known in every state.
Known == FullInv /\ IndexInv /\ OrderInv

\* A record that is whole after a step that leaves the files alone was whole before.
LEMMA WholeSame ==
    ASSUME CallsKept, data' = data, NEW id \in 1 .. Len(wr), NEW f, NEW p
    PROVE  Whole(f, p, id)' <=> Whole(f, p, id)
<1>1. Size(id)' = Size(id)
  BY SizeKept
<1>2. PICK z : z = Size(id)
  OBVIOUS
<1> QED BY <1>1, <1>2 DEF Whole

\* Nothing on disk, no whole record.
LEMMA NotWhole ==
    ASSUME WriteInv, NEW id \in 1 .. Len(wr), NoCells(id), NEW f \in FileId, NEW p \in Nat
    PROVE  ~Whole(f, p, id)
<1> SUFFICES ASSUME Whole(f, p, id) PROVE FALSE
  OBVIOUS
<1>1. p + 1 \in 1 .. Len(data[f]) /\ data[f][p + 1] = [id |-> id, part |-> 1]
  BY WholeHeader
<1>2. data[f][p + 1].id = id
  BY <1>1
<1> QED BY <1>1, <1>2 DEF NoCells

\* The record of another call that is whole after an append was whole before.
LEMMA WholeBefore ==
    ASSUME WriteInv, WriteInv', NEW t \in Threads, NEW n \in Nat, Appends(t, n),
           NEW id \in 1 .. Len(wr), id # th[t].id, NEW f \in FileId, NEW p \in Nat,
           Whole(f, p, id)'
    PROVE  Whole(f, p, id)
<1>1. PICK g, q, s, own, z : g = th[t].file /\ own = th[t].id /\ Extended(g, q, s, own, z, n)
  BY AppendShape
<1>2. wr' = wr /\ wr \in Seq(Call)
  BY BaseTypes DEF Appends
<1>3. Size(id)' = Size(id)
  BY <1>2 DEF Size
<1>4. CASE f # g
  <2>1. data'[f] = data[f]
    BY <1>1, <1>4 DEF Extended
  <2> QED BY <1>3, <2>1 DEF Whole
<1>5. CASE f = g
  <2>1. PICK y \in Nat : y = Size(id) /\ y > 0
    BY <1>2, CallSize
  <2>2. /\ q \in Nat /\ s \in Nat /\ Len(data[f]) = q + s /\ Len(data'[f]) = q + (s + n)
        /\ \A i \in 1 .. q + s : data'[f][i] = data[f][i]
        /\ \A i \in 1 .. s + n : data'[f][q + i] = [id |-> own, part |-> i]
    BY <1>1, <1>5 DEF Extended
  <2>3. p + y <= q + (s + n) /\ \A i \in 1 .. y : data'[f][p + i] = [id |-> id, part |-> i]
    BY <1>3, <2>1, <2>2 DEF Whole
  <2>4. p + y <= q + s
    <3> SUFFICES ASSUME p + y > q + s PROVE FALSE
      BY <2>1, <2>2
    <3>1. PICK j : j = (p + y) - q
      OBVIOUS
    <3>0. q \in Nat /\ s \in Nat /\ p + y <= q + (s + n)
      BY <2>2, <2>3
    <3>2. j \in 1 .. s + n /\ q + j = p + y /\ y \in 1 .. y
      BY <2>1, <3>0, <3>1
    <3>3. data'[f][q + j] = [id |-> own, part |-> j] /\ data'[f][p + y] = [id |-> id, part |-> y]
      BY <2>2, <2>3, <3>2
    <3>4. PICK c : c = data'[f][p + y]
      OBVIOUS
    <3>5. c.id = own /\ c.id = id
      BY <3>2, <3>3, <3>4
    <3> QED BY <1>1, <3>5
  <2>5. \A i \in 1 .. y : p + i \in 1 .. q + s
    BY <2>1, <2>2, <2>4
  <2>6. \A i \in 1 .. y : data[f][p + i] = [id |-> id, part |-> i]
    BY <2>2, <2>3, <2>5
  <2> QED BY <2>1, <2>2, <2>4, <2>6 DEF Whole
<1> QED BY <1>4, <1>5

\* A step that leaves the index alone keeps it in order when no record becomes whole but
\* one that the index need not have.
LEMMA OrderKept ==
    ASSUME InOrder, CallsKept, keydir' = keydir,
           \A id \in 1 .. Len(wr'), f \in FileId, p \in Nat :
              Tracked(id)' /\ Whole(f, p, id)' =>
                 id \in 1 .. Len(wr) /\ Tracked(id) /\ Whole(f, p, id)
    PROVE  InOrder'
<1> SUFFICES ASSUME NEW id \in 1 .. Len(wr'), NEW f \in FileId, NEW p \in Nat,
                    Tracked(id)', Whole(f, p, id)'
             PROVE  Covered(wr[id].key, f, p)'
  BY DEF InOrder
<1>1. id \in 1 .. Len(wr) /\ Tracked(id) /\ Whole(f, p, id)
  OBVIOUS
<1>2. PICK k : k = wr[id].key /\ Covered(k, f, p)
  BY <1>1 DEF InOrder
<1>3. wr'[id].key = k
  BY <1>1, <1>2 DEF CallsKept
<1>4. Covered(k, f, p)'
  BY <1>2 DEF Covered, Found
<1> QED BY <1>3, <1>4 DEF Covered, Found

\* Calls that returned CCASK_OK before are still on disk.
LEMMA StillStored ==
    ASSUME WriteInv, WriteInv', Grows, CallsKept, StoredOnce,
           NEW id \in 1 .. Len(wr), wr[id].status = "ok"
    PROVE  \E f \in FileId, p \in Nat : Whole(f, p, id)'
<1>1. PICK f \in FileId, p \in Nat : Whole(f, p, id)
  BY DEF StoredOnce
<1>2. /\ data \in [FileId -> Seq(Cell)] /\ wr \in Seq(Call)
      /\ data' \in [FileId -> Seq(Cell)] /\ wr' \in Seq(Call)
  BY DEF WriteInv, TypeOK
<1>3. Whole(f, p, id)'
  BY <1>1, <1>2, WholeKept
<1> QED BY <1>3

\* A call begins.
LEMMA BeginOrder ==
    ASSUME SoleWriter, Known, [Next]_vars, NEW t \in Threads, NEW k \in Keys, NEW v \in ValueSizes,
           Begin(t, k, v)
    PROVE  OrderInv'
<1>0. /\ BaseInv /\ ShapeInv /\ WriteInv /\ Keeps /\ WriteInv' /\ Grows /\ CallsKept /\ StoredOnce
      /\ wr \in Seq(Call) /\ Len(wr) \in Nat /\ th \in [Threads -> Thread] /\ \A u \in Threads : u = t
      /\ Recoverable' => Recoverable
  BY BaseInvStep, BaseTypes, LossStays DEF Known, OrderInv, FullInv, BaseInv, Keeps, SoleWriter
<1>1. /\ data' = data /\ keydir' = keydir /\ phase' = phase /\ th[t].pc = "idle"
  BY DEF Begin, At, diskVars
<1>2. PICK new : new = Len(wr) + 1
  OBVIOUS
<1>3. th'[t].pc = "active" /\ th'[t].id = new
  <2>1. th'[t] = [Idle EXCEPT !.pc = "active", !.id = new]
    BY <1>0, <1>2 DEF Begin
  <2> QED BY <2>1 DEF Idle
<1>4. /\ Len(wr') = new /\ new \in Nat /\ wr'[new].status = "pending"
      /\ \A id \in 1 .. Len(wr) : wr'[id] = wr[id]
  <2>1. wr' = Append(wr, [key |-> k, vsize |-> v, status |-> "pending"])
    BY DEF Begin
  <2>2. Len(wr') = new /\ \A id \in 1 .. Len(wr) : wr'[id] = wr[id]
    BY <1>0, <1>2, <2>1
  <2>3. wr'[new] = [key |-> k, vsize |-> v, status |-> "pending"]
    BY <1>0, <1>2, <2>1
  <2> QED BY <1>0, <1>2, <2>2, <2>3
<1>5. \A id \in 1 .. Len(wr') : id \in 1 .. Len(wr) \/ id = new
  BY <1>0, <1>2, <1>4
<1>6. \A u \in Threads : CallOK(u)'
  <2>1. NoCells(new)'
    <3> SUFFICES ASSUME NEW f \in FileId, NEW i \in 1 .. Len(data[f]) PROVE data[f][i].id # new
      BY <1>1 DEF NoCells
    <3>1. data[f][i].id \in 1 .. Len(wr)
      BY <1>0 DEF WriteInv, CellsOK
    <3> QED BY <1>0, <1>2, <3>1
  <2>2. CallOK(t)'
    BY <1>3, <1>4, <2>1 DEF CallOK, NoCells
  <2> QED BY <1>0, <2>2
<1>7. StoredOnce'
  <2>1. ASSUME NEW id \in 1 .. Len(wr'), wr'[id].status = "ok"
        PROVE  \E f \in FileId, p \in Nat : Whole(f, p, id)'
    BY <1>0, <1>4, <1>5, <2>1, StillStored
  <2> QED BY <1>0, <1>1, <2>1 DEF StoredOnce
<1>8. ASSUME Running', Recoverable' PROVE InOrder'
  <2>1. InOrder
    BY <1>0, <1>1, <1>8 DEF Known, OrderInv, Running
  <2>2. ~Tracked(new)'
    BY <1>3, <1>4 DEF Tracked
  <2>3. ASSUME NEW id \in 1 .. Len(wr), Tracked(id)' PROVE Tracked(id)
    BY <1>0, <1>1, <1>4, <2>3 DEF Tracked
  <2>4. ASSUME NEW id \in 1 .. Len(wr'), NEW f \in FileId, NEW p \in Nat,
               Tracked(id)', Whole(f, p, id)'
        PROVE  id \in 1 .. Len(wr) /\ Tracked(id) /\ Whole(f, p, id)
    <3>1. id \in 1 .. Len(wr)
      BY <1>5, <2>2, <2>4
    <3> QED BY <1>0, <1>1, <2>3, <2>4, <3>1, WholeSame
  <2> QED BY <1>0, <1>1, <2>1, <2>4, OrderKept
<1> QED BY <1>6, <1>7, <1>8 DEF OrderInv

\* On its way to writev a call changes neither the log nor the index.
LEMMA OnTheWay ==
    ASSUME WriteInv, NEW t \in Threads,
           GetActiveFile(t) \/ SeekFull(t) \/ SeekOk(t) \/ RotateStep(t)
    PROVE  /\ UNCHANGED <<data, wr, keydir, phase>>
           /\ th[t].pc \in {"active", "lock", "rotate"} /\ th[t].sent = 0
           /\ th'[t].pc \in {"active", "lock", "rotate", "write"}
           /\ th'[t].id = th[t].id /\ th'[t].sent = th[t].sent
<1>0. th \in [Threads -> Thread] /\ th[t] \in Thread
  BY BaseTypes
<1>1. /\ UNCHANGED <<data, wr, keydir, phase>> /\ th[t].pc \in {"active", "lock", "rotate"}
  BY DEF GetActiveFile, SeekFull, SeekOk, RotateStep, Rotate, RotateFails, At, diskVars
<1>2. th[t].sent = 0
  BY <1>1, ThreadType DEF ThreadOK
<1>3. CASE GetActiveFile(t)
  <2>1. th'[t] = [th[t] EXCEPT !.file = active, !.pc = "lock"]
    BY <1>0, <1>3 DEF GetActiveFile
  <2> QED BY <1>0, <1>1, <1>2, <2>1 DEF Thread
<1>4. CASE SeekOk(t)
  <2>1. PICK q : q = SeekEnd(t)
    OBVIOUS
  <2>2. PICK new : new = [th[t] EXCEPT !.pos = q, !.pc = "write"]
    OBVIOUS
  <2>3. th'[t] = new
    BY <1>0, <1>4, <2>1, <2>2 DEF SeekOk
  <2>4. new.pc = "write" /\ new.id = th[t].id /\ new.sent = th[t].sent
    BY <1>0, <2>2 DEF Thread
  <2> QED BY <1>1, <1>2, <2>3, <2>4
<1>5. CASE SeekFull(t) \/ RotateStep(t)
  <2>1. Goto(t, "rotate") \/ Goto(t, "active")
    BY <1>5 DEF SeekFull, RotateStep, Rotate, RotateFails
  <2> QED BY <1>1, <1>2, <2>1, GotoType
<1> QED BY <1>3, <1>4, <1>5

\* It keeps the order.
LEMMA WayOrder ==
    ASSUME SoleWriter, Known, [Next]_vars, NEW t \in Threads,
           GetActiveFile(t) \/ SeekFull(t) \/ SeekOk(t) \/ RotateStep(t)
    PROVE  OrderInv'
<1>0. /\ WriteInv /\ Keeps /\ WriteInv' /\ Grows /\ CallsKept /\ StoredOnce
      /\ \A u \in Threads : u = t
      /\ Recoverable' => Recoverable
  BY BaseInvStep, LossStays DEF Known, OrderInv, FullInv, BaseInv, Keeps, SoleWriter
<1>1. /\ data' = data /\ wr' = wr /\ keydir' = keydir /\ phase' = phase
      /\ th[t].pc \in {"active", "lock", "rotate"} /\ th[t].sent = 0
      /\ th'[t].pc \in {"active", "lock", "rotate", "write"}
      /\ th'[t].id = th[t].id /\ th'[t].sent = th[t].sent
  BY <1>0, OnTheWay
<1>2. CallOK(t)'
  <2>1. wr[th[t].id].status = "pending" /\ NoCells(th[t].id)
    BY <1>1 DEF Known, OrderInv, CallOK
  <2>2. PICK id : id = th[t].id
    OBVIOUS
  <2>3. NoCells(id)'
    BY <1>1, <2>1, <2>2 DEF NoCells
  <2> QED BY <1>1, <2>1, <2>2, <2>3 DEF CallOK, NoCells
<1>3. StoredOnce'
  <2>1. ASSUME NEW id \in 1 .. Len(wr), wr[id].status = "ok"
        PROVE  \E f \in FileId, p \in Nat : Whole(f, p, id)'
    BY <1>0, <2>1, StillStored
  <2> QED BY <1>0, <1>1, <2>1 DEF StoredOnce
<1>4. ASSUME Running', Recoverable' PROVE InOrder'
  <2>1. InOrder
    BY <1>0, <1>1, <1>4 DEF Known, OrderInv, Running
  <2>2. ASSUME NEW id \in 1 .. Len(wr), Tracked(id)' PROVE Tracked(id)
    BY <1>0, <1>1, <2>2 DEF Tracked
  <2> QED BY <1>0, <1>1, <2>1, <2>2, OrderKept, WholeSame
<1> QED BY <1>0, <1>2, <1>3, <1>4 DEF OrderInv

\* safe_writev.
LEMMA AppendOrder ==
    ASSUME SoleWriter, Known, [Next]_vars, NEW t \in Threads, NEW n \in Nat, Appends(t, n)
    PROVE  OrderInv'
<1>0. /\ WriteInv /\ LogInv /\ Keeps /\ WriteInv' /\ Grows /\ CallsKept /\ StoredOnce
      /\ wr \in Seq(Call) /\ \A u \in Threads : u = t
      /\ Recoverable' => Recoverable
  BY BaseInvStep, BaseTypes, LossStays DEF Known, OrderInv, FullInv, BaseInv, Keeps, SoleWriter
<1>1. PICK f, p, s, own, z : /\ f = th[t].file /\ p = th[t].pos /\ s = th[t].sent /\ own = th[t].id
                             /\ Extended(f, p, s, own, z, n) /\ (n = Unsent(t) <=> s + n = z)
  BY <1>0, AppendShape
<1>2. /\ own \in 1 .. Len(wr) /\ s \in Nat /\ p \in Nat /\ z \in Nat /\ n > 0
      /\ Size(own)' = z /\ Len(data'[f]) = p + (s + n)
  BY <1>1 DEF Extended, Appends
<1>3. /\ active' = active /\ phase' = phase /\ keydir' = keydir /\ wr' = wr
      /\ th[t].pc = "write" /\ th'[t].id = own /\ th'[t].file = f /\ th'[t].pos = p
      /\ \/ th'[t].pc = "write" /\ th'[t].sent = s + n
         \/ th'[t].pc = "find" /\ n = Unsent(t)
         \/ th'[t].pc = "spin" /\ wr[own].vsize = 0
  BY <1>1 DEF Appends
<1>4. wr[own].status = "pending" /\ f = active
  BY <1>0, <1>1, <1>3 DEF Known, OrderInv, CallOK, LogInv, LogLocks, InFile
<1>5. CallOK(t)'
  <2>1. wr'[th'[t].id].status = "pending" /\ th'[t].pc # "upsert"
    BY <1>3, <1>4
  <2>2. th'[t].pc = "write" => th'[t].sent # 0
    BY <1>2, <1>3
  <2>3. th'[t].pc \in {"find", "upsert"} =>
           th'[t].file = active' /\ p + Size(own)' = Len(data'[f])
    BY <1>1, <1>2, <1>3, <1>4
  <2>4. th'[t].pc \in {"find", "upsert"} =>
           th'[t].file = active' /\ th'[t].pos + Size(th[t].id)' = Len(data'[th'[t].file])
    BY <1>3, <2>3 DEF Size
  <2> QED BY <1>3, <2>1, <2>2, <2>4 DEF CallOK
<1>6. StoredOnce'
  <2>1. ASSUME NEW id \in 1 .. Len(wr), wr[id].status = "ok"
        PROVE  \E g \in FileId, q \in Nat : Whole(g, q, id)'
    BY <1>0, <2>1, StillStored
  <2> QED BY <1>0, <1>3, <2>1 DEF StoredOnce
<1>7. ASSUME Running', Recoverable' PROVE InOrder'
  <2>1. InOrder
    BY <1>0, <1>3, <1>7 DEF Known, OrderInv, Running
  <2>2. ASSUME NEW id \in 1 .. Len(wr), Tracked(id)' PROVE Tracked(id) /\ id # own
    <3>1. th'[t].pc # "idle"
      BY <1>3
    <3> QED BY <1>0, <1>1, <1>3, <1>4, <2>2, <3>1 DEF Tracked
  <2>3. ASSUME NEW id \in 1 .. Len(wr), NEW g \in FileId, NEW q \in Nat,
               Tracked(id)', Whole(g, q, id)'
        PROVE  Tracked(id) /\ Whole(g, q, id)
    BY <1>0, <1>1, <2>2, <2>3, WholeBefore
  <2> QED BY <1>0, <1>3, <2>1, <2>3, OrderKept
<1> QED BY <1>0, <1>5, <1>6, <1>7 DEF OrderInv

\* ccask_keydir_upsert looks the key up.
LEMMA FindOrder ==
    ASSUME SoleWriter, Known, [Next]_vars, NEW t \in Threads, Find(t)
    PROVE  OrderInv'
<1>0. /\ WriteInv /\ Keeps /\ WriteInv' /\ Grows /\ CallsKept /\ StoredOnce
      /\ th \in [Threads -> Thread] /\ th[t] \in Thread /\ \A u \in Threads : u = t
      /\ Recoverable' => Recoverable
  BY BaseInvStep, BaseTypes, LossStays DEF Known, OrderInv, FullInv, BaseInv, Keeps, SoleWriter
<1>1. /\ data' = data /\ wr' = wr /\ keydir' = keydir /\ phase' = phase /\ active' = active
      /\ th[t].pc = "find"
  BY DEF Find, At, diskVars
<1>2. PICK q : q = Len(keydir[wr[th[t].id].key])
  OBVIOUS
<1>3. /\ th'[t].pc = "upsert" /\ th'[t].node = q /\ th'[t].id = th[t].id
      /\ th'[t].file = th[t].file /\ th'[t].pos = th[t].pos
  <2>1. PICK new : new = [th[t] EXCEPT !.node = q, !.pc = "upsert"]
    OBVIOUS
  <2>2. th'[t] = new
    BY <1>0, <1>2, <2>1 DEF Find
  <2>3. /\ new.pc = "upsert" /\ new.node = q /\ new.id = th[t].id
        /\ new.file = th[t].file /\ new.pos = th[t].pos
    BY <1>0, <2>1 DEF Thread
  <2> QED BY <2>2, <2>3
<1>4. CallOK(t)'
  <2>1. /\ wr[th[t].id].status = "pending" /\ th[t].file = active
        /\ th[t].pos + Size(th[t].id) = Len(data[th[t].file])
    BY <1>1 DEF Known, OrderInv, CallOK
  <2>2. /\ wr'[th'[t].id].status = "pending" /\ th'[t].file = active'
        /\ th'[t].pos + Size(th[t].id)' = Len(data'[th'[t].file])
        /\ th'[t].node = Len(keydir'[wr'[th'[t].id].key])
    BY <1>1, <1>2, <1>3, <2>1 DEF Size
  <2> QED BY <1>3, <2>2 DEF CallOK
<1>5. StoredOnce'
  <2>1. ASSUME NEW id \in 1 .. Len(wr), wr[id].status = "ok"
        PROVE  \E f \in FileId, p \in Nat : Whole(f, p, id)'
    BY <1>0, <2>1, StillStored
  <2> QED BY <1>0, <1>1, <2>1 DEF StoredOnce
<1>6. ASSUME Running', Recoverable' PROVE InOrder'
  <2>1. InOrder
    BY <1>0, <1>1, <1>6 DEF Known, OrderInv, Running
  <2>2. ASSUME NEW id \in 1 .. Len(wr), Tracked(id)' PROVE Tracked(id)
    BY <1>0, <1>1, <1>3, <2>2 DEF Tracked
  <2> QED BY <1>0, <1>1, <2>1, <2>2, OrderKept, WholeSame
<1> QED BY <1>0, <1>4, <1>5, <1>6 DEF OrderInv

\* A call fails: nothing of it is on disk, unless it was the upsert that failed.
LEMMA FailOrder ==
    ASSUME SoleWriter, Known, [Next]_vars, NEW t \in Threads,
           SeekFails(t) \/ WriteFails(t) \/ UpsertNoMemory(t)
    PROVE  OrderInv'
<1>0. /\ BaseInv /\ ShapeInv /\ LogInv /\ WriteInv /\ Keeps /\ WriteInv' /\ Grows /\ CallsKept
      /\ StoredOnce /\ ~CanTear
      /\ \A u \in Threads : u = t
      /\ Recoverable' => Recoverable
  BY BaseInvStep, LossStays DEF Known, OrderInv, FullInv, BaseInv, Keeps, SoleWriter
<1>1. /\ data' = data /\ keydir' = keydir /\ phase' = phase /\ th[t].pc # "idle" /\ Finish(t, "fail")
  BY DEF SeekFails, WriteFails, UpsertNoMemory, At, diskVars
<1>2. PICK own : own = th[t].id
  OBVIOUS
<1>3. /\ own \in 1 .. Len(wr) /\ Len(wr') = Len(wr) /\ th'[t].pc = "idle" /\ wr'[own].status = "fail"
      /\ \A i \in 1 .. Len(wr) : i # own => wr'[i].status = wr[i].status
  BY <1>0, <1>1, <1>2, EndedCall DEF Writing
<1>4. "nomem" \notin Faults => NoCells(own)
  <2>1. CASE SeekFails(t)
    <3>1. th[t].pc = "lock" /\ th[t].sent = 0
      BY <1>0, <2>1, ThreadType DEF SeekFails, At, ThreadOK
    <3> QED BY <1>2, <3>1 DEF Known, OrderInv, CallOK
  <2>2. CASE WriteFails(t)
    <3>1. th[t].pc = "write" /\ th[t].sent \in Nat
      BY <1>0, <2>2, ThreadType DEF WriteFails, At
    <3>2. ~ \E n \in Nat : Appends(t, n)
      BY <1>3 DEF Appends
    <3>3. phase' # "off"
      BY <1>0, <1>1 DEF LogInv, LogLocks
    <3>4. ~(th[t].sent > 0)
      BY <1>0, <1>3, <3>1, <3>2, <3>3, WriterGoesOn
    <3>5. th[t].sent = 0
      BY <3>1, <3>4
    <3> QED BY <1>2, <3>1, <3>5 DEF Known, OrderInv, CallOK
  <2>3. CASE UpsertNoMemory(t)
    BY <2>3 DEF UpsertNoMemory
  <2> QED BY <2>1, <2>2, <2>3
<1>5. CallOK(t)'
  BY <1>3 DEF CallOK
<1>6. StoredOnce'
  <2>1. ASSUME NEW id \in 1 .. Len(wr), wr'[id].status = "ok"
        PROVE  \E f \in FileId, p \in Nat : Whole(f, p, id)'
    BY <1>0, <1>3, <2>1, StillStored
  <2> QED BY <1>0, <1>1, <1>3, <2>1 DEF StoredOnce
<1>7. ASSUME Running', Recoverable' PROVE InOrder'
  <2>1. InOrder
    BY <1>0, <1>1, <1>7 DEF Known, OrderInv, Running
  <2>2. ASSUME NEW id \in 1 .. Len(wr), Tracked(id)', id # own PROVE Tracked(id)
    BY <1>0, <1>2, <1>3, <2>2 DEF Tracked
  <2>3. Tracked(own)' => NoCells(own)
    BY <1>3, <1>4 DEF Tracked
  <2>4. ASSUME NEW id \in 1 .. Len(wr), NEW f \in FileId, NEW p \in Nat,
               Tracked(id)', Whole(f, p, id)'
        PROVE  Tracked(id) /\ Whole(f, p, id)
    <3>1. Whole(f, p, id)
      BY <1>0, <1>1, <2>4, WholeSame
    <3>2. id # own
      BY <1>0, <2>3, <2>4, <3>1, NotWhole
    <3> QED BY <2>2, <2>4, <3>1, <3>2
  <2> QED BY <1>0, <1>1, <1>3, <2>1, <2>4, OrderKept
<1> QED BY <1>0, <1>5, <1>6, <1>7 DEF OrderInv

\* A sequence of one element.
LEMMA OneElement ==
    ASSUME NEW S, NEW e \in S
    PROVE  <<e>> \in Seq(S) /\ Len(<<e>>) = 1 /\ <<e>>[1] = e /\ <<e>> # <<>>
OBVIOUS

\* ccask_keydir_upsert replaces the entry it found, or adds the first one of the key: the
\* key then has the one entry that leads to the record just written.
LEMMA UpsertSets ==
    ASSUME Known, NEW t \in Threads, Upsert(t)
    PROVE  \E own, k, e :
              /\ own = th[t].id /\ k = wr[own].key /\ e = NewEntry(t) /\ k \in Keys /\ e \in Entry
              /\ keydir'[k] = <<e>> /\ \A j \in Keys \ {k} : keydir'[j] = keydir[j]
<1>0. WriteInv /\ keydir \in [Keys -> Seq(Entry)] /\ th[t].pc = "upsert"
  BY BaseTypes DEF Known, FullInv, BaseInv, Upsert, At
<1>1. PICK own, k, e : own = th[t].id /\ k = wr[own].key /\ e = NewEntry(t)
  OBVIOUS
<1>2. /\ k \in Keys /\ e \in Entry
      /\ th[t].node = 0 => keydir' = [keydir EXCEPT ![k] = Append(@, e)]
      /\ th[t].node # 0 => keydir' = [keydir EXCEPT ![k] = [keydir[k] EXCEPT ![th[t].node] = e]]
  BY <1>0, <1>1, UpsertEntries
<1>3. th[t].node = Len(keydir[k]) /\ Len(keydir[k]) <= 1
  BY <1>0, <1>1, <1>2 DEF Known, OrderInv, CallOK, StoredOnce
<1>4. PICK s \in Seq(Entry) : s = keydir[k]
  BY <1>0, <1>2
<1>5. Len(s) \in Nat /\ (Len(s) = 0 \/ Len(s) = 1)
  <2>1. PICK n \in Nat : n = Len(s)
    BY LenProperties
  <2>2. n <= 1
    BY <1>3, <1>4, <2>1
  <2> QED BY <2>1, <2>2
<1>6. CASE Len(s) = 0
  <2>1. s = <<>>
    BY <1>6
  <2>2. Append(s, e) = <<e>>
    BY <2>1
  <2>3. keydir' = [keydir EXCEPT ![k] = Append(s, e)]
    BY <1>2, <1>3, <1>4, <1>6
  <2> QED BY <1>0, <1>1, <1>2, <2>2, <2>3, SMTT(30)
<1>7. CASE Len(s) = 1
  <2>1. [s EXCEPT ![1] = e] = <<e>>
    <3>1. PICK r : r = [s EXCEPT ![1] = e]
      OBVIOUS
    <3>2. r \in Seq(Entry) /\ Len(r) = 1 /\ r[1] = e
      <4>1. 1 \in 1 .. Len(s) /\ e \in Entry
        BY <1>2, <1>7
      <4>2. PICK i : i = 1 /\ i \in 1 .. Len(s)
        BY <4>1
      <4>3. /\ [s EXCEPT ![i] = e] \in Seq(Entry) /\ Len([s EXCEPT ![i] = e]) = Len(s)
            /\ [s EXCEPT ![i] = e][i] = e
        BY <4>1, <4>2, ExceptSeq
      <4> QED BY <1>7, <3>1, <4>2, <4>3
    <3>3. <<e>> \in Seq(Entry) /\ Len(<<e>>) = 1 /\ <<e>>[1] = e
      BY <1>2, OneElement
    <3>4. \A i \in 1 .. Len(r) : r[i] = <<e>>[i]
      BY <3>2, <3>3
    <3> QED BY <3>1, <3>2, <3>3, <3>4, SeqEqual
  <2>2. keydir' = [keydir EXCEPT ![k] = [s EXCEPT ![1] = e]]
    BY <1>2, <1>3, <1>4, <1>7
  <2> QED BY <1>0, <1>1, <1>2, <2>1, <2>2, SMTT(30)
<1> QED BY <1>5, <1>6, <1>7

\* The record of a call at its upsert is the last whole one of the log.
LEMMA OwnIsLast ==
    ASSUME Known, NEW t \in Threads, th[t].pc = "upsert",
           NEW id \in 1 .. Len(wr), NEW f \in FileId, NEW p \in Nat, Whole(f, p, id)
    PROVE  NotAfter(f, p, th[t].file, th[t].pos)
<1>0. WriteInv /\ wr \in Seq(Call) /\ active \in Nat /\ f \in Nat /\ ShapeInv /\ Len(data[f]) \in Nat
  BY BaseTypes DEF Known, FullInv, BaseInv
<1>1. PICK own, g, q : own = th[t].id /\ g = th[t].file /\ q = th[t].pos
  OBVIOUS
<1>2. /\ own \in 1 .. Len(wr) /\ q \in Nat /\ Whole(g, q, own)
  BY <1>0, <1>1, ThreadType DEF ThreadOK
<1>3. g = active /\ q + Size(own) = Len(data[g])
  BY <1>1 DEF Known, OrderInv, CallOK
<1>4. PICK z \in Nat : z = Size(own)
  BY <1>0, <1>2, CallSize
<1>5. /\ p + 1 \in 1 .. Len(data[f]) /\ data[f][p + 1] = [id |-> id, part |-> 1]
      /\ p < Len(data[f])
  BY <1>0, WholeHeader
<1>6. f <= active
  <2>1. data[f] # <<>>
    BY <1>0, <1>5
  <2>2. ~(f > active)
    BY <2>1, <1>0 DEF ShapeInv
  <2> QED BY <1>0, <2>2
<1>7. ASSUME f = g, p > q PROVE FALSE
  <2>1. PICK j : j = (p + 1) - q
    OBVIOUS
  <2>2. p < q + z
    BY <1>3, <1>4, <1>5, <1>7
  <2>3. j \in 1 .. z /\ q + j = p + 1 /\ j # 1
    BY <1>2, <1>7, <2>1, <2>2
  <2>4. data[f][p + 1] = [id |-> own, part |-> j]
    BY <1>2, <1>4, <1>7, <2>3 DEF Whole
  <2>5. PICK c : c = data[f][p + 1]
    OBVIOUS
  <2>6. c.part = 1 /\ c.part = j
    BY <1>5, <2>4, <2>5
  <2> QED BY <2>3, <2>6
<1> QED BY <1>0, <1>1, <1>2, <1>3, <1>6, <1>7 DEF NotAfter

\* The upsert keeps the order.
LEMMA UpsertOrder ==
    ASSUME SoleWriter, Known, [Next]_vars, NEW t \in Threads, Upsert(t)
    PROVE  OrderInv'
<1>0. /\ WriteInv /\ Keeps /\ WriteInv' /\ Grows /\ CallsKept /\ StoredOnce
      /\ \A u \in Threads : u = t
      /\ Recoverable' => Recoverable
  BY BaseInvStep, LossStays DEF Known, OrderInv, FullInv, BaseInv, Keeps, SoleWriter
<1>1. /\ data' = data /\ phase' = phase /\ th[t].pc = "upsert" /\ Finish(t, "ok")
  BY DEF Upsert, At, diskVars
<1>2. PICK own, k, e :
         /\ own = th[t].id /\ k = wr[own].key /\ e = NewEntry(t) /\ k \in Keys /\ e \in Entry
         /\ keydir'[k] = <<e>> /\ \A j \in Keys \ {k} : keydir'[j] = keydir[j]
  BY UpsertSets
<1>3. e.file = th[t].file /\ e.pos = th[t].pos
  BY <1>2 DEF NewEntry
<1>4. /\ own \in 1 .. Len(wr) /\ Len(wr') = Len(wr) /\ th'[t].pc = "idle"
      /\ \A i \in 1 .. Len(wr) : i # own => wr'[i].status = wr[i].status
  BY <1>0, <1>1, <1>2, EndedCall DEF Writing
<1>5. CallOK(t)'
  BY <1>4 DEF CallOK
<1>6. StoredOnce'
  <2>1. ASSUME NEW id \in 1 .. Len(wr), wr'[id].status = "ok"
        PROVE  \E f \in FileId, p \in Nat : Whole(f, p, id)'
    <3>1. CASE id # own
      BY <1>0, <1>4, <2>1, <3>1, StillStored
    <3>2. CASE id = own
      <4>1. PICK f \in FileId, p \in Nat : Whole(f, p, id)
        BY <1>0, <1>1, <1>2, <3>2, ThreadType DEF ThreadOK
      <4>2. Whole(f, p, id)'
        BY <1>0, <1>1, <4>1, WholeSame
      <4> QED BY <4>2
    <3> QED BY <3>1, <3>2
  <2>2. ASSUME NEW j \in Keys PROVE Len(keydir'[j]) <= 1
    <3>1. CASE j = k
      <4>1. Len(keydir'[j]) = 1
        BY <1>2, <3>1, OneElement
      <4> QED BY <4>1
    <3>2. CASE j # k
      BY <1>0, <1>2, <3>2 DEF StoredOnce
    <3> QED BY <3>1, <3>2
  <2> QED BY <1>4, <2>1, <2>2 DEF StoredOnce
<1>7. ASSUME Running', Recoverable' PROVE InOrder'
  <2>1. InOrder
    BY <1>0, <1>1, <1>7 DEF Known, OrderInv, Running
  <2> SUFFICES ASSUME NEW id \in 1 .. Len(wr), NEW f \in FileId, NEW p \in Nat,
                      Tracked(id)', Whole(f, p, id)'
               PROVE  Covered(wr[id].key, f, p)'
    BY <1>4 DEF InOrder
  <2>2. Whole(f, p, id)
    BY <1>0, <1>1, WholeSame
  <2>3. PICK j : j = wr[id].key /\ wr'[id].key = j
    BY <1>0 DEF CallsKept
  <2>4. j \in Keys
    BY <1>0, <2>3, BaseTypes, CallSize
  <2>5. Covered(j, f, p)'
    <3>1. CASE j = k
      <4>1. NotAfter(f, p, e.file, e.pos)
        BY <1>1, <1>3, <2>2, OwnIsLast
      <4>2. keydir'[j] # <<>> /\ keydir'[j][Len(keydir'[j])] = e
        <5>1. PICK w : w = <<e>> /\ Len(w) = 1 /\ w[1] = e /\ w # <<>>
          BY <1>2, OneElement
        <5>2. keydir'[j] = w
          BY <1>2, <3>1, <5>1
        <5> QED BY <5>1, <5>2
      <4> QED BY <4>1, <4>2 DEF Covered, Found
    <3>2. CASE j # k
      <4>1. id # own
        BY <1>2, <2>3, <3>2
      <4>2. Tracked(id)
        BY <1>0, <1>2, <1>4, <4>1 DEF Tracked
      <4>3. Covered(j, f, p)
        BY <2>1, <2>2, <2>3, <4>2 DEF InOrder
      <4>4. keydir'[j] = keydir[j]
        BY <1>2, <2>4, <3>2
      <4> QED BY <4>3, <4>4 DEF Covered, Found
    <3> QED BY <3>1, <3>2
  <2> QED BY <2>3, <2>5 DEF Covered, Found
<1> QED BY <1>0, <1>5, <1>6, <1>7 DEF OrderInv

\* ccask_init.
LEMMA RestartOrder ==
    ASSUME SoleWriter, Known, [Next]_vars, Restart
    PROVE  OrderInv'
<1>0. /\ FullInv /\ LogInv /\ ShapeInv /\ WriteInv /\ Keeps /\ WriteInv' /\ Grows /\ CallsKept /\ StoredOnce
      /\ wr \in Seq(Call) /\ 0 \notin ValueSizes
      /\ Recoverable' => Recoverable
  BY BaseInvStep, BaseTypes, LossStays DEF Known, OrderInv, FullInv, BaseInv, Keeps, SoleWriter
<1>1. /\ data' = data /\ wr' = wr /\ th' = th /\ phase = "off"
      /\ \A k \in Keys : keydir'[k] = Recovered(k)
  BY DEF Restart
<1>2. \A t \in Threads : th'[t].pc = "idle"
  BY <1>0, <1>1 DEF LogInv, LogLocks
<1>3. \A t \in Threads : CallOK(t)'
  BY <1>2 DEF CallOK
<1>4. StoredOnce'
  <2>1. ASSUME NEW id \in 1 .. Len(wr), wr[id].status = "ok"
        PROVE  \E f \in FileId, p \in Nat : Whole(f, p, id)'
    BY <1>0, <2>1, StillStored
  <2>2. ASSUME NEW k \in Keys PROVE Len(keydir'[k]) <= 1
    <3>1. Recovered(k) = <<>> \/ \E e : Recovered(k) = <<e>>
      BY <1>0, RecoveredIs
    <3>2. CASE Recovered(k) = <<>>
      BY <1>1, <3>2
    <3>3. ASSUME NEW e, Recovered(k) = <<e>> PROVE Len(keydir'[k]) <= 1
      <4>1. Len(<<e>>) = 1
        OBVIOUS
      <4>2. Len(keydir'[k]) = 1
        BY <1>1, <3>3, <4>1
      <4> QED BY <4>2
    <3> QED BY <3>1, <3>2, <3>3
  <2> QED BY <1>1, <2>1, <2>2 DEF StoredOnce
<1>5. ASSUME Recoverable' PROVE InOrder'
  <2>1. TornLast /\ \A f \in FileId : Source(f) = Scan(data[f])
    BY <1>0, <1>5, RestartCounted
  <2> SUFFICES ASSUME NEW id \in 1 .. Len(wr), NEW f \in FileId, NEW p \in Nat, Whole(f, p, id)'
               PROVE  Covered(wr[id].key, f, p)'
    BY <1>1 DEF InOrder
  <2>2. Whole(f, p, id)
    BY <1>0, <1>1, WholeSame
  <2>3. PICK k : k = wr[id].key /\ k \in Keys
    BY <1>0, CallSize
  <2>4. PICK r \in Entry : Recovered(k) = <<r>> /\ NotAfter(f, p, r.file, r.pos)
    BY <1>0, <2>1, <2>2, <2>3, RecoveredCovers
  <2>5. PICK w : w = <<r>> /\ Len(w) = 1 /\ w[1] = r /\ w # <<>>
    BY OneElement
  <2>6. keydir'[k] = w
    BY <1>1, <2>3, <2>4, <2>5
  <2>7. Covered(k, f, p)'
    BY <2>4, <2>5, <2>6 DEF Covered, Found
  <2> QED BY <1>1, <2>3, <2>7 DEF Covered, Found
<1> QED BY <1>3, <1>4, <1>5 DEF OrderInv

\* The end of a process leaves no index to be in order.
LEMMA EndOrder ==
    ASSUME SoleWriter, Known, [Next]_vars, StopWriter \/ Exit \/ Crash
    PROVE  OrderInv'
<1>0. /\ WriteInv /\ Keeps /\ WriteInv' /\ Grows /\ CallsKept /\ StoredOnce
  BY BaseInvStep DEF Known, OrderInv, FullInv, BaseInv, Keeps
<1>1. /\ data' = data /\ wr' = wr /\ phase' \in {"down", "off"}
      /\ \A t \in Threads : th'[t].pc = "idle"
      /\ \A k \in Keys : keydir'[k] = <<>>
  BY DEF StopWriter, Exit, Crash, PowerOff, Forget, Idle, At, diskVars
<1>2. \A t \in Threads : CallOK(t)'
  BY <1>1 DEF CallOK
<1>3. StoredOnce'
  <2>1. ASSUME NEW id \in 1 .. Len(wr), wr[id].status = "ok"
        PROVE  \E f \in FileId, p \in Nat : Whole(f, p, id)'
    BY <1>0, <2>1, StillStored
  <2> QED BY <1>1, <2>1 DEF StoredOnce
<1>4. ~Running'
  BY <1>1 DEF Running
<1> QED BY <1>2, <1>3, <1>4 DEF OrderInv

\* A step that leaves the log, the index and the threads alone.
LEMMA QuietOrder ==
    ASSUME SoleWriter, Known, [Next]_vars, UNCHANGED <<data, active, wr, keydir, th>>,
           Running' => Running
    PROVE  OrderInv'
<1>0. /\ CallsKept /\ StoredOnce /\ (Recoverable' => Recoverable)
  BY BaseInvStep, LossStays DEF Known, OrderInv, FullInv, BaseInv, Keeps
<1>1. data' = data /\ active' = active /\ wr' = wr /\ keydir' = keydir /\ th' = th
  OBVIOUS
<1>2. ASSUME NEW t \in Threads PROVE CallOK(t)'
  <2>1. CallOK(t)
    BY DEF Known, OrderInv
  <2>2. NoCells(th[t].id) => NoCells(th[t].id)'
    BY <1>1 DEF NoCells
  <2>3. Size(th[t].id)' = Size(th[t].id)
    BY <1>1 DEF Size
  <2> QED BY <1>1, <2>1, <2>2, <2>3 DEF CallOK
<1>3. StoredOnce'
  BY <1>0, <1>1, WholeSame DEF StoredOnce
<1>4. ASSUME Running', Recoverable' PROVE InOrder'
  <2>1. InOrder
    BY <1>0, <1>4 DEF Known, OrderInv
  <2>2. ASSUME NEW id \in 1 .. Len(wr), Tracked(id)' PROVE Tracked(id)
    BY <1>1, <2>2 DEF Tracked
  <2> QED BY <1>0, <1>1, <2>1, <2>2, OrderKept, WholeSame
<1> QED BY <1>2, <1>3, <1>4 DEF OrderInv

\* Every step keeps the order.
LEMMA OrderStep ==
    ASSUME SoleWriter, Known, [Next]_vars
    PROVE  OrderInv'
<1> USE DEF diskVars, fileVars, hintVars, counterVars
<1>0. WriteInv
  BY DEF Known, FullInv, BaseInv
<1>1. ASSUME NEW t \in Threads, ThreadStep(t) PROVE OrderInv'
  <2>1. CASE GetActiveFile(t) \/ SeekFull(t) \/ SeekOk(t) \/ RotateStep(t)
    BY <2>1, WayOrder
  <2>2. CASE SeekFails(t) \/ WriteFails(t) \/ UpsertNoMemory(t)
    BY <2>2, FailOrder
  <2>3. CASE WritePart(t) \/ WriteRest(t) \/ WriteSpins(t)
    BY <1>0, <2>3, WritesAppend, AppendOrder
  <2>4. CASE Find(t)
    BY <2>4, FindOrder
  <2>5. CASE Upsert(t)
    BY <2>5, UpsertOrder
  <2> QED BY <1>1, <2>1, <2>2, <2>3, <2>4, <2>5 DEF ThreadStep, SeekStep, WriteStep, UpsertStep
<1>2. ASSUME NEW t \in Threads, NEW k \in Keys, NEW v \in ValueSizes, Begin(t, k, v) PROVE OrderInv'
  BY <1>2, BeginOrder
<1>3. CASE StopWriter \/ Exit \/ Crash
  BY <1>3, EndOrder
<1>4. CASE Restart
  BY <1>4, RestartOrder
<1>5. CASE UNCHANGED <<data, active, wr, keydir, th>> /\ (Running' => Running)
  BY <1>5, QuietOrder
<1>6. CASE \E c \in Callers : ListKeys(c) \/ IterClose(c)
  BY <1>5, <1>6 DEF ListKeys, IterClose, Running
<1>7. CASE \E f \in FileId : HintStep(f)
  BY <1>5, <1>7 DEF HintStep, HintOpen, HintOpenFails, HintWrite, HintFails, HintDone,
                    HintReadFails, hintUnchanged, Running
<1>8. CASE ShutdownBegin \/ JoinHints
  BY <1>5, <1>8 DEF ShutdownBegin, JoinHints, Running
<1>9. CASE UNCHANGED vars
  BY <1>5, <1>9 DEF vars, Running
<1> QED BY <1>1, <1>2, <1>3, <1>4, <1>6, <1>7, <1>8, <1>9 DEF Next

\* With a sole writer the index is in the order of the log in every reachable state in
\* which nothing keeps recovery from reading the log.
THEOREM OrderInvariant ==
    ASSUME SoleWriter
    PROVE  SafeSpec => []Known
<1>1. Init => OrderInv
  <2> SUFFICES ASSUME Init PROVE OrderInv
    OBVIOUS
  <2>1. wr = <<>> /\ Len(wr) = 0 /\ \A t \in Threads : th[t].pc = "idle"
    BY DEF Init, Idle
  <2>2. \A k \in Keys : Len(keydir[k]) <= 1
    BY DEF Init
  <2>3. InOrder
    BY <2>1 DEF InOrder
  <2> QED BY <2>1, <2>2, <2>3 DEF OrderInv, CallOK, StoredOnce
<1>2. OrderInv /\ (FullInv /\ IndexInv) /\ [Next]_vars => OrderInv'
  BY OrderStep DEF Known
<1>3. SafeSpec => []OrderInv
  BY <1>1, <1>2, FullInvariant, PTL DEF SafeSpec
<1>4. FullInv /\ IndexInv /\ OrderInv => Known
  BY DEF Known
<1> QED BY <1>3, <1>4, FullInvariant, PTL

\* A record that the store can recover is one that was not torn.
LEMMA CanRecover ==
    ASSUME ~CanTear, HintsComplete, TornLast \/ NotReadBack
    PROVE  Recoverable
BY DEF Recoverable

\* Recovery finds everything: with a sole writer, whatever fails besides a write after a
\* short one, after every crash and every restart the index is sound and has every write
\* that returned CCASK_OK, as long as no hintfile has been cut short and the log has not
\* been read across a torn record.
THEOREM RecoveryIsSound ==
    ASSUME SoleWriter
    PROVE  SafeSpec => []RecoverySound
<1>1. Known => RecoverySound
  <2> SUFFICES ASSUME Known, HintsComplete, TornLast \/ NotReadBack
               PROVE  KeydirSound /\ NoLostWrite
    BY DEF RecoverySound
  <2>1. Recoverable
    BY CanRecover DEF SoleWriter
  <2>2. IndexLeads /\ WriteInv /\ wr \in Seq(Call) /\ keydir \in [Keys -> Seq(Entry)]
    BY <2>1, BaseTypes DEF Known, IndexInv, FullInv, BaseInv
  <2>3. KeydirSound
    BY <2>2, IndexIsSound
  <2> SUFFICES ASSUME Running, NEW id \in 1 .. Len(wr), wr[id].status = "ok"
               PROVE  LET k == wr[id].key IN
                      /\ keydir[k] # <<>>
                      /\ LeadsToRecord(k, Found(k))
                      /\ \A f \in 0 .. active : \A p \in 0 .. Len(data[f]) :
                            Whole(f, p, id) => \/ Found(k).file > f
                                               \/ Found(k).file = f /\ Found(k).pos >= p
    BY <2>3 DEF NoLostWrite
  <2>4. PICK k : k = wr[id].key /\ k \in Keys
    BY <2>2, CallSize
  <2>5. InOrder /\ Tracked(id)
    BY <2>1 DEF Known, OrderInv, Tracked
  <2>6. PICK g \in FileId, q \in Nat : Whole(g, q, id)
    BY DEF Known, OrderInv, StoredOnce
  <2>7. keydir[k] # <<>>
    BY <2>4, <2>5, <2>6 DEF InOrder, Covered
  <2>8. PICK s \in Seq(Entry) : s = keydir[k] /\ Len(s) \in DOMAIN s
    <3>1. PICK s \in Seq(Entry) : s = keydir[k]
      BY <2>2, <2>4
    <3>2. Len(s) \in Nat /\ DOMAIN s = 1 .. Len(s) /\ Len(s) # 0
      BY <2>7, <3>1, EmptySeq, LenProperties
    <3> QED BY <3>1, <3>2
  <2>9. LeadsToRecord(k, Found(k)) /\ Found(k) \in Entry
    BY <2>2, <2>4, <2>8 DEF IndexLeads, Found
  <2>10. ASSUME NEW f \in 0 .. active, NEW p \in 0 .. Len(data[f]), Whole(f, p, id)
         PROVE  Found(k).file > f \/ (Found(k).file = f /\ Found(k).pos >= p)
    <3>1. f \in FileId /\ f \in Nat /\ p \in Nat
      BY <2>2, BaseTypes
    <3>2. NotAfter(f, p, Found(k).file, Found(k).pos)
      BY <2>4, <2>5, <2>10, <3>1 DEF InOrder, Covered
    <3>3. Found(k).file \in Nat /\ Found(k).pos \in Nat
      BY <2>9 DEF Entry, FileId
    <3> QED BY <3>1, <3>2, <3>3 DEF NotAfter
  <2> QED BY <2>4, <2>7, <2>9, <2>10
<1> QED BY <1>1, OrderInvariant, PTL

\* An entry that leads to a record, and one of the same record, are the same.
LEMMA SameEntry ==
    ASSUME WriteInv, NEW k, NEW e \in Entry, NEW r \in Entry, LeadsToRecord(k, e), LeadsToRecord(k, r),
           NotAfter(e.file, e.pos, r.file, r.pos), NotAfter(r.file, r.pos, e.file, e.pos)
    PROVE  e = r
<1>0. /\ e.file \in FileId /\ e.pos \in Nat /\ r.file \in FileId /\ r.pos \in Nat
      /\ e.file \in Nat /\ r.file \in Nat
  BY DEF Entry, FileId
<1>1. e.file = r.file /\ e.pos = r.pos
  BY <1>0 DEF NotAfter
<1>2. PICK id \in 1 .. Len(wr) : wr[id].vsize = e.vsize /\ Whole(e.file, e.pos, id)
  BY DEF LeadsToRecord
<1>3. PICK x \in 1 .. Len(wr) : wr[x].vsize = r.vsize /\ Whole(e.file, e.pos, x)
  BY <1>1 DEF LeadsToRecord
<1>4. PICK c : c = data[e.file][e.pos + 1]
  OBVIOUS
<1>5. c = [id |-> id, part |-> 1] /\ c = [id |-> x, part |-> 1]
  BY <1>0, <1>2, <1>3, <1>4, WholeHeader
<1>6. c.id = id /\ c.id = x
  BY <1>5
<1>7. e.vsize = r.vsize
  BY <1>2, <1>3, <1>6
<1> QED BY <1>1, <1>7 DEF Entry

\* A whole record of an entry's key, where the entry leads.
LEMMA LeadsToKey ==
    ASSUME NEW k, NEW e \in Entry, LeadsToRecord(k, e)
    PROVE  \E id \in 1 .. Len(wr), f \in FileId, p \in Nat :
              wr[id].key = k /\ f = e.file /\ p = e.pos /\ Whole(f, p, id)
BY DEF LeadsToRecord, Entry

\* Starting again would rebuild the index that is in memory: with a sole writer and no
\* upsert that fails for want of memory, whenever nobody is writing, no hint thread is
\* running, no hintfile has been cut short and nothing follows a torn record.
THEOREM RestartPreserves ==
    ASSUME SoleWriter, "nomem" \notin Faults
    PROVE  SafeSpec => []RestartPreservesIndex
<1>1. Known => RestartPreservesIndex
  <2> SUFFICES ASSUME Known, HintsComplete, TornLast, phase = "up",
                      \A t \in Threads : At(t, "idle"), \A f \in FileId : ~HintRunning(f),
                      NEW k \in Keys
               PROVE  Recovered(k) = keydir[k]
    BY DEF RestartPreservesIndex
  <2>1. Recoverable
    BY CanRecover DEF SoleWriter
  <2>2. /\ IndexLeads /\ WriteInv /\ ShapeInv /\ Contig /\ keydir \in [Keys -> Seq(Entry)]
        /\ 0 \notin ValueSizes
    BY <2>1, BaseTypes DEF Known, IndexInv, FullInv, BaseInv, ShapeInv, SoleWriter
  <2>3. InOrder /\ \A id \in 1 .. Len(wr) : Tracked(id)
    BY <2>1 DEF Known, OrderInv, Tracked, At, Running
  <2>4. \A f \in FileId : Source(f) = Scan(data[f])
    BY SourceIsScan
  <2>5. ASSUME NEW e \in Entry, LeadsToRecord(k, e)
        PROVE  \E r \in Entry : Recovered(k) = <<r>> /\ NotAfter(e.file, e.pos, r.file, r.pos)
    <3>1. PICK id \in 1 .. Len(wr), f \in FileId, p \in Nat :
             wr[id].key = k /\ f = e.file /\ p = e.pos /\ Whole(f, p, id)
      BY <2>5, LeadsToKey
    <3>2. \E r \in Entry : Recovered(wr[id].key) = <<r>> /\ NotAfter(f, p, r.file, r.pos)
      BY <2>2, <2>4, <3>1, RecoveredCovers
    <3> QED BY <3>1, <3>2
  <2>6. ASSUME NEW r \in Entry, LeadsToRecord(k, r)
        PROVE  Covered(k, r.file, r.pos)
    BY <2>3, <2>6, LeadsToKey DEF InOrder
  <2>7. PICK s \in Seq(Entry) : s = keydir[k]
    BY <2>2
  <2>8. Len(s) = 0 \/ Len(s) = 1
    <3>1. PICK n \in Nat : n = Len(s)
      BY LenProperties
    <3>2. n <= 1
      BY <2>7, <3>1 DEF Known, OrderInv, StoredOnce
    <3> QED BY <3>1, <3>2
  <2>9. Recovered(k) \in Seq(Entry)
    BY <2>2, RecoveredType
  <2>10. CASE Len(s) = 1
    <3>1. PICK e \in Entry : s[1] = e /\ LeadsToRecord(k, e) /\ Found(k) = e
      <4>1. 1 \in DOMAIN s /\ s[1] \in Entry
        BY <2>10, LenProperties
      <4> QED BY <2>2, <2>7, <2>10, <4>1 DEF IndexLeads, Found
    <3>2. PICK r \in Entry : Recovered(k) = <<r>> /\ NotAfter(e.file, e.pos, r.file, r.pos)
      BY <2>5, <3>1
    <3>3. <<r>> \in Seq(Entry) /\ Len(<<r>>) = 1 /\ <<r>>[1] = r
      BY OneElement
    <3>4. LeadsToRecord(k, r)
      <4>1. PICK w : w = Recovered(k) /\ Len(w) = 1 /\ w[1] = r /\ w \in Seq(Entry)
        BY <3>2, <3>3
      <4>2. 1 \in DOMAIN w
        BY <4>1, LenProperties
      <4> QED BY <2>2, <2>4, <4>1, <4>2, RecoveredLeads
    <3>5. NotAfter(r.file, r.pos, e.file, e.pos)
      BY <2>6, <3>1, <3>4 DEF Covered
    <3>6. e = r
      BY <2>2, <3>1, <3>2, <3>4, <3>5, SameEntry
    <3>7. \A i \in 1 .. Len(s) : s[i] = <<r>>[i]
      BY <2>10, <3>1, <3>3, <3>6
    <3>8. s = <<r>>
      BY <2>10, <3>3, <3>7, SeqEqual
    <3> QED BY <2>7, <3>2, <3>8
  <2>11. CASE Len(s) = 0
    <3>1. s = <<>>
      BY <2>11
    <3>2. ASSUME Recovered(k) # <<>> PROVE FALSE
      <4>1. PICK w : w = Recovered(k) /\ w \in Seq(Entry) /\ w # <<>>
        BY <2>9, <3>2
      <4>2. 1 \in DOMAIN w /\ w[1] \in Entry
        <5>1. Len(w) \in Nat \ {0}
          BY <4>1, EmptySeq
        <5> QED BY <4>1, <5>1, LenProperties
      <4>3. LeadsToRecord(k, w[1])
        BY <2>2, <2>4, <4>1, <4>2, RecoveredLeads
      <4>4. PICK r \in Entry : r = w[1]
        BY <4>2
      <4>5. Covered(k, r.file, r.pos)
        BY <2>6, <4>3, <4>4
      <4> QED BY <2>7, <3>1, <4>5 DEF Covered
    <3> QED BY <2>7, <3>1, <3>2
  <2> QED BY <2>8, <2>10, <2>11
<1> QED BY <1>1, OrderInvariant, PTL

=============================================================================
