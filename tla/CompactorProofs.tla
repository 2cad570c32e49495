-------------------------- MODULE CompactorProofs --------------------------
(***************************************************************************)
(* Theorems about module Compactor, for every set of keys, every size and  *)
(* bound, and every choice of faults.                                      *)
(***************************************************************************)
EXTENDS Compactor, FileListProofs

-----------------------------------------------------------------------------
(* Files and what a scan of them yields *)

Written == [key : Keys, ver : 1 .. MaxPuts]
HintRecord == [key : Keys, n : Nat \ {0}]
File == Seq(Record) \cup {Absent}
HintFile == Seq(HintRecord) \cup {Absent}
ScanRecord == [all : Seq(HintRecord), n : Nat]

\* A file with contents, a pending put and a running scan are told from what is absent.
LEMMA NotAbsent ==
    /\ \A s \in Seq(Record) : s # Absent
    /\ \A s \in Seq(HintRecord) : s # Absent
    /\ Absent \notin [rec : Written, pos : [file : Id, n : Nat \ {0}]]
    /\ Absent \notin ScanRecord
<1>1. Record \subseteq [key : Keys \cup {"torn"}, ver : Nat]
  BY CompactorAssumption DEF Record, Torn
<1>2. HintRecord \subseteq [key : Keys, n : Nat]
  BY DEF HintRecord
<1>3. ASSUME NEW s \in Seq(Record) PROVE s # Absent
  <2>1. PICK T : T = [key : Keys \cup {"torn"}, ver : Nat]
    OBVIOUS
  <2>2. s \in Seq(T)
    BY <1>1, <2>1, SeqMonotonic
  <2>3. Absent \notin Seq(T)
    BY <2>1, AbsentAssumption, Zenon
  <2> QED BY <2>2, <2>3
<1>4. ASSUME NEW s \in Seq(HintRecord) PROVE s # Absent
  BY <1>2, SeqMonotonic, AbsentAssumption
<1>5. Id \subseteq Nat /\ Written \subseteq [key : Keys, ver : Nat]
  BY CompactorAssumption DEF Id, Written
<1>6. [rec : Written, pos : [file : Id, n : Nat \ {0}]] \subseteq
        [rec : [key : Keys, ver : Nat], pos : [file : Nat, n : Nat]]
  BY <1>5
<1>7. Absent \notin ScanRecord
  <2>1. Seq(HintRecord) \subseteq Seq([key : Keys, n : Nat])
    BY <1>2, SeqMonotonic
  <2>2. ScanRecord \subseteq [all : Seq([key : Keys, n : Nat]), n : Nat]
    <3>1. PICK A, B : A = Seq(HintRecord) /\ B = Seq([key : Keys, n : Nat]) /\ A \subseteq B
      BY <2>1
    <3>2. [all : A, n : Nat] \subseteq [all : B, n : Nat]
      BY <3>1
    <3> QED BY <3>1, <3>2, Zenon DEF ScanRecord
  <2> QED BY <2>2, AbsentAssumption, Zenon
<1> QED BY <1>3, <1>4, <1>6, <1>7, AbsentAssumption

\* A record that is not torn was written.
LEMMA WholeRecord ==
    /\ \A r \in Record : r # Torn => r \in Written
    /\ Written \subseteq Record /\ Torn \in Record
    /\ \A r \in Written : r # Torn
    /\ Torn.key \notin Keys
BY CompactorAssumption DEF Record, Written, Torn

\* The greatest and the least element of a bounded, non-empty set of naturals.
LEMMA MaxIs ==
    ASSUME NEW S \in SUBSET Nat, S # {}, NEW b \in Nat, \A s \in S : s <= b
    PROVE  Max(S) \in S /\ \A s \in S : s <= Max(S)
<1>1. PICK m \in S : \A n \in S : n <= m
  BY GreatestNat
<1>2. \E x \in S : \A y \in S : x >= y
  BY <1>1
<1>3. PICK x : x = Max(S)
  OBVIOUS
<1>4. x \in S /\ \A y \in S : x >= y
  BY <1>2, <1>3, Zenon DEF Max
<1> QED BY <1>3, <1>4

\* The least one, which needs no bound.
LEMMA MinIs ==
    ASSUME NEW S \in SUBSET Nat, S # {}
    PROVE  Min(S) \in S /\ \A s \in S : Min(S) <= s
<1>1. PICK m \in S : \A n \in S : m <= n
  BY LeastNat
<1>2. PICK x : x = Min(S)
  OBVIOUS
<1>3. x \in S /\ \A y \in S : x =< y
  BY <1>1, <1>2, Zenon DEF Min
<1> QED BY <1>2, <1>3

\* An iterator yields whole records only, from the first on, and all of them when no
\* record of the file but the last one is torn.
LEMMA RecordsAre ==
    ASSUME NEW file \in Seq(Record)
    PROVE  /\ \E m \in 0 .. Len(file) : DOMAIN Records(file) = 1 .. m
           /\ \A i \in DOMAIN Records(file) : i \in DOMAIN file /\ file[i] \in Written
           /\ (\A i \in DOMAIN file : file[i] = Torn => i = Len(file)) =>
                 \A i \in DOMAIN file : file[i] # Torn => i \in DOMAIN Records(file)
<1>0. Len(file) \in Nat /\ DOMAIN file = 1 .. Len(file) /\ \A i \in 1 .. Len(file) : file[i] \in Record
  BY LenProperties, ElementOfSeq
<1> DEFINE torn == {i \in DOMAIN file : file[i] = Torn}
<1>1. Records(file) = IF torn = {} THEN file ELSE SubSeq(file, 1, Min(torn) - 1)
  BY Zenon DEF Records
<1>2. CASE torn = {}
  <2>1. Records(file) = file
    BY <1>1, <1>2
  <2>2. \A i \in DOMAIN file : file[i] # Torn
    BY <1>2
  <2>3. \A i \in DOMAIN file : file[i] \in Written
    BY <2>2, <1>0, WholeRecord
  <2>4. Len(file) \in 0 .. Len(file)
    BY <1>0
  <2> QED BY <2>1, <2>3, <2>4, <1>0
<1>3. CASE torn # {}
  <2>1. torn \in SUBSET Nat
    BY <1>0
  <2>2. PICK m : m = Min(torn) /\ m \in torn /\ \A s \in torn : m <= s
    <3> HIDE DEF torn
    <3> QED BY <2>1, <1>3, MinIs
  <2>3. m \in 1 .. Len(file) /\ m \in Nat /\ file[m] = Torn
    BY <2>2, <1>0
  <2>4. PICK e : e = m - 1 /\ e \in Int /\ e \in 0 .. Len(file)
    BY <2>3, <1>0
  <2>5. \A i \in 1 .. e : i \in 1 .. Len(file) /\ i < m
    BY <2>3, <2>4, <1>0
  <2>6. \A i \in 1 .. e : file[i] \in Written
    <3>1. ASSUME NEW i \in 1 .. e PROVE file[i] \in Written
      <4>1. i \notin torn
        <5> HIDE DEF torn
        <5> QED BY <2>2, <2>5, <2>3
      <4> QED BY <4>1, <2>5, <1>0, WholeRecord
    <3> QED BY <3>1
  <2>7. /\ SubSeq(file, 1, e) \in Seq(Written)
        /\ Len(SubSeq(file, 1, e)) = IF 1 <= e THEN e - 1 + 1 ELSE 0
    BY <2>4, <2>6, SubSeqProperties
  <2>8. Len(SubSeq(file, 1, e)) = e
    BY <2>7, <2>4
  <2>9. DOMAIN Records(file) = 1 .. e
    BY <2>7, <2>8, <1>1, <1>3, <2>2, <2>4, LenProperties
  <2>10. ASSUME \A i \in DOMAIN file : file[i] = Torn => i = Len(file),
                NEW i \in DOMAIN file, file[i] # Torn
         PROVE  i \in 1 .. e
    <3>1. m = Len(file) /\ i # m
      BY <2>3, <2>10, <1>0
    <3> QED BY <3>1, <2>3, <2>4, <1>0
  <2> QED BY <2>3, <2>4, <2>5, <2>6, <2>9, <2>10, <1>0
<1> QED BY <1>2, <1>3

\* The hint records of a file.
LEMMA HintsAre ==
    ASSUME NEW file \in Seq(Record)
    PROVE  /\ Hints(file) \in Seq(HintRecord)
           /\ DOMAIN Hints(file) = DOMAIN Records(file)
           /\ \A i \in DOMAIN Records(file) : Hints(file)[i].key = file[i].key /\ Hints(file)[i].n = i
<1>1. PICK m \in 0 .. Len(file) : DOMAIN Records(file) = 1 .. m
  BY RecordsAre
<1>2. Len(file) \in Nat /\ m \in Nat
  BY <1>1, LenProperties
<1>3. \A i \in 1 .. m : file[i] \in Written
  BY <1>1, RecordsAre
<1>4. Hints(file) = [i \in 1 .. m |-> [key |-> file[i].key, n |-> i]]
  BY <1>1, Zenon DEF Hints
<1>5. \A i \in 1 .. m : [key |-> file[i].key, n |-> i] \in HintRecord
  BY <1>3 DEF Written, HintRecord
<1>6. PICK h : h = Hints(file)
  OBVIOUS
<1>7. h \in [1 .. m -> HintRecord] /\ \A i \in 1 .. m : h[i].key = file[i].key /\ h[i].n = i
  BY <1>4, <1>5, <1>6
<1>8. h \in Seq(HintRecord)
  BY <1>7, <1>2, SeqDef
<1> QED BY <1>1, <1>6, <1>7, <1>8
-----------------------------------------------------------------------------
(* keydir_recover *)

\* The record n of the i-th file is the last one of k.
LastIn(order, source, N, k, i, n) ==
    /\ i \in 1 .. N /\ n \in DOMAIN source[order[i]] /\ source[order[i]][n].key = k
    /\ \A j \in 1 .. N : \A m \in DOMAIN source[order[j]] :
          source[order[j]][m].key = k => j < i \/ (j = i /\ m <= n)

\* index has k iff k has a record, and then its last one.
IndexesLast(index, order, source, N, k) ==
    /\ k \in DOMAIN index <=>
          \E i \in 1 .. N : \E n \in DOMAIN source[order[i]] : source[order[i]][n].key = k
    /\ k \in DOMAIN index =>
          \E i, n : /\ LastIn(order, source, N, k, i, n)
                    /\ index[k] = [file |-> order[i], n |-> source[order[i]][n].n]

\* Recovery indexes the keys that have a record, each by its last one.
LEMMA IndexIs ==
    ASSUME NEW N \in Nat, NEW S, NEW order \in [1 .. N -> S], NEW source,
           \A f \in S : \E m \in Nat : DOMAIN source[f] = 1 .. m, NEW k \in Keys
    PROVE  IndexesLast(Index(order, source), order, source, N, k)
<1> DEFINE Has(x, i) == {n \in DOMAIN source[order[i]] : source[order[i]][n].key = x}
           In(x) == {i \in DOMAIN order : Has(x, i) # {}}
           Entry(x) == [file |-> order[Max(In(x))],
                        n |-> source[order[Max(In(x))]][Max(Has(x, Max(In(x))))].n]
<1>1. Index(order, source) = [x \in {y \in Keys : In(y) # {}} |-> Entry(x)]
  BY Zenon DEF Index
<1>2. k \in DOMAIN Index(order, source) <=> In(k) # {}
  <2> HIDE DEF In, Entry
  <2> QED BY <1>1
<1>3. In(k) # {} => Index(order, source)[k] = Entry(k)
  <2> HIDE DEF In, Entry
  <2> QED BY <1>1
<1>4. DOMAIN order = 1 .. N
  OBVIOUS
<1>5. In(k) # {} <=> \E i \in 1 .. N : \E n \in DOMAIN source[order[i]] : source[order[i]][n].key = k
  BY <1>4
<1>6. ASSUME In(k) # {}
      PROVE  \E i, n : LastIn(order, source, N, k, i, n)
                       /\ Entry(k) = [file |-> order[i], n |-> source[order[i]][n].n]
  <2>1. In(k) \in SUBSET Nat /\ \A s \in In(k) : s <= N
    BY <1>4
  <2>2. PICK i : i = Max(In(k)) /\ i \in In(k) /\ \A s \in In(k) : s <= i
    <3> HIDE DEF In
    <3> QED BY <2>1, <1>6, MaxIs
  <2>3. i \in 1 .. N /\ Has(k, i) # {}
    BY <2>2, <1>4
  <2>4. order[i] \in S
    BY <2>3
  <2>5. PICK b \in Nat : DOMAIN source[order[i]] = 1 .. b
    BY <2>4
  <2>6. Has(k, i) \in SUBSET Nat /\ \A m \in Has(k, i) : m <= b
    BY <2>5
  <2>7. PICK n : n = Max(Has(k, i)) /\ n \in Has(k, i) /\ \A m \in Has(k, i) : m <= n
    <3> HIDE DEF Has
    <3> QED BY <2>3, <2>5, <2>6, MaxIs
  <2>8. n \in DOMAIN source[order[i]] /\ source[order[i]][n].key = k
    BY <2>7
  <2>9. ASSUME NEW j \in 1 .. N, NEW m \in DOMAIN source[order[j]], source[order[j]][m].key = k
        PROVE  j < i \/ (j = i /\ m <= n)
    <3>1. m \in Has(k, j)
      BY <2>9
    <3>2. j \in In(k)
      <4>1. Has(k, j) # {}
        BY <3>1
      <4> HIDE DEF Has
      <4> QED BY <4>1, <1>4
    <3>3. j <= i
      <4> HIDE DEF In
      <4> QED BY <3>2, <2>2
    <3>4. CASE j = i
      <4>1. m <= n
        <5> HIDE DEF Has
        <5> QED BY <3>1, <3>4, <2>7
      <4> QED BY <4>1, <3>4
    <3>5. CASE j # i
      BY <3>3, <3>5, <2>3
    <3> QED BY <3>4, <3>5
  <2>10. LastIn(order, source, N, k, i, n)
    BY <2>3, <2>8, <2>9 DEF LastIn
  <2>11. Entry(k) = [file |-> order[i], n |-> source[order[i]][n].n]
    <3> HIDE DEF In, Has
    <3> QED BY <2>2, <2>7
  <2> QED BY <2>10, <2>11
<1> HIDE DEF In, Entry
<1> QED BY <1>2, <1>3, <1>5, <1>6 DEF IndexesLast

\* Its entries are positions in the files it read.
LEMMA IndexType ==
    ASSUME NEW N \in Nat, NEW S \in SUBSET Id, NEW order \in [1 .. N -> S], NEW source,
           \A f \in S : source[f] \in Seq(HintRecord)
    PROVE  /\ DOMAIN Index(order, source) \subseteq Keys
           /\ \A k \in DOMAIN Index(order, source) : Index(order, source)[k] \in [file : Id, n : Nat]
<1>1. DOMAIN Index(order, source) \subseteq Keys
  BY DEF Index
<1>0. \A f \in S : \E m \in Nat : DOMAIN source[f] = 1 .. m
  BY LenProperties
<1>2. ASSUME NEW k \in DOMAIN Index(order, source)
      PROVE  Index(order, source)[k] \in [file : Id, n : Nat]
  <2>1. k \in Keys
    BY <1>1
  <2>0. IndexesLast(Index(order, source), order, source, N, k)
    BY <2>1, <1>0, IndexIs
  <2>2. PICK i, n : LastIn(order, source, N, k, i, n)
                    /\ Index(order, source)[k] = [file |-> order[i], n |-> source[order[i]][n].n]
    BY <1>2, <2>0 DEF IndexesLast
  <2>3. i \in 1 .. N /\ n \in DOMAIN source[order[i]]
    BY <2>2 DEF LastIn
  <2>4. order[i] \in Id /\ source[order[i]] \in Seq(HintRecord)
    BY <2>3
  <2>5. source[order[i]][n] \in HintRecord
    BY <2>3, <2>4, LenProperties, ElementOfSeq
  <2>6. source[order[i]][n].n \in Nat
    BY <2>5 DEF HintRecord
  <2> QED BY <2>2, <2>4, <2>6
<1> QED BY <1>1, <1>2

-----------------------------------------------------------------------------
(* Types, the file list and the sizes of files *)

PutRecord == [rec : Written, pos : [file : Id, n : Nat \ {0}]]
Nodes == DOMAIN files.next

DiskType == data \in [Id -> File] /\ temp \in [Id -> File] /\ hint \in [Id -> HintFile]
MemoryType ==
    /\ up \in BOOLEAN /\ hasHint \in [Id -> BOOLEAN] /\ hinting \subseteq Id
    /\ DOMAIN keydir \subseteq Keys /\ \A k \in DOMAIN keydir : keydir[k] \in [file : Id, n : Nat]
    /\ put \in PutRecord \cup {Absent} /\ scan \in [Id -> ScanRecord \cup {Absent}]
CompType ==
    /\ kdlock \in Nat /\ (up /\ pc = "copy" => kdlock > 0)
    /\ pc \in {"idle", "copy", "delete", "hint", "rename", "done"}
    /\ todo \subseteq Keys /\ curr \in Id /\ failed \in BOOLEAN
    /\ up /\ pc = "copy" => todo \subseteq DOMAIN keydir
HistoryType == latest \in [Keys -> Nat] /\ puts \in 0 .. MaxPuts

\* The list links the datafiles, until a compaction deletes and renames them.
FilesLinked ==
    /\ Linked(files, Nodes) /\ Nodes \subseteq Id
    /\ up => Nodes # {}
    /\ ~up => files = EmptyList
    /\ up /\ pc \in {"idle", "copy"} => Nodes = OnDisk

\* Where the delete and the rename loop are.
CursorInRange ==
    /\ at \in Id \cup {Null, MaxFiles + 1}
    /\ pc = "rename" => at \in 0 .. curr + 1
    /\ up /\ pc \in {"delete", "hint"} => at \in Nodes \cup {Null}
    /\ pc = "hint" => at # Null

\* Files are not larger than the threshold; a copy has not opened files beyond curr.
SmallFiles ==
    ~dirty =>
        /\ \A f \in Id : data[f] # Absent => Len(data[f]) <= PerFile
        /\ \A f \in Id : temp[f] # Absent => Len(temp[f]) <= PerFile
        /\ pc = "copy" => \A f \in Id : f > curr => temp[f] = Absent

TypeInv == /\ DiskType /\ MemoryType /\ CompType /\ HistoryType
           /\ FilesLinked /\ CursorInRange /\ SmallFiles

\* The active file is the newest one of the list, and no ID is higher.
LEMMA ActiveFile ==
    ASSUME FilesLinked, up
    PROVE  /\ files.head \in Nodes /\ files.head \in Id /\ files.head # Null
           /\ \A f \in Nodes : f <= files.head
           /\ files.tail \in Nodes
<1>1. PICK h, t : h = files.head /\ t = files.tail
  OBVIOUS
<1>2. /\ Nodes \subseteq Nat /\ Nodes # {} /\ Nodes \subseteq Id
      /\ h \in Nodes \cup {Null} /\ \A f \in Nodes : f <= h
      /\ t \in Nodes \cup {Null} /\ \A d \in Nodes : t # Null
  BY <1>1 DEF FilesLinked, Linked
<1>3. h # Null
  <2>1. PICK f \in Nodes : f \in Nat /\ f <= h
    BY <1>2
  <2> QED BY <2>1 DEF Null
<1> QED BY <1>1, <1>2, <1>3

\* The empty file, and a record appended to a file.
LEMMA AppendedFile ==
    ASSUME NEW file \in Seq(Record), NEW r \in Record
    PROVE  /\ Append(file, r) \in Seq(Record) /\ Len(Append(file, r)) = Len(file) + 1
           /\ Len(file) \in Nat /\ Append(file, r) # Absent
BY LenProperties, NotAbsent

\* The first record of a file.
LEMMA FirstRecord ==
    ASSUME NEW r \in Record
    PROVE  /\ <<r>> \in Seq(Record) /\ Len(<<r>>) = 1 /\ <<r>> # Absent
           /\ Append(<<>>, r) \in Seq(Record) /\ Len(Append(<<>>, r)) = 1
           /\ <<>> \in Seq(Record) /\ <<>> # Absent /\ Len(<<>>) = 0
<1>1. <<r>> \in Seq(Record) /\ <<>> \in Seq(Record)
  BY EmptySeq
<1>2. Len(<<r>>) = 1 /\ Len(<<>>) = 0
  BY EmptySeq
<1>3. PICK e : e = <<>>
  OBVIOUS
<1>4. Append(e, r) \in Seq(Record) /\ Len(Append(e, r)) = Len(e) + 1
  BY <1>1, <1>3, AppendedFile
<1>5. <<r>> # Absent /\ <<>> # Absent
  BY <1>1, NotAbsent
<1>6. Append(<<>>, r) \in Seq(Record) /\ Len(Append(<<>>, r)) = 1
  BY <1>2, <1>3, <1>4
<1> QED BY <1>1, <1>2, <1>5, <1>6

\* The initial state.
LEMMA TypeInit == CompactorInit => TypeInv
<1> SUFFICES ASSUME CompactorInit PROVE TypeInv
  OBVIOUS
<1>0. 0 \in Id /\ Id \subseteq Nat
  BY CompactorAssumption DEF Id
<1>1. <<>> \in Seq(Record) /\ Len(<<>>) = 0 /\ <<>> # Absent
  BY NotAbsent, EmptySeq
<1>2. DiskType
  BY <1>0, <1>1 DEF CompactorInit, DiskType, File, HintFile
<1>3. DOMAIN keydir = {}
  <2>1. keydir \in Seq({}) /\ Len(keydir) = 0
    BY DEF CompactorInit
  <2> QED BY <2>1, LenProperties
<1>4. MemoryType /\ CompType /\ HistoryType
  <2>1. MemoryType
    BY <1>3 DEF CompactorInit, MemoryType
  <2>2. CompType
    BY <1>0 DEF CompactorInit, CompType
  <2>3. HistoryType
    BY CompactorAssumption DEF CompactorInit, HistoryType
  <2> QED BY <2>1, <2>2, <2>3
<1>5. FilesLinked
  <2>1. PICK ids : ids = <<0>>
    OBVIOUS
  <2>2. ids \in [1 .. 1 -> {0}] /\ {0} \in SUBSET Nat /\ ids[1] = 0
    BY <2>1
  <2>3. Linked(ListOf(ids), {0})
    <3>1. \A i, j \in 1 .. 1 : i # j => ids[i] # ids[j]
      OBVIOUS
    <3>2. \A s \in {0} : \E i \in 1 .. 1 : ids[i] = s
      BY <2>2
    <3> QED BY <2>2, <3>1, <3>2, ListOfLinked
  <2>4. Linked(files, {0})
    BY <2>1, <2>3 DEF CompactorInit
  <2>5. Nodes = {0}
    BY <2>4, LinkedDomains DEF Nodes
  <2>6. OnDisk = {0}
    BY <1>0, <1>1 DEF CompactorInit, OnDisk
  <2> QED BY <2>4, <2>5, <2>6, <1>0 DEF FilesLinked, CompactorInit
<1>6. CursorInRange
  BY DEF CursorInRange, CompactorInit
<1>7. SmallFiles
  BY <1>0, <1>1, CompactorAssumption DEF SmallFiles, CompactorInit
<1> QED BY <1>2, <1>4, <1>5, <1>6, <1>7 DEF TypeInv

\* Steps that touch neither the list nor the datafiles.
LEMMA SameFiles ==
    ASSUME FilesLinked, UNCHANGED <<files, up, data>>,
           pc' \in {"idle", "copy"} => pc \in {"idle", "copy"}
    PROVE  FilesLinked'
<1>1. Nodes' = Nodes /\ OnDisk' = OnDisk
  BY DEF Nodes, OnDisk
<1>2. files' = files /\ up' = up
  OBVIOUS
<1> QED BY <1>1, <1>2 DEF FilesLinked

\* A file takes another record only while it is smaller than the threshold.
LEMMA AppendStaysSmall ==
    ASSUME NEW file \in Seq(Record), NEW r \in Record, ~(Len(file) >= PerFile)
    PROVE  Len(Append(file, r)) <= PerFile
<1>1. PICK n : n = Len(file) /\ n \in Nat /\ Len(Append(file, r)) = n + 1
  BY AppendedFile
<1> QED BY <1>1, CompactorAssumption

\* The files of the directory.
LEMMA OnDiskFinite ==
    OnDisk \in SUBSET Nat /\ OnDisk \subseteq Id /\ IsFiniteSet(OnDisk)
<1>1. OnDisk \subseteq Id /\ Id \subseteq Nat
  BY CompactorAssumption DEF OnDisk, Id
<1>2. IsFiniteSet(0 .. MaxFiles)
  BY CompactorAssumption, FS_Interval
<1>3. IsFiniteSet(Id)
  BY <1>2 DEF Id
<1> QED BY <1>1, <1>3, FS_Subset

\* The file the next record goes to, and what is in it.
LEMMA TargetIs ==
    ASSUME TypeInv, up, pc \in {"idle", "copy"}, Target \in Id
    PROVE  /\ Target \in Nat /\ files.head \in OnDisk /\ Nodes = OnDisk
           /\ Before \in Seq(Record) /\ ~(Len(Before) >= PerFile)
           /\ Target = files.head => Before = data[Target]
           /\ Target # files.head => Target \notin OnDisk /\ Before = <<>>
           /\ \A f \in OnDisk : f \in Nat /\ (f # Target => f < Target)
<1>0. DiskType /\ FilesLinked
  BY DEF TypeInv
<1>1. PICK head, t : head = files.head /\ t = Target
  OBVIOUS
<1>2. Nodes = OnDisk /\ head \in OnDisk /\ \A f \in OnDisk : f <= head
  <2>1. Nodes = OnDisk
    BY <1>0 DEF FilesLinked
  <2> QED BY <2>1, <1>0, <1>1, ActiveFile
<1>3. OnDisk \subseteq Nat /\ t \in Nat /\ head \in Nat
  BY <1>1, <1>2, CompactorAssumption DEF OnDisk, Id
<1>4. t = IF Len(data[head]) >= PerFile THEN head + 1 ELSE head
  BY <1>1 DEF Target
<1>5. \A f \in OnDisk : f \in Nat /\ (f # t => f < t)
  BY <1>2, <1>3, <1>4
<1>6. PICK b : b = Before /\ b = IF data[t] = Absent THEN <<>> ELSE data[t]
  BY <1>1 DEF Before
<1>7. CASE t = head
  <2>1. b = data[t] /\ b \in Seq(Record)
    BY <1>0, <1>2, <1>6, <1>7 DEF OnDisk, DiskType, File
  <2>2. ~(Len(b) >= PerFile)
    BY <2>1, <1>3, <1>4, <1>7
  <2> QED BY <2>1, <2>2, <1>1, <1>2, <1>3, <1>5, <1>6, <1>7
<1>8. CASE t # head
  <2>1. t = head + 1
    BY <1>4, <1>8
  <2>2. t \notin OnDisk
    BY <2>1, <1>2, <1>3
  <2>3. b = <<>>
    BY <2>2, <1>1, <1>6 DEF OnDisk
  <2>4. b \in Seq(Record) /\ Len(b) = 0
    BY <2>3, EmptySeq
  <2>5. ~(Len(b) >= PerFile)
    BY <2>4, CompactorAssumption
  <2> QED BY <2>2, <2>3, <2>4, <2>5, <1>1, <1>2, <1>3, <1>5, <1>6, <1>8
<1> QED BY <1>7, <1>8

\* What a write leaves of that file: the record, a part of it, or nothing.
Left(r) == {Append(Before, r), Before, Append(Before, Torn)}
\* The file stays small, and is on disk.
LEMMA LeftType ==
    ASSUME TypeInv, up, pc \in {"idle", "copy"}, Target \in Id, NEW r \in Record, NEW new \in Left(r),
           data' = [data EXCEPT ![Target] = new], temp' = temp, dirty' = dirty,
           pc' = "copy" => pc = "copy" /\ curr' = curr
    PROVE  /\ new \in Seq(Record) /\ new # Absent /\ OnDisk' = OnDisk \cup {Target}
           /\ data' \in [Id -> File] /\ SmallFiles'
           /\ data'[Target] = new /\ \A f \in Id : f # Target => data'[f] = data[f]
<1>0. DiskType /\ SmallFiles
  BY DEF TypeInv
<1>1. PICK t, b : t = Target /\ b = Before /\ b \in Seq(Record) /\ ~(Len(b) >= PerFile)
  BY TargetIs
<1>2. Len(b) \in Nat /\ PerFile \in Nat
  BY <1>1, LenProperties, CompactorAssumption
<1>3. new = Append(b, r) \/ new = b \/ new = Append(b, Torn)
  BY <1>1 DEF Left
<1>4. new \in Seq(Record) /\ Len(new) <= PerFile
  <2>1. CASE new = b
    BY <2>1, <1>1, <1>2
  <2>2. CASE new = Append(b, r)
    BY <2>2, <1>1, AppendedFile, AppendStaysSmall
  <2>3. CASE new = Append(b, Torn)
    BY <2>3, <1>1, WholeRecord, AppendedFile, AppendStaysSmall
  <2> QED BY <2>1, <2>2, <2>3, <1>3
<1>5. new # Absent
  BY <1>4, NotAbsent
<1>6. data' \in [Id -> File] /\ data'[t] = new /\ \A f \in Id : f # t => data'[f] = data[f]
  BY <1>0, <1>1, <1>4 DEF DiskType, File
<1>7. OnDisk' = OnDisk \cup {t}
  BY <1>1, <1>5, <1>6 DEF OnDisk
<1>8. SmallFiles'
  BY <1>0, <1>1, <1>4, <1>6 DEF SmallFiles
<1> QED BY <1>1, <1>4, <1>5, <1>6, <1>7, <1>8

\* ccask_write_record_blocking.
LEMMA PutAppendType ==
    ASSUME TypeInv, NEW k \in Keys, PutAppend(k)
    PROVE  TypeInv'
<1> DEFINE rec == [key |-> k, ver |-> puts + 1]
<1>0. DiskType /\ MemoryType /\ CompType /\ HistoryType /\ FilesLinked /\ CursorInRange /\ SmallFiles
  BY DEF TypeInv
<1>1. /\ up /\ put = Absent /\ pc \in {"idle", "copy"} /\ puts < MaxPuts
      /\ Target \in Id /\ puts' = puts + 1
  BY Zenon DEF PutAppend, MayPut
<1>2. UNCHANGED <<hint, temp, up, hasHint, scan, keydir, kdlock, pc, todo, curr, at, failed, latest, dirty>>
  BY DEF PutAppend, comp
<1>3. PICK new \in Left(rec) :
          /\ data' = [data EXCEPT ![Target] = new]
          /\ put' = put \/ put' = [rec |-> rec, pos |-> [file |-> Target, n |-> Len(Before) + 1]]
  BY Zenon DEF PutAppend, Left
<1>4. files' = IF Target = files.head THEN files ELSE AddFile(files, Target)
  BY Zenon DEF PutAppend
<1>5. hinting' \subseteq hinting \cup {files.head}
  BY DEF PutAppend
<1>6. PICK t : t = Target /\ t \in Id
  BY <1>1
<1>7. /\ t \in Nat /\ files.head \in OnDisk /\ Nodes = OnDisk /\ Before \in Seq(Record)
      /\ t # files.head => t \notin OnDisk
  BY <1>1, <1>6, TargetIs
<1>8. rec \in Written /\ rec \in Record /\ puts + 1 \in 0 .. MaxPuts
  BY <1>0, <1>1, WholeRecord, CompactorAssumption DEF HistoryType, Written
<1> HIDE DEF rec
<1>9. OnDisk' = OnDisk \cup {t} /\ data' \in [Id -> File] /\ SmallFiles'
  BY <1>1, <1>2, <1>3, <1>6, <1>8, LeftType
<1>10. DiskType'
  BY <1>0, <1>2, <1>9 DEF DiskType
<1>11. MemoryType'
  <2>1. Len(Before) + 1 \in Nat \ {0}
    BY <1>7, LenProperties
  <2>2. put' \in PutRecord \cup {Absent}
    BY <2>1, <1>1, <1>3, <1>6, <1>8 DEF PutRecord
  <2>3. files.head \in Id
    BY <1>7 DEF OnDisk
  <2> QED BY <2>2, <2>3, <1>0, <1>2, <1>5 DEF MemoryType
<1>12. CompType' /\ HistoryType'
  BY <1>0, <1>1, <1>2, <1>8 DEF CompType, HistoryType
<1>13. Linked(files', OnDisk') /\ Nodes' = OnDisk'
  <2>1. Linked(files', OnDisk')
    <3>1. Linked(files, OnDisk)
      BY <1>0, <1>7 DEF FilesLinked
    <3>2. CASE t = files.head
      <4>1. files' = files /\ OnDisk' = OnDisk
        BY <3>2, <1>4, <1>6, <1>7, <1>9
      <4> QED BY <3>1, <4>1
    <3>3. CASE t # files.head
      <4>1. Linked(AddFile(files, t), OnDisk \cup {t})
        BY <3>1, <3>3, <1>7, AddFileKeepsLinked
      <4> QED BY <4>1, <3>3, <1>4, <1>6, <1>9
    <3> QED BY <3>2, <3>3
  <2> QED BY <2>1, LinkedDomains DEF Nodes
<1>14. FilesLinked'
  <2>1. OnDisk' \subseteq Id /\ OnDisk' # {}
    BY <1>6, <1>9, OnDiskFinite
  <2> QED BY <2>1, <1>1, <1>2, <1>13 DEF FilesLinked
<1>15. CursorInRange'
  BY <1>0, <1>1, <1>2 DEF CursorInRange
<1> QED BY <1>9, <1>10, <1>11, <1>12, <1>14, <1>15 DEF TypeInv

\* ccask_keydir_upsert.
LEMMA PutIndexType ==
    ASSUME TypeInv, PutIndex
    PROVE  TypeInv'
<1>0. DiskType /\ MemoryType /\ CompType /\ HistoryType /\ FilesLinked /\ CursorInRange /\ SmallFiles
  BY DEF TypeInv
<1>1. UNCHANGED <<data, hint, temp, up, files, hasHint, hinting, scan, kdlock, pc, todo, curr, at, failed,
                  puts, dirty>>
  BY DEF PutIndex, disk, comp, counts, flags
<1>2. PICK r : r = put /\ r \in PutRecord
  BY <1>0 DEF PutIndex, MemoryType
<1>3. /\ keydir' = [k \in DOMAIN keydir \cup {r.rec.key} |-> IF k = r.rec.key THEN r.pos ELSE keydir[k]]
      /\ latest' = [latest EXCEPT ![r.rec.key] = r.rec.ver] /\ put' = Absent
  BY <1>2 DEF PutIndex
<1>4. r.rec.key \in Keys /\ r.pos \in [file : Id, n : Nat] /\ r.rec.ver \in Nat
  BY <1>2 DEF PutRecord, Written
<1>5. MemoryType'
  BY <1>0, <1>1, <1>3, <1>4 DEF MemoryType
<1>6. HistoryType'
  BY <1>0, <1>1, <1>3, <1>4 DEF HistoryType
<1>7. DiskType' /\ CompType' /\ SmallFiles'
  BY <1>0, <1>1, <1>3 DEF DiskType, CompType, SmallFiles
<1>8. FilesLinked'
  BY <1>0, <1>1, SameFiles
<1>9. CursorInRange'
  <2>1. Nodes' = Nodes
    BY <1>1 DEF Nodes
  <2> QED BY <2>1, <1>0, <1>1 DEF CursorInRange
<1> QED BY <1>5, <1>6, <1>7, <1>8, <1>9 DEF TypeInv

\* ... without memory for the entry.
LEMMA PutNoMemoryType ==
    ASSUME TypeInv, PutNoMemory
    PROVE  TypeInv'
<1>0. DiskType /\ MemoryType /\ CompType /\ HistoryType /\ FilesLinked /\ CursorInRange /\ SmallFiles
  BY DEF TypeInv
<1>1. UNCHANGED <<data, hint, temp, up, files, hasHint, hinting, scan, keydir, kdlock, pc, todo, curr, at,
                  failed, latest, puts, dirty>> /\ put' = Absent
  BY DEF PutNoMemory, disk, comp, counts, flags
<1>2. DiskType' /\ MemoryType' /\ CompType' /\ HistoryType' /\ SmallFiles'
  BY <1>0, <1>1 DEF DiskType, MemoryType, CompType, HistoryType, SmallFiles
<1>3. FilesLinked'
  BY <1>0, <1>1, SameFiles
<1>4. CursorInRange'
  <2>1. Nodes' = Nodes
    BY <1>1 DEF Nodes
  <2> QED BY <2>1, <1>0, <1>1 DEF CursorInRange
<1> QED BY <1>2, <1>3, <1>4 DEF TypeInv

\* What the steps of a hint thread have in common.
LEMMA HintSame ==
    ASSUME NEW f, HintStep(f)
    PROVE  UNCHANGED <<data, temp, up, files, keydir, put, kdlock, pc, todo, curr, at, failed,
                       latest, puts, overlap, dirty, cut>>
BY DEF HintStep, HintOpen, HintWrite, HintFails, HintDone, hintUnchanged, comp, counts

\* The hint record a thread writes next.
LEMMA HintNext ==
    ASSUME TypeInv, NEW f \in Id, Unfinished(f)
    PROVE  /\ scan[f] \in ScanRecord /\ scan[f].all \in Seq(HintRecord) /\ scan[f].n \in Nat
           /\ scan[f].n + 1 \in 1 .. Len(scan[f].all) /\ Len(scan[f].all) \in Nat
           /\ scan[f].all[scan[f].n + 1] \in HintRecord
<1>1. PICK s : s = scan[f]
  OBVIOUS
<1>2. s \in ScanRecord /\ s.n < Len(s.all)
  BY <1>1 DEF Unfinished, TypeInv, MemoryType
<1>3. s.all \in Seq(HintRecord) /\ s.n \in Nat
  BY <1>2 DEF ScanRecord
<1>4. Len(s.all) \in Nat
  BY <1>3, LenProperties
<1>5. s.n + 1 \in 1 .. Len(s.all)
  BY <1>2, <1>3, <1>4
<1>6. s.all[s.n + 1] \in HintRecord
  BY <1>3, <1>5, ElementOfSeq
<1> QED BY <1>1, <1>2, <1>3, <1>4, <1>5, <1>6

\* A hint thread.
LEMMA HintType ==
    ASSUME TypeInv, NEW f \in Id, HintStep(f)
    PROVE  TypeInv'
<1>0. DiskType /\ MemoryType /\ CompType /\ HistoryType /\ FilesLinked /\ CursorInRange /\ SmallFiles
  BY DEF TypeInv
<1>1. UNCHANGED <<data, temp, up, files, keydir, put, kdlock, pc, todo, curr, at, failed,
                  latest, puts, dirty>>
  BY HintSame
<1>2. hint' \in [Id -> HintFile] /\ scan' \in [Id -> ScanRecord \cup {Absent}]
  <2>0. hint \in [Id -> HintFile] /\ scan \in [Id -> ScanRecord \cup {Absent}]
    BY <1>0 DEF DiskType, MemoryType
  <2>1. <<>> \in Seq(HintRecord)
    BY EmptySeq
  <2>2. CASE HintOpen(f)
    <3>1. hint' = hint \/ hint' = [hint EXCEPT ![f] = IF hint[f] = Absent THEN <<>> ELSE hint[f]]
      BY <2>2 DEF HintOpen
    <3>2. scan' = scan \/ (data[f] # Absent /\ scan' = [scan EXCEPT ![f] = [all |-> Hints(data[f]), n |-> 0]])
      BY <2>2 DEF HintOpen
    <3>3. hint' \in [Id -> HintFile]
      BY <2>0, <2>1, <3>1 DEF HintFile
    <3>4. ASSUME data[f] # Absent PROVE [all |-> Hints(data[f]), n |-> 0] \in ScanRecord
      <4>1. data[f] \in Seq(Record)
        BY <3>4, <1>0 DEF DiskType, File
      <4>2. Hints(data[f]) \in Seq(HintRecord)
        BY <4>1, HintsAre
      <4> QED BY <4>2 DEF ScanRecord
    <3>5. scan' \in [Id -> ScanRecord \cup {Absent}]
      BY <2>0, <3>2, <3>4
    <3> QED BY <3>3, <3>5
  <2>3. CASE HintWrite(f)
    <3>1. PICK s, r, h : /\ s = scan[f] /\ r = s.all[s.n + 1]
                         /\ h = IF hint[f] = Absent THEN <<>> ELSE hint[f]
      OBVIOUS
    <3>2. s \in ScanRecord /\ s.all \in Seq(HintRecord) /\ s.n \in Nat /\ r \in HintRecord
      BY <2>3, <3>1, HintNext DEF HintWrite
    <3>3. hint' = [hint EXCEPT ![f] = Append(h, r)]
      BY <2>3, <3>1 DEF HintWrite
    <3>4. scan' = [scan EXCEPT ![f] = [s EXCEPT !.n = s.n + 1]]
      BY <2>3, <3>1 DEF HintWrite
    <3>5. h \in Seq(HintRecord)
      BY <2>0, <2>1, <3>1 DEF HintFile
    <3>6. Append(h, r) \in Seq(HintRecord)
      BY <3>2, <3>5, AppendProperties
    <3>7. [s EXCEPT !.n = s.n + 1] \in ScanRecord
      BY <3>2 DEF ScanRecord
    <3> QED BY <2>0, <3>3, <3>4, <3>6, <3>7 DEF HintFile
  <2>4. CASE HintFails(f)
    BY <2>0, <2>4 DEF HintFails, HintFile
  <2>5. CASE HintDone(f)
    BY <2>0, <2>5 DEF HintDone
  <2> QED BY <2>2, <2>3, <2>4, <2>5 DEF HintStep
<1>3. DiskType'
  BY <1>0, <1>1, <1>2 DEF DiskType
<1>4. hinting' \subseteq hinting /\ (hasHint' = hasHint \/ hasHint' = [hasHint EXCEPT ![f] = TRUE])
  BY DEF HintStep, HintOpen, HintWrite, HintFails, HintDone
<1>5. MemoryType'
  BY <1>0, <1>1, <1>2, <1>4 DEF MemoryType
<1>6. HistoryType' /\ CompType' /\ SmallFiles'
  BY <1>0, <1>1 DEF HistoryType, CompType, SmallFiles
<1>7. FilesLinked'
  BY <1>0, <1>1, SameFiles
<1>8. CursorInRange'
  <2>1. Nodes' = Nodes
    BY <1>1 DEF Nodes
  <2> QED BY <2>1, <1>0, <1>1 DEF CursorInRange
<1> QED BY <1>3, <1>5, <1>6, <1>7, <1>8 DEF TypeInv

\* Steps that change neither the list nor the loops' cursor.
LEMMA SameCursor ==
    ASSUME CursorInRange, UNCHANGED <<files, up, at>>, pc' \in {"idle", "copy", "done"}
    PROVE  CursorInRange'
BY DEF CursorInRange

\* The compaction begins.
LEMMA BeginType ==
    ASSUME TypeInv, Begin
    PROVE  TypeInv'
<1>0. DiskType /\ MemoryType /\ CompType /\ HistoryType /\ FilesLinked /\ CursorInRange /\ SmallFiles
  BY DEF TypeInv
<1>1. UNCHANGED <<data, hint, up, files, hasHint, hinting, scan, keydir, put, at, latest, puts>>
  BY DEF Begin, memory
<1>2. /\ pc = "idle" /\ pc' = "copy" /\ kdlock' = kdlock + 1 /\ todo' = DOMAIN keydir /\ curr' = 0
      /\ failed' = FALSE /\ dirty' = (dirty \/ \E f \in Id : temp[f] # Absent)
  BY DEF Begin
<1>3. PICK new : /\ new = (IF temp[0] = Absent THEN <<>> ELSE temp[0])
                 /\ temp' = [temp EXCEPT ![0] = new]
  BY DEF Begin, OpenTemp
<1>4. 0 \in Id /\ Id \subseteq Nat
  BY CompactorAssumption DEF Id
<1>5. <<>> \in Seq(Record) /\ <<>> # Absent /\ Len(<<>>) = 0
  BY NotAbsent, EmptySeq
<1>6. new \in Seq(Record)
  BY <1>0, <1>3, <1>4, <1>5 DEF DiskType, File
<1>7. DiskType'
  BY <1>0, <1>1, <1>3, <1>6 DEF DiskType, File
<1>8. MemoryType' /\ HistoryType'
  BY <1>0, <1>1 DEF MemoryType, HistoryType
<1>9. CompType'
  <2>1. kdlock' \in Nat /\ kdlock' > 0
    BY <1>0, <1>2 DEF CompType
  <2>2. todo' \subseteq Keys /\ todo' \subseteq DOMAIN keydir'
    BY <1>0, <1>1, <1>2 DEF MemoryType
  <2> QED BY <2>1, <2>2, <1>2, <1>4 DEF CompType
<1>10. FilesLinked'
  BY <1>0, <1>1, <1>2, SameFiles
<1>11. CursorInRange'
  BY <1>0, <1>1, <1>2, SameCursor
<1>12. SmallFiles'
  <2> SUFFICES ASSUME ~dirty' PROVE SmallFiles'
    BY DEF SmallFiles
  <2>1. ~dirty /\ \A f \in Id : temp[f] = Absent
    BY <1>2
  <2>2. temp'[0] = <<>> /\ \A f \in Id : f # 0 => temp'[f] = Absent
    BY <2>1, <1>0, <1>3, <1>4 DEF DiskType
  <2>3. PerFile \in Nat /\ 0 <= PerFile
    BY CompactorAssumption
  <2>4. \A f \in Id : temp'[f] # Absent => Len(temp'[f]) <= PerFile
    BY <2>2, <2>3, <1>5
  <2>5. \A f \in Id : f > curr' => temp'[f] = Absent
    BY <2>2, <1>2
  <2> QED BY <2>1, <2>4, <2>5, <1>0, <1>1 DEF SmallFiles
<1> QED BY <1>7, <1>8, <1>9, <1>10, <1>11, <1>12 DEF TypeInv

\* The temporary file a record goes to, and what it holds.
Kept == IF temp[TempFor] = Absent THEN <<>> ELSE temp[TempFor]
\* That file has room, unless a file of an earlier compaction was found.
LEMMA TempForType ==
    ASSUME TypeInv, pc = "copy", TempFor \in Id
    PROVE  /\ Kept \in Seq(Record) /\ curr <= TempFor
           /\ ~dirty => ~(Len(Kept) >= PerFile) \/ (TempFor = curr /\ temp[curr] = Absent)
<1>0. DiskType /\ CompType /\ SmallFiles
  BY DEF TypeInv
<1>1. PICK t, kept : t = TempFor /\ kept = Kept /\ t \in Id
  OBVIOUS
<1>2. kept = IF temp[t] = Absent THEN <<>> ELSE temp[t]
  BY <1>1 DEF Kept
<1>3. <<>> \in Seq(Record) /\ <<>> # Absent /\ Len(<<>>) = 0
  BY NotAbsent, EmptySeq
<1>4. kept \in Seq(Record)
  BY <1>0, <1>1, <1>2, <1>3 DEF DiskType, File
<1>5. curr \in Nat /\ PerFile \in Nat \ {0}
  BY <1>0, CompactorAssumption DEF CompType, Id
<1>6. t = IF Len(temp[curr]) >= PerFile THEN curr + 1 ELSE curr
  BY <1>1 DEF TempFor
<1>7. curr <= t
  BY <1>5, <1>6
<1>8. ASSUME ~dirty PROVE ~(Len(kept) >= PerFile) \/ (t = curr /\ temp[curr] = Absent)
  <2>1. CASE Len(temp[curr]) >= PerFile
    <3>1. t = curr + 1
      BY <2>1, <1>6
    <3>2. temp[t] = Absent
      BY <3>1, <1>0, <1>1, <1>5, <1>8 DEF SmallFiles
    <3>3. Len(kept) = 0
      BY <3>2, <1>2, <1>3
    <3>4. ~(Len(kept) >= PerFile)
      BY <3>3, <1>5
    <3> QED BY <3>4
  <2>2. CASE ~(Len(temp[curr]) >= PerFile)
    <3>1. t = curr
      BY <2>2, <1>6
    <3>2. CASE temp[curr] # Absent
      <4>1. kept = temp[curr]
        BY <3>1, <3>2, <1>2
      <4>2. ~(Len(kept) >= PerFile)
        BY <4>1, <2>2
      <4> QED BY <4>2
    <3> QED BY <3>1, <3>2
  <2> QED BY <2>1, <2>2
<1> QED BY <1>1, <1>4, <1>7, <1>8

\* A file of the copy that takes another record, or none, stays small.
LEMMA TempGrows ==
    ASSUME TypeInv, pc = "copy", TempFor \in Id, NEW r \in Record
    PROVE  /\ Append(Kept, r) \in Seq(Record)
           /\ ~dirty => Len(Append(Kept, r)) <= PerFile /\ Len(Kept) <= PerFile
<1>1. PICK kept : kept = Kept /\ kept \in Seq(Record)
  BY TempForType
<1>2. Append(kept, r) \in Seq(Record) /\ Len(kept) \in Nat
  BY <1>1, AppendedFile
<1>3. ASSUME ~dirty PROVE Len(Append(kept, r)) <= PerFile /\ Len(kept) <= PerFile
  <2>1. ~(Len(kept) >= PerFile)
    <3>1. CASE ~(Len(Kept) >= PerFile)
      BY <3>1, <1>1
    <3>2. CASE TempFor = curr /\ temp[curr] = Absent
      <4>1. kept = <<>>
        BY <3>2, <1>1 DEF Kept
      <4>2. Len(kept) = 0
        BY <4>1, EmptySeq
      <4> QED BY <4>2, CompactorAssumption
    <3> QED BY <3>1, <3>2, <1>3, TempForType
  <2>2. Len(Append(kept, r)) <= PerFile
    BY <1>1, <2>1, AppendStaysSmall
  <2> QED BY <2>1, <2>2, <1>2, CompactorAssumption
<1> QED BY <1>1, <1>2, <1>3

\* A record is copied.
LEMMA CopyType ==
    ASSUME TypeInv, up, NEW k \in Keys, Copy(k)
    PROVE  TypeInv'
<1>0. DiskType /\ MemoryType /\ CompType /\ HistoryType /\ FilesLinked /\ CursorInRange /\ SmallFiles
  BY DEF TypeInv
<1>1. UNCHANGED <<data, hint, up, files, hasHint, hinting, scan, keydir, put, latest, puts, dirty, kdlock,
                  pc, at, failed>>
  BY DEF Copy, compUnchanged, memory, flags
<1>2. /\ pc = "copy" /\ TempFor \in Id /\ curr' = TempFor /\ todo' = todo \ {k}
      /\ k \in todo /\ Readable(k)
  BY DEF Copy
<1>3. PICK t, new, r : /\ t = TempFor /\ r = data[keydir[k].file][keydir[k].n]
                       /\ new = Append(Kept, r) /\ temp' = [temp EXCEPT ![t] = new]
  BY Zenon DEF Copy, Kept
<1>4. r \in Record
  <2>0. k \in DOMAIN keydir
    BY <1>0, <1>2 DEF CompType
  <2>1. PICK f, n : f = keydir[k].file /\ n = keydir[k].n /\ f \in Id
    BY <2>0, <1>0 DEF MemoryType
  <2>2. data[f] # Absent /\ n \in DOMAIN data[f]
    BY <1>2, <2>1 DEF Readable
  <2>3. data[f] \in Seq(Record)
    BY <2>1, <2>2, <1>0 DEF DiskType, File
  <2> QED BY <2>1, <2>2, <2>3, <1>3, LenProperties, ElementOfSeq
<1>5. new \in Seq(Record) /\ (~dirty => Len(new) <= PerFile) /\ t \in Id /\ curr <= t
  BY <1>2, <1>3, <1>4, TempGrows, TempForType
<1>6. DiskType'
  BY <1>0, <1>1, <1>3, <1>5 DEF DiskType, File
<1>7. MemoryType' /\ HistoryType'
  BY <1>0, <1>1 DEF MemoryType, HistoryType
<1>8. CompType'
  BY <1>0, <1>1, <1>2 DEF CompType
<1>9. FilesLinked'
  BY <1>0, <1>1, SameFiles
<1>10. CursorInRange'
  BY <1>0, <1>1, <1>2, SameCursor
<1>11. SmallFiles'
  <2> SUFFICES ASSUME ~dirty PROVE SmallFiles'
    BY <1>1 DEF SmallFiles
  <2>1. \A f \in Id : temp'[f] # Absent => Len(temp'[f]) <= PerFile
    BY <1>0, <1>3, <1>5 DEF SmallFiles, DiskType
  <2>2. curr \in Nat /\ t \in Nat /\ Id \subseteq Nat
    BY <1>0, <1>5, CompactorAssumption DEF CompType, Id
  <2>3. \A f \in Id : f > t => f > curr /\ f # t
    BY <2>2, <1>5
  <2>4. \A f \in Id : f > curr' => temp'[f] = Absent
    BY <2>3, <1>0, <1>2, <1>3 DEF SmallFiles, DiskType
  <2> QED BY <2>1, <2>4, <1>0, <1>1 DEF SmallFiles
<1> QED BY <1>6, <1>7, <1>8, <1>9, <1>10, <1>11 DEF TypeInv

\* The function returns to its caller, with the temporary files as they are or deleted.
LEMMA ReturnType ==
    ASSUME TypeInv, pc = "copy", ReturnIdle, UNCHANGED <<compUnchanged, kdlock>>,
           temp' \in [Id -> File],
           ~dirty => \A f \in Id : temp'[f] # Absent => Len(temp'[f]) <= PerFile
    PROVE  TypeInv'
<1>0. DiskType /\ MemoryType /\ CompType /\ HistoryType /\ FilesLinked /\ CursorInRange /\ SmallFiles
  BY DEF TypeInv
<1>1. UNCHANGED <<data, hint, up, files, hasHint, hinting, scan, keydir, put, latest, puts, dirty, kdlock>>
  BY DEF compUnchanged, memory, flags
<1>2. pc' = "idle" /\ todo' = {} /\ curr' = 0 /\ at' = Null /\ failed' = FALSE
  BY DEF ReturnIdle
<1>3. 0 \in Id
  BY CompactorAssumption DEF Id
<1>4. DiskType' /\ MemoryType' /\ HistoryType' /\ SmallFiles'
  BY <1>0, <1>1, <1>2 DEF DiskType, MemoryType, HistoryType, SmallFiles
<1>5. CompType'
  BY <1>0, <1>1, <1>2, <1>3 DEF CompType
<1>6. FilesLinked'
  BY <1>0, <1>1, SameFiles
<1>7. CursorInRange'
  BY <1>2 DEF CursorInRange
<1> QED BY <1>4, <1>5, <1>6, <1>7 DEF TypeInv

\* cancel_compaction.
LEMMA CancelType ==
    ASSUME TypeInv, pc = "copy", NEW last, NEW temps \in [Id -> File], Cancel(last, temps),
           ~dirty => \A f \in Id : temps[f] # Absent => Len(temps[f]) <= PerFile
    PROVE  TypeInv'
<1>1. PICK left : temp' = [f \in Id |-> IF f \in (0 .. last) \ left THEN Absent ELSE temps[f]]
  BY Zenon DEF Cancel
<1>2. ReturnIdle /\ UNCHANGED <<compUnchanged, kdlock>>
  BY DEF Cancel
<1>3. temp' \in [Id -> File]
  BY <1>1 DEF File
<1>4. ~dirty => \A f \in Id : temp'[f] # Absent => Len(temp'[f]) <= PerFile
  BY <1>1
<1> QED BY <1>2, <1>3, <1>4, ReturnType

\* No memory, and what cannot be read, opened or written.
LEMMA CopyNoMemoryType ==
    ASSUME TypeInv, CopyNoMemory
    PROVE  TypeInv'
<1>1. pc = "copy" /\ ReturnIdle /\ UNCHANGED <<compUnchanged, kdlock>> /\ temp' = temp
  BY DEF CopyNoMemory
<1>2. temp' \in [Id -> File] /\ (~dirty => \A f \in Id : temp'[f] # Absent => Len(temp'[f]) <= PerFile)
  BY <1>1 DEF TypeInv, DiskType, SmallFiles
<1> QED BY <1>1, <1>2, ReturnType

\* A record that cannot be read or written, or a file that cannot be opened.
LEMMA CopyFailsType ==
    ASSUME TypeInv, CopyFails
    PROVE  TypeInv'
<1>0. DiskType /\ SmallFiles
  BY DEF TypeInv
<1>1. pc = "copy" /\ TempFor \in Id
  BY DEF CopyFails
<1>2. PICK t : t = TempFor /\ t \in Id
  BY <1>1
<1>3. \/ Cancel(curr, temp)
      \/ Cancel(t, temp)
      \/ \E rest \in {Kept, Append(Kept, Torn)} : Cancel(t, [temp EXCEPT ![t] = rest])
  BY <1>2, Zenon DEF CopyFails, Kept
<1>4. temp \in [Id -> File] /\ (~dirty => \A f \in Id : temp[f] # Absent => Len(temp[f]) <= PerFile)
  BY <1>0 DEF DiskType, SmallFiles
<1>5. CASE Cancel(curr, temp)
  BY <1>1, <1>4, <1>5, CancelType
<1>6. CASE Cancel(t, temp)
  BY <1>1, <1>4, <1>6, CancelType
<1>7. ASSUME NEW rest \in {Kept, Append(Kept, Torn)}, Cancel(t, [temp EXCEPT ![t] = rest])
      PROVE  TypeInv'
  <2>1. rest \in Seq(Record) /\ (~dirty => Len(rest) <= PerFile)
    BY <1>1, TempForType, TempGrows, WholeRecord
  <2>2. PICK temps : temps = [temp EXCEPT ![t] = rest]
    OBVIOUS
  <2>3. temps \in [Id -> File] /\ (~dirty => \A f \in Id : temps[f] # Absent => Len(temps[f]) <= PerFile)
    BY <2>1, <2>2, <1>2, <1>4 DEF File
  <2>4. Cancel(t, temps)
    BY <1>7, <2>2
  <2> QED BY <2>3, <2>4, <1>1, CancelType
<1> QED BY <1>3, <1>5, <1>6, <1>7

\* Deleting begins at the oldest file.
LEMMA CopyDoneType ==
    ASSUME TypeInv, up, CopyDone
    PROVE  TypeInv'
<1>0. DiskType /\ MemoryType /\ CompType /\ HistoryType /\ FilesLinked /\ CursorInRange /\ SmallFiles
  BY DEF TypeInv
<1>1. UNCHANGED <<data, hint, temp, up, files, hasHint, hinting, scan, keydir, put, latest, puts, dirty,
                  todo, curr, failed>>
  BY DEF CopyDone, compUnchanged, memory, flags
<1>2. pc = "copy" /\ pc' = "delete" /\ at' = files.tail /\ kdlock' = kdlock - 1
  BY DEF CopyDone
<1>3. files.tail \in Nodes /\ files.tail \in Id /\ Nodes' = Nodes
  BY <1>0, <1>1, ActiveFile DEF FilesLinked, Nodes
<1>4. DiskType' /\ MemoryType' /\ HistoryType' /\ SmallFiles' /\ CompType'
  BY <1>0, <1>1, <1>2 DEF DiskType, MemoryType, HistoryType, SmallFiles, CompType
<1>5. FilesLinked'
  BY <1>0, <1>1, <1>2, SameFiles
<1>6. CursorInRange'
  BY <1>2, <1>3 DEF CursorInRange
<1> QED BY <1>4, <1>5, <1>6 DEF TypeInv

\* A file is deleted, or is not.
LEMMA DeleteDataType ==
    ASSUME TypeInv, up, DeleteData
    PROVE  TypeInv'
<1>0. DiskType /\ MemoryType /\ CompType /\ HistoryType /\ FilesLinked /\ CursorInRange /\ SmallFiles
  BY DEF TypeInv
<1>1. UNCHANGED <<hint, temp, up, files, hasHint, hinting, scan, keydir, put, latest, puts, dirty,
                  kdlock, todo, curr, at>>
  BY DEF DeleteData, memory, counts
<1>2. pc = "delete" /\ pc' = "hint" /\ at # Null
  BY DEF DeleteData
<1>3. at \in Nodes /\ at \in Id
  BY <1>0, <1>2 DEF CursorInRange, FilesLinked
<1>4. /\ data' = [data EXCEPT ![at] = Absent] \/ data' = data
      /\ failed' = failed \/ failed' = TRUE
  BY DEF DeleteData, Unlinked
<1>5. DiskType'
  BY <1>0, <1>1, <1>4 DEF DiskType, File
<1>6. MemoryType' /\ HistoryType' /\ CompType'
  BY <1>0, <1>1, <1>2, <1>4 DEF MemoryType, HistoryType, CompType
<1>7. SmallFiles'
  BY <1>0, <1>1, <1>2, <1>4 DEF SmallFiles, DiskType
<1>8. Nodes' = Nodes
  BY <1>1 DEF Nodes
<1>9. FilesLinked'
  BY <1>0, <1>1, <1>2, <1>8 DEF FilesLinked
<1>10. CursorInRange'
  BY <1>1, <1>2, <1>3, <1>8 DEF CursorInRange
<1> QED BY <1>5, <1>6, <1>7, <1>9, <1>10 DEF TypeInv

\* Its hintfile is deleted, or is not, and the next newer file comes up.
LEMMA DeleteHintType ==
    ASSUME TypeInv, up, DeleteHint
    PROVE  TypeInv'
<1>0. DiskType /\ MemoryType /\ CompType /\ HistoryType /\ FilesLinked /\ CursorInRange /\ SmallFiles
  BY DEF TypeInv
<1>1. UNCHANGED <<data, temp, up, files, hasHint, hinting, scan, keydir, put, latest, puts, dirty,
                  kdlock, todo, curr>>
  BY DEF DeleteHint, memory, counts
<1>2. pc = "hint" /\ pc' = "delete" /\ at' = files.previous[at]
  BY DEF DeleteHint, NextFile
<1>3. at \in Nodes
  BY <1>0, <1>2 DEF CursorInRange
<1>4. Above(files.previous[at], at, Nodes)
  BY <1>3, <1>0 DEF FilesLinked, Linked
<1>5. at' \in Nodes \cup {Null}
  BY <1>2, <1>4 DEF Above
<1>6. /\ hint' = [hint EXCEPT ![at] = Absent] \/ hint' = hint
      /\ failed' = failed \/ failed' = TRUE
  BY DEF DeleteHint, HintDeleted, Unlinked
<1>7. DiskType'
  BY <1>0, <1>1, <1>6 DEF DiskType, HintFile
<1>8. MemoryType' /\ HistoryType' /\ CompType' /\ SmallFiles'
  BY <1>0, <1>1, <1>2, <1>6 DEF MemoryType, HistoryType, CompType, SmallFiles
<1>9. Nodes' = Nodes
  BY <1>1 DEF Nodes
<1>10. FilesLinked'
  BY <1>0, <1>1, <1>2, <1>9 DEF FilesLinked
<1>11. CursorInRange'
  BY <1>0, <1>1, <1>2, <1>5, <1>9 DEF CursorInRange, FilesLinked
<1> QED BY <1>7, <1>8, <1>10, <1>11 DEF TypeInv

\* The last file has been passed.
LEMMA DeleteDoneType ==
    ASSUME TypeInv, up, DeleteDone
    PROVE  TypeInv'
<1>0. DiskType /\ MemoryType /\ CompType /\ HistoryType /\ FilesLinked /\ CursorInRange /\ SmallFiles
  BY DEF TypeInv
<1>1. UNCHANGED <<data, hint, temp, up, files, hasHint, hinting, scan, keydir, put, latest, puts, dirty,
                  kdlock, todo, curr, failed>>
  BY DEF DeleteDone, compUnchanged, memory, flags
<1>2. pc = "delete" /\ pc' \in {"done", "rename"} /\ at' = 0
  BY DEF DeleteDone
<1>3. 0 \in Id /\ curr \in Nat /\ 0 \in 0 .. curr + 1
  BY <1>0, CompactorAssumption DEF Id, CompType
<1>4. DiskType' /\ MemoryType' /\ HistoryType' /\ CompType' /\ SmallFiles'
  BY <1>0, <1>1, <1>2 DEF DiskType, MemoryType, HistoryType, CompType, SmallFiles
<1>5. FilesLinked'
  BY <1>0, <1>1, <1>2, SameFiles
<1>6. CursorInRange'
  BY <1>1, <1>2, <1>3 DEF CursorInRange
<1> QED BY <1>4, <1>5, <1>6 DEF TypeInv

\* A temporary file is renamed, or is not.
LEMMA RenameType ==
    ASSUME TypeInv, up, Rename
    PROVE  TypeInv'
<1>0. DiskType /\ MemoryType /\ CompType /\ HistoryType /\ FilesLinked /\ CursorInRange /\ SmallFiles
  BY DEF TypeInv
<1>1. UNCHANGED <<hint, up, files, hasHint, hinting, scan, keydir, put, latest, puts, dirty,
                  kdlock, pc, todo, curr, failed>>
  BY DEF Rename, memory, counts
<1>2. pc = "rename" /\ ~(at > curr) /\ at' = at + 1
  BY DEF Rename, RenameOver
<1>3. at \in 0 .. curr + 1 /\ curr \in 0 .. MaxFiles /\ MaxFiles \in Nat /\ curr \in Nat
  BY <1>0, <1>2, CompactorAssumption DEF CursorInRange, CompType, Id
<1>4. at \in Id /\ at + 1 \in 0 .. curr + 1 /\ at + 1 \in Id \cup {MaxFiles + 1}
  BY <1>2, <1>3 DEF Id
<1>5. \/ data' = [data EXCEPT ![at] = temp[at]] /\ temp' = [temp EXCEPT ![at] = Absent]
      \/ data' = data /\ temp' = temp
  BY DEF Rename
<1>6. DiskType'
  BY <1>0, <1>1, <1>4, <1>5 DEF DiskType, File
<1>7. MemoryType' /\ HistoryType' /\ CompType'
  BY <1>0, <1>1 DEF MemoryType, HistoryType, CompType
<1>8. SmallFiles'
  BY <1>0, <1>1, <1>2, <1>4, <1>5 DEF SmallFiles, DiskType
<1>9. Nodes' = Nodes
  BY <1>1 DEF Nodes
<1>10. FilesLinked'
  BY <1>0, <1>1, <1>2, <1>9 DEF FilesLinked
<1>11. CursorInRange'
  BY <1>1, <1>2, <1>4, <1>9 DEF CursorInRange
<1> QED BY <1>6, <1>7, <1>8, <1>10, <1>11 DEF TypeInv

\* The last temporary file has been passed.
LEMMA RenameDoneType ==
    ASSUME TypeInv, up, RenameDone
    PROVE  TypeInv'
<1>0. DiskType /\ MemoryType /\ CompType /\ HistoryType /\ FilesLinked /\ CursorInRange /\ SmallFiles
  BY DEF TypeInv
<1>1. UNCHANGED <<data, hint, temp, up, files, hasHint, hinting, scan, keydir, put, latest, puts, dirty,
                  kdlock, todo, curr, at, failed>>
  BY DEF RenameDone, compUnchanged, memory, flags
<1>2. pc = "rename" /\ pc' = "done"
  BY DEF RenameDone
<1>4. DiskType' /\ MemoryType' /\ HistoryType' /\ CompType' /\ SmallFiles'
  BY <1>0, <1>1, <1>2 DEF DiskType, MemoryType, HistoryType, CompType, SmallFiles
<1>5. FilesLinked'
  BY <1>0, <1>1, <1>2, SameFiles
<1>6. CursorInRange'
  BY <1>0, <1>1, <1>2, SameCursor
<1> QED BY <1>4, <1>5, <1>6 DEF TypeInv

\* The datafiles when the process ends: as they are, or with a torn record.
LEMMA EndWrites ==
    ASSUME End
    PROVE  \/ data' = data /\ damaged' = (damaged \/ \E f \in Id : Unfinished(f))
           \/ /\ pc \in {"idle", "copy"} /\ Target \in Id
              /\ data' = [data EXCEPT ![Target] = Append(Before, Torn)]
              /\ damaged' = (damaged \/ (\E f \in Id : Unfinished(f)) \/ Behind(Torn))
<1>1. PICK torn \in {FALSE, MayPut /\ Target \in Id} :
          /\ data' = IF torn THEN [data EXCEPT ![Target] = Append(Before, Torn)] ELSE data
          /\ damaged' = (damaged \/ (\E f \in Id : Unfinished(f)) \/ (torn /\ Behind(Torn)))
  BY Zenon DEF End
<1>2. CASE torn
  <2>1. MayPut /\ Target \in Id
    BY <1>1, <1>2
  <2> QED BY <2>1, <1>1, <1>2 DEF MayPut
<1>3. CASE ~torn
  BY <1>1, <1>3
<1> QED BY <1>2, <1>3

\* The process ends.
LEMMA EndType ==
    ASSUME TypeInv, End
    PROVE  TypeInv'
<1>0. DiskType /\ MemoryType /\ CompType /\ HistoryType /\ FilesLinked /\ CursorInRange /\ SmallFiles
  BY DEF TypeInv
<1>1. UNCHANGED <<hint, temp, latest, puts, dirty, pc, todo, curr, at, failed>> /\ up
  BY DEF End
<1>2. /\ up' = FALSE /\ files' = EmptyList /\ hasHint' = [f \in Id |-> FALSE] /\ hinting' = {}
      /\ scan' = [f \in Id |-> Absent] /\ keydir' = <<>> /\ kdlock' = 0 /\ put' = Absent
  BY DEF End
<1>3. DOMAIN keydir' = {}
  <2>1. keydir' \in Seq({}) /\ Len(keydir') = 0
    BY <1>2
  <2> QED BY <2>1, LenProperties
<1>4. data' \in [Id -> File] /\ SmallFiles'
  <2>1. CASE data' = data
    BY <2>1, <1>0, <1>1 DEF DiskType, SmallFiles
  <2>2. CASE pc \in {"idle", "copy"} /\ Target \in Id /\ data' = [data EXCEPT ![Target] = Append(Before, Torn)]
    <3>1. Torn \in Record /\ Append(Before, Torn) \in Left(Torn)
      BY WholeRecord DEF Left
    <3> QED BY <2>2, <3>1, <1>1, LeftType
  <2> QED BY <2>1, <2>2, EndWrites
<1>5. DiskType' /\ MemoryType' /\ HistoryType' /\ CompType'
  <2>1. MemoryType'
    BY <1>2, <1>3 DEF MemoryType
  <2> QED BY <2>1, <1>0, <1>1, <1>2, <1>4 DEF DiskType, HistoryType, CompType
<1>6. Linked(files', {}) /\ Nodes' = {}
  BY <1>2, EmptyLinked, LinkedDomains DEF Nodes
<1>7. FilesLinked'
  BY <1>2, <1>6 DEF FilesLinked
<1>8. CursorInRange'
  BY <1>0, <1>1, <1>2 DEF CursorInRange
<1> QED BY <1>4, <1>5, <1>7, <1>8 DEF TypeInv

\* What ccask_files_init and ccask_keydir_recover make of them: the list found, the
\* active file newest, and the N files in the order of recovery.
Recovered(found, newest, o, N) ==
    /\ N \in Nat /\ Linked(found, OnDisk) /\ Ascends(o, N, OnDisk)
    /\ ~up /\ newest \in Id
    /\ newest = IF found.head # Null /\ hint[found.head] = Absent THEN found.head ELSE found.head + 1
    /\ files' = IF newest = found.head THEN found ELSE AddFile(found, newest)
    /\ data' = [data EXCEPT ![newest] = IF @ = Absent THEN <<>> ELSE @]
    /\ keydir' = Index(o, [f \in OnDisk |-> Source(f)])
\* A restart does that, for some order of the directory.
LEMMA RestartIs ==
    ASSUME Restart
    PROVE  \E found, newest, o, N : Recovered(found, newest, o, N)
<1>1. PICK order, found, newest :
          /\ order \in SetToSeqs(OnDisk) /\ found = ListOf(order)
          /\ newest = IF found.head # Null /\ hint[found.head] = Absent
                      THEN found.head ELSE found.head + 1
          /\ ~up /\ newest \in Id
          /\ files' = IF newest = found.head THEN found ELSE AddFile(found, newest)
          /\ data' = [data EXCEPT ![newest] = IF @ = Absent THEN <<>> ELSE @]
          /\ keydir' = Index(OldestFirst(found), [f \in OnDisk |-> Source(f)])
  BY Zenon DEF Restart
<1>2. PICK S, N, o : S = OnDisk /\ N = Cardinality(S) /\ o = OldestFirst(found)
  OBVIOUS
<1>3. S \in SUBSET Nat /\ IsFiniteSet(S) /\ order \in SetToSeqs(S)
  BY <1>1, <1>2, OnDiskFinite
<1>4. N \in Nat
  BY <1>2, <1>3, FS_CardinalityType
<1>5. Linked(found, S) /\ Ascends(o, N, S)
  BY <1>1, <1>2, <1>3, DirectoryList
<1>6. Recovered(found, newest, o, N)
  BY <1>1, <1>2, <1>4, <1>5 DEF Recovered
<1> QED BY <1>6

\* The active file after a restart is found with others that are not newer, or new.
LEMMA RecoveredFiles ==
    ASSUME TypeInv, NEW found, NEW newest, NEW o, NEW N, Recovered(found, newest, o, N)
    PROVE  /\ newest \in Nat
           /\ \A f \in OnDisk : f <= newest
           /\ OnDisk' = OnDisk \cup {newest} /\ Nodes' = OnDisk' /\ Linked(files', OnDisk')
           /\ files'.head = newest
           /\ \A f \in OnDisk : data'[f] = data[f]
           /\ newest \in OnDisk => newest = found.head /\ hint[newest] = Absent
           /\ newest \notin OnDisk => data'[newest] = <<>>
           /\ \A f \in Id : f # newest => data'[f] = data[f]
<1>0. DiskType
  BY DEF TypeInv
<1>1. PICK h : h = found.head
  OBVIOUS
<1>2. /\ Linked(found, OnDisk) /\ newest \in Id
      /\ newest = IF h # Null /\ hint[h] = Absent THEN h ELSE h + 1
      /\ files' = IF newest = h THEN found ELSE AddFile(found, newest)
      /\ data' = [data EXCEPT ![newest] = IF data[newest] = Absent THEN <<>> ELSE data[newest]]
  BY <1>1 DEF Recovered
<1>3. h \in OnDisk \cup {Null} /\ (\A d \in OnDisk : d <= h) /\ OnDisk \subseteq Nat
  BY <1>1, <1>2 DEF Linked
<1>4. newest \in Nat /\ Id \subseteq Nat
  BY <1>2, CompactorAssumption DEF Id
<1>5. \A f \in OnDisk : f <= newest
  BY <1>2, <1>3, <1>4
<1>6. <<>> \in Seq(Record) /\ <<>> # Absent
  BY NotAbsent, EmptySeq
<1>7. \A f \in Id : f # newest => data'[f] = data[f]
  BY <1>0, <1>2 DEF DiskType
<1>8. data'[newest] = IF newest \in OnDisk THEN data[newest] ELSE <<>>
  BY <1>0, <1>2 DEF DiskType, OnDisk
<1>9. \A f \in OnDisk : data'[f] = data[f]
  BY <1>7, <1>8 DEF OnDisk
<1>10. OnDisk' = OnDisk \cup {newest}
  <2>1. \A f \in Id : data'[f] # Absent <=> f \in OnDisk \/ f = newest
    BY <1>6, <1>7, <1>8 DEF OnDisk
  <2> QED BY <2>1, <1>2 DEF OnDisk
<1>11. CASE newest = h
  <2>1. h # Null /\ newest \in OnDisk
    BY <1>3, <1>4, <1>11 DEF Null
  <2>2. hint[newest] = Absent
    BY <2>1, <1>2, <1>3, <1>4, <1>11
  <2>3. OnDisk' = OnDisk
    BY <2>1, <1>10
  <2>4. Linked(files', OnDisk')
    BY <2>3, <1>2, <1>11
  <2>5. Nodes' = OnDisk'
    BY <2>4, LinkedDomains DEF Nodes
  <2>6. files'.head = newest
    BY <1>1, <1>2, <1>11
  <2> QED BY <2>1, <2>2, <2>4, <2>5, <2>6, <1>1, <1>4, <1>5, <1>7, <1>8, <1>9, <1>10, <1>11
<1>12. CASE newest # h
  <2>1. newest = h + 1
    BY <1>2, <1>12
  <2>2. newest \notin OnDisk
    BY <2>1, <1>3, <1>4
  <2>3. Linked(AddFile(found, newest), OnDisk \cup {newest})
    BY <2>2, <1>2, <1>4, AddFileKeepsLinked
  <2>4. Linked(files', OnDisk')
    BY <2>3, <1>2, <1>10, <1>12
  <2>5. Nodes' = OnDisk'
    BY <2>4, LinkedDomains DEF Nodes
  <2>6. files'.head = newest
    <3>1. PICK g : g = files'.head
      OBVIOUS
    <3>2. g \in OnDisk' \cup {Null} /\ \A d \in OnDisk' : d <= g
      BY <3>1, <2>4 DEF Linked
    <3>3. newest <= g
      BY <3>2, <1>10
    <3>4. g # Null
      BY <3>3, <1>4 DEF Null
    <3>5. g \in Nat /\ g <= newest
      BY <3>2, <3>4, <1>3, <1>4, <1>5, <1>10
    <3> QED BY <3>1, <3>3, <3>5, <1>4
  <2> QED BY <2>2, <2>4, <2>5, <2>6, <1>1, <1>4, <1>5, <1>7, <1>8, <1>9, <1>10
<1> QED BY <1>11, <1>12

\* What recovery reads from each file.
LEMMA SourceType ==
    ASSUME DiskType
    PROVE  \A f \in OnDisk : [g \in OnDisk |-> Source(g)][f] \in Seq(HintRecord)
<1>1. ASSUME NEW f \in OnDisk PROVE Source(f) \in Seq(HintRecord)
  <2>1. f \in Id /\ data[f] # Absent
    BY DEF OnDisk
  <2>2. data[f] \in Seq(Record) /\ hint[f] \in Seq(HintRecord) \cup {Absent}
    BY <2>1 DEF DiskType, File, HintFile
  <2>3. Hints(data[f]) \in Seq(HintRecord)
    BY <2>2, HintsAre
  <2> QED BY <2>2, <2>3 DEF Source
<1> HIDE DEF HintRecord
<1> QED BY <1>1

\* The store is opened again.
LEMMA RestartType ==
    ASSUME TypeInv, Restart
    PROVE  TypeInv'
<1>0. DiskType /\ MemoryType /\ CompType /\ HistoryType /\ FilesLinked /\ CursorInRange /\ SmallFiles
  BY DEF TypeInv
<1>1. UNCHANGED <<hint, temp, hinting, scan, kdlock, put, latest, puts, dirty>>
  BY DEF Restart, counts, flags
<1>2. up' = TRUE /\ ReturnIdle /\ hasHint' = [f \in Id |-> f \in OnDisk /\ hint[f] # Absent]
  BY DEF Restart
<1>3. pc' = "idle" /\ todo' = {} /\ curr' = 0 /\ at' = Null /\ failed' = FALSE
  BY <1>2 DEF ReturnIdle
<1>4. PICK found, newest, o, N : Recovered(found, newest, o, N)
  BY RestartIs
<1>5. /\ newest \in Id /\ N \in Nat /\ Ascends(o, N, OnDisk)
      /\ data' = [data EXCEPT ![newest] = IF @ = Absent THEN <<>> ELSE @]
      /\ keydir' = Index(o, [f \in OnDisk |-> Source(f)])
  BY <1>4 DEF Recovered
<1>6. /\ OnDisk' = OnDisk \cup {newest} /\ Nodes' = OnDisk' /\ Linked(files', OnDisk')
      /\ \A f \in OnDisk : data'[f] = data[f]
      /\ newest \notin OnDisk => data'[newest] = <<>>
      /\ \A f \in Id : f # newest => data'[f] = data[f]
  BY <1>4, RecoveredFiles
<1>7. <<>> \in Seq(Record) /\ <<>> # Absent /\ Len(<<>>) = 0
  BY NotAbsent, EmptySeq
<1>8. DiskType'
  BY <1>0, <1>1, <1>5, <1>7 DEF DiskType, File
<1>9. 0 \in Id
  BY CompactorAssumption DEF Id
<1>10. CompType' /\ HistoryType'
  BY <1>0, <1>1, <1>3, <1>9 DEF CompType, HistoryType
<1>11. MemoryType'
  <2>1. PICK S, source : S = OnDisk /\ source = [f \in OnDisk |-> Source(f)]
    OBVIOUS
  <2>2. \A f \in S : source[f] \in Seq(HintRecord)
    BY <2>1, <1>0, SourceType
  <2>3. S \in SUBSET Id /\ o \in [1 .. N -> S]
    BY <2>1, <1>5, OnDiskFinite DEF Ascends
  <2>4. /\ DOMAIN Index(o, source) \subseteq Keys
        /\ \A k \in DOMAIN Index(o, source) : Index(o, source)[k] \in [file : Id, n : Nat]
    BY <2>2, <2>3, <1>5, IndexType
  <2>5. DOMAIN keydir' \subseteq Keys /\ \A k \in DOMAIN keydir' : keydir'[k] \in [file : Id, n : Nat]
    BY <2>1, <2>4, <1>5
  <2>6. hasHint' \in [Id -> BOOLEAN]
    BY <1>2
  <2> QED BY <2>5, <2>6, <1>0, <1>1, <1>2 DEF MemoryType
<1>12. FilesLinked'
  <2>1. OnDisk' \subseteq Id /\ OnDisk' # {}
    BY <1>5, <1>6, OnDiskFinite
  <2> QED BY <2>1, <1>2, <1>6 DEF FilesLinked
<1>13. CursorInRange'
  BY <1>3 DEF CursorInRange
<1>14. SmallFiles'
  <2>1. PerFile \in Nat /\ 0 <= PerFile
    BY CompactorAssumption
  <2>2. ASSUME ~dirty, NEW f \in Id, data'[f] # Absent PROVE Len(data'[f]) <= PerFile
    <3>1. CASE f \in OnDisk
      BY <2>2, <3>1, <1>0, <1>6 DEF SmallFiles, OnDisk
    <3>2. CASE f \notin OnDisk
      <4>1. f = newest
        BY <2>2, <3>2, <1>6 DEF OnDisk
      <4> QED BY <4>1, <3>2, <1>6, <1>7, <2>1
    <3> QED BY <3>1, <3>2
  <2> QED BY <2>2, <1>0, <1>1, <1>3 DEF SmallFiles
<1> QED BY <1>8, <1>10, <1>11, <1>12, <1>13, <1>14 DEF TypeInv

\* No step changes a type, the order of the list or the bound on a file's size.
LEMMA TypeStep == TypeInv /\ [CompactorNext]_cvars => TypeInv'
<1> SUFFICES ASSUME TypeInv, [CompactorNext]_cvars PROVE TypeInv'
  OBVIOUS
<1>1. CASE UNCHANGED cvars
  <2>1. UNCHANGED <<data, hint, temp, up, files, hasHint, hinting, scan, keydir, put, kdlock, pc, todo,
                    curr, at, failed, latest, puts, dirty>>
    BY <1>1 DEF cvars, disk, memory, comp, counts, flags
  <2>2. DiskType' /\ MemoryType' /\ CompType' /\ HistoryType' /\ CursorInRange' /\ SmallFiles'
    BY <2>1 DEF TypeInv, DiskType, MemoryType, CompType, HistoryType, CursorInRange, SmallFiles, Nodes
  <2>3. FilesLinked'
    BY <2>1, SameFiles DEF TypeInv
  <2> QED BY <2>2, <2>3 DEF TypeInv
<1>2. CASE \E k \in Keys : PutAppend(k)
  BY <1>2, PutAppendType
<1>3. CASE PutReturn
  BY <1>3, PutIndexType, PutNoMemoryType DEF PutReturn
<1>4. CASE \E f \in Id : HintStep(f)
  BY <1>4, HintType
<1>5. CASE Begin
  BY <1>5, BeginType
<1>6. CASE BeginFails
  BY <1>1, <1>6 DEF BeginFails
<1>7. CASE CompactionStep
  <2>1. up /\ (CopyStep \/ ReplaceStep)
    BY <1>7 DEF CompactionStep
  <2>2. CASE CopyStep
    BY <2>1, <2>2, CopyType, CopyNoMemoryType, CopyFailsType, CopyDoneType DEF CopyStep
  <2>3. CASE ReplaceStep
    BY <2>1, <2>3, DeleteDataType, DeleteHintType, DeleteDoneType, RenameType, RenameDoneType
       DEF ReplaceStep
  <2> QED BY <2>1, <2>2, <2>3
<1>8. CASE End
  BY <1>8, EndType
<1>9. CASE Restart
  BY <1>9, RestartType
<1> QED BY <1>1, <1>2, <1>3, <1>4, <1>5, <1>6, <1>7, <1>8, <1>9 DEF CompactorNext

\* TypeInv holds in every state.
LEMMA TypeAlways == CompactorSafeSpec => []TypeInv
BY TypeInit, TypeStep, PTL DEF CompactorSafeSpec

\* TypeInv says what CompactorTypeOK and ListSorted do, and more.
LEMMA TypeInvImplies == TypeInv => CompactorTypeOK /\ ListSorted
<1> SUFFICES ASSUME TypeInv PROVE CompactorTypeOK /\ ListSorted
  OBVIOUS
<1>0. DiskType /\ MemoryType /\ CompType /\ HistoryType /\ FilesLinked /\ CursorInRange /\ SmallFiles
  BY DEF TypeInv
<1>1. \A f \in Id : \A file \in {data[f], temp[f]} : file = Absent \/ file \in Seq(Record)
  BY <1>0 DEF DiskType, File
<1>2. \A f \in Id : hint[f] = Absent \/ hint[f] \in Seq([key : Keys, n : Nat \ {0}])
  BY <1>0 DEF DiskType, HintFile, HintRecord
<1>3. up \in BOOLEAN /\ DOMAIN files.next \subseteq Id /\ hasHint \in [Id -> BOOLEAN] /\ hinting \subseteq Id
  BY <1>0 DEF MemoryType, FilesLinked, Nodes
<1>4. /\ DOMAIN keydir \subseteq Keys /\ \A k \in DOMAIN keydir : keydir[k] \in [file : Id, n : Nat]
      /\ \A f \in Id : scan[f] = Absent \/ scan[f] \in [all : Seq([key : Keys, n : Nat \ {0}]), n : Nat]
  BY <1>0 DEF MemoryType, ScanRecord, HintRecord
<1>5. /\ kdlock \in Nat /\ pc \in {"idle", "copy", "delete", "hint", "rename", "done"}
      /\ todo \subseteq Keys /\ curr \in Id /\ failed \in BOOLEAN
      /\ at \in Id \cup {Null, MaxFiles + 1}
  BY <1>0 DEF CompType, CursorInRange
<1>6. ~dirty => \A f \in Id : \A file \in {data[f], temp[f]} \ {Absent} : Len(file) <= PerFile
  BY <1>0 DEF SmallFiles
<1>7. CompactorTypeOK
  BY <1>1, <1>2, <1>3, <1>4, <1>5, <1>6 DEF CompactorTypeOK
<1>8. Sorted(files)
  BY <1>0, LinkedSorted DEF FilesLinked
<1>9. up => files.head # Null
  BY <1>0, ActiveFile
<1> QED BY <1>7, <1>8, <1>9 DEF ListSorted

\* Every variable keeps its type, and no datafile or temporary file outgrows
\* datafile_rotate_threshold unless a compaction met the files of an earlier one.
THEOREM CompactorTypes == CompactorSafeSpec => []CompactorTypeOK
BY TypeAlways, TypeInvImplies, PTL

\* Whatever order the directory is read in, and however files are added and the
\* process ends, add_file_to_linked_list keeps the list linked both ways in the order
\* of the IDs: the deletion loop and recovery meet every file, from the oldest on.
THEOREM FilesStaySorted == CompactorSafeSpec => []ListSorted
BY TypeAlways, TypeInvImplies, PTL

-----------------------------------------------------------------------------
(* The values a restart would find *)

\* In the files S with contents c: the last record of k is number n of file f; k has
\* no record; no record is torn; only the last record of a file may be.
IsLast(c, S, k, f, n) ==
    /\ f \in S /\ n \in DOMAIN c[f] /\ c[f][n].key = k
    /\ \A g \in S : \A m \in DOMAIN c[g] : c[g][m].key = k => g < f \/ (g = f /\ m <= n)
NoRecord(c, S, k) == \A f \in S : \A n \in DOMAIN c[f] : c[f][n].key # k
Untorn(c, S) == \A f \in S : \A n \in DOMAIN c[f] : c[f][n] # Torn
TornEnd(c, S) == \A f \in S : \A n \in DOMAIN c[f] : c[f][n] = Torn => n = Len(c[f])

\* The last record of k is a value that may be found for it: that of the last put that
\* returned, or of one of the total puts after it.
Finds(ver, last, total) == ver = last \/ (ver > last /\ ver <= total)
KeyGood(c, S, k, last, total) ==
    /\ \A f, n : IsLast(c, S, k, f, n) => Finds(c[f][n].ver, last, total)
    /\ NoRecord(c, S, k) => last = 0
ValuesGood(c, S, last, total) == \A k \in Keys : KeyGood(c, S, k, last[k], total)

\* index leads to a record of k with a value that may be found for it.
Serves(index, c, S, k, last, total) ==
    IF k \in DOMAIN index
    THEN LET f == index[k].file
             n == index[k].n
         IN  f \in S /\ n \in DOMAIN c[f] /\ c[f][n].key = k /\ Finds(c[f][n].ver, last, total)
    ELSE last = 0

\* index leads to the last record of k.
Locates(index, c, S, k) ==
    IF k \in DOMAIN index THEN IsLast(c, S, k, index[k].file, index[k].n) ELSE NoRecord(c, S, k)

Stored(c, S) == S \subseteq Nat /\ \A f \in S : c[f] \in Seq(Record)

\* An index that leads to the last record leads to the value.
LEMMA LocatedServes ==
    ASSUME NEW index, NEW c, NEW S, NEW k, NEW last, NEW total,
           KeyGood(c, S, k, last, total), Locates(index, c, S, k)
    PROVE  Serves(index, c, S, k, last, total)
BY DEF Serves, KeyGood, Locates, IsLast

\* ... which is what StoreSurvives and TempsHoldStore ask for.
LEMMA ServedValue ==
    ASSUME NEW index, NEW c, NEW S, NEW k \in Keys, Serves(index, c, S, k, latest[k], puts)
    PROVE  Found(k, ValueAfter(index, c, k))
<1>1. CASE k \in DOMAIN index
  <2>1. PICK f, n : f = index[k].file /\ n = index[k].n
    OBVIOUS
  <2>2. n \in DOMAIN c[f] /\ c[f][n].key = k /\ Finds(c[f][n].ver, latest[k], puts)
    BY <1>1, <2>1 DEF Serves
  <2>3. ValueAfter(index, c, k) = c[f][n]
    BY <1>1, <2>1, <2>2 DEF ValueAfter
  <2> QED BY <2>2, <2>3 DEF Found, Finds
<1>2. CASE k \notin DOMAIN index
  <2>1. latest[k] = 0 /\ ValueAfter(index, c, k) = [key |-> k, ver |-> 0]
    BY <1>2 DEF Serves, ValueAfter
  <2> QED BY <2>1 DEF Found
<1> QED BY <1>1, <1>2

\* There is one last record.
LEMMA OneLast ==
    ASSUME NEW c, NEW S, Stored(c, S), NEW k, NEW f, NEW n, NEW g, NEW m,
           IsLast(c, S, k, f, n), IsLast(c, S, k, g, m)
    PROVE  f = g /\ n = m
<1>1. f \in S /\ g \in S /\ n \in DOMAIN c[f] /\ m \in DOMAIN c[g] /\ c[f][n].key = k /\ c[g][m].key = k
  BY DEF IsLast
<1>2. f \in Nat /\ g \in Nat /\ c[f] \in Seq(Record) /\ c[g] \in Seq(Record)
  BY <1>1 DEF Stored
<1>3. n \in Nat /\ m \in Nat
  <2>1. DOMAIN c[f] = 1 .. Len(c[f]) /\ DOMAIN c[g] = 1 .. Len(c[g])
    BY <1>2, LenProperties
  <2> QED BY <1>1, <2>1
<1>4. g < f \/ (g = f /\ m <= n)
  BY <1>1 DEF IsLast
<1>5. f < g \/ (f = g /\ n <= m)
  BY <1>1 DEF IsLast
<1> QED BY <1>2, <1>3, <1>4, <1>5

\* Recovery from files of which only the last records may be torn, read themselves or
\* through their hints, finds the last record of every key.
LEMMA IndexLocates ==
    ASSUME NEW c, NEW S, Stored(c, S), TornEnd(c, S), NEW N, NEW o, Ascends(o, N, S),
           NEW source, \A f \in S : source[f] = Hints(c[f]), NEW k \in Keys
    PROVE  Locates(Index(o, source), c, S, k)
<1>0. N \in Nat /\ o \in [1 .. N -> S] /\ S \subseteq Nat
  BY DEF Ascends, Stored
<1>1. ASSUME NEW f \in S
      PROVE  /\ \E m \in Nat : DOMAIN source[f] = 1 .. m
             /\ \A n \in DOMAIN source[f] :
                   n \in DOMAIN c[f] /\ source[f][n].key = c[f][n].key /\ source[f][n].n = n
             /\ \A n \in DOMAIN c[f] :
                   c[f][n].key = k => n \in DOMAIN source[f] /\ source[f][n].key = k
  <2>1. c[f] \in Seq(Record) /\ source[f] = Hints(c[f])
        /\ \A n \in DOMAIN c[f] : c[f][n] = Torn => n = Len(c[f])
    BY DEF Stored, TornEnd
  <2>2. /\ \E m \in 0 .. Len(c[f]) : DOMAIN Records(c[f]) = 1 .. m
        /\ \A n \in DOMAIN Records(c[f]) : n \in DOMAIN c[f]
        /\ \A n \in DOMAIN c[f] : c[f][n] # Torn => n \in DOMAIN Records(c[f])
    BY <2>1, RecordsAre
  <2>3. \A n \in DOMAIN c[f] : c[f][n].key = k => c[f][n] # Torn
    BY WholeRecord
  <2>4. /\ DOMAIN Hints(c[f]) = DOMAIN Records(c[f])
        /\ \A n \in DOMAIN Records(c[f]) : Hints(c[f])[n].key = c[f][n].key /\ Hints(c[f])[n].n = n
    BY <2>1, HintsAre
  <2>5. \E m \in Nat : DOMAIN source[f] = 1 .. m
    <3>1. PICK m \in 0 .. Len(c[f]) : DOMAIN Records(c[f]) = 1 .. m
      BY <2>2
    <3>2. m \in Nat
      BY <3>1
    <3> QED BY <3>1, <3>2, <2>1, <2>4
  <2> QED BY <2>1, <2>2, <2>3, <2>4, <2>5
<1>2. PICK index : index = Index(o, source)
  OBVIOUS
<1>3. IndexesLast(index, o, source, N, k)
  <2>1. \A f \in S : \E m \in Nat : DOMAIN source[f] = 1 .. m
    BY <1>1
  <2>2. IndexesLast(Index(o, source), o, source, N, k)
    BY <2>1, <1>0, IndexIs
  <2> QED BY <2>2, <1>2
<1>4. CASE k \notin DOMAIN index
  <2>1. ASSUME NEW f \in S, NEW n \in DOMAIN c[f] PROVE c[f][n].key # k
    <3>1. PICK i \in 1 .. N : o[i] = f
      BY DEF Ascends
    <3> QED BY <3>1, <1>1, <1>3, <1>4 DEF IndexesLast
  <2> QED BY <2>1, <1>2, <1>4 DEF Locates, NoRecord
<1>5. CASE k \in DOMAIN index
  <2>1. PICK i, n : LastIn(o, source, N, k, i, n)
                    /\ index[k] = [file |-> o[i], n |-> source[o[i]][n].n]
    BY <1>3, <1>5 DEF IndexesLast
  <2>2. i \in 1 .. N /\ n \in DOMAIN source[o[i]] /\ source[o[i]][n].key = k
    BY <2>1 DEF LastIn
  <2>3. PICK f : f = o[i] /\ f \in S
    BY <2>2, <1>0
  <2>4. n \in DOMAIN c[f] /\ c[f][n].key = k /\ source[f][n].n = n
    BY <2>2, <2>3, <1>1
  <2>5. index[k].file = f /\ index[k].n = n
    BY <2>1, <2>3, <2>4
  <2>6. ASSUME NEW g \in S, NEW m \in DOMAIN c[g], c[g][m].key = k
        PROVE  g < f \/ (g = f /\ m <= n)
    <3>1. PICK j \in 1 .. N : o[j] = g
      BY DEF Ascends
    <3>2. m \in DOMAIN source[o[j]] /\ source[o[j]][m].key = k
      BY <3>1, <2>6, <1>1
    <3>3. j < i \/ (j = i /\ m <= n)
      BY <3>2, <2>1 DEF LastIn
    <3>4. CASE j < i
      <4>1. o[j] < o[i]
        BY <3>4, <2>2 DEF Ascends
      <4> QED BY <4>1, <3>1, <2>3
    <3> QED BY <3>1, <3>3, <3>4, <2>3
  <2>7. IsLast(c, S, k, f, n)
    BY <2>3, <2>4, <2>6 DEF IsLast
  <2> QED BY <2>5, <2>7, <1>2, <1>5 DEF Locates
<1> QED BY <1>4, <1>5

\* Files with the same whole records hold the same values.
SameRecords(c, S, d, T) ==
    /\ \A f \in S : \A n \in DOMAIN c[f] :
          c[f][n] # Torn => f \in T /\ n \in DOMAIN d[f] /\ d[f][n] = c[f][n]
    /\ \A f \in T : \A n \in DOMAIN d[f] :
          d[f][n] # Torn => f \in S /\ n \in DOMAIN c[f] /\ d[f][n] = c[f][n]
\* Last records, values and the positions of an index carry over.
LEMMA SameLast ==
    ASSUME NEW c, NEW S, NEW d, NEW T, SameRecords(c, S, d, T), NEW k \in Keys
    PROVE  /\ \A f, n : IsLast(c, S, k, f, n) <=> IsLast(d, T, k, f, n)
           /\ NoRecord(c, S, k) <=> NoRecord(d, T, k)
           /\ \A index, last, total : Serves(index, c, S, k, last, total) => Serves(index, d, T, k, last, total)
           /\ \A last, total : KeyGood(c, S, k, last, total) <=> KeyGood(d, T, k, last, total)
<1>0. /\ \A f \in S : \A n \in DOMAIN c[f] :
            c[f][n].key = k => f \in T /\ n \in DOMAIN d[f] /\ d[f][n] = c[f][n]
      /\ \A f \in T : \A n \in DOMAIN d[f] :
            d[f][n].key = k => f \in S /\ n \in DOMAIN c[f] /\ d[f][n] = c[f][n]
  BY WholeRecord DEF SameRecords
<1>1. ASSUME NEW f, NEW n PROVE IsLast(c, S, k, f, n) <=> IsLast(d, T, k, f, n)
  BY <1>0 DEF IsLast
<1>2. NoRecord(c, S, k) <=> NoRecord(d, T, k)
  BY <1>0 DEF NoRecord
<1>3. ASSUME NEW index, NEW last, NEW total, Serves(index, c, S, k, last, total)
      PROVE  Serves(index, d, T, k, last, total)
  BY <1>0, <1>3 DEF Serves
<1>4. \A f, n : IsLast(c, S, k, f, n) => c[f][n] = d[f][n]
  BY <1>0 DEF IsLast
<1>5. ASSUME NEW last, NEW total
      PROVE  KeyGood(c, S, k, last, total) <=> KeyGood(d, T, k, last, total)
  BY <1>1, <1>2, <1>4 DEF KeyGood
<1> QED BY <1>1, <1>2, <1>3, <1>5

\* A call that fails adds to their number, and to nothing else.
LEMMA MoreCalls ==
    ASSUME NEW c, NEW S, Stored(c, S), NEW total \in Nat, NEW k, NEW last \in Nat
    PROVE  /\ KeyGood(c, S, k, last, total) => KeyGood(c, S, k, last, total + 1)
           /\ \A index : Serves(index, c, S, k, last, total) => Serves(index, c, S, k, last, total + 1)
<1>1. ASSUME NEW f \in S, NEW n \in DOMAIN c[f], Finds(c[f][n].ver, last, total)
      PROVE  Finds(c[f][n].ver, last, total + 1)
  <2>1. c[f] \in Seq(Record)
    BY DEF Stored
  <2>2. c[f][n] \in Record
    BY <2>1, LenProperties, ElementOfSeq
  <2>3. PICK v : v = c[f][n].ver /\ v \in Nat
    BY <2>2 DEF Record, Torn
  <2> QED BY <2>3, <1>1 DEF Finds
<1>2. KeyGood(c, S, k, last, total) => KeyGood(c, S, k, last, total + 1)
  BY <1>1 DEF KeyGood, IsLast
<1>3. ASSUME NEW index, Serves(index, c, S, k, last, total)
      PROVE  Serves(index, c, S, k, last, total + 1)
  BY <1>1, <1>3 DEF Serves
<1> QED BY <1>2, <1>3

\* From c to d the record r has been added, as number n of file f, behind all others.
Grown(c, S, d, T, f, n, r) ==
    /\ f \in T /\ n \in DOMAIN d[f] /\ d[f][n] = r
    /\ \A g \in S : \A m \in DOMAIN c[g] :
          /\ g \in T /\ m \in DOMAIN d[g] /\ d[g][m] = c[g][m]
          /\ g < f \/ (g = f /\ m < n)
    /\ \A g \in T : \A m \in DOMAIN d[g] :
          (g = f /\ m = n) \/ (g \in S /\ m \in DOMAIN c[g] /\ d[g][m] = c[g][m])
\* It is the last one of its key, and nothing changes for other keys.
LEMMA GrownLast ==
    ASSUME NEW c, NEW S, NEW d, NEW T, NEW f, NEW n, NEW r, Grown(c, S, d, T, f, n, r), Stored(d, T)
    PROVE  /\ IsLast(d, T, r.key, f, n)
           /\ \A k, g, m : k # r.key => (IsLast(c, S, k, g, m) <=> IsLast(d, T, k, g, m))
           /\ \A k : k # r.key => (NoRecord(c, S, k) <=> NoRecord(d, T, k))
           /\ \A k, index, last, total :
                 Serves(index, c, S, k, last, total) => Serves(index, d, T, k, last, total)
<1>0. f \in Nat /\ d[f] \in Seq(Record) /\ f \in T /\ n \in DOMAIN d[f] /\ d[f][n] = r
  BY DEF Grown, Stored
<1>1. n \in Nat
  <2>1. DOMAIN d[f] = 1 .. Len(d[f])
    BY <1>0, LenProperties
  <2> QED BY <1>0, <2>1
<1>2. ASSUME NEW g \in T, NEW m \in DOMAIN d[g] PROVE g < f \/ (g = f /\ m <= n)
  <2>1. CASE g = f /\ m = n
    BY <2>1, <1>0, <1>1
  <2>2. CASE g \in S /\ m \in DOMAIN c[g]
    <3>1. g < f \/ (g = f /\ m < n)
      BY <2>2 DEF Grown
    <3>2. g \in Nat /\ m \in Nat
      <4>1. g \in Nat /\ d[g] \in Seq(Record)
        BY DEF Stored
      <4>2. DOMAIN d[g] = 1 .. Len(d[g])
        BY <4>1, LenProperties
      <4> QED BY <4>1, <4>2
    <3> QED BY <3>1, <3>2, <1>0, <1>1
  <2> QED BY <2>1, <2>2 DEF Grown
<1>3. IsLast(d, T, r.key, f, n)
  BY <1>0, <1>2 DEF IsLast
<1>5. ASSUME NEW k, NEW g, NEW m, k # r.key
      PROVE  IsLast(c, S, k, g, m) <=> IsLast(d, T, k, g, m)
  <2>1. ASSUME IsLast(c, S, k, g, m) PROVE IsLast(d, T, k, g, m)
    <3>1. g \in T /\ m \in DOMAIN d[g] /\ d[g][m].key = k
      BY <2>1 DEF Grown, IsLast
    <3>2. ASSUME NEW x \in T, NEW y \in DOMAIN d[x], d[x][y].key = k
          PROVE  x < g \/ (x = g /\ y <= m)
      <4>1. x \in S /\ y \in DOMAIN c[x] /\ c[x][y].key = k
        BY <3>2, <1>0, <1>5 DEF Grown
      <4> QED BY <4>1, <2>1 DEF IsLast
    <3> QED BY <3>1, <3>2 DEF IsLast
  <2>2. ASSUME IsLast(d, T, k, g, m) PROVE IsLast(c, S, k, g, m)
    <3>1. g \in T /\ m \in DOMAIN d[g] /\ d[g][m].key = k
      BY <2>2 DEF IsLast
    <3>2. g \in S /\ m \in DOMAIN c[g] /\ c[g][m].key = k
      BY <3>1, <1>0, <1>5 DEF Grown
    <3>3. ASSUME NEW x \in S, NEW y \in DOMAIN c[x], c[x][y].key = k
          PROVE  x < g \/ (x = g /\ y <= m)
      <4>1. x \in T /\ y \in DOMAIN d[x] /\ d[x][y].key = k
        BY <3>3 DEF Grown
      <4> QED BY <4>1, <2>2 DEF IsLast
    <3> QED BY <3>2, <3>3 DEF IsLast
  <2> QED BY <2>1, <2>2
<1>6. ASSUME NEW k, k # r.key PROVE NoRecord(c, S, k) <=> NoRecord(d, T, k)
  <2>1. ASSUME NoRecord(c, S, k), NEW g \in T, NEW m \in DOMAIN d[g] PROVE d[g][m].key # k
    <3>1. CASE g = f /\ m = n
      BY <3>1, <1>0, <1>6
    <3>2. CASE g \in S /\ m \in DOMAIN c[g] /\ d[g][m] = c[g][m]
      BY <3>2, <2>1 DEF NoRecord
    <3> QED BY <3>1, <3>2 DEF Grown
  <2>2. ASSUME NoRecord(d, T, k), NEW g \in S, NEW m \in DOMAIN c[g] PROVE c[g][m].key # k
    BY <2>2 DEF NoRecord, Grown
  <2> QED BY <2>1, <2>2 DEF NoRecord
<1>7. ASSUME NEW k, NEW index, NEW last, NEW total, Serves(index, c, S, k, last, total)
      PROVE  Serves(index, d, T, k, last, total)
  BY <1>7 DEF Serves, Grown
<1> QED BY <1>3, <1>5, <1>6, <1>7

\* The record of a put that has not returned may be found.
LEMMA GrownValues ==
    ASSUME NEW c, NEW S, NEW d, NEW T, NEW f, NEW n, NEW r, Grown(c, S, d, T, f, n, r), Stored(d, T),
           NEW last \in [Keys -> Nat], NEW total \in Nat,
           \A k \in Keys : last[k] <= total, r.ver = total + 1,
           ValuesGood(c, S, last, total)
    PROVE  ValuesGood(d, T, last, total + 1)
<1>1. ASSUME NEW k \in Keys, k = r.key PROVE KeyGood(d, T, k, last[k], total + 1)
  <2>1. IsLast(d, T, k, f, n)
    BY <1>1, GrownLast
  <2>2. ~NoRecord(d, T, k)
    BY <2>1 DEF IsLast, NoRecord
  <2>3. ASSUME NEW g, NEW m, IsLast(d, T, k, g, m) PROVE Finds(d[g][m].ver, last[k], total + 1)
    <3>1. g = f /\ m = n
      BY <2>1, <2>3, OneLast
    <3>2. d[g][m].ver = total + 1
      BY <3>1 DEF Grown
    <3>3. last[k] \in Nat /\ last[k] <= total
      OBVIOUS
    <3> QED BY <3>2, <3>3 DEF Finds
  <2> QED BY <2>2, <2>3 DEF KeyGood
<1>2. ASSUME NEW k \in Keys, k # r.key PROVE KeyGood(d, T, k, last[k], total + 1)
  <2>0. KeyGood(c, S, k, last[k], total)
    BY DEF ValuesGood
  <2>1. NoRecord(d, T, k) => last[k] = 0
    BY <2>0, <1>2, GrownLast DEF KeyGood
  <2>2. ASSUME NEW g, NEW m, IsLast(d, T, k, g, m) PROVE Finds(d[g][m].ver, last[k], total)
    <3>1. IsLast(c, S, k, g, m)
      BY <1>2, <2>2, GrownLast
    <3>2. d[g][m] = c[g][m]
      BY <3>1 DEF IsLast, Grown
    <3> QED BY <2>0, <3>1, <3>2 DEF KeyGood
  <2>3. KeyGood(d, T, k, last[k], total)
    BY <2>1, <2>2 DEF KeyGood
  <2> QED BY <2>3, MoreCalls
<1> QED BY <1>1, <1>2 DEF ValuesGood

-----------------------------------------------------------------------------
(* The inductive invariant of the data *)

\* No hint thread is scanning a file.
NoScans == \A f \in Id : scan[f] = Absent

\* What calls and the process's end leave in the variables.
CallsInv ==
    /\ \A k \in Keys : latest[k] <= puts
    /\ put # Absent => put.rec.ver = puts
    /\ ~up => hinting = {} /\ NoScans /\ put = Absent
    /\ ~up /\ InReplacement => cut
    /\ ~overlap /\ pc # "idle" => put = Absent /\ hinting = {} /\ NoScans
    /\ pc \in {"idle", "copy"} => ~failed

Clean == ~overlap /\ ~dirty /\ ~damaged
NoTemps == \A f \in Id : temp[f] = Absent

\* A hint thread has written the first scan[f].n hint records of its file.
Scanned(f) ==
    /\ hint[f] # Absent /\ scan[f].all = Hints(data[f])
    /\ Len(hint[f]) = scan[f].n /\ scan[f].n <= Len(scan[f].all)
    /\ \A i \in 1 .. scan[f].n : hint[f][i] = scan[f].all[i]

\* The datafiles and their hints, read after a restart, lead to every value.
HintsGood == \A f \in Id :
    /\ hint[f] # Absent => data[f] # Absent /\ (scan[f] = Absent => hint[f] = Hints(data[f]))
    /\ scan[f] # Absent => Scanned(f)
DiskGood ==
    /\ TornEnd(data, OnDisk) /\ HintsGood
    /\ ValuesGood(data, OnDisk, latest, puts)

\* The running process has the same view of them; an entry may be that of an older
\* put whose value may still be found.
HintsKnown ==
    /\ hint[files.head] = Absent
    /\ \A f \in hinting : f # files.head /\ data[f] # Absent /\ hint[f] = Absent
    /\ \A f \in Id : hint[f] # Absent => hasHint[f] \/ scan[f] # Absent
PutPlaced ==
    put # Absent =>
        /\ put.pos.file = files.head /\ put.pos.n = Len(data[files.head])
        /\ put.pos.n \in DOMAIN data[files.head] /\ data[files.head][put.pos.n] = put.rec
IndexGood == \A k \in Keys : Serves(keydir, data, OnDisk, k, latest[k], puts)
MemoryGood == HintsKnown /\ PutPlaced /\ IndexGood

\* The temporary files hold, for every key the copy has come to, the record its entry
\* leads to.
CopyGood ==
    /\ \A f \in Id : temp[f] # Absent <=> f <= curr
    /\ Untorn(temp, 0 .. curr)
    /\ \A f \in 0 .. curr : \A n \in DOMAIN temp[f] :
          \E k \in DOMAIN keydir \ todo :
              temp[f][n].key = k /\ temp[f][n] = data[keydir[k].file][keydir[k].n]
    /\ \A k \in DOMAIN keydir \ todo : ~NoRecord(temp, 0 .. curr, k)

\* While files are replaced: the temporary files, and under their final names those
\* already renamed, hold every value.
Contents == [f \in 0 .. curr |-> IF temp[f] # Absent THEN temp[f] ELSE data[f]]
ContentsGood ==
    /\ \A f \in 0 .. curr : Contents[f] # Absent
    /\ Untorn(Contents, 0 .. curr)
    /\ ValuesGood(Contents, 0 .. curr, latest, puts)

\* ... nothing is renamed before everything is deleted,
DeleteGood ==
    /\ \A f \in Id : data[f] # Absent => f \in Nodes
    /\ \A f \in Id : hint[f] # Absent => f \in Nodes /\ hasHint[f]
    /\ ~failed => /\ \A f \in Id : data[f] # Absent => at # Null /\ at <= f
                  /\ \A f \in Id : hint[f] # Absent => at # Null /\ at <= f
                  /\ pc = "hint" => data[at] = Absent
\* ... and the files are renamed one after the other.
RenameGood ==
    /\ ~failed
    /\ \A f \in Id : f >= at => data[f] = Absent
    /\ \A f \in Id : at <= f /\ f <= curr => temp[f] # Absent
    /\ ~cut => \A f \in Id : f < at => temp[f] = Absent
ReplaceGood ==
    /\ ContentsGood
    /\ pc \in {"delete", "hint"} \/ failed => \A f \in 0 .. curr : temp[f] # Absent
    /\ \A f \in Id : f > curr => temp[f] = Absent
    /\ failed => cut
    /\ up /\ pc \in {"delete", "hint"} => DeleteGood
    /\ pc = "rename" => RenameGood
    /\ pc \in {"rename", "done"} /\ ~failed => \A f \in Id : hint[f] = Absent /\ (data[f] # Absent => f <= curr)
    /\ pc = "done" /\ ~cut => NoTemps

DataInv ==
    Clean =>
        /\ pc = "idle" /\ (cut => NoTemps) => DiskGood /\ (up => MemoryGood)
        /\ pc = "copy" => DiskGood /\ (up => MemoryGood /\ CopyGood)
        /\ pc \in {"delete", "hint", "rename", "done"} => ReplaceGood

\* The datafiles are sequences of records.
LEMMA DiskStored ==
    ASSUME DiskType
    PROVE  Stored(data, OnDisk)
BY OnDiskFinite DEF OnDisk, DiskType, File, Stored

\* The initial state: an empty store.
LEMMA DataInit == CompactorInit => CallsInv /\ DataInv
<1> SUFFICES ASSUME CompactorInit PROVE CallsInv /\ DataInv
  OBVIOUS
<1>0. TypeInv
  BY TypeInit
<1>1. CallsInv
  BY DEF CompactorInit, CallsInv, NoScans, InReplacement
<1>2. DOMAIN data[0] = {} /\ OnDisk = {0} /\ 0 \in Id
  <2>1. 0 \in Id
    BY CompactorAssumption DEF Id
  <2>2. data[0] = <<>> /\ \A f \in Id : f # 0 => data[f] = Absent
    BY <2>1 DEF CompactorInit
  <2>3. data[0] \in Seq(Record) /\ Len(data[0]) = 0
    BY <2>2, EmptySeq
  <2>4. DOMAIN data[0] = {}
    BY <2>3, LenProperties
  <2> QED BY <2>1, <2>2, <2>3, <2>4, NotAbsent DEF OnDisk
<1>3. DOMAIN keydir = {}
  <2>1. keydir \in Seq({}) /\ Len(keydir) = 0
    BY DEF CompactorInit
  <2> QED BY <2>1, LenProperties
<1>4. \A k : NoRecord(data, OnDisk, k)
  BY <1>2 DEF NoRecord
<1>5. \A k, f, n : ~IsLast(data, OnDisk, k, f, n)
  BY <1>2 DEF IsLast
<1>6. ValuesGood(data, OnDisk, latest, puts)
  BY <1>5 DEF ValuesGood, KeyGood, CompactorInit
<1>7. DiskGood
  <2>1. TornEnd(data, OnDisk)
    BY <1>2 DEF TornEnd
  <2>2. HintsGood
    BY DEF HintsGood, CompactorInit
  <2> QED BY <2>1, <2>2, <1>6 DEF DiskGood
<1>8. MemoryGood
  <2>1. files.head \in Id
    BY <1>0, ActiveFile DEF TypeInv, CompactorInit
  <2>2. HintsKnown
    BY <2>1 DEF CompactorInit, HintsKnown
  <2>3. PutPlaced
    BY DEF CompactorInit, PutPlaced
  <2>4. IndexGood
    BY <1>3 DEF IndexGood, Serves, CompactorInit
  <2> QED BY <2>2, <2>3, <2>4 DEF MemoryGood
<1>9. DataInv
  BY <1>7, <1>8 DEF DataInv, CompactorInit
<1> QED BY <1>1, <1>9

-----------------------------------------------------------------------------
(* The calls *)

\* Steps of the compaction that move neither to idle nor to copy.
LEMMA CallsGoOn ==
    ASSUME CallsInv, up, UNCHANGED <<latest, puts, put, up, hinting, scan, overlap>>, pc # "idle",
           pc' \notin {"idle", "copy"}
    PROVE  CallsInv'
BY DEF CallsInv, NoScans

\* The calls keep what CallsInv says of them.
LEMMA CallsStep == TypeInv /\ CallsInv /\ [CompactorNext]_cvars => CallsInv'
<1> SUFFICES ASSUME TypeInv, CallsInv, [CompactorNext]_cvars PROVE CallsInv'
  OBVIOUS
<1>0. MemoryType /\ CompType /\ HistoryType
  BY DEF TypeInv
<1>1. CASE UNCHANGED cvars
  <2>1. UNCHANGED <<latest, puts, put, up, hinting, scan, overlap, pc, failed, cut>>
    BY <1>1 DEF cvars, disk, memory, comp, counts, flags
  <2> QED BY <2>1 DEF CallsInv, NoScans, InReplacement
<1>2. ASSUME NEW k \in Keys, PutAppend(k) PROVE CallsInv'
  <2>1. UNCHANGED <<latest, up, scan, pc, failed, cut>>
    BY <1>2 DEF PutAppend, comp
  <2>2. up /\ put = Absent /\ puts' = puts + 1 /\ overlap' = (overlap \/ pc = "copy") /\ pc \in {"idle", "copy"}
    BY <1>2, Zenon DEF PutAppend, MayPut
  <2>3. put' # Absent => put'.rec.ver = puts + 1
    <3>1. PICK r, pos : /\ put' = [rec |-> r, pos |-> pos] \/ put' = put
                        /\ r = [key |-> k, ver |-> puts + 1]
      BY <1>2, Zenon DEF PutAppend
    <3>2. CASE put' = [rec |-> r, pos |-> pos]
      BY <3>1, <3>2
    <3> QED BY <3>1, <3>2, <2>2
  <2>4. \A x \in Keys : latest'[x] <= puts'
    BY <2>1, <2>2, <1>0 DEF HistoryType, CallsInv
  <2> QED BY <2>1, <2>2, <2>3, <2>4 DEF CallsInv, NoScans, InReplacement
<1>3. CASE PutIndex
  <2>1. UNCHANGED <<puts, up, hinting, scan, overlap, pc, failed, cut>>
    BY <1>3 DEF PutIndex, comp, counts, flags
  <2>2. put # Absent /\ put' = Absent /\ latest' = [latest EXCEPT ![put.rec.key] = put.rec.ver] /\ up
    BY <1>3 DEF PutIndex
  <2>3. PICK v : v = put.rec.ver /\ v = puts
    BY <2>2 DEF CallsInv
  <2>4. \A k \in Keys : latest'[k] <= puts'
    BY <2>1, <2>2, <2>3, <1>0 DEF HistoryType, CallsInv
  <2> QED BY <2>1, <2>2, <2>4 DEF CallsInv, NoScans, InReplacement
<1>4. CASE PutNoMemory
  <2>1. UNCHANGED <<latest, puts, up, hinting, scan, overlap, pc, failed, cut>> /\ put' = Absent
    BY <1>4 DEF PutNoMemory, comp, counts, flags
  <2> QED BY <2>1 DEF CallsInv, NoScans, InReplacement
<1>5. ASSUME NEW f \in Id, HintStep(f) PROVE CallsInv'
  <2>1. UNCHANGED <<latest, puts, put, up, overlap, pc, failed, cut>>
    BY <1>5, HintSame
  <2>2. up /\ (f \in hinting \/ scan[f] # Absent)
    BY <1>5 DEF HintStep, HintOpen, HintWrite, HintFails, HintDone, Unfinished
  <2>3. overlap \/ pc = "idle"
    BY <2>2 DEF CallsInv, NoScans
  <2> QED BY <2>1, <2>2, <2>3 DEF CallsInv, InReplacement
<1>6. CASE Begin
  <2>1. UNCHANGED <<latest, puts, put, up, hinting, scan, cut>>
    BY <1>6 DEF Begin, memory
  <2>2. /\ up /\ pc' = "copy" /\ failed' = FALSE
        /\ overlap' = (overlap \/ put # Absent \/ hinting # {} \/ \E f \in Id : scan[f] # Absent)
    BY <1>6 DEF Begin
  <2> QED BY <2>1, <2>2 DEF CallsInv, NoScans, InReplacement
<1>7. CASE BeginFails
  BY <1>1, <1>7 DEF BeginFails
<1>8. CASE CompactionStep
  <2>0. up /\ (CopyStep \/ ReplaceStep)
    BY <1>8 DEF CompactionStep
  <2>1. UNCHANGED <<latest, puts, put, up, hinting, scan, overlap>>
    BY <2>0 DEF CopyStep, ReplaceStep, Copy, CopyNoMemory, CopyFails, Cancel, CopyDone, DeleteData,
       DeleteHint, DeleteDone, Rename, RenameDone, compUnchanged, memory, flags, counts
  <2>2. CASE pc' \notin {"idle", "copy"} /\ pc # "idle"
    BY <2>0, <2>1, <2>2, CallsGoOn
  <2>3. CASE CopyNoMemory \/ CopyFails
    <3>1. pc' = "idle" /\ failed' = FALSE
      BY <2>3 DEF CopyNoMemory, CopyFails, Cancel, ReturnIdle
    <3> QED BY <3>1, <2>0, <2>1 DEF CallsInv, NoScans, InReplacement
  <2>4. ASSUME NEW k \in Keys, Copy(k) PROVE CallsInv'
    <3>1. pc = "copy" /\ UNCHANGED <<pc, failed>>
      BY <2>4 DEF Copy
    <3> QED BY <3>1, <2>0, <2>1 DEF CallsInv, NoScans, InReplacement
  <2>5. CASE CopyDone \/ ReplaceStep
    <3>1. pc' \notin {"idle", "copy"} /\ pc # "idle"
      BY <2>5 DEF CopyDone, ReplaceStep, DeleteData, DeleteHint, DeleteDone, Rename, RenameDone
    <3> QED BY <3>1, <2>2
  <2> QED BY <2>0, <2>3, <2>4, <2>5 DEF CopyStep
<1>9. CASE End
  <2>1. UNCHANGED <<latest, puts, overlap, pc, failed>>
    BY <1>9 DEF End
  <2>2. /\ up' = FALSE /\ hinting' = {} /\ scan' = [f \in Id |-> Absent] /\ put' = Absent
        /\ cut' = (cut \/ InReplacement)
    BY <1>9 DEF End
  <2> QED BY <2>1, <2>2 DEF CallsInv, NoScans, InReplacement
<1>10. CASE Restart
  <2>1. UNCHANGED <<latest, puts, put, hinting, scan>>
    BY <1>10 DEF Restart, counts
  <2>2. up' = TRUE /\ pc' = "idle" /\ failed' = FALSE /\ ~up
    BY <1>10 DEF Restart, ReturnIdle
  <2> QED BY <2>1, <2>2 DEF CallsInv, NoScans, InReplacement
<1> QED BY <1>1, <1>2, <1>3, <1>4, <1>5, <1>6, <1>7, <1>8, <1>9, <1>10 DEF CompactorNext, PutReturn

-----------------------------------------------------------------------------
(* The data: the application's puts and the hint threads *)

\* Steps that leave the datafiles, and what the process knows of them, as they are.
LEMMA DiskSame ==
    ASSUME DiskGood, UNCHANGED <<data, hint, scan, latest, puts>>
    PROVE  DiskGood'
<1>1. OnDisk' = OnDisk
  BY DEF OnDisk
<1> QED BY <1>1 DEF DiskGood, HintsGood, Scanned

\* ... and what the process knows of them.
LEMMA MemorySame ==
    ASSUME MemoryGood,
           UNCHANGED <<data, hint, files, hasHint, hinting, scan, keydir, put, latest, puts>>
    PROVE  MemoryGood'
<1>1. OnDisk' = OnDisk
  BY DEF OnDisk
<1> QED BY <1>1 DEF MemoryGood, HintsKnown, PutPlaced, IndexGood

\* The head of a list is its highest file.
LEMMA HeadIs ==
    ASSUME NEW l, NEW S, Linked(l, S), NEW id \in S, \A f \in S : f <= id
    PROVE  l.head = id
<1>1. PICK h : h = l.head
  OBVIOUS
<1>2. S \in SUBSET Nat /\ h \in S \cup {Null} /\ id <= h
  BY <1>1 DEF Linked
<1>3. h # Null
  BY <1>2 DEF Null
<1>4. h <= id /\ h \in Nat /\ id \in Nat
  BY <1>2, <1>3
<1> QED BY <1>1, <1>2, <1>4

\* What a put, or the end of the process in the middle of one, leaves on disk.  A
\* record, whole or torn, is behind all others.
LEMMA LeftGrown ==
    ASSUME TypeInv, up, pc \in {"idle", "copy"}, Target \in Id, NEW r \in Record,
           data' = [data EXCEPT ![Target] = Append(Before, r)],
           OnDisk' = OnDisk \cup {Target}, data'[Target] = Append(Before, r),
           \A f \in Id : f # Target => data'[f] = data[f]
    PROVE  /\ Grown(data, OnDisk, data', OnDisk', Target, Len(Before) + 1, r)
           /\ Len(data'[Target]) = Len(Before) + 1
           /\ TornEnd(data, OnDisk) /\ ~Behind(Torn) => TornEnd(data', OnDisk')
<1>1. PICK t, b, new, n : t = Target /\ b = Before /\ new = Append(b, r) /\ n = Len(b) + 1
  OBVIOUS
<1>2. /\ t \in Nat /\ b \in Seq(Record) /\ (t = files.head => b = data[t])
      /\ files.head \in OnDisk /\ (t # files.head => t \notin OnDisk /\ b = <<>>)
      /\ \A f \in OnDisk : f \in Nat /\ (f # t => f < t)
  BY <1>1, TargetIs
<1>3. Len(b) \in Nat /\ DOMAIN b = 1 .. Len(b) /\ n \in Nat
  BY <1>1, <1>2, LenProperties
<1>4. /\ new \in Seq(Record) /\ Len(new) = n /\ DOMAIN new = 1 .. n
      /\ \A i \in 1 .. Len(b) : new[i] = b[i]
      /\ new[n] = r
  BY <1>1, <1>2, <1>3, AppendedFile, LenProperties, AppendProperties
<1>5. /\ OnDisk' = OnDisk \cup {t} /\ data'[t] = new
      /\ \A f \in OnDisk : f # t => data'[f] = data[f]
      /\ t \in OnDisk => b = data[t]
  BY <1>1, <1>2 DEF OnDisk
<1>6. b = data[t] \/ DOMAIN b = {}
  BY <1>2, <1>3, EmptySeq
<1>7. ASSUME NEW g \in OnDisk, NEW m \in DOMAIN data[g]
      PROVE  g \in OnDisk' /\ m \in DOMAIN data'[g] /\ data'[g][m] = data[g][m]
             /\ (g < t \/ (g = t /\ m < n))
  <2>1. CASE g = t
    <3>1. m \in 1 .. Len(b) /\ b = data[g]
      BY <2>1, <1>3, <1>5
    <3>2. m \in 1 .. n /\ m < n
      BY <3>1, <1>1, <1>3
    <3> QED BY <2>1, <3>1, <3>2, <1>4, <1>5
  <2>2. CASE g # t
    BY <2>2, <1>2, <1>5
  <2> QED BY <2>1, <2>2
<1>8. ASSUME NEW g \in OnDisk', NEW m \in DOMAIN data'[g]
      PROVE  (g = t /\ m = n) \/ (g \in OnDisk /\ m \in DOMAIN data[g] /\ data'[g][m] = data[g][m])
  <2>1. CASE g = t
    <3>1. m \in 1 .. n
      BY <2>1, <1>4, <1>5
    <3>2. m = n \/ m \in 1 .. Len(b)
      BY <3>1, <1>1, <1>3
    <3>3. CASE m \in 1 .. Len(b)
      <4>1. t = files.head /\ t \in OnDisk
        BY <3>3, <1>2, EmptySeq
      <4> QED BY <4>1, <2>1, <3>3, <1>3, <1>4, <1>5
    <3> QED BY <2>1, <3>2, <3>3
  <2>2. CASE g # t
    BY <2>2, <1>5
  <2> QED BY <2>1, <2>2
<1>9. Grown(data, OnDisk, data', OnDisk', t, n, r)
  <2>1. t \in OnDisk' /\ n \in DOMAIN data'[t] /\ data'[t][n] = r
    BY <1>1, <1>3, <1>4, <1>5
  <2> QED BY <2>1, <1>7, <1>8 DEF Grown
<1>10. ASSUME TornEnd(data, OnDisk), ~Behind(Torn), NEW g \in OnDisk', NEW m \in DOMAIN data'[g],
              data'[g][m] = Torn
       PROVE  m = Len(data'[g])
  <2>1. CASE g = t /\ m = n
    BY <2>1, <1>4, <1>5
  <2>2. CASE g \in OnDisk /\ m \in DOMAIN data[g] /\ data'[g][m] = data[g][m]
    <3>1. m = Len(data[g]) /\ data[g][m] = Torn
      BY <2>2, <1>10 DEF TornEnd
    <3>2. CASE g = t
      <4>1. b = data[t] /\ b # <<>> /\ b[Len(b)] = Torn
        BY <2>2, <3>1, <3>2, <1>5, EmptySeq
      <4> QED BY <4>1, <1>1, <1>10 DEF Behind
    <3> QED BY <2>2, <3>1, <3>2, <1>5
  <2> QED BY <2>1, <2>2, <1>8
<1> QED BY <1>1, <1>4, <1>5, <1>9, <1>10 DEF TornEnd

\* A torn record, and a new empty file, are no records.
LEMMA LeftSame ==
    ASSUME TypeInv, up, pc \in {"idle", "copy"}, Target \in Id, NEW new \in {Before, Append(Before, Torn)},
           data' = [data EXCEPT ![Target] = new],
           OnDisk' = OnDisk \cup {Target}, data'[Target] = new,
           \A f \in Id : f # Target => data'[f] = data[f]
    PROVE  /\ SameRecords(data, OnDisk, data', OnDisk')
           /\ TornEnd(data, OnDisk) /\ (new = Before \/ ~Behind(Torn)) => TornEnd(data', OnDisk')
<1>1. CASE new = Append(Before, Torn)
  <2>1. PICK n : /\ Grown(data, OnDisk, data', OnDisk', Target, n, Torn)
                 /\ TornEnd(data, OnDisk) /\ ~Behind(Torn) => TornEnd(data', OnDisk')
    BY <1>1, WholeRecord, LeftGrown
  <2>2. SameRecords(data, OnDisk, data', OnDisk')
    BY <2>1 DEF Grown, SameRecords
  <2>3. new # Before
    <3>1. Before \in Seq(Record)
      BY TargetIs
    <3>2. Len(Append(Before, Torn)) = Len(Before) + 1 /\ Len(Before) \in Nat
      BY <3>1, WholeRecord, AppendedFile
    <3> QED BY <3>2, <1>1
  <2> QED BY <2>1, <2>2, <2>3
<1>2. CASE new = Before
  <2>1. PICK t, b : t = Target /\ b = Before
    OBVIOUS
  <2>2. /\ t = files.head => b = data[t] /\ t \in OnDisk
        /\ t # files.head => t \notin OnDisk /\ b = <<>>
    BY <2>1, TargetIs
  <2>3. \A g \in OnDisk : data'[g] = data[g]
    BY <2>1, <2>2, <1>2 DEF OnDisk
  <2>4. ASSUME NEW g \in OnDisk', g \notin OnDisk PROVE DOMAIN data'[g] = {}
    <3>1. g = t /\ data'[g] = <<>>
      BY <2>1, <2>2, <2>4, <1>2
    <3> QED BY <3>1, EmptySeq
  <2>5. SameRecords(data, OnDisk, data', OnDisk')
    BY <2>3, <2>4 DEF SameRecords
  <2>6. TornEnd(data, OnDisk) => TornEnd(data', OnDisk')
    BY <2>3, <2>4 DEF TornEnd
  <2> QED BY <2>5, <2>6
<1> QED BY <1>1, <1>2

\* The file that takes records has no hintfile, and no thread reads it.
LEMMA TargetNoHint ==
    ASSUME TypeInv, up, pc \in {"idle", "copy"}, Target \in Id, DiskGood, MemoryGood
    PROVE  /\ hint[Target] = Absent /\ scan[Target] = Absent /\ Target \notin hinting
           /\ hint[files.head] = Absent /\ scan[files.head] = Absent /\ files.head \notin hinting
<1>1. PICK h, t : h = files.head /\ t = Target
  OBVIOUS
<1>2. h \in OnDisk /\ (t # h => t \notin OnDisk) /\ h \in Id /\ t \in Id
  BY <1>1, TargetIs DEF OnDisk
<1>3. hint[h] = Absent /\ \A f \in hinting : f # h /\ data[f] # Absent
  BY <1>1 DEF MemoryGood, HintsKnown
<1>4. \A f \in Id : (hint[f] # Absent => data[f] # Absent) /\ (scan[f] # Absent => hint[f] # Absent)
  BY DEF DiskGood, HintsGood, Scanned
<1> QED BY <1>1, <1>2, <1>3, <1>4 DEF OnDisk

\* A put outside a compaction.
LEMMA PutAppendData ==
    ASSUME TypeInv, TypeInv', CallsInv, DataInv, NEW k \in Keys, PutAppend(k)
    PROVE  DataInv'
<1> SUFFICES ASSUME Clean' PROVE DataInv'
  BY DEF DataInv
<1>1. UNCHANGED <<hint, temp, up, hasHint, scan, keydir, latest, cut, dirty, pc, curr>>
  BY DEF PutAppend, comp
<1>2. /\ up /\ put = Absent /\ pc \in {"idle", "copy"} /\ puts' = puts + 1
      /\ overlap' = (overlap \/ pc = "copy") /\ Target \in Id
  BY Zenon DEF PutAppend, MayPut
<1>3. PICK r : r = [key |-> k, ver |-> puts + 1]
  OBVIOUS
<1>4. \/ /\ data' = [data EXCEPT ![Target] = Append(Before, r)]
         /\ put' = [rec |-> r, pos |-> [file |-> Target, n |-> Len(Before) + 1]]
         /\ damaged' = (damaged \/ Behind(Torn))
      \/ /\ put' = put /\ data' = [data EXCEPT ![Target] = Before] /\ damaged' = damaged
      \/ /\ put' = put /\ data' = [data EXCEPT ![Target] = Append(Before, Torn)]
         /\ damaged' = (damaged \/ Behind(Torn))
  BY <1>3, Zenon DEF PutAppend
<1>5. pc = "idle" /\ pc' = "idle" /\ Clean
  <2>1. ~overlap' /\ ~dirty' /\ ~damaged'
    BY DEF Clean
  <2>2. ~damaged
    BY <2>1, <1>4, Zenon
  <2>3. ~overlap /\ pc # "copy"
    BY <2>1, <1>2, Zenon
  <2> QED BY <2>1, <2>2, <2>3, <1>1, <1>2 DEF Clean
<1> SUFFICES ASSUME cut' => NoTemps' PROVE DiskGood' /\ MemoryGood'
  BY <1>5 DEF DataInv
<1>6. DiskGood /\ MemoryGood
  BY <1>1, <1>2, <1>5 DEF DataInv, NoTemps
<1>7. /\ puts \in Nat /\ latest \in [Keys -> Nat] /\ r.key = k /\ r.ver = puts + 1
      /\ r \in Record /\ r \in Written
  <2>1. puts \in Nat /\ puts + 1 \in 1 .. MaxPuts /\ latest \in [Keys -> Nat]
    BY <1>2, CompactorAssumption DEF TypeInv, HistoryType, PutAppend, MayPut
  <2>2. r \in Written
    BY <2>1, <1>3 DEF Written
  <2> QED BY <2>1, <2>2, <1>3, WholeRecord
<1>8. PICK new \in Left(r) : data' = [data EXCEPT ![Target] = new]
  BY <1>4 DEF Left
<1>9. /\ new # Absent /\ OnDisk' = OnDisk \cup {Target} /\ data'[Target] = new
      /\ \A f \in Id : f # Target => data'[f] = data[f]
  BY <1>1, <1>2, <1>7, <1>8, LeftType
<1>10. PICK t, d, T : t = Target /\ d = data' /\ T = OnDisk'
  OBVIOUS
<1>11. Stored(d, T)
  <2>1. DiskType'
    BY DEF TypeInv
  <2>2. \A g \in OnDisk' : g \in Nat /\ data'[g] \in Seq(Record)
    BY <2>1, CompactorAssumption DEF OnDisk, DiskType, File, Id
  <2> QED BY <2>2, <1>10 DEF Stored
<1>12. TornEnd(data, OnDisk) /\ ValuesGood(data, OnDisk, latest, puts) /\ \A x \in Keys : latest[x] <= puts
  BY <1>6 DEF DiskGood, CallsInv
<1>13. \A x \in Keys : Serves(keydir, data, OnDisk, x, latest[x], puts)
  BY <1>6 DEF MemoryGood, IndexGood
<1>14. /\ hint[Target] = Absent /\ scan[Target] = Absent /\ Target \notin hinting
       /\ hint[files.head] = Absent /\ files.head \notin hinting
  BY <1>2, <1>6, TargetNoHint
<1>15. /\ TornEnd(d, T) /\ ValuesGood(d, T, latest, puts + 1)
       /\ \A x \in Keys : Serves(keydir, d, T, x, latest[x], puts + 1)
       /\ put' # Absent => /\ put'.pos.file = t /\ put'.pos.n = Len(d[t])
                           /\ put'.pos.n \in DOMAIN d[t] /\ d[t][put'.pos.n] = put'.rec
  <2>1. CASE /\ data' = [data EXCEPT ![Target] = Append(Before, r)]
             /\ put' = [rec |-> r, pos |-> [file |-> Target, n |-> Len(Before) + 1]]
             /\ damaged' = (damaged \/ Behind(Torn))
    <3>0. data'[Target] = Append(Before, r)
      BY <2>1, <1>2 DEF TypeInv, DiskType
    <3>1. PICK n : n = Len(Before) + 1
      OBVIOUS
    <3>2. Grown(data, OnDisk, d, T, t, n, r) /\ Len(d[t]) = n /\ TornEnd(d, T)
      BY <2>1, <3>0, <3>1, <1>2, <1>7, <1>9, <1>10, <1>12, LeftGrown DEF Clean
    <3>3. ValuesGood(d, T, latest, puts + 1)
      BY <3>2, <1>7, <1>11, <1>12, GrownValues
    <3>4. ASSUME NEW x \in Keys PROVE Serves(keydir, d, T, x, latest[x], puts + 1)
      <4>1. Serves(keydir, d, T, x, latest[x], puts)
        BY <3>2, <1>11, <1>13, GrownLast
      <4>2. latest[x] \in Nat
        BY <1>7
      <4> QED BY <4>1, <4>2, <1>7, <1>11, MoreCalls
    <3>5. put'.pos.file = t /\ put'.pos.n = n /\ put'.rec = r
      BY <2>1, <3>1, <1>10
    <3>6. n \in DOMAIN d[t] /\ d[t][n] = r
      BY <3>2 DEF Grown
    <3> QED BY <3>2, <3>3, <3>4, <3>5, <3>6
  <2>2. CASE /\ put' = put /\ new \in {Before, Append(Before, Torn)}
             /\ new = Before \/ damaged' = (damaged \/ Behind(Torn))
    <3>1. SameRecords(data, OnDisk, d, T) /\ TornEnd(d, T)
      BY <2>2, <1>2, <1>8, <1>9, <1>10, <1>12, LeftSame DEF Clean
    <3>2. ASSUME NEW x \in Keys
          PROVE  KeyGood(d, T, x, latest[x], puts + 1) /\ Serves(keydir, d, T, x, latest[x], puts + 1)
      <4>1. latest[x] \in Nat /\ KeyGood(data, OnDisk, x, latest[x], puts)
        BY <1>7, <1>12 DEF ValuesGood
      <4>2. KeyGood(d, T, x, latest[x], puts) /\ Serves(keydir, d, T, x, latest[x], puts)
        BY <3>1, <4>1, <1>13, SameLast
      <4> QED BY <4>1, <4>2, <1>7, <1>11, MoreCalls
    <3> QED BY <2>2, <3>1, <3>2, <1>2 DEF ValuesGood
  <2>3. ASSUME NEW x \in {Before, Append(Before, Torn)}, data' = [data EXCEPT ![Target] = x]
        PROVE  new = x
    <3>1. data'[Target] = x
      BY <2>3, <1>2 DEF TypeInv, DiskType
    <3> QED BY <3>1, <1>9
  <2> QED BY <2>1, <2>2, <2>3, <1>4
<1>16. DiskGood'
  <2>1. HintsGood'
    <3>1. \A f \in Id : f # Target => (hint[f] # Absent => data[f] # Absent)
                        /\ (hint[f] # Absent /\ scan[f] = Absent => hint[f] = Hints(data[f]))
                        /\ (scan[f] # Absent => Scanned(f))
      BY <1>6 DEF DiskGood, HintsGood
    <3>2. ASSUME NEW f \in Id, f # Target, Scanned(f) PROVE Scanned(f)'
      BY <3>2, <1>1, <1>9 DEF Scanned
    <3>3. hint' = hint /\ scan' = scan
      BY <1>1
    <3> QED BY <3>1, <3>2, <3>3, <1>9, <1>14 DEF HintsGood
  <2> QED BY <2>1, <1>1, <1>2, <1>10, <1>15 DEF DiskGood
<1>17. files'.head = t
  <2>1. files' = IF Target = files.head THEN files ELSE AddFile(files, Target)
    BY Zenon DEF PutAppend
  <2>2. CASE Target = files.head
    BY <2>1, <2>2, <1>10
  <2>3. CASE Target # files.head
    <3>1. Linked(files', Nodes') /\ Nodes' = OnDisk'
      BY <1>1, <1>2, <1>5 DEF TypeInv, FilesLinked
    <3>2. \A f \in OnDisk : f \in Nat /\ (f # t => f < t)
      BY <1>2, <1>10, TargetIs
    <3>3. t \in OnDisk' /\ \A f \in OnDisk' : f <= t
      BY <3>2, <1>9, <1>10, <1>11 DEF Stored
    <3>4. PICK l, S : l = files' /\ S = OnDisk'
      OBVIOUS
    <3>5. l.head = t
      BY <3>1, <3>3, <3>4, HeadIs
    <3> QED BY <3>4, <3>5
  <2> QED BY <2>2, <2>3
<1>18. HintsKnown'
  <2>1. hinting' = hinting \/ (Target # files.head /\ hinting' = hinting \cup {files.head})
    <3>1. hinting' = (IF Target = files.head THEN hinting ELSE hinting \cup {files.head}) \/ hinting' = hinting
      BY Zenon DEF PutAppend
    <3> QED BY <3>1
  <2>2. files.head \in OnDisk /\ files.head \in Id
    BY <1>2, TargetIs DEF OnDisk
  <2>3. \A g \in hinting : data[g] # Absent /\ hint[g] = Absent /\ g \in Id
    BY <1>6 DEF MemoryGood, HintsKnown, TypeInv, MemoryType
  <2>4. \A g \in hinting' : g # Target /\ data'[g] # Absent /\ hint'[g] = Absent
    BY <2>1, <2>2, <2>3, <1>1, <1>9, <1>14 DEF OnDisk
  <2>5. \A g \in Id : hint'[g] # Absent => hasHint'[g] \/ scan'[g] # Absent
    BY <1>1, <1>6 DEF MemoryGood, HintsKnown
  <2> QED BY <2>4, <2>5, <1>1, <1>10, <1>14, <1>17 DEF HintsKnown
<1>19. PutPlaced'
  BY <1>10, <1>15, <1>17 DEF PutPlaced
<1>20. IndexGood'
  BY <1>1, <1>2, <1>10, <1>15 DEF IndexGood
<1> QED BY <1>16, <1>18, <1>19, <1>20 DEF MemoryGood

\* The put returns: its record is the last one of its key.
LEMMA PutIndexData ==
    ASSUME TypeInv, CallsInv, DataInv, PutIndex
    PROVE  DataInv'
<1> SUFFICES ASSUME Clean' PROVE DataInv'
  BY DEF DataInv
<1>0. DiskType /\ MemoryType /\ HistoryType /\ FilesLinked
  BY DEF TypeInv
<1>1. UNCHANGED <<data, hint, temp, up, files, hasHint, hinting, scan, puts, cut, dirty, overlap,
                  damaged, pc>>
  BY DEF PutIndex, disk, comp, counts, flags
<1>2. PICK r : r = put /\ r \in PutRecord /\ r # Absent
  BY <1>0 DEF PutIndex, MemoryType
<1>3. PICK k, pos : k = r.rec.key /\ pos = r.pos /\ k \in Keys
  BY <1>2 DEF PutRecord, Written
<1>4. /\ keydir' = [x \in DOMAIN keydir \cup {k} |-> IF x = k THEN pos ELSE keydir[x]]
      /\ latest' = [latest EXCEPT ![k] = r.rec.ver] /\ put' = Absent /\ up
  BY <1>2, <1>3 DEF PutIndex
<1>5. Clean /\ pc = "idle" /\ pc' = "idle"
  BY <1>1, <1>2 DEF Clean, CallsInv
<1> SUFFICES ASSUME cut' => NoTemps' PROVE DiskGood' /\ MemoryGood'
  BY <1>5 DEF DataInv
<1>6. DiskGood /\ MemoryGood
  BY <1>1, <1>4, <1>5 DEF DataInv, NoTemps
<1>7. PICK f, n : f = files.head /\ n = Len(data[f])
  OBVIOUS
<1>8. pos.file = f /\ pos.n = n /\ n \in DOMAIN data[f] /\ data[f][n] = r.rec
  BY <1>2, <1>3, <1>6, <1>7 DEF MemoryGood, PutPlaced
<1>9. f \in OnDisk /\ \A g \in OnDisk : g <= f
  <2>1. f \in Nodes /\ \A g \in Nodes : g <= f
    BY <1>0, <1>4, <1>7, ActiveFile
  <2> QED BY <2>1, <1>0, <1>4, <1>5 DEF FilesLinked
<1>10. Stored(data, OnDisk)
  BY <1>0, DiskStored
<1>11. IsLast(data, OnDisk, k, f, n)
  <2>1. ASSUME NEW g \in OnDisk, NEW m \in DOMAIN data[g] PROVE g < f \/ (g = f /\ m <= n)
    <3>1. g \in Nat /\ f \in Nat /\ g <= f /\ data[g] \in Seq(Record)
      BY <1>9, <1>10 DEF Stored
    <3>2. Len(data[g]) \in Nat /\ DOMAIN data[g] = 1 .. Len(data[g])
      BY <3>1, LenProperties
    <3>3. g = f => m <= n
      BY <3>2, <1>7
    <3> QED BY <3>1, <3>3
  <2> QED BY <2>1, <1>3, <1>8, <1>9 DEF IsLast
<1>12. OnDisk' = OnDisk
  BY <1>1 DEF OnDisk
<1>13. r.rec.ver = puts
  BY <1>2 DEF CallsInv
<1>14. ASSUME NEW x \in Keys PROVE KeyGood(data, OnDisk, x, latest'[x], puts)
  <2>1. CASE x = k
    <3>1. latest'[x] = puts
      BY <2>1, <1>0, <1>4, <1>13 DEF HistoryType
    <3>2. ~NoRecord(data, OnDisk, x)
      BY <2>1, <1>11 DEF IsLast, NoRecord
    <3>3. ASSUME NEW g, NEW m, IsLast(data, OnDisk, x, g, m) PROVE data[g][m].ver = puts
      <4>1. g = f /\ m = n
        BY <2>1, <3>3, <1>10, <1>11, OneLast
      <4> QED BY <4>1, <1>8, <1>13
    <3> QED BY <3>1, <3>2, <3>3 DEF KeyGood, Finds
  <2>2. CASE x # k
    <3>1. latest'[x] = latest[x]
      BY <2>2, <1>0, <1>4 DEF HistoryType
    <3> QED BY <3>1, <1>6 DEF DiskGood, ValuesGood
  <2> QED BY <2>1, <2>2
<1>15. DiskGood'
  <2>1. ValuesGood(data, OnDisk, latest', puts)
    BY <1>14 DEF ValuesGood
  <2>2. TornEnd(data, OnDisk) /\ HintsGood
    BY <1>6 DEF DiskGood
  <2>3. HintsGood'
    BY <2>2, <1>1 DEF HintsGood, Scanned
  <2> QED BY <2>1, <2>2, <2>3, <1>1, <1>12 DEF DiskGood
<1>16. ASSUME NEW x \in Keys PROVE Serves(keydir', data, OnDisk, x, latest'[x], puts)
  <2>1. CASE x = k
    <3>1. x \in DOMAIN keydir' /\ keydir'[x] = pos
      BY <2>1, <1>4
    <3>2. latest'[x] = puts
      BY <2>1, <1>0, <1>4, <1>13 DEF HistoryType
    <3>3. data[f][n].key = x /\ Finds(data[f][n].ver, latest'[x], puts)
      BY <2>1, <3>2, <1>3, <1>8, <1>13 DEF Finds
    <3> QED BY <3>1, <3>3, <1>8, <1>9 DEF Serves
  <2>2. CASE x # k
    <3>1. Serves(keydir, data, OnDisk, x, latest[x], puts) /\ latest'[x] = latest[x]
      BY <2>2, <1>0, <1>4, <1>6 DEF MemoryGood, IndexGood, HistoryType
    <3>2. (x \in DOMAIN keydir' <=> x \in DOMAIN keydir) /\ (x \in DOMAIN keydir => keydir'[x] = keydir[x])
      BY <2>2, <1>4
    <3> QED BY <3>1, <3>2 DEF Serves
  <2> QED BY <2>1, <2>2
<1>17. IndexGood'
  BY <1>1, <1>12, <1>16 DEF IndexGood
<1>18. HintsKnown' /\ PutPlaced'
  BY <1>1, <1>4, <1>6 DEF MemoryGood, HintsKnown, PutPlaced
<1> QED BY <1>15, <1>17, <1>18 DEF MemoryGood

\* There is no memory for the entry: the index serves what it served.
LEMMA PutNoMemoryData ==
    ASSUME TypeInv, CallsInv, DataInv, PutNoMemory
    PROVE  DataInv'
<1> SUFFICES ASSUME Clean' PROVE DataInv'
  BY DEF DataInv
<1>1. UNCHANGED <<data, hint, temp, up, files, hasHint, hinting, scan, keydir, latest, puts, cut, dirty,
                  overlap, damaged, pc>>
  BY DEF PutNoMemory, disk, comp, counts, flags
<1>2. up /\ put # Absent /\ put' = Absent
  BY DEF PutNoMemory
<1>3. Clean /\ pc = "idle" /\ pc' = "idle"
  BY <1>1, <1>2 DEF Clean, CallsInv
<1> SUFFICES ASSUME cut' => NoTemps' PROVE DiskGood' /\ MemoryGood'
  BY <1>3 DEF DataInv
<1>4. DiskGood /\ MemoryGood
  BY <1>1, <1>2, <1>3 DEF DataInv, NoTemps
<1>5. OnDisk' = OnDisk
  BY <1>1 DEF OnDisk
<1>6. DiskGood'
  BY <1>1, <1>4, DiskSame
<1>7. HintsKnown' /\ PutPlaced' /\ IndexGood'
  BY <1>1, <1>2, <1>4, <1>5 DEF MemoryGood, HintsKnown, PutPlaced, IndexGood
<1> QED BY <1>6, <1>7 DEF MemoryGood

\* A file whose hints are all written has the hints of its datafile.
LEMMA ScanComplete ==
    ASSUME TypeInv, NEW f \in Id, scan[f] # Absent, Scanned(f), ~Unfinished(f)
    PROVE  hint[f] = Hints(data[f])
<1>1. PICK s, h, a : s = scan[f] /\ h = hint[f] /\ a = s.all
  OBVIOUS
<1>2. s \in ScanRecord /\ h \in Seq(HintRecord)
  BY <1>1 DEF TypeInv, MemoryType, DiskType, HintFile, Scanned
<1>3. a \in Seq(HintRecord) /\ s.n \in Nat
  BY <1>1, <1>2 DEF ScanRecord
<1>4. Len(a) \in Nat /\ Len(h) \in Nat
  BY <1>2, <1>3, LenProperties
<1>5. a = Hints(data[f]) /\ Len(h) = s.n /\ s.n <= Len(a) /\ ~(s.n < Len(a))
      /\ \A i \in 1 .. s.n : h[i] = a[i]
  BY <1>1 DEF Scanned, Unfinished
<1>6. Len(h) = Len(a)
  BY <1>3, <1>4, <1>5
<1>7. h = a
  BY <1>2, <1>3, <1>5, <1>6, SeqEqual
<1> QED BY <1>1, <1>5, <1>7

\* What a step of the thread of f leaves of the hints of f, when it leaves no damage.
HintLeft(f) ==
    \/ hint'[f] = hint[f] /\ scan'[f] = scan[f] /\ hasHint'[f] = hasHint[f]
    \/ hint'[f] = Absent /\ scan'[f] = Absent
    \/ scan'[f] # Absent /\ hint'[f] # Absent /\ Scanned(f)'
    \/ scan'[f] = Absent /\ hint'[f] = Hints(data[f]) /\ hasHint'[f]
\* A file that takes no more records gets its hints, one after the other.
LEMMA HintLeaves ==
    ASSUME TypeInv, NEW f \in Id, HintStep(f), ~damaged', DiskGood, MemoryGood
    PROVE  /\ data[f] # Absent /\ f # files.head /\ HintLeft(f)
           /\ \A g \in Id : g # f => hint'[g] = hint[g] /\ scan'[g] = scan[g] /\ hasHint'[g] = hasHint[g]
           /\ hinting' = hinting \/ (f \in hinting /\ hinting' = hinting \ {f})
           /\ hint'[f] # Absent => f \notin hinting'
<1>0. hint \in [Id -> HintFile] /\ scan \in [Id -> ScanRecord \cup {Absent}] /\ hasHint \in [Id -> BOOLEAN]
  BY DEF TypeInv, DiskType, MemoryType
<1>1. f \in hinting => data[f] # Absent /\ f # files.head /\ hint[f] = Absent
  BY DEF MemoryGood, HintsKnown
<1>2. /\ scan[f] # Absent => Scanned(f) /\ hint[f] # Absent /\ data[f] # Absent
      /\ hint[files.head] = Absent
  BY DEF DiskGood, HintsGood, Scanned, MemoryGood, HintsKnown
<1>3. data' = data
  BY HintSame
<1>4. data[f] # Absent => Hints(data[f]) \in Seq(HintRecord) /\ Len(Hints(data[f])) \in Nat
  <2>1. data[f] # Absent => data[f] \in Seq(Record)
    BY DEF TypeInv, DiskType, File
  <2> QED BY <2>1, HintsAre, LenProperties
<1>5. CASE HintOpen(f)
  <2>0. f \in hinting /\ hinting' = hinting \ {f} /\ hasHint' = hasHint
    BY <1>5 DEF HintOpen
  <2>1. data[f] # Absent /\ f # files.head /\ hint[f] = Absent
    BY <2>0, <1>1
  <2>2. \/ hint' = hint /\ scan' = scan
        \/ hint' = [hint EXCEPT ![f] = <<>>] /\ scan' = [scan EXCEPT ![f] = [all |-> Hints(data[f]), n |-> 0]]
    BY <1>5, <2>1 DEF HintOpen
  <2>3. CASE hint' = hint /\ scan' = scan
    BY <2>0, <2>1, <2>3 DEF HintLeft
  <2>4. CASE hint' = [hint EXCEPT ![f] = <<>>] /\ scan' = [scan EXCEPT ![f] = [all |-> Hints(data[f]), n |-> 0]]
    <3>1. PICK s : s = [all |-> Hints(data[f]), n |-> 0]
      OBVIOUS
    <3>2. s \in ScanRecord /\ s.all = Hints(data[f]) /\ s.n = 0
      BY <3>1, <2>1, <1>4 DEF ScanRecord
    <3>3. scan'[f] = s /\ hint'[f] = <<>>
      BY <2>4, <3>1, <1>0
    <3>4. s # Absent /\ <<>> # Absent /\ <<>> \in Seq(HintRecord) /\ Len(<<>>) = 0
      BY <3>2, NotAbsent, EmptySeq
    <3>5. Scanned(f)'
      BY <2>1, <3>2, <3>3, <3>4, <1>3, <1>4 DEF Scanned
    <3>6. HintLeft(f)
      BY <3>3, <3>4, <3>5 DEF HintLeft
    <3> QED BY <2>0, <2>1, <2>4, <3>6, <1>0
  <2> QED BY <2>2, <2>3, <2>4
<1>6. CASE scan[f] # Absent
  <2>1. data[f] # Absent /\ f # files.head /\ Scanned(f) /\ hint[f] # Absent /\ f \notin hinting
    BY <1>1, <1>2, <1>6
  <2>2. CASE HintWrite(f)
    <3>1. PICK s, h, r, n : /\ s = scan[f] /\ h = hint[f] /\ n = s.n /\ r = s.all[n + 1]
      OBVIOUS
    <3>2. Unfinished(f)
      BY <2>2 DEF HintWrite
    <3>3. /\ s \in ScanRecord /\ s.all \in Seq(HintRecord) /\ n \in Nat /\ n + 1 \in 1 .. Len(s.all)
          /\ Len(s.all) \in Nat /\ r \in HintRecord
      BY <3>1, <3>2, HintNext
    <3>4. h \in Seq(HintRecord) /\ Len(h) = n /\ s.all = Hints(data[f]) /\ \A i \in 1 .. n : h[i] = s.all[i]
      BY <2>1, <3>1, <1>0 DEF Scanned, HintFile
    <3>5. hint' = [hint EXCEPT ![f] = Append(h, r)]
      BY <2>1, <2>2, <3>1 DEF HintWrite
    <3>6. scan' = [scan EXCEPT ![f] = [s EXCEPT !.n = n + 1]]
      BY <2>2, <3>1 DEF HintWrite
    <3>7. PICK z, x : z = [s EXCEPT !.n = n + 1] /\ x = Append(h, r)
      OBVIOUS
    <3>8. z \in ScanRecord /\ z.n = n + 1 /\ z.all = s.all
      BY <3>3, <3>7 DEF ScanRecord
    <3>9. x \in Seq(HintRecord) /\ Len(x) = n + 1 /\ (\A i \in 1 .. n : x[i] = h[i]) /\ x[n + 1] = r
      BY <3>3, <3>4, <3>7, AppendProperties
    <3>10. \A i \in 1 .. n + 1 : x[i] = s.all[i]
      <4>1. \A i \in 1 .. n + 1 : i = n + 1 \/ i \in 1 .. n
        BY <3>3
      <4> QED BY <4>1, <3>1, <3>4, <3>9
    <3>11. scan'[f] = z /\ hint'[f] = x /\ z # Absent /\ x # Absent
      BY <3>5, <3>6, <3>7, <3>8, <3>9, <1>0, NotAbsent
    <3>12. Scanned(f)'
      BY <3>3, <3>4, <3>8, <3>9, <3>10, <3>11, <1>3 DEF Scanned
    <3>13. HintLeft(f)
      BY <3>11, <3>12 DEF HintLeft
    <3>14. hinting' = hinting /\ hasHint' = hasHint
      BY <2>2 DEF HintWrite
    <3> QED BY <2>1, <3>5, <3>6, <3>13, <3>14, <1>0
  <2>3. CASE HintFails(f)
    <3>1. hint' = [hint EXCEPT ![f] = Absent] /\ scan' = [scan EXCEPT ![f] = Absent]
          /\ hinting' = hinting /\ hasHint' = hasHint
      BY <2>3 DEF HintFails
    <3>2. hint'[f] = Absent /\ scan'[f] = Absent
      BY <3>1, <1>0
    <3> QED BY <2>1, <3>1, <3>2, <1>0 DEF HintLeft
  <2>4. CASE HintDone(f)
    <3>1. /\ hasHint' = [hasHint EXCEPT ![f] = TRUE] /\ scan' = [scan EXCEPT ![f] = Absent]
          /\ hint' = hint /\ hinting' = hinting /\ ~Unfinished(f)
      BY <2>4 DEF HintDone
    <3>2. hint[f] = Hints(data[f])
      BY <2>1, <3>1, <1>6, ScanComplete
    <3>3. HintLeft(f)
      BY <3>1, <3>2, <1>0 DEF HintLeft
    <3> QED BY <2>1, <3>1, <3>3, <1>0
  <2>5. CASE HintOpen(f)
    BY <2>1, <2>5 DEF HintOpen
  <2> QED BY <2>2, <2>3, <2>4, <2>5 DEF HintStep
<1> QED BY <1>5, <1>6 DEF HintStep, HintWrite, HintFails, HintDone, Unfinished

\* A hint thread beside no compaction.
LEMMA HintData ==
    ASSUME TypeInv, CallsInv, DataInv, NEW f \in Id, HintStep(f)
    PROVE  DataInv'
<1> SUFFICES ASSUME Clean' PROVE DataInv'
  BY DEF DataInv
<1>0. DiskType /\ MemoryType /\ FilesLinked
  BY DEF TypeInv
<1>1. UNCHANGED <<data, temp, up, files, keydir, put, latest, puts, cut, dirty, overlap, pc>>
  BY HintSame
<1>2. up /\ (f \in hinting \/ scan[f] # Absent) /\ (damaged => damaged')
  <2>1. CASE HintOpen(f)
    <3>1. up /\ f \in hinting /\ (damaged' = damaged \/ damaged' = TRUE)
      BY <2>1 DEF HintOpen
    <3> QED BY <3>1
  <2>2. CASE HintWrite(f)
    BY <2>2 DEF HintWrite, Unfinished
  <2>3. CASE HintFails(f)
    <3>1. up /\ scan[f] # Absent /\ (damaged' = damaged \/ damaged' = TRUE)
      BY <2>3 DEF HintFails, Unfinished
    <3> QED BY <3>1
  <2>4. CASE HintDone(f)
    BY <2>4, Zenon DEF HintDone
  <2> QED BY <2>1, <2>2, <2>3, <2>4 DEF HintStep
<1>3. Clean /\ pc = "idle" /\ pc' = "idle"
  BY <1>1, <1>2 DEF Clean, CallsInv, NoScans
<1> SUFFICES ASSUME cut' => NoTemps' PROVE DiskGood' /\ MemoryGood'
  BY <1>3 DEF DataInv
<1>4. DiskGood /\ MemoryGood
  BY <1>1, <1>2, <1>3 DEF DataInv, NoTemps
<1>5. /\ data[f] # Absent /\ f # files.head /\ HintLeft(f)
      /\ \A g \in Id : g # f => hint'[g] = hint[g] /\ scan'[g] = scan[g] /\ hasHint'[g] = hasHint[g]
      /\ hinting' = hinting \/ (f \in hinting /\ hinting' = hinting \ {f})
      /\ hint'[f] # Absent => f \notin hinting'
  BY <1>4, HintLeaves DEF Clean
<1>6. OnDisk' = OnDisk
  BY <1>1 DEF OnDisk
<1>7. \A g \in Id : /\ hint[g] # Absent => data[g] # Absent /\ (scan[g] = Absent => hint[g] = Hints(data[g]))
                    /\ scan[g] # Absent => Scanned(g)
  BY <1>4 DEF DiskGood, HintsGood
<1>8. ASSUME NEW g \in Id, hint'[g] = hint[g], scan'[g] = scan[g], Scanned(g) PROVE Scanned(g)'
  BY <1>1, <1>8 DEF Scanned
<1>9. HintsGood'
  <2>1. ASSUME NEW g \in Id
        PROVE  /\ hint'[g] # Absent => data[g] # Absent /\ (scan'[g] = Absent => hint'[g] = Hints(data[g]))
               /\ scan'[g] # Absent => Scanned(g)'
    <3>1. CASE g # f
      BY <3>1, <1>5, <1>7, <1>8
    <3>2. CASE g = f
      BY <3>2, <1>5, <1>7, <1>8 DEF HintLeft
    <3> QED BY <3>1, <3>2
  <2> QED BY <2>1, <1>1 DEF HintsGood
<1>10. DiskGood'
  BY <1>1, <1>4, <1>6, <1>9 DEF DiskGood
<1>11. HintsKnown'
  <2>1. files.head \in Id
    BY <1>0, <1>2, ActiveFile
  <2>2. hint'[files'.head] = Absent
    BY <2>1, <1>1, <1>4, <1>5 DEF MemoryGood, HintsKnown
  <2>3. \A g \in hinting' : g # files'.head /\ data'[g] # Absent /\ hint'[g] = Absent
    <3>1. \A g \in hinting : g \in Id /\ g # files.head /\ data[g] # Absent /\ hint[g] = Absent
      BY <1>0, <1>4 DEF MemoryGood, HintsKnown, MemoryType
    <3> QED BY <3>1, <1>1, <1>5
  <2>4. \A g \in Id : hint[g] # Absent => hasHint[g] \/ scan[g] # Absent
    BY <1>4 DEF MemoryGood, HintsKnown
  <2>5. \A g \in Id : hint'[g] # Absent => hasHint'[g] \/ scan'[g] # Absent
    BY <2>4, <1>5 DEF HintLeft
  <2> QED BY <2>2, <2>3, <2>5 DEF HintsKnown
<1>12. PutPlaced' /\ IndexGood'
  BY <1>1, <1>4, <1>6 DEF MemoryGood, PutPlaced, IndexGood
<1> QED BY <1>10, <1>11, <1>12 DEF MemoryGood

-----------------------------------------------------------------------------
(* The data: the copy *)

\* The copy begins with one empty file.
LEMMA BeginData ==
    ASSUME TypeInv, CallsInv, DataInv, Begin
    PROVE  DataInv'
<1> SUFFICES ASSUME Clean' PROVE DataInv'
  BY DEF DataInv
<1>0. DiskType
  BY DEF TypeInv
<1>1. UNCHANGED <<data, hint, up, files, hasHint, hinting, scan, keydir, put, latest, puts, damaged>>
  BY DEF Begin, memory
<1>2. /\ up /\ pc = "idle" /\ pc' = "copy" /\ todo' = DOMAIN keydir /\ curr' = 0
      /\ dirty' = (dirty \/ \E f \in Id : temp[f] # Absent)
      /\ (overlap => overlap')
      /\ temp' = [temp EXCEPT ![0] = IF @ = Absent THEN <<>> ELSE @]
  BY DEF Begin, OpenTemp
<1>3. Clean /\ NoTemps
  BY <1>1, <1>2 DEF Clean, NoTemps
<1>4. DiskGood /\ MemoryGood
  BY <1>2, <1>3 DEF DataInv
<1>5. DiskGood' /\ MemoryGood'
  BY <1>1, <1>4, DiskSame, MemorySame
<1>6. 0 \in Id /\ Id \subseteq Nat
  BY CompactorAssumption DEF Id
<1>7. temp'[0] = <<>> /\ \A f \in Id : f # 0 => temp'[f] = Absent
  BY <1>0, <1>2, <1>3, <1>6 DEF DiskType, NoTemps
<1>8. <<>> # Absent /\ DOMAIN temp'[0] = {}
  <2>1. temp'[0] \in Seq(Record) /\ Len(temp'[0]) = 0
    BY <1>7, EmptySeq
  <2>2. DOMAIN temp'[0] = 1 .. 0
    BY <2>1, LenProperties
  <2>3. temp'[0] # Absent
    BY <2>1, NotAbsent
  <2> QED BY <2>2, <2>3, <1>7
<1>9. CopyGood'
  <2>1. \A f \in Id : temp'[f] # Absent <=> f <= curr'
    BY <1>2, <1>6, <1>7, <1>8
  <2>2. \A f \in 0 .. curr' : f = 0
    BY <1>2
  <2>3. \A f \in 0 .. curr' : DOMAIN temp'[f] = {}
    BY <2>2, <1>8
  <2>4. Untorn(temp', 0 .. curr')
    BY <2>3 DEF Untorn
  <2>5. DOMAIN keydir' \ todo' = {}
    BY <1>1, <1>2
  <2> QED BY <2>1, <2>3, <2>4, <2>5 DEF CopyGood
<1> QED BY <1>2, <1>5, <1>9 DEF DataInv

\* In a copy, the entry of every key leads to a record of it that may be found.
LEMMA EntryReads ==
    ASSUME TypeInv, DataInv, Clean, up, pc = "copy", NEW k \in DOMAIN keydir
    PROVE  /\ k \in Keys /\ keydir[k].file \in OnDisk /\ keydir[k].n \in DOMAIN data[keydir[k].file]
           /\ data[keydir[k].file][keydir[k].n].key = k
           /\ data[keydir[k].file][keydir[k].n] # Torn
           /\ Finds(data[keydir[k].file][keydir[k].n].ver, latest[k], puts)
<1>1. k \in Keys
  BY DEF TypeInv, MemoryType
<1>2. MemoryGood
  BY DEF Clean, DataInv
<1>3. PICK f, n : f = keydir[k].file /\ n = keydir[k].n
  OBVIOUS
<1>4. f \in OnDisk /\ n \in DOMAIN data[f] /\ data[f][n].key = k /\ Finds(data[f][n].ver, latest[k], puts)
  BY <1>1, <1>2, <1>3 DEF MemoryGood, IndexGood, Serves
<1>5. data[f][n] # Torn
  BY <1>1, <1>4, WholeRecord
<1> QED BY <1>1, <1>3, <1>4, <1>5

\* The record of one more key is copied.
LEMMA CopyData ==
    ASSUME TypeInv, CallsInv, DataInv, up, NEW k \in Keys, Copy(k)
    PROVE  DataInv'
<1> SUFFICES ASSUME Clean' PROVE DataInv'
  BY DEF DataInv
<1>0. DiskType /\ CompType
  BY DEF TypeInv
<1>1. UNCHANGED <<data, hint, up, files, hasHint, hinting, scan, keydir, put, latest, puts,
                  overlap, dirty, damaged, pc>>
  BY DEF Copy, compUnchanged, memory, flags
<1>2. pc = "copy" /\ TempFor \in Id /\ curr' = TempFor /\ todo' = todo \ {k} /\ k \in todo
  BY DEF Copy
<1>3. Clean /\ DiskGood /\ MemoryGood /\ CopyGood
  BY <1>1, <1>2 DEF Clean, DataInv
<1>4. DiskGood' /\ MemoryGood'
  BY <1>1, <1>3, DiskSame, MemorySame
<1>5. PICK t, r, kept : /\ t = TempFor /\ r = data[keydir[k].file][keydir[k].n] /\ kept = Kept
                        /\ temp' = [temp EXCEPT ![t] = Append(kept, r)]
  BY Zenon DEF Copy, Kept
<1>6. todo \subseteq DOMAIN keydir /\ k \in DOMAIN keydir
  BY <1>0, <1>2 DEF CompType
<1>7. r.key = k /\ r # Torn
  BY <1>2, <1>3, <1>5, <1>6, EntryReads
<1>8. PICK new : new = Append(kept, r) /\ temp' = [temp EXCEPT ![t] = new]
  BY <1>5
<1>9. kept \in Seq(Record) /\ t \in Id /\ curr \in Id /\ Id \subseteq Nat /\ curr \in Nat /\ t \in Nat
      /\ (t = curr \/ t = curr + 1)
  <2>1. kept \in Seq(Record)
    BY <1>2, <1>5, TempForType
  <2>2. t \in Id /\ curr \in Id /\ Id \subseteq Nat
    BY <1>0, <1>2, <1>5, CompactorAssumption DEF CompType, Id
  <2>3. t = curr \/ t = curr + 1
    BY <1>5 DEF TempFor
  <2> QED BY <2>1, <2>2, <2>3
<1>10. PICK n : n = Len(kept) + 1 /\ n \in Nat /\ DOMAIN kept = 1 .. Len(kept) /\ Len(kept) \in Nat
  BY <1>9, LenProperties
<1>11. r \in Record
  <2>2. PICK f, m : f = keydir[k].file /\ m = keydir[k].n /\ f \in OnDisk /\ m \in DOMAIN data[f]
    BY <1>2, <1>3, <1>6, EntryReads
  <2>3. data[f] \in Seq(Record)
    BY <2>2, <1>0, DiskStored DEF Stored
  <2> QED BY <2>2, <2>3, <1>5, LenProperties, ElementOfSeq
<1>12. /\ DOMAIN new = 1 .. n /\ new[n] = r /\ new # Absent
       /\ \A i \in 1 .. Len(kept) : new[i] = kept[i]
  BY <1>8, <1>9, <1>10, <1>11, AppendProperties, AppendedFile, LenProperties
<1>13. temp'[t] = new /\ \A f \in Id : f # t => temp'[f] = temp[f]
  BY <1>0, <1>8, <1>9 DEF DiskType
<1>14. \A f \in Id : temp[f] # Absent <=> f <= curr
  BY <1>3 DEF CopyGood
<1>15. (temp[t] = Absent => Len(kept) = 0) /\ (temp[t] # Absent => kept = temp[t] /\ t = curr)
  <2>1. temp[t] = Absent => Len(kept) = 0
    BY <1>5, EmptySeq DEF Kept
  <2>2. temp[t] # Absent => kept = temp[t]
    BY <1>5 DEF Kept
  <2>3. temp[t] # Absent => t <= curr
    BY <1>9, <1>14
  <2> QED BY <2>1, <2>2, <2>3, <1>9
<1>16. \A f \in 0 .. t : f \in Id /\ (f # t => f \in 0 .. curr)
  <2>1. t <= MaxFiles /\ MaxFiles \in Nat
    BY <1>9, CompactorAssumption DEF Id
  <2>2. \A f \in 0 .. t : f \in Nat /\ f <= MaxFiles /\ (f # t => f <= curr)
    BY <2>1, <1>9
  <2> QED BY <2>2, <2>1, <1>9 DEF Id
<1>17. \A f \in 0 .. curr : f \in 0 .. t
  BY <1>9
<1>18. ASSUME NEW f \in 0 .. t, NEW m \in DOMAIN temp'[f]
       PROVE  (f = t /\ m = n)
              \/ (f \in 0 .. curr /\ m \in DOMAIN temp[f] /\ temp'[f][m] = temp[f][m])
  <2>1. CASE f = t
    <3>1. m \in 1 .. n
      BY <2>1, <1>12, <1>13
    <3>2. m = n \/ m \in 1 .. Len(kept)
      BY <3>1, <1>10
    <3>3. CASE m \in 1 .. Len(kept)
      <4>1. Len(kept) # 0
        BY <3>3
      <4>2. kept = temp[t] /\ t = curr
        BY <4>1, <1>15
      <4>3. f \in 0 .. curr
        BY <4>2
      <4>4. m \in DOMAIN temp[f] /\ temp'[f][m] = temp[f][m]
        BY <2>1, <3>3, <4>2, <1>10, <1>12, <1>13
      <4> QED BY <4>3, <4>4
    <3> QED BY <2>1, <3>2, <3>3
  <2>2. CASE f # t
    BY <2>2, <1>13, <1>16
  <2> QED BY <2>1, <2>2
<1>19. ASSUME NEW f \in 0 .. curr, NEW m \in DOMAIN temp[f]
       PROVE  f \in 0 .. t /\ m \in DOMAIN temp'[f] /\ temp'[f][m] = temp[f][m]
  <2>1. CASE f = t
    <3>1. temp[t] # Absent
      BY <2>1, <1>9, <1>14
    <3>2. kept = temp[t]
      BY <3>1, <1>15
    <3>3. m \in 1 .. Len(kept) /\ m \in 1 .. n
      BY <2>1, <3>2, <1>10
    <3> QED BY <2>1, <3>2, <3>3, <1>12, <1>13, <1>17
  <2>2. CASE f # t
    BY <2>2, <1>13, <1>16, <1>17
  <2> QED BY <2>1, <2>2
<1>20. t \in 0 .. t /\ n \in DOMAIN temp'[t] /\ temp'[t][n] = r
  BY <1>9, <1>10, <1>12, <1>13
<1>21. CopyGood'
  <2>1. \A f \in Id : temp'[f] # Absent <=> f <= t
    <3>1. ASSUME NEW f \in Id PROVE temp'[f] # Absent <=> f <= t
      <4>1. CASE f = t
        BY <4>1, <1>9, <1>12, <1>13
      <4>2. CASE f # t
        <5>1. f <= t <=> f <= curr
          BY <4>2, <1>9, <1>14, <1>15
        <5> QED BY <5>1, <4>2, <1>13, <1>14
      <4> QED BY <4>1, <4>2
    <3> QED BY <3>1
  <2>2. Untorn(temp', 0 .. t)
    <3>1. Untorn(temp, 0 .. curr)
      BY <1>3 DEF CopyGood
    <3> QED BY <3>1, <1>7, <1>18, <1>20 DEF Untorn
  <2>3. ASSUME NEW f \in 0 .. t, NEW m \in DOMAIN temp'[f]
        PROVE  \E x \in DOMAIN keydir \ (todo \ {k}) :
                  temp'[f][m].key = x /\ temp'[f][m] = data[keydir[x].file][keydir[x].n]
    <3>1. CASE f = t /\ m = n
      BY <3>1, <1>5, <1>6, <1>7, <1>20
    <3>2. CASE f \in 0 .. curr /\ m \in DOMAIN temp[f] /\ temp'[f][m] = temp[f][m]
      <4>1. PICK x \in DOMAIN keydir \ todo :
                temp[f][m].key = x /\ temp[f][m] = data[keydir[x].file][keydir[x].n]
        BY <3>2, <1>3 DEF CopyGood
      <4>2. x \in DOMAIN keydir \ (todo \ {k})
        BY <4>1
      <4> QED BY <3>2, <4>1, <4>2
    <3> QED BY <3>1, <3>2, <1>18
  <2>4. ASSUME NEW x \in DOMAIN keydir \ (todo \ {k}) PROVE ~NoRecord(temp', 0 .. t, x)
    <3>1. CASE x = k
      BY <3>1, <1>7, <1>20 DEF NoRecord
    <3>2. CASE x # k
      <4>1. ~NoRecord(temp, 0 .. curr, x)
        BY <3>2, <1>3 DEF CopyGood
      <4>2. PICK f \in 0 .. curr : \E m \in DOMAIN temp[f] : temp[f][m].key = x
        BY <4>1 DEF NoRecord
      <4> QED BY <4>2, <1>19 DEF NoRecord
    <3> QED BY <3>1, <3>2
  <2>5. curr' = t /\ todo' = todo \ {k} /\ keydir' = keydir /\ data' = data
    BY <1>1, <1>2, <1>5
  <2> QED BY <2>1, <2>2, <2>3, <2>4, <2>5 DEF CopyGood
<1> QED BY <1>1, <1>2, <1>4, <1>21 DEF DataInv

\* The function returns from the copy: the datafiles are untouched.
LEMMA CopyReturnsData ==
    ASSUME TypeInv, CallsInv, DataInv, up, CopyNoMemory \/ CopyFails
    PROVE  DataInv'
<1> SUFFICES ASSUME Clean' PROVE DataInv'
  BY DEF DataInv
<1>1. UNCHANGED compUnchanged /\ ReturnIdle /\ pc = "copy"
  BY DEF CopyNoMemory, CopyFails, Cancel
<1>2. UNCHANGED <<data, hint, up, files, hasHint, hinting, scan, keydir, put, latest, puts,
                  overlap, dirty, damaged>>
  BY <1>1 DEF compUnchanged, memory, flags
<1>3. pc' = "idle"
  BY <1>1 DEF ReturnIdle
<1>4. DiskGood /\ MemoryGood
  BY <1>1, <1>2 DEF Clean, DataInv
<1>5. DiskGood' /\ MemoryGood'
  BY <1>2, <1>4, DiskSame, MemorySame
<1> QED BY <1>3, <1>5 DEF DataInv

\* The copy is complete: the temporary files hold the values of the datafiles.
LEMMA CopyDoneData ==
    ASSUME TypeInv, CallsInv, DataInv, up, CopyDone
    PROVE  DataInv'
<1> SUFFICES ASSUME Clean' PROVE DataInv'
  BY DEF DataInv
<1>0. DiskType /\ CompType /\ FilesLinked /\ MemoryType
  BY DEF TypeInv
<1>1. UNCHANGED <<data, hint, temp, up, files, hasHint, hinting, scan, keydir, put, latest, puts,
                  overlap, dirty, cut, damaged, curr, failed>>
  BY DEF CopyDone, compUnchanged, memory, flags
<1>2. pc = "copy" /\ todo = {} /\ pc' = "delete" /\ at' = files.tail
  BY DEF CopyDone
<1>3. Clean /\ DiskGood /\ MemoryGood /\ CopyGood /\ ~failed /\ NoScans
  BY <1>1, <1>2 DEF Clean, DataInv, CallsInv
<1>4. \A f \in 0 .. curr : f \in Id /\ temp[f] # Absent
  <2>1. curr \in Nat /\ curr <= MaxFiles /\ MaxFiles \in Nat
    BY <1>0, CompactorAssumption DEF CompType, Id
  <2>2. \A f \in 0 .. curr : f \in Id /\ f <= curr
    BY <2>1 DEF Id
  <2> QED BY <2>2, <1>3 DEF CopyGood
<1>5. \A f \in 0 .. curr : Contents[f] = temp[f]
  BY <1>4 DEF Contents
<1>6. PICK c, S : c = Contents /\ S = 0 .. curr
  OBVIOUS
<1>7. SameRecords(temp, S, c, S)
  BY <1>5, <1>6 DEF SameRecords
<1>8. Untorn(c, S)
  BY <1>3, <1>5, <1>6 DEF CopyGood, Untorn
<1>9. ASSUME NEW k \in Keys PROVE KeyGood(temp, S, k, latest[k], puts)
  <2>1. ASSUME NEW f, NEW n, IsLast(temp, S, k, f, n) PROVE Finds(temp[f][n].ver, latest[k], puts)
    <3>1. f \in S /\ n \in DOMAIN temp[f] /\ temp[f][n].key = k
      BY <2>1 DEF IsLast
    <3>2. k \in DOMAIN keydir /\ temp[f][n] = data[keydir[k].file][keydir[k].n]
      BY <3>1, <1>3, <1>6 DEF CopyGood
    <3>3. PICK g, m : g = keydir[k].file /\ m = keydir[k].n
      OBVIOUS
    <3>4. Finds(data[g][m].ver, latest[k], puts)
      BY <3>2, <3>3, <1>2, <1>3, EntryReads
    <3> QED BY <3>2, <3>3, <3>4
  <2>2. ASSUME NoRecord(temp, S, k) PROVE latest[k] = 0
    <3>1. k \notin DOMAIN keydir
      BY <2>2, <1>2, <1>3, <1>6 DEF CopyGood
    <3> QED BY <3>1, <1>3 DEF MemoryGood, IndexGood, Serves
  <2> QED BY <2>1, <2>2 DEF KeyGood
<1>10. ASSUME NEW k \in Keys PROVE KeyGood(c, S, k, latest[k], puts)
  BY <1>7, <1>9, SameLast
<1>11. ContentsGood
  <2>1. ValuesGood(c, S, latest, puts)
    BY <1>10 DEF ValuesGood
  <2>2. \A f \in S : c[f] # Absent
    BY <1>4, <1>5, <1>6
  <2> QED BY <2>1, <2>2, <1>6, <1>8 DEF ContentsGood
<1>12. ContentsGood'
  <2>1. Contents' = Contents
    BY <1>1 DEF Contents
  <2> QED BY <2>1, <1>1, <1>11 DEF ContentsGood
<1>13. DeleteGood'
  <2>1. Nodes = OnDisk /\ Nodes' = Nodes
    BY <1>0, <1>1, <1>2 DEF FilesLinked, Nodes
  <2>2. files.tail # Null /\ \A f \in Nodes : files.tail <= f
    <3>1. files.tail \in Nodes
      BY <1>0, ActiveFile
    <3> QED BY <3>1, <1>0 DEF FilesLinked, Linked
  <2>3. \A f \in Id : data[f] # Absent => f \in Nodes
    BY <2>1 DEF OnDisk
  <2>4. \A f \in Id : hint[f] # Absent => f \in Nodes /\ hasHint[f]
    BY <2>3, <1>3 DEF DiskGood, HintsGood, MemoryGood, HintsKnown, NoScans
  <2> QED BY <2>1, <2>2, <2>3, <2>4, <1>1, <1>2 DEF DeleteGood
<1>14. \A f \in Id : f > curr => temp[f] = Absent
  <2>1. curr \in Nat /\ Id \subseteq Nat
    BY <1>0, CompactorAssumption DEF CompType, Id
  <2> QED BY <2>1, <1>3 DEF CopyGood
<1>15. ReplaceGood'
  BY <1>1, <1>2, <1>3, <1>4, <1>12, <1>13, <1>14 DEF ReplaceGood
<1> QED BY <1>2, <1>15 DEF DataInv

-----------------------------------------------------------------------------
(* The data: the files are replaced *)

\* A step that changes no content that counts.
LEMMA ContentsSame ==
    ASSUME ContentsGood, UNCHANGED <<latest, puts, curr>>,
           \A f \in 0 .. curr : (IF temp'[f] # Absent THEN temp'[f] ELSE data'[f])
                                = (IF temp[f] # Absent THEN temp[f] ELSE data[f])
    PROVE  ContentsGood'
<1>1. Contents' = Contents
  BY DEF Contents
<1> QED BY <1>1 DEF ContentsGood

\* The files that are copied to are files.
LEMMA CopiedIds ==
    ASSUME CompType
    PROVE  /\ \A f \in 0 .. curr : f \in Id
           /\ 0 \in 0 .. curr /\ curr \in Nat /\ Id \subseteq Nat
           /\ \A f \in Id : f <= curr => f \in 0 .. curr
<1>1. curr \in Nat /\ curr <= MaxFiles /\ MaxFiles \in Nat
  BY CompactorAssumption DEF CompType, Id
<1> QED BY <1>1 DEF Id

\* A datafile is deleted.
LEMMA DeleteDataData ==
    ASSUME TypeInv, DataInv, up, DeleteData
    PROVE  DataInv'
<1> SUFFICES ASSUME Clean' PROVE DataInv'
  BY DEF DataInv
<1>0. DiskType /\ CompType /\ FilesLinked /\ CursorInRange
  BY DEF TypeInv
<1>1. UNCHANGED <<hint, temp, up, files, hasHint, latest, puts, overlap, dirty, damaged, curr, at>>
  BY DEF DeleteData, memory, counts
<1>2. pc = "delete" /\ pc' = "hint" /\ at # Null
  BY DEF DeleteData
<1>3. ReplaceGood
  BY <1>1, <1>2 DEF Clean, DataInv
<1>4. at \in Id
  BY <1>0, <1>2 DEF CursorInRange, FilesLinked
<1>5. \/ data' = [data EXCEPT ![at] = Absent] /\ failed' = failed /\ cut' = cut
      \/ data' = data /\ failed' = TRUE /\ cut' = TRUE
  BY DEF DeleteData, Unlinked
<1>6. /\ \A f \in Id : data'[f] # Absent => data[f] # Absent
      /\ ~failed' => ~failed /\ data'[at] = Absent
  BY <1>0, <1>4, <1>5 DEF DiskType
<1>7. ContentsGood /\ DeleteGood /\ \A f \in 0 .. curr : temp[f] # Absent
  BY <1>2, <1>3 DEF ReplaceGood
<1>8. ContentsGood'
  BY <1>1, <1>7, ContentsSame
<1>9. DeleteGood'
  <2>1. Nodes' = Nodes
    BY <1>1 DEF Nodes
  <2> QED BY <2>1, <1>1, <1>6, <1>7 DEF DeleteGood
<1>10. failed' => cut'
  BY <1>3, <1>5 DEF ReplaceGood
<1>11. ReplaceGood'
  BY <1>1, <1>2, <1>3, <1>7, <1>8, <1>9, <1>10 DEF ReplaceGood
<1> QED BY <1>2, <1>11 DEF DataInv

\* A hintfile is deleted, where there is one, and the next newer file comes up.
LEMMA DeleteHintData ==
    ASSUME TypeInv, DataInv, up, DeleteHint
    PROVE  DataInv'
<1> SUFFICES ASSUME Clean' PROVE DataInv'
  BY DEF DataInv
<1>0. DiskType /\ CompType /\ FilesLinked /\ CursorInRange
  BY DEF TypeInv
<1>1. UNCHANGED <<data, temp, up, files, hasHint, latest, puts, overlap, dirty, damaged, curr>>
  BY DEF DeleteHint, memory, counts
<1>2. pc = "hint" /\ pc' = "delete" /\ at' = files.previous[at] /\ at # Null
  BY <1>0 DEF DeleteHint, NextFile, CursorInRange
<1>3. ReplaceGood
  BY <1>1, <1>2 DEF Clean, DataInv
<1>4. at \in Id /\ at \in Nodes
  BY <1>0, <1>2 DEF CursorInRange, FilesLinked
<1>5. \/ hint' = [hint EXCEPT ![at] = Absent] /\ failed' = failed /\ cut' = cut
      \/ hint' = hint /\ failed' = TRUE /\ cut' = TRUE
      \/ ~hasHint[at] /\ hint' = hint /\ failed' = failed /\ cut' = cut
  BY DEF DeleteHint, HintDeleted, Unlinked
<1>6. ContentsGood /\ DeleteGood /\ \A f \in 0 .. curr : temp[f] # Absent
  BY <1>2, <1>3 DEF ReplaceGood
<1>7. /\ \A f \in Id : hint'[f] # Absent => hint[f] # Absent
      /\ ~failed' => ~failed /\ hint'[at] = Absent
  BY <1>0, <1>4, <1>5, <1>6 DEF DiskType, DeleteGood
<1>8. ContentsGood'
  BY <1>1, <1>6, ContentsSame
<1>9. Above(at', at, Nodes)
  BY <1>0, <1>2, <1>4 DEF FilesLinked, Linked
<1>10. ASSUME NEW f \in Id, f \in Nodes, at <= f, f # at PROVE at' # Null /\ at' <= f
  <2>1. at < f
    BY <1>4, <1>10, CompactorAssumption DEF Id
  <2> QED BY <2>1, <1>9, <1>10 DEF Above
<1>11. DeleteGood'
  <2>1. Nodes' = Nodes
    BY <1>1 DEF Nodes
  <2>2. \A f \in Id : data'[f] # Absent => f \in Nodes'
    BY <2>1, <1>1, <1>6 DEF DeleteGood
  <2>3. \A f \in Id : hint'[f] # Absent => f \in Nodes' /\ hasHint'[f]
    BY <2>1, <1>1, <1>6, <1>7 DEF DeleteGood
  <2>4. ASSUME ~failed', NEW f \in Id, data'[f] # Absent PROVE at' # Null /\ at' <= f
    <3>1. f \in Nodes /\ at <= f /\ f # at
      BY <2>4, <1>1, <1>2, <1>6, <1>7 DEF DeleteGood
    <3> QED BY <3>1, <1>10
  <2>5. ASSUME ~failed', NEW f \in Id, hint'[f] # Absent PROVE at' # Null /\ at' <= f
    <3>1. f \in Nodes /\ at <= f /\ f # at
      BY <2>5, <1>6, <1>7 DEF DeleteGood
    <3> QED BY <3>1, <1>10
  <2> QED BY <2>2, <2>3, <2>4, <2>5, <1>2 DEF DeleteGood
<1>12. failed' => cut'
  BY <1>3, <1>5 DEF ReplaceGood
<1>13. ReplaceGood'
  BY <1>1, <1>2, <1>3, <1>6, <1>8, <1>11, <1>12 DEF ReplaceGood
<1> QED BY <1>2, <1>13 DEF DataInv

\* Everything is deleted, or the files are left to the user.
LEMMA DeleteDoneData ==
    ASSUME TypeInv, DataInv, up, DeleteDone
    PROVE  DataInv'
<1> SUFFICES ASSUME Clean' PROVE DataInv'
  BY DEF DataInv
<1>0. DiskType /\ CompType
  BY DEF TypeInv
<1>1. UNCHANGED <<data, hint, temp, up, files, hasHint, latest, puts, overlap, dirty, cut, damaged, curr,
                  failed>>
  BY DEF DeleteDone, compUnchanged, memory, flags
<1>2. pc = "delete" /\ at = Null /\ pc' = (IF failed THEN "done" ELSE "rename") /\ at' = 0
  BY DEF DeleteDone
<1>3. ReplaceGood
  BY <1>1, <1>2 DEF Clean, DataInv
<1>4. ContentsGood /\ DeleteGood /\ \A f \in 0 .. curr : temp[f] # Absent
  BY <1>2, <1>3 DEF ReplaceGood
<1>5. ContentsGood'
  BY <1>1, <1>4, ContentsSame
<1>6. ~failed => \A f \in Id : data[f] = Absent /\ hint[f] = Absent
  BY <1>2, <1>4 DEF DeleteGood
<1>7. \A f \in Id : f >= 0 /\ (f <= curr => temp[f] # Absent) /\ ~(f < 0)
  BY <1>0, <1>4, CopiedIds
<1>8. CASE failed
  <2>1. pc' = "done" /\ cut /\ failed'
    BY <1>1, <1>2, <1>3, <1>8 DEF ReplaceGood
  <2> QED BY <2>1, <1>1, <1>3, <1>4, <1>5 DEF ReplaceGood, DataInv
<1>9. CASE ~failed
  <2>1. pc' = "rename" /\ ~failed'
    BY <1>1, <1>2, <1>9
  <2>2. RenameGood'
    BY <2>1, <1>1, <1>2, <1>6, <1>7, <1>9 DEF RenameGood
  <2>3. \A f \in Id : hint'[f] = Absent /\ (data'[f] # Absent => f <= curr')
    BY <1>1, <1>6, <1>9
  <2> QED BY <2>1, <2>2, <2>3, <1>1, <1>3, <1>5 DEF ReplaceGood, DataInv
<1> QED BY <1>8, <1>9

\* A temporary file gets its final name, or keeps its own.
LEMMA RenameData ==
    ASSUME TypeInv, DataInv, up, Rename
    PROVE  DataInv'
<1> SUFFICES ASSUME Clean' PROVE DataInv'
  BY DEF DataInv
<1>0. DiskType /\ CompType /\ CursorInRange
  BY DEF TypeInv
<1>1. UNCHANGED <<hint, up, files, hasHint, latest, puts, overlap, dirty, damaged, curr, failed, pc>>
  BY DEF Rename, memory, counts
<1>2. pc = "rename" /\ ~(at > curr) /\ at' = at + 1
  BY DEF Rename, RenameOver
<1>3. ReplaceGood
  BY <1>1, <1>2 DEF Clean, DataInv
<1>4. /\ ContentsGood /\ RenameGood
      /\ \A f \in Id : hint[f] = Absent /\ (data[f] # Absent => f <= curr)
      /\ \A f \in Id : f > curr => temp[f] = Absent
  BY <1>2, <1>3 DEF ReplaceGood, RenameGood
<1>5. at \in 0 .. curr /\ at \in Id /\ at \in Nat /\ curr \in Nat /\ Id \subseteq Nat /\ at <= curr
  <2>1. at \in 0 .. curr + 1 /\ curr \in Nat
    BY <1>0, <1>2, CopiedIds DEF CursorInRange
  <2>2. at \in 0 .. curr /\ at \in Nat /\ at <= curr
    BY <2>1, <1>2
  <2> QED BY <2>1, <2>2, <1>0, CopiedIds
<1>6. temp[at] # Absent /\ data[at] = Absent
  BY <1>4, <1>5 DEF RenameGood
<1>7. \/ data' = [data EXCEPT ![at] = temp[at]] /\ temp' = [temp EXCEPT ![at] = Absent] /\ cut' = cut
      \/ data' = data /\ temp' = temp /\ cut' = TRUE
  BY DEF Rename
<1>8. /\ \A f \in Id : f # at => data'[f] = data[f] /\ temp'[f] = temp[f]
      /\ (data'[at] = temp[at] /\ temp'[at] = Absent /\ cut' = cut)
         \/ (data'[at] = data[at] /\ temp'[at] = temp[at] /\ cut')
  BY <1>0, <1>5, <1>7 DEF DiskType
<1>9. ContentsGood'
  <2>1. ASSUME NEW f \in 0 .. curr
        PROVE  (IF temp'[f] # Absent THEN temp'[f] ELSE data'[f])
               = (IF temp[f] # Absent THEN temp[f] ELSE data[f])
    <3>1. f \in Id
      BY <1>0, CopiedIds
    <3>2. CASE f = at
      BY <3>2, <1>6, <1>8
    <3>3. CASE f # at
      BY <3>1, <3>3, <1>8
    <3> QED BY <3>2, <3>3
  <2> QED BY <2>1, <1>1, <1>4, ContentsSame
<1>10. RenameGood'
  <2>1. \A f \in Id : f >= at + 1 => f >= at /\ f # at
    BY <1>5
  <2>2. \A f \in Id : f < at + 1 => f < at \/ f = at
    BY <1>5
  <2>3. \A f \in Id : at + 1 <= f => at <= f /\ f # at
    BY <1>5
  <2>4. \A f \in Id : f >= at' => data'[f] = Absent
    BY <2>1, <1>2, <1>4, <1>8 DEF RenameGood
  <2>5. \A f \in Id : at' <= f /\ f <= curr' => temp'[f] # Absent
    BY <2>3, <1>1, <1>2, <1>4, <1>8 DEF RenameGood
  <2>6. ~cut' => \A f \in Id : f < at' => temp'[f] = Absent
    BY <2>2, <1>2, <1>4, <1>8 DEF RenameGood
  <2> QED BY <2>4, <2>5, <2>6, <1>1, <1>4 DEF RenameGood
<1>11. \A f \in Id : hint'[f] = Absent /\ (data'[f] # Absent => f <= curr')
  BY <1>1, <1>4, <1>5, <1>8
<1>12. \A f \in Id : f > curr' => temp'[f] = Absent
  BY <1>1, <1>4, <1>5, <1>8
<1>13. ~failed'
  BY <1>1, <1>4 DEF RenameGood
<1>14. ReplaceGood'
  BY <1>1, <1>2, <1>9, <1>10, <1>11, <1>12, <1>13 DEF ReplaceGood
<1> QED BY <1>1, <1>2, <1>14 DEF DataInv

\* All files have been renamed, or cut says that some have not.
LEMMA RenameDoneData ==
    ASSUME TypeInv, DataInv, up, RenameDone
    PROVE  DataInv'
<1> SUFFICES ASSUME Clean' PROVE DataInv'
  BY DEF DataInv
<1>0. DiskType /\ CompType /\ CursorInRange
  BY DEF TypeInv
<1>1. UNCHANGED <<data, hint, temp, up, files, hasHint, latest, puts, overlap, dirty, cut, damaged, curr, at,
                  failed>>
  BY DEF RenameDone, compUnchanged, memory, flags
<1>2. pc = "rename" /\ at > curr /\ pc' = "done"
  BY DEF RenameDone, RenameOver
<1>3. ReplaceGood
  BY <1>1, <1>2 DEF Clean, DataInv
<1>4. ContentsGood /\ RenameGood
  BY <1>2, <1>3 DEF ReplaceGood
<1>5. ContentsGood'
  BY <1>1, <1>4, ContentsSame
<1>6. ~cut => \A f \in Id : temp[f] = Absent
  <2> SUFFICES ASSUME ~cut, NEW f \in Id PROVE temp[f] = Absent
    OBVIOUS
  <2>1. f \in Nat /\ curr \in Nat /\ at \in Nat
    BY <1>0, <1>2, CopiedIds DEF CursorInRange
  <2>2. f < at \/ f > curr
    BY <2>1, <1>2
  <2> QED BY <2>2, <1>3, <1>4 DEF ReplaceGood, RenameGood
<1>7. NoTemps' \/ cut'
  BY <1>1, <1>6 DEF NoTemps
<1>8. ~failed' /\ \A f \in Id : hint'[f] = Absent /\ (data'[f] # Absent => f <= curr')
  BY <1>1, <1>2, <1>3, <1>4 DEF ReplaceGood, RenameGood
<1>9. \A f \in Id : f > curr' => temp'[f] = Absent
  BY <1>1, <1>3 DEF ReplaceGood
<1>10. ReplaceGood'
  BY <1>2, <1>5, <1>7, <1>8, <1>9 DEF ReplaceGood
<1> QED BY <1>2, <1>10 DEF DataInv

\* The process ends: what is on disk stays, with a torn record when a put is cut short;
\* and no hintfile is left half written unless damaged says so.
LEMMA EndData ==
    ASSUME TypeInv, CallsInv, DataInv, End
    PROVE  DataInv'
<1> SUFFICES ASSUME Clean' PROVE DataInv'
  BY DEF DataInv
<1>1. UNCHANGED <<hint, temp, latest, puts, overlap, dirty, pc, curr, at, failed>>
  BY DEF End
<1>2. up /\ up' = FALSE /\ scan' = [f \in Id |-> Absent] /\ cut' = (cut \/ InReplacement)
  BY DEF End
<1>3. Clean /\ (\A f \in Id : ~Unfinished(f))
      /\ (data' = data \/ /\ pc \in {"idle", "copy"} /\ Target \in Id /\ ~Behind(Torn)
                          /\ data' = [data EXCEPT ![Target] = Append(Before, Torn)])
  BY <1>1, EndWrites DEF Clean
<1>4. ASSUME DiskGood, MemoryGood, pc \in {"idle", "copy"} PROVE DiskGood'
  <2>1. \A f \in Id : hint[f] # Absent => data[f] # Absent /\ hint[f] = Hints(data[f])
    <3>1. \A f \in Id : /\ hint[f] # Absent => data[f] # Absent /\ (scan[f] = Absent => hint[f] = Hints(data[f]))
                        /\ scan[f] # Absent => Scanned(f)
      BY <1>4 DEF DiskGood, HintsGood
    <3> QED BY <3>1, <1>3, ScanComplete
  <2>2. \A f \in Id : scan'[f] = Absent /\ hint'[f] = hint[f]
    BY <1>1, <1>2
  <2>3. TornEnd(data, OnDisk) /\ ValuesGood(data, OnDisk, latest, puts)
    BY <1>4 DEF DiskGood
  <2>4. CASE data' = data
    <3>1. OnDisk' = OnDisk
      BY <2>4 DEF OnDisk
    <3>2. HintsGood'
      BY <2>1, <2>2, <2>4 DEF HintsGood
    <3> QED BY <2>3, <2>4, <3>1, <3>2, <1>1 DEF DiskGood
  <2>5. CASE Target \in Id /\ ~Behind(Torn) /\ data' = [data EXCEPT ![Target] = Append(Before, Torn)]
    <3>0. PICK new : new = Append(Before, Torn)
      OBVIOUS
    <3>1. Torn \in Record /\ new \in Left(Torn) /\ new \in {Before, Append(Before, Torn)}
      BY <3>0, WholeRecord DEF Left
    <3>2. /\ new # Absent /\ OnDisk' = OnDisk \cup {Target} /\ data'[Target] = new
          /\ \A f \in Id : f # Target => data'[f] = data[f]
      BY <2>5, <3>0, <3>1, <1>1, <1>2, <1>4, LeftType
    <3>3. PICK d, T : d = data' /\ T = OnDisk'
      OBVIOUS
    <3>4. SameRecords(data, OnDisk, d, T) /\ TornEnd(d, T)
      BY <2>3, <2>5, <3>0, <3>1, <3>2, <3>3, <1>2, <1>4, LeftSame
    <3>5. ASSUME NEW k \in Keys PROVE KeyGood(d, T, k, latest[k], puts)
      BY <2>3, <3>4, SameLast DEF ValuesGood
    <3>6. hint[Target] = Absent
      BY <2>5, <1>2, <1>4, TargetNoHint
    <3>7. HintsGood'
      BY <2>1, <2>2, <3>2, <3>6 DEF HintsGood
    <3> QED BY <3>3, <3>4, <3>5, <3>7, <1>1 DEF DiskGood, ValuesGood
  <2> QED BY <2>4, <2>5, <1>3
<1>5. CASE pc = "idle"
  <2>1. (cut' => NoTemps') => (cut => NoTemps)
    BY <1>1, <1>2 DEF NoTemps
  <2> QED BY <2>1, <1>1, <1>2, <1>3, <1>4, <1>5 DEF DataInv
<1>6. CASE pc = "copy"
  BY <1>1, <1>2, <1>3, <1>4, <1>6 DEF DataInv
<1>7. CASE pc \in {"delete", "hint", "rename", "done"}
  <2>0. data' = data
    BY <1>3, <1>7
  <2>1. ReplaceGood
    BY <1>3, <1>7 DEF DataInv
  <2>2. ContentsGood'
    BY <2>0, <2>1, <1>1, ContentsSame DEF ReplaceGood
  <2>3. pc = "rename" => RenameGood'
    BY <2>0, <2>1, <1>1, <1>2 DEF ReplaceGood, RenameGood
  <2>4. NoTemps' <=> NoTemps
    BY <1>1 DEF NoTemps
  <2>5. ReplaceGood'
    BY <2>0, <2>1, <2>2, <2>3, <2>4, <1>1, <1>2 DEF ReplaceGood
  <2> QED BY <2>5, <1>1, <1>7 DEF DataInv
<1>8. pc \in {"idle", "copy", "delete", "hint", "rename", "done"}
  BY DEF TypeInv, CompType
<1> QED BY <1>5, <1>6, <1>7, <1>8

-----------------------------------------------------------------------------
(* The data: what is recovered *)

\* When no temporary file is left, the renamed files are the store.
LEMMA ReplacedGood ==
    ASSUME TypeInv, ReplaceGood, NoTemps, NoScans, pc \in {"delete", "hint", "rename", "done"}
    PROVE  DiskGood
<1>0. DiskType /\ CompType
  BY DEF TypeInv
<1>1. /\ \A f \in 0 .. curr : f \in Id
      /\ 0 \in 0 .. curr /\ curr \in Nat /\ Id \subseteq Nat
      /\ \A f \in Id : f <= curr => f \in 0 .. curr
  BY <1>0, CopiedIds
<1>2. \A f \in 0 .. curr : temp[f] = Absent
  BY <1>1 DEF NoTemps
<1>3. pc \in {"rename", "done"} /\ ~failed
  BY <1>1, <1>2 DEF ReplaceGood
<1>4. \A f \in Id : hint[f] = Absent /\ (data[f] # Absent => f <= curr)
  BY <1>3 DEF ReplaceGood
<1>5. ContentsGood /\ \A f \in 0 .. curr : Contents[f] = data[f]
  BY <1>2 DEF ReplaceGood, Contents
<1>6. PICK c, S : c = Contents /\ S = 0 .. curr
  OBVIOUS
<1>7. OnDisk = S
  BY <1>1, <1>4, <1>5, <1>6 DEF ContentsGood, OnDisk
<1>8. SameRecords(c, S, data, OnDisk)
  BY <1>5, <1>6, <1>7 DEF SameRecords
<1>9. Untorn(c, S) /\ ValuesGood(c, S, latest, puts)
  BY <1>5, <1>6 DEF ContentsGood
<1>10. TornEnd(data, OnDisk)
  BY <1>5, <1>6, <1>7, <1>9 DEF Untorn, TornEnd
<1>11. ASSUME NEW k \in Keys PROVE KeyGood(data, OnDisk, k, latest[k], puts)
  <2>1. KeyGood(c, S, k, latest[k], puts)
    BY <1>9 DEF ValuesGood
  <2> QED BY <2>1, <1>8, SameLast
<1>12. HintsGood
  BY <1>4 DEF HintsGood, NoScans
<1> QED BY <1>10, <1>11, <1>12 DEF DiskGood, ValuesGood

\* The store is opened again, and its index leads to every value.
LEMMA RestartData ==
    ASSUME TypeInv, CallsInv, DataInv, Restart
    PROVE  DataInv'
<1> SUFFICES ASSUME Clean' PROVE DataInv'
  BY DEF DataInv
<1>0. DiskType /\ MemoryType /\ CompType /\ HistoryType /\ FilesLinked
  BY DEF TypeInv
<1>1. UNCHANGED <<hint, temp, hinting, scan, put, latest, puts, dirty, overlap, cut, damaged>>
  BY DEF Restart, counts, flags
<1>2. /\ ~up /\ up' = TRUE /\ pc' = "idle"
      /\ hasHint' = [f \in Id |-> f \in OnDisk /\ hint[f] # Absent]
  BY DEF Restart, ReturnIdle
<1> SUFFICES ASSUME cut' => NoTemps' PROVE DiskGood' /\ MemoryGood'
  BY <1>2 DEF DataInv
<1>3. Clean /\ (cut => NoTemps) /\ NoScans
  BY <1>1, <1>2 DEF Clean, NoTemps, CallsInv
<1>4. DiskGood
  <2>1. pc \in {"idle", "copy", "delete", "hint", "rename", "done"}
    BY <1>0 DEF CompType
  <2>2. CASE pc \in {"idle", "copy"}
    BY <2>2, <1>3 DEF DataInv
  <2>3. CASE pc \in {"delete", "hint", "rename", "done"}
    <3>1. ReplaceGood
      BY <2>3, <1>3 DEF DataInv
    <3>2. NoTemps
      <4>1. CASE pc = "done"
        BY <4>1, <3>1, <1>3 DEF ReplaceGood
      <4>2. CASE pc # "done"
        BY <4>2, <2>3, <1>2, <1>3 DEF CallsInv, InReplacement
      <4> QED BY <4>1, <4>2
    <3> QED BY <2>3, <3>1, <3>2, <1>3, ReplacedGood
  <2> QED BY <2>1, <2>2, <2>3
<1>5. PICK found, newest, o, N : Recovered(found, newest, o, N)
  BY RestartIs
<1>6. /\ newest \in Id /\ Ascends(o, N, OnDisk)
      /\ keydir' = Index(o, [f \in OnDisk |-> Source(f)])
  BY <1>5 DEF Recovered
<1>7. /\ OnDisk' = OnDisk \cup {newest} /\ files'.head = newest
      /\ \A f \in OnDisk : data'[f] = data[f]
      /\ newest \in OnDisk => hint[newest] = Absent
      /\ newest \notin OnDisk => data'[newest] = <<>>
      /\ \A f \in Id : f # newest => data'[f] = data[f]
  BY <1>5, RecoveredFiles
<1>8. PICK d, T : d = data' /\ T = OnDisk'
  OBVIOUS
<1>9. /\ SameRecords(data, OnDisk, d, T)
      /\ \A f \in T : \A n \in DOMAIN d[f] : f \in OnDisk
  <2>1. ASSUME NEW f \in T, NEW n \in DOMAIN d[f] PROVE f \in OnDisk
    <3>1. CASE f = newest /\ newest \notin OnDisk
      <4>1. d[f] = <<>>
        BY <3>1, <1>7, <1>8
      <4>2. d[f] \in Seq(Record) /\ Len(d[f]) = 0
        BY <4>1, EmptySeq
      <4>3. DOMAIN d[f] = 1 .. 0
        BY <4>2, LenProperties
      <4> QED BY <4>3
    <3> QED BY <3>1, <1>7, <1>8
  <2> QED BY <2>1, <1>7, <1>8 DEF SameRecords
<1>10. TornEnd(data, OnDisk) /\ HintsGood /\ ValuesGood(data, OnDisk, latest, puts)
  BY <1>4 DEF DiskGood
<1>11. hint[newest] = Absent
  BY <1>6, <1>7, <1>10 DEF HintsGood, OnDisk
<1>12. DiskGood'
  <2>1. TornEnd(d, T)
    <3>1. \A f \in T : \A n \in DOMAIN d[f] : f \in OnDisk /\ d[f] = data[f]
      BY <1>7, <1>8, <1>9
    <3> QED BY <3>1, <1>10 DEF TornEnd
  <2>2. ASSUME NEW k \in Keys PROVE KeyGood(d, T, k, latest[k], puts)
    <3>1. KeyGood(data, OnDisk, k, latest[k], puts)
      BY <1>10 DEF ValuesGood
    <3> QED BY <3>1, <1>9, SameLast
  <2>3. ValuesGood(d, T, latest, puts)
    BY <2>2 DEF ValuesGood
  <2>4. HintsGood'
    BY <1>1, <1>3, <1>7, <1>10, <1>11 DEF HintsGood, NoScans, OnDisk
  <2> QED BY <2>1, <2>3, <2>4, <1>1, <1>8 DEF DiskGood
<1>13. HintsKnown'
  <2>1. hinting' = {}
    BY <1>1, <1>2 DEF CallsInv
  <2>2. \A f \in Id : hint'[f] # Absent => hasHint'[f]
    BY <1>1, <1>2, <1>10 DEF HintsGood, OnDisk
  <2> QED BY <2>1, <2>2, <1>1, <1>7, <1>11 DEF HintsKnown
<1>14. PutPlaced' /\ put' = Absent
  BY <1>1, <1>2 DEF CallsInv, PutPlaced
<1>15. IndexGood'
  <2>1. PICK source : source = [f \in OnDisk |-> Source(f)]
    OBVIOUS
  <2>2. \A f \in OnDisk : source[f] = Hints(data[f])
    BY <2>1, <1>3, <1>10 DEF Source, HintsGood, NoScans, OnDisk
  <2>3. Stored(data, OnDisk)
    BY <1>0, DiskStored
  <2>4. ASSUME NEW k \in Keys PROVE Serves(keydir', d, T, k, latest[k], puts)
    <3>1. Locates(Index(o, source), data, OnDisk, k)
      BY <2>2, <2>3, <1>6, <1>10, IndexLocates
    <3>2. PICK index : index = Index(o, source)
      OBVIOUS
    <3>3. KeyGood(data, OnDisk, k, latest[k], puts)
      BY <1>10 DEF ValuesGood
    <3>4. Serves(index, data, OnDisk, k, latest[k], puts)
      BY <3>1, <3>2, <3>3, LocatedServes
    <3>5. Serves(index, d, T, k, latest[k], puts)
      BY <3>4, <1>9, SameLast
    <3> QED BY <3>2, <3>5, <2>1, <1>6
  <2> QED BY <2>4, <1>1, <1>8 DEF IndexGood
<1> QED BY <1>12, <1>13, <1>14, <1>15 DEF MemoryGood

\* No step loses a value, unless calls overlap, a compaction meets files of another, or
\* the store is damaged.
LEMMA DataStep == TypeInv /\ TypeInv' /\ CallsInv /\ DataInv /\ [CompactorNext]_cvars => DataInv'
<1> SUFFICES ASSUME TypeInv, TypeInv', CallsInv, DataInv, [CompactorNext]_cvars PROVE DataInv'
  OBVIOUS
<1>1. CASE UNCHANGED cvars
  <2>1. UNCHANGED <<data, hint, temp, up, files, hasHint, hinting, scan, keydir, put, pc,
                    todo, curr, at, failed, latest, puts, overlap, dirty, cut, damaged>>
    BY <1>1 DEF cvars, disk, memory, comp, counts, flags
  <2>2. (DiskGood => DiskGood') /\ (MemoryGood => MemoryGood')
    BY <2>1, DiskSame, MemorySame
  <2>3. CopyGood => CopyGood'
    BY <2>1 DEF CopyGood
  <2>4. ContentsGood => ContentsGood'
    BY <2>1, ContentsSame
  <2>5. (NoTemps' <=> NoTemps) /\ Nodes' = Nodes /\ (Clean' <=> Clean)
    BY <2>1 DEF NoTemps, Nodes, Clean
  <2>6. ReplaceGood => ReplaceGood'
    BY <2>1, <2>4, <2>5 DEF ReplaceGood, DeleteGood, RenameGood
  <2> QED BY <2>1, <2>2, <2>3, <2>5, <2>6 DEF DataInv
<1>2. CASE \E k \in Keys : PutAppend(k)
  BY <1>2, PutAppendData
<1>3. CASE PutReturn
  BY <1>3, PutIndexData, PutNoMemoryData DEF PutReturn
<1>4. CASE \E f \in Id : HintStep(f)
  BY <1>4, HintData
<1>5. CASE Begin
  BY <1>5, BeginData
<1>6. CASE BeginFails
  BY <1>1, <1>6 DEF BeginFails
<1>7. CASE CompactionStep
  <2>1. up /\ (CopyStep \/ ReplaceStep)
    BY <1>7 DEF CompactionStep
  <2>2. CASE CopyStep
    BY <2>1, <2>2, CopyData, CopyReturnsData, CopyDoneData DEF CopyStep
  <2>3. CASE ReplaceStep
    BY <2>1, <2>3, DeleteDataData, DeleteHintData, DeleteDoneData, RenameData, RenameDoneData
       DEF ReplaceStep
  <2> QED BY <2>1, <2>2, <2>3
<1>8. CASE End
  BY <1>8, EndData
<1>9. CASE Restart
  BY <1>9, RestartData
<1> QED BY <1>1, <1>2, <1>3, <1>4, <1>5, <1>6, <1>7, <1>8, <1>9 DEF CompactorNext

\* The inductive invariant holds in every state.
LEMMA DataAlways == CompactorSafeSpec => [](TypeInv /\ CallsInv /\ DataInv)
<1>1. CompactorInit => TypeInv /\ CallsInv /\ DataInv
  BY TypeInit, DataInit
<1>2. TypeInv /\ CallsInv /\ DataInv /\ [CompactorNext]_cvars => (TypeInv /\ CallsInv /\ DataInv)'
  BY TypeStep, CallsStep, DataStep
<1> QED BY <1>1, <1>2, PTL DEF CompactorSafeSpec

\* The walk of a list of the files S, in whatever order they are chosen.
LEMMA ChosenOrder ==
    ASSUME NEW S \in SUBSET Nat, IsFiniteSet(S)
    PROVE  Ascends(OldestFirst(ListOf(SetToSeq(S))), Cardinality(S), S)
<1>1. PICK order : order = SetToSeq(S)
  OBVIOUS
<1>2. order \in SetToSeqs(S)
  BY <1>1, SomeOrder
<1> QED BY <1>1, <1>2, DirectoryList

\* What DataInv says of the datafiles is what a restart would find.
LEMMA DataInvSurvives == TypeInv /\ CallsInv /\ DataInv => StoreSurvives
<1> SUFFICES ASSUME TypeInv, CallsInv, DataInv, ~(InReplacement \/ overlap \/ dirty \/ cut \/ damaged),
                    \A f \in Id : ~Unfinished(f)
             PROVE  LET order == OldestFirst(ListOf(SetToSeq(OnDisk)))
                        index == Index(order, [f \in OnDisk |-> Source(f)])
                    IN  \A k \in Keys : Found(k, ValueAfter(index, data, k))
  BY Zenon DEF StoreSurvives
<1>0. DiskType /\ CompType
  BY DEF TypeInv
<1>1. DiskGood
  <2>1. Clean /\ ~cut
    BY DEF Clean
  <2>2. pc \in {"idle", "copy", "done"}
    BY <1>0 DEF CompType, InReplacement
  <2>3. CASE pc = "done"
    <3>1. ReplaceGood /\ NoTemps
      BY <2>1, <2>3 DEF DataInv, ReplaceGood
    <3> QED BY <2>1, <2>3, <3>1, ReplacedGood DEF CallsInv, Clean
  <2> QED BY <2>1, <2>2, <2>3 DEF DataInv
<1>2. PICK S, o, N, source : /\ S = OnDisk /\ o = OldestFirst(ListOf(SetToSeq(S)))
                             /\ N = Cardinality(S) /\ source = [f \in OnDisk |-> Source(f)]
  OBVIOUS
<1>3. Ascends(o, N, S)
  BY <1>2, OnDiskFinite, ChosenOrder
<1>4. \A f \in S : source[f] = Hints(data[f])
  <2>1. \A f \in Id : /\ hint[f] # Absent /\ scan[f] = Absent => hint[f] = Hints(data[f])
                      /\ scan[f] # Absent => Scanned(f)
    BY <1>1 DEF DiskGood, HintsGood
  <2>2. \A f \in Id : hint[f] # Absent => hint[f] = Hints(data[f])
    BY <2>1, ScanComplete
  <2> QED BY <2>2, <1>2 DEF Source, OnDisk
<1>5. Stored(data, S) /\ TornEnd(data, S)
  BY <1>0, <1>1, <1>2, DiskStored DEF DiskGood
<1>6. PICK index : index = Index(o, source)
  OBVIOUS
<1>7. ASSUME NEW k \in Keys PROVE Found(k, ValueAfter(index, data, k))
  <2>1. Locates(Index(o, source), data, S, k)
    BY <1>3, <1>4, <1>5, IndexLocates
  <2>2. KeyGood(data, S, k, latest[k], puts)
    BY <1>1, <1>2 DEF DiskGood, ValuesGood
  <2>3. Serves(index, data, S, k, latest[k], puts)
    BY <2>1, <2>2, <1>6, LocatedServes
  <2> QED BY <2>3, ServedValue
<1> QED BY <1>2, <1>6, <1>7

\* What it says of the temporary files is what finishing the renames would recover.
LEMMA DataInvTemps == TypeInv /\ DataInv => TempsHoldStore
<1> SUFFICES ASSUME TypeInv, DataInv, InReplacement \/ pc = "done", ~(overlap \/ dirty \/ damaged)
             PROVE  LET content == [f \in 0 .. curr |-> IF temp[f] # Absent THEN temp[f] ELSE data[f]]
                        order   == OldestFirst(ListOf(SetToSeq(0 .. curr)))
                        index   == Index(order, [f \in 0 .. curr |-> Hints(content[f])])
                    IN  \A k \in Keys : Found(k, ValueAfter(index, content, k))
  BY Zenon DEF TempsHoldStore
<1>0. DiskType /\ CompType
  BY DEF TypeInv
<1>1. ContentsGood
  BY DEF DataInv, Clean, ReplaceGood, InReplacement
<1>2. PICK S, c, o, N : /\ S = 0 .. curr /\ c = Contents /\ o = OldestFirst(ListOf(SetToSeq(S)))
                        /\ N = Cardinality(S)
  OBVIOUS
<1>3. S \in SUBSET Nat /\ IsFiniteSet(S) /\ \A f \in S : f \in Id
  BY <1>0, <1>2, CopiedIds, FS_Interval
<1>4. Ascends(o, N, S)
  BY <1>2, <1>3, ChosenOrder
<1>5. PICK source : source = [f \in S |-> Hints(c[f])]
  OBVIOUS
<1>6. \A f \in S : source[f] = Hints(c[f])
  BY <1>5
<1>7. Stored(c, S) /\ TornEnd(c, S)
  <2>1. ASSUME NEW f \in S PROVE c[f] \in Seq(Record)
    <3>1. c[f] # Absent /\ c[f] = IF temp[f] # Absent THEN temp[f] ELSE data[f]
      BY <1>1, <1>2 DEF ContentsGood, Contents
    <3> QED BY <3>1, <1>0, <1>3 DEF DiskType, File
  <2> QED BY <2>1, <1>1, <1>2, <1>3 DEF Stored, ContentsGood, Untorn, TornEnd
<1>8. PICK index : index = Index(o, source)
  OBVIOUS
<1>9. ASSUME NEW k \in Keys PROVE Found(k, ValueAfter(index, c, k))
  <2>1. Locates(Index(o, source), c, S, k)
    BY <1>4, <1>6, <1>7, IndexLocates
  <2>2. KeyGood(c, S, k, latest[k], puts)
    BY <1>1, <1>2 DEF ContentsGood, ValuesGood
  <2>3. Serves(index, c, S, k, latest[k], puts)
    BY <2>1, <2>2, <1>8, LocatedServes
  <2> QED BY <2>3, ServedValue
<1>10. c = [f \in 0 .. curr |-> IF temp[f] # Absent THEN temp[f] ELSE data[f]]
  BY <1>2 DEF Contents
<1> QED BY <1>2, <1>5, <1>8, <1>9, <1>10

\* Compaction loses no value outside the replacement of the files: while the records
\* are copied, when the copy is cancelled or fails at any point, after a crash during
\* it and after its end, recovery finds for every key the last put that returned, or
\* one that was under way.  Excepted, as in StoreSurvives, are compactions that overlap
\* a put or a hint thread or find temporary files of an earlier one, those cut short
\* while they replaced files, and damaged stores: a hintfile was left, or is still,
\* incomplete, or a record lies behind a torn one.
THEOREM CompactionKeepsStore == CompactorSafeSpec => []StoreSurvives
BY DataAlways, DataInvSurvives, PTL

\* From the first unlink to the last rename, and whatever crash or failing unlink or
\* rename ends that early, the temporary and the renamed files hold every value; with
\* the same exceptions, except that a compaction may be cut short.
THEOREM TempsKeepStore == CompactorSafeSpec => []TempsHoldStore
BY DataAlways, DataInvTemps, PTL

=============================================================================
