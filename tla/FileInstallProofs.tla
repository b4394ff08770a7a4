-------------------------- MODULE FileInstallProofs --------------------------
(***************************************************************************)
(* Proofs about FileInstall, for any number of publishers and consumers    *)
(* and for packages of any size.                                           *)
(***************************************************************************)
EXTENDS FileInstall, SequenceTheorems, TLAPS

\* A package is a sequence of chunks of the size of its version.
LEMMA PackageIsSequence ==
  ASSUME NEW v \in Version
  PROVE  /\ Package(v) \in Seq(Chunks)
         /\ Len(Package(v)) = Size[v]
         /\ Size[v] \in Nat
         /\ \A k \in 1 .. Size[v] : Package(v)[k] = <<v, k>>
BY InstallAssumption DEF Package, Chunks

\* Every inode has a version.
LEMMA VersionOfInode == \A i \in Inode : VersionIn(i) \in Version
BY InstallAssumption DEF VersionIn, Inode

\* An inode that is complete and named holds its whole package.
LEMMA PublishedWhole ==
  ASSUME TypeOK, InstallOrder, NamesPublished, NEW i \in Inode, Published(i)
  PROVE  data[i] = Package(VersionIn(i))
<1>1. CASE i = Previous
  BY <1>1 DEF NamesPublished, VersionIn
<1>2. CASE i # Previous
  <2>1. i \in Publisher /\ pc[i] = "installed" /\ VersionIn(i) = VersionOf[i]
    BY <1>2, InstallAssumption DEF Published, VersionIn
  <2>2. data[i] \in Seq(Chunks)
    BY DEF TypeOK
  <2>3. /\ Len(data[i]) = Size[VersionOf[i]]
        /\ \A k \in 1 .. Len(data[i]) : data[i][k] = <<VersionOf[i], k>>
    BY <2>1 DEF InstallOrder
  <2>4. VersionOf[i] \in Version
    BY <2>1, InstallAssumption
  <2>5. /\ Package(VersionOf[i]) \in Seq(Chunks)
        /\ Len(data[i]) = Len(Package(VersionOf[i]))
        /\ \A k \in 1 .. Len(data[i]) : data[i][k] = Package(VersionOf[i])[k]
    BY <2>3, <2>4, PackageIsSequence
  <2>6. data[i] = Package(VersionOf[i])
    BY <2>2, <2>5, SeqEqual, Zenon
  <2> QED
    BY <2>1, <2>6
<1> QED
  BY <1>1, <1>2

\* The initial state satisfies the invariant.
LEMMA InitSound == Init => TypeOK /\ InstallSound
<1> SUFFICES ASSUME Init PROVE TypeOK /\ InstallSound
  OBVIOUS
<1>1. Package(OldVersion) \in Seq(Chunks)
  BY InstallAssumption DEF Package, Chunks
<1>2. data \in [Inode -> Seq(Chunks)]
  BY <1>1 DEF Init
<1>3. TypeOK
  BY <1>2, InstallAssumption DEF Init, TypeOK, Inode, Reading
<1>4. \A p \in Publisher : data[p] = <<>>
  BY InstallAssumption DEF Init, Inode
<1>5. InstallOrder
  <2> SUFFICES ASSUME NEW p \in Publisher
               PROVE  /\ Len(data[p]) <= Size[VersionOf[p]]
                      /\ \A k \in 1 .. Len(data[p]) : data[p][k] = <<VersionOf[p], k>>
                      /\ pc[p] \notin {"rename", "installed"}
    BY DEF InstallOrder
  <2>1. Size[VersionOf[p]] \in Nat
    BY InstallAssumption
  <2>2. Len(data[p]) = 0
    BY <1>4
  <2>3. pc[p] = "open"
    BY DEF Init, Process
  <2> QED
    BY <2>1, <2>2, <2>3
<1>6. NamesPublished
  BY InstallAssumption DEF Init, NamesPublished, Published, Inode
<1>7. ReadersSound
  BY DEF Init, ReadersSound
<1> QED
  BY <1>3, <1>5, <1>6, <1>7 DEF InstallSound

\* Open preserves the invariant.
LEMMA OpenSound ==
  ASSUME TypeOK, InstallSound, NEW p \in Process, Open(p)
  PROVE  TypeOK' /\ InstallSound'
<1> USE InstallAssumption DEF InstallSound, Process
<1>1. TypeOK'
  BY DEF Open, TypeOK, Goto, Reading, Installing, Final, files, reading, Inode, ReadersSound
<1>2. InstallOrder'
  BY DEF Open, TypeOK, InstallOrder, Goto, files, reading, Final
<1>3. NamesPublished'
  BY DEF Open, TypeOK, InstallOrder, NamesPublished, Published, Goto, files, reading, Final
<1>4. ReadersSound'
  BY DEF Open, TypeOK, NamesPublished, ReadersSound, Goto, files, reading, Reading, Final
<1> QED
  BY <1>1, <1>2, <1>3, <1>4

\* Stat preserves the invariant.
LEMMA StatSound ==
  ASSUME TypeOK, InstallSound, NEW p \in Process, Stat(p)
  PROVE  TypeOK' /\ InstallSound'
<1> USE InstallAssumption DEF InstallSound, Process
<1>1. TypeOK'
  BY DEF Stat, TypeOK, Goto, Reading, Installing, Final, files, reading, Inode, ReadersSound
<1>2. InstallOrder'
  BY DEF Stat, TypeOK, InstallOrder, Goto, files, reading, Final
<1>3. NamesPublished'
  BY DEF Stat, TypeOK, InstallOrder, NamesPublished, Published, Goto, files, reading, Final
<1>4. ReadersSound'
  <2>1. fd[p] \in Inode /\ Published(fd[p])
    BY DEF Stat, TypeOK, NamesPublished, ReadersSound, Reading
  <2>2. Len(data[fd[p]]) \in Nat /\ Len(data[fd[p]]) <= Limit
    BY <2>1, PublishedWhole, VersionOfInode, PackageIsSequence
  <2>a. ~ (Len(data[fd[p]]) > Limit)
    BY <2>2
  <2>3. pc' = [pc EXCEPT ![p] = "read"]
    BY <2>a, Zenon DEF Stat, Goto
  <2> QED
    BY <2>2, <2>3 DEF Stat, TypeOK, ReadersSound, files, reading, Reading
<1> QED
  BY <1>1, <1>2, <1>3, <1>4

\* ReadChunk preserves the invariant.
LEMMA ReadChunkSound ==
  ASSUME TypeOK, InstallSound, NEW p \in Process, ReadChunk(p)
  PROVE  TypeOK' /\ InstallSound'
<1> USE InstallAssumption DEF InstallSound, Process
<1>a. /\ pc[p] = "read" /\ fd[p] \in Inode /\ size[p] = Len(data[fd[p]])
      /\ data[fd[p]] \in Seq(Chunks) /\ bytes[p] \in Seq(Chunks)
      /\ Len(bytes[p]) <= Len(data[fd[p]])
      /\ \A k \in 1 .. Len(bytes[p]) : bytes[p][k] = data[fd[p]][k]
  BY DEF ReadChunk, TypeOK, ReadersSound, Reading
<1> DEFINE offset == Len(bytes[p])
           chunk == data[fd[p]][offset + 1]
<1>b. /\ offset \in Nat /\ Len(data[fd[p]]) \in Nat
      /\ UNCHANGED <<files, fd, size>>
  BY <1>a DEF ReadChunk
<1>c. \/ offset = size[p] /\ Goto(p, "end") /\ UNCHANGED bytes
      \/ /\ offset < size[p] /\ UNCHANGED pc
         /\ bytes' = [bytes EXCEPT ![p] = Append(bytes[p], chunk)]
  BY <1>a, <1>b DEF ReadChunk
<1>d. offset < size[p] =>
         /\ chunk \in Chunks
         /\ Append(bytes[p], chunk) \in Seq(Chunks)
         /\ Len(Append(bytes[p], chunk)) = offset + 1
         /\ \A k \in 1 .. offset + 1 : Append(bytes[p], chunk)[k] = data[fd[p]][k]
  BY <1>a, <1>b, AppendProperties
<1>e. offset = size[p] => bytes[p] = data[fd[p]]
  BY <1>a, SeqEqual
<1> HIDE DEF offset, chunk
<1>1. TypeOK'
  <2>1. CASE Goto(p, "end") /\ UNCHANGED bytes
    BY <2>1, <1>b DEF TypeOK, Goto, Reading, files
  <2>2. CASE /\ offset < size[p] /\ UNCHANGED pc
             /\ bytes' = [bytes EXCEPT ![p] = Append(bytes[p], chunk)]
    BY <2>2, <1>b, <1>d DEF TypeOK, files
  <2> QED
    BY <2>1, <2>2, <1>c
<1>2. InstallOrder'
  BY DEF ReadChunk, TypeOK, InstallOrder, Goto, files, reading, Final
<1>3. NamesPublished'
  BY DEF ReadChunk, TypeOK, InstallOrder, NamesPublished, Published, Goto, files, reading, Final
<1>4. ReadersSound'
  <2>1. CASE offset = size[p] /\ Goto(p, "end") /\ UNCHANGED bytes
    BY <2>1, <1>a, <1>b, <1>e DEF TypeOK, ReadersSound, Goto, files, Reading
  <2>2. CASE /\ offset < size[p] /\ UNCHANGED pc
             /\ bytes' = [bytes EXCEPT ![p] = Append(bytes[p], chunk)]
    <3>1. bytes'[p] = Append(bytes[p], chunk) /\ \A q \in Process \ {p} : bytes'[q] = bytes[q]
      BY <2>2 DEF TypeOK
    <3>2. /\ Len(bytes'[p]) = offset + 1 /\ offset + 1 <= Len(data[fd[p]])
          /\ \A k \in 1 .. Len(bytes'[p]) : bytes'[p][k] = data[fd[p]][k]
      BY <3>1, <2>2, <1>a, <1>b, <1>d
    <3> QED
      BY <3>1, <3>2, <2>2, <1>a, <1>b DEF ReadersSound, files, Reading
  <2> QED
    BY <2>1, <2>2, <1>c
<1> QED
  BY <1>1, <1>2, <1>3, <1>4

\* ProbeEnd preserves the invariant.
LEMMA ProbeEndSound ==
  ASSUME TypeOK, InstallSound, NEW p \in Process, ProbeEnd(p)
  PROVE  TypeOK' /\ InstallSound'
<1> USE InstallAssumption DEF InstallSound, Process
<1>1. TypeOK'
  BY DEF ProbeEnd, TypeOK, Goto, Reading, Installing, Final, files, reading, Inode, ReadersSound
<1>2. InstallOrder'
  BY DEF ProbeEnd, TypeOK, InstallOrder, Goto, files, reading, Final
<1>3. NamesPublished'
  BY DEF ProbeEnd, TypeOK, InstallOrder, NamesPublished, Published, Goto, files, reading, Final
<1>4. ReadersSound'
  BY DEF ProbeEnd, TypeOK, NamesPublished, ReadersSound, Goto, files, reading, Reading, Final
<1> QED
  BY <1>1, <1>2, <1>3, <1>4

\* Restat preserves the invariant.
LEMMA RestatSound ==
  ASSUME TypeOK, InstallSound, NEW p \in Process, Restat(p)
  PROVE  TypeOK' /\ InstallSound'
<1> USE InstallAssumption DEF InstallSound, Process
<1>1. TypeOK'
  BY DEF Restat, TypeOK, Goto, Reading, Installing, Final, files, reading, Inode, ReadersSound
<1>2. InstallOrder'
  BY DEF Restat, TypeOK, InstallOrder, Goto, files, reading, Final
<1>3. NamesPublished'
  BY DEF Restat, TypeOK, InstallOrder, NamesPublished, Published, Goto, files, reading, Final
<1>4. ReadersSound'
  BY DEF Restat, TypeOK, NamesPublished, ReadersSound, Goto, files, reading, Reading, Final
<1> QED
  BY <1>1, <1>2, <1>3, <1>4

\* Validate preserves the invariant.
LEMMA ValidateSound ==
  ASSUME TypeOK, InstallSound, NEW p \in Process, Validate(p)
  PROVE  TypeOK' /\ InstallSound'
<1> USE InstallAssumption DEF InstallSound, Process
<1>1. TypeOK'
  BY DEF Validate, TypeOK, Goto, Reading, Installing, Final, files, reading, Inode, ReadersSound
<1>2. InstallOrder'
  BY DEF Validate, TypeOK, InstallOrder, Goto, files, reading, Final
<1>3. NamesPublished'
  BY DEF Validate, TypeOK, InstallOrder, NamesPublished, Published, Goto, files, reading, Final
<1>4. ReadersSound'
  <2>1. fd[p] \in Inode /\ Published(fd[p]) /\ bytes[p] = data[fd[p]]
    BY DEF Validate, TypeOK, NamesPublished, ReadersSound, Reading
  <2>2. \E v \in Version : bytes[p] = Package(v)
    BY <2>1, PublishedWhole, VersionOfInode
  <2>3. pc' \in {[pc EXCEPT ![p] = "inspect"], [pc EXCEPT ![p] = "accepted"]}
    BY <2>2 DEF Validate, Goto
  <2> QED
    BY <2>1, <2>3 DEF Validate, TypeOK, ReadersSound, files, reading, Reading
<1> QED
  BY <1>1, <1>2, <1>3, <1>4

\* Crash preserves the invariant.
LEMMA CrashSound ==
  ASSUME TypeOK, InstallSound, NEW p \in Process, Crash(p)
  PROVE  TypeOK' /\ InstallSound'
<1> USE InstallAssumption DEF InstallSound, Process
<1>1. TypeOK'
  BY DEF Crash, TypeOK, Goto, Reading, Installing, Final, files, reading, Inode, ReadersSound
<1>2. InstallOrder'
  BY DEF Crash, TypeOK, InstallOrder, Goto, files, reading, Final
<1>3. NamesPublished'
  BY DEF Crash, TypeOK, InstallOrder, NamesPublished, Published, Goto, files, reading, Final
<1>4. ReadersSound'
  BY DEF Crash, TypeOK, NamesPublished, ReadersSound, Goto, files, reading, Reading, Final
<1> QED
  BY <1>1, <1>2, <1>3, <1>4

\* Inspect preserves the invariant.
LEMMA InspectSound ==
  ASSUME TypeOK, InstallSound, NEW p \in Publisher, Inspect(p)
  PROVE  TypeOK' /\ InstallSound'
<1> USE InstallAssumption DEF InstallSound, Process
<1>1. TypeOK'
  BY DEF Inspect, TypeOK, Goto, Reading, Installing, Final, files, reading, Inode, ReadersSound
<1>2. InstallOrder'
  BY DEF Inspect, TypeOK, InstallOrder, Goto, files, reading, Final
<1>3. NamesPublished'
  BY DEF Inspect, TypeOK, InstallOrder, NamesPublished, Published, Goto, files, reading, Final
<1>4. ReadersSound'
  BY DEF Inspect, TypeOK, NamesPublished, ReadersSound, Goto, files, reading, Reading, Final
<1> QED
  BY <1>1, <1>2, <1>3, <1>4

\* Create preserves the invariant.
LEMMA CreateSound ==
  ASSUME TypeOK, InstallSound, NEW p \in Publisher, Create(p)
  PROVE  TypeOK' /\ InstallSound'
<1> USE InstallAssumption DEF InstallSound, Process
<1>1. TypeOK'
  BY DEF Create, TypeOK, Goto, Reading, Installing, Final, files, reading, Inode, ReadersSound
<1>2. InstallOrder'
  BY DEF Create, TypeOK, InstallOrder, Goto, files, reading, Final
<1>3. NamesPublished'
  BY DEF Create, TypeOK, InstallOrder, NamesPublished, Published, Goto, files, reading, Final
<1>4. ReadersSound'
  BY DEF Create, TypeOK, NamesPublished, ReadersSound, Goto, files, reading, Reading, Final
<1> QED
  BY <1>1, <1>2, <1>3, <1>4

\* Rename preserves the invariant.
LEMMA RenameSound ==
  ASSUME TypeOK, InstallSound, NEW p \in Publisher, Rename(p)
  PROVE  TypeOK' /\ InstallSound'
<1> USE InstallAssumption DEF InstallSound, Process
<1>1. TypeOK'
  BY DEF Rename, TypeOK, Goto, Reading, Installing, Final, files, reading, Inode, ReadersSound
<1>2. InstallOrder'
  BY DEF Rename, TypeOK, InstallOrder, Goto, files, reading, Final
<1>3. NamesPublished'
  BY DEF Rename, TypeOK, InstallOrder, NamesPublished, Published, Goto, files, reading, Final
<1>4. ReadersSound'
  BY DEF Rename, TypeOK, NamesPublished, ReadersSound, Goto, files, reading, Reading, Final
<1> QED
  BY <1>1, <1>2, <1>3, <1>4

\* Remove preserves the invariant.
LEMMA RemoveSound ==
  ASSUME TypeOK, InstallSound, NEW p \in Publisher, Remove(p)
  PROVE  TypeOK' /\ InstallSound'
<1> USE InstallAssumption DEF InstallSound, Process
<1>1. TypeOK'
  BY DEF Remove, TypeOK, Goto, Reading, Installing, Final, files, reading, Inode, ReadersSound
<1>2. InstallOrder'
  BY DEF Remove, TypeOK, InstallOrder, Goto, files, reading, Final
<1>3. NamesPublished'
  BY DEF Remove, TypeOK, InstallOrder, NamesPublished, Published, Goto, files, reading, Final
<1>4. ReadersSound'
  BY DEF Remove, TypeOK, NamesPublished, ReadersSound, Goto, files, reading, Reading, Final
<1> QED
  BY <1>1, <1>2, <1>3, <1>4

\* Copy preserves the invariant: the inode it writes has no other name yet.
LEMMA CopySound ==
  ASSUME TypeOK, InstallSound, NEW p \in Publisher, Copy(p)
  PROVE  TypeOK' /\ InstallSound'
<1> USE InstallAssumption DEF InstallSound, Process
<1> DEFINE chunk == <<VersionOf[p], Len(data[p]) + 1>>
<1>1. /\ pc[p] = "copy" /\ data[p] \in Seq(Chunks) /\ Size[VersionOf[p]] \in Nat
      /\ Len(data[p]) \in Nat /\ chunk \in Chunks
      /\ UNCHANGED <<output, temporary, reading>>
  BY DEF Copy, TypeOK, Inode, Chunks
<1>2. /\ Append(data[p], chunk) \in Seq(Chunks)
      /\ Len(Append(data[p], chunk)) = Len(data[p]) + 1
      /\ \A k \in 1 .. Len(data[p]) : Append(data[p], chunk)[k] = data[p][k]
      /\ Append(data[p], chunk)[Len(data[p]) + 1] = chunk
  BY <1>1, AppendProperties
<1>3. p # Previous /\ output # p /\ \A q \in Process : fd[q] # p
  BY <1>1 DEF NamesPublished, Published, Inode
<1>4. CASE /\ Len(data[p]) < Size[VersionOf[p]]
           /\ data' = [data EXCEPT ![p] = Append(data[p], chunk)]
           /\ UNCHANGED pc
  <2>1. data'[p] = Append(data[p], chunk) /\ \A i \in Inode \ {p} : data'[i] = data[i]
    BY <1>4 DEF TypeOK, Inode
  <2> HIDE DEF chunk
  <2>2. TypeOK'
    BY <1>1, <1>2, <1>4 DEF TypeOK, reading
  <2>3. InstallOrder'
    <3>1. /\ Len(data'[p]) <= Size[VersionOf[p]]
          /\ \A k \in 1 .. Len(data'[p]) : data'[p][k] = <<VersionOf[p], k>>
      BY <1>1, <1>2, <1>4, <2>1 DEF InstallOrder, chunk
    <3> QED
      BY <3>1, <2>1, <1>1, <1>4 DEF InstallOrder, Inode
  <2>4. NamesPublished'
    BY <1>1, <1>3, <1>4, <2>1 DEF NamesPublished, Published, reading, Inode
  <2>5. \A q \in Process : fd[q] # NoInode => data'[fd[q]] = data[fd[q]]
    BY <1>3, <2>1 DEF TypeOK
  <2>6. ReadersSound'
    <3>1. UNCHANGED <<pc, fd, size, bytes>>
      BY <1>1, <1>4 DEF reading
    <3> QED
      BY <3>1, <2>5 DEF ReadersSound, Reading
  <2> QED
    BY <2>2, <2>3, <2>4, <2>6
<1>5. CASE Goto(p, "rename") /\ Len(data[p]) = Size[VersionOf[p]] /\ UNCHANGED data
  <2>1. TypeOK'
    BY <1>1, <1>5 DEF TypeOK, Goto, reading, Installing
  <2>2. InstallOrder' /\ NamesPublished'
    BY <1>1, <1>5 DEF TypeOK, InstallOrder, NamesPublished, Published, Goto, reading
  <2>3. ReadersSound'
    BY <1>1, <1>5 DEF TypeOK, ReadersSound, Goto, reading, Reading
  <2> QED
    BY <2>1, <2>2, <2>3
<1>6. CASE Goto(p, "remove") /\ UNCHANGED data
  <2>1. TypeOK'
    BY <1>1, <1>6 DEF TypeOK, Goto, reading, Installing
  <2>2. InstallOrder' /\ NamesPublished'
    BY <1>1, <1>6 DEF TypeOK, InstallOrder, NamesPublished, Published, Goto, reading
  <2>3. ReadersSound'
    BY <1>1, <1>6 DEF TypeOK, ReadersSound, Goto, reading, Reading
  <2> QED
    BY <2>1, <2>2, <2>3
<1> QED
  BY <1>4, <1>5, <1>6 DEF Copy

\* A step that changes nothing preserves the invariant.
LEMMA StutterSound ==
  ASSUME TypeOK, InstallSound, UNCHANGED vars
  PROVE  TypeOK' /\ InstallSound'
BY DEF TypeOK, InstallSound, InstallOrder, NamesPublished, Published, ReadersSound, vars

\* The types and the inductive invariant hold in every reachable state of any
\* number of publishers and consumers, dying wherever they may.
THEOREM InstallStaysSound == Spec => [](TypeOK /\ InstallSound)
<1>1. ASSUME TypeOK, InstallSound, [Next]_vars
      PROVE  TypeOK' /\ InstallSound'
  <2>1. ASSUME NEW p \in Process, ReadStep(p) PROVE TypeOK' /\ InstallSound'
    BY <1>1, <2>1, OpenSound, StatSound, ReadChunkSound, ProbeEndSound, RestatSound,
       ValidateSound DEF ReadStep
  <2>2. ASSUME NEW p \in Process, Crash(p) PROVE TypeOK' /\ InstallSound'
    BY <1>1, <2>2, CrashSound
  <2>3. ASSUME NEW p \in Publisher, InstallStep(p) PROVE TypeOK' /\ InstallSound'
    BY <1>1, <2>3, InspectSound, CreateSound, CopySound, RenameSound, RemoveSound
    DEF InstallStep
  <2> QED
    BY <1>1, <2>1, <2>2, <2>3, StutterSound DEF Next, Over
<1> QED
  BY <1>1, InitSound, PTL DEF Spec

\* replaceFile is all or nothing for every number of processes: the artifact
\* path never names a partial package.
THEOREM InstallIsAtomic == Spec => []OutputWhole
<1>1. TypeOK /\ InstallSound => OutputWhole
  BY PublishedWhole, VersionOfInode DEF TypeOK, InstallSound, NamesPublished, OutputWhole
<1> QED
  BY <1>1, InstallStaysSound, PTL

\* Installing never disturbs a reader: what read() and validatePackage accept is
\* the package the path named when the file was opened.
THEOREM ReadersStayUndisturbed == Spec => []ReadersUndisturbed
<1>1. TypeOK /\ InstallSound => ReadersUndisturbed
  <2> SUFFICES ASSUME TypeOK, InstallSound, NEW p \in Process
               PROVE  /\ pc[p] = "refused" => fd[p] = NoInode
                      /\ pc[p] = "accepted" => bytes[p] = Package(VersionIn(fd[p]))
    BY DEF ReadersUndisturbed
  <2>1. pc[p] = "refused" => fd[p] = NoInode
    BY DEF InstallSound, ReadersSound
  <2>2. ASSUME pc[p] = "accepted" PROVE bytes[p] = Package(VersionIn(fd[p]))
    <3>1. bytes[p] = data[fd[p]] /\ fd[p] # NoInode /\ fd[p] \in Inode
      BY <2>2 DEF InstallSound, ReadersSound, TypeOK
    <3> QED
      BY <3>1, PublishedWhole DEF InstallSound, NamesPublished
  <2> QED
    BY <2>1, <2>2
<1> QED
  BY <1>1, InstallStaysSound, PTL

=============================================================================
