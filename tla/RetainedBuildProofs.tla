------------------------ MODULE RetainedBuildProofs ------------------------
(***************************************************************************)
(* RelinkFaithful, RetainedFaithful and RetainedAgrees for every lane,     *)
(* every number of touches, and every record another tool may have left.   *)
(***************************************************************************)
EXTENDS RetainedBuildInvariant, NativeCaptureProofs

USE DEF files, metadata

-----------------------------------------------------------------------------
(* What a build leaves that its own selection does not need. *)

\* A digest once bound stays bound: no other run writes this journal.
LEMMA JournalsBoundStep ==
    ASSUME TypeOK, TypeOK', NamesOwned, JournalsBound, [Next]_vars
    PROVE  JournalsBound'
<1>a. journal \in [Name -> JournalEntries \cup {NoFile}]
  BY DEF TypeOK
<1>1. SUFFICES ASSUME NEW c \in Compile,
                      compiler'[c].pc \in {"captured", "emitting", "emitted", "done"}
               PROVE  /\ journal'[compiler'[c].name].captureSha # NoFile
                      /\ compiler'[c].pc = "done" =>
                            journal'[compiler'[c].name].nativeSha # NoFile
  BY DEF JournalsBound
<1> DEFINE n == compiler[c].name
<1>2. ASSUME NEW d \in Compile, CompileStep(d) \/ CompileFails(d), d # c
      PROVE  compiler'[c] = compiler[c] /\ journal'[n] = journal[n]
  <2>1. compiler'[c] = compiler[c]
    BY <1>2, CompilerFields
  <2>2. n \in Name
    BY <1>1, <2>1, GeneratedTyped DEF NamesOwned, Journaled
  <2>3. compiler[d].name # n
    BY <1>2, <2>2, NoFileAssumption DEF NamesOwned
  <2> QED
    BY <1>2, <1>a, <2>1, <2>2, <2>3 DEF CompileStep, CompileFails, Reserve, Preprocess,
       WriteJournal, Snapshot, OpenObject, EmitObject, Finish
<1>3. CASE compiler'[c] = compiler[c] /\ journal'[n] = journal[n]
  BY <1>1, <1>3 DEF JournalsBound
<1>4. CASE CompileStep(c) \/ CompileFails(c)
  <2>1. compiler[c].pc \in {"journaled", "captured", "emitting", "emitted"}
        /\ compiler'[c].name = n
    BY <1>1, <1>4, CompilerFields
  <2>2. n \in Name /\ journal[n] \in JournalEntries /\ Bitcode(c) \in Bitcodes
    BY <1>a, <2>1, GeneratedTyped DEF NamesOwned, Journaled
  <2>3. CASE Snapshot(c)
    <3>1. Digest(Bitcode(c)) \in DigestOf(Bitcodes)
      BY <2>2 DEF Digest, DigestOf
    <3>a. journal' = [journal EXCEPT ![compiler[c].name].captureSha = Digest(Bitcode(c))]
      BY <2>3 DEF Snapshot
    <3>2. journal'[n] = [journal[n] EXCEPT !.captureSha = Digest(Bitcode(c))]
      <4>1. n \in DOMAIN journal
        BY <1>a, <2>2
      <4> HIDE DEF n
      <4>2. journal' = [journal EXCEPT ![n].captureSha = Digest(Bitcode(c))]
        BY <3>a DEF n
      <4> QED
        BY <4>1, <4>2
    <3>3. compiler'[c].pc = "captured"
      BY <1>1, <1>4, <2>3, CompilerFields DEF Snapshot
    <3>4. journal'[n].captureSha = Digest(Bitcode(c))
      BY <2>2, <3>2 DEF JournalEntries
    <3> QED
      BY <2>1, <3>1, <3>3, <3>4, NoFileAssumption
  <2>4. CASE Finish(c)
    <3>1. object[ObjectOf[c]] \in ObjectBytes
      BY <2>4, ConstantsAssumption DEF TypeOK, Finish, Finishable, IsObject
    <3>2. Digest(object[ObjectOf[c]]) \in DigestOf(ObjectBytes)
      BY <3>1 DEF Digest, DigestOf
    <3>3. /\ journal'[n].nativeSha = Digest(object[ObjectOf[c]])
          /\ journal'[n].captureSha = journal[n].captureSha
          /\ compiler[c].pc = "emitted"
      BY <2>2, <2>4, <1>a DEF Finish, JournalEntries
    <3> QED
      BY <2>1, <3>2, <3>3, NoFileAssumption DEF JournalsBound
  <2>5. CASE OpenObject(c) \/ EmitObject(c)
    <3>1. journal' = journal /\ compiler'[c].pc # "done"
          /\ compiler[c].pc \in {"captured", "emitting"}
      BY <1>4, <2>5, CompilerFields DEF OpenObject, EmitObject
    <3> QED
      BY <2>1, <3>1 DEF JournalsBound
  <2> QED
    BY <1>1, <1>4, <2>1, <2>3, <2>4, <2>5, CompilerFields
<1> QED
  BY <1>2, <1>3, <1>4, StepKinds, LinkFrame, RestFrame

\* recordNativeLink calls a link unsupported as soon as its witness repeats a
\* journal, and never takes that back.
LEMMA UnambiguousStep ==
    ASSUME TypeOK, TypeOK', LinkersSound, WitnessesUnambiguous, [Next]_vars
    PROVE  WitnessesUnambiguous'
<1>a. linkJournal \in [Output -> LinkRecords \cup {NoFile}]
  BY DEF TypeOK
<1>1. ASSUME NEW l \in Link, linker'[l].pc \in {"recording", "saving"},
             ~linker'[l].unsupported
      PROVE  Unambiguous(linker'[l].elf)
  <2>d. /\ linker \in [Link -> LinkerStates]
        /\ linker[l] = [pc |-> linker[l].pc, read |-> linker[l].read,
                        elf |-> linker[l].elf, next |-> linker[l].next,
                        matched |-> linker[l].matched, units |-> linker[l].units,
                        unsupported |-> linker[l].unsupported]
    BY LinkerRecord
  <2>1. CASE linker'[l] = linker[l]
    BY <1>1, <2>1 DEF WitnessesUnambiguous
  <2>2. CASE Observe(l)
    <3> DEFINE elf == output[OutputOf[l]]
               repeated == \E i, j \in DOMAIN elf.parts :
                              i # j /\ Witness(elf)[i] = Witness(elf)[j]
    <3>1. elf \in OutputBytes
      BY <2>2, ConstantsAssumption DEF Observe, LinkersSound, LinkWrote, TypeOK
    <3>2. DOMAIN elf.parts = 1..Len(elf.parts)
      BY <3>1 DEF OutputBytes
    <3>3. linker' = [linker EXCEPT ![l].pc = "recording", ![l].elf = elf,
                                   ![l].unsupported = l \in Unqualified \/ repeated]
      BY <2>2 DEF Observe
    <3>4. linker'[l].elf = elf /\ (repeated => linker'[l].unsupported)
      <4> HIDE DEF elf, repeated
      <4> QED
        BY <3>3, <2>d
    <3>5. \A i \in 1..Len(elf.parts) : Witness(elf)[i] = elf.parts[i].marker
      BY <3>2 DEF Witness
    <3> QED
      BY <1>1, <3>2, <3>4, <3>5 DEF Unambiguous
  <2>3. CASE RecordUnit(l)
    <3>1. /\ linker[l].pc = "recording" /\ linker'[l].elf = linker[l].elf
          /\ linker[l].unsupported => linker'[l].unsupported
      BY <2>3, <2>d DEF RecordUnit
    <3> QED
      BY <1>1, <3>1 DEF WitnessesUnambiguous
  <2>4. CASE SaveObject(l)
    <3>1. /\ linker[l].pc = "saving" /\ linker'[l].elf = linker[l].elf
          /\ linker'[l].unsupported = linker[l].unsupported
      BY <2>4, <2>d DEF SaveObject
    <3> QED
      BY <1>1, <3>1 DEF WitnessesUnambiguous
  <2>5. ASSUME NEW k \in Link, StartLink(k) \/ LinkStep(k) \/ LinkFails(k)
        PROVE  linker'[l] = linker[l] \/ Observe(l) \/ RecordUnit(l) \/ SaveObject(l)
    BY <1>1, <2>5, LinkerFields
  <2> QED
    BY <2>1, <2>2, <2>3, <2>4, <2>5, StepKinds, CompileFrame, RestFrame
<1>2. ASSUME NEW o \in Output, linkJournal'[o] # NoFile, ~linkJournal'[o].unsupported
      PROVE  Unambiguous(linkJournal'[o].nativeSha.sha256)
  <2>1. CASE linkJournal'[o] = linkJournal[o]
    BY <1>2, <2>1 DEF WitnessesUnambiguous
  <2>2. ASSUME NEW l \in Link, RecordLink(l), OutputOf[l] = o
        PROVE  Unambiguous(linkJournal'[o].nativeSha.sha256)
    <3> DEFINE flag == linker[l].unsupported \/ ~(
                         /\ linker[l].matched = Len(linker[l].elf.parts)
                         /\ \A d \in DsosOf[l] \cup linker[l].elf.needed : PrivateDso(d))
    <3>1. linkJournal'[o] =
             [nativeSha |-> Digest(linker[l].elf), units |-> linker[l].units,
              libraries |-> linker[l].elf.needed, unsupported |-> flag]
          /\ linker[l].pc = "recording"
      BY <1>a, <2>2 DEF RecordLink
    <3>2. linker[l].unsupported => flag
      OBVIOUS
    <3> HIDE DEF flag
    <3>3. linkJournal'[o].nativeSha.sha256 = linker[l].elf
          /\ linkJournal'[o].unsupported = flag
      BY <3>1 DEF Digest
    <3> QED
      BY <1>2, <3>1, <3>2, <3>3 DEF WitnessesUnambiguous
  <2>3. ASSUME NEW l \in Link, StartLink(l) \/ LinkStep(l) \/ LinkFails(l)
        PROVE  \/ linkJournal'[o] = linkJournal[o]
               \/ RecordLink(l) /\ OutputOf[l] = o
    BY <1>a, <2>3 DEF StartLink, LinkStep, LinkFails, LldRead, LldWrite, Observe, RecordUnit,
       SaveObject, RecordLink
  <2> QED
    BY <2>1, <2>2, <2>3, StepKinds, CompileFrame, RestFrame
<1> QED
  BY <1>1, <1>2 DEF WitnessesUnambiguous, Unambiguous

\* A step of the build keeps everything a lane nobody touched is known for.
LEMMA LaneStep ==
    ASSUME LaneSound, [Next]_vars
    PROVE  LaneSound'
<1>1. TypeOK' /\ EvidenceSound'
  BY NextSound DEF LaneSound
<1> QED
  BY <1>1, JournalsBoundStep, UnambiguousStep DEF LaneSound, EvidenceSound

\* A selection is the last thing a lane sees: what it read is still there.
LEMMA AnswersStep ==
    ASSUME LaneSound, AnswersStand, [Next]_vars
    PROVE  AnswersStand'
<1> USE DEF AnswersStand, MembersConsumed
<1>1. CASE ~Building
  <2>1. UNCHANGED vars
    BY <1>1, StoppedStays DEF LaneSound, EvidenceSound
  <2>2. Qualified' <=> Qualified
    BY <2>1 DEF vars, Qualified, Digest
  <2>3. /\ \A bytes : ConsumedObject(bytes)' <=> ConsumedObject(bytes)
        /\ \A bytes : UnitOf(bytes)' = UnitOf(bytes)
    BY <2>1 DEF vars, ConsumedObject, UnitOf, Digest
  <2> QED
    BY <2>1, <2>2, <2>3 DEF vars
<1>2. CASE Building /\ UNCHANGED <<selection, members>>
  BY <1>2 DEF Building
<1>3. CASE Building /\ SelectOutput
  <2>1. /\ selection' = IF Qualified THEN linkJournal[Selected].units ELSE Refused
        /\ members' = NoFile /\ UNCHANGED <<output, linkJournal, capture, saved>>
    BY <1>3 DEF SelectOutput, Building
  <2>2. Qualified' <=> Qualified
    BY <2>1 DEF Qualified, Digest
  <2> QED
    BY <2>1, <2>2
<1>4. CASE Building /\ SelectArchive
  <2> DEFINE consumed == {i \in DOMAIN archive : \A j \in 1..i : ConsumedObject(archive[j])}
             units == [i \in DOMAIN archive |-> UnitOf(archive[i])]
  <2>1. /\ members' = IF consumed = DOMAIN archive THEN units ELSE Refused
        /\ saved' = saved \cup ({archive[i] : i \in consumed} \ saving)
        /\ selection' = NoFile /\ UNCHANGED <<input, archive, capture, journal, saving>>
    BY <1>4 DEF SelectArchive, Building
  <2>2. DOMAIN archive = 1..Len(archive) /\ Len(archive) \in Nat
    BY DEF LaneSound, TypeOK
  <2>3. consumed = DOMAIN archive <=> \A i \in DOMAIN archive : ConsumedObject(archive[i])
    BY <2>2
  <2>4. /\ \A bytes : ConsumedObject(bytes)' <=> ConsumedObject(bytes)
        /\ \A bytes : UnitOf(bytes)' = UnitOf(bytes)
    BY <2>1 DEF ConsumedObject, UnitOf, Digest
  <2>5. members' # Refused => \A i \in DOMAIN archive : archive[i] \in saved' \cup saving'
    BY <2>1
  <2>6. /\ MembersConsumed' <=> consumed = DOMAIN archive
        /\ [i \in DOMAIN archive |-> UnitOf(archive[i])]' = units
    BY <2>1, <2>3, <2>4
  <2> QED
    BY <2>1, <2>5, <2>6
<1> QED
  BY <1>1, <1>2, <1>3, <1>4, StepKinds, CompileFrame, LinkFrame DEF Project, Regenerate,
     EditObject, CopyObject, ArchiveObject, DisturbCapture, vars

-----------------------------------------------------------------------------
(* What survives in a kept lane. *)

\* A lane nobody touched has it all.
LEMMA KeptFromLane == LaneSound => KeptSound
<1> SUFFICES ASSUME LaneSound
             PROVE  KeptSound
  OBVIOUS
<1>1. TypeOK /\ NamesOwned /\ JournalsSound /\ LinkJournalsSound
  BY DEF LaneSound, EvidenceSound
<1>2. Seq(Units) \subseteq Seq(LooseUnits)
  <2>1. Units \subseteq LooseUnits
    BY DEF Units, LooseUnits
  <2> QED
    BY <2>1
<1>3. LinkRecords \subseteq LooseRecords
  BY <1>2 DEF LinkRecords, LooseRecords
<1>4. ASSUME NEW o \in Output, linkJournal[o] # NoFile, ~linkJournal[o].unsupported
      PROVE  PartsGenerated(linkJournal[o].nativeSha.sha256)
  <2> DEFINE record == linkJournal[o]
             parts == record.nativeSha.sha256.parts
  <2>1. record \in LinkRecords /\ RecordSound(record)
    BY <1>1, <1>4 DEF TypeOK, LinkJournalsSound
  <2>2. record.units \in Seq(Units) /\ Len(record.units) = Len(parts)
    BY <2>1 DEF LinkRecords, RecordSound
  <2>3. ASSUME NEW i \in 1..Len(parts)
        PROVE  \E c \in Compile : /\ compiler[c].pc = "done"
                                  /\ compiler[c].name = parts[i].marker
                                  /\ parts[i] = Generated(c)
    <3>1. UnitSound(record.units[i], parts[i])
      BY <2>1, <2>3 DEF RecordSound
    <3>2. record.units[i] \in Units
      BY <2>2, <2>3
    <3>3. record.units[i].compile \in Compile
      BY <3>2 DEF Units
    <3>4. \A c : Generated(c).marker = compiler[c].name
      BY DEF Generated
    <3> QED
      BY <3>1, <3>3, <3>4 DEF UnitSound
  <2> QED
    BY <2>3 DEF PartsGenerated
<1> QED
  BY <1>1, <1>3, <1>4 DEF KeptSound, TypeOK, NamesOwned

\* The units another recorder may write.
LEMMA OtherUnitsLoose ==
    ASSUME KeptSound
    PROVE  OtherUnits \subseteq LooseUnits
<1>1. SUFFICES ASSUME NEW bytes \in saved, journal[bytes.marker] # NoFile,
                      NEW native \in saved
               PROVE  [marker |-> bytes.marker, compile |-> journal[bytes.marker].compile,
                       captureSha |-> journal[bytes.marker].captureSha,
                       nativeSha |-> Digest(native)] \in LooseUnits
  BY DEF OtherUnits
<1>2. bytes.marker \in Name /\ native \in ObjectBytes
  BY <1>1 DEF KeptSound, ObjectBytes
<1>3. journal[bytes.marker] \in JournalEntries
  BY <1>1, <1>2 DEF KeptSound
<1>4. Digest(native) \in DigestOf(ObjectBytes)
  BY <1>2 DEF Digest, DigestOf
<1> QED
  BY <1>2, <1>3, <1>4 DEF JournalEntries, LooseUnits

\* Nothing that happens to the files of a kept lane takes it away.
LEMMA KeptTouched ==
    ASSUME KeptSound,
           LoseSnapshot \/ LoseCapture \/ RewriteInput \/ EditSelected \/ RewriteRecord
    PROVE  KeptSound'
<1>1. UNCHANGED <<journal, compiler>>
  BY DEF LoseSnapshot, LoseCapture, RewriteInput, EditSelected, RewriteRecord, Touch
<1>2. JournalsSound'
  BY <1>1 DEF KeptSound, JournalsSound, EntrySound, Generated, Bitcode, Digest
<1>3. \A elf : PartsGenerated(elf)' <=> PartsGenerated(elf)
  BY <1>1 DEF PartsGenerated, Generated, Bitcode
<1>s. Selected \in Output
  BY ConstantsAssumption
<1>4. CASE LoseSnapshot \/ LoseCapture \/ RewriteInput
  <2>1. saved' \subseteq saved /\ UNCHANGED <<output, archive, linkJournal>>
    BY <1>4 DEF LoseSnapshot, LoseCapture, RewriteInput
  <2> QED
    BY <1>1, <1>2, <1>3, <2>1 DEF KeptSound
<1>5. CASE EditSelected
  <2>1. UNCHANGED <<saved, linkJournal>>
    BY <1>5 DEF EditSelected
  <2>2. \A b \in ObjectBytes : [b EXCEPT !.edited = TRUE] \in ObjectBytes
    BY DEF ObjectBytes
  <2>3. \A s \in Seq(ObjectBytes) : s # <<>> =>
           [s EXCEPT ![1] = [s[1] EXCEPT !.edited = TRUE]] \in Seq(ObjectBytes)
    <3>1. SUFFICES ASSUME NEW s \in Seq(ObjectBytes), s # <<>>
                   PROVE  [s EXCEPT ![1] = [s[1] EXCEPT !.edited = TRUE]]
                             \in Seq(ObjectBytes)
      OBVIOUS
    <3>2. [s[1] EXCEPT !.edited = TRUE] \in ObjectBytes
      BY <2>2, <3>1
    <3> QED
      BY <3>1, <3>2
  <2>4. output' \in [Output -> OutputBytes \cup {NoFile}] /\ archive' \in Seq(ObjectBytes)
    <3>1. CASE /\ output[Selected] # NoFile
               /\ output[Selected].parts # <<>>
               /\ output' = [output EXCEPT ![Selected].parts[1].edited = TRUE]
               /\ UNCHANGED archive
      <4> DEFINE elf == output[Selected]
                 parts == [elf.parts EXCEPT ![1] = [elf.parts[1] EXCEPT !.edited = TRUE]]
      <4>1. elf \in OutputBytes
        BY <1>s, <3>1 DEF KeptSound
      <4>2. parts \in Seq(ObjectBytes)
        BY <2>3, <3>1, <4>1 DEF OutputBytes
      <4>3. [elf EXCEPT !.parts = parts] \in OutputBytes
        BY <4>1, <4>2 DEF OutputBytes
      <4>4. output' = [output EXCEPT ![Selected] = [elf EXCEPT !.parts = parts]]
        BY <3>1
      <4> HIDE DEF elf, parts
      <4> QED
        BY <1>s, <3>1, <4>3, <4>4 DEF KeptSound
    <3>2. CASE /\ archive # <<>>
               /\ archive' = [archive EXCEPT ![1].edited = TRUE]
               /\ UNCHANGED output
      BY <2>3, <3>2 DEF KeptSound
    <3> QED
      BY <1>5, <3>1, <3>2 DEF EditSelected
  <2> QED
    BY <1>1, <1>2, <1>3, <2>1, <2>4 DEF KeptSound
<1>6. CASE RewriteRecord
  <2>1. UNCHANGED <<output, archive, saved>> /\ linkJournal[Selected] # NoFile
    BY <1>6 DEF RewriteRecord
  <2>2. PICK units \in {<<>>} \cup SeqOf(OtherUnits, Len(linkJournal[Selected].units)) :
           linkJournal' = [linkJournal EXCEPT ![Selected].units = units]
    BY <1>6 DEF RewriteRecord
  <2> DEFINE record == linkJournal[Selected]
             rewritten == [record EXCEPT !.units = units]
  <2>3. record \in LooseRecords
    BY <1>s, <2>1 DEF KeptSound
  <2>4. units \in Seq(LooseUnits)
    <3>1. CASE units = <<>>
      BY <3>1
    <3>2. CASE units # <<>>
      <4>1. PICK m \in 0..Len(record.units) : units \in [1..m -> OtherUnits]
        BY <2>2, <3>2 DEF SeqOf
      <4>2. record.units \in Seq(LooseUnits)
        BY <2>3 DEF LooseRecords
      <4>3. m \in Nat
        BY <4>1, <4>2
      <4>4. units \in [1..m -> LooseUnits]
        BY <4>1, OtherUnitsLoose
      <4> QED
        BY <4>3, <4>4
    <3> QED
      BY <3>1, <3>2
  <2>5. /\ rewritten \in LooseRecords
        /\ rewritten.nativeSha = record.nativeSha
        /\ rewritten.unsupported = record.unsupported
    BY <2>3, <2>4 DEF LooseRecords
  <2>6. linkJournal' = [linkJournal EXCEPT ![Selected] = rewritten]
    BY <2>2
  <2> HIDE DEF record, rewritten
  <2>7. /\ linkJournal' \in [Output -> LooseRecords \cup {NoFile}]
        /\ linkJournal'[Selected] = rewritten
        /\ \A o \in Output : o # Selected => linkJournal'[o] = linkJournal[o]
    BY <1>s, <2>5, <2>6 DEF KeptSound
  <2>8. ASSUME NEW o \in Output, linkJournal'[o] # NoFile, ~linkJournal'[o].unsupported
        PROVE  PartsGenerated(linkJournal'[o].nativeSha.sha256)
    <3>1. /\ linkJournal[o] # NoFile /\ ~linkJournal[o].unsupported
          /\ linkJournal'[o].nativeSha = linkJournal[o].nativeSha
      BY <2>1, <2>5, <2>7, <2>8 DEF record
    <3> QED
      BY <3>1 DEF KeptSound
  <2> QED
    BY <1>1, <1>2, <1>3, <2>1, <2>7, <2>8 DEF KeptSound
<1> QED
  BY <1>4, <1>5, <1>6

-----------------------------------------------------------------------------
(* What selectRetainedBuild accepts. *)

\* A retained linked output is accepted with the evidence of exactly the objects in
\* it, although its units may come from a recorder that compared nothing.
LEMMA RetainedLinked ==
    ASSUME KeptSound, RetainedQualified
    PROVE  LET units == linkJournal[Selected].units
               parts == output[Selected].parts
           IN  /\ Len(units) = Len(parts)
               /\ \A i \in DOMAIN parts : Faithful(units[i], parts[i]) /\ parts[i] \in saved
<1> DEFINE record == linkJournal[Selected]
           units == record.units
           elf == output[Selected]
           parts == elf.parts
<1>1. /\ elf # NoFile /\ record # NoFile /\ Digest(elf) = record.nativeSha
      /\ ~record.unsupported /\ Len(Witness(elf)) = Len(units)
      /\ \A i \in DOMAIN units : RetainedUnit(units[i], Witness(elf), i)
  BY DEF RetainedQualified
<1>2. Selected \in Output
  BY ConstantsAssumption
<1>3. elf \in OutputBytes /\ record \in LooseRecords
  BY <1>1, <1>2 DEF KeptSound
<1>4. /\ DOMAIN parts = 1..Len(parts) /\ Len(parts) \in Nat
      /\ DOMAIN units = 1..Len(units) /\ Len(units) \in Nat
      /\ \A i \in 1..Len(parts) : parts[i] \in ObjectBytes
  BY <1>3 DEF OutputBytes, LooseRecords
<1>5. Len(Witness(elf)) = Len(parts)
      /\ \A i \in 1..Len(parts) : Witness(elf)[i] = parts[i].marker
  BY <1>4 DEF Witness
<1>6. PartsGenerated(elf)
  BY <1>1, <1>2 DEF KeptSound, Digest
<1>7. ASSUME NEW i \in 1..Len(parts)
      PROVE  Faithful(units[i], parts[i]) /\ parts[i] \in saved
  <2>1. i \in DOMAIN units
    BY <1>1, <1>4, <1>5, <1>7
  <2>2. PICK bytes \in saved : /\ bytes.marker = parts[i].marker
                               /\ ConsumedRetained(bytes)
                               /\ UnitOf(bytes) = units[i]
    BY <1>1, <1>5, <1>7, <2>1 DEF RetainedUnit, Position
  <2>3. bytes \in ObjectBytes /\ ConsumedObject(bytes)
    BY <2>2 DEF KeptSound, ConsumedRetained
  <2>4. /\ units[i].compile \in Compile /\ units[i].marker = bytes.marker
        /\ UnitSound(units[i], bytes) /\ Faithful(units[i], bytes)
    BY <2>2, <2>3, ConsumedTells DEF KeptSound
  <2>5. PICK c \in Compile : /\ compiler[c].name = parts[i].marker
                             /\ parts[i] = Generated(c)
    BY <1>6, <1>7 DEF PartsGenerated
  <2>6. compiler[c].name # NoFile
    BY <1>4, <1>7, <2>5, NoFileAssumption DEF ObjectBytes
  <2>7. compiler[units[i].compile].name = parts[i].marker
    BY <2>2, <2>4 DEF UnitSound
  <2>8. units[i].compile = c
    BY <2>4, <2>5, <2>6, <2>7 DEF KeptSound
  <2>9. parts[i] = bytes
    BY <2>4, <2>5, <2>8 DEF UnitSound
  <2> QED
    BY <2>2, <2>4, <2>9
<1> QED
  BY <1>1, <1>4, <1>5, <1>7

\* A retained static library is accepted with the evidence of its members, and only
\* with their snapshots in place.
LEMMA RetainedArchived ==
    ASSUME KeptSound, \A i \in DOMAIN archive : ConsumedRetained(archive[i]),
           NEW i \in DOMAIN archive
    PROVE  Faithful(UnitOf(archive[i]), archive[i]) /\ archive[i] \in saved
<1>1. archive[i] \in ObjectBytes
  BY DEF KeptSound
<1> QED
  BY <1>1, ConsumedTells DEF KeptSound, ConsumedRetained

\* The retained checks include those of the build's own selection.
LEMMA RetainedImpliesQualified ==
    ASSUME RetainedQualified
    PROVE  Qualified
BY DEF RetainedQualified, Qualified, RetainedUnit

\* In a lane nobody touched the ordinary selection misses none of them, if the
\* inputs are still those the compilers read.
LEMMA QualifiedImpliesRetained ==
    ASSUME LaneSound, Qualified,
           \A i \in DOMAIN linkJournal[Selected].units :
              LET c == linkJournal[Selected].units[i].compile IN
              input[InputOf[c]] = compiler[c].consumed
    PROVE  RetainedQualified
<1> DEFINE record == linkJournal[Selected]
           units == record.units
           elf == output[Selected]
           parts == elf.parts
<1>1. /\ elf # NoFile /\ record # NoFile /\ Digest(elf) = record.nativeSha
      /\ ~record.unsupported /\ units # <<>>
      /\ \A i \in DOMAIN units :
            /\ Digest(capture[units[i].marker]) = units[i].captureSha
            /\ \E bytes \in saved : Digest(bytes) = units[i].nativeSha
  BY DEF Qualified
<1>2. Selected \in Output /\ TypeOK
  BY ConstantsAssumption DEF LaneSound
<1>3. elf \in OutputBytes /\ record \in LinkRecords
  BY <1>1, <1>2 DEF TypeOK
<1>4. /\ Len(units) = Len(parts)
      /\ \A i \in 1..Len(parts) : UnitSound(units[i], parts[i])
  BY <1>1, <1>2 DEF LaneSound, EvidenceSound, LinkJournalsSound, RecordSound, Digest
<1>5. /\ DOMAIN parts = 1..Len(parts) /\ Len(parts) \in Nat
      /\ DOMAIN units = 1..Len(parts)
      /\ \A i \in 1..Len(parts) : parts[i] \in ObjectBytes /\ units[i] \in Units
  BY <1>3, <1>4 DEF OutputBytes, LinkRecords
<1>6. /\ Len(Witness(elf)) = Len(parts) /\ DOMAIN Witness(elf) = 1..Len(parts)
      /\ \A i \in 1..Len(parts) : Witness(elf)[i] = parts[i].marker
  BY <1>5 DEF Witness
<1>7. Unambiguous(elf)
  BY <1>1, <1>2 DEF LaneSound, WitnessesUnambiguous, Digest
<1>8. IsInjective(Witness(elf))
  BY <1>6, <1>7 DEF IsInjective, Unambiguous
<1>9. ASSUME NEW i \in DOMAIN units
      PROVE  RetainedUnit(units[i], Witness(elf), i)
  <2> DEFINE c == units[i].compile
             n == units[i].marker
  <2>1. i \in 1..Len(parts) /\ UnitSound(units[i], parts[i])
    BY <1>4, <1>5, <1>9
  <2>2. units[i] \in Units /\ parts[i] \in ObjectBytes
    BY <1>5, <2>1
  <2>3. c \in Compile /\ n \in Name
    BY <2>2 DEF Units
  <2>4. /\ compiler[c].pc = "done" /\ compiler[c].name = n
        /\ units[i].captureSha = Digest(Bitcode(c))
        /\ units[i].nativeSha = Digest(parts[i]) /\ parts[i] = Generated(c)
    BY <2>1 DEF UnitSound
  <2>5. parts[i].marker = n
    BY <2>4 DEF Generated
  <2>6. parts[i] \in saved
    <3>1. PICK bytes \in saved : Digest(bytes) = Digest(parts[i])
      BY <1>1, <1>9, <2>4
    <3>2. bytes = parts[i]
      BY <3>1 DEF Digest
    <3> QED
      BY <3>2
  <2>7. /\ journal[n] # NoFile /\ journal[n].captureSha # NoFile
        /\ journal[n].nativeSha # NoFile
    BY <2>3, <2>4 DEF LaneSound, EvidenceSound, NamesOwned, JournalsBound, Journaled
  <2>8. EntrySound(n, journal[n])
    BY <2>3, <2>7 DEF LaneSound, EvidenceSound, JournalsSound
  <2>9. journal[n].compile = c
    <3>1. journal[n].compile \in Compile
      BY <1>2, <2>3, <2>7, JournalTyped DEF JournalEntries
    <3>2. n # NoFile /\ NamesOwned
      BY <2>3, NoFileAssumption DEF LaneSound, EvidenceSound
    <3>3. compiler[journal[n].compile].name = n
      BY <2>8 DEF EntrySound
    <3> HIDE DEF c, n
    <3>4. compiler[c].name = n
      BY <2>4
    <3>5. \A d \in Compile : compiler[d].name = compiler[c].name => d = c
      BY <2>3, <3>2, <3>4 DEF NamesOwned
    <3> QED
      BY <3>1, <3>3, <3>4, <3>5
  <2>10. /\ journal[n].dependency = Digest(compiler[c].consumed)
         /\ journal[n].captureSha = units[i].captureSha
         /\ journal[n].nativeSha = Digest(parts[i])
    BY <2>4, <2>7, <2>8, <2>9 DEF EntrySound
  <2>11. Digest(input[InputOf[c]]) = journal[n].dependency
    BY <1>9, <2>10
  <2>12. ConsumedObject(parts[i])
    BY <1>1, <1>9, <2>5, <2>7, <2>9, <2>10, <2>11 DEF ConsumedObject
  <2>13. UnitOf(parts[i]) = units[i]
    BY <2>2, <2>4, <2>5, <2>9, <2>10 DEF UnitOf, Units
  <2> QED
    BY <1>1, <1>6, <1>9, <2>1, <2>4, <2>6, <2>12, <2>13
       DEF RetainedUnit, ConsumedRetained, Position
<1> QED
  BY <1>1, <1>4, <1>6, <1>8, <1>9 DEF RetainedQualified

\* An answer about the linked output.
LEMMA LinkedAnswer ==
    ASSUME RetainedSound, SelectRetainedOutput
    PROVE  RetainedFaithful' /\ RetainedAgrees'
<1> DEFINE units == linkJournal[Selected].units
<1>1. /\ kept /\ UNCHANGED <<vars, kept, touched>>
      /\ retained' = [of |-> "linked", units |-> IF RetainedQualified THEN units ELSE Refused]
  BY DEF SelectRetainedOutput, Answer
<1>2. KeptSound /\ (touched = 0 => LaneSound /\ AnswersStand)
  BY DEF RetainedSound
<1>3. Selected \in Output
  BY ConstantsAssumption
<1>4. /\ retained'.of = "linked"
      /\ Accepted' => RetainedQualified /\ retained'.units = units
  BY <1>1 DEF Accepted
<1>5. RetainedFaithful'
  <2>1. ASSUME RetainedQualified
        PROVE  LET parts == output[Selected].parts IN
               /\ Len(units) = Len(parts)
               /\ \A i \in DOMAIN parts :
                     Faithful(units[i], parts[i])' /\ parts[i] \in saved'
    BY <1>1, <1>2, <2>1, RetainedLinked DEF vars, Faithful, Generated, Bitcode
  <2> QED
    BY <1>1, <1>4, <2>1 DEF RetainedFaithful, PartsOf, vars
<1>6. ASSUME touched = 0, selection # NoFile
      PROVE  /\ Accepted' => retained'.units = selection
             /\ (/\ selection # Refused
                 /\ \A i \in DOMAIN selection :
                       input[InputOf[selection[i].compile]]
                          = compiler[selection[i].compile].consumed) => Accepted'
  <2>1. selection = IF Qualified THEN units ELSE Refused
    BY <1>2, <1>6 DEF AnswersStand
  <2>2. Accepted' => retained'.units = selection
    BY <1>4, <2>1, RetainedImpliesQualified
  <2>3. ASSUME selection # Refused,
               \A i \in DOMAIN selection :
                  input[InputOf[selection[i].compile]]
                     = compiler[selection[i].compile].consumed
        PROVE  Accepted'
    <3>1. Qualified /\ selection = units
      BY <2>1, <2>3
    <3>2. RetainedQualified
      BY <1>2, <1>6, <2>3, <3>1, QualifiedImpliesRetained
    <3>3. retained' = [of |-> "linked", units |-> units]
      BY <1>1, <3>2
    <3>4. units \in Seq(Units)
      BY <1>2, <1>3, <1>6, <3>1 DEF Qualified, LaneSound, TypeOK, LinkRecords
    <3>5. units # Refused
      BY <3>4, NoFileAssumption
    <3>6. retained' # NoFile
      BY <3>3, <3>4, AnswerAssumption
    <3> QED
      BY <3>3, <3>5, <3>6 DEF Accepted
  <2> QED
    BY <2>2, <2>3
<1>7. RetainedAgrees'
  BY <1>1, <1>4, <1>6 DEF RetainedAgrees, Answered, vars
<1> QED
  BY <1>5, <1>7

\* An answer about the static library.
LEMMA ArchiveAnswer ==
    ASSUME RetainedSound, SelectRetainedArchive
    PROVE  RetainedFaithful' /\ RetainedAgrees'
<1> DEFINE units == [i \in DOMAIN archive |-> UnitOf(archive[i])]
           consumed == \A i \in DOMAIN archive : ConsumedRetained(archive[i])
<1>1. /\ kept /\ UNCHANGED <<vars, kept, touched>>
      /\ retained' = [of |-> "archive", units |-> IF consumed THEN units ELSE Refused]
  BY DEF SelectRetainedArchive, Answer
<1>2. KeptSound /\ (touched = 0 => LaneSound /\ AnswersStand)
  BY DEF RetainedSound
<1>3. DOMAIN archive = 1..Len(archive) /\ Len(archive) \in Nat
      /\ \A i \in DOMAIN archive : archive[i] \in ObjectBytes
  BY <1>2 DEF KeptSound
<1>4. DOMAIN units = DOMAIN archive /\ Len(units) = Len(archive)
      /\ \A i \in DOMAIN archive : units[i] = UnitOf(archive[i])
  BY <1>3
<1>5. /\ retained'.of = "archive"
      /\ Accepted' => consumed /\ retained'.units = units
  BY <1>1 DEF Accepted
<1>6. RetainedFaithful'
  <2>1. ASSUME consumed, NEW i \in DOMAIN archive
        PROVE  Faithful(units[i], archive[i])' /\ archive[i] \in saved'
    <3>1. Faithful(units[i], archive[i]) /\ archive[i] \in saved
      BY <1>2, <1>4, <2>1, RetainedArchived
    <3>2. UnitOf(archive[i])' = UnitOf(archive[i])
      BY <1>1 DEF vars, UnitOf, Digest
    <3> QED
      BY <1>1, <3>1, <3>2 DEF vars, Faithful, Generated, Bitcode
  <2>2. UNCHANGED <<archive, saved>>
    BY <1>1 DEF vars
  <2>3. units' = units
    BY <1>1 DEF vars, UnitOf, Digest
  <2> HIDE DEF units, consumed
  <2>4. Accepted' => \A i \in DOMAIN archive' :
                        Faithful(units[i], archive[i])' /\ archive'[i] \in saved'
    BY <1>5, <2>1, <2>2
  <2> QED
    BY <1>4, <1>5, <2>2, <2>3, <2>4 DEF RetainedFaithful, PartsOf
<1>7. ASSUME touched = 0, members # NoFile
      PROVE  /\ Accepted' => retained'.units = members
             /\ members # Refused /\ saving = {} => Accepted'
  <2>1. /\ members = IF MembersConsumed THEN units ELSE Refused
        /\ members # Refused => \A i \in DOMAIN archive : archive[i] \in saved \cup saving
    BY <1>2, <1>7 DEF AnswersStand
  <2>2. consumed => MembersConsumed
    BY DEF MembersConsumed, ConsumedRetained
  <2>3. ASSUME members # Refused, saving = {}
        PROVE  Accepted'
    <3>1. MembersConsumed /\ \A i \in DOMAIN archive : archive[i] \in saved
      BY <2>1, <2>3
    <3>2. consumed
      BY <3>1 DEF MembersConsumed, ConsumedRetained
    <3>3. \A i \in DOMAIN archive : UnitOf(archive[i]) \in Units
      BY <1>2, <1>3, <1>7, <3>1, UnitTyped DEF MembersConsumed, LaneSound
    <3>4. units \in Seq(Units)
      BY <1>3, <3>3
    <3>5. units # Refused
      BY <3>4, NoFileAssumption
    <3>6. retained' = [of |-> "archive", units |-> units]
      BY <1>1, <3>2
    <3> HIDE DEF units
    <3>7. retained' # NoFile
      BY <3>4, <3>6, AnswerAssumption
    <3> QED
      BY <3>5, <3>6, <3>7 DEF Accepted
  <2> QED
    BY <1>5, <2>1, <2>2, <2>3
<1>8. RetainedAgrees'
  BY <1>1, <1>5, <1>7 DEF RetainedAgrees, Answered, vars
<1> QED
  BY <1>6, <1>8

\* The invariant of a retained lane holds at the start.
LEMMA InitRetainedSound ==
    ASSUME RetainedInit
    PROVE  RetainedSound
<1>1. Init /\ ~kept /\ touched = 0 /\ retained = NoFile
  BY DEF RetainedInit
<1>2. TypeOK /\ EvidenceSound
  BY <1>1, InitSound
<1>3. JournalsBound /\ WitnessesUnambiguous
  BY <1>1 DEF Init, JournalsBound, WitnessesUnambiguous
<1>4. AnswersStand /\ Promises
  BY <1>1 DEF Init, AnswersStand, Promises, SelectionFaithful, MembersFaithful, MembersFresh
<1>5. LaneSound /\ KeptSound
  BY <1>2, <1>3, KeptFromLane DEF LaneSound
<1> QED
  BY <1>1, <1>4, <1>5 DEF RetainedSound, RetainedFaithful, RetainedAgrees, Accepted

\* And every step keeps it.
LEMMA RetainedStep ==
    ASSUME RetainedSound, [RetainedNext]_allVars
    PROVE  RetainedSound'
<1>1. CASE Build
  <2>1. [Next]_vars /\ ~kept /\ UNCHANGED <<kept, touched, retained>>
    BY <1>1 DEF Build, Next
  <2>2. touched = 0 /\ retained = NoFile /\ Promises /\ LaneSound /\ AnswersStand
    BY <2>1 DEF RetainedSound
  <2>3. LaneSound' /\ AnswersStand' /\ Promises'
    BY <2>1, <2>2, LaneStep, AnswersStep, PromisesStep DEF LaneSound
  <2>4. KeptSound'
    BY <2>3, KeptFromLane, PTL
  <2> QED
    BY <2>1, <2>2, <2>3, <2>4 DEF RetainedSound, RetainedFaithful, RetainedAgrees, Accepted
<1>2. ASSUME UNCHANGED vars
      PROVE  /\ (LaneSound /\ AnswersStand) => (LaneSound /\ AnswersStand)'
             /\ KeptSound => KeptSound'
             /\ Promises => Promises'
  <2>1. /\ \A bytes : ConsumedObject(bytes)' <=> ConsumedObject(bytes)
        /\ \A bytes : UnitOf(bytes)' = UnitOf(bytes)
        /\ Qualified' <=> Qualified
    BY <1>2 DEF vars, ConsumedObject, UnitOf, Digest, Qualified
  <2>2. AnswersStand => AnswersStand'
    BY <1>2, <2>1 DEF vars, AnswersStand, MembersConsumed
  <2>3. LaneSound => LaneSound'
    BY <1>2, LaneStep
  <2>4. KeptSound => KeptSound'
    <3>1. \A elf : PartsGenerated(elf)' <=> PartsGenerated(elf)
      BY <1>2 DEF vars, PartsGenerated, Generated, Bitcode
    <3>2. JournalsSound' <=> JournalsSound
      BY <1>2 DEF vars, JournalsSound, EntrySound, Generated, Bitcode, Digest
    <3> QED
      BY <1>2, <3>1, <3>2 DEF vars, KeptSound
  <2>5. Promises => Promises'
    BY <1>2 DEF vars, Promises, SelectionFaithful, MembersFaithful, MembersFresh, Faithful,
       Generated, Bitcode
  <2> QED
    BY <2>2, <2>3, <2>4, <2>5
<1>3. CASE Keep
  <2>1. ~kept /\ kept' = TRUE /\ UNCHANGED vars /\ UNCHANGED <<touched, retained>>
    BY <1>3 DEF Keep
  <2>2. retained = NoFile
    BY <2>1 DEF RetainedSound
  <2> QED
    BY <1>2, <2>1, <2>2 DEF RetainedSound, RetainedFaithful, RetainedAgrees, Accepted
<1>4. CASE LoseSnapshot \/ LoseCapture \/ RewriteInput \/ EditSelected \/ RewriteRecord
  <2>1. kept /\ kept' /\ retained = NoFile /\ retained' = NoFile /\ touched' = touched + 1
    BY <1>4 DEF LoseSnapshot, LoseCapture, RewriteInput, EditSelected, RewriteRecord, Touch
  <2>2. KeptSound'
    BY <1>4, KeptTouched DEF RetainedSound
  <2>3. touched' \in Nat /\ touched' # 0
    BY <2>1 DEF RetainedSound
  <2> QED
    BY <2>1, <2>2, <2>3 DEF RetainedSound, RetainedFaithful, RetainedAgrees, Accepted
<1>5. CASE SelectRetainedOutput \/ SelectRetainedArchive
  <2>1. kept /\ UNCHANGED vars /\ UNCHANGED <<kept, touched>>
    BY <1>5 DEF SelectRetainedOutput, SelectRetainedArchive, Answer
  <2>2. RetainedFaithful' /\ RetainedAgrees'
    BY <1>5, LinkedAnswer, ArchiveAnswer
  <2> QED
    BY <1>2, <2>1, <2>2 DEF RetainedSound
<1>6. CASE UNCHANGED allVars
  <2>1. UNCHANGED vars /\ UNCHANGED <<kept, touched, retained>>
    BY <1>6 DEF allVars
  <2>2. Accepted' <=> Accepted
    BY <2>1 DEF Accepted
  <2>3. RetainedFaithful' /\ RetainedAgrees'
    BY <2>1, <2>2 DEF vars, RetainedSound, RetainedFaithful, RetainedAgrees, PartsOf, Answered,
       Faithful, Generated, Bitcode
  <2> QED
    BY <1>2, <2>1, <2>3 DEF RetainedSound
<1> QED
  BY <1>1, <1>3, <1>4, <1>5, <1>6 DEF RetainedNext, RetainedDone

\* The evidence of a lane stays bound to the runs that left it, through the build,
\* its end and whatever happens to the files afterwards.
THEOREM RetainedStaysSound == RetainedSpec => []RetainedSound
<1>1. RetainedInit => RetainedSound
  BY InitRetainedSound
<1>2. RetainedSound /\ [RetainedNext]_allVars => RetainedSound'
  BY RetainedStep
<1> QED
  BY <1>1, <1>2, PTL DEF RetainedSpec

\* selectRetainedBuild requalifies an output only with the captures of the very
\* objects in it, in its order, each with its snapshot still whole, whatever was
\* lost or rewritten since the build and whoever wrote the link journal.
THEOREM RetainedIsFaithful == RetainedSpec => []RetainedFaithful
BY RetainedStaysSound, PTL DEF RetainedSound

\* An output linked more than once is selected only with the captures of the link
\* that wrote it last (selectOutput's comparison of the output's digest).
THEOREM RelinkIsFaithful == RetainedSpec => []RelinkFaithful
<1>1. RetainedSound => RelinkFaithful
  BY DEF RetainedSound, RelinkFaithful, Promises
<1> QED
  BY <1>1, RetainedStaysSound, PTL

\* In a lane nobody touched, selectRetainedBuild gives the answer the build's own
\* selection gave, and refuses only for a changed input or a snapshot a dying link
\* left unfinished.
THEOREM RetainedAnswersAgree == RetainedSpec => []RetainedAgrees
BY RetainedStaysSound, PTL DEF RetainedSound
=============================================================================
