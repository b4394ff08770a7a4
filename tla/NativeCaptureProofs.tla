------------------------ MODULE NativeCaptureProofs ------------------------
(***************************************************************************)
(* TypeOK, JournalImmutable and the faithfulness of a selection, for every *)
(* set of compiler and linker runs, paths, names and contents.             *)
(***************************************************************************)
EXTENDS NativeCaptureInvariant, SequenceTheorems, TLAPS

USE DEF files, metadata

CompilerPcs == {"reserved", "parsed", "journaled", "captured", "emitting",
                "emitted", "done", "failed"}

\* A compiler run that only moves on keeps the type of compiler.
LEMMA CompilerMoves ==
    ASSUME TypeOK, NEW c \in Compile, NEW pc \in CompilerPcs,
           compiler' = [compiler EXCEPT ![c].pc = pc]
    PROVE  compiler' \in [Compile -> CompilerStates]
<1>1. [compiler[c] EXCEPT !.pc = pc] \in CompilerStates
  BY DEF TypeOK, CompilerStates, CompilerPcs
<1> QED
  BY <1>1 DEF TypeOK

\* The values a journal entry is updated with.
LEMMA JournalTyped ==
    ASSUME TypeOK, NEW n \in Name, journal[n] # NoFile
    PROVE  /\ journal[n] \in JournalEntries
           /\ \A sha \in DigestOf(Bitcodes) :
                 [journal[n] EXCEPT !.captureSha = sha] \in JournalEntries
           /\ \A sha \in DigestOf(ObjectBytes) :
                 [journal[n] EXCEPT !.nativeSha = sha] \in JournalEntries
BY DEF TypeOK, JournalEntries

\* The module a run compiled, and the object it generates, once it has parsed.
LEMMA GeneratedTyped ==
    ASSUME TypeOK, NEW c \in Compile, compiler[c].name # NoFile,
           compiler[c].consumed # NoFile
    PROVE  /\ Bitcode(c) \in Bitcodes
           /\ Generated(c) \in ObjectBytes
           /\ compiler[c].name \in Name
           /\ compiler[c].consumed \in Content
<1>1. compiler[c] \in CompilerStates
  BY DEF TypeOK
<1>2. compiler[c].name \in Name /\ compiler[c].consumed \in Content
  BY <1>1 DEF CompilerStates
<1> QED
  BY <1>2 DEF Bitcode, Bitcodes, Generated, ObjectBytes

\* A compiler step keeps every type.
LEMMA TypeCompile ==
    ASSUME TypeOK, NamesOwned, NEW c \in Compile, CompileStep(c) \/ CompileFails(c)
    PROVE  TypeOK'
<1>a. compiler[c] \in CompilerStates
  BY DEF TypeOK
<1>b. compiler[c].pc \in Journaled \cup {"parsed"} =>
          /\ compiler[c].name \in Name
          /\ compiler[c].consumed \in Content
          /\ Bitcode(c) \in Bitcodes
          /\ Generated(c) \in ObjectBytes
  <2>1. SUFFICES ASSUME compiler[c].pc \in Journaled \cup {"parsed"}
                 PROVE  compiler[c].name # NoFile /\ compiler[c].consumed # NoFile
    BY GeneratedTyped
  <2>2. compiler[c].pc # "idle"
    BY <2>1 DEF Journaled
  <2> QED
    BY <2>1, <2>2 DEF NamesOwned
<1>1. CASE Reserve(c)
  <2>1. PICK n \in Name :
           /\ capture' = [capture EXCEPT ![n] = Reserved]
           /\ compiler' = [compiler EXCEPT ![c].pc = "reserved", ![c].name = n]
    BY <1>1 DEF Reserve
  <2>2. [compiler[c] EXCEPT !.pc = "reserved", !.name = n] \in CompilerStates
    BY <1>a DEF CompilerStates
  <2>3. compiler' \in [Compile -> CompilerStates]
    BY <2>1, <2>2 DEF TypeOK
  <2>4. capture' \in [Name -> Bitcodes \cup {NoFile, Reserved, Disturbed}]
    BY <2>1 DEF TypeOK
  <2> QED
    BY <1>1, <2>3, <2>4 DEF TypeOK, Reserve
<1>2. CASE Preprocess(c)
  <2>1. input[InputOf[c]] \in Content
    BY ConstantsAssumption DEF TypeOK
  <2>2. [compiler[c] EXCEPT !.pc = "parsed", !.consumed = input[InputOf[c]]]
            \in CompilerStates
    BY <1>a, <2>1 DEF CompilerStates
  <2>3. compiler' \in [Compile -> CompilerStates]
    BY <1>2, <2>2 DEF TypeOK, Preprocess
  <2> QED
    BY <1>2, <2>3 DEF TypeOK, Preprocess
<1>3. CASE WriteJournal(c)
  <2>1. compiler' \in [Compile -> CompilerStates]
    BY <1>3, CompilerMoves DEF WriteJournal, CompilerPcs
  <2>2. compiler[c].name \in Name /\ compiler[c].consumed \in Content
    BY <1>3, <1>b DEF WriteJournal
  <2>3. [compile |-> c, dependency |-> DependencySha(c),
         captureSha |-> NoFile, nativeSha |-> NoFile] \in JournalEntries
    BY <2>2 DEF JournalEntries, DependencySha, Digest, DigestOf
  <2>4. journal' \in [Name -> JournalEntries \cup {NoFile}]
    BY <1>3, <2>2, <2>3 DEF TypeOK, WriteJournal
  <2> QED
    BY <1>3, <2>1, <2>4 DEF TypeOK, WriteJournal
<1>4. CASE Snapshot(c)
  <2>1. compiler' \in [Compile -> CompilerStates]
    BY <1>4, CompilerMoves DEF Snapshot, CompilerPcs
  <2>2. compiler[c].pc \in Journaled
    BY <1>4 DEF Snapshot, Journaled
  <2>3. compiler[c].name \in Name /\ Bitcode(c) \in Bitcodes
    BY <2>2, <1>b
  <2>4. journal[compiler[c].name] # NoFile
    BY <2>2 DEF NamesOwned
  <2>5. Digest(Bitcode(c)) \in DigestOf(Bitcodes)
    BY <2>3 DEF Digest, DigestOf
  <2>6. journal' \in [Name -> JournalEntries \cup {NoFile}]
    BY <1>4, <2>3, <2>4, <2>5, JournalTyped DEF TypeOK, Snapshot
  <2>7. capture' \in [Name -> Bitcodes \cup {NoFile, Reserved, Disturbed}]
    BY <1>4, <2>3 DEF TypeOK, Snapshot
  <2> QED
    BY <1>4, <2>1, <2>6, <2>7 DEF TypeOK, Snapshot
<1>5. CASE OpenObject(c)
  <2>1. compiler' \in [Compile -> CompilerStates]
    BY <1>5, CompilerMoves DEF OpenObject, CompilerPcs
  <2> QED
    BY <1>5, <2>1 DEF TypeOK, OpenObject
<1>6. CASE EmitObject(c)
  <2>1. compiler' \in [Compile -> CompilerStates]
    BY <1>6, CompilerMoves DEF EmitObject, CompilerPcs
  <2>2. Generated(c) \in ObjectBytes
    BY <1>6, <1>b DEF EmitObject, Journaled
  <2>3. PICK bytes \in {Generated(c), Garbage, object[ObjectOf[c]]} :
           object' = [object EXCEPT ![ObjectOf[c]] = bytes]
    BY <1>6 DEF EmitObject
  <2>4. object[ObjectOf[c]] \in ObjectBytes \cup {NoFile, Garbage}
    BY ConstantsAssumption DEF TypeOK
  <2>5. bytes \in ObjectBytes \cup {NoFile, Garbage}
    BY <2>2, <2>3, <2>4
  <2>6. object' \in [Object -> ObjectBytes \cup {NoFile, Garbage}]
    BY <2>3, <2>5 DEF TypeOK
  <2> QED
    BY <1>6, <2>1, <2>6 DEF TypeOK, EmitObject
<1>7. CASE Finish(c)
  <2>1. compiler' \in [Compile -> CompilerStates]
    BY <1>7, CompilerMoves DEF Finish, CompilerPcs
  <2>2. compiler[c].pc \in Journaled
    BY <1>7 DEF Finish, Journaled
  <2>3. compiler[c].name \in Name /\ journal[compiler[c].name] # NoFile
    BY <2>2, <1>b DEF NamesOwned
  <2>4. object[ObjectOf[c]] \in ObjectBytes
    BY <1>7, ConstantsAssumption DEF TypeOK, Finish, Finishable, IsObject
  <2>5. Digest(object[ObjectOf[c]]) \in DigestOf(ObjectBytes)
    BY <2>4 DEF Digest, DigestOf
  <2>6. journal' \in [Name -> JournalEntries \cup {NoFile}]
    BY <1>7, <2>3, <2>5, JournalTyped DEF TypeOK, Finish
  <2> QED
    BY <1>7, <2>1, <2>6 DEF TypeOK, Finish
<1>8. CASE CompileFails(c)
  <2>1. compiler' \in [Compile -> CompilerStates]
    BY <1>8, CompilerMoves DEF CompileFails, CompilerPcs
  <2>2. object' \in [Object -> ObjectBytes \cup {NoFile, Garbage}]
    BY <1>8, ConstantsAssumption DEF TypeOK, CompileFails
  <2> QED
    BY <1>8, <2>1, <2>2 DEF TypeOK, CompileFails
<1> QED
  BY <1>1, <1>2, <1>3, <1>4, <1>5, <1>6, <1>7, <1>8 DEF CompileStep

\* A linker run that only moves on keeps the type of linker.
LEMMA LinkerMoves ==
    ASSUME TypeOK, NEW l \in Link,
           NEW pc \in {"lld", "linked", "recording", "saving", "done", "failed"},
           linker' = [linker EXCEPT ![l].pc = pc]
    PROVE  linker' \in [Link -> LinkerStates]
<1>1. [linker[l] EXCEPT !.pc = pc] \in LinkerStates
  BY DEF TypeOK, LinkerStates
<1> QED
  BY <1>1 DEF TypeOK

\* What consumedObject returns is a unit.
LEMMA UnitTyped ==
    ASSUME TypeOK, NEW bytes \in ObjectBytes, ConsumedObject(bytes)
    PROVE  UnitOf(bytes) \in Units
<1>1. bytes.marker \in Name
  BY DEF ObjectBytes
<1>2. journal[bytes.marker] \in JournalEntries
  BY <1>1 DEF TypeOK, ConsumedObject
<1>3. /\ journal[bytes.marker].compile \in Compile
      /\ journal[bytes.marker].captureSha \in DigestOf(Bitcodes)
  BY <1>2 DEF ConsumedObject, JournalEntries
<1>4. Digest(bytes) \in DigestOf(ObjectBytes)
  BY DEF Digest, DigestOf
<1> QED
  BY <1>1, <1>3, <1>4 DEF UnitOf, Units

\* A linker step keeps every type.
LEMMA TypeLink ==
    ASSUME TypeOK, LinkersSound, NEW l \in Link,
           StartLink(l) \/ LinkStep(l) \/ LinkFails(l)
    PROVE  TypeOK'
<1>a. linker[l] \in LinkerStates
  BY DEF TypeOK
<1>1. CASE StartLink(l)
  <2>1. linker' \in [Link -> LinkerStates]
    BY <1>1, LinkerMoves DEF StartLink
  <2> QED
    BY <1>1, <2>1 DEF TypeOK, StartLink
<1>2. CASE LldRead(l)
  <2> DEFINE bytes == object[ObjectsOf[l][Len(linker[l].read) + 1]]
  <2>1. linker[l].read \in Seq(ObjectBytes)
    BY <1>a DEF LinkerStates
  <2>2. ObjectsOf[l][Len(linker[l].read) + 1] \in Object
    BY <1>2, <2>1, ConstantsAssumption DEF LldRead
  <2>3. bytes \in ObjectBytes
    BY <1>2, <2>2 DEF LldRead, Linkable, IsObject, TypeOK
  <2>4. Append(linker[l].read, bytes) \in Seq(ObjectBytes)
    BY <2>1, <2>3
  <2>5. [linker[l] EXCEPT !.read = Append(linker[l].read, bytes)] \in LinkerStates
    BY <1>a, <2>4 DEF LinkerStates
  <2>6. linker' = [linker EXCEPT ![l].read = Append(linker[l].read, bytes)]
    BY <1>2 DEF LldRead
  <2>7. linker' \in [Link -> LinkerStates]
    BY <2>5, <2>6 DEF TypeOK
  <2> QED
    BY <1>2, <2>7 DEF TypeOK, LldRead
<1>3. CASE LldWrite(l)
  <2>1. linker' \in [Link -> LinkerStates]
    BY <1>3, LinkerMoves DEF LldWrite
  <2>2. [parts |-> linker[l].read, needed |-> DsosOf[l]] \in OutputBytes
    BY <1>a, ConstantsAssumption DEF LinkerStates, OutputBytes
  <2>3. output' \in [Output -> OutputBytes \cup {NoFile}]
    BY <1>3, <2>2, ConstantsAssumption DEF TypeOK, LldWrite
  <2> QED
    BY <1>3, <2>1, <2>3 DEF TypeOK, LldWrite
<1>4. CASE Observe(l)
  <2> DEFINE elf == output[OutputOf[l]]
             flag == \/ l \in Unqualified
                     \/ \E i, j \in DOMAIN elf.parts :
                           i # j /\ Witness(elf)[i] = Witness(elf)[j]
  <2>1. elf \in OutputBytes \cup {NoFile}
    BY ConstantsAssumption DEF TypeOK
  <2>2. flag \in BOOLEAN
    OBVIOUS
  <2> HIDE DEF flag
  <2>3. [linker[l] EXCEPT !.pc = "recording", !.elf = elf, !.unsupported = flag]
            \in LinkerStates
    BY <1>a, <2>1, <2>2 DEF LinkerStates
  <2>4. linker' = [linker EXCEPT ![l].pc = "recording", ![l].elf = elf,
                                 ![l].unsupported = flag]
    BY <1>4 DEF Observe, flag
  <2>5. linker' \in [Link -> LinkerStates]
    BY <2>3, <2>4 DEF TypeOK
  <2> QED
    BY <1>4, <2>5 DEF TypeOK, Observe
<1>5. CASE RecordUnit(l)
  <2> DEFINE bytes == object[ObjectsOf[l][linker[l].next]]
             matches == MatchesWitness(l, bytes)
             consumed == matches /\ ConsumedObject(bytes)
             new == consumed /\ bytes \notin saved \cup saving
             matched == IF matches THEN linker[l].matched + 1 ELSE linker[l].matched
             units == IF consumed THEN Append(linker[l].units, UnitOf(bytes))
                                  ELSE linker[l].units
             flag == linker[l].unsupported \/ ~consumed
             pc == IF new THEN "saving" ELSE linker[l].pc
  <2>1. consumed => bytes \in ObjectBytes
    <3>1. ObjectsOf[l][linker[l].next] \in Object
      BY <1>5, <1>a, ConstantsAssumption DEF RecordUnit, LinkerStates
    <3> QED
      BY <3>1 DEF MatchesWitness, IsObject, TypeOK
  <2>2. consumed => UnitOf(bytes) \in Units
    BY <2>1, UnitTyped
  <2>3. units \in Seq(Units)
    BY <1>a, <2>2 DEF LinkerStates
  <2>4. matched \in Nat /\ linker[l].next + 1 \in Nat \ {0}
    BY <1>a DEF LinkerStates
  <2>5. pc \in {"recording", "saving"}
    BY <1>5 DEF RecordUnit
  <2>6. flag \in BOOLEAN
    OBVIOUS
  <2>7. linker' = [linker EXCEPT ![l].next = linker[l].next + 1,
                     ![l].matched = matched, ![l].units = units,
                     ![l].unsupported = flag, ![l].pc = pc]
    BY <1>5 DEF RecordUnit
  <2>8. saving' \subseteq ObjectBytes
    BY <1>5, <2>1 DEF RecordUnit, TypeOK
  <2> HIDE DEF matched, units, flag, pc
  <2>9. [linker[l] EXCEPT !.next = linker[l].next + 1, !.matched = matched,
           !.units = units, !.unsupported = flag, !.pc = pc] \in LinkerStates
    BY <1>a, <2>3, <2>4, <2>5, <2>6 DEF LinkerStates
  <2>10. linker' \in [Link -> LinkerStates]
    BY <2>7, <2>9 DEF TypeOK
  <2> QED
    BY <1>5, <2>8, <2>10 DEF TypeOK, RecordUnit
<1>6. CASE SaveObject(l)
  <2>1. linker' \in [Link -> LinkerStates]
    BY <1>6, LinkerMoves DEF SaveObject
  <2> QED
    BY <1>6, <2>1 DEF TypeOK, SaveObject
<1>7. CASE RecordLink(l)
  <2>1. linker' \in [Link -> LinkerStates]
    BY <1>7, LinkerMoves DEF RecordLink
  <2>2. linker[l].elf \in OutputBytes /\ linker[l].units \in Seq(Units)
    BY <1>7, <1>a DEF RecordLink, LinkersSound, LinkRecorded, LinkerStates
  <2>3. Digest(linker[l].elf) \in DigestOf(OutputBytes)
        /\ linker[l].elf.needed \in SUBSET Output
    BY <2>2 DEF Digest, DigestOf, OutputBytes
  <2>4. PICK flag \in BOOLEAN :
           linkJournal' = [linkJournal EXCEPT ![OutputOf[l]] =
              [nativeSha |-> Digest(linker[l].elf), units |-> linker[l].units,
               libraries |-> linker[l].elf.needed, unsupported |-> flag]]
    BY <1>7 DEF RecordLink
  <2>5. [nativeSha |-> Digest(linker[l].elf), units |-> linker[l].units,
         libraries |-> linker[l].elf.needed, unsupported |-> flag] \in LinkRecords
    BY <2>2, <2>3 DEF LinkRecords
  <2>6. linkJournal' \in [Output -> LinkRecords \cup {NoFile}]
    BY <2>4, <2>5 DEF TypeOK
  <2> QED
    BY <1>7, <2>1, <2>6 DEF TypeOK, RecordLink
<1>8. CASE LinkFails(l)
  <2>1. linker' \in [Link -> LinkerStates]
    BY <1>8, LinkerMoves DEF LinkFails
  <2> QED
    BY <1>8, <2>1 DEF TypeOK, LinkFails
<1> QED
  BY <1>1, <1>2, <1>3, <1>4, <1>5, <1>6, <1>7, <1>8 DEF LinkStep

\* So do the rest of the build and the selections.
LEMMA TypeRest ==
    ASSUME TypeOK, Project \/ SelectOutput \/ SelectArchive \/ UNCHANGED vars
    PROVE  TypeOK'
<1>1. ASSUME NEW f \in Input, Regenerate(f) PROVE TypeOK'
  BY <1>1 DEF TypeOK, Regenerate
<1>2. ASSUME NEW o \in Object, EditObject(o) PROVE TypeOK'
  <2>1. object[o] \in ObjectBytes
    BY <1>2 DEF TypeOK, EditObject, IsObject
  <2>2. [object[o] EXCEPT !.edited = TRUE] \in ObjectBytes
    BY <2>1 DEF ObjectBytes
  <2> QED
    BY <1>2, <2>2 DEF TypeOK, EditObject
<1>3. ASSUME NEW o \in Object, NEW p \in Object, CopyObject(o, p) PROVE TypeOK'
  BY <1>3 DEF TypeOK, CopyObject
<1>4. ASSUME NEW o \in Object, ArchiveObject(o) PROVE TypeOK'
  <2>1. object[o] \in ObjectBytes
    BY <1>4 DEF TypeOK, ArchiveObject, IsObject
  <2> QED
    BY <1>4, <2>1 DEF TypeOK, ArchiveObject
<1>5. ASSUME NEW n \in Name, DisturbCapture(n) PROVE TypeOK'
  BY <1>5 DEF TypeOK, DisturbCapture
<1>6. CASE SelectOutput
  <2>1. Qualified => linkJournal[Selected].units \in Seq(Units)
    BY ConstantsAssumption DEF Qualified, TypeOK, LinkRecords
  <2>2. selection' \in Seq(Units) \cup {NoFile, Refused}
    BY <1>6, <2>1 DEF SelectOutput
  <2> QED
    BY <1>6, <2>2 DEF TypeOK, SelectOutput
<1>7. CASE SelectArchive
  <2> DEFINE consumed == {i \in DOMAIN archive :
                             \A j \in 1..i : ConsumedObject(archive[j])}
             units == [i \in DOMAIN archive |-> UnitOf(archive[i])]
  <2>1. DOMAIN archive = 1..Len(archive) /\ Len(archive) \in Nat
        /\ \A i \in DOMAIN archive : archive[i] \in ObjectBytes
    BY DEF TypeOK
  <2>2. ASSUME consumed = DOMAIN archive
        PROVE  units \in Seq(Units)
    <3>1. \A i \in DOMAIN archive : ConsumedObject(archive[i])
      BY <2>1, <2>2
    <3>2. \A i \in DOMAIN archive : UnitOf(archive[i]) \in Units
      BY <2>1, <3>1, UnitTyped
    <3> QED
      BY <2>1, <3>2
  <2>3. members' \in Seq(Units) \cup {NoFile, Refused}
    BY <1>7, <2>2 DEF SelectArchive
  <2>4. saved' \subseteq ObjectBytes
    BY <1>7, <2>1 DEF SelectArchive, TypeOK
  <2> QED
    BY <1>7, <2>3, <2>4 DEF TypeOK, SelectArchive
<1>8. CASE UNCHANGED vars
  BY <1>8 DEF TypeOK, vars
<1> QED
  BY <1>1, <1>2, <1>3, <1>4, <1>5, <1>6, <1>7, <1>8 DEF Project

-----------------------------------------------------------------------------
(* The kinds of step, and what each leaves alone. *)

\* Every step of a lane is one of a compiler, of a linker, or of the rest.
LEMMA StepKinds ==
    ASSUME [Next]_vars
    PROVE  \/ \E c \in Compile : CompileStep(c) \/ CompileFails(c)
           \/ \E l \in Link : StartLink(l) \/ LinkStep(l) \/ LinkFails(l)
           \/ Project \/ SelectOutput \/ SelectArchive \/ UNCHANGED vars
BY DEF Next, Failure, Published

\* A compiler step leaves the linkers, their outputs and the selection alone.
LEMMA CompileFrame ==
    ASSUME NEW c \in Compile, CompileStep(c) \/ CompileFails(c)
    PROVE  UNCHANGED <<input, output, archive, linkJournal, saved, saving, linker,
                       selection, members>>
BY DEF CompileStep, CompileFails, Reserve, Preprocess, WriteJournal, Snapshot,
       OpenObject, EmitObject, Finish

\* A linker step leaves the compilers and what they wrote alone.
LEMMA LinkFrame ==
    ASSUME NEW l \in Link, StartLink(l) \/ LinkStep(l) \/ LinkFails(l)
    PROVE  UNCHANGED <<input, object, archive, capture, journal, compiler, selection,
                       members>>
BY DEF StartLink, LinkStep, LinkFails, LldRead, LldWrite, Observe, RecordUnit,
       SaveObject, RecordLink

\* The other steps of a build touch neither the compilers nor the linkers.
LEMMA RestFrame ==
    ASSUME Project \/ SelectOutput \/ SelectArchive \/ UNCHANGED vars
    PROVE  UNCHANGED <<output, journal, linkJournal, saving, compiler, linker>>
BY DEF Project, SelectOutput, SelectArchive, vars, Regenerate, EditObject, CopyObject,
       ArchiveObject, DisturbCapture

-----------------------------------------------------------------------------
(* Names. *)

\* What each step does to the state of a compiler run.
LEMMA CompilerFields ==
    ASSUME TypeOK, NEW c \in Compile, CompileStep(c) \/ CompileFails(c)
    PROVE  /\ \A d \in Compile \ {c} : compiler'[d] = compiler[d]
           /\ compiler[c].pc # "idle" => compiler'[c].name = compiler[c].name
           /\ compiler[c].pc # "reserved" => compiler'[c].consumed = compiler[c].consumed
           /\ \/ /\ compiler[c].pc = "idle" /\ compiler'[c].pc = "reserved"
                 /\ compiler'[c].name \in Name
                 /\ capture[compiler'[c].name] = NoFile
                 /\ capture' = [capture EXCEPT ![compiler'[c].name] = Reserved]
                 /\ Reserve(c)
              \/ /\ compiler[c].pc = "reserved" /\ compiler'[c].pc = "parsed"
                 /\ compiler'[c].consumed \in Content
                 /\ Preprocess(c)
              \/ /\ compiler[c].pc = "parsed" /\ compiler'[c].pc = "journaled"
                 /\ WriteJournal(c)
              \/ /\ compiler[c].pc = "journaled" /\ compiler'[c].pc = "captured"
                 /\ Snapshot(c)
              \/ /\ compiler[c].pc = "captured" /\ compiler'[c].pc = "emitting"
                 /\ OpenObject(c)
              \/ /\ compiler[c].pc = "emitting" /\ compiler'[c].pc = "emitted"
                 /\ EmitObject(c)
              \/ /\ compiler[c].pc = "emitted" /\ compiler'[c].pc = "done"
                 /\ Finish(c)
              \/ /\ compiler[c].pc \notin {"idle", "done", "failed"}
                 /\ compiler'[c].pc = "failed"
                 /\ compiler'[c].consumed = compiler[c].consumed
                 /\ CompileFails(c)
<1>a. compiler[c] \in CompilerStates /\ compiler \in [Compile -> CompilerStates]
  BY DEF TypeOK
<1>b. compiler[c] = [pc |-> compiler[c].pc, name |-> compiler[c].name,
                     consumed |-> compiler[c].consumed]
  BY <1>a DEF CompilerStates
<1>1. CASE Reserve(c)
  BY <1>1, <1>a, <1>b DEF Reserve, FreshName
<1>2. CASE Preprocess(c)
  <2>1. input[InputOf[c]] \in Content
    BY ConstantsAssumption DEF TypeOK
  <2> QED
    BY <1>2, <1>a, <1>b, <2>1 DEF Preprocess
<1>3. CASE WriteJournal(c)
  BY <1>3, <1>a, <1>b DEF WriteJournal
<1>4. CASE Snapshot(c)
  BY <1>4, <1>a, <1>b DEF Snapshot
<1>5. CASE OpenObject(c)
  BY <1>5, <1>a, <1>b DEF OpenObject
<1>6. CASE EmitObject(c)
  BY <1>6, <1>a, <1>b DEF EmitObject
<1>7. CASE Finish(c)
  BY <1>7, <1>a, <1>b DEF Finish
<1>8. CASE CompileFails(c)
  BY <1>8, <1>a, <1>b DEF CompileFails, CompilerRunning
<1> QED
  BY <1>1, <1>2, <1>3, <1>4, <1>5, <1>6, <1>7, <1>8 DEF CompileStep

\* A compiler run never goes back, and forgets neither its name nor its input.
LEMMA CompilerProgress ==
    ASSUME TypeOK, [Next]_vars, NEW c \in Compile
    PROVE  /\ compiler[c].pc # "idle" => /\ compiler'[c].pc # "idle"
                                         /\ compiler'[c].name = compiler[c].name
           /\ compiler[c].pc \notin {"idle", "reserved"} =>
                 compiler'[c].consumed = compiler[c].consumed
           /\ compiler[c].pc \in {"done", "failed"} => compiler'[c].pc = compiler[c].pc
           /\ compiler[c].pc = "emitted" =>
                 compiler'[c].pc \in {"emitted", "done", "failed"}
           /\ compiler[c].pc \in Journaled =>
                 compiler'[c].pc \in Journaled \cup {"failed"}
<1>1. ASSUME NEW d \in Compile, CompileStep(d) \/ CompileFails(d)
      PROVE  \/ compiler'[c] = compiler[c]
             \/ d = c
  BY <1>1, CompilerFields
<1>2. CASE CompileStep(c) \/ CompileFails(c)
  BY <1>2, CompilerFields DEF Journaled
<1>3. CASE compiler'[c] = compiler[c]
  BY <1>3
<1> QED
  BY <1>1, <1>2, <1>3, StepKinds, LinkFrame, RestFrame

\* No capture and no journal is ever removed.
LEMMA MetadataStays ==
    ASSUME TypeOK, TypeOK', NamesOwned, [Next]_vars, NEW n \in Name
    PROVE  /\ capture[n] # NoFile => capture'[n] # NoFile
           /\ journal[n] # NoFile => journal'[n] # NoFile
<1>a. capture \in [Name -> Bitcodes \cup {NoFile, Reserved, Disturbed}]
      /\ journal \in [Name -> JournalEntries \cup {NoFile}]
  BY DEF TypeOK
<1>1. ASSUME NEW c \in Compile, CompileStep(c) \/ CompileFails(c)
      PROVE  /\ capture[n] # NoFile => capture'[n] # NoFile
             /\ journal[n] # NoFile => journal'[n] # NoFile
  <2>a. compiler[c].pc \in {"parsed", "journaled", "emitted"} =>
            compiler[c].name \in Name /\ Bitcode(c) \in Bitcodes
    BY GeneratedTyped DEF NamesOwned, Journaled
  <2>1. CASE Reserve(c)
    BY <2>1, <1>a, NoFileAssumption DEF Reserve
  <2>2. CASE WriteJournal(c)
    <3> DEFINE entry == [compile |-> c, dependency |-> DependencySha(c),
                         captureSha |-> NoFile, nativeSha |-> NoFile]
    <3>1. journal' = [journal EXCEPT ![compiler[c].name] = entry] /\ capture' = capture
      BY <2>2 DEF WriteJournal
    <3>2. compiler[c].name \in Name
      BY <2>2, <2>a DEF WriteJournal
    <3>3. compiler[c].name \in Name /\ DependencySha(c) \in DigestOf(Content)
      BY <2>2, GeneratedTyped DEF WriteJournal, NamesOwned, DependencySha, Digest, DigestOf
    <3>4. entry \in JournalEntries
      BY <3>3 DEF JournalEntries
    <3> QED
      BY <1>a, <3>1, <3>2, <3>4, NoFileAssumption
  <2>3. CASE Snapshot(c)
    <3>1. Digest(Bitcode(c)) \in DigestOf(Bitcodes) /\ compiler[c].name \in Name
      BY <2>3, <2>a DEF Snapshot, Digest, DigestOf
    <3>2. journal[compiler[c].name] # NoFile
      BY <2>3 DEF Snapshot, NamesOwned, Journaled
    <3>3. [journal[compiler[c].name] EXCEPT !.captureSha = Digest(Bitcode(c))]
              \in JournalEntries
      BY <3>1, <3>2, JournalTyped
    <3>4. Bitcode(c) \in Bitcodes
      BY <2>3, <2>a DEF Snapshot
    <3> QED
      BY <2>3, <1>a, <3>1, <3>3, <3>4, NoFileAssumption DEF Snapshot
  <2>4. CASE Finish(c)
    <3>1. object[ObjectOf[c]] \in ObjectBytes
      BY <2>4, ConstantsAssumption DEF TypeOK, Finish, Finishable, IsObject
    <3>2. Digest(object[ObjectOf[c]]) \in DigestOf(ObjectBytes)
      BY <3>1 DEF Digest, DigestOf
    <3>3. compiler[c].name \in Name /\ journal[compiler[c].name] # NoFile
      BY <2>4, <2>a DEF Finish, NamesOwned, Journaled
    <3>4. [journal[compiler[c].name] EXCEPT !.nativeSha = Digest(object[ObjectOf[c]])]
              \in JournalEntries
      BY <3>2, <3>3, JournalTyped
    <3> QED
      BY <2>4, <1>a, <3>3, <3>4, NoFileAssumption DEF Finish
  <2>5. CASE Preprocess(c) \/ OpenObject(c) \/ EmitObject(c) \/ CompileFails(c)
    BY <2>5 DEF Preprocess, OpenObject, EmitObject, CompileFails
  <2> QED
    BY <1>1, <2>1, <2>2, <2>3, <2>4, <2>5 DEF CompileStep
<1>2. ASSUME Project \/ SelectOutput \/ SelectArchive \/ UNCHANGED vars
      PROVE  capture[n] # NoFile => capture'[n] # NoFile
  BY <1>2, <1>a, NoFileAssumption DEF Project, SelectOutput, SelectArchive, vars, Regenerate,
     EditObject, CopyObject, ArchiveObject, DisturbCapture
<1> QED
  BY <1>1, <1>2, StepKinds, LinkFrame, RestFrame

\* A run's name stays its own.
LEMMA NamesStep ==
    ASSUME TypeOK, TypeOK', NamesOwned, [Next]_vars
    PROVE  NamesOwned'
<1>a. ASSUME NEW c \in Compile
      PROVE  /\ compiler[c] \in CompilerStates /\ compiler'[c] \in CompilerStates
             /\ compiler[c].name \in Name \cup {NoFile}
  BY <1>a DEF TypeOK, CompilerStates
<1>1. ASSUME NEW c \in Compile, CompileStep(c) \/ CompileFails(c)
      PROVE  NamesOwned'
  <2>1. \A d \in Compile \ {c} : compiler'[d] = compiler[d]
    BY <1>1, CompilerFields
  <2>2. ASSUME NEW d \in Compile
        PROVE  /\ compiler'[d].pc = "idle" <=> compiler'[d].name = NoFile
               /\ compiler'[d].name # NoFile => capture'[compiler'[d].name] # NoFile
    <3>1. CASE d # c
      BY <2>1, <3>1, <1>a, MetadataStays DEF NamesOwned
    <3>2. CASE d = c
      <4>1. CASE Reserve(c)
        <5>1. /\ compiler[c].pc = "idle" /\ compiler'[c].pc = "reserved"
              /\ compiler'[c].name \in Name
              /\ capture' = [capture EXCEPT ![compiler'[c].name] = Reserved]
          BY <4>1, CompilerFields DEF CompileStep, Reserve, Preprocess, WriteJournal,
             Snapshot, OpenObject, EmitObject, Finish, CompileFails, CompilerRunning
        <5> QED
          BY <3>2, <5>1, NoFileAssumption DEF TypeOK
      <4>2. CASE compiler[c].pc # "idle"
        <5>1. compiler'[c].pc # "idle" /\ compiler'[c].name = compiler[c].name
          BY <4>2, CompilerProgress
        <5> QED
          BY <3>2, <4>2, <5>1, <1>a, MetadataStays DEF NamesOwned
      <4> QED
        BY <1>1, <4>1, <4>2, CompilerFields
    <3> QED
      BY <3>1, <3>2
  <2>3. ASSUME NEW d \in Compile, compiler'[d].name # NoFile,
               NEW e \in Compile, compiler'[e].name = compiler'[d].name
        PROVE  e = d
    <3>1. CASE compiler[c].pc # "idle"
      <4>1. compiler'[c].name = compiler[c].name
        BY <3>1, CompilerProgress
      <4>2. compiler'[d].name = compiler[d].name /\ compiler'[e].name = compiler[e].name
        BY <4>1, <2>1
      <4> QED
        BY <2>3, <4>2 DEF NamesOwned
    <3>2. CASE compiler[c].pc = "idle"
      <4>1. capture[compiler'[c].name] = NoFile
        BY <1>1, <3>2, CompilerFields
      <4>2. \A b \in Compile \ {c} : compiler'[b].name # NoFile =>
                compiler'[b].name # compiler'[c].name
        BY <2>1, <4>1 DEF NamesOwned
      <4>3. CASE d = c \/ e = c
        BY <2>3, <4>2, <4>3
      <4>4. CASE d # c /\ e # c
        BY <2>1, <2>3, <4>4 DEF NamesOwned
      <4> QED
        BY <4>3, <4>4
    <3> QED
      BY <3>1, <3>2
  <2>4. ASSUME NEW d \in Compile
        PROVE  compiler'[d].pc \in Journaled \cup {"parsed"} =>
                  compiler'[d].consumed # NoFile
    <3>1. CASE d # c
      BY <2>1, <3>1 DEF NamesOwned
    <3>2. CASE d = c
      BY <1>1, <3>2, CompilerFields, NoFileAssumption DEF NamesOwned, Journaled
    <3> QED
      BY <3>1, <3>2
  <2>5. ASSUME NEW d \in Compile, compiler'[d].pc \in Journaled
        PROVE  journal'[compiler'[d].name] # NoFile
    <3>1. CASE compiler[d].pc \in Journaled
      <4>1. compiler'[d].name = compiler[d].name /\ compiler[d].name \in Name
        BY <3>1, <1>a, CompilerProgress DEF Journaled, NamesOwned
      <4> QED
        BY <3>1, <4>1, MetadataStays DEF NamesOwned
    <3>2. CASE compiler[d].pc \notin Journaled
      <4>1. d = c /\ WriteJournal(c)
        BY <1>1, <2>1, <2>5, <3>2, CompilerFields DEF Journaled
      <4>2. compiler[c].name \in Name /\ compiler'[c].name = compiler[c].name
        BY <4>1, <1>a, CompilerProgress DEF WriteJournal, NamesOwned
      <4>3. compiler[c].consumed \in Content
        BY <4>1, GeneratedTyped DEF WriteJournal, NamesOwned
      <4>4. [compile |-> c, dependency |-> DependencySha(c),
             captureSha |-> NoFile, nativeSha |-> NoFile] \in JournalEntries
        BY <4>3 DEF JournalEntries, DependencySha, Digest, DigestOf
      <4> QED
        BY <4>1, <4>2, <4>4, NoFileAssumption DEF WriteJournal, TypeOK
    <3> QED
      BY <3>1, <3>2
  <2> QED
    BY <2>2, <2>3, <2>4, <2>5 DEF NamesOwned
<1>2. CASE UNCHANGED <<compiler, journal>>
  <2>1. \A c \in Compile : compiler[c].name # NoFile => capture'[compiler[c].name] # NoFile
    BY <1>a, MetadataStays DEF NamesOwned
  <2> QED
    BY <1>2, <2>1 DEF NamesOwned
<1> QED
  BY <1>1, <1>2, StepKinds, LinkFrame, RestFrame

-----------------------------------------------------------------------------
(* Object bytes. *)

\* What each step does to the state of a linker run.
LEMMA LinkerFields ==
    ASSUME TypeOK, NEW l \in Link, StartLink(l) \/ LinkStep(l) \/ LinkFails(l)
    PROVE  /\ \A k \in Link \ {l} : linker'[k] = linker[k]
           /\ ~LldRead(l) => linker'[l].read = linker[l].read
           /\ ~Observe(l) => linker'[l].elf = linker[l].elf
           /\ ~RecordUnit(l) => /\ linker'[l].next = linker[l].next
                                /\ linker'[l].matched = linker[l].matched
                                /\ linker'[l].units = linker[l].units
           /\ ~(RecordUnit(l) \/ Observe(l)) =>
                 linker'[l].unsupported = linker[l].unsupported
           /\ \/ /\ StartLink(l) /\ linker[l].pc = "idle" /\ linker'[l].pc = "lld"
              \/ /\ LldRead(l) /\ linker[l].pc = "lld" /\ linker'[l].pc = "lld"
              \/ /\ LldWrite(l) /\ linker[l].pc = "lld" /\ linker'[l].pc = "linked"
              \/ /\ Observe(l) /\ linker[l].pc = "linked" /\ linker'[l].pc = "recording"
              \/ /\ RecordUnit(l) /\ linker[l].pc = "recording"
                 /\ linker'[l].pc \in {"recording", "saving"}
              \/ /\ SaveObject(l) /\ linker[l].pc = "saving" /\ linker'[l].pc = "recording"
              \/ /\ RecordLink(l) /\ linker[l].pc = "recording" /\ linker'[l].pc = "done"
              \/ /\ LinkFails(l) /\ linker[l].pc \notin {"idle", "done", "failed"}
                 /\ linker'[l].pc = "failed"
<1>a. linker[l] \in LinkerStates /\ linker \in [Link -> LinkerStates]
  BY DEF TypeOK
<1>b. linker[l] = [pc |-> linker[l].pc, read |-> linker[l].read, elf |-> linker[l].elf,
                   next |-> linker[l].next, matched |-> linker[l].matched,
                   units |-> linker[l].units, unsupported |-> linker[l].unsupported]
  BY <1>a DEF LinkerStates
<1>1. CASE StartLink(l)
  BY <1>1, <1>a, <1>b DEF StartLink
<1>2. CASE LldRead(l)
  BY <1>2, <1>a, <1>b DEF LldRead
<1>3. CASE LldWrite(l)
  BY <1>3, <1>a, <1>b DEF LldWrite
<1>4. CASE Observe(l)
  BY <1>4, <1>a, <1>b DEF Observe
<1>5. CASE RecordUnit(l)
  BY <1>5, <1>a, <1>b DEF RecordUnit
<1>6. CASE SaveObject(l)
  BY <1>6, <1>a, <1>b DEF SaveObject
<1>7. CASE RecordLink(l)
  BY <1>7, <1>a, <1>b DEF RecordLink
<1>8. CASE LinkFails(l)
  BY <1>8, <1>a, <1>b DEF LinkFails, LinkerRunning
<1> QED
  BY <1>1, <1>2, <1>3, <1>4, <1>5, <1>6, <1>7, <1>8 DEF LinkStep

\* Bytes once produced stay produced: their run does not change any more.
LEMMA ProducedStays ==
    ASSUME TypeOK, [Next]_vars
    PROVE  \A bytes \in ObjectBytes : Produced(bytes) => Produced(bytes)'
<1>1. SUFFICES ASSUME NEW bytes \in ObjectBytes, Produced(bytes)
               PROVE  Produced(bytes)'
  OBVIOUS
<1>2. bytes.code.compile \in Compile
  BY DEF ObjectBytes, Bitcodes
<1>3. compiler[bytes.code.compile].pc \in {"emitted", "done", "failed"}
  BY <1>1 DEF Produced
<1>4. /\ compiler'[bytes.code.compile].name = compiler[bytes.code.compile].name
      /\ compiler'[bytes.code.compile].consumed = compiler[bytes.code.compile].consumed
      /\ compiler[bytes.code.compile].pc \in {"done", "failed"} =>
            compiler'[bytes.code.compile].pc = compiler[bytes.code.compile].pc
      /\ compiler'[bytes.code.compile].pc \in {"emitted", "done", "failed"}
  BY <1>2, <1>3, CompilerProgress
<1> QED
  BY <1>1, <1>3, <1>4 DEF Produced

\* Where the bytes at an object path can come from.
LEMMA ObjectOrigin ==
    ASSUME TypeOK, [Next]_vars, NEW o \in Object, IsObject(object'[o])
    PROVE  \/ IsObject(object[o]) /\ object'[o] = object[o]
           \/ \E p \in Object : /\ CopyObject(p, o)
                               /\ IsObject(object[p]) /\ object'[o] = object[p]
           \/ \E c \in Compile : EmitObject(c) /\ object'[o] = Generated(c)
           \/ /\ EditObject(o)
              /\ object'[o] = [object[o] EXCEPT !.edited = TRUE]
<1>a. object \in [Object -> ObjectBytes \cup {NoFile, Garbage}]
  BY DEF TypeOK
<1>1. ASSUME NEW c \in Compile, CompileStep(c) \/ CompileFails(c)
      PROVE  \/ IsObject(object[o]) /\ object'[o] = object[o]
             \/ EmitObject(c) /\ object'[o] = Generated(c)
  <2>1. CASE Reserve(c) \/ Preprocess(c) \/ WriteJournal(c) \/ Snapshot(c) \/ Finish(c)
    BY <2>1 DEF Reserve, Preprocess, WriteJournal, Snapshot, Finish, IsObject
  <2>2. CASE OpenObject(c)
    BY <2>2, <1>a DEF OpenObject, IsObject
  <2>3. CASE EmitObject(c)
    <3>1. PICK bytes \in {Generated(c), Garbage, object[ObjectOf[c]]} :
             object' = [object EXCEPT ![ObjectOf[c]] = bytes]
      BY <2>3 DEF EmitObject
    <3> QED
      BY <2>3, <1>a, <3>1 DEF IsObject
  <2>4. CASE CompileFails(c)
    BY <2>4, <1>a DEF CompileFails, IsObject
  <2> QED
    BY <1>1, <2>1, <2>2, <2>3, <2>4 DEF CompileStep
<1>2. ASSUME NEW p \in Object, EditObject(p)
      PROVE  \/ IsObject(object[o]) /\ object'[o] = object[o]
             \/ EditObject(o) /\ object'[o] = [object[o] EXCEPT !.edited = TRUE]
  BY <1>2, <1>a DEF EditObject, IsObject
<1>3. ASSUME NEW p \in Object, NEW q \in Object, CopyObject(p, q)
      PROVE  \/ IsObject(object[o]) /\ object'[o] = object[o]
             \/ q = o /\ IsObject(object[p]) /\ object'[o] = object[p]
  BY <1>3, <1>a DEF CopyObject, IsObject
<1>4. CASE object' = object
  BY <1>4 DEF IsObject
<1> QED
  BY <1>1, <1>2, <1>3, <1>4, StepKinds, LinkFrame DEF Project, Regenerate, ArchiveObject,
     DisturbCapture, SelectOutput, SelectArchive, vars

\* Object bytes, wherever they are, come from a run that emitted them.
LEMMA ObjectsStep ==
    ASSUME TypeOK, TypeOK', NamesOwned, ObjectsProduced, [Next]_vars
    PROVE  ObjectsProduced'
<1>a. ASSUME NEW o \in Object, IsObject(object[o])
      PROVE  object[o] \in ObjectBytes
  BY <1>a DEF TypeOK, IsObject
<1>b. ASSUME NEW o \in Object, IsObject(object[o])
      PROVE  Produced(object[o]) /\ \A bytes : bytes = object[o] => Produced(bytes)'
  BY <1>a, <1>b, ProducedStays DEF ObjectsProduced
<1>1. ASSUME NEW o \in Object, IsObject(object'[o]), NEW bytes, bytes = object'[o]
      PROVE  Produced(bytes)'
  <2>1. CASE \E p \in Object : IsObject(object[p]) /\ object'[o] = object[p]
    BY <1>1, <2>1, <1>b
  <2>2. ASSUME NEW c \in Compile, EmitObject(c), object'[o] = Generated(c)
        PROVE  Produced(bytes)'
    <3>1. /\ compiler'[c].pc = "emitted"
          /\ compiler'[c].name = compiler[c].name
          /\ compiler'[c].consumed = compiler[c].consumed
      <4>1. compiler[c] = [pc |-> compiler[c].pc, name |-> compiler[c].name,
                           consumed |-> compiler[c].consumed]
        BY DEF TypeOK, CompilerStates
      <4> QED
        BY <2>2, <4>1 DEF EmitObject, TypeOK
    <3>2. bytes = [marker |-> compiler[c].name,
                   code |-> [compile |-> c, source |-> compiler[c].consumed],
                   edited |-> FALSE]
      BY <1>1, <2>2 DEF Generated, Bitcode
    <3> QED
      BY <3>1, <3>2 DEF Produced
  <2>3. CASE EditObject(o) /\ object'[o] = [object[o] EXCEPT !.edited = TRUE]
    <3>1. object[o] \in ObjectBytes /\ Produced(object[o]) /\ compiler' = compiler
      BY <2>3, <1>a, <1>b DEF EditObject
    <3>2. object[o].code.compile \in Compile
      BY <3>1 DEF ObjectBytes, Bitcodes
    <3>3. /\ bytes.marker = object[o].marker
          /\ bytes.code = object[o].code
      BY <1>1, <2>3, <3>1 DEF ObjectBytes
    <3>4. compiler[object[o].code.compile].pc # "emitted"
      BY <2>3 DEF EditObject, CompilerRunning
    <3> QED
      BY <3>1, <3>3, <3>4 DEF Produced
  <2> QED
    BY <1>1, <2>1, <2>2, <2>3, ObjectOrigin
<1>2. ASSUME NEW i \in 1..Len(archive'), NEW bytes, bytes = archive'[i]
      PROVE  Produced(bytes)'
  <2>1. \A j \in 1..Len(archive) : archive[j] \in ObjectBytes /\ Produced(archive[j])
    BY DEF TypeOK, ObjectsProduced
  <2>2. \A j \in 1..Len(archive) : \A b : b = archive[j] => Produced(b)'
    BY <2>1, ProducedStays
  <2>3. CASE archive' = archive
    BY <1>2, <2>2, <2>3
  <2>4. ASSUME NEW o \in Object, ArchiveObject(o)
        PROVE  Produced(bytes)'
    <3>1. archive' = Append(archive, object[o]) /\ IsObject(object[o])
      BY <2>4 DEF ArchiveObject
    <3>2. \/ i \in 1..Len(archive) /\ bytes = archive[i]
          \/ bytes = object[o]
      BY <1>2, <3>1 DEF TypeOK
    <3> QED
      BY <2>2, <3>1, <3>2, <1>b
  <2> QED
    BY <2>3, <2>4, StepKinds, CompileFrame, LinkFrame DEF Project, Regenerate, EditObject,
       CopyObject, DisturbCapture, SelectOutput, SelectArchive, vars
<1>3. ASSUME NEW l \in Link, NEW i \in 1..Len(linker'[l].read),
             NEW bytes, bytes = linker'[l].read[i]
      PROVE  Produced(bytes)'
  <2>a. linker[l] \in LinkerStates /\ linker \in [Link -> LinkerStates]
    BY DEF TypeOK
  <2>b. linker[l].read \in Seq(ObjectBytes)
    BY <2>a DEF LinkerStates
  <2>1. \A j \in 1..Len(linker[l].read) : \A b : b = linker[l].read[j] => Produced(b)'
    BY <2>b, ProducedStays DEF ObjectsProduced
  <2>2. CASE linker'[l].read = linker[l].read
    BY <1>3, <2>1, <2>2
  <2>3. CASE LldRead(l)
    <3> DEFINE new == object[ObjectsOf[l][Len(linker[l].read) + 1]]
    <3>1. linker' = [linker EXCEPT ![l].read = Append(linker[l].read, new)]
          /\ IsObject(new) /\ Len(linker[l].read) < Len(ObjectsOf[l])
      BY <2>3 DEF LldRead, Linkable
    <3>2. linker'[l].read = Append(linker[l].read, new)
      BY <2>a, <3>1 DEF LinkerStates
    <3>3. ObjectsOf[l][Len(linker[l].read) + 1] \in Object
      BY <2>b, <3>1, ConstantsAssumption
    <3>4. \/ i \in 1..Len(linker[l].read) /\ bytes = linker[l].read[i]
          \/ bytes = new
      BY <1>3, <2>b, <3>2
    <3> QED
      BY <2>1, <3>1, <3>3, <3>4, <1>b
  <2>4. ASSUME NEW k \in Link, StartLink(k) \/ LinkStep(k) \/ LinkFails(k)
        PROVE  linker'[l].read = linker[l].read \/ LldRead(l)
    BY <2>4, LinkerFields
  <2> QED
    BY <2>2, <2>3, <2>4, StepKinds, CompileFrame, RestFrame
<1> QED
  BY <1>1, <1>2, <1>3 DEF ObjectsProduced

-----------------------------------------------------------------------------
(* Journals. *)

\* A sound entry that does not change stays sound.
LEMMA EntryStays ==
    ASSUME TypeOK, [Next]_vars, NEW n \in Name
    PROVE  \A entry \in JournalEntries : EntrySound(n, entry) => EntrySound(n, entry)'
<1>1. SUFFICES ASSUME NEW entry \in JournalEntries, EntrySound(n, entry)
               PROVE  EntrySound(n, entry)'
  OBVIOUS
<1> DEFINE c == entry.compile
<1>2. c \in Compile
  BY DEF JournalEntries
<1>3. compiler[c].name = n /\ compiler[c].pc \in Journaled \cup {"failed"}
  BY <1>1 DEF EntrySound
<1>4. /\ compiler'[c].name = compiler[c].name
      /\ compiler'[c].consumed = compiler[c].consumed
      /\ compiler'[c].pc \in Journaled \cup {"failed"}
      /\ compiler[c].pc = "done" => compiler'[c].pc = "done"
  BY <1>2, <1>3, CompilerProgress DEF Journaled
<1>5. Bitcode(c)' = Bitcode(c) /\ Generated(c)' = Generated(c)
  BY <1>4 DEF Bitcode, Generated
<1> QED
  BY <1>1, <1>4, <1>5 DEF EntrySound

\* What the finished object is when CaptureFinishConsumer accepts it.
LEMMA FinishedObject ==
    ASSUME TypeOK, NamesOwned, ObjectsProduced, NEW c \in Compile, Finish(c)
    PROVE  object[ObjectOf[c]] = Generated(c)
<1> DEFINE bytes == object[ObjectOf[c]]
           d == bytes.code.compile
<1>1. bytes \in ObjectBytes /\ bytes.marker = compiler[c].name /\ Produced(bytes)
  BY ConstantsAssumption DEF TypeOK, Finish, Finishable, IsObject, ObjectsProduced
<1>2. d \in Compile /\ compiler[d].name = compiler[c].name
  BY <1>1 DEF ObjectBytes, Bitcodes, Produced
<1>3. compiler[c].pc = "emitted" /\ compiler[c].name # NoFile
  BY DEF Finish, NamesOwned
<1>4. d = c
  BY <1>2, <1>3 DEF NamesOwned
<1>5. ~bytes.edited /\ bytes.code.source = compiler[c].consumed
  BY <1>1, <1>3, <1>4 DEF Produced
<1>6. bytes.code = Bitcode(c)
  BY <1>1, <1>4, <1>5 DEF ObjectBytes, Bitcodes, Bitcode
<1> QED
  BY <1>1, <1>5, <1>6 DEF ObjectBytes, Generated

\* A journal belongs to its run and tells the truth about it.
LEMMA JournalsStep ==
    ASSUME TypeOK, TypeOK', NamesOwned, ObjectsProduced, JournalsSound, [Next]_vars
    PROVE  JournalsSound'
<1>1. ASSUME NEW n \in Name, journal'[n] # NoFile, journal'[n] = journal[n],
             NEW entry, entry = journal'[n]
      PROVE  EntrySound(n, entry)'
  <2>1. journal[n] \in JournalEntries /\ EntrySound(n, journal[n])
    BY <1>1, JournalTyped DEF JournalsSound
  <2> QED
    BY <1>1, <2>1, EntryStays
<1>2. ASSUME NEW n \in Name, journal'[n] # NoFile, journal'[n] # journal[n],
             NEW entry, entry = journal'[n]
      PROVE  EntrySound(n, entry)'
  <2>1. PICK c \in Compile : CompileStep(c) \/ CompileFails(c)
    BY <1>2, StepKinds, LinkFrame, RestFrame
  <2>2. WriteJournal(c) \/ Snapshot(c) \/ Finish(c)
    BY <1>2, <2>1 DEF CompileStep, CompileFails, Reserve, Preprocess, OpenObject, EmitObject
  <2>3. compiler[c].pc \in {"parsed", "journaled", "emitted"}
    BY <2>2 DEF WriteJournal, Snapshot, Finish
  <2>4. /\ compiler'[c].name = compiler[c].name
        /\ compiler'[c].consumed = compiler[c].consumed
        /\ compiler[c].name # NoFile /\ compiler[c].consumed # NoFile
    BY <2>3, CompilerProgress DEF NamesOwned, Journaled
  <2>5. compiler[c].name \in Name
    BY <2>4, GeneratedTyped
  <2>6. Bitcode(c)' = Bitcode(c) /\ Generated(c)' = Generated(c)
    BY <2>4 DEF Bitcode, Generated
  <2>7. journal \in [Name -> JournalEntries \cup {NoFile}]
    BY DEF TypeOK
  <2>8. compiler'[c].pc = CASE WriteJournal(c) -> "journaled" [] Snapshot(c) -> "captured"
                            [] Finish(c) -> "done"
    <3>1. compiler[c] = [pc |-> compiler[c].pc, name |-> compiler[c].name,
                         consumed |-> compiler[c].consumed]
      BY DEF TypeOK, CompilerStates
    <3> QED
      BY <2>2, <3>1 DEF WriteJournal, Snapshot, Finish, TypeOK
  <2>9. CASE WriteJournal(c)
    <3>1. journal' = [journal EXCEPT ![compiler[c].name] =
             [compile |-> c, dependency |-> Digest(compiler[c].consumed),
              captureSha |-> NoFile, nativeSha |-> NoFile]]
          /\ compiler[c].pc = "parsed"
      BY <2>9 DEF WriteJournal, DependencySha
    <3>2. n = compiler[c].name
      BY <1>2, <2>5, <2>7, <3>1
    <3>3. compiler'[c].pc = "journaled"
      BY <2>8, <2>9, <3>1 DEF Snapshot, Finish
    <3> QED
      BY <1>2, <2>4, <2>5, <2>7, <3>1, <3>2, <3>3 DEF EntrySound, Journaled
  <2>10. CASE Snapshot(c)
    <3>1. journal' = [journal EXCEPT ![compiler[c].name].captureSha = Digest(Bitcode(c))]
          /\ compiler[c].pc = "journaled"
      BY <2>10 DEF Snapshot
    <3>2. n = compiler[c].name
      BY <1>2, <2>5, <2>7, <3>1
    <3>3. compiler'[c].pc = "captured"
      BY <2>8, <2>10, <3>1 DEF WriteJournal, Finish
    <3>4. journal[n] \in JournalEntries /\ journal[n] # NoFile
      BY <2>5, <3>1, <3>2, JournalTyped DEF NamesOwned, Journaled
    <3>5. journal[n].compile \in Compile /\ compiler[journal[n].compile].name = n
      BY <3>4 DEF JournalsSound, EntrySound, JournalEntries
    <3>6. journal[n].compile = c
      BY <2>4, <3>2, <3>5 DEF NamesOwned
    <3>7. journal[n].nativeSha = NoFile
          /\ journal[n].dependency = Digest(compiler[c].consumed)
      BY <3>1, <3>4, <3>6 DEF JournalsSound, EntrySound
    <3>8. journal'[n] = [journal[n] EXCEPT !.captureSha = Digest(Bitcode(c))]
      BY <2>7, <3>1, <3>2
    <3>9. /\ journal'[n].compile = c
          /\ journal'[n].dependency = journal[n].dependency
          /\ journal'[n].captureSha = Digest(Bitcode(c))
          /\ journal'[n].nativeSha = NoFile
      BY <3>4, <3>6, <3>7, <3>8 DEF JournalEntries
    <3> QED
      BY <1>2, <2>4, <2>6, <3>2, <3>3, <3>7, <3>9 DEF EntrySound, Journaled
  <2>11. CASE Finish(c)
    <3>1. journal' = [journal EXCEPT ![compiler[c].name].nativeSha =
                                        Digest(object[ObjectOf[c]])]
          /\ compiler[c].pc = "emitted"
      BY <2>11 DEF Finish
    <3>2. n = compiler[c].name
      BY <1>2, <2>5, <2>7, <3>1
    <3>3. compiler'[c].pc = "done"
      BY <2>8, <2>11, <3>1 DEF WriteJournal, Snapshot
    <3>4. journal[n] \in JournalEntries /\ journal[n] # NoFile
      BY <2>5, <3>1, <3>2, JournalTyped DEF NamesOwned, Journaled
    <3>5. journal[n].compile \in Compile /\ compiler[journal[n].compile].name = n
      BY <3>4 DEF JournalsSound, EntrySound, JournalEntries
    <3>6. journal[n].compile = c
      BY <2>4, <3>2, <3>5 DEF NamesOwned
    <3>7. /\ journal[n].dependency = Digest(compiler[c].consumed)
          /\ journal[n].captureSha # NoFile => journal[n].captureSha = Digest(Bitcode(c))
      BY <3>4, <3>6 DEF JournalsSound, EntrySound
    <3>8. journal'[n] = [journal[n] EXCEPT !.nativeSha = Digest(object[ObjectOf[c]])]
      BY <2>7, <3>1, <3>2
    <3>9. /\ journal'[n].compile = c
          /\ journal'[n].dependency = journal[n].dependency
          /\ journal'[n].captureSha = journal[n].captureSha
          /\ journal'[n].nativeSha = Digest(object[ObjectOf[c]])
      BY <3>4, <3>6, <3>8 DEF JournalEntries
    <3>10. object[ObjectOf[c]] = Generated(c)
      BY <2>11, FinishedObject
    <3> QED
      BY <1>2, <2>4, <2>6, <3>2, <3>3, <3>7, <3>9, <3>10 DEF EntrySound, Journaled
  <2> QED
    BY <2>2, <2>9, <2>10, <2>11
<1> QED
  BY <1>1, <1>2 DEF JournalsSound

\* A finalized entry never changes: the runs that still write have other names.
LEMMA JournalImmutableStep ==
    ASSUME TypeOK, NamesOwned, JournalsSound, [Next]_vars, NEW n \in Name,
           journal[n] # NoFile, journal[n].nativeSha # NoFile
    PROVE  journal'[n] = journal[n]
<1>1. SUFFICES ASSUME NEW c \in Compile, WriteJournal(c) \/ Snapshot(c) \/ Finish(c)
               PROVE  compiler[c].name # n
  <2>1. journal \in [Name -> JournalEntries \cup {NoFile}]
    BY DEF TypeOK
  <2>2. ASSUME NEW c \in Compile, CompileStep(c) \/ CompileFails(c)
        PROVE  journal'[n] = journal[n]
    BY <1>1, <2>1, <2>2 DEF CompileStep, CompileFails, Reserve, Preprocess, WriteJournal,
       Snapshot, OpenObject, EmitObject, Finish
  <2> QED
    BY <2>2, StepKinds, LinkFrame, RestFrame
<1>2. SUFFICES ASSUME compiler[c].name = n
               PROVE  FALSE
  OBVIOUS
<1>3. LET d == journal[n].compile IN
      d \in Compile /\ compiler[d].name = n /\ compiler[d].pc = "done"
  BY JournalTyped DEF JournalsSound, EntrySound, JournalEntries
<1>4. compiler[c].pc \in {"parsed", "journaled", "emitted"}
  BY <1>1 DEF WriteJournal, Snapshot, Finish
<1>5. compiler[c].name # NoFile
  BY <1>4 DEF NamesOwned
<1> QED
  BY <1>2, <1>3, <1>4, <1>5 DEF NamesOwned

\* What it means that consumedObject accepts some bytes.  Nothing is asked of the
\* inputs or of the capture files, which others may rewrite.
LEMMA ConsumedTells ==
    ASSUME journal \in [Name -> JournalEntries \cup {NoFile}], JournalsSound,
           NEW bytes \in ObjectBytes, ConsumedObject(bytes)
    PROVE  LET unit == UnitOf(bytes) IN
           /\ unit.compile \in Compile
           /\ unit.marker = bytes.marker
           /\ UnitSound(unit, bytes)
           /\ Faithful(unit, bytes)
           /\ input[InputOf[unit.compile]] = compiler[unit.compile].consumed
<1> DEFINE n == bytes.marker
           c == journal[n].compile
<1>1. n \in Name
  BY DEF ObjectBytes
<1>2. journal[n] # NoFile /\ journal[n].captureSha # NoFile
      /\ journal[n].nativeSha = Digest(bytes)
      /\ journal[n].captureSha = Digest(capture[n])
      /\ Digest(input[InputOf[c]]) = journal[n].dependency
  BY DEF ConsumedObject
<1>3. journal[n] \in JournalEntries /\ c \in Compile
  BY <1>1, <1>2 DEF JournalEntries
<1>4. Digest(bytes) \in DigestOf(ObjectBytes)
  BY DEF Digest, DigestOf
<1>5. journal[n].nativeSha # NoFile
  BY <1>2, <1>4, NoFileAssumption
<1>6. /\ compiler[c].name = n /\ compiler[c].pc = "done"
      /\ Digest(bytes) = Digest(Generated(c))
      /\ journal[n].captureSha = Digest(Bitcode(c))
      /\ journal[n].dependency = Digest(compiler[c].consumed)
  BY <1>1, <1>2, <1>5 DEF JournalsSound, EntrySound
<1>7. bytes = Generated(c) /\ capture[n] = Bitcode(c)
      /\ input[InputOf[c]] = compiler[c].consumed
  BY <1>2, <1>6 DEF Digest
<1>8. UnitOf(bytes).compile = c /\ UnitOf(bytes).marker = n
      /\ UnitOf(bytes).captureSha = journal[n].captureSha
      /\ UnitOf(bytes).nativeSha = Digest(bytes)
  BY DEF UnitOf
<1> QED
  BY <1>3, <1>6, <1>7, <1>8 DEF UnitSound, Faithful

\* The same in a lane whose files have their types.
LEMMA ConsumedMeans ==
    ASSUME TypeOK, JournalsSound, NEW bytes \in ObjectBytes, ConsumedObject(bytes)
    PROVE  LET unit == UnitOf(bytes) IN
           /\ unit.compile \in Compile
           /\ unit.marker = bytes.marker
           /\ UnitSound(unit, bytes)
           /\ Faithful(unit, bytes)
           /\ input[InputOf[unit.compile]] = compiler[unit.compile].consumed
BY ConsumedTells DEF TypeOK

-----------------------------------------------------------------------------
(* Links. *)

\* What a unit says stays true: it speaks of a run that has ended.
LEMMA UnitStays ==
    ASSUME TypeOK, [Next]_vars
    PROVE  \A unit \in Units : \A bytes : UnitSound(unit, bytes) => UnitSound(unit, bytes)'
<1>1. SUFFICES ASSUME NEW unit \in Units, NEW bytes, UnitSound(unit, bytes)
               PROVE  UnitSound(unit, bytes)'
  OBVIOUS
<1> DEFINE c == unit.compile
<1>2. c \in Compile /\ compiler[c].pc = "done"
  BY <1>1 DEF Units, UnitSound
<1>3. /\ compiler'[c].pc = "done"
      /\ compiler'[c].name = compiler[c].name
      /\ compiler'[c].consumed = compiler[c].consumed
  BY <1>2, CompilerProgress
<1> QED
  BY <1>1, <1>3 DEF UnitSound, Bitcode, Generated

\* The fields of a running link have the types of LinkerRunning.
LEMMA LinkerRecord ==
    ASSUME TypeOK, NEW l \in Link
    PROVE  /\ linker \in [Link -> LinkerStates]
           /\ linker[l] = [pc |-> linker[l].pc, read |-> linker[l].read,
                           elf |-> linker[l].elf, next |-> linker[l].next,
                           matched |-> linker[l].matched, units |-> linker[l].units,
                           unsupported |-> linker[l].unsupported]
           /\ LinkerRunning(l) => linker[l].pc \in {"lld", "linked", "recording", "saving"}
BY DEF TypeOK, LinkerStates, LinkerRunning

\* A link records nothing before it has observed its output.
LEMMA FreshStep ==
    ASSUME TypeOK, [Next]_vars, NEW l \in Link, LinkFresh(l)
    PROVE  LinkFresh(l)'
<1>a. linker[l] \in LinkerStates /\ linker \in [Link -> LinkerStates]
  BY DEF TypeOK
<1>b. linker[l].read \in Seq(ObjectBytes) /\ Len(linker[l].read) \in Nat
      /\ Len(ObjectsOf[l]) \in Nat
  BY <1>a, ConstantsAssumption DEF LinkerStates
<1>d. /\ linker \in [Link -> LinkerStates]
      /\ linker[l] = [pc |-> linker[l].pc, read |-> linker[l].read,
                      elf |-> linker[l].elf, next |-> linker[l].next,
                      matched |-> linker[l].matched, units |-> linker[l].units,
                      unsupported |-> linker[l].unsupported]
  BY LinkerRecord
<1>1. CASE linker'[l] = linker[l]
  BY <1>1 DEF LinkFresh
<1>2. CASE StartLink(l) \/ LinkStep(l) \/ LinkFails(l)
  <2>1. CASE LldRead(l)
    <3>1. /\ linker[l].pc = "lld" /\ linker'[l].pc = "lld"
          /\ linker'[l].next = linker[l].next
          /\ linker'[l].matched = linker[l].matched
          /\ linker'[l].units = linker[l].units
      BY <2>1, <1>d DEF LldRead
    <3>2. Len(linker[l].read) < Len(ObjectsOf[l])
      BY <2>1 DEF LldRead
    <3>3. linker'[l].read = Append(linker[l].read, object[ObjectsOf[l][Len(linker[l].read) + 1]])
      BY <2>1, <1>a DEF LldRead, LinkerStates
    <3>4. Len(linker'[l].read) = Len(linker[l].read) + 1
      BY <1>b, <3>3
    <3> QED
      BY <1>b, <3>1, <3>2, <3>4 DEF LinkFresh
  <2>2. CASE LldWrite(l)
    <3>1. /\ linker[l].pc = "lld" /\ linker'[l].pc = "linked"
          /\ linker'[l].read = linker[l].read
          /\ linker'[l].next = linker[l].next
          /\ linker'[l].matched = linker[l].matched
          /\ linker'[l].units = linker[l].units
          /\ Len(linker[l].read) = Len(ObjectsOf[l])
      BY <2>2, <1>d DEF LldWrite
    <3> QED
      BY <3>1 DEF LinkFresh
  <2>3. CASE StartLink(l)
    <3>1. /\ linker[l].pc = "idle" /\ linker'[l].pc = "lld"
          /\ linker'[l].read = linker[l].read
          /\ linker'[l].next = linker[l].next
          /\ linker'[l].matched = linker[l].matched
          /\ linker'[l].units = linker[l].units
      BY <2>3, <1>d DEF StartLink
    <3>2. Len(linker'[l].read) = 0
      BY <3>1 DEF LinkFresh
    <3> QED
      BY <1>b, <3>1, <3>2 DEF LinkFresh
  <2>4. CASE ~LldRead(l) /\ ~LldWrite(l) /\ ~StartLink(l)
    <3>1. /\ linker'[l].read = linker[l].read
          /\ linker[l].pc \in {"linked", "recording", "saving"} \/ linker'[l].pc = "failed"
          /\ linker'[l].pc \in {"recording", "saving", "done", "failed"}
      BY <1>2, <2>4, LinkerFields
    <3> QED
      BY <3>1 DEF LinkFresh
  <2> QED
    BY <2>1, <2>2, <2>3, <2>4
<1> QED
  BY <1>1, <1>2, StepKinds, CompileFrame, RestFrame, LinkerFields

\* No two running links ever write the same output.
LEMMA AloneStep ==
    ASSUME TypeOK, LinkersSound, [Next]_vars, NEW l \in Link
    PROVE  LinkAlone(l)'
<1>1. ASSUME NEW k \in Link, StartLink(k) \/ LinkStep(k) \/ LinkFails(k)
      PROVE  LinkAlone(l)'
  <2>1. \A m \in Link \ {k} : LinkerRunning(m)' <=> LinkerRunning(m)
    BY <1>1, LinkerFields DEF LinkerRunning
  <2>2. LinkerRunning(k)' => LinkerRunning(k) \/ StartLink(k)
    BY <1>1, LinkerFields DEF LinkerRunning
  <2>3. StartLink(k) => \A m \in Link : OutputOf[m] = OutputOf[k] => ~LinkerRunning(m)
    BY DEF StartLink
  <2> QED
    BY <2>1, <2>2, <2>3 DEF LinkersSound, LinkAlone
<1>2. CASE linker' = linker
  BY <1>2 DEF LinkersSound, LinkAlone, LinkerRunning
<1> QED
  BY <1>1, <1>2, StepKinds, CompileFrame, RestFrame

\* The bytes LLD read at an input are at most edited further or replaced.
LEMMA MonotoneStep ==
    ASSUME TypeOK, TypeOK', NamesOwned, ObjectsProduced, LinkersSound, [Next]_vars, NEW l \in Link
    PROVE  LinkMonotone(l)'
<1>a. linker[l] \in LinkerStates /\ linker \in [Link -> LinkerStates]
  BY DEF TypeOK
<1>b. linker[l].read \in Seq(ObjectBytes) /\ ObjectsOf[l] \in Seq(Object)
  BY <1>a, ConstantsAssumption DEF LinkerStates
<1>c. Len(linker[l].read) \in Nat /\ Len(ObjectsOf[l]) \in Nat
  BY <1>b
<1>1. SUFFICES ASSUME LinkerRunning(l)', NEW i \in 1..Len(linker'[l].read),
                      linker'[l].read[i].edited, IsObject(object'[ObjectsOf[l][i]]),
                      object'[ObjectsOf[l][i]].marker = linker'[l].read[i].marker
               PROVE  object'[ObjectsOf[l][i]].edited
  BY DEF LinkMonotone
<1>2. CASE LldRead(l)
  <2> DEFINE new == object[ObjectsOf[l][Len(linker[l].read) + 1]]
  <2>1. linker'[l].read = Append(linker[l].read, new) /\ object' = object
        /\ LinkerRunning(l)
    BY <1>2, <1>a DEF LldRead, LinkerStates, LinkerRunning
  <2>2. \/ i \in 1..Len(linker[l].read) /\ linker'[l].read[i] = linker[l].read[i]
        \/ i = Len(linker[l].read) + 1 /\ linker'[l].read[i] = new
    BY <1>1, <1>b, <2>1
  <2> QED
    BY <1>1, <2>1, <2>2 DEF LinkersSound, LinkMonotone
<1>3. CASE StartLink(l)
  <2>1. linker'[l].read = linker[l].read
    BY <1>3, LinkerFields DEF StartLink, LldRead
  <2>2. linker[l].read = <<>>
    BY <1>3 DEF StartLink, LinkersSound, LinkFresh
  <2> QED
    BY <1>1, <2>1, <2>2
<1>4. CASE linker'[l].read = linker[l].read /\ LinkerRunning(l)
  <2> DEFINE o == ObjectsOf[l][i]
             old == linker[l].read[i]
  <2>1. i \in 1..Len(linker[l].read) /\ i \in 1..Len(ObjectsOf[l])
    <3>1. i \in 1..Len(linker[l].read)
      BY <1>1, <1>4
    <3>2. Len(linker[l].read) <= Len(ObjectsOf[l])
      <4>1. linker[l].pc \in {"lld", "linked", "recording", "saving"}
        BY <1>4, LinkerRecord
      <4>2. LinkFresh(l)
        BY DEF LinkersSound
      <4> QED
        BY <1>c, <4>1, <4>2 DEF LinkFresh
    <3> QED
      BY <1>c, <3>1, <3>2
  <2>2. o \in Object /\ old \in ObjectBytes /\ Produced(old)
    BY <2>1, <1>b DEF ObjectsProduced
  <2>3. CASE object'[o] = object[o]
    BY <1>1, <1>4, <2>1, <2>3 DEF LinkersSound, LinkMonotone
  <2>4. ASSUME NEW p \in Object, CopyObject(p, o)
        PROVE  FALSE
    BY <1>4, <2>1, <2>4 DEF CopyObject
  <2>5. ASSUME NEW c \in Compile, EmitObject(c), object'[o] = Generated(c)
        PROVE  FALSE
    <3> DEFINE d == old.code.compile
    <3>1. d \in Compile /\ compiler[d].name = old.marker /\ compiler[d].pc # "emitting"
      BY <2>2 DEF ObjectBytes, Bitcodes, Produced
    <3>2. old.marker = compiler[c].name
      BY <1>1, <1>4, <2>5 DEF Generated
    <3>3. compiler[c].pc = "emitting" /\ compiler[c].name # NoFile
      BY <2>5 DEF EmitObject, NamesOwned
    <3> QED
      BY <3>1, <3>2, <3>3 DEF NamesOwned
  <2>6. CASE object'[o] = [object[o] EXCEPT !.edited = TRUE] /\ EditObject(o)
    <3>1. object[o] \in ObjectBytes
      BY <2>2, <2>6 DEF EditObject, IsObject, TypeOK
    <3> QED
      BY <2>6, <3>1 DEF ObjectBytes
  <2> QED
    BY <1>1, <2>2, <2>3, <2>4, <2>5, <2>6, ObjectOrigin
<1>5. ASSUME NEW k \in Link, StartLink(k) \/ LinkStep(k) \/ LinkFails(k)
      PROVE  \/ linker'[l].read = linker[l].read /\ LinkerRunning(l)
             \/ LldRead(l) \/ StartLink(l)
  BY <1>1, <1>5, LinkerFields DEF LinkerRunning
<1>6. CASE linker' = linker
  BY <1>1, <1>4, <1>6 DEF LinkerRunning
<1> QED
  BY <1>2, <1>3, <1>4, <1>5, <1>6, StepKinds, CompileFrame, RestFrame

\* Until it is observed, the output is what LLD wrote.
LEMMA WroteStep ==
    ASSUME TypeOK, TypeOK', LinkersSound, [Next]_vars, NEW l \in Link
    PROVE  LinkWrote(l)'
<1>a. linker[l] \in LinkerStates /\ OutputOf[l] \in Output
  BY ConstantsAssumption DEF TypeOK
<1>b. output \in [Output -> OutputBytes \cup {NoFile}]
  BY DEF TypeOK
<1>1. SUFFICES ASSUME linker'[l].pc = "linked"
               PROVE  /\ output'[OutputOf[l]] # NoFile
                      /\ output'[OutputOf[l]].parts = linker'[l].read
  BY DEF LinkWrote
<1>2. CASE LldWrite(l)
  <2>1. [parts |-> linker[l].read, needed |-> DsosOf[l]] \in OutputBytes
    BY <1>a, ConstantsAssumption DEF LinkerStates, OutputBytes
  <2>2. linker'[l].read = linker[l].read
    BY <1>2, LinkerRecord DEF LldWrite
  <2>3. output'[OutputOf[l]] = [parts |-> linker[l].read, needed |-> DsosOf[l]]
    BY <1>2, <1>a, <1>b DEF LldWrite
  <2> QED
    BY <2>1, <2>2, <2>3, NoFileAssumption
<1>3. CASE linker'[l] = linker[l] /\ output'[OutputOf[l]] = output[OutputOf[l]]
  BY <1>1, <1>3 DEF LinkersSound, LinkWrote
<1>4. ASSUME NEW k \in Link, StartLink(k) \/ LinkStep(k) \/ LinkFails(k), k # l
      PROVE  linker'[l] = linker[l] /\ output'[OutputOf[l]] = output[OutputOf[l]]
  <2>1. linker'[l] = linker[l]
    BY <1>4, LinkerFields
  <2>2. LldWrite(k) => OutputOf[k] # OutputOf[l]
    BY <1>1, <1>4, <2>1 DEF LldWrite, LinkersSound, LinkAlone, LinkerRunning
  <2>3. CASE LldWrite(k)
    BY <1>a, <1>b, <2>1, <2>2, <2>3 DEF LldWrite
  <2>4. CASE ~LldWrite(k)
    BY <1>4, <2>1, <2>4 DEF StartLink, LinkStep, LinkFails, LldRead, Observe, RecordUnit,
       SaveObject, RecordLink
  <2> QED
    BY <2>3, <2>4
<1>5. CASE StartLink(l) \/ LinkStep(l) \/ LinkFails(l)
  BY <1>1, <1>2, <1>5, LinkerFields
<1>6. CASE linker' = linker /\ output' = output
  BY <1>3, <1>6
<1> QED
  BY <1>3, <1>4, <1>5, <1>6, StepKinds, CompileFrame, RestFrame

\* The heart of the argument.  If the bytes read again after LLD match the next
\* witness entry and are consumed, they are the very bytes LLD read.
LEMMA SameBytes ==
    ASSUME TypeOK, NamesOwned, ObjectsProduced, JournalsSound, LinkersSound,
           NEW l \in Link, RecordUnit(l), ~linker[l].unsupported,
           NEW bytes \in ObjectBytes, bytes = object[ObjectsOf[l][linker[l].next]],
           MatchesWitness(l, bytes), ConsumedObject(bytes)
    PROVE  /\ linker[l].next \in 1..Len(linker[l].read)
           /\ linker[l].read[linker[l].next] = bytes
<1> DEFINE i == linker[l].next
           old == linker[l].read[i]
           c == UnitOf(bytes).compile
<1>1. /\ linker[l].pc = "recording" /\ i \in Nat \ {0} /\ i <= Len(ObjectsOf[l])
      /\ linker[l].matched \in Nat /\ linker[l].read \in Seq(ObjectBytes)
      /\ Len(ObjectsOf[l]) \in Nat
  BY ConstantsAssumption DEF RecordUnit, TypeOK, LinkerStates
<1>2. LinkFresh(l) /\ LinkMonotone(l) /\ LinkRecorded(l) /\ LinkerRunning(l)
  BY <1>1 DEF LinkersSound, LinkerRunning
<1>3. i \in 1..Len(linker[l].read)
  BY <1>1, <1>2 DEF LinkFresh
<1>4. linker[l].matched + 1 = i /\ linker[l].elf.parts = linker[l].read
  BY <1>1, <1>2 DEF LinkRecorded
<1>5. old \in ObjectBytes /\ Produced(old)
  BY <1>1, <1>3 DEF ObjectsProduced
<1>6. bytes.marker = old.marker /\ IsObject(bytes)
  <2>1. Witness(linker[l].elf)[i] = old.marker
    BY <1>1, <1>3, <1>4 DEF Witness
  <2> QED
    BY <1>4, <2>1 DEF MatchesWitness
<1>7. /\ c \in Compile /\ bytes = Generated(c) /\ compiler[c].pc = "done"
      /\ compiler[c].name = bytes.marker
  BY ConsumedMeans DEF UnitSound
<1>8. old.code.compile \in Compile /\ compiler[old.code.compile].name = old.marker
      /\ old.code.source = compiler[old.code.compile].consumed
  BY <1>5 DEF ObjectBytes, Bitcodes, Produced
<1>9. compiler[c].name # NoFile
  BY <1>7 DEF NamesOwned
<1>10. old.code.compile = c
  BY <1>6, <1>7, <1>8, <1>9 DEF NamesOwned
<1>11. ~bytes.edited
  <2>1. \A d : Generated(d).edited = FALSE
    BY DEF Generated
  <2> QED
    BY <1>7, <2>1
<1>12. ~old.edited
  <2>1. (old.edited /\ IsObject(object[ObjectsOf[l][i]])
           /\ object[ObjectsOf[l][i]].marker = old.marker) => object[ObjectsOf[l][i]].edited
    BY <1>2, <1>3 DEF LinkMonotone
  <2> QED
    BY <1>6, <1>11, <2>1
<1>13. old.code = Bitcode(c)
  BY <1>5, <1>8, <1>10 DEF ObjectBytes, Bitcodes, Bitcode
<1>14. old = Generated(c)
  BY <1>5, <1>6, <1>7, <1>12, <1>13 DEF ObjectBytes, Generated
<1> QED
  BY <1>3, <1>7, <1>14

\* The units a running link has recorded stay those of the bytes LLD read.
LEMMA RecordedStep ==
    ASSUME TypeOK, TypeOK', NamesOwned, ObjectsProduced, JournalsSound, LinkersSound,
           [Next]_vars, NEW l \in Link
    PROVE  LinkRecorded(l)'
<1>a. linker[l] \in LinkerStates /\ linker \in [Link -> LinkerStates]
  BY DEF TypeOK
<1>b. /\ linker[l].read \in Seq(ObjectBytes) /\ Len(ObjectsOf[l]) \in Nat
      /\ linker[l].units \in Seq(Units) /\ linker[l].next \in Nat \ {0}
      /\ linker[l].matched \in Nat
  BY <1>a, ConstantsAssumption DEF LinkerStates
<1>c. LinkFresh(l) /\ LinkWrote(l) /\ LinkRecorded(l)
  BY DEF LinkersSound
<1>d. /\ linker \in [Link -> LinkerStates]
      /\ linker[l] = [pc |-> linker[l].pc, read |-> linker[l].read,
                      elf |-> linker[l].elf, next |-> linker[l].next,
                      matched |-> linker[l].matched, units |-> linker[l].units,
                      unsupported |-> linker[l].unsupported]
  BY LinkerRecord
<1>1. SUFFICES ASSUME linker'[l].pc \in {"recording", "saving"}
               PROVE  /\ linker'[l].elf # NoFile
                      /\ linker'[l].elf.parts = linker'[l].read
                      /\ linker'[l].next <= Len(ObjectsOf[l]) + 1
                      /\ ~linker'[l].unsupported =>
                            /\ linker'[l].matched = linker'[l].next - 1
                            /\ Len(linker'[l].units) = linker'[l].matched
                            /\ \A i \in 1..Len(linker'[l].units) :
                                  \A unit, bytes : (/\ unit = linker'[l].units[i]
                                                    /\ bytes = linker'[l].read[i]) =>
                                      UnitSound(unit, bytes)'
  BY DEF LinkRecorded, UnitSound, Bitcode, Generated
<1>2. ASSUME NEW i \in 1..Len(linker[l].units), NEW unit, NEW bytes,
             unit = linker[l].units[i], bytes = linker[l].read[i], UnitSound(unit, bytes)
      PROVE  UnitSound(unit, bytes)'
  <2>1. unit \in Units
    BY <1>2, <1>b
  <2> QED
    BY <1>2, <2>1, UnitStays
<1>3. CASE /\ linker[l].pc \in {"recording", "saving"}
           /\ linker'[l].elf = linker[l].elf
           /\ linker'[l].read = linker[l].read
           /\ linker'[l].next = linker[l].next
           /\ linker'[l].matched = linker[l].matched
           /\ linker'[l].units = linker[l].units
           /\ linker'[l].unsupported = linker[l].unsupported
  BY <1>c, <1>2, <1>3 DEF LinkRecorded
<1>4. CASE Observe(l)
  <2>1. /\ linker[l].pc = "linked"
        /\ linker'[l].elf = output[OutputOf[l]]
        /\ linker'[l].read = linker[l].read
        /\ linker'[l].next = linker[l].next
        /\ linker'[l].matched = linker[l].matched
        /\ linker'[l].units = linker[l].units
    BY <1>4, <1>d DEF Observe
  <2>2. linker[l].next = 1 /\ linker[l].matched = 0 /\ linker[l].units = <<>>
        /\ output[OutputOf[l]] # NoFile
        /\ output[OutputOf[l]].parts = linker[l].read
    BY <1>c, <2>1 DEF LinkFresh, LinkWrote
  <2>3. Len(linker[l].units) = 0
    BY <2>2
  <2> QED
    BY <1>b, <2>1, <2>2, <2>3
<1>5. CASE RecordUnit(l)
  <2> DEFINE bytes == object[ObjectsOf[l][linker[l].next]]
             matches == MatchesWitness(l, bytes)
             consumed == matches /\ ConsumedObject(bytes)
  <2>1. /\ linker[l].pc = "recording" /\ linker[l].next <= Len(ObjectsOf[l])
        /\ linker'[l].elf = linker[l].elf
        /\ linker'[l].read = linker[l].read
        /\ linker'[l].next = linker[l].next + 1
        /\ matches => linker'[l].matched = linker[l].matched + 1
        /\ consumed => linker'[l].units = Append(linker[l].units, UnitOf(bytes))
        /\ ~consumed => linker'[l].unsupported
        /\ linker[l].unsupported => linker'[l].unsupported
    BY <1>5, <1>d DEF RecordUnit
  <2>2. LinkRecorded(l) /\ linker[l].elf # NoFile /\ linker[l].elf.parts = linker[l].read
    BY <1>c, <2>1 DEF LinkRecorded
  <2>3. ASSUME ~linker'[l].unsupported
        PROVE  /\ linker'[l].matched = linker'[l].next - 1
               /\ Len(linker'[l].units) = linker'[l].matched
               /\ \A i \in 1..Len(linker'[l].units) :
                     \A unit, b : (/\ unit = linker'[l].units[i]
                                   /\ b = linker'[l].read[i]) => UnitSound(unit, b)'
    <3>1. consumed /\ ~linker[l].unsupported
      BY <2>1, <2>3
    <3>2. bytes \in ObjectBytes
      <4>1. ObjectsOf[l][linker[l].next] \in Object
        BY <1>b, <2>1, ConstantsAssumption
      <4> QED
        BY <3>1, <4>1 DEF MatchesWitness, IsObject, TypeOK
    <3>3. /\ linker[l].next \in 1..Len(linker[l].read)
          /\ linker[l].read[linker[l].next] = bytes
      BY <1>5, <3>1, <3>2, SameBytes
    <3>4. /\ linker[l].matched = linker[l].next - 1
          /\ Len(linker[l].units) = linker[l].matched
          /\ \A i \in 1..Len(linker[l].units) :
                UnitSound(linker[l].units[i], linker[l].read[i])
      BY <2>1, <2>2, <3>1 DEF LinkRecorded
    <3>5. UnitOf(bytes) \in Units /\ UnitSound(UnitOf(bytes), bytes)
      BY <3>1, <3>2, UnitTyped, ConsumedMeans
    <3>6. \A unit, b : (unit = UnitOf(bytes) /\ b = bytes) => UnitSound(unit, b)'
      BY <3>5, UnitStays
    <3>7. linker'[l].units = Append(linker[l].units, UnitOf(bytes))
      BY <2>1, <3>1
    <3>8. /\ Len(linker'[l].units) = Len(linker[l].units) + 1
          /\ \A i \in 1..Len(linker[l].units) : linker'[l].units[i] = linker[l].units[i]
          /\ linker'[l].units[Len(linker[l].units) + 1] = UnitOf(bytes)
      BY <1>b, <3>5, <3>7
    <3>9. ASSUME NEW i \in 1..Len(linker'[l].units), NEW unit, NEW b,
                 unit = linker'[l].units[i], b = linker'[l].read[i]
          PROVE  UnitSound(unit, b)'
      <4>1. CASE i \in 1..Len(linker[l].units)
        BY <1>2, <2>1, <3>4, <3>8, <3>9, <4>1
      <4>2. CASE i = Len(linker[l].units) + 1
        <5>1. unit = UnitOf(bytes)
          BY <3>8, <3>9, <4>2
        <5>2. i = linker[l].next
          BY <1>b, <3>4, <4>2
        <5>3. b = bytes
          BY <2>1, <3>3, <3>9, <5>2
        <5> QED
          BY <3>6, <5>1, <5>3
      <4> QED
        BY <1>b, <3>8, <3>9, <4>1, <4>2
    <3>10. linker'[l].matched = linker'[l].next - 1
           /\ Len(linker'[l].units) = linker'[l].matched
      BY <1>b, <2>1, <3>1, <3>4, <3>8
    <3> QED
      BY <3>9, <3>10
  <2> QED
    BY <1>b, <2>1, <2>2, <2>3
<1>6. ASSUME NEW k \in Link, StartLink(k) \/ LinkStep(k) \/ LinkFails(k), k # l
      PROVE  linker'[l] = linker[l]
  BY <1>6, LinkerFields
<1>7. CASE SaveObject(l)
  <2>1. linker[l].pc = "saving" /\ linker' = [linker EXCEPT ![l].pc = "recording"]
    BY <1>7 DEF SaveObject
  <2>2. /\ linker'[l].elf = linker[l].elf
        /\ linker'[l].read = linker[l].read
        /\ linker'[l].next = linker[l].next
        /\ linker'[l].matched = linker[l].matched
        /\ linker'[l].units = linker[l].units
        /\ linker'[l].unsupported = linker[l].unsupported
    BY <1>d, <2>1
  <2> QED
    BY <1>3, <2>1, <2>2
<1>8. CASE StartLink(l) \/ LinkStep(l) \/ LinkFails(l)
  BY <1>1, <1>4, <1>5, <1>7, <1>8, LinkerFields
<1>9. CASE linker'[l] = linker[l]
  BY <1>1, <1>3, <1>9
<1> QED
  BY <1>6, <1>8, <1>9, StepKinds, CompileFrame, RestFrame

\* A running link keeps knowing what it wrote and recorded.
LEMMA LinkersStep ==
    ASSUME TypeOK, TypeOK', NamesOwned, ObjectsProduced, JournalsSound, LinkersSound,
           [Next]_vars
    PROVE  LinkersSound'
<1>1. SUFFICES ASSUME NEW l \in Link
               PROVE  /\ LinkFresh(l)' /\ LinkAlone(l)' /\ LinkMonotone(l)'
                      /\ LinkWrote(l)' /\ LinkRecorded(l)'
  BY DEF LinkersSound
<1>2. LinkFresh(l)'
  BY FreshStep DEF LinkersSound
<1> QED
  BY <1>2, AloneStep, MonotoneStep, WroteStep, RecordedStep

\* A link journal that is written stays true of the output it describes.
LEMMA LinkJournalsStep ==
    ASSUME TypeOK, TypeOK', LinkersSound, LinkJournalsSound, [Next]_vars
    PROVE  LinkJournalsSound'
<1>a. linkJournal \in [Output -> LinkRecords \cup {NoFile}]
  BY DEF TypeOK
<1>1. ASSUME NEW record \in LinkRecords, RecordSound(record)
      PROVE  RecordSound(record)'
  <2>1. record.units \in Seq(Units) /\ record.nativeSha.sha256 \in OutputBytes
    BY DEF LinkRecords, DigestOf
  <2>2. Len(record.units) = Len(record.nativeSha.sha256.parts)
    BY <1>1 DEF RecordSound
  <2>3. \A i \in 1..Len(record.units) : record.units[i] \in Units
    BY <2>1
  <2>4. \A i \in 1..Len(record.nativeSha.sha256.parts) :
           UnitSound(record.units[i], record.nativeSha.sha256.parts[i])'
    BY <1>1, <2>2, <2>3, UnitStays DEF RecordSound
  <2> QED
    BY <2>2, <2>4 DEF RecordSound
<1>2. SUFFICES ASSUME NEW o \in Output, linkJournal'[o] # NoFile,
                      ~linkJournal'[o].unsupported,
                      NEW record, record = linkJournal'[o]
               PROVE  RecordSound(record)'
  BY DEF LinkJournalsSound
<1>3. CASE linkJournal'[o] = linkJournal[o]
  <2>1. record \in LinkRecords /\ RecordSound(record)
    BY <1>2, <1>3, <1>a DEF LinkJournalsSound
  <2> QED
    BY <1>1, <2>1
<1>4. ASSUME NEW l \in Link, RecordLink(l), OutputOf[l] = o
      PROVE  RecordSound(record)'
  <2>1. linker[l] \in LinkerStates /\ linker[l].pc = "recording" /\ LinkRecorded(l)
    BY <1>4 DEF TypeOK, RecordLink, LinkersSound
  <2>2. linker[l].elf \in OutputBytes /\ linker[l].units \in Seq(Units)
        /\ linker[l].elf.parts = linker[l].read
    BY <2>1 DEF LinkerStates, LinkRecorded
  <2>3. /\ record.nativeSha = Digest(linker[l].elf) /\ record.units = linker[l].units
        /\ ~record.unsupported =>
              ~linker[l].unsupported /\ linker[l].matched = Len(linker[l].elf.parts)
    <3> DEFINE flag == linker[l].unsupported \/ ~(
                         /\ linker[l].matched = Len(linker[l].elf.parts)
                         /\ \A d \in DsosOf[l] \cup linker[l].elf.needed : PrivateDso(d))
    <3>1. linkJournal'[o] =
             [nativeSha |-> Digest(linker[l].elf), units |-> linker[l].units,
              libraries |-> linker[l].elf.needed, unsupported |-> flag]
      BY <1>4, <1>a DEF RecordLink
    <3>2. ~flag => ~linker[l].unsupported /\ linker[l].matched = Len(linker[l].elf.parts)
      OBVIOUS
    <3> HIDE DEF flag
    <3>3. /\ record.nativeSha = Digest(linker[l].elf) /\ record.units = linker[l].units
          /\ record.unsupported = flag
      BY <1>2, <3>1
    <3>4. ~record.unsupported => ~flag
      BY <3>3
    <3> QED
      BY <3>2, <3>3, <3>4
  <2>4. record.nativeSha.sha256 = linker[l].elf /\ record.units = linker[l].units
    BY <2>3 DEF Digest
  <2>5. ~linker[l].unsupported /\ linker[l].matched = Len(linker[l].elf.parts)
    BY <1>2, <2>3
  <2>6. /\ Len(linker[l].units) = Len(linker[l].elf.parts)
        /\ \A i \in 1..Len(linker[l].units) :
              UnitSound(linker[l].units[i], linker[l].elf.parts[i])
    BY <2>1, <2>2, <2>5 DEF LinkRecorded
  <2>7. RecordSound(record)
    BY <2>4, <2>6 DEF RecordSound
  <2>8. record \in LinkRecords
    BY <1>2 DEF TypeOK
  <2> QED
    BY <1>1, <2>7, <2>8
<1>5. ASSUME NEW l \in Link, StartLink(l) \/ LinkStep(l) \/ LinkFails(l)
      PROVE  \/ linkJournal'[o] = linkJournal[o]
             \/ RecordLink(l) /\ OutputOf[l] = o
  <2>1. CASE RecordLink(l)
    BY <2>1, <1>a DEF RecordLink
  <2>2. CASE ~RecordLink(l)
    BY <1>5, <2>2 DEF StartLink, LinkStep, LinkFails, LldRead, LldWrite, Observe, RecordUnit,
       SaveObject
  <2> QED
    BY <2>1, <2>2
<1> QED
  BY <1>3, <1>4, <1>5, StepKinds, CompileFrame, RestFrame

-----------------------------------------------------------------------------
(* Selection. *)

\* Once something is selected the lane does not move any more.
LEMMA StoppedStays ==
    ASSUME SelectionLast, ~Building, [Next]_vars
    PROVE  UNCHANGED vars
<1>1. Returned
  BY DEF SelectionLast
<1>2. ASSUME NEW c \in Compile, CompileStep(c) \/ CompileFails(c)
      PROVE  FALSE
  <2>1. compiler[c].pc \in {"idle", "done", "failed"}
    BY <1>1 DEF Returned, CompilerRunning
  <2> QED
    BY <1>2, <2>1 DEF CompileStep, CompileFails, CompilerRunning, Reserve, Preprocess,
       WriteJournal, Snapshot, OpenObject, EmitObject, Finish
<1>3. ASSUME NEW l \in Link, StartLink(l) \/ LinkStep(l) \/ LinkFails(l)
      PROVE  FALSE
  <2>1. linker[l].pc \in {"idle", "done", "failed"}
    BY <1>1 DEF Returned, LinkerRunning
  <2> QED
    BY <1>3, <2>1 DEF StartLink, LinkStep, LinkFails, LinkerRunning, LldRead, LldWrite,
       Observe, RecordUnit, SaveObject, RecordLink
<1>4. ~Project /\ ~SelectOutput /\ ~SelectArchive
  BY DEF Project, SelectOutput, SelectArchive, Regenerate, EditObject, CopyObject,
     ArchiveObject, DisturbCapture
<1> QED
  BY <1>2, <1>3, <1>4, StepKinds

\* A selection is made of a finished lane, and once.
LEMMA SelectionLastStep ==
    ASSUME SelectionLast, [Next]_vars
    PROVE  SelectionLast'
<1>1. CASE ~Building
  BY <1>1, StoppedStays DEF SelectionLast, vars, Building, Returned, CompilerRunning,
     LinkerRunning
<1>2. CASE Building
  <2>1. CASE SelectOutput \/ SelectArchive
    BY <2>1 DEF SelectOutput, SelectArchive, SelectionLast, Returned, CompilerRunning,
       LinkerRunning
  <2>2. CASE UNCHANGED <<selection, members>>
    BY <1>2, <2>2 DEF SelectionLast, Building
  <2> QED
    BY <2>1, <2>2, StepKinds, CompileFrame, LinkFrame DEF Project, Regenerate, EditObject,
       CopyObject, ArchiveObject, DisturbCapture, vars
<1> QED
  BY <1>1, <1>2

\* The invariant holds at the start.
LEMMA InitSound ==
    ASSUME Init
    PROVE  TypeOK /\ EvidenceSound
<1> USE ConstantsAssumption, NoFileAssumption
<1>1. [pc |-> "idle", name |-> NoFile, consumed |-> NoFile] \in CompilerStates
  BY DEF CompilerStates
<1>2. <<>> \in Seq(ObjectBytes) /\ <<>> \in Seq(Units)
  OBVIOUS
<1>3. [pc |-> "idle", read |-> <<>>, elf |-> NoFile, next |-> 1, matched |-> 0,
       units |-> <<>>, unsupported |-> FALSE] \in LinkerStates
  BY <1>2 DEF LinkerStates
<1>4. TypeOK
  BY <1>1, <1>2, <1>3 DEF Init, TypeOK
<1>5. NamesOwned
  BY DEF Init, NamesOwned, Journaled
<1>6. ObjectsProduced
  BY DEF Init, ObjectsProduced, IsObject
<1>7. JournalsSound /\ LinkJournalsSound /\ SelectionLast
  BY DEF Init, JournalsSound, LinkJournalsSound, SelectionLast, Building
<1>8. LinkersSound
  BY DEF Init, LinkersSound, LinkFresh, LinkAlone, LinkMonotone, LinkWrote, LinkRecorded,
     LinkerRunning
<1> QED
  BY <1>4, <1>5, <1>6, <1>7, <1>8 DEF EvidenceSound

\* Every step keeps it.
LEMMA NextSound ==
    ASSUME TypeOK, EvidenceSound, [Next]_vars
    PROVE  TypeOK' /\ EvidenceSound'
<1> USE DEF EvidenceSound
<1>1. TypeOK'
  BY StepKinds, TypeCompile, TypeLink, TypeRest
<1> QED
  BY <1>1, NamesStep, ObjectsStep, JournalsStep, LinkersStep, LinkJournalsStep,
     SelectionLastStep

\* The files and records of the lane keep their types, and the evidence in them
\* stays bound to the run that left it (CaptureConsumer, Snapshot,
\* CaptureFinishConsumer, recordNativeLink).
THEOREM EvidenceStaysSound == Spec => [](TypeOK /\ EvidenceSound)
<1>1. Init => TypeOK /\ EvidenceSound
  BY InitSound
<1>2. TypeOK /\ EvidenceSound /\ [Next]_vars => (TypeOK /\ EvidenceSound)'
  BY NextSound
<1> QED
  BY <1>1, <1>2, PTL DEF Spec

\* Type correctness of the lane, for any number of runs, paths and names.
THEOREM Typing == Spec => []TypeOK
BY EvidenceStaysSound, PTL

\* A finalized .compile.json is never rewritten: createUniqueFile gives every run a
\* name of its own (CaptureConsumer).
THEOREM JournalsAreImmutable == Spec => JournalImmutable
<1>1. TypeOK /\ EvidenceSound /\ [Next]_vars =>
        [\A n \in Name : (journal[n] # NoFile /\ journal[n].nativeSha # NoFile)
                            => journal'[n] = journal[n]]_journal
  BY JournalImmutableStep DEF EvidenceSound
<1> QED
  BY <1>1, EvidenceStaysSound, PTL DEF Spec, JournalImmutable

\* A supported link journal has one unit for each object of the output it
\* describes, in the output's order (recordNativeLink).
THEOREM LinkJournalsComplete == Spec => []LinkJournalComplete
<1>1. ASSUME TypeOK, EvidenceSound, NEW o \in Output,
             output[o] # NoFile, linkJournal[o] # NoFile,
             linkJournal[o].nativeSha = Digest(output[o]), ~linkJournal[o].unsupported
      PROVE  /\ Len(linkJournal[o].units) = Len(output[o].parts)
             /\ \A i \in DOMAIN output[o].parts :
                   linkJournal[o].units[i].marker = output[o].parts[i].marker
  <2>1. RecordSound(linkJournal[o])
    BY <1>1 DEF EvidenceSound, LinkJournalsSound
  <2>2. linkJournal[o].nativeSha.sha256 = output[o]
    BY <1>1 DEF Digest
  <2>3. output[o].parts \in Seq(ObjectBytes)
    BY <1>1 DEF TypeOK, OutputBytes
  <2>4. DOMAIN output[o].parts = 1..Len(output[o].parts)
    BY <2>3
  <2>5. ASSUME NEW i \in 1..Len(output[o].parts)
        PROVE  linkJournal[o].units[i].marker = output[o].parts[i].marker
    <3>1. UnitSound(linkJournal[o].units[i], output[o].parts[i])
      BY <2>1, <2>2 DEF RecordSound
    <3>2. \A c : Generated(c).marker = compiler[c].name
      BY DEF Generated
    <3> QED
      BY <3>1, <3>2 DEF UnitSound
  <2> QED
    BY <2>1, <2>2, <2>4, <2>5 DEF RecordSound
<1>2. TypeOK /\ EvidenceSound => LinkJournalComplete
  BY <1>1 DEF LinkJournalComplete
<1> QED
  BY <1>2, EvidenceStaysSound, PTL

\* What selectOutput hands over is what LLD linked.
LEMMA SelectOutputFaithful ==
    ASSUME TypeOK, EvidenceSound, Qualified
    PROVE  LET parts == output[Selected].parts
               units == linkJournal[Selected].units
           IN  /\ Len(units) = Len(parts)
               /\ \A i \in DOMAIN parts : Faithful(units[i], parts[i])
<1> DEFINE record == linkJournal[Selected]
           parts == output[Selected].parts
<1>1. record # NoFile /\ ~record.unsupported /\ Selected \in Output
  BY ConstantsAssumption DEF Qualified
<1>2. record.nativeSha.sha256 = output[Selected]
  BY DEF Qualified, Digest
<1>3. /\ Len(record.units) = Len(parts)
      /\ \A i \in 1..Len(parts) : UnitSound(record.units[i], parts[i])
  BY <1>1, <1>2 DEF EvidenceSound, LinkJournalsSound, RecordSound
<1>4. parts \in Seq(ObjectBytes) /\ record.units \in Seq(Units)
  BY <1>1 DEF Qualified, TypeOK, OutputBytes, LinkRecords
<1>5. DOMAIN parts = 1..Len(parts) /\ DOMAIN record.units = 1..Len(parts)
  BY <1>3, <1>4
<1>6. \A i \in DOMAIN record.units :
         Digest(capture[record.units[i].marker]) = record.units[i].captureSha
  BY DEF Qualified
<1>7. ASSUME NEW i \in DOMAIN parts
      PROVE  Faithful(record.units[i], parts[i])
  <2>1. UnitSound(record.units[i], parts[i])
    BY <1>3, <1>5
  <2>2. Digest(capture[record.units[i].marker]) = Digest(Bitcode(record.units[i].compile))
    BY <1>5, <1>6, <2>1 DEF UnitSound
  <2> QED
    BY <2>1, <2>2 DEF Faithful, UnitSound, Digest
<1> QED
  BY <1>3, <1>7

\* What selectArchive hands over is what the library holds, from inputs that
\* have not changed.
LEMMA SelectArchiveFaithful ==
    ASSUME TypeOK, EvidenceSound, \A i \in DOMAIN archive : ConsumedObject(archive[i]),
           NEW i \in DOMAIN archive
    PROVE  LET unit == UnitOf(archive[i]) IN
           /\ Faithful(unit, archive[i])
           /\ input[InputOf[unit.compile]] = compiler[unit.compile].consumed
<1>1. archive[i] \in ObjectBytes
  BY DEF TypeOK
<1> QED
  BY <1>1, ConsumedMeans DEF EvidenceSound

\* Every step keeps what the selections promise.
LEMMA PromisesStep ==
    ASSUME TypeOK, EvidenceSound, Promises, [Next]_vars
    PROVE  Promises'
<1>1. CASE ~Building
  <2>1. UNCHANGED vars
    BY <1>1, StoppedStays DEF EvidenceSound
  <2> QED
    BY <2>1 DEF vars, Promises, SelectionFaithful, MembersFaithful, MembersFresh, Faithful,
       Generated, Bitcode
<1>2. CASE Building /\ UNCHANGED <<selection, members>>
  BY <1>2 DEF Building, Promises, SelectionFaithful, MembersFaithful, MembersFresh
<1>3. CASE Building /\ SelectOutput
  <2>1. members' = NoFile
        /\ UNCHANGED <<input, output, archive, capture, compiler, linkJournal>>
    BY <1>3 DEF SelectOutput, Building
  <2>2. MembersFaithful' /\ MembersFresh'
    BY <2>1 DEF MembersFaithful, MembersFresh
  <2>3. CASE Qualified
    <3>1. selection' = linkJournal[Selected].units
      BY <1>3, <2>3 DEF SelectOutput
    <3>2. SelectionFaithful'
      BY <2>1, <2>3, <3>1, SelectOutputFaithful DEF SelectionFaithful, Faithful, Generated,
         Bitcode
    <3> QED
      BY <2>2, <3>2 DEF Promises
  <2>4. CASE ~Qualified
    BY <1>3, <2>2, <2>4 DEF SelectOutput, Promises, SelectionFaithful
  <2> QED
    BY <2>3, <2>4
<1>4. CASE Building /\ SelectArchive
  <2>1. selection' = NoFile /\ UNCHANGED <<input, archive, capture, compiler>>
    BY <1>4 DEF SelectArchive, Building
  <2>2. SelectionFaithful'
    BY <2>1 DEF SelectionFaithful
  <2>3. DOMAIN archive = 1..Len(archive) /\ Len(archive) \in Nat
    BY DEF TypeOK
  <2> DEFINE units == [i \in DOMAIN archive |-> UnitOf(archive[i])]
  <2>4. \/ members' = Refused
        \/ /\ members' = units
           /\ \A i \in DOMAIN archive : ConsumedObject(archive[i])
    BY <1>4, <2>3 DEF SelectArchive
  <2>5. CASE members' = Refused
    BY <2>2, <2>5 DEF Promises, MembersFaithful, MembersFresh
  <2>6. CASE /\ members' = units
             /\ \A i \in DOMAIN archive : ConsumedObject(archive[i])
    <3>1. Len(units) = Len(archive) /\ DOMAIN units = DOMAIN archive
      BY <2>3
    <3>2. \A i \in DOMAIN archive :
             /\ Faithful(units[i], archive[i])
             /\ input[InputOf[units[i].compile]] = compiler[units[i].compile].consumed
      BY <2>6, SelectArchiveFaithful
    <3> HIDE DEF units
    <3>3. MembersFaithful'
      BY <2>1, <2>6, <3>1, <3>2 DEF MembersFaithful, Faithful, Generated, Bitcode
    <3>4. MembersFresh'
      BY <2>1, <2>6, <3>1, <3>2 DEF MembersFresh
    <3> QED
      BY <2>2, <3>3, <3>4 DEF Promises
  <2> QED
    BY <2>4, <2>5, <2>6
<1> QED
  BY <1>1, <1>2, <1>3, <1>4, StepKinds, CompileFrame, LinkFrame DEF Project, Regenerate,
     EditObject, CopyObject, ArchiveObject, DisturbCapture, vars

\* What selectOutput and selectArchive select is what the output or the library
\* holds, in its order, in every reachable state of a lane.
THEOREM PromisesKept == Spec => []Promises
<1>1. Init => Promises
  BY DEF Init, Promises, SelectionFaithful, MembersFaithful, MembersFresh
<1>2. TypeOK /\ EvidenceSound /\ Promises /\ [Next]_vars => Promises'
  BY PromisesStep
<1> QED
  BY <1>1, <1>2, EvidenceStaysSound, PTL DEF Spec

\* A linked output is selected only with the captures of the very objects LLD put
\* into it, in link order, whatever the jobs of the build did and in which order
\* (selectOutput, recordNativeLink, consumedObject).
THEOREM SelectionIsFaithful == Spec => []SelectionFaithful
BY PromisesKept, PTL DEF Promises

\* A static library is selected only with the captures of its members, every
\* occurrence, in physical order (selectArchive).
THEOREM MembersAreFaithful == Spec => []MembersFaithful
BY PromisesKept, PTL DEF Promises

\* And only if each member's input still is what the compiler consumed.
THEOREM MembersAreFresh == Spec => []MembersFresh
BY PromisesKept, PTL DEF Promises

-----------------------------------------------------------------------------
(***************************************************************************)
(* DsosQualified: what a selected output needs from other private links,   *)
(* for every lane in which no output is linked twice.                      *)
(***************************************************************************)

\* An output and its journal are written by a link of that output alone: the output
\* by the step that leaves LLD, the journal by the one that ends the recording.
LEMMA OutputWriters ==
    ASSUME TypeOK, [Next]_vars, NEW o \in Output
    PROVE  /\ \/ output'[o] = output[o]
              \/ \E l \in Link : OutputOf[l] = o /\ linker[l].pc = "lld"
           /\ \/ linkJournal'[o] = linkJournal[o]
              \/ \E l \in Link : OutputOf[l] = o /\ RecordLink(l)
<1>a. /\ linkJournal \in [Output -> LinkRecords \cup {NoFile}]
      /\ output \in [Output -> OutputBytes \cup {NoFile}]
  BY DEF TypeOK
<1>1. ASSUME NEW l \in Link, LldWrite(l)
      PROVE  /\ output'[o] = output[o] \/ (OutputOf[l] = o /\ linker[l].pc = "lld")
             /\ linkJournal'[o] = linkJournal[o]
  BY <1>1, <1>a DEF LldWrite
<1>2. ASSUME NEW l \in Link, RecordLink(l)
      PROVE  /\ output'[o] = output[o]
             /\ linkJournal'[o] = linkJournal[o] \/ OutputOf[l] = o
  BY <1>2, <1>a DEF RecordLink
<1>3. ASSUME NEW l \in Link, StartLink(l) \/ LinkStep(l) \/ LinkFails(l),
             ~LldWrite(l), ~RecordLink(l)
      PROVE  UNCHANGED <<output, linkJournal>>
  BY <1>3 DEF StartLink, LinkStep, LinkFails, LldRead, Observe, RecordUnit, SaveObject
<1> QED
  BY <1>1, <1>2, <1>3, StepKinds, CompileFrame, RestFrame

\* A recorded output is neither linked nor recorded again.
LEMMA RecordedStays ==
    ASSUME TypeOK, RecordsFinal, [Next]_vars, NEW o \in Output, linkJournal[o] # NoFile
    PROVE  output'[o] = output[o] /\ linkJournal'[o] = linkJournal[o]
<1>1. \A l \in Link : OutputOf[l] = o => linker[l].pc = "done"
  BY DEF RecordsFinal
<1>2. \A l \in Link : RecordLink(l) => linker[l].pc = "recording"
  BY DEF RecordLink
<1> QED
  BY <1>1, <1>2, OutputWriters

\* A private DSO stays one.
LEMMA PrivateStays ==
    ASSUME TypeOK, RecordsFinal, [Next]_vars, NEW d \in Output, PrivateDso(d)
    PROVE  PrivateDso(d)'
BY RecordedStays DEF PrivateDso, Digest

\* A link that has ended stays ended.
LEMMA DoneStays ==
    ASSUME TypeOK, [Next]_vars, NEW k \in Link, linker[k].pc = "done"
    PROVE  linker'[k].pc = "done"
<1>1. ASSUME NEW l \in Link, StartLink(l) \/ LinkStep(l) \/ LinkFails(l)
      PROVE  linker'[k] = linker[k]
  BY <1>1, LinkerFields
<1> QED
  BY <1>1, StepKinds, CompileFrame, RestFrame DEF vars

\* A link is recorded once, when it ends.
LEMMA RecordsFinalStep ==
    ASSUME LinkedOnce, TypeOK, RecordsFinal, [Next]_vars
    PROVE  RecordsFinal'
<1>1. SUFFICES ASSUME NEW o \in Output, linkJournal'[o] # NoFile,
                      NEW k \in Link, OutputOf[k] = o
               PROVE  linker'[k].pc = "done"
  BY DEF RecordsFinal
<1>2. CASE linkJournal'[o] = linkJournal[o]
  BY <1>1, <1>2, DoneStays DEF RecordsFinal
<1>3. ASSUME NEW l \in Link, OutputOf[l] = o, RecordLink(l)
      PROVE  linker'[k].pc = "done"
  <2>1. l = k
    BY <1>1, <1>3 DEF LinkedOnce
  <2>2. linker[l] \in LinkerStates /\ linker \in [Link -> LinkerStates]
    BY DEF TypeOK
  <2> QED
    BY <1>3, <2>1, <2>2 DEF RecordLink, LinkerStates
<1> QED
  BY <1>2, <1>3, OutputWriters

\* The journal of a link that ends supported names DSOs that were private when it
\* was written, none of them the output being recorded.
LEMMA NeededPrivateStep ==
    ASSUME TypeOK, TypeOK', RecordsFinal, NeededPrivate, [Next]_vars
    PROVE  NeededPrivate'
<1>1. SUFFICES ASSUME NEW o \in Output, linkJournal'[o] # NoFile,
                      ~linkJournal'[o].unsupported,
                      NEW d \in linkJournal'[o].nativeSha.sha256.needed
               PROVE  PrivateDso(d)'
  BY DEF NeededPrivate
<1>2. d \in Output
  BY <1>1 DEF TypeOK, LinkRecords, DigestOf, OutputBytes
<1>3. CASE linkJournal'[o] = linkJournal[o]
  <2>1. PrivateDso(d)
    BY <1>1, <1>3 DEF NeededPrivate
  <2> QED
    BY <1>2, <2>1, PrivateStays
<1>4. ASSUME NEW l \in Link, OutputOf[l] = o, RecordLink(l)
      PROVE  PrivateDso(d)'
  <2> DEFINE complete == /\ linker[l].matched = Len(linker[l].elf.parts)
                         /\ \A e \in DsosOf[l] \cup linker[l].elf.needed : PrivateDso(e)
             flag == linker[l].unsupported \/ ~complete
  <2>1. linkJournal'[o] =
           [nativeSha |-> Digest(linker[l].elf), units |-> linker[l].units,
            libraries |-> linker[l].elf.needed, unsupported |-> flag]
    BY <1>4 DEF RecordLink, TypeOK
  <2>2. ~flag => \A e \in linker[l].elf.needed : PrivateDso(e)
    OBVIOUS
  <2> HIDE DEF flag
  <2>3. linkJournal'[o].unsupported = flag
        /\ linkJournal'[o].nativeSha.sha256 = linker[l].elf
    BY <2>1 DEF Digest
  <2>4. ~flag
    BY <1>1, <2>3
  <2>5. PrivateDso(d)
    BY <1>1, <2>2, <2>3, <2>4
  <2> QED
    BY <1>2, <2>5, PrivateStays
<1> QED
  BY <1>3, <1>4, OutputWriters

\* A selection is made from a record of the output, and both stay.
LEMMA SelectionRecordedStep ==
    ASSUME TypeOK, RecordsFinal, SelectionRecorded, [Next]_vars
    PROVE  SelectionRecorded'
<1>s. Selected \in Output
  BY ConstantsAssumption
<1>1. CASE selection' = selection
  BY <1>1, <1>s, PrivateStays DEF SelectionRecorded
<1>2. CASE SelectOutput
  <2>1. CASE Qualified
    <3>1. PrivateDso(Selected)
      BY <2>1 DEF Qualified, PrivateDso
    <3> QED
      BY <1>s, <3>1, PrivateStays DEF SelectionRecorded
  <2>2. CASE ~Qualified
    BY <1>2, <2>2 DEF SelectOutput, SelectionRecorded
  <2> QED
    BY <2>1, <2>2
<1> QED
  BY <1>1, <1>2, StepKinds, CompileFrame, LinkFrame DEF Project, Regenerate, EditObject,
     CopyObject, ArchiveObject, DisturbCapture, SelectArchive, vars

\* Where no output is linked twice, an output is selected only if every private DSO
\* it needs is still the one its own link recorded as supported: neither a later
\* link, nor the output naming itself, gets past recordNativeLink's check of the
\* DSOs it traced.
THEOREM SelectedDsosAreQualified ==
    ASSUME LinkedOnce
    PROVE  Spec => []DsosQualified
<1>1. Init => DsosSound
  BY DEF Init, DsosSound, RecordsFinal, NeededPrivate, SelectionRecorded
<1>2. /\ TypeOK /\ TypeOK' /\ DsosSound /\ [Next]_vars
      => DsosSound'
  BY RecordsFinalStep, NeededPrivateStep, SelectionRecordedStep DEF DsosSound
<1>3. TypeOK /\ DsosSound => DsosQualified
  <2>1. SUFFICES ASSUME TypeOK, DsosSound, selection \notin {NoFile, Refused},
                        NEW d \in output[Selected].needed
                 PROVE  PrivateDso(d)
    BY DEF DsosQualified, PrivateDso
  <2>2. PrivateDso(Selected) /\ Selected \in Output
    BY <2>1, ConstantsAssumption DEF DsosSound, SelectionRecorded
  <2>3. d \in linkJournal[Selected].nativeSha.sha256.needed
    BY <2>1, <2>2 DEF PrivateDso, Digest
  <2> QED
    BY <2>1, <2>2, <2>3 DEF DsosSound, NeededPrivate, PrivateDso
<1> QED
  BY <1>1, <1>2, <1>3, Typing, PTL DEF Spec
=============================================================================
