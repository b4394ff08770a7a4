--------------------------- MODULE NativeCapture ---------------------------
(***************************************************************************)
(* One private native build lane of the publisher (sela-build).  The       *)
(* project's own make/ninja runs, two jobs at a time, stock Clang with the *)
(* capture plugins (ClangPlugin.cpp, Snapshot.cpp) and the observing       *)
(* linker sela-native-ld (Build.cpp), all sharing the lane's files.  When  *)
(* the build tool has returned, selectOutput reads the evidence back and   *)
(* hands the captures of the selected output to publication.               *)
(*                                                                         *)
(* Contents of files are abstracted to what the digests tell apart: the    *)
(* compiler run that produced them, the input it consumed, and whether a   *)
(* later tool rewrote them.                                                *)
(***************************************************************************)
EXTENDS Naturals, Sequences

CONSTANTS
    Compile,      \* runs of clang -c with an object output
    Link,         \* runs of sela-native-ld
    Object,       \* relocatable object paths (archive members are paths too)
    Input,        \* source and generated header files
    Output,       \* linked executables and shared libraries
    Content,      \* what an input file may contain
    Name,         \* names createUniqueFile can reserve under metadata/
    InputOf,      \* [Compile -> Input]: the file a run depends on
    ObjectOf,     \* [Compile -> Object]: its -o path
    ObjectsOf,    \* [Link -> Seq(Object)]: the traced relocatable inputs
    DsosOf,       \* [Link -> SUBSET Output]: the traced private DSOs
    OutputOf,     \* [Link -> Output]: its -o path
    Unqualified,  \* the links whose options or ELF kind are not supported
    Selected,     \* the output publication asks for
    MaxMembers,   \* bound on the members of the static library
    NoFile,       \* no such file, or no value yet
    Garbage,      \* a file that is not what its writer meant to write
    Reserved,     \* the empty file createUniqueFile leaves
    Disturbed,    \* a capture rewritten by something else in the lane
    Refused       \* the answer of a selection that fails

ASSUME ConstantsAssumption ==
    /\ InputOf \in [Compile -> Input]
    /\ ObjectOf \in [Compile -> Object]
    /\ ObjectsOf \in [Link -> Seq(Object)]
    /\ DsosOf \in [Link -> SUBSET Output]
    /\ OutputOf \in [Link -> Output]
    /\ Unqualified \subseteq Link
    /\ Selected \in Output
    /\ MaxMembers \in Nat

\* What the files of the lane may hold.
DigestOf(contents) == [sha256 : contents]
Bitcodes == [compile : Compile, source : Content]
ObjectBytes == [marker : Name, code : Bitcodes, edited : BOOLEAN]
OutputBytes == [parts : Seq(ObjectBytes), needed : SUBSET Output]
JournalEntries == [compile : Compile, dependency : DigestOf(Content),
                   captureSha : {NoFile} \cup DigestOf(Bitcodes),
                   nativeSha : {NoFile} \cup DigestOf(ObjectBytes)]
Units == [marker : Name, compile : Compile, captureSha : DigestOf(Bitcodes),
          nativeSha : DigestOf(ObjectBytes)]
LinkRecords == [nativeSha : DigestOf(OutputBytes), units : Seq(Units),
                libraries : SUBSET Output, unsupported : BOOLEAN]

\* The special values are none of the contents, and a capture that was disturbed
\* is not the empty one.
ASSUME NoFileAssumption ==
    /\ NoFile \notin Name \cup Content
    /\ NoFile \notin {Garbage, Reserved, Disturbed, Refused}
    /\ NoFile \notin Bitcodes \cup ObjectBytes \cup JournalEntries
    /\ NoFile \notin DigestOf(Bitcodes) \cup DigestOf(ObjectBytes)
    /\ \A bytes \in {NoFile, Refused} : bytes \notin Seq(Units)
    /\ NoFile \notin OutputBytes
    /\ NoFile \notin LinkRecords
    /\ Garbage \notin ObjectBytes

VARIABLES
    input,        \* contents of the input files
    object,       \* contents of the object paths
    output,       \* contents of the linked outputs
    archive,      \* members of the static library, in physical order
    capture,      \* metadata/<name>: the LLVM snapshot
    journal,      \* metadata/<name>.compile.json
    linkJournal,  \* metadata/<digest of output path>.link.json
    saved,        \* object bytes whose metadata/<digest>.native.o is complete
    saving,       \* object bytes whose .native.o is being written
    compiler,     \* state of each compiler run
    linker,       \* state of each linker run
    selection,    \* what selectOutput answered for a linked output
    members       \* what selectArchive answered for the static library

files == <<input, object, output, archive>>
metadata == <<capture, journal, linkJournal, saved, saving>>
vars == <<files, metadata, compiler, linker, selection, members>>

-----------------------------------------------------------------------------
(* File contents. *)

\* SHA-256, taken to be free of collisions: digests are equal exactly when the
\* bytes are.
Digest(bytes) == [sha256 |-> bytes]

\* The bitcode the Snapshot pass writes for compiler run c.
Bitcode(c) == [compile |-> c, source |-> compiler[c].consumed]

\* The object c generates: native code of the same module, and the
\* .sela.capture marker naming c's journal.
Generated(c) == [marker |-> compiler[c].name, code |-> Bitcode(c), edited |-> FALSE]

IsObject(bytes) == bytes \notin {NoFile, Garbage}

\* captureMarkers: the journals named by the .sela.capture section of a linked
\* output, in link order.
Witness(elf) == [i \in DOMAIN elf.parts |-> elf.parts[i].marker]

-----------------------------------------------------------------------------
Init ==
    /\ input \in [Input -> Content]
    /\ object = [o \in Object |-> NoFile]
    /\ output = [o \in Output |-> NoFile]
    /\ archive = <<>>
    /\ capture = [n \in Name |-> NoFile]
    /\ journal = [n \in Name |-> NoFile]
    /\ linkJournal = [o \in Output |-> NoFile]
    /\ saved = {}
    /\ saving = {}
    /\ compiler = [c \in Compile |->
                      [pc |-> "idle", name |-> NoFile, consumed |-> NoFile]]
    /\ linker = [l \in Link |->
                    [pc |-> "idle", read |-> <<>>, elf |-> NoFile, next |-> 1,
                     matched |-> 0, units |-> <<>>, unsupported |-> FALSE]]
    /\ selection = NoFile
    /\ members = NoFile

CompilerRunning(c) == compiler[c].pc \notin {"idle", "done", "failed"}
LinkerRunning(l) == linker[l].pc \notin {"idle", "done", "failed"}
Building == selection = NoFile /\ members = NoFile

-----------------------------------------------------------------------------
(* A compiler run under the capture plugins. *)

\* Mutant: a name built from the process id, free again when its owner ended.
FreshPid(n) == \A c \in Compile : compiler[c].name = n => ~CompilerRunning(c)

\* createUniqueFile: no capture has this name, whichever run left it.
FreshName(n) == capture[n] = NoFile

\* CaptureConsumer's constructor reserves a capture file nobody has.
Reserve(c) ==
    /\ Building
    /\ compiler[c].pc = "idle"
    /\ \E n \in Name :
          /\ FreshName(n)
          /\ capture' = [capture EXCEPT ![n] = Reserved]
          /\ compiler' = [compiler EXCEPT ![c].pc = "reserved", ![c].name = n]
    /\ UNCHANGED <<files, journal, linkJournal, saved, saving, linker,
                   selection, members>>

\* The preprocessor reads the input once, into the SourceManager's buffer.
Preprocess(c) ==
    /\ compiler[c].pc = "reserved"
    /\ compiler' = [compiler EXCEPT ![c].pc = "parsed",
                                    ![c].consumed = input[InputOf[c]]]
    /\ UNCHANGED <<files, metadata, linker, selection, members>>

\* Mutant: hash the input by reopening it.
ReopenedSha(c) == Digest(input[InputOf[c]])

\* The input's digest is taken from the consumed buffer, never by reopening it.
DependencySha(c) == Digest(compiler[c].consumed)

\* HandleTranslationUnit, before the main action: the provisional journal.
WriteJournal(c) ==
    /\ compiler[c].pc = "parsed"
    /\ journal' = [journal EXCEPT ![compiler[c].name] =
                      [compile |-> c,
                       dependency |-> DependencySha(c),
                       captureSha |-> NoFile, nativeSha |-> NoFile]]
    /\ compiler' = [compiler EXCEPT ![c].pc = "journaled"]
    /\ UNCHANGED <<files, capture, linkJournal, saved, saving, linker,
                   selection, members>>

\* Snapshot::run writes the pristine module, binds its digest into the journal
\* and only then adds the marker to the module being compiled.
Snapshot(c) ==
    LET n == compiler[c].name IN
    /\ compiler[c].pc = "journaled"
    /\ capture' = [capture EXCEPT ![n] = Bitcode(c)]
    /\ journal' = [journal EXCEPT ![n].captureSha = Digest(Bitcode(c))]
    /\ compiler' = [compiler EXCEPT ![c].pc = "captured"]
    /\ UNCHANGED <<files, linkJournal, saved, saving, linker, selection, members>>

\* -fno-temp-file: code generation truncates the object path and writes to it
\* directly, in view of every other process.
OpenObject(c) ==
    /\ compiler[c].pc = "captured"
    /\ object' = [object EXCEPT ![ObjectOf[c]] = Garbage]
    /\ compiler' = [compiler EXCEPT ![c].pc = "emitting"]
    /\ UNCHANGED <<input, output, archive, metadata, linker, selection, members>>

\* A run that had the file to itself leaves its object; two runs that wrote the
\* same path at once leave either object or a mixture.
EmitObject(c) ==
    LET o == ObjectOf[c]
        alone == /\ object[o] = Garbage
                 /\ \A d \in Compile \ {c} :
                       ~(ObjectOf[d] = o /\ compiler[d].pc = "emitting")
    IN
    /\ compiler[c].pc = "emitting"
    /\ \E bytes \in IF alone THEN {Generated(c)}
                    ELSE {Generated(c), Garbage, object[o]} :
          object' = [object EXCEPT ![o] = bytes]
    /\ compiler' = [compiler EXCEPT ![c].pc = "emitted"]
    /\ UNCHANGED <<input, output, archive, metadata, linker, selection, members>>

\* The checks of CaptureFinishConsumer, after the main action.
Finishable(c) ==
    LET n == compiler[c].name
        bytes == object[ObjectOf[c]]
    IN
    /\ journal[n].nativeSha = NoFile
    /\ journal[n].captureSha = Digest(capture[n])
    /\ IsObject(bytes)
    /\ bytes.marker = n

\* CaptureFinishConsumer binds the completed object's digest and renames the
\* finalized journal into place.
Finish(c) ==
    /\ compiler[c].pc = "emitted"
    /\ Finishable(c)
    /\ journal' = [journal EXCEPT ![compiler[c].name].nativeSha =
                                     Digest(object[ObjectOf[c]])]
    /\ compiler' = [compiler EXCEPT ![c].pc = "done"]
    /\ UNCHANGED <<files, capture, linkJournal, saved, saving, linker,
                   selection, members>>

\* A diagnosed error, a failing pass, or the death of the process, at any point.
\* The driver may remove the object of a failed run.
CompileFails(c) ==
    /\ CompilerRunning(c)
    /\ compiler' = [compiler EXCEPT ![c].pc = "failed"]
    /\ \/ UNCHANGED object
       \/ object' = [object EXCEPT ![ObjectOf[c]] = NoFile]
    /\ UNCHANGED <<input, output, archive, metadata, linker, selection, members>>

-----------------------------------------------------------------------------
(* A run of sela-native-ld. *)

\* nativeLinkMain up to the start of stock LLD.  A build tool does not run two
\* recipes for one output at the same time.
StartLink(l) ==
    /\ Building
    /\ linker[l].pc = "idle"
    /\ \A k \in Link : OutputOf[k] = OutputOf[l] => ~LinkerRunning(k)
    /\ linker' = [linker EXCEPT ![l].pc = "lld"]
    /\ UNCHANGED <<files, metadata, compiler, selection, members>>

\* Mutant: link whatever is at the path.
LinkablePath(bytes) == bytes # NoFile

\* LLD stops at an input that is missing or not an ELF object.
Linkable(bytes) == IsObject(bytes)

\* LLD opens its inputs one after the other.
LldRead(l) ==
    LET read == linker[l].read
        bytes == object[ObjectsOf[l][Len(read) + 1]]
    IN
    /\ linker[l].pc = "lld"
    /\ Len(read) < Len(ObjectsOf[l])
    /\ Linkable(bytes)
    /\ linker' = [linker EXCEPT ![l].read = Append(read, bytes)]
    /\ UNCHANGED <<files, metadata, compiler, selection, members>>

\* LLD commits its output with a rename; it concatenates the marker sections.
LldWrite(l) ==
    /\ linker[l].pc = "lld"
    /\ Len(linker[l].read) = Len(ObjectsOf[l])
    /\ \A d \in DsosOf[l] : output[d] # NoFile
    /\ output' = [output EXCEPT ![OutputOf[l]] =
                     [parts |-> linker[l].read, needed |-> DsosOf[l]]]
    /\ linker' = [linker EXCEPT ![l].pc = "linked"]
    /\ UNCHANGED <<input, object, archive, metadata, compiler, selection, members>>

\* recordNativeLink classifies the options, opens the output LLD just wrote and
\* reads its witness.  A repeated journal is ambiguous.
Observe(l) ==
    LET elf == output[OutputOf[l]] IN
    /\ linker[l].pc = "linked"
    /\ linker' = [linker EXCEPT
          ![l].pc = "recording", ![l].elf = elf,
          ![l].unsupported =
              \/ l \in Unqualified
              \/ \E i, j \in DOMAIN elf.parts :
                    i # j /\ Witness(elf)[i] = Witness(elf)[j]]
    /\ UNCHANGED <<files, metadata, compiler, selection, members>>

\* Mutant: trust the marker, never compare the object's digest.
ConsumedMarker(bytes) ==
    LET entry == journal[bytes.marker] IN
    /\ entry # NoFile
    /\ entry.captureSha # NoFile
    /\ Digest(capture[bytes.marker]) = entry.captureSha
    /\ Digest(input[InputOf[entry.compile]]) = entry.dependency

\* consumedObject: the bytes are the ones a finished compiler run generated,
\* from a capture and an input that are still what that run left and read.
ConsumedObject(bytes) ==
    LET entry == journal[bytes.marker] IN
    /\ entry # NoFile
    /\ entry.captureSha # NoFile
    /\ entry.nativeSha = Digest(bytes)
    /\ Digest(capture[bytes.marker]) = entry.captureSha
    /\ Digest(input[InputOf[entry.compile]]) = entry.dependency

\* The unit consumedObject returns and recordNativeLink stores.
UnitOf(bytes) == [marker |-> bytes.marker,
                  compile |-> journal[bytes.marker].compile,
                  captureSha |-> journal[bytes.marker].captureSha,
                  nativeSha |-> Digest(bytes)]

\* Mutant: count the witness entries without comparing them.
MatchesCount(l, bytes) ==
    /\ IsObject(bytes)
    /\ linker[l].matched < Len(linker[l].elf.parts)

\* Mutant: the witness is indexed one short.
MatchesPrevious(l, bytes) ==
    /\ IsObject(bytes)
    /\ linker[l].matched \in 1..Len(linker[l].elf.parts)
    /\ bytes.marker = Witness(linker[l].elf)[linker[l].matched]

\* The marker of the next traced input is the next entry of the witness.
MatchesWitness(l, bytes) ==
    /\ IsObject(bytes)
    /\ linker[l].matched < Len(linker[l].elf.parts)
    /\ bytes.marker = Witness(linker[l].elf)[linker[l].matched + 1]

\* One private line of the input trace: the path is read again, after LLD.
\* Evidence nobody saved before starts being written.
RecordUnit(l) ==
    LET bytes == object[ObjectsOf[l][linker[l].next]]
        matches == MatchesWitness(l, bytes)
        consumed == matches /\ ConsumedObject(bytes)
        new == consumed /\ bytes \notin saved \cup saving
    IN
    /\ linker[l].pc = "recording"
    /\ linker[l].next <= Len(ObjectsOf[l])
    /\ linker' = [linker EXCEPT
          ![l].next = @ + 1,
          ![l].matched = IF matches THEN @ + 1 ELSE @,
          ![l].units = IF consumed THEN Append(@, UnitOf(bytes)) ELSE @,
          ![l].unsupported = @ \/ ~consumed,
          ![l].pc = IF new THEN "saving" ELSE @]
    /\ saving' = IF new THEN saving \cup {bytes} ELSE saving
    /\ UNCHANGED <<files, capture, journal, linkJournal, saved, compiler,
                   selection, members>>

\* The object snapshot is complete.
SaveObject(l) ==
    /\ linker[l].pc = "saving"
    /\ \E bytes \in saving :
          /\ Digest(bytes) = linker[l].units[Len(linker[l].units)].nativeSha
          /\ saving' = saving \ {bytes}
          /\ saved' = saved \cup {bytes}
    /\ linker' = [linker EXCEPT ![l].pc = "recording"]
    /\ UNCHANGED <<files, capture, journal, linkJournal, compiler, selection,
                   members>>

\* Mutant: any recorded DSO is private.
RecordedDso(d) == output[d] # NoFile /\ linkJournal[d] # NoFile

\* A traced DSO counts as private when its own link journal describes the bytes
\* now at its path and found nothing unsupported.
PrivateDso(d) ==
    /\ output[d] # NoFile
    /\ linkJournal[d] # NoFile
    /\ linkJournal[d].nativeSha = Digest(output[d])
    /\ ~linkJournal[d].unsupported

\* The end of recordNativeLink: every traced DSO and every witness entry is
\* accounted for, and the journal appears atomically.
RecordLink(l) ==
    LET elf == linker[l].elf
        complete == /\ linker[l].matched = Len(elf.parts)
                    /\ \A d \in DsosOf[l] \cup elf.needed : PrivateDso(d)
    IN
    /\ linker[l].pc = "recording"
    /\ linker[l].next > Len(ObjectsOf[l])
    /\ linkJournal' = [linkJournal EXCEPT ![OutputOf[l]] =
          [nativeSha |-> Digest(elf), units |-> linker[l].units,
           libraries |-> elf.needed,
           unsupported |-> linker[l].unsupported \/ ~complete]]
    /\ linker' = [linker EXCEPT ![l].pc = "done"]
    /\ UNCHANGED <<files, capture, journal, saved, saving, compiler, selection,
                   members>>

\* LLD or the recorder reports an error, or the process dies.
LinkFails(l) ==
    /\ LinkerRunning(l)
    /\ linker' = [linker EXCEPT ![l].pc = "failed"]
    /\ UNCHANGED <<files, metadata, compiler, selection, members>>

-----------------------------------------------------------------------------
(* The rest of the project's build: external to src/. *)

\* A generator rewrites an input.
Regenerate(f) ==
    /\ Building
    /\ \E content \in Content \ {input[f]} : input' = [input EXCEPT ![f] = content]
    /\ UNCHANGED <<object, output, archive, metadata, compiler, linker, selection,
                   members>>

\* objcopy or strip after a finished compiler run: other bytes, same marker.
EditObject(o) ==
    /\ Building
    /\ IsObject(object[o])
    /\ ~object[o].edited
    /\ ~CompilerRunning(object[o].code.compile)
    /\ object' = [object EXCEPT ![o].edited = TRUE]
    /\ UNCHANGED <<input, output, archive, metadata, compiler, linker, selection,
                   members>>

\* cp, mv or ar: an object is renamed or becomes an archive member.  Old bytes
\* are not put back under a link that is reading them.
CopyObject(o, p) ==
    /\ Building
    /\ o # p
    /\ IsObject(object[o])
    /\ \A c \in Compile : ObjectOf[c] # p
    /\ \A l \in Link : LinkerRunning(l) =>
          \A i \in 1..Len(ObjectsOf[l]) : ObjectsOf[l][i] # p
    /\ object' = [object EXCEPT ![p] = object[o]]
    /\ UNCHANGED <<input, output, archive, metadata, compiler, linker, selection,
                   members>>

\* ar q: a static library keeps every member, in order.
ArchiveObject(o) ==
    /\ Building
    /\ IsObject(object[o])
    /\ Len(archive) < MaxMembers
    /\ archive' = Append(archive, object[o])
    /\ UNCHANGED <<input, object, output, metadata, compiler, linker, selection,
                   members>>

\* Some tool that walks the lane rewrites a finished run's capture.
DisturbCapture(n) ==
    /\ Building
    /\ capture[n] \notin {NoFile, Reserved, Disturbed}
    /\ \A c \in Compile : compiler[c].name = n => ~CompilerRunning(c)
    /\ capture' = [capture EXCEPT ![n] = Disturbed]
    /\ UNCHANGED <<files, journal, linkJournal, saved, saving, compiler, linker,
                   selection, members>>

-----------------------------------------------------------------------------
(* Selection, once the build tool has returned. *)

Returned ==
    /\ \A c \in Compile : ~CompilerRunning(c)
    /\ \A l \in Link : ~LinkerRunning(l)

\* Mutant: the output's digest is not compared with the journal's.
QualifiedAnyOutput ==
    LET record == linkJournal[Selected] IN
    /\ output[Selected] # NoFile
    /\ record # NoFile
    /\ ~record.unsupported
    /\ record.units # <<>>
    /\ \A i \in DOMAIN record.units :
          LET unit == record.units[i] IN
          /\ Digest(capture[unit.marker]) = unit.captureSha
          /\ \E bytes \in saved : Digest(bytes) = unit.nativeSha

\* The checks of selectOutput on the link journal and on each unit.
Qualified ==
    LET record == linkJournal[Selected] IN
    /\ output[Selected] # NoFile
    /\ record # NoFile
    /\ Digest(output[Selected]) = record.nativeSha
    /\ ~record.unsupported
    /\ record.units # <<>>
    /\ \A i \in DOMAIN record.units :
          LET unit == record.units[i] IN
          /\ Digest(capture[unit.marker]) = unit.captureSha
          /\ \E bytes \in saved : Digest(bytes) = unit.nativeSha

\* selectOutput on a linked output.
SelectOutput ==
    /\ Returned
    /\ Building
    /\ selection' = IF Qualified THEN linkJournal[Selected].units ELSE Refused
    /\ UNCHANGED <<files, metadata, compiler, linker, members>>

\* selectArchive on the static library: members are consumed one by one, up to
\* the first that is refused; each one consumed has its evidence saved.
SelectArchive ==
    LET consumed == {i \in DOMAIN archive :
                        \A j \in 1..i : ConsumedObject(archive[j])}
    IN
    /\ Returned
    /\ Building
    /\ members' = IF consumed = DOMAIN archive
                  THEN [i \in DOMAIN archive |-> UnitOf(archive[i])]
                  ELSE Refused
    /\ saved' = saved \cup ({archive[i] : i \in consumed} \ saving)
    /\ UNCHANGED <<files, capture, journal, linkJournal, saving, compiler, linker,
                   selection>>

\* Publication goes on from the selection; the lane does not change any more.
Published ==
    /\ ~Building
    /\ UNCHANGED vars

-----------------------------------------------------------------------------
CompileStep(c) ==
    \/ Reserve(c) \/ Preprocess(c) \/ WriteJournal(c) \/ Snapshot(c)
    \/ OpenObject(c) \/ EmitObject(c) \/ Finish(c)

LinkStep(l) ==
    \/ LldRead(l) \/ LldWrite(l) \/ Observe(l) \/ RecordUnit(l)
    \/ SaveObject(l) \/ RecordLink(l)

Failure ==
    \/ \E c \in Compile : CompileFails(c)
    \/ \E l \in Link : LinkFails(l)

Project ==
    \/ \E f \in Input : Regenerate(f)
    \/ \E o \in Object : EditObject(o)
    \/ \E o, p \in Object : CopyObject(o, p)
    \/ \E o \in Object : ArchiveObject(o)
    \/ \E n \in Name : DisturbCapture(n)

Next ==
    \/ \E c \in Compile : CompileStep(c)
    \/ \E l \in Link : StartLink(l) \/ LinkStep(l)
    \/ Failure
    \/ Project
    \/ SelectOutput
    \/ SelectArchive
    \/ Published

Spec == Init /\ [][Next]_vars

\* A build nobody disturbs: no job fails, nothing is rewritten, a link waits for
\* the jobs that make its inputs (the build tool's dependency order), and the
\* output is selected when every job has ended.
Finished ==
    /\ \A c \in Compile : compiler[c].pc = "done"
    /\ \A l \in Link : linker[l].pc = "done"

OrderlyLink(l) ==
    /\ \A c \in Compile : (\E i \in DOMAIN ObjectsOf[l] : ObjectsOf[l][i] = ObjectOf[c])
                              => compiler[c].pc = "done"
    /\ \A k \in Link : OutputOf[k] \in DsosOf[l] => linker[k].pc = "done"
    /\ StartLink(l)

QuietSelect == Finished /\ SelectOutput

QuietNext ==
    \/ \E c \in Compile : CompileStep(c)
    \/ \E l \in Link : OrderlyLink(l) \/ LinkStep(l)
    \/ QuietSelect
    \/ Published

\* The build tool keeps starting runnable jobs and the kernel keeps running them.
QuietSpec ==
    /\ Init
    /\ [][QuietNext]_vars
    /\ \A c \in Compile : WF_vars(CompileStep(c))
    /\ \A l \in Link : WF_vars(OrderlyLink(l) \/ LinkStep(l))
    /\ WF_vars(QuietSelect)

-----------------------------------------------------------------------------
(* Properties. *)

CompilerStates ==
    [pc : {"idle", "reserved", "parsed", "journaled", "captured", "emitting",
           "emitted", "done", "failed"},
     name : Name \cup {NoFile}, consumed : Content \cup {NoFile}]

LinkerStates ==
    [pc : {"idle", "lld", "linked", "recording", "saving", "done", "failed"},
     read : Seq(ObjectBytes), elf : OutputBytes \cup {NoFile}, next : Nat \ {0},
     matched : Nat, units : Seq(Units), unsupported : BOOLEAN]

\* Every variable holds values of its type.
TypeOK ==
    /\ input \in [Input -> Content]
    /\ object \in [Object -> ObjectBytes \cup {NoFile, Garbage}]
    /\ output \in [Output -> OutputBytes \cup {NoFile}]
    /\ archive \in Seq(ObjectBytes)
    /\ capture \in [Name -> Bitcodes \cup {NoFile, Reserved, Disturbed}]
    /\ journal \in [Name -> JournalEntries \cup {NoFile}]
    /\ linkJournal \in [Output -> LinkRecords \cup {NoFile}]
    /\ saved \subseteq ObjectBytes
    /\ saving \subseteq ObjectBytes
    /\ compiler \in [Compile -> CompilerStates]
    /\ linker \in [Link -> LinkerStates]
    /\ selection \in Seq(Units) \cup {NoFile, Refused}
    /\ members \in Seq(Units) \cup {NoFile, Refused}

\* The unit is the evidence of exactly these object bytes: they are what its
\* compiler run generated, nobody edited them, and the capture handed to
\* publication is the module that run compiled.
Faithful(unit, bytes) ==
    /\ bytes = Generated(unit.compile)
    /\ capture[unit.marker] = Bitcode(unit.compile)

\* Whatever order the jobs of the build ran in, a linked output is selected only
\* with the captures of the very objects LLD put into it, in link order
\* (selectOutput, recordNativeLink, consumedObject).
SelectionFaithful ==
    selection \notin {NoFile, Refused} =>
        LET parts == output[Selected].parts IN
        /\ Len(selection) = Len(parts)
        /\ \A i \in DOMAIN parts : Faithful(selection[i], parts[i])

\* The same for a static library: its members, every occurrence, in physical
\* order (selectArchive).
MembersFaithful ==
    members \notin {NoFile, Refused} =>
        /\ Len(members) = Len(archive)
        /\ \A i \in DOMAIN archive : Faithful(members[i], archive[i])

\* A static library is selected only while the input of every member still is what
\* its compiler consumed, however often generators rewrote it during the build:
\* the dependency digest in the journal is that of the bytes the preprocessor saw
\* (CaptureConsumer, consumedObject).
MembersFresh ==
    members \notin {NoFile, Refused} =>
        \A i \in DOMAIN members :
            input[InputOf[members[i].compile]] = compiler[members[i].compile].consumed

\* A finalized journal is immutable evidence: nothing later in the build rewrites
\* it ("an archived object's immutable journal cannot later be overwritten",
\* CaptureConsumer).
JournalImmutable ==
    [][\A n \in Name :
          (journal[n] # NoFile /\ journal[n].nativeSha # NoFile)
              => journal'[n] = journal[n]]_journal

\* A published link journal never describes a half-recorded link: whenever it
\* describes the output now at its path and reports nothing unsupported, it has
\* one unit for each object in that output, in the output's order.
LinkJournalComplete ==
    \A o \in Output :
        (/\ output[o] # NoFile
         /\ linkJournal[o] # NoFile
         /\ linkJournal[o].nativeSha = Digest(output[o])
         /\ ~linkJournal[o].unsupported)
            => /\ Len(linkJournal[o].units) = Len(output[o].parts)
               /\ \A i \in DOMAIN output[o].parts :
                     linkJournal[o].units[i].marker = output[o].parts[i].marker

\* Where no output is linked twice, a selected output needs only private DSOs
\* whose own link was recorded for the bytes at their path and found supported
\* (recordNativeLink's treatment of ET_DYN inputs).
DsosQualified ==
    selection \notin {NoFile, Refused} =>
        \A d \in output[Selected].needed :
            /\ linkJournal[d] # NoFile
            /\ linkJournal[d].nativeSha = Digest(output[d])
            /\ ~linkJournal[d].unsupported

\* An undisturbed, correctly ordered build is never refused: the evidence the
\* jobs leave, whatever their interleaving, qualifies the output in the end.
EventuallySelected == <>(selection \notin {NoFile, Refused})
=============================================================================
