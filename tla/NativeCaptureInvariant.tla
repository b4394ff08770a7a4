----------------------- MODULE NativeCaptureInvariant -----------------------
(***************************************************************************)
(* The inductive invariant behind SelectionFaithful and MembersFaithful,   *)
(* in layers: which run owns a name, where object bytes come from, what a  *)
(* journal says, and what a link has recorded so far.  Each layer uses the *)
(* ones before it.                                                         *)
(***************************************************************************)
EXTENDS NativeCapture

Journaled == {"journaled", "captured", "emitting", "emitted", "done"}

\* A run that has started owns its name alone, its capture file exists, and what
\* it consumed and its journal are there from the step that sets them.
NamesOwned ==
    \A c \in Compile :
        /\ compiler[c].pc = "idle" <=> compiler[c].name = NoFile
        /\ compiler[c].name # NoFile =>
              /\ capture[compiler[c].name] # NoFile
              /\ \A d \in Compile : compiler[d].name = compiler[c].name => d = c
        /\ compiler[c].pc \in Journaled \cup {"parsed"} => compiler[c].consumed # NoFile
        /\ compiler[c].pc \in Journaled => journal[compiler[c].name] # NoFile

\* Object bytes are what some run emitted, edited at most after that run ended.
Produced(bytes) ==
    LET c == bytes.code.compile IN
    /\ bytes.marker = compiler[c].name
    /\ bytes.code.source = compiler[c].consumed
    /\ compiler[c].pc \in {"emitted", "done", "failed"}
    /\ bytes.edited => compiler[c].pc # "emitted"

ObjectsProduced ==
    /\ \A o \in Object : IsObject(object[o]) => Produced(object[o])
    /\ \A i \in 1..Len(archive) : Produced(archive[i])
    /\ \A l \in Link : \A i \in 1..Len(linker[l].read) : Produced(linker[l].read[i])

\* A journal belongs to the run that owns its name.  The digests it binds are
\* those of the module that run compiled and of the unedited object it emitted.
EntrySound(n, entry) ==
    LET c == entry.compile IN
    /\ compiler[c].name = n
    /\ compiler[c].pc \in Journaled \cup {"failed"}
    /\ entry.dependency = Digest(compiler[c].consumed)
    /\ entry.captureSha # NoFile => entry.captureSha = Digest(Bitcode(c))
    /\ entry.nativeSha # NoFile =>
          /\ entry.nativeSha = Digest(Generated(c))
          /\ compiler[c].pc = "done"

JournalsSound == \A n \in Name : journal[n] # NoFile => EntrySound(n, journal[n])

\* A unit speaks of a finished run, and of these bytes.
UnitSound(unit, bytes) ==
    LET c == unit.compile IN
    /\ compiler[c].pc = "done"
    /\ compiler[c].name = unit.marker
    /\ unit.captureSha = Digest(Bitcode(c))
    /\ unit.nativeSha = Digest(bytes)
    /\ bytes = Generated(c)

\* Nothing is recorded before the output is observed, and LLD has read the inputs
\* in order.
LinkFresh(l) ==
    /\ linker[l].pc \in {"idle", "lld", "linked"} =>
          linker[l].next = 1 /\ linker[l].matched = 0 /\ linker[l].units = <<>>
    /\ linker[l].pc = "idle" => linker[l].read = <<>>
    /\ linker[l].pc = "lld" => Len(linker[l].read) <= Len(ObjectsOf[l])
    /\ linker[l].pc \in {"linked", "recording", "saving"} =>
          Len(linker[l].read) = Len(ObjectsOf[l])

\* Nobody else is linking l's output.
LinkAlone(l) ==
    LinkerRunning(l) =>
        \A k \in Link : (OutputOf[k] = OutputOf[l] /\ LinkerRunning(k)) => k = l

\* The bytes LLD read at an input can only have been edited further, or replaced
\* by another run's, while the link goes on.
LinkMonotone(l) ==
    LinkerRunning(l) =>
        \A i \in 1..Len(linker[l].read) :
            LET bytes == object[ObjectsOf[l][i]] IN
            (/\ linker[l].read[i].edited
             /\ IsObject(bytes)
             /\ bytes.marker = linker[l].read[i].marker) => bytes.edited

LinkWrote(l) ==
    linker[l].pc = "linked" =>
        /\ output[OutputOf[l]] # NoFile
        /\ output[OutputOf[l]].parts = linker[l].read

\* While nothing unsupported was met, there is a sound unit for each part of the
\* output that was looked at.
LinkRecorded(l) ==
    linker[l].pc \in {"recording", "saving"} =>
        /\ linker[l].elf # NoFile
        /\ linker[l].elf.parts = linker[l].read
        /\ linker[l].next <= Len(ObjectsOf[l]) + 1
        /\ ~linker[l].unsupported =>
              /\ linker[l].matched = linker[l].next - 1
              /\ Len(linker[l].units) = linker[l].matched
              /\ \A i \in 1..Len(linker[l].units) :
                    UnitSound(linker[l].units[i], linker[l].read[i])

\* What a running link has established about the output it wrote.
LinkersSound ==
    \A l \in Link : LinkFresh(l) /\ LinkAlone(l) /\ LinkMonotone(l) /\ LinkWrote(l)
                     /\ LinkRecorded(l)

\* A supported link journal has a sound unit for every part of the output whose
\* digest it carries.
RecordSound(record) ==
    LET elf == record.nativeSha.sha256 IN
    /\ Len(record.units) = Len(elf.parts)
    /\ \A i \in 1..Len(elf.parts) : UnitSound(record.units[i], elf.parts[i])

LinkJournalsSound ==
    \A o \in Output : (linkJournal[o] # NoFile /\ ~linkJournal[o].unsupported) =>
                          RecordSound(linkJournal[o])

\* The lane has stopped by the time something is selected.
SelectionLast == ~Building => Returned

\* The whole inductive invariant of the lane (ClangPlugin.cpp, Snapshot.cpp,
\* Build.cpp): evidence stays bound to the run that left it.
EvidenceSound ==
    /\ NamesOwned
    /\ ObjectsProduced
    /\ JournalsSound
    /\ LinkersSound
    /\ LinkJournalsSound
    /\ SelectionLast

\* The three promises of selection, kept from the step that selects.
Promises == SelectionFaithful /\ MembersFaithful /\ MembersFresh

-----------------------------------------------------------------------------
(* What a link needs from other links. *)

\* No output is linked twice.
LinkedOnce == \A k, l \in Link : OutputOf[k] = OutputOf[l] => k = l

\* The link that recorded an output has ended: neither the output nor its journal
\* is written again.
RecordsFinal ==
    \A o \in Output : linkJournal[o] # NoFile =>
        \A k \in Link : OutputOf[k] = o => linker[k].pc = "done"

\* A supported link journal needs only DSOs that are private now.
NeededPrivate ==
    \A o \in Output : (linkJournal[o] # NoFile /\ ~linkJournal[o].unsupported) =>
        \A d \in linkJournal[o].nativeSha.sha256.needed : PrivateDso(d)

\* What is selected is what a supported link journal describes.
SelectionRecorded == selection \notin {NoFile, Refused} => PrivateDso(Selected)

\* The inductive invariant behind DsosQualified, where no output is linked twice
\* (recordNativeLink, selectOutput).
DsosSound == RecordsFinal /\ NeededPrivate /\ SelectionRecorded
=============================================================================
