----------------------- MODULE RetainedBuildInvariant -----------------------
(***************************************************************************)
(* The inductive invariant behind RelinkFaithful, RetainedFaithful and     *)
(* RetainedAgrees.  A lane nobody touched is as sound as its build left    *)
(* it; of a touched one only what selectRetainedBuild relies on survives:  *)
(* the compile journals, and what the digest in a supported link journal   *)
(* says of the objects that were linked.                                   *)
(***************************************************************************)
EXTENDS RetainedBuild, NativeCaptureInvariant

\* A run that has bound a digest into its journal finds it there.
JournalsBound ==
    \A c \in Compile :
        /\ compiler[c].pc \in {"captured", "emitting", "emitted", "done"} =>
              journal[compiler[c].name].captureSha # NoFile
        /\ compiler[c].pc = "done" => journal[compiler[c].name].nativeSha # NoFile

\* No journal is named twice in the witness of an output.
Unambiguous(elf) ==
    \A i, j \in 1..Len(elf.parts) : elf.parts[i].marker = elf.parts[j].marker => i = j

WitnessesUnambiguous ==
    /\ \A l \in Link :
          (linker[l].pc \in {"recording", "saving"} /\ ~linker[l].unsupported) =>
              Unambiguous(linker[l].elf)
    /\ \A o \in Output :
          (linkJournal[o] # NoFile /\ ~linkJournal[o].unsupported) =>
              Unambiguous(linkJournal[o].nativeSha.sha256)

\* The evidence of a lane nobody has touched.
LaneSound == TypeOK /\ EvidenceSound /\ JournalsBound /\ WitnessesUnambiguous

MembersConsumed == \A i \in DOMAIN archive : ConsumedObject(archive[i])

\* What the build's own selection answered would be answered again.
AnswersStand ==
    /\ selection # NoFile =>
          selection = IF Qualified THEN linkJournal[Selected].units ELSE Refused
    /\ members # NoFile =>
          /\ members = IF MembersConsumed THEN [i \in DOMAIN archive |-> UnitOf(archive[i])]
                       ELSE Refused
          /\ members # Refused => \A i \in DOMAIN archive : archive[i] \in saved \cup saving

\* A record whose units another recorder may have written.
LooseUnits == [marker : Name, compile : Compile,
               captureSha : {NoFile} \cup DigestOf(Bitcodes),
               nativeSha : DigestOf(ObjectBytes)]
LooseRecords == [nativeSha : DigestOf(OutputBytes), units : Seq(LooseUnits),
                 libraries : SUBSET Output, unsupported : BOOLEAN]

\* Every object in these bytes is the one a finished run generated.
PartsGenerated(elf) ==
    \A i \in 1..Len(elf.parts) :
        \E c \in Compile :
            /\ compiler[c].pc = "done"
            /\ compiler[c].name = elf.parts[i].marker
            /\ elf.parts[i] = Generated(c)

\* What nobody can take from a kept lane.
KeptSound ==
    /\ output \in [Output -> OutputBytes \cup {NoFile}]
    /\ archive \in Seq(ObjectBytes)
    /\ journal \in [Name -> JournalEntries \cup {NoFile}]
    /\ linkJournal \in [Output -> LooseRecords \cup {NoFile}]
    /\ saved \subseteq ObjectBytes
    /\ compiler \in [Compile -> CompilerStates]
    /\ \A c, d \in Compile :
          (compiler[c].name # NoFile /\ compiler[c].name = compiler[d].name) => c = d
    /\ JournalsSound
    /\ \A o \in Output : (linkJournal[o] # NoFile /\ ~linkJournal[o].unsupported) =>
                             PartsGenerated(linkJournal[o].nativeSha.sha256)

\* The whole inductive invariant of a retained lane (selectRetainedBuild,
\* selectOutput, selectArchive and consumedObject with retained set).
RetainedSound ==
    /\ touched \in Nat
    /\ ~kept => touched = 0 /\ retained = NoFile /\ Promises
    /\ touched = 0 => LaneSound /\ AnswersStand
    /\ KeptSound
    /\ RetainedFaithful
    /\ RetainedAgrees
=============================================================================
