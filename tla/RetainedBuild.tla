--------------------------- MODULE RetainedBuild ---------------------------
(***************************************************************************)
(* A lane of NativeCapture that outlives its sela-build: publication       *)
(* failed, or the process died, and selectRetainedBuild takes the captures *)
(* out of what was left.  In between, anything may have happened to the    *)
(* files: a snapshot is lost, a capture or an input is rewritten, the      *)
(* output is stripped, or the link journal comes from a recorder that did  *)
(* not compare it with the output.  Nothing may be repaired on the way.    *)
(***************************************************************************)
EXTENDS NativeCapture, FiniteSets, SequencesExt

CONSTANT MaxTouches   \* bound on what happens to the files of a kept lane
ASSUME MaxTouchesAssumption == MaxTouches \in Nat

\* An answer that accepts is told from no answer.
ASSUME AnswerAssumption == NoFile \notin [of : {"linked", "archive"}, units : Seq(Units)]

VARIABLES
    kept,      \* no build runs in the lane any more
    touched,   \* how often its files were changed since
    retained   \* NoFile, or what selectRetainedBuild answered for which output
allVars == <<vars, kept, touched, retained>>

RetainedInit == Init /\ kept = FALSE /\ touched = 0 /\ retained = NoFile

\* The build itself, and its own selection.
Build ==
    /\ ~kept
    /\ \/ \E c \in Compile : CompileStep(c)
       \/ \E l \in Link : StartLink(l) \/ LinkStep(l)
       \/ Failure
       \/ Project
       \/ SelectOutput
       \/ SelectArchive
    /\ UNCHANGED <<kept, touched, retained>>

\* sela-build has answered, or died with the jobs it had started.
Keep ==
    /\ ~kept
    /\ Returned
    /\ kept' = TRUE
    /\ UNCHANGED <<vars, touched, retained>>

-----------------------------------------------------------------------------
(* What happens to the files of a kept lane. *)

Touch ==
    /\ kept
    /\ retained = NoFile
    /\ touched < MaxTouches
    /\ touched' = touched + 1
    /\ UNCHANGED <<journal, saving, compiler, linker, selection, members, kept, retained>>

\* <digest>.native.o is removed, or holds other bytes.
LoseSnapshot ==
    /\ \E bytes \in saved : saved' = saved \ {bytes}
    /\ Touch
    /\ UNCHANGED <<files, capture, linkJournal>>

\* A capture is removed, or holds other bytes.
LoseCapture ==
    /\ \E n \in Name :
          /\ capture[n] \notin {NoFile, Reserved, Disturbed}
          /\ capture' = [capture EXCEPT ![n] = Disturbed]
    /\ Touch
    /\ UNCHANGED <<files, saved, linkJournal>>

\* A source or generated header is not what any compiler has read.
RewriteInput ==
    /\ \E f \in Input : input[f] # Disturbed /\ input' = [input EXCEPT ![f] = Disturbed]
    /\ Touch
    /\ UNCHANGED <<object, output, archive, capture, saved, linkJournal>>

\* objcopy or strip on the selected file: same markers, other bytes.
EditSelected ==
    /\ \/ /\ output[Selected] # NoFile
          /\ output[Selected].parts # <<>>
          /\ output' = [output EXCEPT ![Selected].parts[1].edited = TRUE]
          /\ UNCHANGED archive
       \/ /\ archive # <<>>
          /\ archive' = [archive EXCEPT ![1].edited = TRUE]
          /\ UNCHANGED output
    /\ Touch
    /\ UNCHANGED <<input, object, capture, saved, linkJournal>>

\* The units another recorder may have written: each names a capture and an object
\* that some run left, not necessarily the same run.
OtherUnits ==
    {[marker |-> bytes.marker, compile |-> journal[bytes.marker].compile,
      captureSha |-> journal[bytes.marker].captureSha, nativeSha |-> Digest(native)] :
        bytes \in {b \in saved : journal[b.marker] # NoFile}, native \in saved}

RewriteRecord ==
    /\ linkJournal[Selected] # NoFile
    /\ \E units \in {<<>>} \cup SeqOf(OtherUnits, Len(linkJournal[Selected].units)) :
          /\ units # linkJournal[Selected].units
          /\ linkJournal' = [linkJournal EXCEPT ![Selected].units = units]
    /\ Touch
    /\ UNCHANGED <<files, capture, saved>>

-----------------------------------------------------------------------------
(* selectRetainedBuild in one lane. *)

\* Mutant: a missing snapshot is written again, as the ordinary selection does.
ConsumedRepaired(bytes) == ConsumedObject(bytes)

\* consumedObject with retained set: the snapshot must be there already.
ConsumedRetained(bytes) == ConsumedObject(bytes) /\ bytes \in saved

\* Mutant: the position in the witness is never advanced.
FirstPosition(i) == 1

\* retainedPosition++ for each unit.
Position(i) == i

\* Mutant: the digests of the unit are each right, so the unit is.
DigestsAgree(unit, witness, i) ==
    /\ Digest(capture[unit.marker]) = unit.captureSha
    /\ \E bytes \in saved :
          /\ Digest(bytes) = unit.nativeSha
          /\ bytes.marker = witness[Position(i)]
          /\ ConsumedRetained(bytes)

\* One unit of the link journal against the capture and the snapshot it names, the
\* output's witness and the immutable journal of the compiler run.
RetainedUnit(unit, witness, i) ==
    /\ Digest(capture[unit.marker]) = unit.captureSha
    /\ \E bytes \in saved :
          /\ Digest(bytes) = unit.nativeSha
          /\ bytes.marker = witness[Position(i)]
          /\ ConsumedRetained(bytes)
          /\ UnitOf(bytes) = unit

\* selectOutput with retained set.
RetainedQualified ==
    LET record == linkJournal[Selected]
        witness == Witness(output[Selected])
    IN
    /\ output[Selected] # NoFile
    /\ record # NoFile
    /\ Digest(output[Selected]) = record.nativeSha
    /\ ~record.unsupported
    /\ Len(witness) = Len(record.units)
    /\ IsInjective(witness)
    /\ \A i \in DOMAIN record.units : RetainedUnit(record.units[i], witness, i)
    /\ record.units # <<>>

Answer(kind, accepted, units) ==
    /\ kept
    /\ retained = NoFile
    /\ retained' = [of |-> kind, units |-> IF accepted THEN units ELSE Refused]
    /\ UNCHANGED <<vars, kept, touched>>

SelectRetainedOutput ==
    Answer("linked", RetainedQualified, linkJournal[Selected].units)

\* selectArchive with retained set; a refused member ends it and nothing is saved.
SelectRetainedArchive ==
    LET consumed == \A i \in DOMAIN archive : ConsumedRetained(archive[i]) IN
    Answer("archive", consumed, [i \in DOMAIN archive |-> UnitOf(archive[i])])

\* Publication goes on, or the user is told what is missing.
RetainedDone ==
    /\ retained # NoFile
    /\ UNCHANGED allVars

RetainedNext ==
    \/ Build \/ Keep
    \/ LoseSnapshot \/ LoseCapture \/ RewriteInput \/ EditSelected \/ RewriteRecord
    \/ SelectRetainedOutput \/ SelectRetainedArchive \/ RetainedDone

RetainedSpec == RetainedInit /\ [][RetainedNext]_allVars

-----------------------------------------------------------------------------
(* Properties. *)

Accepted == retained # NoFile /\ retained.units # Refused
PartsOf(kind) == IF kind = "linked" THEN output[Selected].parts ELSE archive

\* Whatever was lost or rewritten since the build, and whoever wrote the link
\* journal, a retained output is requalified only with the captures of the very
\* objects in it, in its order, each with its snapshot still whole ("requalification
\* ... must never repair a missing object snapshot or silently create evidence",
\* consumedObject; selectOutput's witness checks).
RetainedFaithful ==
    Accepted =>
        LET parts == PartsOf(retained.of) IN
        /\ Len(retained.units) = Len(parts)
        /\ \A i \in DOMAIN parts :
              Faithful(retained.units[i], parts[i]) /\ parts[i] \in saved

\* While the lane is still being built, its own selection is as SelectionFaithful
\* says, also when one output is linked twice and the journal of the one link meets
\* the bytes of the other (selectOutput's comparison of the output's digest).
RelinkFaithful == ~kept => SelectionFaithful

\* What the build's own selection answered for that kind of output.
Answered(kind) == IF kind = "linked" THEN selection ELSE members

\* In an untouched lane the two selections agree.  A retained answer is the one the
\* build gave, never more; and what the build selected is selected again if the
\* inputs still are what the compilers read and no link died inside a snapshot: only
\* then is it right to refuse (selectOutput, selectArchive and consumedObject with
\* and without retained).
RetainedAgrees ==
    (/\ retained # NoFile
     /\ touched = 0
     /\ Answered(retained.of) # NoFile) =>
        LET units == Answered(retained.of)
            fresh == \A i \in DOMAIN units :
                        input[InputOf[units[i].compile]] = compiler[units[i].compile].consumed
        IN
        /\ Accepted => retained.units = units
        /\ (units # Refused /\ saving = {} /\ fresh) => Accepted
=============================================================================
