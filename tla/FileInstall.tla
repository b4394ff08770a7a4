---------------------------- MODULE FileInstall ----------------------------
(***************************************************************************)
(* How an artifact gets to its path and how it is read back (Support.cpp). *)
(* Publishers (sela-build; sela-ld and selac install their output the same *)
(* way) first read and validate the artifact that is there (BuildMain.cpp, *)
(* Artifact.cpp readPackage), build a new one in a private directory and   *)
(* install it with replaceFile: a temporary beside the output, a copy, a   *)
(* rename.  Consumers read the path at any time with read(): open, fstat,  *)
(* a loop of bounded reads, a probe for more bytes, fstat again.  Any      *)
(* process may die between two steps.                                      *)
(*                                                                         *)
(* A file is an inode holding a sequence of chunks; a package of version v *)
(* is the chunks <<v, 1>> ... <<v, Size[v]>>, and validatePackage accepts  *)
(* only a whole package, because the manifest holds every digest.          *)
(* The loss of power is not modelled: the code does not call fsync.        *)
(***************************************************************************)
EXTENDS Naturals, Sequences

CONSTANTS
    Publisher,   \* processes that install an artifact
    Consumer,    \* processes that only read it
    Version,     \* package versions
    VersionOf,   \* [Publisher -> Version]: what a publisher installs
    Size,        \* [Version -> Nat]: chunks of a package
    Limit,       \* the size read() admits
    Previous,    \* the inode of the artifact that was there before
    OldVersion,  \* its version
    NoInode      \* no file

Inode == Publisher \cup {Previous}
Process == Publisher \cup Consumer

ASSUME InstallAssumption ==
    /\ VersionOf \in [Publisher -> Version]
    /\ Size \in [Version -> Nat]
    /\ OldVersion \in Version
    /\ Limit \in Nat
    /\ \A v \in Version : Size[v] <= Limit
    /\ Publisher \cap Consumer = {}
    /\ Previous \notin Publisher
    /\ NoInode \notin Inode

VARIABLES
    output,     \* the inode the artifact path names
    temporary,  \* the publishers whose .sela-output-XXXXXX exists
    data,       \* [Inode -> Seq(chunk)]: each publisher creates one inode
    pc,         \* [Process -> step]
    fd,         \* [Process -> inode opened for reading]
    size,       \* [Process -> st_size before reading]
    bytes       \* [Process -> chunks read so far]

vars == <<output, temporary, data, pc, fd, size, bytes>>
files == <<output, temporary, data>>
reading == <<fd, size, bytes>>

Chunks == Version \X Nat
Package(v) == [k \in 1 .. Size[v] |-> <<v, k>>]
VersionIn(i) == IF i = Previous THEN OldVersion ELSE VersionOf[i]

Reading == {"open", "stat", "read", "end", "restat", "validate"}
Installing == {"inspect", "create", "copy", "rename", "remove"}
Final == {"installed", "accepted", "refused", "failed", "crashed"}

Goto(p, step) == pc' = [pc EXCEPT ![p] = step]

Init ==
    /\ output \in {NoInode, Previous}
    /\ temporary = {}
    /\ data = [i \in Inode |-> IF i = Previous THEN Package(OldVersion) ELSE <<>>]
    /\ pc = [p \in Process |-> "open"]
    /\ fd = [p \in Process |-> NoInode]
    /\ size = [p \in Process |-> 0]
    /\ bytes = [p \in Process |-> <<>>]

-----------------------------------------------------------------------------
(* read() and readPackage: what every process does first *)

\* A publisher needs no previous artifact.
Open(p) ==
    /\ pc[p] = "open"
    /\ fd' = [fd EXCEPT ![p] = output]
    /\ Goto(p, IF output # NoInode THEN "stat"
               ELSE IF p \in Publisher THEN "inspect" ELSE "refused")
    /\ UNCHANGED <<files, size, bytes>>

Stat(p) ==
    /\ pc[p] = "stat"
    /\ size' = [size EXCEPT ![p] = Len(data[fd[p]])]
    /\ Goto(p, IF Len(data[fd[p]]) > Limit THEN "refused" ELSE "read")
    /\ UNCHANGED <<files, fd, bytes>>

\* One turn of the loop; the end of the file before the size is a truncation.
ReadChunk(p) ==
    /\ pc[p] = "read"
    /\ LET offset == Len(bytes[p])
       IN  IF offset = size[p] THEN Goto(p, "end") /\ UNCHANGED bytes
           ELSE IF offset >= Len(data[fd[p]])
           THEN Goto(p, "refused") /\ UNCHANGED bytes
           ELSE /\ bytes' = [bytes EXCEPT ![p] = Append(@, data[fd[p]][offset + 1])]
                /\ UNCHANGED pc
    /\ UNCHANGED <<files, fd, size>>

\* The probe for one more byte, and the second fstat.
ProbeEnd(p) ==
    /\ pc[p] = "end"
    /\ Goto(p, IF Len(data[fd[p]]) > size[p] THEN "refused" ELSE "restat")
    /\ UNCHANGED <<files, reading>>

Restat(p) ==
    /\ pc[p] = "restat"
    /\ Goto(p, IF Len(data[fd[p]]) # size[p] THEN "refused" ELSE "validate")
    /\ UNCHANGED <<files, reading>>

\* validatePackage; a publisher goes on to build and replace the artifact.
Validate(p) ==
    /\ pc[p] = "validate"
    /\ Goto(p, IF \A v \in Version : bytes[p] # Package(v) THEN "refused"
               ELSE IF p \in Publisher THEN "inspect" ELSE "accepted")
    /\ UNCHANGED <<files, reading>>

-----------------------------------------------------------------------------
(* replaceFile *)

\* symlink_status: this path is only ever a regular file or absent.
Inspect(p) ==
    /\ pc[p] = "inspect"
    /\ Goto(p, "create")
    /\ UNCHANGED <<files, reading>>

\* An output that would be opened under its own name.
CreateAtOutput(p) ==
    /\ pc[p] = "create"
    /\ output' = p /\ Goto(p, "copy")
    /\ UNCHANGED <<temporary, data, reading>>

\* mkstemp, or no space for it.
Create(p) ==
    /\ pc[p] = "create"
    /\ \/ temporary' = temporary \cup {p} /\ Goto(p, "copy")
       \/ UNCHANGED temporary /\ Goto(p, "failed")
    /\ UNCHANGED <<output, data, reading>>

\* copy_file writes a chunk, or fails.
Copy(p) ==
    /\ pc[p] = "copy"
    /\ \/ /\ Len(data[p]) < Size[VersionOf[p]]
          /\ data' = [data EXCEPT ![p] = Append(@, <<VersionOf[p], Len(@) + 1>>)]
          /\ UNCHANGED pc
       \/ /\ Len(data[p]) = Size[VersionOf[p]]
          /\ Goto(p, "rename") /\ UNCHANGED data
       \/ Goto(p, "remove") /\ UNCHANGED data
    /\ UNCHANGED <<output, temporary, reading>>

\* An install that would copy the new bytes into the file that is there.
RenameInto(p) ==
    /\ pc[p] = "rename"
    /\ IF output = NoInode THEN output' = p /\ UNCHANGED data
       ELSE data' = [data EXCEPT ![output] = data[p]] /\ UNCHANGED output
    /\ temporary' = temporary \ {p}
    /\ Goto(p, "installed")
    /\ UNCHANGED reading

\* chmod and rename; the file that was there lives on for those who opened it.
Rename(p) ==
    /\ pc[p] = "rename"
    /\ \/ output' = p /\ temporary' = temporary \ {p} /\ Goto(p, "installed")
       \/ UNCHANGED <<output, temporary>> /\ Goto(p, "remove")
    /\ UNCHANGED <<data, reading>>

\* The error path; an error of the removal is ignored.
Remove(p) ==
    /\ pc[p] = "remove"
    /\ temporary' \in {temporary, temporary \ {p}}
    /\ Goto(p, "failed")
    /\ UNCHANGED <<output, data, reading>>

-----------------------------------------------------------------------------

\* The process dies; its temporary stays behind.
Crash(p) ==
    /\ pc[p] \notin Final
    /\ Goto(p, "crashed")
    /\ UNCHANGED <<files, reading>>

ReadStep(p) ==
    Open(p) \/ Stat(p) \/ ReadChunk(p) \/ ProbeEnd(p) \/ Restat(p) \/ Validate(p)

InstallStep(p) == Inspect(p) \/ Create(p) \/ Copy(p) \/ Rename(p) \/ Remove(p)

\* All processes are gone.
Over == (\A p \in Process : pc[p] \in Final) /\ UNCHANGED vars

Next ==
    \/ \E p \in Process : ReadStep(p) \/ Crash(p)
    \/ \E p \in Publisher : InstallStep(p)
    \/ Over

Spec == Init /\ [][Next]_vars

-----------------------------------------------------------------------------

TypeOK ==
    /\ output \in Inode \cup {NoInode}
    /\ temporary \in SUBSET Publisher
    /\ data \in [Inode -> Seq(Chunks)]
    /\ pc \in [Process -> Reading \cup Installing \cup Final]
    /\ fd \in [Process -> Inode \cup {NoInode}]
    /\ size \in [Process -> Nat]
    /\ bytes \in [Process -> Seq(Chunks)]

\* replaceFile is all or nothing: whenever any process looks, the artifact path
\* is absent or names one whole package, whoever failed or died half way.
OutputWhole == output # NoInode => \E v \in Version : data[output] = Package(v)

\* Installing never disturbs a reader: read() refuses only when there was no
\* artifact to open, and a consumer that accepts holds exactly the package that
\* the path named when it opened it, whatever was installed since.
ReadersUndisturbed ==
    \A p \in Process :
        /\ pc[p] = "refused" => fd[p] = NoInode
        /\ pc[p] = "accepted" => bytes[p] = Package(VersionIn(fd[p]))

-----------------------------------------------------------------------------
(***************************************************************************)
(* The inductive invariant.  An inode under construction holds a prefix of *)
(* its package and is named by nobody but its publisher; once renamed it   *)
(* is complete and never written again, so what a reader has seen of it is *)
(* a prefix of what it will see.                                           *)
(***************************************************************************)
InstallOrder ==
    \A p \in Publisher :
        /\ Len(data[p]) <= Size[VersionOf[p]]
        /\ \A k \in 1 .. Len(data[p]) : data[p][k] = <<VersionOf[p], k>>
        /\ pc[p] \in {"rename", "installed"} => Len(data[p]) = Size[VersionOf[p]]

Published(i) == i = Previous \/ (i \in Publisher /\ pc[i] = "installed")

NamesPublished ==
    /\ output # NoInode => Published(output)
    /\ data[Previous] = Package(OldVersion)
    /\ \A p \in Process : fd[p] # NoInode => Published(fd[p])

ReadersSound ==
    \A p \in Process :
        /\ pc[p] = "open" => bytes[p] = <<>>
        /\ pc[p] = "refused" => fd[p] = NoInode
        /\ pc[p] \in (Reading \cup {"accepted"}) \ {"open"} => fd[p] # NoInode
        /\ pc[p] = "stat" => bytes[p] = <<>>
        /\ pc[p] \in {"read", "end", "restat", "validate"} =>
              size[p] = Len(data[fd[p]])
        /\ pc[p] = "read" =>
              /\ Len(bytes[p]) <= Len(data[fd[p]])
              /\ \A k \in 1 .. Len(bytes[p]) : bytes[p][k] = data[fd[p]][k]
        /\ pc[p] \in {"end", "restat", "validate", "accepted"} =>
              bytes[p] = data[fd[p]]

InstallSound == InstallOrder /\ NamesPublished /\ ReadersSound

=============================================================================
