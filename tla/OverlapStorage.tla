--------------------------- MODULE OverlapStorage ---------------------------
(***************************************************************************)
(* Unions.  Clang gives a union the LLVM type { carrier }, and the debug   *)
(* information lists its members; discoverNativeOverlaps accepts the list  *)
(* as what the storage means only if it explains the carrier               *)
(* (OverlapEvidence.cpp), and the device chooses the carrier again from    *)
(* the list (OverlapLayout.cpp).                                           *)
(*                                                                         *)
(* Evidence is a set of [tag, members]: the struct a debug record is for,  *)
(* and the union's members [name, type, bits, offset].  Left out: members  *)
(* that are no scalars (refused as such), bit-fields, written alignments.  *)
(***************************************************************************)
EXTENDS SelaTypes

CONSTANT WideAlign  \* the ABI alignment of an i64, in bytes, for each target

ASSUME WideAlignAssumption == WideAlign \in [Qualified -> {4, 8}]

Bits(type, t) == IF type.k = "ptr" THEN WordBits[t] ELSE type.bits
Align(type, t) == IF Bits(type, t) = 64 /\ type.k # "ptr" THEN WideAlign[t]
                  ELSE Bits(type, t) \div 8

\* selectOverlapCarrier: the first of the greatest alignment, and among those
\* of the greatest size; it must be as large as every other.
SelectCarrier(alternatives, t) ==
    LET Better(c, type) ==
            IF \/ c = {}
               \/ \E b \in c : \/ Align(type, t) > Align(b, t)
                               \/ (Align(type, t) = Align(b, t) /\ Bits(type, t) > Bits(b, t))
            THEN {type} ELSE c
        carrier == FoldLeft(Better, {}, alternatives)
        Scalar(type) == type.k = "ptr" \/ (type.k = "int" /\ type.bits \in {8, 16, 32, 64})
    IN  IF Len(alternatives) \notin 1 .. 64 \/ ~(\A i \in DOMAIN alternatives : Scalar(alternatives[i]))
        THEN {}
        ELSE {c \in carrier : \A i \in DOMAIN alternatives : Bits(alternatives[i], t) <= Bits(c, t)}

\* prove: the members of one union explain the storage they are recorded for.
Proved(storage, members, t) ==
    /\ storage.k = "record" /\ ~storage.packed /\ Len(storage.members) = 1
    /\ Len(members) \in 1 .. 64
    /\ \A i \in DOMAIN members : members[i].offset = 0 /\ members[i].bits = Bits(members[i].type, t)
    /\ \A i, j \in DOMAIN members : i # j => members[i].name # members[j].name
    /\ SelectCarrier([i \in DOMAIN members |-> members[i].type], t) = {storage.members[1]}

\* discoverNativeOverlaps: every record of evidence is proved, and two for one
\* struct agree.  The result gives each union its alternatives.
Discover(storage, evidence, t) ==
    LET tags == {e.tag : e \in evidence}
        Of(tag) == CHOOSE s \in storage : s.identity = tag
        Alternatives(tag) ==
            {[i \in DOMAIN e.members |-> e.members[i].type] : e \in {e \in evidence : e.tag = tag}}
    IN  IF /\ \A e \in evidence : Proved(Of(e.tag), e.members, t)
           /\ \A d, e \in evidence : d.tag = e.tag => d.members = e.members
        THEN {[tag \in tags |-> CHOOSE a \in Alternatives(tag) : TRUE]}
        ELSE {}
=============================================================================
