----------------------------- MODULE Partitions -----------------------------
(***************************************************************************)
(* mergeProfilePartitions (Partitions.cpp).  Targets whose native units    *)
(* split the same definitions differently are published as common          *)
(* fragments, and each target's plan says which fragments rebuild each of  *)
(* its units.  Inputs are the targets in registry order and, for each, its *)
(* sequence of native units [capture, definitions]; definitions is the     *)
(* physical order of the definitions in the capture.                       *)
(*                                                                         *)
(* A fragment is a function from its targets to the piece of a capture it  *)
(* holds, as the strict importer (mergeProfiles) has to reproduce it.      *)
(***************************************************************************)
EXTENDS Naturals, Sequences, FiniteSets, SequencesExt

CONSTANT Exported  \* the definitions with external linkage; others are local

\* The elements of s at the positions in K, in their order.
Picked(s, K) ==
    FlattenSeq([i \in DOMAIN s |-> IF i \in K THEN <<s[i]>> ELSE <<>>])

\* The first occurrences of the elements of s.
Distinct(s) == Picked(s, {i \in DOMAIN s : \A j \in 1 .. i - 1 : s[j] # s[i]})

ExportedOf(unit) ==
    Picked(unit.definitions,
           {i \in DOMAIN unit.definitions : unit.definitions[i] \in Exported})

\* The external definitions of a target, unit after unit.
Symbols(units) == FlattenSeq([i \in DOMAIN units |-> ExportedOf(units[i])])

\* load: every unit has an external definition and each has one owner.
Loads(units) ==
    /\ \A i \in DOMAIN units : ExportedOf(units[i]) # <<>>
    /\ Len(Symbols(units)) = Cardinality(ToSet(Symbols(units)))

\* For each target, the unit that owns definition d.
Owners(paths, d) ==
    [t \in DOMAIN paths |->
        CHOOSE i \in DOMAIN paths[t] : Contains(ExportedOf(paths[t][i]), d)]

\* One fragment for each combination of owners, in the first target's order.
FragmentOwners(order, paths) ==
    LET symbols == Symbols(paths[order[1]])
    IN  Distinct([k \in DOMAIN symbols |-> Owners(paths, symbols[k])])

\* unitsByTarget: the fragments of a unit, in the unit's own physical order.
UnitFragments(order, paths, unit) ==
    LET fragments == FragmentOwners(order, paths)
        defined == ExportedOf(unit)
    IN  Distinct([k \in DOMAIN defined |->
            SelectInSeq(fragments, LAMBDA f : f = Owners(paths, defined[k]))])

\* slice: the definitions of a unit that belong to fragment f.
Slice(order, paths, unit, f) ==
    SelectSeq(unit.definitions,
              LAMBDA d : Owners(paths, d) = FragmentOwners(order, paths)[f])

\* The test of a split as it would be if it compared inventories only.
SplitInventory(order, paths, unit) ==
    \/ Len(UnitFragments(order, paths, unit)) = 1
    \/ ToSet(unit.definitions) \subseteq Exported

\* qualifySplit and provePartition: a unit that is split has only external
\* definitions, and its slices joined in plan order are the unit again.
SplitProved(order, paths, unit) ==
    LET fragments == UnitFragments(order, paths, unit)
    IN  \/ Len(fragments) = 1
        \/ /\ ToSet(unit.definitions) \subseteq Exported
           /\ FlattenSeq([k \in DOMAIN fragments |->
                             Slice(order, paths, unit, fragments[k])])
                = unit.definitions

Provable(order, paths) ==
    /\ \A t \in DOMAIN paths : Loads(paths[t])
    /\ \A t \in DOMAIN paths :
          ToSet(Symbols(paths[t])) = ToSet(Symbols(paths[order[1]]))
    /\ \A t \in DOMAIN paths : \A i \in DOMAIN paths[t] :
          SplitProved(order, paths, paths[t][i])

Piece(unit, definitions) == [capture |-> unit.capture, definitions |-> definitions]

\* mergeProvedPartitions: a unit of one fragment is passed on whole.
ProvedPartition(order, paths) ==
    LET fragments == FragmentOwners(order, paths)
        Whole(unit) == Len(UnitFragments(order, paths, unit)) = 1
    IN  [fragments |-> [f \in DOMAIN fragments |-> [t \in DOMAIN paths |->
            LET unit == paths[t][fragments[f][t]]
            IN  Piece(unit, IF Whole(unit) THEN unit.definitions
                            ELSE Slice(order, paths, unit, f))]],
         units |-> [t \in DOMAIN paths |-> [i \in DOMAIN paths[t] |->
            UnitFragments(order, paths, paths[t][i])]]]

\* Puts a unit with the first group of the same definitions that has no unit of
\* its target yet.
PlaceCapture(partition, t, unit) ==
    LET found == SelectInSeq(partition.groups,
                     LAMBDA g : g.key = ToSet(unit.definitions) /\ t \notin DOMAIN g.captures)
        index == IF found = 0 THEN Len(partition.groups) + 1 ELSE found
        captures == IF found = 0 THEN <<>> ELSE partition.groups[found].captures
    IN  [groups |-> [g \in 1 .. (IF found = 0 THEN index ELSE Len(partition.groups)) |->
            IF g # index THEN partition.groups[g]
            ELSE [key |-> ToSet(unit.definitions),
                  captures |-> [u \in DOMAIN captures \cup {t} |->
                      IF u = t THEN Piece(unit, unit.definitions) ELSE captures[u]]]],
         units |-> [partition.units EXCEPT ![t] = Append(@, <<index>>)]]

\* The same for all units of a target.
PlaceCaptures(partition, t, units) ==
    LET placed[j \in 0 .. Len(units)] ==
            IF j = 0 THEN partition ELSE PlaceCapture(placed[j - 1], t, units[j])
    IN  placed[Len(units)]

\* The fallback: native units stay whole, grouped across targets by inventory.
ScopedPartition(order, paths) ==
    LET placed[i \in 0 .. Len(order)] ==
            IF i = 0 THEN [groups |-> <<>>, units |-> [t \in DOMAIN paths |-> <<>>]]
            ELSE PlaceCaptures(placed[i - 1], order[i], paths[order[i]])
        all == placed[Len(order)]
    IN  [fragments |-> [g \in DOMAIN all.groups |-> all.groups[g].captures],
         units |-> all.units]

\* The partitions a group may be published as.  A split can also fail for what
\* the model leaves out (types, globals, inline assembly): then it is refused.
MergeProfilePartitions(order, paths) ==
    {ScopedPartition(order, paths)}
      \cup (IF Provable(order, paths) THEN {ProvedPartition(order, paths)} ELSE {})

=============================================================================
