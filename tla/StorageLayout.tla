---------------------------- MODULE StorageLayout ----------------------------
(***************************************************************************)
(* Native types, their layout on the registered targets, and the pieces in *)
(* which an aggregate value crosses a native call.  AggregateABI.cpp loads *)
(* the pieces of a value from its storage and stores them back; the layout *)
(* itself is LLVM's DataLayout for the strings in Targets.cpp.             *)
(*                                                                         *)
(* Left out: the limits on depth (32) and on sizes (1 GiB), and alignment  *)
(* on memory accesses.                                                     *)
(***************************************************************************)
EXTENDS Integers, Sequences, FiniteSets, SequencesExt, FiniteSetsExt

\* A type is a record whose field k says what it is.
Integer(bits) == [k |-> "int", bits |-> bits]
Float == [k |-> "float"]
Double == [k |-> "double"]
Pointer == [k |-> "pointer"]
Void == [k |-> "void"]
FloatVector == [k |-> "vector"]     \* <2 x float>
Array(n, element) == [k |-> "array", n |-> n, e |-> element]
Record(fields) == [k |-> "record", f |-> fields, packed |-> FALSE]
Packed(fields) == [k |-> "record", f |-> fields, packed |-> TRUE]

Integral(type) == type.k \in {"int", "pointer"}

-----------------------------------------------------------------------------
(* Layout. *)

CeilDiv(n, d) == (n + d - 1) \div d
RoundUp(n, a) == CeilDiv(n, a) * a
Least(a, b) == IF a < b THEN a ELSE b

WordBytes(t) == IF t \in {"x86_64", "aarch64"} THEN 8 ELSE 4

IntegerAlign(t, bits) ==
    IF t = "i686" /\ bits \in 33 .. 64 THEN 4
    ELSE Min({a \in {1, 2, 4, 8, 16} : 8 * a >= bits})

RECURSIVE AlignOf(_, _), StoreSize(_, _)

AlignOf(t, type) ==
    CASE type.k = "int" -> IntegerAlign(t, type.bits)
      [] type.k = "float" -> 4
      [] type.k = "double" -> IF t = "i686" THEN 4 ELSE 8
      [] type.k = "pointer" -> WordBytes(t)
      [] type.k = "vector" -> 8
      [] type.k = "array" -> AlignOf(t, type.e)
      [] type.k = "record" ->
            IF type.packed THEN 1
            ELSE Max({1} \cup {AlignOf(t, type.f[i]) : i \in DOMAIN type.f})

\* What an element of an array occupies.
AllocSize(t, type) == RoundUp(StoreSize(t, type), AlignOf(t, type))

\* Where the fields of a record start, and where the last one ends.
Placed(t, record) ==
    FoldLeft(LAMBDA placed, field :
                LET start == RoundUp(placed.end,
                                     IF record.packed THEN 1 ELSE AlignOf(t, field))
                IN  [at |-> Append(placed.at, start), end |-> start + AllocSize(t, field)],
             [at |-> <<>>, end |-> 0], record.f)

StoreSize(t, type) ==
    CASE type.k = "int" -> CeilDiv(type.bits, 8)
      [] type.k = "float" -> 4
      [] type.k \in {"double", "vector"} -> 8
      [] type.k = "pointer" -> WordBytes(t)
      [] type.k = "array" -> type.n * AllocSize(t, type.e)
      [] type.k = "record" -> RoundUp(Placed(t, type).end, AlignOf(t, type))

FieldOffset(t, record, i) == Placed(t, record).at[i]

\* The scalars a type is made of, in order, with their places.
RECURSIVE Leaves(_, _, _)
Leaves(t, type, at) ==
    CASE type.k = "record" ->
            FlattenSeq([i \in DOMAIN type.f |->
                           Leaves(t, type.f[i], at + FieldOffset(t, type, i))])
      [] type.k = "array" ->
            FlattenSeq([i \in 1 .. type.n |->
                           Leaves(t, type.e, at + (i - 1) * AllocSize(t, type.e))])
      [] OTHER -> <<[type |-> type, at |-> at]>>

LeafBytes(t, type) ==
    UNION {leaf.at .. leaf.at + StoreSize(t, leaf.type) - 1 : leaf \in ToSet(Leaves(t, type, 0))}

-----------------------------------------------------------------------------
(* Pieces: [type, at], at an offset in the storage of a value. *)

RECURSIVE ValidPieceType(_)
ValidPieceType(type) ==
    CASE type.k = "int" -> type.bits = 1 \/ (type.bits <= 128 /\ type.bits % 8 = 0)
      [] type.k = "array" -> type.n \in 1 .. 64 /\ ValidPieceType(type.e)
      [] type.k = "record" ->
            Len(type.f) \in 1 .. 64 /\ \A i \in DOMAIN type.f : ValidPieceType(type.f[i])
      [] OTHER -> TRUE

\* A leaf may not reach beyond the value, but for an integer that starts in it:
\* a coercion to integers rounds the last register up.
ValidPieceExtent(t, piece, extent) ==
    \A leaf \in ToSet(Leaves(t, piece.type, piece.at)) :
        /\ leaf.at < extent
        /\ leaf.at + StoreSize(t, leaf.type) <= extent \/ leaf.type.k = "int"

PieceEnd(t, piece, extent) == Least(piece.at + StoreSize(t, piece.type), extent)

\* validateAccess: the pieces are in order, apart, and within the value.
ValidAccess(t, value) ==
    /\ value.kind # "indirect" /\ value.pieces # <<>>
    /\ AllocSize(t, value.type) = value.size
    /\ \A i \in DOMAIN value.pieces :
          /\ ValidPieceType(value.pieces[i].type)
          /\ ValidPieceExtent(t, value.pieces[i], value.size)
          /\ i > 1 => value.pieces[i].at >= PieceEnd(t, value.pieces[i - 1], value.size)

Zero == <<"zero">>  \* a byte an extension to a wider integer adds

\* The bytes of a piece, counted from its start.
LoadPiece(t, piece, storage, extent) ==
    [b \in LeafBytes(t, piece.type) |->
        IF piece.at + b < extent THEN storage[piece.at + b] ELSE Zero]

\* Mutant: every piece is stored at the start of the value.
StorePieceFirst(storage, piece, bytes) ==
    [b \in DOMAIN storage |-> IF b \in DOMAIN bytes THEN bytes[b] ELSE storage[b]]

\* Whatever of a piece lies within the value.
StorePiece(storage, piece, bytes) ==
    [b \in DOMAIN storage |->
        IF b - piece.at \in DOMAIN bytes THEN bytes[b - piece.at] ELSE storage[b]]

LoadPieces(t, value, storage) ==
    [i \in DOMAIN value.pieces |-> LoadPiece(t, value.pieces[i], storage, value.size)]

StorePieces(value, storage, loaded) ==
    FoldLeft(LAMBDA kept, i : StorePiece(kept, value.pieces[i], loaded[i]),
             storage, [i \in DOMAIN value.pieces |-> i])

=============================================================================
