------------------------------ MODULE NativeABI ------------------------------
(***************************************************************************)
(* How each registered target passes a logical signature: which values go  *)
(* indirectly, and the pieces of those that go directly.                   *)
(*                                                                         *)
(* There are three independent classifiers.  NativeAggregateABI.cpp takes  *)
(* ordered records, NativeAggregateLayoutABI.cpp semantic layouts, both    *)
(* for x86_64 and i686; NativeARMABI.cpp takes semantic layouts for armv7  *)
(* and aarch64, and derives them for ordered records.                      *)
(*                                                                         *)
(* A semantic layout describes a record independently of the LLVM type     *)
(* that carries it: its kind ("ordered" or "union"), size, alignment and   *)
(* fields [type, at, width, padding], at in bits; width is Whole unless    *)
(* the field is a bit-field.  layouts maps record types to descriptions.   *)
(***************************************************************************)
EXTENDS StorageLayout

Whole == -1
Field(type, at) == [type |-> type, at |-> at, width |-> Whole, padding |-> FALSE]
Bits(type, at, width) == [type |-> type, at |-> at, width |-> width, padding |-> FALSE]
Padding(type, at, width) == [type |-> type, at |-> at, width |-> width, padding |-> TRUE]

X86 == {"x86_64", "i686"}

FieldScalar(type) ==
    type.k \in {"float", "double", "pointer"} \/ (type.k = "int" /\ type.bits \in {8, 16, 32, 64})
Scalar(t, type) ==
    FieldScalar(type) \/ type = Integer(1) \/ (t = "aarch64" /\ type = Integer(128))

\* A NativeABIValue.  Only Indirect values have byVal or sRet.
Refused == [kind |-> "refused"]
Value(kind, type, size, pieces) ==
    [kind |-> kind, type |-> type, size |-> size, pieces |-> pieces,
     byVal |-> FALSE, sRet |-> FALSE]
Piece(type, at) == [type |-> type, at |-> at]
Coerced(type, size, piece) == Value("coerce", type, size, <<Piece(piece, 0)>>)
Indirect(type, size, returns, byVal) ==
    [Value("indirect", type, size, <<>>) EXCEPT !.byVal = byVal /\ ~ returns, !.sRet = returns]

ScalarValue(t, type) ==
    IF type = Void THEN Value("direct", type, 0, <<>>)
    ELSE Value("direct", type, AllocSize(t, type), <<Piece(type, 0)>>)

Expanded(type, size, pieces) ==
    Value(IF Len(pieces) = 1 THEN "coerce" ELSE "expand", type, size, pieces)

-----------------------------------------------------------------------------
(* x86: ordered records. *)

RECURSIVE Qualified(_, _)
Qualified(type, records) ==
    CASE type.k = "record" ->
            /\ type \in records /\ ~ type.packed /\ type.f # <<>>
            /\ \A i \in DOMAIN type.f : Qualified(type.f[i], records)
      [] type.k = "array" -> type.n > 0 /\ Qualified(type.e, records)
      [] OTHER -> FieldScalar(type)

Total(sizes) == FoldLeft(LAMBDA sum, n : sum + n, 0, sizes)

\* Words and doublewords that fill a value without holes.
Dense(sizes, at, size) ==
    /\ \A i \in DOMAIN sizes : sizes[i] \in {4, 8} /\ at[i] = Total(SubSeq(sizes, 1, i - 1))
    /\ Total(sizes) = size

\* Such values are expanded, field by field.
OrderedI686(type, size, at, returns) ==
    IF /\ ~ returns /\ size <= 16 /\ \A i \in DOMAIN type.f : FieldScalar(type.f[i])
       /\ Dense([i \in DOMAIN type.f |-> AllocSize("i686", type.f[i])], at, size)
    THEN Value("expand", type, size, [i \in DOMAIN type.f |-> Piece(type.f[i], at[i])])
    ELSE Indirect(type, size, returns, TRUE)

NoPiece == [k |-> "none"]
LastBytes(size, at) == Least(8, size - at)

\* Mutant: a leaf that ends where the eightbyte starts is taken to reach into it.
TouchingEightbyte(t, leaves, at) ==
    SelectSeq(leaves, LAMBDA leaf : leaf.at < at + 8 /\ leaf.at + StoreSize(t, leaf.type) >= at)

\* The leaves that reach into the eightbyte at an offset.
InEightbyte(t, leaves, at) ==
    SelectSeq(leaves, LAMBDA leaf : leaf.at < at + 8 /\ leaf.at + StoreSize(t, leaf.type) > at)

\* The register type of an eightbyte, by the leaves in it; NoPiece if their shape is
\* not admitted.
OrderedEightbyte(t, chunk, size, at) ==
    IF \/ chunk = <<>>
       \/ \E leaf \in ToSet(chunk) : leaf.at < at \/ leaf.at + StoreSize(t, leaf.type) > at + 8
    THEN NoPiece
    ELSE IF \E leaf \in ToSet(chunk) : Integral(leaf.type)
    THEN IF Len(chunk) = 1 /\ chunk[1].at = at THEN chunk[1].type ELSE Integer(8 * LastBytes(size, at))
    ELSE IF chunk[1].at # at THEN NoPiece
    ELSE IF Len(chunk) = 1 THEN chunk[1].type
    ELSE IF Len(chunk) = 2 /\ \A i \in {1, 2} : chunk[i].type = Float /\ chunk[i].at = at + 4 * (i - 1)
    THEN FloatVector ELSE NoPiece

OrderedPieces(t, leaves, size) ==
    [i \in 1 .. CeilDiv(size, 8) |->
        Piece(OrderedEightbyte(t, InEightbyte(t, leaves, 8 * (i - 1)), size, 8 * (i - 1)), 8 * (i - 1))]

IntegerPieces(pieces) == Cardinality({i \in DOMAIN pieces : Integral(pieces[i].type)})
SsePieces(pieces) == Len(pieces) - IntegerPieces(pieces)

\* Mutant: only integer registers are counted.
FitsIntegers(pieces, free) == IntegerPieces(pieces) <= free.gp

Fits(pieces, free) == IntegerPieces(pieces) <= free.gp /\ SsePieces(pieces) <= free.sse

\* As the low part of a pair the first piece fills its eightbyte.
Widen(pieces) ==
    IF Len(pieces) = 2
       /\ RoundUp(AllocSize("x86_64", pieces[1].type), AlignOf("x86_64", pieces[2].type)) # 8
    THEN [pieces EXCEPT ![1].type = IF @ = Float THEN Double ELSE Integer(64)]
    ELSE pieces

\* The pieces go in registers, all of them or none.  Out of integer registers, a small
\* value is a scalar on the stack.
OrderedValue(type, size, returns, free, pieces) ==
    IF size > 16 THEN Indirect(type, size, returns, TRUE)
    ELSE IF \E i \in DOMAIN pieces : pieces[i].type = NoPiece THEN Refused
    ELSE IF returns \/ Fits(pieces, free) THEN Expanded(type, size, Widen(pieces))
    ELSE IF free.gp = 0 /\ size <= 8 /\ AlignOf("x86_64", type) <= 8
    THEN Coerced(type, size, Integer(8 * size))
    ELSE Indirect(type, size, FALSE, TRUE)

OrderedX64(type, size, returns, free) ==
    OrderedValue(type, size, returns, free,
                 OrderedPieces("x86_64", Leaves("x86_64", type, 0), size))

ClassifyOrdered(t, type, returns, free, records) ==
    CASE type = Void -> IF returns THEN ScalarValue(t, type) ELSE Refused
      [] Scalar(t, type) -> ScalarValue(t, type)
      [] type.k # "record" \/ ~ Qualified(type, records) -> Refused
      [] t = "i686" -> OrderedI686(type, AllocSize(t, type), Placed(t, type).at, returns)
      [] OTHER -> OrderedX64(type, AllocSize(t, type), returns, free)

-----------------------------------------------------------------------------
(* x86: semantic layouts. *)

FieldBits(field, size) == IF field.width # Whole THEN field.width ELSE 8 * size

NoInfo == [ok |-> FALSE, size |-> 0, align |-> 1]

\* The description of a record holds together: info and bits are those of its fields.
Coherent(layout, info, bits) ==
    LET fields == layout.fields
    IN  /\ layout.size > 0 /\ layout.size % layout.align = 0 /\ fields # <<>>
        /\ \A i \in DOMAIN fields :
              /\ info[i].ok
              /\ IF fields[i].width # Whole
                 THEN /\ fields[i].type.k = "int" /\ fields[i].width <= fields[i].type.bits
                      /\ fields[i].width > 0 \/ fields[i].padding
                 ELSE ~ fields[i].padding /\ fields[i].at % 8 = 0
              /\ fields[i].at + bits[i] <= 8 * layout.size
              /\ IF layout.kind = "union" THEN fields[i].at = 0
                 ELSE i > 1 => fields[i].at >= fields[i - 1].at + bits[i - 1]
        /\ \E i \in DOMAIN fields : ~ fields[i].padding /\ bits[i] > 0

BitsOf(fields, info) == [i \in DOMAIN fields |-> FieldBits(fields[i], info[i].size)]

RecordInfo(layout, storage, info) ==
    IF storage = layout.size /\ Coherent(layout, info, BitsOf(layout.fields, info))
    THEN [ok |-> TRUE, size |-> layout.size, align |-> layout.align] ELSE NoInfo

ArrayInfo(n, storage, element) ==
    IF element.ok /\ n > 0 /\ storage = element.size * n
    THEN [ok |-> TRUE, size |-> storage, align |-> element.align] ELSE NoInfo

\* info(): the size and alignment of a type, if its description holds together.
RECURSIVE LayoutInfo(_, _, _)
LayoutInfo(t, type, layouts) ==
    CASE FieldScalar(type) -> [ok |-> TRUE, size |-> AllocSize(t, type), align |-> AlignOf(t, type)]
      [] type.k = "array" -> ArrayInfo(type.n, AllocSize(t, type), LayoutInfo(t, type.e, layouts))
      [] type.k = "record" /\ type \in DOMAIN layouts ->
            RecordInfo(layouts[type], AllocSize(t, type),
                       [i \in DOMAIN layouts[type].fields |->
                           LayoutInfo(t, layouts[type].fields[i].type, layouts)])
      [] OTHER -> NoInfo

\* gather(): the named data of a value, as spans of bits.
RECURSIVE Spans(_, _, _, _)
Spans(t, type, base, layouts) ==
    CASE type.k = "array" ->
            FlattenSeq([i \in 1 .. type.n |->
                Spans(t, type.e, base + (i - 1) * 8 * AllocSize(t, type.e), layouts)])
      [] type.k = "record" ->
            LET named == SelectSeq(layouts[type].fields, LAMBDA f : ~ f.padding)
            IN  FlattenSeq([i \in DOMAIN named |->
                    IF named[i].width = Whole
                    THEN Spans(t, named[i].type, base + named[i].at, layouts)
                    ELSE <<[type |-> named[i].type, from |-> base + named[i].at,
                            to |-> base + named[i].at + named[i].width, bits |-> TRUE]>>])
      [] OTHER -> <<[type |-> type, from |-> base, to |-> base + 8 * StoreSize(t, type),
                     bits |-> FALSE]>>

RECURSIVE Unaligned(_, _, _, _)
Unaligned(t, type, base, layouts) ==
    CASE type.k = "array" ->
            \E i \in 1 .. type.n :
                Unaligned(t, type.e, base + (i - 1) * 8 * AllocSize(t, type.e), layouts)
      [] type.k = "record" ->
            \E field \in ToSet(layouts[type].fields) :
                /\ ~ field.padding /\ field.width = Whole
                /\ \/ (base + field.at) % (8 * LayoutInfo(t, field.type, layouts).align) # 0
                   \/ Unaligned(t, field.type, base + field.at, layouts)
      [] OTHER -> FALSE

\* The scalar the LLVM carrier has at an offset; NoPiece if none starts there.
RECURSIVE Preferred(_, _, _)
Preferred(t, type, at) ==
    IF at >= AllocSize(t, type) THEN NoPiece
    ELSE CASE type.k = "record" ->
                LET i == Max({j \in DOMAIN type.f : FieldOffset(t, type, j) <= at})
                IN  Preferred(t, type.f[i], at - FieldOffset(t, type, i))
           [] type.k = "array" -> Preferred(t, type.e, at % AllocSize(t, type.e))
           [] OTHER -> IF at = 0 THEN type ELSE NoPiece

Overlapping(spans, from, to) == {s \in ToSet(spans) : s.from < to /\ s.to > from}

\* Mutant: data behind the carrier's scalar is not looked for.
HoldsScalar(spans, at, scalar) == scalar.k \in {"pointer", "int"}

\* All data of an eightbyte lies in the carrier's scalar at its start.
HoldsEightbyte(spans, at, scalar) ==
    \/ scalar.k = "pointer" \/ scalar = Integer(64)
    \/ /\ scalar \in {Integer(8), Integer(16), Integer(32)}
       /\ Overlapping(spans, 8 * at + scalar.bits, 8 * (at + 8)) = {}

HoldsInteger(spans, at) ==
    \E s \in Overlapping(spans, 8 * at, 8 * (at + 8)) : s.bits \/ Integral(s.type)

\* The register type of an eightbyte that holds data, given the carrier's scalars at
\* its start and in its middle.
LayoutEightbyte(preferred, next, spans, size, at) ==
    IF HoldsInteger(spans, at)
    THEN IF HoldsEightbyte(spans, at, preferred) THEN preferred ELSE Integer(8 * LastBytes(size, at))
    ELSE IF preferred # Float THEN Double
    ELSE IF next = Float THEN FloatVector ELSE Float

\* Proven source padding takes no native register.
UsedEightbytes(spans, size) ==
    SelectSeq([i \in 1 .. CeilDiv(size, 8) |-> 8 * (i - 1)],
              LAMBDA at : Overlapping(spans, 8 * at, 8 * (at + 8)) # {})

LayoutPieces(t, type, spans, size, used) ==
    [i \in DOMAIN used |->
        Piece(LayoutEightbyte(Preferred(t, type, used[i]), Preferred(t, type, used[i] + 4),
                              spans, size, used[i]), used[i])]

\* Mutant: a small value goes on the stack as a scalar whichever bank ran out.
MemorySmall(t, type, info, returns, free) ==
    IF t = "x86_64" /\ ~ returns /\ info.size <= 8 /\ info.align <= 8
    THEN Coerced(type, info.size, Integer(8 * info.size))
    ELSE Indirect(type, info.size, returns, TRUE)

\* memory(): without a register to spare a small value is a scalar on the stack.
Memory(t, type, info, returns, free) ==
    IF t = "x86_64" /\ ~ returns /\ free.gp = 0 /\ info.size <= 8 /\ info.align <= 8
    THEN Coerced(type, info.size, Integer(8 * info.size))
    ELSE Indirect(type, info.size, returns, TRUE)

\* The type of the first of two pieces: it must end where the second one starts.
LowType(low, high) ==
    IF RoundUp(AllocSize("x86_64", low), AlignOf("x86_64", high)) = 8 THEN low
    ELSE IF low = Float THEN Double ELSE Integer(64)

\* The eightbytes with integers in them need integer registers, the others SSE ones.
LayoutValue(type, info, returns, free, pieces, integers) ==
    IF pieces = <<>> \/ \E i \in DOMAIN pieces :
                           pieces[i].at + StoreSize("x86_64", pieces[i].type) > info.size
    THEN Refused
    ELSE IF ~ returns /\ (integers > free.gp \/ Len(pieces) > integers + free.sse)
    THEN Memory("x86_64", type, info, FALSE, free)
    ELSE Expanded(type, info.size,
                  IF Len(pieces) # 2 THEN pieces
                  ELSE [pieces EXCEPT ![1].type = LowType(@, pieces[2].type)])

LayoutX64(type, info, spans, returns, free, layouts) ==
    LET used == UsedEightbytes(spans, info.size)
    IN  IF info.size > 16 \/ Unaligned("x86_64", type, 0, layouts)
        THEN Memory("x86_64", type, info, returns, free)
        ELSE LayoutValue(type, info, returns, free,
                         LayoutPieces("x86_64", type, spans, info.size, used),
                         Len(SelectSeq(used, LAMBDA at : HoldsInteger(spans, at))))

\* Expanded if the fields are words and doublewords, each right behind the one before.
LayoutI686(type, info, fields, returns, free) ==
    LET size(i) == AllocSize("i686", fields[i].type)
        bytes(i) == MapThenSumSet(size, 1 .. i - 1)
    IN  IF \/ returns \/ info.size > 16 \/ bytes(Len(fields) + 1) # info.size
           \/ \E i \in DOMAIN fields :
                 \/ fields[i].width # Whole \/ fields[i].padding \/ ~ FieldScalar(fields[i].type)
                 \/ size(i) \notin {4, 8} \/ fields[i].at # 8 * bytes(i)
        THEN Memory("i686", type, info, returns, free)
        ELSE Value("expand", type, info.size,
                   [i \in DOMAIN fields |-> Piece(fields[i].type, bytes(i))])

ClassifyLayout(t, type, returns, free, layouts) ==
    CASE type = Void -> IF returns THEN ScalarValue(t, type) ELSE Refused
      [] FieldScalar(type) \/ type = Integer(1) -> ScalarValue(t, type)
      [] type.k # "record" \/ type \notin DOMAIN layouts -> Refused
      [] t = "i686" -> LayoutI686(type, LayoutInfo(t, type, layouts), layouts[type].fields,
                                     returns, free)
      [] OTHER -> LayoutX64(type, LayoutInfo(t, type, layouts), Spans(t, type, 0, layouts),
                            returns, free, layouts)

-----------------------------------------------------------------------------
(* ARM. *)

NoBase == [k |-> "none"]
Unfit == [ok |-> FALSE, size |-> 0, align |-> 1, base |-> NoBase, members |-> 0]
Plain(t, type) ==
    [ok |-> TRUE, size |-> AllocSize(t, type), align |-> AlignOf(t, type),
     base |-> NoBase, members |-> 0]

\* What a field adds to the homogeneous aggregate of the fields before it.
AddMember(kind, found, field, child) ==
    IF field.padding \/ field.width # Whole \/ child.base = NoBase
    THEN [found EXCEPT !.uniform = FALSE]
    ELSE [uniform |-> found.uniform /\ found.base \in {NoBase, child.base},
          base |-> child.base,
          members |-> IF kind = "union" THEN Max({found.members, child.members})
                      ELSE found.members + child.members]

\* The description of a record holds together.
Valid(layout, size, child, bits) ==
    LET fields == layout.fields
    IN  /\ size > 0 /\ layout.size = size /\ fields # <<>> /\ size % layout.align = 0
        /\ \A i \in DOMAIN fields :
              /\ child[i].ok
              /\ fields[i].at + bits[i] <= 8 * size
              /\ IF fields[i].width # Whole
                 THEN fields[i].type.k = "int" /\ bits[i] <= fields[i].type.bits
                 ELSE fields[i].at % 8 = 0
              /\ layout.kind = "union" => fields[i].at = 0
              /\ layout.kind = "ordered" /\ ~ fields[i].padding =>
                    \A j \in 1 .. i - 1 : fields[j].padding \/ fields[i].at >= fields[j].at + bits[j]
        /\ \E i \in DOMAIN fields : ~ fields[i].padding

Homogeneous(layout, child) ==
    FoldLeft(LAMBDA found, i : AddMember(layout.kind, found, layout.fields[i], child[i]),
             [uniform |-> TRUE, base |-> NoBase, members |-> 0],
             [i \in DOMAIN layout.fields |-> i])

RecordInformation(t, plain, layout, child, found) ==
    IF ~ Valid(layout, plain.size, child, BitsOf(layout.fields, child)) THEN Unfit
    ELSE IF found.uniform /\ found.members \in 1 .. 4
            /\ AllocSize(t, found.base) * found.members = plain.size
    THEN [plain EXCEPT !.align = layout.align, !.base = found.base, !.members = found.members]
    ELSE [plain EXCEPT !.align = layout.align]

ArrayInformation(plain, n, element) ==
    IF ~ element.ok THEN Unfit
    ELSE IF element.base # NoBase /\ n <= 4 \div element.members
    THEN [plain EXCEPT !.base = element.base, !.members = element.members * n]
    ELSE plain

DescribedInformation(t, plain, layout, child) ==
    RecordInformation(t, plain, layout, child, Homogeneous(layout, child))

\* information(): size, alignment and the base type of a homogeneous aggregate.
RECURSIVE Information(_, _, _)
Information(t, type, layouts) ==
    CASE Scalar(t, type) ->
            IF type.k \in {"float", "double"}
            THEN [Plain(t, type) EXCEPT !.base = type, !.members = 1] ELSE Plain(t, type)
      [] type.k = "array" /\ type.n > 0 ->
            ArrayInformation(Plain(t, type), type.n, Information(t, type.e, layouts))
      [] type.k = "record" /\ type \in DOMAIN layouts ->
            DescribedInformation(t, Plain(t, type), layouts[type],
                                 [i \in DOMAIN layouts[type].fields |->
                                     Information(t, layouts[type].fields[i].type, layouts)])
      [] OTHER -> Unfit

Units(unit, size) ==
    LET count == CeilDiv(size, unit)
    IN  IF count = 1 THEN Integer(8 * unit) ELSE Array(count, Integer(8 * unit))

Aapcs64(type, info, returns) ==
    LET size == info.size
    IN  IF info.base # NoBase
        THEN Coerced(type, size, IF returns THEN type ELSE Array(info.members, info.base))
        ELSE IF size > 16 THEN Indirect(type, size, returns, FALSE)
        ELSE IF returns /\ size <= 8 THEN Coerced(type, size, Integer(8 * size))
        ELSE Coerced(type, size, Units(IF info.align >= 16 THEN 16 ELSE 8, size))

Aapcs32(type, info, returns, variadic) ==
    LET size == info.size
        unit == IF info.align <= 4 THEN 4 ELSE 8
    IN  IF info.base # NoBase /\ ~ variadic THEN Coerced(type, size, type)
        ELSE IF returns
        THEN IF size > 4 THEN Indirect(type, size, TRUE, FALSE)
             ELSE Coerced(type, size, Integer(IF size <= 1 THEN 8 ELSE IF size <= 2 THEN 16 ELSE 32))
        ELSE IF size > 64 THEN Indirect(type, size, FALSE, TRUE)
        ELSE Coerced(type, size, Array(CeilDiv(size, unit), Integer(8 * unit)))

ClassifyARM(t, type, returns, variadic, info) ==
    CASE type = Void -> IF returns THEN ScalarValue(t, type) ELSE Refused
      [] Scalar(t, type) -> ScalarValue(t, type)
      [] type.k # "record" \/ ~ info.ok -> Refused
      [] t = "aarch64" -> Aapcs64(type, info, returns)
      [] OTHER -> Aapcs32(type, info, returns, variadic)

\* The layout of an ordered record is that of its LLVM type.
NaturalLayout(t, record) ==
    [kind |-> "ordered", size |-> AllocSize(t, record), align |-> AlignOf(t, record),
     fields |-> [i \in DOMAIN record.f |-> Field(record.f[i], 8 * FieldOffset(t, record, i))]]

NaturalLayouts(t, records) == [record \in records |-> NaturalLayout(t, record)]

-----------------------------------------------------------------------------
(* Whole signatures: [result, params, variadic]. *)

RefusedSignature == [ok |-> FALSE]

\* The registers that are free at the start: six integer and eight SSE ones.
AllRegisters(t) == IF t = "x86_64" THEN [gp |-> 6, sse |-> 8] ELSE [gp |-> 0, sse |-> 0]

\* An argument that cannot fit consumes neither bank.
Consume(t, free, value) ==
    IF t = "x86_64" /\ value.kind # "indirect" /\ Fits(value.pieces, free)
    THEN [gp |-> free.gp - IntegerPieces(value.pieces), sse |-> free.sse - SsePieces(value.pieces)]
    ELSE free

\* What the classifier for one value goes by.
ByRecords(records) == [by |-> "records", records |-> records]
ByLayouts(layouts) == [by |-> "layouts", layouts |-> layouts]

ClassifyValue(t, type, returns, free, variadic, known) ==
    CASE known.by = "records" -> ClassifyOrdered(t, type, returns, free, known.records)
      [] t \in X86 -> ClassifyLayout(t, type, returns, free, known.layouts)
      [] OTHER -> ClassifyARM(t, type, returns, variadic, Information(t, type, known.layouts))

\* Every layout a signature is classified by is described coherently.
Describes(t, known) ==
    known.by = "layouts" =>
        \A type \in DOMAIN known.layouts :
            IF t \in X86 THEN LayoutInfo(t, type, known.layouts).ok
            ELSE Information(t, type, known.layouts).ok

\* A hidden result pointer takes the first integer register.
Start(t, result) ==
    [free |-> [AllRegisters(t) EXCEPT !.gp = IF t = "x86_64" /\ result.sRet THEN @ - 1 ELSE @],
     params |-> <<>>]

PassNext(t, sum, value) ==
    [free |-> IF value = Refused THEN sum.free ELSE Consume(t, sum.free, value),
     params |-> Append(sum.params, value)]

Passed(t, logical, result, known) ==
    FoldLeft(LAMBDA sum, type :
                 PassNext(t, sum, ClassifyValue(t, type, FALSE, sum.free, logical.variadic, known)),
             Start(t, result), logical.params)

Completed(result, passed) ==
    IF Refused \in ToSet(passed.params) THEN RefusedSignature
    ELSE [ok |-> TRUE, result |-> result, params |-> passed.params, free |-> passed.free]

WithResult(t, logical, result, known) ==
    IF result = Refused THEN RefusedSignature
    ELSE Completed(result, Passed(t, logical, result, known))

Signature(t, logical, known) ==
    IF ~ Describes(t, known) THEN RefusedSignature
    ELSE WithResult(t, logical,
                    ClassifyValue(t, logical.result, TRUE, AllRegisters(t), logical.variadic, known),
                    known)

ClassifyNativeLayoutABI(t, logical, layouts) == Signature(t, logical, ByLayouts(layouts))

ClassifyNativeABI(t, logical, records) ==
    IF t \notin X86 /\ \E record \in records : record.packed \/ record.f = <<>>
    THEN RefusedSignature
    ELSE Signature(t, logical,
                   IF t \in X86 THEN ByRecords(records) ELSE ByLayouts(NaturalLayouts(t, records)))

\* The LLVM result type of a signature that returns pieces.
ResultType(value) ==
    IF Len(value.pieces) = 1 THEN value.pieces[1].type
    ELSE Record([i \in DOMAIN value.pieces |-> value.pieces[i].type])

=============================================================================
