---------------------------- MODULE MCNativeCall ----------------------------
(***************************************************************************)
(* Small signatures for TLC.                                               *)
(***************************************************************************)
EXTENDS NativeCall

CONSTANT mcTargets

I8 == Integer(8)
I16 == Integer(16)
I32 == Integer(32)
I64 == Integer(64)
Scalars == {I8, I16, I32, I64, Float, Double, Pointer}

\* All records of up to three scalars, and some of arrays and of records.
FlatRecords == {Record(fields) : fields \in BoundedSeq(Scalars, 3) \ {<<>>}}
Pair == Record(<<I32, Float>>)
Floats == Record(<<Float, Float>>)
Nested == {Record(<<inner>>) : inner \in {Pair, Floats}}
              \cup {Record(<<inner, s>>) : inner \in {Pair, Floats}, s \in Scalars}
              \cup {Record(<<s, inner>>) : inner \in {Pair, Floats}, s \in Scalars}
Arrays == {Record(<<Array(n, e)>>) : n \in 1 .. 5, e \in {I8, I16, I32, Float, Double}}
              \cup {Record(<<Array(17, I32)>>), Record(<<Array(2, Pair), I8>>)}
Records == FlatRecords \cup Nested \cup Arrays

Call(t, result, params) ==
    [target |-> t, logical |-> [result |-> result, params |-> params, variadic |-> FALSE],
     records |-> {r \in {Pair, Floats, result} \cup ToSet(params) : r.k = "record"},
     layouts |-> <<>>, aliased |-> FALSE]

Echoes == {[Call(t, r, <<r>>) EXCEPT !.aliased = aliased] :
              t \in mcTargets, r \in Records, aliased \in BOOLEAN}

\* Arguments before and after the aggregate, at the limits of the register banks.
Repeat(n, type) == [i \in 1 .. n |-> type]
Before == {Repeat(n, I64) \o Repeat(m, Double) : n \in {3, 4, 5, 6}, m \in {0, 6, 7, 8}}
Mixed == Record(<<Double, I32>>)
Pressed == {Call("x86_64", result, before \o <<r, second>>) :
               before \in Before, r \in {s \in Records : AllocSize("x86_64", s) <= 16 /\ Len(s.f) <= 2},
               result \in {Void, Record(<<I64, I64, I64>>)}, second \in {Mixed, I64}}

Variadic == {[Call(t, r, <<r>>) EXCEPT !.logical.variadic = TRUE] :
                t \in mcTargets, r \in Nested}
Unqualified == {[Call(t, r, <<r>>) EXCEPT !.records = @ \ {Pair}] : t \in mcTargets, r \in Nested}

\* Semantic layouts.
Described(t, type, layouts) ==
    [target |-> t, logical |-> [result |-> type, params |-> <<type>>, variadic |-> FALSE],
     records |-> {}, layouts |-> layouts, aliased |-> FALSE]

One(carrier, layout) == [r \in {carrier} |-> layout]

\* A union of two alternatives, carried by the first of them.
Alternatives == Scalars \cup {Array(2, Float), Array(2, I32), Array(2, Double), Array(3, I16), Array(7, I8), Array(4, Float)}
Unions(t) ==
    {Described(t, Record(<<c>>), One(Record(<<c>>),
        [kind |-> "union", size |-> AllocSize(t, c), align |-> AlignOf(t, c),
         fields |-> <<Field(c, 0), Field(a, 0)>>])) :
        c \in Alternatives, a \in Alternatives}

PackedRecords(t) ==
    {Described(t, Packed(fields), One(Packed(fields),
        [kind |-> "ordered", size |-> AllocSize(t, Packed(fields)), align |-> 1,
         fields |-> NaturalLayout(t, Packed(fields)).fields])) :
        fields \in BoundedSeq({I8, I32, Float, Double}, 3) \ {<<>>}}

\* Bit-fields of an integer or of an array of bytes.
Widths == {3, 8, 13, 32}
Cuts(carrier, bits) ==
    {<<w>> : w \in Widths} \cup {<<v, w>> : v, w \in Widths} \cup {<<u, v, w>> : u, v, w \in Widths}
BitFields(t, carrier) ==
    LET size == AllocSize(t, Record(<<carrier>>))
        sum(s, i) == FoldLeft(LAMBDA n, w : n + w, 0, SubSeq(s, 1, i))
        fields(s, pad) == [i \in DOMAIN s |->
            [type |-> I32, at |-> sum(s, i - 1), width |-> s[i], padding |-> i = pad]]
    IN  {Described(t, Record(<<carrier>>), One(Record(<<carrier>>),
            [kind |-> "ordered", size |-> size, align |-> AlignOf(t, carrier),
             fields |-> fields(s, pad)])) :
            s \in {c \in Cuts(carrier, 8 * size) : sum(c, Len(c)) <= 8 * size /\ sum(c, Len(c)) > 8 * size - 32},
            pad \in 0 .. 2}

\* A record that starts with an unnamed bit-field as wide as a register.
PaddedHead(t) ==
    LET carrier == Record(<<Array(8, I8), Double>>)
    IN  {Described(t, carrier, One(carrier,
            [kind |-> "ordered", size |-> 16, align |-> AlignOf(t, Double),
             fields |-> <<Padding(I64, 0, 64), Field(Double, 64)>>]))}

LayoutCalls ==
    UNION {Unions(t) \cup PaddedHead(t) \cup PackedRecords(t) \cup BitFields(t, I32) \cup BitFields(t, Array(3, I8))
             \cup BitFields(t, Array(10, I8)) \cup BitFields(t, I64) : t \in mcTargets}

CallInit ==
    \/ \E chosen \in Echoes : BeginCall(chosen)
    \/ \E chosen \in Pressed : BeginCall(chosen)
    \/ \E chosen \in Variadic \cup Unqualified : BeginCall(chosen)
    \/ \E chosen \in LayoutCalls : BeginCall(chosen)

CallSpec == CallInit /\ [][CallNext]_callVars
=============================================================================
