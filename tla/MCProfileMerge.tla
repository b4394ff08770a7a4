--------------------------- MODULE MCProfileMerge ---------------------------
(***************************************************************************)
(* ProfileMerge for x86-64, i686 and AArch64 on three families of modules: *)
(* two globals whose types and initializers differ, a function whose       *)
(* instructions differ, and inventories of definitions and flags.          *)
(***************************************************************************)
EXTENDS ProfileMerge

mcWordBits == <<64, 32, 64>>
mcWideAlign == <<8, 4, 8>>

VARIABLE family

-----------------------------------------------------------------------------
(* Storage, as Clang lays it out for target t. *)

WordOf(t) == Integer(WordBits[t])
Node(t) == Rec(10, FALSE, <<WordOf(t), Ptr>>)
LongNode(t) == Rec(10, FALSE, <<WordOf(t), Ptr, Integer(32)>>)
Other(t) == Rec(11, FALSE, <<WordOf(t), Ptr>>)
Outer(t) == Rec(12, FALSE, <<Node(t), Integer(32)>>)
Literal == Rec(Anonymous, FALSE, <<Ptr>>)

Member(name, type, t) == [name |-> name, type |-> type, bits |-> Bits(type, t), offset |-> 0]
TwoMembers(t) == <<Member("p", Ptr, t), Member("n", Integer(64), t)>>
ThreeMembers(t) == TwoMembers(t) \o <<Member("c", Integer(8), t)>>

\* Clang's carrier is the first member of the greatest alignment, then size.
ClangUnion(members, t) ==
    LET Worse(i, j) == \/ Align(members[i].type, t) < Align(members[j].type, t)
                       \/ /\ Align(members[i].type, t) = Align(members[j].type, t)
                          /\ members[i].bits < members[j].bits
        best == {i \in DOMAIN members : \A j \in DOMAIN members : ~Worse(i, j)}
    IN  Rec(13, FALSE, <<members[Min(best)].type>>)

Global(id, type, initializer) ==
    [op |-> "sela.global", id |-> id, body |-> [args |-> <<>>, code |-> <<>>],
     attrs |-> [element |-> TypeOf(type), initializer |-> initializer]]

Null == Text("null")
Address(element) == Dict([op |-> Text("gep"), element |-> TypeOf(element)])
Module(defs) == [flags |-> {[name |-> "PIC Level", value |-> 2]}, defs |-> defs]
Pair(a, b, initializer) == Module(<<Global("g", a, Null), Global("h", b, initializer)>>)
Plain(module) == [module |-> module, evidence |-> {}]
Explained(module, members) ==
    [module |-> module, evidence |-> {[tag |-> 13, members |-> members]}]

Storages(t) ==
    {Plain(Pair(p[1], p[2], Null)) : p \in
        {<<Node(t), Node(t)>>, <<Node(t), Other(t)>>, <<Other(t), Node(t)>>,
         <<Outer(t), Node(t)>>, <<Node(t), Outer(t)>>, <<LongNode(t), LongNode(t)>>,
         <<Arr(Node(t), Lit(2)), Node(t)>>, <<Arr(Node(t), Lit(3)), Other(t)>>,
         <<Node(t), Literal>>, <<WordOf(t), Integer(32)>>, <<Integer(32), WordOf(t)>>}}
    \cup {Plain(Pair(p[1], Ptr, p[2])) : p \in
        {<<Node(t), Null>>, <<Node(t), Address(Node(t))>>, <<Node(t), Address(Other(t))>>,
         <<Other(t), Address(Node(t))>>, <<WordOf(t), Address(Node(t))>>}}
    \cup {Plain(Module(<<Global("g", Ptr, p[1]), Global("h", p[2], Null)>>)) : p \in
        {<<Null, Node(t)>>, <<Address(Other(t)), Node(t)>>, <<Address(Node(t)), Other(t)>>}}
    \cup {Explained(Pair(ClangUnion(m, t), Node(t), Null), m) : m \in {TwoMembers(t), ThreeMembers(t)}}
    \cup {Explained(Pair(ClangUnion(ThreeMembers(t), t), Ptr, Null), <<Member("c", Integer(8), t)>>)}

-----------------------------------------------------------------------------
(* Code: one function of a word and an int. *)

CastOf(opcode, v, type) ==
    [op |-> "sela.cast", attrs |-> [opcode |-> Text(opcode)], operands |-> <<v>>, results |-> <<type>>]
Use(v) == [op |-> "sela.store", attrs |-> [alignment |-> Lit(4)], operands |-> <<v>>, results |-> <<>>]
Return == [op |-> "sela.return", attrs |-> [kind |-> Text("void")], operands |-> <<>>, results |-> <<>>]

FunctionOf(id, t, code) ==
    LET args == <<WordOf(t), Integer(32)>>
    IN  [op |-> "sela.func", id |-> id, attrs |-> [type |-> TypeOf(Fn(args, <<>>))],
         body |-> [args |-> IF code = <<>> THEN <<>> ELSE args, code |-> code]]

Codes(t) ==
    LET Widened(v) == CastOf("sext", v, Integer(64))
        Narrowed(v) == CastOf("trunc", v, Integer(16))
    IN  {<<>>, <<Use(1), Use(2), Return>>, <<Use(2), Use(1), Return>>,
         <<Widened(2), Use(3), Return>>, <<Widened(2), Use(2), Return>>,
         <<Widened(2), Use(3), Use(2), Return>>, <<Widened(2), Narrowed(3), Use(4), Return>>,
         <<Widened(2), Use(1), Use(3), Return>>, <<Narrowed(2), Use(1), Use(3), Return>>,
         <<Use(1), Widened(2), Use(3), Return>>, <<Use(2), Return>>}

Functions(t) == {Plain(Module(<<FunctionOf("f", t, code)>>)) : code \in Codes(t)}

-----------------------------------------------------------------------------
(* Inventories: the order, presence and flags of definitions. *)

Inventories(t) ==
    LET g == Global("g", Ptr, Null)
        h == Global("h", Node(t), Null)
        f == FunctionOf("f", t, <<Use(1), Return>>)
        Flags(n) == {[name |-> "PIC Level", value |-> 2], [name |-> "wchar_size", value |-> n]}
    IN  {Plain([flags |-> flags, defs |-> defs]) :
            flags \in {{}, Flags(4), Flags(2)},
            defs \in {<<g, h>>, <<h, g>>, <<g, h, f>>, <<h, g, f>>, <<g>>, <<g, f>>}}

Captures(t) == CASE family = "storage" -> Storages(t)
                 [] family = "code" -> Functions(t)
                 [] family = "inventory" -> Inventories(t)

MCInit == /\ family \in {"storage", "code", "inventory"}
          /\ \E n \in {2, 3} : (n = 3 => family # "inventory") /\ ProfilesInit(n)

MCNext == /\ \/ /\ Len(captures) < expected
                /\ \E c \in Captures(Len(captures) + 1) :
                    \E unions \in Recovered(c, Len(captures) + 1) : Observe(c, unions)
             \/ ProfilesNext
             \/ phase \in {"published", "refused"} /\ UNCHANGED vars
          /\ UNCHANGED family

MCSpec == MCInit /\ [][MCNext]_<<vars, family>>
=============================================================================
