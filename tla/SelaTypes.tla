----------------------------- MODULE SelaTypes -----------------------------
(***************************************************************************)
(* The types and attributes of a public module, and Domains.cpp: how the   *)
(* parts of them that depend on the target are checked and selected.       *)
(*                                                                         *)
(* A type or an attribute is a record whose k is its kind.  A native type  *)
(* is one without "word", "choice" and "overlap".  A number n stands for   *)
(* the storage identity "r" n; a native struct has a number for its name.  *)
(* A value that may be refused is a set: of it, or empty.                  *)
(*                                                                         *)
(* Left out: the limits on nesting; vectors and floats (scalars as the     *)
(* others); "pointer_bytes" and counted initializers, which no importer of *)
(* one target writes; a target listed twice, as target lists are sets.     *)
(***************************************************************************)
EXTENDS Integers, Sequences, FiniteSets, SequencesExt, FiniteSetsExt

CONSTANT WordBits  \* wordBits of each qualified target, a sequence

ASSUME WordBitsAssumption == WordBits \in Seq({32, 64})

Qualified == DOMAIN WordBits

Anonymous == -1  \* the empty identity

Integer(bits) == [k |-> "int", bits |-> bits]
Ptr == [k |-> "ptr"]
Word == [k |-> "word"]
Arr(element, count) == [k |-> "array", element |-> element, count |-> count]
Rec(identity, packed, members) ==
    [k |-> "record", identity |-> identity, packed |-> packed, members |-> members]
Overlap(identity, members, domains) ==
    [k |-> "overlap", identity |-> identity, members |-> members, domains |-> domains]
Fn(inputs, results) == [k |-> "function", inputs |-> inputs, results |-> results]
Choice(options) == [k |-> "choice", options |-> options]

Lit(n) == [k |-> "lit", n |-> n]
Text(text) == [k |-> "text", text |-> text]
TypeOf(type) == [k |-> "type", type |-> type]
List(items) == [k |-> "list", items |-> items]
Dict(entries) == [k |-> "dict", entries |-> entries]
Cases(cases) == [k |-> "cases", cases |-> cases]

\* F of each element of a sequence, unless one of them is refused.
Each(F(_), seq) ==
    FoldLeft(LAMBDA done, e : {Append(d, v) : d \in done, v \in F(e)}, {<<>>}, seq)

\* F of each value of a function over names.
EachNamed(F(_), entries) ==
    LET order == SetToSeq(DOMAIN entries)
    IN  {[n \in DOMAIN entries |-> values[CHOOSE i \in DOMAIN order : order[i] = n]] :
            values \in Each(LAMBDA n : F(entries[n]), order)}

\* What F finds in each element, in order.
Collected(F(_), seq) == FoldLeft(LAMBDA found, e : found \o F(e), <<>>, seq)

\* The values of a function over names.
Values(entries) == LET order == SetToSeq(DOMAIN entries)
                   IN  [i \in DOMAIN order |-> entries[order[i]]]

\* The types a type is made of.
Parts(type) ==
    CASE type.k = "array" -> <<type.element>>
      [] type.k \in {"record", "overlap"} -> type.members
      [] type.k = "function" -> type.inputs \o type.results
      [] OTHER -> <<>>

-----------------------------------------------------------------------------
(* Choices. *)

\* targetChoice: one case for each value observed, none if it is the same for all.
TargetChoice(observed) ==
    LET seen == {observed[t] : t \in DOMAIN observed}
    IN  IF Cardinality(seen) = 1 THEN CHOOSE v \in seen : TRUE
        ELSE Cases({[targets |-> {t \in DOMAIN observed : observed[t] = v}, value |-> v] :
                        v \in seen})

\* selectAttribute: the one case defined for target t.
RECURSIVE SelectAttribute(_, _)
SelectAttribute(a, t) ==
    IF a.k # "cases" THEN {a}
    ELSE LET active == {c \in a.cases : t \in c.targets}
         IN  IF Cardinality(active) # 1 THEN {}
             ELSE UNION {SelectAttribute(c.value, t) : c \in active}

\* evaluateInteger
EvaluateInteger(a, t) == {v.n : v \in {s \in SelectAttribute(a, t) : s.k = "lit"}}

\* specializeType: what a type is on target t.
RECURSIVE SpecializeType(_, _)
SpecializeType(type, t) ==
    LET Specialized(types) == Each(LAMBDA part : SpecializeType(part, t), types)
    IN  CASE type.k = "word" -> {Integer(WordBits[t])}
          [] type.k = "choice" ->
                UNION {SpecializeType(a.type, t) :
                           a \in {s \in SelectAttribute(type.options, t) : s.k = "type"}}
          [] type.k = "array" ->
                {Arr(e, Lit(n)) : e \in SpecializeType(type.element, t),
                                  n \in EvaluateInteger(type.count, t)}
          [] type.k = "record" ->
                {Rec(type.identity, type.packed, m) : m \in Specialized(type.members)}
          [] type.k = "overlap" ->
                LET active == {i \in DOMAIN type.members : t \in type.domains[i]}
                    order == SetToSortSeq(active, <)
                IN  IF active = {} THEN {}
                    ELSE {Overlap(type.identity, m, [i \in DOMAIN m |-> {t}]) :
                            m \in Specialized([i \in DOMAIN order |-> type.members[order[i]]])}
          [] type.k = "function" ->
                {Fn(i, r) : i \in Specialized(type.inputs), r \in Specialized(type.results)}
          [] OTHER -> {type}

\* specializeAttribute
RECURSIVE SpecializeAttribute(_, _)
SpecializeAttribute(attribute, t) ==
    LET Specialized(a) == SpecializeAttribute(a, t)
        Selected(a) ==
            CASE a.k = "type" -> {TypeOf(type) : type \in SpecializeType(a.type, t)}
              [] a.k = "list" -> {List(items) : items \in Each(Specialized, a.items)}
              [] a.k = "dict" -> {Dict(entries) : entries \in EachNamed(Specialized, a.entries)}
              [] OTHER -> {a}
    IN  UNION {Selected(a) : a \in SelectAttribute(attribute, t)}

-----------------------------------------------------------------------------
(* verifyTargetDomains, for one attribute and one type. *)

CheckSet(targets, universe) == targets # {} /\ targets \subseteq universe

\* checkAttribute: the cases of a choice are disjoint, and a choice within a
\* case speaks of the targets of that case alone.
RECURSIVE CheckAttribute(_, _)
CheckAttribute(a, universe) ==
    CASE a.k = "cases" ->
            /\ a.cases # {}
            /\ \A c \in a.cases : /\ CheckSet(c.targets, universe)
                                  /\ CheckAttribute(c.value, c.targets)
            /\ \A c, d \in a.cases : c # d => c.targets \cap d.targets = {}
      [] a.k = "list" -> \A i \in DOMAIN a.items : CheckAttribute(a.items[i], universe)
      [] a.k = "dict" -> \A n \in DOMAIN a.entries : CheckAttribute(a.entries[n], universe)
      [] OTHER -> TRUE

\* The values a choice can have.
RECURSIVE Options(_)
Options(a) == IF a.k # "cases" THEN {a} ELSE UNION {Options(c.value) : c \in a.cases}

\* checkType
RECURSIVE CheckType(_, _)
CheckType(type, universe) ==
    /\ CASE type.k = "choice" ->
                /\ CheckAttribute(type.options, universe)
                /\ \A a \in Options(type.options) :
                        a.k = "type" /\ CheckType(a.type, universe)
         [] type.k = "array" -> CheckAttribute(type.count, universe)
         [] type.k = "record" -> type.identity = Anonymous \/ type.identity \in Nat
         [] type.k = "overlap" ->
                /\ type.identity \in Nat
                /\ Len(type.members) \in 1 .. 64
                /\ Len(type.domains) = Len(type.members)
                /\ \A i \in DOMAIN type.domains : CheckSet(type.domains[i], universe)
         [] type.k = "function" -> Len(type.results) <= 1
         [] type.k = "int" -> type.bits \in 1 .. 128
         [] OTHER -> TRUE
    /\ \A i \in DOMAIN Parts(type) : CheckType(Parts(type)[i], universe)

\* The types written anywhere in an attribute.
RECURSIVE TypesIn(_)
TypesIn(a) ==
    CASE a.k = "type" -> <<a.type>>
      [] a.k = "list" -> Collected(TypesIn, a.items)
      [] a.k = "dict" -> Collected(TypesIn, Values(a.entries))
      [] a.k = "cases" -> Collected(TypesIn, SetToSeq({c.value : c \in a.cases}))
      [] OTHER -> <<>>
=============================================================================
