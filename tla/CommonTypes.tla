---------------------------- MODULE CommonTypes ----------------------------
(***************************************************************************)
(* The Merger of CommonMerge.cpp on everything but control flow (which is  *)
(* CommonGraph's): the types, attributes and instructions of the modules   *)
(* imported from each target become those of one module.                   *)
(*                                                                         *)
(* An observation is a function from some targets to what each has.  The   *)
(* storage identities known to correspond, storageIdentities, are a set of *)
(* [target, local, shared].  A merge yields [value, known], or nothing     *)
(* when it refuses.                                                        *)
(*                                                                         *)
(* A module is [flags, defs].  A definition is [op, id, attrs, body]; its  *)
(* body [args, code] has no code if it only declares.  An instruction is   *)
(* [op, attrs, operands, results], operands being numbers of values: the   *)
(* arguments come first, then the results in order.  A body is one block.  *)
(***************************************************************************)
EXTENDS SelaTypes

Merged(value, known) == [value |-> value, known |-> known]

FirstOf(observed) == observed[Min(DOMAIN observed)]
Kinds(observed) == {observed[t].k : t \in DOMAIN observed}
Alike(observed) == \A t \in DOMAIN observed : observed[t] = FirstOf(observed)

-----------------------------------------------------------------------------
(* storageIdentity. *)

\* Mutant: two structs of a target may get one identity.
NeverCollapses(identity, local, known) == FALSE

\* Another struct of one of the targets has the identity.
Collapses(identity, local, known) ==
    \E e \in known : /\ e.target \in DOMAIN local
                     /\ e.shared = identity /\ e.local # local[e.target]

\* The shared identity of structs that correspond: the one any of them has, and
\* then no other struct of their targets may have it; else the next one.
StorageIdentity(local, known) ==
    LET Of(t) == {e \in known : e.target = t /\ e.local = local[t]}
        shared == {e.shared : e \in UNION {Of(t) : t \in DOMAIN local}}
        identity == IF shared = {} THEN Cardinality({e.shared : e \in known})
                    ELSE CHOOSE s \in shared : TRUE
        mine == {[target |-> t, local |-> local[t], shared |-> identity] : t \in DOMAIN local}
    IN  CASE \A t \in DOMAIN local : local[t] = Anonymous -> {Merged(Anonymous, known)}
          [] \E t \in DOMAIN local : local[t] = Anonymous -> {}
          [] Cardinality(shared) > 1 \/ Collapses(identity, local, known) -> {}
          [] OTHER -> {Merged(identity, known \cup mine)}

-----------------------------------------------------------------------------
(* type, attribute. *)

\* Merge(o, known) for each observation of a sequence, in order.
MergeEach(Merge(_, _), observations, known) ==
    FoldLeft(LAMBDA done, o :
                 UNION {{Merged(Append(d.value, m.value), m.known) : m \in Merge(o, d.known)} : d \in done},
             {Merged(<<>>, known)}, observations)

\* The i-th parts, of the targets that have one.
Column(parts, i) == [t \in {t \in DOMAIN parts : i <= Len(parts[t])} |-> parts[t][i]]
Widest(parts) == Max({Len(parts[t]) : t \in DOMAIN parts})
Columns(parts) == [i \in 1 .. Widest(parts) |-> Column(parts, i)]
SameLength(parts) == Cardinality({Len(parts[t]) : t \in DOMAIN parts}) = 1

\* The alternatives of a choice of types.
TypeChoice(types) == Choice(TargetChoice([t \in DOMAIN types |-> TypeOf(types[t])]))

\* type: word-sized integers become a word, other integers a choice; structs
\* of different shapes share the fields all have, as do arrays of different
\* lengths; unions are never matched member by member unless they have the
\* same number of members.
RECURSIVE MergeType(_, _)
MergeType(observed, known) ==
    LET targets == DOMAIN observed
        parts == [t \in targets |-> Parts(observed[t])]
        local == [t \in targets |-> observed[t].identity]
        MergeParts(state) == MergeEach(MergeType, Columns(parts), state)
        first == FirstOf(observed)
        Record ==
            LET sameShape == SameLength(parts) /\ \A t \in targets : observed[t].packed = first.packed
                Shaped(identity, fields, t) ==
                    Rec(identity, observed[t].packed, SubSeq(fields, 1, Len(parts[t])))
            IN  UNION {{Merged(IF sameShape THEN Shaped(i.value, m.value, Min(targets))
                               ELSE TypeChoice([t \in targets |-> Shaped(i.value, m.value, t)]),
                               m.known) : m \in MergeParts(i.known)} :
                       i \in StorageIdentity(local, known)}
        Union ==
            UNION {IF SameLength(parts)
                   THEN {Merged(Overlap(i.value, m.value, [j \in DOMAIN m.value |-> targets]), m.known) :
                            m \in MergeParts(i.known)}
                   ELSE {Merged(TypeChoice([t \in targets |->
                                    Overlap(i.value, parts[t], observed[t].domains)]), i.known)} :
                   i \in StorageIdentity(local, known)}
        sameArity == /\ \A t \in targets : Len(observed[t].inputs) = Len(first.inputs)
                     /\ \A t \in targets : Len(observed[t].results) = Len(first.results)
    IN  CASE first.k \in {"int", "ptr"} /\ Alike(observed) -> {Merged(first, known)}
          [] Kinds(observed) = {"int"} /\ ~Alike(observed) ->
                {Merged(IF \A t \in targets : observed[t].bits = WordBits[t] THEN Word
                        ELSE TypeChoice(observed), known)}
          [] Kinds(observed) = {"array"} ->
                {Merged(Arr(m.value[1], TargetChoice([t \in targets |-> observed[t].count])), m.known) :
                    m \in MergeParts(known)}
          [] Kinds(observed) = {"record"} -> Record
          [] Kinds(observed) = {"overlap"} -> Union
          [] Kinds(observed) = {"function"} ->
                IF ~sameArity THEN {}
                ELSE {Merged(Fn(SubSeq(m.value, 1, Len(first.inputs)),
                                SubSeq(m.value, Len(first.inputs) + 1, Len(m.value))), m.known) :
                         m \in MergeParts(known)}
          [] OTHER -> {}

\* attribute: lists and dictionaries of one shape are merged member by member;
\* anything else that differs is kept as it was observed.
RECURSIVE MergeAttribute(_, _)
MergeAttribute(observed, known) ==
    LET targets == DOMAIN observed
        items == [t \in targets |-> observed[t].items]
        names == DOMAIN FirstOf(observed).entries
        order == SetToSeq(names)
        sameNames == \A t \in targets : DOMAIN observed[t].entries = names
        Entries(values) == [n \in names |-> values[CHOOSE i \in DOMAIN order : order[i] = n]]
    IN  CASE Kinds(observed) = {"type"} ->
                {Merged(TypeOf(m.value), m.known) :
                    m \in MergeType([t \in targets |-> observed[t].type], known)}
          [] Kinds(observed) = {"list"} /\ SameLength(items) ->
                {Merged(List(m.value), m.known) :
                    m \in MergeEach(MergeAttribute, Columns(items), known)}
          [] Kinds(observed) = {"dict"} /\ sameNames ->
                {Merged(Dict(Entries(m.value)), m.known) :
                    m \in MergeEach(MergeAttribute,
                              Columns([t \in targets |-> Values(observed[t].entries)]), known)}
          [] OTHER -> {Merged(TargetChoice(observed), known)}

\* attributes: those of an operation have the same names on every target.
MergeAttributes(observed, known) ==
    IF \E t \in DOMAIN observed : DOMAIN observed[t] # DOMAIN FirstOf(observed) THEN {}
    ELSE {Merged(m.value.entries, m.known) :
             m \in MergeAttribute([t \in DOMAIN observed |-> Dict(observed[t])], known)}
-----------------------------------------------------------------------------
(* function: the instructions of one block. *)

\* How many values a body has before instruction k.
Defined(body, k) ==
    Len(body.args) + FoldLeft(LAMBDA n, i : n + Len(i.results), 0, SubSeq(body.code, 1, k - 1))

\* key: the values of each target that a result of the merged body stands for.
ResultTuple(bodies, at) == [t \in DOMAIN bodies |-> Defined(bodies[t], at[t]) + 1]

\* operation: instructions of one shape, on operands that correspond.
MergeInstruction(current, tuples, known) ==
    LET targets == DOMAIN current
        first == FirstOf(current)
        Operand(i) == {v \in DOMAIN tuples : \A t \in targets : tuples[v][t] = current[t].operands[i]}
        shape == \A t \in targets : /\ Len(current[t].operands) = Len(first.operands)
                                    /\ Len(current[t].results) = Len(first.results)
        results == [t \in targets |-> current[t].results]
    IN  IF ~shape THEN {}
        ELSE UNION {{Merged([op |-> first.op, attrs |-> a.value, operands |-> o, results |-> r.value], r.known) :
                        o \in Each(Operand, [i \in DOMAIN first.operands |-> i]),
                        r \in MergeEach(MergeType, Columns(results), a.known)} :
                    a \in MergeAttributes([t \in targets |-> current[t].attrs], known)}

NativeCast == [sext |-> "native_sext", zext |-> "native_zext", trunc |-> "native_trunc"]

OptionalCast(i) == i.op = "sela.cast" /\ i.attrs.opcode.text \in DOMAIN NativeCast

TypeAt(body, v) ==
    IF v <= Len(body.args) THEN body.args[v]
    ELSE (CHOOSE i \in {body.code[k] : k \in {k \in DOMAIN body.code :
             Len(body.code[k].results) = 1 /\ Defined(body, k) + 1 = v}} : TRUE).results[1]

\* Mutant: the value of the merged cast is that of its operand.
CastTupleBefore(tuple, results, casts) == tuple

\* Where a target has no cast, the merged one is the value it casts elsewhere.
CastTuple(tuple, results, casts) ==
    [t \in DOMAIN tuple |-> IF t \in casts THEN results[t] ELSE tuple[t]]

\* The loop over a block: the next instruction of every target if they are of
\* one operation, else the integer casts some targets have here, as one cast.
RECURSIVE MergeCode(_, _, _, _, _)
MergeCode(bodies, at, tuples, code, known) ==
    LET targets == DOMAIN bodies
        left == {t \in targets : at[t] <= Len(bodies[t].code)}
        current == [t \in left |-> bodies[t].code[at[t]]]
        same == left = targets /\ \A t \in targets : current[t].op = FirstOf(current).op
        casts == {t \in left : OptionalCast(current[t])}
        sources == {v \in DOMAIN tuples : \A t \in casts : tuples[v][t] = current[t].operands[1]}
        source == CHOOSE v \in sources : TRUE
        result == CastTuple(tuples[source], ResultTuple(bodies, at), casts)
        Opcode(t) == IF t \in casts THEN NativeCast[current[t].attrs.opcode.text] ELSE "native_zext"
        Cast(type) == [op |-> "sela.cast", operands |-> <<source>>, results |-> <<type>>,
                       attrs |-> [opcode |-> TargetChoice([t \in targets |-> Text(Opcode(t))])]]
        Advanced(some) == [t \in targets |-> IF t \in some THEN at[t] + 1 ELSE at[t]]
    IN  IF left = {} THEN {Merged(code, known)}
        ELSE IF same
        THEN UNION {MergeCode(bodies, Advanced(targets),
                        IF m.value.results = <<>> THEN tuples ELSE Append(tuples, ResultTuple(bodies, at)),
                        Append(code, m.value), m.known) : m \in MergeInstruction(current, tuples, known)}
        ELSE IF casts = {} \/ Cardinality(sources) # 1 THEN {}
        ELSE UNION {MergeCode(bodies, Advanced(casts), Append(tuples, result),
                        Append(code, Cast(m.value)), m.known) :
                    m \in MergeType([t \in targets |-> TypeAt(bodies[t], result[t])], known)}

\* function: bodies are merged where all targets have one.
MergeBody(bodies, known) ==
    LET targets == DOMAIN bodies
        args == [t \in targets |-> bodies[t].args]
    IN  IF \A t \in targets : bodies[t].code = <<>> THEN {Merged(FirstOf(bodies), known)}
        ELSE IF (\E t \in targets : bodies[t].code = <<>>) \/ ~SameLength(args) THEN {}
        ELSE UNION {{Merged([args |-> a.value, code |-> c.value], c.known) :
                        c \in MergeCode(bodies, [t \in targets |-> 1],
                                [v \in DOMAIN a.value |-> [t \in targets |-> v]], <<>>, a.known)} :
                    a \in MergeEach(MergeType, Columns(args), known)}

-----------------------------------------------------------------------------
(* Modules. *)

MergeDefinition(peers, known) ==
    UNION {{Merged([op |-> FirstOf(peers).op, id |-> FirstOf(peers).id, targets |-> DOMAIN peers,
                    attrs |-> a.value, body |-> b.value], b.known) :
               b \in MergeBody([t \in DOMAIN peers |-> peers[t].body], a.known)} :
           a \in MergeAttributes([t \in DOMAIN peers |-> peers[t].attrs], known)}

\* Mutant: a flag all targets know by name gets the value of the first.
MergeFlagsByName(views) ==
    LET all == UNION {views[t].flags : t \in DOMAIN views}
        Of(name) == {t \in DOMAIN views : \E f \in views[t].flags : f.name = name}
        First(name) == CHOOSE f \in views[Min(Of(name))].flags : f.name = name
    IN  {[flag |-> First(f.name), targets |-> Of(f.name)] : f \in all}

\* merge: a module flag keeps the targets it was observed on.
MergeFlags(views) ==
    {[flag |-> f, targets |-> {t \in DOMAIN views : f \in views[t].flags}] :
        f \in UNION {views[t].flags : t \in DOMAIN views}}

\* mergeCommonModules: every definition of the first module has one peer in each
\* other, and no other definition is left.
MergeModules(views) ==
    LET targets == DOMAIN views
        first == views[Min(targets)].defs
        PeersIn(t, d) == {i \in DOMAIN views[t].defs : views[t].defs[i].id = d.id /\ views[t].defs[i].op = d.op}
        Peers(d) == [t \in targets |-> views[t].defs[CHOOSE i \in PeersIn(t, d) : TRUE]]
    IN  IF \E t \in targets : \/ Len(views[t].defs) # Len(first)
                              \/ \E i \in DOMAIN first : Cardinality(PeersIn(t, first[i])) # 1
        THEN {}
        ELSE {[public |-> [targets |-> targets, flags |-> MergeFlags(views), defs |-> m.value],
               known |-> m.known] :
                 m \in MergeEach(MergeDefinition, [i \in DOMAIN first |-> Peers(first[i])], {})}

\* Mutant: equal definitions are grouped wherever they are.
ScopedAnywhere(views, index) ==
    LET All(t) == ToSet(views[t].defs)
        here == {views[t].defs[index] : t \in {t \in DOMAIN views : index <= Len(views[t].defs)}}
    IN  SetToSeq({[op |-> d.op, id |-> d.id, attrs |-> d.attrs, body |-> d.body,
                   targets |-> {t \in DOMAIN views : d \in All(t)}] : d \in here})

\* factorScopedModules, at one position: one definition for each group of
\* targets whose definitions here are equal, for these targets alone.
ScopedAt(views, index) ==
    LET having == {t \in DOMAIN views : index <= Len(views[t].defs)}
        Group(t) == {u \in having : views[u].defs[index] = views[t].defs[index]}
        leaders == SetToSortSeq({Min(Group(t)) : t \in having}, <)
        Scoped(t) == LET d == views[t].defs[index]
                     IN  [op |-> d.op, id |-> d.id, attrs |-> d.attrs, body |-> d.body,
                          targets |-> Group(t)]
    IN  [g \in DOMAIN leaders |-> Scoped(leaders[g])]

FactorScoped(views) ==
    LET count == Max({Len(views[t].defs) : t \in DOMAIN views})
    IN  [targets |-> DOMAIN views,
         flags |-> UNION {{[flag |-> f, targets |-> {t}] : f \in views[t].flags} : t \in DOMAIN views},
         defs |-> FlattenSeq([index \in 1 .. count |-> ScopedAt(views, index)])]
=============================================================================
