---------------------------- MODULE ProfileMerge ----------------------------
(***************************************************************************)
(* mergeProfiles (Producer.cpp): the modules Clang compiled for each       *)
(* target become one public module.  They are merged, or else kept side by *)
(* side; either result is published only after it is lowered again for     *)
(* each target and compared with what was observed there.                  *)
(*                                                                         *)
(* A capture is [module, evidence], a native module as CommonTypes has it  *)
(* and the debug evidence of its unions.  Left out: the reconstruction of  *)
(* aggregate arguments and variadic calls, which may fail and then leaves  *)
(* the capture as it is; instructions other than casts are their name,     *)
(* attributes and operands.                                                *)
(***************************************************************************)
EXTENDS CommonTypes, OverlapStorage, Functions

VARIABLES
    phase,     \* "observing", "proving", "published", "refused"
    expected,  \* how many targets are observed
    captures,  \* normalized: one capture for each of them so far
    views,     \* the public form of each
    public,    \* merged, the module proved or published
    known,     \* sharedStorageIdentities
    scoped     \* the definitions are kept side by side

vars == <<phase, expected, captures, views, public, known, scoped>>

-----------------------------------------------------------------------------
(* Native and public forms of storage. *)

\* The structs and unions of a type, outermost first.
RECURSIVE StorageIn(_)
StorageIn(type) ==
    LET inner == Collected(StorageIn, Parts(type))
    IN  IF type.k \in {"record", "overlap"} /\ type.identity # Anonymous
        THEN <<type>> \o inner ELSE inner

StorageOfTypes(types) == Collected(StorageIn, types)
StorageOfAttributes(attrs) == StorageOfTypes(TypesIn(Dict(attrs)))
StorageOfInstruction(i) == StorageOfTypes(i.results) \o StorageOfAttributes(i.attrs)
StorageOfDefinition(d) ==
    StorageOfAttributes(d.attrs) \o StorageOfTypes(d.body.args)
        \o Collected(StorageOfInstruction, d.body.code)
StorageOf(module) == Collected(StorageOfDefinition, module.defs)

Identities(module) == {s.identity : s \in ToSet(StorageOf(module))}

\* Every struct named by identity takes the identity it is given, and becomes
\* the union given for it, if one is.  given: identity -> [identity, storage].
RECURSIVE Renamed(_, _)
Renamed(type, given) ==
    LET All(types) == [i \in DOMAIN types |-> Renamed(types[i], given)]
    IN  CASE type.k \in {"record", "overlap"} /\ type.identity # Anonymous ->
                IF given[type.identity].storage # {}
                THEN CHOOSE s \in given[type.identity].storage : TRUE
                ELSE Rec(given[type.identity].identity, type.packed, All(type.members))
          [] type.k = "record" /\ type.identity = Anonymous ->
                Rec(Anonymous, type.packed, All(type.members))
          [] type.k = "array" -> Arr(Renamed(type.element, given), type.count)
          [] type.k = "function" -> Fn(All(type.inputs), All(type.results))
          [] OTHER -> type

RECURSIVE RenamedAttribute(_, _)
RenamedAttribute(a, given) ==
    CASE a.k = "type" -> TypeOf(Renamed(a.type, given))
      [] a.k = "list" -> List([i \in DOMAIN a.items |-> RenamedAttribute(a.items[i], given)])
      [] a.k = "dict" -> Dict([n \in DOMAIN a.entries |-> RenamedAttribute(a.entries[n], given)])
      [] OTHER -> a

RenamedTypes(types, given) == [i \in DOMAIN types |-> Renamed(types[i], given)]
RenamedAttributes(attrs, given) == [n \in DOMAIN attrs |-> RenamedAttribute(attrs[n], given)]

RenamedBody(body, given) ==
    [args |-> RenamedTypes(body.args, given),
     code |-> [k \in DOMAIN body.code |->
        [body.code[k] EXCEPT !.attrs = RenamedAttributes(@, given),
                             !.results = RenamedTypes(@, given)]]]

RenamedModule(module, given) ==
    [flags |-> module.flags,
     defs |-> [i \in DOMAIN module.defs |->
        [module.defs[i] EXCEPT !.attrs = RenamedAttributes(@, given),
                               !.body = RenamedBody(@, given)]]]

\* LLVMImporter::type: the structs of a module, numbered as they are met.
Tags(module) ==
    FoldLeft(LAMBDA seen, s : IF Contains(seen, s.identity) THEN seen ELSE Append(seen, s.identity),
             <<>>, StorageOf(module))

LocalIdentity(tags, tag) == SelectInSeq(tags, LAMBDA other : other = tag) - 1

PublicStorage(tag, identity, unions, t) ==
    [identity |-> identity,
     storage |-> IF tag \notin DOMAIN unions THEN {}
                 ELSE {Overlap(identity, unions[tag], [u \in DOMAIN unions[tag] |-> {t}])}]

ImportTagged(module, tags, unions, t) ==
    RenamedModule(module,
        [tag \in ToSet(tags) |-> PublicStorage(tag, LocalIdentity(tags, tag), unions, t)])

\* importModule: the public form of what was captured for target t.
Import(module, unions, t) == ImportTagged(module, Tags(module), unions, t)

-----------------------------------------------------------------------------
(* The device's side: specializeDomains and lowering. *)

SpecializeTypes(types, t) == Each(LAMBDA type : SpecializeType(type, t), types)
SpecializeAttributes(attrs, t) == EachNamed(LAMBDA a : SpecializeAttribute(a, t), attrs)

\* What a cast with a native opcode comes to.
PlainOpcode(text) ==
    IF \E n \in DOMAIN NativeCast : NativeCast[n] = text
    THEN CHOOSE n \in DOMAIN NativeCast : NativeCast[n] = text ELSE text

\* s maps the values of the public body to those of the lowered one so far.
LowerInstruction(s, i) ==
    LET lowered == [i EXCEPT !.operands = [o \in DOMAIN @ |-> s.value[@[o]]],
                             !.attrs = IF i.op = "sela.cast"
                                       THEN [opcode |-> Text(PlainOpcode(@.opcode.text))] ELSE @]
    IN  [code |-> Append(s.code, lowered), type |-> s.type \o i.results,
         next |-> s.next + Len(i.results),
         value |-> IF i.results = <<>> THEN s.value ELSE Append(s.value, s.next)]

\* A cast with a native opcode is its operand where that has its type already,
\* and values are numbered anew.
LowerStep(s, i) ==
    IF /\ i.op = "sela.cast" /\ PlainOpcode(i.attrs.opcode.text) # i.attrs.opcode.text
       /\ s.type[i.operands[1]] = i.results[1]
    THEN [s EXCEPT !.value = Append(@, s.value[i.operands[1]]), !.type = @ \o i.results]
    ELSE LowerInstruction(s, i)

LowerCode(args, code) ==
    FoldLeft(LowerStep, [code |-> <<>>, next |-> Len(args) + 1, type |-> args,
                         value |-> [v \in DOMAIN args |-> v]], code).code

SpecializeInstruction(i, t) ==
    {[i EXCEPT !.attrs = attrs, !.results = results] :
        attrs \in SpecializeAttributes(i.attrs, t), results \in SpecializeTypes(i.results, t)}

SpecializeBody(body, t) ==
    {[args |-> a, code |-> LowerCode(a, c)] :
        a \in SpecializeTypes(body.args, t),
        c \in Each(LAMBDA i : SpecializeInstruction(i, t), body.code)}

SpecializeDefinition(d, t) ==
    {[op |-> d.op, id |-> d.id, attrs |-> a, body |-> b] :
        a \in SpecializeAttributes(d.attrs, t), b \in SpecializeBody(d.body, t)}

\* specializeDomains: what module m holds for target t.
SpecializeModule(m, t) ==
    {[flags |-> {f.flag : f \in {f \in m.flags : t \in f.targets}}, defs |-> defs] :
        defs \in Each(LAMBDA d : SpecializeDefinition(d, t),
                      SelectSeq(m.defs, LAMBDA d : t \in d.targets))}

\* A union is the struct of its carrier.
NativeStorage(s, t) ==
    IF s.k = "record" THEN {s}
    ELSE {Rec(s.identity, FALSE, <<c>>) : c \in SelectCarrier(s.members, t)}

LowerTypes(module, storage, t) ==
    LET Given(s) == [identity |-> s.identity,
                     storage |-> IF s.k = "record" THEN {} ELSE NativeStorage(s, t)]
        Of(identity) == CHOOSE s \in storage : s.identity = identity
    IN  IF \/ \E r, s \in storage : r # s /\ r.identity = s.identity
           \/ \E s \in storage : NativeStorage(s, t) = {}
        THEN {}
        ELSE {RenamedModule(module, [identity \in {s.identity : s \in storage} |-> Given(Of(identity))])}

\* The lowering's types: one definition for each storage identity.
LowerStorage(module, t) == LowerTypes(module, ToSet(StorageOf(module)), t)

Lower(m, t) == UNION {LowerStorage(module, t) : module \in SpecializeModule(m, t)}

\* verifyTargetDomains and verifyModuleStructure.
VerifyDomains(m) ==
    /\ m.targets # {} /\ m.targets \subseteq Qualified
    /\ \A f \in m.flags : CheckSet(f.targets, m.targets)
    /\ \A i \in DOMAIN m.defs :
        LET d == m.defs[i]
            operations == {d.attrs} \cup {d.body.code[k].attrs : k \in DOMAIN d.body.code}
            types == d.body.args \o Collected(LAMBDA instruction : instruction.results, d.body.code)
        IN  /\ CheckSet(d.targets, m.targets)
            /\ \A attrs \in operations :
                /\ CheckAttribute(Dict(attrs), d.targets)
                /\ \A type \in ToSet(TypesIn(Dict(attrs))) : CheckType(type, m.targets)
            /\ \A type \in ToSet(types) : CheckType(type, m.targets)

VerifyStructure(m) == VerifyDomains(m) /\ \A t \in m.targets : SpecializeModule(m, t) # {}

-----------------------------------------------------------------------------
(* mergeProfiles. *)

\* Where only part of a module's unions is explained, or anything else of the
\* reconstruction fails, all of it is dropped.
Recovered(c, t) ==
    {<<>>} \cup Discover(ToSet(StorageOf(c.module)), c.evidence, t)

Observe(c, unions) ==
    /\ phase = "observing" /\ Len(captures) < expected
    /\ unions \in Recovered(c, Len(captures) + 1)
    /\ captures' = Append(captures, c)
    /\ views' = Append(views, Import(c.module, unions, Len(captures) + 1))
    /\ UNCHANGED <<phase, expected, public, known, scoped>>

RetainScoped ==
    /\ public' = FactorScoped(views) /\ known' = {} /\ scoped' = TRUE

Merge ==
    /\ phase = "observing" /\ Len(captures) = expected
    /\ phase' = "proving"
    /\ \E merged \in {MergeModules(views)} :
           \/ \E m \in merged : public' = m.public /\ known' = m.known /\ scoped' = FALSE
           \/ merged = {} /\ RetainScoped
    /\ UNCHANGED <<expected, captures, views>>

\* sharedStorageIdentities of a struct, or its own identity.
SharedIdentity(local, t) ==
    LET shared == {e.shared : e \in {e \in known : e.target = t /\ e.local = local}}
    IN  IF shared = {} THEN local ELSE CHOOSE s \in shared : TRUE

ReferenceTagged(module, tags, t) ==
    LET Named(tag) == SharedIdentity(LocalIdentity(tags, tag), t)
    IN  IF Cardinality({Named(tag) : tag \in ToSet(tags)}) # Len(tags) THEN {}
        ELSE {RenamedModule(module,
                 [tag \in ToSet(tags) |-> [identity |-> Named(tag), storage |-> {}]])}

\* The capture, its structs named by their shared identities.  A name taken
\* already would be changed, so that the comparison fails.
Reference(t) == ReferenceTagged(captures[t].module, Tags(captures[t].module), t)

\* Mutant: a merged module is only verified.
VerifiedOnly(m) == VerifyStructure(m)

\* prove: every target gets back exactly what was observed on it.
Proves(m) ==
    /\ VerifyStructure(m)
    /\ \A t \in DOMAIN captures : \E reference \in Reference(t) : Lower(m, t) = {reference}

\* The merge may be given up, never the proof.
Prove ==
    /\ phase = "proving"
    /\ \E proven \in {Proves(public)} :
           /\ phase' = IF proven THEN "published" ELSE IF scoped THEN "refused" ELSE "proving"
           /\ IF proven \/ scoped THEN UNCHANGED <<public, known, scoped>> ELSE RetainScoped
    /\ UNCHANGED <<expected, captures, views>>

ProfilesInit(n) ==
    /\ phase = "observing" /\ expected = n
    /\ captures = <<>> /\ views = <<>>
    /\ public = <<>> /\ known = {} /\ scoped = FALSE

ProfilesNext == Merge \/ Prove

-----------------------------------------------------------------------------
(* Properties. *)

\* What is published is, on every target, the module observed there, up to new
\* names for its structs that keep them apart: whatever choices, words and
\* optional casts the merge made, whether or not the unions were recovered,
\* and although names that a choice kept may be those of other structs.
LowersBack ==
    phase = "published" =>
        \A t \in DOMAIN captures : \E lowered \in {Lower(public, t)} :
            LET module == captures[t].module
                names == UNION {Identities(m) : m \in lowered}
            IN  \E f \in Injection(Identities(module), names) :
                    lowered = {RenamedModule(module,
                                 [tag \in DOMAIN f |-> [identity |-> f[tag], storage |-> {}]])}

\* Attributes of one shape: no struct is named in a part of one target only.
RECURSIVE SameShape(_, _)
SameShape(a, b) ==
    CASE a.k = "type" /\ b.k = "type" -> TRUE
      [] a.k = "list" /\ b.k = "list" /\ Len(a.items) = Len(b.items) ->
            \A i \in DOMAIN a.items : SameShape(a.items[i], b.items[i])
      [] a.k = "dict" /\ b.k = "dict" /\ DOMAIN a.entries = DOMAIN b.entries ->
            \A n \in DOMAIN a.entries : SameShape(a.entries[n], b.entries[n])
      [] OTHER -> StorageOfTypes(TypesIn(a) \o TypesIn(b)) = <<>>

Regular ==
    \A t, u \in DOMAIN captures :
        LET a == captures[t].module.defs
            b == captures[u].module.defs
        IN  /\ Len(a) = Len(b)
            /\ \A i \in DOMAIN a : a[i].id = b[i].id /\ SameShape(Dict(a[i].attrs), Dict(b[i].attrs))

\* The merge is right without its safety net: a merged module is proved, so the
\* definitions stay common, unless the targets order their definitions
\* differently or a struct is named in an attribute of some targets only.
CommonProves == phase = "proving" /\ ~scoped /\ Regular => Proves(public)

\* Side by side, whatever was observed can be published: factoring is optional,
\* and no program is refused because its targets are unlike.
ScopedSuffices == phase # "refused"
=============================================================================
