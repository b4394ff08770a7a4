------------------------------ MODULE Artifact ------------------------------
(***************************************************************************)
(* The public .sela package (Artifact.cpp), without its JSON and tar       *)
(* encoding.  A package is a record                                        *)
(*   kind     "object", "executable", "shared" or "static";                *)
(*   targets  the targets it serves;                                       *)
(*   modules  a sequence of [bytecode, targets]: the common IR fragments,  *)
(*            each with the targets it is available to;                    *)
(*   plan     for each target the native compilation units in their native *)
(*            order, each [modules, optimization, member] with the indices *)
(*            of the fragments that make it up;                            *)
(*   links    for each target [libraries, options, script].                *)
(* Indices count from 1 here and from 0 in the code.                       *)
(***************************************************************************)
EXTENDS Naturals, Sequences, FiniteSets, SequencesExt

CONSTANTS
    MaxModules,   \* LinkMain's limit on fragments (510)
    MaxFiles,     \* MaxFiles of Artifact.cpp (512)
    NoMember,     \* the empty archive member name
    NoScript,     \* the empty version script
    NoOptions     \* no link options

ASSUME LimitsAssumption == MaxModules \in Nat /\ MaxFiles \in Nat

Kinds == {"object", "executable", "shared", "static"}

EmptyLink == [libraries |-> <<>>, options |-> NoOptions, script |-> NoScript]

\* validateLinkRecord: which link settings an artifact of this kind may carry.
ValidLinkRecord(kind, link) ==
    /\ kind = "static" => link.libraries = <<>>
    /\ kind \in {"object", "static"} => link.options = NoOptions
    /\ kind # "shared" => link.script = NoScript

\* The fragments a target's plan refers to, unit after unit.
References(units) == FlattenSeq([i \in DOMAIN units |-> units[i].modules])

\* The fragments whose availability domain contains target t.
Active(modules, t) == {i \in DOMAIN modules : t \in modules[i].targets}

\* readCompilationPlan, for one target: every unit has fragments, and the units
\* together name each fragment active for the target exactly once.
ValidUnits(package, t) ==
    LET units == package.plan[t]
        references == References(units)
    IN  /\ Len(units) <= Len(package.modules)
        /\ \A i \in DOMAIN units :
              /\ units[i].modules # <<>>
              /\ (units[i].member # NoMember) <=> (package.kind = "static")
        /\ Len(references) = Cardinality(ToSet(references))
        /\ ToSet(references) = Active(package.modules, t)

\* validatePackage on a package whose digests and encoding are right.
ValidPackage(package) ==
    /\ package.kind \in Kinds
    /\ package.targets # {}
    /\ package.modules = <<>> => package.kind = "static"
    /\ \A i \in DOMAIN package.modules :
          /\ package.modules[i].targets # {}
          /\ package.modules[i].targets \subseteq package.targets
    /\ DOMAIN package.plan = package.targets
    /\ DOMAIN package.links = package.targets
    /\ \A t \in package.targets :
          /\ ValidLinkRecord(package.kind, package.links[t])
          /\ ValidUnits(package, t)

\* The files writePackage counts: the manifest, the fragments and one version
\* script for each target that has one.
FileCount(package) ==
    1 + Len(package.modules)
      + Cardinality({t \in package.targets : package.links[t].script # NoScript})

\* createArtifact without an explicit plan: every fragment is a unit of its own
\* for each target it is available to.
DefaultPlan(targets, modules, optimization) ==
    [t \in targets |->
        FlattenSeq([i \in DOMAIN modules |->
            IF t \in modules[i].targets
            THEN <<[modules |-> <<i>>, optimization |-> optimization, member |-> NoMember]>>
            ELSE <<>>])]

\* What selac makes of one target's plan: the bytecode of every unit, in order.
Recovered(package, t) ==
    [i \in DOMAIN package.plan[t] |->
        LET unit == package.plan[t][i]
        IN  [bytecode |-> [j \in DOMAIN unit.modules |->
                              package.modules[unit.modules[j]].bytecode],
             optimization |-> unit.optimization,
             member |-> unit.member]]

=============================================================================
