---------------------------- MODULE Publication ----------------------------
(***************************************************************************)
(* One publication by sela-build, from the native selections of its build  *)
(* lanes to what selac rebuilds on a device.  combineSelected (Build.cpp)  *)
(* pairs the native units of the targets; the Clang plugin publishes one   *)
(* Sela object per pairing, regrouping units where the targets split their *)
(* definitions differently (ClangPlugin.cpp, Partitions.cpp); sela-build   *)
(* passes the objects, their scopes and each target's unit order to        *)
(* sela-ld (BuildMain.cpp; SelaLink); selac compiles one target's plan     *)
(* (consumer/Main.cpp).                                                    *)
(*                                                                         *)
(* A native unit is the record selectOutput returns for it: the identity   *)
(* of its capture, what pairs it with other targets' units, and the        *)
(* definitions its capture holds, in physical order.                       *)
(***************************************************************************)
EXTENDS SelaLink, Partitions, Functions

CONSTANTS
    Targets,    \* the selected targets, in registry order
    NotBuilt    \* a target selac has not compiled yet

ASSUME TargetsAssumption ==
    /\ Targets \in Seq(ToSet(Targets)) /\ Targets # <<>>
    /\ \A i, j \in DOMAIN Targets : Targets[i] = Targets[j] => i = j

VARIABLES
    kind,       \* the kind of native output selected, the same in every lane
    selected,   \* [target -> Seq(native unit)]: SelectedBuild.units
    settings,   \* [target -> link record]: libraries, options, script
    stage,      \* how far sela-build got
    captured,   \* CapturedBuild.units, .ordersByTarget
    objects,    \* the Sela objects published so far, one for each unit
    native      \* [target -> what selac built for it]

allVars == <<kind, selected, settings, stage, captured, objects, native, vars>>

AllTargets == ToSet(Targets)
Fail == stage' = "failed"

\* What selectOutput and selectArchive return for every target: only a static
\* library may be empty, and only its units have member names.
Selection ==
    /\ kind \in Kinds \ {"object"}
    /\ selected = [t \in AllTargets |-> selected[t]]
    /\ \A t \in AllTargets :
          /\ IsSeq(selected[t])
          /\ kind # "static" => selected[t] # <<>>
          /\ \A i \in DOMAIN selected[t] :
                /\ IsSeq(selected[t][i].definitions)
                /\ (selected[t][i].member # NoMember) <=> (kind = "static")
    /\ settings = [t \in AllTargets |->
                     [libraries |-> settings[t].libraries, options |-> settings[t].options,
                      script |-> settings[t].script]]
    /\ \A t \in AllTargets : IsSeq(settings[t].libraries)

PublicationInit ==
    /\ Selection
    /\ stage = "selected"
    /\ captured = [units |-> <<>>, orders |-> <<>>]
    /\ objects = <<>>
    /\ native = [t \in AllTargets |-> NotBuilt]
    /\ args = [kind |-> kind, inputs |-> <<>>, targets |-> AllTargets, domains |-> <<>>,
               names |-> <<>>, orders |-> <<>>, links |-> <<>>, common |-> EmptyLink]
    /\ work = NoWork(AllTargets)
    /\ result = Running

-----------------------------------------------------------------------------
(* combineSelected *)

\* Matching that would pair units compiled with different settings.
MatchesIdentity(left, right) ==
    (left.source = right.source \/ left.key = right.key) /\ left.member = right.member

Matches(left, right) ==
    /\ left.source = right.source \/ left.key = right.key
    /\ left.flags = right.flags
    /\ left.optimization = right.optimization
    /\ left.member = right.member

Reference == selected[Targets[1]]

SameOrder(units) ==
    /\ Len(units) = Len(Reference)
    /\ \A i \in DOMAIN Reference : Matches(Reference[i], units[i])

Candidates(unit, units) == {j \in DOMAIN units : Matches(unit, units[j])}

\* Every unit of the reference has one candidate, and no two share it.
UniquePeers(units) ==
    /\ Len(units) = Len(Reference)
    /\ \A i \in DOMAIN Reference : Cardinality(Candidates(Reference[i], units)) = 1
    /\ \A i, j \in DOMAIN Reference :
          Candidates(Reference[i], units) = Candidates(Reference[j], units) => i = j

\* The units of a static output keep their physical order.
Corresponding(units) == SameOrder(units) \/ (kind # "static" /\ UniquePeers(units))

Peers(units) ==
    IF SameOrder(units) THEN [i \in DOMAIN Reference |-> i]
    ELSE [i \in DOMAIN Reference |->
             CHOOSE j \in DOMAIN units : Matches(Reference[i], units[j])]

\* order as it would be if the peers were used as they are.
PeerOrder(peers) == peers

\* order[peers[i]] = i.
UnitOrder(peers) == AntiFunction(peers)

\* Every target has a peer for each reference unit.
PairedBuild ==
    LET peers == [t \in AllTargets |-> Peers(selected[t])]
    IN  [units |-> [i \in DOMAIN Reference |->
                       [paths |-> [t \in AllTargets |-> <<selected[t][peers[t][i]]>>],
                        optimization |-> Reference[i].optimization,
                        member |-> Reference[i].member]],
         orders |-> [t \in {u \in AllTargets :
                              \E i \in DOMAIN Reference : peers[u][i] # i} |->
                       UnitOrder(peers[t])]]

\* All native units of all targets as one group, for the merger to partition.
GroupedBuild ==
    [units |-> <<[paths |-> selected,
                  optimization |-> Reference[1].optimization,
                  member |-> NoMember]>>,
     orders |-> <<>>]

\* Puts a unit with the first matching one that has no unit of its target yet.
PlaceUnit(built, t, unit) ==
    LET found == SelectInSeq(built.units,
                     LAMBDA u : Matches(u.representative, unit) /\ t \notin DOMAIN u.paths)
        index == IF found = 0 THEN Len(built.units) + 1 ELSE found
    IN  [units |-> IF found = 0
                   THEN Append(built.units,
                               [representative |-> unit, paths |-> [u \in {t} |-> <<unit>>],
                                optimization |-> unit.optimization,
                                member |-> unit.member])
                   ELSE [built.units EXCEPT ![index].paths =
                            [u \in DOMAIN @ \cup {t} |-> IF u = t THEN <<unit>> ELSE @[u]]],
         orders |-> [built.orders EXCEPT ![t] = Append(@, index)]]

\* The same for all units of a target.
PlaceUnits(built, t, units) ==
    LET placed[j \in 0 .. Len(units)] ==
            IF j = 0 THEN built ELSE PlaceUnit(placed[j - 1], t, units[j])
    IN  placed[Len(units)]

\* Heterogeneous native units stay separate.
ScopedBuild ==
    LET placed[i \in 0 .. Len(Targets)] ==
            IF i = 0 THEN [units |-> <<>>, orders |-> [t \in AllTargets |-> <<>>]]
            ELSE PlaceUnits(placed[i - 1], Targets[i], selected[Targets[i]])
    IN  placed[Len(Targets)]

\* Mutant: only the targets' first units are compared.
CommonFirstSettings ==
    /\ kind # "static"
    /\ \A t \in AllTargets :
          /\ selected[t][1].flags = Reference[1].flags
          /\ selected[t][1].optimization = Reference[1].optimization

CommonSettings ==
    /\ kind # "static"
    /\ \A t \in AllTargets : \A i \in DOMAIN selected[t] :
          /\ selected[t][i].flags = Reference[1].flags
          /\ selected[t][i].optimization = Reference[1].optimization

CombineSelected ==
    /\ stage = "selected"
    /\ LET paired == \A t \in AllTargets : Corresponding(selected[t])
       IN  IF ~ paired /\ \E t \in AllTargets : selected[t] = <<>>
           THEN Fail /\ UNCHANGED captured
           ELSE /\ captured' = IF paired THEN PairedBuild
                               ELSE IF CommonSettings THEN GroupedBuild
                               ELSE ScopedBuild
                /\ stage' = "publish"
    /\ UNCHANGED <<kind, selected, settings, objects, native, vars>>

-----------------------------------------------------------------------------
(* Publishing one object for each captured unit: SelaAction::emit, mode=profiles *)

InOrder(domain) == Picked(Targets, {i \in DOMAIN Targets : Targets[i] \in domain})

ObjectOf(modules, plan, domain) ==
    [kind |-> "object", targets |-> domain, modules |-> modules, plan |-> plan,
     links |-> [t \in domain |-> EmptyLink]]

\* One capture for each target: a single common module.
PlainObject(unit) ==
    LET domain == DOMAIN unit.paths
        modules == <<[bytecode |-> [t \in domain |->
                          Piece(unit.paths[t][1], unit.paths[t][1].definitions)],
                      targets |-> domain]>>
    IN  ObjectOf(modules, DefaultPlan(domain, modules, unit.optimization), domain)

PartitionedObject(unit, partition) ==
    ObjectOf([f \in DOMAIN partition.fragments |->
                 [bytecode |-> partition.fragments[f],
                  targets |-> DOMAIN partition.fragments[f]]],
             [t \in DOMAIN unit.paths |->
                 [i \in DOMAIN partition.units[t] |->
                     [modules |-> partition.units[t][i],
                      optimization |-> unit.optimization, member |-> NoMember]]],
             DOMAIN unit.paths)

PublishUnit ==
    /\ stage = "publish" /\ Len(objects) < Len(captured.units)
    /\ LET unit == captured.units[Len(objects) + 1]
           domain == DOMAIN unit.paths
       IN  \E object \in IF \A t \in domain : Len(unit.paths[t]) = 1
                         THEN {PlainObject(unit)}
                         ELSE {PartitionedObject(unit, partition) : partition \in
                                  MergeProfilePartitions(InOrder(domain), unit.paths)} :
              /\ objects' = Append(objects, object)
              /\ stage' = IF ValidPackage(object) THEN stage ELSE "invalid"
    /\ UNCHANGED <<kind, selected, settings, captured, native, vars>>

\* The importer does not accept every capture.
PublishFails ==
    /\ stage = "publish" /\ Len(objects) < Len(captured.units)
    /\ Fail
    /\ UNCHANGED <<kind, selected, settings, captured, objects, native, vars>>

-----------------------------------------------------------------------------
(* Linking the objects: the second half of build() *)

\* A target's order of the captured units, as it would be passed unchanged.
CapturedOrder(t) == captured.orders[t]

\* The same order as the link sees it: ranks among the units active for t.
TargetOrder(t) ==
    LET order == captured.orders[t]
    IN  [i \in DOMAIN order |->
            Cardinality({j \in 1 .. order[i] : t \in DOMAIN captured.units[j].paths})]

\* An order names a unit its target has no capture of.
OrderInactive ==
    \E t \in DOMAIN captured.orders : \E i \in ToSet(captured.orders[t]) :
        t \notin DOMAIN captured.units[i].paths

\* The command line of sela-ld.
LinkArguments ==
    LET common == \A t \in AllTargets : settings[t] = settings[Targets[1]]
        scoped == {k \in DOMAIN objects : DOMAIN captured.units[k].paths # AllTargets}
    IN  [kind |-> kind, inputs |-> objects, targets |-> AllTargets,
         domains |-> [k \in scoped |-> DOMAIN captured.units[k].paths],
         names |-> IF kind = "static"
                   THEN [k \in DOMAIN objects |-> captured.units[k].member] ELSE <<>>,
         orders |-> [t \in DOMAIN captured.orders |-> TargetOrder(t)],
         links |-> IF common THEN <<>> ELSE settings,
         common |-> IF common THEN settings[Targets[1]] ELSE EmptyLink]

StartLink ==
    /\ stage = "publish" /\ Len(objects) = Len(captured.units)
    /\ args' = LinkArguments
    /\ work' = NoWork(AllTargets)
    /\ result' = Running
    /\ stage' = IF OrderInactive THEN "invalid" ELSE "link"
    /\ UNCHANGED <<kind, selected, settings, captured, objects, native>>

LinkStep ==
    /\ stage = "link"
    /\ CheckArguments \/ AdmitInput \/ WritePackage
    /\ UNCHANGED <<kind, selected, settings, stage, captured, objects, native>>

\* The staged package is read back, validated and moved over the artifact.
Install ==
    /\ stage = "link" /\ result # Running
    /\ stage' = IF result.status = "written" /\ ValidPackage(result.package)
                THEN "published" ELSE "failed"
    /\ UNCHANGED <<kind, selected, settings, captured, objects, native, vars>>

-----------------------------------------------------------------------------
(* selac, on a device of target t: execute() *)

\* lowerCompilationUnit joins what each fragment holds for this target.
LowerUnit(unit, t) ==
    [captures |-> {unit.bytecode[j][t].capture : j \in DOMAIN unit.bytecode},
     definitions |-> FlattenSeq([j \in DOMAIN unit.bytecode |->
                                    unit.bytecode[j][t].definitions]),
     optimization |-> unit.optimization,
     member |-> unit.member]

Selac(t) ==
    /\ stage = "published" /\ native[t] = NotBuilt
    /\ t \in result.package.targets
    /\ native' = [native EXCEPT ![t] =
           LET units == Recovered(result.package, t)
           IN  [i \in DOMAIN units |-> LowerUnit(units[i], t)]]
    /\ UNCHANGED <<kind, selected, settings, stage, captured, objects, vars>>

\* Nothing is left to do.
Over ==
    /\ stage \in {"failed", "invalid"} \/ (stage = "published" /\ \A t \in AllTargets : native[t] # NotBuilt)
    /\ UNCHANGED allVars

PublicationNext ==
    \/ CombineSelected \/ PublishUnit \/ PublishFails
    \/ StartLink \/ LinkStep \/ Install
    \/ \E t \in AllTargets : Selac(t)
    \/ Over

PublicationSpec == PublicationInit /\ [][PublicationNext]_allVars

-----------------------------------------------------------------------------
(***************************************************************************)
(* What publication promises.                                              *)
(***************************************************************************)

\* The native unit the build lane of a target selected, as selac should see it.
NativeUnit(unit) ==
    [captures |-> {unit.capture}, definitions |-> unit.definitions,
     optimization |-> unit.optimization, member |-> unit.member]

\* selac compiles, for every target, exactly the native units its build lane
\* selected: each from its own capture with all its definitions in their order,
\* at its optimization and under its archive member name, in native order.
EndToEnd ==
    \A t \in AllTargets : native[t] # NotBuilt =>
        native[t] = [i \in DOMAIN selected[t] |-> NativeUnit(selected[t][i])]

\* Published objects and unit orders are always valid, and sela-ld refuses what
\* sela-build hands it only at its limits or for link
\* settings the kind of output may not carry: scopes, unit orders, member names
\* and plans built by combineSelected always fit together.
LinkAccepts ==
    /\ stage # "invalid"
    /\ result.status = "refused" =>
          \/ result.why \in {"limit", "files"}
          \/ /\ result.why = "package"
             /\ \E t \in AllTargets : ~ ValidLinkRecord(kind, settings[t])

\* An installed package serves every selected target with the link settings its
\* own lane observed, whether they were common or recorded target by target.
LinksFaithful ==
    stage = "published" => result.package.links = settings

-----------------------------------------------------------------------------
(* Refinement. *)

\* What a package makes of each target, wherever it is in the pipeline.
Denoted(package) ==
    [t \in package.targets |->
        [units |-> LET units == Recovered(package, t)
                   IN  [i \in DOMAIN units |-> LowerUnit(units[i], t)],
         link |-> package.links[t]]]

Exact == INSTANCE ExactPublication WITH
    Target <- AllTargets,
    chosen <- [t \in AllTargets |->
                  [units |-> [i \in DOMAIN selected[t] |-> NativeUnit(selected[t][i])],
                   link |-> settings[t]]],
    artifact <- IF stage = "published" THEN {Denoted(result.package)} ELSE {},
    device <- native

\* Pairing, regrouping, scoping, reordering and linking come to one step of the
\* abstract publication: what replaceFile installs is, for every target and from
\* that very moment, what its own lane selected, and nothing is seen before.
ImplementsExact == Exact!Spec

=============================================================================
