------------------------ MODULE PublicationInvariant ------------------------
(***************************************************************************)
(* The inductive invariant of a publication: what combineSelected, the     *)
(* producer plugin and sela-ld leave behind, stage by stage, relative to   *)
(* the selections of the build lanes.                                      *)
(***************************************************************************)
EXTENDS Publication, SelaLinkInvariant

\* What selac should build for target t, and what a package makes it build.
Native(t) == [i \in DOMAIN selected[t] |-> NativeUnit(selected[t][i])]
Lowered(units, t) == [i \in DOMAIN units |-> LowerUnit(units[i], t)]

\* What the i-th capture of captured unit k has to become on target t.
PlannedUnit(k, t, i) ==
    LET unit == captured.units[k]
    IN  [captures |-> {unit.paths[t][i].capture},
         definitions |-> unit.paths[t][i].definitions,
         optimization |-> unit.optimization,
         member |-> unit.member]

Planned(k, t) ==
    IF t \in DOMAIN captured.units[k].paths
    THEN [i \in DOMAIN captured.units[k].paths[t] |-> PlannedUnit(k, t, i)] ELSE <<>>

\* The captured units of target t, in the order of their objects.
PlannedUnits(t) == FlattenSeq([k \in DOMAIN captured.units |-> Planned(k, t)])

\* Each captured unit has captures of some targets; those of a static library are
\* members, one for each.
UnitsCaptured ==
    /\ IsSeq(captured.units)
    /\ kind # "static" => captured.units # <<>>
    /\ \A k \in DOMAIN captured.units :
          LET unit == captured.units[k]
          IN  /\ DOMAIN unit.paths # {} /\ DOMAIN unit.paths \subseteq AllTargets
              /\ (unit.member # NoMember) <=> (kind = "static")
              /\ \A t \in DOMAIN unit.paths :
                    /\ IsSeq(unit.paths[t]) /\ unit.paths[t] # <<>>
                    /\ kind = "static" => Len(unit.paths[t]) = 1
                    /\ \A i \in DOMAIN unit.paths[t] : IsSeq(unit.paths[t][i].definitions)

\* Each target's native units are the captured ones, in the order passed to
\* sela-ld where there is one.
UnitsPaired ==
    /\ ~ OrderInactive /\ DOMAIN captured.orders \subseteq AllTargets
    /\ \A t \in AllTargets :
          IF t \in DOMAIN captured.orders
          THEN /\ TargetOrder(t) \in Seq(Nat)
               /\ Len(TargetOrder(t)) = Len(PlannedUnits(t))
               /\ ToSet(TargetOrder(t)) = DOMAIN PlannedUnits(t)
               /\ Native(t) = [i \in DOMAIN TargetOrder(t) |->
                                  PlannedUnits(t)[TargetOrder(t)[i]]]
          ELSE Native(t) = PlannedUnits(t)

\* What one published object is worth.
ObjectFaithful(object, k) ==
    /\ Decoded(object) /\ ValidPackage(object) /\ object.kind = "object"
    /\ object.targets = DOMAIN captured.units[k].paths
    /\ \A t \in object.targets :
          /\ object.links[t] = EmptyLink
          /\ DOMAIN object.plan[t] = DOMAIN captured.units[k].paths[t]
          /\ \A i \in DOMAIN object.plan[t] :
                LowerUnit(Recovered(object, t)[i], t)
                  = [PlannedUnit(k, t, i) EXCEPT !.member = NoMember]

ObjectsPublished ==
    /\ IsSeq(objects) /\ Len(objects) <= Len(captured.units)
    /\ \A k \in DOMAIN objects : ObjectFaithful(objects[k], k)

\* sela-ld runs on the command line made for it.
Linking ==
    /\ Len(objects) = Len(captured.units)
    /\ args = LinkArguments /\ LinkSound
    /\ work.libraries = [t \in AllTargets |-> <<>>]
    /\ result.status = "written" => result.package.links = settings

\* What sela-ld may refuse: fragments that do not inspect besides what LinkAccepts
\* allows.
LinkAnswers ==
    result.status = "refused" =>
        \/ result.why \in {"limit", "files"}
        \/ result.why = "bytecode" /\ InspectFails # {}
        \/ /\ result.why = "package"
           /\ \E t \in AllTargets : ~ ValidLinkRecord(kind, settings[t])

Stages == {"selected", "publish", "link", "published", "failed"}

PublicationSound ==
    /\ Selection /\ stage \in Stages
    /\ stage \in {"publish", "link", "published"} =>
          UnitsCaptured /\ UnitsPaired /\ ObjectsPublished
    /\ stage \in {"selected", "publish"} => result = Running
    /\ stage = "selected" => objects = <<>>
    /\ stage \in {"link", "published"} => Linking
    /\ stage = "published" => result.status = "written"
    /\ DOMAIN native = AllTargets /\ EndToEnd /\ LinkAnswers
=============================================================================
