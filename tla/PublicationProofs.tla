------------------------- MODULE PublicationProofs -------------------------
(***************************************************************************)
(* What a publication as a whole promises: each published object makes of  *)
(* every target the captures it was published from, sela-ld joins them in  *)
(* each target's own order, and so selac builds what the lane selected.    *)
(***************************************************************************)
EXTENDS PairingProofs

-----------------------------------------------------------------------------
(* Objects made from a partition. *)

\* The fragments of a partition, taken together as its units say, are the
\* captures of each target.
PartitionSound(partition, paths) ==
    /\ IsSeq(partition.fragments)
    /\ \A f \in DOMAIN partition.fragments :
          /\ DOMAIN partition.fragments[f] # {}
          /\ DOMAIN partition.fragments[f] \subseteq DOMAIN paths
    /\ \A t \in DOMAIN paths :
          /\ IsSeq(partition.units[t]) /\ DOMAIN partition.units[t] = DOMAIN paths[t]
          /\ PartsDistinct(partition.units[t])
          /\ \A f \in DOMAIN partition.fragments : t \in DOMAIN partition.fragments[f] =>
                \E i \in DOMAIN paths[t] : f \in ToSet(partition.units[t][i])
          /\ \A i \in DOMAIN paths[t] :
                /\ partition.units[t][i] \in Seq(DOMAIN partition.fragments)
                /\ partition.units[t][i] # <<>>
                /\ \A f \in ToSet(partition.units[t][i]) :
                      /\ t \in DOMAIN partition.fragments[f]
                      /\ partition.fragments[f][t].capture = paths[t][i].capture
                /\ FlattenSeq([j \in DOMAIN partition.units[t][i] |->
                                  partition.fragments[partition.units[t][i][j]][t].definitions])
                     = paths[t][i].definitions

\* Units that partition the fragments active for a target are a valid plan.
LEMMA UnitsValid ==
    ASSUME NEW package, NEW t, IsSeq(package.modules), IsSeq(package.plan[t]),
           PartsDistinct(Parts(package.plan[t])),
           UNION {ToSet(package.plan[t][i].modules) : i \in DOMAIN package.plan[t]}
             = Active(package.modules, t),
           \A i \in DOMAIN package.plan[t] :
              /\ package.plan[t][i].modules \in Seq(DOMAIN package.modules)
              /\ package.plan[t][i].modules # <<>>
              /\ (package.plan[t][i].member # NoMember) <=> (package.kind = "static")
    PROVE  ValidUnits(package, t)
<1> DEFINE units == package.plan[t]
           n == Len(package.modules)
<1>1. n \in Nat /\ DOMAIN package.modules = 1 .. n
  BY SeqIs
<1>2. \A i \in DOMAIN units : units[i].modules \in Seq(1 .. n)
  BY <1>1
<1>3. IsSeq(units) /\ Len(units) \in Nat /\ DOMAIN units = 1 .. Len(units)
  BY SeqIs
<1>4. UNION {ToSet(units[i].modules) : i \in DOMAIN units} = Active(package.modules, t)
  OBVIOUS
<1>5. \A i \in DOMAIN units : units[i].modules # <<>>
  OBVIOUS
<1>6. PartsDistinct(Parts(units))
  OBVIOUS
<1> HIDE DEF units, n
<1>7. ASSUME NEW i \in DOMAIN units PROVE units[i].modules \in Seq(Nat)
  <2>1. 1 .. n \subseteq Nat BY <1>1
  <2> QED BY <1>2, <2>1, SeqMonotone
<1>8. /\ References(units) \in Seq(Nat)
      /\ IsInjective(References(units)) <=> PartsDistinct(Parts(units))
      /\ ToSet(References(units)) = UNION {ToSet(units[i].modules) : i \in DOMAIN units}
  BY <1>3, <1>7, ReferencesAre
<1>9. Len(References(units)) = Cardinality(ToSet(References(units)))
  BY <1>6, <1>8, LengthCounts
<1>10. Len(units) <= n
  <2>1. Parts(units) \in Seq(Seq(1 .. n)) /\ Len(Parts(units)) = Len(units)
        /\ DOMAIN Parts(units) = DOMAIN units
    BY <1>2, <1>3 DEF Parts
  <2>2. \A i \in DOMAIN Parts(units) : Parts(units)[i] # <<>>
    BY <1>5, <2>1 DEF Parts
  <2> QED BY <1>1, <1>6, <2>1, <2>2, DisjointBound
<1> QED BY <1>4, <1>8, <1>9, <1>10 DEF ValidUnits, units, n

\* A planned unit without its member name.
LEMMA MemberDropped ==
    ASSUME NEW c, NEW d, NEW o, NEW m, NEW x
    PROVE  [[captures |-> c, definitions |-> d, optimization |-> o, member |-> m]
              EXCEPT !.member = x]
             = [captures |-> c, definitions |-> d, optimization |-> o, member |-> x]
OBVIOUS

\* Objects published from a sound partition are worth what was captured.
LEMMA PartitionedFaithful ==
    ASSUME UnitsCaptured, NEW k \in DOMAIN captured.units, NEW partition,
           PartitionSound(partition, captured.units[k].paths)
    PROVE  ObjectFaithful(PartitionedObject(captured.units[k], partition), k)
<1> DEFINE unit == captured.units[k]
           object == PartitionedObject(unit, partition)
           F == partition.fragments
           U == partition.units
           D == DOMAIN unit.paths
           n == Len(F)
<1>1. /\ D # {} /\ IsSeq(F) /\ n \in Nat /\ DOMAIN F = 1 .. n
      /\ \A t \in D : IsSeq(unit.paths[t]) /\ unit.paths[t] # <<>>
      /\ \A f \in DOMAIN F : DOMAIN F[f] # {} /\ DOMAIN F[f] \subseteq D
  BY SeqIs DEF UnitsCaptured, PartitionSound
<1>2. ASSUME NEW t \in D
      PROVE  /\ IsSeq(U[t]) /\ DOMAIN U[t] = DOMAIN unit.paths[t] /\ PartsDistinct(U[t])
             /\ \A f \in DOMAIN F : t \in DOMAIN F[f] =>
                   \E i \in DOMAIN U[t] : f \in ToSet(U[t][i])
             /\ \A i \in DOMAIN U[t] :
                   /\ U[t][i] \in Seq(DOMAIN F) /\ U[t][i] # <<>>
                   /\ \A f \in ToSet(U[t][i]) : /\ t \in DOMAIN F[f]
                                                /\ F[f][t].capture = unit.paths[t][i].capture
                   /\ FlattenSeq([j \in DOMAIN U[t][i] |-> F[U[t][i][j]][t].definitions])
                        = unit.paths[t][i].definitions
  BY Zenon DEF PartitionSound
<1> DEFINE modules == [f \in DOMAIN F |-> [bytecode |-> F[f], targets |-> DOMAIN F[f]]]
           PlanUnit(t, i) == [modules |-> U[t][i], optimization |-> unit.optimization,
                              member |-> NoMember]
           plan == [t \in D |-> [i \in DOMAIN U[t] |-> PlanUnit(t, i)]]
<1>3. object = [kind |-> "object", targets |-> D, modules |-> modules, plan |-> plan,
                links |-> [t \in D |-> EmptyLink]]
  BY Zenon DEF PartitionedObject, ObjectOf
<1> HIDE DEF object, modules, plan
<1>4. /\ object.kind = "object" /\ object.targets = D /\ object.modules = modules
      /\ object.plan = plan /\ object.links = [t \in D |-> EmptyLink]
  BY <1>3
<1>5. /\ DOMAIN modules = 1 .. n
      /\ \A f \in 1 .. n : modules[f].bytecode = F[f] /\ modules[f].targets = DOMAIN F[f]
  BY <1>1 DEF modules
<1>6. DOMAIN plan = D /\ \A t \in D : plan[t] = [i \in DOMAIN U[t] |-> PlanUnit(t, i)]
  BY DEF plan
<1>7. ASSUME NEW t \in D
      PROVE  /\ IsSeq(plan[t]) /\ DOMAIN plan[t] = DOMAIN U[t]
             /\ \A i \in DOMAIN U[t] : /\ plan[t][i].modules = U[t][i]
                                       /\ plan[t][i].optimization = unit.optimization
                                       /\ plan[t][i].member = NoMember
  <2> DEFINE p == plan[t]
             V == U[t]
  <2>1. p = [i \in DOMAIN V |-> PlanUnit(t, i)] BY <1>6
  <2>2. Len(V) \in Nat /\ DOMAIN V = 1 .. Len(V) BY <1>2, SeqIs
  <2>3. DOMAIN p = 1 .. Len(V) /\ \A i \in 1 .. Len(V) : p[i] = PlanUnit(t, i)
    <3> HIDE DEF p
    <3> QED BY <2>1, <2>2
  <2>4. IsSeq(p)
    <3> HIDE DEF V, PlanUnit
    <3>1. p = [i \in 1 .. Len(V) |-> p[i]] BY <2>1, <2>2
    <3> HIDE DEF p
    <3> QED BY <2>2, <3>1, FunctionIsSeq
  <2> HIDE DEF p, V
  <2>5. \A i \in DOMAIN V : /\ p[i].modules = U[t][i] /\ p[i].optimization = unit.optimization
                            /\ p[i].member = NoMember
    BY <2>2, <2>3
  <2> QED BY <2>2, <2>3, <2>4, <2>5 DEF p, V
<1> HIDE DEF PlanUnit
<1>8. IsSeq(modules)
  <2>1. modules = [f \in 1 .. n |-> modules[f]] BY <1>1 DEF modules
  <2> HIDE DEF n
  <2> QED BY <1>1, <2>1, FunctionIsSeq
<1>9. Decoded(object)
  <2>1. \A t \in D : \A i \in DOMAIN plan[t] : plan[t][i].modules \in Seq(Nat)
    <3> SUFFICES ASSUME NEW t \in D, NEW i \in DOMAIN plan[t]
                 PROVE  plan[t][i].modules \in Seq(Nat)
      OBVIOUS
    <3>1. plan[t][i].modules \in Seq(DOMAIN F) BY <1>2, <1>7
    <3>2. DOMAIN F \subseteq Nat BY <1>1
    <3> QED BY <3>1, <3>2, SeqMonotone
  <2> QED BY <1>4, <1>6, <1>7, <1>8, <2>1 DEF Decoded
<1>10. ASSUME NEW t \in D PROVE ValidUnits(object, t)
  <2>1. IsSeq(object.modules) /\ IsSeq(object.plan[t]) BY <1>4, <1>7, <1>8
  <2>2. Parts(object.plan[t]) = U[t]
    <3>1. Parts(plan[t]) = [i \in DOMAIN U[t] |-> U[t][i]] BY <1>7 DEF Parts
    <3>2. U[t] \in Seq(ToSet(U[t])) BY <1>2 DEF IsSeq
    <3> DEFINE u == U[t]
    <3>3. u = [i \in DOMAIN u |-> u[i]]
      <4>1. u \in Seq(ToSet(u)) BY <3>2
      <4> HIDE DEF u
      <4> QED BY <4>1
    <3> QED BY <1>4, <3>1, <3>3
  <2>3. PartsDistinct(Parts(object.plan[t])) BY <1>2, <2>2
  <2>4. UNION {ToSet(object.plan[t][i].modules) : i \in DOMAIN object.plan[t]}
          = Active(object.modules, t)
    <3>1. Active(object.modules, t) = {f \in 1 .. n : t \in DOMAIN F[f]}
      BY <1>4, <1>5 DEF Active
    <3>2. ASSUME NEW f \in 1 .. n, t \in DOMAIN F[f]
          PROVE  \E i \in DOMAIN plan[t] : f \in ToSet(plan[t][i].modules)
      <4>1. PICK i \in DOMAIN U[t] : f \in ToSet(U[t][i]) BY <1>1, <1>2, <3>2
      <4> QED BY <1>7, <4>1
    <3>3. ASSUME NEW i \in DOMAIN plan[t], NEW f \in ToSet(plan[t][i].modules)
          PROVE  f \in 1 .. n /\ t \in DOMAIN F[f]
      <4>1. i \in DOMAIN U[t] /\ f \in ToSet(U[t][i]) BY <1>7
      <4>2. U[t][i] \in Seq(1 .. n) /\ t \in DOMAIN F[f] BY <1>1, <1>2, <4>1
      <4>3. ToSet(U[t][i]) \subseteq 1 .. n BY <4>2 DEF ToSet
      <4> QED BY <4>1, <4>2, <4>3
    <3>4. object.plan[t] = plan[t] BY <1>4
    <3> QED BY <3>1, <3>2, <3>3, <3>4
  <2>5. \A i \in DOMAIN object.plan[t] :
           /\ object.plan[t][i].modules \in Seq(DOMAIN object.modules)
           /\ object.plan[t][i].modules # <<>>
           /\ (object.plan[t][i].member # NoMember) <=> (object.kind = "static")
    <3> SUFFICES ASSUME NEW i \in DOMAIN plan[t]
                 PROVE  /\ plan[t][i].modules \in Seq(DOMAIN object.modules)
                        /\ plan[t][i].modules # <<>>
                        /\ (plan[t][i].member # NoMember) <=> (object.kind = "static")
      BY <1>4
    <3>1. /\ i \in DOMAIN U[t] /\ plan[t][i].modules = U[t][i] /\ plan[t][i].member = NoMember
      BY <1>7
    <3>2. U[t][i] \in Seq(DOMAIN F) /\ U[t][i] # <<>> BY <1>2, <3>1
    <3>3. DOMAIN object.modules = DOMAIN F BY <1>1, <1>4, <1>5
    <3> QED BY <1>4, <3>1, <3>2, <3>3
  <2> QED BY <2>1, <2>3, <2>4, <2>5, UnitsValid
<1>11. ValidPackage(object)
  <2>1. object.kind \in Kinds /\ object.targets # {} BY <1>1, <1>4 DEF Kinds
  <2>2. object.modules # <<>>
    <3>1. PICK t \in D : TRUE BY <1>1
    <3>2. 1 \in DOMAIN U[t]
      <4> DEFINE q == unit.paths[t]
      <4>1. q \in Seq(ToSet(q)) /\ q # <<>> BY <1>1 DEF IsSeq
      <4> HIDE DEF q
      <4>2. Len(q) \in Nat \ {0} /\ DOMAIN q = 1 .. Len(q) BY <4>1, EmptySeq
      <4>3. 1 \in DOMAIN q BY <4>2
      <4> QED BY <1>2, <4>3 DEF q
    <3> DEFINE m == U[t][1]
    <3>3. m \in Seq(DOMAIN F) /\ m # <<>> BY <1>2, <3>2
    <3> HIDE DEF m
    <3>4. 1 \in DOMAIN m /\ m[1] \in DOMAIN F
      <4>1. Len(m) \in Nat \ {0} /\ DOMAIN m = 1 .. Len(m) BY <3>3, EmptySeq
      <4> QED BY <3>3, <4>1
    <3>5. DOMAIN modules # {} BY <1>1, <1>5, <3>4
    <3>6. DOMAIN <<>> = {} OBVIOUS
    <3> QED BY <1>4, <3>5, <3>6
  <2>3. \A f \in DOMAIN object.modules : /\ object.modules[f].targets # {}
                                         /\ object.modules[f].targets \subseteq object.targets
    BY <1>1, <1>4, <1>5
  <2>4. DOMAIN object.plan = object.targets /\ DOMAIN object.links = object.targets
    BY <1>4, <1>6
  <2>5. \A t \in object.targets : ValidLinkRecord(object.kind, object.links[t])
    BY <1>4 DEF ValidLinkRecord, EmptyLink
  <2> QED BY <1>4, <1>10, <2>1, <2>2, <2>3, <2>4, <2>5 DEF ValidPackage
<1>12. ASSUME NEW t \in D, NEW i \in DOMAIN plan[t]
       PROVE  LowerUnit(Recovered(object, t)[i], t)
                = [PlannedUnit(k, t, i) EXCEPT !.member = NoMember]
  <2> DEFINE V == U[t][i]
             b == [j \in DOMAIN V |-> object.modules[V[j]].bytecode]
             r == Recovered(object, t)[i]
             x == unit.paths[t][i]
  <2>1. r = [bytecode |-> b, optimization |-> unit.optimization, member |-> NoMember]
    <3>1. Recovered(object, t)[i] = UnitBytes(object.modules, object.plan[t][i])
      BY <1>4, RecoveredIs
    <3> QED BY <1>4, <1>7, <3>1 DEF UnitBytes
  <2>0. i \in DOMAIN U[t] /\ i \in DOMAIN unit.paths[t] BY <1>2, <1>7
  <2>2. V \in Seq(1 .. n) /\ V # <<>> /\ DOMAIN V = 1 .. Len(V)
    <3>1. V \in Seq(DOMAIN F) /\ V # <<>> BY <1>2, <2>0
    <3> HIDE DEF V
    <3>2. DOMAIN V = 1 .. Len(V) BY <3>1
    <3> QED BY <1>1, <3>1, <3>2
  <2>3. DOMAIN b = DOMAIN V /\ \A j \in DOMAIN V : b[j] = F[V[j]] /\ V[j] \in ToSet(V)
    <3> HIDE DEF V
    <3> QED BY <1>4, <1>5, <2>2 DEF ToSet
  <2>4. \A j \in DOMAIN V : b[j][t].capture = x.capture
    <3>1. \A g \in ToSet(V) : F[g][t].capture = x.capture BY <1>2, <2>0
    <3> HIDE DEF V, b, x
    <3> QED BY <2>3, <3>1
  <2>5. {b[j][t].capture : j \in DOMAIN b} = {x.capture}
    <3> HIDE DEF V, b, x
    <3>1. 1 \in DOMAIN V
      <4>1. Len(V) \in Nat \ {0} BY <2>2, EmptySeq
      <4> QED BY <2>2, <4>1
    <3> QED BY <2>3, <2>4, <3>1
  <2>6. FlattenSeq([j \in DOMAIN b |-> b[j][t].definitions]) = x.definitions
    <3>1. FlattenSeq([j \in DOMAIN V |-> F[V[j]][t].definitions]) = x.definitions
      BY <1>2, <1>7
    <3> HIDE DEF b, V, x
    <3>2. [j \in DOMAIN b |-> b[j][t].definitions] = [j \in DOMAIN V |-> F[V[j]][t].definitions]
      BY <2>3
    <3> QED BY <3>1, <3>2
  <2>7. r.bytecode = b /\ r.optimization = unit.optimization /\ r.member = NoMember
    <3> HIDE DEF r, b
    <3> QED BY <2>1
  <2> HIDE DEF r, b, V
  <2>8. LowerUnit(r, t) = [captures |-> {x.capture}, definitions |-> x.definitions,
                           optimization |-> unit.optimization, member |-> NoMember]
    BY <2>5, <2>6, <2>7 DEF LowerUnit
  <2>9. PlannedUnit(k, t, i) = [captures |-> {x.capture}, definitions |-> x.definitions,
                                optimization |-> unit.optimization, member |-> unit.member]
    BY DEF PlannedUnit
  <2>10. [PlannedUnit(k, t, i) EXCEPT !.member = NoMember]
           = [captures |-> {x.capture}, definitions |-> x.definitions,
              optimization |-> unit.optimization, member |-> NoMember]
    BY <2>9, MemberDropped
  <2> QED BY <2>8, <2>10 DEF r
<1>13. \A t \in D : object.links[t] = EmptyLink /\ DOMAIN object.plan[t] = DOMAIN unit.paths[t]
  BY <1>2, <1>4, <1>7
<1>14. ObjectFaithful(object, k)
  BY <1>4, <1>9, <1>11, <1>12, <1>13 DEF ObjectFaithful
<1> QED BY <1>14 DEF object

\* The partition of one capture for each target: a single fragment.
PlainPartition(unit) ==
    [fragments |-> <<[t \in DOMAIN unit.paths |->
                         Piece(unit.paths[t][1], unit.paths[t][1].definitions)]>>,
     units |-> [t \in DOMAIN unit.paths |-> <<<<1>>>>]]

\* A plain object is the object of that partition.
LEMMA PlainFaithful ==
    ASSUME UnitsCaptured, NEW k \in DOMAIN captured.units,
           \A t \in DOMAIN captured.units[k].paths : Len(captured.units[k].paths[t]) = 1
    PROVE  ObjectFaithful(PlainObject(captured.units[k]), k)
<1> DEFINE unit == captured.units[k]
           D == DOMAIN unit.paths
           g == [t \in D |-> Piece(unit.paths[t][1], unit.paths[t][1].definitions)]
           p == PlainPartition(unit)
           one == <<1>>
<1>1. /\ D # {}
      /\ \A t \in D : /\ DOMAIN unit.paths[t] = 1 .. 1
                      /\ IsSeq(unit.paths[t][1].definitions)
  <2>1. D # {} /\ \A t \in D : IsSeq(unit.paths[t]) BY DEF UnitsCaptured
  <2>2. \A t \in D : DOMAIN unit.paths[t] = 1 .. 1 BY <2>1, SeqIs
  <2>3. \A t \in D : 1 \in DOMAIN unit.paths[t] BY <2>2
  <2>4. \A t \in D : \A i \in DOMAIN unit.paths[t] : IsSeq(unit.paths[t][i].definitions)
    BY DEF UnitsCaptured
  <2> QED BY <2>1, <2>2, <2>3, <2>4
<1>2. p.fragments = <<g>> /\ p.units = [t \in D |-> <<one>>]
  BY DEF PlainPartition
<1>3. /\ DOMAIN g = D
      /\ \A t \in D : /\ g[t].capture = unit.paths[t][1].capture
                      /\ g[t].definitions = unit.paths[t][1].definitions
  BY DEF Piece
<1>4. one \in Seq(1 .. 1) /\ one # <<>> /\ ToSet(one) = {1} /\ DOMAIN one = 1 .. 1 /\ one[1] = 1
  BY DEF ToSet
<1>5. IsInjective(one)
  BY <1>4 DEF IsInjective
<1> HIDE DEF g, p, one
<1>6. /\ IsSeq(p.fragments) /\ DOMAIN p.fragments = 1 .. 1 /\ p.fragments[1] = g
  BY <1>2 DEF IsSeq, ToSet
<1>7. \A t \in D : /\ p.units[t] = <<one>> /\ IsSeq(p.units[t])
                   /\ DOMAIN p.units[t] = 1 .. 1 /\ p.units[t][1] = one
  <2>1. IsSeq(<<one>>) /\ DOMAIN <<one>> = 1 .. 1 /\ <<one>>[1] = one BY DEF IsSeq, ToSet
  <2> QED BY <1>2, <2>1
<1>8. \A i \in 1 .. 1 : i = 1
  OBVIOUS
<1>9. PartitionSound(p, unit.paths)
  <2>1. \A f \in DOMAIN p.fragments : /\ DOMAIN p.fragments[f] # {}
                                      /\ DOMAIN p.fragments[f] \subseteq D
    BY <1>1, <1>3, <1>6, <1>8
  <2>2. ASSUME NEW t \in D
        PROVE  /\ PartsDistinct(p.units[t])
               /\ \A f \in DOMAIN p.fragments : t \in DOMAIN p.fragments[f] =>
                     \E i \in DOMAIN unit.paths[t] : f \in ToSet(p.units[t][i])
    <3>1. PartsDistinct(p.units[t]) BY <1>5, <1>7, <1>8 DEF PartsDistinct
    <3> QED BY <1>1, <1>4, <1>6, <1>7, <1>8, <3>1
  <2>3. ASSUME NEW t \in D, NEW i \in DOMAIN unit.paths[t]
        PROVE  /\ p.units[t][i] \in Seq(DOMAIN p.fragments)
               /\ p.units[t][i] # <<>>
               /\ \A f \in ToSet(p.units[t][i]) :
                     /\ t \in DOMAIN p.fragments[f]
                     /\ p.fragments[f][t].capture = unit.paths[t][i].capture
               /\ FlattenSeq([j \in DOMAIN p.units[t][i] |->
                                 p.fragments[p.units[t][i][j]][t].definitions])
                    = unit.paths[t][i].definitions
    <3>1. i = 1 /\ p.units[t][i] = one BY <1>1, <1>7, <1>8
    <3>2. \A f \in ToSet(one) : p.fragments[f] = g BY <1>4, <1>6
    <3>3. [j \in DOMAIN one |-> p.fragments[one[j]][t].definitions]
            = <<unit.paths[t][1].definitions>>
      <4> DEFINE d == unit.paths[t][1].definitions
      <4>1. \A j \in 1 .. 1 : p.fragments[one[j]][t].definitions = d BY <1>3, <1>4, <1>6, <1>8
      <4> HIDE DEF d
      <4>2. [j \in DOMAIN one |-> p.fragments[one[j]][t].definitions] = [j \in 1 .. 1 |-> d]
        BY <1>4, <4>1
      <4>3. [j \in 1 .. 1 |-> d] = <<d>> OBVIOUS
      <4> QED BY <4>2, <4>3 DEF d
    <3>4. FlattenSeq([j \in DOMAIN one |-> p.fragments[one[j]][t].definitions])
            = unit.paths[t][1].definitions
      BY <1>1, <3>3, FlattenOne
    <3> QED BY <1>3, <1>4, <1>6, <3>1, <3>2, <3>4
  <2> QED BY <1>1, <1>6, <1>7, <2>1, <2>2, <2>3, Zenon DEF PartitionSound
<1>10. PlainObject(unit) = PartitionedObject(unit, p)
  <2> DEFINE m == [bytecode |-> g, targets |-> D]
             u == [modules |-> one, optimization |-> unit.optimization, member |-> NoMember]
  <2>1. PlainObject(unit) = ObjectOf(<<m>>, DefaultPlan(D, <<m>>, unit.optimization), D)
    BY Zenon DEF PlainObject, g
  <2>2. [f \in DOMAIN p.fragments |->
            [bytecode |-> p.fragments[f], targets |-> DOMAIN p.fragments[f]]] = <<m>>
    <3>1. \A f \in 1 .. 1 : [bytecode |-> p.fragments[f], targets |-> DOMAIN p.fragments[f]] = m
      BY <1>3, <1>6, <1>8
    <3> HIDE DEF m
    <3>2. [f \in 1 .. 1 |-> [bytecode |-> p.fragments[f], targets |-> DOMAIN p.fragments[f]]]
            = [f \in 1 .. 1 |-> m]
      BY <3>1
    <3>3. [f \in 1 .. 1 |-> m] = <<m>> OBVIOUS
    <3> QED BY <1>6, <3>2, <3>3
  <2>3. ASSUME NEW t \in D
        PROVE  [i \in DOMAIN p.units[t] |->
                   [modules |-> p.units[t][i], optimization |-> unit.optimization,
                    member |-> NoMember]] = <<u>>
    <3>1. \A i \in 1 .. 1 : [modules |-> p.units[t][i], optimization |-> unit.optimization,
                             member |-> NoMember] = u
      BY <1>7, <1>8
    <3> HIDE DEF u
    <3>2. [i \in 1 .. 1 |-> [modules |-> p.units[t][i], optimization |-> unit.optimization,
                             member |-> NoMember]] = [i \in 1 .. 1 |-> u]
      BY <3>1
    <3>3. [i \in 1 .. 1 |-> u] = <<u>> OBVIOUS
    <3> QED BY <1>7, <3>2, <3>3
  <2>4. ASSUME NEW t \in D PROVE DefaultPlan(D, <<m>>, unit.optimization)[t] = <<u>>
    <3> DEFINE s == <<u>>
               parts == [i \in DOMAIN <<m>> |->
                   IF t \in <<m>>[i].targets
                   THEN <<[modules |-> <<i>>, optimization |-> unit.optimization,
                           member |-> NoMember]>>
                   ELSE <<>>]
    <3>1. DefaultPlan(D, <<m>>, unit.optimization)[t] = FlattenSeq(parts)
      BY DEF DefaultPlan
    <3>2. DOMAIN <<m>> = 1 .. 1 /\ <<m>>[1] = m /\ m.targets = D OBVIOUS
    <3>3. ASSUME NEW i \in 1 .. 1 PROVE parts[i] = s
      <4>1. i = 1 BY <1>8
      <4>2. parts[1] = <<[modules |-> <<1>>, optimization |-> unit.optimization,
                          member |-> NoMember]>>
        BY <3>2
      <4> HIDE DEF parts
      <4> QED BY <4>1, <4>2 DEF one
    <3>4. IsSeq(s) BY DEF IsSeq, ToSet
    <3>5. DOMAIN parts = 1 .. 1 BY <3>2
    <3>6. parts = [i \in 1 .. 1 |-> parts[i]] BY <3>2
    <3> HIDE DEF parts, s
    <3>7. parts = <<s>>
      <4>1. [i \in 1 .. 1 |-> parts[i]] = [i \in 1 .. 1 |-> s] BY <3>3
      <4>2. [i \in 1 .. 1 |-> s] = <<s>> OBVIOUS
      <4> QED BY <3>6, <4>1, <4>2
    <3>8. FlattenSeq(parts) = s BY <3>4, <3>7, FlattenOne
    <3> QED BY <3>1, <3>8 DEF s
  <2>5. DefaultPlan(D, <<m>>, unit.optimization)
          = [t \in D |-> DefaultPlan(D, <<m>>, unit.optimization)[t]]
    BY DEF DefaultPlan
  <2> DEFINE dp == DefaultPlan(D, <<m>>, unit.optimization)
             pp == [t \in D |-> [i \in DOMAIN p.units[t] |->
                       [modules |-> p.units[t][i], optimization |-> unit.optimization,
                        member |-> NoMember]]]
  <2>6. dp = pp
    <3>1. \A t \in D : pp[t] = <<u>> BY <2>3
    <3>2. \A t \in D : dp[t] = <<u>> BY <2>4
    <3>3. dp = [t \in D |-> dp[t]] BY <2>5
    <3>4. pp = [t \in D |-> pp[t]] OBVIOUS
    <3> HIDE DEF dp, pp, u, D
    <3> QED BY <3>1, <3>2, <3>3, <3>4
  <2> HIDE DEF m, u
  <2>7. PartitionedObject(unit, p) = ObjectOf(<<m>>, pp, D)
    BY <2>2, Zenon DEF PartitionedObject
  <2> QED BY <2>1, <2>6, <2>7
<1>11. ObjectFaithful(PartitionedObject(unit, p), k)
  BY <1>9, PartitionedFaithful
<1> QED BY <1>10, <1>11

-----------------------------------------------------------------------------
(* The fallback partition: the loops of ScopedPartition. *)

\* Capture j of target t is in a group of its own target's.
HoldsCapture(p, paths, t, j) ==
    \E g \in DOMAIN p.groups :
        /\ p.units[t][j] = <<g>> /\ t \in DOMAIN p.groups[g].captures
        /\ p.groups[g].captures[t] = Piece(paths[t][j], paths[t][j].definitions)

\* The captures of a group were placed there by their targets.
IsCaptureGroup(p, paths, g) ==
    LET captures == p.groups[g].captures
    IN  /\ DOMAIN captures # {} /\ DOMAIN captures \subseteq DOMAIN paths
        /\ \A t \in DOMAIN captures : \E j \in DOMAIN p.units[t] : p.units[t][j] = <<g>>

\* The units of a target name the groups of its captures placed so far.
IsCaptureOrder(p, paths, t) ==
    /\ IsSeq(p.units[t]) /\ DOMAIN p.units[t] \subseteq DOMAIN paths[t]
    /\ \A j \in DOMAIN p.units[t] : HoldsCapture(p, paths, t, j)
    /\ \A i, j \in DOMAIN p.units[t] : p.units[t][i] = p.units[t][j] => i = j

CapturesPlaced(p, paths) ==
    /\ IsSeq(p.groups) /\ DOMAIN p.units = DOMAIN paths
    /\ p.units = [t \in DOMAIN paths |-> p.units[t]]
    /\ \A g \in DOMAIN p.groups : IsCaptureGroup(p, paths, g)
    /\ \A t \in DOMAIN paths : IsCaptureOrder(p, paths, t)

\* The group a capture is placed in, and how many groups there are then.
CapturedAt(p, t, unit, index, new, after) ==
    LET m == Len(p.groups)
        before == IF index <= m THEN p.groups[index].captures ELSE <<>>
        now == after.groups[index].captures
    IN  /\ index \in 1 .. m + 1 /\ new \in {m, m + 1}
        /\ IsSeq(after.groups) /\ Len(after.groups) = new
        /\ index <= new /\ (new = m => index <= m) /\ (new = m + 1 => index = m + 1)
        /\ \A g \in 1 .. m : g # index => after.groups[g] = p.groups[g]
        /\ after.units = [p.units EXCEPT ![t] = Append(@, <<index>>)]
        /\ t \notin DOMAIN before /\ DOMAIN now = DOMAIN before \cup {t}
        /\ now[t] = Piece(unit, unit.definitions)
        /\ \A u \in DOMAIN before : now[u] = before[u]

\* PlaceCapture puts a capture into one group that has none of its target.
LEMMA PlaceCaptureIs ==
    ASSUME NEW p, IsSeq(p.groups), NEW t, NEW unit
    PROVE  \E index, new : CapturedAt(p, t, unit, index, new, PlaceCapture(p, t, unit))
<1> DEFINE m == Len(p.groups)
           S == {g \in 1 .. m : /\ p.groups[g].key = ToSet(unit.definitions)
                                /\ t \notin DOMAIN p.groups[g].captures}
           found == SelectInSeq(p.groups,
                     LAMBDA g : g.key = ToSet(unit.definitions) /\ t \notin DOMAIN g.captures)
           index == IF found = 0 THEN m + 1 ELSE found
           new == IF found = 0 THEN index ELSE m
           before == IF found = 0 THEN <<>> ELSE p.groups[found].captures
           now == [u \in DOMAIN before \cup {t} |->
                      IF u = t THEN Piece(unit, unit.definitions) ELSE before[u]]
           group == [key |-> ToSet(unit.definitions), captures |-> now]
           groups == [g \in 1 .. new |-> IF g # index THEN p.groups[g] ELSE group]
           after == PlaceCapture(p, t, unit)
<1>1. m \in Nat /\ DOMAIN p.groups = 1 .. m
  BY SeqIs
<1>2. found = IF S # {} THEN Min(S) ELSE 0
  BY DEF SelectInSeq
<1>3. after = [groups |-> groups, units |-> [p.units EXCEPT ![t] = Append(@, <<index>>)]]
  BY DEF PlaceCapture
<1>4. after.groups = groups /\ after.units = [p.units EXCEPT ![t] = Append(@, <<index>>)]
  <2> HIDE DEF groups, index, after
  <2> QED BY <1>3
<1>5. \/ found = 0
      \/ found \in 1 .. m /\ t \notin DOMAIN p.groups[found].captures
  <2>1. CASE S = {} BY <1>2, <2>1
  <2>2. CASE S # {}
    <3>1. S \subseteq Nat BY <1>1
    <3> HIDE DEF S, found
    <3>2. found \in S BY <1>2, <2>2, <3>1, MinIs
    <3> QED BY <3>2 DEF S
  <2> QED BY <2>1, <2>2
<1> HIDE DEF found, S, after
<1>6. /\ index \in 1 .. m + 1 /\ new \in {m, m + 1} /\ index <= new
      /\ new = m => index <= m
      /\ new = m + 1 => index = m + 1
      /\ found = 0 <=> ~ (index <= m)
      /\ found # 0 => found = index
  BY <1>1, <1>5
<1>7. /\ t \notin DOMAIN before
      /\ before = IF index <= m THEN p.groups[index].captures ELSE <<>>
  <2>1. DOMAIN <<>> = {} OBVIOUS
  <2> HIDE DEF index, m, new
  <2> QED BY <1>5, <1>6, <2>1
<1>8. /\ DOMAIN now = DOMAIN before \cup {t} /\ now[t] = Piece(unit, unit.definitions)
      /\ \A u \in DOMAIN before : now[u] = before[u]
  <2> HIDE DEF before
  <2> QED BY <1>7
<1> HIDE DEF before, now, index, new, m
<1>9. /\ groups[index] = group /\ \A g \in 1 .. m : g # index => groups[g] = p.groups[g]
      /\ groups = [g \in 1 .. new |-> groups[g]] /\ new \in Nat
  <2> HIDE DEF group
  <2>1. index \in 1 .. new /\ new \in Nat /\ \A g \in 1 .. m : g \in 1 .. new BY <1>1, <1>6
  <2> QED BY <2>1
<1>10. groups[index].captures = now BY <1>9
<1> HIDE DEF groups
<1>11. IsSeq(groups) /\ Len(groups) = new BY <1>9, FunctionIsSeq
<1>12. /\ IsSeq(after.groups) /\ Len(after.groups) = new
       /\ \A g \in 1 .. m : g # index => after.groups[g] = p.groups[g]
       /\ after.groups[index].captures = now
  BY <1>4, <1>9, <1>10, <1>11
<1>13. CapturedAt(p, t, unit, index, new, after)
  BY <1>4, <1>6, <1>7, <1>8, <1>12, Zenon DEF CapturedAt, m
<1> QED BY <1>13 DEF after

\* The next capture of a target joins a group that has none of this target.
LEMMA PlaceCaptureKeeps ==
    ASSUME NEW paths, NEW p, CapturesPlaced(p, paths), NEW t \in DOMAIN paths,
           IsSeq(paths[t]), Len(p.units[t]) + 1 \in DOMAIN paths[t]
    PROVE  LET n == Len(p.units[t])
               after == PlaceCapture(p, t, paths[t][n + 1])
           IN  /\ CapturesPlaced(after, paths) /\ Len(after.units[t]) = n + 1
               /\ \A u \in DOMAIN paths : u # t => after.units[u] = p.units[u]
<1> DEFINE n == Len(p.units[t])
           unit == paths[t][n + 1]
           after == PlaceCapture(p, t, unit)
           m == Len(p.groups)
<1>0. PICK index, new : CapturedAt(p, t, unit, index, new, after)
  BY PlaceCaptureIs DEF CapturesPlaced
<1> DEFINE before == IF index <= m THEN p.groups[index].captures ELSE <<>>
           now == after.groups[index].captures
<1> HIDE DEF after, unit
<1>1. /\ index \in 1 .. m + 1 /\ new \in {m, m + 1}
      /\ IsSeq(after.groups) /\ Len(after.groups) = new
      /\ index <= new /\ (new = m => index <= m) /\ (new = m + 1 => index = m + 1)
      /\ \A g \in 1 .. m : g # index => after.groups[g] = p.groups[g]
      /\ after.units = [p.units EXCEPT ![t] = Append(@, <<index>>)]
      /\ t \notin DOMAIN before /\ DOMAIN now = DOMAIN before \cup {t}
      /\ now[t] = Piece(unit, unit.definitions)
      /\ \A u \in DOMAIN before : now[u] = before[u]
  BY <1>0, Zenon DEF CapturedAt
<1>2. m \in Nat /\ DOMAIN p.groups = 1 .. m /\ n \in Nat /\ DOMAIN p.units[t] = 1 .. n
  BY SeqIs DEF CapturesPlaced, IsCaptureOrder
<1>3. /\ t \notin DOMAIN before /\ DOMAIN now = DOMAIN before \cup {t}
      /\ now[t] = Piece(unit, unit.definitions)
      /\ \A u \in DOMAIN before : u # t /\ now[u] = before[u]
  BY <1>1
<1>4. /\ DOMAIN after.groups = 1 .. Len(after.groups) /\ Len(after.groups) \in Nat
      /\ index \in DOMAIN after.groups /\ 1 .. m \subseteq DOMAIN after.groups
      /\ \A g \in DOMAIN after.groups : g \in 1 .. m \/ g = index
  <2>1. /\ DOMAIN after.groups = 1 .. Len(after.groups) /\ Len(after.groups) \in Nat
    BY <1>1, SeqIs
  <2>2. index \in 1 .. m + 1 /\ index <= new /\ (new = m \/ new = m + 1)
        /\ (new = m + 1 => index = m + 1) /\ Len(after.groups) = new
    BY <1>1
  <2> QED BY <1>2, <2>1, <2>2
<1>5. /\ DOMAIN after.units = DOMAIN paths /\ after.units[t] = Append(p.units[t], <<index>>)
      /\ after.units = [u \in DOMAIN paths |-> after.units[u]]
      /\ \A u \in DOMAIN paths : u # t => after.units[u] = p.units[u]
  <2>1. after.units = [p.units EXCEPT ![t] = Append(@, <<index>>)] BY <1>1
  <2> QED BY <2>1 DEF CapturesPlaced
<1>6. /\ IsSeq(after.units[t]) /\ Len(after.units[t]) = n + 1
      /\ DOMAIN after.units[t] = 1 .. n + 1 /\ after.units[t][n + 1] = <<index>>
      /\ \A j \in 1 .. n : after.units[t][j] = p.units[t][j]
  <2>1. IsSeq(p.units[t]) BY DEF CapturesPlaced, IsCaptureOrder
  <2> QED BY <1>5, <2>1, AppendIs
<1>7. \A g \in 1 .. m : g # index => after.groups[g] = p.groups[g]
  BY <1>1
<1>8. index \in 1 .. m => before = p.groups[index].captures
  BY <1>2
<1>9. ASSUME NEW u \in DOMAIN before PROVE index \in 1 .. m
  <2>1. DOMAIN <<>> = {} OBVIOUS
  <2>2. index <= m BY <2>1
  <2> HIDE DEF m, before
  <2> QED BY <1>1, <1>2, <2>2
<1> HIDE DEF now, before, m
<1>10. ASSUME NEW u \in DOMAIN paths, NEW j \in DOMAIN p.units[u]
       PROVE  j \in DOMAIN after.units[u] /\ after.units[u][j] = p.units[u][j]
  <2>1. CASE u = t
    <3>1. j \in 1 .. n BY <1>2, <2>1
    <3> HIDE DEF n
    <3>2. j \in 1 .. n + 1 BY <1>2, <3>1
    <3> QED BY <1>6, <2>1, <3>1, <3>2
  <2>2. CASE u # t BY <1>5, <2>2
  <2> QED BY <2>1, <2>2
<1>11. ASSUME NEW g \in 1 .. m PROVE IsCaptureGroup(p, paths, g)
  BY <1>2 DEF CapturesPlaced
<1>12. ASSUME NEW g \in DOMAIN after.groups PROVE IsCaptureGroup(after, paths, g)
  <2>1. CASE g # index
    <3>1. g \in 1 .. m /\ after.groups[g] = p.groups[g] BY <1>4, <1>7, <2>1
    <3>2. IsCaptureGroup(p, paths, g) BY <1>11, <3>1
    <3>3. \A u \in DOMAIN p.groups[g].captures :
             \E j \in DOMAIN after.units[u] : after.units[u][j] = <<g>>
      BY <1>10, <3>2 DEF IsCaptureGroup
    <3> QED BY <3>1, <3>2, <3>3 DEF IsCaptureGroup
  <2>2. CASE g = index
    <3>1. ASSUME NEW u \in DOMAIN before
          PROVE  u \in DOMAIN paths /\ \E j \in DOMAIN after.units[u] : after.units[u][j] = <<g>>
      <4>1. index \in 1 .. m /\ before = p.groups[index].captures BY <1>8, <1>9
      <4>2. IsCaptureGroup(p, paths, index) BY <1>11, <4>1
      <4>3. u \in DOMAIN paths /\ \E j \in DOMAIN p.units[u] : p.units[u][j] = <<index>>
        BY <4>1, <4>2 DEF IsCaptureGroup
      <4> QED BY <1>10, <2>2, <4>3
    <3>2. n + 1 \in DOMAIN after.units[t] /\ after.units[t][n + 1] = <<g>> BY <1>2, <1>6, <2>2
    <3>3. after.groups[g].captures = now BY <2>2 DEF now
    <3>4. \A u \in DOMAIN now : /\ u \in DOMAIN paths
                                /\ \E j \in DOMAIN after.units[u] : after.units[u][j] = <<g>>
      BY <1>3, <3>1, <3>2
    <3> QED BY <1>3, <3>3, <3>4 DEF IsCaptureGroup
  <2> QED BY <2>1, <2>2
<1>13. ASSUME NEW u \in DOMAIN paths, NEW j \in DOMAIN p.units[u]
       PROVE  HoldsCapture(after, paths, u, j) /\ (u = t => after.units[u][j] # <<index>>)
  <2>1. HoldsCapture(p, paths, u, j) BY DEF CapturesPlaced, IsCaptureOrder
  <2>2. PICK g \in 1 .. m :
           /\ p.units[u][j] = <<g>> /\ u \in DOMAIN p.groups[g].captures
           /\ p.groups[g].captures[u] = Piece(paths[u][j], paths[u][j].definitions)
    BY <1>2, <2>1 DEF HoldsCapture
  <2>3. after.units[u][j] = <<g>> /\ g \in DOMAIN after.groups BY <1>4, <1>10, <2>2
  <2>4. CASE g = index
    <3>1. u \in DOMAIN before /\ before = p.groups[g].captures BY <1>8, <2>2, <2>4
    <3>2. u # t /\ u \in DOMAIN now /\ now[u] = before[u] BY <1>3, <3>1
    <3>3. after.groups[g].captures = now BY <2>4 DEF now
    <3> QED BY <2>2, <2>3, <3>1, <3>2, <3>3 DEF HoldsCapture
  <2>5. CASE g # index
    <3>1. after.groups[g] = p.groups[g] BY <1>7, <2>5
    <3>2. <<g>> # <<index>> BY <2>5
    <3> QED BY <2>2, <2>3, <3>1, <3>2 DEF HoldsCapture
  <2> QED BY <2>4, <2>5
<1>14. HoldsCapture(after, paths, t, n + 1)
  BY <1>3, <1>4, <1>6 DEF HoldsCapture, now, unit
<1>15. IsCaptureOrder(after, paths, t)
  <2>1. 1 .. n + 1 \subseteq DOMAIN paths[t]
    <3>1. DOMAIN paths[t] = 1 .. Len(paths[t]) /\ Len(paths[t]) \in Nat BY SeqIs
    <3> QED BY <1>2, <3>1
  <2>2. \A j \in 1 .. n + 1 : j = n + 1 \/ j \in 1 .. n BY <1>2
  <2>3. \A j \in 1 .. n + 1 : HoldsCapture(after, paths, t, j)
    BY <1>2, <1>13, <1>14, <2>2
  <2>4. \A i, j \in 1 .. n : p.units[t][i] = p.units[t][j] => i = j
    BY <1>2 DEF CapturesPlaced, IsCaptureOrder
  <2>5. \A j \in 1 .. n : after.units[t][j] # <<index>> BY <1>2, <1>13
  <2>6. \A i, j \in 1 .. n + 1 : after.units[t][i] = after.units[t][j] => i = j
    BY <1>6, <2>2, <2>4, <2>5
  <2> QED BY <1>6, <2>1, <2>3, <2>6 DEF IsCaptureOrder
<1>16. ASSUME NEW u \in DOMAIN paths, u # t PROVE IsCaptureOrder(after, paths, u)
  <2>1. after.units[u] = p.units[u] BY <1>5, <1>16
  <2>2. IsCaptureOrder(p, paths, u) BY DEF CapturesPlaced
  <2> QED BY <1>13, <2>1, <2>2 DEF IsCaptureOrder
<1>17. CapturesPlaced(after, paths)
  BY <1>1, <1>5, <1>12, <1>15, <1>16 DEF CapturesPlaced
<1> QED BY <1>5, <1>6, <1>17 DEF after, unit

\* The captures of a target are placed one after another.
LEMMA PlaceCapturesKeep ==
    ASSUME NEW paths, NEW p, CapturesPlaced(p, paths), NEW t \in DOMAIN paths,
           IsSeq(paths[t]), p.units[t] = <<>>
    PROVE  LET after == PlaceCaptures(p, t, paths[t])
           IN  /\ CapturesPlaced(after, paths) /\ Len(after.units[t]) = Len(paths[t])
               /\ \A u \in DOMAIN paths : u # t => after.units[u] = p.units[u]
<1> DEFINE units == paths[t]
           L == Len(units)
           Defines(f, n) ==
              f = [j \in 0 .. n |-> IF j = 0 THEN p ELSE PlaceCapture(f[j - 1], t, units[j])]
           Good(x, n) ==
              /\ CapturesPlaced(x, paths) /\ Len(x.units[t]) = n
              /\ \A u \in DOMAIN paths : u # t => x.units[u] = p.units[u]
           N == {n \in Nat : n <= L => \E f : Defines(f, n)}
           M(f) == {n \in Nat : n <= L => Good(f[n], n)}
<1>1. L \in Nat /\ DOMAIN units = 1 .. L
  BY SeqIs
<1> HIDE DEF L, units
<1>2. 0 \in N
  <2> DEFINE f == [j \in 0 .. 0 |-> p]
  <2>1. Defines(f, 0) OBVIOUS
  <2> QED BY <2>1
<1>3. ASSUME NEW n \in Nat, n \in N PROVE n + 1 \in N
  <2> SUFFICES ASSUME n + 1 <= L PROVE \E f : Defines(f, n + 1) OBVIOUS
  <2>1. PICK f : Defines(f, n) BY <1>1, <1>3
  <2> DEFINE g == [j \in 0 .. n + 1 |-> IF j = n + 1 THEN PlaceCapture(f[n], t, units[n + 1]) ELSE f[j]]
  <2>2. \A j \in 0 .. n : f[j] = IF j = 0 THEN p ELSE PlaceCapture(f[j - 1], t, units[j])
    BY <2>1, Zenon
  <2>3. \A j \in 0 .. n : g[j] = f[j] OBVIOUS
  <2>4. g[n + 1] = PlaceCapture(f[n], t, units[n + 1]) OBVIOUS
  <2>5. ASSUME NEW j \in 0 .. n + 1
        PROVE  g[j] = IF j = 0 THEN p ELSE PlaceCapture(g[j - 1], t, units[j])
    <3>1. CASE j = n + 1
      <4>1. g[j - 1] = f[n] /\ j # 0
        <5>1. j - 1 = n /\ n \in 0 .. n BY <3>1
        <5> QED BY <2>3, <3>1, <5>1
      <4> HIDE DEF g
      <4> QED BY <2>4, <3>1, <4>1
    <3>2. CASE j \in 0 .. n /\ j # 0
      <4>1. j - 1 \in 0 .. n BY <3>2
      <4>2. g[j - 1] = f[j - 1] /\ g[j] = f[j] BY <2>3, <3>2, <4>1
      <4> HIDE DEF g
      <4> QED BY <2>2, <3>2, <4>2
    <3>3. CASE j = 0
      <4>1. 0 \in 0 .. n OBVIOUS
      <4>2. g[0] = f[0] BY <2>3, <4>1
      <4> HIDE DEF g
      <4> QED BY <2>2, <3>3, <4>1, <4>2
    <3> QED BY <3>1, <3>2, <3>3
  <2>6. g = [j \in 0 .. n + 1 |-> g[j]] OBVIOUS
  <2> HIDE DEF g
  <2>7. Defines(g, n + 1) BY <2>5, <2>6
  <2> QED BY <2>7
<1>4. L \in N
  <2>1. Nat \subseteq N
    <3> HIDE DEF N
    <3> QED BY <1>2, <1>3, Numbers
  <2> QED BY <1>1, <2>1
<1> DEFINE f == CHOOSE f : Defines(f, L)
<1>5. Defines(f, L)
  <2>1. \E h : Defines(h, L) BY <1>1, <1>4
  <2> HIDE DEF Defines
  <2> QED BY <2>1
<1>6. PlaceCaptures(p, t, paths[t]) = f[L]
  BY DEF PlaceCaptures, units, L
<1> HIDE DEF f
<1>7. \A j \in 0 .. L : f[j] = IF j = 0 THEN p ELSE PlaceCapture(f[j - 1], t, units[j])
  BY <1>5, Zenon
<1>8. 0 \in M(f)
  <2>1. f[0] = p BY <1>1, <1>7
  <2>2. Good(p, 0) OBVIOUS
  <2> QED BY <2>1, <2>2
<1>9. ASSUME NEW n \in Nat, n \in M(f) PROVE n + 1 \in M(f)
  <2> SUFFICES ASSUME n + 1 <= L PROVE Good(f[n + 1], n + 1) OBVIOUS
  <2>1. Good(f[n], n) BY <1>1, <1>9
  <2>2. f[n + 1] = PlaceCapture(f[n], t, units[n + 1])
    <3>1. n + 1 \in 0 .. L /\ n + 1 # 0 /\ (n + 1) - 1 = n BY <1>1
    <3> QED BY <1>7, <3>1
  <2>3. Len(f[n].units[t]) = n /\ n + 1 \in DOMAIN paths[t] /\ CapturesPlaced(f[n], paths)
    BY <1>1, <2>1 DEF units
  <2> DEFINE x == f[n]
             y == PlaceCapture(x, t, paths[t][n + 1])
  <2>4. /\ CapturesPlaced(x, paths) /\ Len(x.units[t]) + 1 \in DOMAIN paths[t]
        /\ Len(x.units[t]) = n
    BY <2>3
  <2> HIDE DEF x
  <2>5. /\ CapturesPlaced(y, paths) /\ Len(y.units[t]) = n + 1
        /\ \A u \in DOMAIN paths : u # t => y.units[u] = x.units[u]
    BY <2>4, PlaceCaptureKeeps
  <2>6. f[n + 1] = y BY <2>2 DEF x, units
  <2> HIDE DEF y
  <2> QED BY <2>1, <2>5, <2>6 DEF x
<1>10. L \in M(f)
  <2>1. Nat \subseteq M(f)
    <3> DEFINE T == M(f)
    <3>1. 0 \in T /\ \A n \in Nat : n \in T => n + 1 \in T BY <1>8, <1>9
    <3> HIDE DEF T
    <3>2. Nat \subseteq T BY <3>1, Numbers
    <3> QED BY <3>2 DEF T
  <2> QED BY <1>1, <2>1
<1>11. Good(f[L], L) BY <1>1, <1>10
<1> QED BY <1>6, <1>11 DEF L, units

\* The fallback keeps every capture whole.
LEMMA ScopedPartitionSound ==
    ASSUME NEW paths, NEW order, IsSeq(order), ToSet(order) = DOMAIN paths, IsInjective(order),
           \A t \in DOMAIN paths : /\ IsSeq(paths[t])
                                   /\ \A i \in DOMAIN paths[t] : IsSeq(paths[t][i].definitions)
    PROVE  PartitionSound(ScopedPartition(order, paths), paths)
<1> DEFINE L == Len(order)
           Start == [groups |-> <<>>, units |-> [t \in DOMAIN paths |-> <<>>]]
           Defines(f, n) ==
              f = [j \in 0 .. n |->
                      IF j = 0 THEN Start
                      ELSE PlaceCaptures(f[j - 1], order[j], paths[order[j]])]
           Good(x, n) ==
              /\ CapturesPlaced(x, paths)
              /\ \A i \in 1 .. L : IF i <= n THEN Len(x.units[order[i]]) = Len(paths[order[i]])
                                   ELSE x.units[order[i]] = <<>>
           N == {n \in Nat : n <= L => \E f : Defines(f, n)}
           M(f) == {n \in Nat : n <= L => Good(f[n], n)}
<1>1. /\ L \in Nat /\ DOMAIN order = 1 .. L /\ DOMAIN paths = {order[i] : i \in 1 .. L}
      /\ \A i, j \in 1 .. L : order[i] = order[j] => i = j
  <2>1. L \in Nat /\ DOMAIN order = 1 .. L BY SeqIs
  <2> QED BY <2>1 DEF ToSet, IsInjective
<1>0. Good(Start, 0)
  <2>1. /\ Start.groups = <<>> /\ Start.units = [t \in DOMAIN paths |-> <<>>] OBVIOUS
  <2> HIDE DEF Start, L
  <2>2. /\ IsSeq(<<>>) /\ DOMAIN <<>> = {} BY DEF IsSeq
  <2>3. \A t \in DOMAIN paths : Start.units[t] = <<>> BY <2>1
  <2>4. \A t \in DOMAIN paths : IsCaptureOrder(Start, paths, t) BY <2>2, <2>3 DEF IsCaptureOrder
  <2>5. CapturesPlaced(Start, paths) BY <2>1, <2>2, <2>4 DEF CapturesPlaced
  <2>6. \A i \in 1 .. L : order[i] \in DOMAIN paths /\ ~ (i <= 0) BY <1>1
  <2> QED BY <2>3, <2>5, <2>6
<1> HIDE DEF Start
<1> HIDE DEF L
<1>2. 0 \in N
  <2> DEFINE f == [j \in 0 .. 0 |-> Start]
  <2>1. Defines(f, 0) OBVIOUS
  <2> QED BY <2>1
<1>3. ASSUME NEW n \in Nat, n \in N PROVE n + 1 \in N
  <2> SUFFICES ASSUME n + 1 <= L PROVE \E f : Defines(f, n + 1) OBVIOUS
  <2>1. PICK f : Defines(f, n) BY <1>1, <1>3
  <2> DEFINE g == [j \in 0 .. n + 1 |-> IF j = n + 1 THEN PlaceCaptures(f[n], order[n + 1], paths[order[n + 1]]) ELSE f[j]]
  <2>2. \A j \in 0 .. n : f[j] = IF j = 0 THEN Start ELSE PlaceCaptures(f[j - 1], order[j], paths[order[j]])
    BY <2>1, Zenon
  <2>3. \A j \in 0 .. n : g[j] = f[j] OBVIOUS
  <2>4. g[n + 1] = PlaceCaptures(f[n], order[n + 1], paths[order[n + 1]]) OBVIOUS
  <2>5. ASSUME NEW j \in 0 .. n + 1
        PROVE  g[j] = IF j = 0 THEN Start ELSE PlaceCaptures(g[j - 1], order[j], paths[order[j]])
    <3>1. CASE j = n + 1
      <4>1. g[j - 1] = f[n] /\ j # 0
        <5>1. j - 1 = n /\ n \in 0 .. n BY <3>1
        <5> QED BY <2>3, <3>1, <5>1
      <4> HIDE DEF g
      <4> QED BY <2>4, <3>1, <4>1
    <3>2. CASE j \in 0 .. n /\ j # 0
      <4>1. j - 1 \in 0 .. n BY <3>2
      <4>2. g[j - 1] = f[j - 1] /\ g[j] = f[j] BY <2>3, <3>2, <4>1
      <4> HIDE DEF g
      <4> QED BY <2>2, <3>2, <4>2
    <3>3. CASE j = 0
      <4>1. 0 \in 0 .. n OBVIOUS
      <4>2. g[0] = f[0] BY <2>3, <4>1
      <4> HIDE DEF g
      <4> QED BY <2>2, <3>3, <4>1, <4>2
    <3> QED BY <3>1, <3>2, <3>3
  <2>6. g = [j \in 0 .. n + 1 |-> g[j]] OBVIOUS
  <2> HIDE DEF g
  <2>7. Defines(g, n + 1) BY <2>5, <2>6
  <2> QED BY <2>7
<1>4. L \in N
  <2>1. Nat \subseteq N
    <3> HIDE DEF N
    <3> QED BY <1>2, <1>3, Numbers
  <2> QED BY <1>1, <2>1
<1> DEFINE f == CHOOSE f : Defines(f, L)
<1>5. Defines(f, L)
  <2>1. \E h : Defines(h, L) BY <1>1, <1>4
  <2> HIDE DEF Defines
  <2> QED BY <2>1
<1> DEFINE all == f[L]
<1>6. ScopedPartition(order, paths)
        = [fragments |-> [g \in DOMAIN all.groups |-> all.groups[g].captures],
           units |-> all.units]
  BY DEF ScopedPartition, Start, L
<1> HIDE DEF f
<1>7. \A j \in 0 .. L : f[j] = IF j = 0 THEN Start
                               ELSE PlaceCaptures(f[j - 1], order[j], paths[order[j]])
  BY <1>5, Zenon
<1>8. 0 \in M(f)
  <2>1. f[0] = Start BY <1>1, <1>7
  <2> QED BY <1>0, <2>1
<1>9. ASSUME NEW n \in Nat, n \in M(f) PROVE n + 1 \in M(f)
  <2> SUFFICES ASSUME n + 1 <= L PROVE Good(f[n + 1], n + 1) OBVIOUS
  <2> DEFINE t == order[n + 1]
             x == f[n]
             y == PlaceCaptures(x, t, paths[t])
  <2>1. Good(x, n) BY <1>1, <1>9
  <2>2. f[n + 1] = y
    <3>1. n + 1 \in 0 .. L /\ n + 1 # 0 /\ (n + 1) - 1 = n BY <1>1
    <3> QED BY <1>7, <3>1
  <2>3. n + 1 \in 1 .. L /\ ~ (n + 1 <= n) BY <1>1
  <2>4. t \in DOMAIN paths /\ IsSeq(paths[t]) BY <1>1, <2>3
  <2> HIDE DEF x
  <2>5. CapturesPlaced(x, paths) /\ x.units[t] = <<>> BY <2>1, <2>3
  <2>6. /\ CapturesPlaced(y, paths) /\ Len(y.units[t]) = Len(paths[t])
        /\ \A u \in DOMAIN paths : u # t => y.units[u] = x.units[u]
    BY <2>4, <2>5, PlaceCapturesKeep
  <2> HIDE DEF y
  <2>7. ASSUME NEW i \in 1 .. L
        PROVE  IF i <= n + 1 THEN Len(y.units[order[i]]) = Len(paths[order[i]])
               ELSE y.units[order[i]] = <<>>
    <3>1. CASE i = n + 1 BY <2>6, <3>1
    <3>2. CASE i # n + 1
      <4>1. order[i] # t /\ order[i] \in DOMAIN paths BY <1>1, <2>3, <3>2
      <4>2. y.units[order[i]] = x.units[order[i]] BY <2>6, <4>1
      <4>3. (i <= n + 1) <=> (i <= n) BY <1>1, <3>2
      <4> QED BY <2>1, <4>2, <4>3
    <3> QED BY <3>1, <3>2
  <2>8. Good(y, n + 1) BY <2>6, <2>7
  <2> QED BY <2>2, <2>8
<1>10. L \in M(f)
  <2>1. Nat \subseteq M(f)
    <3> DEFINE T == M(f)
    <3>1. 0 \in T /\ \A n \in Nat : n \in T => n + 1 \in T BY <1>8, <1>9
    <3> HIDE DEF T
    <3>2. Nat \subseteq T BY <3>1, Numbers
    <3> QED BY <3>2 DEF T
  <2> QED BY <1>1, <2>1
<1>11. Good(f[L], L) BY <1>1, <1>10
<1>12. \A i \in 1 .. L : i <= L BY <1>1
<1>13. /\ CapturesPlaced(all, paths)
       /\ \A t \in DOMAIN paths : Len(all.units[t]) = Len(paths[t])
  BY <1>1, <1>11, <1>12
<1> HIDE DEF all
<1> DEFINE P == ScopedPartition(order, paths)
           F == [g \in DOMAIN all.groups |-> all.groups[g].captures]
<1>14. P.fragments = F /\ P.units = all.units
  <2> HIDE DEF F, P
  <2> QED BY <1>6 DEF F, P
<1>15. /\ IsSeq(F) /\ DOMAIN F = DOMAIN all.groups
       /\ \A g \in DOMAIN F : F[g] = all.groups[g].captures
  <2>1. Len(all.groups) \in Nat /\ DOMAIN all.groups = 1 .. Len(all.groups)
    BY <1>13, SeqIs DEF CapturesPlaced
  <2>2. F = [g \in 1 .. Len(all.groups) |-> F[g]] BY <2>1
  <2>3. IsSeq(F)
    <3> HIDE DEF F
    <3> QED BY <2>1, <2>2, FunctionIsSeq
  <2> QED BY <2>3
<1> HIDE DEF F, P
<1>16. \A g \in DOMAIN F : DOMAIN F[g] # {} /\ DOMAIN F[g] \subseteq DOMAIN paths
  BY <1>13, <1>15 DEF CapturesPlaced, IsCaptureGroup
<1>17. ASSUME NEW t \in DOMAIN paths
       PROVE  /\ IsSeq(all.units[t]) /\ DOMAIN all.units[t] = DOMAIN paths[t]
              /\ PartsDistinct(all.units[t])
              /\ \A g \in DOMAIN F : t \in DOMAIN F[g] =>
                    \E i \in DOMAIN paths[t] : g \in ToSet(all.units[t][i])
              /\ \A i \in DOMAIN paths[t] :
                    /\ all.units[t][i] \in Seq(DOMAIN F)
                    /\ all.units[t][i] # <<>>
                    /\ \A g \in ToSet(all.units[t][i]) :
                          t \in DOMAIN F[g] /\ F[g][t].capture = paths[t][i].capture
                    /\ FlattenSeq([j \in DOMAIN all.units[t][i] |->
                                      F[all.units[t][i][j]][t].definitions])
                         = paths[t][i].definitions
  <2> DEFINE U == all.units[t]
  <2>1. /\ IsSeq(U) /\ \A j \in DOMAIN U : HoldsCapture(all, paths, t, j)
        /\ \A i, j \in DOMAIN U : U[i] = U[j] => i = j
    BY <1>13 DEF CapturesPlaced, IsCaptureOrder
  <2>2. DOMAIN U = DOMAIN paths[t] BY <1>13, <2>1, SeqIs
  <2>3. ASSUME NEW i \in DOMAIN U
        PROVE  \E g \in DOMAIN F :
                  /\ U[i] = <<g>> /\ t \in DOMAIN F[g]
                  /\ F[g][t] = Piece(paths[t][i], paths[t][i].definitions)
    BY <1>15, <2>1 DEF HoldsCapture
  <2>4. ASSUME NEW g \in DOMAIN F, t \in DOMAIN F[g] PROVE \E i \in DOMAIN U : U[i] = <<g>>
    BY <1>13, <1>15, <2>4 DEF CapturesPlaced, IsCaptureGroup
  <2> HIDE DEF U
  <2>5. \A g : /\ DOMAIN <<g>> = 1 .. 1 /\ <<g>>[1] = g /\ <<g>> # <<>> /\ ToSet(<<g>>) = {g}
    BY DEF ToSet
  <2>6. PartsDistinct(U)
    <3>1. ASSUME NEW i \in DOMAIN U PROVE IsInjective(U[i])
      <4>1. PICK g \in DOMAIN F : U[i] = <<g>> BY <2>3
      <4>2. \A a, b \in 1 .. 1 : a = b OBVIOUS
      <4>3. IsInjective(<<g>>) BY <2>5, <4>2 DEF IsInjective
      <4> QED BY <4>1, <4>3
    <3>2. ASSUME NEW i \in DOMAIN U, NEW j \in DOMAIN U, NEW x,
                 x \in ToSet(U[i]), x \in ToSet(U[j])
          PROVE  i = j
      <4>1. PICK g \in DOMAIN F : U[i] = <<g>> BY <2>3
      <4>2. PICK h \in DOMAIN F : U[j] = <<h>> BY <2>3
      <4>3. x = g /\ x = h BY <2>5, <3>2, <4>1, <4>2
      <4> QED BY <2>1, <4>1, <4>2, <4>3
    <3> QED BY <3>1, <3>2 DEF PartsDistinct
  <2>7. ASSUME NEW g \in DOMAIN F, t \in DOMAIN F[g]
        PROVE  \E i \in DOMAIN U : g \in ToSet(U[i])
    <3>1. PICK i \in DOMAIN U : U[i] = <<g>> BY <2>4, <2>7
    <3> QED BY <2>5, <3>1
  <2>8. ASSUME NEW i \in DOMAIN U
        PROVE  /\ U[i] \in Seq(DOMAIN F) /\ U[i] # <<>>
               /\ \A g \in ToSet(U[i]) : t \in DOMAIN F[g] /\ F[g][t].capture = paths[t][i].capture
               /\ FlattenSeq([j \in DOMAIN U[i] |-> F[U[i][j]][t].definitions])
                    = paths[t][i].definitions
    <3> DEFINE d == paths[t][i].definitions
    <3>1. PICK g \in DOMAIN F : /\ U[i] = <<g>> /\ t \in DOMAIN F[g]
                                /\ F[g][t] = Piece(paths[t][i], d)
      BY <2>3
    <3>2. F[g][t].capture = paths[t][i].capture /\ F[g][t].definitions = d
      BY <3>1 DEF Piece
    <3>3. IsSeq(d) BY <2>2
    <3> HIDE DEF d
    <3>4. <<g>> \in Seq(DOMAIN F) OBVIOUS
    <3>5. [j \in DOMAIN U[i] |-> F[U[i][j]][t].definitions] = <<d>>
      <4>1. DOMAIN U[i] = 1 .. 1 /\ \A j \in 1 .. 1 : U[i][j] = g BY <2>5, <3>1
      <4>2. [j \in DOMAIN U[i] |-> F[U[i][j]][t].definitions] = [j \in 1 .. 1 |-> d]
        BY <3>2, <4>1
      <4>3. [j \in 1 .. 1 |-> d] = <<d>> OBVIOUS
      <4> QED BY <4>2, <4>3
    <3>6. FlattenSeq([j \in DOMAIN U[i] |-> F[U[i][j]][t].definitions]) = d
      BY <3>3, <3>5, FlattenOne
    <3> QED BY <2>5, <3>1, <3>2, <3>4, <3>6 DEF d
  <2> QED BY <2>1, <2>2, <2>6, <2>7, <2>8, Zenon DEF U
<1>18. PartitionSound(P, paths)
  <2>1. /\ IsSeq(P.fragments)
        /\ \A g \in DOMAIN P.fragments : /\ DOMAIN P.fragments[g] # {}
                                         /\ DOMAIN P.fragments[g] \subseteq DOMAIN paths
    BY <1>14, <1>15, <1>16
  <2>2. ASSUME NEW t \in DOMAIN paths
        PROVE  /\ IsSeq(P.units[t]) /\ DOMAIN P.units[t] = DOMAIN paths[t]
               /\ PartsDistinct(P.units[t])
               /\ \A g \in DOMAIN P.fragments : t \in DOMAIN P.fragments[g] =>
                     \E i \in DOMAIN paths[t] : g \in ToSet(P.units[t][i])
    BY <1>14, <1>17
  <2>3. ASSUME NEW t \in DOMAIN paths, NEW i \in DOMAIN paths[t]
        PROVE  /\ P.units[t][i] \in Seq(DOMAIN P.fragments)
               /\ P.units[t][i] # <<>>
               /\ \A g \in ToSet(P.units[t][i]) :
                     /\ t \in DOMAIN P.fragments[g]
                     /\ P.fragments[g][t].capture = paths[t][i].capture
    BY <1>14, <1>17
  <2>4. ASSUME NEW t \in DOMAIN paths, NEW i \in DOMAIN paths[t]
        PROVE  FlattenSeq([j \in DOMAIN P.units[t][i] |->
                              P.fragments[P.units[t][i][j]][t].definitions])
                 = paths[t][i].definitions
    BY <1>14, <1>17
  <2> QED BY <2>1, <2>2, <2>3, <2>4, Zenon DEF PartitionSound
<1> QED BY <1>18 DEF P

-----------------------------------------------------------------------------
(* The proved partition. *)

\* Distinct keeps one of each.
LEMMA DistinctIs ==
    ASSUME NEW A, NEW s \in Seq(A)
    PROVE  /\ Distinct(s) \in Seq(A) /\ ToSet(Distinct(s)) = ToSet(s)
           /\ IsInjective(Distinct(s))
<1> DEFINE n == Len(s)
           K == {i \in DOMAIN s : \A j \in 1 .. i - 1 : s[j] # s[i]}
<1>1. n \in Nat /\ DOMAIN s = 1 .. n
  OBVIOUS
<1>2. Distinct(s) = Picked(s, K)
  BY DEF Distinct
<1>3. /\ Picked(s, K) \in Seq(A) /\ ToSet(Picked(s, K)) = {s[k] : k \in K}
      /\ (\A i, j \in K : s[i] = s[j] => i = j) => IsInjective(Picked(s, K))
  <2>1. K \in SUBSET DOMAIN s OBVIOUS
  <2> HIDE DEF K
  <2> QED BY <2>1, PickedSet
<1>4. ASSUME NEW i \in K, NEW j \in K, s[i] = s[j] PROVE i = j
  <2>1. i \in 1 .. n /\ j \in 1 .. n BY <1>1
  <2>2. CASE i < j
    <3>1. i \in 1 .. j - 1 BY <2>1, <2>2
    <3> QED BY <1>4, <3>1
  <2>3. CASE j < i
    <3>1. j \in 1 .. i - 1 BY <2>1, <2>3
    <3> QED BY <1>4, <3>1
  <2> QED BY <2>1, <2>2, <2>3
<1>5. ASSUME NEW i \in DOMAIN s PROVE \E k \in K : s[k] = s[i]
  <2> DEFINE T == {j \in 1 .. n : s[j] = s[i]}
  <2>1. T \subseteq Nat /\ i \in T BY <1>1
  <2>2. PICK k \in T : \A y \in T : k <= y
    <3> HIDE DEF T
    <3> QED BY <2>1, Least
  <2>3. k \in 1 .. n /\ s[k] = s[i] OBVIOUS
  <2>4. ASSUME NEW j \in 1 .. k - 1, s[j] = s[k] PROVE FALSE
    <3>1. j \in 1 .. n /\ ~ (k <= j) BY <1>1, <2>3
    <3>2. j \in T BY <2>3, <2>4, <3>1
    <3> QED BY <2>2, <3>1, <3>2
  <2>5. k \in K BY <1>1, <2>3, <2>4
  <2> QED BY <2>3, <2>5
<1>6. {s[k] : k \in K} = ToSet(s)
  <2>1. \A k \in K : k \in DOMAIN s OBVIOUS
  <2> HIDE DEF K
  <2> QED BY <1>5, <2>1 DEF ToSet
<1> HIDE DEF K
<1> QED BY <1>2, <1>3, <1>4, <1>6

\* The fragment that holds external definition d.
FragmentOf(order, paths, d) ==
    SelectInSeq(FragmentOwners(order, paths), LAMBDA f : f = Owners(paths, d))

\* The units of a target share no external definition, and together have them all.
LEMMA LoadedOnce ==
    ASSUME NEW units, IsSeq(units), Loads(units),
           \A i \in DOMAIN units : IsSeq(units[i].definitions)
    PROVE  /\ IsSeq(Symbols(units))
           /\ ToSet(Symbols(units)) = UNION {ToSet(ExportedOf(units[i])) : i \in DOMAIN units}
           /\ \A i \in DOMAIN units : /\ IsSeq(ExportedOf(units[i]))
                                      /\ ExportedOf(units[i]) # <<>>
           /\ \A i, j \in DOMAIN units : \A x :
                 x \in ToSet(ExportedOf(units[i])) /\ x \in ToSet(ExportedOf(units[j])) => i = j
<1> DEFINE A == UNION {ToSet(units[i].definitions) : i \in DOMAIN units}
           parts == [i \in DOMAIN units |-> ExportedOf(units[i])]
<1>1. ASSUME NEW i \in DOMAIN units
      PROVE  ExportedOf(units[i]) \in Seq(A) /\ IsSeq(ExportedOf(units[i]))
  <2> DEFINE d == units[i].definitions
             K == {k \in DOMAIN d : d[k] \in Exported}
             e == ExportedOf(units[i])
  <2>1. d \in Seq(ToSet(d)) BY DEF IsSeq
  <2>2. K \in SUBSET DOMAIN d OBVIOUS
  <2>3. e = Picked(d, K) BY DEF ExportedOf
  <2> HIDE DEF d, K
  <2>4. e \in Seq(ToSet(d))
    BY <2>1, <2>2, <2>3, PickedSet
  <2> HIDE DEF e
  <2>5. e \in Seq(ToSet(e)) BY <2>4 DEF ToSet
  <2>6. ToSet(d) \subseteq A BY DEF d
  <2> HIDE DEF A
  <2> QED BY <2>4, <2>5, <2>6, SeqMonotone DEF e, IsSeq
<1>2. Len(units) \in Nat /\ DOMAIN units = 1 .. Len(units)
  BY SeqIs
<1>3. parts \in Seq(Seq(A)) /\ DOMAIN parts = DOMAIN units
  <2> HIDE DEF A
  <2>1. \A i \in 1 .. Len(units) : ExportedOf(units[i]) \in Seq(A) BY <1>1, <1>2
  <2> QED BY <1>2, <2>1
<1>4. Symbols(units) = FlattenSeq(parts)
  BY DEF Symbols
<1>5. \A i \in DOMAIN units : parts[i] = ExportedOf(units[i])
  OBVIOUS
<1> HIDE DEF parts, A
<1>6. /\ Symbols(units) \in Seq(A)
      /\ ToSet(Symbols(units)) = UNION {ToSet(parts[i]) : i \in DOMAIN parts}
      /\ IsInjective(Symbols(units)) <=> PartsDistinct(parts)
  BY <1>3, <1>4, FlattenTyped, FlattenToSet, FlattenInjective
<1>7. /\ \A i \in DOMAIN units : ExportedOf(units[i]) # <<>>
      /\ Len(Symbols(units)) = Cardinality(ToSet(Symbols(units)))
  BY DEF Loads
<1>8. PartsDistinct(parts)
  BY <1>6, <1>7, LengthCounts
<1>9. IsSeq(Symbols(units))
  <2> DEFINE q == Symbols(units)
  <2>1. q \in Seq(A) BY <1>6
  <2> HIDE DEF q
  <2>2. q \in Seq(ToSet(q)) BY <2>1 DEF ToSet
  <2> QED BY <2>2 DEF q, IsSeq
<1>10. ToSet(Symbols(units)) = UNION {ToSet(ExportedOf(units[i])) : i \in DOMAIN units}
  BY <1>3, <1>5, <1>6
<1>11. \A i, j \in DOMAIN units : \A x :
          x \in ToSet(ExportedOf(units[i])) /\ x \in ToSet(ExportedOf(units[j])) => i = j
  BY <1>3, <1>5, <1>8 DEF PartsDistinct
<1> QED BY <1>1, <1>7, <1>9, <1>10, <1>11

\* Captures that can be partitioned: the targets are loaded, have the same external
\* definitions, and every split unit is its slices again.
Partitionable(order, paths) ==
    /\ order[1] \in DOMAIN paths /\ Provable(order, paths)
    /\ \A t \in DOMAIN paths : /\ IsSeq(paths[t])
                               /\ \A i \in DOMAIN paths[t] : IsSeq(paths[t][i].definitions)

\* Each target has one owner of an external definition.
LEMMA OwnersAre ==
    ASSUME NEW order, NEW paths, Partitionable(order, paths),
           NEW d \in ToSet(Symbols(paths[order[1]])), NEW t \in DOMAIN paths
    PROVE  /\ Owners(paths, d)[t] \in DOMAIN paths[t]
           /\ \A i \in DOMAIN paths[t] :
                 Owners(paths, d)[t] = i <=> d \in ToSet(ExportedOf(paths[t][i]))
<1> DEFINE units == paths[t]
           o == Owners(paths, d)[t]
<1>1. /\ IsSeq(units) /\ Loads(units) /\ \A i \in DOMAIN units : IsSeq(units[i].definitions)
      /\ d \in ToSet(Symbols(units))
  BY DEF Partitionable, Provable
<1>2. /\ ToSet(Symbols(units)) = UNION {ToSet(ExportedOf(units[i])) : i \in DOMAIN units}
      /\ \A i \in DOMAIN units : IsSeq(ExportedOf(units[i]))
      /\ \A i, j \in DOMAIN units : \A x :
            x \in ToSet(ExportedOf(units[i])) /\ x \in ToSet(ExportedOf(units[j])) => i = j
  BY <1>1, LoadedOnce
<1>3. ASSUME NEW i \in DOMAIN units
      PROVE  Contains(ExportedOf(units[i]), d) <=> d \in ToSet(ExportedOf(units[i]))
  <2> DEFINE e == ExportedOf(units[i])
  <2>1. IsSeq(e) BY <1>2
  <2>2. DOMAIN e = 1 .. Len(e) BY <2>1, SeqIs
  <2> HIDE DEF e
  <2>3. Contains(e, d) <=> d \in ToSet(e) BY <2>2 DEF Contains, ToSet
  <2> QED BY <2>3 DEF e
<1>4. o = CHOOSE i \in DOMAIN units : Contains(ExportedOf(units[i]), d)
  BY DEF Owners
<1>5. \E i \in DOMAIN units : Contains(ExportedOf(units[i]), d)
  BY <1>1, <1>2, <1>3
<1>6. o \in DOMAIN units /\ Contains(ExportedOf(units[o]), d)
  BY <1>4, <1>5
<1> HIDE DEF o, units
<1>7. \A i \in DOMAIN units : o = i <=> d \in ToSet(ExportedOf(units[i]))
  BY <1>2, <1>3, <1>6
<1> QED BY <1>6, <1>7 DEF o, units

\* A function of the elements of a sequence.
LEMMA MappedSeq ==
    ASSUME NEW s, IsSeq(s), NEW f, f = [k \in DOMAIN s |-> f[k]]
    PROVE  IsSeq(f) /\ f \in Seq(ToSet(f)) /\ ToSet(f) = {f[k] : k \in DOMAIN s}
<1>1. Len(s) \in Nat /\ DOMAIN s = 1 .. Len(s)
  BY SeqIs
<1>2. f = [k \in 1 .. Len(s) |-> f[k]]
  BY <1>1
<1>3. IsSeq(f) /\ DOMAIN f = DOMAIN s
  BY <1>1, <1>2, FunctionIsSeq
<1> QED BY <1>3 DEF IsSeq, ToSet

\* There is one fragment for each combination of owners.
LEMMA FragmentsAre ==
    ASSUME NEW order, NEW paths, Partitionable(order, paths)
    PROVE  LET G == FragmentOwners(order, paths)
               S == ToSet(Symbols(paths[order[1]]))
           IN  /\ IsSeq(G) /\ IsInjective(G) /\ ToSet(G) = {Owners(paths, d) : d \in S}
               /\ \A d \in S : /\ FragmentOf(order, paths, d) \in DOMAIN G
                               /\ G[FragmentOf(order, paths, d)] = Owners(paths, d)
<1> DEFINE G == FragmentOwners(order, paths)
           y == Symbols(paths[order[1]])
           S == ToSet(y)
           w == [k \in DOMAIN y |-> Owners(paths, y[k])]
<1>1. IsSeq(y)
  BY LoadedOnce DEF Partitionable, Provable
<1>2. G = Distinct(w)
  BY DEF FragmentOwners
<1> HIDE DEF y
<1>3. w \in Seq(ToSet(w)) /\ ToSet(w) = {w[k] : k \in DOMAIN y}
  <2>1. w = [k \in DOMAIN y |-> w[k]] OBVIOUS
  <2> HIDE DEF w
  <2> QED BY <1>1, <2>1, MappedSeq
<1>4. \A k \in DOMAIN y : w[k] = Owners(paths, y[k])
  OBVIOUS
<1> HIDE DEF w, G
<1>5. G \in Seq(ToSet(w)) /\ ToSet(G) = ToSet(w) /\ IsInjective(G)
  BY <1>2, <1>3, DistinctIs
<1>6. ToSet(w) = {Owners(paths, d) : d \in S}
  BY <1>3, <1>4 DEF ToSet
<1>7. IsSeq(G)
  BY <1>5 DEF IsSeq
<1>8. ASSUME NEW d \in S
      PROVE  /\ FragmentOf(order, paths, d) \in DOMAIN G
             /\ G[FragmentOf(order, paths, d)] = Owners(paths, d)
  <2> DEFINE e == Owners(paths, d)
  <2>1. Len(G) \in Nat /\ DOMAIN G = 1 .. Len(G) BY <1>7, SeqIs
  <2>2. \E j \in 1 .. Len(G) : G[j] = e
    <3>1. e \in ToSet(G) BY <1>5, <1>6
    <3> QED BY <2>1, <3>1 DEF ToSet
  <2>3. FragmentOf(order, paths, d) = SelectInSeq(G, LAMBDA a : a = e) BY DEF FragmentOf, G
  <2> HIDE DEF e
  <2>4. /\ SelectInSeq(G, LAMBDA a : a = e) \in 1 .. Len(G)
        /\ G[SelectInSeq(G, LAMBDA a : a = e)] = e
    BY <2>1, <2>2, Found
  <2> QED BY <2>1, <2>3, <2>4 DEF e
<1> QED BY <1>5, <1>6, <1>7, <1>8 DEF G, y

\* The fragments of a unit are those it owns a part of.
LEMMA UnitFragmentsAre ==
    ASSUME NEW order, NEW paths, Partitionable(order, paths),
           NEW t \in DOMAIN paths, NEW i \in DOMAIN paths[t]
    PROVE  LET G == FragmentOwners(order, paths)
               u == UnitFragments(order, paths, paths[t][i])
           IN  /\ IsSeq(u) /\ u # <<>> /\ IsInjective(u)
               /\ ToSet(u) = {f \in DOMAIN G : G[f][t] = i}
<1> DEFINE G == FragmentOwners(order, paths)
           u == UnitFragments(order, paths, paths[t][i])
           S == ToSet(Symbols(paths[order[1]]))
           e == ExportedOf(paths[t][i])
           w == [k \in DOMAIN e |-> FragmentOf(order, paths, e[k])]
<1>1. /\ IsSeq(e) /\ e # <<>> /\ ToSet(e) \subseteq S
  <2>1. /\ IsSeq(paths[t]) /\ Loads(paths[t])
        /\ \A j \in DOMAIN paths[t] : IsSeq(paths[t][j].definitions)
        /\ ToSet(Symbols(paths[t])) = S
    BY DEF Partitionable, Provable
  <2>2. /\ ToSet(Symbols(paths[t]))
             = UNION {ToSet(ExportedOf(paths[t][j])) : j \in DOMAIN paths[t]}
        /\ IsSeq(e) /\ e # <<>>
    BY <2>1, LoadedOnce
  <2> QED BY <2>1, <2>2
<1>2. /\ IsSeq(G) /\ IsInjective(G) /\ ToSet(G) = {Owners(paths, d) : d \in S}
      /\ \A d \in S : /\ FragmentOf(order, paths, d) \in DOMAIN G
                      /\ G[FragmentOf(order, paths, d)] = Owners(paths, d)
  BY FragmentsAre
<1>3. u = Distinct(w)
  BY DEF UnitFragments, FragmentOf
<1>4. \A d \in S : /\ Owners(paths, d)[t] \in DOMAIN paths[t]
                   /\ Owners(paths, d)[t] = i <=> d \in ToSet(e)
  BY OwnersAre
<1> HIDE DEF e, G, S
<1>5. w \in Seq(ToSet(w)) /\ ToSet(w) = {w[k] : k \in DOMAIN e} /\ DOMAIN w = DOMAIN e
  <2>1. w = [k \in DOMAIN e |-> w[k]] /\ DOMAIN w = DOMAIN e OBVIOUS
  <2> HIDE DEF w
  <2> QED BY <1>1, <2>1, MappedSeq
<1>6. \A k \in DOMAIN e : w[k] = FragmentOf(order, paths, e[k])
  OBVIOUS
<1> HIDE DEF w, u
<1>7. u \in Seq(ToSet(w)) /\ ToSet(u) = ToSet(w) /\ IsInjective(u)
  BY <1>3, <1>5, DistinctIs
<1>8. ToSet(u) = {FragmentOf(order, paths, d) : d \in ToSet(e)}
  <2>1. ToSet(e) = {e[k] : k \in DOMAIN e} BY DEF ToSet
  <2>2. {w[k] : k \in DOMAIN e} = {FragmentOf(order, paths, d) : d \in ToSet(e)} BY <1>6, <2>1
  <2> QED BY <1>5, <1>7, <2>2
<1>9. ASSUME NEW f \in ToSet(u) PROVE f \in DOMAIN G /\ G[f][t] = i
  <2>1. PICK d \in ToSet(e) : f = FragmentOf(order, paths, d) BY <1>8
  <2>2. d \in S BY <1>1
  <2>3. f \in DOMAIN G /\ G[f] = Owners(paths, d) BY <1>2, <2>1, <2>2
  <2> QED BY <1>4, <2>2, <2>3
<1>10. ASSUME NEW f \in DOMAIN G, G[f][t] = i PROVE f \in ToSet(u)
  <2>1. G[f] \in ToSet(G) BY DEF ToSet
  <2>2. PICK d \in S : G[f] = Owners(paths, d) BY <1>2, <2>1
  <2>3. d \in ToSet(e) BY <1>4, <1>10, <2>2
  <2> DEFINE g == FragmentOf(order, paths, d)
  <2>4. g \in DOMAIN G /\ G[g] = G[f] BY <1>2, <2>2
  <2>5. g = f BY <1>2, <2>4 DEF IsInjective
  <2> QED BY <1>8, <2>3, <2>5
<1>11. u # <<>>
  <2>1. 1 \in DOMAIN e
    <3>1. e \in Seq(ToSet(e)) BY <1>1 DEF IsSeq
    <3>2. Len(e) \in Nat \ {0} /\ DOMAIN e = 1 .. Len(e) BY <1>1, <3>1, EmptySeq
    <3> QED BY <3>2
  <2>2. w[1] \in ToSet(u) BY <1>5, <1>7, <2>1
  <2>3. ToSet(<<>>) = {} BY DEF ToSet
  <2> QED BY <2>2, <2>3
<1>12. IsSeq(u) BY <1>7 DEF IsSeq
<1>13. ToSet(u) = {f \in DOMAIN G : G[f][t] = i} BY <1>9, <1>10
<1> QED BY <1>7, <1>11, <1>12, <1>13 DEF G, u

\* A proved partition makes every unit of its slices again.
LEMMA ProvedPartitionSound ==
    ASSUME NEW order, NEW paths, Partitionable(order, paths)
    PROVE  PartitionSound(ProvedPartition(order, paths), paths)
<1> DEFINE G == FragmentOwners(order, paths)
           D == DOMAIN paths
           W(unit) == Len(UnitFragments(order, paths, unit)) = 1
           Part(t, f) == LET unit == paths[t][G[f][t]]
                         IN  Piece(unit, IF W(unit) THEN unit.definitions
                                         ELSE Slice(order, paths, unit, f))
           F == [f \in DOMAIN G |-> [t \in D |-> Part(t, f)]]
           U(t, i) == UnitFragments(order, paths, paths[t][i])
           V == [t \in D |-> [i \in DOMAIN paths[t] |-> U(t, i)]]
           P == ProvedPartition(order, paths)
<1>1. P = [fragments |-> F, units |-> V]
  BY DEF ProvedPartition
<1>2. P.fragments = F /\ P.units = V
  <2> HIDE DEF F, V, P
  <2> QED BY <1>1
<1>3. /\ DOMAIN F = DOMAIN G
      /\ \A f \in DOMAIN G : DOMAIN F[f] = D /\ \A t \in D : F[f][t] = Part(t, f)
  <2> HIDE DEF G, Part
  <2> QED OBVIOUS
<1>4. \A t \in D : V[t] = [i \in DOMAIN paths[t] |-> U(t, i)]
  <2> HIDE DEF U
  <2> QED OBVIOUS
<1>5. /\ IsSeq(G) /\ IsInjective(G)
      /\ ToSet(G) = {Owners(paths, d) : d \in ToSet(Symbols(paths[order[1]]))}
  BY FragmentsAre
<1>6. ASSUME NEW t \in D, NEW i \in DOMAIN paths[t]
      PROVE  /\ IsSeq(U(t, i)) /\ U(t, i) # <<>> /\ IsInjective(U(t, i))
             /\ ToSet(U(t, i)) = {f \in DOMAIN G : G[f][t] = i}
  BY UnitFragmentsAre
<1>7. ASSUME NEW t \in D, NEW f \in DOMAIN G PROVE G[f][t] \in DOMAIN paths[t]
  <2>1. G[f] \in ToSet(G)
    <3> HIDE DEF G
    <3> QED BY DEF ToSet
  <2>2. PICK d \in ToSet(Symbols(paths[order[1]])) : G[f] = Owners(paths, d) BY <1>5, <2>1
  <2> QED BY <2>2, OwnersAre
<1> HIDE DEF G, F, V, P, U
<1>8. IsSeq(F)
  <2>1. F = [f \in DOMAIN G |-> F[f]] BY <1>3 DEF F
  <2> QED BY <1>5, <2>1, MappedSeq
<1>9. D # {} /\ \A t \in D : IsSeq(paths[t]) BY DEF Partitionable
<1>10. ASSUME NEW t \in D
       PROVE  /\ IsSeq(V[t]) /\ DOMAIN V[t] = DOMAIN paths[t]
              /\ \A i \in DOMAIN paths[t] : V[t][i] = U(t, i)
  <2>1. V[t] = [i \in DOMAIN paths[t] |-> V[t][i]] BY <1>4
  <2>2. IsSeq(V[t]) BY <1>9, <2>1, MappedSeq
  <2> QED BY <1>4, <2>2
<1>11. ASSUME NEW t \in D PROVE PartsDistinct(V[t])
  <2>1. ASSUME NEW i \in DOMAIN paths[t], NEW j \in DOMAIN paths[t], NEW x,
               x \in ToSet(U(t, i)), x \in ToSet(U(t, j))
        PROVE  i = j
    BY <1>6, <2>1
  <2> QED BY <1>6, <1>10, <2>1 DEF PartsDistinct
<1>12. ASSUME NEW t \in D, NEW f \in DOMAIN F
       PROVE  \E i \in DOMAIN paths[t] : f \in ToSet(V[t][i])
  <2>1. G[f][t] \in DOMAIN paths[t] BY <1>3, <1>7
  <2>2. f \in ToSet(U(t, G[f][t])) BY <1>3, <1>6, <2>1
  <2> QED BY <1>10, <2>1, <2>2
<1>13. ASSUME NEW t \in D, NEW i \in DOMAIN paths[t]
       PROVE  /\ V[t][i] \in Seq(DOMAIN F) /\ V[t][i] # <<>>
              /\ \A f \in ToSet(V[t][i]) : /\ t \in DOMAIN F[f]
                                           /\ F[f][t].capture = paths[t][i].capture
              /\ FlattenSeq([j \in DOMAIN V[t][i] |-> F[V[t][i][j]][t].definitions])
                   = paths[t][i].definitions
  <2> DEFINE u == U(t, i)
             unit == paths[t][i]
  <2>1. /\ V[t][i] = u /\ IsSeq(u) /\ u # <<>> /\ ToSet(u) = {f \in DOMAIN G : G[f][t] = i}
    BY <1>6, <1>10
  <2>2. u \in Seq(ToSet(u)) BY <2>1 DEF IsSeq
  <2>3. ToSet(u) \subseteq DOMAIN F BY <1>3, <2>1
  <2>4. ASSUME NEW f \in ToSet(u)
        PROVE  /\ t \in DOMAIN F[f] /\ F[f][t].capture = unit.capture
               /\ F[f][t].definitions = IF W(unit) THEN unit.definitions
                                        ELSE Slice(order, paths, unit, f)
    <3>1. f \in DOMAIN G /\ G[f][t] = i BY <2>1
    <3>2. F[f][t] = Part(t, f) /\ t \in DOMAIN F[f] BY <1>3, <3>1
    <3>3. Part(t, f) = Piece(unit, IF W(unit) THEN unit.definitions
                                   ELSE Slice(order, paths, unit, f))
      BY <3>1
    <3> HIDE DEF W, unit, Part
    <3> QED BY <3>2, <3>3 DEF Piece
  <2>5. \A j \in DOMAIN u : u[j] \in ToSet(u)
    <3> HIDE DEF u
    <3> QED BY DEF ToSet
  <2>6. W(unit) <=> Len(u) = 1 BY DEF U
  <2>7. IsSeq(unit.definitions) BY DEF Partitionable
  <2>8. SplitProved(order, paths, unit) BY DEF Partitionable, Provable
  <2>9. CASE W(unit)
    <3> DEFINE d == unit.definitions
    <3>1. DOMAIN u = 1 .. 1 BY <2>1, <2>6, <2>9, SeqIs
    <3>2. \A j \in DOMAIN u : F[u[j]][t].definitions = d BY <2>4, <2>5, <2>9
    <3> HIDE DEF u, d, W
    <3>3. [j \in DOMAIN u |-> F[u[j]][t].definitions] = [j \in 1 .. 1 |-> d] BY <3>1, <3>2
    <3>4. [j \in 1 .. 1 |-> d] = <<d>> OBVIOUS
    <3>5. FlattenSeq(<<d>>) = d BY <2>7, FlattenOne DEF d
    <3>6. FlattenSeq([j \in DOMAIN u |-> F[u[j]][t].definitions]) = unit.definitions
      BY <3>3, <3>4, <3>5 DEF d
    <3>7. u \in Seq(DOMAIN F) BY <2>2, <2>3, SeqMonotone
    <3> QED BY <2>1, <2>4, <3>6, <3>7
  <2>10. CASE ~ W(unit)
    <3>1. FlattenSeq([j \in DOMAIN u |-> Slice(order, paths, unit, u[j])]) = unit.definitions
      BY <2>6, <2>8, <2>10, Zenon DEF SplitProved, U
    <3>2. \A j \in DOMAIN u : F[u[j]][t].definitions = Slice(order, paths, unit, u[j])
      BY <2>4, <2>5, <2>10
    <3> HIDE DEF u, W
    <3>3. [j \in DOMAIN u |-> F[u[j]][t].definitions]
            = [j \in DOMAIN u |-> Slice(order, paths, unit, u[j])]
      BY <3>2
    <3>4. FlattenSeq([j \in DOMAIN u |-> F[u[j]][t].definitions]) = unit.definitions
      BY <3>1, <3>3
    <3>5. u \in Seq(DOMAIN F) BY <2>2, <2>3, SeqMonotone
    <3> QED BY <2>1, <2>4, <3>4, <3>5
  <2> QED BY <2>9, <2>10
<1>14. PartitionSound(P, paths)
  <2>1. /\ IsSeq(P.fragments)
        /\ \A g \in DOMAIN P.fragments : /\ DOMAIN P.fragments[g] # {}
                                         /\ DOMAIN P.fragments[g] \subseteq DOMAIN paths
    BY <1>2, <1>3, <1>8, <1>9
  <2>2. ASSUME NEW t \in DOMAIN paths
        PROVE  /\ IsSeq(P.units[t]) /\ DOMAIN P.units[t] = DOMAIN paths[t]
               /\ PartsDistinct(P.units[t])
               /\ \A g \in DOMAIN P.fragments : t \in DOMAIN P.fragments[g] =>
                     \E i \in DOMAIN paths[t] : g \in ToSet(P.units[t][i])
    BY <1>2, <1>10, <1>11, <1>12
  <2>3. ASSUME NEW t \in DOMAIN paths, NEW i \in DOMAIN paths[t]
        PROVE  /\ P.units[t][i] \in Seq(DOMAIN P.fragments)
               /\ P.units[t][i] # <<>>
               /\ \A g \in ToSet(P.units[t][i]) :
                     /\ t \in DOMAIN P.fragments[g]
                     /\ P.fragments[g][t].capture = paths[t][i].capture
    BY <1>2, <1>13
  <2>4. ASSUME NEW t \in DOMAIN paths, NEW i \in DOMAIN paths[t]
        PROVE  FlattenSeq([j \in DOMAIN P.units[t][i] |->
                              P.fragments[P.units[t][i][j]][t].definitions])
                 = paths[t][i].definitions
    BY <1>2, <1>13
  <2> QED BY <2>1, <2>2, <2>3, <2>4, Zenon DEF PartitionSound
<1> QED BY <1>14 DEF P

-----------------------------------------------------------------------------
(* Publishing a unit. *)

\* The targets of a unit in registry order.
LEMMA InOrderIs ==
    ASSUME NEW D, D \subseteq AllTargets
    PROVE  /\ IsSeq(InOrder(D)) /\ ToSet(InOrder(D)) = D /\ IsInjective(InOrder(D))
           /\ D # {} => InOrder(D)[1] \in D
<1> DEFINE K == {i \in DOMAIN Targets : Targets[i] \in D}
           q == InOrder(D)
<1>1. Targets \in Seq(AllTargets) /\ K \in SUBSET DOMAIN Targets /\ q = Picked(Targets, K)
  BY TargetsAssumption DEF InOrder, AllTargets
<1>2. \A i, j \in K : Targets[i] = Targets[j] => i = j
  BY TargetsAssumption
<1> HIDE DEF K, q
<1>3. q \in Seq(AllTargets) /\ ToSet(q) = {Targets[k] : k \in K} /\ IsInjective(q)
  BY <1>1, <1>2, PickedSet
<1>4. {Targets[k] : k \in K} = D
  <2>1. \A x \in D : \E k \in K : Targets[k] = x BY FirstTarget DEF K
  <2>2. \A k \in K : Targets[k] \in D BY DEF K
  <2> QED BY <2>1, <2>2
<1>5. q \in Seq(ToSet(q)) BY <1>3 DEF ToSet
<1>6. D # {} => q[1] \in D
  <2> HAVE D # {}
  <2>1. PICK x \in DOMAIN q : TRUE BY <1>3, <1>4 DEF ToSet
  <2>2. 1 \in DOMAIN q BY <1>3, <2>1
  <2> QED BY <1>3, <1>4, <2>2 DEF ToSet
<1> QED BY <1>3, <1>4, <1>5, <1>6 DEF IsSeq, q

\* What is published for a captured unit.
Publishable(unit) ==
    IF \A t \in DOMAIN unit.paths : Len(unit.paths[t]) = 1
    THEN {PlainObject(unit)}
    ELSE {PartitionedObject(unit, partition) : partition \in
             MergeProfilePartitions(InOrder(DOMAIN unit.paths), unit.paths)}

\* Whatever is published for a captured unit is worth its captures.
LEMMA PublishedFaithful ==
    ASSUME UnitsCaptured, NEW k \in DOMAIN captured.units,
           NEW object \in Publishable(captured.units[k])
    PROVE  ObjectFaithful(object, k)
<1> DEFINE unit == captured.units[k]
           D == DOMAIN unit.paths
           order == InOrder(D)
<1>1. CASE \A t \in D : Len(unit.paths[t]) = 1
  <2>1. object = PlainObject(unit) BY <1>1 DEF Publishable
  <2> QED BY <1>1, <2>1, PlainFaithful
<1>2. CASE ~ (\A t \in D : Len(unit.paths[t]) = 1)
  <2>1. PICK partition \in MergeProfilePartitions(order, unit.paths) :
           object = PartitionedObject(unit, partition)
    BY <1>2 DEF Publishable
  <2>2. /\ D # {} /\ D \subseteq AllTargets
        /\ \A t \in D : /\ IsSeq(unit.paths[t])
                        /\ \A i \in DOMAIN unit.paths[t] : IsSeq(unit.paths[t][i].definitions)
    BY DEF UnitsCaptured
  <2>3. IsSeq(order) /\ ToSet(order) = D /\ IsInjective(order) /\ order[1] \in D
    BY <2>2, InOrderIs
  <2>4. PartitionSound(partition, unit.paths)
    <3>1. CASE partition = ScopedPartition(order, unit.paths)
      BY <2>2, <2>3, <3>1, ScopedPartitionSound
    <3>2. CASE partition = ProvedPartition(order, unit.paths) /\ Provable(order, unit.paths)
      <4>1. Partitionable(order, unit.paths) BY <2>2, <2>3, <3>2 DEF Partitionable
      <4> QED BY <3>2, <4>1, ProvedPartitionSound
    <3>3. \/ partition = ScopedPartition(order, unit.paths)
          \/ partition = ProvedPartition(order, unit.paths) /\ Provable(order, unit.paths)
      BY <2>1 DEF MergeProfilePartitions
    <3> QED BY <3>1, <3>2, <3>3
  <2> QED BY <2>1, <2>4, PartitionedFaithful
<1> QED BY <1>1, <1>2

-----------------------------------------------------------------------------
(* The command line of sela-ld. *)

\* The objects are complete and sela-ld runs on the command line made for them.
Handed ==
    /\ Selection /\ UnitsCaptured /\ UnitsPaired /\ ObjectsPublished
    /\ Len(objects) = Len(captured.units) /\ args = LinkArguments

\* What it says.
LEMMA ArgumentsAre ==
    ASSUME Handed
    PROVE  /\ args.kind = kind /\ args.inputs = objects /\ args.targets = AllTargets
           /\ \A k \in DOMAIN objects : RequiredTargets(k) = DOMAIN captured.units[k].paths
           /\ DOMAIN args.domains \subseteq DOMAIN objects
           /\ \A k \in DOMAIN args.domains : args.domains[k] = DOMAIN captured.units[k].paths
           /\ kind = "static" =>
                 args.names = [k \in DOMAIN objects |-> captured.units[k].member]
           /\ kind # "static" => args.names = <<>>
           /\ DOMAIN args.orders = DOMAIN captured.orders
           /\ \A t \in DOMAIN args.orders : args.orders[t] = TargetOrder(t)
           /\ \/ /\ args.links = settings /\ args.common = EmptyLink
              \/ /\ args.links = <<>>
                 /\ \A t \in AllTargets : settings[t] = args.common
<1> DEFINE common == \A t \in AllTargets : settings[t] = settings[Targets[1]]
           scoped == {k \in DOMAIN objects : DOMAIN captured.units[k].paths # AllTargets}
           domains == [k \in scoped |-> DOMAIN captured.units[k].paths]
           names == IF kind = "static"
                    THEN [k \in DOMAIN objects |-> captured.units[k].member] ELSE <<>>
           orders == [t \in DOMAIN captured.orders |-> TargetOrder(t)]
           links == IF common THEN <<>> ELSE settings
           shared == IF common THEN settings[Targets[1]] ELSE EmptyLink
<1>1. args = [kind |-> kind, inputs |-> objects, targets |-> AllTargets,
              domains |-> domains, names |-> names, orders |-> orders,
              links |-> links, common |-> shared]
  BY DEF Handed, LinkArguments
<1> HIDE DEF domains, names, orders, links, shared, common, scoped
<1>2. /\ args.kind = kind /\ args.inputs = objects /\ args.targets = AllTargets
      /\ args.domains = domains /\ args.names = names /\ args.orders = orders
      /\ args.links = links /\ args.common = shared
  BY <1>1
<1>3. /\ DOMAIN domains = scoped /\ scoped \subseteq DOMAIN objects
      /\ \A k \in scoped : domains[k] = DOMAIN captured.units[k].paths
  BY DEF domains, scoped
<1>4. ASSUME NEW k \in DOMAIN objects
      PROVE  RequiredTargets(k) = DOMAIN captured.units[k].paths
  <2>1. k \notin scoped => AllTargets = DOMAIN captured.units[k].paths BY DEF scoped
  <2> QED BY <1>2, <1>3, <2>1 DEF RequiredTargets
<1>5. /\ DOMAIN orders = DOMAIN captured.orders
      /\ \A t \in DOMAIN orders : orders[t] = TargetOrder(t)
  BY DEF orders
<1>6. \/ links = settings /\ shared = EmptyLink
      \/ links = <<>> /\ \A t \in AllTargets : settings[t] = shared
  BY DEF links, shared, common
<1>7. /\ kind = "static" => names = [k \in DOMAIN objects |-> captured.units[k].member]
      /\ kind # "static" => names = <<>>
  BY DEF names
<1> QED BY <1>2, <1>3, <1>4, <1>5, <1>6, <1>7

\* sela-ld accepts it.
LEMMA ArgumentsFit ==
    ASSUME Handed
    PROVE  /\ CommandLine /\ ~ ArgumentProblem
           /\ IsSeq(objects) /\ DOMAIN objects = DOMAIN captured.units
           /\ \A k \in DOMAIN objects : ObjectFaithful(objects[k], k)
<1>1. /\ IsSeq(objects) /\ IsSeq(captured.units) /\ Len(objects) = Len(captured.units)
      /\ \A k \in DOMAIN objects : ObjectFaithful(objects[k], k)
  BY DEF Handed, ObjectsPublished, UnitsCaptured
<1>2. /\ Len(objects) \in Nat /\ DOMAIN objects = 1 .. Len(objects)
      /\ DOMAIN objects = DOMAIN captured.units
  BY <1>1, SeqIs
<1>3. /\ args.kind = kind /\ args.inputs = objects /\ args.targets = AllTargets
      /\ DOMAIN args.domains \subseteq DOMAIN objects
      /\ \A k \in DOMAIN args.domains : args.domains[k] = DOMAIN captured.units[k].paths
      /\ kind = "static" => args.names = [k \in DOMAIN objects |-> captured.units[k].member]
      /\ kind # "static" => args.names = <<>>
      /\ DOMAIN args.orders = DOMAIN captured.orders
      /\ \A t \in DOMAIN args.orders : args.orders[t] = TargetOrder(t)
      /\ \/ /\ args.links = settings /\ args.common = EmptyLink
         \/ /\ args.links = <<>>
            /\ \A t \in AllTargets : settings[t] = args.common
  BY ArgumentsAre
<1>4. IsSeq(args.names) /\ NoMember \notin ToSet(args.names)
      /\ (kind = "static" => Len(args.names) = Len(objects))
  <2>1. CASE kind = "static"
    <3>1. args.names = [k \in 1 .. Len(objects) |-> captured.units[k].member]
      BY <1>2, <1>3, <2>1
    <3>2. args.names = [k \in 1 .. Len(objects) |-> args.names[k]]
      BY <3>1
    <3>3. IsSeq(args.names) /\ Len(args.names) = Len(objects)
          /\ DOMAIN args.names = 1 .. Len(objects)
      BY <1>2, <3>2, FunctionIsSeq
    <3>4. \A k \in 1 .. Len(objects) : captured.units[k].member # NoMember
      BY <1>2, <2>1 DEF Handed, UnitsCaptured
    <3>5. \A k \in DOMAIN args.names : args.names[k] # NoMember
      BY <3>1, <3>3, <3>4
    <3> QED BY <3>3, <3>5 DEF ToSet
  <2>2. CASE kind # "static"
    <3>1. args.names = <<>> BY <1>3, <2>2
    <3> QED BY <2>2, <3>1 DEF IsSeq, ToSet
  <2> QED BY <2>1, <2>2
<1>5. CommandLine
  <2>1. args.kind \in Kinds /\ args.targets # {} BY <1>3, FirstTarget DEF Handed, Selection
  <2>2. \A k \in DOMAIN args.inputs : Decoded(args.inputs[k])
    BY <1>1, <1>3 DEF ObjectFaithful
  <2>3. \A t \in DOMAIN args.orders : args.orders[t] \in Seq(Nat)
    BY <1>3 DEF Handed, UnitsPaired
  <2> QED BY <1>1, <1>3, <1>4, <2>1, <2>2, <2>3 DEF CommandLine
<1>6. ~ ArgumentProblem
  <2>1. ~ (args.inputs = <<>> /\ args.kind # "static")
    <3> SUFFICES ASSUME kind # "static" PROVE objects # <<>> BY <1>3
    <3>1. captured.units # <<>> BY DEF Handed, UnitsCaptured
    <3>2. Len(captured.units) # 0 BY <1>1, <3>1, EmptySeq DEF IsSeq
    <3> QED BY <1>1, <3>2
  <2>2. ~ (/\ DOMAIN args.links # {}
           /\ DOMAIN args.links # args.targets \/ args.common # EmptyLink)
    <3>1. DOMAIN settings = AllTargets BY DEF Handed, Selection
    <3> QED BY <1>3, <3>1
  <2>3. ~ (\E k \in DOMAIN args.domains :
             \/ k \notin DOMAIN args.inputs
             \/ ~ (args.domains[k] \subseteq args.targets))
    <3>1. \A k \in DOMAIN objects : DOMAIN captured.units[k].paths \subseteq AllTargets
      BY <1>2 DEF Handed, UnitsCaptured
    <3> QED BY <1>3, <3>1
  <2>4. ~ (/\ args.names # <<>>
           /\ args.kind # "static" \/ Len(args.names) # Len(args.inputs))
    BY <1>3, <1>4
  <2> QED BY <2>1, <2>2, <2>3, <2>4 DEF ArgumentProblem
<1> QED BY <1>1, <1>2, <1>5, <1>6

-----------------------------------------------------------------------------
(* What the objects of a target come to when sela-ld joins them. *)

\* A unit lowered under a member name.
LEMMA LoweredNamed ==
    ASSUME NEW modules, NEW unit, NEW q, NEW origin, NEW t
    PROVE  LET from == LowerUnit(UnitBytes(modules, unit), t)
           IN  LowerUnit(Named(UnitBytes(modules, unit), q, origin), t)
                 = [captures |-> from.captures, definitions |-> from.definitions,
                    optimization |-> from.optimization, member |-> NameOf(q, origin)]
<1> DEFINE b == [j \in DOMAIN unit.modules |-> modules[unit.modules[j]].bytecode]
           x == NameOf(q, origin)
           C(y) == {y[j][t].capture : j \in DOMAIN y}
           F(y) == FlattenSeq([j \in DOMAIN y |-> y[j][t].definitions])
<1>1. Named(UnitBytes(modules, unit), q, origin)
        = [bytecode |-> b, optimization |-> unit.optimization, member |-> x]
  BY NamedIs
<1>2. UnitBytes(modules, unit)
        = [bytecode |-> b, optimization |-> unit.optimization, member |-> unit.member]
  BY DEF UnitBytes
<1>3. \A v : LowerUnit(v, t) = [captures |-> C(v.bytecode), definitions |-> F(v.bytecode),
                                optimization |-> v.optimization, member |-> v.member]
  BY Zenon DEF LowerUnit
<1> HIDE DEF b, x, C, F
<1>4. LowerUnit(UnitBytes(modules, unit), t)
        = [captures |-> C(b), definitions |-> F(b),
           optimization |-> unit.optimization, member |-> unit.member]
  BY <1>2, <1>3
<1>5. LowerUnit(Named(UnitBytes(modules, unit), q, origin), t)
        = [captures |-> C(b), definitions |-> F(b),
           optimization |-> unit.optimization, member |-> x]
  BY <1>1, <1>3
<1> QED BY <1>4, <1>5 DEF x

\* An object contributes, under the names sela-ld gives them, the units planned
\* from its captures.
LEMMA ContributionLowered ==
    ASSUME Handed, NEW t, NEW k \in DOMAIN objects
    PROVE  /\ IsSeq(Contribution(k, t)) /\ IsSeq(Planned(k, t))
           /\ Len(Contribution(k, t)) = Len(Planned(k, t))
           /\ \A i \in 1 .. Len(Planned(k, t)) : \A q :
                 LowerUnit(Named(Contribution(k, t)[i], q, k), t) = Planned(k, t)[i]
<1> DEFINE unit == captured.units[k]
           object == objects[k]
           c == Contribution(k, t)
           p == Planned(k, t)
<1>1. /\ CommandLine /\ ~ ArgumentProblem /\ IsSeq(objects) /\ k \in DOMAIN captured.units
      /\ DOMAIN objects = DOMAIN captured.units /\ ObjectFaithful(object, k)
  BY ArgumentsFit
<1>2. /\ args.kind = kind /\ args.inputs = objects
      /\ RequiredTargets(k) = DOMAIN unit.paths
      /\ kind = "static" => args.names = [j \in DOMAIN objects |-> captured.units[j].member]
  BY ArgumentsAre
<1>3. /\ ValidPackage(object) /\ object.targets = DOMAIN unit.paths
  BY <1>1 DEF ObjectFaithful
<1>4. /\ IsSeq(c)
      /\ t \in DOMAIN unit.paths =>
            /\ Len(c) = Len(object.plan[t]) /\ DOMAIN c = DOMAIN object.plan[t]
            /\ \A i \in DOMAIN object.plan[t] :
                  c[i] = UnitBytes(object.modules, object.plan[t][i])
      /\ t \notin DOMAIN unit.paths => c = <<>>
  <2>1. /\ k \in DOMAIN args.inputs /\ args.inputs[k] = object
        /\ RequiredTargets(k) \subseteq args.inputs[k].targets
    BY <1>2, <1>3
  <2> QED BY <1>1, <1>2, <1>3, <2>1, ContributionIsSeq
<1>5. CASE t \notin DOMAIN unit.paths
  <2>1. p = <<>> BY <1>5 DEF Planned
  <2>2. IsSeq(<<>>) /\ Len(<<>>) = 0 /\ 1 .. 0 = {} BY DEF IsSeq
  <2> QED BY <1>4, <1>5, <2>1, <2>2
<1>6. CASE t \in DOMAIN unit.paths
  <2>1. /\ IsSeq(unit.paths[t])
        /\ (unit.member # NoMember) <=> (kind = "static")
    BY <1>1, <1>6 DEF Handed, UnitsCaptured
  <2>2. /\ Len(unit.paths[t]) \in Nat /\ DOMAIN unit.paths[t] = 1 .. Len(unit.paths[t])
    BY <2>1, SeqIs
  <2>3. /\ DOMAIN object.plan[t] = DOMAIN unit.paths[t]
        /\ \A i \in DOMAIN object.plan[t] :
              LowerUnit(Recovered(object, t)[i], t)
                = [PlannedUnit(k, t, i) EXCEPT !.member = NoMember]
    BY <1>1, <1>3, <1>6, Zenon DEF ObjectFaithful
  <2>4. p = [i \in 1 .. Len(unit.paths[t]) |-> PlannedUnit(k, t, i)]
    BY <1>6, <2>2 DEF Planned
  <2>5. p = [i \in 1 .. Len(unit.paths[t]) |-> p[i]] BY <2>4
  <2>6. IsSeq(p) /\ Len(p) = Len(unit.paths[t])
    <3> HIDE DEF p
    <3> QED BY <2>2, <2>5, FunctionIsSeq
  <2>7. Len(c) = Len(p)
    <3>1. Len(c) \in Nat /\ DOMAIN c = 1 .. Len(c) BY <1>4, SeqIs
    <3>2. 1 .. Len(c) = 1 .. Len(p) BY <1>4, <1>6, <2>2, <2>3, <2>6, <3>1
    <3> QED BY <2>2, <2>6, <3>1, <3>2
  <2>8. ASSUME NEW q PROVE NameOf(q, k) = unit.member
    <3>1. CASE kind = "static"
      <4>1. args.names[k] = unit.member /\ DOMAIN args.names # {} BY <1>2, <3>1
      <4>2. args.names # <<>> BY <4>1
      <4> QED BY <1>2, <3>1, <4>1, <4>2 DEF NameOf
    <3>2. CASE kind # "static"
      BY <1>2, <2>1, <3>2 DEF NameOf
    <3> QED BY <3>1, <3>2
  <2>9. ASSUME NEW i \in 1 .. Len(p), NEW q
        PROVE  LowerUnit(Named(c[i], q, k), t) = p[i]
    <3> DEFINE from == LowerUnit(UnitBytes(object.modules, object.plan[t][i]), t)
    <3>1. i \in DOMAIN object.plan[t] /\ p[i] = PlannedUnit(k, t, i)
      BY <2>2, <2>3, <2>4, <2>6
    <3>2. c[i] = UnitBytes(object.modules, object.plan[t][i])
      BY <1>4, <1>6, <3>1
    <3>3. Recovered(object, t)[i] = UnitBytes(object.modules, object.plan[t][i])
      BY <3>1, RecoveredIs
    <3>4. from = [PlannedUnit(k, t, i) EXCEPT !.member = NoMember]
      BY <2>3, <3>1, <3>3
    <3>5. LowerUnit(Named(c[i], q, k), t)
            = [captures |-> from.captures, definitions |-> from.definitions,
               optimization |-> from.optimization, member |-> unit.member]
      BY <2>8, <3>2, LoweredNamed
    <3>6. PlannedUnit(k, t, i)
            = [captures |-> {unit.paths[t][i].capture},
               definitions |-> unit.paths[t][i].definitions,
               optimization |-> unit.optimization, member |-> unit.member]
      BY DEF PlannedUnit
    <3>7. from = [captures |-> {unit.paths[t][i].capture},
               definitions |-> unit.paths[t][i].definitions,
               optimization |-> unit.optimization, member |-> NoMember]
      <4> DEFINE a == {unit.paths[t][i].capture}
                 d == unit.paths[t][i].definitions
                 whole == [captures |-> a, definitions |-> d,
                           optimization |-> unit.optimization, member |-> unit.member]
      <4>1. from = [whole EXCEPT !.member = NoMember] BY <3>4, <3>6
      <4> HIDE DEF a, d
      <4>2. [whole EXCEPT !.member = NoMember]
              = [captures |-> a, definitions |-> d, optimization |-> unit.optimization,
                 member |-> NoMember]
        BY MemberDropped
      <4> QED BY <4>1, <4>2 DEF a, d
    <3> HIDE DEF from
    <3>8. /\ from.captures = {unit.paths[t][i].capture}
          /\ from.definitions = unit.paths[t][i].definitions
          /\ from.optimization = unit.optimization
      BY <3>7
    <3> QED BY <3>1, <3>5, <3>6, <3>8
  <2> QED BY <1>4, <2>6, <2>7, <2>9
<1> QED BY <1>5, <1>6

\* The units planned for a target, of the first m captured units.
PlannedTo(t, m) == FlattenSeq([k \in 1 .. m |-> Planned(k, t)])

\* The first m inputs come to the first m captured units.
Aligned(t, m) ==
    /\ Len(OriginTo(t, m)) = Len(UnitsTo(t, m))
    /\ Len(UnitsTo(t, m)) = Len(PlannedTo(t, m)) /\ Len(UnitsTo(t, m)) \in Nat
    /\ DOMAIN UnitsTo(t, m) = 1 .. Len(UnitsTo(t, m))
    /\ DOMAIN PlannedTo(t, m) = 1 .. Len(UnitsTo(t, m))
    /\ \A i \in 1 .. Len(UnitsTo(t, m)) :
          LowerUnit(Named(UnitsTo(t, m)[i], i, OriginTo(t, m)[i]), t) = PlannedTo(t, m)[i]

\* So it is with no inputs,
LEMMA AlignedFirst ==
    ASSUME NEW t
    PROVE  Aligned(t, 0)
<1>1. 1 .. 0 = {} /\ DOMAIN <<>> = {} /\ Len(<<>>) = 0
  OBVIOUS
<1>2. /\ [k \in 1 .. 0 |-> Contribution(k, t)] = <<>>
      /\ [k \in 1 .. 0 |-> [i \in DOMAIN Contribution(k, t) |-> k]] = <<>>
      /\ [k \in 1 .. 0 |-> Planned(k, t)] = <<>>
  BY <1>1
<1>3. UnitsTo(t, 0) = <<>> /\ OriginTo(t, 0) = <<>> /\ PlannedTo(t, 0) = <<>>
  BY <1>2 DEF UnitsTo, OriginTo, PlannedTo, FlattenSeq
<1> QED BY <1>1, <1>3 DEF Aligned

\* and with one more.
LEMMA AlignedNext ==
    ASSUME Handed, NEW t, NEW m \in Nat, m + 1 <= Len(objects), Aligned(t, m)
    PROVE  Aligned(t, m + 1)
<1> DEFINE u == Len(UnitsTo(t, m))
           c == Contribution(m + 1, t)
           p == Planned(m + 1, t)
           s == [k \in 1 .. m + 1 |-> Planned(k, t)]
<1>1. /\ IsSeq(objects) /\ Len(objects) \in Nat /\ DOMAIN objects = 1 .. Len(objects)
  BY ArgumentsFit, SeqIs
<1>2. ASSUME NEW k \in 1 .. m + 1
      PROVE  /\ IsSeq(Contribution(k, t)) /\ IsSeq(Planned(k, t))
             /\ Len(Contribution(k, t)) = Len(Planned(k, t))
             /\ \A i \in 1 .. Len(Planned(k, t)) : \A q :
                   LowerUnit(Named(Contribution(k, t)[i], q, k), t) = Planned(k, t)[i]
  <2>1. k \in DOMAIN objects BY <1>1
  <2> QED BY <2>1, ContributionLowered
<1>3. m + 1 \in 1 .. m + 1 OBVIOUS
<1>4. /\ u \in Nat /\ Len(OriginTo(t, m)) = u /\ Len(PlannedTo(t, m)) = u
      /\ \A i \in 1 .. u :
            LowerUnit(Named(UnitsTo(t, m)[i], i, OriginTo(t, m)[i]), t) = PlannedTo(t, m)[i]
  BY DEF Aligned
<1>5. Len(c) = Len(p) /\ Len(p) \in Nat
  BY <1>2, <1>3, SeqIs
<1>6. /\ Len(UnitsTo(t, m + 1)) = u + Len(c) /\ DOMAIN UnitsTo(t, m + 1) = 1 .. u + Len(c)
      /\ Len(OriginTo(t, m + 1)) = u + Len(c)
      /\ \A i \in 1 .. u : /\ UnitsTo(t, m + 1)[i] = UnitsTo(t, m)[i]
                           /\ OriginTo(t, m + 1)[i] = OriginTo(t, m)[i]
      /\ \A i \in 1 .. Len(c) : /\ UnitsTo(t, m + 1)[u + i] = c[i]
                                /\ OriginTo(t, m + 1)[u + i] = m + 1
  BY <1>2, <1>4, JoinNext
<1>7. /\ Len(PlannedTo(t, m + 1)) = u + Len(p) /\ DOMAIN PlannedTo(t, m + 1) = 1 .. u + Len(p)
      /\ \A i \in 1 .. u : PlannedTo(t, m + 1)[i] = PlannedTo(t, m)[i]
      /\ \A i \in 1 .. Len(p) : PlannedTo(t, m + 1)[u + i] = p[i]
  <2>1. \A k \in 1 .. m + 1 : s[k] = Planned(k, t) /\ s[k] \in Seq(ToSet(s[k]))
    BY <1>2 DEF IsSeq
  <2>2. 1 .. m \subseteq 1 .. m + 1 OBVIOUS
  <2>3. /\ [k \in 1 .. m |-> s[k]] = [k \in 1 .. m |-> Planned(k, t)]
        /\ [k \in 1 .. m + 1 |-> s[k]] = [k \in 1 .. m + 1 |-> Planned(k, t)]
        /\ s[m + 1] = p
    BY <1>3, <2>1, <2>2
  <2> HIDE DEF s, p, u
  <2> DEFINE before == FlattenSeq([k \in 1 .. m |-> s[k]])
             after == FlattenSeq([k \in 1 .. m + 1 |-> s[k]])
  <2>4. /\ Len(after) = Len(before) + Len(s[m + 1]) /\ DOMAIN after = 1 .. Len(after)
        /\ \A i \in 1 .. Len(before) : after[i] = before[i]
        /\ \A i \in 1 .. Len(s[m + 1]) : after[Len(before) + i] = s[m + 1][i]
    <3>1. \A k \in 1 .. m + 1 : s[k] \in Seq(ToSet(s[k])) BY <2>1
    <3> QED BY <3>1, FlattenGrows, Zenon
  <2>5. before = PlannedTo(t, m) /\ after = PlannedTo(t, m + 1)
    BY <2>3 DEF PlannedTo
  <2> HIDE DEF before, after
  <2> QED BY <1>4, <2>3, <2>4, <2>5
<1> HIDE DEF u, c, p
<1>8. ASSUME NEW i \in 1 .. u + Len(c)
      PROVE  LowerUnit(Named(UnitsTo(t, m + 1)[i], i, OriginTo(t, m + 1)[i]), t)
               = PlannedTo(t, m + 1)[i]
  <2>1. CASE i \in 1 .. u
    BY <1>4, <1>6, <1>7, <2>1
  <2>2. CASE i \notin 1 .. u
    <3> DEFINE j == i - u
    <3>1. j \in 1 .. Len(c) /\ j \in 1 .. Len(p) /\ u + j = i BY <1>4, <1>5, <2>2, Behind
    <3> HIDE DEF j
    <3>2. UnitsTo(t, m + 1)[i] = c[j] /\ OriginTo(t, m + 1)[i] = m + 1 BY <1>6, <3>1
    <3>3. PlannedTo(t, m + 1)[i] = p[j] BY <1>7, <3>1
    <3>4. LowerUnit(Named(c[j], i, m + 1), t) = p[j] BY <1>2, <1>3, <3>1 DEF c, p
    <3> QED BY <3>2, <3>3, <3>4
  <2> QED BY <2>1, <2>2
<1>9. u + Len(c) \in Nat BY <1>4, <1>5
<1> QED BY <1>5, <1>6, <1>7, <1>8, <1>9 DEF Aligned

\* The joined units of a target are the ones planned for it.
LEMMA JoinedIsPlanned ==
    ASSUME Handed, NEW t
    PROVE  /\ JoinedTo(t, Len(args.inputs)) = Joined(t)
           /\ Len(PlannedUnits(t)) \in Nat
           /\ DOMAIN Joined(t) = 1 .. Len(PlannedUnits(t))
           /\ DOMAIN PlannedUnits(t) = 1 .. Len(PlannedUnits(t))
           /\ \A i \in 1 .. Len(PlannedUnits(t)) :
                 LowerUnit(Joined(t)[i], t) = PlannedUnits(t)[i]
<1> DEFINE n == Len(objects)
           u == Len(UnitsTo(t, n))
           N == {m \in Nat : m <= n => Aligned(t, m)}
<1>1. /\ IsSeq(objects) /\ n \in Nat /\ DOMAIN objects = 1 .. n
      /\ args.inputs = objects /\ DOMAIN captured.units = 1 .. n
  BY ArgumentsFit, ArgumentsAre, SeqIs
<1>2. Aligned(t, n)
  <2>1. \A m : m \in N <=> m \in Nat /\ (m <= n => Aligned(t, m)) OBVIOUS
  <2> HIDE DEF N
  <2>2. 0 \in N BY <2>1, AlignedFirst
  <2>3. ASSUME NEW m \in Nat, m \in N PROVE m + 1 \in N
    <3>1. SUFFICES ASSUME m + 1 <= n PROVE Aligned(t, m + 1) BY <2>1
    <3>2. Aligned(t, m) BY <1>1, <2>1, <2>3, <3>1
    <3> QED BY <3>1, <3>2, AlignedNext
  <2>4. Nat \subseteq N BY <2>2, <2>3, Numbers
  <2> QED BY <1>1, <2>1, <2>4
<1>3. JoinedTo(t, n) = Joined(t)
  BY <1>1, Zenon DEF JoinedTo, UnitsTo, OriginTo, Joined
<1>4. PlannedTo(t, n) = PlannedUnits(t)
  BY <1>1 DEF PlannedTo, PlannedUnits
<1>5. /\ u \in Nat /\ Len(PlannedUnits(t)) = u
      /\ DOMAIN UnitsTo(t, n) = 1 .. u /\ DOMAIN PlannedUnits(t) = 1 .. u
      /\ \A i \in 1 .. u :
            LowerUnit(Named(UnitsTo(t, n)[i], i, OriginTo(t, n)[i]), t) = PlannedUnits(t)[i]
  BY <1>2, <1>4 DEF Aligned
<1>6. /\ DOMAIN Joined(t) = 1 .. u
      /\ \A i \in 1 .. u : LowerUnit(Joined(t)[i], t) = PlannedUnits(t)[i]
  <2>1. Joined(t) = [i \in 1 .. u |-> Named(UnitsTo(t, n)[i], i, OriginTo(t, n)[i])]
    BY <1>3, <1>5, JoinedToIs
  <2> QED BY <1>5, <2>1
<1> QED BY <1>1, <1>3, <1>5, <1>6

\* What sela-ld is asked to write makes selac build what the lane of the target
\* selected.
LEMMA ExpectedIsNative ==
    ASSUME Handed, NEW t \in AllTargets
    PROVE  Lowered(Expected(t), t) = Native(t)
<1> DEFINE u == Len(PlannedUnits(t))
<1>1. /\ u \in Nat /\ DOMAIN PlannedUnits(t) = 1 .. u
  BY JoinedIsPlanned
<1>2. /\ DOMAIN Joined(t) = 1 .. u
      /\ \A i \in 1 .. u : LowerUnit(Joined(t)[i], t) = PlannedUnits(t)[i]
  BY JoinedIsPlanned
<1>3. /\ DOMAIN args.orders = DOMAIN captured.orders
      /\ \A v \in DOMAIN args.orders : args.orders[v] = TargetOrder(v)
  BY ArgumentsAre
<1> HIDE DEF u
<1>4. CASE t \in DOMAIN captured.orders
  <2> DEFINE o == TargetOrder(t)
  <2>1. /\ o \in Seq(Nat) /\ ToSet(o) = DOMAIN PlannedUnits(t)
        /\ Native(t) = [i \in DOMAIN o |-> PlannedUnits(t)[o[i]]]
    BY <1>4 DEF Handed, UnitsPaired
  <2>2. Expected(t) = [i \in DOMAIN o |-> Joined(t)[o[i]]]
    BY <1>3, <1>4 DEF Expected
  <2> HIDE DEF o
  <2>3. \A i \in DOMAIN o : o[i] \in 1 .. u BY <1>1, <2>1 DEF ToSet
  <2>4. \A i \in DOMAIN o : LowerUnit(Joined(t)[o[i]], t) = PlannedUnits(t)[o[i]]
    BY <1>2, <2>3
  <2>5. Lowered(Expected(t), t) = [i \in DOMAIN o |-> LowerUnit(Joined(t)[o[i]], t)]
    BY <2>2 DEF Lowered
  <2> QED BY <2>1, <2>4, <2>5
<1>5. CASE t \notin DOMAIN captured.orders
  <2>1. Native(t) = PlannedUnits(t) BY <1>5 DEF Handed, UnitsPaired
  <2>2. Expected(t) = Joined(t) BY <1>3, <1>5 DEF Expected
  <2>3. Lowered(Joined(t), t) = [i \in 1 .. u |-> PlannedUnits(t)[i]]
    BY <1>2 DEF Lowered
  <2>4. Native(t) = [i \in DOMAIN Native(t) |-> Native(t)[i]] BY DEF Native
  <2> QED BY <1>1, <2>1, <2>2, <2>3, <2>4
<1> QED BY <1>4, <1>5

-----------------------------------------------------------------------------
(* What sela-ld makes of them. *)

\* A published object is refused only at the limit on fragments, or if one of its
\* fragments does not inspect.
LEMMA InputsPass ==
    ASSUME Handed, Drafted, work.next \in DOMAIN args.inputs,
           NEW why \in InputProblem(work.next, Object)
    PROVE  why = "limit" \/ (why = "bytecode" /\ InspectFails # {})
<1> DEFINE k == work.next
           unit == captured.units[k]
<1>1. /\ CommandLine /\ k \in DOMAIN objects /\ k \in DOMAIN captured.units
      /\ Object = objects[k] /\ ObjectFaithful(Object, k)
      /\ args.kind = kind /\ Required = DOMAIN unit.paths
  BY ArgumentsFit, ArgumentsAre DEF Object, Required
<1>2. /\ ValidPackage(Object) /\ Object.kind = "object" /\ Object.targets = Required
      /\ \A t \in Required : DOMAIN Object.plan[t] = DOMAIN unit.paths[t]
      /\ Decoded(Object)
  BY <1>1, Zenon DEF ObjectFaithful
<1>3. ~ (args.kind = "static" /\ \E t \in Required : Len(Object.plan[t]) # 1)
  <2> SUFFICES ASSUME kind = "static", NEW t \in Required PROVE Len(Object.plan[t]) = 1
    BY <1>1
  <2>1. IsSeq(unit.paths[t]) /\ Len(unit.paths[t]) = 1
    BY <1>1 DEF Handed, UnitsCaptured
  <2>2. /\ Len(unit.paths[t]) \in Nat
        /\ DOMAIN Object.plan[t] = 1 .. Len(unit.paths[t])
    BY <1>2, <2>1, SeqIs
  <2>3. t \in DOMAIN Object.plan BY <1>2 DEF ValidPackage
  <2>4. IsSeq(Object.plan[t]) BY <1>2, <2>3 DEF Decoded
  <2>5. /\ Len(Object.plan[t]) \in Nat
        /\ 1 .. Len(Object.plan[t]) = 1 .. Len(unit.paths[t])
    BY <2>2, <2>4, SeqIs
  <2>6. Len(Object.plan[t]) = Len(unit.paths[t]) BY <2>2, <2>5
  <2> QED BY <2>1, <2>6
<1>4. why # "inactive"
  BY <1>1, NeverInactive
<1> DEFINE required == RequiredTargets(k)
           indices == ModuleIndices(Object.modules, required)
<1>5. \/ TooManyModules(Object.modules, required) /\ why = "limit"
      \/ /\ \E i \in DOMAIN Object.modules : Object.modules[i].bytecode \in InspectFails
         /\ why = "bytecode"
      \/ why = "inactive"
  BY <1>2, <1>3 DEF InputProblem, Required
<1> QED BY <1>4, <1>5

\* Objects have no link settings of their own.
LEMMA LibrariesStay ==
    ASSUME Handed, work.libraries = [t \in AllTargets |-> <<>>], AdmitInput,
           work' # work
    PROVE  work'.libraries = [t \in AllTargets |-> <<>>]
<1> DEFINE k == work.next
           new == [t \in args.targets |->
                      IF t \in RequiredTargets(k)
                      THEN work.libraries[t] \o args.inputs[k].links[t].libraries
                      ELSE work.libraries[t]]
<1>1. k \in DOMAIN args.inputs /\ work'.libraries = new
  <2>1. k \in DOMAIN args.inputs BY DEF AdmitInput
  <2>2. \E modules, plan : work' = [next |-> k + 1, modules |-> modules, plan |-> plan,
                                    libraries |-> new]
    BY Zenon DEF AdmitInput, Refuse
  <2> HIDE DEF new
  <2>3. work'.libraries = new BY <2>2
  <2> QED BY <2>1, <2>3
<1>2. /\ k \in DOMAIN objects /\ args.inputs[k] = objects[k] /\ ObjectFaithful(objects[k], k)
      /\ args.targets = AllTargets /\ RequiredTargets(k) = DOMAIN captured.units[k].paths
  BY <1>1, ArgumentsFit, ArgumentsAre
<1>3. \A t \in RequiredTargets(k) : objects[k].links[t] = EmptyLink
  BY <1>2, Zenon DEF ObjectFaithful
<1>4. \A t \in RequiredTargets(k) : args.inputs[k].links[t].libraries = <<>>
  BY <1>2, <1>3 DEF EmptyLink
<1>5. \A t \in AllTargets : new[t] = <<>>
  BY <1>2, <1>4
<1> QED BY <1>1, <1>2, <1>5

\* The link settings of the package are those of the lanes.
LEMMA LinksAre ==
    ASSUME Handed, work.libraries = [t \in AllTargets |-> <<>>]
    PROVE  FinalLinks = settings
<1>1. /\ settings = [t \in AllTargets |->
                       [libraries |-> settings[t].libraries, options |-> settings[t].options,
                        script |-> settings[t].script]]
      /\ \A t \in AllTargets : IsSeq(settings[t].libraries)
  BY DEF Handed, Selection
<1>2. /\ args.targets = AllTargets
      /\ \/ args.links = settings
         \/ args.links = <<>> /\ \A t \in AllTargets : settings[t] = args.common
  BY ArgumentsAre
<1>3. ASSUME NEW t \in AllTargets
      PROVE  (IF DOMAIN args.links = {} THEN args.common ELSE args.links[t]) = settings[t]
  <2>1. DOMAIN settings = AllTargets BY <1>1
  <2> QED BY <1>2, <2>1
<1>4. ASSUME NEW t \in AllTargets
      PROVE  [settings[t] EXCEPT !.libraries = @ \o <<>>] = settings[t]
  <2> DEFINE l == settings[t].libraries
             o == settings[t].options
             s == settings[t].script
  <2>1. settings[t] = [libraries |-> l, options |-> o, script |-> s] BY <1>1
  <2>2. l \o <<>> = l BY <1>1, EmptySeq, ConcatEmptySeq DEF IsSeq
  <2> HIDE DEF l, o, s
  <2>3. [[libraries |-> l, options |-> o, script |-> s] EXCEPT !.libraries = l]
          = [libraries |-> l, options |-> o, script |-> s]
    OBVIOUS
  <2>4. [settings[t] EXCEPT !.libraries = settings[t].libraries \o <<>>]
          = [settings[t] EXCEPT !.libraries = l]
    BY <2>2 DEF l
  <2> QED BY <2>1, <2>3, <2>4
<1>5. FinalLinks = [t \in AllTargets |-> settings[t]]
  <2>1. ASSUME NEW t \in AllTargets
        PROVE  (LET link == IF DOMAIN args.links = {} THEN args.common ELSE args.links[t]
                IN  [link EXCEPT !.libraries = @ \o work.libraries[t]]) = settings[t]
    <3>1. work.libraries[t] = <<>> OBVIOUS
    <3> QED BY <1>3, <1>4, <3>1, Zenon
  <2> QED BY <1>2, <2>1, Zenon DEF FinalLinks
<1> QED BY <1>1, <1>5

\* The orders passed to sela-ld permute the units it has joined.
LEMMA OrdersFit ==
    ASSUME Handed, Drafted, Joining, work.next = Len(args.inputs) + 1
    PROVE  ~ OrderProblem
<1>1. CommandLine /\ Len(args.inputs) \in Nat
  BY ArgumentsFit, SeqIs DEF CommandLine
<1>2. Admitted = Len(args.inputs)
  BY <1>1 DEF Admitted
<1> SUFFICES ASSUME NEW t \in DOMAIN args.orders
             PROVE  /\ t \in args.targets /\ Len(args.orders[t]) = Len(work.plan[t])
                    /\ ToSet(args.orders[t]) = DOMAIN work.plan[t]
  BY DEF OrderProblem
<1>3. /\ t \in DOMAIN captured.orders /\ args.orders[t] = TargetOrder(t)
      /\ args.targets = AllTargets
  BY ArgumentsAre
<1>4. /\ t \in AllTargets /\ Len(TargetOrder(t)) = Len(PlannedUnits(t))
      /\ ToSet(TargetOrder(t)) = DOMAIN PlannedUnits(t)
  BY <1>3 DEF Handed, UnitsPaired
<1>5. /\ JoinedTo(t, Len(args.inputs)) = Joined(t) /\ Len(PlannedUnits(t)) \in Nat
      /\ DOMAIN Joined(t) = 1 .. Len(PlannedUnits(t))
      /\ DOMAIN PlannedUnits(t) = 1 .. Len(PlannedUnits(t))
  BY JoinedIsPlanned
<1>6. DOMAIN Joined(t) = DOMAIN work.plan[t]
  <2>1. Recovered(Draft, t) = Joined(t) BY <1>2, <1>3, <1>4, <1>5 DEF Joining
  <2>2. Draft.plan = work.plan BY DEF Draft
  <2>3. DOMAIN Recovered(Draft, t) = DOMAIN work.plan[t] BY <2>2, RecoveredIs
  <2> QED BY <2>1, <2>3
<1>7. IsSeq(work.plan[t])
  BY <1>3, <1>4 DEF Drafted
<1>8. /\ Len(work.plan[t]) \in Nat /\ 1 .. Len(work.plan[t]) = 1 .. Len(PlannedUnits(t))
  BY <1>5, <1>6, <1>7, SeqIs
<1>9. Len(work.plan[t]) = Len(PlannedUnits(t))
  BY <1>5, <1>8
<1> QED BY <1>3, <1>4, <1>5, <1>6, <1>9

\* What is linked, unless it is a static library, has a fragment.
LEMMA SomeModule ==
    ASSUME Handed, Drafted, Joining, work.next = Len(args.inputs) + 1, kind # "static"
    PROVE  work.modules # <<>>
<1> DEFINE t == Targets[1]
<1>1. CommandLine /\ Len(args.inputs) \in Nat /\ args.targets = AllTargets /\ t \in AllTargets
  BY ArgumentsFit, ArgumentsAre, FirstTarget, SeqIs DEF CommandLine
<1>2. Admitted = Len(args.inputs)
  BY <1>1 DEF Admitted
<1>3. DOMAIN Native(t) # {} /\ 1 \in DOMAIN selected[t]
  <2>1. IsSeq(selected[t]) /\ selected[t] # <<>> BY <1>1 DEF Handed, Selection
  <2>2. Len(selected[t]) # 0 BY <2>1, EmptySeq DEF IsSeq
  <2>3. 1 \in DOMAIN selected[t] BY <2>1, <2>2, SeqIs
  <2> QED BY <2>3 DEF Native
<1>4. ~ OrderProblem
  BY OrdersFit
<1>5. Recovered(Package, t) = Expected(t)
  BY <1>1, <1>4, PackageFaithful
<1>6. DOMAIN Recovered(Package, t) # {}
  <2>1. Lowered(Expected(t), t) = Native(t) BY <1>1, ExpectedIsNative
  <2>2. DOMAIN Lowered(Expected(t), t) = DOMAIN Expected(t) BY DEF Lowered
  <2> QED BY <1>3, <1>5, <2>1, <2>2
<1>7. PICK p \in [DOMAIN work.plan[t] -> DOMAIN work.plan[t]] :
         OrderedPlan[t] = [i \in DOMAIN work.plan[t] |-> work.plan[t][p[i]]]
  BY <1>1, <1>4, Ordering
<1>8. DOMAIN work.plan[t] # {}
  <2>1. Package.plan = OrderedPlan BY DEF Package
  <2>2. DOMAIN Recovered(Package, t) = DOMAIN OrderedPlan[t] BY <2>1, RecoveredIs
  <2> QED BY <1>6, <1>7, <2>2
<1>9. PICK i \in DOMAIN work.plan[t] : TRUE
  BY <1>8
<1>10. /\ work.plan[t][i].modules \in Seq(1 .. Len(work.modules))
       /\ work.plan[t][i].modules # <<>>
  BY <1>1, <1>9 DEF Drafted
<1>11. 1 .. Len(work.modules) # {}
  <2>1. 1 \in DOMAIN work.plan[t][i].modules BY <1>10, EmptySeq
  <2>2. work.plan[t][i].modules[1] \in 1 .. Len(work.modules) BY <1>10, <2>1
  <2> QED BY <2>2
<1> QED BY <1>11

-----------------------------------------------------------------------------
(* What a step that leaves them alone keeps. *)

\* The selection is never touched.
LEMMA SelectionKept ==
    ASSUME Selection, UNCHANGED <<kind, selected, settings>>
    PROVE  Selection'
BY DEF Selection

\* What was captured stays as good as it was.
LEMMA UnitsKept ==
    ASSUME UnitsCaptured, UnitsPaired, UNCHANGED <<kind, selected, captured>>
    PROVE  UnitsCaptured' /\ UnitsPaired'
<1>1. UnitsCaptured' BY DEF UnitsCaptured
<1>2. \A t : TargetOrder(t)' = TargetOrder(t) /\ Native(t)' = Native(t)
  BY DEF TargetOrder, Native
<1>3. \A k, t : Planned(k, t)' = Planned(k, t) BY DEF Planned, PlannedUnit
<1>4. \A t : PlannedUnits(t)' = PlannedUnits(t) BY <1>3 DEF PlannedUnits
<1>5. OrderInactive' <=> OrderInactive BY DEF OrderInactive
<1>6. UnitsPaired' BY <1>2, <1>4, <1>5 DEF UnitsPaired
<1> QED BY <1>1, <1>6

\* An object is worth the same.
LEMMA FaithfulKept ==
    ASSUME UNCHANGED captured, NEW object, NEW k, ObjectFaithful(object, k)
    PROVE  ObjectFaithful(object, k)'
<1>1. \A t, i : PlannedUnit(k, t, i)' = PlannedUnit(k, t, i) BY DEF PlannedUnit
<1>2. /\ Decoded(object) /\ ValidPackage(object) /\ object.kind = "object"
      /\ object.targets = DOMAIN captured.units[k].paths
      /\ \A t \in object.targets :
            /\ object.links[t] = EmptyLink
            /\ DOMAIN object.plan[t] = DOMAIN captured.units[k].paths[t]
            /\ \A i \in DOMAIN object.plan[t] :
                  LowerUnit(Recovered(object, t)[i], t)
                    = [PlannedUnit(k, t, i) EXCEPT !.member = NoMember]
  BY Zenon DEF ObjectFaithful
<1>3. \A t \in object.targets : \A i \in DOMAIN object.plan[t] :
         LowerUnit(Recovered(object, t)[i], t)
           = [PlannedUnit(k, t, i)' EXCEPT !.member = NoMember]
  <2> SUFFICES ASSUME NEW t \in object.targets, NEW i \in DOMAIN object.plan[t]
               PROVE  LowerUnit(Recovered(object, t)[i], t)
                        = [PlannedUnit(k, t, i)' EXCEPT !.member = NoMember]
    BY Zenon
  <2>1. PlannedUnit(k, t, i)' = PlannedUnit(k, t, i) BY <1>1
  <2>2. [PlannedUnit(k, t, i)' EXCEPT !.member = NoMember]
          = [PlannedUnit(k, t, i) EXCEPT !.member = NoMember]
    BY <2>1
  <2> QED BY <1>2, <2>2, Zenon
<1>4. captured'.units[k].paths = captured.units[k].paths OBVIOUS
<1> QED BY <1>2, <1>3, <1>4, Zenon DEF ObjectFaithful

\* So are all of them.
LEMMA ObjectsKept ==
    ASSUME ObjectsPublished, UNCHANGED <<captured, objects>>
    PROVE  ObjectsPublished'
<1>1. \A k \in DOMAIN objects : ObjectFaithful(objects[k], k)'
  BY FaithfulKept DEF ObjectsPublished
<1> QED BY <1>1 DEF ObjectsPublished

\* What has been built stays right.
LEMMA BuiltKept ==
    ASSUME EndToEnd, DOMAIN native = AllTargets, UNCHANGED <<selected, native>>
    PROVE  EndToEnd' /\ DOMAIN native' = AllTargets
BY DEF EndToEnd

\* Nothing is refused before sela-ld answers.
LEMMA NotAnswered ==
    ASSUME result = Running
    PROVE  LinkAnswers /\ result.status # "written"
BY DEF LinkAnswers, Running

\* Its answer stays what it is.
LEMMA AnswerKept ==
    ASSUME LinkAnswers, UNCHANGED <<kind, settings, result>>
    PROVE  LinkAnswers'
BY DEF LinkAnswers

\* The command line does not change either.
LEMMA HandedKept ==
    ASSUME Handed, UNCHANGED <<kind, selected, settings, captured, objects, args>>
    PROVE  Handed'
<1>1. Selection' /\ UnitsCaptured' /\ UnitsPaired' /\ ObjectsPublished'
  BY SelectionKept, UnitsKept, ObjectsKept DEF Handed
<1>2. LinkArguments' = LinkArguments
  <2>1. \A t : TargetOrder(t)' = TargetOrder(t) BY DEF TargetOrder
  <2> QED BY <2>1 DEF LinkArguments
<1> QED BY <1>1, <1>2 DEF Handed

-----------------------------------------------------------------------------
(* The steps of a publication. *)

\* What holds at the end of combineSelected.
LEMMA CombineCaptures ==
    ASSUME Selection, CombineSelected, stage' = "publish"
    PROVE  UnitsCaptured' /\ UnitsPaired'
<1> DEFINE paired == \A t \in AllTargets : Corresponding(selected[t])
<1>1. /\ UNCHANGED <<kind, selected, settings, objects, native, vars>>
      /\ ~ (~ paired /\ \E t \in AllTargets : selected[t] = <<>>)
      /\ captured' = IF paired THEN PairedBuild
                     ELSE IF CommonSettings THEN GroupedBuild ELSE ScopedBuild
  BY DEF CombineSelected, Fail
<1>2. Selection' BY <1>1, SelectionKept
<1>3. CASE paired
  <2>1. Reference' = Reference BY <1>1 DEF Reference
  <2>2. \A units : SameOrder(units)' <=> SameOrder(units) BY <2>1 DEF SameOrder
  <2>3. \A units : UniquePeers(units)' <=> UniquePeers(units) BY <2>1 DEF UniquePeers
  <2>4. \A units : Corresponding(units)' <=> Corresponding(units)
    BY <1>1, <2>2, <2>3 DEF Corresponding
  <2>5. \A units : Peers(units)' = Peers(units) BY <2>1, <2>2 DEF Peers
  <2>6. (\A t \in AllTargets : Corresponding(selected[t]))'
    <3>1. \A t \in AllTargets : \E units : units = selected[t]' /\ Corresponding(units)'
      BY <1>1, <1>3, <2>4
    <3> QED BY <3>1
  <2>7. (captured = PairedBuild)'
    <3>1. ASSUME NEW t PROVE Peers(selected[t])' = Peers(selected[t])
      <4>1. PICK units : units = selected[t] OBVIOUS
      <4>2. Peers(units)' = Peers(units) BY <2>5
      <4>3. selected[t]' = units BY <1>1, <4>1
      <4> QED BY <4>1, <4>2, <4>3
    <3>2. PairedBuild' = PairedBuild
      BY <1>1, <2>1, <3>1 DEF PairedBuild
    <3> QED BY <1>1, <1>3, <3>2
  <2> QED BY <1>2, <2>6, <2>7, PairedSound, PTL
<1>4. CASE ~ paired /\ CommonSettings
  <2>1. CommonSettings' BY <1>1, <1>4 DEF CommonSettings, Reference
  <2>2. (captured = GroupedBuild)'
    <3>1. GroupedBuild' = GroupedBuild BY <1>1 DEF GroupedBuild, Reference
    <3> QED BY <1>1, <1>4, <3>1
  <2> QED BY <1>2, <2>1, <2>2, GroupedSound, PTL
<1>5. CASE ~ paired /\ ~ CommonSettings
  <2>1. (\A t \in AllTargets : selected[t] # <<>>)' BY <1>1, <1>5
  <2>2. (captured = ScopedBuild)'
    <3>1. ScopedBuild' = ScopedBuild BY <1>1 DEF ScopedBuild
    <3> QED BY <1>1, <1>5, <3>1
  <2> QED BY <1>2, <2>1, <2>2, ScopedSound, PTL
<1> QED BY <1>3, <1>4, <1>5

\* combineSelected pairs the units or fails.
LEMMA CombineKeeps ==
    ASSUME PublicationSound, CombineSelected
    PROVE  PublicationSound'
<1>1. /\ Selection /\ stage = "selected" /\ result = Running /\ objects = <<>>
      /\ EndToEnd /\ DOMAIN native = AllTargets
  BY DEF PublicationSound, CombineSelected
<1>2. /\ UNCHANGED <<kind, selected, settings, objects, native, vars>>
      /\ stage' \in {"failed", "publish"}
  BY DEF CombineSelected, Fail
<1>3. Selection' BY <1>1, <1>2, SelectionKept
<1>4. (result = Running)' /\ objects' = <<>> BY <1>1, <1>2 DEF vars
<1>5. LinkAnswers' BY <1>4, NotAnswered, PTL
<1>6. EndToEnd' /\ DOMAIN native' = AllTargets BY <1>1, <1>2, BuiltKept
<1>7. CASE stage' = "failed"
  BY <1>3, <1>5, <1>6, <1>7 DEF PublicationSound, Stages
<1>8. CASE stage' = "publish"
  <2>1. UnitsCaptured' /\ UnitsPaired' BY <1>1, <1>8, CombineCaptures
  <2>2. ObjectsPublished'
    <3>1. IsSeq(<<>>) /\ Len(<<>>) = 0 /\ DOMAIN <<>> = {} BY DEF IsSeq
    <3>2. Len(captured'.units) \in Nat BY <2>1, SeqIs DEF UnitsCaptured
    <3>3. Len(<<>>) <= Len(captured'.units) BY <3>1, <3>2
    <3> QED BY <1>4, <3>1, <3>3 DEF ObjectsPublished
  <2> QED BY <1>3, <1>4, <1>5, <1>6, <1>8, <2>1, <2>2 DEF PublicationSound, Stages
<1> QED BY <1>2, <1>7, <1>8

\* The plugin publishes the next captured unit; what it publishes is valid.
LEMMA PublishKeeps ==
    ASSUME PublicationSound, PublishUnit
    PROVE  PublicationSound'
<1> DEFINE k == Len(objects) + 1
<1>1. /\ Selection /\ stage = "publish" /\ result = Running
      /\ UnitsCaptured /\ UnitsPaired /\ ObjectsPublished
      /\ EndToEnd /\ DOMAIN native = AllTargets
      /\ Len(objects) < Len(captured.units)
  BY DEF PublicationSound, PublishUnit
<1>2. UNCHANGED <<kind, selected, settings, captured, native, vars>>
  BY DEF PublishUnit
<1>3. PICK object \in Publishable(captured.units[k]) :
         /\ objects' = Append(objects, object)
         /\ stage' = IF ValidPackage(object) THEN stage ELSE "invalid"
  BY Zenon DEF PublishUnit, Publishable
<1>4. /\ IsSeq(objects) /\ Len(objects) \in Nat /\ DOMAIN objects = 1 .. Len(objects)
      /\ IsSeq(captured.units) /\ Len(captured.units) \in Nat
      /\ DOMAIN captured.units = 1 .. Len(captured.units)
  BY <1>1, SeqIs DEF ObjectsPublished, UnitsCaptured
<1>5. k \in DOMAIN captured.units BY <1>1, <1>4
<1>6. ObjectFaithful(object, k) BY <1>1, <1>3, <1>5, PublishedFaithful
<1>7. stage' = "publish" BY <1>1, <1>3, <1>6, Zenon DEF ObjectFaithful
<1>8. /\ IsSeq(objects') /\ Len(objects') = k /\ DOMAIN objects' = 1 .. k
      /\ objects'[k] = object /\ \A j \in 1 .. Len(objects) : objects'[j] = objects[j]
  BY <1>3, <1>4, AppendIs
<1>9. ObjectsPublished'
  <2>1. ASSUME NEW j \in DOMAIN objects' PROVE ObjectFaithful(objects'[j], j)
    <3>1. CASE j = k BY <1>6, <1>8, <3>1
    <3>2. CASE j # k
      <4>1. j \in DOMAIN objects BY <1>4, <1>8, <3>2
      <4>2. objects'[j] = objects[j] BY <1>4, <1>8, <4>1
      <4>3. ObjectFaithful(objects[j], j) BY <1>1, <4>1 DEF ObjectsPublished
      <4> QED BY <4>2, <4>3
    <3> QED BY <3>1, <3>2
  <2>2. \A j \in DOMAIN objects' : \E o : o = objects'[j] /\ ObjectFaithful(o, j)'
    <3> TAKE j \in DOMAIN objects'
    <3>1. PICK o : o = objects'[j] OBVIOUS
    <3>2. ObjectFaithful(o, j) BY <2>1, <3>1
    <3>3. ObjectFaithful(o, j)' BY <1>2, <3>2, FaithfulKept
    <3> QED BY <3>1, <3>3
  <2>3. Len(objects') <= Len(captured'.units) BY <1>1, <1>2, <1>4, <1>8
  <2> QED BY <1>8, <2>2, <2>3 DEF ObjectsPublished
<1>10. Selection' /\ UnitsCaptured' /\ UnitsPaired'
  BY <1>1, <1>2, SelectionKept, UnitsKept
<1>11. (result = Running)' BY <1>1, <1>2 DEF vars
<1>12. LinkAnswers' BY <1>11, NotAnswered, PTL
<1>13. EndToEnd' /\ DOMAIN native' = AllTargets BY <1>1, <1>2, BuiltKept
<1> QED BY <1>7, <1>9, <1>10, <1>11, <1>12, <1>13 DEF PublicationSound, Stages

\* The importer refuses a unit.
LEMMA PublishFailsKeeps ==
    ASSUME PublicationSound, PublishFails
    PROVE  PublicationSound'
<1>1. /\ Selection /\ LinkAnswers /\ EndToEnd /\ DOMAIN native = AllTargets
  BY DEF PublicationSound
<1>2. /\ UNCHANGED <<kind, selected, settings, captured, objects, native, vars>>
      /\ stage' = "failed"
  BY DEF PublishFails, Fail
<1>3. Selection' BY <1>1, <1>2, SelectionKept
<1>4. LinkAnswers' BY <1>1, <1>2, AnswerKept DEF vars
<1>5. EndToEnd' /\ DOMAIN native' = AllTargets BY <1>1, <1>2, BuiltKept
<1> QED BY <1>2, <1>3, <1>4, <1>5 DEF PublicationSound, Stages

\* sela-build starts sela-ld.
LEMMA StartKeeps ==
    ASSUME PublicationSound, StartLink
    PROVE  PublicationSound'
<1>1. /\ Selection /\ stage = "publish" /\ Len(objects) = Len(captured.units)
      /\ UnitsCaptured /\ UnitsPaired /\ ObjectsPublished
      /\ EndToEnd /\ DOMAIN native = AllTargets
  BY DEF PublicationSound, StartLink
<1>2. /\ UNCHANGED <<kind, selected, settings, captured, objects, native>>
      /\ args' = LinkArguments /\ work' = NoWork(AllTargets) /\ result' = Running
      /\ stage' = IF OrderInactive THEN "invalid" ELSE "link"
  BY DEF StartLink
<1>3. stage' = "link" BY <1>1, <1>2 DEF UnitsPaired
<1>4. Selection' /\ UnitsCaptured' /\ UnitsPaired' /\ ObjectsPublished'
  BY <1>1, <1>2, SelectionKept, UnitsKept, ObjectsKept
<1>5. Handed'
  <2>1. LinkArguments' = LinkArguments
    <3>1. \A t : TargetOrder(t)' = TargetOrder(t) BY <1>2 DEF TargetOrder
    <3> QED BY <1>2, <3>1 DEF LinkArguments
  <2> QED BY <1>1, <1>2, <1>4, <2>1 DEF Handed
<1>6. CommandLine' BY <1>5, ArgumentsFit, PTL
<1>7. (args.targets = AllTargets)' BY <1>2 DEF LinkArguments
<1>8. LinkInit' BY <1>2, <1>6, <1>7 DEF LinkInit
<1>9. LinkSound' BY <1>8, LinkStarts, PTL
<1>10. (result = Running)' BY <1>2
<1>11. LinkAnswers' /\ (result.status # "written")' BY <1>10, NotAnswered, PTL
<1>12. EndToEnd' /\ DOMAIN native' = AllTargets BY <1>1, <1>2, BuiltKept
<1>13. work'.libraries = [t \in AllTargets |-> <<>>] BY <1>2 DEF NoWork
<1>14. Linking' BY <1>5, <1>9, <1>11, <1>13 DEF Linking, Handed
<1> QED BY <1>3, <1>4, <1>11, <1>12, <1>14 DEF PublicationSound, Stages

\* What a step of sela-ld leaves of the libraries, and what it may answer.
LEMMA LinkStepAnswers ==
    ASSUME Handed, LinkSound, work.libraries = [t \in AllTargets |-> <<>>],
           CheckArguments \/ AdmitInput \/ WritePackage
    PROVE  /\ args' = args /\ work'.libraries = [t \in AllTargets |-> <<>>]
           /\ \/ result' = Running
              \/ \E why : result' = Refusal(why)
                          /\ \/ why \in {"limit", "files"}
                             \/ why = "bytecode" /\ InspectFails # {}
                             \/ /\ why = "package"
                                /\ \E t \in AllTargets : ~ ValidLinkRecord(kind, settings[t])
              \/ result' = Written(Package) /\ Package.links = settings
<1>1. CommandLine /\ Progress /\ Served /\ Drafted /\ Partitioned /\ Joining
  BY DEF LinkSound
<1>2. /\ ~ ArgumentProblem /\ args.targets = AllTargets /\ args.kind = kind
  BY ArgumentsFit, ArgumentsAre
<1>3. CASE CheckArguments
  <2>1. /\ result = Running /\ work.next = 0 /\ work' = [work EXCEPT !.next = 1]
        /\ args' = args /\ result' = result
    BY <1>2, <1>3 DEF CheckArguments
  <2>2. work = NoWork(AllTargets) BY <1>1, <1>2, <2>1 DEF Progress
  <2>3. work'.libraries = work.libraries BY <2>1, <2>2 DEF NoWork
  <2> QED BY <2>1, <2>3
<1>4. CASE AdmitInput
  <2>1. /\ args' = args /\ result = Running /\ work.next \in DOMAIN args.inputs
        /\ \/ /\ work' = work
              /\ \E why \in InputProblem(work.next, Object) : result' = Refusal(why)
           \/ result' = result
    BY <1>1, <1>4, AdmitIs
  <2>2. work'.libraries = [t \in AllTargets |-> <<>>]
    <3>1. CASE work' = work BY <3>1
    <3>2. CASE work' # work BY <1>4, <3>2, LibrariesStay
    <3> QED BY <3>1, <3>2
  <2>3. CASE result' = result BY <2>1, <2>2, <2>3
  <2>4. CASE \E why \in InputProblem(work.next, Object) : result' = Refusal(why)
    <3>1. PICK why \in InputProblem(work.next, Object) : result' = Refusal(why) BY <2>4
    <3>2. why = "limit" \/ (why = "bytecode" /\ InspectFails # {})
      BY <1>1, <2>1, InputsPass
    <3> QED BY <2>1, <2>2, <3>1, <3>2
  <2> QED BY <2>1, <2>3, <2>4
<1>5. CASE WritePackage
  <2>1. /\ args' = args /\ work' = work /\ result = Running
        /\ work.next = Len(args.inputs) + 1
        /\ \/ OrderProblem
           \/ ~ OrderProblem /\ ~ ValidPackage(Package) /\ result' = Refusal("package")
           \/ result' = Refusal("files")
           \/ result' = Written(Package)
    BY <1>5, Zenon DEF WritePackage, Refuse, Package
  <2>2. ~ OrderProblem BY <1>1, <2>1, OrdersFit
  <2>3. FinalLinks = settings BY LinksAre
  <2>4. Package.links = settings BY <2>3 DEF Package
  <2>5. ASSUME ~ ValidPackage(Package)
        PROVE  \E t \in AllTargets : ~ ValidLinkRecord(kind, settings[t])
    <3>1. \/ \E t \in args.targets : ~ ValidLinkRecord(args.kind, FinalLinks[t])
          \/ work.modules = <<>> /\ args.kind # "static"
      BY <1>1, <2>2, <2>5, PackageValid
    <3>2. ~ (work.modules = <<>> /\ kind # "static") BY <1>1, <2>1, SomeModule
    <3> QED BY <1>2, <2>3, <3>1, <3>2
  <2>6. CASE ~ ValidPackage(Package) /\ result' = Refusal("package")
    BY <2>1, <2>5, <2>6
  <2>7. CASE result' = Refusal("files") BY <2>1, <2>7
  <2>8. CASE result' = Written(Package) BY <2>1, <2>4, <2>8
  <2> QED BY <2>1, <2>2, <2>6, <2>7, <2>8
<1> QED BY <1>3, <1>4, <1>5

\* sela-ld goes one step further.
LEMMA LinkStepKeeps ==
    ASSUME PublicationSound, LinkStep
    PROVE  PublicationSound'
<1>1. /\ Selection /\ stage = "link" /\ Linking
      /\ UnitsCaptured /\ UnitsPaired /\ ObjectsPublished
      /\ EndToEnd /\ DOMAIN native = AllTargets
  BY DEF PublicationSound, LinkStep
<1>2. /\ UNCHANGED <<kind, selected, settings, stage, captured, objects, native>>
      /\ CheckArguments \/ AdmitInput \/ WritePackage
  BY DEF LinkStep
<1>3. /\ Handed /\ LinkSound /\ work.libraries = [t \in AllTargets |-> <<>>]
  BY <1>1 DEF Handed, Linking
<1>4. /\ args' = args /\ work'.libraries = [t \in AllTargets |-> <<>>]
      /\ \/ result' = Running
         \/ \E why : result' = Refusal(why)
                     /\ \/ why \in {"limit", "files"}
                        \/ why = "bytecode" /\ InspectFails # {}
                        \/ /\ why = "package"
                           /\ \E t \in AllTargets : ~ ValidLinkRecord(kind, settings[t])
         \/ result' = Written(Package) /\ Package.links = settings
  BY <1>2, <1>3, LinkStepAnswers
<1>5. LinkSound' BY <1>2, <1>3, CheckKeeps, AdmitKeeps, WriteKeeps
<1>6. Handed' BY <1>2, <1>3, <1>4, HandedKept
<1>7. LinkAnswers' /\ (result'.status = "written" => result'.package.links = settings)
  <2>1. CASE result' = Running BY <2>1 DEF LinkAnswers, Running
  <2>2. CASE \E why : result' = Refusal(why)
                     /\ \/ why \in {"limit", "files"}
                        \/ why = "bytecode" /\ InspectFails # {}
                        \/ /\ why = "package"
                           /\ \E t \in AllTargets : ~ ValidLinkRecord(kind, settings[t])
    <3>1. PICK why : /\ result' = Refusal(why)
                     /\ \/ why \in {"limit", "files"}
                        \/ why = "bytecode" /\ InspectFails # {}
                        \/ /\ why = "package"
                           /\ \E t \in AllTargets : ~ ValidLinkRecord(kind, settings[t])
      BY <2>2
    <3>2. result'.status = "refused" /\ result'.why = why BY <3>1 DEF Refusal
    <3> QED BY <1>2, <3>1, <3>2 DEF LinkAnswers
  <2>3. CASE result' = Written(Package) /\ Package.links = settings
    <3>1. result'.status = "written" /\ result'.package = Package BY <2>3 DEF Written
    <3> QED BY <2>3, <3>1 DEF LinkAnswers
  <2> QED BY <1>4, <2>1, <2>2, <2>3
<1>8. Linking' BY <1>2, <1>4, <1>5, <1>6, <1>7 DEF Linking, Handed
<1>9. EndToEnd' /\ DOMAIN native' = AllTargets BY <1>1, <1>2, BuiltKept
<1> QED BY <1>1, <1>2, <1>6, <1>7, <1>8, <1>9 DEF PublicationSound, Stages, Handed

\* Linking goes on as it was where none of its parts change.
LEMMA LinkingKept ==
    ASSUME Handed, Linking, UNCHANGED <<kind, selected, settings, captured, objects, vars>>
    PROVE  Handed' /\ Linking'
<1>1. args' = args /\ work' = work /\ result' = result BY DEF vars
<1>2. Handed' BY <1>1, HandedKept
<1>3. LinkSound' BY StopKeeps DEF Linking
<1> QED BY <1>1, <1>2, <1>3 DEF Linking, Handed

\* The package is installed, or nothing is.
LEMMA InstallKeeps ==
    ASSUME PublicationSound, Install
    PROVE  PublicationSound'
<1>1. /\ Selection /\ stage = "link" /\ Linking /\ LinkAnswers
      /\ UnitsCaptured /\ UnitsPaired /\ ObjectsPublished
      /\ EndToEnd /\ DOMAIN native = AllTargets
  BY DEF PublicationSound, Install
<1>2. /\ UNCHANGED <<kind, selected, settings, captured, objects, native, vars>>
      /\ \/ stage' = "published" /\ result.status = "written"
         \/ stage' = "failed"
  BY DEF Install
<1>3. Handed BY <1>1 DEF Handed, Linking
<1>4. Handed' /\ Linking' BY <1>1, <1>2, <1>3, LinkingKept
<1>5. LinkAnswers' /\ result' = result BY <1>1, <1>2, AnswerKept DEF vars
<1>6. EndToEnd' /\ DOMAIN native' = AllTargets BY <1>1, <1>2, BuiltKept
<1> QED BY <1>2, <1>4, <1>5, <1>6 DEF PublicationSound, Stages, Handed

\* selac builds what its lane selected.
LEMMA BuildsNative ==
    ASSUME PublicationSound, stage \in {"link", "published"}, result.status = "written",
           NEW t \in AllTargets
    PROVE  /\ Lowered(Recovered(result.package, t), t) = Native(t)
           /\ result.package.targets = AllTargets /\ result.package.links = settings
<1>1. Handed /\ LinkSound /\ result.package.links = settings
  BY DEF PublicationSound, Handed, Linking
<1>2. args.targets = AllTargets BY <1>1, ArgumentsAre
<1>3. /\ Recovered(result.package, t) = Expected(t)
      /\ result.package.targets = args.targets
  BY <1>1, <1>2 DEF LinkSound, LinkPromises, LinkFaithful, NeverNarrows
<1> QED BY <1>1, <1>2, <1>3, ExpectedIsNative

\* It does so for one target at a time.
LEMMA SelacKeeps ==
    ASSUME PublicationSound, NEW t \in AllTargets, Selac(t)
    PROVE  PublicationSound'
<1>1. /\ Selection /\ stage = "published" /\ Linking /\ LinkAnswers
      /\ UnitsCaptured /\ UnitsPaired /\ ObjectsPublished
      /\ EndToEnd /\ DOMAIN native = AllTargets /\ result.status = "written"
  BY DEF PublicationSound, Selac
<1>2. /\ UNCHANGED <<kind, selected, settings, stage, captured, objects, vars>>
      /\ native' = [native EXCEPT ![t] = Lowered(Recovered(result.package, t), t)]
  BY Zenon DEF Selac, Lowered
<1>3. native' = [native EXCEPT ![t] = Native(t)]
  BY <1>1, <1>2, BuildsNative
<1>4. DOMAIN native' = AllTargets /\ EndToEnd'
  <2>1. DOMAIN native' = AllTargets BY <1>1, <1>3
  <2>2. \A u : Native(u)' = Native(u) BY <1>2 DEF Native
  <2>3. ASSUME NEW u \in AllTargets, native'[u] # NotBuilt PROVE native'[u] = Native(u)
    <3>1. CASE u = t BY <1>1, <1>3, <3>1
    <3>2. CASE u # t
      <4>1. native'[u] = native[u] BY <1>1, <1>3, <3>2
      <4> QED BY <1>1, <2>3, <4>1 DEF EndToEnd, Native
    <3> QED BY <3>1, <3>2
  <2>4. EndToEnd'
    <3>1. \A u \in AllTargets : native'[u] # NotBuilt => native'[u] = Native(u)'
      BY <2>2, <2>3
    <3> QED BY <3>1 DEF EndToEnd, Native
  <2> QED BY <2>1, <2>4
<1>5. Handed BY <1>1 DEF Handed, Linking
<1>6. Handed' /\ Linking' BY <1>1, <1>2, <1>5, LinkingKept
<1>7. LinkAnswers' /\ result' = result BY <1>1, <1>2, AnswerKept DEF vars
<1> QED BY <1>1, <1>2, <1>4, <1>6, <1>7 DEF PublicationSound, Stages, Handed

\* A step that changes nothing.
LEMMA IdleKeeps ==
    ASSUME PublicationSound, UNCHANGED allVars
    PROVE  PublicationSound'
<1>1. UNCHANGED <<kind, selected, settings, stage, captured, objects, native, vars>>
  BY DEF allVars
<1>2. /\ Selection /\ stage \in Stages /\ LinkAnswers /\ EndToEnd /\ DOMAIN native = AllTargets
      /\ stage \in {"publish", "link", "published"} =>
            UnitsCaptured /\ UnitsPaired /\ ObjectsPublished
      /\ stage \in {"link", "published"} => Linking
  BY DEF PublicationSound
<1>3. Selection' BY <1>1, <1>2, SelectionKept
<1>4. LinkAnswers' /\ EndToEnd' /\ DOMAIN native' = AllTargets /\ result' = result
  BY <1>1, <1>2, AnswerKept, BuiltKept DEF vars
<1>5. stage \in {"publish", "link", "published"} =>
         UnitsCaptured' /\ UnitsPaired' /\ ObjectsPublished'
  BY <1>1, <1>2, UnitsKept, ObjectsKept
<1>6. stage \in {"link", "published"} => Linking'
  <2> SUFFICES ASSUME stage \in {"link", "published"} PROVE Linking' OBVIOUS
  <2>1. Handed BY <1>2 DEF Handed, Linking
  <2> QED BY <1>1, <1>2, <2>1, LinkingKept
<1> QED BY <1>1, <1>2, <1>3, <1>4, <1>5, <1>6 DEF PublicationSound

-----------------------------------------------------------------------------
(* The theorems. *)

\* A publication starts sound.
LEMMA PublicationStarts ==
    ASSUME PublicationInit
    PROVE  PublicationSound
<1>1. /\ Selection /\ stage = "selected" /\ objects = <<>> /\ result = Running
      /\ native = [t \in AllTargets |-> NotBuilt]
  BY DEF PublicationInit
<1>2. EndToEnd /\ DOMAIN native = AllTargets BY <1>1 DEF EndToEnd
<1>3. LinkAnswers BY <1>1, NotAnswered
<1> QED BY <1>1, <1>2, <1>3 DEF PublicationSound, Stages

\* Every step of it keeps it so.
LEMMA PublicationSteps ==
    ASSUME PublicationSound, [PublicationNext]_allVars
    PROVE  PublicationSound'
<1>1. CASE CombineSelected BY <1>1, CombineKeeps
<1>2. CASE PublishUnit BY <1>2, PublishKeeps
<1>3. CASE PublishFails BY <1>3, PublishFailsKeeps
<1>4. CASE StartLink BY <1>4, StartKeeps
<1>5. CASE LinkStep BY <1>5, LinkStepKeeps
<1>6. CASE Install BY <1>6, InstallKeeps
<1>7. CASE \E t \in AllTargets : Selac(t) BY <1>7, SelacKeeps
<1>8. CASE Over BY <1>8, IdleKeeps DEF Over
<1>9. CASE UNCHANGED allVars BY <1>9, IdleKeeps
<1> QED BY <1>1, <1>2, <1>3, <1>4, <1>5, <1>6, <1>7, <1>8, <1>9 DEF PublicationNext

\* From any selections of any number of targets, what combineSelected pairs, the
\* plugin publishes and sela-ld joins stays sound at every step.
THEOREM PublicationStaysSound == PublicationSpec => []PublicationSound
<1>1. PublicationInit => PublicationSound BY PublicationStarts
<1>2. PublicationSound /\ [PublicationNext]_allVars => PublicationSound'
  BY PublicationSteps
<1> QED BY <1>1, <1>2, PTL DEF PublicationSpec

\* For every target selac builds exactly the native units that the target's own
\* build lane selected, in their native order, however combineSelected paired or
\* grouped them and however the merger regrouped their definitions.
THEOREM PublicationEndToEnd == PublicationSpec => []EndToEnd
<1>1. PublicationSound => EndToEnd BY DEF PublicationSound
<1> QED BY <1>1, PublicationStaysSound, PTL

\* An installed package has the link settings each lane observed, whether
\* sela-build passed them once for all targets or target by target.
THEOREM PublicationLinksFaithful == PublicationSpec => []LinksFaithful
<1>1. PublicationSound => LinksFaithful
  BY DEF PublicationSound, LinksFaithful, Linking
<1> QED BY <1>1, PublicationStaysSound, PTL

\* sela-ld refuses what sela-build hands it only at its limits or for settings the
\* kind of output may not carry, as long as the fragments inspect: the scopes,
\* names and unit orders sela-build passes never disagree with the objects.
THEOREM PublicationLinkAccepts ==
    ASSUME InspectFails = {}
    PROVE  PublicationSpec => []LinkAccepts
<1>1. PublicationSound => LinkAccepts
  BY DEF PublicationSound, Stages, LinkAnswers, LinkAccepts
<1> QED BY <1>1, PublicationStaysSound, PTL

\* What sela-ld wrote makes of every target what its lane selected.
LEMMA DenotedIs ==
    ASSUME PublicationSound, stage \in {"link", "published"}, result.status = "written"
    PROVE  Denoted(result.package)
             = [t \in AllTargets |->
                  [units |-> [i \in DOMAIN selected[t] |-> NativeUnit(selected[t][i])],
                   link |-> settings[t]]]
<1>1. result.package.targets = AllTargets /\ result.package.links = settings
  BY FirstTarget, BuildsNative
<1>2. \A t \in AllTargets : Lowered(Recovered(result.package, t), t) = Native(t)
  BY BuildsNative
<1>3. Denoted(result.package)
        = [t \in AllTargets |-> [units |-> Lowered(Recovered(result.package, t), t),
                                 link |-> settings[t]]]
  BY <1>1, Zenon DEF Denoted, Lowered
<1>4. Denoted(result.package)
        = [t \in AllTargets |-> [units |-> Native(t), link |-> settings[t]]]
  BY <1>2, <1>3
<1> QED BY <1>4, Zenon DEF Native

\* All of the pairing, regrouping, scoping, reordering and linking comes to one
\* step of the abstract publication: the installation of what the lanes selected.
THEOREM PublicationRefines == PublicationSpec => ImplementsExact
<1> DEFINE Chosen == [t \in AllTargets |->
                        [units |-> [i \in DOMAIN selected[t] |-> NativeUnit(selected[t][i])],
                         link |-> settings[t]]]
           Shown == IF stage = "published" THEN {Denoted(result.package)} ELSE {}
<1>1. PublicationInit => Exact!Init
  BY DEF PublicationInit, Exact!Init
<1>2. PublicationSound /\ PublicationSound' /\ [PublicationNext]_allVars
        => [Exact!Next]_(Exact!exactVars)
  <2> SUFFICES ASSUME PublicationSound, PublicationSound', [PublicationNext]_allVars
               PROVE  [Exact!Next]_(Exact!exactVars)
    OBVIOUS
  <2>1. ASSUME UNCHANGED <<selected, settings, native>>, Shown' = Shown
        PROVE  UNCHANGED Exact!exactVars
    BY <2>1 DEF Exact!exactVars
  <2>2. CASE \/ CombineSelected \/ PublishUnit \/ PublishFails \/ StartLink \/ LinkStep
    <3>1. UNCHANGED <<selected, settings, native>> /\ stage # "published"
          /\ stage' # "published"
      BY <2>2 DEF CombineSelected, PublishUnit, PublishFails, StartLink, LinkStep, Fail
    <3> QED BY <2>1, <3>1
  <2>3. CASE Install
    <3>1. /\ UNCHANGED <<selected, settings, native, result>> /\ stage = "link"
          /\ stage' \in {"published", "failed"}
      BY <2>3 DEF Install, vars
    <3>2. CASE stage' = "published"
      <4>1. result.status = "written" BY <2>3, <3>2 DEF Install
      <4>2. Denoted(result.package) = Chosen BY <3>1, <4>1, DenotedIs
      <4>3. Shown = {} /\ Shown' = {Chosen} BY <3>1, <3>2, <4>2
      <4>4. Exact!Publish BY <3>1, <4>3 DEF Exact!Publish
      <4> QED BY <4>4 DEF Exact!Next
    <3>3. CASE stage' = "failed" BY <2>1, <3>1, <3>3
    <3> QED BY <3>1, <3>2, <3>3
  <2>4. CASE \E t \in AllTargets : Selac(t)
    <3>1. PICK t \in AllTargets : Selac(t) BY <2>4
    <3>2. /\ UNCHANGED <<selected, settings, stage, result>> /\ stage = "published"
          /\ native[t] = NotBuilt
          /\ native' = [native EXCEPT ![t] = Lowered(Recovered(result.package, t), t)]
      BY <3>1, Zenon DEF Selac, Lowered, vars
    <3>3. result.status = "written" BY <3>2 DEF PublicationSound
    <3>4. Denoted(result.package) = Chosen BY <3>2, <3>3, DenotedIs
    <3>5. Lowered(Recovered(result.package, t), t) = Native(t) BY <3>2, <3>3, BuildsNative
    <3>6. Chosen[t].units = Native(t) BY DEF Native
    <3>7. Shown = {Chosen} /\ Shown' = Shown BY <3>2, <3>4
    <3>8. Exact!BuildOn(t) BY <3>2, <3>5, <3>6, <3>7 DEF Exact!BuildOn
    <3> QED BY <3>8 DEF Exact!Next
  <2>5. CASE Over \/ UNCHANGED allVars
    <3>1. UNCHANGED <<selected, settings, native, stage, result>>
      BY <2>5 DEF Over, allVars, vars
    <3> QED BY <2>1, <3>1
  <2> QED BY <2>2, <2>3, <2>4, <2>5 DEF PublicationNext
<1> QED BY <1>1, <1>2, PublicationStaysSound, PTL DEF PublicationSpec, ImplementsExact, Exact!Spec

=============================================================================
