--------------------------- MODULE SelaLinkProofs ---------------------------
(***************************************************************************)
(* What sela-ld promises, for every command line: any number of inputs,    *)
(* targets, fragments and units, any scopes, orders and member names.      *)
(***************************************************************************)
EXTENDS SelaLinkInvariant, SequenceLemmas

-----------------------------------------------------------------------------
(* The operators of the package and the linker. *)

\* The places of a sequence.
LEMMA SeqIs ==
    ASSUME NEW s, IsSeq(s)
    PROVE  Len(s) \in Nat /\ DOMAIN s = 1 .. Len(s)
BY DEF IsSeq

\* The fragments named by each unit of a plan.
Parts(units) == [i \in DOMAIN units |-> units[i].modules]

\* References joins the parts of a plan.
LEMMA ReferencesAre ==
    ASSUME NEW units, IsSeq(units), \A i \in DOMAIN units : units[i].modules \in Seq(Nat)
    PROVE  /\ Parts(units) \in Seq(Seq(Nat))
           /\ References(units) \in Seq(Nat)
           /\ IsInjective(References(units)) <=> PartsDistinct(Parts(units))
           /\ ToSet(References(units)) = UNION {ToSet(units[i].modules) : i \in DOMAIN units}
<1>1. Parts(units) \in Seq(Seq(Nat)) /\ DOMAIN Parts(units) = DOMAIN units
  <2>1. DOMAIN units = 1 .. Len(units) /\ Len(units) \in Nat BY DEF IsSeq
  <2> QED BY <2>1 DEF Parts
<1>2. References(units) = FlattenSeq(Parts(units))
  BY DEF References, Parts
<1>3. References(units) \in Seq(Nat)
  BY <1>1, <1>2, FlattenTyped
<1>4. IsInjective(References(units)) <=> PartsDistinct(Parts(units))
  BY <1>1, <1>2, FlattenInjective
<1>5. ToSet(References(units)) = UNION {ToSet(units[i].modules) : i \in DOMAIN units}
  <2>1. ToSet(References(units)) = UNION {ToSet(Parts(units)[i]) : i \in DOMAIN Parts(units)}
    BY <1>1, <1>2, FlattenToSet
  <2>2. \A i \in DOMAIN units : Parts(units)[i] = units[i].modules BY DEF Parts
  <2> QED BY <1>1, <2>1, <2>2
<1> QED BY <1>1, <1>3, <1>4, <1>5

\* What validatePackage found of one target's plan: its units are not empty and
\* their fragments are those active for the target, each once.
LEMMA UnitsRead ==
    ASSUME NEW package, Decoded(package), NEW t \in DOMAIN package.plan,
           ValidUnits(package, t)
    PROVE  /\ PartsDistinct(Parts(package.plan[t]))
           /\ UNION {ToSet(package.plan[t][i].modules) : i \in DOMAIN package.plan[t]}
                = Active(package.modules, t)
           /\ \A i \in DOMAIN package.plan[t] :
                 /\ package.plan[t][i].modules \in Seq(DOMAIN package.modules)
                 /\ package.plan[t][i].modules # <<>>
                 /\ \A j \in DOMAIN package.plan[t][i].modules :
                       package.plan[t][i].modules[j] \in Active(package.modules, t)
<1> DEFINE units == package.plan[t]
<1>1. IsSeq(units) /\ \A i \in DOMAIN units : units[i].modules \in Seq(Nat)
  BY DEF Decoded
<1>2. /\ References(units) \in Seq(Nat)
      /\ IsInjective(References(units)) <=> PartsDistinct(Parts(units))
      /\ ToSet(References(units)) = UNION {ToSet(units[i].modules) : i \in DOMAIN units}
  BY <1>1, ReferencesAre
<1>3. /\ \A i \in DOMAIN units : units[i].modules # <<>>
      /\ Len(References(units)) = Cardinality(ToSet(References(units)))
      /\ ToSet(References(units)) = Active(package.modules, t)
  BY DEF ValidUnits
<1>4. IsInjective(References(units))
  BY <1>2, <1>3, LengthCounts
<1>5. ASSUME NEW i \in DOMAIN units, NEW j \in DOMAIN units[i].modules
      PROVE  units[i].modules[j] \in Active(package.modules, t)
  <2>1. units[i].modules[j] \in ToSet(units[i].modules) BY DEF ToSet
  <2> QED BY <1>2, <1>3, <2>1
<1>6. ASSUME NEW i \in DOMAIN units PROVE units[i].modules \in Seq(DOMAIN package.modules)
  <2> DEFINE m == units[i].modules
  <2>1. m \in Seq(Nat) BY <1>1
  <2>2. \A j \in DOMAIN m : m[j] \in DOMAIN package.modules BY <1>5 DEF Active
  <2> HIDE DEF m
  <2>3. m \in Seq(DOMAIN package.modules) BY <2>1, <2>2
  <2> QED BY <2>3 DEF m
<1> QED BY <1>2, <1>3, <1>4, <1>5, <1>6

\* ActiveFragments: the fragments that serve a required target, each once.
LEMMA ActiveFragmentsAre ==
    ASSUME NEW modules, IsSeq(modules), NEW required
    PROVE  /\ ActiveFragments(modules, required) \in Seq(DOMAIN modules)
           /\ ToSet(ActiveFragments(modules, required))
                = {i \in DOMAIN modules : modules[i].targets \cap required # {}}
           /\ IsInjective(ActiveFragments(modules, required))
<1> DEFINE K == {i \in DOMAIN modules : modules[i].targets \cap required # {}}
           n == Len(modules)
<1>1. n \in Nat /\ DOMAIN modules = 1 .. n
  BY DEF IsSeq
<1>2. [i \in DOMAIN modules |-> IF modules[i].targets \cap required # {} THEN <<i>> ELSE <<>>]
        = [i \in 1 .. n |-> IF i \in K THEN <<i>> ELSE <<>>]
  BY <1>1
<1>3. K \in SUBSET (1 .. n)
  BY <1>1
<1>4. ActiveFragments(modules, required)
        = FlattenSeq([i \in 1 .. n |-> IF i \in K THEN <<i>> ELSE <<>>])
  BY <1>2 DEF ActiveFragments
<1> HIDE DEF K, n
<1>5. LET kept == FlattenSeq([i \in 1 .. n |-> IF i \in K THEN <<i>> ELSE <<>>])
      IN  kept \in Seq(1 .. n) /\ ToSet(kept) = K /\ IsInjective(kept)
  BY <1>1, <1>3, Filtered
<1> QED BY <1>1, <1>4, <1>5 DEF K

\* ModuleIndices: an active fragment is given the place it is copied to, any
\* other none.
LEMMA ModuleIndicesAre ==
    ASSUME NEW modules, IsSeq(modules), NEW required, NEW i \in DOMAIN modules,
           Len(work.modules) \in Nat
    PROVE  LET active == ActiveFragments(modules, required)
               index == ModuleIndices(modules, required)[i]
           IN  IF modules[i].targets \cap required # {}
               THEN /\ index - Len(work.modules) \in 1 .. Len(active)
                    /\ active[index - Len(work.modules)] = i
                    /\ index \in Nat \ {0}
               ELSE index = 0
<1> DEFINE active == ActiveFragments(modules, required)
           n == Len(work.modules)
           p == SelectInSeq(active, LAMBDA a : a = i)
<1>1. /\ active \in Seq(DOMAIN modules)
      /\ ToSet(active) = {a \in DOMAIN modules : modules[a].targets \cap required # {}}
  BY ActiveFragmentsAre
<1>2. ModuleIndices(modules, required)[i] = IF Contains(active, i) THEN n + p ELSE 0
  BY DEF ModuleIndices
<1> HIDE DEF active
<1>3. Contains(active, i) <=> modules[i].targets \cap required # {}
  <2>1. DOMAIN active = 1 .. Len(active) BY <1>1
  <2> QED BY <1>1, <2>1 DEF Contains, ToSet
<1>4. ASSUME Contains(active, i) PROVE p \in 1 .. Len(active) /\ active[p] = i
  <2>1. Len(active) \in Nat /\ \E j \in 1 .. Len(active) : active[j] = i
    BY <1>1, <1>4 DEF Contains
  <2> QED BY <2>1, Found
<1> HIDE DEF p, n
<1>5. ASSUME Contains(active, i)
      PROVE  (n + p) - n = p /\ n + p \in Nat \ {0}
  BY <1>1, <1>4, <1>5 DEF n
<1> QED BY <1>2, <1>3, <1>4, <1>5 DEF active, n

-----------------------------------------------------------------------------
(* Admitting an input. *)

\* The input under consideration and what is copied of it.
Object == args.inputs[work.next]
Required == RequiredTargets(work.next)
Copied == ActiveFragments(Object.modules, Required)
Place == ModuleIndices(Object.modules, Required)

\* The input passed every check of the loop over the inputs.
Passed ==
    /\ Decoded(Object) /\ ValidPackage(Object) /\ Object.kind = "object"
    /\ Required \subseteq Object.targets /\ Required \subseteq args.targets
    /\ args.kind = "static" => \A t \in Required : Len(Object.plan[t]) = 1

\* What the loop appends to modules: the copied fragments, narrowed.
Appended ==
    /\ IsSeq(work'.modules)
    /\ Len(work'.modules) = Len(work.modules) + Len(Copied)
    /\ \A i \in DOMAIN work.modules : work'.modules[i] = work.modules[i]
    /\ \A p \in DOMAIN Copied :
          work'.modules[Len(work.modules) + p]
            = [bytecode |-> Object.modules[Copied[p]].bytecode,
               targets |-> Object.modules[Copied[p]].targets \cap Required]

\* What the loop appends to the plan of a target asked of the input.
Extended(t) ==
    LET u == Len(work.plan[t])
    IN  /\ IsSeq(work'.plan[t])
        /\ Len(work'.plan[t]) = u + Len(Object.plan[t])
        /\ \A i \in DOMAIN work.plan[t] : work'.plan[t][i] = work.plan[t][i]
        /\ \A i \in DOMAIN Object.plan[t] :
              /\ work'.plan[t][u + i].modules
                   = [j \in DOMAIN Object.plan[t][i].modules |->
                         Place[Object.plan[t][i].modules[j]]]
              /\ work'.plan[t][u + i].optimization = Object.plan[t][i].optimization
              /\ work'.plan[t][u + i].member
                   = IF args.kind = "static" THEN MemberName(work.next, u + i - 1)
                     ELSE Object.plan[t][i].member

\* The step that admits the input.
Admits ==
    /\ args' = args /\ work'.next = work.next + 1 /\ work.next \in DOMAIN args.inputs
    /\ Passed /\ Appended /\ DOMAIN work'.plan = args.targets
    /\ \A t \in Required : Extended(t)
    /\ \A t \in args.targets \ Required : work'.plan[t] = work.plan[t]

\* A function on 1 .. n is a sequence.
LEMMA FunctionIsSeq ==
    ASSUME NEW f, NEW n \in Nat, f = [i \in 1 .. n |-> f[i]]
    PROVE  IsSeq(f) /\ Len(f) = n /\ DOMAIN f = 1 .. n
<1>1. DOMAIN f = 1 .. n
  OBVIOUS
<1>2. \A i \in 1 .. n : f[i] \in ToSet(f)
  BY <1>1 DEF ToSet
<1>3. f \in Seq(ToSet(f)) /\ Len(f) = n
  BY <1>2
<1> QED BY <1>1, <1>3 DEF IsSeq

\* Sequence c is a followed by b, element by element.
Follows(c, a, b) ==
    /\ IsSeq(c) /\ Len(c) = Len(a) + Len(b)
    /\ \A i \in DOMAIN a : c[i] = a[i]
    /\ \A i \in DOMAIN b : c[Len(a) + i] = b[i]

\* That is what concatenation does.
LEMMA ConcatIs ==
    ASSUME NEW a, NEW b, IsSeq(a), IsSeq(b)
    PROVE  Follows(a \o b, a, b)
<1> DEFINE A == ToSet(a) \cup ToSet(b)
<1>1. a \in Seq(A) /\ b \in Seq(A)
  BY DEF IsSeq
<1>2. /\ Len(a) \in Nat /\ Len(b) \in Nat /\ DOMAIN a = 1 .. Len(a) /\ DOMAIN b = 1 .. Len(b)
  BY <1>1
<1>3. /\ a \o b \in Seq(A) /\ Len(a \o b) = Len(a) + Len(b)
      /\ \A i \in 1 .. Len(a) + Len(b) :
            (a \o b)[i] = IF i <= Len(a) THEN a[i] ELSE b[i - Len(a)]
  BY <1>1
<1>4. ToSet(a \o b) = A
  BY <1>1, ConcatToSet
<1>5. ASSUME NEW i \in DOMAIN b PROVE (a \o b)[Len(a) + i] = b[i]
  <2>1. /\ Len(a) + i \in 1 .. Len(a) + Len(b) /\ ~ (Len(a) + i <= Len(a))
        /\ (Len(a) + i) - Len(a) = i
    BY <1>2
  <2> QED BY <1>3, <2>1
<1>6. ASSUME NEW i \in DOMAIN a PROVE (a \o b)[i] = a[i]
  BY <1>2, <1>3
<1> QED BY <1>3, <1>4, <1>5, <1>6 DEF IsSeq, Follows

\* An input that is not refused passed the checks.
LEMMA NothingWrong ==
    ASSUME CommandLine, Progress, work.next \in DOMAIN args.inputs,
           InputProblem(work.next, Object) = {}
    PROVE  Passed
<1>1. Decoded(Object)
  BY DEF CommandLine, Object
<1>2. DOMAIN args.inputs = 1 .. Len(args.inputs) /\ work.next > 0 /\ work.next \in Nat
  BY DEF CommandLine, IsSeq
<1>3. ~ ArgumentProblem
  BY <1>2 DEF Progress
<1>4. Required \subseteq args.targets
  BY <1>3 DEF Required, RequiredTargets, ArgumentProblem
<1>5. ValidPackage(Object) /\ Object.kind = "object" /\ Required \subseteq Object.targets
  BY Zenon DEF InputProblem, Required
<1>6. args.kind = "static" => \A t \in Required : Len(Object.plan[t]) = 1
  BY Zenon DEF InputProblem, Required
<1> QED BY <1>1, <1>4, <1>5, <1>6 DEF Passed

\* AdmitInput either refuses, or appends.
LEMMA AdmitIs ==
    ASSUME CommandLine, Progress, Drafted, AdmitInput
    PROVE  /\ args' = args /\ result = Running /\ work.next \in DOMAIN args.inputs
           /\ \/ /\ work' = work
                 /\ \E why \in InputProblem(work.next, Object) : result' = Refusal(why)
              \/ Admits /\ result' = result
<1> DEFINE k == work.next
           New(t, unit, i) ==
               [modules |-> [j \in DOMAIN unit.modules |-> Place[unit.modules[j]]],
                optimization |-> unit.optimization,
                member |-> IF args.kind = "static"
                           THEN MemberName(k, Len(work.plan[t]) + i - 1)
                           ELSE unit.member]
           fresh == [j \in DOMAIN Copied |->
                        [bytecode |-> Object.modules[Copied[j]].bytecode,
                         targets |-> Object.modules[Copied[j]].targets \cap Required]]
           added(t) == [i \in DOMAIN Object.plan[t] |-> New(t, Object.plan[t][i], i)]
           plan == [t \in args.targets |->
                       IF t \in Required THEN work.plan[t] \o added(t) ELSE work.plan[t]]
           libraries == [t \in args.targets |->
                            IF t \in Required
                            THEN work.libraries[t] \o Object.links[t].libraries
                            ELSE work.libraries[t]]
<1>1. result = Running /\ work.next \in DOMAIN args.inputs
  BY DEF AdmitInput
<1>2. \/ \E why \in InputProblem(k, Object) : Refuse(why)
      \/ /\ InputProblem(k, Object) = {}
         /\ work' = [next |-> k + 1, modules |-> work.modules \o fresh, plan |-> plan,
                     libraries |-> libraries]
         /\ UNCHANGED <<args, result>>
  BY Zenon DEF AdmitInput, Object, Required, Copied, Place
<1>3. CASE \E why \in InputProblem(k, Object) : Refuse(why)
  BY <1>1, <1>3 DEF Refuse
<1>4. CASE /\ InputProblem(k, Object) = {}
           /\ work' = [next |-> k + 1, modules |-> work.modules \o fresh, plan |-> plan,
                       libraries |-> libraries]
           /\ UNCHANGED <<args, result>>
  <2>0. work'.next = k + 1 /\ work'.modules = work.modules \o fresh /\ work'.plan = plan
    BY <1>4, Zenon
  <2>1. Passed
    BY <1>1, <1>4, NothingWrong
  <2>2. IsSeq(Object.modules) /\ Copied \in Seq(DOMAIN Object.modules)
    BY <2>1, ActiveFragmentsAre DEF Passed, Decoded, Copied
  <2>3. Appended
    <3>1. IsSeq(work.modules) BY DEF Drafted
    <3>2. IsSeq(fresh) /\ DOMAIN fresh = DOMAIN Copied /\ Len(fresh) = Len(Copied)
      <4>1. DOMAIN Copied = 1 .. Len(Copied) /\ Len(Copied) \in Nat BY <2>2
      <4>2. fresh = [j \in 1 .. Len(Copied) |-> fresh[j]] BY <4>1
      <4> HIDE DEF fresh
      <4> QED BY <4>1, <4>2, FunctionIsSeq
    <3>3. \A p \in DOMAIN Copied :
             fresh[p] = [bytecode |-> Object.modules[Copied[p]].bytecode,
                         targets |-> Object.modules[Copied[p]].targets \cap Required]
      OBVIOUS
    <3>4. work'.modules = work.modules \o fresh BY <2>0, Zenon
    <3> HIDE DEF fresh
    <3>5. Follows(work'.modules, work.modules, fresh)
      BY <3>1, <3>2, <3>4, ConcatIs
    <3> QED BY <3>2, <3>3, <3>5 DEF Appended, Follows
  <2>4. ASSUME NEW t \in Required PROVE Extended(t)
    <3>1. t \in args.targets /\ t \in DOMAIN Object.plan
      BY <2>1 DEF Passed, ValidPackage
    <3>2. IsSeq(work.plan[t]) /\ IsSeq(Object.plan[t])
      BY <2>1, <3>1 DEF Drafted, Passed, Decoded
    <3>3. IsSeq(added(t)) /\ DOMAIN added(t) = DOMAIN Object.plan[t]
          /\ Len(added(t)) = Len(Object.plan[t])
      <4>1. DOMAIN Object.plan[t] = 1 .. Len(Object.plan[t]) /\ Len(Object.plan[t]) \in Nat
        BY <3>2 DEF IsSeq
      <4> HIDE DEF New
      <4>2. added(t) = [j \in 1 .. Len(Object.plan[t]) |-> added(t)[j]] BY <4>1
      <4> HIDE DEF added
      <4> QED BY <4>1, <4>2, FunctionIsSeq
    <3>4. \A i \in DOMAIN Object.plan[t] : added(t)[i] = New(t, Object.plan[t][i], i)
      BY Zenon
    <3>5. work'.plan[t] = work.plan[t] \o added(t)
      BY <2>0, <3>1, Zenon
    <3> HIDE DEF added
    <3>6. Follows(work'.plan[t], work.plan[t], added(t))
      BY <3>2, <3>3, <3>5, ConcatIs
    <3>7. ASSUME NEW i \in DOMAIN Object.plan[t]
          PROVE  work'.plan[t][Len(work.plan[t]) + i] = New(t, Object.plan[t][i], i)
      <4> HIDE DEF New
      <4> QED BY <3>3, <3>4, <3>6 DEF Follows
    <3>8. ASSUME NEW i \in DOMAIN Object.plan[t]
          PROVE  LET unit == work'.plan[t][Len(work.plan[t]) + i]
                 IN  /\ unit.modules = [j \in DOMAIN Object.plan[t][i].modules |->
                                           Place[Object.plan[t][i].modules[j]]]
                     /\ unit.optimization = Object.plan[t][i].optimization
                     /\ unit.member = IF args.kind = "static"
                                      THEN MemberName(k, Len(work.plan[t]) + i - 1)
                                      ELSE Object.plan[t][i].member
      <4> DEFINE m == [j \in DOMAIN Object.plan[t][i].modules |->
                          Place[Object.plan[t][i].modules[j]]]
                 b == IF args.kind = "static" THEN MemberName(k, Len(work.plan[t]) + i - 1)
                      ELSE Object.plan[t][i].member
      <4>1. work'.plan[t][Len(work.plan[t]) + i]
              = [modules |-> m, optimization |-> Object.plan[t][i].optimization, member |-> b]
        BY <3>7, Zenon
      <4> HIDE DEF m, b
      <4>2. LET unit == work'.plan[t][Len(work.plan[t]) + i]
            IN  /\ unit.modules = m /\ unit.member = b
                /\ unit.optimization = Object.plan[t][i].optimization
        BY <4>1
      <4> QED BY <4>2, Zenon DEF m, b
    <3>9. /\ IsSeq(work'.plan[t])
          /\ Len(work'.plan[t]) = Len(work.plan[t]) + Len(Object.plan[t])
          /\ \A i \in DOMAIN work.plan[t] : work'.plan[t][i] = work.plan[t][i]
      BY <3>3, <3>6 DEF Follows
    <3> QED BY <3>8, <3>9, Zenon DEF Extended
  <2>5. ASSUME NEW t \in args.targets \ Required PROVE work'.plan[t] = work.plan[t]
    BY <2>0, Zenon
  <2>6. DOMAIN work'.plan = args.targets
    BY <2>0, Zenon
  <2> QED BY <1>1, <1>4, <2>0, <2>1, <2>3, <2>4, <2>5, <2>6 DEF Admits
<1> QED BY <1>2, <1>3, <1>4

\* Where a fragment of the input goes: behind the ones there were, with its
\* bytecode, still serving the target, and to a place of its own.
LEMMA CopiedTo ==
    ASSUME Passed, Drafted, Appended, NEW t \in Required,
           NEW x \in Active(Object.modules, t)
    PROVE  /\ Place[x] \in Len(work.modules) + 1 .. Len(work'.modules)
           /\ work'.modules[Place[x]].bytecode = Object.modules[x].bytecode
           /\ t \in work'.modules[Place[x]].targets
           /\ Copied[Place[x] - Len(work.modules)] = x
<1> DEFINE n == Len(work.modules)
           p == Place[x] - n
<1>1. x \in DOMAIN Object.modules /\ t \in Object.modules[x].targets \cap Required
  BY DEF Active
<1>2. IsSeq(Object.modules) /\ n \in Nat
  BY DEF Passed, Decoded, Drafted, IsSeq
<1>3. p \in 1 .. Len(Copied) /\ Copied[p] = x /\ Place[x] \in Nat
  BY <1>1, <1>2, ModuleIndicesAre DEF Copied, Place
<1>4. Copied \in Seq(DOMAIN Object.modules)
  BY <1>2, ActiveFragmentsAre DEF Copied
<1>5. Place[x] = n + p /\ DOMAIN Copied = 1 .. Len(Copied) /\ Len(Copied) \in Nat
  BY <1>2, <1>3, <1>4
<1>6. Place[x] \in n + 1 .. Len(work'.modules)
  BY <1>2, <1>3, <1>5 DEF Appended
<1> HIDE DEF p
<1>7. work'.modules[n + p] = [bytecode |-> Object.modules[Copied[p]].bytecode,
                              targets |-> Object.modules[Copied[p]].targets \cap Required]
  BY <1>3, <1>5 DEF Appended
<1>8. /\ work'.modules[n + p].bytecode = Object.modules[Copied[p]].bytecode
      /\ work'.modules[n + p].targets = Object.modules[Copied[p]].targets \cap Required
  BY <1>7
<1> QED BY <1>1, <1>3, <1>5, <1>6, <1>8 DEF p

\* A fragment behind the ones there were comes from the input.
LEMMA CopiedFrom ==
    ASSUME Passed, Drafted, Appended, NEW t,
           NEW i \in Len(work.modules) + 1 .. Len(work'.modules)
    PROVE  /\ work'.modules[i].targets # {}
           /\ work'.modules[i].targets \subseteq Required
           /\ t \in work'.modules[i].targets =>
                 \E x \in Active(Object.modules, t) : Place[x] = i
<1> DEFINE n == Len(work.modules)
           p == i - n
           x == Copied[p]
<1>1. IsSeq(Object.modules) /\ n \in Nat
  BY DEF Passed, Decoded, Drafted, IsSeq
<1>2. /\ Copied \in Seq(DOMAIN Object.modules) /\ IsInjective(Copied)
      /\ ToSet(Copied) = {y \in DOMAIN Object.modules : Object.modules[y].targets \cap Required # {}}
  BY <1>1, ActiveFragmentsAre DEF Copied
<1>3. DOMAIN Copied = 1 .. Len(Copied) /\ Len(Copied) \in Nat
  BY <1>2
<1>4. p \in 1 .. Len(Copied) /\ i = n + p
  BY <1>1, <1>3 DEF Appended
<1>5. x \in DOMAIN Object.modules /\ Object.modules[x].targets \cap Required # {}
  BY <1>2, <1>3, <1>4 DEF ToSet
<1> HIDE DEF p
<1>6. work'.modules[n + p] = [bytecode |-> Object.modules[Copied[p]].bytecode,
                              targets |-> Object.modules[Copied[p]].targets \cap Required]
  BY <1>3, <1>4 DEF Appended
<1>7. work'.modules[i].targets = Object.modules[x].targets \cap Required
  <2>1. work'.modules[n + p].targets = Object.modules[Copied[p]].targets \cap Required
    BY <1>6
  <2> QED BY <1>4, <2>1
<1>8. ASSUME t \in work'.modules[i].targets
      PROVE  x \in Active(Object.modules, t) /\ Place[x] = i
  <2>1. x \in Active(Object.modules, t) /\ t \in Required
    BY <1>5, <1>7, <1>8 DEF Active
  <2>2. /\ Place[x] - n \in 1 .. Len(Copied) /\ Copied[Place[x] - n] = x
        /\ Place[x] \in Nat
    BY <1>1, <1>5, ModuleIndicesAre DEF Copied, Place
  <2>3. Place[x] - n = p
    BY <1>2, <1>3, <1>4, <2>2 DEF IsInjective
  <2> QED BY <1>1, <1>4, <2>1, <2>2, <2>3
<1> QED BY <1>5, <1>7, <1>8

\* Sequences over a larger set.
LEMMA SeqMonotone ==
    ASSUME NEW A, NEW B, A \subseteq B, NEW s \in Seq(A)
    PROVE  s \in Seq(B)
OBVIOUS

\* A place behind the first a of a + b.
LEMMA Behind ==
    ASSUME NEW a \in Nat, NEW b \in Nat, NEW q \in 1 .. a + b, q \notin 1 .. a
    PROVE  q - a \in 1 .. b /\ a + (q - a) = q
OBVIOUS

\* A unit of the longer plan was in the plan or comes from the input.
LEMMA UnitFrom ==
    ASSUME Drafted, Passed, NEW t \in Required, Extended(t),
           NEW q \in DOMAIN work'.plan[t]
    PROVE  \/ q \in DOMAIN work.plan[t] /\ work'.plan[t][q] = work.plan[t][q]
           \/ q - Len(work.plan[t]) \in DOMAIN Object.plan[t] /\ q \notin DOMAIN work.plan[t]
<1>1. t \in args.targets /\ t \in DOMAIN Object.plan
  BY DEF Passed, ValidPackage
<1>2. IsSeq(work.plan[t]) /\ IsSeq(Object.plan[t]) /\ IsSeq(work'.plan[t])
  BY <1>1 DEF Drafted, Passed, Decoded, Extended
<1>3. /\ DOMAIN work.plan[t] = 1 .. Len(work.plan[t]) /\ Len(work.plan[t]) \in Nat
      /\ DOMAIN Object.plan[t] = 1 .. Len(Object.plan[t]) /\ Len(Object.plan[t]) \in Nat
      /\ DOMAIN work'.plan[t] = 1 .. Len(work'.plan[t])
  BY <1>2 DEF IsSeq
<1>4. Len(work'.plan[t]) = Len(work.plan[t]) + Len(Object.plan[t])
  BY DEF Extended
<1>5. CASE q \in DOMAIN work.plan[t]
  BY <1>5 DEF Extended
<1>6. CASE q \notin DOMAIN work.plan[t]
  <2>1. q \in 1 .. Len(work.plan[t]) + Len(Object.plan[t]) BY <1>3, <1>4
  <2>2. q \notin 1 .. Len(work.plan[t]) BY <1>3, <1>6
  <2>3. q - Len(work.plan[t]) \in 1 .. Len(Object.plan[t]) BY <1>3, <2>1, <2>2, Behind
  <2> QED BY <1>3, <1>6, <2>3
<1> QED BY <1>5, <1>6

\* A unit taken from the input: its fragments are the input's, where they went,
\* and it has a member name exactly in a static output.
LEMMA UnitAdded ==
    ASSUME CommandLine, Progress, Drafted, Admits, NEW t \in Required,
           NEW i \in DOMAIN Object.plan[t]
    PROVE  LET unit == work'.plan[t][Len(work.plan[t]) + i]
               from == Object.plan[t][i].modules
           IN  /\ unit.modules \in Seq(Len(work.modules) + 1 .. Len(work'.modules))
               /\ unit.modules # <<>>
               /\ DOMAIN unit.modules = DOMAIN from
               /\ \A j \in DOMAIN from :
                     /\ from[j] \in Active(Object.modules, t)
                     /\ unit.modules[j] = Place[from[j]]
               /\ (unit.member # NoMember) <=> (args.kind = "static")
<1> DEFINE u == Len(work.plan[t])
           unit == work'.plan[t][u + i]
           from == Object.plan[t][i].modules
           R == Len(work.modules) + 1 .. Len(work'.modules)
<1>1. Passed /\ Appended /\ Extended(t) /\ work.next \in DOMAIN args.inputs
  BY DEF Admits
<1>2. /\ t \in args.targets /\ t \in DOMAIN Object.plan /\ ValidUnits(Object, t)
      /\ Decoded(Object)
  BY <1>1 DEF Passed, ValidPackage
<1>3. /\ unit.modules = [j \in DOMAIN from |-> Place[from[j]]]
      /\ unit.member = IF args.kind = "static" THEN MemberName(work.next, u + i - 1)
                       ELSE Object.plan[t][i].member
  BY <1>1 DEF Extended
<1>4. /\ from \in Seq(DOMAIN Object.modules) /\ from # <<>>
      /\ \A j \in DOMAIN from : from[j] \in Active(Object.modules, t)
  BY <1>2, UnitsRead
<1>5. \A j \in DOMAIN from : Place[from[j]] \in R
  BY <1>1, <1>4, CopiedTo
<1> HIDE DEF unit, from, R
<1>6. DOMAIN from = 1 .. Len(from) /\ Len(from) \in Nat \ {0}
  BY <1>4
<1>7. unit.modules \in Seq(R) /\ unit.modules # <<>> /\ DOMAIN unit.modules = DOMAIN from
      /\ \A j \in DOMAIN from : unit.modules[j] = Place[from[j]]
  BY <1>3, <1>5, <1>6
<1>8. (unit.member # NoMember) <=> (args.kind = "static")
  <2>1. CASE args.kind # "static"
    <3>1. Object.plan[t][i].member = NoMember
      <4>1. (Object.plan[t][i].member # NoMember) <=> (Object.kind = "static")
        BY <1>2 DEF ValidUnits
      <4> QED BY <1>1, <4>1 DEF Passed
    <3> QED BY <1>3, <2>1, <3>1
  <2>2. CASE args.kind = "static"
    <3>1. u + i - 1 \in Nat
      <4>1. u \in Nat BY <1>2 DEF Drafted, IsSeq
      <4>2. i \in Nat \ {0} BY <1>2 DEF Decoded, IsSeq
      <4> QED BY <4>1, <4>2
    <3>2. CASE args.names = <<>>
      <4>1. unit.member = <<"m", u + i - 1>> BY <1>3, <2>2, <3>2 DEF MemberName
      <4> QED BY <2>2, <3>1, <4>1, MemberAssumption
    <3>3. CASE args.names # <<>>
      <4>1. unit.member = args.names[work.next] BY <1>3, <2>2, <3>3 DEF MemberName
      <4>2. DOMAIN args.inputs = 1 .. Len(args.inputs) /\ DOMAIN args.names = 1 .. Len(args.names)
        BY DEF CommandLine, IsSeq
      <4>3. Len(args.names) = Len(args.inputs)
        <5>1. ~ ArgumentProblem BY <1>1, <4>2 DEF Progress
        <5> QED BY <3>3, <5>1 DEF ArgumentProblem
      <4>4. args.names[work.next] \in ToSet(args.names)
        BY <1>1, <4>2, <4>3 DEF ToSet
      <4> QED BY <2>2, <4>1, <4>4 DEF CommandLine
    <3> QED BY <3>2, <3>3
  <2> QED BY <2>1, <2>2
<1> QED BY <1>4, <1>7, <1>8 DEF unit, from, R

\* The draft keeps its shape.
LEMMA AdmitDrafts ==
    ASSUME CommandLine, Progress, Drafted, Admits
    PROVE  Drafted'
<1> DEFINE n == Len(work.modules)
           m == Len(work'.modules)
<1>1. Passed /\ Appended /\ DOMAIN work'.plan = args.targets /\ args' = args
  BY DEF Admits
<1>2. IsSeq(work.modules) /\ IsSeq(work'.modules) /\ IsSeq(Object.modules)
  BY <1>1 DEF Drafted, Appended, Passed, Decoded
<1>3. /\ n \in Nat /\ DOMAIN work.modules = 1 .. n
      /\ m \in Nat /\ DOMAIN work'.modules = 1 .. m /\ n <= m
  <2>1. Copied \in Seq(DOMAIN Object.modules) BY <1>2, ActiveFragmentsAre DEF Copied
  <2>2. Len(Copied) \in Nat BY <2>1
  <2> QED BY <1>1, <1>2, <2>2 DEF IsSeq, Appended
<1>4. ASSUME NEW i \in DOMAIN work'.modules
      PROVE  work'.modules[i].targets # {} /\ work'.modules[i].targets \subseteq args.targets
  <2>1. CASE i \in DOMAIN work.modules
    BY <1>1, <2>1 DEF Drafted, Appended
  <2>2. CASE i \notin DOMAIN work.modules
    <3>1. i \in n + 1 .. m BY <1>3, <2>2
    <3>2. work'.modules[i].targets # {} /\ work'.modules[i].targets \subseteq Required
      BY <1>1, <3>1, CopiedFrom
    <3> QED BY <1>1, <3>2 DEF Passed
  <2> QED BY <2>1, <2>2
<1>5. ASSUME NEW t \in args.targets
      PROVE  /\ IsSeq(work'.plan[t])
             /\ \A q \in DOMAIN work'.plan[t] :
                   /\ work'.plan[t][q].modules \in Seq(1 .. m)
                   /\ work'.plan[t][q].modules # <<>>
                   /\ (work'.plan[t][q].member # NoMember) <=> (args.kind = "static")
  <2>1. ASSUME NEW q \in DOMAIN work.plan[t]
        PROVE  /\ work.plan[t][q].modules \in Seq(1 .. m)
               /\ work.plan[t][q].modules # <<>>
               /\ (work.plan[t][q].member # NoMember) <=> (args.kind = "static")
    <3>1. 1 .. n \subseteq 1 .. m BY <1>3
    <3>2. /\ work.plan[t][q].modules \in Seq(1 .. n)
          /\ work.plan[t][q].modules # <<>>
          /\ (work.plan[t][q].member # NoMember) <=> (args.kind = "static")
      BY DEF Drafted
    <3> HIDE DEF n, m
    <3>3. work.plan[t][q].modules \in Seq(1 .. m) BY <3>1, <3>2, SeqMonotone
    <3> QED BY <3>2, <3>3
  <2>2. CASE t \notin Required
    <3>1. work'.plan[t] = work.plan[t] BY <2>2 DEF Admits
    <3> QED BY <2>1, <3>1 DEF Drafted
  <2>3. CASE t \in Required
    <3>1. Extended(t) BY <2>3 DEF Admits
    <3>2. IsSeq(work'.plan[t]) BY <3>1 DEF Extended
    <3>3. ASSUME NEW q \in DOMAIN work'.plan[t]
          PROVE  /\ work'.plan[t][q].modules \in Seq(1 .. m)
                 /\ work'.plan[t][q].modules # <<>>
                 /\ (work'.plan[t][q].member # NoMember) <=> (args.kind = "static")
      <4>1. CASE q \in DOMAIN work.plan[t] /\ work'.plan[t][q] = work.plan[t][q]
        BY <2>1, <4>1
      <4>2. CASE q - Len(work.plan[t]) \in DOMAIN Object.plan[t]
        <5> DEFINE i == q - Len(work.plan[t])
        <5>1. Len(work.plan[t]) + i = q
          BY <3>2 DEF Drafted, IsSeq
        <5> HIDE DEF i
        <5>2. LET unit == work'.plan[t][Len(work.plan[t]) + i]
              IN  /\ unit.modules \in Seq(n + 1 .. m) /\ unit.modules # <<>>
                  /\ (unit.member # NoMember) <=> (args.kind = "static")
          BY <2>3, <4>2, UnitAdded DEF i
        <5>3. n + 1 .. m \subseteq 1 .. m BY <1>3
        <5> DEFINE added == work'.plan[t][Len(work.plan[t]) + i].modules
                   R == n + 1 .. m
                   W == 1 .. m
        <5>4. added \in Seq(R) /\ R \subseteq W BY <5>2, <5>3
        <5> HIDE DEF n, m, R, W, added
        <5>5. added \in Seq(W) BY <5>4, SeqMonotone
        <5> USE DEF added, W
        <5> QED BY <5>1, <5>2, <5>5
      <4> QED BY <1>1, <2>3, <3>1, <4>1, <4>2, UnitFrom
    <3> QED BY <3>2, <3>3
  <2> QED BY <2>2, <2>3
<1> QED BY <1>1, <1>2, <1>4, <1>5 DEF Drafted

\* Fragments go to places of their own.
LEMMA PlaceInjective ==
    ASSUME Passed, Drafted, Appended, NEW t \in Required,
           NEW x \in Active(Object.modules, t), NEW y \in Active(Object.modules, t),
           Place[x] = Place[y]
    PROVE  x = y
<1>1. Copied[Place[x] - Len(work.modules)] = x
  BY CopiedTo
<1>2. Copied[Place[y] - Len(work.modules)] = y
  BY CopiedTo
<1> QED BY <1>1, <1>2

\* The fragments active for a target after the step: the ones before it, and the
\* places of those active in the input if the target was asked of it.
LEMMA ActiveAfter ==
    ASSUME Drafted, Admits, NEW t \in args.targets
    PROVE  Active(work'.modules, t)
             = Active(work.modules, t)
                 \cup (IF t \in Required THEN {Place[x] : x \in Active(Object.modules, t)} ELSE {})
<1> DEFINE n == Len(work.modules)
           m == Len(work'.modules)
           P == IF t \in Required THEN {Place[x] : x \in Active(Object.modules, t)} ELSE {}
<1>1. Passed /\ Appended
  BY DEF Admits
<1>2. IsSeq(work.modules) /\ IsSeq(work'.modules) /\ IsSeq(Object.modules)
  BY <1>1 DEF Drafted, Appended, Passed, Decoded
<1>3. /\ n \in Nat /\ DOMAIN work.modules = 1 .. n
      /\ m \in Nat /\ DOMAIN work'.modules = 1 .. m /\ n <= m
  <2>1. Copied \in Seq(DOMAIN Object.modules) BY <1>2, ActiveFragmentsAre DEF Copied
  <2>2. Len(Copied) \in Nat BY <2>1
  <2> QED BY <1>1, <1>2, <2>2 DEF IsSeq, Appended
<1>4. ASSUME NEW y \in Active(work'.modules, t) PROVE y \in Active(work.modules, t) \cup P
  <2>1. y \in 1 .. m /\ t \in work'.modules[y].targets BY <1>3 DEF Active
  <2>2. CASE y \in 1 .. n
    BY <1>1, <1>3, <2>1, <2>2 DEF Appended, Active
  <2>3. CASE y \notin 1 .. n
    <3>1. y \in n + 1 .. m BY <1>3, <2>1, <2>3
    <3>2. /\ work'.modules[y].targets \subseteq Required
          /\ \E x \in Active(Object.modules, t) : Place[x] = y
      BY <1>1, <2>1, <3>1, CopiedFrom
    <3> QED BY <2>1, <3>2
  <2> QED BY <2>2, <2>3
<1>5. ASSUME NEW y \in Active(work.modules, t) PROVE y \in Active(work'.modules, t)
  BY <1>1, <1>3 DEF Active, Appended
<1>6. ASSUME NEW y \in P PROVE y \in Active(work'.modules, t)
  <2>1. t \in Required /\ \E x \in Active(Object.modules, t) : y = Place[x] OBVIOUS
  <2>2. PICK x \in Active(Object.modules, t) : y = Place[x] BY <2>1
  <2>3. y \in n + 1 .. m /\ t \in work'.modules[y].targets BY <1>1, <2>1, <2>2, CopiedTo
  <2>4. y \in DOMAIN work'.modules BY <1>3, <2>3
  <2> QED BY <2>3, <2>4 DEF Active
<1> QED BY <1>4, <1>5, <1>6

\* What Partitioned says of a plan, unit by unit.
LEMMA PartitionedIs ==
    ASSUME Drafted, Partitioned, NEW t \in args.targets
    PROVE  /\ PartsDistinct(Parts(work.plan[t]))
           /\ UNION {ToSet(work.plan[t][i].modules) : i \in DOMAIN work.plan[t]}
                = Active(work.modules, t)
<1>1. IsSeq(work.plan[t])
  BY DEF Drafted
<1>2. ASSUME NEW i \in DOMAIN work.plan[t] PROVE work.plan[t][i].modules \in Seq(Nat)
  <2>1. work.plan[t][i].modules \in Seq(1 .. Len(work.modules)) BY DEF Drafted
  <2>2. 1 .. Len(work.modules) \subseteq Nat OBVIOUS
  <2> QED BY <2>1, <2>2, SeqMonotone
<1> QED BY <1>1, <1>2, ReferencesAre DEF Partitioned

\* The fragments of the units of the longer plan.
LEMMA ExtendedDistinct ==
    ASSUME CommandLine, Progress, Drafted, Partitioned, Admits, NEW t \in Required
    PROVE  /\ PartsDistinct(Parts(work'.plan[t]))
           /\ UNION {ToSet(work'.plan[t][q].modules) : q \in DOMAIN work'.plan[t]}
                = Active(work'.modules, t)
<1> DEFINE u == Len(work.plan[t])
           n == Len(work.modules)
           m == Len(work'.modules)
           Unit(q) == work'.plan[t][q].modules
           From(q) == Object.plan[t][q - u].modules
           Old(q) == q \in DOMAIN work.plan[t]
           New(q) == q - u \in DOMAIN Object.plan[t]
<1>1. Passed /\ Appended /\ Extended(t) /\ t \in args.targets
  BY DEF Admits, Passed
<1>2. /\ t \in DOMAIN Object.plan /\ ValidUnits(Object, t) /\ Decoded(Object)
  BY <1>1 DEF Passed, ValidPackage
<1>3. /\ PartsDistinct(Parts(work.plan[t]))
      /\ UNION {ToSet(work.plan[t][q].modules) : q \in DOMAIN work.plan[t]} = Active(work.modules, t)
  BY <1>1, PartitionedIs
<1>4. /\ PartsDistinct(Parts(Object.plan[t]))
      /\ UNION {ToSet(Object.plan[t][i].modules) : i \in DOMAIN Object.plan[t]}
           = Active(Object.modules, t)
  BY <1>2, UnitsRead
<1>5. /\ u \in Nat /\ n \in Nat /\ DOMAIN work.plan[t] = 1 .. u /\ DOMAIN work.modules = 1 .. n
      /\ DOMAIN Object.plan[t] = 1 .. Len(Object.plan[t]) /\ Len(Object.plan[t]) \in Nat
      /\ DOMAIN work'.plan[t] = 1 .. u + Len(Object.plan[t])
  <2>1. /\ IsSeq(work.plan[t]) /\ IsSeq(work.modules) /\ IsSeq(Object.plan[t])
        /\ IsSeq(work'.plan[t]) /\ Len(work'.plan[t]) = u + Len(Object.plan[t])
    BY <1>1, <1>2 DEF Drafted, Decoded, Extended
  <2>2. DOMAIN work'.plan[t] = 1 .. Len(work'.plan[t]) BY <2>1, SeqIs
  <2> QED BY <2>1, <2>2, SeqIs
<1>6. ASSUME NEW q \in DOMAIN work'.plan[t]
      PROVE  \/ Old(q) /\ Unit(q) = work.plan[t][q].modules
             \/ New(q) /\ ~ Old(q)
  BY <1>1, UnitFrom
<1>7. ASSUME NEW q, Old(q), NEW y \in ToSet(work.plan[t][q].modules)
      PROVE  y \in 1 .. n /\ y \in Active(work.modules, t)
  <2>1. y \in Active(work.modules, t) BY <1>3, <1>7
  <2> QED BY <1>5, <2>1 DEF Active
<1>8. ASSUME NEW q \in DOMAIN work'.plan[t], New(q)
      PROVE  /\ DOMAIN Unit(q) = DOMAIN From(q)
             /\ \A j \in DOMAIN From(q) :
                   /\ From(q)[j] \in Active(Object.modules, t)
                   /\ Unit(q)[j] = Place[From(q)[j]]
  <2> DEFINE i == q - u
  <2>1. u + i = q BY <1>5
  <2> HIDE DEF i
  <2>2. LET unit == work'.plan[t][Len(work.plan[t]) + i]
            from == Object.plan[t][i].modules
        IN  /\ DOMAIN unit.modules = DOMAIN from
            /\ \A j \in DOMAIN from :
                  /\ from[j] \in Active(Object.modules, t)
                  /\ unit.modules[j] = Place[from[j]]
    BY <1>8, UnitAdded DEF i
  <2> QED BY <2>1, <2>2 DEF i
<1>9. ASSUME NEW q \in DOMAIN work'.plan[t], New(q), NEW y \in ToSet(Unit(q))
      PROVE  \E x \in Active(Object.modules, t) :
                y = Place[x] /\ y \in n + 1 .. m /\ x \in ToSet(From(q))
  <2> HIDE DEF Unit, From, New
  <2>0. PICK j \in DOMAIN Unit(q) : y = Unit(q)[j] BY <1>9 DEF ToSet
  <2>1. /\ j \in DOMAIN From(q) /\ y = Place[From(q)[j]]
        /\ From(q)[j] \in Active(Object.modules, t)
    BY <1>8, <1>9, <2>0
  <2>2. From(q)[j] \in ToSet(From(q)) BY <2>1 DEF ToSet
  <2>3. Place[From(q)[j]] \in n + 1 .. m BY <1>1, <2>1, CopiedTo
  <2> QED BY <2>1, <2>2, <2>3
<1> HIDE DEF Unit, From
<1>10. ASSUME NEW q \in DOMAIN work'.plan[t] PROVE IsInjective(Unit(q))
  <2>1. CASE Old(q) /\ Unit(q) = work.plan[t][q].modules
    <3>1. DOMAIN Parts(work.plan[t]) = DOMAIN work.plan[t]
          /\ Parts(work.plan[t])[q] = work.plan[t][q].modules
      BY <2>1 DEF Parts
    <3> QED BY <1>3, <2>1, <3>1 DEF PartsDistinct
  <2>2. CASE New(q)
    <3>1. /\ DOMAIN Parts(Object.plan[t]) = DOMAIN Object.plan[t]
          /\ Parts(Object.plan[t])[q - u] = From(q)
      BY <2>2 DEF Parts, From
    <3>2. IsInjective(From(q)) BY <1>4, <2>2, <3>1 DEF PartsDistinct
    <3>3. ASSUME NEW i \in DOMAIN Unit(q), NEW j \in DOMAIN Unit(q), Unit(q)[i] = Unit(q)[j]
          PROVE  i = j
      <4>1. i \in DOMAIN From(q) /\ j \in DOMAIN From(q) BY <1>8, <2>2
      <4>2. /\ From(q)[i] \in Active(Object.modules, t) /\ From(q)[j] \in Active(Object.modules, t)
            /\ Place[From(q)[i]] = Place[From(q)[j]]
        BY <1>8, <2>2, <3>3, <4>1
      <4>3. From(q)[i] = From(q)[j] BY <1>1, <4>2, PlaceInjective
      <4> QED BY <3>2, <4>1, <4>3 DEF IsInjective
    <3> QED BY <3>3 DEF IsInjective
  <2> QED BY <1>6, <2>1, <2>2
<1>11. ASSUME NEW q \in DOMAIN work'.plan[t], NEW r \in DOMAIN work'.plan[t], NEW y,
              y \in ToSet(Unit(q)), y \in ToSet(Unit(r))
       PROVE  q = r
  <2>1. CASE Old(q) /\ Unit(q) = work.plan[t][q].modules /\ Old(r) /\ Unit(r) = work.plan[t][r].modules
    <3>1. /\ DOMAIN Parts(work.plan[t]) = DOMAIN work.plan[t]
          /\ Parts(work.plan[t])[q] = Unit(q) /\ Parts(work.plan[t])[r] = Unit(r)
      BY <2>1 DEF Parts
    <3> QED BY <1>3, <1>11, <2>1, <3>1 DEF PartsDistinct
  <2>2. CASE New(q) /\ New(r)
    <3>1. PICK x \in Active(Object.modules, t) : y = Place[x] /\ x \in ToSet(From(q))
      BY <1>9, <1>11, <2>2
    <3>2. PICK z \in Active(Object.modules, t) : y = Place[z] /\ z \in ToSet(From(r))
      BY <1>9, <1>11, <2>2
    <3>3. x = z BY <1>1, <3>1, <3>2, PlaceInjective
    <3>4. /\ DOMAIN Parts(Object.plan[t]) = DOMAIN Object.plan[t]
          /\ Parts(Object.plan[t])[q - u] = From(q) /\ Parts(Object.plan[t])[r - u] = From(r)
      BY <2>2 DEF Parts, From
    <3>5. q - u = r - u BY <1>4, <2>2, <3>1, <3>2, <3>3, <3>4 DEF PartsDistinct
    <3> QED BY <1>5, <3>5
  <2>3. CASE Old(q) /\ Unit(q) = work.plan[t][q].modules /\ New(r)
    <3>1. y \in 1 .. n BY <1>7, <1>11, <2>3
    <3>2. y \in n + 1 .. m BY <1>9, <1>11, <2>3
    <3> QED BY <1>5, <3>1, <3>2
  <2>4. CASE Old(r) /\ Unit(r) = work.plan[t][r].modules /\ New(q)
    <3>1. y \in 1 .. n BY <1>7, <1>11, <2>4
    <3>2. y \in n + 1 .. m BY <1>9, <1>11, <2>4
    <3> QED BY <1>5, <3>1, <3>2
  <2> QED BY <1>6, <2>1, <2>2, <2>3, <2>4
<1>12. PartsDistinct(Parts(work'.plan[t]))
  <2>1. /\ DOMAIN Parts(work'.plan[t]) = DOMAIN work'.plan[t]
        /\ \A q \in DOMAIN work'.plan[t] : Parts(work'.plan[t])[q] = Unit(q)
    BY DEF Parts, Unit
  <2> QED BY <1>10, <1>11, <2>1 DEF PartsDistinct
<1>13. UNION {ToSet(Unit(q)) : q \in DOMAIN work'.plan[t]}
         = Active(work.modules, t) \cup {Place[x] : x \in Active(Object.modules, t)}
  <2>1. ASSUME NEW q \in DOMAIN work'.plan[t], NEW y \in ToSet(Unit(q))
        PROVE  y \in Active(work.modules, t) \cup {Place[x] : x \in Active(Object.modules, t)}
    BY <1>6, <1>7, <1>9
  <2>2. ASSUME NEW y \in Active(work.modules, t)
        PROVE  \E q \in DOMAIN work'.plan[t] : y \in ToSet(Unit(q))
    <3>1. PICK q \in DOMAIN work.plan[t] : y \in ToSet(work.plan[t][q].modules) BY <1>3
    <3>2. q \in DOMAIN work'.plan[t]
      <4>1. q \in 1 .. u BY <1>5
      <4>2. q \in 1 .. u + Len(Object.plan[t])
        <5> HIDE DEF u
        <5> QED BY <1>5, <4>1
      <4> QED BY <1>5, <4>2
    <3>3. Unit(q) = work.plan[t][q].modules BY <1>1 DEF Extended, Unit
    <3> QED BY <3>1, <3>2, <3>3
  <2>3. ASSUME NEW x \in Active(Object.modules, t)
        PROVE  \E q \in DOMAIN work'.plan[t] : Place[x] \in ToSet(Unit(q))
    <3>1. PICK i \in DOMAIN Object.plan[t] : x \in ToSet(Object.plan[t][i].modules) BY <1>4
    <3>2. u + i \in DOMAIN work'.plan[t] /\ (u + i) - u = i
      <4>1. i \in 1 .. Len(Object.plan[t]) BY <1>5
      <4>2. u + i \in 1 .. u + Len(Object.plan[t]) /\ (u + i) - u = i
        <5> HIDE DEF u
        <5> QED BY <1>5, <4>1
      <4> QED BY <1>5, <4>2
    <3>3. From(u + i) = Object.plan[t][i].modules /\ New(u + i) BY <3>2 DEF From
    <3>4. PICK j \in DOMAIN From(u + i) : x = From(u + i)[j] BY <3>1, <3>3 DEF ToSet
    <3>5. j \in DOMAIN Unit(u + i) /\ Unit(u + i)[j] = Place[x] BY <1>8, <3>2, <3>3, <3>4
    <3>6. Place[x] \in ToSet(Unit(u + i)) BY <3>5 DEF ToSet
    <3> QED BY <3>2, <3>6
  <2> QED BY <2>1, <2>2, <2>3
<1>14. Active(work'.modules, t)
         = Active(work.modules, t) \cup {Place[x] : x \in Active(Object.modules, t)}
  BY <1>1, ActiveAfter
<1> QED BY <1>12, <1>13, <1>14 DEF Unit

\* Each target's plan stays a partition of the fragments active for it.
LEMMA AdmitPartitions ==
    ASSUME CommandLine, Progress, Drafted, Partitioned, Admits
    PROVE  Partitioned'
<1>1. Drafted'
  BY AdmitDrafts
<1>2. args' = args
  BY DEF Admits
<1> SUFFICES ASSUME NEW t \in args.targets
             PROVE  /\ IsInjective(References(work'.plan[t]))
                    /\ ToSet(References(work'.plan[t])) = Active(work'.modules, t)
  BY <1>2 DEF Partitioned
<1>3. IsSeq(work'.plan[t])
  BY <1>1, <1>2 DEF Drafted
<1>4. ASSUME NEW i \in DOMAIN work'.plan[t] PROVE work'.plan[t][i].modules \in Seq(Nat)
  <2>1. work'.plan[t][i].modules \in Seq(1 .. Len(work'.modules)) BY <1>1, <1>2 DEF Drafted
  <2>2. 1 .. Len(work'.modules) \subseteq Nat OBVIOUS
  <2> QED BY <2>1, <2>2, SeqMonotone
<1>5. /\ IsInjective(References(work'.plan[t])) <=> PartsDistinct(Parts(work'.plan[t]))
      /\ ToSet(References(work'.plan[t]))
           = UNION {ToSet(work'.plan[t][i].modules) : i \in DOMAIN work'.plan[t]}
  BY <1>3, <1>4, ReferencesAre
<1>6. CASE t \in Required
  BY <1>5, <1>6, ExtendedDistinct
<1>7. CASE t \notin Required
  <2>1. work'.plan[t] = work.plan[t] BY <1>7 DEF Admits
  <2>2. Active(work'.modules, t) = Active(work.modules, t) BY <1>7, ActiveAfter
  <2> QED BY <2>1, <2>2 DEF Partitioned
<1> QED BY <1>6, <1>7

-----------------------------------------------------------------------------
(* The units of the admitted inputs, joined. *)

\* One unit as selac sees it.
UnitBytes(modules, unit) ==
    [bytecode |-> [j \in DOMAIN unit.modules |-> modules[unit.modules[j]].bytecode],
     optimization |-> unit.optimization, member |-> unit.member]

\* The member name of unit i of a target, of input origin.
NameOf(i, origin) ==
    IF args.kind # "static" THEN NoMember
    ELSE IF args.names = <<>> THEN <<"m", i - 1>> ELSE args.names[origin]

Named(unit, i, origin) == [unit EXCEPT !.member = NameOf(i, origin)]

\* Giving a unit its name.
LEMMA NamedIs ==
    ASSUME NEW modules, NEW unit, NEW i, NEW origin
    PROVE  Named(UnitBytes(modules, unit), i, origin)
             = [bytecode |-> [j \in DOMAIN unit.modules |-> modules[unit.modules[j]].bytecode],
                optimization |-> unit.optimization, member |-> NameOf(i, origin)]
<1> DEFINE b == [j \in DOMAIN unit.modules |-> modules[unit.modules[j]].bytecode]
           x == NameOf(i, origin)
<1>1. UnitBytes(modules, unit) = [bytecode |-> b, optimization |-> unit.optimization,
                                  member |-> unit.member]
  BY DEF UnitBytes
<1> HIDE DEF b, x
<1>2. [[bytecode |-> b, optimization |-> unit.optimization, member |-> unit.member]
         EXCEPT !.member = x]
        = [bytecode |-> b, optimization |-> unit.optimization, member |-> x]
  OBVIOUS
<1> QED BY <1>1, <1>2, Zenon DEF Named, b, x

\* What an input contributes is a sequence.
LEMMA ContributionIsSeq ==
    ASSUME NEW k \in DOMAIN args.inputs, CommandLine, ValidPackage(args.inputs[k]),
           RequiredTargets(k) \subseteq args.inputs[k].targets, NEW t
    PROVE  /\ IsSeq(Contribution(k, t))
           /\ t \in RequiredTargets(k) =>
                 /\ Len(Contribution(k, t)) = Len(args.inputs[k].plan[t])
                 /\ DOMAIN Contribution(k, t) = DOMAIN args.inputs[k].plan[t]
                 /\ \A i \in DOMAIN args.inputs[k].plan[t] :
                       Contribution(k, t)[i]
                         = UnitBytes(args.inputs[k].modules, args.inputs[k].plan[t][i])
           /\ t \notin RequiredTargets(k) => Contribution(k, t) = <<>>
<1> DEFINE object == args.inputs[k]
           c == Contribution(k, t)
<1>1. Asked(k) = RequiredTargets(k)
  BY DEF Asked, RequiredTargets
<1>2. CASE t \notin RequiredTargets(k)
  <2>1. c = <<>> BY <1>1, <1>2 DEF Contribution
  <2>2. IsSeq(<<>>) BY DEF IsSeq
  <2> QED BY <1>2, <2>1, <2>2
<1>3. CASE t \in RequiredTargets(k)
  <2>1. t \in DOMAIN object.plan BY <1>3 DEF ValidPackage
  <2>2. IsSeq(object.plan[t]) BY <2>1 DEF CommandLine, Decoded
  <2>3. Len(object.plan[t]) \in Nat /\ DOMAIN object.plan[t] = 1 .. Len(object.plan[t])
    BY <2>2, SeqIs
  <2>4. c = [i \in DOMAIN object.plan[t] |-> UnitBytes(object.modules, object.plan[t][i])]
    BY <1>1, <1>3, Zenon DEF Contribution, Recovered, UnitBytes
  <2>5. /\ c = [i \in 1 .. Len(object.plan[t]) |-> c[i]]
        /\ \A i \in DOMAIN object.plan[t] : c[i] = UnitBytes(object.modules, object.plan[t][i])
    BY <2>3, <2>4
  <2> HIDE DEF c, object
  <2>6. IsSeq(c) /\ Len(c) = Len(object.plan[t]) /\ DOMAIN c = 1 .. Len(object.plan[t])
    BY <2>3, <2>5, FunctionIsSeq
  <2> QED BY <1>3, <2>3, <2>5, <2>6 DEF c, object
<1> QED BY <1>2, <1>3

\* The units of one more input, and where they come from.
LEMMA JoinNext ==
    ASSUME NEW t, NEW n \in Nat, \A k \in 1 .. n + 1 : IsSeq(Contribution(k, t)),
           Len(OriginTo(t, n)) = Len(UnitsTo(t, n))
    PROVE  LET u == Len(UnitsTo(t, n))
               c == Contribution(n + 1, t)
           IN  /\ u \in Nat /\ DOMAIN UnitsTo(t, n) = 1 .. u
               /\ Len(UnitsTo(t, n + 1)) = u + Len(c) /\ DOMAIN UnitsTo(t, n + 1) = 1 .. u + Len(c)
               /\ Len(OriginTo(t, n + 1)) = u + Len(c)
               /\ \A i \in 1 .. u : /\ UnitsTo(t, n + 1)[i] = UnitsTo(t, n)[i]
                                    /\ OriginTo(t, n + 1)[i] = OriginTo(t, n)[i]
               /\ \A i \in 1 .. Len(c) : /\ UnitsTo(t, n + 1)[u + i] = c[i]
                                         /\ OriginTo(t, n + 1)[u + i] = n + 1
<1> DEFINE s == [k \in 1 .. n + 1 |-> Contribution(k, t)]
           o == [k \in 1 .. n + 1 |-> [i \in DOMAIN Contribution(k, t) |-> k]]
           u == Len(UnitsTo(t, n))
           c == Contribution(n + 1, t)
<1>0. n + 1 \in 1 .. n + 1 /\ \A k \in 1 .. n : k \in 1 .. n + 1
  OBVIOUS
<1>1. /\ s[n + 1] = c /\ o[n + 1] = [i \in DOMAIN c |-> n + 1]
  BY <1>0
<1>2. \A k \in 1 .. n + 1 : s[k] \in Seq(ToSet(s[k]))
  BY DEF IsSeq
<1>3. ASSUME NEW k \in 1 .. n + 1
      PROVE  o[k] \in Seq(ToSet(o[k])) /\ Len(o[k]) = Len(Contribution(k, t))
  <2>1. /\ Len(Contribution(k, t)) \in Nat
        /\ DOMAIN Contribution(k, t) = 1 .. Len(Contribution(k, t))
    BY SeqIs
  <2>2. o[k] = [i \in 1 .. Len(Contribution(k, t)) |-> o[k][i]] BY <2>1
  <2> HIDE DEF o
  <2>3. IsSeq(o[k]) /\ Len(o[k]) = Len(Contribution(k, t)) BY <2>1, <2>2, FunctionIsSeq
  <2> QED BY <2>3 DEF IsSeq
<1>4. /\ UnitsTo(t, n) = FlattenSeq([k \in 1 .. n |-> s[k]])
      /\ UnitsTo(t, n + 1) = FlattenSeq([k \in 1 .. n + 1 |-> s[k]])
  <2>1. [k \in 1 .. n |-> Contribution(k, t)] = [k \in 1 .. n |-> s[k]] BY <1>0
  <2>2. [k \in 1 .. n + 1 |-> Contribution(k, t)] = [k \in 1 .. n + 1 |-> s[k]] OBVIOUS
  <2> QED BY <2>1, <2>2, Zenon DEF UnitsTo
<1>5. /\ OriginTo(t, n) = FlattenSeq([k \in 1 .. n |-> o[k]])
      /\ OriginTo(t, n + 1) = FlattenSeq([k \in 1 .. n + 1 |-> o[k]])
  <2>1. [k \in 1 .. n |-> [i \in DOMAIN Contribution(k, t) |-> k]] = [k \in 1 .. n |-> o[k]]
    BY <1>0
  <2>2. [k \in 1 .. n + 1 |-> [i \in DOMAIN Contribution(k, t) |-> k]]
          = [k \in 1 .. n + 1 |-> o[k]]
    OBVIOUS
  <2> QED BY <2>1, <2>2, Zenon DEF OriginTo
<1>6. /\ \A i \in 1 .. Len(c) : o[n + 1][i] = n + 1
      /\ Len(o[n + 1]) = Len(c)
  <2>1. DOMAIN c = 1 .. Len(c) BY <1>0, SeqIs
  <2>2. Len(o[n + 1]) = Len(c) BY <1>0, <1>3
  <2> QED BY <1>1, <2>1, <2>2
<1> HIDE DEF s, o, c
<1>7. LET before == FlattenSeq([k \in 1 .. n |-> s[k]])
          after == FlattenSeq([k \in 1 .. n + 1 |-> s[k]])
      IN  /\ Len(before) \in Nat /\ DOMAIN before = 1 .. Len(before)
          /\ Len(after) = Len(before) + Len(s[n + 1]) /\ DOMAIN after = 1 .. Len(after)
          /\ \A i \in 1 .. Len(before) : after[i] = before[i]
          /\ \A i \in 1 .. Len(s[n + 1]) : after[Len(before) + i] = s[n + 1][i]
  BY <1>2, FlattenGrows
<1>8. LET before == FlattenSeq([k \in 1 .. n |-> o[k]])
          after == FlattenSeq([k \in 1 .. n + 1 |-> o[k]])
      IN  /\ Len(before) \in Nat /\ DOMAIN before = 1 .. Len(before)
          /\ Len(after) = Len(before) + Len(o[n + 1]) /\ DOMAIN after = 1 .. Len(after)
          /\ \A i \in 1 .. Len(before) : after[i] = before[i]
          /\ \A i \in 1 .. Len(o[n + 1]) : after[Len(before) + i] = o[n + 1][i]
  <2>1. \A k \in 1 .. n + 1 : o[k] \in Seq(ToSet(o[k])) BY <1>3
  <2> QED BY <2>1, FlattenGrows
<1>9. /\ u \in Nat /\ DOMAIN UnitsTo(t, n) = 1 .. u
      /\ Len(UnitsTo(t, n + 1)) = u + Len(c) /\ DOMAIN UnitsTo(t, n + 1) = 1 .. u + Len(c)
      /\ \A i \in 1 .. u : UnitsTo(t, n + 1)[i] = UnitsTo(t, n)[i]
      /\ \A i \in 1 .. Len(c) : UnitsTo(t, n + 1)[u + i] = c[i]
  BY <1>1, <1>4, <1>7, Zenon
<1>10. /\ Len(OriginTo(t, n + 1)) = u + Len(c)
       /\ \A i \in 1 .. u : OriginTo(t, n + 1)[i] = OriginTo(t, n)[i]
       /\ \A i \in 1 .. Len(c) : OriginTo(t, n + 1)[u + i] = n + 1
  BY <1>5, <1>6, <1>8, Zenon
<1> QED BY <1>9, <1>10, Zenon DEF c

\* The units recovered from a package, one by one.
LEMMA RecoveredIs ==
    ASSUME NEW package, NEW t
    PROVE  Recovered(package, t) = [i \in DOMAIN package.plan[t] |->
                                       UnitBytes(package.modules, package.plan[t][i])]
BY Zenon DEF Recovered, UnitBytes

\* The joined units are the units of the inputs under their member names.
LEMMA JoinedToIs ==
    ASSUME NEW t, NEW m
    PROVE  JoinedTo(t, m) = [i \in DOMAIN UnitsTo(t, m) |->
                                Named(UnitsTo(t, m)[i], i, OriginTo(t, m)[i])]
BY Zenon DEF JoinedTo, Named, NameOf

\* A unit admitted before has the same bytecode among the longer modules.
LEMMA OldUnit ==
    ASSUME Drafted, Appended, NEW t \in args.targets, NEW q \in DOMAIN work.plan[t]
    PROVE  UnitBytes(work'.modules, work.plan[t][q]) = UnitBytes(work.modules, work.plan[t][q])
<1> DEFINE unit == work.plan[t][q]
<1>1. unit.modules \in Seq(1 .. Len(work.modules)) /\ IsSeq(work.modules)
  BY DEF Drafted
<1>2. DOMAIN work.modules = 1 .. Len(work.modules)
  BY <1>1, SeqIs
<1> HIDE DEF unit
<1>3. ASSUME NEW j \in DOMAIN unit.modules
      PROVE  work'.modules[unit.modules[j]] = work.modules[unit.modules[j]]
  <2>1. unit.modules[j] \in 1 .. Len(work.modules) BY <1>1
  <2> QED BY <1>2, <2>1 DEF Appended
<1>4. [j \in DOMAIN unit.modules |-> work'.modules[unit.modules[j]].bytecode]
        = [j \in DOMAIN unit.modules |-> work.modules[unit.modules[j]].bytecode]
  BY <1>3
<1> QED BY <1>4 DEF UnitBytes, unit

\* A unit just admitted has the bytecode the input had for it, and its name.
LEMMA NewUnit ==
    ASSUME CommandLine, Progress, Drafted, Admits, NEW t \in Required,
           NEW i \in DOMAIN Object.plan[t]
    PROVE  LET q == Len(work.plan[t]) + i
           IN  UnitBytes(work'.modules, work'.plan[t][q])
                 = Named(UnitBytes(Object.modules, Object.plan[t][i]), q, work.next)
<1> DEFINE q == Len(work.plan[t]) + i
           unit == work'.plan[t][q]
           from == Object.plan[t][i]
<1>1. Passed /\ Appended /\ Extended(t)
  BY DEF Admits
<1>2. /\ DOMAIN unit.modules = DOMAIN from.modules
      /\ \A j \in DOMAIN from.modules :
            /\ from.modules[j] \in Active(Object.modules, t)
            /\ unit.modules[j] = Place[from.modules[j]]
      /\ (unit.member # NoMember) <=> (args.kind = "static")
  BY UnitAdded
<1>3. /\ unit.optimization = from.optimization
      /\ unit.member = IF args.kind = "static" THEN MemberName(work.next, Len(work.plan[t]) + i - 1)
                       ELSE from.member
  BY <1>1 DEF Extended
<1>4. unit.member = NameOf(q, work.next)
  <2>1. CASE args.kind # "static" BY <1>2, <2>1 DEF NameOf
  <2>2. CASE args.kind = "static"
    <3> HIDE DEF unit, from
    <3>1. unit.member = MemberName(work.next, Len(work.plan[t]) + i - 1) BY <1>3, <2>2
    <3>2. NameOf(q, work.next) = IF args.names = <<>> THEN <<"m", q - 1>>
                                 ELSE args.names[work.next]
      BY <2>2, Zenon DEF NameOf
    <3>3. MemberName(work.next, Len(work.plan[t]) + i - 1)
            = IF args.names = <<>> THEN <<"m", Len(work.plan[t]) + i - 1>>
              ELSE args.names[work.next]
      BY <2>2, Zenon DEF MemberName
    <3>4. Len(work.plan[t]) + i - 1 = q - 1
      <4>1. t \in args.targets /\ t \in DOMAIN Object.plan BY <1>1 DEF Passed, ValidPackage
      <4>2. IsSeq(work.plan[t]) /\ IsSeq(Object.plan[t]) BY <1>1, <4>1 DEF Drafted, Passed, Decoded
      <4>3. Len(work.plan[t]) \in Nat /\ i \in Nat BY <4>2, SeqIs
      <4> QED BY <4>3
    <3> HIDE DEF q
    <3> QED BY <3>1, <3>2, <3>3, <3>4
  <2> QED BY <2>1, <2>2
<1> HIDE DEF unit, from
<1>5. ASSUME NEW j \in DOMAIN from.modules
      PROVE  work'.modules[unit.modules[j]].bytecode = Object.modules[from.modules[j]].bytecode
  BY <1>1, <1>2, CopiedTo
<1>6. [j \in DOMAIN unit.modules |-> work'.modules[unit.modules[j]].bytecode]
        = [j \in DOMAIN from.modules |-> Object.modules[from.modules[j]].bytecode]
  BY <1>2, <1>5
<1>7. Named(UnitBytes(Object.modules, from), q, work.next)
        = [bytecode |-> [j \in DOMAIN from.modules |-> Object.modules[from.modules[j]].bytecode],
           optimization |-> from.optimization, member |-> NameOf(q, work.next)]
  BY NamedIs
<1>8. UnitBytes(work'.modules, unit)
        = [bytecode |-> [j \in DOMAIN unit.modules |-> work'.modules[unit.modules[j]].bytecode],
           optimization |-> unit.optimization, member |-> unit.member]
  BY DEF UnitBytes
<1> QED BY <1>3, <1>4, <1>6, <1>7, <1>8, Zenon DEF unit, from

\* The draft holds the units of one more input.
LEMMA AdmitJoins ==
    ASSUME CommandLine, Progress, Served, Drafted, Joining, Admits
    PROVE  Joining'
<1> DEFINE n == Admitted
           New == [modules |-> work'.modules, plan |-> work'.plan]
<1>1. args' = args /\ Passed /\ Appended /\ work.next \in DOMAIN args.inputs
  BY DEF Admits
<1>2. n \in Nat /\ n + 1 = work.next /\ Admitted' = n + 1
  <2>1. IsSeq(args.inputs) BY DEF CommandLine
  <2>2. work.next \in 1 .. Len(args.inputs) BY <1>1, <2>1, SeqIs
  <2>3. work'.next = work.next + 1 BY DEF Admits
  <2> QED BY <2>2, <2>3 DEF Admitted
<1>3. ASSUME NEW t
      PROVE  /\ (UnitsTo(t, Admitted))' = UnitsTo(t, n + 1)
             /\ (OriginTo(t, Admitted))' = OriginTo(t, n + 1)
             /\ (JoinedTo(t, Admitted))' = JoinedTo(t, n + 1)
  <2> HIDE DEF n
  <2> QED BY <1>1, <1>2 DEF UnitsTo, OriginTo, JoinedTo, Contribution, Asked
<1>4. Draft' = New
  BY DEF Draft
<1> SUFFICES ASSUME NEW t \in args.targets
             PROVE  /\ Recovered(New, t) = JoinedTo(t, n + 1)
                    /\ Len(OriginTo(t, n + 1)) = Len(UnitsTo(t, n + 1))
  BY <1>1, <1>3, <1>4 DEF Joining
<1> DEFINE u == Len(UnitsTo(t, n))
           c == Contribution(n + 1, t)
<1>5. ASSUME NEW k \in 1 .. n + 1 PROVE IsSeq(Contribution(k, t))
  <2>1. k \in DOMAIN args.inputs
    <3>1. IsSeq(args.inputs) BY DEF CommandLine
    <3> QED BY <1>1, <1>2, <3>1, SeqIs
  <2>2. ValidPackage(args.inputs[k]) /\ RequiredTargets(k) \subseteq args.inputs[k].targets
    <3>1. CASE k = n + 1 BY <1>1, <1>2, <3>1 DEF Passed, Object, Required
    <3>2. CASE k # n + 1
      <4>1. k \in 1 .. n BY <1>2, <3>2
      <4> QED BY <4>1 DEF Served
    <3> QED BY <3>1, <3>2
  <2> QED BY <2>1, <2>2, ContributionIsSeq
<1>6. /\ u \in Nat /\ DOMAIN UnitsTo(t, n) = 1 .. u
      /\ Len(UnitsTo(t, n + 1)) = u + Len(c) /\ DOMAIN UnitsTo(t, n + 1) = 1 .. u + Len(c)
      /\ Len(OriginTo(t, n + 1)) = u + Len(c)
      /\ \A i \in 1 .. u : /\ UnitsTo(t, n + 1)[i] = UnitsTo(t, n)[i]
                           /\ OriginTo(t, n + 1)[i] = OriginTo(t, n)[i]
      /\ \A i \in 1 .. Len(c) : /\ UnitsTo(t, n + 1)[u + i] = c[i]
                                /\ OriginTo(t, n + 1)[u + i] = n + 1
  <2>1. Len(OriginTo(t, n)) = Len(UnitsTo(t, n)) BY DEF Joining
  <2> HIDE DEF n
  <2> QED BY <1>2, <1>5, <2>1, JoinNext
<1> HIDE DEF n
<1>7. /\ [i \in DOMAIN work.plan[t] |-> UnitBytes(work.modules, work.plan[t][i])]
           = [i \in 1 .. u |-> Named(UnitsTo(t, n)[i], i, OriginTo(t, n)[i])]
  <2>1. Recovered(Draft, t) = JoinedTo(t, n) BY DEF Joining, n
  <2>2. Recovered(Draft, t)
          = [i \in DOMAIN work.plan[t] |-> UnitBytes(work.modules, work.plan[t][i])]
    <3>1. Draft.plan = work.plan /\ Draft.modules = work.modules BY DEF Draft
    <3> QED BY <3>1, RecoveredIs
  <2>3. JoinedTo(t, n) = [i \in 1 .. u |-> Named(UnitsTo(t, n)[i], i, OriginTo(t, n)[i])]
    BY <1>6, JoinedToIs
  <2> QED BY <2>1, <2>2, <2>3
<1>8. /\ DOMAIN work.plan[t] = 1 .. u /\ Len(work.plan[t]) = u
      /\ \A i \in 1 .. u : UnitBytes(work.modules, work.plan[t][i])
                             = Named(UnitsTo(t, n)[i], i, OriginTo(t, n)[i])
  <2>1. DOMAIN work.plan[t] = 1 .. u BY <1>7
  <2>2. IsSeq(work.plan[t]) BY DEF Drafted
  <2>3. Len(work.plan[t]) \in Nat /\ 1 .. Len(work.plan[t]) = 1 .. u BY <2>1, <2>2, SeqIs
  <2>4. Len(work.plan[t]) = u
    <3> DEFINE v == Len(work.plan[t])
    <3> HIDE DEF u, v
    <3>1. v \in Nat /\ u \in Nat /\ 1 .. v = 1 .. u BY <1>6, <2>3 DEF v
    <3>2. v = u BY <3>1
    <3> QED BY <3>2 DEF v
  <2>5. ASSUME NEW i \in 1 .. u
        PROVE  UnitBytes(work.modules, work.plan[t][i])
                 = Named(UnitsTo(t, n)[i], i, OriginTo(t, n)[i])
    <3>1. [j \in DOMAIN work.plan[t] |-> UnitBytes(work.modules, work.plan[t][j])][i]
            = UnitBytes(work.modules, work.plan[t][i])
      BY <2>1, Zenon
    <3> QED BY <1>7, <3>1, Zenon
  <2> QED BY <2>1, <2>4, <2>5
<1>9. Recovered(New, t) = [i \in DOMAIN work'.plan[t] |-> UnitBytes(work'.modules, work'.plan[t][i])]
  <2>1. New.plan = work'.plan /\ New.modules = work'.modules OBVIOUS
  <2> QED BY <2>1, RecoveredIs
<1>10. JoinedTo(t, n + 1)
         = [i \in 1 .. u + Len(c) |-> Named(UnitsTo(t, n + 1)[i], i, OriginTo(t, n + 1)[i])]
  BY <1>6, JoinedToIs
<1>11. ASSUME NEW q \in DOMAIN work.plan[t]
       PROVE  UnitBytes(work'.modules, work.plan[t][q])
                = Named(UnitsTo(t, n + 1)[q], q, OriginTo(t, n + 1)[q])
  <2>1. q \in 1 .. u BY <1>8
  <2>2. UnitBytes(work'.modules, work.plan[t][q]) = UnitBytes(work.modules, work.plan[t][q])
    BY <1>1, OldUnit
  <2> QED BY <1>6, <1>8, <2>1, <2>2
<1>12. /\ DOMAIN work'.plan[t] = 1 .. u + Len(c)
       /\ \A q \in 1 .. u + Len(c) :
             UnitBytes(work'.modules, work'.plan[t][q])
               = Named(UnitsTo(t, n + 1)[q], q, OriginTo(t, n + 1)[q])
  <2>1. n + 1 \in DOMAIN args.inputs /\ ValidPackage(args.inputs[n + 1])
        /\ RequiredTargets(n + 1) \subseteq args.inputs[n + 1].targets
    BY <1>1, <1>2 DEF Passed, Object, Required
  <2>2. CASE t \notin Required
    <3>1. work'.plan[t] = work.plan[t] BY <2>2 DEF Admits
    <3>2. c = <<>> BY <1>2, <2>1, <2>2, ContributionIsSeq DEF Required
    <3>3. Len(c) = 0 /\ u + Len(c) = u
      <4>1. u \in Nat BY <1>6
      <4> HIDE DEF u, c
      <4> QED BY <3>2, <4>1
    <3> QED BY <1>8, <1>11, <3>1, <3>3
  <2>3. CASE t \in Required
    <3>1. Extended(t) BY <2>3 DEF Admits
    <3>2. /\ Len(c) = Len(Object.plan[t]) /\ DOMAIN c = DOMAIN Object.plan[t]
          /\ \A i \in DOMAIN Object.plan[t] : c[i] = UnitBytes(Object.modules, Object.plan[t][i])
      BY <1>2, <2>1, <2>3, ContributionIsSeq DEF Required, Object
    <3>3. IsSeq(c) BY <1>2, <1>5
    <3>4. DOMAIN c = 1 .. Len(c) /\ Len(c) \in Nat BY <3>3, SeqIs
    <3>5. DOMAIN work'.plan[t] = 1 .. u + Len(c)
      <4>1. IsSeq(work'.plan[t]) /\ Len(work'.plan[t]) = u + Len(c)
        BY <1>8, <3>1, <3>2 DEF Extended
      <4> QED BY <4>1, SeqIs
    <3>6. ASSUME NEW q \in 1 .. u + Len(c)
          PROVE  UnitBytes(work'.modules, work'.plan[t][q])
                   = Named(UnitsTo(t, n + 1)[q], q, OriginTo(t, n + 1)[q])
      <4>1. CASE q \in 1 .. u
        <5>1. q \in DOMAIN work.plan[t] BY <1>8, <4>1
        <5>2. work'.plan[t][q] = work.plan[t][q] BY <3>1, <5>1 DEF Extended
        <5> QED BY <1>11, <5>1, <5>2
      <4>2. CASE q \notin 1 .. u
        <5> DEFINE i == q - u
        <5>1. i \in 1 .. Len(c) /\ u + i = q
          <6> HIDE DEF u, c
          <6> QED BY <1>6, <3>4, <4>2, Behind DEF u
        <5> HIDE DEF i
        <5>2. i \in DOMAIN Object.plan[t] BY <3>2, <3>4, <5>1
        <5>3. UnitBytes(work'.modules, work'.plan[t][Len(work.plan[t]) + i])
                = Named(UnitBytes(Object.modules, Object.plan[t][i]),
                        Len(work.plan[t]) + i, work.next)
          BY <2>3, <5>2, NewUnit
        <5>4. UnitsTo(t, n + 1)[u + i] = c[i] /\ OriginTo(t, n + 1)[u + i] = n + 1
          BY <1>6, <5>1
        <5>5. c[i] = UnitBytes(Object.modules, Object.plan[t][i]) BY <3>2, <5>2
        <5>6. Len(work.plan[t]) + i = q BY <1>8, <5>1
        <5> HIDE DEF u, c
        <5> QED BY <1>2, <5>1, <5>3, <5>4, <5>5, <5>6
      <4> QED BY <4>1, <4>2
    <3> QED BY <3>5, <3>6
  <2> QED BY <2>2, <2>3
<1>13. Recovered(New, t) = JoinedTo(t, n + 1)
  BY <1>9, <1>10, <1>12
<1> QED BY <1>6, <1>13

-----------------------------------------------------------------------------
(* Refusing an input. *)

\* No unit of a valid object loses a fragment: what validatePackage accepted is
\* active for every target asked of the object.
LEMMA NeverInactive ==
    ASSUME CommandLine, Drafted, work.next \in DOMAIN args.inputs
    PROVE  /\ "inactive" \notin InputProblem(work.next, Object)
           /\ "package" \notin InputProblem(work.next, Object)
<1>1. "package" \notin InputProblem(work.next, Object)
  BY DEF InputProblem
<1>2. ASSUME "inactive" \in InputProblem(work.next, Object) PROVE FALSE
  <2>1. /\ ValidPackage(Object) /\ Required \subseteq Object.targets
        /\ \E t \in Required : \E i \in ToSet(References(Object.plan[t])) : Place[i] = 0
    BY <1>2 DEF InputProblem, Required, Place
  <2>2. PICK t \in Required : \E i \in ToSet(References(Object.plan[t])) : Place[i] = 0
    BY <2>1
  <2>3. PICK i \in ToSet(References(Object.plan[t])) : Place[i] = 0
    BY <2>2
  <2>4. i \in Active(Object.modules, t)
    <3>1. ValidUnits(Object, t) BY <2>1 DEF ValidPackage
    <3> QED BY <3>1 DEF ValidUnits
  <2>5. i \in DOMAIN Object.modules /\ Object.modules[i].targets \cap Required # {}
    BY <2>4 DEF Active
  <2>6. IsSeq(Object.modules) /\ Len(work.modules) \in Nat
    BY SeqIs DEF CommandLine, Decoded, Object, Drafted
  <2>7. Place[i] \in Nat \ {0}
    BY <2>5, <2>6, ModuleIndicesAre DEF Place
  <2> QED BY <2>3, <2>7
<1> QED BY <1>1, <1>2

-----------------------------------------------------------------------------
(* Writing the package. *)

Package == [kind |-> args.kind, targets |-> args.targets, modules |-> work.modules,
            plan |-> OrderedPlan, links |-> FinalLinks]

\* Ordering a target's units permutes them.
LEMMA Ordering ==
    ASSUME CommandLine, Drafted, ~ OrderProblem, NEW t \in args.targets
    PROVE  \E p \in [DOMAIN work.plan[t] -> DOMAIN work.plan[t]] :
              /\ IsInjective(p)
              /\ \A q \in DOMAIN work.plan[t] : \E i \in DOMAIN work.plan[t] : p[i] = q
              /\ OrderedPlan[t] = [i \in DOMAIN work.plan[t] |-> work.plan[t][p[i]]]
              /\ t \in DOMAIN args.orders => p = args.orders[t]
              /\ t \notin DOMAIN args.orders => p = [i \in DOMAIN work.plan[t] |-> i]
<1> DEFINE D == DOMAIN work.plan[t]
<1>1. IsSeq(work.plan[t])
  BY DEF Drafted
<1>2. Len(work.plan[t]) \in Nat /\ D = 1 .. Len(work.plan[t])
  BY <1>1, SeqIs
<1>3. CASE t \in DOMAIN args.orders
  <2> DEFINE o == args.orders[t]
  <2>1. o \in Seq(Nat) BY <1>3 DEF CommandLine
  <2>2. Len(o) = Len(work.plan[t]) /\ ToSet(o) = D BY <1>3 DEF OrderProblem
  <2>3. OrderedPlan[t] = [i \in DOMAIN o |-> work.plan[t][o[i]]]
    BY <1>3 DEF OrderedPlan
  <2> HIDE DEF o, D
  <2>4. DOMAIN o = D BY <1>2, <2>1, <2>2
  <2>5. IsInjective(o) BY <1>2, <2>1, <2>2, PermutationInjective
  <2>6. /\ \A i \in D : o[i] \in D
        /\ \A q \in D : \E i \in D : o[i] = q
    BY <2>2, <2>4 DEF ToSet
  <2>7. o \in [D -> D] BY <2>1, <2>4, <2>6
  <2> QED BY <1>3, <2>3, <2>4, <2>5, <2>6, <2>7 DEF o, D
<1>4. CASE t \notin DOMAIN args.orders
  <2> DEFINE p == [i \in D |-> i]
  <2>1. p \in [D -> D] /\ IsInjective(p) /\ \A q \in D : \E i \in D : p[i] = q
    BY DEF IsInjective
  <2>2. OrderedPlan[t] = work.plan[t] BY <1>4 DEF OrderedPlan
  <2>3. work.plan[t] = [i \in D |-> work.plan[t][p[i]]]
    <3>1. work.plan[t] = [i \in D |-> work.plan[t][i]] BY <1>1 DEF IsSeq
    <3>2. \A i \in D : p[i] = i OBVIOUS
    <3> HIDE DEF p, D
    <3> QED BY <3>1, <3>2
  <2> HIDE DEF p
  <2>4. p \in [D -> D] /\ IsInjective(p) /\ (\A q \in D : \E i \in D : p[i] = q)
        /\ OrderedPlan[t] = [i \in D |-> work.plan[t][p[i]]]
    BY <2>1, <2>2, <2>3
  <2> QED BY <1>4, <2>4 DEF p
<1> QED BY <1>3, <1>4

\* The package recovers what was joined, in the order asked for.
LEMMA PackageFaithful ==
    ASSUME CommandLine, Drafted, Joining, ~ OrderProblem,
           work.next = Len(args.inputs) + 1, NEW t \in args.targets
    PROVE  Recovered(Package, t) = Expected(t)
<1> DEFINE D == DOMAIN work.plan[t]
<1>1. Len(args.inputs) \in Nat /\ DOMAIN args.inputs = 1 .. Len(args.inputs)
  BY SeqIs DEF CommandLine
<1>2. Admitted = Len(args.inputs)
  BY <1>1 DEF Admitted
<1>3. JoinedTo(t, Len(args.inputs)) = Joined(t)
  BY <1>1, Zenon DEF JoinedTo, UnitsTo, OriginTo, Joined
<1>4. Joined(t) = [i \in D |-> UnitBytes(work.modules, work.plan[t][i])]
  <2>1. Recovered(Draft, t) = Joined(t) BY <1>2, <1>3 DEF Joining
  <2>2. Draft.plan = work.plan /\ Draft.modules = work.modules BY DEF Draft
  <2> QED BY <2>1, <2>2, RecoveredIs
<1>5. PICK p \in [D -> D] :
         /\ OrderedPlan[t] = [i \in D |-> work.plan[t][p[i]]]
         /\ t \in DOMAIN args.orders => p = args.orders[t]
         /\ t \notin DOMAIN args.orders => p = [i \in D |-> i]
  BY Ordering
<1>6. Recovered(Package, t)
        = [i \in DOMAIN OrderedPlan[t] |-> UnitBytes(work.modules, OrderedPlan[t][i])]
  <2>1. Package.plan = OrderedPlan /\ Package.modules = work.modules BY DEF Package
  <2> QED BY <2>1, RecoveredIs
<1>7. Recovered(Package, t) = [i \in D |-> UnitBytes(work.modules, work.plan[t][p[i]])]
  BY <1>5, <1>6
<1>8. Recovered(Package, t) = [i \in D |-> Joined(t)[p[i]]]
  <2>1. \A i \in D : Joined(t)[p[i]] = UnitBytes(work.modules, work.plan[t][p[i]])
    BY <1>4, <1>5
  <2> QED BY <1>7, <2>1
<1>9. CASE t \in DOMAIN args.orders
  <2>1. D = DOMAIN args.orders[t] /\ p = args.orders[t] BY <1>5, <1>9
  <2>2. Expected(t) = [i \in DOMAIN args.orders[t] |-> Joined(t)[args.orders[t][i]]]
    BY <1>9 DEF Expected
  <2> QED BY <1>8, <2>1, <2>2
<1>10. CASE t \notin DOMAIN args.orders
  <2>1. Expected(t) = Joined(t) BY <1>10 DEF Expected
  <2>2. \A i \in D : p[i] = i BY <1>5, <1>10
  <2>3. Joined(t) = [i \in D |-> Joined(t)[i]] BY <1>4
  <2> QED BY <1>8, <2>1, <2>2, <2>3
<1> QED BY <1>9, <1>10

\* The ordered units are a valid plan of the package.
LEMMA PackageUnits ==
    ASSUME CommandLine, Drafted, Partitioned, ~ OrderProblem, NEW t \in args.targets
    PROVE  ValidUnits(Package, t)
<1> DEFINE D == DOMAIN work.plan[t]
           units == OrderedPlan[t]
           n == Len(work.modules)
<1>1. PICK p \in [D -> D] :
         /\ IsInjective(p)
         /\ \A q \in D : \E i \in D : p[i] = q
         /\ units = [i \in D |-> work.plan[t][p[i]]]
  BY Ordering
<1>2. IsSeq(work.plan[t]) /\ IsSeq(work.modules)
  BY DEF Drafted
<1>3. D = 1 .. Len(work.plan[t]) /\ Len(work.plan[t]) \in Nat /\ n \in Nat
  BY <1>2, SeqIs
<1>4. \A i \in D : units[i] = work.plan[t][p[i]] /\ p[i] \in D
  BY <1>1
<1>5. ASSUME NEW i \in D
      PROVE  /\ units[i].modules \in Seq(1 .. n) /\ units[i].modules # <<>>
             /\ (units[i].member # NoMember) <=> (args.kind = "static")
  BY <1>4 DEF Drafted
<1>6. /\ PartsDistinct(Parts(work.plan[t]))
      /\ UNION {ToSet(work.plan[t][i].modules) : i \in D} = Active(work.modules, t)
  BY PartitionedIs
<1>7. IsSeq(units) /\ DOMAIN units = D /\ Len(units) = Len(work.plan[t])
  <2>1. units = [i \in D |-> units[i]] BY <1>1
  <2> HIDE DEF units, D
  <2> QED BY <1>3, <2>1, FunctionIsSeq
<1>8. PartsDistinct(Parts(units))
  <2>1. /\ DOMAIN Parts(units) = D /\ DOMAIN Parts(work.plan[t]) = D
        /\ \A i \in D : Parts(units)[i] = Parts(work.plan[t])[p[i]]
    BY <1>4, <1>7 DEF Parts
  <2>2. \A i, j \in D : p[i] = p[j] => i = j BY <1>1 DEF IsInjective
  <2> DEFINE a == Parts(units)
             b == Parts(work.plan[t])
  <2> HIDE DEF D, units
  <2>3. DOMAIN a = D /\ DOMAIN b = D /\ \A i \in D : a[i] = b[p[i]] BY <2>1
  <2> HIDE DEF a, b
  <2>4. /\ \A i \in D : IsInjective(b[i])
        /\ \A i, j \in D : \A x : x \in ToSet(b[i]) /\ x \in ToSet(b[j]) => i = j
    BY <1>6, <2>3, Zenon DEF PartsDistinct, b
  <2>5. ASSUME NEW i \in D PROVE IsInjective(a[i]) BY <1>4, <2>3, <2>4
  <2>6. ASSUME NEW i \in D, NEW j \in D, NEW x, x \in ToSet(a[i]), x \in ToSet(a[j]) PROVE i = j
    <3>1. p[i] = p[j] BY <1>4, <2>3, <2>4, <2>6
    <3> QED BY <2>2, <3>1
  <2> QED BY <2>3, <2>5, <2>6 DEF PartsDistinct, a
<1>9. UNION {ToSet(units[i].modules) : i \in D} = Active(work.modules, t)
  <2>1. \A x : (\E i \in D : x \in ToSet(units[i].modules))
                 <=> (\E q \in D : x \in ToSet(work.plan[t][q].modules))
    <3> HIDE DEF D, units
    <3>1. ASSUME NEW x, NEW i \in D, x \in ToSet(units[i].modules)
          PROVE  \E q \in D : x \in ToSet(work.plan[t][q].modules)
      <4>1. p[i] \in D /\ x \in ToSet(work.plan[t][p[i]].modules) BY <1>4, <3>1
      <4> QED BY <4>1
    <3>2. ASSUME NEW x, NEW q \in D, x \in ToSet(work.plan[t][q].modules)
          PROVE  \E i \in D : x \in ToSet(units[i].modules)
      <4>1. PICK i \in D : p[i] = q BY <1>1
      <4>2. units[i] = work.plan[t][q] BY <1>4, <4>1
      <4> QED BY <3>2, <4>2
    <3> QED BY <3>1, <3>2
  <2> QED BY <1>6, <2>1
<1> HIDE DEF units, D, n
<1>10. ASSUME NEW i \in DOMAIN units PROVE units[i].modules \in Seq(Nat)
  <2>1. 1 .. n \subseteq Nat BY <1>3
  <2> QED BY <1>5, <1>7, <2>1, SeqMonotone
<1>11. /\ References(units) \in Seq(Nat)
       /\ IsInjective(References(units)) <=> PartsDistinct(Parts(units))
       /\ ToSet(References(units)) = UNION {ToSet(units[i].modules) : i \in DOMAIN units}
  BY <1>7, <1>10, ReferencesAre
<1>12. Len(References(units)) = Cardinality(ToSet(References(units)))
  BY <1>8, <1>11, LengthCounts
<1>13. Len(units) <= n
  <2>1. Len(units) \in Nat /\ DOMAIN units = 1 .. Len(units) BY <1>7, SeqIs
  <2>2. Parts(units) \in Seq(Seq(1 .. n)) /\ Len(Parts(units)) = Len(units)
        /\ DOMAIN Parts(units) = DOMAIN units
    BY <1>5, <1>7, <2>1 DEF Parts
  <2>3. \A i \in DOMAIN Parts(units) : Parts(units)[i] # <<>>
    BY <1>5, <1>7, <2>2 DEF Parts
  <2> QED BY <1>3, <1>8, <2>2, <2>3, DisjointBound
<1>14. /\ Package.plan[t] = units /\ Package.modules = work.modules /\ Package.kind = args.kind
  BY DEF Package, units
<1> QED BY <1>5, <1>7, <1>9, <1>11, <1>12, <1>13, <1>14 DEF ValidUnits, n

\* The only thing validatePackage can still object to.
LEMMA PackageValid ==
    ASSUME CommandLine, Drafted, Partitioned, ~ OrderProblem, ~ ValidPackage(Package)
    PROVE  \/ \E t \in args.targets : ~ ValidLinkRecord(args.kind, FinalLinks[t])
           \/ work.modules = <<>> /\ args.kind # "static"
<1> SUFFICES ASSUME \A t \in args.targets : ValidLinkRecord(args.kind, FinalLinks[t]),
                    work.modules = <<>> => args.kind = "static"
             PROVE  ValidPackage(Package)
  OBVIOUS
<1>1. /\ Package.kind = args.kind /\ Package.targets = args.targets
      /\ Package.modules = work.modules /\ Package.plan = OrderedPlan
      /\ Package.links = FinalLinks
  BY DEF Package
<1>2. DOMAIN OrderedPlan = args.targets /\ DOMAIN FinalLinks = args.targets
  BY DEF OrderedPlan, FinalLinks
<1>3. args.kind \in Kinds /\ args.targets # {}
  BY DEF CommandLine
<1>4. \A i \in DOMAIN work.modules :
         work.modules[i].targets # {} /\ work.modules[i].targets \subseteq args.targets
  BY DEF Drafted
<1>5. \A t \in args.targets : ValidUnits(Package, t)
  BY PackageUnits
<1> QED BY <1>1, <1>2, <1>3, <1>4, <1>5 DEF ValidPackage

-----------------------------------------------------------------------------
(* The invariant. *)

\* Before anything is read the draft is empty.
LEMMA EmptyDraft ==
    ASSUME CommandLine, work = NoWork(args.targets)
    PROVE  Progress /\ Served /\ Drafted /\ Partitioned /\ Joining
<1>1. /\ work.next = 0 /\ work.modules = <<>> /\ work.plan = [t \in args.targets |-> <<>>]
  BY DEF NoWork
<1>2. Len(args.inputs) \in Nat
  BY SeqIs DEF CommandLine
<1>3. Admitted = 0
  BY <1>1 DEF Admitted
<1>4. IsSeq(<<>>) /\ DOMAIN <<>> = {} /\ ToSet(<<>>) = {} /\ 1 .. 0 = {}
  BY DEF IsSeq, ToSet
<1>5. \A t \in args.targets : work.plan[t] = <<>>
  BY <1>1
<1>6. Progress
  BY <1>1, <1>2 DEF Progress
<1>7. Served
  BY <1>3, <1>4 DEF Served
<1>8. Drafted
  BY <1>1, <1>4, <1>5 DEF Drafted
<1>9. Partitioned
  <2>1. References(<<>>) = <<>>
    <3>1. [i \in DOMAIN <<>> |-> <<>>[i].modules] = <<>> BY <1>4
    <3> QED BY <3>1 DEF References, FlattenSeq
  <2>2. IsInjective(<<>>) BY <1>4 DEF IsInjective
  <2>3. \A t : Active(<<>>, t) = {} BY <1>4 DEF Active
  <2> QED BY <1>1, <1>4, <1>5, <2>1, <2>2, <2>3 DEF Partitioned
<1>10. Joining
  <2> SUFFICES ASSUME NEW t \in args.targets
               PROVE  /\ Recovered(Draft, t) = JoinedTo(t, 0)
                      /\ Len(OriginTo(t, 0)) = Len(UnitsTo(t, 0))
    BY <1>3 DEF Joining
  <2>1. /\ [k \in 1 .. 0 |-> Contribution(k, t)] = <<>>
        /\ [k \in 1 .. 0 |-> [i \in DOMAIN Contribution(k, t) |-> k]] = <<>>
    BY <1>4
  <2>2. UnitsTo(t, 0) = <<>> /\ OriginTo(t, 0) = <<>>
    BY <2>1 DEF UnitsTo, OriginTo, FlattenSeq
  <2>3. JoinedTo(t, 0) = <<>>
    <3>1. JoinedTo(t, 0) = [i \in DOMAIN <<>> |-> Named(<<>>[i], i, <<>>[i])]
      BY <2>2, JoinedToIs
    <3> QED BY <1>4, <3>1
  <2>4. Recovered(Draft, t) = <<>>
    <3>1. Draft.plan[t] = <<>> BY <1>5 DEF Draft
    <3>2. Recovered(Draft, t) = [i \in DOMAIN <<>> |-> UnitBytes(Draft.modules, <<>>[i])]
      BY <3>1, RecoveredIs
    <3> QED BY <1>4, <3>2
  <2> QED BY <2>2, <2>3, <2>4
<1> QED BY <1>6, <1>7, <1>8, <1>9, <1>10

\* While it runs, or after a refusal before the end, nothing is promised.
LEMMA NothingPromised ==
    ASSUME \/ result = Running
           \/ \E why : result = Refusal(why) /\ why # "inactive" /\ why # "package"
    PROVE  LinkPromises
<1>1. CASE result = Running
  <2>1. result.status = "running" BY <1>1 DEF Running
  <2> QED BY <2>1 DEF LinkPromises, NeverNarrows, LinkFaithful, RefusalsJustified
<1>2. ASSUME NEW why, result = Refusal(why), why # "inactive", why # "package"
      PROVE  LinkPromises
  <2>1. result.status = "refused" /\ result.why = why BY <1>2 DEF Refusal
  <2> QED BY <1>2, <2>1 DEF LinkPromises, NeverNarrows, LinkFaithful, RefusalsJustified
<1> QED BY <1>1, <1>2

\* The invariant holds at first.
LEMMA LinkStarts ==
    ASSUME LinkInit
    PROVE  LinkSound
<1>1. CommandLine /\ work = NoWork(args.targets) /\ result = Running
  BY DEF LinkInit
<1> QED BY <1>1, EmptyDraft, NothingPromised DEF LinkSound

\* The arguments are checked.
LEMMA CheckKeeps ==
    ASSUME LinkSound, CheckArguments
    PROVE  LinkSound'
<1>1. /\ CommandLine /\ Progress /\ Served /\ Drafted /\ Partitioned /\ Joining
  BY DEF LinkSound
<1>2. result = Running /\ work.next = 0 /\ args' = args
  BY DEF CheckArguments, Refuse
<1>3. work = NoWork(args.targets)
  BY <1>1, <1>2 DEF Progress
<1>4. CASE ArgumentProblem
  <2>1. work' = work /\ result' = Refusal("arguments")
    BY <1>4 DEF CheckArguments, Refuse
  <2>2. CommandLine' BY <1>1, <1>2 DEF CommandLine
  <2>3. (work = NoWork(args.targets))' BY <1>2, <1>3, <2>1
  <2>4. (Progress /\ Served /\ Drafted /\ Partitioned /\ Joining)'
    BY <2>2, <2>3, EmptyDraft, PTL
  <2>5. LinkPromises'
    <3>1. (\E why : result = Refusal(why) /\ why # "inactive" /\ why # "package")' BY <2>1
    <3> QED BY <3>1, NothingPromised, PTL
  <2> QED BY <2>2, <2>4, <2>5 DEF LinkSound
<1>5. CASE ~ ArgumentProblem
  <2>1. work' = [work EXCEPT !.next = 1] /\ result' = result
    BY <1>5 DEF CheckArguments
  <2>2. work'.next = 1 /\ work'.modules = work.modules /\ work'.plan = work.plan
    BY <1>3, <2>1 DEF NoWork
  <2>3. CommandLine' BY <1>1, <1>2 DEF CommandLine
  <2>4. Admitted' = 0 /\ Admitted = 0 BY <1>2, <2>2 DEF Admitted
  <2>5. Progress'
    <3>1. Len(args.inputs) \in Nat BY <1>1, SeqIs DEF CommandLine
    <3>2. ~ ArgumentProblem' BY <1>2, <1>5 DEF ArgumentProblem
    <3> QED BY <1>2, <2>2, <3>1, <3>2 DEF Progress
  <2>6. Served' BY <2>4 DEF Served
  <2>7. Drafted' BY <1>1, <1>2, <2>2 DEF Drafted
  <2>8. Partitioned' BY <1>1, <1>2, <2>2 DEF Partitioned
  <2>9. Joining'
    <3>1. Draft' = Draft BY <2>2 DEF Draft
    <3> QED BY <1>1, <1>2, <2>4, <3>1
        DEF Joining, JoinedTo, UnitsTo, OriginTo, Contribution, Asked
  <2>10. LinkPromises'
    <3>1. (result = Running)' BY <1>2, <2>1
    <3> QED BY <3>1, NothingPromised, PTL
  <2> QED BY <2>3, <2>5, <2>6, <2>7, <2>8, <2>9, <2>10 DEF LinkSound
<1> QED BY <1>4, <1>5

\* A step that touches neither the arguments nor the draft keeps what is said of
\* them.
LEMMA DraftKept ==
    ASSUME LinkSound, args' = args, work' = work
    PROVE  (CommandLine /\ Progress /\ Served /\ Drafted /\ Partitioned /\ Joining)'
<1>1. CommandLine /\ Progress /\ Served /\ Drafted /\ Partitioned /\ Joining
  BY DEF LinkSound
<1>2. Admitted' = Admitted /\ Draft' = Draft
  BY DEF Admitted, Draft
<1>3. CommandLine'
  BY <1>1 DEF CommandLine
<1>4. Progress'
  BY <1>1 DEF Progress, ArgumentProblem
<1>5. Served'
  BY <1>1, <1>2 DEF Served, RequiredTargets
<1>6. Drafted' /\ Partitioned'
  BY <1>1 DEF Drafted, Partitioned
<1>7. Joining'
  <2>1. \A k, t : Contribution(k, t)' = Contribution(k, t)
    BY DEF Contribution, Asked
  <2>2. \A t, m : UnitsTo(t, m)' = UnitsTo(t, m) /\ OriginTo(t, m)' = OriginTo(t, m)
    BY <2>1 DEF UnitsTo, OriginTo
  <2>3. \A t, m : JoinedTo(t, m)' = JoinedTo(t, m)
    BY <2>2 DEF JoinedTo
  <2> QED BY <1>1, <1>2, <2>2, <2>3 DEF Joining
<1> QED BY <1>3, <1>4, <1>5, <1>6, <1>7

\* An input is admitted or refused.
LEMMA AdmitKeeps ==
    ASSUME LinkSound, AdmitInput
    PROVE  LinkSound'
<1>1. CommandLine /\ Progress /\ Served /\ Drafted /\ Partitioned /\ Joining
  BY DEF LinkSound
<1>2. /\ args' = args /\ result = Running /\ work.next \in DOMAIN args.inputs
      /\ \/ /\ work' = work
            /\ \E why \in InputProblem(work.next, Object) : result' = Refusal(why)
         \/ Admits /\ result' = result
  BY <1>1, AdmitIs
<1>3. CASE work' = work /\ \E why \in InputProblem(work.next, Object) : result' = Refusal(why)
  <2>1. \A why \in InputProblem(work.next, Object) : why # "inactive" /\ why # "package"
    BY <1>1, <1>2, NeverInactive
  <2>2. (\E r : result = Refusal(r) /\ r # "inactive" /\ r # "package")'
    BY <1>3, <2>1
  <2>3. LinkPromises'
    BY <2>2, NothingPromised, PTL
  <2> QED BY <1>2, <1>3, <2>3, DraftKept DEF LinkSound
<1>4. CASE Admits /\ result' = result
  <2>1. CommandLine' BY <1>1, <1>2 DEF CommandLine
  <2>2. /\ Len(args.inputs) \in Nat /\ DOMAIN args.inputs = 1 .. Len(args.inputs)
        /\ work.next \in 1 .. Len(args.inputs) /\ work'.next = work.next + 1
    BY <1>1, <1>2, <1>4, SeqIs DEF CommandLine, Admits
  <2>3. Progress'
    <3>1. ~ ArgumentProblem BY <1>1, <2>2 DEF Progress
    <3>2. ~ ArgumentProblem' BY <1>2, <3>1 DEF ArgumentProblem
    <3>3. /\ work'.next \in 0 .. Len(args'.inputs) + 1 /\ work'.next # 0
      BY <1>2, <2>2
    <3> QED BY <3>2, <3>3 DEF Progress
  <2>4. Served'
    <3>1. Admitted = work.next - 1 /\ Admitted' = work.next BY <2>2 DEF Admitted
    <3> SUFFICES ASSUME NEW k \in 1 .. work.next
                 PROVE  /\ ValidPackage(args.inputs[k]) /\ args.inputs[k].kind = "object"
                        /\ RequiredTargets(k) \subseteq args.inputs[k].targets
      BY <1>2, <3>1 DEF Served, RequiredTargets
    <3>2. CASE k = work.next
      BY <1>4, <3>2 DEF Admits, Passed, Object, Required
    <3>3. CASE k # work.next
      <4>1. k \in 1 .. Admitted BY <2>2, <3>1, <3>3
      <4> QED BY <1>1, <4>1 DEF Served
    <3> QED BY <3>2, <3>3
  <2>5. Drafted' /\ Partitioned' /\ Joining'
    BY <1>1, <1>4, AdmitDrafts, AdmitPartitions, AdmitJoins
  <2>6. LinkPromises'
    <3>1. (result = Running)' BY <1>2, <1>4
    <3> QED BY <3>1, NothingPromised, PTL
  <2> QED BY <2>1, <2>3, <2>4, <2>5, <2>6 DEF LinkSound
<1> QED BY <1>2, <1>3, <1>4

\* The package is written or refused.
LEMMA WriteKeeps ==
    ASSUME LinkSound, WritePackage
    PROVE  LinkSound'
<1>1. CommandLine /\ Progress /\ Served /\ Drafted /\ Partitioned /\ Joining
  BY DEF LinkSound
<1>2. /\ args' = args /\ work' = work /\ result = Running
      /\ work.next = Len(args.inputs) + 1
      /\ \/ result' = Refusal("order")
         \/ ~ OrderProblem /\ ~ ValidPackage(Package) /\ result' = Refusal("package")
         \/ result' = Refusal("files")
         \/ ~ OrderProblem /\ result' = Written(Package)
  BY Zenon DEF WritePackage, Refuse, Package
<1>3. CASE \/ result' = Refusal("order") \/ result' = Refusal("files")
  <2>1. (\E why : result = Refusal(why) /\ why # "inactive" /\ why # "package")'
    BY <1>3
  <2>2. LinkPromises'
    BY <2>1, NothingPromised, PTL
  <2> QED BY <1>2, <2>2, DraftKept DEF LinkSound
<1>4. CASE ~ OrderProblem /\ ~ ValidPackage(Package) /\ result' = Refusal("package")
  <2>1. result'.status = "refused" /\ result'.why = "package"
    BY <1>4 DEF Refusal
  <2>2. \/ \E t \in args.targets : ~ ValidLinkRecord(args.kind, FinalLinks[t])
        \/ work.modules = <<>> /\ args.kind # "static"
    BY <1>1, <1>4, PackageValid
  <2>3. FinalLinks' = FinalLinks
    BY <1>2 DEF FinalLinks
  <2>4. RefusalsJustified'
    BY <1>2, <2>1, <2>2, <2>3 DEF RefusalsJustified
  <2>5. LinkPromises'
    BY <2>1, <2>4 DEF LinkPromises, NeverNarrows, LinkFaithful
  <2> QED BY <1>2, <2>5, DraftKept DEF LinkSound
<1>5. CASE ~ OrderProblem /\ result' = Written(Package)
  <2>1. /\ result'.status = "written" /\ result'.package = Package
        /\ Package.targets = args.targets
    BY <1>5 DEF Written, Package
  <2>2. NeverNarrows'
    <3>1. /\ Len(args.inputs) \in Nat /\ DOMAIN args.inputs = 1 .. Len(args.inputs)
      BY <1>1, SeqIs DEF CommandLine
    <3>2. Admitted = Len(args.inputs) BY <1>2, <3>1 DEF Admitted
    <3>3. \A k \in DOMAIN args.inputs : Asked(k) \subseteq args.inputs[k].targets
      BY <1>1, <3>1, <3>2 DEF Served, Asked, RequiredTargets
    <3> QED BY <1>2, <2>1, <3>3 DEF NeverNarrows, Asked
  <2>3. LinkFaithful'
    <3>1. \A t \in args.targets : Recovered(Package, t) = Expected(t)
      BY <1>1, <1>2, <1>5, PackageFaithful
    <3>2. \A t : Expected(t)' = Expected(t)
      BY <1>2 DEF Expected, Joined, Contribution, Asked
    <3> QED BY <1>2, <2>1, <3>1, <3>2 DEF LinkFaithful
  <2>4. RefusalsJustified'
    BY <2>1 DEF RefusalsJustified
  <2> QED BY <1>2, <2>2, <2>3, <2>4, DraftKept DEF LinkSound, LinkPromises
<1> QED BY <1>2, <1>3, <1>4, <1>5

\* Nothing changes once sela-ld has exited.
LEMMA StopKeeps ==
    ASSUME LinkSound, UNCHANGED vars
    PROVE  LinkSound'
<1>1. args' = args /\ work' = work /\ result' = result
  BY DEF vars
<1>2. LinkPromises
  BY DEF LinkSound
<1>3. LinkPromises'
  <2>1. \A t : Expected(t)' = Expected(t)
    BY <1>1 DEF Expected, Joined, Contribution, Asked
  <2>2. NeverNarrows' BY <1>1, <1>2 DEF LinkPromises, NeverNarrows, Asked
  <2>3. LinkFaithful' BY <1>1, <1>2, <2>1 DEF LinkPromises, LinkFaithful
  <2>4. RefusalsJustified'
    BY <1>1, <1>2 DEF LinkPromises, RefusalsJustified, FinalLinks
  <2> QED BY <2>2, <2>3, <2>4 DEF LinkPromises
<1> QED BY <1>1, <1>3, DraftKept DEF LinkSound

-----------------------------------------------------------------------------
(* What is proved of sela-ld. *)

\* Whatever the inputs, their domains, the orders asked for and the limits, the
\* accumulators of sela-ld stay the join of the inputs admitted so far.
THEOREM LinkStaysSound == LinkSpec => []LinkSound
<1>1. LinkInit => LinkSound
  BY LinkStarts
<1>2. LinkSound /\ [Next]_vars => LinkSound'
  BY CheckKeeps, AdmitKeeps, WriteKeeps, StopKeeps DEF Next, Exited
<1> QED BY <1>1, <1>2, PTL DEF LinkSpec

\* A written package serves every requested target, and each of its inputs served
\* all the targets asked of it.
THEOREM LinkNeverNarrows == LinkSpec => []NeverNarrows
<1>1. LinkSound => NeverNarrows
  BY DEF LinkSound, LinkPromises
<1> QED BY <1>1, LinkStaysSound, PTL

\* A written package holds, for every requested target, exactly the units of the
\* inputs asked for it, in the order asked for, however fragments were renumbered,
\* narrowed or shared between targets.
THEOREM LinkIsFaithful == LinkSpec => []LinkFaithful
<1>1. LinkSound => LinkFaithful
  BY DEF LinkSound, LinkPromises
<1> QED BY <1>1, LinkStaysSound, PTL

\* Admitted inputs never make a plan that the final validation refuses.
THEOREM LinkRefusalsAreJustified == LinkSpec => []RefusalsJustified
<1>1. LinkSound => RefusalsJustified
  BY DEF LinkSound, LinkPromises
<1> QED BY <1>1, LinkStaysSound, PTL

=============================================================================
