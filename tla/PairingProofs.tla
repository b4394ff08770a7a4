--------------------------- MODULE PairingProofs ---------------------------
(***************************************************************************)
(* What combineSelected hands on: however it pairs, groups or scopes the   *)
(* native units of the targets, each target finds its own units again, in  *)
(* its own order.                                                          *)
(***************************************************************************)
EXTENDS PublicationInvariant, SelaLinkProofs

-----------------------------------------------------------------------------
(* Picking elements of a sequence. *)

\* The place of element k of K among the elements of K.
Rank(K, k) == Cardinality({j \in K : j <= k})

\* Every element picked is at its rank, and nothing else is picked.
LEMMA PickedIs ==
    ASSUME NEW A, NEW s \in Seq(A), NEW K \in SUBSET DOMAIN s
    PROVE  /\ IsFiniteSet(K) /\ Picked(s, K) \in Seq(A)
           /\ Len(Picked(s, K)) = Cardinality(K)
           /\ \A k \in K : /\ Rank(K, k) \in 1 .. Cardinality(K)
                           /\ Picked(s, K)[Rank(K, k)] = s[k]
           /\ \A i \in 1 .. Cardinality(K) : \E k \in K : Rank(K, k) = i
<1> DEFINE n == Len(s)
           p == [i \in 1 .. n |-> IF i \in K THEN <<s[i]>> ELSE <<>>]
           Kto(m) == {j \in K : j <= m}
           F(m) == FlattenSeq([i \in 1 .. m |-> p[i]])
           Claim(m) ==
              /\ IsFiniteSet(Kto(m)) /\ F(m) \in Seq(A) /\ Len(F(m)) = Cardinality(Kto(m))
              /\ \A k \in Kto(m) : /\ Rank(K, k) \in 1 .. Cardinality(Kto(m))
                                   /\ F(m)[Rank(K, k)] = s[k]
              /\ \A i \in 1 .. Cardinality(Kto(m)) : \E k \in Kto(m) : Rank(K, k) = i
           N == {m \in Nat : m <= n => Claim(m)}
<1> HIDE DEF Claim
<1>1. n \in Nat /\ DOMAIN s = 1 .. n /\ \A i \in 1 .. n : s[i] \in A
  OBVIOUS
<1>9. \A m : m \in N <=> m \in Nat /\ (m <= n => Claim(m))
  OBVIOUS
<1> HIDE DEF N
<1>2. \A i \in 1 .. n : p[i] \in Seq(A)
  BY <1>1
<1>0. \A k \in K : k \in Nat /\ 1 <= k /\ k <= n
  BY <1>1
<1>3. 0 \in N
  <2>1. Kto(0) = {} BY <1>0
  <2>2. F(0) = <<>>
    <3> HIDE DEF p
    <3>1. [i \in 1 .. 0 |-> p[i]] = <<>> OBVIOUS
    <3>2. FlattenSeq(<<>>) = <<>> BY DEF FlattenSeq
    <3> QED BY <3>1, <3>2
  <2>3. <<>> \in Seq(A) /\ Len(<<>>) = 0 OBVIOUS
  <2> HIDE DEF F, Kto
  <2>4. Cardinality({}) = 0 /\ IsFiniteSet({}) /\ 1 .. 0 = {} BY FS_EmptySet
  <2> QED BY <1>9, <2>1, <2>2, <2>3, <2>4 DEF Claim
<1>4. ASSUME NEW m \in Nat, m \in N PROVE m + 1 \in N
  <2> SUFFICES ASSUME m + 1 <= n PROVE Claim(m + 1) BY <1>9
  <2>1. Claim(m) BY <1>1, <1>4, <1>9
  <2>2. F(m + 1) = F(m) \o p[m + 1]
    <3>1. \A k \in 1 .. m + 1 : p[k] \in Seq(A) BY <1>1, <1>2
    <3> HIDE DEF p
    <3> QED BY <3>1, FlattenNext
  <2>3. CASE m + 1 \notin K
    <3>1. Kto(m + 1) = Kto(m) BY <1>0, <2>3
    <3>2. F(m + 1) = F(m)
      <4>1. p[m + 1] = <<>> BY <1>1, <2>3
      <4> HIDE DEF p, F
      <4> QED BY <2>1, <2>2, <4>1 DEF Claim
    <3> HIDE DEF F, Kto
    <3> QED BY <2>1, <3>1, <3>2 DEF Claim
  <2>4. CASE m + 1 \in K
    <3>1. Kto(m + 1) = Kto(m) \cup {m + 1} /\ m + 1 \notin Kto(m) BY <1>0, <2>4
    <3>2. p[m + 1] = <<s[m + 1]>> /\ s[m + 1] \in A BY <1>1, <2>4
    <3>3. Rank(K, m + 1) = Cardinality(Kto(m + 1)) BY DEF Rank
    <3> DEFINE c == Cardinality(Kto(m))
               f == F(m)
               g == F(m + 1)
    <3> HIDE DEF F, p
    <3>4. /\ IsFiniteSet(Kto(m + 1)) /\ c \in Nat /\ Cardinality(Kto(m + 1)) = c + 1
      <4> HIDE DEF Kto
      <4>1. IsFiniteSet(Kto(m)) BY <2>1 DEF Claim
      <4> QED BY <3>1, <4>1, FS_AddElement, FS_CardinalityType
    <3>5. f \in Seq(A) /\ Len(f) = c /\ g = f \o <<s[m + 1]>> BY <2>1, <2>2, <3>2 DEF Claim
    <3> HIDE DEF f, g
    <3>6. /\ g \in Seq(A) /\ Len(g) = c + 1 /\ g[c + 1] = s[m + 1]
          /\ \A i \in 1 .. c : g[i] = f[i]
      <4> DEFINE e == s[m + 1]
      <4>1. e \in A /\ g = f \o <<e>> /\ g[c + 1] = g[c + 1] BY <3>2, <3>5
      <4> HIDE DEF e, c
      <4> QED BY <3>4, <3>5, <4>1 DEF e
    <3>7. \A k \in Kto(m) : Rank(K, k) \in 1 .. c /\ f[Rank(K, k)] = s[k]
      BY <2>1 DEF f, Claim
    <3>8. \A i \in 1 .. c : \E k \in Kto(m) : Rank(K, k) = i
      BY <2>1 DEF Claim
    <3> HIDE DEF Kto, c
    <3>9. \A k \in Kto(m + 1) : Rank(K, k) \in 1 .. c + 1 /\ g[Rank(K, k)] = s[k]
      BY <3>1, <3>3, <3>4, <3>6, <3>7
    <3>10. \A i \in 1 .. c + 1 : \E k \in Kto(m + 1) : Rank(K, k) = i
      <4> SUFFICES ASSUME NEW i \in 1 .. c + 1 PROVE \E k \in Kto(m + 1) : Rank(K, k) = i
        OBVIOUS
      <4>1. CASE i = c + 1 BY <3>1, <3>3, <3>4, <4>1
      <4>2. CASE i \in 1 .. c BY <3>1, <3>8, <4>2
      <4> QED BY <3>4, <4>1, <4>2
    <3> QED BY <3>4, <3>6, <3>9, <3>10 DEF g, Claim
  <2> QED BY <2>3, <2>4
<1>5. n \in N
  <2>1. Nat \subseteq N BY <1>3, <1>4, Numbers
  <2> QED BY <1>1, <2>1
<1>6. Claim(n) BY <1>1, <1>5, <1>9
<1>7. Kto(n) = K BY <1>0
<1>8. F(n) = Picked(s, K)
  <2>1. [i \in 1 .. n |-> p[i]] = p OBVIOUS
  <2>2. Picked(s, K) = FlattenSeq(p) BY <1>1 DEF Picked
  <2> HIDE DEF p
  <2> QED BY <2>1, <2>2
<1> HIDE DEF F, Kto
<1> QED BY <1>6, <1>7, <1>8 DEF Claim

\* What is picked, as a set, and whether it is picked once.
LEMMA PickedSet ==
    ASSUME NEW A, NEW s \in Seq(A), NEW K \in SUBSET DOMAIN s
    PROVE  /\ Picked(s, K) \in Seq(A)
           /\ ToSet(Picked(s, K)) = {s[k] : k \in K}
           /\ (\A i, j \in K : s[i] = s[j] => i = j) => IsInjective(Picked(s, K))
<1> DEFINE q == Picked(s, K)
           c == Cardinality(K)
<1>1. /\ IsFiniteSet(K) /\ q \in Seq(A) /\ Len(q) = c
      /\ \A k \in K : Rank(K, k) \in 1 .. c /\ q[Rank(K, k)] = s[k]
      /\ \A i \in 1 .. c : \E k \in K : Rank(K, k) = i
  BY PickedIs
<1>2. DOMAIN q = 1 .. c
  BY <1>1
<1> HIDE DEF q, c
<1>3. ToSet(q) = {s[k] : k \in K}
  BY <1>1, <1>2 DEF ToSet
<1>4. ASSUME \A i, j \in K : s[i] = s[j] => i = j PROVE IsInjective(q)
  <2> SUFFICES ASSUME NEW i \in 1 .. c, NEW j \in 1 .. c, q[i] = q[j] PROVE i = j
    BY <1>2 DEF IsInjective
  <2>1. PICK k \in K : Rank(K, k) = i BY <1>1
  <2>2. PICK l \in K : Rank(K, l) = j BY <1>1
  <2>3. s[k] = s[l] BY <1>1, <2>1, <2>2
  <2> QED BY <1>4, <2>1, <2>2, <2>3
<1> QED BY <1>1, <1>3, <1>4 DEF q

-----------------------------------------------------------------------------
(* Orders of captured units that hold one capture for each target. *)

\* The captured units that have a capture of target t.
Holding(t) == {k \in DOMAIN captured.units : t \in DOMAIN captured.units[k].paths}

\* What they have to become.
FirstUnits(t) == [k \in DOMAIN captured.units |-> PlannedUnit(k, t, 1)]

\* One capture each.
Single(t) == \A k \in Holding(t) : DOMAIN captured.units[k].paths[t] = 1 .. 1

\* With one capture each, the planned units are picked from all.
LEMMA PlannedPicked ==
    ASSUME IsSeq(captured.units), NEW t, Single(t)
    PROVE  /\ PlannedUnits(t) = Picked(FirstUnits(t), Holding(t))
           /\ FirstUnits(t) \in Seq(ToSet(FirstUnits(t)))
           /\ Holding(t) \in SUBSET DOMAIN FirstUnits(t)
           /\ DOMAIN FirstUnits(t) = DOMAIN captured.units
<1> DEFINE U == DOMAIN captured.units
           F == FirstUnits(t)
           K == Holding(t)
<1>1. U = 1 .. Len(captured.units) /\ Len(captured.units) \in Nat
  BY SeqIs
<1>2. DOMAIN F = U /\ \A k \in U : F[k] = PlannedUnit(k, t, 1)
  BY DEF FirstUnits
<1>3. F = [k \in 1 .. Len(captured.units) |-> F[k]]
  BY <1>1 DEF FirstUnits
<1>4. IsSeq(F)
  <2> HIDE DEF F
  <2> QED BY <1>1, <1>3, FunctionIsSeq
<1>5. K \subseteq U
  BY DEF Holding
<1>6. ASSUME NEW k \in U PROVE Planned(k, t) = IF k \in K THEN <<F[k]>> ELSE <<>>
  <2>1. CASE k \in K
    <3>1. /\ t \in DOMAIN captured.units[k].paths
          /\ DOMAIN captured.units[k].paths[t] = 1 .. 1
      BY <2>1 DEF Holding, Single
    <3>2. Planned(k, t) = [i \in 1 .. 1 |-> PlannedUnit(k, t, i)]
      BY <3>1 DEF Planned
    <3>3. \A i \in 1 .. 1 : PlannedUnit(k, t, i) = F[k]
      BY <1>2
    <3>4. Planned(k, t) = [i \in 1 .. 1 |-> F[k]]
      BY <3>2, <3>3
    <3> HIDE DEF F
    <3> QED BY <2>1, <3>4
  <2>2. CASE k \notin K
    BY <2>2 DEF Holding, Planned
  <2> QED BY <2>1, <2>2
<1>7. PlannedUnits(t) = Picked(F, K)
  <2> HIDE DEF F, K
  <2>1. [k \in U |-> Planned(k, t)] = [k \in DOMAIN F |-> IF k \in K THEN <<F[k]>> ELSE <<>>]
    BY <1>2, <1>6
  <2> QED BY <2>1 DEF PlannedUnits, Picked
<1> QED BY <1>2, <1>4, <1>5, <1>7 DEF IsSeq

\* An order that names every captured unit of a target once is passed on as ranks,
\* and puts the target's native units in their order again.
LEMMA OrderRestores ==
    ASSUME IsSeq(captured.units), NEW t, Single(t), IsSeq(selected[t]),
           DOMAIN captured.orders[t] = DOMAIN selected[t],
           \A i \in DOMAIN selected[t] :
              /\ captured.orders[t][i] \in Holding(t)
              /\ PlannedUnit(captured.orders[t][i], t, 1) = NativeUnit(selected[t][i]),
           \A i, j \in DOMAIN selected[t] :
              captured.orders[t][i] = captured.orders[t][j] => i = j,
           \A k \in Holding(t) : \E i \in DOMAIN selected[t] : captured.orders[t][i] = k
    PROVE  /\ TargetOrder(t) \in Seq(Nat)
           /\ Len(TargetOrder(t)) = Len(PlannedUnits(t))
           /\ ToSet(TargetOrder(t)) = DOMAIN PlannedUnits(t)
           /\ Native(t) = [i \in DOMAIN TargetOrder(t) |->
                              PlannedUnits(t)[TargetOrder(t)[i]]]
<1> DEFINE o == captured.orders[t]
           K == Holding(t)
           F == FirstUnits(t)
           c == Cardinality(K)
           n == Len(selected[t])
           r == TargetOrder(t)
           q == PlannedUnits(t)
<1>1. n \in Nat /\ DOMAIN selected[t] = 1 .. n
  BY SeqIs
<1>2. /\ q = Picked(F, K) /\ F \in Seq(ToSet(F)) /\ K \in SUBSET DOMAIN F
      /\ DOMAIN F = DOMAIN captured.units
  BY PlannedPicked
<1>3. /\ IsFiniteSet(K) /\ q \in Seq(ToSet(F)) /\ Len(q) = c
      /\ \A k \in K : Rank(K, k) \in 1 .. c /\ q[Rank(K, k)] = F[k]
      /\ \A i \in 1 .. c : \E k \in K : Rank(K, k) = i
  <2> HIDE DEF F, K, q, c
  <2> QED BY <1>2, PickedIs DEF c
<1>4. \A i \in 1 .. n : o[i] \in K /\ F[o[i]] = NativeUnit(selected[t][i])
  BY <1>1, <1>2 DEF FirstUnits
<1>5. DOMAIN r = 1 .. n /\ \A i \in 1 .. n : r[i] = Rank(K, o[i])
  <2>1. ASSUME NEW k \in K
        PROVE  {j \in 1 .. k : t \in DOMAIN captured.units[j].paths} = {j \in K : j <= k}
    <3>1. /\ DOMAIN captured.units = 1 .. Len(captured.units) /\ Len(captured.units) \in Nat
      BY SeqIs
    <3>2. k \in 1 .. Len(captured.units) BY <3>1 DEF Holding
    <3> QED BY <3>1, <3>2 DEF Holding
  <2>2. r = [i \in 1 .. n |->
                Cardinality({j \in 1 .. o[i] : t \in DOMAIN captured.units[j].paths})]
    BY <1>1 DEF TargetOrder
  <2> HIDE DEF K, o, r
  <2>3. ASSUME NEW i \in 1 .. n PROVE r[i] = Rank(K, o[i])
    <3>1. o[i] \in K BY <1>4
    <3>2. {j \in 1 .. o[i] : t \in DOMAIN captured.units[j].paths} = {j \in K : j <= o[i]}
      BY <2>1, <3>1
    <3>3. r[i] = Cardinality({j \in 1 .. o[i] : t \in DOMAIN captured.units[j].paths})
      BY <2>2
    <3> QED BY <3>2, <3>3 DEF Rank
  <2>4. DOMAIN r = 1 .. n BY <2>2
  <2> QED BY <2>3, <2>4
<1>6. c \in Nat
  BY <1>3, FS_CardinalityType
<1>7. c = n
  <2> DEFINE f == [i \in 1 .. n |-> o[i]]
  <2>1. f \in Bijection(1 .. n, K)
    <3>1. \A i, j \in 1 .. n : o[i] = o[j] => i = j BY <1>1
    <3>2. \A k \in K : \E i \in 1 .. n : o[i] = k BY <1>1
    <3> HIDE DEF o, K
    <3>3. f \in [1 .. n -> K] /\ \A i \in 1 .. n : f[i] = o[i] BY <1>4
    <3> HIDE DEF f
    <3> QED BY <3>1, <3>2, <3>3 DEF Bijection, Injection, Surjection, IsInjective
  <2>2. ExistsBijection(1 .. n, K) BY <2>1 DEF ExistsBijection
  <2> HIDE DEF K
  <2> QED BY <1>1, <2>2, FS_CountingElements
<1>8. \A i \in 1 .. n : r[i] \in 1 .. n /\ q[r[i]] = NativeUnit(selected[t][i])
  <2> HIDE DEF o, K, F, c, n, r, q
  <2> QED BY <1>3, <1>4, <1>5, <1>7
<1>9. \A j \in 1 .. n : \E i \in 1 .. n : r[i] = j
  <2> SUFFICES ASSUME NEW j \in 1 .. n PROVE \E i \in 1 .. n : r[i] = j
    OBVIOUS
  <2>1. PICK k \in K : Rank(K, k) = j
    <3> HIDE DEF K, c, n
    <3> QED BY <1>3, <1>7
  <2>2. PICK i \in 1 .. n : o[i] = k BY <1>1
  <2> QED BY <1>5, <2>1, <2>2
<1>10. Native(t) = [i \in 1 .. n |-> NativeUnit(selected[t][i])]
  BY <1>1 DEF Native
<1>11. r = [i \in 1 .. n |-> r[i]]
  BY <1>5 DEF TargetOrder
<1> HIDE DEF o, K, F, c, n, r, q
<1>12. r \in Seq(Nat) /\ Len(r) = n
  <2>1. r \in [1 .. n -> Nat] BY <1>8, <1>11, <1>1
  <2> QED BY <1>1, <2>1
<1>13. ToSet(r) = 1 .. n /\ DOMAIN q = 1 .. n
  BY <1>3, <1>5, <1>7, <1>8, <1>9 DEF ToSet
<1>14. Native(t) = [i \in DOMAIN r |-> q[r[i]]]
  BY <1>5, <1>8, <1>10
<1> QED BY <1>3, <1>7, <1>12, <1>13, <1>14 DEF r, q, n

-----------------------------------------------------------------------------
(* Paired units. *)

\* The first target is one of the targets.
LEMMA FirstTarget ==
    /\ Len(Targets) \in Nat /\ DOMAIN Targets = 1 .. Len(Targets) /\ Len(Targets) >= 1
    /\ Targets[1] \in AllTargets
    /\ AllTargets = {Targets[i] : i \in 1 .. Len(Targets)}
<1>1. Len(Targets) \in Nat /\ DOMAIN Targets = 1 .. Len(Targets) /\ Len(Targets) >= 1
  BY TargetsAssumption
<1> QED BY <1>1 DEF AllTargets, ToSet

\* A set of one element has no other.
LEMMA OnlyOne ==
    ASSUME NEW S, Cardinality(S) = 1, IsFiniteSet(S)
    PROVE  \E x : S = {x}
BY FS_Singleton

\* The peers of corresponding units are a permutation of them.
LEMMA PeersPermute ==
    ASSUME Selection, NEW t \in AllTargets, Corresponding(selected[t])
    PROVE  LET p == Peers(selected[t])
               n == Len(Reference)
           IN  /\ n \in Nat /\ DOMAIN Reference = 1 .. n /\ DOMAIN selected[t] = 1 .. n
               /\ p \in [1 .. n -> 1 .. n]
               /\ \A i \in 1 .. n : Matches(Reference[i], selected[t][p[i]])
               /\ \A i, j \in 1 .. n : p[i] = p[j] => i = j
               /\ \A j \in 1 .. n : \E i \in 1 .. n : p[i] = j
<1> DEFINE units == selected[t]
           p == Peers(units)
           n == Len(Reference)
<1>1. IsSeq(Reference) /\ IsSeq(units)
  BY FirstTarget DEF Selection, Reference
<1>2. n \in Nat /\ DOMAIN Reference = 1 .. n /\ Len(units) \in Nat /\ DOMAIN units = 1 .. Len(units)
  BY <1>1, SeqIs
<1>3. CASE SameOrder(units)
  <2>1. Len(units) = n /\ \A i \in 1 .. n : Matches(Reference[i], units[i])
    BY <1>2, <1>3 DEF SameOrder
  <2>2. p = [i \in 1 .. n |-> i]
    BY <1>2, <1>3 DEF Peers
  <2> HIDE DEF p, n, units
  <2>3. p \in [1 .. n -> 1 .. n] /\ \A i \in 1 .. n : p[i] = i
    BY <2>2
  <2> QED BY <1>2, <2>1, <2>3 DEF p, n, units
<1>4. CASE ~ SameOrder(units)
  <2>1. UniquePeers(units)
    BY <1>4 DEF Corresponding
  <2>2. Len(units) = n
    BY <2>1 DEF UniquePeers
  <2>3. ASSUME NEW i \in 1 .. n PROVE \E x : Candidates(Reference[i], units) = {x}
    <3>1. Cardinality(Candidates(Reference[i], units)) = 1
      BY <1>2, <2>1 DEF UniquePeers
    <3>2. Candidates(Reference[i], units) \in SUBSET (1 .. n)
      BY <1>2, <2>2 DEF Candidates
    <3>3. IsFiniteSet(Candidates(Reference[i], units))
      <4> HIDE DEF n
      <4> QED BY <1>2, <3>2, Interval, FS_Subset
    <3> QED BY <3>1, <3>3, OnlyOne
  <2>4. p = [i \in 1 .. n |-> CHOOSE j \in DOMAIN units : Matches(Reference[i], units[j])]
    BY <1>2, <1>4 DEF Peers
  <2>5. ASSUME NEW i \in 1 .. n
        PROVE  /\ p[i] \in 1 .. n /\ Matches(Reference[i], units[p[i]])
               /\ Candidates(Reference[i], units) = {p[i]}
    <3>1. PICK x : Candidates(Reference[i], units) = {x} BY <2>3
    <3>2. \E j \in DOMAIN units : Matches(Reference[i], units[j]) BY <3>1 DEF Candidates
    <3>3. p[i] = CHOOSE j \in DOMAIN units : Matches(Reference[i], units[j]) BY <2>4
    <3>4. p[i] \in DOMAIN units /\ Matches(Reference[i], units[p[i]]) BY <3>2, <3>3
    <3>5. p[i] \in Candidates(Reference[i], units) BY <3>4 DEF Candidates
    <3> QED BY <1>2, <2>2, <3>1, <3>4, <3>5
  <2>6. ASSUME NEW i \in 1 .. n, NEW j \in 1 .. n, p[i] = p[j] PROVE i = j
    <3>1. Candidates(Reference[i], units) = Candidates(Reference[j], units)
      BY <2>5, <2>6
    <3> QED BY <1>2, <2>1, <3>1 DEF UniquePeers
  <2> HIDE DEF p, n, units
  <2>7. p \in [1 .. n -> 1 .. n]
    BY <2>4, <2>5
  <2>8. p \in Injection(1 .. n, 1 .. n)
    BY <2>6, <2>7 DEF Injection, IsInjective
  <2>9. p \in Surjection(1 .. n, 1 .. n)
    BY <1>2, <2>8, Interval, FS_Injection
  <2>10. \A j \in 1 .. n : \E i \in 1 .. n : p[i] = j
    BY <2>9 DEF Surjection
  <2> QED BY <1>2, <2>2, <2>5, <2>6, <2>7, <2>10 DEF p, n, units
<1> QED BY <1>3, <1>4

\* order[peers[i]] = i gives each native unit the place of its peer.
LEMMA UnitOrderInverts ==
    ASSUME NEW n \in Nat, NEW p \in [1 .. n -> 1 .. n],
           \A i, j \in 1 .. n : p[i] = p[j] => i = j,
           \A j \in 1 .. n : \E i \in 1 .. n : p[i] = j
    PROVE  /\ DOMAIN UnitOrder(p) = 1 .. n
           /\ \A i \in 1 .. n : UnitOrder(p)[i] \in 1 .. n /\ p[UnitOrder(p)[i]] = i
           /\ \A k \in 1 .. n : \E i \in 1 .. n : UnitOrder(p)[i] = k
<1> DEFINE o == UnitOrder(p)
<1>1. Range(p) = 1 .. n
  <2>1. DOMAIN p = 1 .. n /\ \A i \in 1 .. n : p[i] \in 1 .. n OBVIOUS
  <2>2. \A x \in Range(p) : x \in 1 .. n BY <2>1 DEF Range
  <2>3. \A j \in 1 .. n : j \in Range(p) BY <2>1 DEF Range
  <2> QED BY <2>2, <2>3
<1>2. o = [j \in 1 .. n |-> CHOOSE i \in 1 .. n : j \in 1 .. n => p[i] = j]
  BY <1>1 DEF UnitOrder, AntiFunction, Inverse
<1>3. ASSUME NEW j \in 1 .. n PROVE o[j] \in 1 .. n /\ p[o[j]] = j
  <2>1. o[j] = CHOOSE i \in 1 .. n : j \in 1 .. n => p[i] = j BY <1>2
  <2>2. \E i \in 1 .. n : j \in 1 .. n => p[i] = j OBVIOUS
  <2> QED BY <2>1, <2>2
<1>4. DOMAIN o = 1 .. n BY <1>2
<1> HIDE DEF o
<1>5. ASSUME NEW k \in 1 .. n PROVE \E i \in 1 .. n : o[i] = k
  <2>1. p[k] \in 1 .. n OBVIOUS
  <2>2. o[p[k]] \in 1 .. n /\ p[o[p[k]]] = p[k] BY <1>3, <2>1
  <2>3. o[p[k]] = k BY <2>2
  <2> QED BY <2>1, <2>3
<1> QED BY <1>3, <1>4, <1>5 DEF o

\* In an interval everything is at its own rank.
LEMMA RankOfAll ==
    ASSUME NEW n \in Nat, NEW k \in 1 .. n
    PROVE  Rank(1 .. n, k) = k
<1>1. {j \in 1 .. n : j <= k} = 1 .. k
  OBVIOUS
<1>2. k \in Nat /\ Cardinality(1 .. k) = k
  BY Interval
<1> QED BY <1>1, <1>2 DEF Rank

\* Where all captured units hold one capture of a target, they are planned as they
\* are.
LEMMA AllPlanned ==
    ASSUME IsSeq(captured.units), NEW t, Single(t), Holding(t) = DOMAIN captured.units
    PROVE  PlannedUnits(t) = FirstUnits(t)
<1> DEFINE K == Holding(t)
           F == FirstUnits(t)
           q == PlannedUnits(t)
           n == Len(captured.units)
<1>1. n \in Nat /\ K = 1 .. n
  BY SeqIs
<1>2. q = Picked(F, K) /\ F \in Seq(ToSet(F)) /\ K \in SUBSET DOMAIN F /\ DOMAIN F = 1 .. n
  BY <1>1, PlannedPicked
<1> HIDE DEF K, F, q, n
<1>3. /\ q \in Seq(ToSet(F)) /\ Len(q) = Cardinality(K)
      /\ \A k \in K : q[Rank(K, k)] = F[k]
  BY <1>2, PickedIs
<1>4. Cardinality(K) = n
  BY <1>1, Interval
<1>5. \A k \in 1 .. n : q[k] = F[k]
  BY <1>1, <1>3, RankOfAll
<1>6. DOMAIN q = 1 .. n /\ q = [k \in 1 .. n |-> q[k]]
  BY <1>1, <1>3, <1>4
<1>7. F = [k \in 1 .. n |-> F[k]]
  BY <1>2
<1>8. q = F
  BY <1>5, <1>6, <1>7
<1> QED BY <1>8 DEF q, F

\* What PairedBuild is made of.
LEMMA PairedIs ==
    ASSUME Selection, \A t \in AllTargets : Corresponding(selected[t]), captured = PairedBuild
    PROVE  /\ IsSeq(captured.units) /\ DOMAIN captured.units = DOMAIN Reference
           /\ \A k \in DOMAIN Reference :
                 /\ DOMAIN captured.units[k].paths = AllTargets
                 /\ captured.units[k].optimization = Reference[k].optimization
                 /\ captured.units[k].member = Reference[k].member
                 /\ \A t \in AllTargets :
                       captured.units[k].paths[t] = <<selected[t][Peers(selected[t])[k]]>>
           /\ DOMAIN captured.orders
                = {t \in AllTargets : \E i \in DOMAIN Reference : Peers(selected[t])[i] # i}
           /\ \A t \in DOMAIN captured.orders :
                 captured.orders[t] = UnitOrder(Peers(selected[t]))
<1> DEFINE P == [t \in AllTargets |-> Peers(selected[t])]
           Unit(k) == [paths |-> [t \in AllTargets |-> <<selected[t][P[t][k]]>>],
                       optimization |-> Reference[k].optimization,
                       member |-> Reference[k].member]
           n == Len(Reference)
<1>1. n \in Nat /\ DOMAIN Reference = 1 .. n
  BY FirstTarget, SeqIs DEF Selection, Reference
<1>2. /\ captured.units = [k \in DOMAIN Reference |-> Unit(k)]
      /\ captured.orders = [t \in {u \in AllTargets : \E i \in DOMAIN Reference : P[u][i] # i} |->
                               UnitOrder(P[t])]
  BY DEF PairedBuild
<1>3. \A t \in AllTargets : P[t] = Peers(selected[t])
  OBVIOUS
<1>4. /\ DOMAIN captured.units = 1 .. n
      /\ captured.units = [k \in 1 .. n |-> captured.units[k]]
      /\ \A k \in 1 .. n : captured.units[k] = Unit(k)
  BY <1>1, <1>2
<1>5. IsSeq(captured.units)
  <2> HIDE DEF n
  <2> QED BY <1>1, <1>4, FunctionIsSeq
<1>6. ASSUME NEW k \in 1 .. n
      PROVE  /\ DOMAIN captured.units[k].paths = AllTargets
             /\ captured.units[k].optimization = Reference[k].optimization
             /\ captured.units[k].member = Reference[k].member
             /\ \A t \in AllTargets :
                   captured.units[k].paths[t] = <<selected[t][Peers(selected[t])[k]]>>
  <2>1. captured.units[k] = Unit(k) BY <1>4
  <2>2. /\ captured.units[k].paths = [t \in AllTargets |-> <<selected[t][P[t][k]]>>]
        /\ captured.units[k].optimization = Reference[k].optimization
        /\ captured.units[k].member = Reference[k].member
    BY <2>1
  <2> HIDE DEF P
  <2> QED BY <1>3, <2>2
<1>7. DOMAIN captured.orders
        = {t \in AllTargets : \E i \in DOMAIN Reference : Peers(selected[t])[i] # i}
  BY <1>2, <1>3
<1>8. \A t \in DOMAIN captured.orders : captured.orders[t] = UnitOrder(Peers(selected[t]))
  BY <1>2, <1>3
<1> QED BY <1>1, <1>4, <1>5, <1>6, <1>7, <1>8

\* Paired units are the units of every target, in the order of its own link.
LEMMA PairedSound ==
    ASSUME Selection, \A t \in AllTargets : Corresponding(selected[t]), captured = PairedBuild
    PROVE  UnitsCaptured /\ UnitsPaired
<1> DEFINE n == Len(Reference)
           P(t) == Peers(selected[t])
<1>1. /\ n \in Nat /\ DOMAIN Reference = 1 .. n /\ Targets[1] \in AllTargets
      /\ \A k \in 1 .. n : (Reference[k].member # NoMember) <=> (kind = "static")
      /\ kind # "static" => Reference # <<>>
  BY FirstTarget, SeqIs DEF Selection, Reference
<1>2. /\ IsSeq(captured.units) /\ DOMAIN captured.units = 1 .. n
      /\ \A k \in 1 .. n :
            /\ DOMAIN captured.units[k].paths = AllTargets
            /\ captured.units[k].optimization = Reference[k].optimization
            /\ captured.units[k].member = Reference[k].member
            /\ \A t \in AllTargets : captured.units[k].paths[t] = <<selected[t][P(t)[k]]>>
      /\ DOMAIN captured.orders = {t \in AllTargets : \E i \in 1 .. n : P(t)[i] # i}
      /\ \A t \in DOMAIN captured.orders : captured.orders[t] = UnitOrder(P(t))
  BY <1>1, PairedIs
<1>3. ASSUME NEW t \in AllTargets
      PROVE  /\ DOMAIN selected[t] = 1 .. n /\ IsSeq(selected[t])
             /\ P(t) \in [1 .. n -> 1 .. n]
             /\ \A i \in 1 .. n : Matches(Reference[i], selected[t][P(t)[i]])
             /\ \A i, j \in 1 .. n : P(t)[i] = P(t)[j] => i = j
             /\ \A j \in 1 .. n : \E i \in 1 .. n : P(t)[i] = j
  BY PeersPermute DEF Selection
<1> HIDE DEF n, P
<1>4. UnitsCaptured
  <2>1. kind # "static" => captured.units # <<>>
    <3>1. kind # "static" => n >= 1 BY <1>1 DEF n
    <3> QED BY <1>1, <1>2, <3>1
  <2>2. ASSUME NEW k \in 1 .. n, NEW t \in AllTargets
        PROVE  /\ IsSeq(captured.units[k].paths[t]) /\ captured.units[k].paths[t] # <<>>
               /\ Len(captured.units[k].paths[t]) = 1
               /\ \A i \in DOMAIN captured.units[k].paths[t] :
                     IsSeq(captured.units[k].paths[t][i].definitions)
    <3> DEFINE x == selected[t][P(t)[k]]
    <3>1. captured.units[k].paths[t] = <<x>> BY <1>2
    <3>2. IsSeq(x.definitions)
      <4>1. P(t) \in [1 .. n -> 1 .. n] /\ DOMAIN selected[t] = 1 .. n BY <1>3
      <4>2. P(t)[k] \in DOMAIN selected[t] BY <4>1
      <4> QED BY <4>2 DEF Selection
    <3> HIDE DEF x
    <3>3. /\ IsSeq(<<x>>) /\ <<x>> # <<>> /\ Len(<<x>>) = 1 /\ DOMAIN <<x>> = 1 .. 1
          /\ \A i \in DOMAIN <<x>> : <<x>>[i] = x
      BY DEF IsSeq, ToSet
    <3> QED BY <3>1, <3>2, <3>3
  <2> QED BY <1>1, <1>2, <2>1, <2>2 DEF UnitsCaptured
<1>5. ASSUME NEW t \in AllTargets
      PROVE  /\ Holding(t) = 1 .. n /\ Single(t)
             /\ \A k \in 1 .. n : PlannedUnit(k, t, 1) = NativeUnit(selected[t][P(t)[k]])
  <2>1. Holding(t) = 1 .. n BY <1>2 DEF Holding
  <2>2. Single(t) BY <1>2, <2>1 DEF Single
  <2>3. ASSUME NEW k \in 1 .. n
        PROVE  PlannedUnit(k, t, 1) = NativeUnit(selected[t][P(t)[k]])
    <3> DEFINE x == selected[t][P(t)[k]]
    <3>1. captured.units[k].paths[t][1] = x BY <1>2
    <3>2. x.optimization = Reference[k].optimization /\ x.member = Reference[k].member
      BY <1>3 DEF Matches
    <3> HIDE DEF x
    <3>3. PlannedUnit(k, t, 1) = NativeUnit(x)
      BY <1>2, <3>1, <3>2 DEF PlannedUnit, NativeUnit
    <3> QED BY <3>3 DEF x
  <2> QED BY <2>1, <2>2, <2>3
<1>6. ASSUME NEW t \in DOMAIN captured.orders
      PROVE  /\ t \in AllTargets /\ DOMAIN captured.orders[t] = 1 .. n
             /\ \A i \in 1 .. n : /\ captured.orders[t][i] \in 1 .. n
                                  /\ P(t)[captured.orders[t][i]] = i
             /\ \A k \in 1 .. n : \E i \in 1 .. n : captured.orders[t][i] = k
  <2>1. t \in AllTargets BY <1>2
  <2>2. /\ DOMAIN UnitOrder(P(t)) = 1 .. n
        /\ \A i \in 1 .. n : UnitOrder(P(t))[i] \in 1 .. n /\ P(t)[UnitOrder(P(t))[i]] = i
        /\ \A k \in 1 .. n : \E i \in 1 .. n : UnitOrder(P(t))[i] = k
    <3>1. PICK p \in [1 .. n -> 1 .. n] :
             /\ p = P(t)
             /\ \A i, j \in 1 .. n : p[i] = p[j] => i = j
             /\ \A j \in 1 .. n : \E i \in 1 .. n : p[i] = j
      BY <1>3, <2>1
    <3>2. n \in Nat BY <1>1
    <3>3. /\ DOMAIN UnitOrder(p) = 1 .. n
          /\ \A i \in 1 .. n : UnitOrder(p)[i] \in 1 .. n /\ p[UnitOrder(p)[i]] = i
          /\ \A k \in 1 .. n : \E i \in 1 .. n : UnitOrder(p)[i] = k
      BY <3>1, <3>2, UnitOrderInverts
    <3> QED BY <3>1, <3>3
  <2> QED BY <1>2, <2>1, <2>2
<1>7. ~ OrderInactive
  <2> SUFFICES ASSUME NEW t \in DOMAIN captured.orders, NEW k \in ToSet(captured.orders[t])
               PROVE  t \in DOMAIN captured.units[k].paths
    BY DEF OrderInactive
  <2>1. /\ DOMAIN captured.orders[t] = 1 .. n /\ t \in AllTargets
        /\ \A i \in 1 .. n : captured.orders[t][i] \in 1 .. n
    BY <1>6
  <2>2. k \in 1 .. n BY <2>1 DEF ToSet
  <2> QED BY <1>2, <2>1, <2>2
<1>8. ASSUME NEW t \in DOMAIN captured.orders
      PROVE  /\ TargetOrder(t) \in Seq(Nat)
             /\ Len(TargetOrder(t)) = Len(PlannedUnits(t))
             /\ ToSet(TargetOrder(t)) = DOMAIN PlannedUnits(t)
             /\ Native(t) = [i \in DOMAIN TargetOrder(t) |->
                                PlannedUnits(t)[TargetOrder(t)[i]]]
  <2>1. /\ t \in AllTargets /\ IsSeq(selected[t]) /\ Single(t)
        /\ DOMAIN captured.orders[t] = DOMAIN selected[t] /\ DOMAIN selected[t] = 1 .. n
    BY <1>3, <1>5, <1>6
  <2>5. /\ \A i \in 1 .. n : /\ captured.orders[t][i] \in 1 .. n
                             /\ P(t)[captured.orders[t][i]] = i
        /\ \A k \in 1 .. n : \E i \in 1 .. n : captured.orders[t][i] = k
    BY <1>6
  <2>6. /\ Holding(t) = 1 .. n
        /\ \A k \in 1 .. n : PlannedUnit(k, t, 1) = NativeUnit(selected[t][P(t)[k]])
    BY <1>5, <2>1
  <2>2. \A i \in DOMAIN selected[t] :
           /\ captured.orders[t][i] \in Holding(t)
           /\ PlannedUnit(captured.orders[t][i], t, 1) = NativeUnit(selected[t][i])
    BY <2>1, <2>5, <2>6
  <2>3. ASSUME NEW i \in DOMAIN selected[t], NEW j \in DOMAIN selected[t],
               captured.orders[t][i] = captured.orders[t][j]
        PROVE  i = j
    <3>1. P(t)[captured.orders[t][i]] = i /\ P(t)[captured.orders[t][j]] = j BY <2>1, <2>5
    <3> QED BY <2>3, <3>1
  <2>4. \A k \in Holding(t) : \E i \in DOMAIN selected[t] : captured.orders[t][i] = k
    BY <2>1, <2>5, <2>6
  <2> QED BY <1>2, <2>1, <2>2, <2>3, <2>4, OrderRestores
<1>9. ASSUME NEW t \in AllTargets, t \notin DOMAIN captured.orders
      PROVE  Native(t) = PlannedUnits(t)
  <2>1. \A i \in 1 .. n : P(t)[i] = i BY <1>2, <1>9
  <2>2. PlannedUnits(t) = FirstUnits(t) BY <1>2, <1>5, AllPlanned
  <2>3. FirstUnits(t) = [k \in 1 .. n |-> PlannedUnit(k, t, 1)] BY <1>2 DEF FirstUnits
  <2>4. Native(t) = [k \in 1 .. n |-> NativeUnit(selected[t][k])] BY <1>3 DEF Native
  <2>5. \A k \in 1 .. n : PlannedUnit(k, t, 1) = NativeUnit(selected[t][k]) BY <1>5, <2>1
  <2> QED BY <2>2, <2>3, <2>4, <2>5
<1>10. UnitsPaired
  BY <1>2, <1>7, <1>8, <1>9 DEF UnitsPaired
<1> QED BY <1>4, <1>10

\* A single part is the whole.
LEMMA FlattenOne ==
    ASSUME NEW s, IsSeq(s)
    PROVE  FlattenSeq(<<s>>) = s
<1> DEFINE A == ToSet(s)
           p == <<s>>
<1>1. s \in Seq(A)
  BY DEF IsSeq
<1>2. 0 \in Nat /\ \A k \in 1 .. 0 + 1 : p[k] \in Seq(A)
  BY <1>1
<1> HIDE DEF p, A
<1>3. FlattenSeq([k \in 1 .. 0 + 1 |-> p[k]]) = FlattenSeq([k \in 1 .. 0 |-> p[k]]) \o p[0 + 1]
  BY <1>2, FlattenNext
<1>4. [k \in 1 .. 0 |-> p[k]] = <<>> /\ FlattenSeq(<<>>) = <<>>
  BY DEF FlattenSeq
<1>5. [k \in 1 .. 0 + 1 |-> p[k]] = <<s>> /\ p[0 + 1] = s
  BY DEF p
<1>6. <<>> \o s = s
  BY <1>1
<1> QED BY <1>3, <1>4, <1>5, <1>6

\* A group holds all native units of all targets.
LEMMA GroupedSound ==
    ASSUME Selection, CommonSettings, captured = GroupedBuild
    PROVE  UnitsCaptured /\ UnitsPaired
<1> DEFINE g == [paths |-> selected, optimization |-> Reference[1].optimization,
                 member |-> NoMember]
<1>1. /\ Targets[1] \in AllTargets /\ DOMAIN selected = AllTargets /\ kind # "static"
      /\ \A t \in AllTargets : IsSeq(selected[t]) /\ selected[t] # <<>>
  BY FirstTarget DEF Selection, CommonSettings
<1>2. captured.units = <<g>> /\ captured.orders = <<>>
  BY DEF GroupedBuild
<1>3. g.paths = selected /\ g.optimization = Reference[1].optimization /\ g.member = NoMember
  OBVIOUS
<1> HIDE DEF g
<1>4. IsSeq(captured.units) /\ DOMAIN captured.units = 1 .. 1 /\ captured.units[1] = g
  BY <1>2 DEF IsSeq, ToSet
<1>5. UnitsCaptured
  <2>1. captured.units # <<>> BY <1>2
  <2>2. \A t \in AllTargets : \A i \in DOMAIN selected[t] : IsSeq(selected[t][i].definitions)
    BY DEF Selection
  <2>3. \A k \in DOMAIN captured.units : captured.units[k] = g
    BY <1>4
  <2> QED BY <1>1, <1>3, <1>4, <2>1, <2>2, <2>3 DEF UnitsCaptured
<1>6. ~ OrderInactive /\ DOMAIN captured.orders = {}
  BY <1>2 DEF OrderInactive
<1>7. ASSUME NEW t \in AllTargets PROVE Native(t) = PlannedUnits(t)
  <2>1. ASSUME NEW i \in DOMAIN selected[t]
        PROVE  PlannedUnit(1, t, i) = NativeUnit(selected[t][i])
    <3> DEFINE x == selected[t][i]
    <3>1. x.optimization = Reference[1].optimization BY DEF CommonSettings
    <3>2. x.member = NoMember BY <1>1 DEF Selection
    <3>3. captured.units[1].paths[t][i] = x BY <1>3, <1>4
    <3> HIDE DEF x
    <3>4. PlannedUnit(1, t, i) = NativeUnit(x)
      BY <1>3, <1>4, <3>1, <3>2, <3>3 DEF PlannedUnit, NativeUnit
    <3> QED BY <3>4 DEF x
  <2>2. Planned(1, t) = [i \in DOMAIN selected[t] |-> PlannedUnit(1, t, i)]
    BY <1>1, <1>3, <1>4 DEF Planned
  <2>3. Planned(1, t) = Native(t)
    BY <2>1, <2>2 DEF Native
  <2>4. IsSeq(Native(t))
    <3>1. Len(selected[t]) \in Nat /\ DOMAIN selected[t] = 1 .. Len(selected[t])
      BY <1>1, SeqIs
    <3>2. Native(t) = [i \in 1 .. Len(selected[t]) |-> Native(t)[i]]
      BY <3>1 DEF Native
    <3> QED BY <3>1, <3>2, FunctionIsSeq
  <2>5. [k \in DOMAIN captured.units |-> Planned(k, t)] = <<Native(t)>>
    <3>1. \A k \in 1 .. 1 : Planned(k, t) = Native(t) BY <2>3
    <3>2. [k \in DOMAIN captured.units |-> Planned(k, t)] = [k \in 1 .. 1 |-> Native(t)]
      BY <1>4, <3>1
    <3> QED BY <3>2
  <2> QED BY <2>4, <2>5, FlattenOne DEF PlannedUnits
<1>8. UnitsPaired
  BY <1>6, <1>7 DEF UnitsPaired
<1> QED BY <1>5, <1>8

-----------------------------------------------------------------------------
(* Heterogeneous units: the loops of ScopedBuild. *)

\* The index a unit is placed at, and what becomes of it.
PlacedAt(built, t, unit, index, after) ==
    /\ IsSeq(after.units) /\ index \in 1 .. Len(built.units) + 1
    /\ \A k \in DOMAIN built.units : k # index => after.units[k] = built.units[k]
    /\ after.orders = [built.orders EXCEPT ![t] = Append(@, index)]
    /\ \/ /\ index = Len(built.units) + 1 /\ Len(after.units) = index
          /\ after.units[index]
               = [representative |-> unit, paths |-> [u \in {t} |-> <<unit>>],
                  optimization |-> unit.optimization, member |-> unit.member]
       \/ /\ index \in DOMAIN built.units /\ Len(after.units) = Len(built.units)
          /\ Matches(built.units[index].representative, unit)
          /\ t \notin DOMAIN built.units[index].paths
          /\ after.units[index]
               = [built.units[index] EXCEPT !.paths =
                    [u \in DOMAIN @ \cup {t} |-> IF u = t THEN <<unit>> ELSE @[u]]]

\* PlaceUnit places a unit at one index.
LEMMA PlaceUnitIs ==
    ASSUME NEW built, IsSeq(built.units), NEW t, NEW unit
    PROVE  \E index : PlacedAt(built, t, unit, index, PlaceUnit(built, t, unit))
<1> DEFINE n == Len(built.units)
           S == {i \in 1 .. n : /\ Matches(built.units[i].representative, unit)
                                /\ t \notin DOMAIN built.units[i].paths}
           found == SelectInSeq(built.units,
                        LAMBDA u : Matches(u.representative, unit) /\ t \notin DOMAIN u.paths)
           index == IF found = 0 THEN n + 1 ELSE found
           new == [representative |-> unit, paths |-> [u \in {t} |-> <<unit>>],
                   optimization |-> unit.optimization, member |-> unit.member]
           units == IF found = 0 THEN Append(built.units, new)
                    ELSE [built.units EXCEPT ![index].paths =
                            [u \in DOMAIN @ \cup {t} |-> IF u = t THEN <<unit>> ELSE @[u]]]
           after == PlaceUnit(built, t, unit)
<1>1. n \in Nat /\ DOMAIN built.units = 1 .. n
  BY SeqIs
<1>2. found = IF S # {} THEN Min(S) ELSE 0
  BY DEF SelectInSeq
<1>3. after = [units |-> units, orders |-> [built.orders EXCEPT ![t] = Append(@, index)]]
  BY DEF PlaceUnit
<1>4. after.units = units /\ after.orders = [built.orders EXCEPT ![t] = Append(@, index)]
  <2> HIDE DEF units, index, after
  <2> QED BY <1>3
<1>5. CASE S = {}
  <2>1. found = 0 BY <1>2, <1>5
  <2>2. index = n + 1 /\ units = Append(built.units, new) BY <2>1
  <2> HIDE DEF found, index, units, new, after, S
  <2>3. built.units = [i \in 1 .. n |-> built.units[i]]
    <3>1. built.units \in Seq(ToSet(built.units)) BY DEF IsSeq
    <3> HIDE DEF n
    <3> QED BY <1>1, <3>1
  <2>4. /\ IsSeq(units) /\ Len(units) = n + 1 /\ units[n + 1] = new
        /\ \A k \in 1 .. n : units[k] = built.units[k]
    <3> DEFINE A == ToSet(built.units) \cup {new}
               b == built.units
    <3>1. b \in Seq(A) /\ new \in A
      BY SeqMonotone DEF IsSeq
    <3> HIDE DEF A, b
    <3>2. /\ Append(b, new) \in Seq(A) /\ Len(Append(b, new)) = Len(b) + 1
          /\ Append(b, new)[Len(b) + 1] = new
          /\ \A k \in 1 .. Len(b) : Append(b, new)[k] = b[k]
      BY <3>1, AppendProperties, Z3
    <3>3. units \in Seq(A) /\ Len(units) = n + 1 /\ units[n + 1] = new
          /\ \A k \in 1 .. n : units[k] = built.units[k]
      BY <2>2, <3>2 DEF b, n
    <3>4. units = [k \in 1 .. n + 1 |-> units[k]] BY <1>1, <3>3
    <3> HIDE DEF n
    <3>5. n + 1 \in Nat BY <1>1
    <3>6. IsSeq(units) BY <3>4, <3>5, FunctionIsSeq
    <3> QED BY <3>3, <3>6
  <2>5. index \in 1 .. n + 1 BY <1>1, <2>2
  <2>6. after.units[index] = new BY <1>4, <2>2, <2>4
  <2>7. PlacedAt(built, t, unit, index, after)
    BY <1>1, <1>4, <2>2, <2>4, <2>5, <2>6 DEF PlacedAt, new, n
  <2> QED BY <2>7 DEF after
<1>6. CASE S # {}
  <2>1. Min(S) \in S
    <3>1. S \subseteq Nat BY <1>1
    <3> HIDE DEF S
    <3> QED BY <1>6, <3>1, MinIs
  <2>2. found \in S
    <3> HIDE DEF S, found
    <3> QED BY <1>2, <1>6, <2>1
  <2>3. /\ found \in 1 .. n /\ Matches(built.units[found].representative, unit)
        /\ t \notin DOMAIN built.units[found].paths
    <3> HIDE DEF found
    <3> QED BY <2>2
  <2> HIDE DEF found, S
  <2>4. found # 0 BY <1>1, <2>3
  <2>5. index = found BY <2>4
  <2> DEFINE old == built.units[found]
             x == [old EXCEPT !.paths =
                     [u \in DOMAIN @ \cup {t} |-> IF u = t THEN <<unit>> ELSE @[u]]]
  <2>6. units = [built.units EXCEPT ![found] = x]
    BY <2>4, <2>5
  <2> HIDE DEF index, units, after, x
  <2>7. built.units = [i \in 1 .. n |-> built.units[i]]
    <3>1. built.units \in Seq(ToSet(built.units)) BY DEF IsSeq
    <3> HIDE DEF n
    <3> QED BY <1>1, <3>1
  <2>8. /\ units[found] = x /\ DOMAIN units = 1 .. n
        /\ \A k \in 1 .. n : k # found => units[k] = built.units[k]
        /\ units = [k \in 1 .. n |-> units[k]]
    BY <2>3, <2>6, <2>7
  <2>9. IsSeq(units) /\ Len(units) = n BY <1>1, <2>8, FunctionIsSeq
  <2>10. after.units[index] = x BY <1>4, <2>5, <2>8
  <2>11. PlacedAt(built, t, unit, index, after)
    <3>1. index \in 1 .. n + 1 /\ index \in 1 .. n BY <1>1, <2>3, <2>5
    <3>2. /\ Matches(built.units[index].representative, unit)
          /\ t \notin DOMAIN built.units[index].paths
      BY <2>3, <2>5
    <3>3. after.units[index]
            = [built.units[index] EXCEPT !.paths =
                 [u \in DOMAIN @ \cup {t} |-> IF u = t THEN <<unit>> ELSE @[u]]]
      BY <2>5, <2>10 DEF x
    <3>4. \A k \in DOMAIN built.units : k # index => after.units[k] = built.units[k]
      BY <1>1, <1>4, <2>5, <2>8
    <3>5. IsSeq(after.units) /\ Len(after.units) = Len(built.units) BY <1>4, <2>9
    <3> QED BY <1>1, <1>4, <3>1, <3>2, <3>3, <3>4, <3>5, Zenon DEF PlacedAt, n
  <2> QED BY <2>11 DEF after
<1> QED BY <1>5, <1>6

\* One more element.
LEMMA AppendIs ==
    ASSUME NEW s, IsSeq(s), NEW e
    PROVE  /\ IsSeq(Append(s, e)) /\ Len(Append(s, e)) = Len(s) + 1
           /\ DOMAIN Append(s, e) = 1 .. Len(s) + 1
           /\ Append(s, e)[Len(s) + 1] = e
           /\ \A k \in 1 .. Len(s) : Append(s, e)[k] = s[k]
<1> DEFINE A == ToSet(s) \cup {e}
           r == Append(s, e)
<1>1. s \in Seq(A) /\ e \in A
  BY SeqMonotone DEF IsSeq
<1> HIDE DEF A
<1>2. /\ r \in Seq(A) /\ Len(r) = Len(s) + 1 /\ r[Len(s) + 1] = e
      /\ \A k \in 1 .. Len(s) : r[k] = s[k]
  BY <1>1, AppendProperties, Z3
<1> HIDE DEF r
<1>3. Len(s) + 1 \in Nat /\ r = [k \in 1 .. Len(s) + 1 |-> r[k]]
  BY <1>1, <1>2
<1>4. IsSeq(r) /\ DOMAIN r = 1 .. Len(s) + 1
  BY <1>3, FunctionIsSeq
<1> QED BY <1>2, <1>4 DEF r

\* Unit j of target t was placed with its own settings.
HoldsUnit(built, t, j) ==
    LET k == built.orders[t][j]
    IN  /\ k \in DOMAIN built.units /\ t \in DOMAIN built.units[k].paths
        /\ built.units[k].paths[t] = <<selected[t][j]>>
        /\ built.units[k].optimization = selected[t][j].optimization
        /\ built.units[k].member = selected[t][j].member

\* A group of matching units, each of some target that placed it there.
IsGroup(built, k) ==
    LET unit == built.units[k]
    IN  /\ unit = [representative |-> unit.representative, paths |-> unit.paths,
                   optimization |-> unit.optimization, member |-> unit.member]
        /\ unit.representative.optimization = unit.optimization
        /\ unit.representative.member = unit.member
        /\ (unit.member # NoMember) <=> (kind = "static")
        /\ DOMAIN unit.paths # {} /\ DOMAIN unit.paths \subseteq AllTargets
        /\ \A t \in DOMAIN unit.paths : \E j \in DOMAIN built.orders[t] : built.orders[t][j] = k

\* The orders name, for each target, the groups of its units placed so far.
IsOrder(built, t) ==
    /\ IsSeq(built.orders[t]) /\ DOMAIN built.orders[t] \subseteq DOMAIN selected[t]
    /\ \A j \in DOMAIN built.orders[t] : HoldsUnit(built, t, j)
    /\ \A i, j \in DOMAIN built.orders[t] : built.orders[t][i] = built.orders[t][j] => i = j

UnitsPlaced(built) ==
    /\ IsSeq(built.units) /\ DOMAIN built.orders = AllTargets
    /\ built.orders = [t \in AllTargets |-> built.orders[t]]
    /\ \A k \in DOMAIN built.units : IsGroup(built, k)
    /\ \A t \in AllTargets : IsOrder(built, t)

\* The next unit of a target joins a group that has none of this target.
LEMMA PlaceUnitKeeps ==
    ASSUME Selection, NEW built, UnitsPlaced(built), NEW t \in AllTargets,
           Len(built.orders[t]) + 1 \in DOMAIN selected[t]
    PROVE  LET n == Len(built.orders[t])
               after == PlaceUnit(built, t, selected[t][n + 1])
           IN  /\ UnitsPlaced(after) /\ Len(after.orders[t]) = n + 1
               /\ \A u \in AllTargets : u # t => after.orders[u] = built.orders[u]
<1> DEFINE n == Len(built.orders[t])
           unit == selected[t][n + 1]
           after == PlaceUnit(built, t, unit)
           m == Len(built.units)
<1>1. PICK index : PlacedAt(built, t, unit, index, after)
  BY PlaceUnitIs DEF UnitsPlaced
<1> HIDE DEF after, unit
<1>2. m \in Nat /\ DOMAIN built.units = 1 .. m /\ n \in Nat /\ DOMAIN built.orders[t] = 1 .. n
  BY SeqIs DEF UnitsPlaced, IsOrder
<1>3. /\ IsSeq(after.units) /\ index \in 1 .. m + 1
      /\ \A k \in 1 .. m : k # index => after.units[k] = built.units[k]
      /\ after.orders = [built.orders EXCEPT ![t] = Append(@, index)]
  BY <1>1, <1>2 DEF PlacedAt
<1>4. /\ DOMAIN after.units = 1 .. Len(after.units) /\ Len(after.units) \in Nat
      /\ index \in 1 .. Len(after.units) /\ m <= Len(after.units)
      /\ \A k \in 1 .. Len(after.units) : k \in 1 .. m \/ k = index
  <2>1. /\ DOMAIN after.units = 1 .. Len(after.units) /\ Len(after.units) \in Nat
    BY <1>3, SeqIs
  <2>2. \/ index = m + 1 /\ Len(after.units) = index
        \/ index \in 1 .. m /\ Len(after.units) = m
    BY <1>1, <1>2 DEF PlacedAt
  <2> QED BY <1>2, <2>1, <2>2
<1>5. /\ DOMAIN after.orders = AllTargets /\ after.orders[t] = Append(built.orders[t], index)
      /\ after.orders = [u \in AllTargets |-> after.orders[u]]
      /\ \A u \in AllTargets : u # t => after.orders[u] = built.orders[u]
  BY <1>3 DEF UnitsPlaced
<1>6. /\ IsSeq(after.orders[t]) /\ Len(after.orders[t]) = n + 1
      /\ DOMAIN after.orders[t] = 1 .. n + 1 /\ after.orders[t][n + 1] = index
      /\ \A j \in 1 .. n : after.orders[t][j] = built.orders[t][j]
  <2>1. IsSeq(built.orders[t]) BY DEF UnitsPlaced, IsOrder
  <2> QED BY <1>5, <2>1, AppendIs
<1> DEFINE U == after.units[index]
           V == built.units[index]
           Before == IF index \in 1 .. m THEN DOMAIN V.paths ELSE {}
<1>7. /\ U = [representative |-> U.representative, paths |-> U.paths,
              optimization |-> U.optimization, member |-> U.member]
      /\ U.representative.optimization = U.optimization /\ U.representative.member = U.member
      /\ U.optimization = unit.optimization /\ U.member = unit.member
      /\ DOMAIN U.paths = Before \cup {t} /\ U.paths[t] = <<unit>>
      /\ \A u \in Before : u # t /\ U.paths[u] = V.paths[u]
      /\ index \in 1 .. m => U.optimization = V.optimization /\ U.member = V.member
  <2>1. CASE index = m + 1
    <3>1. index \notin 1 .. m BY <1>2, <2>1
    <3>2. U = [representative |-> unit, paths |-> [u \in {t} |-> <<unit>>],
               optimization |-> unit.optimization, member |-> unit.member]
      BY <1>1, <1>2, <3>1 DEF PlacedAt
    <3>3. Before = {} BY <3>1
    <3>4. /\ U.representative = unit /\ U.paths = [u \in {t} |-> <<unit>>]
          /\ U.optimization = unit.optimization /\ U.member = unit.member
      BY <3>2
    <3> HIDE DEF U, Before
    <3> QED BY <3>1, <3>2, <3>3, <3>4
  <2>2. CASE index \in 1 .. m
    <3> DEFINE q == [u \in DOMAIN V.paths \cup {t} |-> IF u = t THEN <<unit>> ELSE V.paths[u]]
    <3>1. /\ Matches(V.representative, unit) /\ t \notin DOMAIN V.paths
          /\ U = [V EXCEPT !.paths = q]
      <4>1. index # m + 1 BY <1>2, <2>2
      <4> QED BY <1>1, <1>2, <4>1 DEF PlacedAt
    <3>2. /\ V = [representative |-> V.representative, paths |-> V.paths,
                  optimization |-> V.optimization, member |-> V.member]
          /\ V.representative.optimization = V.optimization
          /\ V.representative.member = V.member
      BY <1>2, <2>2 DEF UnitsPlaced, IsGroup
    <3>3. /\ U = [representative |-> V.representative, paths |-> q,
                  optimization |-> V.optimization, member |-> V.member]
      <4> HIDE DEF q, V, U
      <4> QED BY <3>1, <3>2
    <3>4. /\ U.representative = V.representative /\ U.paths = q
          /\ U.optimization = V.optimization /\ U.member = V.member
      <4> HIDE DEF q, V, U
      <4> QED BY <3>3
    <3>5. V.optimization = unit.optimization /\ V.member = unit.member
      BY <3>1, <3>2 DEF Matches
    <3>6. Before = DOMAIN V.paths BY <2>2
    <3>7. DOMAIN q = DOMAIN V.paths \cup {t} /\ q[t] = <<unit>>
          /\ \A u \in DOMAIN V.paths : u # t /\ q[u] = V.paths[u]
      BY <3>1
    <3> HIDE DEF q, V, U, Before
    <3> QED BY <3>2, <3>3, <3>4, <3>5, <3>6, <3>7
  <2> QED BY <1>2, <1>3, <2>1, <2>2
<1> HIDE DEF U, V
<1>8. ASSUME NEW k \in 1 .. m PROVE IsGroup(built, k)
  BY <1>2 DEF UnitsPlaced
<1>9. ASSUME NEW u \in AllTargets, NEW j \in DOMAIN built.orders[u]
      PROVE  j \in DOMAIN after.orders[u] /\ after.orders[u][j] = built.orders[u][j]
  <2>1. CASE u = t
    <3>1. j \in 1 .. n BY <1>2, <2>1
    <3> HIDE DEF n
    <3>2. j \in 1 .. n + 1 BY <1>2, <3>1
    <3> QED BY <1>6, <2>1, <3>1, <3>2
  <2>2. CASE u # t BY <1>5, <2>2
  <2> QED BY <2>1, <2>2
<1>10. ASSUME NEW k \in DOMAIN after.units PROVE IsGroup(after, k)
  <2>1. CASE k # index
    <3>1. k \in 1 .. m /\ after.units[k] = built.units[k] BY <1>3, <1>4, <2>1
    <3>2. IsGroup(built, k) BY <1>8, <3>1
    <3>3. \A u \in DOMAIN built.units[k].paths :
             \E j \in DOMAIN after.orders[u] : after.orders[u][j] = k
      BY <1>9, <3>2 DEF IsGroup
    <3> QED BY <3>1, <3>2, <3>3 DEF IsGroup
  <2>2. CASE k = index
    <3>1. (unit.member # NoMember) <=> (kind = "static") BY DEF Selection, unit
    <3>2. Before \subseteq AllTargets BY <1>8 DEF IsGroup, V
    <3>3. \A u \in Before : \E j \in DOMAIN built.orders[u] : built.orders[u][j] = k
      BY <1>8, <2>2 DEF IsGroup, V
    <3>4. \A u \in Before : \E j \in DOMAIN after.orders[u] : after.orders[u][j] = k
      <4> HIDE DEF Before
      <4> QED BY <1>9, <3>2, <3>3
    <3>5. n + 1 \in DOMAIN after.orders[t] /\ after.orders[t][n + 1] = k BY <1>2, <1>6, <2>2
    <3> HIDE DEF Before
    <3>6. after.units[k] = U BY <2>2 DEF U
    <3>7. \A u \in DOMAIN U.paths : \E j \in DOMAIN after.orders[u] : after.orders[u][j] = k
      BY <1>7, <3>4, <3>5
    <3> QED BY <1>7, <3>1, <3>2, <3>6, <3>7 DEF IsGroup
  <2> QED BY <2>1, <2>2
<1>11. ASSUME NEW u \in AllTargets, NEW j \in DOMAIN built.orders[u]
       PROVE  HoldsUnit(after, u, j) /\ (u = t => after.orders[u][j] # index)
  <2> DEFINE k == built.orders[u][j]
  <2>1. /\ k \in 1 .. m /\ u \in DOMAIN built.units[k].paths
        /\ built.units[k].paths[u] = <<selected[u][j]>>
        /\ built.units[k].optimization = selected[u][j].optimization
        /\ built.units[k].member = selected[u][j].member
    BY <1>2 DEF UnitsPlaced, IsOrder, HoldsUnit
  <2>2. after.orders[u][j] = k BY <1>9
  <2> HIDE DEF k
  <2>3. k \in DOMAIN after.units BY <1>2, <1>4, <2>1
  <2>4. CASE k = index
    <3>1. u \in Before BY <2>1, <2>4 DEF V
    <3> HIDE DEF Before
    <3>2. u # t /\ u \in DOMAIN U.paths /\ U.paths[u] = V.paths[u]
          /\ U.optimization = V.optimization /\ U.member = V.member
      BY <1>7, <2>1, <2>4, <3>1
    <3> QED BY <2>1, <2>2, <2>3, <2>4, <3>2 DEF HoldsUnit, U, V
  <2>5. CASE k # index
    BY <1>3, <2>1, <2>2, <2>3, <2>5 DEF HoldsUnit
  <2> QED BY <2>4, <2>5
<1>12. HoldsUnit(after, t, n + 1)
  <2> HIDE DEF Before
  <2> QED BY <1>4, <1>6, <1>7 DEF HoldsUnit, U, unit
<1>13. IsOrder(after, t)
  <2>1. 1 .. n + 1 \subseteq DOMAIN selected[t]
    <3>1. DOMAIN selected[t] = 1 .. Len(selected[t]) /\ Len(selected[t]) \in Nat
      BY SeqIs DEF Selection
    <3> QED BY <1>2, <3>1
  <2>2. \A j \in 1 .. n + 1 : j = n + 1 \/ j \in 1 .. n BY <1>2
  <2>3. \A j \in 1 .. n + 1 : HoldsUnit(after, t, j)
    BY <1>2, <1>11, <1>12, <2>2
  <2>4. \A i, j \in 1 .. n : built.orders[t][i] = built.orders[t][j] => i = j
    BY <1>2 DEF UnitsPlaced, IsOrder
  <2>5. \A j \in 1 .. n : after.orders[t][j] # index BY <1>2, <1>11
  <2>6. \A i, j \in 1 .. n + 1 : after.orders[t][i] = after.orders[t][j] => i = j
    BY <1>6, <2>2, <2>4, <2>5
  <2> QED BY <1>6, <2>1, <2>3, <2>6 DEF IsOrder
<1>14. ASSUME NEW u \in AllTargets, u # t PROVE IsOrder(after, u)
  <2>1. after.orders[u] = built.orders[u] BY <1>5, <1>14
  <2>2. IsOrder(built, u) BY DEF UnitsPlaced
  <2> QED BY <1>11, <2>1, <2>2 DEF IsOrder
<1>15. UnitsPlaced(after)
  BY <1>3, <1>5, <1>10, <1>13, <1>14 DEF UnitsPlaced
<1> QED BY <1>5, <1>6, <1>15 DEF after, unit

\* The units of a target are placed one after another.
LEMMA PlaceUnitsKeep ==
    ASSUME Selection, NEW built, UnitsPlaced(built), NEW t \in AllTargets,
           built.orders[t] = <<>>
    PROVE  LET after == PlaceUnits(built, t, selected[t])
           IN  /\ UnitsPlaced(after) /\ Len(after.orders[t]) = Len(selected[t])
               /\ \A u \in AllTargets : u # t => after.orders[u] = built.orders[u]
<1> DEFINE units == selected[t]
           L == Len(units)
           Defines(f, n) ==
              f = [j \in 0 .. n |-> IF j = 0 THEN built ELSE PlaceUnit(f[j - 1], t, units[j])]
           Good(x, n) ==
              /\ UnitsPlaced(x) /\ Len(x.orders[t]) = n
              /\ \A u \in AllTargets : u # t => x.orders[u] = built.orders[u]
           N == {n \in Nat : n <= L => \E f : Defines(f, n)}
           M(f) == {n \in Nat : n <= L => Good(f[n], n)}
<1>1. L \in Nat /\ DOMAIN units = 1 .. L
  BY SeqIs DEF Selection
<1> HIDE DEF L, units
<1>2. 0 \in N
  <2> DEFINE f == [j \in 0 .. 0 |-> built]
  <2>1. Defines(f, 0) OBVIOUS
  <2> QED BY <2>1
<1>3. ASSUME NEW n \in Nat, n \in N PROVE n + 1 \in N
  <2> SUFFICES ASSUME n + 1 <= L PROVE \E f : Defines(f, n + 1) OBVIOUS
  <2>1. PICK f : Defines(f, n) BY <1>1, <1>3
  <2> DEFINE g == [j \in 0 .. n + 1 |->
                      IF j = n + 1 THEN PlaceUnit(f[n], t, units[n + 1]) ELSE f[j]]
  <2>2. \A j \in 0 .. n : f[j] = IF j = 0 THEN built ELSE PlaceUnit(f[j - 1], t, units[j])
    BY <2>1, Zenon
  <2>3. \A j \in 0 .. n : g[j] = f[j] OBVIOUS
  <2>4. g[n + 1] = PlaceUnit(f[n], t, units[n + 1]) OBVIOUS
  <2>5. ASSUME NEW j \in 0 .. n + 1
        PROVE  g[j] = IF j = 0 THEN built ELSE PlaceUnit(g[j - 1], t, units[j])
    <3>1. CASE j = n + 1
      <4>1. g[j - 1] = f[n] /\ j # 0
        <5>1. j - 1 = n /\ n \in 0 .. n BY <3>1
        <5> QED BY <2>3, <3>1, <5>1
      <4> HIDE DEF g
      <4> QED BY <2>4, <3>1, <4>1
    <3>2. CASE j \in 0 .. n /\ j # 0
      <4>1. j - 1 \in 0 .. n BY <3>2
      <4>2. g[j - 1] = f[j - 1] /\ g[j] = f[j] BY <2>3, <3>2, <4>1
      <4> HIDE DEF g
      <4> QED BY <2>2, <3>2, <4>2
    <3>3. CASE j = 0
      <4>1. 0 \in 0 .. n OBVIOUS
      <4>2. g[0] = f[0] BY <2>3, <4>1
      <4> HIDE DEF g
      <4> QED BY <2>2, <3>3, <4>1, <4>2
    <3> QED BY <3>1, <3>2, <3>3
  <2>6. g = [j \in 0 .. n + 1 |-> g[j]] OBVIOUS
  <2> HIDE DEF g
  <2>7. Defines(g, n + 1) BY <2>5, <2>6
  <2> QED BY <2>7
<1>4. L \in N
  <2>1. Nat \subseteq N
    <3> HIDE DEF N
    <3> QED BY <1>2, <1>3, Numbers
  <2> QED BY <1>1, <2>1
<1> DEFINE f == CHOOSE f : Defines(f, L)
<1>5. Defines(f, L)
  <2>1. \E h : Defines(h, L) BY <1>1, <1>4
  <2> HIDE DEF Defines
  <2> QED BY <2>1
<1>6. PlaceUnits(built, t, selected[t]) = f[L]
  BY DEF PlaceUnits, units, L
<1> HIDE DEF f
<1>7. \A j \in 0 .. L : f[j] = IF j = 0 THEN built ELSE PlaceUnit(f[j - 1], t, units[j])
  BY <1>5, Zenon
<1>8. 0 \in M(f)
  <2>1. f[0] = built BY <1>1, <1>7
  <2>2. Good(built, 0) OBVIOUS
  <2> QED BY <2>1, <2>2
<1>9. ASSUME NEW n \in Nat, n \in M(f) PROVE n + 1 \in M(f)
  <2> SUFFICES ASSUME n + 1 <= L PROVE Good(f[n + 1], n + 1) OBVIOUS
  <2>1. Good(f[n], n) BY <1>1, <1>9
  <2>2. f[n + 1] = PlaceUnit(f[n], t, units[n + 1])
    <3>1. n + 1 \in 0 .. L /\ n + 1 # 0 /\ (n + 1) - 1 = n BY <1>1
    <3> QED BY <1>7, <3>1
  <2>3. Len(f[n].orders[t]) = n /\ n + 1 \in DOMAIN selected[t] /\ UnitsPlaced(f[n])
    BY <1>1, <2>1 DEF units
  <2> DEFINE x == f[n]
             y == PlaceUnit(x, t, selected[t][n + 1])
  <2>4. /\ UnitsPlaced(x) /\ Len(x.orders[t]) + 1 \in DOMAIN selected[t] /\ Len(x.orders[t]) = n
    BY <2>3
  <2> HIDE DEF x
  <2>5. /\ UnitsPlaced(y) /\ Len(y.orders[t]) = n + 1
        /\ \A u \in AllTargets : u # t => y.orders[u] = x.orders[u]
    BY <2>4, PlaceUnitKeeps
  <2>6. f[n + 1] = y BY <2>2 DEF x, units
  <2> HIDE DEF y
  <2> QED BY <2>1, <2>5, <2>6 DEF x
<1>10. L \in M(f)
  <2>1. Nat \subseteq M(f)
    <3> DEFINE T == M(f)
    <3>1. 0 \in T /\ \A n \in Nat : n \in T => n + 1 \in T BY <1>8, <1>9
    <3> HIDE DEF T
    <3>2. Nat \subseteq T BY <3>1, Numbers
    <3> QED BY <3>2 DEF T
  <2> QED BY <1>1, <2>1
<1>11. Good(f[L], L) BY <1>1, <1>10
<1> QED BY <1>6, <1>11 DEF L, units

\* So are the targets.
LEMMA ScopedBuildPlaces ==
    ASSUME Selection
    PROVE  /\ UnitsPlaced(ScopedBuild)
           /\ \A t \in AllTargets : Len(ScopedBuild.orders[t]) = Len(selected[t])
<1> DEFINE L == Len(Targets)
           Start == [units |-> <<>>, orders |-> [t \in AllTargets |-> <<>>]]
           Defines(f, n) ==
              f = [j \in 0 .. n |->
                      IF j = 0 THEN Start
                      ELSE PlaceUnits(f[j - 1], Targets[j], selected[Targets[j]])]
           Good(x, n) ==
              /\ UnitsPlaced(x)
              /\ \A i \in 1 .. L :
                    IF i <= n THEN Len(x.orders[Targets[i]]) = Len(selected[Targets[i]])
                    ELSE x.orders[Targets[i]] = <<>>
           N == {n \in Nat : n <= L => \E f : Defines(f, n)}
           M(f) == {n \in Nat : n <= L => Good(f[n], n)}
<1>1. /\ L \in Nat /\ DOMAIN Targets = 1 .. L /\ AllTargets = {Targets[i] : i \in 1 .. L}
      /\ \A i, j \in 1 .. L : Targets[i] = Targets[j] => i = j
  BY TargetsAssumption DEF AllTargets, ToSet
<1>0. Good(Start, 0)
  <2>1. /\ Start.units = <<>> /\ Start.orders = [t \in AllTargets |-> <<>>] OBVIOUS
  <2> HIDE DEF Start, L
  <2>2. /\ IsSeq(<<>>) /\ DOMAIN <<>> = {} BY DEF IsSeq
  <2>3. \A t \in AllTargets : Start.orders[t] = <<>> BY <2>1
  <2>4. \A t \in AllTargets : IsOrder(Start, t) BY <2>2, <2>3 DEF IsOrder
  <2>5. UnitsPlaced(Start) BY <2>1, <2>2, <2>4 DEF UnitsPlaced
  <2>6. \A i \in 1 .. L : Targets[i] \in AllTargets /\ ~ (i <= 0) BY <1>1
  <2> QED BY <2>3, <2>5, <2>6
<1> HIDE DEF Start
<1> HIDE DEF L
<1>2. 0 \in N
  <2> DEFINE f == [j \in 0 .. 0 |-> Start]
  <2>1. Defines(f, 0) OBVIOUS
  <2> QED BY <2>1
<1>3. ASSUME NEW n \in Nat, n \in N PROVE n + 1 \in N
  <2> SUFFICES ASSUME n + 1 <= L PROVE \E f : Defines(f, n + 1) OBVIOUS
  <2>1. PICK f : Defines(f, n) BY <1>1, <1>3
  <2> DEFINE g == [j \in 0 .. n + 1 |-> IF j = n + 1 THEN PlaceUnits(f[n], Targets[n + 1], selected[Targets[n + 1]]) ELSE f[j]]
  <2>2. \A j \in 0 .. n : f[j] = IF j = 0 THEN Start ELSE PlaceUnits(f[j - 1], Targets[j], selected[Targets[j]])
    BY <2>1, Zenon
  <2>3. \A j \in 0 .. n : g[j] = f[j] OBVIOUS
  <2>4. g[n + 1] = PlaceUnits(f[n], Targets[n + 1], selected[Targets[n + 1]]) OBVIOUS
  <2>5. ASSUME NEW j \in 0 .. n + 1
        PROVE  g[j] = IF j = 0 THEN Start ELSE PlaceUnits(g[j - 1], Targets[j], selected[Targets[j]])
    <3>1. CASE j = n + 1
      <4>1. g[j - 1] = f[n] /\ j # 0
        <5>1. j - 1 = n /\ n \in 0 .. n BY <3>1
        <5> QED BY <2>3, <3>1, <5>1
      <4> HIDE DEF g
      <4> QED BY <2>4, <3>1, <4>1
    <3>2. CASE j \in 0 .. n /\ j # 0
      <4>1. j - 1 \in 0 .. n BY <3>2
      <4>2. g[j - 1] = f[j - 1] /\ g[j] = f[j] BY <2>3, <3>2, <4>1
      <4> HIDE DEF g
      <4> QED BY <2>2, <3>2, <4>2
    <3>3. CASE j = 0
      <4>1. 0 \in 0 .. n OBVIOUS
      <4>2. g[0] = f[0] BY <2>3, <4>1
      <4> HIDE DEF g
      <4> QED BY <2>2, <3>3, <4>1, <4>2
    <3> QED BY <3>1, <3>2, <3>3
  <2>6. g = [j \in 0 .. n + 1 |-> g[j]] OBVIOUS
  <2> HIDE DEF g
  <2>7. Defines(g, n + 1) BY <2>5, <2>6
  <2> QED BY <2>7
<1>4. L \in N
  <2>1. Nat \subseteq N
    <3> HIDE DEF N
    <3> QED BY <1>2, <1>3, Numbers
  <2> QED BY <1>1, <2>1
<1> DEFINE f == CHOOSE f : Defines(f, L)
<1>5. Defines(f, L)
  <2>1. \E h : Defines(h, L) BY <1>1, <1>4
  <2> HIDE DEF Defines
  <2> QED BY <2>1
<1>6. ScopedBuild = f[L]
  BY DEF ScopedBuild, Start, L
<1> HIDE DEF f
<1>7. \A j \in 0 .. L : f[j] = IF j = 0 THEN Start
                               ELSE PlaceUnits(f[j - 1], Targets[j], selected[Targets[j]])
  BY <1>5, Zenon
<1>8. 0 \in M(f)
  <2>1. f[0] = Start BY <1>1, <1>7
  <2> QED BY <1>0, <2>1
<1>9. ASSUME NEW n \in Nat, n \in M(f) PROVE n + 1 \in M(f)
  <2> SUFFICES ASSUME n + 1 <= L PROVE Good(f[n + 1], n + 1) OBVIOUS
  <2> DEFINE t == Targets[n + 1]
             x == f[n]
             y == PlaceUnits(x, t, selected[t])
  <2>1. Good(x, n) BY <1>1, <1>9
  <2>2. f[n + 1] = y
    <3>1. n + 1 \in 0 .. L /\ n + 1 # 0 /\ (n + 1) - 1 = n BY <1>1
    <3> QED BY <1>7, <3>1
  <2>3. n + 1 \in 1 .. L /\ ~ (n + 1 <= n) BY <1>1
  <2>4. t \in AllTargets BY <1>1, <2>3
  <2> HIDE DEF x
  <2>5. UnitsPlaced(x) /\ x.orders[t] = <<>> BY <2>1, <2>3
  <2>6. /\ UnitsPlaced(y) /\ Len(y.orders[t]) = Len(selected[t])
        /\ \A u \in AllTargets : u # t => y.orders[u] = x.orders[u]
    BY <2>4, <2>5, PlaceUnitsKeep
  <2> HIDE DEF y
  <2>7. ASSUME NEW i \in 1 .. L
        PROVE  IF i <= n + 1 THEN Len(y.orders[Targets[i]]) = Len(selected[Targets[i]])
               ELSE y.orders[Targets[i]] = <<>>
    <3>1. CASE i = n + 1 BY <2>6, <3>1
    <3>2. CASE i # n + 1
      <4>1. Targets[i] # t /\ Targets[i] \in AllTargets BY <1>1, <2>3, <3>2
      <4>2. y.orders[Targets[i]] = x.orders[Targets[i]] BY <2>6, <4>1
      <4>3. (i <= n + 1) <=> (i <= n) BY <1>1, <3>2
      <4> QED BY <2>1, <4>2, <4>3
    <3> QED BY <3>1, <3>2
  <2>8. Good(y, n + 1) BY <2>6, <2>7
  <2> QED BY <2>2, <2>8
<1>10. L \in M(f)
  <2>1. Nat \subseteq M(f)
    <3> DEFINE T == M(f)
    <3>1. 0 \in T /\ \A n \in Nat : n \in T => n + 1 \in T BY <1>8, <1>9
    <3> HIDE DEF T
    <3>2. Nat \subseteq T BY <3>1, Numbers
    <3> QED BY <3>2 DEF T
  <2> QED BY <1>1, <2>1
<1>11. Good(f[L], L) BY <1>1, <1>10
<1>12. \A i \in 1 .. L : i <= L BY <1>1
<1>13. \A i \in 1 .. L : Len(f[L].orders[Targets[i]]) = Len(selected[Targets[i]])
  BY <1>11, <1>12
<1> QED BY <1>1, <1>6, <1>11, <1>13

\* Scoped units are the units of every target, in the order of its own link.
LEMMA ScopedSound ==
    ASSUME Selection, \A t \in AllTargets : selected[t] # <<>>, captured = ScopedBuild
    PROVE  UnitsCaptured /\ UnitsPaired
<1>1. /\ UnitsPlaced(captured)
      /\ \A t \in AllTargets : Len(captured.orders[t]) = Len(selected[t])
  BY ScopedBuildPlaces
<1>2. /\ IsSeq(captured.units) /\ DOMAIN captured.orders = AllTargets
      /\ \A k \in DOMAIN captured.units : IsGroup(captured, k)
      /\ \A t \in AllTargets : IsOrder(captured, t)
  BY <1>1 DEF UnitsPlaced
<1>3. ASSUME NEW t \in AllTargets
      PROVE  /\ IsSeq(selected[t]) /\ selected[t] # <<>>
             /\ DOMAIN captured.orders[t] = DOMAIN selected[t]
             /\ \A j \in DOMAIN selected[t] : HoldsUnit(captured, t, j)
  <2>1. IsOrder(captured, t) BY <1>2
  <2>2. IsSeq(captured.orders[t]) /\ IsSeq(selected[t]) BY <2>1 DEF IsOrder, Selection
  <2>3. DOMAIN captured.orders[t] = DOMAIN selected[t] BY <1>1, <2>2, SeqIs
  <2> QED BY <2>1, <2>2, <2>3 DEF IsOrder
<1>4. ASSUME NEW k \in DOMAIN captured.units, NEW t \in DOMAIN captured.units[k].paths
      PROVE  /\ t \in AllTargets
             /\ \E j \in DOMAIN selected[t] : /\ captured.orders[t][j] = k
                                              /\ captured.units[k].paths[t] = <<selected[t][j]>>
  <2>1. /\ t \in AllTargets
        /\ \E j \in DOMAIN captured.orders[t] : captured.orders[t][j] = k
    <3>1. IsGroup(captured, k) BY <1>2
    <3> QED BY <3>1, Zenon DEF IsGroup
  <2>2. PICK j \in DOMAIN selected[t] : captured.orders[t][j] = k BY <1>3, <2>1
  <2>3. HoldsUnit(captured, t, j) BY <1>3, <2>1
  <2> QED BY <2>1, <2>2, <2>3 DEF HoldsUnit
<1>5. ASSUME NEW k \in DOMAIN captured.units, NEW t \in DOMAIN captured.units[k].paths
      PROVE  /\ IsSeq(captured.units[k].paths[t]) /\ captured.units[k].paths[t] # <<>>
             /\ Len(captured.units[k].paths[t]) = 1
             /\ DOMAIN captured.units[k].paths[t] = 1 .. 1
             /\ \A i \in DOMAIN captured.units[k].paths[t] :
                   IsSeq(captured.units[k].paths[t][i].definitions)
  <2>1. PICK j \in DOMAIN selected[t] : captured.units[k].paths[t] = <<selected[t][j]>>
    BY <1>4
  <2> DEFINE x == selected[t][j]
  <2>2. IsSeq(x.definitions) /\ captured.units[k].paths[t] = <<x>> BY <1>4, <2>1 DEF Selection
  <2> HIDE DEF x
  <2>3. /\ IsSeq(<<x>>) /\ <<x>> # <<>> /\ Len(<<x>>) = 1 /\ DOMAIN <<x>> = 1 .. 1
        /\ \A i \in DOMAIN <<x>> : <<x>>[i] = x
    BY DEF IsSeq, ToSet
  <2> QED BY <2>2, <2>3
<1>6. UnitsCaptured
  <2>1. captured.units # <<>>
    <3>1. PICK t \in AllTargets : TRUE BY FirstTarget
    <3>2. DOMAIN selected[t] # {}
      <4> DEFINE q == selected[t]
      <4>1. q \in Seq(ToSet(q)) /\ q # <<>> BY <1>3 DEF IsSeq
      <4> HIDE DEF q
      <4>2. Len(q) \in Nat \ {0} /\ DOMAIN q = 1 .. Len(q) BY <4>1, EmptySeq
      <4>3. 1 \in DOMAIN q BY <4>2
      <4> QED BY <4>3 DEF q
    <3>3. PICK j \in DOMAIN selected[t] : TRUE BY <3>2
    <3>4. captured.orders[t][j] \in DOMAIN captured.units BY <1>3 DEF HoldsUnit
    <3>5. DOMAIN <<>> = {} OBVIOUS
    <3> QED BY <3>4, <3>5
  <2>2. ASSUME NEW k \in DOMAIN captured.units
        PROVE  /\ DOMAIN captured.units[k].paths # {}
               /\ DOMAIN captured.units[k].paths \subseteq AllTargets
               /\ (captured.units[k].member # NoMember) <=> (kind = "static")
    <3>1. IsGroup(captured, k) BY <1>2
    <3> QED BY <3>1, Zenon DEF IsGroup
  <2> QED BY <1>2, <1>5, <2>1, <2>2 DEF UnitsCaptured
<1>7. ~ OrderInactive
  <2> SUFFICES ASSUME NEW t \in DOMAIN captured.orders, NEW k \in ToSet(captured.orders[t])
               PROVE  t \in DOMAIN captured.units[k].paths
    BY DEF OrderInactive
  <2>1. PICK j \in DOMAIN captured.orders[t] : captured.orders[t][j] = k BY DEF ToSet
  <2>2. HoldsUnit(captured, t, j) BY <1>2, <1>3
  <2> QED BY <2>1, <2>2 DEF HoldsUnit
<1>8. ASSUME NEW t \in AllTargets
      PROVE  /\ TargetOrder(t) \in Seq(Nat)
             /\ Len(TargetOrder(t)) = Len(PlannedUnits(t))
             /\ ToSet(TargetOrder(t)) = DOMAIN PlannedUnits(t)
             /\ Native(t) = [i \in DOMAIN TargetOrder(t) |->
                                PlannedUnits(t)[TargetOrder(t)[i]]]
  <2>1. Single(t) BY <1>5 DEF Single, Holding
  <2>2. ASSUME NEW i \in DOMAIN selected[t]
        PROVE  /\ captured.orders[t][i] \in Holding(t)
               /\ PlannedUnit(captured.orders[t][i], t, 1) = NativeUnit(selected[t][i])
    <3> DEFINE k == captured.orders[t][i]
               x == selected[t][i]
    <3>1. /\ k \in DOMAIN captured.units /\ t \in DOMAIN captured.units[k].paths
          /\ captured.units[k].paths[t] = <<x>>
          /\ captured.units[k].optimization = x.optimization
          /\ captured.units[k].member = x.member
      BY <1>3 DEF HoldsUnit
    <3> HIDE DEF k, x
    <3>2. captured.units[k].paths[t][1] = x BY <3>1
    <3>3. PlannedUnit(k, t, 1) = NativeUnit(x) BY <3>1, <3>2 DEF PlannedUnit, NativeUnit
    <3> QED BY <3>1, <3>3 DEF k, x, Holding
  <2>3. \A i, j \in DOMAIN selected[t] : captured.orders[t][i] = captured.orders[t][j] => i = j
    <3>1. IsOrder(captured, t) BY <1>2
    <3> QED BY <1>3, <3>1 DEF IsOrder
  <2>4. \A k \in Holding(t) : \E i \in DOMAIN selected[t] : captured.orders[t][i] = k
    BY <1>4 DEF Holding
  <2> QED BY <1>2, <1>3, <2>1, <2>2, <2>3, <2>4, OrderRestores
<1>9. UnitsPaired
  BY <1>2, <1>7, <1>8 DEF UnitsPaired
<1> QED BY <1>6, <1>9

=============================================================================
