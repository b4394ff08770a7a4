--------------------------- MODULE SequenceLemmas ---------------------------
(***************************************************************************)
(* What the operators on sequences return that the package, its linker and *)
(* publication are built from: FlattenSeq, SelectInSeq and the length of a *)
(* sequence against the number of its elements, for sequences of every     *)
(* length.  Induction is the least element of a set of numbers (Least):    *)
(* the library's theorem on well-founded relations, on the numbers a       *)
(* statement fails for.                                                    *)
(***************************************************************************)
EXTENDS Integers, Sequences, FiniteSets, SequencesExt, FiniteSetTheorems,
        SequenceTheorems, WellFoundedInduction, TLAPS

-----------------------------------------------------------------------------
(* Least elements. *)

\* A set of numbers that is not empty has a least element.
LEMMA Least ==
    ASSUME NEW T, T \subseteq Nat, T # {}
    PROVE  \E x \in T : \A y \in T : x <= y
<1> DEFINE R == OpToRel(<, Nat)
<1>1. IsWellFoundedOn(R, Nat)
  BY NatLessThanWellFounded
<1>2. \E x \in T : \A y \in T : ~ (<<y, x>> \in R)
  <2> HIDE DEF R
  <2> QED BY <1>1, WFMin
<1>3. PICK x \in T : \A y \in T : ~ (<<y, x>> \in R)
  BY <1>2
<1>4. ASSUME NEW y \in T PROVE x <= y
  <2>1. ~ (y < x) BY <1>3 DEF OpToRel
  <2> QED BY <2>1
<1> QED BY <1>4

\* Induction on a set of numbers: a set that holds 0 and with every number its
\* successor holds them all.
LEMMA Numbers ==
    ASSUME NEW T, 0 \in T, \A n \in Nat : n \in T => n + 1 \in T
    PROVE  Nat \subseteq T
<1> SUFFICES ASSUME Nat \ T # {} PROVE FALSE
  OBVIOUS
<1>1. PICK x \in Nat \ T : \A y \in Nat \ T : x <= y
  BY Least
<1>2. x # 0 /\ x - 1 \in Nat
  BY <1>1
<1>3. x - 1 \in T
  BY <1>1, <1>2
<1> QED BY <1>1, <1>2, <1>3

\* Min is what its name says.
LEMMA MinIs ==
    ASSUME NEW S, S \subseteq Nat, S # {}
    PROVE  Min(S) \in S /\ \A y \in S : Min(S) <= y
<1>1. \E x \in S : \A y \in S : x <= y BY Least
<1> QED BY <1>1, Zenon DEF Min

\* SelectInSeq finds an element the sequence has.
LEMMA Found ==
    ASSUME NEW s, Len(s) \in Nat, NEW e, \E j \in 1 .. Len(s) : s[j] = e
    PROVE  LET p == SelectInSeq(s, LAMBDA a : a = e)
           IN  p \in 1 .. Len(s) /\ s[p] = e
<1> DEFINE I == {j \in 1 .. Len(s) : s[j] = e}
<1>1. I # {} /\ I \subseteq Nat OBVIOUS
<1>2. SelectInSeq(s, LAMBDA a : a = e) = Min(I) BY <1>1 DEF SelectInSeq
<1>3. Min(I) \in I BY <1>1, MinIs
<1> QED BY <1>2, <1>3

Steps(n, X) == [1 .. n -> [X -> X]]
Iteration(n, X, b, G) ==
    {f \in [0 .. n -> X] : f[0] = b /\ \A k \in 1 .. n : f[k] = G[k][f[k - 1]]}

\* There is an iteration: n steps from b, each one given by its number and the value before.
LEMMA Iterates ==
    ASSUME NEW X, NEW b \in X, NEW n \in Nat, NEW G \in Steps(n, X)
    PROVE  Iteration(n, X, b, G) # {}
<1> USE DEF Steps, Iteration
<1> DEFINE Stepwise(f, m) == f[0] = b /\ \A k \in 1 .. m : f[k] = G[k][f[k - 1]]
           T == {m \in Nat : m <= n => \E f \in [0 .. m -> X] : Stepwise(f, m)}
<1>1. 0 \in T
  <2> DEFINE f == [k \in 0 .. 0 |-> b]
  <2>1. f \in [0 .. 0 -> X] /\ f[0] = b /\ 1 .. 0 = {} OBVIOUS
  <2> HIDE DEF f
  <2> QED BY <2>1
<1>2. ASSUME NEW m \in Nat, m \in T PROVE m + 1 \in T
  <2> SUFFICES ASSUME m + 1 <= n PROVE \E g \in [0 .. m + 1 -> X] : Stepwise(g, m + 1)
    OBVIOUS
  <2>1. PICK f \in [0 .. m -> X] : Stepwise(f, m) BY <1>2
  <2> DEFINE g == [k \in 0 .. m + 1 |-> IF k = m + 1 THEN G[m + 1][f[m]] ELSE f[k]]
  <2>2. f[m] \in X /\ m + 1 \in 1 .. n OBVIOUS
  <2>3. G[m + 1][f[m]] \in X
    <3>1. G[m + 1] \in [X -> X] BY <2>2
    <3> QED BY <2>2, <3>1
  <2>4. g \in [0 .. m + 1 -> X] BY <2>3
  <2>5. \A k \in 0 .. m : g[k] = f[k] OBVIOUS
  <2>6. g[m + 1] = G[m + 1][f[m]] OBVIOUS
  <2> HIDE DEF g
  <2>7. ASSUME NEW k \in 1 .. m + 1 PROVE g[k] = G[k][g[k - 1]]
    <3>1. CASE k = m + 1
      <4>1. k - 1 = m /\ m \in 0 .. m BY <3>1
      <4>2. g[k - 1] = f[m] BY <2>5, <4>1
      <4> QED BY <2>6, <3>1, <4>2
    <3>2. CASE k # m + 1
      <4>1. k \in 1 .. m /\ k \in 0 .. m /\ k - 1 \in 0 .. m BY <3>2
      <4>2. g[k] = f[k] /\ g[k - 1] = f[k - 1] BY <2>5, <4>1
      <4> QED BY <2>1, <4>1, <4>2
    <3> QED BY <3>1, <3>2
  <2>8. g[0] = b
    <3>1. 0 \in 0 .. m OBVIOUS
    <3> QED BY <2>1, <2>5, <3>1
  <2> QED BY <2>4, <2>7, <2>8
<1>3. Nat \subseteq T
  <2> HIDE DEF T
  <2> QED BY <1>1, <1>2, Numbers
<1> QED BY <1>3

-----------------------------------------------------------------------------
(* FlattenSeq. *)

\* The recursive function FlattenSeq is defined with exists: its value for a
\* prefix is the value for the prefix before, followed by the next part.
LEMMA FlattenFunction ==
    ASSUME NEW A, NEW s \in Seq(Seq(A)), s # <<>>
    PROVE  \E f \in [1 .. Len(s) -> Seq(A)] :
              /\ f[1] = s[1]
              /\ \A i \in 2 .. Len(s) : f[i] = f[i - 1] \o s[i]
              /\ FlattenSeq(s) = f[Len(s)]
<1> DEFINE Defines(f, n) ==
             f = [i \in 1 .. n |-> IF i = 1 THEN s[i] ELSE f[i - 1] \o s[i]]
           N == {n \in Nat : n \in 1 .. Len(s) => \E f : Defines(f, n)}
<1> HIDE DEF Defines
<1>0. Len(s) \in Nat /\ Len(s) > 0
  OBVIOUS
<1>1. 0 \in N
  OBVIOUS
<1>2. ASSUME NEW n \in Nat, n \in N PROVE n + 1 \in N
  <2> DEFINE m == n + 1
  <2> SUFFICES ASSUME m \in 1 .. Len(s) PROVE \E f : Defines(f, m)
    OBVIOUS
  <2>1. CASE n = 0
    <3>1. m = 1 BY <2>1
    <3>2. Defines([i \in 1 .. 1 |-> s[i]], 1) BY DEF Defines
    <3> HIDE DEF m
    <3> QED BY <3>1, <3>2
  <2>2. CASE n # 0
    <3>1. PICK f : Defines(f, n) BY <1>0, <1>2, <2>2
    <3> DEFINE g == [i \in 1 .. m |-> IF i = m THEN f[n] \o s[m] ELSE f[i]]
    <3>2. ASSUME NEW i \in 1 .. m
          PROVE  g[i] = IF i = 1 THEN s[i] ELSE g[i - 1] \o s[i]
      <4>1. CASE i = m
        <5>1. i # 1 /\ i - 1 = n /\ n \in 1 .. m /\ n # m BY <2>2, <4>1
        <5>2. g[i] = f[n] \o s[m] /\ g[n] = f[n] BY <5>1, <4>1
        <5> QED BY <4>1, <5>1, <5>2
      <4>2. CASE i # m
        <5>1. i \in 1 .. n /\ g[i] = f[i] BY <4>2
        <5>2. f[i] = IF i = 1 THEN s[i] ELSE f[i - 1] \o s[i] BY <3>1, <5>1 DEF Defines
        <5>3. i # 1 => i - 1 \in 1 .. m /\ i - 1 # m BY <5>1
        <5> QED BY <5>1, <5>2, <5>3
      <4> QED BY <4>1, <4>2
    <3>3. Defines(g, m) BY <3>2 DEF Defines
    <3> QED BY <3>3
  <2> QED BY <2>1, <2>2
<1>3. Nat \subseteq N
  <2> HIDE DEF N
  <2> QED BY <1>1, <1>2, Numbers
<1>4. \E f : Defines(f, Len(s))
  BY <1>0, <1>3
<1>5. \E f : /\ f = [i \in 1 .. Len(s) |-> f[i]]
             /\ f[1] = s[1]
             /\ \A i \in 2 .. Len(s) : f[i] = f[i - 1] \o s[i]
             /\ FlattenSeq(s) = f[Len(s)]
  <2> DEFINE f == CHOOSE h : Defines(h, Len(s))
  <2>1. FlattenSeq(s) = f[Len(s)] BY <1>0 DEF FlattenSeq, Defines
  <2> HIDE DEF f
  <2>2. Defines(f, Len(s)) BY <1>4 DEF f
  <2>3. f = [i \in 1 .. Len(s) |-> IF i = 1 THEN s[i] ELSE f[i - 1] \o s[i]]
    BY <2>2 DEF Defines
  <2>4. ASSUME NEW i \in 1 .. Len(s)
        PROVE  f[i] = IF i = 1 THEN s[i] ELSE f[i - 1] \o s[i]
    BY <2>3
  <2>5. f[1] = s[1]
    <3>1. 1 \in 1 .. Len(s) BY <1>0
    <3>2. f[1] = IF 1 = 1 THEN s[1] ELSE f[1 - 1] \o s[1] BY <2>4, <3>1, Zenon
    <3> QED BY <3>2
  <2>6. ASSUME NEW i \in 2 .. Len(s) PROVE f[i] = f[i - 1] \o s[i]
    <3>1. i \in 1 .. Len(s) /\ i # 1 BY <1>0
    <3> QED BY <2>4, <3>1, Zenon
  <2>7. f = [i \in 1 .. Len(s) |-> f[i]] BY <2>3
  <2> QED BY <2>1, <2>5, <2>6, <2>7
<1>6. PICK f : /\ f = [i \in 1 .. Len(s) |-> f[i]]
               /\ f[1] = s[1]
               /\ \A i \in 2 .. Len(s) : f[i] = f[i - 1] \o s[i]
               /\ FlattenSeq(s) = f[Len(s)]
  BY <1>5
<1> DEFINE M == {n \in Nat : n \in 1 .. Len(s) => f[n] \in Seq(A)}
<1>7. 0 \in M
  OBVIOUS
<1>8. ASSUME NEW n \in Nat, n \in M PROVE n + 1 \in M
  <2> SUFFICES ASSUME n + 1 \in 1 .. Len(s) PROVE f[n + 1] \in Seq(A)
    OBVIOUS
  <2>1. s[n + 1] \in Seq(A) BY <1>0
  <2>2. CASE n = 0
    <3> QED BY <2>1, <2>2, <1>6
  <2>3. CASE n # 0
    <3>1. f[n] \in Seq(A) BY <1>0, <1>8, <2>3
    <3>2. n + 1 \in 2 .. Len(s) /\ (n + 1) - 1 = n BY <1>0, <2>3
    <3>3. f[n + 1] = f[(n + 1) - 1] \o s[n + 1] BY <1>6, <3>2, Zenon
    <3> QED BY <2>1, <3>1, <3>2, <3>3
  <2> QED BY <2>2, <2>3
<1>9. Nat \subseteq M
  <2> HIDE DEF M
  <2> QED BY <1>7, <1>8, Numbers
<1>10. f \in [1 .. Len(s) -> Seq(A)]
  <2>1. \A i \in 1 .. Len(s) : f[i] \in Seq(A) BY <1>0, <1>9
  <2> QED BY <2>1, <1>6
<1> QED BY <1>6, <1>10

\* The flattened parts are a sequence of the elements of the parts.
LEMMA FlattenTyped ==
    ASSUME NEW A, NEW s \in Seq(Seq(A))
    PROVE  FlattenSeq(s) \in Seq(A)
<1>1. CASE s = <<>>
  BY <1>1 DEF FlattenSeq
<1>2. CASE s # <<>>
  <2>1. Len(s) \in 1 .. Len(s) BY <1>2
  <2>2. PICK f \in [1 .. Len(s) -> Seq(A)] : FlattenSeq(s) = f[Len(s)]
    BY <1>2, FlattenFunction
  <2> QED BY <2>1, <2>2
<1> QED BY <1>1, <1>2

\* One more part is added at the end.
LEMMA FlattenAppend ==
    ASSUME NEW A, NEW s \in Seq(Seq(A)), NEW e \in Seq(A)
    PROVE  FlattenSeq(Append(s, e)) = FlattenSeq(s) \o e
<1> DEFINE r == Append(s, e)
<1>1. /\ r \in Seq(Seq(A)) /\ r # <<>> /\ Len(r) = Len(s) + 1
      /\ r[Len(s) + 1] = e /\ \A i \in 1 .. Len(s) : r[i] = s[i]
      /\ Len(s) \in Nat
  BY AppendProperties, Z3
<1> HIDE DEF r
<1>2. PICK g \in [1 .. Len(r) -> Seq(A)] :
          /\ g[1] = r[1]
          /\ \A i \in 2 .. Len(r) : g[i] = g[i - 1] \o r[i]
          /\ FlattenSeq(r) = g[Len(r)]
  BY <1>1, FlattenFunction
<1>3. CASE s = <<>>
  <2>1. FlattenSeq(s) = <<>> BY <1>3 DEF FlattenSeq
  <2>2. FlattenSeq(r) = e BY <1>1, <1>2, <1>3
  <2> QED BY <2>1, <2>2 DEF r
<1>4. CASE s # <<>>
  <2>1. PICK f \in [1 .. Len(s) -> Seq(A)] :
            /\ f[1] = s[1]
            /\ \A i \in 2 .. Len(s) : f[i] = f[i - 1] \o s[i]
            /\ FlattenSeq(s) = f[Len(s)]
    BY <1>4, FlattenFunction
  <2> DEFINE N == {n \in Nat : n \in 1 .. Len(s) => f[n] = g[n]}
  <2>2. 0 \in N OBVIOUS
  <2>3. ASSUME NEW n \in Nat, n \in N PROVE n + 1 \in N
    <3> SUFFICES ASSUME n + 1 \in 1 .. Len(s) PROVE f[n + 1] = g[n + 1]
      OBVIOUS
    <3>1. r[n + 1] = s[n + 1] BY <1>1
    <3>2. CASE n = 0 BY <1>1, <1>2, <2>1, <3>1, <3>2
    <3>3. CASE n # 0
      <4>1. /\ n + 1 \in 2 .. Len(s) /\ n + 1 \in 2 .. Len(r) /\ (n + 1) - 1 = n
            /\ n \in 1 .. Len(s)
        BY <1>1, <3>3
      <4>2. f[n + 1] = f[(n + 1) - 1] \o s[n + 1] BY <2>1, <4>1, Zenon
      <4>3. g[n + 1] = g[(n + 1) - 1] \o r[n + 1] BY <1>2, <4>1, Zenon
      <4>4. f[n] = g[n] BY <2>3, <4>1
      <4> QED BY <3>1, <4>1, <4>2, <4>3, <4>4
    <3> QED BY <3>2, <3>3
  <2>4. Nat \subseteq N
    <3> HIDE DEF N
    <3> QED BY <2>2, <2>3, Numbers
  <2>5. Len(s) \in 1 .. Len(s) /\ Len(s) + 1 \in 2 .. Len(r) /\ (Len(s) + 1) - 1 = Len(s)
    BY <1>1, <1>4
  <2>6. f[Len(s)] = g[Len(s)] BY <1>1, <2>4, <2>5
  <2>7. g[Len(s) + 1] = g[(Len(s) + 1) - 1] \o r[Len(s) + 1] BY <1>2, <2>5, Zenon
  <2> QED BY <1>1, <1>2, <2>1, <2>5, <2>6, <2>7 DEF r
<1> QED BY <1>3, <1>4

\* The form a state invariant has it in: the parts of a prefix, one more of them.
LEMMA FlattenNext ==
    ASSUME NEW A, NEW s, NEW n \in Nat, \A k \in 1 .. n + 1 : s[k] \in Seq(A)
    PROVE  FlattenSeq([k \in 1 .. n + 1 |-> s[k]])
             = FlattenSeq([k \in 1 .. n |-> s[k]]) \o s[n + 1]
<1> DEFINE p == [k \in 1 .. n |-> s[k]]
<1>1. p \in Seq(Seq(A)) /\ Len(p) = n /\ s[n + 1] \in Seq(A)
  OBVIOUS
<1>2. [k \in 1 .. n + 1 |-> s[k]] = Append(p, s[n + 1])
  BY <1>1
<1> HIDE DEF p
<1>3. FlattenSeq(Append(p, s[n + 1])) = FlattenSeq(p) \o s[n + 1]
  BY <1>1, FlattenAppend
<1> QED BY <1>2, <1>3 DEF p

\* The same, element by element, for parts of any kind.
LEMMA FlattenGrows ==
    ASSUME NEW s, NEW n \in Nat, \A k \in 1 .. n + 1 : s[k] \in Seq(ToSet(s[k]))
    PROVE  LET before == FlattenSeq([k \in 1 .. n |-> s[k]])
               after == FlattenSeq([k \in 1 .. n + 1 |-> s[k]])
           IN  /\ Len(before) \in Nat /\ DOMAIN before = 1 .. Len(before)
               /\ Len(after) = Len(before) + Len(s[n + 1]) /\ DOMAIN after = 1 .. Len(after)
               /\ \A i \in 1 .. Len(before) : after[i] = before[i]
               /\ \A i \in 1 .. Len(s[n + 1]) : after[Len(before) + i] = s[n + 1][i]
<1> DEFINE A == UNION {ToSet(s[k]) : k \in 1 .. n + 1}
           p == [k \in 1 .. n |-> s[k]]
           before == FlattenSeq(p)
           after == FlattenSeq([k \in 1 .. n + 1 |-> s[k]])
<1>1. ASSUME NEW k \in 1 .. n + 1 PROVE s[k] \in Seq(A)
  <2>1. s[k] \in Seq(ToSet(s[k])) /\ ToSet(s[k]) \subseteq A OBVIOUS
  <2> HIDE DEF A
  <2> QED BY <2>1
<1> HIDE DEF A
<1>2. after = before \o s[n + 1]
  BY <1>1, FlattenNext
<1>3. p \in Seq(Seq(A)) /\ s[n + 1] \in Seq(A)
  BY <1>1
<1>4. before \in Seq(A)
  BY <1>3, FlattenTyped
<1> HIDE DEF before, after
<1>5. /\ Len(before) \in Nat /\ Len(s[n + 1]) \in Nat /\ DOMAIN before = 1 .. Len(before)
      /\ Len(after) = Len(before) + Len(s[n + 1]) /\ DOMAIN after = 1 .. Len(after)
      /\ \A i \in 1 .. Len(before) + Len(s[n + 1]) :
            after[i] = IF i <= Len(before) THEN before[i] ELSE s[n + 1][i - Len(before)]
  BY <1>2, <1>3, <1>4
<1>6. ASSUME NEW i \in 1 .. Len(s[n + 1]) PROVE after[Len(before) + i] = s[n + 1][i]
  <2>1. /\ Len(before) + i \in 1 .. Len(before) + Len(s[n + 1])
        /\ ~ (Len(before) + i <= Len(before)) /\ (Len(before) + i) - Len(before) = i
    BY <1>5
  <2> QED BY <1>5, <2>1
<1>7. ASSUME NEW i \in 1 .. Len(before) PROVE after[i] = before[i]
  BY <1>5
<1> QED BY <1>5, <1>6, <1>7, Zenon DEF before, after

\* The elements of a concatenation.
LEMMA ConcatToSet ==
    ASSUME NEW A, NEW a \in Seq(A), NEW b \in Seq(A)
    PROVE  ToSet(a \o b) = ToSet(a) \cup ToSet(b)
<1>1. /\ a \o b \in Seq(A) /\ Len(a \o b) = Len(a) + Len(b)
      /\ \A i \in 1 .. Len(a) + Len(b) :
            (a \o b)[i] = IF i <= Len(a) THEN a[i] ELSE b[i - Len(a)]
  OBVIOUS
<1>2. Len(a) \in Nat /\ Len(b) \in Nat /\ DOMAIN a = 1 .. Len(a) /\ DOMAIN b = 1 .. Len(b)
      /\ DOMAIN (a \o b) = 1 .. Len(a) + Len(b)
  BY <1>1
<1>3. ASSUME NEW x \in ToSet(a \o b) PROVE x \in ToSet(a) \cup ToSet(b)
  <2>1. PICK i \in 1 .. Len(a) + Len(b) : x = (a \o b)[i] BY <1>2 DEF ToSet
  <2>2. CASE i <= Len(a)
    <3>1. x = a[i] /\ i \in DOMAIN a BY <1>1, <1>2, <2>1, <2>2
    <3> QED BY <3>1 DEF ToSet
  <2>3. CASE ~ (i <= Len(a))
    <3>1. x = b[i - Len(a)] /\ i - Len(a) \in DOMAIN b BY <1>1, <1>2, <2>1, <2>3
    <3> QED BY <3>1 DEF ToSet
  <2> QED BY <2>2, <2>3
<1>4. ASSUME NEW x \in ToSet(a) PROVE x \in ToSet(a \o b)
  <2>1. PICK i \in DOMAIN a : x = a[i] BY DEF ToSet
  <2>2. i \in DOMAIN (a \o b) /\ (a \o b)[i] = x BY <1>1, <1>2, <2>1
  <2> QED BY <2>2 DEF ToSet
<1>5. ASSUME NEW x \in ToSet(b) PROVE x \in ToSet(a \o b)
  <2>1. PICK i \in DOMAIN b : x = b[i] BY DEF ToSet
  <2>2. /\ Len(a) + i \in DOMAIN (a \o b) /\ ~ (Len(a) + i <= Len(a))
        /\ (Len(a) + i) - Len(a) = i
    BY <1>2
  <2>3. (a \o b)[Len(a) + i] = x BY <1>1, <1>2, <2>1, <2>2
  <2> QED BY <2>2, <2>3 DEF ToSet
<1> QED BY <1>3, <1>4, <1>5

\* What is in the parts is in the flattened sequence, and nothing else.
LEMMA FlattenToSet ==
    ASSUME NEW A, NEW s \in Seq(Seq(A))
    PROVE  ToSet(FlattenSeq(s)) = UNION {ToSet(s[i]) : i \in DOMAIN s}
<1> DEFINE P(r) == ToSet(FlattenSeq(r)) = UNION {ToSet(r[i]) : i \in DOMAIN r}
           N == {n \in Nat : \A r \in Seq(Seq(A)) : Len(r) = n => P(r)}
<1>1. 0 \in N
  <2> SUFFICES ASSUME NEW r \in Seq(Seq(A)), Len(r) = 0 PROVE P(r)
    OBVIOUS
  <2>1. r = <<>> /\ DOMAIN r = {} OBVIOUS
  <2>2. FlattenSeq(r) = r BY DEF FlattenSeq
  <2> QED BY <2>1, <2>2 DEF ToSet
<1>2. ASSUME NEW n \in Nat, n \in N PROVE n + 1 \in N
  <2> SUFFICES ASSUME NEW r \in Seq(Seq(A)), Len(r) = n + 1 PROVE P(r)
    OBVIOUS
  <2>1. PICK q \in Seq(Seq(A)), e \in Seq(A) : r = Append(q, e)
    <3>1. r # <<>> OBVIOUS
    <3> QED BY <3>1, SequenceEmptyOrAppend
  <2>2. /\ Len(q) = n /\ DOMAIN r = DOMAIN q \cup {n + 1} /\ r[n + 1] = e
        /\ \A i \in DOMAIN q : r[i] = q[i]
    BY <2>1
  <2>3. P(q) BY <1>2, <2>2
  <2>4. FlattenSeq(r) = FlattenSeq(q) \o e BY <2>1, FlattenAppend
  <2>5. FlattenSeq(q) \in Seq(A) BY FlattenTyped
  <2>6. ToSet(FlattenSeq(r)) = ToSet(FlattenSeq(q)) \cup ToSet(e)
    BY <2>4, <2>5, ConcatToSet
  <2>7. UNION {ToSet(r[i]) : i \in DOMAIN r}
          = (UNION {ToSet(q[i]) : i \in DOMAIN q}) \cup ToSet(e)
    BY <2>2
  <2> QED BY <2>3, <2>6, <2>7
<1>3. Nat \subseteq N
  <2> HIDE DEF N
  <2> QED BY <1>1, <1>2, Numbers
<1> QED BY <1>3

\* A concatenation repeats nothing when neither part does and they share nothing.
LEMMA ConcatInjective ==
    ASSUME NEW A, NEW a \in Seq(A), NEW b \in Seq(A)
    PROVE  IsInjective(a \o b) <=>
               IsInjective(a) /\ IsInjective(b) /\ ToSet(a) \cap ToSet(b) = {}
<1> DEFINE c == a \o b
<1>1. /\ c \in Seq(A) /\ Len(c) = Len(a) + Len(b)
      /\ \A i \in 1 .. Len(a) + Len(b) : c[i] = IF i <= Len(a) THEN a[i] ELSE b[i - Len(a)]
  OBVIOUS
<1>2. /\ Len(a) \in Nat /\ Len(b) \in Nat /\ DOMAIN a = 1 .. Len(a)
      /\ DOMAIN b = 1 .. Len(b) /\ DOMAIN c = 1 .. Len(a) + Len(b)
  BY <1>1
<1>3. ASSUME NEW i \in DOMAIN a PROVE i \in DOMAIN c /\ c[i] = a[i]
  BY <1>1, <1>2
<1>4. ASSUME NEW i \in DOMAIN b PROVE Len(a) + i \in DOMAIN c /\ c[Len(a) + i] = b[i]
  <2>1. /\ Len(a) + i \in DOMAIN c /\ ~ (Len(a) + i <= Len(a)) /\ (Len(a) + i) - Len(a) = i
    BY <1>2
  <2> QED BY <1>1, <1>2, <2>1
<1>5. ASSUME NEW i \in DOMAIN c
      PROVE  \/ i \in DOMAIN a /\ c[i] = a[i]
             \/ i - Len(a) \in DOMAIN b /\ c[i] = b[i - Len(a)]
  BY <1>1, <1>2
<1> HIDE DEF c
<1>6. ASSUME IsInjective(c)
      PROVE  IsInjective(a) /\ IsInjective(b) /\ ToSet(a) \cap ToSet(b) = {}
  <2>1. IsInjective(a) BY <1>3, <1>6 DEF IsInjective
  <2>2. ASSUME NEW i \in DOMAIN b, NEW j \in DOMAIN b, b[i] = b[j] PROVE i = j
    <3>1. Len(a) + i = Len(a) + j BY <1>4, <1>6, <2>2 DEF IsInjective
    <3> QED BY <1>2, <3>1
  <2>3. ASSUME NEW i \in DOMAIN a, NEW j \in DOMAIN b, a[i] = b[j] PROVE FALSE
    <3>1. i = Len(a) + j BY <1>3, <1>4, <1>6, <2>3 DEF IsInjective
    <3> QED BY <1>2, <3>1
  <2> QED BY <2>1, <2>2, <2>3 DEF IsInjective, ToSet
<1>7. ASSUME IsInjective(a), IsInjective(b), ToSet(a) \cap ToSet(b) = {}
      PROVE  IsInjective(c)
  <2> SUFFICES ASSUME NEW i \in DOMAIN c, NEW j \in DOMAIN c, c[i] = c[j] PROVE i = j
    BY DEF IsInjective
  <2>1. CASE i \in DOMAIN a /\ c[i] = a[i] /\ j \in DOMAIN a /\ c[j] = a[j]
    BY <1>7, <2>1 DEF IsInjective
  <2>2. CASE /\ i - Len(a) \in DOMAIN b /\ c[i] = b[i - Len(a)]
             /\ j - Len(a) \in DOMAIN b /\ c[j] = b[j - Len(a)]
    <3>1. i - Len(a) = j - Len(a) BY <1>7, <2>2 DEF IsInjective
    <3> QED BY <1>2, <3>1
  <2>3. CASE i \in DOMAIN a /\ c[i] = a[i] /\ j - Len(a) \in DOMAIN b /\ c[j] = b[j - Len(a)]
    BY <1>7, <2>3 DEF ToSet
  <2>4. CASE j \in DOMAIN a /\ c[j] = a[j] /\ i - Len(a) \in DOMAIN b /\ c[i] = b[i - Len(a)]
    BY <1>7, <2>4 DEF ToSet
  <2> QED BY <1>5, <2>1, <2>2, <2>3, <2>4
<1> QED BY <1>6, <1>7 DEF c

\* Each part repeats nothing, and no two parts share anything.
PartsDistinct(s) ==
    /\ \A i \in DOMAIN s : IsInjective(s[i])
    /\ \A i, j \in DOMAIN s : \A x : x \in ToSet(s[i]) /\ x \in ToSet(s[j]) => i = j

\* The flattened sequence repeats nothing exactly when its parts are distinct.
LEMMA FlattenInjective ==
    ASSUME NEW A, NEW s \in Seq(Seq(A))
    PROVE  IsInjective(FlattenSeq(s)) <=> PartsDistinct(s)
<1> DEFINE P(r) == IsInjective(FlattenSeq(r)) <=> PartsDistinct(r)
           N == {n \in Nat : \A r \in Seq(Seq(A)) : Len(r) = n => P(r)}
<1>1. 0 \in N
  <2> SUFFICES ASSUME NEW r \in Seq(Seq(A)), Len(r) = 0 PROVE P(r)
    OBVIOUS
  <2>1. DOMAIN r = {} OBVIOUS
  <2>2. FlattenSeq(r) = r BY DEF FlattenSeq
  <2> QED BY <2>1, <2>2 DEF IsInjective, PartsDistinct
<1>2. ASSUME NEW n \in Nat, n \in N PROVE n + 1 \in N
  <2> SUFFICES ASSUME NEW r \in Seq(Seq(A)), Len(r) = n + 1 PROVE P(r)
    OBVIOUS
  <2>1. PICK q \in Seq(Seq(A)), e \in Seq(A) : r = Append(q, e)
    <3>1. r # <<>> OBVIOUS
    <3> QED BY <3>1, SequenceEmptyOrAppend
  <2>2. /\ Len(q) = n /\ DOMAIN q = 1 .. n /\ DOMAIN r = DOMAIN q \cup {n + 1}
        /\ r[n + 1] = e /\ \A i \in DOMAIN q : r[i] = q[i]
    BY <2>1
  <2>3. P(q) BY <1>2, <2>2
  <2>4. FlattenSeq(r) = FlattenSeq(q) \o e BY <2>1, FlattenAppend
  <2>5. FlattenSeq(q) \in Seq(A) BY FlattenTyped
  <2>6. IsInjective(FlattenSeq(r)) <=>
            IsInjective(FlattenSeq(q)) /\ IsInjective(e) /\ ToSet(FlattenSeq(q)) \cap ToSet(e) = {}
    BY <2>4, <2>5, ConcatInjective
  <2>7. ToSet(FlattenSeq(q)) = UNION {ToSet(q[i]) : i \in DOMAIN q}
    BY FlattenToSet
  <2>8. ToSet(FlattenSeq(q)) \cap ToSet(e) = {} <=>
            \A i \in DOMAIN q : \A x : ~ (x \in ToSet(q[i]) /\ x \in ToSet(e))
    BY <2>7
  <2>9. PartsDistinct(r) <=>
            /\ PartsDistinct(q) /\ IsInjective(e)
            /\ \A i \in DOMAIN q : \A x : ~ (x \in ToSet(q[i]) /\ x \in ToSet(e))
    <3>1. n + 1 \notin DOMAIN q BY <2>2
    <3> HIDE <1>2, <2>3
    <3> QED BY <2>2, <3>1 DEF PartsDistinct
  <2> QED BY <2>3, <2>6, <2>8, <2>9
<1>3. Nat \subseteq N
  <2> HIDE DEF N
  <2> QED BY <1>1, <1>2, Numbers
<1> QED BY <1>3

-----------------------------------------------------------------------------
(* Numbers of elements. *)

\* The numbers 1 .. n are n numbers.
LEMMA Interval ==
    ASSUME NEW n \in Nat
    PROVE  IsFiniteSet(1 .. n) /\ Cardinality(1 .. n) = n
BY FS_Interval

\* A sequence has as many elements as its length exactly when it repeats none.
LEMMA LengthCounts ==
    ASSUME NEW A, NEW s \in Seq(A)
    PROVE  Len(s) = Cardinality(ToSet(s)) <=> IsInjective(s)
<1>1. /\ Len(s) \in Nat /\ DOMAIN s = 1 .. Len(s) /\ s = [i \in 1 .. Len(s) |-> s[i]]
  OBVIOUS
<1>2. s \in Surjection(1 .. Len(s), ToSet(s))
  BY <1>1 DEF Surjection, ToSet
<1>3. IsFiniteSet(1 .. Len(s)) /\ Cardinality(1 .. Len(s)) = Len(s)
  BY <1>1, Interval
<1>4. Cardinality(ToSet(s)) = Cardinality(1 .. Len(s)) <=> s \in Injection(1 .. Len(s), ToSet(s))
  BY <1>2, <1>3, FS_Surjection
<1>5. s \in Injection(1 .. Len(s), ToSet(s)) <=> IsInjective(s)
  BY <1>1, <1>2 DEF Surjection, Injection
<1> QED BY <1>3, <1>4, <1>5

\* A sequence of the numbers 1 .. n of length n that names them all repeats none.
LEMMA PermutationInjective ==
    ASSUME NEW n \in Nat, NEW s \in Seq(Nat), Len(s) = n, ToSet(s) = 1 .. n
    PROVE  IsInjective(s)
<1>1. Cardinality(1 .. n) = n
  BY Interval
<1> QED BY <1>1, LengthCounts

\* There are no more sequences without a common element than there are numbers
\* for them to choose from.
LEMMA DisjointBound ==
    ASSUME NEW n \in Nat, NEW s \in Seq(Seq(1 .. n)), PartsDistinct(s),
           \A i \in DOMAIN s : s[i] # <<>>
    PROVE  Len(s) <= n
<1> DEFINE f == [i \in 1 .. Len(s) |-> s[i][1]]
<1>1. DOMAIN s = 1 .. Len(s) /\ Len(s) \in Nat
  OBVIOUS
<1>2. ASSUME NEW i \in DOMAIN s
      PROVE  s[i][1] \in 1 .. n /\ s[i][1] \in ToSet(s[i])
  <2>1. s[i] \in Seq(1 .. n) /\ s[i] # <<>> BY <1>1
  <2>2. 1 \in DOMAIN s[i] /\ s[i][1] \in 1 .. n BY <2>1
  <2> QED BY <2>2 DEF ToSet
<1>3. f \in [1 .. Len(s) -> 1 .. n]
  BY <1>1, <1>2
<1>4. ASSUME NEW i \in 1 .. Len(s), NEW j \in 1 .. Len(s), f[i] = f[j]
      PROVE  i = j
  <2>1. s[i][1] \in ToSet(s[i]) /\ s[i][1] \in ToSet(s[j]) BY <1>1, <1>2, <1>4
  <2> QED BY <1>1, <2>1 DEF PartsDistinct
<1>5. f \in Injection(1 .. Len(s), 1 .. n)
  BY <1>3, <1>4 DEF Injection, IsInjective
<1>6. Cardinality(1 .. Len(s)) = Len(s) /\ Cardinality(1 .. n) = n /\ IsFiniteSet(1 .. n)
  BY <1>1, Interval
<1> QED BY <1>5, <1>6, FS_Injection

\* The positions that are kept, in their order: each once and no other.
LEMMA Filtered ==
    ASSUME NEW n \in Nat, NEW K \in SUBSET (1 .. n)
    PROVE  LET kept == FlattenSeq([i \in 1 .. n |-> IF i \in K THEN <<i>> ELSE <<>>])
           IN  /\ kept \in Seq(1 .. n)
               /\ ToSet(kept) = K
               /\ IsInjective(kept)
<1> DEFINE s == [i \in 1 .. n |-> IF i \in K THEN <<i>> ELSE <<>>]
<1>1. ASSUME NEW i \in 1 .. n PROVE s[i] \in Seq(1 .. n)
  <2>1. <<i>> \in Seq(1 .. n) /\ <<>> \in Seq(1 .. n) OBVIOUS
  <2> QED BY <2>1, Zenon
<1>2. s \in Seq(Seq(1 .. n)) /\ DOMAIN s = 1 .. n
  BY <1>1
<1>3. ASSUME NEW i \in 1 .. n
      PROVE  ToSet(s[i]) = (IF i \in K THEN {i} ELSE {}) /\ IsInjective(s[i])
  <2>1. CASE i \in K
    <3>1. s[i] = <<i>> BY <2>1
    <3>2. DOMAIN <<i>> = {1} /\ <<i>>[1] = i OBVIOUS
    <3> QED BY <2>1, <3>1, <3>2 DEF ToSet, IsInjective
  <2>2. CASE i \notin K
    <3>1. s[i] = <<>> BY <2>2
    <3> QED BY <2>2, <3>1 DEF ToSet, IsInjective
  <2> QED BY <2>1, <2>2
<1> HIDE DEF s
<1>4. FlattenSeq(s) \in Seq(1 .. n)
  BY <1>2, FlattenTyped
<1>5. ToSet(FlattenSeq(s)) = K
  <2>1. ToSet(FlattenSeq(s)) = UNION {ToSet(s[i]) : i \in DOMAIN s} BY <1>2, FlattenToSet
  <2> QED BY <1>2, <1>3, <2>1
<1>6. IsInjective(FlattenSeq(s))
  <2>1. PartsDistinct(s) BY <1>2, <1>3 DEF PartsDistinct
  <2> QED BY <1>2, <2>1, FlattenInjective
<1> QED BY <1>4, <1>5, <1>6 DEF s

=============================================================================
