-------------------------- MODULE CommonGraphProofs --------------------------
(***************************************************************************)
(* What pairConditionalCFG, the common merge and specializeConditionalCFG  *)
(* promise, for functions of every size and any number of targets.         *)
(***************************************************************************)
EXTENDS CommonGraphInvariant, SequenceLemmas

-----------------------------------------------------------------------------
(* Filtering a sequence. *)

\* Only keeps the order and takes what is in the set, element by element.
LEMMA OnlyNothing ==
    ASSUME NEW S
    PROVE  Only(<<>>, S) = <<>>
<1> DEFINE p == [k \in 1 .. Len(<<>>) |-> IF <<>>[k] \in S THEN <<<<>>[k]>> ELSE <<>>]
<1>1. p = <<>> OBVIOUS
<1>2. FlattenSeq(<<>>) = <<>> BY DEF FlattenSeq
<1> HIDE DEF p
<1>3. FlattenSeq(p) = <<>> BY <1>1, <1>2
<1> QED BY <1>3 DEF Only, p

\* What Only takes from a sequence.
LEMMA OnlyIs ==
    ASSUME NEW A, NEW s \in Seq(A), NEW S
    PROVE  Only(s, S) \in Seq(A) /\ ToSet(Only(s, S)) = ToSet(s) \cap S
<1> DEFINE p == [k \in 1 .. Len(s) |-> IF s[k] \in S THEN <<s[k]>> ELSE <<>>]
<1>1. Len(s) \in Nat /\ DOMAIN s = 1 .. Len(s) /\ \A k \in 1 .. Len(s) : s[k] \in A
  OBVIOUS
<1>2. ASSUME NEW k \in 1 .. Len(s)
      PROVE  p[k] \in Seq(A) /\ ToSet(p[k]) = {s[k]} \cap S
  <2>1. CASE s[k] \in S
    <3>1. p[k] = <<s[k]>> BY <2>1
    <3>2. <<s[k]>> \in Seq(A) /\ DOMAIN <<s[k]>> = {1} /\ <<s[k]>>[1] = s[k] BY <1>1
    <3> HIDE DEF p
    <3> QED BY <2>1, <3>1, <3>2 DEF ToSet
  <2>2. CASE s[k] \notin S
    <3>1. p[k] = <<>> BY <2>2
    <3>2. <<>> \in Seq(A) /\ DOMAIN <<>> = {} OBVIOUS
    <3> HIDE DEF p
    <3> QED BY <2>2, <3>1, <3>2 DEF ToSet
  <2> QED BY <2>1, <2>2
<1>3. DOMAIN p = 1 .. Len(s) /\ p = [k \in 1 .. Len(s) |-> p[k]]
  OBVIOUS
<1>4. Only(s, S) = FlattenSeq(p)
  BY DEF Only
<1> HIDE DEF p
<1>5. p \in Seq(Seq(A))
  BY <1>1, <1>2, <1>3
<1>6. FlattenSeq(p) \in Seq(A) /\ ToSet(FlattenSeq(p)) = UNION {ToSet(p[i]) : i \in DOMAIN p}
  BY <1>5, FlattenTyped, FlattenToSet
<1>7. ToSet(s) = {s[k] : k \in 1 .. Len(s)}
  BY <1>1 DEF ToSet
<1> QED BY <1>2, <1>3, <1>4, <1>6, <1>7

\* One element more is taken, or not, at the end.
LEMMA OnlyAppend ==
    ASSUME NEW A, NEW s \in Seq(A), NEW e \in A, NEW S
    PROVE  Only(Append(s, e), S) = IF e \in S THEN Append(Only(s, S), e) ELSE Only(s, S)
<1> DEFINE r == Append(s, e)
           n == Len(s)
           q == [k \in 1 .. n + 1 |-> IF r[k] \in S THEN <<r[k]>> ELSE <<>>]
           p == [k \in 1 .. n |-> IF s[k] \in S THEN <<s[k]>> ELSE <<>>]
<1>1. /\ r \in Seq(A) /\ Len(r) = n + 1 /\ r[n + 1] = e /\ \A k \in 1 .. n : r[k] = s[k]
      /\ n \in Nat
  BY AppendProperties, Z3
<1> HIDE DEF r, n
<1>2. Only(r, S) = FlattenSeq(q)
  BY <1>1 DEF Only
<1>3. Only(s, S) = FlattenSeq(p)
  BY DEF Only, n
<1>4. ASSUME NEW k \in 1 .. n + 1 PROVE q[k] \in Seq(A)
  <2>1. r[k] \in A BY <1>1
  <2>2. <<r[k]>> \in Seq(A) /\ <<>> \in Seq(A) BY <2>1
  <2>3. q[k] = <<r[k]>> \/ q[k] = <<>> OBVIOUS
  <2> HIDE DEF q
  <2> QED BY <2>2, <2>3
<1>5. [k \in 1 .. n |-> q[k]] = p
  <2>1. \A k \in 1 .. n : q[k] = p[k] BY <1>1
  <2> QED BY <2>1
<1>6. [k \in 1 .. n + 1 |-> q[k]] = q
  OBVIOUS
<1>7. q[n + 1] = IF e \in S THEN <<e>> ELSE <<>>
  BY <1>1
<1> HIDE DEF q, p
<1>8. FlattenSeq(q) = FlattenSeq(p) \o q[n + 1]
  BY <1>1, <1>4, <1>5, <1>6, FlattenNext
<1>9. Only(s, S) \in Seq(A)
  BY OnlyIs
<1>10. CASE e \in S
  <2> DEFINE o == Only(s, S)
  <2>1. Only(r, S) = o \o <<e>> BY <1>2, <1>3, <1>7, <1>8, <1>10
  <2>2. o \in Seq(A) BY <1>9
  <2> HIDE DEF o
  <2>3. o \o <<e>> = Append(o, e) BY <2>2
  <2> QED BY <1>10, <2>1, <2>3 DEF o, r
<1>11. CASE e \notin S
  <2> DEFINE o == Only(s, S)
  <2>1. Only(r, S) = o \o <<>> BY <1>2, <1>3, <1>7, <1>8, <1>11
  <2>2. o \in Seq(A) BY <1>9
  <2> HIDE DEF o
  <2>3. o \o <<>> = o BY <2>2
  <2> QED BY <1>11, <2>1, <2>3 DEF o, r
<1> QED BY <1>10, <1>11

Maps(A, B) == [A -> B]
TellsApart(f, A, S, T) == \A a \in A : a \in S <=> f[a] \in T

Mapped(f, s) == [k \in 1 .. Len(s) |-> f[s[k]]]

\* Filtering commutes with a function that tells apart what is taken.
LEMMA OnlyMapped ==
    ASSUME NEW A, NEW B, NEW s \in Seq(A), NEW f \in Maps(A, B), NEW S, NEW T,
           TellsApart(f, A, S, T)
    PROVE  Only(Mapped(f, s), T) = Mapped(f, Only(s, S))
<1> DEFINE Map(r) == [k \in 1 .. Len(r) |-> f[r[k]]]
           P(r) == Only(Map(r), T) = Map(Only(r, S))
           N == {n \in Nat : \A r \in Seq(A) : Len(r) = n => P(r)}
<1>0. f \in [A -> B] BY DEF Maps
<1>1. 0 \in N
  <2> SUFFICES ASSUME NEW r \in Seq(A), Len(r) = 0 PROVE P(r)
    OBVIOUS
  <2>1. r = <<>> OBVIOUS
  <2>2. Map(<<>>) = <<>> OBVIOUS
  <2>3. Only(<<>>, S) = <<>> /\ Only(<<>>, T) = <<>> BY OnlyNothing
  <2> HIDE DEF Map
  <2> QED BY <2>1, <2>2, <2>3
<1>2. ASSUME NEW n \in Nat, n \in N PROVE n + 1 \in N
  <2> SUFFICES ASSUME NEW r \in Seq(A), Len(r) = n + 1 PROVE P(r)
    OBVIOUS
  <2> DEFINE q == [k \in 1 .. n |-> r[k]]
             e == r[n + 1]
  <2>1. q \in Seq(A) /\ Len(q) = n /\ e \in A /\ r = Append(q, e)
    OBVIOUS
  <2> HIDE DEF q, e
  <2>2. P(q) BY <1>2, <2>1
  <2>3. ASSUME NEW x \in Seq(A) PROVE Map(x) \in Seq(B) /\ Map(Append(x, e)) = Append(Map(x), f[e])
    BY <1>0, <2>1, <2>3
  <2>4. f[e] \in B BY <1>0, <2>1
  <2>5. Only(q, S) \in Seq(A) BY <2>1, OnlyIs
  <2>6. Only(r, S) = IF e \in S THEN Append(Only(q, S), e) ELSE Only(q, S)
    BY <2>1, OnlyAppend
  <2>7. Only(Append(Map(q), f[e]), T)
          = IF f[e] \in T THEN Append(Only(Map(q), T), f[e]) ELSE Only(Map(q), T)
    <3> DEFINE x == Map(q)
               y == f[e]
    <3>1. x \in Seq(B) BY <2>1, <2>3
    <3>2. y \in B BY <2>4
    <3> HIDE DEF x, y
    <3>3. Only(Append(x, y), T) = IF y \in T THEN Append(Only(x, T), y) ELSE Only(x, T)
      BY <3>1, <3>2, OnlyAppend
    <3> QED BY <3>3 DEF x, y
  <2>8. Map(r) = Append(Map(q), f[e]) BY <2>1, <2>3
  <2>9. e \in S <=> f[e] \in T BY <2>1 DEF TellsApart
  <2>10. e \in S => Map(Append(Only(q, S), e)) = Append(Map(Only(q, S)), f[e])
    BY <2>3, <2>5
  <2> HIDE DEF Map
  <2>11. CASE e \in S BY <2>2, <2>6, <2>7, <2>8, <2>9, <2>10, <2>11
  <2>12. CASE e \notin S BY <2>2, <2>6, <2>7, <2>8, <2>9, <2>12
  <2> QED BY <2>11, <2>12
<1>3. Nat \subseteq N
  <2> HIDE DEF N
  <2> QED BY <1>1, <1>2, Numbers
<1>4. Len(s) \in N
  BY <1>3
<1> QED BY <1>4 DEF Mapped

-----------------------------------------------------------------------------
(* mergeOrder. *)

Prefix(s, n) == [i \in 1 .. n |-> s[i]]

\* What mergeOrder has done when it stands at m.
MergedTo(first, second, m) ==
    /\ m.a \in 1 .. Len(first) + 1 /\ m.b \in 1 .. Len(second) + 1
    /\ Only(m.order, ToSet(first)) = Prefix(first, m.a - 1)
    /\ Only(m.order, ToSet(second)) = Prefix(second, m.b - 1)

MergeStates(A) == [order : Seq(A), a : Nat \ {0}, b : Nat \ {0}]

\* One more element of a prefix.
LEMMA PrefixNext ==
    ASSUME NEW A, NEW s \in Seq(A), NEW i \in 1 .. Len(s)
    PROVE  Append(Prefix(s, i - 1), s[i]) = Prefix(s, (i + 1) - 1)
<1>1. Prefix(s, i - 1) \in Seq(A) /\ Len(Prefix(s, i - 1)) = i - 1
  BY DEF Prefix
<1>2. i \in Nat /\ (i + 1) - 1 = i /\ i - 1 \in Nat /\ s[i] \in A
  OBVIOUS
<1> QED BY <1>1, <1>2 DEF Prefix

\* One turn takes the next element of one side, or the same one of both.
LEMMA MergeTurnKeeps ==
    ASSUME NEW A, NEW first \in Seq(A), NEW second \in Seq(A), NEW m \in MergeStates(A)
    PROVE  /\ MergeTurn(first, second, m) \in MergeStates(A)
           /\ MergedTo(first, second, m) => MergedTo(first, second, MergeTurn(first, second, m))
<1> DEFINE F == ToSet(first)
           G == ToSet(second)
           x == MergeTurn(first, second, m)
           With(e) == Append(m.order, e)
<1>0. /\ m.order \in Seq(A) /\ m.a \in Nat \ {0} /\ m.b \in Nat \ {0}
      /\ Len(first) \in Nat /\ Len(second) \in Nat
  BY DEF MergeStates
<1>1. m.a <= Len(first) => m.a \in 1 .. Len(first) /\ first[m.a] \in A /\ first[m.a] \in F
  BY <1>0 DEF ToSet
<1>2. m.b <= Len(second) => m.b \in 1 .. Len(second) /\ second[m.b] \in A /\ second[m.b] \in G
  BY <1>0 DEF ToSet
<1>3. ASSUME NEW e \in A
      PROVE  /\ With(e) \in Seq(A)
             /\ Only(With(e), F) = IF e \in F THEN Append(Only(m.order, F), e) ELSE Only(m.order, F)
             /\ Only(With(e), G) = IF e \in G THEN Append(Only(m.order, G), e) ELSE Only(m.order, G)
  <2> DEFINE o == m.order
  <2>1. o \in Seq(A) BY <1>0
  <2> HIDE DEF o, F, G
  <2>2. /\ Append(o, e) \in Seq(A)
        /\ Only(Append(o, e), F) = IF e \in F THEN Append(Only(o, F), e) ELSE Only(o, F)
        /\ Only(Append(o, e), G) = IF e \in G THEN Append(Only(o, G), e) ELSE Only(o, G)
    BY <2>1, OnlyAppend
  <2> QED BY <2>2 DEF o
<1>4. m.a <= Len(first) =>
         Append(Prefix(first, m.a - 1), first[m.a]) = Prefix(first, (m.a + 1) - 1)
  BY <1>1, PrefixNext
<1>5. m.b <= Len(second) =>
         Append(Prefix(second, m.b - 1), second[m.b]) = Prefix(second, (m.b + 1) - 1)
  BY <1>2, PrefixNext
<1>6. CASE m.a <= Len(first) /\ first[m.a] \notin G
  <2>1. x = [order |-> With(first[m.a]), a |-> m.a + 1, b |-> m.b]
    BY <1>6 DEF MergeTurn
  <2>2. x.order = With(first[m.a]) /\ x.a = m.a + 1 /\ x.b = m.b BY <2>1
  <2> HIDE DEF F, G, With, x
  <2>3. x \in MergeStates(A) BY <1>0, <1>1, <1>3, <1>6, <2>1 DEF MergeStates
  <2>4. MergedTo(first, second, m) => MergedTo(first, second, x)
    <3> SUFFICES ASSUME MergedTo(first, second, m) PROVE MergedTo(first, second, x) OBVIOUS
    <3>1. x.a \in 1 .. Len(first) + 1 /\ x.b \in 1 .. Len(second) + 1
      BY <1>1, <1>6, <2>2 DEF MergedTo
    <3>2. Only(x.order, F) = Prefix(first, x.a - 1)
      BY <1>1, <1>3, <1>4, <1>6, <2>2 DEF MergedTo, F
    <3>3. Only(x.order, G) = Prefix(second, x.b - 1)
      BY <1>1, <1>3, <1>6, <2>2 DEF MergedTo, G
    <3> QED BY <3>1, <3>2, <3>3 DEF MergedTo, F, G
  <2> QED BY <2>3, <2>4 DEF x
<1>7. CASE ~ (m.a <= Len(first) /\ first[m.a] \notin G) /\ m.b <= Len(second) /\ second[m.b] \notin F
  <2>1. x = [order |-> With(second[m.b]), a |-> m.a, b |-> m.b + 1]
    BY <1>7 DEF MergeTurn
  <2>2. x.order = With(second[m.b]) /\ x.a = m.a /\ x.b = m.b + 1 BY <2>1
  <2> HIDE DEF F, G, With, x
  <2>3. x \in MergeStates(A) BY <1>0, <1>2, <1>3, <1>7, <2>1 DEF MergeStates
  <2>4. MergedTo(first, second, m) => MergedTo(first, second, x)
    <3> SUFFICES ASSUME MergedTo(first, second, m) PROVE MergedTo(first, second, x) OBVIOUS
    <3>1. x.a \in 1 .. Len(first) + 1 /\ x.b \in 1 .. Len(second) + 1
      BY <1>2, <1>7, <2>2 DEF MergedTo
    <3>2. Only(x.order, F) = Prefix(first, x.a - 1)
      BY <1>2, <1>3, <1>7, <2>2 DEF MergedTo, F
    <3>3. Only(x.order, G) = Prefix(second, x.b - 1)
      BY <1>2, <1>3, <1>5, <1>7, <2>2 DEF MergedTo, G
    <3> QED BY <3>1, <3>2, <3>3 DEF MergedTo, F, G
  <2> QED BY <2>3, <2>4 DEF x
<1>8. CASE /\ ~ (m.a <= Len(first) /\ first[m.a] \notin G)
           /\ ~ (m.b <= Len(second) /\ second[m.b] \notin F)
           /\ m.a <= Len(first) /\ m.b <= Len(second) /\ first[m.a] = second[m.b]
  <2>1. x = [order |-> With(first[m.a]), a |-> m.a + 1, b |-> m.b + 1]
    BY <1>8 DEF MergeTurn
  <2>2. x.order = With(first[m.a]) /\ x.a = m.a + 1 /\ x.b = m.b + 1 BY <2>1
  <2> HIDE DEF F, G, With, x
  <2>3. x \in MergeStates(A)
    <3>1. With(first[m.a]) \in Seq(A) BY <1>1, <1>3, <1>8
    <3>2. m.a + 1 \in Nat \ {0} /\ m.b + 1 \in Nat \ {0} BY <1>0
    <3> QED BY <2>1, <3>1, <3>2 DEF MergeStates
  <2>4. MergedTo(first, second, m) => MergedTo(first, second, x)
    <3> SUFFICES ASSUME MergedTo(first, second, m) PROVE MergedTo(first, second, x) OBVIOUS
    <3>1. x.a \in 1 .. Len(first) + 1 /\ x.b \in 1 .. Len(second) + 1
      BY <1>1, <1>2, <1>8, <2>2 DEF MergedTo
    <3>2. Only(x.order, F) = Prefix(first, x.a - 1)
      BY <1>1, <1>3, <1>4, <1>8, <2>2 DEF MergedTo, F
    <3>3. Only(x.order, G) = Prefix(second, x.b - 1)
      BY <1>1, <1>2, <1>3, <1>5, <1>8, <2>2 DEF MergedTo, G
    <3> QED BY <3>1, <3>2, <3>3 DEF MergedTo, F, G
  <2> QED BY <2>3, <2>4 DEF x
<1>9. CASE /\ ~ (m.a <= Len(first) /\ first[m.a] \notin G)
           /\ ~ (m.b <= Len(second) /\ second[m.b] \notin F)
           /\ ~ (m.a <= Len(first) /\ m.b <= Len(second) /\ first[m.a] = second[m.b])
  <2>1. x = m BY <1>9 DEF MergeTurn
  <2> HIDE DEF x
  <2> QED BY <2>1 DEF x
<1> QED BY <1>6, <1>7, <1>8, <1>9

\* A common order, filtered to one side, is the order of that side.
LEMMA MergeKeeps ==
    ASSUME NEW A, NEW first \in Seq(A), NEW second \in Seq(A)
    PROVE  /\ MergeOrder(first, second) \in Seq(A)
           /\ Ordered(first, second) /\ IsInjective(first) /\ IsInjective(second) =>
                 /\ Only(MergeOrder(first, second), ToSet(first)) = first
                 /\ Only(MergeOrder(first, second), ToSet(second)) = second
<1> DEFINE n == Len(first) + Len(second)
           X == MergeStates(A)
           start == [order |-> <<>>, a |-> 1, b |-> 1]
           G == [k \in 1 .. n |-> [m \in X |-> MergeTurn(first, second, m)]]
           Defines(f) == f = [k \in 0 .. n |-> IF k = 0 THEN start
                                               ELSE MergeTurn(first, second, f[k - 1])]
           f == CHOOSE f : Defines(f)
<1>0. n \in Nat /\ Len(first) \in Nat /\ Len(second) \in Nat
  OBVIOUS
<1> HIDE DEF n
<1>1. start \in X /\ start.a = 1 /\ start.b = 1 /\ start.order = <<>>
  BY DEF MergeStates
<1>2. G \in [1 .. n -> [X -> X]]
  <2> HIDE DEF X
  <2> QED BY MergeTurnKeeps DEF X
<1>3. \E h : Defines(h)
  <2>1. PICK h \in [0 .. n -> X] : h[0] = start /\ \A k \in 1 .. n : h[k] = G[k][h[k - 1]]
    <3>1. n \in Nat /\ start \in X /\ G \in Steps(n, X) BY <1>0, <1>1, <1>2 DEF Steps
    <3> HIDE DEF G, X, start
    <3>2. Iteration(n, X, start, G) # {} BY <3>1, Iterates
    <3> QED BY <3>2 DEF Iteration
  <2> HIDE DEF start, X
  <2>2. ASSUME NEW k \in 1 .. n PROVE h[k] = MergeTurn(first, second, h[k - 1])
    <3>1. h[k - 1] \in X BY <1>0
    <3> QED BY <2>1, <3>1
  <2>3. \A k \in 0 .. n : h[k] = IF k = 0 THEN start ELSE MergeTurn(first, second, h[k - 1])
    <3>1. \A k \in 0 .. n : k = 0 \/ k \in 1 .. n BY <1>0
    <3> QED BY <2>1, <2>2, <3>1
  <2>4. h = [k \in 0 .. n |-> h[k]] OBVIOUS
  <2>5. Defines(h) BY <2>3, <2>4
  <2> QED BY <2>5
<1>4. Defines(f)
  <2> HIDE DEF Defines
  <2> QED BY <1>3
<1>5. MergeOrder(first, second) = f[n].order
  BY DEF MergeOrder, n
<1> HIDE DEF f, start
<1>6. \A k \in 0 .. n : f[k] = IF k = 0 THEN start ELSE MergeTurn(first, second, f[k - 1])
  BY <1>4, Zenon
<1> DEFINE N == {k \in Nat : k <= n => f[k] \in X /\ MergedTo(first, second, f[k])}
<1>7. 0 \in N
  <2>1. f[0] = start BY <1>0, <1>6
  <2>2. Only(<<>>, ToSet(first)) = <<>> /\ Only(<<>>, ToSet(second)) = <<>> BY OnlyNothing
  <2>3. Prefix(first, 1 - 1) = <<>> /\ Prefix(second, 1 - 1) = <<>> BY DEF Prefix
  <2>4. MergedTo(first, second, start) BY <1>0, <1>1, <2>2, <2>3 DEF MergedTo
  <2> HIDE DEF X
  <2> QED BY <1>1, <2>1, <2>4
<1>8. ASSUME NEW k \in Nat, k \in N PROVE k + 1 \in N
  <2> SUFFICES ASSUME k + 1 <= n PROVE f[k + 1] \in X /\ MergedTo(first, second, f[k + 1])
    OBVIOUS
  <2> HIDE DEF X
  <2>1. f[k] \in X /\ MergedTo(first, second, f[k]) BY <1>0, <1>8
  <2>2. f[k + 1] = MergeTurn(first, second, f[k])
    <3>1. k + 1 \in 0 .. n /\ k + 1 # 0 /\ (k + 1) - 1 = k BY <1>0
    <3> QED BY <1>6, <3>1
  <2> QED BY <2>1, <2>2, MergeTurnKeeps DEF X
<1>9. f[n] \in X /\ MergedTo(first, second, f[n])
  <2>1. Nat \subseteq N
    <3> HIDE DEF N
    <3> QED BY <1>7, <1>8, Numbers
  <2> HIDE DEF X
  <2> QED BY <1>0, <2>1
<1> DEFINE order == f[n].order
           a == f[n].a
           b == f[n].b
<1>10. order \in Seq(A) /\ a \in 1 .. Len(first) + 1 /\ b \in 1 .. Len(second) + 1
  BY <1>9 DEF MergeStates, MergedTo
<1>11. /\ Only(order, ToSet(first)) = Prefix(first, a - 1)
       /\ Only(order, ToSet(second)) = Prefix(second, b - 1)
  BY <1>9 DEF MergedTo
<1>12. MergeOrder(first, second) = order
  BY <1>5
<1> HIDE DEF order, a, b
<1>13. ASSUME ToSet(first) \subseteq ToSet(order), IsInjective(first)
       PROVE  Only(order, ToSet(first)) = first
  <2>1. a = Len(first) + 1
    <3> SUFFICES ASSUME a # Len(first) + 1 PROVE FALSE OBVIOUS
    <3>1. a \in 1 .. Len(first) /\ a \in DOMAIN first BY <1>0, <1>10
    <3>2. first[a] \in ToSet(first) /\ first[a] \in ToSet(order) BY <1>13, <3>1 DEF ToSet
    <3>3. first[a] \in ToSet(Prefix(first, a - 1)) BY <1>10, <1>11, <3>2, OnlyIs
    <3>4. PICK i \in 1 .. a - 1 : first[i] = first[a] BY <3>3 DEF Prefix, ToSet
    <3>5. i \in DOMAIN first /\ i # a BY <1>0, <3>1
    <3> QED BY <1>13, <3>1, <3>4, <3>5 DEF IsInjective
  <2>2. Prefix(first, Len(first)) = first BY DEF Prefix
  <2>3. a - 1 = Len(first) BY <1>0, <2>1
  <2> QED BY <1>11, <2>2, <2>3
<1>14. ASSUME ToSet(second) \subseteq ToSet(order), IsInjective(second)
       PROVE  Only(order, ToSet(second)) = second
  <2>1. b = Len(second) + 1
    <3> SUFFICES ASSUME b # Len(second) + 1 PROVE FALSE OBVIOUS
    <3>1. b \in 1 .. Len(second) /\ b \in DOMAIN second BY <1>0, <1>10
    <3>2. second[b] \in ToSet(second) /\ second[b] \in ToSet(order) BY <1>14, <3>1 DEF ToSet
    <3>3. second[b] \in ToSet(Prefix(second, b - 1)) BY <1>10, <1>11, <3>2, OnlyIs
    <3>4. PICK i \in 1 .. b - 1 : second[i] = second[b] BY <3>3 DEF Prefix, ToSet
    <3>5. i \in DOMAIN second /\ i # b BY <1>0, <3>1
    <3> QED BY <1>14, <3>1, <3>4, <3>5 DEF IsInjective
  <2>2. Prefix(second, Len(second)) = second BY DEF Prefix
  <2>3. b - 1 = Len(second) BY <1>0, <2>1
  <2> QED BY <1>11, <2>2, <2>3
<1>15. Ordered(first, second) =>
          ToSet(first) \subseteq ToSet(order) /\ ToSet(second) \subseteq ToSet(order)
  BY <1>12 DEF Ordered
<1> QED BY <1>10, <1>12, <1>13, <1>14, <1>15

-----------------------------------------------------------------------------
(* Correspondences. *)

\* PairOf finds a pair exactly when there is one.
LEMMA PairOfIs ==
    ASSUME NEW E, NEW known \in Seq(E), NEW side, NEW b
    PROVE  LET p == PairOf(known, side, b)
           IN  /\ p \in 0 .. Len(known)
               /\ p # 0 => p \in DOMAIN known /\ known[p][side] = b
               /\ p = 0 => \A i \in DOMAIN known : known[i][side] # b
<1> DEFINE I == {i \in 1 .. Len(known) : known[i][side] = b}
           p == PairOf(known, side, b)
<1>1. p = IF I # {} THEN Min(I) ELSE 0
  BY DEF PairOf, SelectInSeq
<1>2. Len(known) \in Nat /\ DOMAIN known = 1 .. Len(known)
  OBVIOUS
<1>3. I # {} => Min(I) \in I
  <2>1. I \subseteq Nat BY <1>2
  <2> HIDE DEF I
  <2> QED BY <2>1, MinIs
<1>4. CASE I = {}
  <2>1. p = 0 BY <1>1, <1>4
  <2>2. \A i \in DOMAIN known : known[i][side] # b BY <1>2, <1>4
  <2> HIDE DEF p
  <2> QED BY <1>2, <2>1, <2>2 DEF p
<1>5. CASE I # {}
  <2>1. p \in I BY <1>1, <1>3, <1>5
  <2>2. p \in 1 .. Len(known) /\ known[p][side] = b
    <3> HIDE DEF p
    <3> QED BY <2>1
  <2> HIDE DEF p
  <2>3. p # 0 /\ p \in 0 .. Len(known) BY <1>2, <2>2
  <2> QED BY <1>2, <2>2, <2>3 DEF p
<1> QED BY <1>4, <1>5

\* What pair leaves of the pairs there were, and what it may add.
Extends(known, after, edges) ==
    /\ Len(known) <= Len(after)
    /\ \A k \in 1 .. Len(known) : after[k] = known[k]
    /\ ToSet(after) \subseteq ToSet(known) \cup edges
    /\ PairsInjective(known) => PairsInjective(after)

\* Pair adds no second pair of a block.
LEMMA PairKeeps ==
    ASSUME NEW E, NEW known \in Seq(E), NEW edge \in E
    PROVE  Pair(known, edge) \in Seq(E) /\ Extends(known, Pair(known, edge), {edge})
<1> DEFINE new == PairOf(known, "left", edge.left) = 0 /\ PairOf(known, "right", edge.right) = 0
           r == Append(known, edge)
           n == Len(known)
<1>1. CASE ~ new
  <2>1. Pair(known, edge) = known BY <1>1 DEF Pair
  <2>2. Len(known) \in Nat OBVIOUS
  <2> QED BY <2>1, <2>2 DEF Extends
<1>2. CASE new
  <2>1. Pair(known, edge) = r BY <1>2 DEF Pair
  <2>2. /\ r \in Seq(E) /\ Len(r) = n + 1 /\ r[n + 1] = edge
        /\ \A k \in 1 .. n : r[k] = known[k]
        /\ n \in Nat /\ DOMAIN known = 1 .. n
    BY AppendProperties, Z3
  <2>3. \A i \in 1 .. n : known[i]["left"] # edge.left /\ known[i]["right"] # edge.right
    <3>1. \A i \in 1 .. n : known[i]["left"] # edge.left
      BY <1>2, <2>2, PairOfIs
    <3>2. \A i \in 1 .. n : known[i]["right"] # edge.right
      BY <1>2, <2>2, PairOfIs
    <3> QED BY <3>1, <3>2
  <2> HIDE DEF r, n, new
  <2>4. DOMAIN r = 1 .. n + 1 BY <2>2
  <2>5. ToSet(r) \subseteq ToSet(known) \cup {edge}
    <3>1. \A k \in 1 .. n + 1 : k \in 1 .. n \/ k = n + 1 BY <2>2
    <3> QED BY <2>2, <2>4, <3>1 DEF ToSet
  <2>6. ASSUME PairsInjective(known) PROVE PairsInjective(r)
    <3> SUFFICES ASSUME NEW i \in 1 .. n + 1, NEW j \in 1 .. n + 1, NEW side \in Sides,
                        r[i][side] = r[j][side], r[i][side] # 0
                 PROVE  i = j
      BY <2>4 DEF PairsInjective
    <3>1. side = "left" \/ side = "right" BY DEF Sides
    <3>2. edge.left = edge["left"] /\ edge.right = edge["right"] OBVIOUS
    <3>3. \A k \in 1 .. n + 1 : k \in 1 .. n \/ k = n + 1 BY <2>2
    <3>4. CASE i \in 1 .. n /\ j \in 1 .. n
      BY <2>2, <2>6, <3>4 DEF PairsInjective
    <3>5. CASE i \in 1 .. n /\ j = n + 1
      BY <2>2, <2>3, <3>1, <3>2, <3>5
    <3>6. CASE i = n + 1 /\ j \in 1 .. n
      BY <2>2, <2>3, <3>1, <3>2, <3>6
    <3> QED BY <3>3, <3>4, <3>5, <3>6
  <2>7. n <= n + 1 BY <2>2
  <2> QED BY <2>1, <2>2, <2>5, <2>6, <2>7 DEF Extends, n
<1> QED BY <1>1, <1>2

\* Nor does a list of edges, paired one after the other.
LEMMA PairAllKeeps ==
    ASSUME NEW E, NEW known \in Seq(E), NEW edges \in Seq(E)
    PROVE  PairAll(known, edges) \in Seq(E) /\ Extends(known, PairAll(known, edges), ToSet(edges))
<1> DEFINE n == Len(edges)
           X == Seq(E)
           G == [k \in 1 .. n |-> [m \in X |-> Pair(m, edges[k])]]
           Defines(f) == f = [k \in 0 .. n |-> IF k = 0 THEN known
                                               ELSE Pair(f[k - 1], edges[k])]
           f == CHOOSE f : Defines(f)
<1>0. n \in Nat /\ DOMAIN edges = 1 .. n /\ \A k \in 1 .. n : edges[k] \in E /\ edges[k] \in ToSet(edges)
  BY DEF ToSet
<1> HIDE DEF n
<1>2. G \in Steps(n, X)
  <2>1. \A k \in 1 .. n : \A m \in X : Pair(m, edges[k]) \in X BY <1>0, PairKeeps
  <2> HIDE DEF X
  <2> QED BY <2>1 DEF Steps
<1>3. \E h : Defines(h)
  <2>1. PICK h \in [0 .. n -> X] : h[0] = known /\ \A k \in 1 .. n : h[k] = G[k][h[k - 1]]
    <3>1. n \in Nat /\ known \in X BY <1>0
    <3> HIDE DEF G, X
    <3>2. Iteration(n, X, known, G) # {} BY <1>2, <3>1, Iterates
    <3> QED BY <3>2 DEF Iteration
  <2> HIDE DEF X
  <2>2. ASSUME NEW k \in 1 .. n PROVE h[k] = Pair(h[k - 1], edges[k])
    <3>1. h[k - 1] \in X BY <1>0
    <3> QED BY <2>1, <3>1
  <2>3. \A k \in 0 .. n : h[k] = IF k = 0 THEN known ELSE Pair(h[k - 1], edges[k])
    <3>1. \A k \in 0 .. n : k = 0 \/ k \in 1 .. n BY <1>0
    <3> QED BY <2>1, <2>2, <3>1
  <2>4. h = [k \in 0 .. n |-> h[k]] OBVIOUS
  <2>5. Defines(h) BY <2>3, <2>4
  <2> QED BY <2>5
<1>4. Defines(f)
  <2> HIDE DEF Defines
  <2> QED BY <1>3
<1>5. PairAll(known, edges) = f[n]
  BY DEF PairAll, n
<1> HIDE DEF f
<1>6. \A k \in 0 .. n : f[k] = IF k = 0 THEN known ELSE Pair(f[k - 1], edges[k])
  BY <1>4, Zenon
<1> DEFINE N == {k \in Nat : k <= n => f[k] \in X /\ Extends(known, f[k], ToSet(edges))}
<1>7. 0 \in N
  <2>1. f[0] = known BY <1>0, <1>6
  <2>2. Len(known) \in Nat OBVIOUS
  <2>3. Extends(known, known, ToSet(edges)) BY <2>2 DEF Extends
  <2> QED BY <2>1, <2>3
<1>8. ASSUME NEW k \in Nat, k \in N PROVE k + 1 \in N
  <2> SUFFICES ASSUME k + 1 <= n PROVE f[k + 1] \in X /\ Extends(known, f[k + 1], ToSet(edges))
    OBVIOUS
  <2> DEFINE x == f[k]
             e == edges[k + 1]
  <2>1. x \in X /\ Extends(known, x, ToSet(edges)) BY <1>0, <1>8
  <2>2. f[k + 1] = Pair(x, e)
    <3>1. k + 1 \in 0 .. n /\ k + 1 # 0 /\ (k + 1) - 1 = k BY <1>0
    <3> QED BY <1>6, <3>1
  <2>3. e \in E /\ e \in ToSet(edges) BY <1>0
  <2> HIDE DEF x, e
  <2>4. Pair(x, e) \in Seq(E) /\ Extends(x, Pair(x, e), {e}) BY <2>1, <2>3, PairKeeps
  <2> DEFINE y == Pair(x, e)
  <2> HIDE DEF y
  <2>5. y \in Seq(E) /\ Extends(x, y, {e}) BY <2>4 DEF y
  <2>6. Len(known) \in Nat /\ Len(x) \in Nat /\ Len(y) \in Nat BY <2>1, <2>5
  <2>7. Len(known) <= Len(x) /\ Len(x) <= Len(y) BY <2>1, <2>5 DEF Extends
  <2>8. \A i \in 1 .. Len(known) : y[i] = known[i]
    <3>1. \A i \in 1 .. Len(known) : i \in 1 .. Len(x) BY <2>6, <2>7
    <3> QED BY <2>1, <2>5, <3>1 DEF Extends
  <2>9. ToSet(y) \subseteq ToSet(known) \cup ToSet(edges)
    BY <2>1, <2>3, <2>5 DEF Extends
  <2>10. PairsInjective(known) => PairsInjective(y)
    BY <2>1, <2>5 DEF Extends
  <2>11. Extends(known, y, ToSet(edges)) BY <2>6, <2>7, <2>8, <2>9, <2>10 DEF Extends
  <2> QED BY <2>2, <2>5, <2>11 DEF y
<1>9. Nat \subseteq N
  <2> HIDE DEF N
  <2> QED BY <1>7, <1>8, Numbers
<1> QED BY <1>0, <1>5, <1>9

-----------------------------------------------------------------------------
(* Edges and arms of two blocks. *)

\* A case leads to a block.
LEMMA CaseTargetIs ==
    ASSUME NEW f, NativeGraph(f), NEW b \in DOMAIN f, f[b].kind = "switch",
           NEW l \in ToSet(f[b].labels)
    PROVE  CaseTarget(f[b], l) \in DOMAIN f
<1> DEFINE labels == f[b].labels
           succ == f[b].succ
           i == SelectInSeq(labels, LAMBDA m : m = l)
<1>1. /\ labels \in Seq(ToSet(labels)) /\ succ \in Seq(DOMAIN f) /\ Len(succ) = 1 + Len(labels)
  BY DEF NativeGraph, IsSeq
<1>2. l \in ToSet(labels) OBVIOUS
<1>3. CaseTarget(f[b], l) = succ[1 + i] BY DEF CaseTarget
<1> HIDE DEF labels, succ
<1>4. Len(labels) \in Nat /\ \E j \in 1 .. Len(labels) : labels[j] = l
  BY <1>1, <1>2 DEF ToSet
<1>5. i \in 1 .. Len(labels)
  <2> DEFINE I == {j \in 1 .. Len(labels) : labels[j] = l}
  <2>1. I # {} /\ I \subseteq Nat BY <1>4
  <2>2. i = Min(I) BY <2>1 DEF SelectInSeq
  <2>3. Min(I) \in I
    <3> HIDE DEF I
    <3> QED BY <2>1, MinIs
  <2> QED BY <2>2, <2>3
<1> HIDE DEF i
<1>6. 1 + i \in 1 .. Len(succ) BY <1>1, <1>4, <1>5
<1> QED BY <1>1, <1>3, <1>6

Edges == [left : DOMAIN left, right : DOMAIN right]

\* The shared edges of two blocks of one kind join blocks of the two functions;
\* those of two switches are the default's and one for each common label.
LEMMA SharedEdgesAre ==
    ASSUME NativeGraph(left), NativeGraph(right),
           NEW i \in DOMAIN left, NEW j \in DOMAIN right, left[i].kind = right[j].kind
    PROVE  /\ SharedEdges(left[i], right[j]) \in Seq(Edges)
           /\ left[i].kind = "switch" =>
                 /\ [left |-> left[i].succ[1], right |-> right[j].succ[1]]
                       \in ToSet(SharedEdges(left[i], right[j]))
                 /\ \A l \in ToSet(left[i].labels) \cap ToSet(right[j].labels) :
                       [left |-> CaseTarget(left[i], l), right |-> CaseTarget(right[j], l)]
                          \in ToSet(SharedEdges(left[i], right[j]))
<1> DEFINE a == left[i]
           b == right[j]
<1>1. /\ a.succ \in Seq(DOMAIN left) /\ b.succ \in Seq(DOMAIN right)
      /\ a.kind \in {"br", "cond", "switch", "return", "unreachable"}
      /\ a.kind # "switch" => Len(a.succ) = Len(b.succ)
      /\ a.kind = "switch" => Len(a.succ) = 1 + Len(a.labels) /\ Len(b.succ) = 1 + Len(b.labels)
      /\ IsSeq(a.labels) /\ IsSeq(b.labels)
  BY DEF NativeGraph
<1>2. CASE a.kind # "switch"
  <2> DEFINE e == [k \in DOMAIN a.succ |-> [left |-> a.succ[k], right |-> b.succ[k]]]
  <2>1. SharedEdges(a, b) = e BY <1>2 DEF SharedEdges
  <2>2. DOMAIN a.succ = 1 .. Len(a.succ) /\ DOMAIN b.succ = DOMAIN a.succ /\ Len(a.succ) \in Nat
    BY <1>1, <1>2
  <2>3. \A k \in DOMAIN a.succ : e[k] \in Edges BY <1>1, <2>2 DEF Edges
  <2>4. e \in Seq(Edges)
    <3>1. e = [k \in DOMAIN a.succ |-> e[k]] OBVIOUS
    <3> HIDE DEF e
    <3> QED BY <2>2, <2>3, <3>1
  <2> QED BY <1>2, <2>1, <2>4
<1>3. CASE a.kind = "switch"
  <2> DEFINE L == ToSet(b.labels)
             shared == Only(b.labels, ToSet(a.labels))
             Edge(l) == [left |-> CaseTarget(a, l), right |-> CaseTarget(b, l)]
             d == [left |-> a.succ[1], right |-> b.succ[1]]
             e == [k \in DOMAIN shared |-> Edge(shared[k])]
  <2>1. SharedEdges(a, b) = <<d>> \o e BY <1>3 DEF SharedEdges
  <2>2. shared \in Seq(L) /\ ToSet(shared) = L \cap ToSet(a.labels)
    <3>1. b.labels \in Seq(L) BY <1>1 DEF IsSeq
    <3> HIDE DEF L
    <3> QED BY <3>1, OnlyIs DEF L
  <2>3. d \in Edges
    <3>1. Len(a.labels) \in Nat /\ Len(b.labels) \in Nat BY <1>1 DEF IsSeq
    <3>2. Len(a.succ) >= 1 /\ Len(b.succ) >= 1 BY <1>1, <1>3, <3>1
    <3>3. a.succ[1] \in DOMAIN left /\ b.succ[1] \in DOMAIN right BY <1>1, <3>2
    <3> QED BY <3>3 DEF Edges
  <2>4. ASSUME NEW l \in ToSet(shared) PROVE Edge(l) \in Edges
    <3>1. l \in ToSet(a.labels) /\ l \in ToSet(b.labels) BY <2>2
    <3>2. CaseTarget(a, l) \in DOMAIN left BY <1>3, <3>1, CaseTargetIs
    <3>3. CaseTarget(b, l) \in DOMAIN right BY <1>3, <3>1, CaseTargetIs
    <3> QED BY <3>2, <3>3 DEF Edges
  <2>5. DOMAIN shared = 1 .. Len(shared) /\ Len(shared) \in Nat BY <2>2
  <2>6. \A k \in DOMAIN shared : shared[k] \in ToSet(shared) BY DEF ToSet
  <2>7. \A k \in DOMAIN shared : e[k] = Edge(shared[k]) OBVIOUS
  <2>8. e = [k \in DOMAIN shared |-> e[k]] OBVIOUS
  <2> HIDE DEF shared, Edge, d, e
  <2>9. e \in Seq(Edges)
    <3>1. \A k \in 1 .. Len(shared) : e[k] \in Edges BY <2>4, <2>5, <2>6, <2>7
    <3> QED BY <2>5, <2>8, <3>1
  <2>10. <<d>> \in Seq(Edges) /\ ToSet(<<d>>) = {d}
    <3>1. DOMAIN <<d>> = {1} /\ <<d>>[1] = d OBVIOUS
    <3> QED BY <2>3, <3>1 DEF ToSet
  <2>11. <<d>> \o e \in Seq(Edges) /\ ToSet(<<d>> \o e) = {d} \cup ToSet(e)
    <3> DEFINE x == <<d>>
               A == Edges
    <3>1. x \in Seq(A) /\ e \in Seq(A) /\ ToSet(x) = {d} BY <2>9, <2>10
    <3> HIDE DEF x, A
    <3>2. x \o e \in Seq(A) /\ ToSet(x \o e) = ToSet(x) \cup ToSet(e) BY <3>1, ConcatToSet
    <3> QED BY <3>1, <3>2 DEF x, A
  <2>12. ASSUME NEW l \in ToSet(a.labels) \cap ToSet(b.labels) PROVE Edge(l) \in ToSet(e)
    <3>1. PICK k \in DOMAIN shared : shared[k] = l BY <2>2 DEF ToSet
    <3>2. e[k] = Edge(l) /\ k \in DOMAIN e BY <2>7, <2>8, <3>1
    <3> QED BY <3>2 DEF ToSet
  <2> QED BY <2>1, <2>11, <2>12 DEF d, Edge
<1> QED BY <1>2, <1>3

\* The arms of two switches start at labels only one of them has.
LEMMA NewArmsAre ==
    ASSUME NativeGraph(left), NativeGraph(right), NEW p \in Edges,
           left[p.left].kind = "switch", right[p.right].kind = "switch"
    PROVE  LET new == NewArms(p, left[p.left], right[p.right])
           IN  IsSeq(new) /\ \A arm \in ToSet(new) : ArmSound(arm) /\ arm.chain = <<>>
<1> DEFINE a == left[p.left]
           b == right[p.right]
           F == ToSet(a.labels)
           G == ToSet(b.labels)
           D == (F \cup G) \ (F \cap G)
           labels == Only(MergeOrder(a.labels, b.labels), D)
           Side(l) == IF l \in F THEN "left" ELSE "right"
           Arm(l) == [side |-> Side(l), source |-> p[Side(l)], label |-> l, chain |-> <<>>]
           new == [k \in DOMAIN labels |-> Arm(labels[k])]
<1>0. p.left \in DOMAIN left /\ p.right \in DOMAIN right
  BY DEF Edges
<1>1. NewArms(p, a, b) = new
  BY DEF NewArms
<1>2. a.labels \in Seq(F \cup G) /\ b.labels \in Seq(F \cup G)
  <2>1. a.labels \in Seq(F) /\ b.labels \in Seq(G) BY <1>0 DEF NativeGraph, IsSeq
  <2> HIDE DEF F, G
  <2> QED BY <2>1
<1>3. labels \in Seq(F \cup G) /\ ToSet(labels) \subseteq D
  <2> DEFINE o == MergeOrder(a.labels, b.labels)
             A == F \cup G
  <2>1. o \in Seq(A) BY <1>2, MergeKeeps
  <2> HIDE DEF F, G, D, o, A
  <2>2. Only(o, D) \in Seq(A) /\ ToSet(Only(o, D)) = ToSet(o) \cap D BY <2>1, OnlyIs
  <2> QED BY <2>2 DEF o, A
<1>4. DOMAIN labels = 1 .. Len(labels) /\ Len(labels) \in Nat
  BY <1>3
<1>5. \A k \in DOMAIN labels : labels[k] \in ToSet(labels)
  BY DEF ToSet
<1>6. ASSUME NEW l \in D PROVE ArmSound(Arm(l)) /\ Arm(l).chain = <<>>
  <2>1. CASE l \in F
    <3>1. Arm(l) = [side |-> "left", source |-> p.left, label |-> l, chain |-> <<>>] BY <2>1
    <3> HIDE DEF Arm
    <3> QED BY <1>0, <2>1, <3>1 DEF ArmSound, Sides, Function
  <2>2. CASE l \notin F
    <3>1. Arm(l) = [side |-> "right", source |-> p.right, label |-> l, chain |-> <<>>] BY <2>2
    <3>2. l \in G BY <2>2
    <3> HIDE DEF Arm
    <3> QED BY <1>0, <3>1, <3>2 DEF ArmSound, Sides, Function
  <2> QED BY <2>1, <2>2
<1>7. \A k \in DOMAIN labels : new[k] = Arm(labels[k])
  OBVIOUS
<1>8. DOMAIN new = DOMAIN labels /\ new = [k \in DOMAIN labels |-> new[k]]
  OBVIOUS
<1> HIDE DEF new, Arm, labels, D
<1>9. IsSeq(new)
  <2>1. \A k \in 1 .. Len(labels) : new[k] \in ToSet(new) BY <1>4, <1>8 DEF ToSet
  <2>2. new \in Seq(ToSet(new)) BY <1>4, <1>8, <2>1
  <2> QED BY <2>2 DEF IsSeq
<1>10. \A arm \in ToSet(new) : \E l \in D : arm = Arm(l)
  BY <1>3, <1>5, <1>7, <1>8 DEF ToSet
<1> QED BY <1>1, <1>6, <1>9, <1>10

-----------------------------------------------------------------------------
(* The steps of the pairing. *)

\* The block of a side a pair has is one of the function.
LEMMA PairIn ==
    ASSUME NativeGraph(left), NativeGraph(right), NEW p \in PairSet
    PROVE  /\ p.left # 0 => p.left \in DOMAIN left
           /\ p.right # 0 => p.right \in DOMAIN right
           /\ Both(p) => p \in Edges
<1>1. DOMAIN left = 1 .. Len(left) /\ DOMAIN right = 1 .. Len(right)
      /\ Len(left) \in Nat /\ Len(right) \in Nat
  BY DEF NativeGraph, IsSeq
<1>2. /\ p = [left |-> p.left, right |-> p.right]
      /\ p.left \in 0 .. Len(left) /\ p.right \in 0 .. Len(right)
  BY DEF PairSet
<1>3. p.left # 0 => p.left \in 1 .. Len(left)
  BY <1>1, <1>2
<1>4. p.right # 0 => p.right \in 1 .. Len(right)
  BY <1>1, <1>2
<1> QED BY <1>1, <1>2, <1>3, <1>4 DEF Edges, Both

\* An edge is a pair, of two blocks.
LEMMA EdgeIn ==
    ASSUME NativeGraph(left), NativeGraph(right), NEW e \in Edges
    PROVE  e \in PairSet /\ Both(e)
<1>1. DOMAIN left = 1 .. Len(left) /\ DOMAIN right = 1 .. Len(right)
      /\ Len(left) \in Nat /\ Len(right) \in Nat
  BY DEF NativeGraph, IsSeq
<1>2. e = [left |-> e.left, right |-> e.right] /\ e.left \in DOMAIN left /\ e.right \in DOMAIN right
  BY DEF Edges
<1>3. e.left \in 0 .. Len(left) /\ e.left # 0 /\ e.right \in 0 .. Len(right) /\ e.right # 0
  BY <1>1, <1>2
<1> QED BY <1>2, <1>3 DEF PairSet, Both

\* One element more.
LEMMA AppendSet ==
    ASSUME NEW s, IsSeq(s), NEW e
    PROVE  IsSeq(Append(s, e)) /\ ToSet(Append(s, e)) = ToSet(s) \cup {e}
<1> DEFINE A == ToSet(s) \cup {e}
           r == Append(s, e)
<1>1. s \in Seq(A) /\ e \in A
  <2>1. s \in Seq(ToSet(s)) BY DEF IsSeq
  <2> QED BY <2>1
<1> HIDE DEF A
<1>2. /\ r \in Seq(A) /\ Len(r) = Len(s) + 1 /\ r[Len(s) + 1] = e
      /\ \A k \in 1 .. Len(s) : r[k] = s[k]
  BY <1>1, AppendProperties, Z3
<1>3. Len(s) \in Nat /\ DOMAIN s = 1 .. Len(s)
  BY <1>1
<1> HIDE DEF r
<1>4. DOMAIN r = 1 .. Len(s) + 1 /\ \A k \in 1 .. Len(s) + 1 : k \in 1 .. Len(s) \/ k = Len(s) + 1
  BY <1>2, <1>3
<1>5. ToSet(r) = A
  <2>1. \A x \in ToSet(r) : x \in A BY <1>2, <1>3, <1>4 DEF ToSet, A
  <2>2. ASSUME NEW x \in A PROVE x \in ToSet(r)
    <3>1. CASE x = e
      <4>1. Len(s) + 1 \in DOMAIN r BY <1>3, <1>4
      <4> QED BY <1>2, <3>1, <4>1 DEF ToSet
    <3>2. CASE x \in ToSet(s)
      <4>1. PICK k \in 1 .. Len(s) : x = s[k] BY <1>3, <3>2 DEF ToSet
      <4>2. k \in DOMAIN r BY <1>3, <1>4
      <4> QED BY <1>2, <4>1, <4>2 DEF ToSet
    <3> QED BY <3>1, <3>2 DEF A
  <2> QED BY <2>1, <2>2
<1> QED BY <1>2, <1>5 DEF A, r, IsSeq

\* The elements of one sequence behind another.
LEMMA ConcatSet ==
    ASSUME NEW s, NEW t, IsSeq(s), IsSeq(t)
    PROVE  IsSeq(s \o t) /\ ToSet(s \o t) = ToSet(s) \cup ToSet(t)
<1> DEFINE A == ToSet(s) \cup ToSet(t)
<1>1. s \in Seq(A) /\ t \in Seq(A)
  <2>1. s \in Seq(ToSet(s)) /\ t \in Seq(ToSet(t)) BY DEF IsSeq
  <2> QED BY <2>1
<1>2. ToSet(s \o t) = A
  BY <1>1, ConcatToSet
<1>3. s \o t \in Seq(A)
  BY <1>1
<1> QED BY <1>2, <1>3 DEF IsSeq

\* What is known of a recorded switch stays known.
LEMMA SwitchKept ==
    ASSUME NEW s, SwitchSound(s), UNCHANGED <<left, right>>, ToSet(pairs) \subseteq ToSet(pairs')
    PROVE  SwitchSound(s)'
BY DEF SwitchSound

\* So does what is known of an arm.
LEMMA ArmKept ==
    ASSUME NEW arm, ArmSound(arm), UNCHANGED <<left, right>>
    PROVE  ArmSound(arm)'
BY DEF ArmSound, Function

\* matchShared looks at one pair of blocks.
LEMMA SharedKeeps ==
    ASSUME Walking, Sharing, MatchShared, stage' # "refused"
    PROVE  stage' = "shared" /\ Walking' /\ Sharing'
<1> DEFINE p == pairs[next]
           a == left[p.left]
           b == right[p.right]
           E == SharedEdges(a, b)
<1>0. /\ stage = "shared" /\ next \in DOMAIN pairs /\ Matching(a, b)
      /\ pairs' = PairAll(pairs, E) /\ next' = next + 1
      /\ IF a.kind = "switch"
         THEN /\ switches' = Append(switches, [left |-> p.left, right |-> p.right,
                                               labels |-> MergeOrder(a.labels, b.labels)])
              /\ arms' = arms \o NewArms(p, a, b)
         ELSE UNCHANGED <<switches, arms>>
      /\ UNCHANGED <<left, right, stage>>
  BY DEF MatchShared, Refuse
<1>1. /\ NativeGraph(left) /\ NativeGraph(right) /\ pairs \in Seq(PairSet) /\ PairsInjective(pairs)
      /\ IsSeq(switches) /\ IsSeq(arms)
  BY DEF Walking
<1>2. p \in ToSet(pairs) /\ p \in PairSet
  BY <1>0, <1>1 DEF ToSet
<1>3. Both(p) /\ p \in Edges
  BY <1>1, <1>2, PairIn DEF Sharing
<1>4. p.left \in DOMAIN left /\ p.right \in DOMAIN right
  BY <1>3 DEF Edges
<1>5. a.kind = b.kind /\ ToSet(E) \subseteq ToSet(PairAll(pairs, E))
  BY <1>0 DEF Matching, Consistent
<1>6. E \in Seq(Edges)
  BY <1>1, <1>4, <1>5, SharedEdgesAre
<1> HIDE DEF p
<1>7. E \in Seq(PairSet)
  <2>1. Edges \subseteq PairSet BY <1>1, EdgeIn
  <2> HIDE DEF E
  <2> QED BY <1>6, <2>1
<1>8. pairs' \in Seq(PairSet) /\ Extends(pairs, pairs', ToSet(E))
  BY <1>0, <1>1, <1>7, PairAllKeeps
<1>9. PairSet' = PairSet
  BY <1>0 DEF PairSet
<1>10. /\ Len(pairs) \in Nat /\ Len(pairs') \in Nat /\ DOMAIN pairs = 1 .. Len(pairs)
       /\ DOMAIN pairs' = 1 .. Len(pairs') /\ next \in 1 .. Len(pairs)
  BY <1>0, <1>1, <1>8
<1>11. Len(pairs) <= Len(pairs') /\ \A k \in 1 .. Len(pairs) : pairs'[k] = pairs[k]
  BY <1>8 DEF Extends
<1>12. ToSet(pairs) \subseteq ToSet(pairs')
  <2>1. \A k \in 1 .. Len(pairs) : k \in DOMAIN pairs' BY <1>10, <1>11
  <2> QED BY <1>10, <1>11, <2>1 DEF ToSet
<1>13. PairsInjective(pairs)'
  <2>1. PairsInjective(pairs') BY <1>1, <1>8 DEF Extends
  <2> QED BY <2>1 DEF PairsInjective
<1>14. \A q \in ToSet(pairs') : Both(q)
  <2>1. \A q \in ToSet(E) : q \in Edges BY <1>6 DEF ToSet
  <2>2. \A q \in ToSet(E) : Both(q) BY <1>1, <2>1, EdgeIn
  <2>3. ToSet(pairs') \subseteq ToSet(pairs) \cup ToSet(E) BY <1>8 DEF Extends
  <2> QED BY <2>2, <2>3 DEF Sharing
<1>15. ToSet(E) \subseteq ToSet(pairs')
  BY <1>0, <1>5
<1>16. /\ IsSeq(switches') /\ ToSet(switches) \subseteq ToSet(switches')
       /\ \A s \in ToSet(switches') : SwitchSound(s)'
       /\ a.kind = "switch" => \E s \in ToSet(switches') : s.left = p.left /\ s.right = p.right
  <2>1. \A s \in ToSet(switches) : SwitchSound(s)' BY <1>0, <1>12, SwitchKept DEF Walking
  <2>2. CASE a.kind # "switch" BY <1>0, <1>1, <2>1, <2>2
  <2>3. CASE a.kind = "switch"
    <3>0. PICK n : n = [left |-> p.left, right |-> p.right,
                        labels |-> MergeOrder(a.labels, b.labels)]
      OBVIOUS
    <3>1. switches' = Append(switches, n) BY <1>0, <2>3, <3>0
    <3>2. n.left = p.left /\ n.right = p.right /\ n.labels = MergeOrder(a.labels, b.labels)
      BY <3>0
    <3>3. IsSeq(switches') /\ ToSet(switches') = ToSet(switches) \cup {n}
      BY <1>1, <3>1, AppendSet
    <3>4. Ordered(a.labels, b.labels) /\ b.kind = "switch" BY <1>0, <1>5, <2>3 DEF Matching
    <3>5. SwitchSound(n)' BY <1>0, <1>4, <1>15, <2>3, <3>2, <3>4 DEF SwitchSound
    <3> QED BY <2>1, <3>2, <3>3, <3>5
  <2> QED BY <2>2, <2>3
<1>17. IsSeq(arms') /\ \A arm \in ToSet(arms') : ArmSound(arm)' /\ arm.chain = <<>>
  <2>1. \A arm \in ToSet(arms) : ArmSound(arm)' /\ arm.chain = <<>>
    BY <1>0, ArmKept DEF Walking, Sharing
  <2>2. CASE a.kind # "switch" BY <1>0, <1>1, <2>1, <2>2
  <2>3. CASE a.kind = "switch"
    <3> DEFINE new == NewArms(p, a, b)
    <3>1. IsSeq(new) /\ \A arm \in ToSet(new) : ArmSound(arm) /\ arm.chain = <<>>
      BY <1>1, <1>3, <1>5, <2>3, NewArmsAre
    <3>2. arms' = arms \o new BY <1>0, <2>3
    <3> HIDE DEF new
    <3>3. IsSeq(arms') /\ ToSet(arms') = ToSet(arms) \cup ToSet(new)
      BY <1>1, <3>1, <3>2, ConcatSet
    <3>4. \A arm \in ToSet(new) : ArmSound(arm)' BY <1>0, <3>1, ArmKept
    <3> QED BY <2>1, <3>1, <3>3, <3>4
  <2> QED BY <2>2, <2>3
<1>18. ASSUME NEW k \in 1 .. next' - 1 PROVE Matched(pairs[k])'
  <2>1. k \in 1 .. Len(pairs) /\ (k \in 1 .. next - 1 \/ k = next) BY <1>0, <1>10
  <2>2. pairs'[k] = pairs[k] BY <1>11, <2>1
  <2>3. CASE k \in 1 .. next - 1
    BY <1>0, <1>16, <2>2, <2>3 DEF Sharing, Matched
  <2>4. CASE k = next
    <3>1. pairs'[k] = p BY <2>2, <2>4 DEF p
    <3> QED BY <1>0, <1>5, <1>16, <3>1 DEF Matched
  <2> QED BY <2>1, <2>3, <2>4
<1>19. next' \in 1 .. Len(pairs') + 1
  BY <1>0, <1>10, <1>11
<1>20. Walking'
  <2>1. NativeGraph(left)' /\ NativeGraph(right)' BY <1>0, <1>1 DEF NativeGraph
  <2>2. IsSeq(switches)' /\ IsSeq(arms)' BY <1>16, <1>17 DEF IsSeq
  <2> QED BY <1>8, <1>9, <1>13, <1>16, <1>17, <2>1, <2>2 DEF Walking
<1>21. Sharing'
  BY <1>14, <1>17, <1>18, <1>19 DEF Sharing, Both
<1> QED BY <1>0, <1>20, <1>21

\* All shared blocks are known.
LEMMA SharedMatchedKeeps ==
    ASSUME Walking, Sharing, SharedMatched, stage' # "refused"
    PROVE  stage' = "arms" /\ Walking' /\ Branching'
<1>0. /\ stage' = "arms" /\ next' = 1 /\ next > Len(pairs)
      /\ UNCHANGED <<left, right, pairs, switches, arms>>
  BY DEF SharedMatched, Refuse
<1>1. Len(pairs) \in Nat /\ DOMAIN pairs = 1 .. Len(pairs) /\ Len(arms) \in Nat
      /\ DOMAIN arms = 1 .. Len(arms)
  BY DEF Walking, IsSeq
<1>2. Walking'
  BY <1>0 DEF Walking, NativeGraph, IsSeq, PairSet, PairsInjective, SwitchSound, ArmSound, Function
<1>3. \A q \in ToSet(pairs) : Both(q) /\ Matched(q)
  <2>1. next - 1 = Len(pairs) BY <1>0, <1>1 DEF Sharing
  <2> QED BY <1>1, <2>1 DEF Sharing, ToSet
<1>4. \A k \in DOMAIN arms : arms[k].chain = <<>>
  BY DEF Sharing, ToSet
<1>5. next' \in DOMAIN arms => ChainSound(arms[next])'
  <2> SUFFICES ASSUME next' \in DOMAIN arms PROVE ChainSound(arms[next])' OBVIOUS
  <2>1. arms'[next'].chain = <<>> BY <1>0, <1>4
  <2>2. ToSet(<<>>) = {} /\ IsInjective(<<>>) BY DEF ToSet, IsInjective
  <2> QED BY <2>1, <2>2 DEF ChainSound
<1>6. Branching'
  BY <1>0, <1>1, <1>3, <1>4, <1>5 DEF Branching, Both, Matched
<1> QED BY <1>0, <1>2, <1>6

\* The block an arm reaches is one of its function.
LEMMA ReachedIn ==
    ASSUME NativeGraph(left), NativeGraph(right), NEW arm, ArmSound(arm), ChainSound(arm)
    PROVE  Reached(arm) \in DOMAIN Function(arm.side)
<1>1. PICK f : f = Function(arm.side) OBVIOUS
<1>2. NativeGraph(f)
  BY <1>1 DEF Function
<1>3. CASE arm.chain = <<>>
  <2>1. Reached(arm) = CaseTarget(f[arm.source], arm.label) BY <1>1, <1>3 DEF Reached
  <2>2. arm.source \in DOMAIN f /\ f[arm.source].kind = "switch" /\ arm.label \in ToSet(f[arm.source].labels)
    BY <1>1 DEF ArmSound
  <2> QED BY <1>1, <1>2, <2>1, <2>2, CaseTargetIs
<1>4. CASE arm.chain # <<>>
  <2> DEFINE b == Last(arm.chain)
  <2>1. Reached(arm) = f[b].succ[1] BY <1>1, <1>4 DEF Reached
  <2>2. arm.chain \in Seq(DOMAIN f) BY <1>1 DEF ChainSound
  <2>3. b \in ToSet(arm.chain) /\ b \in DOMAIN f
    <3>1. Len(arm.chain) \in DOMAIN arm.chain BY <1>4, <2>2
    <3> QED BY <2>2, <3>1 DEF Last, ToSet
  <2>4. f[b].kind = "br" BY <1>1, <2>3 DEF ChainSound
  <2>5. f[b].succ \in Seq(DOMAIN f) /\ Len(f[b].succ) = 1 BY <1>2, <2>3, <2>4 DEF NativeGraph
  <2>6. f[b].succ[1] \in DOMAIN f BY <2>5
  <2> QED BY <1>1, <2>1, <2>6
<1> QED BY <1>3, <1>4

\* An arm goes on through a block of its own.
LEMMA ArmGoesOn ==
    ASSUME Walking, Branching, WalkArm, stage' # "refused",
           PairOf(pairs, arms[next].side, Reached(arms[next])) = 0
    PROVE  stage' = "arms" /\ Walking' /\ Branching'
<1>0. PICK arm : arm = arms[next] OBVIOUS
<1>00. PICK r : r = Reached(arms[next]) OBVIOUS
<1>1. /\ stage = "arms" /\ next \in DOMAIN arms /\ OwnBlock(arm)
      /\ arms' = [arms EXCEPT ![next].chain = Append(@, r)]
      /\ UNCHANGED <<left, right, stage, pairs, next, switches>>
  BY <1>0, <1>00 DEF WalkArm, Refuse
<1>2. PICK new : new = [arm EXCEPT !.chain = Append(arm.chain, r)] OBVIOUS
<1>3. arms' = [arms EXCEPT ![next] = new]
  BY <1>0, <1>1, <1>2
<1>4. /\ arms \in Seq(ToSet(arms)) /\ arm \in ToSet(arms) /\ Len(arms) \in Nat
      /\ DOMAIN arms = 1 .. Len(arms) /\ arms = [k \in 1 .. Len(arms) |-> arms[k]]
  BY <1>0, <1>1 DEF Walking, IsSeq, ToSet
<1>5. ArmSound(arm) /\ ChainSound(arm)
  BY <1>0, <1>1, <1>4 DEF Walking, Branching
<1>6. new = [side |-> arm.side, source |-> arm.source, label |-> arm.label,
             chain |-> Append(arm.chain, r)]
  <2>1. arm = [side |-> arm.side, source |-> arm.source, label |-> arm.label, chain |-> arm.chain]
    BY <1>5 DEF ArmSound
  <2> QED BY <1>2, <2>1
<1>7. /\ DOMAIN arms' = DOMAIN arms /\ arms'[next] = new
      /\ \A k \in DOMAIN arms : k # next => arms'[k] = arms[k]
  BY <1>1, <1>3, <1>4
<1>8. IsSeq(arms)' /\ Len(arms') = Len(arms)
  <2>1. arms' = [k \in 1 .. Len(arms) |-> arms'[k]] BY <1>3, <1>4
  <2>2. \A k \in 1 .. Len(arms) : arms'[k] \in ToSet(arms') BY <1>4, <1>7 DEF ToSet
  <2>3. arms' \in Seq(ToSet(arms')) /\ Len(arms') = Len(arms) BY <1>4, <2>1, <2>2
  <2> QED BY <2>3 DEF IsSeq
<1>9. ToSet(arms') \subseteq ToSet(arms) \cup {new}
  BY <1>7 DEF ToSet
<1>10. ArmSound(new)'
  BY <1>1, <1>5, <1>6 DEF ArmSound, Function
<1>11. \A x \in ToSet(arms') : ArmSound(x)'
  <2>1. \A x \in ToSet(arms) : ArmSound(x)' BY <1>1, ArmKept DEF Walking
  <2> QED BY <1>9, <1>10, <2>1
<1>12. Walking'
  <2>1. NativeGraph(left)' /\ NativeGraph(right)' BY <1>1 DEF Walking, NativeGraph
  <2>2. pairs' \in Seq(PairSet)' /\ PairsInjective(pairs)' /\ IsSeq(switches)'
    BY <1>1 DEF Walking, PairSet, PairsInjective, IsSeq
  <2>3. \A s \in ToSet(switches') : SwitchSound(s)' BY <1>1, SwitchKept DEF Walking
  <2> QED BY <1>8, <1>11, <2>1, <2>2, <2>3 DEF Walking
<1>13. ChainSound(new)'
  <2>1. PICK f : f = Function(arm.side) OBVIOUS
  <2>2. Function(new.side)' = f BY <1>1, <1>6, <2>1 DEF Function
  <2>3. r = Reached(arm) /\ r \in DOMAIN f BY <1>0, <1>00, <1>5, <2>1, ReachedIn DEF Walking
  <2>4. f[r].kind = "br" /\ ~ Contains(arm.chain, r) BY <1>1, <2>1, <2>3 DEF OwnBlock
  <2>5. \A i \in DOMAIN pairs : pairs[i][arm.side] # r
    <3>1. PairOf(pairs, arm.side, r) = 0 /\ pairs \in Seq(PairSet) BY <1>0, <1>00 DEF Walking
    <3> QED BY <3>1, PairOfIs
  <2> DEFINE c == arm.chain
             d == Append(c, r)
             n == Len(c)
  <2>6. c \in Seq(DOMAIN f) /\ IsInjective(c) BY <1>5, <2>1 DEF ChainSound
  <2>7. \A b \in ToSet(c) : f[b].kind = "br" /\ \A q \in ToSet(pairs) : q[arm.side] # b
    BY <1>5, <2>1 DEF ChainSound
  <2> HIDE DEF c
  <2>8. /\ d \in Seq(DOMAIN f) /\ Len(d) = n + 1 /\ d[n + 1] = r /\ \A k \in 1 .. n : d[k] = c[k]
        /\ n \in Nat /\ DOMAIN c = 1 .. n
    BY <2>3, <2>6, AppendProperties, Z3
  <2>9. r \notin ToSet(c) BY <2>4 DEF Contains, ToSet, c
  <2> HIDE DEF d, n
  <2>10. DOMAIN d = 1 .. n + 1 /\ \A k \in 1 .. n + 1 : k \in 1 .. n \/ k = n + 1 BY <2>8
  <2>11. IsInjective(d)
    <3> SUFFICES ASSUME NEW i \in 1 .. n + 1, NEW j \in 1 .. n + 1, d[i] = d[j] PROVE i = j
      BY <2>10 DEF IsInjective
    <3>1. \A k \in 1 .. n : c[k] # r BY <2>8, <2>9 DEF ToSet
    <3>2. CASE i \in 1 .. n /\ j \in 1 .. n BY <2>6, <2>8, <3>2 DEF IsInjective
    <3>3. CASE i = n + 1 \/ j = n + 1 BY <2>8, <2>10, <3>1, <3>3
    <3> QED BY <2>10, <3>2, <3>3
  <2>12. ToSet(d) \subseteq ToSet(c) \cup {r} BY <2>8, <2>10 DEF ToSet
  <2>13. \A b \in ToSet(d) : f[b].kind = "br" /\ \A q \in ToSet(pairs) : q[arm.side] # b
    <3>1. \A q \in ToSet(pairs) : q[arm.side] # r BY <2>5 DEF ToSet
    <3> QED BY <2>4, <2>7, <2>12, <3>1
  <2>14. new.chain = d /\ new.side = arm.side BY <1>6 DEF c, d
  <2>15. pairs' = pairs BY <1>1
  <2> QED BY <2>2, <2>8, <2>11, <2>13, <2>14, <2>15 DEF ChainSound
<1>14. Branching'
  <2>1. next' \in 1 .. Len(arms') + 1 BY <1>1, <1>8 DEF Branching
  <2>2. \A q \in ToSet(pairs') : Both(q) => Matched(q)' BY <1>1 DEF Branching, Matched
  <2>3. \A q \in ToSet(pairs') : \A side \in Sides :
           ~ Both(q) /\ q[side] # 0 => (Function(side)[q[side]].kind)' = "br"
    BY <1>1 DEF Branching, Function
  <2>4. \A k \in DOMAIN arms' : k > next' => arms'[k].chain = <<>>
    BY <1>1, <1>4, <1>7 DEF Branching
  <2>5. ChainSound(arms[next])'
    <3>1. arms'[next'] = new BY <1>1, <1>7
    <3> QED BY <1>13, <3>1 DEF ChainSound
  <2> QED BY <2>1, <2>2, <2>3, <2>4, <2>5 DEF Branching, Both
<1> QED BY <1>1, <1>12, <1>14

\* Pairs of blocks that had none.
LEMMA PairsAdded ==
    ASSUME NEW E, NEW known \in Seq(E), NEW new \in Seq(E),
           PairsInjective(known), PairsInjective(new),
           \A i \in DOMAIN known : \A j \in DOMAIN new : \A side \in Sides :
              known[i][side] = new[j][side] => new[j][side] = 0
    PROVE  PairsInjective(known \o new)
<1> DEFINE r == known \o new
           n == Len(known)
<1>1. /\ n \in Nat /\ Len(new) \in Nat /\ DOMAIN r = 1 .. n + Len(new)
      /\ DOMAIN known = 1 .. n /\ DOMAIN new = 1 .. Len(new)
      /\ \A i \in 1 .. n + Len(new) : r[i] = IF i <= n THEN known[i] ELSE new[i - n]
  OBVIOUS
<1> HIDE DEF r, n
<1> SUFFICES ASSUME NEW i \in DOMAIN r, NEW j \in DOMAIN r, NEW side \in Sides,
                    r[i][side] = r[j][side], r[i][side] # 0
             PROVE  i = j
  BY DEF PairsInjective, r
<1>2. \A k \in DOMAIN r : (k \in 1 .. n /\ r[k] = known[k])
                            \/ (k - n \in 1 .. Len(new) /\ r[k] = new[k - n])
  BY <1>1
<1>3. CASE i \in 1 .. n /\ r[i] = known[i] /\ j \in 1 .. n /\ r[j] = known[j]
  BY <1>1, <1>3 DEF PairsInjective
<1>4. CASE i \in 1 .. n /\ r[i] = known[i] /\ j - n \in 1 .. Len(new) /\ r[j] = new[j - n]
  BY <1>1, <1>4
<1>5. CASE j \in 1 .. n /\ r[j] = known[j] /\ i - n \in 1 .. Len(new) /\ r[i] = new[i - n]
  BY <1>1, <1>5
<1>6. CASE i - n \in 1 .. Len(new) /\ r[i] = new[i - n] /\ j - n \in 1 .. Len(new) /\ r[j] = new[j - n]
  <2>1. i - n = j - n BY <1>1, <1>6 DEF PairsInjective
  <2> QED BY <1>1, <2>1
<1> QED BY <1>2, <1>3, <1>4, <1>5, <1>6

\* The pairs of the blocks an arm came through.
ChainPairs(arm) ==
    [k \in DOMAIN arm.chain |->
        IF arm.side = "left" THEN [left |-> arm.chain[k], right |-> 0]
        ELSE [left |-> 0, right |-> arm.chain[k]]]

\* They are pairs of one block each, of blocks that had none.
LEMMA ChainPairsAre ==
    ASSUME NativeGraph(left), NativeGraph(right), NEW arm, ArmSound(arm), ChainSound(arm),
           pairs \in Seq(PairSet), PairsInjective(pairs)
    PROVE  /\ ChainPairs(arm) \in Seq(PairSet)
           /\ PairsInjective(pairs \o ChainPairs(arm))
           /\ \A p \in ToSet(ChainPairs(arm)) : ~ Both(p) /\ \A side \in Sides :
                 p[side] # 0 => Function(side)[p[side]].kind = "br"
<1> DEFINE new == ChainPairs(arm)
           c == arm.chain
<1>1. PICK f : f = Function(arm.side) OBVIOUS
<1>2. /\ c \in Seq(DOMAIN f) /\ IsInjective(c)
      /\ \A b \in ToSet(c) : f[b].kind = "br" /\ \A p \in ToSet(pairs) : p[arm.side] # b
  BY <1>1 DEF ChainSound
<1>3. arm.side \in Sides
  BY DEF ArmSound
<1>4. /\ DOMAIN left = 1 .. Len(left) /\ DOMAIN right = 1 .. Len(right)
      /\ Len(left) \in Nat /\ Len(right) \in Nat
  BY DEF NativeGraph, IsSeq
<1>5. DOMAIN c = 1 .. Len(c) /\ Len(c) \in Nat
  BY <1>2
<1>6. ASSUME NEW k \in DOMAIN c
      PROVE  /\ c[k] \in DOMAIN f /\ c[k] \in ToSet(c)
             /\ arm.side = "left" => new[k] = [left |-> c[k], right |-> 0] /\ f = left
             /\ arm.side = "right" => new[k] = [left |-> 0, right |-> c[k]] /\ f = right
  BY <1>1, <1>2 DEF ChainPairs, ToSet, Function
<1>7. DOMAIN new = DOMAIN c /\ new = [k \in DOMAIN c |-> new[k]]
  BY DEF ChainPairs
<1> HIDE DEF c, new
<1>8. ASSUME NEW k \in DOMAIN c
      PROVE  /\ new[k] \in PairSet /\ ~ Both(new[k]) /\ new[k][arm.side] = c[k]
             /\ \A side \in Sides : side # arm.side => new[k][side] = 0
  <2>1. CASE arm.side = "left"
    <3>1. new[k] = [left |-> c[k], right |-> 0] /\ c[k] \in 1 .. Len(left) BY <1>4, <1>6, <2>1
    <3>2. c[k] \in 0 .. Len(left) /\ 0 \in 0 .. Len(right) BY <1>4, <3>1
    <3> QED BY <2>1, <3>1, <3>2 DEF PairSet, Both, Sides
  <2>2. CASE arm.side = "right"
    <3>1. new[k] = [left |-> 0, right |-> c[k]] /\ c[k] \in 1 .. Len(right) BY <1>4, <1>6, <2>2
    <3>2. c[k] \in 0 .. Len(right) /\ 0 \in 0 .. Len(left) BY <1>4, <3>1
    <3> QED BY <2>2, <3>1, <3>2 DEF PairSet, Both, Sides
  <2> QED BY <1>3, <2>1, <2>2 DEF Sides
<1>9. new \in Seq(PairSet)
  BY <1>5, <1>7, <1>8
<1>10. PairsInjective(new)
  <2> SUFFICES ASSUME NEW i \in DOMAIN c, NEW j \in DOMAIN c, NEW side \in Sides,
                      new[i][side] = new[j][side], new[i][side] # 0
               PROVE  i = j
    BY <1>7 DEF PairsInjective
  <2>1. side = arm.side BY <1>8
  <2>2. c[i] = c[j] BY <1>8, <2>1
  <2> QED BY <1>2, <2>2 DEF IsInjective
<1>11. \A i \in DOMAIN pairs : \A j \in DOMAIN new : \A side \in Sides :
          pairs[i][side] = new[j][side] => new[j][side] = 0
  <2>1. \A i \in DOMAIN pairs : pairs[i] \in ToSet(pairs) BY DEF ToSet
  <2> QED BY <1>2, <1>6, <1>7, <1>8, <2>1
<1>12. PairsInjective(pairs \o new)
  BY <1>9, <1>10, <1>11, PairsAdded
<1>13. ASSUME NEW p \in ToSet(new), NEW side \in Sides, p[side] # 0
       PROVE  Function(side)[p[side]].kind = "br"
  <2>1. PICK k \in DOMAIN c : p = new[k] BY <1>7 DEF ToSet
  <2>2. side = arm.side /\ p[side] = c[k] BY <1>8, <1>13, <2>1
  <2> QED BY <1>1, <1>2, <1>6, <2>2
<1>14. \A p \in ToSet(new) : ~ Both(p)
  BY <1>7, <1>8 DEF ToSet
<1> QED BY <1>9, <1>12, <1>13, <1>14 DEF new

\* An arm is back in shared code.
LEMMA ArmRejoins ==
    ASSUME Walking, Branching, WalkArm, stage' # "refused",
           PairOf(pairs, arms[next].side, Reached(arms[next])) # 0
    PROVE  stage' = "arms" /\ Walking' /\ Branching'
<1>0. PICK arm : arm = arms[next] OBVIOUS
<1>00. PICK new : new = ChainPairs(arm) OBVIOUS
<1>1. /\ stage = "arms" /\ next \in DOMAIN arms
      /\ pairs' = pairs \o new /\ next' = next + 1
      /\ UNCHANGED <<left, right, stage, switches, arms>>
  BY <1>0, <1>00 DEF WalkArm, Refuse, ChainPairs
<1>2. /\ arm \in ToSet(arms) /\ Len(arms) \in Nat /\ DOMAIN arms = 1 .. Len(arms)
  BY <1>0, <1>1 DEF Walking, IsSeq, ToSet
<1>3. ArmSound(arm) /\ ChainSound(arm)
  BY <1>0, <1>1, <1>2 DEF Walking, Branching
<1>4. /\ new \in Seq(PairSet) /\ PairsInjective(pairs \o new)
      /\ \A p \in ToSet(new) : ~ Both(p) /\ \A side \in Sides :
            p[side] # 0 => Function(side)[p[side]].kind = "br"
  BY <1>00, <1>3, ChainPairsAre DEF Walking
<1>5. pairs' \in Seq(PairSet) /\ ToSet(pairs') = ToSet(pairs) \cup ToSet(new)
  BY <1>1, <1>4, ConcatToSet DEF Walking
<1>6. PairSet' = PairSet
  BY <1>1 DEF PairSet
<1>7. PairsInjective(pairs)'
  BY <1>1, <1>4 DEF PairsInjective
<1>8. Walking'
  <2>1. NativeGraph(left)' /\ NativeGraph(right)' BY <1>1 DEF Walking, NativeGraph
  <2>2. IsSeq(switches)' /\ IsSeq(arms)' BY <1>1 DEF Walking, IsSeq
  <2>3. \A s \in ToSet(switches') : SwitchSound(s)' BY <1>1, <1>5, SwitchKept DEF Walking
  <2>4. \A x \in ToSet(arms') : ArmSound(x)' BY <1>1, ArmKept DEF Walking
  <2> QED BY <1>5, <1>6, <1>7, <2>1, <2>2, <2>3, <2>4 DEF Walking
<1>9. Branching'
  <2>1. next' \in 1 .. Len(arms') + 1 BY <1>1, <1>2
  <2>2. \A q \in ToSet(pairs') : Both(q) => Matched(q)' BY <1>1, <1>4, <1>5 DEF Branching, Matched
  <2>3. \A q \in ToSet(pairs') : \A side \in Sides :
           ~ Both(q) /\ q[side] # 0 => (Function(side)[q[side]].kind)' = "br"
    BY <1>1, <1>4, <1>5 DEF Branching, Function
  <2>4. \A k \in DOMAIN arms' : k > next' => arms'[k].chain = <<>>
    BY <1>1, <1>2 DEF Branching
  <2>5. next' \in DOMAIN arms' => ChainSound(arms[next])'
    <3> SUFFICES ASSUME next' \in DOMAIN arms PROVE ChainSound(arms[next])' BY <1>1
    <3>1. arms'[next'].chain = <<>> BY <1>1, <1>2 DEF Branching
    <3>2. ToSet(<<>>) = {} /\ IsInjective(<<>>) BY DEF ToSet, IsInjective
    <3> QED BY <3>1, <3>2 DEF ChainSound
  <2> QED BY <2>1, <2>2, <2>3, <2>4, <2>5 DEF Branching, Both
<1> QED BY <1>1, <1>8, <1>9

-----------------------------------------------------------------------------
(* The end of the pairing. *)

\* The pairs of a function's blocks, in the function's order.
OrderOf(known, side, f) == [b \in DOMAIN f |-> PairOf(known, side, b)]

\* That order names the pair of every block of the function, each once.
LEMMA SideOrder ==
    ASSUME NEW E, NEW known \in Seq(E), PairsInjective(known), NEW side \in Sides,
           NEW f, IsSeq(f), NEW order, order = OrderOf(known, side, f),
           0 \notin ToSet(order)
    PROVE  /\ order \in Seq(DOMAIN known) /\ DOMAIN order = DOMAIN f /\ IsInjective(order)
           /\ \A b \in DOMAIN f : order[b] \in DOMAIN known /\ known[order[b]][side] = b
           /\ ToSet(order) = {i \in DOMAIN known : known[i][side] \in DOMAIN f}
<1>1. DOMAIN f = 1 .. Len(f) /\ Len(f) \in Nat
  BY DEF IsSeq
<1>2. ASSUME NEW b \in DOMAIN f PROVE order[b] \in DOMAIN known /\ known[order[b]][side] = b
  <2>1. order[b] = PairOf(known, side, b) /\ order[b] \in ToSet(order) BY DEF ToSet, OrderOf
  <2>2. order[b] # 0 BY <2>1
  <2> QED BY <2>1, <2>2, PairOfIs
<1>3. DOMAIN order = DOMAIN f /\ order = [b \in DOMAIN f |-> order[b]]
  BY DEF OrderOf
<1>4. order \in Seq(DOMAIN known)
  BY <1>1, <1>2, <1>3
<1>5. IsInjective(order)
  BY <1>2, <1>3 DEF IsInjective
<1>6. ASSUME NEW i \in DOMAIN known, known[i][side] \in DOMAIN f PROVE i \in ToSet(order)
  <2> DEFINE b == known[i][side]
  <2>1. order[b] \in DOMAIN known /\ known[order[b]][side] = b BY <1>2, <1>6
  <2>2. b # 0 BY <1>1, <1>6
  <2>3. order[b] = i BY <2>1, <2>2 DEF PairsInjective
  <2> QED BY <1>3, <1>6, <2>3 DEF ToSet
<1>7. \A i \in ToSet(order) : i \in DOMAIN known /\ known[i][side] \in DOMAIN f
  BY <1>2, <1>3 DEF ToSet
<1> QED BY <1>2, <1>3, <1>4, <1>5, <1>6, <1>7

Column(known, order, side) == [k \in 1 .. Len(order) |-> known[order[k]][side]]
Numbered(f) == [b \in DOMAIN f |-> b]

\* In an order that keeps the function's, the function's blocks are as they were.
LEMMA SideProjects ==
    ASSUME NEW E, NEW known \in Seq(E), PairsInjective(known), NEW side \in Sides,
           NEW f, IsSeq(f), NEW order, order = OrderOf(known, side, f),
           0 \notin ToSet(order), NEW merge \in Seq(DOMAIN known), Only(merge, ToSet(order)) = order
    PROVE  Only(Column(known, merge, side), DOMAIN f) = Numbered(f)
<1> DEFINE A == DOMAIN known
           g == [i \in A |-> known[i][side]]
           B == {known[i][side] : i \in A}
           S == ToSet(order)
           T == DOMAIN f
<1>1. /\ order \in Seq(A) /\ DOMAIN order = T
      /\ \A b \in T : order[b] \in A /\ known[order[b]][side] = b
      /\ S = {i \in A : known[i][side] \in T}
  BY SideOrder
<1>2. g \in [A -> B] /\ \A a \in A : g[a] = known[a][side]
  OBVIOUS
<1>3. TellsApart(g, A, S, T)
  BY <1>1, <1>2 DEF TellsApart
<1>4. T = 1 .. Len(order)
  BY <1>1
<1>5. merge \in Seq(A) /\ Only(merge, S) = order
  OBVIOUS
<1>6. Column(known, merge, side) = Mapped(g, merge)
  <2>1. \A k \in 1 .. Len(merge) : merge[k] \in A BY <1>5
  <2> QED BY <1>2, <2>1 DEF Mapped, Column
<1> HIDE DEF A, B, g, S, T
<1>7. Only(Mapped(g, merge), T) = Mapped(g, Only(merge, S))
  <2>1. g \in Maps(A, B) BY <1>2 DEF Maps
  <2> QED BY <1>3, <1>5, <2>1, OnlyMapped
<1>8. Mapped(g, order) = [b \in T |-> b]
  BY <1>1, <1>2, <1>4 DEF Mapped
<1>9. Only(Mapped(g, merge), T) = [b \in T |-> b]
  BY <1>5, <1>7, <1>8
<1> QED BY <1>6, <1>9 DEF T, Numbered

\* A block leads to its pair, in whatever order the pairs are.
LEMMA LookUp ==
    ASSUME NEW E, NEW known \in Seq(E), NEW blocks \in Seq(E), PairsInjective(known),
           ToSet(blocks) \subseteq ToSet(known), NEW side \in Sides, NEW e \in ToSet(known),
           e[side] # 0, \E k \in DOMAIN blocks : blocks[k][side] = e[side]
    PROVE  blocks[PairOf(blocks, side, e[side])] = e
<1> DEFINE p == PairOf(blocks, side, e[side])
<1>1. p \in DOMAIN blocks /\ blocks[p][side] = e[side]
  BY PairOfIs
<1> HIDE DEF p
<1>2. PICK i \in DOMAIN known : known[i] = blocks[p]
  BY <1>1 DEF ToSet
<1>3. PICK j \in DOMAIN known : known[j] = e
  BY DEF ToSet
<1>4. i = j
  BY <1>1, <1>2, <1>3 DEF PairsInjective
<1> QED BY <1>2, <1>3, <1>4 DEF p

\* A paired switch has, on each side, the labels of that side in their order.
LEMMA LabelsProject ==
    ASSUME NativeGraph(left), NativeGraph(right), NEW s, SwitchSound(s)
    PROVE  /\ Only(s.labels, ToSet(left[s.left].labels)) = left[s.left].labels
           /\ Only(s.labels, ToSet(right[s.right].labels)) = right[s.right].labels
<1> DEFINE x == left[s.left].labels
           y == right[s.right].labels
           A == ToSet(x) \cup ToSet(y)
<1>1. /\ IsSeq(x) /\ IsInjective(x) /\ IsSeq(y) /\ IsInjective(y)
      /\ Ordered(x, y) /\ s.labels = MergeOrder(x, y)
  BY DEF SwitchSound, NativeGraph
<1> HIDE DEF x, y
<1>2. x \in Seq(A) /\ y \in Seq(A)
  <2>1. x \in Seq(ToSet(x)) /\ y \in Seq(ToSet(y)) BY <1>1 DEF IsSeq
  <2> QED BY <2>1
<1> HIDE DEF A
<1>3. Only(MergeOrder(x, y), ToSet(x)) = x /\ Only(MergeOrder(x, y), ToSet(y)) = y
  BY <1>1, <1>2, MergeKeeps
<1> QED BY <1>1, <1>3 DEF x, y

\* Projects, of any pairs and switches.
Successor(known, f, g, s, l) ==
    IF l \in ToSet(f[s.left].labels) THEN PairOf(known, "left", CaseTarget(f[s.left], l))
    ELSE PairOf(known, "right", CaseTarget(g[s.right], l))

SwitchProjects(known, f, g, s, h, side) ==
    LET mine == Only(s.labels, ToSet(h[s[side]].labels))
    IN  /\ mine = h[s[side]].labels
        /\ known[PairOf(known, "left", f[s.left].succ[1])][side] = h[s[side]].succ[1]
        /\ \A l \in ToSet(mine) :
              known[Successor(known, f, g, s, l)][side] = CaseTarget(h[s[side]], l)

ProjectsFrom(known, recorded, f, g, h, side) ==
    /\ Only([k \in DOMAIN known |-> known[k][side]], DOMAIN h) = [b \in DOMAIN h |-> b]
    /\ {b \in DOMAIN h : h[b].kind = "switch"} = {recorded[k][side] : k \in DOMAIN recorded}
    /\ \A k \in DOMAIN recorded : SwitchProjects(known, f, g, recorded[k], h, side)

\* Projects, in the next state, is ProjectsFrom.
LEMMA ProjectsIs ==
    ASSUME NEW side
    PROVE  Projects(side)'
             = ProjectsFrom(pairs', switches', left', right', Function(side)', side)
BY DEF Projects, ProjectsFrom, SwitchProjects, Successor, CaseSuccessor

\* The blocks and the switches, in the order of both functions.
LEMMA FinishOrders ==
    ASSUME Walking, Branching, FinishPairing, stage' # "refused"
    PROVE  /\ stage' = "paired" /\ UNCHANGED <<left, right, arms>>
           /\ pairs' \in Seq(PairSet) /\ ToSet(pairs') \subseteq ToSet(pairs)
           /\ \A b \in DOMAIN left : \E k \in DOMAIN pairs' : pairs'[k]["left"] = b
           /\ \A b \in DOMAIN right : \E k \in DOMAIN pairs' : pairs'[k]["right"] = b
           /\ Only([k \in DOMAIN pairs' |-> pairs'[k]["left"]], DOMAIN left)
                = [b \in DOMAIN left |-> b]
           /\ Only([k \in DOMAIN pairs' |-> pairs'[k]["right"]], DOMAIN right)
                = [b \in DOMAIN right |-> b]
           /\ IsSeq(switches') /\ ToSet(switches') = ToSet(switches)
           /\ switches' = FlattenSeq([k \in DOMAIN pairs' |->
                 Only(switches, {s \in ToSet(switches) : s.left = pairs'[k].left})])
<1>0. PICK L : L = OrderOf(pairs, "left", left) OBVIOUS
<1>00. PICK R : R = OrderOf(pairs, "right", right) OBVIOUS
<1>000. PICK M : M = MergeOrder(L, R) OBVIOUS
<1>0000. PICK B : B = [k \in DOMAIN M |-> pairs[M[k]]] OBVIOUS
<1>1. /\ 0 \notin ToSet(L) /\ 0 \notin ToSet(R) /\ Ordered(L, R)
      /\ pairs' = B
      /\ switches' = FlattenSeq([k \in DOMAIN B |->
             Only(switches, {s \in ToSet(switches) : s.left = B[k].left})])
      /\ stage' = "paired" /\ UNCHANGED <<left, right, arms>>
  <2>1. L = [b \in DOMAIN left |-> PairOf(pairs, "left", b)] BY <1>0 DEF OrderOf
  <2>2. R = [b \in DOMAIN right |-> PairOf(pairs, "right", b)] BY <1>00 DEF OrderOf
  <2>3. ~ (0 \in ToSet(L) \cup ToSet(R) \/ ~ Ordered(L, R))
    BY <2>1, <2>2 DEF FinishPairing, Refuse
  <2>4. pairs' = B /\ stage' = "paired" /\ UNCHANGED <<left, right, arms>>
    BY <1>000, <1>0000, <2>1, <2>2, <2>3 DEF FinishPairing
  <2>5. switches' = FlattenSeq([k \in DOMAIN B |->
             Only(switches, {s \in ToSet(switches) : s.left = B[k].left})])
    BY <1>000, <1>0000, <2>1, <2>2, <2>3 DEF FinishPairing
  <2> QED BY <2>3, <2>4, <2>5
<1>2. /\ NativeGraph(left) /\ NativeGraph(right) /\ pairs \in Seq(PairSet) /\ PairsInjective(pairs)
      /\ IsSeq(switches) /\ \A s \in ToSet(switches) : SwitchSound(s)
  BY DEF Walking
<1>3. /\ IsSeq(left) /\ IsSeq(right) /\ DOMAIN left = 1 .. Len(left) /\ DOMAIN right = 1 .. Len(right)
      /\ Len(left) \in Nat /\ Len(right) \in Nat
  BY <1>2 DEF NativeGraph, IsSeq
<1>4. /\ L \in Seq(DOMAIN pairs) /\ DOMAIN L = DOMAIN left /\ IsInjective(L)
      /\ \A b \in DOMAIN left : L[b] \in DOMAIN pairs /\ pairs[L[b]]["left"] = b
  <2>1. "left" \in Sides BY DEF Sides
  <2> QED BY <1>0, <1>1, <1>2, <1>3, <2>1, SideOrder
<1>5. /\ R \in Seq(DOMAIN pairs) /\ DOMAIN R = DOMAIN right /\ IsInjective(R)
      /\ \A b \in DOMAIN right : R[b] \in DOMAIN pairs /\ pairs[R[b]]["right"] = b
  <2>1. "right" \in Sides BY DEF Sides
  <2> QED BY <1>00, <1>1, <1>2, <1>3, <2>1, SideOrder
<1>6. /\ M \in Seq(DOMAIN pairs) /\ Only(M, ToSet(L)) = L /\ Only(M, ToSet(R)) = R
      /\ ToSet(M) = ToSet(L) \cup ToSet(R)
  <2>1. M \in Seq(DOMAIN pairs) /\ Only(M, ToSet(L)) = L /\ Only(M, ToSet(R)) = R
    <3> DEFINE A == DOMAIN pairs
    <3>1. L \in Seq(A) /\ R \in Seq(A) BY <1>4, <1>5
    <3> HIDE DEF A
    <3> QED BY <1>000, <1>1, <1>4, <1>5, <3>1, MergeKeeps DEF A
  <2> QED BY <1>000, <1>1, <2>1 DEF Ordered
<1>7. /\ DOMAIN M = 1 .. Len(M) /\ Len(M) \in Nat /\ DOMAIN pairs' = DOMAIN M
      /\ \A k \in DOMAIN M : M[k] \in DOMAIN pairs /\ pairs'[k] = pairs[M[k]]
  BY <1>0000, <1>1, <1>6
<1>8. pairs' \in Seq(PairSet) /\ ToSet(pairs') \subseteq ToSet(pairs)
  <2>1. \A k \in DOMAIN M : pairs'[k] \in PairSet /\ pairs'[k] \in ToSet(pairs) BY <1>2, <1>7 DEF ToSet
  <2>2. pairs' = [k \in DOMAIN M |-> pairs'[k]] BY <1>0000, <1>1
  <2> QED BY <1>7, <2>1, <2>2 DEF ToSet
<1>9. ASSUME NEW b \in DOMAIN left PROVE \E k \in DOMAIN pairs' : pairs'[k]["left"] = b
  <2>1. L[b] \in ToSet(M) BY <1>4, <1>6 DEF ToSet
  <2>2. PICK k \in DOMAIN M : M[k] = L[b] BY <2>1 DEF ToSet
  <2> QED BY <1>4, <1>7, <2>2
<1>10. ASSUME NEW b \in DOMAIN right PROVE \E k \in DOMAIN pairs' : pairs'[k]["right"] = b
  <2>1. R[b] \in ToSet(M) BY <1>5, <1>6 DEF ToSet
  <2>2. PICK k \in DOMAIN M : M[k] = R[b] BY <2>1 DEF ToSet
  <2> QED BY <1>5, <1>7, <2>2
<1>11. Only([k \in DOMAIN pairs' |-> pairs'[k]["left"]], DOMAIN left) = [b \in DOMAIN left |-> b]
  <2>1. "left" \in Sides BY DEF Sides
  <2>2. Only(Column(pairs, M, "left"), DOMAIN left) = Numbered(left)
    BY <1>0, <1>1, <1>2, <1>3, <1>6, <2>1, SideProjects
  <2>3. [k \in DOMAIN pairs' |-> pairs'[k]["left"]] = Column(pairs, M, "left")
    BY <1>7 DEF Column
  <2> QED BY <2>2, <2>3 DEF Numbered
<1>12. Only([k \in DOMAIN pairs' |-> pairs'[k]["right"]], DOMAIN right) = [b \in DOMAIN right |-> b]
  <2>1. "right" \in Sides BY DEF Sides
  <2>2. Only(Column(pairs, M, "right"), DOMAIN right) = Numbered(right)
    BY <1>00, <1>1, <1>2, <1>3, <1>6, <2>1, SideProjects
  <2>3. [k \in DOMAIN pairs' |-> pairs'[k]["right"]] = Column(pairs, M, "right")
    BY <1>7 DEF Column
  <2> QED BY <2>2, <2>3 DEF Numbered
<1>13. IsSeq(switches') /\ ToSet(switches') = ToSet(switches)
  <2> DEFINE A == ToSet(switches)
             At(k) == {s \in A : s.left = B[k].left}
             q == [k \in DOMAIN B |-> Only(switches, At(k))]
  <2>1. switches \in Seq(A) BY <1>2 DEF IsSeq
  <2>2. switches' = FlattenSeq(q) BY <1>1
  <2>3. DOMAIN q = DOMAIN B /\ q = [k \in DOMAIN B |-> q[k]] /\ \A k \in DOMAIN B : q[k] = Only(switches, At(k))
    OBVIOUS
  <2>4. DOMAIN B = 1 .. Len(M) BY <1>1, <1>7
  <2>5. \A s \in A : \E k \in DOMAIN B : s \in At(k)
    <3> SUFFICES ASSUME NEW s \in A PROVE \E k \in DOMAIN B : s \in At(k) OBVIOUS
    <3>1. s.left \in DOMAIN left BY <1>2 DEF SwitchSound
    <3> QED BY <1>1, <1>9, <3>1
  <2>6. \A k \in DOMAIN B : At(k) \subseteq A OBVIOUS
  <2> HIDE DEF A, q, At
  <2>7. ASSUME NEW k \in DOMAIN B PROVE q[k] \in Seq(A) /\ ToSet(q[k]) = At(k)
    <3>1. ToSet(switches) = A BY DEF A
    <3>2. Only(switches, At(k)) \in Seq(A) /\ ToSet(Only(switches, At(k))) = ToSet(switches) \cap At(k)
      BY <2>1, OnlyIs
    <3> QED BY <2>3, <2>6, <3>1, <3>2
  <2>8. q \in Seq(Seq(A)) BY <1>7, <2>3, <2>4, <2>7
  <2>9. FlattenSeq(q) \in Seq(A) /\ ToSet(FlattenSeq(q)) = UNION {ToSet(q[k]) : k \in DOMAIN q}
    BY <2>8, FlattenTyped, FlattenToSet
  <2>10. ToSet(FlattenSeq(q)) = A
    <3>1. \A k \in DOMAIN q : ToSet(q[k]) = At(k) BY <2>3, <2>7
    <3>2. \A x : x \in ToSet(FlattenSeq(q)) <=> \E k \in DOMAIN q : x \in At(k) BY <2>9, <3>1
    <3> QED BY <2>3, <2>5, <2>6, <3>2
  <2> QED BY <2>2, <2>9, <2>10 DEF A, IsSeq
<1> QED BY <1>1, <1>8, <1>9, <1>10, <1>11, <1>12, <1>13

\* The pairing that is finished projects.
LEMMA FinishKeeps ==
    ASSUME Walking, Branching, FinishPairing, stage' # "refused"
    PROVE  stage' = "paired" /\ Projects("left")' /\ Projects("right")'
<1>1. stage' = "paired" /\ UNCHANGED <<left, right>>
  BY FinishOrders
<1>2. /\ NativeGraph(left) /\ NativeGraph(right) /\ pairs \in Seq(PairSet) /\ PairsInjective(pairs)
      /\ IsSeq(switches) /\ \A s \in ToSet(switches) : SwitchSound(s)
  BY DEF Walking
<1>3. /\ IsSeq(left) /\ IsSeq(right) /\ DOMAIN left = 1 .. Len(left) /\ DOMAIN right = 1 .. Len(right)
      /\ Len(left) \in Nat /\ Len(right) \in Nat
  BY <1>2 DEF NativeGraph, IsSeq
<1>4. pairs' \in Seq(PairSet) /\ ToSet(pairs') \subseteq ToSet(pairs)
  BY FinishOrders
<1>5. \A b \in DOMAIN left : \E k \in DOMAIN pairs' : pairs'[k]["left"] = b
  BY FinishOrders
<1>6. \A b \in DOMAIN right : \E k \in DOMAIN pairs' : pairs'[k]["right"] = b
  BY FinishOrders
<1>7. Only([k \in DOMAIN pairs' |-> pairs'[k]["left"]], DOMAIN left) = [b \in DOMAIN left |-> b]
  BY FinishOrders
<1>8. Only([k \in DOMAIN pairs' |-> pairs'[k]["right"]], DOMAIN right) = [b \in DOMAIN right |-> b]
  BY FinishOrders
<1>9. IsSeq(switches') /\ ToSet(switches') = ToSet(switches)
  BY FinishOrders
<1>10. ASSUME NEW e \in ToSet(pairs), e \in Edges
       PROVE  /\ pairs'[PairOf(pairs', "left", e.left)] = e
              /\ pairs'[PairOf(pairs', "right", e.right)] = e
  <2>1. e.left \in DOMAIN left /\ e.right \in DOMAIN right BY <1>10 DEF Edges
  <2>2. e.left # 0 /\ e.right # 0 BY <1>3, <2>1
  <2>3. "left" \in Sides /\ "right" \in Sides BY DEF Sides
  <2>4. pairs'[PairOf(pairs', "left", e["left"])] = e
    BY <1>2, <1>4, <1>5, <2>1, <2>2, <2>3, LookUp
  <2>5. pairs'[PairOf(pairs', "right", e["right"])] = e
    BY <1>2, <1>4, <1>6, <2>1, <2>2, <2>3, LookUp
  <2> QED BY <2>4, <2>5
<1>11. ASSUME NEW s \in ToSet(switches)
       PROVE  LET x == left[s.left]
                  y == right[s.right]
                  d == pairs'[PairOf(pairs', "left", x.succ[1])]
              IN  /\ d.left = x.succ[1] /\ d.right = y.succ[1]
                  /\ \A l \in ToSet(x.labels) \cap ToSet(y.labels) :
                        LET c == pairs'[PairOf(pairs', "left", CaseTarget(x, l))]
                        IN  c.left = CaseTarget(x, l) /\ c.right = CaseTarget(y, l)
                  /\ \A l \in ToSet(x.labels) :
                        pairs'[PairOf(pairs', "left", CaseTarget(x, l))].left = CaseTarget(x, l)
                  /\ \A l \in ToSet(y.labels) :
                        pairs'[PairOf(pairs', "right", CaseTarget(y, l))].right = CaseTarget(y, l)
  <2> DEFINE x == left[s.left]
             y == right[s.right]
  <2>1. /\ s.left \in DOMAIN left /\ s.right \in DOMAIN right
        /\ x.kind = "switch" /\ y.kind = "switch"
        /\ ToSet(SharedEdges(x, y)) \subseteq ToSet(pairs)
    BY <1>2 DEF SwitchSound
  <2>2. /\ SharedEdges(x, y) \in Seq(Edges)
        /\ [left |-> x.succ[1], right |-> y.succ[1]] \in ToSet(SharedEdges(x, y))
        /\ \A l \in ToSet(x.labels) \cap ToSet(y.labels) :
              [left |-> CaseTarget(x, l), right |-> CaseTarget(y, l)] \in ToSet(SharedEdges(x, y))
    BY <1>2, <2>1, SharedEdgesAre
  <2>3. \A e \in ToSet(SharedEdges(x, y)) : e \in Edges /\ e \in ToSet(pairs)
    <3> DEFINE E == SharedEdges(x, y)
    <3>1. E \in Seq(Edges) /\ ToSet(E) \subseteq ToSet(pairs) BY <2>1, <2>2
    <3> HIDE DEF E
    <3>2. \A e \in ToSet(E) : e \in Edges BY <3>1 DEF ToSet
    <3> QED BY <3>1, <3>2 DEF E
  <2> HIDE DEF x, y
  <2>4. ASSUME NEW u, NEW v, [left |-> u, right |-> v] \in ToSet(SharedEdges(x, y))
        PROVE  LET c == pairs'[PairOf(pairs', "left", u)] IN c.left = u /\ c.right = v
    <3>1. PICK e : e = [left |-> u, right |-> v] OBVIOUS
    <3>2. e \in Edges /\ e \in ToSet(pairs) /\ e.left = u /\ e.right = v BY <2>3, <2>4, <3>1
    <3>3. pairs'[PairOf(pairs', "left", u)] = e BY <1>10, <3>2
    <3> QED BY <3>2, <3>3
  <2>5. ASSUME NEW l \in ToSet(x.labels)
        PROVE  pairs'[PairOf(pairs', "left", CaseTarget(x, l))].left = CaseTarget(x, l)
    <3>1. PICK b : b = CaseTarget(x, l) OBVIOUS
    <3>2. b \in DOMAIN left BY <1>2, <2>1, <3>1, CaseTargetIs DEF x
    <3>3. pairs'[PairOf(pairs', "left", b)]["left"] = b BY <1>4, <1>5, <3>2, PairOfIs
    <3> QED BY <3>1, <3>3
  <2>6. ASSUME NEW l \in ToSet(y.labels)
        PROVE  pairs'[PairOf(pairs', "right", CaseTarget(y, l))].right = CaseTarget(y, l)
    <3>1. PICK b : b = CaseTarget(y, l) OBVIOUS
    <3>2. b \in DOMAIN right BY <1>2, <2>1, <3>1, CaseTargetIs DEF y
    <3>3. pairs'[PairOf(pairs', "right", b)]["right"] = b BY <1>4, <1>6, <3>2, PairOfIs
    <3> QED BY <3>1, <3>3
  <2>7. LET d == pairs'[PairOf(pairs', "left", x.succ[1])]
        IN  d.left = x.succ[1] /\ d.right = y.succ[1]
    BY <2>2, <2>4
  <2>8. \A l \in ToSet(x.labels) \cap ToSet(y.labels) :
           LET c == pairs'[PairOf(pairs', "left", CaseTarget(x, l))]
           IN  c.left = CaseTarget(x, l) /\ c.right = CaseTarget(y, l)
    BY <2>2, <2>4
  <2> QED BY <2>5, <2>6, <2>7, <2>8 DEF x, y
<1>12. \A k \in DOMAIN switches' : switches'[k] \in ToSet(switches)
  BY <1>9 DEF ToSet
<1>13. \A s \in ToSet(switches) : \E k \in DOMAIN switches' : switches'[k] = s
  BY <1>9 DEF ToSet
<1>14. {b \in DOMAIN left : left[b].kind = "switch"} = {switches'[k]["left"] : k \in DOMAIN switches'}
  <2>1. ASSUME NEW b \in DOMAIN left, left[b].kind = "switch"
        PROVE  \E k \in DOMAIN switches' : switches'[k]["left"] = b
    <3>1. PICK k \in DOMAIN pairs' : pairs'[k]["left"] = b BY <1>5, <2>1
    <3> DEFINE p == pairs'[k]
    <3>2. p \in ToSet(pairs) /\ p["left"] = b /\ b # 0
      <4>1. p \in ToSet(pairs') BY <3>1 DEF ToSet
      <4> QED BY <1>3, <1>4, <2>1, <3>1, <4>1
    <3> HIDE DEF p
    <3>3. Both(p)
      <4>1. "left" \in Sides /\ Function("left") = left BY DEF Sides, Function
      <4> QED BY <2>1, <3>2, <4>1 DEF Branching
    <3>4. Matched(p) /\ left[p.left].kind = "switch" BY <2>1, <3>2, <3>3 DEF Branching
    <3>5. PICK s \in ToSet(switches) : s.left = b BY <3>2, <3>4 DEF Matched
    <3> QED BY <1>13, <3>5
  <2>2. \A k \in DOMAIN switches' :
           switches'[k]["left"] \in DOMAIN left /\ left[switches'[k]["left"]].kind = "switch"
    BY <1>2, <1>12 DEF SwitchSound
  <2> QED BY <2>1, <2>2
<1>15. {b \in DOMAIN right : right[b].kind = "switch"} = {switches'[k]["right"] : k \in DOMAIN switches'}
  <2>1. ASSUME NEW b \in DOMAIN right, right[b].kind = "switch"
        PROVE  \E k \in DOMAIN switches' : switches'[k]["right"] = b
    <3>1. PICK k \in DOMAIN pairs' : pairs'[k]["right"] = b BY <1>6, <2>1
    <3> DEFINE p == pairs'[k]
    <3>2. p \in ToSet(pairs) /\ p["right"] = b /\ b # 0
      <4>1. p \in ToSet(pairs') BY <3>1 DEF ToSet
      <4> QED BY <1>3, <1>4, <2>1, <3>1, <4>1
    <3> HIDE DEF p
    <3>3. Both(p)
      <4>1. "right" \in Sides /\ Function("right") = right BY DEF Sides, Function
      <4> QED BY <2>1, <3>2, <4>1 DEF Branching
    <3>4. Matched(p) BY <3>2, <3>3 DEF Branching
    <3>5. PICK s \in ToSet(switches) : s.right = b BY <2>1, <3>2, <3>4 DEF Matched
    <3> QED BY <1>13, <3>5
  <2>2. \A k \in DOMAIN switches' :
           switches'[k]["right"] \in DOMAIN right /\ right[switches'[k]["right"]].kind = "switch"
    BY <1>2, <1>12 DEF SwitchSound
  <2> QED BY <2>1, <2>2
<1>16. Projects("left")'
  <2>1. Function("left")' = left BY <1>1 DEF Function
  <2>2. ASSUME NEW s \in ToSet(switches)
        PROVE  SwitchProjects(pairs', left, right, s, left, "left")
    <3>1. Only(s.labels, ToSet(left[s["left"]].labels)) = left[s["left"]].labels
      BY <1>2, LabelsProject
    <3>2. pairs'[PairOf(pairs', "left", left[s.left].succ[1])]["left"] = left[s["left"]].succ[1]
      BY <1>11
    <3>3. ASSUME NEW l \in ToSet(left[s["left"]].labels)
          PROVE  pairs'[Successor(pairs', left, right, s, l)]["left"] = CaseTarget(left[s["left"]], l)
      BY <1>11 DEF Successor
    <3> QED BY <3>1, <3>2, <3>3 DEF SwitchProjects
  <2>3. ProjectsFrom(pairs', switches', left, right, left, "left")
    BY <1>7, <1>12, <1>14, <2>2 DEF ProjectsFrom
  <2>4. Projects("left")' = ProjectsFrom(pairs', switches', left', right', Function("left")', "left")
    BY ProjectsIs
  <2> QED BY <1>1, <2>1, <2>3, <2>4
<1>17. Projects("right")'
  <2>1. Function("right")' = right BY <1>1 DEF Function
  <2>2. ASSUME NEW s \in ToSet(switches)
        PROVE  SwitchProjects(pairs', left, right, s, right, "right")
    <3>1. Only(s.labels, ToSet(right[s["right"]].labels)) = right[s["right"]].labels
      BY <1>2, LabelsProject
    <3>2. pairs'[PairOf(pairs', "left", left[s.left].succ[1])]["right"] = right[s["right"]].succ[1]
      BY <1>11
    <3>3. ASSUME NEW l \in ToSet(right[s["right"]].labels)
          PROVE  pairs'[Successor(pairs', left, right, s, l)]["right"] = CaseTarget(right[s["right"]], l)
      <4>1. CASE l \in ToSet(left[s.left].labels) BY <1>11, <4>1 DEF Successor
      <4>2. CASE l \notin ToSet(left[s.left].labels) BY <1>11, <4>2 DEF Successor
      <4> QED BY <4>1, <4>2
    <3> QED BY <3>1, <3>2, <3>3 DEF SwitchProjects
  <2>3. ProjectsFrom(pairs', switches', left, right, right, "right")
    BY <1>8, <1>12, <1>15, <2>2 DEF ProjectsFrom
  <2>4. Projects("right")' = ProjectsFrom(pairs', switches', left', right', Function("right")', "right")
    BY ProjectsIs
  <2> QED BY <1>1, <2>1, <2>3, <2>4
<1> QED BY <1>1, <1>16, <1>17

-----------------------------------------------------------------------------
(* All steps of the merge. *)

\* Two functions to pair.
LEMMA PeerBegins ==
    ASSUME PairingSound, NextPeer
    PROVE  PairingSound'
<1>1. /\ stage' = "shared" /\ peer' = peer + 1 /\ peer < Len(functions)
      /\ left' = functions[1] /\ right' = functions[peer + 1]
      /\ pairs' = <<[left |-> 1, right |-> 1]>> /\ next' = 1
      /\ switches' = <<>> /\ arms' = <<>> /\ UNCHANGED functions
  BY DEF NextPeer, BeginPairing
<1>2. /\ DOMAIN functions = 1 .. Len(functions) /\ Len(functions) \in Nat
      /\ peer \in DOMAIN functions
  BY DEF PairingSound, IsSeq, Targets
<1>3. 1 \in DOMAIN functions /\ peer + 1 \in DOMAIN functions
  BY <1>1, <1>2
<1>4. NativeGraph(functions[1]) /\ NativeGraph(functions[peer + 1])
  BY <1>3 DEF PairingSound, Targets
<1>5. NativeGraph(left)' /\ NativeGraph(right)'
  BY <1>1, <1>4 DEF NativeGraph
<1>6. Len(left') \in Nat /\ Len(left') >= 1 /\ Len(right') \in Nat /\ Len(right') >= 1
  BY <1>5 DEF NativeGraph, IsSeq
<1>7. PICK p : p = [left |-> 1, right |-> 1] OBVIOUS
<1>8. /\ pairs' = <<p>> /\ DOMAIN pairs' = {1} /\ pairs'[1] = p /\ Len(pairs') = 1
      /\ p \in PairSet' /\ p.left = 1 /\ p.right = 1
  BY <1>1, <1>6, <1>7 DEF PairSet
<1>9. pairs' \in Seq(PairSet)' /\ PairsInjective(pairs)'
  BY <1>8 DEF PairsInjective
<1>10. ToSet(<<>>) = {} /\ <<>> \in Seq(ToSet(<<>>)) /\ IsSeq(switches)' /\ IsSeq(arms)'
  <2>1. ToSet(<<>>) = {} /\ <<>> \in Seq(ToSet(<<>>)) BY DEF ToSet
  <2> QED BY <1>1, <2>1 DEF IsSeq
<1>11. Walking'
  BY <1>1, <1>5, <1>9, <1>10 DEF Walking
<1>12. Sharing'
  <2>1. ToSet(pairs') = {p} BY <1>8 DEF ToSet
  <2> QED BY <1>1, <1>8, <1>10, <2>1 DEF Sharing, Both
<1>13. IsSeq(functions)' /\ \A t \in Targets' : NativeGraph(functions[t])'
  BY <1>1 DEF PairingSound, IsSeq, Targets, NativeGraph
<1> QED BY <1>1, <1>3, <1>11, <1>12, <1>13 DEF PairingSound, PairingProjects, Targets

\* Nothing is promised of the pairing in another stage.
LEMMA PairingOver ==
    ASSUME PairingSound, UNCHANGED <<functions, peer>>,
           stage' \notin {"shared", "arms", "paired"}
    PROVE  PairingSound'
BY DEF PairingSound, PairingProjects, IsSeq, Targets, NativeGraph

\* Nothing changes.
LEMMA PairingStutters ==
    ASSUME PairingSound, UNCHANGED commonVars
    PROVE  PairingSound'
<1>1. UNCHANGED <<left, right, stage, pairs, next, switches, arms, functions, peer>>
  BY DEF commonVars, pairing
<1>2. IsSeq(functions)' /\ \A t \in Targets' : NativeGraph(functions[t])'
  BY <1>1 DEF PairingSound, IsSeq, Targets, NativeGraph
<1>3. Walking => Walking'
  BY <1>1 DEF Walking, NativeGraph, IsSeq, PairSet, PairsInjective, SwitchSound, ArmSound, Function
<1>4. Sharing => Sharing'
  BY <1>1 DEF Sharing, Both, Matched
<1>5. Branching => Branching'
  BY <1>1 DEF Branching, Both, Matched, Function, ChainSound
<1>6. PairingProjects => PairingProjects'
  BY <1>1 DEF PairingProjects, Projects, CaseSuccessor, Function
<1> QED BY <1>1, <1>2, <1>3, <1>4, <1>5, <1>6 DEF PairingSound, Targets

\* The step of the pairing that is taken.
LEMMA PairPeerKeeps ==
    ASSUME PairingSound, PairPeer
    PROVE  PairingSound'
<1>1. PairingNext /\ UNCHANGED <<functions, peer>>
  BY DEF PairPeer
<1>2. CASE stage' = "refused"
  BY <1>1, <1>2, PairingOver
<1>3. ASSUME stage' # "refused"
      PROVE  \/ stage' = "shared" /\ Walking' /\ Sharing'
             \/ stage' = "arms" /\ Walking' /\ Branching'
             \/ stage' = "paired" /\ PairingProjects'
  <2>1. CASE MatchShared
    <3>1. Walking /\ Sharing BY <2>1 DEF MatchShared, PairingSound
    <3> QED BY <1>3, <2>1, <3>1, SharedKeeps
  <2>2. CASE SharedMatched
    <3>1. Walking /\ Sharing BY <2>2 DEF SharedMatched, PairingSound
    <3> QED BY <1>3, <2>2, <3>1, SharedMatchedKeeps
  <2>3. CASE WalkArm
    <3>1. Walking /\ Branching BY <2>3 DEF WalkArm, PairingSound
    <3> QED BY <1>3, <2>3, <3>1, ArmGoesOn, ArmRejoins
  <2>4. CASE FinishPairing
    <3>1. Walking /\ Branching BY <2>4 DEF FinishPairing, PairingSound
    <3> QED BY <1>3, <2>4, <3>1, FinishKeeps DEF PairingProjects
  <2> QED BY <1>1, <2>1, <2>2, <2>3, <2>4 DEF PairingNext
<1>4. IsSeq(functions)' /\ (\A t \in Targets : NativeGraph(functions[t]))' /\ peer' \in Targets'
  BY <1>1 DEF PairingSound, IsSeq, Targets, NativeGraph
<1>5. ASSUME stage' # "refused" PROVE PairingSound'
  <2>1. CASE stage' = "shared" /\ Walking' /\ Sharing'
    BY <1>4, <2>1 DEF PairingSound, PairingProjects
  <2>2. CASE stage' = "arms" /\ Walking' /\ Branching'
    BY <1>4, <2>2 DEF PairingSound, PairingProjects
  <2>3. CASE stage' = "paired" /\ PairingProjects'
    BY <1>4, <2>3 DEF PairingSound
  <2> QED BY <1>3, <1>5, <2>1, <2>2, <2>3
<1> QED BY <1>2, <1>5

\* The worklist of pairConditionalCFG keeps, for functions of every size and
\* every number of targets, what PairingSound says of the pairs, the switches and
\* the arms found so far.
THEOREM PairingStaysSound == CommonSpec => []PairingSound
<1>1. CommonInit => PairingSound
  <2> SUFFICES ASSUME CommonInit PROVE PairingSound OBVIOUS
  <2>1. /\ IsSeq(functions) /\ functions # <<>> /\ \A t \in Targets : NativeGraph(functions[t])
        /\ peer = 1 /\ stage = "grouped"
    BY DEF CommonInit, Begin
  <2>2. 1 \in DOMAIN functions BY <2>1 DEF IsSeq
  <2> QED BY <2>1, <2>2 DEF PairingSound, PairingProjects, Targets
<1>2. PairingSound /\ [CommonNext]_commonVars => PairingSound'
  <2> SUFFICES ASSUME PairingSound, [CommonNext]_commonVars PROVE PairingSound' OBVIOUS
  <2>1. CASE NextPeer BY <2>1, PeerBegins
  <2>2. CASE PairPeer BY <2>2, PairPeerKeeps
  <2>3. CASE GroupPeer
    <3>1. UNCHANGED <<functions, peer>> /\ stage' \in {"grouped", "refused"}
      BY <2>3 DEF GroupPeer, RefuseMerge, Refuse
    <3> QED BY <3>1, PairingOver
  <2>4. CASE OrderGroups
    <3>1. UNCHANGED <<functions, peer>> /\ stage' \in {"ordered", "refused"}
      BY <2>4 DEF OrderGroups, RefuseMerge, Refuse
    <3> QED BY <3>1, PairingOver
  <2>5. CASE Emit
    <3>1. UNCHANGED <<functions, peer>> /\ stage' \in {"merged", "refused"}
      BY <2>5 DEF Emit, RefuseMerge, Refuse
    <3> QED BY <3>1, PairingOver
  <2>6. CASE Over \/ UNCHANGED commonVars BY <2>6, PairingStutters DEF Over
  <2> QED BY <2>1, <2>2, <2>3, <2>4, <2>5, <2>6 DEF CommonNext
<1> QED BY <1>1, <1>2, PTL DEF CommonSpec

\* Whatever functions the targets have, when pairConditionalCFG accepts two of
\* them then each side of the paired graph is that side's native function: its
\* blocks, switches, labels and case targets, in its own order.
THEOREM PairingAlwaysProjects == CommonSpec => []PairingProjects
<1>1. PairingSound => PairingProjects
  BY DEF PairingSound
<1> QED BY <1>1, PairingStaysSound, PTL

-----------------------------------------------------------------------------
(***************************************************************************)
(* RoundTrip.  The emitted blocks, specialized to a target, are its native *)
(* function when every target has each of its blocks in one group and the  *)
(* common order keeps the order of every target; the groups are so because *)
(* the pairing gives every block of a peer one mate or one arm.            *)
(***************************************************************************)

\* An element that is taken is in the sequence once when the result repeats nothing.
LEMMA OnlyOnce ==
    ASSUME NEW A, NEW s \in Seq(A), NEW S, IsInjective(Only(s, S)),
           NEW i \in DOMAIN s, NEW j \in DOMAIN s, s[i] = s[j], s[i] \in S
    PROVE  i = j
<1> DEFINE p == [k \in 1 .. Len(s) |-> IF s[k] \in S THEN <<s[k]>> ELSE <<>>]
<1>1. DOMAIN s = 1 .. Len(s) /\ Len(s) \in Nat /\ \A k \in 1 .. Len(s) : s[k] \in A
  OBVIOUS
<1>2. ASSUME NEW k \in 1 .. Len(s) PROVE p[k] \in Seq(A)
  <2>1. <<s[k]>> \in Seq(A) /\ <<>> \in Seq(A) BY <1>1
  <2> QED BY <2>1, Zenon
<1>3. p \in Seq(Seq(A)) /\ DOMAIN p = 1 .. Len(s) BY <1>1, <1>2
<1>4. Only(s, S) = FlattenSeq(p) BY DEF Only
<1>5. p[i] = <<s[i]>> /\ p[j] = <<s[i]>> BY <1>1
<1> HIDE DEF p
<1>6. PartsDistinct(p) BY <1>3, <1>4, FlattenInjective
<1>7. s[i] \in ToSet(<<s[i]>>)
  <2>1. DOMAIN <<s[i]>> = {1} /\ <<s[i]>>[1] = s[i] OBVIOUS
  <2> QED BY <2>1 DEF ToSet
<1>8. i \in DOMAIN p /\ j \in DOMAIN p BY <1>1, <1>3
<1>9. s[i] \in ToSet(p[i]) /\ s[i] \in ToSet(p[j]) BY <1>5, <1>7
<1> QED BY <1>6, <1>8, <1>9 DEF PartsDistinct

\* What is taken repeats nothing when the sequence does not.
LEMMA OnlyInjective ==
    ASSUME NEW A, NEW s \in Seq(A), NEW S, IsInjective(s)
    PROVE  IsInjective(Only(s, S))
<1> DEFINE p == [k \in 1 .. Len(s) |-> IF s[k] \in S THEN <<s[k]>> ELSE <<>>]
<1>1. DOMAIN s = 1 .. Len(s) /\ Len(s) \in Nat /\ \A k \in 1 .. Len(s) : s[k] \in A
  OBVIOUS
<1>2. ASSUME NEW k \in 1 .. Len(s)
      PROVE  p[k] \in Seq(A) /\ IsInjective(p[k]) /\ ToSet(p[k]) \subseteq {s[k]}
  <2>1. CASE s[k] \in S
    <3>1. p[k] = <<s[k]>> BY <2>1
    <3>2. <<s[k]>> \in Seq(A) /\ DOMAIN <<s[k]>> = {1} /\ <<s[k]>>[1] = s[k] BY <1>1
    <3> HIDE DEF p
    <3> QED BY <3>1, <3>2 DEF ToSet, IsInjective
  <2>2. CASE s[k] \notin S
    <3>1. p[k] = <<>> BY <2>2
    <3>2. <<>> \in Seq(A) /\ DOMAIN <<>> = {} OBVIOUS
    <3> HIDE DEF p
    <3> QED BY <3>1, <3>2 DEF ToSet, IsInjective
  <2> QED BY <2>1, <2>2
<1>3. p \in Seq(Seq(A)) /\ DOMAIN p = 1 .. Len(s) BY <1>1, <1>2
<1>4. Only(s, S) = FlattenSeq(p) BY DEF Only
<1> HIDE DEF p
<1>5. PartsDistinct(p)
  <2>1. ASSUME NEW i \in 1 .. Len(s), NEW j \in 1 .. Len(s), NEW x, x \in ToSet(p[i]), x \in ToSet(p[j])
        PROVE  i = j
    <3>1. x = s[i] /\ x = s[j] BY <1>2, <2>1
    <3> QED BY <1>1, <3>1 DEF IsInjective
  <2> QED BY <1>2, <1>3, <2>1 DEF PartsDistinct
<1> QED BY <1>3, <1>4, <1>5, FlattenInjective

\* n numbers up to n, none twice, are all of them.
LEMMA AllNumbers ==
    ASSUME NEW n \in Nat, NEW s \in Seq(1 .. n), IsInjective(s), Len(s) = n
    PROVE  ToSet(s) = 1 .. n
<1>1. ToSet(s) \subseteq 1 .. n BY DEF ToSet
<1>2. Cardinality(ToSet(s)) = n BY LengthCounts
<1>3. IsFiniteSet(1 .. n) /\ Cardinality(1 .. n) = n BY Interval
<1> QED BY <1>1, <1>2, <1>3, FS_Subset

-----------------------------------------------------------------------------
(* One order for all. *)

\* Lists of the numbers up to n, none with one twice.
Orders(n, orders) ==
    \A o \in ToSet(orders) : o \in Seq(1 .. n) /\ IsInjective(o)

\* What is placed is the beginning of every list.
PlacedOf(placed, o) == \E j \in 0 .. Len(o) : Only(placed, ToSet(o)) = Prefix(o, j)
PlacedSound(n, orders, placed) ==
    /\ placed \in Seq(1 .. n) /\ IsInjective(placed)
    /\ \A o \in ToSet(orders) : PlacedOf(placed, o)

\* One leads no list but begins those it is in.
OneFirst(orders) == \A o \in ToSet(orders) : \A k \in 1 .. Len(o) - 1 : o[k + 1] # 1

\* An element whose predecessor in a list is placed continues that list.
LEMMA TurnKeepsList ==
    ASSUME NEW n \in Nat, NEW o \in Seq(1 .. n), IsInjective(o),
           NEW placed \in Seq(1 .. n), PlacedOf(placed, o),
           NEW x \in 1 .. n, x \notin ToSet(placed),
           \A k \in 1 .. Len(o) - 1 : o[k + 1] = x => o[k] \in ToSet(placed)
    PROVE  PlacedOf(Append(placed, x), o)
<1> DEFINE S == ToSet(o)
<1>1. PICK j \in 0 .. Len(o) : Only(placed, S) = Prefix(o, j) BY DEF PlacedOf
<1>2. Len(o) \in Nat /\ DOMAIN o = 1 .. Len(o) /\ j \in Nat BY <1>1
<1>3. S = {o[k] : k \in 1 .. Len(o)} BY <1>2 DEF ToSet
<1>4. Only(Append(placed, x), S) = IF x \in S THEN Append(Only(placed, S), x) ELSE Only(placed, S)
  <2> DEFINE A == 1 .. n
  <2>1. placed \in Seq(A) /\ x \in A OBVIOUS
  <2> HIDE DEF S, A
  <2> QED BY <2>1, OnlyAppend
<1>5. CASE x \notin S BY <1>1, <1>4, <1>5 DEF PlacedOf
<1>6. CASE x \in S
  <2>1. PICK i \in 1 .. Len(o) : x = o[i] BY <1>3, <1>6
  <2>2. ToSet(placed) \cap S = {o[k] : k \in 1 .. j}
    <3>1. ToSet(Only(placed, S)) = ToSet(placed) \cap S
      <4> HIDE DEF S
      <4> QED BY OnlyIs
    <3>2. ToSet(Prefix(o, j)) = {o[k] : k \in 1 .. j} BY DEF ToSet, Prefix
    <3> QED BY <1>1, <3>1, <3>2
  <2>3. i \notin 1 .. j
    <3> SUFFICES ASSUME i \in 1 .. j PROVE FALSE OBVIOUS
    <3>1. o[i] \in ToSet(placed) BY <2>2
    <3> QED BY <2>1, <3>1
  <2>4. i <= j + 1
    <3> SUFFICES ASSUME ~ (i <= j + 1) PROVE FALSE OBVIOUS
    <3>1. i - 1 \in 1 .. Len(o) - 1 /\ (i - 1) + 1 = i /\ i - 1 \in 1 .. Len(o) /\ i - 1 \notin 1 .. j
      BY <1>2
    <3>2. o[i - 1] \in ToSet(placed) BY <2>1, <3>1
    <3>3. o[i - 1] \in S BY <1>3, <3>1
    <3>4. PICK k \in 1 .. j : o[i - 1] = o[k] BY <2>2, <3>2, <3>3
    <3>5. k \in 1 .. Len(o) BY <1>1, <1>2
    <3>6. i - 1 = k BY <1>2, <3>1, <3>4, <3>5 DEF IsInjective
    <3> QED BY <3>1, <3>6
  <2>5. i = j + 1 /\ i \in 1 .. Len(o) /\ i - 1 = j /\ (i + 1) - 1 = i BY <1>2, <2>3, <2>4
  <2>6. Append(Prefix(o, j), o[i]) = Prefix(o, i) BY <2>5, PrefixNext
  <2>7. i \in 0 .. Len(o) BY <1>2
  <2> QED BY <1>1, <1>4, <1>6, <2>1, <2>6, <2>7 DEF PlacedOf
<1> QED BY <1>5, <1>6

\* A turn of CommonOrder keeps what is placed the beginning of every list.
LEMMA OrderTurnKeeps ==
    ASSUME NEW n \in Nat, NEW orders, Orders(n, orders),
           NEW placed, PlacedSound(n, orders, placed)
    PROVE  /\ PlacedSound(n, orders, OrderTurn(n, orders, placed))
           /\ OneFirst(orders) /\ n # 0 /\ (placed = <<>> \/ placed[1] = 1)
                 => OrderTurn(n, orders, placed) # <<>> /\ OrderTurn(n, orders, placed)[1] = 1
<1> DEFINE Ready(x) == Before(n, orders, x) \subseteq ToSet(placed)
           ready == {x \in 1 .. n \ ToSet(placed) : Ready(x)}
           x == Min(ready)
           next1 == OrderTurn(n, orders, placed)
<1>1. next1 = IF ready = {} THEN placed ELSE Append(placed, x) BY DEF OrderTurn
<1>2. placed \in Seq(1 .. n) /\ IsInjective(placed) /\ \A o \in ToSet(orders) : PlacedOf(placed, o)
  BY DEF PlacedSound
<1>3. ready # {} => x \in ready /\ \A y \in ready : x <= y
  <2>1. ready \subseteq Nat OBVIOUS
  <2> HIDE DEF ready
  <2> QED BY <2>1, MinIs
<1>4. x \in ready => x \in 1 .. n /\ x \notin ToSet(placed) /\ Ready(x)
  <2> HIDE DEF x, Ready
  <2> QED OBVIOUS
<1>5. OneFirst(orders) /\ n # 0 => 1 \in 1 .. n /\ Ready(1)
  BY DEF OneFirst, Before
<1> HIDE DEF x, ready, next1
<1>6. PlacedSound(n, orders, next1)
  <2>1. CASE ready = {} BY <1>1, <2>1
  <2>2. CASE ready # {}
    <3>1. x \in 1 .. n /\ x \notin ToSet(placed) /\ Ready(x) BY <1>3, <1>4, <2>2
    <3>2. next1 = Append(placed, x) BY <1>1, <2>2
    <3>3. /\ next1 \in Seq(1 .. n) /\ Len(next1) = Len(placed) + 1 /\ next1[Len(placed) + 1] = x
          /\ \A k \in 1 .. Len(placed) : next1[k] = placed[k]
      BY <1>2, <3>1, <3>2, AppendProperties, Z3
    <3>4. IsInjective(next1)
      <4> DEFINE m == Len(placed)
      <4>1. m \in Nat /\ DOMAIN placed = 1 .. m /\ DOMAIN next1 = 1 .. m + 1 BY <1>2, <3>3
      <4>2. \A k \in 1 .. m : placed[k] # x BY <3>1, <4>1 DEF ToSet
      <4>3. \A k \in 1 .. m + 1 : k \in 1 .. m \/ k = m + 1 BY <4>1
      <4> HIDE DEF m
      <4> QED BY <1>2, <3>3, <4>1, <4>2, <4>3 DEF IsInjective, m
    <3>5. ASSUME NEW o \in ToSet(orders) PROVE PlacedOf(next1, o)
      <4>1. o \in Seq(1 .. n) /\ IsInjective(o) BY DEF Orders
      <4>2. \A k \in 1 .. Len(o) - 1 : o[k + 1] = x => o[k] \in ToSet(placed)
        <5> SUFFICES ASSUME NEW k \in 1 .. Len(o) - 1, o[k + 1] = x PROVE o[k] \in ToSet(placed)
          OBVIOUS
        <5>1. k \in 1 .. Len(o) /\ o[k] \in 1 .. n BY <4>1
        <5>2. o[k] \in Before(n, orders, x) BY <5>1 DEF Before
        <5> QED BY <3>1, <5>2
      <4> QED BY <1>2, <3>1, <3>2, <4>1, <4>2, TurnKeepsList
    <3> QED BY <3>3, <3>4, <3>5 DEF PlacedSound
  <2> QED BY <2>1, <2>2
<1>7. ASSUME OneFirst(orders), n # 0, placed = <<>> \/ placed[1] = 1
      PROVE  next1 # <<>> /\ next1[1] = 1
  <2>1. CASE placed = <<>>
    <3>1. ToSet(placed) = {} BY <2>1 DEF ToSet
    <3>2. 1 \in ready BY <1>5, <1>7, <3>1 DEF ready
    <3>3. x = 1
      <4>1. ready # {} /\ x \in 1 .. n BY <1>3, <1>4, <3>2
      <4>2. x <= 1 BY <1>3, <3>2
      <4> QED BY <4>1, <4>2
    <3>4. next1 = Append(placed, 1) BY <1>1, <3>2, <3>3
    <3> QED BY <2>1, <3>4
  <2>2. CASE placed # <<>>
    <3>1. placed[1] = 1 BY <1>7, <2>2
    <3>2. Len(placed) >= 1 BY <1>2, <2>2
    <3>3. CASE ready = {} BY <1>1, <2>2, <3>1, <3>3
    <3>4. CASE ready # {}
      <4>1. next1 = Append(placed, x) /\ x \in 1 .. n BY <1>1, <1>3, <1>4, <3>4
      <4>2. Len(next1) = Len(placed) + 1 /\ next1[1] = placed[1]
        <5>1. 1 \in 1 .. Len(placed) BY <1>2, <3>2
        <5> QED BY <1>2, <4>1, <5>1, AppendProperties, Z3
      <4>3. next1 # <<>> BY <1>2, <4>2
      <4> QED BY <3>1, <4>2, <4>3
    <3> QED BY <3>3, <3>4
  <2> QED BY <2>1, <2>2
<1> QED BY <1>6, <1>7 DEF next1

\* A complete common order is every list's order on the elements of the list, and
\* begins with 1 when nothing is before it.
LEMMA CommonOrderKeeps ==
    ASSUME NEW n \in Nat, NEW orders, Orders(n, orders), Len(CommonOrder(n, orders)) = n
    PROVE  /\ CommonOrder(n, orders) \in Seq(1 .. n)
           /\ IsInjective(CommonOrder(n, orders))
           /\ ToSet(CommonOrder(n, orders)) = 1 .. n
           /\ \A o \in ToSet(orders) : Only(CommonOrder(n, orders), ToSet(o)) = o
           /\ OneFirst(orders) /\ n # 0 => CommonOrder(n, orders)[1] = 1
<1> DEFINE X == {p \in Seq(1 .. n) : PlacedSound(n, orders, p)}
           start == <<>>
           G == [k \in 1 .. n |-> [p \in X |-> OrderTurn(n, orders, p)]]
           Defines(f) == f = [k \in 0 .. n |-> IF k = 0 THEN <<>>
                                               ELSE OrderTurn(n, orders, f[k - 1])]
           f == CHOOSE f : Defines(f)
<1>1. start \in X
  <2>1. start \in Seq(1 .. n) /\ IsInjective(start) BY DEF IsInjective
  <2>2. ASSUME NEW o \in ToSet(orders) PROVE PlacedOf(start, o)
    <3>1. Only(start, ToSet(o)) = <<>> BY OnlyNothing
    <3>2. Prefix(o, 0) = <<>> BY DEF Prefix
    <3>3. 0 \in 0 .. Len(o) BY DEF Orders
    <3> QED BY <3>1, <3>2, <3>3 DEF PlacedOf
  <2> QED BY <2>1, <2>2 DEF PlacedSound
<1>2. ASSUME NEW p \in X PROVE OrderTurn(n, orders, p) \in X
  <2>1. PlacedSound(n, orders, p) OBVIOUS
  <2>2. PlacedSound(n, orders, OrderTurn(n, orders, p)) BY <2>1, OrderTurnKeeps
  <2> QED BY <2>2 DEF PlacedSound
<1>3. G \in Steps(n, X)
  <2> HIDE DEF X
  <2> QED BY <1>2 DEF Steps
<1>4. \E h : Defines(h)
  <2>1. PICK h \in [0 .. n -> X] : h[0] = start /\ \A k \in 1 .. n : h[k] = G[k][h[k - 1]]
    <3> HIDE DEF G, X, start
    <3>2. Iteration(n, X, start, G) # {} BY <1>1, <1>3, Iterates
    <3> QED BY <3>2 DEF Iteration
  <2> HIDE DEF X
  <2>2. ASSUME NEW k \in 1 .. n PROVE h[k] = OrderTurn(n, orders, h[k - 1])
    <3>1. h[k - 1] \in X OBVIOUS
    <3> QED BY <2>1, <3>1
  <2>3. \A k \in 0 .. n : h[k] = IF k = 0 THEN <<>> ELSE OrderTurn(n, orders, h[k - 1])
    <3>1. \A k \in 0 .. n : k = 0 \/ k \in 1 .. n OBVIOUS
    <3> QED BY <2>1, <2>2, <3>1
  <2>4. h = [k \in 0 .. n |-> h[k]] OBVIOUS
  <2>5. Defines(h) BY <2>3, <2>4
  <2> QED BY <2>5
<1>5. Defines(f)
  <2> HIDE DEF Defines
  <2> QED BY <1>4
<1>6. CommonOrder(n, orders) = f[n]
  BY DEF CommonOrder
<1> HIDE DEF f
<1>7. \A k \in 0 .. n : f[k] = IF k = 0 THEN <<>> ELSE OrderTurn(n, orders, f[k - 1])
  BY <1>5, Zenon
<1> DEFINE First(p, k) == OneFirst(orders) /\ k # 0 => p # <<>> /\ p[1] = 1
           N == {k \in Nat : k <= n => f[k] \in X /\ First(f[k], k)
                                       /\ (OneFirst(orders) => f[k] = <<>> \/ f[k][1] = 1)}
<1>8. 0 \in N
  <2>1. f[0] = <<>> BY <1>7
  <2> QED BY <1>1, <2>1
<1>9. ASSUME NEW k \in Nat, k \in N PROVE k + 1 \in N
  <2> SUFFICES ASSUME k + 1 <= n
               PROVE /\ f[k + 1] \in X /\ First(f[k + 1], k + 1)
                     /\ (OneFirst(orders) => f[k + 1] = <<>> \/ f[k + 1][1] = 1)
    OBVIOUS
  <2> DEFINE p == f[k]
  <2>1. p \in X /\ (OneFirst(orders) => p = <<>> \/ p[1] = 1) BY <1>9
  <2>2. f[k + 1] = OrderTurn(n, orders, p)
    <3>1. k + 1 \in 0 .. n /\ k + 1 # 0 /\ (k + 1) - 1 = k OBVIOUS
    <3> QED BY <1>7, <3>1
  <2>3. PlacedSound(n, orders, p) BY <2>1
  <2> HIDE DEF p, X
  <2>4. OrderTurn(n, orders, p) \in X BY <1>2, <2>1
  <2>5. n # 0 OBVIOUS
  <2>6. OneFirst(orders) =>
           OrderTurn(n, orders, p) # <<>> /\ OrderTurn(n, orders, p)[1] = 1
    BY <2>1, <2>3, <2>5, OrderTurnKeeps
  <2> QED BY <2>2, <2>4, <2>6
<1>10. f[n] \in X /\ First(f[n], n)
  <2>1. Nat \subseteq N
    <3> HIDE DEF N
    <3> QED BY <1>8, <1>9, Numbers
  <2> HIDE DEF X, First
  <2> QED BY <2>1
<1> DEFINE r == CommonOrder(n, orders)
<1> DEFINE y == f[n]
<1>11. r \in Seq(1 .. n) /\ IsInjective(r) /\ Len(r) = n /\ \A o \in ToSet(orders) : PlacedOf(r, o)
  <2>1. y \in X BY <1>10
  <2>2. y \in Seq(1 .. n) /\ PlacedSound(n, orders, y) BY <2>1
  <2>3. r = y BY <1>6
  <2>4. Len(r) = n OBVIOUS
  <2> HIDE DEF r, y
  <2> QED BY <2>2, <2>3, <2>4 DEF PlacedSound
<1>12. OneFirst(orders) /\ n # 0 => r[1] = 1
  <2>1. First(y, n) BY <1>10
  <2>2. r = y BY <1>6
  <2> HIDE DEF r, y
  <2> QED BY <2>1, <2>2
<1> HIDE DEF r
<1>13. ToSet(r) = 1 .. n BY <1>11, AllNumbers
<1>14. ASSUME NEW o \in ToSet(orders) PROVE Only(r, ToSet(o)) = o
  <2>1. PICK j \in 0 .. Len(o) : Only(r, ToSet(o)) = Prefix(o, j) BY <1>11 DEF PlacedOf
  <2>2. o \in Seq(1 .. n) /\ IsInjective(o) BY DEF Orders
  <2>3. Len(o) \in Nat /\ DOMAIN o = 1 .. Len(o) BY <2>2
  <2>30. o = Prefix(o, Len(o)) BY <2>2 DEF Prefix
  <2>4. ToSet(Prefix(o, j)) = ToSet(o)
    <3>1. ToSet(o) \subseteq 1 .. n BY <2>2 DEF ToSet
    <3> DEFINE A == 1 .. n
               S == ToSet(o)
    <3>2. r \in Seq(A) BY <1>11
    <3> HIDE DEF A, S
    <3>3. ToSet(Only(r, S)) = ToSet(r) \cap S BY <3>2, OnlyIs
    <3>4. ToSet(Only(r, S)) = ToSet(o) BY <1>13, <3>1, <3>3 DEF S
    <3> QED BY <2>1, <3>4 DEF S
  <2>5. j = Len(o)
    <3> SUFFICES ASSUME j # Len(o) PROVE FALSE OBVIOUS
    <3>0. PICK m : m = Len(o) OBVIOUS
    <3>00. m \in Nat /\ j \in 0 .. m /\ j # m BY <2>3, <3>0
    <3>1. j + 1 \in 1 .. m BY <3>00
    <3>2. o[j + 1] \in ToSet(Prefix(o, j)) BY <2>3, <2>4, <3>0, <3>1 DEF ToSet
    <3>3. PICK k \in 1 .. j : o[k] = o[j + 1] BY <3>2 DEF ToSet, Prefix
    <3>4. k \in 1 .. m /\ k # j + 1 BY <3>00
    <3> QED BY <2>2, <2>3, <3>0, <3>1, <3>3, <3>4 DEF IsInjective
  <2> QED BY <2>1, <2>30, <2>5
<1> QED BY <1>11, <1>12, <1>13, <1>14 DEF r

-----------------------------------------------------------------------------
(* The cases of a group. *)

\* One case more, once.
LEMMA AddNewKeeps ==
    ASSUME NEW A, NEW q \in Seq(A), IsInjective(q), NEW c \in A
    PROVE  AddNew(q, c) \in Seq(A) /\ IsInjective(AddNew(q, c)) /\ ToSet(AddNew(q, c)) = ToSet(q) \cup {c}
<1>1. Contains(q, c) <=> c \in ToSet(q) BY DEF Contains, ToSet
<1>2. CASE Contains(q, c)
  <2>1. AddNew(q, c) = q BY <1>2 DEF AddNew
  <2> QED BY <1>1, <1>2, <2>1
<1>3. CASE ~ Contains(q, c)
  <2> DEFINE r == Append(q, c)
             m == Len(q)
  <2>1. AddNew(q, c) = r BY <1>3 DEF AddNew
  <2>2. /\ r \in Seq(A) /\ Len(r) = m + 1 /\ r[m + 1] = c /\ \A k \in 1 .. m : r[k] = q[k]
        /\ m \in Nat /\ DOMAIN q = 1 .. m
    BY AppendProperties, Z3
  <2> HIDE DEF r, m
  <2>3. DOMAIN r = 1 .. m + 1 /\ \A k \in 1 .. m + 1 : k \in 1 .. m \/ k = m + 1 BY <2>2
  <2>4. \A k \in 1 .. m : q[k] # c BY <1>1, <1>3, <2>2 DEF ToSet
  <2>5. IsInjective(r) BY <2>2, <2>3, <2>4 DEF IsInjective
  <2>6. ToSet(r) = ToSet(q) \cup {c}
    <3>1. ToSet(r) \subseteq ToSet(q) \cup {c} BY <2>2, <2>3 DEF ToSet
    <3>2. c \in ToSet(r)
      <4>1. m + 1 \in DOMAIN r BY <2>2, <2>3
      <4> QED BY <2>2, <4>1 DEF ToSet
    <3>3. \A x \in ToSet(q) : x \in ToSet(r)
      <4>1. \A k \in 1 .. m : k \in DOMAIN r BY <2>2, <2>3
      <4> QED BY <2>2, <4>1 DEF ToSet
    <3> QED BY <3>1, <3>2, <3>3
  <2> QED BY <2>1, <2>2, <2>5, <2>6
<1> QED BY <1>2, <1>3

\* Distinct has each element once and no other.
LEMMA DistinctIs ==
    ASSUME NEW A, NEW s \in Seq(A)
    PROVE  Distinct(s) \in Seq(A) /\ IsInjective(Distinct(s)) /\ ToSet(Distinct(s)) = ToSet(s)
<1> DEFINE n == Len(s)
           X == {q \in Seq(A) : IsInjective(q)}
           start == <<>>
           G == [k \in 1 .. n |-> [q \in X |-> AddNew(q, s[k])]]
           Defines(f) == f = [k \in 0 .. n |-> IF k = 0 THEN <<>> ELSE AddNew(f[k - 1], s[k])]
           f == CHOOSE f : Defines(f)
<1>0. n \in Nat /\ DOMAIN s = 1 .. n /\ \A k \in 1 .. n : s[k] \in A
  OBVIOUS
<1> HIDE DEF n
<1>1. start \in X BY DEF IsInjective
<1>2. ASSUME NEW q \in X, NEW k \in 1 .. n
      PROVE  AddNew(q, s[k]) \in X /\ ToSet(AddNew(q, s[k])) = ToSet(q) \cup {s[k]}
  BY <1>0, AddNewKeeps
<1>3. G \in Steps(n, X)
  <2> HIDE DEF X
  <2> QED BY <1>2 DEF Steps
<1>4. \E h : Defines(h)
  <2>1. PICK h \in [0 .. n -> X] : h[0] = start /\ \A k \in 1 .. n : h[k] = G[k][h[k - 1]]
    <3> HIDE DEF G, X, start
    <3>2. Iteration(n, X, start, G) # {} BY <1>0, <1>1, <1>3, Iterates
    <3> QED BY <3>2 DEF Iteration
  <2> HIDE DEF X
  <2>2. ASSUME NEW k \in 1 .. n PROVE h[k] = AddNew(h[k - 1], s[k])
    <3>1. h[k - 1] \in X BY <1>0
    <3> QED BY <2>1, <3>1
  <2>3. \A k \in 0 .. n : h[k] = IF k = 0 THEN <<>> ELSE AddNew(h[k - 1], s[k])
    <3>1. \A k \in 0 .. n : k = 0 \/ k \in 1 .. n BY <1>0
    <3> QED BY <2>1, <2>2, <3>1
  <2>4. h = [k \in 0 .. n |-> h[k]] OBVIOUS
  <2>5. Defines(h) BY <2>3, <2>4
  <2> QED BY <2>5
<1>5. Defines(f)
  <2> HIDE DEF Defines
  <2> QED BY <1>4
<1>6. Distinct(s) = f[n]
  BY DEF Distinct, n
<1> HIDE DEF f
<1>7. \A k \in 0 .. n : f[k] = IF k = 0 THEN <<>> ELSE AddNew(f[k - 1], s[k])
  BY <1>5, Zenon
<1> DEFINE N == {k \in Nat : k <= n => f[k] \in X /\ ToSet(f[k]) = {s[i] : i \in 1 .. k}}
<1>8. 0 \in N
  <2>1. f[0] = <<>> BY <1>0, <1>7
  <2>2. ToSet(<<>>) = {} BY DEF ToSet
  <2> HIDE DEF X
  <2> QED BY <1>1, <2>1, <2>2
<1>9. ASSUME NEW k \in Nat, k \in N PROVE k + 1 \in N
  <2> SUFFICES ASSUME k + 1 <= n
               PROVE f[k + 1] \in X /\ ToSet(f[k + 1]) = {s[i] : i \in 1 .. k + 1}
    OBVIOUS
  <2> DEFINE q == f[k]
  <2>1. q \in X /\ ToSet(q) = {s[i] : i \in 1 .. k} BY <1>0, <1>9
  <2>2. f[k + 1] = AddNew(q, s[k + 1])
    <3>1. k + 1 \in 0 .. n /\ k + 1 # 0 /\ (k + 1) - 1 = k BY <1>0
    <3> QED BY <1>7, <3>1
  <2>3. k + 1 \in 1 .. n BY <1>0
  <2> HIDE DEF q, X
  <2>4. AddNew(q, s[k + 1]) \in X /\ ToSet(AddNew(q, s[k + 1])) = ToSet(q) \cup {s[k + 1]}
    BY <1>2, <2>1, <2>3
  <2>5. \A i \in 1 .. k + 1 : i \in 1 .. k \/ i = k + 1 OBVIOUS
  <2>6. {s[i] : i \in 1 .. k + 1} = {s[i] : i \in 1 .. k} \cup {s[k + 1]} BY <2>5
  <2> QED BY <2>1, <2>2, <2>4, <2>6
<1>10. f[n] \in X /\ ToSet(f[n]) = {s[i] : i \in 1 .. n}
  <2>1. Nat \subseteq N
    <3> HIDE DEF N
    <3> QED BY <1>8, <1>9, Numbers
  <2>2. n \in N
    <3> HIDE DEF N
    <3> QED BY <1>0, <2>1
  <2>3. n <= n BY <1>0
  <2> HIDE DEF X
  <2> QED BY <2>2, <2>3
<1>11. ToSet(s) = {s[i] : i \in 1 .. n} BY <1>0 DEF ToSet
<1> DEFINE y == f[n]
<1>12. y \in Seq(A) /\ IsInjective(y) BY <1>10
<1> HIDE DEF X
<1> QED BY <1>6, <1>10, <1>11, <1>12

-----------------------------------------------------------------------------
(* Groups in the common order. *)

\* All targets are in the groups, in their orders.
AllOrdered ==
    /\ IsSeq(functions) /\ \A t \in Targets : NativeGraph(functions[t])
    /\ groups \in Seq([Targets -> Nat]) /\ groups # <<>>
    /\ \A t \in Targets : Grouped(t) /\ InOrder(t)

\* The group of a block is the one that has it.
LEMMA GroupOfIs ==
    ASSUME groups \in Seq([Targets -> Nat]), NEW t \in Targets, Grouped(t),
           IsSeq(functions[t]), NEW b \in DOMAIN functions[t]
    PROVE  /\ GroupOf(t, b) \in DOMAIN groups /\ groups[GroupOf(t, b)][t] = b
           /\ \A g \in DOMAIN groups : groups[g][t] = b => g = GroupOf(t, b)
<1> DEFINE I == {i \in 1 .. Len(groups) : groups[i][t] = b}
           p == GroupOf(t, b)
<1>1. DOMAIN groups = 1 .. Len(groups) /\ Len(groups) \in Nat OBVIOUS
<1>2. I # {} /\ I \subseteq Nat BY <1>1 DEF Grouped
<1>3. p = Min(I) BY <1>2 DEF GroupOf, SelectInSeq
<1>4. p \in I
  <2> HIDE DEF I, p
  <2> QED BY <1>2, <1>3, MinIs
<1>5. b # 0
  <2>1. b \in 1 .. Len(functions[t]) BY DEF IsSeq
  <2> QED BY <2>1
<1>6. p \in DOMAIN groups /\ groups[p][t] = b
  <2> HIDE DEF p
  <2> QED BY <1>1, <1>4
<1> HIDE DEF p
<1>7. \A g \in DOMAIN groups : groups[g][t] = b => g = p
  BY <1>5, <1>6 DEF Grouped
<1> QED BY <1>6, <1>7 DEF p

\* The groups of target t, in their order.
Mine(t) == Only([g \in DOMAIN groups |-> g], {g \in DOMAIN groups : groups[g][t] # 0})

\* They are the groups of its blocks, in the order of the blocks.
LEMMA MineIs ==
    ASSUME groups \in Seq([Targets -> Nat]), NEW t \in Targets, Grouped(t), InOrder(t),
           IsSeq(functions[t])
    PROVE  /\ Mine(t) \in Seq(DOMAIN groups) /\ DOMAIN Mine(t) = DOMAIN functions[t]
           /\ \A b \in DOMAIN functions[t] : Mine(t)[b] = GroupOf(t, b)
<1> DEFINE A == DOMAIN groups
           s == [g \in A |-> g]
           c == [g \in A |-> groups[g][t]]
           S == {g \in A : groups[g][t] # 0}
           T == DOMAIN functions[t]
           f == functions[t]
<1>1. /\ A = 1 .. Len(groups) /\ Len(groups) \in Nat /\ T = 1 .. Len(f) /\ Len(f) \in Nat
  BY DEF IsSeq
<1>2. \A g \in A : groups[g][t] \in Nat OBVIOUS
<1>3. s \in Seq(A) /\ Len(s) = Len(groups) BY <1>1
<1>4. c \in [A -> Nat] /\ \A g \in A : c[g] = groups[g][t] BY <1>2
<1>5. \A g \in A : g \in S <=> c[g] \in T
  <2>1. \A g \in A : groups[g][t] \in 0 .. Len(f) BY DEF Grouped
  <2> HIDE DEF A, f, T
  <2>2. \A g \in A : c[g] # 0 <=> c[g] \in T BY <1>1, <1>4, <2>1
  <2> QED BY <1>4, <2>2
<1>6. Mapped(c, s) = BlocksOf(t)
  BY <1>1, <1>3 DEF Mapped, BlocksOf
<1>7. Mine(t) = Only(s, S) BY DEF Mine
<1>8. Only(BlocksOf(t), T) = [b \in T |-> b] BY DEF InOrder
<1> HIDE DEF A, s, c, S, T
<1>9. Only(s, S) \in Seq(A) BY <1>3, OnlyIs
<1>10. Only(Mapped(c, s), T) = Mapped(c, Only(s, S))
  <2>1. c \in Maps(A, Nat) /\ TellsApart(c, A, S, T) BY <1>4, <1>5 DEF Maps, TellsApart
  <2> QED BY <1>3, <2>1, OnlyMapped
<1> DEFINE m == Mine(t)
<1>11. Mapped(c, m) = [b \in T |-> b] /\ m \in Seq(A) BY <1>6, <1>7, <1>8, <1>9, <1>10
<1> HIDE DEF m
<1>12. DOMAIN m = T /\ \A b \in T : c[m[b]] = b
  <2>1. Mapped(c, m) = [k \in 1 .. Len(m) |-> c[m[k]]] BY DEF Mapped
  <2>2. DOMAIN m = 1 .. Len(m) BY <1>11
  <2> QED BY <1>11, <2>1, <2>2
<1>13. ASSUME NEW b \in T PROVE m[b] = GroupOf(t, b)
  <2>1. m[b] \in A /\ c[m[b]] = b BY <1>11, <1>12
  <2>2. groups[m[b]][t] = b BY <1>4, <2>1
  <2> QED BY <2>1, <2>2, GroupOfIs DEF A, T
<1> QED BY <1>11, <1>12, <1>13 DEF m, A, T

\* The block of a target in a group.
LEMMA BlockInIs ==
    ASSUME AllOrdered, NEW g \in DOMAIN groups, NEW t \in PresentIn(groups[g])
    PROVE  /\ t \in Targets /\ groups[g][t] \in DOMAIN functions[t]
           /\ BlockIn(groups[g], t) = functions[t][groups[g][t]]
           /\ NativeGraph(functions[t]) /\ IsSeq(functions[t])
<1>1. t \in Targets /\ groups[g][t] # 0 BY DEF PresentIn
<1>2. NativeGraph(functions[t]) /\ IsSeq(functions[t]) /\ Grouped(t) BY <1>1 DEF AllOrdered, NativeGraph
<1>3. groups[g][t] \in 0 .. Len(functions[t]) BY <1>2 DEF Grouped
<1>4. DOMAIN functions[t] = 1 .. Len(functions[t]) /\ Len(functions[t]) \in Nat BY <1>2 DEF IsSeq
<1>5. groups[g][t] \in DOMAIN functions[t] BY <1>1, <1>3, <1>4
<1> QED BY <1>1, <1>2, <1>5 DEF BlockIn

\* The cases of one target differ.
LEMMA CasesInAre ==
    ASSUME AllOrdered, NEW g \in DOMAIN groups, NEW t \in PresentIn(groups[g])
    PROVE  /\ IsSeq(CasesIn(groups[g], t)) /\ IsInjective(CasesIn(groups[g], t))
           /\ DOMAIN CasesIn(groups[g], t) = DOMAIN BlockIn(groups[g], t).labels
           /\ \A k \in DOMAIN CasesIn(groups[g], t) :
                 CasesIn(groups[g], t)[k]
                   = <<GroupOf(t, BlockIn(groups[g], t).succ[k + 1]), BlockIn(groups[g], t).labels[k]>>
<1> DEFINE block == BlockIn(groups[g], t)
           labels == block.labels
           c == CasesIn(groups[g], t)
<1>1. IsSeq(labels) /\ IsInjective(labels) BY BlockInIs DEF NativeGraph
<1>2. c = [k \in DOMAIN labels |-> <<GroupOf(t, block.succ[k + 1]), labels[k]>>] BY DEF CasesIn
<1> HIDE DEF c, block
<1>3. DOMAIN c = DOMAIN labels
      /\ \A k \in DOMAIN labels : c[k] = <<GroupOf(t, block.succ[k + 1]), labels[k]>>
  BY <1>2
<1>4. DOMAIN labels = 1 .. Len(labels) /\ Len(labels) \in Nat BY <1>1 DEF IsSeq
<1>5. IsInjective(c)
  <2>1. \A k \in DOMAIN labels : c[k][2] = labels[k] BY <1>3
  <2> HIDE DEF labels
  <2> QED BY <1>1, <1>3, <2>1 DEF IsInjective
<1>6. IsSeq(c)
  <2>1. \A k \in 1 .. Len(labels) : c[k] \in ToSet(c) BY <1>3, <1>4 DEF ToSet
  <2>2. c = [k \in 1 .. Len(labels) |-> c[k]] BY <1>2, <1>4
  <2> HIDE DEF labels
  <2>3. c \in Seq(ToSet(c)) BY <1>4, <2>1, <2>2
  <2> QED BY <2>3 DEF IsSeq
<1> QED BY <1>3, <1>5, <1>6 DEF c, block

AllCases(group) == UNION {ToSet(CasesIn(group, t)) : t \in PresentIn(group)}

\* The cases found are those of all targets, each once.
LEMMA CasesFoundAre ==
    ASSUME AllOrdered, NEW g \in DOMAIN groups
    PROVE  /\ CasesFound(groups[g]) \in Seq(AllCases(groups[g]))
           /\ IsInjective(CasesFound(groups[g]))
           /\ ToSet(CasesFound(groups[g])) = AllCases(groups[g])
<1>0. PICK group : group = groups[g] OBVIOUS
<1> DEFINE A == AllCases(group)
           p == [t \in Targets |-> CasesOf(group, t)]
<1>1. Targets = 1 .. Len(functions) /\ Len(functions) \in Nat BY DEF AllOrdered, IsSeq, Targets
<1>2. ASSUME NEW t \in Targets
      PROVE  CasesOf(group, t) \in Seq(A)
             /\ ToSet(CasesOf(group, t)) = IF t \in PresentIn(group) THEN ToSet(CasesIn(group, t)) ELSE {}
  <2>1. CASE t \in PresentIn(group)
    <3>1. CasesOf(group, t) = CasesIn(group, t) BY <2>1 DEF CasesOf, PresentIn
    <3> DEFINE c == CasesIn(group, t)
    <3>2. c \in Seq(ToSet(c)) BY <1>0, <2>1, CasesInAre DEF IsSeq
    <3>3. ToSet(c) \subseteq A BY <2>1 DEF AllCases
    <3> HIDE DEF c, A
    <3>4. c \in Seq(A) BY <3>2, <3>3
    <3> QED BY <2>1, <3>1, <3>4 DEF c
  <2>2. CASE t \notin PresentIn(group)
    <3>1. CasesOf(group, t) = <<>> BY <2>2 DEF CasesOf, PresentIn
    <3>2. <<>> \in Seq(A) /\ ToSet(<<>>) = {} BY DEF ToSet
    <3> QED BY <2>2, <3>1, <3>2
  <2> QED BY <2>1, <2>2
<1>3. CasesFound(group) = Distinct(FlattenSeq(p)) BY DEF CasesFound
<1>4. DOMAIN p = Targets /\ p = [t \in Targets |-> p[t]] /\ \A t \in Targets : p[t] = CasesOf(group, t)
  OBVIOUS
<1> HIDE DEF p, A
<1>5. p \in Seq(Seq(A)) BY <1>1, <1>2, <1>4
<1>6. FlattenSeq(p) \in Seq(A) /\ ToSet(FlattenSeq(p)) = UNION {ToSet(p[t]) : t \in DOMAIN p}
  BY <1>5, FlattenTyped, FlattenToSet
<1>7. UNION {ToSet(p[t]) : t \in DOMAIN p} = A
  <2>1. \A t \in Targets : ToSet(p[t]) = IF t \in PresentIn(group) THEN ToSet(CasesIn(group, t)) ELSE {}
    BY <1>2, <1>4
  <2>2. PresentIn(group) \subseteq Targets BY DEF PresentIn
  <2>3. \A x : x \in UNION {ToSet(p[t]) : t \in DOMAIN p} <=> \E t \in Targets : x \in ToSet(p[t])
    BY <1>4
  <2>4. \A x : x \in A <=> \E t \in PresentIn(group) : x \in ToSet(CasesIn(group, t))
    BY DEF A, AllCases
  <2> QED BY <2>1, <2>2, <2>3, <2>4
<1> DEFINE q == FlattenSeq(p)
<1>8. q \in Seq(A) /\ ToSet(q) = A BY <1>6, <1>7
<1> HIDE DEF q
<1>9. Distinct(q) \in Seq(A) /\ IsInjective(Distinct(q)) /\ ToSet(Distinct(q)) = A BY <1>8, DistinctIs
<1> QED BY <1>0, <1>3, <1>9 DEF q, A

\* The cases of a group in their common order.
CaseList(group) == [k \in DOMAIN CaseOrder(group) |-> CasesFound(group)[CaseOrder(group)[k]]]

\* Each target's cases are in it, in the target's order.
LEMMA CaseListIs ==
    ASSUME AllOrdered, NEW g \in DOMAIN groups, NEW t \in PresentIn(groups[g]),
           Len(CaseOrder(groups[g])) = Len(CasesFound(groups[g]))
    PROVE  /\ CaseList(groups[g]) \in Seq(AllCases(groups[g]))
           /\ DOMAIN CaseList(groups[g]) = DOMAIN CaseOrder(groups[g])
           /\ Only(CaseList(groups[g]), ToSet(CasesIn(groups[g], t))) = CasesIn(groups[g], t)
<1>0. PICK group : group = groups[g] OBVIOUS
<1> DEFINE A == AllCases(group)
           found == CasesFound(group)
           n == Len(found)
           Index(c) == SelectInSeq(found, LAMBDA d : d = c)
           orders == [u \in Targets |-> [k \in DOMAIN CasesOf(group, u) |-> Index(CasesOf(group, u)[k])]]
           order == CommonOrder(n, orders)
           c == CasesIn(group, t)
           o == orders[t]
           e == [i \in 1 .. n |-> found[i]]
<1>1. found \in Seq(A) /\ IsInjective(found) /\ ToSet(found) = A BY <1>0, CasesFoundAre
<1>2. n \in Nat /\ DOMAIN found = 1 .. n BY <1>1
<1>3. CaseOrder(group) = order BY DEF CaseOrder
<1>4. Len(order) = n BY <1>0, <1>3
<1>5. ASSUME NEW x \in A
      PROVE  Index(x) \in 1 .. n /\ found[Index(x)] = x
  <2>1. \E j \in 1 .. Len(found) : found[j] = x BY <1>1, <1>2 DEF ToSet
  <2> HIDE DEF found
  <2> QED BY <1>2, <2>1, Found DEF n
<1>6. ASSUME NEW u \in PresentIn(group)
      PROVE  /\ u \in Targets /\ orders[u] = [k \in DOMAIN CasesIn(group, u) |-> Index(CasesIn(group, u)[k])]
             /\ IsSeq(CasesIn(group, u)) /\ IsInjective(CasesIn(group, u))
             /\ \A k \in DOMAIN CasesIn(group, u) : CasesIn(group, u)[k] \in A
  <2>1. u \in Targets /\ CasesOf(group, u) = CasesIn(group, u) BY DEF PresentIn, CasesOf
  <2>2. IsSeq(CasesIn(group, u)) /\ IsInjective(CasesIn(group, u)) BY <1>0, CasesInAre
  <2>3. \A k \in DOMAIN CasesIn(group, u) : CasesIn(group, u)[k] \in A BY DEF AllCases, ToSet
  <2> HIDE DEF Index, A
  <2> QED BY <2>1, <2>2, <2>3
<1>7. ASSUME NEW u \in Targets, u \notin PresentIn(group) PROVE orders[u] = <<>>
  <2>1. CasesOf(group, u) = <<>> BY <1>7 DEF PresentIn, CasesOf
  <2> HIDE DEF Index
  <2> QED BY <2>1
<1>8. DOMAIN orders = Targets OBVIOUS
<1> HIDE DEF Index, orders, A, found, n
<1>9. ASSUME NEW u \in Targets PROVE orders[u] \in Seq(1 .. n) /\ IsInjective(orders[u])
  <2>1. CASE u \in PresentIn(group)
    <3> DEFINE d == CasesIn(group, u)
               r == orders[u]
    <3>1. r = [k \in DOMAIN d |-> Index(d[k])] /\ IsSeq(d) /\ IsInjective(d)
          /\ \A k \in DOMAIN d : d[k] \in A
      BY <1>6, <2>1
    <3> HIDE DEF d, r
    <3>2. DOMAIN d = 1 .. Len(d) /\ Len(d) \in Nat BY <3>1 DEF IsSeq
    <3>3. \A k \in DOMAIN d : r[k] \in 1 .. n /\ found[r[k]] = d[k] BY <1>5, <3>1
    <3>4. r \in Seq(1 .. n) BY <3>1, <3>2, <3>3
    <3>5. IsInjective(r)
      <4>1. DOMAIN r = DOMAIN d BY <3>1
      <4> QED BY <3>1, <3>3, <4>1 DEF IsInjective
    <3> QED BY <3>4, <3>5 DEF r
  <2>2. CASE u \notin PresentIn(group)
    <3>1. orders[u] = <<>> BY <1>7, <2>2
    <3>2. <<>> \in Seq(1 .. n) /\ IsInjective(<<>>) BY DEF IsInjective
    <3> QED BY <3>1, <3>2
  <2> QED BY <2>1, <2>2
<1>10. Orders(n, orders)
  BY <1>8, <1>9 DEF Orders, ToSet
<1>11. t \in Targets /\ o \in ToSet(orders)
  <2>1. t \in Targets BY <1>0, <1>6
  <2> QED BY <1>8, <2>1 DEF ToSet
<1>12. order \in Seq(1 .. n) /\ Only(order, ToSet(o)) = o
  BY <1>2, <1>4, <1>10, <1>11, CommonOrderKeeps
<1>13. /\ o = [k \in DOMAIN c |-> Index(c[k])] /\ IsSeq(c) /\ \A k \in DOMAIN c : c[k] \in A
       /\ DOMAIN c = 1 .. Len(c) /\ Len(c) \in Nat
  BY <1>0, <1>6 DEF IsSeq
<1>14. o \in Seq(1 .. n) /\ DOMAIN o = DOMAIN c /\ \A k \in DOMAIN c : o[k] = Index(c[k]) /\ found[o[k]] = c[k]
  <2>1. o \in Seq(1 .. n) BY <1>9, <1>11
  <2> HIDE DEF o, c
  <2> QED BY <1>5, <1>13, <2>1
<1> HIDE DEF order, o, c
<1>15. e \in [1 .. n -> A] /\ \A i \in 1 .. n : e[i] = found[i]
  BY <1>1, <1>2
<1>16. CaseList(group) = Mapped(e, order)
  <2>0. order \in Seq(1 .. n) BY <1>12
  <2>1. DOMAIN order = 1 .. Len(order) /\ \A k \in 1 .. Len(order) : order[k] \in 1 .. n
    <3> DEFINE D == 1 .. n
    <3>1. order \in Seq(D) BY <2>0
    <3> HIDE DEF D
    <3>2. DOMAIN order = 1 .. Len(order) /\ \A k \in 1 .. Len(order) : order[k] \in D BY <3>1
    <3> QED BY <3>2 DEF D
  <2>2. CaseList(group) = [k \in DOMAIN order |-> found[order[k]]] BY <1>3 DEF CaseList, found
  <2> HIDE DEF e
  <2> QED BY <1>15, <2>1, <2>2 DEF Mapped
<1>17. Mapped(e, o) = c
  <2>1. Len(o) = Len(c) BY <1>13, <1>14
  <2>2. \A k \in 1 .. Len(c) : o[k] \in 1 .. n BY <1>13, <1>14
  <2>3. \A k \in 1 .. Len(c) : e[o[k]] = c[k] BY <1>13, <1>14, <1>15, <2>2
  <2>4. c = [k \in 1 .. Len(c) |-> c[k]]
    <3>1. c \in Seq(ToSet(c)) BY <1>13 DEF IsSeq
    <3> QED BY <3>1
  <2> HIDE DEF e
  <2> QED BY <2>1, <2>3, <2>4 DEF Mapped
<1>18. ASSUME NEW i \in 1 .. n PROVE i \in ToSet(o) <=> e[i] \in ToSet(c)
  <2>1. i \in ToSet(o) => e[i] \in ToSet(c) BY <1>14, <1>15 DEF ToSet
  <2>2. ASSUME e[i] \in ToSet(c) PROVE i \in ToSet(o)
    <3>1. PICK k \in DOMAIN c : c[k] = found[i] BY <1>15, <2>2 DEF ToSet
    <3>2. found[o[k]] = found[i] /\ o[k] \in 1 .. n BY <1>13, <1>14, <3>1
    <3>3. o[k] = i BY <1>1, <1>2, <3>2 DEF IsInjective
    <3> QED BY <1>14, <3>3 DEF ToSet
  <2> QED BY <2>1, <2>2
<1> DEFINE D == 1 .. n
           S == ToSet(o)
           T == ToSet(c)
<1>19. /\ e \in Maps(D, A) /\ TellsApart(e, D, S, T) /\ order \in Seq(D)
  BY <1>12, <1>15, <1>18 DEF Maps, TellsApart
<1>20. Only(order, S) = o BY <1>12
<1> HIDE DEF D, S, T, e
<1>21. Only(Mapped(e, order), T) = Mapped(e, Only(order, S)) BY <1>19, OnlyMapped
<1>22. CaseList(group) \in Seq(A) /\ DOMAIN CaseList(group) = DOMAIN CaseOrder(group)
  <2>1. \A k \in 1 .. Len(order) : e[order[k]] \in A BY <1>19 DEF Maps
  <2>0. Len(order) \in Nat BY <1>12
  <2>2. Mapped(e, order) \in Seq(A) BY <2>0, <2>1 DEF Mapped
  <2>3. DOMAIN CaseList(group) = DOMAIN CaseOrder(group) BY DEF CaseList
  <2> QED BY <1>16, <2>2, <2>3
<1> QED BY <1>0, <1>16, <1>17, <1>20, <1>21, <1>22 DEF A, T, c

\* Two lists, one after the other.
LEMMA ConcatIs ==
    ASSUME NEW m \in Nat, NEW n \in Nat, NEW s, NEW r,
           s = [k \in 1 .. m |-> s[k]], r = [k \in 1 .. n |-> r[k]]
    PROVE  /\ DOMAIN (s \o r) = 1 .. m + n
           /\ \A k \in 1 .. m : (s \o r)[k] = s[k]
           /\ \A k \in 1 .. n : (s \o r)[m + k] = r[k]
<1> DEFINE A == {s[k] : k \in 1 .. m} \cup {r[k] : k \in 1 .. n}
<1>1. /\ \A k \in 1 .. m : s[k] \in A
      /\ \A k \in 1 .. n : r[k] \in A
  OBVIOUS
<1> HIDE DEF A
<1>2. s \in Seq(A) /\ Len(s) = m BY <1>1
<1>3. r \in Seq(A) /\ Len(r) = n BY <1>1
<1>4. /\ DOMAIN (s \o r) = 1 .. m + n
      /\ \A k \in 1 .. m + n : (s \o r)[k] = IF k <= m THEN s[k] ELSE r[k - m]
  BY <1>2, <1>3
<1>5. ASSUME NEW k \in 1 .. m PROVE (s \o r)[k] = s[k]
  BY <1>4
<1>6. ASSUME NEW k \in 1 .. n PROVE (s \o r)[m + k] = r[k]
  <2>1. m + k \in 1 .. m + n /\ ~ (m + k <= m) /\ (m + k) - m = k OBVIOUS
  <2> QED BY <1>4, <2>1
<1> QED BY <1>4, <1>5, <1>6

\* The common block agrees with the block of every target that has it.
LEMMA EmittedIs ==
    ASSUME AllOrdered, NEW g \in DOMAIN groups, NEW t \in PresentIn(groups[g]),
           Emittable(groups[g])
    PROVE  LET group == groups[g]
               block == EmittedBlock(group)
               b == BlockIn(group, t)
               list == CaseList(group)
           IN  /\ block.domain = PresentIn(group) /\ block.body = group
               /\ block.kind = b.kind /\ block.width = b.width /\ block.phi = b.phi
               /\ b.kind # "switch" =>
                     /\ block.labels = <<>> /\ DOMAIN block.succ = DOMAIN b.succ
                     /\ \A k \in DOMAIN b.succ : block.succ[k] = GroupOf(t, b.succ[k])
               /\ b.kind = "switch" =>
                     /\ Len(CaseOrder(group)) = Len(CasesFound(group))
                     /\ DOMAIN block.labels = DOMAIN list
                     /\ DOMAIN block.succ = 1 .. Len(list) + 1
                     /\ block.succ[1] = GroupOf(t, b.succ[1])
                     /\ \A k \in DOMAIN list :
                           /\ block.succ[k + 1] = list[k][1] /\ block.labels[k] = list[k][2]
                           /\ block.domains[k] = CaseDomain(group, list[k])
<1>0. PICK group : group = groups[g] OBVIOUS
<1> DEFINE u == Min(PresentIn(group))
           a == BlockIn(group, u)
           b == BlockIn(group, t)
           block == EmittedBlock(group)
           list == CaseList(group)
           order == IF a.kind = "switch" THEN CaseOrder(group) ELSE <<>>
           cases == [k \in DOMAIN order |-> CasesFound(group)[order[k]]]
           edges == IF a.kind = "switch" THEN <<a.succ[1]>> ELSE a.succ
           s == [k \in DOMAIN edges |-> GroupOf(u, edges[k])]
           r == [k \in DOMAIN cases |-> cases[k][1]]
<1>1. PresentIn(group) \subseteq Nat /\ t \in PresentIn(group)
  BY <1>0 DEF PresentIn, AllOrdered, IsSeq, Targets
<1>2. u \in PresentIn(group) BY <1>1, MinIs
<1>3. block = [domain |-> PresentIn(group), body |-> group, kind |-> a.kind,
               width |-> a.width, phi |-> a.phi,
               succ |-> s \o r,
               labels |-> [k \in DOMAIN cases |-> cases[k][2]],
               domains |-> [k \in DOMAIN cases |-> CaseDomain(group, cases[k])]]
  BY DEF EmittedBlock
<1>4. /\ a.kind = b.kind /\ a.width = b.width /\ a.phi = b.phi
      /\ \A k \in (IF a.kind = "switch" THEN {1} ELSE DOMAIN a.succ) :
            GroupOf(u, a.succ[k]) = GroupOf(t, b.succ[k])
      /\ a.kind = "switch" => Len(CaseOrder(group)) = Len(CasesFound(group))
  BY <1>0, <1>1, <1>2 DEF Emittable
<1>5. /\ IsSeq(a.succ) /\ IsSeq(b.succ)
      /\ a.kind # "switch" => Len(a.succ) = Len(b.succ)
  <2>1. \A v \in PresentIn(group) : /\ NativeGraph(functions[v]) /\ group[v] \in DOMAIN functions[v]
                                    /\ BlockIn(group, v) = functions[v][group[v]]
    BY <1>0, BlockInIs
  <2>2. \A v \in PresentIn(group) :
           /\ BlockIn(group, v).succ \in Seq(DOMAIN functions[v])
           /\ BlockIn(group, v).kind \in {"br", "cond", "switch", "return", "unreachable"}
           /\ BlockIn(group, v).kind = "br" => Len(BlockIn(group, v).succ) = 1
           /\ BlockIn(group, v).kind = "cond" => Len(BlockIn(group, v).succ) = 2
           /\ BlockIn(group, v).kind \in {"return", "unreachable"} => BlockIn(group, v).succ = <<>>
    BY <2>1 DEF NativeGraph
  <2> HIDE DEF a, b
  <2>3. \A v \in PresentIn(group) : BlockIn(group, v).succ \in Seq(ToSet(BlockIn(group, v).succ))
    <3> SUFFICES ASSUME NEW v \in PresentIn(group)
                 PROVE BlockIn(group, v).succ \in Seq(ToSet(BlockIn(group, v).succ))
      OBVIOUS
    <3>1. PICK x : x = BlockIn(group, v).succ OBVIOUS
    <3>2. x \in Seq(DOMAIN functions[v]) BY <2>2, <3>1
    <3>3. \A k \in 1 .. Len(x) : x[k] \in ToSet(x) BY <3>2 DEF ToSet
    <3>4. x \in Seq(ToSet(x)) BY <3>2, <3>3
    <3> QED BY <3>1, <3>4
  <2>4. IsSeq(a.succ) /\ IsSeq(b.succ) BY <1>1, <1>2, <2>3 DEF IsSeq, a, b
  <2>5. a.kind # "switch" => Len(a.succ) = Len(b.succ)
    <3>1. /\ a.kind \in {"br", "cond", "switch", "return", "unreachable"}
          /\ a.kind = "br" => Len(a.succ) = 1
          /\ a.kind = "cond" => Len(a.succ) = 2
          /\ a.kind \in {"return", "unreachable"} => a.succ = <<>>
          /\ b.kind = "br" => Len(b.succ) = 1
          /\ b.kind = "cond" => Len(b.succ) = 2
          /\ b.kind \in {"return", "unreachable"} => b.succ = <<>>
      BY <1>1, <1>2, <2>2 DEF a, b
    <3> QED BY <1>4, <3>1
  <2> QED BY <2>4, <2>5
<1>6. DOMAIN a.succ = 1 .. Len(a.succ) /\ Len(a.succ) \in Nat
      /\ DOMAIN b.succ = 1 .. Len(b.succ) /\ Len(b.succ) \in Nat
  BY <1>5 DEF IsSeq
<1> HIDE DEF u, a, b
<1>7. /\ block.domain = PresentIn(group) /\ block.body = group
      /\ block.kind = b.kind /\ block.width = b.width /\ block.phi = b.phi
      /\ block.succ = s \o r
      /\ block.labels = [k \in DOMAIN cases |-> cases[k][2]]
      /\ block.domains = [k \in DOMAIN cases |-> CaseDomain(group, cases[k])]
  <2> HIDE DEF s, r, cases, block
  <2> QED BY <1>3, <1>4
<1> HIDE DEF block
<1>8. CASE b.kind # "switch"
  <2>1. order = <<>> /\ edges = a.succ BY <1>4, <1>8
  <2>2. cases = <<>> BY <2>1
  <2>3. r = <<>> BY <2>2
  <2>4. block.labels = <<>>
    <3> HIDE DEF cases
    <3>1. DOMAIN cases = {} BY <2>2
    <3>2. block.labels = [k \in {} |-> cases[k][2]] BY <1>7, <3>1
    <3> QED BY <3>2
  <2> DEFINE m == Len(a.succ)
  <2>5. s = [k \in 1 .. m |-> GroupOf(u, a.succ[k])] BY <1>6, <2>1
  <2> HIDE DEF s, r, m, cases, order
  <2>6. m \in Nat /\ m = Len(b.succ) /\ s = [k \in 1 .. m |-> s[k]]
    <3>1. m \in Nat /\ m = Len(b.succ) BY <1>4, <1>5, <1>6, <1>8 DEF m
    <3>2. s = [k \in 1 .. m |-> s[k]] BY <2>5
    <3> QED BY <3>1, <3>2
  <2>7. r = [k \in 1 .. 0 |-> r[k]] BY <2>3
  <2>8. DOMAIN (s \o r) = 1 .. m + 0 /\ \A k \in 1 .. m : (s \o r)[k] = s[k]
    BY <2>6, <2>7, ConcatIs
  <2>9. DOMAIN block.succ = DOMAIN b.succ BY <1>6, <1>7, <2>6, <2>8
  <2>10. ASSUME NEW k \in DOMAIN b.succ PROVE block.succ[k] = GroupOf(t, b.succ[k])
    <3>1. k \in 1 .. m /\ k \in DOMAIN a.succ BY <1>6, <2>6 DEF m
    <3>2. block.succ[k] = GroupOf(u, a.succ[k]) BY <1>7, <2>5, <2>8, <3>1
    <3> QED BY <1>4, <1>8, <3>1, <3>2
  <2> QED BY <1>0, <1>7, <1>8, <2>4, <2>9, <2>10 DEF block, b
<1>9. CASE b.kind = "switch"
  <2>1. order = CaseOrder(group) /\ edges = <<a.succ[1]>> BY <1>4, <1>9
  <2>2. cases = list BY <2>1 DEF CaseList
  <2>3. Len(CaseOrder(group)) = Len(CasesFound(group)) BY <1>4, <1>9
  <2>4. list \in Seq(AllCases(group)) BY <1>0, <2>3, CaseListIs
  <2>5. DOMAIN list = 1 .. Len(list) /\ Len(list) \in Nat BY <2>4
  <2>6. DOMAIN edges = 1 .. 1 /\ edges[1] = a.succ[1] BY <2>1
  <2>7. s = [k \in 1 .. 1 |-> s[k]] /\ s[1] = GroupOf(u, a.succ[1]) BY <2>6
  <2>8. r = [k \in 1 .. Len(list) |-> list[k][1]] BY <2>2, <2>5
  <2> HIDE DEF s, r, cases, order, edges, list
  <2>9. r = [k \in 1 .. Len(list) |-> r[k]] BY <2>8
  <2>10. DOMAIN (s \o r) = 1 .. 1 + Len(list) /\ (s \o r)[1] = s[1]
         /\ \A k \in 1 .. Len(list) : (s \o r)[1 + k] = r[k]
    <3>1. 1 \in 1 .. 1 OBVIOUS
    <3> QED BY <2>5, <2>7, <2>9, <3>1, ConcatIs
  <2>11. DOMAIN block.succ = 1 .. Len(list) + 1 BY <1>7, <2>5, <2>10
  <2>12. block.succ[1] = GroupOf(t, b.succ[1]) BY <1>4, <1>7, <1>9, <2>7, <2>10
  <2>13. ASSUME NEW k \in DOMAIN list
         PROVE  /\ block.succ[k + 1] = list[k][1] /\ block.labels[k] = list[k][2]
                /\ block.domains[k] = CaseDomain(group, list[k])
    <3>1. k \in 1 .. Len(list) /\ 1 + k = k + 1 BY <2>5
    <3>2. block.succ[k + 1] = list[k][1] BY <1>7, <2>8, <2>10, <3>1
    <3>3. block.labels[k] = list[k][2] BY <1>7, <2>2
    <3>4. block.domains[k] = CaseDomain(group, list[k]) BY <1>7, <2>2
    <3> QED BY <3>2, <3>3, <3>4
  <2>14. DOMAIN block.labels = DOMAIN list BY <1>7, <2>2
  <2> QED BY <1>0, <1>7, <1>9, <2>3, <2>11, <2>12, <2>13, <2>14 DEF block, b, list
<1> QED BY <1>8, <1>9

\* A target keeps its own cases, in its own order.
LEMMA KeptCasesAre ==
    ASSUME AllOrdered, NEW g \in DOMAIN groups, NEW t \in PresentIn(groups[g]),
           Emittable(groups[g]), BlockIn(groups[g], t).kind = "switch"
    PROVE  LET block == EmittedBlock(groups[g])
               b == BlockIn(groups[g], t)
               K == KeptCases(block, t)
           IN  /\ DOMAIN K = DOMAIN b.labels
               /\ \A k \in DOMAIN b.labels :
                     /\ K[k] \in DOMAIN block.labels /\ K[k] + 1 \in DOMAIN block.succ
                     /\ block.labels[K[k]] = b.labels[k]
                     /\ block.succ[K[k] + 1] = GroupOf(t, b.succ[k + 1])
<1>0. PICK group : group = groups[g] OBVIOUS
<1> DEFINE block == EmittedBlock(group)
           b == BlockIn(group, t)
           list == CaseList(group)
           c == CasesIn(group, t)
           D == DOMAIN block.labels
           s == [k \in D |-> k]
           S == {k \in D : t \in block.domains[k]}
           T == ToSet(c)
           A == AllCases(group)
           K == KeptCases(block, t)
<1>1. /\ Len(CaseOrder(group)) = Len(CasesFound(group))
      /\ D = DOMAIN list /\ DOMAIN block.succ = 1 .. Len(list) + 1
      /\ \A k \in DOMAIN list :
            /\ block.succ[k + 1] = list[k][1] /\ block.labels[k] = list[k][2]
            /\ block.domains[k] = CaseDomain(group, list[k])
  BY <1>0, EmittedIs
<1>2. list \in Seq(A) /\ Only(list, T) = c
  BY <1>0, <1>1, CaseListIs
<1>3. /\ IsSeq(c) /\ DOMAIN c = DOMAIN b.labels
      /\ \A k \in DOMAIN c : c[k] = <<GroupOf(t, b.succ[k + 1]), b.labels[k]>>
  BY <1>0, CasesInAre
<1>4. K = Only(s, S) BY DEF KeptCases
<1>5. t \in PresentIn(group) BY <1>0
<1> HIDE DEF block, b, list, c, A, K
<1>6. D = 1 .. Len(list) /\ Len(list) \in Nat BY <1>1, <1>2
<1>7. s \in Seq(D) /\ Len(s) = Len(list) BY <1>6
<1>8. ASSUME NEW k \in D PROVE k \in S <=> list[k] \in T
  <2>1. t \in block.domains[k] <=> Contains(c, list[k])
    BY <1>1, <1>5, <1>8 DEF CaseDomain, c
  <2>2. DOMAIN c = 1 .. Len(c) BY <1>3 DEF IsSeq
  <2>3. Contains(c, list[k]) <=> list[k] \in T BY <2>2 DEF Contains, ToSet
  <2> QED BY <2>1, <2>3
<1>9. list \in [D -> A] /\ list = [k \in D |-> list[k]]
  BY <1>2, <1>6
<1>10. Mapped(list, s) = list
  <2>1. \A k \in D : list[s[k]] = list[k] OBVIOUS
  <2>2. Mapped(list, s) = [k \in D |-> list[k]] BY <1>6, <1>7, <2>1 DEF Mapped
  <2> QED BY <1>9, <2>2
<1> HIDE DEF D, s, S, T
<1>11. Only(Mapped(list, s), T) = Mapped(list, K)
  <2>1. list \in Maps(D, A) /\ TellsApart(list, D, S, T) BY <1>8, <1>9 DEF Maps, TellsApart
  <2> QED BY <1>4, <1>7, <2>1, OnlyMapped
<1>12. K \in Seq(D) BY <1>4, <1>7, OnlyIs
<1>13. Mapped(list, K) = c BY <1>2, <1>10, <1>11
<1>14. DOMAIN K = DOMAIN c /\ \A k \in DOMAIN c : K[k] \in D /\ list[K[k]] = c[k]
  <2>1. Mapped(list, K) = [k \in 1 .. Len(K) |-> list[K[k]]] BY DEF Mapped
  <2>2. DOMAIN K = 1 .. Len(K) BY <1>12
  <2>3. \A k \in DOMAIN K : K[k] \in D BY <1>12
  <2> QED BY <1>13, <2>1, <2>2, <2>3
<1>15. ASSUME NEW k \in DOMAIN b.labels
       PROVE  /\ K[k] \in DOMAIN block.labels /\ K[k] + 1 \in DOMAIN block.succ
              /\ block.labels[K[k]] = b.labels[k]
              /\ block.succ[K[k] + 1] = GroupOf(t, b.succ[k + 1])
  <2>1. K[k] \in D /\ list[K[k]] = <<GroupOf(t, b.succ[k + 1]), b.labels[k]>> BY <1>3, <1>14
  <2>2. PICK x \in D : x = K[k] BY <2>1
  <2>3. x \in 1 .. Len(list) /\ x \in DOMAIN list BY <1>1, <1>6
  <2>4. x + 1 \in DOMAIN block.succ BY <1>1, <1>6, <2>3
  <2>5. block.labels[x] = b.labels[k] /\ block.succ[x + 1] = GroupOf(t, b.succ[k + 1])
    BY <1>1, <2>1, <2>2, <2>3
  <2> QED BY <2>1, <2>2, <2>4, <2>5 DEF D
<1> QED BY <1>0, <1>3, <1>14, <1>15 DEF block, b, K

\* The edges a target keeps lead where its own edges lead.
LEMMA KeptEdgesAre ==
    ASSUME AllOrdered, NEW g \in DOMAIN groups, NEW t \in PresentIn(groups[g]),
           Emittable(groups[g])
    PROVE  LET block == EmittedBlock(groups[g])
               b == BlockIn(groups[g], t)
               E == KeptEdges(block, t)
           IN  /\ DOMAIN E = DOMAIN b.succ
               /\ \A k \in DOMAIN b.succ :
                     E[k] \in DOMAIN block.succ /\ block.succ[E[k]] = GroupOf(t, b.succ[k])
<1>0. PICK group : group = groups[g] OBVIOUS
<1> DEFINE block == EmittedBlock(group)
           b == BlockIn(group, t)
           list == CaseList(group)
           K == KeptCases(block, t)
           E == KeptEdges(block, t)
<1>1. block.kind = b.kind BY <1>0, EmittedIs
<1>2. CASE b.kind # "switch"
  <2>1. DOMAIN block.succ = DOMAIN b.succ
        /\ \A k \in DOMAIN b.succ : block.succ[k] = GroupOf(t, b.succ[k])
    BY <1>0, <1>2, EmittedIs
  <2>2. E = [k \in DOMAIN block.succ |-> k] BY <1>1, <1>2 DEF KeptEdges
  <2> HIDE DEF E, block, b
  <2>3. DOMAIN E = DOMAIN b.succ
        /\ \A k \in DOMAIN b.succ :
              E[k] \in DOMAIN block.succ /\ block.succ[E[k]] = GroupOf(t, b.succ[k])
    BY <2>1, <2>2
  <2> QED BY <1>0, <2>3 DEF E, block, b
<1>3. CASE b.kind = "switch"
  <2>1. DOMAIN block.succ = 1 .. Len(list) + 1 /\ block.succ[1] = GroupOf(t, b.succ[1])
        /\ Len(CaseOrder(group)) = Len(CasesFound(group))
    BY <1>0, <1>3, EmittedIs
  <2>2. DOMAIN K = DOMAIN b.labels
        /\ \A k \in DOMAIN b.labels :
              /\ K[k] \in DOMAIN block.labels /\ K[k] + 1 \in DOMAIN block.succ
              /\ block.succ[K[k] + 1] = GroupOf(t, b.succ[k + 1])
    BY <1>0, <1>3, KeptCasesAre
  <2>3. E = [k \in 1 .. Len(K) + 1 |-> IF k = 1 THEN 1 ELSE K[k - 1] + 1]
    BY <1>1, <1>3 DEF KeptEdges
  <2>4. list \in Seq(AllCases(group)) BY <1>0, <2>1, CaseListIs
  <2>5. /\ IsSeq(b.labels) /\ Len(b.succ) = 1 + Len(b.labels)
        /\ b.succ \in Seq(DOMAIN functions[t])
    <3>1. NativeGraph(functions[t]) /\ group[t] \in DOMAIN functions[t]
          /\ BlockIn(group, t) = functions[t][group[t]]
      BY <1>0, BlockInIs
    <3> QED BY <1>3, <3>1 DEF NativeGraph
  <2> HIDE DEF E, K, block, b, list
  <2>6. PICK n \in Nat : DOMAIN b.labels = 1 .. n /\ DOMAIN b.succ = 1 .. n + 1
    BY <2>5 DEF IsSeq
  <2>7. Len(K) = n
    <3>1. E \in [1 .. Len(K) + 1 -> {E[k] : k \in 1 .. Len(K) + 1}] BY <2>3
    <3>2. K = KeptCases(block, t) /\ K \in Seq(DOMAIN block.labels)
      <4>1. K = KeptCases(block, t) BY DEF K
      <4> DEFINE D == DOMAIN block.labels
      <4>2. D = DOMAIN list
        <5>1. b.kind = "switch" => DOMAIN block.labels = DOMAIN list BY <1>0, EmittedIs DEF block, b, list
        <5> QED BY <1>3, <5>1
      <4>3. [k \in D |-> k] \in Seq(D) BY <2>4, <4>2
      <4> HIDE DEF D
      <4>4. KeptCases(block, t) = Only([k \in D |-> k], {k \in D : t \in block.domains[k]})
        BY DEF KeptCases, D
      <4>5. KeptCases(block, t) \in Seq(D) BY <4>3, <4>4, OnlyIs
      <4> QED BY <4>1, <4>5 DEF D
    <3>3. DOMAIN K = 1 .. Len(K) /\ Len(K) \in Nat BY <3>2
    <3> QED BY <2>2, <2>6, <3>3
  <2>8. DOMAIN E = DOMAIN b.succ BY <2>3, <2>6, <2>7
  <2>9. ASSUME NEW k \in DOMAIN b.succ
        PROVE  E[k] \in DOMAIN block.succ /\ block.succ[E[k]] = GroupOf(t, b.succ[k])
    <3>1. CASE k = 1
      <4>1. E[k] = 1 BY <2>3, <2>8, <3>1
      <4>2. 1 \in DOMAIN block.succ BY <2>1, <2>4
      <4> QED BY <2>1, <3>1, <4>1, <4>2
    <3>2. CASE k # 1
      <4>1. k - 1 \in DOMAIN b.labels /\ (k - 1) + 1 = k BY <2>6, <3>2
      <4>2. E[k] = K[k - 1] + 1 BY <2>3, <2>8, <3>2
      <4> QED BY <2>2, <4>1, <4>2
    <3> QED BY <3>1, <3>2
  <2> QED BY <1>0, <2>8, <2>9 DEF E, block, b
<1> QED BY <1>2, <1>3

\* The labels a target keeps are its own.
LEMMA KeptLabelsAre ==
    ASSUME AllOrdered, NEW g \in DOMAIN groups, NEW t \in PresentIn(groups[g]),
           Emittable(groups[g])
    PROVE  LET block == EmittedBlock(groups[g])
               K == KeptCases(block, t)
           IN  [k \in DOMAIN K |-> block.labels[K[k]]] = BlockIn(groups[g], t).labels
<1>0. PICK group : group = groups[g] OBVIOUS
<1> DEFINE block == EmittedBlock(group)
           b == BlockIn(group, t)
           K == KeptCases(block, t)
<1>1. /\ NativeGraph(functions[t]) /\ group[t] \in DOMAIN functions[t]
      /\ BlockIn(group, t) = functions[t][group[t]]
  BY <1>0, BlockInIs
<1>2. IsSeq(b.labels) /\ (b.kind # "switch" => b.labels = <<>>) BY <1>1 DEF NativeGraph
<1>3. CASE b.kind # "switch"
  <2>1. block.labels = <<>> BY <1>0, <1>3, EmittedIs
  <2>2. K = <<>>
    <3> HIDE DEF block
    <3> DEFINE s == [k \in DOMAIN block.labels |-> k]
               S == {k \in DOMAIN block.labels : t \in block.domains[k]}
    <3>1. s = <<>> BY <2>1
    <3>2. K = Only(s, S) BY DEF KeptCases
    <3> HIDE DEF s, S, K
    <3> QED BY <3>1, <3>2, OnlyNothing
  <2> HIDE DEF K, block, b
  <2>3. DOMAIN K = {} BY <2>2
  <2>4. [k \in DOMAIN K |-> block.labels[K[k]]] = <<>> BY <2>3
  <2> QED BY <1>0, <1>2, <1>3, <2>4 DEF K, block, b
<1>4. CASE b.kind = "switch"
  <2>1. DOMAIN K = DOMAIN b.labels /\ \A k \in DOMAIN b.labels : block.labels[K[k]] = b.labels[k]
    BY <1>0, <1>4, KeptCasesAre
  <2> HIDE DEF K, block, b
  <2>2. b.labels = [k \in DOMAIN b.labels |-> b.labels[k]]
    <3>1. b.labels \in Seq(ToSet(b.labels)) BY <1>2 DEF IsSeq
    <3> QED BY <3>1
  <2>3. [k \in DOMAIN K |-> block.labels[K[k]]] = b.labels BY <2>1, <2>2
  <2> QED BY <1>0, <2>3 DEF K, block, b
<1> QED BY <1>3, <1>4

\* An edge of a target leads to a group the target has.
LEMMA LeadsToOwn ==
    ASSUME AllOrdered, NEW t \in Targets, NEW x \in DOMAIN functions[t]
    PROVE  GroupOf(t, x) \in DOMAIN groups /\ t \in PresentIn(groups[GroupOf(t, x)])
<1>1. NativeGraph(functions[t]) /\ Grouped(t) /\ groups \in Seq([Targets -> Nat]) BY DEF AllOrdered
<1>2. IsSeq(functions[t]) BY <1>1 DEF NativeGraph
<1>3. GroupOf(t, x) \in DOMAIN groups /\ groups[GroupOf(t, x)][t] = x
  BY <1>1, <1>2, GroupOfIs
<1>4. x # 0 BY <1>2 DEF IsSeq
<1> QED BY <1>3, <1>4 DEF PresentIn

\* The common function, when all groups are emittable.
EmittedFunction == [g \in DOMAIN groups |-> EmittedBlock(groups[g])]

\* Its blocks and their domains.
LEMMA EmittedFunctionIs ==
    ASSUME NEW g \in DOMAIN groups
    PROVE  /\ DOMAIN EmittedFunction = DOMAIN groups
           /\ EmittedFunction[g] = EmittedBlock(groups[g])
           /\ EmittedFunction[g].domain = PresentIn(groups[g])
           /\ EmittedFunction[g].body = groups[g]
<1>1. PICK group : group = groups[g] OBVIOUS
<1>2. DOMAIN EmittedFunction = DOMAIN groups /\ EmittedFunction[g] = EmittedBlock(groups[g])
  BY DEF EmittedFunction
<1>3. EmittedBlock(group).domain = PresentIn(group) /\ EmittedBlock(group).body = group
  BY ZenonT(30) DEF EmittedBlock
<1> QED BY <1>1, <1>2, <1>3

\* Nothing specialization refuses.
LEMMA EmittedSpecializable ==
    ASSUME AllOrdered, \A g \in DOMAIN groups : Emittable(groups[g]), NEW t \in Targets
    PROVE  Specializable(EmittedFunction, t)
<1> DEFINE common == EmittedFunction
<1>1. DOMAIN common = DOMAIN groups /\ \A g \in DOMAIN groups :
         common[g] = EmittedBlock(groups[g]) /\ common[g].domain = PresentIn(groups[g])
  BY EmittedFunctionIs DEF EmittedFunction
<1> HIDE DEF common
<1>2. common[1].domain = Targets
  <2>1. 1 \in DOMAIN groups BY DEF AllOrdered
  <2>2. \A u \in Targets : groups[1][u] = 1 BY DEF AllOrdered, Grouped
  <2>3. PresentIn(groups[1]) = Targets BY <2>2 DEF PresentIn
  <2> QED BY <1>1, <2>1, <2>3
<1>3. ASSUME NEW g \in DOMAIN groups, NEW u \in common[g].domain
      PROVE  /\ \A k \in ToSet(KeptEdges(common[g], u)) : u \in common[common[g].succ[k]].domain
             /\ common[g].kind = "switch" => \A k \in DOMAIN common[g].succ :
                   (k = 1 \/ u \in common[g].domains[k - 1]) => u \in common[common[g].succ[k]].domain
  <2>0. PICK group : group = groups[g] OBVIOUS
  <2> DEFINE block == EmittedBlock(group)
             b == BlockIn(group, u)
             list == CaseList(group)
             E == KeptEdges(block, u)
  <2>1. common[g] = block /\ u \in PresentIn(group) BY <1>1, <1>3, <2>0
  <2>2. /\ u \in Targets /\ group[u] \in DOMAIN functions[u]
        /\ BlockIn(group, u) = functions[u][group[u]] /\ NativeGraph(functions[u])
    BY <2>0, <2>1, BlockInIs
  <2>3. /\ b.succ \in Seq(DOMAIN functions[u])
        /\ b.kind = "switch" => Len(b.succ) = 1 + Len(b.labels) /\ IsSeq(b.labels)
    BY <2>2 DEF NativeGraph
  <2>4. ASSUME NEW k \in DOMAIN b.succ PROVE u \in common[GroupOf(u, b.succ[k])].domain
    <3> HIDE DEF b
    <3>1. b.succ[k] \in DOMAIN functions[u] BY <2>3
    <3>2. GroupOf(u, b.succ[k]) \in DOMAIN groups /\ u \in PresentIn(groups[GroupOf(u, b.succ[k])])
      BY <2>2, <3>1, LeadsToOwn
    <3> QED BY <1>1, <3>2
  <2>5. /\ DOMAIN E = DOMAIN b.succ
        /\ \A k \in DOMAIN b.succ : block.succ[E[k]] = GroupOf(u, b.succ[k])
    BY <2>0, <2>1, KeptEdgesAre
  <2>6. \A k \in ToSet(E) : u \in common[block.succ[k]].domain
    <3> HIDE DEF E, block, b
    <3> QED BY <2>4, <2>5 DEF ToSet
  <2>7. ASSUME block.kind = "switch", NEW k \in DOMAIN block.succ,
               k = 1 \/ u \in block.domains[k - 1]
        PROVE  u \in common[block.succ[k]].domain
    <3>1. b.kind = "switch" /\ block.kind = b.kind BY <2>0, <2>1, <2>7, EmittedIs
    <3>2. /\ Len(CaseOrder(group)) = Len(CasesFound(group))
          /\ DOMAIN block.succ = 1 .. Len(list) + 1
          /\ block.succ[1] = GroupOf(u, b.succ[1])
          /\ \A i \in DOMAIN list : /\ block.succ[i + 1] = list[i][1]
                                    /\ block.domains[i] = CaseDomain(group, list[i])
      BY <2>0, <2>1, <3>1, EmittedIs
    <3>3. list \in Seq(AllCases(group)) BY <2>0, <2>1, <3>2, CaseListIs
    <3>4. /\ IsSeq(CasesIn(group, u)) /\ DOMAIN CasesIn(group, u) = DOMAIN b.labels
          /\ \A i \in DOMAIN CasesIn(group, u) :
                CasesIn(group, u)[i] = <<GroupOf(u, b.succ[i + 1]), b.labels[i]>>
      BY <2>0, <2>1, CasesInAre
    <3> HIDE DEF block, b, list, E
    <3>5. PICK n \in Nat : DOMAIN b.labels = 1 .. n /\ DOMAIN b.succ = 1 .. n + 1
      BY <2>3, <3>1 DEF IsSeq
    <3>6. CASE k = 1
      <4>1. 1 \in DOMAIN b.succ BY <3>5
      <4> QED BY <2>4, <3>2, <3>6, <4>1
    <3>7. CASE k # 1
      <4>1. PICK m \in DOMAIN list : k = m + 1 /\ k - 1 = m
        <5>1. DOMAIN list = 1 .. Len(list) /\ Len(list) \in Nat BY <3>3
        <5> QED BY <2>7, <3>2, <3>7, <5>1
      <4>2. u \in CaseDomain(group, list[m]) BY <2>7, <3>2, <3>7, <4>1
      <4>3. PICK i \in DOMAIN CasesIn(group, u) : CasesIn(group, u)[i] = list[m]
        <5>1. DOMAIN CasesIn(group, u) = 1 .. Len(CasesIn(group, u)) BY <3>4 DEF IsSeq
        <5> QED BY <4>2, <5>1 DEF CaseDomain, Contains
      <4>4. block.succ[k] = GroupOf(u, b.succ[i + 1]) BY <3>2, <3>4, <4>1, <4>3
      <4>5. i + 1 \in DOMAIN b.succ BY <3>4, <3>5
      <4> QED BY <2>4, <4>4, <4>5
    <3> QED BY <3>6, <3>7
  <2> HIDE DEF block, E
  <2> QED BY <2>1, <2>6, <2>7 DEF E
<1> QED BY <1>1, <1>2, <1>3 DEF Specializable, common

\* Every block of a target is back in its place, with its own edges and labels.
LEMMA EmittedSpecializes ==
    ASSUME AllOrdered, \A g \in DOMAIN groups : Emittable(groups[g]), NEW t \in Targets
    PROVE  Specialize(EmittedFunction, t) = NativeFunction(t)
<1> DEFINE common == EmittedFunction
           f == functions[t]
           mine == Only([b \in DOMAIN common |-> b], {b \in DOMAIN common : t \in common[b].domain})
           Place(b) == SelectInSeq(mine, LAMBDA m : m = b)
           Block(m) == common[mine[m]]
           Succ(m) == [k \in DOMAIN KeptEdges(Block(m), t) |-> Place(Block(m).succ[KeptEdges(Block(m), t)[k]])]
           Labels(m) == [k \in DOMAIN KeptCases(Block(m), t) |-> Block(m).labels[KeptCases(Block(m), t)[k]]]
<1>1. /\ groups \in Seq([Targets -> Nat]) /\ Grouped(t) /\ InOrder(t) /\ NativeGraph(f) /\ IsSeq(f)
  BY DEF AllOrdered, NativeGraph
<1>2. DOMAIN common = DOMAIN groups /\ \A g \in DOMAIN groups :
         /\ common[g] = EmittedBlock(groups[g]) /\ common[g].domain = PresentIn(groups[g])
         /\ common[g].body = groups[g]
  BY EmittedFunctionIs DEF EmittedFunction
<1> HIDE DEF common
<1>3. mine = Mine(t)
  <2>1. [b \in DOMAIN common |-> b] = [g \in DOMAIN groups |-> g] BY <1>2
  <2>2. {b \in DOMAIN common : t \in common[b].domain} = {g \in DOMAIN groups : groups[g][t] # 0}
    BY <1>2 DEF PresentIn
  <2> QED BY <2>1, <2>2 DEF Mine
<1> HIDE DEF mine
<1>4. /\ mine \in Seq(DOMAIN groups) /\ DOMAIN mine = DOMAIN f
      /\ \A b \in DOMAIN f : mine[b] = GroupOf(t, b)
  BY <1>1, <1>3, MineIs
<1>5. ASSUME NEW x \in DOMAIN f
      PROVE  GroupOf(t, x) \in DOMAIN groups /\ groups[GroupOf(t, x)][t] = x
  BY <1>1, GroupOfIs
<1>6. ASSUME NEW x \in DOMAIN f PROVE Place(GroupOf(t, x)) = x
  <2>1. x \in DOMAIN mine /\ mine[x] = GroupOf(t, x) BY <1>4
  <2>2. \A y \in DOMAIN mine : mine[y] = mine[x] => y = x BY <1>4, <1>5, <2>1
  <2>3. mine \in Seq(DOMAIN groups) BY <1>4
  <2> DEFINE I == {j \in 1 .. Len(mine) : mine[j] = GroupOf(t, x)}
  <2>4. DOMAIN mine = 1 .. Len(mine) /\ Len(mine) \in Nat BY <2>3
  <2>5. I = {x} /\ I # {} /\ I \subseteq Nat BY <2>1, <2>2, <2>4
  <2>6. Place(GroupOf(t, x)) = Min(I) BY <2>5 DEF SelectInSeq
  <2>7. Min(I) \in I
    <3> HIDE DEF I
    <3> QED BY <2>5, MinIs
  <2> QED BY <2>5, <2>6, <2>7
<1> HIDE DEF Place
<1>7. Specialize(common, t) =
        [m \in DOMAIN f |->
            [body |-> Block(m).body[t], kind |-> Block(m).kind, width |-> Block(m).width,
             phi |-> Block(m).phi, succ |-> Succ(m), labels |-> Labels(m)]]
  <2>1. Specialize(common, t) =
        [m \in DOMAIN mine |->
            [body |-> Block(m).body[t], kind |-> Block(m).kind, width |-> Block(m).width,
             phi |-> Block(m).phi, succ |-> Succ(m), labels |-> Labels(m)]]
    BY DEF Specialize, mine, Place
  <2> QED BY <1>4, <2>1
<1>8. ASSUME NEW m \in DOMAIN f
      PROVE  /\ Block(m).body[t] = m /\ Block(m).kind = f[m].kind /\ Block(m).width = f[m].width
             /\ Block(m).phi = f[m].phi /\ Succ(m) = f[m].succ /\ Labels(m) = f[m].labels
  <2>0. PICK g \in DOMAIN groups : g = GroupOf(t, m) /\ groups[g][t] = m BY <1>5
  <2>1. mine[m] = g /\ m # 0 BY <1>1, <1>4, <2>0 DEF IsSeq
  <2>2. t \in PresentIn(groups[g]) /\ Emittable(groups[g]) BY <2>0, <2>1 DEF PresentIn
  <2>3. Block(m) = EmittedBlock(groups[g]) /\ Block(m).body = groups[g] BY <1>2, <2>1
  <2>4. BlockIn(groups[g], t) = f[m] BY <2>0, <2>2, BlockInIs
  <2>5. Block(m).kind = f[m].kind /\ Block(m).width = f[m].width /\ Block(m).phi = f[m].phi
    BY <2>2, <2>3, <2>4, EmittedIs
  <2>6. f[m].succ \in Seq(DOMAIN f) BY <1>1 DEF NativeGraph
  <2>7. Succ(m) = f[m].succ
    <3> DEFINE E == KeptEdges(Block(m), t)
    <3>1. /\ DOMAIN E = DOMAIN f[m].succ
          /\ \A k \in DOMAIN f[m].succ : Block(m).succ[E[k]] = GroupOf(t, f[m].succ[k])
      BY <2>2, <2>3, <2>4, KeptEdgesAre
    <3>2. Succ(m) = [k \in DOMAIN E |-> Place(Block(m).succ[E[k]])] OBVIOUS
    <3> HIDE DEF E, Block, Succ, f
    <3>3. \A k \in DOMAIN f[m].succ : Place(Block(m).succ[E[k]]) = f[m].succ[k]
      <4> TAKE k \in DOMAIN f[m].succ
      <4>1. f[m].succ[k] \in DOMAIN f BY <2>6
      <4> QED BY <1>6, <3>1, <4>1
    <3>4. f[m].succ = [k \in DOMAIN f[m].succ |-> f[m].succ[k]] BY <2>6
    <3> QED BY <3>1, <3>2, <3>3, <3>4
  <2>8. Labels(m) = f[m].labels
    BY <2>2, <2>3, <2>4, KeptLabelsAre
  <2>9. Block(m).body[t] = m
    <3>1. Block(m).body = groups[g] BY <2>3
    <3> HIDE DEF Block
    <3> QED BY <2>0, <3>1
  <2> QED BY <2>5, <2>7, <2>8, <2>9
<1> HIDE DEF Block, Succ, Labels
<1>9. NativeFunction(t) =
        [b \in DOMAIN f |->
            [body |-> b, kind |-> f[b].kind, width |-> f[b].width,
             phi |-> f[b].phi, succ |-> f[b].succ, labels |-> f[b].labels]]
  BY DEF NativeFunction
<1> QED BY <1>7, <1>8, <1>9 DEF common

\* Emission: what is merged can be specialized back for every target.
LEMMA EmitKeeps ==
    ASSUME PairingSound, GroupsSound, Emit, stage' # "refused"
    PROVE  GroupsSound'
<1>1. /\ stage = "ordered" /\ stage' = "merged"
      /\ merged' = EmittedFunction /\ \A g \in ToSet(groups) : Emittable(g)
      /\ functions' = functions
  BY DEF Emit, RefuseMerge, Refuse, EmittedFunction
<1>2. AllOrdered
  <2>1. Grouping /\ peer = Len(functions) /\ \A t \in Targets : InOrder(t)
    BY <1>1 DEF GroupsSound, Pairing
  <2>2. IsSeq(functions) /\ \A t \in Targets : NativeGraph(functions[t]) BY DEF PairingSound
  <2>3. \A t \in Targets : t <= Len(functions) BY <2>2 DEF IsSeq, Targets
  <2>4. Finished = Len(functions) BY <1>1, <2>1 DEF Finished, Pairing
  <2> QED BY <2>1, <2>2, <2>3, <2>4 DEF Grouping, AllOrdered
<1>3. \A g \in DOMAIN groups : Emittable(groups[g]) BY <1>1 DEF ToSet
<1>4. PICK common : common = EmittedFunction OBVIOUS
<1>5. \A t \in Targets : Specializable(common, t) /\ Specialize(common, t) = NativeFunction(t)
  BY <1>2, <1>3, <1>4, EmittedSpecializable, EmittedSpecializes
<1>6. ASSUME NEW t \in Targets
      PROVE  /\ Specializable(merged, t)' /\ NativeFunction(t)' = NativeFunction(t)
             /\ Specialize(merged, t)' = Specialize(common, t)
  <2>1. merged' = common BY <1>1, <1>4
  <2>2. Specializable(common, t) BY <1>5
  <2>3. Specializable(merged, t)' BY <1>1, <2>1, <2>2 DEF Specializable, Targets
  <2>4. NativeFunction(t)' = NativeFunction(t) BY <1>1 DEF NativeFunction
  <2>5. Specialize(merged, t)' = Specialize(common, t) BY <2>1
  <2> QED BY <2>3, <2>4, <2>5
<1>7. RoundTrip'
  <2>1. Targets' = Targets BY <1>1 DEF Targets
  <2> QED BY <1>5, <1>6, <2>1 DEF RoundTrip
<1> QED BY <1>1, <1>7 DEF GroupsSound, Pairing

\* Grouped and InOrder, of a list of groups.
GroupedBy(list, f, t) ==
    /\ \A g \in DOMAIN list : list[g][t] \in 0 .. Len(f)
    /\ \A b \in DOMAIN f : \E g \in DOMAIN list : list[g][t] = b
    /\ \A g, h \in DOMAIN list : list[g][t] = list[h][t] /\ list[g][t] # 0 => g = h
    /\ list[1][t] = 1

InOrderBy(list, f, t) ==
    Only([g \in DOMAIN list |-> list[g][t]], DOMAIN f) = [b \in DOMAIN f |-> b]

GroupOrders == [t \in Targets |-> [b \in DOMAIN functions[t] |-> GroupOf(t, b)]]

\* The order of the groups of one target.
LEMMA GroupOrdersAre ==
    ASSUME groups \in Seq([Targets -> Nat]), groups # <<>>, NEW t \in Targets, Grouped(t),
           IsSeq(functions[t]), functions[t] # <<>>
    PROVE  LET o == GroupOrders[t]
               n == Len(groups)
           IN  /\ o \in Seq(1 .. n) /\ IsInjective(o) /\ DOMAIN o = DOMAIN functions[t]
               /\ \A b \in DOMAIN functions[t] : o[b] \in 1 .. n /\ groups[o[b]][t] = b
               /\ \A g \in 1 .. n : g \in ToSet(o) <=> groups[g][t] \in DOMAIN functions[t]
               /\ \A k \in 1 .. Len(o) - 1 : o[k + 1] # 1
<1> DEFINE o == GroupOrders[t]
           n == Len(groups)
           f == functions[t]
<1>1. DOMAIN groups = 1 .. n /\ n \in Nat /\ n # 0 OBVIOUS
<1>2. PICK m \in Nat : m = Len(f) /\ DOMAIN f = 1 .. m /\ m # 0 BY DEF IsSeq
<1>3. o = [b \in DOMAIN f |-> GroupOf(t, b)] BY DEF GroupOrders
<1> HIDE DEF o, n
<1>4. ASSUME NEW b \in DOMAIN f
      PROVE  /\ o[b] \in 1 .. n /\ groups[o[b]][t] = b
             /\ \A g \in 1 .. n : groups[g][t] = b => g = o[b]
  <2>1. o[b] = GroupOf(t, b) BY <1>3
  <2>2. /\ GroupOf(t, b) \in DOMAIN groups /\ groups[GroupOf(t, b)][t] = b
        /\ \A g \in DOMAIN groups : groups[g][t] = b => g = GroupOf(t, b)
    BY GroupOfIs
  <2> QED BY <1>1, <2>1, <2>2
<1>5. o \in Seq(1 .. n) /\ DOMAIN o = DOMAIN f /\ Len(o) = m
  <2> DEFINE D == 1 .. n
  <2>1. \A b \in 1 .. m : o[b] \in D BY <1>2, <1>4
  <2> HIDE DEF D, f
  <2>2. o = [b \in 1 .. m |-> o[b]] BY <1>2, <1>3
  <2>3. o \in Seq(D) /\ Len(o) = m BY <1>2, <2>1, <2>2
  <2> QED BY <1>3, <2>3 DEF D
<1>6. IsInjective(o) BY <1>4, <1>5 DEF IsInjective
<1>7. \A g \in 1 .. n : g \in ToSet(o) <=> groups[g][t] \in DOMAIN f
  BY <1>4, <1>5 DEF ToSet
<1>8. ASSUME NEW k \in 1 .. Len(o) - 1 PROVE o[k + 1] # 1
  <2>1. groups[1][t] = 1 BY DEF Grouped
  <2>2. k + 1 \in DOMAIN f /\ k + 1 # 1
    <3>1. k \in 1 .. m - 1 BY <1>5
    <3> QED BY <1>2, <3>1
  <2>3. groups[o[k + 1]][t] = k + 1 BY <1>4, <2>2
  <2> QED BY <2>1, <2>2, <2>3
<1> QED BY <1>4, <1>5, <1>6, <1>7, <1>8 DEF o, n

\* What the ordered groups are.
LEMMA OrderedGroups ==
    ASSUME groups \in Seq([Targets -> Nat]), groups # <<>>, IsSeq(functions),
           \A t \in Targets : Grouped(t) /\ IsSeq(functions[t]) /\ functions[t] # <<>>,
           Len(GroupOrder) = Len(groups),
           NEW after, after = [k \in DOMAIN GroupOrder |-> groups[GroupOrder[k]]]
    PROVE  /\ after \in Seq([Targets -> Nat]) /\ after # <<>>
           /\ \A t \in Targets : GroupedBy(after, functions[t], t) /\ InOrderBy(after, functions[t], t)
<1> DEFINE n == Len(groups)
           order == GroupOrder
<1>1. n \in Nat /\ n # 0 /\ DOMAIN groups = 1 .. n /\ \A g \in 1 .. n : groups[g] \in [Targets -> Nat]
  OBVIOUS
<1>2. \A t \in Targets :
         LET o == GroupOrders[t]
         IN  /\ o \in Seq(1 .. n) /\ IsInjective(o) /\ DOMAIN o = DOMAIN functions[t]
             /\ \A b \in DOMAIN functions[t] : o[b] \in 1 .. n /\ groups[o[b]][t] = b
             /\ \A g \in 1 .. n : g \in ToSet(o) <=> groups[g][t] \in DOMAIN functions[t]
             /\ \A k \in 1 .. Len(o) - 1 : o[k + 1] # 1
  <2> HIDE DEF n
  <2> QED BY GroupOrdersAre DEF n
<1>3. DOMAIN GroupOrders = Targets /\ order = CommonOrder(n, GroupOrders)
  BY DEF GroupOrders, GroupOrder
<1> HIDE DEF n, order
<1>4. Orders(n, GroupOrders) /\ OneFirst(GroupOrders)
  BY <1>2, <1>3 DEF Orders, OneFirst, ToSet
<1>5. Len(CommonOrder(n, GroupOrders)) = n BY <1>3 DEF n, order
<1>6. /\ order \in Seq(1 .. n) /\ IsInjective(order) /\ ToSet(order) = 1 .. n /\ order[1] = 1
      /\ \A o \in ToSet(GroupOrders) : Only(order, ToSet(o)) = o
      /\ Len(order) = n
  BY <1>1, <1>3, <1>4, <1>5, CommonOrderKeeps
<1>7. DOMAIN order = 1 .. n /\ \A k \in 1 .. n : order[k] \in 1 .. n
  <2> DEFINE D == 1 .. n
  <2>1. order \in Seq(D) BY <1>6
  <2> HIDE DEF D
  <2>2. DOMAIN order = 1 .. Len(order) /\ \A k \in 1 .. Len(order) : order[k] \in D BY <2>1
  <2> QED BY <1>6, <2>2 DEF D
<1>8. DOMAIN after = 1 .. n /\ \A k \in 1 .. n : after[k] = groups[order[k]]
  BY <1>7 DEF order
<1>9. after \in Seq([Targets -> Nat]) /\ after # <<>>
  <2>1. after = [k \in 1 .. n |-> after[k]] BY <1>7 DEF order
  <2>2. \A k \in 1 .. n : after[k] \in [Targets -> Nat] BY <1>1, <1>7, <1>8
  <2> QED BY <1>1, <2>1, <2>2
<1>10. ASSUME NEW t \in Targets PROVE GroupedBy(after, functions[t], t)
  <2>1. /\ \A g \in 1 .. n : groups[g][t] \in 0 .. Len(functions[t])
        /\ \A b \in DOMAIN functions[t] : \E g \in 1 .. n : groups[g][t] = b
        /\ \A g, h \in 1 .. n : groups[g][t] = groups[h][t] /\ groups[g][t] # 0 => g = h
        /\ groups[1][t] = 1
    BY <1>1 DEF Grouped
  <2>2. \A g \in 1 .. n : \E k \in 1 .. n : order[k] = g BY <1>6, <1>7 DEF ToSet
  <2> DEFINE D == 1 .. n
             Z == 0 .. Len(functions[t])
  <2>7. /\ \A k \in D : order[k] \in D /\ after[k] = groups[order[k]]
        /\ \A g \in D : groups[g][t] \in Z
    BY <1>7, <1>8, <2>1
  <2>8. 1 \in D BY <1>1
  <2> HIDE DEF D, Z
  <2>3. \A k \in D : after[k][t] \in Z BY <2>7
  <2>4. ASSUME NEW b \in DOMAIN functions[t] PROVE \E k \in 1 .. n : after[k][t] = b
    <3>1. PICK g \in 1 .. n : groups[g][t] = b BY <2>1
    <3>2. PICK k \in 1 .. n : order[k] = g BY <2>2
    <3> QED BY <1>8, <3>1, <3>2
  <2>5. ASSUME NEW g \in 1 .. n, NEW h \in 1 .. n, after[g][t] = after[h][t], after[g][t] # 0
        PROVE  g = h
    <3>1. groups[order[g]][t] = groups[order[h]][t] /\ groups[order[g]][t] # 0
          /\ order[g] \in D /\ order[h] \in D
      BY <2>5, <2>7 DEF D
    <3>2. order[g] = order[h] BY <2>1, <3>1 DEF D
    <3> QED BY <1>6, <1>7, <2>5, <3>2 DEF IsInjective
  <2>6. after[1][t] = 1 BY <1>6, <2>1, <2>7, <2>8
  <2> QED BY <1>8, <2>3, <2>4, <2>5, <2>6 DEF GroupedBy, D, Z
<1>11. ASSUME NEW t \in Targets PROVE InOrderBy(after, functions[t], t)
  <2> DEFINE o == GroupOrders[t]
             c == [g \in 1 .. n |-> groups[g][t]]
             D == 1 .. n
             S == ToSet(o)
             T == DOMAIN functions[t]
  <2>1. /\ o \in Seq(1 .. n) /\ DOMAIN o = T
        /\ \A b \in T : o[b] \in 1 .. n /\ groups[o[b]][t] = b
        /\ \A g \in 1 .. n : g \in S <=> groups[g][t] \in T
    BY <1>2
  <2>2. o \in ToSet(GroupOrders) BY <1>3 DEF ToSet
  <2>3. Only(order, S) = o BY <1>6, <2>2
  <2>4. c \in [D -> Nat] /\ \A g \in D : c[g] = groups[g][t] BY <1>1
  <2> HIDE DEF o, c, S, T
  <2>5. Mapped(c, order) = [g \in DOMAIN after |-> after[g][t]]
    <3>1. \A k \in 1 .. n : c[order[k]] = after[k][t] BY <1>7, <1>8, <2>4
    <3>2. Mapped(c, order) = [k \in 1 .. n |-> c[order[k]]] BY <1>6 DEF Mapped
    <3> QED BY <1>8, <3>1, <3>2
  <2>6. Mapped(c, o) = [b \in T |-> b]
    <3>1. \A b \in T : c[o[b]] = b BY <2>1, <2>4
    <3>2. DOMAIN o = 1 .. Len(o)
      <4> HIDE DEF D
      <4>1. o \in Seq(D) BY <2>1 DEF D
      <4> QED BY <4>1
    <3>3. Mapped(c, o) = [b \in T |-> c[o[b]]] BY <2>1, <3>2 DEF Mapped
    <3> QED BY <3>1, <3>3
  <2>7. TellsApart(c, D, S, T) /\ c \in Maps(D, Nat) /\ order \in Seq(D)
    BY <1>6, <2>1, <2>4 DEF TellsApart, Maps
  <2> HIDE DEF D
  <2>8. Only(Mapped(c, order), T) = Mapped(c, Only(order, S)) BY <2>7, OnlyMapped
  <2>9. Only([g \in DOMAIN after |-> after[g][t]], T) = [b \in T |-> b]
    BY <2>3, <2>5, <2>6, <2>8
  <2> QED BY <2>9 DEF InOrderBy, T
<1> QED BY <1>9, <1>10, <1>11

\* Ordering the groups keeps them, and puts every target's in its order.
LEMMA OrderGroupsKeeps ==
    ASSUME PairingSound, GroupsSound, OrderGroups, stage' # "refused"
    PROVE  GroupsSound'
<1>1. /\ stage = "grouped" /\ peer = Len(functions) /\ stage' = "ordered"
      /\ Len(GroupOrder) = Len(groups)
      /\ groups' = [k \in DOMAIN GroupOrder |-> groups[GroupOrder[k]]]
      /\ functions' = functions /\ peer' = peer
  BY DEF OrderGroups, RefuseMerge, Refuse
<1>2. IsSeq(functions) /\ \A t \in Targets : t <= Len(functions)
      /\ IsSeq(functions[t]) /\ functions[t] # <<>>
  BY DEF PairingSound, NativeGraph, IsSeq, Targets
<1>3. /\ groups \in Seq([Targets -> Nat]) /\ groups # <<>>
      /\ \A t \in Targets : Grouped(t)
  <2>1. Grouping BY <1>1 DEF GroupsSound, Pairing
  <2>2. Finished = Len(functions) BY <1>1 DEF Finished, Pairing
  <2> QED BY <1>2, <2>1, <2>2 DEF Grouping
<1>4. PICK after : after = [k \in DOMAIN GroupOrder |-> groups[GroupOrder[k]]] OBVIOUS
<1>5. /\ after \in Seq([Targets -> Nat]) /\ after # <<>>
      /\ \A t \in Targets : GroupedBy(after, functions[t], t) /\ InOrderBy(after, functions[t], t)
  BY <1>1, <1>2, <1>3, <1>4, OrderedGroups
<1>6. groups' = after BY <1>1, <1>4
<1>7. Targets' = Targets BY <1>1 DEF Targets
<1>8. ASSUME NEW t \in Targets PROVE Grouped(t)' /\ InOrder(t)'
  <2>1. GroupedBy(after, functions[t], t) /\ InOrderBy(after, functions[t], t) BY <1>5
  <2>0. functions' = functions BY <1>1
  <2>2. Grouped(t)' BY <1>6, <2>0, <2>1 DEF Grouped, GroupedBy
  <2>3. InOrder(t)' BY <1>1, <1>6, <2>1 DEF InOrder, InOrderBy, BlocksOf
  <2> QED BY <2>2, <2>3
<1>9. Grouping'
  <2>1. groups' \in Seq([Targets' -> Nat]) /\ groups' # <<>> BY <1>5, <1>6, <1>7
  <2>2. Finished' = Len(functions) BY <1>1 DEF Finished, Pairing
  <2>3. \A t \in Targets' : Grouped(t)' /\ t <= Len(functions) BY <1>2, <1>7, <1>8
  <2> QED BY <1>1, <2>1, <2>2, <2>3 DEF Grouping
<1>10. \A t \in Targets' : InOrder(t)' BY <1>7, <1>8
<1> QED BY <1>1, <1>9, <1>10 DEF GroupsSound, Pairing, RoundTrip

-----------------------------------------------------------------------------
(* The blocks of the peer's own arms. *)

\* The flattened list m of the first c parts of s.
FlattenedApart(s, c, m) ==
    /\ DOMAIN m = 1 .. Len(m) /\ Len(m) \in Nat
    /\ \A i \in DOMAIN m : \E k \in 1 .. c : \E j \in DOMAIN s[k] : m[i] = s[k][j]
    /\ \A i, j \in DOMAIN m : m[i].block = m[j].block => i = j

\* A flattened list has what its parts have, and no block twice when no two
\* places of the parts have one block.
LEMMA FlattenApart ==
    ASSUME NEW n \in Nat, NEW s, \A k \in 1 .. n : IsSeq(s[k]),
           \A k, l \in 1 .. n : \A i \in DOMAIN s[k] : \A j \in DOMAIN s[l] :
              s[k][i].block = s[l][j].block => k = l /\ i = j
    PROVE  LET m == FlattenSeq([k \in 1 .. n |-> s[k]])
           IN  /\ IsSeq(m)
               /\ \A i \in DOMAIN m : \E k \in 1 .. n : \E j \in DOMAIN s[k] : m[i] = s[k][j]
               /\ \A i, j \in DOMAIN m : m[i].block = m[j].block => i = j
<1> DEFINE F(c) == FlattenSeq([k \in 1 .. c |-> s[k]])
           N == {c \in Nat : c <= n => FlattenedApart(s, c, F(c))}
<1>1. 0 \in N
  <2>1. [k \in 1 .. 0 |-> s[k]] = <<>> OBVIOUS
  <2>2. FlattenSeq(<<>>) = <<>> BY DEF FlattenSeq
  <2>3. FlattenedApart(s, 0, <<>>) BY DEF FlattenedApart
  <2> QED BY <2>1, <2>2, <2>3
<1>2. ASSUME NEW c \in Nat, c \in N PROVE c + 1 \in N
  <2> SUFFICES ASSUME c + 1 <= n PROVE FlattenedApart(s, c + 1, F(c + 1)) OBVIOUS
  <2>0. PICK before : before = F(c) OBVIOUS
  <2>00. PICK after : after = F(c + 1) OBVIOUS
  <2>000. PICK e : e = s[c + 1] OBVIOUS
  <2>1. /\ DOMAIN before = 1 .. Len(before) /\ Len(before) \in Nat
        /\ \A i \in DOMAIN before : \E k \in 1 .. c : \E j \in DOMAIN s[k] : before[i] = s[k][j]
        /\ \A i, j \in DOMAIN before : before[i].block = before[j].block => i = j
    <3>1. FlattenedApart(s, c, F(c))
      <4> HIDE DEF F
      <4>1. c <= n OBVIOUS
      <4> QED BY <1>2, <4>1
    <3> HIDE DEF F
    <3> QED BY <2>0, <3>1 DEF FlattenedApart
  <2>2. c + 1 \in 1 .. n /\ 1 .. c \subseteq 1 .. n /\ 1 .. c + 1 = (1 .. c) \cup {c + 1}
        /\ c + 1 \notin 1 .. c
    OBVIOUS
  <2>3. \A k \in 1 .. c + 1 : s[k] \in Seq(ToSet(s[k]))
    BY <2>2 DEF IsSeq
  <2>4. /\ Len(before) \in Nat /\ DOMAIN before = 1 .. Len(before)
        /\ Len(after) = Len(before) + Len(e) /\ DOMAIN after = 1 .. Len(after)
        /\ \A i \in 1 .. Len(before) : after[i] = before[i]
        /\ \A i \in 1 .. Len(e) : after[Len(before) + i] = e[i]
    <3>0. c \in Nat OBVIOUS
    <3>1. LET b == FlattenSeq([k \in 1 .. c |-> s[k]])
              a == FlattenSeq([k \in 1 .. c + 1 |-> s[k]])
          IN  /\ Len(b) \in Nat /\ DOMAIN b = 1 .. Len(b)
              /\ Len(a) = Len(b) + Len(s[c + 1]) /\ DOMAIN a = 1 .. Len(a)
              /\ \A i \in 1 .. Len(b) : a[i] = b[i]
              /\ \A i \in 1 .. Len(s[c + 1]) : a[Len(b) + i] = s[c + 1][i]
      BY <2>3, <3>0, FlattenGrows, Zenon
    <3> QED BY <2>0, <2>00, <2>000, <3>1
  <2>5. DOMAIN e = 1 .. Len(e) /\ Len(e) \in Nat
    <3>1. e \in Seq(ToSet(e)) BY <2>000, <2>2, <2>3
    <3> QED BY <3>1
  <2> HIDE DEF F
  <2>6. PICK m \in Nat : m = Len(before) /\ DOMAIN before = 1 .. m BY <2>1
  <2>7. PICK q \in Nat : q = Len(e) /\ DOMAIN e = 1 .. q BY <2>5
  <2>8. Len(after) = m + q /\ DOMAIN after = 1 .. m + q BY <2>4, <2>6, <2>7
  <2>9. \A i \in 1 .. m : after[i] = before[i] BY <2>4, <2>6
  <2>10. ASSUME NEW i \in 1 .. m + q, i \notin 1 .. m
         PROVE  i - m \in 1 .. q /\ after[i] = e[i - m]
    <3>1. i - m \in 1 .. q /\ m + (i - m) = i BY <2>10
    <3> QED BY <2>4, <2>6, <2>7, <3>1
  <2>12. ASSUME NEW i \in 1 .. m + q
         PROVE  \E k \in 1 .. c + 1 : \E j \in DOMAIN s[k] :
                   /\ after[i] = s[k][j] /\ (i \in 1 .. m => k \in 1 .. c)
                   /\ (i \notin 1 .. m => k = c + 1 /\ j = i - m)
    <3>1. CASE i \in 1 .. m
      <4>1. PICK k \in 1 .. c : \E j \in DOMAIN s[k] : before[i] = s[k][j] BY <2>1, <2>6, <3>1
      <4> QED BY <2>2, <2>9, <3>1, <4>1
    <3>2. CASE i \notin 1 .. m
      <4>1. i - m \in DOMAIN s[c + 1] /\ after[i] = s[c + 1][i - m]
        BY <2>000, <2>7, <2>10, <3>2
      <4> QED BY <2>2, <3>2, <4>1
    <3> QED BY <3>1, <3>2
  <2>13. ASSUME NEW i \in 1 .. m + q, NEW j \in 1 .. m + q, after[i].block = after[j].block
         PROVE  i = j
    <3>10. PICK k \in 1 .. c + 1 : \E x \in DOMAIN s[k] :
                   /\ after[i] = s[k][x] /\ (i \in 1 .. m => k \in 1 .. c)
                   /\ (i \notin 1 .. m => k = c + 1 /\ x = i - m)
      BY <2>12
    <3>1. PICK x \in DOMAIN s[k] :
                   /\ after[i] = s[k][x] /\ (i \in 1 .. m => k \in 1 .. c)
                   /\ (i \notin 1 .. m => k = c + 1 /\ x = i - m)
      BY <3>10
    <3>20. PICK l \in 1 .. c + 1 : \E y \in DOMAIN s[l] :
                   /\ after[j] = s[l][y] /\ (j \in 1 .. m => l \in 1 .. c)
                   /\ (j \notin 1 .. m => l = c + 1 /\ y = j - m)
      BY <2>12
    <3>2. PICK y \in DOMAIN s[l] :
                   /\ after[j] = s[l][y] /\ (j \in 1 .. m => l \in 1 .. c)
                   /\ (j \notin 1 .. m => l = c + 1 /\ y = j - m)
      BY <3>20
    <3>3. k = l /\ x = y
      <4>1. k \in 1 .. n /\ l \in 1 .. n OBVIOUS
      <4>2. s[k][x].block = s[l][y].block BY <2>13, <3>1, <3>2
      <4> QED BY <4>1, <4>2
    <3>4. CASE i \in 1 .. m
      <4>1. j \in 1 .. m BY <2>2, <3>1, <3>2, <3>3, <3>4
      <4>2. before[i].block = before[j].block BY <2>9, <2>13, <3>4, <4>1
      <4> QED BY <2>1, <2>6, <3>4, <4>1, <4>2
    <3>5. CASE i \notin 1 .. m
      <4>1. j \notin 1 .. m BY <2>2, <3>1, <3>2, <3>3, <3>5
      <4>2. i - m = j - m BY <3>1, <3>2, <3>3, <3>5, <4>1
      <4> QED BY <4>2
    <3> QED BY <3>4, <3>5
  <2>14. FlattenedApart(s, c + 1, after)
    BY <2>8, <2>12, <2>13 DEF FlattenedApart
  <2> QED BY <2>00, <2>14
<1>3. FlattenedApart(s, n, F(n))
  <2>1. Nat \subseteq N
    <3> HIDE DEF N
    <3> QED BY <1>1, <1>2, Numbers
  <2> HIDE DEF F
  <2> QED BY <2>1
<1>4. IsSeq(F(n))
  <2> DEFINE t == [k \in 1 .. n |-> s[k]]
             B == UNION {ToSet(s[k]) : k \in 1 .. n}
  <2>1. ASSUME NEW k \in 1 .. n PROVE s[k] \in Seq(B)
    <3>1. s[k] \in Seq(ToSet(s[k])) BY DEF IsSeq
    <3>2. ToSet(s[k]) \subseteq B OBVIOUS
    <3> HIDE DEF B
    <3> QED BY <3>1, <3>2
  <2> HIDE DEF B
  <2>2. t \in Seq(Seq(B)) BY <2>1
  <2> HIDE DEF t
  <2>3. FlattenSeq(t) \in Seq(B) BY <2>2, FlattenTyped
  <2>4. PICK m : m = FlattenSeq(t) OBVIOUS
  <2>5. IsSeq(m) BY <2>3, <2>4 DEF IsSeq, ToSet
  <2> QED BY <2>4, <2>5 DEF t
<1> QED BY <1>3, <1>4 DEF FlattenedApart

\* The member at a place of an arm, for case l of s.
MemberOf(x, i, s, l) ==
    \E a \in DOMAIN arms : /\ ArmOf(arms[a], s, l) /\ OwnChain(arms[a])
                           /\ i \in DOMAIN arms[a].chain /\ x.block = arms[a].chain[i]

\* The members of a case are the blocks of the case's arm.
LEMMA CaseMembersAre ==
    ASSUME Recorded, Paired, NEW s \in ToSet(switches), NEW l \in ToSet(s.labels)
    PROVE  LET m == CaseMembers(s, l)
           IN  /\ IsSeq(m)
               /\ \A i \in DOMAIN m : MemberOf(m[i], i, s, l) /\ l \notin ToSet(left[s.left].labels)
<1>1. CASE l \in ToSet(left[s.left].labels)
  <2>1. CaseMembers(s, l) = <<>> BY <1>1 DEF CaseMembers
  <2> QED BY <2>1 DEF IsSeq
<1>2. CASE l \notin ToSet(left[s.left].labels)
  <2> DEFINE arm == OwnArm(s, l)
             m == CaseMembers(s, l)
  <2>1. \E a \in ToSet(arms) : ArmOf(a, s, l) BY <1>2 DEF Recorded, ArmsFound
  <2>2. arm \in ToSet(arms) /\ ArmOf(arm, s, l) BY <2>1 DEF OwnArm, ArmOf
  <2>3. PICK a \in DOMAIN arms : arms[a] = arm BY <2>2 DEF ToSet
  <2>4. a <= Len(arms)
    <3>1. arms \in Seq(ToSet(arms)) BY DEF Paired, IsSeq
    <3> QED BY <3>1
  <2>5. OwnChain(arms[a]) BY <2>2, <2>3, <2>4 DEF Paired, ArmsApart, ArmOf
  <2>6. arm.chain \in Seq(DOMAIN right) BY <2>3, <2>5 DEF OwnChain
  <2>7. /\ m = [position \in DOMAIN arm.chain |-> m[position]]
        /\ \A i \in DOMAIN arm.chain : m[i].block = arm.chain[i]
    BY <1>2 DEF CaseMembers
  <2> HIDE DEF m, arm
  <2>8. DOMAIN arm.chain = 1 .. Len(arm.chain) /\ Len(arm.chain) \in Nat BY <2>6
  <2>9. DOMAIN m = DOMAIN arm.chain BY <2>7
  <2>10. IsSeq(m)
    <3>1. PICK n \in Nat : n = Len(arm.chain) /\ DOMAIN m = 1 .. n BY <2>8, <2>9
    <3>2. PICK q : q = m OBVIOUS
    <3>3. q = [i \in 1 .. n |-> q[i]]
      <4>1. m = [position \in 1 .. n |-> m[position]] BY <2>7, <2>8, <3>1
      <4> QED BY <3>2, <4>1
    <3>4. q \in Seq({q[i] : i \in DOMAIN q}) BY <3>1, <3>2, <3>3
    <3> QED BY <3>2, <3>4 DEF IsSeq, ToSet
  <2>11. ASSUME NEW i \in DOMAIN m PROVE MemberOf(m[i], i, s, l)
    <3>1. /\ ArmOf(arms[a], s, l) /\ OwnChain(arms[a])
          /\ i \in DOMAIN arms[a].chain /\ m[i].block = arms[a].chain[i]
      BY <2>2, <2>3, <2>5, <2>7, <2>9, <2>11
    <3> QED BY <3>1 DEF MemberOf
  <2> QED BY <1>2, <2>10, <2>11 DEF m
<1> QED BY <1>1, <1>2

\* One block is at one place of one arm.
LEMMA MemberOnce ==
    ASSUME Paired, NEW x, NEW y, NEW i, NEW j, NEW s, NEW r, NEW k, NEW l,
           MemberOf(x, i, s, k), MemberOf(y, j, r, l), x.block = y.block
    PROVE  s.right = r.right /\ k = l /\ i = j
<1>1. PICK a \in DOMAIN arms : /\ ArmOf(arms[a], s, k) /\ OwnChain(arms[a])
                               /\ i \in DOMAIN arms[a].chain /\ x.block = arms[a].chain[i]
  BY DEF MemberOf
<1>2. PICK b \in DOMAIN arms : /\ ArmOf(arms[b], r, l) /\ OwnChain(arms[b])
                               /\ j \in DOMAIN arms[b].chain /\ y.block = arms[b].chain[j]
  BY DEF MemberOf
<1>3. a <= Len(arms) /\ b <= Len(arms)
  <2>1. arms \in Seq(ToSet(arms)) BY DEF Paired, IsSeq
  <2> QED BY <2>1
<1>4. a = b
  <2>1. x.block \in ToSet(arms[a].chain) \cap ToSet(arms[b].chain) BY <1>1, <1>2 DEF ToSet
  <2> QED BY <1>1, <1>2, <1>3, <2>1 DEF Paired, ArmsApart, ArmOf
<1>5. arms[a].source = s.right /\ arms[a].source = r.right /\ arms[a].label = k /\ arms[a].label = l
  BY <1>1, <1>2, <1>4 DEF ArmOf
<1>6. i = j BY <1>1, <1>2, <1>4 DEF OwnChain, IsInjective
<1> QED BY <1>5, <1>6

\* A member of a switch, or of any.
MemberIn(x, s) == \E l, i : MemberOf(x, i, s, l)

\* The members of a switch are blocks of its arms, each once.
LEMMA SwitchMembersAre ==
    ASSUME Recorded, Paired, NEW s \in ToSet(switches)
    PROVE  LET m == SwitchMembers(s)
           IN  /\ IsSeq(m) /\ \A i \in DOMAIN m : MemberIn(m[i], s)
               /\ \A i, j \in DOMAIN m : m[i].block = m[j].block => i = j
<1> DEFINE part == [k \in DOMAIN s.labels |-> CaseMembers(s, s.labels[k])]
<1>1. PICK n \in Nat : n = Len(s.labels) /\ DOMAIN s.labels = 1 .. n
  <2>1. s.labels \in Seq(ToSet(s.labels)) BY DEF Paired, IsSeq
  <2> QED BY <2>1
<1>2. ASSUME NEW k \in 1 .. n
      PROVE  /\ IsSeq(part[k])
             /\ \A i \in DOMAIN part[k] : /\ MemberOf(part[k][i], i, s, s.labels[k])
                                          /\ s.labels[k] \notin ToSet(left[s.left].labels)
  <2>1. part[k] = CaseMembers(s, s.labels[k]) /\ s.labels[k] \in ToSet(s.labels) BY <1>1 DEF ToSet
  <2> HIDE DEF part
  <2> QED BY <2>1, CaseMembersAre
<1>3. part = [k \in 1 .. n |-> part[k]] /\ SwitchMembers(s) = FlattenSeq(part)
  BY <1>1 DEF SwitchMembers
<1> HIDE DEF part
<1>4. ASSUME NEW k \in 1 .. n, NEW l \in 1 .. n, NEW i \in DOMAIN part[k], NEW j \in DOMAIN part[l],
             part[k][i].block = part[l][j].block
      PROVE  k = l /\ i = j
  <2>1. s.labels[k] = s.labels[l] /\ i = j BY <1>2, <1>4, MemberOnce
  <2>2. k = l BY <1>1, <1>2, <2>1 DEF Paired
  <2> QED BY <2>1, <2>2
<1>5. PICK m : m = FlattenSeq([k \in 1 .. n |-> part[k]]) OBVIOUS
<1>6. /\ IsSeq(m)
      /\ \A i \in DOMAIN m : \E k \in 1 .. n : \E j \in DOMAIN part[k] : m[i] = part[k][j]
      /\ \A i, j \in DOMAIN m : m[i].block = m[j].block => i = j
  <2>1. \A k \in 1 .. n : IsSeq(part[k]) BY <1>2
  <2>2. \A k, l \in 1 .. n : \A i \in DOMAIN part[k] : \A j \in DOMAIN part[l] :
            part[k][i].block = part[l][j].block => k = l /\ i = j
    BY <1>4
  <2>3. LET f == FlattenSeq([k \in 1 .. n |-> part[k]])
        IN  /\ IsSeq(f)
            /\ \A i \in DOMAIN f : \E k \in 1 .. n : \E j \in DOMAIN part[k] : f[i] = part[k][j]
            /\ \A i, j \in DOMAIN f : f[i].block = f[j].block => i = j
    <3>1. n \in Nat BY <1>1
    <3> QED BY <2>1, <2>2, <3>1, FlattenApart, ZenonT(60)
  <2> QED BY <1>5, <2>3
<1>7. \A i \in DOMAIN m : MemberIn(m[i], s) BY <1>2, <1>6 DEF MemberIn
<1>8. SwitchMembers(s) = m BY <1>3, <1>5
<1> QED BY <1>6, <1>7, <1>8

\* All members are blocks of arms of recorded switches, each once.
LEMMA ArmMembersAre ==
    ASSUME Recorded, Paired
    PROVE  LET m == ArmMembers
           IN  /\ IsSeq(m)
               /\ \A i \in DOMAIN m : \E s \in ToSet(switches) : MemberIn(m[i], s)
               /\ \A i, j \in DOMAIN m : m[i].block = m[j].block => i = j
<1> DEFINE part == [k \in DOMAIN switches |-> SwitchMembers(switches[k])]
<1>1. PICK n \in Nat : n = Len(switches) /\ DOMAIN switches = 1 .. n
  <2>1. switches \in Seq(ToSet(switches)) BY DEF Paired, IsSeq
  <2> QED BY <2>1
<1>2. ASSUME NEW k \in 1 .. n
      PROVE  /\ IsSeq(part[k]) /\ switches[k] \in ToSet(switches)
             /\ \A i \in DOMAIN part[k] : MemberIn(part[k][i], switches[k])
             /\ \A i, j \in DOMAIN part[k] : part[k][i].block = part[k][j].block => i = j
  <2>1. part[k] = SwitchMembers(switches[k]) /\ switches[k] \in ToSet(switches) BY <1>1 DEF ToSet
  <2> HIDE DEF part
  <2> QED BY <2>1, SwitchMembersAre
<1>3. part = [k \in 1 .. n |-> part[k]] /\ ArmMembers = FlattenSeq(part)
  BY <1>1 DEF ArmMembers
<1> HIDE DEF part
<1>4. ASSUME NEW k \in 1 .. n, NEW l \in 1 .. n, NEW i \in DOMAIN part[k], NEW j \in DOMAIN part[l],
             part[k][i].block = part[l][j].block
      PROVE  k = l /\ i = j
  <2>1. PICK a, p : MemberOf(part[k][i], p, switches[k], a) BY <1>2 DEF MemberIn
  <2>2. PICK b, q : MemberOf(part[l][j], q, switches[l], b) BY <1>2 DEF MemberIn
  <2>3. switches[k].right = switches[l].right BY <1>4, <2>1, <2>2, MemberOnce
  <2>4. k = l BY <1>1, <2>3 DEF Recorded, SwitchesOnce
  <2> QED BY <1>2, <1>4, <2>4
<1>5. PICK m : m = FlattenSeq([k \in 1 .. n |-> part[k]]) OBVIOUS
<1>6. /\ IsSeq(m)
      /\ \A i \in DOMAIN m : \E k \in 1 .. n : \E j \in DOMAIN part[k] : m[i] = part[k][j]
      /\ \A i, j \in DOMAIN m : m[i].block = m[j].block => i = j
  <2>1. \A k \in 1 .. n : IsSeq(part[k]) BY <1>2
  <2>2. \A k, l \in 1 .. n : \A i \in DOMAIN part[k] : \A j \in DOMAIN part[l] :
            part[k][i].block = part[l][j].block => k = l /\ i = j
    BY <1>4
  <2>3. LET f == FlattenSeq([k \in 1 .. n |-> part[k]])
        IN  /\ IsSeq(f)
            /\ \A i \in DOMAIN f : \E k \in 1 .. n : \E j \in DOMAIN part[k] : f[i] = part[k][j]
            /\ \A i, j \in DOMAIN f : f[i].block = f[j].block => i = j
    <3>1. n \in Nat BY <1>1
    <3> QED BY <2>1, <2>2, <3>1, FlattenApart, ZenonT(60)
  <2> QED BY <1>5, <2>3
<1>7. \A i \in DOMAIN m : \E s \in ToSet(switches) : MemberIn(m[i], s) BY <1>2, <1>6
<1>8. ArmMembers = m BY <1>3, <1>5
<1> QED BY <1>6, <1>7, <1>8

\* The blocks of the peer that have no block of the first target with them.
OwnBlocks == {b \in DOMAIN right : [left |-> 0, right |-> b] \in ToSet(pairs)}

\* They have no block of the first target with them.
LEMMA MembersOwn ==
    ASSUME Recorded, Paired
    PROVE  \A i \in DOMAIN ArmMembers : ArmMembers[i].block \in OwnBlocks
<1> SUFFICES ASSUME NEW i \in DOMAIN ArmMembers PROVE ArmMembers[i].block \in OwnBlocks
  OBVIOUS
<1>1. PICK x : x = ArmMembers[i] OBVIOUS
<1>2. PICK s \in ToSet(switches) : MemberIn(x, s) BY <1>1, ArmMembersAre
<1>3. PICK l, p : MemberOf(x, p, s, l) BY <1>2 DEF MemberIn
<1>4. PICK a \in DOMAIN arms : /\ OwnChain(arms[a])
                               /\ p \in DOMAIN arms[a].chain /\ x.block = arms[a].chain[p]
  BY <1>3 DEF MemberOf
<1>5. PICK c : c = arms[a].chain OBVIOUS
<1>6. /\ c \in Seq(DOMAIN right)
      /\ \A b \in ToSet(c) : [left |-> 0, right |-> b] \in ToSet(pairs)
  BY <1>4, <1>5 DEF OwnChain
<1>7. c[p] \in ToSet(c) /\ c[p] \in DOMAIN right BY <1>4, <1>5, <1>6 DEF ToSet
<1> QED BY <1>1, <1>4, <1>5, <1>6, <1>7 DEF OwnBlocks

\* One group of no block of the first target for each key.
ArmsKnown(list, known) ==
    /\ \A x \in known : x = <<x[1], x[2]>> /\ x[2] \in DOMAIN list /\ list[x[2]][1] = 0
    /\ \A x, y \in known : x[1] = y[1] => x = y

\* The groups while the peer's blocks come into them; those of taken have.
PeerPlaced(list, taken) ==
    /\ list \in Seq([Targets -> Nat]) /\ list # <<>>
    /\ \A t \in Targets \ {peer} : IF t < peer THEN GroupedBy(list, functions[t], t)
                                    ELSE \A g \in DOMAIN list : list[g][t] = 0
    /\ \A g \in DOMAIN list : list[g][peer] \in taken \cup {0}
    /\ \A g, h \in DOMAIN list : list[g][peer] = list[h][peer] /\ list[g][peer] # 0 => g = h
    /\ list[1][peer] = 1

\* A list of groups that differs from another in column c alone, and in new
\* groups, has the same in every other column.
LEMMA OtherTargetsKeep ==
    ASSUME NEW n \in Nat, NEW m \in Nat, n <= m, NEW a, NEW b, NEW f, NEW t, n # 0,
           DOMAIN a = 1 .. n, DOMAIN b = 1 .. m, GroupedBy(a, f, t),
           \A g \in 1 .. n : b[g][t] = a[g][t], \A g \in 1 .. m : g \notin 1 .. n => b[g][t] = 0,
           Len(f) \in Nat
    PROVE  GroupedBy(b, f, t)
<1>1. /\ \A g \in 1 .. n : a[g][t] \in 0 .. Len(f)
      /\ \A x \in DOMAIN f : \E g \in 1 .. n : a[g][t] = x
      /\ \A g, h \in 1 .. n : a[g][t] = a[h][t] /\ a[g][t] # 0 => g = h
      /\ a[1][t] = 1
  BY DEF GroupedBy
<1>2. 1 .. n \subseteq 1 .. m /\ 1 \in 1 .. n OBVIOUS
<1>3. \A g \in 1 .. m : b[g][t] \in 0 .. Len(f)
  <2> TAKE g \in 1 .. m
  <2>1. CASE g \in 1 .. n BY <1>1, <2>1
  <2>2. CASE g \notin 1 .. n BY <2>2
  <2> QED BY <2>1, <2>2
<1>4. \A x \in DOMAIN f : \E g \in 1 .. m : b[g][t] = x
  <2> TAKE x \in DOMAIN f
  <2>1. PICK g \in 1 .. n : a[g][t] = x BY <1>1
  <2>2. g \in 1 .. m /\ b[g][t] = x BY <1>2, <2>1
  <2> QED BY <2>2
<1>5. ASSUME NEW g \in 1 .. m, NEW h \in 1 .. m, b[g][t] = b[h][t], b[g][t] # 0 PROVE g = h
  <2>1. g \in 1 .. n /\ h \in 1 .. n BY <1>5
  <2> QED BY <1>1, <1>5, <2>1
<1>6. b[1][t] = 1 BY <1>1, <1>2
<1> QED BY <1>3, <1>4, <1>5, <1>6 DEF GroupedBy

\* An arm block gets a group.
LEMMA PlaceArmKeeps ==
    ASSUME peer \in Targets, peer \in Nat, peer > 1, 1 \in Targets, Targets \subseteq Nat,
           \A t \in Targets : IsSeq(functions[t]),
           NEW r, NEW taken, PeerPlaced(r.groups, taken), ArmsKnown(r.groups, r.armGroups),
           NEW m, m.block \in Nat \ {0}, m.block \notin taken
    PROVE  LET after == PlaceArm(r, m)
           IN  /\ PeerPlaced(after.groups, taken \cup {m.block})
               /\ ArmsKnown(after.groups, after.armGroups)
<1> DEFINE after == PlaceArm(r, m)
           known == {g \in DOMAIN r.groups : <<m.key, g>> \in r.armGroups}
           alone == [t \in Targets |-> IF t = peer THEN m.block ELSE 0]
<1>0. PICK list : list = r.groups OBVIOUS
<1>1. /\ list \in Seq([Targets -> Nat]) /\ list # <<>>
      /\ \A t \in Targets \ {peer} : IF t < peer THEN GroupedBy(list, functions[t], t)
                                      ELSE \A g \in DOMAIN list : list[g][t] = 0
      /\ \A g \in DOMAIN list : list[g][peer] \in taken \cup {0}
      /\ \A g, h \in DOMAIN list : list[g][peer] = list[h][peer] /\ list[g][peer] # 0 => g = h
      /\ list[1][peer] = 1
  BY <1>0 DEF PeerPlaced
<1>2. PICK n \in Nat : n = Len(list) /\ DOMAIN list = 1 .. n /\ n # 0 BY <1>1
<1>3. /\ \A x \in r.armGroups : x = <<x[1], x[2]>> /\ x[2] \in 1 .. n /\ list[x[2]][1] = 0
      /\ \A x, y \in r.armGroups : x[1] = y[1] => x = y
  BY <1>0, <1>2 DEF ArmsKnown
<1>4. \A t \in Targets : Len(functions[t]) \in Nat BY DEF IsSeq
<1>5. list[1][1] = 1
  <2>1. GroupedBy(list, functions[1], 1) BY <1>1
  <2> QED BY <2>1 DEF GroupedBy
<1>6. alone \in [Targets -> Nat] OBVIOUS
<1>7. \A g \in 1 .. n : list[g] \in [Targets -> Nat] BY <1>1, <1>2
<1>8. CASE known = {}
  <2>1. /\ after.groups = Append(list, alone)
        /\ after.armGroups = r.armGroups \cup {<<m.key, n + 1>>}
    BY <1>0, <1>2, <1>8 DEF PlaceArm
  <2>2. PICK b : b = after.groups OBVIOUS
  <2> HIDE DEF alone, after
  <2>3. /\ DOMAIN b = 1 .. n + 1 /\ b[n + 1] = alone /\ \A g \in 1 .. n : b[g] = list[g]
        /\ b \in Seq([Targets -> Nat]) /\ b # <<>>
    BY <1>1, <1>2, <1>6, <2>1, <2>2
  <2>4. \A g \in 1 .. n + 1 : g \notin 1 .. n => g = n + 1 OBVIOUS
  <2>5. \A t \in Targets \ {peer} : alone[t] = 0 BY DEF alone
  <2>6. alone[peer] = m.block BY DEF alone
  <2>7. ASSUME NEW t \in Targets \ {peer}
        PROVE  IF t < peer THEN GroupedBy(b, functions[t], t) ELSE \A g \in DOMAIN b : b[g][t] = 0
    <3>1. \A g \in 1 .. n : b[g][t] = list[g][t] BY <2>3
    <3>2. \A g \in 1 .. n + 1 : g \notin 1 .. n => b[g][t] = 0 BY <2>3, <2>4, <2>5
    <3>3. CASE t < peer
      <4>1. GroupedBy(list, functions[t], t) BY <1>1, <3>3
      <4>2. n + 1 \in Nat /\ n <= n + 1 OBVIOUS
      <4>3. GroupedBy(b, functions[t], t)
        <5>1. PICK q \in Nat : q = n + 1 BY <4>2
        <5>2. DOMAIN b = 1 .. q /\ n <= q /\ Len(functions[t]) \in Nat BY <1>4, <2>3, <4>2, <5>1
        <5>3. \A g \in 1 .. q : g \notin 1 .. n => b[g][t] = 0 BY <3>2, <5>1
        <5> QED BY <1>2, <3>1, <4>1, <5>2, <5>3, OtherTargetsKeep
      <4> QED BY <3>3, <4>3
    <3>4. CASE ~(t < peer)
      <4>1. \A g \in 1 .. n : list[g][t] = 0 BY <1>1, <1>2, <3>4
      <4>2. \A g \in 1 .. n + 1 : b[g][t] = 0 BY <3>1, <3>2, <4>1
      <4> QED BY <2>3, <3>4, <4>2
    <3> QED BY <3>3, <3>4
  <2>8. \A g \in DOMAIN b : b[g][peer] \in (taken \cup {m.block}) \cup {0}
    BY <1>1, <1>2, <2>3, <2>4, <2>6
  <2>9. ASSUME NEW g \in DOMAIN b, NEW h \in DOMAIN b, b[g][peer] = b[h][peer], b[g][peer] # 0
        PROVE  g = h
    <3>1. CASE g \in 1 .. n /\ h \in 1 .. n BY <1>1, <1>2, <2>3, <2>9, <3>1
    <3>2. CASE g \notin 1 .. n /\ h \notin 1 .. n BY <2>3, <2>4, <3>2
    <3>3. CASE g \in 1 .. n /\ h \notin 1 .. n BY <1>1, <1>2, <2>3, <2>4, <2>6, <2>9, <3>3
    <3>4. CASE g \notin 1 .. n /\ h \in 1 .. n BY <1>1, <1>2, <2>3, <2>4, <2>6, <2>9, <3>4
    <3> QED BY <3>1, <3>2, <3>3, <3>4
  <2>10. b[1][peer] = 1
    <3>1. 1 \in 1 .. n BY <1>2
    <3> QED BY <1>1, <2>3, <3>1
  <2>11. PeerPlaced(b, taken \cup {m.block}) BY <2>3, <2>7, <2>8, <2>9, <2>10 DEF PeerPlaced
  <2>12. ArmsKnown(b, after.armGroups)
    <3>1. \A x \in r.armGroups : x[1] # m.key
      <4> TAKE x \in r.armGroups
      <4>1. SUFFICES ASSUME x[1] = m.key PROVE FALSE OBVIOUS
      <4>2. x = <<m.key, x[2]>> /\ x[2] \in DOMAIN r.groups BY <1>0, <1>2, <1>3, <4>1
      <4> QED BY <1>8, <4>2
    <3>2. b[n + 1][1] = 0 BY <2>3, <2>5
    <3>3. PICK z : z = <<m.key, n + 1>> OBVIOUS
    <3>4. z[1] = m.key /\ z[2] = n + 1 BY <3>3
    <3>5. ASSUME NEW x \in after.armGroups PROVE x = <<x[1], x[2]>> /\ x[2] \in DOMAIN b /\ b[x[2]][1] = 0
      <4>1. CASE x \in r.armGroups
        <5>1. x = <<x[1], x[2]>> /\ x[2] \in 1 .. n /\ list[x[2]][1] = 0 BY <1>3, <4>1
        <5>2. x[2] \in 1 .. n + 1
          <6> DEFINE p == x[2]
          <6>1. p \in 1 .. n BY <5>1
          <6> HIDE DEF p
          <6>2. p \in 1 .. n + 1 BY <6>1
          <6> QED BY <6>2 DEF p
        <5> QED BY <2>3, <5>1, <5>2
      <4>2. CASE x = z BY <2>3, <3>2, <3>3, <3>4, <4>2
      <4> QED BY <2>1, <3>3, <4>1, <4>2
    <3>6. \A x, y \in after.armGroups : x[1] = y[1] => x = y
      BY <1>3, <2>1, <3>1, <3>3, <3>4
    <3> QED BY <3>5, <3>6 DEF ArmsKnown
  <2> QED BY <2>2, <2>11, <2>12 DEF after
<1>9. CASE known # {}
  <2>0. PICK c \in known : TRUE BY <1>9
  <2>1. known = {c} /\ c \in 1 .. n /\ list[c][1] = 0
    <3>1. c \in 1 .. n /\ <<m.key, c>> \in r.armGroups BY <1>0, <1>2, <2>0
    <3>2. ASSUME NEW h \in known PROVE h = c
      <4>1. <<m.key, h>> \in r.armGroups OBVIOUS
      <4>2. <<m.key, h>> = <<m.key, c>> BY <1>3, <3>1, <4>1
      <4> QED BY <4>2
    <3>3. known = {c} BY <2>0, <3>2
    <3>4. list[c][1] = 0 BY <1>3, <3>1
    <3> QED BY <3>1, <3>3, <3>4
  <2>2. /\ after.groups = [g \in DOMAIN list |->
                             IF g \in known THEN [list[g] EXCEPT ![peer] = m.block] ELSE list[g]]
        /\ after.armGroups = r.armGroups
    BY <1>0, <1>9 DEF PlaceArm
  <2>3. PICK b : b = after.groups OBVIOUS
  <2> HIDE DEF known, after
  <2>4. /\ DOMAIN b = 1 .. n
        /\ b[c] = [list[c] EXCEPT ![peer] = m.block]
        /\ \A g \in 1 .. n : g # c => b[g] = list[g]
    BY <1>2, <2>1, <2>2, <2>3
  <2>5. b[c] \in [Targets -> Nat] /\ b[c][peer] = m.block
        /\ \A t \in Targets \ {peer} : b[c][t] = list[c][t]
    BY <1>7, <2>1, <2>4
  <2>6. b \in Seq([Targets -> Nat]) /\ b # <<>>
    <3>1. \A g \in 1 .. n : b[g] \in [Targets -> Nat] BY <1>7, <2>4, <2>5
    <3>2. b = [g \in 1 .. n |-> b[g]] BY <1>2, <2>2, <2>3
    <3> QED BY <1>2, <2>4, <3>1, <3>2
  <2>7. \A g \in 1 .. n : \A t \in Targets \ {peer} : b[g][t] = list[g][t] BY <2>4, <2>5
  <2>8. ASSUME NEW t \in Targets \ {peer}
        PROVE  IF t < peer THEN GroupedBy(b, functions[t], t) ELSE \A g \in DOMAIN b : b[g][t] = 0
    <3>1. \A g \in 1 .. n : b[g][t] = list[g][t] BY <2>7
    <3>3. CASE t < peer
      <4>1. GroupedBy(list, functions[t], t) BY <1>1, <3>3
      <4>2. GroupedBy(b, functions[t], t)
        BY <1>2, <1>4, <2>4, <3>1, <4>1, OtherTargetsKeep
      <4> QED BY <3>3, <4>2
    <3>4. CASE ~(t < peer) BY <1>1, <1>2, <2>4, <3>1, <3>4
    <3> QED BY <3>3, <3>4
  <2>9. \A g \in DOMAIN b : b[g][peer] \in (taken \cup {m.block}) \cup {0}
    BY <1>1, <1>2, <2>4, <2>5
  <2>10. ASSUME NEW g \in DOMAIN b, NEW h \in DOMAIN b, b[g][peer] = b[h][peer], b[g][peer] # 0
         PROVE  g = h
    <3>1. CASE g # c /\ h # c BY <1>1, <1>2, <2>4, <2>10, <3>1
    <3>2. CASE g = c /\ h # c BY <1>1, <1>2, <2>4, <2>5, <2>10, <3>2
    <3>3. CASE g # c /\ h = c BY <1>1, <1>2, <2>4, <2>5, <2>10, <3>3
    <3> QED BY <3>1, <3>2, <3>3
  <2>11. b[1][peer] = 1
    <3>1. c # 1 BY <1>5, <2>1
    <3>2. 1 \in 1 .. n BY <1>2
    <3> QED BY <1>1, <2>4, <3>1, <3>2
  <2>12. PeerPlaced(b, taken \cup {m.block}) BY <2>6, <2>8, <2>9, <2>10, <2>11 DEF PeerPlaced
  <2>13. ArmsKnown(b, after.armGroups)
    <3>1. \A g \in 1 .. n : b[g][1] = list[g][1] BY <2>7
    <3> QED BY <1>3, <2>2, <2>4, <3>1 DEF ArmsKnown
  <2> QED BY <2>3, <2>12, <2>13 DEF after
<1> QED BY <1>8, <1>9

\* Groups and keys, of the keys K.
Placings(K) == [groups : Seq([Targets -> Nat]), armGroups : SUBSET (K \X Nat)]

\* PlaceArm makes placings of placings.
LEMMA PlaceArmTyped ==
    ASSUME NEW K, NEW r \in Placings(K), NEW m, m.key \in K, m.block \in Nat, peer \in Targets
    PROVE  PlaceArm(r, m) \in Placings(K)
<1> DEFINE known == {g \in DOMAIN r.groups : <<m.key, g>> \in r.armGroups}
           alone == [t \in Targets |-> IF t = peer THEN m.block ELSE 0]
           F == [Targets -> Nat]
<1>1. r.groups \in Seq(F) /\ r.armGroups \in SUBSET (K \X Nat) BY DEF Placings
<1>2. alone \in F OBVIOUS
<1>3. CASE known = {}
  <2>1. PlaceArm(r, m) = [groups |-> Append(r.groups, alone),
                          armGroups |-> r.armGroups \cup {<<m.key, Len(r.groups) + 1>>}]
    BY <1>3 DEF PlaceArm
  <2> HIDE DEF alone, F
  <2>2. Append(r.groups, alone) \in Seq(F) /\ Len(r.groups) + 1 \in Nat BY <1>1, <1>2
  <2>3. r.armGroups \cup {<<m.key, Len(r.groups) + 1>>} \in SUBSET (K \X Nat) BY <1>1, <2>2
  <2> QED BY <2>1, <2>2, <2>3 DEF Placings, F
<1>4. CASE known # {}
  <2> DEFINE list == [g \in DOMAIN r.groups |->
                         IF g \in known THEN [r.groups[g] EXCEPT ![peer] = m.block] ELSE r.groups[g]]
  <2>1. PlaceArm(r, m) = [groups |-> list, armGroups |-> r.armGroups]
    BY <1>4 DEF PlaceArm
  <2>2. list \in Seq(F)
    <3>1. \A g \in DOMAIN r.groups : r.groups[g] \in F BY <1>1
    <3>2. \A g \in DOMAIN r.groups : [r.groups[g] EXCEPT ![peer] = m.block] \in F BY <3>1
    <3>3. \A g \in DOMAIN r.groups : list[g] \in F BY <3>1, <3>2
    <3>4. PICK n \in Nat : DOMAIN r.groups = 1 .. n BY <1>1
    <3> HIDE DEF F, known
    <3> QED BY <3>3, <3>4
  <2> HIDE DEF list
  <2> QED BY <1>1, <2>1, <2>2 DEF Placings
<1> QED BY <1>3, <1>4

\* All arm blocks get their groups.
LEMMA PlaceArmsKeep ==
    ASSUME peer \in Targets, peer \in Nat, peer > 1, 1 \in Targets, Targets \subseteq Nat,
           \A t \in Targets : IsSeq(functions[t]),
           NEW list, NEW known, NEW taken, PeerPlaced(list, taken), ArmsKnown(list, known),
           NEW members, IsSeq(members),
           \A i \in DOMAIN members : members[i].block \in Nat \ {0} /\ members[i].block \notin taken,
           \A i, j \in DOMAIN members : members[i].block = members[j].block => i = j
    PROVE  LET after == PlaceArms([groups |-> list, armGroups |-> known], members)
           IN  /\ PeerPlaced(after.groups, taken \cup {members[i].block : i \in DOMAIN members})
               /\ ArmsKnown(after.groups, after.armGroups)
<1> DEFINE n == Len(members)
           K == {x[1] : x \in known} \cup {members[i].key : i \in DOMAIN members}
           X == Placings(K)
           start == [groups |-> list, armGroups |-> known]
           G == [k \in 1 .. n |-> [r \in X |-> PlaceArm(r, members[k])]]
           Defines(f) == f = [k \in 0 .. n |-> IF k = 0 THEN start ELSE PlaceArm(f[k - 1], members[k])]
           f == CHOOSE f : Defines(f)
<1>0. n \in Nat /\ DOMAIN members = 1 .. n
  <2>1. members \in Seq(ToSet(members)) BY DEF IsSeq
  <2> QED BY <2>1
<1> HIDE DEF n
<1>1. start \in X
  <2>1. list \in Seq([Targets -> Nat]) BY DEF PeerPlaced
  <2>2. ASSUME NEW x \in known PROVE x \in K \X Nat
    <3>1. x = <<x[1], x[2]>> /\ x[2] \in DOMAIN list BY DEF ArmsKnown
    <3>2. x[2] \in Nat BY <2>1, <3>1
    <3>3. x[1] \in K OBVIOUS
    <3> HIDE DEF K
    <3> QED BY <3>1, <3>2, <3>3
  <2> HIDE DEF K
  <2> QED BY <2>1, <2>2 DEF Placings
<1>2. ASSUME NEW r \in X, NEW k \in 1 .. n PROVE PlaceArm(r, members[k]) \in X
  <2>1. members[k].key \in K /\ members[k].block \in Nat BY <1>0
  <2> HIDE DEF K
  <2> QED BY <2>1, PlaceArmTyped
<1>3. G \in Steps(n, X)
  <2> HIDE DEF X
  <2> QED BY <1>2 DEF Steps
<1>4. \E h : Defines(h)
  <2>1. PICK h \in [0 .. n -> X] : h[0] = start /\ \A k \in 1 .. n : h[k] = G[k][h[k - 1]]
    <3> HIDE DEF G, X, start
    <3>2. Iteration(n, X, start, G) # {} BY <1>0, <1>1, <1>3, Iterates
    <3> QED BY <3>2 DEF Iteration
  <2> HIDE DEF X, start
  <2>2. ASSUME NEW k \in 1 .. n PROVE h[k] = PlaceArm(h[k - 1], members[k])
    <3>1. h[k - 1] \in X BY <1>0
    <3> QED BY <2>1, <3>1
  <2>3. \A k \in 0 .. n : h[k] = IF k = 0 THEN start ELSE PlaceArm(h[k - 1], members[k])
    <3>1. \A k \in 0 .. n : k = 0 \/ k \in 1 .. n BY <1>0
    <3> QED BY <2>1, <2>2, <3>1
  <2>4. h = [k \in 0 .. n |-> h[k]] OBVIOUS
  <2>5. Defines(h) BY <2>3, <2>4
  <2> QED BY <2>5
<1>5. Defines(f)
  <2> HIDE DEF Defines
  <2> QED BY <1>4
<1>6. PlaceArms(start, members) = f[n]
  BY DEF PlaceArms, n
<1> HIDE DEF f
<1>7. \A k \in 0 .. n : f[k] = IF k = 0 THEN start ELSE PlaceArm(f[k - 1], members[k])
  <2> HIDE DEF start
  <2> QED BY <1>5, Zenon
<1> DEFINE T(k) == taken \cup {members[i].block : i \in 1 .. k}
           P(k) == PeerPlaced(f[k].groups, T(k)) /\ ArmsKnown(f[k].groups, f[k].armGroups)
           N == {k \in Nat : k <= n => P(k)}
<1>8. 0 \in N
  <2>1. f[0] = start BY <1>0, <1>7
  <2>2. T(0) = taken OBVIOUS
  <2> HIDE DEF T
  <2>3. f[0].groups = list /\ f[0].armGroups = known BY <2>1
  <2> QED BY <2>2, <2>3
<1>9. ASSUME NEW k \in Nat, k \in N PROVE k + 1 \in N
  <2> SUFFICES ASSUME k + 1 <= n PROVE P(k + 1) OBVIOUS
  <2>1. P(k)
    <3>1. k <= n BY <1>0
    <3> HIDE DEF P
    <3> QED BY <1>9, <3>1
  <2>2. f[k + 1] = PlaceArm(f[k], members[k + 1])
    <3>1. k + 1 \in 0 .. n /\ k + 1 # 0 /\ (k + 1) - 1 = k BY <1>0
    <3> HIDE DEF start
    <3> QED BY <1>7, <3>1
  <2>3. k + 1 \in 1 .. n /\ 1 .. k \subseteq 1 .. n /\ k + 1 \notin 1 .. k BY <1>0
  <2>30. PICK m : m = members[k + 1] OBVIOUS
  <2>4. m.block \in Nat \ {0} /\ m.block \notin taken BY <1>0, <2>3, <2>30
  <2>5. m.block \notin T(k)
    <3>1. ASSUME NEW i \in 1 .. k, members[i].block = m.block PROVE FALSE
      BY <1>0, <2>3, <2>30, <3>1
    <3> QED BY <2>4, <3>1
  <2>6. T(k + 1) = T(k) \cup {m.block}
    <3>1. 1 .. k + 1 = (1 .. k) \cup {k + 1} OBVIOUS
    <3> QED BY <2>30, <3>1
  <2>7. PICK r : r = f[k] OBVIOUS
  <2> HIDE DEF T
  <2>8. PeerPlaced(r.groups, T(k)) /\ ArmsKnown(r.groups, r.armGroups) BY <2>1, <2>7
  <2>9. PICK after : after = PlaceArm(r, m) OBVIOUS
  <2>10. PeerPlaced(after.groups, T(k) \cup {m.block}) /\ ArmsKnown(after.groups, after.armGroups)
    BY <2>4, <2>5, <2>8, <2>9, PlaceArmKeeps
  <2>11. f[k + 1] = after BY <2>2, <2>7, <2>9, <2>30
  <2> QED BY <2>6, <2>10, <2>11
<1>10. P(n)
  <2>1. Nat \subseteq N
    <3> HIDE DEF N
    <3> QED BY <1>8, <1>9, Numbers
  <2> HIDE DEF P
  <2> QED BY <1>0, <2>1
<1>11. T(n) = taken \cup {members[i].block : i \in DOMAIN members} BY <1>0
<1> HIDE DEF T
<1> QED BY <1>6, <1>10, <1>11

\* The blocks of the peer that go with a block of the first target.
MatedBlocks == {pairs[k].right : k \in {i \in DOMAIN pairs : pairs[i].left # 0}} \ {0}

\* What GroupPeer knows when it starts.
LEMMA PeerFacts ==
    ASSUME PairingSound, GroupsSound, stage = "paired"
    PROVE  /\ Recorded /\ Paired /\ Finished = peer - 1
           /\ peer \in Targets /\ peer \in Nat /\ peer > 1 /\ 1 \in Targets /\ Targets \subseteq Nat
           /\ \A t \in Targets : IsSeq(functions[t]) /\ functions[t] # <<>>
           /\ groups \in Seq([Targets -> Nat]) /\ groups # <<>>
           /\ \A t \in Targets : IF t < peer THEN Grouped(t) ELSE \A g \in DOMAIN groups : groups[g][t] = 0
           /\ ArmsGrouped
<1>1. Recorded /\ Paired /\ Grouping BY DEF GroupsSound, Pairing
<1>2. Finished = peer - 1 BY DEF Finished, Pairing
<1>3. IsSeq(functions) /\ \A t \in Targets : NativeGraph(functions[t]) BY DEF PairingSound
<1>4. Targets = 1 .. Len(functions) /\ Len(functions) \in Nat BY <1>3 DEF Targets, IsSeq
<1>5. peer \in Targets /\ peer \in Nat /\ peer > 1 /\ 1 \in Targets /\ Targets \subseteq Nat
  BY <1>1, <1>4 DEF Recorded
<1>6. \A t \in Targets : IsSeq(functions[t]) /\ functions[t] # <<>> BY <1>3 DEF NativeGraph
<1>7. \A t \in Targets : t < peer <=> t <= Finished BY <1>2, <1>4, <1>5
<1>8. ArmsGrouped BY <1>1 DEF Grouping
<1>9. /\ groups \in Seq([Targets -> Nat]) /\ groups # <<>>
      /\ \A t \in Targets : IF t < peer THEN Grouped(t) ELSE \A g \in DOMAIN groups : groups[g][t] = 0
  BY <1>1, <1>7 DEF Grouping
<1> QED BY <1>1, <1>2, <1>5, <1>6, <1>8, <1>9

\* The mate of a block of the first target.
LEMMA MateIs ==
    ASSUME Paired, IsSeq(left), NEW b \in DOMAIN left
    PROVE  LET k == PairOf(pairs, "left", b)
           IN  /\ k \in DOMAIN pairs /\ pairs[k].left = b /\ b # 0
               /\ pairs[k].right \in MatedBlocks \cup {0} /\ pairs[k].right \in Nat
               /\ \A i \in DOMAIN pairs : pairs[i].left = b => i = k
<1>1. pairs \in Seq(PairSet) /\ PairsInjective(pairs) /\ \E p \in ToSet(pairs) : p.left = b
  BY DEF Paired
<1>2. b # 0 BY DEF IsSeq
<1>3. PICK k : k = PairOf(pairs, "left", b) OBVIOUS
<1>4. /\ k \in 0 .. Len(pairs)
      /\ k # 0 => k \in DOMAIN pairs /\ pairs[k]["left"] = b
      /\ k = 0 => \A i \in DOMAIN pairs : pairs[i]["left"] # b
  <2> DEFINE E == PairSet
  <2>1. pairs \in Seq(E) BY <1>1
  <2> HIDE DEF E
  <2> QED BY <1>3, <2>1, PairOfIs
<1>5. k \in DOMAIN pairs /\ pairs[k].left = b BY <1>1, <1>4 DEF ToSet
<1>6. pairs[k].right \in Nat
  <2>1. pairs[k] \in PairSet BY <1>1, <1>5
  <2> QED BY <2>1 DEF PairSet
<1>7. pairs[k].right \in MatedBlocks \cup {0} BY <1>2, <1>5 DEF MatedBlocks
<1>8. ASSUME NEW i \in DOMAIN pairs, pairs[i].left = b PROVE i = k
  BY <1>1, <1>2, <1>5, <1>8 DEF PairsInjective, Sides
<1> QED BY <1>2, <1>3, <1>5, <1>6, <1>7, <1>8

\* The groups of the first target's blocks take their mates.
LEMMA MatedIs ==
    ASSUME PairingSound, GroupsSound, stage = "paired"
    PROVE  PeerPlaced(Mated, MatedBlocks) /\ ArmsKnown(Mated, armGroups)
<1>1. /\ Recorded /\ Paired
      /\ peer \in Targets /\ peer \in Nat /\ peer > 1 /\ 1 \in Targets /\ Targets \subseteq Nat
      /\ \A t \in Targets : IsSeq(functions[t]) /\ functions[t] # <<>>
      /\ groups \in Seq([Targets -> Nat]) /\ groups # <<>>
      /\ \A t \in Targets : IF t < peer THEN Grouped(t) ELSE \A g \in DOMAIN groups : groups[g][t] = 0
      /\ ArmsGrouped
  BY PeerFacts
<1>2. left = functions[1] /\ IsSeq(left) BY <1>1 DEF Recorded
<1> DEFINE Mate(b) == pairs[PairOf(pairs, "left", b)].right
<1>3. PICK n \in Nat : DOMAIN groups = 1 .. n /\ n # 0 /\ n = Len(groups) BY <1>1
<1>4. \A g \in 1 .. n : groups[g] \in [Targets -> Nat] BY <1>1, <1>3
<1>5. PICK list : list = Mated OBVIOUS
<1>6. list = [g \in 1 .. n |-> IF groups[g][1] = 0 THEN groups[g]
                               ELSE [groups[g] EXCEPT ![peer] = Mate(groups[g][1])]]
  <2> DEFINE V(g) == IF groups[g][1] = 0 THEN groups[g]
                     ELSE [groups[g] EXCEPT ![peer] = Mate(groups[g][1])]
  <2>1. list = [g \in DOMAIN groups |-> V(g)] BY <1>5 DEF Mated
  <2> HIDE DEF V
  <2>2. list = [g \in 1 .. n |-> V(g)] BY <1>3, <2>1, Zenon
  <2> QED BY <2>2 DEF V
<1>7. /\ \A g \in 1 .. n : groups[g][1] \in 0 .. Len(left)
      /\ \A g, h \in 1 .. n : groups[g][1] = groups[h][1] /\ groups[g][1] # 0 => g = h
      /\ groups[1][1] = 1
  <2>1. Grouped(1) BY <1>1
  <2> QED BY <1>2, <1>3, <2>1 DEF Grouped
<1>8. \A g \in 1 .. n : groups[g][1] # 0 => groups[g][1] \in DOMAIN left
  <2>1. DOMAIN left = 1 .. Len(left) /\ Len(left) \in Nat BY <1>2 DEF IsSeq
  <2> QED BY <1>7, <2>1
<1>9. ASSUME NEW b \in DOMAIN left
      PROVE  /\ PairOf(pairs, "left", b) \in DOMAIN pairs
             /\ pairs[PairOf(pairs, "left", b)].left = b
             /\ Mate(b) \in MatedBlocks \cup {0} /\ Mate(b) \in Nat
             /\ \A i \in DOMAIN pairs : pairs[i].left = b => i = PairOf(pairs, "left", b)
  BY <1>1, <1>2, MateIs
<1> HIDE DEF Mate
<1>10. \A g \in 1 .. n : groups[g][peer] = 0 BY <1>1, <1>3
<1>11. ASSUME NEW g \in 1 .. n
       PROVE  /\ list[g] \in [Targets -> Nat]
              /\ \A t \in Targets \ {peer} : list[g][t] = groups[g][t]
              /\ list[g][peer] = IF groups[g][1] = 0 THEN 0 ELSE Mate(groups[g][1])
  <2>1. CASE groups[g][1] = 0 BY <1>4, <1>6, <1>10, <2>1
  <2>2. CASE groups[g][1] # 0
    <3>1. list[g] = [groups[g] EXCEPT ![peer] = Mate(groups[g][1])] BY <1>6, <2>2
    <3>2. Mate(groups[g][1]) \in Nat BY <1>8, <1>9, <2>2
    <3> QED BY <1>1, <1>4, <2>2, <3>1, <3>2
  <2> QED BY <2>1, <2>2
<1>12. DOMAIN list = 1 .. n BY <1>6
<1>13. list \in Seq([Targets -> Nat]) /\ list # <<>>
  <2>1. \A g \in 1 .. n : list[g] \in [Targets -> Nat] BY <1>11
  <2>2. list = [g \in 1 .. n |-> list[g]] BY <1>6
  <2>3. list \in Seq([Targets -> Nat]) BY <2>1, <2>2
  <2> QED BY <1>3, <1>12, <2>3
<1>14. ASSUME NEW t \in Targets \ {peer}
       PROVE  IF t < peer THEN GroupedBy(list, functions[t], t) ELSE \A g \in DOMAIN list : list[g][t] = 0
  <2>1. CASE t < peer
    <3>1. GroupedBy(groups, functions[t], t) BY <1>1, <2>1 DEF Grouped, GroupedBy
    <3>2. \A g \in 1 .. n : list[g][t] = groups[g][t] BY <1>11
    <3>3. Len(functions[t]) \in Nat BY <1>1 DEF IsSeq
    <3>4. GroupedBy(list, functions[t], t)
      <4>1. n <= n OBVIOUS
      <4> QED BY <1>3, <1>12, <3>1, <3>2, <3>3, <4>1, OtherTargetsKeep
    <3> QED BY <2>1, <3>4
  <2>2. CASE ~(t < peer) BY <1>1, <1>3, <1>11, <1>12, <2>2
  <2> QED BY <2>1, <2>2
<1>15. \A g \in DOMAIN list : list[g][peer] \in MatedBlocks \cup {0}
  BY <1>8, <1>9, <1>11, <1>12
<1>16. ASSUME NEW g \in 1 .. n, NEW h \in 1 .. n, list[g][peer] = list[h][peer], list[g][peer] # 0
       PROVE  g = h
  <2>1. groups[g][1] # 0 /\ groups[h][1] # 0 BY <1>11, <1>16
  <2>2. PICK a, b : a = groups[g][1] /\ b = groups[h][1] OBVIOUS
  <2>3. a \in DOMAIN left /\ b \in DOMAIN left BY <1>8, <2>1, <2>2
  <2>4. Mate(a) = Mate(b) /\ Mate(a) # 0 BY <1>11, <1>16, <2>1, <2>2
  <2>5. PICK i \in DOMAIN pairs : pairs[i].left = a /\ pairs[i].right = Mate(a)
    BY <1>9, <2>3 DEF Mate
  <2>6. PICK j \in DOMAIN pairs : pairs[j].left = b /\ pairs[j].right = Mate(b)
    BY <1>9, <2>3 DEF Mate
  <2>7. i = j
    <3>1. PairsInjective(pairs) BY <1>1 DEF Paired
    <3> QED BY <2>4, <2>5, <2>6, <3>1 DEF PairsInjective, Sides
  <2> QED BY <1>7, <2>1, <2>2, <2>5, <2>6, <2>7
<1>17. list[1][peer] = 1
  <2>1. 1 \in 1 .. n BY <1>3
  <2>2. 1 \in DOMAIN left BY <1>7, <1>8, <2>1
  <2>3. PICK q \in DOMAIN pairs : pairs[q] = [left |-> 1, right |-> 1] BY <1>1 DEF Recorded, ToSet
  <2>4. q = PairOf(pairs, "left", 1) BY <1>9, <2>2, <2>3
  <2>5. Mate(1) = 1 BY <2>3, <2>4 DEF Mate
  <2> QED BY <1>7, <1>11, <2>1, <2>5
<1>18. PeerPlaced(list, MatedBlocks) BY <1>12, <1>13, <1>14, <1>15, <1>16, <1>17 DEF PeerPlaced
<1>19. ArmsKnown(list, armGroups)
  <2>1. 1 \in Targets \ {peer} BY <1>1
  <2>2. \A g \in 1 .. n : list[g][1] = groups[g][1] BY <1>11, <2>1
  <2>3. /\ \A x \in armGroups : x = <<x[1], x[2]>> /\ x[2] \in 1 .. n /\ groups[x[2]][1] = 0
        /\ \A x, y \in armGroups : x[1] = y[1] => x = y
    BY <1>1, <1>3 DEF ArmsGrouped
  <2> QED BY <1>12, <2>2, <2>3 DEF ArmsKnown
<1> QED BY <1>5, <1>18, <1>19

\* Grouping a peer: its blocks are in one group each, those of the earlier
\* targets stay.
LEMMA GroupPeerKeeps ==
    ASSUME PairingSound, GroupsSound, GroupPeer, stage' # "refused"
    PROVE  GroupsSound'
<1>1. stage = "paired" BY DEF GroupPeer
<1>2. PICK placed : placed = PlaceArms([groups |-> Mated, armGroups |-> armGroups], ArmMembers) OBVIOUS
<1>3. /\ DOMAIN right = {g[peer] : g \in ToSet(placed.groups)} \ {0}
      /\ groups' = placed.groups /\ armGroups' = placed.armGroups /\ stage' = "grouped"
      /\ functions' = functions /\ peer' = peer
  BY <1>2 DEF GroupPeer, RefuseMerge, Refuse
<1>4. /\ Recorded /\ Paired /\ peer \in Targets /\ peer \in Nat /\ peer > 1 /\ 1 \in Targets
      /\ Targets \subseteq Nat /\ \A t \in Targets : IsSeq(functions[t])
  BY <1>1, PeerFacts
<1>5. PeerPlaced(Mated, MatedBlocks) /\ ArmsKnown(Mated, armGroups) BY <1>1, MatedIs
<1>6. right = functions[peer] /\ IsSeq(right) BY <1>4 DEF Recorded
<1>7. PICK members : members = ArmMembers OBVIOUS
<1>8. /\ IsSeq(members) /\ \A i, j \in DOMAIN members : members[i].block = members[j].block => i = j
      /\ \A i \in DOMAIN members : members[i].block \in OwnBlocks
  <2>1. LET m == ArmMembers
        IN  IsSeq(m) /\ \A i, j \in DOMAIN m : m[i].block = m[j].block => i = j
    BY <1>4, ArmMembersAre
  <2>2. \A i \in DOMAIN ArmMembers : ArmMembers[i].block \in OwnBlocks BY <1>4, MembersOwn
  <2> QED BY <1>7, <2>1, <2>2
<1>9. PICK q \in Nat : DOMAIN right = 1 .. q /\ q = Len(right) BY <1>6 DEF IsSeq
<1>10. OwnBlocks \subseteq 1 .. q BY <1>9 DEF OwnBlocks
<1>11. MatedBlocks \subseteq 1 .. q
  <2>1. \A i \in DOMAIN pairs : pairs[i] \in PairSet BY <1>4 DEF Paired
  <2>2. \A i \in DOMAIN pairs : pairs[i].right \in 0 .. q BY <1>9, <2>1 DEF PairSet
  <2>3. ASSUME NEW i \in DOMAIN pairs, pairs[i].right # 0 PROVE pairs[i].right \in 1 .. q
    BY <2>2, <2>3
  <2> QED BY <2>3 DEF MatedBlocks
<1>12. ASSUME NEW b \in OwnBlocks PROVE b \notin MatedBlocks
  <2> SUFFICES ASSUME b \in MatedBlocks PROVE FALSE OBVIOUS
  <2>1. PICK i \in DOMAIN pairs : pairs[i].left # 0 /\ pairs[i].right = b BY DEF MatedBlocks
  <2>2. PICK j \in DOMAIN pairs : pairs[j] = [left |-> 0, right |-> b] BY DEF OwnBlocks, ToSet
  <2>3. b # 0 BY <1>10
  <2>4. i = j BY <1>4, <2>1, <2>2, <2>3 DEF Paired, PairsInjective, Sides
  <2> QED BY <2>1, <2>2, <2>4
<1> DEFINE taken == MatedBlocks \cup {members[i].block : i \in DOMAIN members}
<1>13. PeerPlaced(placed.groups, taken) /\ ArmsKnown(placed.groups, placed.armGroups)
  <2>1. PICK list, before : list = Mated /\ before = MatedBlocks OBVIOUS
  <2>2. ASSUME NEW i \in DOMAIN members
        PROVE  members[i].block \in Nat \ {0} /\ members[i].block \notin before
    <3>1. PICK b : b = members[i].block OBVIOUS
    <3>2. b \in OwnBlocks BY <1>8, <3>1
    <3>3. b \in 1 .. q BY <1>10, <3>2
    <3>4. b \in Nat \ {0} BY <3>3
    <3>5. b \notin before BY <1>12, <2>1, <3>2
    <3> QED BY <3>1, <3>4, <3>5
  <2>3. PeerPlaced(list, before) /\ ArmsKnown(list, armGroups) BY <1>5, <2>1
  <2>4. placed = PlaceArms([groups |-> list, armGroups |-> armGroups], members) BY <1>2, <1>7, <2>1
  <2>5. LET after == PlaceArms([groups |-> list, armGroups |-> armGroups], members)
        IN  /\ PeerPlaced(after.groups, before \cup {members[i].block : i \in DOMAIN members})
            /\ ArmsKnown(after.groups, after.armGroups)
    BY <1>4, <1>8, <2>2, <2>3, PlaceArmsKeep
  <2> QED BY <2>1, <2>4, <2>5
<1>14. taken \subseteq 1 .. q
  <2>1. \A i \in DOMAIN members : members[i].block \in 1 .. q BY <1>8, <1>10
  <2> QED BY <1>11, <2>1
<1> HIDE DEF taken
<1>15. PICK list : list = placed.groups OBVIOUS
<1>16. /\ list \in Seq([Targets -> Nat]) /\ list # <<>>
       /\ \A t \in Targets \ {peer} : IF t < peer THEN GroupedBy(list, functions[t], t)
                                       ELSE \A g \in DOMAIN list : list[g][t] = 0
       /\ \A g \in DOMAIN list : list[g][peer] \in taken \cup {0}
       /\ \A g, h \in DOMAIN list : list[g][peer] = list[h][peer] /\ list[g][peer] # 0 => g = h
       /\ list[1][peer] = 1
  BY <1>13, <1>15 DEF PeerPlaced
<1>17. GroupedBy(list, functions[peer], peer)
  <2>1. \A g \in DOMAIN list : list[g][peer] \in 0 .. q
    <3>1. \A x \in taken \cup {0} : x \in 0 .. q BY <1>14
    <3> QED BY <1>16, <3>1
  <2>2. \A b \in 1 .. q : \E g \in DOMAIN list : list[g][peer] = b
    <3> TAKE b \in 1 .. q
    <3>1. b \in {g[peer] : g \in ToSet(list)} BY <1>3, <1>9, <1>15
    <3>2. PICK e \in ToSet(list) : e[peer] = b BY <3>1
    <3>3. PICK g \in DOMAIN list : list[g] = e BY <3>2 DEF ToSet
    <3> QED BY <3>2, <3>3
  <2> QED BY <1>6, <1>9, <1>16, <2>1, <2>2 DEF GroupedBy
<1>18. groups' = list /\ Targets' = Targets BY <1>3, <1>15 DEF Targets
<1>19. ASSUME NEW t \in Targets
       PROVE  IF t <= peer THEN Grouped(t)' ELSE \A g \in DOMAIN groups' : groups'[g][t] = 0
  <2>0. functions' = functions BY <1>3
  <2>1. CASE t <= peer
    <3>1. GroupedBy(list, functions[t], t)
      <4>1. t = peer \/ t < peer BY <1>4, <2>1
      <4> QED BY <1>16, <1>17, <4>1
    <3>2. Grouped(t)' BY <1>18, <2>0, <3>1 DEF Grouped, GroupedBy
    <3> QED BY <2>1, <3>2
  <2>2. CASE ~(t <= peer)
    <3>1. ~(t < peer) /\ t # peer BY <1>4, <2>2
    <3>2. \A g \in DOMAIN list : list[g][t] = 0 BY <1>16, <3>1
    <3> QED BY <1>18, <2>2, <3>2
  <2> QED BY <2>1, <2>2
<1>20. ArmsGrouped'
  <2>1. ArmsKnown(list, armGroups') BY <1>3, <1>13, <1>15
  <2> QED BY <1>18, <2>1 DEF ArmsGrouped, ArmsKnown
<1>21. Grouping'
  <2>1. Finished' = peer BY <1>3 DEF Finished, Pairing
  <2>2. groups' \in Seq([Targets' -> Nat]) /\ groups' # <<>> BY <1>16, <1>18
  <2>3. \A t \in Targets' : IF t <= Finished' THEN Grouped(t)'
                            ELSE \A g \in DOMAIN groups' : groups'[g][t] = 0
    BY <1>18, <1>19, <2>1
  <2> QED BY <1>20, <2>2, <2>3 DEF Grouping
<1> QED BY <1>3, <1>21 DEF GroupsSound, Pairing, RoundTrip

-----------------------------------------------------------------------------
(* The steps of the pairing. *)

\* The groups are as they were, and so are the targets that are in them.
LEMMA GroupingKept ==
    ASSUME Grouping, UNCHANGED <<functions, groups, armGroups>>, Finished' = Finished,
           stage # "ordered"
    PROVE  Grouping'
<1>1. Targets' = Targets BY DEF Targets
<1>2. groups' = groups /\ functions' = functions /\ armGroups' = armGroups OBVIOUS
<1>3. \A t \in Targets : Grouped(t) => Grouped(t)' BY <1>2 DEF Grouped
<1>4. ArmsGrouped' BY <1>2 DEF Grouping, ArmsGrouped
<1>5. groups' \in Seq([Targets' -> Nat]) /\ groups' # <<>> BY <1>1, <1>2 DEF Grouping
<1>6. \A t \in Targets' : IF t <= Finished' THEN Grouped(t)'
                          ELSE \A g \in DOMAIN groups' : groups'[g][t] = 0
  BY <1>1, <1>2, <1>3 DEF Grouping
<1> QED BY <1>4, <1>5, <1>6 DEF Grouping

\* A step of the pairing leaves the groups alone.
LEMMA PairingKeepsGrouping ==
    ASSUME GroupsSound, PairPeer, stage' \in Pairing
    PROVE  Grouping' /\ stage \in Pairing /\ Recorded /\ UNCHANGED <<functions, peer, left, right>>
<1>1. stage \in {"shared", "arms"} /\ UNCHANGED <<functions, peer, groups, armGroups, left, right>>
  <2>1. PairingNext /\ UNCHANGED <<functions, peer, groups, armGroups>> BY DEF PairPeer
  <2>2. CASE MatchShared BY <2>1, <2>2 DEF MatchShared, Refuse, Pairing
  <2>3. CASE SharedMatched BY <2>1, <2>3 DEF SharedMatched, Refuse, Pairing
  <2>4. CASE WalkArm BY <2>1, <2>4 DEF WalkArm, Refuse, Pairing
  <2>5. CASE FinishPairing BY <2>1, <2>5 DEF FinishPairing, Refuse, Pairing
  <2> QED BY <2>1, <2>2, <2>3, <2>4, <2>5 DEF PairingNext
<1>2. stage \in Pairing /\ stage # "ordered" BY <1>1 DEF Pairing
<1>3. Grouping /\ Recorded BY <1>2 DEF GroupsSound
<1>4. Finished' = Finished BY <1>1, <1>2 DEF Finished
<1>5. Grouping' BY <1>1, <1>2, <1>3, <1>4, GroupingKept
<1> QED BY <1>1, <1>2, <1>3, <1>5

\* A case of the peer's switch alone gets an arm.
LEMMA NewArmsFound ==
    ASSUME NativeGraph(left), NativeGraph(right), NEW p \in Edges,
           left[p.left].kind = "switch", right[p.right].kind = "switch",
           NEW l \in ToSet(MergeOrder(left[p.left].labels, right[p.right].labels)),
           l \notin ToSet(left[p.left].labels),
           Ordered(left[p.left].labels, right[p.right].labels)
    PROVE  \E arm \in ToSet(NewArms(p, left[p.left], right[p.right])) :
              arm.side = "right" /\ arm.source = p.right /\ arm.label = l
<1> DEFINE a == left[p.left]
           b == right[p.right]
           F == ToSet(a.labels)
           G == ToSet(b.labels)
           D == (F \cup G) \ (F \cap G)
           labels == Only(MergeOrder(a.labels, b.labels), D)
           Side(m) == IF m \in F THEN "left" ELSE "right"
           Arm(m) == [side |-> Side(m), source |-> p[Side(m)], label |-> m, chain |-> <<>>]
           new == [k \in DOMAIN labels |-> Arm(labels[k])]
<1>0. p.left \in DOMAIN left /\ p.right \in DOMAIN right
  BY DEF Edges
<1>1. NewArms(p, a, b) = new
  BY DEF NewArms
<1>2. a.labels \in Seq(F \cup G) /\ b.labels \in Seq(F \cup G)
  <2>1. a.labels \in Seq(F) /\ b.labels \in Seq(G) BY <1>0 DEF NativeGraph, IsSeq
  <2> HIDE DEF F, G
  <2> QED BY <2>1
<1>3. l \in F \cup G BY DEF Ordered
<1>4. l \in D BY <1>3
<1>5. l \in ToSet(labels)
  <2> DEFINE o == MergeOrder(a.labels, b.labels)
             A == F \cup G
  <2>1. o \in Seq(A) /\ l \in ToSet(o) BY <1>2, MergeKeeps
  <2> HIDE DEF F, G, D, o, A
  <2>2. ToSet(Only(o, D)) = ToSet(o) \cap D BY <2>1, OnlyIs
  <2> QED BY <1>4, <2>1, <2>2 DEF o, A
<1>6. PICK k \in DOMAIN labels : labels[k] = l BY <1>5 DEF ToSet
<1>7. new[k] = Arm(l) /\ k \in DOMAIN new BY <1>6
<1>8. Arm(l).side = "right" /\ Arm(l).source = p.right /\ Arm(l).label = l
  <2>1. Arm(l) = [side |-> "right", source |-> p.right, label |-> l, chain |-> <<>>] OBVIOUS
  <2> HIDE DEF Arm
  <2> QED BY <2>1
<1> HIDE DEF new, Arm
<1>9. new[k] \in ToSet(new) BY <1>7 DEF ToSet
<1> QED BY <1>1, <1>7, <1>8, <1>9

\* Matching two blocks.
LEMMA MatchSharedKeeps ==
    ASSUME PairingSound, GroupsSound, PairPeer, MatchShared, stage' # "refused"
    PROVE  GroupsSound'
<1> DEFINE p == pairs[next]
           a == left[p.left]
           b == right[p.right]
           E == SharedEdges(a, b)
<1>0. /\ stage = "shared" /\ next \in DOMAIN pairs /\ Matching(a, b)
      /\ pairs' = PairAll(pairs, E) /\ next' = next + 1
      /\ IF a.kind = "switch"
         THEN /\ switches' = Append(switches, [left |-> p.left, right |-> p.right,
                                               labels |-> MergeOrder(a.labels, b.labels)])
              /\ arms' = arms \o NewArms(p, a, b)
         ELSE UNCHANGED <<switches, arms>>
      /\ UNCHANGED <<left, right, stage>>
  BY DEF MatchShared, Refuse
<1>1. stage' = "shared" /\ stage' \in Pairing BY <1>0 DEF Pairing
<1>2. Grouping' /\ Recorded /\ UNCHANGED <<functions, peer>> BY <1>1, PairingKeepsGrouping
<1>3. Walking /\ Sharing BY <1>0 DEF PairingSound
<1>4. /\ NativeGraph(left) /\ NativeGraph(right) /\ pairs \in Seq(PairSet) /\ PairsInjective(pairs)
      /\ IsSeq(switches) /\ IsSeq(arms)
  BY <1>3 DEF Walking
<1>5. p \in ToSet(pairs) /\ p \in PairSet /\ Both(p) /\ p \in Edges
  <2>1. p \in ToSet(pairs) /\ p \in PairSet BY <1>0, <1>4 DEF ToSet
  <2>2. Both(p) BY <1>3, <2>1 DEF Sharing
  <2> QED BY <1>4, <2>1, <2>2, PairIn
<1>6. p.left \in DOMAIN left /\ p.right \in DOMAIN right BY <1>5 DEF Edges
<1>7. a.kind = b.kind /\ (a.kind = "switch" => Ordered(a.labels, b.labels)) BY <1>0 DEF Matching
<1>8. E \in Seq(PairSet)
  <2>1. E \in Seq(Edges) BY <1>4, <1>6, <1>7, SharedEdgesAre
  <2>2. Edges \subseteq PairSet BY <1>4, EdgeIn
  <2> HIDE DEF E
  <2> QED BY <2>1, <2>2
<1> HIDE DEF p, E
<1>9. pairs' \in Seq(PairSet) /\ Extends(pairs, pairs', ToSet(E))
  BY <1>0, <1>4, <1>8, PairAllKeeps
<1>10. Len(pairs) <= Len(pairs') /\ \A k \in 1 .. Len(pairs) : pairs'[k] = pairs[k]
  BY <1>9 DEF Extends
<1>11. /\ Len(pairs) \in Nat /\ Len(pairs') \in Nat /\ DOMAIN pairs = 1 .. Len(pairs)
       /\ DOMAIN pairs' = 1 .. Len(pairs') /\ next \in 1 .. Len(pairs)
  BY <1>0, <1>4, <1>9
<1>12. ToSet(pairs) \subseteq ToSet(pairs')
  <2>1. \A k \in 1 .. Len(pairs) : k \in DOMAIN pairs' BY <1>10, <1>11
  <2> QED BY <1>10, <1>11, <2>1 DEF ToSet
<1>13. ASSUME NEW s \in ToSet(switches) PROVE \E k \in 1 .. next - 1 : pairs[k].right = s.right
  BY <1>0 DEF GroupsSound
<1>14. ASSUME NEW s \in ToSet(switches) PROVE s.right # p.right
  <2>1. PICK k \in 1 .. next - 1 : pairs[k].right = s.right BY <1>13
  <2>2. k \in DOMAIN pairs /\ k # next BY <1>11
  <2>3. p.right # 0 BY <1>5 DEF Both
  <2> QED BY <1>0, <1>4, <2>1, <2>2, <2>3 DEF p, PairsInjective, Sides
<1>15. ASSUME NEW s \in ToSet(switches) PROVE ArmsFound(s)'
  <2>1. ToSet(arms) \subseteq ToSet(arms')
    <3>1. CASE a.kind # "switch" BY <1>0, <3>1
    <3>2. CASE a.kind = "switch"
      <4> DEFINE new == NewArms(p, a, b)
      <4>1. IsSeq(new) BY <1>4, <1>5, <1>7, <3>2, NewArmsAre
      <4>2. arms' = arms \o new BY <1>0, <3>2
      <4> HIDE DEF new
      <4> QED BY <1>4, <4>1, <4>2, ConcatSet
    <3> QED BY <3>1, <3>2
  <2>2. left' = left BY <1>0
  <2>3. ArmsFound(s) BY <1>2 DEF Recorded
  <2> QED BY <2>1, <2>2, <2>3 DEF ArmsFound, ArmOf
<1>16. CASE a.kind # "switch"
  <2>1. switches' = switches BY <1>0, <1>16
  <2>2. ASSUME NEW s \in ToSet(switches') PROVE \E k \in 1 .. next' - 1 : pairs'[k].right = s.right
    <3>1. PICK k \in 1 .. next - 1 : pairs[k].right = s.right BY <1>13, <2>1
    <3>2. k \in 1 .. Len(pairs) /\ k \in 1 .. next' - 1 BY <1>0, <1>11
    <3> QED BY <1>10, <3>1, <3>2
  <2>3. Recorded'
    <3>1. SwitchesOnce' BY <1>2, <2>1 DEF Recorded, SwitchesOnce
    <3>2. \A s \in ToSet(switches') : ArmsFound(s)' BY <1>15, <2>1
    <3> QED BY <1>0, <1>2, <1>12, <3>1, <3>2 DEF Recorded
  <2> QED BY <1>1, <1>2, <2>2, <2>3 DEF GroupsSound, Pairing, RoundTrip
<1>17. CASE a.kind = "switch"
  <2>0. PICK n : n = [left |-> p.left, right |-> p.right, labels |-> MergeOrder(a.labels, b.labels)]
    OBVIOUS
  <2>1. switches' = Append(switches, n) BY <1>0, <1>17, <2>0
  <2>2. n.left = p.left /\ n.right = p.right /\ n.labels = MergeOrder(a.labels, b.labels)
    BY <2>0
  <2>3. ToSet(switches') = ToSet(switches) \cup {n} BY <1>4, <2>1, AppendSet
  <2>4. PICK m \in Nat : m = Len(switches) /\ DOMAIN switches = 1 .. m BY <1>4 DEF IsSeq
  <2>5. /\ DOMAIN switches' = 1 .. m + 1 /\ switches'[m + 1] = n
        /\ \A i \in 1 .. m : switches'[i] = switches[i]
    <3>1. switches \in Seq(ToSet(switches)) BY <1>4 DEF IsSeq
    <3> QED BY <2>1, <2>4, <3>1
  <2>6. SwitchesOnce'
    <3>1. \A i \in 1 .. m : switches[i].right # n.right BY <1>14, <2>2, <2>4 DEF ToSet
    <3>2. SwitchesOnce BY <1>2 DEF Recorded
    <3>3. \A i \in 1 .. m + 1 : i \in 1 .. m \/ i = m + 1 OBVIOUS
    <3>4. ASSUME NEW i \in 1 .. m + 1, NEW j \in 1 .. m + 1, switches'[i].right = switches'[j].right
          PROVE  i = j
      <4>1. CASE i \in 1 .. m /\ j \in 1 .. m BY <2>4, <2>5, <3>2, <3>4, <4>1 DEF SwitchesOnce
      <4>2. CASE i \in 1 .. m /\ j = m + 1 BY <2>5, <3>1, <3>4, <4>2
      <4>3. CASE i = m + 1 /\ j \in 1 .. m BY <2>5, <3>1, <3>4, <4>3
      <4> QED BY <3>3, <4>1, <4>2, <4>3
    <3> QED BY <2>5, <3>4 DEF SwitchesOnce
  <2>7. ArmsFound(n)'
    <3> DEFINE new == NewArms(p, a, b)
    <3>1. IsSeq(new) BY <1>4, <1>5, <1>7, <1>17, NewArmsAre
    <3>2. arms' = arms \o new BY <1>0, <1>17
    <3>3. ASSUME NEW l \in ToSet(n.labels), l \notin ToSet(a.labels)
          PROVE  \E arm \in ToSet(new) : arm.side = "right" /\ arm.source = p.right /\ arm.label = l
      <4>1. l \in ToSet(MergeOrder(a.labels, b.labels)) BY <2>2, <3>3
      <4>2. a.kind = "switch" /\ b.kind = "switch" /\ Ordered(a.labels, b.labels) BY <1>7, <1>17
      <4>3. p \in Edges BY <1>5
      <4> QED BY ONLY <1>4, <3>3, <4>1, <4>2, <4>3, NewArmsFound
    <3> HIDE DEF new
    <3>4. ToSet(new) \subseteq ToSet(arms') BY <1>4, <3>1, <3>2, ConcatSet
    <3>5. left'[n.left] = a BY <1>0, <2>2
    <3> HIDE DEF a
    <3>6. ASSUME NEW l \in ToSet(n.labels), l \notin ToSet(left'[n.left].labels)
          PROVE  \E arm \in ToSet(arms') : arm.side = "right" /\ arm.source = n.right /\ arm.label = l
      <4>1. l \notin ToSet(a.labels) BY <3>5, <3>6
      <4>2. PICK arm \in ToSet(new) : arm.side = "right" /\ arm.source = p.right /\ arm.label = l
        BY <3>3, <3>6, <4>1
      <4> QED BY <2>2, <3>4, <4>2
    <3> QED BY <3>6 DEF ArmsFound, ArmOf
  <2>8. ASSUME NEW s \in ToSet(switches') PROVE \E k \in 1 .. next' - 1 : pairs'[k].right = s.right
    <3>1. CASE s \in ToSet(switches)
      <4>1. PICK k \in 1 .. next - 1 : pairs[k].right = s.right BY <1>13, <3>1
      <4>2. k \in 1 .. Len(pairs) /\ k \in 1 .. next' - 1 BY <1>0, <1>11
      <4> QED BY <1>10, <4>1, <4>2
    <3>2. CASE s = n
      <4>1. next \in 1 .. next' - 1 BY <1>0, <1>11
      <4>2. pairs'[next] = p BY <1>10, <1>11 DEF p
      <4> QED BY <2>2, <3>2, <4>1, <4>2
    <3> QED BY <2>3, <3>1, <3>2
  <2>9. Recorded'
    <3>1. \A s \in ToSet(switches') : ArmsFound(s)' BY <1>15, <2>3, <2>7
    <3> QED BY <1>0, <1>2, <1>12, <2>6, <3>1 DEF Recorded
  <2> QED BY <1>1, <1>2, <2>8, <2>9 DEF GroupsSound, Pairing, RoundTrip
<1> QED BY <1>16, <1>17

\* No new pair and no new step of an arm loses a recorded switch or its arms.
LEMMA RecordedKept ==
    ASSUME Recorded, UNCHANGED <<functions, peer, left, right, switches>>,
           ToSet(pairs) \subseteq ToSet(pairs'),
           \A arm \in ToSet(arms) : \E new \in ToSet(arms') :
              new.side = arm.side /\ new.source = arm.source /\ new.label = arm.label
    PROVE  Recorded'
<1>1. SwitchesOnce' BY DEF Recorded, SwitchesOnce
<1>2. ASSUME NEW s \in ToSet(switches') PROVE ArmsFound(s)'
  <2>1. ArmsFound(s) BY <1>2 DEF Recorded
  <2>2. ASSUME NEW l \in ToSet(s.labels), l \notin ToSet(left'[s.left].labels)
        PROVE  \E new \in ToSet(arms') : new.side = "right" /\ new.source = s.right /\ new.label = l
    <3>1. l \notin ToSet(left[s.left].labels) BY <2>2
    <3>2. PICK arm \in ToSet(arms) : arm.side = "right" /\ arm.source = s.right /\ arm.label = l
      BY <2>1, <2>2, <3>1 DEF ArmsFound, ArmOf
    <3>3. PICK new \in ToSet(arms') :
             new.side = arm.side /\ new.source = arm.source /\ new.label = arm.label
      OBVIOUS
    <3> QED BY <3>2, <3>3
  <2> QED BY <2>2 DEF ArmsFound, ArmOf
<1> QED BY <1>1, <1>2 DEF Recorded

\* The walk of the arms begins.
LEMMA SharedMatchedKeepsGroups ==
    ASSUME PairingSound, GroupsSound, PairPeer, SharedMatched, stage' # "refused"
    PROVE  GroupsSound'
<1>1. /\ stage = "shared" /\ stage' = "arms" /\ next' = 1
      /\ UNCHANGED <<left, right, pairs, switches, arms>>
  BY DEF SharedMatched, Refuse
<1>2. Grouping' /\ Recorded /\ UNCHANGED <<functions, peer>>
  BY <1>1, PairingKeepsGrouping DEF Pairing
<1>3. Recorded' BY <1>1, <1>2, RecordedKept
<1>4. ArmsApart(next - 1)'
  <2>1. arms \in Seq(ToSet(arms)) BY <1>1 DEF PairingSound, Walking, IsSeq
  <2>2. \A k \in DOMAIN arms : ~ (k <= 0) BY <2>1
  <2>3. next' - 1 = 0 BY <1>1
  <2> QED BY <1>1, <2>2, <2>3 DEF ArmsApart
<1> QED BY <1>1, <1>2, <1>3, <1>4 DEF GroupsSound, RoundTrip

\* An arm goes on through a block of its own.
LEMMA ArmGoesOnKeepsGroups ==
    ASSUME PairingSound, GroupsSound, PairPeer, WalkArm, stage' # "refused",
           PairOf(pairs, arms[next].side, Reached(arms[next])) = 0
    PROVE  GroupsSound'
<1>0. PICK arm : arm = arms[next] OBVIOUS
<1>00. PICK r : r = Reached(arms[next]) OBVIOUS
<1>1. /\ stage = "arms" /\ next \in DOMAIN arms
      /\ arms' = [arms EXCEPT ![next].chain = Append(@, r)]
      /\ UNCHANGED <<left, right, stage, pairs, next, switches>>
  BY <1>0, <1>00 DEF WalkArm, Refuse
<1>2. Grouping' /\ Recorded /\ UNCHANGED <<functions, peer>>
  BY <1>1, PairingKeepsGrouping DEF Pairing
<1>3. PICK new : new = [arm EXCEPT !.chain = Append(arm.chain, r)] OBVIOUS
<1>4. arms' = [arms EXCEPT ![next] = new]
  BY <1>0, <1>1, <1>3
<1>5. /\ arms \in Seq(ToSet(arms)) /\ arm \in ToSet(arms) /\ next \in Nat
      /\ DOMAIN arms = 1 .. Len(arms)
  BY <1>0, <1>1 DEF PairingSound, Walking, IsSeq, ToSet
<1>6. new.side = arm.side /\ new.source = arm.source /\ new.label = arm.label
  <2>1. arm = [side |-> arm.side, source |-> arm.source, label |-> arm.label, chain |-> arm.chain]
    BY <1>1, <1>5 DEF PairingSound, Walking, ArmSound
  <2> QED BY <1>3, <2>1
<1>7. /\ DOMAIN arms' = DOMAIN arms /\ arms'[next] = new
      /\ \A k \in DOMAIN arms : k # next => arms'[k] = arms[k]
  BY <1>1, <1>4, <1>5
<1>8. Recorded'
  <2>1. ASSUME NEW x \in ToSet(arms)
        PROVE  \E y \in ToSet(arms') : y.side = x.side /\ y.source = x.source /\ y.label = x.label
    <3>1. PICK k \in DOMAIN arms : arms[k] = x BY DEF ToSet
    <3>2. arms'[k] \in ToSet(arms') BY <1>7 DEF ToSet
    <3>3. CASE k = next BY <1>0, <1>6, <1>7, <3>1, <3>2, <3>3
    <3>4. CASE k # next BY <1>7, <3>1, <3>2, <3>4
    <3> QED BY <3>3, <3>4
  <2> QED BY <1>1, <1>2, <2>1, RecordedKept
<1>9. ArmsApart(next - 1)'
  <2>1. ArmsApart(next - 1) BY <1>1 DEF GroupsSound
  <2>2. \A k \in DOMAIN arms : k <= next - 1 => arms'[k] = arms[k] BY <1>5, <1>7
  <2>3. DOMAIN arms' = DOMAIN arms BY <1>7
  <2>4. pairs' = pairs /\ right' = right /\ next' = next BY <1>1

  <2> QED BY <2>1, <2>2, <2>3, <2>4 DEF ArmsApart, OwnChain
<1> QED BY <1>1, <1>2, <1>8, <1>9 DEF GroupsSound, RoundTrip

\* A finished arm stays finished, and no arm that has only blocks without a pair
\* shares one with it.
LEMMA FinishedArms ==
    ASSUME NEW n \in Nat, ArmsApart(n), IsSeq(arms), n + 1 \in DOMAIN arms,
           ChainSound(arms[n + 1]), arms[n + 1].side = "right",
           NEW k \in DOMAIN arms, k <= n, arms[k].side = "right"
    PROVE  ToSet(arms[k].chain) \cap ToSet(arms[n + 1].chain) = {}
<1>1. OwnChain(arms[k]) BY DEF ArmsApart
<1> SUFFICES ASSUME NEW b \in ToSet(arms[k].chain), b \in ToSet(arms[n + 1].chain) PROVE FALSE
  OBVIOUS
<1>2. [left |-> 0, right |-> b] \in ToSet(pairs) BY <1>1 DEF OwnChain
<1>3. \A p \in ToSet(pairs) : p.right # b BY DEF ChainSound
<1> QED BY <1>2, <1>3

\* An arm is back in shared code.
LEMMA ArmRejoinsKeepsGroups ==
    ASSUME PairingSound, GroupsSound, PairPeer, WalkArm, stage' # "refused",
           PairOf(pairs, arms[next].side, Reached(arms[next])) # 0
    PROVE  GroupsSound'
<1>0. PICK arm : arm = arms[next] OBVIOUS
<1>00. PICK new : new = ChainPairs(arm) OBVIOUS
<1>1. /\ stage = "arms" /\ next \in DOMAIN arms
      /\ pairs' = pairs \o new /\ next' = next + 1
      /\ UNCHANGED <<left, right, stage, switches, arms>>
  BY <1>0, <1>00 DEF WalkArm, Refuse, ChainPairs
<1>2. Grouping' /\ Recorded /\ UNCHANGED <<functions, peer>>
  BY <1>1, PairingKeepsGrouping DEF Pairing
<1>3. Walking /\ Branching BY <1>1 DEF PairingSound
<1>4. /\ IsSeq(arms) /\ arm \in ToSet(arms) /\ Len(arms) \in Nat /\ DOMAIN arms = 1 .. Len(arms)
      /\ next \in Nat /\ next - 1 \in Nat
  <2>1. arms \in Seq(ToSet(arms)) /\ IsSeq(arms) BY <1>3 DEF Walking, IsSeq
  <2> QED BY <1>0, <1>1, <2>1 DEF ToSet
<1>5. ArmSound(arm) /\ ChainSound(arm)
  BY <1>0, <1>1, <1>3, <1>4 DEF Walking, Branching
<1>6. new \in Seq(PairSet)
  BY <1>00, <1>3, <1>5, ChainPairsAre DEF Walking
<1>7. ToSet(pairs') = ToSet(pairs) \cup ToSet(new)
  BY <1>1, <1>3, <1>6, ConcatToSet DEF Walking
<1>8. Recorded'
  <2>1. \A x \in ToSet(arms) : \E y \in ToSet(arms') :
           y.side = x.side /\ y.source = x.source /\ y.label = x.label
    BY <1>1
  <2> QED BY <1>1, <1>2, <1>7, <2>1, RecordedKept
<1>9. ArmsApart(next - 1) BY <1>1 DEF GroupsSound
<1>10. ASSUME NEW k \in DOMAIN arms, k <= next, arms[k].side = "right" PROVE OwnChain(arms[k])'
  <2>1. CASE k <= next - 1
    <3>1. OwnChain(arms[k]) BY <1>9, <1>10, <2>1 DEF ArmsApart
    <3> QED BY <1>1, <1>7, <3>1 DEF OwnChain
  <2>2. CASE k = next
    <3>1. arm.side = "right" /\ arms'[k] = arm BY <1>0, <1>1, <1>10, <2>2
    <3>2. arm.chain \in Seq(DOMAIN right) /\ IsInjective(arm.chain)
      BY <1>5, <3>1 DEF ChainSound, Function
    <3>3. ASSUME NEW b \in ToSet(arm.chain) PROVE [left |-> 0, right |-> b] \in ToSet(pairs')
      <4>1. PICK i \in DOMAIN arm.chain : arm.chain[i] = b BY DEF ToSet
      <4>2. i \in DOMAIN new /\ new[i] = [left |-> 0, right |-> b]
        BY <1>00, <3>1, <4>1 DEF ChainPairs
      <4>3. new[i] \in ToSet(new) BY <4>2 DEF ToSet
      <4> QED BY <1>7, <4>2, <4>3
    <3> QED BY <1>1, <3>1, <3>2, <3>3 DEF OwnChain
  <2> QED BY <1>4, <1>10, <2>1, <2>2
<1>11. ASSUME NEW j \in DOMAIN arms, NEW k \in DOMAIN arms, j <= next, k <= next,
              arms[j].side = "right", arms[k].side = "right",
              ToSet(arms[j].chain) \cap ToSet(arms[k].chain) # {}
       PROVE  j = k
  <2>0. PICK n \in Nat : n = next - 1 BY <1>4
  <2>1. CASE j <= next - 1 /\ k <= next - 1 BY <1>9, <1>11, <2>1 DEF ArmsApart
  <2>2. n + 1 = next /\ ArmsApart(n) BY <1>4, <1>9, <2>0
  <2>3. CASE j <= next - 1 /\ k = next
    <3>1. ChainSound(arms[n + 1]) /\ arms[n + 1].side = "right" /\ n + 1 \in DOMAIN arms
      BY <1>0, <1>1, <1>5, <1>11, <2>2, <2>3
    <3>2. ToSet(arms[j].chain) \cap ToSet(arms[n + 1].chain) = {}
      BY <1>4, <1>11, <2>0, <2>2, <2>3, <3>1, FinishedArms
    <3> QED BY <1>11, <2>2, <2>3, <3>2
  <2>4. CASE j = next /\ k <= next - 1
    <3>1. ChainSound(arms[n + 1]) /\ arms[n + 1].side = "right" /\ n + 1 \in DOMAIN arms
      BY <1>0, <1>1, <1>5, <1>11, <2>2, <2>4
    <3>2. ToSet(arms[k].chain) \cap ToSet(arms[n + 1].chain) = {}
      BY <1>4, <1>11, <2>0, <2>2, <2>4, <3>1, FinishedArms
    <3> QED BY <1>11, <2>2, <2>4, <3>2
  <2> QED BY <1>4, <1>11, <2>1, <2>3, <2>4
<1>12. ArmsApart(next - 1)'
  <2>1. next' - 1 = next /\ arms' = arms BY <1>1, <1>4
  <2> QED BY <1>10, <1>11, <2>1 DEF ArmsApart
<1> QED BY <1>1, <1>2, <1>8, <1>12 DEF GroupsSound, RoundTrip

\* The pairs in their final order: those of blocks, each once.
LEMMA FinishedPairs ==
    ASSUME Walking, Branching, FinishPairing, stage' # "refused"
    PROVE  /\ PairsInjective(pairs')
           /\ \A p \in ToSet(pairs) : p.left # 0 \/ p.right # 0 => p \in ToSet(pairs')
<1>1. /\ pairs' \in Seq(PairSet) /\ ToSet(pairs') \subseteq ToSet(pairs)
      /\ \A b \in DOMAIN left : \E k \in DOMAIN pairs' : pairs'[k]["left"] = b
      /\ \A b \in DOMAIN right : \E k \in DOMAIN pairs' : pairs'[k]["right"] = b
  BY FinishOrders
<1>2. NativeGraph(left) /\ NativeGraph(right) /\ pairs \in Seq(PairSet) /\ PairsInjective(pairs)
  BY DEF Walking
<1>3. ASSUME NEW f, NEW side \in Sides, IsSeq(f),
             Only([k \in DOMAIN pairs' |-> pairs'[k][side]], DOMAIN f) = [b \in DOMAIN f |-> b],
             \A p \in PairSet : p[side] # 0 => p[side] \in DOMAIN f,
             NEW i \in DOMAIN pairs', NEW j \in DOMAIN pairs',
             pairs'[i][side] = pairs'[j][side], pairs'[i][side] # 0
      PROVE  i = j
  <2> DEFINE A == {p[side] : p \in PairSet}
             c == [k \in DOMAIN pairs' |-> pairs'[k][side]]
             T == DOMAIN f
             id == [b \in T |-> b]
  <2>1. \A k \in DOMAIN pairs' : pairs'[k] \in PairSet BY <1>1
  <2>2. c \in Seq(A)
    <3>1. DOMAIN pairs' = 1 .. Len(pairs') /\ Len(pairs') \in Nat BY <1>1
    <3>2. \A k \in DOMAIN pairs' : c[k] \in A BY <2>1
    <3> HIDE DEF A
    <3> QED BY <3>1, <3>2
  <2>3. c[i] = c[j] /\ c[i] \in T /\ i \in DOMAIN c /\ j \in DOMAIN c
    <3>1. pairs'[i] \in PairSet BY <2>1
    <3> QED BY <1>3, <3>1
  <2>4. IsInjective(id) BY DEF IsInjective
  <2>5. Only(c, T) = id BY <1>3
  <2> HIDE DEF A, c, T, id
  <2> QED BY <2>2, <2>3, <2>4, <2>5, OnlyOnce
<1>4. \A p \in PairSet : (p["left"] # 0 => p["left"] \in DOMAIN left)
                         /\ (p["right"] # 0 => p["right"] \in DOMAIN right)
  BY <1>2, PairIn
<1>5. "left" \in Sides /\ "right" \in Sides /\ IsSeq(left) /\ IsSeq(right)
  BY <1>2 DEF Sides, NativeGraph
<1>6. PairsInjective(pairs')
  <2> SUFFICES ASSUME NEW i \in DOMAIN pairs', NEW j \in DOMAIN pairs', NEW side \in Sides,
                      pairs'[i][side] = pairs'[j][side], pairs'[i][side] # 0
               PROVE  i = j
    BY DEF PairsInjective
  <2>1. CASE side = "left"
    <3>1. Only([k \in DOMAIN pairs' |-> pairs'[k]["left"]], DOMAIN left) = [b \in DOMAIN left |-> b]
      BY FinishOrders
    <3>2. pairs'[i]["left"] = pairs'[j]["left"] /\ pairs'[i]["left"] # 0 BY <2>1
    <3> QED BY ONLY <1>3, <1>4, <1>5, <3>1, <3>2, i \in DOMAIN pairs', j \in DOMAIN pairs'
  <2>2. CASE side = "right"
    <3>1. Only([k \in DOMAIN pairs' |-> pairs'[k]["right"]], DOMAIN right) = [b \in DOMAIN right |-> b]
      BY FinishOrders
    <3>2. pairs'[i]["right"] = pairs'[j]["right"] /\ pairs'[i]["right"] # 0 BY <2>2
    <3> QED BY ONLY <1>3, <1>4, <1>5, <3>1, <3>2, i \in DOMAIN pairs', j \in DOMAIN pairs'
  <2> QED BY <2>1, <2>2 DEF Sides
<1>7. ASSUME NEW p \in ToSet(pairs), NEW side \in Sides, p[side] # 0,
             NEW k \in DOMAIN pairs', pairs'[k][side] = p[side]
      PROVE  p \in ToSet(pairs')
  <2>1. pairs'[k] \in ToSet(pairs') BY DEF ToSet
  <2>2. PICK i \in DOMAIN pairs : pairs[i] = pairs'[k] BY <1>1, <2>1 DEF ToSet
  <2>3. PICK j \in DOMAIN pairs : pairs[j] = p BY DEF ToSet
  <2>4. i = j BY <1>2, <1>7, <2>2, <2>3 DEF PairsInjective
  <2> QED BY <2>1, <2>2, <2>3, <2>4
<1>8. ASSUME NEW p \in ToSet(pairs), p.left # 0 \/ p.right # 0 PROVE p \in ToSet(pairs')
  <2>1. p \in PairSet BY <1>2 DEF ToSet
  <2>2. CASE p["left"] # 0
    <3>1. PICK k \in DOMAIN pairs' : pairs'[k]["left"] = p["left"] BY <1>1, <1>4, <2>1, <2>2
    <3> QED BY <1>5, <1>7, <2>2, <3>1
  <2>3. CASE p["right"] # 0
    <3>1. PICK k \in DOMAIN pairs' : pairs'[k]["right"] = p["right"] BY <1>1, <1>4, <2>1, <2>3
    <3> QED BY <1>5, <1>7, <2>3, <3>1
  <2> QED BY <1>8, <2>2, <2>3
<1> QED BY <1>6, <1>8

\* The switches in the order of their blocks: each once.
LEMMA FinishedSwitches ==
    ASSUME Walking, Branching, FinishPairing, stage' # "refused", SwitchesOnce
    PROVE  SwitchesOnce'
<1> DEFINE A == ToSet(switches)
           At(k) == {s \in A : s.left = pairs'[k].left}
           q == [k \in DOMAIN pairs' |-> Only(switches, At(k))]
<1>1. switches' = FlattenSeq(q) /\ ToSet(switches') = A /\ pairs' \in Seq(PairSet)
  BY FinishOrders
<1>2. switches \in Seq(A) /\ \A s \in A : SwitchSound(s)
  BY DEF Walking, IsSeq
<1>3. IsInjective(switches)
  BY DEF SwitchesOnce, IsInjective
<1>4. /\ DOMAIN q = DOMAIN pairs' /\ q = [k \in DOMAIN pairs' |-> q[k]]
      /\ \A k \in DOMAIN pairs' : q[k] = Only(switches, At(k))
  OBVIOUS
<1>5. \A k \in DOMAIN pairs' : \A s \in At(k) : s.left = pairs'[k].left
  OBVIOUS
<1>6. \A s \in A : s.left # 0
  <2>1. NativeGraph(left) BY DEF Walking
  <2>2. 0 \notin DOMAIN left BY <2>1 DEF NativeGraph, IsSeq
  <2> QED BY <1>2, <2>2 DEF SwitchSound
<1>7. \A k \in DOMAIN pairs' : At(k) \subseteq A OBVIOUS
<1>8. DOMAIN pairs' = 1 .. Len(pairs') /\ Len(pairs') \in Nat BY <1>1
<1> HIDE DEF A, At, q
<1>9. ASSUME NEW k \in DOMAIN pairs'
      PROVE  q[k] \in Seq(A) /\ IsInjective(q[k]) /\ ToSet(q[k]) \subseteq At(k)
  <2>1. Only(switches, At(k)) \in Seq(A) /\ ToSet(Only(switches, At(k))) \subseteq At(k)
    BY <1>2, OnlyIs
  <2>2. IsInjective(Only(switches, At(k))) BY <1>2, <1>3, OnlyInjective
  <2> QED BY <1>4, <2>1, <2>2
<1>10. q \in Seq(Seq(A))
  BY <1>4, <1>8, <1>9
<1>11. PartsDistinct(q)
  <2>1. PairsInjective(pairs') BY FinishedPairs
  <2>2. ASSUME NEW i \in DOMAIN pairs', NEW j \in DOMAIN pairs', NEW x, x \in ToSet(q[i]), x \in ToSet(q[j])
        PROVE  i = j
    <3>1. x.left = pairs'[i].left /\ x.left = pairs'[j].left /\ x.left # 0
      BY <1>5, <1>6, <1>7, <1>9, <2>2
    <3> QED BY <2>1, <3>1 DEF PairsInjective, Sides
  <2> QED BY <1>4, <1>9, <2>2 DEF PartsDistinct
<1>12. IsInjective(switches')
  BY <1>1, <1>10, <1>11, FlattenInjective
<1>13. ASSUME NEW i \in DOMAIN switches', NEW j \in DOMAIN switches',
              switches'[i].right = switches'[j].right
       PROVE  i = j
  <2>1. switches'[i] \in A /\ switches'[j] \in A BY <1>1 DEF ToSet
  <2>2. PICK k \in DOMAIN switches : switches[k] = switches'[i] BY <2>1 DEF A, ToSet
  <2>3. PICK l \in DOMAIN switches : switches[l] = switches'[j] BY <2>1 DEF A, ToSet
  <2>4. k = l BY <1>13, <2>2, <2>3 DEF SwitchesOnce
  <2> QED BY <1>12, <2>2, <2>3, <2>4 DEF IsInjective
<1> QED BY <1>13 DEF SwitchesOnce

\* A label of the second switch alone is once in the merged order.
LEMMA LabelsOnce ==
    ASSUME NativeGraph(left), NativeGraph(right), NEW s, SwitchSound(s)
    PROVE  /\ IsSeq(s.labels)
           /\ \A i, j \in DOMAIN s.labels :
                 s.labels[i] = s.labels[j] /\ s.labels[i] \notin ToSet(left[s.left].labels) => i = j
<1> DEFINE x == left[s.left].labels
           y == right[s.right].labels
           A == ToSet(x) \cup ToSet(y)
           m == s.labels
<1>1. /\ IsSeq(x) /\ IsInjective(x) /\ IsSeq(y) /\ IsInjective(y)
      /\ Ordered(x, y) /\ m = MergeOrder(x, y)
  BY DEF SwitchSound, NativeGraph
<1> HIDE DEF x, y, m
<1>2. x \in Seq(A) /\ y \in Seq(A)
  <2>1. x \in Seq(ToSet(x)) /\ y \in Seq(ToSet(y)) BY <1>1 DEF IsSeq
  <2> QED BY <2>1
<1>3. ToSet(m) = A BY <1>1 DEF Ordered
<1> HIDE DEF A
<1>4. MergeOrder(x, y) \in Seq(A) /\ Only(MergeOrder(x, y), ToSet(y)) = y
  BY <1>1, <1>2, MergeKeeps
<1>5. m \in Seq(A) /\ Only(m, ToSet(y)) = y BY <1>1, <1>4
<1>6. ASSUME NEW i \in DOMAIN m, NEW j \in DOMAIN m, m[i] = m[j], m[i] \notin ToSet(x)
      PROVE  i = j
  <2>1. m[i] \in ToSet(m) BY DEF ToSet
  <2>2. m[i] \in ToSet(y) BY <1>3, <1>6, <2>1 DEF A
  <2>3. IsInjective(Only(m, ToSet(y))) BY <1>1, <1>5
  <2> QED BY <1>5, <1>6, <2>2, <2>3, OnlyOnce
<1>7. IsSeq(m) BY <1>3, <1>5 DEF IsSeq
<1> QED BY <1>6, <1>7 DEF x, m

\* The end of the pairing.
LEMMA FinishKeepsGroups ==
    ASSUME PairingSound, GroupsSound, PairPeer, FinishPairing, stage' # "refused"
    PROVE  GroupsSound'
<1>1. stage = "arms" /\ next > Len(arms) BY DEF FinishPairing
<1>2. Walking /\ Branching BY <1>1 DEF PairingSound
<1>3. /\ stage' = "paired" /\ UNCHANGED <<left, right, arms>>
      /\ pairs' \in Seq(PairSet) /\ ToSet(pairs') \subseteq ToSet(pairs)
      /\ \A b \in DOMAIN left : \E k \in DOMAIN pairs' : pairs'[k]["left"] = b
      /\ IsSeq(switches') /\ ToSet(switches') = ToSet(switches)
  BY <1>2, FinishOrders
<1>4. Grouping' /\ Recorded /\ UNCHANGED <<functions, peer>>
  BY <1>3, PairingKeepsGrouping DEF Pairing
<1>5. PairsInjective(pairs') /\ \A p \in ToSet(pairs) : p.left # 0 \/ p.right # 0 => p \in ToSet(pairs')
  BY <1>2, FinishedPairs
<1>6. Recorded'
  <2>1. SwitchesOnce' BY <1>2, <1>4, FinishedSwitches DEF Recorded
  <2>2. \A s \in ToSet(switches') : ArmsFound(s)' BY <1>3, <1>4 DEF Recorded, ArmsFound, ArmOf
  <2>3. PICK e : e = [left |-> 1, right |-> 1] OBVIOUS
  <2>4. e.left = 1 /\ e \in ToSet(pairs) BY <1>4, <2>3 DEF Recorded
  <2>5. e \in ToSet(pairs') BY <1>5, <2>4
  <2> QED BY <1>3, <1>4, <2>1, <2>2, <2>3, <2>5 DEF Recorded
<1>7. ArmsApart(Len(arms))'
  <2>1. ArmsApart(next - 1) BY <1>1 DEF GroupsSound
  <2>2. next \in 1 .. Len(arms) + 1 /\ Len(arms) \in Nat BY <1>2 DEF Branching, Walking, IsSeq
  <2>3. next - 1 = Len(arms) BY <1>1, <2>2
  <2>4. ArmsApart(Len(arms)) BY <2>1, <2>3
  <2>5. ASSUME NEW arm, OwnChain(arm) PROVE OwnChain(arm)'
    <3>1. ASSUME NEW b \in ToSet(arm.chain) PROVE [left |-> 0, right |-> b] \in ToSet(pairs')
      <4>1. PICK e : e = [left |-> 0, right |-> b] OBVIOUS
      <4>2. e.right = b /\ e \in ToSet(pairs) BY <2>5, <4>1 DEF OwnChain
      <4>3. b \in DOMAIN right BY <2>5 DEF OwnChain, ToSet
      <4>4. 0 \notin DOMAIN right
        <5>1. NativeGraph(right) BY <1>2 DEF Walking
        <5> QED BY <5>1 DEF NativeGraph, IsSeq
      <4> QED BY <1>5, <4>1, <4>2, <4>3, <4>4
    <3> QED BY <1>3, <2>5, <3>1 DEF OwnChain
  <2>6. arms' = arms BY <1>3
  <2> QED BY <2>4, <2>5, <2>6 DEF ArmsApart
<1>8. Paired'
  <2>1. pairs' \in Seq(PairSet)' BY <1>3 DEF PairSet
  <2>2. PairsInjective(pairs)' BY <1>5 DEF PairsInjective
  <2>3. \A b \in DOMAIN left' : \E p \in ToSet(pairs') : p.left = b
    <3> SUFFICES ASSUME NEW b \in DOMAIN left PROVE \E p \in ToSet(pairs') : p.left = b BY <1>3
    <3>1. PICK k \in DOMAIN pairs' : pairs'[k]["left"] = b BY <1>3
    <3>2. pairs'[k] \in ToSet(pairs') BY DEF ToSet
    <3> QED BY <3>1, <3>2
  <2>4. IsSeq(switches)' /\ IsSeq(arms)'
    BY <1>2, <1>3 DEF Walking, IsSeq
  <2>5. ASSUME NEW s \in ToSet(switches')
        PROVE  /\ IsSeq(s.labels)
               /\ \A i, j \in DOMAIN s.labels :
                     s.labels[i] = s.labels[j] /\ s.labels[i] \notin ToSet(left'[s.left].labels)
                     => i = j
    <3>1. SwitchSound(s) /\ NativeGraph(left) /\ NativeGraph(right) /\ left' = left
      BY <1>2, <1>3 DEF Walking
    <3> QED BY <3>1, LabelsOnce
  <2> QED BY <1>7, <2>1, <2>2, <2>3, <2>4, <2>5 DEF Paired, IsSeq
<1> QED BY <1>3, <1>4, <1>6, <1>8 DEF GroupsSound, RoundTrip

-----------------------------------------------------------------------------
(* All steps of the merge, for RoundTrip. *)

\* A refusal promises nothing.
LEMMA RefusedGroups ==
    ASSUME stage' = "refused"
    PROVE  GroupsSound'
BY DEF GroupsSound, RoundTrip, Pairing

\* Nothing changes.
LEMMA GroupsStutter ==
    ASSUME GroupsSound, UNCHANGED commonVars
    PROVE  GroupsSound'
<1>1. UNCHANGED <<left, right, stage, pairs, next, switches, arms,
                  functions, peer, groups, armGroups, merged>>
  BY DEF commonVars, pairing
<1>2. Recorded => Recorded'
  BY <1>1 DEF Recorded, SwitchesOnce, ArmsFound, ArmOf
<1>3. \A arm : OwnChain(arm) => OwnChain(arm)'
  BY <1>1 DEF OwnChain
<1>4. ArmsApart(next - 1) => ArmsApart(next - 1)'
  BY <1>1, <1>3 DEF ArmsApart
<1>5. Paired => Paired'
  <2> SUFFICES ASSUME Paired PROVE Paired' OBVIOUS
  <2>1. ArmsApart(Len(arms))' BY <1>1, <1>3 DEF Paired, ArmsApart
  <2>2. PairSet' = PairSet BY <1>1 DEF PairSet
  <2> QED BY <1>1, <2>1, <2>2 DEF Paired, PairsInjective, IsSeq
<1>6. Grouping => Grouping'
  <2> SUFFICES ASSUME Grouping PROVE Grouping' OBVIOUS
  <2>1. \A t : Grouped(t) => Grouped(t)' BY <1>1 DEF Grouped
  <2>2. Finished' = Finished BY <1>1 DEF Finished
  <2>3. ArmsGrouped => ArmsGrouped' BY <1>1 DEF ArmsGrouped
  <2>4. Targets' = Targets /\ groups' = groups /\ stage' = stage BY <1>1 DEF Targets
  <2> QED BY <2>1, <2>2, <2>3, <2>4 DEF Grouping
<1>7. \A t : InOrder(t) => InOrder(t)'
  BY <1>1 DEF InOrder, BlocksOf
<1>8. RoundTrip => RoundTrip'
  BY <1>1 DEF RoundTrip, NativeFunction, Targets, Specializable
<1>9. stage = "shared" =>
         \A s \in ToSet(switches') : \E k \in 1 .. next' - 1 : pairs'[k].right = s.right
  BY <1>1 DEF GroupsSound
<1>10. Targets' = Targets /\ stage' = stage /\ peer' = peer /\ functions' = functions
  BY <1>1 DEF Targets
<1> QED BY <1>2, <1>4, <1>5, <1>6, <1>7, <1>8, <1>9, <1>10 DEF GroupsSound

\* The first target has its blocks in groups of their own.
LEMMA GroupsBegin ==
    ASSUME CommonInit
    PROVE  GroupsSound
<1>1. /\ IsSeq(functions) /\ functions # <<>> /\ \A t \in Targets : NativeGraph(functions[t])
      /\ peer = 1 /\ armGroups = {} /\ stage = "grouped"
      /\ groups = [b \in DOMAIN functions[1] |-> [t \in Targets |-> IF t = 1 THEN b ELSE 0]]
  BY DEF CommonInit, Begin, Targets
<1>2. 1 \in Targets /\ Targets \subseteq Nat
  BY <1>1 DEF IsSeq, Targets
<1>3. IsSeq(functions[1]) /\ functions[1] # <<>>
  BY <1>1, <1>2 DEF NativeGraph
<1>4. PICK n : n = Len(functions[1]) /\ n \in Nat /\ n >= 1 /\ DOMAIN functions[1] = 1 .. n
  BY <1>3 DEF IsSeq
<1>5. DOMAIN groups = 1 .. n
  BY <1>1, <1>4
<1>6. \A g \in 1 .. n : \A t \in Targets : groups[g][t] = IF t = 1 THEN g ELSE 0
  BY <1>1, <1>4
<1>7. groups \in Seq([Targets -> Nat]) /\ groups # <<>>
  <2>3. groups \in Seq([Targets -> Nat])
    <3> DEFINE R == [Targets -> Nat]
               Alone(g) == [t \in Targets |-> IF t = 1 THEN g ELSE 0]
    <3>1. groups = [g \in 1 .. n |-> Alone(g)] BY <1>1, <1>4
    <3>2. \A g \in 1 .. n : Alone(g) \in R BY <1>4
    <3> HIDE DEF R, Alone
    <3>3. groups \in Seq(R) BY <1>4, <3>1, <3>2
    <3> QED BY <3>3 DEF R
  <2>4. groups # <<>>
    <3>1. 1 \in DOMAIN groups BY <1>4, <1>5
    <3> QED BY <3>1
  <2> QED BY <2>3, <2>4
<1>8. Grouped(1)
  <2>1. \A g \in DOMAIN groups : groups[g][1] = g BY <1>2, <1>5, <1>6
  <2>2. \A g \in DOMAIN groups : groups[g][1] \in 0 .. Len(functions[1]) BY <1>4, <1>5, <2>1
  <2>3. \A b \in DOMAIN functions[1] : \E g \in DOMAIN groups : groups[g][1] = b
    BY <1>4, <1>5, <2>1
  <2>4. groups[1][1] = 1 BY <1>4, <1>5, <2>1
  <2> QED BY <2>1, <2>2, <2>3, <2>4 DEF Grouped
<1>9. Finished = 1 /\ stage \notin Pairing
  BY <1>1 DEF Finished, Pairing
<1>10. Grouping
  <2>1. ASSUME NEW t \in Targets, t # 1 PROVE \A g \in DOMAIN groups : groups[g][t] = 0
    BY <1>5, <1>6, <2>1
  <2>2. \A t \in Targets : t <= 1 => t = 1
    <3>1. Targets = 1 .. Len(functions) /\ Len(functions) \in Nat BY <1>1 DEF IsSeq, Targets
    <3> QED BY <3>1
  <2>3. ArmsGrouped BY <1>1 DEF ArmsGrouped
  <2>4. \A t \in Targets : IF t <= Finished THEN Grouped(t)
                            ELSE \A g \in DOMAIN groups : groups[g][t] = 0
    <3> SUFFICES ASSUME NEW t \in Targets
                 PROVE  IF t <= Finished THEN Grouped(t) ELSE \A g \in DOMAIN groups : groups[g][t] = 0
      OBVIOUS
    <3>1. CASE t = 1 BY <1>8, <1>9, <3>1
    <3>2. CASE t # 1 BY <1>9, <2>1, <2>2, <3>2
    <3> QED BY <3>1, <3>2
  <2> QED BY <1>7, <2>3, <2>4 DEF Grouping
<1> QED BY <1>1, <1>9, <1>10 DEF GroupsSound, RoundTrip

\* Two functions to pair.
LEMMA PeerBeginsGroups ==
    ASSUME PairingSound, GroupsSound, NextPeer
    PROVE  GroupsSound'
<1>1. /\ stage = "grouped" /\ stage' = "shared" /\ peer' = peer + 1 /\ peer < Len(functions)
      /\ left' = functions[1] /\ right' = functions[peer + 1]
      /\ pairs' = <<[left |-> 1, right |-> 1]>> /\ next' = 1
      /\ switches' = <<>> /\ arms' = <<>> /\ UNCHANGED <<functions, groups, armGroups>>
  BY DEF NextPeer, BeginPairing
<1>2. peer \in 1 .. Len(functions) /\ Len(functions) \in Nat
  BY DEF PairingSound, IsSeq, Targets
<1>3. Grouping BY <1>1 DEF GroupsSound
<1>4. Finished' = Finished
  <2>1. Finished = peer BY <1>1 DEF Finished, Pairing
  <2>2. Finished' = peer' - 1 BY <1>1 DEF Finished, Pairing
  <2> QED BY <1>1, <1>2, <2>1, <2>2
<1>5. Grouping' BY <1>1, <1>3, <1>4, GroupingKept
<1>6. ToSet(switches') = {} BY <1>1 DEF ToSet
<1>7. Recorded'
  <2>1. peer' \in 2 .. Len(functions') BY <1>1, <1>2
  <2>2. PICK e : e = [left |-> 1, right |-> 1] OBVIOUS
  <2>3. e \in ToSet(pairs')
    <3>1. pairs' = <<e>> BY <1>1, <2>2
    <3>2. DOMAIN <<e>> = {1} /\ <<e>>[1] = e OBVIOUS
    <3> QED BY <3>1, <3>2 DEF ToSet
  <2>4. SwitchesOnce' BY <1>1 DEF SwitchesOnce
  <2>5. left' = functions'[1] /\ right' = functions'[peer'] BY <1>1
  <2> QED BY <1>6, <2>1, <2>2, <2>3, <2>4, <2>5 DEF Recorded
<1> QED BY <1>1, <1>5, <1>6, <1>7 DEF GroupsSound, RoundTrip

\* The step of the pairing that is taken.
LEMMA PairPeerKeepsGroups ==
    ASSUME PairingSound, GroupsSound, PairPeer
    PROVE  GroupsSound'
<1>1. CASE stage' = "refused" BY <1>1, RefusedGroups
<1>2. CASE stage' # "refused"
  <2>1. PairingNext BY DEF PairPeer
  <2>2. CASE MatchShared BY <1>2, <2>2, MatchSharedKeeps
  <2>3. CASE SharedMatched BY <1>2, <2>3, SharedMatchedKeepsGroups
  <2>4. CASE WalkArm BY <1>2, <2>4, ArmGoesOnKeepsGroups, ArmRejoinsKeepsGroups
  <2>5. CASE FinishPairing BY <1>2, <2>5, FinishKeepsGroups
  <2> QED BY <2>1, <2>2, <2>3, <2>4, <2>5 DEF PairingNext
<1> QED BY <1>1, <1>2

\* The merge keeps, for functions of every size and every number of targets, what
\* GroupsSound says of the blocks' groups, the arms and the order of the groups.
THEOREM GroupsStaySound == CommonSpec => []GroupsSound
<1>1. CommonInit => GroupsSound BY GroupsBegin
<1>2. PairingSound /\ GroupsSound /\ [CommonNext]_commonVars => GroupsSound'
  <2> SUFFICES ASSUME PairingSound, GroupsSound, [CommonNext]_commonVars PROVE GroupsSound'
    OBVIOUS
  <2>1. CASE stage' = "refused" BY <2>1, RefusedGroups
  <2>2. CASE stage' # "refused"
    <3>1. CASE NextPeer BY <3>1, PeerBeginsGroups
    <3>2. CASE PairPeer BY <3>2, PairPeerKeepsGroups
    <3>3. CASE GroupPeer BY <2>2, <3>3, GroupPeerKeeps
    <3>4. CASE OrderGroups BY <2>2, <3>4, OrderGroupsKeeps
    <3>5. CASE Emit BY <2>2, <3>5, EmitKeeps
    <3>6. CASE Over \/ UNCHANGED commonVars BY <3>6, GroupsStutter DEF Over
    <3>7. NextPeer \/ PairPeer \/ GroupPeer \/ OrderGroups \/ Emit \/ Over \/ UNCHANGED commonVars
      BY DEF CommonNext
    <3> QED BY <3>1, <3>2, <3>3, <3>4, <3>5, <3>6, <3>7
  <2> QED BY <2>1, <2>2
<1> QED BY <1>1, <1>2, PairingStaysSound, PTL DEF CommonSpec

\* Whatever functions the targets have, if CommonMerge merges them then
\* specializeConditionalCFG gives every target back exactly its native graph: its
\* blocks in its order, its edges, its switch cases and their order.
THEOREM RoundTripHolds == CommonSpec => []RoundTrip
<1>1. GroupsSound => RoundTrip BY DEF GroupsSound
<1> QED BY <1>1, GroupsStaySound, PTL

=============================================================================
