----------------------------- MODULE MCSelaLink -----------------------------
(***************************************************************************)
(* sela-ld on every command line over a small stock of objects.            *)
(***************************************************************************)
EXTENDS SelaLinkInvariant, TLC

CONSTANTS a, b, o2, o3, mem1, mem2, mcMaxInputs

Unit(modules, optimization) ==
    [modules |-> modules, optimization |-> optimization, member |-> NoMember]
Fragment(name, targets) == [bytecode |-> name, targets |-> targets]
Plain(targets) == [t \in targets |-> EmptyLink]
Object(targets, modules, plan) ==
    [kind |-> "object", targets |-> targets, modules |-> modules,
     plan |-> plan, links |-> Plain(targets)]

\* A unit shared by both targets.
Shared == Object({a, b}, <<Fragment("s", {a, b})>>,
                 (a :> <<Unit(<<1>>, o2)>>) @@ (b :> <<Unit(<<1>>, o2)>>))
\* A unit of one target only.
OnlyA == Object({a}, <<Fragment("x", {a})>>, a :> <<Unit(<<1>>, o3)>>)
\* Native units regrouped into fragments: a has one unit of two fragments, b
\* has a unit for each, and one fragment belongs to b alone.
Grouped == Object({a, b},
                  <<Fragment("p", {b}), Fragment("q", {a, b}), Fragment("r", {a, b})>>,
                  (a :> <<Unit(<<3, 2>>, o2)>>)
                  @@ (b :> <<Unit(<<2>>, o2), Unit(<<1>>, o2), Unit(<<3>>, o2)>>))
\* The output of a relocatable link that declared a library.
Declared == [Shared EXCEPT !.links[a].libraries = <<"m">>]
\* Packages that are not relocatable, or whose plan drops a fragment.
Program == [Shared EXCEPT !.kind = "executable"]
Dropping == [Grouped EXCEPT !.plan[a] = <<Unit(<<3>>, o2)>>]
\* A fragment the IR verifier does not accept.
Bad == [Shared EXCEPT !.modules[1].bytecode = "bad"]

Stock == {Shared, OnlyA, Grouped, Declared, Program, Dropping, Bad}

Subsets == SUBSET {a, b} \ {{}}
Partial(S, T) == UNION {[D -> T] : D \in SUBSET S}
Scripted == [EmptyLink EXCEPT !.script = "v"]
mcBad == {"bad"}

\* A run starts with some command line over these choices.
Start(kinds, inputs, domains, orders, links, names) ==
    /\ \E k \in kinds, i \in inputs, t \in Subsets, d \in domains,
          o \in orders, l \in links, n \in names :
          args = [kind |-> k, inputs |-> i, targets |-> t, domains |-> d,
                  names |-> n, orders |-> o, links |-> l, common |-> EmptyLink]
    /\ LinkInit

\* Any inputs, any scopes.
ScopedInit == Start(Kinds, BoundedSeq(Stock, mcMaxInputs),
                    Partial(1..2, Subsets), {<<>>},
                    {<<>>, (a :> Scripted) @@ (b :> EmptyLink)},
                    {<<>>, <<mem1, mem2>>})
\* Sound inputs, any permutation of either target's units.
PermutedInit == Start({"executable", "static"},
                      BoundedSeq({Shared, OnlyA, Grouped}, mcMaxInputs),
                      {<<>>, 2 :> {b}},
                      Partial({a, b}, BoundedSeq(1..3, 3)), {<<>>}, {<<>>})

BoundedSpec == (ScopedInit \/ PermutedInit) /\ [][Next]_vars
=============================================================================
