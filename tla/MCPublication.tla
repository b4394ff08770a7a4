---------------------------- MODULE MCPublication ----------------------------
(***************************************************************************)
(* Publications of every small native inventory.                           *)
(***************************************************************************)
EXTENDS Publication, TLC

CONSTANTS a, b, c, mcMaxUnits

mcTwo == <<a, b>>
mcThree == <<a, b, c>>
mcExported == {"f", "g", "h"}
mcNone == {}

Role(source, key, flags, member) ==
    [source |-> source, key |-> key, flags |-> flags, optimization |-> flags,
     member |-> member]

\* s1 is compiled into k1 and into k2, so matching is not transitive; the last
\* role differs from the first in its flags.
Roles == {Role("s1", "k1", "O2", "m"), Role("s2", "k2", "O2", "m"),
          Role("s1", "k2", "O2", "m"), Role("s1", "k1", "O3", "n")}

NativeUnitOf(t, i, role, definitions) ==
    [capture |-> <<t, i>>, definitions |-> definitions, source |-> role.source,
     key |-> role.key, flags |-> role.flags, optimization |-> role.optimization,
     member |-> IF kind = "static" THEN role.member ELSE NoMember]

UnitsOf(t, inventory) ==
    [i \in DOMAIN inventory |->
        NativeUnitOf(t, i, inventory[i][1], inventory[i][2])]

Begin(kinds, inventories, links) ==
    /\ kind \in kinds
    /\ \E inventory \in inventories :
          /\ kind # "static" => \A t \in AllTargets : inventory[t] # <<>>
          /\ selected = [t \in AllTargets |-> UnitsOf(t, inventory[t])]
    /\ settings \in links
    /\ PublicationInit

\* Any roles in any order; the definitions of the i-th unit are its own.
OrderedInventories(n) ==
    LET Placed(roles) == [i \in DOMAIN roles |-> <<roles[i], << <<"f", "g", "h">>[i] >> >>]
    IN  [AllTargets -> {Placed(roles) : roles \in BoundedSeq(Roles, n)}]

\* Units that never correspond and share their settings, over the ways to split
\* and to order up to three external definitions, with local ones in between.
\* The first target meets the external definitions in their own order: their
\* names carry no meaning.
Lists == {s \in BoundedSeq({"f", "g", "h"}, 3) : Len(s) = Cardinality(ToSet(s)) /\ s # <<>>}
             \cup {<<"local">>, <<"g", "local">>, <<"local", "f">>}
Splits == {s \in BoundedSeq(Lists, mcMaxUnits) :
              LET symbols == SelectSeq(FlattenSeq(s), LAMBDA d : d \in Exported)
              IN  Len(symbols) = Cardinality(ToSet(symbols))}
SplitInventories ==
    LET Placed(t, s) == [i \in DOMAIN s |-> <<Role(t, t, "O2", "m"), s[i]>>]
        first == Targets[1]
    IN  {[t \in AllTargets |-> Placed(t, split[t])] : split \in
            {f \in [AllTargets -> Splits] :
                IsPrefix(SelectSeq(FlattenSeq(f[first]), LAMBDA d : d \in Exported),
                         <<"f", "g", "h">>)}}

Plain == {[t \in AllTargets |-> EmptyLink]}
Linked == [EmptyLink EXCEPT !.libraries = <<"m">>]
Scripted == [EmptyLink EXCEPT !.script = "v"]

OrdersInit == Begin({"executable", "static"}, OrderedInventories(mcMaxUnits), Plain)
GroupsInit == Begin({"executable"}, SplitInventories, Plain)
LinksInit == Begin({"executable", "shared"}, OrderedInventories(1),
                   [AllTargets -> {EmptyLink, Linked, Scripted}])

TwoSpec == (OrdersInit \/ GroupsInit) /\ [][PublicationNext]_allVars
ThreeSpec == (OrdersInit \/ LinksInit) /\ [][PublicationNext]_allVars
=============================================================================
