------------------------ MODULE CommonGraphInvariant ------------------------
(***************************************************************************)
(* The inductive invariant behind PairingProjects: what the worklist of    *)
(* pairConditionalCFG has established, before and after every block.       *)
(***************************************************************************)
EXTENDS CommonGraph

Sides == {"left", "right"}
PairSet == [left : 0 .. Len(left), right : 0 .. Len(right)]
Both(p) == p.left # 0 /\ p.right # 0

\* No block is in two pairs.
PairsInjective(known) ==
    \A i, j \in DOMAIN known : \A side \in Sides :
        known[i][side] = known[j][side] /\ known[i][side] # 0 => i = j

\* The terminators of pair p are of one kind, and its switches are recorded.
Matched(p) ==
    /\ left[p.left].kind = right[p.right].kind
    /\ left[p.left].kind = "switch" =>
          \E s \in ToSet(switches) : s.left = p.left /\ s.right = p.right

\* A recorded switch: two switches whose labels have a common order and whose
\* shared edges lead to pairs.
SwitchSound(s) ==
    /\ s.left \in DOMAIN left /\ s.right \in DOMAIN right
    /\ LET a == left[s.left]
           b == right[s.right]
       IN  /\ a.kind = "switch" /\ b.kind = "switch"
           /\ Ordered(a.labels, b.labels) /\ s.labels = MergeOrder(a.labels, b.labels)
           /\ ToSet(SharedEdges(a, b)) \subseteq ToSet(pairs)

\* An arm starts at a case of a switch.
ArmSound(arm) ==
    /\ arm = [side |-> arm.side, source |-> arm.source, label |-> arm.label, chain |-> arm.chain]
    /\ arm.side \in Sides
    /\ LET f == Function(arm.side)
       IN  /\ arm.source \in DOMAIN f /\ f[arm.source].kind = "switch"
           /\ arm.label \in ToSet(f[arm.source].labels)

\* The blocks an arm has come through: no pair's, no block twice, and left
\* unconditionally.
ChainSound(arm) ==
    LET f == Function(arm.side)
    IN  /\ arm.chain \in Seq(DOMAIN f) /\ IsInjective(arm.chain)
        /\ \A b \in ToSet(arm.chain) :
              f[b].kind = "br" /\ \A p \in ToSet(pairs) : p[arm.side] # b

\* All stages of the pairing.
Walking ==
    /\ NativeGraph(left) /\ NativeGraph(right)
    /\ pairs \in Seq(PairSet) /\ PairsInjective(pairs)
    /\ IsSeq(switches) /\ \A s \in ToSet(switches) : SwitchSound(s)
    /\ IsSeq(arms) /\ \A arm \in ToSet(arms) : ArmSound(arm)

\* matchShared: the pairs before next are done.
Sharing ==
    /\ next \in 1 .. Len(pairs) + 1
    /\ \A p \in ToSet(pairs) : Both(p)
    /\ \A k \in 1 .. next - 1 : Matched(pairs[k])
    /\ \A arm \in ToSet(arms) : arm.chain = <<>>

\* qualifyArm: the arms before next are done.
Branching ==
    /\ next \in 1 .. Len(arms) + 1
    /\ \A p \in ToSet(pairs) : Both(p) => Matched(p)
    /\ \A p \in ToSet(pairs) : \A side \in Sides :
          ~ Both(p) /\ p[side] # 0 => Function(side)[p[side]].kind = "br"
    /\ \A k \in DOMAIN arms : k > next => arms[k].chain = <<>>
    /\ next \in DOMAIN arms => ChainSound(arms[next])

PairingSound ==
    /\ IsSeq(functions) /\ \A t \in Targets : NativeGraph(functions[t])
    /\ peer \in Targets
    /\ stage \in {"shared", "arms"} => Walking
    /\ stage = "shared" => Sharing
    /\ stage = "arms" => Branching
    /\ PairingProjects

-----------------------------------------------------------------------------
(***************************************************************************)
(* What RoundTrip needs besides: the arms of the peer are known and apart, *)
(* every target has its blocks in one group each, and the common order     *)
(* keeps the order of every target.                                        *)
(***************************************************************************)

\* The blocks of a finished arm are the peer's alone.
OwnChain(arm) ==
    /\ arm.chain \in Seq(DOMAIN right) /\ IsInjective(arm.chain)
    /\ \A b \in ToSet(arm.chain) : [left |-> 0, right |-> b] \in ToSet(pairs)

\* The arms up to n are finished.
ArmsApart(n) ==
    /\ \A k \in DOMAIN arms : k <= n /\ arms[k].side = "right" => OwnChain(arms[k])
    /\ \A j, k \in DOMAIN arms :
          /\ j <= n /\ k <= n /\ arms[j].side = "right" /\ arms[k].side = "right"
          /\ ToSet(arms[j].chain) \cap ToSet(arms[k].chain) # {}
          => j = k

\* A switch of the peer is recorded once, with an arm for each case of its own.
SwitchesOnce ==
    \A i, j \in DOMAIN switches : switches[i].right = switches[j].right => i = j

ArmOf(arm, s, l) == arm.side = "right" /\ arm.source = s.right /\ arm.label = l
ArmsFound(s) ==
    \A l \in ToSet(s.labels) :
        l \notin ToSet(left[s.left].labels) => \E arm \in ToSet(arms) : ArmOf(arm, s, l)

Recorded ==
    /\ peer \in 2 .. Len(functions)
    /\ left = functions[1] /\ right = functions[peer]
    /\ [left |-> 1, right |-> 1] \in ToSet(pairs)
    /\ SwitchesOnce
    /\ \A s \in ToSet(switches) : ArmsFound(s)

\* The end of the pairing.
Paired ==
    /\ pairs \in Seq(PairSet) /\ PairsInjective(pairs)
    /\ \A b \in DOMAIN left : \E p \in ToSet(pairs) : p.left = b
    /\ ArmsApart(Len(arms))
    /\ IsSeq(switches) /\ IsSeq(arms)
    /\ \A s \in ToSet(switches) :
          /\ IsSeq(s.labels)
          /\ \A i, j \in DOMAIN s.labels :
                s.labels[i] = s.labels[j] /\ s.labels[i] \notin ToSet(left[s.left].labels)
                => i = j

\* Target t has each of its blocks in one group, and its entry in the first.
BlocksOf(t) == [g \in DOMAIN groups |-> groups[g][t]]
Grouped(t) ==
    /\ \A g \in DOMAIN groups : groups[g][t] \in 0 .. Len(functions[t])
    /\ \A b \in DOMAIN functions[t] : \E g \in DOMAIN groups : groups[g][t] = b
    /\ \A g, h \in DOMAIN groups : groups[g][t] = groups[h][t] /\ groups[g][t] # 0 => g = h
    /\ groups[1][t] = 1

\* One group of no block of the first target for each key of an arm block.
ArmsGrouped ==
    /\ \A x \in armGroups : x = <<x[1], x[2]>> /\ x[2] \in DOMAIN groups /\ groups[x[2]][1] = 0
    /\ \A x, y \in armGroups : x[1] = y[1] => x = y

Pairing == {"shared", "arms", "paired"}
Finished == IF stage \in Pairing THEN peer - 1 ELSE peer

Grouping ==
    /\ groups \in Seq([Targets -> Nat]) /\ groups # <<>>
    /\ \A t \in Targets : IF t <= Finished THEN Grouped(t)
                           ELSE \A g \in DOMAIN groups : groups[g][t] = 0
    /\ stage # "ordered" => ArmsGrouped

\* The groups of a target's blocks are in the order of its blocks.
InOrder(t) == Only(BlocksOf(t), DOMAIN functions[t]) = [b \in DOMAIN functions[t] |-> b]

GroupsSound ==
    /\ stage \in Pairing => Recorded
    /\ stage = "shared" =>
          \A s \in ToSet(switches) : \E k \in 1 .. next - 1 : pairs[k].right = s.right
    /\ stage = "arms" => ArmsApart(next - 1)
    /\ stage = "paired" => Paired
    /\ stage \in Pairing \cup {"grouped", "ordered"} => Grouping
    /\ stage = "ordered" => peer = Len(functions) /\ \A t \in Targets : InOrder(t)
    /\ RoundTrip
=============================================================================
