----------------------------- MODULE CommonGraph -----------------------------
(***************************************************************************)
(* The common control-flow graph of one function of several targets, and   *)
(* its specialization back to one of them.  Merger::correspondence         *)
(* (CommonMerge.cpp) pairs the first target's function with every other    *)
(* one (ConditionalCFG), collects corresponding blocks in groups, and      *)
(* orders the groups so that every target keeps its native block order.    *)
(* Merger::function and switchOperation emit one block for each group with *)
(* the targets it is present for.  specializeConditionalCFG                *)
(* (ConditionalSpecialization.cpp), on the device, erases the blocks and   *)
(* the switch cases of the other targets.                                  *)
(*                                                                         *)
(* Left out: the instructions of a block and the SSA values.  A block's    *)
(* body is the number of the native block it came from, for each target.   *)
(* A refusal is harmless: the producer then keeps the functions apart.     *)
(***************************************************************************)
EXTENDS ConditionalCFG

VARIABLES
    functions,  \* the native function of each target
    peer,       \* the target being paired with the first
    groups,     \* Seq of [target -> its block, or 0]
    armGroups,  \* groups of arm blocks: <<key, group>>
    merged      \* the common function

commonVars == <<pairing, functions, peer, groups, armGroups, merged>>

Targets == DOMAIN functions
PresentIn(group) == {t \in Targets : group[t] # 0}

\* The group of block b of target t; 0 if it has none.
GroupOf(t, b) == SelectInSeq(groups, LAMBDA g : g[t] = b)

RefuseMerge == Refuse /\ UNCHANGED <<functions, peer, groups, armGroups, merged>>

\* correspondence starts with a group for each block of the first target.
Begin(inputs) ==
    /\ functions = inputs
    /\ peer = 1
    /\ groups = [b \in DOMAIN inputs[1] |->
                    [t \in DOMAIN inputs |-> IF t = 1 THEN b ELSE 0]]
    /\ armGroups = {}
    /\ merged = <<>>
    /\ left = inputs[1] /\ right = <<>> /\ stage = "grouped"
    /\ pairs = <<>> /\ next = 1 /\ switches = <<>> /\ arms = <<>>

\* Any functions the targets may have.
CommonInit ==
    /\ IsSeq(functions) /\ functions # <<>>
    /\ \A t \in Targets : NativeGraph(functions[t])
    /\ Begin(functions)

\* The next target's function is paired with the first one's.
NextPeer ==
    /\ stage = "grouped" /\ peer < Len(functions)
    /\ peer' = peer + 1
    /\ BeginPairing(functions[1], functions[peer + 1])
    /\ UNCHANGED <<functions, groups, armGroups, merged>>

PairPeer == PairingNext /\ UNCHANGED <<functions, peer, groups, armGroups, merged>>

-----------------------------------------------------------------------------
(* Groups. *)

\* An arm block is known by the switch, the label and its place in the chain.
ArmKey(head, width, label, position) == <<head, width, label, position>>

\* The arm of a case that only the peer's switch has.
OwnArm(s, l) ==
    CHOOSE a \in ToSet(arms) : a.side = "right" /\ a.source = s.right /\ a.label = l

\* The blocks of the peer's own arms, switch by switch, case by case.
CaseMembers(s, l) ==
    IF l \in ToSet(left[s.left].labels) THEN <<>>
    ELSE [position \in DOMAIN OwnArm(s, l).chain |->
             [key |-> ArmKey(GroupOf(1, s.left), right[s.right].width, l, position),
              block |-> OwnArm(s, l).chain[position]]]

SwitchMembers(s) == FlattenSeq([k \in DOMAIN s.labels |-> CaseMembers(s, s.labels[k])])

ArmMembers == FlattenSeq([k \in DOMAIN switches |-> SwitchMembers(switches[k])])

\* Puts an arm block with those of earlier targets that have its key.
PlaceArm(placed, member) ==
    LET known == {g \in DOMAIN placed.groups : <<member.key, g>> \in placed.armGroups}
        alone == [t \in Targets |-> IF t = peer THEN member.block ELSE 0]
    IN  IF known = {}
        THEN [groups |-> Append(placed.groups, alone),
              armGroups |-> placed.armGroups \cup {<<member.key, Len(placed.groups) + 1>>}]
        ELSE [groups |-> [g \in DOMAIN placed.groups |->
                             IF g \in known THEN [placed.groups[g] EXCEPT ![peer] = member.block]
                             ELSE placed.groups[g]],
              armGroups |-> placed.armGroups]

PlaceArms(start, members) ==
    LET placed[k \in 0 .. Len(members)] ==
            IF k = 0 THEN start ELSE PlaceArm(placed[k - 1], members[k])
    IN  placed[Len(members)]

\* The groups of the first target's blocks take their mates.
Mated ==
    LET Mate(b) == pairs[PairOf(pairs, "left", b)].right
    IN  [g \in DOMAIN groups |->
            IF groups[g][1] = 0 THEN groups[g]
            ELSE [groups[g] EXCEPT ![peer] = Mate(groups[g][1])]]

GroupPeer ==
    /\ stage = "paired"
    /\ LET placed == PlaceArms([groups |-> Mated, armGroups |-> armGroups], ArmMembers)
       IN  IF DOMAIN right # {g[peer] : g \in ToSet(placed.groups)} \ {0}
           THEN RefuseMerge
           ELSE /\ groups' = placed.groups /\ armGroups' = placed.armGroups
                /\ stage' = "grouped"
                /\ UNCHANGED <<left, right, pairs, next, switches, arms,
                               functions, peer, merged>>

-----------------------------------------------------------------------------
(* One order for all targets. *)

\* What comes directly before x in one of the orders.
Before(n, orders, x) ==
    {y \in 1 .. n : \E order \in ToSet(orders) :
        \E k \in 1 .. Len(order) - 1 : order[k] = y /\ order[k + 1] = x}

\* The smallest of those with nothing left before them.
OrderTurn(n, orders, placed) ==
    LET ready == {x \in 1 .. n \ ToSet(placed) : Before(n, orders, x) \subseteq ToSet(placed)}
    IN  IF ready = {} THEN placed ELSE Append(placed, Min(ready))

\* 1 .. n in an order every list of orders agrees with; shorter when the lists
\* contradict one another.
CommonOrder(n, orders) ==
    LET placed[k \in 0 .. n] ==
            IF k = 0 THEN <<>> ELSE OrderTurn(n, orders, placed[k - 1])
    IN  placed[n]

\* The first target's blocks first, then the others as they were found.
GroupOrderFound == [g \in DOMAIN groups |-> g]

GroupOrder ==
    CommonOrder(Len(groups),
                [t \in Targets |-> [b \in DOMAIN functions[t] |-> GroupOf(t, b)]])

OrderGroups ==
    /\ stage = "grouped" /\ peer = Len(functions)
    /\ LET order == GroupOrder
       IN  IF Len(order) # Len(groups) THEN RefuseMerge
           ELSE /\ groups' = [k \in DOMAIN order |-> groups[order[k]]]
                /\ stage' = "ordered"
                /\ UNCHANGED <<left, right, pairs, next, switches, arms,
                               functions, peer, armGroups, merged>>

-----------------------------------------------------------------------------
(* Emission: function, operation and switchOperation. *)

BlockIn(group, t) == functions[t][group[t]]

\* The cases of the targets' switches, as <<successor group, label>>.
CasesIn(group, t) ==
    LET block == BlockIn(group, t)
    IN  [k \in DOMAIN block.labels |->
            <<GroupOf(t, block.succ[k + 1]), block.labels[k]>>]

\* The elements of s, first come first, each once.
AddNew(seen, c) == IF Contains(seen, c) THEN seen ELSE Append(seen, c)

Distinct(s) ==
    LET seen[k \in 0 .. Len(s)] == IF k = 0 THEN <<>> ELSE AddNew(seen[k - 1], s[k])
    IN  seen[Len(s)]

\* All cases of a group.
CasesOf(group, t) == IF group[t] = 0 THEN <<>> ELSE CasesIn(group, t)

CasesFound(group) == Distinct(FlattenSeq([t \in Targets |-> CasesOf(group, t)]))

CaseOrder(group) ==
    LET found == CasesFound(group)
        Index(c) == SelectInSeq(found, LAMBDA d : d = c)
    IN  CommonOrder(Len(found),
            [t \in Targets |-> [k \in DOMAIN CasesOf(group, t) |-> Index(CasesOf(group, t)[k])]])

\* Case domains as the targets that have the block.
CaseDomainOfBlock(group, case) == PresentIn(group)

\* The targets whose switch has this case.
CaseDomain(group, case) ==
    {t \in PresentIn(group) : Contains(CasesIn(group, t), case)}

\* The terminators of a group have one kind, and the edges all targets have lead
\* to one group each.
Emittable(group) ==
    \A t, u \in PresentIn(group) :
        LET a == BlockIn(group, t)
            b == BlockIn(group, u)
            common == IF a.kind = "switch" THEN {1} ELSE DOMAIN a.succ
        IN  /\ a.kind = b.kind /\ a.phi = b.phi /\ a.width = b.width
            /\ \A k \in common : GroupOf(t, a.succ[k]) = GroupOf(u, b.succ[k])
            /\ a.kind = "switch" => Len(CaseOrder(group)) = Len(CasesFound(group))

\* The common block: block_domains, and for a switch cases and case_domains.
EmittedBlock(group) ==
    LET t == Min(PresentIn(group))
        block == BlockIn(group, t)
        order == IF block.kind = "switch" THEN CaseOrder(group) ELSE <<>>
        cases == [k \in DOMAIN order |-> CasesFound(group)[order[k]]]
        edges == IF block.kind = "switch" THEN <<block.succ[1]>> ELSE block.succ
    IN  [domain |-> PresentIn(group), body |-> group, kind |-> block.kind,
         width |-> block.width, phi |-> block.phi,
         succ |-> [k \in DOMAIN edges |-> GroupOf(t, edges[k])]
                      \o [k \in DOMAIN cases |-> cases[k][1]],
         labels |-> [k \in DOMAIN cases |-> cases[k][2]],
         domains |-> [k \in DOMAIN cases |-> CaseDomain(group, cases[k])]]

Emit ==
    /\ stage = "ordered"
    /\ IF \E g \in ToSet(groups) : ~Emittable(g) THEN RefuseMerge
       ELSE /\ merged' = [g \in DOMAIN groups |-> EmittedBlock(groups[g])]
            /\ stage' = "merged"
            /\ UNCHANGED <<left, right, pairs, next, switches, arms,
                           functions, peer, groups, armGroups>>

\* The function is merged, or its targets stay apart.
Over == stage \in {"merged", "refused"} /\ UNCHANGED commonVars

CommonNext ==
    NextPeer \/ PairPeer \/ GroupPeer \/ OrderGroups \/ Emit \/ Over

CommonSpec == CommonInit /\ [][CommonNext]_commonVars

-----------------------------------------------------------------------------
(* specializeConditionalCFG *)

\* The cases of a switch, and the edges of any block, that target t keeps.
KeptCases(block, t) ==
    Only([k \in DOMAIN block.labels |-> k], {k \in DOMAIN block.labels : t \in block.domains[k]})

KeptEdges(block, t) ==
    IF block.kind # "switch" THEN [k \in DOMAIN block.succ |-> k]
    ELSE LET cases == KeptCases(block, t)
         IN  [k \in 1 .. Len(cases) + 1 |-> IF k = 1 THEN 1 ELSE cases[k - 1] + 1]

\* What specialization refuses: an entry that is not shared, a switch edge that
\* some target has to a block it has not, an edge left to an erased block.
Specializable(common, t) ==
    /\ common[1].domain = Targets
    /\ \A b \in DOMAIN common :
          LET block == common[b]
          IN  /\ block.kind = "switch" => \A u \in block.domain : \A k \in DOMAIN block.succ :
                    (k = 1 \/ u \in block.domains[k - 1]) => u \in common[block.succ[k]].domain
              /\ t \in block.domain => \A k \in ToSet(KeptEdges(block, t)) :
                    t \in common[block.succ[k]].domain

\* The function of target t, each block with the native block it came from.
Specialize(common, t) ==
    LET mine == Only([b \in DOMAIN common |-> b], {b \in DOMAIN common : t \in common[b].domain})
        Place(b) == SelectInSeq(mine, LAMBDA m : m = b)
    IN  [m \in DOMAIN mine |->
            LET block == common[mine[m]]
                kept == KeptEdges(block, t)
                cases == KeptCases(block, t)
            IN  [body |-> block.body[t], kind |-> block.kind, width |-> block.width,
                 phi |-> block.phi,
                 succ |-> [k \in DOMAIN kept |-> Place(block.succ[kept[k]])],
                 labels |-> [k \in DOMAIN cases |-> block.labels[cases[k]]]]]

-----------------------------------------------------------------------------
(***************************************************************************)
(* What merging promises.                                                  *)
(***************************************************************************)

NativeFunction(t) ==
    [b \in DOMAIN functions[t] |->
        LET block == functions[t][b]
        IN  [body |-> b, kind |-> block.kind, width |-> block.width,
             phi |-> block.phi, succ |-> block.succ, labels |-> block.labels]]

\* Whatever the targets' functions, if they are merged then every target can be
\* specialized back, to exactly its native graph: the same blocks in the same
\* order with the same edges, switch cases and case order (CommonMerge.cpp,
\* ConditionalSpecialization.cpp).
RoundTrip ==
    stage = "merged" => \A t \in Targets :
        Specializable(merged, t) /\ Specialize(merged, t) = NativeFunction(t)

\* Blocks an edge of f reaches in at most Len(f) steps from the entry.
Reachable(f) ==
    FoldLeft(LAMBDA seen, k : seen \cup UNION {ToSet(f[b].succ) : b \in seen},
             {1}, [k \in DOMAIN f |-> k])

\* f without the blocks of own and the edges to them.
Less(f, own) ==
    LET kept == SelectSeq([b \in DOMAIN f |-> b], LAMBDA b : b \notin own)
        Place(b) == SelectInSeq(kept, LAMBDA k : k = b)
        Edges(b) == SelectSeq([k \in DOMAIN f[b].succ |-> k],
                              LAMBDA k : f[b].succ[k] \notin own)
    IN  [k \in DOMAIN kept |->
            LET block == f[kept[k]]
                edges == Edges(kept[k])
                labels == SelectSeq(edges, LAMBDA e : block.kind = "switch" /\ e > 1)
            IN  [block EXCEPT
                    !.succ = [e \in DOMAIN edges |-> Place(block.succ[edges[e]])],
                    !.labels = [l \in DOMAIN labels |-> block.labels[labels[l] - 1]]]]

\* The blocks of own are private arms of switch cases, alone or in chains.  Every block
\* is reachable, with the arms and without, and no selector is wider than the qualified
\* bound.
PrivateArms(f, own) ==
    /\ Reachable(f) = DOMAIN f
    /\ \A b \in DOMAIN f : f[b].kind = "switch" => f[b].width <= 64
    /\ own # {} => \A b \in DOMAIN f : ~f[b].phi
    /\ \A b \in own :
          /\ f[b].kind = "br"
          /\ Cardinality(Incoming(f, b)) = 1
          /\ \A edge \in Incoming(f, b) :
                edge[1] \in own \/ (f[edge[1]].kind = "switch" /\ edge[2] > 1)
    /\ Reachable(Less(f, own)) = DOMAIN Less(f, own)

\* A function and the same function without some of its private arms are always
\* merged, either way round; so are two equal ones, with PHIs or not.
ArmsAccepted ==
    (stage = "refused" /\ Len(functions) = 2) =>
        \A full \in Targets : \A own \in SUBSET DOMAIN functions[full] :
            PrivateArms(functions[full], own) => functions[3 - full] # Less(functions[full], own)

=============================================================================
