--------------------------- MODULE ConditionalCFG ---------------------------
(***************************************************************************)
(* pairConditionalCFG (ConditionalCFG.cpp): finds, for two versions of one *)
(* function, which blocks and switch cases are the same.  It walks both    *)
(* control-flow graphs from their entries; the only difference it accepts  *)
(* is a switch case of one side that leads through a chain of blocks of    *)
(* its own back to shared code.                                            *)
(*                                                                         *)
(* A function is the sequence of its blocks in physical order.  A block is *)
(* [kind, width, labels, succ, phi]: the kind of its terminator, for a     *)
(* switch the width of its selector and its labels, the successors (a      *)
(* switch has its default first, then one for each label), and whether it  *)
(* has PHIs.  The kinds are "br", "cond", "switch", "return" and           *)
(* "unreachable".  Successors are positions of blocks; 0 is no block.      *)
(*                                                                         *)
(* Left out: the size limits (65536 blocks or cases, 4096 blocks in an     *)
(* arm); block addresses and SSA values that escape an arm, which the      *)
(* graphs CommonMerge.cpp builds for the proof do not have.                *)
(***************************************************************************)
EXTENDS Integers, Sequences, FiniteSets, SequencesExt, Functions

VARIABLES
    left, right,  \* the two functions
    stage,        \* "shared", "arms", "paired", then the stages of the caller
    pairs,        \* ConditionalCFGBlockPair: [left, right], one may be 0
    next,         \* the pair, then the arm, looked at next
    switches,     \* the paired switches [left, right, labels]
    arms          \* one-sided cases [side, source, label, chain]

pairing == <<left, right, stage, pairs, next, switches, arms>>

IsSeq(s) == s \in Seq(ToSet(s))

\* The graphs CommonMerge.cpp builds from verified functions: every terminator has
\* the successors of its kind, and a switch no label twice.
NativeGraph(f) ==
    /\ IsSeq(f) /\ f # <<>>
    /\ \A b \in DOMAIN f :
          /\ f[b].kind \in {"br", "cond", "switch", "return", "unreachable"}
          /\ f[b].succ \in Seq(DOMAIN f)
          /\ f[b].kind = "br" => Len(f[b].succ) = 1
          /\ f[b].kind = "cond" => Len(f[b].succ) = 2
          /\ f[b].kind \in {"return", "unreachable"} => f[b].succ = <<>>
          /\ IsSeq(f[b].labels) /\ IsInjective(f[b].labels)
          /\ IF f[b].kind = "switch" THEN Len(f[b].succ) = 1 + Len(f[b].labels)
             ELSE f[b].labels = <<>>

Refuse == stage' = "refused" /\ UNCHANGED <<left, right, pairs, next, switches, arms>>

BeginPairing(f, g) ==
    /\ left' = f /\ right' = g
    /\ stage' = "shared"
    /\ pairs' = <<[left |-> 1, right |-> 1]>>
    /\ next' = 1
    /\ switches' = <<>> /\ arms' = <<>>

-----------------------------------------------------------------------------
(* Correspondences. *)

\* The elements of s that are in S, in their order.
Only(s, S) ==
    FlattenSeq([k \in 1 .. Len(s) |-> IF s[k] \in S THEN <<s[k]>> ELSE <<>>])

\* The pair block b of one side belongs to; 0 if it has none yet.
PairOf(known, side, b) == SelectInSeq(known, LAMBDA p : p[side] = b)

\* pair: a new pair when neither block has one.
Pair(known, edge) ==
    IF PairOf(known, "left", edge.left) = 0 /\ PairOf(known, "right", edge.right) = 0
    THEN Append(known, edge) ELSE known

\* Two different blocks may not share a peer: then the edge is no pair.
PairAll(known, edges) ==
    LET paired[k \in 0 .. Len(edges)] ==
            IF k = 0 THEN known ELSE Pair(paired[k - 1], edges[k])
    IN  paired[Len(edges)]

Consistent(known, edges) == ToSet(edges) \subseteq ToSet(PairAll(known, edges))

CaseTarget(block, label) == block.succ[1 + SelectInSeq(block.labels, LAMBDA l : l = label)]

\* Two orders merged if only one of them could have identities of its own.
MergeOrderLeft(first, second) ==
    IF ToSet(second) \subseteq ToSet(first) THEN first ELSE <<>>

\* mergeOrder: shared identities are anchors, those of one side go before the
\* next anchor.  It stops where the two sides meet different anchors.
MergeTurn(first, second, m) ==
    IF m.a <= Len(first) /\ first[m.a] \notin ToSet(second)
    THEN [order |-> Append(m.order, first[m.a]), a |-> m.a + 1, b |-> m.b]
    ELSE IF m.b <= Len(second) /\ second[m.b] \notin ToSet(first)
    THEN [order |-> Append(m.order, second[m.b]), a |-> m.a, b |-> m.b + 1]
    ELSE IF m.a <= Len(first) /\ m.b <= Len(second) /\ first[m.a] = second[m.b]
    THEN [order |-> Append(m.order, first[m.a]), a |-> m.a + 1, b |-> m.b + 1]
    ELSE m

MergeOrder(first, second) ==
    LET turn[k \in 0 .. Len(first) + Len(second)] ==
            IF k = 0 THEN [order |-> <<>>, a |-> 1, b |-> 1]
            ELSE MergeTurn(first, second, turn[k - 1])
    IN  turn[Len(first) + Len(second)].order

Ordered(first, second) ==
    ToSet(MergeOrder(first, second)) = ToSet(first) \cup ToSet(second)

-----------------------------------------------------------------------------
(* matchShared and matchSwitch, one pair of blocks a step. *)

\* The edges two terminators of the same kind share: those of a branch by
\* position, those of a switch by default and label, in the right one's order.
SharedEdges(a, b) ==
    IF a.kind # "switch"
    THEN [k \in DOMAIN a.succ |-> [left |-> a.succ[k], right |-> b.succ[k]]]
    ELSE LET shared == Only(b.labels, ToSet(a.labels))
         IN  <<[left |-> a.succ[1], right |-> b.succ[1]]>>
               \o [k \in DOMAIN shared |-> [left |-> CaseTarget(a, shared[k]),
                                            right |-> CaseTarget(b, shared[k])]]

Matching(a, b) ==
    /\ a.kind = b.kind
    /\ a.kind = "switch" => /\ a.width = b.width /\ a.width <= 64
                            /\ Ordered(a.labels, b.labels)
    /\ Consistent(pairs, SharedEdges(a, b))

\* The arms of a pair of switches: the cases of one side only, in merged order.
NewArms(p, a, b) ==
    LET shared == ToSet(a.labels) \cap ToSet(b.labels)
        labels == Only(MergeOrder(a.labels, b.labels),
                       (ToSet(a.labels) \cup ToSet(b.labels)) \ shared)
        Side(l) == IF l \in ToSet(a.labels) THEN "left" ELSE "right"
    IN  [k \in DOMAIN labels |->
            [side |-> Side(labels[k]), source |-> p[Side(labels[k])],
             label |-> labels[k], chain |-> <<>>]]

MatchShared ==
    /\ stage = "shared" /\ next \in DOMAIN pairs
    /\ LET p == pairs[next]
           a == left[p.left]
           b == right[p.right]
       IN  IF ~Matching(a, b) THEN Refuse
           ELSE /\ pairs' = PairAll(pairs, SharedEdges(a, b))
                /\ next' = next + 1
                /\ IF a.kind = "switch"
                   THEN /\ switches' = Append(switches,
                               [left |-> p.left, right |-> p.right,
                                labels |-> MergeOrder(a.labels, b.labels)])
                        /\ arms' = arms \o NewArms(p, a, b)
                   ELSE UNCHANGED <<switches, arms>>
                /\ UNCHANGED <<left, right, stage>>

\* All shared blocks are known.  A function with arms may not have PHIs.
SharedMatched ==
    /\ stage = "shared" /\ next > Len(pairs)
    /\ IF arms # <<>> /\ \E b \in ToSet(left) \cup ToSet(right) : b.phi
       THEN Refuse
       ELSE /\ stage' = "arms" /\ next' = 1
            /\ UNCHANGED <<left, right, pairs, switches, arms>>

-----------------------------------------------------------------------------
(* qualifyArm, one block of a chain a step. *)

Function(side) == IF side = "left" THEN left ELSE right

\* The edges into block b.
Incoming(f, b) ==
    {edge \in UNION {{i} \X DOMAIN f[i].succ : i \in DOMAIN f} :
        f[edge[1]].succ[edge[2]] = b}

\* The block an arm has reached, and the one it came from.
Reached(arm) ==
    LET f == Function(arm.side)
    IN  IF arm.chain = <<>> THEN CaseTarget(f[arm.source], arm.label)
        ELSE f[Last(arm.chain)].succ[1]

CameFrom(arm) == IF arm.chain = <<>> THEN arm.source ELSE Last(arm.chain)

\* Mutant: every block of an arm is taken to be entered from its switch.
OwnBlockOfSource(arm) ==
    LET f == Function(arm.side)
        b == Reached(arm)
    IN  /\ ~Contains(arm.chain, b)
        /\ \E k \in DOMAIN f[arm.source].succ : Incoming(f, b) = {<<arm.source, k>>}
        /\ f[b].kind = "br"

\* An own block: entered by the arm's edge alone, and left unconditionally.
OwnBlock(arm) ==
    LET f == Function(arm.side)
        b == Reached(arm)
    IN  /\ ~Contains(arm.chain, b)
        /\ \E k \in DOMAIN f[CameFrom(arm)].succ : Incoming(f, b) = {<<CameFrom(arm), k>>}
        /\ f[b].kind = "br"

WalkArm ==
    /\ stage = "arms" /\ next \in DOMAIN arms
    /\ LET arm == arms[next]
           rejoined == PairOf(pairs, arm.side, Reached(arm))
       IN  IF rejoined = 0
           THEN IF ~OwnBlock(arm) THEN Refuse
                ELSE /\ arms' = [arms EXCEPT ![next].chain = Append(@, Reached(arm))]
                     /\ UNCHANGED <<left, right, stage, pairs, next, switches>>
           ELSE IF arm.chain = <<>> \/ 0 \in {pairs[rejoined].left, pairs[rejoined].right}
                THEN Refuse
                ELSE /\ pairs' = pairs \o [k \in DOMAIN arm.chain |->
                            IF arm.side = "left" THEN [left |-> arm.chain[k], right |-> 0]
                            ELSE [left |-> 0, right |-> arm.chain[k]]]
                     /\ next' = next + 1
                     /\ UNCHANGED <<left, right, stage, switches, arms>>

\* Blocks and switches in an order both functions agree with.
FinishPairing ==
    /\ stage = "arms" /\ next > Len(arms)
    /\ LET leftOrder == [b \in DOMAIN left |-> PairOf(pairs, "left", b)]
           rightOrder == [b \in DOMAIN right |-> PairOf(pairs, "right", b)]
           order == MergeOrder(leftOrder, rightOrder)
           blocks == [k \in DOMAIN order |-> pairs[order[k]]]
       IN  IF 0 \in ToSet(leftOrder) \cup ToSet(rightOrder) \/ ~Ordered(leftOrder, rightOrder)
           THEN Refuse
           ELSE /\ pairs' = blocks
                /\ switches' = FlattenSeq([k \in DOMAIN blocks |->
                       Only(switches, {s \in ToSet(switches) : s.left = blocks[k].left})])
                /\ stage' = "paired"
                /\ UNCHANGED <<left, right, next, arms>>

PairingNext == MatchShared \/ SharedMatched \/ WalkArm \/ FinishPairing

-----------------------------------------------------------------------------
(***************************************************************************)
(* What pairing promises.                                                  *)
(***************************************************************************)

\* The pair a case of a switch leads to.
CaseSuccessor(s, l) ==
    IF l \in ToSet(left[s.left].labels)
    THEN PairOf(pairs, "left", CaseTarget(left[s.left], l))
    ELSE PairOf(pairs, "right", CaseTarget(right[s.right], l))

\* One side of the paired graph is that side's native function: its blocks in
\* their order, and every switch with its own default, cases and case order.
Projects(side) ==
    LET f == Function(side)
        Mine(s) == Only(s.labels, ToSet(f[s[side]].labels))
    IN  /\ Only([k \in DOMAIN pairs |-> pairs[k][side]], DOMAIN f) = [b \in DOMAIN f |-> b]
        /\ {b \in DOMAIN f : f[b].kind = "switch"} = {switches[k][side] : k \in DOMAIN switches}
        /\ \A k \in DOMAIN switches :
              LET s == switches[k]
              IN  /\ Mine(s) = f[s[side]].labels
                  /\ pairs[PairOf(pairs, "left", left[s.left].succ[1])][side]
                        = f[s[side]].succ[1]
                  /\ \A l \in ToSet(Mine(s)) :
                        pairs[CaseSuccessor(s, l)][side] = CaseTarget(f[s[side]], l)

\* "The resulting block/case lists preserve BOTH original orders when filtered by
\* domain" (ConditionalCFG.h), for every pair of functions pairConditionalCFG
\* accepts.
PairingProjects == stage = "paired" => Projects("left") /\ Projects("right")

=============================================================================
