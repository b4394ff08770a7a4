--------------------------- MODULE MCCommonGraph ---------------------------
(***************************************************************************)
(* Small functions for TLC: an initial state chooses a function for each   *)
(* target, and the model then pairs and merges them.                       *)
(***************************************************************************)
EXTENDS CommonGraphInvariant

Block(kind, succ) ==
    [kind |-> kind, width |-> 32, labels |-> <<>>, succ |-> succ, phi |-> FALSE]
Return == Block("return", <<>>)
Branches(targets) == {Block("br", <<b>>) : b \in targets}

\* Switches with the given default, every order of up to two labels and every
\* choice of targets.
Switches(default, targets) ==
    UNION {{[Block("switch", <<default>> \o to) EXCEPT !.labels = labels] :
               to \in [DOMAIN labels -> targets]} :
           labels \in {<<>>, <<1>>, <<2>>, <<1, 2>>, <<2, 1>>}}

\* Three blocks.  No edge leads to the entry.
Small ==
    {<<entry, b, c>> :
        entry \in Branches({2}) \cup {Block("cond", <<2, 3>>), Block("cond", <<3, 2>>)}
                  \cup Switches(2, {2, 3}) \cup Switches(3, {2, 3}),
        b \in {Return} \cup Branches({2, 3}),
        c \in {Return, Block("unreachable", <<>>)} \cup Branches({2})}

\* A switch whose default returns, in block 4, and two blocks its cases may lead
\* through, alone or one after the other.
Wide ==
    {<<entry, b, c, Return>> : entry \in Switches(4, {2, 3, 4}),
                               b \in Branches({3, 4}), c \in Branches({2, 4})}

\* The same switch where the default comes before the blocks of the cases.
Early ==
    {<<entry, Return, b, c>> : entry \in Switches(2, {2, 3, 4}),
                               b \in Branches({2, 4}), c \in Branches({2})}

\* A switch with at most one arm, plain, with a PHI where the arm rejoins, and with
\* wider selectors.
Joining == {<<entry, b, Return>> : entry \in Switches(3, {2, 3}), b \in Branches({3})}
Marked ==
    Joining \cup {[f EXCEPT ![3].phi = TRUE] : f \in Joining}
            \cup {[f EXCEPT ![1].width = w] : f \in Joining, w \in {64, 65}}

\* No blocks but the entry and the return.
Plain == {<<entry, Return>> : entry \in Branches({2}) \cup Switches(2, {2})}

Armed == Wide \cup Early \cup Plain

\* Four blocks in any order, the second a further switch or not.
Nested ==
    LET plain == {Return} \cup Branches(2 .. 4)
        inner == {[Block("switch", <<default, to>>) EXCEPT !.labels = <<1>>] :
                     default, to \in 2 .. 4}
    IN  {<<entry, b, c, d>> : entry \in UNION {Switches(default, 2 .. 4) : default \in 2 .. 4},
                              b \in plain \cup inner, c, d \in plain}

GivenInit(inputs) == functions = inputs /\ CommonInit

\* Two targets with functions of one stock.
TwoInit ==
    \/ \E f, g \in Small : GivenInit(<<f, g>>)
    \/ \E f, g \in Armed : GivenInit(<<f, g>>)
    \/ \E f, g \in Marked : GivenInit(<<f, g>>)

\* Two targets, one of which lacks some private arms of the other.
ArmsInit ==
    \E f \in Nested : \E own \in SUBSET {b \in DOMAIN f : f[b].kind = "br"} :
        /\ own # {} /\ PrivateArms(f, own)
        /\ GivenInit(<<f, Less(f, own)>>) \/ GivenInit(<<Less(f, own), f>>)

\* Three targets, the first without arms.
ThreeInit == \E f \in Plain, g, h \in Armed : GivenInit(<<f, g, h>>)

GraphSpec == (TwoInit \/ ArmsInit \/ ThreeInit) /\ [][CommonNext]_commonVars

=============================================================================
