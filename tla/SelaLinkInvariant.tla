------------------------- MODULE SelaLinkInvariant -------------------------
(***************************************************************************)
(* The inductive invariant of sela-ld: what its accumulators (modules,     *)
(* compilationPlan, next input) hold after each admitted input, relative   *)
(* to the inputs and the command line.                                     *)
(***************************************************************************)
EXTENDS SelaLink

\* The inputs admitted so far, and the package they would make.
Admitted == IF work.next = 0 THEN 0 ELSE work.next - 1
Draft == [modules |-> work.modules, plan |-> work.plan]

\* Joined(t), restricted to the first m inputs.
UnitsTo(t, m) == FlattenSeq([k \in 1 .. m |-> Contribution(k, t)])
OriginTo(t, m) == FlattenSeq([k \in 1 .. m |-> [i \in DOMAIN Contribution(k, t) |-> k]])
JoinedTo(t, m) ==
    [i \in DOMAIN UnitsTo(t, m) |->
        [UnitsTo(t, m)[i] EXCEPT !.member =
            IF args.kind # "static" THEN NoMember
            ELSE IF args.names = <<>> THEN <<"m", i - 1>>
            ELSE args.names[OriginTo(t, m)[i]]]]

\* Inputs are read once the arguments were found consistent, one after another.
Progress ==
    /\ work.next \in 0 .. Len(args.inputs) + 1
    /\ work.next = 0 => work = NoWork(args.targets)
    /\ work.next > 0 => ~ ArgumentProblem

\* Every admitted input is a valid object for all the targets asked of it.
Served ==
    \A k \in 1 .. Admitted :
        /\ ValidPackage(args.inputs[k]) /\ args.inputs[k].kind = "object"
        /\ RequiredTargets(k) \subseteq args.inputs[k].targets

\* Fragments serve requested targets, and units name fragments there are.
Drafted ==
    /\ IsSeq(work.modules)
    /\ \A i \in DOMAIN work.modules :
          /\ work.modules[i].targets # {}
          /\ work.modules[i].targets \subseteq args.targets
    /\ DOMAIN work.plan = args.targets
    /\ \A t \in args.targets :
          /\ IsSeq(work.plan[t])
          /\ \A i \in DOMAIN work.plan[t] :
                /\ work.plan[t][i].modules \in Seq(1 .. Len(work.modules))
                /\ work.plan[t][i].modules # <<>>
                /\ (work.plan[t][i].member # NoMember) <=> (args.kind = "static")

\* Renumbering and narrowing keep each target's plan a partition of the
\* fragments active for it.
Partitioned ==
    \A t \in args.targets :
        /\ IsInjective(References(work.plan[t]))
        /\ ToSet(References(work.plan[t])) = Active(work.modules, t)

\* The draft holds, for each target, the units of the admitted inputs.
Joining ==
    \A t \in args.targets :
        /\ Recovered(Draft, t) = JoinedTo(t, Admitted)
        /\ Len(OriginTo(t, Admitted)) = Len(UnitsTo(t, Admitted))

LinkPromises == NeverNarrows /\ LinkFaithful /\ RefusalsJustified

LinkSound ==
    /\ CommandLine /\ Progress /\ Served /\ Drafted /\ Partitioned /\ Joining
    /\ LinkPromises
=============================================================================
