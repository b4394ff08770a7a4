------------------------------ MODULE SelaLink ------------------------------
(***************************************************************************)
(* The publication linker sela-ld (LinkMain.cpp): it joins relocatable     *)
(* Sela objects into one package.  Objects may serve different targets,    *)
(* may be scoped to some of the requested targets (--sela-input-domain),   *)
(* and a target may want its units in an order of its own                  *)
(* (--sela-unit-order).  One step checks the arguments, one step admits    *)
(* each input, one step orders the units and writes the package.           *)
(*                                                                         *)
(* Left out: the spelling of options and response files, the byte limits,  *)
(* and the alias checks on the output path.                                *)
(***************************************************************************)
EXTENDS Artifact

CONSTANTS
    InspectFails  \* the fragments inspectArtifact does not accept

\* A member name the linker makes up ("m0.o", "m1.o", ...) is not empty.
ASSUME MemberAssumption == NoMember \notin {"m"} \X Nat

VARIABLES
    args,     \* the parsed command line
    work,     \* what the inputs admitted so far contribute
    result    \* "running", a refusal or the package written

vars == <<args, work, result>>

Running == [status |-> "running"]
Refusal(why) == [status |-> "refused", why |-> why]
Written(package) == [status |-> "written", package |-> package]

NoWork(targets) ==
    [next |-> 0, modules |-> <<>>, plan |-> [t \in targets |-> <<>>],
     libraries |-> [t \in targets |-> <<>>]]

IsSeq(s) == s \in Seq(ToSet(s))

\* What the JSON of a package, valid or not, is decoded to.
Decoded(package) ==
    /\ IsSeq(package.modules)
    /\ \A t \in DOMAIN package.plan :
          /\ IsSeq(package.plan[t])
          /\ \A i \in DOMAIN package.plan[t] : package.plan[t][i].modules \in Seq(Nat)

\* The command lines option parsing lets through: some kind and targets, member
\* names that are not empty, and orders that are lists of numbers.
CommandLine ==
    /\ args.kind \in Kinds /\ args.targets # {}
    /\ IsSeq(args.inputs) /\ \A k \in DOMAIN args.inputs : Decoded(args.inputs[k])
    /\ IsSeq(args.names) /\ NoMember \notin ToSet(args.names)
    /\ \A t \in DOMAIN args.orders : args.orders[t] \in Seq(Nat)

LinkInit == CommandLine /\ work = NoWork(args.targets) /\ result = Running

\* The targets input k would have to serve if the others were passed over.
RequiredAndAdmitted(k) ==
    (IF k \in DOMAIN args.domains THEN args.domains[k] ELSE args.targets)
      \cap args.inputs[k].targets

\* The targets input k has to serve: all requested ones unless it is scoped.
RequiredTargets(k) ==
    IF k \in DOMAIN args.domains THEN args.domains[k] ELSE args.targets

Refuse(why) == result' = Refusal(why) /\ UNCHANGED <<args, work>>

\* The checks made before any input is read.
ArgumentProblem ==
    \/ args.inputs = <<>> /\ args.kind # "static"
    \/ /\ DOMAIN args.links # {}
       /\ DOMAIN args.links # args.targets \/ args.common # EmptyLink
    \/ \E k \in DOMAIN args.domains :
          \/ k \notin DOMAIN args.inputs
          \/ ~ (args.domains[k] \subseteq args.targets)
    \/ /\ args.names # <<>>
       /\ args.kind # "static" \/ Len(args.names) # Len(args.inputs)

CheckArguments ==
    /\ result = Running /\ work.next = 0
    /\ IF ArgumentProblem
       THEN Refuse("arguments")
       ELSE work' = [work EXCEPT !.next = 1] /\ UNCHANGED <<args, result>>

\* The fragments that serve no other than required targets.
ActiveFragmentsWhole(modules, required) ==
    FlattenSeq([i \in DOMAIN modules |->
        IF modules[i].targets \subseteq required THEN <<i>> ELSE <<>>])

\* Fragments of an input that serve a required target, in their order.
ActiveFragments(modules, required) ==
    FlattenSeq([i \in DOMAIN modules |->
        IF modules[i].targets \cap required # {} THEN <<i>> ELSE <<>>])

\* moduleIndices: where each active fragment of an input lands in the package;
\* 0 stands for std::nullopt.
ModuleIndices(modules, required) ==
    LET active == ActiveFragments(modules, required)
    IN  [i \in DOMAIN modules |->
            IF Contains(active, i)
            THEN Len(work.modules) + SelectInSeq(active, LAMBDA a : a = i)
            ELSE 0]

\* The limit is tested before every fragment, active or not, and the fragment is
\* inspected after it: this is the first fragment refused.
TooManyModules(modules, required) ==
    \E i \in DOMAIN modules :
        /\ Len(work.modules)
             + Cardinality({j \in ToSet(ActiveFragments(modules, required)) : j < i})
             >= MaxModules
        /\ \A j \in 1 .. i - 1 : modules[j].bytecode \notin InspectFails

\* Names taken by the position of the unit rather than of its input.
MemberNameByPosition(k, position) ==
    IF args.kind # "static" THEN NoMember
    ELSE IF args.names = <<>> THEN <<"m", position>> ELSE args.names[position + 1]

MemberName(k, position) ==
    IF args.kind # "static" THEN NoMember
    ELSE IF args.names = <<>> THEN <<"m", position>> ELSE args.names[k]

\* What input k may be refused for, in the order the linker looks.
InputProblem(k, object) ==
    IF ~ ValidPackage(object) THEN {"invalid"}
    ELSE IF object.kind # "object" THEN {"kind"}
    ELSE IF ~ (RequiredTargets(k) \subseteq object.targets) THEN {"targets"}
    ELSE LET required == RequiredTargets(k)
             indices == ModuleIndices(object.modules, required)
         IN  IF TooManyModules(object.modules, required) THEN {"limit"}
             ELSE IF \E i \in DOMAIN object.modules :
                        object.modules[i].bytecode \in InspectFails
             THEN {"bytecode"}
             ELSE IF /\ args.kind = "static"
                     /\ \E t \in required : Len(object.plan[t]) # 1
             THEN {"members"}
             ELSE IF \E t \in required : \E i \in ToSet(References(object.plan[t])) :
                        indices[i] = 0
             THEN {"inactive"}
             ELSE {}

AdmitInput ==
    /\ result = Running /\ work.next \in DOMAIN args.inputs
    /\ LET k == work.next
           object == args.inputs[k]
           required == RequiredTargets(k)
           indices == ModuleIndices(object.modules, required)
           active == ActiveFragments(object.modules, required)
           Renumber(t, unit, i) ==
               [modules |-> [j \in DOMAIN unit.modules |-> indices[unit.modules[j]]],
                optimization |-> unit.optimization,
                member |-> IF args.kind = "static"
                           THEN MemberName(k, Len(work.plan[t]) + i - 1)
                           ELSE unit.member]
       IN  \/ \E why \in InputProblem(k, object) : Refuse(why)
           \/ /\ InputProblem(k, object) = {}
              /\ work' =
                  [next |-> k + 1,
                   modules |-> work.modules \o
                       [j \in DOMAIN active |->
                           [bytecode |-> object.modules[active[j]].bytecode,
                            targets |-> object.modules[active[j]].targets \cap required]],
                   plan |-> [t \in args.targets |->
                       IF t \in required
                       THEN work.plan[t] \o
                            [i \in DOMAIN object.plan[t] |->
                                Renumber(t, object.plan[t][i], i)]
                       ELSE work.plan[t]],
                   libraries |-> [t \in args.targets |->
                       IF t \in required
                       THEN work.libraries[t] \o object.links[t].libraries
                       ELSE work.libraries[t]]]
              /\ UNCHANGED <<args, result>>

\* Each permutation has to name every unit admitted for its target once.
OrderProblem ==
    \E t \in DOMAIN args.orders :
        \/ t \notin args.targets
        \/ Len(args.orders[t]) # Len(work.plan[t])
        \/ ToSet(args.orders[t]) # DOMAIN work.plan[t]

\* The ordered plan if unit i were put at place order[i].
OrderedPlanInverted ==
    [t \in args.targets |->
        IF t \in DOMAIN args.orders
        THEN [i \in DOMAIN args.orders[t] |->
                 work.plan[t][CHOOSE j \in DOMAIN args.orders[t] : args.orders[t][j] = i]]
        ELSE work.plan[t]]

OrderedPlan ==
    [t \in args.targets |->
        IF t \in DOMAIN args.orders
        THEN [i \in DOMAIN args.orders[t] |-> work.plan[t][args.orders[t][i]]]
        ELSE work.plan[t]]

\* The link settings if target records were not looked at.
FinalLinksCommon ==
    [t \in args.targets |->
        [args.common EXCEPT !.libraries = @ \o work.libraries[t]]]

FinalLinks ==
    [t \in args.targets |->
        LET link == IF DOMAIN args.links = {} THEN args.common ELSE args.links[t]
        IN  [link EXCEPT !.libraries = @ \o work.libraries[t]]]

WritePackage ==
    /\ result = Running /\ work.next = Len(args.inputs) + 1
    /\ IF OrderProblem THEN Refuse("order")
       ELSE LET package == [kind |-> args.kind, targets |-> args.targets,
                            modules |-> work.modules, plan |-> OrderedPlan,
                            links |-> FinalLinks]
            IN  IF ~ ValidPackage(package) THEN Refuse("package")
                ELSE IF FileCount(package) > MaxFiles THEN Refuse("files")
                ELSE result' = Written(package) /\ UNCHANGED <<args, work>>

\* sela-ld has exited.
Exited == result # Running /\ UNCHANGED vars

Next == CheckArguments \/ AdmitInput \/ WritePackage \/ Exited

LinkSpec == LinkInit /\ [][Next]_vars

-----------------------------------------------------------------------------
(***************************************************************************)
(* What sela-ld promises.                                                  *)
(***************************************************************************)

\* The targets the command line asks of input k.
Asked(k) == IF k \in DOMAIN args.domains THEN args.domains[k] ELSE args.targets

\* The units input k was published with for target t.
Contribution(k, t) ==
    IF t \in Asked(k) THEN Recovered(args.inputs[k], t) ELSE <<>>

\* The units of all inputs for target t, in command-line order, with the
\* archive member names of a static output.
Joined(t) ==
    LET origin == FlattenSeq([k \in DOMAIN args.inputs |->
                      [i \in DOMAIN Contribution(k, t) |-> k]])
        units == FlattenSeq([k \in DOMAIN args.inputs |-> Contribution(k, t)])
    IN  [i \in DOMAIN units |->
            [units[i] EXCEPT !.member =
                IF args.kind # "static" THEN NoMember
                ELSE IF args.names = <<>> THEN <<"m", i - 1>>
                ELSE args.names[origin[i]]]]

Expected(t) ==
    IF t \in DOMAIN args.orders
    THEN [i \in DOMAIN args.orders[t] |-> Joined(t)[args.orders[t][i]]]
    ELSE Joined(t)

\* For every requested target the package holds exactly the units of the inputs
\* that serve it: the same bytecode in the same order at the same optimization,
\* however fragments were renumbered, narrowed or shared between targets.
LinkFaithful ==
    result.status = "written" =>
        \A t \in args.targets : Recovered(result.package, t) = Expected(t)

\* Publication never silently narrows: a package serves every requested target,
\* and each input it was made from served all the targets asked of it.
NeverNarrows ==
    result.status = "written" =>
        /\ result.package.targets = args.targets
        /\ \A k \in DOMAIN args.inputs :
              Asked(k) \subseteq args.inputs[k].targets

\* Inputs that were admitted never make a plan the artifact layer refuses: the
\* final validation only ever rejects link settings the kind may not have, or
\* a package without any fragment, and no active unit loses a fragment.
RefusalsJustified ==
    result.status = "refused" =>
        /\ result.why # "inactive"
        /\ result.why = "package" =>
              \/ \E t \in args.targets : ~ ValidLinkRecord(args.kind, FinalLinks[t])
              \/ work.modules = <<>> /\ args.kind # "static"

=============================================================================
