--------------------------- MODULE ExactPublication ---------------------------
(***************************************************************************)
(* What a publication is to those who do not see how it is made: at some   *)
(* point the artifact appears, whole, with exactly the native units that   *)
(* each target's own build selected and the settings its link used, or it  *)
(* never does; devices build what the artifact holds for their target.     *)
(***************************************************************************)

CONSTANTS
    Target,
    NotBuilt

VARIABLES
    chosen,     \* [Target -> [units, link]]: what the native builds selected
    artifact,   \* {}, or the set of the one artifact: what it holds for each target
    device      \* [Target -> NotBuilt or the units selac built]

exactVars == <<chosen, artifact, device>>

Init ==
    /\ artifact = {}
    /\ device = [t \in Target |-> NotBuilt]

Publish ==
    /\ artifact = {}
    /\ artifact' = {chosen}
    /\ UNCHANGED <<chosen, device>>

BuildOn(t) ==
    /\ device[t] = NotBuilt
    /\ \E package \in artifact : device' = [device EXCEPT ![t] = package[t].units]
    /\ UNCHANGED <<chosen, artifact>>

Next == Publish \/ \E t \in Target : BuildOn(t)

Spec == Init /\ [][Next]_exactVars

=============================================================================
