\* Every combination of up to two stock objects, input scopes, link records and
\* member names; and every permutation argument of length up to three, right or
\* wrong, on sound objects.
CONSTANTS
    a = a  b = b  o2 = o2  o3 = o3  mem1 = mem1  mem2 = mem2
    NoMember = NoMember  NoScript = NoScript  NoOptions = NoOptions
    mcMaxInputs = 2
    MaxModules = 4
    MaxFiles = 6
    InspectFails <- mcBad
SPECIFICATION BoundedSpec
INVARIANTS NeverNarrows LinkFaithful RefusalsJustified
