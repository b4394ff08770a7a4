\* Two targets, up to three units each: pairings, permutations and scopes, and the
\* same definitions split differently.
CONSTANTS
    a = a  b = b  c = c
    NoMember = NoMember  NoScript = NoScript  NoOptions = NoOptions
    NotBuilt = NotBuilt
    Targets <- mcTwo
    Exported <- mcExported
    InspectFails <- mcNone
    mcMaxUnits = 3
    MaxModules = 10
    MaxFiles = 12
SPECIFICATION TwoSpec
INVARIANTS EndToEnd LinkAccepts
PROPERTIES ImplementsExact
