\* Three targets, up to two units each, or one with link settings; tight limits.
CONSTANTS
    a = a  b = b  c = c
    NoMember = NoMember  NoScript = NoScript  NoOptions = NoOptions
    NotBuilt = NotBuilt
    Targets <- mcThree
    Exported <- mcExported
    InspectFails <- mcNone
    mcMaxUnits = 2
    MaxModules = 4
    MaxFiles = 5
SPECIFICATION ThreeSpec
INVARIANTS EndToEnd LinksFaithful
