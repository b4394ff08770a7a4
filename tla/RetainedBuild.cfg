CONSTANTS
    c1 = c1  c2 = c2  l1 = l1  l2 = l2  o1 = o1  o2 = o2  f1 = f1  out = out
    NoFile = NoFile  Garbage = Garbage  Reserved = Reserved
    Disturbed = Disturbed  Refused = Refused
    Compile = {c1, c2}
    Link = {l1, l2}
    Object = {o1, o2}
    Input = {f1}
    Output = {out}
    Content = {v1}
    Name = {n1, n2}
    InputOf <- MCInputOf
    ObjectOf <- MCObjectOf
    ObjectsOf <- MCObjectsOf
    DsosOf <- MCDsosOf
    OutputOf <- MCOutputOf
    Unqualified = {l1}
    Selected = out
    MaxMembers = 1
    MaxTouches = 1
SPECIFICATION RetainedSpec
SYMMETRY NameSymmetry
CONSTRAINT ArchivedLast
INVARIANTS RelinkFaithful RetainedFaithful RetainedAgrees
