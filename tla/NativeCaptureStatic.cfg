CONSTANTS
    c1 = c1  c2 = c2  l1 = l1  l2 = l2  o1 = o1  o2 = o2  f1 = f1  out = out  lib = lib
    NoFile = NoFile  Garbage = Garbage  Reserved = Reserved
    Disturbed = Disturbed  Refused = Refused
    Compile = {c1, c2}
    Link = {}
    Object = {o1, o2}
    Input = {f1}
    Output = {out}
    Content = {v1, v2}
    Name = {n1, n2}
    InputOf <- MCInputOf
    ObjectOf <- RebuildObjectOf
    ObjectsOf <- NoLinkObjects
    DsosOf <- NoLinkDsos
    OutputOf <- NoLinkOutput
    Unqualified = {}
    Selected = out
    MaxMembers = 2
SPECIFICATION Spec
INVARIANTS MembersFaithful MembersFresh
