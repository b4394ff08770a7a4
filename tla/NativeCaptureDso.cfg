CONSTANTS
    c1 = c1  c2 = c2  l1 = l1  l2 = l2  o1 = o1  o2 = o2  f1 = f1  out = out  lib = lib
    NoFile = NoFile  Garbage = Garbage  Reserved = Reserved
    Disturbed = Disturbed  Refused = Refused
    Compile = {c1, c2}
    Link = {l1, l2}
    Object = {o1, o2}
    Input = {f1}
    Output = {out, lib}
    Content = {v1}
    Name = {n1, n2}
    InputOf <- MCInputOf
    ObjectOf <- PairObjectOf
    ObjectsOf <- DsoLinkObjects
    DsosOf <- DsoLinkDsos
    OutputOf <- DsoLinkOutput
    Unqualified = {}
    Selected = out
    MaxMembers = 0
SPECIFICATION Spec
INVARIANTS DsosQualified
