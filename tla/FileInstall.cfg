CONSTANTS
    p1 = p1  p2 = p2  v0 = v0  v1 = v1  v2 = v2  c1 = c1
    NoInode = NoInode
    Previous = old
    Publisher = {p1, p2}
    Consumer = {c1}
    Version = {v0, v1, v2}
    VersionOf <- mcVersionOf
    Size <- mcSize
    Limit = 2
    OldVersion = v0
SPECIFICATION Spec
INVARIANTS OutputWhole ReadersUndisturbed
