SPECIFICATION Spec
CONSTANTS
    k1 = k1
    k2 = k2
    p1 = p1
    p2 = p2
    r1 = r1
    i1 = i1
    i2 = i2
    i3 = i3
    i4 = i4
    e1 = e1
    e2 = e2
    Keys = {k1}
    Encodings = {e1}
    Publishers = {p1, p2}
    Readers = {r1}
    Inodes = {i1, i2, i3}
    None = None
    Partial = Partial
    Mixed = Mixed
    Budget = 1
    MaxFailures = 0
SYMMETRY Symmetric
INVARIANT
    ReadsWhole
