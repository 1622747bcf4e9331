\* Three calls of Replace, one reader, two snapshots, all interchangeable.
SPECIFICATION Spec
CONSTANTS
    w1 = w1
    w2 = w2
    w3 = w3
    r1 = r1
    s1 = s1
    s2 = s2
    Writer = {w1, w2, w3}
    Reader = {r1}
    Snap = {s1, s2}
    NoRows = NoRows
    NoWriter = NoWriter
    MaxFaults = 2
SYMMETRY MCSymmetry
INVARIANT
    NoCircleOfWaits
PROPERTY
    ImplementsRegister
