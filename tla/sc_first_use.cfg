SPECIFICATION Spec
CONSTANTS
    a = a
    b = b
    Thread = {a, b}
    Servers = 3
    MaxTs = 2
    Faults = {}
SYMMETRY Symmetry
INVARIANT MutualExclusion
