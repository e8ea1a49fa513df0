SPECIFICATION Spec
CONSTANTS
    k1 = k1
    k2 = k2
    k3 = k3
    e1 = e1
    e2 = e2
    Key = {k1, k2}
    Elem = {e1, e2}
    Default = Default
    MaxValue = 2
    MaxOptions = 4
INVARIANT Layout
INVARIANT GetFindsList
INVARIANT SplitIsRight
PROPERTY ImplementsMap
