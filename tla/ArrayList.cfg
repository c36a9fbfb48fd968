CONSTANTS
    Objects = {o1, o2, o3}
    NULL = NULL
    MinDelta = 2
    MaxAhead = 3
SPECIFICATION Spec
INVARIANTS
    InBounds
    Conservation
PROPERTIES
    ListSpec
