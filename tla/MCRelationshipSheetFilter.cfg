CONSTANTS
    ma = ma
    mb = mb
    v1 = v1
    v2 = v2
    RowModel <- ThreeRows
    RowVersion <- ThreeVersions
    Withheld = {2}
    Versions <- TwoVersions
    Star = Star
    All = All
    MaxCalls = 2
SPECIFICATION Spec
INVARIANT FilenamesUpdated
CHECK_DEADLOCK FALSE
