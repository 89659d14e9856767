CONSTANTS
    a1 = a1
    a2 = a2
    b1 = b1
    ma = ma
    mb = mb
    ra = ra
    rb = rb
    Components <- ThreeComponents
    ModelOf <- TwoModels
    Registrant <- TwoRegistrants
    FirstTab <- OneRow
    CompBatch = 2
    ModelBatch = 3
    MaxCalls = 2
    v1 = v1
    v2 = v2
    Star = Star
    RowModel <- ThreeRows
    RowVersion <- ThreeVersions
    Withheld <- Middle
    Versions <- TwoVersions
    All = All
SPECIFICATION MCSpec
INVARIANTS
    TypesOK
    LosesAtMostOneRow
    RepeatsOnlyUnseen
    HandledIsAppended
    FilesDistinct
    NamesRecorded
PROPERTY SheetsReturn
CHECK_DEADLOCK FALSE
