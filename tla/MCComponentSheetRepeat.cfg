CONSTANTS
    a1 = a1
    a2 = a2
    b1 = b1
    ma = ma
    mb = mb
    ra = ra
    rb = rb
    Components <- ThreeComponents
    ModelOf <- TwoModels
    Registrant <- TwoRegistrants
    FirstTab <- OneRow
    CompBatch = 2
    ModelBatch = 3
    MaxCalls = 2
SPECIFICATION Spec
INVARIANT NoRepeatedRows
CHECK_DEADLOCK FALSE
