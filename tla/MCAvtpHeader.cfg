SPECIFICATION Spec
CONSTANTS
    Formats <- MCFormats
    Garbage <- MCGarbage
    Values <- MCValues
    MaxWrites <- MCMaxWrites
INVARIANTS
    HeaderInv
    ViewsAgree
    LsbIsCopy
    FieldsIndependent
CHECK_DEADLOCK FALSE
