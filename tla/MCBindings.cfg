SPECIFICATION Spec
CONSTANT MaxItems = 3
INVARIANTS
    OptionsReachCore
    BatchIsPointwise
    RefusalsEncode
