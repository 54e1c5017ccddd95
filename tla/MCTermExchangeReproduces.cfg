SPECIFICATION Spec
CONSTANT Size <- MCSize
INVARIANT EncodeReproduces
CHECK_DEADLOCK FALSE
