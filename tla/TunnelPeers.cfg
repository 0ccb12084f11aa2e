SPECIFICATION Spec
CONSTANTS
    MaxSends = 2
    MaxControls = 1
INVARIANTS
    Understood
    Conserved
PROPERTIES
    BothReady
CHECK_DEADLOCK FALSE
