SPECIFICATION Spec
CONSTANTS
    Calls = {c1}
    Kinds = {"static send"}
    Throwing = FALSE
    Nobody = Nobody
INVARIANT StaysAlive
CHECK_DEADLOCK FALSE
