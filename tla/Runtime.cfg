SPECIFICATION Spec
CONSTANTS
    Calls = {c1, c2, c3}
    Kinds = {"send", "disconnect", "static send", "static disconnect"}
    Throwing = TRUE
    Nobody = Nobody
INVARIANTS TypeOK DeathCauses
PROPERTY CallsSettle
CHECK_DEADLOCK FALSE
