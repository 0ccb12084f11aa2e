SPECIFICATION Spec
CONSTANTS
    Hooks = {react}
    Composables = {}
    MaxCalls = 1
    MaxConnects = 2
    None = None
PROPERTY StaysDisconnected
CHECK_DEADLOCK FALSE
