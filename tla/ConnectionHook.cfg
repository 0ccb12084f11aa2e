SPECIFICATION Spec
CONSTANTS
    Hooks = {react}
    Composables = {vue}
    MaxCalls = 2
    MaxConnects = 2
    None = None
    MaxActs = 3
INVARIANTS TypeOK ShownConnected Referenced
PROPERTIES BridgeStable Loaded ConnectSettles
CHECK_DEADLOCK FALSE
CONSTRAINT FewActs
