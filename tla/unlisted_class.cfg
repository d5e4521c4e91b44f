SPECIFICATION ContractSpec
CONSTANTS
    CapabilityIds = {"research", "email"}
    BoundaryIds = {"public", "operator"}
    NodeIds = {"intent"}
    InitialContract <- MCContract
    MaxEdits = 2
CHECK_DEADLOCK FALSE
INVARIANT SideEffectsDefaultToDenied
