CONSTANTS
    f1 = f1
    f2 = f2
    Flows = {f1, f2}
    Mtu = 3
    Header = 1
    Configs <- MCConfigs
SPECIFICATION Spec
INVARIANT LinkTypeOK
INVARIANT NothingStranded
INVARIANT DeviceHasRoom
INVARIANT BackloggedIsListed
INVARIANT NoFlowStarved
PROPERTY ImplementsPipe
CHECK_DEADLOCK FALSE
