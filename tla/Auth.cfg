SPECIFICATION Spec
CONSTANTS
    Users = {u1, u2}
    Address = address
    Sids = {1, 2}
    Requests = {q1, q2}
    None = none
    Idle = 1
    Absolute = 2
    Refresh = 0
    Block = 1
    Forget = 2
    AccountThreshold = 1
    AddressThreshold = 2
    Capacity = 2
    MaxTime = 2
    Faults = {"abort"}
SYMMETRY Symmetry
INVARIANT BootstrapClaimedOnce
INVARIANT FailuresEndWithBlock
PROPERTY AccountsSpec
