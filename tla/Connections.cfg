SPECIFICATION Spec
CONSTANTS
    Ids = {1, 2, 3}
    Urls = {u1, u2}
    Kinds = {"gantry"}
    Routes = {"alias"}
    Requests = {q1, q2}
    None = None
    Faults = {"abort"}
INVARIANT MergesEnd
INVARIANT ActiveIsRouted
INVARIANT MergedIsRouted
INVARIANT ArchiveAuditAgrees
PROPERTY RegistrySpec
PROPERTY RequestsEnd
CHECK_DEADLOCK FALSE
