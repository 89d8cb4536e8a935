SPECIFICATION Spec
CONSTANTS
    Requests = {q1, q2}
    Keys = {k1}
    Operations = {"delete_agent", "cancel_execution"}
    NoRequest = NoRequest
    Faults = {"cancel", "crash", "dbError", "ackLost"}
SYMMETRY Symmetry
INVARIANT AtMostOncePerKey
INVARIANT MutationsAreStored
INVARIANT SucceededMeansApplied
INVARIANT ActionAuditAgrees
PROPERTY LedgerSpec
