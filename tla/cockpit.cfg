SPECIFICATION FairSpec
CONSTANTS
    Sessions = {s1}
    Clients = {c1}
    MaxSeq = 3
    MaxDecisions = 1
    Capacity = 1
    MaxErrors = 1
    None = None
INVARIANTS ForwardedIsAllowed NoGap
PROPERTY PendingReleased
