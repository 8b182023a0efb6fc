SPECIFICATION FairSpec
CONSTANTS
    Clients = {c1, c2}
    Direct = {c2}
    Nobody = Nobody
INVARIANTS TypeOK RetryIsSafe CommitReported
PROPERTY CommandEnds
