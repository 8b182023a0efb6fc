SPECIFICATION Spec
CONSTANTS
    Agents <- Peers
    NoSession = "none"
    Family <- MCFamily
    Stamped <- OneStamped
    Files = {f1, f2}
    Small = 1
    Large = 2
    MaxAge = 1
    Legacy = {}
    MaxFacts = 3
    MaxTime = 2
    MaxDrafts = 1
    None = None
SYMMETRY Symmetry
INVARIANT ClaimsDisjoint
CHECK_DEADLOCK FALSE
