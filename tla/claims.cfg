SPECIFICATION Spec
CONSTANTS
    Agents <- Everyone
    NoSession = "none"
    Family <- MCFamily
    Stamped <- OneStamped
    Files = {f1, f2}
    Small = 1
    Large = 2
    MaxAge = 1
    Legacy <- OldOnes
    MaxFacts = 3
    MaxTime = 2
    MaxDrafts = 2
    None = None
SYMMETRY Symmetry
INVARIANTS OverlapNeedsWithdrawal ClosedHoldsNothing
PROPERTIES LiveClaimKept ReapedIsDead
CHECK_DEADLOCK FALSE
