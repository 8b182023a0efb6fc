SPECIFICATION FairSpec
CONSTANTS
    Procs = {p1, p2}
    NoProc = NoProc
    NoOp = NoOp
    i1 = i1
    i2 = i2
    Ids = {i1, i3}
    NoKey = NoKey
    KeyOf <- MCKeyOf
    Segs = {s1}
    MaxSeq = 2
INVARIANTS TypeOK IdUnique ProofHonest
PROPERTIES ContractSpec RequestEnds
