SPECIFICATION PowerLossSpec
CONSTANTS
    Procs = {p1}
    NoProc = NoProc
    NoOp = NoOp
    i1 = i1
    i2 = i2
    Ids = {i1, i2, i3}
    NoKey = NoKey
    KeyOf <- MCKeyOf
    Segs = {s1, s2}
    MaxSeq = 3
SYMMETRY Symmetry
INVARIANTS SeqUnique AckedDurable NoCorruptLine KeyUnique
