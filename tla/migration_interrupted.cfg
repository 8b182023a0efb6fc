SPECIFICATION Spec
CONSTANTS
    Lines <- MCLines
    Segs <- MCSegs
    SegOf <- MCSegOf
INVARIANT NeverRefused
