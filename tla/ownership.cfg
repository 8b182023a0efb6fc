SPECIFICATION Spec
CONSTANTS
    Commands = {p1, p2, p3}
    Daemons = {d1, d2, d3}
    None = None
SYMMETRY Symmetry
INVARIANTS SingleOwner ServingIsPublished
