SPECIFICATION Spec
CONSTANTS
    Federations = {f1, f2}
    Setters = {s1, s2}
    Readers = {r1}
    Opening = Opening
    View = View
    None = None
    MaxSeeds = 1
    MaxFaults = 1
SYMMETRY Symmetry
INVARIANT Connected
