CONSTANTS
    k1 = k1
    k2 = k2
    k3 = k3
    c1 = c1
    c2 = c2
    Keys <- MCKeys
    Callers <- MCCallers
    Boot = Boot
    NoKey = NoKey
    MaxCrashes = 1
SYMMETRY KeySymmetry
SPECIFICATION Spec
INVARIANTS
    DefaultListed
