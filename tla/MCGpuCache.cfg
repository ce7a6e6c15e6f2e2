CONSTANTS
    None = None
    short = short
    long = long
    huge = huge
    Keys = {k1, k2, k3}
    Values = {short, long, huge}
    Length <- MCLength
    Inserters = {t1, t2}
    Readers = {r1}
    slab_num = 5
    MaxType = 2
    MaxAgain = 1
SPECIFICATION Spec
SYMMETRY Symmetry
INVARIANTS EvictionFindsItem ReadsRight
