CONSTANTS
    k1 = k1
    k2 = k2
    k3 = k3
    k4 = k4
    half = half
    full = full
    other = other
    empty = empty
    None = None
    Garbage = Garbage
    Keys = {k1, k2, k3, k4}
    Hashes = {k1, k2, k3, k4}
    Hash <- MCHash
    Values = {half, full, other}
    Length <- MCLength
    File <- MCFile
    Workers = {w1, w2}
    Flushers = {f1}
    page_per_block = 2
    page_num = 2
    cpu_page_num = 1
    HDD_page_num = 1
    MaxBlocks = 3
SPECIFICATION StoreSpec
INVARIANTS RepliesRight RamCacheRight BudgetKept
SYMMETRY MCSymmetry
