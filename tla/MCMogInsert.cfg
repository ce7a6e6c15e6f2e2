CONSTANTS
    k1 = k1
    k2 = k2
    k3 = k3
    k4 = k4
    half = half
    full = full
    other = other
    empty = empty
    None = None
    Garbage = Garbage
    Keys = {k1, k2, k3}
    Hashes = {k1, k2, k3}
    Hash <- MCHash
    Values = {half, empty, full}
    Length <- MCLength
    File <- MCFileKinds
    Workers = {w1, w2}
    Flushers = {f1}
    page_per_block = 1
    page_num = 1
    cpu_page_num = 1
    HDD_page_num = 2
    MaxBlocks = 4
SPECIFICATION StoreSpec
INVARIANTS InsertsAbsentItem
