CONSTANTS
    k1 = k1
    k2 = k2
    k3 = k3
    k4 = k4
    half = half
    most = most
    None = None
    Keys = {k1, k2, k3, k4}
    Hashes = {k1, k2, k3, k4}
    Hash <- MCHash
    Values = {half, most}
    Length <- MCLength
    Workers = {w1, w2}
    Flushers = {f1, f2}
    page_per_block = 1
    page_num = 1
    MaxBlocks = 2
SPECIFICATION FairSpec
INVARIANTS NoneStranded FreedOnce CutNeverDrains
PROPERTIES RefinesKVMap CutBlocksReachDisk BufferDrains CallsReturn
