CONSTANTS
    None = None
    Blocks <- MCBlocks
    Readers = {r1, r2}
    Fetchers = {f1, f2}
    max_block_num = 2
    check_threshold = 0
SPECIFICATION FairSpec
INVARIANTS OneFetch ReaderFindsFile
PROPERTIES RoomAgain
