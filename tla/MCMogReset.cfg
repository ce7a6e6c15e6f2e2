CONSTANTS
    Workers = {w1, w2}
    Creators = {c1, c2}
    main = c1
    Flushers = {f1}
    Fetchers = {g1}
    MaxBlocks = 2
SPECIFICATION ResetFairSpec
INVARIANTS ReadyMeansOpen TasksKeepStore OpensEmpty BlockHasFile
PROPERTIES ResetEnds RefinesServer
