CONSTANTS
    Nil = Nil
    Owner = Owner
    Workers = {w1, w2}
    Tasks = {t1, t2, t3}
    MaxSpurious = 1
SPECIFICATION FairPoolSpec
INVARIANTS SyncedTasksDone ShutdownWaits
PROPERTIES RefinesTaskPool TasksRun ShutdownEnds
