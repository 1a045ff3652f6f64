SPECIFICATION FairSpec
CONSTANTS
    t1 = t1
    Transfers = {t1}
    TokenOf <- OfTheSecond
    Runs = {r1, r2}
    MaxBlock = 3
    MaxRestarts = 1
    MaxRows = 1
    Window = 1
    ChunkSize = 1
INVARIANTS SyncTypeOK NoBlockIsSkipped OneInsertPerRun
PROPERTY TransfersAreRecorded
