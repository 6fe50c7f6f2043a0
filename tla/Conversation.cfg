SPECIFICATION FairSpec
CONSTANTS
    Turns = {t1, t2, t3}
    News = {n1}
    RedisEnabled = FALSE
    MaxRestarts = 1
    None = None
INVARIANTS DiskMatchesCache OneConsolidation TurnKept HiddenWasArchived ArchivedOnce
PROPERTIES FileOnlyGrows Served
