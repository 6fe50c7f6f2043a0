SPECIFICATION Spec
CONSTANTS
    Turns = {t1, t2, t3}
    News = {n1}
    RedisEnabled = FALSE
    MaxRestarts = 0
    None = None
INVARIANTS HistoryComplete
