SPECIFICATION FairSpec
CONSTANTS
    Requests = {r1, r2}
    RecentLimit = 1
    None = None
INVARIANTS UnfinishedIsTracked EndedIsAccountedFor AuditedOnce AnsweredIsRecorded StatusTruthful
PROPERTIES Exclusive SlotFreed
