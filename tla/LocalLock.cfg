\* Three nested calls that meet at one key, with bodies that outlive their TTL.
CONSTANTS
    confirmA = confirmA
    confirmB = confirmB
    again = again
    actorA = actorA
    actorB = actorB
    quote = quote
    Proc = {confirmA, confirmB, again}
    Key = {actorA, actorB, quote}
    Plan <- Plans
    MaxDepth = 2
    TTL = 2
    MaxTime = 4
    NoToken = NoToken
SPECIFICATION FairSpec
INVARIANTS TypeOK LeaseProtects OrphanedOnlyByOverrun
PROPERTIES LeaseLockSpec ServedOrOrphaned
CHECK_DEADLOCK FALSE
