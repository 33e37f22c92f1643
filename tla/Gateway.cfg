\* One actor on each platform, three codes that live for one tick.
CONSTANTS
    tg = tg
    dc = dc
    Actor = {tg, dc}
    Discord = {dc}
    AllowAll = FALSE
    PairingMode = "dm_code"
    RequireMention = TRUE
    CodeTTL = 1
    MaxCodes = 3
    MaxTime = 2
    NoActor = NoActor
SPECIFICATION Spec
INVARIANTS TypeOK AskedWasListed RevokedIsOut
PROPERTIES OnlyLatestApproved
CHECK_DEADLOCK FALSE
