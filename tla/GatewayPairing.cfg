\* A code is approved, and its actor comes back.
CONSTANTS
    tg = tg
    dc = dc
    Actor = {tg, dc}
    Discord = {dc}
    AllowAll = FALSE
    PairingMode = "dm_code"
    RequireMention = TRUE
    CodeTTL = 1
    MaxCodes = 3
    MaxTime = 2
    NoActor = NoActor
SPECIFICATION Spec
PROPERTIES PairedIsLetIn
CHECK_DEADLOCK FALSE
