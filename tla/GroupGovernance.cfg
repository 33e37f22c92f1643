SPECIFICATION Spec
CONSTANTS
    User = {u1, u2}
    TTL = 1
    Lag = 1
    MaxOpen = 2
    NoUser = NoUser
INVARIANTS TypeOK OwnerIsCreator SyncMirrors
PROPERTIES RightsAreRecent RiskTakenByAdmins
