\* A private or a group wallet: a command and a research plan of Alice's and, if it
\* is a group's, a command of Bob, an admin.
CONSTANTS
    alice = alice
    bob = bob
    c1 = c1
    c2 = c2
    plan = plan
    Config <- DefaultConfig
    Off = Off
    Call = {c1, c2, plan}
    Workflow = {plan}
    Actor = {alice, bob}
    Admin = {bob}
    Owner = alice
    Maker <- Makers
    UserCap = 2
    Price = {2, 3, 4}
    Surcharge = 1
    CapChoice = {3, 4}
    MaxEdits = 2
    Day = 0
    Week = 1
    QuoteTTL = 1
    MaxTime = 2
    NoActor = NoActor
    NoCall = NoCall
SPECIFICATION Spec
INVARIANTS TypeOK CapsHoldButForOverlap OverCapIsApproved
PROPERTIES FreezeStopsAllButPreflight
CHECK_DEADLOCK FALSE
