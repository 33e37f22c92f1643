\* The same wallets, asking for a confirmation of the first spend: who presses the button.
CONSTANTS
    alice = alice
    bob = bob
    c1 = c1
    c2 = c2
    plan = plan
    Config <- FirstSpendConfig
    Off = Off
    Call = {c1, c2, plan}
    Workflow = {plan}
    Actor = {alice, bob}
    Admin = {bob}
    Owner = alice
    Maker <- Makers
    UserCap = 2
    Price = {2, 3}
    Surcharge = 1
    CapChoice = {3, 4}
    MaxEdits = 2
    Day = 0
    Week = 1
    QuoteTTL = 1
    MaxTime = 2
    NoActor = NoActor
    NoCall = NoCall
SPECIFICATION Spec
INVARIANT OverCapIsApproved
CHECK_DEADLOCK FALSE
