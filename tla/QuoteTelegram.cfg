\* Two Telegram quotes of one user on two bot processes with Redis locks.
CONSTANTS
    h1 = h1
    h2 = h2
    alice = alice
    bob = bob
    q1 = q1
    q2 = q2
    Quote = {q1, q2}
    Actor = {alice}
    Handler = {h1, h2}
    Processes <- Instances
    Requester <- OneRequester
    Confirmers <- PrivateConfirmers
    DiscordQuote = {}
    LockProvider = "redis"
    QuoteTTL = 2
    LeaseTTL = 1
    LockTTL = 1
    MaxTime = 3
    MaxCrashes = 1
    NoQuote = NoQuote
    NoActor = NoActor
    Free = Free
    Orphan = Orphan
SPECIFICATION Spec
SYMMETRY Symmetry
INVARIANTS TypeOK PaidIsAccounted
PROPERTIES TelegramStatusMachine
CHECK_DEADLOCK FALSE
