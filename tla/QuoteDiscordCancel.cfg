\* The same Discord quote: what docs/concurrency.md says of canceled quotes.
CONSTANTS
    h1 = h1
    h2 = h2
    alice = alice
    bob = bob
    q1 = q1
    q2 = q2
    Quote = {q1}
    Actor = {alice, bob}
    Handler = {h1, h2}
    Processes <- SingleProcess
    Requester <- OneRequester
    Confirmers <- GuildConfirmers
    DiscordQuote = {q1}
    LockProvider = "local"
    QuoteTTL = 2
    LeaseTTL = 1
    LockTTL = 1
    MaxTime = 3
    MaxCrashes = 1
    NoQuote = NoQuote
    NoActor = NoActor
    Free = Free
    Orphan = Orphan
SPECIFICATION Spec
INVARIANT CanceledNeverExecuted
CHECK_DEADLOCK FALSE
