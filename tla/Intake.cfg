\* Three commands; a minute is one instant and an hour two, and calls wait for longer.
CONSTANTS
    ann = ann
    ben = ben
    plain = plain
    open = open
    copy = copy
    card = card
    noise = noise
    User = {ann, ben}
    Command = {plain, open, copy}
    Maker <- Makers
    Payload = {card}
    Link <- Links
    Other = {noise}
    PerMinute = 4
    PerHour = 5
    QuotePerMinute = 3
    PaidPerMinute = 1
    Minute = 0
    Hour = 1
    Kept = 1
    PayloadTTL = 1
    QuoteTTL = 2
    MaxTime = 2
    NoCommand = NoCommand
    NoPayload = NoPayload
SPECIFICATION Spec
INVARIANTS TypeOK OneCommandPerPreview InlineAlwaysAsks PaidRateBounded
CHECK_DEADLOCK FALSE
