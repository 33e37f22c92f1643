\* Two processes, rounds of two rows, three events of which the sink rejects one.
CONSTANTS
    Event = {e1, e2, e3}
    Poison = {e1}
    Worker = {w1, w2}
    BatchSize = 2
    MaxFaults = 1
SPECIFICATION FairSpec
INVARIANTS TypeOK ShippedWasWritten DuplicatesAreExplained NoErrorOnceShipped
PROPERTIES EveryEventIsShipped
CHECK_DEADLOCK FALSE
