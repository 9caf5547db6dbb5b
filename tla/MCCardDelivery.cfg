SPECIFICATION LiveSpec
CONSTANTS
    Drainer = {d1, d2}
    Updater = {u1}
    NoThread = NoThread
    Last = 1
    MaxAttempts = 2
    MaxFault = 1
INVARIANTS
    OneMessage
PROPERTIES
    NeverOlder
    ImplementsMessage
    DeliverySettles
    CatchesUp
CHECK_DEADLOCK FALSE
