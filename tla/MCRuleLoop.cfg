SPECIFICATION RuleLoopSpec
CONSTANTS
    retarget = retarget
    stop = stop
    log = log
    Client <- Operations
    Priority <- Rank
    Cancellable <- Coroutines
    Target = {t1}
    Caller = {c1, c2}
INVARIANTS
    OneHolder
    TicketsAreLive
    NotifyingSuffices
    Lossless
    BatchHasToken
PROPERTIES
    StarvedAreNotPassed
    EverybodyIsAnswered
    DataIsEvaluated
