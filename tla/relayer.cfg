SPECIFICATION FairSpec
CONSTANTS
    w1 = w1
    w2 = w2
    MaxRequests = 2
    Workers = {w1, w2}
    DryRunning = "Optimistic"
    TASK_QUEUE_SIZE = 1
    OPTIMISTIC_DRY_RUN_THRESHOLD = 1
    CounterModulus = 2
    RechargeThreshold = 2
    RechargeAmount = 2
    GasCost = 1
    MaxPocketMoney = 1
INVARIANTS SubmittedOnce RechargedOneByOne
PROPERTIES SkipsOnlyAfterSuccesses RequestsAnswered WorkersRecharged
CHECK_DEADLOCK FALSE
