SPECIFICATION Spec
CONSTANTS
    TIME = 16
    START = 13
    MAX_TIME = 18
    TIMER_LIMIT = 2
    Ids = {"event", "reply", "more_data"}
    MoreData = {"more_data"}
    Locks = {"lock"}
    Delays = {1, 3}
    MAX_SENT = 4
    MAX_QUEUE = 3
INVARIANTS TypeOK NoLostWakeup
PROPERTIES DeliveredInTurn NoneStarves
CHECK_DEADLOCK FALSE
