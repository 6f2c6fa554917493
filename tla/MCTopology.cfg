SPECIFICATION Spec
CONSTANTS
    Goals <- MCGoalSet
    Script <- MCScript
    SlowCancel <- MCSlowCancel
    Contention <- MCContention
    ConcurrentGoals <- MCConcurrentGoals
    ExclusiveGoal <- MCExclusiveGoal
    DelayedCancel = {}
    Rules <- MCRules
    GoalsOf <- MCGoalsOf
    PAIR_PEER = 11
    FIND_ROLE = 12
    SYSTEM_STOP = 13
    QUEUE_COUNT = 3
    MAX_SHUTDOWNS = 2
    MAX_FAILED_PAIRINGS = 1
INVARIANTS TypeOK TimerMeansRunning ScriptFollowsGoal
PROPERTY GuardedStopConfirmed
CHECK_DEADLOCK FALSE
