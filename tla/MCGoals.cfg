SPECIFICATION Spec
CONSTANTS
    Goals <- MCGoalSet
    Script <- MCScript
    SlowCancel <- MCSlowCancel
    Contention <- MCContention
    ConcurrentGoals <- MCConcurrentGoals
    ExclusiveGoal <- MCExclusiveGoal
    DelayedCancel <- MCDelayedCancel
    Rules <- MCRules
    GoalsOf <- MCGoalsOf
    QUEUE_COUNT = 4
    MAX_DECISIONS = 5
INVARIANTS TypeOK ActiveGoalsConcurrent LocksHeldByActiveGoals QueueCountExact ScriptFollowsGoal
 
CHECK_DEADLOCK FALSE
