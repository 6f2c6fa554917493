SPECIFICATION RulesSpec
CONSTANTS
    STATIC_HANDOVER_FAILED = STATIC_HANDOVER_FAILED
    OUT_CASE = OUT_CASE
    IN_CASE = IN_CASE
    NO_ROLE_IDLE = NO_ROLE_IDLE
    FIND_ROLE = FIND_ROLE
    RULES_COUNT = 4
    Events <- MCEvents
    Messages <- MCMessages
    RuleEvents <- MCRuleEvents
    RuleMessage <- MCRuleMessage
    MayDefer <- MCMayDefer
    MAX_EVENTS = 5
    MAX_REQUEUES = 1
INVARIANTS RulesTypeOK InProgressHasDecision OnlyDeferredRulesWait
PROPERTY RulesComeToRest
CHECK_DEADLOCK FALSE
