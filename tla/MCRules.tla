------------------------------ MODULE MCRules -------------------------------
(* TLC instance of RuleDecisions: the rules of the TWM primary table that  *)
(* take an earbud to no role or to role selection, in the table's order.   *)
EXTENDS RuleDecisions

CONSTANTS STATIC_HANDOVER_FAILED, OUT_CASE, IN_CASE, \* TWSTOP_RULE_EVENT_...
          NO_ROLE_IDLE, FIND_ROLE                    \* TWSTOP_PRIMARY_GOAL_...

MCEvents == {STATIC_HANDOVER_FAILED, OUT_CASE, IN_CASE}
MCMessages == {NO_ROLE_IDLE, FIND_ROLE}

MCRuleEvents == <<{STATIC_HANDOVER_FAILED}, {STATIC_HANDOVER_FAILED}, {OUT_CASE}, {IN_CASE}>>
MCRuleMessage == <<NO_ROLE_IDLE, FIND_ROLE, FIND_ROLE, NO_ROLE_IDLE>>

(* ruleTwsTopTwmPriNoRoleIdle defers while a handover may still come. *)
MCMayDefer == {1, 4}
=============================================================================
