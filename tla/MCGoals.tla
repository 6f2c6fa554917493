------------------------------ MODULE MCGoals -------------------------------
(* TLC instance of GoalDecisions: five goals of the TWS topology's table   *)
(* that show every kind of contention.                                     *)
EXTENDS GoalDecisions

connect_peer_profiles == 1    \* concurrent, excludes 2, delayed cancel
disconnect_peer_profiles == 2 \* concurrent, excludes 1, delayed cancel
connect_handset == 3          \* concurrent, cancelled by the handset service
become_primary == 4           \* cancels, scripted
primary_address_find_role == 5 \* waits, scripted, ends with find_role

MCGoalSet == 1 .. 5

MCScript ==
    [g \in {become_primary, primary_address_find_role} |->
        IF g = become_primary THEN <<"plain", "plain">> ELSE <<"plain", "find_role">>]

MCSlowCancel == {"find_role"}

MCContention ==
    [g \in MCGoalSet |-> CASE g = become_primary -> "cancel"
                           [] g = primary_address_find_role -> "wait"
                           [] OTHER -> "concurrent"]

MCConcurrentGoals ==
    [g \in MCGoalSet |-> CASE g \in {connect_peer_profiles, disconnect_peer_profiles}
                                 -> {connect_handset}
                           [] g = connect_handset
                                 -> {connect_peer_profiles, disconnect_peer_profiles}
                           [] OTHER -> {}]

MCExclusiveGoal ==
    [g \in MCGoalSet |-> CASE g = connect_peer_profiles -> disconnect_peer_profiles
                           [] g = disconnect_peer_profiles -> connect_peer_profiles
                           [] OTHER -> GOAL_ID_NONE]

MCDelayedCancel == {connect_peer_profiles, disconnect_peer_profiles}

(* One decision per goal, and one (a handover the build does not support)  *)
(* that stands for no goal.                                                *)
MCRules == {11, 12, 13, 14, 15, 16}
MCGoalsOf ==
    [r \in MCRules |-> IF r = 16 THEN {GOAL_ID_NONE} ELSE {r - 10}]
=============================================================================
