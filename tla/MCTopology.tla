----------------------------- MODULE MCTopology -----------------------------
(* TLC instance of TwsTopology: the three goals an earbud without a role   *)
(* runs, with their scripts shortened to one step of each kind they have.  *)
EXTENDS TwsTopology

pair_peer == 1
find_role == 2   \* tws_topology_goal_set_primary_address_and_find_role
system_stop == 3

MCGoalSet == {pair_peer, find_role, system_stop}

MCScript ==
    [g \in MCGoalSet |->
        CASE g = pair_peer -> <<"delayed", "pair_peer">>
          [] g = find_role -> <<"delayed", "find_role">>
          [] g = system_stop -> <<"start_stop", "delayed", "service", "send_message">>]

MCSlowCancel == {"find_role"}
MCContention == [g \in MCGoalSet |-> IF g = system_stop THEN "cancel" ELSE "wait"]
MCConcurrentGoals == [g \in MCGoalSet |-> {}]
MCExclusiveGoal == [g \in MCGoalSet |-> GOAL_ID_NONE]

MCRules == {11, 12, 13}
MCGoalsOf == [r \in MCRules |-> {r - 10}]
=============================================================================
