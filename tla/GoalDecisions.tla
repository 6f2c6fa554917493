--------------------------- MODULE GoalDecisions ----------------------------
(***************************************************************************)
(* The goals engine at work in a topology that keeps running: rules post   *)
(* decisions in any order, procedures and script steps end or fail at any  *)
(* time, and the message loop delivers one message after the other         *)
(* (src/adk/src/topologies/tws/common/core/tws_topology_goals.c).          *)
(***************************************************************************)
EXTENDS GoalsEngine

CONSTANT MAX_DECISIONS \* bound: rule decisions posted

ASSUME DecisionsAssumption == MAX_DECISIONS \in Nat

VARIABLE posted        \* decisions posted so far

vars == <<engineVars, posted>>

Init == GoalsInit /\ posted = 0

(* A rule of the rules engine decides to run. *)
PostDecision(rule) ==
    /\ panic = "none"
    /\ posted < MAX_DECISIONS
    /\ posted' = posted + 1
    /\ messages' = Append(messages, Decision(rule))
    /\ UNCHANGED <<script, panic, active_goals_mask, queue_msg_count,
                   pending_goals, running, cancelling>>

----------------------------------------------------------------------------
(* The message loop. *)

Deliver(i, type) ==
    /\ panic = "none"
    /\ IsNext(i)
    /\ messages[i].type = type
    /\ UNCHANGED posted

(* TwsTopology_HandleGoalDecision, from the goal task or the queue task. *)
HandleGoalDecision(rule) ==
    \E i \in DOMAIN messages :
        /\ Deliver(i, "decision")
        /\ messages[i].rule = rule
        /\ \E goal \in GoalsOf[rule] :
            ActivateGoal(goal, rule, TRUE, RemoveAt(messages, i))

HandleQueuedDecision(rule) ==
    \E i \in DOMAIN messages :
        /\ Deliver(i, "pending")
        /\ messages[i].rule = rule
        /\ \E goal \in GoalsOf[rule] :
            ActivateGoal(goal, rule, FALSE, RemoveAt(messages, i))

(* twsTopology_GoalProcCancelCfm, posted by the procedure's cancel         *)
(* function.                                                               *)
HandleCancelCfm ==
    \E i \in DOMAIN messages :
        /\ Deliver(i, "cancel_cfm")
        /\ messages' = RemoveAt(messages, i)
        /\ ClearGoal(messages[i].goal)
        /\ UNCHANGED <<script, panic, running, cancelling>>

(* scriptEngine_ProcCancelCfm: the step that was cancelled confirms.       *)
HandleScriptCancelCfm ==
    \E i \in DOMAIN messages :
        /\ Deliver(i, "script_cancel_cfm")
        /\ messages' = RemoveAt(messages, i)
        /\ panic' = IF script.state = "cancelling" THEN panic ELSE "script not cancelling"
        /\ script' = EngineReset
        /\ ClearGoal(script.proc)
        /\ UNCHANGED <<running, cancelling>>

----------------------------------------------------------------------------
(* The procedures. *)

(* A procedure ends, successfully or not: twsTopology_GoalProcComplete. *)
GoalProcComplete(goal) ==
    /\ panic = "none"
    /\ goal \in running \ cancelling
    /\ running' = running \ {goal}
    /\ ClearGoal(goal)
    /\ UNCHANGED <<script, panic, messages, cancelling, posted>>

(* The service a procedure was asked to stop has stopped. *)
GoalProcCancelCfm(goal) ==
    /\ panic = "none"
    /\ goal \in cancelling
    /\ running' = running \ {goal}
    /\ cancelling' = cancelling \ {goal}
    /\ ClearGoal(goal)
    /\ UNCHANGED <<script, panic, messages, posted>>

(* scriptEngine_ProcCancelCfm, when a service has stopped for the step. *)
ScriptStepCancelCfm ==
    /\ panic = "none"
    /\ script.state = "cancelling"
    /\ CurrentStep \in SlowCancel
    /\ script' = EngineReset
    /\ ClearGoal(script.proc)
    /\ UNCHANGED <<panic, messages, running, cancelling, posted>>

(* A step of the script ends; the last one, or one that fails, ends the    *)
(* scripted goal.                                                          *)
ScriptStepComplete(result) ==
    /\ panic = "none"
    /\ script.state = "active"
    /\ script' = AfterStep(result)
    /\ IF EndsScript(result)
       THEN ClearGoal(script.proc)
       ELSE UNCHANGED <<active_goals_mask, pending_goals, queue_msg_count>>
    /\ UNCHANGED <<panic, messages, running, cancelling, posted>>

Next ==
    \/ \E rule \in Rules : PostDecision(rule)
    \/ \E rule \in Rules : HandleGoalDecision(rule)
    \/ \E rule \in Rules : HandleQueuedDecision(rule)
    \/ HandleCancelCfm
    \/ HandleScriptCancelCfm
    \/ \E goal \in Goals : GoalProcComplete(goal)
    \/ \E goal \in Goals : GoalProcCancelCfm(goal)
    \/ ScriptStepCancelCfm
    \/ \E result \in {"success", "timeout", "failed"} : ScriptStepComplete(result)

(* The message loop runs and every procedure ends: each one either has a   *)
(* timeout or waits for a service that answers.                            *)
Fairness ==
    /\ WF_vars(\E rule \in Rules : HandleGoalDecision(rule))
    /\ WF_vars(\E rule \in Rules : HandleQueuedDecision(rule))
    /\ WF_vars(HandleCancelCfm)
    /\ WF_vars(HandleScriptCancelCfm)
    /\ WF_vars(ScriptStepCancelCfm)
    /\ \A goal \in Goals : WF_vars(GoalProcComplete(goal)) /\ WF_vars(GoalProcCancelCfm(goal))
    /\ WF_vars(\E result \in {"success", "timeout", "failed"} : ScriptStepComplete(result))

Spec == Init /\ [][Next]_vars /\ Fairness

----------------------------------------------------------------------------
Message == [type : {"decision", "pending", "cancel_cfm", "script_cancel_cfm"},
            rule : Rules \cup {NoRule}, slot : 0 .. QUEUE_COUNT,
            goal : Goals \cup {GOAL_ID_NONE}]

Entry == [id : Goals \cup {GOAL_ID_NONE}, rule_id : Rules \cup {NoRule},
          lock_mask : SUBSET Goals]

EngineTypeOK ==
    /\ active_goals_mask \in SUBSET Goals
    /\ pending_goals \in [Slots -> Entry]
    /\ running \in SUBSET Goals
    /\ cancelling \in SUBSET Goals

TypeOK ==
    /\ EngineTypeOK
    /\ queue_msg_count \in Nat
    /\ script \in [state : {"idle", "active", "cancelling"}, next_step : Nat,
                   proc : DOMAIN Script \cup {GOAL_ID_NONE}]
    /\ messages \in Seq(Message)
    /\ posted \in 0 .. MAX_DECISIONS

(* The goals that run at the same time are pairwise concurrent: no order   *)
(* of decisions, completions, cancellations and re-deliveries starts a     *)
(* goal beside one it has to wait for.                                     *)
ActiveGoalsConcurrent ==
    \A g, h \in active_goals_mask : g # h => h \in ConcurrentGoals[g]

(* A queued decision only ever waits for goals that are active, so nothing *)
(* waits for a goal that was cleared: goalsEngine_UpdateQueueMasks and     *)
(* GoalsEngine_ClearGoal keep the locks in step with active_goals_mask.    *)
LocksHeldByActiveGoals ==
    \A i \in Slots : pending_goals[i].lock_mask \subseteq active_goals_mask

(* A slot that no goal uses is all zero. *)
UnusedSlotsClear ==
    \A i \in Slots : pending_goals[i].id = GOAL_ID_NONE => pending_goals[i] = Unused

(* What makes the two properties above inductive. *)
GoalsInv ==
    /\ EngineTypeOK
    /\ UnusedSlotsClear
    /\ LocksHeldByActiveGoals
    /\ ActiveGoalsConcurrent

(* queue_msg_count is the number of decisions queued, through flushes,     *)
(* dequeues and re-deliveries: the handover veto and GoalCanRunNow rely on *)
(* it.                                                                     *)
QueueCountExact ==
    panic = "none" => queue_msg_count = Count(PendingMessages, messages)

(* The script engine is busy exactly while a scripted goal is active, so   *)
(* its assertions (idle when a script is started, cancelling when a        *)
(* cancellation is confirmed) hold.                                        *)
ScriptFollowsGoal ==
    /\ panic \in {"none", "goal queue full"}
    /\ active_goals_mask \cap DOMAIN Script =
            IF script.state = "idle" THEN {} ELSE {script.proc}

(* Once the rules are quiet every queued decision is run or dropped and    *)
(* the engine comes to rest: no decision is left behind a lock nobody      *)
(* releases, and re-delivery does not go round for ever.                   *)
EngineComesToRest ==
    <>[](panic # "none" \/ (messages = <<>> /\ active_goals_mask = {}))
=============================================================================
