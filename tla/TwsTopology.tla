---------------------------- MODULE TwsTopology -----------------------------
(***************************************************************************)
(* Starting and stopping the TWS topology                                  *)
(* (src/adk/src/topologies/tws/common/core/tws_topology.c) of an earbud    *)
(* out of the case that has no role yet.  The power manager tells its      *)
(* clients to prepare for a shutdown and waits for all of them; the        *)
(* application stops the topology, answers when the stop is confirmed, and *)
(* starts the topology again when the shutdown is aborted after all.       *)
(* Goals are run by the goals engine of GoalsEngine; the rules engine is   *)
(* reduced to the rules whose decision is on the way (RulesEngine models   *)
(* it).  What follows once a role is found (the goals that become primary  *)
(* or secondary) is left out.                                              *)
(*                                                                         *)
(* Kinds of script steps: "delayed" procedures act at once and complete by *)
(* a message, "service" procedures complete when a service answers,        *)
(* "pair_peer" and "find_role" use those services, "start_stop" and        *)
(* "send_message" begin and end system_stop.                               *)
(***************************************************************************)
EXTENDS GoalsEngine

CONSTANTS PAIR_PEER, FIND_ROLE, SYSTEM_STOP, \* the rules, ids of their decisions
          MAX_SHUTDOWNS,      \* bound: shutdowns the power manager begins
          MAX_FAILED_PAIRINGS \* bound: attempts to pair that fail

(* The rules stand for one scripted goal each; scripted goals have no      *)
(* exclusive goal and begin with a procedure that acts at once.            *)
ASSUME TopologyAssumption ==
    /\ Rules = {PAIR_PEER, FIND_ROLE, SYSTEM_STOP}
    /\ \A r \in Rules : \E g \in DOMAIN Script : GoalsOf[r] = {g}
    /\ \A g \in DOMAIN Script : ExclusiveGoal[g] = GOAL_ID_NONE
    /\ \A g \in DOMAIN Script : Script[g][1] \in {"delayed", "start_stop"}
    /\ "find_role" \in SlowCancel
    /\ QUEUE_COUNT >= 3
    /\ MAX_SHUTDOWNS \in Nat /\ MAX_FAILED_PAIRINGS \in Nat

GoalFor(rule) == CHOOSE g \in GoalsOf[rule] : TRUE

VARIABLES
    power,             \* POWER_STATE_OK, TERMINATING_CLIENTS_NOTIFIED or off
    unprepared,        \* clients whose PREPARE_RESPONSE_PENDING flag is set
    shutdowns,         \* shutdowns begun so far
    app,               \* the application: running or terminating
    stopping_state,    \* stopped, started or stopping
    stop_timer,        \* TWSTOP_INTERNAL_TIMEOUT_TOPOLOGY_STOP is pending
    rules_in_progress, \* rules whose decision is not yet marked complete
    paired,            \* the device database knows the peer's address
    pairing,           \* peer_pair_le is busy
    failed_pairings,   \* attempts to pair that failed so far
    finding,           \* the find_role procedure: idle, finding or cancelling
    services           \* "service" steps started and not yet complete

powerVars == <<power, unprepared, shutdowns>>
topologyVars == <<powerVars, app, stopping_state, stop_timer, rules_in_progress,
                  paired, pairing, failed_pairings, finding, services>>
vars == <<engineVars, topologyVars>>

Plain(type) == [type |-> type, rule |-> NoRule, slot |-> 0, goal |-> GOAL_ID_NONE]
StepComplete(goal) == [Plain("step_complete") EXCEPT !.goal = goal]

(* The application has started the topology. *)
Init ==
    /\ ScriptInit
    /\ active_goals_mask = {} /\ queue_msg_count = 0 /\ pending_goals = EmptyQueue
    /\ running = {} /\ cancelling = {}
    /\ messages = <<Plain("start")>>
    /\ power = "ok" /\ unprepared = {} /\ shutdowns = 0
    /\ app = "running"
    /\ stopping_state = "stopped" /\ stop_timer = FALSE
    /\ rules_in_progress = {}
    /\ paired \in BOOLEAN
    /\ pairing = FALSE /\ failed_pairings = 0 /\ finding = "idle" /\ services = 0

Alive == panic = "none" /\ power # "off"

IsRunning == stopping_state \in {"started", "stopping"}

(* Take the next message out of the queue. *)
Deliver(i, type) ==
    /\ Alive
    /\ IsNext(i)
    /\ messages[i].type = type

----------------------------------------------------------------------------
(* The power manager, power_manager_sm.c, and its clients' answers. *)

(* What the power manager and its clients leave alone. *)
PowerHandler ==
    UNCHANGED <<script, panic, active_goals_mask, queue_msg_count, pending_goals,
                running, cancelling, stopping_state, stop_timer,
                rules_in_progress, paired, pairing, failed_pairings, finding, services>>

(* appPowerEnterPowerStateTerminatingClientsNotified *)
BeginShutdown ==
    /\ Alive /\ power = "ok"
    /\ shutdowns < MAX_SHUTDOWNS
    /\ shutdowns' = shutdowns + 1
    /\ power' = "notified"
    /\ unprepared' = {"topology", "app"}
    /\ messages' = Append(messages, Plain("prepare_ind"))
    /\ UNCHANGED app
    /\ PowerHandler

(* appPowerShutdownPrepareResponse.  When all clients are prepared, the    *)
(* device switches off unless the reason has gone: then they are told.     *)
PrepareResponse(client, msgs) ==
    /\ unprepared' = IF power = "notified" THEN unprepared \ {client} ELSE unprepared
    /\ IF power = "notified" /\ unprepared = {client}
       THEN \/ power' = "off" /\ messages' = msgs
            \/ power' = "ok" /\ messages' = Append(msgs, Plain("cancelled_ind"))
       ELSE messages' = msgs /\ UNCHANGED power
    /\ UNCHANGED shutdowns

(* The indication is one message to all clients, whose handlers run one    *)
(* after the other.  twsTopology_HandleMessage drops it when the topology  *)
(* does not run; without a role nothing has to be prepared.  The           *)
(* application stops the topology, appEnterSubStateTerminating.            *)
HandlePowerShutdownPrepareInd ==
    /\ \E i \in DOMAIN messages :
        LET msgs == Append(RemoveAt(messages, i), Plain("stop")) IN
        /\ Deliver(i, "prepare_ind")
        /\ IF IsRunning
           THEN PrepareResponse("topology", msgs)
           ELSE messages' = msgs /\ UNCHANGED powerVars
    /\ app' = "terminating"
    /\ PowerHandler

(* appSm_HandleTwsTopologyStopCfm *)
AppStopCfm ==
    /\ \E i \in DOMAIN messages, type \in {"stop_cfm_success", "stop_cfm_fail"} :
        /\ Deliver(i, type)
        /\ IF app = "terminating"
           THEN PrepareResponse("app", RemoveAt(messages, i))
           ELSE messages' = RemoveAt(messages, i) /\ UNCHANGED powerVars
    /\ UNCHANGED app
    /\ PowerHandler

(* appSmHandlePowerShutdownCancelledInd, appEnterStartup *)
AppRestarts ==
    /\ \E i \in DOMAIN messages :
        /\ Deliver(i, "cancelled_ind")
        /\ messages' = Append(RemoveAt(messages, i), Plain("start"))
    /\ app' = "running"
    /\ UNCHANGED powerVars
    /\ PowerHandler

----------------------------------------------------------------------------
(* Handlers of the topology's own messages.  None of them changes the      *)
(* engines other than through the queue.                                   *)

TopologyHandler ==
    UNCHANGED <<script, panic, active_goals_mask, queue_msg_count, pending_goals,
                running, cancelling, powerVars, app, paired, pairing, failed_pairings,
                finding, services>>

(* twsTopology_RulesSetEvent for the event of a rule that always runs: no  *)
(* decision while one is on the way.                                       *)
RulesSetEvent(rule, msgs) ==
    /\ rules_in_progress' = rules_in_progress \cup {rule}
    /\ messages' = IF rule \in rules_in_progress THEN msgs
                   ELSE Append(msgs, Decision(rule))

(* twsTopology_Start *)
TopologyStarts(msgs) ==
    /\ stopping_state' = "started"
    /\ RulesSetEvent(IF paired THEN FIND_ROLE ELSE PAIR_PEER, msgs)
    /\ UNCHANGED stop_timer

(* Mutant: the timer is not cancelled. *)
SendsCfmKeepsTimer(status, msgs) ==
    /\ messages' = Append(msgs, Plain(status))
    /\ stopping_state' = "stopped"
    /\ UNCHANGED <<stop_timer, rules_in_progress>>

(* TwsTopology_SendStopCfm, and twsTopology_MarkAsStopped after it. *)
SendStopCfm(status, msgs) ==
    /\ messages' = Append(msgs, Plain(status))
    /\ stop_timer' = FALSE
    /\ stopping_state' = "stopped"
    /\ UNCHANGED rules_in_progress

Ignored(msgs) ==
    /\ messages' = msgs
    /\ UNCHANGED <<stopping_state, stop_timer, rules_in_progress>>

HandleInternalStart ==
    \E i \in DOMAIN messages :
        /\ Deliver(i, "start")
        /\ IF stopping_state # "started"
           THEN TopologyStarts(RemoveAt(messages, i))
           ELSE Ignored(RemoveAt(messages, i))
        /\ TopologyHandler

HandleInternalStop ==
    \E i \in DOMAIN messages :
        /\ Deliver(i, "stop")
        /\ CASE stopping_state = "stopped"
                    -> SendStopCfm("stop_cfm_success", RemoveAt(messages, i))
             [] stopping_state = "started"
                    -> /\ stop_timer' = TRUE
                       /\ RulesSetEvent(SYSTEM_STOP, RemoveAt(messages, i))
                       /\ UNCHANGED stopping_state
             [] stopping_state = "stopping" -> Ignored(RemoveAt(messages, i))
        /\ TopologyHandler

(* Mutant: the timeout stops the topology without telling the application. *)
TimesOutSilently ==
    /\ Alive
    /\ stop_timer
    /\ \A i \in DOMAIN messages : ~Deliverable(messages[i])
    /\ stop_timer' = FALSE
    /\ stopping_state' = "stopped"
    /\ UNCHANGED <<messages, rules_in_progress>>
    /\ TopologyHandler

(* The timeout is long against the message loop: it expires when nothing   *)
(* can be delivered.                                                       *)
HandleStopTimeout ==
    /\ Alive
    /\ stop_timer
    /\ \A i \in DOMAIN messages : ~Deliverable(messages[i])
    /\ SendStopCfm("stop_cfm_fail", messages)
    /\ TopologyHandler

HandleStopCompletion ==
    \E i \in DOMAIN messages :
        /\ Deliver(i, "stop_finished")
        /\ IF stopping_state = "stopping"
           THEN SendStopCfm("stop_cfm_success", RemoveAt(messages, i))
           ELSE Ignored(RemoveAt(messages, i))
        /\ TopologyHandler

HandleProcPeerPairResult ==
    \E i \in DOMAIN messages :
        /\ Deliver(i, "pair_result")
        /\ IF IsRunning
           THEN TopologyStarts(RemoveAt(messages, i))
           ELSE Ignored(RemoveAt(messages, i))
        /\ TopologyHandler

----------------------------------------------------------------------------
(* Script steps: what the start function of a step posts, and its effect   *)
(* on the services, busy being the state of peer_pair_le by then.          *)

StepMessages(kind, goal) ==
    CASE kind \in {"delayed", "start_stop"} -> <<StepComplete(goal)>>
      [] kind = "send_message" -> <<Plain("stop_finished"), StepComplete(goal)>>
      [] OTHER -> <<>>

(* PeerPairLe_FindPeer panics when it is busy. *)
StepStarts(kind, busy, find_role, count) ==
    /\ panic' = IF kind = "pair_peer" /\ busy THEN "peer pairing busy" ELSE panic
    /\ pairing' = (busy \/ kind = "pair_peer")
    /\ finding' = IF kind = "find_role" THEN "finding" ELSE find_role
    /\ services' = IF kind = "service" THEN count + 1 ELSE count

NextKind(result) ==
    IF script.state = "active" /\ ~EndsScript(result)
    THEN Script[script.proc][script.next_step + 2]
    ELSE "none"

(* scriptEngine_ProcCompleteCfm: it does not look at whose completion it   *)
(* is given.                                                               *)
ProcCompleteCfm(result, msgs, busy, find_role, count) ==
    /\ script' = AfterStep(result)
    /\ IF EndsScript(result)
       THEN ClearGoal(script.proc)
       ELSE UNCHANGED <<active_goals_mask, queue_msg_count, pending_goals>>
    /\ messages' = msgs \o StepMessages(NextKind(result), script.proc)
    /\ StepStarts(NextKind(result), busy, find_role, count)
    /\ UNCHANGED <<running, cancelling, powerVars, app, stopping_state, stop_timer,
                   rules_in_progress>>

DelayedStepCompletes ==
    /\ \E i \in DOMAIN messages :
        /\ Deliver(i, "step_complete")
        /\ ProcCompleteCfm("success", RemoveAt(messages, i), pairing, finding, services)
    /\ UNCHANGED <<paired, failed_pairings>>

ServiceStepCompletes(result) ==
    /\ Alive
    /\ services > 0
    /\ ProcCompleteCfm(result, messages, pairing, finding, services - 1)
    /\ UNCHANGED <<paired, failed_pairings>>

(* twsTopology_ProcPairPeerHandlePeerPairLePairCfm *)
PairCfm(success) ==
    /\ Alive
    /\ pairing
    /\ ProcCompleteCfm("success", Append(messages, Plain("pair_result")),
                       FALSE, finding, services)
    /\ paired' = success
    /\ failed_pairings' = failed_pairings + (IF success THEN 0 ELSE 1)
    /\ failed_pairings' <= MAX_FAILED_PAIRINGS

(* Mutant: the goal is cleared, the script engine is not reset. *)
CancelCfmKeepsScript(msgs) ==
    /\ panic' = IF script.state = "cancelling" THEN panic ELSE "script not cancelling"
    /\ ClearGoal(script.proc)
    /\ messages' = msgs
    /\ UNCHANGED <<script, running, cancelling, powerVars, app, stopping_state, stop_timer,
                   rules_in_progress, paired, pairing, failed_pairings, services>>

(* scriptEngine_ProcCancelCfm, its message taken out of msgs. *)
ProcCancelCfm(msgs) ==
    /\ panic' = IF script.state = "cancelling" THEN panic ELSE "script not cancelling"
    /\ script' = EngineReset
    /\ ClearGoal(script.proc)
    /\ messages' = msgs
    /\ UNCHANGED <<running, cancelling, powerVars, app, stopping_state, stop_timer,
                   rules_in_progress, paired, pairing, failed_pairings, services>>

HandleScriptCancelCfm ==
    /\ \E i \in DOMAIN messages :
        /\ Deliver(i, "script_cancel_cfm")
        /\ ProcCancelCfm(RemoveAt(messages, i))
    /\ UNCHANGED finding

(* twsTopology_ProcFindRoleHandleMessage: a role was found, or the search  *)
(* was cancelled.                                                          *)
FindRoleEnds ==
    /\ Alive
    /\ \/ /\ finding = "finding"
          /\ ProcCompleteCfm("success", messages, pairing, "idle", services)
          /\ UNCHANGED <<paired, failed_pairings>>
       \/ /\ finding = "cancelling"
          /\ ProcCancelCfm(messages)
          /\ finding' = "idle"

----------------------------------------------------------------------------
(* TwsTopology_HandleGoalDecision, from the goal task or the queue task. *)

DecisionTypes == {"decision", "pending"}

(* Mutant: every flushed decision is taken off the queue count. *)
FlushUncounts(rule) ==
    /\ stopping_state # "started"
    /\ \E i \in DOMAIN messages, type \in DecisionTypes :
        /\ Deliver(i, type)
        /\ messages[i].rule = rule
        /\ messages' = RemoveAt(messages, i)
    /\ queue_msg_count' = queue_msg_count - 1
    /\ UNCHANGED <<script, panic, active_goals_mask, pending_goals,
                   running, cancelling, topologyVars>>

(* The topology is not started: nothing more is done with the decision,    *)
(* neither in the goals engine nor in the rules engine.                    *)
FlushDecision(rule) ==
    /\ stopping_state # "started"
    /\ \E i \in DOMAIN messages, type \in DecisionTypes :
        /\ Deliver(i, type)
        /\ messages[i].rule = rule
        /\ messages' = RemoveAt(messages, i)
    /\ UNCHANGED <<script, panic, active_goals_mask, queue_msg_count, pending_goals,
                   running, cancelling, topologyVars>>

WillStart(goal, is_new_goal) ==
    /\ active_goals_mask = {}
    /\ \/ CancelsActive(goal)
       \/ GoalCanRunNow(queue_msg_count - (IF is_new_goal THEN 0 ELSE 1), is_new_goal)

WillCancel(goal) ==
    /\ CancelsActive(goal) /\ ~IsGoalActive(goal)
    /\ active_goals_mask # {}
    /\ CancelScriptTakesEffect

(* Procedures_DelayedCancelCfmCallback cancels the completion on the way. *)
WithoutCompletion(goal, msgs) ==
    IF WillCancel(goal) /\ CurrentStep = "delayed"
    THEN CancelAll(msgs, {StepComplete(script.proc)})
    ELSE msgs

FirstMessages(goal, is_new_goal) ==
    IF WillStart(goal, is_new_goal) THEN StepMessages(Script[goal][1], goal) ELSE <<>>

HandleGoalDecision(rule) ==
    LET goal == GoalFor(rule) IN
    /\ stopping_state = "started"
    /\ \E i \in DOMAIN messages, type \in DecisionTypes :
        LET is_new_goal == type = "decision" IN
        /\ Deliver(i, type)
        /\ messages[i].rule = rule
        /\ ActivateGoal(goal, rule, is_new_goal,
                WithoutCompletion(goal, RemoveAt(messages, i))
                    \o FirstMessages(goal, is_new_goal))
        /\ stopping_state' =
                IF WillStart(goal, is_new_goal) /\ Script[goal][1] = "start_stop"
                THEN "stopping" ELSE stopping_state
    /\ finding' = IF WillCancel(goal) /\ CurrentStep = "find_role"
                  THEN "cancelling" ELSE finding
    /\ rules_in_progress' = rules_in_progress \ {rule}
    /\ UNCHANGED <<powerVars, app, stop_timer, paired, pairing, failed_pairings, services>>

Next ==
    \/ BeginShutdown \/ HandlePowerShutdownPrepareInd \/ AppStopCfm \/ AppRestarts
    \/ HandleInternalStart \/ HandleInternalStop \/ HandleStopTimeout
    \/ HandleStopCompletion \/ HandleProcPeerPairResult
    \/ DelayedStepCompletes \/ HandleScriptCancelCfm \/ FindRoleEnds
    \/ \E result \in {"success", "failed"} : ServiceStepCompletes(result)
    \/ \E success \in BOOLEAN : PairCfm(success)
    \/ \E rule \in Rules : FlushDecision(rule) \/ HandleGoalDecision(rule)

(* The message loop runs and timers expire.  Services need not answer. *)
Fairness ==
    /\ WF_vars(AppStopCfm) /\ WF_vars(AppRestarts)
    /\ WF_vars(HandlePowerShutdownPrepareInd) /\ WF_vars(HandleInternalStart)
    /\ WF_vars(HandleInternalStop) /\ WF_vars(HandleStopTimeout)
    /\ WF_vars(HandleStopCompletion) /\ WF_vars(HandleProcPeerPairResult)
    /\ WF_vars(DelayedStepCompletes) /\ WF_vars(HandleScriptCancelCfm)
    /\ WF_vars(\E rule \in Rules : FlushDecision(rule) \/ HandleGoalDecision(rule))

Spec == Init /\ [][Next]_vars /\ Fairness

(* The same when services do answer. *)
ServicesAnswer ==
    /\ WF_vars(FindRoleEnds)
    /\ WF_vars(\E result \in {"success", "failed"} : ServiceStepCompletes(result))

SpecServicesAnswer == Spec /\ ServicesAnswer

----------------------------------------------------------------------------
Message == [type : DecisionTypes \cup
                   {"script_cancel_cfm", "step_complete", "start", "stop", "stop_finished",
                    "pair_result", "stop_cfm_success", "stop_cfm_fail",
                    "prepare_ind", "cancelled_ind"},
            rule : Rules \cup {NoRule}, slot : 0 .. QUEUE_COUNT,
            goal : Goals \cup {GOAL_ID_NONE}]

TypeOK ==
    /\ power \in {"ok", "notified", "off"}
    /\ unprepared \subseteq {"topology", "app"}
    /\ shutdowns \in 0 .. MAX_SHUTDOWNS
    /\ app \in {"running", "terminating"}
    /\ stopping_state \in {"stopped", "started", "stopping"}
    /\ stop_timer \in BOOLEAN
    /\ rules_in_progress \subseteq Rules
    /\ paired \in BOOLEAN /\ pairing \in BOOLEAN
    /\ failed_pairings \in 0 .. MAX_FAILED_PAIRINGS
    /\ finding \in {"idle", "finding", "cancelling"}
    /\ services \in Nat
    /\ messages \in Seq(Message)
    /\ queue_msg_count \in Nat
    /\ active_goals_mask \subseteq Goals

(* The timer that guards a stop never outlives it, in whatever order       *)
(* requests, completions and pairing results arrive: it is pending only    *)
(* while the topology runs, so that twsTopology_HandleMessage never drops  *)
(* it and it never stops a later session.                                  *)
TimerMeansRunning == stop_timer => IsRunning

OnTheWay(types) == \E i \in DOMAIN messages : messages[i].type \in types

(* A stop that is guarded by the timer is confirmed, even when no service  *)
(* ever answers and system_stop is held up in its script or in the goal    *)
(* queue.                                                                  *)
GuardedStopConfirmed ==
    stop_timer ~> (OnTheWay({"stop_cfm_success", "stop_cfm_fail"}) \/ panic # "none")

(* The script engine is busy exactly while a scripted goal is active and   *)
(* its assertions hold, although flushed decisions and late completions    *)
(* reach it out of turn.                                                   *)
ScriptFollowsGoal ==
    /\ panic \in {"none", "peer pairing busy"}
    /\ active_goals_mask = IF script.state = "idle" THEN {} ELSE {script.proc}

----------------------------------------------------------------------------
(* What comments of the code say and this code does not keep. *)

(* earbud_sm.c: "Need to restart the SM to ensure topology is re-started", *)
(* which appSmHandlePowerShutdownCancelledInd does as well.  An            *)
(* application that does not shut down ends up with a topology that is     *)
(* started.                                                                *)
RestartHonoured ==
    <>[](app = "running" /\ power = "ok" /\ panic = "none" => stopping_state = "started")
=============================================================================
