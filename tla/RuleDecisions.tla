--------------------------- MODULE RuleDecisions ----------------------------
(***************************************************************************)
(* A rule set at work in a topology that keeps running: the topology sets  *)
(* and resets events, and TwsTopology_HandleGoalDecision marks the rules   *)
(* of every decision it handles as complete, those that the goals engine   *)
(* queued and sent again included                                          *)
(* (src/adk/src/topologies/tws/common/core/tws_topology_goals.c).          *)
(***************************************************************************)
EXTENDS RulesEngine

CONSTANTS MayDefer,     \* rules whose function can answer rule_action_defer
          MAX_EVENTS,   \* bound: events set or reset by the topology
          MAX_REQUEUES  \* bound: decisions the goals engine sends again

ASSUME DecisionAssumption ==
    /\ MayDefer \subseteq Rules
    /\ MAX_EVENTS \in Nat
    /\ MAX_REQUEUES \in Nat

VARIABLES event_count, \* events set or reset so far
          requeues,    \* decisions queued by the goals engine so far
          queued       \* decisions waiting in the goals engine's queue

allRuleVars == <<ruleVars, event_count, requeues, queued>>

RulesInit ==
    /\ RuleSetInit
    /\ event_count = 0
    /\ requeues = 0
    /\ queued = {}

(* A pass is not interrupted. *)
EngineIdle == rule_index = 0

(* twsTopology_RulesSetEvent, twsTopology_RulesResetEvent *)
TopologySetsEvent(event) ==
    /\ EngineIdle
    /\ event_count < MAX_EVENTS
    /\ event_count' = event_count + 1
    /\ SetEvent({event})
    /\ UNCHANGED <<requeues, queued>>

TopologyResetsEvent(event) ==
    /\ EngineIdle
    /\ event_count < MAX_EVENTS
    /\ event_count' = event_count + 1
    /\ ResetEvent({event}, rule_status)
    /\ UNCHANGED <<rule_index, pass_events, decisions, requeues, queued>>

Rule ==
    /\ SkipRule \/ HoldEvents \/ RuleRuns \/ RuleIgnored
    /\ UNCHANGED <<event_count, requeues, queued>>

DeferRule ==
    /\ rule_index \in MayDefer
    /\ RuleDeferred
    /\ UNCHANGED <<event_count, requeues, queued>>

(* The goals engine may queue the decision it is given, once more too when *)
(* it comes from its queue.                                                *)
MayQueue(rest, message) ==
    \/ /\ queued' = rest
       /\ UNCHANGED requeues
    \/ /\ requeues < MAX_REQUEUES
       /\ requeues' = requeues + 1
       /\ queued' = rest \cup {message}

HandleDecision ==
    /\ EngineIdle
    /\ decisions # <<>>
    /\ SetRuleComplete(Head(decisions))
    /\ decisions' = Tail(decisions)
    /\ MayQueue(queued, Head(decisions))
    /\ UNCHANGED event_count

HandleQueuedDecision(message) ==
    /\ EngineIdle
    /\ message \in queued
    /\ SetRuleComplete(message)
    /\ MayQueue(queued \ {message}, message)
    /\ UNCHANGED <<decisions, event_count>>

RulesNext ==
    \/ \E event \in Events : TopologySetsEvent(event)
    \/ \E event \in Events : TopologyResetsEvent(event)
    \/ Rule
    \/ DeferRule
    \/ HandleDecision
    \/ \E message \in Messages : HandleQueuedDecision(message)

(* The loop of a pass goes on, and the message loop delivers decisions. *)
RulesFairness ==
    /\ WF_allRuleVars(Rule \/ DeferRule)
    /\ WF_allRuleVars(HandleDecision)
    /\ \A message \in Messages : WF_allRuleVars(HandleQueuedDecision(message))

RulesSpec == RulesInit /\ [][RulesNext]_allRuleVars /\ RulesFairness

----------------------------------------------------------------------------
Status == {"not_done", "in_progress", "complete", "deferred"}

RulesTypeOK ==
    /\ events \in SUBSET Events
    /\ rule_status \in [Rules -> Status]
    /\ rule_index \in 0 .. RULES_COUNT
    /\ pass_events \in SUBSET Events
    /\ decisions \in Seq(Messages)
    /\ event_count \in Nat
    /\ requeues \in Nat
    /\ queued \in SUBSET Messages

(* A rule in progress has its decision on the way, whatever is reset, set  *)
(* again or sent twice: nothing waits for a rule that nobody will mark as  *)
(* complete (RulesEngine_SetRuleComplete).                                 *)
InProgressHasDecision ==
    \A r \in Rules : rule_status[r] = "in_progress" =>
        \E i \in DOMAIN decisions : decisions[i] = RuleMessage[r]

AtRest == EngineIdle /\ decisions = <<>> /\ queued = {}

(* When the engine is at rest, every event that is set and has rules is    *)
(* held by a rule that deferred, and none of its rules is left out: the    *)
(* pass at the end of RulesEngine_SetRuleWithEventComplete resumes what a  *)
(* rule in progress held back.                                             *)
OnlyDeferredRulesWait ==
    AtRest => \A e \in events :
        LET rules == {r \in Rules : e \in RuleEvents[r] /\ RuleEvents[r] \subseteq events} IN
        /\ \A r \in rules : rule_status[r] \in {"complete", "deferred"}
        /\ rules # {} => \E r \in rules : rule_status[r] = "deferred"

(* Once the topology sets no more events, the engine comes to rest: a      *)
(* completion that starts a pass that runs a rule that sends a decision    *)
(* ... does not go on for ever.                                            *)
RulesComeToRest == <>[]AtRest
=============================================================================
