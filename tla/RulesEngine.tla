---------------------------- MODULE RulesEngine -----------------------------
(***************************************************************************)
(* The rules engine (src/adk/src/common/rules_engine): a rule set is a     *)
(* fixed table of rules, each with the events that trigger it and the      *)
(* message it sends when it decides to run.  RulesEngine_RunRules is a     *)
(* loop over the table: rule_index is the loop's index (0 when no pass is  *)
(* under way) and pass_events its local copy of the events, taken when the *)
(* pass starts.  A pass is one call of the code: the modules that use this *)
(* one let nothing else happen while rule_index # 0.                       *)
(*                                                                         *)
(* No rules table of the repository uses rule_flag_always_evaluate or      *)
(* rule_flag_progress_matters, and no task registers for the notification  *)
(* that no rule is in progress: flags and notification are left out.       *)
(***************************************************************************)
EXTENDS Integers, Sequences

CONSTANTS RULES_COUNT, \* number of rules in the table
          Events,      \* bits of a rule_events_t
          Messages,    \* ids of the messages rules send
          RuleEvents,  \* [rules -> events that trigger the rule]
          RuleMessage  \* [rules -> message of the rule]

Rules == 1 .. RULES_COUNT

ASSUME RuleTableAssumption ==
    /\ RULES_COUNT \in Nat \ {0}
    /\ RuleEvents \in [Rules -> SUBSET Events]
    /\ \A r \in Rules : RuleEvents[r] # {}
    /\ RuleMessage \in [Rules -> Messages]

VARIABLES
    events,      \* set of active events
    rule_status, \* [Rules -> status]
    rule_index,  \* rule the pass looks at next, 0 when there is no pass
    pass_events, \* the events the pass works with
    decisions    \* messages sent to event_task and not yet handled

ruleVars == <<events, rule_status, rule_index, pass_events, decisions>>

(* RulesEngine_CreateRuleSet *)
RuleSetInit ==
    /\ events = {}
    /\ rule_status = [r \in Rules |-> "not_done"]
    /\ rule_index = 0
    /\ pass_events = {}
    /\ decisions = <<>>

(* RulesEngine_Check: begin a pass over the table. *)
StartPass == rule_index' = 1 /\ pass_events' = events'

NextRule == rule_index' = IF rule_index < RULES_COUNT THEN rule_index + 1 ELSE 0

----------------------------------------------------------------------------
(* The status of rules. *)

(* RulesEngine_ResetEvent, for rules that have the given status by then. *)
ResetEvent(event, status) ==
    /\ events' = events \ event
    /\ rule_status' = [r \in Rules |->
            IF RuleEvents[r] \cap event # {} THEN "not_done" ELSE status[r]]

(* RulesEngine_UpdateRuleStatus to rule_status_complete: the rules it      *)
(* concerns, and the events that have no other incomplete rule and so are  *)
(* cleared.                                                                *)
Updated(message, status, event) ==
    {r \in Rules : /\ RuleMessage[r] = message
                   /\ rule_status[r] = status
                   /\ RuleEvents[r] \cap event # {}}

AfterUpdate(updated) ==
    [r \in Rules |-> IF r \in updated THEN "complete" ELSE rule_status[r]]

Incomplete(updated, event) ==
    {r \in Rules : RuleEvents[r] \cap event # {} /\ AfterUpdate(updated)[r] # "complete"}

EventsOf(S) == UNION {RuleEvents[r] : r \in S}

CompleteRules(message, status, event) ==
    LET updated == Updated(message, status, event) IN
    ResetEvent(EventsOf(updated) \ EventsOf(Incomplete(updated, event)),
               AfterUpdate(updated))

----------------------------------------------------------------------------
(* One turn of the loop of RulesEngine_RunRules. *)

Matches(r) == RuleEvents[r] \subseteq pass_events

(* The rule's events are not all set, or it is complete. *)
SkipRule ==
    /\ rule_index # 0
    /\ ~Matches(rule_index) \/ rule_status[rule_index] = "complete"
    /\ NextRule
    /\ UNCHANGED <<events, rule_status, pass_events, decisions>>

(* The rule is in progress: later rules of its events have to wait. *)
HoldEvents ==
    /\ rule_index # 0
    /\ Matches(rule_index) /\ rule_status[rule_index] = "in_progress"
    /\ pass_events' = pass_events \ RuleEvents[rule_index]
    /\ NextRule
    /\ UNCHANGED <<events, rule_status, decisions>>

Evaluated ==
    /\ rule_index # 0
    /\ Matches(rule_index)
    /\ rule_status[rule_index] \in {"not_done", "deferred"}

(* rule_action_run, rule_action_run_with_param *)
RuleRuns ==
    /\ Evaluated
    /\ rule_status' = [rule_status EXCEPT ![rule_index] = "in_progress"]
    /\ decisions' = Append(decisions, RuleMessage[rule_index])
    /\ pass_events' = pass_events \ RuleEvents[rule_index]
    /\ NextRule
    /\ UNCHANGED events

(* Mutant: an ignored rule gets the status the code declares for it. *)
IgnoredIsAStatus ==
    /\ Evaluated
    /\ rule_status' = [rule_status EXCEPT ![rule_index] = "ignored"]
    /\ NextRule
    /\ UNCHANGED <<events, pass_events, decisions>>

(* rule_action_ignore, rule_action_complete *)
RuleIgnored ==
    /\ Evaluated
    /\ CompleteRules(RuleMessage[rule_index], rule_status[rule_index],
                     RuleEvents[rule_index])
    /\ NextRule
    /\ UNCHANGED <<pass_events, decisions>>

(* rule_action_defer *)
RuleDeferred ==
    /\ Evaluated
    /\ rule_status' = [rule_status EXCEPT ![rule_index] = "deferred"]
    /\ NextRule
    /\ UNCHANGED <<events, pass_events, decisions>>

----------------------------------------------------------------------------
(* The engine's interface. *)

(* RulesEngine_SetEvent *)
SetEvent(event_mask) ==
    /\ events' = events \cup event_mask
    /\ StartPass
    /\ UNCHANGED <<rule_status, decisions>>

(* Mutant: only rules of events that are still set are completed. *)
CompletesForSetEvents(message) ==
    /\ CompleteRules(message, "in_progress", events)
    /\ StartPass

(* Mutant: the rules that waited for the completed one are not run. *)
CompletesWithoutCheck(message) ==
    /\ CompleteRules(message, "in_progress", Events)
    /\ UNCHANGED <<rule_index, pass_events>>

(* Mutant: the rules go back to rule_status_not_done. *)
RunsAgain(message) ==
    /\ ResetEvent({}, [r \in Rules |-> IF r \in Updated(message, "in_progress", Events)
                                      THEN "not_done" ELSE rule_status[r]])
    /\ StartPass

(* RulesEngine_SetRuleComplete, a SetRuleWithEventComplete for all events. *)
SetRuleComplete(message) ==
    /\ CompleteRules(message, "in_progress", Events)
    /\ StartPass
=============================================================================
