---------------------------- MODULE GoalsEngine -----------------------------
(***************************************************************************)
(* The goals engine (src/adk/src/topologies/common/goals_engine): which    *)
(* goals of a topology run, which wait, and which are cancelled for one    *)
(* another.  A rule decision that cannot run yet is sent back to the       *)
(* topology as a message conditional on the lock of a slot of the          *)
(* pending_goals array; lock_mask, the goals it waits for, keeps the lock. *)
(* "messages" is the application's message queue: messages are delivered   *)
(* in order, skipping conditional ones whose lock is held.                 *)
(*                                                                         *)
(* Single (not scripted) goals are run by procedures.  The cancel function *)
(* of a DelayedCancel procedure stops it at once and confirms by a message *)
(* of its own (Procedures_DelayedCancelCfmCallback), the others confirm    *)
(* once the service they asked has stopped, as do the SlowCancel steps of  *)
(* scripts.  None confirms synchronously.                                  *)
(***************************************************************************)
EXTENDS ScriptEngine, Queues, SequencesExt

CONSTANTS Contention,      \* [Goals -> {"wait", "cancel", "concurrent"}]
          ConcurrentGoals, \* [Goals -> SUBSET Goals]
          ExclusiveGoal,   \* [Goals -> Goals \cup {GOAL_ID_NONE}]
          DelayedCancel,   \* the single goals whose cancellation is a message
          Rules,           \* ids of the rule decision messages
          GoalsOf,         \* [Rules -> goals the decision may stand for]
          QUEUE_COUNT      \* INITIAL_GOAL_QUEUE_COUNT, 8 in the code

(* What the goals table of the TWS topology provides: concurrency is       *)
(* mutual, between distinct goals that are both declared concurrent, and   *)
(* never for a goal and its exclusive goal.                                *)
ASSUME GoalTableAssumption ==
    /\ Contention \in [Goals -> {"wait", "cancel", "concurrent"}]
    /\ ConcurrentGoals \in [Goals -> SUBSET Goals]
    /\ ExclusiveGoal \in [Goals -> Goals \cup {GOAL_ID_NONE}]
    /\ \A g, h \in Goals : h \in ConcurrentGoals[g] =>
        /\ g \in ConcurrentGoals[h]
        /\ g # h /\ Contention[g] = "concurrent" /\ ExclusiveGoal[g] # h
    /\ \A g \in DOMAIN Script : Contention[g] # "concurrent"
    /\ DelayedCancel \subseteq Goals \ DOMAIN Script
    /\ GoalsOf \in [Rules -> SUBSET (Goals \cup {GOAL_ID_NONE})]
    /\ 0 \notin Rules
    /\ QUEUE_COUNT \in Nat \ {0}

VARIABLES
    active_goals_mask, \* goals being run
    queue_msg_count,   \* "number of rule decisions queued in queue_task"
    pending_goals,     \* slots: [id, rule_id, lock_mask]
    messages,          \* the application's message queue
    running,           \* single goals whose procedure is in progress
    cancelling         \* those of them waiting for a service to stop

engineVars == <<script, panic, active_goals_mask, queue_msg_count, pending_goals,
                messages, running, cancelling>>

Slots == 1 .. QUEUE_COUNT
NoRule == 0
Unused == [id |-> GOAL_ID_NONE, rule_id |-> NoRule, lock_mask |-> {}]
EmptyQueue == [i \in Slots |-> Unused]

(* GoalsEngine_CreateGoalSet *)
GoalsInit ==
    /\ ScriptInit
    /\ active_goals_mask = {}
    /\ queue_msg_count = 0
    /\ pending_goals = EmptyQueue
    /\ messages = <<>>
    /\ running = {}
    /\ cancelling = {}

Decision(rule) == [type |-> "decision", rule |-> rule, slot |-> 0, goal |-> 0]
Pending(rule, i) == [type |-> "pending", rule |-> rule, slot |-> i, goal |-> 0]
CancelCfm(goal) == [type |-> "cancel_cfm", rule |-> NoRule, slot |-> 0, goal |-> goal]
ScriptCancelCfm == [type |-> "script_cancel_cfm", rule |-> NoRule, slot |-> 0, goal |-> 0]

IsPending(m) == m.type = "pending"
PendingMessages == {Pending(rule, i) : rule \in Rules, i \in Slots}

Deliverable(m) == IsPending(m) => pending_goals[m.slot].lock_mask = {}

(* The position of the message that is delivered next. *)
IsNext(i) ==
    /\ i \in DOMAIN messages
    /\ Deliverable(messages[i])
    /\ \A j \in 1 .. i - 1 : ~Deliverable(messages[j])

----------------------------------------------------------------------------
(* The goal queue. *)

CancelsActive(goal) == Contention[goal] = "cancel"
RunsConcurrently(goal) == Contention[goal] = "concurrent"
IsGoalActive(goal) == goal \in active_goals_mask

(* Mutant: GOAL_MASK(GOAL_ID_NONE) taken for GOAL_MASK_NONE. *)
WaitsForNone(goal, active) ==
    (IF RunsConcurrently(goal) THEN active \ ConcurrentGoals[goal] ELSE active)
        \cup {GOAL_ID_NONE}

(* Goals that the given goal has to wait for among the active ones. *)
WaitMask(goal, active) ==
    IF RunsConcurrently(goal) THEN active \ ConcurrentGoals[goal] ELSE active

(* The slot for a goal: the one it already has, else the first unused one. *)
FirstSlotOf(slots, id) ==
    CHOOSE i \in Slots : slots[i].id = id /\ \A j \in 1 .. i - 1 : slots[j].id # id

HasSlot(slots, id) == \E i \in Slots : slots[i].id = id

SlotFor(slots, goal) ==
    IF HasSlot(slots, goal) THEN FirstSlotOf(slots, goal)
                            ELSE FirstSlotOf(slots, GOAL_ID_NONE)

(* goalsEngine_QueueGoal; msgs and count are the queue it is added to. *)
QueueGoal(slots, count, msgs, goal, rule, wait_mask) ==
    IF HasSlot(slots, goal) \/ HasSlot(slots, GOAL_ID_NONE)
    THEN LET i == SlotFor(slots, goal) IN
         /\ pending_goals' = [slots EXCEPT ![i] =
                [id |-> goal, rule_id |-> rule, lock_mask |-> wait_mask]]
         /\ messages' = Append(msgs, Pending(rule, i))
         /\ queue_msg_count' = count + 1
         /\ UNCHANGED panic
    ELSE /\ panic' = "goal queue full"
         /\ UNCHANGED <<pending_goals, messages, queue_msg_count>>

(* The messages goalsEngine_DequeGoal cancels: those with the rule_id the  *)
(* goal's slot holds.                                                      *)
DequeuedRule(slots, goal) ==
    IF HasSlot(slots, goal) THEN slots[FirstSlotOf(slots, goal)].rule_id ELSE NoRule

DequeGoal(slots, goal) ==
    IF HasSlot(slots, goal)
    THEN [slots EXCEPT ![FirstSlotOf(slots, goal)] = Unused]
    ELSE slots

KeptByDeque(slots, goal, msgs) ==
    CancelAll(msgs, {Pending(DequeuedRule(slots, goal), i) : i \in Slots})

(* goalsEngine_UpdateQueueMasks *)
UpdateQueueMasks(slots, count, active) ==
    IF count = 0 THEN slots
    ELSE [i \in Slots |->
            IF slots[i].rule_id # NoRule
            THEN [slots[i] EXCEPT !.lock_mask = WaitMask(slots[i].id, active)]
            ELSE slots[i]]

ResetPendingQueueIfEmpty(slots, count) == IF count = 0 THEN EmptyQueue ELSE slots

NotPending(msgs) == CancelAll(msgs, PendingMessages)
----------------------------------------------------------------------------
(* Starting, cancelling and clearing goals. *)

(* goalsEngine_StartGoal, followed by the reset that ends ActivateGoal. *)
StartGoal(slots, count, msgs, goal) ==
    /\ active_goals_mask' = active_goals_mask \cup {goal}
    /\ IF IsScriptedGoal(goal)
       THEN StartScript(goal) /\ UNCHANGED running
       ELSE running' = running \cup {goal} /\ UNCHANGED <<script, panic>>
    /\ pending_goals' = ResetPendingQueueIfEmpty(
            UpdateQueueMasks(slots, count, active_goals_mask'), count)
    /\ queue_msg_count' = count
    /\ messages' = msgs
    /\ UNCHANGED cancelling

(* goalsEngine_CancelGoal for each goal of S, lowest first: what is posted *)
(* and what becomes of the procedures and the script.                      *)
CancelsScript(S) == CancelScriptTakesEffect /\ \E g \in S : IsScriptedGoal(g)

(* Mutant: the cancellation of a script is not confirmed. *)
CfmsWithoutScript(S) ==
    LET delayed == Ascending(Cardinality(Goals), S \cap DelayedCancel) IN
    [i \in DOMAIN delayed |-> CancelCfm(delayed[i])]

CancelCfms(S) ==
    LET delayed == Ascending(Cardinality(Goals), S \cap DelayedCancel) IN
    [i \in DOMAIN delayed |-> CancelCfm(delayed[i])]
        \o (IF CancelsScript(S) /\ CurrentStep \notin SlowCancel
            THEN <<ScriptCancelCfm>> ELSE <<>>)

CancelProcedures(S) ==
    /\ running' = running \ (S \cap DelayedCancel)
    /\ cancelling' = cancelling \cup ((S \cap running) \ DelayedCancel)
    /\ script' = IF CancelsScript(S) THEN CancellingScript ELSE script

(* Mutant: the locks of the queued goals are left as they are. *)
ClearsOnlyMask(goal) ==
    /\ active_goals_mask' = active_goals_mask \ {goal}
    /\ UNCHANGED <<pending_goals, queue_msg_count>>

(* GoalsEngine_ClearGoal *)
ClearGoal(goal) ==
    /\ active_goals_mask' = active_goals_mask \ {goal}
    /\ pending_goals' = [i \in Slots |->
            IF pending_goals[i].id # GOAL_ID_NONE
            THEN [pending_goals[i] EXCEPT !.lock_mask = @ \ {goal}]
            ELSE pending_goals[i]]
    /\ UNCHANGED queue_msg_count

----------------------------------------------------------------------------
(* GoalsEngine_ActivateGoal.  msgs is the message queue without the        *)
(* decision that is being handled, count the queue count after it.         *)

(* Mutant: only the queue is looked at. *)
RunsWhenQueueEmpty(count, is_new_goal) == count = 0 \/ ~is_new_goal

GoalCanRunNow(count, is_new_goal) ==
    active_goals_mask = {} /\ (count = 0 \/ ~is_new_goal)

(* Mutant: the queue is flushed but its count is kept. *)
FlushKeepsCount(goal, msgs) ==
    /\ CancelsActive(goal) /\ IsGoalActive(goal)
    /\ messages' = NotPending(msgs)
    /\ UNCHANGED <<script, panic, active_goals_mask, running, cancelling,
                   queue_msg_count, pending_goals>>

(* A cancelling goal that already runs is not run again, but still clears  *)
(* the queue.                                                              *)
IgnoreDuplicate(goal, msgs) ==
    /\ CancelsActive(goal) /\ IsGoalActive(goal)
    /\ messages' = NotPending(msgs)
    /\ queue_msg_count' = 0
    /\ pending_goals' = EmptyQueue
    /\ UNCHANGED <<script, panic, active_goals_mask, running, cancelling>>

StartNow(goal, count, is_new_goal, msgs) ==
    /\ ~(CancelsActive(goal) /\ IsGoalActive(goal))
    /\ GoalCanRunNow(count, is_new_goal)
    /\ StartGoal(pending_goals, count, msgs, goal)

(* A cancelling goal clears the queue, cancels all that is active and      *)
(* waits for the cancellations.                                            *)
CancelAndQueue(goal, rule, count, is_new_goal, msgs) ==
    /\ CancelsActive(goal) /\ ~IsGoalActive(goal)
    /\ ~GoalCanRunNow(count, is_new_goal)
    /\ IF active_goals_mask = {}
       THEN StartGoal(EmptyQueue, 0, NotPending(msgs), goal)
       ELSE /\ QueueGoal(EmptyQueue, 0,
                         NotPending(msgs) \o CancelCfms(active_goals_mask),
                         goal, rule, active_goals_mask)
            /\ CancelProcedures(active_goals_mask)
            /\ UNCHANGED active_goals_mask

(* The exclusive goal of a goal, when it is active, is cancelled. *)
ActiveExclusive(goal) == {ExclusiveGoal[goal]} \cap active_goals_mask

(* Any other goal: run at once beside the goals it is concurrent with, or  *)
(* wait for the others.                                                    *)
StartConcurrently(goal, count, is_new_goal, msgs) ==
    /\ ~CancelsActive(goal)
    /\ ~GoalCanRunNow(count, is_new_goal)
    /\ RunsConcurrently(goal) /\ WaitMask(goal, active_goals_mask) = {}
    /\ StartGoal(pending_goals, count, msgs, goal)

WaitInQueue(goal, rule, count, is_new_goal, msgs) ==
    LET exclusive == ActiveExclusive(goal)
        wait_mask == WaitMask(goal, active_goals_mask)
        kept      == IF exclusive = {} THEN msgs
                     ELSE KeptByDeque(pending_goals, ExclusiveGoal[goal], msgs)
        slots     == IF exclusive = {} THEN pending_goals
                     ELSE DequeGoal(pending_goals, ExclusiveGoal[goal])
    IN
    /\ ~CancelsActive(goal)
    /\ ~GoalCanRunNow(count, is_new_goal)
    /\ ~(RunsConcurrently(goal) /\ wait_mask = {})
    /\ QueueGoal(slots, count - (Len(msgs) - Len(kept)),
                 kept \o CancelCfms(exclusive), goal, rule, wait_mask)
    /\ CancelProcedures(exclusive)
    /\ UNCHANGED active_goals_mask

(* GOAL_ID_NONE is refused before the queue count is looked at. *)
ActivateGoal(goal, rule, is_new_goal, msgs) ==
    LET count == IF is_new_goal THEN queue_msg_count ELSE queue_msg_count - 1 IN
    \/ /\ goal = GOAL_ID_NONE
       /\ messages' = msgs
       /\ UNCHANGED <<script, panic, active_goals_mask, queue_msg_count,
                      pending_goals, running, cancelling>>
    \/ /\ goal # GOAL_ID_NONE
       /\ \/ IgnoreDuplicate(goal, msgs)
          \/ StartNow(goal, count, is_new_goal, msgs)
          \/ CancelAndQueue(goal, rule, count, is_new_goal, msgs)
          \/ StartConcurrently(goal, count, is_new_goal, msgs)
          \/ WaitInQueue(goal, rule, count, is_new_goal, msgs)
=============================================================================
