---------------------------- MODULE GoalsProofs -----------------------------
(* Theorems about the goals engine, for every goals table that meets       *)
(* GoalTableAssumption, any number of goals, slots and decisions.          *)
EXTENDS GoalDecisions, QueueProofs

USE DEF GOAL_ID_NONE, NoRule

(* The goals of the table are numbered from 1. *)
LEMMA GoalNumbers == Goals = 1 .. Cardinality(Goals) /\ Cardinality(Goals) \in Nat
BY ScriptAssumption, FS_CardinalityType

(* The "no goal" value of the script table is not a goal. *)
LEMMA NoneIsNoGoal == GOAL_ID_NONE \notin Goals
<1> DEFINE n == Cardinality(Goals)
<1>1. Goals = 1 .. n /\ n \in Nat
    BY GoalNumbers
<1> HIDE DEF n
<1> QED
    BY <1>1

(* An empty slot is a well-formed entry of the goal queue. *)
LEMMA UnusedIsEntry == Unused \in Entry
BY DEF Unused, Entry

(* The queue the engine starts with has only empty slots. *)
LEMMA EmptyQueueInv ==
    /\ EmptyQueue \in [Slots -> Entry]
    /\ \A i \in Slots : EmptyQueue[i] = Unused
BY UnusedIsEntry DEF EmptyQueue

(* What a queue of slots satisfies while the goals of "active" run. *)
QueueOK(slots, active) ==
    /\ slots \in [Slots -> Entry]
    /\ \A i \in Slots : slots[i].id = GOAL_ID_NONE => slots[i] = Unused
    /\ \A i \in Slots : slots[i].lock_mask \subseteq active

(* The initial queue satisfies the queue's part of the invariant. *)
LEMMA EmptyQueueOK == \A active : QueueOK(EmptyQueue, active)
BY EmptyQueueInv DEF QueueOK, Unused

(* A goal that has a slot has a first one. *)
LEMMA FirstSlotIsSlot ==
    ASSUME NEW slots, NEW id, HasSlot(slots, id)
    PROVE  FirstSlotOf(slots, id) \in Slots
<1> DEFINE T == {i \in Slots : slots[i].id = id}
<1>1. Slots \subseteq Nat
    BY GoalTableAssumption DEF Slots
<1>2. T \subseteq Nat /\ T # {}
    BY <1>1 DEF HasSlot
<1>3. PICK i \in T : \A j \in T : ~(<<j, i>> \in OpToRel(<, Nat))
    BY <1>2, NatLessThanWellFounded, WFMin
<1>4. \A j \in 1 .. i - 1 : slots[j].id # id
    <2> SUFFICES ASSUME NEW j \in 1 .. i - 1, slots[j].id = id PROVE FALSE
        OBVIOUS
    <2>1. i \in Nat /\ j \in Nat /\ j < i /\ j \in Slots
        BY <1>2, GoalTableAssumption DEF Slots
    <2> QED
        BY <1>3, <2>1 DEF OpToRel
<1> QED
    BY <1>3, <1>4 DEF FirstSlotOf

----------------------------------------------------------------------------
(* The operations on the queue keep it sound. *)

LEMMA WaitMaskIsActive == \A goal, active : WaitMask(goal, active) \subseteq active
BY DEF WaitMask

(* Entering a decision that waits for active goals. *)
LEMMA QueueGoalOK ==
    ASSUME NEW active \in SUBSET Goals, NEW slots, QueueOK(slots, active),
           QueueOK(pending_goals, active),
           NEW goal \in Goals, NEW rule \in Rules, NEW count, NEW msgs,
           NEW wait \in SUBSET active,
           QueueGoal(slots, count, msgs, goal, rule, wait)
    PROVE  QueueOK(pending_goals, active)'
<1>1. CASE HasSlot(slots, goal) \/ HasSlot(slots, GOAL_ID_NONE)
    <2>1. SlotFor(slots, goal) \in Slots
        BY <1>1, FirstSlotIsSlot DEF SlotFor
    <2> DEFINE i == SlotFor(slots, goal)
               e == [id |-> goal, rule_id |-> rule, lock_mask |-> wait]
    <2>2. e \in Entry /\ e.id # GOAL_ID_NONE /\ e.lock_mask \subseteq active
        BY NoneIsNoGoal DEF Entry
    <2>3. pending_goals' = [slots EXCEPT ![i] = e]
        BY <1>1 DEF QueueGoal
    <2> HIDE DEF i, e
    <2>4. /\ pending_goals' \in [Slots -> Entry]
          /\ pending_goals'[i] = e
          /\ \A j \in Slots \ {i} : pending_goals'[j] = slots[j]
        BY <2>1, <2>2, <2>3 DEF i, QueueOK
    <2> QED
        BY <2>2, <2>4 DEF QueueOK
<1>2. CASE ~(HasSlot(slots, goal) \/ HasSlot(slots, GOAL_ID_NONE))
    BY <1>2 DEF QueueGoal, QueueOK
<1> QED
    BY <1>1, <1>2

(* Freeing the slot of a goal keeps the queue well-formed. *)
LEMMA DequeGoalOK ==
    ASSUME NEW active, NEW slots, QueueOK(slots, active), NEW goal
    PROVE  QueueOK(DequeGoal(slots, goal), active)
<1>1. CASE HasSlot(slots, goal)
    <2> DEFINE i == FirstSlotOf(slots, goal)
    <2>1. i \in Slots
        BY <1>1, FirstSlotIsSlot
    <2>2. DequeGoal(slots, goal) = [slots EXCEPT ![i] = Unused]
        BY <1>1 DEF DequeGoal
    <2>3. Unused.lock_mask = {}
        BY DEF Unused
    <2> HIDE DEF i
    <2>4. /\ DequeGoal(slots, goal) \in [Slots -> Entry]
          /\ DequeGoal(slots, goal)[i] = Unused
          /\ \A j \in Slots \ {i} : DequeGoal(slots, goal)[j] = slots[j]
        BY <2>1, <2>2, UnusedIsEntry DEF QueueOK
    <2> QED
        BY <2>3, <2>4 DEF QueueOK
<1>2. CASE ~HasSlot(slots, goal)
    BY <1>2 DEF DequeGoal
<1> QED
    BY <1>1, <1>2

(* When goals are added to the active ones, the locks are computed anew. *)
LEMMA UpdateQueueMasksOK ==
    ASSUME NEW old, NEW active \in SUBSET Goals, old \subseteq active,
           NEW slots, QueueOK(slots, old), NEW count
    PROVE  QueueOK(ResetPendingQueueIfEmpty(
                        UpdateQueueMasks(slots, count, active), count), active)
<1>1. CASE count = 0
    BY <1>1, EmptyQueueOK DEF ResetPendingQueueIfEmpty
<1>2. CASE count # 0
    <2> DEFINE updated == UpdateQueueMasks(slots, count, active)
    <2>1. ASSUME NEW i \in Slots
          PROVE  /\ updated[i] \in Entry
                 /\ updated[i].id = GOAL_ID_NONE => updated[i] = Unused
                 /\ updated[i].lock_mask \subseteq active
        <3>1. slots[i] \in Entry /\ slots[i].lock_mask \subseteq active
            BY DEF QueueOK
        <3>2. CASE slots[i].rule_id # NoRule
            <4>1. updated[i] = [slots[i] EXCEPT !.lock_mask = WaitMask(slots[i].id, active)]
                BY <1>2, <3>2 DEF UpdateQueueMasks
            <4>2. slots[i].id # GOAL_ID_NONE
                BY <3>2 DEF QueueOK, Unused
            <4>3. WaitMask(slots[i].id, active) \in SUBSET active
                BY WaitMaskIsActive
            <4> QED
                BY <3>1, <4>1, <4>2, <4>3 DEF Entry
        <3>3. CASE slots[i].rule_id = NoRule
            <4>1. updated[i] = slots[i]
                BY <1>2, <3>3 DEF UpdateQueueMasks
            <4> QED
                BY <3>1, <4>1 DEF QueueOK
        <3> QED
            BY <3>2, <3>3
    <2>2. updated = [i \in Slots |-> updated[i]]
        BY <1>2 DEF UpdateQueueMasks
    <2>3. ResetPendingQueueIfEmpty(updated, count) = updated
        BY <1>2 DEF ResetPendingQueueIfEmpty
    <2> HIDE DEF updated
    <2> QED
        BY <2>1, <2>2, <2>3 DEF QueueOK, updated
<1> QED
    BY <1>1, <1>2

(* Clearing a goal takes it out of every lock. *)
LEMMA ClearGoalOK ==
    ASSUME NEW goal, QueueOK(pending_goals, active_goals_mask), ClearGoal(goal)
    PROVE  QueueOK(pending_goals, active_goals_mask)'
<1>1. ASSUME NEW i \in Slots
      PROVE  /\ pending_goals'[i] \in Entry
             /\ pending_goals'[i].id = GOAL_ID_NONE => pending_goals'[i] = Unused
             /\ pending_goals'[i].lock_mask \subseteq active_goals_mask'
    <2>1. pending_goals[i] \in Entry /\ pending_goals[i].lock_mask \subseteq active_goals_mask
        BY DEF QueueOK
    <2>2. CASE pending_goals[i].id # GOAL_ID_NONE
        <3>1. pending_goals'[i] = [pending_goals[i] EXCEPT !.lock_mask = @ \ {goal}]
            BY <2>2 DEF ClearGoal
        <3> QED
            BY <2>1, <2>2, <3>1 DEF ClearGoal, Entry
    <2>3. CASE pending_goals[i].id = GOAL_ID_NONE
        <3>1. pending_goals'[i] = Unused
            BY <2>3 DEF ClearGoal, QueueOK
        <3> QED
            BY <3>1, UnusedIsEntry DEF Unused
    <2> QED
        BY <2>2, <2>3
<1>2. pending_goals' = [i \in Slots |-> pending_goals'[i]]
    BY DEF ClearGoal
<1> QED
    BY <1>1, <1>2 DEF QueueOK

----------------------------------------------------------------------------
(* The invariant is its types, the concurrency of the active goals and     *)
(* the condition on the queue.                                             *)
LEMMA GoalsInvIsQueueOK ==
    GoalsInv <=>
        /\ active_goals_mask \in SUBSET Goals
        /\ running \in SUBSET Goals
        /\ cancelling \in SUBSET Goals
        /\ QueueOK(pending_goals, active_goals_mask)
        /\ ActiveGoalsConcurrent
BY DEF GoalsInv, EngineTypeOK, UnusedSlotsClear, LocksHeldByActiveGoals, QueueOK

(* Starting a goal beside goals that are all concurrent with it. *)
LEMMA StartGoalOK ==
    ASSUME GoalsInv, NEW goal \in Goals, NEW slots, NEW count, NEW msgs,
           QueueOK(slots, active_goals_mask),
           \A h \in active_goals_mask : h \in ConcurrentGoals[goal],
           StartGoal(slots, count, msgs, goal)
    PROVE  GoalsInv'
<1>1. /\ active_goals_mask' = active_goals_mask \cup {goal}
      /\ active_goals_mask \in SUBSET Goals
      /\ ActiveGoalsConcurrent
    BY GoalsInvIsQueueOK DEF StartGoal
<1>2. active_goals_mask' \in SUBSET Goals /\ active_goals_mask \subseteq active_goals_mask'
    BY <1>1
<1>3. running' \in SUBSET Goals /\ cancelling' \in SUBSET Goals
    BY GoalsInvIsQueueOK DEF StartGoal
<1>4. QueueOK(pending_goals, active_goals_mask)'
    <2>1. QueueOK(ResetPendingQueueIfEmpty(
                UpdateQueueMasks(slots, count, active_goals_mask'), count), active_goals_mask')
        BY <1>2, UpdateQueueMasksOK
    <2> QED
        BY <2>1 DEF StartGoal, QueueOK
<1>5. ActiveGoalsConcurrent'
    BY <1>1, GoalTableAssumption DEF ActiveGoalsConcurrent
<1> QED
    BY <1>2, <1>3, <1>4, <1>5, GoalsInvIsQueueOK DEF GoalsInv, EngineTypeOK,
       UnusedSlotsClear, LocksHeldByActiveGoals, QueueOK

(* Queueing a goal, with or without cancelling others. *)
LEMMA QueueStepOK ==
    ASSUME GoalsInv, NEW goal \in Goals, NEW rule \in Rules, NEW slots, NEW count,
           NEW msgs, NEW wait \in SUBSET active_goals_mask, NEW S,
           QueueOK(slots, active_goals_mask),
           QueueGoal(slots, count, msgs, goal, rule, wait),
           CancelProcedures(S), UNCHANGED active_goals_mask
    PROVE  GoalsInv'
<1>1. QueueOK(pending_goals, active_goals_mask)'
    BY QueueGoalOK, GoalsInvIsQueueOK DEF QueueOK
<1>2. running' \in SUBSET Goals /\ cancelling' \in SUBSET Goals
    BY GoalsInvIsQueueOK DEF CancelProcedures
<1> QED
    BY <1>1, <1>2, GoalsInvIsQueueOK DEF GoalsInv, EngineTypeOK, ActiveGoalsConcurrent,
       UnusedSlotsClear, LocksHeldByActiveGoals, QueueOK

(* Activating a goal, new or from the queue, keeps the invariant. *)
LEMMA ActivateGoalOK ==
    ASSUME GoalsInv, NEW goal \in Goals \cup {GOAL_ID_NONE}, NEW rule \in Rules,
           NEW is_new_goal, NEW msgs, ActivateGoal(goal, rule, is_new_goal, msgs)
    PROVE  GoalsInv'
<1> DEFINE count == IF is_new_goal THEN queue_msg_count ELSE queue_msg_count - 1
<1> HIDE DEF count
<1> USE DEF GoalsInv, EngineTypeOK, ActiveGoalsConcurrent, UnusedSlotsClear,
            LocksHeldByActiveGoals
<1>0. QueueOK(pending_goals, active_goals_mask)
    BY GoalsInvIsQueueOK
<1>1. CASE goal = GOAL_ID_NONE
    BY <1>1, NoneIsNoGoal DEF ActivateGoal
<1>2. CASE goal # GOAL_ID_NONE /\ IgnoreDuplicate(goal, msgs)
    BY <1>2, EmptyQueueOK DEF IgnoreDuplicate, QueueOK
<1>3. CASE goal # GOAL_ID_NONE /\ StartNow(goal, count, is_new_goal, msgs)
    BY <1>0, <1>3, StartGoalOK DEF StartNow, GoalCanRunNow
<1>4. CASE goal # GOAL_ID_NONE /\ CancelAndQueue(goal, rule, count, is_new_goal, msgs)
    <2>1. CASE active_goals_mask = {}
        <3>1. StartGoal(EmptyQueue, 0, NotPending(msgs), goal)
            BY <1>4, <2>1 DEF CancelAndQueue
        <3> QED
            BY <1>4, <2>1, <3>1, EmptyQueueOK, StartGoalOK
    <2>2. CASE active_goals_mask # {}
        <3> DEFINE all == NotPending(msgs) \o CancelCfms(active_goals_mask)
        <3>1. /\ QueueGoal(EmptyQueue, 0, all, goal, rule, active_goals_mask)
              /\ CancelProcedures(active_goals_mask)
              /\ UNCHANGED active_goals_mask
            BY <1>4, <2>2 DEF CancelAndQueue
        <3> HIDE DEF all
        <3> QED
            BY <1>4, <3>1, EmptyQueueOK, QueueStepOK
    <2> QED
        BY <2>1, <2>2
<1>5. CASE goal # GOAL_ID_NONE /\ StartConcurrently(goal, count, is_new_goal, msgs)
    <2>1. \A h \in active_goals_mask : h \in ConcurrentGoals[goal]
        BY <1>5 DEF StartConcurrently, WaitMask
    <2> QED
        BY <1>0, <1>5, <2>1, StartGoalOK DEF StartConcurrently
<1>6. CASE goal # GOAL_ID_NONE /\ WaitInQueue(goal, rule, count, is_new_goal, msgs)
    <2> DEFINE exclusive == ActiveExclusive(goal)
               kept == IF exclusive = {} THEN msgs
                       ELSE KeptByDeque(pending_goals, ExclusiveGoal[goal], msgs)
               slots == IF exclusive = {} THEN pending_goals
                        ELSE DequeGoal(pending_goals, ExclusiveGoal[goal])
               n == count - (Len(msgs) - Len(kept))
               all == kept \o CancelCfms(exclusive)
               wait == WaitMask(goal, active_goals_mask)
    <2>1. QueueOK(slots, active_goals_mask)
        BY <1>0, DequeGoalOK
    <2>2. /\ QueueGoal(slots, n, all, goal, rule, wait)
          /\ CancelProcedures(exclusive)
          /\ UNCHANGED active_goals_mask
        BY <1>6 DEF WaitInQueue
    <2>3. wait \in SUBSET active_goals_mask
        BY WaitMaskIsActive
    <2> HIDE DEF exclusive, kept, slots, n, all, wait
    <2> QED
        BY <1>6, <2>1, <2>2, <2>3, QueueStepOK
<1> QED
    BY <1>1, <1>2, <1>3, <1>4, <1>5, <1>6 DEF ActivateGoal, count

(* A goal that is cleared, whatever ended it. *)
LEMMA ClearStepOK ==
    ASSUME GoalsInv, NEW goal, ClearGoal(goal),
           running' \subseteq running, cancelling' \subseteq cancelling
    PROVE  GoalsInv'
<1>1. QueueOK(pending_goals, active_goals_mask)'
    BY ClearGoalOK, GoalsInvIsQueueOK
<1>2. active_goals_mask' \subseteq active_goals_mask
    BY DEF ClearGoal
<1> QED
    BY <1>1, <1>2 DEF GoalsInv, EngineTypeOK, ActiveGoalsConcurrent, UnusedSlotsClear,
       LocksHeldByActiveGoals, QueueOK

----------------------------------------------------------------------------
(* The invariant holds when the engine is initialised. *)
LEMMA GoalsInvInit == Init => GoalsInv
BY EmptyQueueOK DEF Init, GoalsInit, GoalsInv, EngineTypeOK, ActiveGoalsConcurrent,
   UnusedSlotsClear, LocksHeldByActiveGoals, QueueOK

(* Every step of the engine and of the scripts keeps the invariant. *)
LEMMA GoalsInvStep == GoalsInv /\ [Next]_vars => GoalsInv'
<1> SUFFICES ASSUME GoalsInv, [Next]_vars PROVE GoalsInv'
    OBVIOUS
<1>1. ASSUME NEW rule \in Rules, PostDecision(rule) PROVE GoalsInv'
    BY <1>1 DEF PostDecision, GoalsInv, EngineTypeOK, ActiveGoalsConcurrent,
       UnusedSlotsClear, LocksHeldByActiveGoals
<1>2. ASSUME NEW rule \in Rules, HandleGoalDecision(rule) PROVE GoalsInv'
    <2>1. PICK i \in DOMAIN messages, goal \in GoalsOf[rule] :
                ActivateGoal(goal, rule, TRUE, RemoveAt(messages, i))
        BY <1>2 DEF HandleGoalDecision
    <2>2. goal \in Goals \cup {GOAL_ID_NONE}
        BY GoalTableAssumption
    <2> DEFINE msgs == RemoveAt(messages, i)
    <2> HIDE DEF msgs
    <2> QED
        BY <2>1, <2>2, ActivateGoalOK DEF msgs
<1>3. ASSUME NEW rule \in Rules, HandleQueuedDecision(rule) PROVE GoalsInv'
    <2>1. PICK i \in DOMAIN messages, goal \in GoalsOf[rule] :
                ActivateGoal(goal, rule, FALSE, RemoveAt(messages, i))
        BY <1>3 DEF HandleQueuedDecision
    <2>2. goal \in Goals \cup {GOAL_ID_NONE}
        BY GoalTableAssumption
    <2> QED
        BY <2>1, <2>2, ActivateGoalOK
<1>4. CASE HandleCancelCfm
    BY <1>4, ClearStepOK DEF HandleCancelCfm
<1>5. CASE HandleScriptCancelCfm
    BY <1>5, ClearStepOK DEF HandleScriptCancelCfm
<1>6. ASSUME NEW goal \in Goals, GoalProcComplete(goal) PROVE GoalsInv'
    BY <1>6, ClearStepOK DEF GoalProcComplete
<1>7. ASSUME NEW goal \in Goals, GoalProcCancelCfm(goal) PROVE GoalsInv'
    BY <1>7, ClearStepOK DEF GoalProcCancelCfm
<1>8. ASSUME NEW result \in {"success", "timeout", "failed"}, ScriptStepComplete(result)
      PROVE  GoalsInv'
    <2>1. CASE EndsScript(result)
        BY <1>8, <2>1, ClearStepOK DEF ScriptStepComplete
    <2>2. CASE ~EndsScript(result)
        BY <1>8, <2>2 DEF ScriptStepComplete, GoalsInv, EngineTypeOK,
           ActiveGoalsConcurrent, UnusedSlotsClear, LocksHeldByActiveGoals
    <2> QED
        BY <2>1, <2>2
<1>9. CASE ScriptStepCancelCfm
    BY <1>9, ClearStepOK DEF ScriptStepCancelCfm
<1>10. CASE UNCHANGED vars
    BY <1>10 DEF vars, engineVars, GoalsInv, EngineTypeOK, ActiveGoalsConcurrent,
       UnusedSlotsClear, LocksHeldByActiveGoals
<1> QED
    BY <1>1, <1>2, <1>3, <1>4, <1>5, <1>6, <1>7, <1>8, <1>9, <1>10 DEF Next

(* The inductive invariant of the goals engine. *)
THEOREM EngineInvariant == Spec => []GoalsInv
BY GoalsInvInit, GoalsInvStep, PTL DEF Spec

(* No order of decisions, completions and cancellations of any goals table *)
(* runs two goals at once that are not concurrent (GoalsEngine_ActivateGoal). *)
THEOREM GoalsRunConcurrently == Spec => []ActiveGoalsConcurrent
<1>1. GoalsInv => ActiveGoalsConcurrent
    BY DEF GoalsInv
<1> QED
    BY <1>1, EngineInvariant, PTL

(* No queued decision of any goals table waits for a goal that is not      *)
(* active (goalsEngine_UpdateQueueMasks, GoalsEngine_ClearGoal).           *)
THEOREM QueueWaitsForActiveGoals == Spec => []LocksHeldByActiveGoals
<1>1. GoalsInv => LocksHeldByActiveGoals
    BY DEF GoalsInv
<1> QED
    BY <1>1, EngineInvariant, PTL

----------------------------------------------------------------------------
(* The messages of the engine. *)

(* The decisions that may stand for a goal. *)
RunRules == {rule \in Rules : \E goal \in GoalsOf[rule] : goal # GOAL_ID_NONE}

(* Only the decisions that stood for a goal are ever queued. *)
EngineMessages ==
    {Decision(rule) : rule \in Rules}
        \cup {Pending(rule, i) : rule \in RunRules, i \in Slots}
        \cup {CancelCfm(goal) : goal \in DelayedCancel} \cup {ScriptCancelCfm}

(* What a message is can be told from its type. *)
LEMMA MessageTypesDiffer ==
    ASSUME NEW m \in EngineMessages
    PROVE  /\ m \in Message
           /\ m \in PendingMessages <=> m.type = "pending"
           /\ m = ScriptCancelCfm <=> m.type = "script_cancel_cfm"
           /\ m.type = "cancel_cfm" => m.goal \in DelayedCancel
           /\ m.type = "pending" => m.rule \in RunRules
<1>1. /\ Slots \subseteq 0 .. QUEUE_COUNT /\ 0 \in 0 .. QUEUE_COUNT
      /\ DelayedCancel \subseteq Goals
    BY GoalTableAssumption DEF Slots
<1>2. /\ \A rule : Decision(rule).type = "decision"
      /\ \A rule, i : Pending(rule, i).type = "pending" /\ Pending(rule, i).rule = rule
      /\ \A goal : CancelCfm(goal).type = "cancel_cfm" /\ CancelCfm(goal).goal = goal
      /\ ScriptCancelCfm.type = "script_cancel_cfm"
    BY DEF Decision, Pending, CancelCfm, ScriptCancelCfm
<1>3. \A x \in PendingMessages : x.type = "pending"
    BY <1>2 DEF PendingMessages
<1>4. /\ \A rule \in Rules : Decision(rule) \in Message
      /\ \A rule \in Rules, i \in Slots : Pending(rule, i) \in Message
      /\ \A goal \in DelayedCancel : CancelCfm(goal) \in Message
      /\ ScriptCancelCfm \in Message
    BY <1>1 DEF Decision, Pending, CancelCfm, ScriptCancelCfm, Message
<1>5. CASE \E rule \in Rules : m = Decision(rule)
    BY <1>2, <1>3, <1>4, <1>5
<1>6. CASE \E rule \in RunRules, i \in Slots : m = Pending(rule, i)
    <2>1. PICK rule \in RunRules, i \in Slots : m = Pending(rule, i)
        BY <1>6
    <2>2. rule \in Rules
        BY DEF RunRules
    <2>3. m \in PendingMessages
        BY <2>1, <2>2 DEF PendingMessages
    <2> QED
        BY <1>2, <1>4, <2>1, <2>2, <2>3
<1>7. CASE \E goal \in DelayedCancel : m = CancelCfm(goal)
    BY <1>2, <1>3, <1>4, <1>7
<1>8. CASE m = ScriptCancelCfm
    BY <1>2, <1>3, <1>4, <1>8
<1> QED
    BY <1>5, <1>6, <1>7, <1>8 DEF EngineMessages

(* Which confirmations are posted when the goals of S are cancelled. *)
LEMMA CancelCfmsOK ==
    ASSUME NEW S \in SUBSET Goals
    PROVE  /\ CancelCfms(S) \in Seq(EngineMessages)
           /\ \A i \in DOMAIN CancelCfms(S) : CancelCfms(S)[i] \notin PendingMessages
           /\ Queued(ScriptCancelCfm, CancelCfms(S))
                => CancelsScript(S) /\ CurrentStep \notin SlowCancel
           /\ Once(ScriptCancelCfm, CancelCfms(S))
<1> DEFINE d == Ascending(Cardinality(Goals), S \cap DelayedCancel)
           c == [i \in DOMAIN d |-> CancelCfm(d[i])]
           t == IF CancelsScript(S) /\ CurrentStep \notin SlowCancel
                THEN <<ScriptCancelCfm>> ELSE <<>>
<1>1. d \in Seq(DelayedCancel)
    <2>1. d \in Seq((S \cap DelayedCancel) \cap (1 .. Cardinality(Goals)))
        BY GoalNumbers, AscendingQueue
    <2> HIDE DEF d
    <2>2. \A i \in 1 .. Len(d) : d[i] \in DelayedCancel
        BY <2>1
    <2> QED
        BY <2>1, <2>2
<1>2. CancelCfms(S) = c \o t
    BY DEF CancelCfms
<1> HIDE DEF d
<1>3. /\ c \in Seq(EngineMessages)
      /\ \A i \in DOMAIN c : c[i] \notin PendingMessages /\ c[i] # ScriptCancelCfm
    <2>1. DOMAIN d = 1 .. Len(d) /\ Len(d) \in Nat /\ \A i \in 1 .. Len(d) : d[i] \in DelayedCancel
        BY <1>1
    <2>2. \A i \in 1 .. Len(d) : CancelCfm(d[i]) \in EngineMessages
        BY <2>1 DEF EngineMessages
    <2>3. DOMAIN c = 1 .. Len(d) /\ \A i \in 1 .. Len(d) : c[i] = CancelCfm(d[i])
        BY <2>1
    <2>4. c \in Seq(EngineMessages)
        BY <2>1, <2>2
    <2> HIDE DEF c
    <2>5. \A i \in DOMAIN c : c[i] \in EngineMessages /\ c[i].type = "cancel_cfm"
        BY <2>2, <2>3 DEF CancelCfm
    <2> QED
        BY <2>4, <2>5, MessageTypesDiffer
<1>4. /\ t \in Seq(EngineMessages)
      /\ \A i \in DOMAIN t : t[i] \notin PendingMessages
      /\ Queued(ScriptCancelCfm, t) => CancelsScript(S) /\ CurrentStep \notin SlowCancel
      /\ Once(ScriptCancelCfm, t)
    <2>1. ScriptCancelCfm \in EngineMessages /\ ScriptCancelCfm \notin PendingMessages
        <3>1. ScriptCancelCfm \in EngineMessages
            BY DEF EngineMessages
        <3> QED
            BY <3>1, MessageTypesDiffer DEF ScriptCancelCfm
    <2>2. CASE CancelsScript(S) /\ CurrentStep \notin SlowCancel
        <3>1. t = <<ScriptCancelCfm>>
            BY <2>2
        <3>2. DOMAIN t = {1} /\ t[1] = ScriptCancelCfm /\ t \in Seq(EngineMessages)
            BY <2>1, <3>1
        <3> HIDE DEF t
        <3> QED
            BY <2>1, <2>2, <3>2 DEF Once
    <2>3. CASE ~(CancelsScript(S) /\ CurrentStep \notin SlowCancel)
        <3>1. t = <<>>
            BY <2>3
        <3>2. DOMAIN t = {} /\ t \in Seq(EngineMessages)
            BY <3>1
        <3> HIDE DEF t
        <3> QED
            BY <3>2 DEF Once, Queued
    <2> QED
        BY <2>2, <2>3
<1> HIDE DEF c, t
<1>5. ~Queued(ScriptCancelCfm, c) /\ Once(ScriptCancelCfm, c)
    BY <1>3 DEF Queued, Once
<1>6. /\ c \o t \in Seq(EngineMessages)
      /\ Queued(ScriptCancelCfm, c \o t) => Queued(ScriptCancelCfm, t)
      /\ Once(ScriptCancelCfm, c \o t)
    BY <1>3, <1>4, <1>5, ConcatQueue
<1>7. \A i \in DOMAIN (c \o t) : (c \o t)[i] \notin PendingMessages
    <2>1. \A m : Queued(m, c \o t) => Queued(m, c) \/ Queued(m, t)
        BY <1>3, <1>4, ConcatQueue
    <2>2. \A i \in DOMAIN (c \o t) : Queued((c \o t)[i], c \o t)
        BY DEF Queued
    <2> QED
        BY <1>3, <1>4, <2>1, <2>2 DEF Queued
<1> QED
    BY <1>2, <1>4, <1>6, <1>7

(* A queue of the engine's messages with at most one confirmation of a     *)
(* cancelled script.                                                       *)
MessagesOK(msgs) == msgs \in Seq(EngineMessages) /\ Once(ScriptCancelCfm, msgs)

CfmQueued(msgs) == Queued(ScriptCancelCfm, msgs)

(* By how much a queue count is too large. *)
Slack(count, msgs) == count - Count(PendingMessages, msgs)

(* The number of queued decisions is a number. *)
LEMMA PendingCount == \A msgs : MessagesOK(msgs) => Count(PendingMessages, msgs) \in Nat
BY CountType DEF MessagesOK

(* The message that is delivered leaves the queue. *)
LEMMA DeliverOK ==
    ASSUME MessagesOK(messages), NEW k \in DOMAIN messages
    PROVE  /\ messages[k] \in EngineMessages
           /\ MessagesOK(RemoveAt(messages, k))
           /\ CfmQueued(RemoveAt(messages, k)) => CfmQueued(messages)
           /\ messages[k] = ScriptCancelCfm => ~CfmQueued(RemoveAt(messages, k))
           /\ messages[k].type = "pending" =>
                Count(PendingMessages, RemoveAt(messages, k)) = Count(PendingMessages, messages) - 1
           /\ messages[k].type # "pending" =>
                Count(PendingMessages, RemoveAt(messages, k)) = Count(PendingMessages, messages)
<1>1. messages \in Seq(EngineMessages) /\ k \in 1 .. Len(messages) /\ messages[k] \in EngineMessages
    BY DEF MessagesOK
<1>2. Count(PendingMessages, RemoveAt(messages, k))
            = Count(PendingMessages, messages) - (IF messages[k] \in PendingMessages THEN 1 ELSE 0)
    BY <1>1, CountRemoveAt
<1>3. messages[k] \in PendingMessages <=> messages[k].type = "pending"
    BY <1>1, MessageTypesDiffer
<1>4. /\ RemoveAt(messages, k) \in Seq(EngineMessages)
      /\ \A m : Queued(m, RemoveAt(messages, k)) => Queued(m, messages)
      /\ \A m : Once(m, messages) => Once(m, RemoveAt(messages, k))
      /\ Once(messages[k], messages) => ~Queued(messages[k], RemoveAt(messages, k))
    BY <1>1, DeliverQueue
<1>5. Count(PendingMessages, messages) \in Nat
    BY PendingCount
<1> QED
    BY <1>1, <1>2, <1>3, <1>4, <1>5 DEF MessagesOK, CfmQueued

(* MessageFlushTask takes out all queued decisions and nothing else. *)
LEMMA NotPendingOK ==
    ASSUME NEW msgs, MessagesOK(msgs)
    PROVE  /\ MessagesOK(NotPending(msgs))
           /\ CfmQueued(NotPending(msgs)) => CfmQueued(msgs)
           /\ Count(PendingMessages, NotPending(msgs)) = 0
<1> DEFINE r == NotPending(msgs)
<1>1. /\ r \in Seq(EngineMessages)
      /\ \A m : Queued(m, r) <=> Queued(m, msgs) /\ m \notin PendingMessages
      /\ \A m : Once(m, msgs) => Once(m, r)
    BY CancelAllQueue DEF NotPending, MessagesOK
<1> HIDE DEF r
<1>2. \A i \in DOMAIN r : r[i] \notin PendingMessages
    BY <1>1 DEF Queued
<1>3. Count(PendingMessages, r) = 0
    <2>1. (Count(PendingMessages, r) = 0) = (\A i \in DOMAIN r : r[i] \notin PendingMessages)
        BY <1>1, CountIsNat
    <2> QED
        BY <1>2, <2>1
<1> QED
    BY <1>1, <1>3 DEF r, MessagesOK, CfmQueued

(* goalsEngine_DequeGoal takes as much off the queue count as it cancels. *)
LEMMA KeptByDequeOK ==
    ASSUME NEW msgs, MessagesOK(msgs), NEW slots, NEW goal, NEW count \in Int
    PROVE  LET kept == KeptByDeque(slots, goal, msgs) IN
           /\ MessagesOK(kept)
           /\ CfmQueued(kept) => CfmQueued(msgs)
           /\ count - (Len(msgs) - Len(kept)) \in Int
           /\ Slack(count - (Len(msgs) - Len(kept)), kept) = Slack(count, msgs)
<1> DEFINE U == {Pending(DequeuedRule(slots, goal), i) : i \in Slots}
           r == KeptByDeque(slots, goal, msgs)
<1>1. /\ r \in Seq(EngineMessages)
      /\ \A m : Queued(m, r) <=> Queued(m, msgs) /\ m \notin U
      /\ \A m : Once(m, msgs) => Once(m, r)
    BY CancelAllQueue DEF KeptByDeque, MessagesOK
<1>2. msgs \in Seq(EngineMessages) /\ Len(msgs) \in Nat /\ Len(r) \in Nat
    BY <1>1 DEF MessagesOK
<1>3. \A i \in DOMAIN msgs : msgs[i] \in U => msgs[i] \in PendingMessages
    <2>1. \A m \in U : m.type = "pending"
        BY DEF Pending
    <2>2. \A i \in DOMAIN msgs : msgs[i] \in EngineMessages
        BY <1>2
    <2> HIDE DEF U
    <2> QED
        BY <2>1, <2>2, MessageTypesDiffer
<1> HIDE DEF U
<1>4. Count(PendingMessages, r) = Count(PendingMessages, msgs) - (Len(msgs) - Len(r))
    BY <1>2, <1>3, CountCancelAll DEF KeptByDeque, U
<1>5. Count(PendingMessages, r) \in Nat /\ Count(PendingMessages, msgs) \in Nat
    BY <1>1, <1>2, CountType
<1> HIDE DEF r
<1>6. Slack(count - (Len(msgs) - Len(r)), r) = Slack(count, msgs)
    BY <1>2, <1>4, <1>5 DEF Slack
<1>7. MessagesOK(r) /\ (CfmQueued(r) => CfmQueued(msgs)) /\ count - (Len(msgs) - Len(r)) \in Int
    BY <1>1, <1>2 DEF MessagesOK, CfmQueued
<1> QED
    BY <1>6, <1>7 DEF r

(* goalsEngine_QueueGoal counts the decision it queues. *)
LEMMA QueueGoalMessages ==
    ASSUME NEW slots, NEW count \in Int, NEW msgs, MessagesOK(msgs), MessagesOK(messages),
           NEW goal \in Goals, NEW rule \in RunRules, NEW wait,
           QueueGoal(slots, count, msgs, goal, rule, wait)
    PROVE  \/ /\ MessagesOK(messages') /\ queue_msg_count' = count + 1 /\ UNCHANGED panic
              /\ CfmQueued(messages') => CfmQueued(msgs)
              /\ Slack(queue_msg_count', messages') = Slack(count, msgs)
           \/ panic' = "goal queue full" /\ UNCHANGED <<messages, queue_msg_count>>
<1>1. CASE HasSlot(slots, goal) \/ HasSlot(slots, GOAL_ID_NONE)
    <2> DEFINE i == SlotFor(slots, goal)
               m == Pending(rule, i)
    <2>1. i \in Slots
        BY <1>1, FirstSlotIsSlot DEF SlotFor
    <2>2. m \in PendingMessages /\ m \in EngineMessages /\ m # ScriptCancelCfm
        <3>1. m \in PendingMessages
            BY <2>1 DEF PendingMessages, RunRules
        <3>2. m # ScriptCancelCfm
            BY DEF Pending, ScriptCancelCfm
        <3> QED
            BY <2>1, <3>1, <3>2 DEF EngineMessages
    <2>3. messages' = Append(msgs, m) /\ queue_msg_count' = count + 1 /\ UNCHANGED panic
        BY <1>1 DEF QueueGoal
    <2> HIDE DEF m
    <2>4. /\ msgs \in Seq(EngineMessages)
          /\ Count(PendingMessages, Append(msgs, m)) = Count(PendingMessages, msgs) + 1
          /\ Count(PendingMessages, msgs) \in Nat
        <3>1. msgs \in Seq(EngineMessages)
            BY DEF MessagesOK
        <3>2. Count(PendingMessages, Append(msgs, m))
                = Count(PendingMessages, msgs) + (IF m \in PendingMessages THEN 1 ELSE 0)
            BY <2>2, <3>1, CountAppend
        <3> QED
            BY <2>2, <3>1, <3>2, CountType
    <2>5. /\ Append(msgs, m) \in Seq(EngineMessages)
          /\ Queued(ScriptCancelCfm, Append(msgs, m)) <=> Queued(ScriptCancelCfm, msgs)
          /\ Once(ScriptCancelCfm, Append(msgs, m))
        BY <2>2, <2>4, AppendQueue DEF MessagesOK
    <2>6. Slack(queue_msg_count', messages') = Slack(count, msgs)
        BY <2>3, <2>4 DEF Slack
    <2> QED
        BY <2>3, <2>5, <2>6 DEF MessagesOK, CfmQueued
<1>2. CASE ~(HasSlot(slots, goal) \/ HasSlot(slots, GOAL_ID_NONE))
    BY <1>2 DEF QueueGoal
<1> QED
    BY <1>1, <1>2

----------------------------------------------------------------------------
(* The script engine and the goals engine. *)

ScriptState ==
    [state : {"idle", "active", "cancelling"}, next_step : Nat,
     proc : DOMAIN Script \cup {GOAL_ID_NONE}]

(* The script engine is busy while a scripted goal is active, no procedure *)
(* of a single goal answers for a scripted one, and the confirmation of a  *)
(* cancellation is on the way only while the engine waits for it.          *)
ScriptInv ==
    /\ script \in ScriptState
    /\ ScriptFollowsGoal
    /\ running \cap DOMAIN Script = {} /\ cancelling \cap DOMAIN Script = {}
    /\ MessagesOK(messages)
    /\ CfmQueued(messages) => script.state = "cancelling" /\ CurrentStep \notin SlowCancel

(* The queue count is never too small. *)
CountInv == queue_msg_count \in Int /\ Slack(queue_msg_count, messages) \in Nat

(* goalsEngine_StartGoal finds the script engine idle. *)
LEMMA StartGoalScript ==
    ASSUME ScriptInv, NEW goal \in Goals, NEW slots, NEW count, NEW msgs,
           IsScriptedGoal(goal) => active_goals_mask = {},
           MessagesOK(msgs), CfmQueued(msgs) => CfmQueued(messages),
           StartGoal(slots, count, msgs, goal)
    PROVE  ScriptInv' /\ queue_msg_count' = count /\ messages' = msgs
<1>1. /\ active_goals_mask' = active_goals_mask \cup {goal}
      /\ queue_msg_count' = count /\ messages' = msgs /\ UNCHANGED cancelling
    BY DEF StartGoal
<1>2. MessagesOK(messages') /\ (CfmQueued(messages') => CfmQueued(messages))
    BY <1>1
<1>3. CASE IsScriptedGoal(goal)
    <2>1. script.state = "idle" /\ ~CfmQueued(messages')
        <3>1. active_goals_mask = {}
            BY <1>3
        <3>2. script.state = "idle"
            BY <3>1 DEF ScriptInv, ScriptFollowsGoal
        <3> QED
            BY <1>2, <3>2 DEF ScriptInv
    <2>2. /\ script' = [state |-> "active", next_step |-> 0, proc |-> goal]
          /\ UNCHANGED panic /\ UNCHANGED running
        BY <1>3, <2>1 DEF StartGoal, StartScript
    <2>3. script' \in ScriptState /\ script'.state = "active" /\ script'.proc = goal
        BY <1>3, <2>2 DEF ScriptState, IsScriptedGoal
    <2>4. active_goals_mask' \cap DOMAIN Script = {goal}
        BY <1>1, <1>3 DEF IsScriptedGoal
    <2>5. ScriptFollowsGoal'
        BY <2>2, <2>3, <2>4 DEF ScriptInv, ScriptFollowsGoal
    <2> QED
        BY <1>1, <1>2, <2>1, <2>2, <2>3, <2>5 DEF ScriptInv
<1>4. CASE ~IsScriptedGoal(goal)
    <2>1. running' = running \cup {goal} /\ UNCHANGED <<script, panic>>
        BY <1>4 DEF StartGoal
    <2>2. active_goals_mask' \cap DOMAIN Script = active_goals_mask \cap DOMAIN Script
        BY <1>1, <1>4 DEF IsScriptedGoal
    <2>3. ScriptFollowsGoal'
        BY <2>1, <2>2 DEF ScriptInv, ScriptFollowsGoal
    <2>4. running' \cap DOMAIN Script = {}
        BY <1>4, <2>1 DEF ScriptInv, IsScriptedGoal
    <2>5. CfmQueued(messages') => script'.state = "cancelling" /\ CurrentStep' \notin SlowCancel
        BY <1>2, <2>1 DEF ScriptInv, CurrentStep
    <2> QED
        BY <1>1, <1>2, <2>1, <2>3, <2>4, <2>5 DEF ScriptInv
<1> QED
    BY <1>3, <1>4

(* Queueing a goal and cancelling the goals of S for it: the cancellation  *)
(* of a script is confirmed once.                                          *)
LEMMA QueueStepScript ==
    ASSUME GoalsInv, ScriptInv, panic = "none",
           NEW goal \in Goals, NEW rule \in RunRules, NEW slots,
           NEW count \in Int, NEW msgs, NEW wait, NEW S \in SUBSET active_goals_mask,
           MessagesOK(msgs), CfmQueued(msgs) => CfmQueued(messages),
           QueueGoal(slots, count, msgs \o CancelCfms(S), goal, rule, wait),
           CancelProcedures(S), UNCHANGED active_goals_mask
    PROVE  /\ ScriptInv'
           /\ \/ UNCHANGED <<messages, queue_msg_count>>
              \/ /\ queue_msg_count' = count + 1
                 /\ Slack(queue_msg_count', messages') = Slack(count, msgs)
<1> DEFINE cfms == CancelCfms(S)
           all == msgs \o cfms
<1>1. S \in SUBSET Goals
    BY DEF GoalsInv, EngineTypeOK
<1>2. /\ cfms \in Seq(EngineMessages)
      /\ \A i \in DOMAIN cfms : cfms[i] \notin PendingMessages
      /\ Queued(ScriptCancelCfm, cfms) => CancelsScript(S) /\ CurrentStep \notin SlowCancel
      /\ Once(ScriptCancelCfm, cfms)
    BY <1>1, CancelCfmsOK
<1>3. CancelsScript(S) => script.state = "active" /\ ~CfmQueued(messages)
    BY DEF CancelsScript, CancelScriptTakesEffect, ScriptInv
<1> HIDE DEF cfms
<1>4. msgs \in Seq(EngineMessages) /\ Once(ScriptCancelCfm, msgs)
    BY DEF MessagesOK
<1>5. MessagesOK(all) /\ (CfmQueued(all) => CfmQueued(msgs) \/ Queued(ScriptCancelCfm, cfms))
    <2>1. ~(Queued(ScriptCancelCfm, msgs) /\ Queued(ScriptCancelCfm, cfms))
        BY <1>2, <1>3 DEF CfmQueued
    <2> QED
        BY <1>2, <1>4, <2>1, ConcatQueue DEF MessagesOK, CfmQueued
<1>6. Slack(count, all) = Slack(count, msgs)
    BY <1>2, <1>4, CountConcat DEF Slack
<1> HIDE DEF all
<1>7. \/ /\ MessagesOK(messages') /\ queue_msg_count' = count + 1 /\ UNCHANGED panic
         /\ CfmQueued(messages') => CfmQueued(all)
         /\ Slack(queue_msg_count', messages') = Slack(count, all)
      \/ panic' = "goal queue full" /\ UNCHANGED <<messages, queue_msg_count>>
    <2>1. QueueGoal(slots, count, all, goal, rule, wait) /\ MessagesOK(messages)
        BY DEF all, cfms, ScriptInv
    <2> QED
        BY <1>5, <2>1, QueueGoalMessages
<1>8. MessagesOK(messages') /\ panic' \in {"none", "goal queue full"}
    BY <1>7 DEF ScriptInv
<1>9. CfmQueued(messages') =>
        CfmQueued(messages) \/ (CancelsScript(S) /\ CurrentStep \notin SlowCancel)
    BY <1>2, <1>5, <1>7
<1>10. /\ script' \in ScriptState
       /\ script'.proc = script.proc /\ script'.next_step = script.next_step
       /\ script'.state = IF CancelsScript(S) THEN "cancelling" ELSE script.state
    <2>1. CASE CancelsScript(S)
        <3>1. script' = [script EXCEPT !.state = "cancelling"]
            BY <2>1 DEF CancelProcedures, CancellingScript, CancelsScript
        <3> QED
            BY <2>1, <3>1 DEF ScriptInv, ScriptState
    <2>2. CASE ~CancelsScript(S)
        BY <2>2 DEF CancelProcedures, ScriptInv
    <2> QED
        BY <2>1, <2>2
<1>11. ScriptFollowsGoal'
    <2>1. (script'.state = "idle") = (script.state = "idle")
        BY <1>3, <1>10
    <2> QED
        BY <1>8, <1>10, <2>1 DEF ScriptInv, ScriptFollowsGoal
<1>12. running' \cap DOMAIN Script = {} /\ cancelling' \cap DOMAIN Script = {}
    BY DEF CancelProcedures, ScriptInv
<1>13. CfmQueued(messages') => script'.state = "cancelling" /\ CurrentStep' \notin SlowCancel
    <2>1. CurrentStep' = CurrentStep
        BY <1>10 DEF CurrentStep
    <2> QED
        BY <1>9, <1>10, <2>1 DEF ScriptInv
<1> QED
    BY <1>6, <1>7, <1>8, <1>10, <1>11, <1>12, <1>13 DEF ScriptInv

(* Activating a goal keeps the two engines in step; the queue count stays  *)
(* as wrong as it was, or becomes right, except that a decision that       *)
(* stands for no goal is not counted.                                      *)
LEMMA ActivateGoalScript ==
    ASSUME GoalsInv, ScriptInv, panic = "none", queue_msg_count \in Int,
           NEW rule \in Rules, NEW goal \in GoalsOf[rule],
           NEW is_new_goal \in BOOLEAN, NEW msgs,
           MessagesOK(msgs), CfmQueued(msgs) => CfmQueued(messages),
           ActivateGoal(goal, rule, is_new_goal, msgs)
    PROVE  LET count == IF is_new_goal THEN queue_msg_count ELSE queue_msg_count - 1 IN
           /\ ScriptInv'
           /\ queue_msg_count' \in Int
           /\ \/ UNCHANGED <<messages, queue_msg_count>>
              \/ goal = GOAL_ID_NONE /\ messages' = msgs /\ UNCHANGED queue_msg_count
              \/ Slack(queue_msg_count', messages') \in {0, Slack(count, msgs)}
<1> DEFINE count == IF is_new_goal THEN queue_msg_count ELSE queue_msg_count - 1
           Result == /\ ScriptInv'
                     /\ queue_msg_count' \in Int
                     /\ \/ UNCHANGED <<messages, queue_msg_count>>
                        \/ Slack(queue_msg_count', messages') \in {0, Slack(count, msgs)}
<1>1. count \in Int
    OBVIOUS
<1>0. goal \in Goals => rule \in RunRules
    BY NoneIsNoGoal DEF RunRules
<1>2. \/ /\ goal = GOAL_ID_NONE /\ messages' = msgs
         /\ UNCHANGED <<script, panic, active_goals_mask, queue_msg_count, running, cancelling>>
      \/ /\ goal \in Goals
         /\ \/ IgnoreDuplicate(goal, msgs)
            \/ StartNow(goal, count, is_new_goal, msgs)
            \/ CancelAndQueue(goal, rule, count, is_new_goal, msgs)
            \/ StartConcurrently(goal, count, is_new_goal, msgs)
            \/ WaitInQueue(goal, rule, count, is_new_goal, msgs)
    BY GoalTableAssumption DEF ActivateGoal
<1>3. /\ MessagesOK(NotPending(msgs))
      /\ CfmQueued(NotPending(msgs)) => CfmQueued(messages)
      /\ Slack(0, NotPending(msgs)) = 0
    BY NotPendingOK DEF Slack
<1> HIDE DEF count
<1>4. ASSUME messages' = msgs \/ messages' = NotPending(msgs),
             UNCHANGED <<script, panic, active_goals_mask, running, cancelling>>
      PROVE  ScriptInv'
    <2>1. MessagesOK(messages') /\ (CfmQueued(messages') => CfmQueued(messages))
        BY <1>3, <1>4
    <2>2. CurrentStep' = CurrentStep /\ (ScriptFollowsGoal' <=> ScriptFollowsGoal)
        BY <1>4 DEF CurrentStep, ScriptFollowsGoal
    <2> QED
        BY <1>4, <2>1, <2>2 DEF ScriptInv
<1>5. ASSUME goal \in Goals, IgnoreDuplicate(goal, msgs) PROVE Result
    BY <1>3, <1>4, <1>5 DEF IgnoreDuplicate
<1>6. ASSUME goal \in Goals, StartNow(goal, count, is_new_goal, msgs) PROVE Result
    <2>1. ScriptInv' /\ queue_msg_count' = count /\ messages' = msgs
        BY <1>6, StartGoalScript DEF StartNow, GoalCanRunNow
    <2> QED
        BY <1>1, <2>1
<1>7. ASSUME goal \in Goals, CancelAndQueue(goal, rule, count, is_new_goal, msgs) PROVE Result
    <2>1. CASE active_goals_mask = {}
        <3>1. StartGoal(EmptyQueue, 0, NotPending(msgs), goal)
            BY <1>7, <2>1 DEF CancelAndQueue
        <3>2. ScriptInv' /\ queue_msg_count' = 0 /\ messages' = NotPending(msgs)
            BY <1>3, <1>7, <2>1, <3>1, StartGoalScript
        <3> QED
            BY <1>3, <3>2
    <2>2. CASE active_goals_mask # {}
        <3>1. /\ QueueGoal(EmptyQueue, 0, NotPending(msgs) \o CancelCfms(active_goals_mask),
                           goal, rule, active_goals_mask)
              /\ CancelProcedures(active_goals_mask)
              /\ UNCHANGED active_goals_mask
            BY <1>7, <2>2 DEF CancelAndQueue
        <3> DEFINE r == NotPending(msgs)
                   S == active_goals_mask
        <3>2. S \in SUBSET active_goals_mask /\ 0 \in Int
            OBVIOUS
        <3> HIDE DEF r, S
        <3>3. /\ QueueGoal(EmptyQueue, 0, r \o CancelCfms(S), goal, rule, S)
              /\ CancelProcedures(S) /\ UNCHANGED active_goals_mask
              /\ MessagesOK(r) /\ (CfmQueued(r) => CfmQueued(messages))
            BY <1>3, <3>1 DEF r, S
        <3>4. /\ ScriptInv'
              /\ \/ UNCHANGED <<messages, queue_msg_count>>
                 \/ queue_msg_count' = 0 + 1 /\ Slack(queue_msg_count', messages') = Slack(0, r)
            BY <1>0, <1>7, <3>2, <3>3, QueueStepScript
        <3>5. Slack(0, r) = 0
            BY <1>3 DEF r
        <3> QED
            BY <3>4, <3>5
    <2> QED
        BY <2>1, <2>2
<1>8. ASSUME goal \in Goals, StartConcurrently(goal, count, is_new_goal, msgs) PROVE Result
    <2>1. ~IsScriptedGoal(goal)
        BY <1>8, GoalTableAssumption DEF StartConcurrently, RunsConcurrently, IsScriptedGoal
    <2>2. ScriptInv' /\ queue_msg_count' = count /\ messages' = msgs
        BY <1>8, <2>1, StartGoalScript DEF StartConcurrently
    <2> QED
        BY <1>1, <2>2
<1>9. ASSUME goal \in Goals, WaitInQueue(goal, rule, count, is_new_goal, msgs) PROVE Result
    <2> DEFINE exclusive == ActiveExclusive(goal)
               kept == IF exclusive = {} THEN msgs
                       ELSE KeptByDeque(pending_goals, ExclusiveGoal[goal], msgs)
               slots == IF exclusive = {} THEN pending_goals
                        ELSE DequeGoal(pending_goals, ExclusiveGoal[goal])
               n == count - (Len(msgs) - Len(kept))
               wait == WaitMask(goal, active_goals_mask)
    <2>1. /\ QueueGoal(slots, n, kept \o CancelCfms(exclusive), goal, rule, wait)
          /\ CancelProcedures(exclusive)
          /\ UNCHANGED active_goals_mask
        BY <1>9 DEF WaitInQueue
    <2>2. exclusive \in SUBSET active_goals_mask
        BY DEF ActiveExclusive
    <2>3. /\ MessagesOK(kept) /\ (CfmQueued(kept) => CfmQueued(messages))
          /\ n \in Int /\ Slack(n, kept) = Slack(count, msgs)
        <3>1. CASE exclusive = {}
            <4>1. kept = msgs /\ Len(msgs) \in Nat
                BY <3>1 DEF MessagesOK
            <4>2. n = count
                BY <1>1, <4>1
            <4> QED
                BY <1>1, <4>1, <4>2
        <3>2. CASE exclusive # {}
            <4> DEFINE k == KeptByDeque(pending_goals, ExclusiveGoal[goal], msgs)
            <4>1. kept = k
                BY <3>2
            <4>2. /\ MessagesOK(k) /\ (CfmQueued(k) => CfmQueued(msgs))
                  /\ count - (Len(msgs) - Len(k)) \in Int
                  /\ Slack(count - (Len(msgs) - Len(k)), k) = Slack(count, msgs)
                BY <1>1, KeptByDequeOK
            <4> QED
                BY <4>1, <4>2
        <3> QED
            BY <3>1, <3>2
    <2> HIDE DEF exclusive, kept, slots, n, wait
    <2>4. /\ ScriptInv'
          /\ \/ UNCHANGED <<messages, queue_msg_count>>
             \/ queue_msg_count' = n + 1 /\ Slack(queue_msg_count', messages') = Slack(n, kept)
        BY <1>0, <1>9, <2>1, <2>2, <2>3, QueueStepScript
    <2> QED
        BY <2>3, <2>4
<1>10. ASSUME goal = GOAL_ID_NONE, messages' = msgs,
              UNCHANGED <<script, panic, active_goals_mask, queue_msg_count, running, cancelling>>
       PROVE  ScriptInv' /\ queue_msg_count' \in Int
    BY <1>4, <1>10
<1> QED
    BY <1>2, <1>5, <1>6, <1>7, <1>8, <1>9, <1>10 DEF count

----------------------------------------------------------------------------
(* Clearing a goal that has no script leaves the script engine alone. *)
LEMMA ClearSingleGoalScript ==
    ASSUME ScriptInv, NEW goal, goal \notin DOMAIN Script, ClearGoal(goal),
           MessagesOK(messages'), CfmQueued(messages') => CfmQueued(messages),
           running' \subseteq running, cancelling' \subseteq cancelling,
           UNCHANGED <<script, panic>>
    PROVE  ScriptInv'
<1>1. active_goals_mask' \cap DOMAIN Script = active_goals_mask \cap DOMAIN Script
    BY DEF ClearGoal
<1>2. ScriptFollowsGoal' /\ CurrentStep' = CurrentStep
    BY <1>1 DEF ScriptInv, ScriptFollowsGoal, CurrentStep
<1>3. running' \cap DOMAIN Script = {} /\ cancelling' \cap DOMAIN Script = {}
    BY DEF ScriptInv
<1> QED
    BY <1>2, <1>3 DEF ScriptInv

(* Clearing the scripted goal when its script has ended. *)
LEMMA ClearScriptedGoalScript ==
    ASSUME ScriptInv, script.state # "idle", ClearGoal(script.proc), script' = EngineReset,
           MessagesOK(messages'), ~CfmQueued(messages'),
           UNCHANGED <<panic, running, cancelling>>
    PROVE  ScriptInv'
<1>1. active_goals_mask \cap DOMAIN Script = {script.proc}
    BY DEF ScriptInv, ScriptFollowsGoal
<1>2. active_goals_mask' \cap DOMAIN Script = {}
    BY <1>1 DEF ClearGoal
<1>3. script' \in ScriptState /\ script'.state = "idle"
    BY DEF ScriptInv, ScriptState, EngineReset
<1>4. ScriptFollowsGoal'
    BY <1>2, <1>3 DEF ScriptInv, ScriptFollowsGoal
<1> QED
    BY <1>3, <1>4 DEF ScriptInv

(* How a step may change what the queue count is too large by. *)
SlackStep ==
    \/ UNCHANGED <<messages, queue_msg_count>>
    \/ Slack(queue_msg_count', messages') \in {0, Slack(queue_msg_count, messages)}
    \/ /\ Slack(queue_msg_count', messages') = Slack(queue_msg_count, messages) + 1
       /\ \E rule \in RunRules : GOAL_ID_NONE \in GoalsOf[rule]

(* Every step keeps the two engines in step, and only a queued decision    *)
(* that no longer stands for a goal is counted too often.                  *)
LEMMA ScriptInvStep ==
    ASSUME GoalsInv, ScriptInv, CountInv, Next
    PROVE  ScriptInv' /\ queue_msg_count' \in Int /\ SlackStep
<1> DEFINE Result == ScriptInv' /\ queue_msg_count' \in Int /\ SlackStep
<1>0. /\ MessagesOK(messages) /\ queue_msg_count \in Int
      /\ Count(PendingMessages, messages) \in Nat
    BY PendingCount DEF ScriptInv, CountInv
<1>1. ASSUME NEW rule \in Rules, PostDecision(rule) PROVE Result
    <2> DEFINE m == Decision(rule)
    <2>1. /\ m \in EngineMessages /\ m # ScriptCancelCfm /\ m \notin PendingMessages
        <3>1. m \in EngineMessages
            BY DEF EngineMessages
        <3>2. m.type = "decision"
            BY DEF Decision
        <3> HIDE DEF m
        <3> QED
            BY <3>1, <3>2, MessageTypesDiffer
    <2>2. /\ messages' = Append(messages, m)
          /\ UNCHANGED <<script, panic, active_goals_mask, queue_msg_count, running, cancelling>>
        BY <1>1 DEF PostDecision
    <2> HIDE DEF m
    <2>3. /\ messages \in Seq(EngineMessages) /\ Once(ScriptCancelCfm, messages)
        BY <1>0 DEF MessagesOK
    <2>4. /\ Append(messages, m) \in Seq(EngineMessages)
          /\ Queued(ScriptCancelCfm, Append(messages, m)) <=> Queued(ScriptCancelCfm, messages)
          /\ Once(ScriptCancelCfm, Append(messages, m))
        BY <2>1, <2>3, AppendQueue
    <2>5. Count(PendingMessages, Append(messages, m))
            = Count(PendingMessages, messages) + (IF m \in PendingMessages THEN 1 ELSE 0)
        BY <2>1, <2>3, CountAppend
    <2>6. Slack(queue_msg_count', messages') = Slack(queue_msg_count, messages)
        BY <1>0, <2>1, <2>2, <2>5 DEF Slack
    <2>7. MessagesOK(messages') /\ (CfmQueued(messages') <=> CfmQueued(messages))
        BY <2>2, <2>4 DEF MessagesOK, CfmQueued
    <2>8. CurrentStep' = CurrentStep /\ ScriptFollowsGoal'
        BY <2>2 DEF ScriptInv, CurrentStep, ScriptFollowsGoal
    <2> QED
        BY <1>0, <2>2, <2>6, <2>7, <2>8 DEF ScriptInv, SlackStep
<1>2. ASSUME NEW rule \in Rules, HandleGoalDecision(rule) PROVE Result
    <2>1. PICK i \in DOMAIN messages, goal \in GoalsOf[rule] :
                /\ Deliver(i, "decision")
                /\ ActivateGoal(goal, rule, TRUE, RemoveAt(messages, i))
        BY <1>2 DEF HandleGoalDecision
    <2> DEFINE msgs == RemoveAt(messages, i)
    <2>2. panic = "none" /\ messages[i].type = "decision"
        BY <2>1 DEF Deliver
    <2>3. /\ MessagesOK(msgs) /\ (CfmQueued(msgs) => CfmQueued(messages))
          /\ Count(PendingMessages, msgs) = Count(PendingMessages, messages)
        BY <1>0, <2>2, DeliverOK
    <2> HIDE DEF msgs
    <2>4. ActivateGoal(goal, rule, TRUE, msgs)
        BY <2>1 DEF msgs
    <2>5. /\ ScriptInv' /\ queue_msg_count' \in Int
          /\ \/ UNCHANGED <<messages, queue_msg_count>>
             \/ messages' = msgs /\ UNCHANGED queue_msg_count
             \/ Slack(queue_msg_count', messages') \in {0, Slack(queue_msg_count, msgs)}
        BY <1>0, <2>2, <2>3, <2>4, ActivateGoalScript
    <2>6. Slack(queue_msg_count, msgs) = Slack(queue_msg_count, messages)
        BY <2>3 DEF Slack
    <2> QED
        BY <2>5, <2>6 DEF SlackStep
<1>3. ASSUME NEW rule \in Rules, HandleQueuedDecision(rule) PROVE Result
    <2>1. PICK i \in DOMAIN messages, goal \in GoalsOf[rule] :
                /\ Deliver(i, "pending") /\ messages[i].rule = rule
                /\ ActivateGoal(goal, rule, FALSE, RemoveAt(messages, i))
        BY <1>3 DEF HandleQueuedDecision
    <2> DEFINE msgs == RemoveAt(messages, i)
    <2>2. panic = "none" /\ messages[i].type = "pending"
        BY <2>1 DEF Deliver
    <2>3. /\ MessagesOK(msgs) /\ (CfmQueued(msgs) => CfmQueued(messages))
          /\ Count(PendingMessages, msgs) = Count(PendingMessages, messages) - 1
          /\ messages[i] \in EngineMessages
        BY <1>0, <2>2, DeliverOK
    <2>4. rule \in RunRules
        BY <2>1, <2>2, <2>3, MessageTypesDiffer
    <2> HIDE DEF msgs
    <2>5. ActivateGoal(goal, rule, FALSE, msgs)
        BY <2>1 DEF msgs
    <2>6. /\ ScriptInv' /\ queue_msg_count' \in Int
          /\ \/ UNCHANGED <<messages, queue_msg_count>>
             \/ goal = GOAL_ID_NONE /\ messages' = msgs /\ UNCHANGED queue_msg_count
             \/ Slack(queue_msg_count', messages') \in {0, Slack(queue_msg_count - 1, msgs)}
        BY <1>0, <2>2, <2>3, <2>5, ActivateGoalScript
    <2>7. /\ Slack(queue_msg_count - 1, msgs) = Slack(queue_msg_count, messages)
          /\ Slack(queue_msg_count, msgs) = Slack(queue_msg_count, messages) + 1
        BY <1>0, <2>3 DEF Slack
    <2> QED
        BY <2>4, <2>6, <2>7 DEF SlackStep
<1>4. CASE HandleCancelCfm
    <2>1. PICK i \in DOMAIN messages :
                /\ Deliver(i, "cancel_cfm") /\ messages' = RemoveAt(messages, i)
                /\ ClearGoal(messages[i].goal) /\ UNCHANGED <<script, panic, running, cancelling>>
        BY <1>4 DEF HandleCancelCfm
    <2>2. messages[i].type = "cancel_cfm" /\ queue_msg_count' = queue_msg_count
        BY <2>1 DEF Deliver, ClearGoal
    <2>3. /\ MessagesOK(messages') /\ (CfmQueued(messages') => CfmQueued(messages))
          /\ Count(PendingMessages, messages') = Count(PendingMessages, messages)
          /\ messages[i] \in EngineMessages
        BY <1>0, <2>1, <2>2, DeliverOK
    <2>4. messages[i].goal \notin DOMAIN Script
        BY <2>2, <2>3, MessageTypesDiffer, GoalTableAssumption
    <2>5. ScriptInv'
        BY <2>1, <2>3, <2>4, ClearSingleGoalScript
    <2> QED
        BY <1>0, <2>2, <2>3, <2>5 DEF SlackStep, Slack
<1>5. CASE HandleScriptCancelCfm
    <2>1. PICK i \in DOMAIN messages :
                /\ Deliver(i, "script_cancel_cfm") /\ messages' = RemoveAt(messages, i)
                /\ panic' = IF script.state = "cancelling" THEN panic ELSE "script not cancelling"
                /\ script' = EngineReset /\ ClearGoal(script.proc)
                /\ UNCHANGED <<running, cancelling>>
        BY <1>5 DEF HandleScriptCancelCfm
    <2>2. messages[i].type = "script_cancel_cfm" /\ queue_msg_count' = queue_msg_count
        BY <2>1 DEF Deliver, ClearGoal
    <2>3. messages[i] \in EngineMessages
        BY <1>0 DEF MessagesOK
    <2>4. messages[i] = ScriptCancelCfm
        BY <2>2, <2>3, MessageTypesDiffer
    <2>5. /\ MessagesOK(messages') /\ ~CfmQueued(messages')
          /\ Count(PendingMessages, messages') = Count(PendingMessages, messages)
        BY <1>0, <2>1, <2>2, <2>4, DeliverOK
    <2>6. script.state = "cancelling"
        BY <2>4 DEF ScriptInv, CfmQueued, Queued
    <2>7. ScriptInv'
        BY <2>1, <2>5, <2>6, ClearScriptedGoalScript
    <2> QED
        BY <1>0, <2>2, <2>5, <2>7 DEF SlackStep, Slack
<1>6. ASSUME NEW goal \in Goals, GoalProcComplete(goal) PROVE Result
    <2>1. /\ goal \in running /\ running' = running \ {goal} /\ ClearGoal(goal)
          /\ UNCHANGED <<script, panic, messages, cancelling, queue_msg_count>>
        BY <1>6 DEF GoalProcComplete, ClearGoal
    <2>2. goal \notin DOMAIN Script
        BY <2>1 DEF ScriptInv
    <2>3. ScriptInv'
        BY <1>0, <2>1, <2>2, ClearSingleGoalScript
    <2> QED
        BY <1>0, <2>1, <2>3 DEF SlackStep
<1>7. ASSUME NEW goal \in Goals, GoalProcCancelCfm(goal) PROVE Result
    <2>1. /\ goal \in cancelling /\ ClearGoal(goal)
          /\ running' = running \ {goal} /\ cancelling' = cancelling \ {goal}
          /\ UNCHANGED <<script, panic, messages, queue_msg_count>>
        BY <1>7 DEF GoalProcCancelCfm, ClearGoal
    <2>2. goal \notin DOMAIN Script
        BY <2>1 DEF ScriptInv
    <2>3. ScriptInv'
        BY <1>0, <2>1, <2>2, ClearSingleGoalScript
    <2> QED
        BY <1>0, <2>1, <2>3 DEF SlackStep
<1>8. CASE ScriptStepCancelCfm
    <2>1. /\ script.state = "cancelling" /\ CurrentStep \in SlowCancel
          /\ script' = EngineReset /\ ClearGoal(script.proc)
          /\ UNCHANGED <<panic, messages, running, cancelling, queue_msg_count>>
        BY <1>8 DEF ScriptStepCancelCfm, ClearGoal
    <2>2. MessagesOK(messages') /\ ~CfmQueued(messages')
        BY <1>0, <2>1 DEF ScriptInv
    <2>3. ScriptInv'
        BY <2>1, <2>2, ClearScriptedGoalScript
    <2> QED
        BY <1>0, <2>1, <2>3 DEF SlackStep
<1>9. ASSUME NEW result \in {"success", "timeout", "failed"}, ScriptStepComplete(result)
      PROVE  Result
    <2>1. /\ script.state = "active" /\ script' = AfterStep(result)
          /\ UNCHANGED <<panic, messages, running, cancelling, queue_msg_count>>
        BY <1>9 DEF ScriptStepComplete, ClearGoal
    <2>2. MessagesOK(messages') /\ ~CfmQueued(messages')
        BY <1>0, <2>1 DEF ScriptInv
    <2>3. CASE EndsScript(result)
        <3>1. script' = EngineReset /\ ClearGoal(script.proc)
            BY <1>9, <2>1, <2>3 DEF ScriptStepComplete, AfterStep
        <3> QED
            BY <1>0, <2>1, <2>2, <3>1, ClearScriptedGoalScript DEF SlackStep
    <2>4. CASE ~EndsScript(result)
        <3>1. script' = [script EXCEPT !.next_step = @ + 1] /\ UNCHANGED active_goals_mask
            BY <1>9, <2>1, <2>4 DEF ScriptStepComplete, AfterStep
        <3>2. /\ script' \in ScriptState /\ script'.state = script.state
              /\ script'.proc = script.proc
            BY <3>1 DEF ScriptInv, ScriptState
        <3>3. ScriptFollowsGoal'
            BY <2>1, <3>1, <3>2 DEF ScriptInv, ScriptFollowsGoal
        <3> QED
            BY <1>0, <2>1, <2>2, <3>2, <3>3 DEF ScriptInv, SlackStep
    <2> QED
        BY <2>3, <2>4
<1> QED
    BY <1>1, <1>2, <1>3, <1>4, <1>5, <1>6, <1>7, <1>8, <1>9 DEF Next

----------------------------------------------------------------------------
(* A step that changes nothing. *)
LEMMA ScriptInvStutter ==
    ASSUME ScriptInv, CountInv, UNCHANGED vars PROVE ScriptInv' /\ CountInv'
<1>1. UNCHANGED <<script, panic, active_goals_mask, queue_msg_count, messages, running,
                  cancelling>>
    BY DEF vars, engineVars
<1>2. /\ CurrentStep' = CurrentStep /\ ScriptFollowsGoal'
      /\ MessagesOK(messages') /\ (CfmQueued(messages') => CfmQueued(messages))
    BY <1>1 DEF ScriptInv, CurrentStep, ScriptFollowsGoal
<1> QED
    BY <1>1, <1>2 DEF ScriptInv, CountInv

(* The invariant of the two engines and the message queue between them. *)
DecisionsInv == GoalsInv /\ ScriptInv /\ CountInv /\ posted \in 0 .. MAX_DECISIONS

(* Both engines start idle and the message queue is empty. *)
LEMMA DecisionsInvInit == Init => DecisionsInv
<1> SUFFICES ASSUME Init PROVE DecisionsInv
    OBVIOUS
<1>1. GoalsInv
    BY GoalsInvInit
<1>2. /\ script = [state |-> "idle", next_step |-> 0, proc |-> GOAL_ID_NONE]
      /\ panic = "none" /\ active_goals_mask = {} /\ running = {} /\ cancelling = {}
      /\ messages = <<>> /\ queue_msg_count = 0 /\ posted = 0
    BY DEF Init, GoalsInit, ScriptInit
<1>3. messages \in Seq(EngineMessages) /\ DOMAIN messages = {}
    BY <1>2
<1>4. MessagesOK(messages) /\ ~CfmQueued(messages)
    BY <1>3 DEF MessagesOK, CfmQueued, Once, Queued
<1>5. ScriptInv
    BY <1>2, <1>4 DEF ScriptInv, ScriptState, ScriptFollowsGoal
<1>6. Count(PendingMessages, messages) = 0
    BY <1>3, CountIsNat
<1>7. CountInv
    BY <1>2, <1>6 DEF CountInv, Slack
<1> QED
    BY <1>1, <1>2, <1>5, <1>7, DecisionsAssumption DEF DecisionsInv

(* Every step keeps the invariant. *)
LEMMA DecisionsInvStep == DecisionsInv /\ [Next]_vars => DecisionsInv'
<1> SUFFICES ASSUME DecisionsInv, [Next]_vars PROVE DecisionsInv'
    OBVIOUS
<1>1. GoalsInv'
    BY GoalsInvStep DEF DecisionsInv
<1>2. CASE UNCHANGED vars
    <2>1. ScriptInv' /\ CountInv'
        BY <1>2, ScriptInvStutter DEF DecisionsInv
    <2>2. posted' = posted
        BY <1>2 DEF vars
    <2> QED
        BY <1>1, <2>1, <2>2 DEF DecisionsInv
<1>3. CASE Next
    <2>1. ScriptInv' /\ queue_msg_count' \in Int /\ SlackStep
        BY <1>3, ScriptInvStep DEF DecisionsInv
    <2>2. Slack(queue_msg_count, messages) \in Nat
        BY DEF DecisionsInv, CountInv
    <2>3. Slack(queue_msg_count', messages') \in Nat
        BY <2>1, <2>2 DEF SlackStep
    <2>4. posted' \in 0 .. MAX_DECISIONS
        <3>1. posted \in 0 .. MAX_DECISIONS
            BY DEF DecisionsInv
        <3>2. CASE \E rule \in Rules : PostDecision(rule)
            BY <3>1, <3>2, DecisionsAssumption DEF PostDecision
        <3>3. CASE ~ \E rule \in Rules : PostDecision(rule)
            <4>1. \A rule \in Rules :
                    HandleGoalDecision(rule) \/ HandleQueuedDecision(rule) => posted' = posted
                BY Zenon DEF HandleGoalDecision, HandleQueuedDecision, Deliver
            <4>2. HandleCancelCfm \/ HandleScriptCancelCfm => posted' = posted
                BY Zenon DEF HandleCancelCfm, HandleScriptCancelCfm, Deliver
            <4>3. \A goal \in Goals :
                    GoalProcComplete(goal) \/ GoalProcCancelCfm(goal) => posted' = posted
                BY DEF GoalProcComplete, GoalProcCancelCfm
            <4>4. ScriptStepCancelCfm => posted' = posted
                BY DEF ScriptStepCancelCfm
            <4>5. \A result : ScriptStepComplete(result) => posted' = posted
                BY DEF ScriptStepComplete
            <4>6. posted' = posted
                BY <1>3, <3>3, <4>1, <4>2, <4>3, <4>4, <4>5, Zenon DEF Next
            <4> QED
                BY <3>1, <4>6
        <3> QED
            BY <3>2, <3>3
    <2> QED
        BY <1>1, <2>1, <2>3, <2>4 DEF DecisionsInv, CountInv
<1> QED
    BY <1>2, <1>3

(* The goals engine, the script engine and the messages between them stay  *)
(* well-formed; in particular the queue count never becomes negative,      *)
(* whatever is flushed, dequeued or re-delivered (goals_engine.c keeps it  *)
(* in an unsigned integer).                                                *)
THEOREM GoalsTypes == Spec => []TypeOK
<1>1. DecisionsInv => TypeOK
    <2> SUFFICES ASSUME DecisionsInv PROVE TypeOK
        OBVIOUS
    <2>1. messages \in Seq(EngineMessages) /\ \A m \in EngineMessages : m \in Message
        BY MessageTypesDiffer DEF DecisionsInv, ScriptInv, MessagesOK
    <2>2. messages \in Seq(Message)
        BY <2>1
    <2>3. queue_msg_count \in Nat
        BY PendingCount DEF DecisionsInv, ScriptInv, CountInv, Slack
    <2> QED
        BY <2>2, <2>3 DEF TypeOK, DecisionsInv, GoalsInv, ScriptInv, ScriptState
<1> QED
    BY <1>1, DecisionsInvInit, DecisionsInvStep, PTL DEF Spec

(* For every goals table, the script engine is busy exactly while a        *)
(* scripted goal is active: ScriptEngine_StartScript finds it idle and     *)
(* scriptEngine_ProcCancelCfm finds it cancelling, so neither panics.      *)
THEOREM ScriptsFollowGoals == Spec => []ScriptFollowsGoal
<1>1. DecisionsInv => ScriptFollowsGoal
    BY DEF DecisionsInv, ScriptInv
<1> QED
    BY <1>1, DecisionsInvInit, DecisionsInvStep, PTL DEF Spec

(* Whether a decision stands for a goal does not change while it is        *)
(* queued.  TWSTOP_PRIMARY_GOAL_HANDOVER_START does not meet this: its     *)
(* goal is found from handover_info.reason when it is delivered.           *)
RefusedOrRun == \A rule \in Rules : GOAL_ID_NONE \in GoalsOf[rule] => GoalsOf[rule] = {GOAL_ID_NONE}

(* The queue count is what the queue holds, in every goals table whose     *)
(* decisions are refused always or never: flushes, dequeues, re-delivery   *)
(* and re-queueing all keep it exact (goalsEngine_QueueGoal and            *)
(* goalsEngine_DequeGoal).                                                 *)
THEOREM QueueCountIsExact == ASSUME RefusedOrRun PROVE Spec => []QueueCountExact
<1> DEFINE Exact == DecisionsInv /\ Slack(queue_msg_count, messages) = 0
<1>1. Init => Exact
    <2> SUFFICES ASSUME Init PROVE Exact
        OBVIOUS
    <2>1. DecisionsInv
        BY DecisionsInvInit
    <2>2. messages = <<>> /\ queue_msg_count = 0
        BY DEF Init, GoalsInit
    <2>3. messages \in Seq(EngineMessages) /\ DOMAIN messages = {}
        BY <2>2
    <2>4. Count(PendingMessages, messages) = 0
        BY <2>3, CountIsNat
    <2> QED
        BY <2>1, <2>2, <2>4 DEF Slack
<1>2. Exact /\ [Next]_vars => Exact'
    <2> SUFFICES ASSUME Exact, [Next]_vars PROVE Exact'
        OBVIOUS
    <2>1. DecisionsInv'
        BY DecisionsInvStep
    <2>2. ~ \E rule \in RunRules : GOAL_ID_NONE \in GoalsOf[rule]
        BY DEF RefusedOrRun, RunRules
    <2>3. CASE UNCHANGED vars
        BY <2>1, <2>3 DEF vars, engineVars
    <2>4. CASE Next
        <3>1. SlackStep
            BY <2>4, ScriptInvStep DEF DecisionsInv
        <3> QED
            BY <2>1, <2>2, <3>1 DEF SlackStep
    <2> QED
        BY <2>3, <2>4
<1>3. Exact => QueueCountExact
    BY PendingCount DEF DecisionsInv, ScriptInv, CountInv, Slack, QueueCountExact
<1> QED
    BY <1>1, <1>2, <1>3, PTL DEF Spec
=============================================================================
