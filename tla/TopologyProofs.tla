--------------------------- MODULE TopologyProofs ---------------------------
(* Theorems about starting and stopping the TWS topology, for every goals  *)
(* table that meets TopologyAssumption, scripts of any length and any      *)
(* number of shutdowns and failed attempts to pair.                        *)
EXTENDS TwsTopology, QueueProofs

USE DEF GOAL_ID_NONE, NoRule

(* The goals the three rules stand for. *)
TopologyGoals == {GoalFor(rule) : rule \in Rules}

(* The rules stand for scripted goals, which are never concurrent with     *)
(* others and have no exclusive goal.                                      *)
LEMMA GoalsOfRules ==
    ASSUME NEW rule \in Rules
    PROVE  /\ GoalFor(rule) \in DOMAIN Script /\ GoalFor(rule) \in Goals
           /\ GoalFor(rule) \in TopologyGoals
           /\ GoalFor(rule) # GOAL_ID_NONE
           /\ ~RunsConcurrently(GoalFor(rule)) /\ ExclusiveGoal[GoalFor(rule)] = GOAL_ID_NONE
<1>1. PICK g \in DOMAIN Script : GoalsOf[rule] = {g}
    BY TopologyAssumption
<1>2. GoalFor(rule) = g
    BY <1>1 DEF GoalFor
<1>3. g \in Goals
    BY ScriptAssumption
<1> DEFINE n == Cardinality(Goals)
<1>4. Goals = 1 .. n /\ n \in Nat
    BY ScriptAssumption, FS_CardinalityType
<1> HIDE DEF n
<1>5. g # GOAL_ID_NONE
    BY <1>3, <1>4
<1>6. ~RunsConcurrently(g) /\ ExclusiveGoal[g] = GOAL_ID_NONE
    BY GoalTableAssumption, TopologyAssumption DEF RunsConcurrently
<1>7. GoalFor(rule) \in TopologyGoals
    BY DEF TopologyGoals
<1> QED
    BY <1>2, <1>3, <1>5, <1>6, <1>7

(* There are at most three of them. *)
LEMMA ThreeGoals == \E a, b, c : TopologyGoals = {a, b, c}
<1> DEFINE a == GoalFor(PAIR_PEER)
           b == GoalFor(FIND_ROLE)
           c == GoalFor(SYSTEM_STOP)
<1>1. TopologyGoals = {a, b, c}
    BY TopologyAssumption DEF TopologyGoals
<1> HIDE DEF a, b, c
<1> QED
    BY <1>1

(* "No goal" is not one of the goals. *)
LEMMA NoneIsNoGoal == GOAL_ID_NONE \notin Goals /\ GOAL_ID_NONE \notin TopologyGoals
<1> DEFINE n == Cardinality(Goals)
<1>1. Goals = 1 .. n /\ n \in Nat
    BY ScriptAssumption, FS_CardinalityType
<1> HIDE DEF n
<1> QED
    BY <1>1, GoalsOfRules DEF TopologyGoals

----------------------------------------------------------------------------
(* The goal queue: every goal has at most one slot. *)

Entry == [id : TopologyGoals \cup {GOAL_ID_NONE}, rule_id : Rules \cup {NoRule},
          lock_mask : SUBSET Goals]

SlotsOK(slots) ==
    /\ slots \in [Slots -> Entry]
    /\ \A i, j \in Slots : slots[i].id = slots[j].id /\ slots[i].id # GOAL_ID_NONE => i = j

(* The queue without entries. *)
LEMMA EmptyQueueOK == SlotsOK(EmptyQueue)
<1>1. Unused \in Entry /\ Unused.id = GOAL_ID_NONE
    BY DEF Unused, Entry
<1> QED
    BY <1>1 DEF EmptyQueue, SlotsOK

(* A goal that has a slot has a first one. *)
LEMMA FirstSlotIsSlot ==
    ASSUME NEW slots, NEW id, HasSlot(slots, id)
    PROVE  FirstSlotOf(slots, id) \in Slots /\ slots[FirstSlotOf(slots, id)].id = id
<1> DEFINE T == {i \in Slots : slots[i].id = id}
<1>1. Slots \subseteq Nat
    BY GoalTableAssumption DEF Slots
<1>2. T \subseteq Nat /\ T # {}
    BY <1>1 DEF HasSlot
<1>3. PICK i \in T : \A j \in T : i <= j
    BY <1>2, LeastNumber
<1>4. \A j \in 1 .. i - 1 : slots[j].id # id
    <2> SUFFICES ASSUME NEW j \in 1 .. i - 1, slots[j].id = id PROVE FALSE
        OBVIOUS
    <2>1. i \in Nat /\ j \in Nat /\ j < i /\ j \in Slots
        BY <1>2, GoalTableAssumption DEF Slots
    <2> QED
        BY <1>3, <2>1
<1> QED
    BY <1>3, <1>4 DEF FirstSlotOf

(* The queue has a slot for each of the goals: it never overflows. *)
LEMMA SlotAvailable ==
    ASSUME NEW slots, SlotsOK(slots), NEW goal \in TopologyGoals
    PROVE  HasSlot(slots, goal) \/ HasSlot(slots, GOAL_ID_NONE)
<1> SUFFICES ASSUME ~HasSlot(slots, goal), ~HasSlot(slots, GOAL_ID_NONE) PROVE FALSE
    OBVIOUS
<1>1. 1 \in Slots /\ 2 \in Slots /\ 3 \in Slots
    BY TopologyAssumption, GoalTableAssumption DEF Slots
<1>2. \A i \in Slots : slots[i].id \in TopologyGoals \ {goal}
    BY DEF SlotsOK, Entry, HasSlot
<1>3. PICK a, b, c : TopologyGoals = {a, b, c}
    BY ThreeGoals
<1> DEFINE x == slots[1].id
           y == slots[2].id
           z == slots[3].id
<1>4. x # y /\ y # z /\ x # z
    BY <1>1, <1>2, NoneIsNoGoal DEF SlotsOK
<1>5. x \in {a, b, c} \ {goal} /\ y \in {a, b, c} \ {goal} /\ z \in {a, b, c} \ {goal}
    BY <1>1, <1>2, <1>3
<1> HIDE DEF x, y, z
<1>6. goal \in {a, b, c}
    BY <1>3
<1> QED
    BY <1>4, <1>5, <1>6

(* A goal is entered where it already is or in a free slot. *)
LEMMA QueueGoalOK ==
    ASSUME NEW slots, SlotsOK(slots), NEW rule \in Rules, NEW goal \in TopologyGoals,
           NEW count, NEW msgs, NEW wait \in SUBSET Goals,
           QueueGoal(slots, count, msgs, goal, rule, wait)
    PROVE  /\ SlotsOK(pending_goals')
           /\ \E i \in Slots : messages' = Append(msgs, Pending(rule, i))
           /\ queue_msg_count' = count + 1
           /\ UNCHANGED panic
<1> DEFINE i == SlotFor(slots, goal)
           e == [id |-> goal, rule_id |-> rule, lock_mask |-> wait]
<1>1. HasSlot(slots, goal) \/ HasSlot(slots, GOAL_ID_NONE)
    BY SlotAvailable
<1>2. /\ i \in Slots /\ slots[i].id \in {goal, GOAL_ID_NONE}
      /\ HasSlot(slots, goal) => slots[i].id = goal
    BY <1>1, FirstSlotIsSlot DEF SlotFor
<1>3. /\ pending_goals' = [slots EXCEPT ![i] = e]
      /\ messages' = Append(msgs, Pending(rule, i))
      /\ queue_msg_count' = count + 1 /\ UNCHANGED panic
    BY <1>1 DEF QueueGoal
<1>4. e \in Entry /\ e.id = goal
    BY DEF Entry
<1> HIDE DEF i, e
<1>5. /\ pending_goals' \in [Slots -> Entry] /\ pending_goals'[i] = e
      /\ \A j \in Slots \ {i} : pending_goals'[j] = slots[j]
    BY <1>2, <1>3, <1>4 DEF SlotsOK
<1>6. \A j \in Slots : slots[j].id = goal => j = i
    <2> SUFFICES ASSUME NEW j \in Slots, slots[j].id = goal PROVE j = i
        OBVIOUS
    <2>1. HasSlot(slots, goal)
        BY DEF HasSlot
    <2> QED
        BY <1>2, <2>1, NoneIsNoGoal DEF SlotsOK
<1>7. ASSUME NEW j \in Slots, NEW k \in Slots,
             pending_goals'[j].id = pending_goals'[k].id, pending_goals'[j].id # GOAL_ID_NONE
      PROVE  j = k
    <2>1. CASE j = i \/ k = i
        BY <1>4, <1>5, <1>6, <1>7, <2>1
    <2>2. CASE j # i /\ k # i
        BY <1>5, <1>7, <2>2 DEF SlotsOK
    <2> QED
        BY <2>1, <2>2
<1>8. SlotsOK(pending_goals')
    BY <1>5, <1>7 DEF SlotsOK
<1> QED
    BY <1>2, <1>3, <1>8

(* Only the locks change. *)
LEMMA LocksOK ==
    ASSUME NEW slots, SlotsOK(slots), NEW new \in [Slots -> Entry],
           \A i \in Slots : new[i].id = slots[i].id
    PROVE  SlotsOK(new)
BY DEF SlotsOK

(* goalsEngine_UpdateQueueMasks changes only locks. *)
LEMMA UpdateQueueMasksOK ==
    ASSUME NEW slots, SlotsOK(slots), NEW count, NEW active \in SUBSET Goals
    PROVE  SlotsOK(ResetPendingQueueIfEmpty(UpdateQueueMasks(slots, count, active), count))
<1>1. CASE count = 0
    BY <1>1, EmptyQueueOK DEF ResetPendingQueueIfEmpty
<1>2. CASE count # 0
    <2> DEFINE new == UpdateQueueMasks(slots, count, active)
    <2>1. ASSUME NEW i \in Slots PROVE new[i] \in Entry /\ new[i].id = slots[i].id
        <3>1. slots[i] \in Entry
            BY DEF SlotsOK
        <3>2. CASE slots[i].rule_id # NoRule
            <4>1. new[i] = [slots[i] EXCEPT !.lock_mask = WaitMask(slots[i].id, active)]
                BY <1>2, <3>2 DEF UpdateQueueMasks
            <4>2. WaitMask(slots[i].id, active) \in SUBSET Goals
                BY DEF WaitMask
            <4> QED
                BY <3>1, <4>1, <4>2 DEF Entry
        <3>3. CASE slots[i].rule_id = NoRule
            BY <1>2, <3>1, <3>3 DEF UpdateQueueMasks
        <3> QED
            BY <3>2, <3>3
    <2>2. new = [i \in Slots |-> new[i]]
        BY <1>2 DEF UpdateQueueMasks
    <2>3. ResetPendingQueueIfEmpty(new, count) = new
        BY <1>2 DEF ResetPendingQueueIfEmpty
    <2> HIDE DEF new
    <2>4. new \in [Slots -> Entry]
        BY <2>1, <2>2
    <2> QED
        BY <2>1, <2>3, <2>4, LocksOK DEF new
<1> QED
    BY <1>1, <1>2

(* GoalsEngine_ClearGoal changes only locks. *)
LEMMA ClearGoalOK ==
    ASSUME SlotsOK(pending_goals), NEW goal, ClearGoal(goal)
    PROVE  SlotsOK(pending_goals')
<1>1. ASSUME NEW i \in Slots
      PROVE  pending_goals'[i] \in Entry /\ pending_goals'[i].id = pending_goals[i].id
    <2>1. pending_goals[i] \in Entry
        BY DEF SlotsOK
    <2>2. CASE pending_goals[i].id # GOAL_ID_NONE
        <3>1. pending_goals'[i] = [pending_goals[i] EXCEPT !.lock_mask = @ \ {goal}]
            BY <2>2 DEF ClearGoal
        <3> QED
            BY <2>1, <3>1 DEF Entry
    <2>3. CASE pending_goals[i].id = GOAL_ID_NONE
        BY <2>1, <2>3 DEF ClearGoal
    <2> QED
        BY <2>2, <2>3
<1>2. pending_goals' = [i \in Slots |-> pending_goals'[i]]
    BY DEF ClearGoal
<1>3. pending_goals' \in [Slots -> Entry]
    BY <1>1, <1>2
<1> QED
    BY <1>1, <1>3, LocksOK

----------------------------------------------------------------------------
(* The messages of the topology. *)

PlainTypes == {"start", "stop", "stop_finished", "pair_result", "stop_cfm_success",
               "stop_cfm_fail", "prepare_ind", "cancelled_ind"}

(* Messages that are neither queued decisions nor the confirmation of a    *)
(* cancelled script.                                                       *)
OtherMessages ==
    {Decision(rule) : rule \in Rules} \cup {Plain(type) : type \in PlainTypes}
        \cup {StepComplete(goal) : goal \in Goals \cup {GOAL_ID_NONE}}

TopologyMessages == OtherMessages \cup PendingMessages \cup {ScriptCancelCfm}

(* What a message is can be told from its type. *)
LEMMA MessageTypesDiffer ==
    ASSUME NEW m \in TopologyMessages
    PROVE  /\ m \in Message
           /\ m \in PendingMessages <=> m.type = "pending"
           /\ m = ScriptCancelCfm <=> m.type = "script_cancel_cfm"
           /\ m \in OtherMessages <=> m.type \notin {"pending", "script_cancel_cfm"}
<1>1. /\ Slots \subseteq 0 .. QUEUE_COUNT /\ 0 \in 0 .. QUEUE_COUNT
    BY GoalTableAssumption DEF Slots
<1>2. \A x \in PendingMessages : x.type = "pending" /\ x \in Message
    <2> SUFFICES ASSUME NEW rule \in Rules, NEW i \in Slots
                 PROVE  Pending(rule, i).type = "pending" /\ Pending(rule, i) \in Message
        BY DEF PendingMessages
    <2> QED
        BY <1>1 DEF Pending, Message, DecisionTypes
<1>3. ScriptCancelCfm.type = "script_cancel_cfm" /\ ScriptCancelCfm \in Message
    BY <1>1 DEF ScriptCancelCfm, Message
<1>4. \A x \in OtherMessages : x.type \notin {"pending", "script_cancel_cfm"} /\ x \in Message
    <2>1. ASSUME NEW rule \in Rules
          PROVE  Decision(rule).type = "decision" /\ Decision(rule) \in Message
        BY <1>1 DEF Decision, Message, DecisionTypes
    <2>2. ASSUME NEW type \in PlainTypes PROVE Plain(type).type = type /\ Plain(type) \in Message
        BY <1>1 DEF Plain, Message, PlainTypes
    <2>3. ASSUME NEW goal \in Goals \cup {GOAL_ID_NONE}
          PROVE  StepComplete(goal).type = "step_complete" /\ StepComplete(goal) \in Message
        <3>1. StepComplete(goal)
                = [type |-> "step_complete", rule |-> NoRule, slot |-> 0, goal |-> goal]
            BY DEF StepComplete, Plain
        <3> QED
            BY <1>1, <3>1 DEF Message
    <2>4. \A type \in PlainTypes : type \notin {"pending", "script_cancel_cfm"}
        BY DEF PlainTypes
    <2> QED
        BY <2>1, <2>2, <2>3, <2>4 DEF OtherMessages
<1> QED
    BY <1>2, <1>3, <1>4 DEF TopologyMessages

(* None of the other messages is a queued decision or the confirmation. *)
LEMMA OthersDiffer ==
    ASSUME NEW m \in OtherMessages
    PROVE  m \in TopologyMessages /\ m \notin PendingMessages /\ m # ScriptCancelCfm
<1>1. m \in TopologyMessages
    BY DEF TopologyMessages
<1> QED
    BY <1>1, MessageTypesDiffer

(* A queue of these messages with at most one confirmation. *)
MessagesOK(msgs) == msgs \in Seq(TopologyMessages) /\ Once(ScriptCancelCfm, msgs)

CfmQueued(msgs) == Queued(ScriptCancelCfm, msgs)

(* The same decisions are queued and no new confirmation. *)
Carries(new, old) ==
    /\ MessagesOK(new)
    /\ CfmQueued(new) => CfmQueued(old)
    /\ Count(PendingMessages, new) = Count(PendingMessages, old)

(* By how much a queue count is too large. *)
Slack(count, msgs) == count - Count(PendingMessages, msgs)

(* The number of queued decisions is a number. *)
LEMMA PendingCount == \A msgs : MessagesOK(msgs) => Count(PendingMessages, msgs) \in Nat
BY CountType DEF MessagesOK

(* Sending another message. *)
LEMMA AppendOK ==
    ASSUME NEW msgs, MessagesOK(msgs), NEW m \in OtherMessages
    PROVE  Carries(Append(msgs, m), msgs)
<1>1. m \in TopologyMessages /\ m \notin PendingMessages /\ m # ScriptCancelCfm
    BY OthersDiffer
<1>2. msgs \in Seq(TopologyMessages) /\ Once(ScriptCancelCfm, msgs)
    BY DEF MessagesOK
<1>3. /\ Append(msgs, m) \in Seq(TopologyMessages)
      /\ Queued(ScriptCancelCfm, Append(msgs, m)) <=> Queued(ScriptCancelCfm, msgs)
      /\ Once(ScriptCancelCfm, Append(msgs, m))
    BY <1>1, <1>2, AppendQueue
<1>4. Count(PendingMessages, Append(msgs, m))
        = Count(PendingMessages, msgs) + (IF m \in PendingMessages THEN 1 ELSE 0)
    BY <1>1, <1>2, CountAppend
<1>5. Count(PendingMessages, msgs) \in Nat
    BY PendingCount
<1> QED
    BY <1>1, <1>3, <1>4, <1>5 DEF Carries, MessagesOK, CfmQueued

(* Sending several other messages. *)
LEMMA ConcatOK ==
    ASSUME NEW msgs, MessagesOK(msgs), NEW more \in Seq(OtherMessages)
    PROVE  Carries(msgs \o more, msgs)
<1>1. \A i \in DOMAIN more : /\ more[i] \in TopologyMessages /\ more[i] \notin PendingMessages
                             /\ more[i] # ScriptCancelCfm
    BY OthersDiffer
<1>2. more \in Seq(TopologyMessages) /\ msgs \in Seq(TopologyMessages)
    BY <1>1 DEF MessagesOK
<1>3. ~Queued(ScriptCancelCfm, more) /\ Once(ScriptCancelCfm, more)
    BY <1>1 DEF Queued, Once
<1>4. /\ msgs \o more \in Seq(TopologyMessages)
      /\ Queued(ScriptCancelCfm, msgs \o more) => Queued(ScriptCancelCfm, msgs)
      /\ Once(ScriptCancelCfm, msgs \o more)
    BY <1>2, <1>3, ConcatQueue DEF MessagesOK
<1>5. Count(PendingMessages, msgs \o more) = Count(PendingMessages, msgs)
    BY <1>1, <1>2, CountConcat
<1> QED
    BY <1>4, <1>5 DEF Carries, MessagesOK, CfmQueued

(* What the start function of a step posts. *)
LEMMA StepMessagesOK ==
    ASSUME NEW kind, NEW goal \in Goals \cup {GOAL_ID_NONE}
    PROVE  StepMessages(kind, goal) \in Seq(OtherMessages)
<1>1. StepComplete(goal) \in OtherMessages /\ Plain("stop_finished") \in OtherMessages
    BY DEF OtherMessages, PlainTypes
<1> QED
    BY <1>1 DEF StepMessages

(* The message that is delivered leaves the queue. *)
LEMMA DeliverOK ==
    ASSUME MessagesOK(messages), NEW k \in DOMAIN messages
    PROVE  /\ messages[k] \in TopologyMessages
           /\ messages[k].type # "pending" => Carries(RemoveAt(messages, k), messages)
           /\ MessagesOK(RemoveAt(messages, k))
           /\ CfmQueued(RemoveAt(messages, k)) => CfmQueued(messages)
           /\ messages[k].type = "script_cancel_cfm" =>
                CfmQueued(messages) /\ ~CfmQueued(RemoveAt(messages, k))
           /\ messages[k].type = "pending" =>
                Count(PendingMessages, RemoveAt(messages, k)) = Count(PendingMessages, messages) - 1
<1>1. /\ messages \in Seq(TopologyMessages) /\ k \in 1 .. Len(messages)
      /\ messages[k] \in TopologyMessages /\ Once(ScriptCancelCfm, messages)
    BY DEF MessagesOK
<1>2. Count(PendingMessages, RemoveAt(messages, k))
            = Count(PendingMessages, messages) - (IF messages[k] \in PendingMessages THEN 1 ELSE 0)
    BY <1>1, CountRemoveAt
<1>3. /\ messages[k] \in PendingMessages <=> messages[k].type = "pending"
      /\ messages[k] = ScriptCancelCfm <=> messages[k].type = "script_cancel_cfm"
    BY <1>1, MessageTypesDiffer
<1>4. /\ RemoveAt(messages, k) \in Seq(TopologyMessages)
      /\ Queued(ScriptCancelCfm, RemoveAt(messages, k)) => Queued(ScriptCancelCfm, messages)
      /\ Once(ScriptCancelCfm, RemoveAt(messages, k))
      /\ Once(messages[k], messages) => ~Queued(messages[k], RemoveAt(messages, k))
    BY <1>1, DeliverQueue
<1>5. Count(PendingMessages, messages) \in Nat
    BY PendingCount
<1>6. Queued(messages[k], messages)
    BY DEF Queued
<1> DEFINE r == RemoveAt(messages, k)
<1> HIDE DEF r
<1>7. MessagesOK(r) /\ (CfmQueued(r) => CfmQueued(messages))
    BY <1>4 DEF r, MessagesOK, CfmQueued
<1>8. messages[k].type # "pending" => Carries(r, messages)
    BY <1>2, <1>3, <1>5, <1>7 DEF r, Carries
<1>9. messages[k].type = "script_cancel_cfm" => CfmQueued(messages) /\ ~CfmQueued(r)
    BY <1>1, <1>3, <1>4, <1>6 DEF r, CfmQueued
<1>10. messages[k].type = "pending" =>
            Count(PendingMessages, r) = Count(PendingMessages, messages) - 1
    BY <1>2, <1>3 DEF r
<1> QED
    BY <1>1, <1>7, <1>8, <1>9, <1>10 DEF r

(* Cancelling completions on the way. *)
LEMMA WithoutCompletionOK ==
    ASSUME NEW msgs, MessagesOK(msgs), NEW goal, script.proc \in Goals \cup {GOAL_ID_NONE}
    PROVE  Carries(WithoutCompletion(goal, msgs), msgs)
<1> DEFINE m == StepComplete(script.proc)
           r == CancelAll(msgs, {m})
<1>1. m \notin PendingMessages
    BY OthersDiffer DEF OtherMessages
<1>2. PendingMessages \cap {m} = {}
    BY <1>1
<1>3. msgs \in Seq(TopologyMessages) /\ Once(ScriptCancelCfm, msgs)
    BY DEF MessagesOK
<1> HIDE DEF m
<1>4. Count(PendingMessages, r) = Count(PendingMessages, msgs)
    BY <1>2, <1>3, CountCancelOthers
<1>5. /\ r \in Seq(TopologyMessages) /\ Once(ScriptCancelCfm, r)
      /\ Queued(ScriptCancelCfm, r) => Queued(ScriptCancelCfm, msgs)
    BY <1>3, CancelAllQueue
<1>6. Carries(r, msgs) /\ Carries(msgs, msgs)
    BY <1>4, <1>5 DEF Carries, MessagesOK, CfmQueued
<1> QED
    BY <1>6 DEF WithoutCompletion, r, m

(* MessageFlushTask takes out all queued decisions and nothing else. *)
LEMMA NotPendingOK ==
    ASSUME NEW msgs, MessagesOK(msgs)
    PROVE  /\ MessagesOK(NotPending(msgs))
           /\ CfmQueued(NotPending(msgs)) => CfmQueued(msgs)
           /\ Count(PendingMessages, NotPending(msgs)) = 0
<1> DEFINE r == NotPending(msgs)
<1>1. /\ r \in Seq(TopologyMessages)
      /\ \A m : Queued(m, r) <=> Queued(m, msgs) /\ m \notin PendingMessages
      /\ \A m : Once(m, msgs) => Once(m, r)
    BY CancelAllQueue DEF NotPending, MessagesOK
<1> HIDE DEF r
<1>2. \A i \in DOMAIN r : r[i] \notin PendingMessages
    BY <1>1 DEF Queued
<1>3. (Count(PendingMessages, r) = 0) = (\A i \in DOMAIN r : r[i] \notin PendingMessages)
    BY <1>1, CountIsNat
<1>4. Count(PendingMessages, r) = 0
    BY <1>2, <1>3
<1> QED
    BY <1>1, <1>4 DEF r, MessagesOK, CfmQueued

(* goalsEngine_QueueGoal posts the decision it counts. *)
LEMMA PendingOK ==
    ASSUME NEW msgs, MessagesOK(msgs), NEW rule \in Rules, NEW i \in Slots
    PROVE  LET new == Append(msgs, Pending(rule, i)) IN
           /\ MessagesOK(new) /\ (CfmQueued(new) => CfmQueued(msgs))
           /\ Count(PendingMessages, new) = Count(PendingMessages, msgs) + 1
<1> DEFINE m == Pending(rule, i)
<1>1. m \in PendingMessages /\ m.type = "pending"
    BY DEF PendingMessages, Pending
<1> HIDE DEF m
<1>2. m \in TopologyMessages
    BY <1>1 DEF TopologyMessages
<1>3. m # ScriptCancelCfm
    BY <1>1, <1>2, MessageTypesDiffer
<1>4. msgs \in Seq(TopologyMessages) /\ Once(ScriptCancelCfm, msgs)
    BY DEF MessagesOK
<1>5. /\ Append(msgs, m) \in Seq(TopologyMessages)
      /\ Queued(ScriptCancelCfm, Append(msgs, m)) <=> Queued(ScriptCancelCfm, msgs)
      /\ Once(ScriptCancelCfm, Append(msgs, m))
    BY <1>2, <1>3, <1>4, AppendQueue
<1>6. Count(PendingMessages, Append(msgs, m))
        = Count(PendingMessages, msgs) + (IF m \in PendingMessages THEN 1 ELSE 0)
    BY <1>2, <1>4, CountAppend
<1>7. /\ MessagesOK(Append(msgs, m)) /\ (CfmQueued(Append(msgs, m)) => CfmQueued(msgs))
      /\ Count(PendingMessages, Append(msgs, m)) = Count(PendingMessages, msgs) + 1
    BY <1>1, <1>5, <1>6 DEF MessagesOK, CfmQueued
<1> QED
    BY <1>7 DEF m

----------------------------------------------------------------------------
(* The engines. *)

ScriptState ==
    [state : {"idle", "active", "cancelling"}, next_step : Nat,
     proc : DOMAIN Script \cup {GOAL_ID_NONE}]

(* The script engine is busy with the one goal that is active.  When it    *)
(* waits for the confirmation of a cancellation, that comes as a message   *)
(* or, for a search that was cancelled, from the find_role procedure, but  *)
(* not from both.  The queue count is never too small.                     *)
EngineInv ==
    /\ script \in ScriptState
    /\ script.state # "idle" => script.proc \in DOMAIN Script
    /\ ScriptFollowsGoal
    /\ SlotsOK(pending_goals)
    /\ MessagesOK(messages)
    /\ CfmQueued(messages) => script.state = "cancelling" /\ CurrentStep \notin SlowCancel
    /\ finding = "cancelling" => script.state = "cancelling" /\ CurrentStep = "find_role"
    /\ queue_msg_count \in Int /\ Slack(queue_msg_count, messages) \in Nat

(* The goals that are active are goals. *)
LEMMA ActiveAreGoals ==
    ASSUME EngineInv
    PROVE  /\ active_goals_mask \subseteq DOMAIN Script /\ active_goals_mask \in SUBSET Goals
           /\ script.proc \in Goals \cup {GOAL_ID_NONE}
BY ScriptAssumption DEF EngineInv, ScriptFollowsGoal, ScriptState

(* Messages are delivered and sent, and the engines are left alone. *)
LEMMA CarryStep ==
    ASSUME EngineInv, Carries(messages', messages),
           UNCHANGED <<script, panic, active_goals_mask, queue_msg_count, pending_goals, finding>>
    PROVE  EngineInv'
<1>1. CurrentStep' = CurrentStep /\ ScriptFollowsGoal'
    BY DEF EngineInv, CurrentStep, ScriptFollowsGoal
<1>2. Slack(queue_msg_count', messages') = Slack(queue_msg_count, messages)
    BY DEF Slack, Carries
<1>3. /\ MessagesOK(messages') /\ (CfmQueued(messages') => CfmQueued(messages))
    BY DEF Carries
<1> QED
    BY <1>1, <1>2, <1>3 DEF EngineInv

(* Cancelling scripted goals posts a confirmation when a script is         *)
(* cancelled in a step that no service has to stop.                        *)
LEMMA CancelCfmsOK ==
    ASSUME NEW S \in SUBSET DOMAIN Script
    PROVE  CancelCfms(S) = IF CancelsScript(S) /\ CurrentStep \notin SlowCancel
                           THEN <<ScriptCancelCfm>> ELSE <<>>
<1> DEFINE d == Ascending(Cardinality(Goals), S \cap DelayedCancel)
           c == [i \in DOMAIN d |-> CancelCfm(d[i])]
           t == IF CancelsScript(S) /\ CurrentStep \notin SlowCancel
                THEN <<ScriptCancelCfm>> ELSE <<>>
<1>1. S \cap DelayedCancel = {} /\ Cardinality(Goals) \in Nat
    BY GoalTableAssumption, ScriptAssumption, FS_CardinalityType
<1>2. d \in Seq((S \cap DelayedCancel) \cap (1 .. Cardinality(Goals)))
    BY <1>1, AscendingQueue
<1> HIDE DEF d
<1>3. d = <<>>
    <2>1. d \in Seq({})
        BY <1>1, <1>2
    <2> QED
        BY <2>1
<1>4. c = <<>>
    BY <1>3
<1>5. CancelCfms(S) = c \o t
    BY DEF CancelCfms, d
<1>6. t \in Seq({ScriptCancelCfm})
    <2>1. <<ScriptCancelCfm>> \in Seq({ScriptCancelCfm}) /\ <<>> \in Seq({ScriptCancelCfm})
        OBVIOUS
    <2>2. t = <<ScriptCancelCfm>> \/ t = <<>>
        OBVIOUS
    <2> HIDE DEF t
    <2> QED
        BY <2>1, <2>2
<1> HIDE DEF t, c
<1>7. CancelCfms(S) = t
    BY <1>4, <1>5, <1>6
<1> QED
    BY <1>7 DEF t

(* A goal is started while none is active. *)
LEMMA StartGoalOK ==
    ASSUME EngineInv, panic = "none", active_goals_mask = {}, NEW rule \in Rules,
           NEW slots, SlotsOK(slots), NEW count \in Int, NEW msgs, MessagesOK(msgs),
           CfmQueued(msgs) => CfmQueued(messages), Slack(count, msgs) \in Nat,
           StartGoal(slots, count, msgs, GoalFor(rule)), UNCHANGED finding
    PROVE  EngineInv'
<1> DEFINE goal == GoalFor(rule)
<1>1. goal \in DOMAIN Script /\ goal \in Goals
    BY GoalsOfRules
<1>2. script.state = "idle" /\ ~CfmQueued(messages) /\ finding # "cancelling"
    <2>1. script.state = "idle"
        BY DEF EngineInv, ScriptFollowsGoal
    <2> QED
        BY <2>1 DEF EngineInv
<1> HIDE DEF goal
<1>3. /\ script' = [state |-> "active", next_step |-> 0, proc |-> goal]
      /\ UNCHANGED panic /\ active_goals_mask' = {goal}
      /\ queue_msg_count' = count /\ messages' = msgs
      /\ pending_goals' = ResetPendingQueueIfEmpty(
            UpdateQueueMasks(slots, count, active_goals_mask'), count)
    BY <1>1, <1>2 DEF StartGoal, StartScript, IsScriptedGoal, goal
<1>4. SlotsOK(pending_goals')
    <2>1. active_goals_mask' \in SUBSET Goals
        BY <1>1, <1>3
    <2> QED
        BY <1>3, <2>1, UpdateQueueMasksOK
<1>5. script' \in ScriptState /\ script'.state = "active" /\ script'.proc = goal
    BY <1>1, <1>3 DEF ScriptState
<1>6. ScriptFollowsGoal'
    BY <1>3, <1>5 DEF ScriptFollowsGoal
<1> QED
    BY <1>1, <1>2, <1>3, <1>4, <1>5, <1>6 DEF EngineInv

(* A goal is queued and the goals of S are cancelled for it. *)
LEMMA QueueStepOK ==
    ASSUME EngineInv, panic = "none", NEW rule \in Rules, NEW goal \in TopologyGoals,
           NEW slots, SlotsOK(slots), NEW count \in Int, NEW msgs, MessagesOK(msgs),
           CfmQueued(msgs) => CfmQueued(messages), Slack(count, msgs) \in Nat,
           NEW wait \in SUBSET Goals, NEW S \in SUBSET active_goals_mask,
           QueueGoal(slots, count, msgs \o CancelCfms(S), goal, rule, wait),
           CancelProcedures(S), UNCHANGED active_goals_mask,
           finding' = IF CancelsScript(S) /\ CurrentStep = "find_role"
                      THEN "cancelling" ELSE finding
    PROVE  EngineInv'
<1> DEFINE t == CancelCfms(S)
           all == msgs \o t
<1>1. S \in SUBSET DOMAIN Script
    BY ActiveAreGoals
<1>2. t = IF CancelsScript(S) /\ CurrentStep \notin SlowCancel THEN <<ScriptCancelCfm>> ELSE <<>>
    BY <1>1, CancelCfmsOK
<1>3. CancelsScript(S) => script.state = "active" /\ ~CfmQueued(messages) /\ finding # "cancelling"
    BY DEF CancelsScript, CancelScriptTakesEffect, EngineInv
<1>4. msgs \in Seq(TopologyMessages) /\ Once(ScriptCancelCfm, msgs)
    BY DEF MessagesOK
<1> HIDE DEF t
<1>5. /\ t \in Seq(TopologyMessages) /\ Once(ScriptCancelCfm, t)
      /\ Queued(ScriptCancelCfm, t) => CancelsScript(S) /\ CurrentStep \notin SlowCancel
      /\ \A i \in DOMAIN t : t[i] \notin PendingMessages
    <2>1. ScriptCancelCfm \in TopologyMessages /\ ScriptCancelCfm \notin PendingMessages
        <3>1. ScriptCancelCfm \in TopologyMessages /\ ScriptCancelCfm.type = "script_cancel_cfm"
            BY DEF TopologyMessages, ScriptCancelCfm
        <3> QED
            BY <3>1, MessageTypesDiffer
    <2>2. CASE CancelsScript(S) /\ CurrentStep \notin SlowCancel
        <3>1. t \in Seq(TopologyMessages) /\ DOMAIN t = {1} /\ t[1] = ScriptCancelCfm
            BY <1>2, <2>1, <2>2
        <3> QED
            BY <2>1, <2>2, <3>1 DEF Once
    <2>3. CASE ~(CancelsScript(S) /\ CurrentStep \notin SlowCancel)
        <3>1. t \in Seq(TopologyMessages) /\ DOMAIN t = {}
            BY <1>2, <2>3
        <3> QED
            BY <3>1 DEF Once, Queued
    <2> QED
        BY <2>2, <2>3
<1>6. ~(Queued(ScriptCancelCfm, msgs) /\ Queued(ScriptCancelCfm, t))
    BY <1>3, <1>5 DEF CfmQueued
<1>7. /\ all \in Seq(TopologyMessages) /\ Once(ScriptCancelCfm, all)
      /\ Queued(ScriptCancelCfm, all) => Queued(ScriptCancelCfm, msgs) \/ Queued(ScriptCancelCfm, t)
    BY <1>4, <1>5, <1>6, ConcatQueue
<1>8. Count(PendingMessages, all) = Count(PendingMessages, msgs)
    BY <1>4, <1>5, CountConcat
<1>9. MessagesOK(all) /\ Slack(count, all) = Slack(count, msgs)
    BY <1>7, <1>8 DEF MessagesOK, Slack
<1> HIDE DEF all
<1>10. /\ SlotsOK(pending_goals') /\ queue_msg_count' = count + 1 /\ UNCHANGED panic
       /\ \E i \in Slots : messages' = Append(all, Pending(rule, i))
    BY QueueGoalOK DEF all, t
<1>11. PICK i \in Slots : messages' = Append(all, Pending(rule, i))
    BY <1>10
<1>12. /\ MessagesOK(messages') /\ (CfmQueued(messages') => CfmQueued(all))
       /\ Count(PendingMessages, messages') = Count(PendingMessages, all) + 1
    BY <1>9, <1>11, PendingOK
<1>13. queue_msg_count' \in Int /\ Slack(queue_msg_count', messages') \in Nat
    <2>1. Count(PendingMessages, all) \in Nat
        BY <1>9, PendingCount
    <2>2. Slack(queue_msg_count', messages') = Slack(count, all)
        BY <1>10, <1>12, <2>1 DEF Slack
    <2> QED
        BY <1>9, <1>10, <2>2
<1>14. /\ script' \in ScriptState
       /\ script'.proc = script.proc /\ script'.next_step = script.next_step
       /\ script'.state = IF CancelsScript(S) THEN "cancelling" ELSE script.state
    <2>1. CASE CancelsScript(S)
        <3>1. script' = [script EXCEPT !.state = "cancelling"]
            BY <2>1 DEF CancelProcedures, CancellingScript, CancelsScript
        <3> QED
            BY <2>1, <3>1 DEF EngineInv, ScriptState
    <2>2. CASE ~CancelsScript(S)
        BY <2>2 DEF CancelProcedures, EngineInv
    <2> QED
        BY <2>1, <2>2
<1>15. CurrentStep' = CurrentStep
    BY <1>14 DEF CurrentStep
<1>16. ScriptFollowsGoal' /\ (script'.state # "idle" => script'.proc \in DOMAIN Script)
    <2>1. (script'.state = "idle") = (script.state = "idle")
        BY <1>3, <1>14
    <2> QED
        BY <1>10, <1>14, <2>1 DEF EngineInv, ScriptFollowsGoal
<1>17. CfmQueued(messages') => script'.state = "cancelling" /\ CurrentStep' \notin SlowCancel
    <2>1. CfmQueued(messages') =>
            CfmQueued(messages) \/ (CancelsScript(S) /\ CurrentStep \notin SlowCancel)
        BY <1>5, <1>7, <1>12 DEF CfmQueued
    <2> QED
        BY <1>14, <1>15, <2>1 DEF EngineInv
<1>18. finding' = "cancelling" => script'.state = "cancelling" /\ CurrentStep' = "find_role"
    BY <1>14, <1>15 DEF EngineInv
<1> QED
    BY <1>10, <1>12, <1>13, <1>14, <1>16, <1>17, <1>18 DEF EngineInv

(* GoalsEngine_ActivateGoal for the goal of one of the rules. *)
LEMMA ActivateGoalOK ==
    ASSUME EngineInv, panic = "none", NEW rule \in Rules, NEW is_new_goal \in BOOLEAN,
           NEW count, count = IF is_new_goal THEN queue_msg_count ELSE queue_msg_count - 1,
           NEW msgs, MessagesOK(msgs), CfmQueued(msgs) => CfmQueued(messages),
           Slack(count, msgs) \in Nat,
           ActivateGoal(GoalFor(rule), rule, is_new_goal, msgs),
           finding' = IF WillCancel(GoalFor(rule)) /\ CurrentStep = "find_role"
                      THEN "cancelling" ELSE finding
    PROVE  EngineInv'
<1> DEFINE goal == GoalFor(rule)
<1>1. /\ goal \in DOMAIN Script /\ goal \in TopologyGoals /\ goal # GOAL_ID_NONE
      /\ ~RunsConcurrently(goal) /\ ExclusiveGoal[goal] = GOAL_ID_NONE
    BY GoalsOfRules
<1>2. \/ IgnoreDuplicate(goal, msgs)
      \/ StartNow(goal, count, is_new_goal, msgs)
      \/ CancelAndQueue(goal, rule, count, is_new_goal, msgs)
      \/ WaitInQueue(goal, rule, count, is_new_goal, msgs)
    BY <1>1 DEF ActivateGoal, StartConcurrently
<1>3. count \in Int /\ active_goals_mask \in SUBSET Goals /\ active_goals_mask \subseteq DOMAIN Script
    BY ActiveAreGoals DEF EngineInv
<1>4. /\ MessagesOK(NotPending(msgs))
      /\ CfmQueued(NotPending(msgs)) => CfmQueued(messages)
      /\ Slack(0, NotPending(msgs)) = 0
    BY NotPendingOK DEF Slack
<1>5. finding' = IF WillCancel(goal) /\ CurrentStep = "find_role" THEN "cancelling" ELSE finding
    OBVIOUS
<1> HIDE DEF goal
<1>6. CASE IgnoreDuplicate(goal, msgs)
    <2>1. /\ messages' = NotPending(msgs) /\ queue_msg_count' = 0 /\ pending_goals' = EmptyQueue
          /\ UNCHANGED <<script, panic, active_goals_mask, finding>>
        BY <1>5, <1>6 DEF IgnoreDuplicate, WillCancel
    <2>2. CurrentStep' = CurrentStep /\ ScriptFollowsGoal'
        BY <2>1 DEF EngineInv, CurrentStep, ScriptFollowsGoal
    <2>3. /\ MessagesOK(messages') /\ (CfmQueued(messages') => CfmQueued(messages))
          /\ Slack(queue_msg_count', messages') = 0 /\ SlotsOK(pending_goals')
        BY <1>4, <2>1, EmptyQueueOK
    <2> QED
        BY <2>1, <2>2, <2>3 DEF EngineInv
<1>7. CASE StartNow(goal, count, is_new_goal, msgs)
    <2>1. active_goals_mask = {} /\ StartGoal(pending_goals, count, msgs, goal) /\ UNCHANGED finding
        BY <1>5, <1>7 DEF StartNow, GoalCanRunNow, WillCancel
    <2>2. SlotsOK(pending_goals)
        BY DEF EngineInv
    <2> QED
        BY <1>3, <2>1, <2>2, StartGoalOK DEF goal
<1>8. CASE CancelAndQueue(goal, rule, count, is_new_goal, msgs)
    <2> DEFINE r == NotPending(msgs)
    <2>0. Slack(0, r) \in Nat /\ MessagesOK(r) /\ (CfmQueued(r) => CfmQueued(messages)) /\ 0 \in Int
        BY <1>4
    <2>1. CASE active_goals_mask = {}
        <3>1. StartGoal(EmptyQueue, 0, r, goal) /\ UNCHANGED finding
            BY <1>5, <1>8, <2>1 DEF CancelAndQueue, WillCancel
        <3> HIDE DEF r
        <3> QED
            BY <2>0, <2>1, <3>1, EmptyQueueOK, StartGoalOK DEF goal
    <2>2. CASE active_goals_mask # {}
        <3> DEFINE S == active_goals_mask
        <3>1. /\ QueueGoal(EmptyQueue, 0, r \o CancelCfms(S), goal, rule, S)
              /\ CancelProcedures(S) /\ UNCHANGED active_goals_mask
            BY <1>8, <2>2 DEF CancelAndQueue
        <3>2. WillCancel(goal) <=> CancelsScript(S)
            BY <1>3, <1>8, <2>2 DEF CancelAndQueue, WillCancel, CancelsScript, IsScriptedGoal
        <3>3. S \in SUBSET active_goals_mask /\ S \in SUBSET Goals
            BY <1>3
        <3>4. finding' = IF CancelsScript(S) /\ CurrentStep = "find_role"
                         THEN "cancelling" ELSE finding
            BY <1>5, <3>2
        <3> HIDE DEF r, S
        <3> QED
            BY <1>1, <2>0, <3>1, <3>3, <3>4, EmptyQueueOK, QueueStepOK
    <2> QED
        BY <2>1, <2>2
<1>9. CASE WaitInQueue(goal, rule, count, is_new_goal, msgs)
    <2> DEFINE wait == WaitMask(goal, active_goals_mask)
               S == {}
    <2>1. GOAL_ID_NONE \notin active_goals_mask
        BY <1>3, NoneIsNoGoal
    <2>2. ActiveExclusive(goal) = {}
        BY <1>1, <2>1 DEF ActiveExclusive
    <2>3. Len(msgs) \in Nat
        BY DEF MessagesOK
    <2>4. count - (Len(msgs) - Len(msgs)) = count
        BY <1>3, <2>3
    <2>5. /\ QueueGoal(pending_goals, count, msgs \o CancelCfms(S), goal, rule, wait)
          /\ CancelProcedures(S) /\ UNCHANGED active_goals_mask
        BY <1>9, <2>2, <2>4 DEF WaitInQueue
    <2>6. UNCHANGED finding /\ ~CancelsScript(S)
        BY <1>5, <1>9 DEF WaitInQueue, WillCancel, CancelsScript
    <2>7. wait \in SUBSET Goals /\ S \in SUBSET active_goals_mask /\ SlotsOK(pending_goals)
        BY <1>3 DEF WaitMask, EngineInv
    <2> HIDE DEF wait, S
    <2> QED
        BY <1>1, <1>3, <2>5, <2>6, <2>7, QueueStepOK
<1> QED
    BY <1>2, <1>6, <1>7, <1>8, <1>9

(* What is carried on is carried on over several changes. *)
LEMMA CarriesOn ==
    ASSUME NEW a, NEW b, NEW c, Carries(b, a), Carries(c, b) PROVE Carries(c, a)
BY DEF Carries

(* scriptEngine_ProcCompleteCfm, whoever completes: outside an active      *)
(* script it has no effect on the engines.                                 *)
LEMMA ProcCompleteCfmOK ==
    ASSUME EngineInv, panic = "none", NEW result, NEW msgs, Carries(msgs, messages),
           NEW busy, NEW find_role \in {finding, "idle"}, NEW count,
           ProcCompleteCfm(result, msgs, busy, find_role, count)
    PROVE  EngineInv'
<1> DEFINE kind == NextKind(result)
           more == StepMessages(kind, script.proc)
<1>1. /\ script' = AfterStep(result)
      /\ messages' = msgs \o more
      /\ panic' \in {"none", "peer pairing busy"}
      /\ kind = "none" => UNCHANGED panic
      /\ finding' = IF kind = "find_role" THEN "finding" ELSE find_role
      /\ EndsScript(result) => ClearGoal(script.proc)
      /\ ~EndsScript(result) => UNCHANGED <<active_goals_mask, queue_msg_count, pending_goals>>
    BY DEF ProcCompleteCfm, StepStarts
<1>2. Carries(messages', messages)
    <2>1. more \in Seq(OtherMessages)
        BY ActiveAreGoals, StepMessagesOK
    <2>2. MessagesOK(msgs)
        BY DEF Carries
    <2> HIDE DEF more
    <2>3. Carries(msgs \o more, msgs)
        BY <2>1, <2>2, ConcatOK
    <2> QED
        BY <1>1, <2>3, CarriesOn
<1> HIDE DEF more
<1>3. CASE script.state = "active"
    <2>1. finding # "cancelling" /\ ~CfmQueued(messages)
        BY <1>3 DEF EngineInv
    <2>2. finding' # "cancelling" /\ ~CfmQueued(messages') /\ MessagesOK(messages')
        BY <1>1, <1>2, <2>1 DEF Carries
    <2>3. queue_msg_count' = queue_msg_count /\ SlotsOK(pending_goals')
        BY <1>1, ClearGoalOK DEF EngineInv, ClearGoal
    <2>4. Slack(queue_msg_count', messages') = Slack(queue_msg_count, messages)
        BY <1>2, <2>3 DEF Carries, Slack
    <2>5. CASE EndsScript(result)
        <3>1. script' = EngineReset /\ active_goals_mask' = active_goals_mask \ {script.proc}
            BY <1>1, <1>3, <2>5 DEF AfterStep, ClearGoal
        <3>2. script' \in ScriptState /\ script'.state = "idle"
            BY <3>1 DEF EngineReset, EngineInv, ScriptState
        <3>3. active_goals_mask' = {}
            BY <1>3, <3>1 DEF EngineInv, ScriptFollowsGoal
        <3>4. ScriptFollowsGoal'
            BY <1>1, <3>2, <3>3 DEF ScriptFollowsGoal
        <3> QED
            BY <2>2, <2>3, <2>4, <3>2, <3>4 DEF EngineInv
    <2>6. CASE ~EndsScript(result)
        <3>1. /\ script' = [script EXCEPT !.next_step = @ + 1]
              /\ UNCHANGED active_goals_mask
            BY <1>1, <1>3, <2>6 DEF AfterStep
        <3>2. /\ script' \in ScriptState /\ script'.state = script.state
              /\ script'.proc = script.proc
            BY <3>1 DEF EngineInv, ScriptState
        <3>3. ScriptFollowsGoal' /\ (script'.state # "idle" => script'.proc \in DOMAIN Script)
            BY <1>1, <1>3, <3>1, <3>2 DEF EngineInv, ScriptFollowsGoal
        <3> QED
            BY <2>2, <2>3, <2>4, <3>2, <3>3 DEF EngineInv
    <2> QED
        BY <2>5, <2>6
<1>4. CASE script.state # "active"
    <2>1. kind = "none" /\ ~EndsScript(result) /\ script' = script
        BY <1>1, <1>4 DEF NextKind, EndsScript, AfterStep
    <2>2. /\ UNCHANGED <<script, panic, active_goals_mask, queue_msg_count, pending_goals>>
          /\ finding' \in {finding, "idle"}
        BY <1>1, <2>1
    <2>3. CurrentStep' = CurrentStep /\ ScriptFollowsGoal'
        BY <2>2 DEF EngineInv, CurrentStep, ScriptFollowsGoal
    <2>4. Slack(queue_msg_count', messages') = Slack(queue_msg_count, messages)
        BY <1>2, <2>2 DEF Slack, Carries
    <2>5. /\ MessagesOK(messages') /\ (CfmQueued(messages') => CfmQueued(messages))
        BY <1>2 DEF Carries
    <2>6. finding' = "cancelling" => finding = "cancelling"
        BY <2>2
    <2> QED
        BY <2>2, <2>3, <2>4, <2>5, <2>6 DEF EngineInv
<1> QED
    BY <1>3, <1>4

(* scriptEngine_ProcCancelCfm, of the message or of the find_role          *)
(* procedure.                                                              *)
LEMMA ProcCancelCfmOK ==
    ASSUME EngineInv, panic = "none", script.state = "cancelling", NEW msgs,
           Carries(msgs, messages), ~CfmQueued(msgs), ProcCancelCfm(msgs),
           finding' # "cancelling"
    PROVE  EngineInv'
<1>1. /\ script' = EngineReset /\ ClearGoal(script.proc) /\ messages' = msgs /\ UNCHANGED panic
    BY DEF ProcCancelCfm
<1>2. /\ active_goals_mask' = active_goals_mask \ {script.proc}
      /\ queue_msg_count' = queue_msg_count
      /\ SlotsOK(pending_goals')
    BY <1>1, ClearGoalOK DEF ClearGoal, EngineInv
<1>3. active_goals_mask' = {}
    BY <1>2 DEF EngineInv, ScriptFollowsGoal
<1>4. script' \in ScriptState /\ script'.state = "idle"
    BY <1>1 DEF EngineReset, EngineInv, ScriptState
<1>5. ScriptFollowsGoal'
    BY <1>1, <1>3, <1>4 DEF ScriptFollowsGoal
<1>6. Slack(queue_msg_count', messages') = Slack(queue_msg_count, messages)
    BY <1>1, <1>2 DEF Slack, Carries
<1>7. MessagesOK(messages') /\ ~CfmQueued(messages')
    BY <1>1 DEF Carries
<1> QED
    BY <1>2, <1>4, <1>5, <1>6, <1>7 DEF EngineInv

(* TwsTopology_HandleGoalDecision. *)
LEMMA GoalDecisionOK ==
    ASSUME EngineInv, NEW rule \in Rules, HandleGoalDecision(rule)
    PROVE  EngineInv'
<1> DEFINE goal == GoalFor(rule)
<1>1. PICK i \in DOMAIN messages, type \in DecisionTypes :
        /\ Deliver(i, type)
        /\ ActivateGoal(goal, rule, type = "decision",
                WithoutCompletion(goal, RemoveAt(messages, i))
                    \o FirstMessages(goal, type = "decision"))
    BY DEF HandleGoalDecision
<1>2. finding' = IF WillCancel(goal) /\ CurrentStep = "find_role" THEN "cancelling" ELSE finding
    BY DEF HandleGoalDecision
<1> DEFINE new == type = "decision"
           taken == RemoveAt(messages, i)
           kept == WithoutCompletion(goal, taken)
           more == FirstMessages(goal, new)
           msgs == kept \o more
           count == IF new THEN queue_msg_count ELSE queue_msg_count - 1
<1>3. /\ panic = "none" /\ messages[i].type = type /\ new \in BOOLEAN
      /\ new => messages[i].type # "pending"
      /\ ~new => messages[i].type = "pending"
    BY <1>1 DEF Deliver, Alive, DecisionTypes
<1>4. /\ MessagesOK(messages) /\ Count(PendingMessages, messages) \in Nat
      /\ queue_msg_count \in Int /\ Slack(queue_msg_count, messages) \in Nat
    BY PendingCount DEF EngineInv
<1>5. /\ MessagesOK(taken) /\ (CfmQueued(taken) => CfmQueued(messages))
      /\ new => Count(PendingMessages, taken) = Count(PendingMessages, messages)
      /\ ~new => Count(PendingMessages, taken) = Count(PendingMessages, messages) - 1
    <2>1. /\ MessagesOK(taken) /\ (CfmQueued(taken) => CfmQueued(messages))
          /\ messages[i].type # "pending" => Carries(taken, messages)
          /\ messages[i].type = "pending" =>
                Count(PendingMessages, taken) = Count(PendingMessages, messages) - 1
        BY <1>4, DeliverOK
    <2> HIDE DEF taken, new
    <2> QED
        BY <1>3, <2>1 DEF Carries
<1>6. ActivateGoal(goal, rule, new, msgs)
    BY <1>1
<1>7. more \in Seq(OtherMessages)
    <2>1. StepMessages(Script[goal][1], goal) \in Seq(OtherMessages)
        BY GoalsOfRules, StepMessagesOK
    <2>2. <<>> \in Seq(OtherMessages)
        OBVIOUS
    <2> HIDE DEF new, goal
    <2> QED
        BY <2>1, <2>2 DEF FirstMessages
<1> HIDE DEF taken, new, more
<1>8. Carries(kept, taken)
    BY <1>5, ActiveAreGoals, WithoutCompletionOK
<1> HIDE DEF kept
<1>9. Carries(msgs, kept)
    <2>1. MessagesOK(kept)
        BY <1>8 DEF Carries
    <2> QED
        BY <1>7, <2>1, ConcatOK
<1> HIDE DEF msgs
<1>10. Carries(msgs, taken)
    BY <1>8, <1>9, CarriesOn
<1>11. MessagesOK(msgs) /\ (CfmQueued(msgs) => CfmQueued(messages))
    BY <1>5, <1>10 DEF Carries
<1>12. Slack(count, msgs) \in Nat
    <2>1. Count(PendingMessages, msgs) = Count(PendingMessages, taken)
        BY <1>10 DEF Carries
    <2>2. CASE new
        BY <1>4, <1>5, <2>1, <2>2 DEF Slack
    <2>3. CASE ~new
        BY <1>4, <1>5, <2>1, <2>3 DEF Slack
    <2> QED
        BY <2>2, <2>3
<1> QED
    BY <1>2, <1>3, <1>6, <1>11, <1>12, ActivateGoalOK

(* The power manager's messages, its clients' answers and the handlers of  *)
(* the topology's own messages leave the engines alone.                    *)
EnginesAlone ==
    UNCHANGED <<script, panic, active_goals_mask, queue_msg_count, pending_goals, finding>>

(* A message that is handled and a message that is sent. *)
LEMMA HandlerOK ==
    ASSUME EngineInv, NEW i \in DOMAIN messages, messages[i].type # "pending",
           NEW m \in OtherMessages, NEW n \in OtherMessages
    PROVE  LET taken == RemoveAt(messages, i) IN
           /\ Carries(taken, messages)
           /\ Carries(Append(taken, m), messages)
           /\ Carries(Append(Append(taken, m), n), messages)
           /\ Carries(Append(messages, m), messages)
<1> DEFINE taken == RemoveAt(messages, i)
<1>1. MessagesOK(messages)
    BY DEF EngineInv
<1>2. Carries(taken, messages)
    BY <1>1, DeliverOK
<1> HIDE DEF taken
<1>3. Carries(Append(taken, m), taken)
    BY <1>2, AppendOK DEF Carries
<1>4. Carries(Append(Append(taken, m), n), Append(taken, m))
    <2> DEFINE a == Append(taken, m)
    <2>1. MessagesOK(a)
        BY <1>3 DEF Carries
    <2> HIDE DEF a
    <2>2. Carries(Append(a, n), a)
        BY <2>1, AppendOK
    <2> QED
        BY <2>2 DEF a
<1>5. Carries(Append(messages, m), messages)
    BY <1>1, AppendOK
<1>6. Carries(Append(taken, m), messages)
    BY <1>2, <1>3, CarriesOn
<1>7. Carries(Append(Append(taken, m), n), messages)
    BY <1>4, <1>6, CarriesOn
<1> QED
    BY <1>2, <1>5, <1>6, <1>7 DEF taken

(* The messages that handlers send. *)
LEMMA PlainMessages ==
    /\ \A type \in PlainTypes : Plain(type) \in OtherMessages
    /\ \A rule \in Rules : Decision(rule) \in OtherMessages
BY DEF OtherMessages

(* The types of the other variables. *)
TypesInv ==
    /\ power \in {"ok", "notified", "off"}
    /\ unprepared \subseteq {"topology", "app"}
    /\ shutdowns \in 0 .. MAX_SHUTDOWNS
    /\ app \in {"running", "terminating"}
    /\ stopping_state \in {"stopped", "started", "stopping"}
    /\ stop_timer \in BOOLEAN
    /\ rules_in_progress \subseteq Rules
    /\ paired \in BOOLEAN /\ pairing \in BOOLEAN
    /\ failed_pairings \in 0 .. MAX_FAILED_PAIRINGS
    /\ finding \in {"idle", "finding", "cancelling"}
    /\ services \in Nat

(* Handlers that leave the engines alone. *)
LEMMA HandlersStep ==
    ASSUME EngineInv, TypesInv,
           \/ BeginShutdown \/ HandlePowerShutdownPrepareInd \/ AppStopCfm \/ AppRestarts
           \/ HandleInternalStart \/ HandleInternalStop \/ HandleStopTimeout
           \/ HandleStopCompletion \/ HandleProcPeerPairResult
    PROVE  EngineInv'
<1> DEFINE taken(i) == RemoveAt(messages, i)
<1>0. MessagesOK(messages)
    BY DEF EngineInv
<1>p. /\ Plain("prepare_ind") \in OtherMessages /\ Plain("stop") \in OtherMessages
      /\ Plain("cancelled_ind") \in OtherMessages /\ Plain("start") \in OtherMessages
      /\ Plain("stop_cfm_success") \in OtherMessages /\ Plain("stop_cfm_fail") \in OtherMessages
    BY PlainMessages DEF PlainTypes
<1>r. \A rule \in Rules : Decision(rule) \in OtherMessages
    BY PlainMessages
<1>c. PAIR_PEER \in Rules /\ FIND_ROLE \in Rules /\ SYSTEM_STOP \in Rules
    BY TopologyAssumption
<1>1. CASE BeginShutdown
    <2>1. messages' = Append(messages, Plain("prepare_ind")) /\ EnginesAlone
        BY <1>1 DEF BeginShutdown, PowerHandler, EnginesAlone
    <2> QED
        BY <1>0, <1>p, <2>1, AppendOK, CarryStep DEF EnginesAlone
<1>2. CASE HandlePowerShutdownPrepareInd
    <2>1. PICK i \in DOMAIN messages :
            /\ messages[i].type = "prepare_ind"
            /\ \/ messages' = Append(taken(i), Plain("stop"))
               \/ messages' = Append(Append(taken(i), Plain("stop")), Plain("cancelled_ind"))
        BY <1>2 DEF HandlePowerShutdownPrepareInd, PrepareResponse, Deliver
    <2>2. EnginesAlone
        BY <1>2 DEF HandlePowerShutdownPrepareInd, PowerHandler, EnginesAlone
    <2>3. Carries(messages', messages)
        BY <1>p, <2>1, HandlerOK
    <2> QED
        BY <2>2, <2>3, CarryStep DEF EnginesAlone
<1>3. CASE AppStopCfm
    <2>1. PICK i \in DOMAIN messages :
            /\ messages[i].type \in {"stop_cfm_success", "stop_cfm_fail"}
            /\ \/ messages' = taken(i)
               \/ messages' = Append(taken(i), Plain("cancelled_ind"))
        BY <1>3 DEF AppStopCfm, PrepareResponse, Deliver
    <2>2. EnginesAlone
        BY <1>3 DEF AppStopCfm, PowerHandler, EnginesAlone
    <2>3. Carries(messages', messages)
        BY <1>p, <2>1, HandlerOK
    <2> QED
        BY <2>2, <2>3, CarryStep DEF EnginesAlone
<1>4. CASE AppRestarts
    <2>1. PICK i \in DOMAIN messages :
            messages[i].type = "cancelled_ind" /\ messages' = Append(taken(i), Plain("start"))
        BY <1>4 DEF AppRestarts, Deliver
    <2>2. EnginesAlone
        BY <1>4 DEF AppRestarts, PowerHandler, EnginesAlone
    <2>3. Carries(messages', messages)
        BY <1>p, <2>1, HandlerOK
    <2> QED
        BY <2>2, <2>3, CarryStep DEF EnginesAlone
<1>5. CASE HandleInternalStart
    <2>1. PICK i \in DOMAIN messages :
            /\ messages[i].type = "start"
            /\ \/ messages' = taken(i)
               \/ \E rule \in Rules : messages' = Append(taken(i), Decision(rule))
        BY <1>5, <1>c DEF HandleInternalStart, Deliver, TopologyStarts, RulesSetEvent, Ignored
    <2>2. EnginesAlone
        BY <1>5 DEF HandleInternalStart, TopologyHandler, EnginesAlone
    <2>3. Carries(messages', messages)
        BY <1>r, <1>p, <2>1, HandlerOK
    <2> QED
        BY <2>2, <2>3, CarryStep DEF EnginesAlone
<1>6. CASE HandleInternalStop
    <2>1. PICK i \in DOMAIN messages :
            /\ messages[i].type = "stop"
            /\ CASE stopping_state = "stopped" -> SendStopCfm("stop_cfm_success", taken(i))
                 [] stopping_state = "started"
                        -> /\ stop_timer' = TRUE
                           /\ RulesSetEvent(SYSTEM_STOP, taken(i))
                           /\ UNCHANGED stopping_state
                 [] stopping_state = "stopping" -> Ignored(taken(i))
            /\ TopologyHandler
        BY <1>6 DEF HandleInternalStop, Deliver
    <2>2. EnginesAlone
        BY <2>1 DEF TopologyHandler, EnginesAlone
    <2>3. stopping_state \in {"stopped", "started", "stopping"}
        BY DEF TypesInv
    <2>4. \/ SendStopCfm("stop_cfm_success", taken(i))
          \/ RulesSetEvent(SYSTEM_STOP, taken(i))
          \/ Ignored(taken(i))
        BY <2>1, <2>3
    <2>5. \/ messages' = taken(i)
          \/ messages' = Append(taken(i), Plain("stop_cfm_success"))
          \/ messages' = Append(taken(i), Decision(SYSTEM_STOP))
        BY <2>4 DEF SendStopCfm, RulesSetEvent, Ignored
    <2>6. Carries(messages', messages)
        BY <1>c, <1>r, <1>p, <2>1, <2>5, HandlerOK
    <2> QED
        BY <2>2, <2>6, CarryStep DEF EnginesAlone
<1>7. CASE HandleStopTimeout
    <2>1. messages' = Append(messages, Plain("stop_cfm_fail")) /\ EnginesAlone
        BY <1>7 DEF HandleStopTimeout, SendStopCfm, TopologyHandler, EnginesAlone
    <2> QED
        BY <1>0, <1>p, <2>1, AppendOK, CarryStep DEF EnginesAlone
<1>8. CASE HandleStopCompletion
    <2>1. PICK i \in DOMAIN messages :
            /\ messages[i].type = "stop_finished"
            /\ \/ messages' = taken(i)
               \/ messages' = Append(taken(i), Plain("stop_cfm_success"))
        BY <1>8 DEF HandleStopCompletion, Deliver, SendStopCfm, Ignored
    <2>2. EnginesAlone
        BY <1>8 DEF HandleStopCompletion, TopologyHandler, EnginesAlone
    <2>3. Carries(messages', messages)
        BY <1>p, <2>1, HandlerOK
    <2> QED
        BY <2>2, <2>3, CarryStep DEF EnginesAlone
<1>9. CASE HandleProcPeerPairResult
    <2>1. PICK i \in DOMAIN messages :
            /\ messages[i].type = "pair_result"
            /\ \/ messages' = taken(i)
               \/ \E rule \in Rules : messages' = Append(taken(i), Decision(rule))
        BY <1>9, <1>c DEF HandleProcPeerPairResult, Deliver, TopologyStarts, RulesSetEvent, Ignored
    <2>2. EnginesAlone
        BY <1>9 DEF HandleProcPeerPairResult, TopologyHandler, EnginesAlone
    <2>3. Carries(messages', messages)
        BY <1>r, <1>p, <2>1, HandlerOK
    <2> QED
        BY <2>2, <2>3, CarryStep DEF EnginesAlone
<1> QED
    BY <1>1, <1>2, <1>3, <1>4, <1>5, <1>6, <1>7, <1>8, <1>9

(* A decision that is flushed while the topology is not started stays      *)
(* counted.                                                                *)
LEMMA FlushDecisionOK ==
    ASSUME EngineInv, NEW rule \in Rules, FlushDecision(rule)
    PROVE  EngineInv'
<1>1. PICK i \in DOMAIN messages : messages' = RemoveAt(messages, i)
    BY DEF FlushDecision
<1>2. UNCHANGED <<script, panic, active_goals_mask, queue_msg_count, pending_goals, finding>>
    BY DEF FlushDecision, topologyVars
<1>3. MessagesOK(messages)
    BY DEF EngineInv
<1>4. CASE messages[i].type # "pending"
    <2>1. Carries(messages', messages)
        BY <1>1, <1>3, <1>4, DeliverOK
    <2> QED
        BY <1>2, <2>1, CarryStep
<1>5. CASE messages[i].type = "pending"
    <2>1. /\ MessagesOK(messages') /\ (CfmQueued(messages') => CfmQueued(messages))
          /\ Count(PendingMessages, messages') = Count(PendingMessages, messages) - 1
        BY <1>1, <1>3, <1>5, DeliverOK
    <2>2. Count(PendingMessages, messages) \in Nat
        BY <1>3, PendingCount
    <2>3. queue_msg_count' \in Int /\ Slack(queue_msg_count', messages') \in Nat
        BY <1>2, <2>1, <2>2 DEF EngineInv, Slack
    <2>4. CurrentStep' = CurrentStep /\ ScriptFollowsGoal'
        BY <1>2 DEF EngineInv, CurrentStep, ScriptFollowsGoal
    <2> QED
        BY <1>2, <2>1, <2>3, <2>4 DEF EngineInv
<1> QED
    BY <1>4, <1>5

(* Every step keeps the engines in order. *)
LEMMA EngineStep ==
    ASSUME EngineInv, TypesInv, Next PROVE EngineInv'
<1>0. MessagesOK(messages) /\ Carries(messages, messages)
    BY DEF EngineInv, Carries
<1>1. CASE \/ BeginShutdown \/ HandlePowerShutdownPrepareInd \/ AppStopCfm \/ AppRestarts
           \/ HandleInternalStart \/ HandleInternalStop \/ HandleStopTimeout
           \/ HandleStopCompletion \/ HandleProcPeerPairResult
    BY <1>1, HandlersStep
<1>2. CASE DelayedStepCompletes
    <2>1. PICK i \in DOMAIN messages :
            /\ Deliver(i, "step_complete")
            /\ ProcCompleteCfm("success", RemoveAt(messages, i), pairing, finding, services)
        BY <1>2 DEF DelayedStepCompletes
    <2>2. panic = "none" /\ messages[i].type = "step_complete"
        BY <2>1 DEF Deliver, Alive
    <2> DEFINE msgs == RemoveAt(messages, i)
    <2>3. Carries(msgs, messages)
        BY <1>0, <2>2, DeliverOK
    <2> HIDE DEF msgs
    <2>4. ProcCompleteCfm("success", msgs, pairing, finding, services)
        BY <2>1 DEF msgs
    <2> QED
        BY <2>2, <2>3, <2>4, ProcCompleteCfmOK
<1>3. CASE HandleScriptCancelCfm
    <2>1. PICK i \in DOMAIN messages :
            Deliver(i, "script_cancel_cfm") /\ ProcCancelCfm(RemoveAt(messages, i))
        BY <1>3 DEF HandleScriptCancelCfm
    <2>2. panic = "none" /\ messages[i].type = "script_cancel_cfm" /\ UNCHANGED finding
        BY <1>3, <2>1 DEF Deliver, Alive, HandleScriptCancelCfm
    <2> DEFINE msgs == RemoveAt(messages, i)
    <2>3. Carries(msgs, messages) /\ CfmQueued(messages) /\ ~CfmQueued(msgs)
        BY <1>0, <2>2, DeliverOK
    <2>4. script.state = "cancelling" /\ CurrentStep \notin SlowCancel
        BY <2>3 DEF EngineInv
    <2>5. finding # "cancelling"
        BY <2>4, TopologyAssumption DEF EngineInv
    <2> HIDE DEF msgs
    <2>6. ProcCancelCfm(msgs)
        BY <2>1 DEF msgs
    <2> QED
        BY <2>2, <2>3, <2>4, <2>5, <2>6, ProcCancelCfmOK
<1>4. CASE FindRoleEnds
    <2>1. panic = "none"
        BY <1>4 DEF FindRoleEnds, Alive
    <2>2. CASE ProcCompleteCfm("success", messages, pairing, "idle", services)
        BY <1>0, <2>1, <2>2, ProcCompleteCfmOK
    <2>3. CASE finding = "cancelling" /\ ProcCancelCfm(messages) /\ finding' = "idle"
        <3>1. script.state = "cancelling" /\ CurrentStep = "find_role"
            BY <2>3 DEF EngineInv
        <3>2. ~CfmQueued(messages)
            BY <3>1, TopologyAssumption DEF EngineInv
        <3> QED
            BY <1>0, <2>1, <2>3, <3>1, <3>2, ProcCancelCfmOK
    <2> QED
        BY <1>4, <2>2, <2>3 DEF FindRoleEnds
<1>5. ASSUME NEW result \in {"success", "failed"}, ServiceStepCompletes(result) PROVE EngineInv'
    <2>1. panic = "none" /\ ProcCompleteCfm(result, messages, pairing, finding, services - 1)
        BY <1>5 DEF ServiceStepCompletes, Alive
    <2> QED
        BY <1>0, <2>1, ProcCompleteCfmOK
<1>6. ASSUME NEW success \in BOOLEAN, PairCfm(success) PROVE EngineInv'
    <2> DEFINE msgs == Append(messages, Plain("pair_result"))
    <2>1. panic = "none" /\ ProcCompleteCfm("success", msgs, FALSE, finding, services)
        BY <1>6 DEF PairCfm, Alive
    <2>2. Plain("pair_result") \in OtherMessages
        BY PlainMessages DEF PlainTypes
    <2>3. Carries(msgs, messages)
        BY <1>0, <2>2, AppendOK
    <2> HIDE DEF msgs
    <2> QED
        BY <2>1, <2>3, ProcCompleteCfmOK
<1>7. ASSUME NEW rule \in Rules, FlushDecision(rule) PROVE EngineInv'
    BY <1>7, FlushDecisionOK
<1>8. ASSUME NEW rule \in Rules, HandleGoalDecision(rule) PROVE EngineInv'
    BY <1>8, GoalDecisionOK
<1> QED
    BY <1>1, <1>2, <1>3, <1>4, <1>5, <1>6, <1>7, <1>8 DEF Next

----------------------------------------------------------------------------
(* Answers to the power manager keep its types. *)
LEMMA PrepareResponseTypes ==
    ASSUME TypesInv, NEW client, NEW msgs, PrepareResponse(client, msgs)
    PROVE  /\ power' \in {"ok", "notified", "off"}
           /\ unprepared' \subseteq {"topology", "app"}
           /\ shutdowns' \in 0 .. MAX_SHUTDOWNS
BY DEF TypesInv, PrepareResponse

(* A script step that starts keeps the types. *)
LEMMA StepStartsTypes ==
    ASSUME NEW kind, NEW busy \in BOOLEAN,
           NEW find_role \in {"idle", "finding", "cancelling"}, NEW count \in Nat,
           StepStarts(kind, busy, find_role, count)
    PROVE  /\ pairing' \in BOOLEAN /\ finding' \in {"idle", "finding", "cancelling"}
           /\ services' \in Nat
<1>1. pairing' \in BOOLEAN
    BY Zenon DEF StepStarts
<1>2. /\ finding' = IF kind = "find_role" THEN "finding" ELSE find_role
      /\ services' = IF kind = "service" THEN count + 1 ELSE count
    BY Zenon DEF StepStarts
<1>3. finding' \in {"idle", "finding", "cancelling"} /\ services' \in Nat
    BY <1>2
<1> QED
    BY <1>1, <1>3

(* Every step keeps the types. *)
LEMMA TypesStep ==
    ASSUME TypesInv, Next PROVE TypesInv'
<1> USE DEF TypesInv
<1>c. PAIR_PEER \in Rules /\ FIND_ROLE \in Rules /\ SYSTEM_STOP \in Rules
    BY TopologyAssumption
<1>1. CASE BeginShutdown
    BY <1>1, TopologyAssumption DEF BeginShutdown, PowerHandler
<1>2. CASE HandlePowerShutdownPrepareInd
    <2>1. /\ power' \in {"ok", "notified", "off"} /\ unprepared' \subseteq {"topology", "app"}
          /\ shutdowns' \in 0 .. MAX_SHUTDOWNS
        BY <1>2, PrepareResponseTypes DEF HandlePowerShutdownPrepareInd, powerVars
    <2> QED
        BY <1>2, <2>1 DEF HandlePowerShutdownPrepareInd, PowerHandler
<1>3. CASE AppStopCfm
    <2>1. /\ power' \in {"ok", "notified", "off"} /\ unprepared' \subseteq {"topology", "app"}
          /\ shutdowns' \in 0 .. MAX_SHUTDOWNS
        BY <1>3, PrepareResponseTypes DEF AppStopCfm, powerVars
    <2> QED
        BY <1>3, <2>1 DEF AppStopCfm, PowerHandler
<1>4. CASE AppRestarts
    BY <1>4 DEF AppRestarts, PowerHandler, powerVars
<1>5. CASE HandleInternalStart
    BY <1>5, <1>c DEF HandleInternalStart, TopologyHandler, powerVars, TopologyStarts,
       RulesSetEvent, Ignored
<1>6. CASE HandleInternalStop
    BY <1>6, <1>c, ZenonT(40) DEF HandleInternalStop, TopologyHandler, powerVars, SendStopCfm,
       RulesSetEvent, Ignored
<1>7. CASE HandleStopTimeout
    BY <1>7 DEF HandleStopTimeout, TopologyHandler, powerVars, SendStopCfm
<1>8. CASE HandleStopCompletion
    BY <1>8 DEF HandleStopCompletion, TopologyHandler, powerVars, SendStopCfm, Ignored
<1>9. CASE HandleProcPeerPairResult
    BY <1>9, <1>c DEF HandleProcPeerPairResult, TopologyHandler, powerVars, TopologyStarts,
       RulesSetEvent, Ignored
<1>10. ASSUME NEW result, NEW msgs, NEW busy \in BOOLEAN,
              NEW find_role \in {"idle", "finding", "cancelling"}, NEW count \in Nat,
              ProcCompleteCfm(result, msgs, busy, find_role, count),
              paired' \in BOOLEAN, failed_pairings' \in 0 .. MAX_FAILED_PAIRINGS
       PROVE  TypesInv'
    <2>1. /\ pairing' \in BOOLEAN /\ finding' \in {"idle", "finding", "cancelling"}
          /\ services' \in Nat
        BY <1>10, StepStartsTypes, ZenonT(40) DEF ProcCompleteCfm
    <2> QED
        BY <1>10, <2>1 DEF ProcCompleteCfm, powerVars
<1>11. CASE DelayedStepCompletes
    <2>1. PICK i \in DOMAIN messages :
            ProcCompleteCfm("success", RemoveAt(messages, i), pairing, finding, services)
        BY <1>11 DEF DelayedStepCompletes
    <2> QED
        BY <1>10, <1>11, <2>1 DEF DelayedStepCompletes
<1>12. CASE HandleScriptCancelCfm
    BY <1>12 DEF HandleScriptCancelCfm, ProcCancelCfm, powerVars
<1>13. CASE FindRoleEnds
    <2>1. CASE finding = "cancelling" /\ ProcCancelCfm(messages) /\ finding' = "idle"
        BY <2>1 DEF ProcCancelCfm, powerVars
    <2>2. CASE /\ ProcCompleteCfm("success", messages, pairing, "idle", services)
               /\ UNCHANGED <<paired, failed_pairings>>
        BY <1>10, <2>2
    <2> QED
        BY <1>13, <2>1, <2>2 DEF FindRoleEnds
<1>14. ASSUME NEW result \in {"success", "failed"}, ServiceStepCompletes(result) PROVE TypesInv'
    <2> DEFINE n == services - 1
    <2>1. n \in Nat
        BY <1>14 DEF ServiceStepCompletes
    <2>2. ProcCompleteCfm(result, messages, pairing, finding, n)
        BY <1>14 DEF ServiceStepCompletes
    <2>3. paired' \in BOOLEAN /\ failed_pairings' \in 0 .. MAX_FAILED_PAIRINGS
        BY <1>14 DEF ServiceStepCompletes
    <2>4. pairing \in BOOLEAN /\ finding \in {"idle", "finding", "cancelling"}
        OBVIOUS
    <2> HIDE DEF n, TypesInv
    <2> QED
        BY <1>10, <2>1, <2>2, <2>3, <2>4, Zenon
<1>15. ASSUME NEW success \in BOOLEAN, PairCfm(success) PROVE TypesInv'
    <2>1. paired' \in BOOLEAN
        BY <1>15 DEF PairCfm
    <2>2. failed_pairings' \in 0 .. MAX_FAILED_PAIRINGS
        BY <1>15, TopologyAssumption DEF PairCfm
    <2> QED
        BY <1>10, <1>15, <2>1, <2>2 DEF PairCfm
<1>16. ASSUME NEW rule \in Rules, FlushDecision(rule) PROVE TypesInv'
    BY <1>16 DEF FlushDecision, topologyVars, powerVars
<1>17. ASSUME NEW rule \in Rules, HandleGoalDecision(rule) PROVE TypesInv'
    BY <1>17 DEF HandleGoalDecision, powerVars
<1> QED
    BY <1>1, <1>2, <1>3, <1>4, <1>5, <1>6, <1>7, <1>8, <1>9, <1>11, <1>12, <1>13, <1>14,
       <1>15, <1>16, <1>17 DEF Next

----------------------------------------------------------------------------
(* The inductive invariant of the topology. *)
TopologyInv == TypesInv /\ EngineInv

(* The application has posted the first start and nothing else. *)
LEMMA TopologyInvInit == Init => TopologyInv
<1> SUFFICES ASSUME Init PROVE TopologyInv
    OBVIOUS
<1>1. TypesInv
    <2>1. stop_timer \in BOOLEAN /\ paired \in BOOLEAN /\ pairing \in BOOLEAN
        BY DEF Init
    <2>2. /\ power \in {"ok", "notified", "off"} /\ unprepared \subseteq {"topology", "app"}
          /\ app \in {"running", "terminating"} /\ rules_in_progress \subseteq Rules
          /\ stopping_state \in {"stopped", "started", "stopping"}
          /\ finding \in {"idle", "finding", "cancelling"}
        BY DEF Init
    <2>3. /\ shutdowns \in 0 .. MAX_SHUTDOWNS /\ failed_pairings \in 0 .. MAX_FAILED_PAIRINGS
          /\ services \in Nat
        BY TopologyAssumption DEF Init
    <2> QED
        BY <2>1, <2>2, <2>3 DEF TypesInv
<1> DEFINE m == Plain("start")
<1>2. m \in OtherMessages
    BY PlainMessages DEF PlainTypes
<1>3. m \in TopologyMessages /\ m \notin PendingMessages /\ m # ScriptCancelCfm
    BY <1>2, OthersDiffer
<1>4. /\ messages = <<m>> /\ queue_msg_count = 0 /\ pending_goals = EmptyQueue
      /\ active_goals_mask = {} /\ panic = "none" /\ finding = "idle"
      /\ script = [state |-> "idle", next_step |-> 0, proc |-> GOAL_ID_NONE]
    BY DEF Init, ScriptInit
<1> HIDE DEF m
<1>5. messages \in Seq(TopologyMessages) /\ DOMAIN messages = {1} /\ messages[1] = m
    BY <1>3, <1>4
<1>6. MessagesOK(messages) /\ ~CfmQueued(messages)
    BY <1>3, <1>5 DEF MessagesOK, CfmQueued, Once, Queued
<1>7. Count(PendingMessages, messages) = 0
    <2>1. \A i \in DOMAIN messages : messages[i] \notin PendingMessages
        BY <1>3, <1>5
    <2>2. (Count(PendingMessages, messages) = 0)
            = (\A i \in DOMAIN messages : messages[i] \notin PendingMessages)
        BY <1>5, CountIsNat
    <2> QED
        BY <2>1, <2>2
<1>8. EngineInv
    BY <1>4, <1>6, <1>7, EmptyQueueOK DEF EngineInv, ScriptState, ScriptFollowsGoal, Slack
<1> QED
    BY <1>1, <1>8 DEF TopologyInv

(* Every step keeps the invariant. *)
LEMMA TopologyInvStep == TopologyInv /\ [Next]_vars => TopologyInv'
<1> SUFFICES ASSUME TopologyInv, [Next]_vars PROVE TopologyInv'
    OBVIOUS
<1>1. CASE Next
    BY <1>1, EngineStep, TypesStep DEF TopologyInv
<1>2. CASE UNCHANGED vars
    <2>1. UNCHANGED <<script, panic, active_goals_mask, queue_msg_count, pending_goals, finding,
                      messages>>
        BY <1>2 DEF vars, engineVars, topologyVars
    <2>2. Carries(messages', messages)
        BY <2>1 DEF TopologyInv, EngineInv, Carries
    <2>3. EngineInv'
        BY <2>1, <2>2, CarryStep DEF TopologyInv
    <2>4. TypesInv'
        BY <1>2 DEF TopologyInv, TypesInv, vars, topologyVars, powerVars
    <2> QED
        BY <2>3, <2>4 DEF TopologyInv
<1> QED
    BY <1>1, <1>2

(* TopologyInv is an invariant of the topology, whatever its services do. *)
THEOREM TopologyInvariant == Spec => []TopologyInv
BY TopologyInvInit, TopologyInvStep, PTL DEF Spec

(* The topology, the two engines and the messages stay well-formed; the    *)
(* queue count never becomes negative, although flushed decisions are not  *)
(* taken off it.                                                           *)
THEOREM TopologyTypes == Spec => []TypeOK
<1>1. TopologyInv => TypeOK
    <2> SUFFICES ASSUME TopologyInv PROVE TypeOK
        OBVIOUS
    <2>1. messages \in Seq(TopologyMessages) /\ \A m \in TopologyMessages : m \in Message
        BY MessageTypesDiffer DEF TopologyInv, EngineInv, MessagesOK
    <2>2. messages \in Seq(Message)
        BY <2>1
    <2>3. queue_msg_count \in Nat
        BY PendingCount DEF TopologyInv, EngineInv, Slack
    <2>4. active_goals_mask \subseteq Goals
        BY ActiveAreGoals DEF TopologyInv
    <2> QED
        BY <2>2, <2>3, <2>4 DEF TypeOK, TopologyInv, TypesInv
<1> QED
    BY <1>1, TopologyInvariant, PTL

(* With scripts of any length, the script engine is busy exactly while its *)
(* goal is active; it is never started while busy nor confirmed while not  *)
(* cancelling, and the goal queue never overflows, although decisions are  *)
(* flushed and late completions reach it out of turn.  The only panic left *)
(* is PeerPairLe_FindPeer's.                                               *)
THEOREM TopologyScriptFollowsGoal == Spec => []ScriptFollowsGoal
<1>1. TopologyInv => ScriptFollowsGoal
    BY DEF TopologyInv, EngineInv
<1> QED
    BY <1>1, TopologyInvariant, PTL

(* The timer that guards a stop is pending only while the topology runs    *)
(* (TwsTopology_SendStopCfm, twsTopology_HandleInternalStop).              *)
THEOREM TimerOnlyWhileRunning == Spec => []TimerMeansRunning
<1>1. Init => TimerMeansRunning
    BY DEF Init, TimerMeansRunning
<1>2. TimerMeansRunning /\ TopologyInv /\ [Next]_vars => TimerMeansRunning'
    <2> SUFFICES ASSUME TimerMeansRunning, TopologyInv, [Next]_vars PROVE TimerMeansRunning'
        OBVIOUS
    <2>0. stopping_state \in {"stopped", "started", "stopping"}
        BY DEF TopologyInv, TypesInv
    <2>1. \/ UNCHANGED <<stopping_state, stop_timer>>
          \/ stopping_state' = "started" /\ UNCHANGED stop_timer
          \/ stopping_state' \in {stopping_state, "stopping"} /\ stopping_state = "started"
          \/ ~stop_timer'
        <3>1. CASE \/ BeginShutdown \/ HandlePowerShutdownPrepareInd \/ AppStopCfm
                   \/ AppRestarts
            BY <3>1 DEF BeginShutdown, HandlePowerShutdownPrepareInd, AppStopCfm, AppRestarts,
               PowerHandler
        <3>2. CASE HandleInternalStart \/ HandleProcPeerPairResult
            BY <3>2 DEF HandleInternalStart, HandleProcPeerPairResult, TopologyStarts, Ignored
        <3>3. CASE HandleInternalStop
            BY <2>0, <3>3 DEF HandleInternalStop, SendStopCfm, Ignored
        <3>4. CASE HandleStopTimeout \/ HandleStopCompletion
            BY <3>4 DEF HandleStopTimeout, HandleStopCompletion, SendStopCfm, Ignored
        <3>5. CASE \/ DelayedStepCompletes \/ HandleScriptCancelCfm \/ FindRoleEnds
                   \/ \E result \in {"success", "failed"} : ServiceStepCompletes(result)
                   \/ \E success \in BOOLEAN : PairCfm(success)
            BY <3>5 DEF DelayedStepCompletes, HandleScriptCancelCfm, FindRoleEnds,
               ServiceStepCompletes, PairCfm, ProcCompleteCfm, ProcCancelCfm
        <3>6. CASE \E rule \in Rules : FlushDecision(rule)
            BY <3>6 DEF FlushDecision, topologyVars
        <3>7. CASE \E rule \in Rules : HandleGoalDecision(rule)
            BY <3>7 DEF HandleGoalDecision
        <3>8. CASE UNCHANGED vars
            BY <3>8 DEF vars, topologyVars
        <3> QED
            BY <3>1, <3>2, <3>3, <3>4, <3>5, <3>6, <3>7, <3>8 DEF Next
    <2> QED
        BY <2>1 DEF TimerMeansRunning, IsRunning
<1> QED
    BY <1>1, <1>2, TopologyInvariant, PTL DEF Spec
=============================================================================
