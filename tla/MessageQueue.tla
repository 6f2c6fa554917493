---------------------------- MODULE MessageQueue ----------------------------
(***************************************************************************)
(* The application's message queue and the loop that delivers from it      *)
(* (src/os/src/fw/src/customer/core/trap_api/trap_api_message.c).          *)
(* Messages are kept in the order of the millisecond at which they are     *)
(* due, a number that wraps; a message may be conditional on a lock, a     *)
(* word of memory that handlers write without telling the queue.  The loop *)
(* is run by the scheduler for an event that was posted or a timer that    *)
(* was set: a message is delivered only if one of them is there when it    *)
(* becomes deliverable.                                                    *)
(*                                                                         *)
(* A message has its id, its due time as stored, the lock it waits for,    *)
(* the number it was sent as and, for the properties, the time "at" which  *)
(* it is due on a clock that does not wrap.                                *)
(***************************************************************************)
EXTENDS Integers, Sequences, SequencesExt

CONSTANTS TIME,        \* values of the millisecond counter, 2^32 in the code
          START,       \* time at which the device starts
          MAX_TIME,    \* bound: time at which the model's clock stops
          TIMER_LIMIT, \* longest run_timer, a quarter of the wrap in the code
          Ids,         \* message ids
          MoreData,    \* ids of which one message at a time is enough
          Locks,       \* words that messages may be conditional on
          Delays,      \* delays of MessageSendLater
          MAX_SENT,    \* bound: messages sent
          MAX_QUEUE    \* bound: messages in the queue

(* No message stays in the queue for half of the wrap, 24 days. *)
ASSUME TimeAssumption ==
    /\ TIME \in Nat /\ START \in Nat \ {0} /\ MAX_TIME \in Nat
    /\ TIMER_LIMIT \in Nat \ {0}
    /\ Delays \subseteq Nat \ {0}
    /\ START <= MAX_TIME /\ 2 * (MAX_TIME - START + 1) < TIME
    /\ MoreData \subseteq Ids
    /\ MAX_SENT \in Nat /\ MAX_QUEUE \in Nat

VARIABLES
    vm_message_queue,    \* the queue
    held,                \* locks that are not zero
    now,                 \* the clock, without wrap
    sched_event_pending, \* an event to run the loop is in the scheduler
    run_timer,           \* time at which the scheduler runs the loop, or 0
    sent,                \* messages sent so far
    delivered            \* number of the message delivered last

vars == <<vm_message_queue, held, now, sched_event_pending, run_timer, sent, delivered>>

NoLock == "none"
D_IMMEDIATE == -1

Init ==
    /\ vm_message_queue = <<>>
    /\ held = {}
    /\ now = START
    /\ sched_event_pending = FALSE /\ run_timer = 0
    /\ sent = 0 /\ delivered = 0

----------------------------------------------------------------------------
(* Mutant: the counters are compared as they are. *)
UnsignedDiff(t, u) == t - u

(* The difference of two counter values as a signed number. *)
VM_DIFF(t, u) == ((t - u + TIME \div 2) % TIME) - TIME \div 2

(* Mutant: the due time is kept in more bits than the counter has. *)
WideMessage(id, delay, lock) ==
    [id |-> id, due |-> now + delay, lock |-> lock, number |-> sent + 1, at |-> now + delay]

NewMessage(id, delay, lock) ==
    [id |-> id, due |-> (now + delay) % TIME, lock |-> lock,
     number |-> sent + 1, at |-> now + delay]

Similar(a, b) == a.id = b.id /\ a.id \in MoreData

(* insert: the position of a message, before the first that is due later. *)
Position(a, queue) ==
    LET later == SelectInSeq(queue, LAMBDA m : VM_DIFF(a.due, m.due) < 0) IN
    IF later = 0 THEN Len(queue) + 1 ELSE later

IsDropped(a, queue) ==
    LET p == Position(a, queue) IN p > 1 /\ Similar(queue[p - 1], a)

Inserted(a, queue) ==
    IF IsDropped(a, queue) THEN queue ELSE InsertAt(queue, Position(a, queue), a)

(* The condition of a message is satisfied. *)
Unblocked(m) == m.lock \notin held

(* vm_message_next: the first message that is not blocked, if any. *)
HasNext == \E i \in DOMAIN vm_message_queue : Unblocked(vm_message_queue[i])

NextIndex == SelectInSeq(vm_message_queue, Unblocked)
Delta == VM_DIFF(vm_message_queue[NextIndex].due, now % TIME)

----------------------------------------------------------------------------
(* What handlers and the firmware do to the queue. *)

MaySend == sent < MAX_SENT /\ Len(vm_message_queue) < MAX_QUEUE

(* MessageSend and MessageSendConditionally, MessageSendLater.  A message  *)
(* that is inserted triggers the loop.                                     *)
Sendable(id) ==
    {NewMessage(id, D_IMMEDIATE, lock) : lock \in Locks \cup {NoLock}}
        \cup {NewMessage(id, delay, NoLock) : delay \in {d \in Delays : now + d <= MAX_TIME}}

(* trap_api_send_message_filtered: a message from the firmware is freed    *)
(* when a similar one is anywhere in the queue.                            *)
FirmwareSends(id) ==
    LET m == NewMessage(id, D_IMMEDIATE, NoLock)
        already == \E i \in DOMAIN vm_message_queue : Similar(vm_message_queue[i], m) IN
    /\ MaySend
    /\ sent' = sent + 1
    /\ IF already
       THEN UNCHANGED <<vm_message_queue, sched_event_pending>>
       ELSE /\ vm_message_queue' = Inserted(m, vm_message_queue)
            /\ sched_event_pending' = TRUE
    /\ UNCHANGED <<held, now, run_timer, delivered>>

(* MessageCancelFirst *)
CancelFirst(id, queue) == RemoveFirstMatch(queue, LAMBDA m : m.id = id)

(* The handler of a message: it writes locks, may cancel a message and may *)
(* send one.                                                               *)
Handler(queue) ==
    /\ held' \in SUBSET Locks
    /\ \E kept \in {queue} \cup {CancelFirst(id, queue) : id \in Ids} :
        \/ /\ vm_message_queue' = kept
           /\ UNCHANGED sent
        \/ /\ MaySend
           /\ sent' = sent + 1
           /\ \E id \in Ids \ MoreData : \E m \in Sendable(id) :
                vm_message_queue' = Inserted(m, kept)

----------------------------------------------------------------------------
(* trap_api_sched_msg_handler, run by the scheduler for the event or for   *)
(* the timer that has expired; the timer is gone in both cases.            *)

(* Mutant: the timer does not run the loop by itself. *)
ExpiresWithEvent == sched_event_pending /\ run_timer # 0 /\ now >= run_timer

TimerExpired == run_timer # 0 /\ now >= run_timer

Woken == sched_event_pending \/ TimerExpired

(* What is left of the event when the scheduler ran the loop for it, or    *)
(* for the timer.                                                          *)
EventAfterWake ==
    IF TimerExpired THEN {FALSE, sched_event_pending} ELSE {FALSE}

(* Mutant: the loop is not run again after a message was delivered. *)
DeliversOnce ==
    /\ Woken
    /\ HasNext /\ Delta <= 0
    /\ delivered' = vm_message_queue[NextIndex].number
    /\ Handler(RemoveAt(vm_message_queue, NextIndex))
    /\ sched_event_pending' = (sent' # sent)
    /\ run_timer' = 0
    /\ UNCHANGED now

(* A message is delivered: the loop will be run again. *)
Deliver ==
    /\ Woken
    /\ HasNext /\ Delta <= 0
    /\ delivered' = vm_message_queue[NextIndex].number
    /\ Handler(RemoveAt(vm_message_queue, NextIndex))
    /\ sched_event_pending' = TRUE
    /\ run_timer' = 0
    /\ UNCHANGED now

(* The next message is due later: set the timer, within its limit. *)
SetTimer ==
    /\ Woken
    /\ HasNext /\ Delta > 0
    /\ sched_event_pending' \in EventAfterWake
    /\ run_timer' = now + (IF Delta > TIMER_LIMIT THEN TIMER_LIMIT ELSE Delta)
    /\ UNCHANGED <<vm_message_queue, held, now, sent, delivered>>

(* There is no message to wait for. *)
Rest ==
    /\ Woken
    /\ ~HasNext
    /\ sched_event_pending' \in EventAfterWake
    /\ run_timer' = 0
    /\ UNCHANGED <<vm_message_queue, held, now, sent, delivered>>

Tick ==
    /\ now < MAX_TIME
    /\ now' = now + 1
    /\ UNCHANGED <<vm_message_queue, held, sched_event_pending, run_timer, sent, delivered>>

Next ==
    \/ \E id \in Ids : FirmwareSends(id)
    \/ Deliver \/ SetTimer \/ Rest
    \/ Tick

(* The scheduler runs the loop when it is told to, and time passes. *)
Fairness == WF_vars(Deliver) /\ WF_vars(SetTimer) /\ WF_vars(Rest) /\ WF_vars(Tick)

Spec == Init /\ [][Next]_vars /\ Fairness

----------------------------------------------------------------------------
Message == [id : Ids, due : 0 .. TIME - 1, lock : Locks \cup {NoLock},
            number : 1 .. MAX_SENT, at : START - 1 .. MAX_TIME]

TypeOK ==
    /\ vm_message_queue \in Seq(Message)
    /\ held \subseteq Locks
    /\ now \in START .. MAX_TIME
    /\ sched_event_pending \in BOOLEAN
    /\ run_timer \in Nat
    /\ sent \in 0 .. MAX_SENT /\ delivered \in 0 .. MAX_SENT

Before(m, n) == m.at < n.at \/ (m.at = n.at /\ m.number < n.number)

(* Every message that is not blocked has the loop run for it no later than *)
(* it is due, although locks are written without telling the queue and     *)
(* messages are cancelled while the timer is set for them.                 *)
NoLostWakeup ==
    \A i \in DOMAIN vm_message_queue :
        Unblocked(vm_message_queue[i]) =>
            \/ sched_event_pending
            \/ run_timer # 0 /\ run_timer <= vm_message_queue[i].at

(* A message is delivered when it is due, its lock is open and no message  *)
(* that is not blocked comes before it: what the goals engine relies on    *)
(* when it queues decisions on locks.                                      *)
DeliveredInTurn ==
    [][\A i \in DOMAIN vm_message_queue :
        LET m == vm_message_queue[i] IN
        delivered' # delivered /\ delivered' = m.number =>
            /\ m.at <= now /\ Unblocked(m)
            /\ \A j \in DOMAIN vm_message_queue :
                Unblocked(vm_message_queue[j]) => ~Before(vm_message_queue[j], m)]_vars

(* No message is passed over for ever: it is delivered or cancelled, or    *)
(* blocked again and again.                                                *)
NoneStarves ==
    \A n \in 1 .. MAX_SENT :
        []<>~\E i \in DOMAIN vm_message_queue :
                vm_message_queue[i].number = n /\ Unblocked(vm_message_queue[i])
=============================================================================
