--------------------------- MODULE DispatchProofs ---------------------------
(***************************************************************************)
(* Theorems about what gets work done in the message loop: the queue that  *)
(* delivers messages in the order of times that wrap, and the rules engine *)
(* whose decisions are such messages, for every rules table (rules with    *)
(* several events included) and any sequence of events and decisions.      *)
(***************************************************************************)
EXTENDS RuleDecisions, MessageQueue, QueueProofs

----------------------------------------------------------------------------
(* The message queue is kept in the order of the times at which its        *)
(* messages are due, although these are compared as numbers that wrap.     *)

(* In the order of the due times and, for the same time, of the sending. *)
Ordered(q) == \A i, j \in DOMAIN q : i < j => Before(q[i], q[j])

(* What is true of a queue after n messages were sent. *)
QueueInv(q, n) ==
    /\ q \in Seq(Message)
    /\ Ordered(q)
    /\ \A i \in DOMAIN q : q[i].number <= n /\ q[i].due = q[i].at % TIME
    /\ \A i, j \in DOMAIN q : q[i].number = q[j].number => i = j

MessageInv == TypeOK /\ NoLostWakeup /\ QueueInv(vm_message_queue, sent)

----------------------------------------------------------------------------
(* The clock. *)

(* The difference of two stored times is the difference of the times.      *)
LEMMA ClockDifference ==
    ASSUME NEW a \in START - 1 .. MAX_TIME, NEW b \in START - 1 .. MAX_TIME
    PROVE  VM_DIFF(a % TIME, b % TIME) = a - b
<1> DEFINE h == TIME \div 2
<1>0. TIME \in Nat \ {0} /\ a \in Int /\ b \in Int /\ h \in Int /\ 2 * h <= TIME /\ TIME < 2 * h + 2
    BY TimeAssumption
<1>1. PICK j \in Int, x \in 0 .. TIME - 1 : a = TIME * j + x /\ a % TIME = x
    <2>1. a \div TIME \in Int /\ a % TIME \in 0 .. TIME - 1 /\ a = TIME * (a \div TIME) + (a % TIME)
        BY <1>0
    <2> QED
        BY <2>1
<1>2. PICK k \in Int, y \in 0 .. TIME - 1 : b = TIME * k + y /\ b % TIME = y
    <2>1. b \div TIME \in Int /\ b % TIME \in 0 .. TIME - 1 /\ b = TIME * (b \div TIME) + (b % TIME)
        BY <1>0
    <2> QED
        BY <2>1
<1>3. a - b + h \in 0 .. TIME - 1
    BY <1>0, TimeAssumption
<1>4. x - y + h = TIME * (k - j) + (a - b + h)
    <2>1. TIME * (k - j) = TIME * k - TIME * j /\ TIME * k \in Int /\ TIME * j \in Int
        BY <1>0
    <2> QED
        BY <1>0, <1>1, <1>2, <2>1
<1>5. (x - y + h) % TIME = a - b + h
    <2> DEFINE d == a - b + h
               l == k - j
    <2>1. d \in 0 .. TIME - 1 /\ l \in Int /\ x - y + h = TIME * l + d /\ x - y + h \in Int
        BY <1>0, <1>3, <1>4
    <2> HIDE DEF d, l
    <2>2. (TIME * l + d) % TIME = d
        BY <1>0, <2>1
    <2> QED
        BY <2>1, <2>2 DEF d
<1> QED
    BY <1>0, <1>1, <1>2, <1>5 DEF VM_DIFF

(* The first of some positions in a queue. *)
LEMMA FirstOf ==
    ASSUME NEW I \in SUBSET Nat, I # {}
    PROVE  Min(I) \in I /\ \A i \in I : Min(I) <= i
<1>1. \E x \in I : \A y \in I : x <= y
    BY LeastNumber
<1> QED
    BY <1>1 DEF Min

----------------------------------------------------------------------------
(* What is done to the queue. *)

(* A message that is taken out leaves the others in order. *)
LEMMA RemoveKeepsQueue ==
    ASSUME NEW n \in Nat, NEW q, QueueInv(q, n), NEW k \in 1 .. Len(q)
    PROVE  QueueInv(RemoveAt(q, k), n)
<1> DEFINE r == RemoveAt(q, k)
<1>0. q \in Seq(Message) /\ DOMAIN q = 1 .. Len(q) /\ Len(q) \in Nat
    BY DEF QueueInv
<1>1. /\ r \in Seq(Message) /\ DOMAIN r = 1 .. Len(q) - 1
      /\ \A i \in 1 .. Len(q) - 1 : r[i] = IF i < k THEN q[i] ELSE q[i + 1]
    BY <1>0, RemoveAtQueue
<1> HIDE DEF r
<1> DEFINE F(i) == IF i < k THEN i ELSE i + 1
<1>2. /\ \A i \in DOMAIN r : F(i) \in DOMAIN q /\ r[i] = q[F(i)]
      /\ \A i, j \in DOMAIN r : (i < j => F(i) < F(j)) /\ (F(i) = F(j) => i = j)
    BY <1>0, <1>1
<1> HIDE DEF F
<1>3. Ordered(r)
    BY <1>2 DEF QueueInv, Ordered
<1>4. \A i \in DOMAIN r : r[i].number <= n /\ r[i].due = r[i].at % TIME
    BY <1>2 DEF QueueInv
<1>5. \A i, j \in DOMAIN r : r[i].number = r[j].number => i = j
    BY <1>2 DEF QueueInv
<1> QED
    BY <1>1, <1>3, <1>4, <1>5 DEF QueueInv, r

(* MessageCancelFirst takes one message out, or none. *)
LEMMA CancelKeepsQueue ==
    ASSUME NEW n \in Nat, NEW q, QueueInv(q, n), NEW id
    PROVE  QueueInv(CancelFirst(id, q), n)
<1>1. CASE ~\E i \in 1 .. Len(q) : q[i].id = id
    BY <1>1 DEF CancelFirst, RemoveFirstMatch
<1>2. CASE \E i \in 1 .. Len(q) : q[i].id = id
    <2> DEFINE I == {i \in 1 .. Len(q) : q[i].id = id}
    <2>1. I \in SUBSET Nat /\ I # {}
        BY <1>2
    <2>2. Min(I) \in 1 .. Len(q)
        BY <2>1, FirstOf
    <2>3. CancelFirst(id, q) = RemoveAt(q, Min(I))
        BY <1>2, <2>1 DEF CancelFirst, RemoveFirstMatch, SelectInSeq
    <2> QED
        BY <2>2, <2>3, RemoveKeepsQueue
<1> QED
    BY <1>1, <1>2

(* insert puts a message after all those that are not due later, which     *)
(* were sent before it, and before the others.                             *)
LEMMA InsertKeepsQueue ==
    ASSUME NEW n \in Nat, NEW q, QueueInv(q, n), NEW a \in Message,
           a.number = n + 1, a.due = a.at % TIME
    PROVE  QueueInv(Inserted(a, q), n + 1)
<1> DEFINE I == {i \in 1 .. Len(q) : VM_DIFF(a.due, q[i].due) < 0}
           p == Position(a, q)
<1>0. q \in Seq(Message) /\ DOMAIN q = 1 .. Len(q) /\ Len(q) \in Nat
    BY DEF QueueInv
<1> HIDE DEF I
<1>1. \A i \in 1 .. Len(q) : q[i] \in Message /\ q[i].at \in Int /\ q[i].number \in Nat
    <2>1. \A i \in 1 .. Len(q) : q[i] \in Message
        BY <1>0
    <2>2. \A m \in Message : m.at \in Int /\ m.number \in Nat
        BY TimeAssumption DEF Message
    <2> QED
        BY <2>1, <2>2
<1>i. I \in SUBSET Nat /\ \A i : i \in I <=> i \in 1 .. Len(q) /\ VM_DIFF(a.due, q[i].due) < 0
    BY DEF I
<1>2. a.at \in Int /\ \A i \in 1 .. Len(q) : VM_DIFF(a.due, q[i].due) = a.at - q[i].at
    <2>1. a.at \in START - 1 .. MAX_TIME /\ \A i \in 1 .. Len(q) : q[i].at \in START - 1 .. MAX_TIME
        BY <1>1 DEF Message
    <2>2. \A i \in 1 .. Len(q) : q[i].due = q[i].at % TIME
        BY <1>0 DEF QueueInv
    <2>3. a.at \in Int
        BY <2>1, TimeAssumption
    <2> QED
        BY <2>1, <2>2, <2>3, ClockDifference
<1>3. p = IF I = {} THEN Len(q) + 1 ELSE Min(I)
    <2>1. I # {} => Min(I) # 0
        <3>1. ASSUME I # {} PROVE Min(I) \in I
            BY <1>i, <3>1, FirstOf
        <3> QED
            BY <1>i, <3>1
    <2> QED
        BY <2>1 DEF Position, SelectInSeq, I
<1>4. p \in 1 .. Len(q) + 1 /\ (\A i \in 1 .. Len(q) : i < p => q[i].at <= a.at)
    <2>1. CASE I = {}
        BY <1>0, <1>1, <1>2, <1>3, <1>i, <2>1, SMTT(30)
    <2>2. CASE I # {}
        <3>1. Min(I) \in I /\ \A i \in I : Min(I) <= i
            BY <1>i, <2>2, FirstOf
        <3> HIDE DEF p
        <3>2. p \in I /\ \A i \in I : p <= i
            BY <1>3, <2>2, <3>1
        <3>3. p \in 1 .. Len(q) + 1
            BY <1>0, <1>i, <3>2
        <3>4. ASSUME NEW i \in 1 .. Len(q), i < p PROVE q[i].at <= a.at
            <4>1. i \notin I
                BY <1>0, <3>2, <3>3, <3>4
            <4>2. ~(a.at - q[i].at < 0)
                BY <1>2, <1>i, <4>1
            <4> QED
                BY <1>1, <1>2, <4>2
        <3> QED
            BY <3>3, <3>4
    <2> QED
        BY <2>1, <2>2
<1>5. \A i \in 1 .. Len(q) : p <= i => a.at < q[i].at
    <2>1. CASE I = {}
        BY <1>0, <1>3, <2>1
    <2>2. CASE I # {}
        <3>1. Min(I) \in I
            BY <1>i, <2>2, FirstOf
        <3> HIDE DEF p
        <3>2. p \in 1 .. Len(q) /\ a.at < q[p].at
            BY <1>1, <1>2, <1>3, <1>i, <2>2, <3>1
        <3>3. \A i \in 1 .. Len(q) : p < i => q[p].at <= q[i].at
            BY <1>0, <1>1, <3>2, SMTT(30) DEF QueueInv, Ordered, Before
        <3> SUFFICES ASSUME NEW i \in 1 .. Len(q), p <= i PROVE a.at < q[i].at
            OBVIOUS
        <3>4. p = i \/ q[p].at <= q[i].at
            BY <3>2, <3>3
        <3> QED
            BY <1>1, <1>2, <3>2, <3>4
    <2> QED
        BY <2>1, <2>2
<1>6. CASE IsDropped(a, q)
    BY <1>1, <1>0, <1>6 DEF QueueInv, Inserted
<1>7. CASE ~IsDropped(a, q)
    <2> DEFINE r == Inserted(a, q)
    <2> HIDE DEF p
    <2>1. r = InsertAt(q, p, a)
        BY <1>7 DEF Inserted, p
    <2>2. /\ r \in Seq(Message) /\ DOMAIN r = 1 .. Len(q) + 1
          /\ \A i \in 1 .. Len(q) + 1 :
                r[i] = IF i < p THEN q[i] ELSE IF i = p THEN a ELSE q[i - 1]
        <3>1. /\ InsertAt(q, p, a) \in Seq(Message) /\ DOMAIN InsertAt(q, p, a) = 1 .. Len(q) + 1
              /\ \A i \in 1 .. Len(q) + 1 :
                InsertAt(q, p, a)[i] = IF i < p THEN q[i] ELSE IF i = p THEN a ELSE q[i - 1]
            BY <1>0, <1>4, InsertAtQueue, SMTT(30)
        <3> QED
            BY <2>1, <3>1
    <2> HIDE DEF r
    <2> DEFINE F(i) == IF i < p THEN i ELSE i - 1
    <2>3. /\ \A i \in DOMAIN r : i # p => F(i) \in DOMAIN q /\ r[i] = q[F(i)]
          /\ \A i, j \in DOMAIN r : i # p /\ j # p =>
                (i < j => F(i) < F(j)) /\ (F(i) = F(j) => i = j)
          /\ \A i \in DOMAIN r : (i < p => F(i) < p) /\ (p < i => p <= F(i))
          /\ p \in DOMAIN r /\ r[p] = a
        BY <1>0, <1>4, <2>2
    <2> HIDE DEF F
    <2>4. \A i \in DOMAIN r : r[i].number <= n + 1 /\ r[i].due = r[i].at % TIME
        <3> SUFFICES ASSUME NEW i \in DOMAIN r
                     PROVE  r[i].number <= n + 1 /\ r[i].due = r[i].at % TIME
            OBVIOUS
        <3>1. CASE i = p
            BY <2>3, <3>1
        <3>2. CASE i # p
            BY <1>0, <1>1, <2>3, <3>2 DEF QueueInv
        <3> QED
            BY <3>1, <3>2
    <2>5. \A i \in DOMAIN q : q[i].number < n + 1
        BY <1>0, <1>1 DEF QueueInv
    <2>6. \A i, j \in DOMAIN r : r[i].number = r[j].number => i = j
        <3> SUFFICES ASSUME NEW i \in DOMAIN r, NEW j \in DOMAIN r, r[i].number = r[j].number
                     PROVE  i = j
            OBVIOUS
        <3>1. CASE i # p /\ j # p
            BY <2>3, <3>1 DEF QueueInv
        <3>2. CASE i = p /\ j # p
            BY <1>0, <1>1, <2>3, <2>5, <3>2
        <3>3. CASE i # p /\ j = p
            BY <1>0, <1>1, <2>3, <2>5, <3>3
        <3> QED
            BY <3>1, <3>2, <3>3
    <2>7. Ordered(r)
        <3> SUFFICES ASSUME NEW i \in DOMAIN r, NEW j \in DOMAIN r, i < j
                     PROVE  Before(r[i], r[j])
            BY DEF Ordered
        <3>1. CASE i # p /\ j # p
            BY <2>3, <3>1 DEF QueueInv, Ordered
        <3>2. CASE i = p /\ j # p
            <4>1. F(j) \in 1 .. Len(q) /\ r[j] = q[F(j)] /\ p <= F(j)
                BY <1>0, <2>3, <3>2
            <4> QED
                BY <1>5, <2>3, <3>2, <4>1 DEF Before
        <3>3. CASE i # p /\ j = p
            <4>1. F(i) \in 1 .. Len(q) /\ r[i] = q[F(i)] /\ F(i) < p
                BY <1>0, <2>3, <3>3
            <4>2. q[F(i)].at <= a.at /\ q[F(i)].number < a.number
                BY <1>0, <1>4, <2>5, <4>1
            <4>3. q[F(i)].at \in Int
                BY <1>1, <4>1
            <4> QED
                BY <1>2, <2>3, <3>3, <4>1, <4>2, <4>3 DEF Before
        <3> QED
            BY <2>2, <3>1, <3>2, <3>3
    <2> QED
        BY <2>2, <2>4, <2>6, <2>7 DEF QueueInv, r
<1> QED
    BY <1>6, <1>7

----------------------------------------------------------------------------
(* The loop. *)

(* A message that is sent has the next number and the time at which it is  *)
(* due.                                                                    *)
LEMMA NewMessages ==
    ASSUME TypeOK, sent < MAX_SENT, NEW id \in Ids
    PROVE  /\ \A m \in Sendable(id) :
                m \in Message /\ m.number = sent + 1 /\ m.due = m.at % TIME
           /\ NewMessage(id, D_IMMEDIATE, NoLock) \in Sendable(id)
<1>1. /\ now \in START .. MAX_TIME /\ now \in Nat /\ sent + 1 \in 1 .. MAX_SENT
      /\ TIME \in Nat \ {0}
    BY TimeAssumption DEF TypeOK
<1>2. ASSUME NEW delay \in Int, now + delay \in START - 1 .. MAX_TIME,
             NEW lock \in Locks \cup {NoLock}
      PROVE  LET m == NewMessage(id, delay, lock) IN
             m \in Message /\ m.number = sent + 1 /\ m.due = m.at % TIME
    <2>1. (now + delay) % TIME \in 0 .. TIME - 1
        BY <1>1, <1>2
    <2> QED
        BY <1>1, <1>2, <2>1 DEF NewMessage, Message
<1>3. D_IMMEDIATE \in Int /\ now + D_IMMEDIATE \in START - 1 .. MAX_TIME
    BY <1>1, TimeAssumption DEF D_IMMEDIATE
<1>4. \A d \in Delays : now + d <= MAX_TIME => d \in Int /\ now + d \in START - 1 .. MAX_TIME
    BY <1>1, TimeAssumption
<1>5. NewMessage(id, D_IMMEDIATE, NoLock) \in Sendable(id)
    BY DEF Sendable
<1>6. ASSUME NEW m \in Sendable(id)
      PROVE  m \in Message /\ m.number = sent + 1 /\ m.due = m.at % TIME
    <2>1. CASE \E lock \in Locks \cup {NoLock} : m = NewMessage(id, D_IMMEDIATE, lock)
        BY <1>2, <1>3, <2>1
    <2>2. CASE \E d \in Delays : now + d <= MAX_TIME /\ m = NewMessage(id, d, NoLock)
        BY <1>2, <1>4, <2>2
    <2> QED
        BY <1>6, <2>1, <2>2 DEF Sendable
<1> QED
    BY <1>5, <1>6

(* Whatever a handler does, the queue stays in order. *)
LEMMA HandlerKeepsQueue ==
    ASSUME TypeOK, NEW q, QueueInv(q, sent), Handler(q)
    PROVE  /\ QueueInv(vm_message_queue', sent') /\ sent' \in 0 .. MAX_SENT
           /\ held' \subseteq Locks
<1>0. sent \in Nat /\ sent \in 0 .. MAX_SENT /\ MAX_SENT \in Nat
    BY TimeAssumption DEF TypeOK
<1>1. PICK kept \in {q} \cup {CancelFirst(id, q) : id \in Ids} :
        \/ vm_message_queue' = kept /\ UNCHANGED sent
        \/ /\ MaySend
           /\ sent' = sent + 1
           /\ \E id \in Ids \ MoreData : \E m \in Sendable(id) :
                vm_message_queue' = Inserted(m, kept)
    BY DEF Handler
<1>2. QueueInv(kept, sent)
    BY <1>0, CancelKeepsQueue
<1>3. CASE vm_message_queue' = kept /\ UNCHANGED sent
    BY <1>0, <1>2, <1>3 DEF Handler
<1>4. CASE /\ MaySend
           /\ sent' = sent + 1
           /\ \E id \in Ids \ MoreData : \E m \in Sendable(id) :
                vm_message_queue' = Inserted(m, kept)
    <2>1. sent < MAX_SENT /\ sent' = sent + 1
        BY <1>4 DEF MaySend
    <2>2. PICK id \in Ids : \E m \in Sendable(id) : vm_message_queue' = Inserted(m, kept)
        BY <1>4
    <2>3. PICK m \in Sendable(id) : vm_message_queue' = Inserted(m, kept)
        BY <2>2
    <2>4. m \in Message /\ m.number = sent + 1 /\ m.due = m.at % TIME
        BY <2>1, NewMessages
    <2>5. QueueInv(Inserted(m, kept), sent + 1)
        BY <1>0, <1>2, <2>4, InsertKeepsQueue
    <2> QED
        BY <1>0, <2>1, <2>3, <2>5 DEF Handler
<1> QED
    BY <1>1, <1>3, <1>4

(* The message vm_message_next finds is the first that is not blocked: it  *)
(* comes before all the others that are not, and the loop computes the     *)
(* time until it is due.                                                   *)
LEMMA NextMessage ==
    ASSUME MessageInv, HasNext
    PROVE  /\ NextIndex \in DOMAIN vm_message_queue
           /\ Unblocked(vm_message_queue[NextIndex])
           /\ \A i \in DOMAIN vm_message_queue : Unblocked(vm_message_queue[i]) =>
                i = NextIndex \/ Before(vm_message_queue[NextIndex], vm_message_queue[i])
           /\ Delta = vm_message_queue[NextIndex].at - now
           /\ vm_message_queue[NextIndex].at \in Int /\ now \in Nat \ {0}
<1> DEFINE q == vm_message_queue
           I == {i \in 1 .. Len(q) : Unblocked(q[i])}
           k == NextIndex
<1>0. q \in Seq(Message) /\ DOMAIN q = 1 .. Len(q) /\ Len(q) \in Nat
    BY DEF MessageInv, QueueInv
<1>1. I \in SUBSET Nat /\ I # {}
    BY <1>0 DEF HasNext
<1>2. k = Min(I)
    BY <1>1 DEF NextIndex, SelectInSeq
<1>3. k \in I /\ \A i \in I : k <= i
    BY <1>1, <1>2, FirstOf
<1> HIDE DEF k
<1>4. ASSUME NEW i \in DOMAIN q, Unblocked(q[i]) PROVE i = k \/ Before(q[k], q[i])
    <2>1. k \in DOMAIN q /\ k <= i
        BY <1>0, <1>3, <1>4
    <2>2. i = k \/ k < i
        BY <1>0, <2>1
    <2> QED
        BY <2>1, <2>2 DEF MessageInv, QueueInv, Ordered
<1>5. /\ q[k].at \in START - 1 .. MAX_TIME /\ q[k].due = q[k].at % TIME
      /\ now \in START - 1 .. MAX_TIME
    <2>1. q[k] \in Message
        BY <1>0, <1>3
    <2>2. q[k].at \in START - 1 .. MAX_TIME
        BY <2>1 DEF Message
    <2>3. q[k].due = q[k].at % TIME
        BY <1>0, <1>3 DEF MessageInv, QueueInv
    <2> QED
        BY <2>2, <2>3, TimeAssumption DEF MessageInv, TypeOK
<1>6. Delta = q[k].at - now
    BY <1>5, ClockDifference DEF Delta, k
<1> QED
    BY <1>0, <1>3, <1>4, <1>5, <1>6, TimeAssumption DEF k, MessageInv, TypeOK

----------------------------------------------------------------------------
(* Every step keeps the invariant.  The timer is set for the first message *)
(* that is not blocked, which is due before the others.                    *)
LEMMA MessageInvStep ==
    ASSUME MessageInv, [Next]_vars
    PROVE  MessageInv'
<1>0. /\ TypeOK /\ NoLostWakeup /\ QueueInv(vm_message_queue, sent)
      /\ sent \in Nat /\ now \in Nat \ {0} /\ START \in Nat /\ MAX_TIME \in Nat
      /\ vm_message_queue \in Seq(Message)
    BY TimeAssumption DEF MessageInv, TypeOK
<1>1. ASSUME NEW id \in Ids, FirmwareSends(id) PROVE MessageInv'
    <2> DEFINE m == NewMessage(id, D_IMMEDIATE, NoLock)
    <2>1. /\ sent < MAX_SENT /\ sent' = sent + 1
          /\ UNCHANGED <<held, now, run_timer, delivered>>
        BY <1>1 DEF FirmwareSends, MaySend
    <2>2. m \in Message /\ m.number = sent + 1 /\ m.due = m.at % TIME
        BY <1>0, <2>1, NewMessages
    <2> HIDE DEF m
    <2>3. CASE UNCHANGED <<vm_message_queue, sched_event_pending>>
        <3>1. QueueInv(vm_message_queue, sent + 1)
            <4>1. \A i \in DOMAIN vm_message_queue : vm_message_queue[i].number \in Nat
                <5>1. \A x \in Message : x.number \in Nat
                    BY DEF Message
                <5> QED
                    BY <1>0, <5>1
            <4> QED
                BY <1>0, <4>1 DEF QueueInv
        <3>2. QueueInv(vm_message_queue', sent')
            BY <2>1, <2>3, <3>1
        <3>3. NoLostWakeup'
            BY <1>0, <2>1, <2>3 DEF NoLostWakeup, Unblocked
        <3>4. TypeOK'
            BY <1>0, <2>1, <2>3, TimeAssumption DEF TypeOK
        <3> QED
            BY <3>2, <3>3, <3>4 DEF MessageInv
    <2>4. CASE vm_message_queue' = Inserted(m, vm_message_queue) /\ sched_event_pending' = TRUE
        <3>1. QueueInv(Inserted(m, vm_message_queue), sent + 1)
            BY <1>0, <2>2, InsertKeepsQueue
        <3>2. QueueInv(vm_message_queue', sent')
            BY <2>1, <2>4, <3>1
        <3>3. NoLostWakeup'
            BY <2>4 DEF NoLostWakeup
        <3>4. TypeOK'
            BY <1>0, <2>1, <2>4, <3>2, TimeAssumption DEF TypeOK, QueueInv
        <3> QED
            BY <3>2, <3>3, <3>4 DEF MessageInv
    <2> QED
        BY <1>1, <2>3, <2>4 DEF FirmwareSends, m
<1>2. CASE Deliver
    <2>1. /\ HasNext /\ delivered' = vm_message_queue[NextIndex].number
          /\ Handler(RemoveAt(vm_message_queue, NextIndex))
          /\ sched_event_pending' = TRUE /\ run_timer' = 0 /\ UNCHANGED now
        BY <1>2 DEF Deliver
    <2>2. NextIndex \in 1 .. Len(vm_message_queue) /\ NextIndex \in DOMAIN vm_message_queue
        BY <1>0, <2>1, NextMessage
    <2>3. vm_message_queue[NextIndex].number \in 1 .. MAX_SENT
        <3>1. vm_message_queue[NextIndex] \in Message
            BY <1>0, <2>2
        <3> QED
            BY <3>1 DEF Message
    <2>4. QueueInv(RemoveAt(vm_message_queue, NextIndex), sent)
        BY <1>0, <2>2, RemoveKeepsQueue
    <2>5. QueueInv(vm_message_queue', sent') /\ sent' \in 0 .. MAX_SENT /\ held' \subseteq Locks
        BY <1>0, <2>1, <2>4, HandlerKeepsQueue
    <2>6. TypeOK'
        BY <1>0, <2>1, <2>3, <2>5, TimeAssumption DEF TypeOK, QueueInv
    <2>7. NoLostWakeup'
        BY <2>1 DEF NoLostWakeup
    <2> QED
        BY <2>5, <2>6, <2>7 DEF MessageInv
<1>3. CASE SetTimer
    <2> DEFINE m == vm_message_queue[NextIndex]
    <2>1. /\ HasNext /\ Delta > 0
          /\ sched_event_pending' \in BOOLEAN
          /\ run_timer' = now + (IF Delta > TIMER_LIMIT THEN TIMER_LIMIT ELSE Delta)
          /\ UNCHANGED <<vm_message_queue, held, now, sent, delivered>>
        BY <1>0, <1>3 DEF SetTimer, EventAfterWake, TypeOK
    <2>2. Delta = m.at - now /\ m.at \in Int
        BY <2>1, NextMessage
    <2>3. /\ \A i \in DOMAIN vm_message_queue : Unblocked(vm_message_queue[i]) =>
                i = NextIndex \/ Before(m, vm_message_queue[i])
          /\ \A i \in DOMAIN vm_message_queue : vm_message_queue[i].at \in Int
        <3>1. \A x \in Message : x.at \in Int
            BY <1>0 DEF Message
        <3> QED
            BY <1>0, <2>1, <3>1, NextMessage
    <2> HIDE DEF m
    <2>4. run_timer' \in Nat \ {0} /\ run_timer' <= m.at
        BY <1>0, <2>1, <2>2, TimeAssumption
    <2>5. \A i \in DOMAIN vm_message_queue :
            Unblocked(vm_message_queue[i]) => run_timer' <= vm_message_queue[i].at
        <3> SUFFICES ASSUME NEW i \in DOMAIN vm_message_queue, Unblocked(vm_message_queue[i])
                     PROVE  run_timer' <= vm_message_queue[i].at
            OBVIOUS
        <3>1. i = NextIndex \/ m.at <= vm_message_queue[i].at
            BY <2>2, <2>3 DEF Before
        <3> QED
            BY <2>2, <2>3, <2>4, <3>1 DEF m
    <2>6. NoLostWakeup'
        BY <2>1, <2>4, <2>5 DEF NoLostWakeup, Unblocked
    <2>7. TypeOK'
        BY <1>0, <2>1, <2>4 DEF TypeOK
    <2>8. QueueInv(vm_message_queue', sent')
        BY <1>0, <2>1
    <2> QED
        BY <2>6, <2>7, <2>8 DEF MessageInv
<1>4. CASE Rest
    <2>1. /\ ~HasNext /\ sched_event_pending' \in BOOLEAN /\ run_timer' = 0
          /\ UNCHANGED <<vm_message_queue, held, now, sent, delivered>>
        BY <1>0, <1>4 DEF Rest, EventAfterWake, TypeOK
    <2>2. NoLostWakeup'
        BY <2>1 DEF NoLostWakeup, HasNext, Unblocked
    <2>3. TypeOK'
        BY <1>0, <2>1 DEF TypeOK
    <2>4. QueueInv(vm_message_queue', sent')
        BY <1>0, <2>1
    <2> QED
        BY <2>2, <2>3, <2>4 DEF MessageInv
<1>5. CASE Tick
    <2>1. /\ now < MAX_TIME /\ now' = now + 1
          /\ UNCHANGED <<vm_message_queue, held, sched_event_pending, run_timer, sent, delivered>>
        BY <1>5 DEF Tick
    <2>2. NoLostWakeup'
        BY <1>0, <2>1 DEF NoLostWakeup, Unblocked
    <2>3. TypeOK'
        BY <1>0, <2>1 DEF TypeOK
    <2>4. QueueInv(vm_message_queue', sent')
        BY <1>0, <2>1
    <2> QED
        BY <2>2, <2>3, <2>4 DEF MessageInv
<1>6. CASE UNCHANGED vars
    <2>1. UNCHANGED <<vm_message_queue, held, now, sched_event_pending, run_timer, sent, delivered>>
        BY <1>6 DEF vars
    <2>2. QueueInv(vm_message_queue', sent')
        BY <1>0, <2>1
    <2> QED
        BY <1>0, <2>1, <2>2 DEF MessageInv, TypeOK, NoLostWakeup, Unblocked
<1> QED
    BY <1>1, <1>2, <1>3, <1>4, <1>5, <1>6 DEF Next

(* A message is delivered in its turn: the loop takes out the first that   *)
(* is not blocked, and no other has its number.                            *)
LEMMA DeliverInTurn ==
    ASSUME MessageInv, [Next]_vars,
           NEW i \in DOMAIN vm_message_queue,
           delivered' # delivered, delivered' = vm_message_queue[i].number
    PROVE  /\ vm_message_queue[i].at <= now /\ Unblocked(vm_message_queue[i])
           /\ \A j \in DOMAIN vm_message_queue :
                Unblocked(vm_message_queue[j]) => ~Before(vm_message_queue[j], vm_message_queue[i])
<1>1. Deliver
    BY DEF Next, vars, FirmwareSends, SetTimer, Rest, Tick
<1>2. HasNext /\ Delta <= 0 /\ delivered' = vm_message_queue[NextIndex].number
    BY <1>1 DEF Deliver
<1>3. /\ NextIndex \in DOMAIN vm_message_queue
      /\ Unblocked(vm_message_queue[NextIndex])
      /\ \A j \in DOMAIN vm_message_queue : Unblocked(vm_message_queue[j]) =>
            j = NextIndex \/ Before(vm_message_queue[NextIndex], vm_message_queue[j])
      /\ vm_message_queue[NextIndex].at <= now
    <2>1. /\ Delta = vm_message_queue[NextIndex].at - now
          /\ vm_message_queue[NextIndex].at \in Int /\ now \in Nat
        BY <1>2, NextMessage
    <2>2. vm_message_queue[NextIndex].at <= now
        BY <1>2, <2>1
    <2> QED
        BY <1>2, <2>2, NextMessage
<1>4. i = NextIndex
    BY <1>2, <1>3 DEF MessageInv, QueueInv
<1>5. \A j \in DOMAIN vm_message_queue : vm_message_queue[j].at \in Int /\ vm_message_queue[j].number \in Int
    <2>1. \A x \in Message : x.at \in Int /\ x.number \in Int
        BY TimeAssumption DEF Message
    <2> QED
        BY <2>1 DEF MessageInv, QueueInv
<1>6. ASSUME NEW j \in DOMAIN vm_message_queue, Unblocked(vm_message_queue[j]),
             Before(vm_message_queue[j], vm_message_queue[i])
      PROVE  FALSE
    <2>1. j = i \/ Before(vm_message_queue[i], vm_message_queue[j])
        BY <1>3, <1>4, <1>6
    <2>2. /\ vm_message_queue[j].at \in Int /\ vm_message_queue[j].number \in Int
          /\ vm_message_queue[i].at \in Int /\ vm_message_queue[i].number \in Int
        BY <1>5
    <2> QED
        BY <1>6, <2>1, <2>2 DEF Before
<1> QED
    BY <1>3, <1>4, <1>6

(* The inductive invariant of the message queue. *)
THEOREM MessageInvariant == Spec => []MessageInv
<1>1. Init => MessageInv
    <2>1. ASSUME Init PROVE MessageInv
        <3>1. vm_message_queue = <<>> /\ DOMAIN vm_message_queue = {} /\ vm_message_queue \in Seq(Message)
            BY <2>1 DEF Init
        <3>2. TypeOK
            <4>1. START \in START .. MAX_TIME /\ 0 \in Nat /\ 0 \in 0 .. MAX_SENT
                BY TimeAssumption
            <4> QED
                BY <2>1, <3>1, <4>1 DEF Init, TypeOK
        <3>3. NoLostWakeup
            BY <3>1 DEF NoLostWakeup
        <3>4. QueueInv(vm_message_queue, sent)
            BY <3>1 DEF QueueInv, Ordered
        <3> QED
            BY <3>2, <3>3, <3>4 DEF MessageInv
    <2> QED
        BY <2>1
<1>2. MessageInv /\ [Next]_vars => MessageInv'
    BY MessageInvStep
<1> QED
    BY <1>1, <1>2, PTL DEF Spec

(* Every variable of the message queue keeps its type. *)
THEOREM MessageTypes == Spec => []TypeOK
<1>1. MessageInv => TypeOK
    BY DEF MessageInv
<1> QED
    BY <1>1, MessageInvariant, PTL

(* Every message that is not blocked has the loop run for it no later than *)
(* it is due: the scheduler has the event, or the timer is set for it or   *)
(* for an earlier message.                                                 *)
THEOREM WakesForEveryMessage == Spec => []NoLostWakeup
<1>1. MessageInv => NoLostWakeup
    BY DEF MessageInv
<1> QED
    BY <1>1, MessageInvariant, PTL

(* Messages are delivered when they are due and in the order of their due  *)
(* times and of their sending, except for those that are blocked.          *)
THEOREM DeliversInTurn == Spec => DeliveredInTurn
<1>1. MessageInv /\ [Next]_vars =>
        [\A i \in DOMAIN vm_message_queue :
            LET m == vm_message_queue[i] IN
            delivered' # delivered /\ delivered' = m.number =>
                /\ m.at <= now /\ Unblocked(m)
                /\ \A j \in DOMAIN vm_message_queue :
                    Unblocked(vm_message_queue[j]) => ~Before(vm_message_queue[j], m)]_vars
    BY DeliverInTurn
<1> QED
    BY <1>1, MessageInvariant, PTL DEF Spec, DeliveredInTurn

----------------------------------------------------------------------------
(* The rules engine.                                                       *)

(* The decisions and the rules' statuses: what the engine keeps in step. *)
RulesInv == RulesTypeOK /\ InProgressHasDecision

(* A rule that became or stayed in progress was so before, or was just     *)
(* run: resetting and completing put no rule in progress.                  *)
LEMMA ResetEventStatus ==
    ASSUME NEW event \in SUBSET Events, NEW status \in [Rules -> Status], events \in SUBSET Events,
           ResetEvent(event, status)
    PROVE  /\ events' \in SUBSET Events
           /\ rule_status' \in [Rules -> Status]
           /\ \A r \in Rules : rule_status'[r] = "in_progress" => status[r] = "in_progress"
<1>1. \A r \in Rules : rule_status'[r] = "not_done" \/ rule_status'[r] = status[r]
    BY DEF ResetEvent
<1>2. "not_done" \in Status /\ "not_done" # "in_progress"
    BY DEF Status
<1>3. rule_status' \in [Rules -> Status]
    BY <1>2 DEF ResetEvent
<1> QED
    BY <1>1, <1>2, <1>3 DEF ResetEvent

(* Completing rules ends those in progress and starts none. *)
LEMMA CompleteRulesStatus ==
    ASSUME RulesTypeOK, NEW message, NEW status, NEW event,
           CompleteRules(message, status, event)
    PROVE  /\ events' \in SUBSET Events
           /\ rule_status' \in [Rules -> Status]
           /\ \A r \in Rules : rule_status'[r] = "in_progress" =>
                /\ rule_status[r] = "in_progress"
                /\ r \notin Updated(message, status, event)
<1> DEFINE updated == Updated(message, status, event)
           after == AfterUpdate(updated)
           retired == EventsOf(updated) \ EventsOf(Incomplete(updated, event))
<1>1. after \in [Rules -> Status]
    BY DEF AfterUpdate, RulesTypeOK, Status
<1>2. \A r \in Rules : after[r] = "in_progress" =>
            rule_status[r] = "in_progress" /\ r \notin updated
    BY DEF AfterUpdate
<1>3. retired \in SUBSET Events
    BY RuleTableAssumption DEF EventsOf, Updated
<1>4. ResetEvent(retired, after)
    BY DEF CompleteRules
<1>5. events \in SUBSET Events
    BY DEF RulesTypeOK
<1> HIDE DEF updated, after, retired
<1>6. /\ events' \in SUBSET Events
      /\ rule_status' \in [Rules -> Status]
      /\ \A r \in Rules : rule_status'[r] = "in_progress" => after[r] = "in_progress"
    BY <1>1, <1>3, <1>4, <1>5, ResetEventStatus
<1> QED
    BY <1>2, <1>6 DEF updated

(* Marking the rules of a message as complete leaves no rule of that       *)
(* message in progress.                                                    *)
LEMMA SetRuleCompleteStatus ==
    ASSUME RulesTypeOK, NEW message, SetRuleComplete(message)
    PROVE  /\ events' \in SUBSET Events
           /\ rule_status' \in [Rules -> Status]
           /\ rule_index' \in 0 .. RULES_COUNT
           /\ pass_events' \in SUBSET Events
           /\ \A r \in Rules : rule_status'[r] = "in_progress" =>
                rule_status[r] = "in_progress" /\ RuleMessage[r] # message
<1>1. /\ events' \in SUBSET Events
      /\ rule_status' \in [Rules -> Status]
      /\ \A r \in Rules : rule_status'[r] = "in_progress" =>
            rule_status[r] = "in_progress" /\ r \notin Updated(message, "in_progress", Events)
    BY CompleteRulesStatus DEF SetRuleComplete
<1>2. \A r \in Rules : RuleEvents[r] \cap Events # {}
    BY RuleTableAssumption
<1>3. rule_index' \in 0 .. RULES_COUNT /\ pass_events' \in SUBSET Events
    BY <1>1, RuleTableAssumption DEF SetRuleComplete, StartPass
<1> QED
    BY <1>1, <1>2, <1>3 DEF Updated

(* The index of the rule being run stays in the table. *)
LEMMA NextRuleType ==
    ASSUME RulesTypeOK, NextRule
    PROVE  rule_index' \in 0 .. RULES_COUNT
BY RuleTableAssumption DEF RulesTypeOK, NextRule

----------------------------------------------------------------------------
(* The invariant holds for a fresh rule set. *)
LEMMA RulesInvInit == RulesInit => RulesInv
<1> SUFFICES ASSUME RulesInit PROVE RulesInv
    OBVIOUS
<1>1. decisions \in Seq(Messages)
    BY DEF RulesInit, RuleSetInit
<1>2. rule_status \in [Rules -> Status]
    BY DEF RulesInit, RuleSetInit, Status
<1>3. InProgressHasDecision
    BY DEF RulesInit, RuleSetInit, InProgressHasDecision
<1> QED
    BY <1>1, <1>2, <1>3, RuleTableAssumption DEF RulesInit, RuleSetInit, RulesInv, RulesTypeOK

(* Every step of the rule engine and its users keeps the invariant. *)
LEMMA RulesInvStep == RulesInv /\ [RulesNext]_allRuleVars => RulesInv'
<1> SUFFICES ASSUME RulesInv, [RulesNext]_allRuleVars PROVE RulesInv'
    OBVIOUS
<1>0. RulesTypeOK /\ InProgressHasDecision
    BY DEF RulesInv
<1>1. ASSUME NEW event \in Events, TopologySetsEvent(event) PROVE RulesInv'
    BY <1>0, <1>1, RuleTableAssumption DEF TopologySetsEvent, SetEvent, StartPass,
       RulesInv, RulesTypeOK, InProgressHasDecision
<1>2. ASSUME NEW event \in Events, TopologyResetsEvent(event) PROVE RulesInv'
    <2>1. /\ events' \in SUBSET Events
          /\ rule_status' \in [Rules -> Status]
          /\ \A r \in Rules : rule_status'[r] = "in_progress" => rule_status[r] = "in_progress"
        BY <1>0, <1>2, ResetEventStatus DEF TopologyResetsEvent, RulesTypeOK
    <2> QED
        BY <1>0, <1>2, <2>1 DEF TopologyResetsEvent, RulesInv, RulesTypeOK, InProgressHasDecision
<1>3. CASE Rule
    <2>0. rule_index' \in 0 .. RULES_COUNT
        BY <1>0, <1>3, NextRuleType DEF Rule, SkipRule, HoldEvents, RuleRuns, RuleIgnored
    <2>1. CASE SkipRule
        BY <1>0, <1>3, <2>0, <2>1 DEF Rule, SkipRule, RulesInv, RulesTypeOK, InProgressHasDecision
    <2>2. CASE HoldEvents
        BY <1>0, <1>3, <2>0, <2>2 DEF Rule, HoldEvents, RulesInv, RulesTypeOK, InProgressHasDecision
    <2>3. CASE RuleRuns
        <3> DEFINE m == RuleMessage[rule_index]
        <3>1. rule_index \in Rules /\ m \in Messages
            BY <1>0, <2>3, RuleTableAssumption DEF RulesTypeOK, RuleRuns, Evaluated, Rules
        <3>2. decisions \in Seq(Messages) /\ decisions' = Append(decisions, m)
            BY <1>0, <2>3 DEF RulesTypeOK, RuleRuns
        <3> HIDE DEF m
        <3>3. /\ decisions' \in Seq(Messages)
              /\ \E i \in DOMAIN decisions' : decisions'[i] = m
              /\ \A i \in DOMAIN decisions : i \in DOMAIN decisions' /\ decisions'[i] = decisions[i]
            BY <3>1, <3>2
        <3>4. /\ rule_status' \in [Rules -> Status]
              /\ \A r \in Rules \ {rule_index} : rule_status'[r] = rule_status[r]
            BY <1>0, <2>3, <3>1 DEF RulesTypeOK, RuleRuns, Status
        <3>5. InProgressHasDecision'
            BY <1>0, <3>3, <3>4 DEF InProgressHasDecision, m
        <3> QED
            BY <1>0, <1>3, <2>0, <2>3, <3>3, <3>4, <3>5 DEF Rule, RuleRuns, RulesInv, RulesTypeOK
    <2>4. CASE RuleIgnored
        <3>1. /\ events' \in SUBSET Events
              /\ rule_status' \in [Rules -> Status]
              /\ \A r \in Rules : rule_status'[r] = "in_progress" => rule_status[r] = "in_progress"
            BY <1>0, <2>4, CompleteRulesStatus DEF RuleIgnored
        <3> QED
            BY <1>0, <1>3, <2>0, <2>4, <3>1 DEF Rule, RuleIgnored, RulesInv, RulesTypeOK,
               InProgressHasDecision
    <2> QED
        BY <1>3, <2>1, <2>2, <2>3, <2>4 DEF Rule
<1>4. CASE DeferRule
    <2>1. rule_index' \in 0 .. RULES_COUNT
        BY <1>0, <1>4, NextRuleType DEF DeferRule, RuleDeferred
    <2>2. /\ rule_status' \in [Rules -> Status]
          /\ \A r \in Rules : rule_status'[r] = "in_progress" => rule_status[r] = "in_progress"
        BY <1>0, <1>4 DEF DeferRule, RuleDeferred, RulesTypeOK, Status
    <2> QED
        BY <1>0, <1>4, <2>1, <2>2 DEF DeferRule, RuleDeferred, RulesInv, RulesTypeOK,
           InProgressHasDecision
<1>5. CASE HandleDecision
    <2> DEFINE m == Head(decisions)
    <2>1. decisions \in Seq(Messages) /\ decisions # <<>> /\ decisions' = Tail(decisions)
        BY <1>0, <1>5 DEF HandleDecision, RulesTypeOK
    <2>2. /\ m \in Messages
          /\ decisions' \in Seq(Messages)
          /\ \A i \in DOMAIN decisions : decisions[i] = m \/
                \E j \in DOMAIN decisions' : decisions'[j] = decisions[i]
        <3>1. ASSUME NEW i \in DOMAIN decisions, i # 1
              PROVE  i - 1 \in DOMAIN decisions' /\ decisions'[i - 1] = decisions[i]
            BY <2>1, <3>1
        <3>2. decisions[1] = m /\ m \in Messages /\ decisions' \in Seq(Messages)
            BY <2>1
        <3> HIDE DEF m
        <3> QED
            BY <3>1, <3>2
    <2>3. SetRuleComplete(m)
        BY <1>5 DEF HandleDecision
    <2> HIDE DEF m
    <2>4. /\ events' \in SUBSET Events
          /\ rule_status' \in [Rules -> Status]
          /\ rule_index' \in 0 .. RULES_COUNT
          /\ pass_events' \in SUBSET Events
          /\ \A r \in Rules : rule_status'[r] = "in_progress" =>
                rule_status[r] = "in_progress" /\ RuleMessage[r] # m
        BY <1>0, <2>3, SetRuleCompleteStatus
    <2>5. InProgressHasDecision'
        BY <1>0, <2>2, <2>4 DEF InProgressHasDecision
    <2>6. requeues' \in Nat /\ queued' \in SUBSET Messages /\ event_count' \in Nat
        BY <1>0, <1>5, <2>2 DEF HandleDecision, MayQueue, RulesTypeOK, m
    <2> QED
        BY <2>2, <2>4, <2>5, <2>6 DEF RulesInv, RulesTypeOK
<1>6. ASSUME NEW m \in Messages, HandleQueuedDecision(m) PROVE RulesInv'
    <2>1. /\ events' \in SUBSET Events
          /\ rule_status' \in [Rules -> Status]
          /\ rule_index' \in 0 .. RULES_COUNT
          /\ pass_events' \in SUBSET Events
          /\ \A r \in Rules : rule_status'[r] = "in_progress" => rule_status[r] = "in_progress"
        BY <1>0, <1>6, SetRuleCompleteStatus DEF HandleQueuedDecision
    <2>2. requeues' \in Nat /\ queued' \in SUBSET Messages
        BY <1>0, <1>6 DEF HandleQueuedDecision, MayQueue, RulesTypeOK
    <2> QED
        BY <1>0, <1>6, <2>1, <2>2 DEF HandleQueuedDecision, RulesInv, RulesTypeOK,
           InProgressHasDecision
<1>7. CASE UNCHANGED allRuleVars
    BY <1>0, <1>7 DEF allRuleVars, ruleVars, RulesInv, RulesTypeOK, InProgressHasDecision
<1> QED
    BY <1>1, <1>2, <1>3, <1>4, <1>5, <1>6, <1>7 DEF RulesNext

(* For every rules table, a rule in progress has its decision on the way   *)
(* (RulesEngine_RunRules, RulesEngine_UpdateRuleStatus).                   *)
THEOREM RulesAreCompleted == RulesSpec => []InProgressHasDecision
<1>1. RulesInv => InProgressHasDecision
    BY DEF RulesInv
<1> QED
    BY <1>1, RulesInvInit, RulesInvStep, PTL DEF RulesSpec

(* The types of the rule set's state, for every rules table. *)
THEOREM RulesTypes == RulesSpec => []RulesTypeOK
<1>1. RulesInv => RulesTypeOK
    BY DEF RulesInv
<1> QED
    BY <1>1, RulesInvInit, RulesInvStep, PTL DEF RulesSpec

----------------------------------------------------------------------------
(* Nothing is left waiting.  This is about tables in which one event       *)
(* triggers each rule, as in every table of the repository: with a rule of *)
(* two events, one of them stays set until the other one comes.            *)
OneEventEach == \A r \in Rules : \E e \in Events : RuleEvents[r] = {e}

Held(r) ==
    \E q \in Rules : RuleEvents[q] = RuleEvents[r] /\ rule_status[q] = "in_progress"

(* No event has only complete rules: the last one to complete clears it    *)
(* and makes all of them ready again.                                      *)
SomeRuleLeft ==
    \A r \in Rules : \E q \in Rules :
        RuleEvents[q] = RuleEvents[r] /\ rule_status[q] # "complete"

(* A pass leaves an event out only because a rule of it is in progress. *)
LeftOutIsHeld ==
    rule_index # 0 => \A r \in Rules :
        RuleEvents[r] \subseteq events /\ ~(RuleEvents[r] \subseteq pass_events) => Held(r)

(* A rule whose event is set and that has not been run is held back by one *)
(* in progress, or the pass has yet to come to it.                         *)
UndoneIsHeldOrAhead ==
    \A r \in Rules : RuleEvents[r] \subseteq events /\ rule_status[r] = "not_done" =>
        \/ Held(r)
        \/ rule_index # 0 /\ rule_index <= r /\ RuleEvents[r] \subseteq pass_events

WaitInv == RulesInv /\ SomeRuleLeft /\ LeftOutIsHeld /\ UndoneIsHeldOrAhead

(* With one event each, two rules have the same event or none in common. *)
LEMMA OneEventFacts ==
    ASSUME OneEventEach
    PROVE  /\ \A r, q \in Rules : RuleEvents[r] \cap RuleEvents[q] # {} => RuleEvents[r] = RuleEvents[q]
           /\ \A r \in Rules : \A S : RuleEvents[r] \cap S # {} <=> RuleEvents[r] \subseteq S
           /\ \A r \in Rules : \A S, T :
                RuleEvents[r] \subseteq S \ T <=> RuleEvents[r] \subseteq S /\ ~(RuleEvents[r] \subseteq T)
           /\ \A r \in Rules : RuleEvents[r] \subseteq Events
    BY DEF OneEventEach

(* What completing rules does to each rule: either its event has no        *)
(* incomplete rule left, is cleared, and its rules are ready again, or the *)
(* rules concerned become complete and one of the event's is left.         *)
LEMMA CompleteRulesEffect ==
    ASSUME OneEventEach, NEW message, NEW status, NEW event, CompleteRules(message, status, event)
    PROVE  \E cleared \in SUBSET Rules :
            /\ \A r, q \in Rules : RuleEvents[r] = RuleEvents[q] /\ r \in cleared => q \in cleared
            /\ \A r \in Rules :
                RuleEvents[r] \subseteq events' <=> RuleEvents[r] \subseteq events /\ r \notin cleared
            /\ \A r \in cleared :
                /\ rule_status'[r] = "not_done"
                /\ r \in Updated(message, status, event) \/ rule_status[r] = "complete"
            /\ \A r \in Rules \ cleared :
                IF r \in Updated(message, status, event)
                THEN /\ rule_status'[r] = "complete"
                     /\ \E q \in Rules : /\ RuleEvents[q] = RuleEvents[r]
                                         /\ q \notin Updated(message, status, event)
                                         /\ rule_status[q] # "complete"
                ELSE rule_status'[r] = rule_status[r]
<1> DEFINE updated == Updated(message, status, event)
           left == Incomplete(updated, event)
           retired == EventsOf(updated) \ EventsOf(left)
           cleared == {r \in Rules : RuleEvents[r] \subseteq retired}
<1>1. /\ events' = events \ retired
      /\ rule_status' = [r \in Rules |->
            IF RuleEvents[r] \cap retired # {} THEN "not_done" ELSE AfterUpdate(updated)[r]]
    BY DEF CompleteRules, ResetEvent
<1>2. \A r \in Rules : AfterUpdate(updated)[r] = IF r \in updated THEN "complete" ELSE rule_status[r]
    BY DEF AfterUpdate
<1>3. /\ updated \in SUBSET Rules
      /\ \A r \in updated : RuleEvents[r] \cap event # {}
    BY DEF Updated
<1>4. left = {r \in Rules : RuleEvents[r] \cap event # {} /\ AfterUpdate(updated)[r] # "complete"}
    BY DEF Incomplete
<1>5. ASSUME NEW r \in Rules, NEW S \in SUBSET Rules
      PROVE  RuleEvents[r] \subseteq EventsOf(S) <=> \E q \in S : RuleEvents[q] = RuleEvents[r]
    <2>1. PICK e \in Events : RuleEvents[r] = {e}
        BY DEF OneEventEach
    <2>2. \A q \in S : e \in RuleEvents[q] <=> RuleEvents[q] = RuleEvents[r]
        BY <2>1 DEF OneEventEach
    <2> QED
        BY <2>1, <2>2 DEF EventsOf
<1> HIDE DEF updated, left
<1>6. left \in SUBSET Rules
    BY <1>4
<1>7. \A r \in Rules : r \in cleared <=>
            /\ \E q \in updated : RuleEvents[q] = RuleEvents[r]
            /\ ~\E q \in left : RuleEvents[q] = RuleEvents[r]
    <2> SUFFICES ASSUME NEW r \in Rules
                 PROVE  RuleEvents[r] \subseteq retired <=>
                            /\ \E q \in updated : RuleEvents[q] = RuleEvents[r]
                            /\ ~\E q \in left : RuleEvents[q] = RuleEvents[r]
        OBVIOUS
    <2>1. /\ RuleEvents[r] \subseteq EventsOf(updated) <=>
                \E q \in updated : RuleEvents[q] = RuleEvents[r]
          /\ RuleEvents[r] \subseteq EventsOf(left) <=>
                \E q \in left : RuleEvents[q] = RuleEvents[r]
        BY <1>3, <1>5, <1>6
    <2>2. RuleEvents[r] \subseteq retired <=>
            RuleEvents[r] \subseteq EventsOf(updated) /\ ~(RuleEvents[r] \subseteq EventsOf(left))
        BY OneEventFacts
    <2> QED
        BY <2>1, <2>2
<1>8. \A r \in Rules : RuleEvents[r] \cap retired # {} <=> r \in cleared
    BY OneEventFacts
<1>9. \A r \in Rules :
        RuleEvents[r] \subseteq events' <=> RuleEvents[r] \subseteq events /\ r \notin cleared
    BY <1>1, OneEventFacts
<1> HIDE DEF retired, cleared
<1>10. ASSUME NEW r \in Rules, r \in cleared
       PROVE  rule_status'[r] = "not_done" /\ (r \in updated \/ rule_status[r] = "complete")
    <2>1. RuleEvents[r] \cap event # {} /\ r \notin left
        BY <1>3, <1>7, <1>10
    <2> QED
        BY <1>1, <1>2, <1>4, <1>8, <1>10, <2>1
<1>11. ASSUME NEW r \in Rules, r \notin cleared
       PROVE  IF r \in updated
              THEN /\ rule_status'[r] = "complete"
                   /\ \E q \in Rules : /\ RuleEvents[q] = RuleEvents[r]
                                       /\ q \notin updated /\ rule_status[q] # "complete"
              ELSE rule_status'[r] = rule_status[r]
    <2>1. rule_status'[r] = IF r \in updated THEN "complete" ELSE rule_status[r]
        BY <1>1, <1>2, <1>8, <1>11
    <2>2. ASSUME r \in updated
          PROVE  \E q \in Rules : /\ RuleEvents[q] = RuleEvents[r]
                                  /\ q \notin updated /\ rule_status[q] # "complete"
        BY <1>2, <1>4, <1>7, <1>11, <2>2
    <2> QED
        BY <2>1, <2>2
<1>12. /\ cleared \in SUBSET Rules
       /\ \A r, q \in Rules : RuleEvents[r] = RuleEvents[q] /\ r \in cleared => q \in cleared
    BY DEF cleared
<1> QED
    BY <1>9, <1>10, <1>11, <1>12 DEF updated

(* Completing rules leaves a rule of every event, and takes no rule out of *)
(* progress but those it completes.                                        *)
LEMMA CompletingLeavesARule ==
    ASSUME OneEventEach, SomeRuleLeft, NEW message, NEW status, NEW event,
           CompleteRules(message, status, event)
    PROVE  SomeRuleLeft'
<1>1. PICK cleared \in SUBSET Rules :
            /\ \A r, q \in Rules : RuleEvents[r] = RuleEvents[q] /\ r \in cleared => q \in cleared
            /\ \A r \in cleared : rule_status'[r] = "not_done"
            /\ \A r \in Rules \ cleared :
                IF r \in Updated(message, status, event)
                THEN \E q \in Rules : /\ RuleEvents[q] = RuleEvents[r]
                                      /\ q \notin Updated(message, status, event)
                                      /\ rule_status[q] # "complete"
                ELSE rule_status'[r] = rule_status[r]
    BY CompleteRulesEffect
<1> DEFINE updated == Updated(message, status, event)
<1> SUFFICES ASSUME NEW r \in Rules
             PROVE  \E q \in Rules : RuleEvents[q] = RuleEvents[r] /\ rule_status'[q] # "complete"
    BY DEF SomeRuleLeft
<1>2. CASE r \in cleared
    BY <1>1, <1>2
<1>3. CASE r \notin cleared
    <2>1. \E q \in Rules : /\ RuleEvents[q] = RuleEvents[r]
                           /\ q \notin updated /\ rule_status[q] # "complete"
        <3>1. PICK q \in Rules : RuleEvents[q] = RuleEvents[r] /\ rule_status[q] # "complete"
            BY DEF SomeRuleLeft
        <3>2. q \notin cleared
            BY <1>1, <1>3, <3>1
        <3> QED
            BY <1>1, <3>1, <3>2
    <2>2. PICK q \in Rules : /\ RuleEvents[q] = RuleEvents[r]
                             /\ q \notin updated /\ rule_status[q] # "complete"
        BY <2>1
    <2>3. q \notin cleared
        BY <1>1, <1>3, <2>2
    <2>4. rule_status'[q] = rule_status[q]
        BY <1>1, <2>2, <2>3
    <2> QED
        BY <2>2, <2>4
<1> QED
    BY <1>2, <1>3

(* A pass that starts has every rule ahead of it. *)
LEMMA PassStarts ==
    ASSUME StartPass
    PROVE  LeftOutIsHeld' /\ UndoneIsHeldOrAhead'
<1>1. \A r \in Rules : 1 <= r
    BY DEF Rules
<1> QED
    BY <1>1 DEF StartPass, LeftOutIsHeld, UndoneIsHeldOrAhead

(* The rule that a pass leaves behind is one it has dealt with. *)
LEMMA PassGoesOn ==
    ASSUME RulesTypeOK, NextRule, rule_index # 0, NEW r \in Rules, rule_index <= r, r # rule_index
    PROVE  rule_index' # 0 /\ rule_index' <= r
<1>1. rule_index \in 0 .. RULES_COUNT /\ RULES_COUNT \in Nat
    BY RuleTableAssumption DEF RulesTypeOK
<1> QED
    BY <1>1 DEF NextRule, Rules

(* The invariant holds for a fresh rule set. *)
LEMMA WaitInvInit == RulesInit => WaitInv
<1> SUFFICES ASSUME RulesInit PROVE WaitInv
    OBVIOUS
<1>1. \A r \in Rules : rule_status[r] = "not_done"
    BY DEF RulesInit, RuleSetInit
<1>2. events = {} /\ rule_index = 0
    BY DEF RulesInit, RuleSetInit
<1>3. SomeRuleLeft
    BY <1>1 DEF SomeRuleLeft
<1>4. UndoneIsHeldOrAhead /\ LeftOutIsHeld
    BY <1>2, RuleTableAssumption DEF UndoneIsHeldOrAhead, LeftOutIsHeld
<1> QED
    BY <1>3, <1>4, RulesInvInit DEF WaitInv

(* A turn of the loop that puts no event back and only deals with the rule *)
(* it is at.                                                               *)
LEMMA TurnInv ==
    ASSUME WaitInv, NextRule, NEW i \in Rules, i = rule_index, events' = events,
           \A r \in Rules : r # i => rule_status'[r] = rule_status[r],
           rule_status'[i] # "complete" \/ rule_status' = rule_status,
           rule_status[i] = "in_progress" => rule_status' = rule_status,
           \/ pass_events' = pass_events
           \/ pass_events' = pass_events \ RuleEvents[i] /\ Held(i)',
           \/ rule_status'[i] # "not_done"
           \/ RuleEvents[i] \subseteq events => Held(i)',
           OneEventEach
    PROVE  SomeRuleLeft' /\ LeftOutIsHeld' /\ UndoneIsHeldOrAhead'
<1>0. RulesTypeOK /\ rule_index # 0
    BY DEF WaitInv, RulesInv, Rules
<1>1. \A r \in Rules : Held(r) => Held(r)'
    BY <1>0 DEF Held
<1>2. SomeRuleLeft'
    <2> SUFFICES ASSUME NEW r \in Rules
                 PROVE  \E q \in Rules : RuleEvents[q] = RuleEvents[r] /\ rule_status'[q] # "complete"
        BY DEF SomeRuleLeft
    <2>1. PICK q \in Rules : RuleEvents[q] = RuleEvents[r] /\ rule_status[q] # "complete"
        BY DEF WaitInv, SomeRuleLeft
    <2> QED
        BY <2>1
<1>3. ASSUME NEW r \in Rules, RuleEvents[r] \subseteq pass_events,
             ~(RuleEvents[r] \subseteq pass_events')
      PROVE  Held(r)'
    <2>1. pass_events' = pass_events \ RuleEvents[i] /\ Held(i)'
        BY <1>3
    <2>2. RuleEvents[r] = RuleEvents[i]
        BY <1>0, <1>3, <2>1, OneEventFacts
    <2> QED
        BY <2>1, <2>2 DEF Held
<1>4. LeftOutIsHeld'
    BY <1>0, <1>1, <1>3 DEF WaitInv, LeftOutIsHeld
<1>5. UndoneIsHeldOrAhead'
    <2> SUFFICES ASSUME NEW r \in Rules, RuleEvents[r] \subseteq events', rule_status'[r] = "not_done"
                 PROVE  \/ Held(r)'
                        \/ rule_index' # 0 /\ rule_index' <= r /\ RuleEvents[r] \subseteq pass_events'
        BY DEF UndoneIsHeldOrAhead
    <2>1. CASE r = i
        BY <2>1
    <2>2. CASE r # i
        <3>1. Held(r) \/ (rule_index <= r /\ RuleEvents[r] \subseteq pass_events)
            BY <2>2 DEF WaitInv, UndoneIsHeldOrAhead
        <3> QED
            BY <1>0, <1>1, <1>3, <2>2, <3>1, PassGoesOn
    <2> QED
        BY <2>1, <2>2
<1> QED
    BY <1>2, <1>4, <1>5

(* A rule that is ignored takes the rules like it with it, and maybe its   *)
(* event.                                                                  *)
LEMMA IgnoredInv ==
    ASSUME WaitInv, RuleIgnored, OneEventEach
    PROVE  SomeRuleLeft' /\ LeftOutIsHeld' /\ UndoneIsHeldOrAhead'
<1> DEFINE m == RuleMessage[rule_index]
           status == rule_status[rule_index]
           updated == Updated(m, status, RuleEvents[rule_index])
<1>0. RulesTypeOK /\ rule_index \in Rules /\ rule_index # 0 /\ NextRule
      /\ status \in {"not_done", "deferred"} /\ UNCHANGED pass_events
    BY RuleTableAssumption DEF WaitInv, RulesInv, RulesTypeOK, Rules, RuleIgnored, Evaluated
<1>1. SomeRuleLeft'
    BY CompletingLeavesARule DEF WaitInv, RuleIgnored
<1>2. rule_index \in updated
    <2>1. RuleEvents[rule_index] \cap RuleEvents[rule_index] # {}
        BY <1>0, RuleTableAssumption
    <2> QED
        BY <1>0, <2>1 DEF Updated
<1>3. \A r \in updated : rule_status[r] # "in_progress"
    BY <1>0 DEF Updated
<1>4. PICK cleared \in SUBSET Rules :
            /\ \A r, q \in Rules : RuleEvents[r] = RuleEvents[q] /\ r \in cleared => q \in cleared
            /\ \A r \in Rules :
                RuleEvents[r] \subseteq events' <=> RuleEvents[r] \subseteq events /\ r \notin cleared
            /\ \A r \in Rules \ cleared :
                rule_status'[r] = IF r \in updated THEN "complete" ELSE rule_status[r]
    <2>1. CompleteRules(m, status, RuleEvents[rule_index])
        BY DEF RuleIgnored
    <2> QED
        BY <2>1, CompleteRulesEffect
<1> HIDE DEF updated, status, m
<1>5. ASSUME NEW r \in Rules \ cleared, Held(r) PROVE Held(r)'
    <2>1. PICK q \in Rules : RuleEvents[q] = RuleEvents[r] /\ rule_status[q] = "in_progress"
        BY <1>5 DEF Held
    <2>2. q \notin cleared /\ q \notin updated
        BY <1>3, <1>4, <1>5, <2>1
    <2> QED
        BY <1>4, <2>1, <2>2 DEF Held
<1>6. LeftOutIsHeld'
    BY <1>0, <1>4, <1>5 DEF WaitInv, LeftOutIsHeld
<1>7. UndoneIsHeldOrAhead'
    <2> SUFFICES ASSUME NEW r \in Rules, RuleEvents[r] \subseteq events', rule_status'[r] = "not_done"
                 PROVE  \/ Held(r)'
                        \/ rule_index' # 0 /\ rule_index' <= r /\ RuleEvents[r] \subseteq pass_events'
        BY DEF UndoneIsHeldOrAhead
    <2>1. r \notin cleared /\ RuleEvents[r] \subseteq events
        BY <1>4
    <2>2. r \notin updated /\ rule_status[r] = "not_done"
        BY <1>4, <2>1
    <2>3. r # rule_index
        BY <1>2, <2>2
    <2>4. Held(r) \/ (rule_index <= r /\ RuleEvents[r] \subseteq pass_events)
        BY <2>1, <2>2 DEF WaitInv, UndoneIsHeldOrAhead
    <2> QED
        BY <1>0, <1>5, <2>1, <2>3, <2>4, PassGoesOn
<1> QED
    BY <1>1, <1>6, <1>7

(* Every step of the rule engine and its users keeps the invariant. *)
LEMMA WaitInvStep == ASSUME OneEventEach, WaitInv, [RulesNext]_allRuleVars PROVE WaitInv'
<1>0. RulesTypeOK /\ RulesInv'
    BY RulesInvStep DEF WaitInv, RulesInv
<1>1. CASE \E event \in Events : TopologySetsEvent(event)
    BY <1>0, <1>1, PassStarts DEF TopologySetsEvent, SetEvent, WaitInv, SomeRuleLeft
<1>2. ASSUME NEW event \in Events, TopologyResetsEvent(event) PROVE WaitInv'
    <2>1. /\ events' = events \ {event} /\ rule_index = 0 /\ rule_index' = 0
          /\ \A r \in Rules : rule_status'[r] =
                IF RuleEvents[r] \cap {event} # {} THEN "not_done" ELSE rule_status[r]
        BY <1>2 DEF TopologyResetsEvent, ResetEvent, EngineIdle
    <2>2. \A r \in Rules : RuleEvents[r] \cap {event} # {} <=> RuleEvents[r] = {event}
        BY DEF OneEventEach
    <2>3. \A r \in Rules : RuleEvents[r] \subseteq events' <=>
            RuleEvents[r] \subseteq events /\ RuleEvents[r] # {event}
        BY <2>1 DEF OneEventEach
    <2>4. SomeRuleLeft'
        <3> SUFFICES ASSUME NEW r \in Rules
                     PROVE  \E q \in Rules : RuleEvents[q] = RuleEvents[r] /\ rule_status'[q] # "complete"
            BY DEF SomeRuleLeft
        <3>1. PICK q \in Rules : RuleEvents[q] = RuleEvents[r] /\ rule_status[q] # "complete"
            BY DEF WaitInv, SomeRuleLeft
        <3> QED
            BY <2>1, <3>1
    <2>5. \A r \in Rules : RuleEvents[r] # {event} /\ Held(r) => Held(r)'
        BY <2>1, <2>2 DEF Held
    <2>6. UndoneIsHeldOrAhead' /\ LeftOutIsHeld'
        BY <2>1, <2>2, <2>3, <2>5 DEF WaitInv, UndoneIsHeldOrAhead, LeftOutIsHeld
    <2> QED
        BY <1>0, <2>4, <2>6 DEF WaitInv
<1>3. CASE Rule
    <2>1. PICK i \in Rules : i = rule_index
        BY <1>0, <1>3, RuleTableAssumption DEF Rule, SkipRule, HoldEvents, RuleRuns, RuleIgnored,
           Evaluated, RulesTypeOK, Rules
    <2>2. CASE SkipRule
        <3>1. NextRule /\ UNCHANGED <<events, rule_status, pass_events>>
            BY <2>1, <2>2 DEF SkipRule
        <3>2. \A r \in Rules : Held(r)' <=> Held(r)
            BY <3>1 DEF Held
        <3>3. ASSUME rule_status[i] = "not_done", RuleEvents[i] \subseteq events
              PROVE  Held(i)'
            BY <2>1, <2>2, <3>1, <3>2, <3>3 DEF SkipRule, Matches, WaitInv, LeftOutIsHeld
        <3> QED
            BY <1>0, <2>1, <3>1, <3>3, TurnInv DEF WaitInv
    <2>3. CASE HoldEvents
        <3>1. /\ NextRule /\ UNCHANGED <<events, rule_status>>
              /\ pass_events' = pass_events \ RuleEvents[i]
              /\ rule_status'[i] = "in_progress"
            BY <2>1, <2>3 DEF HoldEvents
        <3>2. Held(i)'
            BY <2>1, <3>1 DEF Held
        <3> QED
            BY <1>0, <2>1, <3>1, <3>2, TurnInv DEF WaitInv
    <2>4. CASE RuleRuns
        <3>1. /\ NextRule /\ UNCHANGED events
              /\ pass_events' = pass_events \ RuleEvents[i]
              /\ rule_status[i] # "in_progress"
              /\ rule_status' = [rule_status EXCEPT ![i] = "in_progress"]
            BY <2>1, <2>4 DEF RuleRuns, Evaluated
        <3>2. /\ rule_status'[i] = "in_progress"
              /\ \A r \in Rules : r # i => rule_status'[r] = rule_status[r]
            BY <1>0, <2>1, <3>1 DEF RulesTypeOK
        <3>3. Held(i)'
            BY <2>1, <3>2 DEF Held
        <3> QED
            BY <1>0, <2>1, <3>1, <3>2, <3>3, TurnInv DEF WaitInv
    <2>5. CASE RuleIgnored
        BY <1>0, <2>5, IgnoredInv DEF WaitInv
    <2> QED
        BY <1>3, <2>2, <2>3, <2>4, <2>5 DEF Rule
<1>4. CASE DeferRule
    <2>0. PICK i \in Rules : i = rule_index
        BY <1>0, <1>4, RuleTableAssumption DEF DeferRule, RuleDeferred, Evaluated, RulesTypeOK, Rules
    <2>1. /\ NextRule /\ UNCHANGED <<events, pass_events>>
          /\ rule_status[i] # "in_progress"
          /\ rule_status' = [rule_status EXCEPT ![i] = "deferred"]
        BY <1>4, <2>0 DEF DeferRule, RuleDeferred, Evaluated
    <2>2. /\ rule_status'[i] = "deferred"
          /\ \A r \in Rules : r # i => rule_status'[r] = rule_status[r]
        BY <1>0, <2>0, <2>1 DEF RulesTypeOK
    <2> QED
        BY <1>0, <2>0, <2>1, <2>2, TurnInv DEF WaitInv
<1>5. ASSUME NEW message, SetRuleComplete(message) PROVE WaitInv'
    BY <1>0, <1>5, CompletingLeavesARule, PassStarts DEF SetRuleComplete, WaitInv
<1>6. CASE HandleDecision \/ \E message \in Messages : HandleQueuedDecision(message)
    BY <1>5, <1>6 DEF HandleDecision, HandleQueuedDecision
<1>7. CASE UNCHANGED allRuleVars
    <2>1. UNCHANGED <<events, rule_status, rule_index, pass_events>>
        BY <1>7 DEF allRuleVars, ruleVars
    <2>2. \A r \in Rules : Held(r)' <=> Held(r)
        BY <2>1 DEF Held
    <2> QED
        BY <1>0, <2>1, <2>2 DEF WaitInv, SomeRuleLeft, LeftOutIsHeld, UndoneIsHeldOrAhead
<1> QED
    BY <1>1, <1>2, <1>3, <1>4, <1>6, <1>7 DEF RulesNext

(* When the engine is at rest, an event that is still set waits for a rule *)
(* that deferred, and for nothing else: no rule is forgotten that a rule   *)
(* in progress held back (RulesEngine_RunRules).                           *)
THEOREM OnlyDeferredRulesAreLeft ==
    ASSUME OneEventEach
    PROVE  RulesSpec => []OnlyDeferredRulesWait
<1>1. ASSUME WaitInv PROVE OnlyDeferredRulesWait
    <2> SUFFICES ASSUME AtRest, NEW e \in events
                 PROVE  LET rules == {r \in Rules : e \in RuleEvents[r]
                                                    /\ RuleEvents[r] \subseteq events} IN
                        /\ \A r \in rules : rule_status[r] \in {"complete", "deferred"}
                        /\ rules # {} => \E r \in rules : rule_status[r] = "deferred"
        BY DEF OnlyDeferredRulesWait
    <2>1. \A r \in Rules : rule_status[r] # "in_progress"
        BY <1>1 DEF WaitInv, RulesInv, InProgressHasDecision, AtRest
    <2>2. \A r \in Rules : ~Held(r)
        BY <2>1 DEF Held
    <2>3. \A r \in Rules : RuleEvents[r] \subseteq events => rule_status[r] \in {"complete", "deferred"}
        BY <1>1, <2>1, <2>2 DEF WaitInv, RulesInv, RulesTypeOK, Status, UndoneIsHeldOrAhead, AtRest, EngineIdle
    <2>4. \A r \in Rules : RuleEvents[r] \subseteq events =>
            \E q \in Rules : RuleEvents[q] = RuleEvents[r] /\ rule_status[q] = "deferred"
        BY <1>1, <2>3 DEF WaitInv, SomeRuleLeft
    <2> QED
        BY <2>3, <2>4
<1>2. RulesInit => WaitInv
    BY WaitInvInit
<1>3. WaitInv /\ [RulesNext]_allRuleVars => WaitInv'
    BY WaitInvStep
<1> QED
    BY <1>1, <1>2, <1>3, PTL DEF RulesSpec
=============================================================================
