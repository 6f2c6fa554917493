---------------------------- MODULE PowerProofs -----------------------------
(***************************************************************************)
(* Proofs about EarbudPower, for any clients and any order in which they   *)
(* register, and without the bound on the queue that TLC needs.            *)
(*                                                                         *)
(* PowerInv is the inductive invariant.  Its core relates three things     *)
(* that change at different times: whom the manager waits for, what is     *)
(* still queued for the application, and what the application is doing.    *)
(***************************************************************************)
EXTENDS EarbudPower, QueueProofs

Messages == [to : Clients \cup {"power"}, id : MessageIds]

(* What is queued for a client, how often, and in which order. *)
Has(q, c, id) == Queued(Msg(c, id), q)
Single(q, c, id) == Once(Msg(c, id), q)
Before(q, c, id, jd) == Ahead(Msg(c, id), Msg(c, jd), q)

Tidings == {"shutdown_cancelled", "sleep_cancelled"}
Prepares == {"shutdown_prepare", "sleep_prepare"}

NoneCancelled == \A id \in Tidings : ~Has(messages, SM, id)
NoneUnread == \A id \in Prepares : ~Has(messages, SM, id)

(* How far the initialisation is, and what cannot have happened before. *)
InitInv ==
    /\ state = "init" => registered = 0
    /\ init_complete => registered = Len(Order)
    /\ system = "active" => init_complete
    /\ Has(messages, SM, "init_cfm") => init_complete /\ system # "initialising"
    /\ state \in {"soporific_notified", "soporific_responded"} => init_complete
    /\ sm # "initialising" => SM \in clients
    /\ \A c \in Clients, id \in PowerInds : Has(messages, c, id) => c \in clients

DownInv ==
    /\ state = "terminating_responded" => device # "on"
    /\ device = "off" => state = "terminating_responded"
    /\ device = "dormant" => state = "soporific_responded"

(* The idle timer runs, or its message is queued once, or neither. *)
IdleInv ==
    /\ idle_timer => sm = "idle" /\ ~Has(messages, SM, "idle_timeout")
    /\ Has(messages, SM, "idle_timeout") => sm = "idle"
    /\ Single(messages, SM, "idle_timeout")
    /\ device # "idle timeout"

SleepInv ==
    /\ SM \in allow_sleep <=> StateIsSleepy(sm)
    /\ state = "ok" /\ MaySleep(allow_sleep, init_complete) =>
          Has(messages, "power", "report") \/ \E id \in PowerInds : Has(messages, SM, id)

(* A client that answers what it reads is asked once, and is waited for    *)
(* until it has read it.                                                   *)
AskedInv ==
    \A c \in Clients \ Ui :
        /\ Has(messages, c, "shutdown_prepare") => c \in shutdown_pending
        /\ Has(messages, c, "sleep_prepare") => c \in sleep_pending
        /\ \A id \in Prepares : Single(messages, c, id)

(* A cancellation the application has not read belongs to what it prepares *)
(* for, and is read before the next request.                               *)
CancelInv ==
    /\ \A id \in Tidings : Single(messages, SM, id)
    /\ Has(messages, SM, "shutdown_cancelled") =>
          sm = "terminating" /\ ~Has(messages, SM, "sleep_cancelled")
    /\ Has(messages, SM, "sleep_cancelled") => sm = "soporific_terminating"
    /\ ~NoneCancelled => state = "ok" \/ ~NoneUnread
    /\ \A id \in Tidings, jd \in Prepares : Before(messages, SM, id, jd)

(* What the application prepares for is what the manager asked for, unless *)
(* it has not read yet what the manager said last.                         *)
TermInv ==
    /\ SM \in shutdown_pending /\ ~Has(messages, SM, "shutdown_prepare") =>
          sm = "terminating" /\ NoneCancelled
    /\ SM \in sleep_pending /\ ~Has(messages, SM, "sleep_prepare") =>
          sm = "soporific_terminating" /\ NoneCancelled
    /\ sm = "terminating" /\ NoneCancelled =>
          state \in {"terminating_notified", "terminating_responded"} /\ NoneUnread
    /\ sm = "soporific_terminating" /\ NoneCancelled =>
          state \in {"soporific_notified", "soporific_responded"} /\ NoneUnread
    /\ /\ state \in {"terminating_notified", "terminating_responded"}
       /\ SM \in clients \ shutdown_pending
       => sm = "terminating" /\ NoneCancelled
    /\ /\ state \in {"soporific_notified", "soporific_responded"}
       /\ SM \in clients \ sleep_pending
       => sm = "soporific_terminating" /\ NoneCancelled

(* The topology is stopped, once, while the manager waits for the          *)
(* application.                                                            *)
StopInv ==
    /\ "stop" \in topology \/ Has(messages, SM, "stop_cfm") =>
          /\ SM \in shutdown_pending \cup sleep_pending
          /\ SubStateIsTerminating(sm)
          /\ NoneCancelled /\ NoneUnread
    /\ Single(messages, SM, "stop_cfm")
    /\ ~("stop" \in topology /\ Has(messages, SM, "stop_cfm"))

(* If the application prepares for sleep before it has read that it may    *)
(* start, it reads that before it answers.                                 *)
ConfirmInv ==
    /\ Has(messages, SM, "init_cfm") /\ sm = "soporific_terminating" =>
          SM \in sleep_pending /\ Before(messages, SM, "init_cfm", "stop_cfm")
    /\ system = "initialising" => sm # "soporific_terminating"

PowerInv ==
    /\ TypeOK /\ PendingOnlyWhileNotified /\ InitInv /\ DownInv /\ IdleInv /\ SleepInv
    /\ AskedInv /\ CancelInv /\ TermInv /\ StopInv /\ ConfirmInv

----------------------------------------------------------------------------
(* The queue. *)

(* Messages differ in their task or their name. *)
LEMMA MsgEqual ==
    ASSUME NEW c, NEW id, NEW d, NEW jd
    PROVE  Msg(c, id) = Msg(d, jd) <=> c = d /\ id = jd
    BY DEF Msg

(* A message is sent to one task. *)
Sent(q, r, task, ind) ==
    /\ r \in Seq(Messages)
    /\ \A c, id : Has(r, c, id) <=> Has(q, c, id) \/ (c = task /\ id = ind)
    /\ \A c, id : Single(q, c, id) /\ ~(c = task /\ id = ind /\ Has(q, c, id))
                    => Single(r, c, id)
    /\ \A c, id, jd : /\ Before(q, c, id, jd) /\ id # jd
                      /\ ~(c = task /\ id = ind /\ Has(q, c, jd))
                      => Before(r, c, id, jd)

(* Sending a message appends it and adds nothing else. *)
LEMMA AppendMsg ==
    ASSUME NEW q \in Seq(Messages), NEW task \in Clients \cup {"power"}, NEW ind \in MessageIds
    PROVE  Sent(q, Append(q, Msg(task, ind)), task, ind)
<1> DEFINE r == Append(q, Msg(task, ind))
<1>1. Msg(task, ind) \in Messages
    BY DEF Msg, Messages
<1>2. /\ r \in Seq(Messages)
      /\ \A m : Queued(m, r) <=> Queued(m, q) \/ m = Msg(task, ind)
      /\ \A m : Once(m, q) /\ ~(m = Msg(task, ind) /\ Queued(m, q)) => Once(m, r)
      /\ \A m, n : Ahead(m, n, q) /\ m # n /\ ~(m = Msg(task, ind) /\ Queued(n, q))
                            => Ahead(m, n, r)
    BY <1>1, AppendQueue
<1> HIDE DEF r
<1>3. Sent(q, r, task, ind)
    BY <1>2, MsgEqual DEF Sent, Has, Single, Before
<1> QED
    BY <1>3 DEF r

(* What is left of the queue when the first message, (task, ind), was read *)
(* and perhaps the idle timeout was cancelled.                             *)
Consumed(q, r, task, ind) ==
    /\ r \in Seq(Messages)
    /\ \A c, id : Has(r, c, id) => Has(q, c, id)
    /\ \A c, id : Has(q, c, id) =>
            Has(r, c, id) \/ (c = task /\ id = ind) \/ (c = SM /\ id = "idle_timeout")
    /\ Has(q, task, ind)
    /\ \A c, id : Single(q, c, id) => Single(r, c, id)
    /\ \A c, id, jd : Before(q, c, id, jd) => Before(r, c, id, jd)
    /\ Single(q, task, ind) => ~Has(r, task, ind)
    /\ \A id : Before(q, task, id, ind) => ~Has(q, task, id)

(* Handling the first message takes it off the queue and adds nothing. *)
LEMMA TailMsg ==
    ASSUME NEW q \in Seq(Messages), q # <<>>, NEW task, NEW ind, Head(q) = Msg(task, ind)
    PROVE  Consumed(q, Tail(q), task, ind)
<1>1. /\ Tail(q) \in Seq(Messages)
      /\ Queued(Head(q), q)
      /\ \A m : Queued(m, Tail(q)) => Queued(m, q)
      /\ \A m : Queued(m, q) => Queued(m, Tail(q)) \/ m = Head(q)
      /\ \A m : Once(m, q) => Once(m, Tail(q)) /\ ~(m = Head(q) /\ Queued(m, Tail(q)))
      /\ \A m, n : Ahead(m, n, q) =>
                Ahead(m, n, Tail(q)) /\ (Head(q) = n => ~Queued(m, q))
    BY TailQueue
<1> QED
    BY <1>1, MsgEqual DEF Consumed, Has, Single, Before

(* appExitOutOfCaseIdle *)
LEMMA TimeoutMsg ==
    ASSUME NEW q, NEW r \in Seq(Messages), NEW task, NEW ind, Consumed(q, r, task, ind)
    PROVE  /\ Consumed(q, WithoutIdleTimeout(r), task, ind)
           /\ Single(q, SM, "idle_timeout") => ~Has(WithoutIdleTimeout(r), SM, "idle_timeout")
<1> DEFINE w == WithoutIdleTimeout(r)
           a == Msg(SM, "idle_timeout")
<1>1. /\ w \in Seq(Messages)
      /\ \A m : Queued(m, w) => Queued(m, r)
      /\ \A m : m # a /\ Queued(m, r) => Queued(m, w)
      /\ Once(a, r) => ~Queued(a, w)
      /\ \A m : Once(m, r) => Once(m, w)
      /\ \A m, n : Ahead(m, n, r) => Ahead(m, n, w)
    BY RemoveFirstQueue DEF WithoutIdleTimeout
<1> HIDE DEF w
<1> QED
    BY <1>1, MsgEqual DEF Consumed, Has, Single, Before, w

(* An indication is sent to every client. *)
SentToAll(q, r, ind) ==
    /\ r \in Seq(Messages)
    /\ \A c, id : Has(r, c, id) <=> Has(q, c, id) \/ (c \in clients /\ id = ind)
    /\ \A c, id : Single(q, c, id) /\ ~(id = ind /\ Has(q, c, id)) => Single(r, c, id)
    /\ \A c, id, jd : /\ Before(q, c, id, jd) /\ id # jd
                      /\ ~(id = ind /\ Has(q, c, jd))
                      => Before(r, c, id, jd)

(* A multicast puts its message in the queue for every registered client   *)
(* and adds nothing else.                                                  *)
LEMMA MulticastMsg ==
    ASSUME NEW q \in Seq(Messages), registered \in 0 .. Len(Order), NEW ind \in MessageIds
    PROVE  SentToAll(q, Multicast(q, ind), ind)
<1> DEFINE r == Multicast(q, ind)
<1> DEFINE t == [i \in 1 .. registered |-> Msg(Order[i], ind)]
<1>1. /\ registered \in Nat /\ 1 .. registered \subseteq DOMAIN Order
      /\ \A i, j \in DOMAIN Order : Order[i] = Order[j] => i = j
      /\ \A i \in DOMAIN Order : Order[i] \in Clients
    BY PowerAssumption DEF Clients
<1>2. t \in Seq(Messages) /\ DOMAIN t = 1 .. registered
    <2>1. \A i \in 1 .. registered : Msg(Order[i], ind) \in Messages
        BY <1>1 DEF Msg, Messages
    <2> QED
        BY <1>1, <2>1
<1>3. \A i \in DOMAIN t : t[i] = Msg(Order[i], ind)
    BY <1>2
<1> HIDE DEF t
<1>4. \A c, id : Queued(Msg(c, id), t) <=> c \in clients /\ id = ind
    BY <1>2, <1>3, MsgEqual DEF Queued, clients
<1>5. \A c, id : Once(Msg(c, id), t)
    BY <1>1, <1>2, <1>3, MsgEqual DEF Once
<1>6. \A c, id, jd : id # jd => Ahead(Msg(c, id), Msg(c, jd), t)
    BY <1>1, <1>2, <1>3, MsgEqual DEF Ahead
<1>7. /\ r \in Seq(Messages)
      /\ \A m : Queued(m, r) <=> Queued(m, q) \/ Queued(m, t)
      /\ \A m : Once(m, q) /\ Once(m, t) /\ ~(Queued(m, q) /\ Queued(m, t)) => Once(m, r)
      /\ \A m, n : Ahead(m, n, q) /\ Ahead(m, n, t) /\ ~(Queued(n, q) /\ Queued(m, t))
                        => Ahead(m, n, r)
    <2>1. r = q \o t
        BY DEF Multicast, t
    <2> HIDE DEF r
    <2> QED
        BY <1>2, <2>1, ConcatQueue
<1> HIDE DEF r
<1>8. \A c, id : Has(r, c, id) <=> Has(q, c, id) \/ (c \in clients /\ id = ind)
    BY <1>4, <1>7 DEF Has
<1>9. \A c, id : Single(q, c, id) /\ ~(id = ind /\ Has(q, c, id)) => Single(r, c, id)
    BY <1>4, <1>5, <1>7 DEF Has, Single
<1>10. \A c, id, jd : Before(q, c, id, jd) /\ id # jd /\ ~(id = ind /\ Has(q, c, jd))
                        => Before(r, c, id, jd)
    BY <1>4, <1>6, <1>7 DEF Has, Before
<1> QED
    BY <1>7, <1>8, <1>9, <1>10 DEF SentToAll, r
----------------------------------------------------------------------------
(* The clients. *)

LEMMA ClientFacts ==
    /\ SM \in Clients \ Ui /\ Ui \subseteq Clients
    /\ Prompt \subseteq Clients \ (Ui \cup {SM})
    /\ "power" \notin Clients
    BY PowerAssumption, EarbudAssumption DEF Clients

(* A number below the bound of its interval is not the bound. *)
LEMMA AtMost ==
    ASSUME NEW n \in Nat, NEW k \in 0 .. n, k # n
    PROVE  k < n /\ \A i \in 1 .. k : i # n
    OBVIOUS

(* The registered clients are a prefix of the order in which the modules   *)
(* initialise.                                                             *)
LEMMA RegisteredFacts ==
    ASSUME registered \in 0 .. Len(Order)
    PROVE  /\ clients \subseteq Clients
           /\ registered = 0 <=> clients = {}
           /\ registered = Len(Order) <=> clients = Clients
<1>1. /\ Len(Order) \in Nat \ {0} /\ DOMAIN Order = 1 .. Len(Order)
      /\ \A i, j \in DOMAIN Order : Order[i] = Order[j] => i = j
    BY PowerAssumption
<1>2. clients \subseteq Clients
    BY <1>1 DEF clients, Clients
<1>3. registered = 0 <=> clients = {}
    <2>1. registered = 0 => clients = {}
        BY DEF clients
    <2>2. registered # 0 => 1 \in 1 .. registered
        BY <1>1
    <2> QED
        BY <2>1, <2>2 DEF clients
<1>4. registered = Len(Order) => clients = Clients
    BY <1>1 DEF clients, Clients
<1>5. ASSUME registered # Len(Order) PROVE clients # Clients
    <2>1. Len(Order) \in DOMAIN Order /\ \A i \in 1 .. registered : i \in DOMAIN Order
        BY <1>1
    <2>2. \A i \in 1 .. registered : i # Len(Order)
        BY <1>1, <1>5, AtMost
    <2>3. \A i \in 1 .. registered : Order[i] # Order[Len(Order)]
        BY <1>1, <2>1, <2>2
    <2> QED
        BY <2>1, <2>3, SMTT(30) DEF clients, Clients
<1> QED
    BY <1>2, <1>3, <1>4, <1>5

(* The invariant holds when the device starts. *)
LEMMA InitPower == Init => PowerInv
<1> SUFFICES ASSUME Init PROVE PowerInv
    OBVIOUS
<1> USE DEF Init, PowerInit
<1>1. registered \in 0 .. Len(Order) /\ clients = {} /\ "power" \notin Clients
    BY PowerAssumption, ClientFacts, RegisteredFacts
<1>2. \A c, id : Has(messages, c, id) <=> c = "power" /\ id = "report"
    BY MsgEqual DEF Has, Queued
<1>3. \A c, id : Single(messages, c, id) /\ \A jd : id # jd => Before(messages, c, id, jd)
    BY MsgEqual DEF Single, Before, Once, Ahead
<1>4. TypeOK
    <2>1. Msg("power", "report") \in Messages
        BY DEF Msg, Messages, MessageIds
    <2>2. messages \in Seq(Messages)
        BY <2>1
    <2> QED
        BY <1>1, <2>2 DEF TypeOK, PowerStates, SmStates, Messages
<1>5. PendingOnlyWhileNotified /\ InitInv /\ DownInv /\ IdleInv /\ AskedInv
    BY <1>1, <1>2, <1>3, ClientFacts
       DEF PendingOnlyWhileNotified, InitInv, DownInv, IdleInv, AskedInv, PowerInds, Prepares
<1>6. NoneCancelled /\ SleepInv /\ CancelInv
    BY <1>1, <1>2, <1>3, ClientFacts
       DEF SleepInv, CancelInv, NoneCancelled, Tidings, Prepares, StateIsSleepy
<1>7. TermInv /\ StopInv /\ ConfirmInv
    BY <1>1, <1>2, <1>3, ClientFacts DEF TermInv, StopInv, ConfirmInv
<1> QED
    BY <1>4, <1>5, <1>6, <1>7 DEF PowerInv

----------------------------------------------------------------------------
(* Steps that leave the manager's state alone. *)

LEMMA StartUpInv == ASSUME PowerInv, StartUp PROVE PowerInv'
<1>1. /\ messages' = Append(messages, Msg(SM, "init_cfm"))
      /\ UNCHANGED <<state, registered, allow_sleep, shutdown_pending, sleep_pending,
                     user_initiated_shutdown, init_complete, device, charger, extreme,
                     sm, phy, idle_timer, topology, indicating, clients>>
      /\ system' = "active" /\ system = "initialising" /\ init_complete
    BY DEF StartUp, flagVars, smVars, clients
<1>2. Sent(messages, messages', SM, "init_cfm")
    <2>1. messages \in Seq(Messages) /\ SM \in Clients \cup {"power"}
        BY ClientFacts DEF PowerInv, TypeOK, Messages
    <2>2. "init_cfm" \in MessageIds
        BY DEF MessageIds
    <2> QED
        BY <1>1, <2>1, <2>2, AppendMsg
<1> USE DEF PowerInv, Sent
<1>3. TypeOK' /\ PendingOnlyWhileNotified' /\ DownInv'
    BY <1>1, <1>2 DEF TypeOK, Messages, PendingOnlyWhileNotified, DownInv
<1>4. InitInv' /\ IdleInv' /\ AskedInv'
    BY <1>1, <1>2 DEF InitInv, IdleInv, AskedInv, PowerInds, Prepares, StartUp
<1>5. SleepInv' /\ CancelInv'
    BY <1>1, <1>2 DEF SleepInv, CancelInv, NoneCancelled, NoneUnread, Tidings, Prepares,
        MaySleep, AllAllowSleep, CanSleep, CanPowerOff, StateIsSleepy
<1>6. TermInv' /\ StopInv' /\ ConfirmInv'
    BY <1>1, <1>2 DEF TermInv, StopInv, ConfirmInv, NoneCancelled, NoneUnread, Tidings, Prepares
<1> QED
    BY <1>3, <1>4, <1>5, <1>6
(* A message of which the invariant does not speak. *)
LEMMA QuietSend ==
    ASSUME PowerInv, NEW task \in Clients \cup {"power"},
           NEW ind \in {"report", "out", "in", "start_cfm", "flash_completed"},
           messages' = Append(messages, Msg(task, ind)),
           UNCHANGED <<state, registered, allow_sleep, shutdown_pending, sleep_pending,
                       user_initiated_shutdown, init_complete, system, device, sm,
                       idle_timer, indicating>>,
           topology' \subseteq topology, "stop" \in topology => "stop" \in topology',
           phy' \in {"out", "in"}, charger' \in BOOLEAN, extreme' \in BOOLEAN,
           charger' = charger \/ (task = "power" /\ ind = "report")
    PROVE  PowerInv'
<1>1. UNCHANGED clients
    BY DEF clients
<1>2. Sent(messages, messages', task, ind)
    <2>1. messages \in Seq(Messages) /\ ind \in MessageIds
        BY DEF PowerInv, TypeOK, Messages, MessageIds
    <2> QED
        BY <2>1, AppendMsg
<1> USE DEF PowerInv, Sent
<1>3. TypeOK' /\ PendingOnlyWhileNotified' /\ DownInv'
    BY <1>1, <1>2 DEF TypeOK, Messages, PendingOnlyWhileNotified, DownInv
<1>4. InitInv'
    BY <1>1, <1>2 DEF InitInv, PowerInds
<1>8. IdleInv'
    BY <1>1, <1>2 DEF IdleInv, TypeOK
<1>7. AskedInv'
    BY <1>1, <1>2 DEF AskedInv, Prepares
<1>5. SleepInv' /\ CancelInv'
    BY <1>1, <1>2 DEF SleepInv, CancelInv, NoneCancelled, NoneUnread, Tidings, Prepares,
        MaySleep, AllAllowSleep, CanSleep, CanPowerOff, StateIsSleepy
<1>6. TermInv' /\ StopInv' /\ ConfirmInv'
    BY <1>1, <1>2 DEF TermInv, StopInv, ConfirmInv, NoneCancelled, NoneUnread, Tidings, Prepares,
        SubStateIsTerminating
<1> QED
    BY <1>3, <1>4, <1>5, <1>6, <1>7, <1>8

(* The idle timer expiring keeps the invariant. *)
LEMMA IdleTimerExpiresInv == ASSUME PowerInv, IdleTimerExpires PROVE PowerInv'
<1>1. /\ messages' = Append(messages, Msg(SM, "idle_timeout"))
      /\ UNCHANGED <<state, registered, allow_sleep, shutdown_pending, sleep_pending,
                     user_initiated_shutdown, init_complete, system, device, charger,
                     extreme, sm, phy, topology, indicating, clients>>
      /\ idle_timer /\ idle_timer' = FALSE
    BY DEF IdleTimerExpires, SendsSm, flagVars, clients
<1>2. Sent(messages, messages', SM, "idle_timeout")
    <2>1. messages \in Seq(Messages) /\ SM \in Clients \cup {"power"}
        BY ClientFacts DEF PowerInv, TypeOK, Messages
    <2>2. "idle_timeout" \in MessageIds
        BY DEF MessageIds
    <2> QED
        BY <1>1, <2>1, <2>2, AppendMsg
<1> USE DEF PowerInv, Sent
<1>3. TypeOK' /\ PendingOnlyWhileNotified' /\ DownInv'
    BY <1>1, <1>2, ZenonT(60) DEF TypeOK, Messages, PendingOnlyWhileNotified, DownInv
<1>4. InitInv'
    BY <1>1, <1>2 DEF InitInv, PowerInds
<1>8. IdleInv'
    BY <1>1, <1>2 DEF IdleInv, TypeOK
<1>7. AskedInv'
    BY <1>1, <1>2 DEF AskedInv, Prepares
<1>5. SleepInv' /\ CancelInv'
    BY <1>1, <1>2 DEF SleepInv, CancelInv, NoneCancelled, NoneUnread, Tidings, Prepares,
        MaySleep, AllAllowSleep, CanSleep, CanPowerOff, StateIsSleepy
<1>6. TermInv' /\ StopInv' /\ ConfirmInv'
    BY <1>1, <1>2 DEF TermInv, StopInv, ConfirmInv, NoneCancelled, NoneUnread, Tidings, Prepares,
        SubStateIsTerminating
<1> QED
    BY <1>3, <1>4, <1>5, <1>6, <1>7, <1>8

(* The topology confirming that it has stopped keeps the invariant. *)
LEMMA TopologyStoppedInv == ASSUME PowerInv, TopologyConfirms("stop") PROVE PowerInv'
<1>1. /\ messages' = Append(messages, Msg(SM, "stop_cfm"))
      /\ UNCHANGED <<state, registered, allow_sleep, shutdown_pending, sleep_pending,
                     user_initiated_shutdown, init_complete, system, device, charger,
                     extreme, sm, phy, idle_timer, indicating, clients>>
      /\ "stop" \in topology /\ topology' = topology \ {"stop"}
    BY DEF TopologyConfirms, SendsSm, flagVars, clients
<1>2. Sent(messages, messages', SM, "stop_cfm")
    <2>1. messages \in Seq(Messages) /\ SM \in Clients \cup {"power"}
        BY ClientFacts DEF PowerInv, TypeOK, Messages
    <2>2. "stop_cfm" \in MessageIds
        BY DEF MessageIds
    <2> QED
        BY <1>1, <2>1, <2>2, AppendMsg
<1> USE DEF PowerInv, Sent
<1>3. TypeOK' /\ PendingOnlyWhileNotified' /\ DownInv'
    BY <1>1, <1>2, ZenonT(60) DEF TypeOK, Messages, PendingOnlyWhileNotified, DownInv
<1>4. InitInv'
    BY <1>1, <1>2 DEF InitInv, PowerInds
<1>8. IdleInv'
    <2>1. /\ Has(messages', SM, "idle_timeout") <=> Has(messages, SM, "idle_timeout")
          /\ Single(messages, SM, "idle_timeout") => Single(messages', SM, "idle_timeout")
        BY <1>2
    <2> QED
        BY <1>1, <2>1, Zenon DEF IdleInv
<1>7. AskedInv'
    BY <1>1, <1>2 DEF AskedInv, Prepares
<1>5. SleepInv' /\ CancelInv'
    BY <1>1, <1>2 DEF SleepInv, CancelInv, NoneCancelled, NoneUnread, Tidings, Prepares,
        MaySleep, AllAllowSleep, CanSleep, CanPowerOff, StateIsSleepy
<1>6. TermInv' /\ StopInv' /\ ConfirmInv'
    BY <1>1, <1>2 DEF TermInv, StopInv, ConfirmInv, NoneCancelled, NoneUnread, Tidings, Prepares,
        SubStateIsTerminating
<1> QED
    BY <1>3, <1>4, <1>5, <1>6, <1>7, <1>8

(* The others that only send. *)
LEMMA SendersInv ==
    ASSUME PowerInv,
           MonitorReports \/ PhyStateChanges \/ TopologyConfirms("start")
               \/ \E c \in Ui : FlashEnds(c)
    PROVE  PowerInv'
<1> USE ClientFacts DEF flagVars, smVars
<1>0. phy \in {"out", "in"} /\ charger \in BOOLEAN /\ extreme \in BOOLEAN
    BY DEF PowerInv, TypeOK
<1>1. CASE MonitorReports
    BY <1>0, <1>1, QuietSend DEF MonitorReports
<1>2. CASE PhyStateChanges
    BY <1>0, <1>2, QuietSend DEF PhyStateChanges, SendsSm
<1>3. CASE TopologyConfirms("start")
    BY <1>0, <1>3, QuietSend DEF TopologyConfirms, SendsSm
<1>4. ASSUME NEW c \in Ui, FlashEnds(c) PROVE PowerInv'
    BY <1>0, <1>4, QuietSend DEF FlashEnds, ClientHandler
<1> QED
    BY <1>1, <1>2, <1>3, <1>4
(* The application's timer, when a step is not about it. *)
LEMMA IdleStays ==
    ASSUME IdleInv, UNCHANGED <<sm, idle_timer>>, device' # "idle timeout",
           Has(messages', SM, "idle_timeout") => Has(messages, SM, "idle_timeout"),
           Single(messages, SM, "idle_timeout") => Single(messages', SM, "idle_timeout")
    PROVE  IdleInv'
    BY Zenon DEF IdleInv

----------------------------------------------------------------------------
(* The manager acts by itself: appPowerHandlePowerEvent and                *)
(* appPowerOffRequest.  msgs is the queue without the report it has read.  *)

Lessened(q, r) ==
    /\ r \in Seq(Messages)
    /\ \A c, id : Has(r, c, id) => Has(q, c, id)
    /\ \A c, id : Has(q, c, id) =>
            Has(r, c, id) \/ (c = "power" /\ id = "report") \/ (c = SM /\ id = "idle_timeout")
    /\ \A c, id : Single(q, c, id) => Single(r, c, id)
    /\ \A c, id, jd : Before(q, c, id, jd) => Before(r, c, id, jd)

(* What such a step leaves alone. *)
OthersStay ==
    /\ UNCHANGED <<registered, allow_sleep, extreme, sm, phy, idle_timer, topology, indicating>>
    /\ init_complete' \in BOOLEAN
    /\ init_complete => init_complete'
    /\ init_complete' => registered = Len(Order)

(* An event that leaves the power manager in its state keeps the           *)
(* invariant.                                                              *)
LEMMA ManagerStays ==
    ASSUME PowerInv, NEW msgs, Lessened(messages, msgs), StaysInState(msgs), OthersStay,
           state # "ok" \/ ~MaySleep(allow_sleep, init_complete')
    PROVE  PowerInv'
<1>1. /\ UNCHANGED <<state, registered, allow_sleep, shutdown_pending, sleep_pending,
                     user_initiated_shutdown, system, device, charger, extreme, sm, phy,
                     idle_timer, topology, indicating, clients>>
      /\ init_complete' \in BOOLEAN /\ (init_complete => init_complete')
      /\ init_complete' => registered = Len(Order)
      /\ state # "ok" \/ ~MaySleep(allow_sleep, init_complete')
    BY DEF StaysInState, OthersStay, clients
<1>2. Lessened(messages, messages')
    BY DEF StaysInState
<1> USE DEF Lessened
<1>q. \A id \in PowerInds : Has(messages', SM, id) <=> Has(messages, SM, id)
    BY <1>2, ClientFacts DEF PowerInds
<1> USE DEF PowerInv
<1>3. TypeOK' /\ PendingOnlyWhileNotified' /\ DownInv'
    <2>1. messages' \in Seq(Messages)
        BY <1>2
    <2>2. TypeOK'
        BY <1>1, <2>1, ZenonT(60) DEF TypeOK, Messages, PowerStates
    <2>3. PendingOnlyWhileNotified'
        BY <1>1 DEF PendingOnlyWhileNotified
    <2>4. DownInv'
        BY <1>1 DEF DownInv
    <2> QED
        BY <2>2, <2>3, <2>4
<1>4. InitInv'
    BY <1>1, <1>2 DEF InitInv, PowerInds, TypeOK
<1>5. IdleInv'
    <2>1. /\ Has(messages', SM, "idle_timeout") => Has(messages, SM, "idle_timeout")
          /\ Single(messages, SM, "idle_timeout") => Single(messages', SM, "idle_timeout")
        BY <1>2
    <2>2. device' # "idle timeout"
        BY <1>1 DEF IdleInv
    <2> QED
        BY <1>1, <2>1, <2>2, IdleStays
<1>6. SleepInv'
    BY <1>1, <1>2, ClientFacts DEF SleepInv, PowerInds,
        MaySleep, AllAllowSleep, CanSleep, CanPowerOff, StateIsSleepy
<1>7. AskedInv'
    BY <1>1, <1>2, ClientFacts DEF AskedInv, Prepares, PendingOnlyWhileNotified
<1>8. CancelInv'
    <2>1. /\ \A id \in Tidings : Single(messages, SM, id) => Single(messages', SM, id)
          /\ \A id \in Tidings, jd \in Prepares :
                Before(messages, SM, id, jd) => Before(messages', SM, id, jd)
        BY <1>2, ClientFacts DEF Tidings, Prepares
    <2> HIDE DEF Lessened, SentToAll
    <2> QED
        BY <1>1, <1>q, <2>1 DEF CancelInv, NoneCancelled, NoneUnread, Tidings, Prepares, PowerInds
<1>9. TermInv'
    <2> HIDE DEF Lessened, SentToAll
    <2> QED
        BY <1>1, <1>q DEF TermInv, NoneCancelled, NoneUnread, Tidings, Prepares, PowerInds,
            PendingOnlyWhileNotified
<1>10. StopInv' /\ ConfirmInv'
    BY <1>1, <1>2, ClientFacts DEF StopInv, ConfirmInv, NoneCancelled, NoneUnread, Tidings, Prepares,
        SubStateIsTerminating, PendingOnlyWhileNotified
<1> QED
    BY <1>3, <1>4, <1>5, <1>6, <1>7, <1>8, <1>9, <1>10

(* Asking every client to prepare for a shutdown keeps the invariant. *)
LEMMA ManagerAsksShutdown ==
    ASSUME PowerInv, NEW msgs, Lessened(messages, msgs), OthersStay, state = "ok",
           clients # {}, NEW user \in BOOLEAN, EnterTerminatingNotified(user, msgs)
    PROVE  PowerInv'
<1>1. /\ UNCHANGED <<registered, allow_sleep, sleep_pending, system, device, charger, extreme,
                     sm, phy, idle_timer, topology, indicating, clients>>
      /\ init_complete' \in BOOLEAN /\ (init_complete => init_complete')
      /\ init_complete' => registered = Len(Order)
      /\ state = "ok" /\ state' = "terminating_notified"
      /\ shutdown_pending' = clients /\ clients # {}
      /\ user_initiated_shutdown' \in BOOLEAN
    BY DEF EnterTerminatingNotified, OthersStay, clients
<1>2. Lessened(messages, msgs) /\ SentToAll(msgs, messages', "shutdown_prepare")
    <2>1. msgs \in Seq(Messages) /\ registered \in 0 .. Len(Order)
        BY DEF Lessened, PowerInv, TypeOK
    <2>2. "shutdown_prepare" \in MessageIds /\ messages' = Multicast(msgs, "shutdown_prepare")
        BY <1>1 DEF MessageIds, PowerInds, EnterTerminatingNotified
    <2> QED
        BY <2>1, <2>2, MulticastMsg
<1> USE DEF Lessened, SentToAll
<1>q. \A id \in PowerInds : Has(messages', SM, id) <=> Has(messages, SM, id) \/ (id = "shutdown_prepare" /\ SM \in clients)
    BY <1>2, ClientFacts DEF PowerInds
<1> USE DEF PowerInv
<1>3. TypeOK' /\ PendingOnlyWhileNotified' /\ DownInv'
    <2>1. messages' \in Seq(Messages)
        BY <1>2
    <2>2. TypeOK'
        BY <1>1, <2>1 DEF TypeOK, Messages, PowerStates
    <2>3. PendingOnlyWhileNotified'
        BY <1>1, ClientFacts DEF PendingOnlyWhileNotified
    <2>4. DownInv'
        BY <1>1 DEF DownInv
    <2> QED
        BY <2>2, <2>3, <2>4
<1>4. InitInv'
    BY <1>1, <1>2 DEF InitInv, PowerInds, TypeOK
<1>5. IdleInv'
    <2>1. /\ Has(messages', SM, "idle_timeout") => Has(messages, SM, "idle_timeout")
          /\ Single(messages, SM, "idle_timeout") => Single(messages', SM, "idle_timeout")
        BY <1>2
    <2>2. device' # "idle timeout"
        BY <1>1 DEF IdleInv
    <2> QED
        BY <1>1, <2>1, <2>2, IdleStays
<1>6. SleepInv'
    BY <1>1, <1>2, ClientFacts DEF SleepInv, PowerInds,
        MaySleep, AllAllowSleep, CanSleep, CanPowerOff, StateIsSleepy
<1>7. AskedInv'
    BY <1>1, <1>2, ClientFacts DEF AskedInv, Prepares, PendingOnlyWhileNotified
<1>8. CancelInv'
    <2>1. /\ \A id \in Tidings : Single(messages, SM, id) => Single(messages', SM, id)
          /\ \A id \in Tidings, jd \in Prepares :
                Before(messages, SM, id, jd) => Before(messages', SM, id, jd)
        BY <1>2, ClientFacts DEF Tidings, Prepares
    <2> HIDE DEF Lessened, SentToAll
    <2> QED
        BY <1>1, <1>q, <2>1, ClientFacts
           DEF CancelInv, InitInv, NoneCancelled, NoneUnread, Tidings, Prepares, PowerInds
<1>9. TermInv'
    <2> HIDE DEF Lessened, SentToAll
    <2> QED
        BY <1>1, <1>q DEF TermInv, NoneCancelled, NoneUnread, Tidings, Prepares, PowerInds,
            PendingOnlyWhileNotified
<1>10. StopInv' /\ ConfirmInv'
    BY <1>1, <1>2, ClientFacts DEF StopInv, ConfirmInv, NoneCancelled, NoneUnread, Tidings, Prepares,
        SubStateIsTerminating, PendingOnlyWhileNotified
<1> QED
    BY <1>3, <1>4, <1>5, <1>6, <1>7, <1>8, <1>9, <1>10

(* Asking every client to prepare for sleep keeps the invariant. *)
LEMMA ManagerAsksSleep ==
    ASSUME PowerInv, NEW msgs, Lessened(messages, msgs), OthersStay, state = "ok",
           MaySleep(allow_sleep, init_complete'), EnterSoporificNotified(msgs)
    PROVE  PowerInv'
<1>1. /\ UNCHANGED <<registered, allow_sleep, shutdown_pending, system, device, charger, extreme,
                     user_initiated_shutdown, sm, phy, idle_timer, topology, indicating, clients>>
      /\ init_complete' \in BOOLEAN /\ (init_complete => init_complete')
      /\ init_complete' => registered = Len(Order)
      /\ state = "ok" /\ state' = "soporific_notified" /\ init_complete'
      /\ sleep_pending' = clients /\ clients = Clients
    <2>1. registered = Len(Order) /\ registered \in 0 .. Len(Order)
        BY DEF OthersStay, MaySleep, CanSleep, PowerInv, TypeOK
    <2> QED
        BY <2>1, RegisteredFacts
           DEF EnterSoporificNotified, OthersStay, MaySleep, CanSleep, clients
<1>2. Lessened(messages, msgs) /\ SentToAll(msgs, messages', "sleep_prepare")
    <2>1. msgs \in Seq(Messages) /\ registered \in 0 .. Len(Order)
        BY DEF Lessened, PowerInv, TypeOK
    <2>2. "sleep_prepare" \in MessageIds /\ messages' = Multicast(msgs, "sleep_prepare")
        BY <1>1 DEF MessageIds, PowerInds, EnterSoporificNotified
    <2> QED
        BY <2>1, <2>2, MulticastMsg
<1> USE DEF Lessened, SentToAll
<1>q. \A id \in PowerInds : Has(messages', SM, id) <=> Has(messages, SM, id) \/ (id = "sleep_prepare" /\ SM \in clients)
    BY <1>2, ClientFacts DEF PowerInds
<1> USE DEF PowerInv
<1>3. TypeOK' /\ PendingOnlyWhileNotified' /\ DownInv'
    <2>1. messages' \in Seq(Messages)
        BY <1>2
    <2>2. TypeOK'
        BY <1>1, <2>1 DEF TypeOK, Messages, PowerStates
    <2>3. PendingOnlyWhileNotified'
        BY <1>1, ClientFacts DEF PendingOnlyWhileNotified
    <2>4. DownInv'
        BY <1>1 DEF DownInv
    <2> QED
        BY <2>2, <2>3, <2>4
<1>4. InitInv'
    BY <1>1, <1>2 DEF InitInv, PowerInds, TypeOK
<1>5. IdleInv'
    <2>1. /\ Has(messages', SM, "idle_timeout") => Has(messages, SM, "idle_timeout")
          /\ Single(messages, SM, "idle_timeout") => Single(messages', SM, "idle_timeout")
        BY <1>2
    <2>2. device' # "idle timeout"
        BY <1>1 DEF IdleInv
    <2> QED
        BY <1>1, <2>1, <2>2, IdleStays
<1>6. SleepInv'
    BY <1>1, <1>2, ClientFacts DEF SleepInv, PowerInds,
        MaySleep, AllAllowSleep, CanSleep, CanPowerOff, StateIsSleepy
<1>7. AskedInv'
    BY <1>1, <1>2, ClientFacts DEF AskedInv, Prepares, PendingOnlyWhileNotified
<1>8. CancelInv'
    <2>1. /\ \A id \in Tidings : Single(messages, SM, id) => Single(messages', SM, id)
          /\ \A id \in Tidings, jd \in Prepares :
                Before(messages, SM, id, jd) => Before(messages', SM, id, jd)
        BY <1>2, ClientFacts DEF Tidings, Prepares
    <2> HIDE DEF Lessened, SentToAll
    <2> QED
        BY <1>1, <1>q, <2>1, ClientFacts
           DEF CancelInv, InitInv, NoneCancelled, NoneUnread, Tidings, Prepares, PowerInds
<1>9. TermInv'
    <2> HIDE DEF Lessened, SentToAll
    <2> QED
        BY <1>1, <1>q DEF TermInv, NoneCancelled, NoneUnread, Tidings, Prepares, PowerInds,
            PendingOnlyWhileNotified
<1>10. StopInv' /\ ConfirmInv'
    BY <1>1, <1>2, ClientFacts DEF StopInv, ConfirmInv, NoneCancelled, NoneUnread, Tidings, Prepares,
        SubStateIsTerminating, PendingOnlyWhileNotified
<1> QED
    BY <1>3, <1>4, <1>5, <1>6, <1>7, <1>8, <1>9, <1>10
(* Before any client has registered, a shutdown needs no answers. *)
LEMMA ManagerAlone ==
    ASSUME PowerInv, NEW msgs, Lessened(messages, msgs), OthersStay, state = "ok",
           clients = {}, NEW user \in BOOLEAN, EnterTerminatingNotified(user, msgs)
    PROVE  PowerInv'
<1>1. /\ UNCHANGED <<registered, allow_sleep, sleep_pending, extreme,
                     sm, phy, idle_timer, topology, indicating, clients>>
      /\ registered = 0 /\ clients = {} /\ init_complete' = FALSE /\ init_complete = FALSE
      /\ shutdown_pending' = {} /\ state = "ok" /\ sleep_pending = {} /\ shutdown_pending = {}
      /\ sm = "initialising" /\ SM \notin clients
      /\ user_initiated_shutdown' \in BOOLEAN /\ charger' \in BOOLEAN
      /\ system # "active" /\ (system' = system \/ system' = "powered_off")
      /\ \/ state' = "terminating_responded" /\ device' = "off"
         \/ state' = "ok" /\ UNCHANGED device
    <2>1. registered \in 0 .. Len(Order) /\ init_complete \in BOOLEAN
        BY DEF PowerInv, TypeOK
    <2>2. registered = 0 /\ registered # Len(Order)
        BY <2>1, RegisteredFacts, ClientFacts
    <2>3. init_complete' = FALSE /\ init_complete = FALSE
        BY <2>1, <2>2 DEF OthersStay
    <2>4. sm = "initialising" /\ SM \notin clients /\ system # "active"
        BY <2>3 DEF PowerInv, InitInv
    <2>5. UNCHANGED clients
        BY DEF OthersStay, clients
    <2>6. sleep_pending = {} /\ shutdown_pending = {}
        BY DEF PowerInv, PendingOnlyWhileNotified
    <2>7. EnterTerminatingResponded(user, msgs) /\ shutdown_pending' = clients /\ UNCHANGED sleep_pending
        BY DEF EnterTerminatingNotified
    <2>8. charger \in BOOLEAN
        BY DEF PowerInv, TypeOK
    <2> QED
        BY <2>2, <2>3, <2>4, <2>5, <2>6, <2>7, <2>8
           DEF EnterTerminatingResponded, EnterPowerStateOk, OthersStay
<1>2. /\ messages' \in Seq(Messages)
      /\ \A c, id : Has(messages', c, id) => Has(messages, c, id)
      /\ \A c, id : Single(messages, c, id) => Single(messages', c, id)
      /\ \A c, id, jd : Before(messages, c, id, jd) /\ id # jd => Before(messages', c, id, jd)
    <2>1. msgs \in Seq(Messages) /\ registered \in 0 .. Len(Order)
        BY DEF Lessened, PowerInv, TypeOK
    <2>2. messages' = msgs \/ messages' = Multicast(msgs, "shutdown_cancelled")
        BY DEF EnterTerminatingNotified, EnterTerminatingResponded, EnterPowerStateOk
    <2>3. Multicast(msgs, "shutdown_cancelled") = msgs
        <3>1. [i \in 1 .. registered |-> Msg(Order[i], "shutdown_cancelled")] = <<>>
            BY <1>1
        <3> QED
            BY <2>1, <3>1, ConcatEmptySeq DEF Multicast
    <2> QED
        BY <2>2, <2>3 DEF Lessened
<1>q. \A id \in PowerInds : ~Has(messages', SM, id) /\ ~Has(messages, SM, id)
    BY <1>1, <1>2, ClientFacts DEF PowerInv, InitInv
<1> USE DEF PowerInv
<1>3. TypeOK' /\ PendingOnlyWhileNotified' /\ DownInv'
    BY <1>1, <1>2, ClientFacts DEF TypeOK, Messages, PowerStates, PendingOnlyWhileNotified, DownInv
<1>4. InitInv'
    BY <1>1, <1>2 DEF InitInv
<1>5. IdleInv'
    <2>1. device' # "idle timeout"
        BY <1>1 DEF IdleInv
    <2> QED
        BY <1>1, <1>2, <2>1, IdleStays
<1>6. SleepInv'
    BY <1>1 DEF SleepInv, MaySleep, CanSleep, StateIsSleepy
<1>7. AskedInv'
    BY <1>1, <1>2 DEF AskedInv, Prepares
<1>8. CancelInv'
    BY <1>1, <1>2, <1>q DEF CancelInv, NoneCancelled, Tidings, Prepares, PowerInds
<1>9. TermInv' /\ StopInv' /\ ConfirmInv'
    BY <1>1, <1>2, <1>q DEF TermInv, StopInv, ConfirmInv
<1> QED
    BY <1>3, <1>4, <1>5, <1>6, <1>7, <1>8, <1>9
(* Leaving the initial state keeps the invariant. *)
LEMMA ManagerStarts ==
    ASSUME PowerInv, NEW msgs, Lessened(messages, msgs), OthersStay, state = "init",
           EnterPowerStateOk(msgs), UNCHANGED <<system, charger, shutdown_pending, sleep_pending>>
    PROVE  PowerInv'
<1>1. /\ UNCHANGED <<registered, allow_sleep, shutdown_pending, sleep_pending, extreme, system,
                     device, charger, sm, phy, idle_timer, topology, indicating, clients>>
      /\ registered = 0 /\ clients = {} /\ init_complete' = FALSE /\ init_complete = FALSE
      /\ state = "init" /\ state' = "ok" /\ sleep_pending = {} /\ shutdown_pending = {}
      /\ sm = "initialising" /\ SM \notin clients /\ user_initiated_shutdown' = FALSE
    <2>1. registered \in 0 .. Len(Order) /\ init_complete \in BOOLEAN
        BY DEF PowerInv, TypeOK
    <2>2. registered = 0
        BY DEF PowerInv, InitInv
    <2>3. clients = {} /\ registered # Len(Order)
        BY <2>1, <2>2, RegisteredFacts, ClientFacts
    <2>4. init_complete' = FALSE /\ init_complete = FALSE
        BY <2>1, <2>3 DEF OthersStay
    <2>5. sm = "initialising" /\ SM \notin clients
        BY <2>3 DEF PowerInv, InitInv
    <2>6. UNCHANGED clients
        BY DEF OthersStay, clients
    <2>7. sleep_pending = {} /\ shutdown_pending = {}
        BY DEF PowerInv, PendingOnlyWhileNotified
    <2> QED
        BY <2>2, <2>3, <2>4, <2>5, <2>6, <2>7 DEF EnterPowerStateOk, OthersStay
<1>2. /\ messages' \in Seq(Messages)
      /\ \A c, id : Has(messages', c, id) => Has(messages, c, id)
      /\ \A c, id : Single(messages, c, id) => Single(messages', c, id)
      /\ \A c, id, jd : Before(messages, c, id, jd) /\ id # jd => Before(messages', c, id, jd)
    BY DEF EnterPowerStateOk, Lessened
<1>q. \A id \in PowerInds : ~Has(messages', SM, id) /\ ~Has(messages, SM, id)
    BY <1>1, <1>2, ClientFacts DEF PowerInv, InitInv
<1> USE DEF PowerInv
<1>3. TypeOK' /\ PendingOnlyWhileNotified' /\ DownInv'
    BY <1>1, <1>2, ClientFacts DEF TypeOK, Messages, PowerStates, PendingOnlyWhileNotified, DownInv
<1>4. InitInv'
    BY <1>1, <1>2 DEF InitInv
<1>5. IdleInv'
    <2>1. device' # "idle timeout"
        BY <1>1 DEF IdleInv
    <2> QED
        BY <1>1, <1>2, <2>1, IdleStays
<1>6. SleepInv'
    BY <1>1 DEF SleepInv, MaySleep, CanSleep, StateIsSleepy
<1>7. AskedInv'
    BY <1>1, <1>2 DEF AskedInv, Prepares
<1>8. CancelInv'
    BY <1>1, <1>2, <1>q DEF CancelInv, NoneCancelled, Tidings, Prepares, PowerInds
<1>9. TermInv' /\ StopInv' /\ ConfirmInv'
    BY <1>1, <1>2, <1>q DEF TermInv, StopInv, ConfirmInv
<1> QED
    BY <1>3, <1>4, <1>5, <1>6, <1>7, <1>8, <1>9

(* appPowerHandlePowerEvent keeps the invariant, whatever it decides. *)
LEMMA PowerEventInv ==
    ASSUME PowerInv, NEW msgs, Lessened(messages, msgs), OthersStay,
           HandlePowerEvent(init_complete', msgs)
    PROVE  PowerInv'
<1>1. CASE state = "init"
    BY <1>1, ManagerStarts DEF HandlePowerEvent
<1>2. CASE state = "ok" /\ NeedsToPowerOff(user_initiated_shutdown)
    <2>1. EnterTerminatingNotified(user_initiated_shutdown, msgs)
        BY <1>2 DEF HandlePowerEvent
    <2>2. user_initiated_shutdown \in BOOLEAN
        BY DEF PowerInv, TypeOK
    <2> QED
        BY <1>2, <2>1, <2>2, ManagerAsksShutdown, ManagerAlone
<1>3. CASE /\ state = "ok" /\ ~NeedsToPowerOff(user_initiated_shutdown)
           /\ MaySleep(allow_sleep, init_complete')
    <2>1. EnterSoporificNotified(msgs)
        BY <1>3 DEF HandlePowerEvent
    <2> QED
        BY <1>3, <2>1, ManagerAsksSleep
<1>4. CASE /\ state # "init" /\ ~(state = "ok" /\ NeedsToPowerOff(user_initiated_shutdown))
           /\ ~(state = "ok" /\ MaySleep(allow_sleep, init_complete'))
    <2>1. StaysInState(msgs)
        BY <1>4 DEF HandlePowerEvent
    <2> QED
        BY <1>4, <2>1, ManagerStays
<1> QED
    BY <1>1, <1>2, <1>3, <1>4

(* The end of initialisation keeps the invariant. *)
LEMMA InitCompleteInv == ASSUME PowerInv, InitComplete PROVE PowerInv'
<1>1. Lessened(messages, messages)
    BY DEF Lessened, PowerInv, TypeOK, Messages
<1>2. OthersStay /\ HandlePowerEvent(init_complete', messages)
    BY DEF InitComplete, OthersStay, smVars
<1> QED
    BY <1>1, <1>2, PowerEventInv

(* A charger or battery report keeps the invariant. *)
LEMMA HandleMessageInv == ASSUME PowerInv, HandleMessage PROVE PowerInv'
<1>1. Lessened(messages, Rest)
    <2>1. messages \in Seq(Messages) /\ messages # <<>> /\ Head(messages) = Msg("power", "report")
        BY DEF PowerInv, TypeOK, Messages, HandleMessage, Received
    <2>2. Consumed(messages, Rest, "power", "report")
        BY <2>1, TailMsg DEF Rest
    <2> QED
        BY <2>2 DEF Consumed, Lessened
<1>2. OthersStay /\ HandlePowerEvent(init_complete', Rest)
    BY DEF HandleMessage, OthersStay, smVars, PowerInv, TypeOK, InitInv
<1> QED
    BY <1>1, <1>2, PowerEventInv

(* The user's power-off request keeps the invariant. *)
LEMMA UserPowersOffInv == ASSUME PowerInv, UserPowersOff PROVE PowerInv'
<1>1. Lessened(messages, messages)
    BY DEF Lessened, PowerInv, TypeOK, Messages
<1>2. OthersStay
    BY DEF UserPowersOff, PowerOffRequest, OthersStay, smVars, PowerInv, TypeOK, InitInv
<1>3. CASE CanPowerOff /\ state = "ok"
    <2>1. EnterTerminatingNotified(TRUE, messages)
        BY <1>3 DEF UserPowersOff, PowerOffRequest
    <2> QED
        BY <1>1, <1>2, <1>3, <2>1, ManagerAsksShutdown, ManagerAlone
<1>4. CASE ~(CanPowerOff /\ state = "ok")
    <2>1. StaysInState(messages)
        BY <1>4 DEF UserPowersOff, PowerOffRequest
    <2>2. state # "ok" \/ ~MaySleep(allow_sleep, init_complete')
        BY <1>4 DEF MaySleep, CanSleep
    <2> QED
        BY <1>1, <1>2, <2>1, <2>2, ManagerStays
<1> QED
    BY <1>3, <1>4
----------------------------------------------------------------------------
(* Registering, which is over before the first sleep. *)

LEMMA RegistersInv == ASSUME PowerInv, Registers PROVE PowerInv'
<1> DEFINE c == Order[registered + 1]
<1>1. registered \in 0 .. Len(Order) /\ registered < Len(Order) /\ Len(Order) \in Nat
      /\ device = "on"
    BY PowerAssumption DEF PowerInv, TypeOK, Registers, Running
<1>2. ClientRegister(c, {c} \ {SM})
    BY DEF Registers
<1>3. c \in Clients \ clients /\ clients' = clients \cup {c} /\ clients \subseteq Clients
    <2>1. /\ registered + 1 \in DOMAIN Order /\ DOMAIN Order = 1 .. Len(Order)
          /\ \A i, j \in DOMAIN Order : Order[i] = Order[j] => i = j
        BY <1>1, PowerAssumption
    <2>2. registered' = registered + 1
        BY <1>2 DEF ClientRegister
    <2>3. 1 .. registered' = (1 .. registered) \cup {registered + 1}
        BY <1>1, <2>2
    <2>4. clients' = clients \cup {c}
        BY <2>3 DEF clients
    <2>5. c \in Clients
        BY <2>1 DEF Clients
    <2>6. \A i \in 1 .. registered : i \in DOMAIN Order /\ i # registered + 1
        BY <1>1, <2>1
    <2>7. c \notin clients
        BY <2>1, <2>6 DEF clients
    <2> QED
        BY <1>1, <2>4, <2>5, <2>7, RegisteredFacts
<1>4. init_complete = FALSE /\ state \notin {"init", "soporific_notified", "soporific_responded",
                                             "terminating_responded"}
    <2>1. ~init_complete /\ init_complete \in BOOLEAN
        BY <1>1 DEF PowerInv, InitInv, TypeOK
    <2> QED
        BY <1>1, <1>2, <2>1 DEF PowerInv, InitInv, DownInv, ClientRegister
<1> HIDE DEF c
<1>5. /\ UNCHANGED <<state, user_initiated_shutdown, init_complete, system, device, charger,
                     extreme, sm, phy, idle_timer, topology, indicating, sleep_pending>>
      /\ registered' = registered + 1 /\ registered' \in 0 .. Len(Order)
      /\ allow_sleep' = allow_sleep \cup ({c} \ {SM})
    BY <1>1, <1>2, <1>4 DEF ClientRegister, Registers, smVars
<1>6. \A id \in PowerInds : ~Has(messages, c, id)
    BY <1>3 DEF PowerInv, InitInv
<1>7. CASE state = "terminating_notified"
    <2>1. shutdown_pending' = shutdown_pending \cup {c}
        BY <1>2, <1>7 DEF ClientRegister
    <2>2. Sent(messages, messages', c, "shutdown_prepare")
        <3>1. messages' = Append(messages, Msg(c, "shutdown_prepare"))
            BY <1>2, <1>7 DEF ClientRegister
        <3>2. messages \in Seq(Messages) /\ "shutdown_prepare" \in MessageIds
            BY DEF PowerInv, TypeOK, Messages, MessageIds, PowerInds
        <3> QED
            BY <1>3, <3>1, <3>2, AppendMsg
    <2> USE DEF PowerInv, Sent
    <2>3. TypeOK' /\ PendingOnlyWhileNotified' /\ DownInv'
        <3>1. messages' \in Seq(Messages)
            BY <2>2
        <3> HIDE DEF Sent
        <3>2. TypeOK'
            BY <1>3, <1>5, <2>1, <3>1 DEF TypeOK, Messages
        <3> QED
            BY <1>5, <1>7, <2>1, <3>2 DEF PendingOnlyWhileNotified, DownInv
    <2>4. InitInv'
        BY <1>3, <1>4, <1>5, <1>7, <2>2 DEF InitInv, PowerInds
    <2>5. IdleInv'
        <3>1. device' # "idle timeout"
            BY <1>5 DEF IdleInv
        <3>2. /\ Has(messages', SM, "idle_timeout") => Has(messages, SM, "idle_timeout")
              /\ Single(messages, SM, "idle_timeout") => Single(messages', SM, "idle_timeout")
            BY <2>2
        <3> QED
            BY <1>5, <3>1, <3>2, IdleStays
    <2>6. SleepInv'
        BY <1>4, <1>5 DEF SleepInv, MaySleep, CanSleep, StateIsSleepy
    <2>7. AskedInv'
        BY <1>5, <1>6, <2>1, <2>2 DEF AskedInv, Prepares, PowerInds
    <2>8. CancelInv'
        BY <1>5, <1>6, <1>7, <2>2 DEF CancelInv, Tidings, Prepares, PowerInds, NoneCancelled, NoneUnread
    <2>9. TermInv'
        BY <1>3, <1>4, <1>5, <1>6, <1>7, <2>1, <2>2 DEF TermInv, InitInv, Tidings, Prepares, PowerInds,
            NoneCancelled, NoneUnread
    <2>10. StopInv'
        BY <1>3, <1>5, <1>6, <1>7, <2>1, <2>2 DEF StopInv, Tidings, Prepares, PowerInds,
            NoneCancelled, NoneUnread, TypeOK
    <2>11. ConfirmInv'
        BY <1>4, <1>5, <2>2 DEF ConfirmInv, InitInv
    <2> QED
        BY <2>3, <2>4, <2>5, <2>6, <2>7, <2>8, <2>9, <2>10, <2>11
<1>8. CASE state # "terminating_notified"
    <2>1. UNCHANGED <<shutdown_pending, messages>>
        BY <1>2, <1>4, <1>8 DEF ClientRegister
    <2> USE DEF PowerInv
    <2>3. TypeOK' /\ PendingOnlyWhileNotified' /\ DownInv'
        BY <1>3, <1>5, <2>1, ZenonT(60) DEF TypeOK, PendingOnlyWhileNotified, DownInv
    <2>4. InitInv'
        BY <1>3, <1>4, <1>5, <1>8, <2>1 DEF InitInv
    <2>5. IdleInv'
        <3>1. device' # "idle timeout"
            BY <1>5 DEF IdleInv
        <3> QED
            BY <1>5, <2>1, <3>1, IdleStays
    <2>6. SleepInv'
        BY <1>4, <1>5 DEF SleepInv, MaySleep, CanSleep, StateIsSleepy
    <2>7. AskedInv' /\ CancelInv' /\ StopInv' /\ ConfirmInv'
        BY <1>5, <2>1 DEF AskedInv, CancelInv, StopInv, ConfirmInv, NoneCancelled, NoneUnread
    <2>8. TermInv'
        BY <1>4, <1>5, <1>8, <2>1 DEF TermInv, NoneCancelled, NoneUnread
    <2> QED
        BY <2>3, <2>4, <2>5, <2>6, <2>7, <2>8
<1> QED
    BY <1>7, <1>8
----------------------------------------------------------------------------
(* A task takes its message from the queue, and nothing else changes. *)

(* A message of which the invariant says nothing that its loss disturbs. *)
Idle(task, ind) ==
    \/ task \in Prompt \cup Ui
    \/ task = SM /\ ind \in {"out", "in", "start_cfm", "init_cfm"}

(* A task that handles a message without changing the power manager keeps  *)
(* the invariant.                                                          *)
LEMMA TaskReads ==
    ASSUME PowerInv, NEW task, NEW ind, NEW msgs, Idle(task, ind),
           Consumed(messages, msgs, task, ind), StaysInState(msgs),
           UNCHANGED <<registered, allow_sleep, init_complete, extreme, sm, phy, idle_timer, topology>>,
           indicating' \subseteq Ui
    PROVE  PowerInv'
<1>1. UNCHANGED <<state, registered, allow_sleep, shutdown_pending, sleep_pending, init_complete,
                     user_initiated_shutdown, system, device, charger, extreme, sm, phy,
                     idle_timer, topology, clients>>
    BY DEF StaysInState, clients
<1>2. Consumed(messages, messages', task, ind)
    BY DEF StaysInState
<1> USE DEF Consumed
<1>q. \A id \in PowerInds \cup {"stop_cfm"} : Has(messages', SM, id) <=> Has(messages, SM, id)
    BY <1>2, ClientFacts DEF PowerInds, Idle
<1> USE DEF PowerInv
<1>3. TypeOK' /\ PendingOnlyWhileNotified' /\ DownInv'
    <2>1. messages' \in Seq(Messages)
        BY <1>2
    <2>2. TypeOK'
        BY <1>1, <2>1, ZenonT(60) DEF TypeOK, Messages
    <2> QED
        BY <1>1, <2>2 DEF PendingOnlyWhileNotified, DownInv
<1>4. InitInv'
    BY <1>1, <1>2 DEF InitInv
<1>5. IdleInv'
    <2>1. /\ Has(messages', SM, "idle_timeout") => Has(messages, SM, "idle_timeout")
          /\ Single(messages, SM, "idle_timeout") => Single(messages', SM, "idle_timeout")
        BY <1>2
    <2>2. device' # "idle timeout"
        BY <1>1 DEF IdleInv
    <2> QED
        BY <1>1, <2>1, <2>2, IdleStays
<1>6. SleepInv'
    <2>1. Has(messages, "power", "report") => Has(messages', "power", "report")
        BY <1>2, ClientFacts DEF Idle
    <2> HIDE DEF Consumed
    <2> QED
        BY <1>1, <1>q, <2>1 DEF SleepInv,
            MaySleep, AllAllowSleep, CanSleep, CanPowerOff, StateIsSleepy
<1>7. AskedInv'
    BY <1>1, <1>2 DEF AskedInv, Prepares
<1>8. CancelInv'
    BY <1>1, <1>2, <1>q DEF CancelInv, NoneCancelled, NoneUnread, Tidings, Prepares, PowerInds
<1>9. TermInv'
    <2> HIDE DEF Consumed
    <2> QED
        BY <1>1, <1>q DEF TermInv, NoneCancelled, NoneUnread, Tidings, Prepares, PowerInds
<1>10. StopInv'
    BY <1>1, <1>2, <1>q DEF StopInv, NoneCancelled, NoneUnread, Tidings, Prepares, PowerInds
<1>11. ConfirmInv'
    BY <1>1, <1>2 DEF ConfirmInv
<1> QED
    BY <1>3, <1>4, <1>5, <1>6, <1>7, <1>8, <1>9, <1>10, <1>11
----------------------------------------------------------------------------
(* The answers of the clients. *)

(* The answer of a client to shutdown_prepare: it counts, or it comes from    *)
(* an indication that outlived the handshake it was for.                   *)
LEMMA ShutdownAnswered ==
    ASSUME PowerInv, device = "on", NEW task, NEW ind, NEW msgs,
           \/ task \in Prompt /\ ind = "shutdown_prepare"
           \/ task \in Ui
           \/ task = SM /\ ind = "stop_cfm" /\ sm = "terminating",
           Consumed(messages, msgs, task, ind), ShutdownPrepareResponse(task, msgs),
           UNCHANGED <<init_complete, extreme, sm, phy, idle_timer, topology, indicating>>
    PROVE  PowerInv'
<1>1. /\ UNCHANGED <<registered, allow_sleep, init_complete, extreme, sm, phy, idle_timer,
                     topology, indicating, clients>>
      /\ task \in Clients /\ Has(messages, task, ind) /\ (task = SM => ind = "stop_cfm")
    BY ClientFacts DEF ShutdownPrepareResponse, clients, Consumed
<1>2. task \notin Ui => task \in shutdown_pending /\ task \in clients /\ state = "terminating_notified"
    <2>1. ASSUME task \in Prompt PROVE task \in shutdown_pending
        BY <1>1, <2>1, ClientFacts DEF PowerInv, AskedInv
    <2>2. ASSUME task = SM PROVE task \in shutdown_pending
        <3>1. sm = "terminating" /\ Has(messages, SM, "stop_cfm")
            BY <1>1, <2>2, ClientFacts
        <3>2. NoneCancelled /\ SM \in shutdown_pending \cup sleep_pending
            BY <3>1 DEF PowerInv, StopInv
        <3>3. state \in {"terminating_notified", "terminating_responded"}
            BY <3>1, <3>2 DEF PowerInv, TermInv
        <3> QED
            BY <2>2, <3>2, <3>3 DEF PowerInv, PendingOnlyWhileNotified
    <2>3. task \in shutdown_pending => task \in clients /\ state = "terminating_notified"
        BY DEF PowerInv, TypeOK, PendingOnlyWhileNotified
    <2> QED
        BY <2>1, <2>2, <2>3
<1>3. CASE ~(state = "terminating_notified" /\ task \in clients)
    <2>1. task \in Ui /\ StaysInState(msgs)
        BY <1>2, <1>3 DEF ShutdownPrepareResponse
    <2>2. Idle(task, ind) /\ indicating' \subseteq Ui
        BY <1>1, <2>1 DEF Idle, PowerInv, TypeOK
    <2> QED
        BY <1>1, <2>1, <2>2, TaskReads
<1>4. CASE state = "terminating_notified" /\ task \in clients
    <2>1. /\ shutdown_pending' = shutdown_pending \ {task} /\ UNCHANGED sleep_pending
          /\ sleep_pending = {} /\ shutdown_pending # {}
        BY <1>4 DEF ShutdownPrepareResponse, PowerInv, PendingOnlyWhileNotified
    <2>2. /\ \A c \in Clients \ Ui : ~Has(messages, c, "sleep_prepare")
          /\ \A c \in Clients \ Ui : Has(msgs, c, "shutdown_prepare") => c \in shutdown_pending'
        <3>1. \A c \in Clients \ Ui : ~Has(messages, c, "sleep_prepare")
            BY <2>1 DEF PowerInv, AskedInv
        <3>2. task \notin Ui => ~Has(msgs, task, "shutdown_prepare")
            <4>1. CASE task \in Prompt
                BY <4>1, ClientFacts DEF PowerInv, AskedInv, Consumed, Prepares
            <4>2. CASE task = SM
                BY <1>1, <4>2 DEF PowerInv, StopInv, NoneUnread, Prepares, Consumed
            <4> QED
                BY <4>1, <4>2
        <3> QED
            BY <2>1, <3>1, <3>2 DEF PowerInv, AskedInv, Consumed
    <2>3. task = SM => /\ sm = "terminating" /\ NoneCancelled /\ NoneUnread
                       /\ "stop" \notin topology /\ ~Has(msgs, SM, "stop_cfm")
        BY <1>1, ClientFacts DEF PowerInv, StopInv, Consumed
    <2>4. /\ msgs \in Seq(Messages)
          /\ \A id \in PowerInds : Has(msgs, SM, id) <=> Has(messages, SM, id)
          /\ task # SM => (Has(msgs, SM, "stop_cfm") <=> Has(messages, SM, "stop_cfm"))
          /\ \A c, id : Has(msgs, c, id) => Has(messages, c, id)
        BY <1>1 DEF Consumed, PowerInds
    <2>5. /\ \A c, id : Single(messages, c, id) => Single(msgs, c, id)
          /\ \A c, id, jd : Before(messages, c, id, jd) => Before(msgs, c, id, jd)
        BY DEF Consumed
    <2>6. Has(msgs, SM, "init_cfm") /\ sm = "soporific_terminating" => SM \in sleep_pending'
        <3>1. ASSUME Has(messages, SM, "init_cfm"), sm = "soporific_terminating", task = SM
              PROVE  FALSE
            BY <1>1, <3>1 DEF PowerInv, ConfirmInv, Consumed
        <3> QED
            BY <2>1, <2>4, <3>1 DEF PowerInv, ConfirmInv
    <2>7. CASE shutdown_pending' # {}
        <3>1. /\ UNCHANGED <<state, user_initiated_shutdown, system, device, charger>>
              /\ messages' = msgs
            BY <1>4, <2>7 DEF ShutdownPrepareResponse
        <3> USE DEF PowerInv
        <3>2. TypeOK'
            BY <1>1, <2>1, <2>4, <3>1 DEF TypeOK, Messages
        <3>3. PendingOnlyWhileNotified' /\ DownInv'
            BY <1>4, <2>1, <2>7, <3>1 DEF PendingOnlyWhileNotified, DownInv
        <3>4. InitInv'
            BY <1>1, <2>4, <3>1 DEF InitInv
        <3>5. IdleInv'
            <4>1. device' # "idle timeout"
                BY <3>1 DEF IdleInv
            <4> QED
                BY <1>1, <2>4, <2>5, <3>1, <4>1, IdleStays
        <3>6. SleepInv'
            BY <1>1, <1>4, <3>1 DEF SleepInv, StateIsSleepy
        <3>7. AskedInv'
            BY <2>2, <2>4, <2>5, <3>1 DEF AskedInv, Prepares
        <3>8. CancelInv'
            BY <1>1, <2>4, <2>5, <3>1 DEF CancelInv, NoneCancelled, NoneUnread, Tidings, Prepares,
                PowerInds
        <3>9. TermInv'
            BY <1>1, <1>4, <2>1, <2>3, <2>4, <3>1 DEF TermInv, NoneCancelled, NoneUnread, Tidings,
                Prepares, PowerInds
        <3>10. StopInv'
            BY <1>1, <2>1, <2>3, <2>4, <2>5, <3>1 DEF StopInv, NoneCancelled, NoneUnread, Tidings,
                Prepares, PowerInds, SubStateIsTerminating
        <3>11. ConfirmInv'
            BY <1>1, <2>4, <2>5, <2>6, <3>1 DEF ConfirmInv
        <3> QED
            BY <3>2, <3>3, <3>4, <3>5, <3>6, <3>7, <3>8, <3>9, <3>10, <3>11
    <2>8. CASE shutdown_pending' = {}
        <3>1. EnterTerminatingResponded(user_initiated_shutdown, msgs)
            BY <1>4, <2>8 DEF ShutdownPrepareResponse
        <3>2. SM \in clients => sm = "terminating" /\ NoneCancelled
            BY <1>4, <2>1, <2>3, <2>8 DEF PowerInv, TermInv
        <3>3. "stop" \notin topology /\ ~Has(msgs, SM, "stop_cfm")
            <4>1. task # SM => SM \notin shutdown_pending \cup sleep_pending
                BY <2>1, <2>8
            <4> QED
                BY <2>3, <2>4, <4>1 DEF PowerInv, StopInv
        <3>4. \A c \in Clients \ Ui, id \in Prepares : ~Has(msgs, c, id)
            BY <2>2, <2>4, <2>8 DEF Prepares
        <3>5. \A id \in PowerInds : ~Has(msgs, SM, id)
            BY <2>4, <3>2, <3>4, ClientFacts
               DEF PowerInds, Prepares, Tidings, NoneCancelled, PowerInv, InitInv
        <3>6. Has(msgs, SM, "init_cfm") => sm # "soporific_terminating"
            BY <2>1, <2>6, <2>8
        <3>7. /\ user_initiated_shutdown' \in BOOLEAN /\ charger' \in BOOLEAN
              /\ system' \in {system, "powered_off"}
              /\ \/ state' = "terminating_responded" /\ device' = "off" /\ messages' = msgs
                 \/ /\ state' = "ok" /\ UNCHANGED device
                    /\ messages' = Multicast(msgs, "shutdown_cancelled")
            BY <3>1 DEF EnterTerminatingResponded, EnterPowerStateOk, PowerInv, TypeOK
        <3> USE DEF PowerInv
        <3>8. CASE messages' = msgs /\ state' = "terminating_responded"
            <4>1. TypeOK'
                BY <1>1, <2>1, <2>4, <2>8, <3>7, <3>8 DEF TypeOK, Messages, PowerStates
            <4>2. PendingOnlyWhileNotified' /\ DownInv'
                BY <2>1, <2>8, <3>7, <3>8 DEF PendingOnlyWhileNotified, DownInv
            <4>3. InitInv'
                BY <1>1, <1>4, <2>4, <3>7, <3>8 DEF InitInv
            <4>4. IdleInv'
                <5>1. device' # "idle timeout"
                    BY <3>7, <3>8
                <5> QED
                    BY <1>1, <2>4, <2>5, <3>8, <5>1, IdleStays
            <4>5. SleepInv'
                BY <1>1, <3>8 DEF SleepInv, StateIsSleepy
            <4>6. AskedInv'
                BY <2>5, <3>4, <3>8 DEF AskedInv, Prepares
            <4>7. CancelInv'
                BY <2>5, <3>5, <3>8 DEF CancelInv, NoneCancelled, Tidings, Prepares, PowerInds
            <4>8. TermInv'
                BY <1>1, <2>1, <2>8, <3>2, <3>5, <3>8 DEF TermInv, InitInv, NoneCancelled, NoneUnread, Tidings,
                    Prepares, PowerInds
            <4>9. StopInv'
                BY <1>1, <2>5, <3>3, <3>8 DEF StopInv
            <4>10. ConfirmInv'
                BY <1>1, <3>6, <3>7, <3>8 DEF ConfirmInv
            <4> QED
                BY <4>1, <4>2, <4>3, <4>4, <4>5, <4>6, <4>7, <4>8, <4>9, <4>10
        <3>9. CASE messages' = Multicast(msgs, "shutdown_cancelled") /\ state' = "ok"
            <4>1. SentToAll(msgs, messages', "shutdown_cancelled")
                <5>1. registered \in 0 .. Len(Order) /\ "shutdown_cancelled" \in MessageIds
                    BY DEF TypeOK, MessageIds, PowerInds
                <5> QED
                    BY <2>4, <3>9, <5>1, MulticastMsg
            <4>2. UNCHANGED device
                BY <3>7, <3>9
            <4>3. TypeOK'
                <5>1. messages' \in Seq(Messages)
                    BY <4>1 DEF SentToAll
                <5> QED
                    BY <1>1, <2>1, <2>8, <3>7, <3>9, <4>2, <5>1 DEF TypeOK, Messages, PowerStates
            <4>4. PendingOnlyWhileNotified' /\ DownInv'
                BY <1>4, <2>1, <2>8, <3>9, <4>2 DEF PendingOnlyWhileNotified, DownInv
            <4>5. InitInv'
                BY <1>1, <2>4, <3>7, <3>9, <4>1 DEF InitInv, SentToAll
            <4>6. IdleInv'
                <5>1. device' # "idle timeout"
                    BY <4>2 DEF IdleInv
                <5>2. /\ Has(messages', SM, "idle_timeout") => Has(messages, SM, "idle_timeout")
                      /\ Single(messages, SM, "idle_timeout") => Single(messages', SM, "idle_timeout")
                    BY <2>4, <2>5, <4>1 DEF SentToAll
                <5> QED
                    BY <1>1, <5>1, <5>2, IdleStays
            <4>7. SleepInv'
                <5>1. init_complete => SM \in clients
                    BY ClientFacts, RegisteredFacts DEF InitInv, TypeOK
                <5>2. SM \in clients => Has(messages', SM, "shutdown_cancelled")
                    BY <4>1 DEF SentToAll
                <5> QED
                    BY <1>1, <5>1, <5>2 DEF SleepInv, StateIsSleepy, MaySleep, CanSleep, PowerInds
            <4>8. AskedInv'
                BY <2>5, <3>4, <4>1 DEF AskedInv, Prepares, SentToAll
            <4>9. \A id \in PowerInds : Has(messages', SM, id) <=> SM \in clients /\ id = "shutdown_cancelled"
                BY <3>5, <4>1 DEF SentToAll, PowerInds
            <4>10. CancelInv'
                <5>1. /\ \A id \in Tidings : Single(messages', SM, id)
                      /\ \A id \in Tidings, jd \in Prepares : Before(messages', SM, id, jd)
                    BY <2>5, <3>5, <4>1 DEF CancelInv, Tidings, Prepares, PowerInds, SentToAll
                <5> QED
                    BY <1>1, <3>2, <3>9, <4>9, <5>1 DEF CancelInv, Tidings, PowerInds
            <4>11. TermInv'
                BY <1>1, <2>1, <2>8, <3>2, <3>9, <4>9, ClientFacts DEF TermInv, InitInv, NoneCancelled, Tidings, PowerInds
            <4>12. StopInv'
                <5>1. ~Has(messages', SM, "stop_cfm") /\ Single(messages', SM, "stop_cfm")
                    BY <2>5, <3>3, <4>1 DEF StopInv, SentToAll
                <5> QED
                    BY <1>1, <3>3, <5>1 DEF StopInv
            <4>13. ConfirmInv'
                <5>1. Has(messages', SM, "init_cfm") => Has(msgs, SM, "init_cfm")
                    BY <4>1 DEF SentToAll
                <5> QED
                    BY <1>1, <3>6, <3>7, <5>1 DEF ConfirmInv
            <4> QED
                BY <4>3, <4>4, <4>5, <4>6, <4>7, <4>8, <4>10, <4>11, <4>12, <4>13
        <3> QED
            BY <3>7, <3>8, <3>9
    <2> QED
        BY <2>7, <2>8
<1> QED
    BY <1>3, <1>4

(* The answer of a client to sleep_prepare: it counts, or it comes from    *)
(* an indication that outlived the handshake it was for.                   *)
LEMMA SleepAnswered ==
    ASSUME PowerInv, device = "on", NEW task, NEW ind, NEW msgs,
           \/ task \in Prompt /\ ind = "sleep_prepare"
           \/ task \in Ui
           \/ task = SM /\ ind = "stop_cfm" /\ sm = "soporific_terminating",
           Consumed(messages, msgs, task, ind), SleepPrepareResponse(task, msgs),
           UNCHANGED <<init_complete, extreme, sm, phy, idle_timer, topology, indicating>>
    PROVE  PowerInv'
<1>1. /\ UNCHANGED <<registered, allow_sleep, init_complete, extreme, sm, phy, idle_timer,
                     topology, indicating, clients>>
      /\ task \in Clients /\ Has(messages, task, ind) /\ (task = SM => ind = "stop_cfm")
    BY ClientFacts DEF SleepPrepareResponse, clients, Consumed
<1>2. task \notin Ui => task \in sleep_pending /\ task \in clients /\ state = "soporific_notified"
    <2>1. ASSUME task \in Prompt PROVE task \in sleep_pending
        BY <1>1, <2>1, ClientFacts DEF PowerInv, AskedInv
    <2>2. ASSUME task = SM PROVE task \in sleep_pending
        <3>1. sm = "soporific_terminating" /\ Has(messages, SM, "stop_cfm")
            BY <1>1, <2>2, ClientFacts
        <3>2. NoneCancelled /\ SM \in shutdown_pending \cup sleep_pending
            BY <3>1 DEF PowerInv, StopInv
        <3>3. state \in {"soporific_notified", "soporific_responded"}
            BY <3>1, <3>2 DEF PowerInv, TermInv
        <3> QED
            BY <2>2, <3>2, <3>3 DEF PowerInv, PendingOnlyWhileNotified
    <2>3. task \in sleep_pending => task \in clients /\ state = "soporific_notified"
        BY DEF PowerInv, TypeOK, PendingOnlyWhileNotified
    <2> QED
        BY <2>1, <2>2, <2>3
<1>3. CASE ~(state = "soporific_notified" /\ task \in clients)
    <2>1. task \in Ui /\ StaysInState(msgs)
        BY <1>2, <1>3 DEF SleepPrepareResponse
    <2>2. Idle(task, ind) /\ indicating' \subseteq Ui
        BY <1>1, <2>1 DEF Idle, PowerInv, TypeOK
    <2> QED
        BY <1>1, <2>1, <2>2, TaskReads
<1>4. CASE state = "soporific_notified" /\ task \in clients
    <2>1. /\ sleep_pending' = sleep_pending \ {task} /\ UNCHANGED shutdown_pending
          /\ shutdown_pending = {} /\ sleep_pending # {}
        BY <1>4 DEF SleepPrepareResponse, PowerInv, PendingOnlyWhileNotified
    <2>2. /\ \A c \in Clients \ Ui : ~Has(messages, c, "shutdown_prepare")
          /\ \A c \in Clients \ Ui : Has(msgs, c, "sleep_prepare") => c \in sleep_pending'
        <3>1. \A c \in Clients \ Ui : ~Has(messages, c, "shutdown_prepare")
            BY <2>1 DEF PowerInv, AskedInv
        <3>2. task \notin Ui => ~Has(msgs, task, "sleep_prepare")
            <4>1. CASE task \in Prompt
                BY <4>1, ClientFacts DEF PowerInv, AskedInv, Consumed, Prepares
            <4>2. CASE task = SM
                BY <1>1, <4>2 DEF PowerInv, StopInv, NoneUnread, Prepares, Consumed
            <4> QED
                BY <4>1, <4>2
        <3> QED
            BY <2>1, <3>1, <3>2 DEF PowerInv, AskedInv, Consumed
    <2>3. task = SM => /\ sm = "soporific_terminating" /\ NoneCancelled /\ NoneUnread
                       /\ "stop" \notin topology /\ ~Has(msgs, SM, "stop_cfm")
        BY <1>1, ClientFacts DEF PowerInv, StopInv, Consumed
    <2>4. /\ msgs \in Seq(Messages)
          /\ \A id \in PowerInds : Has(msgs, SM, id) <=> Has(messages, SM, id)
          /\ task # SM => (Has(msgs, SM, "stop_cfm") <=> Has(messages, SM, "stop_cfm"))
          /\ \A c, id : Has(msgs, c, id) => Has(messages, c, id)
        BY <1>1 DEF Consumed, PowerInds
    <2>5. /\ \A c, id : Single(messages, c, id) => Single(msgs, c, id)
          /\ \A c, id, jd : Before(messages, c, id, jd) => Before(msgs, c, id, jd)
        BY DEF Consumed
    <2>6. Has(msgs, SM, "init_cfm") /\ sm = "soporific_terminating" => SM \in sleep_pending'
        <3>1. ASSUME Has(messages, SM, "init_cfm"), sm = "soporific_terminating", task = SM
              PROVE  FALSE
            BY <1>1, <3>1 DEF PowerInv, ConfirmInv, Consumed
        <3> QED
            BY <2>1, <2>4, <3>1 DEF PowerInv, ConfirmInv
    <2>7. CASE sleep_pending' # {}
        <3>1. /\ UNCHANGED <<state, user_initiated_shutdown, system, device, charger>>
              /\ messages' = msgs
            BY <1>4, <2>7 DEF SleepPrepareResponse
        <3> USE DEF PowerInv
        <3>2. TypeOK'
            BY <1>1, <2>1, <2>4, <3>1 DEF TypeOK, Messages
        <3>3. PendingOnlyWhileNotified' /\ DownInv'
            BY <1>4, <2>1, <2>7, <3>1 DEF PendingOnlyWhileNotified, DownInv
        <3>4. InitInv'
            BY <1>1, <2>4, <3>1 DEF InitInv
        <3>5. IdleInv'
            <4>1. device' # "idle timeout"
                BY <3>1 DEF IdleInv
            <4> QED
                BY <1>1, <2>4, <2>5, <3>1, <4>1, IdleStays
        <3>6. SleepInv'
            BY <1>1, <1>4, <3>1 DEF SleepInv, StateIsSleepy
        <3>7. AskedInv'
            BY <2>2, <2>4, <2>5, <3>1 DEF AskedInv, Prepares
        <3>8. CancelInv'
            BY <1>1, <2>4, <2>5, <3>1 DEF CancelInv, NoneCancelled, NoneUnread, Tidings, Prepares,
                PowerInds
        <3>9. TermInv'
            BY <1>1, <1>4, <2>1, <2>3, <2>4, <3>1 DEF TermInv, NoneCancelled, NoneUnread, Tidings,
                Prepares, PowerInds
        <3>10. StopInv'
            BY <1>1, <2>1, <2>3, <2>4, <2>5, <3>1 DEF StopInv, NoneCancelled, NoneUnread, Tidings,
                Prepares, PowerInds, SubStateIsTerminating
        <3>11. ConfirmInv'
            BY <1>1, <2>4, <2>5, <2>6, <3>1 DEF ConfirmInv
        <3> QED
            BY <3>2, <3>3, <3>4, <3>5, <3>6, <3>7, <3>8, <3>9, <3>10, <3>11
    <2>8. CASE sleep_pending' = {}
        <3>1. EnterSoporificResponded(msgs)
            BY <1>4, <2>8 DEF SleepPrepareResponse
        <3>2. SM \in clients => sm = "soporific_terminating" /\ NoneCancelled
            BY <1>4, <2>1, <2>3, <2>8 DEF PowerInv, TermInv
        <3>3. "stop" \notin topology /\ ~Has(msgs, SM, "stop_cfm")
            <4>1. task # SM => SM \notin shutdown_pending \cup sleep_pending
                BY <2>1, <2>8
            <4> QED
                BY <2>3, <2>4, <4>1 DEF PowerInv, StopInv
        <3>4. \A c \in Clients \ Ui, id \in Prepares : ~Has(msgs, c, id)
            BY <2>2, <2>4, <2>8 DEF Prepares
        <3>5. \A id \in PowerInds : ~Has(msgs, SM, id)
            BY <2>4, <3>2, <3>4, ClientFacts
               DEF PowerInds, Prepares, Tidings, NoneCancelled, PowerInv, InitInv
        <3>6. Has(msgs, SM, "init_cfm") => sm # "soporific_terminating"
            BY <2>1, <2>6, <2>8
        <3>7. /\ user_initiated_shutdown' \in BOOLEAN /\ charger' \in BOOLEAN
              /\ system' \in {system, "going_to_sleep"}
              /\ \/ state' = "soporific_responded" /\ device' \in {"on", "dormant"} /\ messages' = msgs
                 \/ /\ state' = "ok" /\ UNCHANGED device
                    /\ messages' = Multicast(msgs, "sleep_cancelled")
            BY <3>1 DEF EnterSoporificResponded, EnterPowerStateOk, PowerInv, TypeOK
        <3> USE DEF PowerInv
        <3>8. CASE messages' = msgs /\ state' = "soporific_responded"
            <4>1. TypeOK'
                BY <1>1, <2>1, <2>4, <2>8, <3>7, <3>8 DEF TypeOK, Messages, PowerStates
            <4>2. PendingOnlyWhileNotified' /\ DownInv'
                BY <2>1, <2>8, <3>7, <3>8 DEF PendingOnlyWhileNotified, DownInv
            <4>3. InitInv'
                BY <1>1, <1>4, <2>4, <3>7, <3>8 DEF InitInv
            <4>4. IdleInv'
                <5>1. device' # "idle timeout"
                    BY <3>7, <3>8
                <5> QED
                    BY <1>1, <2>4, <2>5, <3>8, <5>1, IdleStays
            <4>5. SleepInv'
                BY <1>1, <3>8 DEF SleepInv, StateIsSleepy
            <4>6. AskedInv'
                BY <2>5, <3>4, <3>8 DEF AskedInv, Prepares
            <4>7. CancelInv'
                BY <2>5, <3>5, <3>8 DEF CancelInv, NoneCancelled, Tidings, Prepares, PowerInds
            <4>8. TermInv'
                BY <1>1, <2>1, <2>8, <3>2, <3>5, <3>8 DEF TermInv, InitInv, NoneCancelled, NoneUnread, Tidings,
                    Prepares, PowerInds
            <4>9. StopInv'
                BY <1>1, <2>5, <3>3, <3>8 DEF StopInv
            <4>10. ConfirmInv'
                BY <1>1, <3>6, <3>7, <3>8 DEF ConfirmInv
            <4> QED
                BY <4>1, <4>2, <4>3, <4>4, <4>5, <4>6, <4>7, <4>8, <4>9, <4>10
        <3>9. CASE messages' = Multicast(msgs, "sleep_cancelled") /\ state' = "ok"
            <4>1. SentToAll(msgs, messages', "sleep_cancelled")
                <5>1. registered \in 0 .. Len(Order) /\ "sleep_cancelled" \in MessageIds
                    BY DEF TypeOK, MessageIds, PowerInds
                <5> QED
                    BY <2>4, <3>9, <5>1, MulticastMsg
            <4>2. UNCHANGED device
                BY <3>7, <3>9
            <4>3. TypeOK'
                <5>1. messages' \in Seq(Messages)
                    BY <4>1 DEF SentToAll
                <5> QED
                    BY <1>1, <2>1, <2>8, <3>7, <3>9, <4>2, <5>1 DEF TypeOK, Messages, PowerStates
            <4>4. PendingOnlyWhileNotified' /\ DownInv'
                BY <1>4, <2>1, <2>8, <3>9, <4>2 DEF PendingOnlyWhileNotified, DownInv
            <4>5. InitInv'
                BY <1>1, <2>4, <3>7, <3>9, <4>1 DEF InitInv, SentToAll
            <4>6. IdleInv'
                <5>1. device' # "idle timeout"
                    BY <4>2 DEF IdleInv
                <5>2. /\ Has(messages', SM, "idle_timeout") => Has(messages, SM, "idle_timeout")
                      /\ Single(messages, SM, "idle_timeout") => Single(messages', SM, "idle_timeout")
                    BY <2>4, <2>5, <4>1 DEF SentToAll
                <5> QED
                    BY <1>1, <5>1, <5>2, IdleStays
            <4>7. SleepInv'
                <5>1. init_complete => SM \in clients
                    BY ClientFacts, RegisteredFacts DEF InitInv, TypeOK
                <5>2. SM \in clients => Has(messages', SM, "sleep_cancelled")
                    BY <4>1 DEF SentToAll
                <5> QED
                    BY <1>1, <5>1, <5>2 DEF SleepInv, StateIsSleepy, MaySleep, CanSleep, PowerInds
            <4>8. AskedInv'
                BY <2>5, <3>4, <4>1 DEF AskedInv, Prepares, SentToAll
            <4>9. \A id \in PowerInds : Has(messages', SM, id) <=> SM \in clients /\ id = "sleep_cancelled"
                BY <3>5, <4>1 DEF SentToAll, PowerInds
            <4>10. CancelInv'
                <5>1. /\ \A id \in Tidings : Single(messages', SM, id)
                      /\ \A id \in Tidings, jd \in Prepares : Before(messages', SM, id, jd)
                    BY <2>5, <3>5, <4>1 DEF CancelInv, Tidings, Prepares, PowerInds, SentToAll
                <5> QED
                    BY <1>1, <3>2, <3>9, <4>9, <5>1 DEF CancelInv, Tidings, PowerInds
            <4>11. TermInv'
                BY <1>1, <2>1, <2>8, <3>2, <3>9, <4>9, ClientFacts DEF TermInv, InitInv, NoneCancelled, Tidings, PowerInds
            <4>12. StopInv'
                <5>1. ~Has(messages', SM, "stop_cfm") /\ Single(messages', SM, "stop_cfm")
                    BY <2>5, <3>3, <4>1 DEF StopInv, SentToAll
                <5> QED
                    BY <1>1, <3>3, <5>1 DEF StopInv
            <4>13. ConfirmInv'
                <5>1. Has(messages', SM, "init_cfm") => Has(msgs, SM, "init_cfm")
                    BY <4>1 DEF SentToAll
                <5> QED
                    BY <1>1, <3>6, <3>7, <5>1 DEF ConfirmInv
            <4> QED
                BY <4>3, <4>4, <4>5, <4>6, <4>7, <4>8, <4>10, <4>11, <4>12, <4>13
        <3> QED
            BY <3>7, <3>8, <3>9
    <2> QED
        BY <2>7, <2>8
<1> QED
    BY <1>3, <1>4
----------------------------------------------------------------------------
(* The application. *)

LEMMA ReceivedMsg ==
    ASSUME PowerInv, NEW task, NEW ind, Received(task, ind)
    PROVE  Consumed(messages, Rest, task, ind) /\ device = "on" /\ Has(messages, task, ind)
<1>1. messages \in Seq(Messages) /\ messages # <<>> /\ Head(messages) = Msg(task, ind)
    BY DEF PowerInv, TypeOK, Messages, Received
<1>2. Consumed(messages, Rest, task, ind)
    BY <1>1, TailMsg DEF Rest
<1> QED
    BY <1>2 DEF Received, Running, Consumed

(* appSmSetState, up to its calls of the power manager. *)
LEMMA SmSets ==
    ASSUME PowerInv, NEW ind, Received(SM, ind), NEW new, SmSetState(new, Rest)
    PROVE  \E left :
              /\ Consumed(messages, left, SM, ind) /\ ~Has(left, SM, "idle_timeout")
              /\ sm' = new /\ idle_timer' = (new = "idle")
              /\ topology' = topology \cup Requests(new)
              /\ \/ /\ StateIsSleepy(sm) /\ ~StateIsSleepy(new)
                    /\ ClientProhibitSleep(SM, left)
                 \/ /\ ~StateIsSleepy(sm) /\ StateIsSleepy(new)
                    /\ ClientAllowSleep(SM, left)
                 \/ /\ StateIsSleepy(sm) = StateIsSleepy(new)
                    /\ StaysInState(left) /\ UNCHANGED <<registered, allow_sleep>>
<1> DEFINE left == IF sm = "idle" THEN WithoutIdleTimeout(Rest) ELSE Rest
<1>1. Consumed(messages, Rest, SM, ind) /\ Rest \in Seq(Messages)
    BY ReceivedMsg DEF Consumed
<1>2. Consumed(messages, left, SM, ind)
    BY <1>1, TimeoutMsg
<1>3. ~Has(left, SM, "idle_timeout")
    <2>1. CASE sm = "idle"
        BY <1>1, <2>1, TimeoutMsg DEF PowerInv, IdleInv
    <2>2. CASE sm # "idle"
        BY <1>1, <2>2 DEF PowerInv, IdleInv, Consumed
    <2> QED
        BY <2>1, <2>2
<1>4. /\ sm' = new /\ idle_timer' = (new = "idle") /\ topology' = topology \cup Requests(new)
      /\ CASE StateIsSleepy(sm) /\ ~StateIsSleepy(new) -> ClientProhibitSleep(SM, left)
           [] ~StateIsSleepy(sm) /\ StateIsSleepy(new) -> ClientAllowSleep(SM, left)
           [] OTHER -> StaysInState(left) /\ UNCHANGED <<registered, allow_sleep>>
    BY DEF SmSetState
<1> HIDE DEF left
<1>5. \/ StateIsSleepy(sm) /\ ~StateIsSleepy(new) /\ ClientProhibitSleep(SM, left)
      \/ ~StateIsSleepy(sm) /\ StateIsSleepy(new) /\ ClientAllowSleep(SM, left)
      \/ /\ StateIsSleepy(sm) = StateIsSleepy(new)
         /\ StaysInState(left) /\ UNCHANGED <<registered, allow_sleep>>
    <2>1. StateIsSleepy(sm) \in BOOLEAN /\ StateIsSleepy(new) \in BOOLEAN
        BY DEF StateIsSleepy
    <2> QED
        BY <1>4, <2>1
<1> QED
    BY <1>2, <1>3, <1>4, <1>5

(* The idle timer after appSmSetState. *)
LEMMA IdleSet ==
    ASSUME IdleInv, device' = device, ~Has(messages', SM, "idle_timeout"),
           Single(messages', SM, "idle_timeout"), idle_timer' = (sm' = "idle")
    PROVE  IdleInv'
    BY Zenon DEF IdleInv

(* An assertion of the earbud state machine that fails keeps the           *)
(* invariant.                                                              *)
LEMMA SmPanicsInv ==
    ASSUME PowerInv, NEW assertion \in {"init confirm", "sleep prepare"},
           SmPanics(assertion), SmHandler, device = "on"
    PROVE  PowerInv'
<1>1. /\ UNCHANGED <<state, registered, allow_sleep, shutdown_pending, sleep_pending, messages,
                     user_initiated_shutdown, init_complete, system, charger, extreme, sm, phy,
                     idle_timer, topology, indicating, clients>>
      /\ device' \in {"init confirm", "sleep prepare"}
    BY DEF SmPanics, SmHandler, flagVars, clients
<1> USE DEF PowerInv
<1>2. TypeOK' /\ PendingOnlyWhileNotified' /\ DownInv'
    BY <1>1 DEF TypeOK, PendingOnlyWhileNotified, DownInv
<1>3. InitInv'
    BY <1>1 DEF InitInv
<1>4. IdleInv'
    BY <1>1, IdleStays
<1>5. SleepInv'
    BY <1>1 DEF SleepInv, MaySleep, CanSleep, CanPowerOff, AllAllowSleep, StateIsSleepy
<1>6. AskedInv' /\ CancelInv' /\ TermInv' /\ StopInv' /\ ConfirmInv'
    BY <1>1 DEF AskedInv, CancelInv, TermInv, StopInv, ConfirmInv, NoneCancelled, NoneUnread,
        SubStateIsTerminating
<1> QED
    BY <1>2, <1>3, <1>4, <1>5, <1>6

(* Between the states in which nothing is prepared for. *)
LEMMA SmMoves ==
    ASSUME PowerInv, NEW ind \in {"out", "in", "start_cfm", "init_cfm"}, Received(SM, ind),
           NEW new \in {"startup", "idle", "in_use"}, SmSetState(new, Rest), SmHandler,
           ~SubStateIsTerminating(sm), sm = "initialising" => ind = "init_cfm"
    PROVE  PowerInv'
<1>1. PICK left :
              /\ Consumed(messages, left, SM, ind) /\ ~Has(left, SM, "idle_timeout")
              /\ sm' = new /\ idle_timer' = (new = "idle")
              /\ topology' = topology \cup Requests(new)
              /\ \/ /\ StateIsSleepy(sm) /\ ~StateIsSleepy(new)
                    /\ ClientProhibitSleep(SM, left)
                 \/ /\ ~StateIsSleepy(sm) /\ StateIsSleepy(new)
                    /\ ClientAllowSleep(SM, left)
                 \/ /\ StateIsSleepy(sm) = StateIsSleepy(new)
                    /\ StaysInState(left) /\ UNCHANGED <<registered, allow_sleep>>
    BY SmSets
<1>2. ~StateIsSleepy(new) /\ ~SubStateIsTerminating(new) /\ Requests(new) \subseteq {"start"}
    BY DEF StateIsSleepy, SubStateIsTerminating, Requests
<1>3. /\ UNCHANGED <<state, registered, shutdown_pending, sleep_pending, device,
                     user_initiated_shutdown, init_complete, system, charger, extreme, phy,
                     indicating, clients>>
      /\ messages' = left /\ allow_sleep' = allow_sleep \ {SM}
    <2>1. StaysInState(left) /\ UNCHANGED registered /\ allow_sleep' = allow_sleep \ {SM}
        <3>1. SM \in allow_sleep <=> StateIsSleepy(sm)
            BY DEF PowerInv, SleepInv
        <3> QED
            BY <1>1, <1>2, <3>1 DEF ClientProhibitSleep
    <2> QED
        BY <2>1 DEF StaysInState, SmHandler, clients
<1>4. SM \in clients /\ Has(messages, SM, ind)
    <2>1. Has(messages, SM, ind)
        BY ReceivedMsg
    <2>2. init_complete => SM \in clients
        BY ClientFacts, RegisteredFacts DEF PowerInv, InitInv, TypeOK
    <2> QED
        BY <2>1, <2>2 DEF PowerInv, InitInv
<1> USE DEF Consumed
<1>5. \A id \in PowerInds \cup {"stop_cfm"} : Has(messages', SM, id) <=> Has(messages, SM, id)
    BY <1>1, <1>3 DEF PowerInds
<1> USE DEF PowerInv
<1>6. TypeOK' /\ PendingOnlyWhileNotified' /\ DownInv'
    <2>1. messages' \in Seq(Messages)
        BY <1>1, <1>3
    <2>2. sm' \in SmStates /\ idle_timer' \in BOOLEAN /\ topology' \subseteq {"start", "stop"}
        BY <1>1, <1>2 DEF TypeOK, SmStates
    <2>3. TypeOK'
        BY <1>3, <2>1, <2>2 DEF TypeOK, Messages
    <2> QED
        BY <1>3, <2>3 DEF PendingOnlyWhileNotified, DownInv
<1>7. InitInv'
    BY <1>1, <1>3, <1>4 DEF InitInv
<1>8. IdleInv'
    <2>1. Single(messages', SM, "idle_timeout")
        BY <1>1, <1>3 DEF IdleInv
    <2> QED
        BY <1>1, <1>3, <2>1, IdleSet
<1>9. SleepInv'
    <2>1. SM \notin allow_sleep' /\ SM \in clients'
        BY <1>3, <1>4
    <2> QED
        BY <1>1, <1>2, <2>1 DEF SleepInv, MaySleep, AllAllowSleep
<1>10. AskedInv'
    BY <1>1, <1>3 DEF AskedInv, Prepares
<1>11. NoneCancelled
    BY DEF CancelInv, NoneCancelled, Tidings, SubStateIsTerminating
<1>12. CancelInv'
    BY <1>1, <1>3, <1>5, <1>11 DEF CancelInv, NoneCancelled, Tidings, Prepares, PowerInds
<1>13. TermInv'
    <2> HIDE DEF Consumed
    <2> QED
        BY <1>1, <1>2, <1>3, <1>5, <1>11 DEF TermInv, NoneCancelled, NoneUnread, Tidings, Prepares, PowerInds,
            SubStateIsTerminating
<1>14. StopInv'
    BY <1>1, <1>2, <1>3, <1>5 DEF StopInv
<1>15. ConfirmInv'
    BY <1>1, <1>2 DEF ConfirmInv, SubStateIsTerminating
<1> QED
    BY <1>6, <1>7, <1>8, <1>9, <1>10, <1>12, <1>13, <1>14, <1>15
(* A cancellation is read. *)
LEMMA SmRestarts ==
    ASSUME PowerInv, NEW ind \in Tidings, Received(SM, ind),
           SmSetState("startup", Rest), SmHandler
    PROVE  PowerInv'
<1>1. PICK left :
              /\ Consumed(messages, left, SM, ind) /\ ~Has(left, SM, "idle_timeout")
              /\ sm' = "startup" /\ idle_timer' = ("startup" = "idle")
              /\ topology' = topology \cup Requests("startup")
              /\ \/ /\ StateIsSleepy(sm) /\ ~StateIsSleepy("startup")
                    /\ ClientProhibitSleep(SM, left)
                 \/ /\ ~StateIsSleepy(sm) /\ StateIsSleepy("startup")
                    /\ ClientAllowSleep(SM, left)
                 \/ /\ StateIsSleepy(sm) = StateIsSleepy("startup")
                    /\ StaysInState(left) /\ UNCHANGED <<registered, allow_sleep>>
    BY SmSets
<1>2. ~StateIsSleepy("startup") /\ Requests("startup") = {"start"}
    BY DEF StateIsSleepy, SubStateIsTerminating, Requests
<1>3. /\ UNCHANGED <<state, registered, shutdown_pending, sleep_pending, device,
                     user_initiated_shutdown, init_complete, system, charger, extreme, phy,
                     indicating, clients>>
      /\ messages' = left /\ allow_sleep' = allow_sleep \ {SM}
    <2>1. StaysInState(left) /\ UNCHANGED registered /\ allow_sleep' = allow_sleep \ {SM}
        <3>1. SM \in allow_sleep <=> StateIsSleepy(sm)
            BY DEF PowerInv, SleepInv
        <3> QED
            BY <1>1, <1>2, <3>1 DEF ClientProhibitSleep
    <2> QED
        BY <2>1 DEF StaysInState, SmHandler, clients
<1>4. /\ Has(messages, SM, ind) /\ ~NoneCancelled /\ SM \in clients
      /\ state = "ok" \/ ~NoneUnread
      /\ "stop" \notin topology /\ ~Has(messages, SM, "stop_cfm")
    <2>1. Has(messages, SM, ind)
        BY ReceivedMsg
    <2>2. ~NoneCancelled
        BY <2>1 DEF NoneCancelled
    <2> QED
        BY <2>1, <2>2, ClientFacts
           DEF PowerInv, CancelInv, InitInv, StopInv, Tidings, PowerInds
<1>5. /\ \A id \in Tidings : ~Has(messages', SM, id)
      /\ \A id \in Prepares : Has(messages', SM, id) <=> Has(messages, SM, id)
      /\ ~Has(messages', SM, "stop_cfm")
    <2>1. ~Has(messages', SM, ind)
        BY <1>1, <1>3 DEF Consumed, PowerInv, CancelInv
    <2>2. \A id \in Tidings : Has(messages, SM, id) => id = ind
        BY <1>4 DEF PowerInv, CancelInv, Tidings
    <2>3. \A id \in Prepares : Has(messages', SM, id) <=> Has(messages, SM, id)
        BY <1>1, <1>3 DEF Consumed, Tidings, Prepares
    <2> QED
        BY <1>1, <1>3, <1>4, <2>1, <2>2, <2>3 DEF Consumed
<1> USE DEF PowerInv
<1>6. TypeOK' /\ PendingOnlyWhileNotified' /\ DownInv'
    <2>1. messages' \in Seq(Messages)
        BY <1>1, <1>3 DEF Consumed
    <2>2. sm' \in SmStates /\ idle_timer' \in BOOLEAN /\ topology' \subseteq {"start", "stop"}
        BY <1>1, <1>2 DEF TypeOK, SmStates
    <2>3. TypeOK'
        BY <1>3, <2>1, <2>2 DEF TypeOK, Messages
    <2> QED
        BY <1>3, <2>3 DEF PendingOnlyWhileNotified, DownInv
<1>7. InitInv'
    BY <1>1, <1>3, <1>4 DEF InitInv, Consumed
<1>8. IdleInv'
    <2>1. Single(messages', SM, "idle_timeout")
        BY <1>1, <1>3 DEF IdleInv, Consumed
    <2> QED
        BY <1>1, <1>3, <2>1, IdleSet
<1>9. SleepInv'
    <2>1. SM \notin allow_sleep' /\ SM \in clients'
        BY <1>3, <1>4
    <2> QED
        BY <1>1, <1>2, <2>1 DEF SleepInv, MaySleep, AllAllowSleep
<1>10. AskedInv'
    BY <1>1, <1>3 DEF AskedInv, Prepares, Consumed
<1>12. CancelInv'
    BY <1>1, <1>3, <1>5 DEF CancelInv, NoneCancelled, Tidings, Prepares, Consumed
<1>13. TermInv'
    BY <1>1, <1>3, <1>4, <1>5 DEF TermInv, Prepares
<1>14. StopInv'
    BY <1>1, <1>2, <1>3, <1>4, <1>5 DEF StopInv, Consumed
<1>15. ConfirmInv'
    BY <1>1 DEF ConfirmInv
<1> QED
    BY <1>6, <1>7, <1>8, <1>9, <1>10, <1>12, <1>13, <1>14, <1>15

(* The application starts to prepare for what it is asked. *)
LEMMA SmPrepares ==
    ASSUME PowerInv, NEW ind \in Prepares, Received(SM, ind),
           NEW new, new = IF ind = "shutdown_prepare" THEN "terminating" ELSE "soporific_terminating",
           ind = "sleep_prepare" => sm = "soporific",
           SmSetState(new, Rest), SmHandler
    PROVE  PowerInv'
<1>1. PICK left :
              /\ Consumed(messages, left, SM, ind) /\ ~Has(left, SM, "idle_timeout")
              /\ sm' = new /\ idle_timer' = (new = "idle")
              /\ topology' = topology \cup Requests(new)
              /\ \/ /\ StateIsSleepy(sm) /\ ~StateIsSleepy(new)
                    /\ ClientProhibitSleep(SM, left)
                 \/ /\ ~StateIsSleepy(sm) /\ StateIsSleepy(new)
                    /\ ClientAllowSleep(SM, left)
                 \/ /\ StateIsSleepy(sm) = StateIsSleepy(new)
                    /\ StaysInState(left) /\ UNCHANGED <<registered, allow_sleep>>
    BY SmSets
<1>2. /\ Has(messages, SM, ind) /\ device = "on" /\ SM \in clients
      /\ ind = "shutdown_prepare" =>
            /\ SM \in shutdown_pending /\ state = "terminating_notified" /\ sleep_pending = {}
            /\ new = "terminating" /\ ~StateIsSleepy(new)
      /\ ind = "sleep_prepare" =>
            /\ SM \in sleep_pending /\ state = "soporific_notified" /\ shutdown_pending = {}
            /\ new = "soporific_terminating" /\ StateIsSleepy(new) /\ StateIsSleepy(sm)
      /\ ind = "shutdown_prepare" \/ ind = "sleep_prepare"
    <2>1. Has(messages, SM, ind) /\ device = "on" /\ (ind = "shutdown_prepare" \/ ind = "sleep_prepare")
        BY ReceivedMsg DEF Prepares
    <2>2. SM \in clients
        BY <2>1, ClientFacts DEF PowerInv, InitInv, PowerInds
    <2> QED
        BY <2>1, <2>2, ClientFacts DEF PowerInv, AskedInv, PendingOnlyWhileNotified, StateIsSleepy
<1>3. NoneCancelled /\ ~SubStateIsTerminating(sm)
    <2>1. NoneCancelled
        BY <1>1 DEF Consumed, PowerInv, CancelInv, NoneCancelled
    <2> QED
        BY <1>2, <2>1 DEF SubStateIsTerminating, PowerInv, TermInv, NoneUnread
<1>4. "stop" \notin topology /\ ~Has(messages, SM, "stop_cfm") /\ Requests(new) = {"stop"}
    <2>1. ~NoneUnread
        BY <1>2 DEF NoneUnread
    <2>2. new # "startup" /\ SubStateIsTerminating(new)
        BY <1>2 DEF SubStateIsTerminating
    <2> QED
        BY <1>3, <2>1, <2>2 DEF PowerInv, StopInv, Requests
<1>5. /\ UNCHANGED <<state, registered, shutdown_pending, sleep_pending, device,
                     user_initiated_shutdown, init_complete, system, charger, extreme, phy,
                     indicating, clients>>
      /\ messages' = left
      /\ allow_sleep' = IF StateIsSleepy(new) THEN allow_sleep ELSE allow_sleep \ {SM}
    <2>1. /\ StaysInState(left) /\ UNCHANGED registered
          /\ allow_sleep' = IF StateIsSleepy(new) THEN allow_sleep ELSE allow_sleep \ {SM}
        <3>1. SM \in allow_sleep <=> StateIsSleepy(sm)
            BY DEF PowerInv, SleepInv
        <3> QED
            BY <1>1, <1>2, <3>1 DEF ClientProhibitSleep
    <2> QED
        BY <2>1 DEF StaysInState, SmHandler, clients
<1>6. /\ \A id \in PowerInds : ~Has(messages', SM, id)
      /\ ~Has(messages', SM, "stop_cfm")
    <2>1. ~Has(messages', SM, ind)
        BY <1>1, <1>5, ClientFacts DEF Consumed, PowerInv, AskedInv, Prepares
    <2>2. \A id \in Prepares : Has(messages, SM, id) => id = ind
        BY <1>2, ClientFacts DEF PowerInv, AskedInv, Prepares
    <2>3. \A id \in PowerInds : Has(messages', SM, id) => id \in Prepares
        BY <1>1, <1>3, <1>5 DEF Consumed, NoneCancelled, Tidings, Prepares, PowerInds
    <2> QED
        BY <1>1, <1>4, <1>5, <2>1, <2>2, <2>3 DEF Consumed
<1> USE DEF PowerInv
<1>7. TypeOK' /\ PendingOnlyWhileNotified' /\ DownInv'
    <2>1. messages' \in Seq(Messages)
        BY <1>1, <1>5 DEF Consumed
    <2>2. sm' \in SmStates /\ idle_timer' \in BOOLEAN /\ topology' \subseteq {"start", "stop"}
        BY <1>1, <1>2, <1>4 DEF TypeOK, SmStates
    <2>3. TypeOK'
        BY <1>5, <2>1, <2>2 DEF TypeOK, Messages
    <2> QED
        BY <1>5, <2>3 DEF PendingOnlyWhileNotified, DownInv
<1>8. InitInv'
    BY <1>1, <1>2, <1>5 DEF InitInv, Consumed
<1>9. IdleInv'
    <2>1. Single(messages', SM, "idle_timeout")
        BY <1>1, <1>5 DEF IdleInv, Consumed
    <2> QED
        BY <1>1, <1>5, <2>1, IdleSet
<1>10. SleepInv'
    <2>1. SM \in allow_sleep <=> StateIsSleepy(sm)
        BY DEF SleepInv
    <2> QED
        BY <1>1, <1>2, <1>5, <2>1 DEF SleepInv
<1>11. AskedInv'
    BY <1>1, <1>5 DEF AskedInv, Prepares, Consumed
<1>12. CancelInv'
    BY <1>1, <1>5, <1>6 DEF CancelInv, NoneCancelled, Tidings, Prepares, PowerInds, Consumed
<1>13. TermInv'
    BY <1>1, <1>2, <1>5, <1>6 DEF TermInv, NoneCancelled, NoneUnread, Tidings, Prepares, PowerInds
<1>14. StopInv'
    BY <1>1, <1>2, <1>4, <1>5, <1>6 DEF StopInv, SubStateIsTerminating, NoneCancelled, NoneUnread,
        Tidings, Prepares, PowerInds, Consumed
<1>15. ConfirmInv'
    <2>1. system' = "initialising" => sm' # "soporific_terminating"
        <3>1. ind = "sleep_prepare" => init_complete /\ system # "initialising"
            BY <1>2 DEF InitInv, Received, Running
        <3> QED
            BY <1>1, <1>2, <1>5, <3>1
    <2>2. sm' = "soporific_terminating" => SM \in sleep_pending'
        BY <1>1, <1>2, <1>5
    <2>3. Before(messages', SM, "init_cfm", "stop_cfm")
        BY <1>6 DEF Before, Has, Ahead, Queued
    <2> QED
        BY <2>1, <2>2, <2>3 DEF ConfirmInv
<1> QED
    BY <1>7, <1>8, <1>9, <1>10, <1>11, <1>12, <1>13, <1>14, <1>15
(* The idle timeout: the application allows sleep, and the manager may ask *)
(* at once.                                                                *)
LEMMA SmAllowsSleep ==
    ASSUME PowerInv, Received(SM, "idle_timeout"), sm = "idle",
           SmSetState("soporific", Rest), SmHandler
    PROVE  PowerInv'
<1>1. PICK left :
              /\ Consumed(messages, left, SM, "idle_timeout") /\ ~Has(left, SM, "idle_timeout")
              /\ sm' = "soporific" /\ idle_timer' = ("soporific" = "idle")
              /\ topology' = topology \cup Requests("soporific")
              /\ \/ /\ StateIsSleepy(sm) /\ ~StateIsSleepy("soporific")
                    /\ ClientProhibitSleep(SM, left)
                 \/ /\ ~StateIsSleepy(sm) /\ StateIsSleepy("soporific")
                    /\ ClientAllowSleep(SM, left)
                 \/ /\ StateIsSleepy(sm) = StateIsSleepy("soporific")
                    /\ StaysInState(left) /\ UNCHANGED <<registered, allow_sleep>>
    BY SmSets
<1>2. /\ ~StateIsSleepy(sm) /\ StateIsSleepy("soporific") /\ Requests("soporific") = {}
      /\ sm' = "soporific"
    BY <1>1 DEF StateIsSleepy, SubStateIsTerminating, Requests
<1>3. ClientAllowSleep(SM, left) /\ topology' = topology
    BY <1>1, <1>2
<1>4. /\ UNCHANGED <<registered, init_complete, extreme, phy, indicating, clients>>
      /\ allow_sleep' = allow_sleep \cup {SM} /\ SM \in clients
    <2>1. UNCHANGED registered /\ allow_sleep' = allow_sleep \cup {SM}
        BY <1>3 DEF ClientAllowSleep
    <2>2. SM \in clients
        BY DEF PowerInv, InitInv
    <2> QED
        BY <2>1, <2>2 DEF SmHandler, clients
<1>5. NoneCancelled /\ "stop" \notin topology /\ ~Has(messages, SM, "stop_cfm")
    BY DEF PowerInv, CancelInv, NoneCancelled, Tidings, StopInv, SubStateIsTerminating
<1>6. /\ left \in Seq(Messages)
      /\ \A id \in PowerInds \cup {"stop_cfm"} : Has(left, SM, id) <=> Has(messages, SM, id)
      /\ Has(messages, "power", "report") => Has(left, "power", "report")
      /\ \A c, id : Has(left, c, id) => Has(messages, c, id)
      /\ \A c, id : Single(messages, c, id) => Single(left, c, id)
      /\ \A c, id, jd : Before(messages, c, id, jd) => Before(left, c, id, jd)
    BY <1>1, ClientFacts DEF Consumed, PowerInds
<1>7. CASE state = "ok" /\ MaySleep(allow_sleep', init_complete)
    <2>1. EnterSoporificNotified(left)
        BY <1>3, <1>7 DEF ClientAllowSleep
    <2>2. /\ UNCHANGED <<shutdown_pending, system, device, charger, user_initiated_shutdown>>
          /\ state' = "soporific_notified" /\ init_complete /\ SM \in sleep_pending'
          /\ sleep_pending' = clients
        BY <1>4, <1>7, <2>1 DEF EnterSoporificNotified, MaySleep, CanSleep
    <2>3. SentToAll(left, messages', "sleep_prepare")
        <3>1. registered \in 0 .. Len(Order) /\ "sleep_prepare" \in MessageIds
            BY DEF PowerInv, TypeOK, MessageIds, PowerInds
        <3> QED
            BY <1>6, <2>1, <3>1, MulticastMsg DEF EnterSoporificNotified
    <2>4. \A id \in PowerInds : Has(messages', SM, id) <=> Has(messages, SM, id) \/ id = "sleep_prepare"
        BY <1>4, <1>6, <2>3 DEF SentToAll, PowerInds
    <2> USE DEF PowerInv
    <2>5. shutdown_pending = {} /\ sleep_pending = {}
        BY <1>7 DEF PendingOnlyWhileNotified
    <2>6. TypeOK'
        <3>1. messages' \in Seq(Messages)
            BY <2>3 DEF SentToAll
        <3>2. sm' \in SmStates /\ idle_timer' \in BOOLEAN
            BY <1>1 DEF SmStates
        <3> QED
            BY <1>3, <1>4, <2>2, <3>1, <3>2 DEF TypeOK, Messages, PowerStates
    <2>7. PendingOnlyWhileNotified' /\ DownInv'
        BY <1>7, <2>2, <2>5 DEF PendingOnlyWhileNotified, DownInv
    <2>8. InitInv'
        BY <1>4, <1>6, <2>2, <2>3 DEF InitInv, SentToAll
    <2>9. IdleInv'
        <3>1. ~Has(messages', SM, "idle_timeout") /\ Single(messages', SM, "idle_timeout")
            <4>1. ~Has(messages', SM, "idle_timeout")
                BY <1>1, <2>3 DEF SentToAll
            <4>2. Single(messages', SM, "idle_timeout")
                BY <1>6, <2>3 DEF IdleInv, SentToAll
            <4> QED
                BY <4>1, <4>2
        <3> QED
            BY <1>1, <2>2, <3>1, IdleSet
    <2>10. SleepInv'
        BY <1>2, <1>4, <2>2 DEF SleepInv
    <2>11. AskedInv'
        BY <1>6, <2>2, <2>3, <2>5, ClientFacts DEF AskedInv, SentToAll, Prepares
    <2>12. CancelInv'
        <3>1. /\ \A id \in Tidings : Single(messages', SM, id)
              /\ \A id \in Tidings, jd \in Prepares : Before(messages', SM, id, jd)
            BY <1>6, <2>3 DEF CancelInv, Tidings, Prepares, SentToAll
        <3>2. NoneCancelled'
            BY <1>5, <2>4 DEF NoneCancelled, Tidings, PowerInds
        <3> QED
            BY <3>1, <3>2 DEF CancelInv, NoneCancelled, Tidings
    <2>13. TermInv'
        BY <1>2, <1>4, <2>2, <2>4, <2>5 DEF TermInv, PowerInds
    <2>14. StopInv'
        <3>1. ~Has(messages', SM, "stop_cfm") /\ Single(messages', SM, "stop_cfm")
            BY <1>5, <1>6, <2>3 DEF StopInv, SentToAll
        <3> QED
            BY <1>3, <1>5, <3>1 DEF StopInv
    <2>15. ConfirmInv'
        BY <1>2 DEF ConfirmInv
    <2> QED
        BY <2>6, <2>7, <2>8, <2>9, <2>10, <2>11, <2>12, <2>13, <2>14, <2>15
<1>8. CASE ~(state = "ok" /\ MaySleep(allow_sleep', init_complete))
    <2>1. StaysInState(left)
        BY <1>3, <1>8 DEF ClientAllowSleep
    <2>2. /\ UNCHANGED <<state, shutdown_pending, sleep_pending, system, device, charger,
                         user_initiated_shutdown>>
          /\ messages' = left
        BY <2>1 DEF StaysInState
    <2> USE DEF PowerInv
    <2>3. TypeOK' /\ PendingOnlyWhileNotified' /\ DownInv'
        <3>1. sm' \in SmStates /\ idle_timer' \in BOOLEAN
            BY <1>1 DEF SmStates
        <3>2. TypeOK'
            BY <1>3, <1>4, <1>6, <2>2, <3>1 DEF TypeOK, Messages
        <3> QED
            BY <2>2, <3>2 DEF PendingOnlyWhileNotified, DownInv
    <2>4. InitInv'
        BY <1>4, <1>6, <2>2 DEF InitInv
    <2>5. IdleInv'
        <3>1. Single(messages', SM, "idle_timeout")
            BY <1>6, <2>2 DEF IdleInv
        <3> QED
            BY <1>1, <2>2, <3>1, IdleSet
    <2>6. SleepInv'
        BY <1>2, <1>4, <1>8, <2>2 DEF SleepInv, MaySleep, AllAllowSleep, CanSleep, CanPowerOff
    <2>7. AskedInv'
        BY <1>6, <2>2 DEF AskedInv, Prepares
    <2>8. CancelInv'
        BY <1>5, <1>6, <2>2 DEF CancelInv, NoneCancelled, Tidings, Prepares, PowerInds
    <2>9. TermInv'
        BY <1>2, <1>4, <1>6, <2>2 DEF TermInv, NoneCancelled, NoneUnread, Tidings, Prepares, PowerInds
    <2>10. StopInv'
        BY <1>3, <1>5, <1>6, <2>2 DEF StopInv
    <2>11. ConfirmInv'
        BY <1>2 DEF ConfirmInv
    <2> QED
        BY <2>3, <2>4, <2>5, <2>6, <2>7, <2>8, <2>9, <2>10, <2>11
<1> QED
    BY <1>7, <1>8

(* Every handler of the earbud state machine keeps the invariant. *)
LEMMA SmStepInv == ASSUME PowerInv, SmStep PROVE PowerInv'
<1> USE DEF SmStays
<1>0. ASSUME NEW ind \in {"out", "in", "start_cfm", "init_cfm"}, Received(SM, ind),
             SmStays(Rest), SmHandler
      PROVE  PowerInv'
    <2>1. Consumed(messages, Rest, SM, ind) /\ Idle(SM, ind) /\ indicating' \subseteq Ui
        BY <1>0, ReceivedMsg DEF Idle, SmHandler, PowerInv, TypeOK
    <2> QED
        BY <1>0, <2>1, TaskReads DEF SmHandler
<1>1. CASE HandleInitConfirm
    <2>1. Received(SM, "init_cfm") /\ SmHandler /\ device = "on"
        BY <1>1, ReceivedMsg DEF HandleInitConfirm
    <2>2. CASE sm = "initialising"
        BY <1>1, <2>1, <2>2, SmMoves DEF HandleInitConfirm, SubStateIsTerminating
    <2>3. CASE sm = "terminating"
        BY <1>0, <1>1, <2>1, <2>3 DEF HandleInitConfirm
    <2>4. CASE sm \notin {"initialising", "terminating"}
        BY <1>1, <2>1, <2>4, SmPanicsInv DEF HandleInitConfirm
    <2> QED
        BY <2>2, <2>3, <2>4
<1>2. CASE HandlePhyStateChangedInd
    <2>1. PICK place \in {"out", "in"} :
                /\ Received(SM, place)
                /\ IF IsCoreState(sm) /\ CalcCoreState(place) # sm
                   THEN SmSetState(CalcCoreState(place), Rest)
                   ELSE SmStays(Rest)
        BY <1>2 DEF HandlePhyStateChangedInd
    <2>2. SmHandler /\ CalcCoreState(place) \in {"startup", "idle", "in_use"}
        BY <1>2 DEF HandlePhyStateChangedInd, CalcCoreState
    <2>3. CASE IsCoreState(sm) /\ CalcCoreState(place) # sm
        BY <2>1, <2>2, <2>3, SmMoves DEF IsCoreState, SubStateIsTerminating
    <2>4. CASE ~(IsCoreState(sm) /\ CalcCoreState(place) # sm)
        BY <1>0, <2>1, <2>2, <2>4
    <2> QED
        BY <2>3, <2>4
<1>3. CASE HandleInternalTimeoutIdle
    <2>1. Received(SM, "idle_timeout") /\ SmHandler
        BY <1>3 DEF HandleInternalTimeoutIdle
    <2>2. sm = "idle"
        BY <2>1, ReceivedMsg DEF PowerInv, IdleInv
    <2> QED
        BY <1>3, <2>1, <2>2, SmAllowsSleep DEF HandleInternalTimeoutIdle
<1>4. CASE HandlePowerSleepPrepareInd
    <2>1. Received(SM, "sleep_prepare") /\ SmHandler /\ device = "on" /\ "sleep_prepare" \in Prepares
        BY <1>4, ReceivedMsg DEF HandlePowerSleepPrepareInd, Prepares
    <2>2. CASE sm = "soporific"
        BY <1>4, <2>1, <2>2, SmPrepares DEF HandlePowerSleepPrepareInd
    <2>3. CASE sm # "soporific"
        BY <1>4, <2>1, <2>3, SmPanicsInv DEF HandlePowerSleepPrepareInd
    <2> QED
        BY <2>2, <2>3
<1>5. CASE HandlePowerShutdownPrepareInd
    BY <1>5, SmPrepares DEF HandlePowerShutdownPrepareInd, Prepares
<1>6. CASE HandlePowerCancelledInd
    BY <1>6, SmRestarts DEF HandlePowerCancelledInd, Tidings
<1>7. CASE HandleTwsTopologyStartCfm
    <2>1. Received(SM, "start_cfm") /\ SmHandler /\ CalcCoreState(phy) \in {"startup", "idle", "in_use"}
        BY <1>7 DEF HandleTwsTopologyStartCfm, CalcCoreState
    <2>2. CASE sm = "startup"
        BY <1>7, <2>1, <2>2, SmMoves DEF HandleTwsTopologyStartCfm, SubStateIsTerminating
    <2>3. CASE sm # "startup"
        BY <1>0, <1>7, <2>1, <2>3 DEF HandleTwsTopologyStartCfm
    <2> QED
        BY <2>2, <2>3
<1>8. CASE HandleTwsTopologyStopCfm
    <2>1. /\ Consumed(messages, Rest, SM, "stop_cfm") /\ device = "on"
          /\ UNCHANGED <<init_complete, extreme, sm, phy, idle_timer, topology, indicating>>
          /\ Has(messages, SM, "stop_cfm")
        BY <1>8, ReceivedMsg DEF HandleTwsTopologyStopCfm, SmHandler
    <2>2. sm = "terminating" \/ sm = "soporific_terminating"
        BY <2>1 DEF PowerInv, StopInv, SubStateIsTerminating
    <2>3. CASE sm = "terminating"
        BY <1>8, <2>1, <2>3, ShutdownAnswered DEF HandleTwsTopologyStopCfm
    <2>4. CASE sm = "soporific_terminating"
        BY <1>8, <2>1, <2>4, SleepAnswered DEF HandleTwsTopologyStopCfm
    <2> QED
        BY <2>2, <2>3, <2>4
<1> QED
    BY <1>1, <1>2, <1>3, <1>4, <1>5, <1>6, <1>7, <1>8 DEF SmStep

(* Every handler of the prompt and UI clients keeps the invariant. *)
LEMMA ClientStepInv ==
    ASSUME PowerInv,
           (\E c \in Prompt : PromptClientStep(c)) \/ (\E c \in Ui : UiClientStep(c))
    PROVE  PowerInv'
<1> USE DEF ClientHandler, smVars
<1>1. ASSUME NEW c \in Prompt \cup Ui, NEW ind, Received(c, ind), ClientHandler,
             indicating' \subseteq Ui, StaysInState(Rest), UNCHANGED <<registered, allow_sleep>>
      PROVE  PowerInv'
    BY <1>1, ReceivedMsg, TaskReads DEF Idle
<1>2. ASSUME NEW c \in Prompt, PromptClientStep(c) PROVE PowerInv'
    <2>1. ClientHandler /\ UNCHANGED indicating /\ indicating' \subseteq Ui
        BY <1>2 DEF PromptClientStep, PowerInv, TypeOK
    <2>2. CASE Received(c, "shutdown_prepare") /\ ShutdownPrepareResponse(c, Rest)
        BY <2>1, <2>2, ReceivedMsg, ShutdownAnswered
    <2>3. CASE Received(c, "sleep_prepare") /\ SleepPrepareResponse(c, Rest)
        BY <2>1, <2>3, ReceivedMsg, SleepAnswered
    <2>4. CASE /\ \E ind \in {"shutdown_cancelled", "sleep_cancelled"} : Received(c, ind)
               /\ StaysInState(Rest) /\ UNCHANGED <<registered, allow_sleep>>
        BY <1>1, <2>1, <2>4
    <2> QED
        BY <1>2, <2>2, <2>3, <2>4 DEF PromptClientStep
<1>3. ASSUME NEW c \in Ui, UiClientStep(c) PROVE PowerInv'
    <2>1. ClientHandler /\ indicating \subseteq Ui
        BY <1>3 DEF UiClientStep, PowerInv, TypeOK
    <2>2. CASE /\ Received(c, "shutdown_prepare")
               /\ indicating' = indicating \cup {c}
               /\ StaysInState(Rest) /\ UNCHANGED <<registered, allow_sleep>>
        BY <1>1, <2>1, <2>2
    <2>3. CASE /\ Received(c, "flash_completed")
               /\ ShutdownPrepareResponse(c, Rest)
               /\ UNCHANGED indicating
        BY <2>1, <2>3, ReceivedMsg, ShutdownAnswered
    <2>4. CASE /\ Received(c, "sleep_prepare")
               /\ SleepPrepareResponse(c, Rest)
               /\ UNCHANGED indicating
        BY <2>1, <2>4, ReceivedMsg, SleepAnswered
    <2>5. CASE /\ \E ind \in {"shutdown_cancelled", "sleep_cancelled"} : Received(c, ind)
               /\ StaysInState(Rest) /\ UNCHANGED <<registered, allow_sleep, indicating>>
        BY <1>1, <2>1, <2>5
    <2> QED
        BY <1>3, <2>2, <2>3, <2>4, <2>5 DEF UiClientStep
<1> QED
    BY <1>2, <1>3
----------------------------------------------------------------------------
(* The invariant holds. *)

LEMMA StutterInv == ASSUME PowerInv, UNCHANGED vars PROVE PowerInv'
<1>1. UNCHANGED <<state, registered, allow_sleep, shutdown_pending, sleep_pending, messages, device,
                  user_initiated_shutdown, init_complete, system, charger, extreme, sm, phy,
                  idle_timer, topology, indicating, clients>>
    BY DEF vars, powerVars, smVars, flagVars, clients
<1> USE DEF PowerInv
<1>2. TypeOK' /\ PendingOnlyWhileNotified' /\ DownInv' /\ InitInv'
    <2>1. TypeOK'
        BY <1>1 DEF TypeOK
    <2>2. PendingOnlyWhileNotified' /\ DownInv'
        BY <1>1 DEF PendingOnlyWhileNotified, DownInv
    <2>3. InitInv'
        BY <1>1 DEF InitInv
    <2> QED
        BY <2>1, <2>2, <2>3
<1>3. IdleInv'
    <2>1. device' # "idle timeout"
        BY <1>1 DEF IdleInv
    <2> QED
        BY <1>1, <2>1, IdleStays
<1>4. SleepInv'
    BY <1>1 DEF SleepInv, MaySleep, CanSleep, CanPowerOff, AllAllowSleep, StateIsSleepy
<1>5. AskedInv' /\ CancelInv' /\ TermInv' /\ StopInv' /\ ConfirmInv'
    BY <1>1 DEF AskedInv, CancelInv, TermInv, StopInv, ConfirmInv, NoneCancelled, NoneUnread,
        SubStateIsTerminating
<1> QED
    BY <1>2, <1>3, <1>4, <1>5

(* PowerInv is an invariant: whatever the order in which clients register, *)
(* messages are read, timers expire, batteries run low and chargers are    *)
(* attached.                                                               *)
THEOREM PowerInvariant == Spec => []PowerInv
<1>1. PowerInv /\ [Next]_vars => PowerInv'
    <2> SUFFICES ASSUME PowerInv, [Next]_vars PROVE PowerInv'
        OBVIOUS
    <2>1. CASE Registers
        BY <2>1, RegistersInv
    <2>2. CASE InitComplete
        BY <2>2, InitCompleteInv
    <2>3. CASE StartUp
        BY <2>3, StartUpInv
    <2>4. CASE MonitorReports \/ PhyStateChanges
        BY <2>4, SendersInv
    <2>5. CASE UserPowersOff
        BY <2>5, UserPowersOffInv
    <2>6. CASE IdleTimerExpires
        BY <2>6, IdleTimerExpiresInv
    <2>7. ASSUME NEW request \in {"start", "stop"}, TopologyConfirms(request) PROVE PowerInv'
        BY <2>7, SendersInv, TopologyStoppedInv
    <2>8. ASSUME NEW c \in Ui, FlashEnds(c) PROVE PowerInv'
        BY <2>8, SendersInv
    <2>9. CASE Delivery
        BY <2>9, HandleMessageInv, SmStepInv, ClientStepInv DEF Delivery
    <2>10. CASE UNCHANGED vars
        BY <2>10, StutterInv
    <2> QED
        BY <2>1, <2>2, <2>3, <2>4, <2>5, <2>6, <2>7, <2>8, <2>9, <2>10 DEF Next
<1> QED
    BY <1>1, InitPower, PTL DEF Spec

(* The values of the variables, and: pending flags and flags that allow    *)
(* sleep belong to registered clients only.                                *)
THEOREM PowerTypes == Spec => []TypeOK
<1>1. PowerInv => TypeOK
    BY DEF PowerInv
<1> QED
    BY <1>1, PowerInvariant, PTL

(* The manager waits for somebody exactly as long as it is in a state in   *)
(* which it waits (power_manager_sm.c), and for one handshake at a time.   *)
THEOREM WaitsExactlyWhileNotified == Spec => []PendingOnlyWhileNotified
<1>1. PowerInv => PendingOnlyWhileNotified
    BY DEF PowerInv
<1> QED
    BY <1>1, PowerInvariant, PTL

(* The device goes off, or dormant, only after the application has had the *)
(* topology stopped for that reason, and after every client that answers   *)
(* in its handler has read what it was to prepare for.                     *)
THEOREM NobodyIsCutOff == Spec => []NobodyCutOff
<1>1. PowerInv => NobodyCutOff
    <2> SUFFICES ASSUME PowerInv PROVE NobodyCutOff
        OBVIOUS
    <2>1. device \in {"off", "dormant"} => shutdown_pending = {} /\ sleep_pending = {}
        BY DEF PowerInv, DownInv, PendingOnlyWhileNotified
    <2>2. device \in {"off", "dormant"} => "stop" \notin topology
        BY <2>1 DEF PowerInv, StopInv
    <2>3. device = "off" /\ SM \in clients => sm = "terminating"
        BY <2>1 DEF PowerInv, DownInv, TermInv
    <2>4. device = "dormant" => sm = "soporific_terminating"
        <3>1. device = "dormant" => init_complete /\ state = "soporific_responded"
            BY DEF PowerInv, DownInv, InitInv
        <3>2. init_complete => SM \in clients
            BY ClientFacts, RegisteredFacts DEF PowerInv, InitInv, TypeOK
        <3> QED
            BY <2>1, <3>1, <3>2 DEF PowerInv, TermInv
    <2>5. ASSUME device \in {"off", "dormant"}, NEW c \in clients \ Ui, NEW i \in DOMAIN messages
          PROVE  messages[i] \notin {Msg(c, "shutdown_prepare"), Msg(c, "sleep_prepare")}
        <3>1. c \in Clients \ Ui
            BY RegisteredFacts DEF PowerInv, TypeOK
        <3> QED
            BY <2>1, <2>5, <3>1 DEF PowerInv, AskedInv, Has, Queued
    <2> QED
        BY <2>2, <2>3, <2>4, <2>5 DEF NobodyCutOff
<1> QED
    BY <1>1, PowerInvariant, PTL

(* appPowerClientProhibitSleep and the cancellation of a sleep tell nobody *)
(* that sleep is allowed again; still the chance is not missed.            *)
THEOREM SleepIsNotMissed == Spec => []SleepNotMissed
<1>1. PowerInv => SleepNotMissed
    <2> SUFFICES ASSUME PowerInv, state = "ok", MaySleep(allow_sleep, init_complete)
                 PROVE  \E i \in DOMAIN messages :
                            \/ messages[i] = Msg("power", "report")
                            \/ messages[i].to = SM /\ messages[i].id \in PowerInds
        BY DEF SleepNotMissed
    <2>1. Has(messages, "power", "report") \/ \E id \in PowerInds : Has(messages, SM, id)
        BY DEF PowerInv, SleepInv
    <2>2. CASE Has(messages, "power", "report")
        BY <2>2 DEF Has, Queued
    <2>3. ASSUME NEW id \in PowerInds, Has(messages, SM, id)
          PROVE  \E i \in DOMAIN messages : messages[i].to = SM /\ messages[i].id \in PowerInds
        BY <2>3 DEF Has, Queued, Msg
    <2> QED
        BY <2>1, <2>2, <2>3
<1> QED
    BY <1>1, PowerInvariant, PTL

(* The assertion of appSmHandleInternalTimeoutIdle cannot fail.            *)
THEOREM IdleTimeoutOnlyWhenIdle == Spec => []IdleTimeoutWhenIdle
<1>1. PowerInv => IdleTimeoutWhenIdle
    BY DEF PowerInv, IdleInv, IdleTimeoutWhenIdle
<1> QED
    BY <1>1, PowerInvariant, PTL
----------------------------------------------------------------------------
(* The manager implements the handshake. *)

Waiting == shutdown_pending \cup sleep_pending

(* The phase of the handshake while the device is on. *)
LEMMA PhaseWhenOn ==
    ASSUME PowerInv, device = "on"
    PROVE  /\ HandshakePhase = "shutdown" <=> state = "terminating_notified"
           /\ HandshakePhase = "sleep" <=> state = "soporific_notified"
           /\ HandshakePhase = "down" <=> state = "soporific_responded"
           /\ HandshakePhase = "awake" <=> state \in {"init", "ok"}
<1>1. state \in PowerStates /\ state # "terminating_responded"
    BY DEF PowerInv, TypeOK, DownInv
<1> QED
    BY <1>1 DEF HandshakePhase, PowerStates

(* Nothing that the handshake speaks of changes. *)
LEMMA HandshakeStutters ==
    ASSUME UNCHANGED <<state, device, shutdown_pending, sleep_pending>>
    PROVE  UNCHANGED Handshake!handshakeVars
    BY DEF Handshake!handshakeVars, HandshakePhase

(* Entering TERMINATING_CLIENTS_NOTIFIED asks the registered clients, or   *)
(* goes down when there are none.                                          *)
LEMMA HandshakeAsksShutdown ==
    ASSUME PowerInv, device = "on", state = "ok", NEW user, NEW msgs,
           EnterTerminatingNotified(user, msgs)
    PROVE  [Handshake!Next]_(Handshake!handshakeVars)
<1>1. HandshakePhase = "awake" /\ shutdown_pending = {} /\ sleep_pending = {}
    BY PhaseWhenOn DEF PowerInv, PendingOnlyWhileNotified
<1>2. clients \subseteq Clients
    BY RegisteredFacts DEF PowerInv, TypeOK
<1>3. CASE clients # {}
    <2>1. /\ state' = "terminating_notified" /\ device' = "on"
          /\ shutdown_pending' = clients /\ sleep_pending' = {}
        BY <1>1, <1>3 DEF EnterTerminatingNotified
    <2>2. HandshakePhase' = "shutdown"
        BY <2>1 DEF HandshakePhase
    <2>3. HandshakePhase' \in Handshake!Reasons
        BY <2>2 DEF Handshake!Reasons
    <2>4. (shutdown_pending \cup sleep_pending)' \in (SUBSET Clients) \ {{}}
        <3>1. (shutdown_pending \cup sleep_pending)' = clients
            BY <2>1
        <3>2. clients \in (SUBSET Clients) \ {{}}
            BY <1>2, <1>3
        <3> QED
            BY <3>1, <3>2
    <2>5. Handshake!Asks
        BY <1>1, <2>3, <2>4 DEF Handshake!Asks
    <2> QED
        BY <2>5 DEF Handshake!Next
<1>4. CASE clients = {}
    <2>1. shutdown_pending' = {} /\ sleep_pending' = {} /\ EnterTerminatingResponded(user, msgs)
        BY <1>1, <1>4 DEF EnterTerminatingNotified
    <2>2. CASE state' = "terminating_responded" /\ device' = "off"
        <3>1. HandshakePhase' = "down"
            BY <2>2 DEF HandshakePhase
        <3>2. Handshake!GoesDownAlone
            BY <1>1, <2>1, <3>1 DEF Handshake!GoesDownAlone
        <3> QED
            BY <3>2 DEF Handshake!Next
    <2>3. CASE state' = "ok" /\ device' = device
        BY <1>1, <2>1, <2>3, HandshakeStutters
    <2> QED
        BY <2>1, <2>2, <2>3 DEF EnterTerminatingResponded, EnterPowerStateOk
<1> QED
    BY <1>3, <1>4

(* Entering SOPORIFIC_CLIENTS_NOTIFIED asks the registered clients. *)
LEMMA HandshakeAsksSleep ==
    ASSUME PowerInv, device = "on", state = "ok", SM \in clients, NEW msgs,
           EnterSoporificNotified(msgs)
    PROVE  [Handshake!Next]_(Handshake!handshakeVars)
<1>1. HandshakePhase = "awake" /\ shutdown_pending = {} /\ sleep_pending = {}
    BY PhaseWhenOn DEF PowerInv, PendingOnlyWhileNotified
<1>2. clients \subseteq Clients /\ clients # {}
    BY RegisteredFacts DEF PowerInv, TypeOK
<1>3. /\ state' = "soporific_notified" /\ device' = "on"
      /\ sleep_pending' = clients /\ shutdown_pending' = {}
    BY <1>1 DEF EnterSoporificNotified
<1>4. HandshakePhase' = "sleep"
    BY <1>3 DEF HandshakePhase
<1>5. HandshakePhase' \in Handshake!Reasons
    BY <1>4 DEF Handshake!Reasons
<1>6. (shutdown_pending \cup sleep_pending)' \in (SUBSET Clients) \ {{}}
    <2>1. (shutdown_pending \cup sleep_pending)' = clients
        BY <1>3
    <2>2. clients \in (SUBSET Clients) \ {{}}
        BY <1>2
    <2> QED
        BY <2>1, <2>2
<1>7. Handshake!Asks
    BY <1>1, <1>5, <1>6 DEF Handshake!Asks
<1> QED
    BY <1>7 DEF Handshake!Next

(* A power event asks the clients, wakes the device or leaves the          *)
(* handshake alone.                                                        *)
LEMMA HandshakePowerEvent ==
    ASSUME PowerInv, device = "on", NEW complete, NEW msgs, HandlePowerEvent(complete, msgs),
           complete => registered = Len(Order)
    PROVE  [Handshake!Next]_(Handshake!handshakeVars)
<1>1. CASE state = "init"
    <2>1. HandshakePhase = "awake"
        BY <1>1, PhaseWhenOn
    <2>2. state' = "ok" /\ device' = device /\ UNCHANGED <<shutdown_pending, sleep_pending>>
        BY <1>1 DEF HandlePowerEvent, EnterPowerStateOk
    <2>3. HandshakePhase' = "awake"
        BY <2>2 DEF HandshakePhase
    <2> QED
        BY <2>1, <2>2, <2>3 DEF Handshake!handshakeVars
<1>2. CASE state = "ok" /\ NeedsToPowerOff(user_initiated_shutdown)
    BY <1>2, HandshakeAsksShutdown DEF HandlePowerEvent
<1>3. CASE /\ state = "ok" /\ ~NeedsToPowerOff(user_initiated_shutdown)
           /\ MaySleep(allow_sleep, complete)
    <2>1. EnterSoporificNotified(msgs)
        BY <1>3 DEF HandlePowerEvent
    <2>2. SM \in clients
        BY <1>3, ClientFacts, RegisteredFacts DEF MaySleep, CanSleep, PowerInv, TypeOK
    <2> QED
        BY <1>3, <2>1, <2>2, HandshakeAsksSleep
<1>4. CASE /\ state # "init" /\ ~(state = "ok" /\ NeedsToPowerOff(user_initiated_shutdown))
           /\ ~(state = "ok" /\ MaySleep(allow_sleep, complete))
    <2>1. StaysInState(msgs)
        BY <1>4 DEF HandlePowerEvent
    <2> QED
        BY <2>1, HandshakeStutters DEF StaysInState
<1> QED
    BY <1>1, <1>2, <1>3, <1>4

(* A prepare response is an answer in the handshake, or changes nothing. *)
LEMMA HandshakeAnswers ==
    ASSUME PowerInv, device = "on", NEW task, NEW msgs,
           ShutdownPrepareResponse(task, msgs) \/ SleepPrepareResponse(task, msgs)
    PROVE  [Handshake!Next]_(Handshake!handshakeVars)
<1>0. clients \subseteq Clients
    BY RegisteredFacts DEF PowerInv, TypeOK
<1>1. CASE StaysInState(msgs)
    BY <1>1, HandshakeStutters DEF StaysInState
<1>2. CASE state = "terminating_notified" /\ task \in clients /\ ShutdownPrepareResponse(task, msgs)
    <2>1. /\ shutdown_pending' = shutdown_pending \ {task} /\ shutdown_pending # {}
          /\ sleep_pending = {} /\ sleep_pending' = {} /\ HandshakePhase = "shutdown"
        BY <1>2, PhaseWhenOn DEF ShutdownPrepareResponse, PowerInv, PendingOnlyWhileNotified
    <2>2. HandshakePhase' \in IF shutdown_pending' = {} THEN {"awake", "down"} ELSE {"shutdown"}
        <3>1. CASE shutdown_pending' # {}
            <4>1. UNCHANGED <<state, device>>
                BY <1>2, <3>1 DEF ShutdownPrepareResponse
            <4>2. HandshakePhase' = HandshakePhase
                BY <4>1 DEF HandshakePhase
            <4> QED
                BY <2>1, <3>1, <4>2
        <3>2. CASE shutdown_pending' = {}
            <4>1. \/ state' = "terminating_responded" /\ device' = "off"
                  \/ state' = "ok" /\ device' = "on"
                BY <1>2, <3>2 DEF ShutdownPrepareResponse, EnterTerminatingResponded, EnterPowerStateOk
            <4>2. HandshakePhase' \in {"awake", "down"}
                BY <4>1 DEF HandshakePhase
            <4> QED
                BY <3>2, <4>2
        <3> QED
            BY <3>1, <3>2
    <2>3. CASE task \in shutdown_pending
        <3>1. Handshake!Answers(task) /\ task \in Clients
            BY <1>0, <1>2, <2>1, <2>2, <2>3 DEF Handshake!Answers
        <3> QED
            BY <3>1 DEF Handshake!Next
    <2>4. CASE task \notin shutdown_pending
        <3>1. shutdown_pending' = shutdown_pending
            BY <2>1, <2>4
        <3> QED
            BY <2>1, <2>2, <3>1 DEF Handshake!handshakeVars
    <2> QED
        BY <2>3, <2>4
<1>3. CASE state = "soporific_notified" /\ task \in clients /\ SleepPrepareResponse(task, msgs)
    <2>1. /\ sleep_pending' = sleep_pending \ {task} /\ sleep_pending # {}
          /\ shutdown_pending = {} /\ shutdown_pending' = {} /\ HandshakePhase = "sleep"
        BY <1>3, PhaseWhenOn DEF SleepPrepareResponse, PowerInv, PendingOnlyWhileNotified
    <2>2. HandshakePhase' \in IF sleep_pending' = {} THEN {"awake", "down"} ELSE {"sleep"}
        <3>1. CASE sleep_pending' # {}
            <4>1. UNCHANGED <<state, device>>
                BY <1>3, <3>1 DEF SleepPrepareResponse
            <4>2. HandshakePhase' = HandshakePhase
                BY <4>1 DEF HandshakePhase
            <4> QED
                BY <2>1, <3>1, <4>2
        <3>2. CASE sleep_pending' = {}
            <4>1. \/ state' = "soporific_responded" /\ device' \in {"on", "dormant"}
                  \/ state' = "ok" /\ device' = "on"
                BY <1>3, <3>2 DEF SleepPrepareResponse, EnterSoporificResponded, EnterPowerStateOk
            <4>2. HandshakePhase' \in {"awake", "down"}
                BY <4>1 DEF HandshakePhase
            <4> QED
                BY <3>2, <4>2
        <3> QED
            BY <3>1, <3>2
    <2>3. CASE task \in sleep_pending
        <3>1. Handshake!Answers(task) /\ task \in Clients
            BY <1>0, <1>3, <2>1, <2>2, <2>3 DEF Handshake!Answers
        <3> QED
            BY <3>1 DEF Handshake!Next
    <2>4. CASE task \notin sleep_pending
        <3>1. sleep_pending' = sleep_pending
            BY <2>1, <2>4
        <3> QED
            BY <2>1, <2>2, <3>1 DEF Handshake!handshakeVars
    <2> QED
        BY <2>3, <2>4
<1> QED
    BY <1>1, <1>2, <1>3 DEF ShutdownPrepareResponse, SleepPrepareResponse

(* A failed assertion is the handshake's reset. *)
LEMMA HandshakePanics ==
    ASSUME PowerInv, device = "on", state # "soporific_responded",
           NEW assertion \in {"init confirm", "sleep prepare"}, SmPanics(assertion)
    PROVE  [Handshake!Next]_(Handshake!handshakeVars)
<1>1. HandshakePhase # "down" /\ HandshakePhase' = "panicked"
    <2>1. device' = assertion
        BY DEF SmPanics
    <2>2. HandshakePhase' = "panicked"
        BY <2>1 DEF HandshakePhase
    <2> QED
        BY <2>2, PhaseWhenOn
<1>2. UNCHANGED <<shutdown_pending, sleep_pending>>
    BY DEF SmPanics, flagVars
<1>3. Handshake!Panics
    BY <1>1, <1>2 DEF Handshake!Panics
<1> QED
    BY <1>3 DEF Handshake!Next

(* A state change of the earbud state machine that allows or prohibits     *)
(* sleep is a power event.                                                 *)
LEMMA HandshakeSmSets ==
    ASSUME PowerInv, NEW ind, Received(SM, ind), NEW new, SmSetState(new, Rest)
    PROVE  [Handshake!Next]_(Handshake!handshakeVars)
<1>1. PICK left :
              \/ ClientProhibitSleep(SM, left)
              \/ ClientAllowSleep(SM, left)
              \/ StaysInState(left)
    BY SmSets
<1>2. CASE StaysInState(left) \/ ClientProhibitSleep(SM, left)
    BY <1>2, HandshakeStutters DEF StaysInState, ClientProhibitSleep
<1>3. CASE ClientAllowSleep(SM, left)
    <2>1. CASE state = "ok" /\ MaySleep(allow_sleep', init_complete)
        <3>1. EnterSoporificNotified(left)
            BY <1>3, <2>1 DEF ClientAllowSleep
        <3>2. SM \in clients
            BY <2>1, ClientFacts, RegisteredFacts DEF MaySleep, CanSleep, PowerInv, TypeOK, InitInv
        <3>3. device = "on"
            BY ReceivedMsg
        <3> QED
            BY <2>1, <3>1, <3>2, <3>3, HandshakeAsksSleep
    <2>2. CASE ~(state = "ok" /\ MaySleep(allow_sleep', init_complete))
        BY <1>3, <2>2, HandshakeStutters DEF StaysInState, ClientAllowSleep
    <2> QED
        BY <2>1, <2>2
<1> QED
    BY <1>1, <1>2, <1>3

(* Every handler of the earbud state machine is a step of the handshake    *)
(* or a stutter.                                                           *)
LEMMA HandshakeSmStep ==
    ASSUME PowerInv, SmStep
    PROVE  [Handshake!Next]_(Handshake!handshakeVars)
<1>1. ASSUME SmStays(Rest) PROVE [Handshake!Next]_(Handshake!handshakeVars)
    BY <1>1, HandshakeStutters DEF SmStays, StaysInState
<1>2. CASE HandleInitConfirm
    <2>1. Received(SM, "init_cfm") /\ device = "on" /\ Has(messages, SM, "init_cfm")
        BY <1>2, ReceivedMsg DEF HandleInitConfirm
    <2>2. CASE sm = "initialising"
        BY <1>2, <2>1, <2>2, HandshakeSmSets DEF HandleInitConfirm
    <2>3. CASE sm = "terminating"
        BY <1>1, <1>2, <2>3 DEF HandleInitConfirm
    <2>4. CASE sm \notin {"initialising", "terminating"}
        <3>1. SmPanics("init confirm")
            BY <1>2, <2>4 DEF HandleInitConfirm
        <3>2. state # "soporific_responded"
            <4> SUFFICES ASSUME state = "soporific_responded" PROVE FALSE
                OBVIOUS
            <4>1. sleep_pending = {}
                BY DEF PowerInv, PendingOnlyWhileNotified
            <4>2. SM \in clients
                BY <2>4 DEF PowerInv, InitInv
            <4>3. sm = "soporific_terminating"
                BY <4>1, <4>2 DEF PowerInv, TermInv
            <4> QED
                BY <2>1, <4>1, <4>3 DEF PowerInv, ConfirmInv
        <3> QED
            BY <2>1, <3>1, <3>2, HandshakePanics
    <2> QED
        BY <2>2, <2>3, <2>4
<1>3. CASE HandlePhyStateChangedInd
    BY <1>1, <1>3, HandshakeSmSets DEF HandlePhyStateChangedInd
<1>4. CASE HandleInternalTimeoutIdle
    <2>1. Received(SM, "idle_timeout")
        BY <1>4 DEF HandleInternalTimeoutIdle
    <2>2. sm = "idle"
        BY <2>1, ReceivedMsg DEF PowerInv, IdleInv
    <2> QED
        BY <1>4, <2>1, <2>2, HandshakeSmSets DEF HandleInternalTimeoutIdle
<1>5. CASE HandlePowerSleepPrepareInd
    <2>1. Received(SM, "sleep_prepare") /\ device = "on" /\ Has(messages, SM, "sleep_prepare")
        BY <1>5, ReceivedMsg DEF HandlePowerSleepPrepareInd
    <2>2. state = "soporific_notified"
        BY <2>1, ClientFacts DEF PowerInv, AskedInv, PendingOnlyWhileNotified
    <2>3. CASE sm = "soporific"
        BY <1>5, <2>1, <2>3, HandshakeSmSets DEF HandlePowerSleepPrepareInd
    <2>4. CASE sm # "soporific"
        BY <1>5, <2>1, <2>2, <2>4, HandshakePanics DEF HandlePowerSleepPrepareInd
    <2> QED
        BY <2>3, <2>4
<1>6. CASE HandlePowerShutdownPrepareInd
    BY <1>6, HandshakeSmSets DEF HandlePowerShutdownPrepareInd
<1>7. CASE HandlePowerCancelledInd
    BY <1>7, HandshakeSmSets DEF HandlePowerCancelledInd
<1>8. CASE HandleTwsTopologyStartCfm
    BY <1>1, <1>8, HandshakeSmSets DEF HandleTwsTopologyStartCfm
<1>9. CASE HandleTwsTopologyStopCfm
    <2>1. device = "on" /\ Has(messages, SM, "stop_cfm")
        BY <1>9, ReceivedMsg DEF HandleTwsTopologyStopCfm
    <2>2. sm = "terminating" \/ sm = "soporific_terminating"
        BY <2>1 DEF PowerInv, StopInv, SubStateIsTerminating
    <2> QED
        BY <1>9, <2>1, <2>2, HandshakeAnswers DEF HandleTwsTopologyStopCfm
<1> QED
    BY <1>2, <1>3, <1>4, <1>5, <1>6, <1>7, <1>8, <1>9 DEF SmStep

(* A client that registers while others prepare joins the handshake. *)
LEMMA HandshakeRegisters ==
    ASSUME PowerInv, Registers
    PROVE  [Handshake!Next]_(Handshake!handshakeVars)
<1> DEFINE c == Order[registered + 1]
<1>1. ClientRegister(c, {c} \ {SM}) /\ device = "on"
    BY DEF Registers, Running
<1>2. c \in Clients
    <2>1. registered \in 0..Len(Order) /\ registered < Len(Order)
        BY DEF Registers, PowerInv, TypeOK
    <2>2. Len(Order) \in Nat /\ DOMAIN Order = 1..Len(Order)
        BY PowerAssumption
    <2>3. registered + 1 \in DOMAIN Order
        BY <2>1, <2>2
    <2> QED
        BY <2>3 DEF Clients
<1> HIDE DEF c
<1>3. UNCHANGED <<state, device>> /\ UNCHANGED HandshakePhase
    BY <1>1 DEF ClientRegister, HandshakePhase
<1>4. CASE state \in {"terminating_notified", "soporific_notified"}
    <2>1. Waiting' = Waiting \cup {c}
        BY <1>1, <1>4 DEF ClientRegister, Waiting
    <2>2. HandshakePhase \in {"shutdown", "sleep"}
        BY <1>1, <1>4, PhaseWhenOn
    <2>3. Handshake!Joins(c)
        BY <1>3, <2>1, <2>2 DEF Handshake!Joins, Handshake!Reasons, Waiting
    <2> QED
        BY <1>2, <2>3 DEF Handshake!Next
<1>5. CASE state \notin {"terminating_notified", "soporific_notified"}
    BY <1>1, <1>5, HandshakeStutters DEF ClientRegister
<1> QED
    BY <1>4, <1>5

(* The power manager keeps its promise to its clients (PowerHandshake): it *)
(* goes down only when everybody it asked has answered, one handshake at a *)
(* time.  (That everybody does answer is left to TLC.)                     *)
THEOREM KeepsHandshake ==
    Spec => Handshake!Init /\ [][Handshake!Next]_(Handshake!handshakeVars)
<1>1. Init => Handshake!Init
    BY DEF Init, PowerInit, Handshake!Init, HandshakePhase
<1>2. PowerInv /\ [Next]_vars => [Handshake!Next]_(Handshake!handshakeVars)
    <2> SUFFICES ASSUME PowerInv, [Next]_vars
                 PROVE  [Handshake!Next]_(Handshake!handshakeVars)
        OBVIOUS
    <2>1. CASE Registers
        BY <2>1, HandshakeRegisters
    <2>2. CASE InitComplete
        <3>1. HandlePowerEvent(TRUE, messages) /\ device = "on" /\ registered = Len(Order)
            BY <2>2 DEF InitComplete, Running
        <3> QED
            BY <3>1, HandshakePowerEvent
    <2>3. CASE StartUp \/ MonitorReports \/ PhyStateChanges \/ IdleTimerExpires
        BY <2>3, HandshakeStutters DEF StartUp, MonitorReports, PhyStateChanges, IdleTimerExpires, SendsSm, flagVars
    <2>4. CASE \E request \in {"start", "stop"} : TopologyConfirms(request)
        BY <2>4, HandshakeStutters DEF TopologyConfirms, SendsSm, flagVars
    <2>5. CASE \E c \in Ui : FlashEnds(c)
        BY <2>5, HandshakeStutters DEF FlashEnds, flagVars
    <2>6. CASE UserPowersOff
        <3>1. CASE CanPowerOff /\ state = "ok"
            BY <2>6, <3>1, HandshakeAsksShutdown DEF UserPowersOff, PowerOffRequest, Running
        <3>2. CASE ~(CanPowerOff /\ state = "ok")
            BY <2>6, <3>2, HandshakeStutters DEF UserPowersOff, PowerOffRequest, StaysInState
        <3> QED
            BY <3>1, <3>2
    <2>7. CASE HandleMessage
        <3>1. HandlePowerEvent(init_complete, Rest) /\ device = "on"
            BY <2>7, ReceivedMsg DEF HandleMessage
        <3>2. init_complete => registered = Len(Order)
            BY DEF PowerInv, InitInv
        <3> QED
            BY <3>1, <3>2, HandshakePowerEvent
    <2>8. CASE SmStep
        BY <2>8, HandshakeSmStep
    <2>9. ASSUME NEW c \in Prompt, PromptClientStep(c)
          PROVE  [Handshake!Next]_(Handshake!handshakeVars)
        BY <2>9, ReceivedMsg, HandshakeAnswers, HandshakeStutters DEF PromptClientStep, StaysInState
    <2>10. ASSUME NEW c \in Ui, UiClientStep(c)
           PROVE  [Handshake!Next]_(Handshake!handshakeVars)
        BY <2>10, ReceivedMsg, HandshakeAnswers, HandshakeStutters DEF UiClientStep, StaysInState
    <2>11. CASE UNCHANGED vars
        BY <2>11, HandshakeStutters DEF vars, powerVars, flagVars
    <2> QED
        BY <2>1, <2>2, <2>3, <2>4, <2>5, <2>6, <2>7, <2>8, <2>9, <2>10, <2>11 DEF Next, Delivery
<1> QED
    BY <1>1, <1>2, PowerInvariant, PTL DEF Spec
=============================================================================
