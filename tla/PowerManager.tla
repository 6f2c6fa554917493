---------------------------- MODULE PowerManager ----------------------------
(***************************************************************************)
(* The power manager (src/adk/src/domains/power/power_manager): it asks    *)
(* every registered client to prepare for a shutdown or for sleep, waits   *)
(* for all their answers, looks once more whether the device may go down,  *)
(* and either hands over to the system state or tells the clients that it  *)
(* was cancelled.                                                          *)
(*                                                                         *)
(* This module has the manager's state and the effect of each function of  *)
(* its interface.  A function is an action with the argument msgs, the     *)
(* queued messages as the calling handler leaves them.  A handler that     *)
(* goes through several states (notified, responded, ok) does so in one    *)
(* step.  EarbudPower adds the clients and the next-state relation.        *)
(*                                                                         *)
(* Left out: unregistering, which no code calls, the test flag             *)
(* allow_dormant, and the POWER_OFF message that starts the indications.   *)
(***************************************************************************)
EXTENDS Naturals, Sequences

CONSTANT Order \* the clients, in the order of the initialisation table

(* Every module initialises, and registers, once. *)
ASSUME PowerAssumption ==
    /\ Order \in Seq(STRING \ {"power"}) /\ Order # <<>>
    /\ \A i, j \in DOMAIN Order : Order[i] = Order[j] => i = j

Clients == {Order[i] : i \in DOMAIN Order}

VARIABLES
    state,                   \* powerState
    registered,              \* how many clients have registered
    allow_sleep,             \* clients with APP_POWER_ALLOW_SLEEP
    shutdown_pending,        \* with APP_POWER_SHUTDOWN_PREPARE_RESPONSE_PENDING
    sleep_pending,           \* with APP_POWER_SLEEP_PREPARE_RESPONSE_PENDING
    user_initiated_shutdown,
    init_complete,
    messages,                \* the message queue: [to, id] records
    system,                  \* the system state: active, or why it rejects requests
    device,                  \* "on", "off", "dormant" or the assertion that failed
    charger,                 \* a charger is attached or being detected
    extreme                  \* battery too low, or temperature outside its limits

flagVars == <<registered, allow_sleep, shutdown_pending, sleep_pending>>
powerVars == <<state, flagVars, user_initiated_shutdown, init_complete, messages,
               system, device, charger, extreme>>

PowerStates == {"init", "ok", "terminating_notified", "terminating_responded",
                "soporific_notified", "soporific_responded"}

Msg(task, id) == [to |-> task, id |-> id]

clients == {Order[i] : i \in 1..registered}

(* appPowerInit, before any client registers. *)
PowerInit ==
    /\ state = "init"
    /\ registered = 0 /\ allow_sleep = {} /\ shutdown_pending = {} /\ sleep_pending = {}
    /\ user_initiated_shutdown = FALSE /\ init_complete = FALSE
    /\ messages = <<Msg("power", "report")>> \* the monitors' first measurements
    /\ system = "initialising"
    /\ device = "on"
    /\ charger \in BOOLEAN /\ extreme \in BOOLEAN

CanPowerOff == ~charger
CanSleep(complete) == CanPowerOff /\ complete
NeedsToPowerOff(user) == CanPowerOff /\ (extreme \/ user)

AllAllowSleep(allow) == clients \subseteq allow

(* TaskList_MessageSendId: one message, whose handlers run one after the   *)
(* other.                                                                  *)
Multicast(msgs, ind) == msgs \o [i \in 1..registered |-> Msg(Order[i], ind)]

----------------------------------------------------------------------------
(* appPowerSetState: the functions that leave and enter a state. *)

EnterPowerStateOk(msgs) ==
    /\ state' = "ok"
    /\ user_initiated_shutdown' = FALSE
    /\ messages' = msgs
    /\ UNCHANGED device

(* SystemState_Shutdown is rejected unless the system is active;           *)
(* SystemState_EmergencyShutdown never is.                                 *)
ShutdownAccepted(user) == NeedsToPowerOff(user) /\ (user => system = "active")

(* appPowerDoPowerOff: the supplies go off (or the device falls back to    *)
(* dormant), unless a charger is being detected.  Then the transition of   *)
(* the system state ends all the same, and the function returns.           *)
EnterTerminatingResponded(user, msgs) ==
    \/ /\ ShutdownAccepted(user)
       /\ state' = "terminating_responded"
       /\ user_initiated_shutdown' = user
       /\ messages' = msgs
       /\ system' = "powered_off"
       /\ device' = "off"
       /\ UNCHANGED charger
    \/ /\ ShutdownAccepted(user)
       /\ EnterPowerStateOk(Multicast(msgs, "shutdown_cancelled"))
       /\ system' = "powered_off"
       /\ charger' = TRUE
    \/ /\ ~ShutdownAccepted(user)
       /\ EnterPowerStateOk(Multicast(msgs, "shutdown_cancelled"))
       /\ UNCHANGED <<system, charger>>

(* Mutant: clients that have not registered are waited for too. *)
WaitsForUnregistered(user, msgs) ==
    /\ state' = "terminating_notified"
    /\ shutdown_pending' = Clients
    /\ user_initiated_shutdown' = user
    /\ messages' = Multicast(msgs, "shutdown_prepare")
    /\ UNCHANGED <<system, device, charger, sleep_pending>>

EnterTerminatingNotified(user, msgs) ==
    /\ shutdown_pending' = clients
    /\ IF clients = {}
       THEN EnterTerminatingResponded(user, msgs)
       ELSE /\ state' = "terminating_notified"
            /\ user_initiated_shutdown' = user
            /\ messages' = Multicast(msgs, "shutdown_prepare")
            /\ UNCHANGED <<system, device, charger>>
    /\ UNCHANGED sleep_pending

(* SystemState_Sleep is rejected, and nobody looks at it, unless the       *)
(* system is active.                                                       *)
EnterSoporificResponded(msgs) ==
    /\ IF CanSleep(init_complete)
       THEN /\ state' = "soporific_responded"
            /\ messages' = msgs
            /\ device' = IF system = "active" THEN "dormant" ELSE device
            /\ system' = IF system = "active" THEN "going_to_sleep" ELSE system
            /\ UNCHANGED user_initiated_shutdown
       ELSE /\ EnterPowerStateOk(Multicast(msgs, "sleep_cancelled"))
            /\ UNCHANGED system
    /\ UNCHANGED charger

(* Clients are registered before initialisation completes, so there are    *)
(* some whenever the device may sleep.                                     *)
EnterSoporificNotified(msgs) ==
    /\ state' = "soporific_notified"
    /\ sleep_pending' = clients
    /\ messages' = Multicast(msgs, "sleep_prepare")
    /\ UNCHANGED <<user_initiated_shutdown, system, device, charger, shutdown_pending>>

StaysInState(msgs) ==
    /\ messages' = msgs
    /\ UNCHANGED <<state, user_initiated_shutdown, system, device, charger,
                   shutdown_pending, sleep_pending>>

----------------------------------------------------------------------------
(* The manager's interface.  None of these functions reports to the caller *)
(* what became of its call.                                                *)

MaySleep(allow, complete) == AllAllowSleep(allow) /\ CanSleep(complete)

(* appPowerHandlePowerEvent.  In the first state a shutdown is requested   *)
(* too, and rejected: the system is not active yet.                        *)
HandlePowerEvent(complete, msgs) ==
    CASE state = "init" ->
            /\ EnterPowerStateOk(msgs)
            /\ UNCHANGED <<system, charger, shutdown_pending, sleep_pending>>
      [] state = "ok" /\ NeedsToPowerOff(user_initiated_shutdown) ->
            EnterTerminatingNotified(user_initiated_shutdown, msgs)
      [] /\ state = "ok"
         /\ ~NeedsToPowerOff(user_initiated_shutdown)
         /\ MaySleep(allow_sleep, complete) ->
            EnterSoporificNotified(msgs)
      [] OTHER -> StaysInState(msgs)

(* Mutant: a request while the device falls asleep turns that into a       *)
(* shutdown.                                                               *)
TakesOverSleep ==
    /\ IF CanPowerOff /\ state \in {"ok", "soporific_notified"} /\ clients # {}
       THEN /\ state' = "terminating_notified"
            /\ shutdown_pending' = clients
            /\ sleep_pending' = {}
            /\ user_initiated_shutdown' = TRUE
            /\ messages' = Multicast(messages, "shutdown_prepare")
            /\ UNCHANGED <<system, device, charger>>
       ELSE StaysInState(messages)
    /\ UNCHANGED <<registered, allow_sleep>>

(* appPowerOffRequest *)
PowerOffRequest ==
    /\ IF CanPowerOff /\ state = "ok"
       THEN EnterTerminatingNotified(TRUE, messages)
       ELSE StaysInState(messages)
    /\ UNCHANGED <<registered, allow_sleep>>

(* appPowerClientRegister, which panics in the first state.  Most clients  *)
(* (allow) call appPowerClientAllowSleep at once; it only sets the flag,   *)
(* as initialisation is not complete.                                      *)
ClientRegister(task, allow) ==
    /\ state # "init"
    /\ registered' = registered + 1
    /\ allow_sleep' = allow_sleep \cup allow
    /\ CASE state = "terminating_notified" ->
              /\ shutdown_pending' = shutdown_pending \cup {task}
              /\ messages' = Append(messages, Msg(task, "shutdown_prepare"))
              /\ UNCHANGED sleep_pending
         [] state = "soporific_notified" ->
              /\ sleep_pending' = sleep_pending \cup {task}
              /\ messages' = Append(messages, Msg(task, "sleep_prepare"))
              /\ UNCHANGED shutdown_pending
         [] OTHER -> UNCHANGED <<shutdown_pending, sleep_pending, messages>>
    /\ UNCHANGED <<state, user_initiated_shutdown, system, device, charger>>

(* Mutant: the flag is set, and the other clients' flags are not looked at. *)
AllowsWithoutCheck(task, msgs) ==
    /\ allow_sleep' = allow_sleep \cup {task}
    /\ StaysInState(msgs)
    /\ UNCHANGED registered

(* appPowerClientAllowSleep *)
ClientAllowSleep(task, msgs) ==
    /\ allow_sleep' = allow_sleep \cup {task}
    /\ IF state = "ok" /\ MaySleep(allow_sleep', init_complete)
       THEN EnterSoporificNotified(msgs)
       ELSE StaysInState(msgs)
    /\ UNCHANGED registered

(* appPowerClientProhibitSleep: it only clears the flag. *)
ClientProhibitSleep(task, msgs) ==
    /\ allow_sleep' = allow_sleep \ {task}
    /\ StaysInState(msgs)
    /\ UNCHANGED registered

(* Mutant: the first answer is taken for all of them. *)
FirstAnswerSuffices(task, msgs) ==
    /\ IF state = "terminating_notified" /\ task \in clients
       THEN /\ shutdown_pending' = shutdown_pending \ {task}
            /\ EnterTerminatingResponded(user_initiated_shutdown, msgs)
            /\ UNCHANGED sleep_pending
       ELSE StaysInState(msgs)
    /\ UNCHANGED <<registered, allow_sleep>>

(* appPowerShutdownPrepareResponse, ignored in the wrong state. *)
ShutdownPrepareResponse(task, msgs) ==
    /\ IF state = "terminating_notified" /\ task \in clients
       THEN /\ shutdown_pending' = shutdown_pending \ {task}
            /\ IF shutdown_pending' = {}
               THEN EnterTerminatingResponded(user_initiated_shutdown, msgs)
               ELSE /\ messages' = msgs
                    /\ UNCHANGED <<state, user_initiated_shutdown, system, device, charger>>
            /\ UNCHANGED sleep_pending
       ELSE StaysInState(msgs)
    /\ UNCHANGED <<registered, allow_sleep>>

(* appPowerSleepPrepareResponse, ignored in the wrong state. *)
SleepPrepareResponse(task, msgs) ==
    /\ IF state = "soporific_notified" /\ task \in clients
       THEN /\ sleep_pending' = sleep_pending \ {task}
            /\ IF sleep_pending' = {}
               THEN EnterSoporificResponded(msgs)
               ELSE /\ messages' = msgs
                    /\ UNCHANGED <<state, user_initiated_shutdown, system, device, charger>>
            /\ UNCHANGED shutdown_pending
       ELSE StaysInState(msgs)
    /\ UNCHANGED <<registered, allow_sleep>>
=============================================================================
