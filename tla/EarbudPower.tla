---------------------------- MODULE EarbudPower -----------------------------
(***************************************************************************)
(* The power manager with its clients in an earbud: the application state  *)
(* machine (src/earbud/src/earbud_sm.c), which alone prohibits sleep and   *)
(* has the topology stopped before it answers; clients that answer at once *)
(* (audio curation); and those that answer a shutdown when an indication   *)
(* has been played (the LEDs).                                             *)
(*                                                                         *)
(* All tasks take their messages from the one queue of the firmware        *)
(* (MessageQueue is about that).  The topology is asked to start and stop  *)
(* and confirms; TwsTopology is about how it does that.                    *)
(***************************************************************************)
EXTENDS PowerManager, SequencesExt

CONSTANTS SM,       \* the application state machine
          Prompt,   \* clients that answer in the handler of the indication
          Ui,       \* clients that play an indication first
          MAX_QUEUE \* bound: messages queued when the world outside adds one

ASSUME EarbudAssumption ==
    /\ Clients = {SM} \cup Prompt \cup Ui
    /\ SM \notin Prompt \cup Ui /\ Prompt \cap Ui = {}
    /\ MAX_QUEUE \in Nat

VARIABLES
    sm,         \* appState
    phy,        \* where the earbud is: "out" of the case and the ear, or in one
    idle_timer, \* SM_INTERNAL_TIMEOUT_IDLE is pending
    topology,   \* requests the topology has not confirmed
    indicating  \* Ui clients with indicate_when_power_shutdown_prepared

smVars == <<sm, phy, idle_timer, topology>>
vars == <<powerVars, smVars, indicating>>

SmStates == {"initialising", "startup", "idle", "in_use", "soporific",
             "soporific_terminating", "terminating"}

Init ==
    /\ PowerInit
    /\ sm = "initialising"
    /\ phy \in {"out", "in"}
    /\ idle_timer = FALSE
    /\ topology = {}
    /\ indicating = {}

(* EarbudInit_CompleteInitialisation is one handler: nothing runs between  *)
(* its calls of appPowerInitComplete and SystemState_StartUp.              *)
Running == device = "on" /\ ~(init_complete /\ system = "initialising")

Received(task, id) == Running /\ messages # <<>> /\ Head(messages) = Msg(task, id)

(* The rest of the queue, once a handler has its message. *)
Rest == Tail(messages)

----------------------------------------------------------------------------
(* Initialisation and the monitors. *)

(* A failed emergency shutdown replaces the transition that runs the       *)
(* initialisation, which then never goes on.                               *)
Registers ==
    /\ Running
    /\ system = "initialising"
    /\ registered < Len(Order)
    /\ LET c == Order[registered + 1] IN ClientRegister(c, {c} \ {SM})
    /\ UNCHANGED <<init_complete, extreme, smVars, indicating>>

(* Mutant: the conditions are not looked at once initialisation is complete. *)
CompletesQuietly ==
    /\ Running
    /\ system = "initialising"
    /\ registered = Len(Order)
    /\ init_complete' = TRUE
    /\ StaysInState(messages)
    /\ UNCHANGED <<registered, allow_sleep, extreme, smVars, indicating>>

(* appPowerInitComplete *)
InitComplete ==
    /\ Running
    /\ system = "initialising"
    /\ registered = Len(Order)
    /\ init_complete' = TRUE
    /\ HandlePowerEvent(TRUE, messages)
    /\ UNCHANGED <<registered, allow_sleep, extreme, smVars, indicating>>

(* SystemState_StartUp *)
StartUp ==
    /\ device = "on" /\ init_complete /\ system = "initialising"
    /\ system' = "active"
    /\ messages' = Append(messages, Msg(SM, "init_cfm"))
    /\ UNCHANGED <<state, flagVars, user_initiated_shutdown, init_complete, device,
                   charger, extreme, smVars, indicating>>

(* The charger, the battery monitor or the temperature sensor reports. *)
MonitorReports ==
    /\ Running
    /\ Len(messages) < MAX_QUEUE
    /\ charger' \in BOOLEAN /\ extreme' \in BOOLEAN
    /\ messages' = Append(messages, Msg("power", "report"))
    /\ UNCHANGED <<state, flagVars, user_initiated_shutdown, init_complete, system, device, smVars, indicating>>

(* appPowerHandleMessage *)
HandleMessage ==
    /\ Received("power", "report")
    /\ HandlePowerEvent(init_complete, Rest)
    /\ UNCHANGED <<registered, allow_sleep, init_complete, extreme, smVars, indicating>>

UserPowersOff ==
    /\ Running
    /\ PowerOffRequest
    /\ UNCHANGED <<init_complete, extreme, smVars, indicating>>

----------------------------------------------------------------------------
(* The application state machine. *)

StateIsSleepy(s) == s \in {"soporific", "soporific_terminating"}
SubStateIsTerminating(s) == s \in {"terminating", "soporific_terminating"}
IsCoreState(s) == s \in {"idle", "in_use", "soporific"}
CalcCoreState(place) == IF place = "out" THEN "idle" ELSE "in_use"

(* Mutant: the timeout is not cancelled. *)
KeepsIdleTimeout(msgs) == msgs

(* appExitOutOfCaseIdle *)
WithoutIdleTimeout(msgs) == RemoveFirst(msgs, Msg(SM, "idle_timeout"))

(* What appSmSetState asks of the topology. *)
Requests(new) ==
    (IF SubStateIsTerminating(new) /\ ~SubStateIsTerminating(sm) THEN {"stop"} ELSE {})
        \cup (IF new = "startup" THEN {"start"} ELSE {})

(* appSmSetState *)
SmSetState(new, msgs) ==
    LET left == IF sm = "idle" THEN WithoutIdleTimeout(msgs) ELSE msgs IN
    /\ sm' = new
    /\ idle_timer' = (new = "idle")
    /\ topology' = topology \cup Requests(new)
    /\ CASE StateIsSleepy(sm) /\ ~StateIsSleepy(new) -> ClientProhibitSleep(SM, left)
         [] ~StateIsSleepy(sm) /\ StateIsSleepy(new) -> ClientAllowSleep(SM, left)
         [] OTHER -> StaysInState(left) /\ UNCHANGED <<registered, allow_sleep>>

SmStays(msgs) ==
    /\ StaysInState(msgs)
    /\ UNCHANGED <<registered, allow_sleep, sm, idle_timer, topology>>

(* A failed PanicFalse, or a call of Panic. *)
SmPanics(assertion) ==
    /\ device' = assertion
    /\ UNCHANGED <<state, flagVars, user_initiated_shutdown, messages, system, charger,
                   sm, idle_timer, topology>>

SmHandler == UNCHANGED <<init_complete, extreme, phy, indicating>>

(* appSmHandleInitConfirm, and startup once there is no upgrade to resume. *)
HandleInitConfirm ==
    /\ Received(SM, "init_cfm")
    /\ CASE sm = "initialising" -> SmSetState("startup", Rest)
         [] sm = "terminating" -> SmStays(Rest)
         [] OTHER -> SmPanics("init confirm")
    /\ SmHandler

(* appSmHandlePhyStateChangedInd *)
HandlePhyStateChangedInd ==
    /\ \E place \in {"out", "in"} :
        /\ Received(SM, place)
        /\ IF IsCoreState(sm) /\ CalcCoreState(place) # sm
           THEN SmSetState(CalcCoreState(place), Rest)
           ELSE SmStays(Rest)
    /\ SmHandler

(* appSmHandleInternalTimeoutIdle *)
HandleInternalTimeoutIdle ==
    /\ Received(SM, "idle_timeout")
    /\ IF sm = "idle"
       THEN SmSetState("soporific", Rest)
       ELSE SmPanics("idle timeout")
    /\ SmHandler

(* appSmHandlePowerSleepPrepareInd *)
HandlePowerSleepPrepareInd ==
    /\ Received(SM, "sleep_prepare")
    /\ IF sm = "soporific"
       THEN SmSetState("soporific_terminating", Rest)
       ELSE SmPanics("sleep prepare")
    /\ SmHandler

(* Mutant: the application answers before the topology has stopped. *)
AnswersBeforeStop ==
    /\ Received(SM, "shutdown_prepare")
    /\ sm' = "terminating"
    /\ topology' = topology \cup Requests("terminating")
    /\ ShutdownPrepareResponse(SM, Rest)
    /\ UNCHANGED idle_timer
    /\ SmHandler

(* appSmHandlePowerShutdownPrepareInd *)
HandlePowerShutdownPrepareInd ==
    /\ Received(SM, "shutdown_prepare")
    /\ SmSetState("terminating", Rest)
    /\ SmHandler

(* appSmHandlePowerSleepCancelledInd, appSmHandlePowerShutdownCancelledInd *)
HandlePowerCancelledInd ==
    /\ \E ind \in {"sleep_cancelled", "shutdown_cancelled"} : Received(SM, ind)
    /\ SmSetState("startup", Rest)
    /\ SmHandler

(* appSm_HandleTwsTopologyStartCfm *)
HandleTwsTopologyStartCfm ==
    /\ Received(SM, "start_cfm")
    /\ IF sm = "startup"
       THEN SmSetState(CalcCoreState(phy), Rest)
       ELSE SmStays(Rest)
    /\ SmHandler

(* appSm_HandleTwsTopologyStopCfm *)
HandleTwsTopologyStopCfm ==
    /\ Received(SM, "stop_cfm")
    /\ CASE sm = "soporific_terminating" -> SleepPrepareResponse(SM, Rest)
         [] sm = "terminating" -> ShutdownPrepareResponse(SM, Rest)
         [] OTHER -> StaysInState(Rest) /\ UNCHANGED <<registered, allow_sleep>>
    /\ UNCHANGED <<sm, idle_timer, topology>>
    /\ SmHandler

SmStep ==
    \/ HandleInitConfirm \/ HandlePhyStateChangedInd \/ HandleInternalTimeoutIdle
    \/ HandlePowerSleepPrepareInd \/ HandlePowerShutdownPrepareInd
    \/ HandlePowerCancelledInd \/ HandleTwsTopologyStartCfm \/ HandleTwsTopologyStopCfm

(* Messages of others for the application. *)
SendsSm(msg) ==
    /\ messages' = Append(messages, Msg(SM, msg))
    /\ UNCHANGED <<state, flagVars, user_initiated_shutdown, init_complete, system,
                   device, charger, extreme, sm, indicating>>

(* The earbud is moved; the physical state module tells the application. *)
PhyStateChanges ==
    /\ Running
    /\ Len(messages) < MAX_QUEUE
    /\ phy' \in {"out", "in"} /\ phy' # phy
    /\ SendsSm(phy')
    /\ UNCHANGED <<idle_timer, topology>>

IdleTimerExpires ==
    /\ Running
    /\ idle_timer
    /\ idle_timer' = FALSE
    /\ SendsSm("idle_timeout")
    /\ UNCHANGED <<phy, topology>>

TopologyConfirms(request) ==
    /\ Running
    /\ request \in topology
    /\ topology' = topology \ {request}
    /\ SendsSm(IF request = "start" THEN "start_cfm" ELSE "stop_cfm")
    /\ UNCHANGED <<phy, idle_timer>>

----------------------------------------------------------------------------
(* The other clients. *)

ClientHandler == UNCHANGED <<init_complete, extreme, smVars>>

(* handlePowerClientEvents of audio curation *)
PromptClientStep(c) ==
    /\ \/ Received(c, "shutdown_prepare") /\ ShutdownPrepareResponse(c, Rest)
       \/ Received(c, "sleep_prepare") /\ SleepPrepareResponse(c, Rest)
       \/ /\ \E ind \in {"shutdown_cancelled", "sleep_cancelled"} : Received(c, ind)
          /\ StaysInState(Rest) /\ UNCHANGED <<registered, allow_sleep>>
    /\ UNCHANGED indicating
    /\ ClientHandler

(* uiLeds_HandleMessage *)
UiClientStep(c) ==
    /\ \/ /\ Received(c, "shutdown_prepare")
          /\ indicating' = indicating \cup {c}
          /\ StaysInState(Rest) /\ UNCHANGED <<registered, allow_sleep>>
       \/ /\ Received(c, "flash_completed")
          /\ ShutdownPrepareResponse(c, Rest)
          /\ UNCHANGED indicating
       \/ /\ Received(c, "sleep_prepare")
          /\ SleepPrepareResponse(c, Rest)
          /\ UNCHANGED indicating
       \/ /\ \E ind \in {"shutdown_cancelled", "sleep_cancelled"} : Received(c, ind)
          /\ StaysInState(Rest) /\ UNCHANGED <<registered, allow_sleep, indicating>>
    /\ ClientHandler

(* A pattern ends: the one that shows the shutdown, or another, as the     *)
(* flag that makes the client answer is never cleared.                     *)
FlashEnds(c) ==
    /\ Running
    /\ c \in indicating
    /\ \A i \in DOMAIN messages : messages[i] # Msg(c, "flash_completed")
    /\ messages' = Append(messages, Msg(c, "flash_completed"))
    /\ UNCHANGED <<state, flagVars, user_initiated_shutdown, system, device, charger,
                   indicating>>
    /\ ClientHandler

(* Handling the message at the head of the queue. *)
Delivery ==
    \/ HandleMessage \/ SmStep
    \/ \E c \in Prompt : PromptClientStep(c)
    \/ \E c \in Ui : UiClientStep(c)

Next ==
    \/ Registers \/ InitComplete \/ StartUp
    \/ MonitorReports \/ UserPowersOff
    \/ PhyStateChanges \/ IdleTimerExpires
    \/ \E request \in {"start", "stop"} : TopologyConfirms(request)
    \/ \E c \in Ui : FlashEnds(c)
    \/ Delivery

(* Queued messages are delivered, the initialisation goes on, the topology *)
(* confirms, and an indication that is played ends.                        *)
Fairness ==
    /\ WF_vars(Registers) /\ WF_vars(InitComplete) /\ WF_vars(StartUp) /\ WF_vars(Delivery)
    /\ \A request \in {"start", "stop"} : WF_vars(TopologyConfirms(request))
    /\ \A c \in Ui : WF_vars(FlashEnds(c))

Spec == Init /\ [][Next]_vars /\ Fairness

----------------------------------------------------------------------------
(* Messages that the tasks get. *)
PowerInds == {"shutdown_prepare", "shutdown_cancelled", "sleep_prepare", "sleep_cancelled"}
MessageIds == PowerInds \cup {"report", "init_cfm", "out", "in", "idle_timeout",
                              "start_cfm", "stop_cfm", "flash_completed"}

TypeOK ==
    /\ state \in PowerStates
    /\ registered \in 0..Len(Order)
    /\ allow_sleep \subseteq clients
    /\ shutdown_pending \subseteq clients /\ sleep_pending \subseteq clients
    /\ user_initiated_shutdown \in BOOLEAN /\ init_complete \in BOOLEAN
    /\ messages \in Seq([to : Clients \cup {"power"}, id : MessageIds])
    /\ system \in {"initialising", "active", "going_to_sleep", "powered_off"}
    /\ device \in {"on", "off", "dormant", "init confirm", "idle timeout", "sleep prepare"}
    /\ charger \in BOOLEAN /\ extreme \in BOOLEAN
    /\ sm \in SmStates
    /\ phy \in {"out", "in"}
    /\ idle_timer \in BOOLEAN
    /\ topology \subseteq {"start", "stop"}
    /\ indicating \subseteq Ui

(* The manager waits for somebody exactly as long as it says so: a state   *)
(* in which clients are notified is never left waiting for nobody, and no  *)
(* flag of one handshake survives into the next.                           *)
PendingOnlyWhileNotified ==
    /\ (state = "terminating_notified") = (shutdown_pending # {})
    /\ (state = "soporific_notified") = (sleep_pending # {})

(* The device goes down only after the application has had the topology    *)
(* stopped for that very reason, and after everybody but the indications   *)
(* has read what it was asked to prepare for.                              *)
NobodyCutOff ==
    /\ device = "off" /\ SM \in clients => sm = "terminating" /\ "stop" \notin topology
    /\ device = "dormant" => sm = "soporific_terminating" /\ "stop" \notin topology
    /\ device \in {"off", "dormant"} =>
          \A c \in clients \ Ui, i \in DOMAIN messages :
              messages[i] \notin {Msg(c, "shutdown_prepare"), Msg(c, "sleep_prepare")}

(* Sleep is not missed: when all clients allow it and nothing forbids it,  *)
(* the manager is on its way there, or a message that will move it or the  *)
(* application is queued.                                                  *)
SleepNotMissed ==
    Running /\ state = "ok" /\ MaySleep(allow_sleep, init_complete) =>
          \E i \in DOMAIN messages :
              \/ messages[i] = Msg("power", "report")
              \/ messages[i].to = SM /\ messages[i].id \in PowerInds

(* The assertion of appSmHandleInternalTimeoutIdle holds: the timeout is   *)
(* cancelled, even when it is already queued, as the idle state is left.   *)
IdleTimeoutWhenIdle == device # "idle timeout"

(* The manager and its clients implement the handshake.  A sleep that the  *)
(* system rejects counts as down: the manager does nothing any more.       *)
HandshakePhase ==
    IF device \notin {"on", "off", "dormant"} THEN "panicked"
    ELSE CASE state = "terminating_notified" -> "shutdown"
           [] state = "soporific_notified" -> "sleep"
           [] state \in {"terminating_responded", "soporific_responded"} -> "down"
           [] OTHER -> "awake"

Handshake ==
    INSTANCE PowerHandshake WITH
        phase <- HandshakePhase,
        waiting <- shutdown_pending \cup sleep_pending

ImplementsHandshake == Handshake!Spec

(* A device whose battery is too low, or too hot or cold, goes down,       *)
(* unless a charger is attached or the reason goes away: whatever the      *)
(* manager was doing when the report came.                                 *)
LowPowerEndsDown ==
    (device = "on" /\ system = "active" /\ extreme /\ ~charger)
        ~> (device # "on" \/ ~extreme \/ charger)

(* earbud_sm.c:1102 says that the application "only permits sleep when     *)
(* soporific", and asserts it.                                             *)
SoporificWhenAskedToSleep == device # "sleep prepare"
=============================================================================
