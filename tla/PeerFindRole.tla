---------------------------- MODULE PeerFindRole ----------------------------
(***************************************************************************)
(* Two earbuds find out which of them is primary.  Each advertises and    *)
(* scans; the one that sees the other connects over LE and becomes the    *)
(* GATT server, the other the client; the client compares the figures of  *)
(* merit, writes the server's role and takes the other one itself.  Both  *)
(* run the same state machine, peer_find_role_sm.c, over a link that may  *)
(* be lost, while their topologies may cancel and search again.           *)
(*                                                                         *)
(* A handler may go through several states, so that the operators below   *)
(* take and return a world: the data of the earbud that runs, the link    *)
(* and the ATT traffic in flight.  Left out: media other than a confirmed *)
(* primary, duty cycles of the scan, negative timeouts and fixed roles    *)
(* (a client may decide either way).                                      *)
(***************************************************************************)
EXTENDS Queues, SequencesExt

CONSTANTS Earbud,      \* the two earbuds
          PREPARES,    \* the earbuds with a client registered for PREPARE_FOR_ROLE_SELECTION
          MAX_QUEUE,   \* bound on an earbud's message queue
          MAX_LINKS,   \* bound on the links that are set up
          MAX_FINDS,   \* bound on the calls of PeerFindRole_FindRole
          MAX_UPSETS,  \* bound on searches cancelled, links lost and encryptions failed
          TIMEOUTS     \* whether a search is called with a timeout: {TRUE}, {FALSE} or both

ASSUME FindRoleAssumption ==
    /\ \E e, f \in Earbud : e # f /\ Earbud = {e, f}
    /\ PREPARES \subseteq Earbud
    /\ {MAX_QUEUE, MAX_LINKS, MAX_FINDS, MAX_UPSETS} \subseteq Nat
    /\ TIMEOUTS \subseteq BOOLEAN

VARIABLES eb,    \* each earbud's peerFindRoleTaskData, its queue and what was announced
          link,  \* the LE link between them
          air,   \* the ATT PDUs on their way to each earbud
          used   \* how often something bounded has happened

vars == <<eb, link, air, used>>

Peer(e) == CHOOSE f \in Earbud : f # e

Roles == {"PRIMARY", "SECONDARY"}

Other(role) == IF role = "PRIMARY" THEN "SECONDARY" ELSE "PRIMARY"

\* A role with the link it was given over, and at which end of it: the client's, that
\* has written the other role, or the server's, that was written to.
Outcome(role, id, end) == [role |-> role, link |-> id, end |-> end]

Alone(role) == Outcome(role, 0, "none")

NoRole == Alone("none")

AdvertisingStates ==
    {"DISCOVER_CONNECTABLE", "DISCOVERED_DEVICE", "CONNECTING_TO_DISCOVERED"}

ClientStates ==
    {"CLIENT", "CLIENT_AWAITING_ENCRYPTION", "CLIENT_PREPARING", "CLIENT_DECIDING",
     "CLIENT_AWAITING_CONFIRM", "COMPLETED"}

ServerStates ==
    {"SERVER_AWAITING_ENCRYPTION", "SERVER_PREPARING", "SERVER", "SERVER_AWAITING_COMPLETION"}

States == {"INITIALISED", "DISCOVER", "PANIC"} \cup AdvertisingStates
          \cup ClientStates \cup ServerStates

Timers == {"DISCOVERY", "ADVERT_BACKOFF", "PEER_CONNECTION", "NOT_DISCONNECTED",
           "SERVER_ROLE_SELECTED", "NO_FOM_RECEIVED"}

NoLink(e, id) == [central |-> e, id |-> id, up |-> FALSE, closing |-> FALSE,
                  securing |-> FALSE, encrypted |-> FALSE, gatt |-> {}]

EarbudInit ==
    [state |-> "INITIALISED", gatt_cid |-> FALSE, gatt_encrypted |-> FALSE,
     selected_role |-> NoRole, confirming_primary |-> FALSE, role_timeout |-> FALSE,
     advert_handle |-> FALSE, scan |-> "off", scan_enable |-> FALSE, peer_addr |-> FALSE,
     connecting |-> FALSE, client |-> FALSE, peer_score |-> FALSE, remote_role |-> "SECONDARY",
     figure_of_merit |-> FALSE, preparing |-> FALSE, timers |-> {}, queue |-> <<>>,
     outcome |-> NoRole]

Init == /\ eb = [e \in Earbud |-> EarbudInit]
        /\ \E e \in Earbud : link = NoLink(e, 0)
        /\ air = [e \in Earbud |-> <<>>]
        /\ used = [finds |-> 0, upsets |-> 0]

-----------------------------------------------------------------------------
(* Worlds.                                                                 *)

World(e) == [me |-> eb[e], link |-> link, air |-> air]

Becomes(e, w) == eb' = [eb EXCEPT ![e] = w.me] /\ link' = w.link /\ air' = w.air

Msg(type, arg, id) == [type |-> type, arg |-> arg, link |-> id]

\* A message without a payload.
Signal(type) == Msg(type, "", 0)

\* A payload that only says whether something is so.
Flag(b) == IF b THEN "yes" ELSE "no"

Post(w, m) == [w EXCEPT !.me.queue = Append(@, m)]

Unpost(w, type) == [w EXCEPT !.me.queue = CancelAll(@, {Signal(type)})]

\* ATT traffic is carried while the link is up.
Send(w, to, type, arg) ==
    IF w.link.up THEN [w EXCEPT !.air[to] = Append(@, Msg(type, arg, w.link.id))] ELSE w

\* ConManagerReleaseTpAcl finds the link, or the attempt, by the stored address.
Release(w) ==
    IF ~w.me.peer_addr THEN w
    ELSE IF w.link.up THEN [w EXCEPT !.link.closing = TRUE]
    ELSE [w EXCEPT !.me.connecting = FALSE]

DisconnectLink(w) ==
    LET v == [w EXCEPT !.me.gatt_encrypted = FALSE]
    IN  IF w.me.gatt_cid THEN Release(v) ELSE v

\* A start while the scan manager stops is repeated until it has stopped.  After
\* that, the START_CFM undoes what a STOP_CFM that is still queued does.
StartScanningIfInactive(r) ==
    IF r.confirming_primary \/ r.scan = "on" THEN r
    ELSE [r EXCEPT !.scan = IF @ = "stopping" THEN @ ELSE "on",
                   !.queue = CancelAll(@, {Signal("STOP_CFM")}),
                   !.scan_enable = TRUE, !.peer_addr = FALSE]

StopScanIfActive(r) ==
    [r EXCEPT !.scan = IF @ = "on" THEN "stopping" ELSE @, !.scan_enable = FALSE]

NotifyImmediately(w, outcome) ==
    [w EXCEPT !.me.timers = @ \ {"DISCOVERY"}, !.me.outcome = outcome]

NotifyIfPending(w) ==
    LET v == [w EXCEPT !.me.selected_role = NoRole]
    IN  IF w.me.selected_role = NoRole THEN v
        ELSE NotifyImmediately(v, w.me.selected_role)

-----------------------------------------------------------------------------
(* peer_find_role_set_state: what leaving a state does, then what entering *)
(* the next one does, which may leave it again.                            *)

ExitTimers == [DISCOVER |-> "ADVERT_BACKOFF", CONNECTING_TO_DISCOVERED |-> "PEER_CONNECTION",
               SERVER |-> "SERVER_ROLE_SELECTED",
               SERVER_AWAITING_COMPLETION |-> "NOT_DISCONNECTED"]

ExitEarbud(r, new) ==
    LET old == r.state
        a == IF old \in DOMAIN ExitTimers THEN [r EXCEPT !.timers = @ \ {ExitTimers[old]}] ELSE r
        b == IF \/ old = "DISCOVER" /\ new # "DISCOVER_CONNECTABLE"
                \/ old = "DISCOVER_CONNECTABLE"
             THEN StopScanIfActive(a) ELSE a
        c == IF old \in AdvertisingStates /\ new \notin AdvertisingStates
             THEN [b EXCEPT !.advert_handle = FALSE] ELSE b
    IN  IF r.gatt_cid /\ old \in ClientStates /\ new \notin ClientStates
        THEN [c EXCEPT !.client = FALSE, !.gatt_cid = FALSE, !.gatt_encrypted = FALSE] ELSE c

Move(w, new) ==
    LET old == w.me.state
        v == CASE old = "DISCOVERED_DEVICE" /\ w.me.scan # "off"
                    -> Unpost(w, "CONNECT_TO_PEER")
               [] old \in {"SERVER_PREPARING", "CLIENT_PREPARING"} -> Unpost(w, "PREPARED")
               [] /\ old = "CONNECTING_TO_DISCOVERED"
                  /\ new \notin {"SERVER_AWAITING_ENCRYPTION", "CLIENT"} -> Release(w)
               [] OTHER -> w
    IN  [v EXCEPT !.me = [ExitEarbud(v.me, new) EXCEPT
                                !.state = IF old \in {new, "PANIC"} THEN "PANIC" ELSE new]]

ToDiscover(w) ==
    LET v == Move(w, "DISCOVER")
        r == StartScanningIfInactive(v.me)
        t == {"ADVERT_BACKOFF"} \cup IF r.role_timeout /\ ~r.confirming_primary
                                     THEN {"DISCOVERY"} ELSE {}
    IN  [v EXCEPT !.me = [r EXCEPT !.gatt_cid = FALSE, !.gatt_encrypted = FALSE,
                                   !.timers = @ \cup t]]

\* Only a completed search without a primary to confirm gets here.
ToInitialised(w) ==
    LET v == Move(w, "INITIALISED")
    IN  NotifyIfPending([DisconnectLink(v) EXCEPT !.me.confirming_primary = FALSE])

SelectStateAfterCompletion(w) ==
    IF w.me.confirming_primary THEN ToDiscover(w) ELSE ToInitialised(w)

ToCompleted(w) ==
    LET v == Move(w, "COMPLETED")
    IN  IF v.me.gatt_cid THEN DisconnectLink(v) ELSE SelectStateAfterCompletion(v)

ToDiscoverConnectable(w) ==
    LET v == Move(w, "DISCOVER_CONNECTABLE")
    IN  [v EXCEPT !.me = [StartScanningIfInactive(v.me) EXCEPT !.advert_handle = TRUE]]

\* Mutant: the timeout of the search goes on once the peer has been seen.
DiscoversKeepingTimeout(w) ==
    Post(Move(w, "DISCOVERED_DEVICE"), Signal("CONNECT_TO_PEER"))

ToDiscoveredDevice(w) ==
    LET v == Move(w, "DISCOVERED_DEVICE")
    IN  Post([v EXCEPT !.me.timers = @ \ {"DISCOVERY"}], Signal("CONNECT_TO_PEER"))

\* ConManagerCreateTpAcl does nothing more when the link is there already.
ToConnectingToDiscovered(w) ==
    [Move(w, "CONNECTING_TO_DISCOVERED") EXCEPT
        !.me.connecting = ~w.link.up, !.me.timers = @ \cup {"PEER_CONNECTION"}]

ToServerAwaitingEncryption(w) ==
    LET v == Move(w, "SERVER_AWAITING_ENCRYPTION")
    IN  [v EXCEPT !.link.securing = v.link.up]

\* peer_find_role_set_server_score is without effect before there is a GATT link.
SetServerScore(w, e, valid) ==
    IF w.me.gatt_cid
    THEN Send([w EXCEPT !.me.figure_of_merit = valid], Peer(e), "FIGURE_OF_MERIT", Flag(valid))
    ELSE w

ToServer(w, e) ==
    SetServerScore([Move(w, "SERVER") EXCEPT
                       !.me.timers = @ \cup {"SERVER_ROLE_SELECTED"}], e, TRUE)

ToServerPreparing(w, e) ==
    LET v == Move(w, "SERVER_PREPARING")
    IN  IF e \in PREPARES THEN [v EXCEPT !.me.preparing = TRUE] ELSE ToServer(v, e)

ToServerAwaitingCompletion(w) ==
    [Move(w, "SERVER_AWAITING_COMPLETION") EXCEPT !.me.timers = @ \cup {"NOT_DISCONNECTED"}]

ToClient(w) ==
    LET v == Unpost(Move(w, "CLIENT"), "CONNECT_TO_PEER")
    IN  Post([v EXCEPT !.me.timers = @ \ {"DISCOVERY"}, !.me.peer_score = FALSE,
                       !.me.client = TRUE], Signal("CLIENT_INIT_CFM"))

\* Mutant: the role that is written is not remembered.
WritesWithoutStoring(w, e, role) ==
    IF ~w.me.peer_score THEN w
    ELSE LET s == IF w.me.client THEN Send(w, Peer(e), "CHANGE_ROLE", role) ELSE w
         IN  [Move(s, "CLIENT_AWAITING_CONFIRM") EXCEPT
                 !.me.timers = @ \ {"NO_FOM_RECEIVED"}]

\* The scores, or fixed roles, may come out either way.
DecideRoles(w, e, role) ==
    IF ~w.me.peer_score THEN w
    ELSE LET v == [w EXCEPT !.me.remote_role = role]
             s == IF v.me.client THEN Send(v, Peer(e), "CHANGE_ROLE", role) ELSE v
         IN  [Move(s, "CLIENT_AWAITING_CONFIRM") EXCEPT
                 !.me.timers = @ \ {"NO_FOM_RECEIVED"}]

ToClientDeciding(w, e, role) ==
    DecideRoles([Move(w, "CLIENT_DECIDING") EXCEPT
                    !.me.timers = @ \cup {"NO_FOM_RECEIVED"}], e, role)

ToClientPreparing(w, e, role) ==
    LET v == Move(w, "CLIENT_PREPARING")
    IN  IF e \in PREPARES THEN [v EXCEPT !.me.preparing = TRUE]
        ELSE ToClientDeciding(v, e, role)

ToClientAwaitingEncryption(w, e, role) ==
    LET v == Move(w, "CLIENT_AWAITING_ENCRYPTION")
    IN  IF v.me.gatt_encrypted THEN ToClientPreparing(v, e, role) ELSE v

\* Mutant: every outcome waits for the links to go.
StoresEveryOutcome(w, outcome) ==
    LET a == [w EXCEPT !.me.selected_role = outcome,
                       !.me.confirming_primary = outcome.role = "PRIMARY"]
        b == CASE a.me.state = "INITIALISED" -> NotifyIfPending(a)
               [] a.me.state = "SERVER" -> ToServerAwaitingCompletion(a)
               [] a.me.state = "COMPLETED" -> a
               [] OTHER -> ToCompleted(a)
    IN  [b EXCEPT !.me.client = FALSE, !.me.gatt_cid = FALSE, !.me.gatt_encrypted = FALSE]

\* Mutant: a search that is completing is completed again.
CompletesTwice(w, outcome) ==
    LET a == [w EXCEPT !.me.selected_role = outcome]
        b == CASE a.me.state = "INITIALISED" -> NotifyIfPending(a)
               [] a.me.state = "SERVER" -> ToServerAwaitingCompletion(a)
               [] OTHER -> ToCompleted(a)
    IN  [b EXCEPT !.me.client = FALSE, !.me.gatt_cid = FALSE, !.me.gatt_encrypted = FALSE]

\* A primary is reported at once, any other outcome once the links have gone.
Completed(w, outcome) ==
    LET a == IF outcome.role = "PRIMARY"
             THEN NotifyImmediately([w EXCEPT !.me = [StopScanIfActive(w.me) EXCEPT
                     !.selected_role = NoRole, !.confirming_primary = TRUE]], outcome)
             ELSE [w EXCEPT !.me.selected_role = outcome, !.me.confirming_primary = FALSE]
        b == CASE a.me.state = "INITIALISED" -> NotifyIfPending(a)
               [] a.me.state = "SERVER" -> ToServerAwaitingCompletion(a)
               [] a.me.state = "COMPLETED" -> a
               [] OTHER -> ToCompleted(a)
    IN  [b EXCEPT !.me.client = FALSE, !.me.gatt_cid = FALSE, !.me.gatt_encrypted = FALSE]
-----------------------------------------------------------------------------
(* The handlers of an earbud's messages.                                   *)

\* No state is checked: whatever the client is doing by now.
HandleClientInit(w, e, role) == ToClientAwaitingEncryption(w, e, role)

\* An earbud that has been cancelled ignores the role it is given.
HandleChangeRoleInd(w, m) ==
    IF w.me.selected_role = NoRole THEN Completed(w, Outcome(m.arg, m.link, "server")) ELSE w

HandleCommandCfm(w, m) ==
    IF w.me.state = "CLIENT_AWAITING_CONFIRM" /\ m.arg = "yes"
    THEN Completed(w, Outcome(Other(w.me.remote_role), m.link, "client")) ELSE w

HandleFigureOfMerit(w, e, m, role) ==
    LET v == [w EXCEPT !.me.peer_score = m.arg = "yes"]
    IN  IF v.me.state = "CLIENT_DECIDING" THEN DecideRoles(v, e, role) ELSE v

HandleAdvReport(w) ==
    IF w.me.state \in {"DISCOVER", "DISCOVER_CONNECTABLE"}
    THEN ToDiscoveredDevice([w EXCEPT !.me.peer_addr = TRUE]) ELSE w

HandleBleSecurity(w, e, m) ==
    IF w.me.state # "SERVER_AWAITING_ENCRYPTION" THEN w
    ELSE IF m.arg = "yes" THEN ToServerPreparing(w, e) ELSE ToDiscover(w)

\* The one that made the connection becomes the server.
HandleTpConnect(w, m) ==
    LET v == [w EXCEPT !.me.peer_addr = TRUE]
    IN  IF w.me.state = "CONNECTING_TO_DISCOVERED" /\ m.arg = "outgoing"
        THEN ToServerAwaitingEncryption(v) ELSE v

HandlePrepared(w, e, role) ==
    CASE w.me.state = "SERVER_PREPARING" -> ToServer(w, e)
      [] w.me.state = "CLIENT_PREPARING" -> ToClientDeciding(w, e, role)
      [] OTHER -> w

\* Called by the GATT connection's task: nothing happens if the link is gone.
GattConnect(w, e, m) ==
    LET known(v) == [v EXCEPT !.me.gatt_cid = TRUE, !.me.peer_addr = TRUE]
    IN  IF ~(w.link.up /\ w.link.id = m.link) THEN w
        ELSE CASE w.me.state \in AdvertisingStates -> ToClient(known(w))
               [] w.me.state \in {"SERVER_AWAITING_ENCRYPTION", "SERVER"}
                    -> IF w.me.figure_of_merit THEN SetServerScore(known(w), e, FALSE)
                       ELSE known(w)
               [] OTHER -> w

HandleEncryptionChange(w, e, role) ==
    LET v == [w EXCEPT !.me.gatt_encrypted = TRUE]
    IN  IF v.me.state = "CLIENT_AWAITING_ENCRYPTION" THEN ToClientPreparing(v, e, role) ELSE v

\* The loss of a link that is not the one of the stored address is not ours.
HandleDisconnected(w) ==
    LET v == [w EXCEPT !.me.gatt_cid = FALSE]
        state == w.me.state
    IN  IF ~w.me.peer_addr THEN w
        ELSE CASE \/ state \in {"DISCOVER_CONNECTABLE", "CONNECTING_TO_DISCOVERED"}
                  \/ state \in ClientStates \ {"COMPLETED"}
                  \/ state \in ServerStates \ {"SERVER_AWAITING_COMPLETION"} -> ToDiscover(w)
               [] state = "INITIALISED" -> NotifyIfPending(w)
               [] state = "SERVER_AWAITING_COMPLETION" -> ToCompleted(v)
               [] state = "COMPLETED" -> SelectStateAfterCompletion(v)
               [] OTHER -> w

HandleActive(w, e, m, role) ==
    CASE m.type = "CLIENT_INIT_CFM" -> HandleClientInit(w, e, role)
      [] m.type = "CHANGE_ROLE_IND" -> HandleChangeRoleInd(w, m)
      [] m.type = "COMMAND_CFM" -> HandleCommandCfm(w, m)
      [] m.type = "FIGURE_OF_MERIT_IND" -> HandleFigureOfMerit(w, e, m, role)
      [] m.type = "ADV_REPORT_IND" -> HandleAdvReport(w)
      [] m.type = "BLE_SECURITY_CFM" -> HandleBleSecurity(w, e, m)
      [] m.type = "TP_CONNECT_IND" -> HandleTpConnect(w, m)
      [] m.type = "CONNECT_TO_PEER" -> ToConnectingToDiscovered(w)
      [] m.type = "PREPARED" -> HandlePrepared(w, e, role)

\* A start that was asked for in the meantime is made now.
HandleStopCfm(w) ==
    LET r == [w.me EXCEPT !.scan = "off"]
    IN  [w EXCEPT !.me = IF r.scan_enable THEN StartScanningIfInactive(r) ELSE r]

Handle(w, e, m, role) ==
    CASE m.type = "STOP_CFM" -> HandleStopCfm(w)
      [] m.type = "CANCEL_FIND_ROLE" -> Completed(w, Alone("CANCELLED"))
      [] m.type = "CONNECTION_IND" -> HandleDisconnected(w)
      [] m.type = "GATT_CONNECT" -> GattConnect(w, e, m)
      [] m.type = "ENCRYPTION_CHANGE_IND" -> HandleEncryptionChange(w, e, role)
      [] OTHER -> IF w.me.state = "INITIALISED" THEN w ELSE HandleActive(w, e, m, role)

\* Mutant: the scan is not waited for.
ConnectsAtOnce(e, i) == i \in DOMAIN eb[e].queue

\* CONNECT_TO_PEER is sent on the condition that the scan has stopped.
Deliverable(e, i) == eb[e].queue[i].type = "CONNECT_TO_PEER" => eb[e].scan = "off"

Running(e) == eb[e].state # "PANIC"

Deliver(e) ==
    /\ Running(e)
    /\ UNCHANGED used
    /\ \E i \in DOMAIN eb[e].queue, role \in Roles :
          /\ Deliverable(e, i)
          /\ \A j \in 1 .. i - 1 : ~Deliverable(e, j)
          /\ Becomes(e, Handle([World(e) EXCEPT !.me.queue = RemoveAt(@, i)], e,
                               eb[e].queue[i], role))

HandleTimeout(w, e, t) ==
    LET state == w.me.state
    IN  IF state = "INITIALISED" THEN w
        ELSE CASE t = "DISCOVERY"
                    -> NotifyImmediately([w EXCEPT !.me.role_timeout = FALSE], Alone("ACTING_PRIMARY"))
               [] t = "ADVERT_BACKOFF" /\ state = "DISCOVER" -> ToDiscoverConnectable(w)
               [] t = "PEER_CONNECTION" /\ state = "CONNECTING_TO_DISCOVERED" -> ToDiscover(w)
               [] t = "NOT_DISCONNECTED" /\ state = "SERVER_AWAITING_COMPLETION"
                    -> ToCompleted([w EXCEPT !.me.gatt_cid = FALSE])
               [] t = "SERVER_ROLE_SELECTED" /\ state = "SERVER" -> DisconnectLink(w)
               [] t = "NO_FOM_RECEIVED" /\ state = "CLIENT_DECIDING"
                    -> Send(w, Peer(e), "ENABLE_NOTIFICATIONS", "")
               [] OTHER -> w

Expire(e) ==
    /\ Running(e)
    /\ UNCHANGED used
    /\ \E t \in eb[e].timers :
          Becomes(e, HandleTimeout([World(e) EXCEPT !.me.timers = @ \ {t}], e, t))

-----------------------------------------------------------------------------
(* What the topologies do.                                                 *)

HasRoom(e) == Len(eb[e].queue) < MAX_QUEUE

(* The topology searches again once it has handled the outcome of the last *)
(* search, by when what was queued before the outcome has been delivered:  *)
(* a CONNECT_TO_PEER too, which a cancelled search can leave behind        *)
(* (peer_find_role_message_cancel_inactive).                               *)
FindRole(e) ==
    /\ used.finds < MAX_FINDS
    /\ eb[e].state = "INITIALISED"
    /\ ~Queued(Signal("CONNECT_TO_PEER"), eb[e].queue)
    /\ \E timeout \in TIMEOUTS :
          Becomes(e, ToDiscover([World(e) EXCEPT !.me.role_timeout = timeout,
                                           !.me.outcome = NoRole]))
    /\ used' = [used EXCEPT !.finds = @ + 1]

Upset == used.upsets < MAX_UPSETS /\ used' = [used EXCEPT !.upsets = @ + 1]

FindRoleCancel(e) ==
    /\ Running(e) /\ HasRoom(e)
    /\ Upset
    /\ Becomes(e, Post([World(e) EXCEPT !.me.timers = @ \ {"DISCOVERY"}],
                       Signal("CANCEL_FIND_ROLE")))

PrepareResponse(e) ==
    /\ Running(e) /\ HasRoom(e)
    /\ eb[e].preparing
    /\ LET w == [World(e) EXCEPT !.me.preparing = FALSE]
       IN  Becomes(e, IF eb[e].state \in {"SERVER_PREPARING", "CLIENT_PREPARING"}
                   THEN Post(w, Signal("PREPARED")) ELSE w)
    /\ UNCHANGED used

-----------------------------------------------------------------------------
(* The radio, the connection manager and the GATT libraries.               *)

AdvReport(e) ==
    /\ HasRoom(e)
    /\ eb[e].scan = "on" /\ eb[Peer(e)].advert_handle /\ ~link.up
    /\ ~Queued(Signal("ADV_REPORT_IND"), eb[e].queue)
    /\ Becomes(e, Post(World(e), Signal("ADV_REPORT_IND")))
    /\ UNCHANGED used

ScanStops(e) ==
    /\ HasRoom(e)
    /\ eb[e].scan = "stopping"
    /\ Becomes(e, Post([World(e) EXCEPT !.me.scan = "stopped"], Signal("STOP_CFM")))
    /\ UNCHANGED used

LinkUp(e) ==
    /\ link.id < MAX_LINKS /\ ~link.up
    /\ eb[e].connecting /\ eb[Peer(e)].advert_handle
    /\ \A f \in Earbud : HasRoom(f)
    /\ link' = [NoLink(e, link.id + 1) EXCEPT !.up = TRUE]
    /\ eb' = [f \in Earbud |-> [eb[f] EXCEPT !.connecting = FALSE, !.queue = Append(@,
                  Msg("TP_CONNECT_IND", IF f = e THEN "outgoing" ELSE "incoming", 0))]]
    /\ UNCHANGED <<air, used>>

\* The central's GATT connects once its connection manager has reported the link.
GattUp(e) ==
    /\ HasRoom(e)
    /\ link.up /\ e \notin link.gatt
    /\ e = link.central => ~\E i \in DOMAIN eb[e].queue : eb[e].queue[i].type = "TP_CONNECT_IND"
    /\ Becomes(e, Post([World(e) EXCEPT !.link.gatt = @ \cup {e}],
                       Msg("GATT_CONNECT", "", link.id)))
    /\ UNCHANGED used

SecurityCfm(ok) == Msg("BLE_SECURITY_CFM", Flag(ok), 0)

Encrypt ==
    /\ link.up /\ link.securing /\ ~link.closing
    /\ Len(eb[link.central].queue) + 1 < MAX_QUEUE /\ HasRoom(Peer(link.central))
    /\ link' = [link EXCEPT !.securing = FALSE, !.encrypted = TRUE]
    /\ eb' = [f \in Earbud |-> [eb[f] EXCEPT !.queue = @ \o
                  IF f = link.central THEN <<Signal("ENCRYPTION_CHANGE_IND"), SecurityCfm(TRUE)>>
                  ELSE <<Signal("ENCRYPTION_CHANGE_IND")>>]]
    /\ UNCHANGED <<air, used>>

EncryptionFails ==
    /\ link.up /\ link.securing
    /\ HasRoom(link.central)
    /\ Upset
    /\ Becomes(link.central, Post([World(link.central) EXCEPT !.link.securing = FALSE],
                                  SecurityCfm(FALSE)))

Down ==
    /\ \A e \in Earbud : HasRoom(e)
    /\ link' = NoLink(link.central, link.id)
    /\ air' = [e \in Earbud |-> <<>>]
    /\ eb' = [e \in Earbud |-> [eb[e] EXCEPT !.queue = Append(@, Signal("CONNECTION_IND"))]]

LinkCloses == link.up /\ link.closing /\ Down /\ UNCHANGED used

LinkLost == link.up /\ ~link.closing /\ Upset /\ Down

\* The server's library answers a write itself, and the role cannot be written over a
\* link that is not encrypted.  The client's library is there while it is registered.
Receive(e) ==
    /\ Running(e) /\ HasRoom(e)
    /\ air[e] # <<>> /\ e \in link.gatt
    /\ LET m == Head(air[e])
           w == [World(e) EXCEPT !.air[e] = Tail(@)]
           v == Send(w, Peer(e), "CHANGE_ROLE_RSP", Flag(link.encrypted))
       IN  Becomes(e,
             CASE m.type = "CHANGE_ROLE"
                    -> IF link.encrypted
                       THEN Post(v, Msg("CHANGE_ROLE_IND", m.arg, m.link)) ELSE v
               [] m.type = "ENABLE_NOTIFICATIONS"
                    -> Send(w, Peer(e), "FIGURE_OF_MERIT", Flag(eb[e].figure_of_merit))
               [] m.type = "CHANGE_ROLE_RSP" /\ eb[e].client
                    -> Post(w, Msg("COMMAND_CFM", m.arg, m.link))
               [] m.type = "FIGURE_OF_MERIT" /\ eb[e].client
                    -> Post(w, Msg("FIGURE_OF_MERIT_IND", m.arg, 0))
               [] OTHER -> w)
    /\ UNCHANGED used

EarbudStep(e) ==
    Deliver(e) \/ Expire(e) \/ FindRole(e) \/ FindRoleCancel(e) \/ PrepareResponse(e)

RadioStep(e) == AdvReport(e) \/ ScanStops(e) \/ LinkUp(e) \/ GattUp(e) \/ Receive(e)

Next == \/ \E e \in Earbud : EarbudStep(e) \/ RadioStep(e)
        \/ Encrypt \/ EncryptionFails \/ LinkCloses \/ LinkLost

Spec == Init /\ [][Next]_vars

-----------------------------------------------------------------------------
(* Properties.                                                             *)

Signals == {"STOP_CFM", "CANCEL_FIND_ROLE", "CONNECTION_IND", "ENCRYPTION_CHANGE_IND",
            "CLIENT_INIT_CFM", "ADV_REPORT_IND", "CONNECT_TO_PEER", "PREPARED"}

Flags == {"yes", "no"}

Messages ==
    [type : Signals, arg : {""}, link : {0}]
    \cup [type : {"TP_CONNECT_IND"}, arg : {"outgoing", "incoming"}, link : {0}]
    \cup [type : {"BLE_SECURITY_CFM", "FIGURE_OF_MERIT_IND"}, arg : Flags, link : {0}]
    \cup [type : {"GATT_CONNECT"}, arg : {""}, link : Nat]
    \cup [type : {"CHANGE_ROLE_IND"}, arg : Roles, link : Nat]
    \cup [type : {"COMMAND_CFM"}, arg : Flags, link : Nat]

Pdus == [type : {"CHANGE_ROLE"}, arg : Roles, link : Nat]
        \cup [type : {"CHANGE_ROLE_RSP", "FIGURE_OF_MERIT"}, arg : Flags, link : Nat]
        \cup [type : {"ENABLE_NOTIFICATIONS"}, arg : {""}, link : Nat]

Outcomes(R) == [role : R, link : Nat, end : {"none", "client", "server"}]

EarbudData ==
    [state : States, gatt_cid : BOOLEAN, gatt_encrypted : BOOLEAN,
     selected_role : Outcomes({"none", "CANCELLED", "SECONDARY"}),
     confirming_primary : BOOLEAN, role_timeout : BOOLEAN, advert_handle : BOOLEAN,
     scan : {"on", "stopping", "stopped", "off"}, scan_enable : BOOLEAN, peer_addr : BOOLEAN,
     connecting : BOOLEAN, client : BOOLEAN, peer_score : BOOLEAN, remote_role : Roles,
     figure_of_merit : BOOLEAN, preparing : BOOLEAN, timers : SUBSET Timers,
     queue : Seq(Messages),
     outcome : Outcomes(Roles \cup {"none", "CANCELLED", "ACTING_PRIMARY"})]

Links == [central : Earbud, id : 0 .. MAX_LINKS, up : BOOLEAN, closing : BOOLEAN,
          securing : BOOLEAN, encrypted : BOOLEAN, gatt : SUBSET Earbud]

\* Type correctness.  Only an outcome that waits for the link to go is stored, and
\* each message carries the payload that its handler expects.
TypeOK ==
    /\ eb \in [Earbud -> EarbudData]
    /\ link \in Links
    /\ air \in [Earbud -> Seq(Pdus)]
    /\ used \in [finds : 0 .. MAX_FINDS, upsets : 0 .. MAX_UPSETS]

\* peer_find_role_set_state panics when it is asked for the state it is in.  Its
\* callers are handlers of messages of four other tasks, most of which check the
\* state and some of which do not (CLIENT_INIT_CFM, CONNECT_TO_PEER).
NeverPanics == \A e \in Earbud : Running(e)

\* The earbuds are never both told to be secondary, so that neither would serve the
\* handset: "one device is told to assume the primary role", "while the other will be
\* told PEER_FIND_ROLE_SECONDARY" (peer_find_role.h).
OnePrimary == \E e \in Earbud : eb[e].outcome.role # "SECONDARY"

\* An earbud is told that it is secondary when the link that made it so has gone:
\* "Secondary roles delay reporting until all activity is known to have stopped"
\* (peer_find_role_init.h).
SecondaryWithoutLink ==
    \A e \in Earbud : LET own == eb[e].outcome
                      IN  own.role = "SECONDARY" => ~(link.up /\ link.id = own.link)

\* Two earbuds that were given their roles at the two ends of a link have opposite
\* ones, although the client keeps what it has written for one link only, and either
\* end may be late to hear that the link is gone.
OppositeRoles ==
    \A e \in Earbud :
        LET own == eb[e].outcome
            its == eb[Peer(e)].outcome
        IN  own.end = "client" /\ its.end = "server" /\ own.link = its.link
                => own.role = Other(its.role)

\* The connection manager is asked for a link only when the scan has stopped: the
\* message that asks waits for the scan's busy flag, which start, stop and their
\* confirmations set and clear in several orders.
ConnectsWithoutScanning ==
    \A e \in Earbud : eb[e].state = "CONNECTING_TO_DISCOVERED" => eb[e].scan = "off"

\* The timeout of a search, which makes an earbud acting primary, only runs while
\* the earbud has seen nothing of its peer, whichever of the two connects.
AloneWhenTimedOut ==
    \A e \in Earbud : "DISCOVERY" \in eb[e].timers
        => eb[e].state \in {"DISCOVER", "DISCOVER_CONNECTABLE"}
=============================================================================
