--------------------------- MODULE FindRoleProofs ---------------------------
(***************************************************************************)
(* Proofs about the search for roles, for every bound on queues, links,    *)
(* searches and upsets.                                                    *)
(*                                                                         *)
(* Most properties speak of one earbud, and so does the first invariant:   *)
(* Core, on the scanner, the waiting connection and the order of the       *)
(* messages about the link, holds at every point of a handler; StateInv,   *)
(* on what the state machine's state says, holds between handlers.         *)
(*                                                                         *)
(* The proof goes up the calls.  First what the helpers change (Alike,     *)
(* Calmer, Within), then the changes of state (Moved, and Follows for      *)
(* those that start nothing), then each handler, then each action.         *)
(*                                                                         *)
(* The roles relate the two earbuds.  Their invariant, Story, is about a   *)
(* history: for each earbud the role it has written over each link, with   *)
(* which the queues, the traffic and the outcomes agree.  Its proof goes   *)
(* up the same calls: most steps are quiet and keep the history, those of  *)
(* a client that decides add one write to it.                              *)
(***************************************************************************)
EXTENDS PeerFindRole, QueueProofs

(* What an earbud acts on: its own data, the link and what is in the air. *)
Worlds == [me : EarbudData, link : Links, air : [Earbud -> Seq(Pdus)]]

(* The messages without parameters that the invariant speaks of: the       *)
(* scanner has stopped, the connection is to be made, the peer has been    *)
(* seen, the GATT client is ready, the link is lost.                       *)
Stop == Signal("STOP_CFM")

Connect == Signal("CONNECT_TO_PEER")

Report == Signal("ADV_REPORT_IND")

ClientInit == Signal("CLIENT_INIT_CFM")

Loss == Signal("CONNECTION_IND")

(* GATT has connected on link id. *)
Gatt(id) == Msg("GATT_CONNECT", "", id)

(* The scanner: one confirmation of a stop at a time, and only of a scan   *)
(* that has stopped; a scan that is on is wanted; one report at a time.    *)
ScanInv(r) ==
    /\ Once(Stop, r.queue)
    /\ Queued(Stop, r.queue) => r.scan = "stopped"
    /\ r.scan = "on" => r.scan_enable
    /\ Once(Report, r.queue)

(* The connection to the peer waits once, while no scan is wanted and no   *)
(* report is queued.                                                       *)
ConnectInv(r) ==
    /\ Once(Connect, r.queue)
    /\ Queued(Connect, r.queue) => ~r.scan_enable /\ ~Queued(Report, r.queue)

(* Messages about the link: CLIENT_INIT_CFM precedes any loss of the link  *)
(* it belongs to, a loss precedes the GATT connection of the link that is  *)
(* up, and no GATT connection is from a link yet to come.                  *)
OrderInv(r, l) ==
    /\ Once(ClientInit, r.queue)
    /\ Ahead(ClientInit, Loss, r.queue)
    /\ l.up => Ahead(Loss, Gatt(l.id), r.queue)
    /\ \A n \in Nat : Queued(Gatt(n), r.queue) => n <= l.id

(* What holds at every point of a handler. *)
Core(r, l) == ScanInv(r) /\ ConnectInv(r) /\ OrderInv(r, l)

(* What holds between handlers: what the state says of the GATT            *)
(* connection, of the scanner, of the timeout of the search, and of the    *)
(* two messages an earbud sends to itself.                                 *)
StateInv(r) ==
    /\ r.state # "PANIC"
    /\ r.state \in {"INITIALISED", "DISCOVER"} \cup AdvertisingStates => ~r.gatt_cid
    /\ r.state = "CONNECTING_TO_DISCOVERED" => r.scan = "off"
    /\ "DISCOVERY" \in r.timers
         => r.state \in {"DISCOVER", "DISCOVER_CONNECTABLE"} /\ ~r.confirming_primary
    /\ Queued(Connect, r.queue)
         => \/ r.state \in {"DISCOVERED_DEVICE", "INITIALISED"}
            \/ r.confirming_primary /\ r.state \in {"DISCOVER", "DISCOVER_CONNECTABLE"}
    /\ Queued(ClientInit, r.queue)
         => \/ r.state = "CLIENT" /\ r.gatt_cid
            \/ r.state = "COMPLETED"

-----------------------------------------------------------------------------

(* A message without parameters is a message, and differs from those of    *)
(* another type and from a GATT connection.                                *)
LEMMA SignalTypes ==
    ASSUME NEW t \in Signals
    PROVE  /\ Signal(t) \in Messages
           /\ \A s \in Signals : s # t => Signal(s) # Signal(t)
           /\ \A n : Gatt(n) # Signal(t)
  BY DEF Signal, Msg, Messages, Signals, Gatt

(* Replacing the data of the earbud in a world leaves the link and what is *)
(* in the air alone.                                                       *)
LEMMA EarbudUpdate ==
    ASSUME NEW w \in Worlds, NEW r \in EarbudData
    PROVE  LET v == [w EXCEPT !.me = r]
           IN  v \in Worlds /\ v.me = r /\ v.link = w.link /\ v.air = w.air
  BY DEF Worlds

(* MessageSend appends the message to the queue of the earbud and changes  *)
(* nothing else.                                                           *)
LEMMA PostOK ==
    ASSUME NEW w \in Worlds, NEW m \in Messages
    PROVE  LET v == Post(w, m)
           IN  v \in Worlds /\ v.me = [w.me EXCEPT !.queue = Append(@, m)] /\ v.link = w.link
  <1> DEFINE q == Append(w.me.queue, m)
  <1>1. w.me \in EarbudData /\ w.me.queue \in Seq(Messages)
    BY DEF Worlds, EarbudData
  <1>2. q \in Seq(Messages)
    BY <1>1
  <1> HIDE DEF q
  <1>3. [w.me EXCEPT !.queue = q] \in EarbudData
    BY <1>1, <1>2 DEF EarbudData
  <1> QED
    BY <1>1, <1>3, EarbudUpdate DEF Post, q

(* The queue p holds only messages of q, in the order of q. *)
Within(p, q) ==
    /\ \A m : Queued(m, p) => Queued(m, q)
    /\ \A m : Once(m, q) => Once(m, p)
    /\ \A m, n : Ahead(m, n, q) => Ahead(m, n, p)

(* The handlers of an earbud leave the link up or down as it is. *)
Step(w, v) == v \in Worlds /\ v.link.up = w.link.up /\ v.link.id = w.link.id

(* The two agree in all that the invariant is about. *)
Alike(r, s) ==
    /\ s.state = r.state /\ s.gatt_cid = r.gatt_cid /\ s.timers = r.timers
    /\ s.confirming_primary = r.confirming_primary /\ s.selected_role = r.selected_role
    /\ s.scan = r.scan /\ s.scan_enable = r.scan_enable /\ s.queue = r.queue

(* Messages may have been cancelled, and the scan asked to stop. *)
Calmer(r, s) ==
    /\ Within(s.queue, r.queue)
    /\ \/ s.scan = r.scan /\ s.scan_enable = r.scan_enable
       \/ s.scan = (IF r.scan = "on" THEN "stopping" ELSE r.scan) /\ s.scan_enable = FALSE

(* A queue lies within itself. *)
LEMMA WithinSame ==
    ASSUME NEW q
    PROVE  Within(q, q)
  BY DEF Within

(* What MessageCancelAll leaves lies within the queue it was called on. *)
LEMMA WithinCancelled ==
    ASSUME NEW q \in Seq(Messages), NEW T
    PROVE  Within(CancelAll(q, T), q)
  BY CancelAllQueue DEF Within

(* Cancelling messages and asking the scan to stop keep the core of the    *)
(* invariant.                                                              *)
LEMMA CalmerCore ==
    ASSUME NEW r, NEW s, NEW l, Calmer(r, s), Core(r, l)
    PROVE  Core(s, l)
  <1>1. ScanInv(s)
    BY DEF Calmer, Core, ScanInv, Within
  <1>2. ConnectInv(s)
    BY DEF Calmer, Core, ConnectInv, Within
  <1>3. OrderInv(s, l)
    BY DEF Calmer, Core, OrderInv, Within
  <1> QED
    BY <1>1, <1>2, <1>3 DEF Core

(* MessageCancelFirst and MessageCancelAll of a message: it is no longer   *)
(* queued, and the rest keeps its order.                                   *)
LEMMA UnpostOK ==
    ASSUME NEW w \in Worlds, NEW t \in Signals
    PROVE  LET v == Unpost(w, t)
           IN  /\ v \in Worlds /\ v.link = w.link
               /\ v.me = [w.me EXCEPT !.queue = CancelAll(@, {Signal(t)})]
               /\ v.me \in EarbudData
               /\ Within(v.me.queue, w.me.queue)
               /\ ~Queued(Signal(t), v.me.queue)
  <1> DEFINE q == CancelAll(w.me.queue, {Signal(t)})
  <1>1. w.me \in EarbudData /\ w.me.queue \in Seq(Messages)
    BY DEF Worlds, EarbudData
  <1>2. q \in Seq(Messages) /\ Within(q, w.me.queue) /\ ~Queued(Signal(t), q)
    BY <1>1, CancelAllQueue, WithinCancelled
  <1>3. Unpost(w, t) = [w EXCEPT !.me = [w.me EXCEPT !.queue = q]]
    BY DEF Unpost, Worlds
  <1> HIDE DEF q
  <1> DEFINE r == [w.me EXCEPT !.queue = q]
  <1>4. r \in EarbudData /\ r.queue = q
    BY <1>1, <1>2 DEF EarbudData
  <1>5. r = [w.me EXCEPT !.queue = CancelAll(@, {Signal(t)})]
    BY DEF q
  <1> HIDE DEF r
  <1>6. Unpost(w, t) \in Worlds /\ Unpost(w, t).me = r /\ Unpost(w, t).link = w.link
    BY <1>3, <1>4, EarbudUpdate DEF r
  <1> QED
    BY <1>2, <1>4, <1>5, <1>6

(* Letting go of the link asks for it to close, or gives up connecting;    *)
(* nothing the invariant speaks of changes.                                *)
LEMMA ReleaseOK ==
    ASSUME NEW w \in Worlds
    PROVE  Step(w, Release(w)) /\ Alike(w.me, Release(w).me)
           /\ Release(w).me.role_timeout = w.me.role_timeout
  <1>1. CASE ~w.me.peer_addr
    BY <1>1 DEF Release, Step, Alike
  <1>2. CASE w.me.peer_addr /\ w.link.up
    <2>1. [w.link EXCEPT !.closing = TRUE] \in Links
      BY DEF Worlds, Links
    <2> QED
      BY <1>2, <2>1 DEF Release, Step, Alike, Worlds, Links
  <1>3. CASE w.me.peer_addr /\ ~w.link.up
    <2> DEFINE r == [w.me EXCEPT !.connecting = FALSE]
    <2>1. r \in EarbudData /\ Alike(w.me, r) /\ r.role_timeout = w.me.role_timeout
      BY DEF Worlds, EarbudData, Alike
    <2>2. Release(w) = [w EXCEPT !.me = r]
      BY <1>3 DEF Release, Worlds
    <2> HIDE DEF r
    <2> QED
      BY <2>1, <2>2, EarbudUpdate DEF Step
  <1> QED
    BY <1>1, <1>2, <1>3

(* peerFindRole_DisconnectLink changes nothing the invariant speaks of. *)
LEMMA DisconnectLinkOK ==
    ASSUME NEW w \in Worlds
    PROVE  Step(w, DisconnectLink(w)) /\ Alike(w.me, DisconnectLink(w).me)
  <1> DEFINE v == [w EXCEPT !.me.gatt_encrypted = FALSE]
  <1>1. v \in Worlds /\ v.link = w.link /\ Alike(w.me, v.me)
    BY DEF Worlds, EarbudData, Alike
  <1> HIDE DEF v
  <1>2. Step(v, Release(v)) /\ Alike(v.me, Release(v).me)
    BY <1>1, ReleaseOK
  <1>3. DisconnectLink(w) = IF w.me.gatt_cid THEN Release(v) ELSE v
    BY DEF DisconnectLink, v
  <1> QED
    BY <1>1, <1>2, <1>3 DEF Step, Alike

(* An earbud has exactly one peer. *)
LEMMA PeerOK ==
    ASSUME NEW e \in Earbud
    PROVE  Peer(e) \in Earbud /\ Peer(e) # e
  <1>1. \E f \in Earbud : f # e
    BY FindRoleAssumption
  <1> QED
    BY <1>1 DEF Peer

(* Links are numbered by natural numbers. *)
LEMMA LinkIsNat ==
    ASSUME NEW w \in Worlds
    PROVE  w.link.id \in Nat
  BY FindRoleAssumption DEF Worlds, Links

(* Sending over the link leaves the earbud that sends alone. *)
LEMMA SendOK ==
    ASSUME NEW w \in Worlds, NEW e \in Earbud, NEW t, NEW a,
           Msg(t, a, w.link.id) \in Pdus
    PROVE  Step(w, Send(w, e, t, a)) /\ Send(w, e, t, a).me = w.me
  <1> DEFINE p == Append(w.air[e], Msg(t, a, w.link.id))
             v == [w EXCEPT !.air[e] = p]
  <1>1. w.link.id \in Nat /\ w.air[e] \in Seq(Pdus)
    BY FindRoleAssumption DEF Worlds, Links
  <1>2. p \in Seq(Pdus)
    BY <1>1
  <1>3. Send(w, e, t, a) = IF w.link.up THEN v ELSE w
    BY DEF Send
  <1> HIDE DEF p
  <1> QED
    BY <1>2, <1>3 DEF Worlds, Step

(* What the clients are told, and what is stored until the link is gone. *)
Announced == Outcomes(Roles \cup {"none", "CANCELLED", "ACTING_PRIMARY"})

Stored == Outcomes({"none", "CANCELLED", "SECONDARY"})

(* No role may be announced or stored, and what is stored may be announced. *)
LEMMA StoredOutcomes ==
    NoRole \in Stored /\ NoRole \in Announced /\ Stored \subseteq Announced
  BY DEF Stored, Announced, Outcomes, NoRole, Alone, Outcome, Roles

(* Telling the clients the role cancels the timeout of the search and      *)
(* records the outcome.                                                    *)
LEMMA NotifyImmediatelyOK ==
    ASSUME NEW w \in Worlds, NEW o \in Announced
    PROVE  LET v == NotifyImmediately(w, o)
           IN  /\ v \in Worlds /\ v.link = w.link /\ v.me.outcome = o
               /\ v.me.timers = w.me.timers \ {"DISCOVERY"}
               /\ Alike(w.me, [v.me EXCEPT !.timers = w.me.timers])
  <1> DEFINE r == [w.me EXCEPT !.timers = w.me.timers \ {"DISCOVERY"}, !.outcome = o]
  <1>1. r \in EarbudData /\ r.timers = w.me.timers \ {"DISCOVERY"} /\ r.outcome = o
        /\ Alike(w.me, [r EXCEPT !.timers = w.me.timers])
    BY DEF Worlds, EarbudData, Alike, Announced
  <1>2. NotifyImmediately(w, o) = [w EXCEPT !.me = r]
    BY DEF NotifyImmediately, Worlds, EarbudData
  <1> HIDE DEF r
  <1> QED
    BY <1>1, <1>2, EarbudUpdate

(* The same for a role whose notification was held back until the link was *)
(* released.                                                               *)
LEMMA NotifyIfPendingOK ==
    ASSUME NEW w \in Worlds
    PROVE  LET v == NotifyIfPending(w)
           IN  /\ v \in Worlds /\ v.link = w.link
               /\ v.me.timers = IF w.me.selected_role = NoRole THEN w.me.timers
                                ELSE w.me.timers \ {"DISCOVERY"}
               /\ Alike(w.me, [v.me EXCEPT !.timers = w.me.timers,
                                           !.selected_role = w.me.selected_role])
               /\ v.me.selected_role = NoRole
  <1> DEFINE r == [w.me EXCEPT !.selected_role = NoRole]
             u == [w EXCEPT !.me = r]
  <1>1. NoRole \in Stored
    BY StoredOutcomes
  <1>2. r \in EarbudData /\ r.timers = w.me.timers /\ r.selected_role = NoRole
        /\ Alike(w.me, [r EXCEPT !.selected_role = w.me.selected_role])
    BY <1>1 DEF Worlds, EarbudData, Alike, Stored
  <1>3. u \in Worlds /\ u.me = r /\ u.link = w.link
    BY <1>2, EarbudUpdate
  <1>4. w.me.selected_role \in Announced
    BY StoredOutcomes DEF Worlds, EarbudData, Stored
  <1>5. NotifyIfPending(w) = IF w.me.selected_role = NoRole THEN u
                             ELSE NotifyImmediately(u, w.me.selected_role)
    BY DEF NotifyIfPending, Worlds
  <1> HIDE DEF u, r
  <1> DEFINE n == NotifyImmediately(u, w.me.selected_role)
  <1>6. /\ n \in Worlds /\ n.link = u.link /\ n.me.timers = u.me.timers \ {"DISCOVERY"}
        /\ Alike(u.me, [n.me EXCEPT !.timers = u.me.timers])
    BY <1>3, <1>4, NotifyImmediatelyOK
  <1> HIDE DEF n
  <1>7. CASE w.me.selected_role = NoRole
    BY <1>2, <1>3, <1>5, <1>7 DEF Alike, EarbudData
  <1>8. CASE w.me.selected_role # NoRole
    <2>1. NotifyIfPending(w) = n
      BY <1>5, <1>8 DEF n
    <2>2. n.me \in EarbudData
      BY <1>6 DEF Worlds
    <2> QED
      BY <1>2, <1>3, <1>6, <1>8, <2>1, <2>2 DEF Alike, EarbudData
  <1> QED
    BY <1>7, <1>8

(* peer_find_role_stop_scan_if_active asks a running scan to stop and      *)
(* forgets that one is wanted.                                             *)
LEMMA StopScanOK ==
    ASSUME NEW r \in EarbudData
    PROVE  LET s == StopScanIfActive(r)
           IN  /\ s \in EarbudData /\ Calmer(r, s) /\ ~s.scan_enable
               /\ Alike(r, [s EXCEPT !.scan = r.scan, !.scan_enable = r.scan_enable])
               /\ s.role_timeout = r.role_timeout
  <1>1. Within(r.queue, r.queue)
    BY WithinSame
  <1> QED
    BY <1>1 DEF StopScanIfActive, EarbudData, Alike, Calmer

(* peer_find_role_start_scanning_if_inactive keeps the core of the         *)
(* invariant where no connection to the peer waits for the scan, or where  *)
(* the scan is not started because the primary is being confirmed.         *)
LEMMA StartScanOK ==
    ASSUME NEW r \in EarbudData, NEW l, Core(r, l),
           r.confirming_primary \/ ~Queued(Connect, r.queue)
    PROVE  LET s == StartScanningIfInactive(r)
           IN  /\ s \in EarbudData /\ Core(s, l) /\ Within(s.queue, r.queue)
               /\ Alike(r, [s EXCEPT !.scan = r.scan, !.scan_enable = r.scan_enable,
                                     !.queue = r.queue])
  <1> DEFINE s == StartScanningIfInactive(r)
             q == CancelAll(r.queue, {Stop})
  <1>1. CASE r.confirming_primary \/ r.scan = "on"
    BY <1>1, WithinSame DEF StartScanningIfInactive, Alike, EarbudData
  <1>2. CASE ~(r.confirming_primary \/ r.scan = "on")
    <2>1. r.queue \in Seq(Messages)
      BY DEF EarbudData
    <2>2. q \in Seq(Messages) /\ Within(q, r.queue) /\ ~Queued(Stop, q)
      BY <2>1, CancelAllQueue, WithinCancelled
    <2>3. s = [r EXCEPT !.scan = IF @ = "stopping" THEN @ ELSE "on", !.queue = q,
                        !.scan_enable = TRUE, !.peer_addr = FALSE]
      BY <1>2 DEF StartScanningIfInactive, Stop
    <2> HIDE DEF q, s
    <2>4. /\ s \in EarbudData /\ s.queue = q /\ s.scan_enable
          /\ Alike(r, [s EXCEPT !.scan = r.scan, !.scan_enable = r.scan_enable,
                                !.queue = r.queue])
      BY <2>2, <2>3 DEF EarbudData, Alike
    <2>5. ScanInv(s)
      BY <2>2, <2>4 DEF ScanInv, Core, Within
    <2>6. ConnectInv(s)
      BY <1>2, <2>2, <2>4 DEF ConnectInv, Core, Within
    <2>7. OrderInv(s, l)
      BY <2>2, <2>4 DEF OrderInv, Core, Within
    <2> QED
      BY <2>2, <2>4, <2>5, <2>6, <2>7 DEF s, Core
  <1> QED
    BY <1>1, <1>2

(* What leaving a state does: it only stops timers, advertising and scans, *)
(* and drops the reference to the GATT connection.                         *)
LEMMA ExitEarbudOK ==
    ASSUME NEW r \in EarbudData, NEW new
    PROVE  LET s == ExitEarbud(r, new)
           IN  /\ s \in EarbudData /\ Calmer(r, s) /\ s.queue = r.queue
               /\ s.role_timeout = r.role_timeout
               /\ s.state = r.state /\ s.confirming_primary = r.confirming_primary
               /\ s.selected_role = r.selected_role
               /\ "DISCOVERY" \in s.timers <=> "DISCOVERY" \in r.timers
               /\ s.gatt_cid = (/\ r.gatt_cid
                                /\ ~(r.state \in ClientStates /\ new \notin ClientStates))
               /\ \/ r.state = "DISCOVER" /\ new # "DISCOVER_CONNECTABLE"
                  \/ r.state = "DISCOVER_CONNECTABLE"
                  => ~s.scan_enable
  <1> DEFINE old == r.state
             a == IF old \in DOMAIN ExitTimers
                  THEN [r EXCEPT !.timers = @ \ {ExitTimers[old]}] ELSE r
             stops == \/ old = "DISCOVER" /\ new # "DISCOVER_CONNECTABLE"
                      \/ old = "DISCOVER_CONNECTABLE"
             b == IF stops THEN StopScanIfActive(a) ELSE a
             hides == old \in AdvertisingStates /\ new \notin AdvertisingStates
             c == IF hides THEN [b EXCEPT !.advert_handle = FALSE] ELSE b
             leaves == r.gatt_cid /\ old \in ClientStates /\ new \notin ClientStates
             s == IF leaves
                  THEN [c EXCEPT !.client = FALSE, !.gatt_cid = FALSE, !.gatt_encrypted = FALSE]
                  ELSE c
  <1>1. ExitEarbud(r, new) = s
    BY DEF ExitEarbud
  <1>2. /\ a \in EarbudData /\ Alike(r, [a EXCEPT !.timers = r.timers])
        /\ a.role_timeout = r.role_timeout
        /\ "DISCOVERY" \in a.timers <=> "DISCOVERY" \in r.timers
    BY DEF EarbudData, Alike, ExitTimers
  <1> HIDE DEF a, stops, hides, leaves
  <1>3. /\ b \in EarbudData /\ Calmer(a, b) /\ b.role_timeout = a.role_timeout
        /\ Alike(a, [b EXCEPT !.scan = a.scan, !.scan_enable = a.scan_enable])
        /\ stops => ~b.scan_enable
    <2>1. CASE stops
      BY <1>2, <2>1, StopScanOK
    <2>2. CASE ~stops
      BY <1>2, <2>2, WithinSame DEF Calmer, Alike, EarbudData
    <2> QED
      BY <2>1, <2>2
  <1> HIDE DEF b
  <1>4. c \in EarbudData /\ Alike(b, c) /\ c.role_timeout = b.role_timeout
    <2>1. CASE hides
      BY <1>3, <2>1 DEF EarbudData, Alike
    <2>2. CASE ~hides
      BY <1>3, <2>2 DEF Alike
    <2> QED
      BY <2>1, <2>2
  <1> HIDE DEF c
  <1>5. /\ s \in EarbudData /\ Alike(c, [s EXCEPT !.gatt_cid = c.gatt_cid])
        /\ s.gatt_cid = (c.gatt_cid /\ ~leaves) /\ s.role_timeout = c.role_timeout
    <2>1. CASE leaves
      BY <1>4, <2>1, ZenonT(40) DEF EarbudData, Alike
    <2>2. CASE ~leaves
      <3>1. [c EXCEPT !.gatt_cid = c.gatt_cid] = c /\ c.gatt_cid \in BOOLEAN
        BY <1>4 DEF EarbudData
      <3> QED
        BY <1>4, <2>2, <3>1 DEF Alike
    <2> QED
      BY <2>1, <2>2
  <1> HIDE DEF s
  <1>6. /\ s.queue = r.queue /\ s.role_timeout = r.role_timeout /\ s.timers = a.timers
        /\ s.state = r.state /\ s.confirming_primary = r.confirming_primary
        /\ s.selected_role = r.selected_role /\ c.gatt_cid = r.gatt_cid
        /\ s.scan = b.scan /\ s.scan_enable = b.scan_enable
        /\ a.scan = r.scan /\ a.scan_enable = r.scan_enable
    BY <1>2, <1>3, <1>4, <1>5 DEF Alike, EarbudData
  <1>7. Calmer(r, s)
    BY <1>3, <1>6, WithinSame DEF Calmer
  <1> QED
    BY <1>1, <1>2, <1>3, <1>5, <1>6, <1>7 DEF stops, leaves

(* A step that is no more than calmer keeps the core of the invariant. *)
LEMMA CalmStep ==
    ASSUME NEW w, NEW v, Step(w, v), Calmer(w.me, v.me), Core(w.me, w.link)
    PROVE  Core(v.me, v.link)
  <1>1. Core(v.me, w.link)
    BY CalmerCore
  <1> QED
    BY <1>1 DEF Core, OrderInv, Step

(* What every change of state does. *)
Moved(w, v, new) ==
    /\ Step(w, v) /\ Calmer(w.me, v.me) /\ v.me.state = new
    /\ v.me.role_timeout = w.me.role_timeout
    /\ v.me.confirming_primary = w.me.confirming_primary
    /\ v.me.selected_role = w.me.selected_role
    /\ "DISCOVERY" \in v.me.timers <=> "DISCOVERY" \in w.me.timers
    /\ v.me.gatt_cid
         = (w.me.gatt_cid /\ ~(w.me.state \in ClientStates /\ new \notin ClientStates))
    /\ \/ w.me.state = "DISCOVER" /\ new # "DISCOVER_CONNECTABLE"
       \/ w.me.state = "DISCOVER_CONNECTABLE"
       => ~v.me.scan_enable

(* peer_find_role_set_state, the exit of the old state and the entry of    *)
(* the new one together, does what Moved says.                             *)
LEMMA MoveOK ==
    ASSUME NEW w \in Worlds, NEW new \in States, w.me.state \notin {new, "PANIC"}
    PROVE  Moved(w, Move(w, new), new)
  <1> DEFINE old == w.me.state
             u == CASE old = "DISCOVERED_DEVICE" /\ w.me.scan # "off"
                         -> Unpost(w, "CONNECT_TO_PEER")
                    [] old \in {"SERVER_PREPARING", "CLIENT_PREPARING"} -> Unpost(w, "PREPARED")
                    [] /\ old = "CONNECTING_TO_DISCOVERED"
                       /\ new \notin {"SERVER_AWAITING_ENCRYPTION", "CLIENT"} -> Release(w)
                    [] OTHER -> w
             x == ExitEarbud(u.me, new)
             r == [x EXCEPT !.state = new]
  <1>1. Move(w, new) = [u EXCEPT !.me = r]
    BY DEF Move
  <1>2. u \in {Unpost(w, "CONNECT_TO_PEER"), Unpost(w, "PREPARED"), Release(w), w}
    OBVIOUS
  <1> HIDE DEF u
  <1> DEFINE Left == /\ Step(w, u) /\ Within(u.me.queue, w.me.queue)
                     /\ Alike(w.me, [u.me EXCEPT !.queue = w.me.queue])
                     /\ u.me.role_timeout = w.me.role_timeout
  <1>3. Left
    <2>0. w.me \in EarbudData
      BY DEF Worlds
    <2>1. ASSUME NEW t \in Signals, u = Unpost(w, t)
          PROVE  Left
      <3> DEFINE q == CancelAll(w.me.queue, {Signal(t)})
      <3>1. /\ u \in Worlds /\ u.link = w.link /\ Within(u.me.queue, w.me.queue)
            /\ u.me = [w.me EXCEPT !.queue = q]
        BY <2>1, UnpostOK
      <3> HIDE DEF q
      <3> QED
        BY <2>0, <3>1 DEF Step, Alike, EarbudData
    <2>2. CASE u = Release(w)
      <3>1. Step(w, u) /\ Alike(w.me, u.me) /\ u.me.role_timeout = w.me.role_timeout
        BY <2>2, ReleaseOK
      <3>2. u.me \in EarbudData
        BY <3>1 DEF Step, Worlds
      <3> QED
        BY <3>1, <3>2, WithinSame DEF Alike, EarbudData
    <2>3. CASE u = w
      BY <2>0, <2>3, WithinSame DEF Step, Alike, EarbudData
    <2> QED
      BY <1>2, <2>1, <2>2, <2>3 DEF Signals
  <1>4. u.me \in EarbudData /\ u \in Worlds
    BY <1>3 DEF Step, Worlds
  <1>5. /\ x \in EarbudData /\ Calmer(u.me, x) /\ x.queue = u.me.queue
        /\ x.role_timeout = u.me.role_timeout
        /\ x.state = u.me.state /\ x.confirming_primary = u.me.confirming_primary
        /\ x.selected_role = u.me.selected_role
        /\ "DISCOVERY" \in x.timers <=> "DISCOVERY" \in u.me.timers
        /\ x.gatt_cid
             = (u.me.gatt_cid /\ ~(u.me.state \in ClientStates /\ new \notin ClientStates))
        /\ \/ u.me.state = "DISCOVER" /\ new # "DISCOVER_CONNECTABLE"
           \/ u.me.state = "DISCOVER_CONNECTABLE"
           => ~x.scan_enable
    BY <1>4, ExitEarbudOK
  <1> HIDE DEF x
  <1>6. r \in EarbudData /\ r.state = new /\ Alike(x, [r EXCEPT !.state = x.state])
        /\ r.role_timeout = x.role_timeout
    BY <1>5 DEF EarbudData, Alike
  <1> HIDE DEF r
  <1>7. /\ u.me.state = w.me.state /\ u.me.gatt_cid = w.me.gatt_cid
        /\ u.me.timers = w.me.timers /\ u.me.confirming_primary = w.me.confirming_primary
        /\ u.me.selected_role = w.me.selected_role
        /\ u.me.scan = w.me.scan /\ u.me.scan_enable = w.me.scan_enable
    BY <1>3, <1>4 DEF Alike, EarbudData
  <1>8. /\ r.gatt_cid = x.gatt_cid /\ r.timers = x.timers
        /\ r.confirming_primary = x.confirming_primary /\ r.selected_role = x.selected_role
        /\ r.scan = x.scan /\ r.scan_enable = x.scan_enable /\ r.queue = x.queue
    BY <1>6 DEF Alike, EarbudData
  <1>9. Calmer(w.me, r)
    BY <1>3, <1>5, <1>7, <1>8 DEF Calmer
  <1>10. Move(w, new).me = r /\ Move(w, new) \in Worlds /\ Move(w, new).link = u.link
    BY <1>1, <1>4, <1>6, EarbudUpdate
  <1>11. Step(w, Move(w, new))
    BY <1>3, <1>10 DEF Step
  <1> QED
    BY <1>3, <1>5, <1>6, <1>7, <1>8, <1>9, <1>10, <1>11 DEF Moved

(* A step to one of the states of S that starts neither a scan nor the     *)
(* timeout of the search, and posts nothing.                               *)
Follows(w, v, S) ==
    /\ Step(w, v) /\ Calmer(w.me, v.me) /\ v.me.state \in S
    /\ "DISCOVERY" \in v.me.timers => "DISCOVERY" \in w.me.timers

(* Two such steps one after the other are such a step. *)
LEMMA FollowsTrans ==
    ASSUME NEW w, NEW v, NEW x, NEW S, NEW T, Follows(w, v, S), Follows(v, x, T)
    PROVE  Follows(w, x, T)
  <1>1. Within(x.me.queue, w.me.queue)
    BY DEF Follows, Calmer, Within
  <1>2. Calmer(w.me, x.me)
    BY <1>1 DEF Follows, Calmer
  <1> QED
    BY <1>2 DEF Follows, Step

(* Every change of state is such a step. *)
LEMMA FollowsMove ==
    ASSUME NEW w \in Worlds, NEW new \in States, w.me.state \notin {new, "PANIC"}
    PROVE  Follows(w, Move(w, new), {new}) /\ Move(w, new) \in Worlds
  BY MoveOK DEF Moved, Follows, Step

(* So is one that changes nothing the invariant speaks of, *)
LEMMA FollowsAlike ==
    ASSUME NEW w \in Worlds, NEW v, Step(w, v), Alike(w.me, v.me)
    PROVE  Follows(w, v, {w.me.state}) /\ v \in Worlds /\ v.me.state = w.me.state
  BY WithinSame DEF Alike, Follows, Calmer, Step

(* an update of the data of the earbud that starts no search, *)
LEMMA FollowsUpdate ==
    ASSUME NEW w \in Worlds, NEW r \in EarbudData,
           Alike(w.me, [r EXCEPT !.timers = w.me.timers]),
           "DISCOVERY" \in r.timers => "DISCOVERY" \in w.me.timers
    PROVE  LET v == [w EXCEPT !.me = r]
           IN  Follows(w, v, {w.me.state}) /\ v \in Worlds /\ v.me = r /\ r.state = w.me.state
  <1> DEFINE v == [w EXCEPT !.me = r]
  <1>1. v \in Worlds /\ v.me = r /\ v.link = w.link
    BY EarbudUpdate
  <1>2. /\ r.state = w.me.state /\ r.scan = w.me.scan /\ r.scan_enable = w.me.scan_enable
        /\ r.queue = w.me.queue
    BY DEF Alike, EarbudData
  <1> HIDE DEF v
  <1>3. Follows(w, v, {w.me.state})
    BY <1>1, <1>2, WithinSame DEF Follows, Step, Calmer
  <1> QED
    BY <1>1, <1>2, <1>3 DEF v

(* A timer other than the one of the search is started or stopped. *)
LEMMA FollowsTimers ==
    ASSUME NEW w \in Worlds, NEW T \in SUBSET Timers,
           "DISCOVERY" \in T => "DISCOVERY" \in w.me.timers
    PROVE  LET v == [w EXCEPT !.me.timers = T]
           IN  /\ Follows(w, v, {w.me.state}) /\ v \in Worlds /\ v.me.timers = T
               /\ Alike(w.me, [v.me EXCEPT !.timers = w.me.timers])
               /\ v.me.state = w.me.state
  <1> DEFINE r == [w.me EXCEPT !.timers = T]
  <1>1. r \in EarbudData /\ r.timers = T /\ Alike(w.me, [r EXCEPT !.timers = w.me.timers])
    BY DEF Worlds, EarbudData, Alike
  <1>2. [w EXCEPT !.me.timers = T] = [w EXCEPT !.me = r]
    BY DEF Worlds
  <1> DEFINE v == [w EXCEPT !.me = r]
  <1> HIDE DEF r
  <1>3. Follows(w, v, {w.me.state}) /\ v \in Worlds /\ v.me = r /\ r.state = w.me.state
    BY <1>1, FollowsUpdate
  <1> HIDE DEF v
  <1>4. [w EXCEPT !.me.timers = T] = v
    BY <1>2 DEF v
  <1> QED
    BY <1>1, <1>3, <1>4

(* and the sending of a message to the peer. *)
LEMMA FollowsSend ==
    ASSUME NEW w \in Worlds, NEW e \in Earbud, NEW t, NEW a,
           Msg(t, a, w.link.id) \in Pdus
    PROVE  LET v == Send(w, e, t, a)
           IN  Follows(w, v, {w.me.state}) /\ v \in Worlds /\ v.me = w.me
  BY SendOK, FollowsAlike DEF Alike

(* What the handlers send are messages of the protocol. *)
LEMMA PduTypes ==
    ASSUME NEW n \in Nat
    PROVE  /\ \A b \in Flags : /\ Msg("FIGURE_OF_MERIT", b, n) \in Pdus
                               /\ Msg("CHANGE_ROLE_RSP", b, n) \in Pdus
           /\ \A b \in BOOLEAN : Flag(b) \in Flags
           /\ \A role \in Roles : Msg("CHANGE_ROLE", role, n) \in Pdus
           /\ Msg("ENABLE_NOTIFICATIONS", "", n) \in Pdus
  BY DEF Pdus, Msg, Flag, Flags

(* The server asks for encryption of the link it has made. *)
LEMMA ToServerAwaitingEncryptionOK ==
    ASSUME NEW w \in Worlds, w.me.state = "CONNECTING_TO_DISCOVERED"
    PROVE  Follows(w, ToServerAwaitingEncryption(w), {"SERVER_AWAITING_ENCRYPTION"})
  <1> DEFINE v == Move(w, "SERVER_AWAITING_ENCRYPTION")
             x == [v EXCEPT !.link.securing = v.link.up]
  <1>1. Follows(w, v, {"SERVER_AWAITING_ENCRYPTION"}) /\ v \in Worlds
    BY FollowsMove DEF States, ServerStates
  <1>2. ToServerAwaitingEncryption(w) = x
    BY DEF ToServerAwaitingEncryption
  <1> HIDE DEF v
  <1>3. Step(v, x) /\ x.me = v.me
    BY <1>1 DEF Step, Worlds, Links
  <1>4. Follows(v, x, {v.me.state})
    BY <1>1, <1>3, FollowsAlike DEF Alike
  <1>5. v.me.state = "SERVER_AWAITING_ENCRYPTION"
    BY <1>1 DEF Follows
  <1> QED
    BY <1>1, <1>2, <1>4, <1>5, FollowsTrans

(* The server publishes its figure of merit. *)
LEMMA SetServerScoreOK ==
    ASSUME NEW w \in Worlds, NEW e \in Earbud, NEW valid \in BOOLEAN
    PROVE  LET v == SetServerScore(w, e, valid)
           IN  Follows(w, v, {w.me.state}) /\ Alike(w.me, v.me)
  <1> DEFINE r == [w.me EXCEPT !.figure_of_merit = valid]
             u == [w EXCEPT !.me = r]
             a == Flag(valid)
             x == Send(u, Peer(e), "FIGURE_OF_MERIT", a)
  <1>1. SetServerScore(w, e, valid) = IF w.me.gatt_cid THEN x ELSE w
    BY DEF SetServerScore, Worlds
  <1>2. r \in EarbudData /\ Alike(w.me, r)
    BY DEF Worlds, EarbudData, Alike
  <1>3. u \in Worlds /\ u.me = r /\ u.link = w.link
    BY <1>2, EarbudUpdate
  <1> HIDE DEF r, u
  <1>4. Follows(w, u, {w.me.state}) /\ u.me.state = w.me.state
    BY <1>2, <1>3, FollowsAlike DEF Step
  <1>5. Follows(u, x, {u.me.state}) /\ x.me = u.me
    <2>1. Msg("FIGURE_OF_MERIT", a, u.link.id) \in Pdus
      BY <1>3, LinkIsNat, PduTypes
    <2> HIDE DEF a
    <2>2. Peer(e) \in Earbud
      BY PeerOK
    <2> QED
      BY <1>3, <2>1, <2>2, FollowsSend
  <1> HIDE DEF x
  <1>6. Follows(w, x, {w.me.state}) /\ Alike(w.me, x.me)
    BY <1>2, <1>3, <1>4, <1>5, FollowsTrans
  <1>7. Follows(w, w, {w.me.state}) /\ Alike(w.me, w.me)
    BY FollowsAlike DEF Step, Alike
  <1> QED
    BY <1>1, <1>6, <1>7

(* A change of state with one of the short timers started or stopped. *)
LEMMA MoveTimers ==
    ASSUME NEW w \in Worlds, NEW new \in States, w.me.state \notin {new, "PANIC"},
           NEW t \in Timers, t # "DISCOVERY"
    PROVE  /\ LET x == [Move(w, new) EXCEPT !.me.timers = @ \cup {t}]
              IN  Follows(w, x, {new}) /\ x \in Worlds /\ x.me.state = new
           /\ LET x == [Move(w, new) EXCEPT !.me.timers = @ \ {t}]
              IN  Follows(w, x, {new}) /\ x \in Worlds /\ x.me.state = new
  <1> DEFINE v == Move(w, new)
             T == v.me.timers \cup {t}
             U == v.me.timers \ {t}
             x == [v EXCEPT !.me.timers = T]
             y == [v EXCEPT !.me.timers = U]
  <1>1. Follows(w, v, {new}) /\ v \in Worlds
    BY FollowsMove
  <1> HIDE DEF v
  <1>2. v.me.timers \in SUBSET Timers
    BY <1>1 DEF Worlds, EarbudData
  <1>3. /\ T \in SUBSET Timers /\ ("DISCOVERY" \in T => "DISCOVERY" \in v.me.timers)
        /\ U \in SUBSET Timers /\ ("DISCOVERY" \in U => "DISCOVERY" \in v.me.timers)
    BY <1>2
  <1> HIDE DEF T, U
  <1>4. Follows(v, x, {v.me.state}) /\ x \in Worlds /\ x.me.state = v.me.state
    BY <1>1, <1>3, FollowsTimers
  <1>5. Follows(v, y, {v.me.state}) /\ y \in Worlds /\ y.me.state = v.me.state
    BY <1>1, <1>3, FollowsTimers
  <1> HIDE DEF x, y
  <1>6. v.me.state = new
    BY <1>1 DEF Follows
  <1>7. Follows(w, x, {new}) /\ Follows(w, y, {new})
    BY <1>1, <1>4, <1>5, <1>6, FollowsTrans
  <1> QED
    BY <1>4, <1>5, <1>6, <1>7 DEF v, T, U, x, y

(* The prepared server waits for its role. *)
LEMMA ToServerOK ==
    ASSUME NEW w \in Worlds, NEW e \in Earbud, w.me.state = "SERVER_PREPARING"
    PROVE  Follows(w, ToServer(w, e), {"SERVER"})
  <1> DEFINE v == [Move(w, "SERVER") EXCEPT !.me.timers = @ \cup {"SERVER_ROLE_SELECTED"}]
  <1>1. Follows(w, v, {"SERVER"}) /\ v \in Worlds /\ v.me.state = "SERVER"
    BY MoveTimers DEF States, ServerStates, Timers
  <1>2. ToServer(w, e) = SetServerScore(v, e, TRUE)
    BY DEF ToServer
  <1> HIDE DEF v
  <1>3. Follows(v, SetServerScore(v, e, TRUE), {v.me.state})
    BY <1>1, SetServerScoreOK
  <1> QED
    BY <1>1, <1>2, <1>3, FollowsTrans

(* A registered client is asked to prepare. *)
LEMMA PreparingOK ==
    ASSUME NEW w \in Worlds
    PROVE  LET v == [w EXCEPT !.me.preparing = TRUE]
           IN  Follows(w, v, {w.me.state})
  <1> DEFINE r == [w.me EXCEPT !.preparing = TRUE]
  <1>1. r \in EarbudData /\ Alike(w.me, r)
    BY DEF Worlds, EarbudData, Alike
  <1>2. [w EXCEPT !.me.preparing = TRUE] = [w EXCEPT !.me = r]
    BY DEF Worlds
  <1> HIDE DEF r
  <1> DEFINE v == [w EXCEPT !.me = r]
  <1>3. v \in Worlds /\ v.me = r /\ v.link = w.link
    BY <1>1, EarbudUpdate
  <1> HIDE DEF v
  <1>4. Follows(w, v, {w.me.state})
    BY <1>1, <1>3, FollowsAlike DEF Step
  <1> QED
    BY <1>2, <1>4 DEF v

(* The server prepares, at once when no client is registered. *)
LEMMA ToServerPreparingOK ==
    ASSUME NEW w \in Worlds, NEW e \in Earbud, w.me.state = "SERVER_AWAITING_ENCRYPTION"
    PROVE  Follows(w, ToServerPreparing(w, e), {"SERVER_PREPARING", "SERVER"})
  <1> DEFINE v == Move(w, "SERVER_PREPARING")
             x == [v EXCEPT !.me.preparing = TRUE]
  <1>1. Follows(w, v, {"SERVER_PREPARING"}) /\ v \in Worlds
    BY FollowsMove DEF States, ServerStates
  <1>2. ToServerPreparing(w, e) = IF e \in PREPARES THEN x ELSE ToServer(v, e)
    BY DEF ToServerPreparing
  <1> HIDE DEF v
  <1>3. v.me.state = "SERVER_PREPARING"
    BY <1>1 DEF Follows
  <1>4. Follows(v, x, {"SERVER_PREPARING"}) /\ Follows(v, ToServer(v, e), {"SERVER"})
    BY <1>1, <1>3, PreparingOK, ToServerOK
  <1> HIDE DEF x
  <1>5. Follows(w, x, {"SERVER_PREPARING"}) /\ Follows(w, ToServer(v, e), {"SERVER"})
    BY <1>1, <1>4, FollowsTrans
  <1> QED
    BY <1>2, <1>5 DEF Follows

(* The client of the link decides, once it knows both figures of merit. *)
LEMMA DecideRolesOK ==
    ASSUME NEW w \in Worlds, NEW e \in Earbud, NEW role \in Roles,
           w.me.state = "CLIENT_DECIDING"
    PROVE  Follows(w, DecideRoles(w, e, role), {"CLIENT_DECIDING", "CLIENT_AWAITING_CONFIRM"})
  <1> DEFINE r == [w.me EXCEPT !.remote_role = role]
             v == [w EXCEPT !.me = r]
             sent == Send(v, Peer(e), "CHANGE_ROLE", role)
             s == IF r.client THEN sent ELSE v
             x == [Move(s, "CLIENT_AWAITING_CONFIRM") EXCEPT
                    !.me.timers = @ \ {"NO_FOM_RECEIVED"}]
  <1>1. r \in EarbudData /\ Alike(w.me, r)
    BY DEF Worlds, EarbudData, Alike
  <1>2. v \in Worlds /\ v.me = r /\ v.link = w.link
    BY <1>1, EarbudUpdate
  <1>3. DecideRoles(w, e, role) = IF ~w.me.peer_score THEN w ELSE x
    BY <1>2 DEF DecideRoles, Worlds
  <1> HIDE DEF r, v
  <1>4. Follows(w, v, {w.me.state}) /\ v.me.state = w.me.state
    BY <1>1, <1>2, FollowsAlike DEF Step
  <1>5. Follows(v, sent, {v.me.state}) /\ sent \in Worlds /\ sent.me = v.me
    <2>1. Msg("CHANGE_ROLE", role, v.link.id) \in Pdus
      BY <1>2, LinkIsNat, PduTypes
    <2>2. Peer(e) \in Earbud
      BY PeerOK
    <2> QED
      BY <1>2, <2>1, <2>2, FollowsSend
  <1> HIDE DEF sent
  <1>6. Follows(w, sent, {w.me.state})
    BY <1>4, <1>5, FollowsTrans
  <1>7. s \in Worlds /\ Follows(w, s, {w.me.state}) /\ s.me.state = "CLIENT_DECIDING"
    BY <1>2, <1>4, <1>5, <1>6
  <1> HIDE DEF s
  <1>8. Follows(s, x, {"CLIENT_AWAITING_CONFIRM"})
    BY <1>7, MoveTimers DEF States, ClientStates, Timers
  <1> HIDE DEF x
  <1>9. Follows(w, x, {"CLIENT_AWAITING_CONFIRM"})
    BY <1>7, <1>8, FollowsTrans
  <1>10. Follows(w, w, {"CLIENT_DECIDING"})
    BY FollowsAlike DEF Step, Alike
  <1> QED
    BY <1>3, <1>9, <1>10 DEF Follows

(* The prepared client asks for the figure of merit of the server. *)
LEMMA ToClientDecidingOK ==
    ASSUME NEW w \in Worlds, NEW e \in Earbud, NEW role \in Roles,
           w.me.state = "CLIENT_PREPARING"
    PROVE  Follows(w, ToClientDeciding(w, e, role),
                   {"CLIENT_DECIDING", "CLIENT_AWAITING_CONFIRM"})
  <1> DEFINE v == [Move(w, "CLIENT_DECIDING") EXCEPT !.me.timers = @ \cup {"NO_FOM_RECEIVED"}]
  <1>1. Follows(w, v, {"CLIENT_DECIDING"}) /\ v \in Worlds /\ v.me.state = "CLIENT_DECIDING"
    BY MoveTimers DEF States, ClientStates, Timers
  <1>2. ToClientDeciding(w, e, role) = DecideRoles(v, e, role)
    BY DEF ToClientDeciding
  <1> HIDE DEF v
  <1> QED
    BY <1>1, <1>2, DecideRolesOK, FollowsTrans

(* The states of a client that has been told to go on. *)
ClientGoesOn == ClientStates \ {"CLIENT", "COMPLETED"}

(* The client prepares, at once when no client is registered. *)
LEMMA ToClientPreparingOK ==
    ASSUME NEW w \in Worlds, NEW e \in Earbud, NEW role \in Roles,
           w.me.state = "CLIENT_AWAITING_ENCRYPTION"
    PROVE  Follows(w, ToClientPreparing(w, e, role), ClientGoesOn)
  <1> DEFINE v == Move(w, "CLIENT_PREPARING")
             x == [v EXCEPT !.me.preparing = TRUE]
             d == ToClientDeciding(v, e, role)
  <1>1. Follows(w, v, {"CLIENT_PREPARING"}) /\ v \in Worlds
    BY FollowsMove DEF States, ClientStates
  <1>2. ToClientPreparing(w, e, role) = IF e \in PREPARES THEN x ELSE d
    BY DEF ToClientPreparing
  <1> HIDE DEF v
  <1>3. v.me.state = "CLIENT_PREPARING"
    BY <1>1 DEF Follows
  <1>4. /\ Follows(v, x, {"CLIENT_PREPARING"})
        /\ Follows(v, d, {"CLIENT_DECIDING", "CLIENT_AWAITING_CONFIRM"})
    BY <1>1, <1>3, PreparingOK, ToClientDecidingOK
  <1> HIDE DEF x, d
  <1>5. /\ Follows(w, x, {"CLIENT_PREPARING"})
        /\ Follows(w, d, {"CLIENT_DECIDING", "CLIENT_AWAITING_CONFIRM"})
    BY <1>1, <1>4, FollowsTrans
  <1> QED
    BY <1>2, <1>5 DEF Follows, ClientGoesOn, ClientStates

(* The client waits for encryption, and goes on at once if the link is     *)
(* encrypted.                                                              *)
LEMMA ToClientAwaitingEncryptionOK ==
    ASSUME NEW w \in Worlds, NEW e \in Earbud, NEW role \in Roles,
           w.me.state \in {"CLIENT", "COMPLETED"}
    PROVE  Follows(w, ToClientAwaitingEncryption(w, e, role), ClientGoesOn)
  <1> DEFINE v == Move(w, "CLIENT_AWAITING_ENCRYPTION")
             d == ToClientPreparing(v, e, role)
  <1>1. Follows(w, v, {"CLIENT_AWAITING_ENCRYPTION"}) /\ v \in Worlds
    BY FollowsMove DEF States, ClientStates
  <1>2. ToClientAwaitingEncryption(w, e, role) = IF v.me.gatt_encrypted THEN d ELSE v
    BY DEF ToClientAwaitingEncryption
  <1> HIDE DEF v
  <1>3. v.me.state = "CLIENT_AWAITING_ENCRYPTION"
    BY <1>1 DEF Follows
  <1>4. Follows(v, d, ClientGoesOn)
    BY <1>1, <1>3, ToClientPreparingOK
  <1> HIDE DEF d
  <1>5. Follows(w, d, ClientGoesOn)
    BY <1>1, <1>4, FollowsTrans
  <1> QED
    BY <1>1, <1>2, <1>5 DEF Follows, ClientGoesOn, ClientStates

(* The invariant of an earbud. *)
EarbudInv(r, l) == Core(r, l) /\ StateInv(r)

(* What may be appended to the queue of an earbud. *)
MayPost(r, l, m) ==
    /\ m = Stop => ~Queued(Stop, r.queue) /\ r.scan = "stopped"
    /\ m = Report => ~Queued(Report, r.queue) /\ ~Queued(Connect, r.queue)
    /\ m = Connect => /\ ~Queued(Connect, r.queue) /\ ~Queued(Report, r.queue)
                      /\ ~r.scan_enable
    /\ m = ClientInit => ~Queued(ClientInit, r.queue) /\ ~Queued(Loss, r.queue)
    /\ m = Loss => ~l.up
    /\ \A n \in Nat : m = Gatt(n) => n <= l.id

(* A message that may be posted keeps the core of the invariant. *)
LEMMA PostCore ==
    ASSUME NEW r \in EarbudData, NEW l, NEW m \in Messages, Core(r, l), MayPost(r, l, m)
    PROVE  LET s == [r EXCEPT !.queue = Append(@, m)]
           IN  /\ s \in EarbudData /\ Core(s, l) /\ Alike(r, [s EXCEPT !.queue = r.queue])
               /\ \A n : Queued(n, s.queue) <=> Queued(n, r.queue) \/ n = m
  <1> DEFINE q == Append(r.queue, m)
             s == [r EXCEPT !.queue = q]
  <1>1. r.queue \in Seq(Messages)
    BY DEF EarbudData
  <1>2. /\ q \in Seq(Messages)
        /\ \A n : Queued(n, q) <=> Queued(n, r.queue) \/ n = m
        /\ \A n : Once(n, r.queue) /\ ~(n = m /\ Queued(n, r.queue)) => Once(n, q)
        /\ \A n, k : Ahead(n, k, r.queue) /\ n # k /\ ~(n = m /\ Queued(k, r.queue))
                        => Ahead(n, k, q)
    BY <1>1, AppendQueue
  <1> HIDE DEF q
  <1>3. s \in EarbudData /\ s.queue = q /\ Alike(r, [s EXCEPT !.queue = r.queue])
        /\ s.scan = r.scan /\ s.scan_enable = r.scan_enable
    BY <1>2 DEF EarbudData, Alike
  <1> HIDE DEF s
  <1>4. /\ Stop # Report /\ Stop # Connect /\ Stop # ClientInit /\ Stop # Loss
        /\ Report # Connect /\ Report # ClientInit /\ Report # Loss
        /\ Connect # ClientInit /\ Connect # Loss /\ ClientInit # Loss
        /\ \A n : Gatt(n) # Loss
    BY DEF Stop, Report, Connect, ClientInit, Loss, Gatt, Signal, Msg
  <1>5. ScanInv(s)
    BY <1>2, <1>3, <1>4 DEF Core, ScanInv, MayPost
  <1>6. ConnectInv(s)
    BY <1>2, <1>3, <1>4 DEF Core, ConnectInv, MayPost
  <1>7. OrderInv(s, l)
    <2>1. Once(ClientInit, q) /\ Ahead(ClientInit, Loss, q)
      BY <1>2, <1>4 DEF Core, OrderInv, MayPost
    <2>2. l.up => Ahead(Loss, Gatt(l.id), q)
      BY <1>2, <1>4 DEF Core, OrderInv, MayPost
    <2>3. \A n \in Nat : Queued(Gatt(n), q) => n <= l.id
      BY <1>2 DEF Core, OrderInv, MayPost
    <2> QED
      BY <1>3, <2>1, <2>2, <2>3 DEF OrderInv
  <1> QED
    BY <1>2, <1>3, <1>5, <1>6, <1>7 DEF Core, s, q

(* A step to the states in which a link is in use keeps the invariant when *)
(* nothing is left over from the search.                                   *)
LEMMA BusyOK ==
    ASSUME NEW w, NEW v, NEW S \in SUBSET (ClientStates \cup ServerStates), Follows(w, v, S),
           Core(w.me, w.link), ~Queued(Connect, w.me.queue), ~Queued(ClientInit, w.me.queue),
           "DISCOVERY" \notin w.me.timers
    PROVE  EarbudInv(v.me, v.link)
  <1>1. Core(v.me, v.link)
    BY CalmStep DEF Follows
  <1>2. /\ ~Queued(Connect, v.me.queue) /\ ~Queued(ClientInit, v.me.queue)
        /\ "DISCOVERY" \notin v.me.timers /\ v.me.state \in ClientStates \cup ServerStates
    BY DEF Follows, Calmer, Within
  <1>3. StateInv(v.me)
    BY <1>2 DEF StateInv, ClientStates, ServerStates, AdvertisingStates
  <1> QED
    BY <1>1, <1>3 DEF EarbudInv

(* Entering DISCOVER, with its scan and its timeout, establishes the       *)
(* invariant.                                                              *)
LEMMA ToDiscoverOK ==
    ASSUME NEW w \in Worlds, Core(w.me, w.link), w.me.state \notin {"DISCOVER", "PANIC"},
           ~Queued(ClientInit, w.me.queue),
           w.me.confirming_primary \/ ~Queued(Connect, w.me.queue),
           "DISCOVERY" \in w.me.timers => ~w.me.confirming_primary
    PROVE  LET v == ToDiscover(w)
           IN  Step(w, v) /\ EarbudInv(v.me, v.link) /\ v.me.state = "DISCOVER"
  <1> DEFINE v == Move(w, "DISCOVER")
             x == StartScanningIfInactive(v.me)
             t == {"ADVERT_BACKOFF"} \cup IF x.role_timeout /\ ~x.confirming_primary
                                          THEN {"DISCOVERY"} ELSE {}
             r == [x EXCEPT !.gatt_cid = FALSE, !.gatt_encrypted = FALSE, !.timers = @ \cup t]
  <1>1. Moved(w, v, "DISCOVER")
    BY MoveOK DEF States
  <1>2. ToDiscover(w) = [v EXCEPT !.me = r]
    BY DEF ToDiscover
  <1> HIDE DEF v
  <1>3. v \in Worlds /\ v.me \in EarbudData
    BY <1>1 DEF Moved, Step, Worlds
  <1>4. Core(v.me, v.link)
    BY <1>1, CalmStep DEF Moved
  <1>5. /\ ~Queued(ClientInit, v.me.queue)
        /\ (v.me.confirming_primary \/ ~Queued(Connect, v.me.queue))
    BY <1>1 DEF Moved, Calmer, Within
  <1>6. /\ x \in EarbudData /\ Core(x, v.link) /\ Within(x.queue, v.me.queue)
        /\ Alike(v.me, [x EXCEPT !.scan = v.me.scan, !.scan_enable = v.me.scan_enable,
                                 !.queue = v.me.queue])
    BY <1>3, <1>4, <1>5, StartScanOK
  <1>7. x.state = v.me.state /\ x.timers = v.me.timers
        /\ x.confirming_primary = v.me.confirming_primary
    BY <1>6 DEF Alike, EarbudData
  <1>8. t \in SUBSET Timers /\ ("DISCOVERY" \in t => ~x.confirming_primary)
    BY DEF Timers
  <1> HIDE DEF x, t
  <1>9. /\ r \in EarbudData /\ r.state = x.state /\ r.gatt_cid = FALSE
        /\ r.timers = x.timers \cup t /\ r.confirming_primary = x.confirming_primary
        /\ r.queue = x.queue /\ r.scan = x.scan /\ r.scan_enable = x.scan_enable
    BY <1>6, <1>8 DEF EarbudData
  <1> HIDE DEF r
  <1>10. Core(r, v.link)
    BY <1>6, <1>9 DEF Core, ScanInv, ConnectInv, OrderInv
  <1>11. /\ ~Queued(ClientInit, r.queue)
         /\ r.confirming_primary \/ ~Queued(Connect, r.queue)
    BY <1>5, <1>6, <1>7, <1>9 DEF Within
  <1>12. "DISCOVERY" \in r.timers => ~r.confirming_primary
    BY <1>1, <1>7, <1>8, <1>9 DEF Moved
  <1>13. StateInv(r) /\ r.state = "DISCOVER"
    BY <1>1, <1>7, <1>9, <1>11, <1>12 DEF StateInv, Moved
  <1>14. /\ ToDiscover(w) \in Worlds /\ ToDiscover(w).me = r /\ ToDiscover(w).link = v.link
    BY <1>2, <1>3, <1>9, EarbudUpdate
  <1> QED
    BY <1>1, <1>10, <1>13, <1>14 DEF Moved, Step, EarbudInv

(* Entering INITIALISED, with the link released and the pending            *)
(* notification given, establishes the invariant.                          *)
LEMMA ToInitialisedOK ==
    ASSUME NEW w \in Worlds, Core(w.me, w.link), w.me.state = "COMPLETED",
           ~Queued(ClientInit, w.me.queue),
           "DISCOVERY" \in w.me.timers => w.me.selected_role # NoRole
    PROVE  LET v == ToInitialised(w)
           IN  Step(w, v) /\ EarbudInv(v.me, v.link) /\ v.me.state = "INITIALISED"
  <1> DEFINE v == Move(w, "INITIALISED")
             d == DisconnectLink(v)
             r == [d.me EXCEPT !.confirming_primary = FALSE]
             u == [d EXCEPT !.me = r]
             x == NotifyIfPending(u)
  <1>1. Moved(w, v, "INITIALISED")
    BY MoveOK DEF States
  <1>2. v \in Worlds
    BY <1>1 DEF Moved, Step
  <1>3. Step(v, d) /\ Alike(v.me, d.me)
    BY <1>2, DisconnectLinkOK
  <1>4. d \in Worlds
    BY <1>3 DEF Step
  <1>5. ToInitialised(w) = x
    BY <1>4 DEF ToInitialised, Worlds
  <1> HIDE DEF v, d
  <1>6. /\ r \in EarbudData /\ r.state = d.me.state /\ r.gatt_cid = d.me.gatt_cid
        /\ r.timers = d.me.timers /\ r.selected_role = d.me.selected_role
        /\ r.scan = d.me.scan /\ r.scan_enable = d.me.scan_enable /\ r.queue = d.me.queue
    BY <1>4 DEF Worlds, EarbudData
  <1> HIDE DEF r
  <1>7. u \in Worlds /\ u.me = r /\ u.link = d.link
    BY <1>4, <1>6, EarbudUpdate
  <1> HIDE DEF u
  <1>8. /\ x \in Worlds /\ x.link = u.link
        /\ x.me.timers = IF u.me.selected_role = NoRole THEN u.me.timers
                         ELSE u.me.timers \ {"DISCOVERY"}
        /\ Alike(u.me, [x.me EXCEPT !.timers = u.me.timers,
                                    !.selected_role = u.me.selected_role])
    BY <1>7, NotifyIfPendingOK
  <1>9. x.me \in EarbudData
    BY <1>8 DEF Worlds
  <1> HIDE DEF x
  <1>10. /\ x.me.state = r.state /\ x.me.gatt_cid = r.gatt_cid
         /\ x.me.scan = r.scan /\ x.me.scan_enable = r.scan_enable /\ x.me.queue = r.queue
    BY <1>7, <1>8, <1>9 DEF Alike, EarbudData
  <1>11. Step(w, x)
    BY <1>1, <1>3, <1>7, <1>8 DEF Moved, Step
  <1>12. Calmer(w.me, x.me)
    BY <1>1, <1>3, <1>6, <1>10 DEF Moved, Alike, Calmer
  <1>13. Core(x.me, x.link)
    BY <1>11, <1>12, CalmStep
  <1>14. x.me.state = "INITIALISED" /\ ~x.me.gatt_cid /\ ~Queued(ClientInit, x.me.queue)
    BY <1>1, <1>3, <1>6, <1>10, <1>12 DEF Moved, Alike, Calmer, Within, ClientStates
  <1>15. "DISCOVERY" \notin x.me.timers
    BY <1>1, <1>3, <1>6, <1>7, <1>8 DEF Moved, Alike
  <1>16. StateInv(x.me)
    BY <1>14, <1>15 DEF StateInv
  <1> QED
    BY <1>5, <1>11, <1>13, <1>14, <1>16 DEF EarbudInv

(* The state that follows COMPLETED, INITIALISED or DISCOVER, establishes  *)
(* the invariant.                                                          *)
LEMMA SelectStateOK ==
    ASSUME NEW w \in Worlds, Core(w.me, w.link), w.me.state = "COMPLETED",
           ~Queued(ClientInit, w.me.queue),
           "DISCOVERY" \in w.me.timers
             => ~w.me.confirming_primary /\ w.me.selected_role # NoRole
    PROVE  LET v == SelectStateAfterCompletion(w)
           IN  /\ Step(w, v) /\ EarbudInv(v.me, v.link)
               /\ v.me.state \in {"INITIALISED", "DISCOVER"}
  <1>1. CASE w.me.confirming_primary
    BY <1>1, ToDiscoverOK DEF SelectStateAfterCompletion
  <1>2. CASE ~w.me.confirming_primary
    BY <1>2, ToInitialisedOK DEF SelectStateAfterCompletion
  <1> QED
    BY <1>1, <1>2

(* Entering COMPLETED and going on from it establishes the invariant. *)
LEMMA ToCompletedOK ==
    ASSUME NEW w \in Worlds, Core(w.me, w.link), w.me.state \notin {"COMPLETED", "PANIC"},
           Queued(ClientInit, w.me.queue) => w.me.gatt_cid,
           Queued(Connect, w.me.queue) => ~w.me.gatt_cid,
           "DISCOVERY" \in w.me.timers
             => ~w.me.confirming_primary /\ w.me.selected_role # NoRole /\ ~w.me.gatt_cid
    PROVE  LET v == ToCompleted(w)
           IN  /\ Step(w, v) /\ EarbudInv(v.me, v.link)
               /\ v.me.state \in {"INITIALISED", "DISCOVER", "COMPLETED"}
  <1> DEFINE v == Move(w, "COMPLETED")
             d == DisconnectLink(v)
             x == SelectStateAfterCompletion(v)
  <1>1. Moved(w, v, "COMPLETED")
    BY MoveOK DEF States, ClientStates
  <1>2. ToCompleted(w) = IF v.me.gatt_cid THEN d ELSE x
    BY DEF ToCompleted
  <1> HIDE DEF v
  <1>3. v \in Worlds /\ Core(v.me, v.link)
    BY <1>1, CalmStep DEF Moved, Step
  <1>4. /\ v.me.state = "COMPLETED" /\ v.me.gatt_cid = w.me.gatt_cid
        /\ Queued(ClientInit, v.me.queue) => v.me.gatt_cid
        /\ Queued(Connect, v.me.queue) => ~v.me.gatt_cid
        /\ "DISCOVERY" \in v.me.timers
             => ~v.me.confirming_primary /\ v.me.selected_role # NoRole /\ ~v.me.gatt_cid
    <2>1. v.me.gatt_cid = w.me.gatt_cid
      <3>1. w.me.gatt_cid \in BOOLEAN
        BY DEF Worlds, EarbudData
      <3> QED
        BY <1>1, <3>1 DEF Moved, ClientStates
    <2> QED
      BY <1>1, <2>1 DEF Moved, Calmer, Within
  <1>5. CASE v.me.gatt_cid
    <2>1. Step(v, d) /\ Alike(v.me, d.me)
      BY <1>3, DisconnectLinkOK
    <2> HIDE DEF d
    <2>2. Core(d.me, d.link)
      BY <1>3, <2>1, FollowsAlike, CalmStep DEF Follows
    <2>3. StateInv(d.me)
      BY <1>4, <1>5, <2>1 DEF Alike, StateInv, AdvertisingStates
    <2> QED
      BY <1>1, <1>2, <1>4, <1>5, <2>1, <2>2, <2>3 DEF EarbudInv, Moved, Step, Alike
  <1>6. CASE ~v.me.gatt_cid
    <2>1. Step(v, x) /\ EarbudInv(x.me, x.link) /\ x.me.state \in {"INITIALISED", "DISCOVER"}
      BY <1>3, <1>4, <1>6, SelectStateOK
    <2> HIDE DEF x
    <2> QED
      BY <1>1, <1>2, <1>6, <2>1 DEF Moved, Step
  <1> QED
    BY <1>5, <1>6

(* The outcomes a search is completed with. *)
Given == Outcomes(Roles \cup {"CANCELLED"})

(* What precedes COMPLETED when a role has been decided or the search      *)
(* cancelled: scans stop, the clients are told at once or later, and the   *)
(* earbud is left ready for COMPLETED.                                     *)
LEMMA CompletingOK ==
    ASSUME NEW w \in Worlds, NEW o \in Given, EarbudInv(w.me, w.link)
    PROVE  LET a == IF o.role = "PRIMARY"
                    THEN NotifyImmediately([w EXCEPT !.me = [StopScanIfActive(w.me) EXCEPT
                             !.selected_role = NoRole, !.confirming_primary = TRUE]], o)
                    ELSE [w EXCEPT !.me.selected_role = o, !.me.confirming_primary = FALSE]
           IN  /\ Step(w, a) /\ Core(a.me, a.link)
               /\ a.me.state = w.me.state /\ a.me.gatt_cid = w.me.gatt_cid
               /\ a.me.queue = w.me.queue
               /\ a.me.scan = "off" <=> w.me.scan = "off"
               /\ "DISCOVERY" \in a.me.timers
                    => /\ "DISCOVERY" \in w.me.timers
                       /\ ~a.me.confirming_primary /\ a.me.selected_role # NoRole
  <1> DEFINE k == StopScanIfActive(w.me)
             r == [k EXCEPT !.selected_role = NoRole, !.confirming_primary = TRUE]
             u == [w EXCEPT !.me = r]
             n == NotifyImmediately(u, o)
             s == [w.me EXCEPT !.selected_role = o, !.confirming_primary = FALSE]
             x == [w EXCEPT !.me = s]
  <1>0. /\ w.me \in EarbudData /\ Core(w.me, w.link)
        /\ NoRole \in Stored /\ o \in Announced
    BY StoredOutcomes DEF Worlds, EarbudInv, Given, Announced, Outcomes
  <1>1. CASE o.role = "PRIMARY"
    <2>1. /\ k \in EarbudData /\ Calmer(w.me, k)
          /\ Alike(w.me, [k EXCEPT !.scan = w.me.scan, !.scan_enable = w.me.scan_enable])
      BY <1>0, StopScanOK
    <2>2. k.scan = "off" <=> w.me.scan = "off"
      BY <1>0 DEF StopScanIfActive, EarbudData
    <2> HIDE DEF k
    <2>3. k.state = w.me.state /\ k.gatt_cid = w.me.gatt_cid /\ k.timers = w.me.timers
          /\ k.queue = w.me.queue
      BY <2>1 DEF Alike, EarbudData
    <2>4. /\ r \in EarbudData /\ r.state = k.state /\ r.gatt_cid = k.gatt_cid
          /\ r.timers = k.timers /\ r.queue = k.queue /\ r.scan = k.scan
          /\ r.scan_enable = k.scan_enable
      BY <1>0, <2>1 DEF EarbudData, Stored
    <2> HIDE DEF r
    <2>5. u \in Worlds /\ u.me = r /\ u.link = w.link
      BY <2>4, EarbudUpdate
    <2> HIDE DEF u
    <2>6. /\ n \in Worlds /\ n.link = u.link /\ n.me.timers = u.me.timers \ {"DISCOVERY"}
          /\ Alike(u.me, [n.me EXCEPT !.timers = u.me.timers])
      BY <1>0, <2>5, NotifyImmediatelyOK
    <2>7. n.me \in EarbudData
      BY <2>6 DEF Worlds
    <2> HIDE DEF n
    <2>8. n.me.state = r.state /\ n.me.gatt_cid = r.gatt_cid /\ n.me.queue = r.queue
          /\ n.me.scan = r.scan /\ n.me.scan_enable = r.scan_enable
      BY <2>5, <2>6, <2>7 DEF Alike, EarbudData
    <2>9. Calmer(w.me, n.me) /\ Step(w, n)
      BY <2>1, <2>3, <2>4, <2>5, <2>6, <2>8 DEF Calmer, Step
    <2>10. Core(n.me, n.link)
      BY <1>0, <2>9, CalmStep
    <2> QED
      BY <1>1, <2>2, <2>3, <2>4, <2>5, <2>6, <2>8, <2>9, <2>10 DEF n, u, r, k
  <1>2. CASE o.role # "PRIMARY"
    <2>0. o \in Stored /\ o # NoRole
      BY <1>2 DEF Given, Stored, Outcomes, Roles, NoRole, Alone, Outcome
    <2>a. x = [w EXCEPT !.me.selected_role = o, !.me.confirming_primary = FALSE]
      BY DEF Worlds
    <2>1. /\ s \in EarbudData /\ s.state = w.me.state /\ s.gatt_cid = w.me.gatt_cid
          /\ s.timers = w.me.timers /\ s.queue = w.me.queue /\ s.scan = w.me.scan
          /\ s.scan_enable = w.me.scan_enable /\ s.selected_role = o
          /\ s.confirming_primary = FALSE
      BY <1>0, <2>0 DEF EarbudData, Stored
    <2> HIDE DEF s
    <2>2. x \in Worlds /\ x.me = s /\ x.link = w.link
      BY <2>1, EarbudUpdate
    <2> HIDE DEF x
    <2>3. Step(w, x) /\ Calmer(w.me, x.me)
      BY <2>1, <2>2, WithinSame DEF Step, Calmer
    <2>4. Core(x.me, x.link)
      BY <1>0, <2>3, CalmStep
    <2> QED
      BY <1>2, <2>0, <2>a, <2>1, <2>2, <2>3, <2>4
  <1> QED
    BY <1>1, <1>2

(* peer_find_role_completed keeps the invariant, in whatever state it is   *)
(* called.                                                                 *)
LEMMA CompletedOK ==
    ASSUME NEW w \in Worlds, NEW o \in Given, EarbudInv(w.me, w.link)
    PROVE  LET v == Completed(w, o)
           IN  Step(w, v) /\ EarbudInv(v.me, v.link)
  <1> DEFINE a == IF o.role = "PRIMARY"
                  THEN NotifyImmediately([w EXCEPT !.me = [StopScanIfActive(w.me) EXCEPT
                           !.selected_role = NoRole, !.confirming_primary = TRUE]], o)
                  ELSE [w EXCEPT !.me.selected_role = o, !.me.confirming_primary = FALSE]
             b == CASE a.me.state = "INITIALISED" -> NotifyIfPending(a)
                    [] a.me.state = "SERVER" -> ToServerAwaitingCompletion(a)
                    [] a.me.state = "COMPLETED" -> a
                    [] OTHER -> ToCompleted(a)
             r == [b.me EXCEPT !.client = FALSE, !.gatt_cid = FALSE, !.gatt_encrypted = FALSE]
             x == [b EXCEPT !.me.client = FALSE, !.me.gatt_cid = FALSE,
                            !.me.gatt_encrypted = FALSE]
  <1>1. Completed(w, o) = x
    BY DEF Completed
  <1>2. /\ Step(w, a) /\ Core(a.me, a.link)
        /\ a.me.state = w.me.state /\ a.me.gatt_cid = w.me.gatt_cid
        /\ a.me.queue = w.me.queue
        /\ a.me.scan = "off" <=> w.me.scan = "off"
        /\ "DISCOVERY" \in a.me.timers
             => /\ "DISCOVERY" \in w.me.timers
                /\ ~a.me.confirming_primary /\ a.me.selected_role # NoRole
    BY CompletingOK
  <1> HIDE DEF a
  <1>3. a \in Worlds /\ StateInv(w.me)
    BY <1>2 DEF Step, EarbudInv
  <1> DEFINE Ends == {"INITIALISED", "SERVER_AWAITING_COMPLETION", "COMPLETED", "DISCOVER"}
  <1>4. Step(a, b) /\ EarbudInv(b.me, b.link) /\ b.me.state \in Ends
    <2>1. CASE a.me.state = "INITIALISED"
      <3> DEFINE n == NotifyIfPending(a)
      <3>1. b = n
        BY <2>1
      <3>2. /\ n \in Worlds /\ n.link = a.link
            /\ n.me.timers = IF a.me.selected_role = NoRole THEN a.me.timers
                             ELSE a.me.timers \ {"DISCOVERY"}
            /\ Alike(a.me, [n.me EXCEPT !.timers = a.me.timers,
                                        !.selected_role = a.me.selected_role])
        BY <1>3, NotifyIfPendingOK
      <3>3. n.me \in EarbudData
        BY <3>2 DEF Worlds
      <3> HIDE DEF n, b
      <3>4. n.me.state = a.me.state /\ n.me.gatt_cid = a.me.gatt_cid
            /\ n.me.scan = a.me.scan /\ n.me.scan_enable = a.me.scan_enable
            /\ n.me.queue = a.me.queue /\ n.me.confirming_primary = a.me.confirming_primary
        BY <3>2, <3>3 DEF Alike, EarbudData
      <3>5. Step(a, n) /\ Calmer(a.me, n.me)
        BY <3>2, <3>4, WithinSame DEF Step, Calmer
      <3>6. Core(n.me, n.link)
        BY <1>2, <3>5, CalmStep
      <3>7. StateInv(n.me)
        BY <1>2, <1>3, <2>1, <3>2, <3>4 DEF StateInv
      <3> QED
        BY <2>1, <3>1, <3>4, <3>5, <3>6, <3>7 DEF EarbudInv
    <2>2. CASE a.me.state = "SERVER"
      <3> DEFINE n == ToServerAwaitingCompletion(a)
      <3>1. b = n
        BY <2>2
      <3>2. Follows(a, n, {"SERVER_AWAITING_COMPLETION"})
        BY <1>3, <2>2, MoveTimers DEF ToServerAwaitingCompletion, States, ServerStates, Timers
      <3> HIDE DEF n, b
      <3>3. EarbudInv(n.me, n.link)
        <4>1. ~Queued(Connect, a.me.queue) /\ ~Queued(ClientInit, a.me.queue)
              /\ "DISCOVERY" \notin a.me.timers
          BY <1>2, <1>3, <2>2 DEF StateInv
        <4> QED
          BY <1>2, <3>2, <4>1, BusyOK DEF ServerStates
      <3> QED
        BY <3>1, <3>2, <3>3 DEF Follows
    <2>3. CASE a.me.state = "COMPLETED"
      <3>1. b = a
        BY <2>3
      <3> HIDE DEF b
      <3>2. StateInv(a.me)
        BY <1>2, <1>3, <2>3 DEF StateInv, AdvertisingStates
      <3> QED
        BY <1>2, <1>3, <2>3, <3>1, <3>2 DEF EarbudInv, Step
    <2>4. CASE a.me.state \notin {"INITIALISED", "SERVER", "COMPLETED"}
      <3> DEFINE n == ToCompleted(a)
      <3>1. b = n
        BY <2>4
      <3> HIDE DEF b
      <3>2. /\ a.me.state \notin {"COMPLETED", "PANIC"}
            /\ Queued(ClientInit, a.me.queue) => a.me.gatt_cid
            /\ Queued(Connect, a.me.queue) => ~a.me.gatt_cid
            /\ "DISCOVERY" \in a.me.timers
                 => ~a.me.confirming_primary /\ a.me.selected_role # NoRole /\ ~a.me.gatt_cid
        BY <1>2, <1>3, <2>4 DEF StateInv, AdvertisingStates
      <3>3. /\ Step(a, n) /\ EarbudInv(n.me, n.link)
            /\ n.me.state \in {"INITIALISED", "DISCOVER", "COMPLETED"}
        BY <1>2, <1>3, <3>2, ToCompletedOK
      <3> QED
        BY <3>1, <3>3
    <2> QED
      BY <2>1, <2>2, <2>3, <2>4
  <1> HIDE DEF b
  <1>5. b \in Worlds /\ b.me \in EarbudData
    BY <1>4 DEF Step, Worlds
  <1>6. x = [b EXCEPT !.me = r]
    BY <1>5 DEF Worlds
  <1>7. /\ r \in EarbudData /\ r.state = b.me.state /\ r.gatt_cid = FALSE
        /\ r.timers = b.me.timers /\ r.queue = b.me.queue /\ r.scan = b.me.scan
        /\ r.scan_enable = b.me.scan_enable
        /\ r.confirming_primary = b.me.confirming_primary
    BY <1>5 DEF EarbudData
  <1> HIDE DEF r
  <1>8. x \in Worlds /\ x.me = r /\ x.link = b.link
    BY <1>5, <1>6, <1>7, EarbudUpdate, ZenonT(40)
  <1> HIDE DEF x
  <1>9. Core(x.me, x.link)
    BY <1>4, <1>7, <1>8 DEF EarbudInv, Core, ScanInv, ConnectInv, OrderInv
  <1>10. StateInv(x.me)
    BY <1>4, <1>7, <1>8 DEF EarbudInv, StateInv
  <1> QED
    BY <1>1, <1>2, <1>4, <1>8, <1>9, <1>10 DEF Step, EarbudInv

(* After the backoff the earbud also advertises; the search goes on. *)
LEMMA ToDiscoverConnectableOK ==
    ASSUME NEW w \in Worlds, EarbudInv(w.me, w.link), w.me.state = "DISCOVER"
    PROVE  LET v == ToDiscoverConnectable(w)
           IN  Step(w, v) /\ EarbudInv(v.me, v.link)
  <1> DEFINE v == Move(w, "DISCOVER_CONNECTABLE")
             x == StartScanningIfInactive(v.me)
             r == [x EXCEPT !.advert_handle = TRUE]
             y == [v EXCEPT !.me = r]
  <1>1. Moved(w, v, "DISCOVER_CONNECTABLE")
    BY MoveOK DEF States, AdvertisingStates
  <1>2. ToDiscoverConnectable(w) = y
    BY DEF ToDiscoverConnectable
  <1> HIDE DEF v
  <1>3. v \in Worlds /\ v.me \in EarbudData /\ Core(v.me, v.link)
    BY <1>1, CalmStep DEF Moved, Step, Worlds, EarbudInv
  <1>4. /\ ~Queued(ClientInit, v.me.queue)
        /\ v.me.confirming_primary \/ ~Queued(Connect, v.me.queue)
        /\ "DISCOVERY" \in v.me.timers => ~v.me.confirming_primary
        /\ ~v.me.gatt_cid
    BY <1>1 DEF Moved, Calmer, Within, EarbudInv, StateInv
  <1>5. /\ x \in EarbudData /\ Core(x, v.link) /\ Within(x.queue, v.me.queue)
        /\ Alike(v.me, [x EXCEPT !.scan = v.me.scan, !.scan_enable = v.me.scan_enable,
                                 !.queue = v.me.queue])
    BY <1>3, <1>4, StartScanOK
  <1> HIDE DEF x
  <1>6. x.state = v.me.state /\ x.timers = v.me.timers /\ x.gatt_cid = v.me.gatt_cid
        /\ x.confirming_primary = v.me.confirming_primary
    BY <1>5 DEF Alike, EarbudData
  <1>7. r \in EarbudData /\ Alike(x, r)
    BY <1>5 DEF EarbudData, Alike
  <1> HIDE DEF r
  <1>8. y \in Worlds /\ y.me = r /\ y.link = v.link
    BY <1>3, <1>7, EarbudUpdate
  <1> HIDE DEF y
  <1>9. Core(r, v.link)
    BY <1>5, <1>7 DEF Alike, Core, ScanInv, ConnectInv, OrderInv
  <1>10. StateInv(r)
    BY <1>1, <1>4, <1>5, <1>6, <1>7 DEF Moved, Alike, Within, StateInv, AdvertisingStates
  <1> QED
    BY <1>1, <1>2, <1>8, <1>9, <1>10 DEF Moved, Step, EarbudInv

(* The peer has been found: the scan is asked to stop and the connection   *)
(* waits for it.                                                           *)
LEMMA ToDiscoveredDeviceOK ==
    ASSUME NEW w \in Worlds, EarbudInv(w.me, w.link),
           w.me.state \in {"DISCOVER", "DISCOVER_CONNECTABLE"},
           ~Queued(Report, w.me.queue), ~Queued(Connect, w.me.queue)
    PROVE  LET v == ToDiscoveredDevice(w)
           IN  Step(w, v) /\ EarbudInv(v.me, v.link)
  <1> DEFINE v == Move(w, "DISCOVERED_DEVICE")
             T == v.me.timers \ {"DISCOVERY"}
             u == [v EXCEPT !.me.timers = T]
             x == Post(u, Connect)
  <1>1. Moved(w, v, "DISCOVERED_DEVICE")
    BY MoveOK DEF States, AdvertisingStates
  <1>2. v \in Worlds /\ v.me.timers \in SUBSET Timers
    BY <1>1 DEF Moved, Step, Worlds, EarbudData
  <1>3. ToDiscoveredDevice(w) = x
    BY DEF ToDiscoveredDevice, Connect
  <1> HIDE DEF v
  <1>4. T \in SUBSET Timers /\ "DISCOVERY" \notin T
    BY <1>2
  <1> HIDE DEF T
  <1>5. /\ Follows(v, u, {v.me.state}) /\ u \in Worlds /\ u.me.timers = T
        /\ Alike(v.me, [u.me EXCEPT !.timers = v.me.timers])
    BY <1>2, <1>4, FollowsTimers
  <1> HIDE DEF u
  <1>6. u.me \in EarbudData /\ Connect \in Messages
    BY <1>5, SignalTypes DEF Worlds, Connect, Signals
  <1>7. /\ u.me.state = v.me.state /\ u.me.gatt_cid = v.me.gatt_cid
        /\ u.me.scan = v.me.scan /\ u.me.scan_enable = v.me.scan_enable
        /\ u.me.queue = v.me.queue
    BY <1>5, <1>6 DEF Alike, EarbudData
  <1>8. Step(w, u) /\ Core(u.me, u.link)
    <2>1. Core(v.me, v.link)
      BY <1>1, CalmStep DEF Moved, EarbudInv
    <2> QED
      BY <1>1, <1>5, <2>1, CalmStep DEF Moved, Follows, Step
  <1>9. /\ ~Queued(Report, u.me.queue) /\ ~Queued(Connect, u.me.queue)
        /\ ~u.me.scan_enable /\ ~Queued(ClientInit, u.me.queue) /\ ~u.me.gatt_cid
        /\ u.me.state = "DISCOVERED_DEVICE"
    BY <1>1, <1>7 DEF Moved, Calmer, Within, EarbudInv, StateInv, AdvertisingStates
  <1>10. /\ Connect # Stop /\ Connect # Report /\ Connect # ClientInit /\ Connect # Loss
         /\ \A n : Connect # Gatt(n)
    BY DEF Stop, Report, Connect, ClientInit, Loss, Gatt, Signal, Msg
  <1>11. MayPost(u.me, u.link, Connect)
    BY <1>9, <1>10 DEF MayPost
  <1> DEFINE r == [u.me EXCEPT !.queue = Append(@, Connect)]
  <1>12. x \in Worlds /\ x.me = r /\ x.link = u.link
    BY <1>5, <1>6, PostOK
  <1>13. /\ r \in EarbudData /\ Core(r, u.link) /\ Alike(u.me, [r EXCEPT !.queue = u.me.queue])
         /\ \A n : Queued(n, r.queue) <=> Queued(n, u.me.queue) \/ n = Connect
    BY <1>6, <1>8, <1>11, PostCore
  <1> HIDE DEF r, x
  <1>14. /\ r.state = u.me.state /\ r.gatt_cid = u.me.gatt_cid /\ r.timers = u.me.timers
    BY <1>13 DEF Alike, EarbudData
  <1>15. StateInv(r)
    BY <1>4, <1>5, <1>9, <1>10, <1>13, <1>14 DEF StateInv
  <1> QED
    BY <1>3, <1>8, <1>12, <1>13, <1>15 DEF Step, EarbudInv

(* The connection is made only with the scanner off. *)
LEMMA ToConnectingOK ==
    ASSUME NEW w \in Worlds, EarbudInv(w.me, w.link), ~Queued(Connect, w.me.queue),
           w.me.scan = "off",
           \/ w.me.state = "DISCOVERED_DEVICE"
           \/ /\ w.me.confirming_primary
              /\ w.me.state \in {"DISCOVER", "DISCOVER_CONNECTABLE"}
    PROVE  LET v == ToConnectingToDiscovered(w)
           IN  Step(w, v) /\ EarbudInv(v.me, v.link)
  <1> DEFINE v == Move(w, "CONNECTING_TO_DISCOVERED")
             r == [v.me EXCEPT !.connecting = ~w.link.up, !.timers = @ \cup {"PEER_CONNECTION"}]
             x == [v EXCEPT !.me = r]
  <1>1. Moved(w, v, "CONNECTING_TO_DISCOVERED")
    BY MoveOK DEF States, AdvertisingStates
  <1>2. v \in Worlds /\ v.me \in EarbudData /\ Core(v.me, v.link)
    BY <1>1, CalmStep DEF Moved, Step, Worlds, EarbudInv
  <1>3. ToConnectingToDiscovered(w) = x
    BY <1>2 DEF ToConnectingToDiscovered, Worlds, EarbudData
  <1> HIDE DEF v
  <1>4. /\ r \in EarbudData /\ Alike(v.me, [r EXCEPT !.timers = v.me.timers])
        /\ "DISCOVERY" \in r.timers => "DISCOVERY" \in v.me.timers
    BY <1>2 DEF EarbudData, Alike, Timers
  <1> HIDE DEF r
  <1>5. Follows(v, x, {v.me.state}) /\ x.me = r
    BY <1>2, <1>4, FollowsUpdate
  <1> HIDE DEF x
  <1>6. Core(x.me, x.link) /\ Step(w, x)
    BY <1>1, <1>2, <1>5, CalmStep DEF Follows, Moved, Step
  <1>7. /\ r.state = v.me.state /\ r.gatt_cid = v.me.gatt_cid /\ r.scan = v.me.scan
        /\ r.queue = v.me.queue
    BY <1>4 DEF Alike, EarbudData
  <1>8. /\ v.me.scan = "off" /\ ~v.me.gatt_cid /\ "DISCOVERY" \notin v.me.timers
        /\ ~Queued(Connect, v.me.queue) /\ ~Queued(ClientInit, v.me.queue)
    BY <1>1 DEF Moved, Calmer, Within, EarbudInv, StateInv, AdvertisingStates
  <1>9. StateInv(r)
    BY <1>1, <1>4, <1>7, <1>8 DEF Moved, StateInv
  <1> QED
    BY <1>3, <1>5, <1>6, <1>9 DEF EarbudInv

(* An incoming GATT connection makes the earbud a client; its              *)
(* CLIENT_INIT_CFM is behind no loss of the link.                          *)
LEMMA ToClientOK ==
    ASSUME NEW w \in Worlds, Core(w.me, w.link), w.me.state \in AdvertisingStates,
           w.me.gatt_cid, ~Queued(ClientInit, w.me.queue), ~Queued(Loss, w.me.queue)
    PROVE  LET v == ToClient(w)
           IN  Step(w, v) /\ EarbudInv(v.me, v.link)
  <1> DEFINE v == Move(w, "CLIENT")
             u == Unpost(v, "CONNECT_TO_PEER")
             r == [u.me EXCEPT !.timers = @ \ {"DISCOVERY"}, !.peer_score = FALSE,
                               !.client = TRUE]
             y == [u EXCEPT !.me = r]
             x == Post(y, ClientInit)
  <1>1. Moved(w, v, "CLIENT")
    BY MoveOK DEF States, ClientStates, AdvertisingStates
  <1>2. v \in Worlds /\ Core(v.me, v.link)
    BY <1>1, CalmStep DEF Moved, Step
  <1> DEFINE q == CancelAll(v.me.queue, {Connect})
  <1>3. /\ u \in Worlds /\ u.link = v.link /\ u.me \in EarbudData
        /\ u.me = [v.me EXCEPT !.queue = q]
        /\ Within(u.me.queue, v.me.queue) /\ ~Queued(Connect, u.me.queue)
    BY <1>2, UnpostOK DEF Connect, Signals
  <1>4. ToClient(w) = x
    BY <1>3 DEF ToClient, ClientInit, Worlds, EarbudData
  <1> HIDE DEF v, q
  <1>5. /\ u.me.state = v.me.state /\ u.me.gatt_cid = v.me.gatt_cid /\ u.me.scan = v.me.scan
        /\ u.me.scan_enable = v.me.scan_enable
    BY <1>2, <1>3 DEF Worlds, EarbudData
  <1>6. Core(u.me, u.link) /\ Step(w, u)
    <2>1. Step(v, u) /\ Calmer(v.me, u.me)
      BY <1>3, <1>5 DEF Step, Calmer
    <2> QED
      BY <1>1, <1>2, <2>1, CalmStep DEF Moved, Step
  <1>7. /\ u.me.state = "CLIENT" /\ u.me.gatt_cid
        /\ ~Queued(ClientInit, u.me.queue) /\ ~Queued(Loss, u.me.queue)
    BY <1>1, <1>3, <1>5 DEF Moved, Calmer, Within, ClientStates, AdvertisingStates
  <1> HIDE DEF u
  <1>8. /\ r \in EarbudData /\ Alike(u.me, [r EXCEPT !.timers = u.me.timers])
        /\ "DISCOVERY" \notin r.timers
    BY <1>3 DEF EarbudData, Alike
  <1> HIDE DEF r
  <1>9. y \in Worlds /\ y.me = r /\ y.link = u.link
    BY <1>3, <1>8, EarbudUpdate
  <1> HIDE DEF y
  <1>10. /\ r.state = u.me.state /\ r.gatt_cid = u.me.gatt_cid /\ r.scan = u.me.scan
         /\ r.scan_enable = u.me.scan_enable /\ r.queue = u.me.queue
    BY <1>8 DEF Alike, EarbudData
  <1>11. Core(r, u.link)
    BY <1>6, <1>10 DEF Core, ScanInv, ConnectInv, OrderInv
  <1>12. /\ ClientInit # Stop /\ ClientInit # Report /\ ClientInit # Connect
         /\ ClientInit # Loss /\ \A n : ClientInit # Gatt(n)
    BY DEF Stop, Report, Connect, ClientInit, Loss, Gatt, Signal, Msg
  <1>13. MayPost(r, u.link, ClientInit)
    BY <1>7, <1>10, <1>12 DEF MayPost
  <1>14. ClientInit \in Messages
    BY SignalTypes DEF ClientInit, Signals
  <1> DEFINE z == [r EXCEPT !.queue = Append(@, ClientInit)]
  <1>15. x \in Worlds /\ x.me = z /\ x.link = u.link
    BY <1>9, <1>14, PostOK
  <1>16. /\ z \in EarbudData /\ Core(z, u.link) /\ Alike(r, [z EXCEPT !.queue = r.queue])
         /\ \A n : Queued(n, z.queue) <=> Queued(n, r.queue) \/ n = ClientInit
    BY <1>8, <1>11, <1>13, <1>14, PostCore
  <1> HIDE DEF z, x
  <1>17. z.state = r.state /\ z.gatt_cid = r.gatt_cid /\ z.timers = r.timers
    BY <1>16 DEF Alike, EarbudData
  <1>18. StateInv(z)
    BY <1>3, <1>7, <1>8, <1>10, <1>12, <1>16, <1>17 DEF StateInv, AdvertisingStates
  <1> QED
    BY <1>4, <1>6, <1>15, <1>16, <1>18 DEF Step, EarbudInv

(* The invariant is kept by what changes nothing that it is about. *)
LEMMA AlikeInv ==
    ASSUME NEW w \in Worlds, NEW v, EarbudInv(w.me, w.link), Step(w, v), Alike(w.me, v.me)
    PROVE  EarbudInv(v.me, v.link)
  <1>1. Core(v.me, v.link)
    BY FollowsAlike, CalmStep DEF Follows, EarbudInv
  <1>2. StateInv(v.me)
    BY DEF EarbudInv, StateInv, Alike
  <1> QED
    BY <1>1, <1>2 DEF EarbudInv

(* An update of what the invariant does not speak of keeps it. *)
LEMMA UpdateInv ==
    ASSUME NEW w \in Worlds, NEW r \in EarbudData, EarbudInv(w.me, w.link), Alike(w.me, r)
    PROVE  LET v == [w EXCEPT !.me = r]
           IN  /\ v \in Worlds /\ v.me = r /\ v.link = w.link
               /\ Step(w, v) /\ EarbudInv(v.me, v.link)
  <1> DEFINE v == [w EXCEPT !.me = r]
  <1>1. v \in Worlds /\ v.me = r /\ v.link = w.link
    BY EarbudUpdate
  <1> HIDE DEF v
  <1>2. Step(w, v)
    BY <1>1 DEF Step
  <1>3. EarbudInv(v.me, v.link)
    BY <1>1, <1>2, AlikeInv
  <1> QED
    BY <1>1, <1>2, <1>3 DEF v

(* A search that is over is announced when it was not yet. *)
LEMMA NotifiesOK ==
    ASSUME NEW w \in Worlds, EarbudInv(w.me, w.link), w.me.state = "INITIALISED"
    PROVE  LET v == NotifyIfPending(w)
           IN  Step(w, v) /\ EarbudInv(v.me, v.link)
  <1> DEFINE n == NotifyIfPending(w)
  <1>1. /\ n \in Worlds /\ n.link = w.link
        /\ n.me.timers = IF w.me.selected_role = NoRole THEN w.me.timers
                         ELSE w.me.timers \ {"DISCOVERY"}
        /\ Alike(w.me, [n.me EXCEPT !.timers = w.me.timers,
                                    !.selected_role = w.me.selected_role])
    BY NotifyIfPendingOK
  <1>2. n.me \in EarbudData
    BY <1>1 DEF Worlds
  <1> HIDE DEF n
  <1>3. n.me.state = w.me.state /\ n.me.gatt_cid = w.me.gatt_cid
        /\ n.me.scan = w.me.scan /\ n.me.scan_enable = w.me.scan_enable
        /\ n.me.queue = w.me.queue /\ n.me.confirming_primary = w.me.confirming_primary
    BY <1>1, <1>2 DEF Alike, EarbudData
  <1>4. Step(w, n) /\ Calmer(w.me, n.me)
    BY <1>1, <1>3, WithinSame DEF Step, Calmer
  <1>5. Core(n.me, n.link)
    BY <1>4, CalmStep DEF EarbudInv
  <1>6. StateInv(n.me)
    BY <1>1, <1>3 DEF EarbudInv, StateInv
  <1> QED
    BY <1>4, <1>5, <1>6 DEF EarbudInv, n

(* What is known of an earbud, from its queue before, when m is delivered. *)
Taken(m, r, l) ==
    /\ m = Stop => ~Queued(Stop, r.queue) /\ r.scan = "stopped"
    /\ m = Connect
         => /\ ~Queued(Connect, r.queue) /\ r.scan = "off"
            /\ \/ r.state \in {"DISCOVERED_DEVICE", "INITIALISED"}
               \/ r.confirming_primary /\ r.state \in {"DISCOVER", "DISCOVER_CONNECTABLE"}
    /\ m = Report => ~Queued(Report, r.queue) /\ ~Queued(Connect, r.queue)
    /\ m = ClientInit => ~Queued(ClientInit, r.queue) /\ r.state \in {"CLIENT", "COMPLETED"}
    /\ m = Loss => ~Queued(ClientInit, r.queue)
    /\ m = Gatt(l.id) /\ l.up => ~Queued(Loss, r.queue)

(* The scan manager confirms that scanning has stopped: the scan may be    *)
(* wanted again.                                                           *)
LEMMA HandleStopCfmOK ==
    ASSUME NEW w \in Worlds, EarbudInv(w.me, w.link), Taken(Stop, w.me, w.link)
    PROVE  LET v == HandleStopCfm(w)
           IN  Step(w, v) /\ EarbudInv(v.me, v.link)
  <1> DEFINE r == [w.me EXCEPT !.scan = "off"]
             x == StartScanningIfInactive(r)
             s == IF r.scan_enable THEN x ELSE r
             v == [w EXCEPT !.me = s]
  <1>1. HandleStopCfm(w) = v
    BY DEF HandleStopCfm
  <1>2. ~Queued(Stop, w.me.queue) /\ w.me.scan = "stopped" /\ Core(w.me, w.link)
        /\ StateInv(w.me)
    BY DEF Taken, EarbudInv
  <1>3. /\ r \in EarbudData /\ Alike(w.me, [r EXCEPT !.scan = w.me.scan])
        /\ r.scan = "off" /\ r.scan_enable = w.me.scan_enable /\ r.queue = w.me.queue
        /\ r.state = w.me.state /\ r.gatt_cid = w.me.gatt_cid /\ r.timers = w.me.timers
        /\ r.confirming_primary = w.me.confirming_primary
    BY DEF Worlds, EarbudData, Alike
  <1> HIDE DEF r
  <1>4. Core(r, w.link)
    BY <1>2, <1>3 DEF Core, ScanInv, ConnectInv, OrderInv
  <1>5. StateInv(r) /\ r.state # "CONNECTING_TO_DISCOVERED"
    BY <1>2, <1>3 DEF StateInv
  <1>6. s \in EarbudData /\ EarbudInv(s, w.link)
    <2>1. CASE r.scan_enable
      <3>1. ~Queued(Connect, r.queue)
        BY <1>4, <2>1 DEF Core, ConnectInv
      <3>2. /\ x \in EarbudData /\ Core(x, w.link) /\ Within(x.queue, r.queue)
            /\ Alike(r, [x EXCEPT !.scan = r.scan, !.scan_enable = r.scan_enable,
                                  !.queue = r.queue])
        BY <1>3, <1>4, <3>1, StartScanOK
      <3> HIDE DEF x
      <3>3. x.state = r.state /\ x.gatt_cid = r.gatt_cid /\ x.timers = r.timers
            /\ x.confirming_primary = r.confirming_primary
        BY <3>2 DEF Alike, EarbudData
      <3>4. StateInv(x)
        BY <1>5, <3>2, <3>3 DEF StateInv, Within
      <3> QED
        BY <2>1, <3>2, <3>4 DEF EarbudInv
    <2>2. CASE ~r.scan_enable
      BY <1>3, <1>4, <1>5, <2>2 DEF EarbudInv
    <2> QED
      BY <2>1, <2>2
  <1> HIDE DEF s
  <1>7. v \in Worlds /\ v.me = s /\ v.link = w.link
    BY <1>6, EarbudUpdate
  <1> QED
    BY <1>1, <1>6, <1>7 DEF Step

(* The server is told its role, or the client that the server has taken it. *)
LEMMA HandleRolesOK ==
    ASSUME NEW w \in Worlds, NEW m \in Messages, EarbudInv(w.me, w.link)
    PROVE  /\ m.type = "CHANGE_ROLE_IND"
                => LET v == HandleChangeRoleInd(w, m)
                   IN  Step(w, v) /\ EarbudInv(v.me, v.link)
           /\ m.type = "COMMAND_CFM"
                => LET v == HandleCommandCfm(w, m)
                   IN  Step(w, v) /\ EarbudInv(v.me, v.link)
  <1>1. Step(w, w)
    BY DEF Step
  <1>2. CASE m.type = "CHANGE_ROLE_IND"
    <2>1. Outcome(m.arg, m.link, "server") \in Given
      BY <1>2 DEF Messages, Signals, Outcome, Outcomes, Given
    <2> QED
      BY <1>1, <1>2, <2>1, CompletedOK DEF HandleChangeRoleInd
  <1>3. CASE m.type = "COMMAND_CFM"
    <2>1. Outcome(Other(w.me.remote_role), m.link, "client") \in Given
      BY <1>3 DEF Messages, Signals, Other, Roles, Outcome, Outcomes, Given
    <2> QED
      BY <1>1, <1>3, <2>1, CompletedOK DEF HandleCommandCfm
  <1> QED
    BY <1>2, <1>3

(* A client or a server has nothing queued that would connect it, and its *)
(* search has no timeout.                                                 *)
LEMMA BusyQueue ==
    ASSUME NEW r, NEW l, EarbudInv(r, l), r.state \in ClientStates \cup ServerStates
    PROVE  /\ Core(r, l) /\ ~Queued(Connect, r.queue) /\ "DISCOVERY" \notin r.timers
           /\ r.state \notin {"CLIENT", "COMPLETED"} => ~Queued(ClientInit, r.queue)
  BY DEF EarbudInv, StateInv, ClientStates, ServerStates

(* The GATT client is ready: no confirmation of it is left over from an    *)
(* earlier link.                                                           *)
LEMMA HandleClientInitOK ==
    ASSUME NEW w \in Worlds, NEW e \in Earbud, NEW role \in Roles,
           EarbudInv(w.me, w.link), Taken(ClientInit, w.me, w.link)
    PROVE  LET v == HandleClientInit(w, e, role)
           IN  Step(w, v) /\ EarbudInv(v.me, v.link)
  <1>1. w.me.state \in {"CLIENT", "COMPLETED"} /\ ~Queued(ClientInit, w.me.queue)
    BY DEF Taken
  <1>2. Follows(w, HandleClientInit(w, e, role), ClientGoesOn)
    BY <1>1, ToClientAwaitingEncryptionOK DEF HandleClientInit
  <1>3. Core(w.me, w.link) /\ ~Queued(Connect, w.me.queue) /\ "DISCOVERY" \notin w.me.timers
    BY <1>1, BusyQueue DEF ClientStates
  <1>4. ClientGoesOn \in SUBSET (ClientStates \cup ServerStates)
    BY DEF ClientGoesOn
  <1> QED
    BY <1>1, <1>2, <1>3, <1>4, BusyOK DEF Follows

(* The figure of merit of the server arrives. *)
LEMMA HandleFigureOfMeritOK ==
    ASSUME NEW w \in Worlds, NEW e \in Earbud, NEW m, NEW role \in Roles,
           EarbudInv(w.me, w.link)
    PROVE  LET v == HandleFigureOfMerit(w, e, m, role)
           IN  Step(w, v) /\ EarbudInv(v.me, v.link)
  <1> DEFINE b == (m.arg = "yes")
             r == [w.me EXCEPT !.peer_score = b]
             v == [w EXCEPT !.me = r]
             x == DecideRoles(v, e, role)
  <1>1. HandleFigureOfMerit(w, e, m, role)
          = IF v.me.state = "CLIENT_DECIDING" THEN x ELSE v
    BY DEF HandleFigureOfMerit, Worlds
  <1>2. b \in BOOLEAN
    OBVIOUS
  <1> HIDE DEF b
  <1>3. r \in EarbudData /\ Alike(w.me, r)
    BY <1>2 DEF Worlds, EarbudData, Alike
  <1> HIDE DEF r
  <1>4. v \in Worlds /\ Step(w, v) /\ EarbudInv(v.me, v.link)
    BY <1>3, UpdateInv
  <1> HIDE DEF v
  <1>5. CASE v.me.state = "CLIENT_DECIDING"
    <2>1. Follows(v, x, {"CLIENT_DECIDING", "CLIENT_AWAITING_CONFIRM"})
      BY <1>4, <1>5, DecideRolesOK
    <2>2. /\ Core(v.me, v.link) /\ ~Queued(Connect, v.me.queue)
          /\ "DISCOVERY" \notin v.me.timers /\ ~Queued(ClientInit, v.me.queue)
      BY <1>4, <1>5, BusyQueue DEF ClientStates
    <2>3. EarbudInv(x.me, x.link)
      BY <2>1, <2>2, BusyOK DEF ClientStates
    <2> QED
      BY <1>1, <1>4, <1>5, <2>1, <2>3 DEF Follows, Step
  <1> QED
    BY <1>1, <1>4, <1>5

(* The peer's address is stored. *)
LEMMA StoreAddressOK ==
    ASSUME NEW w \in Worlds, EarbudInv(w.me, w.link)
    PROVE  LET v == [w EXCEPT !.me.peer_addr = TRUE]
           IN  /\ v \in Worlds /\ v.link = w.link /\ Step(w, v) /\ EarbudInv(v.me, v.link)
               /\ Alike(w.me, v.me)
  <1> DEFINE r == [w.me EXCEPT !.peer_addr = TRUE]
  <1>1. [w EXCEPT !.me.peer_addr = TRUE] = [w EXCEPT !.me = r]
    BY DEF Worlds
  <1>2. r \in EarbudData /\ Alike(w.me, r)
    BY DEF Worlds, EarbudData, Alike
  <1> HIDE DEF r
  <1> DEFINE v == [w EXCEPT !.me = r]
  <1>3. /\ v \in Worlds /\ v.me = r /\ v.link = w.link
        /\ Step(w, v) /\ EarbudInv(v.me, v.link)
    BY <1>2, UpdateInv
  <1> HIDE DEF v
  <1> QED
    BY <1>1, <1>2, <1>3 DEF v

(* An advertising report: the scan that made it cannot have another        *)
(* report, nor a connection, queued.                                       *)
LEMMA HandleAdvReportOK ==
    ASSUME NEW w \in Worlds, EarbudInv(w.me, w.link), Taken(Report, w.me, w.link)
    PROVE  LET v == HandleAdvReport(w)
           IN  Step(w, v) /\ EarbudInv(v.me, v.link)
  <1> DEFINE v == [w EXCEPT !.me.peer_addr = TRUE]
             x == ToDiscoveredDevice(v)
  <1>1. HandleAdvReport(w)
          = IF w.me.state \in {"DISCOVER", "DISCOVER_CONNECTABLE"} THEN x ELSE w
    BY DEF HandleAdvReport
  <1>2. v \in Worlds /\ Step(w, v) /\ EarbudInv(v.me, v.link) /\ Alike(w.me, v.me)
    BY StoreAddressOK
  <1> HIDE DEF v
  <1>3. ~Queued(Report, v.me.queue) /\ ~Queued(Connect, v.me.queue) /\ v.me.state = w.me.state
    BY <1>2 DEF Taken, Alike
  <1>4. CASE w.me.state \in {"DISCOVER", "DISCOVER_CONNECTABLE"}
    <2>1. Step(v, x) /\ EarbudInv(x.me, x.link)
      BY <1>2, <1>3, <1>4, ToDiscoveredDeviceOK
    <2> QED
      BY <1>1, <1>2, <1>4, <2>1 DEF Step
  <1> QED
    BY <1>1, <1>4 DEF Step

(* The link comes up. *)
LEMMA HandleTpConnectOK ==
    ASSUME NEW w \in Worlds, NEW m, EarbudInv(w.me, w.link)
    PROVE  LET v == HandleTpConnect(w, m)
           IN  Step(w, v) /\ EarbudInv(v.me, v.link)
  <1> DEFINE v == [w EXCEPT !.me.peer_addr = TRUE]
             x == ToServerAwaitingEncryption(v)
  <1>1. HandleTpConnect(w, m)
          = IF w.me.state = "CONNECTING_TO_DISCOVERED" /\ m.arg = "outgoing" THEN x ELSE v
    BY DEF HandleTpConnect
  <1>2. v \in Worlds /\ Step(w, v) /\ EarbudInv(v.me, v.link) /\ Alike(w.me, v.me)
    BY StoreAddressOK
  <1> HIDE DEF v
  <1>3. CASE w.me.state = "CONNECTING_TO_DISCOVERED"
    <2>1. /\ Core(v.me, v.link) /\ ~Queued(Connect, v.me.queue)
          /\ "DISCOVERY" \notin v.me.timers /\ ~Queued(ClientInit, v.me.queue)
          /\ v.me.state = "CONNECTING_TO_DISCOVERED"
      BY <1>2, <1>3 DEF EarbudInv, StateInv, Alike
    <2>2. Follows(v, x, {"SERVER_AWAITING_ENCRYPTION"})
      BY <1>2, <2>1, ToServerAwaitingEncryptionOK
    <2>3. EarbudInv(x.me, x.link)
      BY <2>1, <2>2, BusyOK DEF ServerStates
    <2> QED
      BY <1>1, <1>2, <2>2, <2>3 DEF Follows, Step
  <1> QED
    BY <1>1, <1>2, <1>3

(* The result of the request for encryption. *)
LEMMA HandleBleSecurityOK ==
    ASSUME NEW w \in Worlds, NEW e \in Earbud, NEW m, EarbudInv(w.me, w.link)
    PROVE  LET v == HandleBleSecurity(w, e, m)
           IN  Step(w, v) /\ EarbudInv(v.me, v.link)
  <1>1. CASE w.me.state = "SERVER_AWAITING_ENCRYPTION"
    <2>1. /\ Core(w.me, w.link) /\ ~Queued(Connect, w.me.queue)
          /\ "DISCOVERY" \notin w.me.timers /\ ~Queued(ClientInit, w.me.queue)
      BY <1>1, BusyQueue DEF ServerStates
    <2> DEFINE x == ToServerPreparing(w, e)
               d == ToDiscover(w)
    <2>2. Follows(w, x, {"SERVER_PREPARING", "SERVER"})
      BY <1>1, ToServerPreparingOK
    <2>3. Step(w, x) /\ EarbudInv(x.me, x.link)
      BY <2>1, <2>2, BusyOK DEF ServerStates, Follows
    <2>4. Step(w, d) /\ EarbudInv(d.me, d.link)
      BY <1>1, <2>1, ToDiscoverOK
    <2>5. HandleBleSecurity(w, e, m) = IF m.arg = "yes" THEN x ELSE d
      BY <1>1 DEF HandleBleSecurity
    <2> HIDE DEF x, d
    <2> QED
      BY <2>3, <2>4, <2>5
  <1>2. CASE w.me.state # "SERVER_AWAITING_ENCRYPTION"
    <2>1. HandleBleSecurity(w, e, m) = w
      BY <1>2 DEF HandleBleSecurity
    <2> QED
      BY <2>1 DEF Step
  <1> QED
    BY <1>1, <1>2

(* The registered client has prepared. *)
LEMMA HandlePreparedOK ==
    ASSUME NEW w \in Worlds, NEW e \in Earbud, NEW role \in Roles, EarbudInv(w.me, w.link)
    PROVE  LET v == HandlePrepared(w, e, role)
           IN  Step(w, v) /\ EarbudInv(v.me, v.link)
  <1> DEFINE x == ToServer(w, e)
             d == ToClientDeciding(w, e, role)
  <1>1. HandlePrepared(w, e, role) = CASE w.me.state = "SERVER_PREPARING" -> x
                                       [] w.me.state = "CLIENT_PREPARING" -> d
                                       [] OTHER -> w
    BY DEF HandlePrepared
  <1>2. CASE w.me.state = "SERVER_PREPARING"
    <2>1. /\ Core(w.me, w.link) /\ ~Queued(Connect, w.me.queue)
          /\ "DISCOVERY" \notin w.me.timers /\ ~Queued(ClientInit, w.me.queue)
      BY <1>2, BusyQueue DEF ServerStates
    <2>2. Follows(w, x, {"SERVER"})
      BY <1>2, ToServerOK
    <2>3. Step(w, x) /\ EarbudInv(x.me, x.link)
      BY <2>1, <2>2, BusyOK DEF ServerStates, Follows
    <2> QED
      BY <1>1, <1>2, <2>3
  <1>3. CASE w.me.state = "CLIENT_PREPARING"
    <2>1. /\ Core(w.me, w.link) /\ ~Queued(Connect, w.me.queue)
          /\ "DISCOVERY" \notin w.me.timers /\ ~Queued(ClientInit, w.me.queue)
      BY <1>3, BusyQueue DEF ClientStates
    <2>2. Follows(w, d, {"CLIENT_DECIDING", "CLIENT_AWAITING_CONFIRM"})
      BY <1>3, ToClientDecidingOK
    <2>3. Step(w, d) /\ EarbudInv(d.me, d.link)
      BY <2>1, <2>2, BusyOK DEF ClientStates, Follows
    <2> QED
      BY <1>1, <1>3, <2>3
  <1>4. CASE w.me.state \notin {"SERVER_PREPARING", "CLIENT_PREPARING"}
    BY <1>1, <1>4 DEF Step
  <1> QED
    BY <1>2, <1>3, <1>4

(* A server that knows the connection. *)
LEMMA ServerKnowsOK ==
    ASSUME NEW w \in Worlds, NEW r \in EarbudData, EarbudInv(w.me, w.link),
           Alike(w.me, [r EXCEPT !.gatt_cid = w.me.gatt_cid]), w.me.state \in ServerStates
    PROVE  LET v == [w EXCEPT !.me = r]
           IN  v \in Worlds /\ Step(w, v) /\ EarbudInv(v.me, v.link)
  <1> DEFINE v == [w EXCEPT !.me = r]
  <1>1. v \in Worlds /\ v.me = r /\ v.link = w.link
    BY EarbudUpdate
  <1> HIDE DEF v
  <1>2. /\ r.state = w.me.state /\ r.timers = w.me.timers /\ r.queue = w.me.queue
        /\ r.scan = w.me.scan /\ r.scan_enable = w.me.scan_enable
    BY DEF Alike, EarbudData
  <1>3. Core(r, w.link)
    BY <1>2 DEF EarbudInv, Core, ScanInv, ConnectInv, OrderInv
  <1>4. StateInv(r)
    BY <1>2 DEF EarbudInv, StateInv, ServerStates, AdvertisingStates
  <1> QED
    BY <1>1, <1>3, <1>4 DEF Step, EarbudInv, v

(* GATT comes up on a link whose loss is not queued. *)
LEMMA GattConnectOK ==
    ASSUME NEW w \in Worlds, NEW e \in Earbud, NEW m, EarbudInv(w.me, w.link),
           w.link.up /\ w.link.id = m.link => ~Queued(Loss, w.me.queue)
    PROVE  LET v == GattConnect(w, e, m)
           IN  Step(w, v) /\ EarbudInv(v.me, v.link)
  <1> DEFINE r == [w.me EXCEPT !.gatt_cid = TRUE, !.peer_addr = TRUE]
             k == [w EXCEPT !.me = r]
             c == ToClient(k)
             x == SetServerScore(k, e, FALSE)
             ours == w.link.up /\ w.link.id = m.link
             serving == w.me.state \in {"SERVER_AWAITING_ENCRYPTION", "SERVER"}
             known == [w EXCEPT !.me.gatt_cid = TRUE, !.me.peer_addr = TRUE]
  <1>1. known = k
    BY DEF Worlds
  <1>2. GattConnect(w, e, m)
          = IF ~ours THEN w
            ELSE CASE w.me.state \in AdvertisingStates -> ToClient(known)
                   [] serving -> IF w.me.figure_of_merit THEN SetServerScore(known, e, FALSE)
                                 ELSE known
                   [] OTHER -> w
    BY DEF GattConnect
  <1>a. w.me.state \in AdvertisingStates => ~serving
    BY DEF AdvertisingStates
  <1>3. /\ r \in EarbudData /\ Alike(w.me, [r EXCEPT !.gatt_cid = w.me.gatt_cid])
        /\ r.gatt_cid = TRUE
    BY DEF Worlds, EarbudData, Alike
  <1> HIDE DEF r, ours, known
  <1>4. k \in Worlds /\ k.me = r /\ k.link = w.link
    BY <1>3, EarbudUpdate
  <1>5. CASE ours /\ w.me.state \in AdvertisingStates
    <2>1. /\ r.state = w.me.state /\ r.queue = w.me.queue
          /\ r.scan = w.me.scan /\ r.scan_enable = w.me.scan_enable
      BY <1>3 DEF Alike, EarbudData
    <2>2. Core(r, w.link)
      BY <2>1 DEF EarbudInv, Core, ScanInv, ConnectInv, OrderInv
    <2>3. ~Queued(ClientInit, r.queue) /\ ~Queued(Loss, r.queue)
      BY <1>5, <2>1 DEF EarbudInv, StateInv, AdvertisingStates, ours
    <2>4. Step(k, c) /\ EarbudInv(c.me, c.link)
      <3> HIDE DEF k
      <3> QED
        BY <1>3, <1>4, <1>5, <2>1, <2>2, <2>3, ToClientOK
    <2>5. GattConnect(w, e, m) = c
      <3> HIDE DEF serving
      <3> QED
        BY <1>a, <1>1, <1>2, <1>5
    <2> HIDE DEF c, k
    <2> QED
      BY <1>4, <2>4, <2>5 DEF Step
  <1>6. CASE ours /\ w.me.state \notin AdvertisingStates /\ serving
    <2>1. k \in Worlds /\ Step(w, k) /\ EarbudInv(k.me, k.link)
      BY <1>3, <1>6, ServerKnowsOK DEF ServerStates
    <2> HIDE DEF k
    <2>2. Follows(k, x, {k.me.state}) /\ Alike(k.me, x.me)
      BY <2>1, SetServerScoreOK
    <2>3. EarbudInv(x.me, x.link) /\ Step(k, x)
      BY <2>1, <2>2, AlikeInv DEF Follows
    <2>4. GattConnect(w, e, m) = IF w.me.figure_of_merit THEN x ELSE k
      BY <1>1, <1>2, <1>6
    <2> HIDE DEF x
    <2> QED
      BY <2>1, <2>3, <2>4 DEF Step
  <1> HIDE DEF serving
  <1>7. CASE ~ours \/ (w.me.state \notin AdvertisingStates /\ ~serving)
    <2>1. GattConnect(w, e, m) = w
      BY <1>2, <1>7
    <2> QED
      BY <2>1 DEF Step
  <1> QED
    BY <1>a, <1>5, <1>6, <1>7 DEF serving

(* The link is encrypted. *)
LEMMA HandleEncryptionChangeOK ==
    ASSUME NEW w \in Worlds, NEW e \in Earbud, NEW role \in Roles, EarbudInv(w.me, w.link)
    PROVE  LET v == HandleEncryptionChange(w, e, role)
           IN  Step(w, v) /\ EarbudInv(v.me, v.link)
  <1> DEFINE r == [w.me EXCEPT !.gatt_encrypted = TRUE]
             v == [w EXCEPT !.me = r]
             x == ToClientPreparing(v, e, role)
  <1>1. HandleEncryptionChange(w, e, role)
          = IF v.me.state = "CLIENT_AWAITING_ENCRYPTION" THEN x ELSE v
    BY DEF HandleEncryptionChange, Worlds
  <1>2. r \in EarbudData /\ Alike(w.me, r)
    BY DEF Worlds, EarbudData, Alike
  <1> HIDE DEF r
  <1>3. v \in Worlds /\ Step(w, v) /\ EarbudInv(v.me, v.link)
    BY <1>2, UpdateInv
  <1> HIDE DEF v
  <1>4. CASE v.me.state = "CLIENT_AWAITING_ENCRYPTION"
    <2>1. Follows(v, x, ClientGoesOn)
      BY <1>3, <1>4, ToClientPreparingOK
    <2>2. /\ Core(v.me, v.link) /\ ~Queued(Connect, v.me.queue)
          /\ "DISCOVERY" \notin v.me.timers /\ ~Queued(ClientInit, v.me.queue)
      BY <1>3, <1>4, BusyQueue DEF ClientStates
    <2>3. ClientGoesOn \in SUBSET (ClientStates \cup ServerStates)
      BY DEF ClientGoesOn
    <2>4. EarbudInv(x.me, x.link)
      BY <2>1, <2>2, <2>3, BusyOK
    <2> QED
      BY <1>1, <1>3, <1>4, <2>1, <2>4 DEF Follows, Step
  <1> QED
    BY <1>1, <1>3, <1>4

(* The link is lost, in any state: a search goes on, and a link in use is  *)
(* given up.                                                               *)
LEMMA HandleDisconnectedOK ==
    ASSUME NEW w \in Worlds, EarbudInv(w.me, w.link), Taken(Loss, w.me, w.link)
    PROVE  LET v == HandleDisconnected(w)
           IN  Step(w, v) /\ EarbudInv(v.me, v.link)
  <1> DEFINE r == [w.me EXCEPT !.gatt_cid = FALSE]
             v == [w EXCEPT !.me = r]
             u == [w EXCEPT !.me.gatt_cid = FALSE]
             state == w.me.state
             lost == \/ state \in {"DISCOVER_CONNECTABLE", "CONNECTING_TO_DISCOVERED"}
                     \/ state \in ClientStates \ {"COMPLETED"}
                     \/ state \in ServerStates \ {"SERVER_AWAITING_COMPLETION"}
  <1>1. u = v
    BY DEF Worlds
  <1>2. HandleDisconnected(w)
          = IF ~w.me.peer_addr THEN w
            ELSE CASE lost -> ToDiscover(w)
                   [] state = "INITIALISED" -> NotifyIfPending(w)
                   [] state = "SERVER_AWAITING_COMPLETION" -> ToCompleted(u)
                   [] state = "COMPLETED" -> SelectStateAfterCompletion(u)
                   [] OTHER -> w
    BY DEF HandleDisconnected
  <1>a. lost => state \notin {"INITIALISED", "SERVER_AWAITING_COMPLETION", "COMPLETED"}
    BY DEF ClientStates, ServerStates
  <1>3. ~Queued(ClientInit, w.me.queue) /\ Core(w.me, w.link) /\ StateInv(w.me)
    BY DEF Taken, EarbudInv
  <1>4. /\ r \in EarbudData /\ r.gatt_cid = FALSE /\ r.state = w.me.state
        /\ r.queue = w.me.queue /\ r.timers = w.me.timers
        /\ r.scan = w.me.scan /\ r.scan_enable = w.me.scan_enable
    BY DEF Worlds, EarbudData
  <1> HIDE DEF r, u
  <1>5. v \in Worlds /\ v.me = r /\ v.link = w.link
    BY <1>4, EarbudUpdate
  <1>6. Core(r, w.link)
    BY <1>3, <1>4 DEF Core, ScanInv, ConnectInv, OrderInv
  <1> HIDE DEF v
  <1>7. Step(w, v)
    BY <1>5 DEF Step
  <1>8. CASE ~w.me.peer_addr
    <2>1. HandleDisconnected(w) = w
      BY <1>2, <1>8
    <2> QED
      BY <2>1 DEF Step
  <1>9. CASE w.me.peer_addr /\ lost
    <2>1. /\ state \notin {"DISCOVER", "PANIC"}
          /\ w.me.confirming_primary \/ ~Queued(Connect, w.me.queue)
          /\ "DISCOVERY" \in w.me.timers => ~w.me.confirming_primary
      BY <1>3, <1>9 DEF StateInv, ClientStates, ServerStates
    <2>2. Step(w, ToDiscover(w)) /\ EarbudInv(ToDiscover(w).me, ToDiscover(w).link)
      BY <1>3, <2>1, ToDiscoverOK
    <2>3. HandleDisconnected(w) = ToDiscover(w)
      <3> HIDE DEF lost
      <3> QED
        BY <1>a, <1>2, <1>9
    <2> QED
      BY <2>2, <2>3
  <1> HIDE DEF lost
  <1>10. CASE w.me.peer_addr /\ ~lost /\ state = "INITIALISED"
    <2>1. HandleDisconnected(w) = NotifyIfPending(w)
      BY <1>2, <1>10
    <2> QED
      BY <1>10, <2>1, NotifiesOK
  <1>11. CASE w.me.peer_addr /\ ~lost /\ state = "SERVER_AWAITING_COMPLETION"
    <2> DEFINE x == ToCompleted(v)
    <2>1. HandleDisconnected(w) = x
      BY <1>1, <1>2, <1>11
    <2>2. ~Queued(ClientInit, r.queue) /\ "DISCOVERY" \notin r.timers
      BY <1>3, <1>4, <1>11 DEF StateInv
    <2>3. Step(v, x) /\ EarbudInv(x.me, x.link)
      BY <1>4, <1>5, <1>6, <1>11, <2>2, ToCompletedOK
    <2> HIDE DEF x
    <2> QED
      BY <1>7, <2>1, <2>3 DEF Step
  <1>12. CASE w.me.peer_addr /\ ~lost /\ state = "COMPLETED"
    <2> DEFINE x == SelectStateAfterCompletion(v)
    <2>1. HandleDisconnected(w) = x
      BY <1>1, <1>2, <1>12
    <2>2. ~Queued(ClientInit, r.queue) /\ "DISCOVERY" \notin r.timers
      BY <1>3, <1>4, <1>12 DEF StateInv
    <2>3. Step(v, x) /\ EarbudInv(x.me, x.link)
      BY <1>4, <1>5, <1>6, <1>12, <2>2, SelectStateOK
    <2> HIDE DEF x
    <2> QED
      BY <1>7, <2>1, <2>3 DEF Step
  <1>13. CASE /\ w.me.peer_addr /\ ~lost
              /\ state \notin {"INITIALISED", "SERVER_AWAITING_COMPLETION", "COMPLETED"}
    <2>1. HandleDisconnected(w) = w
      BY <1>2, <1>13
    <2> QED
      BY <2>1 DEF Step
  <1> QED
    BY <1>8, <1>9, <1>10, <1>11, <1>12, <1>13

(* Every message the search handles only while it is active keeps the      *)
(* invariant.                                                              *)
LEMMA HandleActiveOK ==
    ASSUME NEW w \in Worlds, NEW e \in Earbud, NEW m \in Messages, NEW role \in Roles,
           EarbudInv(w.me, w.link), Taken(m, w.me, w.link), w.me.state # "INITIALISED",
           m.type \notin {"STOP_CFM", "CANCEL_FIND_ROLE", "CONNECTION_IND", "GATT_CONNECT",
                          "ENCRYPTION_CHANGE_IND"}
    PROVE  LET v == HandleActive(w, e, m, role)
           IN  Step(w, v) /\ EarbudInv(v.me, v.link)
  <1> DEFINE v == HandleActive(w, e, m, role)
             Kept == Step(w, v) /\ EarbudInv(v.me, v.link)
  <1> SUFFICES Kept
    OBVIOUS
  <1> HIDE DEF v
  <1>1. CASE m.type = "CLIENT_INIT_CFM"
    <2>1. m = ClientInit
      BY <1>1 DEF Messages, ClientInit, Signal, Msg, Signals
    <2>2. v = HandleClientInit(w, e, role)
      BY <1>1 DEF v, HandleActive
    <2> QED
      BY <2>1, <2>2, HandleClientInitOK
  <1>2. CASE m.type = "CHANGE_ROLE_IND"
    <2>1. v = HandleChangeRoleInd(w, m)
      BY <1>2 DEF v, HandleActive
    <2> QED
      BY <1>2, <2>1, HandleRolesOK
  <1>3. CASE m.type = "COMMAND_CFM"
    <2>1. v = HandleCommandCfm(w, m)
      BY <1>3 DEF v, HandleActive
    <2> QED
      BY <1>3, <2>1, HandleRolesOK
  <1>4. CASE m.type = "FIGURE_OF_MERIT_IND"
    <2>1. v = HandleFigureOfMerit(w, e, m, role)
      BY <1>4 DEF v, HandleActive
    <2> QED
      BY <2>1, HandleFigureOfMeritOK
  <1>5. CASE m.type = "ADV_REPORT_IND"
    <2>1. m = Report
      BY <1>5 DEF Messages, Report, Signal, Msg, Signals
    <2>2. v = HandleAdvReport(w)
      BY <1>5 DEF v, HandleActive
    <2> QED
      BY <2>1, <2>2, HandleAdvReportOK
  <1>6. CASE m.type = "BLE_SECURITY_CFM"
    <2>1. v = HandleBleSecurity(w, e, m)
      BY <1>6 DEF v, HandleActive
    <2> QED
      BY <2>1, HandleBleSecurityOK
  <1>7. CASE m.type = "TP_CONNECT_IND"
    <2>1. v = HandleTpConnect(w, m)
      BY <1>7 DEF v, HandleActive
    <2> QED
      BY <2>1, HandleTpConnectOK
  <1>8. CASE m.type = "CONNECT_TO_PEER"
    <2>1. m = Connect
      BY <1>8 DEF Messages, Connect, Signal, Msg, Signals
    <2>2. v = ToConnectingToDiscovered(w)
      BY <1>8 DEF v, HandleActive
    <2>3. /\ ~Queued(Connect, w.me.queue) /\ w.me.scan = "off"
          /\ \/ w.me.state = "DISCOVERED_DEVICE"
             \/ /\ w.me.confirming_primary
                /\ w.me.state \in {"DISCOVER", "DISCOVER_CONNECTABLE"}
      BY <2>1 DEF Taken
    <2> QED
      BY <2>2, <2>3, ToConnectingOK
  <1>9. CASE m.type = "PREPARED"
    <2>1. v = HandlePrepared(w, e, role)
      BY <1>9 DEF v, HandleActive
    <2> QED
      BY <2>1, HandlePreparedOK
  <1>10. m.type \in Signals \cup {"TP_CONNECT_IND", "BLE_SECURITY_CFM", "FIGURE_OF_MERIT_IND",
                                "GATT_CONNECT", "CHANGE_ROLE_IND", "COMMAND_CFM"}
    BY DEF Messages
  <1> QED
    BY <1>1, <1>2, <1>3, <1>4, <1>5, <1>6, <1>7, <1>8, <1>9, <1>10 DEF Signals

(* Every message the earbud takes from its queue keeps the invariant. *)
LEMMA HandleOK ==
    ASSUME NEW w \in Worlds, NEW e \in Earbud, NEW m \in Messages, NEW role \in Roles,
           EarbudInv(w.me, w.link), Taken(m, w.me, w.link)
    PROVE  LET v == Handle(w, e, m, role)
           IN  Step(w, v) /\ EarbudInv(v.me, v.link)
  <1> DEFINE v == Handle(w, e, m, role)
             Kept == Step(w, v) /\ EarbudInv(v.me, v.link)
             Others == {"STOP_CFM", "CANCEL_FIND_ROLE", "CONNECTION_IND", "GATT_CONNECT",
                        "ENCRYPTION_CHANGE_IND"}
  <1> SUFFICES Kept
    OBVIOUS
  <1> HIDE DEF v
  <1>1. CASE m.type = "STOP_CFM"
    <2>1. m = Stop
      BY <1>1 DEF Messages, Stop, Signal, Msg, Signals
    <2>2. v = HandleStopCfm(w)
      BY <1>1 DEF v, Handle
    <2> QED
      BY <2>1, <2>2, HandleStopCfmOK
  <1>2. CASE m.type = "CANCEL_FIND_ROLE"
    <2>1. v = Completed(w, Alone("CANCELLED"))
      BY <1>2 DEF v, Handle
    <2>2. Alone("CANCELLED") \in Given
      BY DEF Alone, Outcome, Outcomes, Given
    <2> QED
      BY <2>1, <2>2, CompletedOK
  <1>3. CASE m.type = "CONNECTION_IND"
    <2>1. m = Loss
      BY <1>3 DEF Messages, Loss, Signal, Msg, Signals
    <2>2. v = HandleDisconnected(w)
      BY <1>3 DEF v, Handle
    <2> QED
      BY <2>1, <2>2, HandleDisconnectedOK
  <1>4. CASE m.type = "GATT_CONNECT"
    <2>1. m = Gatt(m.link)
      BY <1>4 DEF Messages, Gatt, Msg, Signals
    <2>2. v = GattConnect(w, e, m)
      BY <1>4 DEF v, Handle
    <2>3. w.link.up /\ w.link.id = m.link => ~Queued(Loss, w.me.queue)
      BY <2>1 DEF Taken
    <2> QED
      BY <2>2, <2>3, GattConnectOK
  <1>5. CASE m.type = "ENCRYPTION_CHANGE_IND"
    <2>1. v = HandleEncryptionChange(w, e, role)
      BY <1>5 DEF v, Handle
    <2> QED
      BY <2>1, HandleEncryptionChangeOK
  <1>6. CASE m.type \notin Others /\ w.me.state = "INITIALISED"
    <2>1. v = w
      BY <1>6 DEF v, Handle
    <2> QED
      BY <2>1 DEF Step
  <1>7. CASE m.type \notin Others /\ w.me.state # "INITIALISED"
    <2>1. v = HandleActive(w, e, m, role)
      BY <1>7 DEF v, Handle
    <2> QED
      BY <1>7, <2>1, HandleActiveOK
  <1> QED
    BY <1>1, <1>2, <1>3, <1>4, <1>5, <1>6, <1>7

(* Every timer that expires keeps the invariant. *)
LEMMA HandleTimeoutOK ==
    ASSUME NEW w \in Worlds, NEW e \in Earbud, NEW t \in Timers, EarbudInv(w.me, w.link)
    PROVE  LET v == HandleTimeout(w, e, t)
           IN  Step(w, v) /\ EarbudInv(v.me, v.link)
  <1> DEFINE v == HandleTimeout(w, e, t)
             state == w.me.state
             Kept == Step(w, v) /\ EarbudInv(v.me, v.link)
  <1> SUFFICES Kept
    OBVIOUS
  <1> HIDE DEF v
  <1>1. CASE state # "INITIALISED" /\ t = "DISCOVERY"
    <2> DEFINE r == [w.me EXCEPT !.role_timeout = FALSE]
               u == [w EXCEPT !.me = r]
               o == Alone("ACTING_PRIMARY")
               n == NotifyImmediately(u, o)
    <2>1. v = n
      BY <1>1 DEF v, HandleTimeout, Worlds
    <2>2. r \in EarbudData /\ Alike(w.me, r)
      BY DEF Worlds, EarbudData, Alike
    <2> HIDE DEF r
    <2>3. u \in Worlds /\ Step(w, u) /\ EarbudInv(u.me, u.link)
      BY <2>2, UpdateInv
    <2> HIDE DEF u
    <2>4. o \in Announced
      BY DEF Alone, Outcome, Outcomes, Announced
    <2> HIDE DEF o
    <2>5. /\ n \in Worlds /\ n.link = u.link /\ n.me.timers = u.me.timers \ {"DISCOVERY"}
          /\ Alike(u.me, [n.me EXCEPT !.timers = u.me.timers])
      BY <2>3, <2>4, NotifyImmediatelyOK
    <2>6. n.me \in EarbudData
      BY <2>5 DEF Worlds
    <2> HIDE DEF n
    <2>7. /\ n.me.state = u.me.state /\ n.me.gatt_cid = u.me.gatt_cid /\ n.me.scan = u.me.scan
          /\ n.me.scan_enable = u.me.scan_enable /\ n.me.queue = u.me.queue
          /\ n.me.confirming_primary = u.me.confirming_primary
      BY <2>5, <2>6 DEF Alike, EarbudData
    <2>8. Step(u, n) /\ Calmer(u.me, n.me)
      BY <2>5, <2>7, WithinSame DEF Step, Calmer
    <2>9. Core(n.me, n.link)
      BY <2>3, <2>8, CalmStep DEF EarbudInv
    <2>10. StateInv(n.me)
      BY <2>3, <2>5, <2>7 DEF EarbudInv, StateInv
    <2> QED
      BY <2>1, <2>3, <2>8, <2>9, <2>10 DEF Step, EarbudInv
  <1>2. CASE t = "ADVERT_BACKOFF" /\ state = "DISCOVER"
    <2>1. v = ToDiscoverConnectable(w)
      BY <1>2 DEF v, HandleTimeout
    <2> QED
      BY <1>2, <2>1, ToDiscoverConnectableOK
  <1>3. CASE t = "PEER_CONNECTION" /\ state = "CONNECTING_TO_DISCOVERED"
    <2>1. v = ToDiscover(w)
      BY <1>3 DEF v, HandleTimeout
    <2>2. /\ Core(w.me, w.link) /\ ~Queued(Connect, w.me.queue)
          /\ "DISCOVERY" \notin w.me.timers /\ ~Queued(ClientInit, w.me.queue)
      BY <1>3 DEF EarbudInv, StateInv
    <2> QED
      BY <1>3, <2>1, <2>2, ToDiscoverOK
  <1>4. CASE t = "NOT_DISCONNECTED" /\ state = "SERVER_AWAITING_COMPLETION"
    <2> DEFINE r == [w.me EXCEPT !.gatt_cid = FALSE]
               u == [w EXCEPT !.me = r]
               x == ToCompleted(u)
    <2>1. v = x
      BY <1>4 DEF v, HandleTimeout, Worlds
    <2>2. r \in EarbudData /\ Alike(w.me, [r EXCEPT !.gatt_cid = w.me.gatt_cid])
      BY DEF Worlds, EarbudData, Alike
    <2> HIDE DEF r
    <2>3. u \in Worlds /\ Step(w, u) /\ EarbudInv(u.me, u.link)
      BY <1>4, <2>2, ServerKnowsOK DEF ServerStates
    <2>4. u.me = r /\ r.state = w.me.state
      BY <2>2, EarbudUpdate DEF Alike, EarbudData
    <2> HIDE DEF u
    <2>5. /\ Core(u.me, u.link) /\ ~Queued(Connect, u.me.queue)
          /\ "DISCOVERY" \notin u.me.timers /\ ~Queued(ClientInit, u.me.queue)
      BY <1>4, <2>3, <2>4, BusyQueue DEF ServerStates
    <2>6. Step(u, x) /\ EarbudInv(x.me, x.link)
      BY <1>4, <2>3, <2>4, <2>5, ToCompletedOK
    <2> QED
      BY <2>1, <2>3, <2>6 DEF Step
  <1>5. CASE t = "SERVER_ROLE_SELECTED" /\ state = "SERVER"
    <2>1. v = DisconnectLink(w)
      BY <1>5 DEF v, HandleTimeout
    <2> QED
      BY <2>1, DisconnectLinkOK, AlikeInv
  <1>6. CASE t = "NO_FOM_RECEIVED" /\ state = "CLIENT_DECIDING"
    <2> DEFINE type == "ENABLE_NOTIFICATIONS"
               arg == ""
    <2>1. v = Send(w, Peer(e), type, arg)
      BY <1>6 DEF v, HandleTimeout
    <2>2. Msg(type, arg, w.link.id) \in Pdus /\ Peer(e) \in Earbud
      BY LinkIsNat, PduTypes, PeerOK
    <2> HIDE DEF type, arg
    <2>3. Step(w, v) /\ v.me = w.me
      BY <2>1, <2>2, SendOK
    <2> QED
      BY <2>3, AlikeInv DEF Alike
  <1>7. CASE v = w
    BY <1>7 DEF Step
  <1>8. \/ state # "INITIALISED" /\ t = "DISCOVERY"
        \/ t = "ADVERT_BACKOFF" /\ state = "DISCOVER"
        \/ t = "PEER_CONNECTION" /\ state = "CONNECTING_TO_DISCOVERED"
        \/ t = "NOT_DISCONNECTED" /\ state = "SERVER_AWAITING_COMPLETION"
        \/ t = "SERVER_ROLE_SELECTED" /\ state = "SERVER"
        \/ t = "NO_FOM_RECEIVED" /\ state = "CLIENT_DECIDING"
        \/ v = w
    BY DEF v, HandleTimeout
  <1> QED
    BY <1>1, <1>2, <1>3, <1>4, <1>5, <1>6, <1>7, <1>8

(* The queue without a message that is delivered out of it. *)
LEMMA TakenFrom ==
    ASSUME NEW q \in Seq(Messages), NEW k \in DOMAIN q
    PROVE  /\ RemoveAt(q, k) \in Seq(Messages) /\ Within(RemoveAt(q, k), q)
           /\ Once(q[k], q) => ~Queued(q[k], RemoveAt(q, k))
  <1> DEFINE r == RemoveAt(q, k)
             f == [i \in DOMAIN r |-> IF i < k THEN i ELSE i + 1]
  <1>1. DOMAIN q = 1 .. Len(q) /\ Len(q) \in Nat /\ k \in 1 .. Len(q)
    OBVIOUS
  <1>2. /\ r \in Seq(Messages) /\ DOMAIN r = 1 .. Len(q) - 1
        /\ \A i \in 1 .. Len(q) - 1 : r[i] = IF i < k THEN q[i] ELSE q[i + 1]
    BY <1>1, RemoveAtQueue
  <1>3. /\ \A m : Once(m, q) => Once(m, r)
        /\ Once(q[k], q) => ~Queued(q[k], r)
        /\ \A m : Queued(m, r) => Queued(m, q)
    BY <1>1, DeliverQueue
  <1> HIDE DEF r
  <1>4. f \in [DOMAIN r -> DOMAIN q] /\ \A i \in DOMAIN r : r[i] = q[f[i]]
    BY <1>1, <1>2
  <1>5. \A i, j \in DOMAIN r : i < j => f[i] < f[j]
    BY <1>1, <1>2
  <1>6. Thinned(r, q)
    BY <1>4, <1>5 DEF Thinned
  <1>7. \A m, n : Ahead(m, n, q) => Ahead(m, n, r)
    BY <1>2, <1>6, ThinnedQueue
  <1> QED
    BY <1>2, <1>3, <1>7 DEF Within, r

(* Taking the first message that can be delivered keeps the invariant, and *)
(* tells its handler what Taken says.                                      *)
LEMMA DeliverTakes ==
    ASSUME NEW w \in Worlds, EarbudInv(w.me, w.link), NEW k \in DOMAIN w.me.queue,
           w.me.queue[k].type = "CONNECT_TO_PEER" => w.me.scan = "off",
           \A j \in 1 .. k - 1 : w.me.queue[j].type = "CONNECT_TO_PEER"
    PROVE  LET v == [w EXCEPT !.me.queue = RemoveAt(@, k)]
           IN  /\ v \in Worlds /\ Step(w, v) /\ EarbudInv(v.me, v.link)
               /\ Taken(w.me.queue[k], v.me, v.link) /\ w.me.queue[k] \in Messages
  <1> DEFINE q == w.me.queue
             p == RemoveAt(q, k)
             r == [w.me EXCEPT !.queue = p]
             v == [w EXCEPT !.me = r]
             m == q[k]
  <1>1. q \in Seq(Messages) /\ m \in Messages
    BY DEF Worlds, EarbudData
  <1>2. [w EXCEPT !.me.queue = RemoveAt(@, k)] = v
    BY DEF Worlds
  <1>3. p \in Seq(Messages) /\ Within(p, q) /\ (Once(m, q) => ~Queued(m, p))
    BY <1>1, TakenFrom
  <1>4. Queued(m, q)
    BY DEF Queued
  <1>5. \A a, b : Ahead(a, b, q) /\ b = m /\ Queued(a, q) => a.type = "CONNECT_TO_PEER"
    <2> SUFFICES ASSUME NEW a, Ahead(a, m, q), Queued(a, q) PROVE a.type = "CONNECT_TO_PEER"
      OBVIOUS
    <2>1. PICK j \in DOMAIN q : q[j] = a
      BY DEF Queued
    <2>2. j < k /\ j \in 1 .. k - 1
      BY <1>1, <2>1 DEF Ahead
    <2> QED
      BY <2>1, <2>2
  <1> HIDE DEF p
  <1>6. /\ r \in EarbudData /\ r.queue = p /\ r.state = w.me.state /\ r.timers = w.me.timers
        /\ r.gatt_cid = w.me.gatt_cid /\ r.scan = w.me.scan /\ r.scan_enable = w.me.scan_enable
        /\ r.confirming_primary = w.me.confirming_primary
    BY <1>3 DEF Worlds, EarbudData
  <1> HIDE DEF r
  <1>7. v \in Worlds /\ v.me = r /\ v.link = w.link
    BY <1>6, EarbudUpdate
  <1> HIDE DEF v, m, q
  <1>8. Step(w, v) /\ Calmer(w.me, v.me)
    BY <1>3, <1>6, <1>7 DEF Step, Calmer, q
  <1>9. Core(v.me, v.link)
    BY <1>8, CalmStep DEF EarbudInv
  <1>10. StateInv(v.me)
    BY <1>3, <1>6, <1>7 DEF EarbudInv, StateInv, Within, q
  <1>11. ClientInit.type # "CONNECT_TO_PEER" /\ Loss.type # "CONNECT_TO_PEER"
         /\ Connect.type = "CONNECT_TO_PEER"
    BY DEF ClientInit, Loss, Connect, Signal, Msg
  <1>12. Core(w.me, w.link) /\ StateInv(w.me)
    BY DEF EarbudInv
  <1>13. m = Stop => ~Queued(Stop, p) /\ w.me.scan = "stopped"
    BY <1>3, <1>4, <1>12 DEF Core, ScanInv, q
  <1>14. m = Connect
           => /\ ~Queued(Connect, p) /\ w.me.scan = "off"
              /\ \/ w.me.state \in {"DISCOVERED_DEVICE", "INITIALISED"}
                 \/ /\ w.me.confirming_primary
                    /\ w.me.state \in {"DISCOVER", "DISCOVER_CONNECTABLE"}
    BY <1>3, <1>4, <1>11, <1>12 DEF Core, ConnectInv, StateInv, q, m
  <1>15. m = Report => ~Queued(Report, p) /\ ~Queued(Connect, p)
    BY <1>3, <1>4, <1>12 DEF Core, ScanInv, ConnectInv, Within, q
  <1>16. m = ClientInit
           => ~Queued(ClientInit, p) /\ w.me.state \in {"CLIENT", "COMPLETED"}
    BY <1>3, <1>4, <1>12 DEF Core, OrderInv, StateInv, q
  <1>17. m = Loss => ~Queued(ClientInit, p)
    BY <1>3, <1>5, <1>11, <1>12 DEF Core, OrderInv, Within, q
  <1>18. m = Gatt(w.link.id) /\ w.link.up => ~Queued(Loss, p)
    BY <1>3, <1>5, <1>11, <1>12 DEF Core, OrderInv, Within, q
  <1>19. Taken(m, v.me, v.link)
    BY <1>6, <1>7, <1>13, <1>14, <1>15, <1>16, <1>17, <1>18 DEF Taken
  <1> QED
    BY <1>1, <1>2, <1>7, <1>8, <1>9, <1>10, <1>19 DEF EarbudInv, m, q

-----------------------------------------------------------------------------
(* The steps of the specification. *)

(* The inductive invariant. *)
Inv == TypeOK /\ \A e \in Earbud : EarbudInv(eb[e], link)

(* The world an earbud acts on. *)
LEMMA WorldOK ==
    ASSUME TypeOK, NEW e \in Earbud
    PROVE  World(e) \in Worlds /\ World(e).me = eb[e] /\ World(e).link = link
           /\ World(e).air = air
  BY DEF TypeOK, World, Worlds

(* A step of one earbud that leaves the link up or down as it is. *)
LEMMA BecomesOK ==
    ASSUME Inv, NEW e \in Earbud, NEW w, Becomes(e, w), Step(World(e), w),
           EarbudInv(w.me, w.link),
           used' \in [finds : 0 .. MAX_FINDS, upsets : 0 .. MAX_UPSETS]
    PROVE  Inv'
  <1>1. w \in Worlds /\ w.link.up = link.up /\ w.link.id = link.id
    BY WorldOK DEF Step, Inv
  <1>2. eb' = [eb EXCEPT ![e] = w.me] /\ link' = w.link /\ air' = w.air
    BY DEF Becomes
  <1>3. w.me \in EarbudData /\ w.link \in Links /\ w.air \in [Earbud -> Seq(Pdus)]
    BY <1>1 DEF Worlds
  <1>4. TypeOK'
    BY <1>2, <1>3 DEF TypeOK, Inv
  <1>5. ASSUME NEW f \in Earbud PROVE EarbudInv(eb'[f], link')
    <2>1. CASE f = e
      BY <1>2, <2>1 DEF Inv, TypeOK
    <2>2. CASE f # e
      <3>1. eb'[f] = eb[f] /\ EarbudInv(eb[f], link)
        BY <1>2, <2>2 DEF Inv, TypeOK
      <3>2. EarbudInv(eb[f], w.link)
        BY <1>1, <3>1 DEF EarbudInv, Core, OrderInv
      <3> QED
        BY <1>2, <3>1, <3>2
    <2> QED
      BY <2>1, <2>2
  <1> QED
    BY <1>4, <1>5 DEF Inv

(* The budget of searches and of upsets. *)
LEMMA UsedOK ==
    ASSUME Inv
    PROVE  /\ used \in [finds : 0 .. MAX_FINDS, upsets : 0 .. MAX_UPSETS]
           /\ Upset => used' \in [finds : 0 .. MAX_FINDS, upsets : 0 .. MAX_UPSETS]
  BY FindRoleAssumption DEF Inv, TypeOK, Upset

(* A message that may be posted, other than the two that depend on the     *)
(* state, keeps the invariant.                                             *)
LEMMA AppendInv ==
    ASSUME NEW r \in EarbudData, NEW l, EarbudInv(r, l), NEW m \in Messages,
           MayPost(r, l, m), m # Connect, m # ClientInit
    PROVE  LET s == [r EXCEPT !.queue = Append(@, m)]
           IN  s \in EarbudData /\ EarbudInv(s, l)
  <1> DEFINE s == [r EXCEPT !.queue = Append(@, m)]
  <1>1. /\ s \in EarbudData /\ Core(s, l) /\ Alike(r, [s EXCEPT !.queue = r.queue])
        /\ \A n : Queued(n, s.queue) <=> Queued(n, r.queue) \/ n = m
    BY PostCore DEF EarbudInv
  <1> HIDE DEF s
  <1>2. /\ s.state = r.state /\ s.timers = r.timers /\ s.gatt_cid = r.gatt_cid
        /\ s.scan = r.scan /\ s.confirming_primary = r.confirming_primary
    BY <1>1 DEF Alike, EarbudData
  <1>3. StateInv(s)
    BY <1>1, <1>2 DEF EarbudInv, StateInv
  <1> QED
    BY <1>1, <1>3 DEF s, EarbudInv

(* The same for Post. *)
LEMMA PostInv ==
    ASSUME NEW w \in Worlds, EarbudInv(w.me, w.link), NEW m \in Messages,
           MayPost(w.me, w.link, m), m # Connect, m # ClientInit
    PROVE  LET v == Post(w, m)
           IN  Step(w, v) /\ EarbudInv(v.me, v.link)
  <1> DEFINE v == Post(w, m)
             s == [w.me EXCEPT !.queue = Append(@, m)]
  <1>1. v \in Worlds /\ v.me = s /\ v.link = w.link
    BY PostOK
  <1>2. w.me \in EarbudData
    BY DEF Worlds
  <1>3. EarbudInv(s, w.link)
    BY <1>2, AppendInv
  <1> HIDE DEF s, v
  <1> QED
    BY <1>1, <1>3 DEF v, Step

(* Most messages may be posted at any time. *)
LEMMA PlainMessage ==
    ASSUME NEW m, NEW r, NEW l,
           m.type \notin {"STOP_CFM", "ADV_REPORT_IND", "CONNECT_TO_PEER", "CLIENT_INIT_CFM",
                          "CONNECTION_IND", "GATT_CONNECT"}
    PROVE  MayPost(r, l, m) /\ m # Connect /\ m # ClientInit
  <1>1. /\ Stop.type = "STOP_CFM" /\ Report.type = "ADV_REPORT_IND"
        /\ Connect.type = "CONNECT_TO_PEER" /\ ClientInit.type = "CLIENT_INIT_CFM"
        /\ Loss.type = "CONNECTION_IND" /\ \A n : Gatt(n).type = "GATT_CONNECT"
    BY DEF Stop, Report, Connect, ClientInit, Loss, Gatt, Signal, Msg
  <1> QED
    BY <1>1 DEF MayPost

(* The main task takes a message. *)
LEMMA DeliverStep ==
    ASSUME Inv, NEW e \in Earbud, Deliver(e)
    PROVE  Inv'
  <1>1. PICK k \in DOMAIN eb[e].queue, role \in Roles :
            /\ Deliverable(e, k)
            /\ \A j \in 1 .. k - 1 : ~Deliverable(e, j)
            /\ Becomes(e, Handle([World(e) EXCEPT !.me.queue = RemoveAt(@, k)], e,
                                 eb[e].queue[k], role))
    BY DEF Deliver
  <1> DEFINE w == World(e)
             u == [w EXCEPT !.me.queue = RemoveAt(@, k)]
             m == w.me.queue[k]
             v == Handle(u, e, m, role)
  <1>2. w \in Worlds /\ w.me = eb[e] /\ w.link = link /\ EarbudInv(w.me, w.link)
    BY WorldOK DEF Inv
  <1>3. Becomes(e, v)
    BY <1>1, <1>2
  <1>4. /\ m.type = "CONNECT_TO_PEER" => w.me.scan = "off"
        /\ \A j \in 1 .. k - 1 : w.me.queue[j].type = "CONNECT_TO_PEER"
        /\ k \in DOMAIN w.me.queue
    BY <1>1, <1>2 DEF Deliverable
  <1> HIDE DEF w
  <1>5. /\ u \in Worlds /\ Step(w, u) /\ EarbudInv(u.me, u.link)
        /\ Taken(m, u.me, u.link) /\ m \in Messages
    BY <1>2, <1>4, DeliverTakes
  <1> HIDE DEF u, m
  <1>6. Step(u, v) /\ EarbudInv(v.me, v.link)
    BY <1>1, <1>5, HandleOK
  <1> HIDE DEF v
  <1>7. Step(World(e), v)
    BY <1>5, <1>6 DEF Step, w
  <1>8. used' \in [finds : 0 .. MAX_FINDS, upsets : 0 .. MAX_UPSETS]
    BY UsedOK DEF Deliver
  <1> QED
    BY <1>3, <1>6, <1>7, <1>8, BecomesOK

(* Stopping timers keeps the invariant. *)
LEMMA TimersInv ==
    ASSUME NEW w \in Worlds, EarbudInv(w.me, w.link), NEW t
    PROVE  LET v == [w EXCEPT !.me.timers = @ \ {t}]
           IN  v \in Worlds /\ Step(w, v) /\ EarbudInv(v.me, v.link) /\ v.me.state = w.me.state
  <1> DEFINE T == w.me.timers \ {t}
             v == [w EXCEPT !.me.timers = T]
  <1>1. T \in SUBSET Timers /\ T \subseteq w.me.timers
    BY DEF Worlds, EarbudData
  <1>2. v = [w EXCEPT !.me.timers = @ \ {t}]
    OBVIOUS
  <1> HIDE DEF T
  <1>3. /\ Follows(w, v, {w.me.state}) /\ v \in Worlds /\ v.me.timers = T
        /\ Alike(w.me, [v.me EXCEPT !.timers = w.me.timers])
    BY <1>1, FollowsTimers
  <1> HIDE DEF v
  <1>4. v.me \in EarbudData
    BY <1>3 DEF Worlds
  <1>5. /\ v.me.state = w.me.state /\ v.me.gatt_cid = w.me.gatt_cid /\ v.me.scan = w.me.scan
        /\ v.me.queue = w.me.queue /\ v.me.confirming_primary = w.me.confirming_primary
    BY <1>3, <1>4 DEF Alike, EarbudData
  <1>6. Core(v.me, v.link)
    BY <1>3, CalmStep DEF Follows, EarbudInv
  <1>7. StateInv(v.me)
    BY <1>1, <1>3, <1>5 DEF EarbudInv, StateInv
  <1> QED
    BY <1>2, <1>3, <1>5, <1>6, <1>7 DEF Follows, EarbudInv

(* A timer expires. *)
LEMMA ExpireStep ==
    ASSUME Inv, NEW e \in Earbud, Expire(e)
    PROVE  Inv'
  <1>1. PICK t \in eb[e].timers :
            Becomes(e, HandleTimeout([World(e) EXCEPT !.me.timers = @ \ {t}], e, t))
    BY DEF Expire
  <1> DEFINE w == World(e)
             u == [w EXCEPT !.me.timers = @ \ {t}]
             v == HandleTimeout(u, e, t)
  <1>2. w \in Worlds /\ w.me = eb[e] /\ w.link = link /\ EarbudInv(w.me, w.link)
    BY WorldOK DEF Inv
  <1>3. t \in Timers /\ Becomes(e, v)
    BY <1>1, <1>2 DEF Worlds, EarbudData
  <1> HIDE DEF w
  <1>4. u \in Worlds /\ Step(w, u) /\ EarbudInv(u.me, u.link)
    BY <1>2, TimersInv
  <1> HIDE DEF u
  <1>5. Step(u, v) /\ EarbudInv(v.me, v.link)
    BY <1>3, <1>4, HandleTimeoutOK
  <1> HIDE DEF v
  <1>6. Step(World(e), v)
    BY <1>4, <1>5 DEF Step, w
  <1>7. used' \in [finds : 0 .. MAX_FINDS, upsets : 0 .. MAX_UPSETS]
    BY UsedOK DEF Expire
  <1> QED
    BY <1>3, <1>5, <1>6, <1>7, BecomesOK

(* PeerFindRole_FindRole. *)
LEMMA FindRoleStep ==
    ASSUME Inv, NEW e \in Earbud, FindRole(e)
    PROVE  Inv'
  <1>1. PICK timeout \in TIMEOUTS :
            Becomes(e, ToDiscover([World(e) EXCEPT !.me.role_timeout = timeout,
                                                   !.me.outcome = NoRole]))
    BY DEF FindRole
  <1> DEFINE w == World(e)
             r == [w.me EXCEPT !.role_timeout = timeout, !.outcome = NoRole]
             u == [w EXCEPT !.me = r]
             v == ToDiscover(u)
  <1>2. w \in Worlds /\ w.me = eb[e] /\ w.link = link /\ EarbudInv(w.me, w.link)
    BY WorldOK DEF Inv
  <1>3. Becomes(e, v)
    BY <1>1, <1>2 DEF Worlds
  <1>4. w.me.state = "INITIALISED" /\ ~Queued(Connect, w.me.queue)
    BY <1>2 DEF FindRole, Connect
  <1> HIDE DEF w
  <1>5. timeout \in BOOLEAN /\ NoRole \in Announced
    BY <1>1, FindRoleAssumption, StoredOutcomes
  <1>6. r \in EarbudData /\ Alike(w.me, r)
    BY <1>2, <1>5 DEF Worlds, EarbudData, Alike, Announced
  <1> HIDE DEF r
  <1>7. u \in Worlds /\ u.me = r /\ u.link = w.link /\ Step(w, u) /\ EarbudInv(u.me, u.link)
    BY <1>2, <1>6, UpdateInv
  <1> HIDE DEF u
  <1>8. /\ Core(u.me, u.link) /\ u.me.state = "INITIALISED" /\ ~Queued(ClientInit, u.me.queue)
        /\ ~Queued(Connect, u.me.queue) /\ "DISCOVERY" \notin u.me.timers
    BY <1>4, <1>6, <1>7 DEF Alike, EarbudInv, StateInv
  <1>9. Step(u, v) /\ EarbudInv(v.me, v.link)
    BY <1>7, <1>8, ToDiscoverOK
  <1> HIDE DEF v
  <1>10. Step(World(e), v)
    BY <1>7, <1>9 DEF Step, w
  <1>11. used' \in [finds : 0 .. MAX_FINDS, upsets : 0 .. MAX_UPSETS]
    BY UsedOK, FindRoleAssumption DEF FindRole
  <1> QED
    BY <1>3, <1>9, <1>10, <1>11, BecomesOK

(* PeerFindRole_FindRoleCancel. *)
LEMMA FindRoleCancelStep ==
    ASSUME Inv, NEW e \in Earbud, FindRoleCancel(e)
    PROVE  Inv'
  <1> DEFINE w == World(e)
             u == [w EXCEPT !.me.timers = @ \ {"DISCOVERY"}]
             m == Signal("CANCEL_FIND_ROLE")
             v == Post(u, m)
  <1>1. w \in Worlds /\ EarbudInv(w.me, w.link)
    BY WorldOK DEF Inv
  <1>2. Becomes(e, v)
    BY DEF FindRoleCancel
  <1> HIDE DEF w
  <1>3. u \in Worlds /\ Step(w, u) /\ EarbudInv(u.me, u.link)
    BY <1>1, TimersInv
  <1> HIDE DEF u
  <1>4. m \in Messages /\ m.type = "CANCEL_FIND_ROLE"
    BY SignalTypes DEF Signals, Signal, Msg
  <1> HIDE DEF m
  <1>5. MayPost(u.me, u.link, m) /\ m # Connect /\ m # ClientInit
    BY <1>4, PlainMessage
  <1>6. Step(u, v) /\ EarbudInv(v.me, v.link)
    BY <1>3, <1>4, <1>5, PostInv
  <1> HIDE DEF v
  <1>7. Step(World(e), v)
    BY <1>3, <1>6 DEF Step, w
  <1>8. used' \in [finds : 0 .. MAX_FINDS, upsets : 0 .. MAX_UPSETS]
    BY UsedOK DEF FindRoleCancel
  <1> QED
    BY <1>2, <1>6, <1>7, <1>8, BecomesOK

(* PeerFindRole_PrepareResponse. *)
LEMMA PrepareResponseStep ==
    ASSUME Inv, NEW e \in Earbud, PrepareResponse(e)
    PROVE  Inv'
  <1> DEFINE w == World(e)
             r == [w.me EXCEPT !.preparing = FALSE]
             u == [w EXCEPT !.me = r]
             m == Signal("PREPARED")
             asked == eb[e].state \in {"SERVER_PREPARING", "CLIENT_PREPARING"}
             v == IF asked THEN Post(u, m) ELSE u
  <1>1. w \in Worlds /\ EarbudInv(w.me, w.link)
    BY WorldOK DEF Inv
  <1>2. Becomes(e, v)
    BY <1>1 DEF PrepareResponse, Worlds
  <1> HIDE DEF w, asked
  <1>3. r \in EarbudData /\ Alike(w.me, r)
    BY <1>1 DEF Worlds, EarbudData, Alike
  <1> HIDE DEF r
  <1>4. u \in Worlds /\ Step(w, u) /\ EarbudInv(u.me, u.link)
    BY <1>1, <1>3, UpdateInv
  <1> HIDE DEF u
  <1>5. m \in Messages /\ m.type = "PREPARED"
    BY SignalTypes DEF Signals, Signal, Msg
  <1> HIDE DEF m
  <1>6. MayPost(u.me, u.link, m) /\ m # Connect /\ m # ClientInit
    BY <1>5, PlainMessage
  <1>7. Step(u, v) /\ EarbudInv(v.me, v.link)
    <2>1. CASE asked
      BY <1>4, <1>5, <1>6, <2>1, PostInv
    <2>2. CASE ~asked
      BY <1>4, <2>2 DEF Step
    <2> QED
      BY <2>1, <2>2
  <1> HIDE DEF v
  <1>8. Step(World(e), v)
    BY <1>4, <1>7 DEF Step, w
  <1>9. used' \in [finds : 0 .. MAX_FINDS, upsets : 0 .. MAX_UPSETS]
    BY UsedOK DEF PrepareResponse
  <1> QED
    BY <1>2, <1>7, <1>8, <1>9, BecomesOK

(* The scan manager reports the advertisement of the peer. *)
LEMMA AdvReportStep ==
    ASSUME Inv, NEW e \in Earbud, AdvReport(e)
    PROVE  Inv'
  <1> DEFINE w == World(e)
             v == Post(w, Report)
  <1>1. w \in Worlds /\ w.me = eb[e] /\ EarbudInv(w.me, w.link)
    BY WorldOK DEF Inv
  <1>2. Becomes(e, v)
    BY DEF AdvReport, Report
  <1>3. w.me.scan = "on" /\ ~Queued(Report, w.me.queue)
    BY <1>1 DEF AdvReport, Report
  <1> HIDE DEF w
  <1>4. ~Queued(Connect, w.me.queue)
    BY <1>1, <1>3 DEF EarbudInv, Core, ScanInv, ConnectInv
  <1>5. /\ Report # Stop /\ Report # Connect /\ Report # ClientInit /\ Report # Loss
        /\ \A n : Report # Gatt(n)
    BY DEF Stop, Report, Connect, ClientInit, Loss, Gatt, Signal, Msg
  <1>6. MayPost(w.me, w.link, Report)
    BY <1>3, <1>4, <1>5 DEF MayPost
  <1>7. Report \in Messages
    BY SignalTypes DEF Report, Signals
  <1>8. Step(w, v) /\ EarbudInv(v.me, v.link)
    BY <1>1, <1>5, <1>6, <1>7, PostInv
  <1> HIDE DEF v
  <1>9. used' \in [finds : 0 .. MAX_FINDS, upsets : 0 .. MAX_UPSETS]
    BY UsedOK DEF AdvReport
  <1> QED
    BY <1>2, <1>8, <1>9, BecomesOK DEF w

(* The scan manager has stopped the scan. *)
LEMMA ScanStopsStep ==
    ASSUME Inv, NEW e \in Earbud, ScanStops(e)
    PROVE  Inv'
  <1> DEFINE w == World(e)
             r == [w.me EXCEPT !.scan = "stopped"]
             u == [w EXCEPT !.me = r]
             v == Post(u, Stop)
  <1>1. w \in Worlds /\ w.me = eb[e] /\ EarbudInv(w.me, w.link)
    BY WorldOK DEF Inv
  <1>2. Becomes(e, v)
    BY <1>1 DEF ScanStops, Stop, Worlds
  <1>3. w.me.scan = "stopping"
    BY <1>1 DEF ScanStops
  <1> HIDE DEF w
  <1>4. /\ r \in EarbudData /\ r.scan = "stopped" /\ r.scan_enable = w.me.scan_enable
        /\ r.queue = w.me.queue /\ r.state = w.me.state /\ r.timers = w.me.timers
        /\ r.gatt_cid = w.me.gatt_cid /\ r.confirming_primary = w.me.confirming_primary
    BY <1>1 DEF Worlds, EarbudData
  <1> HIDE DEF r
  <1>5. u \in Worlds /\ u.me = r /\ u.link = w.link
    BY <1>1, <1>4, EarbudUpdate
  <1> HIDE DEF u
  <1>6. Core(r, w.link)
    BY <1>1, <1>4 DEF EarbudInv, Core, ScanInv, ConnectInv, OrderInv
  <1>7. StateInv(r)
    BY <1>1, <1>3, <1>4 DEF EarbudInv, StateInv
  <1>8. ~Queued(Stop, r.queue)
    BY <1>1, <1>3, <1>4 DEF EarbudInv, Core, ScanInv
  <1>9. /\ Stop # Report /\ Stop # Connect /\ Stop # ClientInit /\ Stop # Loss
        /\ \A n : Stop # Gatt(n)
    BY DEF Stop, Report, Connect, ClientInit, Loss, Gatt, Signal, Msg
  <1>10. MayPost(r, w.link, Stop)
    BY <1>4, <1>8, <1>9 DEF MayPost
  <1>11. Stop \in Messages
    BY SignalTypes DEF Stop, Signals
  <1>12. Step(u, v) /\ EarbudInv(v.me, v.link)
    BY <1>5, <1>6, <1>7, <1>9, <1>10, <1>11, PostInv DEF EarbudInv
  <1> HIDE DEF v
  <1>13. Step(World(e), v)
    BY <1>5, <1>12 DEF Step, w
  <1>14. used' \in [finds : 0 .. MAX_FINDS, upsets : 0 .. MAX_UPSETS]
    BY UsedOK DEF ScanStops
  <1> QED
    BY <1>2, <1>12, <1>13, <1>14, BecomesOK

(* GATT connects on the link that is up, after any loss of the link before *)
(* it.                                                                     *)
LEMMA GattUpStep ==
    ASSUME Inv, NEW e \in Earbud, GattUp(e)
    PROVE  Inv'
  <1> DEFINE w == World(e)
             u == [w EXCEPT !.link.gatt = @ \cup {e}]
             m == Gatt(link.id)
             v == Post(u, m)
  <1>1. w \in Worlds /\ w.me = eb[e] /\ w.link = link /\ EarbudInv(w.me, w.link)
    BY WorldOK DEF Inv
  <1>2. Becomes(e, v)
    BY DEF GattUp, Gatt
  <1> HIDE DEF w
  <1>3. Step(w, u) /\ u.me = w.me
    BY <1>1 DEF Step, Worlds, Links
  <1>4. EarbudInv(u.me, u.link) /\ u \in Worlds
    BY <1>1, <1>3, AlikeInv DEF Alike, Step
  <1> HIDE DEF u
  <1>5. link.id \in Nat /\ u.link.id = link.id
    BY <1>1, <1>3, LinkIsNat DEF Step
  <1>6. /\ m # Stop /\ m # Report /\ m # Connect /\ m # ClientInit /\ m # Loss
        /\ \A n : m = Gatt(n) => n = link.id
    BY DEF Stop, Report, Connect, ClientInit, Loss, Gatt, Signal, Msg
  <1>7. m \in Messages
    BY <1>5 DEF Messages, Gatt, Msg
  <1> HIDE DEF m
  <1>8. MayPost(u.me, u.link, m)
    BY <1>5, <1>6 DEF MayPost
  <1>9. Step(u, v) /\ EarbudInv(v.me, v.link)
    BY <1>4, <1>6, <1>7, <1>8, PostInv
  <1> HIDE DEF v
  <1>10. Step(World(e), v)
    BY <1>3, <1>9 DEF Step, w
  <1>11. used' \in [finds : 0 .. MAX_FINDS, upsets : 0 .. MAX_UPSETS]
    BY UsedOK DEF GattUp
  <1> QED
    BY <1>2, <1>9, <1>10, <1>11, BecomesOK

(* The link cannot be encrypted. *)
LEMMA EncryptionFailsStep ==
    ASSUME Inv, EncryptionFails
    PROVE  Inv'
  <1> DEFINE e == link.central
             w == World(e)
             u == [w EXCEPT !.link.securing = FALSE]
             m == SecurityCfm(FALSE)
             v == Post(u, m)
  <1>1. e \in Earbud
    BY DEF Inv, TypeOK, Links
  <1>2. Becomes(e, v)
    BY DEF EncryptionFails
  <1> HIDE DEF e
  <1>3. w \in Worlds /\ EarbudInv(w.me, w.link)
    BY <1>1, WorldOK DEF Inv
  <1> HIDE DEF w
  <1>4. Step(w, u) /\ u.me = w.me
    BY <1>3 DEF Step, Worlds, Links
  <1>5. EarbudInv(u.me, u.link) /\ u \in Worlds
    BY <1>3, <1>4, AlikeInv DEF Alike, Step
  <1> HIDE DEF u
  <1>6. m \in Messages /\ m.type = "BLE_SECURITY_CFM"
    BY DEF Messages, SecurityCfm, Msg, Flag, Flags
  <1> HIDE DEF m
  <1>7. MayPost(u.me, u.link, m) /\ m # Connect /\ m # ClientInit
    BY <1>6, PlainMessage
  <1>8. Step(u, v) /\ EarbudInv(v.me, v.link)
    BY <1>5, <1>6, <1>7, PostInv
  <1> HIDE DEF v
  <1>9. Step(World(e), v)
    BY <1>4, <1>8 DEF Step, w
  <1>10. used' \in [finds : 0 .. MAX_FINDS, upsets : 0 .. MAX_UPSETS]
    BY UsedOK DEF EncryptionFails
  <1> QED
    BY <1>1, <1>2, <1>8, <1>9, <1>10, BecomesOK

(* What a PDU says may be posted to the earbud that has received it. *)
LEMMA PduPosts ==
    ASSUME NEW w \in Worlds, EarbudInv(w.me, w.link), NEW type, NEW arg, NEW id,
           Msg(type, arg, id) \in Messages,
           type \in {"CHANGE_ROLE_IND", "COMMAND_CFM", "FIGURE_OF_MERIT_IND"}
    PROVE  LET v == Post(w, Msg(type, arg, id))
           IN  Step(w, v) /\ EarbudInv(v.me, v.link)
  <1> DEFINE m == Msg(type, arg, id)
  <1>1. m.type = type
    BY DEF Msg
  <1> HIDE DEF m
  <1>2. MayPost(w.me, w.link, m) /\ m # Connect /\ m # ClientInit
    BY <1>1, PlainMessage
  <1>3. m \in Messages
    BY DEF m
  <1> DEFINE v == Post(w, m)
  <1>4. Step(w, v) /\ EarbudInv(v.me, v.link)
    BY <1>2, <1>3, PostInv
  <1> QED
    BY <1>4 DEF m

(* What the GATT server answers by itself keeps the invariant. *)
LEMMA SendInv ==
    ASSUME NEW w \in Worlds, EarbudInv(w.me, w.link), NEW e \in Earbud, NEW b \in BOOLEAN,
           NEW type \in {"CHANGE_ROLE_RSP", "FIGURE_OF_MERIT"}
    PROVE  LET v == Send(w, Peer(e), type, Flag(b))
           IN  v \in Worlds /\ Step(w, v) /\ EarbudInv(v.me, v.link)
  <1> DEFINE a == Flag(b)
             f == Peer(e)
  <1>1. Msg(type, a, w.link.id) \in Pdus /\ f \in Earbud
    BY LinkIsNat, PduTypes, PeerOK
  <1> HIDE DEF a, f
  <1> DEFINE v == Send(w, f, type, a)
  <1>2. Step(w, v) /\ v.me = w.me
    BY <1>1, SendOK
  <1> HIDE DEF v
  <1>3. EarbudInv(v.me, v.link)
    BY <1>2, AlikeInv DEF Alike
  <1> QED
    BY <1>2, <1>3 DEF v, a, f, Step

(* An earbud receives what its peer has sent. *)
LEMMA ReceiveStep ==
    ASSUME Inv, NEW e \in Earbud, Receive(e)
    PROVE  Inv'
  <1> DEFINE m == Head(air[e])
             u == World(e)
             t == Tail(air[e])
             w == [u EXCEPT !.air[e] = t]
             v == Send(w, Peer(e), "CHANGE_ROLE_RSP", Flag(link.encrypted))
             role == Post(v, Msg("CHANGE_ROLE_IND", m.arg, m.link))
             score == Send(w, Peer(e), "FIGURE_OF_MERIT", Flag(eb[e].figure_of_merit))
             confirm == Post(w, Msg("COMMAND_CFM", m.arg, m.link))
             merit == Post(w, Msg("FIGURE_OF_MERIT_IND", m.arg, 0))
             x == CASE m.type = "CHANGE_ROLE" -> IF link.encrypted THEN role ELSE v
                    [] m.type = "ENABLE_NOTIFICATIONS" -> score
                    [] m.type = "CHANGE_ROLE_RSP" /\ eb[e].client -> confirm
                    [] m.type = "FIGURE_OF_MERIT" /\ eb[e].client -> merit
                    [] OTHER -> w
  <1>1. u \in Worlds /\ u.air = air /\ EarbudInv(u.me, u.link)
    BY WorldOK DEF Inv
  <1>2. m \in Pdus /\ t \in Seq(Pdus)
    BY DEF Inv, TypeOK, Receive
  <1>3. Becomes(e, x)
    BY <1>1 DEF Receive
  <1>4. link.encrypted \in BOOLEAN /\ eb[e].figure_of_merit \in BOOLEAN
    BY DEF Inv, TypeOK, Links, EarbudData
  <1> HIDE DEF u, t
  <1>5. Step(u, w) /\ w.me = u.me
    BY <1>1, <1>2 DEF Worlds, Step
  <1>6. w \in Worlds /\ EarbudInv(w.me, w.link)
    BY <1>1, <1>5, AlikeInv DEF Alike, Step
  <1> HIDE DEF w, m
  <1>7. v \in Worlds /\ Step(w, v) /\ EarbudInv(v.me, v.link)
    BY <1>4, <1>6, SendInv
  <1>8. Step(w, score) /\ EarbudInv(score.me, score.link)
    BY <1>4, <1>6, SendInv
  <1> HIDE DEF v, score
  <1>9. CASE m.type = "CHANGE_ROLE"
    <2>1. Msg("CHANGE_ROLE_IND", m.arg, m.link) \in Messages
      BY <1>2, <1>9 DEF Pdus, Messages, Msg
    <2>2. Step(v, role) /\ EarbudInv(role.me, role.link)
      BY <1>7, <2>1, PduPosts
    <2> HIDE DEF role
    <2>3. x = IF link.encrypted THEN role ELSE v
      BY <1>9
    <2> HIDE DEF x
    <2>4. Step(w, x) /\ EarbudInv(x.me, x.link)
      BY <1>7, <2>2, <2>3 DEF Step
    <2>5. Step(World(e), x)
      BY <1>5, <2>4 DEF Step, u
    <2> QED
      BY <1>3, <2>4, <2>5, UsedOK, BecomesOK DEF Receive
  <1>10. CASE m.type = "ENABLE_NOTIFICATIONS"
    <2>1. x = score
      BY <1>10
    <2> HIDE DEF x
    <2>2. Step(World(e), x)
      BY <1>5, <1>8, <2>1 DEF Step, u
    <2> QED
      BY <1>3, <1>8, <2>1, <2>2, UsedOK, BecomesOK DEF Receive
  <1>11. CASE m.type = "CHANGE_ROLE_RSP" /\ eb[e].client
    <2>1. Msg("COMMAND_CFM", m.arg, m.link) \in Messages
      BY <1>2, <1>11 DEF Pdus, Messages, Msg
    <2>2. Step(w, confirm) /\ EarbudInv(confirm.me, confirm.link)
      BY <1>6, <2>1, PduPosts
    <2> HIDE DEF confirm
    <2>3. x = confirm
      BY <1>11
    <2> HIDE DEF x
    <2>4. Step(World(e), x)
      BY <1>5, <2>2, <2>3 DEF Step, u
    <2> QED
      BY <1>3, <2>2, <2>3, <2>4, UsedOK, BecomesOK DEF Receive
  <1>12. CASE m.type = "FIGURE_OF_MERIT" /\ eb[e].client
    <2>1. Msg("FIGURE_OF_MERIT_IND", m.arg, 0) \in Messages
      BY <1>2, <1>12 DEF Pdus, Messages, Msg
    <2>2. Step(w, merit) /\ EarbudInv(merit.me, merit.link)
      BY <1>6, <2>1, PduPosts
    <2> HIDE DEF merit
    <2>3. x = merit
      BY <1>12
    <2> HIDE DEF x
    <2>4. Step(World(e), x)
      BY <1>5, <2>2, <2>3 DEF Step, u
    <2> QED
      BY <1>3, <2>2, <2>3, <2>4, UsedOK, BecomesOK DEF Receive
  <1>13. CASE /\ m.type \notin {"CHANGE_ROLE", "ENABLE_NOTIFICATIONS"}
              /\ ~(m.type \in {"CHANGE_ROLE_RSP", "FIGURE_OF_MERIT"} /\ eb[e].client)
    <2>1. x = w
      BY <1>13
    <2> HIDE DEF x
    <2>2. Step(World(e), x)
      BY <1>5, <2>1 DEF u
    <2> QED
      BY <1>3, <1>6, <2>1, <2>2, UsedOK, BecomesOK DEF Receive
  <1> QED
    BY <1>9, <1>10, <1>11, <1>12, <1>13

(* The invariant over a link that is new, or down: no message is about it. *)
LEMMA NewLinkInv ==
    ASSUME NEW r, NEW l, NEW k, EarbudInv(r, l), l.id \in Nat,
           \/ k.id = l.id + 1
           \/ k.id = l.id /\ ~k.up
    PROVE  EarbudInv(r, k)
  <1>1. \A n \in Nat : Queued(Gatt(n), r.queue) => n <= l.id
    BY DEF EarbudInv, Core, OrderInv
  <1>2. \A n \in Nat : Queued(Gatt(n), r.queue) => n <= k.id
    BY <1>1
  <1>3. k.up => Ahead(Loss, Gatt(k.id), r.queue)
    <2>1. k.up => ~Queued(Gatt(k.id), r.queue)
      BY <1>1
    <2> QED
      BY <2>1 DEF Ahead, Queued
  <1> QED
    BY <1>2, <1>3 DEF EarbudInv, Core, OrderInv

(* The two earbuds connect. *)
LEMMA LinkUpStep ==
    ASSUME Inv, NEW e \in Earbud, LinkUp(e)
    PROVE  Inv'
  <1> DEFINE k == [NoLink(e, link.id + 1) EXCEPT !.up = TRUE]
             M(f) == Msg("TP_CONNECT_IND", IF f = e THEN "outgoing" ELSE "incoming", 0)
             R(f) == [eb[f] EXCEPT !.connecting = FALSE, !.queue = Append(@, M(f))]
  <1>1. link.id \in Nat /\ link.id < MAX_LINKS /\ MAX_LINKS \in Nat
    BY FindRoleAssumption DEF Inv, TypeOK, Links, LinkUp
  <1>2. k \in Links /\ k.id = link.id + 1
    <2> DEFINE id == link.id + 1
    <2>1. id \in 0 .. MAX_LINKS
      BY <1>1
    <2> HIDE DEF id
    <2>2. [NoLink(e, id) EXCEPT !.up = TRUE] \in Links
          /\ [NoLink(e, id) EXCEPT !.up = TRUE].id = id
      BY <2>1 DEF Links, NoLink
    <2> QED
      BY <2>2 DEF id
  <1>3. link' = k /\ eb' = [f \in Earbud |-> R(f)] /\ air' = air /\ used' = used
    BY DEF LinkUp
  <1> HIDE DEF k
  <1>4. ASSUME NEW f \in Earbud PROVE R(f) \in EarbudData /\ EarbudInv(R(f), k)
    <2> DEFINE m == M(f)
               r == [eb[f] EXCEPT !.connecting = FALSE]
               s == [r EXCEPT !.queue = Append(@, m)]
    <2>1. m \in Messages /\ m.type = "TP_CONNECT_IND"
      BY DEF Msg, Messages
    <2>2. eb[f] \in EarbudData /\ EarbudInv(eb[f], link)
      BY DEF Inv, TypeOK
    <2>3. R(f) = s
      BY <2>2 DEF EarbudData
    <2> HIDE DEF m
    <2>4. r \in EarbudData /\ Alike(eb[f], r)
      BY <2>2 DEF EarbudData, Alike
    <2> HIDE DEF r
    <2>5. EarbudInv(r, link)
      BY <2>2, <2>4 DEF Alike, EarbudInv, Core, ScanInv, ConnectInv, OrderInv, StateInv
    <2>6. EarbudInv(r, k)
      BY <1>1, <1>2, <2>5, NewLinkInv
    <2>7. MayPost(r, k, m) /\ m # Connect /\ m # ClientInit
      BY <2>1, PlainMessage
    <2>8. s \in EarbudData /\ EarbudInv(s, k)
      BY <2>1, <2>4, <2>6, <2>7, AppendInv
    <2> QED
      BY <2>3, <2>8
  <1> HIDE DEF R
  <1>5. TypeOK'
    BY <1>2, <1>3, <1>4 DEF Inv, TypeOK
  <1>6. \A f \in Earbud : EarbudInv(eb'[f], link')
    BY <1>3, <1>4
  <1> QED
    BY <1>5, <1>6 DEF Inv

(* The link goes down: both earbuds are told, behind what they were told   *)
(* of it before.                                                           *)
LEMMA DownStep ==
    ASSUME Inv, Down, used' \in [finds : 0 .. MAX_FINDS, upsets : 0 .. MAX_UPSETS]
    PROVE  Inv'
  <1> DEFINE k == NoLink(link.central, link.id)
             R(f) == [eb[f] EXCEPT !.queue = Append(@, Loss)]
  <1>1. link.id \in Nat
    BY FindRoleAssumption DEF Inv, TypeOK, Links
  <1>2. k \in Links /\ k.id = link.id /\ ~k.up
    BY DEF Inv, TypeOK, Links, NoLink
  <1>3. link' = k /\ eb' = [f \in Earbud |-> R(f)] /\ air' = [f \in Earbud |-> <<>>]
    BY DEF Down, Loss
  <1> HIDE DEF k
  <1>4. ASSUME NEW f \in Earbud PROVE R(f) \in EarbudData /\ EarbudInv(R(f), k)
    <2>1. eb[f] \in EarbudData /\ EarbudInv(eb[f], link)
      BY DEF Inv, TypeOK
    <2>2. EarbudInv(eb[f], k)
      BY <1>1, <1>2, <2>1, NewLinkInv
    <2>3. /\ Loss # Stop /\ Loss # Report /\ Loss # Connect /\ Loss # ClientInit
          /\ \A n : Loss # Gatt(n)
      BY DEF Stop, Report, Connect, ClientInit, Loss, Gatt, Signal, Msg
    <2>4. Loss \in Messages
      BY SignalTypes DEF Loss, Signals
    <2>5. MayPost(eb[f], k, Loss)
      BY <1>2, <2>3 DEF MayPost
    <2> QED
      BY <2>1, <2>2, <2>3, <2>4, <2>5, AppendInv
  <1> HIDE DEF R
  <1>5. TypeOK'
    BY <1>2, <1>3, <1>4 DEF Inv, TypeOK
  <1>6. \A f \in Earbud : EarbudInv(eb'[f], link')
    BY <1>3, <1>4
  <1> QED
    BY <1>5, <1>6 DEF Inv

(* Two messages behind a queue. *)
LEMMA AppendTwo ==
    ASSUME NEW q \in Seq(Messages), NEW m \in Messages, NEW n \in Messages
    PROVE  q \o <<m>> = Append(q, m) /\ q \o <<m, n>> = Append(Append(q, m), n)
  <1> DEFINE x == q \o <<m, n>>
             y == Append(Append(q, m), n)
  <1>1. q \o <<m>> = Append(q, m)
    OBVIOUS
  <1>2. /\ x \in Seq(Messages) /\ Len(x) = Len(q) + 2 /\ Len(q) \in Nat
        /\ \A i \in 1 .. Len(q) : x[i] = q[i]
        /\ x[Len(q) + 1] = m /\ x[Len(q) + 2] = n
    OBVIOUS
  <1>3. /\ y \in Seq(Messages) /\ Len(y) = Len(q) + 2
        /\ \A i \in 1 .. Len(q) : y[i] = q[i]
        /\ y[Len(q) + 1] = m /\ y[Len(q) + 2] = n
    OBVIOUS
  <1> HIDE DEF x, y
  <1>4. \A i \in 1 .. Len(x) : x[i] = y[i]
    BY <1>2, <1>3
  <1>5. x = y
    BY <1>2, <1>3, <1>4
  <1> QED
    BY <1>1, <1>5 DEF x, y

(* The link is encrypted: both earbuds are told. *)
LEMMA EncryptStep ==
    ASSUME Inv, Encrypt
    PROVE  Inv'
  <1> DEFINE k == [link EXCEPT !.securing = FALSE, !.encrypted = TRUE]
             m == Signal("ENCRYPTION_CHANGE_IND")
             n == SecurityCfm(TRUE)
             R(f) == [eb[f] EXCEPT !.queue = @ \o IF f = link.central THEN <<m, n>> ELSE <<m>>]
  <1>1. k \in Links /\ k.id = link.id /\ k.up = link.up
    BY DEF Inv, TypeOK, Links
  <1>2. link' = k /\ eb' = [f \in Earbud |-> R(f)] /\ air' = air /\ used' = used
    BY DEF Encrypt
  <1> HIDE DEF k
  <1>3. m \in Messages /\ m.type = "ENCRYPTION_CHANGE_IND"
    BY SignalTypes DEF Signals, Signal, Msg
  <1>4. n \in Messages /\ n.type = "BLE_SECURITY_CFM"
    BY DEF Messages, SecurityCfm, Msg, Flag, Flags
  <1> HIDE DEF m, n
  <1>5. ASSUME NEW f \in Earbud PROVE R(f) \in EarbudData /\ EarbudInv(R(f), k)
    <2> DEFINE q == Append(eb[f].queue, m)
               r == [eb[f] EXCEPT !.queue = q]
               p == Append(r.queue, n)
               s == [r EXCEPT !.queue = p]
    <2>1. eb[f] \in EarbudData /\ EarbudInv(eb[f], link) /\ eb[f].queue \in Seq(Messages)
      BY DEF Inv, TypeOK, EarbudData
    <2>2. eb[f].queue \o <<m>> = q /\ q \in Seq(Messages)
      BY <1>3, <2>1
    <2>3. eb[f].queue \o <<m, n>> = Append(q, n)
      BY <1>3, <1>4, <2>1, AppendTwo
    <2>4. EarbudInv(eb[f], k)
      BY <1>1, <2>1 DEF EarbudInv, Core, OrderInv
    <2>5. MayPost(eb[f], k, m) /\ m # Connect /\ m # ClientInit
      BY <1>3, PlainMessage
    <2>6. r \in EarbudData /\ EarbudInv(r, k)
      BY <1>3, <2>1, <2>4, <2>5, AppendInv
    <2> HIDE DEF q
    <2>7. r.queue = q /\ s = [eb[f] EXCEPT !.queue = Append(q, n)]
      BY <2>1, <2>2 DEF EarbudData
    <2> HIDE DEF r
    <2>8. MayPost(r, k, n) /\ n # Connect /\ n # ClientInit
      BY <1>4, PlainMessage
    <2>9. s \in EarbudData /\ EarbudInv(s, k)
      BY <1>4, <2>6, <2>8, AppendInv
    <2> HIDE DEF s
    <2>10. CASE f = link.central
      <3>1. R(f) = s
        BY <2>3, <2>7, <2>10
      <3> QED
        BY <2>9, <3>1
    <2>11. CASE f # link.central
      <3>1. R(f) = r
        BY <2>2, <2>11 DEF r
      <3> QED
        BY <2>6, <3>1
    <2> QED
      BY <2>10, <2>11
  <1> HIDE DEF R
  <1>6. TypeOK'
    BY <1>1, <1>2, <1>5 DEF Inv, TypeOK
  <1>7. \A f \in Earbud : EarbudInv(eb'[f], link')
    BY <1>2, <1>5
  <1> QED
    BY <1>6, <1>7 DEF Inv

(* The invariant holds when the earbuds start. *)
LEMMA InitInv ==
    ASSUME Init
    PROVE  Inv
  <1>1. EarbudInit \in EarbudData /\ EarbudInit.queue = <<>> /\ EarbudInit.timers = {}
    BY StoredOutcomes
    DEF EarbudInit, EarbudData, Stored, Announced, Roles, States, Messages, Timers
  <1>2. PICK e \in Earbud : link = NoLink(e, 0)
    BY DEF Init
  <1>3. link \in Links /\ link.id = 0 /\ ~link.up
    BY <1>2, FindRoleAssumption DEF NoLink, Links
  <1>4. TypeOK
    BY <1>1, <1>3, FindRoleAssumption DEF Init, TypeOK
  <1>5. EarbudInv(EarbudInit, link)
    <2>1. Core(EarbudInit, link)
      BY <1>1, <1>3 DEF Core, ScanInv, ConnectInv, OrderInv, Once, Ahead, Queued, EarbudInit
    <2>2. StateInv(EarbudInit)
      BY <1>1 DEF StateInv, EarbudInit, Queued
    <2> QED
      BY <2>1, <2>2 DEF EarbudInv
  <1> QED
    BY <1>4, <1>5 DEF Inv, Init

(* Every step keeps the invariant. *)
LEMMA NextInv ==
    ASSUME Inv, [Next]_vars
    PROVE  Inv'
  <1>1. ASSUME NEW e \in Earbud, EarbudStep(e) PROVE Inv'
    BY <1>1, DeliverStep, ExpireStep, FindRoleStep, FindRoleCancelStep, PrepareResponseStep
       DEF EarbudStep
  <1>2. ASSUME NEW e \in Earbud, RadioStep(e) PROVE Inv'
    BY <1>2, AdvReportStep, ScanStopsStep, LinkUpStep, GattUpStep, ReceiveStep DEF RadioStep
  <1>3. CASE LinkCloses \/ LinkLost
    BY <1>3, UsedOK, DownStep DEF LinkCloses, LinkLost
  <1>4. CASE UNCHANGED vars
    BY <1>4 DEF vars, Inv, TypeOK
  <1> QED
    BY <1>1, <1>2, <1>3, <1>4, EncryptStep, EncryptionFailsStep DEF Next

(* The inductive invariant of the search for roles (peer_find_role_sm.c    *)
(* and the handlers behind it).                                            *)
THEOREM Invariance == Spec => []Inv
  BY InitInv, NextInv, PTL DEF Spec

(* The search keeps its data within their types, and the link, the queues  *)
(* and the messages in the air within theirs.                              *)
THEOREM TypeCorrect == Spec => []TypeOK
  <1>1. Inv => TypeOK
    BY DEF Inv
  <1> QED
    BY <1>1, Invariance, PTL

(* The search never asks for the state it is in, at which                  *)
(* peer_find_role_set_state panics, in whatever order messages, timers,    *)
(* searches, cancellations and losses of the link come.                    *)
THEOREM NoPanic == Spec => []NeverPanics
  <1>1. Inv => NeverPanics
    BY DEF Inv, NeverPanics, Running, EarbudInv, StateInv
  <1> QED
    BY <1>1, Invariance, PTL

(* An earbud that connects to the peer has its scanner off:                *)
(* CONNECT_TO_PEER waits for STOP_CFM, also when the scan was wanted again *)
(* in between (peer_find_role_sm.c, CONNECTING_TO_DISCOVERED).             *)
THEOREM ScanStopsFirst == Spec => []ConnectsWithoutScanning
  <1>1. Inv => ConnectsWithoutScanning
    BY DEF Inv, ConnectsWithoutScanning, EarbudInv, StateInv
  <1> QED
    BY <1>1, Invariance, PTL

(* The timeout of the search is running only while the earbud is looking   *)
(* for its peer, so that it cannot make an earbud with a link the acting   *)
(* primary.                                                                *)
THEOREM TimesOutAlone == Spec => []AloneWhenTimedOut
  <1>1. Inv => AloneWhenTimedOut
    BY DEF Inv, AloneWhenTimedOut, EarbudInv, StateInv
  <1> QED
    BY <1>1, Invariance, PTL

-----------------------------------------------------------------------------
(* The roles.  What an earbud has written over a link is known to its      *)
(* peer, to the traffic in flight, to the messages in both queues and to   *)
(* what either earbud announces; the invariant says that they all agree    *)
(* with one history of writes, in which a link is written over once.       *)

(* The messages that tell an earbud something of a role or of a link. *)
Heavy == {"CHANGE_ROLE_IND", "COMMAND_CFM", "GATT_CONNECT", "CLIENT_INIT_CFM"}

Confirm(a, n) == Msg("COMMAND_CFM", a, n)

Told(role, n) == Msg("CHANGE_ROLE_IND", role, n)

(* The queue p holds no heavy message that q does not, and those it holds  *)
(* in the order of q.                                                      *)
Holds(p, q) ==
    /\ \A m : m.type \in Heavy /\ Queued(m, p) => Queued(m, q)
    /\ \A m : m.type \in Heavy /\ Once(m, q) => Once(m, p)
    /\ \A m, n : m.type \in Heavy /\ n.type \in Heavy /\ Ahead(m, n, q) => Ahead(m, n, p)

DecidingStates ==
    {"CLIENT", "CLIENT_AWAITING_ENCRYPTION", "CLIENT_PREPARING", "CLIENT_DECIDING"}

(* A client that has not written the role of its peer yet, or may write it *)
(* once it hears that it is ready.                                         *)
Deciding(r) == r.state \in DecidingStates \/ Queued(ClientInit, r.queue)

(* The client of the GATT library is there only in the states of a client. *)
Clienting(r) == r.client => r.state \in ClientStates \ {"COMPLETED"} /\ r.gatt_cid

(* The advertisement is there only in the states that advertise. *)
Bare(r) == r.advert_handle => r.state \in AdvertisingStates

(* The outcome o is one of S, or was not given over a link. *)
Passes(o, S) == o.end = "none" \/ o \in S

(* From r to s an earbud, whose link is up or not, has written no role and *)
(* become no client, and announces nothing new but the outcomes of G.      *)
Tame(r, s, up, G) ==
    /\ s.remote_role = r.remote_role
    /\ s.client => r.client
    /\ s.connecting => r.connecting \/ (~up /\ ~s.client)
    /\ Bare(r) => Bare(s)
    /\ Holds(s.queue, r.queue)
    /\ Passes(s.outcome, {r.outcome, r.selected_role} \cup G)
    /\ Passes(s.selected_role, {r.selected_role} \cup G)

(* From w to v the link has stayed, and nothing was sent that is about a   *)
(* role.                                                                   *)
Light(w, v) ==
    /\ v.link.up = w.link.up /\ v.link.id = w.link.id /\ v.link.gatt = w.link.gatt
    /\ \A f \in Earbud : \A p :
          Queued(p, v.air[f])
            => \/ Queued(p, w.air[f])
               \/ /\ w.link.up /\ p.link = w.link.id
                  /\ p.type \notin {"CHANGE_ROLE", "CHANGE_ROLE_RSP"}

Gentle(w, v, G) == v \in Worlds /\ Tame(w.me, v.me, w.link.up, G) /\ Light(w, v)

(* The same, and the earbud has not begun to decide. *)
Quiet(w, v, G) == Gentle(w, v, G) /\ (Deciding(v.me) => Deciding(w.me))

(* The two agree in all that these relations are about but the queue. *)
Like(r, s) ==
    /\ s.state = r.state /\ s.gatt_cid = r.gatt_cid /\ s.client = r.client
    /\ s.remote_role = r.remote_role /\ s.connecting = r.connecting
    /\ s.advert_handle = r.advert_handle /\ s.outcome = r.outcome
    /\ s.selected_role = r.selected_role

(* A queue holds what lies within it, and within what it holds. *)
LEMMA HoldsWithin ==
    ASSUME NEW p, NEW q, Within(p, q)
    PROVE  Holds(p, q)
  BY DEF Holds, Within

(* What a queue holds of one that holds nothing new holds nothing new. *)
LEMMA HoldsTrans ==
    ASSUME NEW p, NEW q, NEW s, Holds(p, q), Holds(q, s)
    PROVE  Holds(p, s)
  BY DEF Holds

(* A light message is of no concern. *)
LEMMA HoldsAppend ==
    ASSUME NEW q \in Seq(Messages), NEW m \in Messages, m.type \notin Heavy
    PROVE  Holds(Append(q, m), q)
  <1>1. /\ \A n : Queued(n, Append(q, m)) <=> Queued(n, q) \/ n = m
        /\ \A n : Once(n, q) /\ ~(n = m /\ Queued(n, q)) => Once(n, Append(q, m))
        /\ \A n, o : Ahead(n, o, q) /\ n # o /\ ~(n = m /\ Queued(o, q))
                        => Ahead(n, o, Append(q, m))
    BY AppendQueue
  <1>2. \A n : n.type \in Heavy /\ Ahead(n, n, q) => Ahead(n, n, Append(q, m))
    <2> SUFFICES ASSUME NEW n, n.type \in Heavy, Ahead(n, n, q)
                 PROVE  Ahead(n, n, Append(q, m))
      OBVIOUS
    <2>1. ~Queued(n, Append(q, m))
      <3>1. \A i \in DOMAIN q : q[i] = n => i < i
        BY DEF Ahead
      <3>2. DOMAIN q \subseteq Nat
        OBVIOUS
      <3>3. \A i \in DOMAIN q : q[i] # n
        BY <3>1, <3>2
      <3> QED
        BY <1>1, <3>3 DEF Queued
    <2> QED
      BY <2>1 DEF Ahead, Queued
  <1> QED
    BY <1>1, <1>2 DEF Holds

(* What is alike but for light messages is tame. *)
LEMMA LikeTame ==
    ASSUME NEW r, NEW s, NEW up, NEW G, Like(r, s), Holds(s.queue, r.queue)
    PROVE  /\ Tame(r, s, up, G) /\ (Deciding(s) => Deciding(r))
           /\ (Clienting(r) => Clienting(s))
  <1>1. ClientInit.type \in Heavy
    BY DEF ClientInit, Signal, Msg, Heavy
  <1>2. Deciding(s) => Deciding(r)
    BY <1>1 DEF Deciding, Like, Holds
  <1>3. Passes(s.outcome, {r.outcome, r.selected_role} \cup G)
        /\ Passes(s.selected_role, {r.selected_role} \cup G)
    BY DEF Like, Passes
  <1>4. Bare(r) => Bare(s)
    BY DEF Like, Bare
  <1>5. Clienting(r) => Clienting(s)
    BY DEF Like, Clienting
  <1>6. /\ s.remote_role = r.remote_role
        /\ (s.client => r.client)
        /\ (s.connecting => r.connecting)
    BY DEF Like
  <1>7. Tame(r, s, up, G)
    BY <1>3, <1>4, <1>6 DEF Tame
  <1> QED
    BY <1>2, <1>5, <1>7

(* What is alike but for the outcomes. *)
LEMMA OutcomesTame ==
    ASSUME NEW r, NEW s, NEW up, NEW G,
           s.remote_role = r.remote_role, s.client = r.client, s.connecting = r.connecting,
           s.advert_handle = r.advert_handle, s.state = r.state, s.queue = r.queue,
           Passes(s.outcome, {r.outcome, r.selected_role} \cup G),
           Passes(s.selected_role, {r.selected_role} \cup G)
    PROVE  Tame(r, s, up, G) /\ (Deciding(s) => Deciding(r))
  <1>1. Holds(s.queue, r.queue)
    BY WithinSame, HoldsWithin
  <1>2. (s.client => r.client) /\ (s.connecting => r.connecting)
    OBVIOUS
  <1>3. Bare(r) => Bare(s)
    BY DEF Bare
  <1>4. Deciding(s) => Deciding(r)
    BY DEF Deciding
  <1> QED
    BY <1>1, <1>2, <1>3, <1>4 DEF Tame

(* Two tame steps are one. *)
LEMMA TameTrans ==
    ASSUME NEW r, NEW s, NEW t, NEW up, NEW G, Tame(r, s, up, G), Tame(s, t, up, G)
    PROVE  Tame(r, t, up, G)
  <1>1. Holds(t.queue, r.queue)
    BY HoldsTrans DEF Tame
  <1> QED
    BY <1>1 DEF Tame, Passes

(* Two light steps are one. *)
LEMMA LightTrans ==
    ASSUME NEW w, NEW v, NEW x, Light(w, v), Light(v, x)
    PROVE  Light(w, x)
  BY DEF Light

(* Two gentle steps are one. *)
LEMMA GentleTrans ==
    ASSUME NEW w, NEW v, NEW x, NEW G, Gentle(w, v, G), Gentle(v, x, G)
    PROVE  Gentle(w, x, G)
  <1>1. Light(w, x)
    BY LightTrans DEF Gentle
  <1>2. Tame(w.me, x.me, w.link.up, G)
    BY TameTrans DEF Gentle, Light
  <1> QED
    BY <1>1, <1>2 DEF Gentle

(* Two quiet steps are one. *)
LEMMA QuietTrans ==
    ASSUME NEW w, NEW v, NEW x, NEW G, Quiet(w, v, G), Quiet(v, x, G)
    PROVE  Quiet(w, x, G)
  BY GentleTrans DEF Quiet

(* An update of the earbud that is tame is gentle. *)
LEMMA GentleUpdate ==
    ASSUME NEW w \in Worlds, NEW r \in EarbudData, NEW G, Tame(w.me, r, w.link.up, G)
    PROVE  Gentle(w, [w EXCEPT !.me = r], G)
  <1> DEFINE v == [w EXCEPT !.me = r]
  <1>1. v \in Worlds /\ v.me = r /\ v.link = w.link /\ v.air = w.air
    BY EarbudUpdate
  <1> HIDE DEF v
  <1> QED
    BY <1>1 DEF Gentle, Light, v

(* An update of what these relations are not about. *)
LEMMA QuietUpdate ==
    ASSUME NEW w \in Worlds, NEW r \in EarbudData, NEW G, Like(w.me, r),
           Holds(r.queue, w.me.queue)
    PROVE  LET v == [w EXCEPT !.me = r]
           IN  /\ Quiet(w, v, G) /\ v \in Worlds /\ v.me = r /\ Like(w.me, v.me)
               /\ (Clienting(w.me) => Clienting(v.me))
  <1> DEFINE v == [w EXCEPT !.me = r]
  <1>1. v \in Worlds /\ v.me = r
    BY EarbudUpdate
  <1>2. /\ Tame(w.me, r, w.link.up, G) /\ (Deciding(r) => Deciding(w.me))
        /\ (Clienting(w.me) => Clienting(r))
    BY LikeTame
  <1>3. Gentle(w, v, G)
    BY <1>2, GentleUpdate
  <1> HIDE DEF v
  <1> QED
    BY <1>1, <1>2, <1>3 DEF Quiet, v

(* An update of the outcomes, or of the GATT connection. *)
LEMMA QuietOutcomes ==
    ASSUME NEW w \in Worlds, NEW r \in EarbudData, NEW G,
           r.remote_role = w.me.remote_role, r.client = w.me.client,
           r.connecting = w.me.connecting, r.advert_handle = w.me.advert_handle,
           r.state = w.me.state, r.queue = w.me.queue,
           Passes(r.outcome, {w.me.outcome, w.me.selected_role} \cup G),
           Passes(r.selected_role, {w.me.selected_role} \cup G)
    PROVE  LET v == [w EXCEPT !.me = r]
           IN  Quiet(w, v, G) /\ v \in Worlds /\ v.me = r
  <1> DEFINE v == [w EXCEPT !.me = r]
  <1>1. Tame(w.me, r, w.link.up, G) /\ (Deciding(r) => Deciding(w.me))
    BY OutcomesTame
  <1>2. Gentle(w, v, G) /\ v \in Worlds /\ v.me = r
    BY <1>1, GentleUpdate, EarbudUpdate
  <1> HIDE DEF v
  <1> QED
    BY <1>1, <1>2 DEF Quiet, v

(* Nothing is as quiet as doing nothing. *)
LEMMA QuietSame ==
    ASSUME NEW w \in Worlds, NEW G
    PROVE  Quiet(w, w, G)
  <1>1. Like(w.me, w.me) /\ Holds(w.me.queue, w.me.queue)
    BY WithinSame, HoldsWithin DEF Like
  <1>2. Tame(w.me, w.me, w.link.up, G)
    BY <1>1, LikeTame
  <1> QED
    BY <1>2 DEF Quiet, Gentle, Light

-----------------------------------------------------------------------------
(* What the helpers do to all this. *)

(* Releasing the link closes it, or gives up connecting. *)
LEMMA ReleaseQuiet ==
    ASSUME NEW w \in Worlds, NEW G
    PROVE  LET v == Release(w)
           IN  /\ Quiet(w, v, G) /\ v \in Worlds
               /\ v.me.state = w.me.state /\ v.me.gatt_cid = w.me.gatt_cid
               /\ v.me.client = w.me.client
  <1> DEFINE v == Release(w)
             Kept == /\ Quiet(w, v, G) /\ v \in Worlds
                     /\ v.me.state = w.me.state /\ v.me.gatt_cid = w.me.gatt_cid
                     /\ v.me.client = w.me.client
  <1> SUFFICES Kept
    OBVIOUS
  <1> HIDE DEF v
  <1>1. CASE ~w.me.peer_addr
    <2>1. v = w
      BY <1>1 DEF v, Release
    <2> QED
      BY <2>1, QuietSame
  <1>2. CASE w.me.peer_addr /\ w.link.up
    <2> DEFINE l == [w.link EXCEPT !.closing = TRUE]
    <2>1. l \in Links /\ l.up = w.link.up /\ l.id = w.link.id /\ l.gatt = w.link.gatt
      BY DEF Worlds, Links
    <2>2. v = [w EXCEPT !.link = l]
      BY <1>2 DEF v, Release, Worlds
    <2> HIDE DEF l
    <2>3. v \in Worlds /\ v.me = w.me /\ v.link = l /\ v.air = w.air
      BY <2>1, <2>2 DEF Worlds
    <2>4. Quiet(w, w, G)
      BY QuietSame
    <2> QED
      BY <2>1, <2>3, <2>4 DEF Quiet, Gentle, Light
  <1>3. CASE w.me.peer_addr /\ ~w.link.up
    <2> DEFINE r == [w.me EXCEPT !.connecting = FALSE]
    <2>1. v = [w EXCEPT !.me = r]
      BY <1>3 DEF v, Release, Worlds
    <2>2. /\ r \in EarbudData /\ Like(w.me, [r EXCEPT !.connecting = w.me.connecting])
          /\ ~r.connecting /\ r.queue = w.me.queue
      BY DEF Worlds, EarbudData, Like
    <2> HIDE DEF r
    <2>3. /\ r.state = w.me.state /\ r.gatt_cid = w.me.gatt_cid /\ r.client = w.me.client
          /\ r.remote_role = w.me.remote_role /\ r.advert_handle = w.me.advert_handle
          /\ r.outcome = w.me.outcome /\ r.selected_role = w.me.selected_role
      BY <2>2 DEF Like, EarbudData
    <2>4. Holds(r.queue, w.me.queue)
      BY <2>2, WithinSame, HoldsWithin
    <2>5. Tame(w.me, r, w.link.up, G)
      BY <2>2, <2>3, <2>4 DEF Tame, Bare, Passes
    <2>6. Gentle(w, v, G) /\ v.me = r /\ v \in Worlds
      BY <2>1, <2>2, <2>5, GentleUpdate, EarbudUpdate
    <2> QED
      BY <2>2, <2>3, <2>6 DEF Quiet, Deciding
  <1> QED
    BY <1>1, <1>2, <1>3

(* Disconnecting the link is releasing it. *)
LEMMA DisconnectLinkQuiet ==
    ASSUME NEW w \in Worlds, NEW G
    PROVE  LET v == DisconnectLink(w)
           IN  /\ Quiet(w, v, G) /\ v \in Worlds
               /\ v.me.state = w.me.state /\ v.me.gatt_cid = w.me.gatt_cid
               /\ v.me.client = w.me.client
  <1> DEFINE r == [w.me EXCEPT !.gatt_encrypted = FALSE]
             u == [w EXCEPT !.me = r]
             v == Release(u)
  <1>1. r \in EarbudData /\ Like(w.me, r) /\ r.queue = w.me.queue
    BY DEF Worlds, EarbudData, Like
  <1>2. DisconnectLink(w) = IF w.me.gatt_cid THEN v ELSE u
    BY DEF DisconnectLink, Worlds
  <1> HIDE DEF r
  <1>3. Quiet(w, u, G) /\ u \in Worlds /\ Like(w.me, u.me)
    BY <1>1, WithinSame, HoldsWithin, QuietUpdate
  <1> HIDE DEF u
  <1>4. /\ Quiet(u, v, G) /\ v \in Worlds
        /\ v.me.state = u.me.state /\ v.me.gatt_cid = u.me.gatt_cid
        /\ v.me.client = u.me.client
    BY <1>3, ReleaseQuiet
  <1> HIDE DEF v
  <1>5. Quiet(w, v, G)
    BY <1>3, <1>4, QuietTrans
  <1> QED
    BY <1>2, <1>3, <1>4, <1>5 DEF Like

(* The clients are told of an outcome that may be given. *)
LEMMA NotifyImmediatelyQuiet ==
    ASSUME NEW w \in Worlds, NEW G, NEW o \in Announced,
           Passes(o, {w.me.outcome, w.me.selected_role} \cup G)
    PROVE  LET v == NotifyImmediately(w, o)
           IN  /\ Quiet(w, v, G) /\ v \in Worlds
               /\ v.me.state = w.me.state /\ v.me.gatt_cid = w.me.gatt_cid
               /\ v.me.client = w.me.client
  <1> DEFINE r == [w.me EXCEPT !.timers = @ \ {"DISCOVERY"}, !.outcome = o]
             v == [w EXCEPT !.me = r]
  <1>1. /\ r \in EarbudData /\ r.queue = w.me.queue /\ r.outcome = o
        /\ Like(w.me, [r EXCEPT !.outcome = w.me.outcome])
    BY DEF Worlds, EarbudData, Like, Announced
  <1>2. NotifyImmediately(w, o) = v
    BY DEF NotifyImmediately, Worlds, EarbudData
  <1> HIDE DEF r
  <1>3. /\ r.state = w.me.state /\ r.gatt_cid = w.me.gatt_cid /\ r.client = w.me.client
        /\ r.remote_role = w.me.remote_role /\ r.advert_handle = w.me.advert_handle
        /\ r.connecting = w.me.connecting /\ r.selected_role = w.me.selected_role
    BY <1>1 DEF Like, EarbudData
  <1>4. /\ Passes(r.outcome, {w.me.outcome, w.me.selected_role} \cup G)
        /\ Passes(r.selected_role, {w.me.selected_role} \cup G)
    BY <1>1, <1>3 DEF Passes
  <1>5. Tame(w.me, r, w.link.up, G) /\ (Deciding(r) => Deciding(w.me))
    BY <1>1, <1>3, <1>4, OutcomesTame
  <1>6. Gentle(w, v, G) /\ v.me = r /\ v \in Worlds
    BY <1>1, <1>5, GentleUpdate, EarbudUpdate
  <1> HIDE DEF v
  <1> QED
    BY <1>2, <1>3, <1>5, <1>6 DEF Quiet

(* What is announced is the role that was selected. *)
LEMMA NotifyIfPendingQuiet ==
    ASSUME NEW w \in Worlds, NEW G
    PROVE  LET v == NotifyIfPending(w)
           IN  /\ Quiet(w, v, G) /\ v \in Worlds
               /\ v.me.state = w.me.state /\ v.me.gatt_cid = w.me.gatt_cid
               /\ v.me.client = w.me.client
  <1> DEFINE o == w.me.selected_role
             n == NotifyImmediately(w, o)
             u == IF o = NoRole THEN w ELSE n
             r == [u.me EXCEPT !.selected_role = NoRole]
             x == [u EXCEPT !.me = r]
  <1>1. o \in Announced /\ NoRole \in Stored /\ NoRole.end = "none"
    BY StoredOutcomes DEF Worlds, EarbudData, Stored, NoRole, Alone, Outcome
  <1>2. NotifyIfPending(w) = x
    <2>1. CASE o = NoRole
      BY <2>1 DEF NotifyIfPending
    <2>2. CASE o # NoRole
      <3> DEFINE a == [w.me EXCEPT !.selected_role = NoRole]
                 b == [a EXCEPT !.timers = @ \ {"DISCOVERY"}, !.outcome = o]
                 c == [w.me EXCEPT !.timers = @ \ {"DISCOVERY"}, !.outcome = o]
                 d == [c EXCEPT !.selected_role = NoRole]
      <3>1. b = d
        BY DEF Worlds, EarbudData
      <3>2. NotifyIfPending(w) = [w EXCEPT !.me = b]
        BY <2>2 DEF NotifyIfPending, NotifyImmediately, Worlds
      <3>3. x = [w EXCEPT !.me = d]
        BY <2>2 DEF NotifyImmediately, Worlds
      <3> QED
        BY <3>1, <3>2, <3>3
    <2> QED
      BY <2>1, <2>2
  <1>3. Passes(o, {w.me.outcome, w.me.selected_role} \cup G)
    BY DEF Passes
  <1> HIDE DEF o
  <1>4. /\ Quiet(w, n, G) /\ n \in Worlds
        /\ n.me.state = w.me.state /\ n.me.gatt_cid = w.me.gatt_cid
        /\ n.me.client = w.me.client
    BY <1>1, <1>3, NotifyImmediatelyQuiet
  <1> HIDE DEF n
  <1>5. /\ Quiet(w, u, G) /\ u \in Worlds
        /\ u.me.state = w.me.state /\ u.me.gatt_cid = w.me.gatt_cid
        /\ u.me.client = w.me.client
    BY <1>4, QuietSame
  <1> HIDE DEF u
  <1>6. /\ r \in EarbudData /\ r.queue = u.me.queue /\ r.selected_role = NoRole
        /\ Like(u.me, [r EXCEPT !.selected_role = u.me.selected_role])
    BY <1>1, <1>5 DEF Worlds, EarbudData, Like, Stored
  <1> HIDE DEF r
  <1>7. /\ r.state = u.me.state /\ r.gatt_cid = u.me.gatt_cid /\ r.client = u.me.client
        /\ r.remote_role = u.me.remote_role /\ r.advert_handle = u.me.advert_handle
        /\ r.connecting = u.me.connecting /\ r.outcome = u.me.outcome
    BY <1>6 DEF Like, EarbudData
  <1>8. /\ Passes(r.outcome, {u.me.outcome, u.me.selected_role} \cup G)
        /\ Passes(r.selected_role, {u.me.selected_role} \cup G)
    BY <1>1, <1>6, <1>7 DEF Passes
  <1>9. Tame(u.me, r, u.link.up, G) /\ (Deciding(r) => Deciding(u.me))
    BY <1>6, <1>7, <1>8, OutcomesTame
  <1>10. Gentle(u, x, G) /\ x.me = r /\ x \in Worlds
    BY <1>5, <1>6, <1>9, GentleUpdate, EarbudUpdate
  <1> HIDE DEF x
  <1>11. Quiet(u, x, G)
    BY <1>9, <1>10 DEF Quiet
  <1>12. Quiet(w, x, G)
    BY <1>5, <1>11, QuietTrans
  <1> QED
    BY <1>2, <1>5, <1>7, <1>10, <1>12

(* Stopping the scan is of no concern. *)
LEMMA StopScanLike ==
    ASSUME NEW r \in EarbudData
    PROVE  LET s == StopScanIfActive(r)
           IN  s \in EarbudData /\ Like(r, s) /\ s.queue = r.queue
  BY DEF StopScanIfActive, EarbudData, Like

(* Starting the scan is of no concern: it cancels a light message. *)
LEMMA StartScanLike ==
    ASSUME NEW r \in EarbudData
    PROVE  LET s == StartScanningIfInactive(r)
           IN  /\ s \in EarbudData /\ Like(r, s) /\ Holds(s.queue, r.queue)
  <1> DEFINE q == CancelAll(r.queue, {Signal("STOP_CFM")})
             n == IF r.scan = "stopping" THEN r.scan ELSE "on"
             s == [r EXCEPT !.scan = n, !.queue = q, !.scan_enable = TRUE, !.peer_addr = FALSE]
  <1>1. r.queue \in Seq(Messages)
    BY DEF EarbudData
  <1>2. q \in Seq(Messages) /\ Holds(q, r.queue)
    BY <1>1, CancelAllQueue, WithinCancelled, HoldsWithin
  <1>3. StartScanningIfInactive(r) = IF r.confirming_primary \/ r.scan = "on" THEN r ELSE s
    BY DEF StartScanningIfInactive, EarbudData
  <1>4. n \in {"on", "stopping"}
    OBVIOUS
  <1> HIDE DEF q, n
  <1>5. s \in EarbudData /\ Like(r, s) /\ s.queue = q
    BY <1>2, <1>4 DEF EarbudData, Like
  <1> HIDE DEF s
  <1>6. Like(r, r) /\ Holds(r.queue, r.queue)
    BY WithinSame, HoldsWithin DEF Like
  <1> QED
    BY <1>2, <1>3, <1>5, <1>6

-----------------------------------------------------------------------------
(* What the changes of state do to all this. *)

(* Leaving a state takes the client and the advertisement away, where the  *)
(* next state is not to have them.                                         *)
LEMMA ExitLike ==
    ASSUME NEW r \in EarbudData, NEW new
    PROVE  LET s == ExitEarbud(r, new)
               leaves == r.gatt_cid /\ r.state \in ClientStates /\ new \notin ClientStates
               hides == r.state \in AdvertisingStates /\ new \notin AdvertisingStates
           IN  /\ s \in EarbudData /\ s.queue = r.queue /\ s.remote_role = r.remote_role
               /\ s.connecting = r.connecting /\ s.outcome = r.outcome
               /\ s.selected_role = r.selected_role
               /\ s.client = IF leaves THEN FALSE ELSE r.client
               /\ s.gatt_cid = IF leaves THEN FALSE ELSE r.gatt_cid
               /\ s.advert_handle = IF hides THEN FALSE ELSE r.advert_handle
  <1> DEFINE old == r.state
             a == IF old \in DOMAIN ExitTimers
                  THEN [r EXCEPT !.timers = @ \ {ExitTimers[old]}] ELSE r
             stops == \/ old = "DISCOVER" /\ new # "DISCOVER_CONNECTABLE"
                      \/ old = "DISCOVER_CONNECTABLE"
             b == IF stops THEN StopScanIfActive(a) ELSE a
             hides == old \in AdvertisingStates /\ new \notin AdvertisingStates
             c == IF hides THEN [b EXCEPT !.advert_handle = FALSE] ELSE b
             leaves == r.gatt_cid /\ old \in ClientStates /\ new \notin ClientStates
             s == IF leaves
                  THEN [c EXCEPT !.client = FALSE, !.gatt_cid = FALSE, !.gatt_encrypted = FALSE]
                  ELSE c
  <1>1. ExitEarbud(r, new) = s
    BY DEF ExitEarbud
  <1>2. a \in EarbudData /\ Like(r, a) /\ a.queue = r.queue
    BY DEF EarbudData, Like
  <1> HIDE DEF a, stops, hides, leaves
  <1>3. b \in EarbudData /\ Like(a, b) /\ b.queue = a.queue
    <2>1. CASE stops
      BY <1>2, <2>1, StopScanLike
    <2>2. CASE ~stops
      BY <1>2, <2>2 DEF Like
    <2> QED
      BY <2>1, <2>2
  <1> HIDE DEF b
  <1>4. /\ c \in EarbudData /\ Like(b, [c EXCEPT !.advert_handle = b.advert_handle])
        /\ c.queue = b.queue /\ c.advert_handle = IF hides THEN FALSE ELSE b.advert_handle
    <2>1. CASE hides
      BY <1>3, <2>1 DEF EarbudData, Like
    <2>2. CASE ~hides
      BY <1>3, <2>2 DEF EarbudData, Like
    <2> QED
      BY <2>1, <2>2
  <1> HIDE DEF c
  <1>5. /\ c.queue = r.queue /\ c.remote_role = r.remote_role
        /\ c.connecting = r.connecting /\ c.outcome = r.outcome
        /\ c.selected_role = r.selected_role /\ c.client = r.client
        /\ c.gatt_cid = r.gatt_cid
        /\ c.advert_handle = IF hides THEN FALSE ELSE r.advert_handle
    BY <1>2, <1>3, <1>4 DEF Like, EarbudData
  <1>6. /\ s \in EarbudData /\ s.queue = c.queue /\ s.remote_role = c.remote_role
        /\ s.connecting = c.connecting /\ s.outcome = c.outcome
        /\ s.selected_role = c.selected_role /\ s.advert_handle = c.advert_handle
        /\ s.client = IF leaves THEN FALSE ELSE c.client
        /\ s.gatt_cid = IF leaves THEN FALSE ELSE c.gatt_cid
    <2>1. CASE leaves
      BY <1>4, <2>1 DEF EarbudData
    <2>2. CASE ~leaves
      BY <1>4, <2>2
    <2> QED
      BY <2>1, <2>2
  <1> HIDE DEF s
  <1> QED
    BY <1>1, <1>5, <1>6 DEF leaves, hides

(* A change of state is gentle, and quiet unless it enters a state in      *)
(* which a client decides.                                                 *)
LEMMA MoveGentle ==
    ASSUME NEW w \in Worlds, NEW G, NEW new \in States,
           w.me.state = new => new \notin AdvertisingStates
    PROVE  LET v == Move(w, new)
           IN  /\ Gentle(w, v, G) /\ v \in Worlds
               /\ v.me.state = IF w.me.state \in {new, "PANIC"} THEN "PANIC" ELSE new
               /\ (new \notin DecidingStates => Quiet(w, v, G))
               /\ (Clienting(w.me) /\ new \notin ClientStates => ~v.me.client)
               /\ (new \in ClientStates => v.me.gatt_cid = w.me.gatt_cid)
               /\ (v.me.gatt_cid => w.me.gatt_cid)
  <1> DEFINE old == w.me.state
             u == CASE old = "DISCOVERED_DEVICE" /\ w.me.scan # "off"
                         -> Unpost(w, "CONNECT_TO_PEER")
                    [] old \in {"SERVER_PREPARING", "CLIENT_PREPARING"} -> Unpost(w, "PREPARED")
                    [] /\ old = "CONNECTING_TO_DISCOVERED"
                       /\ new \notin {"SERVER_AWAITING_ENCRYPTION", "CLIENT"} -> Release(w)
                    [] OTHER -> w
             x == ExitEarbud(u.me, new)
             next == IF old \in {new, "PANIC"} THEN "PANIC" ELSE new
             r == [x EXCEPT !.state = next]
             v == [u EXCEPT !.me = r]
             leaves == w.me.gatt_cid /\ old \in ClientStates /\ new \notin ClientStates
             hides == old \in AdvertisingStates /\ new \notin AdvertisingStates
  <1>1. Move(w, new) = v
    BY DEF Move
  <1>2. u \in {Unpost(w, "CONNECT_TO_PEER"), Unpost(w, "PREPARED"), Release(w), w}
    OBVIOUS
  <1> HIDE DEF u
  <1> DEFINE Left == /\ Quiet(w, u, G) /\ u \in Worlds
                     /\ u.me.state = old /\ u.me.gatt_cid = w.me.gatt_cid
                     /\ u.me.client = w.me.client
  <1>3. Left
    <2>1. ASSUME NEW t \in Signals, u = Unpost(w, t)
          PROVE  Left
      <3> DEFINE q == CancelAll(w.me.queue, {Signal(t)})
                 s == [w.me EXCEPT !.queue = q]
      <3>1. /\ u \in Worlds /\ u.link = w.link /\ Within(u.me.queue, w.me.queue)
            /\ u.me = s /\ u.me \in EarbudData
        BY <2>1, UnpostOK
      <3>2. Like(w.me, s)
        BY DEF Worlds, EarbudData, Like
      <3>3. u = [w EXCEPT !.me = s]
        BY <2>1 DEF Unpost, Worlds
      <3> HIDE DEF s
      <3>4. Quiet(w, u, G) /\ Like(w.me, u.me)
        BY <3>1, <3>2, <3>3, HoldsWithin, QuietUpdate
      <3> QED
        BY <3>1, <3>4 DEF Like
    <2>2. CASE u = Release(w)
      BY <2>2, ReleaseQuiet
    <2>3. CASE u = w
      BY <2>3, QuietSame
    <2> QED
      BY <1>2, <2>1, <2>2, <2>3 DEF Signals
  <1>4. u.me \in EarbudData /\ next \in States
    BY <1>3 DEF Worlds, States
  <1>5. /\ x \in EarbudData /\ x.queue = u.me.queue /\ x.remote_role = u.me.remote_role
        /\ x.connecting = u.me.connecting /\ x.outcome = u.me.outcome
        /\ x.selected_role = u.me.selected_role
        /\ x.client = (IF leaves THEN FALSE ELSE u.me.client)
        /\ x.gatt_cid = (IF leaves THEN FALSE ELSE u.me.gatt_cid)
        /\ x.advert_handle = (IF hides THEN FALSE ELSE u.me.advert_handle)
    BY <1>3, <1>4, ExitLike
  <1> HIDE DEF x
  <1>6. /\ r \in EarbudData /\ r.state = next /\ r.queue = x.queue
        /\ r.remote_role = x.remote_role /\ r.connecting = x.connecting
        /\ r.outcome = x.outcome /\ r.selected_role = x.selected_role
        /\ r.client = x.client /\ r.gatt_cid = x.gatt_cid
        /\ r.advert_handle = x.advert_handle
    BY <1>4, <1>5 DEF EarbudData
  <1> HIDE DEF r
  <1>7. Bare(u.me) => Bare(r)
    BY <1>3, <1>5, <1>6 DEF Bare, AdvertisingStates
  <1>8. Holds(r.queue, u.me.queue)
    BY <1>5, <1>6, WithinSame, HoldsWithin
  <1>9. /\ Passes(r.outcome, {u.me.outcome, u.me.selected_role} \cup G)
        /\ Passes(r.selected_role, {u.me.selected_role} \cup G)
    BY <1>5, <1>6 DEF Passes
  <1>10. (r.client => u.me.client) /\ (r.connecting => u.me.connecting)
    BY <1>5, <1>6
  <1>11. Tame(u.me, r, u.link.up, G)
    BY <1>5, <1>6, <1>7, <1>8, <1>9, <1>10 DEF Tame
  <1>12. Gentle(u, v, G) /\ v.me = r /\ v \in Worlds
    BY <1>3, <1>6, <1>11, GentleUpdate, EarbudUpdate
  <1> HIDE DEF v
  <1>13. Gentle(w, v, G)
    BY <1>3, <1>12, GentleTrans DEF Quiet
  <1>14. new \notin DecidingStates => (Deciding(r) => Deciding(w.me))
    <2>1. new \notin DecidingStates => next \notin DecidingStates
      BY DEF DecidingStates
    <2>2. Queued(ClientInit, r.queue) => Queued(ClientInit, u.me.queue)
      BY <1>5, <1>6
    <2> QED
      BY <1>3, <1>6, <2>1, <2>2 DEF Deciding, Quiet
  <1>15. Clienting(w.me) /\ new \notin ClientStates => ~r.client
    BY <1>3, <1>5, <1>6 DEF Clienting
  <1>16. (r.gatt_cid => w.me.gatt_cid) /\ (new \in ClientStates => r.gatt_cid = w.me.gatt_cid)
    BY <1>3, <1>5, <1>6
  <1> HIDE DEF next
  <1> QED
    BY <1>1, <1>6, <1>12, <1>13, <1>14, <1>15, <1>16 DEF Quiet, next

(* Searching again, whatever the earbud was doing. *)
LEMMA ToDiscoverQuiet ==
    ASSUME NEW w \in Worlds, NEW G, Clienting(w.me)
    PROVE  LET v == ToDiscover(w)
           IN  Quiet(w, v, G) /\ v \in Worlds /\ ~v.me.client
  <1> DEFINE u == Move(w, "DISCOVER")
             r == StartScanningIfInactive(u.me)
             t == r.timers \cup ({"ADVERT_BACKOFF"}
                    \cup IF r.role_timeout /\ ~r.confirming_primary THEN {"DISCOVERY"} ELSE {})
             n == [u EXCEPT !.me = r]
             s == [r EXCEPT !.gatt_cid = FALSE, !.gatt_encrypted = FALSE, !.timers = t]
             x == [n EXCEPT !.me = s]
  <1>1. Quiet(w, u, G) /\ u \in Worlds /\ ~u.me.client
    BY MoveGentle DEF States, AdvertisingStates, ClientStates, DecidingStates
  <1> HIDE DEF u
  <1>2. r \in EarbudData /\ Like(u.me, r) /\ Holds(r.queue, u.me.queue)
    BY <1>1, StartScanLike DEF Worlds
  <1>3. ToDiscover(w) = [u EXCEPT !.me = [r EXCEPT !.gatt_cid = FALSE, !.gatt_encrypted = FALSE,
                             !.timers = @ \cup ({"ADVERT_BACKOFF"}
                                \cup IF r.role_timeout /\ ~r.confirming_primary
                                     THEN {"DISCOVERY"} ELSE {})]]
    BY DEF ToDiscover, u
  <1> HIDE DEF r
  <1>4. ToDiscover(w) = x
    BY <1>1, <1>2, <1>3 DEF Worlds, EarbudData
  <1>5. /\ Quiet(u, n, G) /\ n \in Worlds /\ n.me = r
    BY <1>1, <1>2, QuietUpdate
  <1> HIDE DEF n
  <1>6. t \in SUBSET Timers
    BY <1>2 DEF EarbudData, Timers
  <1> HIDE DEF t
  <1>7. /\ s \in EarbudData /\ s.remote_role = r.remote_role /\ s.client = r.client
        /\ s.connecting = r.connecting /\ s.advert_handle = r.advert_handle
        /\ s.state = r.state /\ s.queue = r.queue /\ s.outcome = r.outcome
        /\ s.selected_role = r.selected_role
    BY <1>2, <1>6 DEF EarbudData
  <1> HIDE DEF s
  <1>8. /\ Passes(s.outcome, {r.outcome, r.selected_role} \cup G)
        /\ Passes(s.selected_role, {r.selected_role} \cup G)
    BY <1>7 DEF Passes
  <1>9. Quiet(n, x, G) /\ x \in Worlds /\ x.me = s
    BY <1>5, <1>7, <1>8, QuietOutcomes
  <1> HIDE DEF x
  <1>10. Quiet(w, x, G)
    BY <1>1, <1>5, <1>9, QuietTrans
  <1>11. ~x.me.client
    BY <1>1, <1>2, <1>7, <1>9 DEF Like
  <1> QED
    BY <1>4, <1>9, <1>10, <1>11

(* The search is over. *)
LEMMA ToInitialisedQuiet ==
    ASSUME NEW w \in Worlds, NEW G, Clienting(w.me)
    PROVE  LET v == ToInitialised(w)
           IN  Quiet(w, v, G) /\ v \in Worlds /\ ~v.me.client
  <1> DEFINE u == Move(w, "INITIALISED")
             d == DisconnectLink(u)
             r == [d.me EXCEPT !.confirming_primary = FALSE]
             n == [d EXCEPT !.me = r]
             x == NotifyIfPending(n)
  <1>1. Quiet(w, u, G) /\ u \in Worlds /\ ~u.me.client
    BY MoveGentle DEF States, AdvertisingStates, ClientStates, DecidingStates
  <1>2. ToInitialised(w) = NotifyIfPending([d EXCEPT !.me.confirming_primary = FALSE])
    BY DEF ToInitialised
  <1> HIDE DEF u
  <1>3. /\ Quiet(u, d, G) /\ d \in Worlds /\ d.me.client = u.me.client
    BY <1>1, DisconnectLinkQuiet
  <1> HIDE DEF d
  <1>4. ToInitialised(w) = x
    BY <1>2, <1>3 DEF Worlds
  <1>5. r \in EarbudData /\ Like(d.me, r) /\ r.queue = d.me.queue
    BY <1>3 DEF Worlds, EarbudData, Like
  <1> HIDE DEF r
  <1>6. Quiet(d, n, G) /\ n \in Worlds /\ Like(d.me, n.me)
    BY <1>3, <1>5, WithinSame, HoldsWithin, QuietUpdate
  <1> HIDE DEF n
  <1>7. Quiet(n, x, G) /\ x \in Worlds /\ x.me.client = n.me.client
    BY <1>6, NotifyIfPendingQuiet
  <1> HIDE DEF x
  <1>8. Quiet(w, x, G)
    BY <1>1, <1>3, <1>6, <1>7, QuietTrans
  <1> QED
    BY <1>1, <1>3, <1>4, <1>6, <1>7, <1>8 DEF Like

(* The links have gone. *)
LEMMA SelectStateQuiet ==
    ASSUME NEW w \in Worlds, NEW G, Clienting(w.me)
    PROVE  LET v == SelectStateAfterCompletion(w)
           IN  Quiet(w, v, G) /\ v \in Worlds /\ ~v.me.client
  BY ToDiscoverQuiet, ToInitialisedQuiet DEF SelectStateAfterCompletion

(* The links are to go. *)
LEMMA ToCompletedQuiet ==
    ASSUME NEW w \in Worlds, NEW G, Clienting(w.me)
    PROVE  LET v == ToCompleted(w)
           IN  Quiet(w, v, G) /\ v \in Worlds
  <1> DEFINE u == Move(w, "COMPLETED")
             d == DisconnectLink(u)
             c == SelectStateAfterCompletion(u)
  <1>1. Quiet(w, u, G) /\ u \in Worlds /\ u.me.gatt_cid = w.me.gatt_cid
    BY MoveGentle DEF States, AdvertisingStates, ClientStates, DecidingStates
  <1>2. ToCompleted(w) = IF u.me.gatt_cid THEN d ELSE c
    BY DEF ToCompleted
  <1> HIDE DEF u
  <1>3. CASE u.me.gatt_cid
    <2>1. Quiet(u, d, G) /\ d \in Worlds
      BY <1>1, DisconnectLinkQuiet
    <2> HIDE DEF d
    <2>2. Quiet(w, d, G)
      BY <1>1, <2>1, QuietTrans
    <2> QED
      BY <1>2, <1>3, <2>1, <2>2
  <1>4. CASE ~u.me.gatt_cid
    <2>1. Clienting(u.me)
      BY <1>1, <1>4 DEF Clienting, Quiet, Gentle, Tame
    <2>2. Quiet(u, c, G) /\ c \in Worlds
      BY <1>1, <2>1, SelectStateQuiet
    <2> HIDE DEF c
    <2>3. Quiet(w, c, G)
      BY <1>1, <2>2, QuietTrans
    <2> QED
      BY <1>2, <1>4, <2>2, <2>3
  <1> QED
    BY <1>3, <1>4

(* The changes of state that only set timers, or the advertisement. *)
LEMMA ToDiscoverConnectableQuiet ==
    ASSUME NEW w \in Worlds, NEW G, Clienting(w.me), w.me.state = "DISCOVER"
    PROVE  LET v == ToDiscoverConnectable(w)
           IN  Quiet(w, v, G) /\ v \in Worlds /\ ~v.me.client
  <1> DEFINE u == Move(w, "DISCOVER_CONNECTABLE")
             s == StartScanningIfInactive(u.me)
             n == [u EXCEPT !.me = s]
             r == [s EXCEPT !.advert_handle = TRUE]
             x == [n EXCEPT !.me = r]
  <1>1. Quiet(w, u, G) /\ u \in Worlds /\ ~u.me.client /\ u.me.state = "DISCOVER_CONNECTABLE"
    BY MoveGentle DEF States, AdvertisingStates, ClientStates, DecidingStates
  <1>2. ToDiscoverConnectable(w) = [u EXCEPT !.me = [s EXCEPT !.advert_handle = TRUE]]
    BY DEF ToDiscoverConnectable
  <1> HIDE DEF u
  <1>3. s \in EarbudData /\ Like(u.me, s) /\ Holds(s.queue, u.me.queue)
    BY <1>1, StartScanLike DEF Worlds
  <1> HIDE DEF s
  <1>4. ToDiscoverConnectable(w) = x
    BY <1>1, <1>2, <1>3 DEF Worlds
  <1>5. Quiet(u, n, G) /\ n \in Worlds /\ n.me = s
    BY <1>1, <1>3, QuietUpdate
  <1> HIDE DEF n
  <1>6. /\ r \in EarbudData /\ r.remote_role = s.remote_role /\ r.client = s.client
        /\ r.connecting = s.connecting /\ r.state = s.state /\ r.queue = s.queue
        /\ r.outcome = s.outcome /\ r.selected_role = s.selected_role
    BY <1>3 DEF EarbudData
  <1> HIDE DEF r
  <1>7. Bare(r)
    BY <1>1, <1>3, <1>6 DEF Like, Bare, AdvertisingStates
  <1>8. /\ Passes(r.outcome, {s.outcome, s.selected_role} \cup G)
        /\ Passes(r.selected_role, {s.selected_role} \cup G)
    BY <1>6 DEF Passes
  <1>9. Holds(r.queue, s.queue)
    BY <1>6, WithinSame, HoldsWithin
  <1>10. Tame(s, r, n.link.up, G)
    BY <1>6, <1>7, <1>8, <1>9 DEF Tame
  <1>11. Gentle(n, x, G) /\ x.me = r /\ x \in Worlds
    BY <1>5, <1>6, <1>10, GentleUpdate, EarbudUpdate
  <1> HIDE DEF x
  <1>12. Quiet(n, x, G)
    BY <1>5, <1>6, <1>11 DEF Quiet, Deciding
  <1>13. Quiet(w, x, G)
    BY <1>1, <1>5, <1>12, QuietTrans
  <1>14. ~x.me.client
    BY <1>1, <1>3, <1>6, <1>11 DEF Like
  <1> QED
    BY <1>4, <1>11, <1>13, <1>14

(* A message without parameters that is not CLIENT_INIT_CFM is of no       *)
(* concern.                                                                *)
LEMMA PostQuiet ==
    ASSUME NEW w \in Worlds, NEW G, NEW m \in Messages, m.type \notin Heavy
    PROVE  LET v == Post(w, m)
           IN  Quiet(w, v, G) /\ v \in Worlds /\ Like(w.me, v.me)
               /\ (Clienting(w.me) => Clienting(v.me))
  <1> DEFINE q == Append(w.me.queue, m)
             r == [w.me EXCEPT !.queue = q]
             v == [w EXCEPT !.me = r]
  <1>1. w.me.queue \in Seq(Messages)
    BY DEF Worlds, EarbudData
  <1>2. q \in Seq(Messages) /\ Holds(q, w.me.queue)
    BY <1>1, HoldsAppend
  <1>3. Post(w, m) = v
    BY DEF Post, Worlds
  <1> HIDE DEF q
  <1>4. r \in EarbudData /\ Like(w.me, r) /\ r.queue = q
    BY <1>2 DEF Worlds, EarbudData, Like
  <1> HIDE DEF r
  <1>5. /\ Quiet(w, v, G) /\ v \in Worlds /\ Like(w.me, v.me)
        /\ (Clienting(w.me) => Clienting(v.me))
    BY <1>2, <1>4, QuietUpdate
  <1> QED
    BY <1>3, <1>5

(* A change of timers is of no concern. *)
LEMMA TimersQuiet ==
    ASSUME NEW w \in Worlds, NEW G, NEW T \in SUBSET Timers
    PROVE  LET v == [w EXCEPT !.me.timers = T]
           IN  Quiet(w, v, G) /\ v \in Worlds /\ Like(w.me, v.me)
               /\ (Clienting(w.me) => Clienting(v.me))
  <1> DEFINE r == [w.me EXCEPT !.timers = T]
             v == [w EXCEPT !.me = r]
  <1>1. [w EXCEPT !.me.timers = T] = v
    BY DEF Worlds
  <1>2. r \in EarbudData /\ Like(w.me, r) /\ r.queue = w.me.queue
    BY DEF Worlds, EarbudData, Like
  <1> HIDE DEF r
  <1>3. /\ Quiet(w, v, G) /\ v \in Worlds /\ Like(w.me, v.me)
        /\ (Clienting(w.me) => Clienting(v.me))
    BY <1>2, WithinSame, HoldsWithin, QuietUpdate
  <1> QED
    BY <1>1, <1>3

(* A change of state, out of the states of a client, that starts a timer.  *)
LEMMA MoveTimersQuiet ==
    ASSUME NEW w \in Worlds, NEW G, NEW new \in States, new \notin ClientStates,
           new \notin AdvertisingStates, Clienting(w.me), NEW t \in Timers
    PROVE  LET v == [Move(w, new) EXCEPT !.me.timers = @ \cup {t}]
           IN  Quiet(w, v, G) /\ v \in Worlds /\ ~v.me.client
               /\ Like(Move(w, new).me, v.me)
  <1> DEFINE u == Move(w, new)
             T == u.me.timers \cup {t}
             v == [u EXCEPT !.me.timers = T]
  <1>1. Quiet(w, u, G) /\ u \in Worlds /\ ~u.me.client
    BY MoveGentle DEF DecidingStates, ClientStates
  <1>2. [Move(w, new) EXCEPT !.me.timers = @ \cup {t}] = v
    BY <1>1 DEF Worlds, EarbudData
  <1> HIDE DEF u
  <1>3. T \in SUBSET Timers
    BY <1>1 DEF Worlds, EarbudData
  <1> HIDE DEF T
  <1>4. Quiet(u, v, G) /\ v \in Worlds /\ Like(u.me, v.me)
    BY <1>1, <1>3, TimersQuiet
  <1> HIDE DEF v
  <1>5. Quiet(w, v, G)
    BY <1>1, <1>4, QuietTrans
  <1> QED
    BY <1>1, <1>2, <1>4, <1>5 DEF Like, u

(* The peer has been seen. *)
LEMMA ToDiscoveredDeviceQuiet ==
    ASSUME NEW w \in Worlds, NEW G, Clienting(w.me), w.me.state # "DISCOVERED_DEVICE"
    PROVE  LET v == ToDiscoveredDevice(w)
           IN  Quiet(w, v, G) /\ v \in Worlds /\ ~v.me.client
  <1> DEFINE u == Move(w, "DISCOVERED_DEVICE")
             T == u.me.timers \ {"DISCOVERY"}
             n == [u EXCEPT !.me.timers = T]
             x == Post(n, Connect)
  <1>1. Quiet(w, u, G) /\ u \in Worlds /\ ~u.me.client
    BY MoveGentle DEF States, AdvertisingStates, ClientStates, DecidingStates
  <1>2. ToDiscoveredDevice(w) = Post([u EXCEPT !.me.timers = @ \ {"DISCOVERY"}], Connect)
    BY DEF ToDiscoveredDevice, Connect
  <1> HIDE DEF u
  <1>3. ToDiscoveredDevice(w) = x
    BY <1>1, <1>2 DEF Worlds, EarbudData
  <1>4. T \in SUBSET Timers
    BY <1>1 DEF Worlds, EarbudData
  <1> HIDE DEF T
  <1>5. Quiet(u, n, G) /\ n \in Worlds /\ Like(u.me, n.me)
    BY <1>1, <1>4, TimersQuiet
  <1> HIDE DEF n
  <1>6. Connect \in Messages /\ Connect.type \notin Heavy
    BY DEF Connect, Signal, Msg, Messages, Signals, Heavy
  <1>7. Quiet(n, x, G) /\ x \in Worlds /\ Like(n.me, x.me)
    BY <1>5, <1>6, PostQuiet
  <1> HIDE DEF x
  <1>8. Quiet(w, x, G)
    BY <1>1, <1>5, <1>7, QuietTrans
  <1> QED
    BY <1>1, <1>3, <1>5, <1>7, <1>8 DEF Like

(* The connection manager is asked for a link, if there is none. *)
LEMMA ToConnectingQuiet ==
    ASSUME NEW w \in Worlds, NEW G, Clienting(w.me), w.me.state # "CONNECTING_TO_DISCOVERED"
    PROVE  LET v == ToConnectingToDiscovered(w)
           IN  Quiet(w, v, G) /\ v \in Worlds /\ ~v.me.client
  <1> DEFINE u == Move(w, "CONNECTING_TO_DISCOVERED")
             c == ~w.link.up
             T == u.me.timers \cup {"PEER_CONNECTION"}
             r == [u.me EXCEPT !.connecting = c]
             n == [u EXCEPT !.me = r]
             x == [n EXCEPT !.me.timers = T]
  <1>1. Quiet(w, u, G) /\ u \in Worlds /\ ~u.me.client
    BY MoveGentle DEF States, AdvertisingStates, ClientStates, DecidingStates
  <1>2. ToConnectingToDiscovered(w) = [u EXCEPT !.me.connecting = c,
                                                !.me.timers = @ \cup {"PEER_CONNECTION"}]
    BY DEF ToConnectingToDiscovered
  <1> HIDE DEF u
  <1>3. c \in BOOLEAN /\ (c <=> ~w.link.up)
    OBVIOUS
  <1> HIDE DEF c
  <1>4. ToConnectingToDiscovered(w) = x
    BY <1>1, <1>2, <1>3 DEF Worlds, EarbudData
  <1>5. /\ r \in EarbudData /\ r.connecting = c /\ r.queue = u.me.queue /\ r.timers = u.me.timers
        /\ r.client = u.me.client /\ r.remote_role = u.me.remote_role
        /\ r.state = u.me.state /\ r.advert_handle = u.me.advert_handle
        /\ r.outcome = u.me.outcome /\ r.selected_role = u.me.selected_role
    BY <1>1, <1>3 DEF Worlds, EarbudData
  <1>6. T \in SUBSET Timers
    BY <1>1 DEF Worlds, EarbudData, Timers
  <1> HIDE DEF r, T
  <1>7. /\ Passes(r.outcome, {u.me.outcome, u.me.selected_role} \cup G)
        /\ Passes(r.selected_role, {u.me.selected_role} \cup G)
    BY <1>5 DEF Passes
  <1>8. Holds(r.queue, u.me.queue)
    BY <1>5, WithinSame, HoldsWithin
  <1>9. r.connecting => u.me.connecting \/ (~u.link.up /\ ~r.client)
    BY <1>1, <1>3, <1>5 DEF Quiet, Gentle, Light
  <1>10. Bare(u.me) => Bare(r)
    BY <1>5 DEF Bare
  <1>11. Tame(u.me, r, u.link.up, G)
    BY <1>5, <1>7, <1>8, <1>9, <1>10 DEF Tame
  <1>12. Gentle(u, n, G) /\ n \in Worlds /\ n.me = r
    BY <1>1, <1>5, <1>11, GentleUpdate, EarbudUpdate
  <1> HIDE DEF n
  <1>13. Quiet(u, n, G)
    BY <1>5, <1>12 DEF Quiet, Deciding
  <1>14. Quiet(n, x, G) /\ x \in Worlds /\ Like(n.me, x.me)
    BY <1>6, <1>12, TimersQuiet
  <1> HIDE DEF x
  <1>15. Quiet(w, x, G)
    BY <1>1, <1>13, <1>14, QuietTrans
  <1> QED
    BY <1>1, <1>4, <1>5, <1>12, <1>14, <1>15 DEF Like

(* What is not about a role may be sent. *)
LEMMA SendQuiet ==
    ASSUME NEW w \in Worlds, NEW G, NEW f \in Earbud, NEW t, NEW a,
           Msg(t, a, w.link.id) \in Pdus, t \notin {"CHANGE_ROLE", "CHANGE_ROLE_RSP"}
    PROVE  LET v == Send(w, f, t, a)
           IN  Quiet(w, v, G) /\ v \in Worlds /\ v.me = w.me
  <1> DEFINE m == Msg(t, a, w.link.id)
             p == Append(w.air[f], m)
             v == [w EXCEPT !.air[f] = p]
  <1>1. w.air[f] \in Seq(Pdus) /\ w.air \in [Earbud -> Seq(Pdus)]
    BY DEF Worlds
  <1>2. Send(w, f, t, a) = IF w.link.up THEN v ELSE w
    BY DEF Send
  <1>3. /\ m \in Pdus /\ m.link = w.link.id
        /\ m.type \notin {"CHANGE_ROLE", "CHANGE_ROLE_RSP"}
    BY DEF Msg
  <1> HIDE DEF m
  <1>4. p \in Seq(Pdus) /\ \A n : Queued(n, p) <=> Queued(n, w.air[f]) \/ n = m
    BY <1>1, <1>3, AppendQueue
  <1> HIDE DEF p
  <1>5. v \in Worlds /\ v.me = w.me /\ v.link = w.link
        /\ v.air = [w.air EXCEPT ![f] = p]
    BY <1>1, <1>4 DEF Worlds
  <1> HIDE DEF v
  <1>6. Quiet(w, w, G)
    BY QuietSame
  <1>7. w.link.up => Light(w, v)
    <2> SUFFICES ASSUME w.link.up, NEW g \in Earbud, NEW n, Queued(n, v.air[g])
                 PROVE  \/ Queued(n, w.air[g])
                        \/ /\ w.link.up /\ n.link = w.link.id
                           /\ n.type \notin {"CHANGE_ROLE", "CHANGE_ROLE_RSP"}
      BY <1>5 DEF Light
    <2>1. CASE g = f
      BY <1>1, <1>3, <1>4, <1>5, <2>1
    <2>2. CASE g # f
      BY <1>1, <1>5, <2>2
    <2> QED
      BY <2>1, <2>2
  <1> QED
    BY <1>2, <1>5, <1>6, <1>7 DEF Quiet, Gentle

(* The server's part is quiet: it sends its figure of merit. *)
LEMMA ToServerAwaitingEncryptionQuiet ==
    ASSUME NEW w \in Worlds, NEW G, Clienting(w.me)
    PROVE  LET v == ToServerAwaitingEncryption(w)
           IN  Quiet(w, v, G) /\ v \in Worlds /\ ~v.me.client
  <1> DEFINE v == Move(w, "SERVER_AWAITING_ENCRYPTION")
             x == [v EXCEPT !.link.securing = v.link.up]
  <1>1. Quiet(w, v, G) /\ v \in Worlds /\ ~v.me.client
    BY MoveGentle DEF States, ServerStates, AdvertisingStates, ClientStates, DecidingStates
  <1>2. ToServerAwaitingEncryption(w) = x
    BY DEF ToServerAwaitingEncryption
  <1> HIDE DEF v
  <1>3. x \in Worlds /\ x.me = v.me /\ x.air = v.air /\ x.link.up = v.link.up
        /\ x.link.id = v.link.id /\ x.link.gatt = v.link.gatt
    BY <1>1 DEF Worlds, Links
  <1> HIDE DEF x
  <1>4. Quiet(v, v, G)
    BY <1>1, QuietSame
  <1>5. Quiet(v, x, G)
    BY <1>3, <1>4 DEF Quiet, Gentle, Light
  <1>6. Quiet(w, x, G)
    BY <1>1, <1>5, QuietTrans
  <1> QED
    BY <1>1, <1>2, <1>3, <1>6

(* Setting the score of the server sends its figure of merit. *)
LEMMA SetServerScoreQuiet ==
    ASSUME NEW w \in Worlds, NEW G, NEW e \in Earbud, NEW valid \in BOOLEAN
    PROVE  LET v == SetServerScore(w, e, valid)
           IN  Quiet(w, v, G) /\ v \in Worlds /\ v.me.client = w.me.client
               /\ v.me.state = w.me.state /\ v.me.gatt_cid = w.me.gatt_cid
  <1> DEFINE r == [w.me EXCEPT !.figure_of_merit = valid]
             u == [w EXCEPT !.me = r]
             a == Flag(valid)
             x == Send(u, Peer(e), "FIGURE_OF_MERIT", a)
  <1>1. SetServerScore(w, e, valid) = IF w.me.gatt_cid THEN x ELSE w
    BY DEF SetServerScore, Worlds
  <1>2. r \in EarbudData /\ Like(w.me, r) /\ r.queue = w.me.queue
    BY DEF Worlds, EarbudData, Like
  <1> HIDE DEF r
  <1>3. Quiet(w, u, G) /\ u \in Worlds /\ u.me = r /\ u.link = w.link
    BY <1>2, WithinSame, HoldsWithin, QuietUpdate, EarbudUpdate
  <1> HIDE DEF u
  <1>4. Quiet(u, x, G) /\ x \in Worlds /\ x.me = u.me
    <2>1. Msg("FIGURE_OF_MERIT", a, u.link.id) \in Pdus
      BY <1>3, LinkIsNat, PduTypes
    <2> HIDE DEF a
    <2>2. Peer(e) \in Earbud
      BY PeerOK
    <2> DEFINE t == "FIGURE_OF_MERIT"
    <2>3. t \notin {"CHANGE_ROLE", "CHANGE_ROLE_RSP"} /\ Msg(t, a, u.link.id) \in Pdus
      BY <2>1
    <2> HIDE DEF t
    <2>4. LET v == Send(u, Peer(e), t, a)
          IN  Quiet(u, v, G) /\ v \in Worlds /\ v.me = u.me
      BY <1>3, <2>2, <2>3, SendQuiet
    <2> QED
      BY <2>4 DEF t
  <1> HIDE DEF x
  <1>5. Quiet(w, x, G) /\ Quiet(w, w, G)
    BY <1>3, <1>4, QuietTrans, QuietSame
  <1> QED
    BY <1>1, <1>2, <1>3, <1>4, <1>5 DEF Like

(* Becoming the server. *)
LEMMA ToServerQuiet ==
    ASSUME NEW w \in Worlds, NEW G, NEW e \in Earbud, Clienting(w.me)
    PROVE  LET v == ToServer(w, e)
           IN  Quiet(w, v, G) /\ v \in Worlds /\ ~v.me.client
  <1> DEFINE v == [Move(w, "SERVER") EXCEPT !.me.timers = @ \cup {"SERVER_ROLE_SELECTED"}]
             x == SetServerScore(v, e, TRUE)
  <1>1. Quiet(w, v, G) /\ v \in Worlds /\ ~v.me.client
    BY MoveTimersQuiet DEF States, ServerStates, AdvertisingStates, ClientStates, Timers
  <1>2. ToServer(w, e) = x
    BY DEF ToServer
  <1> HIDE DEF v
  <1>3. Quiet(v, x, G) /\ x \in Worlds /\ x.me.client = v.me.client
    BY <1>1, SetServerScoreQuiet
  <1> HIDE DEF x
  <1>4. Quiet(w, x, G)
    BY <1>1, <1>3, QuietTrans
  <1> QED
    BY <1>1, <1>2, <1>3, <1>4

(* A registered client is asked to prepare. *)
LEMMA PreparingQuiet ==
    ASSUME NEW w \in Worlds, NEW G
    PROVE  LET v == [w EXCEPT !.me.preparing = TRUE]
           IN  Quiet(w, v, G) /\ v \in Worlds /\ Like(w.me, v.me)
               /\ (Clienting(w.me) => Clienting(v.me)) /\ v.me.queue = w.me.queue
  <1> DEFINE r == [w.me EXCEPT !.preparing = TRUE]
             v == [w EXCEPT !.me = r]
  <1>1. [w EXCEPT !.me.preparing = TRUE] = v
    BY DEF Worlds
  <1>2. r \in EarbudData /\ Like(w.me, r) /\ r.queue = w.me.queue
    BY DEF Worlds, EarbudData, Like
  <1> HIDE DEF r
  <1>3. /\ Quiet(w, v, G) /\ v \in Worlds /\ v.me = r /\ Like(w.me, v.me)
        /\ (Clienting(w.me) => Clienting(v.me))
    BY <1>2, WithinSame, HoldsWithin, QuietUpdate
  <1> QED
    BY <1>1, <1>2, <1>3

(* Preparing to become the server. *)
LEMMA ToServerPreparingQuiet ==
    ASSUME NEW w \in Worlds, NEW G, NEW e \in Earbud, Clienting(w.me)
    PROVE  LET v == ToServerPreparing(w, e)
           IN  Quiet(w, v, G) /\ v \in Worlds /\ ~v.me.client
  <1> DEFINE v == Move(w, "SERVER_PREPARING")
             x == [v EXCEPT !.me.preparing = TRUE]
             y == ToServer(v, e)
  <1>1. Quiet(w, v, G) /\ v \in Worlds /\ ~v.me.client
    BY MoveGentle DEF States, ServerStates, AdvertisingStates, ClientStates, DecidingStates
  <1>2. ToServerPreparing(w, e) = IF e \in PREPARES THEN x ELSE y
    BY DEF ToServerPreparing
  <1> HIDE DEF v
  <1>3. Quiet(v, x, G) /\ x \in Worlds /\ Like(v.me, x.me)
    BY <1>1, PreparingQuiet
  <1>4. Quiet(v, y, G) /\ y \in Worlds /\ ~y.me.client
    BY <1>1, ToServerQuiet DEF Clienting
  <1> HIDE DEF x, y
  <1>5. Quiet(w, x, G) /\ Quiet(w, y, G)
    BY <1>1, <1>3, <1>4, QuietTrans
  <1> QED
    BY <1>1, <1>2, <1>3, <1>4, <1>5 DEF Like

(* An outcome that may be given is announced or stored, whatever the       *)
(* state, and the client of the link is no more.                           *)
LEMMA CompletedQuiet ==
    ASSUME NEW w \in Worlds, NEW G, NEW o \in Given, Passes(o, G), Clienting(w.me)
    PROVE  LET v == Completed(w, o)
           IN  Quiet(w, v, G) /\ v \in Worlds /\ ~v.me.client
  <1> DEFINE k == StopScanIfActive(w.me)
             r == [k EXCEPT !.selected_role = NoRole, !.confirming_primary = TRUE]
             u == [w EXCEPT !.me = r]
             n == NotifyImmediately(u, o)
             s == [w.me EXCEPT !.selected_role = o, !.confirming_primary = FALSE]
             z == [w EXCEPT !.me = s]
             a == IF o.role = "PRIMARY" THEN n ELSE z
             b == CASE a.me.state = "INITIALISED" -> NotifyIfPending(a)
                    [] a.me.state = "SERVER" -> ToServerAwaitingCompletion(a)
                    [] a.me.state = "COMPLETED" -> a
                    [] OTHER -> ToCompleted(a)
             d == [b.me EXCEPT !.client = FALSE, !.gatt_cid = FALSE, !.gatt_encrypted = FALSE]
             x == [b EXCEPT !.me = d]
  <1>0. NoRole \in Stored /\ NoRole.end = "none" /\ o \in Announced
    BY StoredOutcomes DEF NoRole, Alone, Outcome, Given, Announced, Outcomes
  <1>1. Completed(w, o) = [b EXCEPT !.me.client = FALSE, !.me.gatt_cid = FALSE,
                                    !.me.gatt_encrypted = FALSE]
    BY DEF Completed, Worlds
  <1>2. o.role = "PRIMARY" => /\ Quiet(w, n, G) /\ n \in Worlds
                              /\ n.me.state = w.me.state /\ n.me.gatt_cid = w.me.gatt_cid
                              /\ n.me.client = w.me.client
    <2>1. k \in EarbudData /\ Like(w.me, k) /\ k.queue = w.me.queue
      BY StopScanLike DEF Worlds
    <2> HIDE DEF k
    <2>2. /\ r \in EarbudData /\ r.remote_role = k.remote_role /\ r.client = k.client
          /\ r.connecting = k.connecting /\ r.advert_handle = k.advert_handle
          /\ r.state = k.state /\ r.queue = k.queue /\ r.outcome = k.outcome
          /\ r.selected_role = NoRole /\ r.gatt_cid = k.gatt_cid
      BY <1>0, <2>1 DEF EarbudData, Stored
    <2> HIDE DEF r
    <2>3. /\ r.remote_role = w.me.remote_role /\ r.client = w.me.client
          /\ r.connecting = w.me.connecting /\ r.advert_handle = w.me.advert_handle
          /\ r.state = w.me.state /\ r.queue = w.me.queue /\ r.gatt_cid = w.me.gatt_cid
          /\ Passes(r.outcome, {w.me.outcome, w.me.selected_role} \cup G)
          /\ Passes(r.selected_role, {w.me.selected_role} \cup G)
      BY <1>0, <2>1, <2>2 DEF Like, Passes
    <2>4. Quiet(w, u, G) /\ u \in Worlds /\ u.me = r
      BY <2>2, <2>3, QuietOutcomes
    <2> HIDE DEF u
    <2>5. Passes(o, {u.me.outcome, u.me.selected_role} \cup G)
      BY DEF Passes
    <2>6. /\ Quiet(u, n, G) /\ n \in Worlds
          /\ n.me.state = u.me.state /\ n.me.gatt_cid = u.me.gatt_cid
          /\ n.me.client = u.me.client
      BY <1>0, <2>4, <2>5, NotifyImmediatelyQuiet
    <2> HIDE DEF n
    <2>7. Quiet(w, n, G)
      BY <2>4, <2>6, QuietTrans
    <2> QED
      BY <2>3, <2>4, <2>6, <2>7
  <1>3. o.role # "PRIMARY" => /\ Quiet(w, z, G) /\ z \in Worlds
                              /\ z.me.state = w.me.state /\ z.me.gatt_cid = w.me.gatt_cid
                              /\ z.me.client = w.me.client
    <2> SUFFICES ASSUME o.role # "PRIMARY"
                 PROVE  /\ Quiet(w, z, G) /\ z \in Worlds
                        /\ z.me.state = w.me.state /\ z.me.gatt_cid = w.me.gatt_cid
                        /\ z.me.client = w.me.client
      OBVIOUS
    <2>1. o \in Stored
      BY DEF Given, Stored, Outcomes, Roles
    <2>2. /\ s \in EarbudData /\ s.remote_role = w.me.remote_role /\ s.client = w.me.client
          /\ s.connecting = w.me.connecting /\ s.advert_handle = w.me.advert_handle
          /\ s.state = w.me.state /\ s.queue = w.me.queue /\ s.outcome = w.me.outcome
          /\ s.selected_role = o /\ s.gatt_cid = w.me.gatt_cid
      BY <2>1 DEF Worlds, EarbudData, Stored
    <2> HIDE DEF s
    <2>3. /\ Passes(s.outcome, {w.me.outcome, w.me.selected_role} \cup G)
          /\ Passes(s.selected_role, {w.me.selected_role} \cup G)
      BY <2>2 DEF Passes
    <2>4. Quiet(w, z, G) /\ z \in Worlds /\ z.me = s
      BY <2>2, <2>3, QuietOutcomes
    <2> QED
      BY <2>2, <2>4
  <1>4. a = IF o.role = "PRIMARY"
            THEN NotifyImmediately([w EXCEPT !.me = [StopScanIfActive(w.me) EXCEPT
                     !.selected_role = NoRole, !.confirming_primary = TRUE]], o)
            ELSE [w EXCEPT !.me.selected_role = o, !.me.confirming_primary = FALSE]
    BY DEF Worlds
  <1>5. /\ Quiet(w, a, G) /\ a \in Worlds /\ a.me.state = w.me.state
        /\ a.me.gatt_cid = w.me.gatt_cid /\ a.me.client = w.me.client
    BY <1>2, <1>3
  <1> HIDE DEF k, r, u, n, s, z
  <1>6. Completed(w, o) = [b EXCEPT !.me.client = FALSE, !.me.gatt_cid = FALSE,
                                    !.me.gatt_encrypted = FALSE]
    BY <1>4 DEF Completed
  <1> HIDE DEF a
  <1>7. Clienting(a.me)
    BY <1>5 DEF Clienting
  <1>8. Quiet(a, b, G) /\ b \in Worlds
    <2>1. CASE a.me.state = "INITIALISED"
      BY <1>5, <2>1, NotifyIfPendingQuiet
    <2>2. CASE a.me.state = "SERVER"
      BY <1>5, <1>7, <2>2, MoveTimersQuiet
      DEF ToServerAwaitingCompletion, States, ServerStates, ClientStates,
          AdvertisingStates, Timers
    <2>3. CASE a.me.state = "COMPLETED"
      BY <1>5, <2>3, QuietSame
    <2>4. CASE a.me.state \notin {"INITIALISED", "SERVER", "COMPLETED"}
      BY <1>5, <1>7, <2>4, ToCompletedQuiet
    <2> QED
      BY <2>1, <2>2, <2>3, <2>4
  <1> HIDE DEF b
  <1>9. Completed(w, o) = x
    BY <1>6, <1>8 DEF Worlds
  <1>10. /\ d \in EarbudData /\ ~d.client /\ d.remote_role = b.me.remote_role
         /\ d.connecting = b.me.connecting /\ d.advert_handle = b.me.advert_handle
         /\ d.state = b.me.state /\ d.queue = b.me.queue /\ d.outcome = b.me.outcome
         /\ d.selected_role = b.me.selected_role
    BY <1>8 DEF Worlds, EarbudData
  <1> HIDE DEF d
  <1>11. Tame(b.me, d, b.link.up, G)
    <2>1. Holds(d.queue, b.me.queue)
      BY <1>10, WithinSame, HoldsWithin
    <2> QED
      BY <1>10, <2>1 DEF Tame, Bare, Passes
  <1>12. Gentle(b, x, G) /\ x.me = d /\ x \in Worlds
    BY <1>8, <1>10, <1>11, GentleUpdate, EarbudUpdate
  <1> HIDE DEF x
  <1>13. Quiet(b, x, G)
    BY <1>10, <1>12 DEF Quiet, Deciding
  <1>14. Quiet(w, x, G)
    BY <1>5, <1>8, <1>13, QuietTrans
  <1> QED
    BY <1>9, <1>10, <1>12, <1>14

-----------------------------------------------------------------------------
(* The story of the roles, as the earbud e, its peer g and the link would  *)
(* tell it from what either has written.                                   *)

(* For one earbud, the role it has written over each link, or "none". *)
Writings == [Nat -> Roles \cup {"none"}]

(* The outcome o has been earned: the end of a link that has written the   *)
(* role of the other has taken the opposite one.                           *)
Earned(o, mine, its) ==
    /\ o.end = "server" => its[o.link] \in Roles /\ o.role = its[o.link]
    /\ o.end = "client" => mine[o.link] \in Roles /\ o.role = Other(mine[o.link])

(* An earbud writes over a link only once it is its client, which it       *)
(* becomes with the GATT connection of the link, and decides once.         *)
LinkTale(r, l, joined, mine) ==
    /\ Bare(r)
    /\ r.connecting => ~r.client /\ ~l.up
    /\ \A n \in Nat : n > l.id => mine[n] = "none"
    /\ l.up /\ (~joined \/ Queued(Gatt(l.id), r.queue)) => ~r.client /\ mine[l.id] = "none"
    /\ l.up /\ Deciding(r) /\ r.client => mine[l.id] = "none"
    /\ l.up => Once(Gatt(l.id), r.queue)
    /\ l.up /\ Queued(Gatt(l.id), r.queue) => joined

(* What is queued about roles is true, and a confirmation finds what was   *)
(* written last.                                                           *)
RoleTale(r, l, mine, its) ==
    /\ \A role \in Roles, n \in Nat : Queued(Told(role, n), r.queue) => its[n] = role
    /\ \A a \in Flags, n \in Nat : Queued(Confirm(a, n), r.queue)
         => /\ mine[n] = r.remote_role /\ ~Deciding(r)
            /\ l.up => Ahead(Confirm(a, n), Gatt(l.id), r.queue)
    /\ Earned(r.outcome, mine, its) /\ Earned(r.selected_role, mine, its)

(* What is in flight, to the earbud and to its peer, is of the link that   *)
(* is up.                                                                  *)
Mail(r, l, toMe, toPeer, mine) ==
    /\ \A p : Queued(p, toMe)
         => /\ l.up /\ p.link = l.id
            /\ p.type = "CHANGE_ROLE_RSP" => mine[l.id] = r.remote_role /\ ~Deciding(r)
    /\ \A p : Queued(p, toPeer) /\ p.type = "CHANGE_ROLE"
         => mine[l.id] = r.remote_role /\ p.arg = r.remote_role /\ ~Deciding(r)

WorldStory(e, w, g, mine, its) ==
    /\ LinkTale(w.me, w.link, e \in w.link.gatt, mine)
    /\ LinkTale(g, w.link, Peer(e) \in w.link.gatt, its)
    /\ RoleTale(w.me, w.link, mine, its)
    /\ RoleTale(g, w.link, its, mine)
    /\ Mail(w.me, w.link, w.air[e], w.air[Peer(e)], mine)
    /\ Mail(g, w.link, w.air[Peer(e)], w.air[e], its)

(* The earbud may write a role over the link that is up. *)
Free(e, w, mine) ==
    /\ \A a \in Flags, n \in Nat : ~Queued(Confirm(a, n), w.me.queue)
    /\ \A p : Queued(p, w.air[e]) => p.type # "CHANGE_ROLE_RSP"
    /\ \A p : Queued(p, w.air[Peer(e)]) => p.type # "CHANGE_ROLE"
    /\ w.me.client /\ w.link.up => mine[w.link.id] = "none"

(* One that decides may. *)
LEMMA DecidingFree ==
    ASSUME NEW e \in Earbud, NEW w \in Worlds, NEW g, NEW mine, NEW its,
           WorldStory(e, w, g, mine, its), Deciding(w.me)
    PROVE  Free(e, w, mine)
  BY DEF WorldStory, LinkTale, RoleTale, Mail, Free

(* The types of the heavy messages. *)
LEMMA HeavyTypes ==
    /\ \A a, n : Confirm(a, n).type \in Heavy /\ Told(a, n).type \in Heavy
    /\ \A n : Gatt(n).type \in Heavy
    /\ ClientInit.type \in Heavy
  BY DEF Confirm, Told, Gatt, ClientInit, Signal, Msg, Heavy

(* A gentle step keeps what the link tells of the earbud. *)
LEMMA GentleLinkTale ==
    ASSUME NEW r, NEW s, NEW l, NEW m, NEW G, NEW joined, NEW mine,
           m.up = l.up, m.id = l.id, Tame(r, s, l.up, G), LinkTale(r, l, joined, mine),
           Deciding(s) /\ l.up /\ s.client => Deciding(r) \/ mine[l.id] = "none"
    PROVE  LinkTale(s, m, joined, mine)
  <1>1. Queued(Gatt(l.id), s.queue) => Queued(Gatt(l.id), r.queue)
    BY HeavyTypes DEF Tame, Holds
  <1>2. Once(Gatt(l.id), r.queue) => Once(Gatt(l.id), s.queue)
    BY HeavyTypes DEF Tame, Holds
  <1>3. Bare(s)
    BY DEF Tame, LinkTale
  <1>4. s.connecting => ~s.client /\ ~l.up
    BY DEF Tame, LinkTale
  <1>5. \A n \in Nat : n > l.id => mine[n] = "none"
    BY DEF LinkTale
  <1>6. l.up /\ (~joined \/ Queued(Gatt(l.id), s.queue)) => ~s.client /\ mine[l.id] = "none"
    BY <1>1 DEF Tame, LinkTale
  <1>7. l.up /\ Deciding(s) /\ s.client => mine[l.id] = "none"
    BY DEF Tame, LinkTale
  <1>8. l.up => Once(Gatt(l.id), s.queue)
    BY <1>2 DEF LinkTale
  <1>9. l.up /\ Queued(Gatt(l.id), s.queue) => joined
    BY <1>1 DEF LinkTale
  <1> QED
    BY <1>3, <1>4, <1>5, <1>6, <1>7, <1>8, <1>9 DEF LinkTale

(* A gentle step keeps what is told of roles. *)
LEMMA GentleRoleTale ==
    ASSUME NEW r, NEW s, NEW l, NEW m, NEW G, NEW mine, NEW its,
           m.up = l.up, m.id = l.id, Tame(r, s, l.up, G), RoleTale(r, l, mine, its),
           \A o \in G : Earned(o, mine, its),
           (Deciding(s) => Deciding(r))
             \/ \A a \in Flags, n \in Nat : ~Queued(Confirm(a, n), r.queue)
    PROVE  RoleTale(s, m, mine, its)
  <1>1. \A role \in Roles, n \in Nat : Queued(Told(role, n), s.queue) => its[n] = role
    BY HeavyTypes DEF Tame, Holds, RoleTale
  <1>2. ASSUME NEW a \in Flags, NEW n \in Nat, Queued(Confirm(a, n), s.queue)
        PROVE  /\ mine[n] = s.remote_role /\ ~Deciding(s)
               /\ m.up => Ahead(Confirm(a, n), Gatt(m.id), s.queue)
    <2>1. Queued(Confirm(a, n), r.queue)
      BY <1>2, HeavyTypes DEF Tame, Holds
    <2>2. /\ mine[n] = r.remote_role /\ ~Deciding(r)
          /\ l.up => Ahead(Confirm(a, n), Gatt(l.id), r.queue)
      BY <2>1 DEF RoleTale
    <2>3. Ahead(Confirm(a, n), Gatt(l.id), r.queue) => Ahead(Confirm(a, n), Gatt(l.id), s.queue)
      BY HeavyTypes DEF Tame, Holds
    <2> QED
      BY <2>1, <2>2, <2>3 DEF Tame
  <1>3. \A o : o.end = "none" => Earned(o, mine, its)
    BY DEF Earned
  <1>4. Earned(s.selected_role, mine, its) /\ Earned(s.outcome, mine, its)
    BY <1>3 DEF Tame, Passes, RoleTale
  <1> QED
    BY <1>1, <1>2, <1>4 DEF RoleTale

(* A gentle step of an earbud that begins to decide only when it is free   *)
(* keeps the story.                                                        *)
LEMMA GentleStory ==
    ASSUME NEW e \in Earbud, NEW w \in Worlds, NEW v, NEW g, NEW G, NEW mine, NEW its,
           WorldStory(e, w, g, mine, its), Gentle(w, v, G),
           \A o \in G : Earned(o, mine, its),
           (Deciding(v.me) => Deciding(w.me)) \/ Free(e, w, mine)
    PROVE  WorldStory(e, v, g, mine, its) /\ (Free(e, w, mine) => Free(e, v, mine))
  <1> DEFINE l == w.link
             m == v.link
             f == Peer(e)
             tame == Tame(w.me, v.me, l.up, G)
             light == Light(w, v)
  <1>1. f \in Earbud /\ tame /\ light
    BY PeerOK DEF Gentle
  <1>2. m.up = l.up /\ m.id = l.id /\ m.gatt = l.gatt
    BY <1>1 DEF Light
  <1>3. \A p, h : h \in Earbud /\ Queued(p, v.air[h])
          => \/ Queued(p, w.air[h])
             \/ l.up /\ p.link = l.id /\ p.type \notin {"CHANGE_ROLE", "CHANGE_ROLE_RSP"}
    BY <1>1 DEF Light
  <1>4. LinkTale(v.me, m, e \in m.gatt, mine)
    <2>1. Deciding(v.me) /\ l.up /\ v.me.client => Deciding(w.me) \/ mine[l.id] = "none"
      BY <1>1 DEF Free, Tame
    <2>2. LinkTale(w.me, l, e \in l.gatt, mine)
      BY DEF WorldStory
    <2> HIDE DEF l, m, light
    <2>3. LinkTale(v.me, m, e \in l.gatt, mine)
      BY <1>1, <1>2, <2>1, <2>2, GentleLinkTale
    <2> QED
      BY <1>2, <2>3
  <1>5. LinkTale(g, m, f \in m.gatt, its)
    BY <1>2 DEF WorldStory, LinkTale
  <1>6. RoleTale(v.me, m, mine, its)
    <2>1. RoleTale(w.me, l, mine, its)
      BY DEF WorldStory
    <2>2. (Deciding(v.me) => Deciding(w.me))
            \/ \A a \in Flags, n \in Nat : ~Queued(Confirm(a, n), w.me.queue)
      BY DEF Free
    <2> HIDE DEF l, m, light
    <2> QED
      BY <1>1, <1>2, <2>1, <2>2, GentleRoleTale
  <1>7. RoleTale(g, m, its, mine)
    BY <1>2 DEF WorldStory, RoleTale
  <1>8. Mail(v.me, m, v.air[e], v.air[f], mine)
    <2>1. Mail(w.me, l, w.air[e], w.air[f], mine) /\ v.me.remote_role = w.me.remote_role
      BY <1>1 DEF WorldStory, Tame
    <2>2. ASSUME NEW p, Queued(p, v.air[e])
          PROVE  /\ m.up /\ p.link = m.id
                 /\ p.type = "CHANGE_ROLE_RSP" => mine[m.id] = v.me.remote_role /\ ~Deciding(v.me)
      BY <1>2, <1>3, <2>1, <2>2 DEF Mail, Free
    <2>3. ASSUME NEW p, Queued(p, v.air[f]), p.type = "CHANGE_ROLE"
          PROVE  mine[m.id] = v.me.remote_role /\ p.arg = v.me.remote_role /\ ~Deciding(v.me)
      BY <1>1, <1>2, <1>3, <2>1, <2>3 DEF Mail, Free
    <2> QED
      BY <2>2, <2>3 DEF Mail
  <1>9. Mail(g, m, v.air[f], v.air[e], its)
    <2>1. Mail(g, l, w.air[f], w.air[e], its)
      BY DEF WorldStory
    <2> HIDE DEF l, m
    <2> QED
      BY <1>1, <1>2, <1>3, <2>1 DEF Mail
  <1>10. Free(e, w, mine) => Free(e, v, mine)
    <2>1. \A a, n : Queued(Confirm(a, n), v.me.queue) => Queued(Confirm(a, n), w.me.queue)
      BY <1>1, HeavyTypes DEF Tame, Holds
    <2>2. v.me.client => w.me.client
      BY <1>1 DEF Tame
    <2> QED
      BY <1>1, <1>2, <1>3, <2>1, <2>2 DEF Free
  <1> QED
    BY <1>4, <1>5, <1>6, <1>7, <1>8, <1>9, <1>10 DEF WorldStory

(* A quiet step keeps the story. *)
LEMMA QuietStory ==
    ASSUME NEW e \in Earbud, NEW w \in Worlds, NEW v, NEW g, NEW G, NEW mine, NEW its,
           WorldStory(e, w, g, mine, its), Quiet(w, v, G),
           \A o \in G : Earned(o, mine, its)
    PROVE  WorldStory(e, v, g, mine, its)
  BY GentleStory DEF Quiet

(* From w to u the earbud has decided that its peer is to have a role, and *)
(* written it if it is the client of the link.                             *)
Writes(e, w, u, role) ==
    /\ u \in Worlds
    /\ Tame([w.me EXCEPT !.remote_role = role], u.me, w.link.up, {})
    /\ ~Deciding(u.me)
    /\ u.link.up = w.link.up /\ u.link.id = w.link.id /\ u.link.gatt = w.link.gatt
    /\ \A f \in Earbud : \A p :
          Queued(p, u.air[f])
            => \/ Queued(p, w.air[f])
               \/ /\ w.link.up /\ p.link = w.link.id
                  /\ p.type \notin {"CHANGE_ROLE", "CHANGE_ROLE_RSP"}
               \/ /\ f = Peer(e) /\ w.me.client /\ w.link.up
                  /\ p = Msg("CHANGE_ROLE", role, w.link.id)

(* A role that was written stays what it was. *)
LEMMA EarnedStays ==
    ASSUME NEW o, o.link \in Nat, NEW mine, NEW its, NEW more,
           \A n \in Nat : mine[n] \in Roles => more[n] = mine[n]
    PROVE  /\ Earned(o, mine, its) => Earned(o, more, its)
           /\ Earned(o, its, mine) => Earned(o, its, more)
  BY DEF Earned

(* A free earbud may write a role. *)
LEMMA WritesStory ==
    ASSUME NEW e \in Earbud, NEW w \in Worlds, NEW u, NEW g \in EarbudData,
           NEW mine \in Writings, NEW its, NEW role \in Roles,
           WorldStory(e, w, g, mine, its), Free(e, w, mine), Writes(e, w, u, role)
    PROVE  \E more \in Writings : WorldStory(e, u, g, more, its)
  <1> DEFINE l == w.link
             m == u.link
             f == Peer(e)
             r == [w.me EXCEPT !.remote_role = role]
             writes == w.me.client /\ l.up
             more == IF writes THEN [mine EXCEPT ![l.id] = role] ELSE mine
  <1>1. l.id \in Nat /\ f \in Earbud /\ f # e /\ u.me \in EarbudData /\ w.me \in EarbudData
    BY LinkIsNat, PeerOK DEF Writes, Worlds
  <1>2. m.up = l.up /\ m.id = l.id /\ m.gatt = l.gatt /\ ~Deciding(u.me)
    BY DEF Writes
  <1>3. /\ more \in Writings
        /\ \A n \in Nat : n # l.id => more[n] = mine[n]
        /\ writes => more[l.id] = role
        /\ ~writes => more = mine
    BY <1>1 DEF Writings
  <1>4. writes => mine[l.id] = "none"
    BY DEF Free
  <1>5. \A n \in Nat : mine[n] \in Roles => more[n] = mine[n]
    BY <1>3, <1>4 DEF Roles
  <1>6. /\ r.client = w.me.client /\ r.connecting = w.me.connecting /\ r.queue = w.me.queue
        /\ r.outcome = w.me.outcome /\ r.selected_role = w.me.selected_role
        /\ r.remote_role = role /\ r.state = w.me.state /\ r.advert_handle = w.me.advert_handle
    BY <1>1 DEF EarbudData
  <1>7. Tame(r, u.me, l.up, {})
    BY DEF Writes
  <1> HIDE DEF more, r, writes
  <1>8. \A a, n : Queued(Confirm(a, n), u.me.queue) => Queued(Confirm(a, n), w.me.queue)
    BY <1>6, <1>7, HeavyTypes DEF Tame, Holds
  <1>9. \A R, n : Queued(Told(R, n), u.me.queue) => Queued(Told(R, n), w.me.queue)
    BY <1>6, <1>7, HeavyTypes DEF Tame, Holds
  <1>10. Queued(Gatt(l.id), u.me.queue) => Queued(Gatt(l.id), w.me.queue)
    BY <1>6, <1>7, HeavyTypes DEF Tame, Holds
  <1>11. \A p, h : h \in Earbud /\ Queued(p, u.air[h])
          => \/ Queued(p, w.air[h])
             \/ l.up /\ p.link = l.id /\ p.type \notin {"CHANGE_ROLE", "CHANGE_ROLE_RSP"}
             \/ h = f /\ writes /\ p = Msg("CHANGE_ROLE", role, l.id)
    BY DEF Writes, writes
  <1>12. LinkTale(u.me, m, e \in m.gatt, more)
    <2>1. LinkTale(w.me, l, e \in l.gatt, mine)
      BY DEF WorldStory
    <2>2. Bare(u.me)
      BY <1>6, <1>7, <2>1 DEF Tame, LinkTale, Bare
    <2>3. u.me.connecting => ~u.me.client /\ ~l.up
      BY <1>6, <1>7, <2>1 DEF Tame, LinkTale
    <2>4. \A n \in Nat : n > l.id => more[n] = "none"
      BY <1>1, <1>3, <2>1 DEF LinkTale
    <2>5. l.up /\ (e \notin l.gatt \/ Queued(Gatt(l.id), u.me.queue))
            => ~u.me.client /\ more[l.id] = "none"
      BY <1>3, <1>6, <1>7, <1>10, <2>1 DEF Tame, LinkTale, writes
    <2>6. Once(Gatt(l.id), w.me.queue) => Once(Gatt(l.id), u.me.queue)
      BY <1>6, <1>7, HeavyTypes DEF Tame, Holds
    <2>7. l.up => Once(Gatt(l.id), u.me.queue)
      BY <2>1, <2>6 DEF LinkTale
    <2>8. l.up /\ Queued(Gatt(l.id), u.me.queue) => e \in l.gatt
      BY <1>10, <2>1 DEF LinkTale
    <2> HIDE DEF l, m
    <2> QED
      BY <1>2, <2>2, <2>3, <2>4, <2>5, <2>7, <2>8 DEF LinkTale
  <1>13. LinkTale(g, m, f \in m.gatt, its)
    BY <1>2 DEF WorldStory, LinkTale
  <1>14. RoleTale(u.me, m, more, its)
    <2>1. RoleTale(w.me, l, mine, its)
      BY DEF WorldStory
    <2>2. \A R \in Roles, n \in Nat : Queued(Told(R, n), u.me.queue) => its[n] = R
      BY <1>9, <2>1 DEF RoleTale
    <2>3. \A a \in Flags, n \in Nat : ~Queued(Confirm(a, n), u.me.queue)
      BY <1>8 DEF Free
    <2>4. Earned(w.me.outcome, more, its) /\ Earned(w.me.selected_role, more, its)
      <3>1. w.me.outcome.link \in Nat /\ w.me.selected_role.link \in Nat
        BY <1>1 DEF EarbudData, Outcomes
      <3> QED
        BY <1>5, <2>1, <3>1, EarnedStays DEF RoleTale
    <2>5. Earned(u.me.outcome, more, its) /\ Earned(u.me.selected_role, more, its)
      <3>1. \A o : o.end = "none" => Earned(o, more, its)
        BY DEF Earned
      <3> QED
        BY <1>6, <1>7, <2>4, <3>1 DEF Tame, Passes
    <2> QED
      BY <2>2, <2>3, <2>5 DEF RoleTale
  <1>15. RoleTale(g, m, its, more)
    <2>1. RoleTale(g, l, its, mine)
      BY DEF WorldStory
    <2>2. \A R \in Roles, n \in Nat : Queued(Told(R, n), g.queue) => more[n] = R
      BY <1>5, <2>1 DEF RoleTale
    <2>3. Earned(g.outcome, its, more) /\ Earned(g.selected_role, its, more)
      <3>1. g.outcome.link \in Nat /\ g.selected_role.link \in Nat
        BY DEF EarbudData, Outcomes
      <3> QED
        BY <1>5, <2>1, <3>1, EarnedStays DEF RoleTale
    <2> QED
      BY <1>2, <2>1, <2>2, <2>3 DEF RoleTale
  <1>16. Mail(u.me, m, u.air[e], u.air[f], more)
    <2>1. Mail(w.me, l, w.air[e], w.air[f], mine) /\ u.me.remote_role = role
      BY <1>6, <1>7 DEF WorldStory, Tame
    <2>2. ASSUME NEW p, Queued(p, u.air[e])
          PROVE  m.up /\ p.link = m.id /\ p.type # "CHANGE_ROLE_RSP"
      <3>1. \/ Queued(p, w.air[e])
            \/ l.up /\ p.link = l.id /\ p.type \notin {"CHANGE_ROLE", "CHANGE_ROLE_RSP"}
        BY <1>1, <1>11, <2>2
      <3> QED
        BY <1>2, <2>1, <3>1 DEF Mail, Free
    <2>3. ASSUME NEW p, Queued(p, u.air[f]), p.type = "CHANGE_ROLE"
          PROVE  more[m.id] = u.me.remote_role /\ p.arg = u.me.remote_role /\ ~Deciding(u.me)
      <3>1. writes /\ p = Msg("CHANGE_ROLE", role, l.id)
        BY <1>1, <1>11, <2>3 DEF Free
      <3>2. p.arg = role
        BY <3>1 DEF Msg
      <3> QED
        BY <1>2, <1>3, <2>1, <3>1, <3>2
    <2> QED
      BY <2>2, <2>3 DEF Mail
  <1>17. Mail(g, m, u.air[f], u.air[e], its)
    <2>1. Mail(g, l, w.air[f], w.air[e], its)
      BY DEF WorldStory
    <2>2. ASSUME NEW p, Queued(p, u.air[f])
          PROVE  /\ m.up /\ p.link = m.id
                 /\ p.type = "CHANGE_ROLE_RSP" => its[m.id] = g.remote_role /\ ~Deciding(g)
      <3>1. CASE writes /\ p = Msg("CHANGE_ROLE", role, l.id)
        <4>1. p.link = l.id /\ p.type # "CHANGE_ROLE_RSP"
          BY <3>1 DEF Msg
        <4> QED
          BY <1>2, <3>1, <4>1 DEF writes
      <3>2. CASE ~(writes /\ p = Msg("CHANGE_ROLE", role, l.id))
        <4>1. \/ Queued(p, w.air[f])
              \/ l.up /\ p.link = l.id /\ p.type \notin {"CHANGE_ROLE", "CHANGE_ROLE_RSP"}
          BY <1>1, <1>11, <2>2, <3>2
        <4> QED
          BY <1>2, <2>1, <4>1 DEF Mail
      <3> QED
        BY <3>1, <3>2
    <2>3. ASSUME NEW p, Queued(p, u.air[e]), p.type = "CHANGE_ROLE"
          PROVE  its[m.id] = g.remote_role /\ p.arg = g.remote_role /\ ~Deciding(g)
      <3>1. Queued(p, w.air[e])
        BY <1>1, <1>11, <2>3
      <3> QED
        BY <1>2, <2>1, <2>3, <3>1 DEF Mail
    <2> QED
      BY <2>2, <2>3 DEF Mail
  <1> QED
    BY <1>3, <1>12, <1>13, <1>14, <1>15, <1>16, <1>17 DEF WorldStory

(* The earbud may decide, or is about to. *)
Ready(e, w, g, mine, its) ==
    /\ WorldStory(e, w, g, mine, its) /\ Free(e, w, mine) /\ Clienting(w.me)
    /\ ~Queued(ClientInit, w.me.queue)

(* The story goes on, with a write or without. *)
Goes(e, w, g, its) ==
    /\ \E more \in Writings : WorldStory(e, w, g, more, its)
    /\ Clienting(w.me)

(* peer_find_role_decide_roles, once the figures of merit are known. *)
LEMMA DecideRolesStory ==
    ASSUME NEW e \in Earbud, NEW w \in Worlds, NEW g \in EarbudData,
           NEW mine \in Writings, NEW its, NEW role \in Roles,
           Ready(e, w, g, mine, its), w.me.state = "CLIENT_DECIDING"
    PROVE  Goes(e, DecideRoles(w, e, role), g, its)
  <1> DEFINE f == Peer(e)
             r == [w.me EXCEPT !.remote_role = role]
             v == [w EXCEPT !.me = r]
             p == Msg("CHANGE_ROLE", role, v.link.id)
             q == Append(v.air[f], p)
             sent == [v EXCEPT !.air[f] = q]
             s == IF r.client /\ v.link.up THEN sent ELSE v
             u == Move(s, "CLIENT_AWAITING_CONFIRM")
             T == u.me.timers \ {"NO_FOM_RECEIVED"}
             x == [u EXCEPT !.me.timers = T]
  <1>0. /\ WorldStory(e, w, g, mine, its) /\ Free(e, w, mine) /\ Clienting(w.me)
        /\ ~Queued(ClientInit, w.me.queue)
    BY DEF Ready
  <1>1. /\ r \in EarbudData /\ r.client = w.me.client /\ r.queue = w.me.queue
        /\ r.state = w.me.state /\ r.gatt_cid = w.me.gatt_cid
    BY DEF Worlds, EarbudData
  <1>2. v \in Worlds /\ v.me = r /\ v.link = w.link /\ v.air = w.air
    BY <1>1, EarbudUpdate
  <1>3. DecideRoles(w, e, role)
          = IF ~w.me.peer_score THEN w
            ELSE [u EXCEPT !.me.timers = @ \ {"NO_FOM_RECEIVED"}]
    BY <1>1, <1>2 DEF DecideRoles, Send, Worlds
  <1> HIDE DEF v
  <1>4. /\ f \in Earbud /\ f # e /\ v.air[f] \in Seq(Pdus) /\ p \in Pdus
        /\ v.air \in [Earbud -> Seq(Pdus)]
    BY <1>2, PeerOK, LinkIsNat, PduTypes DEF Worlds
  <1> HIDE DEF p
  <1>5. q \in Seq(Pdus) /\ \A n : Queued(n, q) <=> Queued(n, v.air[f]) \/ n = p
    BY <1>4, AppendQueue
  <1> HIDE DEF q
  <1>6. sent \in Worlds /\ sent.me = r /\ sent.link = w.link
        /\ sent.air = [v.air EXCEPT ![f] = q]
    BY <1>2, <1>4, <1>5 DEF Worlds
  <1> HIDE DEF sent
  <1>7. s \in Worlds /\ s.me = r /\ s.link = w.link
    BY <1>2, <1>6
  <1>8. \A h \in Earbud : \A n : Queued(n, s.air[h])
          => Queued(n, w.air[h]) \/ (h = f /\ r.client /\ w.link.up /\ n = p)
    <2> SUFFICES ASSUME NEW h \in Earbud, NEW n, Queued(n, s.air[h])
                 PROVE  Queued(n, w.air[h]) \/ (h = f /\ r.client /\ w.link.up /\ n = p)
      OBVIOUS
    <2>1. CASE r.client /\ v.link.up /\ h = f
      BY <1>2, <1>4, <1>5, <1>6, <2>1
    <2>2. CASE ~(r.client /\ v.link.up /\ h = f)
      BY <1>2, <1>4, <1>6, <2>2
    <2> QED
      BY <2>1, <2>2
  <1> HIDE DEF s
  <1>9. /\ Gentle(s, u, {}) /\ u \in Worlds /\ Quiet(s, u, {})
        /\ u.me.state = IF s.me.state \in {"CLIENT_AWAITING_CONFIRM", "PANIC"} THEN "PANIC"
                        ELSE "CLIENT_AWAITING_CONFIRM"
        /\ u.me.gatt_cid = s.me.gatt_cid
    <2> DEFINE new == "CLIENT_AWAITING_CONFIRM"
    <2>1. /\ new \in States /\ new \in ClientStates
          /\ new \notin AdvertisingStates /\ new \notin DecidingStates
      BY DEF States, AdvertisingStates, ClientStates, DecidingStates
    <2> HIDE DEF new
    <2> DEFINE G == {}
    <2> HIDE DEF G
    <2>2. s \in Worlds /\ (s.me.state = new => new \notin AdvertisingStates)
      BY <1>7, <2>1
    <2>3. LET z == Move(s, new)
          IN  /\ Gentle(s, z, G) /\ z \in Worlds
              /\ z.me.state = IF s.me.state \in {new, "PANIC"} THEN "PANIC" ELSE new
              /\ (new \notin DecidingStates => Quiet(s, z, G))
              /\ (new \in ClientStates => z.me.gatt_cid = s.me.gatt_cid)
      BY <2>1, <2>2, MoveGentle
    <2> QED
      BY <2>1, <2>3 DEF new, G
  <1> HIDE DEF u
  <1>10. u.me.state = "CLIENT_AWAITING_CONFIRM" /\ u.me.gatt_cid = w.me.gatt_cid
    BY <1>1, <1>7, <1>9
  <1>11. Tame(r, u.me, w.link.up, {}) /\ Light(s, u)
    BY <1>7, <1>9 DEF Gentle
  <1>12. ~Deciding(u.me)
    <2>1. ~Queued(ClientInit, u.me.queue)
      BY <1>0, <1>1, <1>11, HeavyTypes DEF Tame, Holds
    <2> QED
      BY <1>10, <2>1 DEF Deciding, DecidingStates
  <1>13. Clienting(u.me)
    BY <1>0, <1>1, <1>10, <1>11 DEF Clienting, Tame, ClientStates
  <1>14. Writes(e, w, u, role)
    <2>1. \A h \in Earbud : \A n : Queued(n, u.air[h])
            => \/ Queued(n, w.air[h])
               \/ /\ w.link.up /\ n.link = w.link.id
                  /\ n.type \notin {"CHANGE_ROLE", "CHANGE_ROLE_RSP"}
               \/ /\ h = f /\ w.me.client /\ w.link.up
                  /\ n = Msg("CHANGE_ROLE", role, w.link.id)
      BY <1>1, <1>2, <1>7, <1>8, <1>11 DEF Light, p
    <2>2. u.link.up = w.link.up /\ u.link.id = w.link.id /\ u.link.gatt = w.link.gatt
      BY <1>7, <1>11 DEF Light
    <2> QED
      BY <1>9, <1>11, <1>12, <2>1, <2>2 DEF Writes
  <1>15. PICK more \in Writings : WorldStory(e, u, g, more, its)
    BY <1>0, <1>14, WritesStory
  <1>16. T \in SUBSET Timers
    BY <1>9 DEF Worlds, EarbudData
  <1>17. w.me.peer_score => DecideRoles(w, e, role) = x
    BY <1>3, <1>9 DEF Worlds, EarbudData
  <1> HIDE DEF T
  <1>18. Quiet(u, x, {}) /\ (Clienting(u.me) => Clienting(x.me))
    BY <1>9, <1>16, TimersQuiet
  <1> HIDE DEF x
  <1>19. WorldStory(e, x, g, more, its)
    BY <1>9, <1>15, <1>18, QuietStory
  <1>20. ~w.me.peer_score => DecideRoles(w, e, role) = w
    BY <1>3
  <1> QED
    BY <1>0, <1>13, <1>17, <1>18, <1>19, <1>20 DEF Goes

(* A step on the way to the decision. *)
LEMMA GentleReady ==
    ASSUME NEW e \in Earbud, NEW w \in Worlds, NEW v, NEW g, NEW mine, NEW its,
           Ready(e, w, g, mine, its), Gentle(w, v, {}),
           v.me.state \in ClientStates \ {"COMPLETED"}, w.me.gatt_cid => v.me.gatt_cid
    PROVE  Ready(e, v, g, mine, its)
  <1>1. WorldStory(e, v, g, mine, its) /\ Free(e, v, mine)
    BY GentleStory DEF Ready
  <1>2. Tame(w.me, v.me, w.link.up, {})
    BY DEF Gentle
  <1>3. Clienting(v.me)
    BY <1>2 DEF Ready, Clienting, Tame
  <1>4. ~Queued(ClientInit, v.me.queue)
    BY <1>2, HeavyTypes DEF Ready, Tame, Holds
  <1> QED
    BY <1>1, <1>3, <1>4 DEF Ready

(* One that is ready to decide stays so from state to state. *)
LEMMA MoveReady ==
    ASSUME NEW e \in Earbud, NEW w \in Worlds, NEW g, NEW mine, NEW its,
           NEW new \in ClientStates \ {"COMPLETED"},
           Ready(e, w, g, mine, its), w.me.state \notin {new, "PANIC"}
    PROVE  LET v == Move(w, new)
           IN  v \in Worlds /\ Ready(e, v, g, mine, its) /\ v.me.state = new
  <1> DEFINE v == Move(w, new)
             G == {}
  <1>0. new \in States /\ new \notin AdvertisingStates /\ new \in ClientStates
    BY DEF States, ClientStates, AdvertisingStates
  <1>1. Gentle(w, v, G) /\ v \in Worlds /\ v.me.state = new /\ v.me.gatt_cid = w.me.gatt_cid
    <2> HIDE DEF G
    <2> QED
      BY <1>0, MoveGentle
  <1> HIDE DEF v
  <1>2. Ready(e, v, g, mine, its)
    BY <1>1, GentleReady
  <1> QED
    BY <1>1, <1>2 DEF v

(* Asking for the figure of merit of the server, and what precedes it. *)
LEMMA ToClientDecidingStory ==
    ASSUME NEW e \in Earbud, NEW w \in Worlds, NEW g \in EarbudData,
           NEW mine \in Writings, NEW its, NEW role \in Roles,
           Ready(e, w, g, mine, its), w.me.state \notin {"CLIENT_DECIDING", "PANIC"}
    PROVE  Goes(e, ToClientDeciding(w, e, role), g, its)
  <1> DEFINE u == Move(w, "CLIENT_DECIDING")
             T == u.me.timers \cup {"NO_FOM_RECEIVED"}
             v == [u EXCEPT !.me.timers = T]
  <1>1. u \in Worlds /\ Ready(e, u, g, mine, its) /\ u.me.state = "CLIENT_DECIDING"
    BY MoveReady DEF ClientStates
  <1>2. ToClientDeciding(w, e, role) = DecideRoles([u EXCEPT
                                           !.me.timers = @ \cup {"NO_FOM_RECEIVED"}], e, role)
    BY DEF ToClientDeciding
  <1> HIDE DEF u
  <1>3. ToClientDeciding(w, e, role) = DecideRoles(v, e, role)
    BY <1>1, <1>2 DEF Worlds, EarbudData
  <1>4. T \in SUBSET Timers
    BY <1>1 DEF Worlds, EarbudData, Timers
  <1> HIDE DEF T
  <1>5. Quiet(u, v, {}) /\ v \in Worlds /\ Like(u.me, v.me)
    BY <1>1, <1>4, TimersQuiet
  <1> HIDE DEF v
  <1>6. Gentle(u, v, {}) /\ v.me.state = "CLIENT_DECIDING" /\ v.me.gatt_cid = u.me.gatt_cid
    BY <1>1, <1>5 DEF Quiet, Like
  <1>7. Ready(e, v, g, mine, its)
    BY <1>1, <1>6, GentleReady DEF ClientStates
  <1> QED
    BY <1>3, <1>5, <1>6, <1>7, DecideRolesStory

(* A world whose earbud is ready is one whose story goes on. *)
LEMMA ReadyGoes ==
    ASSUME NEW e, NEW w, NEW g, NEW mine \in Writings, NEW its, Ready(e, w, g, mine, its)
    PROVE  Goes(e, w, g, its)
  BY DEF Ready, Goes

(* Preparing to decide, or deciding. *)
LEMMA ToClientPreparingStory ==
    ASSUME NEW e \in Earbud, NEW w \in Worlds, NEW g \in EarbudData,
           NEW mine \in Writings, NEW its, NEW role \in Roles,
           Ready(e, w, g, mine, its), w.me.state \notin {"CLIENT_PREPARING", "PANIC"}
    PROVE  Goes(e, ToClientPreparing(w, e, role), g, its)
  <1> DEFINE v == Move(w, "CLIENT_PREPARING")
             x == [v EXCEPT !.me.preparing = TRUE]
  <1>1. v \in Worlds /\ Ready(e, v, g, mine, its) /\ v.me.state = "CLIENT_PREPARING"
    BY MoveReady DEF ClientStates
  <1>2. ToClientPreparing(w, e, role)
          = IF e \in PREPARES THEN x ELSE ToClientDeciding(v, e, role)
    BY DEF ToClientPreparing
  <1> HIDE DEF v
  <1>3. Goes(e, ToClientDeciding(v, e, role), g, its)
    BY <1>1, ToClientDecidingStory
  <1>4. Quiet(v, x, {}) /\ x \in Worlds /\ Like(v.me, x.me)
    BY <1>1, PreparingQuiet
  <1> HIDE DEF x
  <1>5. Gentle(v, x, {}) /\ x.me.state = "CLIENT_PREPARING" /\ x.me.gatt_cid = v.me.gatt_cid
    BY <1>1, <1>4 DEF Quiet, Like
  <1>6. Ready(e, x, g, mine, its)
    BY <1>1, <1>5, GentleReady DEF ClientStates
  <1> QED
    BY <1>2, <1>3, <1>6, ReadyGoes

(* Waiting for the link to be encrypted, or going on. *)
LEMMA ToClientAwaitingEncryptionStory ==
    ASSUME NEW e \in Earbud, NEW w \in Worlds, NEW g \in EarbudData,
           NEW mine \in Writings, NEW its, NEW role \in Roles,
           Ready(e, w, g, mine, its), w.me.state \notin {"CLIENT_AWAITING_ENCRYPTION", "PANIC"}
    PROVE  Goes(e, ToClientAwaitingEncryption(w, e, role), g, its)
  <1> DEFINE v == Move(w, "CLIENT_AWAITING_ENCRYPTION")
  <1>1. v \in Worlds /\ Ready(e, v, g, mine, its) /\ v.me.state = "CLIENT_AWAITING_ENCRYPTION"
    BY MoveReady DEF ClientStates
  <1>2. ToClientAwaitingEncryption(w, e, role)
          = IF v.me.gatt_encrypted THEN ToClientPreparing(v, e, role) ELSE v
    BY DEF ToClientAwaitingEncryption
  <1> HIDE DEF v
  <1>3. Goes(e, ToClientPreparing(v, e, role), g, its)
    BY <1>1, ToClientPreparingStory
  <1> QED
    BY <1>1, <1>2, <1>3, ReadyGoes

(* The earbud becomes the client of the link, over which it has not        *)
(* written.                                                                *)
LEMMA ToClientStory ==
    ASSUME NEW e \in Earbud, NEW w \in Worlds, NEW g \in EarbudData,
           NEW mine \in Writings, NEW its,
           WorldStory(e, w, g, mine, its), Free(e, w, mine), w.me.state \in AdvertisingStates,
           w.me.gatt_cid, w.link.up, e \in w.link.gatt, mine[w.link.id] = "none",
           ~Queued(Gatt(w.link.id), w.me.queue)
    PROVE  Goes(e, ToClient(w), g, its)
  <1> DEFINE v == Move(w, "CLIENT")
             u == Unpost(v, "CONNECT_TO_PEER")
             r == [u.me EXCEPT !.timers = @ \ {"DISCOVERY"}, !.peer_score = FALSE,
                               !.client = TRUE]
             y == [u EXCEPT !.me = r]
             x == Post(y, ClientInit)
             f == Peer(e)
  <1>1. /\ Gentle(w, v, {}) /\ v \in Worlds /\ v.me.state = "CLIENT"
        /\ v.me.gatt_cid = w.me.gatt_cid
    <2> DEFINE new == "CLIENT"
               G == {}
    <2>1. /\ new \in States /\ new \in ClientStates
          /\ new \notin AdvertisingStates /\ w.me.state \notin {new, "PANIC"}
      BY DEF States, AdvertisingStates, ClientStates
    <2> HIDE DEF new, G
    <2>2. LET z == Move(w, new)
          IN  /\ Gentle(w, z, G) /\ z \in Worlds
              /\ z.me.state = IF w.me.state \in {new, "PANIC"} THEN "PANIC" ELSE new
              /\ (new \in ClientStates => z.me.gatt_cid = w.me.gatt_cid)
      BY <2>1, MoveGentle
    <2> QED
      BY <2>1, <2>2 DEF new, G
  <1> DEFINE q == CancelAll(v.me.queue, {Connect})
  <1>2. /\ u \in Worlds /\ u.me \in EarbudData
        /\ u.me = [v.me EXCEPT !.queue = q] /\ u.link = v.link /\ u.air = v.air
        /\ Within(u.me.queue, v.me.queue)
    BY <1>1, UnpostOK DEF Connect, Signals, Unpost, Worlds
  <1>3. ToClient(w) = x
    BY <1>2 DEF ToClient, ClientInit, Worlds, EarbudData
  <1> HIDE DEF v, q
  <1>4. Like(v.me, u.me)
    BY <1>1, <1>2 DEF Like, Worlds, EarbudData
  <1> HIDE DEF u
  <1>5. Gentle(w, u, {})
    <2>1. Tame(v.me, u.me, v.link.up, {})
      BY <1>2, <1>4, HoldsWithin, LikeTame
    <2>2. Light(v, u)
      BY <1>2 DEF Light
    <2>3. Gentle(v, u, {})
      BY <1>2, <2>1, <2>2 DEF Gentle
    <2> QED
      BY <1>1, <2>3, GentleTrans
  <1>6. WorldStory(e, u, g, mine, its) /\ Free(e, u, mine)
    BY <1>5, GentleStory
  <1>7. /\ u.link.up = w.link.up /\ u.link.id = w.link.id /\ u.link.gatt = w.link.gatt
        /\ ~Queued(Gatt(u.link.id), u.me.queue)
        /\ u.me.state = "CLIENT" /\ u.me.gatt_cid
    BY <1>1, <1>4, <1>5, HeavyTypes DEF Gentle, Light, Tame, Holds, Like
  <1>8. u.me.queue \in Seq(Messages)
    BY <1>2 DEF EarbudData
  <1> DEFINE p == Append(u.me.queue, ClientInit)
             d == [r EXCEPT !.queue = p]
  <1>9. ClientInit \in Messages
    BY SignalTypes DEF ClientInit, Signals
  <1>10. /\ p \in Seq(Messages)
         /\ \A n : Queued(n, p) <=> Queued(n, u.me.queue) \/ n = ClientInit
         /\ \A n : Once(n, u.me.queue) /\ ~(n = ClientInit /\ Queued(n, u.me.queue)) => Once(n, p)
    BY <1>8, <1>9, AppendQueue
  <1>11. r \in EarbudData /\ r.queue = u.me.queue
    BY <1>2 DEF EarbudData
  <1>12. y \in Worlds /\ y.me = r /\ y.link = u.link /\ y.air = u.air
    BY <1>2, <1>11, EarbudUpdate
  <1>13. x.me = d /\ x.link = u.link /\ x.air = u.air
    BY <1>11, <1>12 DEF Post, Worlds
  <1> HIDE DEF x, y, p
  <1>14. /\ d.state = u.me.state /\ d.gatt_cid = u.me.gatt_cid /\ d.client /\ d.queue = p
         /\ d.remote_role = u.me.remote_role /\ d.connecting = u.me.connecting
         /\ d.advert_handle = u.me.advert_handle /\ d.outcome = u.me.outcome
         /\ d.selected_role = u.me.selected_role
    BY <1>2, <1>10, <1>11 DEF EarbudData
  <1> HIDE DEF d, r
  <1>15. \A n : /\ Gatt(n) # ClientInit
                /\ \A a : Told(a, n) # ClientInit /\ Confirm(a, n) # ClientInit
    BY DEF Gatt, Told, Confirm, ClientInit, Signal, Msg
  <1> DEFINE l == u.link
  <1>16. LinkTale(d, l, e \in l.gatt, mine)
    <2>1. LinkTale(u.me, l, e \in l.gatt, mine)
      BY <1>6 DEF WorldStory
    <2>2. l.up /\ e \in l.gatt /\ mine[l.id] = "none"
      BY <1>7
    <2>3. ~Queued(Gatt(l.id), p) /\ Once(Gatt(l.id), p)
      BY <1>7, <1>10, <1>15, <2>1, <2>2 DEF LinkTale
    <2> HIDE DEF l
    <2>4. Bare(d) /\ ~d.connecting
      BY <1>14, <2>1, <2>2 DEF LinkTale, Bare
    <2> QED
      BY <1>14, <2>1, <2>2, <2>3, <2>4 DEF LinkTale
  <1>17. LinkTale(g, l, f \in l.gatt, its) /\ RoleTale(g, l, its, mine)
         /\ Mail(g, l, u.air[f], u.air[e], its)
    BY <1>6 DEF WorldStory
  <1>18. RoleTale(d, l, mine, its)
    <2>1. RoleTale(u.me, l, mine, its)
      BY <1>6 DEF WorldStory
    <2> HIDE DEF l
    <2>2. \A a \in Flags, n \in Nat : ~Queued(Confirm(a, n), d.queue)
      BY <1>6, <1>10, <1>14, <1>15 DEF Free
    <2>3. \A role \in Roles, n \in Nat : Queued(Told(role, n), d.queue) => its[n] = role
      BY <1>10, <1>14, <1>15, <2>1 DEF RoleTale
    <2> QED
      BY <1>14, <2>1, <2>2, <2>3 DEF RoleTale
  <1>19. Mail(d, l, u.air[e], u.air[f], mine)
    <2>1. Mail(u.me, l, u.air[e], u.air[f], mine)
      BY <1>6 DEF WorldStory
    <2> HIDE DEF l
    <2> QED
      BY <1>6, <1>14, <2>1 DEF Mail, Free
  <1>20. WorldStory(e, x, g, mine, its)
    BY <1>13, <1>16, <1>17, <1>18, <1>19 DEF WorldStory
  <1>21. Clienting(x.me)
    BY <1>7, <1>13, <1>14 DEF Clienting, ClientStates
  <1> QED
    BY <1>3, <1>20, <1>21 DEF Goes

-----------------------------------------------------------------------------
(* What the handlers do to all this. *)

(* The scan has stopped. *)
LEMMA HandleStopCfmQuiet ==
    ASSUME NEW w \in Worlds, NEW G, Clienting(w.me)
    PROVE  LET v == HandleStopCfm(w)
           IN  Quiet(w, v, G) /\ v \in Worlds /\ Clienting(v.me)
  <1> DEFINE r == [w.me EXCEPT !.scan = "off"]
             x == StartScanningIfInactive(r)
             s == IF r.scan_enable THEN x ELSE r
             v == [w EXCEPT !.me = s]
  <1>1. HandleStopCfm(w) = v
    BY DEF HandleStopCfm
  <1>2. r \in EarbudData /\ Like(w.me, r) /\ r.queue = w.me.queue
    BY DEF Worlds, EarbudData, Like
  <1> HIDE DEF r
  <1>3. x \in EarbudData /\ Like(r, x) /\ Holds(x.queue, r.queue)
    BY <1>2, StartScanLike
  <1>4. Holds(r.queue, r.queue)
    BY WithinSame, HoldsWithin
  <1> HIDE DEF x
  <1>5. s \in EarbudData /\ Like(w.me, s) /\ Holds(s.queue, w.me.queue)
    BY <1>2, <1>3, <1>4 DEF Like
  <1> HIDE DEF s
  <1>6. Quiet(w, v, G) /\ v \in Worlds /\ Clienting(v.me)
    BY <1>5, QuietUpdate
  <1> QED
    BY <1>1, <1>6

(* The address of the peer is stored. *)
LEMMA StoreAddressQuiet ==
    ASSUME NEW w \in Worlds, NEW G, Clienting(w.me)
    PROVE  LET v == [w EXCEPT !.me.peer_addr = TRUE]
           IN  Quiet(w, v, G) /\ v \in Worlds /\ Like(w.me, v.me) /\ Clienting(v.me)
  <1> DEFINE r == [w.me EXCEPT !.peer_addr = TRUE]
             v == [w EXCEPT !.me = r]
  <1>1. [w EXCEPT !.me.peer_addr = TRUE] = v
    BY DEF Worlds
  <1>2. r \in EarbudData /\ Like(w.me, r) /\ r.queue = w.me.queue
    BY DEF Worlds, EarbudData, Like
  <1> HIDE DEF r
  <1>3. Quiet(w, v, G) /\ v \in Worlds /\ Like(w.me, v.me) /\ Clienting(v.me)
    BY <1>2, WithinSame, HoldsWithin, QuietUpdate
  <1> QED
    BY <1>1, <1>3

(* An advertising report. *)
LEMMA HandleAdvReportQuiet ==
    ASSUME NEW w \in Worlds, NEW G, Clienting(w.me)
    PROVE  LET v == HandleAdvReport(w)
           IN  Quiet(w, v, G) /\ v \in Worlds /\ Clienting(v.me)
  <1> DEFINE v == [w EXCEPT !.me.peer_addr = TRUE]
             x == ToDiscoveredDevice(v)
             seen == w.me.state \in {"DISCOVER", "DISCOVER_CONNECTABLE"}
  <1>1. HandleAdvReport(w) = IF seen THEN x ELSE w
    BY DEF HandleAdvReport
  <1>2. /\ Quiet(w, v, G) /\ v \in Worlds /\ Clienting(v.me)
        /\ v.me.state = w.me.state
    BY StoreAddressQuiet DEF Like
  <1> HIDE DEF v
  <1>3. seen => Quiet(v, x, G) /\ x \in Worlds /\ ~x.me.client
    BY <1>2, ToDiscoveredDeviceQuiet
  <1> HIDE DEF x, seen
  <1>4. seen => Quiet(w, x, G) /\ Clienting(x.me)
    BY <1>2, <1>3, QuietTrans DEF Clienting
  <1> QED
    BY <1>1, <1>3, <1>4, QuietSame

(* The link comes up. *)
LEMMA HandleTpConnectQuiet ==
    ASSUME NEW w \in Worlds, NEW m, NEW G, Clienting(w.me)
    PROVE  LET v == HandleTpConnect(w, m)
           IN  Quiet(w, v, G) /\ v \in Worlds /\ Clienting(v.me)
  <1> DEFINE v == [w EXCEPT !.me.peer_addr = TRUE]
             x == ToServerAwaitingEncryption(v)
             ours == w.me.state = "CONNECTING_TO_DISCOVERED" /\ m.arg = "outgoing"
  <1>1. HandleTpConnect(w, m) = IF ours THEN x ELSE v
    BY DEF HandleTpConnect
  <1>2. Quiet(w, v, G) /\ v \in Worlds /\ Clienting(v.me)
    BY StoreAddressQuiet
  <1> HIDE DEF v, ours
  <1>3. Quiet(v, x, G) /\ x \in Worlds /\ ~x.me.client
    BY <1>2, ToServerAwaitingEncryptionQuiet
  <1> HIDE DEF x
  <1>4. Quiet(w, x, G) /\ Clienting(x.me)
    BY <1>2, <1>3, QuietTrans DEF Clienting
  <1> QED
    BY <1>1, <1>2, <1>3, <1>4

(* The result of the request for encryption. *)
LEMMA HandleBleSecurityQuiet ==
    ASSUME NEW w \in Worlds, NEW e \in Earbud, NEW m, NEW G, Clienting(w.me)
    PROVE  LET v == HandleBleSecurity(w, e, m)
           IN  Quiet(w, v, G) /\ v \in Worlds /\ Clienting(v.me)
  <1> DEFINE x == ToServerPreparing(w, e)
             d == ToDiscover(w)
  <1>1. HandleBleSecurity(w, e, m)
          = IF w.me.state # "SERVER_AWAITING_ENCRYPTION" THEN w
            ELSE IF m.arg = "yes" THEN x ELSE d
    BY DEF HandleBleSecurity
  <1>2. Quiet(w, x, G) /\ x \in Worlds /\ ~x.me.client
    BY ToServerPreparingQuiet
  <1>3. Quiet(w, d, G) /\ d \in Worlds /\ ~d.me.client
    BY ToDiscoverQuiet
  <1>4. Clienting(x.me) /\ Clienting(d.me) /\ Quiet(w, w, G)
    BY <1>2, <1>3, QuietSame DEF Clienting
  <1> HIDE DEF x, d
  <1> QED
    BY <1>1, <1>2, <1>3, <1>4

(* A search that is over has no client, nor has one whose links are to go. *)
LEMMA ForgetLinkQuiet ==
    ASSUME NEW w \in Worlds, NEW G, Clienting(w.me),
           w.me.state \notin ClientStates \ {"COMPLETED"}
    PROVE  LET v == [w EXCEPT !.me.gatt_cid = FALSE]
           IN  Quiet(w, v, G) /\ v \in Worlds /\ ~v.me.client
  <1> DEFINE r == [w.me EXCEPT !.gatt_cid = FALSE]
             v == [w EXCEPT !.me = r]
  <1>1. [w EXCEPT !.me.gatt_cid = FALSE] = v
    BY DEF Worlds
  <1>2. /\ r \in EarbudData /\ r.remote_role = w.me.remote_role /\ r.client = w.me.client
        /\ r.connecting = w.me.connecting /\ r.advert_handle = w.me.advert_handle
        /\ r.state = w.me.state /\ r.queue = w.me.queue /\ r.outcome = w.me.outcome
        /\ r.selected_role = w.me.selected_role
    BY DEF Worlds, EarbudData
  <1> HIDE DEF r
  <1>3. /\ Passes(r.outcome, {w.me.outcome, w.me.selected_role} \cup G)
        /\ Passes(r.selected_role, {w.me.selected_role} \cup G)
    BY <1>2 DEF Passes
  <1>4. Quiet(w, v, G) /\ v \in Worlds /\ v.me = r
    BY <1>2, <1>3, QuietOutcomes
  <1> QED
    BY <1>1, <1>2, <1>4 DEF Clienting

(* The link is lost. *)
LEMMA HandleDisconnectedQuiet ==
    ASSUME NEW w \in Worlds, NEW G, Clienting(w.me)
    PROVE  LET v == HandleDisconnected(w)
           IN  Quiet(w, v, G) /\ v \in Worlds /\ Clienting(v.me)
  <1> DEFINE u == [w EXCEPT !.me.gatt_cid = FALSE]
             state == w.me.state
             lost == \/ state \in {"DISCOVER_CONNECTABLE", "CONNECTING_TO_DISCOVERED"}
                     \/ state \in ClientStates \ {"COMPLETED"}
                     \/ state \in ServerStates \ {"SERVER_AWAITING_COMPLETION"}
             v == HandleDisconnected(w)
             Kept == Quiet(w, v, G) /\ v \in Worlds /\ Clienting(v.me)
             d == ToDiscover(w)
             n == NotifyIfPending(w)
             c == ToCompleted(u)
             s == SelectStateAfterCompletion(u)
  <1> SUFFICES Kept
    OBVIOUS
  <1>1. \/ v = w
        \/ v = d
        \/ state = "INITIALISED" /\ v = n
        \/ state = "SERVER_AWAITING_COMPLETION" /\ v = c
        \/ state = "COMPLETED" /\ v = s
    <2>1. v = IF ~w.me.peer_addr THEN w
              ELSE CASE lost -> d
                     [] state = "INITIALISED" -> n
                     [] state = "SERVER_AWAITING_COMPLETION" -> c
                     [] state = "COMPLETED" -> s
                     [] OTHER -> w
      BY DEF HandleDisconnected
    <2> HIDE DEF lost, v, d, n, c, s, u
    <2> QED
      BY <2>1
  <1> HIDE DEF v
  <1>2. CASE v = w
    BY <1>2, QuietSame
  <1>3. CASE v = d
    BY <1>3, ToDiscoverQuiet DEF Clienting
  <1>4. CASE state = "INITIALISED" /\ v = n
    <2>1. Quiet(w, n, G) /\ n \in Worlds /\ n.me.client = w.me.client
      BY NotifyIfPendingQuiet
    <2> HIDE DEF n
    <2>2. ~w.me.client
      BY <1>4 DEF Clienting, ClientStates
    <2> QED
      BY <1>4, <2>1, <2>2 DEF Clienting
  <1>5. CASE state = "SERVER_AWAITING_COMPLETION" /\ v = c
    <2>1. Quiet(w, u, G) /\ u \in Worlds /\ ~u.me.client
      BY <1>5, ForgetLinkQuiet DEF ClientStates
    <2> HIDE DEF u
    <2>2. Quiet(u, c, G) /\ c \in Worlds
      BY <2>1, ToCompletedQuiet DEF Clienting
    <2> HIDE DEF c
    <2>3. ~c.me.client
      BY <2>1, <2>2 DEF Quiet, Gentle, Tame
    <2> QED
      BY <1>5, <2>1, <2>2, <2>3, QuietTrans DEF Clienting
  <1>6. CASE state = "COMPLETED" /\ v = s
    <2>1. Quiet(w, u, G) /\ u \in Worlds /\ ~u.me.client
      BY <1>6, ForgetLinkQuiet
    <2> HIDE DEF u
    <2>2. Quiet(u, s, G) /\ s \in Worlds /\ ~s.me.client
      BY <2>1, SelectStateQuiet DEF Clienting
    <2> HIDE DEF s
    <2> QED
      BY <1>6, <2>1, <2>2, QuietTrans DEF Clienting
  <1> QED
    BY <1>1, <1>2, <1>3, <1>4, <1>5, <1>6

(* A timer expires. *)
LEMMA HandleTimeoutQuiet ==
    ASSUME NEW w \in Worlds, NEW e \in Earbud, NEW t \in Timers, NEW G, Clienting(w.me)
    PROVE  LET v == HandleTimeout(w, e, t)
           IN  Quiet(w, v, G) /\ v \in Worlds /\ Clienting(v.me)
  <1> DEFINE v == HandleTimeout(w, e, t)
             state == w.me.state
             Kept == Quiet(w, v, G) /\ v \in Worlds /\ Clienting(v.me)
  <1> SUFFICES Kept
    OBVIOUS
  <1> HIDE DEF v
  <1>1. CASE state # "INITIALISED" /\ t = "DISCOVERY"
    <2> DEFINE r == [w.me EXCEPT !.role_timeout = FALSE]
               u == [w EXCEPT !.me = r]
               o == Alone("ACTING_PRIMARY")
               n == NotifyImmediately(u, o)
    <2>1. v = n
      BY <1>1 DEF v, HandleTimeout, Worlds
    <2>2. r \in EarbudData /\ Like(w.me, r) /\ r.queue = w.me.queue
      BY DEF Worlds, EarbudData, Like
    <2> HIDE DEF r
    <2>3. Quiet(w, u, G) /\ u \in Worlds /\ Clienting(u.me)
      BY <2>2, WithinSame, HoldsWithin, QuietUpdate
    <2> HIDE DEF u
    <2>4. o \in Announced /\ Passes(o, {u.me.outcome, u.me.selected_role} \cup G)
      BY DEF Alone, Outcome, Outcomes, Announced, Passes
    <2> HIDE DEF o
    <2>5. /\ Quiet(u, n, G) /\ n \in Worlds
          /\ n.me.state = u.me.state /\ n.me.gatt_cid = u.me.gatt_cid
          /\ n.me.client = u.me.client
      BY <2>3, <2>4, NotifyImmediatelyQuiet
    <2> HIDE DEF n
    <2>6. Clienting(n.me)
      BY <2>3, <2>5 DEF Clienting
    <2> QED
      BY <2>1, <2>3, <2>5, <2>6, QuietTrans
  <1>2. CASE t = "ADVERT_BACKOFF" /\ state = "DISCOVER"
    <2>1. v = ToDiscoverConnectable(w)
      BY <1>2 DEF v, HandleTimeout
    <2> QED
      BY <1>2, <2>1, ToDiscoverConnectableQuiet DEF Clienting
  <1>3. CASE t = "PEER_CONNECTION" /\ state = "CONNECTING_TO_DISCOVERED"
    <2>1. v = ToDiscover(w)
      BY <1>3 DEF v, HandleTimeout
    <2> QED
      BY <2>1, ToDiscoverQuiet DEF Clienting
  <1>4. CASE t = "NOT_DISCONNECTED" /\ state = "SERVER_AWAITING_COMPLETION"
    <2> DEFINE u == [w EXCEPT !.me.gatt_cid = FALSE]
               x == ToCompleted(u)
    <2>1. v = x
      BY <1>4 DEF v, HandleTimeout
    <2>2. Quiet(w, u, G) /\ u \in Worlds /\ ~u.me.client
      BY <1>4, ForgetLinkQuiet DEF ClientStates
    <2> HIDE DEF u
    <2>3. Quiet(u, x, G) /\ x \in Worlds
      BY <2>2, ToCompletedQuiet DEF Clienting
    <2> HIDE DEF x
    <2>4. ~x.me.client
      BY <2>2, <2>3 DEF Quiet, Gentle, Tame
    <2> QED
      BY <2>1, <2>2, <2>3, <2>4, QuietTrans DEF Clienting
  <1>5. CASE t = "SERVER_ROLE_SELECTED" /\ state = "SERVER"
    <2>1. v = DisconnectLink(w)
      BY <1>5 DEF v, HandleTimeout
    <2> QED
      BY <2>1, DisconnectLinkQuiet DEF Clienting
  <1>6. CASE t = "NO_FOM_RECEIVED" /\ state = "CLIENT_DECIDING"
    <2> DEFINE type == "ENABLE_NOTIFICATIONS"
               arg == ""
    <2>1. v = Send(w, Peer(e), type, arg)
      BY <1>6 DEF v, HandleTimeout
    <2>2. /\ Msg(type, arg, w.link.id) \in Pdus /\ Peer(e) \in Earbud
          /\ type \notin {"CHANGE_ROLE", "CHANGE_ROLE_RSP"}
      BY LinkIsNat, PduTypes, PeerOK
    <2> HIDE DEF type, arg
    <2>3. Quiet(w, v, G) /\ v \in Worlds /\ v.me = w.me
      BY <2>1, <2>2, SendQuiet
    <2> QED
      BY <2>3
  <1>7. CASE v = w
    BY <1>7, QuietSame
  <1>8. \/ state # "INITIALISED" /\ t = "DISCOVERY"
        \/ t = "ADVERT_BACKOFF" /\ state = "DISCOVER"
        \/ t = "PEER_CONNECTION" /\ state = "CONNECTING_TO_DISCOVERED"
        \/ t = "NOT_DISCONNECTED" /\ state = "SERVER_AWAITING_COMPLETION"
        \/ t = "SERVER_ROLE_SELECTED" /\ state = "SERVER"
        \/ t = "NO_FOM_RECEIVED" /\ state = "CLIENT_DECIDING"
        \/ v = w
    BY DEF v, HandleTimeout
  <1> QED
    BY <1>1, <1>2, <1>3, <1>4, <1>5, <1>6, <1>7, <1>8

-----------------------------------------------------------------------------
(* The handlers go on with the story. *)

(* A quiet handler goes on with the story as it is. *)
LEMMA QuietGoes ==
    ASSUME NEW e \in Earbud, NEW w \in Worlds, NEW v, NEW g, NEW G,
           NEW mine \in Writings, NEW its, WorldStory(e, w, g, mine, its),
           Quiet(w, v, G), \A o \in G : Earned(o, mine, its), Clienting(v.me)
    PROVE  Goes(e, v, g, its)
  BY QuietStory DEF Goes

(* What the message m, taken from the queue, says of roles and the link. *)
Meant(e, m, w, mine, its) ==
    /\ m.type = "CHANGE_ROLE_IND" => its[m.link] \in Roles /\ m.arg = its[m.link]
    /\ m.type = "COMMAND_CFM" => mine[m.link] = w.me.remote_role
    /\ m = ClientInit => Free(e, w, mine)
    /\ m = Gatt(w.link.id) /\ w.link.up
         => /\ Free(e, w, mine) /\ e \in w.link.gatt /\ mine[w.link.id] = "none"
            /\ ~Queued(Gatt(w.link.id), w.me.queue)

(* The server takes the role it is given, and the client the other one     *)
(* once it is told that the server has its role.                           *)
LEMMA HandleRolesStory ==
    ASSUME NEW e \in Earbud, NEW w \in Worlds, NEW m \in Messages, NEW g,
           NEW mine \in Writings, NEW its,
           WorldStory(e, w, g, mine, its), Clienting(w.me), Meant(e, m, w, mine, its)
    PROVE  /\ m.type = "CHANGE_ROLE_IND" => Goes(e, HandleChangeRoleInd(w, m), g, its)
           /\ m.type = "COMMAND_CFM" => Goes(e, HandleCommandCfm(w, m), g, its)
  <1>1. Goes(e, w, g, its)
    BY DEF Goes
  <1>2. ASSUME NEW o \in Given, Earned(o, mine, its)
        PROVE  Goes(e, Completed(w, o), g, its)
    <2> DEFINE v == Completed(w, o)
               G == {o}
    <2>1. Passes(o, G) /\ \A x \in G : Earned(x, mine, its)
      BY <1>2 DEF Passes
    <2> HIDE DEF G
    <2>2. Quiet(w, v, G) /\ ~v.me.client
      BY <2>1, CompletedQuiet
    <2> HIDE DEF v
    <2>3. Goes(e, v, g, its)
      BY <2>1, <2>2, QuietGoes DEF Clienting
    <2> QED
      BY <2>3 DEF v
  <1>3. CASE m.type = "CHANGE_ROLE_IND"
    <2> DEFINE o == Outcome(m.arg, m.link, "server")
    <2>1. o \in Given
      BY <1>3 DEF Messages, Signals, Outcome, Outcomes, Given
    <2>2. Earned(o, mine, its)
      BY <1>3 DEF Meant, Earned, Outcome
    <2>3. HandleChangeRoleInd(w, m)
            = IF w.me.selected_role = NoRole THEN Completed(w, o) ELSE w
      BY DEF HandleChangeRoleInd
    <2> HIDE DEF o
    <2> QED
      BY <1>1, <1>2, <1>3, <2>1, <2>2, <2>3
  <1>4. CASE m.type = "COMMAND_CFM"
    <2> DEFINE o == Outcome(Other(w.me.remote_role), m.link, "client")
    <2>1. o \in Given
      BY <1>4 DEF Messages, Signals, Other, Roles, Outcome, Outcomes, Given
    <2>2. Earned(o, mine, its)
      BY <1>4 DEF Meant, Earned, Outcome, Worlds, EarbudData
    <2>3. HandleCommandCfm(w, m)
            = IF w.me.state = "CLIENT_AWAITING_CONFIRM" /\ m.arg = "yes"
              THEN Completed(w, o) ELSE w
      BY DEF HandleCommandCfm
    <2> HIDE DEF o
    <2> QED
      BY <1>1, <1>2, <1>4, <2>1, <2>2, <2>3
  <1> QED
    BY <1>3, <1>4

(* The GATT client is ready. *)
LEMMA HandleClientInitStory ==
    ASSUME NEW e \in Earbud, NEW w \in Worlds, NEW g \in EarbudData, NEW role \in Roles,
           NEW mine \in Writings, NEW its,
           WorldStory(e, w, g, mine, its), Clienting(w.me), Free(e, w, mine),
           Taken(ClientInit, w.me, w.link)
    PROVE  Goes(e, HandleClientInit(w, e, role), g, its)
  <1>1. w.me.state \in {"CLIENT", "COMPLETED"} /\ ~Queued(ClientInit, w.me.queue)
    BY DEF Taken
  <1>2. Ready(e, w, g, mine, its)
    BY <1>1 DEF Ready
  <1> QED
    BY <1>1, <1>2, ToClientAwaitingEncryptionStory DEF HandleClientInit

(* A client that decides is ready to. *)
LEMMA DecidingReady ==
    ASSUME NEW e \in Earbud, NEW w \in Worlds, NEW g, NEW mine, NEW its,
           WorldStory(e, w, g, mine, its), Clienting(w.me), EarbudInv(w.me, w.link),
           w.me.state \in DecidingStates \ {"CLIENT"}
    PROVE  Ready(e, w, g, mine, its)
  <1>1. ~Queued(ClientInit, w.me.queue)
    BY BusyQueue DEF DecidingStates, ClientStates
  <1>2. Free(e, w, mine)
    BY DecidingFree DEF Deciding
  <1> QED
    BY <1>1, <1>2 DEF Ready

(* The figure of merit of the server arrives. *)
LEMMA HandleFigureOfMeritStory ==
    ASSUME NEW e \in Earbud, NEW w \in Worlds, NEW m, NEW g \in EarbudData,
           NEW role \in Roles, NEW mine \in Writings, NEW its,
           WorldStory(e, w, g, mine, its), Clienting(w.me), EarbudInv(w.me, w.link)
    PROVE  Goes(e, HandleFigureOfMerit(w, e, m, role), g, its)
  <1> DEFINE b == (m.arg = "yes")
             r == [w.me EXCEPT !.peer_score = b]
             v == [w EXCEPT !.me = r]
             x == DecideRoles(v, e, role)
  <1>1. HandleFigureOfMerit(w, e, m, role)
          = IF v.me.state = "CLIENT_DECIDING" THEN x ELSE v
    BY DEF HandleFigureOfMerit, Worlds
  <1>2. b \in BOOLEAN
    OBVIOUS
  <1> HIDE DEF b
  <1>3. r \in EarbudData /\ Alike(w.me, r) /\ Like(w.me, r) /\ r.queue = w.me.queue
    BY <1>2 DEF Worlds, EarbudData, Alike, Like
  <1> HIDE DEF r
  <1>4. v \in Worlds /\ EarbudInv(v.me, v.link)
    BY <1>3, UpdateInv
  <1>5. Quiet(w, v, {}) /\ Clienting(v.me)
    BY <1>3, WithinSame, HoldsWithin, QuietUpdate
  <1> HIDE DEF v
  <1>6. WorldStory(e, v, g, mine, its)
    BY <1>5, QuietStory
  <1>7. Goes(e, v, g, its)
    BY <1>5, <1>6 DEF Goes
  <1>8. v.me.state = "CLIENT_DECIDING" => Goes(e, x, g, its)
    BY <1>4, <1>5, <1>6, DecidingReady, DecideRolesStory DEF DecidingStates
  <1> QED
    BY <1>1, <1>7, <1>8

(* The link is encrypted. *)
LEMMA HandleEncryptionChangeStory ==
    ASSUME NEW e \in Earbud, NEW w \in Worlds, NEW g \in EarbudData,
           NEW role \in Roles, NEW mine \in Writings, NEW its,
           WorldStory(e, w, g, mine, its), Clienting(w.me), EarbudInv(w.me, w.link)
    PROVE  Goes(e, HandleEncryptionChange(w, e, role), g, its)
  <1> DEFINE r == [w.me EXCEPT !.gatt_encrypted = TRUE]
             v == [w EXCEPT !.me = r]
             x == ToClientPreparing(v, e, role)
  <1>1. HandleEncryptionChange(w, e, role)
          = IF v.me.state = "CLIENT_AWAITING_ENCRYPTION" THEN x ELSE v
    BY DEF HandleEncryptionChange, Worlds
  <1>3. r \in EarbudData /\ Alike(w.me, r) /\ Like(w.me, r) /\ r.queue = w.me.queue
    BY DEF Worlds, EarbudData, Alike, Like
  <1> HIDE DEF r
  <1>4. v \in Worlds /\ EarbudInv(v.me, v.link)
    BY <1>3, UpdateInv
  <1>5. Quiet(w, v, {}) /\ Clienting(v.me)
    BY <1>3, WithinSame, HoldsWithin, QuietUpdate
  <1> HIDE DEF v
  <1>6. WorldStory(e, v, g, mine, its)
    BY <1>5, QuietStory
  <1>7. Goes(e, v, g, its)
    BY <1>5, <1>6 DEF Goes
  <1>8. v.me.state = "CLIENT_AWAITING_ENCRYPTION" => Goes(e, x, g, its)
    BY <1>4, <1>5, <1>6, DecidingReady, ToClientPreparingStory DEF DecidingStates
  <1> QED
    BY <1>1, <1>7, <1>8

(* The registered client has prepared. *)
LEMMA HandlePreparedStory ==
    ASSUME NEW e \in Earbud, NEW w \in Worlds, NEW g \in EarbudData,
           NEW role \in Roles, NEW mine \in Writings, NEW its,
           WorldStory(e, w, g, mine, its), Clienting(w.me), EarbudInv(w.me, w.link)
    PROVE  Goes(e, HandlePrepared(w, e, role), g, its)
  <1> DEFINE x == ToServer(w, e)
             d == ToClientDeciding(w, e, role)
  <1>1. HandlePrepared(w, e, role) = CASE w.me.state = "SERVER_PREPARING" -> x
                                       [] w.me.state = "CLIENT_PREPARING" -> d
                                       [] OTHER -> w
    BY DEF HandlePrepared
  <1>2. Goes(e, w, g, its)
    BY DEF Goes
  <1>3. Quiet(w, x, {}) /\ ~x.me.client
    BY ToServerQuiet
  <1> HIDE DEF x
  <1>4. Goes(e, x, g, its)
    BY <1>3, QuietGoes DEF Clienting
  <1>5. w.me.state = "CLIENT_PREPARING" => Goes(e, d, g, its)
    BY DecidingReady, ToClientDecidingStory DEF DecidingStates
  <1> HIDE DEF d
  <1> QED
    BY <1>1, <1>2, <1>4, <1>5

(* GATT comes up on the link: the earbud becomes its client, if it         *)
(* advertises.                                                             *)
LEMMA GattConnectStory ==
    ASSUME NEW e \in Earbud, NEW w \in Worlds, NEW m \in Messages, NEW g \in EarbudData,
           NEW mine \in Writings, NEW its,
           WorldStory(e, w, g, mine, its), Clienting(w.me), m.type = "GATT_CONNECT",
           Meant(e, m, w, mine, its)
    PROVE  Goes(e, GattConnect(w, e, m), g, its)
  <1> DEFINE r == [w.me EXCEPT !.gatt_cid = TRUE, !.peer_addr = TRUE]
             k == [w EXCEPT !.me = r]
             c == ToClient(k)
             x == SetServerScore(k, e, FALSE)
             v == GattConnect(w, e, m)
             ours == w.link.up /\ w.link.id = m.link
             serving == w.me.state \in {"SERVER_AWAITING_ENCRYPTION", "SERVER"}
             known == [w EXCEPT !.me.gatt_cid = TRUE, !.me.peer_addr = TRUE]
  <1>1. \/ v = w
        \/ v = k
        \/ v = x
        \/ ours /\ w.me.state \in AdvertisingStates /\ v = c
    <2>1. known = k
      BY DEF Worlds
    <2>2. v = IF ~ours THEN w
              ELSE CASE w.me.state \in AdvertisingStates -> ToClient(known)
                     [] serving -> IF w.me.figure_of_merit THEN SetServerScore(known, e, FALSE)
                                   ELSE known
                     [] OTHER -> w
      BY DEF GattConnect
    <2> HIDE DEF known, ours, serving, v
    <2>3. v = IF ~ours THEN w
              ELSE CASE w.me.state \in AdvertisingStates -> c
                     [] serving -> IF w.me.figure_of_merit THEN x ELSE k
                     [] OTHER -> w
      BY <2>1, <2>2
    <2> HIDE DEF k, x, c
    <2> QED
      BY <2>3
  <1>2. /\ r \in EarbudData /\ r.remote_role = w.me.remote_role /\ r.client = w.me.client
        /\ r.connecting = w.me.connecting /\ r.advert_handle = w.me.advert_handle
        /\ r.state = w.me.state /\ r.queue = w.me.queue /\ r.outcome = w.me.outcome
        /\ r.selected_role = w.me.selected_role /\ r.gatt_cid
    BY DEF Worlds, EarbudData
  <1> HIDE DEF r, v
  <1> DEFINE G == {}
  <1>3. \A o \in G : Earned(o, mine, its)
    OBVIOUS
  <1>4. /\ Passes(r.outcome, {w.me.outcome, w.me.selected_role} \cup G)
        /\ Passes(r.selected_role, {w.me.selected_role} \cup G)
    BY <1>2 DEF Passes
  <1> HIDE DEF G
  <1>5. Quiet(w, k, G) /\ k \in Worlds /\ k.me = r
    BY <1>2, <1>4, QuietOutcomes
  <1>6. k.link = w.link
    BY <1>2, EarbudUpdate
  <1> HIDE DEF k
  <1>7. Clienting(k.me)
    BY <1>2, <1>5 DEF Clienting
  <1>8. WorldStory(e, k, g, mine, its) /\ (Free(e, w, mine) => Free(e, k, mine))
    BY <1>3, <1>5, GentleStory DEF Quiet
  <1>9. Goes(e, w, g, its) /\ Goes(e, k, g, its)
    BY <1>7, <1>8 DEF Goes
  <1>10. Goes(e, x, g, its)
    <2>1. Quiet(k, x, G) /\ x.me.client = k.me.client /\ x.me.state = k.me.state
          /\ x.me.gatt_cid = k.me.gatt_cid
      BY <1>5, SetServerScoreQuiet
    <2> HIDE DEF x
    <2>2. Clienting(x.me)
      BY <1>7, <2>1 DEF Clienting
    <2> QED
      BY <1>3, <1>5, <1>8, <2>1, <2>2, QuietGoes
  <1> HIDE DEF x
  <1>11. ASSUME ours, w.me.state \in AdvertisingStates
         PROVE  Goes(e, c, g, its)
    <2>1. m = Gatt(w.link.id)
      BY <1>11 DEF Messages, Gatt, Msg, Signals
    <2>2. /\ Free(e, w, mine) /\ e \in w.link.gatt /\ mine[w.link.id] = "none"
          /\ ~Queued(Gatt(w.link.id), w.me.queue)
      BY <1>11, <2>1 DEF Meant
    <2>3. /\ Free(e, k, mine) /\ e \in k.link.gatt /\ mine[k.link.id] = "none"
          /\ ~Queued(Gatt(k.link.id), k.me.queue) /\ k.link.up
          /\ k.me.state \in AdvertisingStates /\ k.me.gatt_cid
      BY <1>2, <1>5, <1>6, <1>8, <1>11, <2>2
    <2> QED
      BY <1>5, <1>8, <2>3, ToClientStory
  <1> HIDE DEF c
  <1> QED
    BY <1>1, <1>9, <1>10, <1>11 DEF v

(* Every message that is handled only while the search is active. *)
LEMMA HandleActiveStory ==
    ASSUME NEW e \in Earbud, NEW w \in Worlds, NEW m \in Messages, NEW g \in EarbudData,
           NEW role \in Roles, NEW mine \in Writings, NEW its,
           WorldStory(e, w, g, mine, its), Clienting(w.me), EarbudInv(w.me, w.link),
           Taken(m, w.me, w.link), Meant(e, m, w, mine, its), w.me.state # "INITIALISED",
           m.type \notin {"STOP_CFM", "CANCEL_FIND_ROLE", "CONNECTION_IND", "GATT_CONNECT",
                          "ENCRYPTION_CHANGE_IND"}
    PROVE  Goes(e, HandleActive(w, e, m, role), g, its)
  <1> DEFINE v == HandleActive(w, e, m, role)
             G == {}
  <1>1. \A o \in G : Earned(o, mine, its)
    OBVIOUS
  <1> HIDE DEF v, G
  <1>2. Quiet(w, v, G) /\ Clienting(v.me) => Goes(e, v, g, its)
    BY <1>1, QuietGoes
  <1>3. CASE m.type = "CLIENT_INIT_CFM"
    <2>1. m = ClientInit
      BY <1>3 DEF Messages, ClientInit, Signal, Msg, Signals
    <2>2. v = HandleClientInit(w, e, role)
      BY <1>3 DEF v, HandleActive
    <2> QED
      BY <2>1, <2>2, HandleClientInitStory DEF Meant, v
  <1>4. CASE m.type = "CHANGE_ROLE_IND"
    <2>1. v = HandleChangeRoleInd(w, m)
      BY <1>4 DEF v, HandleActive
    <2> QED
      BY <1>4, <2>1, HandleRolesStory DEF v
  <1>5. CASE m.type = "COMMAND_CFM"
    <2>1. v = HandleCommandCfm(w, m)
      BY <1>5 DEF v, HandleActive
    <2> QED
      BY <1>5, <2>1, HandleRolesStory DEF v
  <1>6. CASE m.type = "FIGURE_OF_MERIT_IND"
    <2>1. v = HandleFigureOfMerit(w, e, m, role)
      BY <1>6 DEF v, HandleActive
    <2> QED
      BY <2>1, HandleFigureOfMeritStory DEF v
  <1>7. CASE m.type = "ADV_REPORT_IND"
    <2>1. v = HandleAdvReport(w)
      BY <1>7 DEF v, HandleActive
    <2> QED
      BY <1>2, <2>1, HandleAdvReportQuiet DEF v
  <1>8. CASE m.type = "BLE_SECURITY_CFM"
    <2>1. v = HandleBleSecurity(w, e, m)
      BY <1>8 DEF v, HandleActive
    <2> QED
      BY <1>2, <2>1, HandleBleSecurityQuiet DEF v
  <1>9. CASE m.type = "TP_CONNECT_IND"
    <2>1. v = HandleTpConnect(w, m)
      BY <1>9 DEF v, HandleActive
    <2> QED
      BY <1>2, <2>1, HandleTpConnectQuiet DEF v
  <1>10. CASE m.type = "CONNECT_TO_PEER"
    <2>1. m = Connect
      BY <1>10 DEF Messages, Connect, Signal, Msg, Signals
    <2>2. v = ToConnectingToDiscovered(w)
      BY <1>10 DEF v, HandleActive
    <2>3. w.me.state # "CONNECTING_TO_DISCOVERED"
      BY <2>1 DEF Taken
    <2>4. Quiet(w, v, G) /\ ~v.me.client
      BY <2>2, <2>3, ToConnectingQuiet
    <2> QED
      BY <1>2, <2>4 DEF Clienting, v
  <1>11. CASE m.type = "PREPARED"
    <2>1. v = HandlePrepared(w, e, role)
      BY <1>11 DEF v, HandleActive
    <2> QED
      BY <2>1, HandlePreparedStory DEF v
  <1>12. m.type \in Signals \cup {"TP_CONNECT_IND", "BLE_SECURITY_CFM", "FIGURE_OF_MERIT_IND",
                                "GATT_CONNECT", "CHANGE_ROLE_IND", "COMMAND_CFM"}
    BY DEF Messages
  <1> QED
    BY <1>3, <1>4, <1>5, <1>6, <1>7, <1>8, <1>9, <1>10, <1>11, <1>12 DEF Signals

(* Every message the earbud takes from its queue. *)
LEMMA HandleStory ==
    ASSUME NEW e \in Earbud, NEW w \in Worlds, NEW m \in Messages, NEW g \in EarbudData,
           NEW role \in Roles, NEW mine \in Writings, NEW its,
           WorldStory(e, w, g, mine, its), Clienting(w.me), EarbudInv(w.me, w.link),
           Taken(m, w.me, w.link), Meant(e, m, w, mine, its)
    PROVE  Goes(e, Handle(w, e, m, role), g, its)
  <1> DEFINE v == Handle(w, e, m, role)
             G == {}
             Others == {"STOP_CFM", "CANCEL_FIND_ROLE", "CONNECTION_IND", "GATT_CONNECT",
                        "ENCRYPTION_CHANGE_IND"}
  <1>1. \A o \in G : Earned(o, mine, its)
    OBVIOUS
  <1> HIDE DEF v, G
  <1>2. Quiet(w, v, G) /\ Clienting(v.me) => Goes(e, v, g, its)
    BY <1>1, QuietGoes
  <1>3. CASE m.type = "STOP_CFM"
    <2>1. v = HandleStopCfm(w)
      BY <1>3 DEF v, Handle
    <2> QED
      BY <1>2, <2>1, HandleStopCfmQuiet DEF v
  <1>4. CASE m.type = "CANCEL_FIND_ROLE"
    <2> DEFINE o == Alone("CANCELLED")
    <2>1. v = Completed(w, o)
      BY <1>4 DEF v, Handle
    <2>2. o \in Given /\ Passes(o, G)
      BY DEF Alone, Outcome, Outcomes, Given, Passes
    <2> HIDE DEF o
    <2>3. Quiet(w, v, G) /\ ~v.me.client
      BY <2>1, <2>2, CompletedQuiet
    <2> QED
      BY <1>2, <2>3 DEF Clienting, v
  <1>5. CASE m.type = "CONNECTION_IND"
    <2>1. v = HandleDisconnected(w)
      BY <1>5 DEF v, Handle
    <2> QED
      BY <1>2, <2>1, HandleDisconnectedQuiet DEF v
  <1>6. CASE m.type = "GATT_CONNECT"
    <2>1. v = GattConnect(w, e, m)
      BY <1>6 DEF v, Handle
    <2> QED
      BY <1>6, <2>1, GattConnectStory DEF v
  <1>7. CASE m.type = "ENCRYPTION_CHANGE_IND"
    <2>1. v = HandleEncryptionChange(w, e, role)
      BY <1>7 DEF v, Handle
    <2> QED
      BY <2>1, HandleEncryptionChangeStory DEF v
  <1>8. CASE m.type \notin Others /\ w.me.state = "INITIALISED"
    <2>1. v = w
      BY <1>8 DEF v, Handle
    <2> QED
      BY <2>1 DEF v, Goes
  <1>9. CASE m.type \notin Others /\ w.me.state # "INITIALISED"
    <2>1. v = HandleActive(w, e, m, role)
      BY <1>9 DEF v, Handle
    <2> QED
      BY <1>9, <2>1, HandleActiveStory DEF v
  <1> QED
    BY <1>3, <1>4, <1>5, <1>6, <1>7, <1>8, <1>9

(* Taking the first message that can be delivered keeps the story, and     *)
(* tells its handler what Meant says.                                      *)
LEMMA DeliverMeant ==
    ASSUME NEW e \in Earbud, NEW w \in Worlds, EarbudInv(w.me, w.link), NEW g,
           NEW mine \in Writings, NEW its \in Writings,
           WorldStory(e, w, g, mine, its), Clienting(w.me), NEW k \in DOMAIN w.me.queue,
           \A j \in 1 .. k - 1 : w.me.queue[j].type = "CONNECT_TO_PEER"
    PROVE  LET v == [w EXCEPT !.me.queue = RemoveAt(@, k)]
           IN  /\ WorldStory(e, v, g, mine, its) /\ Clienting(v.me)
               /\ Meant(e, w.me.queue[k], v, mine, its)
  <1> DEFINE q == w.me.queue
             p == RemoveAt(q, k)
             r == [w.me EXCEPT !.queue = p]
             v == [w EXCEPT !.me = r]
             m == q[k]
             l == w.link
  <1>1. q \in Seq(Messages) /\ m \in Messages
    BY DEF Worlds, EarbudData
  <1>2. [w EXCEPT !.me.queue = RemoveAt(@, k)] = v
    BY DEF Worlds
  <1>3. p \in Seq(Messages) /\ Within(p, q) /\ (Once(m, q) => ~Queued(m, p))
    BY <1>1, TakenFrom
  <1>4. Queued(m, q)
    BY DEF Queued
  <1>5. \A a : Ahead(a, m, q) /\ Queued(a, q) => a.type = "CONNECT_TO_PEER"
    <2> SUFFICES ASSUME NEW a, Ahead(a, m, q), Queued(a, q) PROVE a.type = "CONNECT_TO_PEER"
      OBVIOUS
    <2>1. PICK j \in DOMAIN q : q[j] = a
      BY DEF Queued
    <2>2. j < k /\ j \in 1 .. k - 1
      BY <1>1, <2>1 DEF Ahead
    <2> QED
      BY <2>1, <2>2
  <1> HIDE DEF p
  <1>6. r \in EarbudData /\ Like(w.me, r) /\ r.queue = p
    BY <1>3 DEF Worlds, EarbudData, Like
  <1> HIDE DEF r
  <1>7. v \in Worlds /\ v.me = r /\ v.link = w.link /\ v.air = w.air
    BY <1>6, EarbudUpdate
  <1>8. Quiet(w, v, {}) /\ Clienting(v.me)
    BY <1>3, <1>6, HoldsWithin, QuietUpdate
  <1> HIDE DEF v, m, q
  <1>9. WorldStory(e, v, g, mine, its) /\ (Free(e, w, mine) => Free(e, v, mine))
    BY <1>8, GentleStory DEF Quiet
  <1>10. LinkTale(w.me, l, e \in l.gatt, mine) /\ RoleTale(w.me, l, mine, its)
         /\ Mail(w.me, l, w.air[e], w.air[Peer(e)], mine)
    BY DEF WorldStory
  <1>11. l.id \in Nat /\ w.me.remote_role \in Roles
    BY LinkIsNat DEF Worlds, EarbudData
  <1>12. ASSUME m.type = "CHANGE_ROLE_IND"
         PROVE  its[m.link] \in Roles /\ m.arg = its[m.link]
    <2>1. m.arg \in Roles /\ m.link \in Nat /\ m = Told(m.arg, m.link)
      BY <1>1, <1>12 DEF Messages, Signals, Told, Msg
    <2> QED
      BY <1>4, <1>10, <2>1 DEF RoleTale, q
  <1>13. ASSUME m.type = "COMMAND_CFM"
         PROVE  mine[m.link] = v.me.remote_role
    <2>1. m.arg \in Flags /\ m.link \in Nat /\ m = Confirm(m.arg, m.link)
      BY <1>1, <1>13 DEF Messages, Signals, Confirm, Msg
    <2>2. mine[m.link] = w.me.remote_role
      BY <1>4, <1>10, <2>1 DEF RoleTale, q
    <2> QED
      BY <1>6, <1>7, <2>2 DEF Like
  <1>14. m = ClientInit => Free(e, v, mine)
    BY <1>4, <1>9, DecidingFree DEF Deciding, q
  <1>15. ASSUME m = Gatt(l.id), l.up
         PROVE  /\ Free(e, v, mine) /\ e \in l.gatt /\ mine[l.id] = "none"
                /\ ~Queued(Gatt(l.id), p)
    <2>1. /\ e \in l.gatt /\ mine[l.id] = "none" /\ ~w.me.client
          /\ Once(Gatt(l.id), q)
      BY <1>4, <1>10, <1>15 DEF LinkTale, q
    <2>2. ~Queued(Gatt(l.id), p)
      BY <1>3, <1>15, <2>1
    <2>3. ASSUME NEW a \in Flags, NEW n \in Nat
          PROVE  ~Queued(Confirm(a, n), q)
      <3>1. Confirm(a, n).type # "CONNECT_TO_PEER"
        BY DEF Confirm, Msg
      <3> QED
        BY <1>5, <1>10, <1>15, <3>1 DEF RoleTale, q
    <2>4. mine[l.id] # w.me.remote_role
      BY <1>11, <2>1 DEF Roles
    <2>5. Free(e, w, mine)
      BY <1>10, <2>1, <2>3, <2>4 DEF Free, Mail, q
    <2> QED
      BY <1>9, <2>1, <2>2, <2>5
  <1>16. Meant(e, m, v, mine, its)
    BY <1>6, <1>7, <1>12, <1>13, <1>14, <1>15 DEF Meant
  <1> QED
    BY <1>2, <1>8, <1>9, <1>16 DEF v, m, q

-----------------------------------------------------------------------------
(* The steps of the specification go on with the story. *)

(* For each earbud, what it has written. *)
Histories == [Earbud -> Writings]

(* What all there is tells of one history. *)
Story(wr) ==
    \A e \in Earbud :
        /\ Clienting(eb[e])
        /\ LinkTale(eb[e], link, e \in link.gatt, wr[e])
        /\ RoleTale(eb[e], link, wr[e], wr[Peer(e)])
        /\ Mail(eb[e], link, air[e], air[Peer(e)], wr[e])

(* The peer of the peer. *)
LEMMA PeerPair ==
    ASSUME NEW e \in Earbud
    PROVE  /\ Peer(e) \in Earbud /\ Peer(e) # e /\ Peer(Peer(e)) = e
           /\ \A h \in Earbud : h = e \/ h = Peer(e)
  <1> DEFINE f == Peer(e)
             g == Peer(f)
  <1>1. f \in Earbud /\ f # e
    BY PeerOK
  <1>2. g \in Earbud /\ g # f
    BY <1>1, PeerOK
  <1> HIDE DEF f, g
  <1>3. PICK a, b \in Earbud : a # b /\ Earbud = {a, b}
    BY FindRoleAssumption
  <1>4. \A h \in Earbud : h = e \/ h = f
    BY <1>1, <1>3
  <1> QED
    BY <1>1, <1>2, <1>4 DEF f, g

(* The story of the world an earbud acts on. *)
LEMMA StoryWorld ==
    ASSUME TypeOK, NEW wr \in Histories, Story(wr), NEW e \in Earbud
    PROVE  /\ WorldStory(e, World(e), eb[Peer(e)], wr[e], wr[Peer(e)])
           /\ Clienting(World(e).me) /\ eb[Peer(e)] \in EarbudData
           /\ wr[e] \in Writings /\ wr[Peer(e)] \in Writings
  <1>1. /\ World(e).me = eb[e] /\ World(e).link = link /\ World(e).air = air
    BY WorldOK
  <1>2. Peer(e) \in Earbud /\ Peer(Peer(e)) = e
    BY PeerPair
  <1>3. /\ LinkTale(eb[e], link, e \in link.gatt, wr[e])
        /\ RoleTale(eb[e], link, wr[e], wr[Peer(e)])
        /\ Mail(eb[e], link, air[e], air[Peer(e)], wr[e]) /\ Clienting(eb[e])
    BY DEF Story
  <1>4. /\ LinkTale(eb[Peer(e)], link, Peer(e) \in link.gatt, wr[Peer(e)])
        /\ RoleTale(eb[Peer(e)], link, wr[Peer(e)], wr[e])
        /\ Mail(eb[Peer(e)], link, air[Peer(e)], air[e], wr[Peer(e)])
    BY <1>2 DEF Story
  <1>5. eb[Peer(e)] \in EarbudData /\ wr[e] \in Writings /\ wr[Peer(e)] \in Writings
    BY <1>2 DEF TypeOK, Histories
  <1> QED
    BY <1>1, <1>3, <1>4, <1>5 DEF WorldStory

(* A step of one earbud. *)
LEMMA BecomesStory ==
    ASSUME TypeOK, NEW wr \in Histories, Story(wr), NEW e \in Earbud, NEW w, Becomes(e, w),
           Goes(e, w, eb[Peer(e)], wr[Peer(e)])
    PROVE  \E more \in Histories : Story(more)'
  <1>1. PICK mine \in Writings : WorldStory(e, w, eb[Peer(e)], mine, wr[Peer(e)])
    BY DEF Goes
  <1> DEFINE f == Peer(e)
             more == [wr EXCEPT ![e] = mine]
  <1>2. f \in Earbud /\ f # e /\ Peer(f) = e /\ \A h \in Earbud : h = e \/ h = f
    BY PeerPair
  <1>3. more \in Histories /\ more[e] = mine /\ more[f] = wr[f]
    BY <1>2 DEF Histories
  <1>4. /\ eb' = [eb EXCEPT ![e] = w.me] /\ link' = w.link /\ air' = w.air
        /\ eb \in [Earbud -> EarbudData]
    BY DEF Becomes, TypeOK
  <1>5. eb'[e] = w.me /\ eb'[f] = eb[f]
    BY <1>2, <1>4
  <1>6. Clienting(w.me) /\ Clienting(eb[f])
    BY <1>2 DEF Goes, Story
  <1>7. /\ LinkTale(w.me, w.link, e \in w.link.gatt, mine)
        /\ LinkTale(eb[f], w.link, f \in w.link.gatt, wr[f])
        /\ RoleTale(w.me, w.link, mine, wr[f])
        /\ RoleTale(eb[f], w.link, wr[f], mine)
        /\ Mail(w.me, w.link, w.air[e], w.air[f], mine)
        /\ Mail(eb[f], w.link, w.air[f], w.air[e], wr[f])
    BY <1>1 DEF WorldStory
  <1> HIDE DEF f, more
  <1>8. /\ Clienting(eb'[e]) /\ LinkTale(eb'[e], link', e \in link'.gatt, more[e])
        /\ RoleTale(eb'[e], link', more[e], more[Peer(e)])
        /\ Mail(eb'[e], link', air'[e], air'[Peer(e)], more[e])
    BY <1>3, <1>4, <1>5, <1>6, <1>7 DEF f
  <1>9. /\ Clienting(eb'[f]) /\ LinkTale(eb'[f], link', f \in link'.gatt, more[f])
        /\ RoleTale(eb'[f], link', more[f], more[Peer(f)])
        /\ Mail(eb'[f], link', air'[f], air'[Peer(f)], more[f])
    BY <1>2, <1>3, <1>4, <1>5, <1>6, <1>7
  <1>10. \A h \in Earbud :
           /\ Clienting(eb'[h]) /\ LinkTale(eb'[h], link', h \in link'.gatt, more[h])
           /\ RoleTale(eb'[h], link', more[h], more[Peer(h)])
           /\ Mail(eb'[h], link', air'[h], air'[Peer(h)], more[h])
    BY <1>2, <1>8, <1>9
  <1>11. Story(more)'
    BY <1>10 DEF Story
  <1> QED
    BY <1>3, <1>11

(* A quiet step of one earbud. *)
LEMMA QuietStep ==
    ASSUME TypeOK, NEW wr \in Histories, Story(wr), NEW e \in Earbud, NEW v, Becomes(e, v),
           Quiet(World(e), v, {}), Clienting(v.me)
    PROVE  \E more \in Histories : Story(more)'
  <1> DEFINE w == World(e)
             G == {}
  <1>1. /\ WorldStory(e, w, eb[Peer(e)], wr[e], wr[Peer(e)])
        /\ wr[e] \in Writings /\ w \in Worlds /\ Quiet(w, v, G)
        /\ \A o \in G : Earned(o, wr[e], wr[Peer(e)])
    BY StoryWorld, WorldOK
  <1> HIDE DEF w, G
  <1>2. Goes(e, v, eb[Peer(e)], wr[Peer(e)])
    BY <1>1, QuietGoes
  <1> QED
    BY <1>2, BecomesStory

(* The main task takes a message. *)
LEMMA DeliverStory ==
    ASSUME Inv, NEW wr \in Histories, Story(wr), NEW e \in Earbud, Deliver(e)
    PROVE  \E more \in Histories : Story(more)'
  <1>1. PICK k \in DOMAIN eb[e].queue, role \in Roles :
            /\ Deliverable(e, k)
            /\ \A j \in 1 .. k - 1 : ~Deliverable(e, j)
            /\ Becomes(e, Handle([World(e) EXCEPT !.me.queue = RemoveAt(@, k)], e,
                                 eb[e].queue[k], role))
    BY DEF Deliver
  <1> DEFINE w == World(e)
             g == eb[Peer(e)]
             u == [w EXCEPT !.me.queue = RemoveAt(@, k)]
             m == w.me.queue[k]
             v == Handle(u, e, m, role)
  <1>2. w \in Worlds /\ w.me = eb[e] /\ w.link = link /\ EarbudInv(w.me, w.link)
    BY WorldOK DEF Inv
  <1>3. Becomes(e, v)
    BY <1>1, <1>2
  <1>4. /\ m.type = "CONNECT_TO_PEER" => w.me.scan = "off"
        /\ \A j \in 1 .. k - 1 : w.me.queue[j].type = "CONNECT_TO_PEER"
        /\ k \in DOMAIN w.me.queue
    BY <1>1, <1>2 DEF Deliverable
  <1>5. /\ WorldStory(e, w, g, wr[e], wr[Peer(e)]) /\ Clienting(w.me)
        /\ g \in EarbudData /\ wr[e] \in Writings /\ wr[Peer(e)] \in Writings
    BY StoryWorld DEF Inv
  <1> HIDE DEF w, g
  <1>6. /\ u \in Worlds /\ EarbudInv(u.me, u.link)
        /\ Taken(m, u.me, u.link) /\ m \in Messages
    BY <1>2, <1>4, DeliverTakes
  <1>7. /\ WorldStory(e, u, g, wr[e], wr[Peer(e)]) /\ Clienting(u.me)
        /\ Meant(e, m, u, wr[e], wr[Peer(e)])
    BY <1>2, <1>4, <1>5, DeliverMeant
  <1> HIDE DEF u, m
  <1>8. Goes(e, v, g, wr[Peer(e)])
    BY <1>1, <1>5, <1>6, <1>7, HandleStory
  <1> HIDE DEF v
  <1> QED
    BY <1>3, <1>8, BecomesStory DEF Inv, g

(* A timer expires. *)
LEMMA ExpireStory ==
    ASSUME Inv, NEW wr \in Histories, Story(wr), NEW e \in Earbud, Expire(e)
    PROVE  \E more \in Histories : Story(more)'
  <1>1. PICK t \in eb[e].timers :
            Becomes(e, HandleTimeout([World(e) EXCEPT !.me.timers = @ \ {t}], e, t))
    BY DEF Expire
  <1> DEFINE w == World(e)
             T == w.me.timers \ {t}
             u == [w EXCEPT !.me.timers = T]
             v == HandleTimeout(u, e, t)
  <1>2. w \in Worlds /\ w.me = eb[e] /\ Clienting(w.me)
    BY WorldOK, StoryWorld DEF Inv
  <1>3. t \in Timers /\ Becomes(e, v) /\ T \in SUBSET Timers
    BY <1>1, <1>2 DEF Worlds, EarbudData
  <1> HIDE DEF w, T
  <1>4. Quiet(w, u, {}) /\ u \in Worlds /\ Clienting(u.me)
    BY <1>2, <1>3, TimersQuiet
  <1> HIDE DEF u
  <1>5. Quiet(u, v, {}) /\ Clienting(v.me)
    BY <1>3, <1>4, HandleTimeoutQuiet
  <1> HIDE DEF v
  <1>6. Quiet(w, v, {})
    BY <1>4, <1>5, QuietTrans
  <1> QED
    BY <1>3, <1>5, <1>6, QuietStep DEF Inv, w

(* PeerFindRole_FindRole. *)
LEMMA FindRoleStory ==
    ASSUME Inv, NEW wr \in Histories, Story(wr), NEW e \in Earbud, FindRole(e)
    PROVE  \E more \in Histories : Story(more)'
  <1>1. PICK timeout \in TIMEOUTS :
            Becomes(e, ToDiscover([World(e) EXCEPT !.me.role_timeout = timeout,
                                                   !.me.outcome = NoRole]))
    BY DEF FindRole
  <1> DEFINE w == World(e)
             r == [w.me EXCEPT !.role_timeout = timeout, !.outcome = NoRole]
             u == [w EXCEPT !.me = r]
             v == ToDiscover(u)
  <1>2. w \in Worlds /\ Clienting(w.me)
    BY WorldOK, StoryWorld DEF Inv
  <1>3. Becomes(e, v)
    BY <1>1, <1>2 DEF Worlds
  <1> HIDE DEF w
  <1>4. timeout \in BOOLEAN /\ NoRole \in Announced
    BY <1>1, FindRoleAssumption, StoredOutcomes
  <1>5. /\ r \in EarbudData /\ r.remote_role = w.me.remote_role /\ r.client = w.me.client
        /\ r.connecting = w.me.connecting /\ r.advert_handle = w.me.advert_handle
        /\ r.state = w.me.state /\ r.queue = w.me.queue /\ r.outcome = NoRole
        /\ r.selected_role = w.me.selected_role /\ r.gatt_cid = w.me.gatt_cid
    BY <1>2, <1>4 DEF Worlds, EarbudData, Announced
  <1> HIDE DEF r
  <1> DEFINE G == {}
  <1>6. /\ Passes(r.outcome, {w.me.outcome, w.me.selected_role} \cup G)
        /\ Passes(r.selected_role, {w.me.selected_role} \cup G)
    BY <1>5 DEF Passes, NoRole, Alone, Outcome
  <1> HIDE DEF G
  <1>7. Quiet(w, u, G) /\ u \in Worlds /\ u.me = r
    BY <1>2, <1>5, <1>6, QuietOutcomes
  <1>8. Clienting(u.me)
    BY <1>2, <1>5, <1>7 DEF Clienting
  <1> HIDE DEF u
  <1>9. Quiet(u, v, G) /\ Clienting(v.me)
    BY <1>7, <1>8, ToDiscoverQuiet DEF Clienting
  <1> HIDE DEF v
  <1>10. Quiet(w, v, G)
    BY <1>7, <1>9, QuietTrans
  <1> QED
    BY <1>3, <1>9, <1>10, QuietStep DEF Inv, w, G

(* PeerFindRole_FindRoleCancel. *)
LEMMA FindRoleCancelStory ==
    ASSUME Inv, NEW wr \in Histories, Story(wr), NEW e \in Earbud, FindRoleCancel(e)
    PROVE  \E more \in Histories : Story(more)'
  <1> DEFINE w == World(e)
             T == w.me.timers \ {"DISCOVERY"}
             u == [w EXCEPT !.me.timers = T]
             m == Signal("CANCEL_FIND_ROLE")
             v == Post(u, m)
  <1>1. w \in Worlds /\ Clienting(w.me)
    BY WorldOK, StoryWorld DEF Inv
  <1>2. Becomes(e, v) /\ T \in SUBSET Timers
    BY <1>1 DEF FindRoleCancel, Worlds, EarbudData
  <1> HIDE DEF w, T
  <1> DEFINE G == {}
  <1> HIDE DEF G
  <1>3. Quiet(w, u, G) /\ u \in Worlds /\ Clienting(u.me)
    BY <1>1, <1>2, TimersQuiet
  <1> HIDE DEF u
  <1>4. m \in Messages /\ m.type \notin Heavy
    BY SignalTypes DEF Signals, Signal, Msg, Heavy
  <1> HIDE DEF m
  <1>5. Quiet(u, v, G) /\ Clienting(v.me)
    BY <1>3, <1>4, PostQuiet
  <1> HIDE DEF v
  <1>6. Quiet(w, v, G)
    BY <1>3, <1>5, QuietTrans
  <1> QED
    BY <1>2, <1>5, <1>6, QuietStep DEF Inv, w, G

(* PeerFindRole_PrepareResponse. *)
LEMMA PrepareResponseStory ==
    ASSUME Inv, NEW wr \in Histories, Story(wr), NEW e \in Earbud, PrepareResponse(e)
    PROVE  \E more \in Histories : Story(more)'
  <1> DEFINE w == World(e)
             r == [w.me EXCEPT !.preparing = FALSE]
             u == [w EXCEPT !.me = r]
             m == Signal("PREPARED")
             asked == eb[e].state \in {"SERVER_PREPARING", "CLIENT_PREPARING"}
             x == Post(u, m)
             v == IF asked THEN x ELSE u
  <1>1. w \in Worlds /\ Clienting(w.me)
    BY WorldOK, StoryWorld DEF Inv
  <1>2. Becomes(e, v)
    BY <1>1 DEF PrepareResponse, Worlds
  <1> HIDE DEF w, asked
  <1>3. r \in EarbudData /\ Like(w.me, r) /\ r.queue = w.me.queue
    BY <1>1 DEF Worlds, EarbudData, Like
  <1> HIDE DEF r
  <1> DEFINE G == {}
  <1> HIDE DEF G
  <1>4. Quiet(w, u, G) /\ u \in Worlds /\ Clienting(u.me)
    BY <1>1, <1>3, WithinSame, HoldsWithin, QuietUpdate
  <1> HIDE DEF u
  <1>5. m \in Messages /\ m.type \notin Heavy
    BY SignalTypes DEF Signals, Signal, Msg, Heavy
  <1> HIDE DEF m
  <1>6. Quiet(u, x, G) /\ Clienting(x.me)
    BY <1>4, <1>5, PostQuiet
  <1> HIDE DEF x
  <1>7. Quiet(w, v, G) /\ Clienting(v.me)
    BY <1>4, <1>6, QuietTrans
  <1> HIDE DEF v
  <1> QED
    BY <1>2, <1>7, QuietStep DEF Inv, w, G

(* The scan manager reports the advertisement of the peer. *)
LEMMA AdvReportStory ==
    ASSUME Inv, NEW wr \in Histories, Story(wr), NEW e \in Earbud, AdvReport(e)
    PROVE  \E more \in Histories : Story(more)'
  <1> DEFINE w == World(e)
             v == Post(w, Report)
             G == {}
  <1>1. w \in Worlds /\ Clienting(w.me)
    BY WorldOK, StoryWorld DEF Inv
  <1>2. Becomes(e, v)
    BY DEF AdvReport, Report
  <1> HIDE DEF w, G
  <1>3. Report \in Messages /\ Report.type \notin Heavy
    BY SignalTypes DEF Report, Signals, Signal, Msg, Heavy
  <1>4. Quiet(w, v, G) /\ Clienting(v.me)
    BY <1>1, <1>3, PostQuiet
  <1> HIDE DEF v
  <1> QED
    BY <1>2, <1>4, QuietStep DEF Inv, w, G

(* The scan manager has stopped the scan. *)
LEMMA ScanStopsStory ==
    ASSUME Inv, NEW wr \in Histories, Story(wr), NEW e \in Earbud, ScanStops(e)
    PROVE  \E more \in Histories : Story(more)'
  <1> DEFINE w == World(e)
             r == [w.me EXCEPT !.scan = "stopped"]
             u == [w EXCEPT !.me = r]
             v == Post(u, Stop)
             G == {}
  <1>1. w \in Worlds /\ Clienting(w.me)
    BY WorldOK, StoryWorld DEF Inv
  <1>2. Becomes(e, v)
    BY <1>1 DEF ScanStops, Stop, Worlds
  <1> HIDE DEF w, G
  <1>3. r \in EarbudData /\ Like(w.me, r) /\ r.queue = w.me.queue
    BY <1>1 DEF Worlds, EarbudData, Like
  <1> HIDE DEF r
  <1>4. Quiet(w, u, G) /\ u \in Worlds /\ Clienting(u.me)
    BY <1>1, <1>3, WithinSame, HoldsWithin, QuietUpdate
  <1> HIDE DEF u
  <1>5. Stop \in Messages /\ Stop.type \notin Heavy
    BY SignalTypes DEF Stop, Signals, Signal, Msg, Heavy
  <1>6. Quiet(u, v, G) /\ Clienting(v.me)
    BY <1>4, <1>5, PostQuiet
  <1> HIDE DEF v
  <1>7. Quiet(w, v, G)
    BY <1>4, <1>6, QuietTrans
  <1> QED
    BY <1>2, <1>6, <1>7, QuietStep DEF Inv, w, G

(* The link cannot be encrypted. *)
LEMMA EncryptionFailsStory ==
    ASSUME Inv, NEW wr \in Histories, Story(wr), EncryptionFails
    PROVE  \E more \in Histories : Story(more)'
  <1> DEFINE e == link.central
             w == World(e)
             u == [w EXCEPT !.link.securing = FALSE]
             m == SecurityCfm(FALSE)
             v == Post(u, m)
             G == {}
  <1>1. e \in Earbud
    BY DEF Inv, TypeOK, Links
  <1>2. Becomes(e, v)
    BY DEF EncryptionFails
  <1> HIDE DEF e
  <1>3. w \in Worlds /\ Clienting(w.me)
    BY <1>1, WorldOK, StoryWorld DEF Inv
  <1> HIDE DEF w, G
  <1>4. /\ u \in Worlds /\ u.me = w.me /\ u.air = w.air
        /\ u.link.up = w.link.up /\ u.link.id = w.link.id /\ u.link.gatt = w.link.gatt
    BY <1>3 DEF Worlds, Links
  <1> HIDE DEF u
  <1>5. Tame(w.me, w.me, w.link.up, G)
    BY <1>3, QuietSame DEF Quiet, Gentle
  <1>6. Quiet(w, u, G)
    BY <1>4, <1>5 DEF Quiet, Gentle, Light
  <1>7. m \in Messages /\ m.type \notin Heavy
    BY DEF Messages, SecurityCfm, Msg, Flag, Flags, Heavy
  <1> HIDE DEF m
  <1>8. Quiet(u, v, G) /\ Clienting(v.me)
    BY <1>3, <1>4, <1>7, PostQuiet
  <1> HIDE DEF v
  <1>9. Quiet(w, v, G)
    BY <1>6, <1>8, QuietTrans
  <1> QED
    BY <1>1, <1>2, <1>8, <1>9, QuietStep DEF Inv, w, G

(* A message that is queued changes nothing else. *)
LEMMA Posted ==
    ASSUME NEW w \in Worlds, NEW m \in Messages
    PROVE  LET v == Post(w, m)
           IN  /\ v \in Worlds /\ Like(w.me, v.me) /\ v.link = w.link /\ v.air = w.air
               /\ v.me.queue = Append(w.me.queue, m) /\ w.me.queue \in Seq(Messages)
  <1> DEFINE q == Append(w.me.queue, m)
             r == [w.me EXCEPT !.queue = q]
             v == [w EXCEPT !.me = r]
  <1>1. w.me.queue \in Seq(Messages) /\ q \in Seq(Messages)
    BY DEF Worlds, EarbudData
  <1>2. Post(w, m) = v
    BY DEF Post, Worlds
  <1> HIDE DEF q
  <1>3. r \in EarbudData /\ Like(w.me, r) /\ r.queue = q
    BY <1>1 DEF Worlds, EarbudData, Like
  <1> HIDE DEF r
  <1>4. v \in Worlds /\ v.me = r /\ v.link = w.link /\ v.air = w.air
    BY <1>3, EarbudUpdate
  <1> QED
    BY <1>1, <1>2, <1>3, <1>4 DEF q

(* What an earbud is told of the GATT connection of its link: it is not    *)
(* its client yet, and has not written over it.                            *)
LEMMA GattUpTells ==
    ASSUME NEW e \in Earbud, NEW w \in Worlds, NEW u \in Worlds, NEW g,
           NEW mine, NEW its, WorldStory(e, w, g, mine, its),
           w.link.up, e \notin w.link.gatt, u.me = w.me, u.air = w.air,
           u.link.up = w.link.up, u.link.id = w.link.id,
           u.link.gatt = w.link.gatt \cup {e}
    PROVE  LET v == Post(u, Gatt(w.link.id))
           IN  WorldStory(e, v, g, mine, its) /\ Like(w.me, v.me)
  <1> DEFINE m == Gatt(w.link.id)
             v == Post(u, m)
             n == w.link.id
             q == w.me.queue
  <1>1. n \in Nat
    BY LinkIsNat
  <1>2. m \in Messages /\ m # ClientInit
        /\ (\A role, k : m # Told(role, k)) /\ (\A a, k : m # Confirm(a, k))
    BY <1>1 DEF Messages, Gatt, ClientInit, Told, Confirm, Signal, Msg
  <1>3. /\ v \in Worlds /\ Like(w.me, v.me) /\ v.link = u.link /\ v.air = w.air
        /\ v.me.queue = Append(q, m) /\ q \in Seq(Messages)
    BY <1>2, Posted
  <1>4. /\ \A o : Queued(o, v.me.queue) <=> Queued(o, q) \/ o = m
        /\ ~Queued(m, q) /\ Once(m, q) => Once(m, v.me.queue)
        /\ \A a, k : Ahead(Confirm(a, k), m, q) => Ahead(Confirm(a, k), m, v.me.queue)
    BY <1>2, <1>3, AppendQueue
  <1>5. /\ LinkTale(w.me, w.link, e \in w.link.gatt, mine)
        /\ LinkTale(g, w.link, Peer(e) \in w.link.gatt, its)
        /\ RoleTale(w.me, w.link, mine, its)
        /\ RoleTale(g, w.link, its, mine)
        /\ Mail(w.me, w.link, w.air[e], w.air[Peer(e)], mine)
        /\ Mail(g, w.link, w.air[Peer(e)], w.air[e], its)
    BY DEF WorldStory
  <1>6. ~Queued(m, q) /\ Once(m, q) /\ ~w.me.client /\ mine[n] = "none"
    BY <1>5 DEF LinkTale
  <1>7. Deciding(v.me) <=> Deciding(w.me)
    BY <1>2, <1>3, <1>4 DEF Deciding, Like
  <1> HIDE DEF v
  <1>8. LinkTale(v.me, v.link, e \in v.link.gatt, mine)
    <2>1. Bare(v.me) /\ ~v.me.client /\ (v.me.connecting => ~v.link.up)
      BY <1>3, <1>5, <1>6 DEF LinkTale, Bare, Like
    <2>2. \A k \in Nat : k > v.link.id => mine[k] = "none"
      BY <1>3, <1>5 DEF LinkTale
    <2>3. e \in v.link.gatt /\ v.link.id = n /\ Once(m, v.me.queue)
      BY <1>3, <1>4, <1>6
    <2> QED
      BY <1>6, <2>1, <2>2, <2>3 DEF LinkTale
  <1>9. LinkTale(g, v.link, Peer(e) \in v.link.gatt, its)
    <2>1. Peer(e) \in v.link.gatt <=> Peer(e) \in w.link.gatt
      BY <1>3, PeerOK
    <2> QED
      BY <1>3, <1>5, <2>1 DEF LinkTale
  <1>10. RoleTale(v.me, v.link, mine, its)
    <2>1. \A role \in Roles, k \in Nat : Queued(Told(role, k), v.me.queue) => its[k] = role
      BY <1>2, <1>4, <1>5 DEF RoleTale
    <2>2. ASSUME NEW a \in Flags, NEW k \in Nat, Queued(Confirm(a, k), v.me.queue)
          PROVE  /\ mine[k] = v.me.remote_role /\ ~Deciding(v.me)
                 /\ v.link.up => Ahead(Confirm(a, k), Gatt(v.link.id), v.me.queue)
      <3>1. Queued(Confirm(a, k), q)
        BY <1>2, <1>4, <2>2
      <3>2. /\ mine[k] = w.me.remote_role /\ ~Deciding(w.me)
            /\ Ahead(Confirm(a, k), m, q)
        BY <1>5, <3>1 DEF RoleTale
      <3> QED
        BY <1>3, <1>4, <1>7, <3>2 DEF Like
    <2>3. Earned(v.me.outcome, mine, its) /\ Earned(v.me.selected_role, mine, its)
      BY <1>3, <1>5 DEF RoleTale, Like
    <2> QED
      BY <2>1, <2>2, <2>3 DEF RoleTale
  <1>11. RoleTale(g, v.link, its, mine)
    BY <1>3, <1>5 DEF RoleTale
  <1>12. Mail(v.me, v.link, v.air[e], v.air[Peer(e)], mine)
    BY <1>3, <1>5, <1>7 DEF Mail, Like
  <1>13. Mail(g, v.link, v.air[Peer(e)], v.air[e], its)
    BY <1>3, <1>5 DEF Mail
  <1> QED
    BY <1>3, <1>8, <1>9, <1>10, <1>11, <1>12, <1>13 DEF WorldStory, v

(* GATT connects on the link that is up. *)
LEMMA GattUpStory ==
    ASSUME Inv, NEW wr \in Histories, Story(wr), NEW e \in Earbud, GattUp(e)
    PROVE  \E more \in Histories : Story(more)'
  <1> DEFINE w == World(e)
             g == eb[Peer(e)]
             u == [w EXCEPT !.link.gatt = @ \cup {e}]
             v == Post(u, Gatt(w.link.id))
  <1>1. /\ w \in Worlds /\ w.link = link /\ Clienting(w.me) /\ wr[e] \in Writings
        /\ WorldStory(e, w, g, wr[e], wr[Peer(e)])
    BY WorldOK, StoryWorld DEF Inv
  <1>2. Becomes(e, v)
    BY <1>1 DEF GattUp, Gatt
  <1>3. w.link.up /\ e \notin w.link.gatt
    BY <1>1 DEF GattUp
  <1> HIDE DEF w, g
  <1>4. /\ u \in Worlds /\ u.me = w.me /\ u.air = w.air
        /\ u.link.up = w.link.up /\ u.link.id = w.link.id
        /\ u.link.gatt = w.link.gatt \cup {e}
    BY <1>1 DEF Worlds, Links
  <1> HIDE DEF u
  <1>5. WorldStory(e, v, g, wr[e], wr[Peer(e)]) /\ Like(w.me, v.me)
    BY <1>1, <1>3, <1>4, GattUpTells
  <1> HIDE DEF v
  <1>6. Goes(e, v, g, wr[Peer(e)])
    BY <1>1, <1>5 DEF Goes, Clienting, Like
  <1> QED
    BY <1>2, <1>6, BecomesStory DEF Inv, g

(* A true message about a role may be posted, a confirmation only once     *)
(* GATT is known to be connected.                                          *)
LEMMA PostStory ==
    ASSUME NEW e \in Earbud, NEW w \in Worlds, NEW g, NEW mine, NEW its,
           NEW m \in Messages, WorldStory(e, w, g, mine, its), m.type \in Heavy,
           m # ClientInit, \A n : m # Gatt(n),
           \A role \in Roles, n \in Nat : m = Told(role, n) => its[n] = role,
           \A a \in Flags, n \in Nat : m = Confirm(a, n)
             => mine[n] = w.me.remote_role /\ ~Deciding(w.me)
                /\ (w.link.up => ~Queued(Gatt(w.link.id), w.me.queue))
    PROVE  LET v == Post(w, m)
           IN  WorldStory(e, v, g, mine, its) /\ Like(w.me, v.me)
  <1> DEFINE v == Post(w, m)
             n == w.link.id
             q == w.me.queue
             p == v.me.queue
  <1>1. n \in Nat
    BY LinkIsNat
  <1>2. /\ v \in Worlds /\ Like(w.me, v.me) /\ v.link = w.link /\ v.air = w.air
        /\ p = Append(q, m) /\ q \in Seq(Messages)
    BY Posted
  <1>3. /\ \A o : Queued(o, p) <=> Queued(o, q) \/ o = m
        /\ \A o : Once(o, q) /\ o # m => Once(o, p)
        /\ \A a, k : /\ Ahead(Confirm(a, k), Gatt(n), q)
                    /\ ~(Confirm(a, k) = m /\ Queued(Gatt(n), q))
              => Ahead(Confirm(a, k), Gatt(n), p)
    <2>1. \A a, k : Confirm(a, k) # Gatt(n)
      BY DEF Confirm, Gatt, Msg
    <2> HIDE DEF v
    <2> QED
      BY <1>2, <2>1, AppendQueue
  <1>4. /\ LinkTale(w.me, w.link, e \in w.link.gatt, mine)
        /\ LinkTale(g, w.link, Peer(e) \in w.link.gatt, its)
        /\ RoleTale(w.me, w.link, mine, its)
        /\ RoleTale(g, w.link, its, mine)
        /\ Mail(w.me, w.link, w.air[e], w.air[Peer(e)], mine)
        /\ Mail(g, w.link, w.air[Peer(e)], w.air[e], its)
    BY DEF WorldStory
  <1> HIDE DEF v, p
  <1>5. Deciding(v.me) <=> Deciding(w.me)
    BY <1>2, <1>3 DEF Deciding, Like, p
  <1>6. Queued(Gatt(n), p) <=> Queued(Gatt(n), q)
    BY <1>3
  <1>7. LinkTale(v.me, v.link, e \in v.link.gatt, mine)
    <2>1. Once(Gatt(n), q) => Once(Gatt(n), p)
      BY <1>3
    <2> QED
      BY <1>2, <1>4, <1>5, <1>6, <2>1 DEF LinkTale, Bare, Like, p
  <1>8. RoleTale(v.me, v.link, mine, its)
    <2>1. \A role \in Roles, k \in Nat : Queued(Told(role, k), p) => its[k] = role
      BY <1>3, <1>4 DEF RoleTale
    <2>2. ASSUME NEW a \in Flags, NEW k \in Nat, Queued(Confirm(a, k), p)
          PROVE  /\ mine[k] = w.me.remote_role /\ ~Deciding(w.me)
                 /\ w.link.up => Ahead(Confirm(a, k), Gatt(n), p)
      <3>1. CASE Queued(Confirm(a, k), q) /\ m # Confirm(a, k)
        BY <1>3, <1>4, <3>1 DEF RoleTale
      <3>2. CASE m = Confirm(a, k)
        <4>1. /\ mine[k] = w.me.remote_role /\ ~Deciding(w.me)
              /\ w.link.up => ~Queued(Gatt(n), p)
          BY <1>6, <3>2
        <4> QED
          BY <4>1 DEF Ahead, Queued
      <3> QED
        BY <1>3, <2>2, <3>1, <3>2
    <2>3. Earned(v.me.outcome, mine, its) /\ Earned(v.me.selected_role, mine, its)
      BY <1>2, <1>4 DEF RoleTale, Like
    <2>4. v.me.remote_role = w.me.remote_role
      BY <1>2 DEF Like
    <2> QED
      BY <1>2, <1>5, <2>1, <2>2, <2>3, <2>4 DEF RoleTale, p
  <1>9. Mail(v.me, v.link, v.air[e], v.air[Peer(e)], mine)
    BY <1>2, <1>4, <1>5 DEF Mail, Like
  <1> QED
    BY <1>2, <1>4, <1>7, <1>8, <1>9 DEF WorldStory, v

(* The response to a role that has been written may be sent. *)
LEMMA SendReplyStory ==
    ASSUME NEW e \in Earbud, NEW w \in Worlds, NEW g, NEW mine, NEW its,
           WorldStory(e, w, g, mine, its), NEW a \in Flags,
           its[w.link.id] = g.remote_role, ~Deciding(g)
    PROVE  LET v == Send(w, Peer(e), "CHANGE_ROLE_RSP", a)
           IN  v \in Worlds /\ WorldStory(e, v, g, mine, its) /\ v.me = w.me
               /\ v.link = w.link
  <1> DEFINE f == Peer(e)
             l == w.link
             m == Msg("CHANGE_ROLE_RSP", a, l.id)
             p == Append(w.air[f], m)
             x == [w EXCEPT !.air[f] = p]
             v == Send(w, f, "CHANGE_ROLE_RSP", a)
  <1>1. v = IF l.up THEN x ELSE w
    BY DEF Send
  <1>2. /\ f \in Earbud /\ f # e /\ m \in Pdus /\ m.link = l.id
        /\ m.type = "CHANGE_ROLE_RSP"
    BY PeerOK, LinkIsNat, PduTypes DEF Msg
  <1> HIDE DEF f, m, v
  <1>3. w.air[f] \in Seq(Pdus) /\ w.air \in [Earbud -> Seq(Pdus)]
    BY <1>2 DEF Worlds
  <1>4. p \in Seq(Pdus) /\ \A o : Queued(o, p) <=> Queued(o, w.air[f]) \/ o = m
    BY <1>2, <1>3, AppendQueue
  <1> HIDE DEF p
  <1>5. /\ x \in Worlds /\ x.me = w.me /\ x.link = l
        /\ x.air[f] = p /\ x.air[e] = w.air[e]
    BY <1>2, <1>3, <1>4 DEF Worlds
  <1> HIDE DEF x
  <1>6. /\ Mail(w.me, l, w.air[e], w.air[f], mine)
        /\ Mail(g, l, w.air[f], w.air[e], its)
    BY DEF WorldStory, f
  <1>7. Mail(x.me, x.link, x.air[e], x.air[f], mine)
    BY <1>2, <1>4, <1>5, <1>6 DEF Mail
  <1>8. l.up => Mail(g, x.link, x.air[f], x.air[e], its)
    BY <1>2, <1>4, <1>5, <1>6 DEF Mail
  <1>9. l.up => WorldStory(e, x, g, mine, its)
    BY <1>5, <1>7, <1>8 DEF WorldStory, f
  <1> QED
    BY <1>1, <1>5, <1>9 DEF v, f

(* An earbud receives what its peer has sent. *)
LEMMA ReceiveStory ==
    ASSUME Inv, NEW wr \in Histories, Story(wr), NEW e \in Earbud, Receive(e)
    PROVE  \E more \in Histories : Story(more)'
  <1> DEFINE m == Head(air[e])
             u == World(e)
             g == eb[Peer(e)]
             t == Tail(air[e])
             mine == wr[e]
             its == wr[Peer(e)]
             w == [u EXCEPT !.air[e] = t]
             v == Send(w, Peer(e), "CHANGE_ROLE_RSP", Flag(link.encrypted))
             role == Post(v, Told(m.arg, m.link))
             score == Send(w, Peer(e), "FIGURE_OF_MERIT", Flag(eb[e].figure_of_merit))
             confirm == Post(w, Confirm(m.arg, m.link))
             merit == Post(w, Msg("FIGURE_OF_MERIT_IND", m.arg, 0))
             x == CASE m.type = "CHANGE_ROLE" -> IF link.encrypted THEN role ELSE v
                    [] m.type = "ENABLE_NOTIFICATIONS" -> score
                    [] m.type = "CHANGE_ROLE_RSP" /\ eb[e].client -> confirm
                    [] m.type = "FIGURE_OF_MERIT" /\ eb[e].client -> merit
                    [] OTHER -> w
             G == {}
  <1>1. /\ u \in Worlds /\ u.me = eb[e] /\ u.air = air /\ u.link = link /\ Clienting(u.me)
        /\ WorldStory(e, u, g, mine, its) /\ mine \in Writings
    BY WorldOK, StoryWorld DEF Inv
  <1>2. /\ m \in Pdus /\ t \in Seq(Pdus) /\ Queued(m, air[e])
        /\ \A p : Queued(p, t) => Queued(p, air[e])
    <2>1. air[e] \in Seq(Pdus) /\ air[e] # <<>>
      BY DEF Inv, TypeOK, Receive
    <2> DEFINE q == air[e]
    <2> HIDE DEF q
    <2>2. /\ 1 \in DOMAIN q /\ Head(q) = q[1] /\ Head(q) \in Pdus /\ Tail(q) \in Seq(Pdus)
          /\ \A i \in DOMAIN Tail(q) : i + 1 \in DOMAIN q /\ Tail(q)[i] = q[i + 1]
      BY <2>1 DEF q
    <2> QED
      BY <2>2 DEF Queued, q
  <1>3. Becomes(e, x)
    BY <1>1 DEF Receive, Told, Confirm
  <1>4. /\ link.encrypted \in BOOLEAN /\ eb[e].figure_of_merit \in BOOLEAN
        /\ eb[e].client = u.me.client
    BY <1>1 DEF Inv, TypeOK, Links, EarbudData
  <1> HIDE DEF t
  <1>5. /\ w \in Worlds /\ w.me = u.me /\ w.link = u.link
        /\ \A f \in Earbud : f # e => w.air[f] = u.air[f]
        /\ w.air[e] = t
    BY <1>1, <1>2 DEF Worlds
  <1> HIDE DEF w, G
  <1>6. Quiet(u, w, G)
    <2>1. Tame(u.me, u.me, u.link.up, G)
      BY <1>1, QuietSame DEF Quiet, Gentle
    <2>2. Light(u, w)
      <3>1. \A f \in Earbud : \A p : Queued(p, w.air[f]) => Queued(p, u.air[f])
        BY <1>1, <1>2, <1>5
      <3> QED
        BY <1>5, <3>1 DEF Light
    <2> QED
      BY <1>5, <2>1, <2>2 DEF Quiet, Gentle
  <1>7. /\ link.up /\ m.link = link.id
        /\ m.type = "CHANGE_ROLE_RSP" => mine[link.id] = u.me.remote_role /\ ~Deciding(u.me)
        /\ m.type = "CHANGE_ROLE"
             => its[link.id] = g.remote_role /\ m.arg = g.remote_role /\ ~Deciding(g)
    BY <1>1, <1>2 DEF WorldStory, Mail
  <1> HIDE DEF g, mine, its, m
  <1>8. WorldStory(e, w, g, mine, its) /\ Clienting(w.me)
    <2>1. \A o \in G : Earned(o, mine, its)
      BY DEF G
    <2> QED
      BY <1>1, <1>5, <1>6, <2>1, QuietStory
  <1>9. w.link = link /\ w.me.client = eb[e].client
    BY <1>1, <1>4, <1>5
  <1> HIDE DEF u
  <1>10. ASSUME NEW y, x = y, WorldStory(e, y, g, mine, its), Clienting(y.me)
         PROVE  \E more \in Histories : Story(more)'
    <2> HIDE DEF x
    <2>1. Goes(e, y, g, its)
      BY <1>1, <1>10 DEF Goes
    <2> QED
      BY <1>3, <1>10, <2>1, BecomesStory DEF Inv, g, its
  <1>11. CASE m.type = "CHANGE_ROLE"
    <2> DEFINE a == Flag(link.encrypted)
    <2>1. a \in Flags /\ its[w.link.id] = g.remote_role /\ ~Deciding(g)
      BY <1>4, <1>7, <1>9, <1>11 DEF Flag, Flags
    <2> HIDE DEF a
    <2>2. v \in Worlds /\ WorldStory(e, v, g, mine, its) /\ v.me = w.me
      BY <1>5, <1>8, <2>1, SendReplyStory DEF a
    <2> HIDE DEF v
    <2> DEFINE n == Told(m.arg, m.link)
    <2>3. m.arg \in Roles /\ m.link \in Nat
      BY <1>2, <1>11 DEF Pdus
    <2>4. /\ n \in Messages /\ n.type \in Heavy /\ n # ClientInit /\ (\A k : n # Gatt(k))
          /\ (\A a1 \in Flags, k \in Nat : n # Confirm(a1, k))
          /\ \A r \in Roles, k \in Nat : n = Told(r, k) => its[k] = r
      <3>1. \A r, k : n = Told(r, k) => r = m.arg /\ k = m.link
        BY DEF Told, Msg
      <3>2. its[m.link] = m.arg
        BY <1>7, <1>11
      <3> QED
        BY <2>3, <3>1, <3>2
        DEF Messages, Heavy, Told, Gatt, ClientInit, Confirm, Signal, Msg
    <2>5. WorldStory(e, role, g, mine, its) /\ Like(v.me, role.me)
      <3> HIDE DEF n
      <3> QED
        BY <2>2, <2>4, PostStory DEF n
    <2> HIDE DEF role
    <2>6. x = role \/ x = v
      BY <1>11
    <2>7. Clienting(v.me) /\ Clienting(role.me)
      BY <1>8, <2>2, <2>5 DEF Clienting, Like
    <2> QED
      BY <1>10, <2>2, <2>5, <2>6, <2>7
  <1>12. CASE m.type = "ENABLE_NOTIFICATIONS"
    <2>1. x = score
      BY <1>12
    <2> DEFINE a == Flag(eb[e].figure_of_merit)
    <2>2. Msg("FIGURE_OF_MERIT", a, w.link.id) \in Pdus /\ Peer(e) \in Earbud
      BY <1>4, <1>5, LinkIsNat, PduTypes, PeerOK
    <2>3. Quiet(w, score, G) /\ score.me = w.me
      <3> HIDE DEF a
      <3> QED
        BY <1>5, <2>2, SendQuiet DEF a
    <2> HIDE DEF score
    <2>4. WorldStory(e, score, g, mine, its)
      <3>1. \A o \in G : Earned(o, mine, its)
        BY DEF G
      <3> QED
        BY <1>5, <1>8, <2>3, <3>1, QuietStory
    <2> QED
      BY <1>8, <1>10, <2>1, <2>3, <2>4
  <1>13. CASE m.type = "CHANGE_ROLE_RSP" /\ eb[e].client
    <2> DEFINE n == Confirm(m.arg, m.link)
    <2>1. x = confirm
      BY <1>13
    <2>2. m.arg \in Flags /\ m.link \in Nat
      BY <1>2, <1>13 DEF Pdus
    <2>3. /\ mine[m.link] = w.me.remote_role /\ ~Deciding(w.me)
          /\ ~Queued(Gatt(w.link.id), w.me.queue)
      <3>1. LinkTale(w.me, w.link, e \in w.link.gatt, mine)
        BY <1>8 DEF WorldStory
      <3> QED
        BY <1>5, <1>7, <1>9, <1>13, <3>1 DEF LinkTale
    <2>4. /\ n \in Messages /\ n.type \in Heavy /\ n # ClientInit /\ (\A k : n # Gatt(k))
          /\ (\A r \in Roles, k \in Nat : n # Told(r, k))
          /\ \A a \in Flags, k \in Nat : n = Confirm(a, k) => k = m.link
      BY <2>2 DEF Messages, Heavy, Told, Gatt, ClientInit, Confirm, Signal, Msg
    <2>5. WorldStory(e, confirm, g, mine, its) /\ Like(w.me, confirm.me)
      <3> HIDE DEF n
      <3> QED
        BY <1>5, <1>8, <2>3, <2>4, PostStory DEF n
    <2> HIDE DEF confirm
    <2> QED
      BY <1>8, <1>10, <2>1, <2>5 DEF Clienting, Like
  <1>14. CASE m.type = "FIGURE_OF_MERIT" /\ eb[e].client
    <2> DEFINE n == Msg("FIGURE_OF_MERIT_IND", m.arg, 0)
    <2>1. x = merit
      BY <1>14
    <2>2. n \in Messages /\ n.type \notin Heavy
      BY <1>2, <1>14 DEF Pdus, Messages, Heavy, Msg
    <2> HIDE DEF n
    <2>3. Quiet(w, merit, G) /\ Clienting(merit.me)
      BY <1>5, <1>8, <2>2, PostQuiet DEF n
    <2> HIDE DEF merit
    <2>4. WorldStory(e, merit, g, mine, its)
      <3>1. \A o \in G : Earned(o, mine, its)
        BY DEF G
      <3> QED
        BY <1>5, <1>8, <2>3, <3>1, QuietStory
    <2> QED
      BY <1>10, <2>1, <2>3, <2>4
  <1>15. CASE /\ m.type \notin {"CHANGE_ROLE", "ENABLE_NOTIFICATIONS"}
              /\ ~(m.type \in {"CHANGE_ROLE_RSP", "FIGURE_OF_MERIT"} /\ eb[e].client)
    <2>1. x = w
      BY <1>15
    <2> QED
      BY <1>8, <1>10, <2>1
  <1> QED
    BY <1>11, <1>12, <1>13, <1>14, <1>15

(* The two earbuds connect: neither is a client, nor has written over a    *)
(* link that is new.                                                       *)
LEMMA LinkUpStory ==
    ASSUME Inv, NEW wr \in Histories, Story(wr), NEW e \in Earbud, LinkUp(e)
    PROVE  Story(wr)'
  <1> DEFINE k == [NoLink(e, link.id + 1) EXCEPT !.up = TRUE]
             M(f) == Msg("TP_CONNECT_IND", IF f = e THEN "outgoing" ELSE "incoming", 0)
             R(f) == [eb[f] EXCEPT !.connecting = FALSE, !.queue = Append(@, M(f))]
  <1>1. link.id \in Nat /\ ~link.up
    BY FindRoleAssumption DEF Inv, TypeOK, Links, LinkUp
  <1>2. k.id = link.id + 1 /\ k.up /\ k.gatt = {}
    BY DEF NoLink
  <1>3. link' = k /\ eb' = [f \in Earbud |-> R(f)] /\ air' = air
    BY DEF LinkUp
  <1> HIDE DEF k
  <1>4. \A f \in Earbud : \A p : ~Queued(p, air[f])
    BY <1>1 DEF Story, Mail
  <1>5. \A f \in Earbud : ~eb[f].client
    <2>1. ~eb[e].client
      BY DEF LinkUp, Story, LinkTale
    <2>2. ~eb[Peer(e)].client
      <3>1. eb[Peer(e)].state \in AdvertisingStates
        BY PeerPair DEF LinkUp, Story, LinkTale, Bare
      <3>2. Clienting(eb[Peer(e)])
        BY PeerPair DEF Story
      <3> QED
        BY <3>1, <3>2 DEF Clienting, ClientStates, AdvertisingStates
    <2> QED
      BY <2>1, <2>2, PeerPair
  <1>6. ASSUME NEW f \in Earbud
        PROVE  /\ Clienting(R(f)) /\ LinkTale(R(f), k, f \in k.gatt, wr[f])
               /\ RoleTale(R(f), k, wr[f], wr[Peer(f)])
               /\ Mail(R(f), k, air[f], air[Peer(f)], wr[f])
    <2> DEFINE m == M(f)
               r == eb[f]
               s == R(f)
    <2>1. m \in Messages /\ m.type = "TP_CONNECT_IND" /\ m.type \notin Heavy
      BY DEF Msg, Messages, Heavy
    <2>2. /\ r \in EarbudData /\ EarbudInv(r, link) /\ r.queue \in Seq(Messages)
          /\ Clienting(r) /\ LinkTale(r, link, f \in link.gatt, wr[f])
          /\ RoleTale(r, link, wr[f], wr[Peer(f)]) /\ ~r.client
      BY <1>5 DEF Inv, TypeOK, EarbudData, Story
    <2> HIDE DEF m
    <2> DEFINE q == Append(r.queue, m)
    <2>3. /\ s.queue = q /\ s.state = r.state /\ s.client = r.client /\ ~s.connecting
          /\ s.gatt_cid = r.gatt_cid /\ s.advert_handle = r.advert_handle
          /\ s.remote_role = r.remote_role /\ s.outcome = r.outcome
          /\ s.selected_role = r.selected_role
      BY <2>2 DEF EarbudData, m
    <2>4. /\ \A o : o.type \in Heavy /\ Queued(o, q) => Queued(o, r.queue)
          /\ Holds(q, r.queue)
      BY <2>1, <2>2, HoldsAppend DEF Holds
    <2> HIDE DEF s, q, r
    <2>5. Deciding(s) => Deciding(r)
      BY <2>3, <2>4, HeavyTypes DEF Deciding
    <2>6. ~Queued(Gatt(k.id), q)
      <3>1. \A n \in Nat : Queued(Gatt(n), r.queue) => n <= link.id
        BY <2>2 DEF EarbudInv, Core, OrderInv
      <3>2. k.id \in Nat /\ ~(k.id <= link.id)
        BY <1>1, <1>2
      <3> QED
        BY <2>4, <3>1, <3>2, HeavyTypes
    <2>7. Clienting(s)
      BY <2>2, <2>3 DEF Clienting
    <2>8. LinkTale(s, k, f \in k.gatt, wr[f])
      <3>1. Bare(s) /\ ~s.client /\ ~s.connecting
        BY <2>2, <2>3 DEF LinkTale, Bare
      <3>2. \A n \in Nat : n > k.id => n > link.id
        BY <1>1, <1>2
      <3>3. \A n \in Nat : n > k.id => wr[f][n] = "none"
        BY <2>2, <3>2 DEF LinkTale
      <3>4. wr[f][k.id] = "none"
        <4>1. k.id \in Nat /\ k.id > link.id
          BY <1>1, <1>2
        <4> QED
          BY <2>2, <4>1 DEF LinkTale
      <3>5. Once(Gatt(k.id), s.queue) /\ ~Queued(Gatt(k.id), s.queue)
        BY <2>3, <2>6 DEF Once, Queued
      <3> QED
        BY <3>1, <3>3, <3>4, <3>5 DEF LinkTale
    <2>9. RoleTale(s, k, wr[f], wr[Peer(f)])
      <3>1. \A role \in Roles, n \in Nat :
                Queued(Told(role, n), s.queue) => wr[Peer(f)][n] = role
        BY <2>2, <2>3, <2>4, HeavyTypes DEF RoleTale
      <3>2. ASSUME NEW a \in Flags, NEW n \in Nat, Queued(Confirm(a, n), s.queue)
            PROVE  /\ wr[f][n] = s.remote_role /\ ~Deciding(s)
                   /\ k.up => Ahead(Confirm(a, n), Gatt(k.id), s.queue)
        <4>1. wr[f][n] = s.remote_role /\ ~Deciding(s)
          BY <2>2, <2>3, <2>4, <2>5, <3>2, HeavyTypes DEF RoleTale
        <4>2. Ahead(Confirm(a, n), Gatt(k.id), s.queue)
          BY <2>3, <2>6 DEF Ahead, Queued
        <4> QED
          BY <4>1, <4>2
      <3>3. Earned(s.outcome, wr[f], wr[Peer(f)]) /\ Earned(s.selected_role, wr[f], wr[Peer(f)])
        BY <2>2, <2>3 DEF RoleTale
      <3> QED
        BY <3>1, <3>2, <3>3 DEF RoleTale
    <2>10. Mail(s, k, air[f], air[Peer(f)], wr[f])
      BY <1>4, PeerPair DEF Mail
    <2> QED
      BY <2>7, <2>8, <2>9, <2>10 DEF s
  <1> HIDE DEF R
  <1>7. \A f \in Earbud : eb'[f] = R(f)
    BY <1>3
  <1>8. \A f \in Earbud :
            /\ Clienting(eb'[f]) /\ LinkTale(eb'[f], link', f \in link'.gatt, wr[f])
            /\ RoleTale(eb'[f], link', wr[f], wr[Peer(f)])
            /\ Mail(eb'[f], link', air'[f], air'[Peer(f)], wr[f])
    BY <1>3, <1>6, <1>7
  <1> QED
    BY <1>8 DEF Story

(* The link goes down, with what was in flight. *)
LEMMA DownStory ==
    ASSUME Inv, NEW wr \in Histories, Story(wr), Down
    PROVE  Story(wr)'
  <1> DEFINE k == NoLink(link.central, link.id)
             R(f) == [eb[f] EXCEPT !.queue = Append(@, Loss)]
  <1>1. k.id = link.id /\ ~k.up
    BY DEF NoLink
  <1>2. link' = k /\ eb' = [f \in Earbud |-> R(f)] /\ air' = [f \in Earbud |-> <<>>]
    BY DEF Down, Loss
  <1> HIDE DEF k
  <1>3. \A f \in Earbud : \A p : ~Queued(p, air'[f])
    BY <1>2 DEF Queued
  <1>4. Loss \in Messages /\ Loss.type \notin Heavy
    BY SignalTypes DEF Loss, Signals, Signal, Msg, Heavy
  <1>5. ASSUME NEW f \in Earbud
        PROVE  /\ Clienting(R(f)) /\ LinkTale(R(f), k, f \in k.gatt, wr[f])
               /\ RoleTale(R(f), k, wr[f], wr[Peer(f)])
               /\ Mail(R(f), k, air'[f], air'[Peer(f)], wr[f])
    <2> DEFINE r == eb[f]
               q == Append(r.queue, Loss)
               s == R(f)
    <2>1. /\ r \in EarbudData /\ r.queue \in Seq(Messages)
          /\ Clienting(r) /\ LinkTale(r, link, f \in link.gatt, wr[f])
          /\ RoleTale(r, link, wr[f], wr[Peer(f)])
      BY DEF Inv, TypeOK, EarbudData, Story
    <2>2. s.queue = q /\ Like(r, s)
      BY <2>1 DEF EarbudData, Like
    <2>3. Holds(s.queue, r.queue)
      BY <1>4, <2>1, <2>2, HoldsAppend
    <2> HIDE DEF s, q, r
    <2> DEFINE G == {}
    <2> HIDE DEF G
    <2>4. Tame(r, s, link.up, G) /\ (Deciding(s) => Deciding(r)) /\ Clienting(s)
      BY <2>1, <2>2, <2>3, LikeTame
    <2>5. LinkTale(s, k, f \in k.gatt, wr[f])
      BY <1>1, <2>1, <2>2 DEF LinkTale, Like, Bare
    <2>6. RoleTale(s, k, wr[f], wr[Peer(f)])
      <3>1. /\ \A role, n : Queued(Told(role, n), s.queue) => Queued(Told(role, n), r.queue)
            /\ \A a, n : Queued(Confirm(a, n), s.queue) => Queued(Confirm(a, n), r.queue)
        BY <2>3, HeavyTypes DEF Holds
      <3> QED
        BY <1>1, <2>1, <2>2, <2>4, <3>1 DEF RoleTale, Like
    <2>7. Mail(s, k, air'[f], air'[Peer(f)], wr[f])
      BY <1>3, PeerPair DEF Mail
    <2> QED
      BY <2>4, <2>5, <2>6, <2>7 DEF s
  <1> HIDE DEF R
  <1>6. \A f \in Earbud : eb'[f] = R(f)
    BY <1>2
  <1>7. \A f \in Earbud :
            /\ Clienting(eb'[f]) /\ LinkTale(eb'[f], link', f \in link'.gatt, wr[f])
            /\ RoleTale(eb'[f], link', wr[f], wr[Peer(f)])
            /\ Mail(eb'[f], link', air'[f], air'[Peer(f)], wr[f])
    BY <1>2, <1>5, <1>6
  <1> QED
    BY <1>7 DEF Story

(* The link is encrypted, of which both earbuds are told. *)
LEMMA EncryptStory ==
    ASSUME Inv, NEW wr \in Histories, Story(wr), Encrypt
    PROVE  Story(wr)'
  <1> DEFINE k == [link EXCEPT !.securing = FALSE, !.encrypted = TRUE]
             m == Signal("ENCRYPTION_CHANGE_IND")
             n == SecurityCfm(TRUE)
             R(f) == [eb[f] EXCEPT !.queue = @ \o IF f = link.central THEN <<m, n>> ELSE <<m>>]
  <1>1. k.id = link.id /\ k.up = link.up /\ k.gatt = link.gatt
    BY DEF Inv, TypeOK, Links
  <1>2. link' = k /\ eb' = [f \in Earbud |-> R(f)] /\ air' = air
    BY DEF Encrypt
  <1> HIDE DEF k
  <1>3. m \in Messages /\ m.type \notin Heavy
    BY SignalTypes DEF Signals, Signal, Msg, Heavy
  <1>4. n \in Messages /\ n.type \notin Heavy
    BY DEF Messages, SecurityCfm, Msg, Flag, Flags, Heavy
  <1> HIDE DEF m, n
  <1>5. ASSUME NEW f \in Earbud
        PROVE  /\ Clienting(R(f)) /\ LinkTale(R(f), k, f \in k.gatt, wr[f])
               /\ RoleTale(R(f), k, wr[f], wr[Peer(f)])
               /\ Mail(R(f), k, air[f], air[Peer(f)], wr[f])
    <2> DEFINE r == eb[f]
               p == Append(r.queue, m)
               q == Append(p, n)
               s == R(f)
               mine == wr[f]
               its == wr[Peer(f)]
    <2>1. /\ r \in EarbudData /\ r.queue \in Seq(Messages)
          /\ Clienting(r) /\ LinkTale(r, link, f \in link.gatt, mine)
          /\ RoleTale(r, link, mine, its) /\ Mail(r, link, air[f], air[Peer(f)], mine)
      BY DEF Inv, TypeOK, EarbudData, Story
    <2>2. (s.queue = p \/ s.queue = q) /\ Like(r, s)
      <3>1. r.queue \o <<m>> = p /\ r.queue \o <<m, n>> = q
        BY <1>3, <1>4, <2>1, AppendTwo
      <3>2. s.queue = r.queue \o IF f = link.central THEN <<m, n>> ELSE <<m>>
        BY <2>1 DEF EarbudData
      <3>3. Like(r, s)
        BY <2>1 DEF EarbudData, Like
      <3> HIDE DEF s, p, q, r
      <3> QED
        BY <3>1, <3>2, <3>3
    <2>3. p \in Seq(Messages) /\ Holds(p, r.queue)
      BY <1>3, <2>1, HoldsAppend
    <2> HIDE DEF p
    <2>4. Holds(q, p)
      BY <1>4, <2>3, HoldsAppend
    <2> HIDE DEF s, q, r, mine, its
    <2>5. Holds(s.queue, r.queue)
      BY <2>2, <2>3, <2>4, HoldsTrans
    <2> DEFINE G == {}
               joined == f \in link.gatt
               l == link
    <2>6. \A o \in G : Earned(o, mine, its)
      OBVIOUS
    <2> HIDE DEF G, joined, l
    <2>7. Tame(r, s, l.up, G) /\ (Deciding(s) => Deciding(r)) /\ Clienting(s)
      BY <2>1, <2>2, <2>5, LikeTame
    <2>8. LinkTale(s, k, joined, mine)
      BY <1>1, <2>1, <2>7, GentleLinkTale DEF joined, l
    <2>9. RoleTale(s, k, mine, its)
      BY <1>1, <2>1, <2>6, <2>7, GentleRoleTale DEF l
    <2>10. Mail(s, k, air[f], air[Peer(f)], mine)
      BY <1>1, <2>1, <2>2, <2>7 DEF Mail, Like
    <2> QED
      BY <1>1, <2>7, <2>8, <2>9, <2>10 DEF s, joined, mine, its
  <1> HIDE DEF R
  <1>6. \A f \in Earbud : eb'[f] = R(f)
    BY <1>2
  <1>7. \A f \in Earbud :
            /\ Clienting(eb'[f]) /\ LinkTale(eb'[f], link', f \in link'.gatt, wr[f])
            /\ RoleTale(eb'[f], link', wr[f], wr[Peer(f)])
            /\ Mail(eb'[f], link', air'[f], air'[Peer(f)], wr[f])
    BY <1>2, <1>5, <1>6
  <1> QED
    BY <1>7 DEF Story

(* The invariant: there is a history that all there is agrees with. *)
RoleInv == Inv /\ \E wr \in Histories : Story(wr)

(* When the earbuds start nothing has been written. *)
LEMMA InitStory ==
    ASSUME Init
    PROVE  RoleInv
  <1> DEFINE wr == [e \in Earbud |-> [n \in Nat |-> "none"]]
  <1>1. wr \in Histories /\ \A e \in Earbud, n \in Nat : wr[e][n] = "none"
    BY DEF Histories, Writings
  <1> HIDE DEF wr
  <1>2. /\ link.id \in Nat /\ ~link.up /\ \A e \in Earbud : eb[e] = EarbudInit
        /\ \A e \in Earbud : air[e] = <<>>
    BY DEF Init, NoLink
  <1>3. \A p : ~Queued(p, <<>>)
    BY DEF Queued
  <1> DEFINE r == EarbudInit
  <1>4. /\ r.queue = <<>> /\ ~r.client /\ ~r.connecting /\ ~r.advert_handle
        /\ r.state = "INITIALISED" /\ r.outcome = NoRole /\ r.selected_role = NoRole
    BY DEF EarbudInit
  <1> HIDE DEF r
  <1>5. ASSUME NEW e \in Earbud
        PROVE  /\ Clienting(eb[e])
               /\ LinkTale(eb[e], link, e \in link.gatt, wr[e])
               /\ RoleTale(eb[e], link, wr[e], wr[Peer(e)])
               /\ Mail(eb[e], link, air[e], air[Peer(e)], wr[e])
    <2>1. eb[e] = r /\ Peer(e) \in Earbud
      BY <1>2, PeerOK DEF r
    <2>2. Clienting(r)
      BY <1>4 DEF Clienting
    <2>3. LinkTale(r, link, e \in link.gatt, wr[e])
      BY <1>1, <1>2, <1>4 DEF LinkTale, Bare
    <2>4. Earned(NoRole, wr[e], wr[Peer(e)])
      BY DEF Earned, NoRole, Alone, Outcome
    <2>5. RoleTale(r, link, wr[e], wr[Peer(e)])
      BY <1>3, <1>4, <2>4 DEF RoleTale
    <2>6. Mail(r, link, air[e], air[Peer(e)], wr[e])
      BY <1>2, <1>3, <2>1 DEF Mail
    <2> QED
      BY <2>1, <2>2, <2>3, <2>5, <2>6
  <1>6. Story(wr)
    BY <1>5 DEF Story
  <1> QED
    BY <1>1, <1>6, InitInv DEF RoleInv

(* Every step goes on with the history, or adds to it. *)
LEMMA NextStory ==
    ASSUME RoleInv, [Next]_vars
    PROVE  RoleInv'
  <1>1. PICK wr \in Histories : Story(wr)
    BY DEF RoleInv
  <1>2. Inv /\ Inv'
    BY NextInv DEF RoleInv
  <1>3. Story(wr)' => \E more \in Histories : Story(more)'
    BY <1>1
  <1>4. ASSUME NEW e \in Earbud, EarbudStep(e)
        PROVE  \E more \in Histories : Story(more)'
    BY <1>1, <1>2, <1>4, DeliverStory, ExpireStory, FindRoleStory, FindRoleCancelStory,
       PrepareResponseStory DEF EarbudStep
  <1>5. ASSUME NEW e \in Earbud, RadioStep(e)
        PROVE  \E more \in Histories : Story(more)'
    BY <1>1, <1>2, <1>3, <1>5, AdvReportStory, ScanStopsStory, LinkUpStory, GattUpStory,
       ReceiveStory DEF RadioStep
  <1>6. (LinkCloses \/ LinkLost) => \E more \in Histories : Story(more)'
    BY <1>1, <1>2, <1>3, DownStory DEF LinkCloses, LinkLost
  <1>7. UNCHANGED vars => \E more \in Histories : Story(more)'
    BY <1>1, <1>3 DEF vars, Story
  <1>8. \E more \in Histories : Story(more)'
    BY <1>1, <1>2, <1>3, <1>4, <1>5, <1>6, <1>7, EncryptStory, EncryptionFailsStory DEF Next
  <1> QED
    BY <1>2, <1>8 DEF RoleInv

(* Two earbuds that were given their roles at the two ends of a link have  *)
(* opposite ones: the client has written one role over it, once, which the *)
(* server was told and which the client has taken the opposite of,         *)
(* whatever has been lost, cancelled or searched for again in between      *)
(* (peer_find_role_client_decide_roles, peer_find_role_completed).         *)
THEOREM OppositeEnds == Spec => []OppositeRoles
  <1>1. RoleInv => OppositeRoles
    <2> SUFFICES ASSUME RoleInv, NEW e \in Earbud,
                        eb[e].outcome.end = "client", eb[Peer(e)].outcome.end = "server",
                        eb[e].outcome.link = eb[Peer(e)].outcome.link
                 PROVE  eb[e].outcome.role = Other(eb[Peer(e)].outcome.role)
      BY DEF OppositeRoles
    <2>1. PICK wr \in Histories : Story(wr)
      BY DEF RoleInv
    <2> DEFINE f == Peer(e)
               n == eb[e].outcome.link
    <2>2. f \in Earbud /\ Peer(f) = e
      BY PeerPair
    <2>3. Earned(eb[e].outcome, wr[e], wr[f]) /\ Earned(eb[f].outcome, wr[f], wr[e])
      BY <2>1, <2>2 DEF Story, RoleTale
    <2>4. eb[e].outcome.role = Other(wr[e][n]) /\ eb[f].outcome.role = wr[e][n]
      BY <2>3 DEF Earned
    <2> QED
      BY <2>4
  <1>2. Init => RoleInv
    BY InitStory
  <1>3. RoleInv /\ [Next]_vars => RoleInv'
    BY NextStory
  <1> QED
    BY <1>1, <1>2, <1>3, PTL DEF Spec
=============================================================================
