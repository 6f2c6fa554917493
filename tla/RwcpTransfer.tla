---------------------------- MODULE RwcpTransfer ----------------------------
(***************************************************************************)
(* An upgrade transfer: the RWCP server of RwcpServer, the client (a phone *)
(* application, outside this repository) and the link between them.  GATT  *)
(* write commands and notifications stay in order but may be lost.  The    *)
(* client is the least one the server's replies make sense to: it numbers  *)
(* its payloads from the SYN's number, keeps at most CLIENT_WINDOW of them *)
(* unacknowledged, takes an acknowledgement for all payloads up to it,     *)
(* goes back to the first unacknowledged payload on a GAP or a timeout,    *)
(* and sends a SYN only when nothing of an earlier session is in flight    *)
(* (segments carry no session identity, so the server cannot tell).        *)
(***************************************************************************)
EXTENDS RwcpServer

CONSTANTS CLIENT_WINDOW,  \* payloads the client may leave unacknowledged
          PAYLOADS,       \* payloads of the transfer, numbered 1 .. PAYLOADS
          START_NUMBERS,  \* sequence numbers a SYN may carry
          LINK_SPACE,     \* bound: client segments in flight
          MAX_LOSSES,     \* bound: segments and notifications lost
          MAX_RESTARTS    \* bound: client resets, reconnections and pauses

ASSUME TransferAssumption ==
    /\ CLIENT_WINDOW \in 1 .. RECEIVE_WINDOW_MAX
    /\ PAYLOADS \in Nat
    /\ START_NUMBERS \subseteq Numbers
    /\ {LINK_SPACE, MAX_LOSSES, MAX_RESTARTS} \subseteq Nat

VARIABLES
    client,   \* [state, start, base, next]: base payloads are acknowledged
    segments, \* client -> server segments in flight
    losses,   \* losses so far
    restarts  \* resets, reconnections and pauses so far

vars == <<serverVars, client, segments, losses, restarts>>

NumberOf(start, payload) == (start + payload) % SEQUENCE_NUMBER_MAX

TransferInit ==
    /\ ServerInit
    /\ client = [state |-> "CLOSED", start |-> 0, base |-> 0, next |-> 1]
    /\ segments = <<>>
    /\ losses = 0
    /\ restarts = 0

----------------------------------------------------------------------------
(* The client. *)

Send(segment) ==
    /\ Len(segments) < LINK_SPACE
    /\ segments' = Append(segments, segment)

LinkIsQuiet == segments = <<>> /\ notifications = <<>>

ClientSyn ==
    /\ LinkIsQuiet
    /\ client.state \in {"CLOSED", "SYN_SENT"}
    /\ \E start \in START_NUMBERS :
        /\ client.state = "SYN_SENT" => start = client.start
        /\ Send([command |-> "SYN", sequence |-> start, payload |-> 0])
        /\ client' = [state |-> "SYN_SENT", start |-> start, base |-> 0, next |-> 1]
    /\ UNCHANGED <<serverVars, losses, restarts>>

ClientData ==
    /\ client.state = "ESTABLISHED"
    /\ client.next <= PAYLOADS
    /\ client.next <= client.base + CLIENT_WINDOW
    /\ Send([command  |-> "DATA",
             sequence |-> NumberOf(client.start, client.next),
             payload  |-> client.next])
    /\ client' = [client EXCEPT !.next = @ + 1]
    /\ UNCHANGED <<serverVars, losses, restarts>>

(* Nothing moves any more and payloads are unacknowledged: send them again. *)
ClientTimeout ==
    /\ client.state = "ESTABLISHED"
    /\ LinkIsQuiet
    /\ client.next > client.base + 1
    /\ client' = [client EXCEPT !.next = client.base + 1]
    /\ UNCHANGED <<serverVars, segments, losses, restarts>>

(* The payloads a DATA_ACK or GAP number newly acknowledges, with the ones *)
(* before them.                                                            *)
NewlyAcked(number) ==
    {p \in client.base + 1 .. client.base + CLIENT_WINDOW :
        NumberOf(client.start, p) = number}

AckedUpTo(number) ==
    IF NewlyAcked(number) = {} THEN client.base
                               ELSE CHOOSE p \in NewlyAcked(number) : TRUE

ClientReceive ==
    /\ notifications # <<>>
    /\ notifications' = Tail(notifications)
    /\ LET n == Head(notifications)
           acked == AckedUpTo(n.sequence)
       IN client' =
            CASE n.command = "SYN_ACK" /\ client.state = "SYN_SENT"
                    -> [client EXCEPT !.state = "ESTABLISHED"]
              [] n.command = "RST" /\ client.state # "CLOSED"
                    -> [client EXCEPT !.state = "CLOSED"]
              [] n.command = "DATA_ACK" /\ client.state = "ESTABLISHED"
                    -> [client EXCEPT !.base = acked,
                                      !.next = IF @ > acked THEN @ ELSE acked + 1]
              [] n.command = "GAP" /\ client.state = "ESTABLISHED"
                    -> [client EXCEPT !.base = acked, !.next = acked + 1]
              [] OTHER -> client
    /\ UNCHANGED <<protocol_state, last_sequence_number, out_of_sequence_status,
                   accept_segments, delivered, segments, losses, restarts>>

(* The client gives the session up, or sends the command the protocol      *)
(* reserves.                                                               *)
ClientReset ==
    /\ restarts < MAX_RESTARTS
    /\ client.state \in {"SYN_SENT", "ESTABLISHED"}
    /\ \E cmd \in {"RST", "RESERVED"} :
        Send([command |-> cmd, sequence |-> client.start, payload |-> 0])
    /\ client' = [client EXCEPT !.state = "CLOSED"]
    /\ restarts' = restarts + 1
    /\ UNCHANGED <<serverVars, losses>>

----------------------------------------------------------------------------
(* The server and the link. *)

ServerReceive ==
    /\ segments # <<>>
    /\ HandleMessage(Head(segments))
    /\ segments' = Tail(segments)
    /\ UNCHANGED <<client, losses, restarts>>

(* The transport pauses the server; resuming is not bounded. *)
ServerPause ==
    /\ accept_segments
    /\ restarts < MAX_RESTARTS
    /\ FlowControl(FALSE)
    /\ restarts' = restarts + 1
    /\ UNCHANGED <<client, segments, losses>>

ServerResume ==
    /\ ~accept_segments
    /\ FlowControl(TRUE)
    /\ UNCHANGED <<client, segments, losses, restarts>>

Lose ==
    /\ losses < MAX_LOSSES
    /\ losses' = losses + 1
    /\ \/ /\ segments # <<>>
          /\ segments' = Tail(segments)
          /\ UNCHANGED serverVars
       \/ /\ notifications # <<>>
          /\ notifications' = Tail(notifications)
          /\ UNCHANGED <<protocol_state, last_sequence_number, delivered,
                         out_of_sequence_status, accept_segments, segments>>
    /\ UNCHANGED <<client, restarts>>

(* The LE link drops and comes back.  RwcpServerInit runs when the GATT    *)
(* service starts, not per connection: the server keeps its state.         *)
Reconnect ==
    /\ restarts < MAX_RESTARTS
    /\ restarts' = restarts + 1
    /\ segments' = <<>>
    /\ notifications' = <<>>
    /\ client' = [client EXCEPT !.state = "CLOSED"]
    /\ UNCHANGED <<protocol_state, last_sequence_number, out_of_sequence_status,
                   accept_segments, delivered, losses>>

TransferNext ==
    \/ ClientSyn \/ ClientData \/ ClientTimeout \/ ClientReceive \/ ClientReset
    \/ ServerReceive \/ ServerPause \/ ServerResume
    \/ Lose \/ Reconnect

(* The client keeps sending and retransmitting, the link keeps carrying,   *)
(* the scheduler runs the server's handler and the transport resumes a     *)
(* paused server.                                                          *)
Fairness ==
    /\ WF_vars(ClientSyn) /\ WF_vars(ClientData) /\ WF_vars(ClientTimeout)
    /\ WF_vars(ClientReceive) /\ WF_vars(ServerReceive) /\ WF_vars(ServerResume)

TransferSpec == TransferInit /\ [][TransferNext]_vars /\ Fairness

----------------------------------------------------------------------------
Segment == [command : ClientCommands, sequence : Numbers, payload : 0 .. PAYLOADS]

TypeOK ==
    /\ protocol_state \in {"LISTEN", "SYN_RCVD", "ESTABLISHED"}
    /\ last_sequence_number \in Numbers
    /\ out_of_sequence_status \in BOOLEAN
    /\ accept_segments \in BOOLEAN
    /\ notifications \in Seq(Notification)
    /\ delivered \in Seq(1 .. PAYLOADS)
    /\ client \in [state : {"CLOSED", "SYN_SENT", "ESTABLISHED"},
                   start : Numbers, base : Nat, next : Nat]
    /\ segments \in Seq(Segment)
    /\ losses \in Nat /\ restarts \in Nat

(* What reaches GAIA in a session is the client's payloads, in order, none *)
(* missing and none twice, whatever is lost or retransmitted.              *)
DeliveredInOrder == \A i \in DOMAIN delivered : delivered[i] = i

(* The server never acknowledges a payload it has not delivered: the       *)
(* client's acknowledged prefix is a prefix of what was delivered.  An     *)
(* out-of-sequence segment mistaken for a duplicate would break this.      *)
NoFalseAck == client.state = "ESTABLISHED" => client.base <= Len(delivered)

(* A transfer that is disturbed finitely often ends with every payload     *)
(* delivered and acknowledged: a lost GAP, which the server does not       *)
(* repeat, does not stall it, and neither does a reconnection that finds   *)
(* the server in ESTABLISHED.                                              *)
TransferCompletes == <>[](client.base = PAYLOADS /\ Len(delivered) = PAYLOADS)
=============================================================================
