----------------------------- MODULE RwcpServer -----------------------------
(***************************************************************************)
(* The earbud's end of RWCP, the Reliable Write Command Protocol that      *)
(* carries GAIA upgrade data over unacknowledged GATT writes               *)
(* (src/adk/src/libs/rwcp_server/rwcp_server.c).  The state is the static  *)
(* g_server_data; there is one action per arm of the switch of             *)
(* RwcpServerHandleMessage.  Segments carry their payload as an opaque     *)
(* value and the sequence number field of the one-byte header; what the    *)
(* server hands to GaiaRwcpProcessCommand is appended to "delivered".      *)
(***************************************************************************)
EXTENDS Integers, Sequences

CONSTANTS SEQUENCE_NUMBER_MAX, \* RWCP_SEQUENCE_NUMBER_MAX, 64 in the code
          RECEIVE_WINDOW_MAX,  \* RWCP_RECEIVE_WINDOW_MAX, 32 in the code
          SINK_SPACE           \* notifications the ATT stream sink can hold

ASSUME SequenceAssumption ==
    /\ SEQUENCE_NUMBER_MAX \in Nat \ {0}
    /\ RECEIVE_WINDOW_MAX \in Nat \ {0}
    /\ 2 * RECEIVE_WINDOW_MAX <= SEQUENCE_NUMBER_MAX
    /\ SINK_SPACE \in Nat

VARIABLES
    protocol_state,         \* LISTEN, SYN_RCVD or ESTABLISHED
    last_sequence_number,   \* last in-sequence number accepted
    out_of_sequence_status, \* a GAP was sent and not yet filled
    accept_segments,        \* flow control flag
    notifications,          \* server -> client segments in the ATT sink
    delivered               \* payloads given to GAIA since the last SYN

serverVars == <<protocol_state, last_sequence_number, out_of_sequence_status,
                accept_segments, notifications, delivered>>

Numbers == 0 .. SEQUENCE_NUMBER_MAX - 1

ClientCommands == {"DATA", "SYN", "RST", "RESERVED"}
ServerCommands == {"DATA_ACK", "SYN_ACK", "RST", "GAP"}

Notification == [command : ServerCommands, sequence : Numbers]

ServerInit ==
    /\ protocol_state = "LISTEN"
    /\ accept_segments = TRUE
    /\ last_sequence_number = 0
    /\ out_of_sequence_status = FALSE
    /\ notifications = <<>>
    /\ delivered = <<>>

----------------------------------------------------------------------------
(* A notification that does not fit in the sink is dropped: RWCP is        *)
(* designed to work with unreliable messages.                              *)
SendNotification(sequence, cmd) ==
    notifications' =
        IF Len(notifications) < SINK_SPACE
        THEN Append(notifications, [command |-> cmd, sequence |-> sequence])
        ELSE notifications

NextExpectedSequenceNumber == (last_sequence_number + 1) % SEQUENCE_NUMBER_MAX

(* Mutant: any number ahead of the last one is taken as the next one. *)
AnyAheadIsNext(sequence) ==
    (sequence - last_sequence_number + SEQUENCE_NUMBER_MAX) % SEQUENCE_NUMBER_MAX
        \in 1 .. RECEIVE_WINDOW_MAX

IsNextSequence(sequence) == sequence = NextExpectedSequenceNumber

(* How far sequence is ahead of the last accepted number, modulo 64. *)
Norm(sequence) ==
    (sequence - last_sequence_number + SEQUENCE_NUMBER_MAX) % SEQUENCE_NUMBER_MAX

(* Mutant: the receive window is one short, its last number a duplicate. *)
WindowOneShort(sequence) ==
    Norm(sequence) > 0 /\ Norm(sequence) < RECEIVE_WINDOW_MAX

IsOutOfSequence(sequence) ==
    Norm(sequence) > 0 /\ Norm(sequence) <= RECEIVE_WINDOW_MAX

(* handleDataSegment, entered with out_of_sequence_status = muted. *)
HandleDataSegment(segment, muted) ==
    \/ /\ ~accept_segments                         \* RWCP_DATA_PKT_DISCARDED
       /\ out_of_sequence_status' = muted
       /\ UNCHANGED <<last_sequence_number, notifications, delivered>>
    \/ /\ accept_segments                          \* RWCP_DATA_PKT_IN_SEQUENCE
       /\ IsNextSequence(segment.sequence)
       /\ out_of_sequence_status' = FALSE
       /\ SendNotification(segment.sequence, "DATA_ACK")
       /\ last_sequence_number' = segment.sequence
       /\ delivered' = Append(delivered, segment.payload)
    \/ /\ accept_segments                          \* RWCP_DATA_PKT_OUT_OF_SEQUENCE
       /\ ~IsNextSequence(segment.sequence)
       /\ IsOutOfSequence(segment.sequence)
       /\ out_of_sequence_status' = TRUE
       /\ IF muted
          THEN UNCHANGED notifications
          ELSE SendNotification(last_sequence_number, "GAP")
       /\ UNCHANGED <<last_sequence_number, delivered>>
    \/ /\ accept_segments                          \* RWCP_DATA_PKT_DUPLICATE
       /\ ~IsNextSequence(segment.sequence)
       /\ ~IsOutOfSequence(segment.sequence)
       /\ out_of_sequence_status' = muted
       /\ SendNotification(segment.sequence, "DATA_ACK")
       /\ UNCHANGED <<last_sequence_number, delivered>>

(* Mutant: the SYN's successor is stored, without the modulus. *)
SynStoresSuccessor(segment) ==
    /\ segment.command = "SYN"
    /\ protocol_state \in {"LISTEN", "SYN_RCVD"}
    /\ SendNotification(segment.sequence, "SYN_ACK")
    /\ last_sequence_number' = segment.sequence + 1
    /\ protocol_state' = "SYN_RCVD"
    /\ delivered' = <<>>
    /\ UNCHANGED out_of_sequence_status

(* SYN while waiting for one, or again before the first DATA. *)
HandleSyn(segment) ==
    /\ segment.command = "SYN"
    /\ protocol_state \in {"LISTEN", "SYN_RCVD"}
    /\ SendNotification(segment.sequence, "SYN_ACK")
    /\ last_sequence_number' = segment.sequence
    /\ protocol_state' = "SYN_RCVD"
    /\ delivered' = <<>>
    /\ UNCHANGED out_of_sequence_status

(* RST in any state: acknowledged with a RST, and listen again. *)
HandleRst(segment) ==
    /\ segment.command = "RST"
    /\ SendNotification(segment.sequence, "RST")
    /\ protocol_state' = "LISTEN"
    /\ UNCHANGED <<last_sequence_number, out_of_sequence_status, delivered>>

(* The first DATA segment after a SYN, and every later one. *)
HandleFirstData(segment) ==
    /\ segment.command = "DATA"
    /\ protocol_state = "SYN_RCVD"
    /\ HandleDataSegment(segment, FALSE)
    /\ protocol_state' = "ESTABLISHED"

HandleData(segment) ==
    /\ segment.command = "DATA"
    /\ protocol_state = "ESTABLISHED"
    /\ HandleDataSegment(segment, out_of_sequence_status)
    /\ UNCHANGED protocol_state

(* Mutant: the server answers RST but stays in its state. *)
RstWithoutListen(segment) ==
    /\ \/ segment.command = "RESERVED"
       \/ segment.command = "DATA" /\ protocol_state = "LISTEN"
       \/ segment.command = "SYN" /\ protocol_state = "ESTABLISHED"
    /\ SendNotification(segment.sequence, "RST")
    /\ UNCHANGED <<protocol_state, last_sequence_number,
                   out_of_sequence_status, delivered>>

(* A command the state does not expect: the server resets the session. *)
HandleUnexpected(segment) ==
    /\ \/ segment.command = "RESERVED"
       \/ segment.command = "DATA" /\ protocol_state = "LISTEN"
       \/ segment.command = "SYN" /\ protocol_state = "ESTABLISHED"
    /\ SendNotification(segment.sequence, "RST")
    /\ protocol_state' = "LISTEN"
    /\ UNCHANGED <<last_sequence_number, out_of_sequence_status, delivered>>

HandleMessage(segment) ==
    /\ \/ HandleSyn(segment)
       \/ HandleRst(segment)
       \/ HandleFirstData(segment)
       \/ HandleData(segment)
       \/ HandleUnexpected(segment)
    /\ UNCHANGED accept_segments

(* RwcpServerFlowControl *)
FlowControl(accept) ==
    /\ accept_segments' = accept
    /\ UNCHANGED <<protocol_state, last_sequence_number,
                   out_of_sequence_status, notifications, delivered>>
=============================================================================
