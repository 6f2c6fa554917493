----------------------------- MODULE RwcpProofs -----------------------------
(* Theorems about RwcpTransfer, for every size of the number space, the    *)
(* window, the link and the transfer.                                      *)
EXTENDS RwcpTransfer, TLAPS

(* Sequence numbers stay in the six-bit field: the modulus of the code.    *)
LEMMA NumbersClosed == \A n \in Int : n % SEQUENCE_NUMBER_MAX \in Numbers
BY SequenceAssumption DEF Numbers

(* The types hold when the GATT service has started. *)
LEMMA TypeInit == TransferInit => TypeOK
<1> SUFFICES ASSUME TransferInit PROVE TypeOK
    OBVIOUS
<1>1. 0 \in Numbers
    BY SequenceAssumption DEF Numbers
<1>2. \A S : <<>> \in Seq(S)
    OBVIOUS
<1>3. client \in [state : {"CLOSED", "SYN_SENT", "ESTABLISHED"},
                  start : Numbers, base : Nat, next : Nat]
    BY <1>1 DEF TransferInit
<1>4. accept_segments \in BOOLEAN /\ out_of_sequence_status \in BOOLEAN
    BY DEF TransferInit, ServerInit
<1>5. delivered \in Seq(1 .. PAYLOADS) /\ segments \in Seq(Segment)
      /\ notifications \in Seq(Notification)
    BY <1>2, Zenon DEF TransferInit, ServerInit
<1> QED
    BY <1>1, <1>3, <1>4, <1>5 DEF TransferInit, ServerInit, TypeOK

(* Sending a notification keeps the sink a sequence of notifications. *)
LEMMA SendType ==
    ASSUME TypeOK, NEW n \in Numbers, NEW cmd \in ServerCommands,
           SendNotification(n, cmd)
    PROVE  notifications' \in Seq(Notification)
<1>1. [command |-> cmd, sequence |-> n] \in Notification
    BY DEF Notification
<1> QED
    BY <1>1 DEF TypeOK, SendNotification

(* Handling any segment keeps the server's variables in their types. *)
LEMMA HandleMessageType ==
    ASSUME TypeOK, NEW segment \in Segment, HandleMessage(segment),
           segment.command = "DATA" => segment.payload \in 1 .. PAYLOADS
    PROVE  /\ protocol_state' \in {"LISTEN", "SYN_RCVD", "ESTABLISHED"}
           /\ last_sequence_number' \in Numbers
           /\ out_of_sequence_status' \in BOOLEAN
           /\ accept_segments' \in BOOLEAN
           /\ notifications' \in Seq(Notification)
           /\ delivered' \in Seq(1 .. PAYLOADS)
<1>1. /\ segment.sequence \in Numbers
      /\ last_sequence_number \in Numbers
      /\ notifications \in Seq(Notification)
      /\ delivered \in Seq(1 .. PAYLOADS)
      /\ out_of_sequence_status \in BOOLEAN
      /\ accept_segments \in BOOLEAN
      /\ protocol_state \in {"LISTEN", "SYN_RCVD", "ESTABLISHED"}
    BY DEF TypeOK, Segment
<1>2. \A n \in Numbers, cmd \in ServerCommands : SendNotification(n, cmd) =>
        notifications' \in Seq(Notification)
    BY SendType
<1>3. "DATA_ACK" \in ServerCommands /\ "SYN_ACK" \in ServerCommands
      /\ "RST" \in ServerCommands /\ "GAP" \in ServerCommands
    BY DEF ServerCommands
<1>4. accept_segments' \in BOOLEAN
    BY <1>1 DEF HandleMessage
<1>5. \A muted \in BOOLEAN :
        segment.command = "DATA" /\ HandleDataSegment(segment, muted) =>
            /\ last_sequence_number' \in Numbers
            /\ out_of_sequence_status' \in BOOLEAN
            /\ notifications' \in Seq(Notification)
            /\ delivered' \in Seq(1 .. PAYLOADS)
    <2> SUFFICES ASSUME NEW muted \in BOOLEAN, segment.command = "DATA",
                        HandleDataSegment(segment, muted)
                 PROVE  /\ last_sequence_number' \in Numbers
                        /\ out_of_sequence_status' \in BOOLEAN
                        /\ notifications' \in Seq(Notification)
                        /\ delivered' \in Seq(1 .. PAYLOADS)
        OBVIOUS
    <2>1. last_sequence_number' \in Numbers
        BY <1>1 DEF HandleDataSegment
    <2>2. out_of_sequence_status' \in BOOLEAN
        BY <1>1 DEF HandleDataSegment
    <2>3. notifications' \in Seq(Notification)
        BY <1>1, <1>2, <1>3 DEF HandleDataSegment
    <2>4. delivered' \in Seq(1 .. PAYLOADS)
        <3>1. segment.payload \in 1 .. PAYLOADS
            OBVIOUS
        <3>2. \A S, d, e : d \in Seq(S) /\ e \in S => Append(d, e) \in Seq(S)
            OBVIOUS
        <3> QED
            BY <1>1, <3>1, <3>2, Zenon DEF HandleDataSegment
    <2> QED
        BY <2>1, <2>2, <2>3, <2>4
<1>6. CASE HandleSyn(segment)
    BY <1>1, <1>2, <1>3, <1>4, <1>6 DEF HandleSyn
<1>7. CASE HandleRst(segment)
    BY <1>1, <1>2, <1>3, <1>4, <1>7 DEF HandleRst
<1>8. CASE HandleFirstData(segment)
    BY <1>1, <1>4, <1>5, <1>8 DEF HandleFirstData
<1>9. CASE HandleData(segment)
    BY <1>1, <1>4, <1>5, <1>9 DEF HandleData
<1>10. CASE HandleUnexpected(segment)
    BY <1>1, <1>2, <1>3, <1>4, <1>10 DEF HandleUnexpected
<1> QED
    BY <1>6, <1>7, <1>8, <1>9, <1>10 DEF HandleMessage

(* A segment in flight that carries DATA carries one of the payloads. *)
DataCarriesPayload ==
    \A i \in DOMAIN segments :
        segments[i].command = "DATA" => segments[i].payload \in 1 .. PAYLOADS

TypeInv == TypeOK /\ DataCarriesPayload /\ client.next # 0

(* Sending a segment keeps the link's segments well-formed. *)
LEMMA SendSegmentType ==
    ASSUME TypeInv, NEW segment \in Segment, Send(segment),
           segment.command = "DATA" => segment.payload \in 1 .. PAYLOADS
    PROVE  segments' \in Seq(Segment) /\ DataCarriesPayload'
<1>1. segments \in Seq(Segment)
    BY DEF TypeInv, TypeOK
<1>2. segments' = Append(segments, segment)
    BY DEF Send
<1>3. segments' \in Seq(Segment)
    BY <1>1, <1>2
<1>4. DataCarriesPayload'
    BY <1>1, <1>2 DEF TypeInv, DataCarriesPayload
<1> QED
    BY <1>3, <1>4

(* Handling or losing a segment keeps the others well-formed. *)
LEMMA TailSegmentsType ==
    ASSUME TypeInv, segments # <<>>, segments' = Tail(segments)
    PROVE  segments' \in Seq(Segment) /\ DataCarriesPayload'
<1>1. segments \in Seq(Segment)
    BY DEF TypeInv, TypeOK
<1> QED
    BY <1>1 DEF TypeInv, DataCarriesPayload

(* The segment the server handles is well-formed. *)
LEMMA HeadSegmentType ==
    ASSUME TypeInv, segments # <<>>
    PROVE  /\ Head(segments) \in Segment
           /\ Head(segments).command = "DATA" => Head(segments).payload \in 1 .. PAYLOADS
<1>1. segments \in Seq(Segment)
    BY DEF TypeInv, TypeOK
<1>2. 1 \in DOMAIN segments /\ Head(segments) = segments[1]
    BY <1>1
<1> QED
    BY <1>1, <1>2 DEF TypeInv, DataCarriesPayload

ClientType == [state : {"CLOSED", "SYN_SENT", "ESTABLISHED"},
               start : Numbers, base : Nat, next : Nat \ {0}]

(* An acknowledgement moves the client to a payload number. *)
LEMMA AckedIsNat ==
    ASSUME TypeOK, NEW n
    PROVE  AckedUpTo(n) \in Nat
<1>1. client.base \in Nat /\ CLIENT_WINDOW \in Nat
    BY TransferAssumption, SequenceAssumption DEF TypeOK
<1>2. NewlyAcked(n) \subseteq Nat
    BY <1>1 DEF NewlyAcked
<1> QED
    BY <1>1, <1>2 DEF AckedUpTo

(* A notification leaves the client's record well-formed. *)
LEMMA ClientReceiveType ==
    ASSUME TypeInv, ClientReceive
    PROVE  client' \in ClientType
<1> DEFINE n == Head(notifications)
           acked == AckedUpTo(n.sequence)
<1>1. client \in ClientType
    BY DEF TypeInv, TypeOK, ClientType
<1>2. acked \in Nat
    BY AckedIsNat DEF TypeInv
<1>3. client' =
            CASE n.command = "SYN_ACK" /\ client.state = "SYN_SENT"
                    -> [client EXCEPT !.state = "ESTABLISHED"]
              [] n.command = "RST" /\ client.state # "CLOSED"
                    -> [client EXCEPT !.state = "CLOSED"]
              [] n.command = "DATA_ACK" /\ client.state = "ESTABLISHED"
                    -> [client EXCEPT !.base = acked,
                                      !.next = IF @ > acked THEN @ ELSE acked + 1]
              [] n.command = "GAP" /\ client.state = "ESTABLISHED"
                    -> [client EXCEPT !.base = acked, !.next = acked + 1]
              [] OTHER -> client
    BY DEF ClientReceive
<1> HIDE DEF n, acked
<1>4. \/ client' = client
      \/ client' = [client EXCEPT !.state = "ESTABLISHED"]
      \/ client' = [client EXCEPT !.state = "CLOSED"]
      \/ client' = [client EXCEPT !.base = acked,
                                  !.next = IF @ > acked THEN @ ELSE acked + 1]
      \/ client' = [client EXCEPT !.base = acked, !.next = acked + 1]
    BY <1>3, Zenon
<1>5. client.next \in Nat \ {0} /\ acked + 1 \in Nat \ {0}
    BY <1>1, <1>2 DEF ClientType
<1>6. (IF client.next > acked THEN client.next ELSE acked + 1) \in Nat \ {0}
    BY <1>5
<1> QED
    BY <1>1, <1>2, <1>4, <1>5, <1>6 DEF ClientType

(* Every step of the client, the server and the link keeps the types. *)
LEMMA TypeStep == TypeInv /\ [TransferNext]_vars => TypeInv'
<1> SUFFICES ASSUME TypeInv, [TransferNext]_vars PROVE TypeInv'
    OBVIOUS
<1>0. /\ TypeOK
      /\ DataCarriesPayload
      /\ client \in ClientType
      /\ segments \in Seq(Segment)
      /\ notifications \in Seq(Notification)
    BY DEF TypeInv, TypeOK, ClientType
<1> DEFINE ServerType ==
        /\ protocol_state \in {"LISTEN", "SYN_RCVD", "ESTABLISHED"}
        /\ last_sequence_number \in Numbers
        /\ out_of_sequence_status \in BOOLEAN
        /\ accept_segments \in BOOLEAN
        /\ notifications \in Seq(Notification)
        /\ delivered \in Seq(1 .. PAYLOADS)
    LinkType == segments \in Seq(Segment) /\ DataCarriesPayload
    CountType == losses \in Nat /\ restarts \in Nat
<1>s. ServerType /\ LinkType /\ CountType
    BY <1>0 DEF TypeOK
<1>q. ASSUME ServerType', LinkType', CountType', client' \in ClientType
      PROVE  TypeInv'
    BY <1>q DEF TypeInv, TypeOK, ClientType
<1>u. UNCHANGED serverVars => ServerType'
    BY <1>s DEF serverVars
<1>l. UNCHANGED segments => LinkType'
    BY <1>s DEF DataCarriesPayload
<1>c. /\ UNCHANGED <<losses, restarts>> => CountType'
      /\ UNCHANGED losses /\ restarts' = restarts + 1 => CountType'
      /\ UNCHANGED restarts /\ losses' = losses + 1 => CountType'
    BY <1>s
<1> HIDE DEF ServerType, LinkType, CountType
<1>1. CASE ClientSyn
    <2>1. PICK start \in START_NUMBERS :
            /\ Send([command |-> "SYN", sequence |-> start, payload |-> 0])
            /\ client' = [state |-> "SYN_SENT", start |-> start, base |-> 0, next |-> 1]
        BY <1>1 DEF ClientSyn
    <2>2. start \in Numbers
        BY TransferAssumption
    <2>3. [command |-> "SYN", sequence |-> start, payload |-> 0] \in Segment
        BY <2>2, TransferAssumption DEF Segment, ClientCommands
    <2>4. LinkType'
        BY <2>1, <2>3, SendSegmentType DEF LinkType
    <2>5. client' \in ClientType
        BY <2>1, <2>2 DEF ClientType
    <2> QED
        BY <1>1, <1>q, <1>u, <1>c, <2>4, <2>5 DEF ClientSyn
<1>2. CASE ClientData
    <2> DEFINE seg == [command |-> "DATA", sequence |-> NumberOf(client.start, client.next),
                       payload |-> client.next]
    <2>1. Send(seg) /\ client' = [client EXCEPT !.next = @ + 1] /\ client.next <= PAYLOADS
        BY <1>2 DEF ClientData
    <2>2. client.next \in Nat \ {0} /\ client.start \in Int /\ client.start \in Numbers
        BY <1>0 DEF ClientType, Numbers
    <2>3. NumberOf(client.start, client.next) \in Numbers
        BY <2>2, NumbersClosed DEF NumberOf
    <2>4. client.next \in 1 .. PAYLOADS
        BY <2>1, <2>2, TransferAssumption
    <2>5. seg \in Segment /\ seg.payload \in 1 .. PAYLOADS
        BY <2>3, <2>4, TransferAssumption DEF Segment, ClientCommands
    <2> HIDE DEF seg
    <2>6. LinkType'
        BY <2>1, <2>5, SendSegmentType DEF LinkType
    <2>7. client' \in ClientType
        BY <1>0, <2>1 DEF ClientType
    <2> QED
        BY <1>2, <1>q, <1>u, <1>c, <2>6, <2>7 DEF ClientData
<1>3. CASE ClientTimeout
    <2>1. client' \in ClientType
        BY <1>0, <1>3 DEF ClientTimeout, ClientType
    <2> QED
        BY <1>3, <1>q, <1>u, <1>l, <1>c, <2>1 DEF ClientTimeout
<1>4. CASE ClientReceive
    <2>1. notifications' \in Seq(Notification)
        BY <1>0, <1>4 DEF ClientReceive
    <2>2. ServerType'
        BY <1>4, <1>s, <2>1 DEF ServerType, ClientReceive
    <2> QED
        BY <1>4, <1>q, <1>l, <1>c, <2>2, ClientReceiveType DEF ClientReceive
<1>5. CASE ClientReset
    <2>1. PICK cmd \in {"RST", "RESERVED"} :
            Send([command |-> cmd, sequence |-> client.start, payload |-> 0])
        BY <1>5 DEF ClientReset
    <2>2. [command |-> cmd, sequence |-> client.start, payload |-> 0] \in Segment
        BY <1>0, TransferAssumption DEF Segment, ClientCommands, ClientType
    <2>3. LinkType'
        BY <2>1, <2>2, SendSegmentType DEF LinkType
    <2>4. client' \in ClientType
        BY <1>0, <1>5 DEF ClientReset, ClientType
    <2> QED
        BY <1>5, <1>q, <1>u, <1>c, <2>3, <2>4 DEF ClientReset
<1>6. CASE ServerReceive
    <2>1. ServerType'
        BY <1>0, <1>6, HeadSegmentType, HandleMessageType DEF ServerReceive, ServerType
    <2>2. LinkType'
        BY <1>6, TailSegmentsType DEF ServerReceive, LinkType
    <2> QED
        BY <1>0, <1>6, <1>q, <1>c, <2>1, <2>2 DEF ServerReceive
<1>7. CASE ServerPause
    <2>1. ServerType'
        BY <1>7, <1>s DEF ServerPause, FlowControl, ServerType
    <2> QED
        BY <1>0, <1>7, <1>q, <1>l, <1>c, <2>1 DEF ServerPause
<1>8. CASE ServerResume
    <2>1. ServerType'
        BY <1>8, <1>s DEF ServerResume, FlowControl, ServerType
    <2> QED
        BY <1>0, <1>8, <1>q, <1>l, <1>c, <2>1 DEF ServerResume
<1>9. CASE Lose
    <2>1. CASE segments # <<>> /\ segments' = Tail(segments) /\ UNCHANGED serverVars
        BY <1>0, <1>9, <1>q, <1>u, <1>c, <2>1, TailSegmentsType DEF Lose, LinkType
    <2>2. CASE /\ notifications # <<>>
               /\ notifications' = Tail(notifications)
               /\ UNCHANGED <<protocol_state, last_sequence_number, delivered,
                              out_of_sequence_status, accept_segments, segments>>
        <3>1. notifications' \in Seq(Notification)
            BY <1>0, <2>2
        <3>2. ServerType'
            BY <1>s, <2>2, <3>1 DEF ServerType
        <3> QED
            BY <1>0, <1>9, <1>q, <1>l, <1>c, <2>2, <3>2 DEF Lose
    <2> QED
        BY <1>9, <2>1, <2>2 DEF Lose
<1>10. CASE Reconnect
    <2>1. \A S : <<>> \in Seq(S)
        OBVIOUS
    <2>2. notifications' \in Seq(Notification) /\ segments' \in Seq(Segment)
        BY <1>10, <2>1, Zenon DEF Reconnect
    <2>3. ServerType'
        BY <1>10, <1>s, <2>2 DEF ServerType, Reconnect
    <2>4. LinkType'
        BY <1>10, <2>2 DEF LinkType, Reconnect, DataCarriesPayload
    <2>5. client' \in ClientType
        BY <1>0, <1>10 DEF Reconnect, ClientType
    <2> QED
        BY <1>10, <1>q, <1>c, <2>3, <2>4, <2>5 DEF Reconnect
<1>11. CASE UNCHANGED vars
    BY <1>0, <1>11, <1>q, <1>u, <1>l, <1>c DEF vars
<1> QED
    BY <1>1, <1>2, <1>3, <1>4, <1>5, <1>6, <1>7, <1>8, <1>9, <1>10, <1>11 DEF TransferNext

(* Sequence numbers stay in their six-bit field and only whole payloads of *)
(* the transfer are delivered, for every window, link and transfer size    *)
(* (RwcpServerHandleMessage).                                              *)
THEOREM TransferTypes == TransferSpec => []TypeOK
<1>1. TransferInit => TypeInv
    BY TypeInit DEF TypeInv, TransferInit, DataCarriesPayload
<1>2. TypeInv => TypeOK
    BY DEF TypeInv
<1> QED
    BY <1>1, <1>2, TypeStep, PTL DEF TransferSpec

----------------------------------------------------------------------------
(* Numbers that wrap. *)

(* Every number is a multiple of the number space and its sequence number. *)
LEMMA DivMod ==
    ASSUME NEW a \in Int
    PROVE  \E k \in Int, r \in Numbers :
                a = SEQUENCE_NUMBER_MAX * k + r /\ a % SEQUENCE_NUMBER_MAX = r
<1> DEFINE N == SEQUENCE_NUMBER_MAX
<1>1. a \div N \in Int /\ a % N \in 0 .. N - 1 /\ a = N * (a \div N) + (a % N)
    BY SequenceAssumption
<1> QED
    BY <1>1 DEF Numbers

(* ... in one way only. *)
LEMMA ModIs ==
    ASSUME NEW a \in Int, NEW k \in Int, NEW r \in Numbers, a = SEQUENCE_NUMBER_MAX * k + r
    PROVE  a % SEQUENCE_NUMBER_MAX = r
    BY SequenceAssumption DEF Numbers

(* Payloads less than a number space apart that have the same number are   *)
(* the same.                                                               *)
LEMMA SameNumber ==
    ASSUME NEW start \in Nat, NEW a \in Nat, NEW b \in Nat,
           NumberOf(start, a) = NumberOf(start, b),
           a < b + SEQUENCE_NUMBER_MAX, b < a + SEQUENCE_NUMBER_MAX
    PROVE  a = b
<1> DEFINE N == SEQUENCE_NUMBER_MAX
<1>0. start + a \in Int /\ start + b \in Int
    OBVIOUS
<1>1. PICK j \in Int, x \in Numbers : start + a = N * j + x /\ (start + a) % N = x
    BY <1>0, DivMod
<1>2. PICK k \in Int, y \in Numbers : start + b = N * k + y /\ (start + b) % N = y
    BY <1>0, DivMod
<1>3. x = y
    BY <1>1, <1>2 DEF NumberOf
<1>4. a - b = N * (j - k)
    <2>1. N * (j - k) = N * j - N * k /\ N * j \in Int /\ N * k \in Int /\ x \in Int
        BY SequenceAssumption DEF Numbers
    <2> QED
        BY <1>1, <1>2, <1>3, <2>1
<1>5. j - k = 0
    BY <1>4, SequenceAssumption
<1> QED
    BY <1>4, <1>5, SequenceAssumption

(* The distance the server computes from two numbers is the one between    *)
(* the payloads, when that is less than a number space.                    *)
LEMMA Distance ==
    ASSUME NEW start \in Nat, NEW a \in Nat, NEW b \in Nat, a - b \in Numbers
    PROVE  (NumberOf(start, a) - NumberOf(start, b) + SEQUENCE_NUMBER_MAX)
                % SEQUENCE_NUMBER_MAX = a - b
<1> DEFINE N == SEQUENCE_NUMBER_MAX
<1>0. start + a \in Int /\ start + b \in Int
    OBVIOUS
<1>1. PICK j \in Int, x \in Numbers : start + a = N * j + x /\ (start + a) % N = x
    BY <1>0, DivMod
<1>2. PICK k \in Int, y \in Numbers : start + b = N * k + y /\ (start + b) % N = y
    BY <1>0, DivMod
<1>3. x - y + N = N * (k - j + 1) + (a - b)
    <2>1. x = start + a - N * j /\ y = start + b - N * k /\ N * j \in Int /\ N * k \in Int
        BY <1>1, <1>2, SequenceAssumption DEF Numbers
    <2>2. N * (k - j + 1) = N * k - N * j + N
        BY SequenceAssumption
    <2> QED
        BY <2>1, <2>2, SequenceAssumption
<1>4. k - j + 1 \in Int /\ x - y + N \in Int
    BY SequenceAssumption DEF Numbers
<1> QED
    BY <1>1, <1>2, <1>3, <1>4, ModIs DEF NumberOf

(* The number after a payload's is the next payload's. *)
LEMMA NextNumber ==
    ASSUME NEW start \in Nat, NEW a \in Nat
    PROVE  (NumberOf(start, a) + 1) % SEQUENCE_NUMBER_MAX = NumberOf(start, a + 1)
<1> DEFINE N == SEQUENCE_NUMBER_MAX
<1>0. start + a \in Int /\ start + (a + 1) \in Int
    OBVIOUS
<1>1. PICK j \in Int, x \in Numbers : start + a = N * j + x /\ (start + a) % N = x
    BY <1>0, DivMod
<1>2. PICK k \in Int, y \in Numbers : start + (a + 1) = N * k + y /\ (start + (a + 1)) % N = y
    BY <1>0, DivMod
<1>3. x + 1 = N * (k - j) + y
    <2>1. x = start + a - N * j /\ y = start + (a + 1) - N * k /\ N * j \in Int /\ N * k \in Int
        BY <1>1, <1>2, SequenceAssumption DEF Numbers
    <2>2. N * (k - j) = N * k - N * j
        BY SequenceAssumption
    <2> QED
        BY <2>1, <2>2, SequenceAssumption
<1>4. k - j \in Int /\ x + 1 \in Int
    BY DEF Numbers
<1> QED
    BY <1>1, <1>2, <1>3, <1>4, ModIs DEF NumberOf

----------------------------------------------------------------------------
(* The windows.  Numbers say little by themselves: the invariant relates   *)
(* every number in flight to the payload it stands for and keeps that      *)
(* payload within one window of what the two ends have reached, so that    *)
(* two payloads with the same number are never both possible.              *)

IsSyn(segment) == segment.command = "SYN"
IsData(segment) == segment.command = "DATA"
IsAck(notification) == notification.command \in {"DATA_ACK", "GAP"}

(* DATA in flight: not further ahead than a window of the acknowledged     *)
(* payloads (base), nor a window behind the delivered ones (count), nor a  *)
(* window behind any segment that arrives before it.                       *)
DataInWindow(segs, start, base, count) ==
    \A i \in DOMAIN segs : IsData(segs[i]) =>
        /\ segs[i].sequence = NumberOf(start, segs[i].payload)
        /\ segs[i].payload <= base + CLIENT_WINDOW
        /\ count < segs[i].payload + CLIENT_WINDOW
        /\ \A j \in 1 .. i :
            IsData(segs[j]) => segs[j].payload < segs[i].payload + CLIENT_WINDOW

(* Acknowledgements in flight: each stands for a delivered payload, less   *)
(* than a window behind the client and behind any that arrives before it.  *)
StandFor(acks, notes, start, base, count) ==
    \A i \in DOMAIN notes : IsAck(notes[i]) =>
        /\ notes[i].sequence = NumberOf(start, acks[i])
        /\ acks[i] <= count
        /\ base < acks[i] + CLIENT_WINDOW
        /\ \A j \in 1 .. i : IsAck(notes[j]) => acks[j] < acks[i] + CLIENT_WINDOW

AcksInWindow(notes, start, base, count) ==
    \E acks \in Seq(Nat) :
        Len(acks) = Len(notes) /\ StandFor(acks, notes, start, base, count)

(* A SYN travels alone: nothing of an earlier session is in flight. *)
SynAlone ==
    \A i \in DOMAIN segments : IsSyn(segments[i]) =>
        /\ i = 1 /\ notifications = <<>>
        /\ segments[i].sequence = client.start
        /\ client.state # "ESTABLISHED" /\ client.base = 0
        /\ \A j \in DOMAIN segments : ~IsData(segments[j])

(* The two ends have agreed on a session, and its start is the client's. *)
Connected ==
    \/ client.state = "ESTABLISHED"
    \/ \E i \in DOMAIN segments : IsData(segments[i])
    \/ \E i \in DOMAIN notifications :
        notifications[i].command \in {"SYN_ACK", "DATA_ACK", "GAP"}

SameSession ==
    /\ last_sequence_number = NumberOf(client.start, Len(delivered))
    /\ client.base <= Len(delivered)
    /\ Len(delivered) <= client.base + CLIENT_WINDOW

WindowInv ==
    /\ DataInWindow(segments, client.start, client.base, Len(delivered))
    /\ AcksInWindow(notifications, client.start, client.base, Len(delivered))

TransferInv ==
    /\ TypeInv
    /\ DeliveredInOrder
    /\ client.base < client.next
    /\ SynAlone
    /\ Connected => SameSession
    /\ WindowInv

(* The sizes. *)
LEMMA Sizes ==
    /\ CLIENT_WINDOW \in Nat \ {0}
    /\ CLIENT_WINDOW <= RECEIVE_WINDOW_MAX
    /\ RECEIVE_WINDOW_MAX \in Nat
    /\ SEQUENCE_NUMBER_MAX \in Nat
    /\ RECEIVE_WINDOW_MAX < SEQUENCE_NUMBER_MAX
    /\ 2 * CLIENT_WINDOW <= SEQUENCE_NUMBER_MAX
    BY TransferAssumption, SequenceAssumption

(* A payload is a number. *)
LEMMA PayloadIsNat == \A s \in Segment : s.payload \in Nat
<1>1. 0 .. PAYLOADS \subseteq Nat
    BY TransferAssumption
<1> QED
    BY <1>1 DEF Segment

(* Sending DATA just ahead of the acknowledged payloads, or anything that  *)
(* is not DATA, keeps the window.                                          *)
LEMMA SendInWindow ==
    ASSUME NEW segs \in Seq(Segment), NEW start, NEW base \in Nat, NEW count \in Nat,
           DataInWindow(segs, start, base, count), NEW s \in Segment,
           IsData(s) => /\ s.sequence = NumberOf(start, s.payload)
                        /\ base < s.payload /\ s.payload <= base + CLIENT_WINDOW
                        /\ count <= base + CLIENT_WINDOW
    PROVE  DataInWindow(Append(segs, s), start, base, count)
<1> DEFINE new == Append(segs, s)
<1>1. /\ \A i \in DOMAIN segs : segs[i].payload \in Nat
      /\ s.payload \in Nat /\ CLIENT_WINDOW \in Nat \ {0}
    BY Sizes, PayloadIsNat
<1>2. /\ DOMAIN new = 1 .. Len(segs) + 1 /\ DOMAIN segs = 1 .. Len(segs) /\ Len(segs) \in Nat
      /\ \A i \in DOMAIN segs : new[i] = segs[i]
      /\ new[Len(segs) + 1] = s
    OBVIOUS
<1> HIDE DEF new
<1>3. ASSUME NEW i \in DOMAIN new, IsData(new[i])
      PROVE  /\ new[i].sequence = NumberOf(start, new[i].payload)
             /\ new[i].payload <= base + CLIENT_WINDOW
             /\ count < new[i].payload + CLIENT_WINDOW
             /\ \A j \in 1 .. i :
                    IsData(new[j]) => new[j].payload < new[i].payload + CLIENT_WINDOW
    <2>1. CASE i \in DOMAIN segs
        BY <1>2, <1>3, <2>1 DEF DataInWindow
    <2>2. CASE i = Len(segs) + 1
        <3>1. count < s.payload + CLIENT_WINDOW /\ s.payload < s.payload + CLIENT_WINDOW
            BY <1>1, <1>2, <1>3, <2>2
        <3>2. \A j \in DOMAIN segs : IsData(segs[j]) => segs[j].payload < s.payload + CLIENT_WINDOW
            BY <1>1, <1>2, <1>3, <2>2 DEF DataInWindow
        <3> QED
            BY <1>2, <1>3, <2>2, <3>1, <3>2
    <2> QED
        BY <1>2, <2>1, <2>2
<1> QED
    BY <1>3 DEF DataInWindow, new

(* The first segment leaves the link, and the payload it carries may be    *)
(* the one delivered next.                                                 *)
LEMMA TakeFromWindow ==
    ASSUME NEW segs \in Seq(Segment), segs # <<>>, NEW start, NEW base \in Nat, NEW count \in Nat,
           DataInWindow(segs, start, base, count)
    PROVE  /\ DataInWindow(Tail(segs), start, base, count)
           /\ IsData(Head(segs)) =>
                /\ DataInWindow(Tail(segs), start, base, Head(segs).payload)
                /\ Head(segs).sequence = NumberOf(start, Head(segs).payload)
                /\ Head(segs).payload <= base + CLIENT_WINDOW
                /\ count < Head(segs).payload + CLIENT_WINDOW
<1> DEFINE new == Tail(segs)
<1>1. /\ \A i \in DOMAIN new : i + 1 \in DOMAIN segs /\ new[i] = segs[i + 1] /\ i \in Nat
      /\ 1 \in DOMAIN segs /\ Head(segs) = segs[1]
    OBVIOUS
<1> HIDE DEF new
<1>2. DataInWindow(new, start, base, count)
    <2>1. ASSUME NEW i \in DOMAIN new, IsData(new[i]), NEW j \in 1 .. i, IsData(new[j])
          PROVE  new[j].payload < new[i].payload + CLIENT_WINDOW
        <3>1. j \in DOMAIN new /\ j + 1 \in 1 .. i + 1
            BY <1>1 DEF new
        <3> QED
            BY <1>1, <2>1, <3>1 DEF DataInWindow
    <2> QED
        BY <1>1, <2>1 DEF DataInWindow
<1>3. ASSUME IsData(Head(segs))
      PROVE  /\ DataInWindow(new, start, base, Head(segs).payload)
             /\ Head(segs).sequence = NumberOf(start, Head(segs).payload)
             /\ Head(segs).payload <= base + CLIENT_WINDOW
             /\ count < Head(segs).payload + CLIENT_WINDOW
    <2>1. \A i \in DOMAIN new : 1 \in 1 .. i + 1
        BY <1>1
    <2>2. \A i \in DOMAIN new : IsData(new[i]) =>
                Head(segs).payload < new[i].payload + CLIENT_WINDOW
        BY <1>1, <1>3, <2>1 DEF DataInWindow
    <2> QED
        BY <1>1, <1>2, <1>3, <2>2 DEF DataInWindow
<1> QED
    BY <1>2, <1>3 DEF new

(* The window of the client moves forward under the segments in flight. *)
LEMMA WindowMoves ==
    ASSUME NEW segs \in Seq(Segment), NEW start, NEW base \in Nat, NEW count \in Nat,
           DataInWindow(segs, start, base, count), NEW to \in Nat, base <= to
    PROVE  DataInWindow(segs, start, to, count)
<1>1. \A i \in DOMAIN segs : segs[i].payload \in Nat
    BY PayloadIsNat
<1> QED
    BY <1>1, Sizes DEF DataInWindow

(* Acknowledging the last delivered payload, or one less than a window     *)
(* before it, keeps the acknowledgements' window; so does any other        *)
(* notification, and one that the sink drops.                              *)
LEMMA AckInWindow ==
    ASSUME NEW notes, notes \in Seq(Notification), NEW start, NEW base \in Nat, NEW count \in Nat,
           AcksInWindow(notes, start, base, count), NEW n, NEW a \in Nat,
           IsAck(n) => /\ n.sequence = NumberOf(start, a) /\ base <= count
                       /\ a <= count /\ count < a + CLIENT_WINDOW
    PROVE  AcksInWindow(Append(notes, n), start, base, count)
<1> DEFINE new == Append(notes, n)
<1>1. PICK acks \in Seq(Nat) : Len(acks) = Len(notes) /\ StandFor(acks, notes, start, base, count)
    BY DEF AcksInWindow
<1> DEFINE newacks == Append(acks, a)
<1>2. /\ DOMAIN new = 1 .. Len(notes) + 1 /\ DOMAIN notes = 1 .. Len(notes) /\ Len(notes) \in Nat
      /\ \A i \in DOMAIN notes : new[i] = notes[i]
      /\ new[Len(notes) + 1] = n
    OBVIOUS
<1>3. /\ newacks \in Seq(Nat) /\ Len(newacks) = Len(new)
      /\ \A i \in DOMAIN notes : newacks[i] = acks[i] /\ acks[i] \in Nat
      /\ newacks[Len(notes) + 1] = a
    BY <1>1
<1> HIDE DEF new, newacks
<1>4. ASSUME NEW i \in DOMAIN new, IsAck(new[i])
      PROVE  /\ new[i].sequence = NumberOf(start, newacks[i])
             /\ newacks[i] <= count
             /\ base < newacks[i] + CLIENT_WINDOW
             /\ \A j \in 1 .. i : IsAck(new[j]) => newacks[j] < newacks[i] + CLIENT_WINDOW
    <2>1. CASE i \in DOMAIN notes
        <3>1. \A j \in 1 .. i : j \in DOMAIN notes
            BY <1>2, <2>1
        <3>2. ASSUME NEW j \in 1 .. i, IsAck(new[j])
              PROVE  newacks[j] < newacks[i] + CLIENT_WINDOW
            BY <1>1, <1>2, <1>3, <1>4, <2>1, <3>1, <3>2 DEF StandFor
        <3> QED
            BY <1>1, <1>2, <1>3, <1>4, <2>1, <3>2 DEF StandFor
    <2>2. CASE i = Len(notes) + 1
        <3>1. base < a + CLIENT_WINDOW /\ a < a + CLIENT_WINDOW
            BY <1>2, <1>4, <2>2, Sizes
        <3>2. \A j \in DOMAIN notes : IsAck(notes[j]) => acks[j] < a + CLIENT_WINDOW
            BY <1>1, <1>2, <1>3, <1>4, <2>2, Sizes, SMTT(30) DEF StandFor
        <3>3. ASSUME NEW j \in 1 .. i, IsAck(new[j])
              PROVE  newacks[j] < newacks[i] + CLIENT_WINDOW
            <4>1. j \in DOMAIN notes \/ j = Len(notes) + 1
                BY <1>2, <2>2
            <4> QED
                BY <1>2, <1>3, <2>2, <3>1, <3>2, <3>3, <4>1
        <3>4. n.sequence = NumberOf(start, a) /\ a <= count
            BY <1>2, <1>4, <2>2
        <3> QED
            BY <1>2, <1>3, <2>2, <3>1, <3>3, <3>4
    <2> QED
        BY <1>2, <2>1, <2>2
<1>5. StandFor(newacks, new, start, base, count)
    BY <1>4 DEF StandFor
<1> QED
    BY <1>3, <1>5 DEF AcksInWindow, new

(* The first notification leaves the sink; the payload it acknowledges may *)
(* be the one the client has got to.                                       *)
LEMMA TakeAck ==
    ASSUME NEW notes, notes \in Seq(Notification), notes # <<>>, NEW start,
           NEW base \in Nat, NEW count \in Nat, AcksInWindow(notes, start, base, count)
    PROVE  /\ AcksInWindow(Tail(notes), start, base, count)
           /\ IsAck(Head(notes)) => \E a \in Nat :
                /\ Head(notes).sequence = NumberOf(start, a)
                /\ a <= count /\ base < a + CLIENT_WINDOW
                /\ AcksInWindow(Tail(notes), start, a, count)
<1> DEFINE new == Tail(notes)
<1>1. PICK acks \in Seq(Nat) : Len(acks) = Len(notes) /\ StandFor(acks, notes, start, base, count)
    BY DEF AcksInWindow
<1> DEFINE newacks == Tail(acks)
<1>2. /\ \A i \in DOMAIN new : i + 1 \in DOMAIN notes /\ new[i] = notes[i + 1] /\ i \in Nat
      /\ 1 \in DOMAIN notes /\ Head(notes) = notes[1]
      /\ \A i \in DOMAIN new : \A j \in 1 .. i : j \in DOMAIN new /\ j + 1 \in 1 .. i + 1
      /\ \A i \in DOMAIN new : 1 \in 1 .. i + 1
    OBVIOUS
<1>3. /\ newacks \in Seq(Nat) /\ Len(newacks) = Len(new) /\ acks[1] \in Nat
      /\ \A i \in DOMAIN new : newacks[i] = acks[i + 1]
    BY <1>1, <1>2
<1> HIDE DEF new, newacks
<1>4. StandFor(newacks, new, start, base, count)
    <2>1. ASSUME NEW i \in DOMAIN new, IsAck(new[i]), NEW j \in 1 .. i, IsAck(new[j])
          PROVE  newacks[j] < newacks[i] + CLIENT_WINDOW
        BY <1>1, <1>2, <1>3, <2>1 DEF StandFor
    <2>2. ASSUME NEW i \in DOMAIN new, IsAck(new[i])
          PROVE  /\ new[i].sequence = NumberOf(start, newacks[i])
                 /\ newacks[i] <= count
                 /\ base < newacks[i] + CLIENT_WINDOW
        BY <1>1, <1>2, <1>3, <2>2 DEF StandFor
    <2> QED
        BY <2>1, <2>2 DEF StandFor
<1>5. AcksInWindow(new, start, base, count)
    BY <1>3, <1>4 DEF AcksInWindow
<1>6. ASSUME IsAck(Head(notes))
      PROVE  \E a \in Nat :
                /\ Head(notes).sequence = NumberOf(start, a)
                /\ a <= count /\ base < a + CLIENT_WINDOW
                /\ AcksInWindow(new, start, a, count)
    <2>1. /\ Head(notes).sequence = NumberOf(start, acks[1])
          /\ acks[1] <= count /\ base < acks[1] + CLIENT_WINDOW
        BY <1>1, <1>2, <1>6 DEF StandFor
    <2>2. \A i \in DOMAIN new : IsAck(new[i]) => acks[1] < newacks[i] + CLIENT_WINDOW
        BY <1>1, <1>2, <1>3, <1>6 DEF StandFor
    <2>3. StandFor(newacks, new, start, acks[1], count)
        BY <1>4, <2>2 DEF StandFor
    <2> QED
        BY <1>3, <2>1, <2>3 DEF AcksInWindow
<1> QED
    BY <1>5, <1>6 DEF new

(* What is acknowledged stays delivered. *)
LEMMA AcksStay ==
    ASSUME NEW notes, notes \in Seq(Notification), NEW start, NEW base \in Nat, NEW count \in Nat,
           AcksInWindow(notes, start, base, count), NEW to \in Nat, count <= to
    PROVE  AcksInWindow(notes, start, base, to)
<1>1. PICK acks \in Seq(Nat) : Len(acks) = Len(notes) /\ StandFor(acks, notes, start, base, count)
    BY DEF AcksInWindow
<1>2. \A i \in DOMAIN notes : acks[i] \in Nat
    BY <1>1
<1>3. StandFor(acks, notes, start, base, to)
    BY <1>1, <1>2 DEF StandFor
<1> QED
    BY <1>1, <1>3 DEF AcksInWindow

(* An empty sink acknowledges nothing. *)
LEMMA NoAcks ==
    ASSUME NEW start, NEW base, NEW count
    PROVE  AcksInWindow(<<>>, start, base, count)
<1>1. <<>> \in Seq(Nat) /\ Len(<<>>) = Len(<<>>)
    OBVIOUS
<1>2. StandFor(<<>>, <<>>, start, base, count)
    BY DEF StandFor
<1> QED
    BY <1>1, <1>2 DEF AcksInWindow

(* An acknowledgement in the window is taken for the payload it stands     *)
(* for: the client ends at that payload or stays where it was.             *)
LEMMA AckUnderstood ==
    ASSUME TypeOK, NEW count \in Nat, client.base <= count, count <= client.base + CLIENT_WINDOW,
           NEW a \in Nat, a <= count, client.base < a + CLIENT_WINDOW
    PROVE  AckedUpTo(NumberOf(client.start, a)) = IF client.base < a THEN a ELSE client.base
<1> DEFINE n == NumberOf(client.start, a)
<1>1. client.base \in Nat /\ client.start \in Nat
    BY DEF TypeOK, Numbers
<1>2. \A p \in client.base + 1 .. client.base + CLIENT_WINDOW :
            NumberOf(client.start, p) = n <=> p = a
    <2> SUFFICES ASSUME NEW p \in client.base + 1 .. client.base + CLIENT_WINDOW,
                        NumberOf(client.start, p) = n
                 PROVE  p = a
        OBVIOUS
    <2>1. p \in Nat /\ p < a + SEQUENCE_NUMBER_MAX /\ a < p + SEQUENCE_NUMBER_MAX
        BY <1>1, Sizes
    <2> QED
        BY <1>1, <2>1, SameNumber
<1>3. CASE client.base < a
    <2>1. NewlyAcked(n) = {a}
        BY <1>1, <1>2, <1>3, Sizes DEF NewlyAcked
    <2> QED
        BY <1>3, <2>1 DEF AckedUpTo
<1>4. CASE ~(client.base < a)
    <2>1. NewlyAcked(n) = {}
        BY <1>1, <1>2, <1>4, Sizes DEF NewlyAcked
    <2> QED
        BY <1>4, <2>1 DEF AckedUpTo
<1> QED
    BY <1>3, <1>4

----------------------------------------------------------------------------
(* The types of what the windows are made of. *)
LEMMA TransferFacts ==
    ASSUME TypeInv
    PROVE  /\ client.base \in Nat /\ client.next \in Nat /\ client.start \in Nat
           /\ client.start \in Numbers
           /\ delivered \in Seq(1 .. PAYLOADS) /\ Len(delivered) \in Nat
           /\ segments \in Seq(Segment) /\ notifications \in Seq(Notification)
           /\ TypeOK
    BY DEF TypeInv, TypeOK, Numbers

(* The invariant holds before the first session. *)
LEMMA TransferInvInit == TransferInit => TransferInv
<1> SUFFICES ASSUME TransferInit PROVE TransferInv
    OBVIOUS
<1>1. TypeInv
    BY TypeInit DEF TypeInv, TransferInit, DataCarriesPayload
<1>2. /\ segments = <<>> /\ notifications = <<>> /\ delivered = <<>>
      /\ client.state = "CLOSED" /\ client.base = 0 /\ client.next = 1
    BY DEF TransferInit, ServerInit
<1>3. SynAlone /\ ~Connected /\ DeliveredInOrder
    BY <1>2 DEF SynAlone, Connected, DeliveredInOrder
<1>4. DataInWindow(segments, client.start, client.base, Len(delivered))
    BY <1>2 DEF DataInWindow
<1>5. AcksInWindow(notifications, client.start, client.base, Len(delivered))
    BY <1>2, NoAcks
<1> QED
    BY <1>1, <1>2, <1>3, <1>4, <1>5 DEF TransferInv, WindowInv

(* Steps that do not touch the session: pausing and resuming the server. *)
LEMMA SessionStays ==
    ASSUME TransferInv, TypeInv',
           UNCHANGED <<client, segments, notifications, delivered, last_sequence_number>>
    PROVE  TransferInv'
<1>1. SynAlone' /\ DeliveredInOrder' /\ client'.base < client'.next
    BY DEF TransferInv, SynAlone, DeliveredInOrder
<1>2. Connected' => SameSession'
    BY DEF TransferInv, Connected, SameSession
<1>3. WindowInv'
    BY DEF TransferInv, WindowInv
<1> QED
    BY <1>1, <1>2, <1>3 DEF TransferInv

(* The client opens a session. *)
LEMMA SynInv ==
    ASSUME TransferInv, TypeInv', ClientSyn
    PROVE  TransferInv'
<1>1. PICK start \in START_NUMBERS :
        /\ Send([command |-> "SYN", sequence |-> start, payload |-> 0])
        /\ client' = [state |-> "SYN_SENT", start |-> start, base |-> 0, next |-> 1]
    BY DEF ClientSyn
<1>2. /\ segments' = <<[command |-> "SYN", sequence |-> start, payload |-> 0]>>
      /\ notifications' = <<>> /\ delivered' = delivered
    BY <1>1 DEF ClientSyn, LinkIsQuiet, Send, serverVars
<1>3. /\ client'.start = start /\ client'.base = 0 /\ client'.next = 1
      /\ client'.state = "SYN_SENT"
    BY <1>1
<1>4. SynAlone'
    BY <1>2, <1>3 DEF SynAlone, IsData
<1>5. ~Connected'
    BY <1>2, <1>3 DEF Connected, IsData
<1>6. DataInWindow(segments', client'.start, client'.base, Len(delivered'))
    BY <1>2 DEF DataInWindow, IsData
<1>7. AcksInWindow(notifications', client'.start, client'.base, Len(delivered'))
    BY <1>2, NoAcks
<1>8. DeliveredInOrder'
    BY <1>2 DEF TransferInv, DeliveredInOrder
<1> QED
    BY <1>3, <1>4, <1>5, <1>6, <1>7, <1>8 DEF TransferInv, WindowInv

(* The client sends the next payload of its window. *)
LEMMA DataInv ==
    ASSUME TransferInv, TypeInv', ClientData
    PROVE  TransferInv'
<1> DEFINE seg == [command |-> "DATA", sequence |-> NumberOf(client.start, client.next),
                   payload |-> client.next]
<1>0. /\ client.base \in Nat /\ client.next \in Nat /\ Len(delivered) \in Nat
      /\ segments \in Seq(Segment) /\ client.start \in Nat
    BY TransferFacts DEF TransferInv
<1>1. /\ segments' = Append(segments, seg) /\ client' = [client EXCEPT !.next = @ + 1]
      /\ client.next <= PAYLOADS /\ client.next <= client.base + CLIENT_WINDOW
      /\ client.state = "ESTABLISHED"
      /\ UNCHANGED <<notifications, delivered, last_sequence_number>>
    BY DEF ClientData, Send, serverVars
<1>2. SameSession
    BY <1>1 DEF TransferInv, Connected
<1>3. /\ client'.base = client.base /\ client'.start = client.start
      /\ client'.state = client.state /\ client'.next = client.next + 1
    BY <1>1 DEF TransferInv, TypeInv, TypeOK
<1>4. seg \in Segment
    <2>1. NumberOf(client.start, client.next) \in Numbers
        BY <1>0, NumbersClosed DEF NumberOf
    <2> QED
        BY <1>0, <1>1, <2>1, TransferAssumption DEF Segment, ClientCommands
<1>5. seg.sequence = NumberOf(client.start, seg.payload) /\ seg.payload = client.next /\ ~IsSyn(seg)
    BY DEF IsSyn
<1> HIDE DEF seg
<1>6. DataInWindow(segments', client'.start, client'.base, Len(delivered'))
    <2>1. DataInWindow(Append(segments, seg), client.start, client.base, Len(delivered))
        BY <1>0, <1>1, <1>2, <1>4, <1>5, SendInWindow DEF TransferInv, WindowInv, SameSession
    <2> QED
        BY <1>1, <1>3, <2>1
<1>7. AcksInWindow(notifications', client'.start, client'.base, Len(delivered'))
    BY <1>1, <1>3 DEF TransferInv, WindowInv
<1>8. SynAlone'
    <2>1. \A i \in DOMAIN segments : ~IsSyn(segments[i])
        BY <1>1 DEF TransferInv, SynAlone
    <2>2. \A i \in DOMAIN segments' : ~IsSyn(segments'[i])
        BY <1>0, <1>1, <1>5, <2>1
    <2> QED
        BY <2>2 DEF SynAlone
<1>9. SameSession' /\ DeliveredInOrder' /\ client'.base < client'.next
    BY <1>0, <1>1, <1>2, <1>3 DEF TransferInv, SameSession, DeliveredInOrder
<1> QED
    BY <1>6, <1>7, <1>8, <1>9 DEF TransferInv, WindowInv

(* The client goes back to its first unacknowledged payload. *)
LEMMA TimeoutInv ==
    ASSUME TransferInv, TypeInv', ClientTimeout
    PROVE  TransferInv'
<1>0. client.base \in Nat
    BY TransferFacts DEF TransferInv
<1>1. /\ client'.base = client.base /\ client'.start = client.start
      /\ client'.state = client.state /\ client'.next = client.base + 1
      /\ UNCHANGED <<segments, notifications, delivered, last_sequence_number>>
    BY DEF ClientTimeout, serverVars, TransferInv, TypeInv, TypeOK
<1>2. SynAlone' /\ DeliveredInOrder' /\ client'.base < client'.next
    BY <1>0, <1>1 DEF TransferInv, SynAlone, DeliveredInOrder
<1>3. Connected' => SameSession'
    BY <1>1 DEF TransferInv, Connected, SameSession
<1>4. WindowInv'
    BY <1>1 DEF TransferInv, WindowInv
<1> QED
    BY <1>2, <1>3, <1>4 DEF TransferInv

(* The client gives the session up; its segments stay in flight. *)
LEMMA ResetInv ==
    ASSUME TransferInv, TypeInv', ClientReset
    PROVE  TransferInv'
<1>0. /\ client.base \in Nat /\ client.next \in Nat /\ Len(delivered) \in Nat
      /\ segments \in Seq(Segment) /\ client.start \in Numbers
    BY TransferFacts DEF TransferInv
<1>1. PICK cmd \in {"RST", "RESERVED"} :
        Send([command |-> cmd, sequence |-> client.start, payload |-> 0])
    BY DEF ClientReset
<1> DEFINE seg == [command |-> cmd, sequence |-> client.start, payload |-> 0]
<1>2. /\ segments' = Append(segments, seg)
      /\ client'.base = client.base /\ client'.start = client.start
      /\ client'.state = "CLOSED" /\ client'.next = client.next
      /\ UNCHANGED <<notifications, delivered, last_sequence_number>>
    BY <1>1 DEF ClientReset, Send, serverVars, TransferInv, TypeInv, TypeOK
<1>3. seg \in Segment /\ ~IsData(seg) /\ ~IsSyn(seg)
    BY <1>0, TransferAssumption DEF Segment, ClientCommands, IsData, IsSyn
<1> HIDE DEF seg
<1>4. /\ DOMAIN segments' = 1 .. Len(segments) + 1 /\ DOMAIN segments = 1 .. Len(segments)
      /\ \A i \in DOMAIN segments : segments'[i] = segments[i]
      /\ segments'[Len(segments) + 1] = seg
      /\ Len(segments) \in Nat
    BY <1>0, <1>2
<1>5. \A i \in DOMAIN segments' : IsData(segments'[i]) \/ IsSyn(segments'[i]) => i \in DOMAIN segments
    BY <1>3, <1>4
<1>6. SynAlone' /\ DeliveredInOrder' /\ client'.base < client'.next
    <2>1. SynAlone'
        BY <1>2, <1>4, <1>5 DEF TransferInv, SynAlone
    <2> QED
        BY <1>2, <2>1 DEF TransferInv, DeliveredInOrder
<1>7. Connected' => SameSession'
    <2>1. Connected' => Connected
        BY <1>2, <1>4, <1>5 DEF Connected
    <2> QED
        BY <1>2, <2>1 DEF TransferInv, SameSession
<1>8. DataInWindow(segments', client'.start, client'.base, Len(delivered'))
    <2>1. DataInWindow(Append(segments, seg), client.start, client.base, Len(delivered))
        BY <1>0, <1>3, SendInWindow DEF TransferInv, WindowInv
    <2> QED
        BY <1>2, <2>1
<1>9. AcksInWindow(notifications', client'.start, client'.base, Len(delivered'))
    BY <1>2 DEF TransferInv, WindowInv
<1> QED
    BY <1>6, <1>7, <1>8, <1>9 DEF TransferInv, WindowInv

(* The link drops what was in flight. *)
LEMMA ReconnectInv ==
    ASSUME TransferInv, TypeInv', Reconnect
    PROVE  TransferInv'
<1>1. /\ segments' = <<>> /\ notifications' = <<>>
      /\ client'.base = client.base /\ client'.next = client.next /\ client'.state = "CLOSED"
      /\ delivered' = delivered
    BY DEF Reconnect, TransferInv, TypeInv, TypeOK
<1>2. SynAlone' /\ DeliveredInOrder' /\ client'.base < client'.next /\ ~Connected'
    BY <1>1 DEF TransferInv, SynAlone, DeliveredInOrder, Connected
<1>3. DataInWindow(segments', client'.start, client'.base, Len(delivered'))
    BY <1>1 DEF DataInWindow
<1>4. AcksInWindow(notifications', client'.start, client'.base, Len(delivered'))
    BY <1>1, NoAcks
<1> QED
    BY <1>2, <1>3, <1>4 DEF TransferInv, WindowInv

(* What follows the first segment is no SYN, and was in flight before. *)
LEMMA TailOfLink ==
    ASSUME TransferInv, segments # <<>>
    PROVE  /\ \A i \in DOMAIN Tail(segments) :
                /\ ~IsSyn(Tail(segments)[i])
                /\ i + 1 \in DOMAIN segments /\ Tail(segments)[i] = segments[i + 1]
           /\ 1 \in DOMAIN segments /\ Head(segments) = segments[1]
<1>1. segments \in Seq(Segment)
    BY TransferFacts DEF TransferInv
<1>2. /\ \A i \in DOMAIN Tail(segments) :
            i + 1 \in DOMAIN segments /\ Tail(segments)[i] = segments[i + 1] /\ i + 1 # 1
      /\ 1 \in DOMAIN segments /\ Head(segments) = segments[1]
    BY <1>1
<1> QED
    BY <1>2 DEF TransferInv, SynAlone

(* While the server's answers are in flight there is no SYN. *)
LEMMA NoSynBehindAnswers ==
    ASSUME TransferInv, notifications # <<>>
    PROVE  \A i \in DOMAIN segments : ~IsSyn(segments[i])
    BY DEF TransferInv, SynAlone

(* Losing the first segment or the first notification. *)
LEMMA LoseInv ==
    ASSUME TransferInv, TypeInv', Lose
    PROVE  TransferInv'
<1>0. /\ client.base \in Nat /\ Len(delivered) \in Nat
      /\ segments \in Seq(Segment) /\ notifications \in Seq(Notification)
    BY TransferFacts DEF TransferInv
<1>1. CASE segments # <<>> /\ segments' = Tail(segments) /\ UNCHANGED serverVars
    <2>1. UNCHANGED <<client, notifications, delivered, last_sequence_number>>
        BY <1>1 DEF Lose, serverVars
    <2>2. SynAlone' /\ DeliveredInOrder' /\ client'.base < client'.next
        BY <1>1, <2>1, TailOfLink DEF TransferInv, SynAlone, DeliveredInOrder
    <2>3. Connected' => SameSession'
        BY <1>1, <2>1, TailOfLink DEF TransferInv, Connected, SameSession
    <2>4. WindowInv'
        BY <1>0, <1>1, <2>1, TakeFromWindow DEF TransferInv, WindowInv
    <2> QED
        BY <2>2, <2>3, <2>4 DEF TransferInv
<1>2. CASE notifications # <<>> /\ notifications' = Tail(notifications)
           /\ UNCHANGED <<delivered, last_sequence_number, segments>>
    <2>1. UNCHANGED client
        BY DEF Lose
    <2>2. SynAlone' /\ DeliveredInOrder' /\ client'.base < client'.next
        BY <1>2, <2>1, NoSynBehindAnswers DEF TransferInv, SynAlone, DeliveredInOrder
    <2>3. Connected' => SameSession'
        <3>1. \A i \in DOMAIN Tail(notifications) :
                i + 1 \in DOMAIN notifications /\ Tail(notifications)[i] = notifications[i + 1]
            BY <1>0, <1>2
        <3>2. Connected' => Connected
            BY <1>2, <2>1, <3>1 DEF Connected
        <3> QED
            BY <1>2, <2>1, <3>2 DEF TransferInv, SameSession
    <2>4. WindowInv'
        BY <1>0, <1>2, <2>1, TakeAck DEF TransferInv, WindowInv
    <2> QED
        BY <2>2, <2>3, <2>4 DEF TransferInv
<1> QED
    BY <1>1, <1>2 DEF Lose

(* The client takes in a notification: it never moves past what has been   *)
(* delivered.                                                              *)
LEMMA ReceiveInv ==
    ASSUME TransferInv, TypeInv', ClientReceive
    PROVE  TransferInv'
<1> DEFINE n == Head(notifications)
           acked == AckedUpTo(n.sequence)
<1>0. /\ client.base \in Nat /\ client.next \in Nat /\ Len(delivered) \in Nat
      /\ segments \in Seq(Segment) /\ notifications \in Seq(Notification) /\ TypeOK
    BY TransferFacts DEF TransferInv
<1>1. /\ notifications # <<>> /\ notifications' = Tail(notifications)
      /\ UNCHANGED <<segments, delivered, last_sequence_number>>
    BY DEF ClientReceive
<1>2. /\ 1 \in DOMAIN notifications /\ n = notifications[1]
      /\ \A i \in DOMAIN notifications' :
            i + 1 \in DOMAIN notifications /\ notifications'[i] = notifications[i + 1]
    BY <1>0, <1>1
<1>3. \/ client' = client
      \/ n.command = "SYN_ACK" /\ client' = [client EXCEPT !.state = "ESTABLISHED"]
      \/ client' = [client EXCEPT !.state = "CLOSED"]
      \/ /\ n.command = "DATA_ACK" /\ client.state = "ESTABLISHED"
         /\ client' = [client EXCEPT !.base = acked,
                                     !.next = IF @ > acked THEN @ ELSE acked + 1]
      \/ /\ n.command = "GAP" /\ client.state = "ESTABLISHED"
         /\ client' = [client EXCEPT !.base = acked, !.next = acked + 1]
    <2>1. client' =
            CASE n.command = "SYN_ACK" /\ client.state = "SYN_SENT"
                    -> [client EXCEPT !.state = "ESTABLISHED"]
              [] n.command = "RST" /\ client.state # "CLOSED"
                    -> [client EXCEPT !.state = "CLOSED"]
              [] n.command = "DATA_ACK" /\ client.state = "ESTABLISHED"
                    -> [client EXCEPT !.base = acked,
                                      !.next = IF @ > acked THEN @ ELSE acked + 1]
              [] n.command = "GAP" /\ client.state = "ESTABLISHED"
                    -> [client EXCEPT !.base = acked, !.next = acked + 1]
              [] OTHER -> client
        BY DEF ClientReceive
    <2> HIDE DEF n, acked
    <2> QED
        BY <2>1, Zenon
<1> HIDE DEF n
<1>4. SynAlone' /\ DeliveredInOrder'
    BY <1>1, NoSynBehindAnswers DEF TransferInv, SynAlone, DeliveredInOrder
<1>5. ASSUME client'.base = client.base, client'.start = client.start, client'.next = client.next,
             client'.state \in {client.state, "CLOSED"} \/ n.command = "SYN_ACK"
      PROVE  TransferInv'
    <2>1. Connected' => Connected
        BY <1>1, <1>2, <1>5 DEF Connected
    <2>2. Connected' => SameSession'
        BY <1>1, <1>5, <2>1 DEF TransferInv, SameSession
    <2>3. WindowInv'
        BY <1>0, <1>1, <1>5, TakeAck DEF TransferInv, WindowInv
    <2> QED
        BY <1>4, <1>5, <2>2, <2>3 DEF TransferInv
<1>6. ASSUME IsAck(n), client.state = "ESTABLISHED", client'.base = acked,
             client'.start = client.start, client'.next > acked
      PROVE  TransferInv'
    <2>1. SameSession
        BY <1>6 DEF TransferInv, Connected
    <2>2. PICK a \in Nat :
            /\ n.sequence = NumberOf(client.start, a)
            /\ a <= Len(delivered) /\ client.base < a + CLIENT_WINDOW
            /\ AcksInWindow(Tail(notifications), client.start, a, Len(delivered))
        BY <1>0, <1>1, <1>6, TakeAck DEF TransferInv, WindowInv, n
    <2>3. acked = IF client.base < a THEN a ELSE client.base
        BY <1>0, <2>1, <2>2, AckUnderstood DEF SameSession
    <2> HIDE DEF acked
    <2>4. /\ acked \in Nat /\ client.base <= acked /\ acked <= Len(delivered)
          /\ acked = a \/ acked = client.base
        BY <1>0, <2>1, <2>2, <2>3 DEF SameSession
    <2>5. SameSession'
        BY <1>0, <1>1, <1>6, <2>1, <2>4, Sizes DEF SameSession
    <2>6. DataInWindow(segments', client'.start, client'.base, Len(delivered'))
        <3>1. DataInWindow(segments, client.start, acked, Len(delivered))
            BY <1>0, <2>4, WindowMoves DEF TransferInv, WindowInv
        <3> QED
            BY <1>1, <1>6, <3>1
    <2>7. AcksInWindow(notifications', client'.start, client'.base, Len(delivered'))
        <3>1. AcksInWindow(Tail(notifications), client.start, client.base, Len(delivered))
            BY <1>0, <1>1, TakeAck DEF TransferInv, WindowInv
        <3> QED
            BY <1>1, <1>6, <2>2, <2>4, <3>1
    <2>8. client'.base < client'.next
        <3>1. client'.next \in Nat
            BY DEF TypeInv, TypeOK
        <3> QED
            BY <1>6, <2>4, <3>1
    <2> QED
        BY <1>4, <2>5, <2>6, <2>7, <2>8 DEF TransferInv, WindowInv
<1>7. acked \in Nat
    BY <1>0, AckedIsNat
<1> HIDE DEF acked
<1>8. client \in [state : {"CLOSED", "SYN_SENT", "ESTABLISHED"},
                  start : Numbers, base : Nat, next : Nat]
    BY <1>0 DEF TypeOK
<1>9. CASE client' = client \/ client' = [client EXCEPT !.state = "CLOSED"]
    BY <1>5, <1>8, <1>9
<1>10. CASE n.command = "SYN_ACK" /\ client' = [client EXCEPT !.state = "ESTABLISHED"]
    BY <1>5, <1>8, <1>10
<1>11. CASE /\ n.command = "DATA_ACK" /\ client.state = "ESTABLISHED"
            /\ client' = [client EXCEPT !.base = acked,
                                        !.next = IF @ > acked THEN @ ELSE acked + 1]
    <2>1. (IF client.next > acked THEN client.next ELSE acked + 1) > acked
        BY <1>0, <1>7
    <2> QED
        BY <1>6, <1>8, <1>11, <2>1 DEF IsAck
<1>12. CASE /\ n.command = "GAP" /\ client.state = "ESTABLISHED"
            /\ client' = [client EXCEPT !.base = acked, !.next = acked + 1]
    <2>1. acked + 1 > acked
        BY <1>7
    <2> QED
        BY <1>6, <1>8, <1>12, <2>1 DEF IsAck
<1> QED
    BY <1>3, <1>9, <1>10, <1>11, <1>12

(* A notification is sent, or dropped when the sink is full. *)
LEMMA Answers ==
    ASSUME NEW number, NEW cmd, SendNotification(number, cmd)
    PROVE  \/ notifications' = notifications
           \/ notifications' = Append(notifications, [command |-> cmd, sequence |-> number])
    BY DEF SendNotification

(* The server accepts a SYN: a session starts with nothing delivered. *)
LEMMA HandleSynInv ==
    ASSUME TransferInv, TypeInv', ServerReceive, HandleSyn(Head(segments))
    PROVE  TransferInv'
<1> DEFINE s == Head(segments)
           note == [command |-> "SYN_ACK", sequence |-> s.sequence]
<1>0. segments # <<>> /\ segments' = Tail(segments) /\ UNCHANGED client
    BY DEF ServerReceive
<1>1. /\ 1 \in DOMAIN segments /\ s = segments[1]
      /\ \A i \in DOMAIN segments' :
            ~IsSyn(segments'[i]) /\ i + 1 \in DOMAIN segments /\ segments'[i] = segments[i + 1]
    BY <1>0, TailOfLink
<1>2. /\ notifications = <<>> /\ s.sequence = client.start
      /\ client.state # "ESTABLISHED" /\ client.base = 0
      /\ \A i \in DOMAIN segments : ~IsData(segments[i])
    <2>1. IsSyn(segments[1])
        BY <1>1 DEF HandleSyn, IsSyn
    <2> QED
        BY <1>1, <2>1 DEF TransferInv, SynAlone
<1>3. /\ delivered' = <<>> /\ last_sequence_number' = client.start
      /\ notifications' = <<>> \/ notifications' = Append(<<>>, note)
    BY <1>2, Answers DEF HandleSyn
<1>4. \A i \in DOMAIN segments' : ~IsData(segments'[i])
    BY <1>1, <1>2
<1>5. SynAlone' /\ DeliveredInOrder' /\ client'.base < client'.next
    BY <1>0, <1>1, <1>3 DEF TransferInv, SynAlone, DeliveredInOrder
<1>6. SameSession'
    <2>1. client.start \in Numbers
        BY TransferFacts DEF TransferInv
    <2>2. NumberOf(client.start, 0) = client.start
        BY <2>1, SequenceAssumption DEF NumberOf, Numbers
    <2> QED
        BY <1>0, <1>2, <1>3, <2>2, Sizes DEF SameSession
<1>7. DataInWindow(segments', client'.start, client'.base, Len(delivered'))
    BY <1>4 DEF DataInWindow
<1>8. AcksInWindow(notifications', client'.start, client'.base, Len(delivered'))
    <2>1. AcksInWindow(<<>>, client.start, 0, 0) /\ <<>> \in Seq(Notification) /\ ~IsAck(note)
        BY NoAcks DEF IsAck
    <2>2. AcksInWindow(Append(<<>>, note), client.start, 0, 0)
        BY <2>1, AckInWindow
    <2> QED
        BY <1>0, <1>2, <1>3, <2>1, <2>2
<1> QED
    BY <1>5, <1>6, <1>7, <1>8 DEF TransferInv, WindowInv

(* The server answers a RST, or a command it does not expect, with a RST   *)
(* and leaves what it has delivered alone.                                 *)
LEMMA HandleRstInv ==
    ASSUME TransferInv, TypeInv', ServerReceive, NEW number, SendNotification(number, "RST"),
           UNCHANGED <<last_sequence_number, delivered>>
    PROVE  TransferInv'
<1> DEFINE note == [command |-> "RST", sequence |-> number]
<1>0. segments # <<>> /\ segments' = Tail(segments) /\ UNCHANGED client
    BY DEF ServerReceive
<1>1. \A i \in DOMAIN segments' :
        ~IsSyn(segments'[i]) /\ i + 1 \in DOMAIN segments /\ segments'[i] = segments[i + 1]
    BY <1>0, TailOfLink
<1>2. /\ client.base \in Nat /\ Len(delivered) \in Nat
      /\ segments \in Seq(Segment) /\ notifications \in Seq(Notification)
    BY TransferFacts DEF TransferInv
<1>3. notifications' = notifications \/ notifications' = Append(notifications, note)
    BY Answers
<1>4. ~IsAck(note) /\ note.command = "RST"
    BY DEF IsAck
<1> HIDE DEF note
<1>5. SynAlone' /\ DeliveredInOrder' /\ client'.base < client'.next
    BY <1>0, <1>1 DEF TransferInv, SynAlone, DeliveredInOrder
<1>6. Connected' => Connected
    <2>1. ASSUME NEW i \in DOMAIN notifications', notifications'[i].command # "RST"
          PROVE  i \in DOMAIN notifications /\ notifications'[i] = notifications[i]
        BY <1>2, <1>3, <1>4, <2>1
    <2> QED
        BY <1>0, <1>1, <2>1 DEF Connected
<1>7. Connected' => SameSession'
    BY <1>0, <1>6 DEF TransferInv, SameSession
<1>8. DataInWindow(segments', client'.start, client'.base, Len(delivered'))
    BY <1>0, <1>2, TakeFromWindow DEF TransferInv, WindowInv
<1>9. AcksInWindow(notifications', client'.start, client'.base, Len(delivered'))
    <2>1. AcksInWindow(Append(notifications, note), client.start, client.base, Len(delivered))
        BY <1>2, <1>4, AckInWindow, 0 \in Nat DEF TransferInv, WindowInv
    <2> QED
        BY <1>0, <1>3, <2>1 DEF TransferInv, WindowInv
<1> QED
    BY <1>5, <1>7, <1>8, <1>9 DEF TransferInv, WindowInv

(* What the number of a DATA segment tells the server about its payload:   *)
(* the next number is the next payload's, and one that the server takes    *)
(* for a duplicate's has been delivered.                                   *)
LEMMA NumberTells ==
    ASSUME TransferInv, SameSession, segments # <<>>, IsData(Head(segments))
    PROVE  LET s == Head(segments) IN
           /\ s.payload \in Nat
           /\ s.sequence = NumberOf(client.start, s.payload)
           /\ s.payload <= client.base + CLIENT_WINDOW
           /\ Len(delivered) < s.payload + CLIENT_WINDOW
           /\ IsNextSequence(s.sequence) => s.payload = Len(delivered) + 1
           /\ ~IsNextSequence(s.sequence) /\ ~IsOutOfSequence(s.sequence)
                => s.payload <= Len(delivered)
<1> DEFINE s == Head(segments)
           count == Len(delivered)
<1>0. /\ client.base \in Nat /\ client.start \in Nat /\ count \in Nat
      /\ segments \in Seq(Segment)
    BY TransferFacts DEF TransferInv
<1>1. s.payload \in Nat
    BY <1>0, PayloadIsNat
<1>2. /\ s.sequence = NumberOf(client.start, s.payload)
      /\ s.payload <= client.base + CLIENT_WINDOW /\ count < s.payload + CLIENT_WINDOW
    BY <1>0, TakeFromWindow DEF TransferInv, WindowInv
<1>3. /\ last_sequence_number = NumberOf(client.start, count)
      /\ client.base <= count
    BY DEF SameSession
<1> HIDE DEF s, count
<1>4. ASSUME IsNextSequence(s.sequence) PROVE s.payload = count + 1
    <2>1. NumberOf(client.start, s.payload) = NumberOf(client.start, count + 1)
        BY <1>0, <1>2, <1>3, <1>4, NextNumber DEF IsNextSequence, NextExpectedSequenceNumber
    <2>2. count + 1 \in Nat /\ s.payload < count + 1 + SEQUENCE_NUMBER_MAX
          /\ count + 1 < s.payload + SEQUENCE_NUMBER_MAX
        BY <1>0, <1>1, <1>2, <1>3, Sizes
    <2> QED
        BY <1>0, <1>1, <2>1, <2>2, SameNumber
<1>5. ASSUME ~IsOutOfSequence(s.sequence) PROVE s.payload <= count
    <2> SUFFICES ASSUME s.payload > count PROVE FALSE
        BY <1>0, <1>1
    <2>1. /\ s.payload - count \in Numbers
          /\ s.payload - count > 0 /\ s.payload - count <= RECEIVE_WINDOW_MAX
        BY <1>0, <1>1, <1>2, <1>3, Sizes DEF Numbers
    <2>2. Norm(s.sequence) = s.payload - count
        BY <1>0, <1>1, <1>2, <1>3, <2>1, Distance DEF Norm
    <2> QED
        BY <1>5, <2>1, <2>2 DEF IsOutOfSequence
<1> QED
    BY <1>1, <1>2, <1>4, <1>5 DEF s, count

(* The server takes in a DATA segment. *)
LEMMA HandleDataInv ==
    ASSUME TransferInv, TypeInv', ServerReceive, IsData(Head(segments)),
           NEW muted, HandleDataSegment(Head(segments), muted)
    PROVE  TransferInv'
<1> DEFINE s == Head(segments)
           count == Len(delivered)
<1>0. segments # <<>> /\ segments' = Tail(segments) /\ UNCHANGED client
    BY DEF ServerReceive
<1>1. /\ 1 \in DOMAIN segments /\ s = segments[1]
      /\ \A i \in DOMAIN segments' : ~IsSyn(segments'[i])
    BY <1>0, TailOfLink
<1>2. /\ client.base \in Nat /\ count \in Nat /\ delivered \in Seq(1 .. PAYLOADS)
      /\ segments \in Seq(Segment) /\ notifications \in Seq(Notification)
      /\ client.start \in Nat
    BY TransferFacts DEF TransferInv
<1>3. SameSession
    BY <1>1 DEF TransferInv, Connected
<1>4. /\ s.payload \in Nat
      /\ s.sequence = NumberOf(client.start, s.payload)
      /\ s.payload <= client.base + CLIENT_WINDOW
      /\ count < s.payload + CLIENT_WINDOW
      /\ IsNextSequence(s.sequence) => s.payload = count + 1
      /\ ~IsNextSequence(s.sequence) /\ ~IsOutOfSequence(s.sequence) => s.payload <= count
    BY <1>0, <1>3, NumberTells
<1>5. /\ DataInWindow(segments', client.start, client.base, count)
      /\ DataInWindow(segments', client.start, client.base, s.payload)
    BY <1>0, <1>2, TakeFromWindow DEF TransferInv, WindowInv
<1>6. SynAlone' /\ client'.base < client'.next
    BY <1>0, <1>1 DEF TransferInv, SynAlone
<1>7. ASSUME UNCHANGED <<last_sequence_number, delivered>>,
             NEW a \in Nat, a <= count, count < a + CLIENT_WINDOW, NEW cmd,
             \/ notifications' = notifications
             \/ SendNotification(NumberOf(client.start, a), cmd)
      PROVE  TransferInv'
    <2> DEFINE note == [command |-> cmd, sequence |-> NumberOf(client.start, a)]
    <2>1. notifications' = notifications \/ notifications' = Append(notifications, note)
        BY <1>7, Answers
    <2>2. AcksInWindow(Append(notifications, note), client.start, client.base, count)
        BY <1>2, <1>3, <1>7, AckInWindow DEF TransferInv, WindowInv, SameSession
    <2>3. WindowInv'
        BY <1>0, <1>5, <1>7, <2>1, <2>2 DEF TransferInv, WindowInv
    <2>4. SameSession' /\ DeliveredInOrder'
        BY <1>0, <1>3, <1>7 DEF TransferInv, SameSession, DeliveredInOrder
    <2> QED
        BY <1>6, <2>3, <2>4 DEF TransferInv
<1>8. CASE ~accept_segments
    <2>1. UNCHANGED <<last_sequence_number, notifications, delivered>>
        BY <1>8 DEF HandleDataSegment
    <2>2. count <= count /\ count < count + CLIENT_WINDOW
        BY <1>2, Sizes
    <2> QED
        BY <1>2, <1>7, <2>1, <2>2
<1>9. CASE accept_segments /\ IsNextSequence(s.sequence)
    <2> DEFINE note == [command |-> "DATA_ACK", sequence |-> s.sequence]
    <2>1. /\ SendNotification(s.sequence, "DATA_ACK")
          /\ last_sequence_number' = s.sequence
          /\ delivered' = Append(delivered, s.payload)
        BY <1>9 DEF HandleDataSegment
    <2>2. s.payload = count + 1
        BY <1>4, <1>9
    <2>3. Len(delivered') = count + 1
        BY <1>2, <2>1
    <2>4. DeliveredInOrder'
        <3>1. /\ \A i \in DOMAIN delivered : delivered'[i] = delivered[i]
              /\ delivered'[count + 1] = count + 1
              /\ DOMAIN delivered' = 1 .. count + 1 /\ DOMAIN delivered = 1 .. count
            BY <1>2, <2>1, <2>2
        <3>2. \A i \in DOMAIN delivered' : i \in DOMAIN delivered \/ i = count + 1
            BY <1>2, <3>1
        <3> QED
            BY <3>1, <3>2 DEF TransferInv, DeliveredInOrder
    <2>5. SameSession'
        BY <1>0, <1>2, <1>3, <1>4, <2>1, <2>2, <2>3 DEF SameSession
    <2>6. DataInWindow(segments', client'.start, client'.base, Len(delivered'))
        BY <1>0, <1>5, <2>2, <2>3
    <2>7. AcksInWindow(notifications', client'.start, client'.base, Len(delivered'))
        <3>1. count + 1 \in Nat /\ count <= count + 1 /\ client.base <= count + 1
              /\ count + 1 <= count + 1 /\ count + 1 < count + 1 + CLIENT_WINDOW
            BY <1>2, <1>3, Sizes DEF SameSession
        <3>2. AcksInWindow(notifications, client.start, client.base, count + 1)
            BY <1>2, <3>1, AcksStay DEF TransferInv, WindowInv
        <3>3. note.sequence = NumberOf(client.start, count + 1)
            BY <1>4, <2>2
        <3> HIDE DEF note
        <3>4. AcksInWindow(Append(notifications, note), client.start, client.base, count + 1)
            BY <1>2, <3>1, <3>2, <3>3, AckInWindow
        <3>5. notifications' = notifications \/ notifications' = Append(notifications, note)
            BY <2>1, Answers DEF note
        <3> QED
            BY <1>0, <2>3, <3>2, <3>4, <3>5
    <2> QED
        BY <1>6, <2>4, <2>5, <2>6, <2>7 DEF TransferInv, WindowInv
<1>10. CASE accept_segments /\ ~IsNextSequence(s.sequence) /\ IsOutOfSequence(s.sequence)
    <2>1. /\ notifications' = notifications \/ SendNotification(last_sequence_number, "GAP")
          /\ UNCHANGED <<last_sequence_number, delivered>>
        BY <1>10 DEF HandleDataSegment
    <2>2. count <= count /\ count < count + CLIENT_WINDOW
        BY <1>2, Sizes
    <2>3. last_sequence_number = NumberOf(client.start, count)
        BY <1>3 DEF SameSession
    <2> QED
        BY <1>2, <1>7, <2>1, <2>2, <2>3
<1>11. CASE accept_segments /\ ~IsNextSequence(s.sequence) /\ ~IsOutOfSequence(s.sequence)
    <2>1. /\ SendNotification(s.sequence, "DATA_ACK")
          /\ UNCHANGED <<last_sequence_number, delivered>>
        BY <1>11 DEF HandleDataSegment
    <2> QED
        BY <1>4, <1>7, <1>11, <2>1
<1> QED
    BY <1>8, <1>9, <1>10, <1>11

(* The server handles a segment. *)
LEMMA ServerReceiveInv ==
    ASSUME TransferInv, TypeInv', ServerReceive
    PROVE  TransferInv'
<1> DEFINE s == Head(segments)
<1>1. CASE HandleSyn(s)
    BY <1>1, HandleSynInv
<1>2. CASE HandleRst(s)
    BY <1>2, HandleRstInv DEF HandleRst
<1>3. CASE HandleUnexpected(s)
    BY <1>3, HandleRstInv DEF HandleUnexpected
<1>4. CASE HandleFirstData(s)
    BY <1>4, HandleDataInv DEF HandleFirstData, IsData
<1>5. CASE HandleData(s)
    BY <1>5, HandleDataInv DEF HandleData, IsData
<1> QED
    BY <1>1, <1>2, <1>3, <1>4, <1>5 DEF ServerReceive, HandleMessage

(* Every step of the client, the server and the link keeps the invariant. *)
LEMMA TransferInvStep == TransferInv /\ [TransferNext]_vars => TransferInv'
<1> SUFFICES ASSUME TransferInv, [TransferNext]_vars PROVE TransferInv'
    OBVIOUS
<1>1. TypeInv'
    BY TypeStep DEF TransferInv
<1>2. CASE ServerPause \/ ServerResume \/ UNCHANGED vars
    BY <1>1, <1>2, SessionStays DEF ServerPause, ServerResume, FlowControl, vars, serverVars
<1> QED
    BY <1>1, <1>2, SynInv, DataInv, TimeoutInv, ReceiveInv, ResetInv, ServerReceiveInv,
       LoseInv, ReconnectInv DEF TransferNext

(* What GAIA gets in a session is the client's payloads in order, none     *)
(* missing and none twice, whatever is lost, sent again, paused or reset,  *)
(* for every number space of at least two windows (handleDataSegment).     *)
THEOREM DeliversInOrder == TransferSpec => []DeliveredInOrder
<1>1. TransferInv => DeliveredInOrder
    BY DEF TransferInv
<1> QED
    BY <1>1, TransferInvInit, TransferInvStep, PTL DEF TransferSpec

(* The client never counts a payload as acknowledged that the server has   *)
(* not handed to GAIA: no segment ahead of the window is mistaken for a    *)
(* duplicate, and no late acknowledgement for one of a later payload.      *)
THEOREM NeverAcksFalsely == TransferSpec => []NoFalseAck
<1>1. TransferInv => NoFalseAck
    BY DEF TransferInv, Connected, SameSession, NoFalseAck
<1> QED
    BY <1>1, TransferInvInit, TransferInvStep, PTL DEF TransferSpec
=============================================================================
