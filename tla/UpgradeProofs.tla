--------------------------- MODULE UpgradeProofs ----------------------------
(* Theorems about the upgrade library, for any files, any number of        *)
(* sections and of sessions with hosts, and queues of any length.          *)
EXTENDS Upgrade, QueueProofs

----------------------------------------------------------------------------
(* Kinds of messages in a queue. *)

Has(A, q) == \E i \in DOMAIN q : q[i] \in A

(* No message of A is delivered before one of B. *)
NoneAhead(A, B, q) == \A i, j \in DOMAIN q : i < j => ~(q[i] \in A /\ q[j] \in B)

(* A queue without messages of A has none ahead of others. *)
LEMMA NoneToBeAhead ==
    ASSUME NEW q, NEW A, NEW B, ~Has(A, q) \/ ~Has(B, q)
    PROVE  NoneAhead(A, B, q)
    BY DEF Has, NoneAhead

(* The empty queue has no messages. *)
LEMMA NoneInEmpty ==
    ASSUME NEW A PROVE ~Has(A, <<>>)
    BY DEF Has

(* A message is sent. *)
LEMMA HasAppend ==
    ASSUME NEW S, NEW q \in Seq(S), NEW m \in S, NEW A, NEW B
    PROVE  /\ Has(A, Append(q, m)) <=> Has(A, q) \/ m \in A
           /\ NoneAhead(A, B, q) /\ (m \in B => ~Has(A, q)) => NoneAhead(A, B, Append(q, m))
<1> DEFINE r == Append(q, m)
           n == Len(q)
<1>1. /\ DOMAIN r = 1 .. n + 1 /\ DOMAIN q = 1 .. n /\ n \in Nat
      /\ \A i \in 1 .. n : r[i] = q[i]
      /\ r[n + 1] = m
    OBVIOUS
<1> HIDE DEF r, n
<1>2. Has(A, r) <=> Has(A, q) \/ m \in A
    <2>1. \A i \in 1 .. n + 1 : i \in 1 .. n \/ i = n + 1
        BY <1>1
    <2>2. n + 1 \in 1 .. n + 1 /\ \A i \in 1 .. n : i \in 1 .. n + 1
        BY <1>1
    <2> QED
        BY <1>1, <2>1, <2>2 DEF Has
<1>3. ASSUME NoneAhead(A, B, q), m \in B => ~Has(A, q) PROVE NoneAhead(A, B, r)
    <2> SUFFICES ASSUME NEW i \in 1 .. n + 1, NEW j \in 1 .. n + 1, i < j, r[i] \in A, r[j] \in B
                 PROVE  FALSE
        BY <1>1 DEF NoneAhead
    <2>1. i \in 1 .. n /\ (j \in 1 .. n \/ j = n + 1)
        BY <1>1
    <2> QED
        BY <1>1, <1>3, <2>1 DEF NoneAhead, Has
<1> QED
    BY <1>2, <1>3 DEF r

(* The first message is delivered. *)
LEMMA HasTail ==
    ASSUME NEW S, NEW q \in Seq(S), q # <<>>, NEW A, NEW B
    PROVE  /\ Has(A, q) <=> Head(q) \in A \/ Has(A, Tail(q))
           /\ NoneAhead(A, B, q) => NoneAhead(A, B, Tail(q))
           /\ NoneAhead(A, B, q) /\ Head(q) \in A => ~Has(B, Tail(q))
<1> DEFINE r == Tail(q)
           n == Len(q)
           h == Head(q)
<1>1. /\ DOMAIN r = 1 .. n - 1 /\ DOMAIN q = 1 .. n /\ n \in Nat \ {0}
      /\ \A i \in 1 .. n - 1 : r[i] = q[i + 1]
      /\ q[1] = h
    OBVIOUS
<1> HIDE DEF r, n, h
<1>2. \A i \in 1 .. n - 1 : i + 1 \in 1 .. n /\ 1 < i + 1
    BY <1>1
<1>3. Has(A, r) => Has(A, q)
    BY <1>1, <1>2 DEF Has
<1>4. h \in A => Has(A, q)
    BY <1>1 DEF Has
<1>5. Has(A, q) => h \in A \/ Has(A, r)
    <2> SUFFICES ASSUME NEW i \in 1 .. n, q[i] \in A, i # 1 PROVE Has(A, r)
        BY <1>1 DEF Has
    <2>1. i - 1 \in 1 .. n - 1 /\ (i - 1) + 1 = i
        BY <1>1
    <2> QED
        BY <1>1, <2>1 DEF Has
<1>6. NoneAhead(A, B, q) => NoneAhead(A, B, r)
    <2> SUFFICES ASSUME NoneAhead(A, B, q), NEW i \in 1 .. n - 1, NEW j \in 1 .. n - 1, i < j,
                        r[i] \in A, r[j] \in B
                 PROVE  FALSE
        BY <1>1 DEF NoneAhead
    <2>1. i + 1 \in 1 .. n /\ j + 1 \in 1 .. n /\ i + 1 < j + 1
        BY <1>1
    <2> QED
        BY <1>1, <2>1 DEF NoneAhead
<1>7. NoneAhead(A, B, q) /\ h \in A => ~Has(B, r)
    BY <1>1, <1>2 DEF NoneAhead, Has
<1> QED
    BY <1>3, <1>4, <1>5, <1>6, <1>7 DEF r, h

(* Messages are cancelled. *)
LEMMA HasThinned ==
    ASSUME NEW S, NEW q \in Seq(S), NEW r \in Seq(S), Thinned(r, q), NEW A, NEW B
    PROVE  /\ Has(A, r) => Has(A, q)
           /\ NoneAhead(A, B, q) => NoneAhead(A, B, r)
<1>1. PICK f \in [DOMAIN r -> DOMAIN q] :
            /\ \A i \in DOMAIN r : r[i] = q[f[i]]
            /\ \A i, j \in DOMAIN r : i < j => f[i] < f[j]
    BY DEF Thinned
<1> QED
    BY <1>1 DEF Has, NoneAhead

(* Messages that do not belong to A are put in front. *)
LEMMA HasConcat ==
    ASSUME NEW S, NEW b \in Seq(S), NEW q \in Seq(S), NEW A, NEW B
    PROVE  /\ Has(A, b \o q) <=> Has(A, b) \/ Has(A, q)
           /\ NoneAhead(A, B, q) /\ ~Has(A, b) => NoneAhead(A, B, b \o q)
<1> DEFINE r == b \o q
           l == Len(b)
           n == Len(q)
<1>1. /\ DOMAIN r = 1 .. l + n /\ DOMAIN b = 1 .. l /\ DOMAIN q = 1 .. n
      /\ l \in Nat /\ n \in Nat
      /\ \A i \in 1 .. l : r[i] = b[i]
      /\ \A i \in 1 .. n : r[l + i] = q[i]
    OBVIOUS
<1> HIDE DEF r, l, n
<1>2. ASSUME NEW i \in 1 .. l + n, i \notin 1 .. l
      PROVE  i - l \in 1 .. n /\ r[i] = q[i - l]
    <2>1. i - l \in 1 .. n /\ l + (i - l) = i
        BY <1>1, <1>2
    <2> QED
        BY <1>1, <2>1
<1>3. Has(A, r) => Has(A, b) \/ Has(A, q)
    BY <1>1, <1>2 DEF Has
<1>4. Has(A, b) => Has(A, r)
    <2>1. \A i \in 1 .. l : i \in 1 .. l + n
        BY <1>1
    <2> QED
        BY <1>1, <2>1 DEF Has
<1>5. Has(A, q) => Has(A, r)
    <2>1. \A i \in 1 .. n : l + i \in 1 .. l + n
        BY <1>1
    <2> QED
        BY <1>1, <2>1 DEF Has
<1>6. ASSUME NoneAhead(A, B, q), ~Has(A, b) PROVE NoneAhead(A, B, r)
    <2> SUFFICES ASSUME NEW i \in 1 .. l + n, NEW j \in 1 .. l + n, i < j, r[i] \in A, r[j] \in B
                 PROVE  FALSE
        BY <1>1 DEF NoneAhead
    <2>1. i \notin 1 .. l
        BY <1>1, <1>6 DEF Has
    <2>2. j \notin 1 .. l
        BY <1>1, <2>1
    <2>3. /\ i - l \in 1 .. n /\ j - l \in 1 .. n
          /\ r[i] = q[i - l] /\ r[j] = q[j - l]
        BY <1>2, <2>1, <2>2
    <2>4. i - l < j - l
        BY <1>1
    <2> QED
        BY <1>1, <1>6, <2>3, <2>4 DEF NoneAhead
<1> QED
    BY <1>3, <1>4, <1>5, <1>6 DEF r

----------------------------------------------------------------------------
(* Types. *)

Statuses == {"HASH_STATUS", "COPY_STATUS", "ERASE_STATUS"}

Signals == {"START_REQ", "START_DATA_REQ", "IS_CSR_VALID_DONE_REQ", "ERRORWARN_RES", "ABORT_REQ",
            "CONTINUE", "APPLY_IND", "REBOOT", "SHUT_AUDIO", "BLOCKING_IND", "ERASE",
            "DELAY_REBOOT", "RECONNECTION_TIMEOUT", "DELAY_REVERT_REBOOT"}

Message == [id : {"SYNC_REQ", "DATA"}, arg : Files]
            \cup [id : Questions \cup Statuses, arg : {0, 1}]
            \cup [id : Signals, arg : {0}]

Requests == {"away", "SYNC_REQ", "START_REQ", "START_DATA_REQ", "DATA", "IS_CSR_VALID_DONE_REQ",
             "COMPLETE", "ERRORWARN_RES", "ABORT_REQ"} \cup Questions

Hosts == [next : Requests, sent : BOOLEAN, file : Files \cup {0}, at : ResumePoints, left : Nat]

Banks == [boot : Images, other : Images, copied : BOOLEAN, running : {"boot", "other", "erased"}]

Keys == [key : ResumePoints, id : Files \cup {0}, upgrading : BOOLEAN, closed : 0 .. Sections]

Contexts == [is_validated : 0 .. 1, copy_done : BOOLEAN, hashing : BOOLEAN,
             asynchronous_abort : BOOLEAN, revert : BOOLEAN, data : 0 .. NoData]

TimerIds == {"DELAY_REBOOT", "RECONNECTION_TIMEOUT", "DELAY_REVERT_REBOOT"}

Waiting == {Signal("CONTINUE"), Signal("IS_CSR_VALID_DONE_REQ")}

HostOK(h) == h \in Hosts /\ (h.next # "away" => h.file \in Files)

TypeInv ==
    /\ smState \in States /\ ps \in Keys /\ ram \in Contexts /\ flash \in Banks
    /\ smState = "DATA_TRANSFER" => ram.data # NoData
    /\ timers \in SUBSET TimerIds
    /\ jobs \in Seq({"erase", "hash", "copy"})
    /\ messages \in Seq(Message)
    /\ blocked \in Seq(Waiting)
    /\ HostOK(host)

(* What is sent to the state machine is a message, and its kind says what  *)
(* it carries.                                                             *)
LEMMA MessageFacts ==
    /\ \A id \in Signals : Signal(id) \in Message
    /\ \A id \in Questions \cup Statuses, a \in {0, 1} : Msg(id, a) \in Message
    /\ \A id \in {"SYNC_REQ", "DATA"}, f \in Files : Msg(id, f) \in Message
    /\ \A m \in Message : m.id \in {"SYNC_REQ", "DATA"} => m.arg \in Files
    /\ \A m \in Message : m.id \in Questions \cup Statuses => m.arg \in {0, 1}
    /\ \A m \in Message : m.id \in Signals => m = Signal(m.id)
    BY DEF Message, Signals, Statuses, Questions, Signal, Msg

(* An image of which some sections are erased is an image. *)
LEMMA EraseSomeType ==
    ASSUME flash \in Banks, NEW sections \in SUBSET (1 .. Sections)
    PROVE  /\ EraseSome(sections) \in Banks
           /\ EraseSome(sections).boot = flash.boot
           /\ EraseSome(sections).running = flash.running
           /\ sections = {} => EraseSome(sections).other = flash.other
<1>1. flash.copied \in BOOLEAN /\ flash.other \in Images
    BY DEF Banks
<1> DEFINE image == [s \in 1 .. Sections |-> IF s \in sections THEN Erased ELSE flash.other[s]]
           c == flash.copied /\ sections = {}
<1>2. image \in Images /\ c \in BOOLEAN
    BY <1>1 DEF Images
<1>3. EraseSome(sections) = [flash EXCEPT !.other = image, !.copied = c]
    BY DEF EraseSome
<1>4. sections = {} => image = flash.other
    BY <1>1 DEF Images
<1> HIDE DEF image, c
<1> QED
    BY <1>2, <1>3, <1>4 DEF Banks

(* Changes of a part of the keys, of the context and of the banks. *)
LEMMA UpdatesOfKeys ==
    ASSUME NEW p \in Keys
    PROVE  /\ \A k \in ResumePoints : [p EXCEPT !.key = k] \in Keys
           /\ \A f \in Files : [p EXCEPT !.id = f] \in Keys
           /\ \A c \in 0 .. Sections : [p EXCEPT !.closed = c] \in Keys
           /\ [p EXCEPT !.upgrading = TRUE] \in Keys
           /\ ClearedKeys \in Keys
<1>1. 0 \in 0 .. Sections
    BY UpgradeAssumption
<1> QED
    BY <1>1 DEF Keys, ClearedKeys, ResumePoints

(* The values of is_validated. *)
LEMMA OneOrNone == 0 \in 0 .. 1 /\ 1 \in 0 .. 1
    OBVIOUS

(* The context in memory. *)
LEMMA UpdatesOfContext ==
    ASSUME NEW c \in Contexts
    PROVE  /\ \A n \in 0 .. 1 : [c EXCEPT !.is_validated = n] \in Contexts
           /\ \A b \in BOOLEAN : [c EXCEPT !.copy_done = b] \in Contexts
           /\ \A b \in BOOLEAN : [c EXCEPT !.hashing = b] \in Contexts
           /\ \A b \in BOOLEAN : [c EXCEPT !.asynchronous_abort = b] \in Contexts
           /\ \A b \in BOOLEAN : [c EXCEPT !.revert = b] \in Contexts
           /\ \A d \in 0 .. NoData : [c EXCEPT !.data = d] \in Contexts
           /\ RamInit \in Contexts
<1>1. 0 \in 0 .. 1 /\ NoData \in 0 .. NoData
    BY UpgradeAssumption DEF NoData
<1> QED
    BY <1>1 DEF Contexts, RamInit

(* The image banks. *)
LEMMA UpdatesOfBanks ==
    ASSUME NEW f \in Banks
    PROVE  /\ \A r \in {"boot", "other", "erased"} : [f EXCEPT !.running = r] \in Banks
           /\ \A b \in BOOLEAN : [f EXCEPT !.copied = b] \in Banks
           /\ [boot |-> f.other, other |-> f.boot, copied |-> TRUE, running |-> "boot"] \in Banks
    BY DEF Banks

(* A section is written to the other bank. *)
LEMMA SectionWritten ==
    ASSUME NEW f \in Banks, NEW s \in 1 .. Sections, NEW x \in Files
    PROVE  /\ [f EXCEPT !.other[s] = x] \in Banks
           /\ [f EXCEPT !.other[s] = x].boot = f.boot
           /\ [f EXCEPT !.other[s] = x].running = f.running
<1> DEFINE image == [f.other EXCEPT ![s] = x]
<1>1. image \in Images
    BY DEF Banks, Images
<1>2. [f EXCEPT !.other[s] = x] = [f EXCEPT !.other = image]
    OBVIOUS
<1> HIDE DEF image
<1> QED
    BY <1>1, <1>2 DEF Banks

(* What the host may come to. *)
LEMMA UpdatesOfHost ==
    ASSUME NEW h, HostOK(h)
    PROVE  /\ HostOK(Away(h.left)) /\ HostOK(Away(h.left + 1))
           /\ h.next # "away" =>
                /\ \A r \in Requests, b \in BOOLEAN : HostOK([h EXCEPT !.next = r, !.sent = b])
                /\ \A r \in Requests : HostOK([h EXCEPT !.next = r])
                /\ \A b \in BOOLEAN : HostOK([h EXCEPT !.sent = b])
                /\ \A r \in Requests, b \in BOOLEAN, k \in ResumePoints :
                        HostOK([h EXCEPT !.next = r, !.sent = b, !.at = k])
<1>1. HostOK(Away(h.left)) /\ HostOK(Away(h.left + 1))
    BY DEF HostOK, Hosts, Away, Requests, ResumePoints
<1>2. ASSUME h.next # "away"
      PROVE  /\ \A r \in Requests, b \in BOOLEAN : HostOK([h EXCEPT !.next = r, !.sent = b])
             /\ \A r \in Requests : HostOK([h EXCEPT !.next = r])
             /\ \A b \in BOOLEAN : HostOK([h EXCEPT !.sent = b])
    BY <1>2 DEF HostOK, Hosts
<1>3. ASSUME h.next # "away", NEW r \in Requests, NEW b \in BOOLEAN, NEW k \in ResumePoints
      PROVE  HostOK([h EXCEPT !.next = r, !.sent = b, !.at = k])
    BY <1>3 DEF HostOK, Hosts
<1> QED
    BY <1>1, <1>2, <1>3

(* The host is told something. *)
LEMMA TellType ==
    ASSUME HostOK(host), NEW requests, "away" \notin requests, NEW next \in Requests,
           Tell(requests, next)
    PROVE  HostOK(host')
    BY UpdatesOfHost DEF Tell

(* UPGRADE_HOST_ERRORWARN_IND is sent to it. *)
LEMMA TellErrorType ==
    ASSUME HostOK(host), TellError PROVE HostOK(host')
<1>1. "ERRORWARN_RES" \in Requests
    BY DEF Requests
<1> QED
    BY <1>1, UpdatesOfHost DEF TellError

(* UPGRADE_HOST_ABORT_CFM is sent to it. *)
LEMMA TellAbortedType ==
    ASSUME HostOK(host), TellAborted PROVE HostOK(host')
    BY UpdatesOfHost DEF TellAborted

(* The first message and the others. *)
LEMMA RestType ==
    ASSUME messages \in Seq(Message), messages # <<>>
    PROVE  Rest \in Seq(Message) /\ Head(messages) \in Message
    BY DEF Rest

(* What is sent and what is cancelled. *)
LEMMA QueueTypes ==
    ASSUME NEW q \in Seq(Message)
    PROVE  /\ \A id \in Signals : Append(q, Signal(id)) \in Seq(Message)
           /\ BlockingOpIsDone(q) \in Seq(Message)
           /\ NoReconnectionTimeout(q) \in Seq(Message)
           /\ \A b \in Seq(Waiting) : b \o q \in Seq(Message)
<1>1. \A id \in Signals : Append(q, Signal(id)) \in Seq(Message)
    BY MessageFacts
<1>2. BlockingOpIsDone(q) \in Seq(Message) /\ NoReconnectionTimeout(q) \in Seq(Message)
    BY CancelAllThins DEF BlockingOpIsDone, NoReconnectionTimeout
<1>3. ASSUME NEW b \in Seq(Waiting) PROVE b \o q \in Seq(Message)
    <2>1. Waiting \subseteq Message
        BY MessageFacts DEF Waiting, Signals
    <2>2. b \in Seq(Message)
        BY <2>1
    <2> QED
        BY <2>2
<1> QED
    BY <1>1, <1>2, <1>3

(* Jobs are added and removed. *)
LEMMA JobsType ==
    ASSUME NEW q \in Seq({"erase", "hash", "copy"})
    PROVE  /\ \A j \in {"erase", "hash", "copy"} : Append(q, j) \in Seq({"erase", "hash", "copy"})
           /\ q # <<>> => Tail(q) \in Seq({"erase", "hash", "copy"})
    OBVIOUS

(* A reset keeps the types. *)
LEMMA ResetType ==
    ASSUME TypeInv, NEW keys \in Keys, NEW banks \in Banks, Reset(keys, banks), HostOK(host')
    PROVE  TypeInv'
<1>1. ps' \in Keys /\ flash' \in Banks /\ ram' \in Contexts
    BY UpdatesOfContext DEF Reset, TypeInv
<1>2. smState' \in States /\ smState' # "DATA_TRANSFER" /\ timers' \in SUBSET TimerIds
    BY DEF Reset, States, TimerIds
<1>3. jobs' = <<>> /\ messages' = <<>> /\ blocked' = <<>>
    BY DEF Reset
<1> QED
    BY <1>1, <1>2, <1>3 DEF TypeInv

(* So does one that loses the host. *)
LEMMA BootType ==
    ASSUME TypeInv, NEW keys \in Keys, NEW banks \in Banks, Boot(keys, banks)
    PROVE  TypeInv'
    BY ResetType, UpdatesOfHost DEF Boot, TypeInv

(* Every step keeps the types. *)
LEMMA TypeStep ==
    ASSUME TypeInv, Next PROVE TypeInv'
<1> USE DEF TypeInv
<1>1. CASE HandleSyncReq
    <2>1. /\ Rest \in Seq(Message) /\ Arg \in Files
          /\ smState' \in {smState, "READY"} /\ messages' = Rest
        BY <1>1, RestType, MessageFacts DEF HandleSyncReq, SetState, Received, Arg
    <2>2. ps' \in Keys
        BY <1>1, <2>1, UpdatesOfKeys DEF HandleSyncReq
    <2>a. ps.key \in ResumePoints /\ "START_REQ" \in Requests
        BY DEF Keys, Requests
    <2>3. HostOK(host')
        <3>1. \/ TellError
              \/ host' = host
              \/ /\ host.next = "SYNC_REQ"
                 /\ host' = [host EXCEPT !.next = "START_REQ", !.sent = FALSE, !.at = ps.key]
            BY <1>1 DEF HandleSyncReq
        <3>2. ASSUME host.next = "SYNC_REQ"
              PROVE  HostOK([host EXCEPT !.next = "START_REQ", !.sent = FALSE, !.at = ps.key])
            <4>1. host.next # "away" /\ FALSE \in BOOLEAN
                BY <3>2
            <4> QED
                BY <2>a, <4>1, UpdatesOfHost
        <3> QED
            BY <3>1, <3>2, TellErrorType
    <2>4. UNCHANGED <<ram, flash, jobs, blocked, timers>>
        BY <1>1 DEF HandleSyncReq
    <2>5. smState' \in States
        BY <2>1 DEF States
    <2> QED
        BY <2>1, <2>2, <2>3, <2>4, <2>5
<1>2. CASE HandleReady
    <2>1. Rest \in Seq(Message) /\ ps.key \in ResumePoints
        BY <1>2, RestType DEF HandleReady, Handled, Received, Keys
    <2>2. smState' \in States /\ smState' # "DATA_TRANSFER"
        BY <1>2, <2>1 DEF HandleReady, MoveToState, SetState, ResumesIn, ResumePoints, States
    <2>3. messages' \in Seq(Message)
        BY <1>2, <2>1, QueueTypes DEF HandleReady, MoveToState, SetState, Signals
    <2>4. host.at \in ResumePoints /\ HostResumes[host.at] \in Requests /\ "START" \in ResumePoints
        BY <1>2 DEF HostOK, Hosts, ResumePoints, HostResumes, Requests, Questions
    <2>5. HostOK(host')
        BY <1>2, <2>4, UpdatesOfHost DEF HandleReady
    <2>6. UNCHANGED <<ps, ram, flash, jobs, blocked, timers>>
        BY <1>2 DEF HandleReady
    <2> QED
        BY <2>2, <2>3, <2>5, <2>6
<1>3. CASE HandleDataReady
    <2>1. /\ Rest \in Seq(Message) /\ messages' = Rest
          /\ smState' \in {"DATA_TRANSFER", "DATA_READY"}
          /\ UNCHANGED <<ps, blocked, timers>>
        BY <1>3, RestType DEF HandleDataReady, Handled, Received, SetState
    <2>2. ram' = [ram EXCEPT !.data = 0] /\ 0 \in 0 .. NoData /\ NoData # 0
        BY <1>3, UpgradeAssumption DEF HandleDataReady, Header, NoData
    <2>3. ram' \in Contexts /\ ram'.data # NoData
        BY <2>2, UpdatesOfContext DEF Contexts
    <2>4. jobs' \in Seq({"erase", "hash", "copy"})
        BY <1>3, JobsType DEF HandleDataReady, EraseAllManaged
    <2>5. flash.running \in {"boot", "other", "erased"}
        BY <1>3 DEF Banks
    <2>6. flash' \in Banks
        BY <1>3, <2>5, UpdatesOfBanks DEF HandleDataReady, EraseAllManaged
    <2>7. HostOK(host')
        BY <1>3, TellType DEF HandleDataReady, Requests
    <2>8. smState' \in States
        BY <2>1 DEF States
    <2> QED
        BY <2>1, <2>3, <2>4, <2>6, <2>7, <2>8
<1>4. CASE HandleData
    <2>1. /\ Rest \in Seq(Message) /\ messages' = Rest /\ smState' = smState /\ Arg \in Files
          /\ UNCHANGED <<jobs, blocked, timers>>
        BY <1>4, RestType, MessageFacts DEF HandleData, Handled, Received, SetState, Arg
    <2>2. ram.data \in 0 .. Sections
        BY <1>4, UpgradeAssumption DEF HandleData, Footer, Contexts
    <2>3. /\ ram' = [ram EXCEPT !.data = ram.data + 1]
          /\ ram.data + 1 \in 0 .. NoData /\ ram.data + 1 # NoData
        BY <1>4, <2>2, UpgradeAssumption DEF HandleData, NoData
    <2>4. ram' \in Contexts /\ ram'.data # NoData
        BY <2>3, UpdatesOfContext DEF Contexts
    <2>5. ram.data # Header => ram.data \in 1 .. Sections
        BY <2>2, UpgradeAssumption DEF Header
    <2>6. ps' \in Keys
        BY <1>4, <2>2, UpdatesOfKeys DEF HandleData
    <2>7. flash' \in Banks
        <3>1. \/ flash' = flash
              \/ flash' = [flash EXCEPT !.other[ram.data] = Arg] /\ ram.data # Header
            BY <1>4 DEF HandleData
        <3> QED
            BY <2>1, <2>5, <3>1, SectionWritten
    <2>8. HostOK(host')
        BY <1>4, TellType DEF HandleData, Requests
    <2> QED
        BY <2>1, <2>4, <2>6, <2>7, <2>8
<1>5. CASE HandleLastData
    BY <1>5, RestType, QueueTypes, UpdatesOfContext, TellType
       DEF HandleLastData, SetState, MoveToState, Handled, Received, States, Signals,
           Requests
<1>6. CASE HandleBadData
    BY <1>6, RestType, UpdatesOfKeys, TellErrorType
       DEF HandleBadData, SetState, FatalError, Handled, Received, States, ResumePoints
<1>7. CASE StartHash
    <2>1. /\ Rest \in Seq(Message) /\ messages' = Rest /\ smState' = "DATA_HASH_CHECKING"
          /\ UNCHANGED <<ps, flash, blocked, timers, host>>
        BY <1>7, RestType DEF StartHash, Handled, Received, SetState
    <2>2. ram' \in Contexts
        BY <1>7, UpdatesOfContext DEF StartHash
    <2>3. jobs' \in Seq({"erase", "hash", "copy"})
        BY <1>7, JobsType DEF StartHash
    <2>4. smState' \in States
        BY <2>1 DEF States
    <2> QED
        BY <2>1, <2>2, <2>3, <2>4
<1>8. CASE HandleHashStatus
    BY <1>8, RestType, QueueTypes, UpdatesOfKeys, UpdatesOfContext, TellErrorType
       DEF HandleHashStatus, SetState, MoveToState, FatalError, Handled, Received, States,
           ResumePoints, Signals
<1>9. CASE HandleValidating
    <2>1. /\ messages' \in Seq(Message) /\ smState' = "VALIDATED"
          /\ UNCHANGED <<ram, flash, blocked, timers, host>>
        BY <1>9, RestType, QueueTypes
           DEF HandleValidating, Handled, Received, SetState, MoveToState, Signals
    <2>2. ps' \in Keys
        BY <1>9, UpdatesOfKeys DEF HandleValidating, ResumePoints
    <2>3. jobs' \in Seq({"erase", "hash", "copy"})
        BY <1>9, JobsType DEF HandleValidating
    <2>4. smState' \in States
        BY <2>1 DEF States
    <2> QED
        BY <2>1, <2>2, <2>3, <2>4
<1>10. CASE HandleIsCsrValidDone
    BY <1>10, RestType, TellType DEF HandleIsCsrValidDone, SetState, Received, Requests
<1>11. CASE TransferComplete
    <2>1. /\ messages' \in Seq(Message) /\ smState' = smState
          /\ UNCHANGED <<ps, ram, flash, jobs, timers>>
        BY <1>11, RestType DEF TransferComplete, Handled, Received, SetState
    <2>2. Head(messages) \in Waiting
        BY <1>11, MessageFacts DEF TransferComplete, Handled, Received, Signals, Waiting
    <2>3. blocked' \in Seq(Waiting)
        <3>1. blocked \in Seq(Waiting) /\ Append(blocked, Head(messages)) \in Seq(Waiting)
            BY <2>2
        <3>2. blocked' \in {blocked, Append(blocked, Head(messages))}
            BY <1>11 DEF TransferComplete
        <3> QED
            BY <3>1, <3>2
    <2>4. HostOK(host')
        BY <1>11, TellType DEF TransferComplete, Requests, Questions
    <2> QED
        BY <2>1, <2>3, <2>4
<1>12. CASE HandleCopyStatus
    <2>1. Rest \in Seq(Message) /\ UNCHANGED <<flash, jobs, timers>>
        BY <1>12, RestType DEF HandleCopyStatus, Received
    <2>2. /\ BlockingOpIsDone(Rest) \in Seq(Message)
          /\ blocked \o BlockingOpIsDone(Rest) \in Seq(Message)
        BY <2>1, RestType, QueueTypes
    <2>3. [ram EXCEPT !.copy_done = TRUE] \in Contexts
        BY UpdatesOfContext
    <2>4. messages' \in Seq(Message)
        BY <1>12, <2>2, QueueTypes DEF HandleCopyStatus, TrySwap, SetState, MoveToState, Signals
    <2>5. ram' \in Contexts
        <3> DEFINE c == [ram EXCEPT !.copy_done = TRUE]
        <3>1. ram' \in {c, [c EXCEPT !.is_validated = 1]}
            BY <1>12 DEF HandleCopyStatus, TrySwap
        <3> HIDE DEF c
        <3> QED
            BY <2>3, <3>1, OneOrNone, UpdatesOfContext DEF c
    <2>6. ps' \in Keys
        BY <1>12, UpdatesOfKeys DEF HandleCopyStatus, ResumePoints
    <2>7. blocked' \in Seq(Waiting)
        <3>1. blocked' \in {<<>>, blocked} /\ <<>> \in Seq(Waiting)
            BY <1>12 DEF HandleCopyStatus
        <3> QED
            BY <3>1
    <2>8. HostOK(host')
        BY <1>12, TellErrorType DEF HandleCopyStatus
    <2>9. smState' \in {smState, "SYNC"} /\ smState' \in States
        BY <1>12 DEF HandleCopyStatus, SetState, MoveToState, States
    <2>10. ram'.data = ram.data
        BY <1>12 DEF HandleCopyStatus, TrySwap, Contexts
    <2> QED
        BY <2>1, <2>4, <2>5, <2>6, <2>7, <2>8, <2>9, <2>10
<1>13. CASE HandleTransferCompleteRes
    <2>1. /\ Rest \in Seq(Message) /\ messages' \in {Rest, Append(Rest, Signal("CONTINUE"))}
          /\ smState' \in {"VALIDATED", "ABORTING", "SYNC"}
          /\ UNCHANGED <<flash, jobs, blocked>>
        BY <1>13, RestType
           DEF HandleTransferCompleteRes, Handled, Received, SetState, MoveToState,
               FatalError
    <2>2. messages' \in Seq(Message) /\ smState' \in States
        BY <2>1, RestType, QueueTypes DEF Signals, States
    <2>3. ps' \in Keys
        BY <1>13, UpdatesOfKeys DEF HandleTransferCompleteRes, FatalError, ResumePoints
    <2>4. ram' \in Contexts
        <3>1. ram' \in {ram, [ram EXCEPT !.is_validated = 0]}
            BY <1>13 DEF HandleTransferCompleteRes
        <3> QED
            BY <3>1, OneOrNone, UpdatesOfContext
    <2>5. timers' \in SUBSET TimerIds
        BY <1>13 DEF HandleTransferCompleteRes, TimerIds
    <2>6. HostOK(host')
        BY <1>13, TellErrorType DEF HandleTransferCompleteRes, FatalError
    <2> QED
        BY <2>1, <2>2, <2>3, <2>4, <2>5, <2>6
<1>14. CASE AskToApply
    BY <1>14, RestType, QueueTypes DEF AskToApply, SetState, Handled, Received, Signals
<1>15. CASE HandleReboot
    <2>1. Rest \in Seq(Message) /\ UNCHANGED <<smState, ps, flash, jobs, blocked, timers, host>>
        BY <1>15, RestType DEF HandleReboot, Handled, Received
    <2>2. messages' \in Seq(Message)
        BY <1>15, <2>1, QueueTypes DEF HandleReboot, TrySwap, Signals
    <2>3. ram' \in Contexts /\ ram'.data = ram.data
        BY <1>15, UpdatesOfContext DEF HandleReboot, TrySwap, Contexts
    <2> QED
        BY <1>15, <2>1, <2>2, <2>3 DEF TypeInv
<1>16. CASE SwapTry
    <2>1. PICK bank \in {"boot", "other"} : Reset(ps, [flash EXCEPT !.running = bank])
        BY <1>16 DEF SwapTry
    <2>2. HostOK(host')
        BY <1>16, UpdatesOfHost DEF SwapTry
    <2>3. [flash EXCEPT !.running = bank] \in Banks
        BY UpdatesOfBanks
    <2> QED
        BY <2>1, <2>2, <2>3, ResetType
<1>17. CASE HandleInProgressRes
    BY <1>17, RestType, QueueTypes
       DEF HandleInProgressRes, SetState, MoveToState, Handled, Received, States, Signals
<1>18. CASE HandleReconnectionTimeout
    <2>1. FromBootBank \in Banks
        BY <1>18, UpdatesOfBanks DEF FromBootBank
    <2>2. [ps EXCEPT !.key = "ERROR"] \in Keys
        BY <1>18, UpdatesOfKeys DEF ResumePoints
    <2> QED
        BY <1>18, <2>1, <2>2, BootType DEF HandleReconnectionTimeout
<1>19. CASE HandleCommitVerification
    <2>1. /\ messages' \in Seq(Message) /\ smState' \in {"COMMIT_CONFIRM", "ABORTING"}
          /\ UNCHANGED <<ram, flash, jobs, blocked, timers>>
        BY <1>19, RestType DEF HandleCommitVerification, Handled, Received, SetState, FatalError
    <2>2. ps' \in Keys
        BY <1>19, UpdatesOfKeys DEF HandleCommitVerification, FatalError, ResumePoints
    <2>3. HostOK(host')
        BY <1>19, TellType, TellErrorType
           DEF HandleCommitVerification, FatalError, Requests, Questions
    <2>4. smState' \in States
        BY <2>1 DEF States
    <2> QED
        BY <2>1, <2>2, <2>3, <2>4
<1>20. CASE HandleCommitConfirm
    BY <1>20, RestType, QueueTypes, UpdatesOfBanks
       DEF HandleCommitConfirm, SetState, MoveToState, States, Signals
<1>21. CASE HandleCommitRefused
    BY <1>21, RestType, UpdatesOfContext
       DEF HandleCommitRefused, SetState, Handled, Received, States
<1>22. CASE HandleCommit
    BY <1>22, RestType, QueueTypes, UpdatesOfKeys
       DEF HandleCommit, SetState, Handled, Received, ResumePoints, Signals
<1>23. CASE HandleAbortReq
    <2>1. /\ messages' \in Seq(Message) /\ smState' = smState
          /\ UNCHANGED <<ps, flash, jobs, blocked>>
        BY <1>23, RestType, QueueTypes DEF HandleAbortReq, SMAbort, Received, SetState, Signals
    <2>2. [ram EXCEPT !.asynchronous_abort = ~ram.revert] \in Contexts
        BY UpdatesOfContext
    <2>3. ram' \in Contexts /\ ram'.data = ram.data
        <3> DEFINE c == [ram EXCEPT !.asynchronous_abort = ~ram.revert]
        <3>1. c \in Contexts /\ c.data = ram.data /\ ram' = [c EXCEPT !.is_validated = 0]
            BY <1>23, <2>2 DEF HandleAbortReq, SMAbort, Contexts
        <3> HIDE DEF c
        <3>2. ram'.data = c.data
            BY <3>1 DEF Contexts
        <3> QED
            BY <3>1, <3>2, OneOrNone, UpdatesOfContext
    <2>4. HostOK(host')
        BY <1>23, TellAbortedType DEF HandleAbortReq
    <2>5. timers' \in SUBSET TimerIds
        BY <1>23 DEF HandleAbortReq, TimerIds
    <2> QED
        BY <2>1, <2>3, <2>4, <2>5
<1>24. CASE HandleErrorWarnRes
    <2>1. /\ messages' \in Seq(Message) /\ smState' = smState
          /\ UNCHANGED <<ps, flash, jobs, blocked, timers, host>>
        BY <1>24, RestType, QueueTypes
           DEF HandleErrorWarnRes, SMAbort, Handled, Received, SetState, Signals
    <2>2. ram' \in Contexts /\ ram'.data = ram.data
        BY <1>24, UpdatesOfContext DEF HandleErrorWarnRes, SMAbort, Contexts
    <2> QED
        BY <1>24, <2>1, <2>2 DEF TypeInv
<1>25. CASE HandleDelayRevertReboot
    <2>1. FromBootBank \in Banks
        BY UpdatesOfBanks DEF FromBootBank
    <2> QED
        BY <1>25, <2>1, BootType, UpdatesOfKeys DEF HandleDelayRevertReboot
<1>26. CASE HandleBlockingInd
    BY <1>26, RestType, QueueTypes DEF HandleBlockingInd, SetState, Received, Signals
<1>27. CASE HandleErase
    <2>1. /\ Rest \in Seq(Message) /\ smState' = "SYNC"
          /\ messages' \in {Rest, BlockingOpIsDone(Rest)}
          /\ ps' = ClearedKeys /\ UNCHANGED <<blocked, timers>>
        BY <1>27, RestType DEF HandleErase, Received, SetState
    <2>2. messages' \in Seq(Message) /\ smState' \in States
        BY <2>1, RestType, QueueTypes DEF States
    <2>3. jobs' \in Seq({"erase", "hash", "copy"})
        BY <1>27, JobsType DEF HandleErase, EraseAllManaged
    <2>4. flash.running \in {"boot", "other", "erased"}
        BY <1>27 DEF Banks
    <2>5. flash' \in Banks
        BY <1>27, <2>4, UpdatesOfBanks DEF HandleErase, EraseAllManaged
    <2>a. NoData \in 0 .. NoData
        BY UpgradeAssumption DEF NoData
    <2>6. ram' \in Contexts
        BY <1>27, <2>a, UpdatesOfContext DEF HandleErase
    <2>7. HostOK(host')
        BY <1>27, UpdatesOfHost DEF HandleErase
    <2> QED
        BY <2>1, <2>2, <2>3, <2>5, <2>6, <2>7, UpdatesOfKeys
<1>28. CASE HandleEraseStatus
    <2> DEFINE queue == BlockingOpIsDone(Rest)
    <2>1. Rest \in Seq(Message) /\ queue \in Seq(Message)
        BY <1>28, RestType, QueueTypes DEF HandleEraseStatus, Received
    <2>2. CASE Boot(ps, FromBootBank)
        <3>1. FromBootBank \in Banks
            BY UpdatesOfBanks DEF FromBootBank
        <3> QED
            BY <2>2, <3>1, BootType
    <2>3. CASE ~Boot(ps, FromBootBank)
        <3>1. /\ messages' = queue /\ UNCHANGED <<flash, jobs, blocked, timers>>
              /\ smState' \in {smState, "SYNC", "ABORTING", "DATA_TRANSFER"}
              /\ smState' = "DATA_TRANSFER" => ram.data # NoData
            BY <1>28, <2>3 DEF HandleEraseStatus, SetState, FatalError
        <3>2. ram' \in Contexts /\ ram'.data = ram.data
            BY <1>28, <2>3 DEF HandleEraseStatus, Contexts
        <3>3. ps' \in Keys
            BY <1>28, <2>3, UpdatesOfKeys DEF HandleEraseStatus, FatalError, ResumePoints
        <3>4. HostOK(host')
            BY <1>28, <2>3, TellType, TellErrorType, TellAbortedType
               DEF HandleEraseStatus, FatalError, Requests
        <3>5. smState' \in States
            BY <3>1 DEF States
        <3> HIDE DEF queue
        <3> QED
            BY <2>1, <3>1, <3>2, <3>3, <3>4, <3>5
    <2> QED
        BY <2>2, <2>3
<1>29. CASE Ignore
    BY <1>29, RestType DEF Ignore, SetState
<1>30. CASE JobEnds
    <2>1. /\ UNCHANGED <<smState, ps, ram, blocked, timers, host>>
          /\ jobs' \in Seq({"erase", "hash", "copy"})
        BY <1>30, JobsType DEF JobEnds
    <2>a. ASSUME NEW id \in Statuses, NEW status \in {Failed, Done},
                 messages' = Append(messages, Msg(id, status))
          PROVE  messages' \in Seq(Message)
        <3>1. Msg(id, status) \in Message
            BY <2>a, MessageFacts DEF Failed, Done
        <3> QED
            BY <2>a, <3>1
    <2>2. messages' \in Seq(Message)
        BY <1>30, <2>a DEF JobEnds, Statuses
    <2>3. flash' \in Banks
        <3>1. ASSUME NEW status, flash' = [flash EXCEPT !.copied = flash.copied \/ status = Done]
              PROVE  flash' \in Banks
            <4>1. (flash.copied \/ status = Done) \in BOOLEAN
                OBVIOUS
            <4> QED
                BY <3>1, <4>1, UpdatesOfBanks
        <3> QED
            BY <1>30, <3>1, EraseSomeType DEF JobEnds
    <2> QED
        BY <2>1, <2>2, <2>3 DEF TypeInv
<1>31. CASE TimerExpires
    BY <1>31, QueueTypes DEF TimerExpires, Signals, TimerIds
<1>32. CASE Connects
    <2>1. PICK f \in Files : host' = [host EXCEPT !.next = "SYNC_REQ", !.file = f, !.left = @ - 1]
        BY <1>32 DEF Connects
    <2>2. host.left \in Nat /\ host.left > 0
        BY <1>32 DEF Connects, HostOK, Hosts
    <2>3. host.left - 1 \in Nat
        BY <2>2
    <2>4. HostOK(host')
        BY <2>1, <2>3 DEF HostOK, Hosts, Requests
    <2>5. UNCHANGED <<smState, ps, ram, flash, jobs, messages, blocked, timers>>
        BY <1>32, RestType, QueueTypes DEF Connects
    <2> QED
        BY <2>4, <2>5
<1>33. CASE Disconnects
    BY <1>33, UpdatesOfHost DEF Disconnects
<1>34. CASE HostAborts
    BY <1>34, UpdatesOfHost DEF HostAborts, Requests
<1>35. CASE HostSends
    <2>1. PICK arg \in HostArgs(host.next) :
            /\ messages' = Append(messages, Msg(host.next, arg))
            /\ host' = IF host.next = "ERRORWARN_RES" \/ (host.next \in Questions /\ arg = No)
                       THEN [host EXCEPT !.next = "ABORT_REQ"] ELSE [host EXCEPT !.sent = TRUE]
        BY <1>35, RestType, QueueTypes, MessageFacts DEF HostSends
    <2>2. /\ host.next \in Requests \ {"away", "COMPLETE"} /\ host.file \in Files
          /\ UNCHANGED <<smState, ps, ram, flash, jobs, blocked, timers>>
        BY <1>35 DEF HostSends, HostOK, Hosts
    <2>3. Msg(host.next, arg) \in Message
        BY <2>2, MessageFacts DEF HostArgs, Requests, Signals, Signal, Yes, No
    <2>4. messages' \in Seq(Message)
        BY <2>1, <2>3, RestType, QueueTypes
    <2>5. HostOK(host')
        BY <2>1, <2>2, UpdatesOfHost DEF Requests
    <2> QED
        BY <2>2, <2>4, <2>5
<1>36. CASE PowerLoss
    <2>1. PICK sections \in SUBSET (1 .. Sections) :
                Boot(ps, [EraseSome(sections) EXCEPT !.running = "boot"])
        BY <1>36 DEF PowerLoss
    <2>2. EraseSome(sections) \in Banks
        BY UpdatesOfBanks, EraseSomeType
    <2>3. [EraseSome(sections) EXCEPT !.running = "boot"] \in Banks
        BY <2>2, UpdatesOfBanks
    <2> QED
        BY <2>1, <2>3, BootType
<1>37. CASE DiesWriting
    <2>1. Arg \in Files /\ ram.data \in 1 .. Sections
        BY <1>37, MessageFacts DEF DiesWriting, Handled, Received, Arg
    <2>2. FromBootBank \in Banks
        BY UpdatesOfBanks DEF FromBootBank
    <2>3. [FromBootBank EXCEPT !.other[ram.data] = Arg] \in Banks
        BY <2>1, <2>2, SectionWritten
    <2> QED
        BY <1>37, <2>3, BootType DEF DiesWriting
<1>38. CASE DiesErasing
    <2>1. ram.data \in 1 .. Sections
        BY <1>38 DEF DiesErasing
    <2>2. FromBootBank \in Banks
        BY UpdatesOfBanks DEF FromBootBank
    <2>3. [ps EXCEPT !.closed = ram.data] \in Keys
        <3>1. ram.data \in 0 .. Sections
            BY <2>1, UpgradeAssumption
        <3> QED
            BY <3>1, UpdatesOfKeys
    <2> QED
        BY <1>38, <2>2, <2>3, BootType DEF DiesErasing
<1> QED
    BY <1>1, <1>2, <1>3, <1>4, <1>5, <1>6, <1>7, <1>8, <1>9, <1>10, <1>11, <1>12, <1>13, <1>14,
       <1>15, <1>16, <1>17, <1>18, <1>19, <1>20, <1>21, <1>22, <1>23, <1>24, <1>25, <1>26,
       <1>27, <1>28, <1>29, <1>30, <1>31, <1>32, <1>33, <1>34, <1>35, <1>36, <1>37, <1>38
       DEF Next, Deliver

(* The first state has the types. *)
LEMMA TypeInit ==
    ASSUME Init PROVE TypeInv
<1>1. smState \in States /\ smState # "DATA_TRANSFER" /\ ps \in Keys /\ timers \in SUBSET TimerIds
    <2>1. 0 \in 0 .. Sections
        BY UpgradeAssumption
    <2> QED
        BY <2>1 DEF Init, States, Keys, ClearedKeys, ResumePoints, TimerIds
<1>2. ram \in Contexts
    BY OneOrNone, UpgradeAssumption DEF Init, RamInit, Contexts, NoData
<1>3. flash \in Banks
    BY DEF Init, Banks, Images
<1>4. HostOK(host)
    BY UpgradeAssumption DEF Init, Away, HostOK, Hosts, Requests, ResumePoints
<1> QED
    BY <1>1, <1>2, <1>3, <1>4 DEF Init, TypeInv

(* The state always has the types of the context and the keys, and data is *)
(* only handled while the parser has a context.                            *)
THEOREM UpgradeTypes == Spec => []TypeOK
<1>1. Init => TypeInv
    BY TypeInit
<1>2. TypeInv /\ [Next]_vars => TypeInv'
    <2>1. CASE UNCHANGED vars
        BY <2>1 DEF vars, TypeInv
    <2> QED
        BY <2>1, TypeStep
<1>3. TypeInv => TypeOK
    BY DEF TypeInv, TypeOK, Keys, Contexts, Banks, TimerIds
<1> QED
    BY <1>1, <1>2, <1>3, PTL DEF Spec

----------------------------------------------------------------------------
(* What the resume point means while messages and jobs are outstanding. *)

Kind(ids) == {m \in Message : m.id \in ids}

Data == Kind({"DATA"})
Starts == Kind({"START_REQ"})
Steps == Kind({"SYNC_REQ", "START_REQ", "DATA"})
HashDone == {m \in Kind({"HASH_STATUS"}) : m.arg = Done}
EraseStatus == Kind({"ERASE_STATUS"})
CopyStatus == Kind({"COPY_STATUS"})
ShutAudio == Kind({"SHUT_AUDIO"})
Continue == Kind({"CONTINUE"})

Past == {"PRE_VALIDATE", "PRE_REBOOT", "POST_REBOOT", "ERASE"}
Late == {"PRE_REBOOT", "POST_REBOOT", "ERASE", "ERROR"}

(* The states go with their resume points. *)
KeyInv ==
    /\ smState = "ABORTING" => ps.key = "ERROR"
    /\ smState \in {"DATA_READY", "DATA_TRANSFER", "DATA_HASH_CHECKING"} => ps.key = "START"
    /\ smState = "VALIDATING" => ps.key = "PRE_VALIDATE"
    /\ smState = "VALIDATED" => ps.key \in {"PRE_REBOOT", "POST_REBOOT"}
    /\ smState \in {"COMMIT_HOST_CONTINUE", "COMMIT_VERIFICATION", "COMMIT_CONFIRM"}
          => ps.key = "POST_REBOOT"
    /\ smState = "COMMIT" => ps.key \in {"POST_REBOOT", "ERASE"}
    /\ ps.key \in Past => ps.closed = Sections
    /\ smState \notin {"SYNC", "ABORTING"} \/ ps.upgrading => ps.id \in Files
    /\ ps.closed > 0 => ps.upgrading

(* Sections are received in order, and never while they are to be erased. *)
DataInv ==
    /\ In("erase", jobs) => ps.closed = 0
    /\ ram.data \in 1 .. Footer => ps.upgrading /\ ps.closed >= ram.data - 1
    /\ smState = "DATA_HASH_CHECKING" => ps.closed = Sections

(* Of the messages that bring a transfer forward only one is queued, for   *)
(* the host sends the next one when it has an answer.                      *)
HostInv ==
    /\ NoneAhead(Steps, Steps, messages)
    /\ host.next \in {"SYNC_REQ", "START_REQ", "DATA"} /\ ~host.sent => ~Has(Steps, messages)
    /\ host.next = "START_DATA_REQ" => ~Has(Steps, messages)
    /\ smState \in {"READY", "DATA_READY"}
          => ~Has(Data, messages) /\ (host.next = "DATA" => host.sent)

(* A message of B that is queued comes before the transfer is complete. *)
Before(B) ==
    \/ smState = "SYNC"
    \/ smState \in {"READY", "DATA_READY", "DATA_TRANSFER"} /\ NoneAhead(Data, B, messages)

NotLast(B) == Before(B) \/ (smState = "DATA_TRANSFER" /\ ram.data < Footer)

(* The hash that is reported is that of the file that was received, or the *)
(* report comes too early to be believed.                                  *)
HashInv ==
    Has(HashDone, messages) =>
        \/ ps.key # "START"
        \/ ps.closed = Sections /\ Whole(flash.other, ps.id)
        \/ NotLast(HashDone)

(* No erase that was reported is news to an upgrade that has come further. *)
EraseInv ==
    Has(EraseStatus, messages) =>
        \/ ps.key = "ERROR"
        \/ ps.key = "START" /\ NotLast(EraseStatus)

(* A copy is not in progress while another file is received. *)
CopyInv ==
    /\ In("copy", jobs) => ~Has(EraseStatus, messages)
    /\ NoneAhead({"erase"}, {"copy"}, jobs)
    /\ NoneAhead(EraseStatus, CopyStatus, messages)
    /\ In("copy", jobs) \/ Has(CopyStatus, messages) =>
          \/ ps.key \in Late
          \/ ps.key = "START" /\ ps.closed = 0 /\ smState \in {"SYNC", "READY", "DATA_READY"}
    /\ Has(ShutAudio, messages) =>
          \/ ps.key \in Late
          \/ ps.key = "START" /\ ps.closed = 0 /\ Before(ShutAudio)

Quiet == ~In("copy", jobs) /\ ~Has(CopyStatus, messages) /\ ~Has(ShutAudio, messages)

(* While the new image is tried, nothing works on the banks, and no        *)
(* UPGRADE_INTERNAL_CONTINUE takes the place of the host's word.           *)
TriedInv ==
    flash.running = "other" =>
        /\ ~In("erase", jobs) /\ ~In("copy", jobs)
        /\ ~Has(EraseStatus, messages) /\ ~Has(CopyStatus, messages)
        /\ ps.key # "PRE_VALIDATE"
        /\ ps.key = "START" => ps.closed = 0 /\ smState \in {"SYNC", "READY", "DATA_READY"}
        /\ smState = "READY" => /\ NoneAhead(Starts, ShutAudio, messages)
                                /\ NoneAhead(Starts, Continue, messages)
        /\ smState \in {"COMMIT_HOST_CONTINUE", "COMMIT_VERIFICATION", "COMMIT_CONFIRM"}
              => ~Has(ShutAudio, messages)
        /\ smState \in {"COMMIT_HOST_CONTINUE", "COMMIT_CONFIRM"} => ~Has(Continue, messages)
        /\ smState = "COMMIT_VERIFICATION" => NoneAhead(Continue, Continue, messages)

ImageInv ==
    /\ ps.key \in {"PRE_VALIDATE", "PRE_REBOOT"} => Whole(flash.other, ps.id)
    /\ ps.key = "POST_REBOOT" =>
          \/ Whole(flash.other, ps.id)
          \/ /\ Whole(flash.boot, ps.id) /\ flash.running = "boot" /\ Quiet
             /\ smState \notin {"VALIDATED", "COMMIT_CONFIRM"}
    /\ ps.key = "ERASE" \/ smState = "COMMIT" => Whole(flash.boot, ps.id)
    /\ smState = "COMMIT_CONFIRM" => flash.running = "other"
    /\ BootImageOneFile

UpgradeInv ==
    KeyInv /\ DataInv /\ HostInv /\ HashInv /\ EraseInv /\ CopyInv /\ TriedInv /\ ImageInv

(* The queue r has no message that matters here and that q has not, and    *)
(* the others keep their order.                                            *)
Fewer(r, q) ==
    /\ Has(Steps, r) => Has(Steps, q)
    /\ Has(Data, r) => Has(Data, q)
    /\ Has(HashDone, r) => Has(HashDone, q)
    /\ Has(EraseStatus, r) => Has(EraseStatus, q)
    /\ Has(CopyStatus, r) => Has(CopyStatus, q)
    /\ Has(ShutAudio, r) => Has(ShutAudio, q)
    /\ NoneAhead(Steps, Steps, q) => NoneAhead(Steps, Steps, r)
    /\ NoneAhead(Data, HashDone, q) => NoneAhead(Data, HashDone, r)
    /\ NoneAhead(Data, EraseStatus, q) => NoneAhead(Data, EraseStatus, r)
    /\ NoneAhead(Data, ShutAudio, q) => NoneAhead(Data, ShutAudio, r)
    /\ NoneAhead(EraseStatus, CopyStatus, q) => NoneAhead(EraseStatus, CopyStatus, r)
    /\ NoneAhead(Starts, ShutAudio, q) => NoneAhead(Starts, ShutAudio, r)

FewerContinues(r, q) ==
    /\ Has(Continue, r) => Has(Continue, q)
    /\ NoneAhead(Starts, Continue, q) => NoneAhead(Starts, Continue, r)
    /\ NoneAhead(Continue, Continue, q) => NoneAhead(Continue, Continue, r)

(* The first message of q was delivered: those it was not to be ahead of   *)
(* are not in r.                                                           *)
Delivered(r, q) ==
    /\ Head(q) \in Steps /\ NoneAhead(Steps, Steps, q) => ~Has(Steps, r)
    /\ Head(q) \in Data /\ NoneAhead(Data, HashDone, q) => ~Has(HashDone, r)
    /\ Head(q) \in Data /\ NoneAhead(Data, EraseStatus, q) => ~Has(EraseStatus, r)
    /\ Head(q) \in Data /\ NoneAhead(Data, ShutAudio, q) => ~Has(ShutAudio, r)
    /\ Head(q) \in EraseStatus /\ NoneAhead(EraseStatus, CopyStatus, q) => ~Has(CopyStatus, r)
    /\ Head(q) \in Starts /\ NoneAhead(Starts, ShutAudio, q) => ~Has(ShutAudio, r)

DeliveredContinues(r, q) ==
    /\ Head(q) \in Starts /\ NoneAhead(Starts, Continue, q) => ~Has(Continue, r)
    /\ Head(q) \in Continue /\ NoneAhead(Continue, Continue, q) => ~Has(Continue, r)

(* One message less. *)
LEMMA FewerTail ==
    ASSUME NEW q \in Seq(Message), q # <<>>
    PROVE  /\ Fewer(Tail(q), q) /\ FewerContinues(Tail(q), q)
           /\ Delivered(Tail(q), q) /\ DeliveredContinues(Tail(q), q)
<1> DEFINE t == Tail(q)
           h == Head(q)
<1>1. \A A, B : /\ Has(A, q) <=> h \in A \/ Has(A, t)
                /\ NoneAhead(A, B, q) => NoneAhead(A, B, t)
                /\ NoneAhead(A, B, q) /\ h \in A => ~Has(B, t)
    BY HasTail
<1> HIDE DEF t, h
<1>2. Fewer(t, q) /\ FewerContinues(t, q)
    BY <1>1 DEF Fewer, FewerContinues
<1>3. Delivered(t, q) /\ DeliveredContinues(t, q)
    BY <1>1 DEF Delivered, DeliveredContinues, h
<1> QED
    BY <1>2, <1>3 DEF t

(* Messages are cancelled. *)
LEMMA FewerThinned ==
    ASSUME NEW q \in Seq(Message), NEW r \in Seq(Message), Thinned(r, q)
    PROVE  Fewer(r, q) /\ FewerContinues(r, q)
<1>1. \A A, B : /\ Has(A, r) => Has(A, q)
                /\ NoneAhead(A, B, q) => NoneAhead(A, B, r)
    BY HasThinned
<1> QED
    BY <1>1 DEF Fewer, FewerContinues

(* A message of no interest is sent. *)
LEMMA FewerAppend ==
    ASSUME NEW q \in Seq(Message), NEW m \in Message,
           m \notin Steps, m \notin HashDone, m \notin EraseStatus, m \notin CopyStatus,
           m \notin ShutAudio
    PROVE  /\ Fewer(Append(q, m), q)
           /\ m \notin Continue => FewerContinues(Append(q, m), q)
<1> DEFINE r == Append(q, m)
<1>1. \A A, B : /\ Has(A, r) <=> Has(A, q) \/ m \in A
                /\ NoneAhead(A, B, q) /\ (m \in B => ~Has(A, q)) => NoneAhead(A, B, r)
    BY HasAppend
<1>2. m \notin Data
    BY DEF Data, Steps, Kind
<1> HIDE DEF r
<1> QED
    BY <1>1, <1>2 DEF Fewer, FewerContinues, r

(* The messages that waited for the copy come back. *)
LEMMA FewerWaiting ==
    ASSUME NEW q \in Seq(Message), NEW b \in Seq(Waiting)
    PROVE  Fewer(b \o q, q)
<1> DEFINE r == b \o q
<1>1. b \in Seq(Message)
    BY MessageFacts DEF Waiting, Signals
<1>2. \A A, B : /\ Has(A, r) <=> Has(A, b) \/ Has(A, q)
                /\ NoneAhead(A, B, q) /\ ~Has(A, b) => NoneAhead(A, B, r)
    BY <1>1, HasConcat
<1>3. \A w \in Waiting : /\ w \notin Steps /\ w \notin Data /\ w \notin Starts /\ w \notin HashDone
                         /\ w \notin EraseStatus /\ w \notin CopyStatus /\ w \notin ShutAudio
    BY DEF Waiting, Signal, Msg, Steps, Data, Starts, HashDone, EraseStatus, CopyStatus,
           ShutAudio, Kind
<1>4. /\ ~Has(Steps, b) /\ ~Has(Data, b) /\ ~Has(Starts, b) /\ ~Has(HashDone, b)
      /\ ~Has(EraseStatus, b) /\ ~Has(CopyStatus, b) /\ ~Has(ShutAudio, b)
    BY <1>3 DEF Has
<1> HIDE DEF r
<1> QED
    BY <1>2, <1>4 DEF Fewer, r

(* One after the other. *)
LEMMA FewerFewer ==
    ASSUME NEW q, NEW r, NEW t
    PROVE  /\ Fewer(r, q) /\ Fewer(t, r) => Fewer(t, q)
           /\ FewerContinues(r, q) /\ FewerContinues(t, r) => FewerContinues(t, q)
           /\ Delivered(r, q) /\ Fewer(t, r) => Delivered(t, q)
           /\ DeliveredContinues(r, q) /\ FewerContinues(t, r) => DeliveredContinues(t, q)
<1>1. Fewer(r, q) /\ Fewer(t, r) => Fewer(t, q)
    BY DEF Fewer
<1>2. FewerContinues(r, q) /\ FewerContinues(t, r) => FewerContinues(t, q)
    BY DEF FewerContinues
<1>3. Delivered(r, q) /\ Fewer(t, r) => Delivered(t, q)
    BY DEF Fewer, Delivered
<1>4. DeliveredContinues(r, q) /\ FewerContinues(t, r) => DeliveredContinues(t, q)
    BY DEF FewerContinues, DeliveredContinues
<1> QED
    BY <1>1, <1>2, <1>3, <1>4

(* The queue once a message was delivered, and maybe others were sent that *)
(* do not matter here; Moved allows UPGRADE_INTERNAL_CONTINUE among them.  *)
Moved(r, q) == r \in Seq(Message) /\ Fewer(r, q) /\ Delivered(r, q)
Went(r, q) == Moved(r, q) /\ FewerContinues(r, q) /\ DeliveredContinues(r, q)

(* The queue behind the message that is delivered, also if others are      *)
(* cancelled.                                                              *)
LEMMA RestWent ==
    ASSUME messages \in Seq(Message), messages # <<>>
    PROVE  /\ Went(Rest, messages)
           /\ Went(BlockingOpIsDone(Rest), messages)
           /\ Went(NoReconnectionTimeout(Rest), messages)
<1>1. Rest \in Seq(Message) /\ Went(Rest, messages)
    BY RestType, FewerTail DEF Rest, Went, Moved
<1>2. ASSUME NEW r \in Seq(Message), Thinned(r, Rest) PROVE Went(r, messages)
    BY <1>1, <1>2, FewerThinned, FewerFewer DEF Went, Moved
<1>3. ASSUME NEW T PROVE CancelAll(Rest, T) \in Seq(Message) /\ Thinned(CancelAll(Rest, T), Rest)
    BY <1>1, CancelAllThins
<1> QED
    BY <1>1, <1>2, <1>3 DEF BlockingOpIsDone, NoReconnectionTimeout

(* A message of no interest is sent. *)
LEMMA WentAppend ==
    ASSUME NEW q, NEW r, Went(r, q), NEW id \in {"APPLY_IND", "REBOOT", "BLOCKING_IND", "ERASE"}
    PROVE  Went(Append(r, Signal(id)), q)
<1> DEFINE m == Signal(id)
           t == Append(r, m)
<1>1. /\ m \in Message /\ m \notin Steps /\ m \notin HashDone /\ m \notin EraseStatus
      /\ m \notin CopyStatus /\ m \notin ShutAudio /\ m \notin Continue
    BY MessageFacts
       DEF Signals, Signal, Msg, Steps, HashDone, EraseStatus, CopyStatus, ShutAudio,
           Continue, Kind
<1> HIDE DEF m
<1>2. r \in Seq(Message)
    BY DEF Went, Moved
<1>3. t \in Seq(Message) /\ Fewer(t, r) /\ FewerContinues(t, r)
    BY <1>1, <1>2, FewerAppend
<1> HIDE DEF t
<1> QED
    BY <1>3, FewerFewer DEF Went, Moved, t, m

(* UPGRADE_INTERNAL_CONTINUE is sent. *)
LEMMA MovedAppend ==
    ASSUME NEW q, NEW r, Moved(r, q)
    PROVE  Moved(Append(r, Signal("CONTINUE")), q)
<1> DEFINE m == Signal("CONTINUE")
           t == Append(r, m)
<1>1. /\ m \in Message /\ m \notin Steps /\ m \notin HashDone /\ m \notin EraseStatus
      /\ m \notin CopyStatus /\ m \notin ShutAudio
    BY MessageFacts
       DEF Signals, Signal, Msg, Steps, HashDone, EraseStatus, CopyStatus, ShutAudio, Kind
<1> HIDE DEF m
<1>2. r \in Seq(Message)
    BY DEF Moved
<1>3. t \in Seq(Message) /\ Fewer(t, r)
    BY <1>1, <1>2, FewerAppend
<1> HIDE DEF t
<1> QED
    BY <1>3, FewerFewer DEF Moved, t, m

(* The host keeps to what it was about to do, or turns to something that   *)
(* does not bring the transfer forward.                                    *)
LEMMA HostSteady ==
    ASSUME HostInv, Fewer(messages', messages),
           \/ host' = host
           \/ host'.next \notin {"SYNC_REQ", "START_REQ", "DATA", "START_DATA_REQ"},
           smState' = smState \/ smState' \notin {"READY", "DATA_READY"}
    PROVE  HostInv'
    BY DEF HostInv, Fewer

(* A step that leaves the state machine and the banks as they are. *)
LEMMA Steady ==
    ASSUME UpgradeInv, UNCHANGED <<smState, ps, flash>>, ram'.data = ram.data,
           In("erase", jobs') = In("erase", jobs), In("copy", jobs') = In("copy", jobs),
           NoneAhead({"erase"}, {"copy"}, jobs'),
           Fewer(messages', messages),
           flash.running = "other" => FewerContinues(messages', messages), HostInv'
    PROVE  UpgradeInv'
<1>1. KeyInv' /\ DataInv'
    BY DEF UpgradeInv, KeyInv, DataInv
<1>2. HashInv'
    BY DEF UpgradeInv, HashInv, NotLast, Before, Fewer
<1>3. EraseInv'
    BY DEF UpgradeInv, EraseInv, NotLast, Before, Fewer
<1>4. CopyInv'
    BY DEF UpgradeInv, CopyInv, Before, Fewer
<1>5. TriedInv'
    BY DEF UpgradeInv, TriedInv, Fewer, FewerContinues
<1>6. ImageInv'
    BY DEF UpgradeInv, ImageInv, Quiet, Fewer, BootImageOneFile
<1> QED
    BY <1>1, <1>2, <1>3, <1>4, <1>5, <1>6 DEF UpgradeInv

(* UpgradeFatalError *)
LEMMA Aborting ==
    ASSUME TypeInv, UpgradeInv, smState' = "ABORTING", ps' = [ps EXCEPT !.key = "ERROR"],
           UNCHANGED <<flash, jobs>>, ram'.data = ram.data,
           Fewer(messages', messages), HostInv'
    PROVE  UpgradeInv'
<1>1. /\ ps'.key = "ERROR" /\ ps'.id = ps.id /\ ps'.upgrading = ps.upgrading
      /\ ps'.closed = ps.closed
    BY DEF TypeInv, Keys
<1>2. KeyInv' /\ DataInv'
    BY <1>1 DEF UpgradeInv, KeyInv, DataInv, Past
<1>3. HashInv' /\ EraseInv'
    BY <1>1 DEF HashInv, EraseInv
<1>4. CopyInv'
    BY <1>1 DEF UpgradeInv, CopyInv, Fewer, Late
<1>5. TriedInv'
    BY <1>1 DEF UpgradeInv, TriedInv, Fewer
<1>6. ImageInv'
    BY <1>1 DEF UpgradeInv, ImageInv, BootImageOneFile
<1> QED
    BY <1>2, <1>3, <1>4, <1>5, <1>6 DEF UpgradeInv

(* A reset. *)
LEMMA Restarted ==
    ASSUME NEW keys \in Keys, NEW banks \in Banks, Reset(keys, banks), host'.next = "away",
           keys.key \in Past => keys.closed = Sections,
           keys.closed > 0 => keys.upgrading,
           keys.upgrading => keys.id \in Files,
           banks.running = "other" =>
                keys.key # "PRE_VALIDATE" /\ (keys.key = "START" => keys.closed = 0),
           keys.key \in {"PRE_VALIDATE", "PRE_REBOOT"} => Whole(banks.other, keys.id),
           keys.key = "POST_REBOOT" =>
                \/ Whole(banks.other, keys.id)
                \/ Whole(banks.boot, keys.id) /\ banks.running = "boot",
           keys.key = "ERASE" => Whole(banks.boot, keys.id),
           \E file \in Files \cup {Factory} : Whole(banks.boot, file)
    PROVE  UpgradeInv'
<1>1. /\ ps' = keys /\ flash' = banks /\ jobs' = <<>> /\ messages' = <<>>
      /\ keys.key = "POST_REBOOT" => smState' = "COMMIT_HOST_CONTINUE"
      /\ keys.key = "ERROR" => smState' = "ABORTING"
      /\ keys.key \notin {"POST_REBOOT", "ERROR"} => smState' = "SYNC"
    BY DEF Reset
<1>2. ~Has(Steps, messages') /\ ~Has(Data, messages') /\ ~Has(HashDone, messages')
      /\ ~Has(EraseStatus, messages') /\ ~Has(CopyStatus, messages') /\ ~Has(ShutAudio, messages')
      /\ ~Has(Continue, messages') /\ ~Has(Starts, messages')
    BY <1>1, NoneInEmpty
<1>3. /\ NoneAhead(Steps, Steps, messages') /\ NoneAhead(EraseStatus, CopyStatus, messages')
    BY <1>2, NoneToBeAhead
<1>4. NoneAhead({"erase"}, {"copy"}, jobs') /\ ~In("erase", jobs') /\ ~In("copy", jobs')
    BY <1>1 DEF NoneAhead, In
<1>5. ram'.data \notin 1 .. Footer
    BY UpgradeAssumption DEF Reset, RamInit, NoData, Footer
<1>6. keys.key \in Past => keys.id \in Files
    BY UpgradeAssumption
<1>7. KeyInv' /\ DataInv'
    BY <1>1, <1>4, <1>5, <1>6 DEF KeyInv, DataInv, Past
<1>8. HostInv'
    BY <1>2, <1>3 DEF HostInv
<1>9. HashInv' /\ EraseInv'
    BY <1>2 DEF HashInv, EraseInv
<1>10. CopyInv'
    BY <1>2, <1>3, <1>4 DEF CopyInv
<1>11. TriedInv'
    BY <1>1, <1>2, <1>4 DEF TriedInv
<1>12. ImageInv'
    BY <1>1, <1>2, <1>4 DEF ImageInv, Quiet, BootImageOneFile
<1> QED
    BY <1>7, <1>8, <1>9, <1>10, <1>11, <1>12 DEF UpgradeInv

Jobs == {"erase", "hash", "copy"}

(* The jobs that matter here. *)
LEMMA JobsAppend ==
    ASSUME NEW q \in Seq(Jobs), NEW j \in Jobs, NEW e
    PROVE  /\ In(e, Append(q, j)) <=> In(e, q) \/ e = j
           /\ NoneAhead({"erase"}, {"copy"}, q) /\ (j = "copy" => ~In("erase", q))
                 => NoneAhead({"erase"}, {"copy"}, Append(q, j))
<1>1. \A x, t : Has({x}, t) <=> In(x, t)
    BY DEF Has, In
<1>2. Has({e}, Append(q, j)) <=> Has({e}, q) \/ j \in {e}
    BY HasAppend
<1>3. NoneAhead({"erase"}, {"copy"}, q) /\ (j \in {"copy"} => ~Has({"erase"}, q))
        => NoneAhead({"erase"}, {"copy"}, Append(q, j))
    BY HasAppend
<1> QED
    BY <1>1, <1>2, <1>3

(* The first job is over. *)
LEMMA JobsTail ==
    ASSUME NEW q \in Seq(Jobs), q # <<>>, NEW e
    PROVE  /\ In(e, q) <=> In(e, Tail(q)) \/ e = Head(q)
           /\ NoneAhead({"erase"}, {"copy"}, q) => NoneAhead({"erase"}, {"copy"}, Tail(q))
           /\ NoneAhead({"erase"}, {"copy"}, q) /\ Head(q) = "erase" => ~In("copy", Tail(q))
<1>1. \A x, t : Has({x}, t) <=> In(x, t)
    BY DEF Has, In
<1>2. Has({e}, q) <=> Head(q) \in {e} \/ Has({e}, Tail(q))
    BY HasTail
<1>3. /\ NoneAhead({"erase"}, {"copy"}, q) => NoneAhead({"erase"}, {"copy"}, Tail(q))
      /\ NoneAhead({"erase"}, {"copy"}, q) /\ Head(q) \in {"erase"} => ~Has({"copy"}, Tail(q))
    BY HasTail
<1> QED
    BY <1>1, <1>2, <1>3

(* A handler that only sends messages of no interest, and maybe tells the  *)
(* host something that does not bring the transfer forward.                *)
LEMMA SteadyHandler ==
    ASSUME TypeInv, UpgradeInv, UNCHANGED <<smState, ps, flash, jobs>>, ram'.data = ram.data,
           Fewer(messages', messages),
           flash.running = "other" => FewerContinues(messages', messages),
           \/ host' = host
           \/ host'.next \notin {"SYNC_REQ", "START_REQ", "DATA", "START_DATA_REQ"}
    PROVE  UpgradeInv'
<1>1. HostInv'
    BY HostSteady DEF UpgradeInv
<1>2. /\ In("erase", jobs') = In("erase", jobs) /\ In("copy", jobs') = In("copy", jobs)
      /\ NoneAhead({"erase"}, {"copy"}, jobs')
    BY DEF UpgradeInv, CopyInv
<1> QED
    BY <1>1, <1>2, Steady

(* The same for FatalError. *)
LEMMA FatalErrorKeeps ==
    ASSUME TypeInv, UpgradeInv, NEW msgs, FatalError(msgs), Fewer(msgs, messages),
           UNCHANGED <<flash, jobs>>, ram'.data = ram.data
    PROVE  UpgradeInv'
<1>1. smState' = "ABORTING" /\ ps' = [ps EXCEPT !.key = "ERROR"] /\ messages' = msgs
    BY DEF FatalError, SetState
<1>2. host' = host \/ host'.next = "ERRORWARN_RES"
    BY DEF FatalError, TellError, TypeInv, HostOK, Hosts
<1>3. HostInv'
    BY <1>1, <1>2, HostSteady DEF UpgradeInv
<1> QED
    BY <1>1, <1>3, Aborting

----------------------------------------------------------------------------
(* Handlers that leave the state machine where it is. *)

(* Messages that are only passed on, counted or ignored. *)
LEMMA PassingKeeps ==
    ASSUME TypeInv, UpgradeInv,
           \/ AskToApply \/ HandleIsCsrValidDone \/ TransferComplete \/ HandleErrorWarnRes
           \/ HandleBlockingInd \/ Ignore
    PROVE  UpgradeInv'
<1>1. messages # <<>> /\ messages \in Seq(Message)
    BY DEF TypeInv, AskToApply, HandleIsCsrValidDone, TransferComplete, HandleErrorWarnRes,
        HandleBlockingInd, Ignore, Handled, Received
<1>2. /\ Went(Rest, messages)
      /\ \A id \in {"APPLY_IND", "REBOOT", "BLOCKING_IND", "ERASE"} :
            Went(Append(Rest, Signal(id)), messages)
    BY <1>1, RestWent, WentAppend
<1>3. Went(messages', messages) /\ smState' = smState
    BY <1>2 DEF AskToApply, HandleIsCsrValidDone, TransferComplete, HandleErrorWarnRes, SMAbort,
        HandleBlockingInd, Ignore, SetState
<1>4. UNCHANGED <<ps, flash, jobs>> /\ ram'.data = ram.data
    BY DEF TypeInv, Contexts, AskToApply, HandleIsCsrValidDone, TransferComplete,
        HandleErrorWarnRes, SMAbort, HandleBlockingInd, Ignore
<1>5. \/ host' = host
      \/ host'.next \notin {"SYNC_REQ", "START_REQ", "DATA", "START_DATA_REQ"}
    <2>1. \/ host' = host
          \/ host' = [host EXCEPT !.next = "IS_CSR_VALID_DONE_REQ", !.sent = FALSE]
          \/ host' = [host EXCEPT !.next = "TRANSFER_COMPLETE_RES", !.sent = FALSE]
        BY DEF AskToApply, HandleIsCsrValidDone, TransferComplete, HandleErrorWarnRes,
            HandleBlockingInd, Ignore, Tell
    <2> QED
        BY <2>1 DEF TypeInv, HostOK, Hosts
<1> QED
    BY <1>3, <1>4, <1>5, SteadyHandler DEF Went, Moved

(* An abort only asks for permission to erase, or sets a timer. *)
LEMMA AbortReqKeeps ==
    ASSUME TypeInv, UpgradeInv, HandleAbortReq PROVE UpgradeInv'
<1>1. messages # <<>> /\ messages \in Seq(Message)
    BY DEF TypeInv, HandleAbortReq, Received
<1>2. Went(Rest, messages) /\ Went(Append(Rest, Signal("BLOCKING_IND")), messages)
    BY <1>1, RestWent, WentAppend
<1>3. Went(messages', messages) /\ smState' = smState /\ UNCHANGED <<ps, flash, jobs>>
    BY <1>2 DEF HandleAbortReq, SMAbort, SetState
<1>4. ram'.data = ram.data
    <2> DEFINE c == [ram EXCEPT !.asynchronous_abort = ~ram.revert]
    <2>a. [ram EXCEPT !.asynchronous_abort = ~ram.revert] \in Contexts
        BY UpdatesOfContext DEF TypeInv
    <2>1. c.data = ram.data /\ ram' = [c EXCEPT !.is_validated = 0] /\ c \in Contexts
        BY <2>a DEF HandleAbortReq, SMAbort, Contexts, TypeInv
    <2> HIDE DEF c
    <2> QED
        BY <2>1 DEF Contexts
<1>5. host' = host \/ host'.next = "away"
    BY DEF HandleAbortReq, TellAborted, Away
<1> QED
    BY <1>3, <1>4, <1>5, SteadyHandler DEF Went, Moved

(* The hash is computed in the background. *)
LEMMA StartHashKeeps ==
    ASSUME TypeInv, UpgradeInv, StartHash PROVE UpgradeInv'
<1>1. messages # <<>> /\ messages \in Seq(Message) /\ jobs \in Seq(Jobs)
    BY DEF TypeInv, StartHash, Handled, Received, Jobs
<1>2. Went(messages', messages) /\ UNCHANGED <<smState, ps, flash, host>>
    BY <1>1, RestWent DEF StartHash, SetState
<1>3. ram'.data = ram.data
    BY DEF StartHash, TypeInv, Contexts
<1>4. HostInv'
    BY <1>2, HostSteady DEF UpgradeInv, Went, Moved
<1>5. jobs' = jobs \/ jobs' = Append(jobs, "hash")
    BY DEF StartHash
<1>6. /\ In("erase", jobs') <=> In("erase", jobs)
      /\ In("copy", jobs') <=> In("copy", jobs)
      /\ NoneAhead({"erase"}, {"copy"}, jobs')
    <2>1. "hash" \in Jobs /\ NoneAhead({"erase"}, {"copy"}, jobs)
        BY DEF UpgradeInv, CopyInv, Jobs
    <2>2. CASE jobs' = jobs
        BY <2>1, <2>2
    <2>3. CASE jobs' = Append(jobs, "hash")
        <3>1. \A e : In(e, Append(jobs, "hash")) <=> In(e, jobs) \/ e = "hash"
            BY <1>1, <2>1, JobsAppend
        <3>2. NoneAhead({"erase"}, {"copy"}, Append(jobs, "hash"))
            BY <1>1, <2>1, JobsAppend
        <3> QED
            BY <2>3, <3>1, <3>2
    <2> QED
        BY <1>5, <2>2, <2>3
<1>7. In("erase", jobs') = In("erase", jobs) /\ In("copy", jobs') = In("copy", jobs)
    BY <1>6 DEF In
<1> QED
    BY <1>2, <1>3, <1>4, <1>6, <1>7, Steady DEF Went, Moved

(* Timers, and what the host does without a message. *)
LEMMA OutsideKeeps ==
    ASSUME TypeInv, UpgradeInv, TimerExpires \/ Disconnects \/ HostAborts PROVE UpgradeInv'
<1>1. UNCHANGED <<smState, ps, ram, flash, jobs>>
    BY DEF TimerExpires, Disconnects, HostAborts
<1>2. \/ host' = host
      \/ host'.next \notin {"SYNC_REQ", "START_REQ", "DATA", "START_DATA_REQ"}
    <2>1. CASE TimerExpires
        BY <2>1 DEF TimerExpires
    <2>2. CASE Disconnects
        BY <2>2 DEF Disconnects, Away
    <2>3. CASE HostAborts
        BY <2>3 DEF HostAborts, TypeInv, HostOK, Hosts
    <2> QED
        BY <2>1, <2>2, <2>3
<1>3. Fewer(messages', messages) /\ FewerContinues(messages', messages)
    <2>1. CASE messages' = messages
        BY <2>1 DEF Fewer, FewerContinues
    <2>2. CASE TimerExpires
        <3>1. PICK t \in TimerIds : messages' = Append(messages, Signal(t))
            BY <2>2 DEF TimerExpires, TypeInv
        <3> DEFINE m == Signal(t)
        <3>2. /\ m \in Message /\ m \notin Steps /\ m \notin HashDone /\ m \notin EraseStatus
              /\ m \notin CopyStatus /\ m \notin ShutAudio /\ m \notin Continue
            BY MessageFacts DEF TimerIds, Signals, Signal, Msg, Steps, HashDone, EraseStatus,
                CopyStatus, ShutAudio, Continue, Kind
        <3> HIDE DEF m
        <3>3. messages \in Seq(Message)
            BY DEF TypeInv
        <3> QED
            BY <3>1, <3>2, <3>3, FewerAppend DEF m
    <2> QED
        BY <2>1, <2>2 DEF Disconnects, HostAborts
<1> QED
    BY <1>1, <1>2, <1>3, SteadyHandler

(* A host connects when the last one's messages were delivered. *)
LEMMA ConnectsKeeps ==
    ASSUME TypeInv, UpgradeInv, Connects PROVE UpgradeInv'
<1>1. UNCHANGED <<smState, ps, ram, flash, jobs, messages>> /\ host'.next = "SYNC_REQ"
    BY DEF Connects, TypeInv, HostOK, Hosts
<1>2. ~Has(Steps, messages)
    BY DEF Connects, HostMessages, Has, Steps, Kind
<1>3. HostInv'
    BY <1>1, <1>2 DEF UpgradeInv, HostInv
<1>4. /\ In("erase", jobs') = In("erase", jobs) /\ In("copy", jobs') = In("copy", jobs)
      /\ NoneAhead({"erase"}, {"copy"}, jobs')
      /\ Fewer(messages', messages) /\ FewerContinues(messages', messages)
    BY <1>1 DEF UpgradeInv, CopyInv, Fewer, FewerContinues
<1> QED
    BY <1>1, <1>3, <1>4, Steady

----------------------------------------------------------------------------
(* Handlers of the transfer. *)

(* The kind of the first message. *)
LEMMA HeadFacts ==
    ASSUME TypeInv, messages # <<>>, NEW id, Head(messages).id = id
    PROVE  /\ Head(messages) \in Message
           /\ id \in {"SYNC_REQ", "START_REQ", "DATA"} => Head(messages) \in Steps
           /\ id = "DATA" => Head(messages) \in Data
           /\ id = "START_REQ" => Head(messages) \in Starts
           /\ id = "CONTINUE" => Head(messages) \in Continue
           /\ id = "ERASE_STATUS" => Head(messages) \in EraseStatus
           /\ id = "COPY_STATUS" => Head(messages) \in CopyStatus
           /\ id = "SHUT_AUDIO" => Head(messages) \in ShutAudio
           /\ id = "HASH_STATUS" /\ Head(messages).arg = Done => Head(messages) \in HashDone
    BY RestType DEF TypeInv, Steps, Data, Starts, Continue, EraseStatus, CopyStatus, ShutAudio,
        HashDone, Kind

(* A message that is delivered was queued. *)
LEMMA HeadQueued ==
    ASSUME TypeInv, messages # <<>>, NEW A, Head(messages) \in A
    PROVE  Has(A, messages)
    BY HasTail DEF TypeInv

(* Without steps, nothing is behind one. *)
LEMMA NoSteps ==
    ASSUME NEW q, ~Has(Steps, q), NEW B
    PROVE  /\ ~Has(Data, q) /\ NoneAhead(Data, B, q) /\ NoneAhead(Starts, B, q)
           /\ NoneAhead(Steps, Steps, q)
<1>1. ~Has(Data, q) /\ ~Has(Starts, q)
    BY DEF Has, Steps, Data, Starts, Kind
<1> QED
    BY <1>1, NoneToBeAhead

(* A host is only accepted with the file in progress, if there is one. *)
LEMMA SyncReqKeeps ==
    ASSUME TypeInv, UpgradeInv, HandleSyncReq PROVE UpgradeInv'
<1>1. /\ messages # <<>> /\ Head(messages).id = "SYNC_REQ" /\ messages \in Seq(Message)
      /\ messages' = Rest /\ UNCHANGED <<ram, flash, jobs>>
    BY DEF HandleSyncReq, Received, SetState, TypeInv
<1>2. Went(Rest, messages) /\ Head(messages) \in Steps /\ Arg \in Files
    BY <1>1, RestWent, HeadFacts, MessageFacts DEF Arg
<1>3. ~Has(Steps, messages')
    BY <1>1, <1>2 DEF Went, Moved, Delivered, UpgradeInv, HostInv
<1>4. CASE smState' = smState /\ ps' = ps /\ TellError
    <2>1. host' = host \/ host'.next = "ERRORWARN_RES"
        BY <1>4 DEF TellError, TypeInv, HostOK, Hosts
    <2> QED
        BY <1>1, <1>2, <1>4, <2>1, SteadyHandler DEF Went, Moved
<1>5. CASE /\ smState # "ABORTING" /\ ps.id \in {0, Arg} /\ smState' = "READY"
           /\ ps' = [ps EXCEPT !.id = Arg]
           /\ host' = host \/ host'.next = "START_REQ"
    <2>1. /\ ps'.key = ps.key /\ ps'.closed = ps.closed /\ ps'.upgrading = ps.upgrading
          /\ ps'.id = Arg /\ ps.closed \in Nat
        BY <1>5 DEF TypeInv, Keys
    <2>2. 0 \notin Files /\ Sections \in Nat /\ Sections > 0
        BY UpgradeAssumption
    <2>3. ps.closed > 0 => ps'.id = ps.id
        BY <1>5, <2>1, <2>2 DEF UpgradeInv, KeyInv
    <2>4. ps.key \in Past \/ ps.closed = Sections => ps'.id = ps.id
        BY <2>1, <2>2, <2>3 DEF UpgradeInv, KeyInv
    <2>5. \A B : NoneAhead(Data, B, messages') /\ NoneAhead(Starts, B, messages')
        BY <1>3, NoSteps
    <2>6. KeyInv' /\ DataInv'
        BY <1>1, <1>2, <1>5, <2>1 DEF UpgradeInv, KeyInv, DataInv
    <2>7. HostInv'
        <3>1. host.next = "DATA" => host.sent
            BY <1>1, <1>2, HeadQueued DEF UpgradeInv, HostInv
        <3> QED
            BY <1>3, <1>5, <3>1, NoSteps DEF HostInv
    <2>8. HashInv' /\ EraseInv'
        BY <1>1, <1>2, <1>5, <2>1, <2>5
           DEF UpgradeInv, EraseInv, HashInv, NotLast, Before, Went, Moved, Fewer
    <2>9. CopyInv'
        BY <1>1, <1>2, <1>5, <2>1, <2>5 DEF UpgradeInv, CopyInv, Before, Went, Moved, Fewer
    <2>10. TriedInv'
        BY <1>1, <1>2, <1>5, <2>1, <2>5 DEF UpgradeInv, TriedInv, Went, Moved, Fewer
    <2>11. ImageInv'
        BY <1>1, <1>2, <1>5, <2>1, <2>4
           DEF UpgradeInv, ImageInv, Quiet, Past, BootImageOneFile, Went, Moved, Fewer
    <2> QED
        BY <2>6, <2>7, <2>8, <2>9, <2>10, <2>11 DEF UpgradeInv
<1>6. host' = host \/ host'.next = "START_REQ" \/ TellError
    BY DEF HandleSyncReq, TypeInv, HostOK, Hosts
<1> QED
    BY <1>1, <1>4, <1>5, <1>6 DEF HandleSyncReq, SetState, TypeInv, HostOK, Hosts

(* The state machine resumes where the resume point says. *)
LEMMA ReadyKeeps ==
    ASSUME TypeInv, UpgradeInv, HandleReady PROVE UpgradeInv'
<1>1. /\ messages # <<>> /\ Head(messages).id = "START_REQ" /\ messages \in Seq(Message)
      /\ smState = "READY" /\ UNCHANGED <<ps, ram, flash, jobs>>
    BY DEF HandleReady, Handled, Received, TypeInv
<1>2. Went(Rest, messages) /\ Head(messages) \in Steps /\ Head(messages) \in Starts
    BY <1>1, RestWent, HeadFacts
<1>3. /\ ps.key \in {"PRE_VALIDATE", "ERASE"} =>
            messages' = Append(Rest, Signal("CONTINUE"))
      /\ ps.key \notin {"PRE_VALIDATE", "ERASE"} => messages' = Rest
    BY DEF HandleReady, MoveToState, SetState
<1>4. /\ ps.key = "START" => smState' = "DATA_READY"
      /\ ps.key = "PRE_VALIDATE" => smState' = "VALIDATING"
      /\ ps.key = "PRE_REBOOT" => smState' = "VALIDATED"
      /\ ps.key = "POST_REBOOT" => smState' = "COMMIT_HOST_CONTINUE"
      /\ ps.key = "ERASE" => smState' = "COMMIT"
      /\ ps.key = "ERROR" => smState' = "ABORTING"
      /\ ps.key \in ResumePoints
    BY DEF HandleReady, MoveToState, SetState, ResumesIn, TypeInv, Keys, ResumePoints
<1>5. Moved(messages', messages)
    BY <1>2, <1>3, MovedAppend DEF Went
<1>6. ~Has(Steps, messages')
    BY <1>2, <1>5 DEF Moved, Delivered, UpgradeInv, HostInv
<1>7. \A B : NoneAhead(Data, B, messages') /\ NoneAhead(Starts, B, messages')
    BY <1>6, NoSteps
<1>8. KeyInv' /\ DataInv'
    BY <1>1, <1>4 DEF UpgradeInv, KeyInv, DataInv, ResumePoints
<1>9. HostInv'
    <2>1. host' = host \/ host'.next # "DATA"
        <3>1. host.at \in ResumePoints
            BY DEF TypeInv, HostOK, Hosts
        <3>2. HostResumes[host.at] # "DATA"
            BY <3>1 DEF HostResumes, ResumePoints
        <3> QED
            BY <3>2 DEF HandleReady, TypeInv, HostOK, Hosts
    <2>2. host.next = "DATA" => host.sent
        BY <1>1 DEF UpgradeInv, HostInv
    <2> QED
        BY <1>6, <2>1, <2>2, NoSteps DEF HostInv
<1>10. HashInv' /\ EraseInv'
    BY <1>1, <1>4, <1>5, <1>7 DEF UpgradeInv, EraseInv, HashInv, NotLast, Before, Moved, Fewer
<1>11. CopyInv'
    BY <1>1, <1>4, <1>5, <1>7 DEF UpgradeInv, CopyInv, Before, Moved, Fewer
<1>12. TriedInv'
    <2>1. flash.running = "other" => ~Has(ShutAudio, messages')
        BY <1>1, <1>2, <1>5 DEF UpgradeInv, TriedInv, Moved, Delivered
    <2>2. flash.running = "other" /\ ps.key = "POST_REBOOT" => ~Has(Continue, messages')
        BY <1>1, <1>2, <1>3 DEF UpgradeInv, TriedInv, Went, DeliveredContinues
    <2> QED
        BY <1>1, <1>4, <1>5, <2>1, <2>2 DEF UpgradeInv, TriedInv, Moved, Fewer, ResumePoints
<1>13. ImageInv'
    BY <1>1, <1>4, <1>5
       DEF UpgradeInv, ImageInv, Quiet, BootImageOneFile, Moved, Fewer, ResumePoints
<1> QED
    BY <1>8, <1>9, <1>10, <1>11, <1>12, <1>13 DEF UpgradeInv

(* An interrupted transfer goes on, or the bank is erased first. *)
LEMMA DataReadyKeeps ==
    ASSUME TypeInv, UpgradeInv, HandleDataReady PROVE UpgradeInv'
<1>1. /\ messages # <<>> /\ Head(messages).id = "START_DATA_REQ" /\ messages \in Seq(Message)
      /\ smState = "DATA_READY" /\ ps.key = "START" /\ ps' = ps /\ messages' = Rest
    BY DEF HandleDataReady, Handled, Received, TypeInv, SetState, UpgradeInv, KeyInv
<1>2. ram'.data = 0 /\ ram'.data \notin 1 .. Footer /\ 0 < Footer
    BY UpgradeAssumption DEF HandleDataReady, TypeInv, Contexts, Header, Footer
<1>3. Went(messages', messages)
    BY <1>1, RestWent
<1>4. ~Has(Data, messages') /\ \A B : NoneAhead(Data, B, messages')
    BY <1>1, <1>3, NoneToBeAhead DEF UpgradeInv, HostInv, Went, Moved, Fewer
<1>5. CASE PartialUpdate
    <2>1. /\ smState' = "DATA_TRANSFER" /\ UNCHANGED <<jobs, flash>> /\ ps.closed > 0
          /\ Tell({"START_DATA_REQ"}, "DATA")
        BY <1>5 DEF HandleDataReady, SetState, PartialUpdate
    <2>2. ps.closed # 0
        BY <2>1 DEF TypeInv, Keys
    <2>3. KeyInv' /\ DataInv'
        BY <1>1, <1>2, <2>1 DEF UpgradeInv, KeyInv, DataInv
    <2>4. HostInv'
        <3>1. host' = host \/ (host.next = "START_DATA_REQ" /\ host'.next = "DATA")
            BY <2>1 DEF Tell, TypeInv, HostOK, Hosts
        <3> QED
            BY <1>3, <2>1, <3>1 DEF UpgradeInv, HostInv, Went, Moved, Fewer
    <2>5. HashInv' /\ EraseInv'
        BY <1>1, <1>3, <1>4, <2>1
           DEF UpgradeInv, HashInv, EraseInv, NotLast, Before, Went, Moved, Fewer
    <2>6. CopyInv'
        BY <1>1, <1>3, <2>1, <2>2 DEF UpgradeInv, CopyInv, Late, Went, Moved, Fewer
    <2>7. TriedInv' /\ ImageInv'
        BY <1>1, <2>1, <2>2 DEF UpgradeInv, TriedInv, ImageInv, BootImageOneFile
    <2> QED
        BY <2>3, <2>4, <2>5, <2>6, <2>7 DEF UpgradeInv
<1>6. CASE ~PartialUpdate
    <2>1. smState' = "DATA_READY" /\ host' = host /\ EraseAllManaged(ps.key)
        BY <1>6 DEF HandleDataReady, SetState
    <2>2. ps.closed = 0
        BY <1>1, <1>6 DEF PartialUpdate, UpgradeInv, KeyInv, TypeInv, Keys
    <2>3. /\ flash'.boot = flash.boot /\ flash'.other = flash.other /\ flash'.running # "other"
        BY <1>1, <2>1 DEF EraseAllManaged, TypeInv, Banks
    <2>4. (In("copy", jobs') => In("copy", jobs)) /\ NoneAhead({"erase"}, {"copy"}, jobs')
        <3>1. jobs' = jobs \/ jobs' = Append(jobs, "erase")
            BY <1>1, <2>1 DEF EraseAllManaged
        <3>2. "erase" \in Jobs /\ jobs \in Seq(Jobs) /\ NoneAhead({"erase"}, {"copy"}, jobs)
            BY DEF Jobs, TypeInv, UpgradeInv, CopyInv
        <3>3. NoneAhead({"erase"}, {"copy"}, Append(jobs, "erase"))
            BY <3>2, JobsAppend
        <3>4. In("copy", Append(jobs, "erase")) <=> In("copy", jobs) \/ "copy" = "erase"
            BY <3>2, JobsAppend
        <3> QED
            BY <3>1, <3>2, <3>3, <3>4
    <2>5. KeyInv' /\ DataInv'
        BY <1>1, <1>2, <2>1, <2>2 DEF UpgradeInv, KeyInv, DataInv
    <2>6. HostInv'
        BY <1>1, <1>3, <2>1, HostSteady DEF UpgradeInv, Went, Moved
    <2>7. HashInv' /\ EraseInv'
        BY <1>1, <1>3, <1>4, <2>1
           DEF UpgradeInv, HashInv, EraseInv, NotLast, Before, Went, Moved, Fewer
    <2>8. CopyInv'
        BY <1>1, <1>3, <1>4, <2>1, <2>2, <2>4
           DEF UpgradeInv, CopyInv, Before, Went, Moved, Fewer
    <2>9. TriedInv' /\ ImageInv'
        BY <1>1, <2>1, <2>3 DEF UpgradeInv, TriedInv, ImageInv, BootImageOneFile
    <2> QED
        BY <2>5, <2>6, <2>7, <2>8, <2>9 DEF UpgradeInv
<1> QED
    BY <1>5, <1>6

(* The header or a section is received. *)
LEMMA DataKeeps ==
    ASSUME TypeInv, UpgradeInv, HandleData PROVE UpgradeInv'
<1>1. /\ messages # <<>> /\ Head(messages).id = "DATA" /\ messages \in Seq(Message)
      /\ smState = "DATA_TRANSFER" /\ ps.key = "START" /\ smState' = smState /\ messages' = Rest
      /\ jobs' = jobs
    BY DEF HandleData, Handled, Received, TypeInv, SetState, UpgradeInv, KeyInv
<1>2. /\ Went(messages', messages) /\ Arg \in Files
      /\ Head(messages) \in Steps /\ Head(messages) \in Data
    BY <1>1, RestWent, HeadFacts, MessageFacts DEF Arg
<1>3. ~Has(Steps, messages')
    BY <1>2 DEF Went, Moved, Delivered, UpgradeInv, HostInv
<1>4. \A B : NoneAhead(Data, B, messages')
    BY <1>3, NoSteps
<1>5. /\ ram.data \in 0 .. Sections /\ ram'.data = ram.data + 1
      /\ Sections \in Nat /\ Footer = Sections + 1
    BY UpgradeAssumption DEF HandleData, Footer, NoData, TypeInv, Contexts
<1>6. /\ ps'.key = ps.key /\ ps'.id = ps.id /\ flash'.boot = flash.boot
      /\ flash'.running = flash.running
    <2>1. ps'.key = ps.key /\ ps'.id = ps.id
        BY DEF HandleData, TypeInv, Keys
    <2>2. ram.data # Header => ram.data \in 1 .. Sections
        BY <1>5 DEF Header
    <2>3. flash' = flash \/ (ram.data # Header /\ flash' = [flash EXCEPT !.other[ram.data] = Arg])
        BY DEF HandleData
    <2>4. flash'.boot = flash.boot /\ flash'.running = flash.running
        BY <1>2, <2>2, <2>3, SectionWritten DEF TypeInv
    <2> QED
        BY <2>1, <2>4
<1>7. /\ ps'.upgrading /\ ps'.closed >= ram.data /\ ps'.closed \in Nat
      /\ In("erase", jobs) => ps'.closed = ps.closed
    <2>1. CASE ram.data = Header
        BY <1>5, <2>1 DEF HandleData, Header, TypeInv, Keys
    <2>2. CASE ram.data # Header /\ AlreadyHandled(ram.data)
        BY <1>5, <2>2 DEF HandleData, Header, TypeInv, Keys, UpgradeInv, DataInv, AlreadyHandled
    <2>3. CASE ram.data # Header /\ ~AlreadyHandled(ram.data)
        <3>1. jobs = <<>> /\ ps' = [ps EXCEPT !.closed = ram.data]
            BY <2>3 DEF HandleData
        <3>2. ps.upgrading
            BY <1>5, <2>3 DEF Header, UpgradeInv, DataInv
        <3> QED
            BY <1>5, <3>1, <3>2 DEF TypeInv, Keys, In
    <2> QED
        BY <2>1, <2>2, <2>3
<1>8. KeyInv' /\ DataInv'
    BY <1>1, <1>5, <1>6, <1>7 DEF UpgradeInv, KeyInv, DataInv, Past
<1>9. HostInv'
    BY <1>1, <1>3, NoSteps DEF HostInv
<1>10. HashInv' /\ EraseInv'
    BY <1>1, <1>2, <1>4, <1>6
       DEF UpgradeInv, HashInv, EraseInv, NotLast, Before, Went, Moved, Fewer
<1>11. CopyInv'
    BY <1>1, <1>2, <1>6 DEF UpgradeInv, CopyInv, Before, Late, Went, Moved, Fewer, Delivered
<1>12. TriedInv' /\ ImageInv'
    BY <1>1, <1>6 DEF UpgradeInv, TriedInv, ImageInv, BootImageOneFile
<1> QED
    BY <1>8, <1>9, <1>10, <1>11, <1>12 DEF UpgradeInv

(* After the footer, every section is recorded. *)
LEMMA LastDataKeeps ==
    ASSUME TypeInv, UpgradeInv, HandleLastData PROVE UpgradeInv'
<1>1. /\ messages # <<>> /\ Head(messages).id = "DATA" /\ messages \in Seq(Message)
      /\ smState = "DATA_TRANSFER" /\ ps.key = "START" /\ smState' = "DATA_HASH_CHECKING"
      /\ messages' = Append(Rest, Signal("CONTINUE")) /\ UNCHANGED <<ps, flash, jobs>>
    BY DEF HandleLastData, Handled, Received, TypeInv, SetState, MoveToState, UpgradeInv, KeyInv
<1>2. Moved(messages', messages) /\ Head(messages) \in Data
    BY <1>1, RestWent, MovedAppend, HeadFacts DEF Went
<1>3. ram'.data = ram.data /\ ram.data = Footer
    BY DEF HandleLastData, TypeInv, Contexts
<1>4. ps.closed = Sections
    BY <1>3, UpgradeAssumption DEF TypeInv, Keys, Footer, UpgradeInv, DataInv
<1>5. ~(ram.data < Footer) /\ ps.closed # 0
    BY <1>3, <1>4, UpgradeAssumption DEF Footer
<1>6. KeyInv' /\ DataInv'
    BY <1>1, <1>3, <1>4 DEF UpgradeInv, KeyInv, DataInv
<1>7. HostInv'
    <2>1. host' = host \/ host'.next = "IS_CSR_VALID_DONE_REQ"
        BY DEF HandleLastData, Tell, TypeInv, HostOK, Hosts
    <2> QED
        BY <1>1, <1>2, <2>1, HostSteady DEF UpgradeInv, Moved
<1>8. HashInv'
    BY <1>1, <1>2, <1>5 DEF UpgradeInv, HashInv, NotLast, Before, Moved, Fewer, Delivered
<1>9. EraseInv'
    BY <1>1, <1>2, <1>5 DEF UpgradeInv, EraseInv, NotLast, Before, Moved, Fewer, Delivered
<1>10. CopyInv'
    BY <1>1, <1>2, <1>5 DEF UpgradeInv, CopyInv, Late, Moved, Fewer
<1>11. TriedInv' /\ ImageInv'
    BY <1>1 DEF UpgradeInv, TriedInv, ImageInv, BootImageOneFile
<1> QED
    BY <1>6, <1>7, <1>8, <1>9, <1>10, <1>11 DEF UpgradeInv

(* Bad data ends the upgrade. *)
LEMMA BadDataKeeps ==
    ASSUME TypeInv, UpgradeInv, HandleBadData PROVE UpgradeInv'
<1>1. messages # <<>> /\ messages \in Seq(Message)
    BY DEF TypeInv, HandleBadData, Handled, Received
<1>2. FatalError(Rest) /\ Fewer(Rest, messages) /\ UNCHANGED <<ram, flash, jobs>>
    BY <1>1, RestWent DEF HandleBadData, Went, Moved
<1> QED
    BY <1>2, FatalErrorKeeps

(* A good hash is that of the file in progress: an early one would not get *)
(* here.                                                                   *)
LEMMA HashStatusKeeps ==
    ASSUME TypeInv, UpgradeInv, HandleHashStatus PROVE UpgradeInv'
<1>1. /\ messages # <<>> /\ Head(messages).id = "HASH_STATUS" /\ messages \in Seq(Message)
      /\ smState = "DATA_HASH_CHECKING" /\ ps.key = "START" /\ UNCHANGED <<flash, jobs>>
    BY DEF HandleHashStatus, Handled, Received, TypeInv, UpgradeInv, KeyInv
<1>2. Went(Rest, messages) /\ Moved(Append(Rest, Signal("CONTINUE")), messages)
    BY <1>1, RestWent, MovedAppend DEF Went
<1>3. ram'.data = ram.data
    BY DEF HandleHashStatus, TypeInv, Contexts
<1>4. CASE FatalError(Rest)
    BY <1>1, <1>2, <1>3, <1>4, FatalErrorKeeps DEF Went, Moved
<1>5. CASE ~FatalError(Rest)
    <2>1. /\ Arg = Done /\ ps' = [ps EXCEPT !.key = "PRE_VALIDATE"] /\ smState' = "VALIDATING"
          /\ messages' = Append(Rest, Signal("CONTINUE")) /\ host' = host
        BY <1>5 DEF HandleHashStatus, MoveToState, SetState
    <2>2. /\ ps'.key = "PRE_VALIDATE" /\ ps'.id = ps.id /\ ps'.closed = ps.closed
          /\ ps'.upgrading = ps.upgrading
        BY <2>1 DEF TypeInv, Keys
    <2>3. Has(HashDone, messages)
        BY <1>1, <2>1, HeadFacts, HeadQueued DEF Arg
    <2>4. Whole(flash.other, ps.id) /\ ps.closed = Sections
        BY <1>1, <2>3 DEF UpgradeInv, HashInv, NotLast, Before
    <2>5. ps.closed # 0
        BY <2>4, UpgradeAssumption
    <2>6. ~Has(EraseStatus, messages')
        BY <1>1, <1>2, <2>1 DEF UpgradeInv, EraseInv, NotLast, Before, Moved, Fewer
    <2>7. KeyInv' /\ DataInv'
        BY <1>1, <1>3, <2>1, <2>2, <2>4 DEF UpgradeInv, KeyInv, DataInv
    <2>8. HostInv'
        BY <1>2, <2>1, HostSteady DEF UpgradeInv, Moved
    <2>9. HashInv' /\ EraseInv'
        BY <2>2, <2>6 DEF HashInv, EraseInv
    <2>10. CopyInv'
        BY <1>1, <1>2, <2>1, <2>5, <2>6 DEF UpgradeInv, CopyInv, Late, Moved, Fewer
    <2>11. TriedInv' /\ ImageInv'
        BY <1>1, <2>1, <2>2, <2>4, <2>5 DEF UpgradeInv, TriedInv, ImageInv, BootImageOneFile
    <2> QED
        BY <2>7, <2>8, <2>9, <2>10, <2>11 DEF UpgradeInv
<1> QED
    BY <1>4, <1>5

(* The copy begins when no erase is outstanding. *)
LEMMA ValidatingKeeps ==
    ASSUME TypeInv, UpgradeInv, HandleValidating PROVE UpgradeInv'
<1>1. /\ messages # <<>> /\ messages \in Seq(Message) /\ smState = "VALIDATING"
      /\ ps.key = "PRE_VALIDATE" /\ UNCHANGED <<ram, flash, host>> /\ smState' = "VALIDATED"
      /\ jobs' = Append(jobs, "copy")
    BY
       DEF HandleValidating, Handled, Received, TypeInv, MoveToState, SetState, UpgradeInv,
           KeyInv
<1>2. Moved(messages', messages)
    BY <1>1, RestWent, MovedAppend DEF Went, HandleValidating, MoveToState, SetState
<1>3. /\ ps'.key = "PRE_REBOOT" /\ ps'.id = ps.id /\ ps'.closed = ps.closed
      /\ ps'.upgrading = ps.upgrading
    BY DEF HandleValidating, TypeInv, Keys
<1>4. ps.closed = Sections /\ ps.closed # 0
    BY <1>1, UpgradeAssumption DEF UpgradeInv, KeyInv, Past
<1>5. ~In("erase", jobs') /\ NoneAhead({"erase"}, {"copy"}, jobs')
    <2>1. ~In("erase", jobs) /\ NoneAhead({"erase"}, {"copy"}, jobs)
        BY <1>4 DEF UpgradeInv, DataInv, CopyInv
    <2>2. jobs \in Seq(Jobs) /\ "copy" \in Jobs
        BY DEF TypeInv, Jobs
    <2>3. In("erase", Append(jobs, "copy")) <=> In("erase", jobs) \/ "erase" = "copy"
        BY <2>2, JobsAppend
    <2>4. NoneAhead({"erase"}, {"copy"}, Append(jobs, "copy"))
        BY <2>1, <2>2, JobsAppend
    <2> QED
        BY <1>1, <2>1, <2>3, <2>4
<1>6. ~Has(EraseStatus, messages')
    BY <1>1, <1>2 DEF UpgradeInv, EraseInv, Moved, Fewer
<1>7. KeyInv' /\ DataInv'
    BY <1>1, <1>3, <1>4, <1>5 DEF UpgradeInv, KeyInv, DataInv
<1>8. HostInv'
    BY <1>1, <1>2, HostSteady DEF UpgradeInv, Moved
<1>9. HashInv' /\ EraseInv'
    BY <1>3, <1>6 DEF HashInv, EraseInv
<1>10. CopyInv'
    BY <1>2, <1>3, <1>5, <1>6 DEF UpgradeInv, CopyInv, Late, Moved, Fewer
<1>11. TriedInv' /\ ImageInv'
    BY <1>1, <1>3 DEF UpgradeInv, TriedInv, ImageInv, BootImageOneFile
<1> QED
    BY <1>7, <1>8, <1>9, <1>10, <1>11 DEF UpgradeInv

(* The DFU domain is told to swap the banks. *)
LEMMA SwapAsked ==
    ASSUME TypeInv, UpgradeInv, UNCHANGED <<smState, ps, flash, jobs, host>>,
           ram'.data = ram.data, NEW r \in Seq(Message), Fewer(r, messages),
           messages' = Append(r, Signal("SHUT_AUDIO")),
           \/ ps.key \in Late
           \/ ps.key = "START" /\ ps.closed = 0 /\ smState \in {"SYNC", "READY", "DATA_READY"},
           ps.key = "POST_REBOOT" => Whole(flash.other, ps.id),
           flash.running # "other" \/ (smState = "VALIDATED" /\ FewerContinues(r, messages))
    PROVE  UpgradeInv'
<1> DEFINE m == Signal("SHUT_AUDIO")
<1>1. /\ m \in Message /\ m \notin Steps /\ m \notin HashDone /\ m \notin EraseStatus
      /\ m \notin CopyStatus /\ m \notin Continue /\ m \notin Data
    BY MessageFacts DEF Signals, Signal, Msg, Steps, HashDone, EraseStatus, CopyStatus, Continue,
        Data, Kind
<1>2. \A A, B : /\ Has(A, messages') <=> Has(A, r) \/ m \in A
                /\ NoneAhead(A, B, r) /\ (m \in B => ~Has(A, r)) => NoneAhead(A, B, messages')
    BY <1>1, HasAppend
<1> HIDE DEF m
<1>3. KeyInv' /\ DataInv'
    BY DEF UpgradeInv, KeyInv, DataInv
<1>4. HostInv'
    BY <1>1, <1>2 DEF UpgradeInv, HostInv, Fewer
<1>5. HashInv' /\ EraseInv'
    BY <1>1, <1>2 DEF UpgradeInv, HashInv, EraseInv, NotLast, Before, Fewer
<1>6. CopyInv'
    <2>1. smState \in {"READY", "DATA_READY"} => NoneAhead(Data, ShutAudio, messages')
        <3>1. smState \in {"READY", "DATA_READY"} => ~Has(Data, messages')
            BY <1>1, <1>2 DEF UpgradeInv, HostInv, Fewer
        <3> QED
            BY <3>1, NoneToBeAhead
    <2> QED
        BY <1>1, <1>2, <2>1 DEF UpgradeInv, CopyInv, Before, Fewer
<1>7. TriedInv'
    BY <1>1, <1>2 DEF UpgradeInv, TriedInv, Fewer
<1>8. ImageInv'
    BY DEF UpgradeInv, ImageInv, BootImageOneFile
<1> QED
    BY <1>3, <1>4, <1>5, <1>6, <1>7, <1>8 DEF UpgradeInv

(* The copy has succeeded, or the upgrade has failed. *)
LEMMA CopyStatusKeeps ==
    ASSUME TypeInv, UpgradeInv, HandleCopyStatus PROVE UpgradeInv'
<1> DEFINE queue == BlockingOpIsDone(Rest)
<1>1. /\ messages # <<>> /\ Head(messages).id = "COPY_STATUS" /\ messages \in Seq(Message)
      /\ UNCHANGED <<flash, jobs>> /\ blocked \in Seq(Waiting)
    BY DEF HandleCopyStatus, Received, TypeInv
<1>2. Went(queue, messages) /\ queue \in Seq(Message) /\ Has(CopyStatus, messages)
    BY <1>1, RestWent, HeadFacts, HeadQueued DEF Went, Moved
<1>3. /\ flash.running # "other"
      /\ \/ ps.key \in Late
         \/ ps.key = "START" /\ ps.closed = 0 /\ smState \in {"SYNC", "READY", "DATA_READY"}
      /\ ps.key = "POST_REBOOT" => Whole(flash.other, ps.id)
    BY <1>2 DEF UpgradeInv, TriedInv, CopyInv, ImageInv, Quiet
<1>4. CASE Arg = Done
    <2> DEFINE r == blocked \o queue
    <2>1. r \in Seq(Message) /\ Fewer(r, queue)
        BY <1>1, <1>2, QueueTypes, FewerWaiting
    <2>2. Fewer(r, messages)
        BY <1>2, <2>1, FewerFewer DEF Went, Moved
    <2>3. UNCHANGED <<smState, ps, host>> /\ ram'.data = ram.data
          /\ (messages' = r \/ messages' = Append(r, Signal("SHUT_AUDIO")))
        <3> DEFINE c == [ram EXCEPT !.copy_done = TRUE]
        <3>1. c \in Contexts /\ c.data = ram.data
            BY DEF TypeInv, Contexts
        <3>2. TrySwap(c, r) /\ UNCHANGED <<smState, ps, host>>
            BY <1>4 DEF HandleCopyStatus, Done, Failed
        <3> HIDE DEF c, r
        <3>3. ram'.data = c.data /\ (messages' = r \/ messages' = Append(r, Signal("SHUT_AUDIO")))
            BY <3>1, <3>2 DEF TrySwap, Contexts
        <3> QED
            BY <3>1, <3>2, <3>3
    <2> HIDE DEF r
    <2>4. CASE messages' = r
        BY <1>1, <1>3, <2>2, <2>3, <2>4, SteadyHandler
    <2>5. CASE messages' = Append(r, Signal("SHUT_AUDIO"))
        BY <1>1, <1>3, <2>1, <2>2, <2>3, <2>5, SwapAsked
    <2> QED
        BY <2>3, <2>4, <2>5
<1>5. CASE Arg # Done
    <2>1. /\ ps' = [ps EXCEPT !.key = "ERROR"] /\ smState' = "SYNC" /\ TellError
          /\ messages' = Append(queue, Signal("CONTINUE")) /\ ram'.data = ram.data
        BY <1>5 DEF HandleCopyStatus, MoveToState, SetState, TypeInv, Contexts
    <2>2. /\ ps'.key = "ERROR" /\ ps'.id = ps.id /\ ps'.closed = ps.closed
          /\ ps'.upgrading = ps.upgrading
        BY <2>1 DEF TypeInv, Keys
    <2>3. Moved(messages', messages)
        BY <1>2, <2>1, MovedAppend DEF Went
    <2> HIDE DEF queue
    <2>4. KeyInv' /\ DataInv'
        BY <1>1, <2>1, <2>2 DEF UpgradeInv, KeyInv, DataInv, Past
    <2>5. HostInv'
        <3>1. host' = host \/ host'.next = "ERRORWARN_RES"
            BY <2>1 DEF TellError, TypeInv, HostOK, Hosts
        <3> QED
            BY <2>1, <2>3, <3>1, HostSteady DEF UpgradeInv, Moved
    <2>6. HashInv' /\ EraseInv'
        BY <2>2 DEF HashInv, EraseInv
    <2>7. CopyInv'
        BY <1>1, <2>2, <2>3 DEF UpgradeInv, CopyInv, Late, Moved, Fewer
    <2>8. TriedInv' /\ ImageInv'
        BY <1>1, <1>3, <2>1, <2>2 DEF UpgradeInv, TriedInv, ImageInv, BootImageOneFile
    <2> QED
        BY <2>4, <2>5, <2>6, <2>7, <2>8 DEF UpgradeInv
<1> QED
    BY <1>4, <1>5

(* The host confirms or refuses the complete image. *)
LEMMA TransferCompleteResKeeps ==
    ASSUME TypeInv, UpgradeInv, HandleTransferCompleteRes PROVE UpgradeInv'
<1>1. /\ messages # <<>> /\ messages \in Seq(Message) /\ smState = "VALIDATED"
      /\ ps.key \in {"PRE_REBOOT", "POST_REBOOT"} /\ UNCHANGED <<flash, jobs>>
    BY DEF HandleTransferCompleteRes, Handled, Received, TypeInv, UpgradeInv, KeyInv
<1>2. Went(Rest, messages) /\ Moved(Append(Rest, Signal("CONTINUE")), messages)
    BY <1>1, RestWent, MovedAppend DEF Went
<1>3. ram'.data = ram.data
    BY DEF HandleTransferCompleteRes, TypeInv, Contexts
<1>4. CASE FatalError(Rest)
    BY <1>1, <1>2, <1>3, <1>4, FatalErrorKeeps DEF Went, Moved
<1>5. CASE ~FatalError(Rest)
    <2>1. /\ host' = host
          /\ \/ /\ smState' = smState /\ messages' = Rest
                /\ ps' = [ps EXCEPT !.key = "POST_REBOOT"]
             \/ smState' = "SYNC" /\ messages' = Append(Rest, Signal("CONTINUE")) /\ ps' = ps
        BY <1>5 DEF HandleTransferCompleteRes, MoveToState, SetState
    <2>2. /\ ps'.id = ps.id /\ ps'.closed = ps.closed /\ ps'.upgrading = ps.upgrading
          /\ ps'.key \in {"PRE_REBOOT", "POST_REBOOT"}
          /\ smState' \in {"VALIDATED", "SYNC"}
        BY <1>1, <2>1 DEF TypeInv, Keys
    <2>3. Moved(messages', messages)
        BY <1>2, <2>1 DEF Went
    <2>4. Whole(flash.other, ps.id)
        BY <1>1 DEF UpgradeInv, ImageInv
    <2>5. ~Has(EraseStatus, messages')
        BY <1>1, <2>3 DEF UpgradeInv, EraseInv, Moved, Fewer
    <2>6. KeyInv' /\ DataInv'
        BY <1>1, <1>3, <2>2 DEF UpgradeInv, KeyInv, DataInv, Past
    <2>7. HostInv'
        BY <2>1, <2>2, <2>3, HostSteady DEF UpgradeInv, Moved
    <2>8. HashInv' /\ EraseInv'
        BY <2>2, <2>5 DEF HashInv, EraseInv
    <2>9. CopyInv'
        BY <1>1, <2>2, <2>3 DEF UpgradeInv, CopyInv, Late, Moved, Fewer
    <2>10. TriedInv'
        BY <1>1, <2>2, <2>3 DEF UpgradeInv, TriedInv, Moved, Fewer
    <2>11. ImageInv'
        BY <1>1, <2>2, <2>4 DEF UpgradeInv, ImageInv, BootImageOneFile
    <2> QED
        BY <2>6, <2>7, <2>8, <2>9, <2>10, <2>11 DEF UpgradeInv
<1> QED
    BY <1>4, <1>5

(* The device is to reboot once the copy counts. *)
LEMMA RebootKeeps ==
    ASSUME TypeInv, UpgradeInv, HandleReboot PROVE UpgradeInv'
<1>1. /\ messages # <<>> /\ messages \in Seq(Message) /\ smState = "VALIDATED"
      /\ UNCHANGED <<smState, ps, flash, jobs, host>>
    BY DEF HandleReboot, Handled, Received, TypeInv
<1>2. Went(Rest, messages) /\ Rest \in Seq(Message)
    BY <1>1, RestWent DEF Went, Moved
<1>3. /\ ram'.data = ram.data
      /\ messages' = Rest \/ messages' = Append(Rest, Signal("SHUT_AUDIO"))
    BY DEF HandleReboot, TrySwap, TypeInv, Contexts
<1>4. ps.key \in Late /\ (ps.key = "POST_REBOOT" => Whole(flash.other, ps.id))
    BY <1>1 DEF UpgradeInv, KeyInv, ImageInv, Late
<1>5. CASE messages' = Rest
    BY <1>1, <1>2, <1>3, <1>5, SteadyHandler DEF Went, Moved
<1>6. CASE messages' = Append(Rest, Signal("SHUT_AUDIO"))
    BY <1>1, <1>2, <1>3, <1>4, <1>6, SwapAsked DEF Went, Moved
<1> QED
    BY <1>3, <1>5, <1>6

----------------------------------------------------------------------------
(* Resets. *)

(* The loader starts the boot bank, and the resume point, if it says that  *)
(* an image is complete, and that image are as they were.                  *)
LEMMA RestartedFromBootBank ==
    ASSUME TypeInv, UpgradeInv, NEW keys \in Keys, NEW banks \in Banks, Reset(keys, banks),
           host'.next = "away", banks.boot = flash.boot, banks.running = "boot",
           keys.key \in Past => keys = ps /\ banks.other = flash.other,
           keys.closed > 0 => keys.upgrading, keys.upgrading => keys.id \in Files
    PROVE  UpgradeInv'
<1>1. keys.key \in Past => keys.closed = Sections
    BY DEF UpgradeInv, KeyInv
<1>2. /\ keys.key \in {"PRE_VALIDATE", "PRE_REBOOT"} => Whole(banks.other, keys.id)
      /\ keys.key = "POST_REBOOT" => Whole(banks.other, keys.id) \/ Whole(banks.boot, keys.id)
      /\ keys.key = "ERASE" => Whole(banks.boot, keys.id)
    BY DEF UpgradeInv, ImageInv, Past
<1>3. \E file \in Files \cup {Factory} : Whole(banks.boot, file)
    BY DEF UpgradeInv, ImageInv, BootImageOneFile
<1> QED
    BY <1>1, <1>2, <1>3, Restarted

(* Timeouts, and aborts after the new image was tried. *)
LEMMA RebootsKeep ==
    ASSUME TypeInv, UpgradeInv, HandleReconnectionTimeout \/ HandleDelayRevertReboot
    PROVE  UpgradeInv'
<1>1. /\ FromBootBank \in Banks /\ FromBootBank.boot = flash.boot
      /\ FromBootBank.other = flash.other /\ FromBootBank.running = "boot"
    BY DEF FromBootBank, TypeInv, Banks
<1>2. ps \in Keys /\ (ps.closed > 0 => ps.upgrading) /\ (ps.upgrading => ps.id \in Files)
    BY DEF TypeInv, UpgradeInv, KeyInv
<1>3. PICK keys \in {ps, [ps EXCEPT !.key = "ERROR"], ClearedKeys} : Boot(keys, FromBootBank)
    BY DEF HandleReconnectionTimeout, HandleDelayRevertReboot
<1>4. Reset(keys, FromBootBank) /\ host'.next = "away"
    BY <1>3 DEF Boot, Away
<1>5. /\ keys \in Keys /\ (keys.key \in Past => keys = ps)
      /\ (keys.closed > 0 => keys.upgrading) /\ (keys.upgrading => keys.id \in Files)
    <2>1. CASE keys = ps
        BY <1>2, <2>1
    <2>2. CASE keys = [ps EXCEPT !.key = "ERROR"]
        BY <1>2, <2>2 DEF Keys, Past, ResumePoints
    <2>3. CASE keys = ClearedKeys
        <3>1. ClearedKeys \in Keys
            BY <1>2, UpdatesOfKeys
        <3>2. /\ ClearedKeys.key \notin Past /\ ClearedKeys.closed = 0
              /\ ~ClearedKeys.upgrading
            BY DEF ClearedKeys, Past
        <3> QED
            BY <2>3, <3>1, <3>2
    <2> QED
        BY <1>3, <2>1, <2>2, <2>3
<1> QED
    BY <1>1, <1>4, <1>5, RestartedFromBootBank

(* Power is lost; an erase that it interrupts is one of a bank that no     *)
(* resume point relies on.                                                 *)
LEMMA PowerLossKeeps ==
    ASSUME TypeInv, UpgradeInv, PowerLoss PROVE UpgradeInv'
<1>1. PICK sections \in SUBSET (1 .. Sections) :
            /\ sections # {} => jobs # <<>> /\ Head(jobs) = "erase"
            /\ Boot(ps, [EraseSome(sections) EXCEPT !.running = "boot"])
    BY DEF PowerLoss
<1> DEFINE some == EraseSome(sections)
           banks == [some EXCEPT !.running = "boot"]
<1>2. some \in Banks /\ some.boot = flash.boot /\ (sections = {} => some.other = flash.other)
    BY EraseSomeType DEF TypeInv
<1> HIDE DEF some
<1>3. /\ banks \in Banks /\ banks.boot = flash.boot /\ banks.running = "boot"
      /\ sections = {} => banks.other = flash.other
    BY <1>2 DEF Banks
<1>4. sections # {} => In("erase", jobs)
    BY <1>1 DEF In, TypeInv
<1>5. ps.key \in Past => sections = {}
    BY <1>4, UpgradeAssumption DEF UpgradeInv, KeyInv, DataInv
<1>6. Reset(ps, banks) /\ host'.next = "away"
    BY <1>1 DEF Boot, Away, some
<1>7. ps \in Keys /\ (ps.closed > 0 => ps.upgrading) /\ (ps.upgrading => ps.id \in Files)
    BY DEF TypeInv, UpgradeInv, KeyInv
<1> HIDE DEF banks
<1> QED
    BY <1>3, <1>5, <1>6, <1>7, RestartedFromBootBank

(* A section that was written and not recorded is written again. *)
LEMMA DiesWritingKeeps ==
    ASSUME TypeInv, UpgradeInv, DiesWriting PROVE UpgradeInv'
<1>1. /\ messages # <<>> /\ Head(messages).id = "DATA" /\ messages \in Seq(Message)
      /\ ps.key = "START" /\ ram.data \in 1 .. Sections
      /\ Boot(ps, [FromBootBank EXCEPT !.other[ram.data] = Arg])
    BY DEF DiesWriting, Handled, Received, TypeInv, UpgradeInv, KeyInv
<1>2. Arg \in Files
    BY <1>1, MessageFacts DEF Arg
<1>3. FromBootBank \in Banks /\ FromBootBank.boot = flash.boot /\ FromBootBank.running = "boot"
    BY DEF FromBootBank, TypeInv, Banks
<1> DEFINE banks == [FromBootBank EXCEPT !.other[ram.data] = Arg]
<1>4. banks \in Banks /\ banks.boot = flash.boot /\ banks.running = "boot"
    BY <1>1, <1>2, <1>3, SectionWritten
<1>5. Reset(ps, banks) /\ host'.next = "away" /\ ps.key \notin Past
    BY <1>1 DEF Boot, Away, Past
<1>6. ps \in Keys /\ (ps.closed > 0 => ps.upgrading) /\ (ps.upgrading => ps.id \in Files)
    BY DEF TypeInv, UpgradeInv, KeyInv
<1> HIDE DEF banks
<1> QED
    BY <1>4, <1>5, <1>6, RestartedFromBootBank

(* What UpgradeSMErase closes is not yet recorded as closed, so that the   *)
(* resume point does not say that the image is complete.                   *)
LEMMA DiesErasingKeeps ==
    ASSUME TypeInv, UpgradeInv, DiesErasing PROVE UpgradeInv'
<1> DEFINE keys == [ps EXCEPT !.closed = ram.data]
<1>1. ram.data \in 1 .. Sections /\ ~(ps.closed >= ram.data) /\ Boot(keys, FromBootBank)
    BY DEF DiesErasing, AlreadyHandled
<1>2. ps.key \notin Past /\ ps.upgrading
    BY <1>1, UpgradeAssumption DEF UpgradeInv, KeyInv, DataInv, TypeInv, Keys, Footer
<1>3. /\ keys \in Keys /\ keys.key = ps.key /\ keys.upgrading /\ keys.id \in Files
    <2>1. ps.id \in Files /\ ps \in Keys /\ ram.data \in 0 .. Sections
        BY <1>1, <1>2 DEF TypeInv, UpgradeInv, KeyInv
    <2>2. keys \in Keys
        BY <2>1, UpdatesOfKeys
    <2> QED
        BY <1>2, <2>1, <2>2 DEF Keys
<1>4. /\ FromBootBank \in Banks /\ FromBootBank.boot = flash.boot
      /\ FromBootBank.running = "boot"
    BY DEF FromBootBank, TypeInv, Banks
<1>5. Reset(keys, FromBootBank) /\ host'.next = "away"
    BY <1>1 DEF Boot, Away
<1> HIDE DEF keys
<1> QED
    BY <1>2, <1>3, <1>4, <1>5, RestartedFromBootBank

(* The new image is tried, or the loader falls back to the old one. *)
LEMMA SwapTryKeeps ==
    ASSUME TypeInv, UpgradeInv, SwapTry PROVE UpgradeInv'
<1>1. PICK bank \in {"boot", "other"} : Reset(ps, [flash EXCEPT !.running = bank])
    BY DEF SwapTry
<1> DEFINE banks == [flash EXCEPT !.running = bank]
<1>2. /\ banks \in Banks /\ banks.boot = flash.boot /\ banks.other = flash.other
      /\ banks.running = bank
    BY DEF TypeInv, Banks
<1>3. Reset(ps, banks) /\ host'.next = "away"
    BY <1>1 DEF SwapTry, Away
<1> HIDE DEF banks
<1>4. Has(ShutAudio, messages)
    BY HeadFacts, HeadQueued DEF SwapTry, Received
<1>5. ps.key \in Late \/ (ps.key = "START" /\ ps.closed = 0)
    BY <1>4 DEF UpgradeInv, CopyInv
<1>6. ps \in Keys /\ (ps.closed > 0 => ps.upgrading) /\ (ps.upgrading => ps.id \in Files)
      /\ (ps.key \in Past => ps.closed = Sections)
    BY DEF TypeInv, UpgradeInv, KeyInv
<1>7. /\ ps.key = "PRE_REBOOT" => Whole(banks.other, ps.id)
      /\ ps.key = "POST_REBOOT" => Whole(banks.other, ps.id)
      /\ ps.key = "ERASE" => Whole(banks.boot, ps.id)
      /\ \E file \in Files \cup {Factory} : Whole(banks.boot, file)
    BY <1>2, <1>4 DEF UpgradeInv, ImageInv, Quiet, BootImageOneFile
<1> QED
    BY <1>2, <1>3, <1>5, <1>6, <1>7, Restarted DEF Late

----------------------------------------------------------------------------
(* Handlers of the commit. *)

(* One UPGRADE_INTERNAL_CONTINUE leads to the verification. *)
LEMMA InProgressResKeeps ==
    ASSUME TypeInv, UpgradeInv, HandleInProgressRes PROVE UpgradeInv'
<1> DEFINE r == NoReconnectionTimeout(Rest)
           m == Signal("CONTINUE")
<1>1. /\ messages # <<>> /\ messages \in Seq(Message) /\ smState = "COMMIT_HOST_CONTINUE"
      /\ ps.key = "POST_REBOOT" /\ UNCHANGED <<ps, ram, flash, jobs, host>>
      /\ smState' \in {"COMMIT_VERIFICATION", "SYNC"} /\ messages' = Append(r, m)
    BY DEF HandleInProgressRes, Handled, Received, TypeInv, MoveToState, SetState, UpgradeInv,
        KeyInv
<1>2. Went(r, messages) /\ r \in Seq(Message)
    BY <1>1, RestWent DEF Went, Moved
<1>3. Moved(messages', messages)
    BY <1>1, <1>2, MovedAppend DEF Went
<1>4. flash.running = "other" => NoneAhead(Continue, Continue, messages')
    <2>1. flash.running = "other" => ~Has(Continue, r)
        BY <1>1, <1>2 DEF UpgradeInv, TriedInv, Went, FewerContinues
    <2>2. m \in Message
        BY MessageFacts DEF Signals
    <2>3. flash.running = "other" => NoneAhead(Continue, Continue, r)
        BY <2>1, NoneToBeAhead
    <2> HIDE DEF m, r
    <2>4. NoneAhead(Continue, Continue, r) /\ ~Has(Continue, r)
              => NoneAhead(Continue, Continue, Append(r, m))
        BY <1>2, <2>2, HasAppend
    <2> QED
        BY <1>1, <2>1, <2>3, <2>4
<1> HIDE DEF m, r
<1>5. KeyInv' /\ DataInv'
    BY <1>1 DEF UpgradeInv, KeyInv, DataInv
<1>6. HostInv'
    BY <1>1, <1>3, HostSteady DEF UpgradeInv, Moved
<1>7. HashInv' /\ EraseInv'
    BY <1>1, <1>3 DEF UpgradeInv, HashInv, EraseInv, Moved, Fewer
<1>8. CopyInv'
    BY <1>1, <1>3 DEF UpgradeInv, CopyInv, Late, Moved, Fewer
<1>9. TriedInv'
    BY <1>1, <1>3, <1>4 DEF UpgradeInv, TriedInv, Moved, Fewer
<1>10. ImageInv'
    BY <1>1, <1>3 DEF UpgradeInv, ImageInv, Quiet, BootImageOneFile, Moved, Fewer
<1> QED
    BY <1>5, <1>6, <1>7, <1>8, <1>9, <1>10 DEF UpgradeInv

(* It is used up when the host is asked to commit. *)
LEMMA CommitVerificationKeeps ==
    ASSUME TypeInv, UpgradeInv, HandleCommitVerification PROVE UpgradeInv'
<1>1. /\ messages # <<>> /\ messages \in Seq(Message) /\ smState = "COMMIT_VERIFICATION"
      /\ ps.key = "POST_REBOOT" /\ UNCHANGED <<ram, flash, jobs>>
      /\ Head(messages).id = "CONTINUE"
    BY DEF HandleCommitVerification, Handled, Received, TypeInv, UpgradeInv, KeyInv
<1>2. Went(Rest, messages) /\ Head(messages) \in Continue
    BY <1>1, RestWent, HeadFacts
<1>3. CASE flash.running # "other"
    BY <1>1, <1>2, <1>3, FatalErrorKeeps DEF HandleCommitVerification, Went, Moved
<1>4. CASE flash.running = "other"
    <2>1. /\ smState' = "COMMIT_CONFIRM" /\ messages' = Rest /\ ps' = ps
          /\ Tell({"IN_PROGRESS_RES"}, "COMMIT_CFM")
        BY <1>4 DEF HandleCommitVerification, SetState
    <2>2. ~Has(Continue, messages')
        BY <1>1, <1>2, <1>4, <2>1 DEF UpgradeInv, TriedInv, Went, DeliveredContinues
    <2>3. Moved(messages', messages)
        BY <1>2, <2>1 DEF Went
    <2>4. KeyInv' /\ DataInv'
        BY <1>1, <2>1 DEF UpgradeInv, KeyInv, DataInv
    <2>5. HostInv'
        <3>1. host' = host \/ host'.next = "COMMIT_CFM"
            BY <2>1 DEF Tell, TypeInv, HostOK, Hosts
        <3> QED
            BY <2>1, <2>3, <3>1, HostSteady DEF UpgradeInv, Moved
    <2>6. HashInv' /\ EraseInv'
        BY <1>1, <2>1, <2>3 DEF UpgradeInv, HashInv, EraseInv, Moved, Fewer
    <2>7. CopyInv'
        BY <1>1, <2>1, <2>3 DEF UpgradeInv, CopyInv, Late, Moved, Fewer
    <2>8. TriedInv'
        BY <1>1, <2>1, <2>2, <2>3 DEF UpgradeInv, TriedInv, Moved, Fewer
    <2>9. ImageInv'
        BY <1>1, <1>4, <2>1 DEF UpgradeInv, ImageInv, BootImageOneFile
    <2> QED
        BY <2>4, <2>5, <2>6, <2>7, <2>8, <2>9 DEF UpgradeInv
<1> QED
    BY <1>3, <1>4

(* The banks are swapped while nothing works on them. *)
LEMMA CommitConfirmKeeps ==
    ASSUME TypeInv, UpgradeInv, HandleCommitConfirm PROVE UpgradeInv'
<1>1. /\ messages # <<>> /\ messages \in Seq(Message) /\ smState = "COMMIT_CONFIRM"
      /\ ps.key = "POST_REBOOT" /\ UNCHANGED <<ps, ram, jobs, host>> /\ smState' = "COMMIT"
      /\ flash'.boot = flash.other /\ flash'.other = flash.boot /\ flash'.running = "boot"
    BY DEF HandleCommitConfirm, TypeInv, MoveToState, SetState, UpgradeInv, KeyInv
<1>2. Moved(messages', messages)
    BY <1>1, RestWent, MovedAppend DEF Went, HandleCommitConfirm, MoveToState, SetState
<1>3. Whole(flash.other, ps.id) /\ ps.id \in Files /\ flash.running = "other"
    BY <1>1 DEF UpgradeInv, ImageInv, KeyInv
<1>4. /\ ~In("copy", jobs') /\ ~Has(EraseStatus, messages') /\ ~Has(CopyStatus, messages')
      /\ ~Has(ShutAudio, messages')
    BY <1>1, <1>2, <1>3 DEF UpgradeInv, TriedInv, Moved, Fewer
<1>5. KeyInv' /\ DataInv'
    BY <1>1 DEF UpgradeInv, KeyInv, DataInv
<1>6. HostInv'
    BY <1>1, <1>2, HostSteady DEF UpgradeInv, Moved
<1>7. HashInv' /\ EraseInv'
    BY <1>1, <1>4 DEF HashInv, EraseInv
<1>8. CopyInv'
    BY <1>1, <1>2, <1>4 DEF UpgradeInv, CopyInv, Moved, Fewer
<1>9. TriedInv'
    BY <1>1 DEF TriedInv
<1>10. ImageInv'
    BY <1>1, <1>3, <1>4 DEF ImageInv, Quiet, BootImageOneFile
<1> QED
    BY <1>5, <1>6, <1>7, <1>8, <1>9, <1>10 DEF UpgradeInv

(* The host refuses to commit. *)
LEMMA CommitRefusedKeeps ==
    ASSUME TypeInv, UpgradeInv, HandleCommitRefused PROVE UpgradeInv'
<1>1. /\ messages # <<>> /\ messages \in Seq(Message) /\ smState = "COMMIT_CONFIRM"
      /\ ps.key = "POST_REBOOT" /\ UNCHANGED <<ps, flash, jobs, host>> /\ smState' = "SYNC"
      /\ messages' = Rest
    BY DEF HandleCommitRefused, Handled, Received, TypeInv, SetState, UpgradeInv, KeyInv
<1>2. Moved(messages', messages) /\ ram'.data = ram.data
    BY <1>1, RestWent DEF Went, HandleCommitRefused, TypeInv, Contexts
<1>3. KeyInv' /\ DataInv'
    BY <1>1, <1>2 DEF UpgradeInv, KeyInv, DataInv
<1>4. HostInv'
    BY <1>1, <1>2, HostSteady DEF UpgradeInv, Moved
<1>5. HashInv' /\ EraseInv'
    BY <1>1, <1>2 DEF UpgradeInv, HashInv, EraseInv, Moved, Fewer
<1>6. CopyInv'
    BY <1>1, <1>2 DEF UpgradeInv, CopyInv, Late, Moved, Fewer
<1>7. TriedInv'
    BY <1>1, <1>2 DEF UpgradeInv, TriedInv, Moved, Fewer
<1>8. ImageInv'
    BY <1>1 DEF UpgradeInv, ImageInv, BootImageOneFile
<1> QED
    BY <1>3, <1>4, <1>5, <1>6, <1>7, <1>8 DEF UpgradeInv

(* The new image is the boot image before the resume point says so. *)
LEMMA CommitKeeps ==
    ASSUME TypeInv, UpgradeInv, HandleCommit PROVE UpgradeInv'
<1>1. /\ messages # <<>> /\ messages \in Seq(Message) /\ smState = "COMMIT"
      /\ ps.key \in {"POST_REBOOT", "ERASE"} /\ UNCHANGED <<ram, flash, jobs, host, smState>>
      /\ messages' = Append(Rest, Signal("BLOCKING_IND"))
    BY DEF HandleCommit, Handled, Received, TypeInv, SetState, UpgradeInv, KeyInv
<1>2. Moved(messages', messages)
    BY <1>1, RestWent, WentAppend DEF Went
<1>3. /\ ps'.key = "ERASE" /\ ps'.id = ps.id /\ ps'.closed = ps.closed
      /\ ps'.upgrading = ps.upgrading
    BY DEF HandleCommit, TypeInv, Keys
<1>4. KeyInv' /\ DataInv'
    BY <1>1, <1>3 DEF UpgradeInv, KeyInv, DataInv, Past
<1>5. HostInv'
    BY <1>1, <1>2, HostSteady DEF UpgradeInv, Moved
<1>6. HashInv' /\ EraseInv'
    BY <1>1, <1>2, <1>3 DEF UpgradeInv, HashInv, EraseInv, Moved, Fewer
<1>7. CopyInv'
    BY <1>1, <1>2, <1>3 DEF UpgradeInv, CopyInv, Late, Moved, Fewer
<1>8. TriedInv'
    BY <1>1, <1>2, <1>3 DEF UpgradeInv, TriedInv, Moved, Fewer
<1>9. ImageInv'
    BY <1>1, <1>3 DEF UpgradeInv, ImageInv, BootImageOneFile
<1> QED
    BY <1>4, <1>5, <1>6, <1>7, <1>8, <1>9 DEF UpgradeInv

----------------------------------------------------------------------------
(* Handlers of the erase. *)

(* The keys are cleared before the bank is erased. *)
LEMMA EraseKeeps ==
    ASSUME TypeInv, UpgradeInv, HandleErase PROVE UpgradeInv'
<1>1. /\ messages # <<>> /\ messages \in Seq(Message) /\ smState' = "SYNC"
      /\ EraseAllManaged(ps.key) /\ ps' = ClearedKeys
      /\ host' = host \/ host'.next = "away"
      /\ messages' = Rest \/ messages' = BlockingOpIsDone(Rest)
    BY DEF HandleErase, Received, TypeInv, SetState, Away
<1>2. Moved(messages', messages)
    BY <1>1, RestWent DEF Went
<1>3. ps'.key = "START" /\ ps'.closed = 0 /\ ~ps'.upgrading
    BY <1>1 DEF ClearedKeys
<1>4. ram'.data \notin 1 .. Footer
    BY UpgradeAssumption DEF HandleErase, TypeInv, Contexts, NoData, Footer
<1>5. /\ flash'.boot = flash.boot
      /\ flash'.running = "other" => flash.running = "other" /\ jobs' = jobs
    BY <1>1 DEF EraseAllManaged, TypeInv, Banks
<1>6. (In("copy", jobs') => In("copy", jobs)) /\ NoneAhead({"erase"}, {"copy"}, jobs')
    <2>1. jobs' = jobs \/ jobs' = Append(jobs, "erase")
        BY <1>1 DEF EraseAllManaged
    <2>2. "erase" \in Jobs /\ jobs \in Seq(Jobs) /\ NoneAhead({"erase"}, {"copy"}, jobs)
        BY DEF Jobs, TypeInv, UpgradeInv, CopyInv
    <2>3. NoneAhead({"erase"}, {"copy"}, Append(jobs, "erase"))
        BY <2>2, JobsAppend
    <2>4. In("copy", Append(jobs, "erase")) <=> In("copy", jobs) \/ "copy" = "erase"
        BY <2>2, JobsAppend
    <2> QED
        BY <2>1, <2>2, <2>3, <2>4
<1>7. KeyInv' /\ DataInv'
    BY <1>1, <1>3, <1>4 DEF KeyInv, DataInv, Past
<1>8. HostInv'
    BY <1>1, <1>2, HostSteady DEF UpgradeInv, Moved
<1>9. HashInv' /\ EraseInv'
    BY <1>1, <1>3 DEF HashInv, EraseInv, NotLast, Before
<1>10. CopyInv'
    BY <1>1, <1>2, <1>3, <1>6 DEF UpgradeInv, CopyInv, Before, Moved, Fewer
<1>11. TriedInv'
    BY <1>1, <1>2, <1>3, <1>5 DEF UpgradeInv, TriedInv, Moved, Fewer
<1>12. ImageInv'
    BY <1>1, <1>3, <1>5 DEF UpgradeInv, ImageInv, BootImageOneFile
<1> QED
    BY <1>7, <1>8, <1>9, <1>10, <1>11, <1>12 DEF UpgradeInv

(* The report of an erase starts the transfer that waits for it, and no    *)
(* other.                                                                  *)
LEMMA EraseStatusKeeps ==
    ASSUME TypeInv, UpgradeInv, HandleEraseStatus PROVE UpgradeInv'
<1> DEFINE queue == BlockingOpIsDone(Rest)
<1>1. /\ messages # <<>> /\ messages \in Seq(Message) /\ Head(messages).id = "ERASE_STATUS"
    BY DEF HandleEraseStatus, Received, TypeInv
<1>2. Went(queue, messages) /\ Head(messages) \in EraseStatus /\ Has(EraseStatus, messages)
    BY <1>1, RestWent, HeadFacts, HeadQueued
<1>3. /\ flash.running # "other" /\ ~In("copy", jobs)
      /\ NoneAhead(EraseStatus, CopyStatus, messages)
    BY <1>2 DEF UpgradeInv, TriedInv, CopyInv
<1>4. CASE Boot(ps, FromBootBank) /\ ps.key = "START"
    <2>1. /\ FromBootBank \in Banks /\ FromBootBank.boot = flash.boot
          /\ FromBootBank.running = "boot"
        BY DEF FromBootBank, TypeInv, Banks
    <2>2. Reset(ps, FromBootBank) /\ host'.next = "away" /\ ps.key \notin Past
        BY <1>4 DEF Boot, Away, Past
    <2>3. ps \in Keys /\ (ps.closed > 0 => ps.upgrading) /\ (ps.upgrading => ps.id \in Files)
        BY DEF TypeInv, UpgradeInv, KeyInv
    <2> QED
        BY <2>1, <2>2, <2>3, RestartedFromBootBank
<1>5. CASE /\ ps.key = "START" /\ smState = "DATA_READY" /\ smState' = "DATA_TRANSFER"
           /\ messages' = queue /\ Tell({"START_DATA_REQ"}, "DATA")
           /\ UNCHANGED <<ps, ram, flash, jobs>>
    <2>1. ~Has(CopyStatus, messages') /\ Moved(messages', messages)
        BY <1>2, <1>3, <1>5 DEF Went, Moved, Delivered
    <2>2. ~Has(Data, messages') /\ \A B : NoneAhead(Data, B, messages')
        BY <1>5, <2>1, NoneToBeAhead DEF UpgradeInv, HostInv, Moved, Fewer
    <2> HIDE DEF queue
    <2>3. KeyInv' /\ DataInv'
        BY <1>5 DEF UpgradeInv, KeyInv, DataInv
    <2>4. HostInv'
        <3>1. host' = host \/ (host.next = "START_DATA_REQ" /\ host'.next = "DATA")
            BY <1>5 DEF Tell, TypeInv, HostOK, Hosts
        <3> QED
            BY <1>5, <2>1, <3>1 DEF UpgradeInv, HostInv, Moved, Fewer
    <2>5. HashInv' /\ EraseInv'
        BY <1>5, <2>1, <2>2 DEF UpgradeInv, HashInv, EraseInv, NotLast, Before, Moved, Fewer
    <2>6. CopyInv'
        BY <1>3, <1>5, <2>1, <2>2 DEF UpgradeInv, CopyInv, Before, Late, Moved, Fewer
    <2>7. TriedInv' /\ ImageInv'
        BY <1>3, <1>5 DEF UpgradeInv, TriedInv, ImageInv, BootImageOneFile
    <2> QED
        BY <2>3, <2>4, <2>5, <2>6, <2>7 DEF UpgradeInv
<1>6. CASE FatalError(queue) /\ UNCHANGED <<ram, flash, jobs>>
    BY <1>2, <1>6, FatalErrorKeeps DEF Went, Moved
<1>7. CASE /\ UNCHANGED <<smState, ps, flash, jobs>> /\ messages' = queue
           /\ ram' = ram \/ ram' = [ram EXCEPT !.asynchronous_abort = FALSE]
           /\ host' = host \/ host'.next = "away"
    <2>1. ram'.data = ram.data
        BY <1>7 DEF TypeInv, Contexts
    <2> QED
        BY <1>2, <1>3, <1>7, <2>1, SteadyHandler DEF Went, Moved
<1>8. TellAborted => host' = host \/ host'.next = "away"
    BY DEF TellAborted, Away
<1> QED
    BY <1>4, <1>5, <1>6, <1>7, <1>8 DEF HandleEraseStatus, SetState

----------------------------------------------------------------------------
(* The host and the firmware. *)

(* The host sends a step only when the last one was answered. *)
LEMMA HostSendsKeeps ==
    ASSUME TypeInv, UpgradeInv, HostSends PROVE UpgradeInv'
<1>1. PICK arg \in HostArgs(host.next) :
            /\ messages' = Append(messages, Msg(host.next, arg))
            /\ \/ host' = [host EXCEPT !.next = "ABORT_REQ"]
               \/ host' = [host EXCEPT !.sent = TRUE]
            /\ host.next \in {"SYNC_REQ", "START_REQ", "DATA"} =>
                  host' = [host EXCEPT !.sent = TRUE]
    BY DEF HostSends, Questions
<1>2. UNCHANGED <<smState, ps, ram, flash, jobs>> /\ ~host.sent
    BY DEF HostSends
<1> DEFINE m == Msg(host.next, arg)
<1>3. m \in Message
    <2>1. /\ host.next \in Requests \ {"away", "COMPLETE"} /\ host.file \in Files
        BY DEF HostSends, TypeInv, HostOK, Hosts
    <2> QED
        BY <2>1, MessageFacts DEF HostArgs, Requests, Questions, Signals, Signal, Yes, No
<1>4. /\ m \in Steps <=> host.next \in {"SYNC_REQ", "START_REQ", "DATA"}
      /\ m \in Data => host.next = "DATA"
    BY <1>3 DEF Steps, Data, Kind, Msg
<1>5. /\ m \notin HashDone /\ m \notin EraseStatus /\ m \notin CopyStatus /\ m \notin ShutAudio
      /\ m \notin Continue
    BY DEF TypeInv, HostOK, Hosts, Requests, Questions, HashDone, EraseStatus, CopyStatus,
        ShutAudio, Continue, Kind, Msg
<1>6. messages \in Seq(Message) /\ messages' = Append(messages, m)
    BY <1>1 DEF TypeInv
<1>7. /\ host'.next \in {host.next, "ABORT_REQ"}
      /\ m \in Steps => host'.next = host.next /\ host'.sent
    BY <1>1, <1>4 DEF TypeInv, HostOK, Hosts
<1> HIDE DEF m
<1>8. /\ In("erase", jobs') = In("erase", jobs) /\ In("copy", jobs') = In("copy", jobs)
      /\ NoneAhead({"erase"}, {"copy"}, jobs')
    BY <1>2 DEF UpgradeInv, CopyInv
<1>9. CASE m \notin Steps
    <2>1. Fewer(messages', messages) /\ FewerContinues(messages', messages)
        BY <1>3, <1>5, <1>6, <1>9, FewerAppend
    <2>2. HostInv'
        BY <1>2, <1>4, <1>7, <1>9, <2>1 DEF UpgradeInv, HostInv, Fewer
    <2> QED
        BY <1>2, <1>8, <2>1, <2>2, Steady
<1>10. CASE m \in Steps
    <2>1. \A A, B : /\ Has(A, messages') <=> Has(A, messages) \/ m \in A
                    /\ NoneAhead(A, B, messages) /\ (m \in B => ~Has(A, messages))
                          => NoneAhead(A, B, messages')
        BY <1>3, <1>6, HasAppend
    <2>2. ~Has(Steps, messages)
        BY <1>2, <1>4, <1>10 DEF UpgradeInv, HostInv
    <2>3. KeyInv' /\ DataInv'
        BY <1>2 DEF UpgradeInv, KeyInv, DataInv
    <2>4. HostInv'
        <3>1. smState \in {"READY", "DATA_READY"} => m \notin Data
            BY <1>2, <1>4 DEF UpgradeInv, HostInv
        <3> QED
            BY <1>2, <1>4, <1>7, <1>10, <2>1, <2>2, <3>1 DEF UpgradeInv, HostInv
    <2>5. HashInv' /\ EraseInv'
        BY <1>2, <1>5, <2>1 DEF UpgradeInv, HashInv, EraseInv, NotLast, Before
    <2>6. CopyInv'
        BY <1>2, <1>5, <2>1 DEF UpgradeInv, CopyInv, Before
    <2>7. TriedInv'
        BY <1>2, <1>5, <2>1 DEF UpgradeInv, TriedInv
    <2>8. ImageInv'
        BY <1>2, <1>5, <2>1 DEF UpgradeInv, ImageInv, Quiet, BootImageOneFile
    <2> QED
        BY <2>3, <2>4, <2>5, <2>6, <2>7, <2>8 DEF UpgradeInv
<1> QED
    BY <1>9, <1>10

(* A report that comes before the last data of the file that is received. *)
LEMMA ReportedEarly ==
    ASSUME TypeInv, UpgradeInv, ps.key = "START", ps.closed # Sections,
           NEW m \in Message, m \notin Data, NEW B, messages' = Append(messages, m),
           UNCHANGED <<smState, ps, ram>>
    PROVE  NotLast(B)'
<1>1. smState \in {"SYNC", "READY", "DATA_READY", "DATA_TRANSFER"}
    BY DEF TypeInv, States, UpgradeInv, KeyInv, DataInv
<1>2. smState = "DATA_TRANSFER" => ram.data < Footer
    BY UpgradeAssumption
       DEF TypeInv, Contexts, Keys, NoData, Footer, UpgradeInv, DataInv
<1>3. smState \in {"READY", "DATA_READY"} => NoneAhead(Data, B, messages')
    <2>1. messages \in Seq(Message)
        BY DEF TypeInv
    <2>2. Has(Data, messages') <=> Has(Data, messages) \/ m \in Data
        BY <2>1, HasAppend
    <2> QED
        BY <2>2, NoneToBeAhead DEF UpgradeInv, HostInv
<1> QED
    BY <1>1, <1>2, <1>3 DEF NotLast, Before

(* An erase ends, that of a bank that no resume point relies on. *)
LEMMA EraseEndsKeeps ==
    ASSUME TypeInv, UpgradeInv, JobEnds, Head(jobs) = "erase" PROVE UpgradeInv'
<1>1. UNCHANGED <<smState, ps, ram, host>> /\ jobs # <<>> /\ jobs' = Tail(jobs)
    BY DEF JobEnds
<1>2. PICK status \in {Failed, Done} :
            messages' = Append(messages, Msg("ERASE_STATUS", status))
    BY DEF JobEnds
<1> DEFINE m == Msg("ERASE_STATUS", status)
<1>3. flash'.boot = flash.boot /\ flash'.running = flash.running
    <2>1. PICK sections \in SUBSET (1 .. Sections) : flash' = EraseSome(sections)
        BY DEF JobEnds
    <2> QED
        BY <2>1, EraseSomeType DEF TypeInv
<1>4. /\ m \in Message /\ m \in EraseStatus /\ m \notin Steps /\ m \notin HashDone
      /\ m \notin CopyStatus /\ m \notin ShutAudio /\ m \notin Continue /\ m \notin Data
    BY <1>2, MessageFacts
       DEF Statuses, Done, Failed, Msg, Steps, HashDone, EraseStatus, CopyStatus, ShutAudio,
           Continue, Data, Kind
<1> HIDE DEF m
<1>5. \A A, B : /\ Has(A, messages') <=> Has(A, messages) \/ m \in A
                /\ NoneAhead(A, B, messages) /\ (m \in B => ~Has(A, messages))
                      => NoneAhead(A, B, messages')
    BY <1>2, <1>4, HasAppend DEF TypeInv, m
<1>6. /\ In("erase", jobs) /\ ~In("copy", jobs')
      /\ NoneAhead({"erase"}, {"copy"}, jobs')
    <2>1. jobs \in Seq(Jobs) /\ NoneAhead({"erase"}, {"copy"}, jobs)
        BY DEF Jobs, TypeInv, UpgradeInv, CopyInv
    <2> QED
        BY <1>1, <2>1, JobsTail
<1>7. ps.closed = 0 /\ ps.closed # Sections
    BY <1>6, UpgradeAssumption DEF UpgradeInv, DataInv
<1>8. ps.key \notin Past /\ flash.running # "other"
    BY <1>6, <1>7 DEF UpgradeInv, KeyInv, TriedInv
<1>9. ps.key \in {"START", "ERROR"}
    BY <1>8 DEF TypeInv, Keys, ResumePoints, Past
<1>10. KeyInv' /\ DataInv'
    BY <1>1, <1>7 DEF UpgradeInv, KeyInv, DataInv
<1>11. HostInv'
    BY <1>1, <1>4, <1>5 DEF UpgradeInv, HostInv
<1>12. HashInv'
    BY <1>1, <1>4, <1>5, <1>7 DEF UpgradeInv, HashInv, NotLast, Before
<1>13. EraseInv'
    BY <1>1, <1>2, <1>4, <1>7, <1>9, ReportedEarly DEF EraseInv, m
<1>14. CopyInv'
    BY <1>1, <1>4, <1>5, <1>6 DEF UpgradeInv, CopyInv, Before
<1>15. TriedInv'
    BY <1>3, <1>8 DEF TriedInv
<1>16. ImageInv'
    BY <1>1, <1>3, <1>8 DEF UpgradeInv, KeyInv, ImageInv, Past, BootImageOneFile
<1> QED
    BY <1>10, <1>11, <1>12, <1>13, <1>14, <1>15, <1>16 DEF UpgradeInv

(* The hash was computed. *)
LEMMA HashEndsKeeps ==
    ASSUME TypeInv, UpgradeInv, JobEnds, Head(jobs) = "hash" PROVE UpgradeInv'
<1>1. UNCHANGED <<smState, ps, ram, host, flash>> /\ jobs # <<>> /\ jobs' = Tail(jobs)
    BY DEF JobEnds
<1>2. PICK status \in {Failed, Done} :
            /\ status = Done => Whole(flash.other, ps.id)
            /\ messages' = Append(messages, Msg("HASH_STATUS", status))
    BY DEF JobEnds
<1> DEFINE m == Msg("HASH_STATUS", status)
<1>3. /\ m \in Message /\ m \notin Steps /\ m \notin EraseStatus
      /\ m \notin CopyStatus /\ m \notin ShutAudio /\ m \notin Continue /\ m \notin Data
      /\ m \in HashDone => Whole(flash.other, ps.id)
    BY <1>2, MessageFacts
       DEF Statuses, Done, Failed, Msg, Steps, HashDone, EraseStatus, CopyStatus, ShutAudio,
           Continue, Data, Kind
<1>4. messages' = Append(messages, m)
    BY <1>2
<1> HIDE DEF m
<1>5. \A A, B : /\ Has(A, messages') <=> Has(A, messages) \/ m \in A
                /\ NoneAhead(A, B, messages) /\ (m \in B => ~Has(A, messages))
                      => NoneAhead(A, B, messages')
    BY <1>3, <1>4, HasAppend DEF TypeInv
<1>6. /\ In("erase", jobs') <=> In("erase", jobs)
      /\ In("copy", jobs') <=> In("copy", jobs)
      /\ NoneAhead({"erase"}, {"copy"}, jobs')
    <2>1. jobs \in Seq(Jobs) /\ NoneAhead({"erase"}, {"copy"}, jobs)
        BY DEF Jobs, TypeInv, UpgradeInv, CopyInv
    <2>2. \A e : In(e, jobs) <=> In(e, Tail(jobs)) \/ e = "hash"
        BY <1>1, <2>1, JobsTail
    <2>3. NoneAhead({"erase"}, {"copy"}, Tail(jobs))
        BY <1>1, <2>1, JobsTail
    <2> QED
        BY <1>1, <2>2, <2>3
<1>7. KeyInv' /\ DataInv'
    BY <1>1, <1>6 DEF UpgradeInv, KeyInv, DataInv
<1>8. HostInv'
    BY <1>1, <1>3, <1>5 DEF UpgradeInv, HostInv
<1>9. HashInv'
    <2>1. CASE m \in HashDone
        BY <1>1, <1>3, <1>4, <2>1, ReportedEarly DEF HashInv
    <2>2. CASE m \notin HashDone
        BY <1>1, <1>3, <1>5, <2>2 DEF UpgradeInv, HashInv, NotLast, Before
    <2> QED
        BY <2>1, <2>2
<1>10. EraseInv'
    BY <1>1, <1>3, <1>5 DEF UpgradeInv, EraseInv, NotLast, Before
<1>11. CopyInv'
    BY <1>1, <1>3, <1>5, <1>6 DEF UpgradeInv, CopyInv, Before
<1>12. TriedInv'
    BY <1>1, <1>3, <1>5, <1>6 DEF UpgradeInv, TriedInv
<1>13. ImageInv'
    BY <1>1, <1>3, <1>5, <1>6 DEF UpgradeInv, ImageInv, Quiet, BootImageOneFile
<1> QED
    BY <1>7, <1>8, <1>9, <1>10, <1>11, <1>12, <1>13 DEF UpgradeInv

(* The sections that the file does not change were copied. *)
LEMMA CopyEndsKeeps ==
    ASSUME TypeInv, UpgradeInv, JobEnds, Head(jobs) = "copy" PROVE UpgradeInv'
<1>1. UNCHANGED <<smState, ps, ram, host>> /\ jobs # <<>> /\ jobs' = Tail(jobs)
    BY DEF JobEnds
<1>2. PICK status \in {Failed, Done} :
            /\ messages' = Append(messages, Msg("COPY_STATUS", status))
            /\ flash' = [flash EXCEPT !.copied = @ \/ status = Done]
    BY DEF JobEnds
<1> DEFINE m == Msg("COPY_STATUS", status)
<1>3. /\ m \in Message /\ m \notin Steps /\ m \notin EraseStatus /\ m \notin HashDone
      /\ m \notin ShutAudio /\ m \notin Continue /\ m \notin Data
    BY <1>2, MessageFacts
       DEF Statuses, Done, Failed, Msg, Steps, HashDone, EraseStatus, ShutAudio, Continue, Data,
           Kind
<1>4. messages' = Append(messages, m)
    BY <1>2
<1> HIDE DEF m
<1>5. \A A, B : /\ Has(A, messages') <=> Has(A, messages) \/ m \in A
                /\ NoneAhead(A, B, messages) /\ (m \in B => ~Has(A, messages))
                      => NoneAhead(A, B, messages')
    BY <1>3, <1>4, HasAppend DEF TypeInv
<1>6. flash'.boot = flash.boot /\ flash'.other = flash.other /\ flash'.running = flash.running
    BY <1>2 DEF TypeInv, Banks
<1>7. /\ In("copy", jobs) /\ (In("erase", jobs') => In("erase", jobs))
      /\ NoneAhead({"erase"}, {"copy"}, jobs')
    <2>1. jobs \in Seq(Jobs) /\ NoneAhead({"erase"}, {"copy"}, jobs)
        BY DEF Jobs, TypeInv, UpgradeInv, CopyInv
    <2>2. \A e : In(e, jobs) <=> In(e, Tail(jobs)) \/ e = "copy"
        BY <1>1, <2>1, JobsTail
    <2>3. NoneAhead({"erase"}, {"copy"}, Tail(jobs))
        BY <1>1, <2>1, JobsTail
    <2> QED
        BY <1>1, <2>2, <2>3
<1>8. flash.running # "other" /\ ~Has(EraseStatus, messages)
    BY <1>7 DEF UpgradeInv, TriedInv, CopyInv
<1>9. KeyInv' /\ DataInv'
    BY <1>1, <1>7 DEF UpgradeInv, KeyInv, DataInv
<1>10. HostInv'
    BY <1>1, <1>3, <1>5 DEF UpgradeInv, HostInv
<1>11. HashInv' /\ EraseInv'
    BY <1>1, <1>3, <1>5, <1>6 DEF UpgradeInv, HashInv, EraseInv, NotLast, Before
<1>12. CopyInv'
    BY <1>1, <1>3, <1>5, <1>7, <1>8 DEF UpgradeInv, CopyInv, Before
<1>13. TriedInv'
    BY <1>6, <1>8 DEF TriedInv
<1>14. ImageInv'
    BY <1>1, <1>6, <1>7 DEF UpgradeInv, ImageInv, Quiet, BootImageOneFile
<1> QED
    BY <1>9, <1>10, <1>11, <1>12, <1>13, <1>14 DEF UpgradeInv

----------------------------------------------------------------------------

(* The first state has the invariant. *)
LEMMA InvInit == Init => UpgradeInv
<1> SUFFICES ASSUME Init PROVE UpgradeInv
    OBVIOUS
<1>1. /\ smState = "SYNC" /\ ps = ClearedKeys /\ ram = RamInit /\ jobs = <<>> /\ messages = <<>>
      /\ flash.boot = [s \in 1 .. Sections |-> Factory] /\ flash.running = "boot"
      /\ host = Away(SESSIONS)
    BY DEF Init
<1>2. \A A : ~Has(A, messages)
    BY <1>1, NoneInEmpty
<1>3. \A A, B : NoneAhead(A, B, messages)
    BY <1>2, NoneToBeAhead
<1>4. NoneAhead({"erase"}, {"copy"}, jobs) /\ ~In("erase", jobs) /\ ~In("copy", jobs)
    BY <1>1 DEF NoneAhead, In
<1>5. ps.key = "START" /\ ps.closed = 0 /\ ~ps.upgrading /\ host.next = "away"
    BY <1>1 DEF ClearedKeys, Away
<1>6. ram.data \notin 1 .. Footer
    BY <1>1, UpgradeAssumption DEF RamInit, NoData, Footer
<1>7. KeyInv /\ DataInv
    BY <1>1, <1>5, <1>6 DEF KeyInv, DataInv, Past
<1>8. HostInv
    BY <1>1, <1>2, <1>3, <1>5 DEF HostInv
<1>9. HashInv /\ EraseInv
    BY <1>2 DEF HashInv, EraseInv
<1>10. CopyInv
    BY <1>2, <1>3, <1>4 DEF CopyInv
<1>11. TriedInv
    BY <1>1 DEF TriedInv
<1>12. ImageInv
    BY <1>1, <1>5 DEF ImageInv, BootImageOneFile, Whole
<1> QED
    BY <1>7, <1>8, <1>9, <1>10, <1>11, <1>12 DEF UpgradeInv

(* Every step keeps the invariant. *)
LEMMA InvStep ==
    ASSUME TypeInv, UpgradeInv, [Next]_vars PROVE UpgradeInv'
<1>1. CASE UNCHANGED vars
    <2>1. UNCHANGED <<smState, ps, ram, flash, jobs, messages, host>>
        BY <1>1 DEF vars
    <2>2. /\ In("erase", jobs') = In("erase", jobs) /\ In("copy", jobs') = In("copy", jobs)
          /\ NoneAhead({"erase"}, {"copy"}, jobs')
          /\ Fewer(messages', messages) /\ FewerContinues(messages', messages)
        BY <2>1 DEF UpgradeInv, CopyInv, Fewer, FewerContinues
    <2>3. HostInv'
        BY <2>1 DEF UpgradeInv, HostInv
    <2> QED
        BY <2>1, <2>2, <2>3, Steady
<1>2. CASE Deliver
    <2>1. CASE \/ HandleSyncReq \/ HandleReady \/ HandleDataReady
               \/ HandleData \/ HandleLastData \/ HandleBadData
        BY <2>1, SyncReqKeeps, ReadyKeeps, DataReadyKeeps, DataKeeps, LastDataKeeps, BadDataKeeps
    <2>2. CASE \/ StartHash \/ HandleHashStatus \/ HandleValidating
               \/ HandleCopyStatus \/ HandleTransferCompleteRes \/ HandleReboot
        BY <2>2, StartHashKeeps, HashStatusKeeps, ValidatingKeeps, CopyStatusKeeps,
           TransferCompleteResKeeps, RebootKeeps
    <2>3. CASE \/ HandleInProgressRes \/ HandleCommitVerification \/ HandleCommitConfirm
               \/ HandleCommitRefused \/ HandleCommit
        BY <2>3, InProgressResKeeps, CommitVerificationKeeps, CommitConfirmKeeps,
           CommitRefusedKeeps, CommitKeeps
    <2>4. CASE \/ HandleAbortReq \/ HandleErase \/ HandleEraseStatus \/ SwapTry
               \/ HandleReconnectionTimeout \/ HandleDelayRevertReboot
        BY <2>4, AbortReqKeeps, EraseKeeps, EraseStatusKeeps, SwapTryKeeps, RebootsKeep
    <2>5. CASE \/ AskToApply \/ HandleIsCsrValidDone \/ TransferComplete \/ HandleErrorWarnRes
               \/ HandleBlockingInd \/ Ignore
        BY <2>5, PassingKeeps
    <2> QED
        BY <1>2, <2>1, <2>2, <2>3, <2>4, <2>5 DEF Deliver
<1>3. CASE JobEnds
    <2>1. Head(jobs) \in {"erase", "hash", "copy"}
        BY <1>3 DEF JobEnds
    <2> QED
        BY <1>3, <2>1, EraseEndsKeeps, HashEndsKeeps, CopyEndsKeeps
<1>4. CASE TimerExpires \/ Disconnects \/ HostAborts
    BY <1>4, OutsideKeeps
<1>5. CASE Connects \/ HostSends
    BY <1>5, ConnectsKeeps, HostSendsKeeps
<1>6. CASE PowerLoss \/ DiesWriting \/ DiesErasing
    BY <1>6, PowerLossKeeps, DiesWritingKeeps, DiesErasingKeeps
<1> QED
    BY <1>1, <1>2, <1>3, <1>4, <1>5, <1>6 DEF Next

(* Both invariants hold throughout. *)
THEOREM UpgradeInvariant == Spec => [](TypeInv /\ UpgradeInv)
<1>1. Init => TypeInv /\ UpgradeInv
    BY TypeInit, InvInit
<1>2. TypeInv /\ UpgradeInv /\ [Next]_vars => (TypeInv /\ UpgradeInv)'
    <2> SUFFICES ASSUME TypeInv, UpgradeInv, [Next]_vars PROVE (TypeInv /\ UpgradeInv)'
        OBVIOUS
    <2>1. UpgradeInv'
        BY InvStep
    <2>2. TypeInv'
        <3>1. CASE Next
            BY <3>1, TypeStep
        <3>2. CASE UNCHANGED vars
            BY <3>2 DEF vars, TypeInv
        <3> QED
            BY <3>1, <3>2
    <2> QED
        BY <2>1, <2>2
<1> QED
    BY <1>1, <1>2, PTL DEF Spec

(* The resume point that a reset finds is true of the flash. *)
THEOREM ResumePointIsHonest == Spec => []ResumePointHonest
<1>1. UpgradeInv => ResumePointHonest
    BY DEF UpgradeInv, ImageInv, ResumePointHonest
<1> QED
    BY <1>1, UpgradeInvariant, PTL

(* Files are never mixed in the image that the loader starts, and nothing  *)
(* incomplete is committed.                                                *)
THEOREM BootImageIsOneFile == Spec => []BootImageOneFile
<1>1. UpgradeInv => BootImageOneFile
    BY DEF UpgradeInv, ImageInv
<1> QED
    BY <1>1, UpgradeInvariant, PTL
(* The image that the loader starts changes in HandleCommitConfirm only. *)
LEMMA BootImageKept ==
    ASSUME TypeInv, Next, ~HandleCommitConfirm
    PROVE  flash'.boot = flash.boot
<1>1. flash \in Banks
    BY DEF TypeInv
<1>2. CASE flash' = flash
    BY <1>2
<1>3. CASE EraseAllManaged(ps.key)
    BY <1>1, <1>3 DEF EraseAllManaged, Banks
<1>4. ASSUME NEW keys, NEW bank, Reset(keys, [flash EXCEPT !.running = bank])
      PROVE  flash'.boot = flash.boot
    BY <1>1, <1>4 DEF Reset, Banks
<1>5. CASE HandleData
    <2>1. CASE flash' = [flash EXCEPT !.other[ram.data] = Arg]
        BY <1>1, <2>1 DEF Banks
    <2> QED
        BY <1>2, <1>5, <2>1 DEF HandleData
<1>6. CASE JobEnds
    <2>1. CASE \E sections \in SUBSET (1 .. Sections) : flash' = EraseSome(sections)
        BY <1>1, <2>1, EraseSomeType
    <2>2. CASE \E status \in {Failed, Done} : flash' = [flash EXCEPT !.copied = @ \/ status = Done]
        BY <1>1, <2>2 DEF Banks
    <2> QED
        BY <1>2, <1>6, <2>1, <2>2 DEF JobEnds
<1>7. CASE PowerLoss
    <2>1. PICK sections \in SUBSET (1 .. Sections) :
                flash' = [EraseSome(sections) EXCEPT !.running = "boot"]
        BY <1>7 DEF PowerLoss, Boot, Reset
    <2>2. EraseSome(sections) \in Banks /\ EraseSome(sections).boot = flash.boot
        BY <1>1, EraseSomeType
    <2> QED
        BY <2>1, <2>2 DEF Banks
<1>8. CASE DiesWriting
    <2>1. FromBootBank \in Banks /\ FromBootBank.boot = flash.boot
        BY <1>1 DEF FromBootBank, Banks
    <2>2. flash' = [FromBootBank EXCEPT !.other[ram.data] = Arg]
        BY <1>8 DEF DiesWriting, Boot, Reset
    <2> QED
        BY <2>1, <2>2 DEF Banks
<1>9. CASE SwapTry \/ HandleReconnectionTimeout \/ HandleDelayRevertReboot \/ DiesErasing
    BY <1>4, <1>9
       DEF SwapTry, HandleReconnectionTimeout, HandleDelayRevertReboot, DiesErasing, Boot,
           FromBootBank
<1>10. CASE HandleEraseStatus
    BY <1>2, <1>4, <1>10 DEF HandleEraseStatus, Boot, FromBootBank
<1>11. CASE HandleDataReady \/ HandleErase
    BY <1>2, <1>3, <1>11 DEF HandleDataReady, HandleErase
<1>12. CASE \/ HandleSyncReq \/ HandleReady \/ HandleLastData \/ HandleBadData
            \/ StartHash \/ HandleHashStatus \/ HandleValidating \/ HandleIsCsrValidDone
            \/ TransferComplete \/ HandleCopyStatus \/ HandleTransferCompleteRes \/ AskToApply
            \/ HandleReboot
    BY <1>2, <1>12
       DEF HandleSyncReq, HandleReady, HandleLastData, HandleBadData, StartHash,
           HandleHashStatus, HandleValidating, HandleIsCsrValidDone, TransferComplete,
           HandleCopyStatus, HandleTransferCompleteRes, AskToApply, HandleReboot
<1>13. CASE \/ HandleInProgressRes \/ HandleCommitVerification \/ HandleCommitRefused
            \/ HandleCommit \/ HandleAbortReq \/ HandleErrorWarnRes \/ HandleBlockingInd
            \/ Ignore \/ TimerExpires \/ Connects \/ Disconnects \/ HostAborts \/ HostSends
    BY <1>2, <1>13
       DEF HandleInProgressRes, HandleCommitVerification, HandleCommitRefused, HandleCommit,
           HandleAbortReq, HandleErrorWarnRes, HandleBlockingInd, Ignore, TimerExpires,
           Connects, Disconnects, HostAborts, HostSends
<1> QED
    BY <1>5, <1>6, <1>7, <1>8, <1>9, <1>10, <1>11, <1>12, <1>13 DEF Next, Deliver

(* The boot image changes only when the host says so: in COMMIT_CONFIRM    *)
(* the new image is running, and UPGRADE_INTERNAL_CONTINUE is not queued.  *)
THEOREM CommitIsConfirmedByHost == Spec => CommitConfirmedByHost
<1>1. ASSUME TypeInv, UpgradeInv, [Next]_vars
      PROVE  [flash'.boot # flash.boot => Head(messages) = Msg("COMMIT_CFM", Yes)]_vars
    <2>1. CASE UNCHANGED vars
        BY <2>1
    <2>2. CASE Next /\ ~HandleCommitConfirm
        BY <1>1, <2>2, BootImageKept
    <2>3. CASE HandleCommitConfirm
        <3>1. flash.running = "other" /\ ~Has(Continue, messages)
            BY <1>1, <2>3 DEF HandleCommitConfirm, UpgradeInv, ImageInv, TriedInv
        <3>2. messages # <<>> /\ Head(messages) \in {Msg("COMMIT_CFM", Yes), Signal("CONTINUE")}
            BY <2>3 DEF HandleCommitConfirm
        <3>3. Head(messages) # Signal("CONTINUE")
            <4>1. Signal("CONTINUE").id = "CONTINUE"
                BY DEF Signal, Msg
            <4> QED
                BY <1>1, <3>1, <3>2, <4>1, HeadFacts, HeadQueued
        <3> QED
            BY <3>2, <3>3
    <2> QED
        BY <1>1, <2>1, <2>2, <2>3
<1> QED
    BY <1>1, UpgradeInvariant, PTL DEF Spec, CommitConfirmedByHost
=============================================================================
