--------------------------- MODULE PowerHandshake ---------------------------
(***************************************************************************)
(* What the power manager promises its clients: the device goes down only  *)
(* when every client it asked has answered, a client that joins while      *)
(* others prepare is asked too, and once all have answered the device goes *)
(* down or is awake again.                                                 *)
(***************************************************************************)
EXTENDS FiniteSets

CONSTANT Clients

VARIABLES phase,  \* "awake", what clients prepare for, or how it ended
          waiting \* clients that have not answered

handshakeVars == <<phase, waiting>>

Reasons == {"shutdown", "sleep"}

Init == phase = "awake" /\ waiting = {}

Asks ==
    /\ phase = "awake"
    /\ phase' \in Reasons
    /\ waiting' \in (SUBSET Clients) \ {{}}

Joins(c) ==
    /\ phase \in Reasons
    /\ waiting' = waiting \cup {c}
    /\ UNCHANGED phase

Answers(c) ==
    /\ c \in waiting
    /\ waiting' = waiting \ {c}
    /\ phase' \in IF waiting' = {} THEN {"awake", "down"} ELSE {phase}

(* Before any client has registered there is nobody to ask. *)
GoesDownAlone == phase = "awake" /\ phase' = "down" /\ UNCHANGED waiting

(* A client's assertion fails and resets the device. *)
Panics ==
    /\ phase # "down"
    /\ phase' = "panicked"
    /\ UNCHANGED waiting

Next ==
    \/ Asks \/ GoesDownAlone \/ Panics
    \/ \E c \in Clients : Joins(c) \/ Answers(c)

(* Every client that was asked answers, unless the device is reset. *)
Spec ==
    /\ Init /\ [][Next]_handshakeVars
    /\ \A c \in Clients : WF_handshakeVars(Answers(c) /\ phase # "panicked")
=============================================================================
