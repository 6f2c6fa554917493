-------------------------- MODULE MCTwoSecondaries --------------------------
(* A schedule of the topologies and of the radio for two earbuds, that     *)
(* otherwise take their messages in any order.  Each is cancelled once     *)
(* and searches again while the link is still up.                          *)
EXTENDS MCFindRole

VARIABLE step  \* the next step of the schedule

At(k) == step = k /\ step' = k + 1

\* Left connects and becomes the server; right writes that left is secondary.
FirstLink ==
    \/ At(1) /\ FindRole(left)
    \/ At(2) /\ FindRole(right)
    \/ At(3) /\ Expire(right)
    \/ At(4) /\ AdvReport(left)
    \/ At(5) /\ LinkUp(left)
    \/ At(6) /\ GattUp(left)
    \/ At(7) /\ GattUp(right)
    \/ At(8) /\ Encrypt
    \/ At(9) /\ Receive(right)

\* Left is cancelled, does not close the link when its timeout comes, and searches
\* again.  It is told its role by the write, of which right hears nothing any more.
SearchesAgain ==
    \/ At(10) /\ FindRoleCancel(left)
    \/ At(11) /\ Expire(left)
    \/ At(12) /\ FindRole(left)
    \/ At(13) /\ Expire(left)
    \/ At(14) /\ Receive(left)
    \/ At(15) /\ LinkLost

\* Right connects, is cancelled while it waits for encryption, and searches again:
\* GATT makes it the client.
SecondLink ==
    \/ At(16) /\ AdvReport(right)
    \/ At(17) /\ LinkUp(right)
    \/ At(18) /\ FindRoleCancel(right)
    \/ At(19) /\ Encrypt
    \/ At(20) /\ FindRole(right)
    \/ At(21) /\ Expire(right)
    \/ At(22) /\ GattUp(right)

\* Left, that has completed its search as secondary, still answers as a GATT server.
\* Right writes that left is primary, is confirmed, and becomes secondary.
SecondRole ==
    \/ At(23) /\ Expire(right)
    \/ At(24) /\ GattUp(left)
    \/ At(25) /\ Receive(left)
    \/ At(26) /\ Receive(right)
    \/ At(27) /\ Receive(left)
    \/ At(28) /\ Receive(right)
    \/ At(29) /\ LinkCloses

Scheduled ==
    \/ \E e \in Earbud : (Deliver(e) \/ ScanStops(e)) /\ UNCHANGED step
    \/ FirstLink \/ SearchesAgain \/ SecondLink \/ SecondRole

ScheduledSpec == (Init /\ step = 1) /\ [][Scheduled]_<<vars, step>>
=============================================================================
