----------------------------- MODULE MCFindRole -----------------------------
(* Two earbuds, interchangeable, that both have a client to prepare.       *)
EXTENDS PeerFindRole, TLC

CONSTANTS left, right

Symmetry == Permutations(Earbud)
=============================================================================
