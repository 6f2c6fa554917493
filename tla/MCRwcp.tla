------------------------------- MODULE MCRwcp -------------------------------
(* TLC instance of RwcpTransfer: 4 sequence numbers stand for the 64 and a *)
(* window of 2 for the 32, so that numbers wrap within a short transfer.   *)
EXTENDS RwcpTransfer
=============================================================================
