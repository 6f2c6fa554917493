------------------------------- MODULE Queues -------------------------------
(***************************************************************************)
(* What the models say about a queue of messages: which messages it holds, *)
(* in which order, and how messages are cancelled (message.h:              *)
(* MessageCancelAll; MessageCancelFirst is RemoveFirst of SequencesExt).   *)
(* QueueProofs has the facts about them.                                   *)
(***************************************************************************)
EXTENDS Naturals, Sequences, FiniteSets

Queued(m, q) == \E i \in DOMAIN q : q[i] = m

(* At most one such message is queued. *)
Once(m, q) == \A i, j \in DOMAIN q : q[i] = m /\ q[j] = m => i = j

(* Every m is delivered before any n. *)
Ahead(m, n, q) == \A i, j \in DOMAIN q : q[i] = m /\ q[j] = n => i < j

(* MessageCancelAll, for the messages of a set: SelectSeq in a form that   *)
(* can be reasoned about.                                                  *)
CancelAll(q, cancelled) ==
    LET Kept[i \in 0 .. Len(q)] ==
            IF i = 0 THEN <<>>
            ELSE IF q[i] \in cancelled THEN Kept[i - 1] ELSE Append(Kept[i - 1], q[i])
    IN  Kept[Len(q)]

(* How many of the messages of a set are queued. *)
Count(T, q) == Cardinality({i \in DOMAIN q : q[i] \in T})

(* The numbers of S that are not greater than n, lowest first. *)
Ascending(n, S) == CancelAll([i \in 1 .. n |-> i], (1 .. n) \ S)
=============================================================================
