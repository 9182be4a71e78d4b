------------------------- MODULE MCQueueProcessor -------------------------
(* Instances of QueueProcessor for TLC. *)
EXTENDS QueueProcessor, TLC

CONSTANTS c1, c2

TwoClients == {c1, c2}
=============================================================================
