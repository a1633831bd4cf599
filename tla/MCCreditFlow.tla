--------------------------- MODULE MCCreditFlow ---------------------------
(* A small credit account: windows of 2, 4 and 8 bytes. *)
EXTENDS CreditFlow

MCWindow == [i \in 0..2 |-> 2 ^ (i + 1)]
============================================================================
