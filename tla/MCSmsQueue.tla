----------------------------- MODULE MCSmsQueue -----------------------------
(***************************************************************************)
(* A small instance of SmsQueue: a text and a PDU message, and for the run *)
(* about the number of attempts a text alone.                              *)
(***************************************************************************)
EXTENDS SmsQueue

MCMsg     == {"m1", "m2"}
MCMode    == [m \in MCMsg |-> IF m = "m1" THEN "text" ELSE "pdu"]
MCOne     == {"m1"}
MCOneMode == [m \in MCOne |-> "text"]
=============================================================================
