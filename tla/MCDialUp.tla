------------------------------ MODULE MCDialUp ------------------------------
(***************************************************************************)
(* A small instance of DialUp: a dial-up chain of three commands, resent   *)
(* once like those of the source, and another part of the program with a   *)
(* chain of two, so that a dial-up may find the engine busy.               *)
(***************************************************************************)
EXTENDS DialUp

MCCmd   == {"AT", "CGDCONT", "ATD", "CSQ", "CLIP"}
MCChain == <<"AT", "CGDCONT", "ATD">>

MCNext ==
  [c \in MCCmd |-> CASE c = "AT" -> "CGDCONT" [] c = "CGDCONT" -> "ATD"
                     [] c = "CSQ" -> "CLIP" [] OTHER -> "NULL"]

MCRetry  == [c \in MCCmd |-> IF c \in {"CSQ", "CLIP"} THEN 0 ELSE 1]
MCSendCb == [c \in MCCmd |-> {"send"}]
MCEndCb  == [c \in MCCmd |-> [o \in Outcome |-> {"done"}]]
=============================================================================
