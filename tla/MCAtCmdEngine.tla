--------------------------- MODULE MCAtCmdEngine ---------------------------
(***************************************************************************)
(* A small instance of AtCmdEngine: the SMS sending chain in miniature,    *)
(*   AT -> (end callback sends) CMGF -> CMGS -> (end callback sends) end,  *)
(* whose CMGS finds no number, or no service center, to send to, with a    *)
(* CREG query after an error, the reading command whose callback waits for *)
(* the text, and a startup command with Ampm_SetCmdOK.                     *)
(***************************************************************************)
EXTENDS AtCmdEngine

MCCmd == {"AT", "CMGF", "CMGS", "end", "CREG", "CMGR", "F"}

MCNext ==
  [c \in MCCmd |-> CASE c = "AT" -> "CMGF" [] c = "CMGF" -> "CMGS"
                     [] c = "CMGS" -> "end" [] OTHER -> "NULL"]

MCRetry == [c \in MCCmd |-> IF c = "CREG" THEN 0 ELSE IF c = "F" THEN 2 ELSE 1]

MCSendCb ==
  [c \in MCCmd |-> IF c = "CMGS" THEN {"send", "end", "AT"} ELSE {"send"}]

Both(r) == [o \in Outcome |-> r]

MCEndCb ==
  [c \in MCCmd |->
    CASE c = "AT"   -> Both({"CMGF"})
      [] c = "CMGF" -> Both({"done", "end"})
      [] c = "CMGS" -> [o \in Outcome |-> IF o = "OK" THEN {"end"} ELSE {"CREG"}]
      [] c = "CMGR" -> [o \in Outcome |-> {"wait", "end"}]
      [] c = "F"    -> Both({"setok"})
      [] OTHER      -> Both({"done"})]
=============================================================================
