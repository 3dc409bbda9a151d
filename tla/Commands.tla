------------------------------ MODULE Commands ------------------------------
(***************************************************************************)
(* What the AT command engine promises whoever sends a command, however    *)
(* often it is transmitted and whatever timeouts there are: it is          *)
(* transmitted before it is judged, judged once, and its end callback is   *)
(* told before the command ends or another takes its place.                *)
(* GsmMainTask, SmsQueue, SmsReceive and VoiceCall take the engine at this *)
(* grain.                                                                  *)
(***************************************************************************)
CONSTANTS
  Cmd, None,   \* the commands; no command
  sendCb,      \* sendCb[c]: what the send callback of c may do
  endCb        \* endCb[c][o]: what the end callback of c may do with outcome o

VARIABLES
  phase,       \* "SEND", "WAIT" after the first transmission, "OK" or "ERROR"
  cmd,         \* the command, or None
  verdict      \* what the modem made of it: "OK", "ERROR", or yet "none"

vars == <<phase, cmd, verdict>>

Init == phase = "OK" /\ cmd = None /\ verdict = "none"

Load(c, p) == phase' = p /\ cmd' = c /\ verdict' = "none"

\* A caller's command, or the next one of the chain.
Begin(c) == phase \in {"OK", "ERROR"} /\ Load(c, "SEND")

Transmit ==
  /\ phase = "SEND" /\ "send" \in sendCb[cmd]
  /\ phase' = "WAIT"
  /\ UNCHANGED <<cmd, verdict>>

\* A send callback loads d, whose answer is awaited without transmission.
Skip(d) ==
  /\ phase \in {"SEND", "WAIT"} /\ verdict = "none"
  /\ d \in sendCb[cmd]
  /\ Load(d, "WAIT")

Judge(o) ==
  /\ phase = "WAIT" /\ verdict = "none"
  /\ verdict' = o
  /\ UNCHANGED <<phase, cmd>>

\* The end callback is told; it lets the command end, or ends it in OK.
End ==
  /\ phase = "WAIT" /\ verdict # "none"
  /\ \/ "done" \in endCb[cmd][verdict] /\ phase' = verdict
     \/ "setok" \in endCb[cmd][verdict] /\ phase' = "OK"
  /\ verdict' = "none"
  /\ UNCHANGED cmd

\* The end callback is told, and loads d.
Replace(d) ==
  /\ phase = "WAIT" /\ verdict # "none"
  /\ d \in endCb[cmd][verdict]
  /\ Load(d, "SEND")

\* The main task forces the engine to rest.
Force == phase' = "OK" /\ verdict' = "none" /\ UNCHANGED cmd

Next ==
  \/ \E c \in Cmd : Begin(c) \/ Skip(c) \/ Replace(c)
  \/ Transmit \/ End \/ Force
  \/ \E o \in {"OK", "ERROR"} : Judge(o)

Spec == Init /\ [][Next]_vars
=============================================================================
