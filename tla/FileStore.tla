------------------------------ MODULE FileStore ------------------------------
(***************************************************************************)
(* What a flash file system promises whoever writes files and may lose the *)
(* power at any time: a file appears when it is closed, at once and whole, *)
(* stays as it is, disappears at once when it is unlinked, and does not    *)
(* come back.  Files are numbered in the order in which they are begun.    *)
(***************************************************************************)
EXTENDS Integers

CONSTANTS
  Name,        \* the names of files
  MaxBlocks    \* the blocks a file may have

VARIABLES
  files,       \* the files there are
  last,        \* every file up to this number was closed, or was lost
  astray       \* an unlink has found a wrong file

vars == <<files, last, astray>>

\* File g whole: each of its m blocks, in their order.
Whole(g, n, m) == [name |-> n, content |-> [k \in 1 .. m |-> <<g, k>>]]

Init ==
  /\ files = {}
  /\ last = 0
  /\ astray = FALSE

\* A file is closed.
Publish ==
  /\ last' > last
  /\ \E n \in Name, m \in 1 .. MaxBlocks :
       files' = files \cup {Whole(last', n, m)}
  /\ UNCHANGED astray

\* A file is unlinked.
Remove ==
  /\ \E f \in files : files' = files \ {f}
  /\ UNCHANGED <<last, astray>>

\* The file that is being written is lost.
Lose ==
  /\ last' > last
  /\ UNCHANGED <<files, astray>>

\* After this nothing is promised of the files.
GoAstray ==
  /\ ~astray /\ astray'
  /\ files' = {}
  /\ UNCHANGED last

Next == Publish \/ Remove \/ Lose \/ GoAstray

Spec == Init /\ [][Next]_vars
=============================================================================
