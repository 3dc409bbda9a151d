------------------------------- MODULE FlashFs -------------------------------
(***************************************************************************)
(* ampm_ff/ampm_ff.c on flash_mem/sst25.c: files in the sectors of a serial*)
(* flash, without any table.                                               *)
(*                                                                         *)
(* Every sector of a file starts with a header, which names the file and   *)
(* its first sector.  A sector that is followed by another holds a link    *)
(* record, and the first sector of a file that was closed holds a close    *)
(* record.  A sector is in use when its header is well formed and the      *)
(* header of the first sector that it names is too.                        *)
(*                                                                         *)
(* Each step is one write or erase of the flash; the power may fail between*)
(* any two, and what was only in memory is gone.  A record that is         *)
(* programmed in part is not well formed (its checksum comes last).  Writes*)
(* at the start of a sector erase it first, the others do not.             *)
(*                                                                         *)
(* The unit of data is what a sector holds.  One task uses one file at a   *)
(* time: all files share ampm_file_buf and there is no lock.               *)
(***************************************************************************)
EXTENDS Integers, Sequences

CONSTANTS
  Name,         \* file names
  N,            \* DISK_SECTOR_MAX
  MaxBlocks,    \* the sectors that 100000 bytes, the limit of a file, take
  MaxFiles,     \* bound: files made in a behaviour
  MaxCuts       \* bound: power failures in a behaviour

ASSUME FlashAssumption ==
  /\ N \in Nat \ {0} /\ MaxBlocks \in Nat \ {0}
  /\ MaxFiles \in Nat /\ MaxCuts \in Nat

Sector  == 0 .. N - 1
Outside == N          \* what the scans take for a sector after the last
None    == -1         \* an erased record, or no sector
Blank   == [name |-> "", start |-> None]
Header  == [name : Name, start : Sector]
Gen     == 1 .. MaxFiles

VARIABLES
  header,       \* header[s]: the header record of sector s, or Blank
  link,         \* link[s]: next_sector of its link record, or None
  closeRec,     \* closeRec[s]: sectors of the file, in its close record, or None
  data,         \* data[s]: <<file, number>> of the data it holds, or <<>>
  op,           \* where the code is
  fil,          \* the AMPM_FIL of the file open for writing, and its sectors
  arg,          \* a local variable of the code: a sector
  cuts,         \* power failures so far
  made,         \* history: files made so far
  kept,         \* history: the files closed and not unlinked since
  abandoned,    \* history: the disk was full or a file at its limit, and a file
                \* was left without a close record since the last start
  stray         \* history: an unlink found its file through a stale sector

flash == <<header, link, closeRec, data>>
hist  == <<made, kept, abandoned, stray>>
vars  == <<flash, op, fil, arg, cuts, hist>>

File   == [gen : Gen, name : Name, sectors : Seq(Sector)]
NoFile == [gen |-> 0, name |-> "", sectors |-> <<>>]
Ops == {"cleanup", "idle", "create", "createHead", "link", "next", "nextHead",
        "closeRec", "unlink"}

TypeOK ==
  /\ header \in [Sector -> Header \cup {Blank}]
  /\ link \in [Sector -> Sector \cup {Outside, None}]
  /\ closeRec \in [Sector -> Nat \cup {None}]
  /\ data \in [Sector -> (Gen \X Nat) \cup {<<>>}]
  /\ op \in Ops
  /\ fil \in File \cup {NoFile}
  /\ arg \in Sector \cup {Outside}
  /\ cuts \in 0 .. MaxCuts
  /\ made \in 0 .. MaxFiles
  /\ kept \subseteq File
  /\ abandoned \in BOOLEAN
  /\ stray \in BOOLEAN

\* A formatted disk (ampm_f_disk_format), before ampm_f_init.
Init ==
  /\ header = [s \in Sector |-> Blank]
  /\ link = [s \in Sector |-> None]
  /\ closeRec = [s \in Sector |-> None]
  /\ data = [s \in Sector |-> <<>>]
  /\ op = "cleanup"
  /\ fil = NoFile
  /\ arg = 0
  /\ cuts = 0
  /\ made = 0
  /\ kept = {}
  /\ abandoned = FALSE
  /\ stray = FALSE

-----------------------------------------------------------------------------
(* What the code reads.                                                    *)

\* A faulty check that takes only the first sectors of files for used.
FirstInUse(s) == header[s] # Blank /\ header[s].start = s

\* ampm_f_file_format_check of sector s.
InUse(s) == header[s] # Blank /\ header[header[s].start] # Blank

\* The header that a check that succeeds leaves in *fil.
Found(s) == header[header[s].start]

\* What the scans take for free.
Free == {s \in Sector : ~InUse(s)} \cup {Outside}

\* The scan of ampm_f_open and ampm_f_find_free_sector from rand_sec = r:
\* down from r - 1 to 0, then up from r + 1, to Outside too; r is left out.
\* Before(r, i, j): the scan comes to i before it comes to j.
Before(r, i, j) ==
  /\ i # r
  /\ \/ i < r /\ (j < i \/ j >= r)
     \/ i > r /\ i < j /\ j > r

\* The sector that the scan from r gives to a file.
Allocates(r, p) ==
  /\ p \in Free \ {r}
  /\ \A i \in Free : ~Before(r, i, p)

\* A faulty open that looks for the close record in the sector it found.
AcceptsHere(i, n) == InUse(i) /\ Found(i).name = n /\ closeRec[i] # None

\* ampm_f_open for reading accepts sector i for name n.
Accepts(i, n) ==
  /\ InUse(i)
  /\ Found(i).name = n
  /\ closeRec[Found(i).start] # None

\* It returns the file whose first sector is s.
Opens(r, n, s) ==
  \E i \in Sector :
    /\ i # r /\ Accepts(i, n)
    /\ \A j \in Sector : Before(r, j, i) => ~Accepts(j, n)
    /\ s = Found(i).start

\* The first and the second sector that ampm_f_read takes from file s.
ReadSector(s, k) == IF k = 1 THEN s ELSE link[s]

\* SST25_Erase of a sector.
Erase(s) ==
  /\ header' = [header EXCEPT ![s] = Blank]
  /\ link' = [link EXCEPT ![s] = None]
  /\ closeRec' = [closeRec EXCEPT ![s] = None]
  /\ data' = [data EXCEPT ![s] = <<>>]

-----------------------------------------------------------------------------
(* ampm_f_open to create a file.                                           *)

\* The scan, and the erase that SST25_Write does at the start of a sector.
\* A scan that comes to Outside makes a file that every other call refuses:
\* the disk and the task stay as they are.
Create(n) ==
  /\ op = "idle" /\ fil = NoFile /\ made < MaxFiles
  /\ \E r, p \in Sector :
       /\ Allocates(r, p)
       /\ Erase(p)
       /\ arg' = p
       /\ fil' = [gen |-> made + 1, name |-> n, sectors |-> <<p>>]
  /\ made' = made + 1
  /\ op' = "createHead"
  /\ UNCHANGED <<cuts, kept, abandoned, stray>>

Start   == fil.sectors[1]
Current == fil.sectors[Len(fil.sectors)]

PutHeader(s) ==
  header' = [header EXCEPT ![s] = [name |-> fil.name, start |-> Start]]

CreateHead ==
  /\ op = "createHead"
  /\ PutHeader(arg)
  /\ op' = "idle"
  /\ UNCHANGED <<link, closeRec, data, fil, arg, cuts, hist>>

-----------------------------------------------------------------------------
(* ampm_f_write, as far as it fills the current sector.  A shorter write   *)
(* changes nothing that the close does not write again.                    *)

FillData ==
  data' = [data EXCEPT ![Current] = <<fil.gen, Len(fil.sectors)>>]

Write ==
  /\ op = "idle" /\ fil # NoFile /\ Len(fil.sectors) < MaxBlocks
  /\ FillData
  /\ \E r \in Sector, p \in Free : Allocates(r, p) /\ arg' = p
  /\ op' = "link"
  /\ UNCHANGED <<header, link, closeRec, fil, cuts, hist>>

WriteLink ==
  /\ op = "link"
  /\ link' = [link EXCEPT ![Current] = arg]
  /\ op' = "next"
  /\ UNCHANGED <<header, closeRec, data, fil, arg, cuts, hist>>

\* After the last sector no call accepts the file any more.
WriteNext ==
  /\ op = "next"
  /\ IF arg = Outside
       THEN /\ op' = "idle" /\ fil' = NoFile /\ abandoned' = TRUE
            /\ UNCHANGED flash
       ELSE /\ Erase(arg)
            /\ op' = "nextHead"
            /\ fil' = [fil EXCEPT !.sectors = Append(@, arg)]
            /\ UNCHANGED abandoned
  /\ UNCHANGED <<arg, cuts, made, kept, stray>>

WriteNextHead ==
  /\ op = "nextHead"
  /\ PutHeader(arg)
  /\ op' = "idle"
  /\ UNCHANGED <<link, closeRec, data, fil, arg, cuts, hist>>

-----------------------------------------------------------------------------
(* ampm_f_close.                                                           *)

\* A faulty close that writes the close record before the last page.
CloseRecordFirst ==
  /\ op = "idle" /\ fil # NoFile
  /\ closeRec' = [closeRec EXCEPT ![Start] = Len(fil.sectors)]
  /\ op' = "closeRec"
  /\ UNCHANGED <<header, link, data, fil, arg, cuts, hist>>

\* The last page.
Close ==
  /\ op = "idle" /\ fil # NoFile
  /\ FillData
  /\ op' = "closeRec"
  /\ UNCHANGED <<header, link, closeRec, fil, arg, cuts, hist>>

\* Below 100000 bytes.
CloseRecord ==
  /\ op = "closeRec"
  /\ closeRec' = [closeRec EXCEPT ![Start] = Len(fil.sectors)]
  /\ kept' = kept \cup {fil}
  /\ fil' = NoFile
  /\ op' = "idle"
  /\ UNCHANGED <<header, link, data, arg, cuts, made, abandoned, stray>>

\* At the limit the close leaves no close record.  With more than 100000
\* bytes it is refused before it writes anything (line 356); with exactly
\* 100000 it answers FR_OK and writes a record that no check accepts, for
\* the check wants less (line 86).  (A write that starts below the limit and
\* goes on into a further sector is left out.)
CloseAtLimit ==
  /\ op \in {"idle", "closeRec"} /\ fil # NoFile
  /\ Len(fil.sectors) = MaxBlocks
  /\ fil' = NoFile
  /\ abandoned' = TRUE
  /\ op' = "idle"
  /\ UNCHANGED <<flash, arg, cuts, made, kept, stray>>

-----------------------------------------------------------------------------
(* ampm_f_unlink.                                                          *)

\* The sector it stops at: the first in use that leads to the name.
Unlinks(n, i) ==
  /\ InUse(i) /\ Found(i).name = n
  /\ \A j \in Sector : j < i => ~(InUse(j) /\ Found(j).name = n)

\* A faulty unlink that erases the sector it stops at before the first one.
UnlinkOtherFirst(n) ==
  /\ op = "idle" /\ fil = NoFile
  /\ \E i \in Sector :
       LET s == Found(i).start IN
       /\ Unlinks(n, i)
       /\ Erase(i)
       /\ kept' = {f \in kept : ~(f.name = n /\ f.sectors[1] = s)}
       /\ stray' = (stray \/ s # header[i].start)
       /\ arg' = s
  /\ op' = "unlink"
  /\ UNCHANGED <<fil, cuts, made, abandoned>>

\* The first of its two erases.  The header that sector i leads to is not
\* the first of a file when i was left over from a file that is gone.
Unlink(n) ==
  /\ op = "idle" /\ fil = NoFile
  /\ \E i \in Sector :
       LET s == Found(i).start IN
       /\ Unlinks(n, i)
       /\ Erase(s)
       /\ kept' = {f \in kept : ~(f.name = n /\ f.sectors[1] = s)}
       /\ stray' = (stray \/ s # header[i].start)
       /\ arg' = i
  /\ op' = "unlink"
  /\ UNCHANGED <<fil, cuts, made, abandoned>>

UnlinkSecond ==
  /\ op = "unlink"
  /\ Erase(arg)
  /\ op' = "idle"
  /\ UNCHANGED <<fil, arg, cuts, hist>>

-----------------------------------------------------------------------------
(* Power failure and ampm_f_init: ampm_f_disk_cleanup looks at each sector.*)

PowerCut ==
  /\ cuts < MaxCuts
  /\ cuts' = cuts + 1
  /\ op' = "cleanup" /\ arg' = 0
  /\ fil' = NoFile
  /\ UNCHANGED <<flash, hist>>

\* Lines 127-134: the file that sector i leads to was not closed.
Unfinished(i) ==
  /\ InUse(i)
  /\ header[Found(i).start] # Blank
  /\ closeRec[header[Found(i).start].start] = None

\* A faulty cleanup that stops one sector too early.
CleanupShort ==
  /\ op = "cleanup"
  /\ IF arg + 1 \in Sector
       THEN arg' = arg + 1 /\ UNCHANGED <<op, abandoned>>
            /\ (IF Unfinished(arg) THEN Erase(Found(arg).start) ELSE UNCHANGED flash)
       ELSE op' = "idle" /\ arg' = 0 /\ abandoned' = FALSE /\ UNCHANGED flash
  /\ UNCHANGED <<fil, cuts, made, kept, stray>>

Cleanup ==
  /\ op = "cleanup"
  /\ IF Unfinished(arg) THEN Erase(Found(arg).start) ELSE UNCHANGED flash
  /\ IF arg + 1 \in Sector
       THEN arg' = arg + 1 /\ UNCHANGED <<op, abandoned>>
       ELSE op' = "idle" /\ arg' = 0 /\ abandoned' = FALSE
  /\ UNCHANGED <<fil, cuts, made, kept, stray>>

-----------------------------------------------------------------------------
Next ==
  \/ \E n \in Name : Create(n) \/ Unlink(n)
  \/ CreateHead
  \/ Write \/ WriteLink \/ WriteNext \/ WriteNextHead
  \/ Close \/ CloseRecord \/ CloseAtLimit
  \/ UnlinkSecond
  \/ PowerCut \/ Cleanup

Spec == Init /\ [][Next]_vars

-----------------------------------------------------------------------------
(* The sectors of a file that was closed keep its name, its data and its   *)
(* chain, whatever is created, written, unlinked, cleaned up or cut short  *)
(* after it, until it is unlinked itself.  (Once an unlink has found its   *)
(* file through a sector left over from another one, it may have erased    *)
(* anything.)                                                              *)
Intact(f) ==
  /\ closeRec[f.sectors[1]] = Len(f.sectors)
  /\ \A k \in DOMAIN f.sectors :
       /\ header[f.sectors[k]] = [name |-> f.name, start |-> f.sectors[1]]
       /\ data[f.sectors[k]] = <<f.gen, k>>
       /\ k < Len(f.sectors) => link[f.sectors[k]] = f.sectors[k + 1]

KeptIntact == ~stray => \A f \in kept : Intact(f)

(* Every sector that leads to a name leads straight to the first sector of *)
(* a file.  A sector left over from an unlinked file need not: the sector  *)
(* it names may by now be a later sector of another one, or left over too. *)
Straight(n) ==
  \A i \in Sector : InUse(i) /\ Found(i).name = n => Found(i).start = header[i].start

(* A reader never gets a file that was cut short: what ampm_f_open accepts *)
(* was closed, and the first two sectors read from it are its own.  (From  *)
(* the third on ampm_f_next_sector reads the second again.)  Unless left-  *)
(* over sectors lead to the name, it was closed under the name opened.     *)
OpenIsWhole ==
  ~stray =>
    \A r, s \in Sector, n \in Name :
      Opens(r, n, s) =>
        \E f \in kept :
          /\ f.sectors[1] = s
          /\ Straight(n) => f.name = n
          /\ \A k \in DOMAIN f.sectors :
               k <= 2 => data[ReadSector(s, k)] = <<f.gen, k>>

(* ampm_f_open finds the file that was closed, or another closed file of   *)
(* its name when there are several, from any start of its scan but one: the*)
(* sector it starts at is left out.  (When left-over sectors lead to the   *)
(* name it may return a file of another name.)                             *)
ClosedIsFound ==
  ~stray =>
    \A f \in kept, r \in Sector :
      Straight(f.name) /\ (\E k \in DOMAIN f.sectors : f.sectors[k] # r)
        => \E g \in kept : g.name = f.name /\ Opens(r, f.name, g.sectors[1])

(* What is on the flash: the files that a close record and a chain of links*)
(* of its length make up.                                                  *)
Starts == {s \in Sector : header[s] # Blank /\ header[s].start = s /\ closeRec[s] # None}

Chains(s) == {q \in [1 .. closeRec[s] -> Sector] :
                /\ q[1] = s
                /\ \A k \in 1 .. closeRec[s] - 1 : link[q[k]] = q[k + 1]}

OnDisk == {[name |-> header[q[1]].name,
            content |-> [k \in DOMAIN q |-> data[q[k]]]] :
              q \in UNION {Chains(s) : s \in Starts}}

Store == INSTANCE FileStore WITH
  files  <- IF stray THEN {} ELSE OnDisk,
  last   <- IF fil = NoFile THEN made ELSE made - 1,
  astray <- stray

(* Wherever the power fails and whatever half written or left-over sectors *)
(* there are, the files on the flash change one at a time and as a whole,  *)
(* by the one write of a close record and by the first erase of an unlink, *)
(* and what is gone does not come back.                                    *)
IsFileStore == Store!Spec

(* "clear all err file" (ampm_ff.c:120), for the first sectors of files:   *)
(* whenever the cleanup is over, wherever the power failed before, only the*)
(* file that is open for writing has no close record, unless the disk was  *)
(* full or a file at its limit since.                                      *)
CleanupClears ==
  op = "idle" /\ ~abandoned =>
    \A s \in Sector :
      header[s] # Blank /\ header[s].start = s /\ closeRec[s] = None
        => fil # NoFile /\ Start = s
=============================================================================
