---------------------------- MODULE FlashFsProofs ----------------------------
(***************************************************************************)
(* What FlashFs promises of the files on the flash, for every number of    *)
(* sectors, names, files and power failures.                               *)
(***************************************************************************)
EXTENDS FlashFs, WellFoundedInduction, TLAPS

(* Where the code is says which file is open and what its local variable   *)
(* holds.                                                                  *)
Shape ==
  /\ fil # NoFile => Len(fil.sectors) >= 1
  /\ op \in {"createHead", "link", "next", "nextHead", "closeRec"} => fil # NoFile
  /\ op \in {"cleanup", "unlink"} => fil = NoFile /\ arg \in Sector
  /\ op \in {"createHead", "nextHead"} => arg = Current
  /\ op = "createHead" => Len(fil.sectors) = 1
  /\ \A f \in kept : Len(f.sectors) >= 1

(* The file that is being written is whole but for its last sector.        *)
FilHeader == \A k \in 1 .. Len(fil.sectors) :
  \/ k = Len(fil.sectors) /\ op \in {"createHead", "nextHead"}
  \/ header[fil.sectors[k]] = [name |-> fil.name, start |-> Start]
FilData == \A k \in 1 .. Len(fil.sectors) :
  \/ k = Len(fil.sectors) /\ op \notin {"link", "next", "closeRec"}
  \/ data[fil.sectors[k]] = <<fil.gen, k>>
FilLinks == \A k \in 1 .. Len(fil.sectors) - 1 :
  link[fil.sectors[k]] = fil.sectors[k + 1]
FilDistinct == \A j, k \in 1 .. Len(fil.sectors) :
  fil.sectors[j] = fil.sectors[k] => j = k
FilNext ==
  /\ op = "next" => link[Current] = arg
  /\ op \in {"link", "next"} =>
       \A k \in 1 .. Len(fil.sectors) : fil.sectors[k] # arg

FilOK ==
  fil # NoFile => FilHeader /\ FilData /\ FilLinks /\ FilDistinct /\ FilNext

(* A sector without a close record that a file starts in is the one being  *)
(* written, or was left when the disk was full or the file at its limit, or*)
(* is still to be looked at by the cleanup.                                *)
Orphan(s) == header[s] # Blank /\ header[s].start = s /\ closeRec[s] = None
Clear ==
  \A s \in Sector : Orphan(s) =>
    IF op = "cleanup" THEN s >= arg
                      ELSE abandoned \/ (fil # NoFile /\ Start = s)

(* As long as no unlink went astray: what is written or erased next is not *)
(* part of a closed file, and only closed files have close records.        *)
Apart(s) == \A f \in kept : \A k \in 1 .. Len(f.sectors) : f.sectors[k] # s
ArgApart == op \in {"link", "next", "unlink"} => Apart(arg)
FilApart == fil # NoFile => \A j \in 1 .. Len(fil.sectors) : Apart(fil.sectors[j])
Closed == \A s \in Sector :
  closeRec[s] # None => \E f \in kept : f.sectors[1] = s
AllIntact == \A f \in kept : Intact(f)

KeptOK == ~stray => ArgApart /\ FilApart /\ Closed /\ AllIntact

IInv == TypeOK /\ Shape /\ FilOK /\ Clear /\ KeptOK

-----------------------------------------------------------------------------
(* The blank record is no header, and no file is NoFile.                   *)
LEMMA Distinctions ==
  /\ \A h \in Header : h # Blank
  /\ NoFile \notin File
  /\ Outside \notin Sector /\ None \notin Sector /\ Outside # None
  /\ Sector # {} /\ 0 \in Sector
  /\ \A f \in File : f.gen \in Gen
<1>1. /\ Outside \notin Sector /\ None \notin Sector /\ Outside # None
      /\ Sector # {} /\ 0 \in Sector
  BY FlashAssumption DEF Outside, Sector, None
<1>2. \A h \in Header : h # Blank
  <2>1. Blank.start = None
    BY DEF Blank
  <2>2. \A h \in Header : h.start \in Sector
    BY DEF Header
  <2> QED  BY <1>1, <2>1, <2>2
<1>3. \A f \in File : f.gen \in Gen
  BY DEF File
<1>4. NoFile \notin File
  <2>1. NoFile.gen = 0 /\ 0 \notin Gen
    BY FlashAssumption DEF NoFile, Gen
  <2> QED  BY <1>3, <2>1
<1> QED  BY <1>1, <1>2, <1>3, <1>4

(* A header that is not blank names a file and its first sector.           *)
LEMMA HeaderStart ==
  ASSUME NEW h \in Header \cup {Blank}, h # Blank
  PROVE  h \in Header /\ h.start \in Sector /\ h.name \in Name
BY DEF Header

(* An erase is a step of four functions of the sectors.                    *)
LEMMA EraseType ==
  ASSUME TypeOK, NEW s \in Sector, Erase(s)
  PROVE  /\ header' \in [Sector -> Header \cup {Blank}]
         /\ link' \in [Sector -> Sector \cup {Outside, None}]
         /\ closeRec' \in [Sector -> Nat \cup {None}]
         /\ data' \in [Sector -> (Gen \X Nat) \cup {<<>>}]
BY DEF TypeOK, Erase

(* The file that is open for writing has a first and a current sector.     *)
LEMMA OpenFile ==
  ASSUME TypeOK, Shape, fil # NoFile
  PROVE  /\ fil \in File /\ fil.gen \in Gen /\ fil.name \in Name
         /\ fil.sectors \in Seq(Sector)
         /\ Len(fil.sectors) \in Nat \ {0}
         /\ Start \in Sector /\ Current \in Sector
         /\ \A k \in 1 .. Len(fil.sectors) : fil.sectors[k] \in Sector
<1>1. fil \in File
  BY DEF TypeOK
<1>2. fil.sectors \in Seq(Sector) /\ Len(fil.sectors) \in Nat \ {0}
  BY <1>1 DEF File, Shape
<1>3. \A k \in 1 .. Len(fil.sectors) : fil.sectors[k] \in Sector
  BY <1>2
<1>4. 1 \in 1 .. Len(fil.sectors) /\ Len(fil.sectors) \in 1 .. Len(fil.sectors)
  BY <1>2
<1> QED  BY <1>1, <1>2, <1>3, <1>4 DEF File, Start, Current

(* What the scan of ampm_f_open leads to (ampm_ff.c:95-107).               *)
LEMMA InUseSector ==
  ASSUME TypeOK, NEW i \in Sector, InUse(i)
  PROVE  /\ header[i].start \in Sector
         /\ Found(i) = header[header[i].start]
         /\ Found(i) # Blank
         /\ Found(i).start \in Sector
<1>1. header[i] \in Header \cup {Blank} /\ header[i] # Blank
  BY DEF TypeOK, InUse
<1>2. header[i].start \in Sector
  BY <1>1, HeaderStart
<1>3. header[header[i].start] \in Header \cup {Blank} /\ header[header[i].start] # Blank
  BY <1>2 DEF TypeOK, InUse
<1> QED  BY <1>2, <1>3, HeaderStart DEF Found

-----------------------------------------------------------------------------
(* The steps keep the types (all of ampm_ff.c).                            *)
LEMMA TypeNext == TypeOK /\ Shape /\ [Next]_vars => TypeOK'
<1> SUFFICES ASSUME TypeOK, Shape, [Next]_vars PROVE TypeOK'
  OBVIOUS
<1> USE DEF hist, flash
<1>1. ASSUME NEW n \in Name, Create(n) PROVE TypeOK'
  <2>1. PICK p \in Sector :
          /\ Erase(p) /\ arg' = p
          /\ fil' = [gen |-> made + 1, name |-> n, sectors |-> <<p>>]
    BY <1>1 DEF Create
  <2>2. made + 1 \in Gen /\ made' \in 0 .. MaxFiles
    BY <1>1, FlashAssumption DEF Create, Gen, TypeOK
  <2>3. <<p>> \in Seq(Sector)
    OBVIOUS
  <2>4. fil' \in File
    BY <2>1, <2>2, <2>3 DEF File
  <2> QED  BY <1>1, <2>1, <2>2, <2>4, EraseType DEF Create, TypeOK, Ops
<1>2. ASSUME NEW n \in Name, Unlink(n) PROVE TypeOK'
  <2>1. PICK i \in Sector : /\ Unlinks(n, i) /\ Erase(Found(i).start) /\ arg' = i
                            /\ stray' = (stray \/ Found(i).start # header[i].start)
                            /\ kept' \subseteq kept
    BY <1>2 DEF Unlink
  <2>2. Found(i).start \in Sector
    BY <2>1, InUseSector DEF Unlinks
  <2> QED  BY <1>2, <2>1, <2>2, EraseType DEF Unlink, TypeOK, Ops
<1>3. CASE CreateHead \/ WriteNextHead
  <2>1. fil # NoFile
    BY <1>3 DEF Shape, CreateHead, WriteNextHead
  <2>2. [name |-> fil.name, start |-> Start] \in Header
    BY <2>1, OpenFile DEF Header
  <2> QED  BY <1>3, <2>2 DEF CreateHead, WriteNextHead, PutHeader, TypeOK, Ops
<1>4. CASE Write \/ Close
  <2>1. fil # NoFile
    BY <1>4 DEF Write, Close
  <2>2. <<fil.gen, Len(fil.sectors)>> \in Gen \X Nat
    BY <2>1, OpenFile
  <2>3. data' \in [Sector -> (Gen \X Nat) \cup {<<>>}]
    BY <1>4, <2>2 DEF Write, Close, FillData, TypeOK
  <2>4. arg' \in Sector \cup {Outside}
    BY <1>4 DEF Write, Close, Free, TypeOK
  <2> QED  BY <1>4, <2>3, <2>4 DEF Write, Close, TypeOK, Ops
<1>5. CASE WriteLink
  BY <1>5 DEF WriteLink, TypeOK, Ops
<1>6. CASE WriteNext
  <2>1. CASE arg = Outside
    BY <1>6, <2>1 DEF WriteNext, TypeOK, Ops
  <2>2. CASE arg # Outside
    <3>1. arg \in Sector /\ fil # NoFile
      BY <1>6, <2>2 DEF WriteNext, TypeOK, Shape
    <3>2. Append(fil.sectors, arg) \in Seq(Sector)
      BY <3>1, OpenFile
    <3>3. fil' \in File
      BY <1>6, <2>2, <3>1, <3>2, OpenFile DEF WriteNext, File
    <3> QED  BY <1>6, <2>2, <3>1, <3>3, EraseType DEF WriteNext, TypeOK, Ops
  <2> QED  BY <2>1, <2>2
<1>7. CASE CloseRecord
  <2>1. fil \in File /\ Len(fil.sectors) \in Nat
    BY <1>7, OpenFile DEF CloseRecord, Shape
  <2> QED  BY <1>7, <2>1 DEF CloseRecord, TypeOK, Ops
<1>8. CASE UnlinkSecond
  <2>1. arg \in Sector
    BY <1>8 DEF UnlinkSecond, Shape
  <2> QED  BY <1>8, <2>1, EraseType DEF UnlinkSecond, TypeOK, Ops
<1>9. CASE PowerCut
  BY <1>9, Distinctions, FlashAssumption DEF PowerCut, TypeOK, Ops
<1>10. CASE Cleanup
  <2>1. arg \in Sector
    BY <1>10 DEF Cleanup, Shape
  <2>2. Unfinished(arg) => Found(arg).start \in Sector
    BY <2>1, InUseSector DEF Unfinished
  <2>3. /\ header' \in [Sector -> Header \cup {Blank}]
        /\ link' \in [Sector -> Sector \cup {Outside, None}]
        /\ closeRec' \in [Sector -> Nat \cup {None}]
        /\ data' \in [Sector -> (Gen \X Nat) \cup {<<>>}]
    <3>1. CASE Unfinished(arg)
      BY <1>10, <2>2, <3>1, EraseType DEF Cleanup
    <3>2. CASE ~Unfinished(arg)
      BY <1>10, <3>2 DEF Cleanup, TypeOK
    <3> QED  BY <3>1, <3>2
  <2>4. arg' \in Sector /\ op' \in Ops /\ abandoned' \in BOOLEAN
    BY <1>10, Distinctions DEF Cleanup, TypeOK, Ops
  <2> QED  BY <1>10, <2>3, <2>4 DEF Cleanup, TypeOK
<1>11. CASE UNCHANGED vars
  BY <1>11 DEF TypeOK, vars
<1>12. CASE CloseAtLimit
  BY <1>12 DEF CloseAtLimit, TypeOK, Ops
<1> QED
  BY <1>1, <1>2, <1>3, <1>4, <1>5, <1>6, <1>7, <1>8, <1>9, <1>10, <1>11, <1>12 DEF Next

(* Where the code is says which file is open, and what its local variable  *)
(* holds, after every step too.                                            *)
LEMMA ShapeNext == TypeOK /\ Shape /\ [Next]_vars => Shape'
<1> SUFFICES ASSUME TypeOK, Shape, [Next]_vars PROVE Shape'
  OBVIOUS
<1> USE DEF hist, flash
<1>1. ASSUME NEW n \in Name, Create(n) PROVE Shape'
  <2>1. PICK p \in Sector :
          /\ arg' = p
          /\ fil' = [gen |-> made + 1, name |-> n, sectors |-> <<p>>]
    BY <1>1 DEF Create
  <2>2. Len(fil'.sectors) = 1 /\ fil'.sectors[1] = arg'
    BY <2>1
  <2>3. Current' = arg'
    BY <2>2 DEF Current
  <2>4. op' = "createHead" /\ kept' = kept /\ fil' # NoFile
    BY <1>1, <2>1, <2>2, Distinctions DEF Create, NoFile
  <2> QED  BY <2>2, <2>3, <2>4 DEF Shape
<1>2. ASSUME NEW n \in Name, Unlink(n) PROVE Shape'
  BY <1>2 DEF Unlink, Shape
<1>3. CASE CreateHead \/ WriteNextHead \/ Write \/ WriteLink \/ Close
  BY <1>3 DEF CreateHead, WriteNextHead, Write, WriteLink, Close, Shape, Current
<1>4. CASE WriteNext
  <2>1. CASE arg = Outside
    BY <1>4, <2>1 DEF WriteNext, Shape
  <2>2. CASE arg # Outside
    <3>1. fil # NoFile /\ arg \in Sector
      BY <1>4, <2>2 DEF WriteNext, Shape, TypeOK
    <3>2. fil'.sectors = Append(fil.sectors, arg)
      BY <1>4, <2>2, <3>1, OpenFile DEF WriteNext, File
    <3>3. Len(fil'.sectors) = Len(fil.sectors) + 1
          /\ fil'.sectors[Len(fil.sectors) + 1] = arg
      BY <3>1, <3>2, OpenFile
    <3>4. Len(fil'.sectors) \in Nat \ {0, 1} /\ Current' = arg
      BY <3>1, <3>3, OpenFile DEF Current
    <3>5. fil' # NoFile
      <4>1. NoFile.sectors = <<>> /\ Len(<<>>) = 0
        BY DEF NoFile
      <4> QED  BY <3>4, <4>1
    <3> QED  BY <1>4, <2>2, <3>4, <3>5 DEF WriteNext, Shape
  <2> QED  BY <2>1, <2>2
<1>5. CASE CloseRecord \/ CloseAtLimit
  BY <1>5 DEF CloseRecord, CloseAtLimit, Shape
<1>6. CASE UnlinkSecond
  BY <1>6 DEF UnlinkSecond, Shape
<1>7. CASE PowerCut
  BY <1>7, Distinctions DEF PowerCut, Shape
<1>8. CASE Cleanup
  BY <1>8, Distinctions DEF Cleanup, Shape
<1>9. CASE UNCHANGED vars
  BY <1>9 DEF Shape, vars, Current
<1> QED
  BY <1>1, <1>2, <1>3, <1>4, <1>5, <1>6, <1>7, <1>8, <1>9 DEF Next

-----------------------------------------------------------------------------
(* No sector of the file that is being written is free.                    *)
LEMMA FilInUse ==
  ASSUME TypeOK, Shape, FilOK, fil # NoFile, op = "idle"
  PROVE  \A k \in 1 .. Len(fil.sectors) : InUse(fil.sectors[k])
<1> DEFINE h == [name |-> fil.name, start |-> Start]
<1>1. h \in Header
  BY OpenFile DEF Header
<1>2. \A k \in 1 .. Len(fil.sectors) : header[fil.sectors[k]] = h
  BY DEF FilOK, FilHeader
<1>3. header[Start] = h
  BY <1>2, OpenFile DEF Start
<1> QED  BY <1>1, <1>2, <1>3, Distinctions DEF InUse

(* The calls that write a file leave it whole but for its last sector      *)
(* (ampm_f_open, ampm_f_write, ampm_f_close).                              *)
LEMMA FilNextStep == TypeOK /\ Shape /\ FilOK /\ [Next]_vars => FilOK'
<1> SUFFICES ASSUME TypeOK, Shape, FilOK, [Next]_vars PROVE FilOK'
  OBVIOUS
<1> USE DEF hist, flash
<1>1. ASSUME NEW n \in Name, Create(n) PROVE FilOK'
  <2>1. PICK p \in Sector :
          fil' = [gen |-> made + 1, name |-> n, sectors |-> <<p>>]
    BY <1>1 DEF Create
  <2>2. Len(fil'.sectors) = 1 /\ op' = "createHead"
    BY <1>1, <2>1 DEF Create
  <2> QED  BY <2>2 DEF FilOK, FilHeader, FilData, FilLinks, FilDistinct, FilNext
<1>2. CASE CreateHead
  <2>1. /\ fil # NoFile /\ Len(fil.sectors) = 1 /\ fil' = fil /\ op' = "idle"
        /\ arg = fil.sectors[1] /\ arg = Start
    BY <1>2 DEF CreateHead, Shape, Start, Current
  <2>2. header'[arg] = [name |-> fil.name, start |-> Start]
    BY <1>2, <2>1, OpenFile DEF CreateHead, PutHeader, TypeOK
  <2>3. Start' = arg /\ Len(fil'.sectors) = 1
    BY <2>1 DEF Start
  <2>4. FilHeader'
    BY <2>1, <2>2, <2>3 DEF FilHeader, Start
  <2>5. FilData'
    <3>1. \A k \in 1 .. Len(fil'.sectors) : k = Len(fil'.sectors)
      BY <2>3
    <3> QED  BY <2>1, <3>1 DEF FilData
  <2>6. FilNext'
    BY <2>1 DEF FilNext
  <2>7. FilLinks' /\ FilDistinct'
    BY <2>3 DEF FilLinks, FilDistinct
  <2> QED  BY <2>4, <2>5, <2>6, <2>7 DEF FilOK
<1>3. CASE Write
  <2>1. fil # NoFile /\ fil' = fil /\ op = "idle" /\ op' = "link"
    BY <1>3 DEF Write
  <2>2. FilHeader' /\ FilLinks' /\ FilDistinct'
    BY <1>3, <2>1 DEF Write, FilOK, FilHeader, FilLinks, FilDistinct, Start
  <2>3. FilData'
    BY <1>3, <2>1, OpenFile
    DEF Write, FillData, FilOK, FilData, FilDistinct, Current, TypeOK
  <2>4. arg' \in Free
    BY <1>3 DEF Write
  <2>5. \A k \in 1 .. Len(fil.sectors) : fil.sectors[k] # arg'
    BY <2>1, <2>4, FilInUse, OpenFile, Distinctions DEF Free
  <2> QED  BY <2>1, <2>2, <2>3, <2>5 DEF FilOK, FilNext
<1>4. CASE WriteLink
  <2>1. fil # NoFile /\ fil' = fil /\ op = "link" /\ op' = "next" /\ arg' = arg
    BY <1>4 DEF WriteLink, Shape
  <2>2. FilHeader' /\ FilData' /\ FilDistinct'
    BY <1>4, <2>1 DEF WriteLink, FilOK, FilHeader, FilData, FilDistinct, Start
  <2>3. FilLinks'
    BY <1>4, <2>1, OpenFile
    DEF WriteLink, FilOK, FilLinks, FilDistinct, Current, TypeOK
  <2>4. link'[Current] = arg
    BY <1>4, <2>1, OpenFile DEF WriteLink, TypeOK
  <2> QED  BY <2>1, <2>2, <2>3, <2>4 DEF FilOK, FilNext, Current
<1>5. CASE WriteNext
  <2>1. CASE arg = Outside
    BY <1>5, <2>1 DEF WriteNext, FilOK
  <2>2. CASE arg # Outside
    <3> DEFINE len == Len(fil.sectors)
    <3>1. fil # NoFile /\ arg \in Sector /\ op = "next" /\ op' = "nextHead"
      BY <1>5, <2>2 DEF WriteNext, Shape, TypeOK
    <3>2. /\ fil'.gen = fil.gen /\ fil'.name = fil.name
          /\ fil'.sectors = Append(fil.sectors, arg)
      BY <1>5, <2>2, <3>1, OpenFile DEF WriteNext, File
    <3>3. /\ Len(fil'.sectors) = len + 1 /\ len \in Nat \ {0}
          /\ \A k \in 1 .. len : fil'.sectors[k] = fil.sectors[k]
          /\ fil'.sectors[len + 1] = arg
      BY <3>1, <3>2, OpenFile
    <3>4. /\ \A k \in 1 .. len : fil.sectors[k] # arg
          /\ link[fil.sectors[len]] = arg
      BY <3>1 DEF FilOK, FilNext, Current
    <3>5. \A k \in 1 .. len :
            /\ header'[fil.sectors[k]] = header[fil.sectors[k]]
            /\ link'[fil.sectors[k]] = link[fil.sectors[k]]
            /\ data'[fil.sectors[k]] = data[fil.sectors[k]]
      BY <1>5, <2>2, <3>1, <3>4, OpenFile DEF WriteNext, Erase, TypeOK
    <3>6. Start' = Start
      BY <3>3 DEF Start
    <3>7. FilHeader'
      BY <3>1, <3>2, <3>3, <3>5, <3>6 DEF FilOK, FilHeader
    <3>8. FilData'
      <4>1. \A k \in 1 .. len : data[fil.sectors[k]] = <<fil.gen, k>>
        BY <3>1 DEF FilOK, FilData
      <4>2. ASSUME NEW k \in 1 .. len
            PROVE  data'[fil'.sectors[k]] = <<fil'.gen, k>>
        <5>1. data'[fil.sectors[k]] = data[fil.sectors[k]]
          BY <3>5
        <5>2. fil'.sectors[k] = fil.sectors[k] /\ fil'.gen = fil.gen
          BY <3>2, <3>3
        <5>3. data[fil.sectors[k]] = <<fil.gen, k>>
          BY <4>1
        <5> QED  BY <5>1, <5>2, <5>3, Zenon
      <4>3. \A k \in 1 .. Len(fil'.sectors) :
              k \in 1 .. len \/ k = Len(fil'.sectors)
        BY <3>3
      <4>4. ASSUME NEW k \in 1 .. Len(fil'.sectors)
            PROVE  k = Len(fil'.sectors) \/ data'[fil'.sectors[k]] = <<fil'.gen, k>>
        BY <4>2, <4>3
      <4> QED  BY <4>4, <3>1 DEF FilData
    <3>9. FilLinks'
      <4>0. 1 .. Len(fil'.sectors) - 1 = 1 .. len
        BY <3>3
      <4> SUFFICES ASSUME NEW k \in 1 .. len
                   PROVE  link'[fil'.sectors[k]] = fil'.sectors[k + 1]
        <5> HIDE DEF len
        <5> QED  BY <4>0 DEF FilLinks
      <4>1. link'[fil'.sectors[k]] = link[fil.sectors[k]]
        BY <3>3, <3>5
      <4>2. CASE k = len
        BY <3>3, <3>4, <4>1, <4>2
      <4>3. CASE k < len
        <5>1. k \in 1 .. len - 1 /\ k + 1 \in 1 .. len
          BY <3>3, <4>3
        <5>2. link[fil.sectors[k]] = fil.sectors[k + 1]
          BY <3>1, <5>1 DEF FilOK, FilLinks
        <5> QED  BY <3>3, <4>1, <5>1, <5>2
      <4> QED  BY <3>3, <4>2, <4>3
    <3>10. FilDistinct'
      BY <3>1, <3>3, <3>4 DEF FilOK, FilDistinct
    <3> QED  BY <3>1, <3>7, <3>8, <3>9, <3>10 DEF FilOK, FilNext
  <2> QED  BY <2>1, <2>2
<1>6. CASE WriteNextHead
  <2>1. fil # NoFile /\ fil' = fil /\ op = "nextHead" /\ op' = "idle" /\ arg = Current
    BY <1>6 DEF WriteNextHead, Shape
  <2>2. FilHeader'
    BY <1>6, <2>1, OpenFile
    DEF WriteNextHead, PutHeader, FilOK, FilHeader, FilDistinct, Current, Start, TypeOK
  <2>3. FilData' /\ FilLinks' /\ FilDistinct'
    BY <1>6, <2>1 DEF WriteNextHead, FilOK, FilData, FilLinks, FilDistinct
  <2> QED  BY <2>1, <2>2, <2>3 DEF FilOK, FilNext
<1>7. CASE Close
  <2>1. fil # NoFile /\ fil' = fil /\ op = "idle" /\ op' = "closeRec"
    BY <1>7 DEF Close
  <2>2. FilHeader' /\ FilLinks' /\ FilDistinct'
    BY <1>7, <2>1 DEF Close, FilOK, FilHeader, FilLinks, FilDistinct, Start
  <2>3. FilData'
    BY <1>7, <2>1, OpenFile
    DEF Close, FillData, FilOK, FilData, FilDistinct, Current, TypeOK
  <2> QED  BY <2>1, <2>2, <2>3 DEF FilOK, FilNext
<1>8. ASSUME fil' = NoFile PROVE FilOK'
  BY <1>8 DEF FilOK
<1>9. CASE UNCHANGED vars
  BY <1>9
  DEF vars, FilOK, FilHeader, FilData, FilLinks, FilDistinct, FilNext, Start, Current
<1>10. CASE CloseRecord \/ CloseAtLimit \/ PowerCut \/ (\E n \in Name : Unlink(n))
  BY <1>8, <1>10 DEF CloseRecord, CloseAtLimit, PowerCut, Unlink
<1>11. CASE UnlinkSecond \/ Cleanup
  BY <1>8, <1>11 DEF UnlinkSecond, Cleanup, Shape
<1> QED
  BY <1>1, <1>2, <1>3, <1>4, <1>5, <1>6, <1>7, <1>9, <1>10, <1>11 DEF Next

-----------------------------------------------------------------------------
(* An erase makes no file without a close record.                          *)
LEMMA ErasedOrphan ==
  ASSUME TypeOK, NEW x \in Sector, Erase(x), NEW s \in Sector, Orphan(s)'
  PROVE  Orphan(s) /\ s # x
BY DEF TypeOK, Erase, Orphan

(* ampm_f_disk_cleanup leaves no file without a close record behind the    *)
(* sector it looks at, and no other call leaves one but the open file.     *)
LEMMA ClearNext == TypeOK /\ Shape /\ Clear /\ [Next]_vars => Clear'
<1> SUFFICES ASSUME TypeOK, Shape, Clear, [Next]_vars PROVE Clear'
  OBVIOUS
<1> USE DEF hist, flash
<1>1. ASSUME NEW n \in Name, Create(n) PROVE Clear'
  <2>1. PICK p \in Sector : Erase(p)
    BY <1>1 DEF Create
  <2>2. op = "idle" /\ op' = "createHead" /\ fil = NoFile /\ abandoned' = abandoned
    BY <1>1 DEF Create
  <2> QED  BY <2>1, <2>2, ErasedOrphan DEF Clear
<1>2. ASSUME NEW n \in Name, Unlink(n) PROVE Clear'
  <2>1. PICK i \in Sector : Unlinks(n, i) /\ Erase(Found(i).start)
    BY <1>2 DEF Unlink
  <2>2. Found(i).start \in Sector
    BY <2>1, InUseSector DEF Unlinks
  <2>3. op = "idle" /\ op' = "unlink" /\ fil = NoFile /\ abandoned' = abandoned
    BY <1>2 DEF Unlink
  <2> QED  BY <2>1, <2>2, <2>3, ErasedOrphan DEF Clear
<1>3. CASE CreateHead \/ WriteNextHead
  <2>1. /\ fil # NoFile /\ fil' = fil /\ abandoned' = abandoned
        /\ op # "cleanup" /\ op' = "idle" /\ closeRec' = closeRec
    BY <1>3 DEF CreateHead, WriteNextHead, Shape
  <2>2. header' = [header EXCEPT ![arg] = [name |-> fil.name, start |-> Start]]
    BY <1>3 DEF CreateHead, WriteNextHead, PutHeader
  <2>3. \A s \in Sector : Orphan(s)' => Orphan(s) \/ s = Start
    BY <2>1, <2>2 DEF Orphan, TypeOK
  <2> QED  BY <2>1, <2>3 DEF Clear, Start
<1>4. CASE Write \/ WriteLink \/ Close
  <2>1. /\ fil # NoFile /\ fil' = fil /\ abandoned' = abandoned
        /\ op # "cleanup" /\ op' # "cleanup"
        /\ closeRec' = closeRec /\ header' = header
    BY <1>4 DEF Write, WriteLink, Close, Shape
  <2> QED  BY <2>1 DEF Clear, Orphan, Start
<1>5. CASE WriteNext
  <2>1. CASE arg = Outside
    BY <1>5, <2>1 DEF WriteNext, Clear
  <2>2. CASE arg # Outside
    <3>1. /\ fil # NoFile /\ arg \in Sector /\ Erase(arg)
          /\ op = "next" /\ op' = "nextHead" /\ abandoned' = abandoned
      BY <1>5, <2>2 DEF WriteNext, Shape, TypeOK
    <3>2. fil'.sectors = Append(fil.sectors, arg)
      BY <1>5, <2>2, <3>1, OpenFile DEF WriteNext, File
    <3>3. Start' = Start
      BY <3>1, <3>2, OpenFile DEF Start
    <3>4. fil' # NoFile
      <4>1. Shape'
        BY ShapeNext
      <4> QED  BY <3>1, <4>1 DEF Shape
    <3> QED  BY <3>1, <3>3, <3>4, ErasedOrphan DEF Clear
  <2> QED  BY <2>1, <2>2
<1>6. CASE CloseRecord
  <2>1. /\ fil # NoFile /\ abandoned' = abandoned
        /\ op = "closeRec" /\ op' = "idle" /\ header' = header
    BY <1>6 DEF CloseRecord, Shape
  <2>2. /\ closeRec' = [closeRec EXCEPT ![Start] = Len(fil.sectors)]
        /\ Len(fil.sectors) \in Nat
    BY <1>6, <2>1, OpenFile DEF CloseRecord
  <2>3. \A s \in Sector : Orphan(s)' => Orphan(s) /\ s # Start
    BY <2>1, <2>2, OpenFile DEF Orphan, TypeOK, None
  <2> QED  BY <2>1, <2>3 DEF Clear
<1>7. CASE UnlinkSecond
  <2>1. /\ fil = NoFile /\ abandoned' = abandoned /\ arg \in Sector
        /\ op = "unlink" /\ op' = "idle" /\ Erase(arg)
    BY <1>7 DEF UnlinkSecond, Shape
  <2> QED  BY <2>1, ErasedOrphan DEF Clear
<1>8. CASE PowerCut
  BY <1>8, FlashAssumption DEF PowerCut, Clear, Sector
<1>9. CASE Cleanup
  <2>1. arg \in Sector /\ op = "cleanup"
    BY <1>9 DEF Cleanup, Shape
  <2>2. \A s \in Sector : Orphan(s)' => Orphan(s) /\ s # arg
    <3>1. CASE Unfinished(arg)
      <4>1. Found(arg).start \in Sector /\ Erase(Found(arg).start)
        BY <1>9, <2>1, <3>1, InUseSector DEF Cleanup, Unfinished
      <4>2. Orphan(arg) => Found(arg).start = arg
        BY DEF Orphan, Found
      <4> QED  BY <4>1, <4>2, ErasedOrphan
    <3>2. CASE ~Unfinished(arg)
      <4>1. ~Orphan(arg)
        BY <3>2 DEF Orphan, Unfinished, InUse, Found
      <4>2. header' = header /\ closeRec' = closeRec
        BY <1>9, <3>2 DEF Cleanup
      <4> QED  BY <4>1, <4>2 DEF Orphan
    <3> QED  BY <3>1, <3>2
  <2>3. \A s \in Sector : Orphan(s)' => s > arg
    BY <2>1, <2>2 DEF Clear, Sector
  <2>4. CASE arg + 1 \in Sector
    BY <1>9, <2>1, <2>3, <2>4 DEF Cleanup, Clear, Sector
  <2>5. CASE arg + 1 \notin Sector
    BY <2>1, <2>3, <2>5, FlashAssumption DEF Clear, Sector
  <2> QED  BY <2>4, <2>5
<1>10. CASE UNCHANGED vars
  BY <1>10 DEF vars, Clear, Orphan, Start
<1>11. CASE CloseAtLimit
  BY <1>11 DEF CloseAtLimit, Clear
<1> QED
  BY <1>1, <1>2, <1>3, <1>4, <1>5, <1>6, <1>7, <1>8, <1>9, <1>10, <1>11 DEF Next

-----------------------------------------------------------------------------
(* Every sector of a closed file is in use, and leads to the file.         *)
LEMMA KeptSector ==
  ASSUME TypeOK, Shape, NEW f \in kept, Intact(f)
  PROVE  /\ Len(f.sectors) \in Nat \ {0}
         /\ f.sectors[1] \in Sector
         /\ closeRec[f.sectors[1]] # None
         /\ \A k \in 1 .. Len(f.sectors) :
              /\ f.sectors[k] \in Sector
              /\ header[f.sectors[k]] = [name |-> f.name, start |-> f.sectors[1]]
              /\ InUse(f.sectors[k])
<1>1. f \in File /\ f.sectors \in Seq(Sector) /\ f.name \in Name
  BY DEF TypeOK, File
<1>2. Len(f.sectors) \in Nat \ {0}
  BY <1>1 DEF Shape
<1>3. \A k \in 1 .. Len(f.sectors) : f.sectors[k] \in Sector
  BY <1>1
<1>4. f.sectors[1] \in Sector
  BY <1>2, <1>3
<1>5. \A k \in 1 .. Len(f.sectors) :
        header[f.sectors[k]] = [name |-> f.name, start |-> f.sectors[1]]
  BY <1>1 DEF Intact
<1>6. [name |-> f.name, start |-> f.sectors[1]] # Blank
  BY <1>1, <1>4, Distinctions DEF Header
<1>7. \A k \in 1 .. Len(f.sectors) : InUse(f.sectors[k])
  BY <1>2, <1>5, <1>6 DEF InUse
<1>8. closeRec[f.sectors[1]] # None
  BY <1>2 DEF Intact, None
<1> QED  BY <1>2, <1>3, <1>4, <1>5, <1>7, <1>8

(* What leaves the sectors of a closed file alone leaves the file intact.  *)
LEMMA IntactStays ==
  ASSUME TypeOK, Shape, NEW f \in kept, Intact(f),
         \A k \in 1 .. Len(f.sectors) :
           /\ header'[f.sectors[k]] = header[f.sectors[k]]
           /\ link'[f.sectors[k]] = link[f.sectors[k]]
           /\ closeRec'[f.sectors[k]] = closeRec[f.sectors[k]]
           /\ data'[f.sectors[k]] = data[f.sectors[k]]
  PROVE  Intact(f)'
<1>1. f.sectors \in Seq(Sector) /\ DOMAIN f.sectors = 1 .. Len(f.sectors)
  BY DEF TypeOK, File
<1>2. 1 \in 1 .. Len(f.sectors)
  <2>1. Len(f.sectors) \in Nat \ {0}
    BY KeptSector
  <2> QED  BY <2>1
<1>3. closeRec'[f.sectors[1]] = Len(f.sectors)
  BY <1>2 DEF Intact
<1> QED  BY <1>1, <1>3 DEF Intact

(* The erase of a sector of no closed file changes no closed file.         *)
LEMMA ErasedApart ==
  ASSUME TypeOK, Shape, NEW x \in Sector, Erase(x),
         NEW f \in kept, Intact(f),
         \A k \in 1 .. Len(f.sectors) : f.sectors[k] # x
  PROVE  Intact(f)'
<1>1. \A k \in 1 .. Len(f.sectors) : f.sectors[k] \in Sector
  BY KeptSector
<1> QED  BY <1>1, IntactStays DEF Erase, TypeOK

(* An erase adds no close record.                                          *)
LEMMA ErasedClosed ==
  ASSUME TypeOK, Closed, NEW x \in Sector, Erase(x),
         \A f \in kept : f.sectors[1] # x => f \in kept'
  PROVE  Closed'
<1>1. \A s \in Sector : closeRec'[s] # None => closeRec[s] # None /\ s # x
  BY DEF Erase, TypeOK
<1> QED  BY <1>1 DEF Closed

(* The scans give out no sector of a closed file.                          *)
LEMMA FreeApart ==
  ASSUME TypeOK, Shape, AllIntact, NEW p \in Free
  PROVE  Apart(p)
<1> SUFFICES ASSUME NEW f \in kept, NEW k \in 1 .. Len(f.sectors)
             PROVE  f.sectors[k] # p
  BY DEF Apart
<1>1. f.sectors[k] \in Sector /\ InUse(f.sectors[k])
  BY KeptSector DEF AllIntact
<1> QED  BY <1>1, Distinctions DEF Free

(* ampm_f_open for writing takes a sector of no closed file.               *)
LEMMA CreateKept ==
  ASSUME TypeOK, Shape, KeptOK, NEW n \in Name, Create(n)
  PROVE  KeptOK'
<1> SUFFICES ASSUME ~stray' PROVE ArgApart' /\ FilApart' /\ Closed' /\ AllIntact'
  BY DEF KeptOK
<1>1. /\ kept' = kept /\ op' = "createHead"
      /\ Closed /\ AllIntact
  BY DEF Create, KeptOK
<1>2. PICK p \in Sector :
        /\ p \in Free /\ Erase(p)
        /\ fil' = [gen |-> made + 1, name |-> n, sectors |-> <<p>>]
  BY DEF Create, Allocates
<1>3. Apart(p)
  BY <1>1, <1>2, FreeApart
<1>4. ArgApart'
  BY <1>1 DEF ArgApart
<1>5. FilApart'
  <2>1. fil'.sectors = <<p>>
    BY <1>2
  <2>2. Len(fil'.sectors) = 1 /\ fil'.sectors[1] = p
    BY <2>1
  <2>3. \A j \in 1 .. Len(fil'.sectors) : fil'.sectors[j] = p
    BY <2>2
  <2> QED  BY <1>1, <1>3, <2>3 DEF FilApart, Apart
<1>6. Closed'
  BY <1>1, <1>2, ErasedClosed
<1>7. AllIntact'
  BY <1>1, <1>2, <1>3, ErasedApart DEF AllIntact, Apart
<1> QED  BY <1>4, <1>5, <1>6, <1>7

(* ampm_f_unlink erases the first sector of the file it removes only,      *)
(* unless it goes astray.                                                  *)
LEMMA UnlinkKept ==
  ASSUME TypeOK, Shape, KeptOK, NEW n \in Name, Unlink(n)
  PROVE  KeptOK'
<1> SUFFICES ASSUME ~stray' PROVE ArgApart' /\ FilApart' /\ Closed' /\ AllIntact'
  BY DEF KeptOK
<1>1. PICK i \in Sector :
        /\ Unlinks(n, i) /\ Erase(Found(i).start) /\ arg' = i
        /\ kept' = {f \in kept : ~(f.name = n /\ f.sectors[1] = Found(i).start)}
        /\ stray' = (stray \/ Found(i).start # header[i].start)
  BY DEF Unlink
<1> DEFINE s == Found(i).start
<1>2. /\ ~stray /\ s = header[i].start /\ s \in Sector
      /\ header[s] = Found(i) /\ Found(i).name = n
  BY <1>1, InUseSector DEF Unlinks
<1>3. Closed /\ AllIntact /\ fil = NoFile
  BY <1>2 DEF KeptOK, Unlink
<1>4. ASSUME NEW f \in kept', NEW k \in 1 .. Len(f.sectors)
      PROVE  f.sectors[k] # s /\ f.sectors[k] # i
  <2>1. /\ f \in kept /\ ~(f.name = n /\ f.sectors[1] = s)
        /\ Len(f.sectors) \in Nat \ {0} /\ f.sectors[1] \in Sector
        /\ header[f.sectors[1]] = [name |-> f.name, start |-> f.sectors[1]]
        /\ header[f.sectors[k]] = [name |-> f.name, start |-> f.sectors[1]]
    BY <1>1, <1>3, KeptSector DEF AllIntact
  <2>2. f.sectors[k] = s => f.name = n /\ f.sectors[1] = s
    BY <1>2, <2>1
  <2>3. f.sectors[k] = i => f.sectors[1] = s
    BY <1>2, <2>1
  <2>4. f.sectors[1] = s => f.name = n
    BY <1>2, <2>1
  <2> QED  BY <2>1, <2>2, <2>3, <2>4
<1>5. ArgApart'
  BY <1>1, <1>4 DEF ArgApart, Apart
<1>6. FilApart'
  BY <1>3 DEF FilApart, Unlink
<1>7. Closed'
  BY <1>1, <1>2, <1>3, ErasedClosed
<1>8. AllIntact'
  <2> SUFFICES ASSUME NEW f \in kept' PROVE Intact(f)'
    BY DEF AllIntact
  <2>1. f \in kept /\ Intact(f)
    BY <1>1, <1>3 DEF AllIntact
  <2> QED  BY <1>1, <1>2, <1>4, <2>1, ErasedApart
<1> QED  BY <1>5, <1>6, <1>7, <1>8

(* A write to the sector the open file has come to.                        *)
LEMMA CurrentApart ==
  ASSUME TypeOK, Shape, FilApart, fil # NoFile
  PROVE  Apart(Current) /\ Apart(Start)
BY OpenFile DEF FilApart, Current, Start

(* The header of a new sector is no part of a closed file.                 *)
LEMMA HeadKept ==
  ASSUME TypeOK, Shape, KeptOK, CreateHead \/ WriteNextHead
  PROVE  KeptOK'
<1> SUFFICES ASSUME ~stray' PROVE ArgApart' /\ FilApart' /\ Closed' /\ AllIntact'
  BY DEF KeptOK
<1>1. /\ fil # NoFile /\ arg = Current /\ op' = "idle" /\ stray' = stray
      /\ fil' = fil /\ kept' = kept
      /\ link' = link /\ closeRec' = closeRec /\ data' = data
      /\ header' = [header EXCEPT ![Current] = [name |-> fil.name, start |-> Start]]
  BY DEF CreateHead, WriteNextHead, PutHeader, Shape, hist
<1>2. FilApart /\ Closed /\ AllIntact
  BY <1>1 DEF KeptOK
<1>3. AllIntact'
  <2> SUFFICES ASSUME NEW f \in kept PROVE Intact(f)'
    BY <1>1 DEF AllIntact
  <2>1. /\ Intact(f)
        /\ \A k \in 1 .. Len(f.sectors) :
             f.sectors[k] \in Sector /\ f.sectors[k] # Current
    BY <1>1, <1>2, KeptSector, CurrentApart DEF AllIntact, Apart
  <2> QED  BY <1>1, <2>1, IntactStays DEF TypeOK
<1>4. ArgApart' /\ FilApart' /\ Closed'
  BY <1>1, <1>2 DEF ArgApart, FilApart, Closed, Apart
<1> QED  BY <1>3, <1>4

(* The data goes to the current sector, and the next one is a free one.    *)
LEMMA WriteKept ==
  ASSUME TypeOK, Shape, KeptOK, Write \/ Close
  PROVE  KeptOK'
<1> SUFFICES ASSUME ~stray' PROVE ArgApart' /\ FilApart' /\ Closed' /\ AllIntact'
  BY DEF KeptOK
<1>1. /\ fil # NoFile /\ stray' = stray /\ fil' = fil /\ kept' = kept
      /\ header' = header /\ link' = link /\ closeRec' = closeRec
      /\ data' = [data EXCEPT ![Current] = <<fil.gen, Len(fil.sectors)>>]
  BY DEF Write, Close, FillData, hist
<1>2. FilApart /\ Closed /\ AllIntact
  BY <1>1 DEF KeptOK
<1>3. AllIntact'
  <2> SUFFICES ASSUME NEW f \in kept PROVE Intact(f)'
    BY <1>1 DEF AllIntact
  <2>1. /\ Intact(f)
        /\ \A k \in 1 .. Len(f.sectors) :
             f.sectors[k] \in Sector /\ f.sectors[k] # Current
    BY <1>1, <1>2, KeptSector, CurrentApart DEF AllIntact, Apart
  <2> QED  BY <1>1, <2>1, IntactStays DEF TypeOK
<1>4. FilApart' /\ Closed'
  BY <1>1, <1>2 DEF FilApart, Closed, Apart
<1>5. ArgApart'
  <2>1. CASE Write
    <3>1. arg' \in Free
      BY <2>1 DEF Write
    <3> QED  BY <1>1, <1>2, <3>1, FreeApart DEF ArgApart, Apart
  <2>2. CASE Close
    BY <2>2 DEF Close, ArgApart
  <2> QED  BY <2>1, <2>2
<1> QED  BY <1>3, <1>4, <1>5

(* The link record goes to the current sector.                             *)
LEMMA WriteLinkKept ==
  ASSUME TypeOK, Shape, KeptOK, WriteLink
  PROVE  KeptOK'
<1> SUFFICES ASSUME ~stray' PROVE ArgApart' /\ FilApart' /\ Closed' /\ AllIntact'
  BY DEF KeptOK
<1>1. /\ fil # NoFile /\ stray' = stray /\ fil' = fil /\ kept' = kept
      /\ arg' = arg /\ op = "link"
      /\ header' = header /\ data' = data /\ closeRec' = closeRec
      /\ link' = [link EXCEPT ![Current] = arg]
  BY DEF WriteLink, Shape, hist
<1>2. ArgApart /\ FilApart /\ Closed /\ AllIntact
  BY <1>1 DEF KeptOK
<1>3. AllIntact'
  <2> SUFFICES ASSUME NEW f \in kept PROVE Intact(f)'
    BY <1>1 DEF AllIntact
  <2>1. /\ Intact(f)
        /\ \A k \in 1 .. Len(f.sectors) :
             f.sectors[k] \in Sector /\ f.sectors[k] # Current
    BY <1>1, <1>2, KeptSector, CurrentApart DEF AllIntact, Apart
  <2> QED  BY <1>1, <2>1, IntactStays DEF TypeOK
<1>4. ArgApart' /\ FilApart' /\ Closed'
  BY <1>1, <1>2 DEF ArgApart, FilApart, Closed, Apart
<1> QED  BY <1>3, <1>4

(* ampm_f_write goes on in a sector of no closed file, or gives up.        *)
LEMMA WriteNextKept ==
  ASSUME TypeOK, Shape, KeptOK, WriteNext
  PROVE  KeptOK'
<1> SUFFICES ASSUME ~stray' PROVE ArgApart' /\ FilApart' /\ Closed' /\ AllIntact'
  BY DEF KeptOK
<1>1. op = "next" /\ kept' = kept /\ stray' = stray
  BY DEF WriteNext
<1>2. Apart(arg) /\ FilApart /\ Closed /\ AllIntact
  BY <1>1 DEF KeptOK, ArgApart
<1>3. CASE arg = Outside
  <2>1. fil' = NoFile /\ op' = "idle" /\ UNCHANGED flash
    BY <1>3 DEF WriteNext
  <2> QED  BY <1>1, <1>2, <2>1 DEF ArgApart, FilApart, Closed, AllIntact, Intact, flash
<1>4. CASE arg # Outside
  <2>1. /\ fil # NoFile /\ arg \in Sector /\ Erase(arg) /\ op' = "nextHead"
        /\ fil' = [fil EXCEPT !.sectors = Append(@, arg)]
    BY <1>4 DEF WriteNext, Shape, TypeOK
  <2>2. \A j \in 1 .. Len(fil'.sectors) :
          \/ fil'.sectors[j] = arg
          \/ /\ j \in 1 .. Len(fil.sectors)
             /\ fil'.sectors[j] = fil.sectors[j]
    <3>1. fil'.sectors = Append(fil.sectors, arg)
      BY <2>1, OpenFile DEF File
    <3> QED  BY <2>1, <3>1, OpenFile
  <2>3. FilApart'
    BY <1>1, <1>2, <2>1, <2>2 DEF FilApart, Apart
  <2>4. Closed'
    BY <1>1, <1>2, <2>1, ErasedClosed
  <2>5. AllIntact'
    BY <1>1, <1>2, <2>1, ErasedApart DEF AllIntact, Apart
  <2>6. ArgApart'
    BY <2>1 DEF ArgApart
  <2> QED  BY <2>3, <2>4, <2>5, <2>6
<1> QED  BY <1>3, <1>4

(* The close record makes the open file one of the closed ones.            *)
LEMMA CloseRecordKept ==
  ASSUME TypeOK, Shape, FilOK, KeptOK, CloseRecord
  PROVE  KeptOK'
<1> SUFFICES ASSUME ~stray' PROVE ArgApart' /\ FilApart' /\ Closed' /\ AllIntact'
  BY DEF KeptOK
<1>1. /\ fil # NoFile /\ stray' = stray /\ kept' = kept \cup {fil}
      /\ fil' = NoFile /\ op = "closeRec" /\ op' = "idle"
      /\ header' = header /\ data' = data /\ link' = link
      /\ closeRec' = [closeRec EXCEPT ![Start] = Len(fil.sectors)]
  BY DEF CloseRecord, Shape
<1>2. FilApart /\ Closed /\ AllIntact
  BY <1>1 DEF KeptOK
<1>3. ArgApart' /\ FilApart'
  BY <1>1 DEF ArgApart, FilApart
<1>4. Closed'
  BY <1>1, <1>2, OpenFile DEF Closed, Start, TypeOK
<1>5. ASSUME NEW f \in kept PROVE Intact(f)'
  <2>1. /\ Intact(f)
        /\ \A k \in 1 .. Len(f.sectors) :
             f.sectors[k] \in Sector /\ f.sectors[k] # Start
    BY <1>1, <1>2, KeptSector, CurrentApart DEF AllIntact, Apart
  <2> QED  BY <1>1, <2>1, IntactStays DEF TypeOK
<1>6. closeRec'[fil.sectors[1]] = Len(fil.sectors)
  BY <1>1, OpenFile DEF TypeOK, Start
<1>7. \A k \in 1 .. Len(fil.sectors) :
        /\ header[fil.sectors[k]] = [name |-> fil.name, start |-> fil.sectors[1]]
        /\ data[fil.sectors[k]] = <<fil.gen, k>>
  BY <1>1 DEF FilOK, FilHeader, FilData, Start
<1>8. \A k \in 1 .. Len(fil.sectors) :
        k < Len(fil.sectors) => link[fil.sectors[k]] = fil.sectors[k + 1]
  BY <1>1, OpenFile DEF FilOK, FilLinks
<1>9. ASSUME NEW f \in kept', f = fil PROVE Intact(f)'
  <2>1. DOMAIN fil.sectors = 1 .. Len(fil.sectors)
    BY <1>1, OpenFile
  <2> QED  BY <1>1, <1>6, <1>7, <1>8, <1>9, <2>1 DEF Intact
<1>10. AllIntact'
  BY <1>1, <1>5, <1>9 DEF AllIntact
<1> QED  BY <1>3, <1>4, <1>10

(* The second erase of ampm_f_unlink is of a sector of no closed file.     *)
LEMMA UnlinkSecondKept ==
  ASSUME TypeOK, Shape, KeptOK, UnlinkSecond
  PROVE  KeptOK'
<1> SUFFICES ASSUME ~stray' PROVE ArgApart' /\ FilApart' /\ Closed' /\ AllIntact'
  BY DEF KeptOK
<1>1. /\ op = "unlink" /\ op' = "idle" /\ fil = NoFile /\ fil' = fil
      /\ arg \in Sector /\ Erase(arg) /\ kept' = kept /\ stray' = stray
  BY DEF UnlinkSecond, Shape, hist
<1>2. Apart(arg) /\ Closed /\ AllIntact
  BY <1>1 DEF KeptOK, ArgApart
<1>3. ArgApart' /\ FilApart'
  BY <1>1 DEF ArgApart, FilApart
<1>4. Closed'
  BY <1>1, <1>2, ErasedClosed
<1>5. AllIntact'
  BY <1>1, <1>2, ErasedApart DEF AllIntact, Apart
<1> QED  BY <1>3, <1>4, <1>5

(* The cleanup erases no closed file: what it erases has no close record.  *)
LEMMA CleanupKept ==
  ASSUME TypeOK, Shape, KeptOK, Cleanup
  PROVE  KeptOK'
<1> SUFFICES ASSUME ~stray' PROVE ArgApart' /\ FilApart' /\ Closed' /\ AllIntact'
  BY DEF KeptOK
<1>1. /\ op = "cleanup" /\ op' \in {"cleanup", "idle"} /\ fil = NoFile /\ fil' = fil
      /\ arg \in Sector /\ kept' = kept /\ stray' = stray
  BY DEF Cleanup, Shape
<1>2. Closed /\ AllIntact
  BY <1>1 DEF KeptOK
<1>3. ArgApart' /\ FilApart'
  BY <1>1 DEF ArgApart, FilApart
<1>4. CASE Unfinished(arg)
  <2> DEFINE s == Found(arg).start
  <2>1. /\ s \in Sector /\ Erase(s)
        /\ closeRec[header[s].start] = None
    BY <1>1, <1>4, InUseSector DEF Cleanup, Unfinished
  <2>2. Apart(s)
    <3> SUFFICES ASSUME NEW f \in kept, NEW k \in 1 .. Len(f.sectors),
                        f.sectors[k] = s
                 PROVE  FALSE
      BY DEF Apart
    <3>1. /\ header[s] = [name |-> f.name, start |-> f.sectors[1]]
          /\ closeRec[f.sectors[1]] # None
      BY <1>2, KeptSector DEF AllIntact
    <3> QED  BY <2>1, <3>1
  <2>3. Closed'
    BY <1>1, <1>2, <2>1, ErasedClosed
  <2>4. AllIntact'
    BY <1>1, <1>2, <2>1, <2>2, ErasedApart DEF AllIntact, Apart
  <2> QED  BY <1>3, <2>3, <2>4
<1>5. CASE ~Unfinished(arg)
  <2>1. UNCHANGED flash
    BY <1>5 DEF Cleanup
  <2> QED  BY <1>1, <1>2, <1>3, <2>1 DEF Closed, AllIntact, Intact, flash
<1> QED  BY <1>4, <1>5

(* Every step keeps the closed files.                                      *)
LEMMA KeptNext == TypeOK /\ Shape /\ FilOK /\ KeptOK /\ [Next]_vars => KeptOK'
<1> SUFFICES ASSUME TypeOK, Shape, FilOK, KeptOK, [Next]_vars PROVE KeptOK'
  OBVIOUS
<1>1. CASE PowerCut
  BY <1>1 DEF PowerCut, flash, hist,
              KeptOK, ArgApart, FilApart, Closed, AllIntact, Intact
<1>2. CASE UNCHANGED vars
  BY <1>2, ZenonT(60) DEF vars, flash, hist,
              KeptOK, ArgApart, FilApart, Closed, AllIntact, Intact, Apart
<1>3. CASE CloseAtLimit
  BY <1>3, ZenonT(60) DEF CloseAtLimit, flash,
              KeptOK, ArgApart, FilApart, Closed, AllIntact, Intact, Apart
<1> QED
  BY <1>1, <1>2, <1>3, CreateKept, UnlinkKept, HeadKept, WriteKept, WriteLinkKept,
     WriteNextKept, CloseRecordKept, UnlinkSecondKept, CleanupKept DEF Next

-----------------------------------------------------------------------------
(* A formatted disk satisfies the invariant, and every write, erase and    *)
(* power failure keeps it.                                                 *)
LEMMA InvariantInit == Init => IInv
<1> SUFFICES ASSUME Init PROVE IInv
  OBVIOUS
<1>1. TypeOK
  BY FlashAssumption DEF Init, TypeOK, Ops, Sector, None
<1>2. Shape
  BY Distinctions DEF Init, Shape
<1>3. FilOK
  BY DEF Init, FilOK
<1>4. Clear
  BY Distinctions DEF Init, Clear, Orphan
<1>5. KeptOK
  BY DEF Init, KeptOK, ArgApart, FilApart, Closed, AllIntact
<1> QED  BY <1>1, <1>2, <1>3, <1>4, <1>5 DEF IInv

(* The invariant holds whatever is called and wherever the power fails:    *)
(* the promises of ampm_ff.c below follow from it.                         *)
THEOREM Invariant == Spec => []IInv
<1>1. IInv /\ [Next]_vars => IInv'
  BY TypeNext, ShapeNext, FilNextStep, ClearNext, KeptNext DEF IInv
<1> QED  BY InvariantInit, <1>1, PTL DEF Spec

(* Every record that ampm_ff.c reads is blank or well formed, and every    *)
(* sector number that it computes is on the disk or the one after it.      *)
THEOREM TypeCorrect == Spec => []TypeOK
<1>1. IInv => TypeOK
  BY DEF IInv
<1> QED  BY Invariant, <1>1, PTL

(* Nothing that is created, written, closed, unlinked or cleaned up, and   *)
(* no power failure, changes a sector of another file that was closed      *)
(* (ampm_f_find_free_sector, ampm_f_unlink, ampm_f_disk_cleanup).          *)
THEOREM KeptIntactHolds == Spec => []KeptIntact
<1>1. IInv => KeptIntact
  BY DEF IInv, KeptOK, AllIntact, KeptIntact
<1> QED  BY Invariant, <1>1, PTL

(* ampm_f_open for reading accepts only files that were closed, under the  *)
(* name opened when every sector that leads to it leads there straight, and*)
(* the first two sectors that ampm_f_read takes are theirs.                *)
THEOREM OpenIsWholeHolds == Spec => []OpenIsWhole
<1>1. ASSUME IInv, ~stray, NEW r \in Sector, NEW s \in Sector, NEW n \in Name,
             Opens(r, n, s)
      PROVE  \E f \in kept :
               /\ f.sectors[1] = s
               /\ Straight(n) => f.name = n
               /\ \A k \in DOMAIN f.sectors :
                    k <= 2 => data[ReadSector(s, k)] = <<f.gen, k>>
  <2>1. closeRec[s] # None
    BY <1>1 DEF Opens, Accepts
  <2>2. PICK f \in kept : f.sectors[1] = s
    BY <1>1, <2>1 DEF IInv, KeptOK, Closed
  <2>3. Intact(f) /\ f.sectors \in Seq(Sector) /\ Len(f.sectors) \in Nat \ {0}
    BY <1>1 DEF IInv, KeptOK, AllIntact, TypeOK, File, Shape
  <2>4. ASSUME NEW k \in DOMAIN f.sectors, k <= 2
        PROVE  ReadSector(s, k) = f.sectors[k]
    <3>1. k \in 1 .. Len(f.sectors)
      BY <2>3
    <3>2. CASE k = 1
      BY <2>2, <3>2 DEF ReadSector
    <3>3. CASE k = 2
      <4>1. 1 \in DOMAIN f.sectors /\ 1 < Len(f.sectors)
        BY <2>3, <3>1, <3>3
      <4> QED  BY <2>2, <2>3, <3>3, <4>1 DEF Intact, ReadSector
    <3> QED  BY <2>4, <3>1, <3>2, <3>3
  <2>5. ASSUME Straight(n) PROVE f.name = n
    <3>1. PICK i \in Sector : Accepts(i, n) /\ s = Found(i).start
      BY <1>1 DEF Opens
    <3>2. Found(i) = header[s] /\ Found(i).name = n
      BY <2>5, <3>1 DEF Accepts, Straight, Found
    <3>3. header[s] = [name |-> f.name, start |-> f.sectors[1]]
      BY <2>2, <2>3 DEF Intact
    <3> QED  BY <3>2, <3>3
  <2> QED  BY <2>2, <2>3, <2>4, <2>5 DEF Intact
<1>2. IInv => OpenIsWhole
  BY <1>1 DEF OpenIsWhole
<1> QED  BY Invariant, <1>2, PTL

(* Wherever the power fails, the next ampm_f_init leaves no file without a *)
(* close record (ampm_f_disk_cleanup).                                     *)
THEOREM CleanupClearsHolds == Spec => []CleanupClears
<1>1. IInv => CleanupClears
  BY DEF IInv, Clear, Orphan, CleanupClears
<1> QED  BY Invariant, <1>1, PTL

-----------------------------------------------------------------------------
(* A set of numbers that is not empty has a least one.                     *)
LEMMA LeastOf ==
  ASSUME NEW T \in SUBSET Nat, T # {}
  PROVE  \E x \in T : \A y \in T : ~(y < x)
<1> DEFINE R == OpToRel(<, Nat)
<1>1. \A x, y \in Nat : <<x, y>> \in R <=> x < y
  BY DEF OpToRel
<1>2. IsWellFoundedOn(R, Nat)
  BY NatLessThanWellFounded
<1> HIDE DEF R
<1>3. \E x \in T : \A y \in T : ~(<<y, x>> \in R)
  BY <1>2, WFMin
<1> QED  BY <1>1, <1>3

(* The loops of ampm_f_open go over finitely many sectors: a set of them   *)
(* that is not empty has one that the scan comes to first.                 *)
LEMMA ScanHasFirst ==
  ASSUME NEW r \in Sector, NEW S \in SUBSET (Sector \ {r}), S # {}
  PROVE  \E i \in S : \A j \in S : ~Before(r, j, i)
<1>0. N \in Nat \ {0} /\ Sector = 0 .. N - 1
  BY FlashAssumption DEF Sector
<1>3. \A T \in SUBSET Nat : T # {} => \E x \in T : \A y \in T : ~(y < x)
  BY LeastOf
<1>4. CASE \E i \in S : i < r
  <2> DEFINE T == {r - i : i \in {j \in S : j < r}}
  <2>1. T \in SUBSET Nat /\ T # {}
    BY <1>0, <1>4
  <2>2. PICK x \in T : \A y \in T : ~(y < x)
    BY <1>3, <2>1
  <2>3. PICK i \in S : i < r /\ x = r - i
    OBVIOUS
  <2>4. ASSUME NEW j \in S, j < r PROVE j <= i
    <3>1. r - j \in T
      BY <2>4
    <3>2. ~(r - j < r - i)
      BY <2>2, <2>3, <3>1
    <3>3. i \in Int /\ j \in Int /\ r \in Int
      BY <1>0
    <3> QED  BY <3>2, <3>3
  <2> QED  BY <1>0, <2>3, <2>4 DEF Before
<1>5. CASE ~ \E i \in S : i < r
  <2>1. S \in SUBSET Nat
    BY <1>0
  <2>2. PICK i \in S : \A j \in S : ~(j < i)
    BY <1>3, <2>1
  <2> QED  BY <1>0, <1>5, <2>2 DEF Before
<1> QED  BY <1>4, <1>5

(* A file that was closed is the one that ampm_f_open finds under its name,*)
(* or another closed file of the same name is, from every start of its scan*)
(* that is not its only sector, while the sectors that lead to the name    *)
(* lead there straight.                                                    *)
THEOREM ClosedIsFoundHolds == Spec => []ClosedIsFound
<1>1. ASSUME IInv, ~stray, NEW f \in kept, NEW r \in Sector,
             Straight(f.name), NEW k \in DOMAIN f.sectors, f.sectors[k] # r
      PROVE  \E g \in kept : g.name = f.name /\ Opens(r, f.name, g.sectors[1])
  <2> DEFINE S == {i \in Sector \ {r} : Accepts(i, f.name)}
  <2>1. TypeOK /\ Shape /\ Intact(f)
    BY <1>1 DEF IInv, KeptOK, AllIntact
  <2>2. f.sectors[k] \in S
    <3>1. f \in File /\ k \in 1 .. Len(f.sectors)
      BY <2>1 DEF TypeOK, File
    <3>2. 1 \in 1 .. Len(f.sectors)
      BY <2>1, KeptSector
    <3>3. \A l \in 1 .. Len(f.sectors) :
            /\ f.sectors[l] \in Sector
            /\ header[f.sectors[l]] = [name |-> f.name, start |-> f.sectors[1]]
            /\ InUse(f.sectors[l])
      BY <2>1, KeptSector
    <3>4. /\ f.sectors[k] \in Sector
          /\ InUse(f.sectors[k])
          /\ Found(f.sectors[k]) = [name |-> f.name, start |-> f.sectors[1]]
      BY <3>1, <3>2, <3>3 DEF Found
    <3>5. closeRec[f.sectors[1]] # None
      BY <2>1, KeptSector
    <3> QED  BY <1>1, <3>4, <3>5 DEF Accepts
  <2>3. PICK i \in S : \A j \in S : ~Before(r, j, i)
    BY <2>2, ScanHasFirst
  <2>4. Found(i).start \in Sector
    BY <2>1, InUseSector DEF Accepts
  <2>5. \A j \in Sector : Before(r, j, i) => ~Accepts(j, f.name)
    BY <2>3 DEF Before
  <2>6. Opens(r, f.name, Found(i).start)
    BY <2>3, <2>4, <2>5 DEF Opens
  <2>7. PICK g \in kept : g.sectors[1] = Found(i).start
    BY <1>1, <2>3, <2>4 DEF IInv, KeptOK, Closed, Accepts
  <2>8. header[g.sectors[1]] = [name |-> g.name, start |-> g.sectors[1]]
    BY <1>1, <2>1, KeptSector DEF IInv, KeptOK, AllIntact
  <2>9. Found(i) = header[g.sectors[1]] /\ Found(i).name = f.name
    BY <1>1, <2>3, <2>7 DEF Accepts, Straight, Found
  <2>10. g.name = f.name
    BY <2>8, <2>9
  <2> QED  BY <2>6, <2>7, <2>10
<1>2. IInv => ClosedIsFound
  BY <1>1 DEF ClosedIsFound
<1> QED  BY Invariant, <1>2, PTL

-----------------------------------------------------------------------------
(* The disk as a store of files.  A closed file is known by its number,    *)
(* and no file is longer than the bound.                                   *)
Numbered ==
  /\ fil # NoFile => fil.gen = made /\ \A f \in kept : f.gen < made
  /\ \A f \in kept : f.gen <= made
  /\ \A f, g \in kept : f.gen = g.gen => f = g

Sized ==
  /\ fil # NoFile => Len(fil.sectors) <= MaxBlocks
  /\ op \in {"link", "next"} => Len(fil.sectors) < MaxBlocks
  /\ \A f \in kept : Len(f.sectors) <= MaxBlocks

\* A file that was closed, as the store has it.
FileOf(f) == [name |-> f.name,
              content |-> [k \in 1 .. Len(f.sectors) |-> <<f.gen, k>>]]

DiskIsKept == ~stray => OnDisk = {FileOf(f) : f \in kept}

StoreInv == IInv /\ Numbered /\ Sized /\ DiskIsKept

(* Files are numbered as ampm_f_open creates them, one at a time.          *)
LEMMA NumberedNext == IInv /\ Numbered /\ [Next]_vars => Numbered'
<1> SUFFICES ASSUME IInv, Numbered, [Next]_vars PROVE Numbered'
  OBVIOUS
<1>0. /\ made \in Nat /\ \A f \in kept : f.gen \in Nat
      /\ fil \in File \cup {NoFile}
  BY FlashAssumption DEF IInv, TypeOK, File, Gen
<1>1. ASSUME NEW n \in Name, Create(n) PROVE Numbered'
  <2>1. fil'.gen = made + 1 /\ made' = made + 1 /\ kept' = kept
    BY <1>1 DEF Create
  <2> QED  BY <1>0, <2>1 DEF Numbered
<1>2. ASSUME NEW n \in Name, Unlink(n) PROVE Numbered'
  BY <1>2 DEF Unlink, Numbered
<1>3. CASE CloseRecord
  <2>1. /\ fil # NoFile /\ kept' = kept \cup {fil} /\ fil' = NoFile /\ made' = made
    BY <1>3 DEF CloseRecord, IInv, Shape
  <2>2. fil.gen = made /\ \A f \in kept : f.gen < made
    BY <2>1 DEF Numbered
  <2> QED  BY <1>0, <2>1, <2>2 DEF Numbered
<1>4. CASE WriteNext
  <2>1. fil' = NoFile \/ (fil # NoFile /\ fil' = [fil EXCEPT !.sectors = Append(@, arg)])
    BY <1>4 DEF WriteNext, IInv, Shape
  <2>2. fil' = NoFile \/ (fil # NoFile /\ fil'.gen = fil.gen)
    BY <1>0, <2>1 DEF File
  <2> QED  BY <1>4, <2>2 DEF WriteNext, Numbered
<1>5. CASE \/ CreateHead \/ Write \/ WriteLink \/ WriteNextHead \/ Close
           \/ CloseAtLimit \/ UnlinkSecond \/ PowerCut \/ Cleanup \/ UNCHANGED vars
  <2>1. UNCHANGED <<kept, made>> /\ fil' \in {fil, NoFile}
    BY <1>5 DEF CreateHead, Write, WriteLink, WriteNextHead, Close,
                CloseAtLimit, UnlinkSecond, PowerCut, Cleanup, vars, hist
  <2> QED  BY <2>1 DEF Numbered
<1> QED  BY <1>1, <1>2, <1>3, <1>4, <1>5 DEF Next

(* A file grows by one sector with each link record.                       *)
LEMMA SizedNext == IInv /\ Sized /\ [Next]_vars => Sized'
<1> SUFFICES ASSUME IInv, Sized, [Next]_vars PROVE Sized'
  OBVIOUS
<1>0. MaxBlocks \in Nat \ {0} /\ TypeOK /\ Shape
  BY FlashAssumption DEF IInv
<1>1. ASSUME NEW n \in Name, Create(n) PROVE Sized'
  <2>1. PICK p \in Sector : fil'.sectors = <<p>>
    BY <1>1 DEF Create
  <2> QED  BY <1>0, <1>1, <2>1 DEF Create, Sized
<1>2. ASSUME NEW n \in Name, Unlink(n) PROVE Sized'
  BY <1>2 DEF Unlink, Sized
<1>3. CASE CloseRecord
  BY <1>0, <1>3 DEF CloseRecord, Sized, Shape
<1>4. CASE WriteNext
  <2>1. CASE arg = Outside
    BY <1>4, <2>1 DEF WriteNext, Sized
  <2>2. CASE arg # Outside
    <3>1. /\ fil # NoFile /\ op' = "nextHead" /\ kept' = kept
          /\ fil' = [fil EXCEPT !.sectors = Append(@, arg)]
          /\ arg \in Sector /\ Len(fil.sectors) < MaxBlocks
      BY <1>0, <1>4, <2>2 DEF WriteNext, Shape, TypeOK, Sized
    <3>2. fil'.sectors = Append(fil.sectors, arg)
      BY <1>0, <3>1, OpenFile DEF File
    <3>3. Len(fil'.sectors) = Len(fil.sectors) + 1 /\ Len(fil.sectors) \in Nat
      BY <1>0, <3>1, <3>2, OpenFile
    <3> QED  BY <1>0, <3>1, <3>3 DEF Sized
  <2> QED  BY <2>1, <2>2
<1>5. CASE \/ CreateHead \/ Write \/ WriteLink \/ WriteNextHead \/ Close
           \/ CloseAtLimit \/ UnlinkSecond \/ PowerCut \/ Cleanup \/ UNCHANGED vars
  <2>1. /\ kept' = kept
        /\ \/ fil' = fil /\ (op' \in {"link", "next"} =>
                                op \in {"link", "next"} \/ Len(fil.sectors) < MaxBlocks)
           \/ fil' = NoFile /\ op' \in {"cleanup", "idle"}
    BY <1>5 DEF CreateHead, Write, WriteLink, WriteNextHead, Close,
                CloseAtLimit, UnlinkSecond, PowerCut, Cleanup, vars, hist
  <2> QED  BY <2>1 DEF Sized
<1> QED  BY <1>1, <1>2, <1>3, <1>4, <1>5 DEF Next

-----------------------------------------------------------------------------
(* The links from one sector on make one chain of each length.             *)
LEMMA OneChain ==
  ASSUME NEW m \in Nat \ {0}, NEW p \in [1 .. m -> Sector], NEW q \in [1 .. m -> Sector],
         p[1] = q[1],
         \A k \in 1 .. m - 1 : link[p[k]] = p[k + 1],
         \A k \in 1 .. m - 1 : link[q[k]] = q[k + 1]
  PROVE  p = q
<1> DEFINE T == {k \in 1 .. m : p[k] # q[k]}
<1>1. SUFFICES ASSUME T # {} PROVE FALSE
  OBVIOUS
<1>2. T \in SUBSET Nat
  OBVIOUS
<1>3. PICK x \in T : \A y \in T : ~(y < x)
  BY <1>1, <1>2, LeastOf
<1>4. x \in 1 .. m /\ p[x] # q[x] /\ x # 1
  OBVIOUS
<1>5. x - 1 \in 1 .. m - 1 /\ x - 1 \notin T
  BY <1>3, <1>4
<1>6. p[x - 1] = q[x - 1]
  BY <1>5
<1>7. p[x] = link[p[x - 1]] /\ q[x] = link[q[x - 1]]
  BY <1>4, <1>5
<1> QED  BY <1>4, <1>6, <1>7

(* What the close and link records on the flash make up is exactly what was*)
(* closed and not unlinked since.                                          *)
LEMMA OnDiskIsKept ==
  ASSUME IInv
  PROVE  DiskIsKept
<1> SUFFICES ASSUME ~stray PROVE OnDisk = {FileOf(f) : f \in kept}
  BY DEF DiskIsKept
<1> DEFINE Record(q) == [name |-> header[q[1]].name,
                         content |-> [k \in DOMAIN q |-> data[q[k]]]]
<1>0. TypeOK /\ Shape /\ Closed /\ AllIntact
  BY DEF IInv, KeptOK
<1>1. ASSUME NEW f \in kept
      PROVE  /\ f.sectors \in Chains(f.sectors[1])
             /\ f.sectors[1] \in Starts
             /\ Record(f.sectors) = FileOf(f)
  <2>1. /\ f \in File /\ f.sectors \in Seq(Sector) /\ Intact(f)
        /\ Len(f.sectors) \in Nat \ {0}
    BY <1>0, KeptSector DEF AllIntact, TypeOK, File
  <2>2. DOMAIN f.sectors = 1 .. Len(f.sectors) /\ f.sectors \in [1 .. Len(f.sectors) -> Sector]
    BY <2>1
  <2>3. f.sectors[1] \in Sector /\ closeRec[f.sectors[1]] = Len(f.sectors)
    BY <1>0, <2>1, KeptSector DEF Intact
  <2>4. header[f.sectors[1]] = [name |-> f.name, start |-> f.sectors[1]]
    BY <2>1, <2>2 DEF Intact
  <2>5. header[f.sectors[1]] # Blank
    BY <2>1, <2>3, <2>4, Distinctions DEF File, Header
  <2>6. f.sectors[1] \in Starts
    BY <2>1, <2>3, <2>4, <2>5 DEF Starts, None
  <2>7. \A k \in 1 .. Len(f.sectors) - 1 : link[f.sectors[k]] = f.sectors[k + 1]
    BY <2>1, <2>2 DEF Intact
  <2>8. f.sectors \in Chains(f.sectors[1])
    BY <2>2, <2>3, <2>7 DEF Chains
  <2>9. [k \in DOMAIN f.sectors |-> data[f.sectors[k]]]
           = [k \in 1 .. Len(f.sectors) |-> <<f.gen, k>>]
    BY <2>1, <2>2 DEF Intact
  <2>10. header[f.sectors[1]].name = f.name
    BY <2>4
  <2>11. Record(f.sectors) = FileOf(f)
    BY <2>9, <2>10, Zenon DEF FileOf
  <2> QED  BY <2>6, <2>8, <2>11
<1>2. ASSUME NEW s \in Starts, NEW q \in Chains(s)
      PROVE  \E f \in kept : q = f.sectors
  <2>1. PICK f \in kept : f.sectors[1] = s
    BY <1>0 DEF Closed, Starts
  <2>2. f.sectors \in Chains(s)
    BY <1>1, <2>1
  <2>3. closeRec[s] \in Nat \ {0}
    BY <1>0, <2>1, KeptSector DEF AllIntact, Intact
  <2>4. q = f.sectors
    BY <2>2, <2>3, OneChain DEF Chains
  <2> QED  BY <2>4
<1>3. OnDisk = {Record(q) : q \in UNION {Chains(s) : s \in Starts}}
  BY DEF OnDisk
<1> HIDE DEF Record
<1> QED  BY <1>1, <1>2, <1>3

(* Every state of the disk has all of it.                                  *)
LEMMA StoreInvariant == Spec => []StoreInv
<1>1. Init => Numbered /\ Sized
  BY DEF Init, Numbered, Sized
<1> QED  BY Invariant, <1>1, OnDiskIsKept, NumberedNext, SizedNext, PTL DEF Spec, StoreInv

(* What is in the store is whole.                                          *)
LEMMA FilIsWhole ==
  ASSUME StoreInv, NEW f \in File, Len(f.sectors) \in 1 .. MaxBlocks
  PROVE  \E n \in Name, m \in 1 .. MaxBlocks : FileOf(f) = Store!Whole(f.gen, n, m)
<1>1. FileOf(f) = Store!Whole(f.gen, f.name, Len(f.sectors))
  BY Zenon DEF FileOf, Store!Whole
<1>2. f.name \in Name
  BY DEF File
<1> QED  BY <1>1, <1>2, Zenon

(* Two files that were closed are told apart by where they start.          *)
LEMMA ChainsDiffer ==
  ASSUME StoreInv, ~stray, NEW f \in kept, NEW g \in kept, f.sectors[1] = g.sectors[1]
  PROVE  f = g
<1>1. /\ Intact(f) /\ Intact(g) /\ 1 \in DOMAIN f.sectors /\ 1 \in DOMAIN g.sectors
  BY DEF StoreInv, IInv, KeptOK, AllIntact, Shape, TypeOK, File
<1>2. data[f.sectors[1]] = <<f.gen, 1>> /\ data[g.sectors[1]] = <<g.gen, 1>>
  BY <1>1 DEF Intact
<1>3. f.gen = g.gen
  BY <1>2
<1> QED  BY <1>3 DEF StoreInv, Numbered

(* Two files that were closed are told apart by what they hold.            *)
LEMMA FilesDiffer ==
  ASSUME StoreInv, NEW f \in kept, NEW g \in kept, FileOf(f) = FileOf(g)
  PROVE  f = g
<1>1. Len(f.sectors) \in Nat \ {0} /\ Len(g.sectors) \in Nat \ {0}
  BY DEF StoreInv, IInv, Shape, TypeOK, File
<1>2. FileOf(f).content[1] = <<f.gen, 1>> /\ FileOf(g).content[1] = <<g.gen, 1>>
  BY <1>1 DEF FileOf
<1>3. f.gen = g.gen
  BY <1>2
<1> QED  BY <1>3 DEF StoreInv, Numbered

-----------------------------------------------------------------------------
StoreFiles == IF stray THEN {} ELSE OnDisk
StoreLast  == IF fil = NoFile THEN made ELSE made - 1

(* A step that neither closes nor unlinks a file leaves the store alone,   *)
(* but that the file being written may be lost.                            *)
LEMMA QuietRefines ==
  ASSUME StoreInv, StoreInv', kept' = kept, stray' = stray,
         \/ made' = made /\ fil = NoFile /\ fil' = NoFile
         \/ made' = made /\ fil # NoFile
         \/ made' = made + 1 /\ fil = NoFile /\ fil' # NoFile
  PROVE  [Store!Next]_(Store!vars)
<1>1. StoreFiles' = StoreFiles
  BY DEF StoreFiles, StoreInv, DiskIsKept
<1>2. StoreLast' = StoreLast \/ StoreLast' > StoreLast
  <2>1. made \in Nat
    BY FlashAssumption DEF StoreInv, IInv, TypeOK
  <2> QED  BY <2>1 DEF StoreLast
<1> QED  BY <1>1, <1>2 DEF StoreFiles, StoreLast, Store!Next, Store!Lose, Store!vars

(* The write of the close record makes the file appear.                    *)
LEMMA CloseRecordRefines ==
  ASSUME StoreInv, StoreInv', CloseRecord
  PROVE  [Store!Next]_(Store!vars)
<1>1. /\ fil # NoFile /\ fil \in File /\ fil.gen = made
      /\ kept' = kept \cup {fil} /\ fil' = NoFile /\ made' = made /\ stray' = stray
      /\ made \in Nat
  BY OpenFile DEF CloseRecord, StoreInv, IInv, Shape, TypeOK, Numbered
<1>2. StoreLast' = made /\ StoreLast = made - 1 /\ StoreLast' > StoreLast
  BY <1>1 DEF StoreLast
<1>3. CASE stray
  BY <1>1, <1>2, <1>3 DEF StoreFiles, StoreLast, Store!Next, Store!Lose
<1>4. CASE ~stray
  <2>1. /\ OnDisk = {FileOf(f) : f \in kept}
        /\ OnDisk' = {FileOf(f) : f \in kept \cup {fil}}
    BY <1>1, <1>4 DEF StoreInv, DiskIsKept
  <2>2. OnDisk' = OnDisk \cup {FileOf(fil)}
    BY <2>1
  <2>3. Len(fil.sectors) \in 1 .. MaxBlocks
    BY <1>1, OpenFile DEF StoreInv, IInv, Sized, FlashAssumption
  <2>4. PICK n \in Name, m \in 1 .. MaxBlocks : FileOf(fil) = Store!Whole(made, n, m)
    BY <1>1, <2>3, FilIsWhole
  <2>5. /\ StoreFiles = OnDisk /\ StoreFiles' = OnDisk' /\ UNCHANGED stray
    BY <1>1, <1>4 DEF StoreFiles
  <2>6. StoreFiles' = StoreFiles \cup {Store!Whole(StoreLast', n, m)}
    BY <1>2, <2>2, <2>4, <2>5, Zenon
  <2>7. Store!Publish
    BY <1>2, <2>5, <2>6 DEF Store!Publish, StoreFiles, StoreLast
  <2> QED  BY <2>7 DEF Store!Next
<1> QED  BY <1>3, <1>4

(* The first erase of an unlink makes one file disappear, or none, or goes *)
(* astray.                                                                 *)
LEMMA UnlinkRefines ==
  ASSUME StoreInv, StoreInv', NEW n \in Name, Unlink(n)
  PROVE  [Store!Next]_(Store!vars)
<1>1. PICK s :
        /\ kept' = {f \in kept : ~(f.name = n /\ f.sectors[1] = s)}
        /\ stray => stray'
        /\ fil = NoFile /\ fil' = NoFile /\ made' = made
        /\ stray' \in BOOLEAN /\ stray \in BOOLEAN
  BY DEF Unlink, StoreInv, IInv, TypeOK
<1>2. StoreLast' = StoreLast
  BY <1>1 DEF StoreLast
<1>3. CASE stray'
  <2>1. CASE stray
    BY <1>1, <1>2, <1>3, <2>1 DEF StoreFiles, StoreLast, Store!vars
  <2>2. CASE ~stray
    BY <1>1, <1>2, <1>3, <2>2 DEF StoreFiles, StoreLast, Store!Next, Store!GoAstray
  <2> QED  BY <2>1, <2>2
<1>4. CASE ~stray'
  <2>1. ~stray
    BY <1>1, <1>4
  <2>2. /\ OnDisk = {FileOf(f) : f \in kept}
        /\ OnDisk' = {FileOf(f) : f \in kept'}
    BY <1>4, <2>1 DEF StoreInv, DiskIsKept
  <2>3. CASE kept' = kept
    BY <1>1, <1>2, <1>4, <2>1, <2>2, <2>3 DEF StoreFiles, StoreLast, Store!vars
  <2>4. CASE kept' # kept
    <3>1. PICK f \in kept : f.name = n /\ f.sectors[1] = s
      BY <1>1, <2>4
    <3>2. ASSUME NEW g \in kept, g.name = n, g.sectors[1] = s PROVE g = f
      BY <2>1, <3>1, <3>2, ChainsDiffer
    <3>3. kept' = kept \ {f}
      BY <1>1, <3>1, <3>2
    <3>4. OnDisk' = OnDisk \ {FileOf(f)}
      BY <2>2, <3>1, <3>3, FilesDiffer
    <3>5. FileOf(f) \in OnDisk
      BY <2>2, <3>1
    <3> QED  BY <1>1, <1>2, <1>4, <2>1, <3>4, <3>5
             DEF StoreFiles, StoreLast, Store!Next, Store!Remove
  <2> QED  BY <2>3, <2>4
<1> QED  BY <1>1, <1>3, <1>4

(* The flash is a store of files: whatever is half written or left over on *)
(* it and wherever the power fails, its files change one at a time, at once*)
(* and as a whole (ampm_f_close, ampm_f_unlink), and none comes back.      *)
THEOREM StoreRefinement == Spec => IsFileStore
<1>1. Init => Store!Init
  <2> SUFFICES ASSUME Init PROVE Store!Init
    OBVIOUS
  <2>1. Starts = {}
    BY DEF Init, Starts
  <2>2. OnDisk = {}
    BY <2>1 DEF OnDisk
  <2> QED  BY <2>2 DEF Init, Store!Init
<1>2. StoreInv /\ StoreInv' /\ [Next]_vars => [Store!Next]_(Store!vars)
  <2> SUFFICES ASSUME StoreInv, StoreInv', [Next]_vars
               PROVE  [Store!Next]_(Store!vars)
    OBVIOUS
  <2>1. ASSUME NEW n \in Name, Create(n) PROVE [Store!Next]_(Store!vars)
    <3>1. made \in Nat
      BY FlashAssumption DEF StoreInv, IInv, TypeOK
    <3>0. NoFile.gen = 0
      BY DEF NoFile
    <3>2. fil'.gen = made + 1
      BY <2>1 DEF Create
    <3>3. fil' # NoFile
      BY <3>0, <3>1, <3>2
    <3> QED  BY <2>1, <3>3, QuietRefines DEF Create
  <2>2. CASE WriteNext \/ CloseAtLimit
    BY <2>2, QuietRefines DEF WriteNext, CloseAtLimit, StoreInv, IInv, Shape
  <2>3. CASE CreateHead \/ Write \/ WriteLink \/ WriteNextHead \/ Close
    BY <2>3, QuietRefines
       DEF CreateHead, Write, WriteLink, WriteNextHead, Close, hist, StoreInv, IInv, Shape
  <2>4. CASE UnlinkSecond \/ Cleanup \/ PowerCut \/ UNCHANGED vars
    BY <2>4, QuietRefines
       DEF UnlinkSecond, Cleanup, PowerCut, vars, hist, StoreInv, IInv, Shape
  <2> QED  BY <2>1, <2>2, <2>3, <2>4, CloseRecordRefines, UnlinkRefines DEF Next
<1> QED  BY <1>1, <1>2, StoreInvariant, PTL DEF Spec, IsFileStore, Store!Spec
=============================================================================
