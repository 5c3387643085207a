----------------------------- MODULE Hd65Proofs ------------------------------
(***************************************************************************)
(* Theorems about the GO363 driver, for any geometry, segment size, poll    *)
(* limit and set of requests, and for every behaviour of the board that     *)
(* Go363 allows.                                                            *)
(***************************************************************************)
EXTENDS Hd65, Sequences, TLAPS

LEMMA TrackPositive == Heads * Sectors \in Nat \ {0}
  BY GeometryNat, Z3

LEMMA ChsOfType ==
  ASSUME NEW b \in Nat
  PROVE  CylOf(b) \in Nat /\ ChsOf(b) \in Chs
<1> DEFINE perCyl == Heads * Sectors
<1>1. perCyl \in Nat /\ perCyl > 0
  BY TrackPositive
<1>2. Sectors \in Nat /\ Sectors > 0
  BY GeometryNat
<1> HIDE DEF perCyl
<1>3. b \div perCyl \in Nat /\ b % perCyl \in Nat
  BY <1>1
<1>4. (b % perCyl) \div Sectors \in Nat /\ (b % perCyl) % Sectors \in Nat
  BY <1>2, <1>3
<1> QED
  BY <1>3, <1>4 DEF perCyl, CylOf, ChsOf, Chs

LEMMA BlockOfType ==
  ASSUME NEW a \in Chs
  PROVE  BlockOf(a) \in Nat
<1>1. a.cyl \in Nat /\ a.head \in Nat /\ a.sector \in Nat
  BY DEF Chs
<1>2. Heads \in Nat /\ Sectors \in Nat
  BY GeometryNat
<1>3. a.cyl * Heads + a.head \in Nat
  BY <1>1, <1>2
<1> QED
  BY <1>1, <1>2, <1>3 DEF BlockOf

LEMMA SectorsOfType ==
  ASSUME NEW c \in Words
  PROVE  SectorsOf(c) \in Nat \ {0}
  BY DEF SectorsOf, Words

LEMMA NextPageType ==
  ASSUME NEW p \in 0 .. SegPages - 1
  PROVE  NextPage(p) \in 0 .. SegPages - 1
  BY SegmentFits DEF NextPage

LEMMA PhysicalType ==
  ASSUME NEW p \in 0 .. SegPages - 1
  PROVE  Physical(p) \in 0 .. MemPages - 1
  BY SegmentFits, GeometryNat DEF Physical

------------------------------------------------------------------------------

DriverTypeOK ==
  /\ pc \in {"off", "idle", "next", "issue", "poll", "ack", "ret"}
  /\ routine \in {"specify", "seek", "read"}
  /\ booting \in BOOLEAN
  /\ polls \in 0 .. PollLimit
  /\ lba \in Nat /\ page \in 0 .. SegPages - 1 /\ left \in Nat
  /\ onCyl \in Nat
  /\ r7 \in {0, 2, 4, 5, 6}
  /\ units \in BOOLEAN
  /\ blk \in [buffer : 0 .. SegPages - 1, count : Words,
              first : Chs, asked : Nat]

LEMMA TypeSplit == TypeOK <=> DeviceTypeOK /\ DriverTypeOK
  BY DEF TypeOK, DriverTypeOK

\* Issuing a command keeps the board's types.
LEMMA IssueType ==
  ASSUME DeviceTypeOK, NEW kind \in {"seek", "read"}, NEW a \in Chs,
         NEW p \in 0 .. MemPages - 1, Issue(kind, a, p)
  PROVE  DeviceTypeOK'
<1>1. CASE op' = kind /\ target' = a /\ dma' = p /\ status' = "busy"
           /\ pending' \in {pending, FALSE}
  <2>1. UNCHANGED <<heads, ready, mem>>
    BY DEF Issue
  <2>2. pending' \in BOOLEAN
    BY <1>1 DEF DeviceTypeOK
  <2> QED
    BY <1>1, <2>1, <2>2 DEF DeviceTypeOK
<1>2. CASE UNCHANGED <<op, target, dma, status, pending>>
  BY <1>2 DEF Issue, DeviceTypeOK
<1> QED
  BY <1>1, <1>2 DEF Issue

LEMMA ClearEndType ==
  ASSUME DeviceTypeOK, ClearEnd
  PROVE  DeviceTypeOK'
<1>1. status' \in {"clear", "busy", "normal", "abnormal", "invalid"}
  BY DEF ClearEnd, DeviceTypeOK
<1> QED
  BY <1>1 DEF ClearEnd, DeviceTypeOK

LEMMA ResetType ==
  ASSUME DeviceTypeOK, ResetAndIssue("specify")
  PROVE  DeviceTypeOK'
<1>1. Origin \in Chs
  BY DEF Origin, Chs
<1> QED
  BY <1>1 DEF ResetAndIssue, DeviceTypeOK

\* So do the board's own steps.
LEMMA DeviceType ==
  ASSUME DeviceTypeOK, Device
  PROVE  DeviceTypeOK'
<1> USE DEF DeviceTypeOK, End
<1>1. CASE SpecifyEnds
  BY <1>1 DEF SpecifyEnds
<1>2. CASE SeekArrives
  <2>1. heads' \in 0 .. Cylinders - 1
    BY <1>2, GeometryNat DEF SeekArrives, Chs
  <2> QED
    BY <1>2, <2>1 DEF SeekArrives
<1>3. CASE SeekGoesWrong
  BY <1>3 DEF SeekGoesWrong
<1>4. CASE ReadTransfers
  <2>1. mem' \in [0 .. MemPages - 1 -> Chs \cup {Junk}]
    BY <1>4 DEF ReadTransfers
  <2> QED
    BY <1>4, <2>1 DEF ReadTransfers
<1>5. CASE ReadGoesWrong
  <2>1. mem' \in [0 .. MemPages - 1 -> Chs \cup {Junk}]
    BY <1>5 DEF ReadGoesWrong
  <2>2. /\ op' = "none" /\ pending' = TRUE
        /\ status' \in {"abnormal", "invalid"}
        /\ UNCHANGED <<target, dma, ready, heads>>
    BY <1>5 DEF ReadGoesWrong
  <2> QED
    BY <2>1, <2>2
<1>6. CASE UnitChanges
  <2>1. ready' \in BOOLEAN
    BY <1>6 DEF UnitChanges
  <2> QED
    BY <1>6, <2>1 DEF UnitChanges
<1> QED
  BY <1>1, <1>2, <1>3, <1>4, <1>5, <1>6 DEF Device

LEMMA StartType ==
  ASSUME TypeOK, NEW b \in Nat, NEW a \in Chs, NEW buffer \in Buffers,
         NEW count \in Counts, Start(b, a, buffer, count)
  PROVE  TypeOK'
<1>1. buffer \in 0 .. SegPages - 1 /\ count \in Words
  BY RequestsAre
<1>2. SectorsOf(count) \in Nat
  BY <1>1, SectorsOfType
<1>3. DeviceTypeOK'
  BY DEF Start, go363, TypeOK, DeviceTypeOK
<1>4. blk' \in [buffer : 0 .. SegPages - 1, count : Words,
                first : Chs, asked : Nat]
  BY <1>1 DEF Start
<1>5. booting' \in BOOLEAN /\ units' \in BOOLEAN
  BY DEF Start, TypeOK
<1>6. /\ pc' = "next" /\ routine' = routine /\ polls' = polls
      /\ lba' = b /\ page' = buffer /\ left' = SectorsOf(count)
      /\ onCyl' = 65535 /\ r7' = r7
  BY DEF Start, NoCyl
<1>7. DriverTypeOK'
  BY <1>1, <1>2, <1>4, <1>5, <1>6 DEF DriverTypeOK, TypeOK
<1> QED
  BY <1>3, <1>7, TypeSplit DEF TypeOK, DriverTypeOK

\* The type invariant holds in every reachable state.
THEOREM TypeCorrect == Spec => []TypeOK
<1>1. Init => TypeOK
  <2> SUFFICES ASSUME Init
               PROVE  TypeOK
    OBVIOUS
  <2>1. Origin \in Chs
    BY DEF Origin, Chs
  <2>2. DeviceTypeOK
    <3>1. /\ op = "none" /\ target \in Chs /\ dma = 0 /\ status = "clear"
          /\ heads \in 0 .. Cylinders - 1
          /\ mem = [p \in 0 .. MemPages - 1 |-> Junk]
      BY <2>1 DEF Init, DeviceInit
    <3>2. pending \in BOOLEAN /\ ready \in BOOLEAN
      BY DEF Init, DeviceInit
    <3>3. 0 \in 0 .. MemPages - 1
      BY GeometryNat
    <3>4. mem \in [0 .. MemPages - 1 -> Chs \cup {Junk}]
      BY <3>1
    <3> QED
      BY <3>1, <3>2, <3>3, <3>4 DEF DeviceTypeOK
  <2>3. blk \in [buffer : 0 .. SegPages - 1, count : Words,
                 first : Chs, asked : Nat]
    BY <2>1, SegmentFits DEF Init, Words
  <2>4. booting \in BOOLEAN /\ units \in BOOLEAN
    BY DEF Init
  <2>5. /\ pc = "off" /\ routine = "specify" /\ polls = 0 /\ lba = 0
        /\ page = 0 /\ left = 0 /\ onCyl = 65535 /\ r7 = 0
    BY DEF Init, NoCyl
  <2>6. 0 \in 0 .. SegPages - 1 /\ 0 \in 0 .. PollLimit
    BY SegmentFits, PollLimitNat
  <2>7. DriverTypeOK
    BY <2>3, <2>4, <2>5, <2>6 DEF DriverTypeOK
  <2> QED
    BY <2>2, <2>7, TypeSplit
<1>2. TypeOK /\ [Next]_vars => TypeOK'
  <2> SUFFICES ASSUME TypeOK, [Next]_vars
               PROVE  TypeOK'
    OBVIOUS
  <2>1. DeviceTypeOK /\ DriverTypeOK
    BY TypeSplit
  <2>2. SUFFICES DeviceTypeOK' /\ DriverTypeOK'
    BY DEF TypeOK, DriverTypeOK
  <2>3. CASE UNCHANGED vars
    BY <2>1, <2>3 DEF vars, go363, driver, DeviceTypeOK, DriverTypeOK
  <2>4. CASE Boot
    <3>1. DeviceTypeOK'
      BY <2>1, <2>4, ResetType DEF Boot
    <3>2. booting' \in BOOLEAN
      BY <2>4 DEF Boot
    <3>3. DriverTypeOK'
      BY <2>1, <2>4, <3>2, PollLimitNat DEF Boot, DriverTypeOK
    <3> QED
      BY <3>1, <3>3
  <2>5. CASE RdLba
    <3>1. PICK b \in Blocks, buffer \in Buffers, count \in Counts :
            Start(b, ChsOf(b), buffer, count)
      BY <2>5 DEF RdLba
    <3>2. b \in Nat /\ ChsOf(b) \in Chs
      BY RequestsAre, ChsOfType
    <3> QED
      BY <3>1, <3>2, StartType DEF TypeOK, DriverTypeOK
  <2>6. CASE RdChs
    <3>1. PICK a \in Asked, buffer \in Buffers, count \in Counts :
            Start(BlockOf(a), a, buffer, count)
      BY <2>6 DEF RdChs
    <3>2. a \in Chs /\ BlockOf(a) \in Nat
      BY RequestsAre, BlockOfType
    <3> QED
      BY <3>1, <3>2, StartType DEF TypeOK, DriverTypeOK
  <2>7. CASE SameCylinder \/ NewCylinder
    <3>1. CylOf(lba) \in Nat
      BY <2>1, ChsOfType DEF DriverTypeOK
    <3>2. DeviceTypeOK'
      BY <2>1, <2>7 DEF SameCylinder, NewCylinder, go363, DeviceTypeOK
    <3>3. DriverTypeOK'
      BY <2>1, <2>7, <3>1 DEF SameCylinder, NewCylinder, DriverTypeOK
    <3> QED
      BY <3>2, <3>3
  <2>8. CASE Seek
    <3>1. [Origin EXCEPT !.cyl = SeekTarget] \in Chs
      BY <2>1 DEF Origin, Chs, SeekTarget, DriverTypeOK
    <3>2. dma \in 0 .. MemPages - 1
      BY <2>1 DEF DeviceTypeOK
    <3>3. DeviceTypeOK'
      BY <2>1, <2>8, <3>1, <3>2, IssueType DEF Seek
    <3>4. DriverTypeOK'
      BY <2>1, <2>8, PollLimitNat DEF Seek, DriverTypeOK
    <3> QED
      BY <3>3, <3>4
  <2>9. CASE Read
    <3>1. ChsOf(lba) \in Chs
      BY <2>1, ChsOfType DEF DriverTypeOK
    <3>2. Physical(page) \in 0 .. MemPages - 1
      BY <2>1, PhysicalType DEF DriverTypeOK
    <3>3. DeviceTypeOK'
      BY <2>1, <2>9, <3>1, <3>2, IssueType DEF Read
    <3>4. DriverTypeOK'
      BY <2>1, <2>9, PollLimitNat DEF Read, DriverTypeOK
    <3> QED
      BY <3>3, <3>4
  <2>10. CASE SeekRefused \/ SeekFailed \/ PollRequest \/ Return
    <3>1. DeviceTypeOK'
      BY <2>1, <2>10 DEF SeekRefused, SeekFailed, PollRequest, Return, go363,
                         DeviceTypeOK
    <3>2. DriverTypeOK'
      BY <2>1, <2>10 DEF SeekRefused, SeekFailed, PollRequest, Return,
                         DriverTypeOK
    <3> QED
      BY <3>1, <3>2
  <2>11. CASE PollAgain \/ PollTimeout
    <3>1. DeviceTypeOK'
      BY <2>1, <2>11 DEF PollAgain, PollTimeout, go363, DeviceTypeOK
    <3>2. polls' \in 0 .. PollLimit
      BY <2>1, <2>11, PollLimitNat DEF PollAgain, PollTimeout, DriverTypeOK
    <3>3. DriverTypeOK'
      BY <2>1, <2>11, <3>2 DEF PollAgain, PollTimeout, DriverTypeOK
    <3> QED
      BY <3>1, <3>3
  <2>12. CASE SpecifyDone \/ SeekDone \/ ReadFailed
    <3>1. DeviceTypeOK'
      BY <2>1, <2>12, ClearEndType DEF SpecifyDone, SeekDone, ReadFailed
    <3>2. units' \in BOOLEAN
      BY <2>1, <2>12 DEF SpecifyDone, SeekDone, ReadFailed, DriverTypeOK
    <3>3. /\ pc' \in {"issue", "ret"}
          /\ routine' \in {"seek", "read"}
          /\ r7' \in {0, 6, r7}
      BY <2>12 DEF SpecifyDone, SeekDone, ReadFailed
    <3>4. UNCHANGED <<booting, polls, lba, page, left, onCyl, blk>>
      BY <2>12 DEF SpecifyDone, SeekDone, ReadFailed
    <3>5. DriverTypeOK'
      BY <2>1, <3>2, <3>3, <3>4 DEF DriverTypeOK
    <3> QED
      BY <3>1, <3>5
  <2>13. CASE ReadDone
    <3>1. DeviceTypeOK'
      BY <2>1, <2>13, ClearEndType DEF ReadDone
    <3>2. page' \in 0 .. SegPages - 1
      BY <2>1, <2>13, NextPageType DEF ReadDone, DriverTypeOK
    <3>3. left' \in Nat /\ lba' \in Nat
      BY <2>1, <2>13 DEF ReadDone, DriverTypeOK
    <3>4. DriverTypeOK'
      BY <2>1, <2>13, <3>2, <3>3 DEF ReadDone, DriverTypeOK
    <3> QED
      BY <3>1, <3>4
  <2>14. CASE Device /\ UNCHANGED driver
    BY <2>1, <2>14, DeviceType DEF driver, DriverTypeOK
  <2> QED
    BY <2>3, <2>4, <2>5, <2>6, <2>7, <2>8, <2>9, <2>10, <2>11, <2>12, <2>13,
       <2>14 DEF Next, Step
<1> QED
  BY <1>1, <1>2, PTL DEF Spec

------------------------------------------------------------------------------
(* The inductive invariant behind IdleAtRead and QuietAfterSuccess.  The    *)
(* driver never looks at whether a command is still running; it is safe     *)
(* because the status byte tells (StatusTellsCommand), because r13 starts   *)
(* as no cylinder, so that the first thing a service does is a seek         *)
(* (QuietUnlessFirst), and because a seek that ends good leaves nothing     *)
(* behind (QuietAtRead).                                                    *)

Quiet == op = "none" /\ ~pending

StatusTellsCommand == status = "busy" <=> op # "none"

QuietUnlessFirst ==
  pc = "next" => \/ onCyl = NoCyl /\ CylOf(lba) # NoCyl
                 \/ Quiet

QuietAtRead == pc = "issue" /\ routine = "read" => Quiet

IInv == /\ StatusTellsCommand
        /\ QuietUnlessFirst
        /\ QuietAtRead
        /\ QuietAfterSuccess

\* Clearing the end of a command that the status shows as ended is quiet.
LEMMA ClearIsQuiet ==
  ASSUME StatusTellsCommand, ClearEnd
  PROVE  StatusTellsCommand' /\ (status # "busy" => Quiet')
<1>1. op' = op /\ pending' = FALSE
  BY DEF ClearEnd
<1>2. CASE op = "none"
  <2>1. status' = "clear"
    BY <1>2 DEF ClearEnd
  <2> QED
    BY <1>1, <1>2, <2>1 DEF StatusTellsCommand, Quiet
<1>3. CASE op # "none"
  <2>1. status' = status
    BY <1>3 DEF ClearEnd
  <2> QED
    BY <1>1, <1>3, <2>1 DEF StatusTellsCommand, Quiet
<1> QED
  BY <1>2, <1>3

\* The board by itself never makes a quiet board busy.
LEMMA DeviceKeepsQuiet ==
  ASSUME StatusTellsCommand, Device
  PROVE  StatusTellsCommand' /\ (Quiet => Quiet')
<1>1. CASE UnitChanges
  BY <1>1 DEF UnitChanges, StatusTellsCommand, Quiet
<1>2. CASE SpecifyEnds \/ SeekArrives \/ SeekGoesWrong \/ ReadTransfers
           \/ ReadGoesWrong
  <2>1. op # "none" /\ op' = "none" /\ status' # "busy"
    BY <1>2 DEF SpecifyEnds, SeekArrives, SeekGoesWrong, ReadTransfers,
                ReadGoesWrong, End
  <2> QED
    BY <2>1 DEF StatusTellsCommand, Quiet
<1> QED
  BY <1>1, <1>2 DEF Device

\* A service starts with a seek: no cylinder of a request is marked as none.
LEMMA StartInv ==
  ASSUME IInv, NEW b, NEW a, NEW buffer, NEW count,
         Start(b, a, buffer, count), CylOf(b) # NoCyl
  PROVE  IInv'
<1>1. /\ pc' = "next" /\ onCyl' = NoCyl /\ lba' = b
      /\ op' = op /\ status' = status
  BY DEF Start, go363
<1> QED
  BY <1>1 DEF IInv, StatusTellsCommand, QuietUnlessFirst, QuietAtRead,
              QuietAfterSuccess, CylOf

\* The invariant is kept by every step.
LEMMA Inductive ==
  ASSUME IInv, [Next]_vars
  PROVE  IInv'
<1> USE DEF QuietUnlessFirst, QuietAtRead, QuietAfterSuccess
<1>0. StatusTellsCommand
  BY DEF IInv
<1>1. CASE UNCHANGED vars
  BY <1>1 DEF vars, go363, driver, IInv, StatusTellsCommand, Quiet, CylOf
<1>2. CASE Boot
  <2>1. op' = "specify" /\ status' = "busy" /\ pc' = "poll"
    BY <1>2 DEF Boot, ResetAndIssue
  <2> QED
    BY <2>1 DEF IInv, StatusTellsCommand
<1>3. CASE RdLba
  <2>1. PICK b \in Blocks, buffer \in Buffers, count \in Counts :
          Start(b, ChsOf(b), buffer, count)
    BY <1>3 DEF RdLba
  <2>2. CylOf(b) \in Nat /\ CylOf(b) < 32768
    BY RequestsAre, QuotientsFit, ChsOfType
  <2> QED
    BY <2>1, <2>2, StartInv DEF NoCyl
<1>4. CASE RdChs
  <2>1. PICK a \in Asked, buffer \in Buffers, count \in Counts :
          Start(BlockOf(a), a, buffer, count)
    BY <1>4 DEF RdChs
  <2>2. CylOf(BlockOf(a)) \in Nat /\ CylOf(BlockOf(a)) < 32768
    BY RequestsAre, QuotientsFit, BlockOfType, ChsOfType
  <2> QED
    BY <2>1, <2>2, StartInv DEF NoCyl
<1>5. CASE SameCylinder \/ NewCylinder
  <2>1. UNCHANGED <<op, status, pending>>
    BY <1>5 DEF SameCylinder, NewCylinder, go363
  <2>2. CASE SameCylinder
    <3>1. Quiet /\ pc' = "issue"
      BY <1>0, <2>2 DEF IInv, SameCylinder
    <3> QED
      BY <1>0, <2>1, <3>1 DEF IInv, StatusTellsCommand, Quiet
  <2>3. CASE NewCylinder
    <3>1. pc' = "issue" /\ routine' = "seek"
      BY <2>3 DEF NewCylinder
    <3> QED
      BY <1>0, <2>1, <3>1 DEF IInv, StatusTellsCommand
  <2> QED
    BY <1>5, <2>2, <2>3
<1>6. CASE Seek \/ Read
  <2>1. pc' = "poll"
    BY <1>6 DEF Seek, Read
  <2>2. StatusTellsCommand'
    BY <1>0, <1>6 DEF Seek, Read, Issue, StatusTellsCommand
  <2> QED
    BY <2>1, <2>2 DEF IInv
<1>7. CASE SeekRefused \/ SeekFailed \/ PollAgain \/ PollTimeout \/ PollRequest
  <2>1. UNCHANGED <<op, status>>
    BY <1>7 DEF SeekRefused, SeekFailed, PollAgain, PollTimeout, PollRequest,
                go363
  <2>2. \/ pc' \in {"poll", "ack"}
        \/ pc' = "ret" /\ r7' # 0
    BY <1>7 DEF SeekRefused, SeekFailed, PollAgain, PollTimeout, PollRequest
  <2> QED
    BY <1>0, <2>1, <2>2 DEF IInv, StatusTellsCommand
<1>8. CASE SpecifyDone
  <2>1. StatusTellsCommand' /\ pc' = "issue" /\ routine' = "seek"
    BY <1>0, <1>8, ClearIsQuiet DEF SpecifyDone
  <2> QED
    BY <2>1 DEF IInv
<1>9. CASE SeekDone \/ ReadDone
  <2>1. StatusTellsCommand' /\ Quiet'
    BY <1>0, <1>9, ClearIsQuiet DEF SeekDone, ReadDone
  <2> QED
    BY <2>1 DEF IInv, Quiet
<1>10. CASE ReadFailed
  <2>1. StatusTellsCommand' /\ pc' = "ret" /\ r7' = 6
    BY <1>0, <1>10, ClearIsQuiet DEF ReadFailed
  <2> QED
    BY <2>1 DEF IInv
<1>11. CASE Return
  <2>1. UNCHANGED <<op, status, pending, r7>> /\ pc = "ret"
        /\ pc' \in {"off", "idle"}
    BY <1>11 DEF Return, go363
  <2> QED
    BY <1>0, <2>1 DEF IInv, StatusTellsCommand
<1>12. CASE Device /\ UNCHANGED driver
  <2>1. StatusTellsCommand' /\ (Quiet => Quiet')
    BY <1>0, <1>12, DeviceKeepsQuiet
  <2>2. UNCHANGED <<pc, routine, onCyl, lba, r7>>
    BY <1>12 DEF driver
  <2> QED
    BY <2>1, <2>2 DEF IInv, Quiet, CylOf
<1> QED
  BY <1>1, <1>2, <1>3, <1>4, <1>5, <1>6, <1>7, <1>8, <1>9, <1>10, <1>11, <1>12
     DEF Next, Step

\* So it holds in every reachable state.
THEOREM Invariant == Spec => []IInv
<1>1. Init => IInv
  BY DEF Init, DeviceInit, IInv, StatusTellsCommand, QuietUnlessFirst,
         QuietAtRead, QuietAfterSuccess
<1> QED
  BY <1>1, Inductive, PTL DEF Spec

\* hd65_rd1 never programs the board while another command is running, for
\* any geometry, any requests and any behaviour of the board.
THEOREM ReadFindsBoardIdle == Spec => []IdleAtRead
<1>1. IInv => IdleAtRead
  BY DEF IInv, QuietAtRead, Quiet, IdleAtRead
<1> QED
  BY <1>1, Invariant, PTL

\* A good return leaves no command and no request behind.
THEOREM SuccessIsQuiet == Spec => []QuietAfterSuccess
<1>1. IInv => QuietAfterSuccess
  BY DEF IInv
<1> QED
  BY <1>1, Invariant, PTL
------------------------------------------------------------------------------
(* Arithmetic on quotients and remainders, for the three lemmas below it:    *)
(* a number is a multiple of d and a remainder in one way.                   *)

LEMMA DivMod ==
  ASSUME NEW n \in Nat, NEW d \in Nat \ {0}
  PROVE  /\ n \div d \in Nat /\ n % d \in 0 .. d - 1
         /\ n = (n \div d) * d + (n % d)
OBVIOUS

LEMMA Grow ==
  ASSUME NEW d \in Nat, NEW p \in Nat, NEW q \in Nat, p < q
  PROVE  p * d + d <= q * d
<1>1. PICK e \in Nat : q = p + 1 + e
  <2>1. q - p - 1 \in Nat /\ q = p + 1 + (q - p - 1)
    OBVIOUS
  <2> QED BY <2>1
<1>2. q * d = p * d + d + e * d
  BY <1>1
<1>3. e * d \in Nat /\ p * d \in Nat
  OBVIOUS
<1> QED BY <1>2, <1>3

LEMMA Unique ==
  ASSUME NEW d \in Nat \ {0}, NEW p \in Nat, NEW q \in Nat,
         NEW r \in 0 .. d - 1, NEW s \in 0 .. d - 1, p * d + r = q * d + s
  PROVE  p = q /\ r = s
<1>0. p * d \in Nat /\ q * d \in Nat
  OBVIOUS
<1>1. CASE p < q
  <2>1. p * d + d <= q * d
    BY <1>1, Grow
  <2> HIDE DEF Grow
  <2> QED BY <1>0, <2>1
<1>2. CASE q < p
  <2>1. q * d + d <= p * d
    BY <1>2, Grow
  <2> QED BY <1>0, <2>1
<1> QED BY <1>0, <1>1, <1>2

LEMMA DivIs ==
  ASSUME NEW d \in Nat \ {0}, NEW q \in Nat, NEW r \in 0 .. d - 1
  PROVE  (q * d + r) \div d = q /\ (q * d + r) % d = r
<1> DEFINE n == q * d + r
<1>1. n \in Nat
  OBVIOUS
<1>2. n \div d \in Nat /\ n % d \in 0 .. d - 1 /\ n = (n \div d) * d + (n % d)
  BY <1>1, DivMod
<1> HIDE DEF n
<1>3. q * d + r = (n \div d) * d + (n % d)
  BY <1>2 DEF n
<1>4. q = n \div d /\ r = n % d
  BY <1>2, <1>3, Unique
<1> QED BY <1>4 DEF n

LEMMA ModDiffers ==
  ASSUME NEW d \in Nat \ {0}, NEW b \in Nat, NEW i \in Nat, NEW j \in Nat,
         i < j, j < d
  PROVE  (b + i) % d # (b + j) % d
<1> SUFFICES ASSUME (b + i) % d = (b + j) % d PROVE FALSE
  OBVIOUS
<1> DEFINE p == (b + i) \div d
           q == (b + j) \div d
           r == (b + i) % d
<1>1. p \in Nat /\ r \in 0 .. d - 1 /\ b + i = p * d + r
  <2>1. b + i \in Nat
    OBVIOUS
  <2> QED BY <2>1, DivMod
<1>2. q \in Nat /\ b + j = q * d + r
  <2>1. b + j \in Nat
    OBVIOUS
  <2> QED BY <2>1, DivMod
<1> HIDE DEF p, q, r
<1>3. p * d \in Nat /\ q * d \in Nat
  BY <1>1, <1>2
<1>4. CASE p < q
  <2>1. p * d + d <= q * d
    BY <1>1, <1>2, <1>4, Grow
  <2> QED BY <1>1, <1>2, <1>3, <2>1
<1>5. CASE q < p
  <2>1. q * d + d <= p * d
    BY <1>1, <1>2, <1>5, Grow
  <2> QED BY <1>1, <1>2, <1>3, <2>1
<1>6. CASE p = q
  BY <1>1, <1>2, <1>6
<1> QED BY <1>1, <1>2, <1>4, <1>5, <1>6

LEMMA ModNext ==
  ASSUME NEW d \in Nat \ {0}, NEW n \in Nat
  PROVE  ((n % d) + 1) % d = (n + 1) % d
<1> DEFINE q == n \div d
           r == n % d
<1>1. q \in Nat /\ r \in 0 .. d - 1 /\ n = q * d + r
  BY DivMod
<1> HIDE DEF q, r
<1>2. CASE r + 1 < d
  <2>1. r + 1 \in 0 .. d - 1
    BY <1>1, <1>2
  <2>2. (q * d + (r + 1)) % d = r + 1
    BY <1>1, <2>1, DivIs
  <2>3. (0 * d + (r + 1)) % d = r + 1
    BY <2>1, DivIs
  <2>4. n + 1 = q * d + (r + 1) /\ 0 * d + (r + 1) = r + 1
    BY <1>1
  <2> QED BY <2>2, <2>3, <2>4 DEF r
<1>3. CASE r + 1 = d
  <2>1. ((q + 1) * d + 0) % d = 0 /\ (1 * d + 0) % d = 0
    BY <1>1, DivIs
  <2>2. n + 1 = (q + 1) * d + 0 /\ r + 1 = 1 * d + 0
    BY <1>1, <1>3
  <2> QED BY <2>1, <2>2 DEF r
<1> QED BY <1>1, <1>2, <1>3

------------------------------------------------------------------------------
(* Where a block is on the disk.  The driver divides twice (ChsOf); the      *)
(* properties speak of the sector after a sector (Successor).                *)

LEMMA AddressIs ==
  ASSUME NEW c \in Nat, NEW h \in 0 .. Heads - 1, NEW s \in 0 .. Sectors - 1
  PROVE  ChsOf(c * (Heads * Sectors) + (h * Sectors + s))
           = [cyl |-> c, head |-> h, sector |-> s]
<1> DEFINE perCyl == Heads * Sectors
           r == h * Sectors + s
           b == c * perCyl + r
<1>1. perCyl \in Nat \ {0} /\ Sectors \in Nat \ {0} /\ Heads \in Nat
  BY TrackPositive, GeometryNat
<1>2. h * Sectors + Sectors <= perCyl
  BY <1>1, Grow
<1>3. h * Sectors \in Nat
  BY <1>1
<1>4. r \in 0 .. perCyl - 1
  BY <1>1, <1>2, <1>3
<1>5. r \div Sectors = h /\ r % Sectors = s
  BY <1>1, DivIs
<1> HIDE DEF perCyl, r
<1>6. b \div perCyl = c /\ b % perCyl = r
  BY <1>1, <1>4, DivIs
<1>7. ChsOf(b) = [cyl |-> c, head |-> h, sector |-> s]
  BY <1>5, <1>6 DEF ChsOf, CylOf, perCyl
<1> QED
  BY <1>7 DEF perCyl, r

LEMMA AddressParts ==
  ASSUME NEW b \in Nat
  PROVE  /\ ChsOf(b).cyl \in Nat
         /\ ChsOf(b).head \in 0 .. Heads - 1
         /\ ChsOf(b).sector \in 0 .. Sectors - 1
         /\ b = ChsOf(b).cyl * (Heads * Sectors)
                  + (ChsOf(b).head * Sectors + ChsOf(b).sector)
<1> DEFINE perCyl == Heads * Sectors
           c == b \div perCyl
           r == b % perCyl
           h == r \div Sectors
           s == r % Sectors
<1>1. perCyl \in Nat \ {0} /\ Sectors \in Nat \ {0} /\ Heads \in Nat
  BY TrackPositive, GeometryNat
<1>2. ChsOf(b) = [cyl |-> c, head |-> h, sector |-> s]
  BY DEF ChsOf, CylOf
<1>3. c \in Nat /\ r \in 0 .. perCyl - 1 /\ b = c * perCyl + r
  <2> HIDE DEF perCyl
  <2> QED BY <1>1, DivMod
<1>4. h \in Nat /\ s \in 0 .. Sectors - 1 /\ r = h * Sectors + s
  <2>1. r \in Nat
    BY <1>1, <1>3
  <2> HIDE DEF r
  <2> QED BY <1>1, <2>1, DivMod
<1> HIDE DEF c, r, h, s
<1>5. h < Heads
  <2>1. CASE Heads < h
    <3>1. perCyl + Sectors <= h * Sectors
      BY <1>1, <1>4, <2>1, Grow
    <3>2. h * Sectors \in Nat
      BY <1>1, <1>4
    <3> HIDE DEF perCyl
    <3> QED BY <1>1, <1>3, <1>4, <3>1, <3>2
  <2>2. CASE h = Heads
    <3>1. r = perCyl + s
      BY <1>4, <2>2
    <3> HIDE DEF perCyl
    <3> QED BY <1>1, <1>3, <1>4, <3>1
  <2> QED BY <1>1, <1>4, <2>1, <2>2
<1>6. b = c * perCyl + (h * Sectors + s)
  BY <1>3, <1>4
<1> HIDE DEF perCyl
<1> QED
  BY <1>1, <1>2, <1>3, <1>4, <1>5, <1>6 DEF perCyl

\* hd65_rdchs gives the block that hd65_rd1 turns back into the address.
LEMMA AddressOfBlock ==
  ASSUME NEW a \in Chs, a.head < Heads, a.sector < Sectors
  PROVE  ChsOf(BlockOf(a)) = a
<1>1. /\ a = [cyl |-> a.cyl, head |-> a.head, sector |-> a.sector]
      /\ a.cyl \in Nat /\ a.head \in Nat /\ a.sector \in Nat
  BY DEF Chs
<1>2. Heads \in Nat /\ Sectors \in Nat
  BY GeometryNat
<1>3. a.head \in 0 .. Heads - 1 /\ a.sector \in 0 .. Sectors - 1
  BY <1>1, <1>2
<1> DEFINE c == a.cyl
           h == a.head
           s == a.sector
<1>4. c \in Nat /\ h \in Nat /\ s \in Nat
  BY <1>1
<1> HIDE DEF c, h, s
<1>5. (c * Heads + h) * Sectors + s = c * (Heads * Sectors) + (h * Sectors + s)
  <2>1. (c * Heads + h) * Sectors = (c * Heads) * Sectors + h * Sectors
    BY <1>2, <1>4
  <2>2. (c * Heads) * Sectors = c * (Heads * Sectors)
    BY <1>2, <1>4
  <2>3. c * (Heads * Sectors) \in Nat /\ h * Sectors \in Nat
    BY <1>2, <1>4
  <2> QED BY <1>4, <2>1, <2>2, <2>3
<1>6. BlockOf(a) = c * (Heads * Sectors) + (h * Sectors + s)
  BY <1>5 DEF BlockOf, c, h, s
<1>7. ChsOf(c * (Heads * Sectors) + (h * Sectors + s))
        = [cyl |-> c, head |-> h, sector |-> s]
  BY <1>1, <1>3, AddressIs DEF c, h, s
<1> QED
  BY <1>1, <1>6, <1>7 DEF c, h, s

\* The next block is the next sector of the disk.
LEMMA NextBlock ==
  ASSUME NEW b \in Nat
  PROVE  ChsOf(b + 1) = Successor(ChsOf(b))
<1> DEFINE perCyl == Heads * Sectors
           c == ChsOf(b).cyl
           h == ChsOf(b).head
           s == ChsOf(b).sector
<1>1. perCyl \in Nat \ {0} /\ Sectors \in Nat \ {0} /\ Heads \in Nat \ {0}
  BY TrackPositive, GeometryNat
<1>2. /\ c \in Nat /\ h \in 0 .. Heads - 1 /\ s \in 0 .. Sectors - 1
      /\ b = c * perCyl + (h * Sectors + s)
  BY AddressParts
<1>3. ChsOf(b) = [cyl |-> c, head |-> h, sector |-> s]
  BY DEF ChsOf
<1> HIDE DEF c, h, s
<1>4. c * perCyl \in Nat /\ h * Sectors \in Nat
  BY <1>1, <1>2
<1>5. \A k \in Nat, i \in 0 .. Heads - 1, j \in 0 .. Sectors - 1 :
        ChsOf(k * perCyl + (i * Sectors + j))
          = [cyl |-> k, head |-> i, sector |-> j]
  BY AddressIs
<1>6. CASE s + 1 < Sectors
  <2>1. b + 1 = c * perCyl + (h * Sectors + (s + 1))
    <3> HIDE DEF perCyl
    <3> QED BY <1>1, <1>2, <1>4
  <2>2. s + 1 \in 0 .. Sectors - 1
    BY <1>1, <1>2, <1>6
  <2>3. ChsOf(b + 1) = [cyl |-> c, head |-> h, sector |-> s + 1]
    <3> HIDE DEF perCyl
    <3> QED BY <1>2, <1>5, <2>1, <2>2
  <2> QED
    BY <1>3, <1>6, <2>3 DEF Successor
<1>7. CASE s + 1 = Sectors /\ h + 1 < Heads
  <2>1. (h + 1) * Sectors = h * Sectors + Sectors
    BY <1>1, <1>2
  <2>2. b + 1 = c * perCyl + ((h + 1) * Sectors + 0)
    <3> DEFINE t == (h + 1) * Sectors
               u == h * Sectors
               v == c * perCyl
    <3>1. t = u + Sectors /\ b = v + (u + s) /\ u \in Nat /\ v \in Nat
      BY <1>2, <1>4, <2>1
    <3> HIDE DEF t, u, v
    <3>2. b + 1 = v + (t + 0)
      <4>1. s \in Nat /\ Sectors \in Nat /\ s + 1 = Sectors
        BY <1>1, <1>2, <1>7
      <4>2. b + 1 = v + u + (s + 1) /\ t + 0 = u + (s + 1)
        BY <3>1, <4>1
      <4> QED BY <3>1, <4>1, <4>2
    <3> QED BY <3>2 DEF t, v
  <2>3. h + 1 \in 0 .. Heads - 1 /\ 0 \in 0 .. Sectors - 1
    BY <1>1, <1>2, <1>7
  <2>4. ChsOf(b + 1) = [cyl |-> c, head |-> h + 1, sector |-> 0]
    <3> HIDE DEF perCyl
    <3> QED BY <1>2, <1>5, <2>2, <2>3
  <2>5. ~(s + 1 < Sectors) /\ h + 1 < Heads
    BY <1>1, <1>2, <1>7
  <2> QED
    BY <1>3, <2>4, <2>5 DEF Successor
<1>8. CASE s + 1 = Sectors /\ h + 1 = Heads
  <2>1. h * Sectors + Sectors = perCyl
    <3>1. (h + 1) * Sectors = h * Sectors + Sectors
      BY <1>1, <1>2
    <3> QED BY <1>8, <3>1
  <2>2. b + 1 = (c + 1) * perCyl + (0 * Sectors + 0)
    <3> HIDE DEF perCyl
    <3>1. (c + 1) * perCyl = c * perCyl + perCyl
      BY <1>1, <1>2
    <3> QED BY <1>1, <1>2, <1>4, <1>8, <2>1, <3>1
  <2>3. c + 1 \in Nat /\ 0 \in 0 .. Heads - 1 /\ 0 \in 0 .. Sectors - 1
    BY <1>1, <1>2
  <2>4. ChsOf(b + 1) = [cyl |-> c + 1, head |-> 0, sector |-> 0]
    <3> HIDE DEF perCyl
    <3> QED BY <1>5, <2>2, <2>3
  <2>5. ~(s + 1 < Sectors) /\ ~(h + 1 < Heads)
    BY <1>1, <1>2, <1>8
  <2> QED
    BY <1>3, <2>4, <2>5 DEF Successor
<1> QED
  BY <1>1, <1>2, <1>6, <1>7, <1>8

\* The sectors of a request have pages of their own, and the next page of the
\* buffer is the next slot.
LEMMA SlotsDiffer ==
  ASSUME NEW b \in Nat, NEW i \in Nat, NEW j \in Nat, i < j, j < SegPages
  PROVE  Physical((b + i) % SegPages) # Physical((b + j) % SegPages)
<1>1. (b + i) % SegPages # (b + j) % SegPages
  BY SegmentFits, ModDiffers
<1>2. (b + i) % SegPages \in Nat /\ (b + j) % SegPages \in Nat /\ Base \in Nat
  BY SegmentFits
<1> QED
  BY <1>1, <1>2 DEF Physical

LEMMA NextSlot ==
  ASSUME NEW n \in Nat
  PROVE  NextPage(n % SegPages) = (n + 1) % SegPages
  BY SegmentFits, ModNext DEF NextPage

------------------------------------------------------------------------------
(* The inductive invariant behind AskedSectorsInOrder.  r10..r12 follow the   *)
(* sectors delivered (Registers); a read that is under way is either the one  *)
(* the loop waits for, with the loop's own sector and page (OwnRead), or one  *)
(* that an earlier call gave up on, and then this call has not delivered      *)
(* anything yet that its store could hit (NoStray).                           *)

Got == Wanted - left

Done == pc = "ret" /\ ~booting /\ r7 = 0

Serving == InService /\ ~Done    \* a call that failed included

Reading == routine = "read" /\ pc \in {"poll", "ack", "ret"}

Delivered == \A i \in Nat : i < Got => mem[Slot(i)] = ChsOf(blk.asked + i)

RequestOK ==
  Serving \/ Done => blk.first = ChsOf(blk.asked) /\ Wanted \in 1 .. SegPages

Registers ==
  Serving => /\ left \in 1 .. Wanted
             /\ lba = blk.asked + Got
             /\ page = (blk.buffer + Got) % SegPages

NoStray == Serving /\ op = "read" => left = Wanted \/ Reading

OwnRead ==
  Serving /\ Reading =>
    /\ op \in {"none", "read"}
    /\ op = "read" => target = ChsOf(lba) /\ dma = Physical(page)
    /\ status = "normal" => mem[Physical(page)] = ChsOf(lba)

Arrived ==
  /\ Serving => Delivered
  /\ Done => Delivered /\ left = 0

OInv == RequestOK /\ Registers /\ NoStray /\ OwnRead /\ Arrived

LEMMA SlotType ==
  ASSUME TypeOK, NEW i \in Nat
  PROVE  Slot(i) \in 0 .. MemPages - 1
<1>1. blk.buffer + i \in Nat
  BY DEF TypeOK
<1>2. (blk.buffer + i) % SegPages \in 0 .. SegPages - 1
  BY <1>1, SegmentFits
<1> QED
  BY <1>2, PhysicalType DEF Slot

LEMMA WantedType ==
  ASSUME TypeOK
  PROVE  Wanted \in Nat \ {0}
<1>1. blk.count \in Words
  BY DEF TypeOK
<1> QED
  BY <1>1, SectorsOfType DEF Wanted

\* A service starts with nothing delivered.
LEMMA StartOrder ==
  ASSUME TypeOK, NEW b \in Nat, NEW a \in Chs, NEW buffer \in Buffers,
         NEW count \in Counts, Start(b, a, buffer, count), a = ChsOf(b)
  PROVE  OInv'
<1>1. /\ pc' = "next" /\ booting' = FALSE /\ lba' = b /\ page' = buffer
      /\ left' = SectorsOf(count)
      /\ blk' = [buffer |-> buffer, count |-> count, first |-> a, asked |-> b]
  BY DEF Start
<1>2. Wanted' = SectorsOf(count) /\ count \in Words
      /\ buffer \in 0 .. SegPages - 1
  BY <1>1, RequestsAre DEF Wanted
<1>3. SectorsOf(count) \in 1 .. SegPages
  BY <1>2, RequestsFitSegment, SectorsOfType, SegmentFits
<1>4. Got' = 0
  BY <1>1, <1>2, <1>3 DEF Got
<1>5. RequestOK'
  BY <1>1, <1>2, <1>3 DEF RequestOK
<1>6. Registers'
  <2>1. buffer % SegPages = buffer /\ buffer + 0 = buffer /\ b + 0 = b
    BY <1>2, SegmentFits
  <2>2. lba' = blk'.asked + Got' /\ page' = (blk'.buffer + Got') % SegPages
    BY <1>1, <1>4, <2>1
  <2>3. left' \in 1 .. Wanted'
    BY <1>1, <1>2, <1>3
  <2> QED
    BY <2>2, <2>3 DEF Registers
<1>7. Delivered'
  BY <1>4 DEF Delivered
<1>8. ~Reading' /\ ~Done' /\ left' = Wanted'
  BY <1>1, <1>2 DEF Reading, Done
<1> QED
  BY <1>5, <1>6, <1>7, <1>8 DEF OInv, NoStray, OwnRead, Arrived

\* Steps of the loop that leave the registers and the memory alone.
LEMMA SameOrder ==
  ASSUME OInv, UNCHANGED <<lba, page, left, blk, mem>>
  PROVE  /\ UNCHANGED <<Got, Wanted>>
         /\ Delivered => Delivered'
         /\ Serving => Delivered
<1>1. UNCHANGED <<Got, Wanted>>
  BY DEF Got, Wanted
<1>2. Delivered => Delivered'
  BY <1>1 DEF Delivered, Slot, Physical, ChsOf, CylOf
<1> QED
  BY <1>1, <1>2 DEF OInv, Arrived

LEMMA QuietStep ==
  ASSUME OInv, UNCHANGED <<lba, page, left, blk, mem>>, ~Done', ~Done,
         Serving' => Serving /\ (op' = "read" => op = "read" \/ Reading'),
         Serving' /\ op' = "read" /\ Reading => Reading',
         Serving' /\ Reading' => OwnRead'
  PROVE  OInv'
<1>1. /\ UNCHANGED <<Got, Wanted>>
      /\ Delivered => Delivered'
      /\ Serving => Delivered
  BY SameOrder
<1>2. RequestOK'
  BY <1>1 DEF OInv, RequestOK, ChsOf, CylOf
<1>3. Registers'
  BY <1>1 DEF OInv, Registers
<1>4. NoStray'
  BY <1>1 DEF OInv, NoStray
<1>5. OwnRead'
  BY DEF OwnRead
<1>6. Arrived'
  BY <1>1 DEF OInv, Arrived
<1> QED
  BY <1>2, <1>3, <1>4, <1>5, <1>6 DEF OInv

\* The board stores where the loop expects it, or before the loop has any
\* sector to lose.
LEMMA DeviceOrder ==
  ASSUME OInv, IInv, TypeOK, TypeOK', Device, UNCHANGED driver
  PROVE  OInv'
<1>1. /\ UNCHANGED <<pc, routine, booting, lba, page, left, r7, blk>>
      /\ UNCHANGED <<Serving, Reading, Done, Got, Wanted>>
  BY DEF driver, Serving, InService, Reading, Done, Got, Wanted
<1>2. RequestOK' /\ Registers'
  BY <1>1 DEF OInv, RequestOK, Registers, ChsOf, CylOf
<1>3. op' = "read" => op = "read"
  BY DEF Device, SpecifyEnds, SeekArrives, SeekGoesWrong, ReadTransfers,
         ReadGoesWrong, UnitChanges, End
<1>4. NoStray'
  BY <1>1, <1>3 DEF OInv, NoStray
<1>5. CASE op # "read"
  <2>1. /\ mem' = mem
        /\ op' = "read" => FALSE
        /\ op = "none" => op' = "none" /\ status' = status
    BY <1>5 DEF Device, SpecifyEnds, SeekArrives, SeekGoesWrong, ReadTransfers,
                ReadGoesWrong, UnitChanges, End
  <2>2. Delivered => Delivered'
    BY <1>1, <2>1 DEF Delivered, Slot, Physical, ChsOf, CylOf
  <2>3. Arrived'
    BY <1>1, <2>2 DEF OInv, Arrived
  <2>4. OwnRead'
    <3> SUFFICES ASSUME Serving', Reading'
                 PROVE  /\ op' \in {"none", "read"}
                        /\ op' # "read"
                        /\ status' = "normal" =>
                             mem'[Physical(page)'] = ChsOf(lba)'
      BY DEF OwnRead
    <3>1. op = "none"
      BY <1>1, <1>5 DEF OInv, OwnRead
    <3> QED
      BY <1>1, <2>1, <3>1 DEF OInv, OwnRead, Physical, ChsOf, CylOf
  <2> QED
    BY <1>2, <1>4, <2>3, <2>4 DEF OInv
<1>6. CASE op = "read"
  <2>1. ~Done
    BY <1>6 DEF IInv, QuietAfterSuccess, Done
  <2>2. /\ target' = target /\ dma' = dma
        /\ \/ op' = "none" /\ status' = "normal"
              /\ mem' = [mem EXCEPT ![dma] = target]
           \/ op' = "none" /\ status' \in {"abnormal", "invalid"}
              /\ mem' \in {mem, [mem EXCEPT ![dma] = Junk]}
           \/ UNCHANGED <<op, status, mem>>
    BY <1>6 DEF Device, SpecifyEnds, SeekArrives, SeekGoesWrong, ReadTransfers,
                ReadGoesWrong, UnitChanges, End
  <2>3. mem \in [0 .. MemPages - 1 -> Chs \cup {Junk}]
        /\ dma \in 0 .. MemPages - 1
    BY DEF TypeOK, DeviceTypeOK
  <2>4. \A p \in 0 .. MemPages - 1 : p # dma => mem'[p] = mem[p]
    BY <2>2, <2>3
  <2>5. OwnRead'
    <3> SUFFICES ASSUME Serving, Reading
                 PROVE  /\ op' \in {"none", "read"}
                        /\ op' = "read" =>
                             target' = ChsOf(lba) /\ dma' = Physical(page)
                        /\ status' = "normal" =>
                             mem'[Physical(page)] = ChsOf(lba)
      BY <1>1 DEF OwnRead, Physical, ChsOf, CylOf
    <3>1. target = ChsOf(lba) /\ dma = Physical(page) /\ status = "busy"
      BY <1>6 DEF OInv, OwnRead, IInv, StatusTellsCommand
    <3> QED
      BY <1>6, <2>2, <2>3, <3>1
  <2>6. Serving => Delivered'
    <3> SUFFICES ASSUME Serving, NEW i \in Nat, i < Got
                 PROVE  mem'[Slot(i)] = ChsOf(blk.asked + i)
      BY <1>1 DEF Delivered, Slot, Physical, ChsOf, CylOf
    <3>1. mem[Slot(i)] = ChsOf(blk.asked + i)
      BY DEF OInv, Arrived, Delivered
    <3>2. Wanted \in 1 .. SegPages /\ left \in 1 .. Wanted
      BY DEF OInv, RequestOK, Registers
    <3>3. Got \in Nat /\ Got < SegPages /\ left # Wanted
      BY <3>2, SegmentFits DEF Got
    <3>4. dma = Physical(page) /\ page = (blk.buffer + Got) % SegPages
      BY <1>6, <3>3 DEF OInv, NoStray, OwnRead, Registers
    <3>5. blk.buffer \in Nat
      BY DEF TypeOK
    <3>6. Slot(i) # dma
      BY <3>3, <3>4, <3>5, SlotsDiffer DEF Slot
    <3> QED
      BY <2>4, <3>1, <3>6, SlotType
  <2>7. Arrived'
    BY <1>1, <2>1, <2>6 DEF Arrived
  <2> QED
    BY <1>2, <1>4, <2>5, <2>7 DEF OInv
<1> QED
  BY <1>5, <1>6

\* A sector that was read joins those delivered.
LEMMA ReadDoneOrder ==
  ASSUME OInv, IInv, TypeOK, ReadDone
  PROVE  OInv'
<1>1. /\ pc = "ack" /\ routine = "read" /\ status = "normal"
      /\ page' = NextPage(page) /\ lba' = lba + 1 /\ left' = left - 1
      /\ UNCHANGED <<mem, op, blk, booting>>
      /\ \/ left > 1 /\ pc' = "next"
         \/ left = 1 /\ pc' = "ret" /\ r7' = 0
  BY DEF ReadDone, ClearEnd
<1>2. CASE booting
  BY <1>1, <1>2 DEF OInv, RequestOK, Registers, NoStray, OwnRead, Arrived,
                    Serving, InService, Done
<1>3. CASE ~booting
  <2>1. Serving /\ Reading /\ op # "read"
    BY <1>1, <1>3 DEF Serving, InService, Done, Reading, IInv, StatusTellsCommand
  <2>2. /\ left \in 1 .. Wanted /\ Wanted \in 1 .. SegPages
        /\ blk.first = ChsOf(blk.asked)
        /\ lba = blk.asked + Got /\ page = (blk.buffer + Got) % SegPages
        /\ mem[Physical(page)] = ChsOf(lba)
    BY <1>1, <2>1 DEF OInv, RequestOK, Registers, OwnRead
  <2>3. Wanted' = Wanted /\ Got \in Nat /\ Got' = Got + 1 /\ Wanted \in Nat
    <3>1. Wanted' = Wanted
      BY <1>1 DEF Wanted
    <3> QED
      BY <1>1, <2>2, <3>1, SegmentFits DEF Got
  <2>4. blk.asked \in Nat /\ blk.buffer \in Nat
    BY DEF TypeOK
  <2>5. Delivered'
    <3> SUFFICES ASSUME NEW i \in Nat, i < Got + 1
                 PROVE  mem[Slot(i)] = ChsOf(blk.asked + i)
      BY <1>1, <2>3 DEF Delivered, Slot, Physical, ChsOf, CylOf
    <3>1. CASE i < Got
      BY <2>1, <3>1 DEF OInv, Arrived, Delivered
    <3>2. CASE i = Got
      BY <2>2, <3>2 DEF Slot
    <3> QED
      BY <2>3, <3>1, <3>2
  <2>6. RequestOK'
    BY <1>1, <2>2, <2>3 DEF RequestOK, ChsOf, CylOf
  <2>7. Registers'
    <3> SUFFICES ASSUME Serving'
                 PROVE  /\ left' \in 1 .. Wanted
                        /\ lba' = blk.asked + Got'
                        /\ page' = (blk.buffer + Got') % SegPages
      BY <1>1, <2>3 DEF Registers
    <3>1. left > 1
      BY <1>1 DEF Serving, InService, Done
    <3>2. left' \in 1 .. Wanted
      BY <1>1, <2>2, <2>3, <3>1
    <3>3. blk.buffer + Got \in Nat /\ (blk.buffer + Got) + 1 = blk.buffer + Got'
          /\ (blk.asked + Got) + 1 = blk.asked + Got'
      BY <2>3, <2>4
    <3>4. page' = (blk.buffer + Got') % SegPages
      BY <1>1, <2>2, <3>3, NextSlot
    <3> QED
      BY <1>1, <2>2, <3>2, <3>3, <3>4
  <2>8. Done' => left' = 0
    BY <1>1, <2>2 DEF Done
  <2>9. Serving' => ~Reading' /\ op' # "read"
    BY <1>1, <2>1 DEF Serving, InService, Done, Reading
  <2>10. NoStray' /\ OwnRead'
    BY <2>9 DEF NoStray, OwnRead
  <2> QED
    BY <2>5, <2>6, <2>7, <2>8, <2>10 DEF OInv, Arrived
<1> QED
  BY <1>2, <1>3

\* The invariant is kept by every step.
LEMMA OrderKept ==
  ASSUME OInv, IInv, TypeOK, TypeOK', [Next]_vars
  PROVE  OInv'
<1>1. CASE UNCHANGED vars
  BY <1>1 DEF vars, go363, driver, OInv, RequestOK, Registers, NoStray, OwnRead,
              Arrived, Serving, InService, Reading, Done, Got, Wanted, Delivered, Slot,
              Physical, ChsOf, CylOf
<1>2. CASE Boot \/ Return
  <2>1. ~Serving' /\ ~Done'
    BY <1>2 DEF Boot, Return, Serving, InService, Done
  <2> QED
    BY <2>1 DEF OInv, RequestOK, Registers, NoStray, OwnRead, Arrived
<1>3. CASE RdLba
  <2>1. PICK b \in Blocks, buffer \in Buffers, count \in Counts :
          Start(b, ChsOf(b), buffer, count)
    BY <1>3 DEF RdLba
  <2>2. b \in Nat /\ ChsOf(b) \in Chs
    BY RequestsAre, ChsOfType
  <2> QED
    BY <2>1, <2>2, StartOrder
<1>4. CASE RdChs
  <2>1. PICK a \in Asked, buffer \in Buffers, count \in Counts :
          Start(BlockOf(a), a, buffer, count)
    BY <1>4 DEF RdChs
  <2>2. a \in Chs /\ BlockOf(a) \in Nat /\ a = ChsOf(BlockOf(a))
    BY RequestsAre, BlockOfType, AddressOfBlock
  <2> QED
    BY <2>1, <2>2, StartOrder
<1>5. CASE SameCylinder \/ NewCylinder
  <2>1. /\ pc = "next" /\ pc' = "issue"
        /\ UNCHANGED <<booting, lba, page, left, blk, mem, op>>
    BY <1>5 DEF SameCylinder, NewCylinder, go363
  <2> QED
    BY <2>1, QuietStep DEF Serving, InService, Reading, Done
<1>6. CASE Seek
  <2>1. /\ pc = "issue" /\ pc' = "poll" /\ routine' = "seek"
        /\ UNCHANGED <<booting, lba, page, left, blk, mem>>
        /\ op' = "read" => op = "read"
    BY <1>6 DEF Seek, Issue
  <2> QED
    BY <2>1, QuietStep DEF Serving, InService, Reading, Done
<1>7. CASE Read
  <2>1. op = "none"
    BY <1>7 DEF Read, IInv, QuietAtRead, Quiet
  <2>2. /\ pc = "issue" /\ pc' = "poll" /\ routine' = "read"
        /\ UNCHANGED <<booting, lba, page, left, blk, mem>>
        /\ op' = "read" /\ status' = "busy"
        /\ target' = ChsOf(lba) /\ dma' = Physical(page)
    BY <1>7, <2>1 DEF Read, Issue
  <2>3. OwnRead'
    BY <2>2 DEF OwnRead, ChsOf, CylOf, Physical
  <2>4. ~Done' /\ ~Done /\ Reading' /\ (Serving' => Serving)
    BY <2>2 DEF Serving, InService, Reading, Done
  <2>5. UNCHANGED <<lba, page, left, blk, mem>>
    BY <2>2
  <2> QED
    BY <2>3, <2>4, <2>5, QuietStep
<1>8. CASE PollAgain \/ PollRequest
  <2>1. /\ pc = "poll" /\ pc' \in {"poll", "ack"}
        /\ UNCHANGED <<routine, booting, lba, page, left, blk, mem, op, status,
                       target, dma>>
    BY <1>8 DEF PollAgain, PollRequest, go363
  <2>2. Serving' /\ Reading' => OwnRead'
    BY <2>1 DEF OInv, OwnRead, Serving, InService, Done, Reading, ChsOf, CylOf,
                Physical
  <2> QED
    BY <2>1, <2>2, QuietStep DEF Serving, InService, Reading, Done
<1>9. CASE SeekRefused \/ SeekFailed \/ PollTimeout \/ ReadFailed
  <2>1. /\ pc \in {"issue", "poll", "ack"} /\ pc' = "ret" /\ r7' # 0
        /\ UNCHANGED <<routine, booting, lba, page, left, blk, mem, op, target,
                       dma>>
        /\ pc = "issue" => routine = "seek"
        /\ status' = "normal" => status = "normal"
    BY <1>9 DEF SeekRefused, SeekFailed, PollTimeout, ReadFailed, ClearEnd, go363
  <2>2. Serving' /\ Reading' => OwnRead'
    BY <2>1 DEF OInv, OwnRead, Serving, InService, Done, Reading, ChsOf, CylOf,
                Physical
  <2> QED
    BY <2>1, <2>2, QuietStep DEF Serving, InService, Reading, Done
<1>10. CASE SpecifyDone \/ SeekDone
  <2>1. CASE Serving'
    <3>1. /\ pc = "ack" /\ pc' = "issue" /\ routine # "read"
          /\ UNCHANGED <<booting, lba, page, left, blk, mem, op>>
      BY <1>10, <2>1 DEF SpecifyDone, SeekDone, ClearEnd, Serving, InService, Done
    <3> QED
      BY <3>1, QuietStep DEF Serving, InService, Reading, Done
  <2>2. CASE ~Serving'
    <3>1. ~Done'
      BY <1>10, <2>2 DEF SpecifyDone, SeekDone, Done
    <3> QED
      BY <2>2, <3>1 DEF OInv, RequestOK, Registers, NoStray, OwnRead, Arrived
  <2> QED
    BY <2>1, <2>2
<1>11. CASE ReadDone
  BY <1>11, ReadDoneOrder
<1>12. CASE Device /\ UNCHANGED driver
  BY <1>12, DeviceOrder
<1> QED
  BY <1>1, <1>2, <1>3, <1>4, <1>5, <1>6, <1>7, <1>8, <1>9, <1>10, <1>11, <1>12
     DEF Next, Step

\* A service that returns good has put the asked sectors into the caller's
\* pages in the order of the disk, for any geometry and request, whatever
\* earlier calls left running and however the board answers.
THEOREM SectorsArrive == Spec => []AskedSectorsInOrder
<1>1. Init => OInv
  BY DEF Init, OInv, RequestOK, Registers, NoStray, OwnRead, Arrived, Serving,
         InService, Done
<1>2. OInv /\ TypeOK => AskedSectorsInOrder
  <2> SUFFICES ASSUME OInv, TypeOK, Done
               PROVE  /\ mem[Slot(0)] = blk.first
                      /\ \A i \in 1 .. Wanted - 1 :
                           mem[Slot(i)] = Successor(mem[Slot(i - 1)])
    BY DEF AskedSectorsInOrder, Done
  <2>1. /\ blk.first = ChsOf(blk.asked) /\ Wanted \in Nat \ {0}
        /\ Got = Wanted /\ blk.asked \in Nat
    BY WantedType DEF OInv, RequestOK, Arrived, Got, TypeOK
  <2>2. \A i \in Nat : i < Wanted => mem[Slot(i)] = ChsOf(blk.asked + i)
    BY <2>1 DEF OInv, Arrived, Delivered
  <2>3. mem[Slot(0)] = blk.first
    <3>1. blk.asked + 0 = blk.asked /\ 0 < Wanted
      BY <2>1
    <3> QED
      BY <2>1, <2>2, <3>1
  <2>4. ASSUME NEW i \in 1 .. Wanted - 1
        PROVE  mem[Slot(i)] = Successor(mem[Slot(i - 1)])
    <3>1. /\ i \in Nat /\ i < Wanted
          /\ i - 1 \in Nat /\ i - 1 < Wanted
          /\ blk.asked + (i - 1) \in Nat
          /\ (blk.asked + (i - 1)) + 1 = blk.asked + i
      BY <2>1
    <3> QED
      BY <2>2, <3>1, NextBlock
  <2> QED
    BY <2>3, <2>4
<1>3. OInv /\ IInv /\ TypeOK /\ TypeOK' /\ [Next]_vars => OInv'
  BY OrderKept
<1> QED
  BY <1>1, <1>2, <1>3, TypeCorrect, Invariant, PTL DEF Spec

------------------------------------------------------------------------------
(* The driver with its board implements BlockRead.                            *)

ServiceGot == IF InService THEN Wanted - left ELSE 0

ServiceAnswer == IF InService /\ pc = "ret" THEN r7 ELSE NoAnswer

\* The initialisation never reads a sector.
BootReadsNothing == booting => routine # "read" /\ pc # "next"

LEMMA BootReadsNothingKept ==
  ASSUME BootReadsNothing, [Next]_vars
  PROVE  BootReadsNothing'
<1> USE DEF BootReadsNothing
<1>1. CASE UNCHANGED vars
  BY <1>1 DEF vars, driver
<1>2. CASE RdLba \/ RdChs
  BY <1>2 DEF RdLba, RdChs, Start
<1>3. CASE Boot
  BY <1>3 DEF Boot
<1>4. CASE Step
  BY <1>4 DEF Step, SameCylinder, NewCylinder, Seek, SeekRefused, Read,
              PollAgain, PollTimeout, PollRequest, SpecifyDone, SeekDone,
              SeekFailed, ReadDone, ReadFailed, Return
<1>5. CASE Device /\ UNCHANGED driver
  BY <1>5 DEF driver
<1> QED
  BY <1>1, <1>2, <1>3, <1>4, <1>5 DEF Next

\* The request is a sequence of Wanted pages, with Slot and ChsOf in it.
LEMMA RequestIs ==
  ASSUME TypeOK
  PROVE  /\ ~InService => Request = <<>>
         /\ InService =>
              /\ Len(Request) = Wanted /\ Request # <<>>
              /\ \A i \in Nat : i < Wanted =>
                   /\ Request[i + 1].page = Slot(i)
                   /\ Request[i + 1].data = ChsOf(blk.asked + i)
<1>1. Wanted \in Nat \ {0} /\ blk.asked \in Nat
  BY WantedType DEF TypeOK
<1>2. ~InService => Request = <<>>
  BY DEF Request
<1>3. ASSUME InService
      PROVE  /\ Len(Request) = Wanted /\ Request # <<>>
             /\ \A i \in Nat : i < Wanted =>
                  /\ Request[i + 1].page = Slot(i)
                  /\ Request[i + 1].data = ChsOf(blk.asked + i)
  <2>1. Request = [i \in 1 .. Wanted |->
                     [page |-> Slot(i - 1), data |-> ChsOf(blk.asked + i - 1)]]
    BY <1>3 DEF Request
  <2>2. Len(Request) = Wanted
    BY <1>1, <2>1
  <2>3. Request # <<>>
    BY <1>1, <2>2
  <2>4. ASSUME NEW i \in Nat, i < Wanted
        PROVE  /\ Request[i + 1].page = Slot(i)
               /\ Request[i + 1].data = ChsOf(blk.asked + i)
    <3>1. i + 1 \in 1 .. Wanted /\ (i + 1) - 1 = i
          /\ (blk.asked + (i + 1)) - 1 = blk.asked + i
      BY <1>1, <2>4
    <3> QED
      BY <2>1, <3>1
  <2> QED
    BY <2>2, <2>3, <2>4
<1> QED
  BY <1>2, <1>3

\* A step that leaves these alone shows the caller at most that a late sector
\* has been lost.
LEMMA Hidden ==
  ASSUME UNCHANGED <<mem, InService, Request, ServiceGot, ServiceAnswer>>,
         Stray' => Stray
  PROVE  [Service!Next]_(Service!vars)
<1>1. CASE Stray' = Stray
  BY <1>1 DEF Service!vars, ServiceGot, ServiceAnswer
<1>2. CASE Stray /\ ~Stray'
  <2>1. Stray = TRUE /\ Stray' = FALSE
    BY <1>2 DEF Stray
  <2> QED
    BY <2>1 DEF Service!Next, Service!Late, ServiceGot, ServiceAnswer
<1> QED
  BY <1>1, <1>2 DEF Stray

LEMMA SameRequest ==
  ASSUME UNCHANGED <<blk, left, InService>>
  PROVE  UNCHANGED <<Request, ServiceGot>>
<1>1. UNCHANGED Wanted
  BY DEF Wanted
<1>2. UNCHANGED ServiceGot
  BY <1>1 DEF ServiceGot
<1>3. UNCHANGED Request
  BY <1>1 DEF Request, Slot, Physical, ChsOf, CylOf
<1> QED
  BY <1>2, <1>3

LEMMA StartRequests ==
  ASSUME TypeOK, TypeOK', NEW b \in Nat, NEW a \in Chs, NEW buffer \in Buffers,
         NEW count \in Counts, Start(b, a, buffer, count)
  PROVE  Service!Request
<1>1. /\ pc = "idle" /\ pc' = "next" /\ booting' = FALSE
      /\ left' = SectorsOf(count) /\ UNCHANGED <<mem, op, routine>>
      /\ blk' = [buffer |-> buffer, count |-> count, first |-> a, asked |-> b]
  BY DEF Start, go363
<1>2. ~InService /\ InService'
  BY <1>1 DEF InService
<1>3. Wanted' = left' /\ Wanted' \in Nat \ {0}
  <2>1. Wanted' = left' /\ left' = SectorsOf(count)
    BY <1>1 DEF Wanted
  <2> QED
    BY <2>1, RequestsAre, SectorsOfType
<1>4. Request = <<>> /\ Request' # <<>>
  <2>1. Request = <<>>
    BY <1>2, RequestIs
  <2>2. Request' = [i \in 1 .. Wanted' |->
                      [page |-> Slot(i - 1), data |-> ChsOf(blk.asked + i - 1)]']
    BY <1>2 DEF Request
  <2>3. Len(Request') = Wanted'
    BY <1>3, <2>2
  <2>4. Len(<<>>) = 0
    OBVIOUS
  <2> QED
    BY <1>3, <2>1, <2>3, <2>4
<1>5. ServiceGot' = 0 /\ ServiceAnswer = NoAnswer /\ ServiceAnswer' = NoAnswer
  BY <1>1, <1>2, <1>3 DEF ServiceGot, ServiceAnswer, NoAnswer
<1>6. Stray' = Stray
  BY <1>1 DEF Stray
<1> QED
  BY <1>1, <1>4, <1>5, <1>6 DEF Service!Request, ServiceGot, ServiceAnswer

LEMMA FailureIsTold ==
  ASSUME TypeOK, SeekRefused \/ SeekFailed \/ PollTimeout \/ ReadFailed
  PROVE  [Service!Next]_(Service!vars)
<1>1. /\ pc \in {"issue", "poll", "ack"} /\ pc' = "ret"
      /\ r7' \in {2, 4, 5, 6}
      /\ pc = "issue" => routine = "seek"
      /\ UNCHANGED <<routine, booting, left, blk, mem, op>>
  BY DEF SeekRefused, SeekFailed, PollTimeout, ReadFailed, ClearEnd, go363
<1>2. UNCHANGED InService
  BY <1>1 DEF InService
<1>3. UNCHANGED <<Request, ServiceGot>> /\ Stray' = Stray
  BY <1>1, <1>2, SameRequest DEF Stray
<1>4. CASE ~InService
  <2>1. UNCHANGED ServiceAnswer
    BY <1>2, <1>4 DEF ServiceAnswer, NoAnswer
  <2> QED
    BY <1>1, <1>2, <1>3, <2>1, Hidden
<1>5. CASE InService
  <2>1. ServiceAnswer = NoAnswer /\ ServiceAnswer' \in {2, 4, 5, 6}
    BY <1>1, <1>2, <1>5 DEF ServiceAnswer, NoAnswer
  <2>2. Request # <<>>
    BY <1>5, RequestIs
  <2>3. Service!Fail
    BY <1>1, <1>3, <2>1, <2>2 DEF Service!Fail, ServiceGot, ServiceAnswer
  <2> QED
    BY <2>3 DEF Service!Next
<1> QED
  BY <1>4, <1>5

LEMMA ReadDelivers ==
  ASSUME TypeOK, OInv, IInv, BootReadsNothing, ReadDone
  PROVE  Service!Deliver
<1>1. /\ pc = "ack" /\ routine = "read" /\ status = "normal" /\ ~booting
      /\ left' = left - 1 /\ UNCHANGED <<mem, op, blk, booting>>
      /\ \/ left > 1 /\ pc' = "next"
         \/ left = 1 /\ pc' = "ret" /\ r7' = 0
  BY DEF ReadDone, ClearEnd, BootReadsNothing
<1>2. InService /\ InService' /\ Serving /\ Reading /\ op # "read"
  BY <1>1 DEF InService, Serving, Done, Reading, IInv, StatusTellsCommand
<1>3. /\ left \in 1 .. Wanted /\ Wanted \in Nat
      /\ lba = blk.asked + Got /\ page = (blk.buffer + Got) % SegPages
      /\ mem[Physical(page)] = ChsOf(lba)
  BY <1>1, <1>2, SegmentFits DEF OInv, RequestOK, Registers, OwnRead
<1>4. UNCHANGED Wanted /\ Got \in Nat /\ Got < Wanted
  <2>1. UNCHANGED Wanted
    BY <1>1 DEF Wanted
  <2> QED
    BY <1>3, <2>1 DEF Got
<1>5. UNCHANGED Request
  BY <1>1, <1>2, <1>4 DEF Request, Slot, Physical, ChsOf, CylOf
<1>6. /\ ServiceGot = Got /\ ServiceGot' = Got + 1
      /\ ServiceGot' = Wanted <=> left = 1
  BY <1>1, <1>2, <1>3, <1>4 DEF ServiceGot, Got
<1>7. /\ Len(Request) = Wanted
      /\ Request[Got + 1].page = Physical(page)
      /\ Request[Got + 1].data = ChsOf(lba)
  BY <1>2, <1>3, <1>4, RequestIs DEF Slot
<1>8. ServiceAnswer = NoAnswer
      /\ ServiceAnswer' = IF ServiceGot' = Wanted THEN 0 ELSE NoAnswer
  BY <1>1, <1>2, <1>3, <1>6 DEF ServiceAnswer, NoAnswer
<1>9. Stray = FALSE /\ Stray' = FALSE
  BY <1>1, <1>2 DEF Stray
<1>10. Len(Request') = Wanted
  BY <1>5, <1>7
<1> HIDE DEF ServiceGot, ServiceAnswer
<1>11. /\ ServiceGot < Len(Request) /\ ~Stray /\ ServiceAnswer = NoAnswer
       /\ mem[Request[ServiceGot + 1].page] = Request[ServiceGot + 1].data
       /\ ServiceGot' = ServiceGot + 1
       /\ ServiceAnswer' = IF ServiceGot' = Len(Request) THEN 0 ELSE NoAnswer
       /\ UNCHANGED <<mem, Request, Stray>>
  BY <1>1, <1>3, <1>4, <1>5, <1>6, <1>7, <1>8, <1>9
<1> QED
  BY <1>11 DEF Service!Deliver, ServiceGot, ServiceAnswer

LEMMA ReturnFinishes ==
  ASSUME TypeOK, IInv, BootReadsNothing, Return
  PROVE  [Service!Next]_(Service!vars)
<1>1. /\ pc = "ret" /\ pc' \in {"off", "idle"}
      /\ UNCHANGED <<routine, booting, left, blk, mem, op, r7>>
  BY DEF Return, go363
<1>2. ~InService' /\ (Stray' <=> op = "read")
  BY <1>1 DEF InService, Stray
<1>3. ServiceAnswer' = NoAnswer /\ ServiceGot' = 0 /\ Request' = <<>>
  BY <1>2 DEF ServiceAnswer, ServiceGot, Request
<1>4. CASE booting
  <2>1. ~InService /\ Stray' = Stray
    BY <1>1, <1>4 DEF InService, Stray, BootReadsNothing
  <2>2. ServiceAnswer = NoAnswer /\ ServiceGot = 0 /\ Request = <<>>
    BY <2>1 DEF ServiceAnswer, ServiceGot, Request
  <2>3. UNCHANGED InService
    BY <1>2, <2>1 DEF InService
  <2>4. UNCHANGED <<mem, InService, Request, ServiceGot, ServiceAnswer>>
    BY <1>1, <1>3, <2>2, <2>3
  <2> QED
    BY <2>1, <2>4, Hidden
<1>5. CASE ~booting
  <2>1. ServiceAnswer = r7 /\ r7 \in {0, 2, 4, 5, 6}
    BY <1>1, <1>5 DEF ServiceAnswer, InService, TypeOK
  <2>2. ServiceAnswer # NoAnswer
    BY <2>1 DEF NoAnswer
  <2>3. ServiceAnswer = 0 => Stray' = FALSE
    BY <1>1, <1>2, <2>1 DEF IInv, QuietAfterSuccess, Stray
  <2>4. Stray' \in BOOLEAN
    BY DEF Stray
  <2>5. Service!Finish
    BY <1>1, <1>3, <2>2, <2>3, <2>4
       DEF Service!Finish, ServiceGot, ServiceAnswer
  <2> QED
    BY <2>5 DEF Service!Next
<1> QED
  BY <1>4, <1>5

LEMMA BoardStores ==
  ASSUME TypeOK, TypeOK', OInv, IInv, BootReadsNothing, Device, UNCHANGED driver
  PROVE  [Service!Next]_(Service!vars)
<1>1. UNCHANGED <<pc, routine, booting, left, r7, blk>>
  BY DEF driver
<1>2. UNCHANGED <<InService, Request, ServiceGot, ServiceAnswer>>
  <2>1. UNCHANGED InService
    BY <1>1 DEF InService
  <2>2. UNCHANGED ServiceAnswer
    BY <1>1, <2>1 DEF ServiceAnswer, NoAnswer
  <2> QED
    BY <1>1, <2>1, <2>2, SameRequest
<1>3. op' = "read" => op = "read"
  BY DEF Device, SpecifyEnds, SeekArrives, SeekGoesWrong, ReadTransfers,
         ReadGoesWrong, UnitChanges, End
<1>4. Stray' => Stray
  BY <1>1, <1>3 DEF Stray
<1>5. CASE mem' = mem
  BY <1>2, <1>4, <1>5, Hidden
<1>6. CASE mem' # mem
  <2>1. /\ op = "read" /\ op' = "none"
        /\ mem' \in {[mem EXCEPT ![dma] = target], [mem EXCEPT ![dma] = Junk]}
    BY <1>6 DEF Device, SpecifyEnds, SeekArrives, SeekGoesWrong, ReadTransfers,
                ReadGoesWrong, UnitChanges, End
  <2>2. /\ mem \in [0 .. MemPages - 1 -> Chs \cup {Junk}]
        /\ dma \in 0 .. MemPages - 1 /\ target \in Chs
    BY DEF TypeOK, DeviceTypeOK
  <2>3. Service!Written(dma)
    BY <2>1, <2>2 DEF Service!Written
  <2>4. CASE Stray
    <3>1. Stray' = FALSE
      BY <2>1 DEF Stray
    <3>2. dma \in DOMAIN mem
      BY <2>2
    <3>3. Service!Late
      BY <1>2, <2>3, <2>4, <3>1, <3>2 DEF Service!Late, ServiceGot, ServiceAnswer
    <3> QED
      BY <3>3 DEF Service!Next
  <2>5. CASE ~Stray
    <3>1. Reading /\ ~booting /\ InService /\ Serving
      BY <2>1, <2>5 DEF Stray, Reading, BootReadsNothing, InService, Serving,
                        Done, IInv, QuietAfterSuccess
    <3>2. /\ left \in 1 .. Wanted /\ Wanted \in Nat
          /\ page = (blk.buffer + Got) % SegPages /\ dma = Physical(page)
      BY <2>1, <3>1, SegmentFits DEF OInv, RequestOK, Registers, OwnRead
    <3>3. ServiceGot = Got /\ Got \in Nat /\ Got < Wanted
      BY <3>1, <3>2 DEF ServiceGot, Got
    <3>4. Len(Request) = Wanted /\ Request[ServiceGot + 1].page = dma
      BY <3>1, <3>2, <3>3, RequestIs DEF Slot
    <3>5. ServiceGot < Len(Request)
      BY <3>3, <3>4
    <3>6. Stray' = Stray
      BY <1>4, <2>5 DEF Stray
    <3>7. Service!Store
      BY <1>2, <2>3, <2>5, <3>4, <3>5, <3>6
         DEF Service!Store, ServiceGot, ServiceAnswer
    <3> QED
      BY <3>7 DEF Service!Next
  <2> QED
    BY <2>4, <2>5
<1> QED
  BY <1>5, <1>6

LEMMA StepImplements ==
  ASSUME TypeOK, TypeOK', OInv, IInv, BootReadsNothing, [Next]_vars
  PROVE  [Service!Next]_(Service!vars)
<1>1. CASE UNCHANGED vars
  <2>1. UNCHANGED <<pc, routine, booting, left, r7, blk, mem, op>>
    BY <1>1 DEF vars, driver, go363
  <2>2. UNCHANGED InService
    BY <2>1 DEF InService
  <2>3. UNCHANGED <<Request, ServiceGot, ServiceAnswer>> /\ Stray' = Stray
    BY <2>1, <2>2, SameRequest DEF ServiceAnswer, NoAnswer, Stray
  <2> QED
    BY <2>1, <2>2, <2>3, Hidden
<1>2. CASE Boot
  <2>1. pc \in {"off", "idle"} /\ booting' /\ UNCHANGED mem /\ op' = "specify"
    BY <1>2 DEF Boot, ResetAndIssue
  <2>2. ~InService /\ ~InService' /\ ~Stray'
    BY <2>1 DEF InService, Stray
  <2>3. UNCHANGED InService
    BY <2>2 DEF InService
  <2>4. UNCHANGED <<InService, Request, ServiceGot, ServiceAnswer>>
    BY <2>2, <2>3 DEF Request, ServiceGot, ServiceAnswer, NoAnswer
  <2> QED
    BY <2>1, <2>2, <2>4, Hidden
<1>3. CASE RdLba
  <2>1. PICK b \in Blocks, buffer \in Buffers, count \in Counts :
          Start(b, ChsOf(b), buffer, count)
    BY <1>3 DEF RdLba
  <2>2. b \in Nat /\ ChsOf(b) \in Chs
    BY RequestsAre, ChsOfType
  <2>3. Service!Request
    BY <2>1, <2>2, StartRequests
  <2> QED
    BY <2>3 DEF Service!Next
<1>4. CASE RdChs
  <2>1. PICK a \in Asked, buffer \in Buffers, count \in Counts :
          Start(BlockOf(a), a, buffer, count)
    BY <1>4 DEF RdChs
  <2>2. a \in Chs /\ BlockOf(a) \in Nat
    BY RequestsAre, BlockOfType
  <2>3. Service!Request
    BY <2>1, <2>2, StartRequests
  <2> QED
    BY <2>3 DEF Service!Next
<1>5. CASE SameCylinder \/ NewCylinder \/ Seek \/ Read \/ PollAgain
           \/ PollRequest \/ SpecifyDone \/ SeekDone
  <2>1. UNCHANGED <<booting, left, blk, mem>>
    BY <1>5 DEF SameCylinder, NewCylinder, Seek, Read, PollAgain, PollRequest,
                SpecifyDone, SeekDone, Issue, ClearEnd, go363
  <2>2. /\ pc \in {"next", "issue", "poll", "ack"}
        /\ \/ pc' \in {"next", "issue", "poll", "ack"}
           \/ booting /\ pc' = "ret"
    BY <1>5 DEF SameCylinder, NewCylinder, Seek, Read, PollAgain, PollRequest,
                SpecifyDone, SeekDone
  <2>3. UNCHANGED InService
    BY <2>1, <2>2 DEF InService
  <2>4. UNCHANGED <<Request, ServiceGot, ServiceAnswer>>
    BY <2>1, <2>2, <2>3, SameRequest DEF ServiceAnswer, InService, NoAnswer
  <2>5. Stray' => Stray
    <3>1. CASE SameCylinder \/ NewCylinder \/ PollAgain \/ PollRequest
      BY <3>1 DEF SameCylinder, NewCylinder, PollAgain, PollRequest, go363, Stray
    <3>2. CASE Seek
      BY <3>2 DEF Seek, Issue, Stray
    <3>3. CASE Read
      BY <3>3 DEF Read, Stray
    <3>4. CASE SpecifyDone \/ SeekDone
      BY <3>4 DEF SpecifyDone, SeekDone, ClearEnd, Stray
    <3> QED
      BY <1>5, <3>1, <3>2, <3>3, <3>4
  <2> QED
    BY <2>1, <2>3, <2>4, <2>5, Hidden
<1>6. CASE SeekRefused \/ SeekFailed \/ PollTimeout \/ ReadFailed
  BY <1>6, FailureIsTold
<1>7. CASE ReadDone
  <2>1. Service!Deliver
    BY <1>7, ReadDelivers
  <2> QED
    BY <2>1 DEF Service!Next
<1>8. CASE Return
  BY <1>8, ReturnFinishes
<1>9. CASE Device /\ UNCHANGED driver
  BY <1>9, BoardStores
<1> QED
  BY <1>1, <1>2, <1>3, <1>4, <1>5, <1>6, <1>7, <1>8, <1>9 DEF Next, Step

\* The driver and the board together are a read service as BlockRead promises
\* it, for any geometry, segment, poll limit and set of requests.
THEOREM ImplementsBlockRead == Spec => ServiceSpec
<1>1. Init => Service!Init /\ OInv /\ BootReadsNothing
  <2>1. Init => ~InService /\ Stray = FALSE
    BY DEF Init, DeviceInit, InService, Stray
  <2>2. Init => Service!Init
    BY <2>1 DEF Service!Init, Request
  <2> QED
    BY <2>2 DEF Init, OInv, RequestOK, Registers, NoStray, OwnRead, Arrived,
                Serving, InService, Done, BootReadsNothing
<1>2. OInv /\ IInv /\ TypeOK /\ TypeOK' /\ [Next]_vars => OInv'
  BY OrderKept
<1>3. BootReadsNothing /\ [Next]_vars => BootReadsNothing'
  BY BootReadsNothingKept
<1>4. TypeOK /\ TypeOK' /\ OInv /\ IInv /\ BootReadsNothing /\ [Next]_vars
        => [Service!Next]_(Service!vars)
  BY StepImplements
<1> QED
  BY <1>1, <1>2, <1>3, <1>4, TypeCorrect, Invariant, PTL
     DEF Spec, ServiceSpec, Service!Spec
==============================================================================
