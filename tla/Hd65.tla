--------------------------------- MODULE Hd65 --------------------------------
(***************************************************************************)
(* The GO363 driver that tools/mkrom_hd65.py adds to the REL 6.0 boot ROM   *)
(* (NEWCODE): hd65_init for the IPL, the read services hd65_rdlba and       *)
(* hd65_rdchs, and the routines below them.  One action is one run of the   *)
(* code between two points where the board can get a word in: issuing a     *)
(* command, one poll of the board status, reading the controller status     *)
(* with everything up to the next command.  The CPU polls with the board's  *)
(* interrupt off, so only the board's own steps interleave.                 *)
(***************************************************************************)
EXTENDS Go363

CONSTANTS
  SegPages,    \* pages of a segment (256): buffer offsets wrap there
  Base,        \* physical page of the buffer's segment
  PollLimit,   \* polls before hd65_wait gives up (0x40 * 0x10000)
  Counts,      \* the byte counts callers ask for
  Buffers,     \* the buffer pages they name
  Blocks,      \* the block numbers they name
  Asked        \* the cylinder/head/sector addresses they name

Words == {n \in Nat : n < 65536}   \* the values of a 16-bit register

ASSUME SegmentFits == /\ SegPages \in Nat \ {0}
                      /\ Base \in Nat
                      /\ Base + SegPages <= MemPages
ASSUME PollLimitNat == PollLimit \in Nat \ {0}
ASSUME RequestsAre == /\ Counts \subseteq Words
                      /\ Buffers \subseteq 0 .. SegPages - 1
                      /\ Blocks \subseteq Nat
                      /\ Asked \subseteq Chs
                      /\ \A a \in Asked : a.head < Heads /\ a.sector < Sectors
\* `mult rr0,#9; add r1,r7` keeps the track number in 16 bits.
ASSUME TracksFit == \A a \in Asked : a.cyl * Heads + a.head < 65536

VARIABLES
  pc,        \* where the driver is
  routine,   \* hd65_init ("specify"), hd65_seek or hd65_rd1
  booting,   \* the seek is the one of hd65_init
  polls,     \* what is left of hd65_wait's loop counter r2:r3
  lba,       \* rr10, the block to read
  page,      \* r9, the buffer page to read it to
  left,      \* r12, sectors still to read
  onCyl,     \* r13, the cylinder the driver believes the heads are on
  r7,        \* the result
  units,     \* <<1>>0x270: the unit table says that unit 0 is there
  blk        \* the caller's block: buffer page, byte count, the first sector
             \* as asked for and as a block number

driver == <<pc, routine, booting, polls, lba, page, left, onCyl, r7, units, blk>>
vars == <<go363, driver>>

NoCyl == 65535   \* ld r13,#0xffff

------------------------------------------------------------------------------

\* ld r12,rr2(#0x4); add r12,#0xff; srl r12,#0x8; at least one
SectorsOf(count) ==
  LET n == ((count + 255) % 65536) \div 256 IN IF n = 0 THEN 1 ELSE n

\* Callers read at most what a segment holds (r12 is at most 255, and a
\* segment has 256 pages): a longer request would come round to its own start.
ASSUME RequestsFitSegment == \A c \in Counts : SectorsOf(c) <= SegPages

CylOf(b) == b \div (Heads * Sectors)          \* div rr4,#288

ChsOf(b) ==
  [cyl    |-> CylOf(b),
   head   |-> (b % (Heads * Sectors)) \div Sectors,   \* div rr2,#32
   sector |-> (b % (Heads * Sectors)) % Sectors]

BlockOf(a) == (a.cyl * Heads + a.head) * Sectors + a.sector

\* The quotient of `div rr4,#288` is a signed 16-bit number.
ASSUME QuotientsFit ==
  /\ \A b \in Blocks : CylOf(b) < 32768
  /\ \A a \in Asked : CylOf(BlockOf(a)) < 32768

\* ROM helper 0x0a70: the MMU's base plus the offset, in pages of 256 bytes
Physical(p) == Base + p

\* Mutant of NextPage: the carry goes into the segment number.
NextPageLong(p) == p + 1

NextPage(p) == (p + 1) % SegPages             \* add r9,#0x100: no carry into r8

SeekTarget == IF booting THEN 0 ELSE onCyl

------------------------------------------------------------------------------

Init ==
  /\ DeviceInit
  /\ pc = "off" /\ routine = "specify" /\ booting = FALSE /\ polls = 0
  /\ lba = 0 /\ page = 0 /\ left = 0 /\ onCyl = NoCyl /\ r7 = 0
  /\ units = FALSE
  /\ blk = [buffer |-> 0, count |-> 0, first |-> Origin, asked |-> 0]

\* The IPL calls hd65_init: reset, SPECIFY, then the wait.
Boot ==
  /\ pc \in {"off", "idle"}
  /\ ResetAndIssue("specify")
  /\ pc' = "poll" /\ routine' = "specify" /\ booting' = TRUE
  /\ polls' = PollLimit
  /\ UNCHANGED <<lba, page, left, onCyl, r7, units, blk>>

\* Mutant of Start: r13 keeps the cylinder of the last call.
StartOnLastCylinder(b, a, buffer, count) ==
  /\ pc = "idle" /\ units
  /\ pc' = "next"
  /\ booting' = FALSE
  /\ lba' = b /\ page' = buffer /\ left' = SectorsOf(count)
  /\ blk' = [buffer |-> buffer, count |-> count, first |-> a, asked |-> b]
  /\ UNCHANGED <<routine, polls, onCyl, r7, units, go363>>

\* hd65_rd: a service starts on block b, which stands for sector a.
Start(b, a, buffer, count) ==
  /\ pc = "idle" /\ units
  /\ pc' = "next"
  /\ booting' = FALSE
  /\ lba' = b /\ page' = buffer /\ left' = SectorsOf(count)
  /\ onCyl' = NoCyl
  /\ blk' = [buffer |-> buffer, count |-> count, first |-> a, asked |-> b]
  /\ UNCHANGED <<routine, polls, r7, units, go363>>

RdLba ==
  \E b \in Blocks, buffer \in Buffers, count \in Counts :
    Start(b, ChsOf(b), buffer, count)

RdChs ==
  \E a \in Asked, buffer \in Buffers, count \in Counts :
    Start(BlockOf(a), a, buffer, count)

\* cp r4,r13: a seek only when the block is on another cylinder.  r13 takes
\* the new cylinder before the seek has succeeded.
SameCylinder ==
  /\ pc = "next"
  /\ CylOf(lba) = onCyl
  /\ pc' = "issue" /\ routine' = "read"
  /\ UNCHANGED <<booting, polls, lba, page, left, onCyl, r7, units, blk, go363>>

NewCylinder ==
  /\ pc = "next"
  /\ CylOf(lba) # onCyl
  /\ pc' = "issue" /\ routine' = "seek" /\ onCyl' = CylOf(lba)
  /\ UNCHANGED <<booting, polls, lba, page, left, r7, units, blk, go363>>

\* hd65_seek
Seek ==
  /\ pc = "issue" /\ routine = "seek"
  /\ ready
  /\ Issue("seek", [Origin EXCEPT !.cyl = SeekTarget], dma)
  /\ pc' = "poll" /\ polls' = PollLimit
  /\ UNCHANGED <<routine, booting, lba, page, left, onCyl, r7, units, blk>>

SeekRefused ==
  /\ pc = "issue" /\ routine = "seek"
  /\ ~ready
  /\ pc' = "ret" /\ r7' = 4
  /\ UNCHANGED <<routine, booting, polls, lba, page, left, onCyl, units, blk, go363>>

\* hd65_rd1: DMA address, parameters, READ DATA with one sector
Read ==
  /\ pc = "issue" /\ routine = "read"
  /\ Issue("read", ChsOf(lba), Physical(page))
  /\ pc' = "poll" /\ polls' = PollLimit
  /\ UNCHANGED <<routine, booting, lba, page, left, onCyl, r7, units, blk>>

\* Mutant of PollAgain: the loop branches back to where it loads r2 and r3.
PollForever ==
  /\ pc = "poll" /\ ~pending
  /\ polls' = IF polls > 1 THEN polls - 1 ELSE PollLimit
  /\ UNCHANGED <<pc, routine, booting, lba, page, left, onCyl, r7, units, blk, go363>>

\* hd65_wait: one turn of the loop
PollAgain ==
  /\ pc = "poll" /\ ~pending /\ polls > 1
  /\ polls' = polls - 1
  /\ UNCHANGED <<pc, routine, booting, lba, page, left, onCyl, r7, units, blk, go363>>

PollTimeout ==
  /\ pc = "poll" /\ ~pending /\ polls = 1
  /\ polls' = 0
  /\ pc' = "ret" /\ r7' = 2
  /\ UNCHANGED <<routine, booting, lba, page, left, onCyl, units, blk, go363>>

PollRequest ==
  /\ pc = "poll" /\ pending
  /\ pc' = "ack"
  /\ UNCHANGED <<routine, booting, polls, lba, page, left, onCyl, r7, units, blk, go363>>

\* hd65_init goes on to its seek whatever the status of SPECIFY
SpecifyDone ==
  /\ pc = "ack" /\ routine = "specify"
  /\ ClearEnd
  /\ pc' = "issue" /\ routine' = "seek"
  /\ UNCHANGED <<booting, polls, lba, page, left, onCyl, r7, units, blk>>

\* Mutant of SeekDone: the status is not tested.
SeekDoneAnyhow ==
  /\ pc = "ack" /\ routine = "seek"
  /\ ClearEnd
  /\ \/ /\ booting
        /\ pc' = "ret" /\ r7' = 0 /\ units' = TRUE
        /\ UNCHANGED routine
     \/ /\ ~booting
        /\ pc' = "issue" /\ routine' = "read"
        /\ UNCHANGED <<r7, units>>
  /\ UNCHANGED <<booting, polls, lba, page, left, onCyl, blk>>

\* bitb rl0,#0x6: command end high, which an invalid command sets as well
SeekDone ==
  /\ pc = "ack" /\ routine = "seek"
  /\ status \in {"normal", "invalid"}
  /\ ClearEnd
  /\ \/ /\ booting
        /\ pc' = "ret" /\ r7' = 0 /\ units' = TRUE
        /\ UNCHANGED routine
     \/ /\ ~booting
        /\ pc' = "issue" /\ routine' = "read"
        /\ UNCHANGED <<r7, units>>
  /\ UNCHANGED <<booting, polls, lba, page, left, onCyl, blk>>

\* no hd65_clean on this path
SeekFailed ==
  /\ pc = "ack" /\ routine = "seek"
  /\ status \notin {"normal", "invalid"}
  /\ pc' = "ret" /\ r7' = 5
  /\ UNCHANGED <<routine, booting, polls, lba, page, left, onCyl, units, blk, go363>>

\* Mutant of ReadDone: hd65_clean loses the status that rh0 holds.
ReadDoneAnyhow ==
  /\ pc = "ack" /\ routine = "read"
  /\ ClearEnd
  /\ page' = NextPage(page) /\ lba' = lba + 1 /\ left' = left - 1
  /\ \/ left > 1 /\ pc' = "next" /\ r7' = r7
     \/ left = 1 /\ pc' = "ret" /\ r7' = 0
  /\ UNCHANGED <<routine, booting, polls, onCyl, units, blk>>

\* Mutant of ReadDone: hd65_clean is not called.
ReadDoneUncleaned ==
  /\ pc = "ack" /\ routine = "read"
  /\ status = "normal"
  /\ page' = NextPage(page) /\ lba' = lba + 1 /\ left' = left - 1
  /\ \/ left > 1 /\ pc' = "next" /\ r7' = r7
     \/ left = 1 /\ pc' = "ret" /\ r7' = 0
  /\ UNCHANGED <<routine, booting, polls, onCyl, units, blk, go363>>

\* cpb rh0,#0x40 after hd65_clean; then add r9,#0x100, addl rr10, djnz r12
ReadDone ==
  /\ pc = "ack" /\ routine = "read"
  /\ status = "normal"
  /\ ClearEnd
  /\ page' = NextPage(page) /\ lba' = lba + 1 /\ left' = left - 1
  /\ \/ left > 1 /\ pc' = "next" /\ r7' = r7
     \/ left = 1 /\ pc' = "ret" /\ r7' = 0
  /\ UNCHANGED <<routine, booting, polls, onCyl, units, blk>>

ReadFailed ==
  /\ pc = "ack" /\ routine = "read"
  /\ status # "normal"
  /\ ClearEnd
  /\ pc' = "ret" /\ r7' = 6
  /\ UNCHANGED <<routine, booting, polls, lba, page, left, onCyl, units, blk>>

\* The caller takes r7; an IPL that got an error tries other devices.
Return ==
  /\ pc = "ret"
  /\ pc' = IF booting /\ r7 # 0 THEN "off" ELSE "idle"
  /\ UNCHANGED <<routine, booting, polls, lba, page, left, onCyl, r7, units, blk, go363>>

Step ==
  \/ SameCylinder \/ NewCylinder \/ Seek \/ SeekRefused \/ Read
  \/ PollAgain \/ PollTimeout \/ PollRequest
  \/ SpecifyDone \/ SeekDone \/ SeekFailed \/ ReadDone \/ ReadFailed \/ Return

Next ==
  \/ Boot \/ RdLba \/ RdChs
  \/ Step
  \/ Device /\ UNCHANGED driver

Spec == Init /\ [][Next]_vars

\* The CPU keeps executing the driver.  Nothing makes the board answer.
FairSpec == Spec /\ WF_vars(Step)

------------------------------------------------------------------------------

\* Every variable has its type.
TypeOK ==
  /\ DeviceTypeOK
  /\ pc \in {"off", "idle", "next", "issue", "poll", "ack", "ret"}
  /\ routine \in {"specify", "seek", "read"}
  /\ booting \in BOOLEAN
  /\ polls \in 0 .. PollLimit
  /\ lba \in Nat /\ page \in 0 .. SegPages - 1 /\ left \in Nat
  /\ onCyl \in Nat
  /\ r7 \in {0, 2, 4, 5, 6}
  /\ units \in BOOLEAN
  /\ blk \in [buffer : 0 .. SegPages - 1, count : Words,
              first : Chs, asked : Nat]

InService == ~booting /\ pc \in {"next", "issue", "poll", "ack", "ret"}

Wanted == SectorsOf(blk.count)

\* The page the i-th sector of the request belongs to, counted from 0.
Slot(i) == Physical((blk.buffer + i) % SegPages)

\* The sector after a, in the order of the disk.
Successor(a) ==
  IF a.sector + 1 < Sectors THEN [a EXCEPT !.sector = @ + 1]
  ELSE IF a.head + 1 < Heads THEN [cyl |-> a.cyl, head |-> a.head + 1, sector |-> 0]
  ELSE [cyl |-> a.cyl + 1, head |-> 0, sector |-> 0]

\* A service that returns r7 = 0 ("return r7 = 0 if good", mkrom_hd65.py:374)
\* has put the sector that was asked for into the first page and each next
\* sector of the disk, across track and cylinder ends, into the next page,
\* whatever seeks and reads of earlier, failed calls were still under way.
AskedSectorsInOrder ==
  pc = "ret" /\ ~booting /\ r7 = 0 =>
    /\ mem[Slot(0)] = blk.first
    /\ \A i \in 1 .. Wanted - 1 : mem[Slot(i)] = Successor(mem[Slot(i - 1)])

\* hd65_rd1 never programs the DMA address or writes READ DATA while the
\* controller still works on another command, even one that an earlier call
\* gave up on.
IdleAtRead == pc = "issue" /\ routine = "read" => op = "none"

\* After a good return nothing is left that could disturb the next call: no
\* command in progress and no board request pending.
QuietAfterSuccess ==
  pc \in {"ret", "idle"} /\ r7 = 0 => op = "none" /\ ~pending

\* Every call and every initialisation comes back, however the board behaves,
\* because hd65_wait bounds its polls.
CallsReturn == (pc \notin {"off", "idle", "ret"}) ~> (pc = "ret")

------------------------------------------------------------------------------

NoAnswer == 65535

\* A read that no running hd65_rd1 waits for.
Stray == op = "read" /\ ~(routine = "read" /\ pc \in {"poll", "ack", "ret"})

Request ==
  IF InService
  THEN [i \in 1 .. Wanted |-> [page |-> Slot(i - 1),
                              data |-> ChsOf(blk.asked + i - 1)]]
  ELSE <<>>

Service == INSTANCE BlockRead WITH
  Contents <- Chs \cup {Junk},
  Errors   <- {2, 4, 5, 6},
  NoAnswer <- NoAnswer,
  list     <- Request,
  got      <- IF InService THEN Wanted - left ELSE 0,
  answer   <- IF InService /\ pc = "ret" THEN r7 ELSE NoAnswer,
  stray    <- Stray

\* The driver with its board implements the read service: sectors arrive in
\* order in the caller's pages only, an error leaves at most one late store
\* behind, and none can come once a later call has read a sector.
ServiceSpec == Service!Spec
==============================================================================
