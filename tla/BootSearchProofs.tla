--------------------------- MODULE BootSearchProofs ---------------------------
(***************************************************************************)
(* Theorems about the device search of the boot ROM, for any machine, any   *)
(* media and any changes while it runs: what a program is told of where it  *)
(* came from, and what the operator is shown.                               *)
(***************************************************************************)
EXTENDS BootSearch, WellFoundedInduction, NaturalsInduction, TLAPS

Below == {p \in Nat \X Nat : p[1] < p[2]}

LEMMA BelowWellFounded == IsWellFoundedOn(Below, Nat)
<1>1. Below = OpToRel(<, Nat)
  BY Zenon DEF Below, OpToRel
<1> QED
  BY <1>1, NatLessThanWellFounded

LEMMA MinIsMember ==
  ASSUME NEW S \in SUBSET Nat, S # {}
  PROVE  Min(S) \in S
<1>1. PICK n \in S : \A m \in S : <<m, n>> \notin Below
  BY BelowWellFounded, WFMin
<1>2. ASSUME NEW m \in S
      PROVE  n <= m
  <2>1. ~(m < n)
    BY <1>1 DEF Below
  <2> QED
    BY <2>1
<1> QED
  BY <1>2 DEF Min

LEMMA TapeBoardIs ==
  ASSUME machine \in Machines
  PROVE  IF BoardOf("E4") # {} THEN machine.board[TapeBoard] = "E4"
         ELSE IF BoardOf("EF") # {} THEN machine.board[TapeBoard] = "EF"
         ELSE TapeBoard = slot
<1>1. BoardOf("E4") \subseteq Nat /\ BoardOf("EF") \subseteq Nat
  BY MachinesAre DEF BoardOf
<1>2. BoardOf("E4") # {} => Min(BoardOf("E4")) \in BoardOf("E4")
  BY <1>1, MinIsMember
<1>3. BoardOf("EF") # {} => Min(BoardOf("EF")) \in BoardOf("EF")
  BY <1>1, MinIsMember
<1> QED
  BY <1>2, <1>3 DEF TapeBoard, BoardOf

------------------------------------------------------------------------------

Trying == {"init", "unit", "read", "geometry", "check"}

\* 0x302 and 0x303 while a board is tried: they name it, but for the tape's
\* program.  What is in the buffer is what was read from the unit they name.
NamesUnit ==
  /\ named = [slot |-> named.slot, unit |-> named.unit]
  /\ pc \in Trying => machine.board[slot] = Type
  /\ pc = "geometry" => Disk(Type)
  /\ pc \in Trying =>
       named.slot = IF pc = "check" /\ Tape(Type) THEN TapeBoard ELSE slot
  /\ pc \in {"read", "geometry", "check"} /\ buf.holds = "system" => buf.from = Unit

\* Before the first call nothing was shown.
ShownLater ==
  /\ pc \in Trying => called
  /\ ~called => status = Enumerating

IInv ==
  /\ machine \in Machines
  /\ slot \in Nat
  /\ NamesUnit
  /\ ShownLater
  /\ StartsWhatItNames

LEMMA InitIInv == Init => IInv
BY DEF Init, IInv, NamesUnit, ShownLater, StartsWhatItNames, Trying

\* A step that tries no board: it goes on to the next one, or stops.
LEMMA BetweenStep ==
  ASSUME IInv, StartRound \/ PassOver \/ Resume \/ Hang
  PROVE  IInv'
<1>1. /\ machine' = machine /\ named' = named /\ called' = called
      /\ pc' \in {"scan", "round", "hung"}
      /\ slot' \in {slot, 0, slot + 1}
      /\ status' = status \/ (status = Waiting /\ status' = Shown({3}, named))
  BY DEF StartRound, PassOver, Resume, Hang, Advance, NextSlot, NextType, EndRound, hardware
<1>2. slot' \in Nat
  BY <1>1 DEF IInv
<1>3. NamesUnit' /\ StartsWhatItNames'
  BY <1>1 DEF IInv, NamesUnit, StartsWhatItNames, Trying
<1>4. ShownLater'
  <2>1. Waiting # Enumerating
    <3>1. Waiting.x # Enumerating.x
      BY DEF Waiting, Enumerating, Digit
    <3> QED
      BY <3>1
  <2> QED
    BY <1>1, <2>1 DEF IInv, ShownLater, Trying
<1> QED
  BY <1>1, <1>2, <1>3, <1>4 DEF IInv

LEMMA CallStep ==
  ASSUME IInv, Call
  PROVE  IInv'
<1>1. /\ machine' = machine /\ slot' = slot /\ pos' = pos /\ called' /\ pc' = "init"
      /\ machine.board[slot] = Type /\ Type' = Type
      /\ named' = [named EXCEPT !.slot = slot]
  BY DEF Call, hardware, Type, List
<1>2. named' = [slot |-> slot, unit |-> named.unit]
  BY <1>1 DEF IInv, NamesUnit
<1> QED
  BY <1>1, <1>2 DEF IInv, NamesUnit, ShownLater, StartsWhatItNames, Trying

\* What the steps that try a board leave alone.
LEMMA TryFrame ==
  ASSUME InitFails \/ InitBoard \/ NoMoreUnits \/ SkipDrive \/ Select \/ DiskRead \/ Geometry
         \/ DriveReadAgain \/ DriveGone \/ DriveRead \/ TapeRead \/ Boot \/ Refuse
  PROVE  /\ machine' = machine /\ slot' = slot /\ pos' = pos /\ called' = called
         /\ Type' = Type /\ TapeBoard' = TapeBoard
         /\ pc \in Trying
         /\ \A t : BoardOf(t)' = BoardOf(t)
<1>1. machine' = machine /\ slot' = slot /\ pos' = pos /\ called' = called /\ pc \in Trying
  BY DEF InitFails, InitBoard, NoMoreUnits, SkipDrive, Select, DiskRead, Geometry, DriveReadAgain,
     DriveGone, DriveRead, TapeRead, Boot, Refuse, hardware, Trying
<1> QED
  BY <1>1 DEF Type, List, TapeBoard, BoardOf

\* The board is initialised, and its units are gone through.
LEMMA UnitsStep ==
  ASSUME IInv, InitFails \/ InitBoard \/ NoMoreUnits \/ SkipDrive
  PROVE  IInv'
<1>0. /\ machine' = machine /\ slot' = slot /\ called' = called /\ Type' = Type
      /\ pc \in Trying
  BY TryFrame
<1>1. pc' \in {"unit", "done"} /\ pc # "check"
  BY DEF InitFails, InitBoard, NoMoreUnits, SkipDrive
<1>2. named' = named \/ named' = [named EXCEPT !.unit = 1]
  BY DEF InitFails, InitBoard, NoMoreUnits, SkipDrive, InitNamed
<1>3. named' = [slot |-> named.slot, unit |-> named'.unit]
  BY <1>2 DEF IInv, NamesUnit
<1>4. NamesUnit'
  <2>1. named.slot = slot /\ machine.board[slot] = Type
    BY <1>0, <1>1 DEF IInv, NamesUnit
  <2>2. named'.slot = named.slot
    BY <1>3
  <2> QED
    BY <1>0, <1>1, <1>3, <2>1, <2>2 DEF NamesUnit, Trying
<1>5. ShownLater' /\ StartsWhatItNames'
  BY <1>0, <1>1 DEF IInv, ShownLater, StartsWhatItNames
<1> QED
  BY <1>0, <1>4, <1>5 DEF IInv

LEMMA SelectStep ==
  ASSUME IInv, Select
  PROVE  IInv'
<1>0. /\ machine' = machine /\ slot' = slot /\ called' = called /\ Type' = Type
      /\ pc \in Trying
  BY TryFrame
<1>1. /\ pc = "unit" /\ pc' = "read" /\ buf' = Cleared
      /\ \E u \in todo : named' = [named EXCEPT !.unit = Number(u)]
  BY DEF Select
<1>2. named' = [slot |-> named.slot, unit |-> named'.unit]
  BY <1>1 DEF IInv, NamesUnit
<1>3. named'.slot = slot /\ machine.board[slot] = Type
  <2>1. named'.slot = named.slot
    BY <1>2
  <2> QED
    BY <1>0, <1>1, <2>1 DEF IInv, NamesUnit
<1>4. buf'.holds # "system"
  BY <1>1 DEF Cleared
<1>5. NamesUnit'
  BY <1>0, <1>1, <1>2, <1>3, <1>4 DEF NamesUnit
<1>6. ShownLater' /\ StartsWhatItNames'
  BY <1>0, <1>1 DEF IInv, ShownLater, StartsWhatItNames
<1> QED
  BY <1>0, <1>5, <1>6 DEF IInv

\* What is read into the buffer comes from the unit that is named.
LEMMA LoadedFromUnit ==
  ASSUME IInv, pc = "read", Loaded.holds = "system"
  PROVE  Loaded.from = Unit
BY DEF IInv, NamesUnit, Loaded

LEMMA ReadStep ==
  ASSUME IInv, DiskRead \/ Geometry \/ DriveReadAgain \/ DriveGone \/ DriveRead
  PROVE  IInv'
<1>0. /\ machine' = machine /\ slot' = slot /\ called' = called /\ Type' = Type
      /\ pc \in Trying
  BY TryFrame
<1>1. /\ named' = named
      /\ pc' \in {"unit", "read", "geometry", "check"} /\ pc \in {"read", "geometry"}
      /\ buf' = buf \/ (pc = "read" /\ buf' = Loaded)
      /\ pc' = "geometry" => Disk(Type)
  BY DEF DiskRead, Geometry, DriveReadAgain, DriveGone, DriveRead
<1>2. ~Tape(Type)
  <2>1. Disk(Type) \/ Floppy(Type)
    BY DEF IInv, NamesUnit, DiskRead, Geometry, DriveReadAgain, DriveGone, DriveRead
  <2> QED
    BY <2>1 DEF Disk, Floppy, Tape
<1>3. (Unit' = Unit) /\ (Tape(Type)' <=> Tape(Type)) /\ (Disk(Type)' <=> Disk(Type))
  BY <1>0, <1>1 DEF Unit, Disk, Tape
<1>4. buf'.holds = "system" => buf'.from = Unit
  BY <1>1, LoadedFromUnit DEF IInv, NamesUnit
<1>5. named.slot = slot /\ machine.board[slot] = Type
  BY <1>0, <1>1 DEF IInv, NamesUnit
<1>6. NamesUnit'
  BY <1>0, <1>1, <1>2, <1>3, <1>4, <1>5 DEF IInv, NamesUnit
<1>7. ShownLater' /\ StartsWhatItNames'
  BY <1>0, <1>1 DEF IInv, ShownLater, StartsWhatItNames
<1> QED
  BY <1>0, <1>6, <1>7 DEF IInv

LEMMA TapeReadStep ==
  ASSUME IInv, TapeRead
  PROVE  IInv'
<1>0. /\ machine' = machine /\ slot' = slot /\ called' = called /\ Type' = Type
      /\ TapeBoard' = TapeBoard /\ pc \in Trying
  BY TryFrame
<1>1. /\ pc = "read" /\ Tape(Type) /\ buf' = Loaded
      /\ \/ pc' = "check" /\ named' = [named EXCEPT !.slot = TapeBoard]
         \/ pc' = "done" /\ named' = named
  BY DEF TapeRead
<1>2. CASE pc' = "check"
  <2>1. named' = [slot |-> TapeBoard, unit |-> named.unit]
    BY <1>1, <1>2 DEF IInv, NamesUnit
  <2>2. named'.unit = named.unit /\ named'.slot = TapeBoard
    BY <2>1
  <2>3. Unit' = Unit /\ (Tape(Type)' <=> Tape(Type))
    BY <1>0, <2>2 DEF Unit, Disk, Tape
  <2>4. buf'.holds = "system" => buf'.from = Unit
    BY <1>1, LoadedFromUnit
  <2>5. NamesUnit'
    BY <1>0, <1>1, <1>2, <2>1, <2>2, <2>3, <2>4 DEF IInv, NamesUnit
  <2>6. ShownLater' /\ StartsWhatItNames'
    BY <1>0, <1>2 DEF IInv, ShownLater, StartsWhatItNames
  <2> QED
    BY <1>0, <2>5, <2>6 DEF IInv
<1>3. CASE pc' = "done"
  <2>1. NamesUnit'
    BY <1>1, <1>3 DEF IInv, NamesUnit, Trying
  <2>2. ShownLater' /\ StartsWhatItNames'
    BY <1>0, <1>3 DEF IInv, ShownLater, StartsWhatItNames
  <2> QED
    BY <1>0, <2>1, <2>2 DEF IInv
<1> QED
  BY <1>1, <1>2, <1>3

LEMMA BootStep ==
  ASSUME IInv, Boot
  PROVE  IInv'
<1>0. /\ machine' = machine /\ slot' = slot /\ called' = called /\ Type' = Type
      /\ pc \in Trying /\ \A t : BoardOf(t)' = BoardOf(t)
  BY TryFrame
<1>1. /\ pc = "check" /\ pc' = "booted" /\ buf' = buf /\ buf.holds = "system" /\ named' = named
  BY DEF Boot
<1>2. buf.from = Unit /\ buf.from[1] = slot /\ machine.board[slot] = Type
  BY <1>0, <1>1 DEF IInv, NamesUnit, Unit
<1>3. StartsWhatItNames'
  <2>1. CASE Tape(Type)
    <3>1. named.slot = TapeBoard /\ buf.from[2] = named.unit
      BY <1>1, <1>2, <2>1 DEF IInv, NamesUnit, Trying, Unit, Disk, Tape
    <3>2. IF BoardOf("E4") # {} THEN machine.board[named.slot] = "E4"
          ELSE IF BoardOf("EF") # {} THEN machine.board[named.slot] = "EF"
          ELSE named.slot = slot
      BY <3>1, TapeBoardIs DEF IInv
    <3> QED
      BY <1>0, <1>1, <1>2, <2>1, <3>1, <3>2 DEF StartsWhatItNames, Tape
  <2>2. CASE ~Tape(Type)
    <3>1. named.slot = slot
      BY <1>1, <2>2 DEF IInv, NamesUnit, Trying
    <3> QED
      BY <1>0, <1>1, <1>2, <2>2, <3>1 DEF StartsWhatItNames, Tape, Unit
  <2> QED
    BY <2>1, <2>2
<1>4. NamesUnit' /\ ShownLater'
  BY <1>0, <1>1 DEF IInv, NamesUnit, ShownLater, Trying
<1> QED
  BY <1>0, <1>3, <1>4 DEF IInv

LEMMA RefuseStep ==
  ASSUME IInv, Refuse
  PROVE  IInv'
<1>0. /\ machine' = machine /\ slot' = slot /\ called' = called /\ Type' = Type
      /\ pc \in Trying
  BY TryFrame
<1>1. /\ pc = "check" /\ pc' \in {"done", "unit"}
      /\ named' = [named EXCEPT !.slot = slot]
  BY DEF Refuse
<1>2. named' = [slot |-> slot, unit |-> named.unit]
  BY <1>1 DEF IInv, NamesUnit
<1>3. machine.board[slot] = Type
  BY <1>0 DEF IInv, NamesUnit
<1>4. NamesUnit'
  BY <1>0, <1>1, <1>2, <1>3 DEF NamesUnit, Trying
<1>5. ShownLater' /\ StartsWhatItNames'
  BY <1>0, <1>1 DEF IInv, ShownLater, StartsWhatItNames
<1> QED
  BY <1>0, <1>4, <1>5 DEF IInv

LEMMA ChangeStep ==
  ASSUME IInv, Change \/ UNCHANGED vars
  PROVE  IInv'
<1>1. UNCHANGED <<machine, pc, pos, slot, named, buf, called, status>>
  BY DEF Change, vars, hardware
<1>2. Type' = Type /\ Unit' = Unit /\ TapeBoard' = TapeBoard /\ \A t : BoardOf(t)' = BoardOf(t)
  BY <1>1 DEF Type, List, Unit, Disk, TapeBoard, BoardOf
<1>3. NamesUnit'
  BY <1>1, <1>2 DEF IInv, NamesUnit, Tape, Disk
<1>4. StartsWhatItNames'
  BY <1>1, <1>2 DEF IInv, StartsWhatItNames, Tape, Disk
<1>5. ShownLater'
  BY <1>1 DEF IInv, ShownLater
<1> QED
  BY <1>1, <1>3, <1>4, <1>5 DEF IInv

LEMMA NextStep == IInv /\ [Next]_vars => IInv'
BY BetweenStep, CallStep, UnitsStep, SelectStep, ReadStep, TapeReadStep, BootStep, RefuseStep,
   ChangeStep DEF Next, Search

LEMMA Always == Spec => []IInv
BY InitIInv, NextStep, PTL DEF Spec

\* The program that is started came from the unit that 0x302 and 0x303 name; on
\* tape, from the unit in 0x303, with a board to install on in 0x302.
THEOREM ProgramKnowsUnit == Spec => []StartsWhatItNames
<1>1. IInv => StartsWhatItNames
  BY DEF IInv
<1> QED
  BY <1>1, Always, PTL

------------------------------------------------------------------------------

\* A result that is reported is shown with the board in 0x302, or changes nothing.
LEMMA ReportedIs ==
  ASSUME NEW r7, NEW at
  PROVE  \/ Reported(r7, at) = status
         \/ /\ Reported(r7, at).slot = at.slot
            /\ Reported(r7, at).x \cap (0 .. 2) # {}
<1>1. CASE r7 \cap (0 .. 2) = {}
  BY <1>1 DEF Reported
<1>2. CASE r7 \cap (0 .. 2) # {}
  <2>1. r7 # {} /\ (r7 \cap (0 .. 3)) \cap (0 .. 2) # {}
    <3>1. PICK b : b \in r7 /\ b \in 0 .. 2
      BY <1>2
    <3>2. b \in 0 .. 3
      BY <3>1
    <3> QED
      BY <3>1, <3>2
  <2>2. Reported(r7, at) = [x |-> r7 \cap (0 .. 3), slot |-> at.slot, unit |-> at.unit]
    BY <1>2, <2>1 DEF Reported, Shown
  <2> QED
    BY <2>1, <2>2
<1> QED
  BY <1>1, <1>2

LowBits(code) == code.x \cap (0 .. 2) # {}

\* What a step makes of the code: 5 and 8 before and after the boards, blank for
\* the program, and the result of the board that is tried.
LEMMA StepShows ==
  ASSUME IInv, [Next]_vars, status' # status
  PROVE  \/ status' \in {Waiting, Shown({3}, named)} /\ status.slot = -1
         \/ pc' = "booted" /\ status' = Blank
         \/ status'.slot = slot /\ LowBits(status')
         \/ looping /\ (status'.slot = slot \/ status' = Blank)
<1>0. Waiting.slot = -1 /\ Enumerating.slot = -1
  BY DEF Waiting, Enumerating, Digit
<1>1. CASE PassOver \/ Resume
  <2>1. status = Waiting /\ status' = Shown({3}, named)
    BY <1>1 DEF PassOver, Resume, Advance, NextSlot, NextType, EndRound
  <2> QED
    BY <1>0, <2>1
<1>2. CASE Call
  <2>1. ~called /\ status' = Waiting
    BY <1>2 DEF Call
  <2> QED
    BY <1>0, <2>1 DEF IInv, ShownLater
<1>3. CASE DiskRead \/ Geometry \/ DriveRead \/ TapeRead
  <2>1. \E r7 : status' = Reported(r7, named)
    BY <1>3 DEF DiskRead, Geometry, DriveRead, TapeRead
  <2>2. named.slot = slot
    BY <1>3 DEF IInv, NamesUnit, Trying, DiskRead, Geometry, DriveRead, TapeRead
  <2> QED
    BY <2>1, <2>2, ReportedIs DEF LowBits
<1>4. CASE InitFails
  <2>1. status' = Reported(InitResult, InitNamed)
    BY <1>4 DEF InitFails
  <2>2. InitNamed.slot = slot
    <3>1. named.slot = slot /\ named = [slot |-> named.slot, unit |-> named.unit]
      BY <1>4 DEF IInv, NamesUnit, Trying, InitFails
    <3> QED
      BY <3>1 DEF InitNamed
  <2> QED
    BY <2>1, <2>2, ReportedIs DEF LowBits
<1>5. CASE Refuse
  <2>1. \E r7 : status' = Reported(r7, named')
    BY <1>5 DEF Refuse
  <2>2. named'.slot = slot
    BY <1>5 DEF IInv, NamesUnit, Refuse
  <2> QED
    BY <2>1, <2>2, ReportedIs DEF LowBits
<1>6. CASE DriveReadAgain
  <2>1. looping /\ status' = Shown(ReadFault, named) /\ named.slot = slot
    BY <1>6 DEF DriveReadAgain, ReadAgain, IInv, NamesUnit, Trying
  <2> QED
    BY <2>1 DEF Shown
<1>7. CASE Boot
  BY <1>7 DEF Boot
<1>8. CASE StartRound \/ Hang \/ InitBoard \/ NoMoreUnits \/ SkipDrive \/ Select \/ DriveGone
           \/ Change \/ UNCHANGED vars
  BY <1>8 DEF StartRound, Hang, InitBoard, NoMoreUnits, SkipDrive, Select, DriveGone, Change, vars
<1> QED
  BY <1>1, <1>2, <1>3, <1>4, <1>5, <1>6, <1>7, <1>8 DEF Next, Search

LEMMA EightIsNoError == ~LowBits(Shown({3}, named)) /\ ~LowBits(Blank)
<1>1. Shown({3}, named).x = {3} /\ Blank.x = {}
  BY DEF Shown, Blank, Digit
<1> QED
  BY <1>1 DEF LowBits

\* An error is shown with the slot of the board that is being tried.
THEOREM ErrorNamesBoard == Spec => CodeNamesBoard
<1>1. IInv /\ [Next]_vars =>
        [status' # status /\ status'.slot # -1 /\ status'.x \cap (0 .. 2) # {}
         => status'.slot = slot]_vars
  <2> SUFFICES ASSUME IInv, [Next]_vars, status' # status, status'.slot # -1, LowBits(status')
               PROVE  status'.slot = slot
    BY DEF LowBits
  <2>1. status' # Waiting
    BY DEF Waiting, Digit
  <2> QED
    BY <2>1, StepShows, EightIsNoError
<1> QED
  BY <1>1, Always, PTL DEF Spec, CodeNamesBoard

\* An error that is shown gives way to another error or to the program that is
\* started, and to nothing else, unless the board reads again and again.
THEOREM ErrorIsKept == Spec => ErrorStays
<1>1. IInv /\ [Next]_vars =>
        [status.slot # -1 /\ status.x \cap (0 .. 2) # {} /\ status' # status
         => \/ status'.slot # -1 /\ status'.x \cap (0 .. 2) # {}
            \/ pc' = "booted"
            \/ looping]_vars
  <2> SUFFICES ASSUME IInv, [Next]_vars, status' # status, status.slot # -1
               PROVE  \/ status'.slot # -1 /\ LowBits(status')
                      \/ pc' = "booted"
                      \/ looping
    BY DEF LowBits
  <2>1. slot # -1
    BY DEF IInv
  <2> QED
    BY <2>1, StepShows
<1> QED
  BY <1>1, Always, PTL DEF Spec, ErrorStays
------------------------------------------------------------------------------
(* The order of the search.                                                 *)

Searching == Trying \cup {"scan", "done"}

Valid(u) == <<slot, u>> \in DOMAIN machine.kind

\* The search at this board is not past unit u.
InHand(u) ==
  CASE pc \in {"scan", "init"}              -> TRUE
    [] pc = "unit"                          -> u \in todo
    [] pc \in {"read", "geometry", "check"} -> u \in todo \/ <<slot, u>> = Unit
    [] OTHER                                -> FALSE

\* The search of this round is not past unit d.
Ahead(d) ==
  \/ Place(d) > pos
  \/ Place(d) = pos /\ d[1] > slot
  \/ Place(d) = pos /\ d[1] = slot /\ InHand(d[2])

Owed(d) == d \in round.steady /\ Listed(d) /\ Reached(d, round.isl)

\* Where the search is: a place of the list, a board, units of it.
InPlace ==
  /\ pos \in 1 .. 6
  /\ slot \in DOMAIN machine.board
  /\ pc \in Trying \ {"init"} => todo \subseteq UnitsOf(Type)
  /\ pc \in Trying \ {"init"} /\ Disk(Type) =>
       \A u \in todo : Valid(u) /\ machine.kind[<<slot, u>>] \in Range(Kinds)
  /\ pc \in {"read", "geometry", "check"} =>
       /\ Unit \in DOMAIN machine.kind
       /\ Disk(Type) => machine.kind[Unit] \in Range(Kinds)
       /\ \A u \in todo : Turn(Unit[2]) <= Turn(u)
       /\ Tape(Type) => todo = {}

\* What could be booted from ever since the round began.
Steady ==
  /\ DOMAIN media = DOMAIN machine.kind
  /\ round = [isl |-> round.isl, steady |-> round.steady]
  /\ round.steady \subseteq {d \in DOMAIN media : Bootable(d)}
  /\ pc \in {"geometry", "check"} /\ Unit \in round.steady => buf.holds = "system"

NonePassed == pc \in Searching => \A d \in round.steady : Owed(d) => Ahead(d)

OInv == IInv /\ InPlace /\ Steady /\ NonePassed /\ FirstInOrder

\* A unit of the machine: its slot, its number and its type.
LEMMA UnitIs ==
  ASSUME machine \in Machines, NEW d \in DOMAIN machine.kind
  PROVE  /\ d[1] \in 0 .. 15 /\ d[1] \in DOMAIN machine.board
         /\ d[2] \in 0 .. 7 /\ d[2] \in UnitsOf(machine.board[d[1]])
         /\ d = <<d[1], d[2]>>
         /\ machine.kind[d] \in 0 .. 5
         /\ machine.board[d[1]] = "65" => machine.kind[d] = 1
         /\ machine.board[d[1]] \in {"E1", "E0", "E6"} => machine.kind[d] = 0
<1>1. PICK n \in 0 .. 15 : DOMAIN machine.board = 0 .. n
  BY MachinesAre
<1>2. /\ d[1] \in DOMAIN machine.board /\ d[2] \in UnitsOf(machine.board[d[1]])
      /\ d = <<d[1], d[2]>>
      /\ machine.kind[d] \in CASE machine.board[d[1]] \in {"E4", "EF"} -> 0 .. 5
                               [] machine.board[d[1]] = "65"           -> {1}
                               [] OTHER                                -> {0}
  BY MachinesAre
<1>3. d[1] \in 0 .. 15
  BY <1>1, <1>2
<1>4. d[2] \in 0 .. 7
  BY <1>2 DEF UnitsOf
<1> QED
  BY <1>2, <1>3, <1>4

LEMMA ListAt ==
  /\ List[1] = (IF machine.patched THEN "65" ELSE "E4")
  /\ List[2] = "EF" /\ List[3] = "E1" /\ List[4] = "E0" /\ List[5] = "E6" /\ List[6] = "EF"
  /\ Len(List) = 6
BY DEF List

LEMMA KindsIn ==
  ASSUME NEW p \in 1 .. 6
  PROVE  Range(KindsAt(p)) = IF p = 6 \/ (p = 1 /\ machine.patched) THEN {1} ELSE 2 .. 5
BY DEF Range, KindsAt

\* A unit that is listed has a place.
LEMMA PlaceIs ==
  ASSUME machine \in Machines, NEW d \in DOMAIN machine.kind
  PROVE  /\ Place(d) \in 1 .. 6
         /\ Listed(d) => List[Place(d)] = machine.board[d[1]]
<1>1. machine.board[d[1]] \in {"65", "E4", "EF", "E1", "E0", "E6"}
  BY UnitIs DEF UnitsOf
<1> QED
  BY <1>1 DEF Place, Listed

\* The unit that a handler at place p tries has that place.
LEMMA TriedHasPlace ==
  ASSUME machine \in Machines, NEW d \in DOMAIN machine.kind, NEW p \in 1 .. 6,
         machine.board[d[1]] = List[p],
         Disk(List[p]) => machine.kind[d] \in Range(KindsAt(p))
  PROVE  Place(d) = p /\ Listed(d)
<1>1. Place(d) = p
  BY ListAt, KindsIn DEF Place, Disk
<1> QED
  BY <1>1 DEF Listed

\* The turn of a unit, of the place it has, is what its rank ends in.
Late(d) ==
  (5 - machine.kind[d]) * 8 + (IF Floppy(machine.board[d[1]]) THEN (d[2] + 3) % 4 ELSE d[2])

LEMMA RankIs ==
  ASSUME machine \in Machines, NEW d \in DOMAIN machine.kind
  PROVE  /\ Late(d) \in 0 .. 47
         /\ Rank(d) = (Place(d) * 16 + d[1]) * 64 + Late(d)
<1>1. machine.kind[d] \in 0 .. 5 /\ d[1] \in 0 .. 15 /\ d[2] \in 0 .. 7 /\ Place(d) \in 1 .. 6
  BY UnitIs, PlaceIs
<1> DEFINE last == IF Floppy(machine.board[d[1]]) THEN (d[2] + 3) % 4 ELSE d[2]
<1>2. last \in 0 .. 7
  BY <1>1
<1>3. /\ Late(d) = (5 - machine.kind[d]) * 8 + last
      /\ Rank(d) = ((Place(d) * 16 + d[1]) * 8 + (5 - machine.kind[d])) * 8 + last
  BY DEF Rank, Late
<1> HIDE DEF last
<1>4. ASSUME NEW p \in 1 .. 6, NEW s \in 0 .. 15, NEW k \in 0 .. 5, NEW l \in 0 .. 7
      PROVE  /\ (5 - k) * 8 + l \in 0 .. 47
             /\ ((p * 16 + s) * 8 + (5 - k)) * 8 + l = (p * 16 + s) * 64 + ((5 - k) * 8 + l)
  OBVIOUS
<1> QED
  BY <1>1, <1>2, <1>3, <1>4

LEMMA RankGrows ==
  ASSUME machine \in Machines, NEW d \in DOMAIN machine.kind, NEW e \in DOMAIN machine.kind,
         \/ Place(d) > Place(e)
         \/ Place(d) = Place(e) /\ d[1] > e[1]
         \/ Place(d) = Place(e) /\ d[1] = e[1] /\ Late(d) >= Late(e)
  PROVE  Rank(d) >= Rank(e)
<1> DEFINE p == Place(d)  s == d[1]  l == Late(d)
           q == Place(e)  t == e[1]  m == Late(e)
<1>1. Rank(d) = (p * 16 + s) * 64 + l /\ Rank(e) = (q * 16 + t) * 64 + m
  BY RankIs
<1>2. /\ p \in 1 .. 6 /\ s \in 0 .. 15 /\ l \in 0 .. 47
      /\ q \in 1 .. 6 /\ t \in 0 .. 15 /\ m \in 0 .. 47
  BY UnitIs, PlaceIs, RankIs
<1>3. p > q \/ (p = q /\ s > t) \/ (p = q /\ s = t /\ l >= m)
  OBVIOUS
<1> HIDE DEF p, s, l, q, t, m
<1>4. (p * 16 + s) * 64 + l >= (q * 16 + t) * 64 + m
  BY <1>2, <1>3
<1> QED
  BY <1>1, <1>4

\* Of the units of a handler, those whose turn comes later have a higher rank.
LEMMA TurnIsLate ==
  ASSUME machine \in Machines, pos \in 1 .. 6, machine.board[slot] = Type,
         NEW u, NEW w, Valid(u), Valid(w), Turn(u) <= Turn(w),
         Disk(Type) => machine.kind[<<slot, u>>] \in Range(Kinds)
                       /\ machine.kind[<<slot, w>>] \in Range(Kinds)
  PROVE  Late(<<slot, u>>) <= Late(<<slot, w>>)
<1>1. /\ u \in 0 .. 7 /\ w \in 0 .. 7
      /\ u \in UnitsOf(Type) /\ w \in UnitsOf(Type)
      /\ machine.kind[<<slot, u>>] \in 0 .. 5 /\ machine.kind[<<slot, w>>] \in 0 .. 5
  BY UnitIs DEF Valid
<1>2. CASE Disk(Type)
  <2> DEFINE kind(x)  == machine.kind[<<slot, x>>]
             place(x) == CHOOSE k \in DOMAIN Kinds : Kinds[k] = kind(x)
  <2>1. ~Floppy(Type) /\ ~Tape(Type)
    BY <1>2 DEF Disk, Floppy, Tape
  <2>2. 8 * place(u) + u <= 8 * place(w) + w
    BY <2>1 DEF Turn
  <2>3. kind(u) \in Range(Kinds) /\ kind(w) \in Range(Kinds)
    BY <1>2
  <2>4. /\ Late(<<slot, u>>) = (5 - kind(u)) * 8 + u
        /\ Late(<<slot, w>>) = (5 - kind(w)) * 8 + w
    BY <2>1 DEF Late
  <2>5. CASE pos = 6 \/ (pos = 1 /\ machine.patched)
    <3>1. Kinds = <<1>>
      BY <2>5 DEF Kinds, KindsAt
    <3>2. kind(u) = 1 /\ kind(w) = 1
      BY <2>3, <2>5, KindsIn DEF Kinds
    <3>3. place(u) = place(w)
      BY <3>2
    <3>4. place(u) \in DOMAIN Kinds /\ DOMAIN Kinds = {1}
      BY <3>1, <3>2
    <3> QED
      <4> HIDE DEF place, kind
      <4> QED
        BY <1>1, <2>2, <2>4, <3>2, <3>3, <3>4
  <2>6. CASE ~(pos = 6 \/ (pos = 1 /\ machine.patched))
    <3>1. Kinds = <<5, 4, 3, 2>>
      BY <2>6 DEF Kinds, KindsAt
    <3>2. DOMAIN Kinds = 1 .. 4 /\ \A k \in 1 .. 4 : Kinds[k] = 6 - k
      <4>1. Kinds[1] = 5 /\ Kinds[2] = 4 /\ Kinds[3] = 3 /\ Kinds[4] = 2 /\ DOMAIN Kinds = 1 .. 4
        BY <3>1
      <4> HIDE DEF kind, place
      <4> QED
        BY <4>1
    <3>3. kind(u) \in 2 .. 5 /\ kind(w) \in 2 .. 5
      BY <2>3, <2>6, KindsIn DEF Kinds
    <3>4. ASSUME NEW k \in 2 .. 5
          PROVE  (CHOOSE j \in DOMAIN Kinds : Kinds[j] = k) = 6 - k
      <4>1. 6 - k \in DOMAIN Kinds /\ Kinds[6 - k] = k
        BY <3>2
      <4>2. \A j \in DOMAIN Kinds : Kinds[j] = k => j = 6 - k
        BY <3>2
      <4> QED
        BY <4>1, <4>2
    <3>5. place(u) = 6 - kind(u) /\ place(w) = 6 - kind(w)
      BY <3>3, <3>4
    <3> QED
      <4> HIDE DEF place, kind
      <4> QED
        BY <1>1, <2>2, <2>4, <3>3, <3>5
  <2> QED
    BY <2>5, <2>6
<1>3. CASE Floppy(Type)
  <2>1. machine.kind[<<slot, u>>] = 0 /\ machine.kind[<<slot, w>>] = 0
    BY <1>3, UnitIs DEF Floppy, Valid
  <2> QED
    BY <1>1, <1>3, <2>1 DEF Late, Turn, Floppy
<1>4. CASE Tape(Type)
  <2>1. u = 1 /\ w = 1
    BY <1>1, <1>4 DEF Tape, UnitsOf
  <2> QED
    BY <1>1, <2>1 DEF Late, Floppy
<1> QED
  BY <1>1, <1>2, <1>3, <1>4, ListAt DEF UnitsOf, Disk, Floppy, Tape
------------------------------------------------------------------------------
(* Step by step. *)

\* What depends on the machine, the media and the place of the search alone.
LEMMA SameSearch ==
  ASSUME machine' = machine, pos' = pos, slot' = slot
  PROVE  /\ Type' = Type /\ Kinds' = Kinds
         /\ \A u : Turn(u)' = Turn(u) /\ (Valid(u)' <=> Valid(u))
         /\ \A d : Place(d)' = Place(d) /\ (Listed(d)' <=> Listed(d)) /\ Rank(d)' = Rank(d)
<1>1. List' = List /\ Type' = Type /\ Kinds' = Kinds /\ \A p : KindsAt(p)' = KindsAt(p)
  BY DEF List, Type, Kinds, KindsAt
<1>2. \A u : Turn(u)' = Turn(u) /\ (Valid(u)' <=> Valid(u))
  BY <1>1 DEF Turn, Floppy, Tape, Valid
<1>3. \A d : Place(d)' = Place(d)
  BY DEF Place
<1>4. \A d : Listed(d)' <=> Listed(d)
  BY <1>1, <1>3 DEF Listed, Disk
<1>5. \A d : Rank(d)' = Rank(d)
  BY <1>3 DEF Rank, Floppy
<1> QED
  BY <1>1, <1>2, <1>3, <1>4, <1>5

LEMMA SameMachine ==
  ASSUME machine' = machine
  PROVE  \A d : Place(d)' = Place(d) /\ (Listed(d)' <=> Listed(d))
<1>1. List' = List /\ \A p : KindsAt(p)' = KindsAt(p)
  BY DEF List, KindsAt
<1>2. \A d : Place(d)' = Place(d)
  BY DEF Place
<1> QED
  BY <1>1, <1>2 DEF Listed, Disk

\* A unit that is owed is one of the machine, can be booted from and has a place.
LEMMA OwedIs ==
  ASSUME OInv, NEW d, Owed(d)
  PROVE  /\ d \in DOMAIN machine.kind /\ d \in DOMAIN media /\ Bootable(d)
         /\ Place(d) \in 1 .. 6 /\ d[1] \in DOMAIN machine.board /\ d[1] \in Nat
         /\ d = <<d[1], d[2]>> /\ d[2] \in UnitsOf(machine.board[d[1]])
         /\ List[Place(d)] = machine.board[d[1]]
         /\ Disk(List[Place(d)]) => machine.kind[d] \in Range(KindsAt(Place(d)))
<1>1. /\ machine \in Machines
      /\ d \in DOMAIN machine.kind /\ d \in DOMAIN media /\ Bootable(d) /\ Listed(d)
  BY DEF OInv, IInv, Steady, Owed
<1> QED
  BY <1>1, UnitIs, PlaceIs DEF Listed

\* The same of one at the board that is being tried.
LEMMA OwedHere ==
  ASSUME OInv, NEW d, Owed(d), Place(d) = pos, d[1] = slot
  PROVE  /\ d = <<slot, d[2]>> /\ Valid(d[2]) /\ d[2] \in UnitsOf(Type)
         /\ machine.board[slot] = Type
         /\ Disk(Type) => machine.kind[<<slot, d[2]>>] \in Range(Kinds)
         /\ Ready(d[2])
BY OwedIs DEF Valid, Kinds, Type, Ready, Bootable

\* Inside a board nothing is passed that the step does not put behind the search.
LEMMA StillAhead ==
  ASSUME OInv, machine' = machine, pos' = pos, slot' = slot, round' = round, pc \in Searching,
         \A d : Owed(d) /\ Place(d) = pos /\ d[1] = slot /\ InHand(d[2]) => InHand(d[2])'
  PROVE  NonePassed'
<1>1. \A d : (Owed(d)' <=> Owed(d)) /\ Place(d)' = Place(d)
  BY SameMachine DEF Owed, Reached
<1>2. ASSUME NEW d, Owed(d), Ahead(d)
      PROVE  Ahead(d)'
  BY <1>1, <1>2 DEF Ahead
<1> QED
  BY <1>1, <1>2 DEF OInv, NonePassed, Owed

\* On to the next board, with nothing owed at this one.
LEMMA AdvancePasses ==
  ASSUME OInv, Advance, pc \in Searching,
         \A d : Owed(d) => ~(Place(d) = pos /\ d[1] = slot /\ InHand(d[2]))
  PROVE  InPlace' /\ Steady' /\ NonePassed' /\ FirstInOrder'
<1>1. /\ machine' = machine /\ media' = media /\ ctl' = ctl /\ round' = round
      /\ pc' \in {"scan", "round"}
      /\ NextSlot \/ NextType \/ EndRound
  BY DEF Advance, NextSlot, NextType, EndRound, hardware
<1>2. PICK n \in 0 .. 15 : DOMAIN machine.board = 0 .. n
  BY MachinesAre DEF OInv, IInv
<1>3. pos' \in 1 .. 6 /\ slot' \in DOMAIN machine'.board
  BY <1>1, <1>2, ListAt DEF OInv, InPlace, NextSlot, NextType, EndRound
<1>4. InPlace' /\ Steady' /\ FirstInOrder'
  BY <1>1, <1>3 DEF OInv, InPlace, Steady, FirstInOrder, Trying, Bootable
<1>5. ASSUME NEW d, Owed(d), pc' = "scan"
      PROVE  Ahead(d)'
  <2>1. /\ Place(d) \in 1 .. 6 /\ d[1] \in 0 .. n /\ pos \in 1 .. 6 /\ slot \in 0 .. n
        /\ Place(d) > pos \/ (Place(d) = pos /\ d[1] > slot)
    BY <1>2, <1>5, OwedIs DEF OInv, InPlace, NonePassed, Owed, Ahead
  <2>2. Place(d)' = Place(d)
    BY <1>1, SameMachine
  <2>3. \A u : InHand(u)'
    BY <1>5 DEF InHand
  <2>4. CASE NextSlot
    <3>1. slot' = slot + 1 /\ pos' = pos
      BY <2>4 DEF NextSlot
    <3> QED
      BY <2>1, <2>2, <2>3, <3>1 DEF Ahead
  <2>5. CASE NextType
    <3>1. slot' = 0 /\ pos' = pos + 1 /\ slot + 1 \notin 0 .. n
      BY <1>2, <2>5 DEF NextType
    <3>2. Place(d) > pos
      BY <1>2, <2>1, <3>1
    <3> QED
      BY <2>1, <2>2, <2>3, <3>1, <3>2 DEF Ahead
  <2>6. CASE EndRound
    BY <1>5, <2>6 DEF EndRound
  <2> QED
    BY <1>1, <2>4, <2>5, <2>6
<1>6. NonePassed'
  <2>1. \A d : Owed(d)' <=> Owed(d)
    BY <1>1, SameMachine DEF Owed, Reached
  <2>2. pc' \in Searching => pc' = "scan"
    BY <1>1 DEF Searching, Trying
  <2> QED
    BY <1>5, <2>1, <2>2 DEF NonePassed
<1> QED
  BY <1>4, <1>6

LEMMA InitOrder == Init => InPlace /\ Steady /\ NonePassed /\ FirstInOrder
<1> SUFFICES ASSUME Init
             PROVE  InPlace /\ Steady /\ NonePassed /\ FirstInOrder
  OBVIOUS
<1>1. /\ machine \in Machines /\ DOMAIN media = DOMAIN machine.kind
      /\ pc = "round" /\ pos = 1 /\ slot = 0
      /\ round = [isl |-> isl, steady |-> {}]
  BY DEF Init
<1>2. 0 \in DOMAIN machine.board
  BY <1>1, MachinesAre
<1> QED
  BY <1>1, <1>2 DEF InPlace, Steady, NonePassed, FirstInOrder, Searching, Trying

LEMMA StartRoundOrder ==
  ASSUME OInv, StartRound
  PROVE  InPlace' /\ Steady' /\ NonePassed' /\ FirstInOrder'
<1>1. /\ machine' = machine /\ media' = media /\ ctl' = ctl
      /\ pc' = "scan" /\ pos' = (IF isl THEN 1 ELSE 3) /\ slot' = 0
      /\ round' = [isl |-> isl, steady |-> {d \in DOMAIN media : Bootable(d)}]
  BY DEF StartRound, hardware, ListStart
<1>2. 0 \in DOMAIN machine.board
  BY MachinesAre DEF OInv, IInv
<1>3. InPlace' /\ Steady' /\ FirstInOrder'
  BY <1>1, <1>2 DEF OInv, InPlace, Steady, FirstInOrder, Trying, Bootable
<1>4. ASSUME NEW d \in DOMAIN media, Listed(d), Reached(d, isl)
      PROVE  Ahead(d)'
  <2>1. /\ d[1] \in 0 .. 15 /\ Place(d) \in 1 .. 6
    BY UnitIs, PlaceIs DEF OInv, IInv, Steady
  <2>2. InHand(d[2])' /\ Place(d)' = Place(d)
    BY <1>1, SameMachine DEF InHand
  <2> QED
    BY <1>1, <1>4, <2>1, <2>2 DEF Ahead, Reached
<1>5. \A d : Owed(d)' => d \in DOMAIN media /\ Listed(d) /\ Reached(d, isl)
  BY <1>1, SameMachine DEF Owed, Reached
<1> QED
  BY <1>3, <1>4, <1>5 DEF NonePassed

LEMMA BetweenOrder ==
  ASSUME OInv, PassOver \/ Resume \/ Hang
  PROVE  InPlace' /\ Steady' /\ NonePassed' /\ FirstInOrder'
<1>1. CASE PassOver
  <2>1. \A d : Owed(d) => ~(Place(d) = pos /\ d[1] = slot)
    BY <1>1, OwedHere DEF PassOver
  <2> QED
    BY <1>1, <2>1, AdvancePasses DEF PassOver, Searching
<1>2. CASE Resume
  <2>1. \A u : ~InHand(u)
    BY <1>2 DEF Resume, InHand
  <2> QED
    BY <1>2, <2>1, AdvancePasses DEF Resume, Searching
<1>3. CASE Hang
  BY <1>3 DEF Hang, hardware, OInv, InPlace, Steady, NonePassed, FirstInOrder, Searching, Trying, Bootable
<1> QED
  BY <1>1, <1>2, <1>3

LEMMA CallOrder ==
  ASSUME OInv, Call
  PROVE  InPlace' /\ Steady' /\ NonePassed' /\ FirstInOrder'
<1>1. /\ machine' = machine /\ media' = media /\ ctl' = ctl /\ round' = round
      /\ slot' = slot /\ pos' = pos /\ pc = "scan" /\ pc' = "init"
  BY DEF Call, hardware
<1>2. InPlace' /\ Steady' /\ FirstInOrder'
  BY <1>1 DEF OInv, InPlace, Steady, FirstInOrder, Trying, Bootable
<1>3. \A u : InHand(u)'
  BY <1>1 DEF InHand
<1> QED
  BY <1>1, <1>2, <1>3, StillAhead DEF Searching

\* What the handlers leave alone, and that the units that are owed stay.
LEMMA TryOrder ==
  ASSUME OInv, InitFails \/ InitBoard \/ NoMoreUnits \/ SkipDrive \/ Select \/ DiskRead
               \/ Geometry \/ DriveReadAgain \/ DriveGone \/ DriveRead \/ TapeRead \/ Refuse
  PROVE  /\ machine' = machine /\ media' = media /\ ctl' = ctl /\ round' = round
         /\ slot' = slot /\ pos' = pos /\ pc \in Trying /\ pc' \in Trying \cup {"done"}
         /\ Type' = Type /\ Kinds' = Kinds /\ machine.board[slot] = Type
         /\ Disk(Type) \/ Floppy(Type) \/ Tape(Type)
         /\ FirstInOrder'
<1>1. /\ machine' = machine /\ media' = media /\ ctl' = ctl /\ round' = round
      /\ slot' = slot /\ pos' = pos /\ pc \in Trying /\ pc' \in Trying \cup {"done"}
  BY DEF InitFails, InitBoard, NoMoreUnits, SkipDrive, Select, DiskRead, Geometry, DriveReadAgain,
     DriveGone, DriveRead, TapeRead, Refuse, hardware, Trying
<1>2. Type' = Type /\ Kinds' = Kinds
  BY <1>1, SameSearch
<1>3. machine.board[slot] = Type
  BY <1>1 DEF OInv, IInv, NamesUnit
<1>4. Disk(Type) \/ Floppy(Type) \/ Tape(Type)
  BY ListAt DEF OInv, InPlace, Type, Disk, Floppy, Tape
<1>5. FirstInOrder'
  BY <1>1 DEF FirstInOrder, Trying
<1> QED
  BY <1>1, <1>2, <1>3, <1>4, <1>5

LEMMA InitFailsOrder ==
  ASSUME OInv, InitFails
  PROVE  InPlace' /\ Steady' /\ NonePassed' /\ FirstInOrder'
<1>0. /\ machine' = machine /\ media' = media /\ ctl' = ctl /\ round' = round
      /\ slot' = slot /\ pos' = pos /\ FirstInOrder'
  BY TryOrder
<1>1. pc = "init" /\ pc' = "done" /\ InitResult # {}
  BY DEF InitFails
<1>2. ASSUME NEW d, Owed(d), Place(d) = pos, d[1] = slot
      PROVE  FALSE
  <2>1. /\ Bootable(d) /\ d = <<slot, d[2]>> /\ Valid(d[2]) /\ d[2] \in UnitsOf(Type)
        /\ d \in DOMAIN media /\ machine.board[slot] = Type /\ machine \in Machines
    BY <1>2, OwedIs, OwedHere DEF OInv, IInv
  <2>2. ctl[slot] = {} /\ media[d] # NoMedium
    BY <1>2, <2>1 DEF Bootable
  <2>3. Type = "65" /\ UnitTable[0] = 0
    BY <1>1, <2>2 DEF InitResult
  <2>4. d = <<slot, 0>> /\ machine.kind[d] = 1
    BY <1>2, <2>1, <2>3, UnitIs DEF UnitsOf, Valid
  <2> QED
    BY <2>1, <2>2, <2>3, <2>4 DEF UnitTable
<1>3. NonePassed'
  BY <1>0, <1>1, <1>2, StillAhead DEF Searching, Trying
<1>4. InPlace' /\ Steady'
  BY <1>0, <1>1 DEF OInv, InPlace, Steady, Trying, Bootable
<1> QED
  BY <1>0, <1>3, <1>4

LEMMA InitBoardOrder ==
  ASSUME OInv, InitBoard
  PROVE  InPlace' /\ Steady' /\ NonePassed' /\ FirstInOrder'
<1>0. /\ machine' = machine /\ media' = media /\ ctl' = ctl /\ round' = round
      /\ slot' = slot /\ pos' = pos /\ Type' = Type /\ Kinds' = Kinds
      /\ machine.board[slot] = Type /\ machine \in Machines
      /\ Disk(Type) \/ Floppy(Type) \/ Tape(Type)
      /\ FirstInOrder'
  BY TryOrder DEF OInv, IInv
<1>1. pc = "init" /\ pc' = "unit" /\ todo' = UnitsToTry
  BY DEF InitBoard
<1>2. ASSUME Disk(Type), NEW u \in UnitsToTry
      PROVE  Valid(u) /\ u \in UnitsOf(Type) /\ machine.kind[<<slot, u>>] \in Range(Kinds)
  <2>1. u \in 0 .. 7 /\ UnitTable[u] \in Range(Kinds)
    BY <1>2 DEF UnitsToTry
  <2>2. 0 \notin Range(Kinds)
    BY KindsIn DEF OInv, InPlace, Kinds
  <2>3. <<slot, u>> \in DOMAIN media /\ UnitTable[u] = machine.kind[<<slot, u>>]
    BY <2>1, <2>2 DEF UnitTable
  <2>4. Valid(u)
    BY <2>3 DEF OInv, Steady, Valid
  <2> QED
    BY <1>0, <2>1, <2>3, <2>4, UnitIs DEF Valid
<1>3. UnitsToTry \subseteq UnitsOf(Type)
  BY <1>0, <1>2 DEF UnitsToTry, UnitsOf, Disk, Floppy, Tape
<1>4. InPlace'
  <2>1. \A u : Valid(u)' <=> Valid(u)
    BY <1>0, SameSearch
  <2> QED
    BY <1>0, <1>1, <1>2, <1>3, <2>1 DEF OInv, InPlace, Trying
<1>5. Steady'
  BY <1>0, <1>1 DEF OInv, Steady, Bootable
<1>6. ASSUME NEW d, Owed(d), Place(d) = pos, d[1] = slot
      PROVE  InHand(d[2])'
  <2>1. /\ Bootable(d) /\ d = <<slot, d[2]>> /\ Valid(d[2]) /\ d[2] \in UnitsOf(Type)
        /\ Disk(Type) => machine.kind[<<slot, d[2]>>] \in Range(Kinds)
        /\ d \in DOMAIN media
    BY <1>6, OwedIs, OwedHere
  <2>2. d[2] \in UnitsToTry
    <3>1. CASE Disk(Type)
      <4>1. d[2] \in 0 .. 7
        BY <1>0, <2>1, UnitIs DEF Valid
      <4>2. UnitTable[d[2]] = machine.kind[<<slot, d[2]>>]
        BY <2>1, <4>1 DEF UnitTable, Bootable
      <4> QED
        BY <2>1, <3>1, <4>1, <4>2 DEF UnitsToTry
    <3>2. CASE Floppy(Type)
      BY <2>1, <3>2 DEF UnitsToTry, UnitsOf, Disk, Floppy
    <3>3. CASE Tape(Type)
      BY <2>1, <3>3 DEF UnitsToTry, UnitsOf, Disk, Floppy, Tape
    <3> QED
      BY <1>0, <3>1, <3>2, <3>3
  <2> QED
    BY <1>1, <2>2 DEF InHand
<1> QED
  BY <1>0, <1>1, <1>4, <1>5, <1>6, StillAhead DEF Searching, Trying

LEMMA UnitsOrder ==
  ASSUME OInv, NoMoreUnits \/ SkipDrive
  PROVE  InPlace' /\ Steady' /\ NonePassed' /\ FirstInOrder'
<1>0. /\ machine' = machine /\ media' = media /\ ctl' = ctl /\ round' = round
      /\ slot' = slot /\ pos' = pos /\ Type' = Type /\ Kinds' = Kinds /\ FirstInOrder'
  BY TryOrder
<1>1. /\ pc = "unit" /\ pc' \in {"unit", "done"} /\ todo' \subseteq todo
      /\ \A u \in todo : Ready(u) => u \in todo' /\ pc' = "unit"
  BY DEF NoMoreUnits, SkipDrive
<1>2. InPlace'
  <2>1. \A u : Valid(u)' <=> Valid(u)
    BY <1>0, SameSearch
  <2> QED
    BY <1>0, <1>1, <2>1 DEF OInv, InPlace, Trying
<1>3. Steady'
  BY <1>0, <1>1 DEF OInv, Steady, Bootable
<1>4. ASSUME NEW d, Owed(d), Place(d) = pos, d[1] = slot, InHand(d[2])
      PROVE  InHand(d[2])'
  <2>1. d[2] \in todo /\ Ready(d[2])
    BY <1>1, <1>4, OwedHere DEF InHand
  <2> QED
    BY <1>1, <2>1 DEF InHand
<1> QED
  BY <1>0, <1>1, <1>2, <1>3, <1>4, StillAhead DEF Searching, Trying

LEMMA SelectOrder ==
  ASSUME OInv, Select
  PROVE  InPlace' /\ Steady' /\ NonePassed' /\ FirstInOrder'
<1>0. /\ machine' = machine /\ media' = media /\ ctl' = ctl /\ round' = round
      /\ slot' = slot /\ pos' = pos /\ Type' = Type /\ Kinds' = Kinds
      /\ machine.board[slot] = Type /\ machine \in Machines
      /\ Disk(Type) \/ Floppy(Type) \/ Tape(Type)
      /\ FirstInOrder'
  BY TryOrder DEF OInv, IInv
<1>1. PICK u \in todo :
        /\ pc = "unit" /\ pc' = "read" /\ Upcoming(u) /\ Ready(u)
        /\ todo' = todo \ {u} /\ named' = [named EXCEPT !.unit = Number(u)]
  BY DEF Select
<1>2. u \in UnitsOf(Type) /\ u \in Int
  BY <1>1 DEF OInv, InPlace, Trying, UnitsOf
<1>3. Unit' = <<slot, u>>
  <2>1. named'.unit = Number(u)
    BY <1>1 DEF OInv, IInv, NamesUnit
  <2> QED
    BY <1>0, <1>2, <2>1 DEF Unit, Number, Disk
<1>4. Valid(u) /\ (Disk(Type) => machine.kind[<<slot, u>>] \in Range(Kinds))
  <2>1. CASE Disk(Type)
    BY <1>1, <2>1 DEF OInv, InPlace, Trying
  <2>2. CASE Floppy(Type)
    BY <1>1, <2>2 DEF Ready, OInv, Steady, Valid, Floppy, Disk
  <2>3. CASE Tape(Type)
    <3>1. u = 1 /\ slot \in DOMAIN machine.board /\ machine.board[slot] = "E6"
      BY <1>0, <1>2, <2>3 DEF UnitsOf, Tape, OInv, InPlace
    <3> QED
      BY <1>0, <2>3, <3>1, MachinesAre DEF Valid, Tape, Disk
  <2> QED
    BY <1>0, <2>1, <2>2, <2>3
<1>5. Tape(Type) => todo' = {}
  BY <1>1, <1>2 DEF OInv, InPlace, Trying, Tape, UnitsOf
<1>6. InPlace'
  <2>1. \A x : Turn(x)' = Turn(x) /\ (Valid(x)' <=> Valid(x))
    BY <1>0, SameSearch
  <2>2. Unit'[2] = u /\ \A w \in todo' : Turn(Unit'[2]) <= Turn(w)
    BY <1>1, <1>3 DEF Upcoming
  <2>3. Turn(Unit[2])' = Turn(u)
    <3>1. Unit[2]' = u
      BY <1>3
    <3> QED
      BY <1>0, <3>1 DEF Turn, Floppy, Tape
  <2>4. \A w \in todo' : Turn(Unit[2])' <= Turn(w)'
    BY <2>1, <2>2, <2>3, <1>3
  <2>5. /\ Unit' \in DOMAIN machine'.kind
        /\ Disk(Type)' => machine'.kind[Unit'] \in Range(Kinds)'
    BY <1>0, <1>3, <1>4 DEF Valid, Disk
  <2>6. /\ todo' \subseteq UnitsOf(Type)
        /\ Disk(Type) => \A x \in todo' : Valid(x) /\ machine.kind[<<slot, x>>] \in Range(Kinds)
    BY <1>1 DEF OInv, InPlace, Trying
  <2>7. /\ (todo \subseteq UnitsOf(Type))'
        /\ Disk(Type)' => \A x \in todo' : Valid(x)' /\ (machine.kind[<<slot, x>>] \in Range(Kinds))'
    BY <1>0, <2>1, <2>6 DEF Disk, UnitsOf
  <2> QED
    BY <1>0, <1>1, <1>5, <2>4, <2>5, <2>7 DEF OInv, InPlace, Tape
<1>7. Steady'
  BY <1>0, <1>1 DEF OInv, Steady, Bootable
<1>8. ASSUME NEW d, Owed(d), Place(d) = pos, d[1] = slot, InHand(d[2])
      PROVE  InHand(d[2])'
  <2>1. d[2] \in todo
    BY <1>1, <1>8 DEF InHand
  <2> QED
    BY <1>0, <1>1, <1>3, <2>1 DEF InHand
<1> QED
  BY <1>0, <1>1, <1>6, <1>7, <1>8, StillAhead DEF Searching, Trying

\* A unit that is owed and that is being tried is read and is not refused.
LEMMA TriedUnit ==
  ASSUME OInv, pc \in {"read", "geometry", "check"}, Unit \in round.steady
  PROVE  /\ media[Unit] # NoMedium /\ media[Unit].holds = "system" /\ ctl[slot] = {}
         /\ ReadFault = {} \/ (Floppy(Type) /\ ReadFault = {6})
         /\ Loaded.holds = "system"
<1>1. Bootable(Unit) /\ Unit[1] = slot /\ machine.board[slot] = Type
  BY DEF OInv, IInv, NamesUnit, Steady, Unit, Trying
<1>2. media[Unit] # NoMedium /\ media[Unit].holds = "system" /\ ctl[slot] = {}
  BY <1>1 DEF Bootable
<1>3. ReadFault = {} \/ (Floppy(Type) /\ ReadFault = {6})
  BY <1>1 DEF Bootable, ReadFault
<1>4. Loaded.holds = "system"
  BY <1>2 DEF Loaded
<1> QED
  BY <1>2, <1>3, <1>4

\* A step of a handler that reads or looks at a unit: it stays with the unit, or
\* leaves it if nothing can be booted from it.
LEMMA StayOrder ==
  ASSUME OInv, DiskRead \/ Geometry \/ DriveReadAgain \/ DriveGone \/ DriveRead \/ TapeRead \/ Refuse,
         pc \in {"read", "geometry", "check"}, todo' = todo, Unit' = Unit,
         pc' \in {"unit", "read", "geometry", "check", "done"},
         pc' \in {"unit", "done"} => Unit \notin round.steady,
         pc' = "done" => todo = {},
         pc' \in {"geometry", "check"} /\ Unit \in round.steady => buf'.holds = "system"
  PROVE  InPlace' /\ Steady' /\ NonePassed' /\ FirstInOrder'
<1>0. /\ machine' = machine /\ media' = media /\ ctl' = ctl /\ round' = round
      /\ slot' = slot /\ pos' = pos /\ Type' = Type /\ Kinds' = Kinds /\ FirstInOrder'
  BY TryOrder
<1>1. InPlace'
  <2>1. \A u : Turn(u)' = Turn(u) /\ (Valid(u)' <=> Valid(u))
    BY <1>0, SameSearch
  <2>2. Turn(Unit[2])' = Turn(Unit[2])
    BY <1>0 DEF Turn, Floppy, Tape
  <2> QED
    BY <1>0, <2>1, <2>2 DEF OInv, InPlace, Trying
<1>2. Steady'
  BY <1>0 DEF OInv, Steady, Bootable
<1>3. ASSUME NEW d, Owed(d), Place(d) = pos, d[1] = slot, InHand(d[2])
      PROVE  InHand(d[2])'
  <2>1. d[2] \in todo \/ <<slot, d[2]>> = Unit
    BY <1>3 DEF InHand
  <2>2. <<slot, d[2]>> \in round.steady
    BY <1>3, OwedHere DEF Owed
  <2> QED
    BY <1>0, <2>1, <2>2 DEF InHand
<1> QED
  BY <1>0, <1>1, <1>2, <1>3, StillAhead DEF Searching, Trying

LEMMA DiskOrder ==
  ASSUME OInv, DiskRead \/ Geometry
  PROVE  InPlace' /\ Steady' /\ NonePassed' /\ FirstInOrder'
<1>0. slot' = slot /\ Type' = Type
  BY TryOrder
<1>1. todo' = todo /\ named' = named
  BY DEF DiskRead, Geometry
<1>2. Unit' = Unit
  BY <1>0, <1>1 DEF Unit
<1>3. CASE DiskRead
  <2>1. /\ pc = "read" /\ ~Floppy(Type) /\ buf' = Loaded
        /\ pc' = (IF ReadFault = {} THEN "geometry" ELSE "unit")
    BY <1>3 DEF DiskRead, Disk, Floppy
  <2> QED
    BY <1>1, <1>2, <1>3, <2>1, TriedUnit, StayOrder
<1>4. CASE Geometry
  <2>1. /\ pc = "geometry" /\ buf' = buf /\ pc' \in {"unit", "check"}
        /\ pc' = "unit" => ctl[slot] # {} \/ media[Unit] = NoMedium
    BY <1>4 DEF Geometry
  <2>2. Unit \in round.steady => buf'.holds = "system"
    BY <2>1 DEF OInv, Steady
  <2> QED
    BY <1>1, <1>2, <1>4, <2>1, <2>2, TriedUnit, StayOrder
<1> QED
  BY <1>3, <1>4

LEMMA DriveOrder ==
  ASSUME OInv, DriveReadAgain \/ DriveGone \/ DriveRead
  PROVE  InPlace' /\ Steady' /\ NonePassed' /\ FirstInOrder'
<1>0. slot' = slot /\ Type' = Type
  BY TryOrder
<1>1. todo' = todo /\ named' = named /\ pc = "read"
  BY DEF DriveReadAgain, DriveGone, DriveRead
<1>2. Unit' = Unit
  BY <1>0, <1>1 DEF Unit
<1>3. CASE DriveReadAgain
  BY <1>1, <1>2, <1>3, StayOrder DEF DriveReadAgain
<1>4. CASE DriveGone
  <2>1. ReadFault = {9} /\ pc' = "unit"
    BY <1>4 DEF DriveGone
  <2> QED
    BY <1>1, <1>2, <1>4, <2>1, TriedUnit, StayOrder
<1>5. CASE DriveRead
  <2>1. buf' = Loaded /\ pc' = (IF ReadFault \ {6} = {} THEN "check" ELSE "unit")
    BY <1>5 DEF DriveRead
  <2>2. Unit \in round.steady => ReadFault \ {6} = {}
    BY <1>1, TriedUnit
  <2> QED
    BY <1>1, <1>2, <1>5, <2>1, <2>2, TriedUnit, StayOrder
<1> QED
  BY <1>3, <1>4, <1>5

LEMMA TapeReadOrder ==
  ASSUME OInv, TapeRead
  PROVE  InPlace' /\ Steady' /\ NonePassed' /\ FirstInOrder'
<1>0. slot' = slot /\ Type' = Type
  BY TryOrder
<1>1. /\ pc = "read" /\ Tape(Type) /\ todo' = todo /\ buf' = Loaded
      /\ pc' = (IF ReadFault = {} THEN "check" ELSE "done")
      /\ named' = [named EXCEPT !.slot = TapeBoard] \/ named' = named
  BY DEF TapeRead
<1>2. named'.unit = named.unit
  BY <1>1 DEF OInv, IInv, NamesUnit
<1>3. Unit' = Unit
  BY <1>0, <1>2 DEF Unit
<1>4. todo = {}
  BY <1>1 DEF OInv, InPlace
<1> QED
  BY <1>1, <1>3, <1>4, TriedUnit, StayOrder DEF Tape, Floppy

LEMMA RefuseOrder ==
  ASSUME OInv, Refuse
  PROVE  InPlace' /\ Steady' /\ NonePassed' /\ FirstInOrder'
<1>0. slot' = slot /\ Type' = Type
  BY TryOrder
<1>1. /\ pc = "check" /\ buf.holds # "system" /\ todo' = todo
      /\ pc' = (IF Tape(Type) THEN "done" ELSE "unit")
      /\ named' = [named EXCEPT !.slot = slot]
  BY DEF Refuse
<1>2. named'.unit = named.unit
  BY <1>1 DEF OInv, IInv, NamesUnit
<1>3. Unit' = Unit
  BY <1>0, <1>2 DEF Unit
<1>4. Unit \notin round.steady
  BY <1>1 DEF OInv, Steady
<1>5. Tape(Type) => todo = {}
  BY <1>1 DEF OInv, InPlace
<1> QED
  BY <1>1, <1>3, <1>4, <1>5, StayOrder

\* The unit that is booted comes before all that the search has not passed.
LEMMA BootOrder ==
  ASSUME OInv, Boot
  PROVE  InPlace' /\ Steady' /\ NonePassed' /\ FirstInOrder'
<1>1. /\ machine' = machine /\ media' = media /\ ctl' = ctl /\ round' = round
      /\ slot' = slot /\ pos' = pos /\ pc = "check" /\ pc' = "booted"
      /\ buf' = buf /\ buf.holds = "system"
  BY DEF Boot, hardware
<1>2. InPlace' /\ Steady' /\ NonePassed'
  BY <1>1 DEF OInv, InPlace, Steady, NonePassed, Searching, Trying, Bootable
<1>3. /\ machine \in Machines /\ pos \in 1 .. 6 /\ machine.board[slot] = Type
      /\ Unit \in DOMAIN machine.kind /\ buf.from = Unit /\ Unit[1] = slot
      /\ Disk(Type) => machine.kind[Unit] \in Range(Kinds)
      /\ \A u \in todo : Turn(Unit[2]) <= Turn(u)
  BY <1>1 DEF OInv, IInv, NamesUnit, InPlace, Trying, Unit
<1>4. Place(Unit) = pos
  BY <1>3, TriedHasPlace DEF Type, Kinds
<1>5. Unit = <<slot, Unit[2]>>
  BY DEF Unit
<1>6. ASSUME NEW d, Owed(d)
      PROVE  Rank(d) >= Rank(Unit)
  <2>1. d \in DOMAIN machine.kind /\ Ahead(d)
    BY <1>1, <1>6, OwedIs DEF OInv, NonePassed, Owed, Searching, Trying
  <2>2. CASE Place(d) > pos
    BY <1>3, <1>4, <2>1, <2>2, RankGrows
  <2>3. CASE Place(d) = pos /\ d[1] > slot
    BY <1>3, <1>4, <2>1, <2>3, RankGrows
  <2>4. CASE Place(d) = pos /\ d[1] = slot /\ d[2] \in todo
    <3>1. /\ d = <<slot, d[2]>> /\ Valid(d[2])
          /\ Disk(Type) => machine.kind[<<slot, d[2]>>] \in Range(Kinds)
      BY <1>6, <2>4, OwedHere
    <3>2. Turn(Unit[2]) <= Turn(d[2]) /\ Valid(Unit[2])
      BY <1>3, <1>5, <2>4 DEF Valid
    <3>3. Late(<<slot, Unit[2]>>) <= Late(<<slot, d[2]>>)
      BY <1>3, <1>5, <3>1, <3>2, TurnIsLate
    <3>4. Late(Unit) \in Int /\ Late(d) \in Int
      BY <1>3, <2>1, RankIs
    <3>5. Late(d) >= Late(Unit)
      BY <1>5, <3>1, <3>3, <3>4
    <3> QED
      BY <1>3, <1>4, <2>1, <2>4, <3>5, RankGrows
  <2>5. CASE Place(d) = pos /\ d[1] = slot /\ <<slot, d[2]>> = Unit
    <3>1. d = Unit
      BY <1>6, <2>5, OwedHere
    <3> QED
      BY <1>3, <3>1, RankIs, RankGrows
  <2> QED
    BY <1>1, <2>1, <2>2, <2>3, <2>4, <2>5 DEF Ahead, InHand
<1>7. FirstInOrder'
  <2>1. \A d : (Owed(d)' <=> Owed(d)) /\ Rank(d)' = Rank(d)
    BY <1>1, SameSearch, SameMachine DEF Owed, Reached
  <2>2. Rank(buf.from)' = Rank(Unit)
    BY <1>1, <1>3 DEF Rank, Place, Floppy
  <2> QED
    BY <1>6, <2>1, <2>2 DEF FirstInOrder, Owed
<1> QED
  BY <1>2, <1>7

LEMMA ChangeOrder ==
  ASSUME OInv, Change
  PROVE  InPlace' /\ Steady' /\ NonePassed' /\ FirstInOrder'
<1>1. /\ UNCHANGED <<machine, pc, pos, slot, todo, named, buf>> /\ pc # "booted"
      /\ DOMAIN media' = DOMAIN media
      /\ round' = [round EXCEPT !.steady = {d \in @ : Bootable(d)'}]
  BY DEF Change
<1>2. round' = [isl |-> round.isl, steady |-> {d \in round.steady : Bootable(d)'}]
  BY <1>1 DEF OInv, Steady
<1>3. /\ Type' = Type /\ Kinds' = Kinds /\ Unit' = Unit
      /\ \A u : Turn(u)' = Turn(u) /\ (Valid(u)' <=> Valid(u))
      /\ \A d : Place(d)' = Place(d) /\ (Listed(d)' <=> Listed(d))
  BY <1>1, SameSearch DEF Unit, Disk
<1>4. InPlace'
  <2>1. Turn(Unit[2])' = Turn(Unit[2])
    BY <1>1, <1>3 DEF Turn, Floppy, Tape
  <2> QED
    BY <1>1, <1>3, <2>1 DEF OInv, InPlace
<1>5. Steady'
  BY <1>1, <1>2, <1>3 DEF OInv, Steady
<1>6. NonePassed'
  <2>1. \A d : Owed(d)' => Owed(d)
    BY <1>2, <1>3 DEF Owed, Reached
  <2>2. \A d : Ahead(d)' <=> Ahead(d)
    BY <1>1, <1>3 DEF Ahead, InHand
  <2> QED
    BY <1>1, <1>2, <2>1, <2>2 DEF OInv, NonePassed, Owed
<1> QED
  BY <1>1, <1>4, <1>5, <1>6 DEF FirstInOrder

LEMMA StutterOrder ==
  ASSUME OInv, UNCHANGED vars
  PROVE  InPlace' /\ Steady' /\ NonePassed' /\ FirstInOrder'
<1>1. /\ UNCHANGED <<machine, media, ctl, pc, pos, slot, todo, named, buf, round>>
  BY DEF vars, hardware
<1>2. /\ Type' = Type /\ Kinds' = Kinds /\ Unit' = Unit
      /\ \A u : Turn(u)' = Turn(u) /\ (Valid(u)' <=> Valid(u))
      /\ \A d : Place(d)' = Place(d) /\ (Listed(d)' <=> Listed(d)) /\ Rank(d)' = Rank(d)
  BY <1>1, SameSearch DEF Unit, Disk
<1>3. InPlace'
  <2>1. Turn(Unit[2])' = Turn(Unit[2])
    BY <1>1, <1>2 DEF Turn, Floppy, Tape
  <2> QED
    BY <1>1, <1>2, <2>1 DEF OInv, InPlace
<1>4. Steady'
  BY <1>1, <1>2 DEF OInv, Steady, Bootable
<1>5. NonePassed'
  BY <1>1, <1>2 DEF OInv, NonePassed, Owed, Reached, Ahead, InHand
<1>6. FirstInOrder'
  <2>1. Rank(buf.from)' = Rank(buf.from)
    BY <1>1 DEF Rank, Place, Floppy
  <2> QED
    BY <1>1, <1>2, <2>1 DEF OInv, FirstInOrder, Reached
<1> QED
  BY <1>3, <1>4, <1>5, <1>6

LEMMA NextOrder == OInv /\ [Next]_vars => OInv'
<1> SUFFICES ASSUME OInv, [Next]_vars
             PROVE  OInv'
  OBVIOUS
<1>1. IInv'
  BY NextStep DEF OInv
<1>2. InPlace' /\ Steady' /\ NonePassed' /\ FirstInOrder'
  BY StartRoundOrder, BetweenOrder, CallOrder, InitFailsOrder, InitBoardOrder, UnitsOrder,
     SelectOrder, DiskOrder, DriveOrder, TapeReadOrder, RefuseOrder, BootOrder, ChangeOrder,
     StutterOrder DEF Next, Search
<1> QED
  BY <1>1, <1>2 DEF OInv

\* The machine boots from the first unit it can: none that comes earlier in the
\* order of the types, slots and units, and that could be booted from ever since
\* the round began, is passed over.
THEOREM FirstUnitBoots == Spec => []FirstInOrder
<1>1. Init => OInv
  BY InitIInv, InitOrder DEF OInv
<1>2. OInv => FirstInOrder
  BY DEF OInv
<1> QED
  BY <1>1, <1>2, NextOrder, PTL DEF Spec
==============================================================================
