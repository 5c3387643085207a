----------------------------- MODULE BootSearch -----------------------------
(***************************************************************************)
(* IPL device search and load of the boot ROM REL 6.0, 0x065c to 0x098c of  *)
(* re/disassembly/m40-rom/m40rom-6.0.s, stock or with the list and handler  *)
(* that tools/mkrom_hd65.py patches in.  The ROM goes round a list of board *)
(* types; for every board of the type, in slot order, a handler initialises *)
(* it, reads the first block of its units into segment 60 and jumps into    *)
(* the block if it begins with SYS0.  Media are changed, boards fail and    *)
(* recover and the ISL switch is turned while the search runs.              *)
(*                                                                          *)
(* r7, the result of every routine, is the set of its bits; 0x302 holds a   *)
(* slot and 0x303 a unit.  The search is the only program: what runs beside *)
(* it is the timer interrupt that makes codes blink, and it is left out.    *)
(***************************************************************************)
EXTENDS Integers, Sequences, FiniteSetsExt, Functions

CONSTANTS
  Machines,    \* records: patched (the GO363 ROM or the stock one), board (the
               \* type in every slot) and kind (of every unit, by slot and unit:
               \* type in the board's unit table, 0 for drives)
  UnitMedia,   \* what units hold: fault, the result of reading the first
               \* block, and holds, what the read leaves in memory
  DriveMedia,  \* the same for the drives of E1 and E0
  NoMedium,    \* nothing in the drive, no unit
  Faults,      \* results of initialising a board that fails
  Tries,       \* what 0x2fc starts with (7)
  MaxChanges   \* bound: changes of media, boards and the switch

\* The units a board can have: drives 0 to 3, unit 1 of the tape, unit 0 of the
\* GO363 (hd65_init writes no other one to the unit table), entries 0 to 7.
UnitsOf(type) ==
  CASE type \in {"E1", "E0"} -> 0 .. 3
    [] type = "E6"           -> {1}
    [] type = "65"           -> {0}
    [] type \in {"E4", "EF"} -> 0 .. 7
    [] OTHER                 -> {}

ASSUME MachinesAre ==
  \A m \in Machines :
    /\ \E n \in 0 .. 15 : DOMAIN m.board = 0 .. n
    /\ \A d \in DOMAIN m.kind :
         /\ d[1] \in DOMAIN m.board /\ d[2] \in UnitsOf(m.board[d[1]])
         /\ d = <<d[1], d[2]>>
         /\ m.kind[d] \in CASE m.board[d[1]] \in {"E4", "EF"} -> 0 .. 5
                           [] m.board[d[1]] = "65"           -> {1}
                           [] OTHER                          -> {0}
    /\ \A s \in DOMAIN m.board : m.board[s] = "E6" => <<s, 1>> \in DOMAIN m.kind
ASSUME TriesNat == Tries \in Nat /\ MaxChanges \in Nat
ASSUME MediaAre == /\ UnitMedia \cup DriveMedia \subseteq
                        [fault : SUBSET (0 .. 9),
                         holds : {"system", "other", "nothing"}]
                   /\ NoMedium \notin UnitMedia \cup DriveMedia
ASSUME FaultsAre == Faults \subseteq SUBSET (0 .. 9) /\ {} \notin Faults

VARIABLES
  machine,   \* the machine
  looping,   \* bit 3 of a drive board's port 0xED is clear: read again and again
  media,     \* what is in every unit
  ctl,       \* the result of initialising the board in every slot
  isl,       \* bit 1 of port 0xFF41: hard disks first
  changes,   \* changes so far
  pc,        \* where the search is
  pos,       \* r9, the place in the list of types
  slot,      \* r1, the entry of the configuration table
  todo,      \* the units the handler has still to try
  named,     \* 0x302 and 0x303, the slot and the unit
  buf,       \* segment 60: the unit it was read from and what it holds
  tries,     \* 0x2fc
  called,    \* 0x2fd: some handler was called
  status,    \* 0x308, the code shown to the operator
  round      \* for the properties: the switch as this round read it and the
             \* units that can be booted from ever since

hardware == <<machine, looping, media, ctl, isl, changes>>
vars == <<hardware, pc, pos, slot, todo, named, buf, tries, called, status, round>>

------------------------------------------------------------------------------
(* The tables of the ROM. *)

\* L_06e6
List == <<IF machine.patched THEN "65" ELSE "E4", "EF", "E1", "E0", "E6", "EF">>

Type == List[pos]

Floppy(t) == t \in {"E1", "E0"}
Tape(t)   == t = "E6"
Disk(t)   == t \in {"65", "E4", "EF"}

\* Where the round begins: L_06e8, past the hard disks, if the switch is off.
ListStart == IF isl THEN 1 ELSE 3

\* The unit types a disk handler goes through: L_0706, 0x070b, hd65_list.
KindsAt(p) ==
  IF p = 6 \/ (p = 1 /\ machine.patched) THEN <<1>> ELSE <<5, 4, 3, 2>>

Kinds == KindsAt(pos)

\* The unit table 0x270 as an initialisation fills it now.
UnitTable ==
  [u \in 0 .. 7 |-> IF <<slot, u>> \in DOMAIN media /\ media[<<slot, u>>] # NoMedium
                    THEN machine.kind[<<slot, u>>] ELSE 0]

\* The units that the loops of a handler come to: those of the table that have
\* one of its types, all four drives, unit 1 of the tape.
UnitsToTry ==
  IF Disk(Type) THEN {u \in 0 .. 7 : UnitTable[u] \in Range(Kinds)}
  ELSE IF Floppy(Type) THEN 0 .. 3 ELSE {1}

\* Mutant of Turn: unit by unit, whatever the type.
TurnByNumber(u) == IF Floppy(Type) THEN (u + 3) % 4 ELSE u

\* When it is a unit's turn.  L_0756 goes through the types and for each through
\* the table; drives are counted with inc r1,#0x1 and r1,#0x3 from 0 back to 0.
Turn(u) ==
  IF Floppy(Type) THEN (u + 3) % 4
  ELSE IF Tape(Type) THEN u
  ELSE 8 * (CHOOSE k \in DOMAIN Kinds : Kinds[k] = machine.kind[<<slot, u>>]) + u

\* u is the next one.
Upcoming(u) == u \in todo /\ \A w \in todo : Turn(u) <= Turn(w)

\* Units of a board with a table are counted from 1 in 0x303.
Number(u) == IF Disk(Type) THEN u + 1 ELSE u

Unit == <<slot, IF Disk(Type) THEN named.unit - 1 ELSE named.unit>>

------------------------------------------------------------------------------
(* The code shown: one digit, or X with the slot and the unit. *)

Digit(bits)  == [x |-> bits, slot |-> -1, unit |-> -1]
Enumerating  == Digit({2})       \* 0x4444
Waiting      == Digit({0, 2})    \* 0x5555
Blank        == Digit({})        \* 0xffff

\* 0x0d10
Shown(r7, at) ==
  IF r7 = {} THEN Blank
  ELSE [x |-> r7 \cap (0 .. 3), slot |-> at.slot, unit |-> at.unit]

\* 0x0dc6: only a result with one of the low three bits is shown.
Reported(r7, at) == IF r7 \cap (0 .. 2) = {} THEN status ELSE Shown(r7, at)

------------------------------------------------------------------------------

Cleared == [from |-> <<-1, -1>>, holds |-> "nothing"]

\* The result of reading the first block of the unit, and the buffer after it.
ReadFault ==
  IF media[Unit] # NoMedium THEN media[Unit].fault
  ELSE IF Floppy(Type) THEN {9} ELSE {1}

Loaded ==
  IF media[Unit] = NoMedium \/ media[Unit].holds = "nothing" THEN buf
  ELSE [from |-> Unit, holds |-> media[Unit].holds]

MediaFor(d) ==
  {NoMedium} \cup IF Floppy(machine.board[d[1]]) THEN DriveMedia ELSE UnitMedia

MediaAllowed(x) == \A d \in DOMAIN machine.kind : x[d] \in MediaFor(d)

\* A unit that boots when the search comes to it.
Bootable(d) ==
  /\ media[d] # NoMedium
  /\ media[d].holds = "system"
  /\ media[d].fault = {} \/ (Floppy(machine.board[d[1]]) /\ media[d].fault = {6})
  /\ ctl[d[1]] = {}

Init ==
  /\ machine \in Machines
  /\ looping \in {FALSE} \cup {\E s \in DOMAIN machine.board : Floppy(machine.board[s])}
  /\ media \in {x \in [DOMAIN machine.kind -> UnitMedia \cup DriveMedia \cup {NoMedium}] :
               MediaAllowed(x)}
  /\ ctl = [s \in DOMAIN machine.board |-> {}]
  /\ isl \in BOOLEAN
  /\ changes = 0
  /\ pc = "round" /\ pos = 1 /\ slot = 0 /\ todo = {}
  /\ named = [slot |-> 0, unit |-> 0]
  /\ buf = Cleared
  /\ tries = Tries /\ called = FALSE /\ status = Enumerating
  /\ round = [isl |-> isl, steady |-> {}]

\* L_065c: the switch is read once per round.
StartRound ==
  /\ pc = "round"
  /\ pc' = "scan" /\ pos' = ListStart /\ slot' = 0
  /\ round' = [isl |-> isl, steady |-> {d \in DOMAIN media : Bootable(d)}]
  /\ UNCHANGED <<hardware, todo, named, buf, tries, called, status>>

NextSlot ==
  /\ slot + 1 \in DOMAIN machine.board
  /\ pc' = "scan" /\ slot' = slot + 1
  /\ UNCHANGED <<pos, status>>

NextType ==
  /\ slot + 1 \notin DOMAIN machine.board
  /\ pos < Len(List)
  /\ pc' = "scan" /\ slot' = 0 /\ pos' = pos + 1
  /\ UNCHANGED status

\* Mutant of EndRound: 8 is shown after every round.
EndRoundAlwaysEight ==
  /\ slot + 1 \notin DOMAIN machine.board
  /\ pos = Len(List)
  /\ pc' = "round"
  /\ status' = Shown({3}, named)
  /\ UNCHANGED <<slot, pos>>

\* Mutant of EndRound: the next round begins where the switch is not read.
EndRoundAtFloppies ==
  /\ slot + 1 \notin DOMAIN machine.board
  /\ pos = Len(List)
  /\ pc' = "scan" /\ slot' = 0 /\ pos' = 3
  /\ status' = IF status = Waiting THEN Shown({3}, named) ELSE status

\* cp 0x308,#0x5555: the code 8 if no handler has shown anything, and again.
EndRound ==
  /\ slot + 1 \notin DOMAIN machine.board
  /\ pos = Len(List)
  /\ pc' = "round"
  /\ status' = IF status = Waiting THEN Shown({3}, named) ELSE status
  /\ UNCHANGED <<slot, pos>>

\* L_06c4
Advance ==
  /\ NextSlot \/ NextType \/ EndRound
  /\ UNCHANGED <<hardware, todo, named, buf, tries, called, round>>

PassOver ==
  /\ pc = "scan"
  /\ machine.board[slot] # Type
  /\ Advance

\* The first call shows 5.
Call ==
  /\ pc = "scan"
  /\ machine.board[slot] = Type
  /\ pc' = "init"
  /\ named' = [named EXCEPT !.slot = slot]
  /\ status' = IF called THEN status ELSE Waiting
  /\ called' = TRUE
  /\ UNCHANGED <<hardware, pos, slot, todo, buf, tries, round>>

\* L_06b8
Resume ==
  /\ pc = "done"
  /\ tries >= 0
  /\ Advance

\* L_06be: jr mi,L_06be does not test 0x2fc again.
Hang ==
  /\ pc = "done"
  /\ tries < 0
  /\ pc' = "hung"
  /\ UNCHANGED <<hardware, pos, slot, todo, named, buf, tries, called, status, round>>

------------------------------------------------------------------------------
(* The handlers: 0x071c, 0x0732, 0x0738 and hd65_stub for disks (loader     *)
(* L_074c), 0x085e for drives, 0x07ac for the tape.                         *)

\* The tape handler writes unit 1 to 0x303 before it initialises the board.
InitNamed == IF Tape(Type) THEN [named EXCEPT !.unit = 1] ELSE named

\* hd65_init seeks on unit 0; the other boards need no unit.
InitResult ==
  IF ctl[slot] = {} /\ Type = "65" /\ UnitTable[0] = 0 THEN {2} ELSE ctl[slot]

InitFails ==
  /\ pc = "init"
  /\ InitResult # {}
  /\ pc' = "done"
  /\ named' = InitNamed
  /\ status' = Reported(InitResult, InitNamed)
  /\ UNCHANGED <<hardware, pos, slot, todo, buf, tries, called, round>>

InitBoard ==
  /\ pc = "init"
  /\ InitResult = {}
  /\ pc' = "unit"
  /\ named' = InitNamed
  /\ todo' = UnitsToTry
  /\ UNCHANGED <<hardware, pos, slot, buf, tries, called, status, round>>

\* For drives with 0xdc6 once more, for the result shown last.
NoMoreUnits ==
  /\ pc = "unit"
  /\ todo = {}
  /\ pc' = "done"
  /\ UNCHANGED <<hardware, pos, slot, todo, named, buf, tries, called, status, round>>

\* 0x34d: drives that are not ready are passed over, each when its turn comes.
Ready(u) ==
  Floppy(Type) => <<slot, u>> \in DOMAIN media /\ media[<<slot, u>>] # NoMedium

SkipDrive ==
  /\ pc = "unit"
  /\ \E u \in todo : Upcoming(u) /\ ~Ready(u) /\ todo' = todo \ {u}
  /\ UNCHANGED <<hardware, pc, pos, slot, named, buf, tries, called, status, round>>

\* Mutant of Select: the buffer is not cleared.
SelectUncleared ==
  /\ pc = "unit"
  /\ \E u \in todo : /\ Upcoming(u) /\ Ready(u)
                     /\ todo' = todo \ {u}
                     /\ named' = [named EXCEPT !.unit = Number(u)]
  /\ pc' = "read"
  /\ tries' = IF Tape(Type) THEN tries - 2 ELSE tries
  /\ UNCHANGED <<hardware, pos, slot, buf, called, status, round>>

\* L_098c clears the buffer, in a pattern L_08fe knows again.
Select ==
  /\ pc = "unit"
  /\ \E u \in todo : /\ Upcoming(u) /\ Ready(u)
                     /\ todo' = todo \ {u}
                     /\ named' = [named EXCEPT !.unit = Number(u)]
  /\ pc' = "read"
  /\ buf' = Cleared
  /\ tries' = IF Tape(Type) THEN tries - 2 ELSE tries
  /\ UNCHANGED <<hardware, pos, slot, called, status, round>>

DiskRead ==
  /\ pc = "read" /\ Disk(Type)
  /\ buf' = Loaded
  /\ pc' = IF ReadFault = {} THEN "geometry" ELSE "unit"
  /\ status' = Reported(ReadFault, named)
  /\ UNCHANGED <<hardware, pos, slot, todo, named, tries, called, round>>

\* hd65_geom knows the geometry; the others ask the board once more.
Geometry ==
  /\ pc = "geometry"
  /\ LET fails == Type # "65" /\ (ctl[slot] # {} \/ media[Unit] = NoMedium)
     IN  /\ pc' = IF fails THEN "unit" ELSE "check"
         /\ status' = IF fails THEN Reported({1}, named) ELSE status
  /\ UNCHANGED <<hardware, pos, slot, todo, named, buf, tries, called, round>>

\* L_089e: nothing wrong, or nothing in the mask 0x2bb, and bit 3 of 0xED clear.
ReadAgain == looping /\ ReadFault \cap {0, 1, 3, 4, 5, 7, 9} = {}

DriveReadAgain ==
  /\ pc = "read" /\ Floppy(Type)
  /\ ReadAgain
  /\ buf' = Loaded
  /\ status' = Shown(ReadFault, named)
  /\ UNCHANGED <<hardware, pc, pos, slot, todo, named, tries, called, round>>

DriveGone ==
  /\ pc = "read" /\ Floppy(Type)
  /\ ReadFault = {9}
  /\ pc' = "unit"
  /\ UNCHANGED <<hardware, pos, slot, todo, named, buf, tries, called, status, round>>

\* L_08d4 counts the attempt; bit 6 is no error, bit 8 becomes bit 3.
DriveRead ==
  /\ pc = "read" /\ Floppy(Type)
  /\ ~ReadAgain /\ ReadFault # {9}
  /\ buf' = Loaded
  /\ tries' = tries - 1
  /\ LET r7 == ReadFault \ {6}
     IN  /\ pc' = IF r7 = {} THEN "check" ELSE "unit"
         /\ status' = Reported(IF 8 \in r7 THEN (r7 \ {8}) \cup {3} ELSE r7, named)
  /\ UNCHANGED <<hardware, pos, slot, todo, named, called, round>>

\* L_082c: the first board of that type.
BoardOf(t) == {s \in DOMAIN machine.board : machine.board[s] = t}

\* The board the program on tape will find in 0x302: E4, else EF, else the tape's.
TapeBoard ==
  IF BoardOf("E4") # {} THEN Min(BoardOf("E4"))
  ELSE IF BoardOf("EF") # {} THEN Min(BoardOf("EF")) ELSE slot

TapeRead ==
  /\ pc = "read" /\ Tape(Type)
  /\ buf' = Loaded
  /\ IF ReadFault = {}
     THEN /\ pc' = "check"
          /\ named' = [named EXCEPT !.slot = TapeBoard]
          /\ UNCHANGED status
     ELSE /\ pc' = "done"
          /\ status' = Reported(ReadFault, named)
          /\ UNCHANGED named
  /\ UNCHANGED <<hardware, pos, slot, todo, tries, called, round>>

\* L_0926: into the program; blank the display.
Boot ==
  /\ pc = "check"
  /\ buf.holds = "system"
  /\ pc' = "booted"
  /\ status' = Blank
  /\ UNCHANGED <<hardware, pos, slot, todo, named, buf, tries, called, round>>

\* Mutant of Refuse: the tape handler leaves the disk board in 0x302.
RefuseUnrestored ==
  /\ pc = "check"
  /\ buf.holds # "system"
  /\ pc' = IF Tape(Type) THEN "done" ELSE "unit"
  /\ status' = Reported(IF buf.holds = "nothing" THEN {0} ELSE {3}, named)
  /\ UNCHANGED <<hardware, pos, slot, todo, named, buf, tries, called, round>>

\* L_08fe: nothing was read, or no SYS0.  The tape handler puts 0x302 back.
Refuse ==
  /\ pc = "check"
  /\ buf.holds # "system"
  /\ pc' = IF Tape(Type) THEN "done" ELSE "unit"
  /\ named' = [named EXCEPT !.slot = slot]
  /\ status' = Reported(IF buf.holds = "nothing" THEN {0} ELSE {3}, named')
  /\ UNCHANGED <<hardware, pos, slot, todo, buf, tries, called, round>>

Search ==
  \/ StartRound \/ PassOver \/ Call \/ Resume \/ Hang
  \/ InitFails \/ InitBoard
  \/ NoMoreUnits \/ SkipDrive \/ Select
  \/ DiskRead \/ Geometry
  \/ DriveReadAgain \/ DriveGone \/ DriveRead
  \/ TapeRead
  \/ Boot \/ Refuse

------------------------------------------------------------------------------
(* The world around the search. *)

Change ==
  /\ pc # "booted"
  /\ changes < MaxChanges
  /\ changes' = changes + 1
  /\ \/ \E d \in DOMAIN media, x \in UnitMedia \cup DriveMedia \cup {NoMedium} :
          x \in MediaFor(d) /\ media[d] # x /\ media' = [media EXCEPT ![d] = x] /\ UNCHANGED <<ctl, isl>>
     \/ \E s \in DOMAIN ctl, r \in Faults \cup {{}} :
          ctl[s] # r /\ ctl' = [ctl EXCEPT ![s] = r] /\ UNCHANGED <<media, isl>>
     \/ isl' = ~isl /\ UNCHANGED <<media, ctl>>
  /\ UNCHANGED <<machine, looping, pc, pos, slot, todo, named, buf, tries, called, status>>
  /\ round' = [round EXCEPT !.steady = {d \in @ : Bootable(d)'}]

Next == Search \/ Change

Spec == Init /\ [][Next]_vars

\* The processor runs on, whatever is done to the media.
FairSpec == Spec /\ WF_vars(Search)

------------------------------------------------------------------------------
(* Properties. *)

\* Where the search should come to a unit, as doc/HARDWARE.md 6.2 orders the
\* types: hard disks, GIPO, floppies, tape, and the floppies of a GIPO last.
Place(d) ==
  CASE machine.board[d[1]] \in {"65", "E4"} -> 1
    [] machine.board[d[1]] = "EF" -> IF machine.kind[d] = 1 THEN 6 ELSE 2
    [] machine.board[d[1]] = "E1" -> 3
    [] machine.board[d[1]] = "E0" -> 4
    [] machine.board[d[1]] = "E6" -> 5

\* The list has a place for the unit, and the handler there looks at its type: a
\* patched ROM has none for E4 boards, a stock one none for the GO363.
Listed(d) ==
  LET p == Place(d)
  IN  /\ List[p] = machine.board[d[1]]
      /\ Disk(List[p]) => machine.kind[d] \in Range(KindsAt(p))

Rank(d) ==
  LET floppy == Floppy(machine.board[d[1]])
  IN  ((Place(d) * 16 + d[1]) * 8 + (5 - machine.kind[d])) * 8
        + (IF floppy THEN (d[2] + 3) % 4 ELSE d[2])

Reached(d, first) == first \/ Place(d) > 2

\* The machine boots from the first unit it can: nothing that comes earlier in
\* the order the switch stood for when the round began, and that could be
\* booted from ever since, is passed over for it.
FirstInOrder ==
  pc = "booted" =>
    \A d \in round.steady : Listed(d) /\ Reached(d, round.isl) => Rank(d) >= Rank(buf.from)

\* The program that is started came from the unit that 0x302 and 0x303 tell it
\* it came from, never from one read before; from tape, 0x302 names the disk
\* board to install on if the machine has one.
StartsWhatItNames ==
  pc = "booted" =>
    IF Tape(machine.board[buf.from[1]])
    THEN /\ named.unit = buf.from[2]
         /\ \/ machine.board[named.slot] = "E4"
            \/ machine.board[named.slot] = "EF" /\ BoardOf("E4") = {}
            \/ named.slot = buf.from[1] /\ BoardOf("E4") \cup BoardOf("EF") = {}
    ELSE <<named.slot, IF Disk(machine.board[named.slot]) THEN named.unit - 1
                       ELSE named.unit>> = buf.from

\* A code for an error names the board at fault, with 0x302 as it is then: the
\* one being tried, also where the tape handler has put another one there.
CodeNamesBoard ==
  [][ status' # status /\ status'.slot # -1 /\ status'.x \cap (0 .. 2) # {}
      => status'.slot = slot ]_vars

\* An error a handler has shown stays until another one is shown or a program
\* starts: the code 8 (no medium, no system) never takes its place.
ErrorStays ==
  [][ status.slot # -1 /\ status.x \cap (0 .. 2) # {} /\ status' # status
      => \/ status'.slot # -1 /\ status'.x \cap (0 .. 2) # {}
         \/ pc' = "booted"
         \/ looping ]_vars

Units == UNION {DOMAIN m.kind : m \in Machines}

\* A unit that stays ready to be booted from, where the search comes to it.
Waits(d) ==
  /\ d \in DOMAIN media
  /\ Bootable(d) /\ Listed(d) /\ Reached(d, isl) /\ ~looping

\* Some unit that can be booted from for good ends the search, whatever the
\* other units and boards do: it boots, or it has used up its attempts.
SearchEnds ==
  \A d \in Units : <>[]Waits(d) => <>(pc \in {"booted", "hung"})

\* doc/HARDWARE.md 6.2: "Retry the whole search until a boot succeeds".
BootSucceeds ==
  \A d \in Units : <>[]Waits(d) => <>(pc = "booted")
==============================================================================
