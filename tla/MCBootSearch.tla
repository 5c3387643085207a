---------------------------- MODULE MCBootSearch ----------------------------
(* Instances of BootSearch for TLC. *)
EXTENDS BootSearch, TLC

Read(fault, holds) == [fault |-> fault, holds |-> holds]

\* Good, no system, nothing transferred, an error after a transfer.
MCUnitMedia ==
  {Read({}, "system"), Read({}, "other"), Read({}, "nothing"), Read({1}, "system")}

\* And a wrong label (8), and a mark (6) that is no error.
MCDriveMedia == MCUnitMedia \cup {Read({8}, "system"), Read({6}, "system")}

Machine(patched, b0, b1, units) ==
  [patched |-> patched, board |-> (0 :> b0) @@ (1 :> b1), kind |-> units]

\* The GO363 ROM with a hard disk and two drives, an E4 board with disks of two
\* types and a GIPO with a floppy, a GIPO with a disk and mini-floppies, a tape
\* with and without a board to install on, and an E4 board that the patched ROM
\* has no handler for.
MCMachines ==
  {Machine(TRUE, "E1", "65",
           (<<1, 0>> :> 1) @@ (<<0, 0>> :> 0) @@ (<<0, 1>> :> 0)),
   Machine(FALSE, "EF", "E4",
           (<<0, 1>> :> 1) @@ (<<1, 0>> :> 3) @@ (<<1, 1>> :> 5)),
   Machine(FALSE, "E0", "EF",
           (<<0, 1>> :> 0) @@ (<<1, 0>> :> 2)),
   Machine(FALSE, "E4", "E6", (<<0, 0>> :> 5) @@ (<<1, 1>> :> 0)),
   Machine(TRUE, "E6", "E1", (<<0, 1>> :> 0) @@ (<<1, 1>> :> 0)),
   Machine(TRUE, "E4", "E1", (<<0, 0>> :> 5) @@ (<<1, 1>> :> 0))}

\* A machine with one drive, and disks that are good and that cannot be read.
MCDrive == {Machine(FALSE, "E1", "none", <<0, 0>> :> 0)}
MCDisks == {Read({}, "system"), Read({1}, "nothing")}
==============================================================================
