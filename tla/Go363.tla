-------------------------------- MODULE Go363 --------------------------------
(***************************************************************************)
(* The GO363 hard-disk board (governo type 65) and its uPD7261 controller,  *)
(* as far as the driver of tools/mkrom_hd65.py can tell.  The board is      *)
(* hardware (emulated outside this repository), so everything here is       *)
(* modelled from how the driver uses it: one command at a time, a board     *)
(* request that the driver polls, a status byte, a DMA engine that stores   *)
(* one sector at the programmed address, a drive with one head position.    *)
(*                                                                          *)
(* Where the repository leaves the hardware open the model allows every     *)
(* reading: a command written while another one runs may be ignored or may  *)
(* replace it, and accepting a command may or may not drop a request that   *)
(* is still pending (doc/GO363_DCOS_RECOVERY.md,                            *)
(* re/evidence/upd7261-command-int-reset.experiment.md).                    *)
(***************************************************************************)
EXTENDS Naturals

CONSTANTS
  Cylinders,   \* cylinders of the drive
  Heads,       \* heads (the driver's geometry: 9)
  Sectors,     \* sectors per track (32)
  MemPages,    \* physical memory in 256-byte pages, what one sector fills
  Junk         \* page contents that are no sector of the disk

ASSUME GeometryNat == /\ Cylinders \in Nat \ {0}
                      /\ Heads \in Nat \ {0}
                      /\ Sectors \in Nat \ {0}
                      /\ MemPages \in Nat \ {0}

Chs == [cyl : Nat, head : Nat, sector : Nat]   \* a sector address, or its data

ASSUME JunkIsNoSector == Junk \notin Chs

OnDisk(a) == a.cyl < Cylinders /\ a.head < Heads /\ a.sector < Sectors

VARIABLES
  op,        \* the disk command in progress: "none", "specify", "seek", "read"
  target,    \* its sector address (a seek uses the cylinder)
  dma,       \* the memory page a read stores to
  status,    \* uPD7261 status: "clear", "busy", "normal", "abnormal", "invalid"
  pending,   \* board status (4a/4b) & 0x28 = 0x28
  heads,     \* the cylinder the heads are on
  ready,     \* unit status (42/43) & 0x15 = 0x15
  mem        \* contents of the memory pages

go363 == <<op, target, dma, status, pending, heads, ready, mem>>

Origin == [cyl |-> 0, head |-> 0, sector |-> 0]

DeviceTypeOK ==
  /\ op \in {"none", "specify", "seek", "read"}
  /\ target \in Chs
  /\ dma \in 0 .. MemPages - 1
  /\ status \in {"clear", "busy", "normal", "abnormal", "invalid"}
  /\ pending \in BOOLEAN
  /\ heads \in 0 .. Cylinders - 1
  /\ ready \in BOOLEAN
  /\ mem \in [0 .. MemPages - 1 -> Chs \cup {Junk}]

DeviceInit ==
  /\ op = "none" /\ target = Origin /\ dma = 0
  /\ status = "clear" /\ pending = FALSE
  /\ heads \in 0 .. Cylinders - 1
  /\ ready \in BOOLEAN
  /\ mem = [p \in 0 .. MemPages - 1 |-> Junk]

------------------------------------------------------------------------------
(* What the driver makes the board do. *)

\* A disk command is written to port 11.
Issue(kind, address, page) ==
  /\ \/ /\ op' = kind /\ target' = address /\ dma' = page
        /\ status' = "busy"
        /\ pending' \in {pending, FALSE}
     \/ /\ op # "none"
        /\ UNCHANGED <<op, target, dma, status, pending>>
  /\ UNCHANGED <<heads, ready, mem>>

\* Auxiliary command RST on port 10, and SPECIFY issued to the idle chip.
ResetAndIssue(kind) ==
  /\ op' = kind /\ target' = Origin
  /\ status' = "busy" /\ pending' = FALSE
  /\ UNCHANGED <<dma, heads, ready, mem>>

\* Auxiliary command 08 on port 10 clears the command-end bits and with them
\* the request; a command still in progress goes on.
ClearEnd ==
  /\ pending' = FALSE
  /\ status' = IF op = "none" THEN "clear" ELSE status
  /\ UNCHANGED <<op, target, dma, heads, ready, mem>>

------------------------------------------------------------------------------
(* What the board and the drive do by themselves. *)

\* A command ends: the status says how, and the board raises its request.
End(result) ==
  /\ op' = "none" /\ status' = result /\ pending' = TRUE
  /\ UNCHANGED <<target, dma, ready>>

SpecifyEnds ==
  /\ op = "specify"
  /\ End("normal")
  /\ UNCHANGED <<heads, mem>>

SeekArrives ==
  /\ op = "seek" /\ ready /\ target.cyl < Cylinders
  /\ End("normal")
  /\ heads' = target.cyl
  /\ UNCHANGED mem

SeekGoesWrong ==
  /\ op = "seek"
  /\ \E r \in {"abnormal", "invalid"} : End(r)
  /\ heads' \in 0 .. Cylinders - 1
  /\ UNCHANGED mem

\* The controller compares the sector's ID field with the six parameters, so
\* it ends normally only with the asked sector under the heads.
ReadTransfers ==
  /\ op = "read" /\ ready /\ OnDisk(target) /\ heads = target.cyl
  /\ End("normal")
  /\ mem' = [mem EXCEPT ![dma] = target]
  /\ UNCHANGED heads

\* A read that fails may have stored part of a sector.
ReadGoesWrong ==
  /\ op = "read"
  /\ \E r \in {"abnormal", "invalid"} : End(r)
  /\ mem' \in {mem, [mem EXCEPT ![dma] = Junk]}
  /\ UNCHANGED heads

UnitChanges ==
  /\ ready' = ~ready
  /\ UNCHANGED <<op, target, dma, status, pending, heads, mem>>

Device ==
  \/ SpecifyEnds \/ SeekArrives \/ SeekGoesWrong
  \/ ReadTransfers \/ ReadGoesWrong \/ UnitChanges
==============================================================================
