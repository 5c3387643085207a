# A verification model of l1_m40

The repository recovers the Olivetti L1/M40. It reads, edits and makes the
machine's disks, patches its boot ROM with a hard-disk driver, and drives a
MAME emulation of it through boots, installations and diagnostics. This
directory models the parts of that code which keep state, run beside each
other, fail halfway, or do arithmetic that is easy to get wrong. TLC checks
the models on small instances; TLAPS proves the main results for every
instance.

    tlc -workers 2 -config MCRomFolder.cfg MCRomFolder    # a run
    tlapm RunProofs.tla                                   # a proof

## 1. The system

Paths are relative to `src/`.

### 1.1 What is modelled

| Part | State | Operations | Interacts with | Correct when |
|---|---|---|---|---|
| **ROM folder builder**, `m40_build_roms` in `scripts/m40env.sh` | a ROM folder under `runs/`, its `.done` marker, the directory that is its lock | test the marker, take the lock, remove, copy, mark, unlock, wait | every test and launch script sources it; several start at once, and any may be interrupted | one builder at a time; nobody uses a half-copied set; everybody gets the folder |
| **GO363 boot driver**, `NEWCODE` in `tools/mkrom_hd65.py` | registers of the Z8000, the unit table at `<<1>>0x270` | initialise, read by block number, read by cylinder/head/sector; wait, seek, read one sector | the board (ports, status, DMA); the common loader of the ROM calls it | a good return means the right sectors in the right pages, whatever was under way before; every call returns |
| **GO363 board** with uPD7261 and drive | command, status, request, DMA address, heads, memory | end of a command, in every way it can end | the driver | hardware: the model allows every behaviour the documents leave open |
| **Boot device search** of the ROM REL 6.0, `re/disassembly/m40-rom/m40rom-6.0.s` 0x065c to 0x098c, stock or patched | place in the list of types and in the configuration table, the slot and unit being tried, the buffer, the count of attempts `0x2fc`, the code on display `0x308` | go round the list; per board initialise, read the first block of each unit, check it, start it; show a code; stop | drives, hard disks, tape, their boards; the operator with media and the ISL switch; the GO363 driver | boots from the first unit it can, starts what it has read from there, shows whose fault it was, and does not stop before |
| **Install stages**, `scripts/mos-install/step.sh`, `hdrun.sh`, `harness/run_savestate.lua` | work folders, the checkpoint store (disks and machine states) | take the disks of a stage, run, save the state, copy the disks | MAME; the next stage; a second terminal | any stage can be resumed |
| **Key scripts**, `harness/run_keys.lua`, `mos-install/mksteps.py`, and the **schedules of the observers**, `lua/mame_bcos_state.lua`, `lua/mame_bcos_generated_boot.lua` | events of a run, the fields of the keyboard, MAME's queue of text, the disk in the drive | make steps of commands and gaps, make events of them, run those that are due; three schedules and a disk swap in one callback | the emulated keyboard looks at its matrix between frames | the machine is typed what the script says, and no key stays down |
| **Disk images**, `tools/imd.py`, `l1disk.py`, `m40disk.py`, `imd_trim_empty_tail.py`, `make_m40_blank_imd.py` | files, the image a script has in memory | open, write, set track 0, save, trim, make a blank disk, flatten, extract | scripts that edit a disk; MAME reads the result | an image is an array of sectors and stays one; the two libraries mean the same bytes |
| **Library and surgery**, `tools/l1lib.py`, `harness/build_*.py`, `alias_pound.py` | modules, containers, directory and boot descriptor of a system disk; a snapshot of it that is not refreshed | copy modules, redirect entries, replace modules and sub-modules, make a boot descriptor, rename entries; find the directory | on top of the disk images; the scripts run one after another on each other's results | the directory names what is there, nothing else is damaged, what one script computes the reader finds |
| **ROM rebuild**, `tools/mkasm.py`, `tools/annotate_*.py`, `tools/rebuild.sh` | instructions forced into words, rounds, the listing, the passes that ran | repair until the listing assembles to the ROM; put notes and blocks of comments into it | assembler and linker answer as they like; passes look back over what others wrote | the loop makes progress and every label stands; passes change comments only, in any order, once or again, and every block stands that is not too close to one like it |
| **Catalogues**, `tools/m40disk.py`, `dml_catalog.py`, `diagnostic_tests/collect_tests.py` | label and records of a diagnostic disk, `catalogs.json` | read the catalogue, choose an entry, extract its program | three readers of the same bytes; the harness takes the JSON | all readers have the same entries, and mean the same program by a name; where numbers and entries beyond the file part them, it is known how |
| **Run harness**, `tools/m40_harness.py` with its Lua key posters | run folders, traces, summaries, the clock in their names | `run-test`, `run`, `dump`, several at a time | MAME, the diagnostic monitor, the catalogues | runs do not mix; a good run has run the test that was asked for |

How they fit together: a script sources `m40env.sh` (RomFolder), copies media
that the disk tools made or edited (DiskImage), starts MAME with a key script
(KeySteps) and, for an installation, saves what came out as a stage
(InstallStage). The emulated machine looks for something to boot (BootSearch);
with the patched ROM that is the GO363 disk first, through its driver (Hd65,
Go363). The ROM listing the driver is put into comes from the rebuild (RoundTrip,
Annotate, Rebuild). The system disks that are booted were made by the surgery
scripts (Library, Surgery), the diagnostic disks are read through their
catalogues (Catalog) and run by the harness (Harness).

### 1.2 What is not modelled, or only in part

| Part | What it does | Why it is left out |
|---|---|---|
| ROM listing rewriter and checksum, end of `tools/mkrom_hd65.py` | one pass over one known listing; two end-around-carry sums | the pass asserts every place it edits, and `--verify` checks the sums on the original ROM |
| SYS0 loader of the diagnostic disks, rest of the boot ROM | original firmware: loading of programs, self-tests, RAM sizing, slot scan, drivers of the stock boards | not reached; the drivers enter BootSearch by their results, the loader enters Harness as the monitor |
| Rest of `l1lib.py`, `build_restore.py`, `--mvo` | decoding of J0X configurations, searches, printing; a list of raw sectors | no state, or copies by a fixed list |
| Rest of `m40_harness.py`, `collect_tests.py`, `m40disk.py` | counters of a trace, the command line of MAME, Markdown, scan for labels | formatting |
| Launch and test scripts, regression runners | one command line each, files of their own | nothing is shared but what RomFolder models |
| One-off probes `harness/run_*.lua`, observers that only log | breakpoints and dumps of single investigations | lists of addresses |
| `z8kdisrom.cpp`, keyboard maps | a main loop around a library; drawings | no state |
| The MAME driver | in a fork of MAME, not in the repository | external |
| Notes and traces of BCOS, MOS, OSLEM | | not programs of the repository |

## 2. The modules

### RomFolder, RomLock

`RomFolder` has one action per shell command, for each of a set of scripts:
`MarkerFound`/`MarkerMissing` are the test of line 21, `TakeLock`/`LockIsTaken`
the `mkdir` of line 23. `rm -rf` and the three `cp` change several files, so
each is several steps (`ClearEntry`, `CopyBegin`, `CopyEnd`), and other scripts
see the states in between. `Kill` ends a run at any command: an interrupt, or a
`cp` that fails under `set -eu`; no trap cleans up. `rom[k]` is what a reader
finds under an image's name: nothing, a part, or the whole file. `RomLock` is
the abstract lock with an owner who may be lost.

### Hd65, Go363, BlockRead

`Go363` is the board as the driver sees it: one command at a time, a request
that is polled, a status, a DMA engine that stores one sector, heads that may
be anywhere. The repository does not contain it, so the model takes every
reading of what `doc/GO363_DCOS_RECOVERY.md` and `doc/HARDWARE.md` leave open:
a command written while another runs may be ignored or replace it, and may or
may not drop a pending request; any command may end normally, abnormally or as
invalid; the unit may become unready; a command may never end.

`Hd65` cuts the driver where the board can get a word in: issuing a command,
one poll, reading the status with everything up to the next command. Registers
that carry a value over such a point are variables (`lba` is `rr10`, `page`
`r9`, `left` `r12`, `onCyl` `r13`, `polls` `r2:r3`), arithmetic keeps its 16
bits, and the buffer wraps in its segment as `add r9,#0x100` does. `Boot` and
`Start` are the callers: the IPL, the common loader at `0x74c`, and any
program that uses the services.

`BlockRead` is what a caller may rely on: pages are filled strictly in order,
only the page in turn may hold garbage, and after an error at most one late
store follows.

### BootSearch

`StartRound` reads the switch, `PassOver` and `Call` are one look at the
configuration table, `Advance` goes to the next entry, the next type or the
next round. The handlers of disks, drives and tape share `InitFails`,
`InitBoard`, `Select`, `Boot` and `Refuse`, which are one routine or the same
sequence of calls in the ROM; reading differs and has actions of its own. `pos`
is `r9`, `slot` is `r1` (both are on the stack while a handler runs), `named` is
`0x302` and `0x303`. `todo` is the set of units that the handler's loops over
unit types and units have still to come to; `Turn` numbers them in the order of
those loops, and `Upcoming` is the next one.
Results of routines are the sets of bits of `r7`: the drives' handler masks,
moves and drops single bits of it. The drivers below (`0x14ae`, `0x1e58`,
`0x1a5e`, `0x2814`, `hd65_rdlba`) enter by what they return and leave in the
buffer; `Change` gives every board and unit any of the listed results at any
time. A machine whose drive board shows bit 3 of port `0xED` clear reads the
same disk for ever (`looping`); `SearchEnds` is about the others.

### InstallStage

One run is `Begin`, `Load` per file, `Boot`, any number of `Write`, `Save` (one
second before the end), `Exit`, `Clear`, `Copy` per file, `End`; `Kill` stops it
anywhere. A disk is its last write, numbered over all disks, and a saved state
is the machine's memory of all of them. `script` says whether the store belongs
to `step.sh` (one work folder, one run at a time, several disks) or to
`hdrun.sh` (a folder per stage, the hard disk only, two terminals at once, the
same stage not at the same time).

### KeySteps

`FrameDone` is the callback: it runs every event that is due, in any order that
`table.sort` may leave between events of the same time. `Frame` is a frame of
the machine: the keyboard sees which fields have gone down since it last
looked, and the natural keyboard types from its queue. `MkSteps`, `AddArgument`,
`CommandSteps` and `PartSteps` are `mksteps.py`, its loops over arguments and parts
as recursive functions. An argument of digits (`IsGap`) is not typed: it is the
gap after every command that follows, 12 s to begin with, and may be 0. Times are tenths of a second, all of the code's
constants kept (0.2, 0.5, 0.7, 1.5 s). `Spaced` says when the steps of an author
leave each other time, `Leisurely` when the parts and gaps of commands do; `Ordered`
is the much weaker condition that no two steps are at nearly the same time, of
which `OnlyTapsOvertake` says what it still guarantees. Two of the conditions of
`Spaced` are easily overlooked: text that is
overdue when a run resumes is posted all at once, so the next step may come before
it is typed, and of two disk changes at the same time either may win. `InTurn` is the callback of the observers
instead: in one frame every schedule runs its first due event, in the order of
the callback, and `HeldAfter` is what the fields are then, the last schedule
that touched a field having its way. `Apart` says when such schedules do not
disturb each other.

### DiskImage, LinearDisk

A file is a sequence of track records as ImageDisk writes them: sector numbers
in track order, a type per sector, a uniform sector as one cell. A cell stands
for 128 bytes, so a sector of track 0 side 0 is one cell and any other two, and
partial sectors can be written. `Open`, `Write`, `SetTrack0`, `Save`, `Close`
are the life of an `L1Disk` in a script, `Trim` and `Blank` the two tools that
make images. A write that meets a missing sector ends the script there with
nothing saved. `m40disk.py`, which only reads, is the operators `FlatImage`,
`FlatCells` and `Extent`. `LinearDisk` is what an editing script believes:
track 0 and an array of sectors. The variables `arrays` and `array` are that
view of the files and of the image in memory, recomputed in every step. The
loops of `write`, `set_track0` and of the trimming tool are recursive functions
(`Put`, `Kept`), one value per round. `Regular` is what the disks of the machine
are like: each track once, sectors outside track 0 of one size. The originals of
an instance are, and what the tools make of them is.

### Library, Surgery

`Library` is `l1lib.py` as pure operators over a row of cells: headers, the
offsets of sub-modules, `read_directory`, the score `_dir_score` by which
`directory_index` recognises a directory. `Surgery` has one action per script.
`shelf` is what a script has read with l1lib before it began, `image` what it
reads and writes meanwhile: which of the two an expression uses is taken from
the script, since that is where such scripts go wrong. `AliasPound` runs before
and after the others and as often as there are names. The loops of
`build_allres_osg.py` and `build_oslem7_ffr.py` are recursive functions (`Done`),
one value per module or sub-module; a script that finds no entry to redirect, or
no keyboard driver, stops, and that is a guard.

What the scripts take for granted of the disks they are written for, partly in
their own assertions, is `BufferAssumption`, `OriginalsAssumption` and `ScriptsAssumption`. Of every
original: no two modules share a cell, the directory has its sectors to itself,
every entry leads to a module or a sub-module of its name and length, and the
sub-modules of a container lie in order (`ImageOK`). Of the single ones: cylinder
74 of ALL_RESIDENT holds no module and its directory ends with the three special
entries (`AllOK`), one entry 0FMU on K02743 has its module to itself, behind the
first eight sectors (`K02743OK`, `Buffer`), one entry leads to a keyboard driver on oslem7+ (`Oslem7OK`). No
disk has names that differ in `#` and `X` only. The buffer matters:
`build_k02743_fmd.py` reads eight sectors, writes the module, and then writes all
eight back for the sake of one entry (`Redirected`), so that a module in them would
be lost again; it also looks for its entry in them only (`Floppies`).

### RoundTrip, Annotate, Rebuild

`RoundTrip` is the loop of `mkasm.py`. The assembler may reject an instruction,
encode it otherwise, or in another length, which moves what follows; errors may
name some or all of the lines, and an error for a `.long_addr` line blames the
line before it. `Annotate` is the loop of a pass: one line in, blocks above it,
a note on it, with a look back over a window of the last lines. The eight
scripts differ in their window, key line and treatment of notes; `style` says
which; `KeyOf` is the line a block is known by, the last one or the first of the
longest, of which only the lengths (`Width`) count, and `WindowOf` the lines it is
looked for in. In most blocks that line is a rule of dashes, which the blocks of
other passes have too. `Annotated` is the loop as a recursive function over the
lines read.
`Rebuild` composes both: the listing is built in the round that ends
well, and the passes of `rebuild.sh` run on it in any order, one of them again.

### Catalog, Harness

`Catalog` has the three readers beside each other: `parse_catalog`,
`find_entry`, `extract_entry` of `m40disk.py`, `read_catalog`, `cmd_extract` of
`dml_catalog.py`, `resolve_catalog_entry` of the harness. They choose in different
ways: `dml_catalog.py` by name only, and it takes slices of the file, whose ends may
be negative (`InFile`). `Harness` runs several
processes: `RunTest` and `RunKeys` end where MAME is started, with the folder
made from the seconds of the clock and the name; `Mame` is the emulation with
the key poster, which may end early or not start; `Summarise` sums up. `Monitor`
is the diagnostic monitor as far as the harness relies on it: it is up at
`BootTime`, needs `LoadTime` for a program, and misses keys meanwhile. `Post` is
one token of the key poster, and `Typed` all of them in their order. `Dumped` is the
time at which a dump is written: after the last key and a wait, or without keys
after the dump delay.

## 3. What is checked

| Run | Instance | Shows |
|---|---|---|
| `rom_folder` | 3 scripts, 2 images, each script twice, 2 killed | `OneBuilder`, `BrokenOnlyUnderLock`, `UserHasSetOrRebuild`; the scripts implement `RomLock`; every script is served unless one was killed |
| `rom_folder_race` | no kills | **violated**: `NoHalfCopiedUse` (finding 1) |
| `hd65` | 2 cylinders, heads, sectors; segment of 3 pages; 2 polls | a good return has the asked sectors in order; the board is idle when a read is programmed; nothing is left after success; `BlockRead` is implemented; calls return |
| `boot_search` | 6 machines with two boards each, 2 or 3 units, 6 kinds of media, 1 change, count from 2 | first unit in order; the program comes from the unit that is named; codes name the board at fault and are not replaced by an 8; the search ends when there is something to boot |
| `boot_hang` | 1 drive, 1 change, count from 7 | **violated**: `BootSucceeds` (finding 2) |
| `install_stage` | 2 stages, 2 disks, 2 terminals, 3 runs, 2 writes, 1 kill | when a stage can be resumed, what a machine and a snapshot agree on |
| `key_steps` | 3 steps at gaps from 0 to 1.5 s, cold or resumed before, in and after them; two disks to change to; command lines with slashes and of digits, with gaps of 0, 1, 10 and 12 s; three or four schedules at times that overlap, touch and keep apart | unhurried scripts type what they say; in hurried ones taps overtake text, and nothing else; no key stays down in any |
| `disk_image` | 3 cylinders of 2 x 2 sectors, 2 files, 2 edits | images are arrays; both libraries agree; extents are ranges |
| `library` | sectors of 4 cells, sides of 2 sectors, 4 sets of originals, every script, names renamed before and after | the directory stays true; only what was asked for changes; the boot descriptor leads to its containers; the directory is found and nothing else taken for it |
| `rebuild` | 5 instructions in 3 segments, every answer of the assembler, 2 rounds; 4 passes of one listing, 2 with blocks close to each other, 1 of another, in every order, one again; rules that blocks share | labels stand, rounds progress; passes leave the code alone, and every block stands above its line in any order, unless it is too close to one it may be taken for; a second run changes nothing |
| `rebuild_rerun` | the same | **violated**: `ReRunnable` (finding 3) |
| `harness` | 2 runs, 11 calls, 3 disks, 2 seconds of the clock | runs keep apart; a patient test is run; what the readers of a catalogue agree on, and where they do not |

Why the bounds are enough. `rom_folder`: a rebuild under a user needs one script
that tested early and one that finished early; the third waits meanwhile, a
second start sees the folder after a build, two kills leave a lock behind and
hit a waiter. `hd65`: block 1 with three sectors crosses a head and a cylinder,
buffer page 2 of 3 wraps the segment, the second request follows a failed one
with its seek or read still running, and two polls are the difference between
an answer and giving up. `boot_search`: two boards have an order of slots that
disagrees with the order of types in four machines, a board with two units an
order of units that disagrees with that of types; the buffer needs one failed
and one empty read; a count of 2 is used up in the first round or a later one.
`install_stage`: a stage, one resumed from it and one
run in another terminal make three runs; two writes can be before and after a
save. `key_steps`: three steps overlap in pairs and all together, with the same
or another modifier, text is overdue when a run resumes, and two disk changes are
due at once; gaps of 0 and 1 s are shorter than a command takes to type, so that the
next one's slashes overtake its text, and a gap of 10 s is too short for a text of
nine digits and its Enter only. `disk_image`: two sectors per track put a sector, a track
and a cylinder end within one write of five cells; track orders 1 2 and 2 1
are the shortest interleave; sector types 0 to 3 and images that end early
occur. `library`: sectors of four cells put two sub-modules into one sector,
which is what replacing them one by one can lose; the buffer is one sector, and the
driver stands in the next; seven scored entries make
three renamed ones count; both ways of finding a directory, by its pointer and
by its score, occur, and an older module of the same name. `rebuild`: a jump
into the middle of an instruction, one into text, two `.long_addr` lines, one of
them behind the other instruction; two rounds are too few for the worst case,
so that the loop also gives up; two passes note the same address; the block at 10
follows the one at 5, whose rule it shares, at exactly the distance from which on it
is not taken for it, and in the set of two passes at less. `harness`:
two runs in the same second with the same name and in different ones; selectors
that are an index, a name and both, also of different programs; disks have entries
beyond their end, before their beginning and of no sectors.

Deadlock is checked in `hd65` and `disk_image`. In the others the system
may stop: scripts end, a disk or listing is left as it is, or a lock is waited
for that nobody gives back.

Fairness. `rom_folder` assumes weak fairness of each script's own commands: the
operating system schedules a running process. Starting and killing are not
fair. `hd65` assumes it of the driver's steps: the CPU runs. The board is not
fair; that calls return nevertheless is the point of the loop counters.
`boot_search` and `boot_hang` assume it of the search as a whole, for the same
reason; nobody is obliged to change a disk, and the properties ask for a unit
that stays as it is from some time on. The other modules state no liveness
property.

Every property comes with a mutant of the model, a definition next to the one
it replaces ("Mutant of ..."), that makes TLC find the property violated.

## 4. What disagrees with the code

1. `m40env.sh:21-23` tests the marker before it takes the lock and not after,
   so a late script rebuilds the folder under its users. Lines 19-20 say that
   scripts wait "instead of using a half-copied set".
2. `m40rom-6.0.s:729` (`0x06be`): the eighth counted read of a drive makes
   `0x2fc` negative, and the search stops in a jump to itself; the flags it
   tests never change. `doc/HARDWARE.md:573` says "Retry the whole search until
   a boot succeeds", line 921 calls the place "the normal IPL wait for load
   complete". `SearchEnds` is what does hold.
3. `annotate_tests.py:164` looks for the block behind its anchor in the lines
   already written, where it cannot be: an earlier run's block comes later in
   the input. Every run inserts it again; line 9 calls the pass "re-runnable,
   corrective". `SecondRunChangesNothing` is the same claim about the others,
   and holds.

Seen on the way, without a run of its own:

- A builder that is stopped leaves `DIR.lock`, and later scripts wait forever at
  `m40env.sh:31`. `EveryScriptServed` is stated for runs without kills.
- `mkrom_hd65.py:402`: `add r12,#0xff` drops its carry. From a byte count of
  `0xff01` one sector is read, and the result is good.
- `step.sh:33` copies the disks after the state was saved: a write of the last
  second is in the disks of a stage and not in its state, so not "any stage can
  be resumed" (`DEBUGGING_STRATEGY.md:43`). `QuietStageResumes` says which can.
- A run that is killed while it copies leaves an incomplete snapshot. Its disks are of
  one run (`OneRunPerSnapshot`), but `step.sh:14` takes it without complaint, and the
  disks it lacks are what the last run left in the work folder; the properties of
  resumed stages are stated for behaviours without kills.
- `l1disk.py:81` writes every sector with type 1 or 2, so deleted sectors become
  good ones; `L1_DISK_FORMATS.md:13` calls `save` a "lossless round trip".
- `run-test` ends MAME after 60 s by default (`m40_harness.py:503`) and presses
  its first key after 70 s (`:570`). `TestIsRun` is about calls that give time
  (`Patient`). `--disk` with a file of another place named `B.IMD` takes the
  repository's catalogue of disk B.
- `annotate_tests.py:150` knows a block by its longest line, "the most distinctive
  (longest) line, not the generic separator" (line 149), but in most blocks the
  separator is the longest line. A block that follows another within the window is
  left out, and is not when its pass runs first: the scripts do so with the tables of
  the run's set of two close passes. Their own tables keep the distance: the nearest
  blocks with a line in common are 15 lines apart for a window of 8
  (`annotate_baa.py`), 18 for one of 11 (`annotate_fdu.py`). `OrderDoesNotMatter` says
  which distance is enough (`Clear`).
- A number selects the program of that index in `m40disk.py:306-310` and the harness, and
  the program whose name begins so in `dml_catalog.py:107-115`: on disk D, `6` is 4305T6
  to the former and 6030T6 to the latter. No document says that they agree.
- `dml_catalog.py:122` takes a slice of the file. An entry before the beginning of the
  file, which `m40disk.py` refuses, it takes from the end of it, and of an entry
  without sectors beyond the end it makes an empty file. `OneProgram` says what
  remains of the agreement.
- `build_k02743_fmd.py:13`, `:28` and `:31` would restore the old contents of a module 0FMU
  in sectors 1 to 7, under the new length in the directory. The image is not in the
  repository; that its module stands behind them is an assumption (`K02743OK`).
- `build_oslem7_ffr.py` puts shorter sub-modules in and leaves their lengths in
  the directory as they were; `LibraryHolds` exempts those lengths (`Swapped`).
  `alias_pound.py` would give two names that differ in `#` and `X` only the same
  new name; the disks have none such.
- The rule of the listings pipes the linker through `grep -v ... || true`, which
  hides that it failed; the comparison afterwards finds out.
- `doc/HARDWARE.md:573` and its section on codes call `0x308` = `0x5555` the
  value of a successful boot. The ROM writes it before the first attempt and
  blanks the display, `0xffff`, when it starts a program; at the end of a round
  `0x5555` means that no handler has shown an error. The unit in a code for a
  board that fails to initialise is the one tried last, on whatever board.

## 5. What is proved

TLAPS proves the following for every value of the constants that satisfies the
named assumptions of the modules. TLC evaluates those assumptions on every run.

There are eight proof modules. Two hold the theorems of two components each:
`RunProofs` those of InstallStage and Harness, `ScriptProofs` those of RomFolder
and Surgery; `LibraryProofs` holds lemmas only. So that two components fit into one
module, names that both would have carry the component's (`StageSpec`,
`SurgerySpec`).

`ScriptProofs`, on RomFolder (scripts nonempty, bounds naturals, owners distinct):
`TypeCorrect`, `MutualExclusion`, `BrokenNeedsLock`, `UserSafety`,
`ImplementsLock`. `OneBuilder` and `BrokenOnlyUnderLock` are not inductive:
whether the marker goes on a complete folder depends on how far the copies have
come. The inductive invariant `IInv` joins them with `CopyProgress`: while a
script copies there is no marker and every image before `next` is whole, and
from the marker to the `rmdir` the folder is complete. `ImplementsLock` maps
every step to a step of `RomLock` or a stutter; the owner is unique by
`OneBuilder`.

`Hd65Proofs` (geometry positive, segment within memory, requests within their
registers and within a segment): `TypeCorrect`, `ReadFindsBoardIdle`,
`SuccessIsQuiet`, `SectorsArrive`, `ImplementsBlockRead`. The driver never asks
whether a command is still running. `IInv` says why that is safe: the status
byte tells (`StatusTellsCommand`); `r13` starts as no cylinder, so a service
that may have found the board at work begins with a seek (`QuietUnlessFirst`);
and a seek that ended good has left nothing behind (`QuietAtRead`). On it rests
`OInv`: the registers follow the sectors delivered (`Registers`); a read that is
under way is the one the loop waits for, with its own sector and page
(`OwnRead`), or one of an earlier call, and then nothing is delivered yet that
its store could hit (`NoStray`). That the driver's two divisions go through the
disk in order (`NextBlock`), that its `mult` and they are inverse
(`AddressOfBlock`) and that pages of a request differ (`SlotsDiffer`) are lemmas
on quotients and remainders. `ImplementsBlockRead` maps every step of driver and
board to a step of `BlockRead` or a stutter; it needs in addition that the
initialisation reads nothing.

`BootSearchProofs` (`MachinesAre`: boards in slots 0 to 15, units where their
board can have them, of the types its table can hold; `MediaAre`, `FaultsAre`:
results are sets of the bits 0 to 9; `TriesNat`): `ProgramKnowsUnit`,
`ErrorNamesBoard`, `ErrorIsKept`, `FirstUnitBoots`. The invariant `IInv` ties
`0x302` and `0x303` to the buffer: from the read on, what is in the buffer came
from the unit they name or was not a system. `FirstInOrder` looks at the moment
of the jump only and is far from inductive. `OInv` adds where the search stands
(`InPlace`: slot, place in the list, and what is left to try are in range, and
the unit in hand comes before those left), that a unit of `round.steady` is as
good as it was (`Steady`), and what carries the proof, `NonePassed`: every unit
that stayed ready all the round and has its turn in it is still ahead of the
search, or in its hands. `RankGrows` puts the places of all units into one order
of numbers; `AdvancePasses` and `TurnIsLate` say that one step of the scan or of
a handler's loops passes over nothing in it. A read that fails, an initialisation
that fails, or a label that is refused are the steps that could lose a ready
unit: `Steady` excludes them, because the unit in hand is then not ready.

`RebuildProofs` holds the proofs of the repair loop and of the passes on its
listing. For the loop (instructions finite and disjoint):
`RoundTripTypeCorrect`, `EveryLabelStands`, `RoundsProgress`. A label without a
line would lie inside an instruction, and those are forced from the start. Each
round forces at least one more instruction, by cardinality; a difference always
has a first wrong instruction, which nothing has moved, by well-foundedness.
`RebuildIsRoundTrip` (the rebuild with its passes implements the loop) carries
them over: `RebuildLabelsStand`, `RebuildProgresses`. For the passes
(`RomEnds`: the ROM has a last address; `PassesAssumption`: tables are finite):
`PassesOnlyComment`, for any tables, styles and orders. `CommentsOnly` counts
lines, and counting is not inductive; the invariant `ListingStands` says
instead that the lines of mkasm's listing stand in the file at increasing places,
each the same but for its note, with comments at all other places (`Embeds`). A
block put in above the labels, above a line or at the end moves the places and
keeps the embedding (`GrownEmbeds`), a pass is a row of such steps (`StepEmbeds`,
`AnnotatedIs`), and a pass over an embedding is an embedding (`EmbedsAgain`).
That nothing is a comment in what `build` wrote is `BuiltFresh`.

`DiskImageProofs` (`SptIsEven`, `CylindersNat`; `ImagesAssumption`: the records
of the originals are well formed, and the maps of cylinder and head numbers, if
there, name those of their track; `RegularImages`: a track occurs once, and
sectors outside track 0 have one size; `ValuesAssumption`): `FlatMeansLinear`,
`LabelsNameRanges`, `ImplementsLinearDisk`. The invariant `Standing` says that every file the tools
ever write is well formed as the originals were, that an image in memory has for
each of its sectors as many cells as the track says, and that `arrays` is the
view of the files; on such a file both properties are arithmetic. The lemmas
they need are about the readers: what `FlattenSeq` makes of rows of different
lengths and where each row begins (`FlattenIs`, `FlattenAt`), that `sorted` gives
the numbers of a complete track in order (`SortedRange`), that the k-th logical
sector of a complete file is sector `1 + k % Spt` of track `k \div Spt`
(`SectorsInOrder`), where it begins in the flat image (`FlatOf`), what the last
round of `extract_bcos_extent` leaves in its table (`ByChsIs`) and that the
rounds between two ends are a range (`ExtentOf`); the steps need that `write`,
`set_track0`, `save`, the trimmer and the formatter keep well-formed images
(`WrittenOK`, `WithTrack0OK`, `SaveOK`, `BelowOK`, `BlankOK`).

`ImplementsLinearDisk` maps every step on an image to the same step on plain
arrays. The invariant `Linked` adds to `Standing` that images stay regular and
that `array` is the view of the image in memory. An image is addressed by
cylinder, head and a number found by its order, so each step has a lemma that
says what it does to the view: the rounds of `write` put the m-th piece of the
data over the m-th sector or find it missing (`AllRounds`, `WriteMeans`); the
rounds of `set_track0` cut the data where the sectors of both sides end, and
joined again they are the data (`OneSetting`, `SetMeans`); a sector that was
stored under its place in the track is found under its number (`SaveMeans`);
the records below a limit show the sectors below it, and what the trimmer lets go
shows zeros only (`TrimMeans`, `EmptyTail`); a formatted track shows its filler
(`BlankMeans`). `RegularImages` serves two of these: the pieces of a write have
one width, and a track is found again in a shortened file because there is only
one of its cylinder and head (of two, `L1Disk` takes the last, which would do as
well and is not proved). The theorem has a hypothesis, `NothingIsApart`: the value for no image is not an
image. It is about the domain of a model value, which TLC cannot evaluate, and
so it is not an assumption.

`RunProofs`, on InstallStage (at least a stage and a disk, bounds naturals):
`TypeCorrect`, `SnapshotsOfOneRun`, `QuietStagesResume`, `MachinesKnowDisks`,
`SnapshotsNotOlder`. Two invariants: `Shape`, which holds with kills as well,
contains the type invariant, keeps queues of copies, their sources and the
folders of two terminals apart, and gives `OneRun`; `Stored`, for behaviours without kills, says of every stage
and of every job at every command how the disks in the work folder and in the
store match the memory of the machine. A job does not disturb another one's
stage; that is three lemmas which the steps share.

`KeyStepsProofs` (`ScriptsTimed`, `RunsTimed`: times of steps and runs are
naturals; `ScriptsSound`, `CommandsSound`: texts, commands and their parts are
sequences, the key of a tap is not itself a modifier): `NoKeyStaysDown`,
`TypeCorrect`, `ScriptsTyped`. For the first, every
press has a later release of the same step (`Paired`), the events of a step run
in order, so whatever is down has its release among those to come. For the
second, `TInv` says that the events are finitely many, that only keys which some
event presses are ever down, and of what was typed that it is a sequence whose
every character carries modifiers only; keys in one frame come in some order,
and a finite set has one.

`ScriptsTyped` is `TypedAsWanted` for the scripts of authors and of `mksteps.py`, of
any length, with any gaps, from any start. Like the property it is about scripts that
are not hurried: `Spaced` or `Leisurely`, the latter of which lets a gap be as short as
the Enter before it takes. The property is far from inductive: it says nothing of
the fields, the drive and the queue. The invariant `InTime` does. It is about
scripts that are `Paced`, every step over before any later one begins, and ties all
of the state to the clock: events were run in the order of their times and as soon
as they were due; `down`, `disk` and `queue` are what the events that were run make
of them; `last` is what the taps hold in the frame before; at most one step is being
typed; and what was typed is `Typed`, what every step has come to at this
moment (`Prog` counts the characters), joined. Running an event keeps it
(`RunInTime`). A frame types the next character of the one step that has its time
now (`TextFrame`), or the key of a tap whose event was run, with its modifier
(`IdleFrame`; no field is pressed while it is down, by `Exclusive`, so `KeysSeen`
is that key), or nothing; in each case `Typed` of the next moment is what it was
with that behind it (`TypedNext`, `TypedSame`), because a step that is over has typed
all and a later one nothing. Such a row of parts is a prefix of the whole
(`TypedIsPrefix`), and the whole of it when no event is to come and the queue is
empty (`TypedAtTheEnd`).

That the invariant holds at the start is two lemmas. `SpacedPaced`: steps that keep
their distance from the next one keep it from all others. `MkMakes`: for any
arguments, what `mksteps.py` writes are steps which type the characters of the
commands with a slash between parts, and of the gaps nothing; steps are 1.5 s apart
but for the gap behind an Enter, which is any number of seconds (`NumberIs`: what
`int` makes of digits is a natural number). `Makes` says this of a piece
of a script, is joined for two pieces by `MakesBoth`, and goes through the rounds of
both loops (`CommandMakes`, `ArgumentMakes`). The fold in `Types` and `Typed` is the
library's `FlattenSeq`, a recursive function in a `LET`; `FlattenFcn` gives its value
round by round and every induction over it is that of the least round that fails.

`RunProofs`, on Harness: `RunsApart` (runs and calls arbitrary): `mkdir` refuses a
folder that is there, so each belongs to one run at most.
`ReadersMeanOneProgram` (`DisksAssumption`: records hold bytes, labels point
into the file): the two parsers are loops that stop at different conditions, and
the entries they collect are the same; the JSON is what `Collected` says. A selector
finds the same by number and by name in `m40disk.py` and in the harness
(`FoundByNumber`, `FoundByName`), and in `dml_catalog.py` by name, so the difference is
exactly a selector that is the index of a program. The extractors are compared by
where their reads begin and end (`SliceOf`, `ExtractsTheSame`): a slice has the asked
length only if it lies in the file, or its beginning is counted from the end. `RunTestRunsIt` (`DisksAssumption`, `CallsAssumption`:
times are naturals): the invariant `AllMeant` says that a run has the entry it
asked for, the keys for it, and, once MAME has ended by itself, the trace of
these keys; `TestPlays` follows them through the monitor, key by key, with the
times of a patient call, for every number of three digits.

`ScriptProofs`, on Surgery (`GeometryAssumption`: sectors and sides are not empty;
`BufferAssumption`, `TypeableAssumption`, `OriginalsAssumption`, `ScriptsAssumption`,
see section 2, of which the one on the buffer is what keeps `build_k02743_fmd.py` from
undoing its own copy):
`SurgeryInvariant`, `DirectoryTrue`, `OthersUntouched`, `DescriptorTrue`,
`DirectoryStaysFound`, for originals of any size with any modules and entries, any
modules to copy and any list of sub-modules. None of the four properties is
inductive: `AliasPound` may run before a script and after it, and a directory that
is true says nothing of the names that were there. The invariant `SurgeryInv` says
that there is an area which one script has made of the original (`Good`) and of
which the image is the same with entries renamed (`Relabelled`). Renaming is then
one lemma (`AliasStep`), and every script is looked at once, on
the original. `Good` says that the area is laid out as a disk is (`Laid`), that
its entries lead to what they should (`AllLead`), each alone to modules of its name
(`AllAlone`), that entries keep their places and names (`IndexKept`) and that
modules are what they were or were asked to be (`ModulesKept`).

The lemmas are in `LibraryProofs`. What a script makes is described by one of
three predicates: a module was put over another of at least its size (`Swap`: the
floppy and keyboard drivers, by `SwapFrom`), sub-modules were put over others
(`Exchange`), or modules were put into blank sectors and listed before the last
three entries (`Filed`). Of each it is shown that the layout stands: `LaidAgain`
where sectors keep their kinds and modules do not grow (`ExchangeLayout` says so of
sub-modules), `GrownLaid` where modules were added. The two loops are taken round by
round (`FfrLoop`, `OsgLoop`: the recursive functions have a value; `ExchangeOne`,
`CopiesNext`: what one round does). That sub-modules may share a sector is in two
lemmas: one that was not asked for keeps every cell (`ExchangeOther`), and one that
was asked for keeps what an earlier round has put there (`ExchangeWanted`). For
`DirectoryFound`, the score of the true directory is at least the number of entries
looked at that still lead to their names (`ScoreDir`), and every other sector scores
nothing (`ScoreOther`): it holds no entries, or it is in the middle of the
directory, and read from there no entry leads to its name (`AllAlone`).

Only model-checked:

- Liveness (`EveryScriptServed`, `CallsReturn`, `SearchEnds`), which is out of
  the prover's reach.
- `TypedAsWanted` (KeySteps) for the schedules of the observers, of which up to five
  go on in one frame.
- `OnlyTapsOvertake` (KeySteps), about scripts that are hurried.
- `OrderDoesNotMatter` (Rebuild), which says of every block that is `Clear` of the
  others that it stands once. `SecondRunChangesNothing`, which holds of passes whose
  own blocks keep that distance, as those of the repository do.

## 6. What the models leave out

NVRAM, configuration and screenshot folders of MAME (no script reads them
back); truncated and malformed IMD files (the readers raise); times finer than
a tenth of a second; the contents of sectors beyond what tells them apart; the
write path of the GO363 board, which the driver does not use; the hardware
below its registers; texts of comments and names of modules beyond being equal
or not; blanks around a selector, which `dml_catalog.py` does not strip and the others
do; labels that point before the beginning of their file (`DisksAssumption`), where
`dml_catalog.py` would read from the end of it.

## 7. What could follow

1. The **SYS0 loader** of the diagnostic disks, which takes over where
   BootSearch ends and reads the catalogue that Catalog models.
2. The **listing rewriter** of `mkrom_hd65.py` and its checksum, with
   `build_restore.py`.
3. **Proofs**: `OrderDoesNotMatter`, which is stated for any tables now.
