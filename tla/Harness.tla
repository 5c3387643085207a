-------------------------------- MODULE Harness --------------------------------
(***************************************************************************)
(* tools/m40_harness.py: runs of the diagnostic disks in MAME, several at a *)
(* time.  A run makes its folder, MAME writes the trace into it while a Lua *)
(* script types the keys, and the harness sums the trace up.  run-test      *)
(* looks a program up in the catalogues that collect_tests.py has written   *)
(* and types what makes the monitor load and start it.                      *)
(*                                                                          *)
(* MAME and the diagnostic monitor are external: the monitor comes up at    *)
(* BootTime, takes LoadTime to load a program, and does not see keys that   *)
(* are pressed meanwhile.  Times are in seconds of the machine.             *)
(***************************************************************************)
EXTENDS Catalog

CONSTANTS
  Diagnostics,   \* the diagnostic disks: a function from letters to disks
  Runs,          \* the processes
  Calls,         \* what they may be called with (see Call)
  BootTime, LoadTime,
  MaxClock       \* bound: seconds of the wall clock

\* What is read from bytes.
RecordIs(e) ==
  \/ e.index = 255 \/ e.name = ""
  \/ /\ e.index \in 0 .. 254 /\ e.length \in 0 .. 255
     /\ e.ext \in Nat /\ e.cyl \in Nat /\ e.sec \in Nat

\* A label that points before the file is left out: read_catalog would read the
\* end of the file, where m40disk.py refuses.
ASSUME DisksAssumption ==
  \A l \in DOMAIN Diagnostics :
    /\ CatalogSector(Diagnostics[l]) \in Nat /\ Diagnostics[l].size \in Nat /\ Diagnostics[l].count \in Nat
    /\ Len(Diagnostics[l].records) \in Nat
    /\ \A k \in 1 .. Len(Diagnostics[l].records) : RecordIs(Diagnostics[l].records[k])
ASSUME CallsAssumption ==
  /\ BootTime \in Nat /\ LoadTime \in Nat
  /\ \A call \in Calls :
       /\ call.go \in BOOLEAN
       /\ call.seconds \in Nat /\ call.key_delay \in Nat
       /\ call.inter_key_delay \in Nat /\ call.load_wait \in Nat /\ call.dump_delay \in Nat

NoCatalog == [catalog |-> "none"]

VARIABLES
  clock,         \* the seconds of the timestamps
  json,          \* catalogs.json: the entries of every disk
  folders,       \* the run folders, by name: what is in them
  runs           \* the processes

vars == <<clock, json, folders, runs>>

\* A call: the command (run-test, run or dump); the letter of the disk that is
\* inserted (--disk), and --diag, "" for none; the selector; the keys of run and
\* dump; --go; and the times, which have defaults for each command.  wait is
\* --load-wait of run-test, and --post-key-wait of dump; dump has its --dump-delay.
Call(command, disk, diag, test, keys, go, seconds, delay, inter, wait, dump_delay) ==
  [command |-> command, disk |-> disk, diag |-> diag, test |-> test, keys |-> keys, go |-> go,
   seconds |-> seconds, key_delay |-> delay, inter_key_delay |-> inter, load_wait |-> wait,
   dump_delay |-> dump_delay]

\* normalize_args: --diag takes the place of --disk.
Inserted(call) == IF call.diag # "" THEN call.diag ELSE call.disk

\* diagnostic_letter_for_run: --diag, or the name of the image.
LetterOf(call) == IF call.diag # "" THEN call.diag ELSE call.disk

Digit(n) == [key |-> "digit", n |-> n]
Enter == [key |-> "enter", n |-> 0]
Wait(n) == [key |-> "wait", n |-> n]

\* monitor_load_keys: option 1 and the code in three digits, then option 4.
monitor_load_keys(code, go, load_wait) ==
  <<Enter, Digit(1), Enter, Digit(code \div 100), Digit((code \div 10) % 10), Digit(code % 10), Enter>>
  \o IF go THEN <<Wait(load_wait), Digit(4), Enter>> ELSE <<>>

\* The diagnostic monitor.
Prompt == [at |-> "prompt", n |-> 0, ready |-> BootTime, loaded |-> -1, started |-> -1]
Monitor(m, e) ==
  IF e.t < m.ready THEN m
  ELSE IF e.key = "digit" THEN [m EXCEPT !.n = IF m.at = "code" THEN 10 * @ + e.n ELSE e.n]
  ELSE CASE m.at = "prompt"           -> [m EXCEPT !.at = "menu", !.n = 0]
         [] m.at = "code"             -> [m EXCEPT !.at = "menu", !.n = 0, !.loaded = m.n,
                                                   !.ready = e.t + LoadTime]
         [] m.at = "menu" /\ m.n = 1  -> [m EXCEPT !.at = "code", !.n = 0]
         [] m.at = "menu" /\ m.n = 4  -> [m EXCEPT !.started = m.loaded, !.n = 0]
         [] OTHER                     -> [m EXCEPT !.n = 0]

\* Mutant of Post: a WAIT does not delay what follows.
PostAtOnce(p, token, inter, seconds) ==
  [t   |-> p.t + inter,
   did |-> IF token.key # "wait" /\ p.t <= seconds
           THEN Monitor(p.did, [t |-> p.t, key |-> token.key, n |-> token.n]) ELSE p.did]

\* The key posters of mame_m40_diag_trace.lua and mame_m40_timed_keys.lua: one
\* token when its time has come, if MAME still runs; a WAIT is not posted.
Post(p, token, inter, seconds) ==
  [t   |-> p.t + inter + (IF token.key = "wait" THEN token.n ELSE 0),
   did |-> IF token.key # "wait" /\ p.t <= seconds
           THEN Monitor(p.did, [t |-> p.t, key |-> token.key, n |-> token.n]) ELSE p.did]

\* When the token after the last would come, and what the machine has done when
\* MAME ends.
Typed(keys, delay, inter, seconds) ==
  LET After[k \in 0 .. Len(keys)] ==
        IF k = 0 THEN [t |-> delay, did |-> Prompt]
        ELSE Post(After[k - 1], keys[k], inter, seconds)
  IN  After[Len(keys)]

Played(keys, call, seconds) == Typed(keys, call.key_delay, call.inter_key_delay, seconds).did

\* mame_m40_dump_segments.lua: the keys follow each other at once (0.05 s), and
\* the segments are written post_key_wait after the last, or, when there are no
\* keys, after the dump delay alone; if MAME still runs.
Dumped(keys, call, seconds) ==
  LET end == Typed(keys, call.key_delay, 0, seconds)
      at  == IF keys = <<>> THEN call.dump_delay ELSE end.t + call.load_wait
  IN  IF at > seconds THEN {} ELSE {end.did}

------------------------------------------------------------------------------

Idle == [stage |-> "idle"]

Init ==
  /\ clock = 0
  /\ json = NoCatalog
  /\ folders = [n \in {} |-> {}]
  /\ runs = [r \in Runs |-> Idle]

Tick ==
  /\ clock < MaxClock
  /\ clock' = clock + 1
  /\ UNCHANGED <<json, folders, runs>>

\* collect_tests.py main: the catalogues of all disks, or nothing.
Collect ==
  /\ \A l \in DOMAIN Diagnostics : ~read_catalog(Diagnostics[l]).fails
  /\ json' = [l \in DOMAIN Diagnostics |-> read_catalog(Diagnostics[l]).entries]
  /\ UNCHANGED <<clock, folders, runs>>

\* The run folder: the timestamp and the name, which run-test makes from the
\* test; run and dump have the same default (--name is not given).
FolderOf(call, entry) ==
  <<clock, IF call.command = "run-test"
           THEN <<LetterOf(call), call.go, entry.index, entry.name>> ELSE <<"m40">>>>

\* Mutant of Free: a folder that is there is used (exist_ok).
FreeAlways(folder) == folder \notin {<<>>}

\* mkdir(exist_ok=False)
Free(folder) == folder \notin DOMAIN folders

Stop(r) == /\ runs' = [runs EXCEPT ![r] = [stage |-> "refused"]]
           /\ UNCHANGED <<clock, json, folders>>

Starts(r, call, entry, keys) ==
  LET folder == FolderOf(call, entry)
  IN  IF ~Free(folder) THEN Stop(r)
      ELSE /\ folders' = [n \in DOMAIN folders \cup {folder} |->
                            IF n = folder THEN [command |-> r, trace |-> {}, summary |-> {}]
                            ELSE folders[n]]
           /\ runs' = [runs EXCEPT ![r] = [stage |-> "mame", call |-> call, entry |-> entry,
                                           keys |-> keys, folder |-> folder]]
           /\ UNCHANGED <<clock, json>>

\* cmd_run_test, up to the start of MAME
RunTest(r, call) ==
  /\ runs[r].stage = "idle" /\ call.command = "run-test"
  /\ IF json = NoCatalog \/ LetterOf(call) \notin DOMAIN Diagnostics THEN Stop(r)
     ELSE LET found == resolve_catalog_entry(json[LetterOf(call)], call.test)
          IN  IF found.fails THEN Stop(r)
              ELSE Starts(r, call, found.entry,
                          monitor_load_keys(found.entry.index, call.go, call.load_wait))

\* cmd_run and cmd_dump, up to the start of MAME
RunKeys(r, call) ==
  /\ runs[r].stage = "idle" /\ call.command # "run-test"
  /\ Starts(r, call, [name |-> ""], call.keys)

\* MAME runs, for --seconds; or it is stopped earlier; or does not start, and
\* there is no trace.
Mame(r) ==
  LET call == runs[r].call
      keys == runs[r].keys
      Left(seconds) ==
        {[of |-> r, did |-> d] : d \in IF call.command = "dump" THEN Dumped(keys, call, seconds)
                                       ELSE {Played(keys, call, seconds)}}
  IN  /\ runs[r].stage = "mame"
      /\ \/ /\ folders' = [folders EXCEPT ![runs[r].folder].trace = Left(call.seconds)]
            /\ runs' = [runs EXCEPT ![r].stage = "ended"]
         \/ /\ folders' = [folders EXCEPT ![runs[r].folder].trace = Left(call.seconds \div 2)]
            /\ runs' = [runs EXCEPT ![r].stage = "broken"]
         \/ /\ runs' = [runs EXCEPT ![r].stage = "broken"]
            /\ UNCHANGED folders
      /\ UNCHANGED <<clock, json>>

\* The trace is parsed and summary.json written, if there is a trace; a dump has
\* the segments instead, and ends well without any.
Summarise(r) ==
  /\ runs[r].stage \in {"ended", "broken"}
  /\ LET folder == runs[r].folder
         good == IF runs[r].stage = "ended" THEN "good" ELSE "bad"
     IN  IF runs[r].call.command = "dump"
         THEN runs' = [runs EXCEPT ![r].stage = good] /\ UNCHANGED folders
         ELSE IF folders[folder].trace = {}
         THEN runs' = [runs EXCEPT ![r].stage = "failed"] /\ UNCHANGED folders
         ELSE /\ folders' = [folders EXCEPT ![folder].summary = folders[folder].trace]
              /\ runs' = [runs EXCEPT ![r].stage = good]
  /\ UNCHANGED <<clock, json>>

Next ==
  \/ Tick \/ Collect
  \/ \E r \in Runs : \/ \E call \in Calls : RunTest(r, call) \/ RunKeys(r, call)
                     \/ Mame(r) \/ Summarise(r)

Spec == Init /\ [][Next]_vars

------------------------------------------------------------------------------

\* Runs that are started at the same time do not mix: the summary in the folder
\* of a run is made from the trace of that run, and nobody else's command stands
\* there ("creates a deterministic run directory",
\* re/mame/MAME_diagnostic_trace_harness.md:35).
RunsKeepApart ==
  \A r \in Runs : runs[r].stage \notin {"idle", "refused"} =>
    LET folder == folders[runs[r].folder]
    IN  /\ folder.command = r
        /\ \A t \in folder.trace \cup folder.summary : t.of = r
        /\ runs[r].stage = "failed" => folder.trace = {}

\* The times that run-test is to be given: the first key when the monitor is up,
\* the wait before option 4 as long as loading takes, and the end after the last
\* key.  Its defaults are not: MAME ends after 60 s, and the first key comes at 70.
Patient(call) ==
  /\ call.key_delay >= BootTime
  /\ call.load_wait + 2 * call.inter_key_delay >= LoadTime
  /\ call.seconds >= call.key_delay + 9 * call.inter_key_delay + call.load_wait

\* A run-test that was given time and ends well has loaded the program it was
\* asked for from the disk that was inserted, as m40disk.py reads its catalogue,
\* and started it if --go was not denied ("load and optionally GO a cataloged diagnostic program",
\* tools/m40_harness.py:564).
TestIsRun ==
  \A r \in Runs :
    runs[r].stage = "good" /\ runs[r].call.command = "run-test" /\ Patient(runs[r].call) =>
    LET call == runs[r].call
        catalog == parse_catalog(Diagnostics[Inserted(call)])
        wanted == find_entry(catalog.entries, call.test)
    IN  ~catalog.fails => \E t \in folders[runs[r].folder].summary :
          /\ ~wanted.fails
          /\ t.did.loaded = wanted.entry.index
          /\ call.go => t.did.started = wanted.entry.index

\* What the three readers make of a catalogue that m40disk.py can read.  The flat
\* file has the same entries, and a number or the beginning of a name means the
\* same one to m40disk.py and to the harness, which has the JSON.  dml_catalog.py
\* takes no numbers: a selector that is the index of a program means nothing to
\* it or a program whose name begins so, often another one; only any other
\* selector means the same to all three.
\*
\* What m40disk.py extracts dml_catalog.py extracts too, from the same sectors.
\* What m40disk.py refuses it refuses, but for two entries: of one without
\* sectors it makes an empty file, and of one before the file it takes sectors
\* of the end of the file.
OneProgram ==
  \A l \in DOMAIN Diagnostics : \A sel \in DOMAIN Begins :
    LET disk == Diagnostics[l]
        mine == parse_catalog(disk)
        found == find_entry(mine.entries, sel)
        flat == read_catalog(disk)
        byname == DmlFindEntry(flat.entries, sel)
    IN  ~mine.fails =>
          /\ flat = mine
          /\ json # NoCatalog => resolve_catalog_entry(json[l], sel) = found
          /\ \/ byname = found
             \/ /\ ~found.fails /\ found.entry.index = Number[sel]
                /\ ~byname.fails => byname.entry.name \in Begins[sel]
          /\ ~found.fails =>
               LET e == found.entry
                   data == extract_entry(disk, e)
                   slice == cmd_extract(disk, e)
               IN  \/ slice = data
                   \/ data.fails /\ e.length = 0 /\ slice.n = 0
                   \/ data.fails /\ flat_sector(e) < 0 /\ slice.first = disk.size + flat_sector(e)
==============================================================================
