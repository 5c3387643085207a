------------------------------- MODULE KeySteps -------------------------------
(***************************************************************************)
(* The key script that drives almost every MAME run of the repository:      *)
(* scripts/harness/run_keys.lua, fed by scripts/mos-install/mksteps.py.     *)
(* Steps at absolute machine times become events (hold a modifier, key      *)
(* down, key up, release, post text, change a disk); at the end of every    *)
(* frame all events that are due are run, in an order that table.sort       *)
(* leaves open between events of the same time.  The emulated keyboard      *)
(* looks at its matrix between frames, so only what outlives a frame is     *)
(* typed.  Text goes to MAME's natural keyboard, which types from a queue.  *)
(* The observers of BCOS, scripts/lua/mame_bcos_state.lua and               *)
(* mame_bcos_generated_boot.lua, press the same keys from up to five        *)
(* schedules of their own, each of which does at most one thing a frame.    *)
(*                                                                          *)
(* Times are in tenths of a second.  Screenshots change nothing and are     *)
(* left out.                                                                *)
(***************************************************************************)
EXTENDS Naturals, FiniteSetsExt, SequencesExt

CONSTANTS
  Runs,        \* runs of this instance: a record of STEPS as a sequence of
               \* steps, the machine time at which it begins, 0 or that of a
               \* saved state, and the one at which it ends (RUN_SECONDS)
  Commands,    \* arguments given to mksteps.py after START, for runs from 0
  Schedules,   \* runs of the observers: their schedules, begin and end
  CharTime,    \* how long the natural keyboard takes for a character
  Horizon      \* bound: machine time at which a run of Commands ends

\* A step: its time; "@" tap, "^" tap with CONTROL, "%" with SHIFT, "=" text,
\* "!" image; the key, the characters of the text, or the image.
Tap(t, mod, key)   == [at |-> t, mod |-> mod, what |-> <<key>>]
Text(t, chars)     == [at |-> t, mod |-> "=", what |-> chars]
Image(t, image)    == [at |-> t, mod |-> "!", what |-> <<image>>]

Modifiers == {"^", "%"}

Slash == "? (29)"      \* the key MOS reads as /
Enter == "\n"
First == "first"       \* the image MAME starts with

VARIABLES
  steps,    \* STEPS
  driver,   \* who has made them: an author, mksteps.py, or an observer's schedules
  start,    \* the machine time at which the run begins
  end,      \* the time at which the run ends
  todo,     \* the events that were not run yet
  now,      \* emu.time()
  down,     \* the fields the script has set: keys and modifiers
  last,     \* the fields as the keyboard saw them when it last looked
  queue,    \* the natural keyboard's characters still to be typed
  busy,     \* what is left of the time of the character being typed
  disk,     \* the image in the drive
  seen,     \* what the machine was typed: keys with their modifiers
  wanted    \* what the author of the script wants it to be

vars == <<steps, driver, start, end, todo, now, down, last, queue, busy, disk, seen, wanted>>

------------------------------------------------------------------------------
(* mksteps.py: an argument is a sequence of parts, with a / between them. *)

\* Mutant of PartSteps: no time passes after the key.
PartStepsAtOnce(t, part, first) ==
  LET slash == IF first THEN <<>> ELSE <<Tap(t, "@", Slash)>>
  IN  IF part = <<>> THEN slash ELSE Append(slash, Text(t, part))

\* A part, and the key of the / before it.
PartSteps(t, part, first) ==
  LET slash == IF first THEN <<>> ELSE <<Tap(t, "@", Slash)>>
      after == t + 15 * Len(slash)
  IN  IF part = <<>> THEN slash ELSE Append(slash, Text(after, part))

\* The steps of a command up to its Enter, each 1.5 s after the one before.
CommandSteps(t, command) ==
  LET body[n \in 0 .. Len(command)] ==
        IF n = 0 THEN <<>>
        ELSE body[n - 1] \o PartSteps(t + 15 * Len(body[n - 1]), command[n], n = 1)
  IN  body[Len(command)]

\* What int() makes of digits.
Digits == <<"0", "1", "2", "3", "4", "5", "6", "7", "8", "9">>
DigitValue(c) == (CHOOSE i \in 1 .. 10 : Digits[i] = c) - 1
Number(part) ==
  LET value[n \in 0 .. Len(part)] ==
        IF n = 0 THEN 0 ELSE 10 * value[n - 1] + DigitValue(part[n])
  IN  value[Len(part)]

\* An argument that is all digits is no command: it is the gap, in seconds, that
\* follows every command from there on, and is not typed.
IsGap(argument) ==
  /\ Len(argument) = 1 /\ argument[1] # <<>>
  /\ \A i \in 1 .. Len(argument[1]) : \E d \in 1 .. 10 : argument[1][i] = Digits[d]

\* A command; as a mutant of AddArgument, what is all digits is typed like any other.
AddCommand(acc, argument) ==
  LET body  == CommandSteps(acc.t, argument)
      enter == acc.t + 15 * Len(body)
  IN  [t |-> enter + acc.gap, gap |-> acc.gap,
       out |-> Append(acc.out \o body, Text(enter, <<Enter>>))]

AddArgument(acc, argument) ==
  IF IsGap(argument) THEN [t |-> acc.t, gap |-> 10 * Number(argument[1]), out |-> acc.out]
  ELSE AddCommand(acc, argument)

\* mksteps.py START 'cmd1' [GAP] 'cmd2' ..., with a gap of 12 s to begin with
MkSteps(at, arguments) ==
  LET acc[n \in 0 .. Len(arguments)] ==
        IF n = 0 THEN [t |-> at, gap |-> 120, out |-> <<>>]
        ELSE AddArgument(acc[n - 1], arguments[n])
      all == acc[Len(arguments)]
  IN  Append(all.out, Text(all.t, <<>>))

------------------------------------------------------------------------------
(* run_keys.lua *)

Event(k, t, kind, field) == [step |-> k, at |-> t, kind |-> kind, field |-> field]

\* Mutant of EventsOf: the key is released when the modifier is.
EventsWithoutUp(s, k) ==
  CASE s.mod = "!" -> {Event(k, s.at, "load", s.what)}
    [] s.mod = "=" -> {Event(k, s.at, "post", s.what)}
    [] OTHER -> {Event(k, s.at + 2, "down", s.what)}
                \cup (IF s.mod \in Modifiers
                      THEN {Event(k, s.at, "down", <<s.mod>>),
                            Event(k, s.at + 7, "up", <<s.mod>>),
                            Event(k, s.at + 7, "up", s.what)}
                      ELSE {})

EventsOf(s, k) ==
  CASE s.mod = "!" -> {Event(k, s.at, "load", s.what)}
    [] s.mod = "=" -> {Event(k, s.at, "post", s.what)}
    [] OTHER -> {Event(k, s.at + 2, "down", s.what),
                 Event(k, s.at + 5, "up", s.what)}
                \cup (IF s.mod \in Modifiers
                      THEN {Event(k, s.at, "down", <<s.mod>>),
                            Event(k, s.at + 7, "up", <<s.mod>>)}
                      ELSE {})

Schedule(script) == UNION {EventsOf(script[k], k) : k \in 1 .. Len(script)}

\* A key as the machine gets it, with the image in the drive at that moment.
Key(k, mods, image) == [key |-> k, mods |-> mods, image |-> image]

Characters(chars, image) == [i \in 1 .. Len(chars) |-> Key(chars[i], {}, image)]

\* The image that the steps before the k-th leave in the drive.
DiskOf(script, k) ==
  LET loads == {i \in 1 .. k - 1 : script[i].mod = "!"}
  IN  IF loads = {} THEN First ELSE script[Max(loads)].what[1]

\* What a step is to type when the run begins at `from`: a tap that is over
\* by then is over within one frame, and the keyboard never sees it.
StepTypes(s, from, image) ==
  CASE s.mod = "!" -> <<>>
    [] s.mod = "=" -> Characters(s.what, image)
    [] OTHER -> IF s.at + 5 <= from THEN <<>>
                ELSE <<Key(s.what[1], {s.mod} \cap Modifiers, image)>>

Types(script, from) ==
  FlattenSeq([k \in 1 .. Len(script) |->
               StepTypes(script[k], from, DiskOf(script, k))])

\* What the commands say: their characters, with / between the parts.
CommandTypes(command) ==
  FlattenSeq([i \in 1 .. Len(command) |->
               (IF i = 1 THEN <<>> ELSE <<Key(Slash, {}, First)>>)
               \o Characters(command[i], First)])
  \o <<Key(Enter, {}, First)>>

\* Gaps say nothing.
ArgumentTypes(argument) == IF IsGap(argument) THEN <<>> ELSE CommandTypes(argument)

CommandsType(arguments) ==
  FlattenSeq([k \in 1 .. Len(arguments) |-> ArgumentTypes(arguments[k])])

------------------------------------------------------------------------------
(* mame_bcos_state.lua and mame_bcos_generated_boot.lua *)

\* The schedules of a run, in the order in which a frame goes through them: a
\* text with its capitals (BCOS_FOLLOWUP), two without (BCOS_COMMAND, BCOS_TYPE),
\* CONTROL and J (BCOS_CTRL_J_AT), and the change of disks with its RETURN.
Letter(key) == [key |-> key, upper |-> FALSE]
Capital(key) == [key |-> key, upper |-> TRUE]
Followup(t, chars) == [at |-> t, how |-> "followup", what |-> chars]
Typing(t, chars)   == [at |-> t, how |-> "typing", what |-> chars]
Chord(t)           == [at |-> t, how |-> "chord", what |-> <<>>]
Swap(t)            == [at |-> t, how |-> "swap", what |-> <<>>]

\* What a schedule does, at times that follow each other.
ScheduleEvents(s, k) ==
  CASE s.how = "followup" ->
         UNION {{Event(k, s.at + 4 * i - 4, IF s.what[i].upper THEN "down" ELSE "up", <<"%">>),
                 Event(k, s.at + 4 * i - 3, "down", <<s.what[i].key>>),
                 Event(k, s.at + 4 * i - 2, "up", <<s.what[i].key>>),
                 Event(k, s.at + 4 * i - 1, "up", <<"%">>)} : i \in DOMAIN s.what}
    [] s.how = "typing" ->
         UNION {{Event(k, s.at + 4 * i - 4, "down", <<s.what[i].key>>),
                 Event(k, s.at + 4 * i - 2, "up", <<s.what[i].key>>)} : i \in DOMAIN s.what}
    [] s.how = "chord" ->
         {Event(k, s.at, "down", <<"^">>), Event(k, s.at + 2, "down", <<"j">>),
          Event(k, s.at + 4, "up", <<"j">>), Event(k, s.at + 6, "up", <<"^">>)}
    [] s.how = "swap" ->
         {Event(k, s.at, "load", <<"none">>), Event(k, s.at + 20, "load", <<"run">>),
          Event(k, s.at + 50, "down", <<Enter>>), Event(k, s.at + 52, "up", <<Enter>>)}

\* The events of a run.
Events(list, by) ==
  IF by # "schedules" THEN Schedule(list)
  ELSE UNION {ScheduleEvents(list[k], k) : k \in DOMAIN list}

\* When a schedule is over: what is overdue at the start takes a frame each.
Begins(s, from) == Max({s.at, from})
Over(s, from) ==
  LET events == ScheduleEvents(s, 1)
  IN  IF events = {} THEN Begins(s, from)
      ELSE Max({from + Cardinality(events)} \cup {e.at + 1 : e \in events})

\* What it is to type, on which disk: a swap types RETURN on the new one.
ScheduleTypes(s, image) ==
  CASE s.how = "followup" -> [i \in DOMAIN s.what |->
                                Key(s.what[i].key, IF s.what[i].upper THEN {"%"} ELSE {}, image)]
    [] s.how = "typing"   -> [i \in DOMAIN s.what |-> Key(s.what[i].key, {}, image)]
    [] s.how = "chord"    -> <<Key("j", {"^"}, image)>>
    [] s.how = "swap"     -> <<Key(Enter, {}, "run")>>

SchedulesType(list, from) ==
  LET first == [k \in DOMAIN list |-> Begins(list[k], from)]
      swapped(k) == \E i \in DOMAIN list : list[i].how = "swap" /\ first[i] < first[k]
      before(i, k) == first[i] < first[k] \/ (first[i] = first[k] /\ i < k)
      order == SetToSortSeq(DOMAIN list, before)
  IN  FlattenSeq([n \in DOMAIN order |->
                    ScheduleTypes(list[order[n]], IF swapped(order[n]) THEN "run" ELSE First)])

\* The scripts of all runs are finite, and their times are in tenths of a second of
\* the machine.
ASSUME ScriptsTimed ==
  /\ \A run \in Runs : /\ Len(run.steps) \in Nat
                       /\ \A k \in 1 .. Len(run.steps) : run.steps[k].at \in Nat
  /\ \A run \in Schedules : /\ IsFiniteSet(DOMAIN run.steps)
                            /\ \A k \in DOMAIN run.steps :
                                 LET s == run.steps[k]
                                 IN  /\ s.at \in Nat
                                     /\ s.how \in {"followup", "typing", "chord", "swap"}
                                     /\ DOMAIN s.what \subseteq Nat \ {0}
                                     /\ IsFiniteSet(DOMAIN s.what)
\* Text is a sequence of characters; the key of a tap is not itself a modifier.
Sound(s) == CASE s.mod = "=" -> s.what \in Seq(Range(s.what))
              [] s.mod = "!" -> TRUE
              [] OTHER       -> s.what[1] \notin Modifiers
ASSUME ScriptsSound == \A run \in Runs : \A k \in 1 .. Len(run.steps) : Sound(run.steps[k])
\* Arguments are strings that were split at every /: sequences of sequences of characters.
ASSUME CommandsSound ==
  \A arguments \in Commands :
    /\ arguments \in Seq(Range(arguments))
    /\ \A argument \in Range(arguments) :
         /\ argument \in Seq(Range(argument))
         /\ \A part \in Range(argument) : part \in Seq(Range(part))
ASSUME RunsTimed == /\ \A run \in Runs \cup Schedules : run.start \in Nat /\ run.end \in Nat
                    /\ Horizon \in Nat /\ CharTime \in Nat \ {0}

------------------------------------------------------------------------------

Init ==
  /\ \/ \E run \in Runs :
          /\ steps = run.steps /\ driver = "author"
          /\ start = run.start /\ end = run.end
          /\ wanted = Types(steps, start)
     \/ \E arguments \in Commands :
          /\ steps = MkSteps(10, arguments) /\ driver = "mksteps"
          /\ start = 0 /\ end = Horizon
          /\ wanted = CommandsType(arguments)
     \/ \E run \in Schedules :
          /\ steps = run.steps /\ driver = "schedules"
          /\ start = run.start /\ end = run.end
          /\ wanted = SchedulesType(steps, start)
  /\ todo = Events(steps, driver)
  /\ now = start
  /\ down = {} /\ last = {}
  /\ queue = <<>> /\ busy = 0
  /\ disk = First
  /\ seen = <<>>

Due == {e \in todo : e.at <= now}

\* An event takes effect on the fields and on the drive.
Held(fields, e) == CASE e.kind = "down" -> fields \cup {e.field[1]}
                     [] e.kind = "up"   -> fields \ {e.field[1]}
                     [] OTHER           -> fields
Mounted(image, e) == IF e.kind = "load" THEN e.field[1] ELSE image

\* The next due event of the sorted table; ties go either way.
Run(e) ==
  /\ \A f \in Due : e.at <= f.at
  /\ todo' = todo \ {e}
  /\ down' = Held(down, e)
  /\ disk' = Mounted(disk, e)
  /\ queue' = IF e.kind = "post" THEN queue \o e.field ELSE queue
  /\ UNCHANGED <<steps, driver, start, end, now, last, busy, seen, wanted>>

FrameDone == driver # "schedules" /\ \E e \in Due : Run(e)

\* The natural keyboard types the head of its queue when its time has come.
TypedText(image) ==
  IF queue # <<>> /\ busy + 1 = CharTime THEN <<Key(Head(queue), {}, image)>> ELSE <<>>

\* The machine runs for a frame with these fields and this disk.  The keyboard
\* looks at its keys; those that have gone down since its last look are typed, in
\* any order, with the modifiers that are down now.
Machine(fields, image) ==
  LET text == TypedText(image)
  IN  /\ now' = now + 1
      /\ \E order \in SetToSeqs((fields \ last) \ Modifiers) :
           seen' = seen \o [i \in DOMAIN order |-> Key(order[i], fields \cap Modifiers, image)] \o text
      /\ last' = fields
      /\ queue' = IF text = <<>> THEN queue ELSE Tail(queue)
      /\ busy' = IF queue = <<>> \/ text # <<>> THEN 0 ELSE busy + 1
      /\ UNCHANGED <<steps, driver, start, end, wanted>>

\* Mutant of Frame: the run goes on past its end.
FrameForever ==
  /\ Due = {} /\ driver # "schedules"
  /\ Machine(down, disk)
  /\ UNCHANGED <<todo, down, disk>>

\* No event is due any more.
Frame ==
  /\ Due = {} /\ driver # "schedules" /\ now < end
  /\ Machine(down, disk)
  /\ UNCHANGED <<todo, down, disk>>

\* The fields after these events of different schedules, the last of which counts.
HeldAfter(fields, ran) ==
  LET touching(x) == {e \in ran : e.kind \in {"down", "up"} /\ e.field[1] = x}
  IN  {x \in fields \cup {e.field[1] : e \in ran} :
         IF touching(x) = {} THEN x \in fields
         ELSE \E e \in touching(x) :
                e.kind = "down" /\ \A f \in touching(x) : f.step <= e.step}

\* A frame of an observer: of every schedule the first event, if it is due, in
\* the order of the schedules.
InTurn ==
  LET ran == {e \in Due : \A f \in Due : f.step = e.step => e.at <= f.at}
      turns == SetToSortSeq(ran, LAMBDA e, f : e.step < f.step)
  IN  /\ driver = "schedules" /\ now < end
      /\ todo' = todo \ ran
      /\ down' = HeldAfter(down, ran)
      /\ disk' = FoldLeft(Mounted, disk, turns)
      /\ Machine(down', disk')

Next == FrameDone \/ Frame \/ InTurn

Spec == Init /\ [][Next]_vars

------------------------------------------------------------------------------

\* Every variable has its type.
TypeOK ==
  /\ driver \in {"author", "mksteps", "schedules"}
  /\ todo \subseteq Events(steps, driver)
  /\ end \in Nat /\ (now = start \/ now \in start .. end)
  /\ down \subseteq {e.field[1] : e \in {f \in Events(steps, driver) : f.kind = "down"}}
  /\ last \subseteq {e.field[1] : e \in {f \in Events(steps, driver) : f.kind = "down"}}
  /\ busy \in 0 .. CharTime - 1
  /\ \A i \in DOMAIN seen : seen[i].mods \subseteq Modifiers

\* The script leaves the machine time to take one step before the next: a tap
\* with its modifier takes 0.7 s, and ends before anything else begins; text
\* takes as long as the natural keyboard needs, and is not overdue when the run
\* begins; and no two disks are changed at the same time.
Spaced ==
  /\ \A k \in 1 .. Len(steps) - 1 :
       LET s == steps[k]
           gap == steps[k + 1].at - s.at
       IN  CASE s.mod = "=" -> gap >= CharTime * Len(s.what)
             [] s.mod = "!" -> gap >= 0
             [] OTHER       -> gap >= 8
  /\ \A k \in 1 .. Len(steps) : steps[k].mod = "=" => steps[k].at >= start
  /\ \A i, k \in 1 .. Len(steps) :
       i < k /\ steps[i].mod = "!" /\ steps[k].mod = "!" => steps[i].at # steps[k].at

\* The schedules of an observer keep apart: one is over when another begins.
Apart ==
  \A i, k \in DOMAIN steps : i # k =>
    \/ Over(steps[i], start) <= Begins(steps[k], start)
    \/ Over(steps[k], start) <= Begins(steps[i], start)

\* The time until the next step.
Wait(k) == steps[k + 1].at - steps[k].at

\* A command has no part that takes longer to type than the 1.5 s mksteps.py leaves
\* for it, and no gap is shorter than the Enter before it.
Leisurely ==
  /\ \A k \in 1 .. Len(steps) : CharTime * Len(steps[k].what) <= 15
  /\ \A k \in 1 .. Len(steps) - 1 : steps[k].what = <<Enter>> => Wait(k) >= CharTime

\* What is asked of the author: a script of STEPS is spaced, the commands and gaps
\* of mksteps.py are leisurely, and schedules keep apart.
Unhurried ==
  CASE driver = "author"    -> Spaced
    [] driver = "mksteps"   -> Leisurely
    [] driver = "schedules" -> Apart

Settled == todo = {} /\ queue = <<>> /\ last = down

\* An unhurried script types what it says, each key once, in order and with its
\* own modifier, on the disk of the last disk step before it, and nothing else at
\* any time; a command of mksteps.py comes out with its slashes in place.  Of a
\* run that resumes from a saved state, the taps after its time are typed ("steps
\* earlier than the restored time all fire at once",
\* tools/L1_DISK_FORMATS.md:316).
TypedAsWanted ==
  Unhurried => /\ IsPrefix(seen, wanted)
               /\ Settled => seen = wanted

\* A script that is hurried, whose keys and text overlap: no two of its steps are
\* less than 0.3 s apart, the time for which a key is down, and no gap is 0.
Ordered ==
  \A k \in 1 .. Len(steps) - 1 :
    driver = "author" \/ steps[k].what = <<Enter>> => Wait(k) >= 3

\* What is typed, by the natural keyboard and by taps.
TapKeys == {steps[k].what[1] : k \in {i \in 1 .. Len(steps) : steps[i].mod \notin {"=", "!"}}}
TextOf(typed) == SelectSeq([i \in DOMAIN typed |-> typed[i].key], LAMBDA key : key \notin TapKeys)
TapsOf(typed) == SelectSeq([i \in DOMAIN typed |-> typed[i].key], LAMBDA key : key \in TapKeys)

\* s is t with members left out.
IsSubSeq(s, t) == \E f \in [DOMAIN s -> DOMAIN t] :
                    /\ \A i \in DOMAIN s : s[i] = t[f[i]]
                    /\ \A i, j \in DOMAIN s : i < j => f[i] < f[j]

\* Steps that overlap change each other's modifiers and disks, and taps overtake text.
\* They never change the order of the text or of the taps: the characters of the text
\* are typed as they stand, and every tap is typed at most once, after the taps
\* before it.  Of a script of mksteps.py with any gap but 0, and parts of any length,
\* nothing is lost, and a character comes after every / that stands before it.
OnlyTapsOvertake ==
  driver # "schedules" /\ Ordered =>
    /\ IsPrefix(TextOf(seen), TextOf(wanted))
    /\ IsSubSeq(TapsOf(seen), TapsOf(wanted))
    /\ driver = "mksteps" =>
         /\ \A n \in DOMAIN seen :
              Len(TextOf(SubSeq(seen, 1, n))) <= Len(TextOf(SubSeq(wanted, 1, n)))
         /\ Settled => Len(seen) = Len(wanted)

\* However closely steps follow each other, and wherever the run starts, no key
\* and no modifier stays down when all events have run.
NoKeyStuck == todo = {} => down = {}
==============================================================================
