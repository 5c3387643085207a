------------------------------ MODULE MCKeySteps ------------------------------
(* Instances of KeySteps for TLC. *)
EXTENDS KeySteps

At(gaps) == <<10, 10 + gaps[1], 10 + gaps[1] + gaps[2]>>

\* Three taps of two keys, with every modifier, at gaps that overlap (0.3 s),
\* touch (0.7 s) and keep apart (0.8 s).
Taps ==
  LET taps == {"@", "^", "%"} \X {"A", "B"}
  IN  {[k \in 1 .. 3 |-> Tap(At(g)[k], t[k][1], t[k][2])] :
         t \in [1 .. 3 -> taps], g \in [1 .. 2 -> {3, 7, 8}]}

\* Taps, text and disk changes in every order.
Mixed ==
  LET do == [tap |-> [mod |-> "^", what |-> <<"A">>],
             two |-> [mod |-> "=", what |-> <<"x", "y">>],
             one |-> [mod |-> "=", what |-> <<"z">>],
             disk |-> [mod |-> "!", what |-> <<"second">>],
             back |-> [mod |-> "!", what |-> <<"third">>]]
  IN  {[k \in 1 .. 3 |-> [at |-> At(g)[k], mod |-> do[c[k]].mod,
                          what |-> do[c[k]].what]] :
         c \in [1 .. 3 -> DOMAIN do], g \in [1 .. 2 -> {0, 4, 8, 15}]}

\* "ls", "/ls", "x/", "a//b" and "01/2", alone and one after another; and after a
\* gap of 12 s, or with gaps of 0, 1 and 10 s, which are shorter than a command takes
\* to type.
MCCommands ==
  LET lines == {<<<<"l", "s">>>>, <<<<>>, <<"l", "s">>>>, <<<<"x">>, <<>>>>,
                <<<<"a">>, <<>>, <<"b">>>>, <<<<"0", "1">>, <<"2">>>>}
      slow == <<<<"1", "2", "3", "4", "5", "6", "7", "8", "9">>, <<>>>>
      gaps == {<<<<"0">>>>, <<<<"1">>>>, <<<<"1", "0">>>>}
  IN  {<<c>> : c \in lines} \cup (lines \X lines)
      \cup {<<g, c, d>> : g \in gaps, c \in lines \cup {slow}, d \in lines}
      \cup {<<c, g, d, h, c>> : g, h \in gaps, c \in {slow}, d \in lines}

\* Taps from a cold start and from states saved before, in and after the first
\* tap and in the second; the rest from a cold start and from a state in which the
\* steps are begun or overdue.
MCRuns ==
  [steps : Taps, start : {0, 14, 15, 21}, end : {45}]
  \cup [steps : Mixed, start : {0, 20}, end : {80}]

\* An observer's schedules: a capital and a small letter, a RETURN that two of them
\* share, CONTROL-J, and the disk swap with its RETURN; at times that overlap, touch
\* and keep apart, cold and from states in which some of them are overdue.
MCSchedules ==
  {[steps |-> <<Followup(f, <<Capital("a"), Letter("b")>>), Typing(c, <<Letter("a"), Letter(Enter)>>),
                Typing(t, <<Letter("b"), Letter("b")>>)>>,
    start |-> from, end |-> 45] : f, c, t \in {2, 4, 11, 20}, from \in {0, 5, 16}}
  \cup {[steps |-> <<Followup(f, <<Capital("j")>>), Typing(t, <<Letter(Enter), Letter("j")>>), Chord(c), Swap(10)>>,
         start |-> from, end |-> 100] : f, c, t \in {1, 4, 30, 59, 64, 72}, from \in {0, 32}}
==============================================================================
