------------------------------ MODULE LinearDisk ------------------------------
(***************************************************************************)
(* What tools/l1disk.py promises the scripts that edit disk images: an      *)
(* image is track 0 and an array of sectors known by their linear index, a  *)
(* write changes the bytes it names and no others, and what is saved is     *)
(* what the next script opens.  A script that fails saves nothing.  The two *)
(* tools that make new images either copy what is there or fill it.         *)
(***************************************************************************)
EXTENDS Naturals, Sequences

CONSTANTS
  Names,      \* file names
  Indices,    \* linear sector indices
  Writes,     \* what scripts write: index and data
  Headers,    \* and what they make of track 0
  Limits,     \* where Trim may cut
  PerCyl,     \* sectors of a cylinder
  Size,       \* cells of a sector
  Nothing,    \* no such file, no such sector, no image open
  Zero,       \* the byte 0
  Fill        \* the byte of a formatted sector (E5)

VARIABLES
  saved,      \* the files: [track0, area], or Nothing
  open        \* the image a script works on, or Nothing

vars == <<saved, open>>

Filled(cells) == [i \in 1 .. Len(cells) |-> Fill]

Overlay(sector, chunk) ==
  [i \in 1 .. Len(sector) |-> IF i <= Len(chunk) THEN chunk[i] ELSE sector[i]]

\* The cells of data that fall into sector i of a write at index.
Chunk(index, data, i) ==
  LET last == (i - index + 1) * Size
  IN  SubSeq(data, (i - index) * Size + 1, IF last < Len(data) THEN last ELSE Len(data))

Open(n) ==
  /\ open = Nothing /\ saved[n] # Nothing
  /\ open' = saved[n]
  /\ saved' = saved

\* A write that reaches a sector the image does not have ends the script.
Write(index, data) ==
  /\ open # Nothing
  /\ LET area == open.area
         hit  == {i \in Indices : i >= index /\ Chunk(index, data, i) # <<>>}
     IN  open' = IF \E i \in hit : area[i] = Nothing THEN Nothing
                 ELSE [open EXCEPT !.area =
                         [i \in Indices |->
                            IF i \in hit
                            THEN Overlay(area[i], Chunk(index, data, i))
                            ELSE area[i]]]
  /\ saved' = saved

SetTrack0(data) ==
  /\ open # Nothing /\ Len(data) = Len(open.track0)
  /\ open' = [open EXCEPT !.track0 = data]
  /\ saved' = saved

Save(n) ==
  /\ open # Nothing
  /\ saved' = [saved EXCEPT ![n] = open]
  /\ open' = open

Close ==
  /\ open' = Nothing
  /\ saved' = saved

\* A copy without the cylinders from `limit` on, which hold zeros.
Trim(source, target, limit) ==
  /\ saved[source] # Nothing /\ saved[target] = Nothing
  /\ LET area == saved[source].area
         kept(i) == 1 + i \div PerCyl < limit
     IN  /\ \A i \in Indices : kept(i) \/ area[i] = Nothing \/ \A c \in 1 .. Len(area[i]) : area[i][c] = Zero
         /\ saved' = [saved EXCEPT ![target] =
              [track0 |-> saved[source].track0,
               area   |-> [i \in Indices |-> IF kept(i) THEN area[i] ELSE Nothing]]]
  /\ open' = open

\* A blank with the sectors of another image.
Blank(reference, target) ==
  /\ saved[reference] # Nothing /\ saved[target] = Nothing
  /\ LET old == saved[reference]
     IN  saved' = [saved EXCEPT ![target] =
           [track0 |-> Filled(old.track0),
            area   |-> [i \in Indices |-> IF old.area[i] = Nothing THEN Nothing
                                          ELSE Filled(old.area[i])]]]
  /\ open' = open

Next ==
  \/ \E n \in Names : Open(n) \/ Save(n)
  \/ \E w \in Writes : Write(w[1], w[2])
  \/ \E d \in Headers : SetTrack0(d)
  \/ Close
  \/ \E s, t \in Names : (\E l \in Limits : Trim(s, t, l)) \/ Blank(s, t)

\* Any images may be there at first.
Init == open = Nothing

Spec == Init /\ [][Next]_vars
==============================================================================
