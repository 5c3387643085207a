----------------------------- MODULE MCDiskImage -----------------------------
(* Instances of DiskImage for TLC: disks of three cylinders with two sectors on
   a track. *)
EXTENDS DiskImage

Full(a, b)  == [type |-> 1, cells |-> <<a, b>>]
Same(a)     == [type |-> 2, cells |-> <<a>>]
Deleted(a, b) == [type |-> 3, cells |-> <<a, b>>]
Unavailable == [type |-> 0, cells |-> <<>>]

Track(c, h, order, s1, s2) ==
  [mode |-> IF c = 0 /\ h = 0 THEN FM ELSE MFM, cyl |-> c, head |-> h,
   cmap |-> <<>>, hmap |-> <<>>, size |-> IF c = 0 /\ h = 0 THEN 1 ELSE Size,
   map |-> order, secs |-> <<s1, s2>>]

One(a) == [type |-> 1, cells |-> <<a>>]

\* An interleaved disk; `tail` is its last cylinder.
Disk(tail) ==
  <<Track(0, 0, <<1, 2>>, One(1), Same(2)), Track(0, 1, <<1, 2>>, Full(3, 4), Same(5)),
    Track(1, 0, <<2, 1>>, Full(6, 7), Deleted(8, 9)),
    Track(1, 1, <<1, 2>>, Same(1), Full(2, 3))>> \o tail

ZeroTail == <<Track(2, 0, <<1, 2>>, Same(0), Full(0, 0)),
              Track(2, 1, <<2, 1>>, Unavailable, Same(0))>>

DataTail == <<Track(2, 0, <<2, 1>>, Same(4), Full(5, 6)),
              Track(2, 1, <<2, 1>>, Full(7, 7), Deleted(8, 8))>>

MCImages == {Disk(ZeroTail), Disk(DataTail), Disk(<<>>)}

MCValues == 0 .. 20 \cup {229}

\* Part of a sector, a sector and a half, over the end of a track, of a cylinder,
\* of a short disk and of a full one.
MCWrites == {<<0, <<11>>>>, <<0, <<11, 11, 12>>>>, <<1, <<11, 12, 13, 14, 15>>>>,
             <<3, <<11, 11, 12, 12>>>>, <<6, <<13, 14, 13>>>>,
             <<7, <<11, 12, 13>>>>}

MCHeaders == {<<11, 11, 12, 12, 13, 14>>, <<1, 2, 3, 4, 5, 6>>}
==============================================================================
