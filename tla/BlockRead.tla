------------------------------ MODULE BlockRead ------------------------------
(***************************************************************************)
(* What a caller of the ROM's hard-disk read services may rely on.  A       *)
(* request is a list of pages with the sector each is to receive.  The      *)
(* service fills them strictly in order; while it works on one, only that   *)
(* page may hold garbage.  It answers 0 exactly when every page was filled. *)
(* After an error one sector may still be on its way: it may be stored      *)
(* once, at any time until the next sector is delivered, and not after.     *)
(***************************************************************************)
EXTENDS Naturals, Sequences

CONSTANTS
  Contents,  \* what a page can hold
  Errors,    \* the answers that report an error
  NoAnswer   \* there is no answer yet

VARIABLES
  mem,      \* the pages
  list,     \* the request being served, <<>> when there is none
  got,      \* how many of its pages were filled
  answer,   \* what the service tells the caller
  stray     \* a sector of a failed request may still arrive

vars == <<mem, list, got, answer, stray>>

Init ==
  list = <<>> /\ got = 0 /\ answer = NoAnswer /\ stray = FALSE

\* Page p, and no other, takes some contents.
Written(p) ==
  /\ mem' = [mem EXCEPT ![p] = mem'[p]]
  /\ mem'[p] \in Contents

Request ==
  /\ list = <<>>
  /\ list' # <<>>
  /\ got' = 0
  /\ UNCHANGED <<mem, answer, stray>>

\* The page in turn is written, with its sector or with garbage.
Store ==
  /\ got < Len(list) /\ ~stray
  /\ Written(list[got + 1].page)
  /\ UNCHANGED <<list, got, answer, stray>>

Deliver ==
  /\ got < Len(list) /\ ~stray /\ answer = NoAnswer
  /\ mem[list[got + 1].page] = list[got + 1].data
  /\ got' = got + 1
  /\ answer' = IF got' = Len(list) THEN 0 ELSE NoAnswer
  /\ UNCHANGED <<mem, list, stray>>

Fail ==
  /\ list # <<>> /\ answer = NoAnswer
  /\ answer' \in Errors
  /\ UNCHANGED <<mem, list, got, stray>>

\* The caller takes the answer and may use its pages for something else.
Finish ==
  /\ answer # NoAnswer
  /\ list' = <<>> /\ got' = 0 /\ answer' = NoAnswer
  /\ stray' \in IF answer = 0 THEN {FALSE} ELSE BOOLEAN
  /\ UNCHANGED mem

\* The sector of a failed request arrives, or is lost.
Late ==
  /\ stray /\ stray' = FALSE
  /\ \/ UNCHANGED mem
     \/ \E p \in DOMAIN mem : Written(p)
  /\ UNCHANGED <<list, got, answer>>

Next == Request \/ Store \/ Deliver \/ Fail \/ Finish \/ Late

Spec == Init /\ [][Next]_vars
==============================================================================
