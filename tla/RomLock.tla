------------------------------- MODULE RomLock -------------------------------
(***************************************************************************)
(* What the lock directory of scripts/m40env.sh amounts to, seen from       *)
(* outside: a lock that one script owns, gives back, or takes to its grave. *)
(* The directory does not record its owner, so once the owner is gone the   *)
(* lock is an orphan and no script can ever give it back.                   *)
(***************************************************************************)
CONSTANTS
  Scripts,   \* the scripts that source m40env.sh
  Free,      \* nobody owns the lock
  Orphan     \* the owner ended without giving the lock back

VARIABLE owner

Init == owner = Free

Acquire(s) == owner = Free /\ owner' = s
Release(s) == owner = s /\ owner' = Free
Abandon(s) == owner = s /\ owner' = Orphan

Next == \E s \in Scripts : Acquire(s) \/ Release(s) \/ Abandon(s)

Spec == Init /\ [][Next]_owner
==============================================================================
