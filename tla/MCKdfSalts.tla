----------------------------- MODULE MCKdfSalts -----------------------------
(* Instances of KdfSalts for TLC: what happens at each page. *)
EXTENDS KdfSalts, TLC

CONSTANTS t1, t2

\* One page runs in a legacy browser, restores a backup and meets failures; the other
\* writes, erases and locks.
Restoring == t1 :> {"restore", "write", "flaky"} @@ t2 :> {"write", "reset", "lock"}

\* Two pages unlock a new vault and write to it.
FirstUnlocks == t1 :> {"write"} @@ t2 :> {"write"}

Symmetric == Permutations(Threads)
=============================================================================
