---------------------------- MODULE MCZkpExpense ----------------------------
(* An instance of ZkpExpense for TLC: what happens at each page. *)
EXTENDS ZkpExpense, TLC

CONSTANTS t1, t2

\* One page enrols, submits proofs, impatiently, and uploads; the other may enrol too, and
\* rekeys.
Acts == t1 :> {"salt", "challenge", "manual", "giveup", "crash", "put", "refused"} @@
        t2 :> {"salt", "begin"}

Symmetric == Permutations(Threads)
=============================================================================
