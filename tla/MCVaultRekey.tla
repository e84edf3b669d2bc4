---------------------------- MODULE MCVaultRekey ----------------------------
(* Instances of VaultRekey for TLC: who runs where, and what happens at each page. *)
EXTENDS VaultRekey, TLC

CONSTANTS t1, t2, b1, b2

\* One page in each of two browsers.
TwoBrowsers == t1 :> b1 @@ t2 :> b2
\* Two pages of one browser, and so of one session.
OneBrowser == t1 :> b1 @@ t2 :> b1

\* One page recovers, and may be refused or lose its connection; the other uses the
\* vault, reloads and signs in again.
RecoverAndUse ==
    t1 :> {"unlock", "recover", "lose", "refused"} @@
    t2 :> {"unlock", "put", "reset", "reload", "signin"}

\* Both pages recover, one of them with reloads.
RecoverTwice ==
    t1 :> {"recover"} @@ t2 :> {"recover", "reload"}

\* One page recovers, after a step-up or not; the other writes, locks,
\* manages the recovery blob, signs out and in again without a reload.
SameSession ==
    t1 :> {"unlock", "recover", "stepup"} @@
    t2 :> {"unlock", "put", "lock", "setup", "unset", "signout", "signin"}

\* Both pages upload, and nothing else happens.
BothUpload == t1 :> {"unlock", "put"} @@ t2 :> {"unlock", "put"}

Symmetric == Permutations(Threads) \cup Permutations(Docs) \cup Permutations(Vals)
=============================================================================
