----------------------------- MODULE MCPasskeys -----------------------------
(* Instances of Passkeys for TLC: who runs where, and what happens at each page. *)
EXTENDS Passkeys, TLC

CONSTANTS t1, t2, b1

\* Two pages of one browser, and so of one session.
OneBrowser == t1 :> b1 @@ t2 :> b1

\* One page signs in and enrols, its requests sent twice; the other signs in and out,
\* registers and removes passkeys, disables protection, is refused and makes other calls.
Overlapping ==
    t1 :> {"login", "bootstrap", "resend"} @@
    t2 :> {"login", "register", "remove", "disable", "logout", "other", "refused"}

\* Both pages sign in and remove a passkey.
Removing == t1 :> {"login", "remove"} @@ t2 :> {"login", "remove", "boot"}

Symmetric == Permutations(Threads)
=============================================================================
