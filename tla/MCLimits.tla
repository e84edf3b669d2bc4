------------------------------ MODULE MCLimits ------------------------------
(* An instance of Limits for TLC. *)
EXTENDS Limits, TLC

CONSTANTS c1, c2, p1, r1, r2, r3, big

\* Two pages upload to one account, or one does so alone; or two sign-ins are tried at a
\* time from one address.
As(role) == [role |-> role, who |-> p1]
Pairs == {c1 :> As(x[1]) @@ c2 :> As(x[2]) :
            x \in {<<"upload", "upload">>, <<"upload", "away">>, <<"signin", "signin">>}}

\* One request a window for uploads, so that a second chunk meets the limit.
Requests == [g \in Groups |-> IF g = "upload" THEN 1 ELSE 2]
Ticks == [g \in Groups |-> 2]

\* r1 and another row fill a chunk, by number; r2 and r3 exceed it, by bytes.
Sizes == r1 :> 1 @@ r2 :> 2 @@ r3 :> 2 @@ big :> 4
Files == {<<>>, <<r1, r3, r2>>, <<r2, r3>>, <<r1, big>>}
=============================================================================
