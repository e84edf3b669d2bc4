------------------------------- MODULE Limits -------------------------------
(***************************************************************************)
(* Rate limits and account lockout, and the two clients that meet them:    *)
(* a page that uploads sealed records in chunks and waits when it is told  *)
(* to, and sign-ins with a passkey that may fail.                          *)
(*                                                                         *)
(* Time is the server's clock in ticks, modulo Period.  A request counts   *)
(* in its bucket in one statement; the lockout is read when a sign-in      *)
(* starts to be verified and a failure is recorded when that is over, at   *)
(* the time it started.  All sign-ins are to one account.  The challenge   *)
(* of a sign-in is in Passkeys, what an upload overwrites in VaultRekey.   *)
(***************************************************************************)
EXTENDS Naturals, Integers, FiniteSets, SequencesExt

CONSTANTS Clients,
          Principals,        \* accounts, or addresses of clients that are not signed in
          Casts,             \* bound: who uploads and who signs in, and as whom
          Limit, Window,     \* RATE_LIMITS, in ticks, of the groups "upload" and "login_verify"
          Period,            \* a multiple of both windows
          Rows, Size,        \* sealed records, and their bytes in a body
          Uploads,           \* bound: what a page may upload
          Wrapper,           \* bytes of a body without records
          MaxRecords, MaxBytes,        \* a page's bounds on a chunk
          BatchRecords, RequestBytes,  \* the server's
          Retries, MaxSleep,
          MaxFail, LockSpan, AnnounceSpan

Groups == {"upload", "login_verify"}

ASSUME LimitsAssumption ==
    /\ Limit \in [Groups -> Nat \ {0}] /\ Window \in [Groups -> Nat \ {0}]
    /\ Period \in Nat \ {0} /\ \A g \in Groups : Period % Window[g] = 0
    /\ Size \in [Rows -> Nat \ {0}] /\ Uploads \subseteq Seq(Rows) /\ Wrapper \in Nat
    /\ {MaxRecords, MaxBytes, BatchRecords, RequestBytes, MaxFail} \subseteq Nat \ {0}
    /\ {Retries, MaxSleep, LockSpan, AnnounceSpan} \subseteq Nat
    /\ Casts \subseteq [Clients -> [role : {"upload", "signin", "away"}, who : Principals]]
    /\ IsFiniteSet(Clients)

\* The page's constants and the server's defaults: a chunk fits the server's bounds, and a
\* page may sleep for a whole window and send a chunk again.
ASSUME ClientFitsServer ==
    /\ MaxRecords <= BatchRecords /\ MaxBytes <= RequestBytes
    /\ Window["upload"] <= MaxSleep /\ Retries > 0

VARIABLES
    now,       \* the clock
    rows,      \* rate_limits
    failures,  \* audit_events: PASSKEY_AUTH_FAILUREs, by age
    locked,    \* audit_events: the age of the youngest ACCOUNT_LOCKED
    client,    \* the memory of each client, and of the request that serves it
    served,    \* history: requests let through in each bucket, by age
    got,       \* history: the rows that the server stored of each upload
    refused    \* history: in how many windows a chunk was refused, and whether in this one

vars == <<now, rows, failures, locked, client, served, got, refused>>

Buckets == Groups \X Principals
\* left: ticks until expires_at, from which window_start follows. The count saturates once
\* it is over the limit; that of a past window is not read again.
Row == [bucket : Buckets, left : Int, count : Nat]

Ages == 0..LockSpan
Never == AnnounceSpan + 1
TooOld == LockSpan + AnnounceSpan + 1

\* upload: chunk and attempt count from 1 and 0, wait is the rest of a sleep. signin: age
\* counts from the start of the transaction that reads the lockout.
States == {"idle", "send", "sleep", "done", "oversize", "failed", "gaveup", "rejected",
           "arrived", "announce", "checked"}
Client == [role : {"upload", "signin", "away"}, who : Principals, st : States, rows : Seq(Rows),
           chunk : Nat, attempt : 0..Retries, wait : 0..MaxSleep, age : 0..TooOld]

\* Every state of the counters, the events and the clients.
TypeOK ==
    /\ now \in 0..(Period - 1)
    /\ \A r \in rows : r \in Row /\ r.left \in (-1)..Window[r.bucket[1]] /\ r.count <= Limit[r.bucket[1]] + 1
    /\ failures \in [Ages -> Nat] /\ locked \in 0..Never
    /\ client \in [Clients -> Client]
    /\ \A b \in Buckets : served[b] \in [0..(Window[b[1]] - 1) -> Nat]
    /\ got \in [Clients -> Seq(Rows)]
    /\ refused \in [Clients -> [windows : 0..(Retries + 1), here : BOOLEAN]]
-----------------------------------------------------------------------------
Group(c) == IF client[c].role = "upload" THEN "upload" ELSE "login_verify"
Bucket(c) == <<Group(c), client[c].who>>

SumTo(f, n) == LET sum[i \in 0..n] == IF i = 0 THEN f[0] ELSE sum[i - 1] + f[i] IN sum[n]
Least(a, b) == IF a <= b THEN a ELSE b
Most(a, b) == IF a >= b THEN a ELSE b
-----------------------------------------------------------------------------
(* The rate limit of a request *)

Left(g) == Window[g] - (now % Window[g])
Current(b) == {r \in rows : r.bucket = b /\ r.left = Left(b[1])}
Count(b) == IF Current(b) = {} THEN 0 ELSE (CHOOSE r \in Current(b) : TRUE).count
Within(b) == Count(b) < Limit[b[1]]
RetryAfter(g) == Most(1, Left(g))

\* Mistakes, here and below, replace the definition they precede to test the properties.
ExpiredTooSoon(rs) == {r \in rs : r.left < Window[r.bucket[1]]}
Expired(rs) == {r \in rs : r.left < 0}

\* Insert the row of this window or count in it; now and then delete rows that have expired.
CountRequest(b) ==
    LET row == [bucket |-> b, left |-> Left(b[1]), count |-> Least(Count(b), Limit[b[1]]) + 1]
        counted == (rows \ Current(b)) \cup {row}
    IN  /\ \E cleans \in BOOLEAN : rows' = IF cleans THEN counted \ Expired(counted) ELSE counted
        /\ served' = IF Within(b) THEN [served EXCEPT ![b][0] = @ + 1] ELSE served
-----------------------------------------------------------------------------
(* Uploads *)

AddRowLosingOne(acc, row) ==
    IF acc.open # <<>> /\ (Len(acc.open) >= MaxRecords \/ acc.bytes + Size[row] > MaxBytes)
    THEN [full |-> Append(acc.full, acc.open), open |-> <<>>, bytes |-> Wrapper]
    ELSE [acc EXCEPT !.open = Append(@, row), !.bytes = @ + Size[row]]

\* A chunk is closed when the next row would exceed it.
AddRow(acc, row) ==
    IF acc.open # <<>> /\ (Len(acc.open) >= MaxRecords \/ acc.bytes + Size[row] > MaxBytes)
    THEN [full |-> Append(acc.full, acc.open), open |-> <<row>>, bytes |-> Wrapper + Size[row]]
    ELSE [acc EXCEPT !.open = Append(@, row), !.bytes = @ + Size[row]]

chunkSealedRecords(rs) ==
    LET acc == FoldLeft(AddRow, [full |-> <<>>, open |-> <<>>, bytes |-> Wrapper], rs)
    IN  IF acc.open = <<>> THEN acc.full ELSE Append(acc.full, acc.open)

Oversize(rs) == \E i \in DOMAIN rs : Wrapper + Size[rs[i]] > MaxBytes

ChunksOf == [rs \in Uploads |-> chunkSealedRecords(rs)]
Chunks(c) == ChunksOf[client[c].rows]

\* The server takes a batch of so many records in a body of so many bytes.
Accepts(rs) ==
    Len(rs) <= BatchRecords /\ Wrapper + SumTo([i \in 0..Len(rs) |-> IF i = 0 THEN 0 ELSE Size[rs[i]]], Len(rs)) <= RequestBytes

Resting == {"idle", "done", "oversize", "failed", "gaveup"}
Idle(role, who) ==
    [role |-> role, who |-> who, st |-> "idle", rows |-> <<>>, chunk |-> 0, attempt |-> 0, wait |-> 0, age |-> 0]

\* A user uploads, now or again later.
StartUpload(c) ==
    /\ client[c].role = "upload" /\ client[c].st \in Resting
    /\ \E rs \in Uploads :
         LET st == CASE Oversize(rs) -> "oversize" [] rs = <<>> -> "done" [] OTHER -> "send"
         IN  client' = [client EXCEPT ![c] = [Idle("upload", client[c].who) EXCEPT !.st = st, !.rows = rs,
                                                                                  !.chunk = 1]]
    /\ got' = [got EXCEPT ![c] = <<>>]
    /\ refused' = [refused EXCEPT ![c] = [windows |-> 0, here |-> FALSE]]
    /\ UNCHANGED <<now, rows, failures, locked, served>>

\* How long to wait before the chunk is sent again.
PauseTooShort(retryAfter) == Least(Most(retryAfter, 1), MaxSleep - 1)
Pause(retryAfter) == Least(Most(retryAfter, 1), MaxSleep)

TriesOneMore(c) == client[c].attempt <= Retries
MayRetry(c) == client[c].attempt < Retries

\* Over the limit: wait as told and try again, but not for ever.
PostRefused(c) ==
    /\ client[c].st = "send" /\ ~Within(Bucket(c))
    /\ CountRequest(Bucket(c))
    /\ client' = [client EXCEPT ![c] = IF MayRetry(c)
                                       THEN [@ EXCEPT !.st = "sleep", !.wait = Pause(RetryAfter("upload"))]
                                       ELSE [@ EXCEPT !.st = "gaveup"]]
    /\ refused' = [refused EXCEPT ![c].windows = IF refused[c].here THEN @ ELSE Least(@ + 1, Retries + 1),
                                  ![c].here = TRUE]
    /\ UNCHANGED <<now, failures, locked, got>>

\* Let through: the chunk is stored and the next one is sent, or the upload is over.
PostStored(c) ==
    LET chunk == Chunks(c)[client[c].chunk]
    IN  /\ client[c].st = "send" /\ Within(Bucket(c))
        /\ CountRequest(Bucket(c))
        /\ got' = [got EXCEPT ![c] = IF Accepts(chunk) THEN @ \o chunk ELSE @]
        /\ client' = [client EXCEPT ![c] = [@ EXCEPT !.chunk = client[c].chunk + 1, !.attempt = 0,
                         !.st = IF ~Accepts(chunk) THEN "rejected"
                                ELSE IF client[c].chunk = Len(Chunks(c)) THEN "done" ELSE "send"]]
        /\ refused' = [refused EXCEPT ![c] = [windows |-> 0, here |-> FALSE]]
        /\ UNCHANGED <<now, failures, locked>>

\* Any other failure ends the upload, the request having been counted or not, its chunk stored or not.
PostFails(c) ==
    /\ client[c].st = "send"
    /\ \/ UNCHANGED <<rows, served, got>>
       \/ /\ CountRequest(Bucket(c))
          /\ \/ UNCHANGED got
             \/ Within(Bucket(c)) /\ got' = [got EXCEPT ![c] = @ \o Chunks(c)[client[c].chunk]]
    /\ client' = [client EXCEPT ![c].st = "failed"]
    /\ UNCHANGED <<now, failures, locked, refused>>

WakeUncounted(c) ==
    /\ client[c].st = "sleep" /\ client[c].wait = 0
    /\ client' = [client EXCEPT ![c].st = "send"]
    /\ UNCHANGED <<now, rows, failures, locked, served, got, refused>>

Wake(c) ==
    /\ client[c].st = "sleep" /\ client[c].wait = 0
    /\ client' = [client EXCEPT ![c].st = "send", ![c].attempt = @ + 1]
    /\ UNCHANGED <<now, rows, failures, locked, served, got, refused>>
-----------------------------------------------------------------------------
(* Sign-ins *)

\* login_verify, up to the transaction in which it reads the passkey and the lockout.
SignIn(c) ==
    /\ client[c].role = "signin" /\ client[c].st = "idle"
    /\ CountRequest(Bucket(c))
    /\ client' = [client EXCEPT ![c].st = IF Within(Bucket(c)) THEN "arrived" ELSE "idle"]
    /\ UNCHANGED <<now, failures, locked, got, refused>>

LockedByRecent == SumTo(failures, LockSpan - 1) >= MaxFail
Locked == SumTo(failures, LockSpan) >= MaxFail

CheckLockCountingRefusals(c) ==
    /\ client[c].st = "arrived"
    /\ client' = [client EXCEPT ![c].age = 0, ![c].st = "checked"]
    /\ UNCHANGED <<now, rows, failures, locked, served, got, refused>>

\* Locked: refused, and announced unless that was done lately.
CheckLock(c) ==
    /\ client[c].st = "arrived"
    /\ client' = [client EXCEPT ![c].age = 0,
                     ![c].st = IF ~Locked THEN "checked" ELSE IF locked = Never THEN "announce" ELSE "idle"]
    /\ UNCHANGED <<now, rows, failures, locked, served, got, refused>>

\* An event gets the time its transaction started.
Announce(c) ==
    /\ client[c].st = "announce"
    /\ locked' = Least(locked, client[c].age)
    /\ client' = [client EXCEPT ![c].st = "idle", ![c].age = 0]
    /\ UNCHANGED <<now, rows, failures, served, got, refused>>

\* The assertion holds, which changes nothing here, or a failure is recorded.
Verify(c) ==
    /\ client[c].st = "checked"
    /\ failures' \in {failures,
                      IF client[c].age \in Ages THEN [failures EXCEPT ![client[c].age] = @ + 1] ELSE failures}
    /\ client' = [client EXCEPT ![c].st = "idle", ![c].age = 0]
    /\ UNCHANGED <<now, rows, locked, served, got, refused>>
-----------------------------------------------------------------------------
(* Time *)

Aged(r) == IF r.left > 1 THEN [r EXCEPT !.left = @ - 1]
                         ELSE [r EXCEPT !.left = Most(@ - 1, -1), !.count = 0]

Older(f) == [age \in DOMAIN f |-> IF age = 0 THEN 0 ELSE f[age - 1]]

Tick ==
    /\ now' = (now + 1) % Period
    /\ rows' = {Aged(r) : r \in rows}
    /\ failures' = Older(failures)
    /\ locked' = Least(locked + 1, Never)
    /\ served' = [b \in Buckets |-> Older(served[b])]
    /\ client' = [c \in Clients |->
          [client[c] EXCEPT !.wait = Most(@ - 1, 0),
                            !.age = IF client[c].st \in {"checked", "announce"}
                                    THEN Least(@ + 1, TooOld) ELSE 0]]
    /\ refused' = [c \in Clients |->
          IF now' % Window["upload"] = 0 THEN [refused[c] EXCEPT !.here = FALSE] ELSE refused[c]]
    /\ UNCHANGED got
-----------------------------------------------------------------------------
Init ==
    /\ now \in 0..(Period - 1) /\ rows = {}
    /\ failures = [age \in Ages |-> 0] /\ locked = Never
    /\ \E cast \in Casts : client = [c \in Clients |-> Idle(cast[c].role, cast[c].who)]
    /\ served = [b \in Buckets |-> [age \in 0..(Window[b[1]] - 1) |-> 0]]
    /\ got = [c \in Clients |-> <<>>]
    /\ refused = [c \in Clients |-> [windows |-> 0, here |-> FALSE]]

Upload(c) == PostRefused(c) \/ PostStored(c) \/ PostFails(c) \/ Wake(c)

Next ==
    \/ \E c \in Clients : \/ StartUpload(c) \/ Upload(c)
                          \/ SignIn(c) \/ CheckLock(c) \/ Announce(c) \/ Verify(c)
    \/ Tick

Spec == Init /\ [][Next]_vars

\* Time passes, and a page that uploads keeps running. Nothing makes a user start.
FairSpec == Spec /\ WF_vars(Tick) /\ \A c \in Clients : WF_vars(Upload(c))
-----------------------------------------------------------------------------
(* Properties *)

\* Windows are fixed: within any span of a window's length, across the edge of two, at most
\* twice the limit gets through; cleaning up never forgets a window that still counts.
SpanBounded == \A b \in Buckets : SumTo(served[b], Window[b[1]] - 1) <= 2 * Limit[b[1]]

\* What is stored of an upload is the rows in their order, all of them
\* once it is done, none if one was too large; no chunk is more than the server takes,
\* whichever chunks were refused and sent again.
StoredInOrder ==
    \A c \in Clients :
        LET st == client[c].st
        IN  /\ st # "rejected"
            /\ IsPrefix(got[c], client[c].rows)
            /\ st = "done" => got[c] = client[c].rows
            /\ st = "oversize" => got[c] = <<>>

Alone(c) == \A d \in Clients \ {c} : client[d].role # "upload" \/ client[d].who # client[c].who

\* Waiting as told leads into the next window: a page gives a chunk up only after it was
\* refused in one window more than it may retry, so never if it uploads alone.
GivesUpLate ==
    \A c \in Clients :
        client[c].st = "gaveup" => refused[c].windows = Retries + 1 /\ ~Alone(c)

\* Sign-ins at the same moment read the same count: failures within the span of the lockout
\* exceed the limit by at most the other requests in progress.
FailuresBounded == SumTo(failures, LockSpan) <= MaxFail + Cardinality(Clients) - 1

\* Every upload ends, also when another page takes the whole budget again and again.
UploadEnds ==
    \A c \in Clients : client[c].st \in {"send", "sleep"} ~> client[c].st \in Resting

\* A lockout ends by itself, however persistently sign-ins are tried meanwhile.
LockEnds == Locked ~> ~Locked
=============================================================================
