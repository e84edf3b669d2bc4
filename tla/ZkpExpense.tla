----------------------------- MODULE ZkpExpense -----------------------------
(***************************************************************************)
(* Manual expenses stored on a zero-knowledge proof: enrolment of the      *)
(* vault's key commitment, one-time proof challenges, submission of a      *)
(* proof with the verifier's verdict or outage, and what a rekey does to   *)
(* the commitment and to the records so stored.                            *)
(*                                                                         *)
(* A submission reads the commitment, claims its challenge, waits for the  *)
(* verifier and stores, each on its own transaction, while other requests  *)
(* run.  The vault's keys are generations; a commitment is the pair of a   *)
(* key and a salt.  Each page has a session of its own.  The pages follow  *)
(* the v4 client, which the application does not call yet; staging in      *)
(* chunks and the recheck of the snapshot are in VaultRekey.               *)
(***************************************************************************)
EXTENDS Naturals, FiniteSets

CONSTANTS Tabs, NoTab,      \* pages; NoTab: none of them
          Threads,          \* requests in progress at once
          Items,            \* the expenses there may be
          Does,             \* bound: what happens at each page
          MaxKey,           \* bound: key generations, one more than there may be rekeys
          MaxSalt, MaxChal  \* bounds: salts and challenges ever drawn

ASSUME ZkpExpenseAssumption ==
    /\ MaxKey \in Nat \ {0} /\ MaxSalt \in Nat /\ MaxChal \in Nat
    /\ NoTab \notin Tabs /\ DOMAIN Does = Tabs /\ Items # {}

VARIABLES
    vaultKey,    \* the key generation the vault's salts derive
    zkSalt,      \* vault_identity.zkp_vault_salt, 0 for null
    committed,   \* vault_identity.zkp_key_commitment
    chal,        \* zkp_challenges
    recs,        \* records, by blind index
    rekey,       \* the page whose rekey is active
    revoked,     \* sessions with revoked_at set
    tab,         \* the memory of each page
    req,         \* the request each thread serves
    salts,       \* how many salts have been drawn
    accepted,    \* history: how often each challenge let a record in
    judged,      \* history: challenges whose submission got a verdict
    lost,        \* history: challenges claimed by a worker that died
    survivors    \* history: sessions that outlived the latest rekey

vars == <<vaultKey, zkSalt, committed, chal, recs, rekey, revoked, tab, req, salts,
          accepted, judged, lost, survivors>>

Keys == 1..MaxKey
Chals == 1..MaxChal
Commitments == [key : 0..MaxKey, salt : 0..MaxSalt]
None == [key |-> 0, salt |-> 0]

\* A challenge belongs to a session; consumed_at is set or not, expires_at passed or not.
Challenges == [tab : Tabs \cup {NoTab}, spent : BOOLEAN, late : BOOLEAN]
Unissued == [tab |-> NoTab, spent |-> FALSE, late |-> FALSE]

\* A blind index depends on the expense and on the page's keys. A record is a sealed box
\* or the outputs of a proof; tag is circuit_version; by, the session that stored a proof.
Blinds == Items \X Keys
NoRec == [kind |-> "none", key |-> 0, chal |-> 0, tag |-> "none", by |-> NoTab]
Box(key, tag) == [kind |-> "box", key |-> key, chal |-> 0, tag |-> tag, by |-> NoTab]
Proven(key, c, by) == [kind |-> "proof", key |-> key, chal |-> c, tag |-> "v4", by |-> by]
Records ==
    {NoRec} \cup {Box(key, tag) : key \in Keys, tag \in {"none", "v2", "v4"}}
            \cup {Proven(key, c, by) : key \in Keys, c \in Chals, by \in Tabs}

Ops == {"none", "salt", "enroll", "challenge", "manual", "put", "begin", "commit"}
\* sent: session loaded. keyed: commitment read. claimed: challenge spent, verifier at
\* work. down: no verdict. valid: proof verified. ok, no: only save_session is left.
Stages == {"free", "sent", "keyed", "claimed", "down", "valid", "ok", "no"}
Free == [st |-> "free", op |-> "none", tab |-> NoTab, heard |-> FALSE, item |-> CHOOSE i \in Items : TRUE,
         key |-> 0, chal |-> 0, with |-> None, read |-> None]
\* heard: the page waits for the answer; key: the page's keys; with: the commitment in the
\* body, or the one proved about; read: the commitment this request read.
Requests == [st : Stages, op : Ops, tab : Tabs \cup {NoTab}, heard : BOOLEAN, item : Items,
             key : 0..MaxKey, chal : 0..MaxChal, with : Commitments, read : Commitments]

\* A page: its keys (0 when locked), the call it awaits, and its proof, about a challenge
\* and a commitment.
Page(key) == [key |-> key, at |-> "none", chal |-> 0, about |-> None]
Pages == [key : 0..MaxKey, at : Ops, chal : 0..MaxChal, about : Commitments]

\* Every state of the commitment, challenges, records and pages.
TypeOK ==
    /\ vaultKey \in Keys /\ zkSalt \in 0..MaxSalt /\ committed \in Commitments
    /\ chal \in [Chals -> Challenges] /\ recs \in [Blinds -> Records]
    /\ rekey \in Tabs \cup {NoTab} /\ revoked \subseteq Tabs /\ survivors \subseteq Tabs
    /\ tab \in [Tabs -> Pages] /\ req \in [Threads -> Requests]
    /\ salts \in 0..MaxSalt /\ accepted \in [Chals -> Nat]
    /\ judged \subseteq Chals /\ lost \subseteq Chals
-----------------------------------------------------------------------------
Enrolled == committed # None

At(th, op, st) == req[th].op = op /\ req[th].st = st
Finish(th, st) == req' = [req EXCEPT ![th].st = st]
Verdict(th, good, st) == Finish(th, IF good THEN st ELSE "no")

History == <<accepted, judged, lost, survivors>>
Vault == <<vaultKey, zkSalt, committed, salts>>
Rest == <<rekey, revoked, tab>>
-----------------------------------------------------------------------------
(* Enrolment, in two calls of the page *)

\* Mistakes, here and below, replace the definition they precede to test the properties.
IssueSaltAnyTime(th) ==
    /\ At(th, "salt", "sent")
    /\ salts < MaxSalt
    /\ zkSalt' = salts + 1 /\ salts' = salts + 1
    /\ req' = [req EXCEPT ![th].st = "ok", ![th].with = [key |-> 0, salt |-> salts + 1]]
    /\ UNCHANGED <<vaultKey, committed, chal, recs, Rest, History>>

\* A salt, unless a commitment is registered; it replaces the salt another page was given.
IssueSalt(th) ==
    /\ At(th, "salt", "sent")
    /\ IF Enrolled
       THEN Finish(th, "no") /\ UNCHANGED <<zkSalt, salts>>
       ELSE /\ salts < MaxSalt
            /\ zkSalt' = salts + 1 /\ salts' = salts + 1
            /\ req' = [req EXCEPT ![th].st = "ok", ![th].with = [key |-> 0, salt |-> salts + 1]]
    /\ UNCHANGED <<vaultKey, committed, chal, recs, Rest, History>>

\* The commitment is stored as it comes: it cannot be checked against the key or the salt.
Enroll(th) ==
    /\ At(th, "enroll", "sent")
    /\ LET good == ~Enrolled /\ zkSalt # 0
       IN  /\ Verdict(th, good, "ok")
           /\ committed' = IF good THEN req[th].with ELSE committed
    /\ UNCHANGED <<vaultKey, zkSalt, salts, chal, recs, Rest, History>>
-----------------------------------------------------------------------------
(* Challenges *)

\* The vault must be enrolled; the answer carries its commitment and its salt.
IssueChallenge(th) ==
    /\ At(th, "challenge", "sent")
    /\ IF Enrolled /\ zkSalt # 0
       THEN \E c \in Chals :
              /\ chal[c] = Unissued /\ \A d \in 1..(c - 1) : chal[d] # Unissued
              /\ chal' = [chal EXCEPT ![c].tab = req[th].tab]
              /\ req' = [req EXCEPT ![th].chal = c, ![th].read = committed,
                                    ![th].with = [key |-> req[th].key, salt |-> zkSalt],
                                    ![th].st = "ok"]
       ELSE Finish(th, "no") /\ UNCHANGED chal
    /\ UNCHANGED <<Vault, recs, Rest, History>>

\* expires_at passes.
Expire(c) ==
    /\ chal[c] # Unissued /\ ~chal[c].late
    /\ chal' = [chal EXCEPT ![c].late = TRUE]
    /\ UNCHANGED <<Vault, recs, Rest, req, History>>
-----------------------------------------------------------------------------
(* Submission of a proof *)

\* Read before the claim, so that a vault that never enrolled burns no challenge.
ReadKey(th) ==
    /\ At(th, "manual", "sent")
    /\ req' = [req EXCEPT ![th].st = IF Enrolled /\ zkSalt # 0 THEN "keyed" ELSE "no",
                          ![th].read = committed]
    /\ UNCHANGED <<Vault, chal, recs, Rest, History>>

\* The WHERE of the claiming UPDATE.
ClaimableThoughSpent(r) == chal[r.chal].tab = r.tab /\ ~chal[r.chal].late
Claimable(r) == chal[r.chal].tab = r.tab /\ ~chal[r.chal].spent /\ ~chal[r.chal].late

\* The public inputs are those the server builds from its own rows.
SameStatement(r) == r.with = r.read

\* The claim spends the challenge before anything is verified.  A proof about another
\* commitment than the one read is then refused, and its challenge stays spent.
Claim(th) ==
    /\ At(th, "manual", "keyed")
    /\ LET r     == req[th]
           taken == Claimable(r)
       IN  /\ chal' = IF taken THEN [chal EXCEPT ![r.chal].spent = TRUE] ELSE chal
           /\ judged' = IF taken /\ ~SameStatement(r) THEN judged \cup {r.chal} ELSE judged
           /\ Verdict(th, taken /\ SameStatement(r), "claimed")
    /\ UNCHANGED <<Vault, recs, Rest, accepted, lost, survivors>>

\* bb exits with 0, or does not, or the proof is malformed; or it times out, or is missing.
Verdicts == {"valid", "invalid", "down"}

VerifyOutageIsInvalid(th) ==
    /\ At(th, "manual", "claimed")
    /\ \E v \in Verdicts :
         /\ Finish(th, IF v = "valid" THEN v ELSE "no")
         /\ judged' = IF v = "down" THEN judged ELSE judged \cup {req[th].chal}
    /\ UNCHANGED <<Vault, chal, recs, Rest, accepted, lost, survivors>>

VerifyRefundsInvalid(th) ==
    /\ At(th, "manual", "claimed")
    /\ \E v \in Verdicts :
         /\ Finish(th, IF v = "valid" THEN v ELSE "down")
         /\ judged' = IF v = "down" THEN judged ELSE judged \cup {req[th].chal}
    /\ UNCHANGED <<Vault, chal, recs, Rest, accepted, lost, survivors>>

\* A verdict settles the challenge; without one it is given back.
Verify(th) ==
    /\ At(th, "manual", "claimed")
    /\ \E v \in Verdicts :
         /\ Finish(th, IF v = "invalid" THEN "no" ELSE v)
         /\ judged' = IF v = "down" THEN judged ELSE judged \cup {req[th].chal}
    /\ UNCHANGED <<Vault, chal, recs, Rest, accepted, lost, survivors>>

\* The verifier gave no verdict: the claim is undone, by the challenge and its session.
Refund(th) ==
    /\ At(th, "manual", "down")
    /\ chal' = [chal EXCEPT ![req[th].chal].spent = FALSE]
    /\ Finish(th, "no")
    /\ UNCHANGED <<Vault, recs, Rest, History>>

\* The write guard shared with uploads.
MayWriteThoughRevoked(r) == rekey = NoTab
MayWrite(r) == r.tab \notin revoked /\ rekey = NoTab

\* Guard and upsert in one transaction. What is stored is built from the proof's outputs.
StoreProven(th) ==
    /\ At(th, "manual", "valid")
    /\ LET r == req[th]
           b == <<r.item, r.key>>
       IN  IF MayWrite(r)
           THEN /\ recs' = [recs EXCEPT ![b] = Proven(r.with.key, r.chal, r.tab)]
                /\ accepted' = [accepted EXCEPT ![r.chal] = @ + 1]
                /\ Finish(th, "ok")
           ELSE Finish(th, "no") /\ UNCHANGED <<recs, accepted>>
    /\ UNCHANGED <<Vault, chal, Rest, judged, lost, survivors>>

\* The worker is killed, or the host restarts, while the verifier runs: no refund.
WorkerDies(th) ==
    /\ req[th].st \in {"claimed", "down"} /\ "crash" \in Does[req[th].tab]
    /\ lost' = lost \cup {req[th].chal}
    /\ tab' = IF req[th].heard THEN [tab EXCEPT ![req[th].tab].at = "none"] ELSE tab
    /\ req' = [req EXCEPT ![th] = Free]
    /\ UNCHANGED <<Vault, chal, recs, rekey, revoked, accepted, judged, survivors>>
-----------------------------------------------------------------------------
(* Uploads and rekey, as far as they touch tags and commitment *)

\* The upsert replaces the ciphertext and leaves commitment and circuit_version.
PutRecord(th) ==
    /\ At(th, "put", "sent")
    /\ LET b == <<req[th].item, req[th].key>>
       IN  IF MayWrite(req[th])
           THEN recs' = [recs EXCEPT ![b] = Box(req[th].key, @.tag)] /\ Finish(th, "ok")
           ELSE Finish(th, "no") /\ UNCHANGED recs
    /\ UNCHANGED <<Vault, chal, Rest, History>>

RekeyBegin(th) ==
    /\ At(th, "begin", "sent")
    /\ rekey' = req[th].tab
    /\ Finish(th, "ok")
    /\ UNCHANGED <<Vault, chal, recs, revoked, tab, History>>

\* Its expires_at passes, or some page aborts it.
RekeyEnds ==
    /\ rekey # NoTab
    /\ rekey' = NoTab
    /\ UNCHANGED <<Vault, chal, recs, revoked, tab, req, History>>

\* A record sealed anew under the new keys: a v4 tag would no longer describe it.
ResealedKeepingTags(r, key) == IF r = NoRec THEN NoRec ELSE Box(key, r.tag)
ResealedInPlace(r, key) == [r EXCEPT !.key = key, !.tag = IF @ = "v4" THEN "none" ELSE @]
Resealed(r, key) ==
    IF r = NoRec THEN NoRec ELSE Box(key, IF r.tag = "v4" THEN "none" ELSE r.tag)

\* The page could open every record there is, and so has staged it anew.
Replaceable == \A b \in Blinds : recs[b] # NoRec => recs[b].key = vaultKey

CommitAllowedAnyhow(r) == rekey = r.tab /\ Replaceable
\* The page's rekey is active, and a new commitment comes exactly when one is registered.
CommitAllowed(r) == rekey = r.tab /\ Replaceable /\ (r.with = None <=> ~Enrolled)

\* Records, keys and commitment change together, and every other session is revoked.
RekeyCommit(th) ==
    /\ At(th, "commit", "sent")
    /\ LET new == vaultKey + 1
       IN  IF CommitAllowed(req[th])
           THEN /\ new \in Keys
                /\ recs' = [b \in Blinds |->
                              IF b[2] = new THEN Resealed(recs[<<b[1], vaultKey>>], new) ELSE NoRec]
                /\ vaultKey' = new
                /\ committed' = IF req[th].with = None THEN committed ELSE req[th].with
                /\ rekey' = NoTab
                /\ revoked' = revoked \cup (Tabs \ {req[th].tab}) /\ survivors' = {req[th].tab}
                /\ Finish(th, "ok")
           ELSE Finish(th, "no") /\ UNCHANGED <<recs, vaultKey, committed, rekey, revoked, survivors>>
    /\ UNCHANGED <<zkSalt, salts, chal, tab, accepted, judged, lost>>
-----------------------------------------------------------------------------
(* Pages *)

\* What the page's handler does with an answer. A proof is made at once, and only about a
\* commitment that the page's own keys and the salt give.
Continue(page, r) ==
    IF r.st = "no" THEN [page EXCEPT !.at = "none"]
    ELSE CASE r.op = "salt"      -> [page EXCEPT !.at = "enroll", !.about = r.with]
           [] r.op = "challenge" -> IF r.with = r.read
                                    THEN [page EXCEPT !.at = "manual", !.chal = r.chal, !.about = r.read]
                                    ELSE [page EXCEPT !.at = "none", !.chal = 0, !.about = None]
           [] r.op = "begin"     -> [page EXCEPT !.at = "commit"]
           [] r.op = "commit"    -> Page(0)
           [] OTHER              -> [page EXCEPT !.at = "none"]

\* save_session ends every request and writes the session back as it was loaded, with
\* revoked_at cleared.
SaveSession(th) ==
    /\ req[th].st \in {"ok", "no"}
    /\ LET t == req[th].tab
       IN  /\ revoked' = revoked \ {t}
           /\ survivors' = IF t \in revoked THEN survivors \cup {t} ELSE survivors
           /\ tab' = IF req[th].heard THEN [tab EXCEPT ![t] = Continue(@, req[th])] ELSE tab
    /\ req' = [req EXCEPT ![th] = Free]
    /\ UNCHANGED <<Vault, chal, recs, rekey, accepted, judged, lost>>

Waiting(t) == \E th \in Threads : req[th].tab = t /\ req[th].heard

\* The body of a call: the new commitment of an enrolment or of a rekey, whose page reads
\* whether one is registered and keeps its salt; or the commitment proved about.
Body(t, op) ==
    CASE op = "enroll" -> [key |-> tab[t].key, salt |-> tab[t].about.salt]
      [] op = "manual" -> tab[t].about
      [] op = "commit" -> IF Enrolled THEN [key |-> vaultKey + 1, salt |-> zkSalt] ELSE None
      [] OTHER         -> None

\* The session is loaded and found live.
Send(t, th, op) ==
    /\ t \notin revoked /\ ~Waiting(t) /\ req[th] = Free
    /\ op = "commit" => vaultKey < MaxKey
    /\ \E i \in Items :
         /\ op \notin {"manual", "put"} => i = Free.item
         /\ req' = [req EXCEPT ![th] = [st |-> "sent", op |-> op, tab |-> t, heard |-> TRUE, item |-> i,
                       key |-> tab[t].key, chal |-> IF op = "manual" THEN tab[t].chal ELSE 0,
                       with |-> Body(t, op), read |-> None]]
    /\ tab' = [tab EXCEPT ![t].at = op]
    /\ UNCHANGED <<Vault, chal, recs, rekey, revoked, History>>

\* A user starts a flow, or submits the same proof again.
Start(t, th) ==
    /\ tab[t].at = "none" /\ tab[t].key # 0
    /\ \E op \in Does[t] \cap {"salt", "challenge", "manual", "put", "begin"} :
         /\ op = "manual" => tab[t].chal # 0
         /\ Send(t, th, op)

\* The next call of a flow.
Follow(t, th) == tab[t].at \in {"enroll", "manual", "commit"} /\ Send(t, th, tab[t].at)

\* A call of a page whose session has ended is refused.
SignedOut(t) ==
    /\ t \in revoked /\ tab[t].at # "none" /\ ~Waiting(t)
    /\ tab' = [tab EXCEPT ![t].at = "none"]
    /\ UNCHANGED <<Vault, chal, recs, rekey, revoked, req, History>>

\* The answer is lost on the way, or the page stops waiting; it keeps its proof.
GiveUp(t) ==
    /\ "giveup" \in Does[t]
    /\ \E th \in Threads :
         /\ req[th].tab = t /\ req[th].heard /\ req[th].op = "manual"
         /\ req' = [req EXCEPT ![th].heard = FALSE]
    /\ tab' = [tab EXCEPT ![t].at = "none"]
    /\ UNCHANGED <<Vault, chal, recs, rekey, revoked, History>>

\* The page derives its keys again from the vault's salts.
Unlock(t) ==
    /\ tab[t] = Page(0) /\ t \notin revoked
    /\ tab' = [tab EXCEPT ![t].key = vaultKey]
    /\ UNCHANGED <<Vault, chal, recs, rekey, revoked, req, History>>

\* A call may be refused before it does anything: a rate limit, the step-up, artifacts that
\* are missing, a malformed body.
Refuse(th) ==
    /\ req[th].st = "sent" /\ "refused" \in Does[req[th].tab]
    /\ Finish(th, "no")
    /\ UNCHANGED <<Vault, chal, recs, Rest, History>>
-----------------------------------------------------------------------------
Init ==
    /\ vaultKey = 1 /\ zkSalt = 0 /\ committed = None /\ salts = 0
    /\ chal = [c \in Chals |-> Unissued]
    /\ recs \in {r \in [Blinds -> {NoRec, Box(1, "v2")}] : \A b \in Blinds : b[2] # 1 => r[b] = NoRec}
    /\ rekey = NoTab /\ revoked = {} /\ survivors = Tabs
    /\ tab = [t \in Tabs |-> Page(1)]
    /\ req = [th \in Threads |-> Free]
    /\ accepted = [c \in Chals |-> 0] /\ judged = {} /\ lost = {}

Step(th) ==
    \/ IssueSalt(th) \/ Enroll(th) \/ IssueChallenge(th)
    \/ ReadKey(th) \/ Claim(th) \/ Verify(th) \/ Refund(th) \/ StoreProven(th) \/ WorkerDies(th)
    \/ PutRecord(th) \/ RekeyBegin(th) \/ RekeyCommit(th)
    \/ Refuse(th) \/ SaveSession(th)

Next ==
    \/ \E th \in Threads : Step(th)
    \/ \E t \in Tabs, th \in Threads : Start(t, th) \/ Follow(t, th)
    \/ \E t \in Tabs : SignedOut(t) \/ GiveUp(t) \/ Unlock(t)
    \/ \E c \in Chals : Expire(c)
    \/ RekeyEnds

Spec == Init /\ [][Next]_vars
-----------------------------------------------------------------------------
(* Properties *)

\* A challenge lets at most one record in, however often its proof is submitted and
\* however often an outage gives the challenge back.
OneRecordPerChallenge == \A c \in Chals : accepted[c] <= 1

\* Once a submission got a verdict, its challenge is never claimable again: an outage met
\* by another submission of it must not give it back.
JudgedStaysSpent == [][\A c \in judged : chal'[c].spent]_vars

\* An outage of the verifier burns no challenge: a spent one got a verdict, is in the hands
\* of a submission still at work, or was claimed by a worker that died.
OutageBurnsNothing ==
    \A c \in Chals : chal[c].spent =>
        \/ c \in judged \cup lost
        \/ \E th \in Threads : req[th].chal = c /\ req[th].st \in {"claimed", "down"}

\* Once registered, commitment and salt stay until a rekey replaces the keys and, in the
\* same step, the commitment by that of the new keys under the salt the vault has. So a
\* salt asked for twice, or an enrolment in between, cannot leave a rekeyed vault with a
\* commitment its page cannot prove about.
CommitmentFollowsKeys ==
    [][Enrolled => \/ committed' = committed /\ zkSalt' = zkSalt /\ vaultKey' = vaultKey
                   \/ /\ vaultKey' # vaultKey
                      /\ committed' = [key |-> vaultKey', salt |-> zkSalt] /\ zkSalt' = zkSalt]_vars

\* The v4 tag says that the ciphertext was proven. It appears only on the outputs of a
\* proof, made with the keys committed to; and no rekey lets it through.
TagAppearsWithProof ==
    [][\A b \in Blinds :
         recs'[b].tag = "v4" /\ (recs[b].tag # "v4" \/ vaultKey' # vaultKey) =>
             recs'[b].kind = "proof" /\ recs'[b].chal \in judged]_vars

\* A submission reads the commitment seconds before it stores, and a rekey may come
\* between. A proven record under other keys than the vault's was stored by a session that
\* outlived that rekey.
StaleProofsFromSurvivors ==
    \A b \in Blinds :
        recs[b].kind = "proof" /\ recs[b].key # vaultKey => recs[b].by \in survivors
=============================================================================
