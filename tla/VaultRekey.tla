----------------------------- MODULE VaultRekey -----------------------------
(***************************************************************************)
(* Record writes against re-encryption (rekey) of one vault: app.py's      *)
(* handlers at the granularity of their database statements, the browser   *)
(* pages of static/app.js that call them, and the server-side sessions     *)
(* that carry the calls.                                                   *)
(*                                                                         *)
(* A generation stands for one pair of random salts and so for every key   *)
(* derived from it; the number of a rekey also names the salts its page    *)
(* draws, both being fresh random strings.  A document sealed under        *)
(* generation g has blind index <<g, doc>>.  PostgreSQL runs READ          *)
(* COMMITTED: a handler's reads are steps of their own, its writes land    *)
(* together in the step that commits, and a lock on the identity row is    *)
(* held by the handlers between the two.                                   *)
(* The vault has salts, a passkey and no ZK key commitment.                *)
(***************************************************************************)
EXTENDS Naturals, FiniteSets

CONSTANTS Docs, Vals, NoVal,
          Tabs, NoTab,        \* pages; NoTab: nobody waits for this answer any more
          Browsers,           \* cookie jars
          BrowserOf,          \* the browser a page runs in
          Threads,            \* requests in progress at once: gunicorn's threads
          Does,               \* bound: what happens at each page
          MaxGen, MaxSid,     \* bounds: generations and session ids ever drawn
          MaxTotal,           \* MAX_TOTAL_RECORDS
          MaxChunk            \* UPLOAD_MAX_RECORDS

ASSUME ModelAssumption ==
    /\ MaxGen \in Nat /\ MaxGen >= 1 /\ MaxSid \in Nat /\ MaxTotal \in Nat /\ MaxChunk \in Nat
    /\ NoVal \notin Vals /\ NoTab \notin Tabs
    /\ BrowserOf \in [Tabs -> Browsers] /\ DOMAIN Does = Tabs
    /\ IsFiniteSet(Docs) /\ IsFiniteSet(Browsers) /\ Cardinality(Browsers) <= MaxSid

VARIABLES
    live,       \* records: what is stored under each blind index
    salts,      \* vault_identity.kdf_salt_*: the generation they belong to
    blob,       \* vault_identity.recovery_blob: the generation it unwraps to, 0 if null
    rekey,      \* the row of vault_rekeys (identity_id is unique): id 0 if there is none
    staged,     \* vault_rekey_records, all of that row (ON DELETE CASCADE)
    revoked,    \* the server_sessions rows with revoked_at set
    drawn,      \* how many generations and session ids have been drawn
    cookie,     \* each browser's session cookie, 0 for none
    tab,        \* the memory of each page
    req,        \* the request each thread serves
    survivors   \* history: sessions that the last commit left to pages opened before it

vars == <<live, salts, blob, rekey, staged, revoked, drawn, cookie, tab, req, survivors>>

Gens == 1..MaxGen
Blinds == Gens \X Docs
Empty == [b \in Blinds |-> NoVal]
Stored(vault) == {b \in Blinds : vault[b] # NoVal}
Rows == [old : Blinds, new : Blinds, val : Vals]
NoRekey == [id |-> 0, base |-> Empty, open |-> FALSE]

Ops == {"none", "put", "reset", "setup", "unset", "begin", "stage", "commit", "abort"}
\* A thread's request: sent (session loaded, first statement to come), locked, counted
\* (identity row locked FOR SHARE), checked (a first read done, nothing locked),
\* ready (row locked FOR UPDATE), and ok or no once only save_session is left.
Stages == {"free", "sent", "locked", "counted", "checked", "ready", "ok", "no"}
Free == [st |-> "free", op |-> "none", tab |-> NoTab, sid |-> 0, id |-> 0, rows |-> {}]

\* A page: KEYS and CACHED_SALTS (generations, 0 for null), CSRF (the session it came
\* with), the step its current handler awaits, and the recovery flow's locals. id
\* outlives a recovery that reported failure, until the page starts something else.
Steps == {"idle", "write", "unlock", "load", "begin", "fetch", "stage", "commit", "abort"}
Page(sid) == [keys |-> 0, cache |-> 0, csrf |-> sid, at |-> "idle", seed |-> 0, id |-> 0, todo |-> {}]

Vaults == [Blinds -> Vals \cup {NoVal}]
Rekeys == [id : 0..MaxGen, base : Vaults, open : BOOLEAN]
Pages == [keys : 0..MaxGen, cache : 0..MaxGen, csrf : 0..MaxSid, at : Steps,
          seed : 0..MaxGen, id : 0..MaxGen, todo : SUBSET Rows]
Requests == [st : Stages, op : Ops, tab : Tabs \cup {NoTab}, sid : 0..MaxSid,
             id : 0..MaxGen, rows : SUBSET Rows]

\* Every state of the vault, its sessions and its pages.
TypeOK ==
    /\ live \in Vaults
    /\ salts \in Gens /\ blob \in 0..MaxGen
    /\ rekey \in Rekeys /\ staged \subseteq Rows
    /\ revoked \subseteq 0..MaxSid /\ survivors \subseteq 0..MaxSid
    /\ drawn \in [gens : Gens, sids : 0..MaxSid]
    /\ cookie \in [Browsers -> 0..MaxSid]
    /\ tab \in [Tabs -> Pages]
    /\ req \in [Threads -> Requests]
-----------------------------------------------------------------------------
(* Sessions and locks *)

Live(sid) == sid # 0 /\ sid \notin revoked
Jar(t) == cookie[BrowserOf[t]]
\* A GET carries the cookie; a POST also the CSRF token of that very session.
MayRead(t) == Live(Jar(t))
MayPost(t) == Live(Jar(t)) /\ tab[t].csrf = Jar(t)

Holds(th, stages) == req[th].st \in stages
ForUpdateFree == \A th \in Threads : ~Holds(th, {"locked", "counted", "ready"})
ForShareFree == \A th \in Threads : ~Holds(th, {"ready"})

Finish(th, st) == req' = [req EXCEPT ![th].st = st]
Verdict(th, good, st) == Finish(th, IF good THEN st ELSE "no")
At(th, op, st) == req[th].op = op /\ req[th].st = st

DatabaseRows == <<live, salts, blob, rekey, staged>>
Elsewhere == <<revoked, drawn, cookie, tab, survivors>>

-----------------------------------------------------------------------------
(* Handlers of record writes *)

\* Mistakes, each replacing the definition it is named after when the properties are tested.
VaultWriteGuardIgnoringRekey(th) ==
    /\ req[th].op \in {"put", "reset"} /\ req[th].st = "sent"
    /\ ForShareFree
    /\ Verdict(th, req[th].sid \notin revoked, "locked")
    /\ UNCHANGED <<DatabaseRows, Elsewhere>>

VaultWriteGuardIgnoringRevocation(th) ==
    /\ req[th].op \in {"put", "reset"} /\ req[th].st = "sent"
    /\ ForShareFree
    /\ Verdict(th, ~rekey.open, "locked")
    /\ UNCHANGED <<DatabaseRows, Elsewhere>>

\* Waits for the shared lock, then refuses a revoked session or a vault in rekey.
VaultWriteGuard(th) ==
    /\ req[th].op \in {"put", "reset"} /\ req[th].st = "sent"
    /\ ForShareFree
    /\ Verdict(th, ~rekey.open /\ req[th].sid \notin revoked, "locked")
    /\ UNCHANGED <<DatabaseRows, Elsewhere>>

\* The quota is counted under the shared lock, which other uploads hold too.
PutCount(th) ==
    /\ At(th, "put", "locked")
    /\ LET new == {r.new : r \in req[th].rows}
       IN  Verdict(th, Cardinality(Stored(live) \cup new) <= MaxTotal, "counted")
    /\ UNCHANGED <<DatabaseRows, Elsewhere>>

Upsert(vault, rows) ==
    [b \in Blinds |-> IF \E r \in rows : r.new = b
                      THEN (CHOOSE r \in rows : r.new = b).val ELSE vault[b]]

PutStore(th) ==
    /\ At(th, "put", "counted")
    /\ live' = Upsert(live, req[th].rows)
    /\ Finish(th, "ok")
    /\ UNCHANGED <<salts, blob, rekey, staged, Elsewhere>>

ResetDelete(th) ==
    /\ At(th, "reset", "locked")
    /\ live' = Empty
    /\ Finish(th, "ok")
    /\ UNCHANGED <<salts, blob, rekey, staged, Elsewhere>>
-----------------------------------------------------------------------------
(* Handlers of rekey *)

RekeyBeginUnlimited(th) ==
    /\ At(th, "begin", "sent")
    /\ ForUpdateFree
    /\ drawn' = [drawn EXCEPT !.gens = @ + 1]
    /\ rekey' = [id |-> drawn.gens + 1, base |-> live, open |-> TRUE]
    /\ staged' = {}
    /\ req' = [req EXCEPT ![th].st = "ok", ![th].id = drawn.gens + 1]
    /\ UNCHANGED <<live, salts, blob, revoked, cookie, tab, survivors>>

\* One transaction under FOR UPDATE: the old rekey goes, with its staged rows, and a
\* snapshot of the live records is taken.
RekeyBegin(th) ==
    /\ At(th, "begin", "sent")
    /\ ForUpdateFree
    /\ drawn.gens < MaxGen
    /\ drawn' = [drawn EXCEPT !.gens = @ + 1]
    /\ rekey' = [id |-> drawn.gens + 1, base |-> live, open |-> TRUE]
    /\ staged' = {}
    /\ req' = [req EXCEPT ![th].st = "ok", ![th].id = drawn.gens + 1]
    /\ UNCHANGED <<live, salts, blob, revoked, cookie, tab, survivors>>

\* The rate limit of the endpoint, which MaxGen stands for.
RekeyBeginLimited(th) ==
    /\ At(th, "begin", "sent")
    /\ drawn.gens = MaxGen
    /\ Finish(th, "no")
    /\ UNCHANGED <<DatabaseRows, Elsewhere>>

\* expires_at passes.
Expire ==
    /\ rekey.open
    /\ rekey' = [rekey EXCEPT !.open = FALSE]
    /\ UNCHANGED <<live, salts, blob, staged, req, Elsewhere>>

ActiveWhoever(id) == rekey.open
Active(id) == rekey.id = id /\ rekey.open

StageCheck(th) ==
    /\ At(th, "stage", "sent")
    /\ Verdict(th, /\ Active(req[th].id)
                   /\ Cardinality(staged) + Cardinality(req[th].rows)
                        <= Cardinality(Stored(rekey.base)), "checked")
    /\ UNCHANGED <<DatabaseRows, Elsewhere>>

\* The foreign key and the two unique constraints are what still protects the insert.
StageInsert(th) ==
    /\ At(th, "stage", "checked")
    /\ LET fits == /\ rekey.id = req[th].id
                   /\ \A r \in req[th].rows, s \in staged : r.new # s.new /\ r.old # s.old
       IN  /\ Verdict(th, fits, "ok")
           /\ staged' = IF fits THEN staged \cup req[th].rows ELSE staged
    /\ UNCHANGED <<live, salts, blob, rekey, Elsewhere>>

\* Everything the commit reads once it holds the row FOR UPDATE. A vault that no longer
\* matches the snapshot also loses its rekey; any other refusal rolls back.
Matches == live = rekey.base
ReplacesAll ==
    /\ Cardinality(staged) = Cardinality(Stored(live))
    /\ Cardinality({r \in staged : live[r.old] # NoVal}) = Cardinality(Stored(live))

CommitCheck(th) ==
    /\ At(th, "commit", "sent")
    /\ ForUpdateFree
    /\ LET known == Active(req[th].id) /\ blob # 0
           drop  == known /\ ~Matches
       IN  /\ Verdict(th, known /\ Matches /\ ReplacesAll, "ready")
           /\ rekey' = IF drop THEN NoRekey ELSE rekey
           /\ staged' = IF drop THEN {} ELSE staged
    /\ UNCHANGED <<live, salts, blob, Elsewhere>>

Others(th) == (1..drawn.sids) \ {req[th].sid}

CommitApplyKeepingOld(th) ==
    /\ At(th, "commit", "ready")
    /\ live' = Upsert(live, staged)
    /\ salts' = req[th].id /\ blob' = req[th].id
    /\ rekey' = NoRekey /\ staged' = {}
    /\ revoked' = revoked \cup Others(th)
    /\ survivors' = {req[th].sid}
    /\ Finish(th, "ok")
    /\ UNCHANGED <<drawn, cookie, tab>>

CommitApplyKeepingBlob(th) ==
    /\ At(th, "commit", "ready")
    /\ live' = Upsert(Empty, staged)
    /\ salts' = req[th].id
    /\ rekey' = NoRekey /\ staged' = {}
    /\ revoked' = revoked \cup Others(th)
    /\ survivors' = {req[th].sid}
    /\ Finish(th, "ok")
    /\ UNCHANGED <<blob, drawn, cookie, tab>>

\* Records, salts, blob, rekey and the other sessions, in one transaction.
CommitApply(th) ==
    /\ At(th, "commit", "ready")
    /\ live' = Upsert(Empty, staged)
    /\ salts' = req[th].id /\ blob' = req[th].id
    /\ rekey' = NoRekey /\ staged' = {}
    /\ revoked' = revoked \cup Others(th)
    /\ survivors' = {req[th].sid}
    /\ Finish(th, "ok")
    /\ UNCHANGED <<drawn, cookie, tab>>

RekeyAbortUnlocked(th) ==
    /\ At(th, "abort", "sent")
    /\ rekey' = NoRekey /\ staged' = {}
    /\ Finish(th, "ok")
    /\ UNCHANGED <<live, salts, blob, Elsewhere>>

RekeyAbort(th) ==
    /\ At(th, "abort", "sent")
    /\ ForUpdateFree
    /\ rekey' = NoRekey /\ staged' = {}
    /\ Finish(th, "ok")
    /\ UNCHANGED <<live, salts, blob, Elsewhere>>
-----------------------------------------------------------------------------
(* Handlers of the recovery blob: no guard, but an UPDATE of the identity row waits for
   whoever has it locked *)

SetupCheck(th) ==
    /\ At(th, "setup", "sent")
    /\ Verdict(th, blob = 0, "checked")
    /\ UNCHANGED <<DatabaseRows, Elsewhere>>

SetupStore(th) ==
    /\ At(th, "setup", "checked")
    /\ ForUpdateFree
    /\ blob' = req[th].id
    /\ Finish(th, "ok")
    /\ UNCHANGED <<live, salts, rekey, staged, Elsewhere>>

RecoveryDelete(th) ==
    /\ At(th, "unset", "sent")
    /\ ForUpdateFree
    /\ blob' = 0
    /\ Finish(th, "ok")
    /\ UNCHANGED <<live, salts, rekey, staged, Elsewhere>>
-----------------------------------------------------------------------------
(* Answers *)

\* Any call may be over its rate limit, or ask for a more recent passkey assertion.
Refuse(th) ==
    /\ req[th].st = "sent" /\ req[th].tab # NoTab /\ "refused" \in Does[req[th].tab]
    /\ Finish(th, "no")
    /\ UNCHANGED <<DatabaseRows, Elsewhere>>

ContinueRetrying(page, op, good, rows, id) ==
    CASE op = "begin"  -> IF good THEN [page EXCEPT !.at = "fetch", !.id = id]
                                  ELSE [page EXCEPT !.at = "idle", !.seed = 0]
      [] op = "stage" /\ good -> [page EXCEPT !.todo = @ \ rows, !.at = "commit"]
      [] op = "stage" /\ ~good -> page
      [] op = "commit" -> IF good THEN Page(page.csrf) ELSE [page EXCEPT !.at = "abort"]
      [] op = "abort"  -> [page EXCEPT !.at = IF @ = "unlock" THEN "load" ELSE "idle"]
      [] OTHER         -> [page EXCEPT !.at = "idle"]

\* What the page's handler does with an answer, good or not.
Continue(page, op, good, rows, id) ==
    CASE op = "begin"  -> IF good THEN [page EXCEPT !.at = "fetch", !.id = id]
                                  ELSE [page EXCEPT !.at = "idle", !.seed = 0]
      [] op = "stage"  -> IF good
                          THEN [page EXCEPT !.todo = @ \ rows,
                                            !.at = IF page.todo \subseteq rows
                                                   THEN "commit" ELSE "stage"]
                          ELSE [page EXCEPT !.todo = {}, !.at = "abort"]
      [] op = "commit" -> IF good THEN Page(page.csrf) ELSE [page EXCEPT !.at = "abort"]
      [] op = "abort"  -> [page EXCEPT !.at = IF @ = "unlock" THEN "load" ELSE "idle"]
      [] OTHER         -> [page EXCEPT !.at = "idle"]

\* save_session ends every request: it writes the session back as it was loaded, with
\* revoked_at cleared, and the answer carries its cookie.
SaveSession(th) ==
    /\ req[th].st \in {"ok", "no"}
    /\ revoked' = revoked \ {req[th].sid}
    /\ survivors' = IF req[th].sid \in revoked THEN survivors \cup {req[th].sid} ELSE survivors
    /\ req' = [req EXCEPT ![th] = Free]
    /\ LET t == req[th].tab
       IN  IF t = NoTab THEN UNCHANGED <<cookie, tab>>
           ELSE /\ cookie' = [cookie EXCEPT ![BrowserOf[t]] = req[th].sid]
                /\ tab' = [tab EXCEPT ![t] = Continue(@, req[th].op, req[th].st = "ok",
                                                      req[th].rows, req[th].id)]
    /\ UNCHANGED <<DatabaseRows, drawn>>

\* The connection drops: the page sees a network error, the server carries on.
LoseAnswer(th) ==
    /\ req[th].tab # NoTab /\ "lose" \in Does[req[th].tab]
    /\ req' = [req EXCEPT ![th].tab = NoTab]
    /\ tab' = [tab EXCEPT ![req[th].tab] =
                 Continue(@, req[th].op, FALSE, req[th].rows, req[th].id)]
    /\ UNCHANGED <<DatabaseRows, revoked, drawn, cookie, survivors>>

-----------------------------------------------------------------------------
(* Pages *)

Waiting(t) == \E th \in Threads : req[th].tab = t
Idle(t) == tab[t].at = "idle" /\ ~Waiting(t)

Send(t, op, rows, id) ==
    \E th \in Threads :
        /\ req[th] = Free
        /\ req' = [req EXCEPT ![th] = [st |-> "sent", op |-> op, tab |-> t, sid |-> Jar(t),
                                       id |-> id, rows |-> rows]]

Request(t, op, rows, id) ==
    /\ Idle(t) /\ MayPost(t) /\ op \in Does[t]
    /\ Send(t, op, rows, id)
    /\ tab' = [tab EXCEPT ![t].at = "write", ![t].id = 0]
    /\ UNCHANGED <<DatabaseRows, revoked, drawn, cookie, survivors>>

\* Documents sealed under the page's keys, an upload chunk of them.
Sealed(g, D, v) == {[old |-> <<g, d>>, new |-> <<g, d>>, val |-> v[d]] : d \in D}

UploadRecords(t) ==
    /\ tab[t].keys # 0
    /\ \E D \in SUBSET Docs \ {{}} : \E v \in [D -> Vals] :
         /\ Cardinality(D) <= MaxChunk
         /\ Request(t, "put", Sealed(tab[t].keys, D, v), 0)

DeleteAllRecords(t) == Request(t, "reset", {}, 0)
SetupRecoveryKey(t) == tab[t].keys # 0 /\ Request(t, "setup", {}, tab[t].keys)
DeleteRecovery(t) == Request(t, "unset", {}, 0)

PageOnly == UNCHANGED <<DatabaseRows, revoked, drawn, cookie, req, survivors>>

\* getSalts answers from CACHED_SALTS when it can, and lockVault leaves them there.
Unlock(t) ==
    /\ Idle(t) /\ tab[t].keys = 0 /\ MayRead(t) /\ "unlock" \in Does[t]
    /\ tab' = [tab EXCEPT ![t].cache = IF @ = 0 THEN salts ELSE @, ![t].at = "unlock", ![t].id = 0]
    /\ PageOnly

\* One record that does not open fails the whole load, and the keys are dropped.
Load(t) ==
    /\ tab[t].at = "load" /\ ~Waiting(t)
    /\ LET opens == MayRead(t) /\ \A b \in Stored(live) : b[1] = tab[t].cache
       IN  tab' = [tab EXCEPT ![t].at = "idle", ![t].keys = IF opens THEN tab[t].cache ELSE 0]
    /\ PageOnly

LockVault(t) ==
    /\ Idle(t) /\ tab[t].keys # 0 /\ "lock" \in Does[t]
    /\ tab' = [tab EXCEPT ![t].keys = 0, ![t].id = 0]
    /\ PageOnly

\* The recovery key unwraps the blob's seed.
RecoverVault(t) ==
    /\ Idle(t) /\ MayRead(t) /\ blob # 0 /\ "recover" \in Does[t]
    /\ tab' = [tab EXCEPT ![t].seed = blob, ![t].at = "begin", ![t].id = 0]
    /\ PageOnly

\* reencryptForRekey: one staged row per record, or nothing if one does not decrypt.
Reencrypt(vault, k) == {[old |-> b, new |-> <<k, b[2]>>, val |-> vault[b]] : b \in Stored(vault)}

FetchAllRecords(t) ==
    /\ tab[t].at = "fetch" /\ ~Waiting(t)
    /\ LET opens == MayRead(t) /\ \A b \in Stored(live) : b[1] = tab[t].seed
           rows  == Reencrypt(live, tab[t].id)
       IN  tab' = [tab EXCEPT ![t].seed = 0,
                              ![t].todo = IF opens THEN rows ELSE {},
                              ![t].at = IF ~opens THEN "abort"
                                        ELSE IF rows = {} THEN "commit" ELSE "stage"]
    /\ PageOnly

Chunks(rows) ==
    {c \in SUBSET rows : c # {} /\ Cardinality(c) <= MaxChunk
                         /\ (Cardinality(c) < MaxChunk => c = rows)}

\* The next call of an unlock or a recovery. One the session no longer carries fails.
NextCall(t) ==
    /\ tab[t].at \in {"unlock", "begin", "stage", "commit", "abort"} /\ ~Waiting(t)
    /\ LET op == IF tab[t].at = "unlock" THEN "abort" ELSE tab[t].at
       IN  IF MayPost(t)
           THEN /\ \E c \in IF op = "stage" THEN Chunks(tab[t].todo) ELSE {{}} :
                     Send(t, op, c, tab[t].id)
                /\ UNCHANGED tab
           ELSE /\ tab' = [tab EXCEPT ![t] = Continue(@, op, FALSE, {}, 0)]
                /\ UNCHANGED req
    /\ UNCHANGED <<DatabaseRows, revoked, drawn, cookie, survivors>>

\* A reload, a crash or a closed page: its memory is gone, its requests run on.
Reload(t) ==
    /\ "reload" \in Does[t]
    /\ tab' = [tab EXCEPT ![t] = Page(IF MayRead(t) THEN Jar(t) ELSE 0)]
    /\ req' = [th \in Threads |-> IF req[th].tab = t THEN [req[th] EXCEPT !.tab = NoTab]
                                                      ELSE req[th]]
    /\ UNCHANGED <<DatabaseRows, revoked, drawn, cookie, survivors>>
-----------------------------------------------------------------------------
(* Signing in and out, each in one step: the ceremonies are not modelled here *)

\* _rotate_session: the old session is revoked, a new one starts.
Rotate(t, outlives) ==
    LET sid == drawn.sids + 1
    IN  /\ drawn.sids < MaxSid
        /\ drawn' = [drawn EXCEPT !.sids = sid]
        /\ revoked' = revoked \cup {Jar(t)}
        /\ cookie' = [cookie EXCEPT ![BrowserOf[t]] = sid]
        /\ tab' = [tab EXCEPT ![t].csrf = sid, ![t].id = 0]
        /\ survivors' = IF outlives THEN survivors \cup {sid} ELSE survivors
        /\ UNCHANGED <<DatabaseRows, req>>

\* From the gate of a page that has no session: a page that was here before the last
\* commit, salts cached, is one that outlives it.
SignIn(t) ==
    /\ Idle(t) /\ tab[t].csrf = 0 /\ ~MayRead(t) /\ "signin" \in Does[t]
    /\ Rotate(t, tab[t].cache # 0)

\* authenticateWithPasskey within a live session, which keeps KEYS.
StepUp(t) ==
    /\ Idle(t) /\ MayPost(t) /\ "stepup" \in Does[t]
    /\ Rotate(t, Jar(t) \in survivors)

SignOut(t) ==
    /\ Idle(t) /\ MayPost(t) /\ "signout" \in Does[t]
    /\ revoked' = revoked \cup {Jar(t)}
    /\ cookie' = [cookie EXCEPT ![BrowserOf[t]] = 0]
    /\ tab' = [tab EXCEPT ![t].keys = 0, ![t].csrf = 0, ![t].id = 0]
    /\ UNCHANGED <<DatabaseRows, drawn, req, survivors>>
-----------------------------------------------------------------------------
Handler(th) ==
    \/ VaultWriteGuard(th) \/ PutCount(th) \/ PutStore(th) \/ ResetDelete(th)
    \/ RekeyBegin(th) \/ RekeyBeginLimited(th) \/ StageCheck(th) \/ StageInsert(th)
    \/ CommitCheck(th) \/ CommitApply(th) \/ RekeyAbort(th)
    \/ SetupCheck(th) \/ SetupStore(th) \/ RecoveryDelete(th)
    \/ SaveSession(th)

Flow(t) == Load(t) \/ FetchAllRecords(t) \/ NextCall(t)

User(t) ==
    \/ UploadRecords(t) \/ DeleteAllRecords(t) \/ SetupRecoveryKey(t) \/ DeleteRecovery(t)
    \/ Unlock(t) \/ LockVault(t) \/ RecoverVault(t) \/ Reload(t)
    \/ SignIn(t) \/ StepUp(t) \/ SignOut(t)

Next ==
    \/ \E th \in Threads : Handler(th) \/ Refuse(th) \/ LoseAnswer(th)
    \/ \E t \in Tabs : Flow(t) \/ User(t)
    \/ Expire

\* A vault under generation 1, each browser signed in, each page at the gate.
Init ==
    /\ live \in Vaults
    /\ \A b \in Stored(live) : b[1] = 1
    /\ Cardinality(Stored(live)) <= MaxTotal
    /\ salts = 1 /\ blob \in {0, 1}
    /\ rekey = NoRekey /\ staged = {} /\ revoked = {} /\ survivors = {}
    /\ drawn = [gens |-> 1, sids |-> Cardinality(Browsers)]
    /\ cookie \in [Browsers -> 1..Cardinality(Browsers)]
    /\ \A a, b \in Browsers : cookie[a] = cookie[b] => a = b
    /\ tab = [t \in Tabs |-> Page(cookie[BrowserOf[t]])]
    /\ req = [th \in Threads |-> Free]

Spec == Init /\ [][Next]_vars

\* Requests queue for threads and for the row lock, and both queues are served in turn;
\* a page makes its next call once it has its answer. Nothing makes a user act.
Fairness ==
    /\ \A th \in Threads : SF_vars(Handler(th))
    /\ \A t \in Tabs : SF_vars(Flow(t))
FairSpec == Spec /\ Fairness
-----------------------------------------------------------------------------
(* Properties *)

\* A rekey that has not expired still describes the live vault: no write commits between
\* begin's snapshot and commit's, so a commit in time never answers "the vault changed".
SnapshotCurrent == rekey.open => rekey.base = live

\* While a commit holds the row between its checks and its writes, no other handler
\* changes anything it checked: not the vault, not the rekey, not the staged rows.
CommitIsolated ==
    [][\A th \in Threads :
         (req[th].st = "ready" /\ req'[th].st = "ready")
           => UNCHANGED <<live, salts, blob, staged>> /\ rekey'.id = rekey.id]_vars

\* Records under other keys than the vault's come only over the session that committed
\* (other pages of its browser), over one that an overlapping request brought back, or
\* over one that a page with cached salts rotated to: every other page is cut off.
StaleWritersCutOff ==
    [][\A b \in Blinds :
         (live'[b] # live[b] /\ live'[b] # NoVal /\ b[1] # salts')
           => \E th \in Threads : /\ req[th].op = "put" /\ req[th].st = "counted"
                                  /\ req'[th].st = "ok"
                                  /\ req[th].sid \in survivors]_vars

\* The protocol is one atomic change of the vault, however it is interrupted.
Contents == INSTANCE VaultContents WITH store <- live, key <- salts, recovery <- blob
ImplementsContents == Contents!Spec

\* A recovery ends whatever other pages do, with the gate or an error and never stuck:
\* no handler waits for a lock that nobody gives up.
RecoveryEnds == \A t \in Tabs : tab[t].at = "begin" ~> tab[t].at = "idle"

\* Only a record under the vault's own keys is ever stored (docs/RECOVERY.md, "a write
\* cannot slip in after the commit from a revoked session").
OnlyCurrentKeysWrite ==
    [][\A b \in Blinds : (live'[b] # live[b] /\ live'[b] # NoVal) => b[1] = salts']_vars

\* The vault holds at most MAX_TOTAL_RECORDS records (README, "Ciphertext and resource
\* limits").
QuotaRespected == Cardinality(Stored(live)) <= MaxTotal

\* A page that reported "Your vault was not changed" told the truth: the salts its
\* recovery drew are not the vault's.
FailureReportIsTrue == \A t \in Tabs : tab[t].at = "idle" /\ tab[t].id # 0 => salts # tab[t].id
=============================================================================
