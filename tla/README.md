# A formal model of the vault

This directory models Mindful-Money, an encrypted budget vault: a Flask server
(`app.py`) that stores sealed records and never sees a key, and a browser
client (`static/app.js`) that does all the cryptography. TLC checks the models
on small instances, TLAPS proves what matters most for every instance.
`PROJECT.json` maps each definition to the lines it models and lists runs,
mutants, findings, hazards and theorems.

## 1. Inventory

| Part | State it keeps | Operations | Correct when |
|---|---|---|---|
| Record writes (`app.py` 1236-1307, 1627) | `records`: sealed text per (vault, blind index) | batch upsert under a quota, delete all | a write never lands in the middle of a re-encryption; the quota holds |
| Vault rekey (`app.py` 2366-2566) | `vault_rekeys` (one per vault), `vault_rekey_records` | begin, stage, commit, abort, expiry | re-encryption is one atomic change, whatever is interrupted |
| Recovery blob (`app.py` 2250-2360) | `vault_identity.recovery_blob` | set up, fetch, delete; replaced by a commit | it opens the vault it belongs to |
| KDF salts (`app.py` 2014-2178) | `vault_identity.kdf_salt_*`, `kdf_version` | get, generate, migrate | salts only change while nothing is sealed under them |
| Sessions (`app.py` 582-735) | `server_sessions`, the cookie | open, save, rotate, revoke, expire | a revoked session opens nothing |
| Passkeys (`app.py` 1639-1941) | `passkey_credentials`, `webauthn_challenges`, `passkey_required` | first enrolment, registration, sign-in, removal, disabling | a challenge counts once, for its session; a protected vault keeps a passkey |
| Lockout, audit (`app.py` 280-386, 2182-2246) | `audit_events` | append, count, acknowledge | the lockout starts and ends as announced |
| Rate limits (`app.py` 389-450), chunked upload (`app.js` 38-99) | `rate_limits` windows | count, refuse, Retry-After; wait and send again | a large upload finishes; no window admits more than its limit |
| Proof-gated expenses (`app.py` 1310-1579, `zkp_verifier.py`) | `zkp_challenges`, the key commitment | enrol, challenge, claim, verify, refund, store | a proof counts once; a proof tag describes the record it is on |
| Browser vault (`app.js`) | `KEYS`, `CACHED_SALTS`, `CSRF`, decrypted transactions | unlock, load, lock, write, recover, restore, sign in and out | a page never mixes keys; an interrupted flow comes to an end |
| Padding, chunking (`app.js` 54-73, 716-780) | none | pure functions | exact at the boundaries |
| Bank connections (`simplefin-client.js`, `app.js` 1115-1225) | none on the server | fetch, merge, seal, upload | no transaction twice or lost |
| Honeypot (`app.py` 787-1180) | in-memory tables shared by threads | count, fake progress, evict | the tables stay bounded |
| Analytics, charts, assistant (`app.js`) | none | read-only computations | not modelled |
| Database and migrations, deployment | schema, configuration | none at run time | not modelled |

The parts meet in four places.

* Every handler runs between `open_session` and `save_session`, which load and
  write back the whole session row on a connection of their own.
* Record writes, rekey, recovery and proof enrolment all touch the
  `vault_identity` row, whose lock (FOR SHARE, FOR UPDATE, or the one an UPDATE
  takes) is the only thing that orders them.
* All pages of a browser share one cookie and so one session; each has its own
  keys, salts and CSRF token.
* The client's flows are chains of calls. Between two calls any other page,
  browser, expiry, reload or lost answer can come in.

What is hard here: handlers that read under no lock, or a shared one, and write
later; sessions written back from an old copy; pages whose keys outlive a
re-encryption; crashes and lost answers in the middle of a recovery; expiry and
replacement of a rekey; chunked transfers that fail half way. `PROJECT.json`
lists each such hazard with its line.

## 2. Plan

| | Module | Models | Main properties | State |
|---|---|---|---|---|
| 1 | `VaultContents` | what a vault promises, abstractly | refined by 2 | done |
| 2 | `VaultRekey` | record writes, rekey, recovery blob, sessions and pages | atomic rekey, isolation, cut-off of old keys, progress | done, proved but for progress |
| 3 | `Passkeys` | ceremonies, session copies and write-back, credentials | a challenge counts once; a live ceremony is kept; revoked sessions stay revoked; a protected vault keeps a passkey | done, proved |
| 4 | `ZkpExpense` | challenge, claim, refund, verify, enrolment, tags across uploads and rekeys | at most one record per challenge; an outage burns none; commitment and tags follow the keys | done, proved |
| 5 | `KdfSalts` | generate, migrate, restore from backup, first unlocks | what a page seals stays readable unless the salts are written under it | done, proved |
| 6 | `Limits` | rate windows, Retry-After, chunked upload and its retries, lockout | admitted calls per window; nothing lost or reordered; uploads and lockouts end | done, proved but that they end |

Two parts of an earlier plan are left out on purpose: padding, pure functions
of one page that a unit test covers, and the deception layer, whose counters no
state of the vault depends on.

Module 2 composes records, rekey, recovery and sessions because they interact
through one row lock; 3 to 6 abstract the record store to what they need, and
each models the rekey, the sessions or the calls of the others no further than
its properties can tell. `ZkpExpense` is the composition of three components:
submissions of proofs, uploads and rekeys of one vault.
Theorems, in order: type correctness of `VaultRekey`, its snapshot and isolation
invariants, the refinement `Spec => Contents!Spec`, `StaleWritersCutOff`, then the
properties of `Passkeys`, `ZkpExpense` and `KdfSalts`, then those of `Limits` with
what the cutting of chunks computes. All are done: every safety invariant and action
property that a passing run checks is a theorem. The three liveness properties stay
with TLC.

## 3. Modules

### VaultContents

The abstract promise: a store of sealed records by blind index, the generation
of the vault's salts, the generation the recovery blob opens. Re-encryption
(`Rekey`) is one step that moves every record to a fresh generation and the
salts and blob with it. An upload may come under any generation, since a page
may hold old keys; which pages can still do so is what `StaleWritersCutOff` says.

### VaultRekey

One action per database statement that matters, since PostgreSQL runs READ
COMMITTED and requests of four threads interleave (`deploy/gunicorn.conf.py`,
one worker with four threads).

| Variable | Code |
|---|---|
| `live` | `records` of the vault, by blind index |
| `salts`, `blob` | `kdf_salt_*` and `recovery_blob` of `vault_identity` |
| `rekey`, `staged` | the row of `vault_rekeys` and its `vault_rekey_records` |
| `revoked` | rows of `server_sessions` with `revoked_at` set |
| `cookie` | the session cookie of each browser |
| `tab` | a page: `KEYS`, `CACHED_SALTS`, `CSRF`, the step its handler awaits, the recovery's locals |
| `req` | what each server thread is doing, with the session it loaded |
| `drawn` | how many random ids have been drawn |
| `survivors` | history: sessions the last commit left to pages opened before it |

A write is `VaultWriteGuard` (waits for the shared lock, checks session and
rekey), then `PutCount` and `PutStore`, or `ResetDelete`. A rekey is
`RekeyBegin`, `StageCheck` and `StageInsert` per chunk, `CommitCheck` and
`CommitApply`, `RekeyAbort`, `Expire`. The recovery blob has `SetupCheck`,
`SetupStore` and `RecoveryDelete`. Every request ends in `SaveSession`, which
writes the session back with `revoked_at` cleared and answers the page. The
lock is implied by the stages of the threads (`ForShareFree`, `ForUpdateFree`).
A page's recovery is `RecoverVault`, then `NextCall` and `FetchAllRecords`, and
`Continue` says what each answer, good or bad, makes of it.

What is abstracted:

* a *generation* stands for a pair of random salts and every key derived from
  it. The id of a rekey and the salts its page draws share one number, both
  being fresh random strings. Sealing and opening are perfect; the digest over
  the records is equality of the record set;
* the shape checks of a request body are left out: pages send well-formed ones;
* the vault has salts, a passkey and no ZK key commitment, so the two checks
  and the copying of tags that a commitment needs are left to `ZkpExpense`;
* GETs and sign-in ceremonies are one step. A GET also writes its session back;
  the model shows what that does through POSTs only. Sessions nobody signed in
  to are not modelled;
* rate limits and step-up demands are `Refuse`, at any time; the limit on begin
  is `MaxGen`;
* the user types the passphrase that belongs to the salts in use, and the UI
  hint `vault_unlocked` is left out;
* a crash of the browser is `Reload`. A crash of the server between a
  transaction's statements rolls it back and is a lost answer.

### Passkeys

Where `VaultRekey` takes a sign-in for one step, this module takes it apart and
leaves the records out. Every request is a thread with a copy of the session row
(`sid`, `auth`, `ceremony`, and `loaded`, the code's `loaded_ceremony_id`).

| Variable | Code |
|---|---|
| `creds`, `protected` | rows of `passkey_credentials`, `vault_identity.passkey_required` |
| `sess`, `chal` | rows of `server_sessions` and `webauthn_challenges` |
| `aged` | which assertions are older than `VAULT_STEPUP_WINDOW_SECONDS` |
| `cookie`, `tab` | the browser's cookie; a page's `CSRF` and the ceremony it is in |
| `req` | the request of each thread and its copy of the session |
| `wins`, `drawn` | history of accepted challenges; ids drawn |

Options calls are `NewChallenge` or `OptionsRefused`. A verify call is
`TakeChallenge` (the conditional UPDATE), then `VerifyAssertion` and
`LoginVerified` for a sign-in, `Register` or `RegisterFails` for a registration
or a first enrolment. Removing is `RemoveCount` and `RemoveDelete`. Then there
are `DisablePasskeys`, `Logout`, `OtherCall` and `Refuse`, and every request ends
in `SaveSession`. Gates (`MayAccess`, `RecentReauth`, `MayManage`, `MayBegin`)
read the request's copy and the tables as they are when the gate is passed.

What is abstracted: one tenant; labels, transports, counters, the bootstrap
token and the hint `vault_unlocked`; the lockout's length (`Refuse` may happen);
lifetimes of sessions. A challenge number stands for the time its assertion was
made. A handler's commit and the revocation in `_rotate_session` that follows it
are one step, and so are `save_session` and the arrival of the answer; `Resend`
is a broken connection, after which the same request runs twice. An authenticator
signs the challenge it is given, for the passkey chosen when options were answered.

### ZkpExpense

A submission of a proof reads the commitment, claims its challenge, waits
seconds for the verifier and stores, each step on a transaction of its own. In
between come other submissions of the same proof, uploads, enrolments, rekeys.

| Variable | Code |
|---|---|
| `vaultKey`, `zkSalt`, `committed` | `kdf_salt_*`, `zkp_vault_salt` and `zkp_key_commitment` of `vault_identity` |
| `chal` | rows of `zkp_challenges`: session, `consumed_at` set, `expires_at` passed |
| `recs` | `records` by blind index, with the tag `circuit_version` |
| `rekey`, `revoked` | whose rekey is active; `server_sessions.revoked_at` |
| `tab` | a page: its keys, the call it awaits, the proof it holds |
| `req` | the request of each thread: its body and the commitment it has read |
| `salts`, `accepted`, `judged`, `lost`, `survivors` | salts drawn; histories the properties are about |

Enrolment is `IssueSalt` and `Enroll`; a challenge is `IssueChallenge`, its end
`Expire`. A submission is `ReadKey`, `Claim`, `Verify` (valid, invalid, or no
verdict), `Refund` and `StoreProven`. `WorkerDies` kills the process while the
verifier runs. `PutRecord`, `RekeyBegin`, `RekeyEnds` and `RekeyCommit` are what
uploads and rekeys do to tags, commitment and sessions. `GiveUp` is a page that
stops waiting, after which `Start` may send the same proof again.

What is abstracted: keys are generations and a commitment is the pair of a key
and a salt. A proof is the statement it is about; the circuit and the verifier
binary are external, and their verdict is free. The application does not call
these endpoints yet; pages follow the v4 client that the repository ships, which
refuses a challenge whose commitment its keys do not give. Staging in chunks and
the recheck of the snapshot are in `VaultRekey`. Every page has a session.

### KdfSalts

The endpoints of the salts take no lock, and writing salts ends no session. The
module shows what then still holds.

| Variable | Code |
|---|---|
| `vault` | `kdf_salt_enc`, `kdf_salt_idx` and `kdf_version` of `vault_identity` |
| `recs` | `records`, each as the keys it is sealed under |
| `tab` | a page: `KEYS`, `CACHED_SALTS`, and which of the two are stale (history) |
| `req` | a call and the flow of the page it belongs to |
| `gens` | salts ever generated |

Server: `GetSalts`, `GenerateCheck` and `GenerateStore`, `MigrateCheck` and
`MigrateStore`, `Put`, `Reset`, `List`; `Fail` loses a call or its answer. Page:
an unlock or a restore goes through `KeysFromServer`, `GenerateFirst` (404),
`FallBack` (legacy salts), `NoKeys`, `Loaded`; a restore also through `Compared`,
`Migrated` and `Written`; `Lock` keeps the cached salts, or is a reload.

What is abstracted: one vault and one passphrase, so keys are salts and a
version; a rekey, which has its own locks, is in `VaultRekey`; sessions stay
live. A flow of a page is one request at a time that its answer turns into the
next. *Stale* is said of what a page knows when salts are written by anybody
else, and of the salts of a legacy browser, which nobody compares with the vault.

### Limits

| Variable | Code |
|---|---|
| `now` | the server's clock in ticks, modulo `Period` |
| `rows` | `rate_limits`: bucket, ticks until `expires_at`, `request_count` |
| `failures`, `locked` | `PASSKEY_AUTH_FAILURE` and `ACCOUNT_LOCKED` in `audit_events`, by age |
| `client` | an upload's chunk, attempt and sleep; a sign-in's request and the start of its transaction |
| `served`, `got`, `refused` | histories: calls let through, rows stored, windows in which a chunk was refused |

`CountRequest` is the upsert of `enforce_rate_limit` and its occasional cleanup.
An upload is `StartUpload`, then `PostStored`, `PostRefused` and `Wake` per
chunk, or `PostFails`; `chunkSealedRecords` is the cutting by number and bytes.
A sign-in is `SignIn`, `CheckLock`, `Announce` or `Verify`. `Tick` passes time.

What is abstracted: the count saturates just above the limit, and that of a past
window, never read again, is forgotten. Of the groups, `upload` and
`login_verify` are instantiated; all are counted by the same statement. All
sign-ins are to one account. An event's time is when its transaction started,
so a slow sign-in records a failure already aged. Which challenge a sign-in
takes is in `Passkeys`, what an upload overwrites in `VaultRekey`.

## 4. Runs

Bounds, all named as constants: `MaxGen` generations (one or two rekeys),
`MaxSid` sessions, one or two documents with one value, chunks of one record,
two threads, two pages. `Does` says what can happen at each page. Two pages and
two threads are enough for every race between two requests that the code can
have; two documents with chunks of one make staging take several calls.

| Run | Instance | Shows |
|---|---|---|
| `two_browsers` | two browsers; one recovers, is refused and loses answers, the other unlocks, writes, deletes all, reloads, signs in; two documents; 1.6 million states | `TypeOK`, `SnapshotCurrent`, `CommitIsolated`, `StaleWritersCutOff`, `ImplementsContents` |
| `twice` | both browsers recover, one reloads; up to two rekeys; under fairness | `CommitIsolated`, `ImplementsContents`, `RecoveryEnds` |
| `same_session` | two pages of one browser; one recovers, the other writes, locks, manages the blob, signs out and in | `StaleWritersCutOff`, `ImplementsContents` |
| `stale_write` | as `two_browsers`, one document | **violated**: `OnlyCurrentKeysWrite` |
| `quota` | two pages upload | **violated**: `QuotaRespected` |
| `report` | as `two_browsers`, one document | **violated**: `FailureReportIsTrue` |
| `overlapping` | two pages of one browser; one signs in and enrols with calls sent twice, the other does all the rest; none or one passkey at first, two at most; three sessions, two challenges; 1.8 million states | `TypeOK`, `ChallengeCountsOnce`, `CeremonyKept`, `RevokedStaysRevoked`, `AuthenticationFixed` |
| `last_passkey` | two pages of one browser with two passkeys, policy "required" | **violated**: `ProtectedVaultHasPasskey` |
| `outage_rekey` | two pages; one enrols, proves, gives up and submits again, uploads, loses its worker, is refused; the other may enrol and rekeys once; one expense, two challenges, two salts; 2.3 million states | `TypeOK`, `OneRecordPerChallenge`, `JudgedStaysSpent`, `OutageBurnsNothing`, `CommitmentFollowsKeys`, `TagAppearsWithProof`, `StaleProofsFromSurvivors` |
| `restore` | a page of a legacy browser restores and writes, its calls failing; another writes, erases, locks; vault new or legacy; two generated salts; 2.4 million states | `TypeOK`, `ReadableUnlessOverwritten`, `KeysFollowVault` |
| `first_unlocks` | two pages unlock a new vault and write | **violated**: `GeneratedOnlyWhenUnset` |
| `waiting` | two uploads of one account, or one alone, or two sign-ins from one address; one upload a window and two sign-ins, windows of two ticks, two retries; under fairness | `TypeOK`, `SpanBounded`, `StoredInOrder`, `GivesUpLate`, `FailuresBounded`, `UploadEnds`, `LockEnds` |

In `outage_rekey` two challenges let one be spent, refunded and expire while the
other is proved about; one rekey is enough for every order of it and of a
submission, as a page locks after its commit. In `restore` two generated salts
are one more than a vault may have. In `waiting` the files have no row, rows that
fill a chunk by number, rows that exceed one by bytes, and a row too large; one
request a window puts every second chunk against the limit, and two uploads
compete for each window.

`same_session` does not check deadlock: once the page has signed out and the
bound on sessions is reached, nothing can happen; nor do `overlapping`, for the
same reason, and `outage_rekey` and `restore`, where salts, challenges and keys
are used up and a page then has nothing it may still do. In the other passing
runs a deadlock would be reported.

**Fairness** (`FairSpec`, in `twice` and `waiting`). In `twice`: Handlers have strong fairness: requests
wait for a thread and for the row lock in queues that are served in turn, so a
request that can run again and again does. Pages have strong fairness on their
flows: JavaScript resumes the handler once its answer is there, and the thread
pool takes its call. Nothing makes a user act, a rekey expire, or a connection
drop. The liveness run has one document; the number of documents only adds
rounds of the same chunk loop. In `waiting` time passes (weak fairness of `Tick`)
and a page that uploads keeps running (of its steps, a failing call included);
nothing makes users start, and nothing keeps them from starting again at once,
so `LockEnds` holds against persistent attempts and `UploadEnds` against a
competitor that takes the budget of every window.

**Findings.**

1. `stale_write`: `save_session` (`app.py` 708, 722) stores `revoked_at = None`
   at the end of every request. A request of another browser that overlaps a
   commit brings its revoked session back, and that page then writes under the
   old keys. `docs/RECOVERY.md` 133-137 says that cannot happen.
   `StaleWritersCutOff` is what does hold: only the session that committed,
   sessions brought back this way, and sessions such pages rotated to can.
2. `quota`: two uploads count the records under a lock they share
   (`app.py` 1245, 1289), then both store. `README.md` 206 states the quota as
   a limit.
3. `report`: when the answer to a commit is lost the page says "Your vault was
   not changed." (`static/app.js` 2561), although it was.
4. `last_passkey`: `remove_passkey` counts and deletes in two statements under no
   lock (`app.py` 1918, 1920), so two removals leave a protected vault without a
   passkey. `README.md` 60-61 says the final passkey cannot be removed while
   enforcement is enabled.
5. `first_unlocks`: `generate_kdf_salts` reads that there are no salts and no
   records (`app.py` 2066-2081) and updates unconditionally (2089), so the second
   of two first unlocks replaces salts the first has keys from. Its docstring
   (`app.py` 2055) says generating is only allowed when neither exists.

What holds in the face of a finding is stated too. `RevokedStaysRevoked` (1): a
revoked session can only come back while a request that had loaded it before is
still running. `StaleProofsFromSurvivors` (1): a proven record under older keys
than the vault's comes from a session that outlived the rekey.
`ReadableUnlessOverwritten` (5): only records of a page whose salts were
overwritten under it, or of a legacy browser, can be unreadable.

**Hazards without a property.** The races of `recovery_setup` and of
`bootstrap_verify` are in the models, but no text promises more than they keep.
The same goes for a lockout announced for longer than it lasts, and for a valid
proof that a rekey turns away and whose challenge stays spent. The fallback to
the salts of a legacy browser is modelled and exempted. Signature counters, the
cleanup of sessions that challenges refer to, the commitment that the recovery's
page does not send, and padding are not modelled. Each has its
line and reason in `PROJECT.json`.

## 5. Proofs

Each theorem holds for every value of the constants that the named assumptions of
its module allow: any numbers of pages, browsers, threads, records, sessions,
challenges, salts, clients, any limits, windows and sizes. The bounds of the runs
(`MaxGen`, `MaxSid`, `MaxChal`, ...) are arbitrary naturals there. Proofs have one
lemma per action, or per part of the invariant, and a step for whatever the action
can disturb. The properties of section 4 that hold on the runs are nearly never
inductive; what has to go with them is told here.

| Module | Theorems |
|---|---|
| `VaultRekey_proofs` | `TypeCorrect` |
| `VaultRekeySafety_proofs` | `Invariant`, `SnapshotStaysCurrent`, `CommitReplacesTheWholeVault`, `CommitsAreIsolated` |
| `VaultRekeyContents_proofs` | `KeysInvariant`, `RekeyImplementsContents` |
| `VaultRekeySessions_proofs` | `SessionsInvariant`, `StaleWritersAreCutOff` |
| `Passkeys_proofs` | `Invariant`, `TypeCorrect`, `ChallengesAreOneTime`, `CeremoniesAreKept`, `RevocationIsFinal`, `AuthenticationIsFixed` |
| `ZkpExpense_proofs` | `Invariant`, `TypeCorrect`, `ChallengesAreOneTime`, `OutagesAreRefunded`, `StaleProofs`, `VerdictsAreFinal`, `CommitmentsFollowKeys`, `TagsAppearWithProofs` |
| `KdfSalts_proofs` | `Invariant`, `TypeCorrect`, `RecordsStayReadable`, `KeysAreTheVaults` |
| `Limits_proofs` | `ChunksAreTheRows`, `Invariant`, `TypeCorrect`, `SpansAreBounded`, `UploadsAreStoredInOrder`, `PagesGiveUpLate`, `FailuresAreBounded` |

### VaultRekey

`TypeCorrect` needs `ModelAssumption` alone (bounds are naturals, sentinels are not
values, the initial sessions fit under `MaxSid`). `TypeOK` is not inductive: that
ids a page or a request carries were really drawn (`Numbered`) has to go with it.
The rest of the safety proof is one inductive invariant:

| Part of `IInv` | Says | Needed because |
|---|---|---|
| `Locking` | a thread past a commit's checks shares the row with nobody; a write past its guard has found no open rekey, and none has opened since | every isolation argument |
| `Snapshot` | a rekey that counts (`Counts`: open, or a commit past its checks holds it) describes the live vault; that commit is for this very rekey | the property; a rekey may expire under a commit |
| `Drawn` | ids in use were drawn, so a new rekey's id is in nobody's memory | late calls of an older rekey |
| `Staging` | what a page queues or a request carries for this rekey is part of the re-encryption of its snapshot, and so are the staged rows; a commit past its checks has all of it staged | staging takes no lock on the row |
| `Awaited` | a page waits for one answer at a time, and a stage call is answered at the step that made it | an answer given to another step of the page would leave it rows that fit nothing |

Staging takes no lock, but an insert between a commit's checks and its writes would
need an old index that is not staged yet, and a commit that passed its checks
leaves none: that is `CommitsAreIsolated`.

**Refinement** (`RekeyImplementsContents`). Initial states map to initial states by
the names. A step is mapped by what it does to the vault: `PutStore` is `Upload`,
`ResetDelete` is `Clear`, `CommitApply` is `Rekey`, `SetupStore` and `RecoveryDelete`
are `SetRecovery`, and all else leaves the vault alone. The hard case is
`CommitApply`. `Rekey` asks that one key opens all records, that the new generation
is newer than any in use, and that every record is moved; begin, stage and commit
are calls apart. So `RInv` adds to `IInv`: whatever is sealed is sealed under keys
that were drawn (`Known`), and the keys of a rekey that counts are newer than those
of its snapshot, all of which one key opens once anything is staged (`Newer`), as
the page could not have opened them otherwise.

**Cut-off** (`StaleWritersAreCutOff`). A store under other keys than the vault's
comes from a request that was past its guard (`StalePuts`); the guard passes no
revoked session; and every page that has salts of an earlier vault has a session
that the latest commit judged (`StalePages`): it was revoked or is a survivor. A
session may change sides, when `save_session` writes it back, but then it is
recorded. `Sids` says that ids of sessions were drawn, so a fresh one is nobody's.

### Passkeys

`Spent`: a challenge is held by at most one request, the one whose UPDATE closed it,
until that wins by it or ends; so it wins once. `Allotted`: ids are drawn in order.
`Copies`: the copies of a session row agree with it about who is authenticated, and
only calls that start or answer a ceremony change the ceremony of their copy; a
session a request has rotated to is its alone until it is written. That is why
writing back an old copy harms neither (`CeremoniesAreKept`,
`AuthenticationIsFixed`). `Owners`: an answered challenge authenticates one session.

### ZkpExpense

`Claims`: between claim and verdict a challenge is in one submission's hands, and a
verdict settles it before the record is stored; a refund is therefore only for a
challenge nobody has a verdict on (`ChallengesAreOneTime`, `VerdictsAreFinal`).
`OutageBurnsNothing` is inductive with it. `Carried` says what a request carries
from its page, `Awaited` that a page waits for one answer at a time, `Bodies` that
the commitment a rekey brings is that of the next keys under the salt there is, for
as long as this rekey is active (`CommitmentsFollowKeys`), `Outlived` that a session
is revoked by the latest rekey or outlives it (`StaleProofs`). The proofs found that
an instance without expenses has no value for the field `item`, so
`ZkpExpenseAssumption` says `Items # {}`.

### KdfSalts

`Learned` is the property carried back to where it comes from: every answer on its
way, every cached pair of salts, and every key is that of the vault unless it is
stale; a restore that has set the salts finds some; and while a write of salts is
decided on and yet to come, whatever is stored counts as stale (`Decided`).

### Limits

| Part of `IInv` | Says |
|---|---|
| `Counted` | a row of the running window counts at least what was let through in it, so that is within the limit; what is left of the window before is too |
| `Admitted` | failures plus sign-ins let past the lockout are at most the limit and the other clients |
| `Progress` | what is stored of an upload is the rows of the chunks before the one it sends |
| `Waits` | a page sleeps for the rest of the window it was refused in; refusals are in windows of their own; after one, nobody else has counted in the bucket if the page is alone |

`SpansAreBounded` is the sum of two windows. When a window ends the running sum
becomes that of the window before; a clean-up deletes no row that still counts.
`FailuresAreBounded`: a sign-in passes while failures are below the limit, and fails
at most once. `PagesGiveUpLate` needs that a page sleeps for a whole window if told
to; it and `UploadsAreStoredInOrder` need that the page's chunks fit the server.
These are relations between the page's constants (`static/app.js` 39-48 and 93) and the
server's defaults, stated as `ClientFitsServer`: 500 records and 6 MiB against 500
and 8 MiB, a sleep of up to 60 seconds against a window of 60. A deployment that
lowers `VAULT_MAX_RECORDS_PER_BATCH` or `VAULT_MAX_REQUEST_BYTES` leaves it, and the
theorems then say nothing. `LimitsAssumption` also says that there are finitely many
clients.

What `chunkSealedRecords` computes is proved for rows of any number and sizes
(`ChunksAreTheRows`), and so is what a tick and a request do to a sum over ages.
Both are inductions. The library's induction theorems take an operator, which the
provers do not instantiate, so `LeastNatural` gets a least element of a set of
naturals from the well-foundedness of strict inclusion on finite sets, and
`Induction` follows for sets. `FoldLeft` and `SumTo` choose a recursive function, so
`FoldsExist` and `SumsExist` first build one.

### Only model-checked

`RecoveryEnds`, `UploadEnds` and `LockEnds`: liveness under fairness needs ENABLED
and is out of the provers' reach. The five runs that expect a violation state what
does not hold.

## 6. Not modelled

* Cryptography: sodium, the circuits, the proof verifier's binary. A sealed
  record opens under its keys, a proof is the statement it is about.
* Parsing and shape checks of bodies, logging, headers.
* Padding: a page's own data, back and forth; `tests/padding.test.mjs` has the
  bucket edges.
* Bank connections and imports, charts, analytics, the assistant: one page's
  computations on decrypted transactions. Their uploads are those of `Limits`
  and `VaultRekey`.
* The honeypot: decoy answers, and counters in memory that nothing depends on.
* Listings of audit events and their acknowledgement; lifetimes of sessions and
  the deletion of old rows.
* Migrations and deployment. PostgreSQL's locks are modelled where handlers use
  them, and gunicorn's threads are the constant `Threads`.
