------------------------------ MODULE KdfSalts ------------------------------
(***************************************************************************)
(* The vault's KDF salts and their version: first unlock, unlock of a      *)
(* legacy vault, restore of a backup, and the records that pages seal      *)
(* meanwhile.                                                              *)
(*                                                                         *)
(* The salts endpoints take no lock: each reads what it decides on and     *)
(* writes later, and no write of salts ends a session or is noticed by a   *)
(* page that holds keys.  Keys are the pair of salts and KDF version they  *)
(* were derived with, the passphrase being one; a record is the keys it is *)
(* sealed under.  One vault; rekey, which has its own locks, is VaultRekey.*)
(***************************************************************************)
EXTENDS Naturals, FiniteSets

CONSTANTS Tabs, NoTab,      \* pages; NoTab: nobody waits for this answer any more
          Threads,          \* requests in progress at once
          Local,            \* the salts that a legacy browser holds
          LegacyTabs,       \* pages of such a browser
          Backup,           \* the salts in the backup file
          BackupVersion,    \* and their kdf_version
          NoSalts,          \* null
          LegacyVault,      \* whether the vault may be one that predates server salts
          Does,             \* bound: what happens at each page
          MaxGen            \* bound: salts ever generated

KdfVersions == 1..3

ASSUME KdfSaltsAssumption ==
    /\ MaxGen \in Nat /\ BackupVersion \in KdfVersions /\ LegacyVault \in BOOLEAN
    /\ NoTab \notin Tabs /\ LegacyTabs \subseteq Tabs /\ DOMAIN Does = Tabs
    /\ Cardinality({Local, Backup, NoSalts}) = 3 /\ \A s \in {Local, Backup, NoSalts} : s \notin 1..MaxGen

VARIABLES
    vault,    \* vault_identity: kdf_salt_enc with kdf_salt_idx, and kdf_version
    recs,     \* records
    tab,      \* the memory of each page
    req,      \* the request each thread serves
    gens      \* how many salts have been generated

vars == <<vault, recs, tab, req, gens>>

Salts == (1..MaxGen) \cup {Local, Backup, NoSalts}
Keys == [salts : Salts, ver : KdfVersions]
\* What the version column holds when nothing was ever stored.
Unset == [salts |-> NoSalts, ver |-> 1]
BackupKeys == [salts |-> Backup, ver |-> BackupVersion]
LocalKeys == [salts |-> Local, ver |-> 1]

\* stale is history: the page that sealed this had not learned its keys from the vault's
\* salts, or these were written to since, or were about to be.
Records == [keys : Keys, stale : BOOLEAN]

Ops == {"none", "get", "generate", "migrate", "force", "put", "reset", "list"}
\* derive: getSalts again, the version for the keys being 1. restored: likewise after a
\* restore set the backup's salts, the version being the backup's.
Jobs == {"none", "unlock", "derive", "load", "compare", "restored", "restore", "write"}
\* sent: nothing done. checked: allowed to write salts. ok, no, missing (404), error (5xx
\* or no network): answered.
Stages == {"free", "sent", "checked", "ok", "no", "missing", "error"}
Free == [st |-> "free", op |-> "none", job |-> "none", tab |-> NoTab, keys |-> Unset, stale |-> FALSE]
Requests == [st : Stages, op : Ops, job : Jobs, tab : Tabs \cup {NoTab}, keys : Keys, stale : BOOLEAN]

\* A page: KEYS and CACHED_SALTS (Unset for null), and which of the two are stale.
Page == [keys |-> Unset, cache |-> Unset, stale |-> {}]
Pages == [keys : Keys, cache : Keys, stale : SUBSET {"keys", "cache"}]

\* Every state of the salts, the records and the pages.
TypeOK ==
    /\ vault \in Keys /\ recs \subseteq Records
    /\ tab \in [Tabs -> Pages] /\ req \in [Threads -> Requests]
    /\ gens \in 0..MaxGen
-----------------------------------------------------------------------------
At(th, op, st) == req[th].op = op /\ req[th].st = st
Answer(th, st) == req' = [req EXCEPT ![th].st = st]
-----------------------------------------------------------------------------
(* Handlers of the salts *)

\* The vault's salts and version, or 404 while there are none.
GetSalts(th) ==
    /\ At(th, "get", "sent")
    /\ req' = [req EXCEPT ![th].st = IF vault.salts = NoSalts THEN "missing" ELSE "ok",
                          ![th].keys = vault,
                          ![th].stale = @ /\ req[th].job = "restored"]
    /\ UNCHANGED <<vault, recs, tab, gens>>

\* Generate decides on salts and records it reads.
GenerateCheck(th) ==
    /\ At(th, "generate", "sent")
    /\ Answer(th, IF vault.salts = NoSalts /\ recs = {} THEN "checked" ELSE "no")
    /\ UNCHANGED <<vault, recs, tab, gens>>

\* Mistakes, here and below, replace the definition they precede to test the properties.
MayMigrateForced(force) == vault.salts # NoSalts => force

\* Without force, only onto no salts; with force, only in an empty vault.
MayMigrate(force) == vault.salts # NoSalts => force /\ recs = {}

MigrateCheck(th) ==
    /\ req[th].op \in {"migrate", "force"} /\ req[th].st = "sent"
    /\ Answer(th, IF MayMigrate(req[th].op = "force") THEN "checked" ELSE "no")
    /\ UNCHANGED <<vault, recs, tab, gens>>

\* Salts and version in one UPDATE, unconditional. What other pages know is stale from here.
StoreSalts(th, keys) ==
    /\ vault' = keys
    /\ tab' = [t \in Tabs |-> [tab[t] EXCEPT !.stale = {"keys", "cache"}]]
    /\ req' = [h \in Threads |->
                 IF h = th THEN [req[h] EXCEPT !.st = "ok", !.keys = keys, !.stale = FALSE]
                           ELSE [req[h] EXCEPT !.stale = req[h] # Free]]

GenerateStoreNoVersion(th) ==
    /\ At(th, "generate", "checked")
    /\ gens < MaxGen
    /\ gens' = gens + 1
    /\ vault' = [salts |-> gens + 1, ver |-> vault.ver]
    /\ tab' = [t \in Tabs |-> [tab[t] EXCEPT !.stale = {"keys", "cache"}]]
    /\ req' = [h \in Threads |->
                 IF h = th THEN [req[h] EXCEPT !.st = "ok", !.keys = [salts |-> gens + 1, ver |-> 3],
                                               !.stale = FALSE]
                           ELSE [req[h] EXCEPT !.stale = req[h] # Free]]
    /\ UNCHANGED recs

GenerateStore(th) ==
    /\ At(th, "generate", "checked")
    /\ gens < MaxGen
    /\ gens' = gens + 1
    /\ StoreSalts(th, [salts |-> gens + 1, ver |-> 3])
    /\ UNCHANGED recs

MigrateStore(th) ==
    /\ req[th].op \in {"migrate", "force"} /\ req[th].st = "checked"
    /\ StoreSalts(th, BackupKeys)
    /\ UNCHANGED <<recs, gens>>
-----------------------------------------------------------------------------
(* Handlers of the records, as far as salts depend on them *)

Pending == \E th \in Threads : req[th].st = "checked"

Put(th) ==
    /\ At(th, "put", "sent")
    /\ recs' = recs \cup {[keys |-> req[th].keys, stale |-> req[th].stale \/ Pending]}
    /\ Answer(th, "ok")
    /\ UNCHANGED <<vault, tab, gens>>

Reset(th) ==
    /\ At(th, "reset", "sent")
    /\ recs' = {}
    /\ Answer(th, "ok")
    /\ UNCHANGED <<vault, tab, gens>>

\* All records are fetched, and each must open under the keys just derived.
List(th) ==
    /\ At(th, "list", "sent")
    /\ Answer(th, IF \A r \in recs : r.keys = req[th].keys THEN "ok" ELSE "no")
    /\ UNCHANGED <<vault, recs, tab, gens>>

\* A call does not get through, or its answer does not.
Fail(th) ==
    /\ req[th].st \in {"sent", "ok", "no", "missing"} /\ "flaky" \in Does[req[th].tab]
    /\ Answer(th, "error")
    /\ UNCHANGED <<vault, recs, tab, gens>>
-----------------------------------------------------------------------------
(* Pages *)

StaleIf(p, what, b) == IF b THEN p.stale \cup {what} ELSE p.stale \ {what}

\* getSalts got salts from the server: they are cached, and the keys derive from them, with
\* the version that came along or with the one already chosen.
Learn(p, r, ver) ==
    [keys |-> [salts |-> r.keys.salts, ver |-> ver], cache |-> r.keys,
     stale |-> IF r.stale \/ r.job = "derive"
               THEN {"keys"} \cup (IF r.stale THEN {"cache"} ELSE {}) ELSE {}]
\* It used the browser's legacy salts, which are not cached.
UseLocal(p, ver) == [p EXCEPT !.keys = [salts |-> Local, ver |-> ver], !.stale = @ \cup {"keys"}]

VersionLeftOut(r) == IF r.job = "derive" THEN 0 ELSE r.keys.ver
\* The version of the keys: that of the first answer, which a fallback gave as 1, that of
\* the backup, or the vault's.
Version(r) ==
    CASE r.job = "derive" -> 1 [] r.job = "restored" -> BackupVersion [] OTHER -> r.keys.ver

Call(t, op, job, keys, stale) ==
    [st |-> "sent", op |-> op, job |-> job, tab |-> t, keys |-> keys, stale |-> stale]

\* With keys in hand: an unlock loads the records, a restore uploads those of the backup.
AfterKeys(t, r, keys) ==
    IF r.job = "restored" THEN Call(t, "put", "restore", BackupKeys, r.stale)
                          ELSE Call(t, "list", "load", keys, FALSE)

Reply(th, page, next) ==
    /\ tab' = [tab EXCEPT ![req[th].tab] = page]
    /\ req' = [req EXCEPT ![th] = next]
    /\ UNCHANGED <<vault, recs, gens>>

Deriving(r) == r.op \in {"get", "generate"} /\ r.job \in {"unlock", "derive", "restored"}

KeysFromServer(th) ==
    LET r == req[th]
        page == Learn(tab[r.tab], r, Version(r))
    IN  /\ Deriving(r) /\ r.st = "ok"
        /\ Reply(th, page, AfterKeys(r.tab, r, page.keys))

\* 404: no salts yet, they are generated.
GenerateFirst(th) ==
    LET r == req[th]
    IN  /\ Deriving(r) /\ r.op = "get" /\ r.st = "missing"
        /\ Reply(th, tab[r.tab], Call(r.tab, "generate", r.job, Unset, r.stale))

\* Any other failure of the GET: the browser's legacy salts, if it has some.
FallBack(th) ==
    LET r == req[th]
        page == UseLocal(tab[r.tab], Version(r))
    IN  /\ Deriving(r) /\ r.op = "get" /\ r.st = "error" /\ r.tab \in LegacyTabs
        /\ IF r.job = "unlock" THEN Reply(th, tab[r.tab], Call(r.tab, "get", "derive", Unset, TRUE))
                               ELSE Reply(th, page, AfterKeys(r.tab, r, page.keys))

NoKeys(th) ==
    LET r == req[th]
    IN  /\ Deriving(r)
        /\ \/ r.op = "get" /\ r.st = "error" /\ r.tab \notin LegacyTabs
           \/ r.op = "generate" /\ r.st \in {"no", "error"}
        /\ Reply(th, tab[r.tab], Free)

\* Records that do not open mean a wrong passphrase, and the page is locked again.
Loaded(th) ==
    LET r == req[th]
    IN  /\ r.op = "list" /\ r.st \in {"ok", "error", "no"}
        /\ Reply(th, IF r.st = "ok" THEN tab[r.tab] ELSE [tab[r.tab] EXCEPT !.keys = Unset], Free)

\* A restore looks whether the vault has the backup's salts, and sets them if it has not.
Compared(th) ==
    LET r == req[th]
        next == CASE r.st = "missing" -> Call(r.tab, "migrate", "restore", BackupKeys, FALSE)
                  [] r.st = "error"   -> Free
                  [] r.st = "ok"      -> IF r.keys.salts = Backup
                                         THEN Call(r.tab, "put", "restore", BackupKeys, r.stale)
                                         ELSE Call(r.tab, "force", "restore", BackupKeys, FALSE)
    IN  /\ r.job = "compare" /\ r.st \in {"ok", "missing", "error"}
        /\ Reply(th, tab[r.tab], next)

MigratedGoingOn(th) ==
    LET r == req[th]
    IN  /\ r.op \in {"migrate", "force"} /\ r.st \in {"ok", "no", "error"}
        /\ Reply(th, [tab[r.tab] EXCEPT !.cache = Unset],
                 Call(r.tab, "get", "restored", Unset, r.stale))

\* The keys are derived anew from what the vault holds then.
Migrated(th) ==
    LET r == req[th]
    IN  /\ r.op \in {"migrate", "force"} /\ r.st \in {"ok", "no", "error"}
        /\ IF r.st = "ok" THEN Reply(th, [tab[r.tab] EXCEPT !.cache = Unset],
                                     Call(r.tab, "get", "restored", Unset, r.stale))
                          ELSE Reply(th, tab[r.tab], Free)

\* An upload ends, well or not; a reset locks the page and leaves its cached salts.
Written(th) ==
    LET r == req[th]
        locks == r.op = "reset" /\ r.st = "ok"
    IN  /\ r.op \in {"put", "reset"} /\ r.st \in {"ok", "error"}
        /\ Reply(th, IF locks THEN [tab[r.tab] EXCEPT !.keys = Unset] ELSE tab[r.tab], Free)

Busy(t) == \E th \in Threads : req[th].tab = t /\ req[th].job \in {"unlock", "derive", "load"}

\* With cached salts the keys derive from these, without a call.
StartUnlock(t, th) ==
    /\ tab[t].keys = Unset /\ ~Busy(t) /\ req[th] = Free
    /\ LET p == tab[t]
       IN  IF p.cache = Unset
           THEN /\ req' = [req EXCEPT ![th] = Call(t, "get", "unlock", Unset, FALSE)]
                /\ UNCHANGED tab
           ELSE /\ req' = [req EXCEPT ![th] = Call(t, "list", "load", p.cache, FALSE)]
                /\ tab' = [tab EXCEPT ![t].keys = p.cache,
                                      ![t].stale = StaleIf(p, "keys", "cache" \in p.stale)]
    /\ UNCHANGED <<vault, recs, gens>>

Start(t, th) ==
    /\ ~Busy(t) /\ req[th] = Free
    /\ \/ /\ "restore" \in Does[t] /\ tab[t].keys # Unset
          /\ req' = [req EXCEPT ![th] = Call(t, "get", "compare", Unset, FALSE)]
       \/ /\ "write" \in Does[t] /\ tab[t].keys # Unset
          /\ req' = [req EXCEPT ![th] = Call(t, "put", "write", tab[t].keys, "keys" \in tab[t].stale)]
       \/ /\ "reset" \in Does[t]
          /\ req' = [req EXCEPT ![th] = Call(t, "reset", "write", Unset, FALSE)]
    /\ UNCHANGED <<vault, recs, tab, gens>>

\* Locking keeps the cached salts; a new page starts without.
Lock(t) ==
    /\ "lock" \in Does[t] /\ ~Busy(t) /\ tab[t] # Page
    /\ \/ tab' = [tab EXCEPT ![t].keys = Unset]
       \/ (\A th \in Threads : req[th].tab # t) /\ tab' = [tab EXCEPT ![t] = Page]
    /\ UNCHANGED <<vault, recs, req, gens>>
-----------------------------------------------------------------------------
Init ==
    /\ vault = Unset
    /\ recs \in {{}} \cup (IF LegacyVault THEN {{[keys |-> LocalKeys, stale |-> TRUE]}} ELSE {})
    /\ tab = [t \in Tabs |-> Page]
    /\ req = [th \in Threads |-> Free]
    /\ gens = 0

Step(th) ==
    \/ GetSalts(th) \/ GenerateCheck(th) \/ GenerateStore(th) \/ MigrateCheck(th) \/ MigrateStore(th)
    \/ Put(th) \/ Reset(th) \/ List(th) \/ Fail(th)
    \/ KeysFromServer(th) \/ GenerateFirst(th) \/ FallBack(th) \/ NoKeys(th) \/ Loaded(th)
    \/ Compared(th) \/ Migrated(th) \/ Written(th)

Next ==
    \/ \E th \in Threads : Step(th)
    \/ \E t \in Tabs, th \in Threads : StartUnlock(t, th) \/ Start(t, th)
    \/ \E t \in Tabs : Lock(t)

Spec == Init /\ [][Next]_vars
-----------------------------------------------------------------------------
(* Properties *)

\* What a page sealed can be opened with the vault's salts and version, unless these were
\* written to after the page learned them, or a write already decided on was to come, or it
\* used the salts of a legacy browser. So a vault whose pages take turns stays whole:
\* through first unlock, restore, refusals, failures and retries.
ReadableUnlessOverwritten == \A r \in recs : ~r.stale => r.keys = vault

\* The keys a page derived from the vault's salts are the vault's for as long as nobody
\* writes the salts: version and salts come from the same vault, whichever path they took.
KeysFollowVault ==
    \A t \in Tabs : tab[t].keys # Unset /\ "keys" \notin tab[t].stale => tab[t].keys = vault

\* generate is "only allowed when no salts are set AND no records exist".
GeneratedOnlyWhenUnset ==
    [][gens' # gens => vault.salts = NoSalts /\ recs = {}]_vars
=============================================================================
