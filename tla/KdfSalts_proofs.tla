--------------------------- MODULE KdfSalts_proofs ---------------------------
(***************************************************************************)
(* Why records stay readable although nothing is locked while salts are    *)
(* written: for any number of pages and requests, whichever page runs in a *)
(* legacy browser, whichever version a backup has.                         *)
(***************************************************************************)
EXTENDS KdfSalts, TLAPS, FiniteSetTheorems

(* What has not gone stale is the vault's, and a vault that something was learned of has
   salts. *)
OfTheVault(keys) == keys = vault /\ vault.salts # NoSalts

(* A request's answer, or what it carries; and that a restore which has set the backup's
   salts finds salts whatever happened since. *)
Sound(r) ==
    /\ r.op \in {"get", "generate"} /\ r.st = "ok" /\ ~r.stale => OfTheVault(r.keys)
    /\ r.op = "put" /\ ~r.stale => OfTheVault(r.keys)
    /\ (r.op \in {"migrate", "force"} /\ r.st = "ok") \/ r.job = "restored" =>
            vault.salts # NoSalts /\ (~r.stale => vault = BackupKeys)
    /\ r.job = "restored" => r.op = "get" /\ r.st # "missing"
    /\ r.job = "compare" => r.op = "get"

Follows(p) ==
    /\ p.keys # Unset /\ "keys" \notin p.stale => OfTheVault(p.keys)
    /\ p.cache # Unset /\ "cache" \notin p.stale => OfTheVault(p.cache)

(* A write of salts is decided on only while no record would be lost by it, and what is
   stored while it is to come counts as stale at once. *)
Decided == Pending => \A r \in recs : r.stale

Learned ==
    /\ vault.salts = Backup => vault = BackupKeys
    /\ \A r \in recs : ~r.stale => OfTheVault(r.keys)
    /\ \A th \in Threads : Sound(req[th])
    /\ \A t \in Tabs : Follows(tab[t])
    /\ Decided

IInv == TypeOK /\ Learned
-----------------------------------------------------------------------------
LEMMA Distinct == Backup # NoSalts /\ Local # NoSalts /\ \A n \in 1..MaxGen : n \notin {NoSalts, Backup, Local}
<1>1. ASSUME NEW a, NEW b PROVE Cardinality({a, b}) <= 2 /\ Cardinality({a, b}) \in Nat
  <2>1. IsFiniteSet({a}) /\ Cardinality({a}) = 1
    BY FS_Singleton
  <2>2. Cardinality({a} \cup {b}) \in {1, 2}
    BY <2>1, FS_AddElement
  <2>3. {a} \cup {b} = {a, b}
    OBVIOUS
  <2> QED
    BY <2>2, <2>3
<1>2. Cardinality({Local, NoSalts}) # 3 /\ Cardinality({Backup, Local}) # 3
  <2>1. Cardinality({Local, NoSalts}) <= 2 /\ Cardinality({Backup, Local}) <= 2
        /\ Cardinality({Local, NoSalts}) \in Nat /\ Cardinality({Backup, Local}) \in Nat
    BY <1>1
  <2> QED
    BY <2>1
<1>3. Cardinality({Local, Backup, NoSalts}) = 3
  BY KdfSaltsAssumption
<1>4. Backup # NoSalts
  <2>1. Backup = NoSalts => {Local, Backup, NoSalts} = {Local, NoSalts}
    OBVIOUS
  <2> QED
    BY <1>2, <1>3, <2>1
<1>5. Local # NoSalts
  <2>1. Local = NoSalts => {Local, Backup, NoSalts} = {Backup, Local}
    OBVIOUS
  <2> QED
    BY <1>2, <1>3, <2>1
<1> QED
  BY <1>4, <1>5, KdfSaltsAssumption

LEMMA KeysTypes ==
    Unset \in Keys /\ BackupKeys \in Keys /\ LocalKeys \in Keys /\ Free \in Requests /\ Page \in Pages
BY KdfSaltsAssumption DEF Unset, BackupKeys, LocalKeys, Keys, Salts, KdfVersions, Free, Requests,
   Stages, Ops, Jobs, Page, Pages

LEMMA CallType ==
    ASSUME NEW t \in Tabs \cup {NoTab}, NEW op \in Ops, NEW job \in Jobs, NEW keys \in Keys, NEW stale \in BOOLEAN
    PROVE  Call(t, op, job, keys, stale) \in Requests
BY DEF Call, Requests, Stages

(* A page's next call, or that it rests, once an answer is in. *)
LEMMA ReplyType ==
    ASSUME TypeOK, NEW th \in Threads, NEW page, NEW next \in Requests, Reply(th, page, next),
           req[th].tab \in Tabs => page \in Pages
    PROVE  TypeOK'
<1>1. tab' \in [Tabs -> Pages] /\ req' \in [Threads -> Requests]
  BY DEF Reply, TypeOK
<1> QED
  BY <1>1 DEF Reply, TypeOK

LEMMA AnswerType ==
    ASSUME TypeOK, NEW th \in Threads, NEW st \in Stages, Answer(th, st)
    PROVE  req' \in [Threads -> Requests]
BY DEF Answer, TypeOK, Requests

LEMMA RequestSet ==
    ASSUME NEW r \in Requests, NEW st \in Stages, NEW keys \in Keys, NEW stale \in BOOLEAN
    PROVE  /\ [r EXCEPT !.st = st, !.keys = keys, !.stale = stale] \in Requests
           /\ [r EXCEPT !.stale = stale] \in Requests
BY DEF Requests

LEMMA StoreType ==
    ASSUME TypeOK, NEW th \in Threads, NEW keys \in Keys, StoreSalts(th, keys)
    PROVE  vault' \in Keys /\ tab' \in [Tabs -> Pages] /\ req' \in [Threads -> Requests]
<1>1. "ok" \in Stages /\ keys \in Keys
  BY DEF Stages
<1>2. \A h \in Threads : (req[h] # Free) \in BOOLEAN /\ FALSE \in BOOLEAN
  OBVIOUS
<1>3. req' \in [Threads -> Requests]
  <2>1. req' = [h \in Threads |->
                 IF h = th THEN [req[h] EXCEPT !.st = "ok", !.keys = keys, !.stale = FALSE]
                           ELSE [req[h] EXCEPT !.stale = (req[h] # Free)]]
    BY DEF StoreSalts
  <2>2. \A h \in Threads : req'[h] \in Requests
    <3> SUFFICES ASSUME NEW h \in Threads PROVE req'[h] \in Requests
      OBVIOUS
    <3>1. CASE h = th
      BY <1>1, <1>2, <2>1, <3>1, RequestSet DEF TypeOK
    <3>2. CASE h # th
      <4> DEFINE stale == req[h] # Free
      <4>1. stale \in BOOLEAN /\ req'[h] = [req[h] EXCEPT !.stale = stale] /\ req[h] \in Requests
        BY <2>1, <3>2 DEF TypeOK
      <4>2. stale \in BOOLEAN /\ req[h] \in Requests
        BY <4>1
      <4> HIDE DEF stale
      <4>3. [req[h] EXCEPT !.stale = stale] \in Requests
        BY <4>2 DEF Requests
      <4> QED
        BY <4>1, <4>3
    <3> QED
      BY <3>1, <3>2
  <2> QED
    BY <2>1, <2>2
<1>4. tab' \in [Tabs -> Pages]
  BY DEF StoreSalts, TypeOK, Pages
<1> QED
  BY <1>3, <1>4 DEF StoreSalts

LEMMA PageKeysType ==
    ASSUME NEW page \in Pages, NEW keys \in Keys
    PROVE  [page EXCEPT !.keys = keys] \in Pages /\ [page EXCEPT !.cache = keys] \in Pages
BY DEF Pages

LEMMA LearnType ==
    ASSUME NEW page, NEW r \in Requests
    PROVE  Version(r) \in KdfVersions /\ Learn(page, r, Version(r)) \in Pages
<1>1. r.keys.ver \in KdfVersions /\ r.keys.salts \in Salts /\ r.keys \in Keys /\ r.stale \in BOOLEAN
  BY DEF Requests, Keys
<1>2. Version(r) \in KdfVersions
  BY <1>1, KdfSaltsAssumption DEF Version, KdfVersions
<1> QED
  BY <1>1, <1>2 DEF Learn, Pages, Keys

LEMMA UseLocalType ==
    ASSUME NEW page \in Pages, NEW r \in Requests
    PROVE  UseLocal(page, Version(r)) \in Pages
<1>1. Version(r) \in KdfVersions
  BY LearnType
<1> QED
  BY <1>1 DEF UseLocal, Pages, Keys, Salts

LEMMA AfterKeysType ==
    ASSUME NEW r \in Requests, NEW keys \in Keys
    PROVE  AfterKeys(r.tab, r, keys) \in Requests
<1>1. r.tab \in Tabs \cup {NoTab} /\ r.stale \in BOOLEAN /\ FALSE \in BOOLEAN /\ BackupKeys \in Keys
  BY KeysTypes DEF Requests
<1>2. {"put", "list"} \subseteq Ops /\ {"restore", "load"} \subseteq Jobs
  BY DEF Ops, Jobs
<1>3. /\ Call(r.tab, "put", "restore", BackupKeys, r.stale) \in Requests
      /\ Call(r.tab, "list", "load", keys, FALSE) \in Requests
  BY <1>1, <1>2, CallType
<1> QED
  BY <1>3 DEF AfterKeys

LEMMA InitTyped == Init => TypeOK
<1> SUFFICES ASSUME Init PROVE TypeOK
  OBVIOUS
<1>1. recs \subseteq Records
  <2>1. [keys |-> LocalKeys, stale |-> TRUE] \in Records
    BY KeysTypes DEF Records
  <2> QED
    BY <2>1 DEF Init
<1> QED
  BY <1>1, KeysTypes, KdfSaltsAssumption DEF Init, TypeOK

LEMMA NextTyped == TypeOK /\ [Next]_vars => TypeOK'
<1> SUFFICES ASSUME TypeOK, [Next]_vars PROVE TypeOK'
  OBVIOUS
<1>1. /\ vault \in Keys /\ recs \subseteq Records /\ gens \in 0..MaxGen /\ MaxGen \in Nat
      /\ tab \in [Tabs -> Pages] /\ req \in [Threads -> Requests]
  BY KdfSaltsAssumption DEF TypeOK
<1>2. Unset \in Keys /\ BackupKeys \in Keys /\ Free \in Requests /\ Page \in Pages
  BY KeysTypes
<1>3. ASSUME NEW th \in Threads, NEW st \in {"checked", "ok", "no", "error"}, Answer(th, st),
             recs' \subseteq Records, UNCHANGED <<vault, tab, gens>>
      PROVE  TypeOK'
  <2>1. st \in Stages
    BY DEF Stages
  <2> QED
    BY <1>1, <1>3, <2>1, AnswerType DEF TypeOK
<1>4. ASSUME NEW th \in Threads, GetSalts(th) PROVE TypeOK'
  <2>1. req' \in [Threads -> Requests]
    <3>1. (req[th].stale /\ req[th].job = "restored") \in BOOLEAN
      OBVIOUS
    <3>2. PICK st \in Stages, stale \in BOOLEAN :
             req' = [req EXCEPT ![th] = [req[th] EXCEPT !.st = st, !.keys = vault, !.stale = stale]]
      BY <1>1, <1>4, <3>1 DEF GetSalts, Stages
    <3> QED
      BY <1>1, <3>2, RequestSet
  <2> QED
    BY <1>1, <1>4, <2>1 DEF GetSalts, TypeOK
<1>5. ASSUME NEW th \in Threads, GenerateCheck(th) \/ MigrateCheck(th) \/ List(th) \/ Fail(th) PROVE TypeOK'
  BY <1>1, <1>3, <1>5 DEF GenerateCheck, MigrateCheck, List, Fail
<1>6. ASSUME NEW th \in Threads, Put(th) \/ Reset(th) PROVE TypeOK'
  <2>1. recs' \subseteq Records
    <3>1. (req[th].stale \/ Pending) \in BOOLEAN /\ req[th].keys \in Keys
      BY <1>1 DEF Requests
    <3>2. [keys |-> req[th].keys, stale |-> req[th].stale \/ Pending] \in Records
      BY <3>1 DEF Records
    <3> QED
      BY <1>1, <1>6, <3>2 DEF Put, Reset
  <2> QED
    BY <1>3, <1>6, <2>1 DEF Put, Reset
<1>7. ASSUME NEW th \in Threads, GenerateStore(th) PROVE TypeOK'
  <2>1. gens' \in 1..MaxGen /\ gens' = gens + 1
    BY <1>1, <1>7 DEF GenerateStore
  <2>2. [salts |-> gens + 1, ver |-> 3] \in Keys
    BY <2>1 DEF Keys, Salts, KdfVersions
  <2> QED
    BY <1>1, <1>7, <2>1, <2>2, StoreType DEF GenerateStore, TypeOK
<1>8. ASSUME NEW th \in Threads, MigrateStore(th) PROVE TypeOK'
  BY <1>1, <1>2, <1>8, StoreType DEF MigrateStore, TypeOK
<1>9. ASSUME NEW th \in Threads, KeysFromServer(th) PROVE TypeOK'
  <2> DEFINE r == req[th]
             page == Learn(tab[r.tab], r, Version(r))
  <2>1. r \in Requests /\ page \in Pages
    BY <1>1, LearnType
  <2>2. AfterKeys(r.tab, r, page.keys) \in Requests
    BY <2>1, AfterKeysType DEF Pages
  <2>3. Reply(th, page, AfterKeys(r.tab, r, page.keys))
    BY <1>9 DEF KeysFromServer
  <2> HIDE DEF page
  <2> QED
    BY <2>1, <2>2, <2>3, ReplyType
<1>10. ASSUME NEW th \in Threads, FallBack(th) PROVE TypeOK'
  <2> DEFINE r == req[th]
             page == UseLocal(tab[r.tab], Version(r))
  <2>1. r \in Requests /\ r.tab \in Tabs /\ tab[r.tab] \in Pages
    BY <1>1, <1>10, KdfSaltsAssumption DEF FallBack
  <2>2. page \in Pages
    BY <2>1, UseLocalType
  <2>3. AfterKeys(r.tab, r, page.keys) \in Requests
    BY <2>1, <2>2, AfterKeysType DEF Pages
  <2>4. Call(r.tab, "get", "derive", Unset, TRUE) \in Requests
    BY <1>2, <2>1, CallType DEF Ops, Jobs
  <2>5. \/ Reply(th, tab[r.tab], Call(r.tab, "get", "derive", Unset, TRUE))
        \/ Reply(th, page, AfterKeys(r.tab, r, page.keys))
    BY <1>10 DEF FallBack
  <2> HIDE DEF page
  <2> QED
    BY <2>1, <2>2, <2>3, <2>4, <2>5, ReplyType
<1>11. ASSUME NEW th \in Threads, NoKeys(th) \/ Loaded(th) \/ Written(th) PROVE TypeOK'
  <2>1. \E page \in {tab[req[th].tab], [tab[req[th].tab] EXCEPT !.keys = Unset]} : Reply(th, page, Free)
    BY <1>11 DEF NoKeys, Loaded, Written
  <2> QED
    BY <1>1, <1>2, <2>1, PageKeysType, ReplyType
<1>12. ASSUME NEW th \in Threads, GenerateFirst(th) PROVE TypeOK'
  <2>1. Call(req[th].tab, "generate", req[th].job, Unset, req[th].stale) \in Requests
    <3>1. req[th].tab \in Tabs \cup {NoTab} /\ req[th].stale \in BOOLEAN /\ req[th].job \in Jobs
      BY <1>1 DEF Requests
    <3> QED
      BY <1>2, <3>1, CallType DEF Ops
  <2> QED
    BY <1>1, <1>12, <2>1, ReplyType DEF GenerateFirst
<1>13. ASSUME NEW th \in Threads, Compared(th) PROVE TypeOK'
  <2>1. req[th].tab \in Tabs \cup {NoTab} /\ req[th].stale \in BOOLEAN
    BY <1>1 DEF Requests
  <2>2. \A op \in {"migrate", "force", "put"}, stale \in BOOLEAN :
            Call(req[th].tab, op, "restore", BackupKeys, stale) \in Requests
    BY <1>2, <2>1, CallType DEF Ops, Jobs
  <2>3. PICK next \in Requests : Reply(th, tab[req[th].tab], next)
    BY <1>2, <1>13, <2>1, <2>2 DEF Compared
  <2> QED
    BY <1>1, <2>3, ReplyType
<1>14. ASSUME NEW th \in Threads, Migrated(th) PROVE TypeOK'
  <2>1. Call(req[th].tab, "get", "restored", Unset, req[th].stale) \in Requests
    <3>1. req[th].tab \in Tabs \cup {NoTab} /\ req[th].stale \in BOOLEAN
      BY <1>1 DEF Requests
    <3> QED
      BY <1>2, <3>1, CallType DEF Ops, Jobs
  <2>2. \/ Reply(th, [tab[req[th].tab] EXCEPT !.cache = Unset],
                 Call(req[th].tab, "get", "restored", Unset, req[th].stale))
        \/ Reply(th, tab[req[th].tab], Free)
    BY <1>14 DEF Migrated
  <2> QED
    BY <1>1, <1>2, <2>1, <2>2, PageKeysType, ReplyType
<1>15. ASSUME NEW t \in Tabs, NEW th \in Threads, StartUnlock(t, th) PROVE TypeOK'
  <2>1. tab[t] \in Pages /\ tab[t].cache \in Keys
    BY <1>1 DEF Pages
  <2>2. /\ Call(t, "get", "unlock", Unset, FALSE) \in Requests
        /\ Call(t, "list", "load", tab[t].cache, FALSE) \in Requests
    BY <1>2, <2>1, CallType DEF Ops, Jobs
  <2>3. req' \in [Threads -> Requests]
    BY <1>1, <1>15, <2>2 DEF StartUnlock
  <2>4. tab' \in [Tabs -> Pages]
    <3>1. StaleIf(tab[t], "keys", "cache" \in tab[t].stale) \in SUBSET {"keys", "cache"}
      BY <2>1 DEF StaleIf, Pages
    <3>2. \A stale \in SUBSET {"keys", "cache"} :
             [tab[t] EXCEPT !.keys = tab[t].cache, !.stale = stale] \in Pages
      BY <2>1 DEF Pages
    <3>3. CASE tab[t].cache = Unset
      BY <1>1, <1>15, <3>3 DEF StartUnlock
    <3>4. CASE tab[t].cache # Unset
      <4>1. tab' = [tab EXCEPT ![t] = [tab[t] EXCEPT !.keys = tab[t].cache,
                       !.stale = StaleIf(tab[t], "keys", "cache" \in tab[t].stale)]]
        BY <1>1, <1>15, <3>4 DEF StartUnlock
      <4> QED
        BY <1>1, <3>1, <3>2, <4>1
    <3> QED
      BY <3>3, <3>4
  <2> QED
    BY <1>1, <1>15, <2>3, <2>4 DEF StartUnlock, TypeOK
<1>16. ASSUME NEW t \in Tabs, NEW th \in Threads, Start(t, th) PROVE TypeOK'
  <2>1. tab[t].keys \in Keys
    BY <1>1 DEF Pages
  <2>2. /\ Call(t, "get", "compare", Unset, FALSE) \in Requests
        /\ Call(t, "put", "write", tab[t].keys, "keys" \in tab[t].stale) \in Requests
        /\ Call(t, "reset", "write", Unset, FALSE) \in Requests
    <3>1. ("keys" \in tab[t].stale) \in BOOLEAN /\ FALSE \in BOOLEAN
      OBVIOUS
    <3>2. {"get", "put", "reset"} \subseteq Ops /\ {"compare", "write"} \subseteq Jobs
      BY DEF Ops, Jobs
    <3> QED
      BY <1>2, <2>1, <3>1, <3>2, CallType
  <2>3. req' \in [Threads -> Requests]
    BY <1>1, <1>16, <2>2 DEF Start
  <2> QED
    BY <1>1, <1>16, <2>3 DEF Start, TypeOK
<1>17. ASSUME NEW t \in Tabs, Lock(t) PROVE TypeOK'
  <2>1. tab' \in [Tabs -> Pages]
    BY <1>1, <1>2, <1>17 DEF Lock, Pages
  <2> QED
    BY <1>1, <1>17, <2>1 DEF Lock, TypeOK
<1>18. CASE UNCHANGED vars
  BY <1>1, <1>18 DEF vars, TypeOK
<1> QED
  BY <1>4, <1>5, <1>6, <1>7, <1>8, <1>9, <1>10, <1>11, <1>12, <1>13, <1>14, <1>15, <1>16, <1>17,
     <1>18 DEF Next, Step
-----------------------------------------------------------------------------
(* Steps that write no salts *)

LEMMA SameVault ==
    ASSUME Learned, vault' = vault,
           \A r \in recs' : ~r.stale => OfTheVault(r.keys),
           \A th \in Threads : Sound(req'[th]),
           \A t \in Tabs : Follows(tab'[t]),
           Decided'
    PROVE  Learned'
BY DEF Learned, OfTheVault, Sound, Follows

LEMMA ReplyLearned ==
    ASSUME TypeOK, Learned, NEW th \in Threads, NEW page, NEW next, Reply(th, page, next),
           Sound(next), next.st # "checked", req[th].tab \in Tabs => Follows(page)
    PROVE  Learned'
<1>1. /\ req \in [Threads -> Requests] /\ tab \in [Tabs -> Pages]
      /\ vault' = vault /\ recs' = recs
      /\ req' = [req EXCEPT ![th] = next] /\ tab' = [tab EXCEPT ![req[th].tab] = page]
  BY DEF TypeOK, Reply
<1>2. \A o \in Threads : req'[o] = IF o = th THEN next ELSE req[o]
  BY <1>1
<1>3. \A t \in Tabs : tab'[t] \in {page, tab[t]} /\ (tab'[t] = page => tab'[t] = tab[t] \/ req[th].tab \in Tabs)
  BY <1>1
<1>4. \A o \in Threads : Sound(req'[o])
  BY <1>2 DEF Learned
<1>5. \A t \in Tabs : Follows(tab'[t])
  BY <1>3 DEF Learned
<1>6. Decided'
  BY <1>1, <1>2 DEF Learned, Decided, Pending
<1> QED
  BY <1>1, <1>4, <1>5, <1>6, SameVault DEF Learned

LEMMA AnswerLearned ==
    ASSUME TypeOK, Learned, NEW th \in Threads, NEW st, Answer(th, st), UNCHANGED <<vault, tab>>,
           Sound([req[th] EXCEPT !.st = st]),
           \A r \in recs' : ~r.stale => OfTheVault(r.keys),
           Pending \/ st = "checked" => \A r \in recs' : r.stale
    PROVE  Learned'
<1>1. req \in [Threads -> Requests] /\ req' = [req EXCEPT ![th] = [req[th] EXCEPT !.st = st]]
  BY DEF TypeOK, Answer
<1>2. \A o \in Threads : req'[o] = IF o = th THEN [req[th] EXCEPT !.st = st] ELSE req[o]
  BY <1>1
<1>3. \A o \in Threads : Sound(req'[o])
  BY <1>2 DEF Learned
<1>4. [req[th] EXCEPT !.st = st].st = st
  BY <1>1 DEF Requests
<1>5. Decided'
  BY <1>2, <1>4 DEF Decided, Pending
<1> QED
  BY <1>3, <1>5, SameVault DEF Learned

LEMMA CallSound ==
    ASSUME NEW t, NEW op, NEW job, NEW keys, NEW stale,
           op = "put" /\ ~stale => OfTheVault(keys), job = "compare" => op = "get",
           job = "restored" => op = "get" /\ vault.salts # NoSalts /\ (~stale => vault = BackupKeys)
    PROVE  Sound(Call(t, op, job, keys, stale)) /\ Call(t, op, job, keys, stale).st # "checked"
BY DEF Call, Sound

LEMMA FreeSound == Sound(Free) /\ Free.st # "checked"
BY DEF Free, Sound
-----------------------------------------------------------------------------
(* Steps that write salts: everybody else's are stale from then on *)

LEMMA StoreLearned ==
    ASSUME TypeOK, Learned, NEW th \in Threads, NEW keys \in Keys, StoreSalts(th, keys),
           UNCHANGED recs, req[th].st = "checked", keys.salts # NoSalts,
           keys.salts = Backup => keys = BackupKeys,
           req[th].op \in {"migrate", "force"} => keys = BackupKeys,
           req[th].op \in {"generate", "migrate", "force"}
    PROVE  Learned'
<1>1. vault' = keys /\ req \in [Threads -> Requests]
  BY DEF StoreSalts, TypeOK
<1>2. \A h \in Threads :
         req'[h] = IF h = th THEN [req[h] EXCEPT !.st = "ok", !.keys = keys, !.stale = FALSE]
                             ELSE [req[h] EXCEPT !.stale = req[h] # Free]
  BY DEF StoreSalts
<1>3. \A t \in Tabs : Follows(tab[t])'
  <2>1. ASSUME NEW t \in Tabs PROVE tab'[t].stale = {"keys", "cache"}
    BY DEF StoreSalts, TypeOK, Pages
  <2> QED
    BY <2>1 DEF Follows
<1>4. ASSUME NEW h \in Threads PROVE Sound(req[h])'
  <2>1. Sound(req[h]) /\ req[h] \in Requests
    BY <1>1 DEF Learned
  <2>2. CASE h = th
    <3>1. /\ req'[h].op = req[h].op /\ req'[h].job = req[h].job
          /\ req'[h].st = "ok" /\ req'[h].keys = keys /\ req'[h].stale = FALSE
      BY <1>2, <2>1, <2>2 DEF Requests
    <3> QED
      BY <1>1, <2>1, <2>2, <3>1 DEF Sound, OfTheVault
  <2>3. CASE h # th /\ req[h] # Free
    <3>1. /\ req'[h].op = req[h].op /\ req'[h].job = req[h].job /\ req'[h].st = req[h].st
          /\ req'[h].stale
      BY <1>2, <2>1, <2>3 DEF Requests
    <3> QED
      BY <1>1, <2>1, <3>1 DEF Sound
  <2>4. CASE h # th /\ req[h] = Free
    <3>1. req'[h].op = req[h].op /\ req'[h].job = req[h].job
      BY <1>2, <2>1, <2>4 DEF Requests
    <3>2. req'[h].op = "none" /\ req'[h].job = "none"
      BY <2>4, <3>1 DEF Free
    <3> QED
      BY <3>2 DEF Sound
  <2> QED
    BY <2>2, <2>3, <2>4
<1>5. \A r \in recs : r.stale
  BY DEF Learned, Decided, Pending
<1> QED
  BY <1>1, <1>3, <1>4, <1>5 DEF Learned, Decided
-----------------------------------------------------------------------------
(* What a page derives *)

\* Keys that go into use are the vault's unless they are stale, and with them what a
\* restore is about to upload.
LEMMA LearnFollows ==
    ASSUME NEW r \in Requests, NEW page, Sound(r), Deriving(r), r.st = "ok"
    PROVE  Follows(Learn(page, r, Version(r)))
<1> DEFINE p == Learn(page, r, Version(r))
<1>1. r.keys \in Keys
  BY DEF Requests
<1>2. p.cache = r.keys /\ p.keys = [salts |-> r.keys.salts, ver |-> Version(r)]
      /\ ("keys" \notin p.stale => ~r.stale /\ r.job # "derive") /\ ("cache" \notin p.stale => ~r.stale)
  BY DEF Learn
<1>3. ~r.stale => OfTheVault(r.keys)
  BY DEF Sound, Deriving
<1>4. ASSUME ~r.stale, r.job # "derive" PROVE p.keys = r.keys
  <2>1. r.job = "restored" => r.keys = BackupKeys
    BY <1>3, <1>4 DEF Sound, OfTheVault
  <2>2. Version(r) = r.keys.ver
    BY <1>4, <2>1 DEF Version, BackupKeys
  <2> QED
    BY <1>1, <1>2, <2>2 DEF Keys
<1>5. Follows(p)
  <2> HIDE DEF p
  <2> QED
    BY <1>2, <1>3, <1>4 DEF Follows
<1> QED
  BY <1>5

LEMMA AfterKeysSound ==
    ASSUME NEW r, NEW keys, Sound(r)
    PROVE  Sound(AfterKeys(r.tab, r, keys)) /\ AfterKeys(r.tab, r, keys).st # "checked"
<1>1. CASE r.job = "restored"
  <2>1. ~r.stale => OfTheVault(BackupKeys)
    BY <1>1, Distinct DEF Sound, OfTheVault, BackupKeys
  <2> QED
    BY <1>1, <2>1, CallSound DEF AfterKeys
<1>2. CASE r.job # "restored"
  BY <1>2, CallSound DEF AfterKeys
<1> QED
  BY <1>1, <1>2
-----------------------------------------------------------------------------
LEMMA InitLearned == Init => Learned
<1> SUFFICES ASSUME Init PROVE Learned
  OBVIOUS
<1>1. \A r \in recs : r.stale
  BY DEF Init
<1>2. \A th \in Threads : Sound(req[th])
  BY FreeSound DEF Init
<1>3. \A t \in Tabs : Follows(tab[t])
  BY DEF Init, Page, Follows
<1>4. vault.salts # Backup
  BY Distinct DEF Init, Unset
<1> QED
  BY <1>1, <1>2, <1>3, <1>4 DEF Learned, Decided

LEMMA NextLearned ==
    ASSUME TypeOK, Learned, [Next]_vars PROVE Learned'
<1>1. /\ req \in [Threads -> Requests] /\ tab \in [Tabs -> Pages] /\ vault \in Keys
      /\ \A th \in Threads : Sound(req[th])
      /\ \A t \in Tabs : Follows(tab[t])
      /\ \A r \in recs : ~r.stale => OfTheVault(r.keys)
      /\ Decided
  BY DEF TypeOK, Learned
<1>2. ASSUME NEW th \in Threads, GetSalts(th) PROVE Learned'
  <2> DEFINE st == IF vault.salts = NoSalts THEN "missing" ELSE "ok"
             next == [req[th] EXCEPT !.st = st, !.keys = vault,
                                     !.stale = @ /\ req[th].job = "restored"]
  <2>1. req[th] \in Requests /\ Sound(req[th]) /\ req[th].op = "get"
    BY <1>1, <1>2 DEF GetSalts, At
  <2>2. /\ next.op = "get" /\ next.job = req[th].job /\ next.st = st /\ next.keys = vault
        /\ next.stale = (req[th].stale /\ req[th].job = "restored")
    BY <2>1 DEF Requests
  <2>3. Sound(next)
    <3> HIDE DEF next
    <3> QED
      BY <2>1, <2>2 DEF Sound, OfTheVault
  <2>4. \A o \in Threads : req'[o] = IF o = th THEN next ELSE req[o]
    BY <1>1, <1>2 DEF GetSalts
  <2>5. UNCHANGED <<vault, recs, tab>>
    BY <1>2 DEF GetSalts
  <2>6. \A o \in Threads : Sound(req'[o]) /\ (req'[o].st = "checked" => req[o].st = "checked")
    <3> HIDE DEF next
    <3> QED
      BY <1>1, <2>2, <2>3, <2>4
  <2>7. Decided'
    BY <1>1, <2>5, <2>6 DEF Decided, Pending
  <2> QED
    BY <1>1, <2>5, <2>6, <2>7, SameVault
<1>3. ASSUME NEW th \in Threads, GenerateCheck(th) PROVE Learned'
  <2> DEFINE st == IF vault.salts = NoSalts /\ recs = {} THEN "checked" ELSE "no"
  <2>1. Answer(th, st) /\ req[th].op = "generate" /\ UNCHANGED <<vault, recs, tab>>
    BY <1>3 DEF GenerateCheck, At
  <2>2. Sound([req[th] EXCEPT !.st = st])
    BY <1>1, <2>1 DEF Sound, Requests
  <2>3. st = "checked" => \A r \in recs : r.stale
    OBVIOUS
  <2> HIDE DEF st
  <2> QED
    BY <1>1, <2>1, <2>2, <2>3, AnswerLearned DEF Decided
<1>4. ASSUME NEW th \in Threads, MigrateCheck(th) PROVE Learned'
  <2> DEFINE st == IF MayMigrate(req[th].op = "force") THEN "checked" ELSE "no"
  <2>1. Answer(th, st) /\ req[th].op \in {"migrate", "force"} /\ UNCHANGED <<vault, recs, tab>>
    BY <1>4 DEF MigrateCheck
  <2>2. Sound([req[th] EXCEPT !.st = st])
    BY <1>1, <2>1 DEF Sound, Requests
  <2>3. st = "checked" => \A r \in recs : r.stale
    BY <1>1 DEF MayMigrate, OfTheVault
  <2> HIDE DEF st
  <2> QED
    BY <1>1, <2>1, <2>2, <2>3, AnswerLearned DEF Decided
<1>5. ASSUME NEW th \in Threads, GenerateStore(th) PROVE Learned'
  <2>1. gens + 1 \in 1..MaxGen
    BY <1>5, KdfSaltsAssumption DEF GenerateStore, TypeOK
  <2> DEFINE keys == [salts |-> gens + 1, ver |-> 3]
  <2>2. keys \in Keys /\ keys.salts \notin {NoSalts, Backup}
    BY <2>1, Distinct DEF Keys, Salts, KdfVersions
  <2>3. StoreSalts(th, keys) /\ UNCHANGED recs /\ req[th].st = "checked" /\ req[th].op = "generate"
    BY <1>5 DEF GenerateStore, At
  <2> HIDE DEF keys
  <2> QED
    BY <2>2, <2>3, StoreLearned
<1>6. ASSUME NEW th \in Threads, MigrateStore(th) PROVE Learned'
  <2>1. BackupKeys \in Keys /\ BackupKeys.salts # NoSalts
    BY KeysTypes, Distinct DEF BackupKeys
  <2> QED
    BY <1>6, <2>1, StoreLearned DEF MigrateStore
<1>7. ASSUME NEW th \in Threads, Put(th) PROVE Learned'
  <2> DEFINE record == [keys |-> req[th].keys, stale |-> req[th].stale \/ Pending]
  <2>1. Answer(th, "ok") /\ req[th].op = "put" /\ recs' = recs \cup {record} /\ UNCHANGED <<vault, tab>>
    BY <1>7 DEF Put, At
  <2>2. Sound([req[th] EXCEPT !.st = "ok"])
    BY <1>1, <2>1 DEF Sound, Requests
  <2>3. ~record.stale => OfTheVault(record.keys)
    BY <1>1, <2>1 DEF Sound
  <2>4. Pending => record.stale
    OBVIOUS
  <2> HIDE DEF record
  <2> QED
    BY <1>1, <2>1, <2>2, <2>3, <2>4, AnswerLearned DEF Decided
<1>8. ASSUME NEW th \in Threads, Reset(th) PROVE Learned'
  <2>1. Sound([req[th] EXCEPT !.st = "ok"])
    BY <1>1, <1>8 DEF Reset, At, Sound, Requests
  <2> QED
    BY <1>8, <2>1, AnswerLearned DEF Reset
<1>9. ASSUME NEW th \in Threads, List(th) PROVE Learned'
  <2>1. PICK st \in {"ok", "no"} : Answer(th, st)
    BY <1>9 DEF List
  <2>2. Sound([req[th] EXCEPT !.st = st])
    BY <1>1, <1>9 DEF List, At, Sound, Requests
  <2> QED
    BY <1>1, <1>9, <2>1, <2>2, AnswerLearned DEF List, Decided
<1>10. ASSUME NEW th \in Threads, Fail(th) PROVE Learned'
  <2>1. Sound([req[th] EXCEPT !.st = "error"])
    BY <1>1 DEF Sound, Requests
  <2> QED
    BY <1>1, <1>10, <2>1, AnswerLearned DEF Fail, Decided
<1>11. ASSUME NEW th \in Threads, KeysFromServer(th) PROVE Learned'
  <2> DEFINE r == req[th]
             page == Learn(tab[r.tab], r, Version(r))
             next == AfterKeys(r.tab, r, page.keys)
  <2>1. Reply(th, page, next) /\ Deriving(r) /\ r.st = "ok" /\ r \in Requests /\ Sound(r)
    BY <1>1, <1>11 DEF KeysFromServer
  <2>2. Follows(page)
    BY <2>1, LearnFollows
  <2>3. Sound(next) /\ next.st # "checked"
    BY <2>1, AfterKeysSound
  <2> HIDE DEF page, next
  <2> QED
    BY <2>1, <2>2, <2>3, ReplyLearned
<1>12. ASSUME NEW th \in Threads, FallBack(th) PROVE Learned'
  <2> DEFINE r == req[th]
             page == UseLocal(tab[r.tab], Version(r))
  <2>1. Sound(r) /\ r.tab \in Tabs /\ tab[r.tab] \in Pages /\ Follows(tab[r.tab])
    BY <1>1, <1>12, KdfSaltsAssumption DEF FallBack
  <2>2. Follows(page)
    BY <2>1 DEF UseLocal, Follows, Pages
  <2>3. Sound(AfterKeys(r.tab, r, page.keys)) /\ AfterKeys(r.tab, r, page.keys).st # "checked"
    BY <2>1, AfterKeysSound
  <2>4. LET next == Call(r.tab, "get", "derive", Unset, TRUE) IN Sound(next) /\ next.st # "checked"
    BY CallSound
  <2>5. \/ Reply(th, tab[r.tab], Call(r.tab, "get", "derive", Unset, TRUE))
        \/ Reply(th, page, AfterKeys(r.tab, r, page.keys))
    BY <1>12 DEF FallBack
  <2> HIDE DEF page
  <2> QED
    BY <2>1, <2>2, <2>3, <2>4, <2>5, ReplyLearned
<1>13. ASSUME NEW t \in Tabs
       PROVE  Follows([tab[t] EXCEPT !.keys = Unset]) /\ Follows([tab[t] EXCEPT !.cache = Unset])
  BY <1>1 DEF Follows, Pages
<1>14. ASSUME NEW th \in Threads, NoKeys(th) \/ Loaded(th) \/ Written(th) PROVE Learned'
  <2>1. \/ Reply(th, tab[req[th].tab], Free)
        \/ Reply(th, [tab[req[th].tab] EXCEPT !.keys = Unset], Free)
    BY <1>14 DEF NoKeys, Loaded, Written
  <2> QED
    BY <1>1, <1>13, <2>1, FreeSound, ReplyLearned
<1>15. ASSUME NEW th \in Threads, GenerateFirst(th) PROVE Learned'
  <2> DEFINE r == req[th]
             next == Call(r.tab, "generate", r.job, Unset, r.stale)
  <2>1. r.job \notin {"restored", "compare"} /\ Reply(th, tab[r.tab], next)
    BY <1>1, <1>15 DEF GenerateFirst, Deriving, Sound
  <2>2. Sound(next) /\ next.st # "checked"
    BY <2>1, CallSound
  <2> HIDE DEF next
  <2> QED
    BY <1>1, <2>1, <2>2, ReplyLearned
<1>16. ASSUME NEW th \in Threads, Compared(th) PROVE Learned'
  <2> DEFINE r == req[th]
  <2>1. Sound(r) /\ r \in Requests
    BY <1>1
  <2>2. ASSUME r.st = "ok", r.job = "compare", r.keys.salts = Backup, ~r.stale PROVE OfTheVault(BackupKeys)
    BY <2>1, <2>2, Distinct DEF Sound, OfTheVault, Learned
  <2>3. ASSUME NEW next, Reply(th, tab[r.tab], next), Sound(next), next.st # "checked" PROVE Learned'
    BY <1>1, <2>3, ReplyLearned
  <2>4. CASE r.st = "missing"
    <3>1. Reply(th, tab[r.tab], Call(r.tab, "migrate", "restore", BackupKeys, FALSE))
      BY <1>16, <2>4 DEF Compared
    <3> QED
      BY <2>3, <3>1, CallSound
  <2>5. CASE r.st = "error"
    BY <1>16, <2>3, <2>5, FreeSound DEF Compared
  <2>6. CASE r.st = "ok" /\ r.keys.salts = Backup
    <3>1. Reply(th, tab[r.tab], Call(r.tab, "put", "restore", BackupKeys, r.stale))
      BY <1>16, <2>6 DEF Compared
    <3>2. ~r.stale => OfTheVault(BackupKeys)
      BY <1>16, <2>2, <2>6 DEF Compared
    <3> QED
      BY <2>3, <3>1, <3>2, CallSound
  <2>7. CASE r.st = "ok" /\ r.keys.salts # Backup
    <3>1. Reply(th, tab[r.tab], Call(r.tab, "force", "restore", BackupKeys, FALSE))
      BY <1>16, <2>7 DEF Compared
    <3> QED
      BY <2>3, <3>1, CallSound
  <2> QED
    BY <1>16, <2>4, <2>5, <2>6, <2>7 DEF Compared
<1>17. ASSUME NEW th \in Threads, Migrated(th) PROVE Learned'
  <2> DEFINE r == req[th]
             next == Call(r.tab, "get", "restored", Unset, r.stale)
  <2>1. CASE r.st = "ok"
    <3>1. vault.salts # NoSalts /\ (~r.stale => vault = BackupKeys)
      BY <1>1, <1>17, <2>1 DEF Migrated, Sound
    <3>2. Sound(next) /\ next.st # "checked"
      BY <3>1, CallSound
    <3>3. Reply(th, [tab[r.tab] EXCEPT !.cache = Unset], next)
      BY <1>17, <2>1 DEF Migrated
    <3> HIDE DEF next
    <3> QED
      BY <1>13, <3>2, <3>3, ReplyLearned
  <2>2. CASE r.st # "ok"
    BY <1>1, <1>17, <2>2, FreeSound, ReplyLearned DEF Migrated
  <2> QED
    BY <2>1, <2>2
<1>18. ASSUME NEW th \in Threads, NEW next, Sound(next), next.st # "checked",
              req' = [req EXCEPT ![th] = next], UNCHANGED <<vault, recs>>, \A t \in Tabs : Follows(tab'[t])
       PROVE  Learned'
  <2>1. \A o \in Threads : req'[o] = IF o = th THEN next ELSE req[o]
    BY <1>1, <1>18
  <2>2. Decided' /\ \A o \in Threads : Sound(req'[o])
    BY <1>1, <1>18, <2>1 DEF Decided, Pending
  <2> QED
    BY <1>1, <1>18, <2>2, SameVault
<1>19. ASSUME NEW t \in Tabs, NEW th \in Threads, StartUnlock(t, th) PROVE Learned'
  <2>1. CASE tab[t].cache = Unset
    <3> DEFINE next == Call(t, "get", "unlock", Unset, FALSE)
    <3>1. Sound(next) /\ next.st # "checked"
      BY CallSound
    <3>2. req' = [req EXCEPT ![th] = next] /\ UNCHANGED <<vault, recs, tab>>
      BY <1>19, <2>1 DEF StartUnlock
    <3> HIDE DEF next
    <3> QED
      BY <1>1, <1>18, <3>1, <3>2
  <2>2. CASE tab[t].cache # Unset
    <3> DEFINE next == Call(t, "list", "load", tab[t].cache, FALSE)
               page == [tab[t] EXCEPT !.keys = tab[t].cache,
                                      !.stale = StaleIf(tab[t], "keys", "cache" \in tab[t].stale)]
    <3>1. Sound(next) /\ next.st # "checked"
      BY CallSound
    <3>2. req' = [req EXCEPT ![th] = next] /\ UNCHANGED <<vault, recs>> /\ tab' = [tab EXCEPT ![t] = page]
      BY <1>1, <1>19, <2>2 DEF StartUnlock
    <3>3. Follows(page)
      <4>1. tab[t] \in Pages /\ Follows(tab[t])
        BY <1>1
      <4>2. /\ page.keys = tab[t].cache /\ page.cache = tab[t].cache
            /\ page.stale = StaleIf(tab[t], "keys", "cache" \in tab[t].stale)
        BY <4>1 DEF Pages
      <4>3. /\ "keys" \notin page.stale => "cache" \notin tab[t].stale
            /\ "cache" \notin page.stale => "cache" \notin tab[t].stale
        BY <4>2 DEF StaleIf
      <4> HIDE DEF page
      <4> QED
        BY <4>1, <4>2, <4>3 DEF Follows
    <3>4. \A o \in Tabs : Follows(tab'[o])
      <4> HIDE DEF page
      <4> QED
        BY <1>1, <3>2, <3>3
    <3> HIDE DEF next, page
    <3> QED
      BY <1>18, <3>1, <3>2, <3>4
  <2> QED
    BY <2>1, <2>2
<1>20. ASSUME NEW t \in Tabs, NEW th \in Threads, Start(t, th) PROVE Learned'
  <2>1. ASSUME NEW next, req' = [req EXCEPT ![th] = next], Sound(next), next.st # "checked"
        PROVE  Learned'
    BY <1>1, <1>18, <1>20, <2>1 DEF Start
  <2>2. CASE req' = [req EXCEPT ![th] = Call(t, "get", "compare", Unset, FALSE)]
    BY <2>1, <2>2, CallSound
  <2>3. CASE req' = [req EXCEPT ![th] = Call(t, "reset", "write", Unset, FALSE)]
    BY <2>1, <2>3, CallSound
  <2>4. CASE /\ tab[t].keys # Unset
             /\ req' = [req EXCEPT ![th] = Call(t, "put", "write", tab[t].keys, "keys" \in tab[t].stale)]
    <3> DEFINE stale == "keys" \in tab[t].stale
    <3>1. ~stale => OfTheVault(tab[t].keys)
      BY <1>1, <2>4 DEF Follows
    <3>2. req' = [req EXCEPT ![th] = Call(t, "put", "write", tab[t].keys, stale)]
      BY <2>4
    <3> HIDE DEF stale
    <3> QED
      BY <2>1, <3>1, <3>2, CallSound
  <2> QED
    BY <1>20, <2>2, <2>3, <2>4 DEF Start
<1>21. ASSUME NEW t \in Tabs, Lock(t) PROVE Learned'
  <2>1. UNCHANGED <<vault, recs, req>>
    BY <1>21 DEF Lock
  <2>2. tab' = [tab EXCEPT ![t] = [tab[t] EXCEPT !.keys = Unset]] \/ tab' = [tab EXCEPT ![t] = Page]
    BY <1>1, <1>21 DEF Lock
  <2>3. Follows(Page)
    BY DEF Follows, Page
  <2>4. \A o \in Tabs : Follows(tab'[o])
    BY <1>1, <1>13, <2>2, <2>3
  <2> QED
    BY <1>1, <2>1, <2>4, SameVault DEF Decided, Pending
<1>22. CASE UNCHANGED vars
  BY <1>1, <1>22, SameVault DEF vars, Decided, Pending
<1> QED
  BY <1>2, <1>3, <1>4, <1>5, <1>6, <1>7, <1>8, <1>9, <1>10, <1>11, <1>12, <1>14, <1>15, <1>16,
     <1>17, <1>19, <1>20, <1>21, <1>22 DEF Next, Step
-----------------------------------------------------------------------------
\* In every reachable state the salts, versions, records and pages are of their types.
THEOREM TypeCorrect == Spec => []TypeOK
BY InitTyped, NextTyped, PTL DEF Spec

\* Whatever a page or a request has learned of the vault's salts, and is not stale by a later
\* write of them, is what vault_identity holds; and no write of salts is decided on that would
\* leave behind a record someone can still open.
THEOREM Invariant == Spec => []IInv
<1>1. Init => IInv
  BY InitTyped, InitLearned DEF IInv
<1>2. IInv /\ [Next]_vars => IInv'
  BY NextTyped, NextLearned DEF IInv
<1> QED
  BY <1>1, <1>2, PTL DEF Spec

\* First unlocks, restores, failures and retries in any order: a record sealed by a page that
\* knew the vault's salts, none being written meanwhile, opens under the vault's salts and version.
THEOREM RecordsStayReadable == Spec => []ReadableUnlessOverwritten
<1>1. IInv => ReadableUnlessOverwritten
  BY DEF IInv, Learned, ReadableUnlessOverwritten, OfTheVault
<1> QED
  BY <1>1, Invariant, PTL

\* getSalts and deriveKeys take salts and version from one vault, on every path they have.
THEOREM KeysAreTheVaults == Spec => []KeysFollowVault
<1>1. IInv => KeysFollowVault
  BY DEF IInv, Learned, Follows, KeysFollowVault, OfTheVault
<1> QED
  BY <1>1, Invariant, PTL
=============================================================================
