-------------------------- MODULE VaultRekey_proofs --------------------------
(***************************************************************************)
(* Theorems about VaultRekey, for every number of documents, pages,        *)
(* browsers and threads, and for every bound.                              *)
(***************************************************************************)
EXTENDS VaultRekey, TLAPS, FiniteSetTheorems

(* Which numbers a request or a page can hold: enough for every number the vault adopts
   to be that of a rekey that has begun. *)
Numbered(r) ==
    /\ r.op = "begin" /\ r.st = "ok" => r.id # 0
    /\ r.st = "ready" => r.id # 0

Numbers ==
    /\ rekey.open => rekey.id # 0
    /\ \A th \in Threads : Numbered(req[th])
    /\ \A t \in Tabs : tab[t].at = "fetch" => tab[t].id # 0

Typed == TypeOK /\ Numbers
-----------------------------------------------------------------------------
LEMMA PageType ==
    ASSUME NEW sid \in 0..MaxSid PROVE Page(sid) \in Pages
BY ModelAssumption DEF Page, Pages, Steps

LEMMA ContinueType ==
    ASSUME NEW page \in Pages, NEW op \in Ops, NEW good \in BOOLEAN, NEW rows,
           NEW id \in 0..MaxGen
    PROVE  Continue(page, op, good, rows, id) \in Pages
<1>1. 0 \in 0..MaxGen /\ page.csrf \in 0..MaxSid /\ page.todo \in SUBSET Rows
  BY ModelAssumption DEF Pages
<1>2. CASE op = "begin"
  <2>1. [page EXCEPT !.at = "fetch", !.id = id] \in Pages
    BY DEF Pages, Steps
  <2>2. [page EXCEPT !.at = "idle", !.seed = 0] \in Pages
    BY <1>1 DEF Pages, Steps
  <2> QED
    BY <1>2, <2>1, <2>2 DEF Continue
<1>3. CASE op = "stage"
  <2>1. [page EXCEPT !.todo = {}, !.at = "abort"] \in Pages
    BY DEF Pages, Steps
  <2>2. ASSUME NEW at \in Steps
        PROVE  [page EXCEPT !.todo = @ \ rows, !.at = at] \in Pages
    BY <1>1 DEF Pages
  <2> QED
    BY <1>3, <2>1, <2>2 DEF Continue, Steps
<1>4. CASE op = "commit"
  <2>1. Page(page.csrf) \in Pages
    BY <1>1, PageType
  <2> QED
    BY <1>4, <2>1 DEF Continue, Pages, Steps
<1>5. CASE op \notin {"begin", "stage", "commit"}
  BY <1>5 DEF Continue, Pages, Steps
<1> QED
  BY <1>2, <1>3, <1>4, <1>5

\* A recovery goes on to fetch only with the number that its begin answered.
LEMMA ContinueFetch ==
    ASSUME NEW page \in Pages, NEW op \in Ops, NEW good \in BOOLEAN, NEW rows,
           NEW id \in 0..MaxGen,
           op = "begin" /\ good => id # 0, page.at = "fetch" => page.id # 0
    PROVE  Continue(page, op, good, rows, id).at = "fetch"
             => Continue(page, op, good, rows, id).id # 0
<1>1. CASE op = "begin"
  BY <1>1 DEF Continue, Pages
<1>2. CASE op = "stage"
  BY <1>2 DEF Continue, Pages
<1>3. CASE op = "commit"
  BY <1>3 DEF Continue, Pages, Page
<1>4. CASE op \notin {"begin", "stage", "commit"}
  BY <1>4 DEF Continue, Pages
<1> QED
  BY <1>1, <1>2, <1>3, <1>4

LEMMA UpsertType ==
    ASSUME NEW vault \in Vaults, NEW rows \in SUBSET Rows
    PROVE  Upsert(vault, rows) \in Vaults
<1> SUFFICES ASSUME NEW b \in Blinds, \E r \in rows : r.new = b
             PROVE  (CHOOSE r \in rows : r.new = b).val \in Vals
  BY DEF Upsert, Vaults
<1> QED
  BY DEF Rows

LEMMA EmptyType == Empty \in Vaults
BY DEF Empty, Vaults

LEMMA ReencryptType ==
    ASSUME NEW vault \in Vaults, NEW k \in Gens
    PROVE  Reencrypt(vault, k) \in SUBSET Rows
BY DEF Reencrypt, Rows, Stored, Vaults, Blinds

LEMMA SealedType ==
    ASSUME NEW g \in Gens, NEW D \in SUBSET Docs, NEW v \in [D -> Vals]
    PROVE  Sealed(g, D, v) \in SUBSET Rows
BY DEF Sealed, Rows, Blinds

(* What ending a step of a request changes: where it stands, and nothing else. *)
LEMMA FinishKeeps ==
    ASSUME TypeOK, NEW th \in Threads, NEW st \in Stages, Finish(th, st)
    PROVE  /\ req' \in [Threads -> Requests]
           /\ \A o \in Threads \ {th} : req'[o] = req[o]
           /\ req'[th] = [req[th] EXCEPT !.st = st]
           /\ req'[th].st = st /\ req'[th].op = req[th].op /\ req'[th].tab = req[th].tab
           /\ req'[th].sid = req[th].sid /\ req'[th].id = req[th].id
           /\ req'[th].rows = req[th].rows
<1>1. req \in [Threads -> Requests] /\ req[th] \in Requests
  BY DEF TypeOK
<1>2. [req[th] EXCEPT !.st = st] \in Requests
  BY <1>1 DEF Requests
<1>3. req' = [req EXCEPT ![th] = [req[th] EXCEPT !.st = st]]
  BY DEF Finish
<1> QED
  BY <1>1, <1>2, <1>3 DEF Requests

LEMMA TypedInit == Init => Typed
<1> SUFFICES ASSUME Init PROVE Typed
  OBVIOUS
<1>1. Cardinality(Browsers) \in 0..MaxSid
  BY ModelAssumption, FS_CardinalityType
<1>2. live \in Vaults /\ salts \in Gens /\ blob \in 0..MaxGen
  BY ModelAssumption DEF Init, Gens
<1>3. rekey \in Rekeys /\ staged \subseteq Rows /\ revoked \subseteq 0..MaxSid
      /\ survivors \subseteq 0..MaxSid
  BY ModelAssumption, EmptyType DEF Init, Rekeys, NoRekey
<1>4. drawn \in [gens : Gens, sids : 0..MaxSid]
  BY <1>1, ModelAssumption DEF Init, Gens
<1>5. cookie \in [Browsers -> 0..MaxSid]
  BY <1>1, ModelAssumption DEF Init
<1>6. tab \in [Tabs -> Pages] /\ \A t \in Tabs : tab[t].at = "idle"
  <2>1. \A t \in Tabs : cookie[BrowserOf[t]] \in 0..MaxSid
    BY <1>5, ModelAssumption
  <2> QED
    BY <2>1, PageType DEF Init, Page
<1>7. req \in [Threads -> Requests] /\ \A th \in Threads : req[th].st = "free"
  <2>1. Free \in Requests
    BY ModelAssumption DEF Free, Requests, Stages, Ops
  <2> QED
    BY <2>1 DEF Init, Free
<1> QED
  BY <1>2, <1>3, <1>4, <1>5, <1>6, <1>7 DEF Typed, TypeOK, Numbers, Numbered, Init, NoRekey

LEMMA FinishNumbered ==
    ASSUME TypeOK, Numbers, NEW th \in Threads, NEW st \in Stages, Finish(th, st),
           st = "ok" => req[th].op # "begin", st = "ready" => req[th].id # 0
    PROVE  req' \in [Threads -> Requests] /\ \A o \in Threads : Numbered(req'[o])
<1>1. ASSUME NEW o \in Threads PROVE Numbered(req'[o])
  <2>1. Numbered(req[o])
    BY DEF Numbers
  <2>2. CASE o = th
    BY <2>1, <2>2, FinishKeeps DEF Numbered
  <2>3. CASE o # th
    BY <2>1, <2>3, FinishKeeps
  <2> QED
    BY <2>2, <2>3
<1> QED
  BY <1>1, FinishKeeps

LEMMA AnsweredPage ==
    ASSUME TypeOK, Numbers, NEW th \in Threads, req[th].tab \in Tabs,
           NEW good \in BOOLEAN, good => req[th].st = "ok", NEW page,
           page = Continue(tab[req[th].tab], req[th].op, good, req[th].rows, req[th].id)
    PROVE  page \in Pages /\ (page.at = "fetch" => page.id # 0)
<1>1. /\ tab[req[th].tab] \in Pages /\ req[th].op \in Ops
      /\ req[th].id \in 0..MaxGen
  BY DEF TypeOK, Requests
<1>2. page \in Pages
  BY <1>1, ContinueType
<1>3. /\ req[th].op = "begin" /\ good => req[th].id # 0
      /\ tab[req[th].tab].at = "fetch" => tab[req[th].tab].id # 0
  BY DEF Numbers, Numbered
<1> QED
  BY <1>1, <1>2, <1>3, ContinueFetch

LEMMA PageSet ==
    ASSUME TypeOK, Numbers, NEW t \in Tabs, NEW page \in Pages,
           page.at = "fetch" => page.id # 0, tab' = [tab EXCEPT ![t] = page]
    PROVE  /\ tab' \in [Tabs -> Pages]
           /\ \A o \in Tabs : tab'[o].at = "fetch" => tab'[o].id # 0
BY DEF TypeOK, Numbers

LEMMA SendTyped ==
    ASSUME TypeOK, Numbers, NEW t \in Tabs, NEW op \in Ops, NEW rows \in SUBSET Rows,
           NEW id \in 0..MaxGen, Send(t, op, rows, id)
    PROVE  req' \in [Threads -> Requests] /\ \A o \in Threads : Numbered(req'[o])
<1> DEFINE r == [st |-> "sent", op |-> op, tab |-> t, sid |-> Jar(t), id |-> id, rows |-> rows]
<1>1. Jar(t) \in 0..MaxSid
  BY ModelAssumption DEF Jar, TypeOK
<1>2. r \in Requests /\ Numbered(r)
  BY <1>1 DEF Requests, Stages, Numbered
<1>3. PICK th \in Threads : req' = [req EXCEPT ![th] = r]
  BY DEF Send
<1> QED
  BY <1>2, <1>3 DEF TypeOK, Numbers

LEMMA TypedNext == Typed /\ [Next]_vars => Typed'
<1> SUFFICES ASSUME TypeOK, Numbers, [Next]_vars PROVE TypeOK' /\ Numbers'
  BY DEF Typed
<1> USE ModelAssumption DEF DatabaseRows, Elsewhere
<1>1. ASSUME NEW th \in Threads, VaultWriteGuard(th) PROVE TypeOK' /\ Numbers'
  <2>1. PICK st \in Stages : Finish(th, st) /\ st \notin {"ok", "ready"}
    BY <1>1 DEF VaultWriteGuard, Verdict, Stages
  <2> QED
    BY <1>1, <2>1, FinishNumbered DEF VaultWriteGuard, TypeOK, Numbers
<1>2. ASSUME NEW th \in Threads, PutCount(th) PROVE TypeOK' /\ Numbers'
  <2>1. PICK st \in Stages : Finish(th, st) /\ st \notin {"ok", "ready"}
    BY <1>2 DEF PutCount, Verdict, Stages
  <2> QED
    BY <1>2, <2>1, FinishNumbered DEF PutCount, TypeOK, Numbers
<1>3. ASSUME NEW th \in Threads, PutStore(th) PROVE TypeOK' /\ Numbers'
  <2>1. Finish(th, "ok") /\ "ok" \in Stages /\ req[th].op # "begin"
    BY <1>3 DEF PutStore, At, Stages
  <2>2. live' \in Vaults
    BY <1>3, UpsertType DEF PutStore, TypeOK, Requests
  <2> QED
    BY <1>3, <2>1, <2>2, FinishNumbered DEF PutStore, TypeOK, Numbers
<1>4. ASSUME NEW th \in Threads, ResetDelete(th) PROVE TypeOK' /\ Numbers'
  <2>1. Finish(th, "ok") /\ "ok" \in Stages /\ req[th].op # "begin"
    BY <1>4 DEF ResetDelete, At, Stages
  <2> QED
    BY <1>4, <2>1, EmptyType, FinishNumbered DEF ResetDelete, TypeOK, Numbers
<1>5. ASSUME NEW th \in Threads, RekeyBegin(th) PROVE TypeOK' /\ Numbers'
  <2>1. PICK k \in Gens : k = drawn.gens + 1 /\ k \in 0..MaxGen
    BY <1>5 DEF RekeyBegin, TypeOK, Gens
  <2>2. drawn' \in [gens : Gens, sids : 0..MaxSid]
    BY <1>5, <2>1 DEF RekeyBegin, TypeOK
  <2>3. rekey' \in Rekeys /\ rekey'.id # 0 /\ staged' = {}
    BY <1>5, <2>1 DEF RekeyBegin, TypeOK, Rekeys, Gens
  <2>4. req' \in [Threads -> Requests] /\ \A o \in Threads : Numbered(req'[o])
    <3> DEFINE r == [req[th] EXCEPT !.st = "ok", !.id = k]
    <3>1. req[th] \in Requests /\ req' = [req EXCEPT ![th] = r]
      BY <1>5, <2>1 DEF RekeyBegin, TypeOK
    <3>2. r \in Requests
      BY <2>1, <3>1 DEF Requests, Stages
    <3>3. r.st = "ok" /\ r.id # 0
      BY <3>1 DEF Requests, Gens
    <3> QED
      BY <3>1, <3>2, <3>3 DEF TypeOK, Numbers, Numbered
  <2> QED
    BY <1>5, <2>2, <2>3, <2>4 DEF RekeyBegin, TypeOK, Numbers
<1>6. ASSUME NEW th \in Threads, RekeyBeginLimited(th) PROVE TypeOK' /\ Numbers'
  <2>1. Finish(th, "no") /\ "no" \in Stages
    BY <1>6 DEF RekeyBeginLimited, Stages
  <2> QED
    BY <1>6, <2>1, FinishNumbered DEF RekeyBeginLimited, TypeOK, Numbers
<1>7. CASE Expire
  <2>1. rekey' \in Rekeys /\ ~rekey'.open
    BY <1>7 DEF Expire, TypeOK, Rekeys
  <2> QED
    BY <1>7, <2>1 DEF Expire, TypeOK, Numbers
<1>8. ASSUME NEW th \in Threads, StageCheck(th) PROVE TypeOK' /\ Numbers'
  <2>1. PICK st \in Stages : Finish(th, st) /\ st \notin {"ok", "ready"}
    BY <1>8 DEF StageCheck, Verdict, Stages
  <2> QED
    BY <1>8, <2>1, FinishNumbered DEF StageCheck, TypeOK, Numbers
<1>9. ASSUME NEW th \in Threads, StageInsert(th) PROVE TypeOK' /\ Numbers'
  <2>1. PICK st \in Stages : Finish(th, st) /\ st # "ready" /\ req[th].op # "begin"
    BY <1>9 DEF StageInsert, Verdict, Stages, At
  <2>2. staged' \subseteq Rows
    BY <1>9 DEF StageInsert, TypeOK, Requests
  <2> QED
    BY <1>9, <2>1, <2>2, FinishNumbered DEF StageInsert, TypeOK, Numbers
<1>10. ASSUME NEW th \in Threads, CommitCheck(th) PROVE TypeOK' /\ Numbers'
  <2>1. PICK st \in Stages : /\ Finish(th, st) /\ st # "ok"
                             /\ st = "ready" => req[th].id # 0
    BY <1>10 DEF CommitCheck, Verdict, Stages, Active, Numbers
  <2>2. NoRekey \in Rekeys
    BY EmptyType DEF NoRekey, Rekeys
  <2> QED
    BY <1>10, <2>1, <2>2, FinishNumbered DEF CommitCheck, TypeOK, Numbers, NoRekey
<1>11. ASSUME NEW th \in Threads, CommitApply(th) PROVE TypeOK' /\ Numbers'
  <2>1. Finish(th, "ok") /\ "ok" \in Stages /\ req[th].op # "begin"
    BY <1>11 DEF CommitApply, At, Stages
  <2>2. live' \in Vaults
    BY <1>11, EmptyType, UpsertType DEF CommitApply, TypeOK
  <2>3. req[th].id \in Gens
    BY <1>11 DEF CommitApply, At, Numbers, Numbered, TypeOK, Requests, Gens
  <2>4. NoRekey \in Rekeys
    BY EmptyType DEF NoRekey, Rekeys
  <2>5. Others(th) \subseteq 0..MaxSid /\ {req[th].sid} \subseteq 0..MaxSid
    BY DEF Others, TypeOK, Requests
  <2>6. revoked' \subseteq 0..MaxSid /\ survivors' \subseteq 0..MaxSid
    BY <1>11, <2>5 DEF CommitApply, TypeOK
  <2>7. salts' \in Gens /\ blob' \in 0..MaxGen /\ rekey' \in Rekeys /\ ~rekey'.open
    BY <1>11, <2>3, <2>4 DEF CommitApply, Gens, NoRekey
  <2> QED
    BY <1>11, <2>1, <2>2, <2>6, <2>7, FinishNumbered DEF CommitApply, TypeOK, Numbers
<1>12. ASSUME NEW th \in Threads, RekeyAbort(th) PROVE TypeOK' /\ Numbers'
  <2>1. Finish(th, "ok") /\ "ok" \in Stages /\ req[th].op # "begin"
    BY <1>12 DEF RekeyAbort, At, Stages
  <2>2. NoRekey \in Rekeys
    BY EmptyType DEF NoRekey, Rekeys
  <2> QED
    BY <1>12, <2>1, <2>2, FinishNumbered DEF RekeyAbort, TypeOK, Numbers, NoRekey
<1>13. ASSUME NEW th \in Threads, SetupCheck(th) PROVE TypeOK' /\ Numbers'
  <2>1. PICK st \in Stages : Finish(th, st) /\ st \notin {"ok", "ready"}
    BY <1>13 DEF SetupCheck, Verdict, Stages
  <2> QED
    BY <1>13, <2>1, FinishNumbered DEF SetupCheck, TypeOK, Numbers
<1>14. ASSUME NEW th \in Threads, SetupStore(th) PROVE TypeOK' /\ Numbers'
  <2>1. Finish(th, "ok") /\ "ok" \in Stages /\ req[th].op # "begin"
    BY <1>14 DEF SetupStore, At, Stages
  <2>2. req[th].id \in 0..MaxGen
    BY DEF TypeOK, Requests
  <2> QED
    BY <1>14, <2>1, <2>2, FinishNumbered DEF SetupStore, TypeOK, Numbers
<1>15. ASSUME NEW th \in Threads, RecoveryDelete(th) PROVE TypeOK' /\ Numbers'
  <2>1. Finish(th, "ok") /\ "ok" \in Stages /\ req[th].op # "begin"
    BY <1>15 DEF RecoveryDelete, At, Stages
  <2> QED
    BY <1>15, <2>1, FinishNumbered DEF RecoveryDelete, TypeOK, Numbers
<1>16. ASSUME NEW th \in Threads, Refuse(th) PROVE TypeOK' /\ Numbers'
  <2>1. Finish(th, "no") /\ "no" \in Stages
    BY <1>16 DEF Refuse, Stages
  <2> QED
    BY <1>16, <2>1, FinishNumbered DEF Refuse, TypeOK, Numbers
<1>17. ASSUME NEW th \in Threads, SaveSession(th) PROVE TypeOK' /\ Numbers'
  <2>1. Free \in Requests /\ Numbered(Free)
    BY DEF Free, Requests, Stages, Ops, Numbered
  <2>2. req' \in [Threads -> Requests] /\ \A o \in Threads : Numbered(req'[o])
    BY <1>17, <2>1 DEF SaveSession, TypeOK, Numbers
  <2>3. revoked' \subseteq 0..MaxSid /\ survivors' \subseteq 0..MaxSid
        /\ cookie' \in [Browsers -> 0..MaxSid]
    BY <1>17 DEF SaveSession, TypeOK, Requests
  <2>4. tab' \in [Tabs -> Pages] /\ \A t \in Tabs : tab'[t].at = "fetch" => tab'[t].id # 0
    <3>1. CASE req[th].tab = NoTab
      BY <1>17, <3>1 DEF SaveSession, TypeOK, Numbers
    <3>2. CASE req[th].tab # NoTab
      <4> DEFINE t == req[th].tab
                 page == Continue(tab[t], req[th].op, req[th].st = "ok", req[th].rows, req[th].id)
      <4>1. t \in Tabs /\ tab' = [tab EXCEPT ![t] = page]
        BY <1>17, <3>2 DEF SaveSession, TypeOK, Requests
      <4>2. page \in Pages
        BY <4>1, AnsweredPage
      <4>3. page.at = "fetch" => page.id # 0
        BY <4>1, AnsweredPage
      <4> QED
        BY <4>1, <4>2, <4>3 DEF TypeOK, Numbers
    <3> QED
      BY <3>1, <3>2
  <2> QED
    BY <1>17, <2>2, <2>3, <2>4 DEF SaveSession, TypeOK, Numbers
<1>18. ASSUME NEW th \in Threads, LoseAnswer(th) PROVE TypeOK' /\ Numbers'
  <2> DEFINE t == req[th].tab
             page == Continue(tab[t], req[th].op, FALSE, req[th].rows, req[th].id)
  <2>1. t \in Tabs /\ tab' = [tab EXCEPT ![t] = page]
    BY <1>18 DEF LoseAnswer, TypeOK, Requests
  <2>2. page \in Pages
    BY <2>1, AnsweredPage
  <2>3. page.at = "fetch" => page.id # 0
    BY <2>1, AnsweredPage
  <2>4. tab' \in [Tabs -> Pages] /\ \A o \in Tabs : tab'[o].at = "fetch" => tab'[o].id # 0
    BY <2>1, <2>2, <2>3 DEF TypeOK, Numbers
  <2>5. req' \in [Threads -> Requests] /\ \A o \in Threads : Numbered(req'[o])
    BY <1>18 DEF LoseAnswer, TypeOK, Requests, Numbers, Numbered
  <2> QED
    BY <1>18, <2>4, <2>5 DEF LoseAnswer, TypeOK, Numbers
<1>19. ASSUME NEW t \in Tabs, Unlock(t) PROVE TypeOK' /\ Numbers'
  <2> DEFINE g == IF tab[t].cache = 0 THEN salts ELSE tab[t].cache
  <2>4. g \in 0..MaxGen
    BY DEF TypeOK, Pages, Gens
  <2>1. tab' = [tab EXCEPT ![t] = [tab[t] EXCEPT !.cache = g, !.at = "unlock", !.id = 0]]
    BY <1>19 DEF Unlock
  <2> HIDE DEF g
  <2> DEFINE page == [tab[t] EXCEPT !.cache = g, !.at = "unlock", !.id = 0]
  <2>2. 0 \in 0..MaxGen /\ tab[t] \in Pages
    BY DEF TypeOK
  <2>3. page \in Pages /\ page.at # "fetch"
    BY <2>2, <2>4 DEF Pages, Steps
  <2> QED
    <3>1. tab' = [tab EXCEPT ![t] = page]
      BY <2>1
    <3> HIDE DEF page
    <3>2. tab' \in [Tabs -> Pages] /\ \A o \in Tabs : tab'[o].at = "fetch" => tab'[o].id # 0
      BY <2>3, <3>1, PageSet
    <3> QED
      BY <1>19, <3>2 DEF Unlock, PageOnly, DatabaseRows, TypeOK, Numbers
<1>20. ASSUME NEW t \in Tabs, Load(t) PROVE TypeOK' /\ Numbers'
  <2> DEFINE opens == MayRead(t) /\ \A b \in Stored(live) : b[1] = tab[t].cache
             g == IF opens THEN tab[t].cache ELSE 0
  <2>1. tab' = [tab EXCEPT ![t] = [tab[t] EXCEPT !.at = "idle", !.keys = g]]
    BY <1>20 DEF Load
  <2> HIDE DEF opens
  <2>2. tab[t] \in Pages /\ g \in 0..MaxGen
    BY DEF TypeOK, Pages
  <2> HIDE DEF g
  <2>3. [tab[t] EXCEPT !.at = "idle", !.keys = g] \in Pages
    BY <2>2 DEF Pages, Steps
  <2>4. [tab[t] EXCEPT !.at = "idle", !.keys = g].at = "idle"
    BY <2>2 DEF Pages
  <2> QED
    BY <1>20, <2>1, <2>3, <2>4, PageSet DEF Load, PageOnly, TypeOK, Numbers
<1>21. ASSUME NEW t \in Tabs, LockVault(t) PROVE TypeOK' /\ Numbers'
  <2> DEFINE page == [tab[t] EXCEPT !.keys = 0, !.id = 0]
  <2>1. tab[t] \in Pages /\ 0 \in 0..MaxGen /\ tab[t].at = "idle"
    BY <1>21 DEF LockVault, Idle, TypeOK
  <2>2. page \in Pages /\ page.at # "fetch"
    BY <2>1 DEF Pages
  <2>3. tab' = [tab EXCEPT ![t] = page]
    BY <1>21 DEF LockVault
  <2> QED
    BY <1>21, <2>2, <2>3, PageSet DEF LockVault, PageOnly, TypeOK, Numbers
<1>22. ASSUME NEW t \in Tabs, RecoverVault(t) PROVE TypeOK' /\ Numbers'
  <2> DEFINE page == [tab[t] EXCEPT !.seed = blob, !.at = "begin", !.id = 0]
  <2>1. tab[t] \in Pages /\ 0 \in 0..MaxGen /\ blob \in 0..MaxGen
    BY DEF TypeOK
  <2>2. page \in Pages /\ page.at # "fetch"
    BY <2>1 DEF Pages, Steps
  <2>3. tab' = [tab EXCEPT ![t] = page]
    BY <1>22 DEF RecoverVault
  <2> QED
    BY <1>22, <2>2, <2>3, PageSet DEF RecoverVault, PageOnly, TypeOK, Numbers
<1>23. ASSUME NEW t \in Tabs, FetchAllRecords(t) PROVE TypeOK' /\ Numbers'
  <2>1. tab[t] \in Pages /\ 0 \in 0..MaxGen /\ live \in Vaults /\ tab[t].id # 0
    <3>1. tab[t].at = "fetch"
      BY <1>23 DEF FetchAllRecords
    <3> QED
      BY <3>1 DEF TypeOK, Numbers
  <2>5. tab[t].id \in Gens
    BY <2>1 DEF Pages, Gens
  <2>6. Reencrypt(live, tab[t].id) \in SUBSET Rows
    BY <2>1, <2>5, ReencryptType
  <2> DEFINE opens == MayRead(t) /\ \A b \in Stored(live) : b[1] = tab[t].seed
             rows == Reencrypt(live, tab[t].id)
             todo == IF opens THEN rows ELSE {}
             at == IF ~opens THEN "abort" ELSE IF rows = {} THEN "commit" ELSE "stage"
             page == [tab[t] EXCEPT !.seed = 0, !.todo = todo, !.at = at]
  <2>2. tab' = [tab EXCEPT ![t] = page]
    BY <1>23 DEF FetchAllRecords
  <2> HIDE DEF opens
  <2>3. todo \in SUBSET Rows
    BY <2>6
  <2> HIDE DEF rows
  <2>4. at \in Steps \ {"fetch"}
    BY DEF Steps
  <2> HIDE DEF todo, at
  <2>7. page \in Pages /\ page.at # "fetch"
    BY <2>1, <2>3, <2>4 DEF Pages
  <2> QED
    <3>1. tab' = [tab EXCEPT ![t] = page]
      BY <2>2
    <3> HIDE DEF page
    <3>2. tab' \in [Tabs -> Pages] /\ \A o \in Tabs : tab'[o].at = "fetch" => tab'[o].id # 0
      BY <2>7, <3>1, PageSet
    <3> QED
      BY <1>23, <3>2 DEF FetchAllRecords, PageOnly, DatabaseRows, TypeOK, Numbers
<1>24. ASSUME NEW t \in Tabs, NextCall(t) PROVE TypeOK' /\ Numbers'
  <2> DEFINE op == IF tab[t].at = "unlock" THEN "abort" ELSE tab[t].at
  <2>1. tab[t] \in Pages /\ op \in Ops /\ tab[t].id \in 0..MaxGen
        /\ tab[t].todo \in SUBSET Rows
    BY <1>24 DEF NextCall, TypeOK, Pages, Ops
  <2>2. CASE MayPost(t)
    <3>1. PICK c \in SUBSET Rows : Send(t, op, c, tab[t].id) /\ UNCHANGED tab
      BY <1>24, <2>1, <2>2 DEF NextCall, Chunks
    <3> QED
      BY <1>24, <2>1, <3>1, SendTyped DEF NextCall, TypeOK, Numbers
  <2>3. CASE ~MayPost(t)
    <3> DEFINE page == Continue(tab[t], op, FALSE, {}, 0)
    <3>1. tab' = [tab EXCEPT ![t] = page] /\ UNCHANGED req
      BY <1>24, <2>3 DEF NextCall
    <3>3. tab[t].at # "fetch" /\ 0 \in 0..MaxGen /\ FALSE \in BOOLEAN
      BY <1>24 DEF NextCall
    <3> HIDE DEF op
    <3>2. page \in Pages
      BY <2>1, <3>3, ContinueType
    <3>4. page.at = "fetch" => page.id # 0
      BY <2>1, <3>3, ContinueFetch
    <3> QED
      BY <1>24, <3>1, <3>2, <3>4, PageSet DEF NextCall, TypeOK, Numbers
  <2> QED
    BY <2>2, <2>3
<1>25. ASSUME NEW t \in Tabs, NEW op \in Ops, NEW rows \in SUBSET Rows, NEW id \in 0..MaxGen,
              Request(t, op, rows, id)
      PROVE TypeOK' /\ Numbers'
  <2> DEFINE page == [tab[t] EXCEPT !.at = "write", !.id = 0]
  <2>1. tab[t] \in Pages /\ 0 \in 0..MaxGen
    BY DEF TypeOK
  <2>2. page \in Pages /\ page.at # "fetch"
    BY <2>1 DEF Pages, Steps
  <2>3. tab' = [tab EXCEPT ![t] = page] /\ Send(t, op, rows, id)
    BY <1>25 DEF Request
  <2> QED
    BY <1>25, <2>2, <2>3, PageSet, SendTyped DEF Request, TypeOK, Numbers
<1>26. ASSUME NEW t \in Tabs, UploadRecords(t) PROVE TypeOK' /\ Numbers'
  <2>1. PICK D \in SUBSET Docs : \E v \in [D -> Vals] :
          Request(t, "put", Sealed(tab[t].keys, D, v), 0)
    BY <1>26 DEF UploadRecords
  <2>4. PICK v \in [D -> Vals] : Request(t, "put", Sealed(tab[t].keys, D, v), 0)
    BY <2>1
  <2>2. tab[t].keys \in Gens
    BY <1>26 DEF UploadRecords, TypeOK, Pages, Gens
  <2>3. Sealed(tab[t].keys, D, v) \in SUBSET Rows
    BY <2>2, SealedType
  <2>5. 0 \in 0..MaxGen
    OBVIOUS
  <2> QED
    BY <1>25, <2>3, <2>4, <2>5 DEF Ops
<1>27. ASSUME NEW t \in Tabs, DeleteAllRecords(t) \/ DeleteRecovery(t)
      PROVE  TypeOK' /\ Numbers'
  BY <1>25, <1>27 DEF DeleteAllRecords, DeleteRecovery, Ops
<1>28. ASSUME NEW t \in Tabs, SetupRecoveryKey(t) PROVE TypeOK' /\ Numbers'
  <2>1. tab[t].keys \in 0..MaxGen
    BY DEF TypeOK, Pages
  <2> QED
    BY <1>25, <1>28, <2>1 DEF SetupRecoveryKey, Ops
<1>29. ASSUME NEW t \in Tabs, Reload(t) PROVE TypeOK' /\ Numbers'
  <2>1. Jar(t) \in 0..MaxSid
    BY DEF Jar, TypeOK
  <2> DEFINE sid == IF MayRead(t) THEN Jar(t) ELSE 0
  <2>2. tab' = [tab EXCEPT ![t] = Page(sid)] /\ sid \in 0..MaxSid
    BY <1>29, <2>1 DEF Reload
  <2> HIDE DEF sid
  <2>3. Page(sid) \in Pages /\ Page(sid).at # "fetch"
    BY <2>2, PageType DEF Page
  <2>4. req' \in [Threads -> Requests] /\ \A o \in Threads : Numbered(req'[o])
    <3>1. ASSUME NEW r \in Requests PROVE [r EXCEPT !.tab = NoTab] \in Requests
      BY DEF Requests
    <3>2. ASSUME NEW r \in Requests, Numbered(r) PROVE Numbered([r EXCEPT !.tab = NoTab])
      BY <3>2 DEF Numbered, Requests
    <3> QED
      BY <1>29, <3>1, <3>2 DEF Reload, TypeOK, Numbers
  <2> QED
    BY <1>29, <2>2, <2>3, <2>4, PageSet DEF Reload, TypeOK, Numbers
<1>30. ASSUME NEW t \in Tabs, NEW outlives, Idle(t), Rotate(t, outlives)
      PROVE  TypeOK' /\ Numbers'
  <2>1. PICK sid \in 1..MaxSid : sid = drawn.sids + 1
    BY <1>30 DEF Rotate, TypeOK
  <2>2. Jar(t) \in 0..MaxSid
    BY DEF Jar, TypeOK
  <2>3. /\ drawn' \in [gens : Gens, sids : 0..MaxSid]
        /\ revoked' \subseteq 0..MaxSid /\ survivors' \subseteq 0..MaxSid
        /\ cookie' \in [Browsers -> 0..MaxSid]
    BY <1>30, <2>1, <2>2 DEF Rotate, TypeOK
  <2> DEFINE page == [tab[t] EXCEPT !.csrf = sid, !.id = 0]
  <2>4. tab[t] \in Pages /\ 0 \in 0..MaxGen /\ sid \in 0..MaxSid
    BY DEF TypeOK
  <2>5. page \in Pages /\ page.at # "fetch"
    BY <1>30, <2>4 DEF Pages, Idle
  <2>6. tab' = [tab EXCEPT ![t] = page]
    BY <1>30, <2>1 DEF Rotate
  <2> QED
    BY <1>30, <2>3, <2>5, <2>6, PageSet DEF Rotate, TypeOK, Numbers
<1>31. ASSUME NEW t \in Tabs, SignIn(t) \/ StepUp(t) PROVE TypeOK' /\ Numbers'
  <2>1. CASE SignIn(t)
    BY <1>30, <2>1 DEF SignIn
  <2>2. CASE StepUp(t)
    BY <1>30, <2>2 DEF StepUp
  <2> QED
    BY <1>31, <2>1, <2>2
<1>32. ASSUME NEW t \in Tabs, SignOut(t) PROVE TypeOK' /\ Numbers'
  <2> DEFINE page == [tab[t] EXCEPT !.keys = 0, !.csrf = 0, !.id = 0]
  <2>1. tab[t] \in Pages /\ 0 \in 0..MaxGen /\ 0 \in 0..MaxSid /\ Jar(t) \in 0..MaxSid
    BY DEF TypeOK, Jar
  <2>2. page \in Pages /\ page.at # "fetch"
    BY <1>32, <2>1 DEF Pages, SignOut, Idle
  <2>3. tab' = [tab EXCEPT ![t] = page]
    BY <1>32 DEF SignOut
  <2>4. revoked' \subseteq 0..MaxSid /\ cookie' \in [Browsers -> 0..MaxSid]
    BY <1>32, <2>1 DEF SignOut, TypeOK
  <2> QED
    BY <1>32, <2>2, <2>3, <2>4, PageSet DEF SignOut, TypeOK, Numbers
<1>33. CASE UNCHANGED vars
  BY <1>33 DEF vars, TypeOK, Numbers
<1>34. ASSUME NEW th \in Threads, Handler(th) PROVE TypeOK' /\ Numbers'
  BY <1>1, <1>2, <1>3, <1>4, <1>5, <1>6, <1>8, <1>9, <1>10, <1>11, <1>12, <1>13, <1>14,
     <1>15, <1>17, <1>34 DEF Handler
<1>35. ASSUME NEW t \in Tabs, Flow(t) \/ User(t) PROVE TypeOK' /\ Numbers'
  BY <1>19, <1>20, <1>21, <1>22, <1>23, <1>24, <1>26, <1>27, <1>28, <1>29, <1>31, <1>32,
     <1>35 DEF Flow, User
<1> QED
  BY <1>7, <1>16, <1>18, <1>33, <1>34, <1>35 DEF Next

\* Every state has its type, so every generation, session id and request that the
\* handlers read is one they were given.
THEOREM TypeCorrect == Spec => []TypeOK
<1>1. Init => Typed
  BY TypedInit
<1>2. Typed /\ [Next]_vars => Typed'
  BY TypedNext
<1>3. Typed => TypeOK
  BY DEF Typed
<1> QED
  BY <1>1, <1>2, <1>3, PTL DEF Spec
=============================================================================
