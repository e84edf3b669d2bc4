---------------------- MODULE VaultRekeySessions_proofs ----------------------
(***************************************************************************)
(* Who can still write under a vault's old keys: what a rekey's commit     *)
(* does to the sessions of the pages that have them, and what every other  *)
(* request does to those sessions afterwards.                              *)
(***************************************************************************)
EXTENDS VaultRekeyContents_proofs

Sids ==
    /\ \A b \in Browsers : cookie[b] <= drawn.sids
    /\ \A t \in Tabs : tab[t].csrf <= drawn.sids
    /\ \A th \in Threads : /\ req[th].sid <= drawn.sids
                           /\ req[th].op = "put" => req[th].sid # 0

\* A session that the latest commit revoked, or one that outlives it.
Judged(sid) == sid \in revoked \cup survivors

(* A page with salts of an earlier vault has a session the commit has judged, and so has
   what it has sent; at the row are only survivors. *)
StalePages ==
    \A t \in Tabs : tab[t].cache \notin {0, salts} /\ tab[t].csrf # 0 => Judged(tab[t].csrf)

Stale(r) == r.op = "put" /\ \E row \in r.rows : row.new[1] # salts

StalePuts ==
    \A th \in Threads : Stale(req[th]) =>
        /\ Judged(req[th].sid)
        /\ req[th].st \in {"locked", "counted"} => req[th].sid \in survivors

CInv == RInv /\ Sids /\ StalePages /\ StalePuts
-----------------------------------------------------------------------------
\* Between commits a judgement stands: a revoked session may come back, as a survivor.
Judgements ==
    /\ salts' = salts /\ survivors \subseteq survivors'
    /\ revoked \cup survivors \subseteq revoked' \cup survivors'

Numbering == drawn.sids <= drawn'.sids /\ \A b \in Browsers : cookie'[b] <= drawn'.sids

LEMMA SessionStep ==
    ASSUME TypeOK, Sids, [Next]_vars
    PROVE  Numbering /\ (Judgements \/ \E th \in Threads : CommitApply(th))
<1> USE DEF Elsewhere, DatabaseRows
<1>1. drawn.sids \in Nat /\ cookie \in [Browsers -> 0..MaxSid] /\ drawn \in [gens : Gens, sids : 0..MaxSid]
  BY DEF TypeOK
<1>2. ASSUME drawn'.sids = drawn.sids, cookie' = cookie PROVE Numbering
  BY <1>1, <1>2 DEF Sids, Numbering
<1>3. ASSUME salts' = salts, revoked' = revoked, survivors' = survivors PROVE Judgements
  BY <1>3 DEF Judgements
<1>4. ASSUME NEW th \in Threads, Handler(th) \/ Refuse(th) \/ LoseAnswer(th), ~SaveSession(th)
      PROVE  Numbering /\ (Judgements \/ CommitApply(th))
  <2>1. drawn'.sids = drawn.sids /\ cookie' = cookie
    BY <1>1, <1>4 DEF Handler, VaultWriteGuard, PutCount, PutStore, ResetDelete, RekeyBegin,
       RekeyBeginLimited, StageCheck, StageInsert, CommitCheck, CommitApply, RekeyAbort,
       SetupCheck, SetupStore, RecoveryDelete, Refuse, LoseAnswer
  <2>2. CommitApply(th) \/ (salts' = salts /\ revoked' = revoked /\ survivors' = survivors)
    BY <1>4 DEF Handler, VaultWriteGuard, PutCount, PutStore, ResetDelete, RekeyBegin,
       RekeyBeginLimited, StageCheck, StageInsert, CommitCheck, RekeyAbort, SetupCheck,
       SetupStore, RecoveryDelete, Refuse, LoseAnswer
  <2> QED
    BY <1>2, <1>3, <2>1, <2>2
<1>5. ASSUME NEW th \in Threads, SaveSession(th) PROVE Numbering /\ Judgements
  <2>1. drawn' = drawn /\ salts' = salts
    BY <1>5 DEF SaveSession
  <2>2. \A b \in Browsers : cookie'[b] \in {cookie[b], req[th].sid}
    BY <1>1, <1>5 DEF SaveSession
  <2>3. Numbering
    BY <1>1, <2>1, <2>2 DEF Sids, Numbering
  <2>4. Judgements
    BY <1>5, <2>1 DEF SaveSession, Judgements
  <2> QED
    BY <2>3, <2>4
<1>6. ASSUME NEW t \in Tabs, SignIn(t) \/ StepUp(t) PROVE Numbering /\ Judgements
  <2>1. drawn'.sids = drawn.sids + 1 /\ \A b \in Browsers : cookie'[b] \in {cookie[b], drawn.sids + 1}
    BY <1>1, <1>6 DEF SignIn, StepUp, Rotate
  <2>2. \A b \in Browsers : cookie[b] \in Nat /\ cookie[b] <= drawn.sids
    BY <1>1 DEF Sids
  <2>3. Numbering
    BY <1>1, <2>1, <2>2 DEF Numbering
  <2>4. Judgements
    BY <1>6 DEF SignIn, StepUp, Rotate, Judgements
  <2> QED
    BY <2>3, <2>4
<1>7. ASSUME NEW t \in Tabs, SignOut(t) PROVE Numbering /\ Judgements
  <2>1. drawn' = drawn /\ \A b \in Browsers : cookie'[b] \in {cookie[b], 0}
    BY <1>1, <1>7 DEF SignOut
  <2>2. Numbering
    BY <1>1, <2>1 DEF Sids, Numbering
  <2>3. Judgements
    BY <1>7 DEF SignOut, Judgements
  <2> QED
    BY <2>2, <2>3
<1>8. ASSUME NEW t \in Tabs, Flow(t) \/ User(t), ~SignIn(t), ~StepUp(t), ~SignOut(t)
      PROVE  Numbering /\ Judgements
  <2>1. drawn' = drawn /\ cookie' = cookie /\ salts' = salts /\ revoked' = revoked
        /\ survivors' = survivors
    BY <1>8 DEF Flow, User, Load, FetchAllRecords, NextCall, UploadRecords, DeleteAllRecords,
       SetupRecoveryKey, DeleteRecovery, Request, Unlock, LockVault, RecoverVault, Reload, PageOnly
  <2> QED
    BY <1>2, <1>3, <2>1
<1>9. Expire \/ UNCHANGED vars => Numbering /\ Judgements
  BY <1>2, <1>3 DEF Expire, vars
<1> QED
  BY <1>4, <1>5, <1>6, <1>7, <1>8, <1>9 DEF Next, Handler

\* Only the guard lets a put to the row, and no revoked session.
LEMMA LockStep ==
    ASSUME TypeOK, [Next]_vars, NEW o \in Threads, req'[o].st \in {"locked", "counted"}
    PROVE  req[o].st \in {"locked", "counted"} \/ req[o].sid \notin revoked
<1>1. ASSUME NEW th \in Threads, NEW st \in Stages \ {"locked", "counted"}, Finish(th, st)
      PROVE  req[o].st \in {"locked", "counted"}
  BY <1>1, FinishEach
<1>2. {"ok", "no", "checked", "ready"} \subseteq Stages \ {"locked", "counted"}
      /\ {"locked", "counted"} \subseteq Stages
  BY DEF Stages
<1>3. ASSUME NEW th \in Threads, VaultWriteGuard(th)
      PROVE  req[o].st \in {"locked", "counted"} \/ req[o].sid \notin revoked
  <2>1. CASE req[th].sid \notin revoked
    <3>1. \E st \in Stages : Finish(th, st)
      BY <1>2, <1>3 DEF VaultWriteGuard, Verdict
    <3> QED
      BY <2>1, <3>1, FinishEach
  <2>2. CASE req[th].sid \in revoked
    BY <1>1, <1>2, <1>3, <2>2 DEF VaultWriteGuard, Verdict
  <2> QED
    BY <2>1, <2>2
<1>4. ASSUME NEW th \in Threads, PutCount(th)
      PROVE  req[o].st \in {"locked", "counted"}
  <2>1. \E st \in Stages : Finish(th, st)
    BY <1>2, <1>4 DEF PutCount, Verdict
  <2> QED
    BY <1>4, <2>1, FinishEach DEF PutCount, At
<1>5. ASSUME NEW th \in Threads, StageCheck(th) \/ StageInsert(th) \/ CommitCheck(th) \/ SetupCheck(th)
      PROVE  req[o].st \in {"locked", "counted"}
  BY <1>1, <1>2, <1>5 DEF StageCheck, StageInsert, CommitCheck, SetupCheck, Verdict
<1>6. ASSUME NEW th \in Threads,
             \/ PutStore(th) \/ ResetDelete(th) \/ RekeyBeginLimited(th) \/ CommitApply(th)
             \/ RekeyAbort(th) \/ SetupStore(th) \/ RecoveryDelete(th) \/ Refuse(th)
      PROVE  req[o].st \in {"locked", "counted"}
  BY <1>1, <1>2, <1>6 DEF PutStore, ResetDelete, RekeyBeginLimited, CommitApply, RekeyAbort,
     SetupStore, RecoveryDelete, Refuse
<1>7. ASSUME NEW th \in Threads, RekeyBegin(th) PROVE req[o].st \in {"locked", "counted"}
  BY <1>7 DEF RekeyBegin, TypeOK, Requests
<1>8. ASSUME NEW th \in Threads, SaveSession(th) PROVE req[o].st \in {"locked", "counted"}
  BY <1>8 DEF SaveSession, TypeOK, Free
<1>9. ASSUME NEW th \in Threads, LoseAnswer(th) PROVE req[o].st \in {"locked", "counted"}
  BY <1>9 DEF LoseAnswer, TypeOK, Requests
<1>10. ASSUME NEW t \in Tabs, Flow(t) \/ User(t) PROVE req[o].st \in {"locked", "counted"}
  <2>1. CASE UNCHANGED req
    BY <2>1
  <2>2. CASE Reload(t)
    BY <2>2 DEF Reload, TypeOK, Requests
  <2>3. ASSUME NEW op, NEW id, NEW rows, Send(t, op, rows, id) PROVE req[o].st \in {"locked", "counted"}
    BY <2>3 DEF Send, TypeOK
  <2> QED
    BY <1>10, <2>1, <2>2, <2>3 DEF Flow, User, Load, FetchAllRecords, NextCall, UploadRecords,
       DeleteAllRecords, SetupRecoveryKey, DeleteRecovery, Request, Unlock, LockVault,
       RecoverVault, SignIn, StepUp, Rotate, SignOut, PageOnly
<1>11. Expire \/ UNCHANGED vars => UNCHANGED req
  BY DEF Expire, vars
<1> QED
  BY <1>3, <1>4, <1>5, <1>6, <1>7, <1>8, <1>9, <1>10, <1>11 DEF Next, Handler
-----------------------------------------------------------------------------
LEMMA NextSids == ASSUME CInv, RInv', [Next]_vars PROVE Sids'
<1>1. TypeOK /\ Awaited /\ TypeOK' /\ Sids
  BY DEF CInv, RInv, IInv
<1>2. Numbering
  BY <1>1, SessionStep
<1>3. /\ drawn.sids \in Nat /\ drawn'.sids \in Nat /\ drawn.sids <= drawn'.sids
      /\ cookie \in [Browsers -> 0..MaxSid] /\ tab \in [Tabs -> Pages] /\ req \in [Threads -> Requests]
  BY <1>1, <1>2 DEF TypeOK, Numbering
<1>4. ASSUME NEW n \in Nat, n <= drawn.sids PROVE n <= drawn'.sids
  BY <1>3, <1>4
<1>5. 0 <= drawn'.sids
  BY <1>3
<1>6. ASSUME NEW t \in Tabs PROVE Jar(t) \in Nat /\ Jar(t) <= drawn.sids
  BY <1>1, <1>3, ModelAssumption DEF Jar, Sids
<1>7. ASSUME NEW t \in Tabs PROVE tab'[t].csrf <= drawn'.sids
  <2>1. PageStep(t)
    BY <1>1, PagesStep
  <2>2. CASE tab'[t].csrf \in {tab[t].csrf, Jar(t), 0}
    <3>1. tab[t].csrf \in Nat /\ tab[t].csrf <= drawn.sids
      BY <1>1, <1>3 DEF Sids, Pages
    <3> QED
      BY <1>4, <1>5, <1>6, <2>2, <3>1
  <2>3. CASE tab'[t].csrf = drawn.sids + 1 /\ (SignIn(t) \/ StepUp(t))
    <3>1. drawn'.sids = drawn.sids + 1
      BY <1>1, <2>3 DEF SignIn, StepUp, Rotate, TypeOK
    <3> QED
      BY <1>3, <2>3, <3>1
  <2> QED
    BY <2>1, <2>2, <2>3 DEF PageStep
<1>8. ASSUME NEW o \in Threads
      PROVE  req'[o].sid <= drawn'.sids /\ (req'[o].op = "put" => req'[o].sid # 0)
  <2>1. CASE Kept(o)
    <3>1. req[o].sid \in Nat /\ req[o].sid <= drawn.sids /\ (req[o].op = "put" => req[o].sid # 0)
      BY <1>1, <1>3 DEF Sids, Requests
    <3> QED
      BY <1>4, <2>1, <3>1 DEF Kept
  <2>2. CASE req'[o] = Free
    BY <1>5, <2>2 DEF Free
  <2>3. CASE Called(o)
    <3>1. PICK t \in Tabs : req'[o].sid = Jar(t) /\ MayPost(t)
      BY <2>3 DEF Called
    <3> QED
      BY <1>4, <1>6, <3>1 DEF MayPost, Live
  <2> QED
    BY <1>1, <2>1, <2>2, <2>3, RequestStep
<1> QED
  BY <1>2, <1>7, <1>8 DEF Sids, Numbering

(* The commit judges every session there is. *)
LEMMA CommitJudges ==
    ASSUME TypeOK, NEW th \in Threads, CommitApply(th), NEW sid \in Nat, sid # 0, sid <= drawn.sids
    PROVE  sid \in revoked' \cup survivors'
<1>1. sid \in 1..drawn.sids
  BY DEF TypeOK
<1> QED
  BY <1>1 DEF CommitApply, Others

(* Between commits a session is judged by the one it rotates from, and a page that signs in
   with salts already cached outlives whatever commit it missed. *)
LEMMA NextStalePages == ASSUME CInv, [Next]_vars PROVE StalePages'
<1>1. TypeOK /\ Awaited /\ Sids /\ StalePages
  BY DEF CInv, RInv, IInv
<1>2. SUFFICES ASSUME NEW t \in Tabs, tab'[t].cache \notin {0, salts'}, tab'[t].csrf # 0
               PROVE  tab'[t].csrf \in revoked' \cup survivors'
  BY DEF StalePages, Judged
<1>3. CASE Judgements
  <2>1. PageStep(t)
    BY <1>1, PagesStep
  <2>2. CASE tab'[t].cache = tab[t].cache /\ tab'[t].csrf \in {tab[t].csrf, 0}
    BY <1>1, <1>2, <1>3, <2>2 DEF StalePages, Judged, Judgements
  <2>3. CASE tab'[t].cache \in {0, salts}
    BY <1>2, <1>3, <2>3 DEF Judgements
  <2>4. CASE tab'[t].cache = tab[t].cache /\ tab'[t].csrf = drawn.sids + 1 /\ SignIn(t)
    BY <1>2, <2>4 DEF SignIn, Rotate
  <2>5. CASE tab'[t].cache = tab[t].cache /\ tab'[t].csrf = drawn.sids + 1 /\ StepUp(t)
    <3>1. tab[t].csrf = Jar(t) /\ Jar(t) # 0 /\ Jar(t) \notin revoked
      BY <2>5 DEF StepUp, MayPost, Live
    <3>2. Jar(t) \in survivors
      BY <1>1, <1>2, <1>3, <2>5, <3>1 DEF StalePages, Judged, Judgements
    <3> QED
      BY <2>5, <3>2 DEF StepUp, Rotate
  <2> QED
    BY <2>1, <2>2, <2>3, <2>4, <2>5 DEF PageStep
<1>4. ASSUME NEW th \in Threads, CommitApply(th) PROVE tab'[t].csrf \in revoked' \cup survivors'
  <2>1. tab'[t] = tab[t]
    BY <1>4 DEF CommitApply
  <2>2. tab[t].csrf \in Nat /\ tab[t].csrf <= drawn.sids
    BY <1>1 DEF Sids, TypeOK, Pages
  <2> QED
    BY <1>1, <1>2, <1>4, <2>1, <2>2, CommitJudges
<1> QED
  BY <1>1, <1>3, <1>4, SessionStep

(* A put waits for the row with its session judged, and passes the guard only if that session
   is not revoked; at the commit no put is past the guard. *)
LEMMA NextStalePuts == ASSUME CInv, [Next]_vars PROVE StalePuts'
<1>1. TypeOK /\ Awaited /\ Known /\ Locking /\ Sids /\ StalePages /\ StalePuts
  BY DEF CInv, RInv, IInv, Isolated
<1>2. SUFFICES ASSUME NEW o \in Threads, req'[o].op = "put", \E row \in req'[o].rows : row.new[1] # salts'
               PROVE  /\ req'[o].sid \in revoked' \cup survivors'
                      /\ req'[o].st \in {"locked", "counted"} => req'[o].sid \in survivors'
  BY DEF StalePuts, Judged, Stale
<1>3. CASE Judgements /\ Kept(o)
  <2>1. Stale(req[o]) /\ req'[o].sid = req[o].sid
    BY <1>2, <1>3 DEF Judgements, Kept, Stale
  <2>2. req[o].sid \in revoked \cup survivors
        /\ (req[o].st \in {"locked", "counted"} => req[o].sid \in survivors)
    BY <1>1, <2>1 DEF StalePuts, Judged
  <2>3. req'[o].st \in {"locked", "counted"} => req[o].sid \in survivors
    BY <1>1, <2>2, LockStep
  <2> QED
    BY <1>3, <2>1, <2>2, <2>3 DEF Judgements
<1>4. CASE req'[o] = Free
  BY <1>2, <1>4 DEF Free
<1>5. CASE Judgements /\ Called(o)
  <2>1. PICK t \in Tabs : \E op \in Ops : \E id, rows :
           /\ req'[o] = [st |-> "sent", op |-> op, tab |-> t, sid |-> Jar(t), id |-> id, rows |-> rows]
           /\ MayPost(t) /\ Carries(t, op, id, rows)
    BY <1>5 DEF Called
  <2>2. /\ req'[o].st = "sent" /\ req'[o].sid = Jar(t) /\ MayPost(t) /\ tab[t].keys # 0
        /\ \E D \in SUBSET Docs : \E v \in [D -> Vals] : req'[o].rows = Sealed(tab[t].keys, D, v)
    BY <1>2, <2>1 DEF Carries
  <2>3. \A row \in req'[o].rows : row.new[1] = tab[t].keys
    BY <2>2 DEF Sealed
  <2>4. tab[t].cache \notin {0, salts} /\ tab[t].csrf = Jar(t) /\ tab[t].csrf # 0
    BY <1>1, <1>2, <1>5, <2>2, <2>3 DEF Known, Judgements, MayPost, Live
  <2> QED
    BY <1>1, <1>5, <2>2, <2>4 DEF StalePages, Judged, Judgements
<1>6. ASSUME NEW th \in Threads, CommitApply(th)
      PROVE  /\ req'[o].sid \in revoked' \cup survivors'
             /\ req'[o].st \notin {"locked", "counted"}
  <2>1. Finish(th, "ok") /\ "ok" \in Stages /\ At(th, "commit", "ready")
    BY <1>6 DEF CommitApply, Stages
  <2>2. req'[o].st \notin {"locked", "counted"}
    BY <1>1, <2>1, FinishEach DEF Locking, Holds, ForUpdateFree, At
  <2>3. req'[o].sid = req[o].sid /\ req[o].op = "put"
    BY <1>1, <1>2, <2>1, KeptFinish DEF Kept
  <2>4. req[o].sid \in Nat /\ req[o].sid <= drawn.sids /\ req[o].sid # 0
    BY <1>1, <2>3 DEF Sids, TypeOK, Requests
  <2> QED
    BY <1>1, <1>6, <2>2, <2>3, <2>4, CommitJudges
<1> QED
  BY <1>1, <1>3, <1>4, <1>5, <1>6, SessionStep, RequestStep
-----------------------------------------------------------------------------
LEMMA InitCInv == Init => CInv
<1> SUFFICES ASSUME Init PROVE CInv
  OBVIOUS
<1>1. RInv
  BY InitRInv
<1>2. \A th \in Threads : req[th].op = "none" /\ req[th].sid = 0
  BY DEF Init, Free
<1>3. drawn.sids = Cardinality(Browsers) /\ cookie \in [Browsers -> 1..Cardinality(Browsers)]
      /\ drawn.sids \in Nat
  BY <1>1 DEF Init, RInv, IInv, TypeOK
<1>4. \A t \in Tabs : tab[t].cache = 0 /\ tab[t].csrf = cookie[BrowserOf[t]]
  BY DEF Init, Page
<1>5. Sids
  BY <1>2, <1>3, <1>4, ModelAssumption DEF Sids
<1>6. StalePages /\ StalePuts
  BY <1>2, <1>4 DEF StalePages, StalePuts, Stale
<1> QED
  BY <1>1, <1>5, <1>6 DEF CInv

LEMMA NextCInv == CInv /\ [Next]_vars => CInv'
<1> SUFFICES ASSUME CInv, [Next]_vars PROVE CInv'
  OBVIOUS
<1>1. RInv'
  BY NextRInv DEF CInv
<1> QED
  BY <1>1, NextSids, NextStalePages, NextStalePuts DEF CInv

\* Every page that still has salts of an earlier vault, and every upload it has sent, carries a
\* session that the latest commit judged: revoke_other_sessions revoked it, or it outlives the
\* commit and is on record as a survivor.
THEOREM SessionsInvariant == Spec => []CInv
BY InitCInv, NextCInv, PTL DEF Spec

LEMMA StoresCutOff ==
    ASSUME CInv, [Next]_vars, NEW b \in Blinds,
           live'[b] # live[b], live'[b] # NoVal, b[1] # salts'
    PROVE  \E th \in Threads : /\ req[th].op = "put" /\ req[th].st = "counted"
                               /\ req'[th].st = "ok"
                               /\ req[th].sid \in survivors
<1>1. TypeOK /\ StalePuts
  BY DEF CInv, RInv, IInv
<1>2. ASSUME NEW th \in Threads, PutStore(th)
      PROVE  /\ req[th].op = "put" /\ req[th].st = "counted" /\ req'[th].st = "ok"
             /\ req[th].sid \in survivors
  <2>1. \E row \in req[th].rows : row.new = b
    BY <1>2 DEF PutStore, Upsert
  <2>2. salts' = salts /\ At(th, "put", "counted") /\ Finish(th, "ok") /\ "ok" \in Stages
    BY <1>2 DEF PutStore, Stages
  <2>3. Stale(req[th])
    BY <2>1, <2>2 DEF Stale, At
  <2>4. req'[th].st = "ok"
    BY <1>1, <2>2, FinishEach
  <2> QED
    BY <1>1, <2>2, <2>3, <2>4 DEF StalePuts, At
<1>3. ASSUME NEW th \in Threads, ResetDelete(th) PROVE FALSE
  BY <1>3 DEF ResetDelete, Empty
<1>4. ASSUME NEW th \in Threads, CommitApply(th) PROVE FALSE
  <2>1. req[th].id = rekey.id /\ staged = Reencrypt(live, rekey.id)
    BY <1>4, Committing DEF CInv, CommitApply, At
  <2>2. live'[b] = IF \E row \in staged : row.new = b THEN (CHOOSE row \in staged : row.new = b).val
                   ELSE NoVal
    BY <1>4 DEF CommitApply, Upsert, Empty
  <2>3. \A row \in staged : row.new[1] = rekey.id
    BY <2>1 DEF Reencrypt
  <2>4. salts' = rekey.id
    BY <1>4, <2>1 DEF CommitApply
  <2> QED
    BY <2>2, <2>3, <2>4
<1>5. ASSUME NEW th \in Threads, SetupStore(th) \/ RecoveryDelete(th) PROVE FALSE
  BY <1>5 DEF SetupStore, RecoveryDelete
<1> QED
  BY <1>2, <1>3, <1>4, <1>5, VaultSteps DEF VaultStep

\* After a rekey, a record under other keys than the vault's is stored only by an upload of a
\* session that outlives the commit: the page's own, one that save_session wrote back, or one
\* that a page with cached salts rotated to. Every other page is cut off, whatever it sent.
THEOREM StaleWritersAreCutOff == Spec => StaleWritersCutOff
<1>1. CInv /\ [Next]_vars =>
        [\A b \in Blinds :
            (live'[b] # live[b] /\ live'[b] # NoVal /\ b[1] # salts')
              => \E th \in Threads : /\ req[th].op = "put" /\ req[th].st = "counted"
                                     /\ req'[th].st = "ok"
                                     /\ req[th].sid \in survivors]_vars
  BY StoresCutOff
<1> QED
  BY <1>1, SessionsInvariant, PTL DEF Spec, StaleWritersCutOff
=============================================================================
