---------------------- MODULE VaultRekeyContents_proofs ----------------------
(***************************************************************************)
(* The rekey protocol implements VaultContents: begin, stage and commit,   *)
(* interleaved with every other request and interrupted anywhere, are one  *)
(* change of the vault.  Beyond what isolates a commit this takes the keys *)
(* that everything is sealed under, from the pages that seal it on.        *)
(***************************************************************************)
EXTENDS VaultRekeySafety_proofs

OneKey(vault) == \E g \in Gens : \A b \in Stored(vault) : b[1] = g

\* The documents a put carries are sealed under the keys its page had.
SealedPut(r) ==
    \E g \in Gens, D \in SUBSET Docs : \E v \in [D -> Vals] :
        r.rows = Sealed(g, D, v) /\ g <= drawn.gens

(* Whatever is sealed is so under keys that have been drawn. *)
Known ==
    /\ salts <= drawn.gens
    /\ \A t \in Tabs : /\ tab[t].cache <= drawn.gens
                       /\ tab[t].keys # 0 => tab[t].keys = tab[t].cache
    /\ \A b \in Stored(live) : b[1] <= drawn.gens
    /\ \A th \in Threads : req[th].op = "put" => SealedPut(req[th])

(* While a rekey counts, its keys are newer than all of its snapshot's and the vault's, and
   rows come to be staged only if one key opens the whole snapshot. *)
Newer ==
    Counts =>
        /\ rekey.id # 0 /\ salts < rekey.id
        /\ \A b \in Stored(rekey.base) : b[1] < rekey.id
        /\ staged # {} => OneKey(rekey.base)
        /\ \A th \in Threads : req[th].op = "stage" /\ req[th].id = rekey.id => OneKey(rekey.base)
        /\ \A t \in Tabs : tab[t].at = "stage" /\ tab[t].id = rekey.id => OneKey(rekey.base)

RInv == IInv /\ Known /\ Newer
-----------------------------------------------------------------------------
(* What a step can do to a request *)

\* A call of a page carries what the page has.
Carries(t, op, id, rows) ==
    /\ op = "put" => /\ tab[t].keys # 0
                     /\ \E D \in SUBSET Docs : \E v \in [D -> Vals] : rows = Sealed(tab[t].keys, D, v)
    /\ op = "stage" => tab[t].at = "stage" /\ id = tab[t].id

Kept(o) ==
    /\ req'[o].op = req[o].op /\ req'[o].rows = req[o].rows /\ req'[o].sid = req[o].sid
    /\ req[o].op # "begin" => req'[o].id = req[o].id

Called(o) ==
    \E t \in Tabs, op \in Ops : \E id, rows :
        /\ req'[o] = [st |-> "sent", op |-> op, tab |-> t, sid |-> Jar(t), id |-> id, rows |-> rows]
        /\ MayPost(t) /\ Carries(t, op, id, rows)

LEMMA KeptFinish ==
    ASSUME TypeOK, NEW th \in Threads, NEW st \in Stages, Finish(th, st), NEW o \in Threads
    PROVE  Kept(o)
<1>1. CASE o = th
  BY <1>1, FinishKeeps DEF Kept
<1>2. CASE o # th
  BY <1>2, FinishKeeps DEF Kept
<1> QED
  BY <1>1, <1>2

LEMMA CalledSend ==
    ASSUME TypeOK, NEW t \in Tabs, NEW op \in Ops, NEW id, NEW rows, Send(t, op, rows, id),
           MayPost(t), Carries(t, op, id, rows), NEW o \in Threads
    PROVE  Kept(o) \/ Called(o)
<1>1. PICK th \in Threads : req' = [req EXCEPT ![th] = [st |-> "sent", op |-> op, tab |-> t,
                                          sid |-> Jar(t), id |-> id, rows |-> rows]]
  BY DEF Send
<1>2. CASE o = th
  <2>1. req'[o] = [st |-> "sent", op |-> op, tab |-> t, sid |-> Jar(t), id |-> id, rows |-> rows]
    BY <1>1, <1>2 DEF TypeOK
  <2> QED
    BY <2>1 DEF Called
<1>3. CASE o # th
  BY <1>1, <1>3 DEF TypeOK, Kept
<1> QED
  BY <1>2, <1>3

LEMMA HandlerStep ==
    ASSUME TypeOK, NEW th \in Threads, Handler(th) \/ Refuse(th) \/ LoseAnswer(th),
           NEW o \in Threads
    PROVE  Kept(o) \/ req'[o] = Free
<1>1. CASE \E st \in Stages : Finish(th, st)
  BY <1>1, KeptFinish
<1>2. CASE RekeyBegin(th)
  BY <1>2 DEF RekeyBegin, At, TypeOK, Requests, Kept
<1>3. CASE SaveSession(th)
  BY <1>3 DEF SaveSession, TypeOK, Kept
<1>4. CASE LoseAnswer(th)
  BY <1>4 DEF LoseAnswer, TypeOK, Requests, Kept
<1>5. {"ok", "no", "locked", "counted", "checked", "ready"} \subseteq Stages
  BY DEF Stages
<1>6. CASE \/ VaultWriteGuard(th) \/ PutCount(th) \/ StageCheck(th) \/ StageInsert(th)
           \/ CommitCheck(th) \/ SetupCheck(th)
  BY <1>1, <1>5, <1>6 DEF VaultWriteGuard, PutCount, StageCheck, StageInsert, CommitCheck,
     SetupCheck, Verdict
<1>7. CASE \/ PutStore(th) \/ ResetDelete(th) \/ RekeyBeginLimited(th) \/ CommitApply(th)
           \/ RekeyAbort(th) \/ SetupStore(th) \/ RecoveryDelete(th) \/ Refuse(th)
  BY <1>1, <1>5, <1>7 DEF PutStore, ResetDelete, RekeyBeginLimited, CommitApply, RekeyAbort,
     SetupStore, RecoveryDelete, Refuse
<1> QED
  BY <1>2, <1>3, <1>4, <1>6, <1>7 DEF Handler

LEMMA RequestStep ==
    ASSUME TypeOK, [Next]_vars, NEW o \in Threads
    PROVE  Kept(o) \/ req'[o] = Free \/ Called(o)
<1>1. CASE \E th \in Threads : Handler(th) \/ Refuse(th) \/ LoseAnswer(th)
  BY <1>1, HandlerStep
<1>2. ASSUME NEW t \in Tabs, UploadRecords(t) PROVE Kept(o) \/ Called(o)
  <2>1. PICK D \in SUBSET Docs : \E v \in [D -> Vals] : Request(t, "put", Sealed(tab[t].keys, D, v), 0)
    BY <1>2 DEF UploadRecords
  <2>2. PICK v \in [D -> Vals] : Request(t, "put", Sealed(tab[t].keys, D, v), 0)
    BY <2>1
  <2>3. Carries(t, "put", 0, Sealed(tab[t].keys, D, v))
    BY <1>2 DEF Carries, UploadRecords
  <2> QED
    BY <2>2, <2>3, CalledSend DEF Request, Ops
<1>3. ASSUME NEW t \in Tabs, DeleteAllRecords(t) \/ SetupRecoveryKey(t) \/ DeleteRecovery(t)
      PROVE  Kept(o) \/ Called(o)
  <2>1. PICK op \in {"reset", "setup", "unset"} : \E id : Request(t, op, {}, id)
    BY <1>3 DEF DeleteAllRecords, SetupRecoveryKey, DeleteRecovery
  <2> QED
    BY <2>1, CalledSend DEF Request, Ops, Carries
<1>4. ASSUME NEW t \in Tabs, NextCall(t) PROVE Kept(o) \/ Called(o)
  <2> DEFINE op == IF tab[t].at = "unlock" THEN "abort" ELSE tab[t].at
  <2>1. op \in Ops \ {"put"} /\ (op = "stage" => tab[t].at = "stage")
    BY <1>4 DEF NextCall, Ops
  <2>2. CASE MayPost(t)
    <3>1. PICK c : Send(t, op, c, tab[t].id)
      BY <1>4, <2>2 DEF NextCall
    <3> QED
      BY <2>1, <2>2, <3>1, CalledSend DEF Carries
  <2>3. CASE ~MayPost(t)
    BY <1>4, <2>3 DEF NextCall, Kept
  <2> QED
    BY <2>2, <2>3
<1>5. ASSUME NEW t \in Tabs, Reload(t) PROVE Kept(o)
  BY <1>5 DEF Reload, TypeOK, Requests, Kept
<1>6. ASSUME UNCHANGED req PROVE Kept(o)
  BY <1>6 DEF Kept
<1> QED
  BY <1>1, <1>2, <1>3, <1>4, <1>5, <1>6 DEF Next, Flow, User, Load, FetchAllRecords, Unlock,
     LockVault, RecoverVault, PageOnly, SignIn, StepUp, Rotate, SignOut, Expire, vars
-----------------------------------------------------------------------------
(* What a step can do to a page *)

\* It keeps its salts, and its keys are those it had, those of its salts, or gone; it forgets
\* all; it reads the vault's salts; or its session rotates.
PageStep(t) ==
    \/ /\ tab'[t].cache = tab[t].cache /\ tab'[t].keys \in {tab[t].keys, tab[t].cache, 0}
       /\ tab'[t].csrf \in {tab[t].csrf, 0}
    \/ /\ tab'[t].cache = 0 /\ tab'[t].keys = 0 /\ tab'[t].csrf \in {tab[t].csrf, Jar(t), 0}
    \/ /\ tab'[t].cache = salts /\ tab'[t].keys = 0 /\ tab'[t].csrf = tab[t].csrf
    \/ /\ tab'[t].cache = tab[t].cache /\ tab'[t].keys = tab[t].keys
       /\ tab'[t].csrf = drawn.sids + 1 /\ (SignIn(t) \/ StepUp(t))

\* It is to stage rows when one key opened all that was live, or more rows are to come.
ToStage(t) ==
    tab'[t].at = "stage" =>
        /\ tab'[t].id = tab[t].id
        /\ \/ tab[t].at = "stage"
           \/ \A b \in Stored(live) : b[1] = tab[t].seed

LEMMA ContinueKeeps ==
    ASSUME NEW page \in Pages, NEW op \in Ops, NEW good \in BOOLEAN, NEW rows, NEW id,
           op = "stage" => page.at = "stage", NEW next, next = Continue(page, op, good, rows, id)
    PROVE  /\ next.csrf = page.csrf
           /\ \/ next.cache = page.cache /\ next.keys = page.keys
              \/ next.cache = 0 /\ next.keys = 0
           /\ next.at = "stage" => page.at = "stage" /\ next.id = page.id
<1>1. CASE op = "begin"
  BY <1>1 DEF Continue, Pages
<1>2. CASE op = "stage"
  BY <1>2 DEF Continue, Pages
<1>3. CASE op = "commit"
  BY <1>3 DEF Continue, Pages, Page
<1>4. CASE op \notin {"begin", "stage", "commit"}
  BY <1>4 DEF Continue, Pages
<1> QED
  BY <1>1, <1>2, <1>3, <1>4

LEMMA AnsweredStep ==
    ASSUME TypeOK, Awaited, NEW th \in Threads, SaveSession(th) \/ LoseAnswer(th), NEW t \in Tabs
    PROVE  PageStep(t) /\ ToStage(t)
<1>1. CASE req[th].tab = t
  <2>1. PICK good \in BOOLEAN :
           tab' = [tab EXCEPT ![t] = Continue(@, req[th].op, good, req[th].rows, req[th].id)]
    BY <1>1, ModelAssumption DEF SaveSession, LoseAnswer
  <2>2. tab[t] \in Pages /\ req[th].op \in Ops /\ (req[th].op = "stage" => tab[t].at = "stage")
    BY <1>1 DEF TypeOK, Requests, Awaited
  <2>3. tab'[t] = Continue(tab[t], req[th].op, good, req[th].rows, req[th].id)
    BY <2>1 DEF TypeOK
  <2> QED
    BY <2>2, <2>3, ContinueKeeps DEF PageStep, ToStage
<1>2. CASE req[th].tab # t
  <2>1. tab'[t] = tab[t]
    BY <1>2 DEF SaveSession, LoseAnswer, TypeOK
  <2> QED
    BY <2>1 DEF PageStep, ToStage
<1> QED
  BY <1>1, <1>2

LEMMA OwnStep ==
    ASSUME TypeOK, NEW t \in Tabs, NEW u \in Tabs, Flow(t) \/ User(t)
    PROVE  PageStep(u) /\ ToStage(u)
<1>1. tab[t] \in Pages /\ tab \in [Tabs -> Pages]
  BY DEF TypeOK
<1>2. CASE u # t
  <2>1. tab'[u] = tab[u]
    BY <1>1, <1>2 DEF Flow, User, Load, FetchAllRecords, NextCall, UploadRecords,
       DeleteAllRecords, SetupRecoveryKey, DeleteRecovery, Request, Unlock, LockVault,
       RecoverVault, Reload, SignIn, StepUp, Rotate, SignOut
  <2> QED
    BY <2>1 DEF PageStep, ToStage
<1>3. CASE Load(t)
  BY <1>1, <1>3 DEF Load, Pages, PageStep, ToStage
<1>4. CASE FetchAllRecords(t)
  BY <1>1, <1>4 DEF FetchAllRecords, Pages, PageStep, ToStage
<1>5. CASE NextCall(t)
  <2> DEFINE op == IF tab[t].at = "unlock" THEN "abort" ELSE tab[t].at
  <2>1. CASE MayPost(t)
    BY <1>5, <2>1 DEF NextCall, PageStep, ToStage
  <2>2. CASE ~MayPost(t)
    <3>1. PICK good \in BOOLEAN : tab'[t] = Continue(tab[t], op, good, {}, 0)
      BY <1>1, <1>5, <2>2 DEF NextCall
    <3>2. op \in Ops /\ (op = "stage" => tab[t].at = "stage")
      BY <1>5 DEF NextCall, Ops
    <3> HIDE DEF op
    <3> QED
      BY <1>1, <1>2, <3>1, <3>2, ContinueKeeps DEF PageStep, ToStage
  <2> QED
    BY <2>1, <2>2
<1>6. CASE UploadRecords(t) \/ DeleteAllRecords(t) \/ SetupRecoveryKey(t) \/ DeleteRecovery(t)
  <2>1. tab' = [tab EXCEPT ![t].at = "write", ![t].id = 0]
    BY <1>6 DEF UploadRecords, DeleteAllRecords, SetupRecoveryKey, DeleteRecovery, Request
  <2> QED
    BY <1>1, <2>1 DEF Pages, PageStep, ToStage
<1>7. CASE Unlock(t)
  BY <1>1, <1>7 DEF Unlock, Pages, PageStep, ToStage
<1>8. CASE LockVault(t)
  BY <1>1, <1>8 DEF LockVault, Idle, Pages, PageStep, ToStage
<1>9. CASE RecoverVault(t)
  BY <1>1, <1>9 DEF RecoverVault, Pages, PageStep, ToStage
<1>10. CASE Reload(t)
  BY <1>1, <1>10 DEF Reload, Page, PageStep, ToStage
<1>11. CASE SignIn(t) \/ StepUp(t)
  BY <1>1, <1>11 DEF SignIn, StepUp, Rotate, Idle, Pages, PageStep, ToStage
<1>12. CASE SignOut(t)
  BY <1>1, <1>12 DEF SignOut, Idle, Pages, PageStep, ToStage
<1> QED
  BY <1>2, <1>3, <1>4, <1>5, <1>6, <1>7, <1>8, <1>9, <1>10, <1>11, <1>12 DEF Flow, User

LEMMA PagesStep ==
    ASSUME TypeOK, Awaited, [Next]_vars, NEW t \in Tabs
    PROVE  PageStep(t) /\ ToStage(t)
<1>1. CASE UNCHANGED tab
  BY <1>1 DEF PageStep, ToStage
<1>2. ASSUME NEW th \in Threads, SaveSession(th) \/ LoseAnswer(th)
      PROVE  PageStep(t) /\ ToStage(t)
  BY <1>2, AnsweredStep
<1>3. ASSUME NEW u \in Tabs, Flow(u) \/ User(u) PROVE PageStep(t) /\ ToStage(t)
  BY <1>3, OwnStep
<1>4. ASSUME NEW th \in Threads, Handler(th) \/ Refuse(th), ~SaveSession(th)
      PROVE  UNCHANGED tab
  BY <1>4 DEF Handler, VaultWriteGuard, PutCount, PutStore, ResetDelete, RekeyBegin,
     RekeyBeginLimited, StageCheck, StageInsert, CommitCheck, CommitApply, RekeyAbort,
     SetupCheck, SetupStore, RecoveryDelete, Refuse, Elsewhere
<1>5. UNCHANGED vars \/ Expire => UNCHANGED tab
  BY DEF vars, Expire, Elsewhere
<1> QED
  BY <1>1, <1>2, <1>3, <1>4, <1>5 DEF Next
-----------------------------------------------------------------------------
(* What a step can do to the database *)

VaultStep ==
    \/ UNCHANGED <<live, salts, blob>>
    \/ \E th \in Threads : \/ PutStore(th) \/ ResetDelete(th) \/ CommitApply(th)
                           \/ SetupStore(th) \/ RecoveryDelete(th)

LEMMA VaultSteps == [Next]_vars => VaultStep
<1> SUFFICES ASSUME [Next]_vars PROVE VaultStep
  OBVIOUS
<1> USE DEF DatabaseRows
<1>1. ASSUME NEW th \in Threads, Handler(th) \/ Refuse(th) \/ LoseAnswer(th) PROVE VaultStep
  BY <1>1 DEF VaultStep, Handler, VaultWriteGuard, PutCount, RekeyBegin, RekeyBeginLimited,
     StageCheck, StageInsert, CommitCheck, RekeyAbort, SetupCheck, SaveSession, Refuse, LoseAnswer
<1>2. ASSUME NEW t \in Tabs, Flow(t) \/ User(t) PROVE UNCHANGED <<live, salts, blob>>
  BY <1>2 DEF Flow, User, Load, FetchAllRecords, NextCall, UploadRecords, DeleteAllRecords,
     SetupRecoveryKey, DeleteRecovery, Request, Unlock, LockVault, RecoverVault, Reload, SignIn,
     StepUp, Rotate, SignOut, PageOnly
<1>3. Expire \/ UNCHANGED vars => UNCHANGED <<live, salts, blob>>
  BY DEF Expire, vars
<1> QED
  BY <1>1, <1>2, <1>3 DEF Next, VaultStep

\* The rekey goes on as it was, unless one begins or rows are staged.
RekeyStep ==
    \/ /\ rekey'.id = rekey.id /\ rekey'.base = rekey.base /\ staged' \subseteq staged
       /\ Counts' => Counts
    \/ ~Counts'
    \/ \E th \in Threads : RekeyBegin(th) \/ StageInsert(th)

LEMMA RekeySteps == TypeOK /\ Isolated /\ Isolated' /\ [Next]_vars => RekeyStep
<1> SUFFICES ASSUME TypeOK, Isolated, Isolated', [Next]_vars PROVE RekeyStep
  OBVIOUS
<1> USE DEF DatabaseRows, Elsewhere
<1>1. ASSUME UNCHANGED <<rekey, staged>>, \A o \in Threads : req'[o].st = "ready" => req[o].st = "ready"
      PROVE  RekeyStep
  BY <1>1 DEF RekeyStep, Counts
<1>2. {"ok", "no", "locked", "counted", "checked"} \subseteq Stages /\ "ready" \in Stages
  BY DEF Stages
<1>3. ASSUME NEW th \in Threads, NEW st \in Stages, Finish(th, st), st # "ready", UNCHANGED <<rekey, staged>>
      PROVE  RekeyStep
  BY <1>1, <1>3, FinishEach
<1>4. ASSUME NEW th \in Threads, CommitCheck(th) PROVE RekeyStep
  <2> DEFINE known == Active(req[th].id) /\ blob # 0
  <2>1. \A o \in Threads : req[o].st # "ready"
    BY <1>4 DEF CommitCheck, ForUpdateFree, Holds
  <2>2. CASE known /\ Matches
    BY <2>2, <1>4 DEF CommitCheck, RekeyStep, Counts, Active
  <2>3. CASE known /\ ~Matches
    <3>1. rekey' = NoRekey /\ Finish(th, "no")
      BY <1>4, <2>3 DEF CommitCheck, Verdict
    <3>2. \A o \in Threads : req'[o].st # "ready"
      BY <1>2, <2>1, <3>1, FinishEach
    <3> QED
      BY <3>1, <3>2 DEF RekeyStep, Counts, NoRekey
  <2>4. CASE ~known
    <3>1. Finish(th, "no") /\ UNCHANGED <<rekey, staged>>
      BY <1>4, <2>4 DEF CommitCheck, Verdict
    <3> QED
      BY <1>2, <1>3, <3>1
  <2> QED
    BY <2>2, <2>3, <2>4
<1>5. ASSUME NEW th \in Threads, CommitApply(th) \/ RekeyAbort(th) PROVE RekeyStep
  <2>1. rekey' = NoRekey /\ Finish(th, "ok")
    BY <1>5 DEF CommitApply, RekeyAbort
  <2>2. \A o \in Threads \ {th} : req[o].st # "ready"
    BY <1>5 DEF CommitApply, RekeyAbort, At, Isolated, Locking, Holds, ForUpdateFree
  <2>3. \A o \in Threads : req'[o].st # "ready"
    BY <1>2, <2>1, <2>2, FinishEach
  <2> QED
    BY <2>1, <2>3 DEF RekeyStep, Counts, NoRekey
<1>6. ASSUME NEW th \in Threads, SaveSession(th) \/ LoseAnswer(th) PROVE RekeyStep
  <2>1. UNCHANGED <<rekey, staged>>
    BY <1>6 DEF SaveSession, LoseAnswer
  <2>2. \A o \in Threads : req'[o].st = "ready" => req[o].st = "ready"
    <3>1. CASE SaveSession(th)
      BY <3>1 DEF SaveSession, TypeOK, Free
    <3>2. CASE LoseAnswer(th)
      BY <3>2 DEF LoseAnswer, TypeOK, Requests
    <3> QED
      BY <1>6, <3>1, <3>2
  <2> QED
    BY <1>1, <2>1, <2>2
<1>7. ASSUME NEW th \in Threads, \/ VaultWriteGuard(th) \/ PutCount(th) \/ StageCheck(th) \/ SetupCheck(th)
      PROVE  RekeyStep
  <2>1. PICK st \in Stages \ {"ready"} : Finish(th, st)
    BY <1>2, <1>7 DEF VaultWriteGuard, PutCount, StageCheck, SetupCheck, Verdict
  <2>2. UNCHANGED <<rekey, staged>>
    BY <1>7 DEF VaultWriteGuard, PutCount, StageCheck, SetupCheck
  <2> QED
    BY <1>3, <2>1, <2>2
<1>8. ASSUME NEW th \in Threads, \/ PutStore(th) \/ ResetDelete(th) \/ RekeyBeginLimited(th)
                                 \/ SetupStore(th) \/ RecoveryDelete(th) \/ Refuse(th)
      PROVE  RekeyStep
  <2>1. PICK st \in Stages \ {"ready"} : Finish(th, st)
    BY <1>2, <1>8 DEF PutStore, ResetDelete, RekeyBeginLimited, SetupStore, RecoveryDelete, Refuse
  <2>2. UNCHANGED <<rekey, staged>>
    BY <1>8 DEF PutStore, ResetDelete, RekeyBeginLimited, SetupStore, RecoveryDelete, Refuse
  <2> QED
    BY <1>3, <2>1, <2>2
<1>9. ASSUME NEW t \in Tabs, Flow(t) \/ User(t) PROVE RekeyStep
  <2>1. UNCHANGED <<rekey, staged>>
    BY <1>9 DEF Flow, User, Load, FetchAllRecords, NextCall, UploadRecords, DeleteAllRecords,
       SetupRecoveryKey, DeleteRecovery, Request, Unlock, LockVault, RecoverVault, Reload, SignIn,
       StepUp, Rotate, SignOut, PageOnly
  <2>2. ASSUME NEW o \in Threads, req'[o].st = "ready" PROVE req[o].st = "ready"
    <3>1. CASE UNCHANGED req
      BY <2>2, <3>1
    <3>2. CASE Reload(t)
      BY <2>2, <3>2 DEF Reload, TypeOK, Requests
    <3>3. ASSUME NEW op, NEW id, NEW rows, Send(t, op, rows, id) PROVE req[o].st = "ready"
      BY <2>2, <3>3 DEF Send, TypeOK
    <3> QED
      BY <1>9, <3>1, <3>2, <3>3 DEF Flow, User, Load, FetchAllRecords, NextCall, UploadRecords,
         DeleteAllRecords, SetupRecoveryKey, DeleteRecovery, Request, Unlock, LockVault,
         RecoverVault, SignIn, StepUp, Rotate, SignOut, PageOnly
  <2> QED
    BY <1>1, <2>1, <2>2
<1>10. CASE Expire
  BY <1>10 DEF Expire, TypeOK, Rekeys, RekeyStep, Counts
<1>11. CASE UNCHANGED vars
  BY <1>1, <1>11 DEF vars
<1> QED
  BY <1>4, <1>5, <1>6, <1>7, <1>8, <1>9, <1>10, <1>11 DEF Next, Handler, RekeyStep
-----------------------------------------------------------------------------
(* What is written *)

LEMMA UpsertSealed ==
    ASSUME NEW vault, NEW g \in Gens, NEW D \in SUBSET Docs, NEW v \in [D -> Vals]
    PROVE  Upsert(vault, Sealed(g, D, v)) =
             [b \in Blinds |-> IF b[1] = g /\ b[2] \in D THEN v[b[2]] ELSE vault[b]]
<1> DEFINE rows == Sealed(g, D, v)
<1>1. ASSUME NEW b \in Blinds
      PROVE  (IF \E r \in rows : r.new = b THEN (CHOOSE r \in rows : r.new = b).val ELSE vault[b])
               = IF b[1] = g /\ b[2] \in D THEN v[b[2]] ELSE vault[b]
  <2>1. b = <<b[1], b[2]>>
    BY DEF Blinds
  <2>2. \A r \in rows : r.new = b => b[1] = g /\ b[2] \in D /\ r.val = v[b[2]]
    BY DEF Sealed
  <2>3. ASSUME b[1] = g, b[2] \in D PROVE \E r \in rows : r.new = b
    <3>1. [old |-> <<g, b[2]>>, new |-> <<g, b[2]>>, val |-> v[b[2]]] \in rows
      BY <2>3 DEF Sealed
    <3> QED
      BY <2>1, <2>3, <3>1
  <2> HIDE DEF rows
  <2> QED
    BY <2>2, <2>3
<1> QED
  BY <1>1 DEF Upsert

LEMMA UpsertReencrypt ==
    ASSUME NEW vault \in Vaults, NEW k \in Gens, NEW g \in Gens, \A b \in Stored(vault) : b[1] = g
    PROVE  Upsert(Empty, Reencrypt(vault, k)) =
             [b \in Blinds |-> IF b[1] = k THEN vault[<<g, b[2]>>] ELSE NoVal]
<1> DEFINE rows == Reencrypt(vault, k)
<1>1. ASSUME NEW b \in Blinds
      PROVE  (IF \E r \in rows : r.new = b THEN (CHOOSE r \in rows : r.new = b).val ELSE Empty[b])
               = IF b[1] = k THEN vault[<<g, b[2]>>] ELSE NoVal
  <2>1. b = <<b[1], b[2]>> /\ <<g, b[2]>> \in Blinds /\ Empty[b] = NoVal
    BY DEF Blinds, Empty
  <2>2. \A c \in Stored(vault) : c = <<g, c[2]>>
    BY DEF Stored, Blinds
  <2>3. \A r \in rows : r.new = b => b[1] = k /\ r.val = vault[<<g, b[2]>>]
    BY <2>2 DEF Reencrypt
  <2>4. ASSUME b[1] = k, vault[<<g, b[2]>>] # NoVal PROVE \E r \in rows : r.new = b
    <3>1. <<g, b[2]>> \in Stored(vault)
      BY <2>1, <2>4 DEF Stored
    <3> DEFINE r == [old |-> <<g, b[2]>>, new |-> <<k, b[2]>>, val |-> vault[<<g, b[2]>>]]
    <3>2. r \in rows /\ r.new = b
      BY <2>1, <2>4, <3>1 DEF Reencrypt
    <3> QED
      BY <3>2
  <2> HIDE DEF rows
  <2> QED
    BY <2>1, <2>3, <2>4
<1> QED
  BY <1>1 DEF Upsert

\* What a commit that holds the row is about to write, and that one key opens what it replaces.
LEMMA Committing ==
    ASSUME RInv, NEW th \in Threads, req[th].st = "ready"
    PROVE  /\ req[th].id = rekey.id /\ rekey.id \in Gens /\ salts < rekey.id
           /\ staged = Reencrypt(live, rekey.id)
           /\ \E g \in Gens : g < rekey.id /\ \A b \in Stored(live) : b[1] = g
<1>1. Counts /\ rekey.base = live /\ req[th].id = rekey.id /\ staged = Reencrypt(live, rekey.id)
  BY DEF Counts, RInv, IInv, Isolated, Snapshot, Staging
<1>2. /\ rekey.id # 0 /\ salts < rekey.id /\ \A b \in Stored(live) : b[1] < rekey.id
      /\ staged # {} => OneKey(live)
  BY <1>1 DEF RInv, Newer
<1>3. rekey.id \in Gens /\ salts \in Gens
  BY <1>2 DEF RInv, IInv, TypeOK, Rekeys, Gens
<1>4. CASE Stored(live) = {}
  <2>1. 1 \in Gens /\ 1 < rekey.id
    BY <1>2, <1>3, ModelAssumption DEF Gens
  <2> QED
    BY <1>1, <1>2, <1>3, <1>4, <2>1
<1>5. CASE Stored(live) # {}
  <2>1. PICK c \in Stored(live) : TRUE
    BY <1>5
  <2>2. staged # {}
    BY <1>1, <2>1 DEF Reencrypt
  <2>3. PICK g \in Gens : \A b \in Stored(live) : b[1] = g
    BY <1>2, <2>2 DEF OneKey
  <2>4. g < rekey.id
    BY <1>2, <2>1, <2>3
  <2> QED
    BY <1>1, <1>2, <1>3, <2>3, <2>4
<1> QED
  BY <1>4, <1>5
-----------------------------------------------------------------------------
LEMMA GensGrow ==
    ASSUME TypeOK, [Next]_vars PROVE drawn'.gens \in {drawn.gens, drawn.gens + 1}
<1> USE DEF Elsewhere, TypeOK
<1>1. ASSUME NEW th \in Threads, RekeyBegin(th) PROVE drawn'.gens = drawn.gens + 1
  BY <1>1 DEF RekeyBegin
<1>2. ASSUME NEW th \in Threads, Handler(th) \/ Refuse(th) \/ LoseAnswer(th), ~RekeyBegin(th)
      PROVE  drawn' = drawn
  BY <1>2 DEF Handler, VaultWriteGuard, PutCount, PutStore, ResetDelete, RekeyBeginLimited,
     StageCheck, StageInsert, CommitCheck, CommitApply, RekeyAbort, SetupCheck, SetupStore,
     RecoveryDelete, SaveSession, Refuse, LoseAnswer
<1>3. ASSUME NEW t \in Tabs, Flow(t) \/ User(t) PROVE drawn'.gens = drawn.gens
  BY <1>3 DEF Flow, User, Load, FetchAllRecords, NextCall, UploadRecords, DeleteAllRecords,
     SetupRecoveryKey, DeleteRecovery, Request, Unlock, LockVault, RecoverVault, Reload, SignIn,
     StepUp, Rotate, SignOut, PageOnly
<1>4. Expire \/ UNCHANGED vars => drawn' = drawn
  BY DEF Expire, vars
<1> QED
  BY <1>1, <1>2, <1>3, <1>4 DEF Next

LEMMA NextKnown ==
    ASSUME RInv, [Next]_vars PROVE Known'
<1>1. TypeOK /\ Awaited /\ Known
  BY DEF RInv, IInv
<1>2. drawn.gens \in Nat /\ drawn'.gens \in Nat /\ drawn.gens <= drawn'.gens
  BY <1>1, GensGrow DEF TypeOK, Gens
<1>3. ASSUME NEW n \in Nat, n <= drawn.gens PROVE n <= drawn'.gens
  BY <1>2, <1>3
<1>4. ASSUME NEW t \in Tabs
      PROVE  /\ tab'[t].cache <= drawn'.gens
             /\ tab'[t].keys # 0 => tab'[t].keys = tab'[t].cache
  <2>1. PageStep(t) /\ tab[t] \in Pages /\ salts \in Nat
    BY <1>1, PagesStep DEF TypeOK, Gens
  <2>2. tab[t].cache \in Nat /\ tab[t].cache <= drawn.gens /\ salts <= drawn.gens
        /\ (tab[t].keys # 0 => tab[t].keys = tab[t].cache)
    BY <1>1, <2>1 DEF Known, Pages
  <2>3. tab'[t].cache \in {tab[t].cache, salts, 0}
    BY <2>1 DEF PageStep
  <2>4. tab'[t].cache <= drawn'.gens
    BY <1>2, <1>3, <2>1, <2>2, <2>3
  <2>5. tab'[t].keys # 0 => tab'[t].keys = tab'[t].cache
    BY <2>1, <2>2 DEF PageStep
  <2> QED
    BY <2>4, <2>5
<1>5. ASSUME NEW o \in Threads, req'[o].op = "put" PROVE SealedPut(req[o])'
  <2>1. CASE Kept(o)
    <3>1. SealedPut(req[o]) /\ req'[o].rows = req[o].rows
      BY <1>1, <1>5, <2>1 DEF Kept, Known
    <3>2. PICK g \in Gens, D \in SUBSET Docs :
             \E v \in [D -> Vals] : req[o].rows = Sealed(g, D, v) /\ g <= drawn.gens
      BY <3>1 DEF SealedPut
    <3>3. g <= drawn'.gens
      BY <1>3, <3>2 DEF Gens
    <3> QED
      BY <3>1, <3>2, <3>3 DEF SealedPut
  <2>2. CASE req'[o] = Free
    BY <1>5, <2>2 DEF Free
  <2>3. CASE Called(o)
    <3>1. PICK t \in Tabs : \E op \in Ops : \E id, rows :
             /\ req'[o] = [st |-> "sent", op |-> op, tab |-> t, sid |-> Jar(t), id |-> id, rows |-> rows]
             /\ Carries(t, op, id, rows)
      BY <2>3 DEF Called
    <3>2. /\ tab[t].keys # 0
          /\ \E D \in SUBSET Docs : \E v \in [D -> Vals] : req'[o].rows = Sealed(tab[t].keys, D, v)
      BY <1>5, <3>1 DEF Carries
    <3>3. tab[t].keys \in Gens /\ tab[t].keys <= drawn.gens
      BY <1>1, <3>2 DEF Known, TypeOK, Pages, Gens
    <3>4. tab[t].keys <= drawn'.gens
      BY <1>3, <3>3 DEF Gens
    <3> QED
      BY <3>2, <3>3, <3>4 DEF SealedPut
  <2> QED
    BY <1>1, <2>1, <2>2, <2>3, RequestStep
<1>6. salts \in Nat /\ salts <= drawn.gens /\ \A b \in Stored(live) : b[1] \in Nat /\ b[1] <= drawn.gens
  BY <1>1 DEF Known, TypeOK, Gens, Stored, Blinds
<1>7. salts' <= drawn'.gens /\ \A b \in Stored(live') : b[1] <= drawn'.gens
  <2>1. CASE UNCHANGED <<live, salts>>
    BY <1>3, <1>6, <2>1
  <2>2. ASSUME NEW th \in Threads, PutStore(th)
        PROVE  salts' <= drawn'.gens /\ \A b \in Stored(live') : b[1] <= drawn'.gens
    <3>1. SealedPut(req[th])
      BY <1>1, <2>2 DEF PutStore, At, Known
    <3>2. PICK g \in Gens, D \in SUBSET Docs :
             \E v \in [D -> Vals] : req[th].rows = Sealed(g, D, v) /\ g <= drawn.gens
      BY <3>1 DEF SealedPut
    <3>3. PICK v \in [D -> Vals] : req[th].rows = Sealed(g, D, v) /\ g <= drawn.gens
      BY <3>2
    <3>4. live' = [b \in Blinds |-> IF b[1] = g /\ b[2] \in D THEN v[b[2]] ELSE live[b]]
      <4>1. live' = Upsert(live, Sealed(g, D, v))
        BY <2>2, <3>3 DEF PutStore
      <4> QED
        BY <4>1, UpsertSealed
    <3>5. \A b \in Stored(live') : b[1] = g \/ b \in Stored(live)
      BY <3>4 DEF Stored
    <3>6. g <= drawn'.gens
      BY <1>3, <3>3 DEF Gens
    <3>7. salts' = salts
      BY <2>2 DEF PutStore
    <3> QED
      BY <1>3, <1>6, <3>5, <3>6, <3>7
  <2>3. ASSUME NEW th \in Threads, ResetDelete(th)
        PROVE  salts' <= drawn'.gens /\ \A b \in Stored(live') : b[1] <= drawn'.gens
    BY <1>3, <1>6, <2>3 DEF ResetDelete, Stored, Empty
  <2>4. ASSUME NEW th \in Threads, CommitApply(th)
        PROVE  salts' <= drawn'.gens /\ \A b \in Stored(live') : b[1] <= drawn'.gens
    <3>1. req[th].id = rekey.id /\ rekey.id \in Gens /\ staged = Reencrypt(live, rekey.id)
      BY <2>4, Committing DEF CommitApply, At
    <3>2. rekey.id <= drawn'.gens
      BY <1>3, <3>1 DEF RInv, IInv, Isolated, Drawn, Gens
    <3>3. PICK g \in Gens : \A b \in Stored(live) : b[1] = g
      BY <2>4, Committing DEF CommitApply, At
    <3>4. live \in Vaults
      BY <1>1 DEF TypeOK
    <3>5. live' = [b \in Blinds |-> IF b[1] = rekey.id THEN live[<<g, b[2]>>] ELSE NoVal]
      BY <2>4, <3>1, <3>3, <3>4, UpsertReencrypt DEF CommitApply
    <3>6. \A b \in Stored(live') : b[1] = rekey.id
      BY <3>5 DEF Stored
    <3>7. salts' = rekey.id
      BY <2>4, <3>1 DEF CommitApply
    <3> QED
      BY <3>2, <3>6, <3>7
  <2>5. ASSUME NEW th \in Threads, SetupStore(th) \/ RecoveryDelete(th)
        PROVE  UNCHANGED <<live, salts>>
    BY <2>5 DEF SetupStore, RecoveryDelete
  <2> QED
    BY <2>1, <2>2, <2>3, <2>4, <2>5, VaultSteps DEF VaultStep
<1> QED
  BY <1>4, <1>5, <1>7 DEF Known, Stored

LEMMA NextNewer ==
    ASSUME RInv, IInv', [Next]_vars PROVE Newer'
<1> SUFFICES ASSUME Counts' PROVE Newer'
  BY DEF Newer
<1>1. TypeOK /\ Awaited /\ Isolated /\ Isolated' /\ Known /\ Newer
  BY DEF RInv, IInv
<1>2. RekeyStep
  BY <1>1, RekeySteps
(* A page that is to stage rows of this rekey has fetched them under one key. *)
<1>3. ASSUME Counts, rekey'.id = rekey.id, rekey'.base = rekey.base
      PROVE  /\ \A t \in Tabs : tab'[t].at = "stage" /\ tab'[t].id = rekey'.id => OneKey(rekey'.base)
             /\ \A o \in Threads : req'[o].op = "stage" /\ req'[o].id = rekey'.id => OneKey(rekey'.base)
             /\ salts' = salts
  <2>1. rekey.base = live /\ rekey.id # 0
    BY <1>1, <1>3 DEF Isolated, Snapshot, Newer
  <2>2. ASSUME NEW t \in Tabs, tab'[t].at = "stage", tab'[t].id = rekey.id PROVE OneKey(rekey.base)
    <3>1. ToStage(t)
      BY <1>1, PagesStep
    <3>2. CASE tab[t].at = "stage"
      BY <1>1, <1>3, <2>2, <3>1, <3>2 DEF ToStage, Newer
    <3>3. CASE \A b \in Stored(live) : b[1] = tab[t].seed
      <4>1. CASE Stored(live) = {}
        <5>1. 1 \in Gens
          BY ModelAssumption DEF Gens
        <5> QED
          BY <2>1, <4>1, <5>1 DEF OneKey
      <4>2. ASSUME NEW c \in Stored(live) PROVE tab[t].seed \in Gens
        BY <3>3, <4>2 DEF Stored, Blinds
      <4> QED
        BY <2>1, <3>3, <4>1, <4>2 DEF OneKey
    <3> QED
      BY <2>2, <3>1, <3>2, <3>3 DEF ToStage
  <2>3. ASSUME NEW o \in Threads, req'[o].op = "stage", req'[o].id = rekey.id PROVE OneKey(rekey.base)
    <3>1. CASE Kept(o)
      BY <1>1, <1>3, <2>3, <3>1 DEF Kept, Newer
    <3>2. CASE req'[o] = Free
      BY <2>3, <3>2 DEF Free
    <3>3. CASE Called(o)
      <4>1. PICK t \in Tabs : tab[t].at = "stage" /\ tab[t].id = req'[o].id
        BY <2>3, <3>3 DEF Called, Carries
      <4> QED
        BY <1>1, <1>3, <2>3, <4>1 DEF Newer
    <3> QED
      BY <1>1, <3>1, <3>2, <3>3, RequestStep
  <2>4. salts' = salts
    <3>1. ASSUME NEW th \in Threads, CommitApply(th) PROVE FALSE
      BY <1>3, <2>1, <3>1 DEF CommitApply, NoRekey
    <3> QED
      BY <3>1, VaultSteps DEF VaultStep, PutStore, ResetDelete, SetupStore, RecoveryDelete
  <2> QED
    BY <1>3, <2>2, <2>3, <2>4
<1>4. ASSUME Counts, rekey'.id = rekey.id, rekey'.base = rekey.base,
             staged' # {} => OneKey(rekey.base)
      PROVE  Newer'
  <2>1. /\ rekey.id # 0 /\ salts < rekey.id
        /\ \A b \in Stored(rekey.base) : b[1] < rekey.id
    BY <1>1, <1>4 DEF Newer
  <2> QED
    BY <1>3, <1>4, <2>1 DEF Newer, OneKey, Stored
<1>5. CASE /\ rekey'.id = rekey.id /\ rekey'.base = rekey.base /\ staged' \subseteq staged
           /\ Counts' => Counts
  <2>1. Counts /\ (staged' # {} => OneKey(rekey.base))
    BY <1>1, <1>5 DEF Newer
  <2> QED
    BY <1>4, <1>5, <2>1
<1>6. ASSUME NEW th \in Threads, RekeyBegin(th) PROVE Newer'
  <2> DEFINE k == drawn.gens + 1
  <2>1. rekey' = [id |-> k, base |-> live, open |-> TRUE] /\ staged' = {} /\ tab' = tab /\ salts' = salts
    BY <1>6 DEF RekeyBegin
  <2>2. drawn.gens \in Nat /\ salts \in Nat /\ salts < k
    BY <1>1 DEF TypeOK, Gens, Known
  <2>3. \A b \in Stored(live) : b[1] < k
    BY <1>1, <2>2 DEF Known, Stored, Blinds, Gens
  <2>4. \A t \in Tabs : tab[t].id # k
    BY <1>1, <2>2 DEF Isolated, Drawn, TypeOK, Pages
  <2>5. \A o \in Threads : req'[o].op = "stage" => req'[o].id # k
    <3>1. ASSUME NEW o \in Threads, req'[o].op = "stage" PROVE req'[o].id = req[o].id /\ req[o].op = "stage"
      BY <1>1, <1>6, <3>1 DEF RekeyBegin, At, TypeOK, Requests
    <3>2. \A o \in Threads : req[o].op = "stage" => req[o].id \in Nat /\ req[o].id <= drawn.gens
      BY <1>1 DEF Isolated, Drawn, TypeOK, Requests
    <3> QED
      BY <2>2, <3>1, <3>2
  <2>6. rekey'.id = k /\ rekey'.base = live /\ k # 0
    BY <2>1, <2>2
  <2> HIDE DEF k
  <2> QED
    BY <2>1, <2>2, <2>3, <2>4, <2>5, <2>6 DEF Newer, Stored
<1>7. ASSUME NEW th \in Threads, StageInsert(th) PROVE Newer'
  <2>1. PICK st \in {"ok", "no"} : Finish(th, st)
    BY <1>7 DEF StageInsert, Verdict
  <2>2. rekey' = rekey
    BY <1>7 DEF StageInsert
  <2>3. \A o \in Threads : req'[o].st = "ready" => req[o].st = "ready"
    BY <1>1, <2>1, FinishEach DEF Stages
  <2>4. Counts
    BY <2>2, <2>3 DEF Counts
  <2>5. staged' # {} => OneKey(rekey.base)
    BY <1>1, <1>7, <2>4 DEF StageInsert, At, Newer
  <2> QED
    BY <1>4, <2>2, <2>4, <2>5
<1> QED
  BY <1>2, <1>5, <1>6, <1>7 DEF RekeyStep
-----------------------------------------------------------------------------
(* The refinement *)

LEMMA InitRInv == Init => RInv
<1> SUFFICES ASSUME Init PROVE RInv
  OBVIOUS
<1>1. IInv
  BY TypedInit, InitIsolated DEF IInv, Typed
<1>2. \A th \in Threads : req[th].st = "free" /\ req[th].op = "none"
  BY DEF Init, Free
<1>3. \A t \in Tabs : tab[t].cache = 0 /\ tab[t].keys = 0
  BY DEF Init, Page
<1>4. salts = 1 /\ drawn.gens = 1 /\ ~rekey.open /\ \A b \in Stored(live) : b[1] = 1
  BY DEF Init, NoRekey
<1>5. Known /\ Newer
  BY <1>2, <1>3, <1>4 DEF Known, Newer, Counts
<1> QED
  BY <1>1, <1>5 DEF RInv

LEMMA NextRInv == RInv /\ [Next]_vars => RInv'
<1> SUFFICES ASSUME RInv, [Next]_vars PROVE RInv'
  OBVIOUS
<1>1. IInv'
  BY TypedNext, NextIsolated DEF RInv, IInv, Typed
<1> QED
  BY <1>1, NextKnown, NextNewer DEF RInv

LEMMA InitRefines == Init => Contents!Init
BY ModelAssumption DEF Init, Vaults, Stored, Contents!Init, Contents!Blinds, Contents!Gens, Blinds, Gens

(* An upload is one batch under one key; a commit, which found the vault as begin did and
   every record staged once, is the re-encryption; and nothing else writes records. *)
LEMMA StepRefines ==
    ASSUME RInv, [Next]_vars PROVE [Contents!Next]_(Contents!contentsVars)
<1>1. TypeOK /\ Known
  BY DEF RInv, IInv
<1>2. ASSUME NEW th \in Threads, PutStore(th) PROVE Contents!Upload
  <2>1. SealedPut(req[th])
    BY <1>1, <1>2 DEF PutStore, At, Known
  <2>2. PICK g \in Gens, D \in SUBSET Docs :
           \E v \in [D -> Vals] : req[th].rows = Sealed(g, D, v)
    BY <2>1 DEF SealedPut
  <2>3. PICK v \in [D -> Vals] : req[th].rows = Sealed(g, D, v)
    BY <2>2
  <2>4. live' = [b \in Blinds |-> IF b[1] = g /\ b[2] \in D THEN v[b[2]] ELSE live[b]]
    <3>1. live' = Upsert(live, Sealed(g, D, v))
      BY <1>2, <2>3 DEF PutStore
    <3> QED
      BY <3>1, UpsertSealed
  <2>5. UNCHANGED <<salts, blob>>
    BY <1>2 DEF PutStore
  <2> QED
    BY <2>4, <2>5 DEF Contents!Upload, Contents!Gens, Contents!Blinds, Gens, Blinds
<1>3. ASSUME NEW th \in Threads, ResetDelete(th) PROVE Contents!Clear
  BY <1>3 DEF ResetDelete, Contents!Clear, Contents!Empty, Contents!Blinds, Contents!Gens,
     Empty, Blinds, Gens
<1>4. ASSUME NEW th \in Threads, CommitApply(th) PROVE Contents!Rekey
  <2> DEFINE k == rekey.id
  <2>1. /\ req[th].id = k /\ k \in Gens /\ salts < k /\ staged = Reencrypt(live, k)
        /\ \E g \in Gens : g < k /\ \A b \in Stored(live) : b[1] = g
    BY <1>4, Committing DEF CommitApply, At
  <2>2. PICK g \in Gens : g < k /\ \A b \in Stored(live) : b[1] = g
    BY <2>1
  <2>3. live' = [b \in Blinds |-> IF b[1] = k THEN live[<<g, b[2]>>] ELSE NoVal]
    BY <1>1, <1>4, <2>1, <2>2, UpsertReencrypt DEF CommitApply, TypeOK
  <2>4. salts' = k /\ blob' = k
    BY <1>4, <2>1 DEF CommitApply
  <2>5. k > salts /\ k > g /\ \A b \in Blinds : live[b] # NoVal => b[1] = g
    BY <1>1, <2>1, <2>2 DEF Stored, TypeOK, Gens
  <2> HIDE DEF k
  <2> QED
    BY <2>1, <2>2, <2>3, <2>4, <2>5 DEF Contents!Rekey, Contents!Gens, Contents!Blinds, Gens, Blinds
<1>5. ASSUME NEW th \in Threads, SetupStore(th) \/ RecoveryDelete(th) PROVE Contents!SetRecovery
  <2>1. req[th].id \in 0..MaxGen /\ 0 \in 0..MaxGen
    BY <1>1, ModelAssumption DEF TypeOK, Requests
  <2> QED
    BY <1>5, <2>1 DEF SetupStore, RecoveryDelete, Contents!SetRecovery
<1>6. UNCHANGED <<live, salts, blob>> => UNCHANGED Contents!contentsVars
  BY DEF Contents!contentsVars
<1> QED
  BY <1>2, <1>3, <1>4, <1>5, <1>6, VaultSteps DEF VaultStep, Contents!Next

\* In every reachable state what is sealed is so under keys that have been drawn, and the keys
\* of a rekey that counts are newer than any of its snapshot's, all of which one key opens.
THEOREM KeysInvariant == Spec => []RInv
BY InitRInv, NextRInv, PTL DEF Spec

\* However the calls of begin, stage and commit are chunked, retried, raced with uploads and
\* other recoveries, expired or cut off, the vault's records, salts and recovery blob change
\* as VaultContents says: a rekey is one step that loses, adds and mixes up nothing.
THEOREM RekeyImplementsContents == Spec => ImplementsContents
<1>1. Init => Contents!Init
  BY InitRefines
<1>2. RInv /\ [Next]_vars => [Contents!Next]_(Contents!contentsVars)
  BY StepRefines
<1> QED
  BY <1>1, <1>2, KeysInvariant, PTL DEF Spec, ImplementsContents, Contents!Spec
=============================================================================
