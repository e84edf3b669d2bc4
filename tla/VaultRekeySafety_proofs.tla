----------------------- MODULE VaultRekeySafety_proofs -----------------------
(***************************************************************************)
(* Why a rekey is isolated from everything else that happens to a vault:   *)
(* the row lock and the guards keep the snapshot current, and the numbers  *)
(* and constraints keep the staged rows those of the snapshot, although    *)
(* they are inserted without a lock.                                       *)
(***************************************************************************)
EXTENDS VaultRekey_proofs

(* The identity row: a commit that has checked holds it alone, and the writes that hold it
   in share mode started with no rekey open. *)
Locking ==
    \A th \in Threads :
        /\ req[th].st = "ready" => \A o \in Threads \ {th} : ~Holds(o, {"locked", "counted", "ready"})
        /\ Holds(th, {"locked", "counted"}) => ~rekey.open

(* A rekey counts until it expires, or until the commit that found it open is done. *)
Counts == rekey.open \/ \E th \in Threads : req[th].st = "ready"

Snapshot ==
    /\ Counts => rekey.base = live
    /\ \A th \in Threads : req[th].st = "ready" => req[th].id = rekey.id

(* Numbers are drawn in order, so the next rekey's is not yet in anybody's memory. *)
Drawn ==
    /\ rekey.id <= drawn.gens
    /\ \A th \in Threads : req[th].op \notin {"put", "setup"} => req[th].id <= drawn.gens
    /\ \A t \in Tabs : tab[t].id <= drawn.gens

(* Whoever carries rows for this rekey carries rows of its snapshot. *)
Fitting(id, rows) == id = rekey.id => rows \subseteq Reencrypt(rekey.base, rekey.id)
Staging ==
    /\ Counts => /\ staged \subseteq Reencrypt(rekey.base, rekey.id)
                 /\ \A th \in Threads : req[th].op = "stage" => Fitting(req[th].id, req[th].rows)
                 /\ \A t \in Tabs : tab[t].at = "stage" => Fitting(tab[t].id, tab[t].todo)
    /\ \A th \in Threads :
          req[th].st = "ready" => staged = Reencrypt(rekey.base, rekey.id)

(* A page waits for one answer at a time, and a stage call is answered where it was made. *)
Awaited ==
    \A th \in Threads, t \in Tabs :
        req[th].tab = t => /\ req[th].op = "stage" => tab[t].at = "stage"
                           /\ \A o \in Threads : req[o].tab = t => o = th

Isolated == Locking /\ Snapshot /\ Drawn /\ Staging
-----------------------------------------------------------------------------
LEMMA Uncounted ==
    ASSUME ~Counts', Locking', Drawn' PROVE Isolated'
BY DEF Isolated, Counts, Snapshot, Staging

\* Steps that take no lock and leave the vault, the rekey and the staged rows alone: what
\* they give a request or a page must fit.
LEMMA Quiet ==
    ASSUME TypeOK, Isolated,
           UNCHANGED <<live, staged>>, rekey'.id = rekey.id, rekey'.base = rekey.base,
           rekey'.open => rekey.open, drawn'.gens = drawn.gens,
           \A o \in Threads :
              /\ req'[o].st \in {"locked", "counted"} => req[o].st \in {"locked", "counted"}
              /\ req'[o].st = "ready" => req[o].st = "ready" /\ req'[o].id = req[o].id
              /\ req'[o].op \notin {"put", "setup"} => req'[o].id <= drawn.gens
              /\ Counts /\ req'[o].op = "stage" => Fitting(req'[o].id, req'[o].rows),
           \A t \in Tabs :
              /\ tab'[t].id <= drawn.gens
              /\ Counts /\ tab'[t].at = "stage" => Fitting(tab'[t].id, tab'[t].todo)
    PROVE  Isolated'
<1>1. Counts' => Counts
  BY DEF Counts
<1>2. Locking'
  BY DEF Isolated, Locking, Holds
<1>3. Snapshot'
  BY <1>1 DEF Isolated, Snapshot
<1>4. Drawn'
  BY DEF Isolated, Drawn
<1>5. Staging'
  <2>1. Reencrypt(rekey.base, rekey.id)' = Reencrypt(rekey.base, rekey.id)
    BY DEF Reencrypt
  <2>2. \A th \in Threads : req'[th].st = "ready" => staged' = Reencrypt(rekey.base, rekey.id)'
    BY <2>1 DEF Isolated, Staging
  <2>3. ASSUME Counts' PROVE staged' \subseteq Reencrypt(rekey.base, rekey.id)'
    BY <1>1, <2>1, <2>3 DEF Isolated, Staging
  <2>4. ASSUME Counts', NEW th \in Threads, req'[th].op = "stage"
        PROVE  Fitting(req[th].id, req[th].rows)'
    BY <1>1, <2>1, <2>4 DEF Fitting
  <2>5. ASSUME Counts', NEW t \in Tabs, tab'[t].at = "stage"
        PROVE  Fitting(tab[t].id, tab[t].todo)'
    BY <1>1, <2>1, <2>5 DEF Fitting
  <2> QED
    BY <2>2, <2>3, <2>4, <2>5 DEF Staging
<1> QED
  BY <1>2, <1>3, <1>4, <1>5 DEF Isolated

LEMMA FinishEach ==
    ASSUME TypeOK, NEW th \in Threads, NEW st \in Stages, Finish(th, st), NEW o \in Threads
    PROVE  /\ req'[o].op = req[o].op /\ req'[o].id = req[o].id /\ req'[o].rows = req[o].rows
           /\ req'[o].tab = req[o].tab
           /\ req'[o].st = IF o = th THEN st ELSE req[o].st
<1>1. CASE o = th
  BY <1>1, FinishKeeps
<1>2. CASE o # th
  <2>1. req'[o] = req[o]
    BY <1>2, FinishKeeps
  <2> QED
    BY <1>2, <2>1
<1> QED
  BY <1>1, <1>2

LEMMA QuietFinish ==
    ASSUME TypeOK, Isolated, UNCHANGED <<live, rekey, staged, tab>>, drawn'.gens = drawn.gens,
           NEW th \in Threads, NEW st \in Stages, Finish(th, st),
           st \notin {"locked", "ready"}, st = "counted" => req[th].st = "locked"
    PROVE  Isolated'
<1>1. ASSUME NEW o \in Threads
      PROVE  /\ req'[o].op = req[o].op /\ req'[o].id = req[o].id /\ req'[o].rows = req[o].rows
             /\ req'[o].st \in {"locked", "counted"} => req[o].st \in {"locked", "counted"}
             /\ req'[o].st = "ready" => req[o].st = "ready"
  BY FinishEach
<1>2. \A o \in Threads : /\ req'[o].op \notin {"put", "setup"} => req'[o].id <= drawn.gens
                         /\ Counts /\ req'[o].op = "stage" => Fitting(req'[o].id, req'[o].rows)
  BY <1>1 DEF Isolated, Drawn, Staging
<1>3. \A t \in Tabs : /\ tab'[t].id <= drawn.gens
                      /\ Counts /\ tab'[t].at = "stage" => Fitting(tab'[t].id, tab'[t].todo)
  BY DEF Isolated, Drawn, Staging
<1> QED
  BY <1>1, <1>2, <1>3, Quiet

LEMMA QuietPage ==
    ASSUME TypeOK, Isolated, UNCHANGED <<live, rekey, staged, req>>, drawn'.gens = drawn.gens,
           NEW t \in Tabs, NEW page, tab' = [tab EXCEPT ![t] = page],
           page.id <= drawn.gens, Counts /\ page.at = "stage" => Fitting(page.id, page.todo)
    PROVE  Isolated'
<1>1. \A o \in Threads : /\ req[o].op \notin {"put", "setup"} => req[o].id <= drawn.gens
                         /\ Counts /\ req[o].op = "stage" => Fitting(req[o].id, req[o].rows)
  BY DEF Isolated, Drawn, Staging
<1>2. ASSUME NEW o \in Tabs
      PROVE  /\ tab'[o].id <= drawn.gens
             /\ Counts /\ tab'[o].at = "stage" => Fitting(tab'[o].id, tab'[o].todo)
  <2>1. CASE o = t
    BY <2>1 DEF TypeOK
  <2>2. CASE o # t
    BY <2>2 DEF TypeOK, Isolated, Drawn, Staging
  <2> QED
    BY <2>1, <2>2
<1> QED
  BY <1>1, <1>2, Quiet

\* Nobody at the row: nothing to lock out.
LEMMA NobodyLocks ==
    ASSUME \A o \in Threads : req'[o].st \notin {"locked", "counted", "ready"}
    PROVE  Locking'
BY DEF Locking, Holds

LEMMA DrawnFinish ==
    ASSUME TypeOK, Isolated, NEW th \in Threads, NEW st \in Stages, Finish(th, st),
           UNCHANGED <<drawn, tab>>, rekey'.id <= drawn.gens
    PROVE  Drawn'
<1>1. ASSUME NEW o \in Threads PROVE req'[o].op = req[o].op /\ req'[o].id = req[o].id
  BY FinishEach
<1> QED
  BY <1>1 DEF Isolated, Drawn

(* The handlers that take or hold the row. *)
LEMMA GuardIsolated ==
    ASSUME TypeOK, Isolated, NEW th \in Threads, VaultWriteGuard(th)
    PROVE  Isolated'
<1> USE DEF DatabaseRows, Elsewhere
<1> DEFINE passes == ~rekey.open /\ req[th].sid \notin revoked
<1>1. CASE ~passes
  <2>1. Finish(th, "no") /\ "no" \in Stages
    BY <1>1 DEF VaultWriteGuard, Verdict, Stages
  <2> QED
    BY <2>1, QuietFinish DEF VaultWriteGuard
<1>2. CASE passes
  <2>1. Finish(th, "locked") /\ "locked" \in Stages
    BY <1>2 DEF VaultWriteGuard, Verdict, Stages
  <2>2. \A o \in Threads : req'[o].st # "ready"
    BY <2>1, FinishEach DEF VaultWriteGuard, ForShareFree, Holds
  <2>3. ~Counts' /\ Locking'
    BY <1>2, <2>2 DEF VaultWriteGuard, Counts, Locking
  <2>4. Drawn'
    BY <2>1, DrawnFinish DEF VaultWriteGuard, Isolated, Drawn
  <2> QED
    BY <2>3, <2>4, Uncounted
<1> QED
  BY <1>1, <1>2

LEMMA StoreIsolated ==
    ASSUME TypeOK, Isolated, NEW th \in Threads, PutStore(th) \/ ResetDelete(th)
    PROVE  Isolated'
<1>1. Finish(th, "ok") /\ "ok" \in Stages /\ UNCHANGED <<rekey, drawn, tab>>
  BY DEF PutStore, ResetDelete, Stages, Elsewhere
<1>2. Holds(th, {"locked", "counted"})
  BY DEF PutStore, ResetDelete, At, Holds
<1>3. ~rekey.open /\ \A o \in Threads : req[o].st # "ready"
  BY <1>2 DEF Isolated, Locking, Holds
<1>4. \A o \in Threads : req'[o].st # "ready"
  BY <1>1, <1>3, FinishEach
<1>5. ~Counts' /\ Locking'
  BY <1>1, <1>3, <1>4 DEF Counts, Locking
<1>6. Drawn'
  BY <1>1, DrawnFinish DEF Isolated, Drawn
<1> QED
  BY <1>5, <1>6, Uncounted

LEMMA BeginIsolated ==
    ASSUME TypeOK, Isolated, NEW th \in Threads, RekeyBegin(th)
    PROVE  Isolated'
<1> DEFINE k == drawn.gens + 1
<1>1. req \in [Threads -> Requests] /\ drawn.gens \in Nat /\ drawn'.gens = k
  BY DEF RekeyBegin, TypeOK, Gens
<1>2. rekey' = [id |-> k, base |-> live, open |-> TRUE] /\ staged' = {} /\ live' = live /\ tab' = tab
  BY DEF RekeyBegin
<1>3. ASSUME NEW o \in Threads
      PROVE  /\ req'[o].st \notin {"locked", "counted", "ready"}
             /\ req'[o].op = req[o].op
             /\ req'[o].id = IF o = th THEN k ELSE req[o].id
  <2>1. CASE o = th
    BY <1>1, <2>1 DEF RekeyBegin, Requests
  <2>2. CASE o # th
    BY <1>1, <2>2 DEF RekeyBegin, Requests, ForUpdateFree, Holds
  <2> QED
    BY <2>1, <2>2
<1>4. Locking'
  BY <1>3, NobodyLocks
<1>5. Snapshot'
  BY <1>2, <1>3 DEF Snapshot
<1>6. /\ \A o \in Threads : req[o].op \notin {"put", "setup"} => req[o].id \in Nat /\ req[o].id < k
      /\ \A t \in Tabs : tab[t].id \in Nat /\ tab[t].id < k
  BY <1>1 DEF Isolated, Drawn, TypeOK, Requests, Pages
<1>7. Drawn'
  BY <1>1, <1>2, <1>3, <1>6 DEF Drawn
<1>8. Staging'
  <2>1. req[th].op = "begin"
    BY DEF RekeyBegin, At
  <2>2. \A o \in Threads : req'[o].op = "stage" => req'[o].id # rekey'.id
    BY <1>2, <1>3, <1>6, <2>1
  <2>3. \A t \in Tabs : tab'[t].id # rekey'.id
    BY <1>2, <1>6
  <2> QED
    BY <1>2, <1>3, <2>2, <2>3 DEF Staging, Fitting
<1> QED
  BY <1>4, <1>5, <1>7, <1>8 DEF Isolated

LEMMA InsertIsolated ==
    ASSUME TypeOK, Isolated, NEW th \in Threads, StageInsert(th)
    PROVE  Isolated' /\ (\A o \in Threads : req[o].st = "ready" => staged' = staged)
<1>1. PICK st \in {"ok", "no"} : Finish(th, st)
  BY DEF StageInsert, Verdict
<1>2. UNCHANGED <<live, rekey, tab, drawn>> /\ st \in Stages
  BY DEF StageInsert, Elsewhere, Stages
<1>3. CASE staged' = staged
  BY <1>1, <1>2, <1>3, QuietFinish
<1>4. CASE staged' # staged
  <2>1. /\ req[th].op = "stage" /\ req[th].id = rekey.id
        /\ staged' = staged \cup req[th].rows
        /\ \A r \in req[th].rows, s \in staged : r.new # s.new
    BY <1>4 DEF StageInsert, At
  <2>2. \A o \in Threads : /\ req'[o].op = req[o].op /\ req'[o].id = req[o].id
                           /\ req'[o].rows = req[o].rows
                           /\ req'[o].st = IF o = th THEN st ELSE req[o].st
    BY <1>1, <1>2, FinishEach
  <2>3. Counts => req[th].rows \subseteq Reencrypt(rekey.base, rekey.id)
    BY <2>1 DEF Isolated, Staging, Fitting
  <2>4. \A o \in Threads : req[o].st # "ready"
    <3>1. SUFFICES ASSUME NEW o \in Threads, req[o].st = "ready" PROVE FALSE
      OBVIOUS
    <3>2. Counts /\ staged = Reencrypt(rekey.base, rekey.id)
      BY <3>1 DEF Counts, Isolated, Staging
    <3>3. req[th].rows = {}
      BY <2>1, <2>3, <3>2
    <3> QED
      BY <1>4, <2>1, <3>3
  <2>5. Counts' = Counts /\ \A o \in Threads : req'[o].st # "ready"
    BY <1>2, <2>2, <2>4 DEF Counts
  <2>6. Locking' /\ Snapshot' /\ Drawn'
    BY <1>2, <2>2, <2>5 DEF Isolated, Locking, Holds, Snapshot, Counts, Drawn
  <2>7. Staging'
    <3>1. Reencrypt(rekey.base, rekey.id)' = Reencrypt(rekey.base, rekey.id)
      BY <1>2 DEF Reencrypt
    <3> QED
      BY <1>2, <2>1, <2>2, <2>3, <2>5, <3>1 DEF Isolated, Staging, Fitting
  <2> QED
    BY <2>4, <2>6, <2>7 DEF Isolated
<1> QED
  BY <1>3, <1>4

\* Re-encryption makes one row per record, so as many staged rows as records are all of them.
LEMMA ReencryptCardinality ==
    ASSUME NEW vault, NEW k
    PROVE  /\ IsFiniteSet(Stored(vault)) /\ IsFiniteSet(Reencrypt(vault, k))
           /\ Cardinality(Reencrypt(vault, k)) <= Cardinality(Stored(vault))
<1>1. IsFiniteSet(Gens)
  BY FS_Interval, ModelAssumption DEF Gens
<1>2. IsFiniteSet(Blinds)
  BY <1>1, FS_Product, ModelAssumption DEF Blinds
<1>3. IsFiniteSet(Stored(vault))
  BY <1>2, FS_Subset DEF Stored
<1> DEFINE row(b) == [old |-> b, new |-> <<k, b[2]>>, val |-> vault[b]]
           f == [b \in Stored(vault) |-> row(b)]
<1>4. f \in Surjection(Stored(vault), Reencrypt(vault, k))
  BY DEF Surjection, Reencrypt
<1> QED
  BY <1>3, <1>4, FS_Surjection

LEMMA StagedAll ==
    ASSUME NEW vault, NEW k, staged \subseteq Reencrypt(vault, k),
           Cardinality(staged) = Cardinality(Stored(vault))
    PROVE  staged = Reencrypt(vault, k)
<1> DEFINE R == Reencrypt(vault, k)
<1>1. IsFiniteSet(R) /\ Cardinality(R) <= Cardinality(Stored(vault)) /\ IsFiniteSet(Stored(vault))
  BY ReencryptCardinality
<1>2. Cardinality(staged) <= Cardinality(R) /\ (Cardinality(staged) = Cardinality(R) => staged = R)
  BY <1>1, FS_Subset
<1>3. Cardinality(R) \in Nat /\ Cardinality(Stored(vault)) \in Nat
  BY <1>1, FS_CardinalityType
<1> QED
  BY <1>1, <1>2, <1>3

LEMMA CheckIsolated ==
    ASSUME TypeOK, Isolated, NEW th \in Threads, CommitCheck(th)
    PROVE  Isolated'
<1> DEFINE known == Active(req[th].id) /\ blob # 0
           passes == known /\ Matches /\ ReplacesAll
<1>1. UNCHANGED <<live, tab, drawn>> /\ {"no", "ready"} \subseteq Stages
  BY DEF CommitCheck, Elsewhere, Stages
<1>2. \A o \in Threads : req[o].st \notin {"locked", "counted", "ready"}
  BY DEF CommitCheck, ForUpdateFree, Holds
<1>3. CASE known /\ ~Matches
  <2>1. Finish(th, "no") /\ rekey' = NoRekey
    BY <1>3 DEF CommitCheck, Verdict
  <2>2. \A o \in Threads : req'[o].st \notin {"locked", "counted", "ready"}
    BY <1>1, <1>2, <2>1, FinishEach
  <2>3. ~Counts' /\ Locking'
    BY <2>1, <2>2, NobodyLocks DEF Counts, NoRekey
  <2>4. Drawn'
    BY <1>1, <2>1, DrawnFinish DEF NoRekey, TypeOK, Gens
  <2> QED
    BY <2>3, <2>4, Uncounted
<1>4. CASE ~(known /\ ~Matches) /\ ~passes
  <2>1. Finish(th, "no") /\ UNCHANGED <<rekey, staged>>
    BY <1>4 DEF CommitCheck, Verdict
  <2> QED
    BY <1>1, <2>1, QuietFinish
<1>5. CASE passes
  <2>1. Finish(th, "ready") /\ UNCHANGED <<rekey, staged>> /\ req[th].op = "commit"
    BY <1>5 DEF CommitCheck, Verdict, At
  <2>2. \A o \in Threads : /\ req'[o].op = req[o].op /\ req'[o].id = req[o].id
                           /\ req'[o].rows = req[o].rows
                           /\ req'[o].st = IF o = th THEN "ready" ELSE req[o].st
    BY <1>1, <2>1, FinishEach
  <2>3. Counts /\ rekey.id = req[th].id /\ live = rekey.base
    BY <1>5 DEF Active, Matches, Counts
  <2>4. staged = Reencrypt(rekey.base, rekey.id)
    <3>1. staged \subseteq Reencrypt(rekey.base, rekey.id)
      BY <2>3 DEF Isolated, Staging
    <3>2. Cardinality(staged) = Cardinality(Stored(rekey.base))
      BY <1>5, <2>3 DEF ReplacesAll
    <3> QED
      BY <3>1, <3>2, StagedAll
  <2>5. Locking'
    BY <1>2, <2>2 DEF Locking, Holds
  <2>6. Snapshot'
    BY <1>1, <1>2, <2>1, <2>2, <2>3 DEF Snapshot
  <2>7. Drawn'
    BY <1>1, <2>1, DrawnFinish DEF Isolated, Drawn
  <2>8. Staging'
    <3>1. Reencrypt(rekey.base, rekey.id)' = Reencrypt(rekey.base, rekey.id)
      BY <2>1 DEF Reencrypt
    <3> QED
      BY <1>1, <2>1, <2>2, <2>3, <2>4, <3>1 DEF Isolated, Staging, Fitting
  <2> QED
    BY <2>5, <2>6, <2>7, <2>8 DEF Isolated
<1> QED
  BY <1>3, <1>4, <1>5

LEMMA ClosedIsolated ==
    ASSUME TypeOK, Isolated, NEW th \in Threads, CommitApply(th) \/ RekeyAbort(th)
    PROVE  Isolated'
<1>1. /\ Finish(th, "ok") /\ "ok" \in Stages /\ UNCHANGED <<tab, drawn>>
      /\ rekey' = NoRekey
  BY DEF CommitApply, RekeyAbort, Elsewhere, Stages
<1>2. \A o \in Threads \ {th} : req[o].st \notin {"locked", "counted", "ready"}
  <2>1. CASE CommitApply(th)
    BY <2>1 DEF CommitApply, At, Isolated, Locking, Holds
  <2>2. CASE RekeyAbort(th)
    BY <2>2 DEF RekeyAbort, ForUpdateFree, Holds
  <2> QED
    BY <2>1, <2>2
<1>3. \A o \in Threads : req'[o].st \notin {"locked", "counted", "ready"}
  BY <1>1, <1>2, FinishEach
<1>4. ~Counts' /\ Locking'
  BY <1>1, <1>3, NobodyLocks DEF Counts, NoRekey
<1>5. Drawn'
  BY <1>1, DrawnFinish DEF NoRekey, TypeOK, Gens
<1> QED
  BY <1>4, <1>5, Uncounted

LEMMA ExpireIsolated == ASSUME TypeOK, Isolated, Expire PROVE Isolated'
<1>1. /\ UNCHANGED <<live, staged, req, tab, drawn>>
      /\ rekey'.id = rekey.id /\ rekey'.base = rekey.base /\ ~rekey'.open
  BY DEF Expire, Elsewhere, TypeOK, Rekeys
<1>2. \A o \in Threads : /\ req[o].op \notin {"put", "setup"} => req[o].id <= drawn.gens
                         /\ Counts /\ req[o].op = "stage" => Fitting(req[o].id, req[o].rows)
  BY DEF Isolated, Drawn, Staging
<1>3. \A t \in Tabs : /\ tab[t].id <= drawn.gens
                      /\ Counts /\ tab[t].at = "stage" => Fitting(tab[t].id, tab[t].todo)
  BY DEF Isolated, Drawn, Staging
<1> QED
  BY <1>1, <1>2, <1>3, Quiet
-----------------------------------------------------------------------------
(* Pages and their answers *)

LEMMA AwaitedSame ==
    ASSUME Awaited, UNCHANGED tab,
           \A th \in Threads : req'[th].tab = req[th].tab /\ req'[th].op = req[th].op
    PROVE  Awaited'
BY DEF Awaited

LEMMA AwaitedFinish ==
    ASSUME TypeOK, Awaited, NEW th \in Threads, NEW st \in Stages, Finish(th, st), UNCHANGED tab
    PROVE  Awaited'
BY FinishEach, AwaitedSame

LEMMA AwaitedPage ==
    ASSUME TypeOK, Awaited, NEW t \in Tabs, ~Waiting(t), UNCHANGED req,
           NEW page, tab' = [tab EXCEPT ![t] = page]
    PROVE  Awaited'
<1>1. \A o \in Tabs \ {t} : tab'[o] = tab[o]
  BY DEF TypeOK
<1>2. \A th \in Threads : req[th].tab # t
  BY DEF Waiting
<1> QED
  BY <1>1, <1>2 DEF Awaited

\* An answer, or the loss of one: its page goes on, and nothing else was waiting there.
LEMMA AwaitedAnswer ==
    ASSUME TypeOK, Awaited, NEW th \in Threads, req'[th].tab = NoTab,
           \A o \in Threads \ {th} : req'[o] = req[o],
           \A t \in Tabs : t # req[th].tab => tab'[t] = tab[t]
    PROVE  Awaited'
<1>1. \A t \in Tabs : req'[th].tab # t
  BY ModelAssumption
<1> QED
  BY <1>1 DEF Awaited

LEMMA AwaitedSend ==
    ASSUME TypeOK, Awaited, NEW t \in Tabs, ~Waiting(t), NEW op, NEW rows, NEW id,
           Send(t, op, rows, id), \A o \in Tabs \ {t} : tab'[o] = tab[o],
           op = "stage" => tab'[t].at = "stage"
    PROVE  Awaited'
<1>1. PICK th \in Threads : req' = [req EXCEPT ![th] = [st |-> "sent", op |-> op, tab |-> t,
                                          sid |-> Jar(t), id |-> id, rows |-> rows]]
  BY DEF Send
<1>2. req'[th].tab = t /\ req'[th].op = op /\ \A o \in Threads \ {th} : req'[o] = req[o]
  BY <1>1 DEF TypeOK
<1>3. \A o \in Threads : req[o].tab # t
  BY DEF Waiting
<1> QED
  BY <1>2, <1>3 DEF Awaited

LEMMA ContinueFits ==
    ASSUME NEW page \in Pages, NEW op \in Ops, NEW good \in BOOLEAN, NEW rows,
           NEW id \in 0..MaxGen, NEW n \in Nat, page.id <= n, op = "begin" /\ good => id <= n,
           op = "stage" => page.at = "stage",
           Counts /\ page.at = "stage" => Fitting(page.id, page.todo)
    PROVE  LET next == Continue(page, op, good, rows, id)
           IN  next.id <= n /\ (Counts /\ next.at = "stage" => Fitting(next.id, next.todo))
<1>1. CASE op = "begin"
  BY <1>1 DEF Continue, Pages
<1>2. CASE op = "stage" /\ good
  <2>1. Continue(page, op, good, rows, id).id = page.id
        /\ Continue(page, op, good, rows, id).todo = page.todo \ rows
    BY <1>2 DEF Continue, Pages
  <2> QED
    BY <1>2, <2>1 DEF Fitting
<1>3. CASE op = "stage" /\ ~good
  BY <1>3 DEF Continue, Pages
<1>4. CASE op = "commit"
  BY <1>4 DEF Continue, Pages, Page
<1>5. CASE op \notin {"begin", "stage", "commit"}
  BY <1>5 DEF Continue, Pages
<1> QED
  BY <1>1, <1>2, <1>3, <1>4, <1>5

\* The page that an answer, good or lost, leaves behind.
LEMMA AnsweredFits ==
    ASSUME TypeOK, Awaited, Isolated, NEW th \in Threads, req[th].tab \in Tabs,
           NEW good \in BOOLEAN, NEW page,
           page = Continue(tab[req[th].tab], req[th].op, good, req[th].rows, req[th].id)
    PROVE  page.id <= drawn.gens /\ (Counts /\ page.at = "stage" => Fitting(page.id, page.todo))
<1> DEFINE t == req[th].tab
<1>1. /\ tab[t] \in Pages /\ req[th].op \in Ops /\ req[th].id \in 0..MaxGen
      /\ drawn.gens \in Nat
  BY DEF TypeOK, Requests, Gens
<1>2. tab[t].id <= drawn.gens /\ (req[th].op = "begin" => req[th].id <= drawn.gens)
  BY DEF Isolated, Drawn
<1>3. req[th].op = "stage" => tab[t].at = "stage"
  BY DEF Awaited
<1>4. Counts /\ tab[t].at = "stage" => Fitting(tab[t].id, tab[t].todo)
  BY DEF Isolated, Staging
<1> QED
  BY <1>1, <1>2, <1>3, <1>4, ContinueFits

LEMMA AnswerIsolated ==
    ASSUME TypeOK, Awaited, Isolated, NEW th \in Threads, SaveSession(th) \/ LoseAnswer(th)
    PROVE  Awaited' /\ Isolated'
<1> DEFINE t == req[th].tab
<1>1. /\ UNCHANGED <<live, rekey, staged, drawn>>
      /\ \A o \in Threads \ {th} : req'[o] = req[o]
  BY DEF SaveSession, LoseAnswer, DatabaseRows, TypeOK
<1>2. /\ req'[th].tab = NoTab
      /\ \/ req'[th] = Free
         \/ /\ req'[th].st = req[th].st /\ req'[th].op = req[th].op
            /\ req'[th].id = req[th].id /\ req'[th].rows = req[th].rows
  <2>1. CASE SaveSession(th)
    BY <2>1 DEF SaveSession, TypeOK, Free
  <2>2. CASE LoseAnswer(th)
    BY <2>2 DEF LoseAnswer, TypeOK, Requests
  <2> QED
    BY <2>1, <2>2
<1>3. \/ UNCHANGED tab
      \/ /\ t \in Tabs
         /\ \E good \in BOOLEAN :
              tab' = [tab EXCEPT ![t] = Continue(tab[t], req[th].op, good, req[th].rows, req[th].id)]
  <2>1. t \in Tabs \cup {NoTab} /\ (req[th].st = "ok") \in BOOLEAN
    BY DEF TypeOK, Requests
  <2>2. CASE SaveSession(th) /\ t = NoTab
    BY <2>2 DEF SaveSession
  <2>3. CASE SaveSession(th) /\ t # NoTab /\ req[th].st = "ok"
    <3>1. tab' = [tab EXCEPT ![t] = Continue(tab[t], req[th].op, TRUE, req[th].rows, req[th].id)]
      BY <2>3 DEF SaveSession
    <3> QED
      BY <2>1, <2>3, <3>1
  <2>4. CASE SaveSession(th) /\ t # NoTab /\ req[th].st # "ok"
    <3>1. tab' = [tab EXCEPT ![t] = Continue(tab[t], req[th].op, FALSE, req[th].rows, req[th].id)]
      BY <2>4 DEF SaveSession
    <3> QED
      BY <2>1, <2>4, <3>1
  <2>5. CASE LoseAnswer(th)
    BY <2>1, <2>5 DEF LoseAnswer
  <2> QED
    BY <2>2, <2>3, <2>4, <2>5
<1>4. \A o \in Tabs : o # t => tab'[o] = tab[o]
  BY <1>3 DEF TypeOK
<1>5. Awaited'
  BY <1>1, <1>2, <1>4, AwaitedAnswer
<1>6. ASSUME NEW o \in Threads
      PROVE  /\ req'[o].st \in {"locked", "counted"} => req[o].st \in {"locked", "counted"}
             /\ req'[o].st = "ready" => req[o].st = "ready" /\ req'[o].id = req[o].id
             /\ req'[o].op \notin {"put", "setup"} => req'[o].id <= drawn.gens
             /\ Counts /\ req'[o].op = "stage" => Fitting(req'[o].id, req'[o].rows)
  <2>1. CASE req'[o] = Free
    BY <2>1 DEF Free, TypeOK, Gens
  <2>2. CASE req'[o] # Free
    BY <1>1, <1>2, <2>2 DEF Isolated, Drawn, Staging
  <2> QED
    BY <2>1, <2>2
<1>7. ASSUME NEW o \in Tabs
      PROVE  /\ tab'[o].id <= drawn.gens
             /\ Counts /\ tab'[o].at = "stage" => Fitting(tab'[o].id, tab'[o].todo)
  <2>1. CASE tab'[o] = tab[o]
    BY <2>1 DEF Isolated, Drawn, Staging
  <2>2. CASE tab'[o] # tab[o]
    <3>1. o = t /\ t \in Tabs
      BY <1>4, <2>2
    <3>2. PICK good \in BOOLEAN :
            tab' = [tab EXCEPT ![t] = Continue(tab[t], req[th].op, good, req[th].rows, req[th].id)]
      BY <1>3, <2>2
    <3>3. tab'[o] = Continue(tab[t], req[th].op, good, req[th].rows, req[th].id)
      BY <3>1, <3>2 DEF TypeOK
    <3> QED
      BY <3>1, <3>3, AnsweredFits
  <2> QED
    BY <2>1, <2>2
<1>8. Isolated'
  BY <1>1, <1>6, <1>7, Quiet
<1> QED
  BY <1>5, <1>8

LEMMA CallIsolated ==
    ASSUME TypeOK, Awaited, Isolated, NEW t \in Tabs, NextCall(t)
    PROVE  Awaited' /\ Isolated'
<1> DEFINE op == IF tab[t].at = "unlock" THEN "abort" ELSE tab[t].at
<1>1. /\ ~Waiting(t) /\ UNCHANGED <<live, rekey, staged, drawn>>
      /\ op \in {"abort", "begin", "stage", "commit"} /\ (op = "stage" => tab[t].at = "stage")
  BY DEF NextCall, DatabaseRows
<1>2. /\ tab[t] \in Pages /\ drawn.gens \in Nat /\ tab[t].id <= drawn.gens
      /\ Counts /\ tab[t].at = "stage" => Fitting(tab[t].id, tab[t].todo)
  BY DEF TypeOK, Gens, Isolated, Drawn, Staging
<1>3. CASE MayPost(t)
  <2>1. PICK c \in IF op = "stage" THEN Chunks(tab[t].todo) ELSE {{}} :
          Send(t, op, c, tab[t].id) /\ UNCHANGED tab
    BY <1>3 DEF NextCall
  <2>2. op = "stage" => c \subseteq tab[t].todo
    BY <2>1 DEF Chunks
  <2> HIDE DEF op
  <2>3. PICK th \in Threads : req' = [req EXCEPT ![th] = [st |-> "sent", op |-> op, tab |-> t,
                                            sid |-> Jar(t), id |-> tab[t].id, rows |-> c]]
    BY <2>1 DEF Send
  <2>4. ASSUME NEW o \in Threads
        PROVE  /\ req'[o].st \in {"locked", "counted"} => req[o].st \in {"locked", "counted"}
               /\ req'[o].st = "ready" => req[o].st = "ready" /\ req'[o].id = req[o].id
               /\ req'[o].op \notin {"put", "setup"} => req'[o].id <= drawn.gens
               /\ Counts /\ req'[o].op = "stage" => Fitting(req'[o].id, req'[o].rows)
    <3>1. CASE o = th
      BY <1>1, <1>2, <2>2, <2>3, <3>1 DEF TypeOK, Fitting
    <3>2. CASE o # th
      BY <2>3, <3>2 DEF TypeOK, Isolated, Drawn, Staging
    <3> QED
      BY <3>1, <3>2
  <2>5. Isolated'
    <3>1. \A o \in Tabs : /\ tab'[o].id <= drawn.gens
                          /\ Counts /\ tab'[o].at = "stage" => Fitting(tab'[o].id, tab'[o].todo)
      BY <2>1 DEF Isolated, Drawn, Staging
    <3> QED
      BY <1>1, <2>4, <3>1, Quiet
  <2>6. Awaited'
    BY <1>1, <2>1, AwaitedSend
  <2> QED
    BY <2>5, <2>6
<1>4. CASE ~MayPost(t)
  <2> DEFINE page == Continue(tab[t], op, FALSE, {}, 0)
  <2>1. tab' = [tab EXCEPT ![t] = page] /\ UNCHANGED req
    BY <1>4 DEF NextCall
  <2>2. op \in Ops /\ 0 \in 0..MaxGen /\ FALSE \in BOOLEAN
    BY <1>1, ModelAssumption DEF Ops
  <2> HIDE DEF op
  <2>3. page.id <= drawn.gens /\ (Counts /\ page.at = "stage" => Fitting(page.id, page.todo))
    BY <1>1, <1>2, <2>2, ContinueFits
  <2> HIDE DEF page
  <2> QED
    BY <1>1, <2>1, <2>3, QuietPage, AwaitedPage
<1> QED
  BY <1>3, <1>4

\* What a page does by itself, when it waits for nothing.
LEMMA PageIsolated ==
    ASSUME TypeOK, Awaited, Isolated, NEW t \in Tabs, ~Waiting(t),
           UNCHANGED <<live, rekey, staged, req>>, drawn'.gens = drawn.gens,
           NEW page, tab' = [tab EXCEPT ![t] = page],
           page.id \in {0, tab[t].id}, page.at # "stage"
    PROVE  Awaited' /\ Isolated'
<1>1. page.id <= drawn.gens
  BY DEF Isolated, Drawn, TypeOK, Gens
<1> QED
  BY <1>1, AwaitedPage, QuietPage

LEMMA UserIsolated ==
    ASSUME TypeOK, Awaited, Isolated, NEW t \in Tabs,
           Unlock(t) \/ Load(t) \/ LockVault(t) \/ RecoverVault(t) \/ SignIn(t) \/ StepUp(t) \/ SignOut(t)
    PROVE  Awaited' /\ Isolated'
<1> USE DEF DatabaseRows, PageOnly, Idle
<1>1. tab[t] \in Pages /\ drawn \in [gens : Gens, sids : 0..MaxSid]
  BY DEF TypeOK
<1>2. CASE Unlock(t)
  <2> DEFINE page == [tab[t] EXCEPT !.cache = IF @ = 0 THEN salts ELSE @, !.at = "unlock", !.id = 0]
  <2>1. page.id = 0 /\ page.at = "unlock"
    BY <1>1 DEF Pages
  <2>2. tab' = [tab EXCEPT ![t] = page]
    BY <1>2 DEF Unlock
  <2> HIDE DEF page
  <2> QED
    BY <1>2, <2>1, <2>2, PageIsolated DEF Unlock
<1>3. CASE Load(t)
  <2> DEFINE opens == MayRead(t) /\ \A b \in Stored(live) : b[1] = tab[t].cache
             page == [tab[t] EXCEPT !.at = "idle", !.keys = IF opens THEN tab[t].cache ELSE 0]
  <2>1. page.id = tab[t].id /\ page.at = "idle"
    BY <1>1 DEF Pages
  <2>2. tab' = [tab EXCEPT ![t] = page]
    BY <1>3 DEF Load
  <2> HIDE DEF page
  <2> QED
    BY <1>3, <2>1, <2>2, PageIsolated DEF Load
<1>4. CASE LockVault(t)
  <2> DEFINE page == [tab[t] EXCEPT !.keys = 0, !.id = 0]
  <2>1. page.id = 0 /\ page.at = tab[t].at
    BY <1>1 DEF Pages
  <2>2. tab' = [tab EXCEPT ![t] = page]
    BY <1>4 DEF LockVault
  <2> HIDE DEF page
  <2> QED
    BY <1>4, <2>1, <2>2, PageIsolated DEF LockVault
<1>5. CASE RecoverVault(t)
  <2> DEFINE page == [tab[t] EXCEPT !.seed = blob, !.at = "begin", !.id = 0]
  <2>1. page.id = 0 /\ page.at = "begin"
    BY <1>1 DEF Pages
  <2>2. tab' = [tab EXCEPT ![t] = page]
    BY <1>5 DEF RecoverVault
  <2> HIDE DEF page
  <2> QED
    BY <1>5, <2>1, <2>2, PageIsolated DEF RecoverVault
<1>6. ASSUME NEW outlives, Idle(t), Rotate(t, outlives) PROVE Awaited' /\ Isolated'
  <2> DEFINE page == [tab[t] EXCEPT !.csrf = drawn.sids + 1, !.id = 0]
  <2>1. page.id = 0 /\ page.at = tab[t].at
    BY <1>1 DEF Pages
  <2>2. tab' = [tab EXCEPT ![t] = page] /\ drawn'.gens = drawn.gens
    BY <1>1, <1>6 DEF Rotate
  <2> HIDE DEF page
  <2> QED
    BY <1>6, <2>1, <2>2, PageIsolated DEF Rotate
<1>7. CASE SignIn(t) \/ StepUp(t)
  BY <1>6, <1>7 DEF SignIn, StepUp
<1>8. CASE SignOut(t)
  <2> DEFINE page == [tab[t] EXCEPT !.keys = 0, !.csrf = 0, !.id = 0]
  <2>1. page.id = 0 /\ page.at = tab[t].at
    BY <1>1 DEF Pages
  <2>2. tab' = [tab EXCEPT ![t] = page]
    BY <1>8 DEF SignOut
  <2> HIDE DEF page
  <2> QED
    BY <1>8, <2>1, <2>2, PageIsolated DEF SignOut
<1> QED
  BY <1>2, <1>3, <1>4, <1>5, <1>7, <1>8

\* The rows of a rekey are made from what is live, which is the snapshot while it counts.
LEMMA FetchIsolated ==
    ASSUME TypeOK, Awaited, Isolated, NEW t \in Tabs, FetchAllRecords(t)
    PROVE  Awaited' /\ Isolated'
<1> DEFINE opens == MayRead(t) /\ \A b \in Stored(live) : b[1] = tab[t].seed
           rows == Reencrypt(live, tab[t].id)
           todo == IF opens THEN rows ELSE {}
           page == [tab[t] EXCEPT !.seed = 0, !.todo = todo,
                      !.at = IF ~opens THEN "abort" ELSE IF rows = {} THEN "commit" ELSE "stage"]
<1>1. tab[t] \in Pages /\ tab' = [tab EXCEPT ![t] = page]
  BY DEF FetchAllRecords, TypeOK
<1>2. ~Waiting(t) /\ UNCHANGED <<live, rekey, staged, req, drawn>>
  BY DEF FetchAllRecords, PageOnly, DatabaseRows
<1> HIDE DEF opens
<1>3. page.id = tab[t].id /\ page.todo = todo
  BY <1>1 DEF Pages
<1>4. Counts => Fitting(tab[t].id, todo)
  BY DEF Fitting, Isolated, Snapshot
<1>5. Counts /\ page.at = "stage" => Fitting(page.id, page.todo)
  BY <1>3, <1>4
<1>6. page.id <= drawn.gens
  BY <1>3 DEF Isolated, Drawn
<1> HIDE DEF page
<1> QED
  BY <1>1, <1>2, <1>5, <1>6, AwaitedPage, QuietPage

LEMMA RequestIsolated ==
    ASSUME TypeOK, Awaited, Isolated, NEW t \in Tabs, NEW op, NEW rows, NEW id,
           Request(t, op, rows, id), op # "stage", op \in {"put", "setup"} \/ id = 0
    PROVE  Awaited' /\ Isolated'
<1> DEFINE page == [tab[t] EXCEPT !.at = "write", !.id = 0]
<1>1. /\ ~Waiting(t) /\ Send(t, op, rows, id) /\ tab' = [tab EXCEPT ![t] = page]
      /\ UNCHANGED <<live, rekey, staged, drawn>>
  BY DEF Request, Idle, DatabaseRows
<1>2. page.id = 0 /\ page.at = "write"
  BY DEF TypeOK, Pages
<1> HIDE DEF page
<1>3. PICK th \in Threads : req' = [req EXCEPT ![th] = [st |-> "sent", op |-> op, tab |-> t,
                                          sid |-> Jar(t), id |-> id, rows |-> rows]]
  BY <1>1 DEF Send
<1>4. drawn.gens \in Nat
  BY DEF TypeOK, Gens
<1>5. ASSUME NEW o \in Threads
      PROVE  /\ req'[o].st \in {"locked", "counted"} => req[o].st \in {"locked", "counted"}
             /\ req'[o].st = "ready" => req[o].st = "ready" /\ req'[o].id = req[o].id
             /\ req'[o].op \notin {"put", "setup"} => req'[o].id <= drawn.gens
             /\ Counts /\ req'[o].op = "stage" => Fitting(req'[o].id, req'[o].rows)
  <2>1. CASE o = th
    BY <1>3, <1>4, <2>1 DEF TypeOK
  <2>2. CASE o # th
    BY <1>3, <2>2 DEF TypeOK, Isolated, Drawn, Staging
  <2> QED
    BY <2>1, <2>2
<1>6. ASSUME NEW o \in Tabs
      PROVE  /\ tab'[o].id <= drawn.gens
             /\ Counts /\ tab'[o].at = "stage" => Fitting(tab'[o].id, tab'[o].todo)
  <2>1. CASE o = t
    BY <1>1, <1>2, <1>4, <2>1 DEF TypeOK
  <2>2. CASE o # t
    BY <1>1, <2>2 DEF TypeOK, Isolated, Drawn, Staging
  <2> QED
    BY <2>1, <2>2
<1>7. Isolated'
  BY <1>1, <1>5, <1>6, Quiet
<1>8. \A o \in Tabs \ {t} : tab'[o] = tab[o]
  BY <1>1 DEF TypeOK
<1>9. Awaited'
  BY <1>1, <1>8, AwaitedSend
<1> QED
  BY <1>7, <1>9

\* A reload forgets everything and waits for nothing.
LEMMA ReloadIsolated ==
    ASSUME TypeOK, Awaited, Isolated, NEW t \in Tabs, Reload(t)
    PROVE  Awaited' /\ Isolated'
<1> DEFINE sid == IF MayRead(t) THEN Jar(t) ELSE 0
<1>1. /\ UNCHANGED <<live, rekey, staged, drawn>>
      /\ tab' = [tab EXCEPT ![t] = Page(sid)]
  BY DEF Reload, DatabaseRows
<1> HIDE DEF sid
<1>2. ASSUME NEW o \in Threads
      PROVE  /\ req'[o].st = req[o].st /\ req'[o].op = req[o].op
             /\ req'[o].id = req[o].id /\ req'[o].rows = req[o].rows
             /\ req'[o].tab = IF req[o].tab = t THEN NoTab ELSE req[o].tab
  <2>1. req[o] \in Requests
    BY DEF TypeOK
  <2> QED
    BY <2>1 DEF Reload, Requests
<1>3. ASSUME NEW o \in Tabs
      PROVE  tab'[o] = IF o = t THEN Page(sid) ELSE tab[o]
  BY <1>1 DEF TypeOK
<1>4. Page(sid).id = 0 /\ Page(sid).at = "idle" /\ drawn.gens \in Nat
  BY DEF Page, TypeOK, Gens
<1>5. \A o \in Threads : /\ req[o].op \notin {"put", "setup"} => req[o].id <= drawn.gens
                         /\ Counts /\ req[o].op = "stage" => Fitting(req[o].id, req[o].rows)
  BY DEF Isolated, Drawn, Staging
<1>6. ASSUME NEW o \in Tabs
      PROVE  /\ tab'[o].id <= drawn.gens
             /\ Counts /\ tab'[o].at = "stage" => Fitting(tab'[o].id, tab'[o].todo)
  BY <1>3, <1>4 DEF Isolated, Drawn, Staging
<1>7. Isolated'
  BY <1>1, <1>2, <1>5, <1>6, Quiet
<1>8. Awaited'
  BY <1>2, <1>3, ModelAssumption DEF Awaited
<1> QED
  BY <1>7, <1>8
-----------------------------------------------------------------------------
IInv == TypeOK /\ Numbers /\ Awaited /\ Isolated

LEMMA InitIsolated == Init => Awaited /\ Isolated
<1> SUFFICES ASSUME Init PROVE Awaited /\ Isolated
  OBVIOUS
<1>1. \A th \in Threads : req[th] = Free
  BY DEF Init
<1>2. /\ \A th \in Threads : req[th].st = "free" /\ req[th].op = "none" /\ req[th].id = 0
      /\ \A th \in Threads, t \in Tabs : req[th].tab # t
  BY <1>1, ModelAssumption DEF Free
<1>3. \A t \in Tabs : tab[t].id = 0 /\ tab[t].at = "idle"
  BY DEF Init, Page
<1>4. ~rekey.open /\ rekey.id = 0 /\ drawn.gens = 1
  BY DEF Init, NoRekey
<1>5. Awaited /\ Locking /\ ~Counts
  BY <1>2, <1>4 DEF Awaited, Locking, Holds, Counts
<1>6. Snapshot /\ Drawn /\ Staging
  BY <1>2, <1>3, <1>4, <1>5 DEF Snapshot, Drawn, Staging
<1> QED
  BY <1>5, <1>6 DEF Isolated

\* Handlers that neither take the row nor change the vault, its rekey or the staged rows.
LEMMA OtherHandlersIsolated ==
    ASSUME TypeOK, Awaited, Isolated, NEW th \in Threads,
           \/ PutCount(th) \/ RekeyBeginLimited(th) \/ StageCheck(th) \/ SetupCheck(th)
           \/ SetupStore(th) \/ RecoveryDelete(th) \/ Refuse(th)
    PROVE  Awaited' /\ Isolated'
<1>1. UNCHANGED <<live, rekey, staged, tab, drawn>>
  BY DEF PutCount, RekeyBeginLimited, StageCheck, SetupCheck, SetupStore, RecoveryDelete,
         Refuse, DatabaseRows, Elsewhere
<1>2. PICK st \in Stages : /\ Finish(th, st) /\ st \notin {"locked", "ready"}
                           /\ st = "counted" => req[th].st = "locked"
  <2>1. {"ok", "no", "checked", "counted"} \subseteq Stages
    BY DEF Stages
  <2>2. CASE PutCount(th)
    BY <2>1, <2>2 DEF PutCount, Verdict, At
  <2>3. CASE StageCheck(th) \/ SetupCheck(th)
    BY <2>1, <2>3 DEF StageCheck, SetupCheck, Verdict
  <2>4. CASE RekeyBeginLimited(th) \/ SetupStore(th) \/ RecoveryDelete(th) \/ Refuse(th)
    BY <2>1, <2>4 DEF RekeyBeginLimited, SetupStore, RecoveryDelete, Refuse
  <2> QED
    BY <2>2, <2>3, <2>4
<1> QED
  BY <1>1, <1>2, QuietFinish, AwaitedFinish

LEMMA LockingHandlersAwaited ==
    ASSUME TypeOK, Awaited, NEW th \in Threads,
           \/ VaultWriteGuard(th) \/ PutStore(th) \/ ResetDelete(th) \/ StageInsert(th)
           \/ CommitCheck(th) \/ CommitApply(th) \/ RekeyAbort(th)
    PROVE  Awaited'
<1>1. UNCHANGED tab
  BY DEF VaultWriteGuard, PutStore, ResetDelete, StageInsert, CommitCheck, CommitApply,
         RekeyAbort, Elsewhere
<1>2. {"ok", "no", "locked", "ready"} \subseteq Stages
  BY DEF Stages
<1>3. PICK st \in Stages : Finish(th, st)
  BY <1>2 DEF VaultWriteGuard, PutStore, ResetDelete, StageInsert, CommitCheck, CommitApply,
         RekeyAbort, Verdict
<1> QED
  BY <1>1, <1>3, AwaitedFinish

LEMMA BeginAwaited ==
    ASSUME TypeOK, Awaited, NEW th \in Threads, RekeyBegin(th)
    PROVE  Awaited'
<1>1. \A o \in Threads : req'[o].tab = req[o].tab /\ req'[o].op = req[o].op
  BY DEF RekeyBegin, TypeOK, Requests
<1> QED
  BY <1>1, AwaitedSame DEF RekeyBegin

LEMMA NextIsolated == TypeOK /\ Awaited /\ Isolated /\ [Next]_vars => Awaited' /\ Isolated'
<1> SUFFICES ASSUME TypeOK, Awaited, Isolated, [Next]_vars PROVE Awaited' /\ Isolated'
  OBVIOUS
<1>1. ASSUME NEW th \in Threads, Handler(th) PROVE Awaited' /\ Isolated'
  <2>1. CASE VaultWriteGuard(th) \/ PutStore(th) \/ ResetDelete(th) \/ StageInsert(th)
    BY <2>1, LockingHandlersAwaited, GuardIsolated, StoreIsolated, InsertIsolated
  <2>2. CASE CommitCheck(th) \/ CommitApply(th) \/ RekeyAbort(th)
    BY <2>2, LockingHandlersAwaited, CheckIsolated, ClosedIsolated
  <2>3. CASE RekeyBegin(th)
    BY <2>3, BeginAwaited, BeginIsolated
  <2>4. CASE \/ PutCount(th) \/ RekeyBeginLimited(th) \/ StageCheck(th) \/ SetupCheck(th)
             \/ SetupStore(th) \/ RecoveryDelete(th)
    BY <2>4, OtherHandlersIsolated
  <2>5. CASE SaveSession(th)
    BY <2>5, AnswerIsolated
  <2> QED
    BY <1>1, <2>1, <2>2, <2>3, <2>4, <2>5 DEF Handler
<1>2. ASSUME NEW th \in Threads, Refuse(th) \/ LoseAnswer(th) PROVE Awaited' /\ Isolated'
  BY <1>2, OtherHandlersIsolated, AnswerIsolated
<1>3. ASSUME NEW t \in Tabs, Flow(t) PROVE Awaited' /\ Isolated'
  BY <1>3, UserIsolated, FetchIsolated, CallIsolated DEF Flow
<1>4. ASSUME NEW t \in Tabs, User(t) PROVE Awaited' /\ Isolated'
  <2>1. CASE UploadRecords(t) \/ DeleteAllRecords(t) \/ SetupRecoveryKey(t) \/ DeleteRecovery(t)
    BY <2>1, RequestIsolated DEF UploadRecords, DeleteAllRecords, SetupRecoveryKey, DeleteRecovery
  <2>2. CASE Unlock(t) \/ LockVault(t) \/ RecoverVault(t) \/ SignIn(t) \/ StepUp(t) \/ SignOut(t)
    BY <2>2, UserIsolated
  <2>3. CASE Reload(t)
    BY <2>3, ReloadIsolated
  <2> QED
    BY <1>4, <2>1, <2>2, <2>3 DEF User
<1>5. CASE Expire
  <2>1. UNCHANGED tab /\ UNCHANGED req
    BY <1>5 DEF Expire, Elsewhere
  <2> QED
    BY <1>5, <2>1, AwaitedSame, ExpireIsolated
<1>6. CASE UNCHANGED vars
  <2>1. UNCHANGED tab /\ UNCHANGED req
    BY <1>6 DEF vars
  <2>2. Awaited'
    BY <2>1, AwaitedSame
  <2>3. Isolated'
    BY <1>6 DEF vars, Isolated, Locking, Snapshot, Counts, Drawn, Staging, Fitting, Holds,
                Reencrypt, Stored
  <2> QED
    BY <2>2, <2>3
<1> QED
  BY <1>1, <1>2, <1>3, <1>4, <1>5, <1>6 DEF Next

\* In every reachable state: who shares the lock of the row with whom, that the snapshot of a
\* rekey is the live vault, and what of its re-encryption is staged, sent or still to be.
THEOREM Invariant == Spec => []IInv
<1>1. Init => IInv
  BY TypedInit, InitIsolated DEF IInv, Typed
<1>2. IInv /\ [Next]_vars => IInv'
  BY TypedNext, NextIsolated DEF IInv, Typed
<1> QED
  BY <1>1, <1>2, PTL DEF Spec

\* No write to the vault commits between begin's snapshot and the commit that checks it
\* against the live records.
THEOREM SnapshotStaysCurrent == Spec => []SnapshotCurrent
<1>1. IInv => SnapshotCurrent
  BY DEF IInv, Isolated, Snapshot, Counts, SnapshotCurrent
<1> QED
  BY <1>1, Invariant, PTL

\* What a commit is about to put in place of the records is their re-encryption: every one
\* of them, once, and nothing else, however it was cut into chunks, retried or raced.
WholeVaultStaged ==
    \A th \in Threads : req[th].st = "ready" => staged = Reencrypt(live, req[th].id)

\* A commit that passed its checks has the whole re-encryption staged (rekey_commit).
THEOREM CommitReplacesTheWholeVault == Spec => []WholeVaultStaged
<1>1. IInv => WholeVaultStaged
  BY DEF IInv, Isolated, Snapshot, Counts, Staging, WholeVaultStaged
<1> QED
  BY <1>1, Invariant, PTL

\* Between a commit's checks and its writes nobody changes what it checked; staging, which
\* takes no lock, has no row left to add.
LEMMA RowHeld ==
    ASSUME IInv, [Next]_vars, NEW th \in Threads, req[th].st = "ready", req'[th].st = "ready"
    PROVE  UNCHANGED <<live, salts, blob, staged>> /\ rekey'.id = rekey.id
<1> USE DEF DatabaseRows, Elsewhere
<1>1. /\ TypeOK /\ Isolated
      /\ \A o \in Threads \ {th} : req[o].st \notin {"locked", "counted", "ready"}
      /\ ~ForUpdateFree
  BY DEF IInv, Isolated, Locking, Holds, ForUpdateFree
<1>2. ASSUME NEW o \in Threads, Handler(o)
      PROVE  UNCHANGED <<live, salts, blob, staged>> /\ rekey'.id = rekey.id
  <2>1. CASE VaultWriteGuard(o) \/ PutCount(o) \/ RekeyBeginLimited(o) \/ StageCheck(o)
             \/ SetupCheck(o) \/ SaveSession(o)
    BY <2>1 DEF VaultWriteGuard, PutCount, RekeyBeginLimited, StageCheck, SetupCheck, SaveSession
  <2>2. CASE PutStore(o) \/ ResetDelete(o)
    BY <1>1, <2>2 DEF PutStore, ResetDelete, At
  <2>3. CASE RekeyBegin(o) \/ CommitCheck(o) \/ RekeyAbort(o) \/ SetupStore(o) \/ RecoveryDelete(o)
    BY <1>1, <2>3 DEF RekeyBegin, CommitCheck, RekeyAbort, SetupStore, RecoveryDelete
  <2>4. CASE CommitApply(o)
    <3>1. o = th /\ Finish(o, "ok") /\ "ok" \in Stages
      BY <1>1, <2>4 DEF CommitApply, At, Stages
    <3> QED
      BY <1>1, <3>1, FinishEach
  <2>5. CASE StageInsert(o)
    BY <1>1, <2>5, InsertIsolated DEF StageInsert
  <2> QED
    BY <1>2, <2>1, <2>2, <2>3, <2>4, <2>5 DEF Handler
<1>3. ASSUME NEW o \in Threads, Refuse(o) \/ LoseAnswer(o)
      PROVE  UNCHANGED <<live, salts, blob, staged>> /\ rekey'.id = rekey.id
  BY <1>3 DEF Refuse, LoseAnswer
<1>4. ASSUME NEW t \in Tabs, Flow(t) \/ User(t)
      PROVE  UNCHANGED <<live, salts, blob, staged>> /\ rekey'.id = rekey.id
  <2>1. UNCHANGED DatabaseRows
    BY <1>4 DEF Flow, User, Load, FetchAllRecords, NextCall, UploadRecords, DeleteAllRecords,
                SetupRecoveryKey, DeleteRecovery, Request, Unlock, LockVault, RecoverVault,
                Reload, SignIn, StepUp, SignOut, Rotate, PageOnly
  <2> QED
    BY <2>1
<1>5. CASE Expire
  BY <1>1, <1>5 DEF Expire, TypeOK, Rekeys
<1>6. CASE UNCHANGED vars
  BY <1>6 DEF vars
<1> QED
  BY <1>2, <1>3, <1>4, <1>5, <1>6 DEF Next

\* Between a commit's checks and its writes nobody changes what it has checked: neither the
\* vault, behind the lock of its row, nor the staged rows, behind none (rekey_commit).
THEOREM CommitsAreIsolated == Spec => CommitIsolated
<1>1. IInv /\ [Next]_vars =>
        [\A th \in Threads :
           (req[th].st = "ready" /\ req'[th].st = "ready")
             => UNCHANGED <<live, salts, blob, staged>> /\ rekey'.id = rekey.id]_vars
  BY RowHeld
<1> QED
  BY <1>1, Invariant, PTL DEF Spec, CommitIsolated
=============================================================================
