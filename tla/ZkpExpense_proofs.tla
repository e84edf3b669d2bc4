-------------------------- MODULE ZkpExpense_proofs --------------------------
(***************************************************************************)
(* Theorems about ZkpExpense, for any pages, threads and expenses and for  *)
(* every bound: what a challenge is worth, and what the commitment and the *)
(* tags of records say after any mix of submissions, outages, crashes and  *)
(* rekeys.                                                                 *)
(***************************************************************************)
EXTENDS ZkpExpense, TLAPS

\* From the claim until the proof is stored or turned down.
Working(r) == r.st \in {"claimed", "down", "valid"}

(* What a request carries, from the page that sent it and the rows it has read. *)
CarriedBy(r) ==
    /\ r.st # "free" => r.tab \in Tabs /\ r.key \in Keys /\ r.op # "none"
    /\ r.heard => r.st # "free"
    /\ r.st # "free" /\ r.op # "manual" => r.heard
    /\ r.st = "keyed" \/ Working(r) => r.op = "manual" /\ r.read.key \in Keys
    /\ Working(r) => r.with = r.read
    /\ r.op = "manual" => r.chal # 0
    /\ r.op = "challenge" /\ r.st = "ok" => r.chal # 0
    /\ r.op = "enroll" => r.with.key \in Keys
Carried == \A th \in Threads : CarriedBy(req[th])

(* A page waits for one answer at a time, and is where it sent the call; it is locked only
   between flows. *)
Awaited ==
    /\ \A th \in Threads : req[th].heard =>
          /\ tab[req[th].tab].at = req[th].op
          /\ \A o \in Threads : req[o].heard /\ req[o].tab = req[th].tab => o = th
    /\ \A t \in Tabs : /\ tab[t].at # "none" => tab[t].key # 0
                       /\ tab[t].at = "manual" => tab[t].chal # 0
    /\ Enrolled => committed.key \in Keys

(* A challenge is in one submission's hands at a time, spent meanwhile; a verdict settles it. *)
Claims ==
    /\ \A th \in Threads : Working(req[th]) =>
          /\ chal[req[th].chal].spent
          /\ \A o \in Threads : Working(req[o]) /\ req[o].chal = req[th].chal => o = th
    /\ \A th \in Threads :
          /\ req[th].st = "valid" => req[th].chal \in judged /\ accepted[req[th].chal] = 0
          /\ req[th].st \in {"claimed", "down"} => req[th].chal \notin judged
    /\ \A c \in judged : chal[c].spent
    /\ \A c \in Chals : accepted[c] <= 1 /\ (accepted[c] # 0 => c \in judged)

(* The commitment that a rekey brings is that of the next keys, under the salt there is,
   for as long as the rekey it belongs to is active. *)
Bodies ==
    \A th \in Threads :
        req[th].op = "commit" /\ req[th].st = "sent" /\ req[th].with # None =>
            /\ Enrolled /\ req[th].with.salt = zkSalt
            /\ rekey = req[th].tab => req[th].with.key = vaultKey + 1

(* A session is revoked by the latest rekey or outlives it. *)
Outlived ==
    /\ Tabs \subseteq revoked \cup survivors
    /\ \A b \in Blinds : recs[b].kind = "proof" => recs[b].by \in survivors

IInv == TypeOK /\ Carried /\ Awaited /\ Claims /\ OutageBurnsNothing /\ Bodies /\ Outlived
-----------------------------------------------------------------------------
(* Types *)

LEMMA Constants ==
    /\ 1 \in Keys /\ 0 \in 0..MaxKey /\ 0 \in 0..MaxSalt /\ 0 \in 0..MaxChal
    /\ NoTab \notin Tabs /\ \A k \in Keys : k \in 0..MaxKey /\ k # 0
    /\ None \in Commitments /\ Free.item \in Items
BY ZkpExpenseAssumption DEF Keys, None, Commitments, Free

LEMMA FreeType == Free \in Requests /\ Free.st = "free" /\ Free.op = "none" /\ ~Free.heard
BY Constants DEF Free, Requests, Stages, Ops

(* What ending a step of a request changes: where it stands, and nothing else. *)
LEMMA FinishKeeps ==
    ASSUME TypeOK, NEW th \in Threads, NEW st \in Stages, Finish(th, st)
    PROVE  /\ req' \in [Threads -> Requests]
           /\ \A o \in Threads : req'[o] = IF o = th THEN [req[th] EXCEPT !.st = st] ELSE req[o]
BY DEF TypeOK, Finish, Requests

LEMMA Finished ==
    ASSUME TypeOK, NEW th \in Threads, NEW st \in Stages, Finish(th, st)
    PROVE  /\ req'[th].st = st /\ req'[th].chal = req[th].chal
           /\ \A o \in Threads \ {th} : req'[o] = req[o]
<1>1. req[th] \in Requests
  BY DEF TypeOK
<1>2. req'[th] = [req[th] EXCEPT !.st = st] /\ \A o \in Threads \ {th} : req'[o] = req[o]
  BY FinishKeeps
<1> QED
  BY <1>1, <1>2 DEF Requests

LEMMA Edited ==
    ASSUME TypeOK, NEW th \in Threads, NEW r \in Requests, req' = [req EXCEPT ![th] = r]
    PROVE  /\ req' \in [Threads -> Requests]
           /\ \A o \in Threads : req'[o] = IF o = th THEN r ELSE req[o]
BY DEF TypeOK

LEMMA Heard ==
    ASSUME TypeOK, NEW th \in Threads, req' = [req EXCEPT ![th].heard = FALSE]
    PROVE  /\ req' \in [Threads -> Requests]
           /\ \A o \in Threads : req'[o] = IF o = th THEN [req[th] EXCEPT !.heard = FALSE] ELSE req[o]
BY DEF TypeOK, Requests

LEMMA Numbered ==
    ASSUME NEW r \in Requests, r.chal # 0 PROVE r.chal \in Chals
BY ZkpExpenseAssumption DEF Requests, Chals

LEMMA RecordTypes ==
    /\ \A key \in Keys, tag \in {"none", "v2", "v4"} : Box(key, tag) \in Records
    /\ \A key \in Keys, c \in Chals, t \in Tabs : Proven(key, c, t) \in Records
    /\ NoRec \in Records /\ \A r \in Records : r.tag \in {"none", "v2", "v4"}
<1>1. \A key \in Keys, tag \in {"none", "v2", "v4"} : Box(key, tag) \in Records
  BY DEF Records
<1>2. \A key \in Keys, c \in Chals, t \in Tabs : Proven(key, c, t) \in Records
  BY DEF Records
<1>3. NoRec \in Records
  BY DEF Records
<1>4. ASSUME NEW r \in Records PROVE r.tag \in {"none", "v2", "v4"}
  <2>1. CASE r = NoRec
    BY <2>1 DEF NoRec
  <2>2. CASE \E key \in Keys, tag \in {"none", "v2", "v4"} : r = Box(key, tag)
    BY <2>2 DEF Box
  <2>3. CASE \E key \in Keys, c \in Chals, t \in Tabs : r = Proven(key, c, t)
    BY <2>3 DEF Proven
  <2> QED
    BY <2>1, <2>2, <2>3 DEF Records
<1> QED
  BY <1>1, <1>2, <1>3, <1>4

LEMMA ContinueType ==
    ASSUME NEW page \in Pages, NEW r \in Requests
    PROVE  Continue(page, r) \in Pages
BY Constants DEF Continue, Pages, Page, Requests, Ops

LEMMA BodyType ==
    ASSUME TypeOK, NEW t \in Tabs, NEW op \in Ops, op = "commit" => vaultKey < MaxKey
    PROVE  Body(t, op) \in Commitments
BY Constants, ZkpExpenseAssumption DEF Body, TypeOK, Pages, Commitments, Keys

LEMMA SendFacts ==
    ASSUME TypeOK, NEW t \in Tabs, NEW th \in Threads, NEW op \in Ops, Send(t, th, op)
    PROVE  \E i \in Items, r \in Requests :
              /\ r = [st |-> "sent", op |-> op, tab |-> t, heard |-> TRUE, item |-> i,
                      key |-> tab[t].key, chal |-> IF op = "manual" THEN tab[t].chal ELSE 0,
                      with |-> Body(t, op), read |-> None]
              /\ req' = [req EXCEPT ![th] = r]
<1> DEFINE r(i) == [st |-> "sent", op |-> op, tab |-> t, heard |-> TRUE, item |-> i,
                    key |-> tab[t].key, chal |-> IF op = "manual" THEN tab[t].chal ELSE 0,
                    with |-> Body(t, op), read |-> None]
<1>1. PICK i \in Items : req' = [req EXCEPT ![th] = r(i)]
  BY DEF Send
<1>2. Body(t, op) \in Commitments
  BY BodyType DEF Send
<1>3. tab[t].key \in 0..MaxKey /\ tab[t].chal \in 0..MaxChal
  BY DEF TypeOK, Pages
<1>4. r(i) \in Requests
  BY <1>2, <1>3, Constants DEF Requests, Stages
<1> QED
  BY <1>1, <1>4

LEMMA InitTyped == Init => TypeOK
<1> SUFFICES ASSUME Init PROVE TypeOK
  OBVIOUS
<1>1. vaultKey \in Keys /\ zkSalt \in 0..MaxSalt /\ committed \in Commitments /\ salts \in 0..MaxSalt
  BY Constants DEF Init
<1>2. chal \in [Chals -> Challenges] /\ accepted \in [Chals -> Nat]
  BY DEF Init, Challenges, Unissued
<1>3. recs \in [Blinds -> Records]
  BY RecordTypes, Constants DEF Init
<1>4. tab \in [Tabs -> Pages]
  BY Constants DEF Init, Page, Pages, Ops
<1>5. req \in [Threads -> Requests]
  BY FreeType DEF Init
<1> QED
  BY <1>1, <1>2, <1>3, <1>4, <1>5 DEF Init, TypeOK

LEMMA NextTyped == TypeOK /\ Carried /\ [Next]_vars => TypeOK'
<1> SUFFICES ASSUME TypeOK, Carried, [Next]_vars PROVE TypeOK'
  OBVIOUS
<1> USE DEF Vault, Rest, History
<1> DEFINE Others == /\ vaultKey \in Keys /\ zkSalt \in 0..MaxSalt /\ committed \in Commitments
                     /\ chal \in [Chals -> Challenges] /\ recs \in [Blinds -> Records]
                     /\ rekey \in Tabs \cup {NoTab} /\ revoked \subseteq Tabs
                     /\ survivors \subseteq Tabs /\ tab \in [Tabs -> Pages]
                     /\ salts \in 0..MaxSalt /\ accepted \in [Chals -> Nat]
                     /\ judged \subseteq Chals /\ lost \subseteq Chals
<1>0. Others /\ req \in [Threads -> Requests] /\ \A th \in Threads : req[th] \in Requests
  BY DEF TypeOK
<1>1. ASSUME NEW th \in Threads, IssueSalt(th) PROVE TypeOK'
  <2>1. CASE Enrolled
    BY <1>1, <2>1, FinishKeeps DEF IssueSalt, TypeOK, Stages
  <2>2. CASE ~Enrolled
    <3>1. salts + 1 \in 0..MaxSalt
      BY <1>0, <1>1, <2>2, ZkpExpenseAssumption DEF IssueSalt
    <3>2. [key |-> 0, salt |-> salts + 1] \in Commitments
      BY <3>1, Constants DEF Commitments
    <3>3. req' = [req EXCEPT ![th] = [req[th] EXCEPT !.st = "ok", !.with = [key |-> 0, salt |-> salts + 1]]]
      BY <1>0, <1>1, <2>2 DEF IssueSalt
    <3>4. [req[th] EXCEPT !.st = "ok", !.with = [key |-> 0, salt |-> salts + 1]] \in Requests
      BY <1>0, <3>2 DEF Requests, Stages
    <3> QED
      BY <1>1, <2>2, <3>1, <3>3, <3>4, Edited DEF IssueSalt, TypeOK
  <2> QED
    BY <2>1, <2>2
<1>2. ASSUME NEW th \in Threads, Enroll(th) PROVE TypeOK'
  <2>1. req[th].with \in Commitments
    BY <1>0 DEF Requests
  <2>2. PICK st \in Stages : Finish(th, st)
    BY <1>2 DEF Enroll, Verdict, Stages
  <2> QED
    BY <1>2, <2>1, <2>2, FinishKeeps DEF Enroll, TypeOK
<1>3. ASSUME NEW th \in Threads, IssueChallenge(th) PROVE TypeOK'
  <2>1. CASE Enrolled /\ zkSalt # 0
    <3>1. PICK c \in Chals :
             /\ chal' = [chal EXCEPT ![c].tab = req[th].tab]
             /\ req' = [req EXCEPT ![th].chal = c, ![th].read = committed,
                                   ![th].with = [key |-> req[th].key, salt |-> zkSalt],
                                   ![th].st = "ok"]
      BY <1>3, <2>1 DEF IssueChallenge
    <3>2. chal' \in [Chals -> Challenges]
      BY <1>0, <3>1 DEF Challenges, Requests
    <3>3. [key |-> req[th].key, salt |-> zkSalt] \in Commitments /\ c \in 0..MaxChal
      BY <1>0, ZkpExpenseAssumption DEF Commitments, Requests, Chals
    <3> DEFINE r == [req[th] EXCEPT !.chal = c, !.read = committed,
                                    !.with = [key |-> req[th].key, salt |-> zkSalt], !.st = "ok"]
    <3>4. req' = [req EXCEPT ![th] = r]
      BY <1>0, <3>1
    <3>5. r \in Requests
      <4>1. req[th] \in Requests /\ committed \in Commitments /\ "ok" \in Stages
        BY <1>0 DEF Stages
      <4> QED
        BY <3>3, <4>1 DEF Requests
    <3> HIDE DEF r
    <3> QED
      BY <1>3, <3>2, <3>4, <3>5, Edited DEF IssueChallenge, TypeOK
  <2>2. CASE ~(Enrolled /\ zkSalt # 0)
    BY <1>3, <2>2, FinishKeeps DEF IssueChallenge, TypeOK, Stages
  <2> QED
    BY <2>1, <2>2
<1>4. ASSUME NEW th \in Threads, ReadKey(th) PROVE TypeOK'
  <2> DEFINE st == IF Enrolled /\ zkSalt # 0 THEN "keyed" ELSE "no"
             r == [req[th] EXCEPT !.st = st, !.read = committed]
  <2>1. req' = [req EXCEPT ![th] = r]
    BY <1>0, <1>4 DEF ReadKey
  <2>2. r \in Requests
    <3>1. st \in Stages /\ committed \in Commitments /\ req[th] \in Requests
      BY <1>0 DEF Stages
    <3> HIDE DEF st
    <3> QED
      BY <3>1 DEF Requests
  <2> HIDE DEF r
  <2> QED
    BY <1>4, <2>1, <2>2, Edited DEF ReadKey, TypeOK
<1>5. ASSUME NEW th \in Threads, Claim(th) PROVE TypeOK'
  <2>1. PICK st \in Stages : Finish(th, st)
    BY <1>5 DEF Claim, Verdict, Stages
  <2>2. chal' \in [Chals -> Challenges]
    BY <1>0, <1>5 DEF Claim, Challenges
  <2>3. judged' \subseteq Chals
    BY <1>0, <1>5, Numbered DEF Claim, At, Carried, CarriedBy
  <2> QED
    BY <1>5, <2>1, <2>2, <2>3, FinishKeeps DEF Claim, TypeOK
<1>6. ASSUME NEW th \in Threads, Verify(th) PROVE TypeOK'
  <2>1. PICK st \in Stages : Finish(th, st)
    BY <1>6 DEF Verify, Verdicts, Stages
  <2>2. judged' \subseteq Chals
    BY <1>0, <1>6, Numbered DEF Verify, At, Carried, CarriedBy
  <2> QED
    BY <1>6, <2>1, <2>2, FinishKeeps DEF Verify, TypeOK
<1>7. ASSUME NEW th \in Threads, Refund(th) PROVE TypeOK'
  <2>1. chal' \in [Chals -> Challenges]
    BY <1>0, <1>7 DEF Refund, Challenges
  <2> QED
    BY <1>7, <2>1, FinishKeeps DEF Refund, TypeOK, Stages
<1>8. ASSUME NEW th \in Threads, StoreProven(th) PROVE TypeOK'
  <2>1. req[th].with.key \in Keys /\ req[th].chal \in Chals /\ req[th].tab \in Tabs
    BY <1>0, <1>8, ZkpExpenseAssumption
       DEF StoreProven, At, Carried, CarriedBy, Working, Requests, Chals
  <2>2. Proven(req[th].with.key, req[th].chal, req[th].tab) \in Records
    BY <2>1, RecordTypes
  <2>3. recs' \in [Blinds -> Records] /\ accepted' \in [Chals -> Nat]
    BY <1>0, <1>8, <2>2 DEF StoreProven
  <2>4. PICK st \in Stages : Finish(th, st)
    BY <1>8 DEF StoreProven, Stages
  <2> QED
    BY <1>8, <2>3, <2>4, FinishKeeps DEF StoreProven, TypeOK
<1>9. ASSUME NEW th \in Threads, WorkerDies(th) PROVE TypeOK'
  <2>1. req' \in [Threads -> Requests]
    BY <1>0, <1>9, FreeType DEF WorkerDies
  <2>2. tab' \in [Tabs -> Pages]
    <3>1. tab \in [Tabs -> Pages]
      BY <1>0
    <3>2. \A t \in Tabs : [tab[t] EXCEPT !.at = "none"] \in Pages
      BY <3>1 DEF Pages, Ops
    <3>3. tab' = tab \/ tab' = [tab EXCEPT ![req[th].tab] = [tab[req[th].tab] EXCEPT !.at = "none"]]
      BY <1>9 DEF WorkerDies
    <3> QED
      BY <3>1, <3>2, <3>3
  <2>3. lost' \subseteq Chals
    BY <1>0, <1>9, Numbered DEF WorkerDies, Working, Carried, CarriedBy
  <2> QED
    BY <1>9, <2>1, <2>2, <2>3 DEF WorkerDies, TypeOK
<1>10. ASSUME NEW th \in Threads, PutRecord(th) PROVE TypeOK'
  <2>1. req[th].key \in Keys
    BY <1>10 DEF PutRecord, At, Carried, CarriedBy
  <2>2. recs' \in [Blinds -> Records]
    <3> DEFINE b == <<req[th].item, req[th].key>>
    <3>1. recs \in [Blinds -> Records] /\ b \in Blinds
      BY <1>0, <2>1 DEF Requests, Blinds
    <3>2. Box(req[th].key, recs[b].tag) \in Records
      BY <2>1, <3>1, RecordTypes
    <3>3. recs' = recs \/ recs' = [recs EXCEPT ![b] = Box(req[th].key, recs[b].tag)]
      BY <1>10 DEF PutRecord
    <3> QED
      BY <3>1, <3>2, <3>3
  <2>3. PICK st \in Stages : Finish(th, st)
    BY <1>10 DEF PutRecord, Stages
  <2> QED
    BY <1>10, <2>2, <2>3, FinishKeeps DEF PutRecord, TypeOK
<1>11. ASSUME NEW th \in Threads, RekeyBegin(th) PROVE TypeOK'
  <2>1. req[th].tab \in Tabs \cup {NoTab}
    BY <1>0 DEF Requests
  <2> QED
    BY <1>11, <2>1, FinishKeeps DEF RekeyBegin, TypeOK, Stages
<1>12. ASSUME NEW th \in Threads, RekeyCommit(th) PROVE TypeOK'
  <2>1. CASE CommitAllowed(req[th])
    <3>1. vaultKey + 1 \in Keys /\ req[th].with \in Commitments /\ req[th].tab \in Tabs
      BY <1>0, <1>12, <2>1 DEF RekeyCommit, Requests, At, Carried, CarriedBy
    <3>2. \A r \in Records : Resealed(r, vaultKey + 1) \in Records
      BY <3>1, RecordTypes DEF Resealed
    <3>3. \A b \in Blinds : <<b[1], vaultKey>> \in Blinds
      BY <1>0 DEF Blinds
    <3>4. recs' \in [Blinds -> Records]
      <4>1. recs' = [b \in Blinds |-> IF b[2] = vaultKey + 1
                                      THEN Resealed(recs[<<b[1], vaultKey>>], vaultKey + 1) ELSE NoRec]
        BY <1>12, <2>1 DEF RekeyCommit
      <4>2. \A b \in Blinds : Resealed(recs[<<b[1], vaultKey>>], vaultKey + 1) \in Records
        BY <1>0, <3>2, <3>3
      <4> QED
        BY <4>1, <4>2, RecordTypes
    <3>5. req' \in [Threads -> Requests]
      BY <1>12, <2>1, FinishKeeps DEF RekeyCommit, Stages
    <3>6. vaultKey' \in Keys /\ committed' \in Commitments /\ rekey' = NoTab
      BY <1>0, <1>12, <2>1, <3>1 DEF RekeyCommit
    <3>7. revoked' \subseteq Tabs /\ survivors' \subseteq Tabs
      BY <1>0, <1>12, <2>1, <3>1 DEF RekeyCommit
    <3> QED
      BY <1>0, <1>12, <3>4, <3>5, <3>6, <3>7 DEF RekeyCommit, TypeOK
  <2>2. CASE ~CommitAllowed(req[th])
    BY <1>12, <2>2, FinishKeeps DEF RekeyCommit, TypeOK, Stages
  <2> QED
    BY <2>1, <2>2
<1>13. ASSUME NEW th \in Threads, Refuse(th) PROVE TypeOK'
  BY <1>13, FinishKeeps DEF Refuse, TypeOK, Stages
<1>14. ASSUME NEW th \in Threads, SaveSession(th) PROVE TypeOK'
  <2>1. req[th].tab \in Tabs
    BY <1>14 DEF SaveSession, Carried, CarriedBy
  <2>2. Continue(tab[req[th].tab], req[th]) \in Pages
    BY <1>0, <2>1, ContinueType
  <2>3. tab' \in [Tabs -> Pages]
    BY <1>0, <1>14, <2>2 DEF SaveSession
  <2>4. req' \in [Threads -> Requests]
    BY <1>0, <1>14, FreeType DEF SaveSession
  <2> QED
    BY <1>14, <2>1, <2>3, <2>4 DEF SaveSession, TypeOK
<1>15. ASSUME NEW t \in Tabs, NEW th \in Threads, Start(t, th) \/ Follow(t, th) PROVE TypeOK'
  <2>1. PICK op \in Ops : Send(t, th, op)
    BY <1>15 DEF Start, Follow, Ops
  <2>2. req' \in [Threads -> Requests]
    BY <1>0, <2>1, SendFacts
  <2>3. tab' \in [Tabs -> Pages]
    BY <1>0, <2>1 DEF Send, Pages
  <2> QED
    BY <2>1, <2>2, <2>3 DEF Send, TypeOK
<1>16. ASSUME NEW t \in Tabs, SignedOut(t) \/ GiveUp(t) \/ Unlock(t) PROVE TypeOK'
  <2>1. tab' \in [Tabs -> Pages]
    BY <1>0, <1>16, Constants DEF SignedOut, GiveUp, Unlock, Pages, Ops
  <2>2. req' \in [Threads -> Requests]
    BY <1>0, <1>16, Heard DEF SignedOut, GiveUp, Unlock
  <2> QED
    BY <1>16, <2>1, <2>2 DEF SignedOut, GiveUp, Unlock, TypeOK
<1>17. ASSUME NEW c \in Chals, Expire(c) PROVE TypeOK'
  <2>1. chal' \in [Chals -> Challenges]
    BY <1>0, <1>17 DEF Expire, Challenges
  <2> QED
    BY <1>17, <2>1 DEF Expire, TypeOK
<1>18. CASE RekeyEnds
  BY <1>18 DEF RekeyEnds, TypeOK
<1>19. CASE UNCHANGED vars
  BY <1>19 DEF vars, TypeOK
<1> QED
  BY <1>1, <1>2, <1>3, <1>4, <1>5, <1>6, <1>7, <1>8, <1>9, <1>10, <1>11, <1>12, <1>13, <1>14,
     <1>15, <1>16, <1>17, <1>18, <1>19 DEF Next, Step
-----------------------------------------------------------------------------
(* What requests carry, and where pages wait *)

\* The steps of a handler between the arrival of a call and its answer.
Handling(th) ==
    \/ IssueSalt(th) \/ Enroll(th) \/ IssueChallenge(th)
    \/ ReadKey(th) \/ Claim(th) \/ Verify(th) \/ Refund(th) \/ StoreProven(th)
    \/ PutRecord(th) \/ RekeyBegin(th) \/ RekeyCommit(th) \/ Refuse(th)

\* One of these steps moves its request on and leaves the pages alone.
LEMMA HandlingKeeps ==
    ASSUME TypeOK, NEW th \in Threads, Handling(th)
    PROVE  /\ tab' = tab
           /\ \A o \in Threads \ {th} : req'[o] = req[o]
           /\ req'[th].op = req[th].op /\ req'[th].tab = req[th].tab
           /\ req'[th].heard = req[th].heard /\ req'[th].key = req[th].key
           /\ req[th].st # "free" /\ req'[th].st # "free"
<1> USE DEF Rest, At
<1>1. req[th] \in Requests /\ req \in [Threads -> Requests]
  BY DEF TypeOK
<1>2. CASE IssueSalt(th) /\ ~Enrolled
  BY <1>1, <1>2 DEF IssueSalt, Requests
<1>3. CASE IssueChallenge(th) /\ Enrolled /\ zkSalt # 0
  <2>1. PICK c \in Chals :
           req' = [req EXCEPT ![th].chal = c, ![th].read = committed,
                              ![th].with = [key |-> req[th].key, salt |-> zkSalt],
                              ![th].st = "ok"]
    BY <1>3 DEF IssueChallenge
  <2> QED
    BY <1>1, <1>3, <2>1 DEF IssueChallenge, Requests
<1>4. CASE ReadKey(th)
  BY <1>1, <1>4 DEF ReadKey, Requests
<1>5. ASSUME NEW st \in Stages \ {"free"}, Finish(th, st), tab' = tab, req[th].st # "free"
      PROVE  /\ tab' = tab
             /\ \A o \in Threads \ {th} : req'[o] = req[o]
             /\ req'[th].op = req[th].op /\ req'[th].tab = req[th].tab
             /\ req'[th].heard = req[th].heard /\ req'[th].key = req[th].key
             /\ req[th].st # "free" /\ req'[th].st # "free"
  <2>1. req'[th] = [req[th] EXCEPT !.st = st] /\ \A o \in Threads \ {th} : req'[o] = req[o]
    BY <1>5, FinishKeeps
  <2> QED
    BY <1>1, <1>5, <2>1 DEF Requests
<1>6. CASE IssueSalt(th) /\ Enrolled
  BY <1>5, <1>6 DEF IssueSalt, Stages
<1>7. CASE IssueChallenge(th) /\ ~(Enrolled /\ zkSalt # 0)
  BY <1>5, <1>7 DEF IssueChallenge, Stages
<1>8. CASE Enroll(th) \/ Claim(th)
  BY <1>5, <1>8 DEF Enroll, Claim, Verdict, Stages
<1>9. CASE Verify(th)
  BY <1>5, <1>9 DEF Verify, Verdicts, Stages
<1>10. CASE Refund(th) \/ StoreProven(th) \/ PutRecord(th) \/ RekeyBegin(th) \/ Refuse(th)
  BY <1>5, <1>10 DEF Refund, StoreProven, PutRecord, RekeyBegin, Refuse, Stages
<1>11. CASE RekeyCommit(th)
  BY <1>5, <1>11 DEF RekeyCommit, Stages
<1> QED
  BY <1>2, <1>3, <1>4, <1>6, <1>7, <1>8, <1>9, <1>10, <1>11 DEF Handling

LEMMA CarriedEach ==
    ASSUME Carried, NEW th \in Threads, \A o \in Threads \ {th} : req'[o] = req[o],
           CarriedBy(req'[th])
    PROVE  Carried'
BY DEF Carried

\* Ending a step without going further into a submission.
LEMMA CarriedFinish ==
    ASSUME TypeOK, Carried, NEW th \in Threads, NEW st \in Stages, Finish(th, st),
           st # "free", st # "keyed", req[th].st # "free",
           st \in {"claimed", "down", "valid"} => req[th].st \in {"keyed", "claimed"} /\ SameStatement(req[th]),
           st = "ok" => req[th].op # "challenge"
    PROVE  Carried'
<1>1. req[th] \in Requests /\ CarriedBy(req[th])
  BY DEF TypeOK, Carried
<1>2. req'[th] = [req[th] EXCEPT !.st = st] /\ \A o \in Threads \ {th} : req'[o] = req[o]
  BY FinishKeeps
<1>3. CarriedBy([req[th] EXCEPT !.st = st])
  BY <1>1 DEF CarriedBy, Working, Requests, SameStatement
<1> QED
  BY <1>2, <1>3, CarriedEach

LEMMA HandlingCarried ==
    ASSUME TypeOK, Carried, Awaited, NEW th \in Threads, Handling(th)
    PROVE  Carried'
<1> USE DEF At
<1>1. /\ req[th] \in Requests /\ CarriedBy(req[th]) /\ req \in [Threads -> Requests]
      /\ \A o \in Threads \ {th} : req'[o] = req[o]
  BY HandlingKeeps DEF TypeOK, Carried
<1>2. CASE IssueSalt(th) /\ ~Enrolled
  <2>1. req'[th] = [req[th] EXCEPT !.st = "ok", !.with = [key |-> 0, salt |-> salts + 1]]
    BY <1>1, <1>2 DEF IssueSalt
  <2>2. CarriedBy(req'[th])
    BY <1>1, <1>2, <2>1 DEF IssueSalt, CarriedBy, Working, Requests
  <2> QED
    BY <1>1, <2>2, CarriedEach
<1>3. CASE IssueChallenge(th) /\ Enrolled /\ zkSalt # 0
  <2>1. PICK c \in Chals :
           req' = [req EXCEPT ![th].chal = c, ![th].read = committed,
                              ![th].with = [key |-> req[th].key, salt |-> zkSalt],
                              ![th].st = "ok"]
    BY <1>3 DEF IssueChallenge
  <2>2. req'[th] = [req[th] EXCEPT !.chal = c, !.read = committed,
                                   !.with = [key |-> req[th].key, salt |-> zkSalt], !.st = "ok"]
    BY <1>1, <2>1
  <2>3. req[th].op = "challenge" /\ req[th].st = "sent" /\ c # 0
    <3>1. req[th].op = "challenge" /\ req[th].st = "sent"
      BY <1>3 DEF IssueChallenge
    <3>2. c # 0
      BY ZkpExpenseAssumption DEF Chals
    <3> QED
      BY <3>1, <3>2
  <2>4. /\ req'[th].st = "ok" /\ req'[th].chal = c
        /\ req'[th].op = "challenge" /\ req'[th].heard = req[th].heard
        /\ req'[th].tab = req[th].tab /\ req'[th].key = req[th].key
    <3> DEFINE r1 == [req[th] EXCEPT !.chal = c]
               r2 == [r1 EXCEPT !.read = committed]
               r3 == [r2 EXCEPT !.with = [key |-> req[th].key, salt |-> zkSalt]]
    <3>1. req'[th] = [r3 EXCEPT !.st = "ok"]
      BY <2>2
    <3> QED
      BY <1>1, <2>3, <3>1 DEF Requests
  <2>5. CarriedBy(req'[th])
    BY <1>1, <2>3, <2>4 DEF CarriedBy, Working
  <2> QED
    BY <1>1, <2>5, CarriedEach
<1>4. CASE ReadKey(th)
  <2>1. req'[th] = [req[th] EXCEPT !.st = IF Enrolled /\ zkSalt # 0 THEN "keyed" ELSE "no",
                                   !.read = committed]
    BY <1>1, <1>4 DEF ReadKey
  <2>2. Enrolled => committed.key \in Keys
    BY DEF Awaited
  <2>3. CarriedBy(req'[th])
    BY <1>1, <1>4, <2>1, <2>2 DEF ReadKey, CarriedBy, Working, Requests
  <2> QED
    BY <1>1, <2>3, CarriedEach
<1>5. CASE IssueSalt(th) /\ Enrolled
  BY <1>5, CarriedFinish DEF IssueSalt, Stages
<1>6. CASE IssueChallenge(th) /\ ~(Enrolled /\ zkSalt # 0)
  BY <1>6, CarriedFinish DEF IssueChallenge, Stages
<1>7. CASE Enroll(th)
  BY <1>7, CarriedFinish DEF Enroll, Verdict, Stages
<1>8. CASE Claim(th)
  BY <1>8, CarriedFinish DEF Claim, Verdict, Stages
<1>9. CASE Verify(th)
  <2>1. SameStatement(req[th])
    BY <1>1, <1>9 DEF Verify, CarriedBy, Working, SameStatement
  <2> QED
    BY <1>9, <2>1, CarriedFinish DEF Verify, Verdicts, Stages
<1>10. CASE Refund(th) \/ StoreProven(th) \/ PutRecord(th) \/ RekeyBegin(th) \/ Refuse(th)
  BY <1>10, CarriedFinish DEF Refund, StoreProven, PutRecord, RekeyBegin, Refuse, Stages
<1>11. CASE RekeyCommit(th)
  BY <1>11, CarriedFinish DEF RekeyCommit, Stages
<1> QED
  BY <1>2, <1>3, <1>4, <1>5, <1>6, <1>7, <1>8, <1>9, <1>10, <1>11 DEF Handling

LEMMA FreeCarried == CarriedBy(Free)
BY FreeType DEF CarriedBy, Working, Free

\* A call leaves a page that has keys.
LEMMA SentCarried ==
    ASSUME TypeOK, Carried, Awaited, NEW t \in Tabs, NEW th \in Threads, NEW op \in Ops \ {"none"},
           Send(t, th, op), tab[t].key # 0, op = "manual" => tab[t].chal # 0
    PROVE  Carried'
<1>1. PICK i \in Items, r \in Requests :
         /\ r = [st |-> "sent", op |-> op, tab |-> t, heard |-> TRUE, item |-> i,
                 key |-> tab[t].key, chal |-> IF op = "manual" THEN tab[t].chal ELSE 0,
                 with |-> Body(t, op), read |-> None]
         /\ req' = [req EXCEPT ![th] = r]
  BY SendFacts
<1>2. tab[t].key \in Keys
  BY DEF TypeOK, Pages, Keys
<1>3. op = "enroll" => r.with.key = tab[t].key
  BY <1>1 DEF Body
<1>4. CarriedBy(r)
  BY <1>1, <1>2, <1>3 DEF CarriedBy, Working
<1> QED
  BY <1>1, <1>4, Edited, CarriedEach

LEMMA PageCarried ==
    ASSUME TypeOK, Carried, Awaited, NEW t \in Tabs, NEW th \in Threads, Start(t, th) \/ Follow(t, th)
    PROVE  Carried'
<1>1. PICK op \in Ops \ {"none"} : Send(t, th, op) /\ (op = "manual" => tab[t].chal # 0) /\ tab[t].key # 0
  BY DEF Start, Follow, Ops, Awaited
<1> QED
  BY <1>1, SentCarried

LEMMA NextCarried == TypeOK /\ Carried /\ Awaited /\ [Next]_vars => Carried'
<1> SUFFICES ASSUME TypeOK, Carried, Awaited, [Next]_vars PROVE Carried'
  OBVIOUS
<1>1. ASSUME NEW th \in Threads, Handling(th) PROVE Carried'
  BY <1>1, HandlingCarried
<1>2. ASSUME NEW th \in Threads, WorkerDies(th) \/ SaveSession(th) PROVE Carried'
  <2>1. req'[th] = Free /\ \A o \in Threads \ {th} : req'[o] = req[o]
    BY <1>2 DEF WorkerDies, SaveSession, TypeOK
  <2> QED
    BY <2>1, FreeCarried, CarriedEach
<1>3. ASSUME NEW t \in Tabs, NEW th \in Threads, Start(t, th) \/ Follow(t, th) PROVE Carried'
  BY <1>3, PageCarried
<1>4. ASSUME NEW t \in Tabs, GiveUp(t) PROVE Carried'
  <2>1. PICK th \in Threads : /\ req[th].tab = t /\ req[th].heard /\ req[th].op = "manual"
                              /\ req' = [req EXCEPT ![th].heard = FALSE]
    BY <1>4 DEF GiveUp
  <2>2. req[th] \in Requests /\ CarriedBy(req[th])
    BY DEF TypeOK, Carried
  <2>3. CarriedBy([req[th] EXCEPT !.heard = FALSE])
    BY <2>1, <2>2 DEF CarriedBy, Working, Requests
  <2> QED
    BY <2>1, <2>3, Heard, CarriedEach
<1>5. ASSUME NEW t \in Tabs, SignedOut(t) \/ Unlock(t) PROVE Carried'
  BY <1>5 DEF SignedOut, Unlock, Carried
<1>6. CASE (\E c \in Chals : Expire(c)) \/ RekeyEnds \/ UNCHANGED vars
  BY <1>6 DEF Expire, RekeyEnds, Rest, vars, Carried
<1> QED
  BY <1>1, <1>2, <1>3, <1>4, <1>5, <1>6 DEF Next, Step, Handling

\* Where a page stands, given the request whose answer it awaits.
Kept(page) == (page.at # "none" => page.key # 0) /\ (page.at = "manual" => page.chal # 0)

LEMMA ContinueKept ==
    ASSUME NEW page \in Pages, NEW r \in Requests, Kept(page), CarriedBy(r),
           r.st \in {"ok", "no"}, page.at = r.op
    PROVE  Kept(Continue(page, r))
BY DEF Kept, Continue, CarriedBy, Pages, Page

LEMMA HandlingAwaited ==
    ASSUME TypeOK, Carried, Awaited, Bodies, NEW th \in Threads, Handling(th)
    PROVE  Awaited'
<1>1. /\ tab' = tab
      /\ \A o \in Threads : /\ req'[o].heard = req[o].heard /\ req'[o].tab = req[o].tab
                            /\ req'[o].op = req[o].op
  BY HandlingKeeps
<1>2. (Enrolled => committed.key \in Keys)'
  <2>1. CASE Enroll(th)
    <3>1. req[th].with.key \in Keys
      BY <2>1 DEF Enroll, At, Carried, CarriedBy
    <3> QED
      BY <2>1, <3>1 DEF Enroll, Awaited, Enrolled
  <2>2. CASE RekeyCommit(th)
    <3>1. CASE CommitAllowed(req[th]) /\ req[th].with # None
      <4>1. req[th].with.key = vaultKey + 1 /\ vaultKey + 1 \in Keys
        BY <2>2, <3>1 DEF RekeyCommit, CommitAllowed, At, Bodies
      <4>2. committed' = req[th].with
        BY <2>2, <3>1 DEF RekeyCommit
      <4> QED
        BY <4>1, <4>2
    <3>2. CASE ~(CommitAllowed(req[th]) /\ req[th].with # None)
      BY <2>2, <3>2 DEF RekeyCommit, Awaited, Enrolled
    <3> QED
      BY <3>1, <3>2
  <2>3. CASE committed' = committed
    BY <2>3 DEF Awaited, Enrolled
  <2> QED
    BY <2>1, <2>2, <2>3 DEF Handling, Vault, IssueSalt, IssueChallenge, ReadKey, Claim, Verify,
       Refund, StoreProven, PutRecord, RekeyBegin, Refuse
<1> QED
  BY <1>1, <1>2 DEF Awaited

(* A request ends: its page, if it still waits, moves on. *)
LEMMA EndedAwaited ==
    ASSUME TypeOK, Carried, Awaited, NEW th \in Threads, SaveSession(th) \/ WorkerDies(th)
    PROVE  Awaited'
<1> DEFINE t == req[th].tab
<1>1. t \in Tabs /\ req[th] \in Requests /\ CarriedBy(req[th]) /\ tab[t] \in Pages
  BY DEF TypeOK, Carried, CarriedBy, SaveSession, WorkerDies
<1>2. /\ \A o \in Threads \ {th} : req'[o] = req[o]
      /\ ~req'[th].heard
      /\ committed' = committed
  BY FreeType DEF SaveSession, WorkerDies, TypeOK, Vault
<1>3. Kept(tab[t])
  BY <1>1 DEF Awaited, Kept
<1>5. Kept(tab'[t])
  <2>1. CASE SaveSession(th)
    <3>1. CASE req[th].heard
      <4>1. req[th].st \in {"ok", "no"} /\ tab'[t] = Continue(tab[t], req[th])
        BY <1>1, <2>1, <3>1 DEF SaveSession, TypeOK
      <4>2. tab[t].at = req[th].op
        BY <3>1 DEF Awaited
      <4> QED
        BY <1>1, <1>3, <4>1, <4>2, ContinueKept
    <3>2. CASE ~req[th].heard
      BY <1>3, <2>1, <3>2 DEF SaveSession
    <3> QED
      BY <3>1, <3>2
  <2>2. CASE WorkerDies(th)
    BY <1>1, <1>3, <2>2 DEF WorkerDies, TypeOK, Kept, Pages
  <2> QED
    BY <2>1, <2>2
<1>6. \A u \in Tabs \ {t} : tab'[u] = tab[u]
  BY <1>1 DEF SaveSession, WorkerDies, TypeOK
<1>7. ~req[th].heard => tab' = tab
  BY DEF SaveSession, WorkerDies
<1>8. ASSUME NEW o \in Threads, req'[o].heard
      PROVE  /\ tab'[req'[o].tab].at = req'[o].op
             /\ \A p \in Threads : req'[p].heard /\ req'[p].tab = req'[o].tab => p = o
  <2>1. o # th /\ req'[o] = req[o] /\ req[o].tab \in Tabs
    BY <1>2, <1>8 DEF Carried, CarriedBy
  <2>2. req[th].heard => req[o].tab # t
    BY <1>8, <2>1 DEF Awaited
  <2>3. tab'[req[o].tab] = tab[req[o].tab]
    BY <1>6, <1>7, <2>1, <2>2
  <2>4. \A p \in Threads : req'[p].heard => req'[p] = req[p]
    BY <1>2
  <2> QED
    BY <1>8, <2>1, <2>3, <2>4 DEF Awaited
<1>9. \A u \in Tabs : Kept(tab'[u])
  <2> TAKE u \in Tabs
  <2>1. u # t => Kept(tab'[u])
    BY <1>6 DEF Awaited, Kept
  <2> QED
    BY <1>5, <2>1
<1> QED
  BY <1>2, <1>8, <1>9 DEF Awaited, Kept, Enrolled

LEMMA SentAwaited ==
    ASSUME TypeOK, Carried, Awaited, NEW t \in Tabs, NEW th \in Threads, NEW op \in Ops \ {"none"},
           Send(t, th, op), tab[t].key # 0, op = "manual" => tab[t].chal # 0
    PROVE  Awaited'
<1>1. PICK i \in Items, r \in Requests :
         /\ r = [st |-> "sent", op |-> op, tab |-> t, heard |-> TRUE, item |-> i,
                 key |-> tab[t].key, chal |-> IF op = "manual" THEN tab[t].chal ELSE 0,
                 with |-> Body(t, op), read |-> None]
         /\ req' = [req EXCEPT ![th] = r]
  BY SendFacts
<1>2. \A o \in Threads : req'[o] = IF o = th THEN r ELSE req[o]
  BY <1>1, Edited
<1>3. r.heard /\ r.tab = t /\ r.op = op
  BY <1>1
<1>4. \A o \in Threads : ~(req[o].tab = t /\ req[o].heard)
  BY DEF Send, Waiting
<1>5. tab' = [tab EXCEPT ![t].at = op] /\ committed' = committed
  BY DEF Send, Vault
<1>6. /\ tab'[t].at = op /\ tab'[t].key = tab[t].key /\ tab'[t].chal = tab[t].chal
      /\ \A u \in Tabs \ {t} : tab'[u] = tab[u]
  BY <1>5 DEF TypeOK, Pages
<1>7. ASSUME NEW o \in Threads, req'[o].heard
      PROVE  /\ tab'[req'[o].tab].at = req'[o].op
             /\ \A p \in Threads : req'[p].heard /\ req'[p].tab = req'[o].tab => p = o
  <2>1. CASE o = th
    BY <1>2, <1>3, <1>4, <1>6, <2>1
  <2>2. CASE o # th
    <3>1. req'[o] = req[o] /\ req[o].tab \in Tabs \ {t}
      BY <1>2, <1>4, <1>7, <2>2 DEF Carried, CarriedBy
    <3> QED
      BY <1>2, <1>3, <1>6, <1>7, <2>2, <3>1 DEF Awaited
  <2> QED
    BY <2>1, <2>2
<1>8. \A u \in Tabs : /\ tab'[u].at # "none" => tab'[u].key # 0
                      /\ tab'[u].at = "manual" => tab'[u].chal # 0
  BY <1>6 DEF Awaited
<1> QED
  BY <1>5, <1>7, <1>8 DEF Awaited, Enrolled

LEMMA NextAwaited == TypeOK /\ Carried /\ Awaited /\ Bodies /\ [Next]_vars => Awaited'
<1> SUFFICES ASSUME TypeOK, Carried, Awaited, Bodies, [Next]_vars PROVE Awaited'
  OBVIOUS
<1>1. ASSUME NEW th \in Threads, Handling(th) PROVE Awaited'
  BY <1>1, HandlingAwaited
<1>2. ASSUME NEW th \in Threads, WorkerDies(th) \/ SaveSession(th) PROVE Awaited'
  BY <1>2, EndedAwaited
<1>3. ASSUME NEW t \in Tabs, NEW th \in Threads, Start(t, th) \/ Follow(t, th) PROVE Awaited'
  <2>1. PICK op \in Ops \ {"none"} : Send(t, th, op) /\ (op = "manual" => tab[t].chal # 0) /\ tab[t].key # 0
    BY <1>3 DEF Start, Follow, Ops, Awaited
  <2> QED
    BY <2>1, SentAwaited
<1>4. ASSUME NEW t \in Tabs, GiveUp(t) PROVE Awaited'
  <2>1. PICK th \in Threads : /\ req[th].tab = t /\ req[th].heard
                              /\ req' = [req EXCEPT ![th].heard = FALSE]
    BY <1>4 DEF GiveUp
  <2>2. /\ ~req'[th].heard /\ \A o \in Threads \ {th} : req'[o] = req[o]
    BY <2>1, Heard DEF TypeOK, Requests
  <2>3. /\ tab'[t].at = "none" /\ \A u \in Tabs \ {t} : tab'[u] = tab[u]
        /\ committed' = committed
    BY <1>4 DEF GiveUp, TypeOK, Pages, Vault
  <2>4. ASSUME NEW o \in Threads, req'[o].heard
        PROVE  o # th /\ req'[o] = req[o] /\ req[o].tab \in Tabs \ {t}
    BY <2>1, <2>2, <2>4 DEF Awaited, Carried, CarriedBy
  <2> QED
    BY <2>3, <2>4 DEF Awaited, Enrolled
<1>5. ASSUME NEW t \in Tabs, SignedOut(t) \/ Unlock(t) PROVE Awaited'
  <2>1. req' = req /\ committed' = committed /\ \A u \in Tabs \ {t} : tab'[u] = tab[u]
    BY <1>5 DEF SignedOut, Unlock, TypeOK, Vault
  <2>2. tab'[t].at = "none"
    BY <1>5 DEF SignedOut, Unlock, TypeOK, Pages, Page
  <2>3. ASSUME NEW o \in Threads, req[o].heard
        PROVE  req[o].tab \in Tabs \ {t}
    BY <1>5, <2>3 DEF SignedOut, Unlock, Waiting, Page, Awaited, Carried, CarriedBy
  <2> QED
    BY <2>1, <2>2, <2>3 DEF Awaited, Enrolled
<1>6. CASE (\E c \in Chals : Expire(c)) \/ RekeyEnds \/ UNCHANGED vars
  BY <1>6 DEF Expire, RekeyEnds, Rest, vars, Vault, Awaited, Enrolled
<1> QED
  BY <1>1, <1>2, <1>3, <1>4, <1>5, <1>6 DEF Next, Step, Handling
-----------------------------------------------------------------------------
(* What challenges are worth *)

Settled == Claims /\ OutageBurnsNothing

LEMMA WorkingChal ==
    ASSUME TypeOK, Carried, NEW th \in Threads, req[th].st = "keyed" \/ Working(req[th])
    PROVE  req[th].chal \in Chals
BY Numbered DEF TypeOK, Carried, CarriedBy

(* A step that claims, judges, refunds and stores nothing. *)
LEMMA Unsettling ==
    ASSUME TypeOK, Carried, Settled, judged' = judged, accepted' = accepted, lost \subseteq lost',
           \A c \in Chals : chal'[c].spent = chal[c].spent,
           \A th \in Threads :
              \/ /\ req'[th].st = req[th].st /\ req'[th].chal = req[th].chal
              \/ /\ ~Working(req'[th])
                 /\ req[th].st \in {"claimed", "down"} => req[th].chal \in lost'
                 /\ req[th].st # "valid"
    PROVE  Settled'
<1>1. \A th \in Threads : Working(req'[th]) =>
         req'[th].st = req[th].st /\ req'[th].chal = req[th].chal /\ req[th].chal \in Chals
  BY WorkingChal DEF Working
<1>2. judged \subseteq Chals
  BY DEF TypeOK
<1>3. Claims'
  BY <1>1, <1>2 DEF Settled, Claims, Working
<1>4. OutageBurnsNothing'
  BY DEF Settled, OutageBurnsNothing
<1> QED
  BY <1>3, <1>4 DEF Settled

LEMMA ClaimSettled ==
    ASSUME TypeOK, Carried, Settled, NEW th \in Threads, Claim(th)
    PROVE  Settled'
<1> DEFINE c == req[th].chal
<1>1. c \in Chals /\ req[th] \in Requests /\ req[th].st = "keyed"
  BY WorkingChal DEF Claim, At, TypeOK
<1>2. accepted' = accepted /\ lost' = lost
  BY DEF Claim
<1>3. CASE Claimable(req[th])
  <2> DEFINE st == IF SameStatement(req[th]) THEN "claimed" ELSE "no"
  <2>1. Finish(th, st)
    BY <1>3 DEF Claim, Verdict
  <2>2. req'[th].st = st /\ req'[th].chal = c /\ \A o \in Threads \ {th} : req'[o] = req[o]
    BY <2>1, Finished DEF Stages
  <2>3. chal'[c].spent /\ \A d \in Chals \ {c} : chal'[d] = chal[d]
    BY <1>1, <1>3 DEF Claim, TypeOK, Challenges
  <2>4. ~chal[c].spent
    BY <1>3 DEF Claimable
  <2>5. c \notin judged /\ accepted[c] = 0 /\ \A o \in Threads : Working(req[o]) => req[o].chal # c
    BY <1>1, <2>4 DEF Settled, Claims
  <2>6. judged' = IF SameStatement(req[th]) THEN judged ELSE judged \cup {c}
    BY <1>3 DEF Claim
  <2>7. \A o \in Threads : Working(req[o]) => req[o].chal \in Chals
    BY WorkingChal
  <2>8. \A d \in judged' : chal'[d].spent
    BY <2>3, <2>6 DEF Settled, Claims, TypeOK
  <2>9. ASSUME NEW o \in Threads, Working(req'[o])
        PROVE  /\ chal'[req'[o].chal].spent
               /\ \A p \in Threads : Working(req'[p]) /\ req'[p].chal = req'[o].chal => p = o
               /\ req'[o].st = "valid" => req'[o].chal \in judged' /\ accepted[req'[o].chal] = 0
               /\ req'[o].st \in {"claimed", "down"} => req'[o].chal \notin judged'
    <3>1. CASE o = th
      <4>1. SameStatement(req[th]) /\ req'[o].st = "claimed"
        BY <1>1, <2>2, <2>9, <3>1 DEF Working
      <4> QED
        BY <2>2, <2>3, <2>5, <2>6, <3>1, <4>1
    <3>2. CASE o # th
      <4>1. req'[o] = req[o] /\ Working(req[o]) /\ req[o].chal \in Chals \ {c}
        BY <2>2, <2>5, <2>7, <2>9, <3>2
      <4>2. \A p \in Threads \ {th} : req'[p] = req[p]
        BY <2>2
      <4> QED
        BY <2>2, <2>3, <2>6, <4>1, <4>2 DEF Settled, Claims
    <3> QED
      BY <3>1, <3>2
  <2>10. Claims'
    BY <1>2, <2>6, <2>8, <2>9 DEF Settled, Claims, Working
  <2>11. ASSUME NEW d \in Chals, chal'[d].spent
         PROVE  \/ d \in judged' \cup lost'
                \/ \E o \in Threads : req'[o].chal = d /\ req'[o].st \in {"claimed", "down"}
    <3>1. CASE d = c
      BY <2>2, <2>6, <3>1
    <3>2. CASE d # c
      BY <1>1, <1>2, <2>2, <2>3, <2>6, <2>11, <3>2 DEF Settled, OutageBurnsNothing
    <3> QED
      BY <3>1, <3>2
  <2>12. OutageBurnsNothing'
    BY <2>11 DEF OutageBurnsNothing
  <2> QED
    BY <2>10, <2>12 DEF Settled
<1>4. CASE ~Claimable(req[th])
  <2>1. Finish(th, "no")
    BY <1>4 DEF Claim, Verdict
  <2>2. ~Working(req'[th]) /\ \A o \in Threads \ {th} : req'[o] = req[o]
    BY <2>1, Finished DEF Stages, Working
  <2>3. judged' = judged /\ chal' = chal
    BY <1>4 DEF Claim
  <2> QED
    BY <1>1, <1>2, <2>2, <2>3, Unsettling DEF Working
<1> QED
  BY <1>3, <1>4

(* The steps of the one submission that has the challenge in its hands. *)
LEMMA WorkSettled ==
    ASSUME TypeOK, Carried, Settled, NEW th \in Threads,
           Verify(th) \/ Refund(th) \/ StoreProven(th)
    PROVE  Settled'
<1> DEFINE c == req[th].chal
<1>1. /\ c \in Chals /\ req[th] \in Requests /\ Working(req[th])
      /\ \A o \in Threads : Working(req[o]) => req[o].chal \in Chals
  BY WorkingChal DEF Verify, Refund, StoreProven, At, TypeOK, Working
<1>2. PICK st \in Stages : Finish(th, st) /\ (Working([st |-> st]) => Verify(th))
  BY DEF Verify, Refund, StoreProven, Verdicts, Stages, Working
<1>3. \A o \in Threads \ {th} : Working(req[o]) => req[o].chal # c
  BY <1>1 DEF Settled, Claims
<1>4. req'[th].st = st /\ req'[th].chal = c /\ \A o \in Threads \ {th} : req'[o] = req[o]
  BY <1>2, Finished
<1>5. lost' = lost /\ \A d \in Chals \ {c} : chal'[d] = chal[d] /\ accepted'[d] = accepted[d]
                                            /\ (d \in judged' <=> d \in judged)
  BY <1>1 DEF Verify, Refund, StoreProven, TypeOK, History
(* Every other submission has another challenge, and nothing has changed for it. *)
<1>6. ASSUME NEW o \in Threads \ {th}, Working(req'[o])
      PROVE  /\ chal'[req'[o].chal].spent
             /\ req'[o].chal # c
             /\ \A p \in Threads \ {th} : Working(req'[p]) /\ req'[p].chal = req'[o].chal => p = o
             /\ req'[o].st = "valid" => req'[o].chal \in judged' /\ accepted'[req'[o].chal] = 0
             /\ req'[o].st \in {"claimed", "down"} => req'[o].chal \notin judged'
  <2>1. req'[o] = req[o] /\ Working(req[o]) /\ req[o].chal \in Chals \ {c}
    BY <1>1, <1>3, <1>4, <1>6
  <2> QED
    BY <1>4, <1>5, <2>1 DEF Settled, Claims
<1>7. ASSUME NEW d \in Chals \ {c}, chal'[d].spent
      PROVE  \/ d \in judged' \cup lost'
             \/ \E o \in Threads : req'[o].chal = d /\ req'[o].st \in {"claimed", "down"}
  BY <1>1, <1>4, <1>5, <1>7 DEF Settled, OutageBurnsNothing
<1>8. \A d \in Chals \ {c} : /\ d \in judged' => chal'[d].spent
                             /\ accepted'[d] <= 1 /\ (accepted'[d] # 0 => d \in judged')
  BY <1>5 DEF Settled, Claims
<1>9. chal[c].spent /\ judged' \subseteq Chals
  BY <1>1 DEF Settled, Claims, TypeOK, Verify, Refund, StoreProven, History
<1>10. /\ Working(req'[th]) => chal'[c].spent
       /\ st = "valid" => c \in judged' /\ accepted'[c] = 0
       /\ st \in {"claimed", "down"} => c \notin judged'
       /\ c \in judged' => chal'[c].spent
       /\ accepted'[c] <= 1 /\ (accepted'[c] # 0 => c \in judged')
       /\ chal'[c].spent => c \in judged' \/ st \in {"claimed", "down"}
  <2>1. CASE Verify(th)
    <3>1. c \notin judged /\ accepted[c] = 0
      BY <1>1, <2>1 DEF Verify, At, Settled, Claims
    <3>2. chal' = chal /\ accepted' = accepted
      BY <2>1 DEF Verify
    <3>3. PICK v \in Verdicts : /\ Finish(th, IF v = "invalid" THEN "no" ELSE v)
                                /\ judged' = IF v = "down" THEN judged ELSE judged \cup {c}
      BY <2>1 DEF Verify
    <3>4. st = IF v = "invalid" THEN "no" ELSE v
      <4>1. req'[th].st = IF v = "invalid" THEN "no" ELSE v
        BY <3>3, Finished DEF Verdicts, Stages
      <4> QED
        BY <1>4, <4>1
    <3> QED
      BY <1>9, <3>1, <3>2, <3>3, <3>4 DEF Verdicts
  <2>2. CASE Refund(th)
    <3>1. c \notin judged /\ accepted[c] = 0
      BY <1>1, <2>2 DEF Refund, At, Settled, Claims
    <3>2. ~chal'[c].spent /\ accepted' = accepted /\ judged' = judged
      BY <1>1, <2>2 DEF Refund, TypeOK, Challenges, History
    <3>3. st = "no"
      <4>1. req'[th].st = "no"
        BY <2>2, Finished DEF Refund, Stages
      <4> QED
        BY <1>4, <4>1
    <3> QED
      BY <1>4, <3>1, <3>2, <3>3 DEF Working
  <2>3. CASE StoreProven(th)
    <3>1. c \in judged /\ accepted[c] = 0
      BY <1>1, <2>3 DEF StoreProven, At, Settled, Claims
    <3>2. chal' = chal /\ judged' = judged /\ accepted'[c] \in {0, 1}
      BY <1>1, <2>3, <3>1 DEF StoreProven, TypeOK
    <3>3. st \in {"ok", "no"}
      <4>1. Finish(th, "ok") \/ Finish(th, "no")
        BY <2>3 DEF StoreProven
      <4> QED
        BY <1>4, <4>1, Finished DEF Stages
    <3> QED
      BY <1>4, <1>9, <3>1, <3>2, <3>3 DEF Working
  <2> QED
    BY <2>1, <2>2, <2>3
<1>11. Claims'
  <2>1. \A o \in Threads : Working(req'[o]) =>
          /\ chal'[req'[o].chal].spent
          /\ \A p \in Threads : Working(req'[p]) /\ req'[p].chal = req'[o].chal => p = o
    BY <1>4, <1>6, <1>10
  <2>2. \A o \in Threads :
          /\ req'[o].st = "valid" => req'[o].chal \in judged' /\ accepted'[req'[o].chal] = 0
          /\ req'[o].st \in {"claimed", "down"} => req'[o].chal \notin judged'
    BY <1>4, <1>6, <1>10 DEF Working
  <2>3. \A d \in judged' : chal'[d].spent
    BY <1>8, <1>9, <1>10
  <2>4. \A d \in Chals : accepted'[d] <= 1 /\ (accepted'[d] # 0 => d \in judged')
    BY <1>8, <1>10
  <2> QED
    BY <2>1, <2>2, <2>3, <2>4 DEF Claims, Working
<1>12. OutageBurnsNothing'
  BY <1>4, <1>7, <1>10 DEF OutageBurnsNothing
<1> QED
  BY <1>11, <1>12 DEF Settled

LEMMA NextSettled == TypeOK /\ Carried /\ Settled /\ [Next]_vars => Settled'
<1> SUFFICES ASSUME TypeOK, Carried, Settled, [Next]_vars PROVE Settled'
  OBVIOUS
<1>0. \A th \in Threads : req[th] \in Requests
  BY DEF TypeOK
<1>1. ASSUME NEW th \in Threads, Claim(th) PROVE Settled'
  BY <1>1, ClaimSettled
<1>2. ASSUME NEW th \in Threads, Verify(th) \/ Refund(th) \/ StoreProven(th) PROVE Settled'
  BY <1>2, WorkSettled
<1>3. ASSUME NEW th \in Threads,
             \/ IssueSalt(th) \/ Enroll(th) \/ IssueChallenge(th) \/ ReadKey(th)
             \/ PutRecord(th) \/ RekeyBegin(th) \/ RekeyCommit(th) \/ Refuse(th)
      PROVE  Settled'
  <2>1. \A o \in Threads \ {th} : req'[o] = req[o]
    BY <1>3, HandlingKeeps DEF Handling
  <2>2. ~Working(req[th])
    BY <1>3 DEF IssueSalt, Enroll, IssueChallenge, ReadKey, PutRecord, RekeyBegin, RekeyCommit,
       Refuse, At, Working
  <2>3. req'[th].st \in {"ok", "no", "keyed"}
    <3>1. CASE \E st \in {"ok", "no"} : Finish(th, st)
      BY <3>1, Finished DEF Stages
    <3>2. CASE IssueSalt(th) /\ ~Enrolled
      BY <1>0, <3>2 DEF IssueSalt, TypeOK, Requests
    <3>3. CASE IssueChallenge(th) /\ Enrolled /\ zkSalt # 0
      <4>1. PICK c \in Chals :
               req' = [req EXCEPT ![th].chal = c, ![th].read = committed,
                                  ![th].with = [key |-> req[th].key, salt |-> zkSalt],
                                  ![th].st = "ok"]
        BY <3>3 DEF IssueChallenge
      <4> QED
        BY <1>0, <4>1 DEF TypeOK, Requests
    <3>4. CASE ReadKey(th)
      BY <1>0, <3>4 DEF ReadKey, TypeOK, Requests
    <3> QED
      BY <1>3, <3>1, <3>2, <3>3, <3>4 DEF IssueSalt, Enroll, IssueChallenge, PutRecord,
         RekeyBegin, RekeyCommit, Refuse, Verdict
  <2>4. judged' = judged /\ accepted' = accepted /\ lost' = lost
    BY <1>3 DEF IssueSalt, Enroll, IssueChallenge, ReadKey, PutRecord, RekeyBegin, RekeyCommit,
       Refuse, History
  <2>5. \A c \in Chals : chal'[c].spent = chal[c].spent
    <3>1. CASE IssueChallenge(th) /\ Enrolled /\ zkSalt # 0
      <4>1. PICK c \in Chals : chal' = [chal EXCEPT ![c].tab = req[th].tab]
        BY <3>1 DEF IssueChallenge
      <4> QED
        BY <4>1 DEF TypeOK, Challenges
    <3>2. CASE chal' = chal
      BY <3>2
    <3> QED
      BY <1>3, <3>1, <3>2 DEF IssueSalt, Enroll, IssueChallenge, ReadKey, PutRecord, RekeyBegin,
         RekeyCommit, Refuse
  <2> QED
    BY <2>1, <2>2, <2>3, <2>4, <2>5, Unsettling DEF Working
<1>4. ASSUME NEW th \in Threads, WorkerDies(th) \/ SaveSession(th) PROVE Settled'
  <2>1. req'[th] = Free /\ \A o \in Threads \ {th} : req'[o] = req[o]
    BY <1>4 DEF WorkerDies, SaveSession, TypeOK
  <2>2. judged' = judged /\ accepted' = accepted /\ chal' = chal /\ lost \subseteq lost'
    BY <1>4 DEF WorkerDies, SaveSession
  <2>3. req[th].st \in {"ok", "no"} \/ (req[th].st \in {"claimed", "down"} /\ req[th].chal \in lost')
    BY <1>4 DEF WorkerDies, SaveSession
  <2> QED
    BY <2>1, <2>2, <2>3, FreeType, Unsettling DEF Working
<1>5. ASSUME NEW t \in Tabs, NEW th \in Threads, NEW op \in Ops, Send(t, th, op) PROVE Settled'
  <2>1. PICK r \in Requests : r.st = "sent" /\ req' = [req EXCEPT ![th] = r]
    BY <1>5, SendFacts
  <2>2. req[th].st = "free"
    BY <1>5, FreeType DEF Send
  <2>3. judged' = judged /\ accepted' = accepted /\ chal' = chal /\ lost' = lost
    BY <1>5 DEF Send, History
  <2> QED
    BY <2>1, <2>2, <2>3, Edited, Unsettling DEF Working
<1>6. ASSUME NEW t \in Tabs, SignedOut(t) \/ GiveUp(t) \/ Unlock(t) PROVE Settled'
  <2>1. \A o \in Threads : req'[o].st = req[o].st /\ req'[o].chal = req[o].chal
    <3>1. CASE GiveUp(t)
      <4>1. PICK th \in Threads : req' = [req EXCEPT ![th].heard = FALSE]
        BY <3>1 DEF GiveUp
      <4> QED
        BY <1>0, <4>1, Heard DEF Requests
    <3>2. CASE SignedOut(t) \/ Unlock(t)
      BY <3>2 DEF SignedOut, Unlock
    <3> QED
      BY <1>6, <3>1, <3>2
  <2> QED
    BY <1>6, <2>1, Unsettling DEF SignedOut, GiveUp, Unlock, History
<1>7. CASE (\E c \in Chals : Expire(c)) \/ RekeyEnds \/ UNCHANGED vars
  <2>1. \A c \in Chals : chal'[c].spent = chal[c].spent
    BY <1>7 DEF Expire, RekeyEnds, vars, TypeOK, Challenges
  <2> QED
    BY <1>7, <2>1, Unsettling DEF Expire, RekeyEnds, History, vars
<1>8. ASSUME NEW t \in Tabs, NEW th \in Threads, Start(t, th) \/ Follow(t, th)
      PROVE  \E op \in Ops : Send(t, th, op)
  BY <1>8 DEF Start, Follow, Ops
<1> QED
  BY <1>1, <1>2, <1>3, <1>4, <1>5, <1>6, <1>7, <1>8 DEF Next, Step
-----------------------------------------------------------------------------
(* The commitment that a rekey brings *)

\* A rekey's last call that brings a new commitment.
Brings(r) == r.op = "commit" /\ r.st = "sent" /\ r.with # None

LEMMA SameBodies ==
    ASSUME TypeOK, Carried, Bodies, vaultKey' = vaultKey, rekey' \in {rekey, NoTab},
           Enrolled => zkSalt' = zkSalt /\ committed' = committed,
           \A o \in Threads : Brings(req'[o]) => Brings(req[o]) /\ req'[o].with = req[o].with
                                                                /\ req'[o].tab = req[o].tab
    PROVE  Bodies'
<1>1. \A o \in Threads : Brings(req[o]) => req[o].tab \in Tabs
  BY DEF Carried, CarriedBy, Brings
<1>2. NoTab \notin Tabs
  BY Constants
<1> QED
  BY <1>1, <1>2 DEF Bodies, Brings, Enrolled

LEMMA HandlingBodies ==
    ASSUME TypeOK, Carried, Awaited, Bodies, NEW th \in Threads, Handling(th)
    PROVE  Bodies'
<1>1. /\ \A o \in Threads \ {th} : req'[o] = req[o]
      /\ req'[th].op = req[th].op
  BY HandlingKeeps
<1>2. ~Brings(req'[th])
  <2>1. CASE \E st \in Stages \ {"sent"} : Finish(th, st)
    BY <2>1, Finished DEF Brings
  <2>2. CASE req[th].op # "commit"
    BY <1>1, <2>2 DEF Brings
  <2> QED
    BY <2>1, <2>2 DEF Handling, IssueSalt, Enroll, IssueChallenge, ReadKey, Claim, Verify, Refund,
       StoreProven, PutRecord, RekeyBegin, RekeyCommit, Refuse, At, Stages
<1>3. \A o \in Threads : Brings(req'[o]) =>
         o # th /\ Brings(req[o]) /\ req'[o].with = req[o].with /\ req'[o].tab = req[o].tab
  BY <1>1, <1>2
(* A page that begins a rekey is waiting for no commit. *)
<1>4. CASE RekeyBegin(th)
  <2>1. \A o \in Threads : Brings(req[o]) => req[o].tab # req[th].tab
    BY <1>4 DEF RekeyBegin, At, Brings, Carried, CarriedBy, Awaited
  <2>2. vaultKey' = vaultKey /\ zkSalt' = zkSalt /\ committed' = committed /\ rekey' = req[th].tab
    BY <1>4 DEF RekeyBegin, Vault
  <2> QED
    BY <1>3, <2>1, <2>2 DEF Bodies, Brings, Enrolled
<1>5. CASE RekeyCommit(th) /\ CommitAllowed(req[th])
  <2>1. rekey' = NoTab /\ zkSalt' = zkSalt /\ (Enrolled => Enrolled')
    BY <1>5 DEF RekeyCommit, Enrolled
  <2>2. \A o \in Threads : Brings(req[o]) => req[o].tab # NoTab
    BY Constants DEF Carried, CarriedBy, Brings
  <2> QED
    BY <1>3, <2>1, <2>2 DEF Bodies, Brings
<1>6. CASE ~RekeyBegin(th) /\ ~(RekeyCommit(th) /\ CommitAllowed(req[th]))
  <2>1. vaultKey' = vaultKey /\ rekey' = rekey
    BY <1>6 DEF Handling, IssueSalt, Enroll, IssueChallenge, ReadKey, Claim, Verify, Refund,
       StoreProven, PutRecord, RekeyCommit, Refuse, Vault, Rest
  <2>2. Enrolled => zkSalt' = zkSalt /\ committed' = committed
    BY <1>6 DEF Handling, IssueSalt, Enroll, IssueChallenge, ReadKey, Claim, Verify, Refund,
       StoreProven, PutRecord, RekeyCommit, Refuse, Vault
  <2> QED
    BY <1>3, <2>1, <2>2, SameBodies
<1> QED
  BY <1>4, <1>5, <1>6

LEMMA SentBodies ==
    ASSUME TypeOK, Carried, Bodies, NEW t \in Tabs, NEW th \in Threads, NEW op \in Ops,
           Send(t, th, op)
    PROVE  Bodies'
<1>1. PICK i \in Items, r \in Requests :
         /\ r = [st |-> "sent", op |-> op, tab |-> t, heard |-> TRUE, item |-> i,
                 key |-> tab[t].key, chal |-> IF op = "manual" THEN tab[t].chal ELSE 0,
                 with |-> Body(t, op), read |-> None]
         /\ req' = [req EXCEPT ![th] = r]
  BY SendFacts
<1>2. \A o \in Threads : req'[o] = IF o = th THEN r ELSE req[o]
  BY <1>1, Edited
<1>3. Brings(r) => Enrolled /\ r.with = [key |-> vaultKey + 1, salt |-> zkSalt]
  BY <1>1 DEF Brings, Body
<1>4. vaultKey' = vaultKey /\ zkSalt' = zkSalt /\ committed' = committed /\ rekey' = rekey
  BY DEF Send, Vault
<1> QED
  BY <1>2, <1>3, <1>4 DEF Bodies, Brings, Enrolled

LEMMA NextBodies == TypeOK /\ Carried /\ Awaited /\ Bodies /\ [Next]_vars => Bodies'
<1> SUFFICES ASSUME TypeOK, Carried, Awaited, Bodies, [Next]_vars PROVE Bodies'
  OBVIOUS
<1>1. ASSUME NEW th \in Threads, Handling(th) PROVE Bodies'
  BY <1>1, HandlingBodies
<1>2. ASSUME NEW th \in Threads, WorkerDies(th) \/ SaveSession(th) PROVE Bodies'
  <2>1. req'[th] = Free /\ \A o \in Threads \ {th} : req'[o] = req[o]
    BY <1>2 DEF WorkerDies, SaveSession, TypeOK
  <2>2. vaultKey' = vaultKey /\ zkSalt' = zkSalt /\ committed' = committed /\ rekey' = rekey
    BY <1>2 DEF WorkerDies, SaveSession, Vault
  <2> QED
    BY <2>1, <2>2, FreeType, SameBodies DEF Brings
<1>3. ASSUME NEW t \in Tabs, NEW th \in Threads, Start(t, th) \/ Follow(t, th) PROVE Bodies'
  <2>1. PICK op \in Ops : Send(t, th, op)
    BY <1>3 DEF Start, Follow, Ops
  <2> QED
    BY <2>1, SentBodies
<1>4. ASSUME NEW t \in Tabs, GiveUp(t) PROVE Bodies'
  <2>1. PICK th \in Threads : req[th].op = "manual" /\ req' = [req EXCEPT ![th].heard = FALSE]
    BY <1>4 DEF GiveUp
  <2>2. req'[th].op = "manual" /\ \A o \in Threads \ {th} : req'[o] = req[o]
    BY <2>1, Heard DEF TypeOK, Requests
  <2> QED
    BY <1>4, <2>2, SameBodies DEF Brings, GiveUp, Vault
<1>5. ASSUME NEW t \in Tabs, SignedOut(t) \/ Unlock(t) PROVE Bodies'
  BY <1>5, SameBodies DEF SignedOut, Unlock, Vault
<1>6. CASE (\E c \in Chals : Expire(c)) \/ RekeyEnds \/ UNCHANGED vars
  BY <1>6, SameBodies DEF Expire, RekeyEnds, Rest, vars, Vault
<1> QED
  BY <1>1, <1>2, <1>3, <1>4, <1>5, <1>6 DEF Next, Step, Handling
-----------------------------------------------------------------------------
(* Records *)

LEMMA HandlingOutlived ==
    ASSUME TypeOK, Carried, Outlived, NEW th \in Threads, Handling(th)
    PROVE  Outlived'
<1>1. CASE StoreProven(th)
  <2>1. req[th].tab \in Tabs /\ revoked' = revoked /\ survivors' = survivors
    BY <1>1 DEF StoreProven, At, Carried, CarriedBy, Rest
  <2>2. CASE MayWrite(req[th])
    <3> DEFINE p == Proven(req[th].with.key, req[th].chal, req[th].tab)
    <3>1. recs' = [recs EXCEPT ![<<req[th].item, req[th].key>>] = p]
      BY <1>1, <2>2 DEF StoreProven
    <3>2. p.by \in survivors
      BY <2>1, <2>2 DEF Proven, MayWrite, Outlived
    <3>3. \A b \in Blinds : recs'[b] \in {recs[b], p}
      BY <3>1 DEF TypeOK
    <3> QED
      BY <2>1, <3>2, <3>3 DEF Outlived
  <2>3. CASE ~MayWrite(req[th])
    BY <1>1, <2>1, <2>3 DEF StoreProven, Outlived
  <2> QED
    BY <2>2, <2>3
<1>2. CASE PutRecord(th)
  <2>1. \A b \in Blinds : recs'[b] = recs[b] \/ recs'[b].kind = "box"
    BY <1>2 DEF PutRecord, TypeOK, Box
  <2> QED
    BY <1>2, <2>1 DEF PutRecord, Outlived, Rest, History
<1>3. CASE RekeyCommit(th) /\ CommitAllowed(req[th])
  <2>1. \A r, k : Resealed(r, k).kind # "proof"
    BY DEF Resealed, NoRec, Box
  <2>2. \A b \in Blinds : recs'[b].kind # "proof"
    <3>1. recs' = [b \in Blinds |-> IF b[2] = vaultKey + 1
                                    THEN Resealed(recs[<<b[1], vaultKey>>], vaultKey + 1) ELSE NoRec]
      BY <1>3 DEF RekeyCommit
    <3>2. NoRec.kind # "proof"
      BY DEF NoRec
    <3> QED
      BY <2>1, <3>1, <3>2
  <2>3. Tabs \subseteq revoked' \cup survivors'
    BY <1>3 DEF RekeyCommit
  <2> QED
    BY <2>2, <2>3 DEF Outlived
<1>4. CASE RekeyCommit(th) /\ ~CommitAllowed(req[th])
  BY <1>4 DEF RekeyCommit, Outlived
<1>5. CASE ~StoreProven(th) /\ ~PutRecord(th) /\ ~RekeyCommit(th)
  BY <1>5 DEF Handling, IssueSalt, Enroll, IssueChallenge, ReadKey, Claim, Verify, Refund,
     RekeyBegin, Refuse, History, Rest, Outlived
<1> QED
  BY <1>1, <1>2, <1>3, <1>4, <1>5

LEMMA NextOutlived == TypeOK /\ Carried /\ Outlived /\ [Next]_vars => Outlived'
<1> SUFFICES ASSUME TypeOK, Carried, Outlived, [Next]_vars PROVE Outlived'
  OBVIOUS
<1>1. ASSUME NEW th \in Threads, Handling(th) PROVE Outlived'
  BY <1>1, HandlingOutlived
<1>2. ASSUME NEW th \in Threads, SaveSession(th) PROVE Outlived'
  BY <1>2 DEF SaveSession, Outlived
<1>3. ASSUME recs' = recs, revoked' = revoked, survivors' = survivors PROVE Outlived'
  BY <1>3 DEF Outlived
<1> QED
  BY <1>1, <1>2, <1>3 DEF Next, Step, Handling, WorkerDies, Start, Follow, Send, SignedOut,
     GiveUp, Unlock, Expire, RekeyEnds, Rest, History, vars
-----------------------------------------------------------------------------
(* Theorems *)

LEMMA InitIInv == Init => IInv
<1> SUFFICES ASSUME Init PROVE IInv
  OBVIOUS
<1>1. TypeOK
  BY InitTyped
<1>2. \A th \in Threads : req[th] = Free
  BY DEF Init
<1>3. Carried
  BY <1>2, FreeCarried DEF Carried
<1>4. Awaited
  BY <1>2, FreeType DEF Init, Awaited, Page, Enrolled
<1>5. Claims /\ OutageBurnsNothing
  BY <1>2, FreeType DEF Init, Claims, OutageBurnsNothing, Working, Unissued
<1>6. Bodies
  BY <1>2, FreeType DEF Bodies
<1>7. \A b \in Blinds : recs[b] \in {NoRec, Box(1, "v2")}
  BY DEF Init
<1>8. NoRec.kind # "proof" /\ Box(1, "v2").kind # "proof"
  BY DEF NoRec, Box
<1>9. Outlived
  BY <1>7, <1>8 DEF Init, Outlived
<1> QED
  BY <1>1, <1>3, <1>4, <1>5, <1>6, <1>9 DEF IInv

LEMMA NextIInv == IInv /\ [Next]_vars => IInv'
BY NextTyped, NextCarried, NextAwaited, NextSettled, NextBodies, NextOutlived DEF IInv, Settled

\* In every reachable state: who has claimed which challenge, whose verdict is out, what each
\* request's body says, and which sessions a rekey has left.
THEOREM Invariant == Spec => []IInv
BY InitIInv, NextIInv, PTL DEF Spec

\* Every commitment, challenge, record, page and request stays of its type, a request's
\* challenge and the key it commits to among them, through outages, crashes and rekeys.
THEOREM TypeCorrect == Spec => []TypeOK
<1>1. IInv => TypeOK
  BY DEF IInv
<1> QED
  BY <1>1, Invariant, PTL

\* consumed_at lets one submission at a time hold a challenge, and only one that got no
\* verdict gives it back: one proof never stores two records.
THEOREM ChallengesAreOneTime == Spec => []OneRecordPerChallenge
<1>1. IInv => OneRecordPerChallenge
  BY DEF IInv, Claims, OneRecordPerChallenge
<1> QED
  BY <1>1, Invariant, PTL

\* The refund after a verifier's outage reaches every challenge it must: none is spent
\* without a verdict, a submission still at work on it, or a worker that died with it.
THEOREM OutagesAreRefunded == Spec => []OutageBurnsNothing
<1>1. IInv => OutageBurnsNothing
  BY DEF IInv
<1> QED
  BY <1>1, Invariant, PTL

\* The write guard turns away the sessions a rekey revoked: a proven record found under
\* other keys than the vault's was stored by a session that save_session brought back, or
\* that committed the rekey.
THEOREM StaleProofs == Spec => []StaleProofsFromSurvivors
<1>1. IInv => StaleProofsFromSurvivors
  BY DEF IInv, Outlived, StaleProofsFromSurvivors
<1> QED
  BY <1>1, Invariant, PTL

\* No outage of another submission, crash or rekey makes a judged challenge claimable.
THEOREM VerdictsAreFinal == Spec => JudgedStaysSpent
<1>1. IInv /\ IInv' /\ [Next]_vars => [\A c \in judged : chal'[c].spent]_vars
  <2> SUFFICES ASSUME IInv, IInv', [Next]_vars PROVE \A c \in judged : chal'[c].spent
    OBVIOUS
  <2>1. judged \subseteq judged'
    BY ZenonT(60) DEF Next, Step, IssueSalt, Enroll, IssueChallenge, ReadKey, Claim, Verify, Refund,
       StoreProven, WorkerDies, PutRecord, RekeyBegin, RekeyCommit, Refuse, SaveSession, Start,
       Follow, Send, SignedOut, GiveUp, Unlock, Expire, RekeyEnds, History, vars
  <2> QED
    BY <2>1 DEF IInv, Claims
<1> QED
  BY <1>1, Invariant, PTL DEF Spec, JudgedStaysSpent

LEMMA CommitmentStep ==
    ASSUME IInv, [Next]_vars, Enrolled
    PROVE  \/ committed' = committed /\ zkSalt' = zkSalt /\ vaultKey' = vaultKey
           \/ /\ vaultKey' # vaultKey
              /\ committed' = [key |-> vaultKey', salt |-> zkSalt] /\ zkSalt' = zkSalt
<1>1. ASSUME NEW th \in Threads, RekeyCommit(th), CommitAllowed(req[th])
      PROVE  /\ vaultKey' # vaultKey
             /\ committed' = [key |-> vaultKey', salt |-> zkSalt] /\ zkSalt' = zkSalt
  <2>1. req[th].with # None /\ rekey = req[th].tab
    BY <1>1 DEF CommitAllowed
  <2>2. req[th].with.key = vaultKey + 1 /\ req[th].with.salt = zkSalt
    BY <1>1, <2>1 DEF RekeyCommit, At, IInv, Bodies
  <2>3. req[th].with \in Commitments
    BY DEF IInv, TypeOK, Requests
  <2>4. req[th].with = [key |-> vaultKey + 1, salt |-> zkSalt]
    BY <2>2, <2>3 DEF Commitments
  <2>5. vaultKey' = vaultKey + 1 /\ committed' = req[th].with /\ zkSalt' = zkSalt
    BY <1>1, <2>1 DEF RekeyCommit
  <2>6. vaultKey \in Nat
    BY ZkpExpenseAssumption DEF IInv, TypeOK, Keys
  <2> QED
    BY <2>4, <2>5, <2>6
<1>2. ASSUME NEW th \in Threads, RekeyCommit(th), ~CommitAllowed(req[th])
      PROVE  committed' = committed /\ zkSalt' = zkSalt /\ vaultKey' = vaultKey
  BY <1>2 DEF RekeyCommit
<1>3. ASSUME NEW th \in Threads, IssueSalt(th) \/ Enroll(th)
      PROVE  committed' = committed /\ zkSalt' = zkSalt /\ vaultKey' = vaultKey
  BY <1>3 DEF IssueSalt, Enroll
<1>4. ASSUME NEW th \in Threads, Step(th), ~RekeyCommit(th), ~IssueSalt(th), ~Enroll(th)
      PROVE  committed' = committed /\ zkSalt' = zkSalt /\ vaultKey' = vaultKey
  BY <1>4 DEF Step, IssueChallenge, ReadKey, Claim, Verify, Refund, StoreProven, WorkerDies,
     PutRecord, Refuse, SaveSession, RekeyBegin, Vault
<1>5. ASSUME ~\E th \in Threads : Step(th)
      PROVE  committed' = committed /\ zkSalt' = zkSalt /\ vaultKey' = vaultKey
  BY <1>5 DEF Next, Start, Follow, Send, SignedOut, GiveUp, Unlock, Expire, RekeyEnds, Vault, vars
<1> QED
  BY <1>1, <1>2, <1>3, <1>4, <1>5

\* Enrolment is once, and the rekey's commit brings what begin's page derived: the commitment
\* of a rekeyed vault is that of its new keys and its salt.
THEOREM CommitmentsFollowKeys == Spec => CommitmentFollowsKeys
<1>1. IInv /\ [Next]_vars =>
        [Enrolled => \/ committed' = committed /\ zkSalt' = zkSalt /\ vaultKey' = vaultKey
                     \/ /\ vaultKey' # vaultKey
                        /\ committed' = [key |-> vaultKey', salt |-> zkSalt] /\ zkSalt' = zkSalt]_vars
  BY CommitmentStep
<1> QED
  BY <1>1, Invariant, PTL DEF Spec, CommitmentFollowsKeys

LEMMA TagStep ==
    ASSUME IInv, [Next]_vars, NEW b \in Blinds, recs'[b].tag = "v4",
           recs[b].tag # "v4" \/ vaultKey' # vaultKey
    PROVE  recs'[b].kind = "proof" /\ recs'[b].chal \in judged
<1>1. recs \in [Blinds -> Records]
  BY DEF IInv, TypeOK
<1>2. ASSUME NEW th \in Threads, StoreProven(th)
      PROVE  recs'[b].kind = "proof" /\ recs'[b].chal \in judged
  <2> DEFINE p == Proven(req[th].with.key, req[th].chal, req[th].tab)
  <2>1. recs'[b] \in {recs[b], p} /\ vaultKey' = vaultKey
    BY <1>1, <1>2 DEF StoreProven, Vault
  <2>2. recs'[b] = p
    BY <2>1
  <2>3. req[th].chal \in judged
    BY <1>2 DEF StoreProven, At, IInv, Claims
  <2> QED
    BY <2>2, <2>3 DEF Proven
<1>3. ASSUME NEW th \in Threads, PutRecord(th) PROVE FALSE
  <2>1. recs'[b].tag = recs[b].tag /\ vaultKey' = vaultKey
    BY <1>1, <1>3 DEF PutRecord, Vault, Box
  <2> QED
    BY <2>1
<1>4. ASSUME NEW th \in Threads, RekeyCommit(th), CommitAllowed(req[th]) PROVE FALSE
  <2>1. recs' = [d \in Blinds |-> IF d[2] = vaultKey + 1
                                  THEN Resealed(recs[<<d[1], vaultKey>>], vaultKey + 1) ELSE NoRec]
    BY <1>4 DEF RekeyCommit
  <2>2. NoRec.tag # "v4" /\ \A r, k : Resealed(r, k).tag # "v4"
    BY DEF Resealed, NoRec, Box
  <2> QED
    BY <2>1, <2>2
<1>5. ASSUME recs' = recs, vaultKey' = vaultKey PROVE FALSE
  BY <1>5
<1> QED
  BY <1>2, <1>3, <1>4, <1>5, ZenonT(60) DEF Next, Step, IssueSalt, Enroll, IssueChallenge, ReadKey, Claim,
     Verify, Refund, WorkerDies, RekeyBegin, RekeyCommit, Refuse, SaveSession, Start, Follow,
     Send, SignedOut, GiveUp, Unlock, Expire, RekeyEnds, Vault, vars

\* circuit_version says v4 of nothing but the outputs of a proof the verifier accepted: not
\* of an upload that lands on such a record, nor of what a rekey seals anew.
THEOREM TagsAppearWithProofs == Spec => TagAppearsWithProof
<1>1. IInv /\ [Next]_vars =>
        [\A b \in Blinds :
           recs'[b].tag = "v4" /\ (recs[b].tag # "v4" \/ vaultKey' # vaultKey) =>
               recs'[b].kind = "proof" /\ recs'[b].chal \in judged]_vars
  BY TagStep
<1> QED
  BY <1>1, Invariant, PTL DEF Spec, TagAppearsWithProof
=============================================================================
