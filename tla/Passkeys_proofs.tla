--------------------------- MODULE Passkeys_proofs ---------------------------
(***************************************************************************)
(* Challenges and sessions under overlapping requests, each of which ends  *)
(* by writing back a copy of its session that may be old: for any number   *)
(* of pages, browsers and requests, under either policy.                   *)
(***************************************************************************)
EXTENDS Passkeys, TLAPS, FiniteSetTheorems

(* A challenge is taken by one request, which then has it until it ends or wins by it; it is
   neither issued nor opened again. *)
Holder(th, c) ==
    req[th].op = "verify" /\ req[th].st \in {"taken", "verified"} /\ req[th].loaded = c

OnceOnly(c) ==
    /\ wins[c] \in {0, 1}
    /\ c > drawn.chals => ~chal[c].open
    /\ chal[c].open \/ c > drawn.chals => wins[c] = 0 /\ \A th \in Threads : ~Holder(th, c)
    /\ \A th \in Threads : Holder(th, c) =>
          wins[c] = 0 /\ \A o \in Threads \ {th} : ~Holder(o, c)

Spent ==
    /\ \A c \in Chals : OnceOnly(c)
    /\ \A th \in Threads : ~Holder(th, 0)

(* Ids of sessions are drawn in order, and a row is written whole the first time. *)
Allotted ==
    /\ \A s \in Sids : s > drawn.sids => sess[s] = Absent
    /\ \A s \in Sids : sess[s].state = "absent" => sess[s] = Absent
    /\ \A th \in Threads : /\ req[th].sid <= drawn.sids
                           /\ req[th].st # "free" => req[th].sid # 0

(* Copies of a session agree with its row about whom it is authenticated as, and about its
   ceremony but for the calls that change it; the session a request has rotated to is its
   alone until it is written. *)
Copy(th) ==
    LET r == req[th]
    IN  IF sess[r.sid].state = "absent"
        THEN r.st = "ok" /\ \A o \in Threads \ {th} : req[o].sid # r.sid
        ELSE /\ r.auth = sess[r.sid].auth
             /\ r.loaded # r.ceremony => r.op \in {"options", "verify"}

Copies == \A th \in Threads : req[th].sid # 0 => Copy(th)

(* An answered challenge authenticates one session, whether its row says so yet or not. *)
Owns(s, c) == sess[s].auth = c \/ \E th \in Threads : req[th].sid = s /\ req[th].auth = c

Owners ==
    \A c \in Chals, s \in Sids : Owns(s, c) =>
        wins[c] = 1 /\ \A o \in Sids : Owns(o, c) => o = s

IInv == TypeOK /\ Spent /\ Allotted /\ Copies /\ Owners
-----------------------------------------------------------------------------
(* Types *)

LEMMA Records ==
    /\ Free \in Requests /\ Absent \in Rows /\ Anonymous \in Rows /\ Unissued \in Challenges
    /\ \A sid \in 0..MaxSid : Page(sid) \in Pages
    /\ MaxSid \in Nat /\ MaxChal \in Nat /\ MaxCred \in Nat
    /\ 0 \in 0..MaxSid /\ 0 \in 0..MaxChal /\ 0 \in 0..MaxCred
BY PasskeysAssumption DEF Free, Requests, Stages, Ops, Starts, Absent, Anonymous, Rows, Unissued,
   Challenges, Kinds, Page, Pages

LEMMA RequestsEach ==
    ASSUME TypeOK, NEW th \in Threads, NEW r \in Requests, req' = [req EXCEPT ![th] = r]
    PROVE  req' \in [Threads -> Requests] /\ req'[th] = r /\ \A o \in Threads \ {th} : req'[o] = req[o]
BY DEF TypeOK

LEMMA FinishType ==
    ASSUME TypeOK, NEW th \in Threads, NEW st \in Stages, Finish(th, st)
    PROVE  /\ req' \in [Threads -> Requests]
           /\ req'[th] = [req[th] EXCEPT !.st = st] /\ \A o \in Threads \ {th} : req'[o] = req[o]
<1>1. [req[th] EXCEPT !.st = st] \in Requests
  BY DEF TypeOK, Requests
<1>2. req' = [req EXCEPT ![th] = [req[th] EXCEPT !.st = st]]
  BY DEF Finish
<1> QED
  BY <1>1, <1>2, RequestsEach

LEMMA RotateType ==
    ASSUME TypeOK, NEW th \in Threads, NEW auth \in 0..MaxChal, RotateSession(th, auth),
           drawn.sids < MaxSid
    PROVE  sess' \in [Sids -> Rows] /\ req' \in [Threads -> Requests] /\ drawn.sids + 1 \in Sids
<1> DEFINE r == [req[th] EXCEPT !.sid = drawn.sids + 1, !.auth = auth, !.ceremony = 0, !.st = "ok"]
<1>1. drawn.sids + 1 \in Sids /\ drawn.sids + 1 \in 0..MaxSid
  BY Records DEF TypeOK, Sids
<1>2. r \in Requests
  BY <1>1, Records DEF TypeOK, Requests, Stages
<1>3. req' = [req EXCEPT ![th] = r]
  BY DEF RotateSession, TypeOK
<1>4. sess' \in [Sids -> Rows]
  BY DEF RotateSession, TypeOK, Rows
<1> QED
  BY <1>1, <1>2, <1>3, <1>4, RequestsEach

LEMMA SentType ==
    ASSUME TypeOK, NEW t \in Tabs, LiveSession(Jar(t)), NEW op \in Ops, NEW for \in Starts,
           NEW signed \in 0..MaxChal, NEW cred \in 0..MaxCred
    PROVE  Sent(t, op, for, signed, cred) \in Requests
<1>1. Jar(t) \in Sids /\ Jar(t) \in 0..MaxSid
  BY PasskeysAssumption DEF TypeOK, Jar, LiveSession, Sids
<1>2. sess[Jar(t)].auth \in 0..MaxChal /\ sess[Jar(t)].ceremony \in 0..MaxChal
  BY <1>1 DEF TypeOK, Rows
<1> QED
  BY <1>1, <1>2 DEF Sent, Requests, Stages

LEMMA PostType ==
    ASSUME TypeOK, NEW t \in Tabs, LiveSession(Jar(t)), NEW op \in Ops, NEW for \in Starts,
           NEW signed \in 0..MaxChal, NEW cred \in 0..MaxCred, Send(t, op, for, signed, cred)
    PROVE  req' \in [Threads -> Requests]
BY SentType, RequestsEach DEF Send

LEMMA ContinueType ==
    ASSUME NEW page \in Pages, NEW r \in Requests
    PROVE  Continue(page, r) \in Pages
<1>1. CASE r.op = "options" /\ r.st = "ok"
  BY <1>1 DEF Continue, Pages, Requests
<1>2. CASE ~(r.op = "options" /\ r.st = "ok")
  <2>1. page.csrf \in 0..MaxSid /\ r.sid \in 0..MaxSid
    BY DEF Pages, Requests
  <2>2. Continue(page, r) \in {Page(r.sid), Page(0), Page(page.csrf)}
    BY <1>2 DEF Continue
  <2> QED
    BY <2>1, <2>2, Records
<1> QED
  BY <1>1, <1>2

LEMMA SaveType ==
    ASSUME TypeOK, NEW th \in Threads, SaveSession(th)
    PROVE  TypeOK'
<1> DEFINE r == req[th]
<1>1. r \in Requests /\ sess \in [Sids -> Rows] /\ req' = [req EXCEPT ![th] = Free]
  BY DEF TypeOK, SaveSession
<1>2. sess' \in [Sids -> Rows]
  <2>1. CASE r.sid \in Sids
    <3>1. [sess[r.sid] EXCEPT !.state = "revoked"] \in Rows /\ WrittenBack(r) \in Rows
      BY <1>1, <2>1 DEF WrittenBack, Rows, Requests
    <3> QED
      BY <1>1, <3>1 DEF SaveSession
  <2>2. CASE r.sid \notin Sids
    BY <1>1, <2>2 DEF SaveSession
  <2> QED
    BY <2>1, <2>2
<1>3. tab' \in [Tabs -> Pages] /\ cookie' \in [Browsers -> 0..MaxSid]
  <2>1. CASE r.tab = NoTab
    BY <2>1 DEF SaveSession, TypeOK
  <2>2. CASE r.tab # NoTab
    <3>1. r.tab \in Tabs /\ r.sid \in 0..MaxSid
      BY <1>1, <2>2 DEF Requests
    <3>2. Continue(tab[r.tab], r) \in Pages
      BY <1>1, <3>1, ContinueType DEF TypeOK
    <3>3. tab' = [tab EXCEPT ![r.tab] = Continue(tab[r.tab], r)]
      BY <2>2 DEF SaveSession
    <3>4. tab' \in [Tabs -> Pages]
      BY <3>2, <3>3 DEF TypeOK
    <3>5. cookie' \in [Browsers -> 0..MaxSid]
      BY <2>2, <3>1, Records DEF SaveSession, TypeOK
    <3> QED
      BY <3>4, <3>5
  <2> QED
    BY <2>1, <2>2
<1>4. req' \in [Threads -> Requests]
  BY <1>1, RequestsEach, Records
<1> QED
  BY <1>2, <1>3, <1>4 DEF SaveSession, TypeOK

LEMMA InitTyped == Init => TypeOK
<1> SUFFICES ASSUME Init PROVE TypeOK
  OBVIOUS
<1>1. Cardinality(Browsers) \in 0..MaxSid
  BY PasskeysAssumption, FS_CardinalityType
<1>2. PICK n \in FirstCreds : /\ creds = 1..n
                              /\ protected = (n > 0)
                              /\ drawn = [sids |-> Cardinality(Browsers), chals |-> 0, creds |-> n]
  BY DEF Init
<1>3. creds \subseteq Creds /\ drawn \in [sids : 0..MaxSid, chals : 0..MaxChal, creds : 0..MaxCred]
  BY <1>1, <1>2, PasskeysAssumption DEF Creds
<1>4. protected \in BOOLEAN
  BY <1>2
<1>5. cookie \in [Browsers -> 0..MaxSid]
  <2>1. cookie \in [Browsers -> 1..Cardinality(Browsers)]
    BY DEF Init
  <2>2. 1..Cardinality(Browsers) \subseteq 0..MaxSid
    BY <1>1, Records
  <2> QED
    BY <2>1, <2>2
<1>6. tab \in [Tabs -> Pages]
  BY <1>5, Records, PasskeysAssumption DEF Init
<1>7. sess \in [Sids -> Rows] /\ chal \in [Chals -> Challenges] /\ wins \in [Chals -> Nat]
      /\ aged \subseteq Chals /\ req \in [Threads -> Requests]
  BY Records DEF Init
<1> QED
  BY <1>3, <1>4, <1>5, <1>6, <1>7 DEF TypeOK

LEMMA NextTyped == TypeOK /\ [Next]_vars => TypeOK'
<1> SUFFICES ASSUME TypeOK, [Next]_vars PROVE TypeOK'
  OBVIOUS
<1>1. /\ creds \subseteq Creds /\ protected \in BOOLEAN
      /\ sess \in [Sids -> Rows] /\ chal \in [Chals -> Challenges]
      /\ aged \subseteq Chals /\ wins \in [Chals -> Nat]
      /\ drawn \in [sids : 0..MaxSid, chals : 0..MaxChal, creds : 0..MaxCred]
      /\ cookie \in [Browsers -> 0..MaxSid]
      /\ tab \in [Tabs -> Pages] /\ req \in [Threads -> Requests]
  BY DEF TypeOK
<1>2. {"ok", "no", "out", "taken", "verified", "counted", "sent"} \subseteq Stages
  BY DEF Stages
<1>3. ASSUME NEW th \in Threads, NewChallenge(th) PROVE TypeOK'
  <2> DEFINE c == drawn.chals + 1
  <2>1. c \in Chals /\ c \in 0..MaxChal
    BY <1>1, <1>3, Records DEF NewChallenge, Chals
  <2>2. [sid |-> req[th].sid, kind |-> KindOf(req[th].for), open |-> TRUE] \in Challenges
    BY <1>1 DEF Challenges, Requests, KindOf, Kinds
  <2>3. PICK k \in creds \cup {0} :
           req' = [req EXCEPT ![th].ceremony = c, ![th].cred = k, ![th].st = "ok"]
    BY <1>3 DEF NewChallenge
  <2>4. k \in 0..MaxCred
    BY <1>1, Records DEF Creds
  <2>5. req' \in [Threads -> Requests]
    <3> DEFINE r == [req[th] EXCEPT !.ceremony = c, !.cred = k, !.st = "ok"]
    <3>1. r \in Requests
      <4>1. req[th] \in Requests /\ "ok" \in Stages
        BY <1>1, <1>2
      <4>2. c \in 0..MaxChal
        BY <2>1
      <4> HIDE DEF c
      <4> QED
        BY <2>4, <4>1, <4>2 DEF Requests
    <3>2. req' = [req EXCEPT ![th] = r]
      BY <1>1, <2>3
    <3> HIDE DEF r
    <3> QED
      BY <3>1, <3>2, RequestsEach
  <2>6. chal' \in [Chals -> Challenges]
    BY <1>1, <1>3, <2>2 DEF NewChallenge
  <2>7. drawn' \in [sids : 0..MaxSid, chals : 0..MaxChal, creds : 0..MaxCred]
    BY <1>1, <1>3, <2>1 DEF NewChallenge
  <2> QED
    BY <1>1, <1>3, <2>5, <2>6, <2>7 DEF NewChallenge, TypeOK
<1>4. ASSUME NEW th \in Threads, NEW st \in Stages, Finish(th, st), creds' \subseteq Creds,
             UNCHANGED <<protected, sess, chal, aged, drawn, cookie, tab, wins>>
      PROVE  TypeOK'
  BY <1>1, <1>4, FinishType DEF TypeOK
<1>5. ASSUME NEW th \in Threads, \/ OptionsRefused(th) \/ VerifyAssertion(th) \/ RegisterFails(th)
                                 \/ RemoveCount(th) \/ RemoveDelete(th) \/ OtherCall(th) \/ Refuse(th)
      PROVE  TypeOK'
  <2>1. PICK st \in Stages : Finish(th, st)
    BY <1>2, <1>5 DEF OptionsRefused, VerifyAssertion, RegisterFails, RemoveCount, RemoveDelete,
       OtherCall, Refuse, Verdict
  <2>2. creds' \subseteq Creds /\ UNCHANGED <<protected, sess, chal, aged, drawn, cookie, tab, wins>>
    BY <1>1, <1>5 DEF OptionsRefused, VerifyAssertion, RegisterFails, RemoveCount, RemoveDelete,
       OtherCall, Refuse
  <2> QED
    BY <1>4, <2>1, <2>2
<1>6. ASSUME NEW th \in Threads, TakeChallenge(th) PROVE TypeOK'
  <2>1. chal' \in [Chals -> Challenges]
    <3>1. chal' \in {chal, [chal EXCEPT ![req[th].loaded].open = FALSE]}
      BY <1>6 DEF TakeChallenge
    <3>2. \A c \in Chals : [chal[c] EXCEPT !.open = FALSE] \in Challenges
      BY <1>1 DEF Challenges
    <3> QED
      BY <1>1, <3>1, <3>2
  <2>2. req' \in [Threads -> Requests]
    <3>1. \/ \E st \in {"taken", "no"} : req' = [req EXCEPT ![th].ceremony = 0, ![th].st = st]
          \/ Finish(th, "no")
      BY <1>6 DEF TakeChallenge
    <3>2. ASSUME NEW st \in {"taken", "no"}, req' = [req EXCEPT ![th].ceremony = 0, ![th].st = st]
          PROVE  req' \in [Threads -> Requests]
      <4> DEFINE r == [req[th] EXCEPT !.ceremony = 0, !.st = st]
      <4>1. r \in Requests
        BY <1>1, <1>2, Records DEF Requests
      <4>2. req' = [req EXCEPT ![th] = r]
        BY <1>1, <3>2
      <4> HIDE DEF r
      <4> QED
        BY <4>1, <4>2, RequestsEach
    <3> QED
      BY <1>2, <3>1, <3>2, FinishType
  <2> QED
    BY <1>1, <1>6, <2>1, <2>2 DEF TakeChallenge, TypeOK
<1>7. ASSUME NEW th \in Threads, LoginVerified(th) PROVE TypeOK'
  <2>1. req[th].loaded \in 0..MaxChal
    BY <1>1 DEF Requests
  <2>2. sess' \in [Sids -> Rows] /\ req' \in [Threads -> Requests] /\ drawn.sids + 1 \in Sids
    BY <1>7, <2>1, RotateType DEF LoginVerified
  <2>3. drawn' \in [sids : 0..MaxSid, chals : 0..MaxChal, creds : 0..MaxCred]
    <3>1. drawn.sids + 1 \in 0..MaxSid
      BY <2>2, Records DEF Sids
    <3>2. drawn' = [drawn EXCEPT !.sids = drawn.sids + 1]
      BY <1>7 DEF LoginVerified
    <3> QED
      BY <1>1, <3>1, <3>2
  <2>4. wins' \in [Chals -> Nat]
    <3>1. wins' = [wins EXCEPT ![req[th].loaded] = wins[req[th].loaded] + 1]
      BY <1>7 DEF LoginVerified
    <3>2. \A c \in Chals : wins[c] + 1 \in Nat
      BY <1>1
    <3> QED
      BY <1>1, <3>1, <3>2
  <2> QED
    BY <1>1, <1>7, <2>2, <2>3, <2>4 DEF LoginVerified, TypeOK
<1>8. ASSUME NEW th \in Threads, Register(th) PROVE TypeOK'
  <2>1. sess' \in [Sids -> Rows] /\ req' \in [Threads -> Requests] /\ drawn.sids + 1 \in Sids
    BY <1>8, Records, RotateType DEF Register
  <2>2. drawn.creds + 1 \in Creds
    BY <1>1, <1>8, Records DEF Register, Creds
  <2>3. drawn' \in [sids : 0..MaxSid, chals : 0..MaxChal, creds : 0..MaxCred]
    <3>1. drawn.sids + 1 \in 0..MaxSid /\ drawn.creds + 1 \in 0..MaxCred
      BY <2>1, <2>2, Records DEF Sids, Creds
    <3>2. drawn' = [drawn EXCEPT !.sids = drawn.sids + 1, !.creds = drawn.creds + 1]
      BY <1>8 DEF Register
    <3> QED
      BY <1>1, <3>1, <3>2
  <2>4. wins' \in [Chals -> Nat]
    <3>1. wins' = [wins EXCEPT ![req[th].loaded] = wins[req[th].loaded] + 1]
      BY <1>8 DEF Register
    <3>2. \A c \in Chals : wins[c] + 1 \in Nat
      BY <1>1
    <3> QED
      BY <1>1, <3>1, <3>2
  <2>5. creds' \subseteq Creds
    BY <1>1, <1>8, <2>2 DEF Register
  <2> QED
    BY <1>1, <1>8, <2>1, <2>3, <2>4, <2>5 DEF Register, TypeOK
<1>9. ASSUME NEW th \in Threads, DisablePasskeys(th) PROVE TypeOK'
  <2>1. CASE MayManage(req[th]) /\ ~PolicyRequired
    <3>1. sess' \in [Sids -> Rows] /\ req' \in [Threads -> Requests] /\ drawn.sids + 1 \in Sids
      BY <1>9, <2>1, Records, RotateType DEF DisablePasskeys
    <3>2. drawn' \in [sids : 0..MaxSid, chals : 0..MaxChal, creds : 0..MaxCred]
      BY <1>1, <1>9, <2>1, <3>1 DEF DisablePasskeys, Sids
    <3> QED
      BY <1>1, <1>9, <2>1, <3>1, <3>2 DEF DisablePasskeys, TypeOK
  <2>2. CASE ~(MayManage(req[th]) /\ ~PolicyRequired)
    BY <1>1, <1>2, <1>4, <1>9, <2>2 DEF DisablePasskeys
  <2> QED
    BY <2>1, <2>2
<1>10. ASSUME NEW th \in Threads, Logout(th) PROVE TypeOK'
  <2>1. sess' \in [Sids -> Rows]
    BY <1>1, <1>10 DEF Logout, Rows
  <2> QED
    BY <1>1, <1>2, <1>10, <2>1, FinishType DEF Logout, TypeOK
<1>11. ASSUME NEW th \in Threads, SaveSession(th) PROVE TypeOK'
  BY <1>11, SaveType
<1>12. ASSUME NEW c \in Chals, ChallengeExpires(c) \/ AssertionAges(c) PROVE TypeOK'
  <2>1. chal' \in [Chals -> Challenges] /\ aged' \subseteq Chals
    BY <1>1, <1>12 DEF ChallengeExpires, AssertionAges, Challenges
  <2> QED
    BY <1>1, <1>12, <2>1 DEF ChallengeExpires, AssertionAges, TypeOK
<1>13. ASSUME NEW t \in Tabs, NEW op \in Ops, NEW for \in Starts, NEW signed \in 0..MaxChal,
              NEW cred \in 0..MaxCred, LiveSession(Jar(t)), Send(t, op, for, signed, cred),
              tab' \in [Tabs -> Pages]
       PROVE  TypeOK'
  BY <1>1, <1>13, PostType DEF Send, TypeOK
<1>14. \A t \in Tabs : [tab EXCEPT ![t] = Page(tab[t].csrf)] \in [Tabs -> Pages]
  BY <1>1, Records DEF Pages
<1>15. ASSUME NEW t \in Tabs, \/ StartCeremony(t) \/ RemovePasskey(t) \/ DisableProtection(t)
                              \/ SignOut(t) \/ CallOther(t)
       PROVE  TypeOK'
  <2>1. PICK op \in Ops, for \in Starts, cred \in creds \cup {0} :
           LiveSession(Jar(t)) /\ Send(t, op, for, 0, cred) /\ UNCHANGED tab
    BY <1>15 DEF StartCeremony, RemovePasskey, DisableProtection, SignOut, CallOther, Post,
       MayPost, Ops, Starts
  <2>2. cred \in 0..MaxCred
    BY <1>1, Records DEF Creds
  <2> QED
    BY <1>1, <1>13, <2>1, <2>2, Records
<1>16. ASSUME NEW t \in Tabs, Approve(t) PROVE TypeOK'
  <2>1. /\ LiveSession(Jar(t)) /\ Send(t, "verify", tab[t].for, tab[t].chal, tab[t].cred)
        /\ tab' = [tab EXCEPT ![t] = Page(tab[t].csrf)]
    BY <1>16 DEF Approve, Post, MayPost, BackToIdle
  <2>2. tab[t].for \in Starts /\ tab[t].chal \in 0..MaxChal /\ tab[t].cred \in 0..MaxCred
        /\ "verify" \in Ops
    BY <1>1 DEF Pages, Ops
  <2> QED
    BY <1>13, <1>14, <2>1, <2>2
<1>17. ASSUME NEW t \in Tabs, Cancel(t) PROVE TypeOK'
  BY <1>1, <1>14, <1>17 DEF Cancel, BackToIdle, TypeOK
<1>18. ASSUME NEW t \in Tabs, drawn.sids + 1 <= MaxSid
       PROVE  /\ [sess EXCEPT ![drawn.sids + 1] = Anonymous] \in [Sids -> Rows]
              /\ [drawn EXCEPT !.sids = drawn.sids + 1]
                   \in [sids : 0..MaxSid, chals : 0..MaxChal, creds : 0..MaxCred]
              /\ [cookie EXCEPT ![BrowserOf[t]] = drawn.sids + 1] \in [Browsers -> 0..MaxSid]
              /\ [tab EXCEPT ![t] = Page(drawn.sids + 1)] \in [Tabs -> Pages]
  <2>1. drawn.sids + 1 \in 0..MaxSid
    BY <1>1, <1>18, Records
  <2> QED
    BY <1>1, <2>1, Records
<1>19. ASSUME NEW t \in Tabs, TurnAway(t) PROVE TypeOK'
  BY <1>1, <1>14, <1>18, <1>19 DEF TurnAway, BackToIdle, TypeOK
<1>20. ASSUME NEW t \in Tabs, Boot(t) PROVE TypeOK'
  <2>1. req' \in [Threads -> Requests]
    BY <1>1, <1>20 DEF Boot, Requests
  <2>2. CASE LiveSession(Jar(t))
    <3>1. Jar(t) \in 0..MaxSid
      BY <1>1, PasskeysAssumption DEF Jar
    <3>2. tab' \in [Tabs -> Pages]
      BY <1>1, <1>20, <2>2, <3>1, Records DEF Boot
    <3> QED
      BY <1>1, <1>20, <2>1, <2>2, <3>2 DEF Boot, TypeOK
  <2>3. CASE ~LiveSession(Jar(t))
    BY <1>1, <1>18, <1>20, <2>1, <2>3 DEF Boot, TypeOK
  <2> QED
    BY <2>2, <2>3
<1>21. ASSUME NEW t \in Tabs, Resend(t) PROVE TypeOK'
  <2>1. PICK th \in Threads, again \in Threads :
           /\ req[th].tab = t /\ req[again] = Free
           /\ req' = [req EXCEPT ![th].tab = NoTab,
                                 ![again] = Sent(t, req[th].op, req[th].for, req[th].signed,
                                                 IF req[th].op = "options" THEN 0 ELSE req[th].cred)]
    BY <1>21 DEF Resend
  <2> DEFINE cred == IF req[th].op = "options" THEN 0 ELSE req[th].cred
             s == Sent(t, req[th].op, req[th].for, req[th].signed, cred)
  <2>2. /\ req[th].op \in Ops /\ req[th].for \in Starts /\ req[th].signed \in 0..MaxChal
        /\ cred \in 0..MaxCred /\ LiveSession(Jar(t))
    BY <1>1, <1>21, Records DEF Requests, Resend, MayPost
  <2>3. s \in Requests
    <3> HIDE DEF cred
    <3> QED
      BY <2>2, SentType
  <2>4. [req[th] EXCEPT !.tab = NoTab] \in Requests
    BY <1>1 DEF Requests
  <2>5. req' = [[req EXCEPT ![th] = [req[th] EXCEPT !.tab = NoTab]] EXCEPT ![again] = s]
    BY <1>1, <2>1
  <2>6. req' \in [Threads -> Requests]
    <3> HIDE DEF s
    <3> QED
      BY <1>1, <2>3, <2>4, <2>5
  <2> QED
    BY <1>1, <1>21, <2>6 DEF Resend, TypeOK
<1>22. CASE UNCHANGED vars
  BY <1>1, <1>22 DEF vars, TypeOK
<1> QED
  BY <1>3, <1>5, <1>6, <1>7, <1>8, <1>9, <1>10, <1>11, <1>12, <1>15, <1>16, <1>17, <1>19, <1>20,
     <1>21, <1>22 DEF Next, Handler, User
-----------------------------------------------------------------------------
(* What a step can do to a request *)

Same(o) ==
    /\ req'[o].op = req[o].op /\ req'[o].st = req[o].st /\ req'[o].loaded = req[o].loaded
    /\ req'[o].sid = req[o].sid /\ req'[o].auth = req[o].auth /\ req'[o].ceremony = req[o].ceremony

\* A verdict of one of its handlers.
Judged(th) ==
    /\ req'[th].op = req[th].op /\ req'[th].loaded = req[th].loaded
    /\ req'[th].sid = req[th].sid /\ req'[th].auth = req[th].auth
    /\ req'[th].ceremony = req[th].ceremony
    /\ req[th].st \notin {"free", "ok"} /\ req'[th].st \notin {"free", "sent", "taken"}
    /\ req'[th].st = "verified" => req[th].op = "verify" /\ req[th].st = "taken"

\* A call that has just arrived, with its copy of a live session.
Arrived(th, sid) ==
    /\ req[th] = Free /\ LiveSession(sid)
    /\ req'[th].sid = sid /\ req'[th].st = "sent"
    /\ req'[th].auth = sess[sid].auth /\ req'[th].loaded = sess[sid].ceremony
    /\ req'[th].ceremony = sess[sid].ceremony

Unmoved == UNCHANGED <<sess, chal, drawn, wins>>

LEMMA FinishJudged ==
    ASSUME TypeOK, NEW th \in Threads, NEW st \in {"ok", "no", "out", "verified", "counted"},
           Finish(th, st), req[th].st \notin {"free", "ok"},
           st = "verified" => req[th].op = "verify" /\ req[th].st = "taken"
    PROVE  Judged(th) /\ \A o \in Threads \ {th} : Same(o)
<1>1. st \in Stages /\ req[th] \in Requests
  BY DEF Stages, TypeOK
<1>2. req'[th] = [req[th] EXCEPT !.st = st] /\ \A o \in Threads \ {th} : req'[o] = req[o]
  BY <1>1, FinishType
<1> QED
  BY <1>1, <1>2 DEF Judged, Same, Requests

LEMMA Verdicts ==
    ASSUME TypeOK, NEW th \in Threads,
           \/ OptionsRefused(th) \/ VerifyAssertion(th) \/ RegisterFails(th) \/ RemoveCount(th)
           \/ RemoveDelete(th) \/ OtherCall(th) \/ Refuse(th)
    PROVE  Unmoved /\ Judged(th) /\ \A o \in Threads \ {th} : Same(o)
<1>1. \E st \in {"ok", "no", "verified", "counted"} :
         /\ Finish(th, st) /\ req[th].st \notin {"free", "ok"}
         /\ st = "verified" => req[th].op = "verify" /\ req[th].st = "taken"
  BY DEF OptionsRefused, VerifyAssertion, RegisterFails, RemoveCount, RemoveDelete, OtherCall,
     Refuse, Verdict, At
<1>2. Unmoved
  BY DEF OptionsRefused, VerifyAssertion, RegisterFails, RemoveCount, RemoveDelete, OtherCall,
     Refuse, Unmoved
<1> QED
  BY <1>1, <1>2, FinishJudged

LEMMA Posts ==
    ASSUME TypeOK, NEW t \in Tabs,
           \/ StartCeremony(t) \/ Approve(t) \/ RemovePasskey(t) \/ DisableProtection(t)
           \/ SignOut(t) \/ CallOther(t) \/ Resend(t)
    PROVE  Unmoved /\ \E th \in Threads : Arrived(th, Jar(t)) /\ \A o \in Threads \ {th} : Same(o)
<1>1. ASSUME NEW th \in Threads, NEW op, NEW for, NEW signed, NEW cred, req[th] = Free,
             LiveSession(Jar(t)), req'[th] = Sent(t, op, for, signed, cred)
      PROVE  Arrived(th, Jar(t))
  BY <1>1 DEF Arrived, Sent
<1>2. CASE Resend(t)
  <2>1. PICK th \in Threads, again \in Threads :
           /\ req[th].tab = t /\ req[again] = Free
           /\ req' = [req EXCEPT ![th].tab = NoTab,
                                 ![again] = Sent(t, req[th].op, req[th].for, req[th].signed,
                                                 IF req[th].op = "options" THEN 0 ELSE req[th].cred)]
    BY <1>2 DEF Resend
  <2> DEFINE s == Sent(t, req[th].op, req[th].for, req[th].signed,
                       IF req[th].op = "options" THEN 0 ELSE req[th].cred)
  <2>2. th # again
    BY <2>1, PasskeysAssumption DEF Free
  <2>3. req' = [[req EXCEPT ![th] = [req[th] EXCEPT !.tab = NoTab]] EXCEPT ![again] = s]
    BY <2>1, <2>2 DEF TypeOK
  <2>4. req'[again] = s
    <3> HIDE DEF s
    <3> QED
      BY <2>3 DEF TypeOK
  <2>5. ASSUME NEW o \in Threads \ {again} PROVE Same(o)
    <3>1. req'[o] \in {req[o], [req[o] EXCEPT !.tab = NoTab]}
      <4> HIDE DEF s
      <4> QED
        BY <2>3 DEF TypeOK
    <3> QED
      BY <3>1 DEF Same, TypeOK, Requests
  <2>6. Arrived(again, Jar(t)) /\ Unmoved
    BY <1>1, <1>2, <2>1, <2>4 DEF Resend, MayPost, Unmoved
  <2> QED
    BY <2>5, <2>6
<1>3. CASE ~Resend(t)
  <2>1. PICK op, for, signed, cred : LiveSession(Jar(t)) /\ Send(t, op, for, signed, cred)
    BY <1>3 DEF StartCeremony, Approve, RemovePasskey, DisableProtection, SignOut, CallOther,
       Post, MayPost
  <2>2. PICK th \in Threads :
           req[th] = Free /\ req' = [req EXCEPT ![th] = Sent(t, op, for, signed, cred)]
    BY <2>1 DEF Send
  <2>3. req'[th] = Sent(t, op, for, signed, cred) /\ \A o \in Threads \ {th} : req'[o] = req[o]
    BY <2>2 DEF TypeOK
  <2>4. Unmoved
    BY <2>1 DEF Send, Unmoved
  <2> QED
    BY <1>1, <2>1, <2>2, <2>3, <2>4 DEF Same
<1> QED
  BY <1>2, <1>3

LEMMA RotateEach ==
    ASSUME TypeOK, NEW th \in Threads, NEW auth \in 0..MaxChal, RotateSession(th, auth),
           drawn.sids < MaxSid
    PROVE  /\ req'[th] = [req[th] EXCEPT !.sid = drawn.sids + 1, !.auth = auth, !.ceremony = 0, !.st = "ok"]
           /\ req'[th].st = "ok" /\ req'[th].sid = drawn.sids + 1 /\ req'[th].auth = auth
           /\ req'[th].op = req[th].op
           /\ \A o \in Threads \ {th} : req'[o] = req[o]
<1> DEFINE r == [req[th] EXCEPT !.sid = drawn.sids + 1, !.auth = auth, !.ceremony = 0, !.st = "ok"]
<1>1. req' = [req EXCEPT ![th] = r] /\ req[th] \in Requests
  BY DEF RotateSession, TypeOK
<1>2. r.st = "ok" /\ r.sid = drawn.sids + 1 /\ r.auth = auth /\ r.op = req[th].op
  BY <1>1 DEF Requests
<1>3. req'[th] = r /\ \A o \in Threads \ {th} : req'[o] = req[o]
  <2> HIDE DEF r
  <2> QED
    BY <1>1 DEF TypeOK
<1> QED
  BY <1>2, <1>3
-----------------------------------------------------------------------------
(* Challenges *)

LEMMA SpentKept ==
    ASSUME Spent, wins' = wins, drawn'.chals = drawn.chals,
           \A c \in Chals : chal'[c].open => chal[c].open,
           \A th \in Threads, c \in Chals \cup {0} : Holder(th, c)' => Holder(th, c)
    PROVE  Spent'
BY DEF Spent, OnceOnly

LEMMA SameHolder ==
    ASSUME NEW o \in Threads, Same(o) \/ Judged(o), NEW c, Holder(o, c)' PROVE Holder(o, c)
BY DEF Same, Judged, Holder

\* Who has taken a challenge wins by it once, at most.
LEMMA WinSpends ==
    ASSUME TypeOK, Spent, NEW th \in Threads, LoginVerified(th) \/ Register(th)
    PROVE  /\ Spent' /\ req[th].loaded \in Chals
           /\ wins[req[th].loaded] = 0 /\ wins'[req[th].loaded] = 1
           /\ \A c \in Chals \ {req[th].loaded} : wins'[c] = wins[c]
<1> PICK k : k = req[th].loaded
  OBVIOUS
<1>1. PICK auth \in {k, 0} : RotateSession(th, auth) /\ drawn.sids < MaxSid
  BY DEF LoginVerified, Register
<1>2. k \in 0..MaxChal /\ auth \in 0..MaxChal
  BY Records DEF TypeOK, Requests
<1>3. req'[th].st = "ok" /\ \A o \in Threads \ {th} : req'[o] = req[o]
  BY <1>1, <1>2, RotateEach
<1>4. chal' = chal /\ drawn'.chals = drawn.chals /\ wins' = [wins EXCEPT ![k] = wins[k] + 1]
  BY DEF LoginVerified, Register, TypeOK
<1>5. Holder(th, k)
  BY DEF LoginVerified, Register, At, Holder
<1>6. k \in Chals
  BY <1>2, <1>5, Records DEF Spent, Chals
<1>7. wins[k] = 0 /\ ~chal[k].open /\ ~(k > drawn.chals) /\ \A o \in Threads \ {th} : ~Holder(o, k)
  BY <1>5, <1>6 DEF Spent, OnceOnly
<1>8. wins'[k] = 1 /\ \A c \in Chals \ {k} : wins'[c] = wins[c]
  BY <1>4, <1>6, <1>7 DEF TypeOK
<1>9. ASSUME NEW o \in Threads, NEW c, Holder(o, c)' PROVE Holder(o, c) /\ o # th
  BY <1>3, <1>9 DEF Holder
<1>10. \A o \in Threads : ~Holder(o, k)'
  BY <1>7, <1>9
<1>11. OnceOnly(k)'
  BY <1>4, <1>7, <1>8, <1>10 DEF OnceOnly
<1>12. ASSUME NEW c \in Chals \ {k} PROVE OnceOnly(c)'
  BY <1>4, <1>8, <1>9 DEF Spent, OnceOnly
<1>13. \A o \in Threads : ~Holder(o, 0)'
  BY <1>9 DEF Spent
<1> QED
  BY <1>6, <1>7, <1>8, <1>11, <1>12, <1>13 DEF Spent

LEMMA NextSpent == TypeOK /\ Spent /\ [Next]_vars => Spent'
<1> SUFFICES ASSUME TypeOK, Spent, [Next]_vars PROVE Spent'
  OBVIOUS
<1>1. ASSUME Unmoved, \A o \in Threads, c \in Chals \cup {0} : Holder(o, c)' => Holder(o, c)
      PROVE  Spent'
  BY <1>1, SpentKept DEF Unmoved
<1>2. ASSUME NEW th \in Threads, NewChallenge(th) PROVE Spent'
  <2> PICK n : n = drawn.chals + 1
    OBVIOUS
  <2>1. n \in Chals /\ drawn'.chals = n /\ drawn.chals \in Nat
    BY <1>2, Records DEF TypeOK, NewChallenge, Chals
  <2>2. /\ chal' = [chal EXCEPT ![n] = [sid |-> req[th].sid, kind |-> KindOf(req[th].for),
                                        open |-> TRUE]]
        /\ wins' = wins
    BY <1>2 DEF NewChallenge
  <2>3. req'[th].st = "ok" /\ \A o \in Threads \ {th} : req'[o] = req[o]
    BY <1>2 DEF NewChallenge, TypeOK, Requests
  <2>4. ASSUME NEW o \in Threads, NEW c, Holder(o, c)' PROVE Holder(o, c)
    BY <2>3, <2>4 DEF Holder
  <2>5. wins[n] = 0 /\ \A o \in Threads : ~Holder(o, n)
    BY <2>1 DEF Spent, OnceOnly
  <2>6. OnceOnly(n)'
    BY <2>1, <2>2, <2>4, <2>5 DEF OnceOnly
  <2>7. ASSUME NEW c \in Chals \ {n} PROVE OnceOnly(c)'
    <3>1. chal'[c] = chal[c] /\ (c > n => c > drawn.chals) /\ (c > drawn.chals => c > n)
      BY <2>1, <2>2 DEF TypeOK, Chals
    <3> QED
      BY <2>1, <2>2, <2>4, <3>1 DEF Spent, OnceOnly
  <2> QED
    BY <2>4, <2>6, <2>7 DEF Spent
<1>3. ASSUME NEW th \in Threads, TakeChallenge(th) PROVE Spent'
  <2> PICK k : k = req[th].loaded
    OBVIOUS
  <2>1. /\ wins' = wins /\ drawn' = drawn /\ \A o \in Threads \ {th} : req'[o] = req[o]
        /\ req'[th].loaded = k
    BY <1>3 DEF TakeChallenge, Finish, TypeOK, Requests
  <2>2. CASE ~(Takeable(req[th]) /\ (req[th].for = "login" \/ MayBegin(req[th])))
    <3>1. chal' = chal /\ req'[th].st = "no"
      BY <1>3, <2>2 DEF TakeChallenge, Finish, TypeOK, Requests
    <3> QED
      BY <2>1, <3>1, SpentKept DEF Holder
  <2>3. CASE Takeable(req[th]) /\ (req[th].for = "login" \/ MayBegin(req[th]))
    <3>1. k \in Chals /\ chal[k].open
      <4>1. req[th].loaded \in 0..MaxChal
        BY DEF TypeOK, Requests
      <4>2. k # 0 /\ chal[k].open
        BY <2>3 DEF Takeable
      <4> QED
        BY <4>1, <4>2, Records DEF Chals
    <3>2. chal' = [chal EXCEPT ![k].open = FALSE]
      BY <1>3, <2>3 DEF TakeChallenge
    <3>3. ~chal'[k].open /\ \A c \in Chals \ {k} : chal'[c] = chal[c]
      BY <3>1, <3>2 DEF TypeOK, Challenges
    <3>4. wins[k] = 0 /\ ~(k > drawn.chals) /\ \A o \in Threads : ~Holder(o, k)
      BY <3>1 DEF Spent, OnceOnly
    <3>5. ASSUME NEW o \in Threads, NEW c, Holder(o, c)' PROVE Holder(o, c) \/ (o = th /\ c = k)
      BY <2>1, <3>5 DEF Holder
    <3>6. OnceOnly(k)'
      BY <2>1, <3>3, <3>4, <3>5 DEF OnceOnly
    <3>7. ASSUME NEW c \in Chals \ {k} PROVE OnceOnly(c)'
      BY <2>1, <3>3, <3>5 DEF Spent, OnceOnly
    <3>8. k # 0
      BY <2>3 DEF Takeable
    <3> QED
      BY <3>5, <3>6, <3>7, <3>8 DEF Spent
  <2> QED
    BY <2>2, <2>3
<1>4. ASSUME NEW th \in Threads, LoginVerified(th) \/ Register(th) PROVE Spent'
  BY <1>4, WinSpends
<1>5. ASSUME NEW th \in Threads, \/ OptionsRefused(th) \/ VerifyAssertion(th) \/ RegisterFails(th)
                                 \/ RemoveCount(th) \/ RemoveDelete(th) \/ OtherCall(th) \/ Refuse(th)
      PROVE  Spent'
  BY <1>1, <1>5, Verdicts, SameHolder
<1>6. ASSUME NEW th \in Threads, DisablePasskeys(th) PROVE Spent'
  <2>1. \/ Finish(th, "no") /\ drawn' = drawn
        \/ RotateSession(th, 0) /\ drawn.sids < MaxSid /\ drawn' = [drawn EXCEPT !.sids = @ + 1]
    BY <1>6 DEF DisablePasskeys
  <2>2. (req'[th].st = "no" \/ req'[th].st = "ok") /\ \A o \in Threads \ {th} : req'[o] = req[o]
    BY <2>1 DEF Finish, RotateSession, TypeOK, Requests
  <2>3. wins' = wins /\ chal' = chal /\ drawn'.chals = drawn.chals
    BY <1>6, <2>1 DEF DisablePasskeys, TypeOK
  <2> QED
    BY <2>2, <2>3, SpentKept DEF Holder
<1>7. ASSUME NEW th \in Threads, Logout(th) \/ SaveSession(th) PROVE Spent'
  <2>1. (req'[th].st = "out" \/ req'[th].st = "free") /\ \A o \in Threads \ {th} : req'[o] = req[o]
    BY <1>7 DEF Logout, SaveSession, Finish, Free, TypeOK, Requests
  <2>2. wins' = wins /\ chal' = chal /\ drawn' = drawn
    BY <1>7 DEF Logout, SaveSession
  <2> QED
    BY <2>1, <2>2, SpentKept DEF Holder
<1>8. ASSUME NEW c \in Chals, ChallengeExpires(c) \/ AssertionAges(c) PROVE Spent'
  <2>1. \A d \in Chals : chal'[d].open => chal[d].open
    BY <1>8 DEF ChallengeExpires, AssertionAges, TypeOK, Challenges
  <2>2. req' = req /\ wins' = wins /\ drawn' = drawn
    BY <1>8 DEF ChallengeExpires, AssertionAges
  <2> QED
    BY <2>1, <2>2, SpentKept DEF Holder
<1>9. ASSUME NEW t \in Tabs, \/ StartCeremony(t) \/ Approve(t) \/ RemovePasskey(t) \/ DisableProtection(t)
                             \/ SignOut(t) \/ CallOther(t) \/ Resend(t)
      PROVE  Spent'
  <2>1. PICK th \in Threads : Unmoved /\ Arrived(th, Jar(t)) /\ \A o \in Threads \ {th} : Same(o)
    BY <1>9, Posts
  <2>2. \A c : ~Holder(th, c)'
    BY <2>1 DEF Arrived, Holder
  <2> QED
    BY <1>1, <2>1, <2>2, SameHolder
<1>10. ASSUME NEW t \in Tabs, Cancel(t) \/ TurnAway(t) \/ Boot(t) PROVE Spent'
  <2>1. wins' = wins /\ chal' = chal /\ drawn'.chals = drawn.chals
    BY <1>10 DEF Cancel, TurnAway, Boot, TypeOK
  <2>2. \A o \in Threads : Same(o)
    BY <1>10 DEF Cancel, TurnAway, Boot, Same, TypeOK, Requests
  <2> QED
    BY <2>1, <2>2, SpentKept, SameHolder
<1>11. CASE UNCHANGED vars
  BY <1>1, <1>11 DEF vars, Unmoved, Holder
<1> QED
  BY <1>2, <1>3, <1>4, <1>5, <1>6, <1>7, <1>8, <1>9, <1>10, <1>11 DEF Next, Handler, User
-----------------------------------------------------------------------------
(* Sessions *)

\* A call that is still being served, and may have changed the ceremony.
Served(o) ==
    /\ req'[o].op = req[o].op /\ req'[o].loaded = req[o].loaded
    /\ req'[o].sid = req[o].sid /\ req'[o].auth = req[o].auth
    /\ req[o].st \notin {"free", "ok"} /\ req'[o].st # "free"
    /\ req'[o].ceremony = req[o].ceremony \/ req[o].op \in {"options", "verify"}

\* A row that has been written keeps its authentication; one that has not may be written by
\* the request that has rotated to it.
Written(s) ==
    \/ sess'[s] = sess[s]
    \/ /\ sess[s].state # "absent" /\ sess'[s].state # "absent"
       /\ sess'[s].auth = sess[s].auth
    \/ /\ sess[s].state = "absent" /\ sess'[s].state # "absent"
       /\ \E th \in Threads : /\ req[th].sid = s /\ req'[th] = Free
                              /\ sess'[s].auth = req[th].auth

LEMMA SessionsKept ==
    ASSUME TypeOK, Allotted, Copies, Owners, wins' = wins, drawn'.sids = drawn.sids,
           \A s \in Sids : Written(s),
           \A o \in Threads : Same(o) \/ Served(o) \/ req'[o] = Free \/ \E s \in Sids : Arrived(o, s)
    PROVE  Allotted' /\ Copies' /\ Owners'
<1>1. \A o \in Threads : req[o].sid # 0 => req[o].sid \in Sids
  <2>1. \A o \in Threads : req[o].sid \in 0..MaxSid
    BY DEF TypeOK, Requests
  <2> QED
    BY <2>1, Records DEF Sids
<1>2. ASSUME NEW s \in Sids, LiveSession(s)
      PROVE  s <= drawn.sids
  <2>1. ~(s > drawn.sids)
    BY <1>2 DEF LiveSession, Allotted, Absent
  <2> QED
    BY <2>1, Records DEF Sids, TypeOK
<1>3. Allotted'
  <2>1. ASSUME NEW s \in Sids, sess[s] # sess'[s] PROVE ~(s > drawn.sids) /\ sess'[s].state # "absent"
    <3>1. sess'[s].state # "absent" /\ (sess[s].state # "absent" \/ \E th \in Threads : req[th].sid = s)
      BY <2>1 DEF Written
    <3>2. CASE sess[s].state # "absent"
      BY <3>1, <3>2 DEF Allotted, Absent
    <3>3. CASE \E th \in Threads : req[th].sid = s
      BY <3>1, <3>3, Records DEF Allotted, Sids, TypeOK
    <3> QED
      BY <3>1, <3>2, <3>3
  <2>2. ASSUME NEW o \in Threads
        PROVE  /\ req'[o].sid <= drawn.sids
               /\ req'[o].st # "free" => req'[o].sid # 0
    <3>1. CASE Same(o) \/ Served(o)
      BY <3>1 DEF Same, Served, Allotted
    <3>2. CASE req'[o] = Free
      BY <3>2, Records DEF Free, TypeOK
    <3>3. CASE \E s \in Sids : Arrived(o, s)
      <4>1. PICK s \in Sids : Arrived(o, s)
        BY <3>3
      <4>2. LiveSession(s) /\ req'[o].sid = s
        BY <4>1 DEF Arrived
      <4> QED
        BY <1>2, <4>2 DEF LiveSession
    <3> QED
      BY <3>1, <3>2, <3>3
  <2> QED
    BY <2>1, <2>2 DEF Allotted
<1>4. Copies'
  <2> SUFFICES ASSUME NEW th \in Threads, req'[th].sid # 0 PROVE Copy(th)'
    BY DEF Copies
  <2>1. CASE \E s \in Sids : Arrived(th, s)
    <3>1. PICK s \in Sids : Arrived(th, s)
      BY <2>1
    <3>2. sess[s].state = "live" /\ req'[th].sid = s /\ req'[th].auth = sess[s].auth
          /\ req'[th].loaded = req'[th].ceremony
      BY <3>1 DEF Arrived, LiveSession
    <3>3. sess'[s].state # "absent" /\ sess'[s].auth = sess[s].auth
      BY <3>2 DEF Written
    <3> QED
      BY <3>2, <3>3 DEF Copy
  <2>2. CASE Same(th) \/ Served(th)
    <3> DEFINE s == req[th].sid
    <3>1. s \in Sids /\ req'[th].sid = s /\ Copy(th) /\ req'[th].auth = req[th].auth
      BY <1>1, <2>2 DEF Copies, Same, Served
    <3>2. CASE sess[s].state = "absent"
      <4>1. req[th].st = "ok" /\ \A o \in Threads \ {th} : req[o].sid # s
        BY <3>1, <3>2 DEF Copy
      <4>2. Same(th) /\ req'[th].st = "ok"
        BY <2>2, <4>1 DEF Served, Same
      <4>3. sess'[s] = sess[s]
        <5>1. ASSUME NEW o \in Threads, req[o].sid = s, req'[o] = Free PROVE FALSE
          BY <4>1, <4>2, <5>1 DEF Free
        <5> QED
          BY <3>1, <3>2, <5>1 DEF Written
      <4>4. ASSUME NEW o \in Threads \ {th} PROVE req'[o].sid # s
        <5>1. CASE Same(o) \/ Served(o)
          BY <4>1, <5>1 DEF Same, Served
        <5>2. CASE req'[o] = Free
          BY <5>2, <3>1, Records DEF Free, Sids
        <5>3. CASE \E x \in Sids : Arrived(o, x)
          BY <3>2, <5>3 DEF Arrived, LiveSession
        <5> QED
          BY <5>1, <5>2, <5>3
      <4> QED
        BY <3>1, <3>2, <4>2, <4>3, <4>4 DEF Copy
    <3>3. CASE sess[s].state # "absent"
      <4>1. sess'[s].state # "absent" /\ sess'[s].auth = sess[s].auth
        BY <3>1, <3>3 DEF Written
      <4>2. req[th].auth = sess[s].auth /\ (req[th].loaded # req[th].ceremony => req[th].op \in {"options", "verify"})
        BY <3>1, <3>3 DEF Copy
      <4>3. req'[th].loaded # req'[th].ceremony => req'[th].op \in {"options", "verify"}
        BY <2>2, <4>2 DEF Same, Served
      <4> QED
        BY <3>1, <4>1, <4>2, <4>3 DEF Copy
    <3> QED
      BY <3>2, <3>3
  <2>3. CASE req'[th] = Free
    BY <2>3 DEF Free
  <2> QED
    BY <2>1, <2>2, <2>3
<1>5. Owners'
  <2>1. ASSUME NEW s \in Sids, NEW c \in Chals, Owns(s, c)' PROVE Owns(s, c)
    <3>1. CASE sess'[s].auth = c
      BY <3>1 DEF Written, Owns
    <3>2. ASSUME NEW th \in Threads, req'[th].sid = s, req'[th].auth = c PROVE Owns(s, c)
      <4>1. CASE Same(th) \/ Served(th)
        BY <3>2, <4>1 DEF Same, Served, Owns
      <4>2. CASE req'[th] = Free
        BY <3>2, <4>2, Records DEF Free, Sids
      <4>3. CASE \E x \in Sids : Arrived(th, x)
        BY <3>2, <4>3 DEF Arrived, Owns
      <4> QED
        BY <4>1, <4>2, <4>3
    <3> QED
      BY <2>1, <3>1, <3>2 DEF Owns
  <2> QED
    BY <2>1 DEF Owners
<1> QED
  BY <1>3, <1>4, <1>5

\* Rotation: the row that was loaded stays, revoked, and the request has a new session, which
\* belongs to the challenge that was won, if one was.
LEMMA RotationKept ==
    ASSUME TypeOK, Allotted, Copies, Owners, NEW th \in Threads, NEW auth \in Chals \cup {0},
           req[th].st \notin {"free", "ok"}, RotateSession(th, auth), drawn.sids < MaxSid,
           drawn'.sids = drawn.sids + 1,
           \A c \in Chals : wins[c] = 1 => wins'[c] = 1,
           auth # 0 => wins[auth] = 0 /\ wins'[auth] = 1
    PROVE  Allotted' /\ Copies' /\ Owners'
<1> PICK n, old : n = drawn.sids + 1 /\ old = req[th].sid
  OBVIOUS
<1>1. /\ n \in Sids /\ sess[n] = Absent /\ drawn.sids \in Nat
      /\ \A o \in Threads : req[o].sid # n /\ req[o].sid <= drawn.sids /\ req[o].sid \in Nat
  <2>1. drawn.sids \in 0..MaxSid
    BY DEF TypeOK
  <2>2. n \in Sids /\ drawn.sids \in Nat /\ n > drawn.sids
    BY <2>1, Records DEF Sids
  <2>3. \A o \in Threads : req[o].sid \in Nat
    BY Records DEF TypeOK, Requests
  <2> QED
    BY <2>2, <2>3 DEF Allotted
<1>2. old \in Sids /\ Copy(th)
  <2>1. old # 0 /\ old \in 0..MaxSid
    BY DEF Allotted, TypeOK, Requests
  <2> QED
    BY <2>1, Records DEF Copies, Sids
<1>3. sess[old].state # "absent" /\ old # n
  BY <1>1, <1>2 DEF Copy
<1>4. /\ sess'[old].state = "revoked" /\ sess'[old].auth = sess[old].auth
      /\ \A s \in Sids \ {old} : sess'[s] = sess[s]
  BY <1>2 DEF RotateSession, TypeOK, Rows
<1>5. /\ req'[th].st = "ok" /\ req'[th].sid = n /\ req'[th].auth = auth
      /\ \A o \in Threads \ {th} : req'[o] = req[o]
  <2>1. auth \in 0..MaxChal
    BY Records DEF Chals
  <2> QED
    BY <2>1, RotateEach
<1>6. Allotted'
  <2>1. ASSUME NEW s \in Sids, s > n PROVE sess'[s] = Absent
    <3>1. s > drawn.sids /\ s # old
      BY <1>1, <2>1 DEF Sids
    <3> QED
      BY <1>4, <3>1 DEF Allotted
  <2>2. ASSUME NEW s \in Sids, sess'[s].state = "absent" PROVE sess'[s] = Absent
    BY <1>4, <2>2 DEF Allotted
  <2>3. ASSUME NEW o \in Threads
        PROVE  req'[o].sid <= n /\ (req'[o].st # "free" => req'[o].sid # 0)
    BY <1>1, <1>5 DEF Allotted
  <2> QED
    BY <2>1, <2>2, <2>3 DEF Allotted
<1>7. Copies'
  <2>1. Copy(th)'
    BY <1>1, <1>3, <1>4, <1>5 DEF Copy, Absent
  <2>2. ASSUME NEW o \in Threads \ {th}, req[o].sid # 0 PROVE Copy(o)'
    <3>1. Copy(o) /\ req[o].sid \in Sids /\ req[o].sid # n
      <4>1. req[o].sid \in 0..MaxSid
        BY DEF TypeOK, Requests
      <4>2. req[o].sid \in Sids
        BY <2>2, <4>1, Records DEF Sids
      <4>3. Copy(o)
        BY <2>2 DEF Copies
      <4> QED
        BY <1>1, <4>1, <4>2, <4>3
    <3> QED
      BY <1>3, <1>4, <1>5, <3>1 DEF Copy
  <2> QED
    BY <1>5, <2>1, <2>2 DEF Copies
<1>8. Owners'
  <2>1. ASSUME NEW s \in Sids, NEW c \in Chals, Owns(s, c)' PROVE Owns(s, c) \/ (s = n /\ c = auth)
    BY <1>4, <1>5, <2>1 DEF Owns
  <2>2. ASSUME NEW s \in Sids, NEW c \in Chals, Owns(s, c)', NEW o \in Sids, Owns(o, c)'
        PROVE  wins'[c] = 1 /\ o = s
    <3>1. (Owns(s, c) \/ (s = n /\ c = auth)) /\ (Owns(o, c) \/ (o = n /\ c = auth))
      BY <2>1, <2>2
    <3>2. c # 0
      BY DEF Chals
    <3>3. c = auth => ~Owns(s, c) /\ ~Owns(o, c)
      BY <3>2 DEF Owners
    <3> QED
      BY <3>1, <3>2, <3>3 DEF Owners
  <2> QED
    BY <2>2 DEF Owners
<1> QED
  BY <1>6, <1>7, <1>8

\* A new anonymous session, which no request has.
LEMMA AnonymousKept ==
    ASSUME TypeOK, Allotted, Copies, Owners, drawn.sids + 1 <= MaxSid, wins' = wins,
           drawn'.sids = drawn.sids + 1, sess' = [sess EXCEPT ![drawn.sids + 1] = Anonymous],
           \A o \in Threads : Same(o)
    PROVE  Allotted' /\ Copies' /\ Owners'
<1> PICK n : n = drawn.sids + 1
  OBVIOUS
<1>1. /\ n \in Sids /\ drawn.sids \in Nat
      /\ \A o \in Threads : req[o].sid # n /\ req[o].sid <= n
  <2>1. n \in Sids /\ drawn.sids \in Nat /\ \A o \in Threads : req[o].sid \in Nat
    BY Records DEF TypeOK, Requests, Sids
  <2> QED
    BY <2>1 DEF Allotted
<1>2. sess'[n] = Anonymous /\ \A s \in Sids \ {n} : sess'[s] = sess[s]
  BY <1>1 DEF TypeOK
<1>3. Allotted'
  <2>1. \A s \in Sids : s > n => s > drawn.sids /\ s # n
    BY <1>1 DEF Sids
  <2> QED
    BY <1>1, <1>2, <2>1 DEF Allotted, Same, Anonymous
<1>4. Copies'
  <2>1. ASSUME NEW o \in Threads, req'[o].sid # 0 PROVE Copy(o)'
    <3>1. Copy(o) /\ req[o].sid \in Sids \ {n}
      BY <1>1, <2>1 DEF Copies, TypeOK, Requests, Sids, Same
    <3> QED
      BY <1>2, <3>1 DEF Copy, Same
  <2> QED
    BY <2>1 DEF Copies
<1>5. Owners'
  <2>1. ASSUME NEW s \in Sids, NEW c \in Chals, Owns(s, c)' PROVE Owns(s, c)
    BY <1>2, <2>1 DEF Owns, Same, Anonymous, Chals
  <2> QED
    BY <2>1 DEF Owners
<1> QED
  BY <1>3, <1>4, <1>5

LEMMA NextSessions ==
    TypeOK /\ Spent /\ Allotted /\ Copies /\ Owners /\ [Next]_vars => Allotted' /\ Copies' /\ Owners'
<1> SUFFICES ASSUME TypeOK, Spent, Allotted, Copies, Owners, [Next]_vars
             PROVE  Allotted' /\ Copies' /\ Owners'
  OBVIOUS
<1> DEFINE Goal == Allotted' /\ Copies' /\ Owners'
           Kept(o) == Same(o) \/ Served(o) \/ req'[o] = Free \/ \E s \in Sids : Arrived(o, s)
<1>1. ASSUME Unmoved, \A o \in Threads : Kept(o) PROVE Goal
  <2>1. wins' = wins /\ drawn'.sids = drawn.sids /\ \A s \in Sids : Written(s)
    BY <1>1 DEF Unmoved, Written
  <2> QED
    BY <1>1, <2>1, SessionsKept
<1>2. ASSUME NEW o \in Threads, Judged(o) PROVE Served(o)
  BY <1>2 DEF Judged, Served
<1>3. ASSUME NEW th \in Threads, NewChallenge(th) \/ TakeChallenge(th) PROVE Goal
  <2>1. \A o \in Threads \ {th} : req'[o] = req[o]
    BY <1>3 DEF NewChallenge, TakeChallenge, Finish, TypeOK
  <2>2. Served(th)
    <3>1. CASE NewChallenge(th)
      <4>1. req[th].op = "options" /\ req[th].st = "sent" /\ req[th] \in Requests
        BY <3>1 DEF NewChallenge, At, TypeOK
      <4>2. PICK c, k : req' = [req EXCEPT ![th].ceremony = c, ![th].cred = k, ![th].st = "ok"]
        BY <3>1 DEF NewChallenge
      <4>3. req'[th] = [req[th] EXCEPT !.ceremony = c, !.cred = k, !.st = "ok"]
        BY <4>2 DEF TypeOK
      <4> QED
        BY <4>1, <4>3 DEF Served, Requests
    <3>2. CASE TakeChallenge(th)
      <4>1. req[th].op = "verify" /\ req[th].st = "sent" /\ req[th] \in Requests
        BY <3>2 DEF TakeChallenge, At, TypeOK
      <4>2. \/ \E st \in {"taken", "no"} : req' = [req EXCEPT ![th].ceremony = 0, ![th].st = st]
            \/ Finish(th, "no")
        BY <3>2 DEF TakeChallenge
      <4>3. \/ \E st \in {"taken", "no"} : req'[th] = [req[th] EXCEPT !.ceremony = 0, !.st = st]
            \/ req'[th] = [req[th] EXCEPT !.st = "no"]
        BY <4>2 DEF TypeOK, Finish
      <4> QED
        BY <4>1, <4>3 DEF Served, Requests
    <3> QED
      BY <1>3, <3>1, <3>2
  <2>3. wins' = wins /\ drawn'.sids = drawn.sids /\ sess' = sess
    BY <1>3 DEF NewChallenge, TakeChallenge, TypeOK
  <2> QED
    BY <2>1, <2>2, <2>3, SessionsKept DEF Same, Written
<1>4. ASSUME NEW th \in Threads, LoginVerified(th) \/ Register(th) PROVE Goal
  <2>1. PICK auth \in {req[th].loaded, 0} : RotateSession(th, auth)
    BY <1>4 DEF LoginVerified, Register
  <2>2. /\ req[th].loaded \in Chals /\ wins[req[th].loaded] = 0 /\ wins'[req[th].loaded] = 1
        /\ \A c \in Chals \ {req[th].loaded} : wins'[c] = wins[c]
    BY <1>4, WinSpends
  <2>3. /\ auth \in Chals \cup {0}
        /\ auth # 0 => wins[auth] = 0 /\ wins'[auth] = 1
        /\ \A c \in Chals : wins[c] = 1 => wins'[c] = 1
    BY <2>1, <2>2
  <2>4. drawn.sids < MaxSid /\ drawn'.sids = drawn.sids + 1 /\ req[th].st \notin {"free", "ok"}
    BY <1>4 DEF LoginVerified, Register, At, TypeOK
  <2> QED
    BY <2>1, <2>3, <2>4, RotationKept
<1>5. ASSUME NEW th \in Threads, \/ OptionsRefused(th) \/ VerifyAssertion(th) \/ RegisterFails(th)
                                 \/ RemoveCount(th) \/ RemoveDelete(th) \/ OtherCall(th) \/ Refuse(th)
      PROVE  Goal
  BY <1>1, <1>2, <1>5, Verdicts
<1>6. ASSUME NEW th \in Threads, DisablePasskeys(th) PROVE Goal
  <2>1. req[th].st \notin {"free", "ok"} /\ wins' = wins
    BY <1>6 DEF DisablePasskeys, At
  <2>2. CASE MayManage(req[th]) /\ ~PolicyRequired
    <3>1. drawn.sids < MaxSid /\ drawn'.sids = drawn.sids + 1 /\ RotateSession(th, 0)
      BY <1>6, <2>2 DEF DisablePasskeys, TypeOK
    <3> QED
      BY <2>1, <3>1, RotationKept
  <2>3. CASE ~(MayManage(req[th]) /\ ~PolicyRequired)
    <3>1. Finish(th, "no") /\ Unmoved
      BY <1>6, <2>3 DEF DisablePasskeys, Unmoved
    <3> QED
      BY <1>1, <1>2, <2>1, <3>1, FinishJudged
  <2> QED
    BY <2>2, <2>3
<1>7. ASSUME NEW th \in Threads, Logout(th) PROVE Goal
  <2>1. Judged(th) /\ \A o \in Threads \ {th} : Same(o)
    BY <1>7, FinishJudged DEF Logout, At
  <2>2. req[th].sid \in Sids /\ Copy(th) /\ req[th].st = "sent"
    <3>1. req[th].st = "sent" /\ req[th].sid \in 0..MaxSid
      BY <1>7 DEF Logout, At, TypeOK, Requests
    <3>2. req[th].sid # 0
      BY <3>1 DEF Allotted
    <3> QED
      BY <3>1, <3>2, Records DEF Copies, Sids
  <2>3. \A s \in Sids : Written(s)
    BY <1>7, <2>2 DEF Logout, TypeOK, Rows, Copy, Written
  <2>4. wins' = wins /\ drawn' = drawn
    BY <1>7 DEF Logout
  <2> QED
    BY <1>2, <2>1, <2>3, <2>4, SessionsKept
<1>8. ASSUME NEW th \in Threads, SaveSession(th) PROVE Goal
  <2> DEFINE r == req[th]
  <2>1. /\ req'[th] = Free /\ \A o \in Threads \ {th} : req'[o] = req[o]
        /\ wins' = wins /\ drawn' = drawn
    BY <1>8 DEF SaveSession, TypeOK
  <2>2. r.sid \in Sids /\ Copy(th)
    <3>1. r.st # "free" /\ r.sid \in 0..MaxSid
      BY <1>8 DEF SaveSession, TypeOK, Requests
    <3>2. r.sid # 0
      BY <3>1 DEF Allotted
    <3> QED
      BY <3>1, <3>2, Records DEF Copies, Sids
  <2>3. \A s \in Sids \ {r.sid} : sess'[s] = sess[s]
    BY <1>8 DEF SaveSession, TypeOK
  <2>4. Written(r.sid)
    <3>1. CASE r.st = "out"
      <4>1. sess[r.sid].state # "absent"
        BY <2>2, <3>1 DEF Copy
      <4>2. sess'[r.sid] = [sess[r.sid] EXCEPT !.state = "revoked"]
        BY <1>8, <2>2, <3>1 DEF SaveSession, TypeOK
      <4>3. sess'[r.sid].state = "revoked" /\ sess'[r.sid].auth = sess[r.sid].auth
        BY <2>2, <4>2 DEF TypeOK, Rows
      <4> QED
        BY <4>1, <4>3 DEF Written
    <3>2. CASE r.st # "out"
      <4>1. sess'[r.sid] = WrittenBack(r)
        BY <1>8, <2>2, <3>2 DEF SaveSession, TypeOK
      <4>2. sess'[r.sid].state = "live" /\ sess'[r.sid].auth = r.auth
        BY <4>1 DEF WrittenBack
      <4> QED
        BY <2>1, <2>2, <4>2 DEF Copy, Written
    <3> QED
      BY <3>1, <3>2
  <2>5. \A s \in Sids : Written(s)
    BY <2>3, <2>4 DEF Written
  <2> QED
    BY <2>1, <2>5, SessionsKept DEF Same
<1>9. ASSUME NEW c \in Chals, ChallengeExpires(c) \/ AssertionAges(c) PROVE Goal
  BY <1>9, SessionsKept DEF ChallengeExpires, AssertionAges, Same, Written
<1>10. ASSUME NEW t \in Tabs, \/ StartCeremony(t) \/ Approve(t) \/ RemovePasskey(t)
                              \/ DisableProtection(t) \/ SignOut(t) \/ CallOther(t) \/ Resend(t)
       PROVE  Goal
  <2>1. PICK th \in Threads : Unmoved /\ Arrived(th, Jar(t)) /\ \A o \in Threads \ {th} : Same(o)
    BY <1>10, Posts
  <2>2. Jar(t) \in Sids
    BY <2>1, PasskeysAssumption, Records DEF Arrived, LiveSession, Jar, TypeOK, Sids
  <2> QED
    BY <1>1, <2>1, <2>2
<1>11. ASSUME NEW t \in Tabs, Cancel(t) \/ TurnAway(t) \/ Boot(t) PROVE Goal
  <2>1. \A o \in Threads : Same(o)
    BY <1>11 DEF Cancel, TurnAway, Boot, Same, TypeOK, Requests
  <2>2. CASE sess' = sess /\ drawn' = drawn /\ wins' = wins
    BY <2>1, <2>2, SessionsKept DEF Written
  <2>3. CASE ~(sess' = sess /\ drawn' = drawn /\ wins' = wins)
    <3>1. /\ drawn.sids + 1 <= MaxSid /\ wins' = wins
          /\ drawn' = [drawn EXCEPT !.sids = drawn.sids + 1]
          /\ sess' = [sess EXCEPT ![drawn.sids + 1] = Anonymous]
      BY <1>11, <2>3 DEF Cancel, TurnAway, Boot
    <3>2. drawn'.sids = drawn.sids + 1
      BY <3>1 DEF TypeOK
    <3> QED
      BY <2>1, <3>1, <3>2, AnonymousKept
  <2> QED
    BY <2>2, <2>3
<1>12. CASE UNCHANGED vars
  BY <1>1, <1>12 DEF vars, Unmoved, Same
<1> QED
  BY <1>3, <1>4, <1>5, <1>6, <1>7, <1>8, <1>9, <1>10, <1>11, <1>12 DEF Next, Handler, User
-----------------------------------------------------------------------------
(* Theorems *)

LEMMA InitSessions == Init => Spent /\ Allotted /\ Copies /\ Owners
<1> SUFFICES ASSUME Init PROVE Spent /\ Allotted /\ Copies /\ Owners
  OBVIOUS
<1>1. drawn.sids = Cardinality(Browsers) /\ drawn.chals = 0 /\ Cardinality(Browsers) \in Nat
  BY PasskeysAssumption, FS_CardinalityType DEF Init
<1>2. /\ \A th \in Threads : req[th] = Free
      /\ \A c \in Chals : chal[c] = Unissued /\ wins[c] = 0
      /\ \A s \in Sids : sess[s] = IF s <= Cardinality(Browsers) THEN Anonymous ELSE Absent
  BY DEF Init
<1>3. Spent
  BY <1>2 DEF Spent, OnceOnly, Holder, Free, Unissued
<1>4. Allotted
  BY <1>1, <1>2 DEF Allotted, Free, Anonymous, Absent, Sids
<1>5. Copies
  BY <1>2 DEF Copies, Free
<1>6. Owners
  BY <1>2 DEF Owners, Owns, Free, Anonymous, Absent, Chals
<1> QED
  BY <1>3, <1>4, <1>5, <1>6

\* Every state of the passkeys, the sessions and the pages is well-formed: no handler stores
\* an id that was not drawn or a row, challenge or request of another shape.
THEOREM TypeCorrect == Spec => []TypeOK
<1>1. Init => TypeOK
  BY InitTyped
<1>2. TypeOK /\ [Next]_vars => TypeOK'
  BY NextTyped
<1> QED
  BY <1>1, <1>2, PTL DEF Spec

\* Challenges are spent once, ids are drawn in order, and every copy of a session that a
\* request still holds agrees with its row about who is signed in.
THEOREM Invariant == Spec => []IInv
<1>1. Init => IInv
  BY InitTyped, InitSessions DEF IInv
<1>2. IInv /\ [Next]_vars => IInv'
  BY NextTyped, NextSpent, NextSessions DEF IInv
<1> QED
  BY <1>1, <1>2, PTL DEF Spec

\* A challenge is worth at most one sign-in or registration: the conditional UPDATE of
\* _consume_challenge lets one of the requests that answer it through.
THEOREM ChallengesAreOneTime == Spec => []ChallengeCountsOnce
<1>1. IInv => ChallengeCountsOnce
  BY DEF IInv, Spent, OnceOnly, ChallengeCountsOnce
<1> QED
  BY <1>1, Invariant, PTL

\* What a step can do to a row.
LEMMA RowSteps ==
    ASSUME IInv, [Next]_vars, NEW s \in Sids, sess'[s] # sess[s]
    PROVE  \/ \E th \in Threads : /\ SaveSession(th) /\ req[th].sid = s /\ req'[th] = Free
                                 /\ Copy(th)
           \/ sess'[s].state = "revoked" /\ sess'[s].auth = sess[s].auth
              /\ sess'[s].ceremony = sess[s].ceremony
           \/ sess[s] = Absent /\ sess'[s] = Anonymous
<1> DEFINE Goal == \/ \E th \in Threads : /\ SaveSession(th) /\ req[th].sid = s /\ req'[th] = Free
                                          /\ Copy(th)
                   \/ sess'[s].state = "revoked" /\ sess'[s].auth = sess[s].auth
                      /\ sess'[s].ceremony = sess[s].ceremony
                   \/ sess[s] = Absent /\ sess'[s] = Anonymous
<1>1. sess \in [Sids -> Rows] /\ req \in [Threads -> Requests]
  BY DEF IInv, TypeOK
<1>2. ASSUME NEW th \in Threads, SaveSession(th) PROVE Goal
  <2>1. req'[th] = Free /\ req[th].sid = s
    BY <1>1, <1>2 DEF SaveSession
  <2>2. s # 0
    BY DEF Sids
  <2> QED
    BY <1>2, <2>1, <2>2 DEF IInv, Copies
<1>3. ASSUME NEW th \in Threads, sess' = [sess EXCEPT ![req[th].sid].state = "revoked"] PROVE Goal
  BY <1>1, <1>3 DEF Rows
<1>4. ASSUME NEW th \in Threads, Handler(th), ~SaveSession(th) PROVE Goal
  <2>1. sess' \in {sess, [sess EXCEPT ![req[th].sid].state = "revoked"]}
    BY <1>4 DEF Handler, NewChallenge, OptionsRefused, TakeChallenge, VerifyAssertion, RegisterFails,
       RemoveCount, RemoveDelete, OtherCall, Refuse, Logout, LoginVerified, Register,
       DisablePasskeys, RotateSession
  <2> QED
    BY <1>3, <2>1
<1>5. ASSUME NEW t \in Tabs, User(t) PROVE Goal
  <2>1. sess' \in {sess, [sess EXCEPT ![drawn.sids + 1] = Anonymous]}
    BY <1>5 DEF User, StartCeremony, Approve, Cancel, RemovePasskey, DisableProtection, SignOut,
       CallOther, TurnAway, Resend, Boot, Post, Send
  <2>2. s = drawn.sids + 1 /\ sess'[s] = Anonymous
    BY <1>1, <2>1
  <2>3. s > drawn.sids
    BY <2>2, Records DEF IInv, TypeOK
  <2> QED
    BY <2>2, <2>3 DEF IInv, Allotted
<1>6. ASSUME NEW c \in Chals, ChallengeExpires(c) \/ AssertionAges(c) PROVE Goal
  BY <1>6 DEF ChallengeExpires, AssertionAges
<1> QED
  BY <1>2, <1>4, <1>5, <1>6 DEF Next, vars

LEMMA CeremonyStep ==
    ASSUME IInv, [Next]_vars, NEW s \in Sids,
           sess[s].ceremony # 0, sess'[s].ceremony # sess[s].ceremony
    PROVE  \E th \in Threads : req[th].sid = s /\ req[th].op \in {"options", "verify"}
                                              /\ req'[th] = Free
<1>1. sess[s] # Absent /\ sess[s].state # "absent"
  BY DEF Absent, IInv, Allotted
<1>2. PICK th \in Threads : SaveSession(th) /\ req[th].sid = s /\ req'[th] = Free /\ Copy(th)
  BY <1>1, RowSteps
<1>3. req[th].loaded # req[th].ceremony
  <2>1. sess'[s] \in {[sess[s] EXCEPT !.state = "revoked"], WrittenBack(req[th])}
    BY <1>2 DEF SaveSession, IInv, TypeOK
  <2>2. sess'[s] = WrittenBack(req[th])
    BY <2>1 DEF IInv, TypeOK, Rows
  <2> QED
    BY <1>1, <1>2, <2>2 DEF WrittenBack
<1> QED
  BY <1>1, <1>2, <1>3 DEF Copy

\* save_session writes back a ceremony only for the requests that started or took one: an
\* overlapping call of any other kind leaves the ceremony of its session alone.
THEOREM CeremoniesAreKept == Spec => CeremonyKept
<1>1. IInv /\ [Next]_vars =>
        [\A s \in Sids :
           (sess[s].ceremony # 0 /\ sess'[s].ceremony # sess[s].ceremony)
             => \E th \in Threads : req[th].sid = s /\ req[th].op \in {"options", "verify"}
                                                    /\ req'[th] = Free]_vars
  BY CeremonyStep
<1> QED
  BY <1>1, Invariant, PTL DEF Spec, CeremonyKept

\* A request gets a session that is live, or one that was not drawn before: never one that
\* was revoked.
LEMMA NewSids ==
    ASSUME IInv, [Next]_vars, NEW s \in Sids, sess[s].state = "revoked",
           \A th \in Threads : req[th].sid # s
    PROVE  \A th \in Threads : req'[th].sid # s
<1> SUFFICES ASSUME NEW o \in Threads, req'[o].sid = s PROVE FALSE
  OBVIOUS
<1>1. req \in [Threads -> Requests] /\ s # 0 /\ s # drawn.sids + 1 /\ TypeOK
  <2>1. ~(s > drawn.sids)
    BY DEF IInv, Allotted, Absent
  <2> QED
    BY <2>1, Records DEF IInv, TypeOK, Sids
<1>2. req'[o].sid # req[o].sid
  OBVIOUS
<1>3. ASSUME NEW th \in Threads, NEW auth, RotateSession(th, auth) PROVE FALSE
  BY <1>1, <1>2, <1>3 DEF RotateSession, Requests
<1>4. ASSUME NEW th \in Threads, NEW st, Finish(th, st) PROVE FALSE
  BY <1>1, <1>2, <1>4 DEF Finish, Requests
<1>5. ASSUME NEW th \in Threads, NewChallenge(th) \/ TakeChallenge(th) PROVE FALSE
  <2>1. CASE NewChallenge(th)
    <3>1. PICK k : req' = [req EXCEPT ![th].ceremony = drawn.chals + 1, ![th].cred = k, ![th].st = "ok"]
      BY <2>1 DEF NewChallenge
    <3> QED
      BY <1>1, <1>2, <3>1 DEF Requests
  <2>2. CASE TakeChallenge(th)
    <3>1. \/ \E st : req' = [req EXCEPT ![th].ceremony = 0, ![th].st = st]
          \/ Finish(th, "no")
      BY <2>2 DEF TakeChallenge
    <3> QED
      BY <1>1, <1>2, <1>4, <3>1 DEF Requests
  <2> QED
    BY <1>5, <2>1, <2>2
<1>6. ASSUME NEW th \in Threads, Handler(th) PROVE FALSE
  <2>1. CASE SaveSession(th)
    BY <1>1, <1>2, <2>1, Records DEF SaveSession, Free
  <2>2. CASE LoginVerified(th) \/ Register(th) \/ DisablePasskeys(th)
    BY <1>3, <1>4, <2>2 DEF LoginVerified, Register, DisablePasskeys
  <2>3. CASE OptionsRefused(th) \/ VerifyAssertion(th) \/ RegisterFails(th) \/ RemoveCount(th)
             \/ RemoveDelete(th) \/ OtherCall(th) \/ Refuse(th) \/ Logout(th)
    BY <1>4, <2>3 DEF OptionsRefused, VerifyAssertion, RegisterFails, RemoveCount, RemoveDelete,
       OtherCall, Refuse, Logout, Verdict
  <2> QED
    BY <1>5, <1>6, <2>1, <2>2, <2>3 DEF Handler
<1>7. ASSUME NEW t \in Tabs, User(t) PROVE FALSE
  <2>1. CASE Cancel(t) \/ TurnAway(t) \/ Boot(t)
    BY <1>1, <1>2, <2>1 DEF Cancel, TurnAway, Boot, Requests
  <2>2. CASE ~(Cancel(t) \/ TurnAway(t) \/ Boot(t))
    <3>1. PICK th \in Threads : Arrived(th, Jar(t)) /\ \A x \in Threads \ {th} : Same(x)
      BY <1>1, <1>7, <2>2, Posts DEF User
    <3>2. o = th /\ s = Jar(t)
      BY <1>2, <3>1 DEF Same, Arrived
    <3> QED
      BY <3>1, <3>2 DEF Arrived, LiveSession
  <2> QED
    BY <2>1, <2>2
<1>8. ASSUME NEW c \in Chals, ChallengeExpires(c) \/ AssertionAges(c) PROVE FALSE
  BY <1>2, <1>8 DEF ChallengeExpires, AssertionAges
<1> QED
  BY <1>2, <1>6, <1>7, <1>8 DEF Next, vars

\* Signing out and rotation are final once the requests that overlap them are over: no
\* request is served on a revoked row, so none is left to write it back.
THEOREM RevocationIsFinal == Spec => RevokedStaysRevoked
<1>1. IInv /\ [Next]_vars =>
        [\A s \in Sids :
           (sess[s].state = "revoked" /\ \A th \in Threads : req[th].sid # s)
             => sess'[s].state = "revoked" /\ \A th \in Threads : req'[th].sid # s]_vars
  <2> SUFFICES ASSUME IInv, [Next]_vars, NEW s \in Sids, sess[s].state = "revoked",
                      \A th \in Threads : req[th].sid # s
               PROVE  sess'[s].state = "revoked" /\ \A th \in Threads : req'[th].sid # s
    OBVIOUS
  <2>1. sess'[s] = sess[s] \/ sess'[s].state = "revoked"
    BY RowSteps DEF Absent
  <2> QED
    BY <2>1, NewSids
<1> QED
  BY <1>1, Invariant, PTL DEF Spec, RevokedStaysRevoked

LEMMA AuthenticationStep ==
    ASSUME IInv, IInv', [Next]_vars, NEW s \in Sids
    PROVE  /\ sess[s].state # "absent" => sess'[s].auth = sess[s].auth
           /\ \A o \in Sids \ {s} : sess'[s].auth # 0 => sess'[o].auth # sess'[s].auth
<1>1. ASSUME sess[s].state # "absent", sess'[s].auth # sess[s].auth PROVE FALSE
  <2>1. PICK th \in Threads : SaveSession(th) /\ req[th].sid = s /\ Copy(th)
    BY <1>1, RowSteps DEF Absent
  <2>2. sess'[s] \in {[sess[s] EXCEPT !.state = "revoked"], WrittenBack(req[th])}
    BY <2>1 DEF SaveSession, IInv, TypeOK
  <2>3. sess'[s].auth = req[th].auth
    BY <1>1, <2>2 DEF IInv, TypeOK, Rows, WrittenBack
  <2> QED
    BY <1>1, <2>1, <2>3 DEF Copy
<1>2. ASSUME NEW o \in Sids \ {s}, sess'[s].auth # 0, sess'[o].auth = sess'[s].auth PROVE FALSE
  <2>1. sess'[s].auth \in Chals
    <3>1. sess' \in [Sids -> Rows] /\ MaxChal \in Nat
      BY Records DEF IInv, TypeOK
    <3>2. sess'[s].auth \in 0..MaxChal
      BY <3>1 DEF Rows
    <3> QED
      BY <1>2, <3>1, <3>2 DEF Chals
  <2> QED
    BY <1>2, <2>1 DEF IInv, Owners, Owns
<1> QED
  BY <1>1, <1>2

\* A session is never signed in or out under a request that holds a copy of it: who signs
\* in gets a session of its own, and what save_session writes back says what the row said.
THEOREM AuthenticationIsFixed == Spec => AuthenticationFixed
<1>1. IInv /\ IInv' /\ [Next]_vars =>
        [\A s \in Sids :
           /\ sess[s].state # "absent" => sess'[s].auth = sess[s].auth
           /\ \A o \in Sids \ {s} : sess'[s].auth # 0 => sess'[o].auth # sess'[s].auth]_vars
  BY AuthenticationStep
<1> QED
  BY <1>1, Invariant, PTL DEF Spec, AuthenticationFixed
=============================================================================
