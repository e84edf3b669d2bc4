------------------------------ MODULE Passkeys ------------------------------
(***************************************************************************)
(* Passkeys, WebAuthn ceremonies and the sessions they run in: first       *)
(* enrolment, registration, sign-in and step-up, removal, disabling and    *)
(* signing out, with requests of one session overlapping.                  *)
(*                                                                         *)
(* Every request works on its own copy of the session row, loaded when it  *)
(* arrives and written back when it ends.  A ceremony has two calls:       *)
(* options issues a challenge and verify answers it, the user's            *)
(* authenticator in between.  One tenant; authenticators sign what they    *)
(* are given and nothing else.  A session authenticated at some time is    *)
(* represented by the challenge that was answered then.                    *)
(***************************************************************************)
EXTENDS Naturals, FiniteSets

CONSTANTS Tabs, NoTab,          \* pages; NoTab: nobody waits for this answer any more
          Browsers, BrowserOf,  \* cookie jars, and the one a page uses
          Threads,              \* requests in progress at once
          Does,                 \* bound: what happens at each page
          PolicyRequired,       \* AUTH_POLICY is "required"
          FirstCreds,           \* how many passkeys there may be at first
          MaxSid, MaxChal, MaxCred  \* bounds: ids ever drawn

ASSUME PasskeysAssumption ==
    /\ MaxSid \in Nat /\ MaxChal \in Nat /\ MaxCred \in Nat
    /\ FirstCreds \subseteq 0..MaxCred /\ PolicyRequired \in BOOLEAN
    /\ NoTab \notin Tabs /\ BrowserOf \in [Tabs -> Browsers] /\ DOMAIN Does = Tabs
    /\ IsFiniteSet(Browsers) /\ Cardinality(Browsers) <= MaxSid

VARIABLES
    creds,      \* passkey_credentials: those registered now
    protected,  \* vault_identity.passkey_required
    sess,       \* server_sessions
    chal,       \* webauthn_challenges
    aged,       \* assertions older than the step-up window
    drawn,      \* how many ids of each sort have been drawn
    cookie,     \* each browser's session cookie, 0 for none
    tab,        \* the memory of each page
    req,        \* the request each thread serves, and its copy of the session
    wins        \* history: how often each challenge was accepted

vars == <<creds, protected, sess, chal, aged, drawn, cookie, tab, req, wins>>

Sids == 1..MaxSid
Chals == 1..MaxChal
Creds == 1..MaxCred

Kinds == {"none", "authentication", "registration"}
Starts == {"login", "register", "bootstrap"}
Ops == {"none", "options", "verify", "remove", "disable", "logout", "other"}
\* sent: session loaded, nothing done. taken: challenge consumed. verified: assertion
\* checked. counted: passkeys counted. ok, no: only save_session is left. out: signed out.
Stages == {"free", "sent", "taken", "verified", "counted", "ok", "no", "out"}

\* A session row. auth is the challenge its authentication answered, 0 if it has none;
\* a row that was never written is absent.
Absent == [state |-> "absent", auth |-> 0, ceremony |-> 0]
Anonymous == [state |-> "live", auth |-> 0, ceremony |-> 0]
Rows == [state : {"absent", "live", "revoked"}, auth : 0..MaxChal, ceremony : 0..MaxChal]

\* A challenge is open until it is consumed or expires.
Challenges == [sid : 0..MaxSid, kind : Kinds, open : BOOLEAN]
Unissued == [sid |-> 0, kind |-> "none", open |-> FALSE]

\* sid, auth, ceremony: this request's copy of the session; loaded: loaded_ceremony_id.
Free == [st |-> "free", op |-> "none", for |-> "login", tab |-> NoTab,
         sid |-> 0, auth |-> 0, ceremony |-> 0, loaded |-> 0, signed |-> 0, cred |-> 0]
Requests == [st : Stages, op : Ops, for : Starts, tab : Tabs \cup {NoTab},
             sid : 0..MaxSid, auth : 0..MaxChal, ceremony : 0..MaxChal,
             loaded : 0..MaxChal, signed : 0..MaxChal, cred : 0..MaxCred]

\* A page: its CSRF token, which names its session, and the ceremony it is in.
Page(sid) == [csrf |-> sid, at |-> "idle", for |-> "login", chal |-> 0, cred |-> 0]
Pages == [csrf : 0..MaxSid, at : {"idle", "prompt"}, for : Starts,
          chal : 0..MaxChal, cred : 0..MaxCred]

\* Every state of the passkeys, the sessions and the pages.
TypeOK ==
    /\ creds \subseteq Creds /\ protected \in BOOLEAN
    /\ sess \in [Sids -> Rows] /\ chal \in [Chals -> Challenges]
    /\ aged \subseteq Chals /\ wins \in [Chals -> Nat]
    /\ drawn \in [sids : 0..MaxSid, chals : 0..MaxChal, creds : 0..MaxCred]
    /\ cookie \in [Browsers -> 0..MaxSid]
    /\ tab \in [Tabs -> Pages] /\ req \in [Threads -> Requests]
-----------------------------------------------------------------------------
(* Gates, each a function of a request's copy of the session *)

\* Mistakes, here and below, replace the definition they precede to test the properties.
LiveSessionIgnoringRevocation(sid) == sid # 0 /\ sess[sid].state # "absent"

\* open_session finds a row that is not revoked.
LiveSession(sid) == sid # 0 /\ sess[sid].state = "live"
Jar(t) == cookie[BrowserOf[t]]
MayPost(t) == LiveSession(Jar(t)) /\ tab[t].csrf = Jar(t)

AuthRequired == PolicyRequired \/ protected
MayAccess(r) == AuthRequired => r.auth # 0
RecentReauth(r) == creds # {} => r.auth # 0 /\ r.auth \notin aged
MayManage(r) == MayAccess(r) /\ RecentReauth(r)
MayBegin(r) ==
    CASE r.for = "login"     -> creds # {}
      [] r.for = "register"  -> MayManage(r)
      [] r.for = "bootstrap" -> creds = {}
KindAsCalled(for) == for
KindOf(for) == IF for = "login" THEN "authentication" ELSE "registration"

At(th, op, st) == req[th].op = op /\ req[th].st = st
Finish(th, st) == req' = [req EXCEPT ![th].st = st]
Verdict(th, good, st) == Finish(th, IF good THEN st ELSE "no")
-----------------------------------------------------------------------------
(* Handlers *)

\* Any of the three options calls: the check, a new challenge for this session and a
\* choice among the passkeys offered. Verify makes the same check again.
NewChallenge(th) ==
    /\ At(th, "options", "sent")
    /\ MayBegin(req[th]) /\ drawn.chals < MaxChal
    /\ LET c == drawn.chals + 1
       IN  /\ drawn' = [drawn EXCEPT !.chals = c]
           /\ chal' = [chal EXCEPT ![c] = [sid |-> req[th].sid, kind |-> KindOf(req[th].for),
                                           open |-> TRUE]]
           /\ \E k \in IF req[th].for = "login" THEN creds ELSE {0} :
                req' = [req EXCEPT ![th].ceremony = c, ![th].cred = k, ![th].st = "ok"]
    /\ UNCHANGED <<creds, protected, sess, aged, cookie, tab, wins>>

OptionsRefused(th) ==
    /\ At(th, "options", "sent")
    /\ ~MayBegin(req[th])
    /\ Finish(th, "no")
    /\ UNCHANGED <<creds, protected, sess, chal, aged, drawn, cookie, tab, wins>>

\* What the conditional UPDATE matches.
Takeable(r) ==
    /\ r.loaded # 0
    /\ chal[r.loaded].open
    /\ chal[r.loaded].sid = r.sid /\ chal[r.loaded].kind = KindOf(r.for)

TakeChallengeAgain(th) ==
    /\ At(th, "verify", "sent")
    /\ LET r == req[th]
           allowed == r.for = "login" \/ MayBegin(r)
       IN  IF allowed
           THEN /\ chal' = [chal EXCEPT ![r.loaded].open = FALSE]
                /\ req' = [req EXCEPT ![th].ceremony = 0,
                                      ![th].st = IF r.loaded # 0 THEN "taken" ELSE "no"]
           ELSE Finish(th, "no") /\ UNCHANGED chal
    /\ UNCHANGED <<creds, protected, sess, aged, drawn, cookie, tab, wins>>

\* Registration checks its gate first, then the session's ceremony is popped and its
\* challenge consumed, if there is one and it can be.
TakeChallenge(th) ==
    /\ At(th, "verify", "sent")
    /\ LET r == req[th]
           allowed == r.for = "login" \/ MayBegin(r)
       IN  IF allowed
           THEN /\ chal' = IF Takeable(r) THEN [chal EXCEPT ![r.loaded].open = FALSE] ELSE chal
                /\ req' = [req EXCEPT ![th].ceremony = 0,
                                      ![th].st = IF Takeable(r) THEN "taken" ELSE "no"]
           ELSE Finish(th, "no") /\ UNCHANGED chal
    /\ UNCHANGED <<creds, protected, sess, aged, drawn, cookie, tab, wins>>

\* The passkey is looked up and the assertion checked against the challenge just taken.
VerifyAssertion(th) ==
    /\ At(th, "verify", "taken") /\ req[th].for = "login"
    /\ Verdict(th, req[th].cred \in creds /\ req[th].signed = req[th].loaded, "verified")
    /\ UNCHANGED <<creds, protected, sess, chal, aged, drawn, cookie, tab, wins>>

RotateSessionKeepingId(th, auth) ==
    /\ sess' = [sess EXCEPT ![req[th].sid].auth = auth]
    /\ req' = [req EXCEPT ![th].auth = auth, ![th].st = "ok"]

\* _rotate_session: the old row is revoked, and the copy becomes a new session that is
\* written when the request ends.
RotateSession(th, auth) ==
    /\ sess' = [sess EXCEPT ![req[th].sid].state = "revoked"]
    /\ req' = [req EXCEPT ![th].sid = drawn.sids + 1, ![th].auth = auth,
                          ![th].ceremony = 0, ![th].st = "ok"]

LoginVerified(th) ==
    /\ At(th, "verify", "verified") /\ drawn.sids < MaxSid
    /\ wins' = [wins EXCEPT ![req[th].loaded] = @ + 1]
    /\ drawn' = [drawn EXCEPT !.sids = @ + 1]
    /\ RotateSession(th, req[th].loaded)
    /\ UNCHANGED <<creds, protected, chal, aged, cookie, tab>>

\* Registration and first enrolment: the passkey is stored, protection is on, and the new
\* session is not authenticated.
Register(th) ==
    /\ At(th, "verify", "taken") /\ req[th].for # "login"
    /\ req[th].signed = req[th].loaded
    /\ drawn.sids < MaxSid /\ drawn.creds < MaxCred
    /\ wins' = [wins EXCEPT ![req[th].loaded] = @ + 1]
    /\ drawn' = [drawn EXCEPT !.sids = @ + 1, !.creds = @ + 1]
    /\ creds' = creds \cup {drawn.creds + 1} /\ protected' = TRUE
    /\ RotateSession(th, 0)
    /\ UNCHANGED <<chal, aged, cookie, tab>>

RegisterFails(th) ==
    /\ At(th, "verify", "taken") /\ req[th].for # "login"
    /\ req[th].signed # req[th].loaded
    /\ Finish(th, "no")
    /\ UNCHANGED <<creds, protected, sess, chal, aged, drawn, cookie, tab, wins>>

\* The count and the deletion are two statements under no lock.
RemoveCount(th) ==
    /\ At(th, "remove", "sent")
    /\ Verdict(th, MayManage(req[th]) /\ (AuthRequired => Cardinality(creds) > 1), "counted")
    /\ UNCHANGED <<creds, protected, sess, chal, aged, drawn, cookie, tab, wins>>

RemoveDelete(th) ==
    /\ At(th, "remove", "counted")
    /\ creds' = creds \ {req[th].cred}
    /\ Verdict(th, req[th].cred \in creds, "ok")
    /\ UNCHANGED <<protected, sess, chal, aged, drawn, cookie, tab, wins>>

DisablePasskeys(th) ==
    /\ At(th, "disable", "sent")
    /\ IF MayManage(req[th]) /\ ~PolicyRequired
       THEN /\ drawn.sids < MaxSid
            /\ protected' = FALSE
            /\ drawn' = [drawn EXCEPT !.sids = @ + 1]
            /\ RotateSession(th, 0)
       ELSE Finish(th, "no") /\ UNCHANGED <<protected, sess, drawn>>
    /\ UNCHANGED <<creds, chal, aged, cookie, tab, wins>>

Logout(th) ==
    /\ At(th, "logout", "sent")
    /\ sess' = [sess EXCEPT ![req[th].sid].state = "revoked"]
    /\ Finish(th, "out")
    /\ UNCHANGED <<creds, protected, chal, aged, drawn, cookie, tab, wins>>

\* Every other call leaves the session as it was loaded.
OtherCall(th) ==
    /\ At(th, "other", "sent")
    /\ Finish(th, "ok")
    /\ UNCHANGED <<creds, protected, sess, chal, aged, drawn, cookie, tab, wins>>

\* Over its rate limit, or, once a sign-in has taken its challenge, a locked account.
Refuse(th) ==
    /\ \/ req[th].st = "sent"
       \/ At(th, "verify", "taken") /\ req[th].for = "login"
    /\ req[th].tab # NoTab /\ "refused" \in Does[req[th].tab]
    /\ Finish(th, "no")
    /\ UNCHANGED <<creds, protected, sess, chal, aged, drawn, cookie, tab, wins>>
-----------------------------------------------------------------------------
(* The end of a request *)

WrittenBackWhole(r) == [state |-> "live", auth |-> r.auth, ceremony |-> r.ceremony]

\* save_session: the copy is written over the row, unrevoked; the ceremony only if this
\* request started or took one.
WrittenBack(r) ==
    [state |-> "live", auth |-> r.auth,
     ceremony |-> IF r.loaded # r.ceremony \/ sess[r.sid].state = "absent"
                  THEN r.ceremony ELSE sess[r.sid].ceremony]

\* What the page makes of its answer.
Continue(page, r) ==
    CASE r.op = "options" /\ r.st = "ok" ->
            [page EXCEPT !.at = "prompt", !.for = r.for, !.chal = r.ceremony, !.cred = r.cred]
      [] r.op \in {"verify", "disable"} /\ r.st = "ok" -> Page(r.sid)
      [] r.st = "out" -> Page(0)
      [] OTHER -> Page(page.csrf)

SaveSession(th) ==
    /\ req[th].st \in {"ok", "no", "out"}
    /\ LET r == req[th]
           out == r.st = "out"
       IN  /\ sess' = [sess EXCEPT ![r.sid] = IF out THEN [@ EXCEPT !.state = "revoked"]
                                                     ELSE WrittenBack(r)]
           /\ IF r.tab = NoTab THEN UNCHANGED <<cookie, tab>>
              ELSE /\ cookie' = [cookie EXCEPT ![BrowserOf[r.tab]] = IF out THEN 0 ELSE r.sid]
                   /\ tab' = [tab EXCEPT ![r.tab] = Continue(@, r)]
    /\ req' = [req EXCEPT ![th] = Free]
    /\ UNCHANGED <<creds, protected, chal, aged, drawn, wins>>
-----------------------------------------------------------------------------
(* Time *)

ChallengeExpires(c) ==
    /\ chal[c].open
    /\ chal' = [chal EXCEPT ![c].open = FALSE]
    /\ UNCHANGED <<creds, protected, sess, aged, drawn, cookie, tab, req, wins>>

AssertionAges(c) ==
    /\ \E sid \in Sids : sess[sid].auth = c
    /\ c \notin aged
    /\ aged' = aged \cup {c}
    /\ UNCHANGED <<creds, protected, sess, chal, drawn, cookie, tab, req, wins>>
-----------------------------------------------------------------------------
(* Pages *)

Waiting(t) == \E th \in Threads : req[th].tab = t

\* open_session gives the request its copy of the session.
Sent(t, op, for, signed, cred) ==
    [st |-> "sent", op |-> op, for |-> for, tab |-> t, sid |-> Jar(t),
     auth |-> sess[Jar(t)].auth, ceremony |-> sess[Jar(t)].ceremony,
     loaded |-> sess[Jar(t)].ceremony, signed |-> signed, cred |-> cred]

Send(t, op, for, signed, cred) ==
    /\ \E th \in Threads :
         /\ req[th] = Free
         /\ req' = [req EXCEPT ![th] = Sent(t, op, for, signed, cred)]
    /\ UNCHANGED <<creds, protected, sess, chal, aged, drawn, cookie, wins>>

Post(t, op, for, signed, cred) == MayPost(t) /\ Send(t, op, for, signed, cred)

Idle(t, op) == tab[t].at = "idle" /\ ~Waiting(t) /\ op \in Does[t]
BackToIdle(t) == tab' = [tab EXCEPT ![t] = Page(@.csrf)]

StartCeremony(t) ==
    \E for \in Starts : Idle(t, for) /\ Post(t, "options", for, 0, 0) /\ UNCHANGED tab

\* The user approves, and the authenticator signs the challenge the page was given.
Approve(t) ==
    /\ tab[t].at = "prompt"
    /\ Post(t, "verify", tab[t].for, tab[t].chal, tab[t].cred)
    /\ BackToIdle(t)

\* The user cancels, or the session has moved on and the call is refused.
Cancel(t) ==
    /\ tab[t].at = "prompt"
    /\ BackToIdle(t)
    /\ UNCHANGED <<creds, protected, sess, chal, aged, drawn, cookie, req, wins>>

RemovePasskey(t) ==
    \E k \in creds : Idle(t, "remove") /\ Post(t, "remove", "login", 0, k) /\ UNCHANGED tab

DisableProtection(t) ==
    Idle(t, "disable") /\ Post(t, "disable", "login", 0, 0) /\ UNCHANGED tab

SignOut(t) == Idle(t, "logout") /\ Post(t, "logout", "login", 0, 0) /\ UNCHANGED tab

\* A GET, or a POST refused for its CSRF token: both carry the session all the same.
CallOther(t) ==
    /\ LiveSession(Jar(t))
    /\ Idle(t, "other") /\ Send(t, "other", "login", 0, 0) /\ UNCHANGED tab

\* A call without a live session is answered with a new anonymous one's cookie, and refused.
TurnAway(t) ==
    /\ ~LiveSession(Jar(t)) /\ tab[t].csrf # 0 /\ ~Waiting(t)
    /\ LET sid == drawn.sids + 1
       IN  /\ sid <= MaxSid
           /\ drawn' = [drawn EXCEPT !.sids = sid]
           /\ sess' = [sess EXCEPT ![sid] = Anonymous]
           /\ cookie' = [cookie EXCEPT ![BrowserOf[t]] = sid]
    /\ BackToIdle(t)
    /\ UNCHANGED <<creds, protected, chal, aged, req, wins>>

\* The connection breaks before the answer, and the request is sent once more.
Resend(t) ==
    /\ "resend" \in Does[t] /\ MayPost(t)
    /\ \E th, again \in Threads :
         LET r == req[th]
         IN  /\ r.tab = t /\ req[again] = Free
             /\ req' = [req EXCEPT ![th].tab = NoTab,
                                   ![again] = Sent(t, r.op, r.for, r.signed,
                                                   IF r.op = "options" THEN 0 ELSE r.cred)]
    /\ UNCHANGED <<creds, protected, sess, chal, aged, drawn, cookie, tab, wins>>

\* A page loads, again or after signing out: GET /api/session names the cookie's session,
\* or starts an anonymous one. Its requests run on.
Boot(t) ==
    /\ "boot" \in Does[t] \/ tab[t].csrf = 0
    /\ IF LiveSession(Jar(t))
       THEN tab' = [tab EXCEPT ![t] = Page(Jar(t))] /\ UNCHANGED <<sess, drawn, cookie>>
       ELSE LET sid == drawn.sids + 1
            IN  /\ sid <= MaxSid
                /\ drawn' = [drawn EXCEPT !.sids = sid]
                /\ sess' = [sess EXCEPT ![sid] = Anonymous]
                /\ cookie' = [cookie EXCEPT ![BrowserOf[t]] = sid]
                /\ tab' = [tab EXCEPT ![t] = Page(sid)]
    /\ req' = [th \in Threads |-> IF req[th].tab = t THEN [req[th] EXCEPT !.tab = NoTab]
                                                      ELSE req[th]]
    /\ UNCHANGED <<creds, protected, chal, aged, wins>>
-----------------------------------------------------------------------------
Handler(th) ==
    \/ NewChallenge(th) \/ OptionsRefused(th) \/ TakeChallenge(th) \/ VerifyAssertion(th)
    \/ LoginVerified(th) \/ Register(th) \/ RegisterFails(th)
    \/ RemoveCount(th) \/ RemoveDelete(th) \/ DisablePasskeys(th) \/ Logout(th)
    \/ OtherCall(th) \/ Refuse(th) \/ SaveSession(th)

User(t) ==
    \/ StartCeremony(t) \/ Approve(t) \/ Cancel(t) \/ RemovePasskey(t) \/ DisableProtection(t)
    \/ SignOut(t) \/ CallOther(t) \/ TurnAway(t) \/ Resend(t) \/ Boot(t)

Next ==
    \/ \E th \in Threads : Handler(th)
    \/ \E t \in Tabs : User(t)
    \/ \E c \in Chals : ChallengeExpires(c) \/ AssertionAges(c)

\* Nobody is signed in. A vault with passkeys is protected.
Init ==
    /\ \E n \in FirstCreds : /\ creds = 1..n
                             /\ protected = (n > 0)
                             /\ drawn = [sids |-> Cardinality(Browsers), chals |-> 0, creds |-> n]
    /\ sess = [s \in Sids |-> IF s <= Cardinality(Browsers) THEN Anonymous ELSE Absent]
    /\ chal = [c \in Chals |-> Unissued] /\ aged = {} /\ wins = [c \in Chals |-> 0]
    /\ cookie \in [Browsers -> 1..Cardinality(Browsers)]
    /\ \A a, b \in Browsers : cookie[a] = cookie[b] => a = b
    /\ tab = [t \in Tabs |-> Page(cookie[BrowserOf[t]])]
    /\ req = [th \in Threads |-> Free]

Spec == Init /\ [][Next]_vars
-----------------------------------------------------------------------------
(* Properties *)

\* A challenge is worth one registration or one sign-in, however often and from however
\* many overlapping requests it is answered.
ChallengeCountsOnce == \A c \in Chals : wins[c] <= 1

\* A session answers to the ceremony that was last started or tried in it: a request that
\* does neither never changes it, whatever it loaded.
CeremonyKept ==
    [][\A s \in Sids :
         (sess[s].ceremony # 0 /\ sess'[s].ceremony # sess[s].ceremony)
           => \E th \in Threads : req[th].sid = s /\ req[th].op \in {"options", "verify"}
                                                  /\ req'[th] = Free]_vars

\* A session that was revoked, by signing out or rotation, stays so for good once no
\* request that had loaded it before is left.
RevokedStaysRevoked ==
    [][\A s \in Sids :
         (sess[s].state = "revoked" /\ \A th \in Threads : req[th].sid # s)
           => sess'[s].state = "revoked" /\ \A th \in Threads : req'[th].sid # s]_vars

\* By whom a session is authenticated never changes, and no two sessions share an
\* assertion: writing back an old copy loses no sign-in and brings none back.
AuthenticationFixed ==
    [][\A s \in Sids :
         /\ sess[s].state # "absent" => sess'[s].auth = sess[s].auth
         /\ \A o \in Sids \ {s} : sess'[s].auth # 0 => sess'[o].auth # sess'[s].auth]_vars

\* A vault that demands a passkey has one (README, "The final passkey cannot be removed
\* while enforcement is enabled"), once it has been set up.
ProtectedVaultHasPasskey == protected => creds # {}
=============================================================================
