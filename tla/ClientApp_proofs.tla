--------------------------- MODULE ClientApp_proofs ---------------------------
(***************************************************************************)
(* Safety of the browser application, for any accounts and any number of   *)
(* attempts at a challenge.                                                *)
(***************************************************************************)
EXTENDS ClientApp, TLAPS

Auth(jar) == jar # None /\ jar.auth

(* The startup comes before everything, a connection asks for a challenge  *)
(* of some provider, and the history misses no overlap.                    *)
Places ==
  /\ main.at = "session" <=> view = "startup"
  /\ view = "startup" => ~load.on /\ link.at = "rest" /\ ~link.open
  /\ link.at = "challenge" => link.carries.prov \in Provider
  /\ Overlapping => overlap

(* Without an overlap, a session found anywhere is that of the account     *)
(* last signed in, and nothing that is about to sign in carries one: the   *)
(* sign-in form is gone once somebody is signed in, and a connection that  *)
(* has its challenge has given up the session it started from.             *)
OwnSessions ==
  ~overlap =>
    /\ load.on /\ Auth(load.carries) => load.carries.acct = account
    /\ Auth(cookie) => cookie.acct = account
    /\ main.at = "login" => ~Auth(main.carries)
    /\ link.at = "login" => ~Auth(link.carries)
    /\ form.challenge # "none" => ~Auth(cookie) /\ view = "login"
    /\ main.at = "reading" => form.challenge # "none"
    /\ main.at \in {"challenge", "backoff", "reading", "login"} => view = "login"
    /\ link.ready /\ link.at # "loading" => ~Auth(cookie) /\ ~load.on /\ link.open /\ main.at # "delete"
    /\ Linking => link.open
    /\ link.open => view = "reports"
    /\ load.on => view = "reports"

(* A slot is used up when its automatic load begins; the cached read of    *)
(* the startup, which may set the time back, comes before the first.       *)
Autos ==
  /\ autos \in {0, 1} /\ (due => autos = 0)
  /\ load.on /\ load.kind = "cacheOnly" => autos = 0
  /\ view = "startup" => autos = 0

(* A challenge names the provider of the form, whatever its age.           *)
OfForm == form.challenge = "none" \/ form.of = form.prov

IInv == TypeOK /\ Places /\ OwnSessions /\ Autos /\ FingerprintsTrue /\ OfForm

----------------------------------------------------------------------------
(* What the answers may carry.                                             *)

(* No session and nobody.                                                  *)
LEMMA NoneTyped == None \in Jar /\ None \in Someone /\ ~Auth(None) /\ \A a \in Account : a \in Someone
  BY DEF Jar, Someone, Auth

(* At least one attempt is allowed.                                        *)
LEMMA Zero == 0 \in 0 .. MaxTries - 1
  BY ClientConstants

(* A challenge leaves a session that is not signed in.                     *)
LEMMA FreshTyped ==
  ASSUME NEW p \in Provider
  PROVE  Fresh(p) \in Jar /\ ~Auth(Fresh(p)) /\ Fresh(p).prov = p
  BY DEF Fresh, Jar, Session, Auth

(* A session signed in is that of its account.                             *)
LEMMA SignedTyped ==
  ASSUME NEW a \in Someone, NEW p \in Provider
  PROVE  Signed(a, p) \in Jar /\ Signed(a, p).acct = a
  BY DEF Signed, Jar, Session, Someone

(* A session of another provider counts as none.                           *)
LEMMA ForTyped ==
  ASSUME NEW jar \in Jar, NEW p \in Provider
  PROVE  For(p, jar) \in Jar /\ (Auth(For(p, jar)) => Auth(jar))
  BY DEF For, Jar, Auth

(* GET of a challenge: the session stays or is replaced by a fresh one.    *)
LEMMA ChallengeReplyTyped ==
  ASSUME cookie \in Jar, NEW p \in Provider, NEW reply \in ChallengeReplies(p)
  PROVE  /\ reply.jar \in Jar /\ reply.jar \in {cookie, Fresh(p)}
         /\ reply.code \in {"ok", "busy", "error"}
         /\ reply.code = "ok" => reply.jar = Fresh(p)
  BY FreshTyped DEF ChallengeReplies, Unserved, Reply

(* A login without a session in hand signs in whom it names.               *)
LEMMA LoginReplyTyped ==
  ASSUME cookie \in Jar, NEW c \in Jar, NEW a \in Someone, NEW reply \in LoginReplies(c, a)
  PROVE  /\ reply.jar \in Jar
         /\ reply.code \in {"ok", "refused", "error", "captcha", "captchaImage"}
         /\ reply.code # "ok" => reply.jar \in {cookie, c, None}
         /\ reply.code = "captchaImage" => reply.jar = c
         /\ reply.code = "ok" /\ ~Auth(c) => reply.jar.acct = a
<1>1. c # None => c.prov \in Provider
  BY DEF Jar, Session
<1> QED
  BY <1>1, SignedTyped DEF LoginReplies, Unserved, Reply, Auth, Jar

(* Reports are those of the session sent, which must be signed in.         *)
LEMMA ReportReplyTyped ==
  ASSUME cookie \in Jar, NEW c \in Jar, NEW reply \in ReportReplies(c)
  PROVE  /\ reply.jar \in {cookie, c, None}
         /\ reply.code \in {"ok", "error", "expired"}
         /\ reply.code = "ok" => Auth(c) /\ c.acct \in Someone /\ reply.jar = c
  BY DEF ReportReplies, Unserved, Reply, Auth, Jar, Session, Someone

(* A load under way is shared, one begun carries the session given.        *)
LEMMA LoadTyped ==
  ASSUME load \in LoadState, NEW jar \in Jar, NEW kind \in {"full", "cacheOnly"}, LoadReports(kind, jar)
  PROVE  /\ load' \in LoadState /\ load'.on
         /\ load.on => load' = load
         /\ ~load.on => load'.kind = kind /\ load'.carries = jar
  BY DEF LoadReports, LoadState

(* The sign-in form starts without reports and without a challenge.        *)
LEMMA ShowLoginTyped ==
  ASSUME form \in FormState, ShowLogin
  PROVE  /\ form' \in FormState /\ form'.challenge = "none" /\ view' = "login"
         /\ shown' = None /\ print' = None /\ autos' = 0
  BY DEF ShowLogin, ClearChallenge, FormState, Provider

(* The history sees every overlap.                                         *)
LEMMA Noted ==
  ASSUME overlap \in BOOLEAN, Note
  PROVE  /\ overlap' \in BOOLEAN
         /\ ~overlap' => ~overlap /\ ~Overlapping'
         /\ Overlapping' => overlap'
  BY DEF Note

----------------------------------------------------------------------------
(* Each action.                                                            *)

(* Startup: the session found, or the sign-in form.                        *)
LEMMA StartupStep ==
  ASSUME IInv, Startup, Note
  PROVE  IInv'
<1>1. CASE /\ view' = "reports" /\ main' = [Idle EXCEPT !.at = "loading"]
           /\ LoadReports("cacheOnly", cookie)
           /\ UNCHANGED <<shown, print, autos, form>>
  <2>1. main' \in MainState /\ main'.at = "loading"
    BY <1>1, Zero, NoneTyped DEF MainState, Idle
  <2>2. load' = [on |-> TRUE, kind |-> "cacheOnly", carries |-> cookie] /\ load' \in LoadState
    BY <1>1 DEF Startup, LoadReports, IInv, TypeOK, Places, LoadState
  <2>3. TypeOK'
    BY <1>1, <2>1, <2>2, Noted DEF Startup, IInv, TypeOK
  <2>4. Places'
    BY <1>1, Noted DEF Startup, IInv, TypeOK, Places
  <2>5. OwnSessions'
    BY <1>1, <2>1, <2>2, Noted DEF Startup, IInv, Places, OwnSessions, Linking
  <2>6. Autos' /\ FingerprintsTrue' /\ OfForm'
    BY <1>1 DEF Startup, IInv, Places, Autos, FingerprintsTrue, OfForm
  <2> QED
    BY <2>3, <2>4, <2>5, <2>6 DEF IInv
<1>2. CASE ShowLogin /\ main' = Idle /\ UNCHANGED load
  <2>1. main' \in MainState /\ main'.at = "idle"
    BY <1>2, Zero, NoneTyped DEF MainState, Idle
  <2>2. /\ form' \in FormState /\ form'.challenge = "none" /\ view' = "login"
        /\ shown' = None /\ print' = None /\ autos' = 0
    BY <1>2, ShowLoginTyped DEF IInv, TypeOK
  <2>3. TypeOK'
    BY <2>1, <2>2, Noted, NoneTyped DEF Startup, IInv, TypeOK
  <2>4. Places'
    BY <2>1, <2>2, Noted DEF Startup, IInv, TypeOK, Places
  <2>5. OwnSessions'
    BY <2>1, <2>2, Noted DEF Startup, IInv, Places, OwnSessions, Linking
  <2>6. Autos' /\ FingerprintsTrue' /\ OfForm'
    BY <2>2 DEF Autos, FingerprintsTrue, OfForm
  <2> QED
    BY <2>3, <2>4, <2>5, <2>6 DEF IInv
<1> QED
  BY <1>1, <1>2 DEF Startup

(* A click on Sign in: a new challenge, or the login itself.               *)
LEMMA SignInStep ==
  ASSUME IInv, NEW a \in Account, SignIn(a), Note
  PROVE  IInv'
<1>1. CASE Prepare(form, a, TRUE)
  <2>1. main' = [Idle EXCEPT !.at = "challenge", !.auto = TRUE, !.acct = a] /\ main' \in MainState
    BY <1>1, Zero, NoneTyped DEF Prepare, MainState, Idle
  <2>2. form' = ClearChallenge(form) /\ form' \in FormState
    BY <1>1 DEF Prepare, ClearChallenge, IInv, TypeOK, FormState, Provider
  <2>3. TypeOK'
    BY <2>1, <2>2, Noted DEF SignIn, IInv, TypeOK
  <2>4. Places'
    BY <2>1, Noted DEF SignIn, IInv, TypeOK, Places
  <2>5. OwnSessions'
    BY <2>1, <2>2, Noted DEF SignIn, IInv, TypeOK, OwnSessions, ClearChallenge, Linking
  <2>6. Autos' /\ FingerprintsTrue' /\ OfForm'
    BY <2>2 DEF SignIn, IInv, Autos, FingerprintsTrue, OfForm, ClearChallenge
  <2> QED
    BY <2>3, <2>4, <2>5, <2>6 DEF IInv
<1>2. CASE /\ form.challenge = "fresh"
           /\ main' = [Idle EXCEPT !.at = "login", !.acct = a, !.carries = For(form.prov, cookie)]
           /\ UNCHANGED form
  <2>1. form.prov \in Provider /\ cookie \in Jar
    BY DEF IInv, TypeOK, FormState
  <2>2. For(form.prov, cookie) \in Jar /\ (Auth(For(form.prov, cookie)) => Auth(cookie))
    BY <2>1, ForTyped
  <2>3. main' \in MainState
    BY <1>2, <2>2, Zero, NoneTyped DEF MainState, Idle
  <2>4. TypeOK'
    BY <1>2, <2>3, Noted DEF SignIn, IInv, TypeOK
  <2>5. Places'
    BY <1>2, Noted DEF SignIn, IInv, TypeOK, Places
  <2>6. OwnSessions'
    BY <1>2, <2>2, Noted DEF SignIn, IInv, TypeOK, OwnSessions, Linking
  <2>7. Autos' /\ FingerprintsTrue' /\ OfForm'
    BY <1>2 DEF SignIn, IInv, Autos, FingerprintsTrue, OfForm
  <2> QED
    BY <2>4, <2>5, <2>6, <2>7 DEF IInv
<1> QED
  BY <1>1, <1>2 DEF SignIn

(* The form between attempts: the provider never changes under a           *)
(* challenge.                                                              *)
LEMMA UseFormStep ==
  ASSUME IInv, UseForm, Note
  PROVE  IInv'
<1>1. /\ form' \in FormState
      /\ form'.challenge # "none" =>
           form.challenge # "none" /\ form'.of = form.of /\ form'.prov = form.prov
      /\ main.at = "reading" => (form'.challenge = "none" <=> form.challenge = "none")
  <2>1. form \in FormState
    BY DEF IInv, TypeOK
  <2>2. CASE TypeAnswer
    BY <2>1, <2>2 DEF TypeAnswer, FormState
  <2>3. CASE ~busy /\ \E p \in Provider : ChooseProvider(p)
    BY <2>1, <2>3 DEF ChooseProvider, ClearChallenge, FormState, Provider, busy
  <2>4. CASE ~busy /\ CloseFallback
    BY <2>1, <2>4 DEF CloseFallback, ClearChallenge, FormState, Provider, busy
  <2>5. CASE ChallengeAges
    BY <2>1, <2>5 DEF ChallengeAges, FormState
  <2> QED
    BY <2>2, <2>3, <2>4, <2>5 DEF UseForm
<1>2. TypeOK'
  BY <1>1, Noted DEF UseForm, IInv, TypeOK
<1>3. Places'
  BY Noted DEF UseForm, IInv, TypeOK, Places
<1>4. OwnSessions'
  BY <1>1, Noted DEF UseForm, IInv, OwnSessions, Linking
<1>5. Autos' /\ FingerprintsTrue' /\ OfForm'
  BY <1>1 DEF UseForm, IInv, Autos, FingerprintsTrue, OfForm
<1> QED
  BY <1>2, <1>3, <1>4, <1>5 DEF IInv

(* After a challenge: login with what it gives the browser, or nothing.    *)
LEMMA PreparedTyped ==
  ASSUME main \in MainState, NEW f \in FormState, NEW jar \in Jar, Prepared(f, jar)
  PROVE  /\ main' \in MainState /\ form' = f /\ main'.at \in {"login", "idle"}
         /\ main'.at = "login" /\ Auth(main'.carries) => Auth(jar)
<1>1. f.prov \in Provider
  BY DEF FormState
<1>2. For(f.prov, jar) \in Jar /\ (Auth(For(f.prov, jar)) => Auth(jar))
  BY <1>1, ForTyped
<1> QED
  BY <1>2, Zero, NoneTyped DEF Prepared, MainState, Idle

(* The catch of the submit handler offers the other provider.              *)
LEMMA FailedTyped ==
  ASSUME NEW f \in FormState
  PROVE  /\ Failed(f) \in FormState /\ Failed(f).challenge = f.challenge
         /\ Failed(f).of = f.of /\ Failed(f).prov = f.prov
  BY DEF Failed, FormState

(* A retry counts, and stays within the attempts allowed.                  *)
LEMMA LaterTyped ==
  ASSUME main \in MainState, MayRetry
  PROVE  Later \in MainState /\ Later.at = "backoff"
<1>1. main.tries \in 0 .. MaxTries - 1 /\ MaxTries \in Nat /\ main.tries < MaxTries - 1
  BY ClientConstants DEF MainState, MayRetry
<1>2. main.tries + 1 \in 0 .. MaxTries - 1
  BY <1>1
<1> QED
  BY <1>2 DEF Later, MainState

(* A challenge arrived leaves a session that is not signed in.             *)
LEMMA ChallengeAnsweredStep ==
  ASSUME IInv, ChallengeAnswered, Note
  PROVE  IInv'
<1> DEFINE arrived == [form EXCEPT !.challenge = "fresh", !.of = form.prov]
<1>1. form \in FormState /\ form.prov \in Provider /\ main \in MainState /\ cookie \in Jar
  BY DEF IInv, TypeOK, FormState
<1>2. PICK reply \in ChallengeReplies(form.prov) :
        /\ cookie' = reply.jar
        /\ \/ /\ reply.code = "ok" /\ form.prov = "academia" /\ Prepared(arrived, reply.jar)
           \/ /\ reply.code = "ok" /\ form.prov = "portal" /\ ~main.auto
              /\ Prepared([arrived EXCEPT !.answer = "asked"], reply.jar)
           \/ /\ reply.code = "ok" /\ form.prov = "portal" /\ main.auto
              /\ form' = arrived /\ main' = [main EXCEPT !.at = "reading"]
           \/ /\ reply.code = "busy" /\ UNCHANGED form
              /\ main' = IF MayRetry THEN Later ELSE Idle
           \/ /\ reply.code = "error" /\ form' = Failed(form) /\ main' = Idle
  BY DEF ChallengeAnswered
<1>3. /\ reply.jar \in Jar /\ (Auth(reply.jar) => reply.jar = cookie)
      /\ reply.code = "ok" => ~Auth(reply.jar)
  BY <1>1, ChallengeReplyTyped, FreshTyped
<1>4. /\ arrived \in FormState /\ [arrived EXCEPT !.answer = "asked"] \in FormState
      /\ arrived.of = arrived.prov /\ arrived.challenge # "none"
      /\ [arrived EXCEPT !.answer = "asked"].of = [arrived EXCEPT !.answer = "asked"].prov
  BY <1>1 DEF FormState
<1>5. /\ main' \in MainState /\ form' \in FormState
      /\ main'.at \in {"login", "idle", "reading", "backoff"}
      /\ main'.at = "login" => ~Auth(main'.carries)
      /\ main'.at = "reading" => form'.challenge # "none"
      /\ form'.challenge = "none" \/ form'.of = form'.prov
      /\ form'.challenge # "none" => ~Auth(reply.jar) \/ form.challenge # "none"
  <2>1. CASE reply.code = "ok" /\ form.prov = "academia" /\ Prepared(arrived, reply.jar)
    BY <1>1, <1>3, <1>4, <2>1, PreparedTyped
  <2>2. CASE reply.code = "ok" /\ form.prov = "portal" /\ ~main.auto
             /\ Prepared([arrived EXCEPT !.answer = "asked"], reply.jar)
    BY <1>1, <1>3, <1>4, <2>2, PreparedTyped
  <2>3. CASE reply.code = "ok" /\ form.prov = "portal" /\ main.auto
             /\ form' = arrived /\ main' = [main EXCEPT !.at = "reading"]
    BY <1>1, <1>3, <1>4, <2>3 DEF MainState
  <2>4. CASE reply.code = "busy" /\ UNCHANGED form /\ main' = IF MayRetry THEN Later ELSE Idle
    <3>1. main' \in MainState /\ main'.at \in {"idle", "backoff"}
      BY <1>1, <2>4, LaterTyped, Zero, NoneTyped DEF Idle, MainState
    <3> QED
      BY <1>1, <2>4, <3>1 DEF IInv, OfForm
  <2>5. CASE reply.code = "error" /\ form' = Failed(form) /\ main' = Idle
    BY <1>1, <2>5, Zero, NoneTyped, FailedTyped DEF Idle, MainState, IInv, OfForm
  <2> QED
    BY <1>2, <2>1, <2>2, <2>3, <2>4, <2>5
<1>6. TypeOK'
  BY <1>2, <1>3, <1>5, Noted DEF ChallengeAnswered, IInv, TypeOK
<1>7. Places'
  BY <1>5, Noted DEF ChallengeAnswered, IInv, TypeOK, Places
<1>8. OwnSessions'
  BY <1>2, <1>3, <1>5, Noted DEF ChallengeAnswered, IInv, OwnSessions, Linking
<1>9. Autos' /\ FingerprintsTrue' /\ OfForm'
  BY <1>5 DEF ChallengeAnswered, IInv, Autos, FingerprintsTrue, OfForm
<1> QED
  BY <1>6, <1>7, <1>8, <1>9 DEF IInv

(* A sign-in answered: the account signed in is the one shown from then    *)
(* on, unless a load was already under way.                                *)
LEMMA LoginAnsweredStep ==
  ASSUME IInv, LoginAnswered, Note
  PROVE  IInv'
<1>1. /\ form \in FormState /\ main \in MainState /\ cookie \in Jar /\ load \in LoadState
      /\ main.carries \in Jar /\ main.acct \in Someone
  BY DEF IInv, TypeOK, MainState
<1>2. PICK reply \in LoginReplies(main.carries, main.acct) :
        /\ cookie' = reply.jar
        /\ \/ /\ reply.code = "ok"
              /\ form' = ClearChallenge(form) /\ view' = "reports"
              /\ account' = main.acct
              /\ LoadReports("full", reply.jar) /\ main' = [Idle EXCEPT !.at = "loading"]
           \/ /\ reply.code = "captchaImage"
              /\ form' = [form EXCEPT !.answer = "asked"] /\ main' = Idle
              /\ UNCHANGED <<view, load, account>>
           \/ /\ reply.code = "captcha" /\ Prepare(form, main.acct, FALSE)
              /\ UNCHANGED <<view, load, account>>
           \/ /\ reply.code \in {"refused", "error"}
              /\ form' = Failed(ClearChallenge(form)) /\ main' = Idle
              /\ UNCHANGED <<view, load, account>>
  BY DEF LoginAnswered
<1>3. /\ reply.jar \in Jar
      /\ reply.code # "ok" => reply.jar \in {cookie, main.carries, None}
      /\ reply.code = "captchaImage" => reply.jar = main.carries
      /\ reply.code = "ok" /\ ~Auth(main.carries) => reply.jar.acct = main.acct
  BY <1>1, LoginReplyTyped
<1>4. ClearChallenge(form) \in FormState /\ ClearChallenge(form).challenge = "none"
  BY <1>1 DEF ClearChallenge, FormState, Provider
<1>5. CASE /\ reply.code = "ok"
           /\ form' = ClearChallenge(form) /\ view' = "reports"
           /\ account' = main.acct
           /\ LoadReports("full", reply.jar) /\ main' = [Idle EXCEPT !.at = "loading"]
  <2>1. main' \in MainState /\ main'.at = "loading"
    BY <1>5, Zero, NoneTyped DEF MainState, Idle
  <2>2. /\ load' \in LoadState
        /\ load.on => load' = load
        /\ ~load.on => load'.kind = "full" /\ load'.carries = reply.jar
    BY <1>1, <1>3, <1>5, LoadTyped
  <2>3. TypeOK'
    BY <1>1, <1>2, <1>3, <1>4, <1>5, <2>1, <2>2, Noted DEF LoginAnswered, IInv, TypeOK
  <2>4. Places'
    BY <1>5, Noted DEF LoginAnswered, IInv, TypeOK, Places
  <2>5. OwnSessions'
    BY <1>2, <1>3, <1>4, <1>5, <2>1, <2>2, Noted DEF LoginAnswered, IInv, OwnSessions, Linking
  <2>6. Autos' /\ FingerprintsTrue' /\ OfForm'
    BY <1>4, <1>5, <2>2 DEF LoginAnswered, IInv, Autos, FingerprintsTrue, OfForm
  <2> QED
    BY <2>3, <2>4, <2>5, <2>6 DEF IInv
<1>6. CASE reply.code # "ok" /\ UNCHANGED <<view, load, account>>
  <2>1. /\ main' \in MainState /\ form' \in FormState /\ main'.at \in {"idle", "challenge"}
        /\ reply.code # "captchaImage" => form'.challenge = "none"
        /\ form'.challenge = "none" \/ form'.of = form'.prov
        /\ form'.challenge # "none" => form.challenge # "none"
    <3>1. CASE /\ reply.code = "captchaImage"
               /\ form' = [form EXCEPT !.answer = "asked"] /\ main' = Idle
      BY <1>1, <3>1, Zero, NoneTyped DEF FormState, MainState, Idle, IInv, OfForm
    <3>2. CASE reply.code = "captcha" /\ Prepare(form, main.acct, FALSE)
      BY <1>1, <1>4, <3>2, Zero, NoneTyped DEF Prepare, MainState, Idle
    <3>3. CASE form' = Failed(ClearChallenge(form)) /\ main' = Idle
      BY <1>4, <3>3, FailedTyped, Zero, NoneTyped DEF MainState, Idle
    <3> QED
      BY <1>2, <1>6, <3>1, <3>2, <3>3
  <2>2. TypeOK'
    BY <1>2, <1>3, <1>6, <2>1, Noted DEF LoginAnswered, IInv, TypeOK
  <2>3. Places'
    BY <2>1, Noted DEF LoginAnswered, IInv, TypeOK, Places
  <2>4. OwnSessions'
    BY <1>2, <1>3, <1>6, <2>1, Noted, NoneTyped DEF LoginAnswered, IInv, OwnSessions, Linking
  <2>5. Autos' /\ FingerprintsTrue' /\ OfForm'
    BY <1>6, <2>1 DEF LoginAnswered, IInv, Autos, FingerprintsTrue, OfForm
  <2> QED
    BY <2>2, <2>3, <2>4, <2>5 DEF IInv
<1> QED
  BY <1>2, <1>5, <1>6

(* The recognition ended.                                                  *)
LEMMA ReadStep ==
  ASSUME IInv, Read, Note
  PROVE  IInv'
<1>1. PICK answer \in {"given", "asked"} : Prepared([form EXCEPT !.answer = answer], cookie)
  BY DEF Read
<1>2. form' = [form EXCEPT !.answer = answer]
  BY <1>1 DEF Prepared
<1>3. form' \in FormState
  BY <1>2 DEF IInv, TypeOK, FormState
<1>4. /\ main' \in MainState /\ main'.at \in {"login", "idle"}
      /\ main'.at = "login" /\ Auth(main'.carries) => Auth(cookie)
  BY <1>1, <1>2, <1>3, PreparedTyped DEF IInv, TypeOK
<1>5. form'.challenge = form.challenge /\ form'.of = form.of /\ form'.prov = form.prov
  BY <1>2
<1>6. TypeOK'
  BY <1>3, <1>4, Noted DEF Read, IInv, TypeOK
<1>7. Places'
  BY <1>4, Noted DEF Read, IInv, TypeOK, Places
<1>8. OwnSessions'
  BY <1>4, Noted DEF Read, IInv, OwnSessions, Linking
<1>9. Autos' /\ FingerprintsTrue' /\ OfForm'
  BY <1>5 DEF Read, IInv, Autos, FingerprintsTrue, OfForm
<1> QED
  BY <1>6, <1>7, <1>8, <1>9 DEF IInv

(* The wait before a new attempt.                                          *)
LEMMA BackoffStep ==
  ASSUME IInv, Backoff, Note
  PROVE  IInv'
<1>1. main' \in MainState
  BY DEF Backoff, IInv, TypeOK, MainState
<1>2. TypeOK'
  BY <1>1, Noted DEF Backoff, IInv, TypeOK
<1>3. Places'
  BY Noted DEF Backoff, IInv, TypeOK, Places
<1>4. OwnSessions'
  BY Noted DEF Backoff, IInv, TypeOK, OwnSessions, Linking
<1>5. Autos' /\ FingerprintsTrue' /\ OfForm'
  BY DEF Backoff, IInv, Autos, FingerprintsTrue, OfForm
<1> QED
  BY <1>2, <1>3, <1>4, <1>5 DEF IInv

(* A new code is asked for.                                                *)
LEMMA NewCodeStep ==
  ASSUME IInv, NewCode, Note
  PROVE  IInv'
<1>1. main' \in MainState
  BY Zero, NoneTyped DEF NewCode, Prepare, MainState, Idle
<1>2. form' \in FormState
  BY DEF NewCode, Prepare, ClearChallenge, IInv, TypeOK, FormState, Provider
<1>3. TypeOK'
  BY <1>1, <1>2, Noted DEF NewCode, IInv, TypeOK
<1>4. Places'
  BY Noted DEF NewCode, Prepare, IInv, TypeOK, Places
<1>5. OwnSessions'
  BY Noted DEF NewCode, Prepare, ClearChallenge, IInv, TypeOK, OwnSessions, Linking
<1>6. Autos' /\ FingerprintsTrue' /\ OfForm'
  BY DEF NewCode, Prepare, ClearChallenge, IInv, Autos, FingerprintsTrue, OfForm
<1> QED
  BY <1>3, <1>4, <1>5, <1>6 DEF IInv

(* Loads asked for by the student: of the session of the moment.           *)
LEMMA RefreshStep ==
  ASSUME IInv, Refresh, Note
  PROVE  IInv'
<1>1. main' \in MainState
  BY Zero, NoneTyped DEF Refresh, MainState, Idle
<1>2. load' \in LoadState
  BY DEF Refresh, LoadReports, IInv, TypeOK, LoadState
<1>3. TypeOK'
  BY <1>1, <1>2, Noted DEF Refresh, IInv, TypeOK
<1>4. Places'
  BY Noted DEF Refresh, authenticated, IInv, TypeOK, Places
<1>5. OwnSessions'
  BY Noted DEF Refresh, LoadReports, authenticated, IInv, TypeOK, OwnSessions, Linking
<1>6. Autos' /\ FingerprintsTrue' /\ OfForm'
  BY DEF Refresh, LoadReports, IInv, Autos, FingerprintsTrue, OfForm
<1> QED
  BY <1>3, <1>4, <1>5, <1>6 DEF IInv

(* Sync in Settings, whatever holds `busy`.                                *)
LEMMA SettingsSyncStep ==
  ASSUME IInv, SettingsSync, Note
  PROVE  IInv'
<1>1. load' \in LoadState
  BY DEF SettingsSync, LoadReports, IInv, TypeOK, LoadState
<1>2. TypeOK'
  BY <1>1, Noted DEF SettingsSync, IInv, TypeOK
<1>3. Places'
  BY Noted DEF SettingsSync, authenticated, IInv, TypeOK, Places
<1>4. OwnSessions'
  BY Noted DEF SettingsSync, LoadReports, authenticated, IInv, OwnSessions, Linking
<1>5. Autos' /\ FingerprintsTrue' /\ OfForm'
  BY DEF SettingsSync, LoadReports, IInv, Autos, FingerprintsTrue, OfForm
<1> QED
  BY <1>2, <1>3, <1>4, <1>5 DEF IInv

(* Time: a slot passes, the cookie's life ends.                            *)
LEMMA SlotPassesStep ==
  ASSUME IInv, SlotPasses, Note
  PROVE  IInv'
<1>1. TypeOK'
  BY Noted DEF SlotPasses, IInv, TypeOK
<1>2. Places'
  BY Noted DEF SlotPasses, IInv, TypeOK, Places
<1>3. OwnSessions'
  BY Noted DEF SlotPasses, IInv, OwnSessions, Linking
<1>4. Autos' /\ FingerprintsTrue' /\ OfForm'
  BY DEF SlotPasses, IInv, Autos, FingerprintsTrue, OfForm
<1> QED
  BY <1>1, <1>2, <1>3, <1>4 DEF IInv

(* The life of the cookie ends.                                            *)
LEMMA ExpireStep ==
  ASSUME IInv, Expire, Note
  PROVE  IInv'
<1>1. TypeOK'
  BY NoneTyped, Noted DEF Expire, IInv, TypeOK
<1>2. Places'
  BY Noted DEF Expire, IInv, TypeOK, Places
<1>3. OwnSessions'
  BY NoneTyped, Noted DEF Expire, IInv, OwnSessions, Linking
<1>4. Autos' /\ FingerprintsTrue' /\ OfForm'
  BY DEF Expire, IInv, Autos, FingerprintsTrue, OfForm
<1> QED
  BY <1>1, <1>2, <1>3, <1>4 DEF IInv

(* A sign-out asked for.                                                   *)
LEMMA SignOutStep ==
  ASSUME IInv, SignOut, Note
  PROVE  IInv'
<1>1. main' \in MainState
  BY Zero, NoneTyped DEF SignOut, MainState, Idle
<1>2. TypeOK'
  BY <1>1, Noted DEF SignOut, IInv, TypeOK
<1>3. Places'
  BY Noted DEF SignOut, authenticated, IInv, TypeOK, Places
<1>4. OwnSessions'
  BY Noted DEF SignOut, IInv, TypeOK, OwnSessions, Linking
<1>5. Autos' /\ FingerprintsTrue' /\ OfForm'
  BY DEF SignOut, IInv, Autos, FingerprintsTrue, OfForm
<1> QED
  BY <1>2, <1>3, <1>4, <1>5 DEF IInv

(* The connect dialog.                                                     *)
LEMMA OpenConnectStep ==
  ASSUME IInv, NEW p \in Provider, OpenConnect(p), Note
  PROVE  IInv'
<1>1. link' \in LinkState
  BY DEF OpenConnect, IInv, TypeOK, LinkState
<1>2. TypeOK'
  BY <1>1, Noted DEF OpenConnect, IInv, TypeOK
<1>3. Places'
  BY Noted DEF OpenConnect, authenticated, IInv, TypeOK, Places
<1>4. OwnSessions'
  BY Noted DEF OpenConnect, authenticated, IInv, TypeOK, OwnSessions
<1>5. Autos' /\ FingerprintsTrue' /\ OfForm'
  BY DEF OpenConnect, IInv, Autos, FingerprintsTrue, OfForm
<1> QED
  BY <1>2, <1>3, <1>4, <1>5 DEF IInv

(* The dialog closed.                                                      *)
LEMMA CloseConnectStep ==
  ASSUME IInv, CloseConnect, Note
  PROVE  IInv'
<1>1. link' \in LinkState
  BY NoneTyped DEF CloseConnect, LinkState, NoLink, Provider
<1>2. TypeOK'
  BY <1>1, Noted DEF CloseConnect, IInv, TypeOK
<1>3. Places'
  BY Noted DEF CloseConnect, IInv, TypeOK, Places, NoLink
<1>4. OwnSessions'
  BY Noted DEF CloseConnect, IInv, OwnSessions, Linking, NoLink
<1>5. Autos' /\ FingerprintsTrue' /\ OfForm'
  BY DEF CloseConnect, IInv, Autos, FingerprintsTrue, OfForm
<1> QED
  BY <1>2, <1>3, <1>4, <1>5 DEF IInv

(* The dialog submitted, with a session that is not signed in.             *)
LEMMA SubmitConnectStep ==
  ASSUME IInv, NEW a \in Account, SubmitConnect(a), Note
  PROVE  IInv'
<1>1. link' \in LinkState
  BY NoneTyped, FreshTyped, ForTyped DEF SubmitConnect, IInv, TypeOK, LinkState
<1>2. TypeOK'
  BY <1>1, Noted DEF SubmitConnect, IInv, TypeOK
<1>3. Places'
  BY FreshTyped, Noted DEF SubmitConnect, IInv, TypeOK, Places, LinkState
<1>4. OwnSessions'
  BY ForTyped, Noted DEF SubmitConnect, IInv, TypeOK, OwnSessions, LinkState
<1>5. Autos' /\ FingerprintsTrue' /\ OfForm'
  BY DEF SubmitConnect, IInv, Autos, FingerprintsTrue, OfForm
<1> QED
  BY <1>2, <1>3, <1>4, <1>5 DEF IInv

(* An automatic load uses its slot up.                                     *)
LEMMA ResumeSyncStep ==
  ASSUME IInv, ResumeSync, Note
  PROVE  IInv'
<1>1. load' \in LoadState
  BY DEF ResumeSync, LoadReports, IInv, TypeOK, LoadState
<1>2. autos' = 1 /\ due' = FALSE
  BY DEF ResumeSync, NextSlot, IInv, Autos
<1>3. TypeOK'
  <2>1. autos' \in Nat /\ due' \in BOOLEAN
    BY <1>2
  <2> QED
    BY <1>1, <2>1, Noted DEF ResumeSync, IInv, TypeOK
<1>4. Places'
  BY Noted DEF ResumeSync, authenticated, IInv, TypeOK, Places
<1>5. OwnSessions'
  BY Noted DEF ResumeSync, LoadReports, authenticated, IInv, OwnSessions, Linking
<1>6. Autos'
  BY <1>2 DEF ResumeSync, LoadReports, authenticated, Autos
<1>7. FingerprintsTrue' /\ OfForm'
  BY DEF ResumeSync, IInv, FingerprintsTrue, OfForm
<1> QED
  BY <1>3, <1>4, <1>5, <1>6, <1>7 DEF IInv

(* A load answered: a page renders what the load carried, and an expired   *)
(* session brings the sign-in form, whatever else is going on.             *)
LEMMA LoadAnsweredStep ==
  ASSUME IInv, LoadAnswered, Note
  PROVE  IInv' /\ (shown' # shown /\ shown' # None /\ ~overlap => shown' = account)
<1>1. /\ form \in FormState /\ main \in MainState /\ cookie \in Jar /\ load \in LoadState
      /\ link \in LinkState /\ load.carries \in Jar
  BY DEF IInv, TypeOK, LoadState
<1>2. PICK reply \in ReportReplies(load.carries), overdue \in BOOLEAN :
       /\ cookie' = reply.jar
       /\ \/ /\ reply.code = "ok"
             /\ shown' = (IF print # load.carries.acct THEN load.carries.acct ELSE shown)
             /\ print' = load.carries.acct
             /\ due' = IF overdue /\ load.kind = "cacheOnly" THEN TRUE ELSE NextSlot
             /\ link' = IF link.at = "loading" THEN [link EXCEPT !.at = "rest", !.ready = FALSE] ELSE link
             /\ UNCHANGED <<view, autos, form>>
          \/ /\ reply.code = "expired" /\ ShowLogin /\ due' = NextSlot
             /\ link' = [link EXCEPT !.open = FALSE,
                                     !.at = IF @ = "loading" THEN "rest" ELSE @,
                                     !.ready = IF link.at = "loading" THEN FALSE ELSE @]
          \/ /\ reply.code = "error" /\ due' = NextSlot
             /\ link' = IF link.at = "loading" THEN [link EXCEPT !.at = "rest", !.ready = FALSE] ELSE link
             /\ UNCHANGED <<view, autos, form, shown, print>>
  BY DEF LoadAnswered
<1>3. /\ reply.jar \in {cookie, load.carries, None} /\ reply.jar \in Jar
      /\ reply.code = "ok" => Auth(load.carries) /\ load.carries.acct \in Someone
  BY <1>1, ReportReplyTyped, NoneTyped
<1>4. /\ main' \in MainState /\ main'.at = (IF main.at = "loading" THEN "idle" ELSE main.at)
      /\ main.at # "loading" => main' = main
  BY <1>1, Zero, NoneTyped DEF LoadAnswered, MainState, Idle
<1>5. load' \in LoadState /\ ~load'.on
  BY NoneTyped DEF LoadAnswered, NoLoad, LoadState
<1>6. /\ link' \in LinkState
      /\ link'.at = (IF link.at = "loading" THEN "rest" ELSE link.at)
      /\ link'.ready = (IF link.at = "loading" THEN FALSE ELSE link.ready)
      /\ link'.open => link.open
      /\ link'.carries = link.carries
      /\ reply.code = "expired" => ~link'.open
  BY <1>1, <1>2 DEF LinkState
<1>7. reply.code = "expired" => /\ form' \in FormState /\ form'.challenge = "none" /\ view' = "login"
                               /\ shown' = None /\ print' = None /\ autos' = 0
  BY <1>1, <1>2, ShowLoginTyped
<1>8. reply.code # "expired" => UNCHANGED <<view, autos, form>>
  BY <1>2
<1>9. due' \in BOOLEAN /\ (due' => autos' = 0)
  <2>1. CASE reply.code = "ok"
    <3>1. due' = (IF overdue /\ load.kind = "cacheOnly" THEN TRUE ELSE FALSE) /\ autos' = autos
      BY <1>2, <2>1 DEF NextSlot
    <3>2. load.on /\ load.kind = "cacheOnly" => autos = 0
      BY DEF IInv, Autos
    <3> QED
      BY <3>1, <3>2 DEF LoadAnswered
  <2>2. CASE reply.code # "ok"
    BY <1>2, <2>2 DEF NextSlot
  <2> QED
    BY <2>1, <2>2
<1>10. shown' \in Someone /\ print' \in Someone /\ FingerprintsTrue'
  BY <1>2, <1>3, <1>7, NoneTyped DEF IInv, TypeOK, FingerprintsTrue
<1>11. TypeOK'
  BY <1>2, <1>3, <1>4, <1>5, <1>6, <1>7, <1>8, <1>9, <1>10, Noted DEF LoadAnswered, IInv, TypeOK
<1>12. Places'
  BY <1>4, <1>6, <1>7, <1>8, Noted DEF LoadAnswered, IInv, TypeOK, Places
<1>13. OwnSessions'
  BY <1>2, <1>3, <1>4, <1>5, <1>6, <1>7, Noted, NoneTyped
     DEF LoadAnswered, IInv, Places, OwnSessions, Linking, Overlapping
<1>14. Autos' /\ OfForm'
  BY <1>5, <1>7, <1>8, <1>9 DEF IInv, Autos, OfForm
<1>15. shown' # shown /\ shown' # None /\ ~overlap => shown' = account
  BY <1>2, <1>3, <1>7 DEF LoadAnswered, IInv, OwnSessions
<1> QED
  BY <1>10, <1>11, <1>12, <1>13, <1>14, <1>15 DEF IInv

(* A sign-out acknowledged.                                                *)
LEMMA SignOutAnsweredStep ==
  ASSUME IInv, SignOutAnswered, Note
  PROVE  IInv'
<1>1. main' \in MainState /\ main'.at = "idle"
  BY Zero, NoneTyped DEF SignOutAnswered, Idle, MainState
<1>2. CASE /\ cookie' = None /\ ShowLogin /\ due' = TRUE
           /\ link' = [link EXCEPT !.open = FALSE] /\ account' = None
  <2>1. /\ form' \in FormState /\ form'.challenge = "none" /\ view' = "login"
        /\ shown' = None /\ print' = None /\ autos' = 0
    BY <1>2, ShowLoginTyped DEF IInv, TypeOK
  <2>2. /\ link' \in LinkState /\ ~link'.open /\ link'.at = link.at
        /\ link'.ready = link.ready /\ link'.carries = link.carries
    BY <1>2 DEF IInv, TypeOK, LinkState
  <2>3. due' \in BOOLEAN
    BY <1>2
  <2>4. TypeOK'
    BY <1>1, <2>1, <2>2, Noted, NoneTyped DEF SignOutAnswered, IInv, TypeOK
  <2>5. Places'
    BY <1>1, <1>2, <2>1, Noted DEF IInv, TypeOK, Places
  <2>6. OwnSessions'
    BY <1>1, <2>1, <2>2, Noted, NoneTyped
       DEF SignOutAnswered, IInv, Places, OwnSessions, Linking, Overlapping, Changing
  <2>7. Autos' /\ FingerprintsTrue' /\ OfForm'
    BY <2>1 DEF Autos, FingerprintsTrue, OfForm
  <2> QED
    BY <2>4, <2>5, <2>6, <2>7 DEF IInv
<1>3. CASE UNCHANGED <<cookie, view, link, form, shown, print, due, autos, account>>
  <2>1. TypeOK'
    BY <1>1, <1>3, Noted DEF SignOutAnswered, IInv, TypeOK
  <2>2. Places'
    BY <1>1, <1>3, Noted DEF SignOutAnswered, IInv, TypeOK, Places
  <2>3. OwnSessions'
    BY <1>1, <1>3, Noted DEF SignOutAnswered, IInv, OwnSessions, Linking
  <2>4. Autos' /\ FingerprintsTrue' /\ OfForm'
    BY <1>3 DEF SignOutAnswered, IInv, Autos, FingerprintsTrue, OfForm
  <2> QED
    BY <2>1, <2>2, <2>3, <2>4 DEF IInv
<1> QED
  BY <1>2, <1>3 DEF SignOutAnswered

(* The challenge of a connection replaces the session.                     *)
LEMMA ConnectChallengedStep ==
  ASSUME IInv, ConnectChallenged, Note
  PROVE  IInv'
<1>1. link \in LinkState /\ link.prov \in Provider /\ link.carries.prov \in Provider /\ cookie \in Jar
  BY DEF ConnectChallenged, IInv, TypeOK, Places, LinkState
<1>2. PICK reply \in ChallengeReplies(link.carries.prov) :
       /\ cookie' = reply.jar
       /\ link' = IF reply.code = "ok" THEN [link EXCEPT !.at = "login", !.ready = TRUE,
                                                           !.carries = For(link.prov, reply.jar)]
                  ELSE [link EXCEPT !.at = "rest", !.ready = FALSE, !.acct = None, !.carries = None]
  BY DEF ConnectChallenged
<1>3. /\ reply.jar \in Jar /\ (Auth(reply.jar) => reply.jar = cookie)
      /\ reply.code = "ok" => ~Auth(reply.jar)
  BY <1>1, ChallengeReplyTyped, FreshTyped
<1>4. For(link.prov, reply.jar) \in Jar /\ (Auth(For(link.prov, reply.jar)) => Auth(reply.jar))
  BY <1>1, <1>3, ForTyped
<1>5. /\ link' \in LinkState /\ link'.at \in {"login", "rest"} /\ link'.open = link.open
      /\ link'.at = "login" => ~Auth(link'.carries)
      /\ link'.ready => link'.at = "login" /\ ~Auth(reply.jar)
  BY <1>1, <1>2, <1>3, <1>4, NoneTyped DEF LinkState
<1>6. TypeOK'
  BY <1>2, <1>3, <1>5, Noted DEF ConnectChallenged, IInv, TypeOK
<1>7. Places'
  BY Noted DEF ConnectChallenged, IInv, TypeOK, Places
<1>8. OwnSessions'
  BY <1>2, <1>3, <1>5, Noted
     DEF ConnectChallenged, IInv, TypeOK, OwnSessions, Linking, Overlapping, Changing
<1>9. Autos' /\ FingerprintsTrue' /\ OfForm'
  BY DEF ConnectChallenged, IInv, Autos, FingerprintsTrue, OfForm
<1> QED
  BY <1>6, <1>7, <1>8, <1>9 DEF IInv

(* A connection answered: its account is the one signed in.                *)
LEMMA ConnectAnsweredStep ==
  ASSUME IInv, ConnectAnswered, Note
  PROVE  IInv'
<1>1. /\ link \in LinkState /\ cookie \in Jar /\ load \in LoadState
      /\ link.carries \in Jar /\ link.acct \in Someone
  BY DEF IInv, TypeOK, LinkState
<1>2. PICK reply \in LoginReplies(link.carries, link.acct) :
       /\ cookie' = reply.jar
       /\ IF reply.code = "ok"
          THEN /\ link' = [link EXCEPT !.at = "loading", !.acct = None, !.carries = None]
               /\ account' = link.acct /\ LoadReports("full", reply.jar)
          ELSE /\ link' = [link EXCEPT !.at = "rest", !.acct = None, !.carries = None,
                                       !.ready = (@ /\ reply.code = "captchaImage")]
               /\ UNCHANGED <<account, load>>
  BY DEF ConnectAnswered
<1>3. /\ reply.jar \in Jar
      /\ reply.code # "ok" => reply.jar \in {cookie, link.carries, None}
      /\ reply.code = "captchaImage" => reply.jar = link.carries
      /\ reply.code = "ok" /\ ~Auth(link.carries) => reply.jar.acct = link.acct
  BY <1>1, LoginReplyTyped
<1>4. CASE reply.code = "ok"
  <2>1. link' \in LinkState /\ link'.at = "loading" /\ link'.open = link.open
    BY <1>1, <1>2, <1>4, NoneTyped DEF LinkState
  <2>2. /\ load' \in LoadState
        /\ load.on => load' = load
        /\ ~load.on => load'.kind = "full" /\ load'.carries = reply.jar
    BY <1>1, <1>2, <1>3, <1>4, LoadTyped
  <2>3. TypeOK'
    BY <1>1, <1>2, <1>3, <2>1, <2>2, Noted DEF ConnectAnswered, IInv, TypeOK
  <2>4. Places'
    BY <2>1, Noted DEF ConnectAnswered, IInv, TypeOK, Places
  <2>5. OwnSessions'
    BY <1>2, <1>3, <1>4, <2>1, <2>2, Noted
       DEF ConnectAnswered, IInv, Places, OwnSessions, Linking, Overlapping
  <2>6. Autos' /\ FingerprintsTrue' /\ OfForm'
    BY <2>2 DEF ConnectAnswered, IInv, Autos, FingerprintsTrue, OfForm
  <2> QED
    BY <2>3, <2>4, <2>5, <2>6 DEF IInv
<1>5. CASE reply.code # "ok"
  <2>1. /\ link' \in LinkState /\ link'.at = "rest" /\ link'.open = link.open
        /\ link'.ready => link.ready /\ reply.code = "captchaImage"
    BY <1>1, <1>2, <1>5, NoneTyped DEF LinkState
  <2>2. TypeOK'
    BY <1>2, <1>3, <1>5, <2>1, Noted DEF ConnectAnswered, IInv, TypeOK
  <2>3. Places'
    BY <2>1, Noted DEF ConnectAnswered, IInv, TypeOK, Places
  <2>4. OwnSessions'
    BY <1>2, <1>3, <1>5, <2>1, Noted, NoneTyped DEF ConnectAnswered, IInv, OwnSessions, Linking
  <2>5. Autos' /\ FingerprintsTrue' /\ OfForm'
    BY <1>2, <1>5 DEF ConnectAnswered, IInv, Autos, FingerprintsTrue, OfForm
  <2> QED
    BY <2>2, <2>3, <2>4, <2>5 DEF IInv
<1> QED
  BY <1>4, <1>5

----------------------------------------------------------------------------
(* The invariant holds at first and every step keeps it.                   *)
LEMMA InitIInv == Init => IInv
<1> SUFFICES ASSUME Init PROVE IInv
  OBVIOUS
<1>1. cookie \in Jar /\ account \in Someone
  BY NoneTyped, FreshTyped, SignedTyped DEF Init, Jar, Session
<1>2. main \in MainState /\ main.at = "session" /\ load \in LoadState /\ ~load.on
  BY <1>1, Zero, NoneTyped DEF Init, Idle, NoLoad, MainState, LoadState
<1>3. link \in LinkState /\ link.at = "rest" /\ ~link.open /\ ~link.ready
  BY NoneTyped DEF Init, NoLink, LinkState, Provider
<1>4. form \in FormState /\ form.challenge = "none"
  BY DEF Init, NoForm, FormState, Provider
<1>5. Auth(cookie) => cookie.acct = account
  BY DEF Init, Auth
<1>6. TypeOK
  BY <1>1, <1>2, <1>3, <1>4, NoneTyped DEF Init, TypeOK
<1>7. Places /\ OwnSessions
  BY <1>2, <1>3, <1>4, <1>5 DEF Init, Places, OwnSessions, Linking, Overlapping
<1>8. Autos /\ FingerprintsTrue /\ OfForm
  BY <1>4 DEF Init, Autos, FingerprintsTrue, OfForm
<1> QED
  BY <1>6, <1>7, <1>8 DEF IInv

(* Every step keeps the invariant, and fills the page as RendersOwn says.  *)
LEMMA NextIInv ==
  ASSUME IInv, Next
  PROVE  IInv' /\ (shown' # shown /\ shown' # None /\ ~overlap => shown' = account)
<1>1. CASE LoadAnswered /\ Note
  BY <1>1, LoadAnsweredStep
<1>2. CASE Answers /\ Note
  <2>1. IInv'
    BY <1>2, StartupStep, ChallengeAnsweredStep, BackoffStep, ReadStep, LoginAnsweredStep,
       SignOutAnsweredStep DEF Answers
  <2>2. shown' \in {shown, None}
    BY <1>2 DEF Answers, Startup, ShowLogin, ChallengeAnswered, Backoff, Read, LoginAnswered,
       SignOutAnswered
  <2> QED
    BY <2>1, <2>2
<1>3. CASE Clicks /\ Note
  <2>1. IInv'
    BY <1>3, SignInStep, NewCodeStep, UseFormStep, RefreshStep, SettingsSyncStep, SignOutStep,
       OpenConnectStep, CloseConnectStep, SubmitConnectStep DEF Clicks
  <2>2. shown' = shown
    BY <1>3 DEF Clicks, SignIn, NewCode, UseForm, Refresh, SettingsSync, SignOut, OpenConnect,
       CloseConnect, SubmitConnect
  <2> QED
    BY <2>1, <2>2
<1>4. CASE (ConnectChallenged \/ ConnectAnswered \/ ResumeSync \/ SlotPasses \/ Expire) /\ Note
  <2>1. IInv'
    BY <1>4, ConnectChallengedStep, ConnectAnsweredStep, ResumeSyncStep, SlotPassesStep, ExpireStep
  <2>2. shown' = shown
    BY <1>4 DEF ConnectChallenged, ConnectAnswered, ResumeSync, SlotPasses, Expire
  <2> QED
    BY <2>1, <2>2
<1> QED
  BY <1>1, <1>2, <1>3, <1>4 DEF Next

(* So does a step that changes nothing.                                    *)
LEMMA StutterIInv ==
  ASSUME IInv, UNCHANGED vars
  PROVE  IInv'
<1>1. TypeOK'
  BY DEF vars, IInv, TypeOK
<1>2. Places' /\ OwnSessions'
  BY DEF vars, IInv, Places, OwnSessions, Linking, Overlapping, Changing
<1>3. Autos' /\ FingerprintsTrue' /\ OfForm'
  BY DEF vars, IInv, Autos, FingerprintsTrue, OfForm
<1> QED
  BY <1>1, <1>2, <1>3 DEF IInv

(* The invariant holds throughout.                                         *)
LEMMA Invariant == Spec => []IInv
<1>1. IInv /\ [Next]_vars => IInv'
  BY NextIInv, StutterIInv
<1> QED
  BY InitIInv, <1>1, PTL DEF Spec

----------------------------------------------------------------------------
(* Every variable keeps its type, the attempts at a challenge their bound  *)
(* (auth-client.js and home.js over http_auth.go's cookie).                *)
THEOREM TypeCorrect == Spec => []TypeOK
<1>1. IInv => TypeOK
  BY DEF IInv
<1> QED
  BY Invariant, <1>1, PTL

(* A fingerprint remembered describes the page (app.js's                   *)
(* reportFingerprint and showLogin).                                       *)
THEOREM FingerprintsCorrect == Spec => []FingerprintsTrue
<1>1. IInv => FingerprintsTrue
  BY DEF IInv
<1> QED
  BY Invariant, <1>1, PTL

(* A challenge sent is one of the provider it is sent to (auth-client.js). *)
THEOREM ChallengesMatch == Spec => []ChallengeOfProvider
<1>1. IInv => ChallengeOfProvider
  BY DEF IInv, OfForm, ChallengeOfProvider
<1> QED
  BY Invariant, <1>1, PTL

(* One automatic load per slot (app.js's resumeSync and its schedule).     *)
THEOREM AutosCorrect == Spec => []OneAutoPerSlot
<1>1. IInv => OneAutoPerSlot
  BY DEF IInv, Autos, OneAutoPerSlot
<1> QED
  BY Invariant, <1>1, PTL

(* The page is filled with the reports of the account last signed in, for  *)
(* as long as no load or connection was open across a change of session    *)
(* (app.js's loadReports and run, the connect dialog).                     *)
THEOREM OwnReports == Spec => RendersOwn
<1>1. IInv /\ [Next]_vars =>
        [shown' # shown /\ shown' # None /\ ~overlap => shown' = account]_vars
  BY NextIInv
<1> QED
  BY Invariant, <1>1, PTL DEF Spec, RendersOwn
=============================================================================
