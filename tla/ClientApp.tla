----------------------------- MODULE ClientApp -----------------------------
(***************************************************************************)
(* The browser application (portal-app/public) against the stateless       *)
(* public server (http_auth.go), whose whole session is a cookie.          *)
(*                                                                         *)
(* JavaScript runs one callback at a time: an action is the code between   *)
(* two awaits.  Three activities await answers at the same time: the       *)
(* action that holds `busy` (main), the one shared report load (load), and *)
(* the dialog that connects a second provider (link).  A request carries   *)
(* the cookie of the moment it was sent; its answer sets the cookie of the *)
(* moment it arrives.                                                      *)
(***************************************************************************)
EXTENDS Naturals, FiniteSets

CONSTANTS
  Account,       \* the accounts people type
  MaxTries,      \* attempts at a challenge while the server is busy (5)
  None

ASSUME ClientConstants == None \notin Account /\ MaxTries \in Nat \ {0}

Provider == {"academia", "portal"}

VARIABLES
  cookie,        \* the session in the browser's cookie
  view,          \* startup, login or reports; `authenticated` is view = reports
  main,          \* the action that holds `busy`
  load,          \* reportLoad
  link,          \* the connect dialog
  form,          \* the sign-in form and auth-client's challenge
  shown,         \* whose reports are on the page
  print,         \* reportFingerprint
  due,           \* Date.now() >= nextAutoSync
  autos,         \* history: automatic loads in this slot since the last showLogin
  account,       \* history: the account last signed in, None once signed out
  overlap        \* history: a load or a connection was open across a session change

vars == <<cookie, view, main, load, link, form, shown, print, due, autos, account, overlap>>

----------------------------------------------------------------------------
(* The server: what each route may answer to a request carrying cookie c,  *)
(* and the cookie the browser then holds.                                  *)

Session == [acct : Account \cup {None}, auth : BOOLEAN, prov : Provider]
Fresh(p) == [acct |-> None, auth |-> FALSE, prov |-> p]
Signed(a, p) == [acct |-> a, auth |-> TRUE, prov |-> p]
Reply(code, jar) == [code |-> code, jar |-> jar]

(* No answer in time, no connection, or 503 before a slot was taken.       *)
Unserved == {Reply("error", cookie)}

ChallengeReplies(p) ==
  Unserved \cup {Reply("ok", Fresh(p)), Reply("busy", cookie), Reply("error", Fresh(p))}

(* A session of another provider counts as none.                           *)
For(p, jar) == IF jar = None \/ jar.prov # p THEN None ELSE jar

LoginReplies(c, a) ==
  Unserved \cup
    IF c = None THEN {Reply("refused", None)}
    ELSE IF c.auth THEN {Reply("ok", c)}
    ELSE {Reply("ok", Signed(a, c.prov)), Reply("refused", None)}
           \cup {Reply(code, c) : code \in {"error", "captcha", "captchaImage"}}

ReportReplies(c) ==
  Unserved \cup
    IF c = None THEN {Reply("expired", None)}
    ELSE IF ~c.auth THEN {Reply("expired", cookie)}
    ELSE {Reply("ok", c), Reply("error", c), Reply("expired", None)}

----------------------------------------------------------------------------
Idle == [at |-> "idle", auto |-> FALSE, tries |-> 0, acct |-> None, carries |-> None]
NoForm == [prov |-> "academia", challenge |-> "none", of |-> "academia",
           answer |-> "none", fallback |-> FALSE]
NoLoad == [on |-> FALSE, kind |-> "full", carries |-> None]
NoLink == [at |-> "rest", open |-> FALSE, ready |-> FALSE, prov |-> "academia",
           acct |-> None, carries |-> None]

busy == main.at # "idle"
authenticated == view = "reports"

(* auth-client's clearChallenge; reset leaves the provider as chosen.      *)
ClearChallenge(f) == [f EXCEPT !.challenge = "none", !.of = "academia", !.answer = "none"]

\* mutant: the fingerprints outlive the page they describe
ShowLoginKeeping ==
  /\ view' = "login" /\ shown' = None /\ UNCHANGED print /\ autos' = 0
  /\ form' = ClearChallenge(form)

(* The fields showLogin sets, whatever else is going on.                   *)
ShowLogin ==
  /\ view' = "login" /\ shown' = None /\ print' = None /\ autos' = 0
  /\ form' = ClearChallenge(form)

(* loadReports: a load already under way is shared, whatever it was for.   *)
(* A forced, a plain and a silent load differ in messages only.            *)
LoadReports(kind, jar) ==
  load' = IF load.on THEN load ELSE [on |-> TRUE, kind |-> kind, carries |-> jar]

(* The load or a request that changes the session is open beside another.  *)
Changing == main.at \in {"challenge", "backoff", "reading", "login", "delete"}
Linking == link.at \in {"challenge", "login"}
Overlapping == \/ load.on /\ (Changing \/ Linking)
               \/ Changing /\ Linking

----------------------------------------------------------------------------
Init ==
  /\ cookie \in {None} \cup {Fresh(p) : p \in Provider} \cup {Signed(a, p) : a \in Account, p \in Provider}
  /\ view = "startup" /\ main = [Idle EXCEPT !.at = "session", !.carries = cookie]
  /\ load = NoLoad /\ link = NoLink /\ form = NoForm
  /\ shown = None /\ print = None
  /\ due = TRUE /\ autos = 0
  /\ account = IF cookie = None THEN None ELSE cookie.acct
  /\ overlap = FALSE

(* Startup: GET /api/session, then a cached read or the sign-in form.      *)
Startup ==
  /\ main.at = "session"
  /\ \/ /\ main.carries # None /\ main.carries.auth
        /\ view' = "reports" /\ main' = [Idle EXCEPT !.at = "loading"]
        /\ LoadReports("cacheOnly", cookie)
        /\ UNCHANGED <<shown, print, autos, form>>
     \/ /\ ShowLogin /\ main' = Idle /\ UNCHANGED load
  /\ UNCHANGED <<cookie, link, due, account>>

----------------------------------------------------------------------------
(* Sign-in                                                                 *)

\* mutant: an automatic sign-in goes on without a new challenge
PrepareNothing(f, a, auto) ==
  /\ form' = ClearChallenge(f)
  /\ main' = [Idle EXCEPT !.at = IF auto THEN "login" ELSE "challenge", !.auto = auto,
                          !.acct = a, !.carries = For(f.prov, cookie)]

(* prepare: the old challenge is dropped, a new one requested.             *)
Prepare(f, a, auto) ==
  /\ form' = ClearChallenge(f)
  /\ main' = [Idle EXCEPT !.at = "challenge", !.auto = auto, !.acct = a]

(* A click on Sign in, with account a in the form; a code asked for must   *)
(* have been typed.                                                        *)
SignIn(a) ==
  /\ ~busy /\ view = "login" /\ ~form.fallback /\ form.answer # "asked"
  /\ \/ form.challenge # "fresh" /\ Prepare(form, a, TRUE)
     \/ /\ form.challenge = "fresh"
        /\ main' = [Idle EXCEPT !.at = "login", !.acct = a, !.carries = For(form.prov, cookie)]
        /\ UNCHANGED form
  /\ UNCHANGED <<cookie, view, load, link, shown, print, due, autos, account>>

(* New code: a challenge the student will answer.                          *)
NewCode ==
  /\ ~busy /\ view = "login" /\ ~form.fallback /\ form.answer # "none"
  /\ Prepare(form, None, FALSE)
  /\ UNCHANGED <<cookie, view, load, link, shown, print, due, autos, account>>

(* The submit handler's catch: Academia's failures offer Student Portal.   *)
Failed(f) == [f EXCEPT !.fallback = (main.acct # None /\ f.prov = "academia")]

(* After prepareChallenge: login goes on if there is something to send;    *)
(* the provider is read from the form again.                               *)
Prepared(f, jar) ==
  /\ form' = f
  /\ main' = IF main.auto /\ (f.prov = "portal" => f.answer = "given")
             THEN [main EXCEPT !.at = "login", !.carries = For(f.prov, jar)] ELSE Idle

\* mutant: attempts that are not counted
LaterUncounted == [main EXCEPT !.at = "backoff"]

(* A busy server is asked again, a few seconds later and so many times.    *)
MayRetry == main.tries < MaxTries - 1
Later == [main EXCEPT !.at = "backoff", !.tries = @ + 1]

ChallengeAnswered ==
  /\ main.at = "challenge"
  /\ \E reply \in ChallengeReplies(form.prov) :
       LET arrived == [form EXCEPT !.challenge = "fresh", !.of = form.prov] IN
       /\ cookie' = reply.jar
       /\ \/ /\ reply.code = "ok" /\ form.prov = "academia" /\ Prepared(arrived, reply.jar)
          \/ /\ reply.code = "ok" /\ form.prov = "portal" /\ ~main.auto
             /\ Prepared([arrived EXCEPT !.answer = "asked"], reply.jar)
          \/ /\ reply.code = "ok" /\ form.prov = "portal" /\ main.auto
             /\ form' = arrived /\ main' = [main EXCEPT !.at = "reading"]
          \/ /\ reply.code = "busy" /\ UNCHANGED form
             /\ main' = IF MayRetry THEN Later ELSE Idle
          \/ /\ reply.code = "error" /\ form' = Failed(form) /\ main' = Idle
  /\ UNCHANGED <<view, load, link, shown, print, due, autos, account>>

Backoff ==
  /\ main.at = "backoff" /\ main' = [main EXCEPT !.at = "challenge"]
  /\ UNCHANGED <<cookie, view, load, link, form, shown, print, due, autos, account>>

(* The recognition ends: with a plausible answer, or with the student asked. *)
Read ==
  /\ main.at = "reading"
  /\ \E answer \in {"given", "asked"} : Prepared([form EXCEPT !.answer = answer], cookie)
  /\ UNCHANGED <<cookie, view, load, link, shown, print, due, autos, account>>

(* The answer to POST /api/login/client.                                   *)
LoginAnswered ==
  /\ main.at = "login"
  /\ \E reply \in LoginReplies(main.carries, main.acct) :
       /\ cookie' = reply.jar
       /\ \/ /\ reply.code = "ok"
             /\ form' = ClearChallenge(form) /\ view' = "reports"
             /\ account' = main.acct
             /\ LoadReports("full", reply.jar) /\ main' = [Idle EXCEPT !.at = "loading"]
          \/ /\ reply.code = "captchaImage"
             /\ form' = [form EXCEPT !.answer = "asked"] /\ main' = Idle
             /\ UNCHANGED <<view, load, account>>
          \/ /\ reply.code = "captcha" /\ Prepare(form, main.acct, FALSE)
             /\ UNCHANGED <<view, load, account>>
          \/ /\ reply.code \in {"refused", "error"}
             /\ form' = Failed(ClearChallenge(form)) /\ main' = Idle
             /\ UNCHANGED <<view, load, account>>
  /\ UNCHANGED <<link, shown, print, due, autos>>

(* The form between attempts.                                              *)
\* mutant: the challenge survives the choice of another provider
ChooseProviderKeeping(p) == form.prov # p /\ form' = [form EXCEPT !.prov = p]

TypeAnswer == form.answer = "asked" /\ form' = [form EXCEPT !.answer = "given"]
ChooseProvider(p) == form.prov # p /\ form' = ClearChallenge([form EXCEPT !.prov = p])
CloseFallback ==
  /\ form.fallback
  /\ \E f \in {form, ClearChallenge([form EXCEPT !.prov = "portal"])} : form' = [f EXCEPT !.fallback = FALSE]
ChallengeAges == form.challenge = "fresh" /\ form' = [form EXCEPT !.challenge = "stale"]

UseForm ==
  /\ \/ /\ ~busy /\ view = "login"
        /\ \/ ~form.fallback /\ TypeAnswer
           \/ ~form.fallback /\ \E p \in Provider : ChooseProvider(p)
           \/ CloseFallback
     \/ ChallengeAges
  /\ UNCHANGED <<cookie, view, main, load, link, shown, print, due, autos, account>>

----------------------------------------------------------------------------
(* Reports and sign-out                                                    *)

Refresh ==
  /\ ~busy /\ authenticated /\ ~link.open /\ ~load.on
  /\ LoadReports("full", cookie) /\ main' = [Idle EXCEPT !.at = "loading"]
  /\ UNCHANGED <<cookie, view, link, form, shown, print, due, autos, account>>

(* Sync in Settings: not an action of run(), so `busy` does not stop it.   *)
SettingsSync ==
  /\ authenticated /\ ~link.open /\ ~load.on /\ LoadReports("full", cookie)
  /\ UNCHANGED <<cookie, view, main, link, form, shown, print, due, autos, account>>

\* mutant: the next time is the one that has just come
NextSlotNow == TRUE

(* Whether a time set by reportSyncSchedule.next() has come: never at once. *)
NextSlot == FALSE

ResumeSync ==
  /\ authenticated /\ ~busy /\ ~load.on /\ ~link.open /\ due
  /\ due' = NextSlot /\ autos' = autos + 1
  /\ LoadReports("full", cookie)
  /\ UNCHANGED <<cookie, view, main, link, form, shown, print, account>>

SlotPasses ==
  /\ due' = TRUE /\ autos' = 0
  /\ UNCHANGED <<cookie, view, main, load, link, form, shown, print, account>>

(* fetchReports after its answer, and what waits for it.  `overdue` is the *)
(* server's word that a cached report is not up to date.                   *)
LoadAnswered ==
  /\ load.on /\ load' = NoLoad
  /\ main' = IF main.at = "loading" THEN Idle ELSE main
  /\ \E reply \in ReportReplies(load.carries), overdue \in BOOLEAN :
       /\ cookie' = reply.jar
       /\ \/ /\ reply.code = "ok"
             /\ shown' = (IF print # load.carries.acct THEN load.carries.acct ELSE shown)
             /\ print' = load.carries.acct
             /\ due' = IF overdue /\ load.kind = "cacheOnly" THEN TRUE ELSE NextSlot
             /\ link' = IF link.at = "loading" THEN [link EXCEPT !.at = "rest", !.ready = FALSE] ELSE link
             /\ UNCHANGED <<view, autos, form>>
          \/ /\ reply.code = "expired" /\ ShowLogin /\ due' = NextSlot
             /\ link' = [link EXCEPT !.open = FALSE,
                                     !.at = IF @ = "loading" THEN "rest" ELSE @,
                                     !.ready = IF link.at = "loading" THEN FALSE ELSE @]
          \/ /\ reply.code = "error" /\ due' = NextSlot
             /\ link' = IF link.at = "loading" THEN [link EXCEPT !.at = "rest", !.ready = FALSE] ELSE link
             /\ UNCHANGED <<view, autos, form, shown, print>>
  /\ UNCHANGED account

SignOut ==
  /\ ~busy /\ authenticated /\ ~link.open
  /\ main' = [Idle EXCEPT !.at = "delete"]
  /\ UNCHANGED <<cookie, view, load, link, form, shown, print, due, autos, account>>

SignOutAnswered ==
  /\ main.at = "delete" /\ main' = Idle
  /\ \/ /\ cookie' = None /\ ShowLogin /\ due' = TRUE
        /\ link' = [link EXCEPT !.open = FALSE] /\ account' = None
     \/ UNCHANGED <<cookie, view, link, form, shown, print, due, autos, account>>
  /\ UNCHANGED load

(* The cookie's own lifetime ends (client_state.go), between requests.     *)
Expire ==
  /\ cookie # None /\ cookie' = None
  /\ UNCHANGED <<view, main, load, link, form, shown, print, due, autos, account>>

----------------------------------------------------------------------------
(* Connecting a provider                                                   *)

OpenConnect(p) ==
  /\ authenticated /\ shown # None /\ ~link.open
  /\ link' = [link EXCEPT !.open = TRUE, !.ready = FALSE, !.prov = p]
  /\ UNCHANGED <<cookie, view, main, load, form, shown, print, due, autos, account>>

CloseConnect ==
  /\ link.open /\ link.at = "rest" /\ link' = NoLink
  /\ UNCHANGED <<cookie, view, main, load, form, shown, print, due, autos, account>>

SubmitConnect(a) ==
  /\ link.open /\ link.at = "rest"
  /\ link' = [link EXCEPT !.acct = a, !.at = IF link.ready THEN "login" ELSE "challenge",
                          !.carries = IF link.ready THEN For(link.prov, cookie) ELSE Fresh(link.prov)]
  /\ UNCHANGED <<cookie, view, main, load, form, shown, print, due, autos, account>>

ConnectChallenged ==
  /\ link.at = "challenge"
  /\ \E reply \in ChallengeReplies(link.carries.prov) :
       /\ cookie' = reply.jar
       /\ link' = IF reply.code = "ok" THEN [link EXCEPT !.at = "login", !.ready = TRUE,
                                                           !.carries = For(link.prov, reply.jar)]
                  ELSE [link EXCEPT !.at = "rest", !.ready = FALSE, !.acct = None, !.carries = None]
  /\ UNCHANGED <<view, main, load, form, shown, print, due, autos, account>>

ConnectAnswered ==
  /\ link.at = "login"
  /\ \E reply \in LoginReplies(link.carries, link.acct) :
       /\ cookie' = reply.jar
       /\ IF reply.code = "ok"
          THEN /\ link' = [link EXCEPT !.at = "loading", !.acct = None, !.carries = None]
               /\ account' = link.acct /\ LoadReports("full", reply.jar)
          ELSE /\ link' = [link EXCEPT !.at = "rest", !.acct = None, !.carries = None,
                                       !.ready = (@ /\ reply.code = "captchaImage")]
               /\ UNCHANGED <<account, load>>
  /\ UNCHANGED <<view, main, form, shown, print, due, autos>>

----------------------------------------------------------------------------
Answers == \/ Startup \/ ChallengeAnswered \/ Backoff \/ Read \/ LoginAnswered \/ SignOutAnswered
Clicks ==
  \/ \E a \in Account : SignIn(a) \/ SubmitConnect(a)
  \/ \E p \in Provider : OpenConnect(p)
  \/ NewCode \/ UseForm \/ Refresh \/ SettingsSync \/ SignOut \/ CloseConnect

Note == overlap' = (overlap \/ Overlapping')

Next ==
  /\ \/ Answers \/ Clicks \/ LoadAnswered \/ ConnectChallenged \/ ConnectAnswered
     \/ ResumeSync \/ SlotPasses \/ Expire
  /\ Note

Spec == Init /\ [][Next]_vars

(* Every request has a time limit and so has the recognition; the load and *)
(* the connection answer on their own.                                     *)
FairSpec ==
  /\ Spec /\ WF_vars(Answers /\ Note) /\ WF_vars(LoadAnswered /\ Note)
  /\ WF_vars((ConnectChallenged \/ ConnectAnswered) /\ Note)

----------------------------------------------------------------------------
Someone == Account \cup {None}
Jar == Session \cup {None}
MainState ==
  [at : {"idle", "session", "loading", "challenge", "backoff", "reading", "login", "delete"},
   auto : BOOLEAN, tries : 0 .. MaxTries - 1, acct : Someone, carries : Jar]
LoadState == [on : BOOLEAN, kind : {"full", "cacheOnly"}, carries : Jar]
LinkState == [at : {"rest", "challenge", "login", "loading"}, open : BOOLEAN, ready : BOOLEAN,
              prov : Provider, acct : Someone, carries : Jar]
FormState == [prov : Provider, challenge : {"none", "fresh", "stale"}, of : Provider,
              answer : {"none", "asked", "given"}, fallback : BOOLEAN]

(* Every variable keeps its type.                                          *)
TypeOK ==
  /\ cookie \in Jar /\ view \in {"startup", "login", "reports"}
  /\ main \in MainState /\ load \in LoadState /\ link \in LinkState /\ form \in FormState
  /\ shown \in Someone /\ print \in Someone /\ account \in Someone
  /\ due \in BOOLEAN /\ autos \in Nat /\ overlap \in BOOLEAN

(* While no load or connection is open across a change of the session, the *)
(* page is only ever filled with the reports of the account last signed in *)
(* with: sharing the load is the only way to somebody else's.              *)
RendersOwn == [][shown' # shown /\ shown' # None /\ ~overlap => shown' = account]_vars

(* A fingerprint remembered is that of what is on the page; one left from  *)
(* before a sign-out would keep the next student's page empty.             *)
FingerprintsTrue == print # None => shown = print

(* A challenge still usable was made for the provider the form will name:  *)
(* the server answers another one with 401 and drops the session.          *)
ChallengeOfProvider == form.challenge = "fresh" => form.of = form.prov

(* A failed automatic sync waits for the next slot: one attempt per slot,  *)
(* until a new sign-in, whichever load set the time of the next one.       *)
OneAutoPerSlot == autos <= 1

(* What holds `busy` ends, and so do the sharing of a load and an attempt  *)
(* to connect: no answer, retry or wait for another's load can leave the   *)
(* page unusable.                                                          *)
ActionsEnd ==
  /\ busy ~> ~busy
  /\ load.on ~> ~load.on
  /\ link.at # "rest" ~> link.at = "rest"

(* An acknowledged sign-out leaves the browser without a session until     *)
(* somebody signs in (docs/go-backend.md: "clears public session").        *)
SignOutEndsSession == account = None => cookie = None \/ ~cookie.auth
=============================================================================
