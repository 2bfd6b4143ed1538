--------------------------- MODULE PortalSession ---------------------------
(***************************************************************************)
(* One PortalSession (portal-app/src/portal.js): a browser context that    *)
(* signs one student in and reads the reports.  Its callers run one        *)
(* operation at a time, but close() may come at any moment of it.  An      *)
(* operation awaits the browser between any two steps; once the context is *)
(* gone every such await fails, and before that each may fail or time out. *)
(***************************************************************************)
EXTENDS Naturals

CONSTANT MaxReports     \* bound: reports fetched in one operation

ASSUME ReportsAssumption == MaxReports \in Nat /\ MaxReports >= 2

VARIABLES
  http,          \* PORTAL_SUBMISSION_TRANSPORT is http or fasthttp
  handshake,     \* PORTAL_FINGERPRINT_HANDSHAKE
  context,       \* this.context: none, open or closed
  page,          \* this.page is set
  authenticated, cache,
  closing,       \* close(): no, waiting for the browser, or done
  op,            \* the operation
  watch,         \* observeLogin's listeners are on the page
  route          \* submitThroughHttp's handler: off, waiting, forwarding, forwarded

vars == <<http, handshake, context, page, authenticated, cache, closing, op, watch, route>>
settings == <<http, handshake>>
browser == <<context, page, closing>>
session == <<authenticated, cache>>

(* sent: forms of this login that reached the portal; refusals: passwords  *)
(* it refused in this operation; whole: no report has failed so far.       *)
Rest == [at |-> "rest", kind |-> "challenge", log |-> FALSE, attempt |-> 1,
         sent |-> 0, failure |-> FALSE, result |-> "none", refusals |-> 0,
         fetched |-> 0, whole |-> TRUE]

MaxAttempts == 2
Answers == context = "open"
Goes(at) == op' = [op EXCEPT !.at = at]
Over == op' = [op EXCEPT !.at = "rest"]

Init ==
  /\ http \in BOOLEAN /\ handshake \in BOOLEAN
  /\ context = "none" /\ page = FALSE /\ authenticated = FALSE /\ cache = "none"
  /\ closing = "no" /\ op = Rest /\ watch = FALSE /\ route = "off"

----------------------------------------------------------------------------
(* The callers (app.js, worker.mjs).  A session once closed is forgotten;  *)
(* only a new one is opened, and only a new one signs in by itself.        *)
Begin(kind, at) == op' = [Rest EXCEPT !.at = at, !.kind = kind]

Start ==
  /\ op.at = "rest" /\ closing = "no"
  /\ \/ ~authenticated /\ context = "none" /\ \E kind \in {"challenge", "auto"} : Begin(kind, "newContext")
     \/ ~authenticated /\ page /\ Begin("challenge", "challenge")
     \/ ~authenticated /\ page /\ \E log \in BOOLEAN :
          op' = [Rest EXCEPT !.at = IF log THEN "observe" ELSE "type", !.kind = "login", !.log = log]
     \/ authenticated /\ cache # "fresh" /\ Begin("reports", "shell")
  /\ UNCHANGED <<settings, browser, session, watch, route>>

----------------------------------------------------------------------------
(* open and refreshChallenge                                               *)

NewContext ==
  /\ op.at = "newContext"
  /\ \/ context' = "open" /\ Goes("newPage")
     \/ Over /\ UNCHANGED context
  /\ UNCHANGED <<settings, page, closing, session, watch, route>>

NewPage ==
  /\ op.at = "newPage"
  /\ \/ Answers /\ page' = TRUE /\ Goes("challenge")
     \/ Over /\ UNCHANGED page
  /\ UNCHANGED <<settings, context, closing, session, watch, route>>

Challenge ==
  /\ op.at = "challenge"
  /\ \/ Answers /\ op.kind = "auto" /\ Goes("solve")
     \/ Over
  /\ UNCHANGED <<settings, browser, session, watch, route>>

----------------------------------------------------------------------------
(* autoLogin: another attempt follows an image nobody could read and an    *)
(* answer the portal refused, and nothing else.                            *)
Again(result) == result \in {"unreadable", "captcha"}

\* mutant: attempts are not counted
RetryUncounted(o) ==
  op' = IF Again(o.result) /\ o.attempt < MaxAttempts
        THEN [o EXCEPT !.at = "challenge", !.sent = 0] ELSE [o EXCEPT !.at = "rest"]

Retry(o) ==
  op' = IF Again(o.result) /\ o.attempt < MaxAttempts
        THEN [o EXCEPT !.at = "challenge", !.attempt = @ + 1, !.sent = 0]
        ELSE [o EXCEPT !.at = "rest"]

Solve ==
  /\ op.at = "solve"
  /\ \/ Goes("type")
     \/ \E result \in {"unreadable", "error"} : Retry([op EXCEPT !.result = result])
  /\ UNCHANGED <<settings, browser, session, watch, route>>

----------------------------------------------------------------------------
(* login and submitLogin                                                   *)

Observe ==
  /\ op.at = "observe"
  /\ \/ Answers /\ watch' = TRUE /\ Goes("type")
     \/ Over /\ UNCHANGED watch
  /\ UNCHANGED <<settings, browser, session, route>>

Result(result) == op' = [op EXCEPT !.at = "finish", !.result = result]

(* The form is typed in.  The handshake is for the browser's transport.    *)
Type ==
  /\ op.at = "type"
  /\ \/ Answers /\ ~(handshake /\ http) /\ Goes(IF handshake THEN "token" ELSE "submit")
        /\ route' = IF http THEN "waiting" ELSE "off"
     \/ Result("error") /\ UNCHANGED route
  /\ UNCHANGED <<settings, browser, session, watch>>

(* The page fetches its fingerprint token, or the sign-in ends here.       *)
Token ==
  /\ op.at = "token"
  /\ \/ Answers /\ Goes("submit")
     \/ Result("error")
  /\ UNCHANGED <<settings, browser, session, watch, route>>

(* The page posts its form: its script may do so more than once.  With the *)
(* browser's transport nothing stands between; the handler lets one by.    *)
\* mutant: what was forwarded is not remembered
PassesAlways == ~http \/ route # "off"
Passes == ~http \/ route = "waiting"
Post ==
  /\ op.at = "submit" /\ Answers /\ op.sent < 2
  /\ IF Passes
     THEN /\ op' = [op EXCEPT !.sent = @ + 1]
          /\ route' = IF http THEN "forwarding" ELSE route
     ELSE op' = [op EXCEPT !.failure = TRUE] /\ UNCHANGED route
  /\ UNCHANGED <<settings, browser, session, watch>>

(* The portal's answer is handed to the page, or the post has failed.      *)
Forward ==
  /\ route = "forwarding" /\ route' = "forwarded"
  /\ \/ Answers /\ UNCHANGED op
     \/ op' = [op EXCEPT !.failure = TRUE]
  /\ UNCHANGED <<settings, browser, session, watch>>

Unroute == route' = "off"

(* submit() settles: the handler is taken off on every way out.            *)
Submitted ==
  /\ op.at = "submit"
  /\ \/ Answers /\ op.sent > 0 /\ ~op.failure /\ route # "forwarding" /\ Goes("landed")
     \/ Result("error")
  /\ Unroute
  /\ UNCHANGED <<settings, browser, session, watch>>

(* What the portal's answer says: a wrong code, a refused password, another *)
(* reason that it names, or nothing that is understood.                    *)
Classes == {"captcha", "refused", "named", "unknown"}

SignedIn == authenticated' = TRUE /\ Result("ok")

Landed ==
  /\ op.at = "landed"
  /\ \/ Answers /\ SignedIn
     \/ /\ Answers /\ UNCHANGED authenticated
        /\ \E class \in Classes :
             op' = [op EXCEPT !.at = IF class = "unknown" THEN "verify" ELSE "finish", !.result = class,
                              !.refusals = IF class = "refused" THEN @ + 1 ELSE @]
     \/ Result("error") /\ UNCHANGED authenticated
  /\ UNCHANGED <<settings, browser, cache, watch, route>>

(* An answer not understood: a page for members only decides.              *)
Verify ==
  /\ op.at = "verify"
  /\ \/ Answers /\ SignedIn
     \/ Result("unknown") /\ UNCHANGED authenticated
  /\ UNCHANGED <<settings, browser, cache, watch, route>>

(* observation.finish, and then login's finally: nothing in them throws.   *)
Observed ==
  /\ op.at = "finish" /\ Goes("report")
  /\ UNCHANGED <<settings, browser, session, watch, route>>

\* mutant: the listeners stay
DetachNot == UNCHANGED watch
Detach == watch' = FALSE
Finish ==
  /\ op.at = "report"
  /\ Detach
  /\ IF op.kind = "auto" THEN Retry(op) ELSE Over
  /\ UNCHANGED <<settings, browser, session, route>>

----------------------------------------------------------------------------
(* reports                                                                 *)

\* mutant: the reports outlive the session
ExpiredKeeping == authenticated' = FALSE /\ UNCHANGED cache /\ Over
Expired == authenticated' = FALSE /\ cache' = "none" /\ Over

Shell ==
  /\ op.at = "shell"
  /\ \/ Answers /\ Goes("fetch") /\ UNCHANGED session
     \/ Answers /\ Expired
     \/ Over /\ UNCHANGED session
  /\ UNCHANGED <<settings, browser, watch, route>>

(* Attendance, marks and then the details of each mark: a failure is noted *)
(* in the result, an expired session ends the operation.                   *)
Fetch ==
  /\ op.at = "fetch" /\ op.fetched < MaxReports
  /\ \/ /\ \E ok \in BOOLEAN : /\ ok => Answers
                               /\ op' = [op EXCEPT !.fetched = @ + 1, !.whole = @ /\ ok]
        /\ UNCHANGED session
     \/ Answers /\ Expired
  /\ UNCHANGED <<settings, browser, watch, route>>

Fetched ==
  /\ op.at = "fetch" /\ op.fetched >= 2
  /\ cache' = IF op.whole THEN "fresh" ELSE cache
  /\ Over
  /\ UNCHANGED <<settings, browser, authenticated, watch, route>>

CacheAges ==
  /\ cache = "fresh" /\ cache' = "stale"
  /\ UNCHANGED <<settings, browser, authenticated, op, watch, route>>

----------------------------------------------------------------------------
(* close(): the end of a session, a deadline or a lost request, whatever   *)
(* the operation is at.  A context made after it is nobody's.              *)
Close ==
  /\ closing = "no"
  /\ authenticated' = FALSE /\ cache' = "none"
  /\ closing' = IF context = "open" THEN "waiting" ELSE "done"
  /\ UNCHANGED <<settings, context, page, op, watch, route>>

CloseDone ==
  /\ closing = "waiting" /\ closing' = "done" /\ context' = "closed"
  /\ UNCHANGED <<settings, page, session, op, watch, route>>

BrowserDies ==
  /\ context = "open" /\ context' = "closed"
  /\ closing' = IF closing = "waiting" THEN "done" ELSE closing
  /\ UNCHANGED <<settings, page, session, op, watch, route>>

Steps ==
  \/ NewContext \/ NewPage \/ Challenge \/ Solve \/ Observe \/ Type \/ Token
  \/ Forward \/ Submitted \/ Landed \/ Verify \/ Observed \/ Finish \/ Shell \/ Fetch \/ Fetched

Next == Start \/ Steps \/ Post \/ CacheAges \/ Close \/ CloseDone \/ BrowserDies

Spec == Init /\ [][Next]_vars

(* Most awaits of an operation have a time limit, Playwright's or their    *)
(* own.  The creation of a context or a page and scripts run in the page   *)
(* have none: of these it is assumed that the browser answers, or dies,    *)
(* which fails them.                                                       *)
FairSpec == Spec /\ WF_vars(Steps)

----------------------------------------------------------------------------
Places == {"rest", "newContext", "newPage", "challenge", "solve", "observe", "type", "token", "submit",
           "landed", "verify", "finish", "report", "shell", "fetch"}
Kinds == {"challenge", "auto", "login", "reports"}
Results == Classes \cup {"none", "ok", "unreadable", "error"}
Operation == [at : Places, kind : Kinds, log : BOOLEAN, attempt : Nat, sent : Nat, failure : BOOLEAN,
              result : Results, refusals : Nat, fetched : 0 .. MaxReports, whole : BOOLEAN]

TypeOK ==
  /\ http \in BOOLEAN /\ handshake \in BOOLEAN /\ page \in BOOLEAN
  /\ authenticated \in BOOLEAN /\ watch \in BOOLEAN
  /\ context \in {"none", "open", "closed"} /\ cache \in {"none", "fresh", "stale"}
  /\ closing \in {"no", "waiting", "done"}
  /\ route \in {"off", "waiting", "forwarding", "forwarded"}
  /\ op \in Operation

(* A password is sent once per login where the transport can see to it,    *)
(* and once refused it is not tried again: retries are for challenges.     *)
SubmitsOnce == (http => op.sent <= 1) /\ op.refusals <= 1

(* Reports are kept for a signed-in session only: whatever ends it, on any *)
(* page of a fetch, takes them away, or they would be served to nobody's   *)
(* session.  A fetch that outlives close() may still leave them behind.    *)
CacheOfSession == closing = "no" /\ cache # "none" => authenticated

(* When no operation runs, no listener and no handler of one is left on    *)
(* the page, however it ended: the next would log or send twice.           *)
Detached == op.at = "rest" => ~watch /\ route = "off"

(* Every operation ends, closed under or not.                              *)
OperationsEnd == op.at # "rest" ~> op.at = "rest"
=============================================================================
