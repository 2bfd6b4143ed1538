----------------------------- MODULE NodeSessions -----------------------------
(***************************************************************************)
(* The Node portal application, app.js: one browser per session, kept in a *)
(* Map under an id that is also the cookie.  A request runs the `/api`     *)
(* middleware and its handler up to the first await in one piece; drop()   *)
(* forgets a session and then awaits the closing of its browser.           *)
(*                                                                         *)
(* A session is named by its id.  `expired` says whether its `expires` has *)
(* passed; the middleware then treats it as absent, whatever it is doing.  *)
(***************************************************************************)
EXTENDS Integers, FiniteSets

CONSTANTS
  Request,      \* requests in progress at once
  Sid,          \* bound: sessions ever created
  MaxSessions,  \* maxSessions
  None

ASSUME NodeSets == /\ IsFiniteSet(Request) /\ IsFiniteSet(Sid)
                   /\ None \notin Request \cup Sid
ASSUME NodeBounds == MaxSessions \in Nat \ {0}

VARIABLES
  sessions,       \* keys of the Map
  issued,         \* ids some Set-Cookie header has carried
  busy,           \* entry.busy
  expired,        \* entry.expires <= now()
  authenticated,  \* entry.portal.authenticated
  browser,        \* the browser context of the session
  req             \* the state of each request's handler

entryVars == <<issued, busy, expired, authenticated>>
vars == <<sessions, entryVars, browser, req>>

Path == {"login", "challenge", "prepare", "client", "reports", "logout"}

\* admitted: awaits the drop that precedes a new session; working: awaits the
\* portal; failing, leaving: await the drop that precedes the answer.
Handler == [at: {"idle", "admitted", "working", "failing", "leaving"},
            path: Path, entry: {None} \cup Sid, waits: SUBSET Sid]
Idle == [at |-> "idle", path |-> "logout", entry |-> None, waits |-> {}]
Answer(r) == req' = [req EXCEPT ![r] = Idle]

\* A cookie some answer has set, or none.
Cookie == issued \cup {None}

\* req.portalEntry
EntryOf(cookie) ==
  IF cookie \in sessions /\ ~expired[cookie] THEN cookie ELSE None

\* Mutant: the 409 is forgotten.
NeverBusy(s) == s # s
IsBusy(s) == s # None /\ busy[s]
SignedIn(s) == s # None /\ authenticated[s]

\* The middleware drops a session that has expired and is idle, and waits for
\* nothing.
Lapsed(cookie) == {s \in sessions : s = cookie /\ expired[s] /\ ~busy[s]}

\* drop: the session is forgotten at once; portal.close() clears authenticated
\* before it closes the browser.
Drop(S) ==
  /\ sessions' = sessions \ S
  /\ browser' = [s \in Sid |-> IF s \in S THEN "closing" ELSE browser[s]]
  /\ authenticated' = [s \in Sid |-> authenticated[s] /\ s \notin S]

Resumable(r) ==
  /\ req[r].at \in {"admitted", "failing", "leaving"}
  /\ \A s \in req[r].waits : browser[s] = "closed"
\* Node continues the handlers it has resolved before it takes another event.
Quiet == ~\E r \in Request : Resumable(r)

Init ==
  /\ sessions = {} /\ issued = {}
  /\ busy = [s \in Sid |-> FALSE]
  /\ expired = [s \in Sid |-> FALSE]
  /\ authenticated = [s \in Sid |-> FALSE]
  /\ browser = [s \in Sid |-> "none"]
  /\ req = [r \in Request |-> Idle]

-------------------------------------------------------------------------------
\* Requests, up to their first await.

\* A request that is refused, or only reads, still passes the middleware.
Browse ==
  /\ Quiet
  /\ \E cookie \in issued : Lapsed(cookie) # {} /\ Drop(Lapsed(cookie))
  /\ UNCHANGED <<issued, busy, expired, req>>

\* The session a handler drops itself, when the middleware has not done so.
Own(cookie) == (sessions \cap {cookie}) \ Lapsed(cookie)

\* login and challenge without a usable session: the old one is dropped first.
Admit(r) ==
  /\ req[r].at = "idle" /\ Quiet
  /\ \E path \in {"login", "challenge"}, cookie \in Cookie :
       LET entry == EntryOf(cookie) IN
       /\ ~IsBusy(entry) /\ ~SignedIn(entry)
       /\ path = "challenge" => entry = None
       /\ Drop(sessions \cap {cookie})
       /\ req' = [req EXCEPT ![r] =
            [at |-> "admitted", path |-> path, entry |-> None,
             waits |-> Own(cookie)]]
  /\ UNCHANGED <<issued, busy, expired>>

\* Mutant: capacity is not looked at again after the await.
RoomAssumed == Cardinality(sessions) <= MaxSessions
Room == Cardinality(sessions) < MaxSessions

Full(r) ==
  /\ req[r].at = "admitted" /\ Resumable(r)
  /\ ~Room \/ ~\E s \in Sid : browser[s] = "none"    \* the latter is our bound
  /\ Answer(r)
  /\ UNCHANGED <<sessions, entryVars, browser>>

Create(r, s) ==
  /\ req[r].at = "admitted" /\ Resumable(r)
  /\ Room /\ browser[s] = "none"
  /\ sessions' = sessions \cup {s}
  /\ busy' = [busy EXCEPT ![s] = TRUE]
  /\ browser' = [browser EXCEPT ![s] = "open"]
  /\ req' = [req EXCEPT ![r] = [at |-> "working", path |-> req[r].path,
                                entry |-> s, waits |-> {}]]
  /\ UNCHANGED <<issued, expired, authenticated>>

\* requireSession, and a challenge on a session it refreshes.  A portal that is
\* signed in prepares nothing.
Work(r) ==
  /\ req[r].at = "idle" /\ Quiet
  /\ \E path \in {"challenge", "prepare", "client", "reports"}, cookie \in issued :
       LET entry == EntryOf(cookie) IN
       /\ entry # None /\ ~IsBusy(entry)
       /\ path \in {"challenge", "prepare"} => ~SignedIn(entry)
       /\ busy' = [busy EXCEPT ![entry] = TRUE]
       /\ req' = [req EXCEPT ![r] =
            [at |-> "working", path |-> path, entry |-> entry,
             waits |-> {}]]
  /\ UNCHANGED <<sessions, issued, expired, authenticated, browser>>

SignOut(r) ==
  /\ req[r].at = "idle" /\ Quiet
  /\ \E cookie \in Cookie :
       /\ ~IsBusy(EntryOf(cookie))
       /\ Drop(sessions \cap {cookie})
       /\ req' = [req EXCEPT ![r] = [at |-> "leaving", path |-> "logout",
                                     entry |-> None, waits |-> Own(cookie)]]
  /\ UNCHANGED <<issued, busy, expired>>

Left(r) ==
  /\ req[r].at = "leaving" /\ Resumable(r)
  /\ Answer(r)
  /\ UNCHANGED <<sessions, entryVars, browser>>

-------------------------------------------------------------------------------
\* The portal has answered.

Renews(r) == \/ req[r].path \in {"client", "reports"}
             \/ req[r].path = "challenge" /\ req[r].entry \in issued

Release(s) == busy' = [busy EXCEPT ![s] = FALSE]

WorkOk(r) ==
  /\ req[r].at = "working" /\ Quiet
  /\ LET s == req[r].entry IN
       /\ browser[s] # "closed"
       /\ req[r].path = "reports" => authenticated[s] \/ browser[s] = "closing"
       /\ Release(s)
       /\ expired' = [expired EXCEPT ![s] = @ /\ ~Renews(r)]
       /\ authenticated' = [authenticated EXCEPT
                              ![s] = @ \/ req[r].path \in {"login", "client"}]
       /\ issued' = IF req[r].path = "prepare" THEN issued ELSE issued \cup {s}
  /\ Answer(r)
  /\ UNCHANGED <<sessions, browser>>

\* A failed sign-in or challenge drops the session, whoever has dropped it since.
WorkFails(r) ==
  /\ req[r].at = "working" /\ Quiet
  /\ req[r].path \in {"login", "challenge", "client"}
  /\ Drop(sessions \cap {req[r].entry})
  /\ req' = [req EXCEPT ![r] =
       [at |-> "failing", path |-> req[r].path, entry |-> req[r].entry,
        waits |-> sessions \cap {req[r].entry}]]
  /\ UNCHANGED <<issued, busy, expired>>

Failed(r) ==
  /\ req[r].at = "failing" /\ Resumable(r)
  /\ Release(req[r].entry)
  /\ Answer(r)
  /\ UNCHANGED <<sessions, issued, expired, authenticated, browser>>

\* A failed report leaves the session, signed out of the portal if that was why.
WorkInVain(r) ==
  /\ req[r].at = "working" /\ Quiet
  /\ req[r].path \in {"prepare", "reports"}
  /\ Release(req[r].entry)
  /\ \/ UNCHANGED authenticated
     \/ /\ req[r].path = "reports"
        /\ authenticated' = [authenticated EXCEPT ![req[r].entry] = FALSE]
  /\ Answer(r)
  /\ UNCHANGED <<sessions, issued, expired, browser>>

\* Mutant: the close of a session nobody finds any more is not awaited.
CloseFound(s) ==
  /\ browser[s] = "closing" /\ Quiet /\ s \in sessions
  /\ browser' = [browser EXCEPT ![s] = "closed"]
  /\ UNCHANGED <<sessions, entryVars, req>>

\* close() has returned, or failed: drop() ignores which.
CloseDone(s) ==
  /\ browser[s] = "closing" /\ Quiet
  /\ browser' = [browser EXCEPT ![s] = "closed"]
  /\ UNCHANGED <<sessions, entryVars, req>>

\* Mutant: the timer looks at sessions that are signed in only.
DueSignedIn == {s \in sessions : expired[s] /\ ~busy[s] /\ authenticated[s]}
Due == {s \in sessions : expired[s] /\ ~busy[s]}

Tick ==
  /\ Quiet /\ Due # {}
  /\ Drop(Due)
  /\ UNCHANGED <<issued, busy, expired, req>>

Expire(s) ==
  /\ s \in sessions /\ ~expired[s]
  /\ expired' = [expired EXCEPT ![s] = TRUE]
  /\ UNCHANGED <<sessions, issued, busy, authenticated, browser, req>>

-------------------------------------------------------------------------------

Resume(r) == Full(r) \/ (\E s \in Sid : Create(r, s)) \/ Left(r) \/ Failed(r)
Portal(r) == WorkOk(r) \/ WorkFails(r) \/ WorkInVain(r)

Next ==
  \/ \E r \in Request :
       Admit(r) \/ Work(r) \/ SignOut(r) \/ Resume(r) \/ Portal(r)
  \/ \E s \in Sid : CloseDone(s) \/ Expire(s)
  \/ Browse \/ Tick

Spec == Init /\ [][Next]_vars

\* Node serves what is due.  What a portal operation awaits ends: navigations,
\* locators and requests have Playwright's time limits; of what has none (a new
\* context, a script in the page, closing a context) it is assumed that the
\* browser answers or dies, which fails it.
Fairness ==
  /\ \A r \in Request : WF_vars(Resume(r)) /\ SF_vars(Portal(r))
  /\ \A s \in Sid : SF_vars(CloseDone(s))
  /\ SF_vars(Tick)
FairSpec == Spec /\ Fairness

-------------------------------------------------------------------------------
\* Properties.

\* Every variable keeps its type.
TypeOK ==
  /\ sessions \subseteq Sid /\ issued \subseteq Sid
  /\ busy \in [Sid -> BOOLEAN]
  /\ expired \in [Sid -> BOOLEAN]
  /\ authenticated \in [Sid -> BOOLEAN]
  /\ browser \in [Sid -> {"none", "open", "closing", "closed"}]
  /\ req \in [Request -> Handler]

Workers(s) == {r \in Request : req[r].at \in {"working", "failing"}
                               /\ req[r].entry = s}

\* A browser is driven by one request at a time, though one whose session has
\* expired is invisible to the checks of busy, and a session marked busy has a
\* request that will unmark it.
OneOperation ==
  \A s \in Sid :
    /\ \A r, q \in Workers(s) : r = q
    /\ Workers(s) # {} <=> busy[s]

\* The Map stays within maxSessions although login and challenge look at its
\* size only after an await; and it holds every session whose browser is open,
\* so that no browser is out of the reach of requests and of the timer.
MapBounded ==
  /\ Cardinality(sessions) <= MaxSessions
  /\ sessions = {s \in Sid : browser[s] = "open"}

\* Every request is answered, those that await the closing of a browser included.
RequestsFinish == \A r \in Request : req[r].at # "idle" ~> req[r].at = "idle"

\* A session that has expired ends, or is renewed by the operation that was
\* running: no browser stays open for good.
SessionsEnd ==
  \A s \in Sid :
    s \in sessions /\ expired[s] ~> s \notin sessions \/ ~expired[s]

\* app.test.js: "overlapping work rejects reports, login and logout without
\* duplicate portal work", and DELETE answers 'Wait for the current request before
\* signing out.'  No browser is closed under the request that is using it.
Undisturbed ==
  \A r \in Request : req[r].at = "working" => browser[req[r].entry] = "open"

===============================================================================
