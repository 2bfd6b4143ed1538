------------------------------ MODULE GoSessions ------------------------------
(***************************************************************************)
(* The public session layer of portal-go: server.go, routes.go,            *)
(* operations.go and the provider switch of ratio_routes.go.               *)
(*                                                                         *)
(* Every HTTP request runs in a goroutine of its own.  The map `sessions`  *)
(* and the fields of its entries are guarded by server.mu, which is never  *)
(* held across a worker call; `slots` is a buffered channel used as a      *)
(* counting semaphore.  One action below is one critical section, one      *)
(* worker call coming back, or one release of a slot.                      *)
(*                                                                         *)
(* Time is abstract: `expired` says whether time.Now().After(entry.expires)*)
(* and a cached report is fresh or stale.  A token is a pair <<s, g>>: the *)
(* g-th value of randomID() given to the session struct s, so tokens never *)
(* collide, which is what 256 random bits provide.                         *)
(***************************************************************************)
EXTENDS Integers, FiniteSets

CONSTANTS
  Request,        \* goroutines serving HTTP requests
  Sid,            \* session structs the server may ever allocate
  Account,        \* student accounts
  MaxSessions,    \* config.MaxSessions
  MaxConcurrent,  \* config.MaxConcurrent, the capacity of server.slots
  MaxTokens,      \* bound: values of randomID() one struct may be given
  Ratio,          \* server.ratio
  None            \* nil

ASSUME SetsAssumption ==
  /\ IsFiniteSet(Request) /\ IsFiniteSet(Sid)
  /\ None \notin Request \cup Sid \cup Account
ASSUME BoundsAssumption ==
  /\ MaxSessions \in Nat \ {0}
  /\ MaxConcurrent \in Nat \ {0}
  /\ MaxTokens \in Nat
ASSUME RatioAssumption == Ratio \in BOOLEAN

VARIABLES
  sessions,       \* keys of server.sessions; the value at <<s, g>> is struct s
  issued,         \* tokens some Set-Cookie header has carried
  gen,            \* gen[s]: values of randomID() given to s; 0: not allocated
  authenticated,  \* entry.authenticated
  busy,           \* entry.busy
  expired,        \* time.Now().After(entry.expires)
  cache,          \* entry.cache with its age, and whose data it holds
  inflight,       \* entry.inflight, named by the request that leads it
  slots,          \* len(server.slots)
  reaping,        \* the reaper's goroutine for s, if one runs
  req,            \* the state of each request's goroutine
  account,        \* external: the account the worker's context is signed in to
  signedOut       \* history: cookies of DELETEs answered with success whose token
                  \* was still in the map

entryVars == <<gen, authenticated, expired, cache, account>>
vars == <<sessions, issued, gen, authenticated, busy, expired, cache, inflight,
          slots, reaping, req, account, signedOut>>

Token == Sid \X Nat
TokenOf(s) == <<s, gen[s]>>
Live(s) == TokenOf(s) \in sessions

Path == {"challenge", "prepare", "login", "logout", "reports", "academia"}

\* Where a goroutine is: the worker call it awaits, or the section it runs next.
Place == {"idle", "reclaim", "reclaiming", "reclaimed", "route", "calling",
          "dropping", "answered", "reporting", "published", "expelled",
          "discarding", "waiting", "woken"}

Handler == [at: Place, path: Path, cookie: {None} \cup Token,
            entry: {None} \cup Sid]
Idle == [at |-> "idle", path |-> "challenge", cookie |-> None, entry |-> None]

Cached == [of: Account, fresh: BOOLEAN]

Step(r, place, cookie, s) ==
  req' = [req EXCEPT ![r] = [at |-> place, path |-> req[r].path,
                             cookie |-> cookie, entry |-> s]]
Goto(r, place, s) == Step(r, place, None, s)    \* routed: the cookie is spent
Answer(r) == req' = [req EXCEPT ![r] = Idle]

Acquire == /\ slots < MaxConcurrent
           /\ slots' = slots + 1
Release == slots' = slots - 1

\* What the worker may answer, folded into the classes the server tells apart.
\* A client that goes away cancels a mutation's call, which then fails.
Outcome == {"ok", "unauthorized", "failed"}

-------------------------------------------------------------------------------

Init ==
  /\ sessions = {} /\ issued = {} /\ signedOut = {}
  /\ gen = [s \in Sid |-> 0]
  /\ authenticated = [s \in Sid |-> FALSE]
  /\ busy = [s \in Sid |-> FALSE]
  /\ expired = [s \in Sid |-> FALSE]
  /\ cache = [s \in Sid |-> None]
  /\ inflight = [s \in Sid |-> None]
  /\ slots = 0
  /\ reaping = [s \in Sid |-> "no"]
  /\ req = [r \in Request |-> Idle]
  /\ account = [s \in Sid |-> None]

\* Mutant: the cookie is trusted without looking it up in the map.
LookupUnchecked(cookie) ==
  IF cookie # None /\ ~expired[cookie[1]] THEN cookie[1] ELSE None

\* The session a cookie names, unless it has expired.
Lookup(cookie) ==
  IF cookie \in sessions /\ ~expired[cookie[1]] THEN cookie[1] ELSE None

\* A request arrives with a cookie some answer has set, or with none.
Arrive(r) ==
  /\ req[r].at = "idle"
  /\ \E path \in Path, cookie \in issued \cup {None} :
       /\ path = "academia" => Ratio
       /\ req' = [req EXCEPT ![r] =
            [at |-> IF path = "challenge" THEN "reclaim" ELSE "route",
             path |-> path, cookie |-> cookie, entry |-> None]]
  /\ UNCHANGED <<sessions, issued, entryVars, busy, inflight, slots, reaping,
                 signedOut>>

-------------------------------------------------------------------------------
\* reclaimExpired, before a challenge is routed.

\* Mutants: a busy session is closed too; only signed-in sessions are closed.
ReclaimableBusy(s) == Live(s) /\ expired[s]
ReclaimableSignedIn(s) == Live(s) /\ ~busy[s] /\ expired[s] /\ authenticated[s]

Reclaimable(s) == Live(s) /\ ~busy[s] /\ expired[s]

ReclaimSkip(r) ==
  /\ req[r].at = "reclaim"
  /\ \/ Cardinality(sessions) < MaxSessions
     \/ ~\E s \in Sid : Reclaimable(s)
     \/ slots = MaxConcurrent
  /\ Step(r, "route", req[r].cookie, None)
  /\ UNCHANGED <<sessions, issued, entryVars, busy, inflight, slots, reaping,
                 signedOut>>

ReclaimStart(r, s) ==
  /\ req[r].at = "reclaim"
  /\ Cardinality(sessions) >= MaxSessions
  /\ Reclaimable(s)
  /\ Acquire
  /\ busy' = [busy EXCEPT ![s] = TRUE]
  /\ Step(r, "reclaiming", req[r].cookie, s)
  /\ UNCHANGED <<sessions, issued, entryVars, inflight, reaping, signedOut>>

\* The worker's close has returned, whatever it answered.
ReclaimDrop(r) ==
  /\ req[r].at = "reclaiming"
  /\ sessions' = sessions \ {TokenOf(req[r].entry)}
  /\ Step(r, "reclaimed", req[r].cookie, None)
  /\ UNCHANGED <<issued, entryVars, busy, inflight, slots, reaping, signedOut>>

ReclaimRelease(r) ==
  /\ req[r].at = "reclaimed"
  /\ Release
  /\ Step(r, "route", req[r].cookie, None)
  /\ UNCHANGED <<sessions, issued, entryVars, busy, inflight, reaping,
                 signedOut>>

-------------------------------------------------------------------------------
\* route, for everything but reports: the early returns in their order.

Mutation == {"challenge", "prepare", "login", "logout"}

SignedIn(s) == s # None /\ authenticated[s]
\* Mutant: the 409 is forgotten.
NeverBusy(s) == s # s
IsBusy(s) == s # None /\ busy[s]

\* Mutant: one session too many.
RefusesLate(path, entry) ==
  \/ path = "challenge" /\ SignedIn(entry)
  \/ IsBusy(entry)
  \/ entry = None /\ path # "challenge"
  \/ entry = None /\ Cardinality(sessions) > MaxSessions
  \/ slots = MaxConcurrent

Refuses(path, entry) ==
  \/ path = "challenge" /\ SignedIn(entry)
  \/ IsBusy(entry)
  \/ entry = None /\ path # "challenge"
  \/ entry = None /\ Cardinality(sessions) >= MaxSessions
  \/ slots = MaxConcurrent

\* DELETE without a session: the cookie is cleared and the answer is success.
RouteSignOut(r) ==
  /\ req[r].at = "route" /\ req[r].path = "logout"
  /\ Lookup(req[r].cookie) = None
  /\ signedOut' = signedOut \cup (sessions \cap {req[r].cookie})
  /\ Answer(r)
  /\ UNCHANGED <<sessions, issued, entryVars, busy, inflight, slots, reaping>>

RouteRefuse(r) ==
  /\ req[r].at = "route" /\ req[r].path \in Mutation
  /\ LET entry == Lookup(req[r].cookie) IN
       /\ ~(req[r].path = "logout" /\ entry = None)
       /\ Refuses(req[r].path, entry)
  /\ Answer(r)
  /\ UNCHANGED <<sessions, issued, entryVars, busy, inflight, slots, reaping,
                 signedOut>>

RouteAdmit(r) ==
  /\ req[r].at = "route" /\ req[r].path \in Mutation
  /\ LET entry == Lookup(req[r].cookie) IN
       /\ entry # None
       /\ ~Refuses(req[r].path, entry)
       /\ req[r].path = "login" => gen[entry] < MaxTokens
       /\ busy' = [busy EXCEPT ![entry] = TRUE]
       /\ Goto(r, "calling", entry)
  /\ Acquire
  /\ UNCHANGED <<sessions, issued, entryVars, inflight, reaping, signedOut>>

\* A challenge without a session allocates one.
RouteCreate(r, s) ==
  /\ req[r].at = "route" /\ req[r].path = "challenge"
  /\ Lookup(req[r].cookie) = None
  /\ ~Refuses("challenge", None)
  /\ gen[s] = 0
  /\ gen' = [gen EXCEPT ![s] = 1]
  /\ sessions' = sessions \cup {<<s, 1>>}
  /\ busy' = [busy EXCEPT ![s] = TRUE]
  /\ Acquire
  /\ Goto(r, "calling", s)
  /\ UNCHANGED <<issued, authenticated, expired, cache, inflight, reaping,
                 account, signedOut>>

\* Bound: the pool of structs is used up, or this struct's tokens are.
RouteBeyondBound(r) ==
  /\ req[r].at = "route" /\ req[r].path \in Mutation
  /\ LET entry == Lookup(req[r].cookie) IN
       /\ ~Refuses(req[r].path, entry)
       /\ \/ entry = None /\ \A s \in Sid : gen[s] # 0
          \/ /\ entry # None /\ req[r].path = "login"
             /\ gen[entry] >= MaxTokens
  /\ Answer(r)
  /\ UNCHANGED <<sessions, issued, entryVars, busy, inflight, slots, reaping,
                 signedOut>>

\* ratioDispatch: choosing Academia abandons the portal session.
SwitchProvider(r) ==
  /\ req[r].at = "route" /\ req[r].path = "academia"
  /\ LET entry == Lookup(req[r].cookie) IN
       IF entry = None \/ IsBusy(entry)
       THEN Answer(r) /\ UNCHANGED sessions
       ELSE /\ sessions' = sessions \ {TokenOf(entry)}
            /\ Goto(r, "discarding", entry)
  /\ UNCHANGED <<issued, entryVars, busy, inflight, slots, reaping, signedOut>>

-------------------------------------------------------------------------------
\* mutate: the worker has answered and the server takes its lock again.

Removes(path, outcome) ==
  \/ path = "logout"
  \/ path \in {"challenge", "login"} /\ outcome # "ok"
  \/ outcome = "unauthorized"

\* Mutant: the entry is still in the map while its context is closed.
FinishKeep(r) ==
  /\ req[r].at = "calling"
  /\ \E outcome \in Outcome : Removes(req[r].path, outcome)
  /\ busy' = [busy EXCEPT ![req[r].entry] = FALSE]
  /\ Goto(r, "dropping", req[r].entry)
  /\ UNCHANGED <<sessions, issued, entryVars, inflight, slots, reaping, signedOut>>

FinishRemove(r) ==
  /\ req[r].at = "calling"
  /\ \E outcome \in Outcome : Removes(req[r].path, outcome)
  /\ LET s == req[r].entry IN
       /\ busy' = [busy EXCEPT ![s] = FALSE]
       /\ sessions' = sessions \ {TokenOf(s)}
       /\ Goto(r, IF req[r].path = "logout" THEN "answered" ELSE "dropping", s)
  /\ UNCHANGED <<issued, entryVars, inflight, slots, reaping, signedOut>>

FinishChallenge(r) ==
  /\ req[r].at = "calling" /\ req[r].path = "challenge"
  /\ ~Removes("challenge", "ok")
  /\ LET s == req[r].entry IN
       /\ busy' = [busy EXCEPT ![s] = FALSE]
       /\ expired' = [expired EXCEPT ![s] = FALSE]
       /\ issued' = issued \cup {TokenOf(s)}
       /\ Goto(r, "answered", s)
  /\ UNCHANGED <<sessions, gen, authenticated, cache, inflight, slots, reaping,
                 account, signedOut>>

\* Success sets the cookie again; a failure other than 401 changes nothing.
FinishPrepare(r) ==
  /\ req[r].at = "calling" /\ req[r].path = "prepare"
  /\ \E outcome \in Outcome :
       /\ ~Removes("prepare", outcome)
       /\ issued' = IF outcome = "ok"
                    THEN issued \cup {TokenOf(req[r].entry)} ELSE issued
  /\ busy' = [busy EXCEPT ![req[r].entry] = FALSE]
  /\ Goto(r, "answered", req[r].entry)
  /\ UNCHANGED <<sessions, entryVars, inflight, slots, reaping, signedOut>>

\* Mutant: the old token stays valid.
RotateAdding(s) ==
  /\ gen' = [gen EXCEPT ![s] = gen[s] + 1]
  /\ sessions' = sessions \cup {<<s, gen[s] + 1>>}
  /\ issued' = issued \cup {<<s, gen[s] + 1>>}

\* A new token replaces the old one.  entry.cache is left as it was.
Rotate(s) ==
  /\ gen' = [gen EXCEPT ![s] = gen[s] + 1]
  /\ sessions' = (sessions \ {TokenOf(s)}) \cup {<<s, gen[s] + 1>>}
  /\ issued' = issued \cup {<<s, gen[s] + 1>>}

\* External: portal.js answers at once for a context already signed in;
\* the ratio adapter signs in again with the credentials it is given.
WorkerSignsIn(s, a) ==
  account' = [account EXCEPT ![s] =
                IF ~Ratio /\ account[s] # None THEN account[s] ELSE a]

FinishLogin(r, a) ==
  /\ req[r].at = "calling" /\ req[r].path = "login"
  /\ ~Removes("login", "ok")
  /\ LET s == req[r].entry IN
       /\ busy' = [busy EXCEPT ![s] = FALSE]
       /\ Rotate(s)
       /\ authenticated' = [authenticated EXCEPT ![s] = TRUE]
       /\ expired' = [expired EXCEPT ![s] = FALSE]
       /\ WorkerSignsIn(s, a)
       /\ Goto(r, "answered", s)
  /\ UNCHANGED <<cache, inflight, slots, reaping, signedOut>>

\* The close that follows a removal has returned; the slot is still held.
DropDone(r) ==
  /\ req[r].at = "dropping"
  /\ Goto(r, "answered", None)
  /\ UNCHANGED <<sessions, issued, entryVars, busy, inflight, slots, reaping,
                 signedOut>>

\* Mutant: the release is forgotten.
AnswerOnly(r) ==
  /\ req[r].at = "answered"
  /\ Answer(r)
  /\ UNCHANGED <<sessions, issued, entryVars, busy, inflight, slots, reaping,
                 signedOut>>

\* The deferred release, after the answer is written.
AnswerRelease(r) ==
  /\ req[r].at = "answered"
  /\ Release
  /\ Answer(r)
  /\ UNCHANGED <<sessions, issued, entryVars, busy, inflight, reaping,
                 signedOut>>

-------------------------------------------------------------------------------
\* reports.

Fresh(s) == cache[s] # None /\ cache[s].fresh

ReportsRefuse(r) ==
  /\ req[r].at = "route" /\ req[r].path = "reports"
  /\ LET entry == Lookup(req[r].cookie) IN
       \/ ~SignedIn(entry)
       \/ /\ SignedIn(entry) /\ ~Fresh(entry) /\ inflight[entry] = None
          /\ busy[entry] \/ slots = MaxConcurrent
  /\ Answer(r)
  /\ UNCHANGED <<sessions, issued, entryVars, busy, inflight, slots, reaping,
                 signedOut>>

ReportsCached(r) ==
  /\ req[r].at = "route" /\ req[r].path = "reports"
  /\ LET entry == Lookup(req[r].cookie) IN
       /\ SignedIn(entry) /\ Fresh(entry)
       /\ issued' = issued \cup {TokenOf(entry)}
  /\ Answer(r)
  /\ UNCHANGED <<sessions, entryVars, busy, inflight, slots, reaping,
                 signedOut>>

\* Another request is already fetching this session's reports: wait for it.
ReportsJoin(r) ==
  /\ req[r].at = "route" /\ req[r].path = "reports"
  /\ LET entry == Lookup(req[r].cookie) IN
       /\ SignedIn(entry) /\ ~Fresh(entry)
       /\ inflight[entry] # None
       /\ Goto(r, "waiting", entry)
  /\ UNCHANGED <<sessions, issued, entryVars, busy, inflight, slots, reaping,
                 signedOut>>

ReportsLead(r) ==
  /\ req[r].at = "route" /\ req[r].path = "reports"
  /\ LET entry == Lookup(req[r].cookie) IN
       /\ SignedIn(entry) /\ ~Fresh(entry)
       /\ inflight[entry] = None /\ ~busy[entry]
       /\ busy' = [busy EXCEPT ![entry] = TRUE]
       /\ inflight' = [inflight EXCEPT ![entry] = r]
       /\ Goto(r, "reporting", entry)
  /\ Acquire
  /\ UNCHANGED <<sessions, issued, entryVars, reaping, signedOut>>

\* Mutant: done is never closed.
PublishSilently(r, place) == req' = [req EXCEPT ![r].at = place]

\* close(pending.done): the leader moves on and every waiter is woken.
Publish(r, place) ==
  req' = [q \in Request |->
            IF q = r THEN [req[r] EXCEPT !.at = place]
            ELSE IF req[q].at = "waiting" /\ req[q].entry = req[r].entry
                 THEN [req[q] EXCEPT !.at = "woken"]
                 ELSE req[q]]

\* Mutants: busy is not reset; inflight is not reset.
SettleBusy(s) == UNCHANGED busy /\ inflight' = [inflight EXCEPT ![s] = None]
SettleInflight(s) == busy' = [busy EXCEPT ![s] = FALSE] /\ UNCHANGED inflight

Settle(s) ==
  /\ busy' = [busy EXCEPT ![s] = FALSE]
  /\ inflight' = [inflight EXCEPT ![s] = None]

\* 200: the lifetime starts again, and a complete report is cached.
ReportsOk(r) ==
  /\ req[r].at = "reporting"
  /\ LET s == req[r].entry IN
       /\ Settle(s)
       /\ expired' = [expired EXCEPT ![s] = FALSE]
       /\ \/ cache' = [cache EXCEPT ![s] = [of |-> account[s], fresh |-> TRUE]]
          \/ cache' = cache                             \* not cacheable
       /\ issued' = issued \cup {TokenOf(s)}
  /\ Publish(r, "published")
  /\ UNCHANGED <<sessions, gen, authenticated, slots, reaping, account,
                 signedOut>>

ReportsExpired(r) ==
  /\ req[r].at = "reporting"
  /\ Settle(req[r].entry)
  /\ sessions' = sessions \ {TokenOf(req[r].entry)}
  /\ Publish(r, "expelled")
  /\ UNCHANGED <<issued, entryVars, slots, reaping, signedOut>>

ReportsFailed(r) ==
  /\ req[r].at = "reporting"
  /\ Settle(req[r].entry)
  /\ Publish(r, "published")
  /\ UNCHANGED <<sessions, issued, entryVars, slots, reaping, signedOut>>

\* The slot is returned before the ratio worker is told to close.
ReportsRelease(r) ==
  /\ req[r].at \in {"published", "expelled"}
  /\ Release
  /\ IF Ratio /\ req[r].at = "expelled"
     THEN Goto(r, "discarding", req[r].entry)
     ELSE Answer(r)
  /\ UNCHANGED <<sessions, issued, entryVars, busy, inflight, reaping,
                 signedOut>>

\* A close made without a slot has returned.
DiscardDone(r) ==
  /\ req[r].at = "discarding"
  /\ Answer(r)
  /\ UNCHANGED <<sessions, issued, entryVars, busy, inflight, slots, reaping,
                 signedOut>>

\* A waiter refreshes its cookie if the session is still there.
WaiterResumes(r) ==
  /\ req[r].at = "woken"
  /\ issued' = IF Live(req[r].entry)
               THEN issued \cup {TokenOf(req[r].entry)} ELSE issued
  /\ Answer(r)
  /\ UNCHANGED <<sessions, entryVars, busy, inflight, slots, reaping,
                 signedOut>>

\* The waiter's client goes away; select may take this branch when both are
\* ready.
WaiterGone(r) ==
  /\ req[r].at \in {"waiting", "woken"}
  /\ Answer(r)
  /\ UNCHANGED <<sessions, issued, entryVars, busy, inflight, slots, reaping,
                 signedOut>>

-------------------------------------------------------------------------------
\* Reap, and the passing of time.

\* One tick holds the lock over the whole loop and starts a goroutine for as
\* many expired idle sessions as there are slots, in the map's random order.
ReapTick ==
  \E due \in SUBSET {s \in Sid : Reclaimable(s)} :
    /\ due # {}
    /\ slots + Cardinality(due) <= MaxConcurrent
    /\ \/ due = {s \in Sid : Reclaimable(s)}
       \/ slots + Cardinality(due) = MaxConcurrent
    /\ slots' = slots + Cardinality(due)
    /\ busy' = [s \in Sid |-> busy[s] \/ s \in due]
    /\ reaping' = [s \in Sid |-> IF s \in due THEN "closing" ELSE reaping[s]]
    /\ UNCHANGED <<sessions, issued, entryVars, inflight, req, signedOut>>

\* The goroutine deletes the key it read at the tick; while the entry is busy
\* nobody else changes its token.
ReapDrop(s) ==
  /\ reaping[s] = "closing"
  /\ sessions' = sessions \ {TokenOf(s)}
  /\ reaping' = [reaping EXCEPT ![s] = "closed"]
  /\ UNCHANGED <<issued, entryVars, busy, inflight, slots, req, signedOut>>

ReapRelease(s) ==
  /\ reaping[s] = "closed"
  /\ Release
  /\ reaping' = [reaping EXCEPT ![s] = "no"]
  /\ UNCHANGED <<sessions, issued, entryVars, busy, inflight, req, signedOut>>

Expire(s) ==
  /\ Live(s) /\ ~expired[s]
  /\ expired' = [expired EXCEPT ![s] = TRUE]
  /\ UNCHANGED <<sessions, issued, gen, authenticated, busy, cache, inflight,
                 slots, reaping, req, account, signedOut>>

CacheAges(s) ==
  /\ Live(s) /\ Fresh(s)
  /\ cache' = [cache EXCEPT ![s] = [of |-> cache[s].of, fresh |-> FALSE]]
  /\ UNCHANGED <<sessions, issued, gen, authenticated, busy, expired, inflight,
                 slots, reaping, req, account, signedOut>>

-------------------------------------------------------------------------------

Reclaim(r) ==
  \/ ReclaimSkip(r) \/ (\E s \in Sid : ReclaimStart(r, s))
  \/ ReclaimDrop(r) \/ ReclaimRelease(r)
Route(r) ==
  \/ RouteSignOut(r) \/ RouteRefuse(r) \/ RouteAdmit(r)
  \/ (\E s \in Sid : RouteCreate(r, s))
  \/ RouteBeyondBound(r) \/ SwitchProvider(r)
Mutate(r) ==
  \/ FinishRemove(r) \/ FinishChallenge(r) \/ FinishPrepare(r)
  \/ (\E a \in Account : FinishLogin(r, a))
  \/ DropDone(r) \/ AnswerRelease(r)
Reports(r) ==
  \/ ReportsRefuse(r) \/ ReportsCached(r) \/ ReportsJoin(r) \/ ReportsLead(r)
  \/ ReportsOk(r) \/ ReportsExpired(r) \/ ReportsFailed(r)
  \/ ReportsRelease(r) \/ DiscardDone(r) \/ WaiterResumes(r)

\* What a goroutine does once its request is there: it never blocks for good,
\* because every worker call carries a deadline (callContext).
Handle(r) == Reclaim(r) \/ Route(r) \/ Mutate(r) \/ Reports(r)

Reaper(s) == ReapDrop(s) \/ ReapRelease(s)

Next ==
  \/ \E r \in Request : Arrive(r) \/ Handle(r) \/ WaiterGone(r)
  \/ \E s \in Sid : Reaper(s) \/ Expire(s) \/ CacheAges(s)
  \/ ReapTick

Spec == Init /\ [][Next]_vars

\* The Go scheduler runs every goroutine that can run; worker calls end by
\* their deadline; the ticker fires every thirty seconds.  Requests need not
\* arrive and clients need not go away.
Fairness ==
  /\ \A r \in Request : WF_vars(Handle(r))
  /\ \A s \in Sid : WF_vars(Reaper(s))
  /\ WF_vars(ReapTick)
FairSpec == Spec /\ Fairness

-------------------------------------------------------------------------------
\* Properties.

\* Every variable keeps its type.
TypeOK ==
  /\ sessions \subseteq Token /\ issued \subseteq Token
  /\ signedOut \subseteq Token
  /\ gen \in [Sid -> Nat]
  /\ authenticated \in [Sid -> BOOLEAN]
  /\ busy \in [Sid -> BOOLEAN]
  /\ expired \in [Sid -> BOOLEAN]
  /\ cache \in [Sid -> {None} \cup Cached]
  /\ inflight \in [Sid -> {None} \cup Request]
  /\ slots \in Int
  /\ reaping \in [Sid -> {"no", "closing", "closed"}]
  /\ req \in [Request -> Handler]
  /\ account \in [Sid -> {None} \cup Account]

\* The requests and the reaper goroutines that have put a token in the channel
\* and not taken one out.
Holding == {"reclaiming", "reclaimed", "calling", "dropping", "answered",
            "reporting", "published", "expelled"}
HoldingRequests == {r \in Request : req[r].at \in Holding}
HoldingReapers == {s \in Sid : reaping[s] # "no"}

\* No path through a handler, failed or not, leaks a slot or returns one twice,
\* and the semaphore is never overrun (acquire, mutate, reports, Reap).
SlotsCounted ==
  /\ slots = Cardinality(HoldingRequests) + Cardinality(HoldingReapers)
  /\ slots <= MaxConcurrent

\* The operations that set entry.busy and have not finished.
Owners(s) == {r \in Request : /\ req[r].at \in {"reclaiming", "calling", "reporting"}
                              /\ req[r].entry = s}
Owned(s) == Owners(s) # {} \/ reaping[s] = "closing"

\* An operation on a session excludes every other, the reaper's included, and
\* the session stays in the map until it ends: whoever deletes an entry, or
\* rotates its token, is the one who marked it busy.
OneOperation ==
  \A s \in Sid :
    /\ \A r, q \in Owners(s) : r = q
    /\ reaping[s] = "closing" => Owners(s) = {}
    /\ Owned(s) => busy[s] /\ Live(s)

\* No session is left busy by an operation that has ended, which would make it
\* answer 409 for ever and hide it from the reaper.
NoSessionStuck == \A s \in Sid : Live(s) /\ busy[s] => Owned(s)

\* All worker calls in progress for the context of s, closes included.
Callers(s) == {r \in Request :
                 /\ req[r].at \in {"reclaiming", "calling", "dropping",
                                   "reporting", "discarding"}
                 /\ req[r].entry = s}

\* The worker is never called twice at once for the same context, though the
\* closes of mutate, reports and ratioDispatch run when the entry is no longer
\* busy: by then nobody can find it.
OneCallPerSession ==
  \A s \in Sid :
    /\ \A r, q \in Callers(s) : r = q
    /\ reaping[s] = "closing" => Callers(s) = {}

\* The pool never exceeds its capacity, though reclaimExpired and the check in
\* route are separate critical sections.
PoolBounded == Cardinality(sessions) <= MaxSessions

\* A session is reached by its current token only, and a token handed out
\* before the sign-in reaches no signed-in session.
OneTokenPerSession ==
  \A t \in sessions :
    /\ t = TokenOf(t[1])
    /\ authenticated[t[1]] => t[2] > 1

\* Whoever waits for a report waits for a fetch in progress on that session,
\* led by a request that will publish it: no wake-up is lost.
FlightsAreLed ==
  /\ \A s \in Sid : inflight[s] # None =>
       req[inflight[s]].at = "reporting" /\ req[inflight[s]].entry = s
  /\ \A r \in Request :
       /\ req[r].at = "reporting" => inflight[req[r].entry] = r
       /\ req[r].at = "waiting" => inflight[req[r].entry] # None

\* A session that has left the map never comes back, whatever was in progress
\* on it.
NoResurrection ==
  [][\A s \in Sid : gen[s] > 0 /\ ~Live(s) => ~Live(s)']_vars

\* Every request is answered.
RequestsFinish == \A r \in Request : req[r].at # "idle" ~> req[r].at = "idle"

\* An expired session leaves the pool, or is renewed by the operation that was
\* running, unless all the slots are taken when the ticker fires.
ExpiredLeave ==
  \A s \in Sid : Live(s) /\ expired[s] ~>
    ~Live(s) \/ ~expired[s] \/ slots = MaxConcurrent

\* docs/go-backend.md: DELETE "clears public session".  Once it has been
\* answered with success, the cookie it came with opens nothing.
SignOutFinal == \A t \in signedOut : Lookup(t) = None

-------------------------------------------------------------------------------
\* The layer as the worker sees it: which contexts a call is made for, and which
\* are past.  The ratio worker is told to close after a 401 has been published
\* and the slot returned, so its context is in use until then, and the slots
\* bound the calls of the other worker only.

InUse == {s \in Sid :
            \/ Callers(s) # {} \/ reaping[s] = "closing"
            \/ Ratio /\ \E r \in Request : req[r].at = "expelled" /\ req[r].entry = s}
Gone == {s \in Sid : gen[s] > 0 /\ ~Live(s)} \ InUse

Lease == INSTANCE WorkerLease WITH
  Context <- Sid, inUse <- InUse, gone <- Gone,
  PoolSize <- IF Ratio THEN Cardinality(Sid) ELSE MaxConcurrent

\* The session layer lends each worker context to one operation at a time,
\* within its capacity, and never after its session is gone.
LendsContexts == Lease!Spec

===============================================================================
