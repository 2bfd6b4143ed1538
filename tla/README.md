# ClassPro: specifications

ClassPro shows a student the attendance and marks of the SRM portals. A browser
application talks to a public server, which signs in to the portal on the
student's behalf through a worker (a real browser, or a Python client) and reads
the reports. No student data is stored: a session exists in the memory of the
servers, or in an encrypted cookie. What can go wrong is therefore a matter of
protocol: who may use a browser context, when a session ends, what a slow or
abandoned call still does. This directory models those protocols in TLA+, checks
them with TLC and proves what matters most with TLAPS.

## Inventory

### portal-go (the public server)

| Part | State | Operations | Hard behaviour |
| --- | --- | --- | --- |
| Session layer: `server.go`, `routes.go`, `operations.go`, `ratio_routes.go` | `sessions` (token to entry), per entry `busy`, `authenticated`, `expires`, `cache`, `inflight`; `slots`, a counting semaphore | `route`, `mutate`, `reports`, `ratioDispatch`, `reclaimExpired`, `Reap` | one goroutine per request; the lock is never held across a worker call; closes run after the busy mark is gone; report requests are coalesced; the reaper runs beside it all |
| Worker bridge: `worker.go` | connections | `Call` | deadlines (90 s, 4 s for a close); a client that goes away cancels the call, not the work |
| Node worker: `worker.mjs`, `start.mjs` | `sessions` (id to browser context), per entry `busy`, `closing`, `expires`; `active` | challenge, prepare, login, reports, close, reaper, supervisor | awaits inside every handler; an 85 s deadline that leaves the operation running; a close that takes more than 3 s ends both processes |
| Ratio worker: `ratio_worker.go`, `portal-python/adapter.py` | one Python process per session id | `Call`, `close`, `shutdown` | a timed-out call kills the process by its id |
| Stateless sign-in: `http_auth.go`, `client_state.go`, `direct*.go`, `academia*.go`, `portal_protocol.go` | an encrypted cookie | challenge, login, reports, sign-out | overlapping requests each rewrite the whole state; the last answer wins |
| Boundary: `middleware.go`, `integrity.go`, `logging.go`, `config.go`, `main.go` | `rates` | `allowRate`, origin and payload checks | the table is capped; windows end at an instant two tests treat differently |

### portal-app

| Part | State | Operations | Hard behaviour |
| --- | --- | --- | --- |
| Node application: `src/app.js` | `sessions` (id to portal), `rates` | login, challenge, prepare, login/client, reports, sign-out, timer | a session that expires during an operation is treated as absent by the next request; `drop` forgets before it closes |
| Browser session: `src/portal.js` and helpers | a Playwright context, `authenticated`, a cache | open, refreshChallenge, prepareCaptcha, login, reports, close | external pages; a form that must be submitted once |
| OCR process: `src/ocr-worker.js`, `src/captcha.js` | a child process, `pending` | recognise, stop | one timeout fails every pending recognition |
| Browser application: `public/app.js`, `auth-client.js`, `provider-connections.js`, `report-sync.js` | `authenticated`, `busy`, `reportLoad`, the challenge, the dialog that connects a second provider | startup, sign-in, load, sync, connect, sign-out | three activities await answers at once; late answers after a sign-out, a shared promise, timers |
| Recognition in the browser: `public/client-ocr.js`, `public/ocr-worker.js` | `preloadPromise`, `pending`, a web worker and its `bootPromise` | preload, solve, shutdown | timers race answers; a failed initialisation is forgotten on both sides |
| Computations: `attendance-math.js`, `date-*.js`, `schedule-model.js`, `home-model.js`, `course-details.js` | the calendar dialog: the days selected, the buttons as they were last drawn | predict, classes, calculate, recovery; open, click, update | boundaries, merged classes, past and future days; a report that arrives behind the open dialog |

### ratio-diagnostic, portal-python, supabase, scripts

`ratio-diagnostic/server.py` is a second public server (one request at a time
behind `gate`, sessions kept in an encrypted SQLite file by `session_store.py`);
`sync_schedule.py` computes when reports are refreshed. `upstream/` is vendored.
The Supabase migrations are not used by the program. The rest is packaging.
PROJECT.json lists every part with its files, its status and the reason when it
is left out.

## What is modelled

### GoSessions and WorkerLease

`GoSessions` models the session layer of portal-go. One action is one critical
section of `server.mu`, one worker call coming back, or one release of a slot,
which is where goroutines can interleave. `req[r]` is a goroutine serving a
request: `at` says which call it awaits or which section it runs next. The map
`sessions` is a set of tokens `<<s, g>>`, the g-th token of struct s, so a
lookup by an outdated token fails as it does in Go. `busy`, `authenticated`,
`inflight`, `slots` are the fields of those names; `expired` stands for
`time.Now().After(entry.expires)` and changes at any time; `cache` records whose
report is cached and whether it is still fresh; `reaping[s]` is the goroutine
`Reap` starts for s. A mutation goes route, calling, answered (or dropping when
the session is removed), and gives its slot back after the answer, in the
deferred call. `Ratio` chooses the worker: the ratio worker adds the provider
switch and the close after a 401.

What the worker answers is one of three outcomes (200, 401, anything else), which
are the classes `mutate` and `reports` distinguish; a call may end with any of
them at any time, so a slow worker, a deadline and a client that disconnects are
all included. `account` is what the worker's context is signed in to, taken from
`portal.js` and `adapter.py`.

`WorkerLease` is the abstract promise: a context is lent to one operation at a
time, no more than `PoolSize` are lent at once, and a context given up is never
lent again. `LendsContexts` states that GoSessions implements it, with the
contexts in use and the contexts gone computed from the handlers' states.

### PortalWorker

`PortalWorker` models what stands behind a session: the Node worker of
`worker.mjs`, Go's half of each call (`bridge.Call`, and what `mutate`, `reports`
and `Reap` do with the answer) and the supervisor. `go[i]` is what Go does for
the session id i, `rpc[c]` a request open at the worker; the two are kept apart
because a client that goes away (`GoGivesUp`) ends the first and not the second.
`sessions` is the worker's map, and an entry's `busy`, `expired` and `closing` its
fields (`closing` is the promise: not set, pending, resolved). `context` is the
browser context behind `entry.portal`, `late` a `run()` that goes on after its
deadline.

Node runs one callback at a time, so an action is the code between two awaits:
`reading` ends when the body has been read, `expiring` and `room` await the
closing of expired entries before and after the capacity check, `running` awaits
`run()` or its deadline, `ending` awaits the close that precedes the answer.
Handlers that have been resolved continue before any other callback (`Quiet`).
A close that hangs or fails ends the worker (`CloseStuck`), then Go, and the
platform starts both again (`Restart`). Which calls a session's data allow, and
what the portal answers, is left open: any call on a live session, any outcome.

`ContextPool` is the abstract promise: a context is used by one operation at a
time, nothing begins on one whose closing has begun, none is closed under an
operation that is awaited, and only a closing that has ended makes room.
`KeepsPool` states that the worker implements it, with `Kept`, `InUse` and
`BeingClosed` read off the entries. An operation that has passed its deadline is no
longer in use: its context is closed under it, on purpose.

### NodeSessions

`NodeSessions` models `app.js`, the older public server. A session is named by its
id, which never changes. An action is again the code between two awaits: a request
runs the `/api` middleware and its handler up to the first await at once, then
waits for a drop (`admitted`, `failing`, `leaving`) or for the portal (`working`).
`EntryOf` is `req.portalEntry`: an expired session is absent even while it is
busy, which is what `node_busy` shows. `Drop` forgets the session at once and
`browser` then goes from open through closing to closed. `app.js` does not
implement `ContextPool`: it may drop a session in the middle of an operation, and
its place in the Map is free before its browser has been closed.

### PortalSession

`PortalSession` models one `PortalSession` of `portal.js` with `autoLogin`, the
submission handler of `submission-transport.js`, the observation of
`login-diagnostics.js` and the fingerprint handshake: what one entry of the maps
above holds. Its callers run one operation at a time; `op` is that operation and
`op.at` the await it stands at. `close()`, or the death of the browser, may come
at any of them. From then on every await fails, which is why each step's success
needs `Answers` (the context is open) and its failure needs nothing. `sent` and
`refusals` count what a sign-in told the portal, `route` is the handler that
answers the form's navigation, `watch` the listeners. Which report is fetched
does not matter, only that some failed (`whole`) or the session had expired.

### ClientApp

`ClientApp` models the browser application together with the cookie-only server of
`http_auth.go` it talks to. The server has no state of its own: the session is
the cookie, `ChallengeReplies`, `LoginReplies` and `ReportReplies` say what each
route may answer to a request that carries a given cookie, and the cookie in the
answer is the one the browser then keeps. Requests carry the cookie of the moment
they were sent (`carries`), so overlapping requests overwrite each other as they
do in the program.

`main` is the action that holds the page's `busy` flag, `load` the one report load
everybody shares, `link` the dialog that connects a second provider; an action is
the code between two awaits of one of them. `form` joins the sign-in form and
auth-client's challenge: for which provider it was made (`of`), whether it is
still usable, and its answer. `shown` and `print` are whose reports are on the
page and whose fingerprint is remembered. `account`, `autos` and `overlap` are
history: the account last signed in, the automatic loads of the slot, and
whether a load or a connection was ever open across a change of the session. The
server's answers are outcomes, so an outcome may come at any time.

### Recognition, ClientOcr and NodeOcr

`Recognition` is what a recogniser promises: a request is settled at most once, and
answered only while it was waited for. `ClientOcr` is `client-ocr.js` with the web
worker: `calls` are calls of `solve()`, `preload` the shared promise, `pending` the
ids with a timer, `serving` and `replies` what the worker has received and has
sent. `NodeOcr` is `ocr-worker.js` of the server: `waiting` is `pending`, `child` the
current process (0 for none), `work` what processes, replaced ones included, are
at work on. The worker of either side may hang, fail or answer late.
`MCRecognition` puts the two side by side; each implements `Recognition` through
its `outcome`. What the refinement does not say, that what becomes of a replaced
process changes nothing for its successor, is `SuccessorUndisturbed`.

### Projection

`Projection` models the attendance calendar: the dialog of `date-attendance.js` is
the state (the report, the day, the days selected, the action), and the numbers it
shows are computed from the state by operators that follow `predict`, `classes`,
`calculate` and `recovery`. Which days can be clicked is state of its own: `render()`
disables buttons, the click handler asks nothing, and `update()` changes the report
and the day, empties the selection and draws nothing. `enabled` is what the last
`Render` left enabled, `open` whether the dialog is up; a background sync makes
`Update` possible at any time. So a past day can be selected as leave on a button
drawn the day before, although the dialog says "Past dates allow OD corrections only"
(`index.html:207`): two reports, an opening and a click lead there, and the invariant
`Stale = {}` would be false. The numbers bear it, because `calculate` ignores such
a day (`HoursAccounted`), and there is never more than one, because a click draws
every button again (`OneStaleDay`). The batch is chosen on the page, outside the
modal dialog, and keeps the selection. The days are those of one month. The
properties compare the numbers with definitions of their own (`Listed`, `Exact`) that know nothing of merging, rounding or fields. The
timetable is any sequence of entries as `normalize()` accepts them; `Sorted` is
the one order that JavaScript's stable sort can give.
Percentages are compared exactly; the code compares floating point numbers with
a margin of 1e-9, which is the same for the counts of a semester.

## Runs

| Run | Question | Result |
| --- | --- | --- |
| `go_sessions` | Is the pool consistent on every interleaving of two requests and the reaper? | holds |
| `go_sessions_fair` | Is every request answered, do expired sessions leave, do the unprotected closes of the ratio worker stay alone? | holds |
| `go_sign_out` | Does an acknowledged sign-out end the session? | violated |
| `worker` | Are contexts used by one operation at a time, bounded and findable although Go abandons calls the worker completes, and is whatever anybody waits for under way? | holds |
| `worker_fair` | Is a context Go has forgotten closed in the end, and every request answered? | holds |
| `node` | Are browsers driven by one request, the Map bounded and every open browser in it, requests answered and sessions ended? | holds |
| `node_busy` | Is a browser left alone while a request uses it? | violated |
| `portal` | Is a password sent once and never again after a refusal, do reports stay with their session, is the page left clean, wherever a close or a crash hits? | holds |
| `client` | Does the page show the account signed in until a load or a connection has outlived a session, does a challenge stay with its provider, is a slot synced automatically once, does every action end? | holds |
| `client_sign_out` | Does an acknowledged sign-out leave the browser without a session? | violated |
| `recognition` | Is every recognition settled, once, by processes that hang and crash, and is a process left alone by the end of the one it replaced? | holds |
| `projection` | Is every hour counted once and every number told exact, and is at most one day selected that the dialog would not offer? | holds |

*Bounds.* Two requests are enough for every pairwise race, and the reaper is a
third actor. Two structs with `MaxSessions = 1` make the pool full, so that
reclaiming and the 503 occur; `MaxConcurrent = 2` lets two operations overlap and
the semaphore fill; `MaxTokens = 2` allows one rotation per struct, 3 a second
sign-in. A struct is never reused, so the runs see every session from its
creation to its end. `RouteBeyondBound` answers a request that would exceed the
bound on structs or tokens, and has no counterpart in the code. Three requests
on one session were checked during development and add nothing.

The worker is run with two ids over `MaxSessions = 1`, so that the context of an
abandoned session stands in the way of the next one and `MakeRoom` and `Full`
occur; `MaxConcurrent = 2` lets a close find its session busy, and a third `Call`
shows that the limit, not the model, holds requests back. `worker_fair` needs one
id: nothing but the worker's own timer can then free its context. An id is used
again only when the worker has no trace of it, an `Entry` only when nothing refers
to it: both stand for new ones. `CreateBeyondBound` answers the challenge the
bound on entries cannot serve.

`node` runs two requests and the timer over `MaxSessions = 1`, so that two
sign-ins compete for the one place across their awaits; the second session is the
one that replaces the first. `Full` also answers when the model has no session
left to create.

`portal` fetches up to three reports in an operation (two lists and a breakdown, the
shortest run in which a failure may precede, follow or miss an expiry); the
attempts of `autoLogin` are the code's two. A session that is closed is finished,
so the run does not check for deadlock. `client` has two accounts, the fewest that
can be confused, and both providers; `MaxTries = 2` (5 in the code) has one retry,
after which the last attempt comes. `recognition` has two calls and two
initialisations in the browser, so that a failed one is followed by another; on
the server three images over `Capacity = 2`, which is then exceeded, and two
processes, so that one outlives its replacement. Its requests end, so it does
not check for deadlock. `projection` has three days, two calendars (one with a
holiday, one with a day the calendar does not know) besides none, classes that
merge, a class of unusual length and two batches. Its six reports list one course,
the other, both or none; the counts lie at the target, one hour and three below
it, above it and at nothing conducted. `MaxSpan = 2` (400 in the code) ends
the look-ahead before the last day. Reports and days change at any moment, with
the dialog open or not, so the buttons drawn meet every report and every later day.

*Fairness.* `FairSpec` of `GoSessions` assumes that a goroutine that can run does (the Go
scheduler), that worker calls end (each carries a deadline, `callContext`), and
that the ticker fires. Requests need not arrive and clients need not leave.
`ExpiredLeave` allows a session to stay while all slots are taken, because the
reaper skips it then. `PortalWorker` assumes that callbacks that are due are
served: the request handlers', the deadline's, the closing timeout's and the
reaper's. The fairness is strong because resolved promises come first, so that a
due callback is enabled again and again, not continuously; time passes, so an
entry expires unless it is renewed. A browser operation may never end, and Go
need not do anything. In `PortalSession` most awaits of an operation have a limit,
Playwright's or their own. The others (a new context or page, a script evaluated
in the page) have none: there it is assumed that the browser answers or dies. The
page need not post its form.
`ClientApp` assumes that every request is answered or times out and that a
recognition ends, each of the three activities on its own: nobody need click.
`ClientOcr` and `NodeOcr` assume that timers fire, and that images load or fail;
the workers need do nothing. `NodeSessions` assumes that the portal's operations end
(as `PortalSession` does), that closing a browser context ends, which `app.js`
gives no limit, and that the timer is served.

*Violations.* Each is a behaviour of the code that a document contradicts; the
findings in PROJECT.json quote both.

## Proofs

Every safety property of a passing run, invariant, action property or refinement,
is also proved, for all values of the constants that the named assumptions admit.
So is the type invariant of every module, which the runs therefore do not repeat.
Liveness stays with TLC (`RequestsFinish`, `ExpiredLeave`, `OrphansEnd`, `CallsEnd`,
`RequestsEnd`, `SessionsEnd`, `OperationsEnd`, `ActionsEnd`), because fairness and ENABLED
are outside the prover's reach.

`GoSessions_proofs` proves, for any number of requests, structs, slots and tokens
and for both workers, the type invariant and every safety property that the two
passing runs check, and the refinement. The argument has three layers:

1. `Typed`: types, and that a handler that works on a session names one.
2. `Ownership`: whoever marks an entry busy is alone on it and the entry stays in
   the map under its current token (`OwnersHold`, `ReaperHolds`); a live busy
   entry has such an owner (`BusyHeld`); the handlers that close a context
   without the mark do so for an entry that has left the map for good, one
   handler each (`ClosersPast`); waiters have a leader (`FlightsAreLed`). None of
   the properties is inductive alone: that a removal by token hits the right
   entry needs `TokensCurrent`, that a rotation revives nothing needs
   `OwnersHold`.
3. `SlotsCounted`: the semaphore is the number of handlers and reaper goroutines
   that hold it, by cardinalities; and `MapStep`, from which the bound on the
   pool and the absence of resurrection follow.

The proofs assume `SetsAssumption`, `BoundsAssumption` and `RatioAssumption` only.

`ContextsAreLent` is that the layer implements `WorkerLease`. Each step begins
operations (`StepBegins`: a live session that is not busy, or a new one, is in no
use), ends one (`StepEnds`: whoever keeps a context in use is alone with it) or
changes nothing the worker would notice (`StepStutters`); whether an end gives the
context up follows from the map alone. The capacity (`InvFits`) is an injection
from contexts to slots, for which `RatioOnly` is needed: only for the ratio worker
is a context closed without a slot.

`PortalWorker_proofs` proves the type invariant and the safety properties of
`PortalWorker`, the refinement among them, for any number of sessions, entries and requests, from `WorkerSets`
and `WorkerBounds`. The invariant joins the two sides of the bridge:

1. `Calls`: whoever waits for a request has sent it, and it is still open.
2. `Challenges`: while a challenge is open, Go waits for it or has given the id up,
   so two challenges never run under one id. This is where it matters that Go
   closes a failed challenge instead of trying it again.
3. `Entries` and `Runs`: an entry is in the map under one id until its context is
   closed, and whoever runs on it is alone there.
4. `Waits`: a handler that awaits a closing finds nothing under its id afterwards
   and no other handler waits under that id. Without it, the creation after an
   await could overwrite the entry another handler has filed meanwhile. It needs
   that Node drains resolved promises before it runs the next callback (`Quiet`)
   and, for challenges that wait for room, layer 2.
5. `Awaits`: the closings a handler awaits have begun and were not forgotten, so
   nobody waits for what nobody does (`WaitsBacked`, with layer 1 for Go's side).

`ContextsBounded` follows by an injection from contexts to ids: the size of the
map is looked at in the callback that adds to it. A context that the browser
makes only after its session was dropped and closed (`Opened` with `late`) is
outside both properties: nothing in the worker refers to it any more.

`ContextsArePooled` is that the worker implements `ContextPool`. The invariant is what
tells the steps of a closing apart: that an entry about to be closed is run by
nobody who is awaited comes from `Runs`, that an opening finds a place from the
bound, which counts the contexts being closed as well.

`NodeSessions_proofs` proves the type invariant, `OneOperation` and
`MapBounded` of `NodeSessions`, from `NodeSets` and `NodeBounds`. `OneOperation` alone is not
inductive: the request that creates a session must be the first to mark it, so
`Driven` adds that a session without a browser is driven by nobody, and that a
session in the Map has a browser. Every step then keeps the browsers (`Keeps`) and
changes the drivers in one of three ways: not at all (`Same`), one more (`Takes`)
or one less (`Gives`). The bound of `MapBounded` needs only that a step that adds a
session looks at the size itself; that every open browser is in the Map
(`Reachable`) needs that a session leaves it in the step that begins its closing.

`PortalSession_proofs` proves, for any number of reports, the type invariant and the
three safety properties of the `portal` run. `Attached` says at which awaits
listeners and handler may be on the page (never both a handler and a token
request, which belong to different transports); `Submissions` that nothing has
been sent before the form and while the handler waits, and that a refused
password is the operation's last word; `Reads` that reports are read in a
signed-in session. `SubmitsOnce` needs the two together: that one post passes the
handler says nothing unless the handler is there whenever the form is.

`NodeOcr_proofs` and `Recognition_proofs` prove, for any number of requests, processes and
initialisations, `PendingServed` and `Backed`, and that each recogniser implements
`Recognition`: the initial state maps to the initial state and every step to an
`Ask`, an `Answer`, a `Fail` or a stutter. The refinement is what makes the invariants
grow. On the server an answer must find its request waiting, which follows only
if the current process works on nothing but what is pending (`Current`), and that
only if processes are numbered apart (`Numbered`). In the browser it needs that an
id with a timer belongs to a call that was sent, and that at most one
initialisation is pending (`Sent`). The server's proofs assume `Bounds`, the
browser's `IdsAssumption`. `Recognition_proofs` is about `MCRecognition`, the system of
both: a step of the one leaves the other's variables alone, so the two invariants
and the two refinements hold side by side (`PromisesAreBackedBeside`,
`ServedBeside`, `SystemRecognises`), and so does `SuccessorUndisturbed`
(`UndisturbedBeside`): a child that exits or is heard after its replacement is not
`child` any more, which is all that keeps it from ending its successor.

`ClientApp_proofs` proves the type invariant and the four safety properties of the
`client` run, for any accounts and any number of attempts, from `ClientConstants`.
`RendersOwn` rests on `OwnSessions`, what holds until the first overlap: whatever
carries a session that is signed in carries that of `account`, and a request that
is about to sign in carries none. The second half is what makes it inductive. An
answer `ok` to a request with a session would leave the old account behind the new
name, so a challenge in the form must mean that the sign-in page is shown and the
cookie is not signed in, and a connection with its challenge that its dialog is
open and no load under way. `Places` adds that every overlap is in the history.
`OneAutoPerSlot` needs that the only load that may set the time back is the first
(`Autos`); `ChallengeOfProvider` that a challenge which has aged names its provider
as well (`OfForm`).

`Projection_proofs` proves the three properties of `Projection`, for every timetable,
calendar, report, day and target from 1 to 100 %. The assumptions say what the code
checks of its input: counts are naturals, present at most conducted, a class ends
after it starts and has at least one hour. The state part is small:
`Drawn`, that if a day is selected which the dialog would not offer now, it is the
only one and every button has been drawn since, so no second can follow; from it
`OneDayIsStale`. The rest is about the operators, for every selection.

1. `predict` against its definition (`PredictionsAreExact`): the hours it names reach
   the target and one hour less does not, or they keep it and one more does not,
   from what a rounded quotient is.
2. The list of classes against the timetable: merging changes how many classes a
   day has, never a course's hours in it, whatever comes in between. The list is
   a fold over the sorted entries; that a prefix of it accounts for the same
   entries is shown for the shortest prefix that does not, which cannot exist.
   A fact about all inputs of a recursive function cannot be had by the library's
   induction theorems, which take an operator; a set of counterexamples and its
   least member (`LeastNumber`, `SmallestSet`) is a set, and first-order.
3. The days: the hours up to the last leave are those of each day, added over days
   that are disjoint (`HoursAreAccounted`), attended or missed by the selection.

`Sorted` is a CHOOSE; that the order exists is itself a lemma (`SortedOnce`): the
number of entries before an entry is its place.

## Not modelled

- Request validation, cookies' attributes, logging, configuration, static files
  and packaging: no shared state. The rate tables of both servers are one map
  under one lock, or in one thread.
- Parsing of portal pages, image processing and the choice of a candidate among
  several readings, rendering, console and network diagnostics: their results
  are outcomes in the models.
- The upstream protocol of the stateless sign-in (`direct*.go`, `academia*.go`,
  `portal_protocol.go`): one request sees one portal; its outcome is what
  `LoginReplies` and `ReportReplies` list.
- `app.js`'s older mode for a server with sessions (`loadManualChallenge`), and
  `login-preparation.js`, which no page loads. A browser without Web Workers.
- In `Projection`: date strings, input checks, a timetable typed in by hand, the
  months of the calendar, and opening the dialog with a day, which no caller does.
- `PortalSession.open()` on a session that already has a context, which no caller
  does, and the launch of the browser that all sessions share.
- `ratio-diagnostic` and the Python side of the ratio worker: see the plan.
- When the ratio worker and the stateless path share a server, Academia requests
  take slots too: the model has no such requests, so its slots may be freer
  than the real ones, never leakier.
- The vendored upstream client; Supabase, which the program does not use.

## Plan

Modelled so far: the session layers of both servers, what stands behind a
session (worker and browser session), the browser application, the
recognisers and the computations. What is left, most important first:

1. `RatioDiagnostic`: gate, sweep, rotation, store and crash; the process table of
   the ratio worker.
2. The rate tables, and the times of the automatic sync as dates.
