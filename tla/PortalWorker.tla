----------------------------- MODULE PortalWorker -----------------------------
(***************************************************************************)
(* The Node worker behind portal-go: worker.mjs, which owns one browser    *)
(* context per session, the bridge that calls it (worker.go, operations.go *)
(* and Server.Reap), and the supervisor start.mjs.                         *)
(*                                                                         *)
(* The two sides disagree for a while whenever a client goes away: Go      *)
(* forgets the call, the worker completes it.  A call is therefore kept    *)
(* apart from the session that made it.                                    *)
(*                                                                         *)
(* Node runs one callback at a time and drains the promises it has         *)
(* resolved before the next one: one action is the code between two        *)
(* awaits, and Quiet holds when no awaiting handler has been resolved.     *)
(***************************************************************************)
EXTENDS Integers, FiniteSets

CONSTANTS
  Id,             \* session ids of Go; one without a trace stands for a new one
  Entry,          \* bound: session entries alive in the worker at once
  Call,           \* bound: requests open at the worker at once
  MaxSessions,    \* MAX_SESSIONS, given to both processes
  MaxConcurrent,  \* MAX_CONCURRENT, given to both processes
  None

ASSUME WorkerSets ==
  /\ IsFiniteSet(Id) /\ IsFiniteSet(Entry) /\ IsFiniteSet(Call)
  /\ None \notin Id \cup Entry \cup Call
ASSUME WorkerBounds ==
  MaxSessions \in Nat \ {0} /\ MaxConcurrent \in Nat \ {0}

VARIABLES
  up,         \* the worker process runs
  go,         \* what Go does for each session id
  rpc,        \* the handlers of the worker's open requests
  sessions,   \* the worker's map, id to entry
  busy,       \* entry.busy
  expired,    \* entry.expires <= Date.now()
  closing,    \* entry.closing: not set, pending, resolved
  context,    \* the browser context behind entry.portal
  late        \* run() goes on in this entry though its call has ended

entryVars == <<busy, expired, closing, context, late>>
vars == <<up, go, rpc, sessions, entryVars>>

Action == {"challenge", "prepare", "login", "reports", "close"}
Reply == {"ok", "unauthorized", "failed"}    \* 200, 401, the rest

\* Go holds the session (live), waits for a call on it, has removed it and closes
\* its context (dropping), or knows nothing of the id.
GoState == [at: {"none", "live", "calling", "dropping"},
            action: Action, call: {None} \cup Call]
GoAt(where) == [at |-> where, action |-> "close", call |-> None]

Handler == [at: {"idle", "reading", "expiring", "room", "running", "ending"},
            action: Action, id: {None} \cup Id, entry: {None} \cup Entry,
            waits: SUBSET Entry, reply: Reply]
Idle == [at |-> "idle", action |-> "close", id |-> None, entry |-> None,
         waits |-> {}, reply |-> "ok"]

Active == {c \in Call : rpc[c].at # "idle"}
Filed(e) == \E i \in Id : sessions[i] = e
Size == Cardinality({i \in Id : sessions[i] # None})
Target(i) == {sessions[i]} \ {None}
Listening(c) == rpc[c].id # None /\ go[rpc[c].id].call = c

\* The promises a handler awaits have been resolved.
Resumable(c) ==
  /\ rpc[c].at \in {"expiring", "room", "ending"}
  /\ \A e \in rpc[c].waits : closing[e] = "done"
Quiet == ~\E c \in Call : Resumable(c)

\* An entry nothing refers to; its fields are those of a closed one.
Unused(e) ==
  /\ ~Filed(e) /\ ~late[e] /\ context[e] # "open"
  /\ \A c \in Call : rpc[c].entry # e /\ e \notin rpc[c].waits

Init ==
  /\ up = TRUE
  /\ go = [i \in Id |-> GoAt("none")]
  /\ rpc = [c \in Call |-> Idle]
  /\ sessions = [i \in Id |-> None]
  /\ busy = [e \in Entry |-> TRUE]
  /\ expired = [e \in Entry |-> FALSE]
  /\ closing = [e \in Entry |-> "done"]
  /\ context = [e \in Entry |-> "none"]
  /\ late = [e \in Entry |-> FALSE]

-------------------------------------------------------------------------------
\* Go: bridge.Call and what its callers do with the answer.

\* mutate, reports and Reap: a failed challenge or sign-in is closed in the
\* worker, a report's 401 is not, since the worker has dropped its context.
After(action, reply) ==
  IF action = "close" \/ (action = "reports" /\ reply = "unauthorized")
  THEN GoAt("none")
  ELSE IF \/ action \in {"challenge", "login"} /\ reply # "ok"
          \/ reply = "unauthorized"
       THEN GoAt("dropping")
       ELSE GoAt("live")

\* The worker's 503 when too many requests are open, or nobody answers at all.
Refused == ~up \/ Cardinality(Active) >= MaxConcurrent

SendCall(i, place, action) ==
  IF Refused
  THEN go' = [go EXCEPT ![i] = After(action, "failed")] /\ UNCHANGED rpc
  ELSE \E c \in Call \ Active :
         /\ go' = [go EXCEPT ![i] =
                     [at |-> place, action |-> action, call |-> c]]
         /\ rpc' = [rpc EXCEPT ![c] =
                     [Idle EXCEPT !.at = "reading", !.action = action, !.id = i]]

HoldsSlot == {i \in Id : go[i].at \in {"calling", "dropping"}}
InGoMap == {i \in Id : go[i].at \in {"live", "calling"}}

\* route creates a session: its id is new, so the worker has no trace of it.
GoOpens(i) ==
  /\ go[i].at = "none" /\ Quiet
  /\ sessions[i] = None /\ \A c \in Call : rpc[c].id # i
  /\ Cardinality(InGoMap) < MaxSessions
  /\ Cardinality(HoldsSlot) < MaxConcurrent
  /\ SendCall(i, "calling", "challenge")
  /\ UNCHANGED <<up, sessions, entryVars>>

\* Any action but the first challenge, the closes of a sign-out and of the reaper
\* included; which of them the session's data allow is GoSessions' business.
GoCalls(i, action) ==
  /\ go[i].at = "live" /\ Quiet
  /\ Cardinality(HoldsSlot) < MaxConcurrent
  /\ SendCall(i, "calling", action)
  /\ UNCHANGED <<up, sessions, entryVars>>

\* The close after a removal; the slot of the operation is still held.
GoDrops(i) ==
  /\ go[i].at = "dropping" /\ go[i].call = None /\ Quiet
  /\ SendCall(i, "dropping", "close")
  /\ UNCHANGED <<up, sessions, entryVars>>

\* The client disconnects, or the bridge's deadline passes.
GoGivesUp(i) ==
  /\ go[i].call # None
  /\ go' = [go EXCEPT ![i] = After(go[i].action, "failed")]
  /\ UNCHANGED <<up, rpc, sessions, entryVars>>

-------------------------------------------------------------------------------
\* The worker's handler, from one await to the next.

\* finally: the request is no longer active; its answer reaches who waits for it.
End(c, reply) ==
  /\ rpc' = [rpc EXCEPT ![c] = Idle]
  /\ go' = IF Listening(c)
           THEN [go EXCEPT ![rpc[c].id] = After(rpc[c].action, reply)]
           ELSE go

\* Mutant: an entry being closed is not marked busy.
DropUnmarked(S) ==
  /\ busy' = busy
  /\ closing' = [e \in Entry |->
                   IF e \in S /\ closing[e] = "no" THEN "pending" ELSE closing[e]]

\* Mutant: drop leaves an entry that is busy to whoever uses it.
DropIdle(S) ==
  /\ busy' = [e \in Entry |-> busy[e] \/ e \in S]
  /\ closing' = [e \in Entry |->
                   IF e \in S /\ ~busy[e] /\ closing[e] = "no" THEN "pending" ELSE closing[e]]

\* drop: no operation starts on an entry that is being closed, and it stays in
\* the map until the browser has closed its context.
DropAll(S) ==
  /\ busy' = [e \in Entry |-> busy[e] \/ e \in S]
  /\ closing' = [e \in Entry |->
                   IF e \in S /\ closing[e] = "no" THEN "pending" ELSE closing[e]]

Await(c, place, S, reply) ==
  rpc' = [rpc EXCEPT ![c].at = place, ![c].waits = S, ![c].reply = reply]

\* Mutant: the 409 is forgotten.
NeverTaken(e) == FALSE
Taken(e) == busy[e]

\* The request has been read and its entry looked up.
Reads(c, e) == /\ rpc[c].at = "reading" /\ Quiet
               /\ sessions[rpc[c].id] = e

ReadAborted(c) ==
  /\ rpc[c].at = "reading" /\ Quiet /\ ~Listening(c)
  /\ End(c, "failed")
  /\ UNCHANGED <<up, sessions, entryVars>>

ReadBusy(c) ==
  /\ \E e \in Entry : Reads(c, e) /\ Taken(e)
  /\ End(c, "failed")
  /\ UNCHANGED <<up, sessions, entryVars>>

ReadExpired(c) ==
  \E e \in Entry :
    /\ Reads(c, e) /\ ~Taken(e) /\ expired[e]
    /\ DropAll({e})
    /\ Await(c, "expiring", {e}, "ok")
    /\ UNCHANGED <<up, go, sessions, expired, context, late>>

\* The handler has no entry: none was found, or it has just closed it.
NoEntry(c) == Reads(c, None) \/ (rpc[c].at = "expiring" /\ Resumable(c))
Usable(c, e) == Reads(c, e) /\ ~Taken(e) /\ ~expired[e]

ReadClose(c) ==
  /\ rpc[c].action = "close"
  /\ NoEntry(c) \/ \E e \in Entry : Usable(c, e)
  /\ DropAll(Target(rpc[c].id))
  /\ Await(c, "ending", Target(rpc[c].id), "ok")
  /\ UNCHANGED <<up, go, sessions, expired, context, late>>

ReadMissing(c) ==
  /\ NoEntry(c) /\ rpc[c].action \notin {"close", "challenge"}
  /\ End(c, "unauthorized")
  /\ UNCHANGED <<up, sessions, entryVars>>

\* The map is full: close whatever has expired, then look again.
MakeRoom(c) ==
  /\ NoEntry(c) /\ rpc[c].action = "challenge" /\ Size >= MaxSessions
  /\ LET due == {e \in Entry : Filed(e) /\ ~busy[e] /\ expired[e]} IN
       DropAll(due) /\ Await(c, "room", due, "failed")
  /\ UNCHANGED <<up, go, sessions, expired, context, late>>

Full(c) ==
  /\ rpc[c].at = "room" /\ Resumable(c)
  /\ Size >= MaxSessions
  /\ End(c, "failed")
  /\ UNCHANGED <<up, sessions, entryVars>>

\* Mutant: closing expired sessions is trusted to have made room.
HasRoomOnce(c) == rpc[c].at = "room" \/ Size < MaxSessions
HasRoom(c) == Size < MaxSessions

MayCreate(c) ==
  /\ rpc[c].action = "challenge"
  /\ NoEntry(c) \/ (rpc[c].at = "room" /\ Resumable(c))
  /\ HasRoom(c)

Create(c, e) ==
  /\ MayCreate(c) /\ Unused(e)
  /\ sessions' = [sessions EXCEPT ![rpc[c].id] = e]
  /\ busy' = [busy EXCEPT ![e] = TRUE]
  /\ expired' = [expired EXCEPT ![e] = FALSE]
  /\ closing' = [closing EXCEPT ![e] = "no"]
  /\ context' = [context EXCEPT ![e] = "opening"]
  /\ rpc' = [rpc EXCEPT ![c].at = "running", ![c].entry = e, ![c].waits = {}]
  /\ UNCHANGED <<up, go, late>>

\* Bound: every entry the model has is in use.
CreateBeyondBound(c) ==
  /\ MayCreate(c) /\ ~\E e \in Entry : Unused(e)
  /\ End(c, "failed")
  /\ UNCHANGED <<up, sessions, entryVars>>

Start(c) ==
  /\ rpc[c].action # "close"
  /\ \E e \in Entry :
       /\ Usable(c, e)
       /\ busy' = [busy EXCEPT ![e] = TRUE]
       /\ rpc' = [rpc EXCEPT ![c].at = "running", ![c].entry = e]
  /\ UNCHANGED <<up, go, sessions, expired, closing, context, late>>

-------------------------------------------------------------------------------
\* run(), and the ways it ends.

\* PortalSession.open: the browser has made the context.  One closed before that
\* had no context to close, which takes no time: hence the guard.
Opened(e) ==
  /\ context[e] = "opening" /\ closing[e] # "pending" /\ Quiet
  /\ closing[e] = "done" => late[e]
  /\ context' = [context EXCEPT ![e] = "open"]
  /\ UNCHANGED <<up, go, rpc, sessions, busy, expired, closing, late>>

IdleAgain(e) == busy' = [busy EXCEPT ![e] = closing[e] # "no"]

RunOk(c) ==
  /\ rpc[c].at = "running" /\ Quiet
  /\ LET e == rpc[c].entry IN
       /\ context[e] = "open"
       /\ expired' = [expired EXCEPT ![e] = rpc[c].action = "prepare" /\ expired[e]]
       /\ IdleAgain(e)
  /\ End(c, "ok")
  /\ UNCHANGED <<up, sessions, closing, context, late>>

\* run() throws, or a sign-in is rejected: the session is dropped first.
RunFails(c) ==
  /\ rpc[c].at = "running" /\ Quiet
  /\ \E reply \in {"unauthorized", "failed"} :
       Await(c, "ending", Target(rpc[c].id), reply)
  /\ DropAll(Target(rpc[c].id))
  /\ context' = [context EXCEPT ![rpc[c].entry] = IF @ = "opening" THEN "none" ELSE @]
  /\ UNCHANGED <<up, go, sessions, expired, late>>

\* Mutant: the deadline is not part of the race.
DeadlineUnraced(c) ==
  /\ rpc[c].at = "running" /\ Quiet
  /\ late' = [late EXCEPT ![rpc[c].entry] = TRUE]
  /\ UNCHANGED <<up, go, rpc, sessions, busy, expired, closing, context>>

\* The deadline wins the race: run() is not cancelled, only no longer awaited.
Deadline(c) ==
  /\ rpc[c].at = "running" /\ Quiet
  /\ Await(c, "ending", Target(rpc[c].id), "failed")
  /\ DropAll(Target(rpc[c].id))
  /\ late' = [late EXCEPT ![rpc[c].entry] = TRUE]
  /\ UNCHANGED <<up, go, sessions, expired, context>>

LateEnd(e) ==
  /\ late[e] /\ Quiet
  /\ late' = [late EXCEPT ![e] = FALSE]
  /\ context' = [context EXCEPT ![e] = IF @ = "opening" THEN "none" ELSE @]
  /\ UNCHANGED <<up, go, rpc, sessions, busy, expired, closing>>

Ending(c) ==
  /\ rpc[c].at = "ending" /\ Resumable(c)
  /\ End(c, rpc[c].reply)
  /\ UNCHANGED <<up, sessions, entryVars>>

-------------------------------------------------------------------------------
\* Closing, reaping, and the death of the process.

\* portal.close() has returned: only now is the capacity given back.  expires is
\* never read again.
CloseDone(e) ==
  /\ closing[e] = "pending" /\ Quiet
  /\ closing' = [closing EXCEPT ![e] = "done"]
  /\ sessions' = [i \in Id |-> IF sessions[i] = e THEN None ELSE sessions[i]]
  /\ context' = [context EXCEPT ![e] = IF @ = "open" THEN "none" ELSE @]
  /\ expired' = [expired EXCEPT ![e] = FALSE]
  /\ UNCHANGED <<up, go, rpc, busy, late>>

\* It does not return within three seconds, or fails: onCloseTimeout exits, and
\* the calls Go had made fail.
CloseStuck(e) ==
  /\ closing[e] = "pending" /\ context[e] = "open" /\ Quiet
  /\ up' = FALSE
  /\ go' = [i \in Id |-> IF go[i].call # None
                         THEN After(go[i].action, "failed") ELSE go[i]]
  /\ rpc' = [c \in Call |-> Idle]
  /\ sessions' = [i \in Id |-> None]
  /\ busy' = [f \in Entry |-> TRUE]
  /\ expired' = [f \in Entry |-> FALSE]
  /\ closing' = [f \in Entry |-> "done"]
  /\ context' = [f \in Entry |-> "none"]
  /\ late' = [f \in Entry |-> FALSE]

\* start.mjs ends Go when the worker has exited; the platform starts both again.
Restart ==
  /\ ~up
  /\ up' = TRUE
  /\ go' = [i \in Id |-> GoAt("none")]
  /\ UNCHANGED <<rpc, sessions, entryVars>>

\* Mutant: the reaper spares the sessions Go might still use.
ReapableLive(e) == /\ Filed(e) /\ ~busy[e] /\ expired[e]
                   /\ \E i \in Id : sessions[i] = e /\ go[i].at # "none"
Reapable(e) == Filed(e) /\ ~busy[e] /\ expired[e]

\* Mutant: expired sessions are forgotten before they are closed.
ReapForgetting ==
  /\ Quiet /\ \E e \in Entry : Reapable(e)
  /\ DropAll({e \in Entry : Reapable(e)})
  /\ sessions' = [i \in Id |-> IF sessions[i] \in {e \in Entry : Reapable(e)}
                               THEN None ELSE sessions[i]]
  /\ UNCHANGED <<up, go, rpc, expired, context, late>>

ReapTick ==
  /\ Quiet /\ \E e \in Entry : Reapable(e)
  /\ DropAll({e \in Entry : Reapable(e)})
  /\ UNCHANGED <<up, go, rpc, sessions, expired, context, late>>

Expire(e) ==
  /\ Filed(e) /\ ~expired[e] /\ closing[e] = "no"
  /\ expired' = [expired EXCEPT ![e] = TRUE]
  /\ UNCHANGED <<up, go, rpc, sessions, busy, closing, context, late>>

-------------------------------------------------------------------------------

Go(i) == GoOpens(i) \/ (\E a \in Action : GoCalls(i, a)) \/ GoGivesUp(i)
Read(c) == ReadBusy(c) \/ ReadExpired(c) \/ ReadClose(c) \/ ReadMissing(c)
           \/ MakeRoom(c) \/ Full(c) \/ (\E e \in Entry : Create(c, e))
           \/ CreateBeyondBound(c) \/ Start(c) \/ Ending(c)
Run(c) == RunOk(c) \/ RunFails(c)
Close(e) == CloseDone(e) \/ CloseStuck(e)

Next ==
  \/ \E i \in Id : Go(i) \/ GoDrops(i)
  \/ \E c \in Call : Read(c) \/ ReadAborted(c) \/ Run(c) \/ Deadline(c)
  \/ \E e \in Entry : Opened(e) \/ LateEnd(e) \/ Close(e) \/ Expire(e)
  \/ ReapTick \/ Restart

Spec == Init /\ [][Next]_vars

\* Callbacks that are due are served, though others may come first again and
\* again: hence strong fairness.  A run need not end and Go need do nothing.
Fairness ==
  /\ \A c \in Call : SF_vars(Read(c)) /\ SF_vars(Deadline(c))
  /\ \A e \in Entry : SF_vars(Close(e)) /\ WF_vars(Expire(e))
  /\ SF_vars(ReapTick)
FairSpec == Spec /\ Fairness

-------------------------------------------------------------------------------
\* Properties.

\* Every variable keeps its type.
TypeOK ==
  /\ up \in BOOLEAN
  /\ go \in [Id -> GoState]
  /\ rpc \in [Call -> Handler]
  /\ sessions \in [Id -> {None} \cup Entry]
  /\ busy \in [Entry -> BOOLEAN]
  /\ expired \in [Entry -> BOOLEAN]
  /\ closing \in [Entry -> {"no", "pending", "done"}]
  /\ context \in [Entry -> {"none", "opening", "open"}]
  /\ late \in [Entry -> BOOLEAN]

Running(e) == {c \in Call : rpc[c].at = "running" /\ rpc[c].entry = e}

\* docs/go-backend.md: "browser contexts are not concurrently reused while a
\* canceled operation continues".  An operation has its context to itself, and
\* none runs on a context being closed, whoever asked for the close.
OneRunPerContext ==
  \A e \in Entry :
    /\ \A c, d \in Running(e) : c = d
    /\ Running(e) # {} => Filed(e) /\ closing[e] = "no" /\ ~late[e]

\* The contexts of sessions, those being closed included, stay within capacity:
\* a slow close gives nothing back (drop, 'stuck close is bounded').
ContextsBounded ==
  Cardinality({e \in Entry : context[e] # "none" /\ closing[e] # "done"})
    <= MaxSessions

\* A context can be found through the map, hence expires and is closed, unless
\* the browser made it after its session had been dropped.
ContextsTracked ==
  \A e \in Entry : context[e] = "open" /\ closing[e] # "done" => Filed(e)

\* Nobody waits in vain: Go waits for a request of that session the worker still
\* has, and a handler for closings that have begun, though entries are closed by
\* whoever finds them first.
WaitsBacked ==
  /\ \A i \in Id : go[i].call # None =>
       LET h == rpc[go[i].call] IN
       h.at # "idle" /\ h.id = i /\ h.action = go[i].action
  /\ \A c \in Call : \A e \in rpc[c].waits : closing[e] # "no"

\* A browser context Go has forgotten is closed at last, though the close Go
\* sent for it may have been refused because its session was still busy.
OrphansEnd ==
  \A i \in Id : sessions[i] # None /\ go[i].at = "none" ~> sessions[i] = None

\* Every request the worker accepts is answered, or the process has exited.
CallsEnd == \A c \in Call : rpc[c].at # "idle" ~> rpc[c].at = "idle"

-------------------------------------------------------------------------------
\* The contexts as their users see them.

Kept == {e \in Entry : closing[e] # "done"}
InUse == {e \in Entry : Running(e) # {}}
BeingClosed == {e \in Entry : closing[e] = "pending"}

Pool == INSTANCE ContextPool WITH
  Context <- Entry, PoolSize <- MaxSessions,
  kept <- Kept, inUse <- InUse, ending <- BeingClosed

\* drop, handle: nothing begins on a context whose closing has begun, none is
\* closed under an operation that is awaited, and the place of a context is free
\* only when it has been closed, whichever handler asked for the close.
KeepsPool == Pool!Spec

===============================================================================
